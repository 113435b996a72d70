--------------------------- MODULE WorkerLifecycle ---------------------------
(***************************************************************************)
(* An account from the injection of its plugins to its disconnection: the  *)
(* chain of injections, the workers with their intervals, the readiness    *)
(* interval, connect and disconnect.                                       *)
(*                                                                         *)
(* The hooks of a plugin (onStart, execute, onStop, onInjected) are        *)
(* promises that settle in turns of their own; what the code does between  *)
(* two of them is one step.  A call that waits for a hook is a record of   *)
(* the plugin, of who made the outermost call and of where it waits:       *)
(*   restop      startWorker, for the stop it begins with                  *)
(*   onStart     startWorker or startPlugin                                *)
(*   execute     execWorker                                                *)
(*   failstop    execWorker, for the stop after an execution that failed   *)
(*   laststop    execWorker, for the stop after workerMaxPass executions   *)
(*   onInjected  injectPlugin                                              *)
(* Calls may be equal, so that they make a bag.  A hook a plugin lacks is  *)
(* one that settles at once, but for a worker's execute, without which     *)
(* execWorker throws.                                                      *)
(***************************************************************************)
EXTENDS PluginOrder, Bags

CONSTANTS
    PluginChoices,  \* what an account may have to inject: a pair of the default
                    \* plugins and the wallet's, each a sequence
    Hearing,        \* whether the wallet has a listener of 'error': values
    MaxConnects,    \* bound on calls of connect
    MaxCalls,       \* bound on the calls under way when an interval adds one
    MaxFailures     \* bound on hooks that reject

\* name, before, after: see PluginOrder.  worker: pluginType, with an interval
\* if workerIntervalTime > 0; executes: it has an execute; maxPass:
\* workerMaxPass, 0 for none; hooked: it has an onInjected that is awaited.
Plugins == UNION {Range(choice[1] \o choice[2]) : choice \in PluginChoices}

ASSUME LifecycleAssumption ==
    /\ \A p \in Plugins :
           /\ DOMAIN p = {"name", "before", "after", "worker", "executeOnStart",
                          "firstExecutionRequired", "interval", "executes", "maxPass", "hooked"}
           /\ {p.worker, p.executeOnStart, p.firstExecutionRequired, p.interval, p.executes,
               p.hooked} \subseteq BOOLEAN
           /\ p.maxPass \in Nat
           /\ p.before \in Seq(STRING) /\ p.after \in Seq(STRING)
    /\ \A choice \in PluginChoices :
           LET plugins == choice[1] \o choice[2]
           IN  /\ choice[1] \in Seq(Plugins) /\ choice[2] \in Seq(Plugins)
               /\ \A i, j \in DOMAIN plugins : plugins[i].name = plugins[j].name => i = j
               /\ \A plugin \in Range(choice[1]) : plugin.before = <<>> /\ plugin.after = <<>>
    /\ Hearing \subseteq BOOLEAN
    /\ MaxConnects \in Nat /\ MaxCalls \in Nat /\ MaxFailures \in Nat

VARIABLES
    order,          \* the sorted plugins; << >> when sorting threw
    heard,          \* has the wallet a listener of 'error'?
    injected,       \* how many injections have begun; Len(order) + 1 after the last
    broken,         \* has an injection rejected?
    calls,
    worker,         \* timer, pass and isWorkerRunning of each worker
    watchReady,     \* the watchers that are ready ...
    announced,      \* ... and those the readiness interval has counted
    readyPlugins,
    polling,        \* is there a readiness interval?
    ready,          \* state.isInitialized and state.isReady
    leaving,        \* disconnect
    toStop,         \* the workers it has still to stop
    connects, failures,
    interrupted,    \* history: workers stopped while execute was under way, or
                    \* executed while the stop of a failed execution was
    unstarted,      \* history: plugins whose onStart rejected
    restless        \* history: did disconnect find a start under way, or a stray interval?

injection == <<order, heard, injected, broken>>
readiness == <<watchReady, announced, readyPlugins, polling, ready>>
departure == <<leaving, toStop>>
bounds == <<connects, failures>>
history == <<interrupted, unstarted, restless>>
vars == <<injection, calls, worker, readiness, departure, bounds, history>>

Plugin == DOMAIN order
Idle == [timer |-> FALSE, stray |-> 0, pass |-> 0, isWorkerRunning |-> FALSE]
Call(p, by, at) == [plugin |-> p, by |-> by, at |-> at]
Waiting == BagToSet(calls)
Replaced(c, at) == (calls (-) SetToBag({c})) (+) SetToBag({[c EXCEPT !.at = at]})
Without(c) == calls (-) SetToBag({c})

\* Once disconnect has removed them, nobody listens to the account's events.
Listening == leaving # "left"
\* emit('error') throws when nobody listens, on the account or on the wallet.
ErrorThrows == ~ heard \/ ~ Listening

\* plugins.workers and plugins.watchers
Registered == {p \in Plugin : p <= injected /\ order[p].worker}
Watchers ==
    {p \in Plugin : p <= injected /\ order[p].executeOnStart /\ order[p].firstExecutionRequired}

\* Mutated form: everybody has a watcher
HeardOfAll(p) == watchReady \cup {p}
\* WORKER/.../EXECUTED and PLUGIN/.../STARTED as the watcher of p hears them:
\* a plugin keeps the listeners the account had when it was injected.
Heard(p) == IF p \in Watchers THEN watchReady \cup {p} ELSE watchReady

\* A worker without an execute
Lacking(p) == order[p].worker /\ ~ order[p].executes

-----------------------------------------------------------------------------
(* Worker                                                                  *)

\* stopWorker up to onStop
\* Mutated form: the interval goes on
StoppedTicking(w) == [w EXCEPT !.pass = 0, !.isWorkerRunning = FALSE]
Stopped(w) == [w EXCEPT !.timer = FALSE, !.pass = 0, !.isWorkerRunning = FALSE]
\* A stop does not wait for the execution it interrupts, and an execution that
\* failed clears isWorkerRunning once its stop has ended, whoever set it by then.
Disturbs(p, at, others) ==
    LET met == CASE at \in {"nothing", "throw"} -> {}
                 [] at = "execute" -> {"failstop"}
                 [] OTHER -> {"execute"}
    IN  interrupted \cup {q \in {p} : \E c \in BagToSet(others) : c.plugin = q /\ c.at \in met}

\* setInterval forgets the handle of an interval that is there already.
Ticking(p, w) ==
    IF ~ order[p].interval THEN w
    ELSE [w EXCEPT !.timer = TRUE, !.stray = IF w.timer THEN @ + 1 ELSE @]

LastPass(p, w) == order[p].maxPass # 0 /\ w.pass >= order[p].maxPass

\* execWorker up to its first await: where it waits, and the worker by then.
\* Without an execute it throws, and leaves isWorkerRunning set.
\* Mutated form: the flag is not looked at
ExecWaitsAnyway(p, w) ==
    CASE LastPass(p, w) -> "laststop"
      [] ~ LastPass(p, w) /\ Lacking(p) -> "throw"
      [] OTHER -> "execute"
ExecWaits(p, w) ==
    CASE w.isWorkerRunning -> "nothing"
      [] ~ w.isWorkerRunning /\ LastPass(p, w) -> "laststop"
      [] ~ w.isWorkerRunning /\ ~ LastPass(p, w) /\ Lacking(p) -> "throw"
      [] OTHER -> "execute"
Entered(p, w) ==
    CASE ExecWaits(p, w) = "nothing" -> w
      [] ExecWaits(p, w) = "laststop" -> Stopped(w)
      [] OTHER -> [w EXCEPT !.isWorkerRunning = TRUE]

\* execWorker after execute; passes are counted for a worker that has a limit
Executed(p, w) ==
    [w EXCEPT !.isWorkerRunning = FALSE, !.pass = IF order[p].maxPass = 0 THEN 0 ELSE @ + 1]

-----------------------------------------------------------------------------
(* Injection                                                               *)

\* A plugin that is not executed on start is injected without waiting.
Waits(p) == order[p].executeOnStart \/ order[p].hooked
NextToWait(p) == Min({q \in Plugin : q >= p /\ Waits(q)} \cup {Len(order) + 1})

\* Injecting from plugin p on, until one has to be waited for
InjectFrom(p, rest, workers) ==
    LET q == NextToWait(p)
        eager == order[q].executeOnStart
    IN  /\ injected' = q
        /\ calls' = IF q \notin Plugin THEN rest
                    ELSE rest (+) SetToBag(
                        {Call(q, "inject", IF eager THEN "onStart" ELSE "onInjected")})
        /\ worker' = IF q \in Plugin /\ eager /\ order[q].worker
                     THEN [workers EXCEPT ![q] = Ticking(q, @)] ELSE workers

\* The outermost call c returns, leaving its worker as w: an injection goes on
\* with onInjected, then with the next plugin.
Return(c, w) ==
    LET workers == [worker EXCEPT ![c.plugin] = w]
        hook == order[c.plugin].hooked /\ c.at # "onInjected"
    IN  /\ \/ c.by = "inject" /\ ~ hook /\ InjectFrom(c.plugin + 1, Without(c), workers)
           \/ /\ c.by # "inject" \/ hook
              /\ calls' = IF c.by = "inject" THEN Replaced(c, "onInjected") ELSE Without(c)
              /\ worker' = workers
              /\ UNCHANGED injected
        /\ UNCHANGED broken

\* It rejects: the chain of injections ends.
Reject(c, w) ==
    /\ broken' = (broken \/ c.by = "inject")
    /\ calls' = Without(c)
    /\ worker' = [worker EXCEPT ![c.plugin] = w]
    /\ UNCHANGED injected

\* startWorker and startPlugin emit what they catch; a tick has nobody to
\* tell, and its promise rejects.
Fail(c, w) == IF c.by = "tick" \/ ErrorThrows THEN Reject(c, w) ELSE Return(c, w)

Init ==
    /\ heard \in Hearing
    /\ \E choice \in PluginChoices :
           LET sorting == SortUserPlugins(choice[1], choice[2])
           IN  /\ order = IF sorting.thrown THEN <<>> ELSE sorting.plugins
               /\ broken = sorting.thrown
    /\ injected = 0
    /\ calls = EmptyBag
    /\ worker = [p \in Plugin |-> Idle]
    /\ watchReady = {} /\ announced = {} /\ readyPlugins = 0 /\ polling = FALSE /\ ready = FALSE
    /\ leaving = "no" /\ toStop = {}
    /\ connects = 0 /\ failures = 0
    /\ interrupted = {} /\ unstarted = {} /\ restless = FALSE

\* _initializeAccount: preparePlugins begins the chain of injections and does
\* not wait for it; nobody has had the account before.
Initialize ==
    /\ injected = 0 /\ ~ broken
    /\ InjectFrom(1, calls, worker)
    /\ polling' = TRUE
    /\ UNCHANGED <<order, heard, broken, watchReady, announced, readyPlugins, ready, departure,
                   bounds, history>>

Initialized == injected > 0 \/ broken

-----------------------------------------------------------------------------
(* Hooks settle                                                            *)

MayFail == failures < MaxFailures /\ failures' = failures + 1

\* startWorker after the stop it began with
Restopped(c) ==
    LET w == Ticking(c.plugin, worker[c.plugin])
    IN  /\ c.at = "restop"
        /\ \/ /\ order[c.plugin].executeOnStart
              /\ calls' = Replaced(c, "onStart")
              /\ worker' = [worker EXCEPT ![c.plugin] = w]
              /\ UNCHANGED <<injected, broken>>
           \/ ~ order[c.plugin].executeOnStart /\ Return(c, w)
        /\ UNCHANGED <<watchReady, failures, interrupted, unstarted>>

\* startWorker goes on to execWorker.
WorkerStarted(c) ==
    LET w == Entered(c.plugin, worker[c.plugin])
        at == ExecWaits(c.plugin, worker[c.plugin])
    IN  /\ c.at = "onStart" /\ order[c.plugin].worker
        /\ \/ at = "nothing" /\ Return(c, w)
           \/ at = "throw" /\ Fail(c, w)
           \/ /\ at \notin {"nothing", "throw"}
              /\ calls' = Replaced(c, at)
              /\ worker' = [worker EXCEPT ![c.plugin] = w]
              /\ UNCHANGED <<injected, broken>>
        /\ interrupted' = Disturbs(c.plugin, at, Without(c))
        /\ UNCHANGED <<watchReady, failures, unstarted>>

\* startPlugin of a Standard plugin
PluginStarted(c) ==
    /\ c.at = "onStart" /\ ~ order[c.plugin].worker
    /\ watchReady' = Heard(c.plugin)
    /\ Return(c, worker[c.plugin])
    /\ UNCHANGED <<failures, interrupted, unstarted>>

StartFailed(c) ==
    /\ c.at = "onStart"
    /\ MayFail
    /\ unstarted' = unstarted \cup {c.plugin}
    /\ Fail(c, worker[c.plugin])
    /\ UNCHANGED <<watchReady, interrupted>>

\* execWorker announces the execution.
ExecutionEnds(c) ==
    /\ c.at = "execute"
    /\ watchReady' = Heard(c.plugin)
    /\ Return(c, Executed(c.plugin, worker[c.plugin]))
    /\ UNCHANGED <<failures, interrupted, unstarted>>

ExecutionFails(c) ==
    /\ c.at = "execute"
    /\ MayFail
    /\ calls' = Replaced(c, "failstop")
    /\ worker' = [worker EXCEPT ![c.plugin] = Stopped(@)]
    /\ interrupted' = Disturbs(c.plugin, "failstop", Without(c))
    /\ UNCHANGED <<injected, broken, watchReady, unstarted>>

\* Mutated form: an execution that failed is not announced
StoppedQuietly(c) ==
    /\ c.at = "failstop"
    /\ Fail(c, worker[c.plugin])
    /\ UNCHANGED <<watchReady, failures, interrupted, unstarted>>
\* The error is emitted, and the execution announced like any other.
StoppedAfterFailure(c) ==
    /\ c.at = "failstop"
    /\ \/ ErrorThrows /\ Reject(c, worker[c.plugin]) /\ UNCHANGED watchReady
       \/ /\ ~ ErrorThrows
          /\ watchReady' = Heard(c.plugin)
          /\ Return(c, Executed(c.plugin, worker[c.plugin]))
    /\ UNCHANGED <<failures, interrupted, unstarted>>

StoppedAfterLast(c) ==
    /\ c.at = "laststop"
    /\ Return(c, worker[c.plugin])
    /\ UNCHANGED <<watchReady, failures, interrupted, unstarted>>

StopFailed(c) ==
    /\ c.at \in {"restop", "failstop", "laststop"}
    /\ MayFail
    /\ Fail(c, worker[c.plugin])
    /\ UNCHANGED <<watchReady, interrupted, unstarted>>

OnInjectedEnds(c) ==
    /\ c.at = "onInjected"
    /\ \/ Return(c, worker[c.plugin]) /\ UNCHANGED failures
       \/ MayFail /\ Reject(c, worker[c.plugin])
    /\ UNCHANGED <<watchReady, interrupted, unstarted>>

Settle(c) ==
    /\ \/ Restopped(c) \/ WorkerStarted(c) \/ PluginStarted(c) \/ StartFailed(c)
       \/ ExecutionEnds(c) \/ ExecutionFails(c)
       \/ StoppedAfterFailure(c) \/ StoppedAfterLast(c) \/ StopFailed(c)
       \/ OnInjectedEnds(c)
    /\ UNCHANGED <<order, heard, announced, readyPlugins, polling, ready, departure, connects,
                   restless>>

-----------------------------------------------------------------------------
(* Intervals                                                               *)

\* An interval calls execWorker; one that is running returns at once, one that
\* throws is heard by nobody.
Tick(p) ==
    LET at == ExecWaits(p, worker[p])
    IN  /\ worker[p].timer \/ worker[p].stray > 0
        /\ at # "nothing"
        /\ BagCardinality(calls) < MaxCalls
        /\ calls' = IF at = "throw" THEN calls ELSE calls (+) SetToBag({Call(p, "tick", at)})
        /\ worker' = [worker EXCEPT ![p] = Entered(p, @)]
        /\ interrupted' = Disturbs(p, at, calls)
        /\ UNCHANGED <<injection, readiness, departure, bounds, unstarted, restless>>

\* Mutated form: a watcher is counted at every turn once it is ready
NewlyReadyAgain == watchReady
NewlyReady == watchReady \ announced

\* The readiness interval of _initializeAccount
PollReadiness ==
    /\ polling
    /\ announced' = announced \cup NewlyReady
    /\ readyPlugins' = readyPlugins + Cardinality(NewlyReady)
    /\ ready' = (readyPlugins' = Cardinality(Watchers))
    /\ polling' = ~ ready'
    /\ UNCHANGED <<injection, calls, worker, watchReady, departure, bounds, history>>

-----------------------------------------------------------------------------
(* connect and disconnect                                                  *)

\* Account.connect starts every worker and awaits none.
Begun(p) == IF worker[p].timer THEN "restop"
            ELSE IF order[p].executeOnStart THEN "onStart" ELSE "nothing"
Connect ==
    /\ Initialized
    /\ connects < MaxConnects
    /\ connects' = connects + 1
    /\ worker' = [p \in Plugin |->
           IF p \notin Registered THEN worker[p]
           ELSE IF worker[p].timer THEN Stopped(worker[p]) ELSE Ticking(p, worker[p])]
    /\ calls' = calls (+) SetToBag({Call(p, "connect", Begun(p)) :
                                        p \in {q \in Registered : Begun(q) # "nothing"}})
    /\ interrupted' = interrupted \cup
           UNION {Disturbs(p, "restop", calls) : p \in {q \in Registered : worker[q].timer}}
    /\ restless' = (restless \/ leaving # "no")
    /\ UNCHANGED <<injection, readiness, departure, failures, unstarted>>

Disconnect ==
    /\ Initialized
    /\ leaving = "no"
    /\ leaving' = "transport"
    /\ restless' = \/ restless
                   \/ injected \in Plugin /\ ~ broken
                   \/ \E c \in Waiting : c.by # "tick"
                   \/ \E p \in Plugin : worker[p].stray > 0
    /\ UNCHANGED <<injection, calls, worker, readiness, toStop, bounds, interrupted, unstarted>>

\* It stops the workers one after the other, those of the moment it looks.
StopNext(workers) ==
    /\ toStop' = workers
    /\ leaving' = IF workers = {} THEN "saving" ELSE "stopping"
    /\ worker' = IF workers = {} THEN worker ELSE [worker EXCEPT ![Min(workers)] = Stopped(@)]
    /\ interrupted' = IF workers = {} THEN interrupted ELSE Disturbs(Min(workers), "stop", calls)

TransportDisconnected ==
    /\ leaving = "transport"
    /\ StopNext(Registered)
    /\ UNCHANGED <<injection, calls, readiness, bounds, unstarted, restless>>

WorkerStopped ==
    /\ leaving = "stopping"
    /\ StopNext(toStop \ {Min(toStop)})
    /\ UNCHANGED <<injection, calls, readiness, bounds, unstarted, restless>>

\* The state is saved, the listeners and the readiness interval removed.
StateSaved ==
    /\ leaving = "saving"
    /\ leaving' = "left"
    /\ polling' = FALSE
    /\ UNCHANGED <<injection, calls, worker, watchReady, announced, readyPlugins, ready, toStop,
                   bounds, history>>

\* A rejection of any of them ends it where it is.
DisconnectFails ==
    /\ leaving \in {"transport", "stopping", "saving"}
    /\ MayFail
    /\ leaving' = "failed"
    /\ UNCHANGED <<injection, calls, worker, readiness, toStop, connects, history>>

Next ==
    \/ Initialize
    \/ \E c \in Waiting : Settle(c)
    \/ \E p \in Plugin : Tick(p)
    \/ PollReadiness
    \/ Connect
    \/ Disconnect \/ TransportDisconnected \/ WorkerStopped \/ StateSaved \/ DisconnectFails

Spec == Init /\ [][Next]_vars

\* Hooks settle and intervals go on; nobody has to connect or disconnect.
Longest == Max({Len(choice[1] \o choice[2]) : choice \in PluginChoices})
FairSpec ==
    /\ Spec
    /\ WF_vars(Initialize) /\ WF_vars(PollReadiness)
    /\ \A p \in 1..Longest :
           /\ WF_vars(\E c \in Waiting : c.plugin = p /\ Settle(c))
           /\ WF_vars(p \in Plugin /\ Tick(p))

-----------------------------------------------------------------------------
WorkerState ==
    [timer: BOOLEAN, stray: 0..MaxConnects, pass: Nat, isWorkerRunning: BOOLEAN]

TypeOK ==
    /\ heard \in BOOLEAN /\ broken \in BOOLEAN
    /\ injected \in 0..Len(order) + 1
    /\ IsABag(calls)
    /\ \A c \in Waiting : c.plugin \in Plugin
    /\ worker \in [Plugin -> WorkerState]
    /\ announced \subseteq watchReady /\ watchReady \subseteq Watchers
    /\ readyPlugins \in Nat
    /\ polling \in BOOLEAN /\ ready \in BOOLEAN
    /\ leaving \in {"no", "transport", "stopping", "saving", "left", "failed"}
    /\ toStop \subseteq Registered
    /\ connects \in 0..MaxConnects /\ failures \in 0..MaxFailures
    /\ interrupted \subseteq Plugin /\ unstarted \subseteq Plugin /\ restless \in BOOLEAN

\* A plugin begins to be injected when all it is to come after, and no plugin
\* it is to come before, have been; only the first name of before counts.
\* Later insertions keep what the earlier ones arranged.
InjectionOrderKept ==
    \A p \in Plugin : p <= injected =>
        /\ \A name \in Range(order[p].after) :
               \E q \in Plugin : order[q].name = name /\ q < p
                   /\ \A c \in Waiting : c.plugin = q => c.by # "inject"
        /\ order[p].before # <<>> =>
               \A q \in Plugin : order[q].name = order[p].before[1] => q > p

\* execWorker runs once at a time, whoever calls it, unless a stop came while
\* it ran (stopWorker clears isWorkerRunning and does not wait) or a start did
\* while a failed execution was being stopped (it clears the flag again).
OneExecution ==
    \A p \in Plugin \ interrupted :
        \A c, d \in {e \in Waiting : e.plugin = p /\ e.at = "execute"} : c = d /\ calls[c] = 1

\* The account announces that it is ready when every plugin it watches by then
\* has had its first execution.  (A plugin whose injection has not begun is
\* not watched yet.)
ReadyWhenWatchedRan == [][ready # ready' => Watchers \subseteq watchReady]_vars

\* With somebody hearing the errors, and one hook failing at most, the account
\* becomes ready, unless it is disconnected, the chain of injections is broken,
\* a plugin that no interval executes did not start, or it watches a worker
\* without an execute, which never announces its first execution.
BecomesReady ==
    heard => <>(\/ ready \/ leaving # "no" \/ broken
                \/ \E p \in unstarted : ~ order[p].interval
                \/ \E p \in Watchers : Lacking(p))

\* Whoever announces that p is executed, or sees to it that it will be
Serving(p) ==
    \/ \E c \in Waiting : c.plugin = p /\ c.at \in {"restop", "onStart", "execute", "failstop"}
    \/ worker[p].timer \/ worker[p].stray > 0
\* A plugin that no interval executes
Unrepeated(p) == ~ (order[p].worker /\ order[p].interval)

\* The account does not wait for what cannot come: the chain of injections has
\* a call until it ends or breaks; an interval looks until the account is ready
\* or left; and, with somebody hearing the errors, each watched plugin that is
\* not ready is on its way to be, unless it did not start and has no interval,
\* or is a worker without an execute: that one is forgotten though it started.
\* (A second failure may stop the interval that makes up for the first.)
NoWatcherForgotten ==
    /\ injected \in Plugin /\ ~ broken => \E c \in Waiting : c.by = "inject"
    /\ injected > 0 /\ leaving # "left" => ready \/ polling
    /\ heard /\ leaving = "no" /\ failures <= 1 =>
           \A p \in Watchers \ watchReady :
               Serving(p) \/ (p \in unstarted /\ Unrepeated(p)) \/ Lacking(p)

\* disconnect "will stop all running workers": when it finds all injections
\* and starts ended, no interval outlives it and no worker starts again,
\* whatever executions it interrupts.
DisconnectIsFinal ==
    leaving = "left" /\ ~ restless =>
        /\ \A p \in Plugin : ~ worker[p].timer /\ worker[p].stray = 0
        /\ \A c \in Waiting : c.at \notin {"restop", "onStart", "onInjected"}
=============================================================================
