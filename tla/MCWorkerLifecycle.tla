-------------------------- MODULE MCWorkerLifecycle --------------------------
(***************************************************************************)
(* Instances of WorkerLifecycle for TLC.                                   *)
(***************************************************************************)
EXTENDS WorkerLifecycle

Eager(name, isWorker, ticks) ==
    [name |-> name, before |-> <<>>, after |-> <<>>, worker |-> isWorker,
     executeOnStart |-> TRUE, firstExecutionRequired |-> TRUE, interval |-> ticks,
     executes |-> isWorker, maxPass |-> 0, hooked |-> FALSE]

Chain == Eager("ChainPlugin", FALSE, FALSE)
Sync == Eager("TransactionSyncStreamWorker", TRUE, FALSE)

\* Watched, with an interval
Watcher == Eager("Watcher", TRUE, TRUE)
\* Executed by an interval, once per start; not watched
Sweeper == [Watcher EXCEPT !.name = "Sweeper", !.firstExecutionRequired = FALSE, !.maxPass = 1]
\* Started by connect only
Sleeper == [Watcher EXCEPT !.name = "Sleeper", !.executeOnStart = FALSE]
\* Watched, with an onStart and no execute
Listener == [Watcher EXCEPT !.name = "NewBlockWorker", !.executes = FALSE]
\* Standard, with an onInjected; not watched
Slow == [Eager("Slow", FALSE, FALSE) EXCEPT !.firstExecutionRequired = FALSE, !.hooked = TRUE]

\* The default plugins; a worker whose intervals may get lost; a plugin that
\* keeps a watched one from being injected; the worker of the manual
Mixtures == {
    <<<<Chain, Sync>>, <<Sleeper>>>>,
    <<<<>>, <<Sweeper>>>>,
    <<<<>>, <<Watcher, [Slow EXCEPT !.before = <<"Watcher">>]>>>>,
    <<<<>>, <<Listener>>>>}

\* A plugin that is injected and no more
Plain(name, before, after) ==
    [Slow EXCEPT !.name = name, !.before = before, !.after = after,
                 !.executeOnStart = FALSE, !.hooked = FALSE]

\* Three plugins of the user, each placed by those given before it
Names(S) == {<<>>} \cup {<<x>> : x \in S} \cup {<<x, y>> : x \in S, y \in S}
Placements ==
    {<<<<>>, <<Plain("a", <<>>, <<>>), Plain("b", b1, a1), Plain("c", b2, a2)>>>> :
        b1 \in Names({"a"}), a1 \in Names({"a"}),
        b2 \in Names({"a", "b"}), a2 \in Names({"a", "b"})}

Everything == Mixtures \cup Placements
=============================================================================
