-------------------------- MODULE MCTransactionSync --------------------------
(***************************************************************************)
(* Instances of TransactionSync for TLC.                                   *)
(*                                                                         *)
(* With Gap 2 the account knows addresses 0 and 1 at first: address 2 of   *)
(* the second block is derived once the first block has been imported, so  *)
(* the first stream's filter lacks it, and the second block's transaction  *)
(* makes the account derive more once again.  In Overtaking a third block  *)
(* uses an address known from the start: a stream with the first filter    *)
(* sends it although it lacks the second block.                            *)
(***************************************************************************)
EXTENDS TransactionSync

Node == {FALSE}
Browser == {TRUE}

Growing(firstTip, skipAll, browsers, kinds) ==
    [chain |-> <<{0}, {2}>>, firstTip |-> firstTip, skipAll |-> skipAll, skipBefore |-> {0},
     browsers |-> browsers, heard |-> TRUE, incidents |-> kinds]
Overtaking(skipAll, skipBefore, browsers, kinds) ==
    [chain |-> <<{0}, {2}, {1}>>, firstTip |-> 3, skipAll |-> skipAll, skipBefore |-> skipBefore,
     browsers |-> browsers, heard |-> TRUE, incidents |-> kinds]

\* One block, for what the other incidents do in a browser, and where nobody
\* listens to 'error'
Single ==
    [chain |-> <<{0}>>, firstTip |-> 1, skipAll |-> BOOLEAN, skipBefore |-> {0},
     browsers |-> BOOLEAN, heard |-> FALSE, incidents |-> IncidentKinds \ Harmless]

\* The first transaction uses an address that its own import derives: only the
\* import with metadata finds it to be the account's.
Sharing ==
    [chain |-> <<{0, 2}, {2}>>, firstTip |-> 1, skipAll |-> {FALSE}, skipBefore |-> {0},
     browsers |-> BOOLEAN, heard |-> TRUE, incidents |-> Harmless \cup {"answer"}]

\* What fails in node; what makes the handlers of a browser wait; the harmless
\* incidents on the longer chain; and no incident on it, from a height on
Troubled == <<
    Growing(1, {FALSE}, Node, IncidentKinds \ Harmless),
    Growing(1, {FALSE}, Browser, Harmless \cup {"server", "stop"}),
    Single,
    Sharing,
    Overtaking({FALSE}, {0}, Node, Harmless),
    Overtaking(BOOLEAN, {1}, BOOLEAN, {})>>
Peaceful == <<Growing(1, BOOLEAN, Node, {"unmined", "stop"})>>
Stopped == <<Growing(2, {FALSE}, Node, {"stop"})>>
=============================================================================
