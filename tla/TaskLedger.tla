----------------------------- MODULE TaskLedger -----------------------------
(***************************************************************************)
(* What RuntimeEventLoop promises of the callbacks it is given, whatever   *)
(* the order it picks: an id is admitted once, a one-shot callback starts  *)
(* at most once and never after it was withdrawn, callbacks never overlap, *)
(* and nothing starts after the loop closed.                               *)
(***************************************************************************)
EXTENDS Integers

VARIABLES
    admitted,   \* the last id given out
    pending,    \* ids whose callback may still start
    periodic,   \* the pending ids that stay pending when they start
    running,    \* the id whose callback is executing, 0 if none
    closed      \* the loop was disposed

ledger == <<admitted, pending, periodic, running, closed>>

Init ==
    /\ admitted = 0
    /\ pending = {}
    /\ periodic = {}
    /\ running = 0
    /\ closed = FALSE

Admit ==
    /\ ~closed
    /\ admitted' = admitted + 1
    /\ pending' = pending \cup {admitted + 1}
    /\ periodic' \in {periodic, periodic \cup {admitted + 1}}
    /\ UNCHANGED <<running, closed>>

Withdraw ==
    /\ ~closed
    /\ pending' \subseteq pending
    /\ periodic' = periodic \cap pending'
    /\ UNCHANGED <<admitted, running, closed>>

Start(id) ==
    /\ ~closed
    /\ running = 0
    /\ id \in pending
    /\ running' = id
    /\ pending' = IF id \in periodic THEN pending ELSE pending \ {id}
    /\ UNCHANGED <<admitted, periodic, closed>>

Return ==
    /\ running # 0
    /\ running' = 0
    /\ UNCHANGED <<admitted, pending, periodic, closed>>

(* The id of an admission that was rolled back is not given out again.     *)
Close ==
    /\ ~closed
    /\ closed' = TRUE
    /\ pending' = {}
    /\ periodic' = {}
    /\ admitted' \in {admitted, admitted + 1}
    /\ running' \in {running, 0}

Next ==
    \/ Admit
    \/ Withdraw
    \/ \E id \in pending : Start(id)
    \/ Return
    \/ Close

Spec == Init /\ [][Next]_ledger
=============================================================================
