------------------------------ MODULE EventLog ------------------------------
(***************************************************************************)
(* What the Service's state store promises of its history, whatever        *)
(* crashes: transactions are committed one at a time, and a committed one  *)
(* is neither lost nor changed.                                            *)
(***************************************************************************)
EXTENDS Sequences, Naturals

VARIABLE log   \* the committed transactions, the i-th with cursor i

Init == log = <<>>

Next == /\ Len(log') = Len(log) + 1
        /\ SubSeq(log', 1, Len(log)) = log

Spec == Init /\ [][Next]_log
=============================================================================
