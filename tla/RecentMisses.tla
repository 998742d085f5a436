---------------------------- MODULE RecentMisses ----------------------------
(***************************************************************************)
(* What the cache miss log promises: the Capacity most recent misses, the  *)
(* latest first.                                                           *)
(***************************************************************************)
EXTENDS Integers, Sequences

CONSTANTS Entry, Capacity

VARIABLE log

Init == log = <<>>

\* The new miss goes in front; the oldest drops out when the log is full.
Record(e) ==
    log' = [k \in 1 .. (IF Len(log) < Capacity THEN Len(log) + 1 ELSE Capacity) |->
               IF k = 1 THEN e ELSE log[k - 1]]

Next == \E e \in Entry : Record(e)

Spec == Init /\ [][Next]_log
=============================================================================
