----------------------------- MODULE Retention -----------------------------
(***************************************************************************)
(* The retention loop the task registry and the channel registry share:    *)
(* a list of retired handles, oldest first, from which the oldest are      *)
(* dropped once the list is longer than its limit.                         *)
(***************************************************************************)
EXTENDS Integers, Sequences

(* How many times the loop runs, the handles it deletes from the registry,  *)
(* and the list it leaves.                                                  *)
Surplus(list, limit)  == IF Len(list) > limit THEN Len(list) - limit ELSE 0
Evicted(list, limit)  == {list[i] : i \in 1..Surplus(list, limit)}
Retained(list, limit) == SubSeq(list, Surplus(list, limit) + 1, Len(list))
=============================================================================
