----------------------------- MODULE MapPromise -----------------------------
(***************************************************************************)
(* What pmap and peach promise their caller: the callback is applied to    *)
(* elements one at a time as far as anybody can tell, no element twice,    *)
(* and the call answers once, with every result in place or with an error  *)
(* after which nothing is applied any more.                                *)
(***************************************************************************)
EXTENDS Integers

CONSTANT N  (* number of elements *)

VARIABLES
  applied,  (* elements whose result is in place  *)
  failed,   (* a callback or a worker has failed  *)
  answer    (* what the call returned             *)

promiseVars == <<applied, failed, answer>>

Elements == 0..(N - 1)

PromiseInit == applied = {} /\ failed = FALSE /\ answer = "none"

Apply(i) ==
  /\ answer = "none"
  /\ i \notin applied
  /\ applied' = applied \cup {i}
  /\ UNCHANGED <<failed, answer>>

Fail ==
  /\ answer = "none"
  /\ failed' = TRUE
  /\ UNCHANGED <<applied, answer>>

AnswerResults ==
  /\ answer = "none"
  /\ ~failed
  /\ applied = Elements
  /\ answer' = "results"
  /\ UNCHANGED <<applied, failed>>

AnswerError ==
  /\ answer = "none"
  /\ failed
  /\ answer' = "error"
  /\ UNCHANGED <<applied, failed>>

PromiseNext == (\E i \in Elements : Apply(i)) \/ Fail \/ AnswerResults \/ AnswerError

PromiseSpec == PromiseInit /\ [][PromiseNext]_promiseVars
=============================================================================
