----------------------------- MODULE Lifecycle ------------------------------
(***************************************************************************)
(* What a case's lifecycle promises, with no ledger, run or copy in it     *)
(* (the table at the head of builtin/case_lifecycle.go): the case moves    *)
(* along its states, it is concluded only by the approval of somebody      *)
(* other than whoever submitted it, that pair stands until the case is     *)
(* reopened, and a disposed case moves no more.                            *)
(***************************************************************************)
CONSTANTS
    Examiners,      \* who works the case
    Nobody          \* no examiner

VARIABLES
    state,          \* the lifecycle state
    submitter,      \* who submitted it for the review under way or approved
    approver        \* who approved it

vars == <<state, submitter, approver>>

Init ==
    /\ state = "unregistered"
    /\ submitter = Nobody
    /\ approver = Nobody

Move(from, to) ==
    /\ state = from
    /\ state' = to

Register == Move("unregistered", "registered") /\ UNCHANGED <<submitter, approver>>

Activate == Move("registered", "active") /\ UNCHANGED <<submitter, approver>>

Submit(e) ==
    /\ Move("active", "in_review")
    /\ submitter' = e
    /\ UNCHANGED approver

Approve(e) ==
    /\ Move("in_review", "concluded")
    /\ e # submitter
    /\ approver' = e
    /\ UNCHANGED submitter

SendBack ==
    /\ Move("in_review", "active")
    /\ submitter' = Nobody
    /\ UNCHANGED approver

Reopen ==
    /\ Move("concluded", "active")
    /\ submitter' = Nobody
    /\ approver' = Nobody

Retain == Move("concluded", "retained") /\ UNCHANGED <<submitter, approver>>

Dispose == Move("retained", "disposed") /\ UNCHANGED <<submitter, approver>>

Next ==
    \/ Register \/ Activate \/ SendBack \/ Reopen \/ Retain \/ Dispose
    \/ \E e \in Examiners : Submit(e) \/ Approve(e)

Spec == Init /\ [][Next]_vars
=============================================================================
