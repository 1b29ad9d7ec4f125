----------------------------- MODULE CaseProofs -----------------------------
(***************************************************************************)
(* Proofs about module Case, for any number of examiners, records,         *)
(* redaction versions, holds and exhibits, and about module Roles, for any *)
(* threads, examiners and roles: what the case's ledger accepts, and under *)
(* which role an examiner comes to write to it.                            *)
(***************************************************************************)
EXTENDS Case, Roles, TLAPS

USE DEF Roles, States, Unregistered, Closing

-----------------------------------------------------------------------------
(* What a lifecycle event does. *)

\* A lifecycle event that makes a move the reader knows keeps the types of
\* what it writes and leaves the chain readable (caseWriter.lifecycleFor).
LEMMA LifecycleForTyped ==
    ASSUME TypeOK, NEW e \in Examiners, NEW to \in States,
           LifecycleFor(e, to), LifecycleReads(life, to)
    PROVE  /\ life' = to
           /\ copy' \in [Examiners -> States \cup {Unregistered}]
           /\ inStep' \in [Examiners -> BOOLEAN]
           /\ current' \in BOOLEAN
           /\ readable' = TRUE
BY Zenon DEF TypeOK, LifecycleFor

\* It is appended by the one run attached by an open handle, which updates its
\* own copy; so every such run is still in step.
LEMMA LifecycleForInStep ==
    ASSUME TypeOK, Lockstep, NEW e \in Examiners, NEW to \in States,
           Writes(e), LifecycleFor(e, to), UNCHANGED <<store, attached>>
    PROVE  Lockstep'
BY DEF TypeOK, Lockstep, Writes, LifecycleFor

\* What moves no case and attaches no run leaves every run in step.
LEMMA IdleInStep ==
    ASSUME Lockstep, UNCHANGED <<life, copy, inStep, store, attached>>
    PROVE  Lockstep'
BY DEF Lockstep

-----------------------------------------------------------------------------
(* Each builtin keeps the invariant. *)

\* case_open and case_key_open touch the run alone.
LEMMA CaseOpenKeeps ==
    ASSUME Inv, NEW e \in Examiners, NEW r \in Roles, CaseOpen(e, r)
    PROVE  Inv'
<1>1. TypeOK'
  BY DEF Inv, TypeOK, Subjects, ledger, outside, runs, CaseOpen
<1>2. Lockstep'
  BY DEF Inv, TypeOK, Lockstep, ledger, outside, runs, CaseOpen
<1>3. Approval'
  BY DEF Inv, TypeOK, Approval, Subjects, ledger, outside, runs, CaseOpen
<1>4. Settled'
  BY DEF Inv, TypeOK, Settled, UnderHold, ledger, outside, runs, CaseOpen
<1>5. readable'
  BY DEF Inv, TypeOK, ledger, outside, runs, CaseOpen
<1> QED
  BY <1>1, <1>2, <1>3, <1>4, <1>5 DEF Inv

\* case_key_rotate never makes a file the ledger says is erased one that is not:
\* what it puts back counts as restored.
LEMMA KeyRotateKeeps ==
    ASSUME Inv, NEW e \in Examiners, KeyRotate(e)
    PROVE  Inv'
<1>1. UNCHANGED <<life, assigned, asked, asker, approver, period, hold, erased, keyErased, item,
                  readable, current, store, role, attached, copy, inStep>>
  BY Zenon DEF KeyRotate, ledger
<1>2. /\ hasKey' \in [Examiners -> BOOLEAN]
      /\ keyFile' \in {"there", "gone", "restored"}
      /\ keyErased => keyFile' # "there"
  BY DEF KeyRotate
<1>3. TypeOK'
  BY <1>1, <1>2, Zenon DEF Inv, TypeOK
<1> QED
  BY <1>1, <1>2, <1>3, Zenon DEF Inv, Lockstep, Approval, Settled, UnderHold

\* ledger_open takes a store nobody has open, so no run is attached through it
\* yet.
LEMMA LedgerOpenKeeps ==
    ASSUME Inv, NEW e \in Examiners, LedgerOpen(e)
    PROVE  Inv'
<1>1. TypeOK'
  BY DEF Inv, TypeOK, Subjects, ledger, outside, runs, LedgerOpen
<1>2. Lockstep'
  BY NobodyAssumption DEF Inv, TypeOK, Lockstep, ledger, outside, runs, LedgerOpen
<1>3. Approval'
  BY DEF Inv, TypeOK, Approval, Subjects, ledger, outside, runs, LedgerOpen
<1>4. Settled'
  BY DEF Inv, TypeOK, Settled, UnderHold, ledger, outside, runs, LedgerOpen
<1>5. readable'
  BY DEF Inv, TypeOK, ledger, outside, runs, LedgerOpen
<1> QED
  BY <1>1, <1>2, <1>3, <1>4, <1>5 DEF Inv

\* ledger_close leaves the case attached through a handle nothing can use.
LEMMA LedgerCloseKeeps ==
    ASSUME Inv, NEW e \in Examiners, LedgerClose(e)
    PROVE  Inv'
<1>1. TypeOK'
  BY DEF Inv, TypeOK, Subjects, ledger, outside, runs, LedgerClose
<1>2. Lockstep'
  BY DEF Inv, TypeOK, Lockstep, ledger, outside, runs, LedgerClose
<1>3. Approval'
  BY DEF Inv, TypeOK, Approval, Subjects, ledger, outside, runs, LedgerClose
<1>4. Settled'
  BY DEF Inv, TypeOK, Settled, UnderHold, ledger, outside, runs, LedgerClose
<1>5. readable'
  BY DEF Inv, TypeOK, ledger, outside, runs, LedgerClose
<1> QED
  BY <1>1, <1>2, <1>3, <1>4, <1>5 DEF Inv

\* The end of a run drops its copy with it.
LEMMA EndKeeps ==
    ASSUME Inv, NEW e \in Examiners, End(e)
    PROVE  Inv'
<1>1. TypeOK'
  BY DEF Inv, TypeOK, Subjects, ledger, outside, runs, End
<1>2. Lockstep'
  BY DEF Inv, TypeOK, Lockstep, ledger, outside, runs, End
<1>3. Approval'
  BY DEF Inv, TypeOK, Approval, Subjects, ledger, outside, runs, End
<1>4. Settled'
  BY DEF Inv, TypeOK, Settled, UnderHold, ledger, outside, runs, End
<1>5. readable'
  BY DEF Inv, TypeOK, ledger, outside, runs, End
<1> QED
  BY <1>1, <1>2, <1>3, <1>4, <1>5 DEF Inv

\* case_attach takes the copy from the ledger it has open.
LEMMA AttachKeeps ==
    ASSUME Inv, NEW e \in Examiners, Attach(e)
    PROVE  Inv'
<1>1. TypeOK'
  BY DEF Inv, TypeOK, Subjects, ledger, outside, runs, Attach
<1>2. Lockstep'
  BY DEF Inv, TypeOK, Lockstep, ledger, outside, runs, Attach
<1>3. Approval'
  BY DEF Inv, TypeOK, Approval, Subjects, ledger, outside, runs, Attach
<1>4. Settled'
  BY DEF Inv, TypeOK, Settled, UnderHold, ledger, outside, runs, Attach
<1>5. readable'
  BY DEF Inv, TypeOK, ledger, outside, runs, Attach
<1> QED
  BY <1>1, <1>2, <1>3, <1>4, <1>5 DEF Inv

\* The first case_attach registers the case.
LEMMA RegisterKeeps ==
    ASSUME Inv, NEW e \in Examiners, Register(e)
    PROVE  Inv'
<1>1. TypeOK'
  BY Zenon DEF Inv, TypeOK, Subjects, ledger, outside, runs, Register, LifecycleFor, LifecycleReads
<1>2. Lockstep'
  BY Zenon DEF Inv, TypeOK, Lockstep, ledger, outside, runs, Register, LifecycleFor, LifecycleReads
<1>3. Approval'
  BY DEF Inv, TypeOK, Approval, Subjects, ledger, outside, runs, Register, LifecycleFor,
     LifecycleReads
<1>4. Settled'
  BY DEF Inv, TypeOK, Settled, UnderHold, ledger, outside, runs, Register, LifecycleFor,
     LifecycleReads
<1>5. readable'
  BY DEF Inv, TypeOK, ledger, outside, runs, Register, LifecycleFor, LifecycleReads
<1> QED
  BY <1>1, <1>2, <1>3, <1>4, <1>5 DEF Inv

\* case_assign changes nothing but the assignment.
LEMMA AssignKeeps ==
    ASSUME Inv, NEW e \in Examiners,
           NEW x \in Examiners, NEW r \in Roles \cup {"none"}, Assign(e, x, r)
    PROVE  Inv'
<1>1. TypeOK'
  BY DEF Inv, TypeOK, Subjects, ledger, outside, runs, Assign
<1>2. Lockstep'
  BY DEF Inv, TypeOK, Lockstep, ledger, outside, runs, Assign
<1>3. Approval'
  BY DEF Inv, TypeOK, Approval, Subjects, ledger, outside, runs, Assign
<1>4. Settled'
  BY DEF Inv, TypeOK, Settled, UnderHold, ledger, outside, runs, Assign
<1>5. readable'
  BY DEF Inv, TypeOK, ledger, outside, runs, Assign
<1> QED
  BY <1>1, <1>2, <1>3, <1>4, <1>5 DEF Inv

\* case_write changes nothing in the ledger.
LEMMA CaseWriteKeeps ==
    ASSUME Inv, NEW e \in Examiners, CaseWrite(e)
    PROVE  Inv'
<1>1. TypeOK'
  BY ZenonT(30) DEF Inv, TypeOK, Subjects, ledger, outside, runs, CaseWrite
<1>2. Lockstep'
  BY DEF Inv, TypeOK, Lockstep, ledger, outside, runs, CaseWrite
<1>3. Approval'
  BY DEF Inv, TypeOK, Approval, Subjects, ledger, outside, runs, CaseWrite
<1>4. Settled'
  BY DEF Inv, TypeOK, Settled, UnderHold, ledger, outside, runs, CaseWrite
<1>5. readable'
  BY DEF Inv, TypeOK, ledger, outside, runs, CaseWrite
<1> QED
  BY <1>1, <1>2, <1>3, <1>4, <1>5 DEF Inv

\* case_transition makes a move the reader knows; a disposal has everything it
\* needs.
LEMMA CaseTransitionKeeps ==
    ASSUME Inv, NEW e \in Examiners, NEW to \in States, CaseTransition(e, to)
    PROVE  Inv'
<1>1. TypeOK'
  BY Zenon DEF Inv, TypeOK, Subjects, ledger, outside, runs, CaseTransition, LifecycleFor,
     LifecycleReads, Moves, TransitionMoves, Disposable, Writes
<1>2. Lockstep'
  BY DEF Inv, TypeOK, Lockstep, ledger, outside, runs, CaseTransition, LifecycleFor,
     LifecycleReads, Moves, TransitionMoves, Disposable, Writes
<1>3. Approval'
  BY DEF Inv, TypeOK, Approval, Subjects, ledger, outside, runs, CaseTransition, LifecycleFor,
     LifecycleReads, Moves, TransitionMoves, Disposable, Writes
<1>4. Settled'
  BY Zenon DEF Inv, TypeOK, Settled, UnderHold, ledger, outside, runs, CaseTransition, LifecycleFor,
     LifecycleReads, Moves, TransitionMoves, Disposable, Writes
<1>5. readable'
  BY DEF Inv, TypeOK, ledger, outside, runs, CaseTransition, LifecycleFor, LifecycleReads, Moves,
     TransitionMoves, Disposable, Writes
<1> QED
  BY <1>1, <1>2, <1>3, <1>4, <1>5 DEF Inv

\* review_request opens a review of the case exactly when it puts it in review.
LEMMA ReviewRequestKeeps ==
    ASSUME Inv, NEW e \in Examiners, NEW s \in Subjects,
           ReviewRequest(e, s)
    PROVE  Inv'
<1> DEFINE to == "in_review"
<1>0. to \in States
  OBVIOUS
<1>1. CASE s = "case"
  <2>1. LifecycleFor(e, to) /\ LifecycleReads(life, to)
    BY <1>1 DEF ReviewRequest, LifecycleReads, Moves
  <2> HIDE DEF to
  <2>2. /\ life' = to
        /\ copy' \in [Examiners -> States \cup {Unregistered}]
        /\ inStep' \in [Examiners -> BOOLEAN]
        /\ current' \in BOOLEAN
        /\ readable' = TRUE
    BY <1>0, <2>1, LifecycleForTyped, Zenon DEF Inv
  <2>3. TypeOK'
    BY <1>0, <1>1, <2>2, ZenonT(40) DEF Inv, TypeOK, ReviewRequest, Subjects
  <2>4. Lockstep'
    <3>1. Writes(e) /\ UNCHANGED <<store, attached>>
      BY DEF ReviewRequest
    <3> QED
      BY <1>0, <2>1, <3>1, LifecycleForInStep DEF Inv
  <2> QED
    BY <1>1, <2>2, <2>3, <2>4, NobodyAssumption, Zenon DEF to, Inv, TypeOK, Approval, Settled,
       UnderHold, ReviewRequest, Subjects, Refuses
<1>2. CASE ~(s = "case")
  <2>1. UNCHANGED <<life, copy, inStep, current, readable>>
    BY <1>2 DEF ReviewRequest
  <2>2. TypeOK'
    BY <1>2, <2>1 DEF Inv, TypeOK, ReviewRequest, Subjects
  <2>3. Lockstep'
    <3>1. UNCHANGED <<store, attached>>
      BY DEF ReviewRequest
    <3> QED
      BY <2>1, <3>1, IdleInStep DEF Inv
  <2> QED
    BY <1>2, <2>1, <2>2, <2>3, Zenon DEF Inv, TypeOK, Approval, Settled, UnderHold, ReviewRequest,
       Subjects, Refuses
<1> QED
  BY <1>1, <1>2

\* review_decide closes the review it moves the case out of, and an approval is
\* somebody else's.
LEMMA ReviewDecideKeeps ==
    ASSUME Inv, NEW e \in Examiners, NEW s \in Subjects, NEW approved \in BOOLEAN,
           ReviewDecide(e, s, approved)
    PROVE  Inv'
<1> DEFINE to == IF approved THEN "concluded" ELSE "active"
<1>0. to \in States
  OBVIOUS
<1>1. CASE s = "case"
  <2>1. LifecycleFor(e, to) /\ LifecycleReads(life, to)
    BY <1>1 DEF ReviewDecide, LifecycleReads, Moves
  <2> HIDE DEF to
  <2>2. /\ life' = to
        /\ copy' \in [Examiners -> States \cup {Unregistered}]
        /\ inStep' \in [Examiners -> BOOLEAN]
        /\ current' \in BOOLEAN
        /\ readable' = TRUE
    BY <1>0, <2>1, LifecycleForTyped, Zenon DEF Inv
  <2>3. TypeOK'
    BY <1>0, <1>1, <2>2 DEF Inv, TypeOK, ReviewDecide, Subjects
  <2>4. Lockstep'
    <3>1. Writes(e) /\ UNCHANGED <<store, attached>>
      BY DEF ReviewDecide
    <3> QED
      BY <1>0, <2>1, <3>1, LifecycleForInStep DEF Inv
  <2> QED
    BY <1>1, <2>2, <2>3, <2>4, NobodyAssumption, Zenon DEF to, Inv, TypeOK, Approval, Settled,
       UnderHold, ReviewDecide, Subjects, Refuses
<1>2. CASE ~(s = "case")
  <2>1. UNCHANGED <<life, copy, inStep, current, readable>>
    BY <1>2 DEF ReviewDecide
  <2>2. TypeOK'
    BY <1>2, <2>1, ZenonT(30) DEF Inv, TypeOK, ReviewDecide, Subjects
  <2>3. Lockstep'
    <3>1. UNCHANGED <<store, attached>>
      BY DEF ReviewDecide
    <3> QED
      BY <2>1, <3>1, IdleInStep DEF Inv
  <2> QED
    BY <1>2, <2>1, <2>2, <2>3, ZenonT(40) DEF Inv, TypeOK, Approval, Settled, UnderHold, ReviewDecide,
       Subjects, Refuses
<1> QED
  BY <1>1, <1>2

\* retention_set retains a concluded case and moves no other.
LEMMA RetentionSetKeeps ==
    ASSUME Inv, NEW e \in Examiners, NEW p \in {"running", "lapsed"},
           RetentionSet(e, p)
    PROVE  Inv'
<1> DEFINE to == "retained"
<1>0. to \in States
  OBVIOUS
<1>1. CASE life = "concluded"
  <2>1. LifecycleFor(e, to) /\ LifecycleReads(life, to)
    BY <1>1 DEF RetentionSet, LifecycleReads, Moves
  <2> HIDE DEF to
  <2>2. /\ life' = to
        /\ copy' \in [Examiners -> States \cup {Unregistered}]
        /\ inStep' \in [Examiners -> BOOLEAN]
        /\ current' \in BOOLEAN
        /\ readable' = TRUE
    BY <1>0, <2>1, LifecycleForTyped, Zenon DEF Inv
  <2>3. TypeOK'
    BY <1>0, <1>1, <2>2, ZenonT(40) DEF Inv, TypeOK, RetentionSet, Subjects
  <2>4. Lockstep'
    <3>1. Writes(e) /\ UNCHANGED <<store, attached>>
      BY DEF RetentionSet
    <3> QED
      BY <1>0, <2>1, <3>1, LifecycleForInStep DEF Inv
  <2> QED
    BY <1>1, <2>2, <2>3, <2>4, NobodyAssumption, Zenon DEF to, Inv, TypeOK, Approval, Settled,
       UnderHold, RetentionSet, Subjects
<1>2. CASE ~(life = "concluded")
  <2>1. UNCHANGED <<life, copy, inStep, current, readable>>
    BY <1>2 DEF RetentionSet
  <2>2. TypeOK'
    BY <1>2, <2>1, Zenon DEF Inv, TypeOK, RetentionSet, Subjects
  <2>3. Lockstep'
    <3>1. UNCHANGED <<store, attached>>
      BY DEF RetentionSet
    <3> QED
      BY <2>1, <3>1, IdleInStep DEF Inv
  <2> QED
    BY <1>2, <2>1, <2>2, <2>3, Zenon DEF Inv, TypeOK, Approval, Settled, UnderHold, RetentionSet, Subjects
<1> QED
  BY <1>1, <1>2

\* retention_hold is refused in a disposed case.
LEMMA RetentionHoldKeeps ==
    ASSUME Inv, NEW e \in Examiners, NEW h \in Holds, RetentionHold(e, h)
    PROVE  Inv'
<1>1. TypeOK'
  BY DEF Inv, TypeOK, Subjects, ledger, outside, runs, RetentionHold, HoldEvent, Refuses
<1>2. Lockstep'
  BY Zenon DEF Inv, TypeOK, Lockstep, ledger, outside, runs, RetentionHold, HoldEvent, Refuses
<1>3. Approval'
  BY Zenon DEF Inv, TypeOK, Approval, Subjects, ledger, outside, runs, RetentionHold, HoldEvent, Refuses
<1>4. Settled'
  BY Zenon DEF Inv, TypeOK, Settled, UnderHold, ledger, outside, runs, RetentionHold, HoldEvent, Refuses
<1>5. readable'
  BY Zenon DEF Inv, TypeOK, ledger, outside, runs, RetentionHold, HoldEvent, Refuses
<1> QED
  BY <1>1, <1>2, <1>3, <1>4, <1>5 DEF Inv

\* retention_release lifts a hold the reader finds in force.
LEMMA RetentionReleaseKeeps ==
    ASSUME Inv, NEW e \in Examiners, NEW h \in Holds, RetentionRelease(e, h)
    PROVE  Inv'
<1>1. TypeOK'
  BY DEF Inv, TypeOK, Subjects, ledger, outside, runs, RetentionRelease, HoldEvent, Refuses
<1>2. Lockstep'
  BY Zenon DEF Inv, TypeOK, Lockstep, ledger, outside, runs, RetentionRelease, HoldEvent, Refuses
<1>3. Approval'
  BY Zenon DEF Inv, TypeOK, Approval, Subjects, ledger, outside, runs, RetentionRelease, HoldEvent,
     Refuses
<1>4. Settled'
  BY Zenon DEF Inv, TypeOK, Settled, UnderHold, ledger, outside, runs, RetentionRelease, HoldEvent,
     Refuses
<1>5. readable'
  BY Zenon DEF Inv, TypeOK, ledger, outside, runs, RetentionRelease, HoldEvent, Refuses
<1> QED
  BY <1>1, <1>2, <1>3, <1>4, <1>5 DEF Inv

\* record_erase appends nothing after the erasure of every key.
LEMMA RecordEraseKeeps ==
    ASSUME Inv, NEW e \in Examiners, NEW r \in Records, RecordErase(e, r)
    PROVE  Inv'
<1>1. TypeOK'
  BY ZenonT(30) DEF Inv, TypeOK, Subjects, ledger, outside, runs, RecordErase
<1>2. Lockstep'
  BY Zenon DEF Inv, TypeOK, Lockstep, ledger, outside, runs, RecordErase
<1>3. Approval'
  BY Zenon DEF Inv, TypeOK, Approval, Subjects, ledger, outside, runs, RecordErase
<1>4. Settled'
  BY Zenon DEF Inv, TypeOK, Settled, UnderHold, ledger, outside, runs, RecordErase
<1>5. readable'
  BY Zenon DEF Inv, TypeOK, ledger, outside, runs, RecordErase
<1> QED
  BY <1>1, <1>2, <1>3, <1>4, <1>5 DEF Inv

\* case_key_erase removes the file before the ledger says so.
LEMMA CaseKeyEraseKeeps ==
    ASSUME Inv, NEW e \in Examiners, CaseKeyErase(e)
    PROVE  Inv'
<1>1. TypeOK'
  BY ZenonT(30) DEF Inv, TypeOK, Subjects, ledger, outside, runs, CaseKeyErase, KeyDestroyed,
     KeyErasable, EraseKey
<1>2. Lockstep'
  BY Zenon DEF Inv, TypeOK, Lockstep, ledger, outside, runs, CaseKeyErase, KeyDestroyed,
     KeyErasable, EraseKey
<1>3. Approval'
  BY Zenon DEF Inv, TypeOK, Approval, Subjects, ledger, outside, runs, CaseKeyErase, KeyDestroyed,
     KeyErasable, EraseKey
<1>4. Settled'
  BY Zenon DEF Inv, TypeOK, Settled, UnderHold, ledger, outside, runs, CaseKeyErase, KeyDestroyed,
     KeyErasable, EraseKey
<1>5. readable'
  BY Zenon DEF Inv, TypeOK, ledger, outside, runs, CaseKeyErase, KeyDestroyed,
     KeyErasable, EraseKey
<1> QED
  BY <1>1, <1>2, <1>3, <1>4, <1>5 DEF Inv

\* A key erasure the ledger did not record leaves the ledger as it was.
LEMMA CaseKeyEraseUnrecordedKeeps ==
    ASSUME Inv, NEW e \in Examiners, CaseKeyEraseUnrecorded(e)
    PROVE  Inv'
<1>1. TypeOK'
  BY ZenonT(30) DEF Inv, TypeOK, Subjects, ledger, outside, runs, CaseKeyEraseUnrecorded,
     KeyDestroyed, KeyErasable, EraseKey
<1>2. Lockstep'
  BY Zenon DEF Inv, TypeOK, Lockstep, ledger, outside, runs, CaseKeyEraseUnrecorded,
     KeyDestroyed, KeyErasable, EraseKey
<1>3. Approval'
  BY Zenon DEF Inv, TypeOK, Approval, Subjects, ledger, outside, runs, CaseKeyEraseUnrecorded,
     KeyDestroyed, KeyErasable, EraseKey
<1>4. Settled'
  BY Zenon DEF Inv, TypeOK, Settled, UnderHold, ledger, outside, runs, CaseKeyEraseUnrecorded,
     KeyDestroyed, KeyErasable, EraseKey
<1>5. readable'
  BY Zenon DEF Inv, TypeOK, ledger, outside, runs, CaseKeyEraseUnrecorded,
     KeyDestroyed, KeyErasable, EraseKey
<1> QED
  BY <1>1, <1>2, <1>3, <1>4, <1>5 DEF Inv

\* case_key_erase of one generation changes what the ledger records as erased.
LEMMA CaseKeyEraseOneKeeps ==
    ASSUME Inv, NEW e \in Examiners, NEW k \in EarlierKeys, CaseKeyEraseOne(e, k)
    PROVE  Inv'
<1>1. TypeOK'
  BY ZenonT(30) DEF Inv, TypeOK, Subjects, outside, runs, CaseKeyEraseOne
<1>2. Lockstep'
  BY Zenon DEF Inv, Lockstep, outside, runs, CaseKeyEraseOne
<1>3. Approval'
  BY Zenon DEF Inv, Approval, CaseKeyEraseOne
<1>4. Settled'
  BY Zenon DEF Inv, Settled, UnderHold, outside, CaseKeyEraseOne
<1>5. readable'
  BY Zenon DEF CaseKeyEraseOne, KeyErasable
<1> QED
  BY <1>1, <1>2, <1>3, <1>4, <1>5 DEF Inv

\* A custody event the reader accepts changes the exhibit and nothing else.
LEMMA EvidenceAppendKeeps ==
    ASSUME Inv, NEW e \in Examiners, NEW x \in Exhibits, NEW kind \in DOMAIN EvidenceMoves,
           NEW to \in Examiners \cup {Nobody}, NEW comparison,
           EvidenceCheck(item[x], kind, e, comparison),
           EvidenceAppend(e, x, kind, to, comparison)
    PROVE  Inv'
<1>1. UNCHANGED <<life, assigned, asked, asker, approver, period, hold, erased,
                  keyErased, outside, runs>>
  BY Zenon DEF EvidenceAppend
<1>2. readable' = TRUE
  BY Zenon DEF EvidenceAppend
<1>3. item' \in [Exhibits -> [state : {"absent", "held", "in_transit", "returned", "disposed"},
                             holder : Examiners \cup {Nobody}, to : Examiners \cup {Nobody}]]
  <2> DEFINE after == EvidenceMoves[kind].to
             was   == [state : {"absent", "held", "in_transit", "returned", "disposed"},
                       holder : Examiners \cup {Nobody}, to : Examiners \cup {Nobody}]
  <2>1. after \in {"held", "in_transit", "returned", "disposed"}
    BY DEF EvidenceMoves
  <2>2. HolderAfter(after, e) \in Examiners \cup {Nobody}
    BY Zenon DEF HolderAfter
  <2>3. item \in [Exhibits -> was]
    BY Zenon DEF Inv, TypeOK
  <2>4. item' = [item EXCEPT ![x] = [state |-> after, holder |-> HolderAfter(after, e), to |-> to]]
    BY Zenon DEF EvidenceAppend
  <2> HIDE DEF after
  <2>5. [state |-> after, holder |-> HolderAfter(after, e), to |-> to] \in was
    BY <2>1, <2>2
  <2> HIDE DEF was
  <2> QED BY <2>3, <2>4, <2>5, Zenon DEF was
<1>4. TypeOK'
  BY <1>1, <1>2, <1>3 DEF Inv, TypeOK, outside, runs
<1> QED
  BY <1>1, <1>2, <1>4, Zenon DEF Inv, Lockstep, Approval, Settled, UnderHold, outside, runs

\* Each custody builtin appends only what the reader accepts: its own refusals
\* are at least as strict as evidenceCheck's.
LEMMA HandleKeeps ==
    ASSUME Inv, NEW e \in Examiners, Handle(e)
    PROVE  Inv'
<1>1. PICK x \in Exhibits :
        \/ EvidenceIntake(e, x)
        \/ \E to \in Examiners : EvidenceRelease(e, x, to)
        \/ EvidenceReturn(e, x)
        \/ EvidenceDispose(e, x)
        \/ \E same, discrepancy \in BOOLEAN :
               \/ EvidenceAccept(e, x, same, discrepancy)
               \/ EvidenceReintake(e, x, same, discrepancy)
  BY DEF Handle
<1>0. {"intake", "release", "accept", "return", "reintake", "dispose"} \subseteq DOMAIN EvidenceMoves
  BY Zenon DEF EvidenceMoves
<1>2. CASE EvidenceIntake(e, x)
  <2>1. EvidenceCheck(item[x], "intake", e, NoComparison)
    BY <1>2, Zenon DEF EvidenceIntake, EvidenceCheck, EvidenceMoves, NoComparison
  <2> QED
    BY <1>0, <1>2, <2>1, EvidenceAppendKeeps, Zenon DEF EvidenceIntake
<1>3. ASSUME NEW to \in Examiners, EvidenceRelease(e, x, to) PROVE Inv'
  <2>1. EvidenceCheck(item[x], "release", e, NoComparison)
    BY <1>3, Zenon DEF EvidenceRelease, HeldBy, EvidenceCheck, EvidenceMoves, NoComparison
  <2> QED
    BY <1>0, <1>3, <2>1, EvidenceAppendKeeps DEF EvidenceRelease
<1>4. CASE EvidenceReturn(e, x)
  <2>1. EvidenceCheck(item[x], "return", e, NoComparison)
    BY <1>4, Zenon DEF EvidenceReturn, HeldBy, EvidenceCheck, EvidenceMoves, NoComparison
  <2> QED
    BY <1>0, <1>4, <2>1, EvidenceAppendKeeps DEF EvidenceReturn
<1>5. CASE EvidenceDispose(e, x)
  <2>1. EvidenceCheck(item[x], "dispose", e, NoComparison)
    BY <1>5, Zenon DEF EvidenceDispose, HeldBy, EvidenceCheck, EvidenceMoves, NoComparison
  <2> QED
    BY <1>0, <1>5, <2>1, EvidenceAppendKeeps DEF EvidenceDispose
<1>6. ASSUME NEW same \in BOOLEAN, NEW discrepancy \in BOOLEAN,
             EvidenceAccept(e, x, same, discrepancy)
      PROVE  Inv'
  <2>1. EvidenceCheck(item[x], "accept", e, Comparison(same, discrepancy))
    BY <1>6, Zenon DEF EvidenceAccept, Explained, EvidenceCheck, EvidenceMoves, Comparison
  <2> QED
    BY <1>0, <1>6, <2>1, EvidenceAppendKeeps, Zenon DEF EvidenceAccept
<1>7. ASSUME NEW same \in BOOLEAN, NEW discrepancy \in BOOLEAN,
             EvidenceReintake(e, x, same, discrepancy)
      PROVE  Inv'
  <2>1. EvidenceCheck(item[x], "reintake", e, Comparison(same, discrepancy))
    BY <1>7, Zenon DEF EvidenceReintake, Explained, EvidenceCheck, EvidenceMoves, Comparison
  <2> QED
    BY <1>0, <1>7, <2>1, EvidenceAppendKeeps, Zenon DEF EvidenceReintake
<1> QED
  BY <1>1, <1>2, <1>3, <1>4, <1>5, <1>6, <1>7

\* The date a case is kept until only ever lapses.
LEMMA PeriodRunsKeeps ==
    ASSUME Inv, PeriodRuns
    PROVE  Inv'
BY ZenonT(40) DEF Inv, TypeOK, Lockstep, Approval, Settled, UnderHold, PeriodRuns, outside, runs

-----------------------------------------------------------------------------
(* The theorems. *)

\* The invariant holds at the start and every step keeps it.
LEMMA InvInit == Init => Inv
<1> SUFFICES ASSUME Init PROVE Inv
  OBVIOUS
<1>1. TypeOK
  BY Zenon DEF Init, TypeOK, Subjects
<1>2. Lockstep
  BY DEF Init, Lockstep
<1>3. Approval
  BY DEF Init, Approval, Subjects
<1>4. Settled
  BY DEF Init, Settled, UnderHold
<1> QED
  BY <1>1, <1>2, <1>3, <1>4 DEF Init, Inv

LEMMA InvNext == Inv /\ [Next]_vars => Inv'
<1> SUFFICES ASSUME Inv, [Next]_vars PROVE Inv'
  OBVIOUS
<1>1. ASSUME NEW e \in Examiners, Session(e) PROVE Inv'
  BY <1>1, CaseOpenKeeps, LedgerOpenKeeps, LedgerCloseKeeps, EndKeeps, AttachKeeps, RegisterKeeps,
     AssignKeeps, CaseWriteKeeps, CaseTransitionKeeps, KeyRotateKeeps DEF Session
<1>2. ASSUME NEW e \in Examiners, Review(e) PROVE Inv'
  BY <1>2, ReviewRequestKeeps, ReviewDecideKeeps DEF Review
<1>3. ASSUME NEW e \in Examiners, Keep(e) PROVE Inv'
  BY SMTT(30), <1>3, RetentionSetKeeps, RetentionHoldKeeps, RetentionReleaseKeeps, RecordEraseKeeps,
     CaseKeyEraseKeeps, CaseKeyEraseUnrecordedKeeps, CaseKeyEraseOneKeeps DEF Keep
<1>4. CASE UNCHANGED vars
  <2>1. /\ UNCHANGED <<life, assigned, asked, asker, approver, period, hold, erased, keyErased, item, readable>>
        /\ UNCHANGED <<keyFile, current, store>> /\ UNCHANGED <<role, hasKey, attached, copy, inStep>>
    BY <1>4, Zenon DEF vars, ledger, outside, runs
  <2>2. TypeOK' /\ readable'
    BY <2>1 DEF Inv, TypeOK
  <2>3. Lockstep' /\ Approval' /\ Settled'
    BY <2>1, Zenon DEF Inv, Lockstep, Approval, Settled, UnderHold
  <2> QED BY <2>2, <2>3 DEF Inv
<1> QED
  BY <1>1, <1>2, <1>3, <1>4, HandleKeeps, PeriodRunsKeeps DEF Next

\* The inductive invariant holds in every reachable state.
THEOREM Invariance == Spec => []Inv
<1>1. Init => Inv
  BY InvInit
<1>2. Inv /\ [Next]_vars => Inv'
  BY InvNext
<1> QED
  BY <1>1, <1>2, PTL DEF Spec

\* A run attached by the handle it has open answers state questions as the
\* ledger would, whatever the other runs do (case_attach, lifecycleFor).
THEOREM CopyIsExact == Spec => []CopyExact
<1>1. Inv => CopyExact
  BY DEF Inv, Lockstep, CopyExact
<1> QED
  BY <1>1, Invariance, PTL

\* No builtin of these modules appends to the lifecycle, the retention, the
\* erasure or a custody chain an event the chain's reader refuses
\* (caseLifecycleRead, retentionRead, erasureRead, evidenceCheck).
THEOREM ReadersAlwaysAccept == Spec => []ReadersAccept
<1>1. Inv => ReadersAccept
  BY DEF Inv, ReadersAccept
<1> QED
  BY <1>1, Invariance, PTL

\* A disposed case is settled: no hold, a lapsed period, an erased key whose
\* file is gone or was put back by a rotation that had read it, and somebody
\* else's approval (CaseTransition, caseDisposalRefusal, CaseKeyRotate).
THEOREM DisposedSettled == Spec => []DisposedIsSettled
<1>1. Inv => DisposedIsSettled
  BY DEF Inv, Approval, Settled, DisposedIsSettled
<1> QED
  BY <1>1, Invariance, PTL

-----------------------------------------------------------------------------
(* What groups of steps leave alone. *)

\* Opening and closing, attaching a known case, writing the manifest and
\* rotating the key leave the ledger as it is and remove no key file.
LEMMA RunSteps ==
    ASSUME NEW e \in Examiners,
           \/ \E r \in Roles : CaseOpen(e, r)
           \/ LedgerOpen(e) \/ LedgerClose(e) \/ End(e) \/ Attach(e) \/ CaseWrite(e)
           \/ KeyRotate(e)
    PROVE  /\ UNCHANGED <<life, assigned, asked, asker, approver, period, hold, erased,
                          keyErased, item>>
           /\ keyFile' = "gone" => keyFile = "gone"
<1>1. UNCHANGED ledger
  BY Zenon DEF CaseOpen, LedgerOpen, LedgerClose, End, Attach, CaseWrite, KeyRotate
<1>2. UNCHANGED keyFile \/ KeyRotate(e)
  BY Zenon DEF CaseOpen, LedgerOpen, LedgerClose, End, Attach, CaseWrite, outside
<1>3. keyFile' = "gone" => keyFile = "gone"
  BY <1>2 DEF KeyRotate
<1> QED
  BY <1>1, <1>3 DEF ledger

\* The evidence builtins change nothing but exhibits.
LEMMA ExhibitSteps ==
    ASSUME NEW e \in Examiners, Handle(e)
    PROVE  UNCHANGED <<life, assigned, asked, asker, approver, period, hold, erased,
                       keyErased, keyFile>>
<1>1. ASSUME NEW x, NEW kind, NEW to, NEW comparison, EvidenceAppend(e, x, kind, to, comparison)
      PROVE  UNCHANGED <<life, assigned, asked, asker, approver, period, hold, erased,
                         keyErased, keyFile>>
  BY <1>1, Zenon DEF EvidenceAppend, outside
<1> QED
  BY <1>1, Zenon DEF Handle, EvidenceIntake, EvidenceRelease, EvidenceReturn, EvidenceDispose,
     EvidenceAccept, EvidenceReintake

\* While a hold is in force nothing is disposed of or erased: not an exhibit,
\* not a record, not the key, not the case (retentionHoldRefusal).
THEOREM HoldsStop == Spec => HoldStops
<1> DEFINE Kept == /\ \A x \in Exhibits : item'[x].state = "disposed" => item[x].state = "disposed"
                   /\ erased' = erased
                   /\ keyFile' = "gone" => keyFile = "gone"
                   /\ life' = "disposed" => life = "disposed"
<1>1. Inv /\ [Next]_vars => [UnderHold => Kept]_vars
  <2> SUFFICES ASSUME Inv, Next, UnderHold PROVE Kept
    BY DEF vars
  <2>0. ASSUME UNCHANGED <<item, erased>>, keyFile' = "gone" => keyFile = "gone", life' # "disposed" \/ UNCHANGED life
        PROVE  Kept
    BY <2>0
  <2>1. ASSUME NEW e \in Examiners, Session(e) PROVE Kept
    <3>1. ASSUME Register(e) PROVE Kept
      BY <2>0, <3>1, Zenon DEF Register, LifecycleFor
    <3>2. ASSUME NEW x \in Examiners, NEW r \in Roles \cup {"none"}, Assign(e, x, r) PROVE Kept
      BY <2>0, <3>2, Zenon DEF Assign, outside
    <3>3. ASSUME NEW to \in States, CaseTransition(e, to) PROVE Kept
      BY <2>0, <3>3, Zenon DEF CaseTransition, LifecycleFor, Disposable
    <3> HIDE DEF Kept
    <3> QED
      BY <2>0, <2>1, <3>1, <3>2, <3>3, RunSteps, Zenon DEF Session
  <2>2. ASSUME NEW e \in Examiners, Review(e) PROVE Kept
    <3>1. ASSUME NEW s \in Subjects, ReviewRequest(e, s) PROVE Kept
      BY <2>0, <3>1, Zenon DEF ReviewRequest, LifecycleFor
    <3>2. ASSUME NEW s \in Subjects, NEW approved \in BOOLEAN, ReviewDecide(e, s, approved)
          PROVE  Kept
      BY <2>0, <3>2, Zenon DEF ReviewDecide, LifecycleFor
    <3> HIDE DEF Kept
    <3> QED
      BY <2>2, <3>1, <3>2 DEF Review
  <2>3. ASSUME NEW e \in Examiners, Keep(e) PROVE Kept
    <3>1. ASSUME NEW p \in {"running", "lapsed"}, RetentionSet(e, p) PROVE Kept
      BY <2>0, <3>1, Zenon DEF RetentionSet, LifecycleFor
    <3>2. ASSUME NEW h \in Holds, RetentionHold(e, h) \/ RetentionRelease(e, h) PROVE Kept
      BY <2>0, <3>2, Zenon DEF RetentionHold, RetentionRelease, HoldEvent, outside
    <3> HIDE DEF Kept
    <3> QED
      BY <2>3, <3>1, <3>2, Zenon DEF Keep, RecordErase, CaseKeyErase, CaseKeyEraseUnrecorded, KeyDestroyed,
         CaseKeyEraseOne, KeyErasable
  <2>4. ASSUME NEW e \in Examiners, Handle(e) PROVE Kept
    <3>1. ASSUME NEW x \in Exhibits, NEW kind \in {"intake", "release", "accept", "return", "reintake"},
                 NEW to, NEW comparison, EvidenceAppend(e, x, kind, to, comparison)
          PROVE  \A y \in Exhibits : item'[y].state = "disposed" => item[y].state = "disposed"
      <4>1. EvidenceMoves[kind].to # "disposed"
        BY DEF EvidenceMoves
      <4>2. \E by : item' = [item EXCEPT ![x] = [state |-> EvidenceMoves[kind].to, holder |-> by, to |-> to]]
        BY <3>1, Zenon DEF EvidenceAppend
      <4>3. item = [y \in Exhibits |-> item[y]]
        BY Zenon DEF Inv, TypeOK
      <4> QED
        BY <4>1, <4>2, <4>3, SMTT(30)
    <3>2. \A y \in Exhibits : item'[y].state = "disposed" => item[y].state = "disposed"
      BY <2>4, <3>1, Zenon DEF Handle, EvidenceIntake, EvidenceRelease, EvidenceReturn, EvidenceDispose,
         EvidenceAccept, EvidenceReintake
    <3> QED
      BY <2>4, <3>2, ExhibitSteps, Zenon
  <2>5. CASE PeriodRuns
    BY <2>0, <2>5, Zenon DEF PeriodRuns, outside
  <2> HIDE DEF Kept
  <2> QED
    BY <2>1, <2>2, <2>3, <2>4, <2>5 DEF Next
<1> QED
  BY <1>1, Invariance, PTL DEF Spec, HoldStops

\* A case is disposed of only settled and with every exhibit out of anybody's
\* hands, it stays settled, and nothing of a disposed case changes but where a
\* returned exhibit is (caseDisposalRefusal, caseStateRefuses).
THEOREM DisposalFinal == Spec => DisposalIsFinal
<1> DEFINE Final == /\ life # "disposed" /\ life' = "disposed" =>
                          \A x \in Exhibits : item[x].state \in {"absent", "returned", "disposed"}
                    /\ life = "disposed" =>
                          UNCHANGED <<life, assigned, asked, period, hold, erased, keyErased>>
<1>1. Inv /\ [Next]_vars => [Final]_vars
  <2> SUFFICES ASSUME Inv, Next PROVE Final
    BY DEF vars
  <2>0. ASSUME \/ UNCHANGED <<life, assigned, asked, period, hold, erased, keyErased>>
               \/ life # "disposed" /\ (life' # "disposed" \/ UNCHANGED life)
        PROVE  Final
    BY <2>0
  <2>1. ASSUME NEW e \in Examiners, Session(e) PROVE Final
    <3>1. ASSUME Register(e) PROVE Final
      BY <2>0, <3>1, Zenon DEF Register, LifecycleFor, Unregistered
    <3>2. ASSUME NEW x \in Examiners, NEW r \in Roles \cup {"none"}, Assign(e, x, r) PROVE Final
      BY <2>0, <3>2, Zenon DEF Assign, Refuses
    <3>3. ASSUME NEW to \in States, CaseTransition(e, to) PROVE Final
      BY <3>3, Zenon DEF CaseTransition, LifecycleFor, TransitionMoves, Disposable
    <3> HIDE DEF Final
    <3> QED
      BY <2>0, <2>1, <3>1, <3>2, <3>3, RunSteps, Zenon DEF Session
  <2>2. ASSUME NEW e \in Examiners, Review(e) PROVE Final
    <3>1. ASSUME NEW s \in Subjects, ReviewRequest(e, s) PROVE Final
      BY <2>0, <3>1, Zenon DEF ReviewRequest, LifecycleFor, Refuses
    <3>2. ASSUME NEW s \in Subjects, NEW approved \in BOOLEAN, ReviewDecide(e, s, approved)
          PROVE  Final
      BY <2>0, <3>2, Zenon DEF ReviewDecide, LifecycleFor, Refuses
    <3> HIDE DEF Final
    <3> QED
      BY <2>2, <3>1, <3>2 DEF Review
  <2>3. ASSUME NEW e \in Examiners, Keep(e) PROVE Final
    <3>1. ASSUME NEW p \in {"running", "lapsed"}, RetentionSet(e, p) PROVE Final
      BY <2>0, <3>1, Zenon DEF RetentionSet, LifecycleFor
    <3>2. ASSUME NEW h \in Holds, RetentionHold(e, h) \/ RetentionRelease(e, h) PROVE Final
      BY <2>0, <3>2, Zenon DEF RetentionHold, RetentionRelease, HoldEvent, Refuses
    <3>3. ASSUME NEW r \in Records, RecordErase(e, r) PROVE Final
      BY <2>0, <3>3, Zenon DEF RecordErase, Refuses
    <3>4. ASSUME KeyDestroyed(e) PROVE Final
      BY <2>0, <3>4, Zenon DEF KeyDestroyed, KeyErasable, Refuses
    <3>5. ASSUME NEW k \in EarlierKeys, CaseKeyEraseOne(e, k) PROVE Final
      BY <2>0, <3>5, Zenon DEF CaseKeyEraseOne, KeyErasable, Refuses
    <3> HIDE DEF Final
    <3> QED
      BY <2>3, <3>1, <3>2, <3>3, <3>4, <3>5 DEF Keep, CaseKeyErase, CaseKeyEraseUnrecorded
  <2>4. ASSUME NEW e \in Examiners, Handle(e) PROVE Final
    BY <2>0, <2>4, ExhibitSteps, Zenon
  <2>5. CASE PeriodRuns
    BY <2>5, Zenon DEF PeriodRuns, Inv, Settled
  <2> HIDE DEF Final
  <2> QED
    BY <2>1, <2>2, <2>3, <2>4, <2>5 DEF Next
<1> QED
  BY <1>1, Invariance, DisposedSettled, PTL DEF Spec, DisposalIsFinal

\* The case in its ledger implements the lifecycle it promises: the moves, and
\* an approval by somebody other than whoever submitted it (module Lifecycle).
THEOREM LifecycleRefined == Spec => FollowsLifecycle
<1>1. Init => LC!Init
  BY Zenon DEF Init, LC!Init
<1>2. Inv /\ [Next]_vars => [LC!Next]_(LC!vars)
  <2> SUFFICES ASSUME Inv, [Next]_vars PROVE LC!Next \/ UNCHANGED LC!vars
    OBVIOUS
  <2> USE DEF LC!vars, LC!Next, LC!Move
  <2>1. ASSUME UNCHANGED <<life, asked, asker, approver>> PROVE UNCHANGED LC!vars
    BY <2>1
  <2>2. ASSUME NEW e \in Examiners, Session(e) PROVE LC!Next \/ UNCHANGED LC!vars
    <3>1. CASE Register(e)
      BY <3>1, Zenon DEF Register, LifecycleFor, LC!Register
    <3>2. ASSUME NEW to \in States, CaseTransition(e, to) PROVE LC!Next
      BY <3>2, Zenon DEF Inv, Approval, CaseTransition, LifecycleFor, TransitionMoves, LC!Activate,
         LC!Reopen, LC!Dispose
    <3>3. ASSUME NEW x \in Examiners, NEW r \in Roles \cup {"none"}, Assign(e, x, r)
          PROVE  UNCHANGED LC!vars
      BY <2>1, <3>3, Zenon DEF Assign
    <3> HIDE DEF LC!vars, LC!Next
    <3> QED
      BY <2>1, <2>2, <3>1, <3>2, <3>3, RunSteps, Zenon DEF Session
  <2>3. ASSUME NEW e \in Examiners, NEW s \in Subjects, ReviewRequest(e, s)
        PROVE  LC!Next \/ UNCHANGED LC!vars
    <3>1. CASE s = "case"
      BY <2>3, <3>1, Zenon DEF Inv, TypeOK, Approval, ReviewRequest, LifecycleFor, LC!Submit, Subjects
    <3>2. CASE s # "case"
      BY <2>3, <3>2, Zenon DEF Inv, TypeOK, ReviewRequest, Subjects
    <3> QED
      BY <3>1, <3>2, Zenon
  <2>4. ASSUME NEW e \in Examiners, NEW s \in Subjects, NEW approved \in BOOLEAN,
               ReviewDecide(e, s, approved)
        PROVE  LC!Next \/ UNCHANGED LC!vars
    <3>1. CASE s = "case" /\ approved
      BY <2>4, <3>1, Zenon DEF Inv, TypeOK, Approval, ReviewDecide, LifecycleFor, LC!Approve, Subjects
    <3>2. CASE s = "case" /\ ~approved
      BY <2>4, <3>2, Zenon DEF Inv, TypeOK, Approval, ReviewDecide, LifecycleFor, LC!SendBack, Subjects
    <3>3. CASE s # "case"
      BY <2>4, <3>3, Zenon DEF Inv, TypeOK, ReviewDecide, Subjects
    <3> QED
      BY <3>1, <3>2, <3>3, Zenon
  <2>5. ASSUME NEW e \in Examiners, Keep(e) PROVE LC!Next \/ UNCHANGED LC!vars
    <3>1. ASSUME NEW p \in {"running", "lapsed"}, RetentionSet(e, p)
          PROVE  LC!Next \/ UNCHANGED LC!vars
      BY <3>1 DEF RetentionSet, LifecycleFor, LC!Retain
    <3>2. ASSUME NEW h \in Holds, RetentionHold(e, h) \/ RetentionRelease(e, h)
          PROVE  UNCHANGED LC!vars
      BY <2>1, <3>2, Zenon DEF RetentionHold, RetentionRelease, HoldEvent
    <3>3. ASSUME NEW r \in Records, RecordErase(e, r) PROVE UNCHANGED LC!vars
      BY <2>1, <3>3 DEF RecordErase
    <3>4. ASSUME KeyDestroyed(e) PROVE UNCHANGED LC!vars
      BY <2>1, <3>4 DEF KeyDestroyed
    <3>5. ASSUME NEW k \in EarlierKeys, CaseKeyEraseOne(e, k) PROVE UNCHANGED LC!vars
      BY <2>1, <3>5, Zenon DEF CaseKeyEraseOne
    <3> HIDE DEF LC!vars, LC!Next
    <3> QED
      BY <2>5, <3>1, <3>2, <3>3, <3>4, <3>5 DEF Keep, CaseKeyErase, CaseKeyEraseUnrecorded
  <2>6. ASSUME NEW e \in Examiners, Handle(e) PROVE UNCHANGED LC!vars
    BY <2>1, <2>6, ExhibitSteps
  <2>7. CASE PeriodRuns \/ UNCHANGED vars
    BY <2>1, <2>7, Zenon DEF PeriodRuns, vars, ledger
  <2> HIDE DEF LC!vars, LC!Next
  <2> QED
    BY <2>2, <2>3, <2>4, <2>5, <2>6, <2>7 DEF Next, Review
<1> QED
  BY <1>1, <1>2, Invariance, PTL DEF Spec, FollowsLifecycle, LC!Spec

-----------------------------------------------------------------------------
(* Roles: one examiner in two roles. *)

USE BoundAssumption, NameAssumption

(* A clash is mutual: the order in which two roles are compared does not    *)
(* matter to roleConflict.                                                  *)
LEMMA ClashMutual ==
  ASSUME NEW a, NEW b, NEW who, a.who = who, b.who = who
  PROVE  Clash(a, who, b.role) <=> Clash(b, who, a.role)
BY DEF Clash

(* At the start nothing is held and nothing is being opened.                *)
LEMMA RolesInitInv ==
  ASSUME RolesInit
  PROVE  RolesInv
<1>1. session = Closed /\ ledgers = [l \in Handles |-> Closed] /\ overlapped = {} /\ ops = 0
      /\ call = [t \in Threads |-> Idle]
  BY DEF RolesInit
<1>2. Closed \in Held /\ Closed.who = NoOne /\ Closed.role = Unasserted
  BY DEF Closed, Held
<1>3. Idle \in [op : Ops, who : People \cup {NoOne}, role : Asserted \cup {Unasserted}] /\ Idle.who = NoOne
  BY DEF Idle, Ops
<1>4. RolesTypeOK
  <2>1. \A t \in Threads : call[t] = Idle
    BY <1>1
  <2>2. \A l \in Handles : ledgers[l] = Closed
    BY <1>1
  <2>3. ops \in 0..MaxOps /\ overlapped \subseteq People
    BY <1>1
  <2> QED BY <1>1, <1>2, <1>3, <2>1, <2>2, <2>3, Zenon DEF RolesTypeOK, In
<1>5. OneRoleInTurn
  BY <1>1, <1>2, Zenon DEF OneRoleInTurn, Agree, Clash
<1>6. ChecksStand
  BY <1>1, <1>2, <1>3, Zenon DEF ChecksStand, Clash
<1> QED BY <1>4, <1>5, <1>6 DEF RolesInv

(* Beginning case_open or ledger_open: the role agrees with the open case's.*)
LEMMA ConflictWithCaseInv ==
  ASSUME RolesInv, NEW t \in Threads, NEW next \in {"caseCheck", "ledgerCheck"},
         NEW who \in People, NEW asserts \in Asserted \cup {Unasserted},
         ConflictWithCase(t, next, who, asserts)
  PROVE  RolesInv'
<1> DEFINE new == [op |-> next, who |-> who, role |-> asserts]
<1>1. call' = [call EXCEPT ![t] = new] /\ ~Clash(session, who, asserts)
      /\ UNCHANGED <<session, ledgers, overlapped>> /\ ops' = ops + 1 /\ ops < MaxOps
  BY Zenon DEF ConflictWithCase, Begin
<1>2. new \in [op : Ops, who : People \cup {NoOne}, role : Asserted \cup {Unasserted}]
  BY Zenon DEF Ops
<1>3. RolesTypeOK'
  <2>1. new.who # NoOne /\ new # Idle /\ new.op # "idle"
    BY Zenon DEF Idle
  <2>2. \A u \in Threads : call'[u] = IF u = t THEN new ELSE call[u]
    BY <1>1, Zenon DEF RolesInv, RolesTypeOK, In
  <2>3. call' \in [Threads -> [op : Ops, who : People \cup {NoOne}, role : Asserted \cup {Unasserted}]]
    BY <1>1, <1>2, ZenonT(40) DEF RolesInv, RolesTypeOK, In
  <2>4. ops' \in 0..MaxOps
    BY <1>1, SMTT(30) DEF RolesInv, RolesTypeOK, In
  <2> HIDE DEF new
  <2>5. \A u \in Threads : /\ call'[u].who = NoOne <=> call'[u] = Idle
                           /\ call'[u].op = "idle" => call'[u] = Idle
    <3> SUFFICES ASSUME NEW u \in Threads
                 PROVE  /\ call'[u].who = NoOne <=> call'[u] = Idle
                        /\ call'[u].op = "idle" => call'[u] = Idle
      BY Zenon
    <3>1. CASE u = t
      BY <2>1, <2>2, <3>1, Zenon DEF Idle
    <3>2. CASE u # t
      BY <2>2, <3>2, Zenon DEF RolesInv, RolesTypeOK, In
    <3> QED BY <3>1, <3>2, Zenon
  <2> QED BY <1>1, <2>3, <2>4, <2>5, Zenon DEF RolesInv, RolesTypeOK, In
<1>4. OneRoleInTurn'
  BY <1>1, SMTT(30) DEF RolesInv, OneRoleInTurn, Agree, Clash
<1>5. ChecksStand'
  <2> SUFFICES ASSUME NEW u \in Threads, call'[u].who \in People \ overlapped
               PROVE  /\ ~Clash(session, call'[u].who, call'[u].role)
                      /\ call'[u].op \in {"caseStore", "ledgerRole", "ledgerStore"} =>
                           \A l \in Handles : ~Clash(ledgers[l], call'[u].who, call'[u].role)
    BY <1>1, Zenon DEF ChecksStand, Clash
  <2>1. CASE u = t
    <3>1. call'[u] = new
      BY <2>1, <1>1, ZenonT(40) DEF RolesInv, RolesTypeOK, In
    <3> QED BY <3>1, <1>1, SMTT(30)
  <2>2. CASE u # t
    <3>1. call'[u] = call[u]
      BY <2>2, <1>1, Zenon DEF RolesInv, RolesTypeOK, In
    <3> QED BY <3>1, ZenonT(40) DEF RolesInv, ChecksStand
  <2> QED BY <2>1, <2>2, ZenonT(40)
<1> QED BY <1>3, <1>4, <1>5, Zenon DEF RolesInv

(* A thread that only returns, or goes on with the same role, disturbs      *)
(* nothing, when what it goes on to needs no more than it has checked.      *)
LEMMA MovesOn ==
  ASSUME RolesInv, NEW t \in Threads, NEW c,
         \/ c = Idle
         \/ /\ c.op \in Ops \ {"idle"} /\ c.who = call[t].who
            /\ c \in [op : Ops, who : People, role : Asserted \cup {Unasserted}]
            /\ c.who \notin overlapped =>
                 /\ ~Clash(session, c.who, c.role)
                 /\ c.op \in {"caseStore", "ledgerRole", "ledgerStore"} =>
                      \A l \in Handles : ~Clash(ledgers[l], c.who, c.role),
         call' = [call EXCEPT ![t] = c],
         UNCHANGED <<session, ledgers, ops, overlapped>>
  PROVE  RolesInv'
<1>0. call \in [Threads -> [op : Ops, who : People \cup {NoOne}, role : Asserted \cup {Unasserted}]]
  BY Zenon DEF RolesInv, RolesTypeOK
<1>1. /\ c \in [op : Ops, who : People \cup {NoOne}, role : Asserted \cup {Unasserted}]
      /\ c.who = NoOne <=> c = Idle
      /\ c.op = "idle" => c = Idle
  BY SMTT(30) DEF Idle, Ops
<1>2. RolesTypeOK'
  <2>1. \A u \in Threads : call'[u] = IF u = t THEN c ELSE call[u]
    BY <1>0, Zenon
  <2>2. call' \in [Threads -> [op : Ops, who : People \cup {NoOne}, role : Asserted \cup {Unasserted}]]
    BY <1>1, Zenon DEF RolesInv, RolesTypeOK, In
  <2>3. \A u \in Threads : /\ call'[u].who = NoOne <=> call'[u] = Idle
                           /\ call'[u].op = "idle" => call'[u] = Idle
    <3>1. \A u \in Threads : /\ call[u].who = NoOne <=> call[u] = Idle
                             /\ call[u].op = "idle" => call[u] = Idle
      BY Zenon DEF RolesInv, RolesTypeOK, In
    <3> QED BY <1>1, <2>1, <3>1, ZenonT(40)
  <2> QED BY <2>2, <2>3, Zenon DEF RolesInv, RolesTypeOK, In
<1>3. OneRoleInTurn'
  BY DEF RolesInv, OneRoleInTurn, Agree, Clash
<1>4. ChecksStand'
  <2> SUFFICES ASSUME NEW u \in Threads, call'[u].who \in People \ overlapped
               PROVE  /\ ~Clash(session, call'[u].who, call'[u].role)
                      /\ call'[u].op \in {"caseStore", "ledgerRole", "ledgerStore"} =>
                           \A l \in Handles : ~Clash(ledgers[l], call'[u].who, call'[u].role)
    BY Zenon DEF ChecksStand, Clash
  <2>1. CASE u = t
    <3>1. call'[u] = c
      BY <2>1, Zenon DEF RolesInv, RolesTypeOK, In
    <3>2. c # Idle
      BY <3>1 DEF Idle
    <3> QED BY <3>1, <3>2, SMTT(30)
  <2>2. CASE u # t
    <3>1. call'[u] = call[u]
      BY <2>2, <1>0, Zenon
    <3> QED BY <3>1, Zenon DEF RolesInv, ChecksStand
  <2> QED BY <2>1, <2>2, Zenon
<1> QED BY <1>2, <1>3, <1>4 DEF RolesInv

(* What a thread in the middle of an open knows.                            *)
LEMMA OpeningWho ==
  ASSUME RolesInv, NEW t \in Threads, call[t].op # "idle"
  PROVE  /\ call[t].who \in People /\ call[t].role \in Asserted \cup {Unasserted}
         /\ call[t] = [op |-> call[t].op, who |-> call[t].who, role |-> call[t].role]
<1>1. call[t] # Idle
  BY DEF Idle
<1>2. call[t] \in [op : Ops, who : People \cup {NoOne}, role : Asserted \cup {Unasserted}]
  BY Zenon DEF RolesInv, RolesTypeOK, In
<1> QED BY <1>1, <1>2, Zenon DEF RolesInv, RolesTypeOK, In

(* Moving a call on, with the same role.                                    *)
LEMMA CallUpdated ==
  ASSUME NEW c, NEW op, c = [op |-> c.op, who |-> c.who, role |-> c.role]
  PROVE  [c EXCEPT !.op = op] = [op |-> op, who |-> c.who, role |-> c.role]
<1> DEFINE d == [op |-> c.op, who |-> c.who, role |-> c.role]
<1>1. [d EXCEPT !.op = op] = [op |-> op, who |-> d.who, role |-> d.role]
  OBVIOUS
<1> QED BY <1>1

(* The ledgers are looked at: what goes on agrees with them too.            *)
LEMMA ConflictWithLedgerInv ==
  ASSUME RolesInv, NEW t \in Threads, call[t].op # "idle", NEW next \in {"caseStore", "ledgerRole"},
         ConflictWithLedger(t, next)
  PROVE  RolesInv'
<1>1. CASE \E l \in Handles : Clash(ledgers[l], call[t].who, call[t].role)
  <2>1. call' = [call EXCEPT ![t] = Idle] /\ UNCHANGED <<session, ledgers, ops, overlapped>>
    BY <1>1 DEF ConflictWithLedger, Return
  <2> QED BY <2>1, MovesOn, Zenon
<1>2. CASE ~ \E l \in Handles : Clash(ledgers[l], call[t].who, call[t].role)
  <2> DEFINE c == [op |-> next, who |-> call[t].who, role |-> call[t].role]
  <2>1. c \in [op : Ops, who : People, role : Asserted \cup {Unasserted}] /\ c.op \in Ops \ {"idle"} /\ c.who = call[t].who
        /\ c.role = call[t].role
    BY OpeningWho, Zenon DEF Ops
  <2>2. [call[t] EXCEPT !.op = next] = c
    BY OpeningWho, CallUpdated, Zenon
  <2>3. call' = [call EXCEPT ![t] = c] /\ UNCHANGED <<session, ledgers, ops, overlapped>>
    BY <1>2, <2>2, SMTT(30) DEF ConflictWithLedger, Goto
  <2>4. c.who \notin overlapped => ~Clash(session, c.who, c.role)
    BY <2>1, OpeningWho, Zenon DEF RolesInv, ChecksStand
  <2> HIDE DEF c
  <2> QED BY <1>2, <2>1, <2>3, <2>4, MovesOn, Zenon
<1> QED BY <1>1, <1>2, Zenon

(* The case's role is taken: it agrees with the examiner's ledgers, since   *)
(* the case does.                                                           *)
LEMMA ledgerRoleForInv ==
  ASSUME RolesInv, NEW t \in Threads, ledgerRoleFor(t)
  PROVE  RolesInv'
<1> DEFINE takes == call[t].role = Unasserted /\ session.who = call[t].who
           asserts  == IF takes THEN session.role ELSE call[t].role
           c     == [op |-> "ledgerStore", who |-> call[t].who, role |-> asserts]
<1>1. call[t].op = "ledgerRole"
  BY DEF ledgerRoleFor, In
<1>2. session.role \in Asserted \cup {Unasserted}
  BY DEF RolesInv, RolesTypeOK, In, Held
<1>3. c \in [op : Ops, who : People, role : Asserted \cup {Unasserted}] /\ c.op \in Ops \ {"idle"} /\ c.who = call[t].who
      /\ c.role = asserts
  BY <1>1, <1>2, OpeningWho, Zenon DEF Ops
<1>4. call' = [call EXCEPT ![t] = c] /\ UNCHANGED <<session, ledgers, ops, overlapped>>
  BY SMTT(30) DEF ledgerRoleFor
<1>5. ASSUME c.who \notin overlapped
      PROVE  ~Clash(session, c.who, c.role) /\ \A l \in Handles : ~Clash(ledgers[l], c.who, c.role)
  <2>1. CASE takes
    <3>1. Agree(c.who) /\ session.who = c.who /\ c.role = session.role
      BY <1>3, <1>5, <2>1, OpeningWho, Zenon DEF RolesInv, OneRoleInTurn
    <3> HIDE DEF c
    <3> QED BY <3>1, Zenon DEF Agree, Clash
  <2>2. CASE ~takes
    BY <1>1, <1>3, <1>5, <2>2, OpeningWho, Zenon DEF RolesInv, ChecksStand
  <2> QED BY <2>1, <2>2, Zenon
<1> HIDE DEF c
<1> QED BY <1>3, <1>4, <1>5, MovesOn, Zenon

(* What a thread has opened is recorded.  If no other open of the same      *)
(* examiner is under way it agrees with everything they hold; if one is,    *)
(* the examiner counts as overlapped from then on.                          *)
LEMMA RecordedInv ==
  ASSUME RolesInv, NEW t \in Threads, call[t].op \in {"caseStore", "ledgerStore"},
         call' = [call EXCEPT ![t] = Idle], UNCHANGED ops, Recorded(t),
         \/ session = Closed /\ session' = Opening(t) /\ ledgers' = ledgers
         \/ session' = session /\ \E l \in Handles : ledgers' = [ledgers EXCEPT ![l] = Opening(t)]
  PROVE  RolesInv'
<1> DEFINE w == call[t].who
<1>1. w \in People /\ Opening(t) \in Held /\ Opening(t).who = w /\ Opening(t).role = call[t].role /\ w # NoOne
  BY OpeningWho, Zenon DEF Opening, Held
<1>2. \A u \in Threads : call'[u] = IF u = t THEN Idle ELSE call[u]
  BY Zenon DEF RolesInv, RolesTypeOK, In
<1>3. overlapped \subseteq overlapped' /\ overlapped' \subseteq People
      /\ (w \notin overlapped' => \A u \in Threads \ {t} : call[u].who # w)
  BY <1>1, Zenon DEF Recorded, RolesInv, RolesTypeOK, In
<1>4. Idle \in [op : Ops, who : People \cup {NoOne}, role : Asserted \cup {Unasserted}] /\ Idle.who = NoOne
  BY Zenon DEF Idle, Ops
<1>5. /\ session' \in Held /\ (session'.who = NoOne => session' = Closed)
      /\ ledgers' \in [Handles -> Held] /\ \A l \in Handles : ledgers'[l].who = NoOne => ledgers'[l] = Closed
  BY <1>1, Zenon DEF RolesInv, RolesTypeOK, In
<1>6. call' \in [Threads -> [op : Ops, who : People \cup {NoOne}, role : Asserted \cup {Unasserted}]]
  BY <1>4, Zenon DEF RolesInv, RolesTypeOK, In
<1>7. RolesTypeOK'
  BY <1>2, <1>3, <1>4, <1>5, <1>6, Zenon DEF RolesInv, RolesTypeOK, In
<1>8. session' = session \/ (session = Closed /\ session' = Opening(t))
  OBVIOUS
<1>9. \A l \in Handles : ledgers'[l] = ledgers[l] \/ ledgers'[l] = Opening(t)
  BY Zenon DEF RolesInv, RolesTypeOK, In
<1>10. ASSUME w \notin overlapped
       PROVE  ~Clash(session, w, call[t].role) /\ \A l \in Handles : ~Clash(ledgers[l], w, call[t].role)
  BY <1>1, <1>10, Zenon DEF RolesInv, ChecksStand
<1>11. OneRoleInTurn'
  <2> SUFFICES ASSUME NEW who \in People \ overlapped' PROVE Agree(who)'
    BY DEF OneRoleInTurn
  <2>1. Agree(who) /\ who \notin overlapped
    BY <1>3 DEF RolesInv, OneRoleInTurn
  <2>2. CASE who # w
    <3>1. session'.who = who => session' = session
      BY <1>1, <1>8, <2>2, Zenon
    <3>2. \A l \in Handles : ledgers'[l].who = who => ledgers'[l] = ledgers[l]
      BY <1>1, <1>9, <2>2, Zenon
    <3> QED BY <2>1, <3>1, <3>2, SMTT(30) DEF Agree, Clash
  <2>3. CASE who = w
    <3> DEFINE new == Opening(t)
    <3>1. new.who = who /\ new.role = call[t].role
      BY <1>1, <2>3, Zenon
    <3>2. ~Clash(session, who, new.role) /\ \A l \in Handles : ~Clash(ledgers[l], who, new.role)
      BY <1>10, <2>1, <2>3, <3>1, Zenon
    <3>3. ~Clash(new, who, new.role)
      BY Zenon DEF Clash
    <3>4. \A l \in Handles : ledgers[l].who = who => ~Clash(new, who, ledgers[l].role)
      BY <3>1, <3>2, ClashMutual, Zenon
    <3>5. session.who = who => ~Clash(new, who, session.role)
      BY <3>1, <3>2, ClashMutual, Zenon
    <3> HIDE DEF new
    <3>6. \A l \in Handles : ledgers'[l] = ledgers[l] \/ ledgers'[l] = new
      BY <1>9, Zenon DEF new
    <3>7. ASSUME NEW held, held = new \/ held = session \/ \E k \in Handles : held = ledgers[k], held.who = who,
                 held = session' \/ \E k \in Handles : held = ledgers'[k], NEW l \in Handles
          PROVE  ~Clash(ledgers'[l], who, held.role)
      BY <2>1, <3>2, <3>3, <3>4, <3>5, <3>6, <3>7, Zenon DEF Agree
    <3>8. \A l \in Handles : session'.who = who => ~Clash(ledgers'[l], who, session'.role)
      BY <1>8, <3>7, Zenon DEF new
    <3>9. \A k, l \in Handles : ledgers'[k].who = who => ~Clash(ledgers'[l], who, ledgers'[k].role)
      BY <3>6, <3>7, Zenon
    <3> QED BY <3>8, <3>9, Zenon DEF Agree, Clash
  <2> QED BY <2>2, <2>3
<1>12. ChecksStand'
  <2> SUFFICES ASSUME NEW u \in Threads, call'[u].who \in People \ overlapped'
               PROVE  /\ ~Clash(session', call'[u].who, call'[u].role)
                      /\ call'[u].op \in {"caseStore", "ledgerRole", "ledgerStore"} =>
                           \A l \in Handles : ~Clash(ledgers'[l], call'[u].who, call'[u].role)
    BY Zenon DEF ChecksStand, Clash
  <2>1. u # t /\ call'[u] = call[u]
    BY <1>2, <1>4, Zenon
  <2>2. call[u].who # w /\ call[u].who \in People \ overlapped
    BY <1>3, <2>1, Zenon
  <2> QED BY <1>1, <1>8, <1>9, <2>1, <2>2, ZenonT(40) DEF RolesInv, ChecksStand, Clash
<1> QED BY <1>7, <1>11, <1>12 DEF RolesInv

(* Closing a case or a ledger takes a role away and adds none.              *)
LEMMA RoleCloseInv ==
  ASSUME RolesInv, UNCHANGED <<call, overlapped>>, ops' = ops + 1, ops < MaxOps,
         \/ session' = Closed /\ ledgers' = ledgers
         \/ session' = session /\ \E l \in Handles : ledgers' = [ledgers EXCEPT ![l] = Closed]
  PROVE  RolesInv'
<1>1. Closed \in Held /\ Closed.role = Unasserted /\ Closed.who = NoOne
  BY Zenon DEF Closed, Held
<1>2. session' \in Held /\ (session' = session \/ session' = Closed)
  BY <1>1, Zenon DEF RolesInv, RolesTypeOK, In
<1>3. ledgers' \in [Handles -> Held] /\ \A l \in Handles : ledgers'[l] = ledgers[l] \/ ledgers'[l] = Closed
  BY <1>1, Zenon DEF RolesInv, RolesTypeOK, In
<1>4. ops' \in 0..MaxOps
  BY SMTT(30) DEF RolesInv, RolesTypeOK, In
<1>5. RolesTypeOK'
  BY <1>1, <1>2, <1>3, <1>4, Zenon DEF RolesInv, RolesTypeOK, In
<1>6. OneRoleInTurn'
  BY <1>1, <1>2, <1>3, SMTT(30) DEF RolesInv, OneRoleInTurn, Agree, Clash
<1>7. ChecksStand'
  BY <1>1, <1>2, <1>3 DEF RolesInv, ChecksStand, Clash
<1> QED BY <1>5, <1>6, <1>7 DEF RolesInv

(* The inductive invariant of module Roles.                                 *)
THEOREM RolesInvariance == RolesSpec => []RolesInv
<1>1. RolesInit => RolesInv
  BY RolesInitInv
<1>2. RolesInv /\ [RolesNext]_rolesVars => RolesInv'
  <2> SUFFICES ASSUME RolesInv, [RolesNext]_rolesVars PROVE RolesInv'
    OBVIOUS
  <2>1. CASE UNCHANGED rolesVars
    <3>1. session' = session /\ ledgers' = ledgers /\ call' = call /\ ops' = ops /\ overlapped' = overlapped
      BY <2>1 DEF rolesVars
    <3>2. RolesTypeOK'
      BY <3>1, Zenon DEF RolesInv, RolesTypeOK, In
    <3>3. OneRoleInTurn'
      BY <3>1 DEF RolesInv, OneRoleInTurn, Agree, Clash
    <3>4. ChecksStand'
      BY <3>1, Zenon DEF RolesInv, ChecksStand, Clash
    <3> QED BY <3>2, <3>3, <3>4, Zenon DEF RolesInv
  <2>2. CASE RolesNext
    <3>1. PICK t \in Threads : Step(t)
      BY <2>2 DEF RolesNext
    <3>2. ASSUME NEW who \in People, NEW asserts \in Asserted \cup {Unasserted},
                 CaseOpenAs(t, who, asserts) \/ LedgerOpenAs(t, who, asserts)
          PROVE  RolesInv'
      BY <3>2, ConflictWithCaseInv DEF CaseOpenAs, LedgerOpenAs
    <3>3. CASE CaseCheck(t) \/ LedgerCheck(t)
      <4>1. call[t].op # "idle" /\ (ConflictWithLedger(t, "caseStore") \/ ConflictWithLedger(t, "ledgerRole"))
        BY <3>3, Zenon DEF CaseCheck, LedgerCheck, In
      <4> QED BY <4>1, ConflictWithLedgerInv, Zenon
    <3>4. CASE CaseStore(t)
      <4>1. call[t].op = "caseStore" /\ call' = [call EXCEPT ![t] = Idle] /\ UNCHANGED <<ledgers, ops>>
        BY <3>4 DEF CaseStore, In, Return
      <4>2. CASE session # Closed
        <5>1. UNCHANGED <<session, overlapped>>
          BY <3>4, <4>2 DEF CaseStore
        <5> QED BY <4>1, <5>1, MovesOn, Zenon
      <4>3. CASE session = Closed
        <5>1. session' = Opening(t) /\ Recorded(t)
          BY <3>4, <4>3 DEF CaseStore
        <5> QED BY <4>1, <4>3, <5>1, RecordedInv, Zenon
      <4> QED BY <4>2, <4>3
    <3>5. CASE CaseClose(t)
      BY <3>5, RoleCloseInv DEF CaseClose, Begin
    <3>6. CASE ledgerRoleFor(t)
      BY <3>6, ledgerRoleForInv
    <3>7. CASE LedgerFails(t)
      <4>1. call' = [call EXCEPT ![t] = Idle] /\ UNCHANGED <<session, ledgers, ops, overlapped>>
        BY <3>7 DEF LedgerFails, Return
      <4> QED BY <4>1, MovesOn, Zenon
    <3>8. ASSUME NEW l \in Handles, LedgerStore(t, l)
          PROVE  RolesInv'
      <4>1. /\ call[t].op = "ledgerStore" /\ call' = [call EXCEPT ![t] = Idle] /\ UNCHANGED <<session, ops>>
            /\ ledgers' = [ledgers EXCEPT ![l] = Opening(t)] /\ Recorded(t)
        BY <3>8, Zenon DEF LedgerStore, In, Return
      <4> QED BY <4>1, RecordedInv, Zenon
    <3>9. ASSUME NEW l \in Handles, LedgerHandleClose(t, l)
          PROVE  RolesInv'
      BY <3>9, RoleCloseInv, Zenon DEF LedgerHandleClose, Begin
    <3> QED BY <3>1, <3>2, <3>3, <3>4, <3>5, <3>6, <3>7, <3>8, <3>9, Zenon DEF Step
  <2> QED BY <2>1, <2>2
<1> QED BY <1>1, <1>2, PTL DEF RolesSpec

(* One examiner has one role at a time, whatever other examiners and        *)
(* threads do, as long as no two opens of theirs overlap.                   *)
THEOREM RolesInTurn == RolesSpec => []OneRoleInTurn
<1>1. RolesInv => OneRoleInTurn
  BY DEF RolesInv
<1> QED BY <1>1, RolesInvariance, PTL

=============================================================================
