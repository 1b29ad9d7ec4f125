---------------------------- MODULE CaseRetention ---------------------------
(***************************************************************************)
(* Retention, erasure and disposal (builtin/case_retention.go,             *)
(* builtin/case_erasure.go, CaseTransition): how long a concluded case is  *)
(* kept, the legal holds that stop anything in it being disposed of, the   *)
(* erasure of its records and of its key, and the disposal that needs all  *)
(* of these settled.                                                       *)
(***************************************************************************)
EXTENDS CaseExhibits

\* retention_set: any date, one that has passed included.  The first period
\* retains a concluded case, in the same commit.
RetentionSet(e, p) ==
    /\ Writes(e)
    /\ life \in {"concluded", "retained"}
    /\ period' = p
    /\ IF life = "concluded" THEN LifecycleFor(e, "retained")
                             ELSE UNCHANGED <<life, copy, inStep, current, readable>>
    /\ UNCHANGED <<assigned, asked, asker, approver, hold, erased, keyErased, item,
                   keyFile, store, role, hasKey, attached>>

\* The date a case is kept until comes.
PeriodRuns ==
    /\ period = "running"
    /\ period' = "lapsed"
    /\ UNCHANGED <<life, assigned, asked, asker, approver, hold, erased, keyErased,
                   item, readable, outside, runs>>

HoldEvent(to, reads) ==
    /\ hold' = to
    /\ readable' = reads
    /\ UNCHANGED <<life, assigned, asked, asker, approver, period, erased, keyErased,
                   item, outside, runs>>

\* retention_hold, under a uid no earlier hold had: h stands for a new one each
\* time, and is free again once its hold is lifted.
RetentionHold(e, h) ==
    /\ Writes(e)
    /\ ~Refuses(life, "retain")
    /\ h \notin hold
    /\ HoldEvent(hold \cup {h}, TRUE)

\* retention_release: of a hold in force.  The reader refuses any other.
RetentionRelease(e, h) ==
    /\ Writes(e)
    /\ ~Refuses(life, "retain")
    /\ h \in hold
    /\ HoldEvent(hold \ {h}, h \in hold)

-----------------------------------------------------------------------------
(* Erasure.  erasureRead accepts nothing after the erasure of every key. *)

\* record_erase of a record of the case, with the key open.
RecordErase(e, r) ==
    /\ Writes(e)
    /\ Disposer(e)
    /\ hasKey[e]
    /\ ~Refuses(life, "erase")
    /\ ~UnderHold
    /\ ~keyErased
    /\ erased' = erased \cup {r}
    /\ readable' = ~keyErased
    /\ UNCHANGED <<life, assigned, asked, asker, approver, period, hold, keyErased, item,
                   outside, runs>>

\* Faulty variants of an operation carry its name and a suffix.  No
\* specification uses them: they show that the properties can fail.
\* This one asks nothing about holds.
KeyErasable_Held(e) ==
    /\ Writes(e)
    /\ Disposer(e)
    /\ keyFile # "gone"
    /\ ~Refuses(life, "erase")
    /\ ~keyErased

\* case_key_erase, up to the point where it changes anything.  (It is also
\* refused while the run has a record of the case open; a run here has none.)
KeyErasable(e) ==
    /\ Writes(e)
    /\ Disposer(e)
    /\ keyFile # "gone"
    /\ ~Refuses(life, "erase")
    /\ ~UnderHold
    /\ ~keyErased

\* eraseKeyLocked: the run's own key is zeroed, if the erasure gets that far.
EraseKey(e, zeroed) == hasKey' = [hasKey EXCEPT ![e] = @ /\ ~zeroed]

\* This one leaves the file where it is.
KeyDestroyed_Left(e) ==
    /\ KeyErasable(e)
    /\ UNCHANGED <<life, assigned, asked, asker, approver, period, hold, erased, item,
                   keyFile, current, store, role, attached, copy, inStep>>

\* Every generation: the file is overwritten and removed.  A rotation that
\* read it before goes on, here or in another process.
KeyDestroyed(e) ==
    /\ KeyErasable(e)
    /\ keyFile' = "gone"
    /\ UNCHANGED <<life, assigned, asked, asker, approver, period, hold, erased, item,
                   current, store, role, attached, copy, inStep>>

CaseKeyErase(e) ==
    /\ KeyDestroyed(e)
    /\ EraseKey(e, TRUE)
    /\ keyErased' = TRUE
    /\ readable' = ~keyErased

\* The file is damaged and cannot be removed, or the commit fails: the key is
\* gone and the ledger is silent.  A process that dies between the two leaves
\* the same, and then ends.
CaseKeyEraseUnrecorded(e) ==
    /\ KeyDestroyed(e)
    /\ \E zeroed \in BOOLEAN : EraseKey(e, zeroed)
    /\ UNCHANGED <<keyErased, readable>>

\* One generation, never the current one: the file is rewritten without it.  A
\* run that had opened its key at that generation loses it and has the file to
\* open the current one from.  If the commit fails, nothing of this is recorded;
\* a rewrite cut short leaves a torn file, which is CaseKeyEraseUnrecorded.
CaseKeyEraseOne(e, k) ==
    /\ KeyErasable(e)
    /\ erased' = erased \cup {k}
    /\ readable' = ~keyErased
    /\ UNCHANGED <<life, assigned, asked, asker, approver, period, hold, keyErased, item,
                   outside, runs>>

-----------------------------------------------------------------------------
(* case_transition. *)

\* caseDisposalRefusal: everything the ledger must show before a disposal.
Disposable ==
    /\ ~UnderHold
    /\ period = "lapsed"
    /\ \A x \in Exhibits : item[x].state \in {"absent", "returned", "disposed"}
    /\ keyErased

\* This one disposes of a case without asking about holds and exhibits.
CaseTransition_NoHold(e, to) ==
    /\ Writes(e)
    /\ <<life, to>> \in TransitionMoves
    /\ to = "disposed" => Disposer(e) /\ period = "lapsed" /\ keyErased
    /\ LifecycleFor(e, to)
    /\ asker' = IF to = "active" THEN Nobody ELSE asker
    /\ approver' = IF to = "active" THEN Nobody ELSE approver
    /\ UNCHANGED <<assigned, asked, period, hold, erased, keyErased, item, keyFile,
                   store, role, hasKey, attached>>

\* case_transition: a disposal is a disposer's, of a case that is disposable.
CaseTransition(e, to) ==
    /\ Writes(e)
    /\ <<life, to>> \in TransitionMoves
    /\ to = "disposed" => Disposer(e) /\ Disposable
    /\ LifecycleFor(e, to)
    /\ asker' = IF to = "active" THEN Nobody ELSE asker
    /\ approver' = IF to = "active" THEN Nobody ELSE approver
    /\ UNCHANGED <<assigned, asked, period, hold, erased, keyErased, item, keyFile,
                   store, role, hasKey, attached>>
=============================================================================
