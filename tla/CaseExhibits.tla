---------------------------- MODULE CaseExhibits ----------------------------
(***************************************************************************)
(* Evidence custody (builtin/case_evidence.go): each exhibit has a chain   *)
(* of custody events.  The builtins decide what may be appended; the       *)
(* reader, evidenceCheck, decides by itself what it accepts, and one event *)
(* it refuses makes the exhibit, and with it the case, unreadable.         *)
(*                                                                         *)
(* A digest is kept as whether it equals the intake's.                     *)
(***************************************************************************)
EXTENDS CaseReview

\* evidenceMoves.
EvidenceMoves ==
    [intake   |-> [from |-> "absent",     to |-> "held",       compares |-> FALSE],
     release  |-> [from |-> "held",       to |-> "in_transit", compares |-> FALSE],
     accept   |-> [from |-> "in_transit", to |-> "held",       compares |-> TRUE],
     return   |-> [from |-> "held",       to |-> "returned",   compares |-> FALSE],
     reintake |-> [from |-> "returned",   to |-> "held",       compares |-> TRUE],
     dispose  |-> [from |-> "held",       to |-> "disposed",   compares |-> FALSE]]

HolderAfter(state, by) == IF state \in {"held", "in_transit"} THEN by ELSE Nobody

\* evidenceComparison, and the absence of one: `same' is what was measured,
\* `matches' what the event says of it.
NoComparison == [same |-> TRUE, matches |-> "", discrepancy |-> FALSE]

Comparison(same, discrepancy) ==
    [same |-> same, matches |-> IF same THEN "true" ELSE "false", discrepancy |-> discrepancy]

\* evidenceCheck: what the reader asks of an event, given where the one before
\* it left the exhibit.
EvidenceCheck(prev, kind, by, comparison) ==
    LET move == EvidenceMoves[kind] IN
    /\ move.from = prev.state
    /\ move.from = "held" => by = prev.holder
    /\ move.from = "in_transit" => by = prev.to
    /\ move.compares <=> comparison.matches # ""
    /\ move.compares => comparison.matches = IF comparison.same THEN "true" ELSE "false"
    /\ comparison.matches = "false" => comparison.discrepancy

\* caseWriter.custody and evidenceAppend: one event after the exhibit's head.
EvidenceAppend(e, x, kind, to, comparison) ==
    LET after == EvidenceMoves[kind].to IN
    /\ item' = [item EXCEPT ![x] = [state |-> after, holder |-> HolderAfter(after, e), to |-> to]]
    /\ readable' = EvidenceCheck(item[x], kind, e, comparison)
    /\ UNCHANGED <<life, assigned, asked, asker, approver, period, hold, erased,
                   keyErased, outside, runs>>

\* evidenceUnexplained.
Explained(same, discrepancy) == same \/ discrepancy

\* evidenceHeldBy.
HeldBy(e, x) == item[x].state = "held" /\ item[x].holder = e

\* evidence_intake of an exhibit the case never held: there is no intake for a
\* discrepancy to differ from.
EvidenceIntake(e, x) ==
    /\ Writes(e)
    /\ assigned[e] # "none"
    /\ item[x].state = "absent"
    /\ ~Refuses(life, "intake")
    /\ EvidenceAppend(e, x, "intake", Nobody, NoComparison)

\* Faulty variants of an operation carry its name and a suffix.  No
\* specification uses them: they show that the properties can fail.
\* This one takes a mismatch that nobody explains.
EvidenceReintake_Unexplained(e, x, same, discrepancy) ==
    /\ Writes(e)
    /\ assigned[e] # "none"
    /\ item[x].state = "returned"
    /\ EvidenceAppend(e, x, "reintake", Nobody, Comparison(same, discrepancy))

\* evidence_intake of a returned one: a movement, taken in every state.
EvidenceReintake(e, x, same, discrepancy) ==
    /\ Writes(e)
    /\ assigned[e] # "none"
    /\ item[x].state = "returned"
    /\ Explained(same, discrepancy)
    /\ EvidenceAppend(e, x, "reintake", Nobody, Comparison(same, discrepancy))

\* evidence_release: to somebody else who works the case.
EvidenceRelease(e, x, to) ==
    /\ Writes(e)
    /\ HeldBy(e, x)
    /\ to # e
    /\ assigned[to] # "none"
    /\ EvidenceAppend(e, x, "release", to, NoComparison)

\* evidence_accept: by whoever it was released to, assigned still or not.
EvidenceAccept(e, x, same, discrepancy) ==
    /\ Writes(e)
    /\ item[x].state = "in_transit"
    /\ item[x].to = e
    /\ Explained(same, discrepancy)
    /\ EvidenceAppend(e, x, "accept", Nobody, Comparison(same, discrepancy))

\* evidence_return: out of the case, to anybody.
EvidenceReturn(e, x) ==
    /\ Writes(e)
    /\ HeldBy(e, x)
    /\ EvidenceAppend(e, x, "return", Nobody, NoComparison)

\* This one asks nothing about holds.
EvidenceDispose_Held(e, x) ==
    /\ Writes(e)
    /\ Disposer(e)
    /\ HeldBy(e, x)
    /\ EvidenceAppend(e, x, "dispose", Nobody, NoComparison)

\* evidence_dispose: a statement of the holder's, refused under a hold.
EvidenceDispose(e, x) ==
    /\ Writes(e)
    /\ Disposer(e)
    /\ HeldBy(e, x)
    /\ ~UnderHold
    /\ EvidenceAppend(e, x, "dispose", Nobody, NoComparison)
=============================================================================
