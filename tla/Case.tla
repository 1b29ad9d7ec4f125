-------------------------------- MODULE Case --------------------------------
(***************************************************************************)
(* A case worked by several runs over one ledger: every builtin of modules *)
(* CaseLedger, CaseReview, CaseExhibits and CaseRetention, in any order.   *)
(***************************************************************************)
EXTENDS CaseRetention

Session(e) ==
    \/ \E r \in Roles : CaseOpen(e, r)
    \/ LedgerOpen(e)
    \/ LedgerClose(e)
    \/ End(e)
    \/ Attach(e)
    \/ Register(e)
    \/ \E x \in Examiners, r \in Roles \cup {"none"} : Assign(e, x, r)
    \/ CaseWrite(e)
    \/ KeyRotate(e)
    \/ \E to \in States : CaseTransition(e, to)

Review(e) ==
    \E s \in Subjects :
        \/ ReviewRequest(e, s)
        \/ \E approved \in BOOLEAN : ReviewDecide(e, s, approved)

Keep(e) ==
    \/ \E p \in {"running", "lapsed"} : RetentionSet(e, p)
    \/ \E h \in Holds : RetentionHold(e, h) \/ RetentionRelease(e, h)
    \/ \E r \in Records : RecordErase(e, r)
    \/ CaseKeyErase(e)
    \/ CaseKeyEraseUnrecorded(e)
    \/ \E k \in EarlierKeys : CaseKeyEraseOne(e, k)

Handle(e) ==
    \E x \in Exhibits :
        \/ EvidenceIntake(e, x)
        \/ \E to \in Examiners : EvidenceRelease(e, x, to)
        \/ EvidenceReturn(e, x)
        \/ EvidenceDispose(e, x)
        \/ \E same, discrepancy \in BOOLEAN :
               \/ EvidenceAccept(e, x, same, discrepancy)
               \/ EvidenceReintake(e, x, same, discrepancy)

Next ==
    \/ \E e \in Examiners : Session(e) \/ Review(e) \/ Keep(e) \/ Handle(e)
    \/ PeriodRuns

Spec == Init /\ [][Next]_vars

-----------------------------------------------------------------------------
(* Properties. *)

TypeOK ==
    /\ life \in States \cup {Unregistered}
    /\ assigned \in [Examiners -> Roles \cup {"none"}]
    /\ asked \in [Subjects -> Examiners \cup {Nobody}]
    /\ asker \in Examiners \cup {Nobody}
    /\ approver \in Examiners \cup {Nobody}
    /\ period \in {"none", "running", "lapsed"}
    /\ hold \subseteq Holds
    /\ erased \subseteq Records \cup EarlierKeys
    /\ keyErased \in BOOLEAN
    /\ item \in [Exhibits -> [state : {"absent", "held", "in_transit", "returned", "disposed"},
                              holder : Examiners \cup {Nobody},
                              to : Examiners \cup {Nobody}]]
    /\ readable \in BOOLEAN
    /\ keyFile \in {"there", "gone", "restored"}
    /\ current \in BOOLEAN
    /\ store \in Examiners \cup {Nobody}
    /\ role \in [Examiners -> Roles \cup {"none"}]
    /\ hasKey \in [Examiners -> BOOLEAN]
    /\ attached \in [Examiners -> {"no", "live", "closed"}]
    /\ copy \in [Examiners -> States \cup {Unregistered}]
    /\ inStep \in [Examiners -> BOOLEAN]

\* A run attached through the handle it has open answers the state questions
\* from its copy exactly as the ledger would: graphene's lock keeps every
\* other run from moving the case, every move of its own updates the copy, and
\* a second attach takes it afresh (case_attach, caseWriter.lifecycleFor).
CopyExact ==
    \A e \in Examiners : attached[e] = "live" => copy[e] = life /\ inStep[e]

\* Every event the builtins of these modules append to the lifecycle, the
\* retention, the erasure or a custody chain is one the chain's own reader
\* accepts, so none of them leaves a chain that every later read refuses
\* (caseLifecycleRead, retentionRead, erasureRead, evidenceCheck).  The class
\* definitions, which can, are module CaseDefinitions'.
ReadersAccept == readable

\* While a legal hold is in force no exhibit is disposed of, no record and no
\* key is erased, and the case is not disposed of (retentionHoldRefusal,
\* caseDisposalRefusal).
HoldStops ==
    [][ UnderHold =>
          /\ \A x \in Exhibits : item'[x].state = "disposed" => item[x].state = "disposed"
          /\ erased' = erased
          /\ keyFile' = "gone" => keyFile = "gone"
          /\ life' = "disposed" => life = "disposed" ]_vars

\* A disposed case is settled: no hold is in force, its period has lapsed, its
\* key is erased in the ledger, and it was concluded by the approval of
\* somebody other than whoever asked (CaseTransition, caseStateRefuses).  The
\* key file is gone, unless a case_key_rotate that had read it before the
\* erasure renamed its copy back afterwards: neither holds a lock the other
\* waits for.
DisposedIsSettled ==
    life = "disposed" =>
        /\ ~UnderHold
        /\ period = "lapsed"
        /\ keyErased
        /\ keyFile # "there"
        /\ asked["case"] = Nobody
        /\ asker # approver

\* A case becomes disposed of only settled, and with nobody holding an exhibit
\* of it, and from then on it stays settled and the only thing that changes in
\* its ledger is where a returned exhibit is (CaseTransition,
\* evidenceReintake).
DisposalIsFinal ==
    [][ /\ DisposedIsSettled'
        /\ life # "disposed" /\ life' = "disposed" =>
              \A x \in Exhibits : item[x].state \in {"absent", "returned", "disposed"}
        /\ life = "disposed" =>
              UNCHANGED <<life, assigned, asked, period, hold, erased, keyErased>> ]_vars

\* The case in its ledger is a lifecycle as module Lifecycle promises one.
LC == INSTANCE Lifecycle WITH
          state     <- life,
          submitter <- IF life = "in_review" THEN asked["case"] ELSE asker,
          approver  <- approver

FollowsLifecycle == LC!Spec

-----------------------------------------------------------------------------
(* What the comments say and the code does not do. *)

\* "nothing is sealed while a case is in review, concluded or retained": by
\* any run that attached the case and has its key, one whose ledger is closed
\* included.
NeverSealedLate ==
    \A e \in Examiners :
        attached[e] # "no" /\ hasKey[e] /\ Refuses(life, "seal") => ~Takes(e, "seal")

\* A retained case whose ledger shows everything a disposal needs can be
\* disposed of: some run can still attach it, because it has the case open or
\* because the key that opens it is there.
DisposalInReach ==
    life = "retained" /\ Disposable => keyFile # "gone" \/ \E e \in Examiners : role[e] # "none"

-----------------------------------------------------------------------------
(* The inductive invariant behind the theorems of module CaseProofs. *)

Closing == {"concluded", "retained", "disposed"}

\* One run at most is attached by an open handle, and its copy is the ledger's.
Lockstep ==
    \A e \in Examiners :
        attached[e] = "live" => store = e /\ copy[e] = life /\ inStep[e]

\* A review of the case is open exactly while the case is in review, and an
\* approval stands exactly from the conclusion on.
Approval ==
    /\ asked["case"] # Nobody <=> life = "in_review"
    /\ life \in Closing => asker # approver
    /\ life \notin Closing => asker = Nobody /\ approver = Nobody

Settled ==
    /\ keyErased => keyFile # "there"
    /\ life = "disposed" => ~UnderHold /\ period = "lapsed" /\ keyErased

Inv == TypeOK /\ Lockstep /\ Approval /\ Settled /\ readable
=============================================================================
