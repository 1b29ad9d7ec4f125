----------------------------- MODULE CaseLedger -----------------------------
(***************************************************************************)
(* A case in its ledger: the lifecycle state, the assignments, and the     *)
(* runs that work the case one after another (builtin/case_lifecycle.go,   *)
(* builtin/ledger.go).                                                     *)
(*                                                                         *)
(* The ledger is a graph store that one process at a time can open.  A run *)
(* opens it, attaches the case to it and keeps a COPY of the state it read *)
(* there.  The builtins that take the ledger ask the ledger; the ones that *)
(* do not, such as record_seal, ask the copy.  A run may close the ledger  *)
(* and go on: another run then opens it, and the first one's copy ages.    *)
(*                                                                         *)
(* An examiner has one run at a time, so a run is named by its examiner.   *)
(* A chain of events is kept as what its readers make of it (the state,    *)
(* the role in force, the holds in force); `readable' says whether every   *)
(* event appended so far is one its reader accepts.  The key file itself   *)
(* is module KeyFile's, and the class and view definitions are module      *)
(* CaseDefinitions'.                                                       *)
(***************************************************************************)
EXTENDS Naturals, FiniteSets

CONSTANTS
    Examiners,      \* the people who work the case, each with one run at most
    Records,        \* the sealed records an erasure can name
    EarlierKeys,    \* the generations of the case key before the current one
    Redactions,     \* the redaction versions a review can name
    Holds,          \* the retention holds that can be in force at once
    Exhibits,       \* the evidence items
    Nobody          \* no examiner

ASSUME NobodyAssumption == Nobody \notin Examiners

\* "owner" stands for the roles a disposal may be recorded under (case_owner
\* and administrator), "reviewer" for the one role a review is decided under.
\* "none" is an assignment that was ended or never made, and in a run the
\* absence of one.
Roles == {"owner", "reviewer"}

States == {"registered", "active", "in_review", "concluded", "retained", "disposed"}

\* Before the first attach the ledger holds no lifecycle event for the case.
Unregistered == "unregistered"

VARIABLES
    \* The ledger.
    life,           \* the state the lifecycle chain's head gives
    assigned,       \* examiner -> the role in force
    asked,          \* review subject -> who asked for the undecided review of it
    asker,          \* who asked for the last approved review of the case
    approver,       \* who approved it
    period,         \* the retention period: "none", "running" or "lapsed"
    hold,           \* the holds in force
    erased,         \* the records and earlier keys whose erasure the ledger records
    keyErased,      \* the ledger records the erasure of every key of the case
    item,           \* exhibit -> where its custody chain says it is
    readable,       \* every event appended is one its reader accepts
    \* Outside it.
    keyFile,        \* "there", "gone", or "restored" after a recorded erasure
    current,        \* a custody manifest naming the lifecycle's head exists
    store,          \* who has the ledger's store open
    \* Each examiner's run.
    role,           \* the role the run asserts, "none" when there is no run
    hasKey,         \* the run has the case key open, or the file to open it from
    attached,       \* "no", "live", or "closed" after its handle was closed
    copy,           \* the case's state as the run's session has it
    inStep          \* the copy was taken from the lifecycle's present head

ledger  == <<life, assigned, asked, asker, approver, period, hold, erased,
             keyErased, item, readable>>
outside == <<keyFile, current, store>>
runs    == <<role, hasKey, attached, copy, inStep>>
vars    == <<ledger, outside, runs>>

Subjects == Redactions \cup {"case"}

Init ==
    /\ life = Unregistered
    /\ assigned = [e \in Examiners |-> "none"]
    /\ asked = [s \in Subjects |-> Nobody]
    /\ asker = Nobody
    /\ approver = Nobody
    /\ period = "none"
    /\ hold = {}
    /\ erased = {}
    /\ keyErased = FALSE
    /\ item = [x \in Exhibits |-> [state |-> "absent", holder |-> Nobody, to |-> Nobody]]
    /\ readable = TRUE
    /\ keyFile = "there"
    /\ current = FALSE
    /\ store = Nobody
    /\ role = [e \in Examiners |-> "none"]
    /\ hasKey = [e \in Examiners |-> FALSE]
    /\ attached = [e \in Examiners |-> "no"]
    /\ copy = [e \in Examiners |-> Unregistered]
    /\ inStep = [e \in Examiners |-> FALSE]

-----------------------------------------------------------------------------
(* The lifecycle's rules. *)

\* caseMoves: every move the lifecycle has, as the reader knows them.
Moves ==
    {<<"registered", "active">>, <<"active", "in_review">>,
     <<"in_review", "concluded">>, <<"in_review", "active">>,
     <<"concluded", "active">>, <<"concluded", "retained">>,
     <<"retained", "disposed">>}

\* The ones case_transition makes; the others belong to the review and the
\* retention builtins.
TransitionMoves ==
    {<<"registered", "active">>, <<"concluded", "active">>, <<"retained", "disposed">>}

\* caseStateRefuses: what each state takes no more.
Refuses(state, action) ==
    \/ state = "in_review" /\ action \in {"seal", "define", "disclose", "intake", "redact"}
    \/ state \in {"concluded", "retained"} /\ action \in {"seal", "intake"}
    \/ state = "disposed"

\* caseLifecycleRead: the first event registers the case, each later one makes
\* a move the lifecycle has.
LifecycleReads(from, to) ==
    \/ from = Unregistered /\ to = "registered"
    \/ <<from, to>> \in Moves

\* caseAttachedStateRefusal: record_seal, class_define and the others that take
\* no ledger ask the copy the run has.  A run whose case is attached to no
\* ledger has no state to be refused in.
Takes(e, action) == attached[e] = "no" \/ ~Refuses(copy[e], action)

\* caseLedgerWrite and ledgerWriteHandleArg: the run's case is attached by the
\* handle it has open, and the chains it will read are ones a reader accepts.
Writes(e) ==
    /\ attached[e] = "live"
    /\ readable

\* disposerRefusal: the role an erasure or a disposal is recorded under.
Disposer(e) == role[e] = "owner"

\* retentionHoldRefusal, over what retentionRead finds placed and not lifted.
UnderHold == hold # {}

\* A lifecycle event appended by e's run, which updates its own copy after the
\* commit.  Every other copy, and every manifest, now names an older head.
LifecycleFor(e, to) ==
    /\ life' = to
    /\ copy' = [copy EXCEPT ![e] = to]
    /\ inStep' = [x \in Examiners |-> x = e]
    /\ current' = FALSE
    /\ readable' = LifecycleReads(life, to)

-----------------------------------------------------------------------------
(* A run's own steps. *)

\* case_open with the role asserted, then case_key_open, which needs the file.
\* Until both are done the run can neither attach nor seal.
CaseOpen(e, r) ==
    /\ role[e] = "none"
    /\ keyFile # "gone"
    /\ role' = [role EXCEPT ![e] = r]
    /\ hasKey' = [hasKey EXCEPT ![e] = TRUE]
    /\ UNCHANGED <<ledger, outside, attached, copy, inStep>>

\* case_key_rotate takes no lock.  It read the file at some time since its run
\* began, which is a time there was one (CaseOpen), asked for passphrases, and
\* now renames what it made over whatever is there, which may be nothing.  A
\* run whose key was zeroed can then open it again (case_key_open).
KeyRotate(e) ==
    /\ role[e] # "none"
    /\ keyFile' = IF keyErased THEN "restored" ELSE "there"
    /\ hasKey' = [x \in Examiners |-> role[x] # "none"]
    /\ UNCHANGED <<ledger, current, store, role, attached, copy, inStep>>

\* ledger_open: graphene's own lock keeps a second process out of the store.
LedgerOpen(e) ==
    /\ role[e] # "none"
    /\ store = Nobody
    /\ store' = e
    /\ UNCHANGED <<ledger, keyFile, current, runs>>

\* ledger_close: the case stays attached, through a handle nothing can use.
LedgerClose(e) ==
    /\ store = e
    /\ store' = Nobody
    /\ attached' = [attached EXCEPT ![e] = IF @ = "live" THEN "closed" ELSE @]
    /\ UNCHANGED <<ledger, keyFile, current, role, hasKey, copy, inStep>>

\* The process ends or is killed: its session is gone and the store is free.
End(e) ==
    /\ role[e] # "none"
    /\ role' = [role EXCEPT ![e] = "none"]
    /\ hasKey' = [hasKey EXCEPT ![e] = FALSE]
    /\ attached' = [attached EXCEPT ![e] = "no"]
    /\ copy' = [copy EXCEPT ![e] = Unregistered]
    /\ inStep' = [inStep EXCEPT ![e] = FALSE]
    /\ store' = IF store = e THEN Nobody ELSE store
    /\ UNCHANGED <<ledger, keyFile, current>>

\* Faulty variants of an operation carry its name and a suffix.  No
\* specification uses them: they show that the properties can fail.
\* This one keeps the copy an earlier attach took.
Attach_StaleCopy(e) ==
    /\ store = e
    /\ attached[e] # "live"
    /\ readable
    /\ life # Unregistered
    /\ assigned[e] = role[e]
    /\ attached' = [attached EXCEPT ![e] = "live"]
    /\ copy' = [copy EXCEPT ![e] = IF attached[e] = "no" THEN life ELSE @]
    /\ inStep' = [inStep EXCEPT ![e] = TRUE]
    /\ UNCHANGED <<ledger, outside, role, hasKey>>

\* case_attach of a case the ledger knows: the examiner is assigned the role
\* the run asserts, and the copy is taken.
Attach(e) ==
    /\ store = e
    /\ attached[e] # "live"
    /\ readable
    /\ life # Unregistered
    /\ assigned[e] = role[e]
    /\ attached' = [attached EXCEPT ![e] = "live"]
    /\ copy' = [copy EXCEPT ![e] = life]
    /\ inStep' = [inStep EXCEPT ![e] = TRUE]
    /\ UNCHANGED <<ledger, outside, role, hasKey>>

\* case_attach of a case new to the ledger registers it and assigns its
\* examiner the role the run asserts.
Register(e) ==
    /\ store = e
    /\ readable
    /\ life = Unregistered
    /\ LifecycleFor(e, "registered")
    /\ assigned' = [assigned EXCEPT ![e] = role[e]]
    /\ attached' = [attached EXCEPT ![e] = "live"]
    /\ UNCHANGED <<asked, asker, approver, period, hold, erased, keyErased, item,
                   keyFile, store, role, hasKey>>

\* case_assign: x is given another role, or "none" to end the one in force.
Assign(e, x, r) ==
    /\ Writes(e)
    /\ ~Refuses(life, "assign")
    /\ assigned[x] # r
    /\ assigned' = [assigned EXCEPT ![x] = r]
    /\ UNCHANGED <<life, asked, asker, approver, period, hold, erased, keyErased,
                   item, readable, outside, runs>>

\* case_write: the run writes its manifest, which names the head its copy has.
CaseWrite(e) ==
    /\ attached[e] # "no"
    /\ inStep[e]
    /\ current' = TRUE
    /\ UNCHANGED <<ledger, keyFile, store, runs>>
=============================================================================
