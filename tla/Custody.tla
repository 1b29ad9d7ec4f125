------------------------------ MODULE Custody -------------------------------
(***************************************************************************)
(* The case session of builtin/custody.go: one case at a time is open in   *)
(* the process, every task records into it, and the hashing of a source    *)
(* is done between the critical sections that look the case up and the one *)
(* that records.  Case s is the s-th opened, handle h the h-th an evidence *)
(* opener returned.  A digest is the algorithm and the contents it read,   *)
(* so equal digests mean equal contents; size and modification time are    *)
(* the contents seen by stat.  Clocks, notes' texts, the key and the       *)
(* classification scheme are left out, and roles are module Roles.  A call *)
(* that is refused changes nothing and is left out.                        *)
(***************************************************************************)
EXTENDS Integers, Sequences, FiniteSets

CONSTANTS
  Threads,    (* the main program and the tasks it spawned                 *)
  Files,      (* resolved paths                                            *)
  Contents,
  Algos,      (* the hash algorithms a policy can name                     *)
  MaxOps,     (* calls made in all                                         *)
  MaxChanges  (* times a file changes under the program                    *)

ASSUME CustodyAssumption == MaxOps \in Nat /\ MaxChanges \in Nat

Ids      == 1..MaxOps
None     == "none"
Gone     == "gone"
Policies == Algos \cup {None}
Disk     == Contents \cup {Gone}
NoDigest == [algo |-> None, content |-> Gone]
Failed   == [algo |-> "failed", content |-> Gone]

VARIABLES
  current,   (* custodyStore.session, or 0                                  *)
  sessions,  (* how many cases were opened                                  *)
  case,      (* the cases, open and closed                                  *)
  active,    (* custodyActive                                               *)
  disk,      (* the contents of the files                                   *)
  handles,   (* how many handles the openers returned                       *)
  call,      (* what each thread is doing                                   *)
  ops, changes,
  explicit,  (* history: the sources of a case case_evidence registered     *)
  report     (* history: the verdicts of the last case_verify               *)

store == <<current, sessions, case>>
vars == <<store, active, disk, handles, call, ops, changes, explicit, report>>

NoSource == [known |-> FALSE, stat |-> Gone, digest |-> NoDigest, algo |-> None,
             hashError |-> FALSE, opens |-> 0, touches |-> 0]
NoCase   == [policy |-> None, closed |-> FALSE, evidence |-> [f \in Files |-> NoSource],
             order |-> <<>>, handles |-> [h \in Ids |-> <<>>], timeline |-> <<>>]
NoReport == [f \in Files |-> [status |-> None, digest |-> NoDigest, algo |-> None, now |-> Gone]]
Idle     == [op |-> "idle", s |-> 0, paths |-> <<>>, h |-> 0, algo |-> None,
             stats |-> [f \in Files |-> Gone], digests |-> [f \in Files |-> NoDigest],
             pending |-> {}, checks |-> NoReport]

Init ==
  /\ current = 0 /\ sessions = 0 /\ case = [s \in Ids |-> NoCase]
  /\ active = FALSE /\ handles = 0
  /\ disk \in [Files -> Contents]
  /\ call = [t \in Threads |-> Idle] /\ ops = 0 /\ changes = 0
  /\ explicit = {} /\ report = NoReport

In(t, op)    == call[t].op = op
Begin(t)     == In(t, "idle") /\ ops < MaxOps /\ ops' = ops + 1
Start(t, c)  == call' = [call EXCEPT ![t] = c]
Goto(t, op)  == call' = [call EXCEPT ![t].op = op]
Return(t)    == call' = [call EXCEPT ![t] = Idle]
IsOpen       == current # 0 /\ ~case[current].closed

(* The case a call looked up is still the open one.                         *)
StillOpen(s) == current = s /\ ~case[s].closed

appendEvent(c, event, f) == [c EXCEPT !.timeline = Append(@, [event |-> event, source |-> f])]

(* custodyHashFile                                                          *)
Hash(f, algo) == IF disk[f] = Gone \/ algo \notin Algos THEN Failed ELSE [algo |-> algo, content |-> disk[f]]

-----------------------------------------------------------------------------
(* case_open, case_close: the session under the lock, the flag after it *)

CaseOpen(t, policy) ==
  /\ Begin(t) /\ ~IsOpen
  /\ LET s == sessions + 1 IN
     /\ current' = s /\ sessions' = s
     /\ case' = [case EXCEPT ![s] = appendEvent([NoCase EXCEPT !.policy = policy], "case_open", None)]
  /\ Goto(t, "activate")
  /\ UNCHANGED <<active, disk, handles, changes, explicit, report>>

Activate(t) ==
  /\ In(t, "activate")
  /\ active' = TRUE
  /\ Return(t)
  /\ UNCHANGED <<store, disk, handles, ops, changes, explicit, report>>

(* It may come before the opener of the case has put the flag up.           *)
CaseClose(t) ==
  /\ Begin(t) /\ IsOpen
  /\ case' = [case EXCEPT ![current] = appendEvent([@ EXCEPT !.closed = TRUE], "case_close", None)]
  /\ Goto(t, "deactivate")
  /\ UNCHANGED <<current, sessions, active, disk, handles, changes, explicit, report>>

Deactivate(t) ==
  /\ In(t, "deactivate")
  /\ active' = FALSE
  /\ Return(t)
  /\ UNCHANGED <<store, disk, handles, ops, changes, explicit, report>>

CaseNote(t) ==
  /\ Begin(t) /\ IsOpen
  /\ case' = [case EXCEPT ![current] = appendEvent(@, "note", None)]
  /\ UNCHANGED <<current, sessions, active, disk, handles, call, changes, explicit, report>>

(* custodyRecordArtifact: the flag, then the session under the lock.        *)
ArtifactWritten(t) ==
  /\ Begin(t) /\ active
  /\ Goto(t, "artifact")
  /\ UNCHANGED <<store, active, disk, handles, changes, explicit, report>>

(* Faulty variants of an operation carry its name and a suffix.  No         *)
(* specification uses them: they show that the properties can fail.         *)

(* The flag that was up is taken for an open case.                          *)
custodyRecordArtifact_FlagOnly(t) ==
  /\ In(t, "artifact")
  /\ case' = [case EXCEPT ![current] = appendEvent(@, "artifact", None)]
  /\ Return(t)
  /\ UNCHANGED <<current, sessions, active, disk, handles, ops, changes, explicit, report>>

custodyRecordArtifact(t) ==
  /\ In(t, "artifact")
  /\ case' = IF IsOpen THEN [case EXCEPT ![current] = appendEvent(@, "artifact", None)] ELSE case
  /\ Return(t)
  /\ UNCHANGED <<current, sessions, active, disk, handles, ops, changes, explicit, report>>

-----------------------------------------------------------------------------
(* case_evidence: look the case up, measure the file, record *)

CaseEvidence(t, f, algo) ==
  /\ Begin(t) /\ IsOpen
  /\ Start(t, [Idle EXCEPT !.op = "evidence", !.s = current, !.paths = <<f>>, !.algo = algo])
  /\ UNCHANGED <<store, active, disk, handles, changes, explicit, report>>

(* custodyStatSource; a file that is not there is refused.                  *)
EvidenceStat(t) ==
  /\ In(t, "evidence")
  /\ LET f == Head(call[t].paths) IN
     IF disk[f] = Gone THEN Return(t)
     ELSE call' = [call EXCEPT ![t].op = "evidenceHash", ![t].stats[f] = disk[f]]
  /\ UNCHANGED <<store, active, disk, handles, ops, changes, explicit, report>>

EvidenceHash(t) ==
  /\ In(t, "evidenceHash")
  /\ LET f == Head(call[t].paths)
         digest == IF call[t].algo = None THEN NoDigest ELSE Hash(f, call[t].algo)
     IN call' = [call EXCEPT ![t].op = "evidenceRegister", ![t].digests[f] = digest]
  /\ UNCHANGED <<store, active, disk, handles, ops, changes, explicit, report>>

NewSource(stat, algo) == [NoSource EXCEPT !.known = TRUE, !.stat = stat, !.algo = algo]

(* The sources a case does not know yet come under custody.                 *)
Enter(c, paths, stats, algo) ==
  LET fresh == SelectSeq(paths, LAMBDA f : ~c.evidence[f].known) IN
  [c EXCEPT !.order = @ \o fresh,
            !.timeline = @ \o [i \in 1..Len(fresh) |-> [event |-> "evidence_registered", source |-> fresh[i]]],
            !.evidence = [f \in Files |-> IF f \in {paths[i] : i \in 1..Len(paths)} /\ ~@[f].known
                                          THEN NewSource(stats[f], algo) ELSE @[f]]]

(* The digest and the algorithm are kept when there was none; a failed      *)
(* digest is noted when there is none.                                      *)
Registered(r, algo, digest) ==
  IF digest \notin {NoDigest, Failed} /\ r.digest = NoDigest
  THEN [r EXCEPT !.digest = digest, !.algo = algo, !.hashError = FALSE]
  ELSE [r EXCEPT !.hashError = @ \/ (digest = Failed /\ r.digest = NoDigest)]

registerFileLocked(c, f, stats, algo, digest) ==
  LET e == Enter(c, <<f>>, stats, algo) IN
  [e EXCEPT !.evidence[f] = Registered(@, algo, digest)]

EvidenceRegister(t) ==
  /\ In(t, "evidenceRegister")
  /\ LET c == call[t]
         f == Head(c.paths)
     IN IF StillOpen(c.s)
        THEN /\ case' = [case EXCEPT ![c.s] = registerFileLocked(@, f, c.stats, c.algo, c.digests[f])]
             /\ explicit' = explicit \cup {<<c.s, f>>}
        ELSE UNCHANGED <<case, explicit>>
  /\ Return(t)
  /\ UNCHANGED <<current, sessions, active, disk, handles, ops, changes, report>>

-----------------------------------------------------------------------------
(* custodyRecordOpenAt, called by every evidence opener with the new handle *)

EvidenceOpened(t, paths) ==
  /\ Begin(t)
  /\ handles' = handles + 1
  /\ IF active THEN Start(t, [Idle EXCEPT !.op = "openStat", !.paths = paths, !.h = handles + 1])
     ELSE UNCHANGED call
  /\ UNCHANGED <<store, active, disk, changes, explicit, report>>

Paths(t) == {call[t].paths[i] : i \in 1..Len(call[t].paths)}

OpenStat(t) ==
  /\ In(t, "openStat")
  /\ call' = [call EXCEPT ![t].op = "openCase",
                          ![t].stats = [f \in Files |-> IF f \in Paths(t) THEN disk[f] ELSE Gone]]
  /\ UNCHANGED <<store, active, disk, handles, ops, changes, explicit, report>>

OpenCase(t) ==
  /\ In(t, "openCase")
  /\ IF ~IsOpen THEN Return(t)
     ELSE call' = [call EXCEPT ![t].s = current, ![t].algo = case[current].policy,
                               ![t].op = IF case[current].policy = None THEN "openRegister" ELSE "openPending"]
  /\ UNCHANGED <<store, active, disk, handles, ops, changes, explicit, report>>

(* A source that is registered is taken to be hashed.                       *)
OpenPending_Known(t) ==
  /\ In(t, "openPending")
  /\ LET e == case[call[t].s].evidence IN
     call' = [call EXCEPT ![t].op = "openHash", ![t].pending = {f \in Paths(t) : ~e[f].known}]
  /\ UNCHANGED <<store, active, disk, handles, ops, changes, explicit, report>>

(* Only sources this case has not hashed, or failed to hash, are hashed.    *)
OpenPending(t) ==
  /\ In(t, "openPending")
  /\ LET e == case[call[t].s].evidence IN
     call' = [call EXCEPT ![t].op = "openHash",
                          ![t].pending = {f \in Paths(t) : e[f].digest = NoDigest /\ ~e[f].hashError}]
  /\ UNCHANGED <<store, active, disk, handles, ops, changes, explicit, report>>

OpenHash(t) ==
  /\ In(t, "openHash")
  /\ LET c == call[t] IN
     call' = [call EXCEPT ![t].op = "openRegister",
                          ![t].digests = [f \in Files |-> IF f \in c.pending THEN Hash(f, c.algo) ELSE NoDigest]]
  /\ UNCHANGED <<store, active, disk, handles, ops, changes, explicit, report>>

(* The digest is kept when there was none; the record's algorithm is not    *)
(* touched.                                                                 *)
Opened(r, digest) ==
  [r EXCEPT !.opens = @ + 1,
            !.digest = IF digest \in {NoDigest, Failed} \/ @ # NoDigest THEN @ ELSE digest,
            !.hashError = IF r.digest # NoDigest \/ digest = NoDigest THEN @ ELSE digest = Failed]

Record(c, call_t) ==
  LET e == Enter(c, call_t.paths, call_t.stats, call_t.algo) IN
  [e EXCEPT !.handles[call_t.h] = call_t.paths,
            !.evidence = [f \in Files |-> IF f \in {call_t.paths[i] : i \in 1..Len(call_t.paths)}
                                          THEN Opened(@[f], call_t.digests[f]) ELSE @[f]]]

(* The sources go into whatever case is open by now.                        *)
OpenRegister_Current(t) ==
  /\ In(t, "openRegister")
  /\ case' = IF IsOpen THEN [case EXCEPT ![current] = Record(@, call[t])] ELSE case
  /\ Return(t)
  /\ UNCHANGED <<current, sessions, active, disk, handles, ops, changes, explicit, report>>

OpenRegister(t) ==
  /\ In(t, "openRegister")
  /\ case' = IF StillOpen(call[t].s) THEN [case EXCEPT ![call[t].s] = Record(@, call[t])] ELSE case
  /\ Return(t)
  /\ UNCHANGED <<current, sessions, active, disk, handles, ops, changes, explicit, report>>

-----------------------------------------------------------------------------
(* custodyRecordTouch, called by every handle resolver *)

HandleUsed(t, h) ==
  /\ Begin(t) /\ active
  /\ Start(t, [Idle EXCEPT !.op = "touch", !.h = h])
  /\ UNCHANGED <<store, active, disk, handles, changes, explicit, report>>

(* The sources the case saw opened under a handle are touched.              *)
Touched(c, h) ==
  [c EXCEPT !.evidence = [f \in Files |-> IF f \in {c.handles[h][i] : i \in 1..Len(c.handles[h])}
                                          THEN [c.evidence[f] EXCEPT !.touches = @ + 1] ELSE @[f]]]

custodyRecordTouch(t) ==
  /\ In(t, "touch")
  /\ case' = IF IsOpen THEN [case EXCEPT ![current] = Touched(@, call[t].h)] ELSE case
  /\ Return(t)
  /\ UNCHANGED <<current, sessions, active, disk, handles, ops, changes, explicit, report>>

-----------------------------------------------------------------------------
(* case_verify: snapshot, measure again, put the report on the timeline *)

CaseVerify(t) ==
  /\ Begin(t) /\ current # 0
  /\ Start(t, [Idle EXCEPT !.op = "verify", !.s = current])
  /\ UNCHANGED <<store, active, disk, handles, changes, explicit, report>>

VerifySnapshot(t) ==
  /\ In(t, "verify")
  /\ LET e == case[call[t].s].evidence IN
     call' = [call EXCEPT ![t].op = "verifyCheck",
                          ![t].pending = {f \in Files : e[f].known},
                          ![t].stats = [f \in Files |-> e[f].stat],
                          ![t].checks = [f \in Files |-> [status |-> None, digest |-> e[f].digest,
                                                          algo |-> e[f].algo, now |-> Gone]]]
  /\ UNCHANGED <<store, active, disk, handles, ops, changes, explicit, report>>

(* A source whose size and time have not moved is not hashed again.         *)
Verdict_StatFirst(f, stat, check) ==
  IF stat = Gone THEN "not_on_disk"
  ELSE IF disk[f] = Gone THEN "missing"
  ELSE IF check.digest = NoDigest \/ disk[f] = stat THEN IF disk[f] = stat THEN "unchanged" ELSE "changed"
  ELSE LET again == Hash(f, check.algo) IN
       IF again = Failed THEN "missing" ELSE IF again = check.digest THEN "unchanged" ELSE "changed"

Verdict(f, stat, check) ==
  IF stat = Gone THEN "not_on_disk"
  ELSE IF disk[f] = Gone THEN "missing"
  ELSE IF check.digest = NoDigest THEN IF disk[f] = stat THEN "unchanged" ELSE "changed"
  ELSE LET again == Hash(f, check.algo) IN
       IF again = Failed THEN "missing" ELSE IF again = check.digest THEN "unchanged" ELSE "changed"

VerifyCheck(t) ==
  /\ In(t, "verifyCheck")
  /\ LET c == call[t] IN
     call' = [call EXCEPT ![t].op = "verifyReport",
                          ![t].checks = [f \in Files |->
                             IF f \notin c.pending THEN @[f]
                             ELSE [@[f] EXCEPT !.status = Verdict(f, c.stats[f], c.checks[f]), !.now = disk[f]]]]
  /\ UNCHANGED <<store, active, disk, handles, ops, changes, explicit, report>>

VerifyReport(t) ==
  /\ In(t, "verifyReport")
  /\ case' = IF StillOpen(call[t].s) THEN [case EXCEPT ![call[t].s] = appendEvent(@, "verify", None)] ELSE case
  /\ report' = call[t].checks
  /\ Return(t)
  /\ UNCHANGED <<current, sessions, active, disk, handles, ops, changes, explicit>>

-----------------------------------------------------------------------------
(* A file changes, vanishes or comes back while the program runs.           *)
FileChanges(f) ==
  /\ changes < MaxChanges /\ changes' = changes + 1
  /\ \E v \in Disk \ {disk[f]} : disk' = [disk EXCEPT ![f] = v]
  /\ UNCHANGED <<store, active, handles, call, ops, explicit, report>>

(* The sources behind one handle; the segments of an image are distinct.    *)
Openings == {<<f>> : f \in Files} \cup {<<p[1], p[2]>> : p \in {q \in Files \X Files : q[1] # q[2]}}

Step(t) ==
  \/ \E policy \in Policies : CaseOpen(t, policy)
  \/ Activate(t) \/ CaseClose(t) \/ Deactivate(t)
  \/ CaseNote(t) \/ ArtifactWritten(t) \/ custodyRecordArtifact(t)
  \/ \E f \in Files, algo \in Policies : CaseEvidence(t, f, algo)
  \/ EvidenceStat(t) \/ EvidenceHash(t) \/ EvidenceRegister(t)
  \/ \E paths \in Openings : EvidenceOpened(t, paths)
  \/ OpenStat(t) \/ OpenCase(t) \/ OpenPending(t) \/ OpenHash(t) \/ OpenRegister(t)
  \/ \E h \in 1..handles : HandleUsed(t, h)
  \/ custodyRecordTouch(t)
  \/ CaseVerify(t) \/ VerifySnapshot(t) \/ VerifyCheck(t) \/ VerifyReport(t)

Next == (\E t \in Threads : Step(t)) \/ (\E f \in Files : FileChanges(f))

Spec == Init /\ [][Next]_vars

-----------------------------------------------------------------------------
(* custodyStore holds one case: every case but the last opened is closed,   *)
(* whoever opens and closes.                                                *)
OneOpenCase == \A s \in 1..sessions : s # sessions => case[s].closed

(* Nothing is recorded in a case after its close: an opener, a note, a      *)
(* verification or an artifact caught half way by case_close, or by the     *)
(* case_open after it, leaves the closed case's evidence and timeline as    *)
(* its manifest gave them.                                                  *)
ClosedIsFrozen == [][\A s \in Ids : case[s].closed => case'[s] = case[s]]_vars

(* A source only openers brought in was measured as its own case asked:     *)
(* with the case's policy, and not at all when the policy is none.  The     *)
(* policy is read, and the file hashed, before the record is made.          *)
MeasuredByPolicy ==
  \A s \in Ids, f \in Files :
    LET r == case[s].evidence[f] IN
    r.known /\ <<s, f>> \notin explicit =>
      /\ r.algo = case[s].policy
      /\ r.digest # NoDigest => r.digest.algo = case[s].policy

(* A source an opener read under a hash policy has a digest, or the reason  *)
(* it has none, whichever of several calls registered it first.             *)
HashedOrExplained ==
  \A s \in Ids, f \in Files :
    LET r == case[s].evidence[f] IN
    r.opens > 0 /\ case[s].policy # None => r.digest # NoDigest \/ r.hashError

(* case_verify never says unchanged of a source whose contents are not the  *)
(* ones its digest was taken of, and says changed of one that is the same   *)
(* only when the record names another algorithm than the digest's.          *)
VerdictHonest ==
  \A f \in Files : LET r == report[f] IN
    r.digest # NoDigest =>
      /\ r.status = "unchanged" => r.now = r.digest.content
      /\ r.status = "changed" /\ r.algo = r.digest.algo => r.now # r.digest.content

Quiet == \A t \in Threads : ~In(t, "activate") /\ ~In(t, "deactivate")

(* Evidence a task reads lands in the open case's manifest: once case_open  *)
(* has returned, the recorders are active until a case_close.               *)
OpenIsRecording == Quiet /\ IsOpen => active

(* The algorithm in a source's record is the one its digest was taken with; *)
(* case_verify hashes with the one to compare with the other.               *)
AlgoNamesDigest ==
  \A s \in Ids, f \in Files :
    LET r == case[s].evidence[f] IN r.digest # NoDigest => r.algo = r.digest.algo

=============================================================================
