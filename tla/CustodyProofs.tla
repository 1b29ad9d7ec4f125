--------------------------- MODULE CustodyProofs ----------------------------
(***************************************************************************)
(* Proofs about module Custody, for any tasks, files, contents, algorithms *)
(* and bounds.                                                             *)
(*                                                                         *)
(* One case is open at a time, and a closed case is never written to       *)
(* again: every recorder, at the moment it writes, writes into the current *)
(* case and finds it open.  What the recorders write is what the case      *)
(* asked for: an opener reads the policy, lists the sources without a      *)
(* digest and hashes them in three steps without the lock, so the          *)
(* invariant says of each of these steps what the call carries and how the *)
(* case may have grown meanwhile.                                          *)
(***************************************************************************)
EXTENDS Custody, TLAPS

(* The inductive invariant: the current case is the last opened, the ones   *)
(* before it are closed, and the ones still to come are not.                *)
CaseInv ==
  /\ sessions \in Nat /\ ops \in Nat /\ sessions <= ops /\ ops <= MaxOps
  /\ current = sessions
  /\ case = [s \in Ids |-> case[s]]
  /\ OneOpenCase
  /\ \A s \in Ids : s > sessions => ~case[s].closed

(* What a step may do to the cases: nothing, or write into the open one.    *)
Writes ==
  /\ current' = current /\ sessions' = sessions
  /\ \/ case' = case
     \/ ~case[current].closed /\ \E c : case' = [case EXCEPT ![current] = c]

(* Every step but case_open writes only into the open case.                 *)
LEMMA StepsWrite ==
  ASSUME NEW t \in Threads, Step(t), \A policy \in Policies : ~CaseOpen(t, policy)
  PROVE  Writes
<1>1. CASE Activate(t) \/ Deactivate(t) \/ ArtifactWritten(t)
  BY <1>1 DEF Activate, Deactivate, ArtifactWritten, Writes, store
<1>2. CASE CaseClose(t)
  BY <1>2, Zenon DEF CaseClose, Writes, IsOpen
<1>3. CASE CaseNote(t)
  BY <1>3, Zenon DEF CaseNote, Writes, IsOpen
<1>4. CASE custodyRecordArtifact(t)
  BY <1>4, Zenon DEF custodyRecordArtifact, Writes, IsOpen
<1>5. ASSUME NEW f \in Files, NEW algo \in Policies, CaseEvidence(t, f, algo) PROVE Writes
  BY <1>5 DEF CaseEvidence, Writes, store
<1>6. CASE EvidenceStat(t) \/ EvidenceHash(t)
  BY <1>6 DEF EvidenceStat, EvidenceHash, Writes, store
<1>7. CASE EvidenceRegister(t)
  <2> DEFINE f == Head(call[t].paths)
             c == registerFileLocked(case[call[t].s], f, call[t].stats, call[t].algo, call[t].digests[f])
  <2>1. case' = case \/ (StillOpen(call[t].s) /\ case' = [case EXCEPT ![call[t].s] = c])
    BY <1>7 DEF EvidenceRegister
  <2>2. current' = current /\ sessions' = sessions
    BY <1>7 DEF EvidenceRegister
  <2> HIDE DEF c
  <2> QED BY <2>1, <2>2 DEF Writes, StillOpen
<1>8. ASSUME NEW paths \in Openings, EvidenceOpened(t, paths) PROVE Writes
  BY <1>8 DEF EvidenceOpened, Writes, store
<1>9. CASE OpenStat(t) \/ OpenCase(t) \/ OpenPending(t) \/ OpenHash(t)
  BY <1>9, Zenon DEF OpenStat, OpenCase, OpenPending, OpenHash, Writes, store
<1>10. CASE OpenRegister(t)
  <2> DEFINE c == Record(case[call[t].s], call[t])
  <2>1. case' = case \/ (StillOpen(call[t].s) /\ case' = [case EXCEPT ![call[t].s] = c])
    BY <1>10 DEF OpenRegister
  <2>2. current' = current /\ sessions' = sessions
    BY <1>10 DEF OpenRegister
  <2> HIDE DEF c
  <2> QED BY <2>1, <2>2 DEF Writes, StillOpen
<1>11. ASSUME NEW h \in 1..handles, HandleUsed(t, h) PROVE Writes
  BY <1>11 DEF HandleUsed, Writes, store
<1>12. CASE custodyRecordTouch(t)
  BY <1>12, Zenon DEF custodyRecordTouch, Writes, IsOpen
<1>13. CASE CaseVerify(t) \/ VerifySnapshot(t) \/ VerifyCheck(t)
  BY <1>13, Zenon DEF CaseVerify, VerifySnapshot, VerifyCheck, Writes, store
<1>14. CASE VerifyReport(t)
  BY <1>14, Zenon DEF VerifyReport, Writes, StillOpen
<1> QED BY <1>1, <1>2, <1>3, <1>4, <1>5, <1>6, <1>7, <1>8, <1>9, <1>10, <1>11, <1>12, <1>13, <1>14 DEF Step

(* Writing into the open case keeps the invariant, and leaves the closed    *)
(* cases alone.                                                             *)
LEMMA WritesInv ==
  ASSUME CaseInv, Writes, ops' \in Nat, ops <= ops', ops' <= MaxOps
  PROVE  CaseInv' /\ \A s \in Ids : case[s].closed => case'[s] = case[s]
<1>1. case' = [s \in Ids |-> case'[s]] /\ \A s \in Ids : s # current \/ case[s].closed => case'[s] = case[s]
  BY DEF CaseInv, Writes
<1>2. OneOpenCase'
  <2> SUFFICES ASSUME NEW s \in 1..sessions, s # sessions PROVE case'[s].closed
    BY DEF OneOpenCase, Writes
  <2>1. s \in Ids
    BY CustodyAssumption DEF CaseInv, Ids
  <2>2. case[s].closed
    BY DEF CaseInv, OneOpenCase
  <2> QED BY <1>1, <2>1, <2>2
<1>3. \A s \in Ids : s > sessions => ~case'[s].closed
  BY <1>1 DEF CaseInv, Ids
<1> QED BY <1>1, <1>2, <1>3 DEF CaseInv, Writes

(* Opening the next case keeps both: every case before it is closed.        *)
LEMMA CaseOpenInv ==
  ASSUME CaseInv, NEW t \in Threads, NEW policy \in Policies, CaseOpen(t, policy)
  PROVE  CaseInv' /\ \A s \in Ids : case[s].closed => case'[s] = case[s]
<1> DEFINE n == sessions + 1
           c == appendEvent([NoCase EXCEPT !.policy = policy], "case_open", None)
<1>1. /\ current' = n /\ sessions' = n /\ ops' = ops + 1 /\ ops < MaxOps
      /\ case' = [case EXCEPT ![n] = c]
      /\ current = 0 \/ case[current].closed
  BY DEF CaseOpen, Begin, IsOpen
<1>2. ~c.closed
  BY DEF appendEvent, NoCase
<1>3. n \in Ids
  BY <1>1, CustodyAssumption DEF CaseInv, Ids
<1>4. case' = [s \in Ids |-> case'[s]] /\ case'[n] = c /\ \A s \in Ids : s # n => case'[s] = case[s]
  BY <1>1, <1>3 DEF CaseInv
<1> HIDE DEF c
<1>5. \A s \in Ids : case[s].closed => s # n
  BY DEF CaseInv, Ids
<1>6. OneOpenCase'
  <2> SUFFICES ASSUME NEW s \in 1..n, s # n PROVE case'[s].closed
    BY <1>1 DEF OneOpenCase
  <2>1. s \in Ids /\ s \in 1..sessions
    BY <1>3, CustodyAssumption DEF CaseInv, Ids
  <2>2. case[s].closed
    BY <1>1, <2>1 DEF CaseInv, OneOpenCase
  <2> QED BY <1>4, <2>1, <2>2
<1>7. \A s \in Ids : s > n => ~case'[s].closed
  BY <1>4 DEF CaseInv, Ids
<1>8. sessions' \in Nat /\ ops' \in Nat /\ sessions' <= ops' /\ ops' <= MaxOps
  BY <1>1, CustodyAssumption DEF CaseInv
<1> QED BY <1>1, <1>4, <1>5, <1>6, <1>7, <1>8 DEF CaseInv

(* A step counts at most one call more.                                     *)
LEMMA OpsBounded ==
  ASSUME CaseInv, [Next]_vars
  PROVE  ops' \in Nat /\ ops <= ops' /\ ops' <= MaxOps
<1> USE CustodyAssumption DEF CaseInv
<1>1. CASE UNCHANGED vars
  BY <1>1 DEF vars
<1>2. ASSUME NEW f \in Files, FileChanges(f) PROVE ops' = ops
  BY <1>2 DEF FileChanges
<1>3. ASSUME NEW t \in Threads, Step(t) PROVE ops' = ops \/ (ops' = ops + 1 /\ ops < MaxOps)
  BY <1>3, Zenon DEF Step, Begin, CaseOpen, Activate, CaseClose, Deactivate, CaseNote, ArtifactWritten,
     custodyRecordArtifact, CaseEvidence, EvidenceStat, EvidenceHash, EvidenceRegister, EvidenceOpened,
     OpenStat, OpenCase, OpenPending, OpenHash, OpenRegister, HandleUsed, custodyRecordTouch,
     CaseVerify, VerifySnapshot, VerifyCheck, VerifyReport
<1> QED BY <1>1, <1>2, <1>3 DEF Next

(* Every step keeps the invariant and leaves the closed cases alone.        *)
LEMMA NextInv ==
  ASSUME CaseInv, [Next]_vars
  PROVE  CaseInv' /\ \A s \in Ids : case[s].closed => case'[s] = case[s]
<1>1. CASE UNCHANGED vars
  <2>1. Writes
    BY <1>1 DEF vars, store, Writes
  <2> QED BY <2>1, OpsBounded, WritesInv
<1>2. ASSUME NEW f \in Files, FileChanges(f) PROVE Writes
  BY <1>2 DEF FileChanges, store, Writes
<1>3. ASSUME NEW t \in Threads, NEW policy \in Policies, CaseOpen(t, policy)
      PROVE  CaseInv' /\ \A s \in Ids : case[s].closed => case'[s] = case[s]
  BY <1>3, CaseOpenInv
<1>4. ASSUME NEW t \in Threads, Step(t), \A policy \in Policies : ~CaseOpen(t, policy) PROVE Writes
  BY <1>4, StepsWrite
<1> QED BY <1>1, <1>2, <1>3, <1>4, OpsBounded, WritesInv DEF Next

(* The inductive invariant holds throughout.                                *)
THEOREM CaseInvariance == Spec => []CaseInv
<1>1. Init => CaseInv
  BY CustodyAssumption DEF Init, CaseInv, OneOpenCase, NoCase, Ids
<1>2. CaseInv /\ [Next]_vars => CaseInv'
  BY NextInv
<1> QED BY <1>1, <1>2, PTL DEF Spec

(* One case is open at a time: whichever tasks call case_open and           *)
(* case_close, every case but the last opened is closed.                    *)
THEOREM OneCase == Spec => []OneOpenCase
<1>1. CaseInv => OneOpenCase
  BY DEF CaseInv
<1> QED BY <1>1, CaseInvariance, PTL

(* Nothing is recorded in a case after case_close, though every recorder    *)
(* stats and hashes between looking the case up and writing into it.        *)
THEOREM FrozenAfterClose == Spec => ClosedIsFrozen
<1>1. CaseInv /\ [Next]_vars => [\A s \in Ids : case[s].closed => case'[s] = case[s]]_vars
  BY NextInv
<1> QED BY <1>1, CaseInvariance, PTL DEF Spec, ClosedIsFrozen

-----------------------------------------------------------------------------
(* The invariant about the sources of the cases and the calls half way *)

RealDigests == [algo : Algos, content : Disk \ {Gone}]
SourceSet   == [known : BOOLEAN, stat : Disk, digest : RealDigests \cup {NoDigest}, algo : Policies,
                hashError : BOOLEAN, opens : Nat, touches : Nat]

(* A source has a digest, or the reason it has none.                        *)
Explained(r) == r.digest # NoDigest \/ r.hashError

(* What is true of a source of a case with this policy, x when              *)
(* case_evidence registered it.                                             *)
SourceOK(r, policy, x) ==
  /\ r \in SourceSet
  /\ ~r.known => ~Explained(r)
  /\ r.known /\ ~x => r.algo = policy /\ (r.digest # NoDigest => r.digest.algo = policy)
  /\ r.opens > 0 /\ policy # None => Explained(r)

CaseOK(c) ==
  /\ c = [policy |-> c.policy, closed |-> c.closed, evidence |-> c.evidence,
          order |-> c.order, handles |-> c.handles, timeline |-> c.timeline]
  /\ c.policy \in Policies
  /\ c.evidence \in [Files -> SourceSet]

SourcesInv ==
  \A s \in Ids : /\ CaseOK(case[s])
                 /\ \A f \in Files : SourceOK(case[s].evidence[f], case[s].policy, <<s, f>> \in explicit)

PathsOf(c) == {c.paths[i] : i \in 1..Len(c.paths)}
Honest(r) ==
  r.digest # NoDigest =>
    /\ r.status = "unchanged" => r.now = r.digest.content
    /\ r.status = "changed" /\ r.algo = r.digest.algo => r.now # r.digest.content

CallForm(c) ==
  /\ c = [op |-> c.op, s |-> c.s, paths |-> c.paths, h |-> c.h, algo |-> c.algo, stats |-> c.stats,
          digests |-> c.digests, pending |-> c.pending, checks |-> c.checks]
  /\ c.stats \in [Files -> Disk] /\ c.digests \in [Files -> RealDigests \cup {NoDigest, Failed}]
  /\ c.algo \in Policies

(* What is true of a call, given the cases k and how many were opened.      *)
CallOK(c, k, n) ==
  /\ CallForm(c)
  /\ c.op \in {"evidence", "evidenceHash", "evidenceRegister"} => Head(c.paths) \in Files /\ c.s \in 1..n
  /\ c.op \in {"openStat", "openCase"} => c.digests = [f \in Files |-> NoDigest]
  /\ c.op \in {"openPending", "openHash", "openRegister"} => c.s \in 1..n /\ c.algo = k[c.s].policy
  /\ c.op \in {"openPending", "openHash"} => c.algo # None
  /\ c.op = "openHash" => \A f \in Files : f \in PathsOf(c) => f \in c.pending \/ Explained(k[c.s].evidence[f])
  /\ c.op = "openRegister" =>
       \A f \in Files : /\ c.digests[f] \in {NoDigest, Failed} \/ c.digests[f].algo = c.algo
                        /\ f \in PathsOf(c) /\ c.algo # None =>
                             c.digests[f] # NoDigest \/ Explained(k[c.s].evidence[f])
  /\ c.op = "verify" => c.s \in 1..n
  /\ c.op = "verifyCheck" =>
       c.checks \in [Files -> [status : {None}, digest : RealDigests \cup {NoDigest}, algo : Policies, now : {Gone}]]
  /\ c.op = "verifyReport" => \A f \in Files : Honest(c.checks[f])

CallsInv ==
  /\ call = [t \in Threads |-> call[t]]
  /\ \A t \in Threads : CallOK(call[t], case, sessions)

CustodyInv == CaseInv /\ SourcesInv /\ CallsInv /\ disk \in [Files -> Disk] /\ VerdictHonest

-----------------------------------------------------------------------------
(* What the operators on a case and on a source do *)

(* A line on the timeline leaves the policy and the sources alone.          *)
LEMMA AppendsEvent ==
  ASSUME NEW c, CaseOK(c), NEW event, NEW f
  PROVE  LET d == appendEvent(c, event, f) IN CaseOK(d) /\ d.policy = c.policy /\ d.evidence = c.evidence
<1> DEFINE line == Append(c.timeline, [event |-> event, source |-> f])
           d == [c EXCEPT !.timeline = line]
<1>1. d = [policy |-> c.policy, closed |-> c.closed, evidence |-> c.evidence,
           order |-> c.order, handles |-> c.handles, timeline |-> line]
  <2> HIDE DEF line
  <2> QED BY DEF CaseOK
<1>2. CaseOK(d) /\ d.policy = c.policy /\ d.evidence = c.evidence
  <2> HIDE DEF line
  <2> HIDE DEF d
  <2>1. d.policy = c.policy /\ d.closed = c.closed /\ d.evidence = c.evidence /\ d.order = c.order
        /\ d.handles = c.handles /\ d.timeline = line
    BY <1>1
  <2> QED BY <1>1, <2>1 DEF CaseOK
<1> QED BY <1>2, Zenon DEF appendEvent

(* Enter changes the sources that are on the paths and not known yet.       *)
LEMMA EntersSources ==
  ASSUME NEW c, CaseOK(c), NEW paths, NEW stats, NEW algo
  PROVE  LET e == Enter(c, paths, stats, algo) IN
         /\ e = [policy |-> c.policy, closed |-> c.closed, evidence |-> e.evidence,
                 order |-> e.order, handles |-> c.handles, timeline |-> e.timeline]
         /\ e.evidence = [f \in Files |-> IF f \in {paths[i] : i \in 1..Len(paths)} /\ ~c.evidence[f].known
                                          THEN NewSource(stats[f], algo) ELSE c.evidence[f]]
<1> DEFINE fresh == SelectSeq(paths, LAMBDA f : ~c.evidence[f].known)
           order == c.order \o fresh
           line  == c.timeline \o [i \in 1..Len(fresh) |-> [event |-> "evidence_registered", source |-> fresh[i]]]
           ev    == [f \in Files |-> IF f \in {paths[i] : i \in 1..Len(paths)} /\ ~c.evidence[f].known
                                     THEN NewSource(stats[f], algo) ELSE c.evidence[f]]
           e == [c EXCEPT !.order = order, !.timeline = line, !.evidence = ev]
<1>1. Enter(c, paths, stats, algo) = e
  BY Zenon DEF Enter
<1> HIDE DEF order, line, ev
<1>2. e = [policy |-> c.policy, closed |-> c.closed, evidence |-> ev, order |-> order, handles |-> c.handles,
           timeline |-> line]
  <2>1. c \in [policy : {c.policy}, closed : {c.closed}, evidence : {c.evidence},
               order : {c.order}, handles : {c.handles}, timeline : {c.timeline}]
    BY DEF CaseOK
  <2>2. e \in [policy : {c.policy}, closed : {c.closed}, evidence : {ev},
               order : {order}, handles : {c.handles}, timeline : {line}]
    BY <2>1, Zenon
  <2> HIDE DEF e
  <2> QED BY <2>2
<1> HIDE DEF e
<1>3. e.evidence = ev /\ e.order = order /\ e.timeline = line
  BY <1>2
<1> QED BY <1>1, <1>2, <1>3, Zenon DEF ev

(* The sources of a case that comes of c by Enter.                          *)
Entered(r, in, stat, algo) == IF in /\ ~r.known THEN NewSource(stat, algo) ELSE r

Measured == RealDigests \cup {NoDigest, Failed}

(* A digest that was taken is neither of the two that stand for none.       *)
LEMMA DigestsDiffer ==
  /\ NoDigest \notin RealDigests /\ Failed \notin RealDigests /\ Failed # NoDigest
  /\ NoDigest.algo = None /\ Failed.algo = "failed"
BY DEF RealDigests, NoDigest, Failed, None, Gone

(* custodyHashFile returns a digest of the algorithm asked for, or fails.   *)
LEMMA HashIs ==
  ASSUME NEW f \in Files, NEW algo \in Policies, disk \in [Files -> Disk]
  PROVE  /\ Hash(f, algo) \in RealDigests \cup {Failed} /\ Hash(f, algo) # NoDigest
         /\ Hash(f, algo) # Failed => /\ Hash(f, algo) = [algo |-> algo, content |-> disk[f]]
                                      /\ Hash(f, algo) \in RealDigests
<1>1. CASE disk[f] = Gone \/ algo \notin Algos
  <2>1. Hash(f, algo) = Failed
    BY <1>1 DEF Hash
  <2> QED BY <2>1, DigestsDiffer
<1>2. CASE ~(disk[f] = Gone \/ algo \notin Algos)
  <2>1. Hash(f, algo) = [algo |-> algo, content |-> disk[f]]
    BY <1>2 DEF Hash
  <2>2. Hash(f, algo) \in RealDigests
    BY <1>2, <2>1 DEF RealDigests
  <2> QED BY <2>1, <2>2, DigestsDiffer
<1> QED BY <1>1, <1>2

(* A new source has neither a digest nor an error.                          *)
LEMMA NewSourceIs ==
  ASSUME NEW stat \in Disk, NEW algo \in Policies
  PROVE  LET r == NewSource(stat, algo) IN
         r \in SourceSet /\ r.known /\ r.algo = algo /\ r.digest = NoDigest /\ r.hashError = FALSE /\ r.opens = 0
<1>1. NoSource \in SourceSet
  BY DEF NoSource, SourceSet, Disk, Policies
<1> DEFINE r == [NoSource EXCEPT !.known = TRUE, !.stat = stat, !.algo = algo]
<1>2. r \in SourceSet
  BY <1>1, Zenon DEF SourceSet
<1>3. r.known /\ r.algo = algo /\ r.digest = NoDigest /\ r.hashError = FALSE /\ r.opens = 0
  BY DEF NoSource
<1> HIDE DEF r
<1> QED BY <1>2, <1>3 DEF NewSource, r

(* Coming under custody keeps what is true of a source.                     *)
LEMMA EnteredOK ==
  ASSUME NEW r, NEW policy, NEW x \in BOOLEAN, NEW y \in BOOLEAN, SourceOK(r, policy, x),
         NEW in \in BOOLEAN, NEW stat \in Disk, NEW algo \in Policies, algo = policy \/ y, x => y
  PROVE  LET e == Entered(r, in, stat, algo) IN
         SourceOK(e, policy, y) /\ (in => e.known) /\ (Explained(r) => e = r)
<1>1. CASE in /\ ~r.known
  <2>1. Entered(r, in, stat, algo) = NewSource(stat, algo)
    BY <1>1 DEF Entered
  <2>2. ~Explained(r)
    BY <1>1 DEF SourceOK
  <2> DEFINE e == NewSource(stat, algo)
  <2>3. e \in SourceSet /\ e.known /\ e.algo = algo /\ e.digest = NoDigest /\ e.hashError = FALSE /\ e.opens = 0
    BY NewSourceIs, Zenon
  <2> HIDE DEF e
  <2>4. SourceOK(e, policy, y)
    BY <2>3 DEF SourceOK, Explained
  <2> QED BY <2>1, <2>2, <2>3, <2>4 DEF e
<1>2. CASE ~(in /\ ~r.known)
  <2>1. Entered(r, in, stat, algo) = r
    BY <1>2 DEF Entered
  <2> QED BY <1>2, <2>1 DEF SourceOK
<1> QED BY <1>1, <1>2

(* So does what case_evidence writes of its digest.                         *)
LEMMA RegisteredOK ==
  ASSUME NEW r, NEW policy, SourceOK(r, policy, TRUE), r.known,
         NEW algo \in Policies, NEW digest \in Measured
  PROVE  LET e == Registered(r, algo, digest) IN
         SourceOK(e, policy, TRUE) /\ (Explained(r) => Explained(e))
<1>1. r \in SourceSet
  BY DEF SourceOK
<1>2. CASE digest \notin {NoDigest, Failed} /\ r.digest = NoDigest
  <2> DEFINE e == [r EXCEPT !.digest = digest, !.algo = algo, !.hashError = FALSE]
  <2>1. digest \in RealDigests
    BY <1>2 DEF Measured
  <2>2. e \in SourceSet /\ e.digest = digest /\ e.known
    BY <1>1, <2>1, Zenon DEF SourceSet
  <2>3. Registered(r, algo, digest) = e
    BY <1>2 DEF Registered
  <2> HIDE DEF e
  <2> QED BY <1>2, <2>2, <2>3 DEF SourceOK, Explained
<1>3. CASE ~(digest \notin {NoDigest, Failed} /\ r.digest = NoDigest)
  <2> DEFINE err == r.hashError \/ (digest = Failed /\ r.digest = NoDigest)
             e == [r EXCEPT !.hashError = err]
  <2>1. err \in BOOLEAN
    BY <1>1 DEF SourceSet
  <2>2. Registered(r, algo, digest) = e /\ (r.hashError => err)
    BY <1>3, Zenon DEF Registered
  <2> HIDE DEF err
  <2>3. e \in SourceSet /\ e.digest = r.digest /\ e.known = r.known /\ e.hashError = err /\ e.opens = r.opens
    BY <1>1, <2>1, Zenon DEF SourceSet
  <2> HIDE DEF e
  <2> QED BY <2>2, <2>3 DEF SourceOK, Explained
<1> QED BY <1>2, <1>3, Zenon

(* And what an opener writes.                                               *)
LEMMA OpenedOK ==
  ASSUME NEW r, NEW policy, NEW x \in BOOLEAN, SourceOK(r, policy, x), r.known, NEW digest \in Measured,
         digest \in {NoDigest, Failed} \/ digest.algo = policy,
         policy # None => digest # NoDigest \/ Explained(r)
  PROVE  SourceOK(Opened(r, digest), policy, x) /\ (Explained(r) => Explained(Opened(r, digest)))
<1> DEFINE d   == IF digest \in {NoDigest, Failed} \/ r.digest # NoDigest THEN r.digest ELSE digest
           err == IF r.digest # NoDigest \/ digest = NoDigest THEN r.hashError ELSE digest = Failed
           e   == [r EXCEPT !.opens = r.opens + 1, !.digest = d, !.hashError = err]
<1>1. r \in SourceSet
  BY DEF SourceOK
<1>2. d \in RealDigests \cup {NoDigest}
  BY <1>1 DEF SourceSet, Measured
<1>3. err \in BOOLEAN
  BY <1>1, Zenon DEF SourceSet
<1>4. Opened(r, digest) = e
  BY Zenon DEF Opened
<1>5. /\ r.digest # NoDigest => d = r.digest /\ err = r.hashError
      /\ digest = NoDigest => d = r.digest /\ err = r.hashError
      /\ r.digest = NoDigest /\ digest = Failed => d = NoDigest /\ err
      /\ r.digest = NoDigest /\ digest \notin {NoDigest, Failed} => d = digest /\ d # NoDigest
  BY <1>3, DigestsDiffer
<1> HIDE DEF d, err
<1>6. e \in SourceSet /\ e.known /\ e.algo = r.algo /\ e.digest = d /\ e.hashError = err
  <2>1. e \in SourceSet
    <3>1. r.opens + 1 \in Nat
      BY <1>1 DEF SourceSet
    <3>2. \A n \in Nat : [r EXCEPT !.opens = n, !.digest = d, !.hashError = err] \in SourceSet
      BY <1>1, <1>2, <1>3, Zenon DEF SourceSet
    <3> QED BY <3>1, <3>2, Zenon
  <2>2. e.known = r.known /\ e.algo = r.algo /\ e.digest = d /\ e.hashError = err
    BY <1>1, Zenon DEF SourceSet
  <2> QED BY <2>1, <2>2
<1> HIDE DEF e
<1>7. Explained(r) => Explained(e)
  BY <1>3, <1>5, <1>6 DEF Explained
<1>8. policy # None => Explained(e)
  BY <1>3, <1>5, <1>6, <1>7 DEF Explained
<1>9. ~x => e.algo = policy /\ (e.digest # NoDigest => e.digest.algo = policy)
  BY <1>5, <1>6 DEF SourceOK
<1> QED BY <1>4, <1>6, <1>7, <1>8, <1>9 DEF SourceOK

(* And a use of one of its handles.                                         *)
LEMMA TouchedOK ==
  ASSUME NEW r, NEW policy, NEW x, SourceOK(r, policy, x)
  PROVE  LET e == [r EXCEPT !.touches = r.touches + 1] IN
         SourceOK(e, policy, x) /\ (Explained(r) => Explained(e))
<1> DEFINE e == [r EXCEPT !.touches = r.touches + 1]
<1>1. r \in SourceSet
  BY DEF SourceOK
<1>2. e \in SourceSet /\ e.known = r.known /\ e.algo = r.algo /\ e.digest = r.digest
      /\ e.hashError = r.hashError /\ e.opens = r.opens
  BY <1>1 DEF SourceSet
<1> HIDE DEF e
<1>3. SourceOK(e, policy, x) /\ (Explained(r) => Explained(e))
  BY <1>2 DEF SourceOK, Explained
<1> QED BY <1>3 DEF e

-----------------------------------------------------------------------------
(* The cases and the calls *)

(* The cases k2 say of the sources and policies at least what k said.       *)
Grows(k, n, k2, n2) ==
  /\ n <= n2
  /\ \A s \in 1..n : /\ k2[s].policy = k[s].policy
                     /\ \A f \in Files : Explained(k[s].evidence[f]) => Explained(k2[s].evidence[f])

(* What is true of a call stays true while the cases grow.                  *)
LEMMA CallStays ==
  ASSUME NEW c, NEW k, NEW n \in Nat, NEW k2, NEW n2 \in Nat, Grows(k, n, k2, n2), CallOK(c, k, n)
  PROVE  CallOK(c, k2, n2)
<1>1. 1..n \subseteq 1..n2
  BY DEF Grows
<1>2. ASSUME c.s \in 1..n
      PROVE  /\ k2[c.s].policy = k[c.s].policy
             /\ \A f \in Files : Explained(k[c.s].evidence[f]) => Explained(k2[c.s].evidence[f])
  BY <1>2 DEF Grows
<1>3. /\ c.op \in {"evidence", "evidenceHash", "evidenceRegister"} => Head(c.paths) \in Files /\ c.s \in 1..n2
      /\ c.op = "verify" => c.s \in 1..n2
      /\ c.op \in {"openPending", "openHash", "openRegister"} => c.s \in 1..n2 /\ c.algo = k2[c.s].policy
  BY <1>1, <1>2, Zenon DEF CallOK
<1>4. c.op = "openHash" => \A f \in Files : f \in PathsOf(c) => f \in c.pending \/ Explained(k2[c.s].evidence[f])
  BY <1>2 DEF CallOK
<1>5. c.op = "openRegister" =>
       \A f \in Files : /\ c.digests[f] \in {NoDigest, Failed} \/ c.digests[f].algo = c.algo
                        /\ f \in PathsOf(c) /\ c.algo # None =>
                             c.digests[f] # NoDigest \/ Explained(k2[c.s].evidence[f])
  BY <1>2 DEF CallOK
<1> QED BY <1>3, <1>4, <1>5, Zenon DEF CallOK

(* One call goes on, the others wait.                                       *)
LEMMA CallsGo ==
  ASSUME CaseInv, CallsInv, sessions' \in Nat, Grows(case, sessions, case', sessions'),
         NEW t \in Threads, NEW d, call' = [call EXCEPT ![t] = d], CallOK(d, case', sessions')
  PROVE  CallsInv'
<1>1. \A u \in Threads : u # t => CallOK(call[u], case', sessions')
  BY CallStays DEF CallsInv, CaseInv
<1>2. call' = [u \in Threads |-> call'[u]] /\ \A u \in Threads : call'[u] = IF u = t THEN d ELSE call[u]
  BY DEF CallsInv
<1> QED BY <1>1, <1>2 DEF CallsInv

(* No call goes on.                                                         *)
LEMMA CallsWait ==
  ASSUME CaseInv, CallsInv, sessions' \in Nat, Grows(case, sessions, case', sessions'), UNCHANGED call
  PROVE  CallsInv'
<1>1. \A u \in Threads : CallOK(call[u], case', sessions')
  BY CallStays DEF CallsInv, CaseInv
<1> QED BY <1>1 DEF CallsInv

(* No case is written to.                                                   *)
LEMMA CasesWait ==
  ASSUME CaseInv, SourcesInv, UNCHANGED <<case, sessions, explicit>>
  PROVE  SourcesInv' /\ Grows(case, sessions, case', sessions') /\ sessions' \in Nat
<1>1. SourcesInv'
  BY Zenon DEF SourcesInv
<1> QED BY <1>1 DEF CaseInv, Grows

(* One case is written to.                                                  *)
LEMMA CaseWritten ==
  ASSUME CaseInv, SourcesInv, NEW s \in 1..sessions, NEW d, case' = [case EXCEPT ![s] = d],
         sessions' = sessions, explicit \subseteq explicit', CaseOK(d), d.policy = case[s].policy,
         \A f \in Files : /\ SourceOK(d.evidence[f], d.policy, <<s, f>> \in explicit')
                          /\ Explained(case[s].evidence[f]) => Explained(d.evidence[f])
  PROVE  SourcesInv' /\ Grows(case, sessions, case', sessions') /\ sessions' \in Nat
<1>1. sessions \in Nat /\ s \in Ids /\ case' = [u \in Ids |-> IF u = s THEN d ELSE case[u]]
  <2>1. sessions \in Nat /\ s \in Ids
    BY CustodyAssumption DEF CaseInv, Ids
  <2>2. case = [u \in Ids |-> case[u]]
    BY DEF CaseInv
  <2> QED BY <2>1, <2>2
<1>2. 1..sessions \subseteq Ids
  BY CustodyAssumption DEF CaseInv, Ids
<1>3. \A u \in Ids : u # s => case'[u] = case[u]
  BY <1>1
<1>4. case'[s] = d
  BY <1>1
<1>5. ASSUME NEW u \in Ids
      PROVE  /\ CaseOK(case'[u])
             /\ \A f \in Files : SourceOK(case'[u].evidence[f], case'[u].policy, <<u, f>> \in explicit')
  <2>1. CASE u = s
    BY <1>4, <2>1
  <2>2. CASE u # s
    <3>1. case'[u] = case[u] /\ CaseOK(case[u])
      BY <1>3, <2>2 DEF SourcesInv
    <3>2. ASSUME NEW f \in Files PROVE SourceOK(case[u].evidence[f], case[u].policy, <<u, f>> \in explicit')
      <4>1. SourceOK(case[u].evidence[f], case[u].policy, <<u, f>> \in explicit)
        BY Zenon DEF SourcesInv
      <4>2. <<u, f>> \in explicit => <<u, f>> \in explicit'
        OBVIOUS
      <4> QED BY <4>1, <4>2, Zenon DEF SourceOK
    <3> QED BY <3>1, <3>2
  <2> QED BY <2>1, <2>2
<1>6. SourcesInv'
  BY <1>5, Zenon DEF SourcesInv
<1>7. Grows(case, sessions, case', sessions')
  <2> SUFFICES ASSUME NEW u \in 1..sessions
               PROVE  /\ case'[u].policy = case[u].policy
                      /\ \A f \in Files : Explained(case[u].evidence[f]) => Explained(case'[u].evidence[f])
    BY <1>1 DEF Grows
  <2>1. CASE u = s
    BY <1>4, <2>1, Zenon
  <2>2. CASE u # s
    BY <1>2, <1>3, <2>2
  <2> QED BY <2>1, <2>2
<1> QED BY <1>1, <1>6, <1>7

(* A call with its nine fields.                                             *)
Call(op, s, paths, h, algo, stats, digests, pending, checks) ==
  [op |-> op, s |-> s, paths |-> paths, h |-> h, algo |-> algo, stats |-> stats,
   digests |-> digests, pending |-> pending, checks |-> checks]

(* Such a call is well formed.                                              *)
LEMMA CallIs ==
  ASSUME NEW c, NEW op, NEW s, NEW paths, NEW h, NEW algo \in Policies, NEW stats \in [Files -> Disk],
         NEW digests \in [Files -> Measured], NEW pending, NEW checks,
         c = Call(op, s, paths, h, algo, stats, digests, pending, checks)
  PROVE  /\ c.op = op /\ c.s = s /\ c.paths = paths /\ c.h = h /\ c.algo = algo /\ c.stats = stats
         /\ c.digests = digests /\ c.pending = pending /\ c.checks = checks
         /\ CallForm(c)
<1>1. c = [op |-> op, s |-> s, paths |-> paths, h |-> h, algo |-> algo, stats |-> stats,
           digests |-> digests, pending |-> pending, checks |-> checks]
  BY Zenon DEF Call
<1>2. /\ c.op = op /\ c.s = s /\ c.paths = paths /\ c.h = h /\ c.algo = algo /\ c.stats = stats
      /\ c.digests = digests /\ c.pending = pending /\ c.checks = checks
  BY <1>1
<1>3. CallForm(c)
  BY <1>1, <1>2 DEF CallForm, Measured
<1> QED BY <1>2, <1>3

(* What the steps make of the fields of a call.                             *)
(* The operation alone.                                                     *)
LEMMA CallOp ==
  ASSUME NEW c, CallForm(c), NEW op
  PROVE  [c EXCEPT !.op = op]
         = Call(op, c.s, c.paths, c.h, c.algo, c.stats, c.digests, c.pending, c.checks)
<1> DEFINE d == [c EXCEPT !.op = op]
<1>1. c \in [op : {c.op}, s : {c.s}, paths : {c.paths}, h : {c.h}, algo : {c.algo}, stats : {c.stats},
               digests : {c.digests}, pending : {c.pending}, checks : {c.checks}]
  BY DEF CallForm
<1>2. d \in [op : {op}, s : {c.s}, paths : {c.paths}, h : {c.h}, algo : {c.algo}, stats : {c.stats},
               digests : {c.digests}, pending : {c.pending}, checks : {c.checks}]
  BY <1>1
<1> HIDE DEF d
<1>3. d = Call(op, c.s, c.paths, c.h, c.algo, c.stats, c.digests, c.pending, c.checks)
  BY <1>2 DEF Call
<1> QED BY <1>3, Zenon DEF d

(* What stat said.                                                          *)
LEMMA CallStats ==
  ASSUME NEW c, CallForm(c), NEW op, NEW x
  PROVE  [c EXCEPT !.op = op, !.stats = x]
         = Call(op, c.s, c.paths, c.h, c.algo, x, c.digests, c.pending, c.checks)
<1> DEFINE d == [c EXCEPT !.op = op, !.stats = x]
<1>1. c \in [op : {c.op}, s : {c.s}, paths : {c.paths}, h : {c.h}, algo : {c.algo}, stats : {c.stats},
               digests : {c.digests}, pending : {c.pending}, checks : {c.checks}]
  BY DEF CallForm
<1>2. d \in [op : {op}, s : {c.s}, paths : {c.paths}, h : {c.h}, algo : {c.algo}, stats : {x},
               digests : {c.digests}, pending : {c.pending}, checks : {c.checks}]
  BY <1>1, Zenon
<1> HIDE DEF d
<1>3. d = Call(op, c.s, c.paths, c.h, c.algo, x, c.digests, c.pending, c.checks)
  BY <1>2 DEF Call
<1> QED BY <1>3, Zenon DEF d

(* What was hashed.                                                         *)
LEMMA CallDigests ==
  ASSUME NEW c, CallForm(c), NEW op, NEW x
  PROVE  [c EXCEPT !.op = op, !.digests = x]
         = Call(op, c.s, c.paths, c.h, c.algo, c.stats, x, c.pending, c.checks)
<1> DEFINE d == [c EXCEPT !.op = op, !.digests = x]
<1>1. c \in [op : {c.op}, s : {c.s}, paths : {c.paths}, h : {c.h}, algo : {c.algo}, stats : {c.stats},
               digests : {c.digests}, pending : {c.pending}, checks : {c.checks}]
  BY DEF CallForm
<1>2. d \in [op : {op}, s : {c.s}, paths : {c.paths}, h : {c.h}, algo : {c.algo}, stats : {c.stats},
               digests : {x}, pending : {c.pending}, checks : {c.checks}]
  BY <1>1, Zenon
<1> HIDE DEF d
<1>3. d = Call(op, c.s, c.paths, c.h, c.algo, c.stats, x, c.pending, c.checks)
  BY <1>2 DEF Call
<1> QED BY <1>3, Zenon DEF d

(* What is to be hashed.                                                    *)
LEMMA CallPending ==
  ASSUME NEW c, CallForm(c), NEW op, NEW x
  PROVE  [c EXCEPT !.op = op, !.pending = x]
         = Call(op, c.s, c.paths, c.h, c.algo, c.stats, c.digests, x, c.checks)
<1> DEFINE d == [c EXCEPT !.op = op, !.pending = x]
<1>1. c \in [op : {c.op}, s : {c.s}, paths : {c.paths}, h : {c.h}, algo : {c.algo}, stats : {c.stats},
               digests : {c.digests}, pending : {c.pending}, checks : {c.checks}]
  BY DEF CallForm
<1>2. d \in [op : {op}, s : {c.s}, paths : {c.paths}, h : {c.h}, algo : {c.algo}, stats : {c.stats},
               digests : {c.digests}, pending : {x}, checks : {c.checks}]
  BY <1>1, Zenon
<1> HIDE DEF d
<1>3. d = Call(op, c.s, c.paths, c.h, c.algo, c.stats, c.digests, x, c.checks)
  BY <1>2 DEF Call
<1> QED BY <1>3, Zenon DEF d

(* What a verification found.                                               *)
LEMMA CallChecks ==
  ASSUME NEW c, CallForm(c), NEW op, NEW x
  PROVE  [c EXCEPT !.op = op, !.checks = x]
         = Call(op, c.s, c.paths, c.h, c.algo, c.stats, c.digests, c.pending, x)
<1> DEFINE d == [c EXCEPT !.op = op, !.checks = x]
<1>1. c \in [op : {c.op}, s : {c.s}, paths : {c.paths}, h : {c.h}, algo : {c.algo}, stats : {c.stats},
               digests : {c.digests}, pending : {c.pending}, checks : {c.checks}]
  BY DEF CallForm
<1>2. d \in [op : {op}, s : {c.s}, paths : {c.paths}, h : {c.h}, algo : {c.algo}, stats : {c.stats},
               digests : {c.digests}, pending : {c.pending}, checks : {x}]
  BY <1>1, Zenon
<1> HIDE DEF d
<1>3. d = Call(op, c.s, c.paths, c.h, c.algo, c.stats, c.digests, c.pending, x)
  BY <1>2 DEF Call
<1> QED BY <1>3, Zenon DEF d

(* The case and its policy.                                                 *)
LEMMA CallCase ==
  ASSUME NEW c, CallForm(c), NEW op, NEW x, NEW a
  PROVE  [c EXCEPT !.s = x, !.algo = a, !.op = op]
         = Call(op, x, c.paths, c.h, a, c.stats, c.digests, c.pending, c.checks)
<1> DEFINE d == [c EXCEPT !.s = x, !.algo = a, !.op = op]
<1>1. c \in [op : {c.op}, s : {c.s}, paths : {c.paths}, h : {c.h}, algo : {c.algo}, stats : {c.stats},
               digests : {c.digests}, pending : {c.pending}, checks : {c.checks}]
  BY DEF CallForm
<1>2. d \in [op : {op}, s : {x}, paths : {c.paths}, h : {c.h}, algo : {a}, stats : {c.stats},
               digests : {c.digests}, pending : {c.pending}, checks : {c.checks}]
  BY <1>1, Zenon
<1> HIDE DEF d
<1>3. d = Call(op, x, c.paths, c.h, a, c.stats, c.digests, c.pending, c.checks)
  BY <1>2 DEF Call
<1> QED BY <1>3, Zenon DEF d

NoStats   == [f \in Files |-> Gone]
NoDigests == [f \in Files |-> NoDigest]
NoPaths   == <<>>

(* Idle is such a call.                                                     *)
LEMMA IdleItself ==
  /\ Idle = Call("idle", 0, NoPaths, 0, None, NoStats, NoDigests, {}, NoReport)
  /\ Idle \in [op : {"idle"}, s : {0}, paths : {NoPaths}, h : {0}, algo : {None}, stats : {NoStats},
               digests : {NoDigests}, pending : {{}}, checks : {NoReport}]
<1>1. Idle = [op |-> "idle", s |-> 0, paths |-> NoPaths, h |-> 0, algo |-> None, stats |-> NoStats,
              digests |-> NoDigests, pending |-> {}, checks |-> NoReport]
  BY Zenon DEF Idle, NoStats, NoDigests, NoPaths
<1> QED BY <1>1 DEF Call

(* What case_evidence begins with.                                          *)
LEMMA IdleEvidence ==
  ASSUME NEW op, NEW s, NEW paths, NEW algo
  PROVE  [Idle EXCEPT !.op = op, !.s = s, !.paths = paths, !.algo = algo]
         = Call(op, s, paths, 0, algo, NoStats, NoDigests, {}, NoReport)
<1> DEFINE d == [Idle EXCEPT !.op = op, !.s = s, !.paths = paths, !.algo = algo]
<1>1. Idle \in [op : {"idle"}, s : {0}, paths : {NoPaths}, h : {0}, algo : {None}, stats : {NoStats},
               digests : {NoDigests}, pending : {{}}, checks : {NoReport}]
  BY IdleItself
<1>2. d \in [op : {op}, s : {s}, paths : {paths}, h : {0}, algo : {algo}, stats : {NoStats},
               digests : {NoDigests}, pending : {{}}, checks : {NoReport}]
  BY <1>1, Zenon
<1> HIDE DEF d
<1>3. d = Call(op, s, paths, 0, algo, NoStats, NoDigests, {}, NoReport)
  BY <1>2, Zenon DEF Call
<1> QED BY <1>3, Zenon DEF d

(* What an evidence opener begins with.                                     *)
LEMMA IdleOpener ==
  ASSUME NEW op, NEW paths, NEW h
  PROVE  [Idle EXCEPT !.op = op, !.paths = paths, !.h = h]
         = Call(op, 0, paths, h, None, NoStats, NoDigests, {}, NoReport)
<1> DEFINE d == [Idle EXCEPT !.op = op, !.paths = paths, !.h = h]
<1>1. Idle \in [op : {"idle"}, s : {0}, paths : {NoPaths}, h : {0}, algo : {None}, stats : {NoStats},
               digests : {NoDigests}, pending : {{}}, checks : {NoReport}]
  BY IdleItself
<1>2. d \in [op : {op}, s : {0}, paths : {paths}, h : {h}, algo : {None}, stats : {NoStats},
               digests : {NoDigests}, pending : {{}}, checks : {NoReport}]
  BY <1>1, Zenon
<1> HIDE DEF d
<1>3. d = Call(op, 0, paths, h, None, NoStats, NoDigests, {}, NoReport)
  BY <1>2 DEF Call
<1> QED BY <1>3, Zenon DEF d

(* What the use of a handle begins with.                                    *)
LEMMA IdleTouch ==
  ASSUME NEW op, NEW h
  PROVE  [Idle EXCEPT !.op = op, !.h = h]
         = Call(op, 0, NoPaths, h, None, NoStats, NoDigests, {}, NoReport)
<1> DEFINE d == [Idle EXCEPT !.op = op, !.h = h]
<1>1. Idle \in [op : {"idle"}, s : {0}, paths : {NoPaths}, h : {0}, algo : {None}, stats : {NoStats},
               digests : {NoDigests}, pending : {{}}, checks : {NoReport}]
  BY IdleItself
<1>2. d \in [op : {op}, s : {0}, paths : {NoPaths}, h : {h}, algo : {None}, stats : {NoStats},
               digests : {NoDigests}, pending : {{}}, checks : {NoReport}]
  BY <1>1, Zenon
<1> HIDE DEF d
<1>3. d = Call(op, 0, NoPaths, h, None, NoStats, NoDigests, {}, NoReport)
  BY <1>2 DEF Call
<1> QED BY <1>3, Zenon DEF d

(* What case_verify begins with.                                            *)
LEMMA IdleVerify ==
  ASSUME NEW op, NEW s
  PROVE  [Idle EXCEPT !.op = op, !.s = s]
         = Call(op, s, NoPaths, 0, None, NoStats, NoDigests, {}, NoReport)
<1> DEFINE d == [Idle EXCEPT !.op = op, !.s = s]
<1>1. Idle \in [op : {"idle"}, s : {0}, paths : {NoPaths}, h : {0}, algo : {None}, stats : {NoStats},
               digests : {NoDigests}, pending : {{}}, checks : {NoReport}]
  BY IdleItself
<1>2. d \in [op : {op}, s : {s}, paths : {NoPaths}, h : {0}, algo : {None}, stats : {NoStats},
               digests : {NoDigests}, pending : {{}}, checks : {NoReport}]
  BY <1>1, Zenon
<1> HIDE DEF d
<1>3. d = Call(op, s, NoPaths, 0, None, NoStats, NoDigests, {}, NoReport)
  BY <1>2 DEF Call
<1> QED BY <1>3, Zenon DEF d

Kept == SourcesInv /\ CallsInv /\ disk \in [Files -> Disk] /\ VerdictHonest

(* A call that comes of Idle is well formed.                                *)
LEMMA IdleIs ==
  ASSUME NEW c, NEW op, NEW s, NEW paths, NEW h, NEW algo \in Policies,
         c = Call(op, s, paths, h, algo, NoStats, NoDigests, {}, NoReport)
  PROVE  c.op = op /\ c.s = s /\ c.paths = paths /\ c.algo = algo /\ c.digests = NoDigests /\ CallForm(c)
<1>1. NoStats \in [Files -> Disk] /\ NoDigests \in [Files -> Measured]
  BY DEF NoStats, NoDigests, Disk, Measured
<1> QED BY <1>1, CallIs

(* A call with nothing left to check or record.                             *)
LEMMA PlainCall ==
  ASSUME NEW c, CallForm(c), NEW k, NEW n,
         c.op \in {"idle", "activate", "deactivate", "artifact", "touch"}
  PROVE  CallOK(c, k, n)
BY Zenon DEF CallOK

(* So is a thread without a call.                                           *)
LEMMA ReturnOK == \A k, n : CallOK(Idle, k, n)
<1>1. Idle.op = "idle" /\ CallForm(Idle)
  <2>1. Idle = Call("idle", 0, NoPaths, 0, None, NoStats, NoDigests, {}, NoReport)
    BY IdleItself
  <2>2. None \in Policies
    BY DEF Policies
  <2> QED BY <2>1, <2>2, IdleIs
<1> QED BY <1>1, PlainCall

(* A step that only moves a call on.                                        *)
LEMMA Moves ==
  ASSUME CustodyInv, NEW t \in Threads, NEW d, call' = [call EXCEPT ![t] = d], CallOK(d, case, sessions),
         UNCHANGED <<case, sessions, explicit, disk, report>>
  PROVE  Kept'
<1>1. SourcesInv' /\ Grows(case, sessions, case', sessions') /\ sessions' \in Nat
  BY CasesWait DEF CustodyInv
<1>2. CallsInv'
  BY <1>1, CallsGo, Zenon DEF CustodyInv
<1>3. (disk \in [Files -> Disk])' /\ VerdictHonest'
  BY Zenon DEF CustodyInv, VerdictHonest
<1> QED BY <1>1, <1>2, <1>3 DEF Kept

(* A step that writes into the case s and moves a call on, or none.         *)
LEMMA WritesOn ==
  ASSUME CustodyInv, NEW s \in 1..sessions, NEW k, case' = [case EXCEPT ![s] = k],
         sessions' = sessions, explicit \subseteq explicit', CaseOK(k), k.policy = case[s].policy,
         \A f \in Files : /\ SourceOK(k.evidence[f], k.policy, <<s, f>> \in explicit')
                          /\ Explained(case[s].evidence[f]) => Explained(k.evidence[f]),
         NEW t \in Threads, NEW d, call' = [call EXCEPT ![t] = d] \/ UNCHANGED call,
         \A k2, n : CallOK(d, k2, n), UNCHANGED disk, VerdictHonest'
  PROVE  Kept'
<1>1. SourcesInv' /\ Grows(case, sessions, case', sessions') /\ sessions' \in Nat
  <2>1. CaseInv /\ SourcesInv
    BY DEF CustodyInv
  <2> QED BY <2>1, CaseWritten, Zenon
<1>2. CallsInv'
  <2>1. CaseInv /\ CallsInv /\ CallOK(d, case', sessions')
    BY DEF CustodyInv
  <2> QED BY <1>1, <2>1, CallsGo, CallsWait, Zenon
<1>3. (disk \in [Files -> Disk])'
  BY DEF CustodyInv
<1> QED BY <1>1, <1>2, <1>3 DEF Kept

(* The open case is one of those opened.                                    *)
LEMMA OpenIs ==
  ASSUME CustodyInv, current # 0
  PROVE  current \in 1..sessions /\ current \in Ids /\ CaseOK(case[current])
         /\ \A f \in Files : SourceOK(case[current].evidence[f], case[current].policy, <<current, f>> \in explicit)
<1>1. sessions \in Nat /\ sessions <= MaxOps /\ current = sessions
  BY CustodyAssumption DEF CustodyInv, CaseInv
<1>2. current \in 1..sessions /\ current \in Ids
  BY <1>1, CustodyAssumption DEF Ids
<1> QED BY <1>2 DEF CustodyInv, SourcesInv

(* A step that puts a line on the timeline of the open case, with which no  *)
(* source changes.                                                          *)
LEMMA Logs ==
  ASSUME CustodyInv, current # 0, NEW k, case' = [case EXCEPT ![current] = k], CaseOK(k),
         k.policy = case[current].policy, k.evidence = case[current].evidence,
         UNCHANGED <<sessions, explicit, disk>>,
         NEW t \in Threads, NEW d, call' = [call EXCEPT ![t] = d] \/ UNCHANGED call,
         \A k2, n : CallOK(d, k2, n), VerdictHonest'
  PROVE  Kept'
<1>1. current \in 1..sessions
      /\ \A f \in Files : SourceOK(case[current].evidence[f], case[current].policy, <<current, f>> \in explicit)
  BY OpenIs
<1>2. \A f \in Files : /\ SourceOK(k.evidence[f], k.policy, <<current, f>> \in explicit')
                       /\ Explained(case[current].evidence[f]) => Explained(k.evidence[f])
  BY <1>1
<1> QED BY <1>1, <1>2, WritesOn, Zenon

-----------------------------------------------------------------------------
(* One lemma for each group of steps *)

(* The calls are records.                                                   *)
LEMMA CallIsRecord ==
  ASSUME CustodyInv, NEW t \in Threads
  PROVE  /\ call = [u \in Threads |-> call[u]] /\ CallOK(call[t], case, sessions)
         /\ CallForm(call[t]) /\ sessions \in Nat /\ disk \in [Files -> Disk]
BY Zenon DEF CustodyInv, CallsInv, CallOK, CaseInv

(* Goto, to a section that checks nothing.                                  *)
LEMMA GotoOK ==
  ASSUME CustodyInv, NEW t \in Threads, NEW op \in {"activate", "deactivate", "artifact"}, Goto(t, op)
  PROVE  \E d : call' = [call EXCEPT ![t] = d] /\ \A k, n : CallOK(d, k, n)
<1> DEFINE c == call[t]
           d == [c EXCEPT !.op = op]
<1>1. call = [u \in Threads |-> call[u]] /\ CallForm(c)
  BY CallIsRecord
<1>2. call' = [call EXCEPT ![t] = d]
  BY <1>1 DEF Goto
<1> HIDE DEF c
<1>3. d = Call(op, c.s, c.paths, c.h, c.algo, c.stats, c.digests, c.pending, c.checks)
  BY <1>1, CallOp, Zenon
<1>4. c.algo \in Policies /\ c.stats \in [Files -> Disk] /\ c.digests \in [Files -> Measured]
  BY <1>1 DEF CallForm, Measured
<1> HIDE DEF d
<1>5. d.op = op /\ CallForm(d)
  BY <1>3, <1>4, CallIs, SMTT(30)
<1>6. \A k, n : CallOK(d, k, n)
  BY <1>5, PlainCall
<1> QED BY <1>2, <1>6, Zenon

(* case_open: the next case has no source yet.                              *)
LEMMA CaseOpenKept ==
  ASSUME CustodyInv, NEW t \in Threads, NEW policy \in Policies, CaseOpen(t, policy)
  PROVE  Kept'
<1> DEFINE n == sessions + 1
           b == [NoCase EXCEPT !.policy = policy]
           k == appendEvent(b, "case_open", None)
<1>1. /\ sessions' = n /\ case' = [case EXCEPT ![n] = k] /\ Goto(t, "activate") /\ ops < MaxOps
      /\ UNCHANGED <<disk, explicit, report>>
  BY DEF CaseOpen, Begin
<1>2. n \in Ids /\ sessions \in Nat /\ n \in Nat /\ case = [s \in Ids |-> case[s]] /\ n \notin 1..sessions
      /\ 1..sessions \subseteq Ids
  BY <1>1, CustodyAssumption DEF CustodyInv, CaseInv, Ids
<1>3. NoSource \in SourceSet /\ SourceOK(NoSource, policy, FALSE) /\ SourceOK(NoSource, policy, TRUE)
  BY DEF NoSource, SourceSet, SourceOK, Explained, Disk, Policies
<1>4. CaseOK(b) /\ b.policy = policy /\ b.evidence = [f \in Files |-> NoSource]
  <2> DEFINE ev == [f \in Files |-> NoSource]
             hs == [h \in Ids |-> <<>>]
             no == <<>>
  <2>0. NoCase = [policy |-> None, closed |-> FALSE, evidence |-> ev, order |-> no, handles |-> hs, timeline |-> no]
    BY Zenon DEF NoCase
  <2> HIDE DEF ev, hs, no
  <2>1. b = [policy |-> policy, closed |-> FALSE, evidence |-> ev, order |-> no, handles |-> hs, timeline |-> no]
    <3>1. NoCase \in [policy : {None}, closed : {FALSE}, evidence : {ev}, order : {no}, handles : {hs}, timeline : {no}]
      BY <2>0
    <3>2. b \in [policy : {policy}, closed : {FALSE}, evidence : {ev}, order : {no}, handles : {hs}, timeline : {no}]
      BY <3>1, Zenon
    <3> HIDE DEF b
    <3> QED BY <3>2, Zenon
  <2> HIDE DEF b
  <2>2. b.policy = policy /\ b.closed = FALSE /\ b.evidence = ev /\ b.order = no /\ b.handles = hs /\ b.timeline = no
    BY <2>1
  <2>3. b = [policy |-> b.policy, closed |-> b.closed, evidence |-> b.evidence,
             order |-> b.order, handles |-> b.handles, timeline |-> b.timeline]
    BY <2>1, <2>2
  <2> QED BY <1>3, <2>2, <2>3 DEF CaseOK, ev
<1> HIDE DEF b
<1>5. CaseOK(k) /\ k.policy = policy /\ k.evidence = [f \in Files |-> NoSource]
  BY <1>4, AppendsEvent, ZenonT(60)
<1> HIDE DEF k
<1>6. case'[n] = k /\ \A s \in Ids : s # n => case'[s] = case[s]
  BY <1>1, <1>2
<1>7. SourcesInv'
  <2>1. ASSUME NEW s \in Ids
        PROVE  /\ CaseOK(case'[s])
               /\ \A f \in Files : SourceOK(case'[s].evidence[f], case'[s].policy, <<s, f>> \in explicit')
    <3>1. CASE s = n
      BY <1>3, <1>5, <1>6, <3>1, Zenon DEF SourceOK
    <3>2. CASE s # n
      BY <1>1, <1>6, <3>2 DEF CustodyInv, SourcesInv
    <3> QED BY <3>1, <3>2
  <2> QED BY <2>1, Zenon DEF SourcesInv
<1>8. Grows(case, sessions, case', sessions') /\ sessions' \in Nat
  <2>1. \A s \in 1..sessions : case'[s] = case[s]
    BY <1>2, <1>6
  <2> HIDE DEF n
  <2>2. sessions <= sessions' /\ sessions' \in Nat
    BY <1>1, <1>2 DEF n
  <2> QED BY <2>1, <2>2 DEF Grows
<1>9. CallsInv'
  <2>1. CaseInv /\ CallsInv
    BY DEF CustodyInv
  <2>2. PICK d : call' = [call EXCEPT ![t] = d] /\ \A k2, n2 : CallOK(d, k2, n2)
    BY <1>1, GotoOK
  <2> QED BY <1>8, <2>1, <2>2, CallsGo, Zenon
<1>10. (disk \in [Files -> Disk])' /\ VerdictHonest'
  BY <1>1, Zenon DEF CustodyInv, VerdictHonest
<1> QED BY <1>7, <1>9, <1>10 DEF Kept

(* case_close, note, and an artifact written.                               *)
LEMMA LogKept ==
  ASSUME CustodyInv, NEW t \in Threads, CaseClose(t) \/ CaseNote(t) \/ custodyRecordArtifact(t)
  PROVE  Kept'
<1> DEFINE c == case[current]
           b == [c EXCEPT !.closed = TRUE]
<1>1. VerdictHonest' /\ UNCHANGED <<sessions, explicit, disk>>
  <2>1. UNCHANGED <<report, sessions, explicit, disk>>
    BY Zenon DEF CaseClose, CaseNote, custodyRecordArtifact
  <2> QED BY <2>1, Zenon DEF CustodyInv, VerdictHonest
<1>2. ASSUME IsOpen
      PROVE  /\ current # 0 /\ CaseOK(c) /\ CaseOK(b) /\ b.policy = c.policy /\ b.evidence = c.evidence
  <2>1. current # 0 /\ CaseOK(c)
    BY <1>2, OpenIs DEF IsOpen
  <2> HIDE DEF c
  <2>2. b = [policy |-> c.policy, closed |-> TRUE, evidence |-> c.evidence,
             order |-> c.order, handles |-> c.handles, timeline |-> c.timeline]
    <3>1. c \in [policy : {c.policy}, closed : {c.closed}, evidence : {c.evidence},
                 order : {c.order}, handles : {c.handles}, timeline : {c.timeline}]
      BY <2>1 DEF CaseOK
    <3>2. b \in [policy : {c.policy}, closed : {TRUE}, evidence : {c.evidence},
                 order : {c.order}, handles : {c.handles}, timeline : {c.timeline}]
      BY <3>1, Zenon
    <3> HIDE DEF b
    <3> QED BY <3>2, Zenon
  <2> HIDE DEF b
  <2>3. b.policy = c.policy /\ b.closed = TRUE /\ b.evidence = c.evidence /\ b.order = c.order
        /\ b.handles = c.handles /\ b.timeline = c.timeline
    BY <2>2
  <2>4. CaseOK(b)
    BY <2>1, <2>2, <2>3 DEF CaseOK
  <2> QED BY <2>1, <2>3, <2>4
<1>3. CASE CaseClose(t)
  <2> DEFINE k == appendEvent(b, "case_close", None)
  <2>1. IsOpen /\ case' = [case EXCEPT ![current] = k] /\ Goto(t, "deactivate")
    BY <1>3, Zenon DEF CaseClose
  <2>2. CaseOK(b) /\ b.policy = c.policy /\ b.evidence = c.evidence /\ current # 0
    BY <1>2, <2>1
  <2> HIDE DEF b
  <2>3. CaseOK(k) /\ k.policy = c.policy /\ k.evidence = c.evidence
    BY <2>2, AppendsEvent
  <2>4. PICK d : call' = [call EXCEPT ![t] = d] /\ \A k2, n : CallOK(d, k2, n)
    BY <2>1, GotoOK
  <2> HIDE DEF k
  <2> QED BY <1>1, <2>1, <2>2, <2>3, <2>4, Logs, Zenon
<1>4. CASE CaseNote(t)
  <2> DEFINE k == appendEvent(c, "note", None)
  <2>1. IsOpen /\ case' = [case EXCEPT ![current] = k] /\ UNCHANGED call
    BY <1>4, Zenon DEF CaseNote
  <2>2. current # 0 /\ CaseOK(c)
    BY <1>2, <2>1
  <2> HIDE DEF c
  <2>3. CaseOK(k) /\ k.policy = c.policy /\ k.evidence = c.evidence
    BY <2>2, AppendsEvent
  <2> HIDE DEF k
  <2> QED BY <1>1, <2>1, <2>2, <2>3, ReturnOK, Logs, Zenon DEF c
<1>5. CASE custodyRecordArtifact(t)
  <2> DEFINE k == appendEvent(c, "artifact", None)
  <2>1. /\ call' = [call EXCEPT ![t] = Idle]
        /\ case' = IF IsOpen THEN [case EXCEPT ![current] = k] ELSE case
    BY <1>5, Zenon DEF custodyRecordArtifact, Return
  <2>2. CASE IsOpen
    <3>1. current # 0 /\ CaseOK(c) /\ case' = [case EXCEPT ![current] = k]
      BY <1>2, <2>1, <2>2
    <3> HIDE DEF c
    <3>2. CaseOK(k) /\ k.policy = c.policy /\ k.evidence = c.evidence
      BY <3>1, AppendsEvent
    <3> HIDE DEF k
    <3> QED BY <1>1, <2>1, <3>1, <3>2, ReturnOK, Logs, Zenon DEF c
  <2>3. CASE ~IsOpen
    <3>1. UNCHANGED <<case, sessions, explicit, disk, report>>
      BY <1>5, <2>3, Zenon DEF custodyRecordArtifact
    <3> QED BY <2>1, <3>1, ReturnOK, Moves, Zenon
  <2> QED BY <2>2, <2>3
<1> QED BY <1>3, <1>4, <1>5

(* The flag, and the calls it lets in.                                      *)
LEMMA FlagKept ==
  ASSUME CustodyInv, NEW t \in Threads,
         \/ Activate(t) \/ Deactivate(t) \/ ArtifactWritten(t)
         \/ \E h \in 1..handles : HandleUsed(t, h)
  PROVE  Kept'
<1>1. UNCHANGED <<case, sessions, explicit, disk, report>>
  BY Zenon DEF Activate, Deactivate, ArtifactWritten, HandleUsed, store
<1>2. CASE Activate(t) \/ Deactivate(t)
  <2>1. call' = [call EXCEPT ![t] = Idle]
    BY <1>2, Zenon DEF Activate, Deactivate, Return
  <2> QED BY <1>1, <2>1, ReturnOK, Moves, Zenon
<1>3. CASE ArtifactWritten(t)
  <2>1. PICK d : call' = [call EXCEPT ![t] = d] /\ \A k, n : CallOK(d, k, n)
    BY <1>3, GotoOK DEF ArtifactWritten
  <2> QED BY <1>1, <2>1, Moves, Zenon
<1>4. ASSUME NEW h \in 1..handles, HandleUsed(t, h) PROVE Kept'
  <2> DEFINE d == [Idle EXCEPT !.op = "touch", !.h = h]
  <2>1. call' = [call EXCEPT ![t] = d]
    BY <1>4, Zenon DEF HandleUsed, Start
  <2>2. d = Call("touch", 0, NoPaths, h, None, NoStats, NoDigests, {}, NoReport)
    BY IdleTouch, Zenon
  <2> HIDE DEF d
  <2>3. d.op = "touch" /\ CallForm(d)
    <3>1. None \in Policies
      BY DEF Policies
    <3> QED BY <2>2, <3>1, IdleIs
  <2>4. CallOK(d, case, sessions)
    BY <2>3, PlainCall
  <2> QED BY <1>1, <2>1, <2>4, Moves, Zenon
<1> QED BY <1>2, <1>3, <1>4

(* The measuring half of case_evidence.                                     *)
LEMMA EvidenceKept ==
  ASSUME CustodyInv, NEW t \in Threads,
         \/ \E f \in Files, algo \in Policies : CaseEvidence(t, f, algo)
         \/ EvidenceStat(t) \/ EvidenceHash(t)
  PROVE  Kept'
<1>1. UNCHANGED <<case, sessions, explicit, disk, report>>
  BY Zenon DEF CaseEvidence, EvidenceStat, EvidenceHash, store
<1> DEFINE c == call[t]
           f == Head(c.paths)
<1>2. CallOK(c, case, sessions) /\ CallForm(c) /\ call = [u \in Threads |-> call[u]] /\ disk \in [Files -> Disk]
  BY CallIsRecord
<1>3. c.algo \in Policies /\ c.stats \in [Files -> Disk] /\ c.digests \in [Files -> Measured]
  BY <1>2, Zenon DEF CallForm, Measured
<1>4. ASSUME NEW g \in Files, NEW algo \in Policies, CaseEvidence(t, g, algo) PROVE Kept'
  <2> DEFINE one == <<g>>
             d == [Idle EXCEPT !.op = "evidence", !.s = current, !.paths = one, !.algo = algo]
  <2>1. call' = [call EXCEPT ![t] = d] /\ current # 0
    BY <1>4, Zenon DEF CaseEvidence, Start, IsOpen
  <2>2. Head(one) = g
    OBVIOUS
  <2> HIDE DEF one
  <2>3. d = Call("evidence", current, one, 0, algo, NoStats, NoDigests, {}, NoReport)
    BY IdleEvidence, Zenon
  <2> HIDE DEF d
  <2>4. d.op = "evidence" /\ d.s = current /\ d.paths = one /\ CallForm(d)
    BY <2>3, IdleIs
  <2>5. current \in 1..sessions
    BY <2>1, OpenIs
  <2>6. CallOK(d, case, sessions)
    BY <2>2, <2>4, <2>5, Zenon DEF CallOK
  <2> QED BY <1>1, <2>1, <2>6, Moves, Zenon
<1>5. CASE EvidenceStat(t)
  <2>1. c.op = "evidence" /\ f \in Files /\ c.s \in 1..sessions
    BY <1>2, <1>5, Zenon DEF EvidenceStat, In, CallOK
  <2>2. CASE disk[f] = Gone
    <3>1. call' = [call EXCEPT ![t] = Idle]
      BY <1>5, <2>2 DEF EvidenceStat, Return
    <3> QED BY <1>1, <3>1, ReturnOK, Moves, Zenon
  <2>3. CASE disk[f] # Gone
    <3> DEFINE st == [c.stats EXCEPT ![f] = disk[f]]
               d  == [c EXCEPT !.op = "evidenceHash", !.stats = st]
    <3>1. call' = [call EXCEPT ![t].op = "evidenceHash", ![t].stats[f] = disk[f]]
      BY <1>5, <2>3, Zenon DEF EvidenceStat
    <3>2. call' = [call EXCEPT ![t] = d]
      BY <1>2, <3>1, Zenon
    <3>3. st \in [Files -> Disk]
      BY <1>2, <1>3, <2>1
    <3> HIDE DEF c, st
    <3>4. d = Call("evidenceHash", c.s, c.paths, c.h, c.algo, st, c.digests, c.pending, c.checks)
      BY <1>2, CallStats, Zenon
    <3> HIDE DEF d
    <3>5. d.op = "evidenceHash" /\ d.s = c.s /\ d.paths = c.paths /\ CallForm(d)
      BY <1>3, <3>3, <3>4, CallIs
    <3>6. CallOK(d, case, sessions)
      BY <2>1, <3>5, Zenon DEF CallOK
    <3> QED BY <1>1, <3>2, <3>6, Moves, Zenon
  <2> QED BY <2>2, <2>3
<1>6. CASE EvidenceHash(t)
  <2> DEFINE dig == IF c.algo = None THEN NoDigest ELSE Hash(f, c.algo)
             ds  == [c.digests EXCEPT ![f] = dig]
             d   == [c EXCEPT !.op = "evidenceRegister", !.digests = ds]
  <2>1. c.op = "evidenceHash" /\ f \in Files /\ c.s \in 1..sessions
    BY <1>2, <1>6, Zenon DEF EvidenceHash, In, CallOK
  <2>2. call' = [call EXCEPT ![t].op = "evidenceRegister", ![t].digests[f] = dig]
    BY <1>6, Zenon DEF EvidenceHash
  <2>3. dig \in Measured
    <3>1. Hash(f, c.algo) \in RealDigests \cup {Failed}
      BY <1>2, <1>3, <2>1, HashIs
    <3> QED BY <3>1 DEF Measured
  <2> HIDE DEF dig
  <2>4. call' = [call EXCEPT ![t] = d]
    BY <1>2, <2>2, Zenon
  <2>5. ds \in [Files -> Measured]
    BY <1>3, <2>1, <2>3
  <2> HIDE DEF c, ds
  <2>6. d = Call("evidenceRegister", c.s, c.paths, c.h, c.algo, c.stats, ds, c.pending, c.checks)
    BY <1>2, CallDigests, Zenon
  <2> HIDE DEF d
  <2>7. d.op = "evidenceRegister" /\ d.s = c.s /\ d.paths = c.paths /\ CallForm(d)
    BY <1>3, <2>5, <2>6, CallIs
  <2>8. CallOK(d, case, sessions)
    BY <2>1, <2>7, Zenon DEF CallOK
  <2> QED BY <1>1, <2>4, <2>8, Moves, Zenon
<1> QED BY <1>4, <1>5, <1>6

(* A record with the six fields is a case.                                  *)
LEMMA CaseIs ==
  ASSUME NEW k, NEW policy \in Policies, NEW closed, NEW ev \in [Files -> SourceSet], NEW order, NEW hs, NEW line,
         k = [policy |-> policy, closed |-> closed, evidence |-> ev, order |-> order, handles |-> hs, timeline |-> line]
  PROVE  CaseOK(k) /\ k.policy = policy /\ k.evidence = ev
<1>1. k.policy = policy /\ k.closed = closed /\ k.evidence = ev /\ k.order = order /\ k.handles = hs /\ k.timeline = line
  OBVIOUS
<1> QED BY <1>1, Zenon DEF CaseOK

(* What is known of the case k that comes of c when f is registered.        *)
AnySources(c) == \A g \in Files : SourceOK(c.evidence[g], c.policy, TRUE)
OneSource(c, f, k) ==
  /\ CaseOK(k) /\ k.policy = c.policy
  /\ SourceOK(k.evidence[f], c.policy, TRUE)
  /\ Explained(c.evidence[f]) => Explained(k.evidence[f])
  /\ \A g \in Files : g # f => k.evidence[g] = c.evidence[g]

(* registerFileLocked enters the one source and writes its digest.          *)
LEMMA Registers ==
  ASSUME NEW c, CaseOK(c), NEW f \in Files, NEW stats \in [Files -> Disk], NEW algo \in Policies, NEW digest \in Measured,
         AnySources(c), NEW k, k = registerFileLocked(c, f, stats, algo, digest)
  PROVE  OneSource(c, f, k)
<1> DEFINE one == <<f>>
           e   == Enter(c, one, stats, algo)
           new == Entered(c.evidence[f], TRUE, stats[f], algo)
           r   == Registered(new, algo, digest)
<1>1. {one[i] : i \in 1..Len(one)} = {f}
  OBVIOUS
<1> HIDE DEF one
<1>2. /\ e = [policy |-> c.policy, closed |-> c.closed, evidence |-> e.evidence,
              order |-> e.order, handles |-> c.handles, timeline |-> e.timeline]
      /\ e.evidence = [g \in Files |-> IF g \in {one[i] : i \in 1..Len(one)} /\ ~c.evidence[g].known
                                       THEN NewSource(stats[g], algo) ELSE c.evidence[g]]
  BY EntersSources
<1> HIDE DEF e
<1>3. e.evidence[f] = new /\ \A g \in Files : g # f => e.evidence[g] = c.evidence[g]
  BY <1>1, <1>2, Zenon DEF Entered
<1>4. SourceOK(new, c.policy, TRUE) /\ new.known /\ (Explained(c.evidence[f]) => new = c.evidence[f])
  <2>1. stats[f] \in Disk /\ SourceOK(c.evidence[f], c.policy, TRUE)
    BY Zenon DEF AnySources
  <2> QED BY <2>1, EnteredOK, Zenon
<1>5. SourceOK(r, c.policy, TRUE) /\ (Explained(new) => Explained(r))
  <2> HIDE DEF new
  <2> QED BY <1>4, RegisteredOK, Zenon
<1>6. k = [e EXCEPT !.evidence[f] = r]
  <2>1. registerFileLocked(c, f, stats, algo, digest) = [e EXCEPT !.evidence[f] = Registered(e.evidence[f], algo, digest)]
    BY Zenon DEF registerFileLocked, e, one
  <2> QED BY <1>3, <2>1, Zenon
<1>7. k = [policy |-> c.policy, closed |-> c.closed, evidence |-> [e.evidence EXCEPT ![f] = r],
           order |-> e.order, handles |-> c.handles, timeline |-> e.timeline]
  <2> HIDE DEF r
  <2>1. e \in [policy : {c.policy}, closed : {c.closed}, evidence : {e.evidence},
               order : {e.order}, handles : {c.handles}, timeline : {e.timeline}]
    BY <1>2
  <2> DEFINE ev == [e.evidence EXCEPT ![f] = r]
  <2>2. k = [e EXCEPT !.evidence = ev]
    BY <1>6
  <2> HIDE DEF ev
  <2>3. k \in [policy : {c.policy}, closed : {c.closed}, evidence : {ev},
               order : {e.order}, handles : {c.handles}, timeline : {e.timeline}]
    BY <2>1, <2>2, SMTT(30)
  <2> QED BY <2>3, Zenon DEF ev
<1> DEFINE ev == [e.evidence EXCEPT ![f] = r]
<1>8. e.evidence \in [Files -> SourceSet] /\ r \in SourceSet
  <2>1. \A g \in Files : c.evidence[g] \in SourceSet
    BY Zenon DEF SourceOK, AnySources
  <2>2. new \in SourceSet
    BY <1>4, Zenon DEF SourceOK
  <2>3. e.evidence = [g \in Files |-> e.evidence[g]]
    BY <1>2, Zenon
  <2> HIDE DEF new, r
  <2>4. e.evidence \in [Files -> SourceSet]
    BY <1>3, <2>1, <2>2, <2>3, Zenon
  <2> QED BY <1>5, <2>4, Zenon DEF SourceOK
<1> HIDE DEF r, new
<1>9. ev \in [Files -> SourceSet] /\ ev[f] = r /\ \A g \in Files : g # f => ev[g] = c.evidence[g]
  BY <1>3, <1>8, Zenon
<1>10. CaseOK(k) /\ k.policy = c.policy /\ k.evidence = ev
  <2>1. c.policy \in Policies
    BY DEF CaseOK
  <2> QED BY <1>7, <1>9, <2>1, CaseIs
<1> HIDE DEF ev
<1>11. Explained(c.evidence[f]) => Explained(r)
  BY <1>4, <1>5, SMTT(30)
<1> QED BY <1>5, <1>9, <1>10, <1>11, Zenon DEF OneSource

(* The recording half of case_evidence.                                     *)
LEMMA EvidenceRegisterKept ==
  ASSUME CustodyInv, NEW t \in Threads, EvidenceRegister(t)
  PROVE  Kept'
<1> DEFINE c == call[t]
           f == Head(c.paths)
           s == c.s
           k == registerFileLocked(case[s], f, c.stats, c.algo, c.digests[f])
<1>1. /\ call' = [call EXCEPT ![t] = Idle] /\ UNCHANGED <<sessions, disk, report>>
      /\ \/ case' = [case EXCEPT ![s] = k] /\ explicit' = explicit \cup {<<s, f>>}
         \/ UNCHANGED <<case, explicit>>
  BY Zenon DEF EvidenceRegister, Return
<1>2. VerdictHonest'
  BY <1>1, Zenon DEF CustodyInv, VerdictHonest
<1>3. CASE UNCHANGED <<case, explicit>>
  <2>1. UNCHANGED <<case, sessions, explicit, disk, report>>
    BY <1>1, <1>3
  <2> QED BY <1>1, <2>1, ReturnOK, Moves, Zenon
<1>4. CASE case' = [case EXCEPT ![s] = k] /\ explicit' = explicit \cup {<<s, f>>}
  <2>1. CallOK(c, case, sessions) /\ CallForm(c) /\ sessions \in Nat
    BY CallIsRecord
  <2>2. c.op = "evidenceRegister"
    BY Zenon DEF EvidenceRegister, In
  <2>3. f \in Files /\ s \in 1..sessions
    BY <2>1, <2>2, Zenon DEF CallOK
  <2>4. c.algo \in Policies /\ c.stats \in [Files -> Disk] /\ c.digests[f] \in Measured
    BY <2>1, <2>3, Zenon DEF CallForm, Measured
  <2>5. s \in Ids
    BY <2>3, CustodyAssumption, SMTT(30) DEF CustodyInv, CaseInv, Ids
  <2> DEFINE o == case[s]
  <2>6. CaseOK(o) /\ \A g \in Files : SourceOK(o.evidence[g], o.policy, <<s, g>> \in explicit)
    BY <2>5, Zenon DEF CustodyInv, SourcesInv
  <2> HIDE DEF o
  <2>7. AnySources(o)
    BY <2>6, Zenon DEF SourceOK, AnySources
  <2>8. OneSource(o, f, k)
    <3> HIDE DEF c, f, s
    <3>1. CaseOK(o) /\ k = registerFileLocked(o, f, c.stats, c.algo, c.digests[f])
      BY <2>6 DEF o
    <3> HIDE DEF k
    <3> QED BY <2>3, <2>4, <2>7, <3>1, Registers, Zenon
  <2> HIDE DEF k, c, f, s
  <2>9. \A g \in Files : /\ SourceOK(k.evidence[g], k.policy, <<s, g>> \in explicit')
                         /\ Explained(o.evidence[g]) => Explained(k.evidence[g])
    <3>1. <<s, f>> \in explicit' /\ \A g \in Files : <<s, g>> \in explicit => <<s, g>> \in explicit'
      BY <1>4
    <3>2. \A g \in Files : SourceOK(o.evidence[g], o.policy, <<s, g>> \in explicit')
      BY <2>6, <3>1, Zenon DEF SourceOK
    <3> TAKE g \in Files
    <3>3. CASE g = f
      BY <2>8, <3>1, <3>3, Zenon DEF OneSource, SourceOK
    <3>4. CASE g # f
      BY <2>8, <3>2, <3>4, Zenon DEF OneSource
    <3> QED BY <3>3, <3>4
  <2>10. explicit \subseteq explicit'
    BY <1>4
  <2>11. CaseOK(k) /\ k.policy = case[s].policy
    BY <2>8 DEF OneSource, o
  <2> QED BY <1>1, <1>2, <1>4, <2>3, <2>9, <2>10, <2>11, ReturnOK, WritesOn, Zenon DEF o
<1> QED BY <1>1, <1>3, <1>4, Zenon

(* An evidence opener, up to the digests.                                   *)
LEMMA OpenerKept ==
  ASSUME CustodyInv, NEW t \in Threads,
         \/ \E paths \in Openings : EvidenceOpened(t, paths)
         \/ OpenStat(t)
  PROVE  Kept'
<1>1. UNCHANGED <<case, sessions, explicit, disk, report>>
  BY Zenon DEF EvidenceOpened, OpenStat, store
<1> DEFINE c == call[t]
<1>2. CallOK(c, case, sessions) /\ CallForm(c) /\ call = [u \in Threads |-> call[u]] /\ disk \in [Files -> Disk]
  BY CallIsRecord
<1>3. c.algo \in Policies /\ c.stats \in [Files -> Disk] /\ c.digests \in [Files -> Measured]
  BY <1>2, Zenon DEF CallForm, Measured
<1>4. ASSUME NEW paths \in Openings, EvidenceOpened(t, paths) PROVE Kept'
  <2>1. CASE active
    <3> DEFINE d == [Idle EXCEPT !.op = "openStat", !.paths = paths, !.h = handles + 1]
    <3>1. call' = [call EXCEPT ![t] = d]
      BY <1>4, <2>1, Zenon DEF EvidenceOpened, Start
    <3>2. d = Call("openStat", 0, paths, handles + 1, None, NoStats, NoDigests, {}, NoReport)
      BY IdleOpener, Zenon
    <3> HIDE DEF d
    <3>3. d.op = "openStat" /\ d.digests = NoDigests /\ CallForm(d)
      <4>1. None \in Policies
        BY DEF Policies
      <4> QED BY <3>2, <4>1, IdleIs
    <3>4. CallOK(d, case, sessions)
      BY <3>3, Zenon DEF CallOK, NoDigests
    <3> QED BY <1>1, <3>1, <3>4, Moves, Zenon
  <2>2. CASE ~active
    <3>1. UNCHANGED call
      BY <1>4, <2>2 DEF EvidenceOpened
    <3>2. call' = [call EXCEPT ![t] = c]
      BY <1>2, <3>1
    <3> QED BY <1>1, <1>2, <3>2, Moves
  <2> QED BY <2>1, <2>2
<1>5. CASE OpenStat(t)
  <2> DEFINE st == [f \in Files |-> IF f \in Paths(t) THEN disk[f] ELSE Gone]
             d  == [c EXCEPT !.op = "openCase", !.stats = st]
  <2>1. call' = [call EXCEPT ![t].op = "openCase", ![t].stats = st] /\ c.op = "openStat"
    BY <1>5 DEF OpenStat, In
  <2>2. st \in [Files -> Disk]
    BY <1>2 DEF Disk
  <2> HIDE DEF st
  <2>3. call' = [call EXCEPT ![t] = d]
    BY <1>2, <2>1, Zenon
  <2> HIDE DEF c
  <2>4. d = Call("openCase", c.s, c.paths, c.h, c.algo, st, c.digests, c.pending, c.checks)
    BY <1>2, CallStats, Zenon
  <2> HIDE DEF d
  <2>5. d.op = "openCase" /\ d.digests = c.digests /\ CallForm(d)
    BY <1>3, <2>2, <2>4, CallIs
  <2>6. CallOK(d, case, sessions)
    BY <1>2, <2>1, <2>5 DEF CallOK
  <2> QED BY <1>1, <2>3, <2>6, Moves, Zenon
<1> QED BY <1>4, <1>5

(* An evidence opener looks the case up and reads its policy.               *)
LEMMA OpenCaseKept ==
  ASSUME CustodyInv, NEW t \in Threads, OpenCase(t)
  PROVE  Kept'
<1> DEFINE c == call[t]
           p == case[current].policy
           op == IF p = None THEN "openRegister" ELSE "openPending"
           d == [c EXCEPT !.s = current, !.algo = p, !.op = op]
<1>1. UNCHANGED <<case, sessions, explicit, disk, report>> /\ c.op = "openCase"
  BY Zenon DEF OpenCase, store, In
<1>2. CallOK(c, case, sessions) /\ CallForm(c) /\ call = [u \in Threads |-> call[u]]
  BY CallIsRecord, SMTT(30)
<1>3. c.stats \in [Files -> Disk] /\ c.digests \in [Files -> Measured] /\ c.digests = [f \in Files |-> NoDigest]
  BY <1>1, <1>2, Zenon DEF CallForm, Measured, CallOK
<1>4. CASE ~IsOpen
  <2>1. call' = [call EXCEPT ![t] = Idle]
    BY <1>4, Zenon DEF OpenCase, Return
  <2> QED BY <1>1, <2>1, ReturnOK, Moves, Zenon
<1>5. CASE IsOpen
  <2>1. call' = [call EXCEPT ![t].s = current, ![t].algo = p, ![t].op = op] /\ current # 0
    BY <1>5, Zenon DEF OpenCase, IsOpen
  <2>2. current \in 1..sessions /\ p \in Policies
    BY <2>1, OpenIs DEF CaseOK
  <2>3. op \in {"openRegister", "openPending"} /\ (op = "openPending" => p # None)
    OBVIOUS
  <2> HIDE DEF op
  <2>4. call' = [call EXCEPT ![t] = d]
    BY <1>2, <2>1, Zenon
  <2> HIDE DEF c
  <2>5. d = Call(op, current, c.paths, c.h, p, c.stats, c.digests, c.pending, c.checks)
    BY <1>2, CallCase, Zenon
  <2> HIDE DEF d
  <2>6. d.op = op /\ d.s = current /\ d.algo = p /\ d.digests = c.digests /\ CallForm(d)
    BY <1>3, <2>2, <2>5, CallIs
  <2>7. CASE op = "openPending"
    <3>1. CallOK(d, case, sessions)
      BY <2>2, <2>3, <2>6, <2>7, Zenon DEF CallOK
    <3> QED BY <1>1, <2>4, <3>1, Moves, Zenon
  <2>8. CASE op = "openRegister" /\ p = None
    <3>1. CallOK(d, case, sessions)
      BY <1>3, <2>2, <2>6, <2>8, Zenon DEF CallOK
    <3> QED BY <1>1, <2>4, <3>1, Moves, Zenon
  <2> QED BY <2>7, <2>8 DEF op
<1> QED BY <1>4, <1>5

(* It lists the sources without a digest.                                   *)
LEMMA OpenPendingKept ==
  ASSUME CustodyInv, NEW t \in Threads, OpenPending(t)
  PROVE  Kept'
<1> DEFINE c == call[t]
           e == case[c.s].evidence
           todo == {f \in Paths(t) : e[f].digest = NoDigest /\ ~e[f].hashError}
           d == [c EXCEPT !.op = "openHash", !.pending = todo]
<1>1. UNCHANGED <<case, sessions, explicit, disk, report>> /\ c.op = "openPending"
      /\ call' = [call EXCEPT ![t].op = "openHash", ![t].pending = todo]
  BY Zenon DEF OpenPending, store, In
<1>2. CallOK(c, case, sessions) /\ CallForm(c) /\ call = [u \in Threads |-> call[u]]
  BY CallIsRecord
<1>3. c.algo \in Policies /\ c.stats \in [Files -> Disk] /\ c.digests \in [Files -> Measured]
  BY <1>2, Zenon DEF CallForm, Measured
<1>4. c.s \in 1..sessions /\ c.algo = case[c.s].policy /\ c.algo # None
  BY <1>1, <1>2, Zenon DEF CallOK
<1>5. \A f \in PathsOf(c) : f \in todo \/ Explained(case[c.s].evidence[f])
  BY Zenon DEF Paths, PathsOf, Explained
<1> HIDE DEF todo
<1>6. call' = [call EXCEPT ![t] = d]
  BY <1>1, <1>2, Zenon
<1> HIDE DEF c
<1>7. d = Call("openHash", c.s, c.paths, c.h, c.algo, c.stats, c.digests, todo, c.checks)
  BY <1>2, CallPending, Zenon
<1> HIDE DEF d
<1>8. d.op = "openHash" /\ d.s = c.s /\ d.algo = c.algo /\ d.pending = todo /\ d.paths = c.paths /\ CallForm(d)
  BY <1>3, <1>7, CallIs
<1>9. PathsOf(d) = PathsOf(c)
  BY <1>8 DEF PathsOf
<1>10. CallOK(d, case, sessions)
  BY <1>4, <1>5, <1>8, <1>9, Zenon DEF CallOK
<1> QED BY <1>1, <1>6, <1>10, Moves, Zenon

(* It hashes them with the policy of the case.                              *)
LEMMA OpenHashKept ==
  ASSUME CustodyInv, NEW t \in Threads, OpenHash(t)
  PROVE  Kept'
<1> DEFINE c == call[t]
           ds == [f \in Files |-> IF f \in c.pending THEN Hash(f, c.algo) ELSE NoDigest]
           d == [c EXCEPT !.op = "openRegister", !.digests = ds]
<1>1. UNCHANGED <<case, sessions, explicit, disk, report>> /\ c.op = "openHash"
      /\ call' = [call EXCEPT ![t].op = "openRegister", ![t].digests = ds]
  BY Zenon DEF OpenHash, store, In
<1>2. CallOK(c, case, sessions) /\ CallForm(c) /\ call = [u \in Threads |-> call[u]] /\ disk \in [Files -> Disk]
  BY CallIsRecord
<1>3. c.algo \in Policies /\ c.stats \in [Files -> Disk]
  BY <1>2, Zenon DEF CallForm
<1>4. /\ c.s \in 1..sessions /\ c.algo = case[c.s].policy
      /\ \A f \in Files : f \in PathsOf(c) => f \in c.pending \/ Explained(case[c.s].evidence[f])
  BY <1>1, <1>2, ZenonT(40) DEF CallOK
<1>5. ASSUME NEW f \in Files
      PROVE  /\ ds[f] \in Measured /\ (f \in c.pending => ds[f] # NoDigest)
             /\ ds[f] \in {NoDigest, Failed} \/ ds[f].algo = c.algo
  <2>1. /\ Hash(f, c.algo) \in RealDigests \cup {Failed} /\ Hash(f, c.algo) # NoDigest
        /\ Hash(f, c.algo) # Failed => Hash(f, c.algo) = [algo |-> c.algo, content |-> disk[f]]
    BY <1>2, <1>3, HashIs, SMTT(30)
  <2>2. CASE f \in c.pending
    <3>1. ds[f] = Hash(f, c.algo)
      BY <2>2
    <3> HIDE DEF ds
    <3> QED BY <2>1, <3>1 DEF Measured
  <2>3. CASE f \notin c.pending
    <3>1. ds[f] = NoDigest
      BY <2>3
    <3> HIDE DEF ds
    <3> QED BY <2>3, <3>1 DEF Measured
  <2> QED BY <2>2, <2>3, Zenon
<1>6. ds \in [Files -> Measured]
  BY <1>5, Zenon
<1> HIDE DEF ds
<1>7. call' = [call EXCEPT ![t] = d]
  BY <1>1, <1>2, Zenon
<1> HIDE DEF c
<1>8. d = Call("openRegister", c.s, c.paths, c.h, c.algo, c.stats, ds, c.pending, c.checks)
  BY <1>2, CallDigests, Zenon
<1> HIDE DEF d
<1>9. d.op = "openRegister" /\ d.s = c.s /\ d.algo = c.algo /\ d.digests = ds /\ d.paths = c.paths /\ CallForm(d)
  BY <1>3, <1>6, <1>8, CallIs
<1>10. PathsOf(d) = PathsOf(c)
  BY <1>9, Zenon DEF PathsOf
<1>11. CallOK(d, case, sessions)
  BY <1>4, <1>5, <1>9, <1>10, Zenon DEF CallOK
<1> QED BY <1>1, <1>7, <1>11, Moves, Zenon

(* What is known of the sources of the case k that comes of the case c, s   *)
(* being its number.                                                        *)
Sound(c, s) == \A f \in Files : SourceOK(c.evidence[f], c.policy, <<s, f>> \in explicit)
Better(c, s, k) ==
  /\ CaseOK(k) /\ k.policy = c.policy
  /\ \A f \in Files : /\ SourceOK(k.evidence[f], c.policy, <<s, f>> \in explicit)
                      /\ Explained(c.evidence[f]) => Explained(k.evidence[f])

(* What an opener leaves of one source.                                     *)
LEMMA OpenedSource ==
  ASSUME NEW r, NEW policy \in Policies, NEW x \in BOOLEAN, SourceOK(r, policy, x), NEW in \in BOOLEAN,
         NEW stat \in Disk, NEW digest \in Measured,
         digest \in {NoDigest, Failed} \/ digest.algo = policy,
         in /\ policy # None => digest # NoDigest \/ Explained(r),
         NEW e, e = Entered(r, in, stat, policy),
         NEW o, o = IF in THEN Opened(e, digest) ELSE e
  PROVE  SourceOK(o, policy, x) /\ (Explained(r) => Explained(o))
<1>1. SourceOK(e, policy, x) /\ (in => e.known) /\ (Explained(r) => e = r)
  BY EnteredOK
<1>2. CASE in
  <2>1. SourceOK(Opened(e, digest), policy, x) /\ (Explained(e) => Explained(Opened(e, digest)))
    <3>1. policy # None => digest # NoDigest \/ Explained(e)
      BY <1>1, <1>2, Zenon
    <3> QED BY <1>1, <1>2, <3>1, OpenedOK, Zenon
  <2> QED BY <1>1, <1>2, <2>1, Zenon
<1>3. CASE ~in
  BY <1>1, <1>3
<1> QED BY <1>2, <1>3

(* The call of an opener that may be recorded in the case c.                *)
ToRecord(r, c) ==
  /\ CallForm(r) /\ r.algo = c.policy
  /\ \A f \in Files : /\ r.digests[f] \in {NoDigest, Failed} \/ r.digests[f].algo = r.algo
                      /\ f \in PathsOf(r) /\ r.algo # None => r.digests[f] # NoDigest \/ Explained(c.evidence[f])

(* custodyRecordOpenAt, under the lock.                                     *)
LEMMA Records ==
  ASSUME NEW c, CaseOK(c), NEW s, Sound(c, s), NEW r, ToRecord(r, c), NEW k, k = Record(c, r)
  PROVE  Better(c, s, k)
<1> DEFINE e  == Enter(c, r.paths, r.stats, r.algo)
           ev == [f \in Files |-> IF f \in PathsOf(r) THEN Opened(e.evidence[f], r.digests[f]) ELSE e.evidence[f]]
           hs == [e.handles EXCEPT ![r.h] = r.paths]
<1>1. k = [e EXCEPT !.handles[r.h] = r.paths, !.evidence = ev]
  BY Zenon DEF Record, PathsOf
<1>2. /\ e = [policy |-> c.policy, closed |-> c.closed, evidence |-> e.evidence,
              order |-> e.order, handles |-> c.handles, timeline |-> e.timeline]
      /\ e.evidence = [f \in Files |-> IF f \in PathsOf(r) /\ ~c.evidence[f].known
                                       THEN NewSource(r.stats[f], r.algo) ELSE c.evidence[f]]
  BY EntersSources DEF PathsOf
<1> HIDE DEF e
<1>3. r.algo = c.policy /\ r.algo \in Policies /\ r.stats \in [Files -> Disk] /\ r.digests \in [Files -> Measured]
  BY Zenon DEF ToRecord, CallForm, Measured
<1>4. ASSUME NEW f \in Files
      PROVE  SourceOK(ev[f], c.policy, <<s, f>> \in explicit) /\ (Explained(c.evidence[f]) => Explained(ev[f]))
  <2> DEFINE x  == <<s, f>> \in explicit
             in == f \in PathsOf(r)
             old == c.evidence[f]
             new == Entered(old, in, r.stats[f], c.policy)
  <2>1. x \in BOOLEAN /\ in \in BOOLEAN /\ r.stats[f] \in Disk /\ r.digests[f] \in Measured /\ c.policy \in Policies
    BY <1>3
  <2>2. SourceOK(old, c.policy, x)
    BY DEF Sound
  <2>3. /\ r.digests[f] \in {NoDigest, Failed} \/ r.digests[f].algo = c.policy
        /\ in /\ c.policy # None => r.digests[f] # NoDigest \/ Explained(old)
    BY <1>3, Zenon DEF ToRecord
  <2>4. e.evidence[f] = new
    BY <1>2, <1>3, Zenon DEF Entered
  <2>5. ev[f] = IF in THEN Opened(new, r.digests[f]) ELSE new
    BY <2>4, Zenon
  <2> HIDE DEF x, in, old, new, ev
  <2>6. SourceOK(ev[f], c.policy, x) /\ (Explained(old) => Explained(ev[f]))
    <3>1. new = Entered(old, in, r.stats[f], c.policy)
      BY DEF new
    <3>2. PICK p \in Policies, st \in Disk, dig \in Measured, y \in BOOLEAN, z \in BOOLEAN :
            p = c.policy /\ st = r.stats[f] /\ dig = r.digests[f] /\ y = x /\ z = in
      BY <2>1, Zenon
    <3>3. PICK o : o = ev[f]
      OBVIOUS
    <3>4. /\ SourceOK(old, p, y) /\ new = Entered(old, z, st, p) /\ o = IF z THEN Opened(new, dig) ELSE new
          /\ dig \in {NoDigest, Failed} \/ dig.algo = p
          /\ z /\ p # None => dig # NoDigest \/ Explained(old)
      BY <2>2, <2>3, <2>5, <3>1, <3>2, <3>3, Zenon
    <3>5. SourceOK(o, p, y) /\ (Explained(old) => Explained(o))
      BY <3>4, OpenedSource, Zenon
    <3> QED BY <3>2, <3>3, <3>5, Zenon
  <2> QED BY <2>6, Zenon DEF x, old
<1>5. ev \in [Files -> SourceSet]
  <2>1. \A f \in Files : ev[f] \in SourceSet
    BY <1>4, ZenonT(40) DEF SourceOK
  <2>2. ev = [f \in Files |-> ev[f]]
    BY Zenon
  <2> HIDE DEF ev
  <2> QED BY <2>1, <2>2, SMTT(30)
<1> HIDE DEF ev
<1>6. k = [policy |-> c.policy, closed |-> c.closed, evidence |-> ev,
           order |-> e.order, handles |-> hs, timeline |-> e.timeline]
  <2>1. e \in [policy : {c.policy}, closed : {c.closed}, evidence : {e.evidence},
               order : {e.order}, handles : {e.handles}, timeline : {e.timeline}]
    BY <1>2
  <2>2. k = [e EXCEPT !.handles = hs, !.evidence = ev]
    BY <1>1
  <2> HIDE DEF hs
  <2>3. k \in [policy : {c.policy}, closed : {c.closed}, evidence : {ev},
               order : {e.order}, handles : {hs}, timeline : {e.timeline}]
    BY <2>1, <2>2, Zenon
  <2> QED BY <2>3, Zenon
<1> HIDE DEF hs
<1>7. CaseOK(k) /\ k.policy = c.policy /\ k.evidence = ev
  <2>1. c.policy \in Policies
    BY <1>3, Zenon
  <2>2. /\ k.policy = c.policy /\ k.closed = c.closed /\ k.evidence = ev
        /\ k.order = e.order /\ k.handles = hs /\ k.timeline = e.timeline
    <3> HIDE DEF e
    <3> QED BY <1>6
  <2> QED BY <1>5, <1>6, <2>1, <2>2, Zenon DEF CaseOK
<1> QED BY <1>4, <1>7 DEF Better

(* custodyRecordTouch, under the lock.                                      *)
LEMMA Touches ==
  ASSUME NEW c, CaseOK(c), NEW s, Sound(c, s), NEW h, NEW k, k = Touched(c, h)
  PROVE  Better(c, s, k)
<1> DEFINE T == {c.handles[h][i] : i \in 1..Len(c.handles[h])}
           ev == [f \in Files |-> IF f \in T THEN [c.evidence[f] EXCEPT !.touches = c.evidence[f].touches + 1]
                                  ELSE c.evidence[f]]
<1>1. k = [c EXCEPT !.evidence = ev]
  BY Zenon DEF Touched
<1> HIDE DEF T
<1>2. ASSUME NEW f \in Files
      PROVE  SourceOK(ev[f], c.policy, <<s, f>> \in explicit) /\ (Explained(c.evidence[f]) => Explained(ev[f]))
  <2> DEFINE old == c.evidence[f]
             new == [old EXCEPT !.touches = old.touches + 1]
             x   == <<s, f>> \in explicit
  <2>1. ev[f] = IF f \in T THEN new ELSE old
    OBVIOUS
  <2>2. SourceOK(old, c.policy, x)
    BY DEF Sound
  <2> HIDE DEF ev, old, x
  <2>3. SourceOK(new, c.policy, x) /\ (Explained(old) => Explained(new))
    BY <2>2, TouchedOK
  <2> HIDE DEF new
  <2> QED BY <2>1, <2>2, <2>3, Zenon DEF old, x
<1>3. ev \in [Files -> SourceSet]
  <2>1. \A f \in Files : ev[f] \in SourceSet
    BY <1>2, Zenon DEF SourceOK
  <2>2. ev = [f \in Files |-> ev[f]]
    OBVIOUS
  <2> HIDE DEF ev
  <2> QED BY <2>1, <2>2
<1> HIDE DEF ev
<1>4. k = [policy |-> c.policy, closed |-> c.closed, evidence |-> ev,
           order |-> c.order, handles |-> c.handles, timeline |-> c.timeline]
  <2>1. c \in [policy : {c.policy}, closed : {c.closed}, evidence : {c.evidence},
               order : {c.order}, handles : {c.handles}, timeline : {c.timeline}]
    BY Zenon DEF CaseOK
  <2>2. k \in [policy : {c.policy}, closed : {c.closed}, evidence : {ev},
               order : {c.order}, handles : {c.handles}, timeline : {c.timeline}]
    BY <1>1, <2>1
  <2> QED BY <2>2, Zenon
<1>5. CaseOK(k) /\ k.policy = c.policy /\ k.evidence = ev
  BY <1>3, <1>4, CaseIs DEF CaseOK
<1> QED BY <1>2, <1>5 DEF Better

(* The cases that were opened.                                              *)
LEMMA OneOfThem ==
  ASSUME CustodyInv, NEW s \in 1..sessions
  PROVE  CaseOK(case[s]) /\ Sound(case[s], s)
<1>1. s \in Ids
  BY CustodyAssumption DEF CustodyInv, CaseInv, Ids
<1> QED BY <1>1, Zenon DEF CustodyInv, SourcesInv, Sound

(* A step that leaves one of them better and ends a call.                   *)
LEMMA BetterKept ==
  ASSUME CustodyInv, NEW s \in 1..sessions, NEW k, case' = [case EXCEPT ![s] = k], Better(case[s], s, k),
         UNCHANGED <<sessions, explicit, disk, report>>,
         NEW t \in Threads, call' = [call EXCEPT ![t] = Idle]
  PROVE  Kept'
<1>1. CaseOK(k) /\ k.policy = case[s].policy
  BY Zenon DEF Better
<1>2. \A f \in Files : /\ SourceOK(k.evidence[f], k.policy, <<s, f>> \in explicit')
                       /\ Explained(case[s].evidence[f]) => Explained(k.evidence[f])
  BY Zenon DEF Better
<1>3. explicit \subseteq explicit' /\ sessions' = sessions /\ UNCHANGED disk
  OBVIOUS
<1>4. VerdictHonest'
  BY Zenon DEF CustodyInv, VerdictHonest
<1> QED BY <1>1, <1>2, <1>3, <1>4, ReturnOK, WritesOn, Zenon

(* An opener records its sources in the case it looked up.                  *)
LEMMA OpenRegisterKept ==
  ASSUME CustodyInv, NEW t \in Threads, OpenRegister(t)
  PROVE  Kept'
<1> DEFINE c == call[t]
           s == c.s
           k == Record(case[s], c)
<1>1. /\ call' = [call EXCEPT ![t] = Idle] /\ UNCHANGED <<sessions, explicit, disk, report>>
      /\ case' = IF StillOpen(s) THEN [case EXCEPT ![s] = k] ELSE case
      /\ c.op = "openRegister"
  BY Zenon DEF OpenRegister, Return, In
<1>2. CASE ~StillOpen(s)
  <2>1. UNCHANGED <<case, sessions, explicit, disk, report>>
    BY <1>1, <1>2
  <2> QED BY <1>1, <2>1, ReturnOK, Moves, Zenon
<1>3. CASE StillOpen(s)
  <2>1. CallOK(c, case, sessions)
    BY CallIsRecord
  <2>2. s \in 1..sessions /\ ToRecord(c, case[s])
    BY <1>1, <2>1, Zenon DEF CallOK, ToRecord
  <2>3. CaseOK(case[s]) /\ Sound(case[s], s)
    BY <2>2, OneOfThem, Zenon
  <2>4. case' = [case EXCEPT ![s] = k]
    BY <1>1, <1>3, Zenon
  <2>5. Better(case[s], s, k)
    <3>1. PICK o : o = case[s]
      OBVIOUS
    <3>2. PICK r : r = c
      OBVIOUS
    <3> QED BY <2>2, <2>3, <3>1, <3>2, Records, Zenon
  <2> HIDE DEF c, s, k
  <2> QED BY <1>1, <2>2, <2>4, <2>5, BetterKept, Zenon
<1> QED BY <1>2, <1>3

(* The use of a handle is counted in the open case.                         *)
LEMMA TouchKept ==
  ASSUME CustodyInv, NEW t \in Threads, custodyRecordTouch(t)
  PROVE  Kept'
<1> DEFINE k == Touched(case[current], call[t].h)
<1>1. /\ call' = [call EXCEPT ![t] = Idle] /\ UNCHANGED <<sessions, explicit, disk, report>>
      /\ case' = IF IsOpen THEN [case EXCEPT ![current] = k] ELSE case
  BY Zenon DEF custodyRecordTouch, Return
<1>2. CASE ~IsOpen
  <2>1. UNCHANGED <<case, sessions, explicit, disk, report>>
    BY <1>1, <1>2
  <2> QED BY <1>1, <2>1, ReturnOK, Moves, Zenon
<1>3. CASE IsOpen
  <2>1. current \in 1..sessions
    BY <1>3, OpenIs DEF IsOpen
  <2>2. CaseOK(case[current]) /\ Sound(case[current], current)
    BY <2>1, OneOfThem, Zenon
  <2>3. Better(case[current], current, k)
    BY <2>2, Touches, Zenon
  <2>4. case' = [case EXCEPT ![current] = k]
    BY <1>1, <1>3, Zenon
  <2> HIDE DEF k
  <2> QED BY <1>1, <2>1, <2>3, <2>4, BetterKept, Zenon
<1> QED BY <1>2, <1>3

-----------------------------------------------------------------------------
(* case_verify *)

(* The case is looked up.                                                   *)
LEMMA CaseVerifyKept ==
  ASSUME CustodyInv, NEW t \in Threads, CaseVerify(t)
  PROVE  Kept'
<1> DEFINE d == [Idle EXCEPT !.op = "verify", !.s = current]
<1>1. UNCHANGED <<case, sessions, explicit, disk, report>> /\ call' = [call EXCEPT ![t] = d] /\ current # 0
  BY Zenon DEF CaseVerify, store, Start
<1>2. current \in 1..sessions
  BY <1>1, OpenIs, Zenon
<1>3. d = Call("verify", current, NoPaths, 0, None, NoStats, NoDigests, {}, NoReport)
  BY IdleVerify, Zenon
<1> HIDE DEF d
<1>4. d.op = "verify" /\ d.s = current /\ CallForm(d)
  <2>1. None \in Policies
    BY SMTT(30) DEF Policies
  <2> QED BY <1>3, <2>1, IdleIs
<1>5. CallOK(d, case, sessions)
  BY <1>2, <1>4, Zenon DEF CallOK
<1> QED BY <1>1, <1>5, Moves, Zenon

NoVerdicts == [Files -> [status : {None}, digest : RealDigests \cup {NoDigest}, algo : Policies, now : {Gone}]]

(* Its sources are copied under the lock.                                   *)
LEMMA VerifySnapshotKept ==
  ASSUME CustodyInv, NEW t \in Threads, VerifySnapshot(t)
  PROVE  Kept'
<1> DEFINE c == call[t]
           e == case[c.s].evidence
           todo == {f \in Files : e[f].known}
           st == [f \in Files |-> e[f].stat]
           ch == [f \in Files |-> [status |-> None, digest |-> e[f].digest, algo |-> e[f].algo, now |-> Gone]]
           d == [c EXCEPT !.op = "verifyCheck", !.pending = todo, !.stats = st, !.checks = ch]
<1>1. UNCHANGED <<case, sessions, explicit, disk, report>> /\ c.op = "verify"
      /\ call' = [call EXCEPT ![t].op = "verifyCheck", ![t].pending = todo, ![t].stats = st, ![t].checks = ch]
  BY Zenon DEF VerifySnapshot, store, In
<1>2. CallOK(c, case, sessions) /\ CallForm(c) /\ call = [u \in Threads |-> call[u]]
  BY CallIsRecord
<1>3. c.algo \in Policies /\ c.digests \in [Files -> Measured]
  BY <1>2, Zenon DEF CallForm, Measured
<1>4. c.s \in 1..sessions
  BY <1>1, <1>2, Zenon DEF CallOK
<1>5. \A f \in Files : e[f] \in SourceSet
  <2>1. CaseOK(case[c.s])
    BY <1>4, OneOfThem, Zenon
  <2> QED BY <2>1, Zenon DEF CaseOK
<1> HIDE DEF e
<1>6. st \in [Files -> Disk] /\ ch \in NoVerdicts
  BY <1>5, Zenon DEF SourceSet, NoVerdicts
<1> HIDE DEF st, ch, todo
<1>7. call' = [call EXCEPT ![t] = d]
  BY <1>1, <1>2, Zenon
<1> HIDE DEF c
<1>8. d = Call("verifyCheck", c.s, c.paths, c.h, c.algo, st, c.digests, todo, ch)
  <2>1. c \in [op : {c.op}, s : {c.s}, paths : {c.paths}, h : {c.h}, algo : {c.algo}, stats : {c.stats},
               digests : {c.digests}, pending : {c.pending}, checks : {c.checks}]
    BY <1>2, Zenon DEF CallForm
  <2>2. d \in [op : {"verifyCheck"}, s : {c.s}, paths : {c.paths}, h : {c.h}, algo : {c.algo}, stats : {st},
               digests : {c.digests}, pending : {todo}, checks : {ch}]
    BY <2>1, Zenon
  <2> HIDE DEF d
  <2> QED BY <2>2, Zenon DEF Call
<1> HIDE DEF d
<1>9. d.op = "verifyCheck" /\ d.checks = ch /\ CallForm(d)
  BY <1>3, <1>6, <1>8, CallIs
<1>10. CallOK(d, case, sessions)
  BY <1>6, <1>9, Zenon DEF CallOK, NoVerdicts
<1> QED BY <1>1, <1>7, <1>10, Moves, Zenon

(* The verdict on one file, given the digest and the algorithm on record.   *)
LEMMA VerdictIs ==
  ASSUME NEW f \in Files, disk \in [Files -> Disk], NEW stat,
         NEW r \in [status : {None}, digest : RealDigests \cup {NoDigest}, algo : Policies, now : {Gone}],
         NEW v, v = Verdict(f, stat, r), r.digest # NoDigest
  PROVE  /\ v = "unchanged" => disk[f] = r.digest.content
         /\ v = "changed" /\ r.algo = r.digest.algo => disk[f] # r.digest.content
<1> DEFINE h == Hash(f, r.algo)
<1>1. r.digest \in RealDigests /\ r.algo \in Policies
  OBVIOUS
<1>2. h # Failed => h = [algo |-> r.algo, content |-> disk[f]]
  BY <1>1, HashIs
<1>3. /\ v = "unchanged" => h # Failed /\ h = r.digest
      /\ v = "changed" => h # Failed /\ h # r.digest
  BY DEF Verdict
<1> HIDE DEF h
<1>4. r.digest = [algo |-> r.digest.algo, content |-> r.digest.content]
  BY <1>1 DEF RealDigests
<1> QED BY <1>2, <1>3, <1>4

(* Every source of the copy is measured again.                              *)
LEMMA VerifyCheckKept ==
  ASSUME CustodyInv, NEW t \in Threads, VerifyCheck(t)
  PROVE  Kept'
<1> DEFINE c == call[t]
           new(f) == [c.checks[f] EXCEPT !.status = Verdict(f, c.stats[f], c.checks[f]), !.now = disk[f]]
           ch == [f \in Files |-> IF f \notin c.pending THEN c.checks[f] ELSE new(f)]
           d == [c EXCEPT !.op = "verifyReport", !.checks = ch]
<1>1. UNCHANGED <<case, sessions, explicit, disk, report>> /\ c.op = "verifyCheck"
      /\ call' = [call EXCEPT ![t].op = "verifyReport", ![t].checks = ch]
  BY Zenon DEF VerifyCheck, store, In
<1>2. CallOK(c, case, sessions) /\ CallForm(c) /\ call = [u \in Threads |-> call[u]] /\ disk \in [Files -> Disk]
  BY CallIsRecord
<1>3. c.algo \in Policies /\ c.stats \in [Files -> Disk] /\ c.digests \in [Files -> Measured]
  BY <1>2, Zenon DEF CallForm, Measured
<1>4. c.checks \in NoVerdicts
  BY <1>1, <1>2, Zenon DEF CallOK, NoVerdicts
<1>5. ASSUME NEW f \in Files PROVE Honest(ch[f])
  <2>1. PICK r \in [status : {None}, digest : RealDigests \cup {NoDigest}, algo : Policies, now : {Gone}] :
          r = c.checks[f]
    BY <1>4, Zenon DEF NoVerdicts
  <2>2. CASE f \notin c.pending
    <3>1. ch[f] = r
      BY <2>1, <2>2
    <3> QED BY <3>1, Zenon DEF Honest, None
  <2>3. CASE f \in c.pending
    <3> DEFINE v == Verdict(f, c.stats[f], r)
               n == [r EXCEPT !.status = v, !.now = disk[f]]
    <3>1. ch[f] = n
      BY <2>1, <2>3, Zenon
    <3>2. r.digest # NoDigest =>
            /\ v = "unchanged" => disk[f] = r.digest.content
            /\ v = "changed" /\ r.algo = r.digest.algo => disk[f] # r.digest.content
      BY <1>2, VerdictIs
    <3> HIDE DEF v
    <3>3. n.status = v /\ n.now = disk[f] /\ n.digest = r.digest /\ n.algo = r.algo
      OBVIOUS
    <3> HIDE DEF n, ch
    <3> QED BY <3>1, <3>2, <3>3, Zenon DEF Honest
  <2> QED BY <2>2, <2>3
<1> HIDE DEF ch
<1>6. call' = [call EXCEPT ![t] = d]
  BY <1>1, <1>2, Zenon
<1> HIDE DEF c
<1>7. d = Call("verifyReport", c.s, c.paths, c.h, c.algo, c.stats, c.digests, c.pending, ch)
  BY <1>2, CallChecks, Zenon
<1> HIDE DEF d
<1>8. d.op = "verifyReport" /\ d.checks = ch /\ CallForm(d)
  <2>1. c.algo \in Policies /\ c.stats \in [Files -> Disk] /\ c.digests \in [Files -> Measured]
    BY <1>3, Zenon
  <2> QED BY <1>7, <2>1, CallIs
<1>9. CallOK(d, case, sessions)
  BY <1>5, <1>8, Zenon DEF CallOK
<1> QED BY <1>1, <1>6, <1>9, Moves, Zenon

(* The report goes out, and on the timeline of a case still open.           *)
LEMMA VerifyReportKept ==
  ASSUME CustodyInv, NEW t \in Threads, VerifyReport(t)
  PROVE  Kept'
<1> DEFINE c == call[t]
           s == c.s
           k == appendEvent(case[s], "verify", None)
<1>1. /\ call' = [call EXCEPT ![t] = Idle] /\ UNCHANGED <<current, sessions, explicit, disk>>
      /\ case' = IF StillOpen(s) THEN [case EXCEPT ![s] = k] ELSE case
      /\ report' = c.checks /\ c.op = "verifyReport"
  BY Zenon DEF VerifyReport, Return, In
<1>2. CallOK(c, case, sessions)
  BY CallIsRecord
<1>3. VerdictHonest'
  <2>1. \A f \in Files : Honest(c.checks[f])
    BY <1>1, <1>2, Zenon DEF CallOK
  <2> QED BY <1>1, <2>1, Zenon DEF VerdictHonest, Honest
<1>4. CASE ~StillOpen(s)
  <2>1. UNCHANGED <<case, sessions, explicit, disk>>
    BY <1>1, <1>4
  <2>2. SourcesInv' /\ Grows(case, sessions, case', sessions') /\ sessions' \in Nat
    BY <2>1, CasesWait, Zenon DEF CustodyInv
  <2>3. CallsInv'
    <3>1. CallOK(Idle, case', sessions')
      BY ReturnOK, Zenon
    <3> QED BY <1>1, <2>2, <3>1, CallsGo, Zenon DEF CustodyInv
  <2>4. (disk \in [Files -> Disk])'
    BY <2>1, Zenon DEF CustodyInv
  <2> QED BY <1>3, <2>2, <2>3, <2>4, Zenon DEF Kept
<1>5. CASE StillOpen(s)
  <2>1. case' = [case EXCEPT ![current] = k] /\ s = current
    BY <1>1, <1>5, Zenon DEF StillOpen
  <2>2. CASE current # 0
    <3>1. CaseOK(case[current])
      BY <2>2, OpenIs, Zenon
    <3>2. PICK o : o = case[current]
      OBVIOUS
    <3>3. k = appendEvent(o, "verify", None) /\ CaseOK(o)
      BY <2>1, <3>1, <3>2, Zenon
    <3>4. CaseOK(k) /\ k.policy = o.policy /\ k.evidence = o.evidence
      BY <3>3, AppendsEvent
    <3> HIDE DEF k
    <3>5. UNCHANGED <<sessions, explicit, disk>>
      BY <1>1
    <3> QED BY <1>1, <1>3, <2>1, <2>2, <3>2, <3>4, <3>5, ReturnOK, Logs, Zenon
  <2>3. CASE current = 0
    <3>1. case' = case
      <4>1. 0 \notin Ids
        BY CustodyAssumption DEF Ids
      <4>2. case = [u \in Ids |-> case[u]]
        BY DEF CustodyInv, CaseInv
      <4> QED BY <2>1, <2>3, <4>1, <4>2
    <3>2. SourcesInv' /\ Grows(case, sessions, case', sessions') /\ sessions' \in Nat
      BY <1>1, <3>1, CasesWait, Zenon DEF CustodyInv
    <3>3. CallsInv'
      <4>1. CallOK(Idle, case', sessions')
        BY ReturnOK, Zenon
      <4> QED BY <1>1, <3>2, <4>1, CallsGo, Zenon DEF CustodyInv
    <3>4. (disk \in [Files -> Disk])'
      BY <1>1, Zenon DEF CustodyInv
    <3> QED BY <1>3, <3>2, <3>3, <3>4, Zenon DEF Kept
  <2> QED BY <2>2, <2>3
<1> QED BY <1>4, <1>5

(* A file changes.                                                          *)
LEMMA FileChangesKept ==
  ASSUME CustodyInv, NEW f \in Files, FileChanges(f)
  PROVE  Kept'
<1>1. UNCHANGED <<case, sessions, call, explicit, report>>
  BY Zenon DEF FileChanges, store
<1>2. PICK v \in Disk : disk' = [disk EXCEPT ![f] = v]
  BY Zenon DEF FileChanges
<1>3. (disk \in [Files -> Disk])'
  BY <1>2 DEF CustodyInv
<1>4. SourcesInv' /\ Grows(case, sessions, case', sessions') /\ sessions' \in Nat
  BY <1>1, CasesWait, Zenon DEF CustodyInv
<1>5. CallsInv'
  BY <1>1, <1>4, CallsWait, Zenon DEF CustodyInv
<1>6. VerdictHonest'
  BY <1>1, Zenon DEF CustodyInv, VerdictHonest
<1> QED BY <1>3, <1>4, <1>5, <1>6, Zenon DEF Kept

-----------------------------------------------------------------------------
(* Every step keeps it *)

(* At the beginning.                                                        *)
LEMMA CustodyStarts == Init => CustodyInv
<1> SUFFICES ASSUME Init PROVE CustodyInv
  OBVIOUS
<1>1. CaseInv
  BY CustodyAssumption DEF Init, CaseInv, OneOpenCase, NoCase, Ids
<1>2. disk \in [Files -> Disk]
  BY DEF Init, Disk
<1>3. VerdictHonest
  <2>1. \A f \in Files : report[f].digest = NoDigest
    BY Zenon DEF Init, NoReport
  <2> QED BY <2>1 DEF VerdictHonest
<1>4. CallsInv
  <2>1. call = [t \in Threads |-> Idle]
    BY DEF Init
  <2> QED BY <2>1, ReturnOK DEF CallsInv
<1>5. SourcesInv
  <2> DEFINE ev == [f \in Files |-> NoSource]
             ord == <<>>
             hs == [h \in Ids |-> <<>>]
             line == <<>>
  <2>1. NoSource \in SourceSet /\ ~NoSource.known /\ NoSource.opens = 0 /\ ~Explained(NoSource)
    BY Zenon DEF NoSource, SourceSet, Disk, Policies, Explained
  <2>2. NoCase = [policy |-> None, closed |-> FALSE, evidence |-> ev, order |-> ord, handles |-> hs, timeline |-> line]
    BY Zenon DEF NoCase
  <2>3. ev \in [Files -> SourceSet] /\ None \in Policies /\ \A f \in Files : ev[f] = NoSource
    BY <2>1, SMTT(30) DEF Policies
  <2> HIDE DEF ev, ord, hs, line
  <2>4. CaseOK(NoCase) /\ NoCase.policy = None /\ NoCase.evidence = ev
    BY <2>2, <2>3, CaseIs, Zenon
  <2>5. \A x : SourceOK(NoSource, None, x)
    BY <2>1, Zenon DEF SourceOK
  <2>6. \A s \in Ids : case[s] = NoCase
    BY DEF Init
  <2> QED BY <2>3, <2>4, <2>5, <2>6, Zenon DEF SourcesInv
<1> QED BY <1>1, <1>2, <1>3, <1>4, <1>5 DEF CustodyInv

(* When nothing changes.                                                    *)
LEMMA CustodyStays ==
  ASSUME CustodyInv, UNCHANGED vars
  PROVE  CustodyInv'
<1>1. UNCHANGED <<current, sessions, case, active, disk, handles, call, ops, changes, explicit, report>>
  BY DEF vars, store
<1>2. CaseInv' /\ SourcesInv' /\ CallsInv' /\ VerdictHonest'
  <2>1. CaseInv'
    BY <1>1, Zenon DEF CustodyInv, CaseInv, OneOpenCase
  <2>2. SourcesInv'
    BY <1>1, Zenon DEF CustodyInv, SourcesInv
  <2>3. CallsInv'
    BY <1>1, Zenon DEF CustodyInv, CallsInv
  <2>4. VerdictHonest'
    BY <1>1, Zenon DEF CustodyInv, VerdictHonest
  <2> QED BY <2>1, <2>2, <2>3, <2>4
<1> QED BY <1>1, <1>2, Zenon DEF CustodyInv

(* Every step.                                                              *)
LEMMA CustodyStep ==
  ASSUME CustodyInv, [Next]_vars
  PROVE  CustodyInv'
<1>1. CaseInv'
  BY NextInv, Zenon DEF CustodyInv
<1>2. CASE UNCHANGED vars
  BY <1>2, CustodyStays
<1>3. ASSUME NEW t \in Threads, Step(t) PROVE Kept'
  <2>1. CASE \E policy \in Policies : CaseOpen(t, policy)
    BY <2>1, CaseOpenKept, Zenon
  <2>2. CASE CaseClose(t) \/ CaseNote(t) \/ custodyRecordArtifact(t)
    BY <2>2, LogKept, Zenon
  <2>3. CASE \/ Activate(t) \/ Deactivate(t) \/ ArtifactWritten(t)
             \/ \E h \in 1..handles : HandleUsed(t, h)
    BY <2>3, FlagKept, Zenon
  <2>4. CASE \/ \E f \in Files, algo \in Policies : CaseEvidence(t, f, algo)
             \/ EvidenceStat(t) \/ EvidenceHash(t)
    BY <2>4, EvidenceKept, Zenon
  <2>5. CASE EvidenceRegister(t)
    BY <2>5, EvidenceRegisterKept, Zenon
  <2>6. CASE (\E paths \in Openings : EvidenceOpened(t, paths)) \/ OpenStat(t)
    BY <2>6, OpenerKept, Zenon
  <2>7. CASE OpenCase(t) \/ OpenPending(t) \/ OpenHash(t) \/ OpenRegister(t)
    BY <2>7, OpenCaseKept, OpenPendingKept, OpenHashKept, OpenRegisterKept, Zenon
  <2>8. CASE custodyRecordTouch(t)
    BY <2>8, TouchKept, Zenon
  <2>9. CASE CaseVerify(t) \/ VerifySnapshot(t) \/ VerifyCheck(t) \/ VerifyReport(t)
    BY <2>9, CaseVerifyKept, VerifySnapshotKept, VerifyCheckKept, VerifyReportKept, Zenon
  <2> QED BY <1>3, <2>1, <2>2, <2>3, <2>4, <2>5, <2>6, <2>7, <2>8, <2>9, Zenon DEF Step
<1>4. ASSUME NEW f \in Files, FileChanges(f) PROVE Kept'
  BY <1>4, FileChangesKept, Zenon
<1>5. Kept' => CustodyInv'
  BY <1>1, Zenon DEF Kept, CustodyInv
<1> QED BY <1>2, <1>3, <1>4, <1>5, Zenon DEF Next

(* In every reachable state of the case and its recorders, for any threads, *)
(* files, contents and algorithms, the whole invariant holds.               *)
THEOREM CustodyInvariance == Spec => []CustodyInv
<1>1. CustodyInv /\ [Next]_vars => CustodyInv'
  BY CustodyStep, SMTT(30)
<1> QED BY <1>1, CustodyStarts, PTL DEF Spec

(* A source that only openers brought in was measured as its own case       *)
(* asked, although custodyRecordOpenAt reads the policy and hashes the file *)
(* before it takes the lock again to record.                                *)
THEOREM MeasuredAsAsked == Spec => []MeasuredByPolicy
<1>1. CustodyInv => MeasuredByPolicy
  BY Zenon DEF CustodyInv, SourcesInv, SourceOK, MeasuredByPolicy
<1> QED BY <1>1, CustodyInvariance, PTL

(* A source an opener read under a hash policy has a digest, or the reason  *)
(* it has none, whichever of several calls registered it first.             *)
THEOREM OpenedIsHashed == Spec => []HashedOrExplained
<1>1. CustodyInv => HashedOrExplained
  BY Zenon DEF CustodyInv, SourcesInv, SourceOK, Explained, HashedOrExplained
<1> QED BY <1>1, CustodyInvariance, PTL

(* case_verify is honest about every source of its report.                  *)
THEOREM VerdictsAreHonest == Spec => []VerdictHonest
<1>1. CustodyInv => VerdictHonest
  BY DEF CustodyInv
<1> QED BY <1>1, CustodyInvariance, PTL

=============================================================================
