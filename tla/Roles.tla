------------------------------- MODULE Roles --------------------------------
(***************************************************************************)
(* The roles examiners act under in one process: case_open and ledger_open *)
(* check the role they are given against the roles the same name holds     *)
(* already (builtin/role.go), and record it later, a ledger only after its *)
(* store has been opened.  A ledger opened without a role takes the open   *)
(* case's when the case is the same examiner's.  Ledger handle numbers are *)
(* reused here; in the code they are not.  The signing key, the store and  *)
(* the marker of a ledger are left out, except that opening may fail; the  *)
(* case's session and timeline are module Custody.  A call that is refused *)
(* at once changes nothing and is left out.                                *)
(***************************************************************************)
EXTENDS Integers, FiniteSets

CONSTANTS
  Threads,
  People,    (* the examiners' names                                       *)
  Asserted,  (* the roles an examiner can assert                           *)
  MaxOps     (* calls made in all                                          *)

Handles    == 1..MaxOps
Unasserted == "unasserted"
NoOne      == "no one"
Closed     == [who |-> NoOne, role |-> Unasserted]
Idle       == [op |-> "idle", who |-> NoOne, role |-> Unasserted]

ASSUME BoundAssumption == MaxOps \in Nat
ASSUME NameAssumption == NoOne \notin People /\ Unasserted \notin Asserted

VARIABLES
  session,    (* the open case's examiner and role, or Closed              *)
  ledgers,    (* ledgerHandles: the same for each handle                   *)
  call, ops,
  overlapped  (* history: the examiners one of whose opens was recorded    *)
              (* while another was between its check and its record        *)

rolesVars == <<session, ledgers, call, ops, overlapped>>

RolesInit ==
  /\ session = Closed
  /\ ledgers = [l \in Handles |-> Closed]
  /\ call = [t \in Threads |-> Idle] /\ ops = 0
  /\ overlapped = {}

In(t, op)   == call[t].op = op
Begin(t)    == In(t, "idle") /\ ops < MaxOps /\ ops' = ops + 1
Return(t)   == call' = [call EXCEPT ![t] = Idle]
Goto(t, op) == call' = [call EXCEPT ![t].op = op]
Opening(t)  == [who |-> call[t].who, role |-> call[t].role]

(* History, as thread t records what it opened.                             *)
Recorded(t) ==
  overlapped' = IF \E u \in Threads \ {t} : call[u].who = call[t].who
                THEN overlapped \cup {call[t].who} ELSE overlapped

(* Two roles one examiner cannot act under at once.                         *)
Clash(held, who, role) ==
  /\ held.who = who
  /\ held.role # Unasserted /\ role # Unasserted /\ held.role # role

-----------------------------------------------------------------------------
(* roleConflict: the case under the read lock, then the ledger handles *)

(* Faulty variants of an operation carry its name and a suffix.  No         *)
(* specification uses them: they show that the properties can fail.         *)

(* Only the ledgers are looked at.                                          *)
ConflictWithCase_Skipped(t, next, who, role) ==
  /\ Begin(t)
  /\ call' = [call EXCEPT ![t] = [op |-> next, who |-> who, role |-> role]]
  /\ UNCHANGED <<session, ledgers, overlapped>>

ConflictWithCase(t, next, who, role) ==
  /\ Begin(t)
  /\ ~Clash(session, who, role)
  /\ call' = [call EXCEPT ![t] = [op |-> next, who |-> who, role |-> role]]
  /\ UNCHANGED <<session, ledgers, overlapped>>

ConflictWithLedger(t, next) ==
  /\ IF \E l \in Handles : Clash(ledgers[l], call[t].who, call[t].role) THEN Return(t) ELSE Goto(t, next)
  /\ UNCHANGED <<session, ledgers, ops, overlapped>>

-----------------------------------------------------------------------------
CaseOpenAs(t, who, role) == ConflictWithCase(t, "caseCheck", who, role)

CaseCheck(t) == In(t, "caseCheck") /\ ConflictWithLedger(t, "caseStore")

(* A case still open refuses.                                               *)
CaseStore(t) ==
  /\ In(t, "caseStore")
  /\ IF session # Closed THEN UNCHANGED <<session, overlapped>>
     ELSE session' = Opening(t) /\ Recorded(t)
  /\ Return(t)
  /\ UNCHANGED <<ledgers, ops>>

CaseClose(t) ==
  /\ Begin(t) /\ session # Closed
  /\ session' = Closed
  /\ UNCHANGED <<ledgers, call, overlapped>>

LedgerOpenAs(t, who, role) == ConflictWithCase(t, "ledgerCheck", who, role)

LedgerCheck(t) == In(t, "ledgerCheck") /\ ConflictWithLedger(t, "ledgerRole")

(* A role that was not given is the open case's, when it is this examiner's.*)
ledgerRoleFor(t) ==
  /\ In(t, "ledgerRole")
  /\ LET takes == call[t].role = Unasserted /\ session.who = call[t].who
         role == IF takes THEN session.role ELSE call[t].role
     IN call' = [call EXCEPT ![t] = [op |-> "ledgerStore", who |-> call[t].who, role |-> role]]
  /\ UNCHANGED <<session, ledgers, ops, overlapped>>

(* The store does not open, or an auditor's directory is no ledger yet.     *)
LedgerFails(t) ==
  /\ In(t, "ledgerStore")
  /\ Return(t)
  /\ UNCHANGED <<session, ledgers, ops, overlapped>>

LedgerStore(t, l) ==
  /\ In(t, "ledgerStore") /\ ledgers[l] = Closed
  /\ \A k \in Handles : ledgers[k] = Closed => l <= k
  /\ ledgers' = [ledgers EXCEPT ![l] = Opening(t)]
  /\ Recorded(t)
  /\ Return(t)
  /\ UNCHANGED <<session, ops>>

LedgerHandleClose(t, l) ==
  /\ Begin(t) /\ ledgers[l] # Closed
  /\ ledgers' = [ledgers EXCEPT ![l] = Closed]
  /\ UNCHANGED <<session, call, overlapped>>

Step(t) ==
  \/ \E who \in People, role \in Asserted \cup {Unasserted} : CaseOpenAs(t, who, role) \/ LedgerOpenAs(t, who, role)
  \/ CaseCheck(t) \/ CaseStore(t) \/ CaseClose(t)
  \/ LedgerCheck(t) \/ ledgerRoleFor(t) \/ LedgerFails(t)
  \/ \E l \in Handles : LedgerStore(t, l) \/ LedgerHandleClose(t, l)

RolesNext == \E t \in Threads : Step(t)

RolesSpec == RolesInit /\ [][RolesNext]_rolesVars

-----------------------------------------------------------------------------
Ops == {"idle", "caseCheck", "caseStore", "ledgerCheck", "ledgerRole", "ledgerStore"}
Held == [who : People \cup {NoOne}, role : Asserted \cup {Unasserted}]

(* Types: nothing is held, or being opened, in no one's name.               *)
RolesTypeOK ==
  /\ session \in Held /\ ledgers \in [Handles -> Held] /\ overlapped \subseteq People
  /\ ops \in 0..MaxOps
  /\ call \in [Threads -> [op : Ops, who : People \cup {NoOne}, role : Asserted \cup {Unasserted}]]
  /\ session.who = NoOne => session = Closed
  /\ \A l \in Handles : ledgers[l].who = NoOne => ledgers[l] = Closed
  /\ \A t \in Threads : /\ call[t].who = NoOne <=> call[t] = Idle
                        /\ In(t, "idle") => call[t] = Idle

(* What one examiner holds open names one role.                             *)
Agree(who) ==
  /\ \A l \in Handles : session.who = who => ~Clash(ledgers[l], who, session.role)
  /\ \A k, l \in Handles : ledgers[k].who = who => ~Clash(ledgers[l], who, ledgers[k].role)

(* One examiner has one role at a time: the case and every ledger they have *)
(* open in the process, and that name a role, name the same one.            *)
OneRole == \A who \in People : Agree(who)

(* The same, for every examiner whose opens have never overlapped, whoever  *)
(* else opens and closes in between, and whether the role was given or      *)
(* taken from the case.                                                     *)
OneRoleInTurn == \A who \in People \ overlapped : Agree(who)

(* Why it holds: what an examiner is opening, when no other open of theirs  *)
(* was recorded since, still agrees with all that was looked at so far.     *)
ChecksStand ==
  \A t \in Threads :
    call[t].who \in People \ overlapped =>
      /\ ~Clash(session, call[t].who, call[t].role)
      /\ call[t].op \in {"caseStore", "ledgerRole", "ledgerStore"} =>
           \A l \in Handles : ~Clash(ledgers[l], call[t].who, call[t].role)

RolesInv == RolesTypeOK /\ OneRoleInTurn /\ ChecksStand

=============================================================================
