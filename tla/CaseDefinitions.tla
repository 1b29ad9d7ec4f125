--------------------------- MODULE CaseDefinitions --------------------------
(***************************************************************************)
(* The classes a case declares, in its runs and in its ledger              *)
(* (builtin/class.go, caseDefinitionsRead and CaseAttach in                *)
(* builtin/case_lifecycle.go).                                             *)
(*                                                                         *)
(* A run numbers a class by how many it has, and writes it to the ledger   *)
(* of an attached case before it keeps it.  A run's first attach reads the *)
(* ledger's classes into the run and refuses classes that are not numbered *)
(* in order; an attach through a second handle on the same ledger keeps    *)
(* the run's own list.  Views and role bundles are numbered, written and   *)
(* read in the same way, each kind by itself, under the one case key.      *)
(***************************************************************************)
EXTENDS Naturals, Sequences, FiniteSets

CONSTANTS
    Runs,           \* processes that work the case
    Labels,         \* class labels in canonical form
    MaxDefinitions, \* bound on the definitions the ledger takes
    Nobody          \* no run

VARIABLES
    store,          \* who has the ledger's store open
    open,           \* the runs with the case and its key open
    attached,       \* run -> "no", "live", or "closed" after its handle was
    classes,        \* run -> the classes it holds, in order
    defs            \* the ledger's class definitions, in the order written

vars == <<store, open, attached, classes, defs>>

Init ==
    /\ store = Nobody
    /\ open = {}
    /\ attached = [r \in Runs |-> "no"]
    /\ classes = [r \in Runs |-> <<>>]
    /\ defs = <<>>

\* caseDefinitionsRead, its refusals: indices run from 0 in order and no label
\* is defined twice.
Readable ==
    /\ {defs[i].index : i \in DOMAIN defs} = 0 .. Len(defs) - 1
    /\ Cardinality({defs[i].label : i \in DOMAIN defs}) = Len(defs)

\* What it returns: the classes in the order of their indices.
ReadBack ==
    [n \in 1 .. Len(defs) |-> defs[CHOOSE i \in DOMAIN defs : defs[i].index = n - 1].label]

CaseOpen(r) ==
    /\ r \notin open
    /\ open' = open \cup {r}
    /\ UNCHANGED <<store, attached, classes, defs>>

LedgerOpen(r) ==
    /\ r \in open
    /\ store = Nobody
    /\ store' = r
    /\ UNCHANGED <<open, attached, classes, defs>>

LedgerClose(r) ==
    /\ store = r
    /\ store' = Nobody
    /\ attached' = [attached EXCEPT ![r] = IF @ = "live" THEN "closed" ELSE @]
    /\ UNCHANGED <<open, classes, defs>>

\* case_attach, this run's first: only of a run that has defined nothing.
Attach(r) ==
    /\ store = r
    /\ attached[r] = "no"
    /\ classes[r] = <<>>
    /\ Readable
    /\ attached' = [attached EXCEPT ![r] = "live"]
    /\ classes' = [classes EXCEPT ![r] = ReadBack]
    /\ UNCHANGED <<store, open, defs>>

\* case_attach after the handle it was attached by was closed: the state and
\* the assignments are read again, the definitions are not.
Reattach(r) ==
    /\ store = r
    /\ attached[r] = "closed"
    /\ attached' = [attached EXCEPT ![r] = "live"]
    /\ UNCHANGED <<store, open, classes, defs>>

\* class_define of a label the run does not hold; one it holds is answered or
\* refused, and changes nothing.
ClassDefine(r, label) ==
    /\ r \in open
    /\ attached[r] # "closed"
    /\ \A i \in DOMAIN classes[r] : classes[r][i] # label
    /\ Len(defs) < MaxDefinitions
    /\ defs' = IF attached[r] = "live"
               THEN Append(defs, [label |-> label, index |-> Len(classes[r])])
               ELSE defs
    /\ classes' = [classes EXCEPT ![r] = Append(@, label)]
    /\ UNCHANGED <<store, open, attached>>

End(r) ==
    /\ r \in open
    /\ open' = open \ {r}
    /\ store' = IF store = r THEN Nobody ELSE store
    /\ attached' = [attached EXCEPT ![r] = "no"]
    /\ classes' = [classes EXCEPT ![r] = <<>>]
    /\ UNCHANGED defs

Next ==
    \E r \in Runs :
        \/ CaseOpen(r) \/ LedgerOpen(r) \/ LedgerClose(r)
        \/ Attach(r) \/ Reattach(r) \/ End(r)
        \/ \E label \in Labels : ClassDefine(r, label)

Spec == Init /\ [][Next]_vars

-----------------------------------------------------------------------------
(* What the comments say and the code does not do. *)

\* "every later one reads the case back: ... the classes and views declared
\* under the open key": a run that is attached holds the ledger's classes,
\* whichever attach it was attached by (CaseAttach).
AttachReadsBack ==
    \A r \in Runs :
        attached[r] = "live" =>
            {classes[r][i] : i \in DOMAIN classes[r]} = {defs[i].label : i \in DOMAIN defs}

\* What the program writes it can read: no class is numbered or named twice,
\* so the next run of the case can attach (recordClassLocked,
\* caseDefinitionsRead).
NumberedInOrder == Readable
=============================================================================
