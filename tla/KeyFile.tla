------------------------------ MODULE KeyFile -------------------------------
(***************************************************************************)
(* The key file of one case, its copy while a generation is erased, and    *)
(* the builtins that create, open, rotate and erase it                     *)
(* (builtin/case_key.go, the file part of builtin/case_erasure.go, and     *)
(* CaseKeyFile in security/record_crypto.go).                              *)
(*                                                                         *)
(* Every process runs one call at a time.  Nothing locks the key file: a   *)
(* rotation reads it, asks for passphrases and renames a new file over it; *)
(* an erasure holds the custody lock and the ledger's, which exclude only  *)
(* other erasures.  A write is in memory until it is synced, and a power   *)
(* loss leaves what was synced, what was written, or a torn file.  Names   *)
(* in the directory (a rename, a removal) survive a power loss.            *)
(*                                                                         *)
(* The file's MAC stands for its contents, which never recur: every        *)
(* rotation brings a new case key or a new passphrase (and salt).  The     *)
(* passphrase given is the file's, or the call is refused.  Of an erasure, *)
(* the case's state, holds and records are module CaseLedger's; the open   *)
(* record handles that refuse one are left out.                            *)
(***************************************************************************)
EXTENDS Integers, Sequences

CONSTANTS
  Processes,
  MaxKeys,    (* case keys minted in all                                   *)
  MaxPhrases  (* passphrases chosen in all                                 *)

Nobody == "nobody"

ASSUME BoundsAssumption == MaxKeys \in Nat /\ MaxPhrases \in Nat
ASSUME NobodyAssumption == Nobody \notin Processes

(* What a key file holds: a document is the case key of each generation, 0 *)
(* for an erased one, the generation sealed under now, and its passphrase. *)
Content(kind, gens, current, phrase) ==
  [kind |-> kind, gens |-> gens, current |-> current, phrase |-> phrase]
Blank(kind)  == Content(kind, <<>>, 0, 0)
Nothing      == Blank("nothing")  (* no file                                *)
Empty        == Blank("empty")    (* the placeholder case_key_create claims *)
Torn         == Blank("torn")     (* partly overwritten with a new document *)
Zeros        == Blank("zeros")    (* overwritten, or partly, with zeros     *)

VARIABLES
  path, copy,      (* the key file and path + ".erasing" as a reader sees   *)
  pathSaved,       (* them, and as a power loss leaves them if it loses     *)
  copySaved,       (* every write not synced                                *)
  pc,              (* where each process's call is                          *)
  base, next,      (* the document a call read and the one it writes        *)
  gen,             (* the generation an erasure takes, 0 for every one      *)
  creating,        (* the processes whose call is case_key_create           *)
  linked,          (* the processes whose open file is still path's         *)
  synced,          (* the processes whose temporary file is synced          *)
  lock,            (* the process erasing, under both locks, or Nobody      *)
  keys, phrases,   (* how many case keys and passphrases there have been    *)
  held,            (* session.caseKey: the key a process has open, or 0     *)
  sealed,          (* the case keys records have been sealed under          *)
  doomed,          (* the keys an erasure has begun to overwrite            *)
  erased,          (* the keys the ledger says were erased                  *)
  allErased,       (* ... the last time with every generation               *)
  overlap          (* history: two calls that write the file overlapped     *)

files == <<path, copy, pathSaved, copySaved>>
calls == <<pc, base, next, gen, creating, linked, synced>>
facts == <<held, sealed, doomed, erased, allErased>>
vars  == <<files, calls, lock, keys, phrases, facts, overlap>>

Init ==
  /\ path = Nothing /\ pathSaved = Nothing
  /\ copy = Nothing /\ copySaved = Nothing
  /\ pc = [p \in Processes |-> "idle"]
  /\ base = [p \in Processes |-> Nothing]
  /\ next = [p \in Processes |-> Nothing]
  /\ gen = [p \in Processes |-> 0]
  /\ creating = {} /\ linked = {} /\ synced = {}
  /\ lock = Nobody /\ keys = 0 /\ phrases = 0
  /\ held = [p \in Processes |-> 0]
  /\ sealed = {} /\ doomed = {} /\ erased = {} /\ allErased = FALSE
  /\ overlap = FALSE

(***************************************************************************)
(* The document (security.CaseKeyFile).                                    *)
(***************************************************************************)
IsDocument(c) == c.kind = "document"
KeysOf(c)     == {c.gens[g] : g \in DOMAIN c.gens} \ {0}

(* Erased *)
Erased(c, g) == c.gens[g] = 0

NewCaseKeyFile == Content("document", <<keys + 1>>, 1, phrases + 1)

(* The passphrase changes, every case key stays, an erased one stays erased *)
RotatePassphrase(c) == Content("document", c.gens, c.current, phrases + 1)

(* Faulty variants of an operation carry its name and a suffix.  No         *)
(* specification uses them: they show that the properties can fail.  This   *)
(* one puts the fresh key in the current generation's place.                *)
RotateCaseKey_InPlace(c) ==
  Content("document", [c.gens EXCEPT ![c.current] = keys + 1], c.current, c.phrase)

(* A fresh key is the next generation and the current one.                  *)
RotateCaseKey(c) ==
  Content("document", Append(c.gens, keys + 1), Len(c.gens) + 1, c.phrase)

EraseGeneration(c, g) ==
  Content("document", [c.gens EXCEPT ![g] = 0], c.current, c.phrase)

(***************************************************************************)
(* Steps of a call.                                                        *)
(***************************************************************************)
At(p, l) == pc[p] = l
Go(p, l) == pc' = [pc EXCEPT ![p] = l]

(* A call that writes the file begins.                                      *)
Begin(p, l, c, g) ==
  /\ At(p, "idle") /\ Go(p, l)
  /\ base' = [base EXCEPT ![p] = c]
  /\ gen' = [gen EXCEPT ![p] = g]
  /\ overlap' = (overlap \/ \E q \in Processes : ~At(q, "idle"))
  /\ UNCHANGED <<linked, synced>>

(* The call of process p is over, and so is what it had locked.             *)
Finish(p) ==
  /\ Go(p, "idle")
  /\ base' = [base EXCEPT ![p] = Nothing]
  /\ next' = [next EXCEPT ![p] = Nothing]
  /\ gen' = [gen EXCEPT ![p] = 0]
  /\ creating' = creating \ {p} /\ synced' = synced \ {p}
  /\ lock' = IF lock = p THEN Nobody ELSE lock
Return(p) == Finish(p) /\ linked' = linked \ {p}

(* claimKeyFilePath: the path must not exist, and is claimed.  A file       *)
(* created where an erasure removed one has a new case uid: it is another   *)
(* case's, and not followed.                                                *)
CreateClaim(p) ==
  /\ path = Nothing /\ doomed = {}
  /\ path' = Empty /\ pathSaved' = Empty
  /\ Begin(p, "claimed", Nothing, 0) /\ creating' = creating \cup {p}
  /\ UNCHANGED <<copy, copySaved, next, lock, keys, phrases, facts>>

(* The passphrase is refused, or the document cannot be made: the claim is  *)
(* removed.                                                                 *)
CreateRefused(p) ==
  /\ At(p, "claimed")
  /\ path' = Nothing /\ pathSaved' = Nothing /\ linked' = {}
  /\ Finish(p)
  /\ UNCHANGED <<copy, copySaved, keys, phrases,
                 facts, overlap>>

(* The document is made and written to a temporary file.                    *)
CreateWrite(p) ==
  /\ At(p, "claimed") /\ keys < MaxKeys /\ phrases < MaxPhrases
  /\ next' = [next EXCEPT ![p] = NewCaseKeyFile]
  /\ keys' = keys + 1 /\ phrases' = phrases + 1
  /\ Go(p, "written")
  /\ UNCHANGED <<files, base, gen, creating, linked, synced, lock, facts, overlap>>

(* readKeyFile: a rotation reads the file, with no lock.                    *)
RotateRead(p) ==
  /\ IsDocument(path)
  /\ Begin(p, "read", path, 0)
  /\ UNCHANGED <<files, next, creating, lock, keys, phrases, facts>>

RotateRefused(p) ==
  /\ At(p, "read") /\ Return(p)
  /\ UNCHANGED <<files, keys, phrases, facts, overlap>>

(* The new document, in either mode, is written to a temporary file.        *)
RotateWrite(p) ==
  /\ At(p, "read") /\ Go(p, "written")
  /\ \/ /\ phrases < MaxPhrases /\ phrases' = phrases + 1
        /\ next' = [next EXCEPT ![p] = RotatePassphrase(base[p])]
        /\ UNCHANGED keys
     \/ /\ keys < MaxKeys /\ keys' = keys + 1
        /\ next' = [next EXCEPT ![p] = RotateCaseKey(base[p])]
        /\ UNCHANGED phrases
  /\ UNCHANGED <<files, base, gen, creating, linked, synced, lock, facts, overlap>>

(* temp.Sync                                                                *)
TempSync(p) ==
  /\ At(p, "written") /\ Go(p, "synced") /\ synced' = synced \cup {p}
  /\ UNCHANGED <<files, base, next, gen, creating, linked, lock, keys, phrases,
                 facts, overlap>>

(* Writing, syncing or renaming the temporary file fails: it is removed,    *)
(* and so is a claim.                                                       *)
TempFails(p) ==
  /\ pc[p] \in {"written", "synced"}
  /\ Finish(p)
  /\ \/ p \in creating /\ path' = Nothing /\ pathSaved' = Nothing /\ linked' = {}
     \/ p \notin creating /\ UNCHANGED <<path, pathSaved, linked>>
  /\ UNCHANGED <<copy, copySaved, keys, phrases,
                 facts, overlap>>

(* os.Rename: the temporary file replaces whatever is at the path.  A file  *)
(* another process has open is not the path's any more.                     *)
Rename(p) ==
  /\ At(p, "synced")
  /\ path' = next[p]
  /\ pathSaved' = IF p \in synced THEN next[p] ELSE Torn
  /\ linked' = {}
  /\ Finish(p)
  /\ UNCHANGED <<copy, copySaved, keys, phrases, facts, overlap>>

(***************************************************************************)
(* case_key_erase                                                          *)
(***************************************************************************)
(* The file is read, and the erasure of one generation prepared: not the    *)
(* current one, not an erased one, not with an interrupted erasure's copy   *)
(* there, and the new document made under the passphrase.                   *)
EraseRead(p, g) ==
  /\ IsDocument(path)
  /\ g # 0 => /\ g \in DOMAIN path.gens /\ g # path.current /\ ~Erased(path, g)
              /\ copy = Nothing
  /\ Begin(p, "prepared", path, g)
  /\ next' = [next EXCEPT ![p] = IF g = 0 THEN Nothing ELSE EraseGeneration(path, g)]
  /\ UNCHANGED <<files, creating, lock, keys, phrases, facts>>

(* The locks are taken: the file must still be the version that was read,   *)
(* and the key not erased already.  A copy that has appeared is an error.   *)
EraseLock(p) ==
  /\ At(p, "prepared") /\ lock = Nobody
  /\ \/ /\ path = base[p] /\ ~allErased /\ (gen[p] # 0 => copy = Nothing)
        /\ lock' = p /\ UNCHANGED <<base, next, gen, creating, linked, synced>>
        /\ Go(p, IF gen[p] = 0 THEN "destroying" ELSE "copying")
     \/ /\ path # base[p] \/ allErased \/ (gen[p] # 0 /\ copy # Nothing)
        /\ Return(p)
  /\ UNCHANGED <<files, keys, phrases, facts, overlap>>

(* caseKeyFileRewrite: the new document is written beside the file ...      *)
CopyWrite(p) ==
  /\ At(p, "copying") /\ copy = Nothing
  /\ copy' = next[p] /\ copySaved' = Torn
  /\ Go(p, "copied")
  /\ UNCHANGED <<path, pathSaved, base, next, gen, creating, linked, synced, lock,
                 keys, phrases, facts, overlap>>

(* This one never syncs the copy.                                           *)
CopySync_Skipped(p) ==
  /\ At(p, "copied") /\ Go(p, "overwriting")
  /\ UNCHANGED <<files, base, next, gen, creating, linked, synced, lock, keys,
                 phrases, facts, overlap>>

CopySync(p) ==
  /\ At(p, "copied") /\ copySaved' = copy
  /\ Go(p, "overwriting")
  /\ UNCHANGED <<path, copy, pathSaved, base, next, gen, creating, linked, synced,
                 lock, keys, phrases, facts, overlap>>

(* ... or cannot be, and what there is of it is removed.                    *)
CopyFails(p) ==
  /\ At(p, "copied")
  /\ copy' = Nothing /\ copySaved' = Nothing
  /\ Return(p)
  /\ UNCHANGED <<path, pathSaved, keys, phrases,
                 facts, overlap>>

(* The keys the erasure of process p takes.                                 *)
Taken(p) == IF gen[p] = 0 THEN KeysOf(base[p]) ELSE {base[p].gens[gen[p]]}

(* caseKeyOverwrite, caseKeyFileDestroy: the file at the path is opened and *)
(* overwritten, which a reader or a power loss sees half done.              *)
Overwrite(p) ==
  /\ pc[p] \in {"overwriting", "destroying"} /\ path # Nothing
  /\ path' = IF gen[p] = 0 THEN Zeros ELSE Torn
  /\ linked' = linked \cup {p}
  /\ doomed' = doomed \cup Taken(p)
  /\ Go(p, IF gen[p] = 0 THEN "zeroed" ELSE "half")
  /\ UNCHANGED <<copy, pathSaved, copySaved, base, next, gen, creating, synced, lock,
                 keys, phrases, held, sealed, erased, allErased, overlap>>

OverwriteEnds(p) ==
  /\ At(p, "half")
  /\ path' = IF p \in linked THEN next[p] ELSE path
  /\ Go(p, "whole")
  /\ UNCHANGED <<copy, pathSaved, copySaved, base, next, gen, creating, linked, synced,
                 lock, keys, phrases, facts, overlap>>

(* This one does not sync the file.                                         *)
PathSync_Skipped(p) ==
  /\ pc[p] \in {"whole", "zeroed"}
  /\ Go(p, IF gen[p] = 0 THEN "removing" ELSE "tidying")
  /\ UNCHANGED <<files, base, next, gen, creating, linked, synced, lock, keys, phrases,
                 facts, overlap>>

(* file.Sync                                                                *)
PathSync(p) ==
  /\ pc[p] \in {"whole", "zeroed"}
  /\ pathSaved' = IF p \in linked THEN path ELSE pathSaved
  /\ Go(p, IF gen[p] = 0 THEN "removing" ELSE "tidying")
  /\ UNCHANGED <<path, copy, copySaved, base, next, gen, creating, linked, synced,
                 lock, keys, phrases, facts, overlap>>

(* Opening, writing or syncing the file fails: it stays as it is, with the  *)
(* copy beside it.                                                          *)
OverwriteFails(p) ==
  /\ pc[p] \in {"overwriting", "destroying", "half", "whole", "zeroed", "removing"}
  /\ Return(p)
  /\ UNCHANGED <<files, keys, phrases, facts, overlap>>

(* os.Remove(path), at the end of caseKeyFileDestroy.                       *)
Remove(p) ==
  /\ At(p, "removing")
  /\ path' = Nothing /\ pathSaved' = Nothing /\ linked' = {}
  /\ Go(p, "recording")
  /\ UNCHANGED <<copy, copySaved, base, next, gen, creating, synced, lock, keys,
                 phrases, facts, overlap>>

(* os.Remove(pending) and rewrite.check: the file must read back with the   *)
(* one generation erased and every other as it was, under its passphrase.   *)
CheckRewrite(p) ==
  /\ At(p, "tidying")
  /\ copy' = Nothing /\ copySaved' = Nothing
  /\ \/ /\ path = next[p] /\ Go(p, "recording")
        /\ UNCHANGED <<base, next, gen, creating, linked, synced, lock>>
     \/ path # next[p] /\ Return(p)
  /\ UNCHANGED <<path, pathSaved, keys, phrases,
                 facts, overlap>>

(* eraseKeyLocked: the key this process has open is zeroed when it is the   *)
(* one erased.                                                              *)
EraseKey(p) == held' = [held EXCEPT ![p] = IF @ \in Taken(p) \/ gen[p] = 0 THEN 0 ELSE @]

(* The erasure is committed to the ledger ...                               *)
Commit(p) ==
  /\ At(p, "recording")
  /\ erased' = erased \cup Taken(p) /\ allErased' = (gen[p] = 0)
  /\ EraseKey(p) /\ Return(p)
  /\ UNCHANGED <<files, keys, phrases, sealed, doomed,
                 overlap>>

(* ... or the commit fails, and only the case's timeline says so.           *)
CommitFails(p) ==
  /\ At(p, "recording")
  /\ EraseKey(p) /\ Return(p)
  /\ UNCHANGED <<files, keys, phrases, sealed, doomed,
                 erased, allErased, overlap>>

(***************************************************************************)
(* Opening the key and sealing under it.                                   *)
(***************************************************************************)
KeyOpen(p, g) ==
  /\ At(p, "idle") /\ held[p] = 0
  /\ IsDocument(path) /\ g \in DOMAIN path.gens /\ ~Erased(path, g)
  /\ held' = [held EXCEPT ![p] = path.gens[g]]
  /\ UNCHANGED <<files, calls, lock, keys, phrases, sealed, doomed, erased, allErased,
                 overlap>>

(* record_seal, as far as the key it seals under.                           *)
Seal(p) ==
  /\ At(p, "idle") /\ held[p] # 0
  /\ sealed' = sealed \cup {held[p]}
  /\ UNCHANGED <<files, calls, lock, keys, phrases, held, doomed, erased, allErased,
                 overlap>>

(***************************************************************************)
(* Faults, and the examiner who follows caseKeyErasePrepare's message.     *)
(***************************************************************************)
(* A process dies: its locks go with it, what it wrote stays.               *)
ProcessDies(p) ==
  /\ ~At(p, "idle") \/ held[p] # 0
  /\ held' = [held EXCEPT ![p] = 0]
  /\ Return(p)
  /\ UNCHANGED <<files, keys, phrases, sealed, doomed,
                 erased, allErased, overlap>>

(* What a power loss can leave of a file.                                   *)
Outcomes(now, saved) == IF now = saved THEN {saved}
                        ELSE {saved, now, IF now.kind = "zeros" THEN Zeros ELSE Torn}

PowerLoss ==
  /\ \E c \in Outcomes(path, pathSaved) : path' = c /\ pathSaved' = c
  /\ \E c \in Outcomes(copy, copySaved) : copy' = c /\ copySaved' = c
  /\ pc' = [p \in Processes |-> "idle"]
  /\ base' = [p \in Processes |-> Nothing]
  /\ next' = [p \in Processes |-> Nothing]
  /\ gen' = [p \in Processes |-> 0]
  /\ creating' = {} /\ linked' = {} /\ synced' = {} /\ lock' = Nobody
  /\ held' = [p \in Processes |-> 0]
  /\ UNCHANGED <<keys, phrases, sealed, doomed, erased,
                 allErased, overlap>>

(* In time the system writes back what was not synced.                      *)
WriteBack ==
  /\ path # pathSaved \/ copy # copySaved
  /\ pathSaved' = path /\ copySaved' = copy
  /\ UNCHANGED <<path, copy, calls, lock, keys, phrases, facts, overlap>>

(* "Compare the two, keep the one that opens, and remove the copy."  The    *)
(* examiner compares files that have reached the disk.                      *)
Repair ==
  /\ lock = Nobody /\ copy # Nothing /\ path # Nothing
  /\ path = pathSaved /\ copy = copySaved
  /\ \/ IsDocument(path) /\ UNCHANGED <<path, pathSaved>>
     \/ path.kind = "torn" /\ path' = copy /\ pathSaved' = copy
  /\ copy' = Nothing /\ copySaved' = Nothing /\ linked' = {}
  /\ UNCHANGED <<pc, base, next, gen, creating, synced, lock, keys, phrases, facts,
                 overlap>>

Create(p) == CreateClaim(p) \/ CreateRefused(p) \/ CreateWrite(p)
Rotate(p) == RotateRead(p) \/ RotateRefused(p) \/ RotateWrite(p)
Write(p)  == TempSync(p) \/ TempFails(p) \/ Rename(p)
Erase(p)  ==
  \/ \E g \in 0..MaxKeys : EraseRead(p, g)
  \/ EraseLock(p)
  \/ CopyWrite(p) \/ CopySync(p) \/ CopyFails(p)
  \/ Overwrite(p) \/ OverwriteEnds(p) \/ PathSync(p) \/ OverwriteFails(p)
  \/ Remove(p) \/ CheckRewrite(p) \/ Commit(p) \/ CommitFails(p)
Use(p)    == (\E g \in 1..MaxKeys : KeyOpen(p, g)) \/ Seal(p)

Next ==
  \/ \E p \in Processes : Create(p) \/ Rotate(p) \/ Write(p) \/ Erase(p) \/ Use(p)
                          \/ ProcessDies(p)
  \/ PowerLoss \/ WriteBack \/ Repair

Spec == Init /\ [][Next]_vars

(***************************************************************************)
(* Properties.                                                             *)
(***************************************************************************)
(* A key file is torn only with the whole new document beside it: whatever  *)
(* processes do at once, and whenever one of them or the power fails, the   *)
(* case key can be got back.  "A torn key file costs the case."             *)
TornHasCopy == path.kind = "torn" => IsDocument(copy)

(* While no two calls that write the key file overlap, a case key a record  *)
(* was sealed under can always be opened, from the file or from the copy    *)
(* beside it, unless an erasure took it: "A record sealed before this call  *)
(* still opens ... earlier generations are kept."                           *)
SealedStillOpens ==
  ~overlap => sealed \subseteq doomed \cup KeysOf(path) \cup KeysOf(copy)

(* While no two such calls overlap, no key the ledger says was erased is in *)
(* the key file: "the ledger never says a key was erased that was not".     *)
ErasedLeavesFile == ~overlap => erased \cap KeysOf(path) = {}

(* Stated by case_key_rotate, and not kept when two calls overlap: a case   *)
(* key a record was sealed under is never lost but by an erasure.           *)
KeysAreKept == sealed \subseteq doomed \cup KeysOf(path) \cup KeysOf(copy)

(* Stated in case_erasure.go, and not kept when an interrupted erasure left *)
(* a copy: no key the ledger says was erased can be opened any more.        *)
ErasureStands == erased \cap (KeysOf(path) \cup KeysOf(copy)) = {}

(***************************************************************************)
(* The inductive invariant behind the theorem of module KeyFileProofs.     *)
(***************************************************************************)
Locked == {"copying", "copied", "overwriting", "half", "whole", "tidying",
           "destroying", "zeroed", "removing", "recording"}
Labels == {"idle", "claimed", "read", "written", "synced", "prepared"} \cup Locked

TypeInv ==
  /\ pc \in [Processes -> Labels]
  /\ DOMAIN next = Processes /\ next = [p \in Processes |-> next[p]]
  /\ gen \in [Processes -> Nat]
  /\ lock \in Processes \cup {Nobody}

(* The whole new document is beside the file, on the disk.                  *)
Covered == IsDocument(copy) /\ copySaved = copy

(* The file would survive a power loss untorn.                              *)
Sound ==
  /\ path.kind # "torn" /\ pathSaved.kind # "torn"
  /\ path = pathSaved \/ path.kind = "zeros"

(* Where each call is says who has the locks and what it writes.            *)
CallInv ==
  \A p \in Processes :
    /\ pc[p] \in Locked <=> lock = p
    /\ pc[p] = "synced" => p \in synced
    /\ pc[p] \in {"written", "synced"} => IsDocument(next[p])
    /\ pc[p] \in {"copying", "copied", "overwriting", "half", "whole", "tidying"} => gen[p] # 0
    /\ pc[p] \in {"destroying", "zeroed", "removing"} => gen[p] = 0
    /\ pc[p] \in Locked \cup {"prepared"} /\ gen[p] # 0 => IsDocument(next[p])

(* How far the rewrite of the locks' holder is says how the two files stand. *)
RewriteInv ==
  \A p \in Processes :
    /\ pc[p] \in {"copied", "overwriting", "half", "whole"} => copy = next[p]
    /\ pc[p] \in {"overwriting", "half", "whole"} => Covered
    /\ pc[p] \in {"copied", "tidying"} => Sound
    /\ pc[p] = "half" /\ p \in linked => path = Torn
    /\ pc[p] = "whole" /\ p \in linked => path = next[p]
    /\ pc[p] \in {"half", "whole"} /\ p \notin linked => Sound

KeyFileInv == TypeInv /\ CallInv /\ RewriteInv /\ (~Covered => Sound)
=============================================================================
