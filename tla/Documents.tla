----------------------------- MODULE Documents ------------------------------
(***************************************************************************)
(* How the language server keeps one file in step with the editor and with *)
(* the disk: lsp/internal/workspace/store.go, the notification handlers of *)
(* lsp/internal/server/server.go, the scan of workspace_scan.go and the    *)
(* files of sema/workspace.go.  Notifications are handled one after the    *)
(* other on the reader goroutine; the scan of the workspace runs beside    *)
(* it.  Each goroutine has a list of index operations still to run, and    *)
(* every operation is one critical section.                                *)
(*                                                                         *)
(* A text is a number.  An incremental change says which text it was made  *)
(* in, and made in any other gives Garbled.  The editor may spell the URI  *)
(* of the file differently from the scan.                                  *)
(***************************************************************************)
EXTENDS Integers, Sequences

CONSTANTS
  MaxTexts,   (* texts the editor and the disk may go through              *)
  MaxInbox    (* notifications on their way                                *)

ASSUME DocumentsAssumption == MaxTexts \in Nat /\ MaxInbox \in Nat \ {0}

None    == -1
Garbled == -2
DiskUri == "scan"
Uris    == {DiskUri, "editor"}
Nobody  == [uri |-> "", text |-> None]
NoDoc   == [open |-> FALSE, ver |-> 0, text |-> None, desynced |-> FALSE]

VARIABLES
  spelling,   (* the URI the editor uses for the file                       *)
  client,     (* the editor's copy: open, version and text                  *)
  disk,       (* the saved text, or None                                    *)
  inbox,      (* notifications sent and not handled                         *)
  fresh,      (* the next unused text                                       *)
  doc,        (* Store.docs                                                 *)
  snap,       (* Server.snapshots                                           *)
  noticed,    (* Server.desyncNoticed                                       *)
  shown,      (* the text whose diagnostics the editor shows, or None       *)
  scanned,    (* Server.scanned: the URI of the disk copy, or ""            *)
  symbols,    (* SymbolIndex.docs                                           *)
  facts,      (* Workspace.facts: who filed the module, and from which text *)
  byURI,      (* Workspace.byURI                                            *)
  work,       (* per goroutine, the index operations left                   *)
  seen,       (* history: the editor's text after what was handled          *)
  raced,      (* history: see Decides                                       *)
  skipped     (* history: see Attempts                                      *)

editor == <<spelling, client, fresh>>
index  == <<scanned, symbols, facts, byURI>>
store  == <<doc, snap, noticed, shown>>
vars   == <<editor, disk, inbox, store, index, work, seen, raced, skipped>>

Op(do, uri, text) == [do |-> do, uri |-> uri, text |-> text]
fromDisk(forget)  == Op(IF forget THEN "checkOrForget" ELSE "check", DiskUri, None)

Init ==
  /\ spelling \in Uris
  /\ client = [open |-> FALSE, ver |-> 0, text |-> None]
  /\ disk \in {None, 0} /\ fresh = 1 /\ inbox = <<>>
  /\ doc = NoDoc /\ snap = None /\ noticed = FALSE /\ shown = None
  /\ scanned = "" /\ symbols = [u \in Uris |-> None] /\ facts = Nobody /\ byURI = {}
  /\ work = [reader |-> <<>>, scan |-> <<fromDisk(FALSE)>>]
  /\ seen = None /\ raced = FALSE /\ skipped = FALSE

-----------------------------------------------------------------------------
(* The editor and the disk *)

Send(msg)   == Len(inbox) < MaxInbox /\ inbox' = Append(inbox, msg)
watched(kind) == [kind |-> kind, ver |-> 0, changes |-> <<>>, text |-> None]

ClientOpen ==
  /\ ~client.open /\ fresh <= MaxTexts
  /\ LET text == IF disk # None THEN disk ELSE fresh IN
     /\ client' = [open |-> TRUE, ver |-> 1, text |-> text]
     /\ Send([kind |-> "open", ver |-> 1, changes |-> <<>>, text |-> text])
  /\ fresh' = IF disk # None THEN fresh ELSE fresh + 1
  /\ UNCHANGED <<spelling, disk, store, index, work, seen, raced, skipped>>

(* One didChange with one or two changes, each the whole text or a range    *)
(* that the server can or cannot make sense of.                             *)
Kinds == {"whole", "range", "unusable"}
Change(k, from, to) == [kind |-> k, from |-> from, to |-> to]

ClientEdit ==
  /\ client.open
  /\ \E kinds \in {<<k>> : k \in Kinds} \cup (Kinds \X Kinds) :
       LET n     == Len(kinds)
           at(i) == IF i = 0 THEN client.text ELSE fresh + i - 1
       IN  /\ fresh + n <= MaxTexts + 1
           /\ fresh' = fresh + n
           /\ client' = [client EXCEPT !.ver = @ + 1, !.text = at(n)]
           /\ Send([kind |-> "change", ver |-> client.ver + 1, text |-> at(n),
                    changes |-> [i \in 1..n |-> Change(kinds[i], at(i - 1), at(i))]])
  /\ UNCHANGED <<spelling, disk, store, index, work, seen, raced, skipped>>

ClientClose ==
  /\ client.open
  /\ client' = [client EXCEPT !.open = FALSE]
  /\ Send([kind |-> "close", ver |-> 0, changes |-> <<>>, text |-> None])
  /\ UNCHANGED <<spelling, fresh, disk, store, index, work, seen, raced, skipped>>

(* Saved by the editor, or written by another program.                      *)
DiskWrite ==
  /\ \/ client.open /\ disk # client.text /\ disk' = client.text /\ fresh' = fresh
     \/ fresh <= MaxTexts /\ disk' = fresh /\ fresh' = fresh + 1
  /\ Send(watched("written"))
  /\ UNCHANGED <<spelling, client, store, index, work, seen, raced, skipped>>

DiskDelete ==
  /\ disk # None /\ disk' = None
  /\ Send(watched("deleted"))
  /\ UNCHANGED <<editor, store, index, work, seen, raced, skipped>>

-----------------------------------------------------------------------------
(* Store.Update *)

(* The changes applied in order: the text and whether it is the editor's, a *)
(* refusal, or a refusal that puts the document out of step.                *)
applyChange(text, c) == IF c.from = text THEN c.to ELSE Garbled

Outcome(text, desynced, refused) == [text |-> text, desynced |-> desynced, refused |-> refused]

ApplyOne(before, c) ==
  IF before.refused THEN before
  ELSE IF c.kind = "whole" THEN Outcome(c.to, FALSE, FALSE)
  ELSE IF before.desynced \/ c.kind = "unusable" THEN Outcome(before.text, TRUE, TRUE)
  ELSE Outcome(applyChange(before.text, c), FALSE, FALSE)

Applied(d, changes) ==
  LET one == ApplyOne(Outcome(d.text, d.desynced, FALSE), changes[1])
  IN  IF Len(changes) = 1 THEN one ELSE ApplyOne(one, changes[2])

(* Faulty variants of an operation carry its name and a suffix.  No         *)
(* specification uses them: they show that the properties can fail.         *)

(* A refused change still moves the version on and is then forgotten.       *)
Update_Forgets(d, msg) ==
  LET a == Applied(d, msg.changes)
  IN  [doc |-> [d EXCEPT !.ver = msg.ver, !.text = IF a.refused THEN @ ELSE a.text],
       refused |-> a.refused]

(* A refusal leaves text and version, and marks the document.               *)
Update(d, msg) ==
  LET a == Applied(d, msg.changes)
  IN  [doc |-> IF a.refused THEN [d EXCEPT !.desynced = TRUE]
               ELSE [open |-> TRUE, ver |-> msg.ver, text |-> a.text, desynced |-> a.desynced],
       refused |-> a.refused]

-----------------------------------------------------------------------------
(* The handlers, each up to its first index operation *)

(* A handler that files or forgets the file while the scan is between its   *)
(* check and its last filing of it.                                         *)
MidScan       == work.scan # <<>> /\ work.scan # <<fromDisk(FALSE)>>
Decides(does) == raced' = (raced \/ (does /\ MidScan))

(* A handler that has the file read again: skipped says whether an attempt  *)
(* to read the file, which exists and is not open, failed since.            *)
Attempts(does) == skipped' = (skipped /\ ~does)

Handling(kind) == work.reader = <<>> /\ inbox # <<>> /\ Head(inbox).kind = kind /\ inbox' = Tail(inbox)
Do(ops)        == work' = [work EXCEPT !.reader = ops]
File(text)     == <<Op("symbol", spelling, text), Op("sema", spelling, text)>>
Forget(uri)    == <<Op("unsymbol", uri, None), Op("unsema", uri, None)>>

(* The disk copy the scan filed stays in the indexes.                       *)
didOpen_NoEvict ==
  /\ Handling("open")
  /\ LET msg == Head(inbox) IN
     /\ doc' = [open |-> TRUE, ver |-> msg.ver, text |-> msg.text, desynced |-> FALSE]
     /\ snap' = msg.text /\ shown' = msg.text /\ noticed' = FALSE /\ seen' = msg.text
     /\ Do(File(msg.text))
  /\ Decides(TRUE)
  /\ UNCHANGED <<editor, disk, index, skipped>>

didOpen ==
  /\ Handling("open")
  /\ LET msg == Head(inbox) IN
     /\ doc' = [open |-> TRUE, ver |-> msg.ver, text |-> msg.text, desynced |-> FALSE]
     /\ snap' = msg.text /\ shown' = msg.text /\ noticed' = FALSE /\ seen' = msg.text
     /\ Do(<<Op("evict", spelling, None)>> \o File(msg.text))
  /\ Decides(TRUE)
  /\ UNCHANGED <<editor, disk, index, skipped>>

(* A refused change clears nothing that was derived from the document.      *)
didChange_KeepsOld ==
  /\ Handling("change")
  /\ LET msg == Head(inbox)
         u   == Update(doc, msg)
     IN  /\ doc' = u.doc /\ seen' = msg.text
         /\ noticed' = u.refused
         /\ IF u.refused THEN UNCHANGED <<snap, shown, work>>
            ELSE snap' = u.doc.text /\ shown' = u.doc.text /\ Do(File(u.doc.text))
  /\ UNCHANGED <<editor, disk, index, raced, skipped>>

(* The indexes are left as they are when a change is refused.               *)
didChange_KeepsIndex ==
  /\ Handling("change")
  /\ LET msg == Head(inbox)
         u   == Update(doc, msg)
     IN  /\ doc' = u.doc /\ seen' = msg.text
         /\ noticed' = u.refused
         /\ snap' = IF u.refused THEN None ELSE u.doc.text
         /\ shown' = IF u.refused THEN None ELSE u.doc.text
         /\ Do(IF u.refused THEN <<>> ELSE File(u.doc.text))
  /\ UNCHANGED <<editor, disk, index, raced, skipped>>

(* A stale version is dropped.  A refused change takes the diagnostics and  *)
(* everything derived from the document down and tells the user, once.      *)
didChange ==
  /\ Handling("change")
  /\ LET msg == Head(inbox)
         u   == Update(doc, msg)
     IN  IF msg.ver <= doc.ver THEN UNCHANGED <<store, work, seen>>
         ELSE /\ doc' = u.doc /\ seen' = msg.text
              /\ noticed' = u.refused
              /\ snap' = IF u.refused THEN None ELSE u.doc.text
              /\ shown' = IF u.refused THEN None ELSE u.doc.text
              /\ Do(IF u.refused THEN Forget(spelling) ELSE File(u.doc.text))
  /\ UNCHANGED <<editor, disk, index, raced, skipped>>

didClose ==
  /\ Handling("close")
  /\ doc' = NoDoc /\ snap' = None /\ shown' = None /\ noticed' = FALSE /\ seen' = None
  /\ Do(<<Op("unsymbol", spelling, None), fromDisk(TRUE)>>)
  /\ Decides(TRUE) /\ Attempts(TRUE)
  /\ UNCHANGED <<editor, disk, index>>

(* didChangeWatchedFiles: a file that is open is left to the editor.        *)
fileWritten ==
  /\ Handling("written")
  /\ Do(IF doc.open THEN <<>> ELSE <<fromDisk(FALSE)>>)
  /\ Decides(~doc.open) /\ Attempts(~doc.open)
  /\ UNCHANGED <<editor, disk, store, index, seen>>

forgetDeletedFile ==
  /\ Handling("deleted")
  /\ scanned' = ""
  /\ Do(IF doc.open THEN <<>>
        ELSE Forget(spelling) \o (IF scanned \in {"", spelling} THEN <<>> ELSE Forget(scanned)))
  /\ Decides(~doc.open)
  /\ UNCHANGED <<editor, disk, store, symbols, facts, byURI, seen, skipped>>

(* didChangeConfiguration: what is analysed and in step is shown again.     *)
republishAllDiagnostics ==
  /\ work.reader = <<>> /\ doc.open /\ ~doc.desynced /\ snap # None
  /\ shown' = snap
  /\ UNCHANGED <<editor, disk, inbox, doc, snap, noticed, index, work, seen, raced, skipped>>

-----------------------------------------------------------------------------
(* Index operations; g is the goroutine *)

Next1(g)      == Head(work[g])
Is(g, do)     == work[g] # <<>> /\ Next1(g).do = do
Then(g, ops)  == work' = [work EXCEPT ![g] = ops \o Tail(@)]
Quiet         == UNCHANGED <<editor, disk, inbox, store, seen, raced>>
Files         == Quiet /\ UNCHANGED skipped

symbolUpdate(g) ==
  /\ Is(g, "symbol") \/ Is(g, "unsymbol")
  /\ symbols' = [symbols EXCEPT ![Next1(g).uri] = Next1(g).text]
  /\ Then(g, <<>>)
  /\ Files /\ UNCHANGED <<scanned, facts, byURI>>

PutFile(g) ==
  /\ Is(g, "sema")
  /\ facts' = [uri |-> Next1(g).uri, text |-> Next1(g).text]
  /\ byURI' = byURI \cup {Next1(g).uri}
  /\ Then(g, <<>>)
  /\ Files /\ UNCHANGED <<scanned, symbols>>

(* The facts go only when this URI filed them.                              *)
RemoveFile(g) ==
  /\ Is(g, "unsema")
  /\ byURI' = byURI \ {Next1(g).uri}
  /\ facts' = IF Next1(g).uri \in byURI /\ facts.uri = Next1(g).uri THEN Nobody ELSE facts
  /\ Then(g, <<>>)
  /\ Files /\ UNCHANGED <<scanned, symbols>>

(* The two spellings differ only in how they are escaped, so the workspace  *)
(* keeps one module for them.  (Under Windows a device-namespace spelling   *)
(* has a key of its own; no URI of this module is spelled that way.)        *)
ModuleKey              == [uri \in Uris |-> "module"]
forgetSplitModule(uri) == IF ModuleKey[uri] # ModuleKey[spelling] THEN <<Op("unsema", uri, None)>> ELSE <<>>

evictScannedEntryFor(g) ==
  /\ Is(g, "evict")
  /\ scanned' = ""
  /\ Then(g, IF scanned \in {"", spelling} THEN <<>>
             ELSE <<Op("unsymbol", scanned, None)>> \o forgetSplitModule(scanned))
  /\ Files /\ UNCHANGED <<symbols, facts, byURI>>

(* didClose forgets nothing.                                                *)
Skipped_Keeps(forget) == <<>>

(* indexFileFromDisk: whether the file's URI reads back to it, the stat and *)
(* the check that no editor has it, then the read, then the filing.  A file *)
(* that exists may still be skipped, as too large, unreadable or not to be  *)
(* named by a URI, and then what is filed of it stays.  didClose forgets    *)
(* the module when the file was skipped.                                    *)
Skipped(forget) == IF forget /\ ~doc.open THEN <<Op("unsema", spelling, None)>> ELSE <<>>

Skips(g, forget) ==
  Then(g, Skipped(forget)) /\ skipped' = (skipped \/ (disk # None /\ ~doc.open))

checkFile(g) ==
  \E forget \in BOOLEAN :
    /\ Is(g, fromDisk(forget).do)
    /\ \/ Skips(g, forget)
       \/ /\ disk # None /\ ~doc.open
          /\ Then(g, <<Op(IF forget THEN "readOrForget" ELSE "read", DiskUri, None)>>) /\ UNCHANGED skipped
    /\ Quiet /\ UNCHANGED index

readFile(g) ==
  \E forget \in BOOLEAN :
    /\ Is(g, IF forget THEN "readOrForget" ELSE "read")
    /\ \/ Skips(g, forget)
       \/ /\ disk # None
          /\ Then(g, <<Op("scanned", DiskUri, None), Op("symbol", DiskUri, disk), Op("sema", DiskUri, disk)>>)
          /\ UNCHANGED skipped
    /\ Quiet /\ UNCHANGED index

noteScanned(g) ==
  /\ Is(g, "scanned")
  /\ scanned' = DiskUri
  /\ Then(g, <<>>)
  /\ Files /\ UNCHANGED <<symbols, facts, byURI>>

-----------------------------------------------------------------------------
Client  == ClientOpen \/ ClientEdit \/ ClientClose \/ DiskWrite \/ DiskDelete
Handler == didOpen \/ didChange \/ didClose \/ fileWritten \/ forgetDeletedFile \/ republishAllDiagnostics
IndexOp(g) ==
  \/ symbolUpdate(g) \/ PutFile(g) \/ RemoveFile(g) \/ evictScannedEntryFor(g)
  \/ checkFile(g) \/ readFile(g) \/ noteScanned(g)

Next == Client \/ Handler \/ \E g \in {"reader", "scan"} : IndexOp(g)

Spec == Init /\ [][Next]_vars

-----------------------------------------------------------------------------
(* Properties *)

Texts == None..(MaxTexts + 1)

(* A stored document that does not say otherwise is the editor's copy as of *)
(* the last change handled: what format-on-save writes back is no other     *)
(* text.                                                                    *)
InStep == doc.open /\ ~doc.desynced => doc.text = seen

(* The editor never keeps diagnostics of a text it does not have, and the   *)
(* user has been told exactly when the document is out of step.             *)
ShownIsHeld ==
  /\ shown # None => doc.open /\ shown = seen
  /\ noticed = doc.desynced

(* What the two indexes hold of the file, and that nothing is filed twice.  *)
Holds(uri, text) ==
  /\ facts.text = text
  /\ symbols = [u \in Uris |-> IF u = uri THEN text ELSE None]

(* Nothing filed under a spelling that only the editor uses is left.        *)
BufferForgotten == spelling # DiskUri => symbols[spelling] = None /\ facts.uri # spelling

(* If no notification about the file was handled in the middle of its scan, *)
(* the indexes follow: they hold the editor's text of an open document,     *)
(* nothing of one that is out of step, nothing of a file that is gone, and  *)
(* the disk's text otherwise.  Only where an attempt to read the file was   *)
(* skipped, since a notification last had it read, may an earlier text be   *)
(* left in them, and never what a closed buffer filed.                      *)
IndexFollows ==
  ~raced /\ work.reader = <<>> /\ work.scan = <<>> =>
    IF doc.open THEN Holds(spelling, IF doc.desynced THEN None ELSE doc.text)
    ELSE /\ BufferForgotten
         /\ inbox = <<>> => Holds(DiskUri, disk) \/ (skipped /\ disk # None)

(* "Open snapshots win": the copy an editor has open is what importers see. *)
EditorWins ==
  doc.open /\ ~doc.desynced /\ work.reader = <<>> /\ work.scan = <<>> => facts.text = doc.text

(* The index is in sync with external file changes.                         *)
DiskInSync ==
  ~doc.open /\ inbox = <<>> /\ work.reader = <<>> /\ work.scan = <<>> => facts.text = disk

(* "Accepted even while desynced": a notification whose last change is the  *)
(* whole text puts a document that is out of step back in step.             *)
WholeAccepted ==
  [][didChange /\ doc.desynced /\ Head(inbox).changes[Len(Head(inbox).changes)].kind = "whole"
       => ~doc'.desynced]_vars
=============================================================================
