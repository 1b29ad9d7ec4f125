---------------------------- MODULE KeyFileProofs ---------------------------
(***************************************************************************)
(* Proofs that a torn key file always has the whole new document beside it, *)
(* for any number of processes, keys and passphrases, whatever the order   *)
(* of their steps and wherever a process dies or the power fails; and that *)
(* while no two calls that write the file overlap, no key a record was     *)
(* sealed under is lost but by an erasure, and no erased key comes back.   *)
(***************************************************************************)
EXTENDS KeyFile, TLAPS

\* What each constant file is, and that the documents the calls make are
\* documents (security.CaseKeyFile).
LEMMA Kinds ==
    /\ Nothing.kind = "nothing" /\ Empty.kind = "empty"
    /\ Torn.kind = "torn" /\ Zeros.kind = "zeros"
    /\ IsDocument(NewCaseKeyFile)
    /\ \A c : /\ IsDocument(RotatePassphrase(c))
             /\ IsDocument(RotateCaseKey(c))
             /\ \A g : IsDocument(EraseGeneration(c, g))
BY DEF Nothing, Empty, Torn, Zeros, Blank, Content, IsDocument, NewCaseKeyFile, RotatePassphrase,
       RotateCaseKey, EraseGeneration

-----------------------------------------------------------------------------
(* Each step keeps the invariant. *)

\* case_key_create claims a path where there is nothing, so no rewrite is half done.
LEMMA CreateClaimKeeps ==
    ASSUME KeyFileInv, NEW p \in Processes, CreateClaim(p)
    PROVE  KeyFileInv'
<1>1. TypeInv'
  BY NobodyAssumption, BoundsAssumption DEF KeyFileInv, TypeInv, Labels, Locked,
       CreateClaim, facts, Begin, At, Go
<1>2. CallInv'
  BY Kinds, NobodyAssumption DEF KeyFileInv, TypeInv, CallInv, Labels, Locked, CreateClaim,
       facts, Begin, At, Go
<1>3. RewriteInv'
  BY Kinds, NobodyAssumption DEF KeyFileInv, TypeInv, CallInv, RewriteInv, Covered, Sound,
       IsDocument, Labels, Locked, CreateClaim, facts, Begin, At, Go
<1>4. (~Covered => Sound)'
  BY Kinds, NobodyAssumption DEF KeyFileInv, TypeInv, CallInv, RewriteInv, Covered, Sound,
       IsDocument, Labels, Locked, CreateClaim, facts, Begin, At, Go
<1> QED
  BY <1>1, <1>2, <1>3, <1>4 DEF KeyFileInv

\* A refused creation removes its claim.
LEMMA CreateRefusedKeeps ==
    ASSUME KeyFileInv, NEW p \in Processes, CreateRefused(p)
    PROVE  KeyFileInv'
<1>1. TypeInv'
  BY NobodyAssumption, BoundsAssumption DEF KeyFileInv, TypeInv, Labels, Locked,
       CreateRefused, facts, At, Finish, Go
<1>2. CallInv'
  BY Kinds, NobodyAssumption DEF KeyFileInv, TypeInv, CallInv, Labels, Locked,
       CreateRefused, facts, At, Finish, Go
<1>3. RewriteInv'
  BY Kinds, NobodyAssumption DEF KeyFileInv, TypeInv, CallInv, RewriteInv, Covered, Sound,
       IsDocument, Labels, Locked, CreateRefused, facts, At, Finish, Go
<1>4. (~Covered => Sound)'
  BY Kinds, NobodyAssumption DEF KeyFileInv, TypeInv, CallInv, RewriteInv, Covered, Sound,
       IsDocument, Labels, Locked, CreateRefused, facts, At, Finish, Go
<1> QED
  BY <1>1, <1>2, <1>3, <1>4 DEF KeyFileInv

\* The document of a creation is whole before it is renamed into place.
LEMMA CreateWriteKeeps ==
    ASSUME KeyFileInv, NEW p \in Processes, CreateWrite(p)
    PROVE  KeyFileInv'
<1>1. TypeInv'
  BY NobodyAssumption, BoundsAssumption DEF KeyFileInv, TypeInv, Labels, Locked,
       CreateWrite, files, facts, At, Go
<1>2. CallInv'
  BY Kinds, NobodyAssumption DEF KeyFileInv, TypeInv, CallInv, Labels, Locked, CreateWrite,
       files, facts, At, Go
<1>3. RewriteInv'
  BY Kinds, NobodyAssumption DEF KeyFileInv, TypeInv, CallInv, RewriteInv, Covered, Sound,
       IsDocument, Labels, Locked, CreateWrite, files, facts, At, Go
<1>4. (~Covered => Sound)'
  BY Kinds, NobodyAssumption DEF KeyFileInv, TypeInv, CallInv, RewriteInv, Covered, Sound,
       IsDocument, Labels, Locked, CreateWrite, files, facts, At, Go
<1> QED
  BY <1>1, <1>2, <1>3, <1>4 DEF KeyFileInv

\* case_key_rotate only reads the file.
LEMMA RotateReadKeeps ==
    ASSUME KeyFileInv, NEW p \in Processes, RotateRead(p)
    PROVE  KeyFileInv'
<1>1. TypeInv'
  BY NobodyAssumption, BoundsAssumption DEF KeyFileInv, TypeInv, Labels, Locked, RotateRead,
       files, facts, Begin, At, Go
<1>2. CallInv'
  BY Kinds, NobodyAssumption DEF KeyFileInv, TypeInv, CallInv, Labels, Locked, RotateRead,
       files, facts, Begin, At, Go
<1>3. RewriteInv'
  BY Kinds, NobodyAssumption DEF KeyFileInv, TypeInv, CallInv, RewriteInv, Covered, Sound,
       IsDocument, Labels, Locked, RotateRead, files, facts, Begin, At, Go
<1>4. (~Covered => Sound)'
  BY Kinds, NobodyAssumption DEF KeyFileInv, TypeInv, CallInv, RewriteInv, Covered, Sound,
       IsDocument, Labels, Locked, RotateRead, files, facts, Begin, At, Go
<1> QED
  BY <1>1, <1>2, <1>3, <1>4 DEF KeyFileInv

\* A refused rotation leaves the file alone.
LEMMA RotateRefusedKeeps ==
    ASSUME KeyFileInv, NEW p \in Processes, RotateRefused(p)
    PROVE  KeyFileInv'
<1>1. TypeInv'
  BY NobodyAssumption, BoundsAssumption DEF KeyFileInv, TypeInv, Labels, Locked,
       RotateRefused, files, facts, At, Return, Finish, Go
<1>2. CallInv'
  BY Kinds, NobodyAssumption DEF KeyFileInv, TypeInv, CallInv, Labels, Locked,
       RotateRefused, files, facts, At, Return, Finish, Go
<1>3. RewriteInv'
  BY Kinds, NobodyAssumption DEF KeyFileInv, TypeInv, CallInv, RewriteInv, Covered, Sound,
       IsDocument, Labels, Locked, RotateRefused, files, facts, At, Return, Finish, Go
<1>4. (~Covered => Sound)'
  BY Kinds, NobodyAssumption DEF KeyFileInv, TypeInv, CallInv, RewriteInv, Covered, Sound,
       IsDocument, Labels, Locked, RotateRefused, files, facts, At, Return, Finish, Go
<1> QED
  BY <1>1, <1>2, <1>3, <1>4 DEF KeyFileInv

\* The document of a rotation is whole before it is renamed into place.
LEMMA RotateWriteKeeps ==
    ASSUME KeyFileInv, NEW p \in Processes, RotateWrite(p)
    PROVE  KeyFileInv'
<1>1. TypeInv'
  BY NobodyAssumption, BoundsAssumption DEF KeyFileInv, TypeInv, Labels, Locked,
       RotateWrite, files, facts, At, Go
<1>2. CallInv'
  BY Kinds, NobodyAssumption DEF KeyFileInv, TypeInv, CallInv, Labels, Locked, RotateWrite,
       files, facts, At, Go
<1>3. RewriteInv'
  BY Kinds, NobodyAssumption DEF KeyFileInv, TypeInv, CallInv, RewriteInv, Covered, Sound,
       IsDocument, Labels, Locked, RotateWrite, files, facts, At, Go
<1>4. (~Covered => Sound)'
  BY Kinds, NobodyAssumption DEF KeyFileInv, TypeInv, CallInv, RewriteInv, Covered, Sound,
       IsDocument, Labels, Locked, RotateWrite, files, facts, At, Go
<1> QED
  BY <1>1, <1>2, <1>3, <1>4 DEF KeyFileInv

\* The temporary file is synced before the rename.
LEMMA TempSyncKeeps ==
    ASSUME KeyFileInv, NEW p \in Processes, TempSync(p)
    PROVE  KeyFileInv'
<1>1. TypeInv'
  BY NobodyAssumption, BoundsAssumption DEF KeyFileInv, TypeInv, Labels, Locked, TempSync,
       files, facts, At, Go
<1>2. CallInv'
  BY Kinds, NobodyAssumption DEF KeyFileInv, TypeInv, CallInv, Labels, Locked, TempSync,
       files, facts, At, Go
<1>3. RewriteInv'
  BY Kinds, NobodyAssumption DEF KeyFileInv, TypeInv, CallInv, RewriteInv, Covered, Sound,
       IsDocument, Labels, Locked, TempSync, files, facts, At, Go
<1>4. (~Covered => Sound)'
  BY Kinds, NobodyAssumption DEF KeyFileInv, TypeInv, CallInv, RewriteInv, Covered, Sound,
       IsDocument, Labels, Locked, TempSync, files, facts, At, Go
<1> QED
  BY <1>1, <1>2, <1>3, <1>4 DEF KeyFileInv

\* A temporary file that fails is removed, and with it the claim of a creation.
LEMMA TempFailsKeeps ==
    ASSUME KeyFileInv, NEW p \in Processes, TempFails(p)
    PROVE  KeyFileInv'
<1>1. TypeInv'
  BY NobodyAssumption, BoundsAssumption, Zenon DEF KeyFileInv, TypeInv, Labels, Locked, TempFails,
       facts, Finish, Go
<1>2. CallInv'
  BY Kinds, NobodyAssumption DEF KeyFileInv, TypeInv, CallInv, Labels, Locked, TempFails,
       facts, Finish, Go
<1>3. RewriteInv'
  BY Kinds, NobodyAssumption DEF KeyFileInv, TypeInv, CallInv, RewriteInv, Covered, Sound,
       IsDocument, Labels, Locked, TempFails, facts, Finish, Go
<1>4. (~Covered => Sound)'
  BY Kinds, NobodyAssumption DEF KeyFileInv, TypeInv, CallInv, RewriteInv, Covered, Sound,
       IsDocument, Labels, Locked, TempFails, facts, Finish, Go
<1> QED
  BY <1>1, <1>2, <1>3, <1>4 DEF KeyFileInv

\* What is renamed into place is a synced document.
LEMMA RenameKeeps ==
    ASSUME KeyFileInv, NEW p \in Processes, Rename(p)
    PROVE  KeyFileInv'
<1>1. TypeInv'
  BY NobodyAssumption, BoundsAssumption, Zenon DEF KeyFileInv, TypeInv, Labels, Locked, Rename,
       facts, At, Finish, Go
<1>2. CallInv'
  BY Kinds, NobodyAssumption DEF KeyFileInv, TypeInv, CallInv, Labels, Locked, Rename,
       facts, At, Finish, Go
<1>3. RewriteInv'
  BY Kinds, NobodyAssumption DEF KeyFileInv, TypeInv, CallInv, RewriteInv, Covered, Sound,
       IsDocument, Labels, Locked, Rename, facts, At, Finish, Go
<1>4. (~Covered => Sound)'
  BY Kinds, NobodyAssumption DEF KeyFileInv, TypeInv, CallInv, RewriteInv, Covered, Sound,
       IsDocument, Labels, Locked, Rename, facts, At, Finish, Go
<1> QED
  BY <1>1, <1>2, <1>3, <1>4 DEF KeyFileInv

\* case_key_erase reads the file and prepares the document without the generation.
LEMMA EraseReadKeeps ==
    ASSUME KeyFileInv, NEW p \in Processes, NEW g \in 0..MaxKeys, EraseRead(p, g)
    PROVE  KeyFileInv'
<1>1. TypeInv'
  BY NobodyAssumption, BoundsAssumption DEF KeyFileInv, TypeInv, Labels, Locked, EraseRead,
       files, facts, Begin, At, Go
<1>2. CallInv'
  BY Kinds, NobodyAssumption, SMTT(30) DEF KeyFileInv, TypeInv, CallInv, Labels, Locked, EraseRead,
       files, facts, Begin, At, Go
<1>3. RewriteInv'
  BY Kinds, NobodyAssumption DEF KeyFileInv, TypeInv, CallInv, RewriteInv, Covered, Sound,
       IsDocument, Labels, Locked, EraseRead, files, facts, Begin, At, Go
<1>4. (~Covered => Sound)'
  BY Kinds, NobodyAssumption DEF KeyFileInv, TypeInv, CallInv, RewriteInv, Covered, Sound,
       IsDocument, Labels, Locked, EraseRead, files, facts, Begin, At, Go
<1> QED
  BY <1>1, <1>2, <1>3, <1>4 DEF KeyFileInv

\* The rewrite begins only where there is no copy: the file is sound.
LEMMA EraseLockKeeps ==
    ASSUME KeyFileInv, NEW p \in Processes, EraseLock(p)
    PROVE  KeyFileInv'
<1>1. TypeInv'
  BY NobodyAssumption, BoundsAssumption DEF KeyFileInv, TypeInv, Labels, Locked, EraseLock,
       files, facts, At, Go, Return, Finish
<1>2. CallInv'
  BY Kinds, NobodyAssumption DEF KeyFileInv, TypeInv, CallInv, Labels, Locked, EraseLock,
       files, facts, At, Go, Return, Finish
<1>3. RewriteInv'
  BY Kinds, NobodyAssumption DEF KeyFileInv, TypeInv, CallInv, RewriteInv, Covered, Sound,
       IsDocument, Labels, Locked, EraseLock, files, facts, At, Go, Return, Finish
<1>4. (~Covered => Sound)'
  BY Kinds, NobodyAssumption DEF KeyFileInv, TypeInv, CallInv, RewriteInv, Covered, Sound,
       IsDocument, Labels, Locked, EraseLock, files, facts, At, Go, Return, Finish
<1> QED
  BY <1>1, <1>2, <1>3, <1>4 DEF KeyFileInv

\* Until the copy is synced the file itself is not touched.
LEMMA CopyWriteKeeps ==
    ASSUME KeyFileInv, NEW p \in Processes, CopyWrite(p)
    PROVE  KeyFileInv'
<1>1. TypeInv'
  BY NobodyAssumption, BoundsAssumption DEF KeyFileInv, TypeInv, Labels, Locked, CopyWrite,
       facts, At, Go
<1>2. CallInv'
  BY Kinds, NobodyAssumption DEF KeyFileInv, TypeInv, CallInv, Labels, Locked, CopyWrite,
       facts, At, Go
<1>3. RewriteInv'
  BY Kinds, NobodyAssumption DEF KeyFileInv, TypeInv, CallInv, RewriteInv, Covered, Sound,
       IsDocument, Labels, Locked, CopyWrite, facts, At, Go
<1>4. (~Covered => Sound)'
  BY Kinds, NobodyAssumption DEF KeyFileInv, TypeInv, CallInv, RewriteInv, Covered, Sound,
       IsDocument, Labels, Locked, CopyWrite, facts, At, Go
<1> QED
  BY <1>1, <1>2, <1>3, <1>4 DEF KeyFileInv

\* From here on the new document is on the disk, beside the file.
LEMMA CopySyncKeeps ==
    ASSUME KeyFileInv, NEW p \in Processes, CopySync(p)
    PROVE  KeyFileInv'
<1>1. TypeInv'
  BY NobodyAssumption, BoundsAssumption DEF KeyFileInv, TypeInv, Labels, Locked, CopySync,
       facts, At, Go
<1>2. CallInv'
  BY Kinds, NobodyAssumption DEF KeyFileInv, TypeInv, CallInv, Labels, Locked, CopySync,
       facts, At, Go
<1>3. RewriteInv'
  BY Kinds, NobodyAssumption DEF KeyFileInv, TypeInv, CallInv, RewriteInv, Covered, Sound,
       IsDocument, Labels, Locked, CopySync, facts, At, Go
<1>4. (~Covered => Sound)'
  BY Kinds, NobodyAssumption DEF KeyFileInv, TypeInv, CallInv, RewriteInv, Covered, Sound,
       IsDocument, Labels, Locked, CopySync, facts, At, Go
<1> QED
  BY <1>1, <1>2, <1>3, <1>4 DEF KeyFileInv

\* A copy that fails is removed while the file is still sound.
LEMMA CopyFailsKeeps ==
    ASSUME KeyFileInv, NEW p \in Processes, CopyFails(p)
    PROVE  KeyFileInv'
<1>1. TypeInv'
  BY NobodyAssumption, BoundsAssumption DEF KeyFileInv, TypeInv, Labels, Locked, CopyFails,
       facts, At, Return, Finish, Go
<1>2. CallInv'
  BY Kinds, NobodyAssumption DEF KeyFileInv, TypeInv, CallInv, Labels, Locked, CopyFails,
       facts, At, Return, Finish, Go
<1>3. RewriteInv'
  BY Kinds, NobodyAssumption DEF KeyFileInv, TypeInv, CallInv, RewriteInv, Covered, Sound,
       IsDocument, Labels, Locked, CopyFails, facts, At, Return, Finish, Go
<1>4. (~Covered => Sound)'
  BY Kinds, NobodyAssumption DEF KeyFileInv, TypeInv, CallInv, RewriteInv, Covered, Sound,
       IsDocument, Labels, Locked, CopyFails, facts, At, Return, Finish, Go
<1> QED
  BY <1>1, <1>2, <1>3, <1>4 DEF KeyFileInv

\* The file is torn only now, with the copy synced.
LEMMA OverwriteKeeps ==
    ASSUME KeyFileInv, NEW p \in Processes, Overwrite(p)
    PROVE  KeyFileInv'
<1>1. TypeInv'
  BY NobodyAssumption, BoundsAssumption DEF KeyFileInv, TypeInv, Labels, Locked, Overwrite,
       Go
<1>2. CallInv'
  BY Kinds, NobodyAssumption DEF KeyFileInv, TypeInv, CallInv, Labels, Locked, Overwrite, Go
<1>3. RewriteInv'
  BY Kinds, NobodyAssumption DEF KeyFileInv, TypeInv, CallInv, RewriteInv, Covered, Sound,
       IsDocument, Labels, Locked, Overwrite, Go
<1>4. (~Covered => Sound)'
  BY Kinds, NobodyAssumption DEF KeyFileInv, TypeInv, CallInv, RewriteInv, Covered, Sound,
       IsDocument, Labels, Locked, Overwrite, Go
<1> QED
  BY <1>1, <1>2, <1>3, <1>4 DEF KeyFileInv

\* The overwrite ends, on the path's file or on one a rename replaced.
LEMMA OverwriteEndsKeeps ==
    ASSUME KeyFileInv, NEW p \in Processes, OverwriteEnds(p)
    PROVE  KeyFileInv'
<1>1. TypeInv'
  BY NobodyAssumption, BoundsAssumption DEF KeyFileInv, TypeInv, Labels, Locked,
       OverwriteEnds, facts, At, Go
<1>2. CallInv'
  BY Kinds, NobodyAssumption DEF KeyFileInv, TypeInv, CallInv, Labels, Locked,
       OverwriteEnds, facts, At, Go
<1>3. RewriteInv'
  BY Kinds, NobodyAssumption DEF KeyFileInv, TypeInv, CallInv, RewriteInv, Covered, Sound,
       IsDocument, Labels, Locked, OverwriteEnds, facts, At, Go
<1>4. (~Covered => Sound)'
  BY Kinds, NobodyAssumption DEF KeyFileInv, TypeInv, CallInv, RewriteInv, Covered, Sound,
       IsDocument, Labels, Locked, OverwriteEnds, facts, At, Go
<1> QED
  BY <1>1, <1>2, <1>3, <1>4 DEF KeyFileInv

\* The file is synced before its copy is removed.
LEMMA PathSyncKeeps ==
    ASSUME KeyFileInv, NEW p \in Processes, PathSync(p)
    PROVE  KeyFileInv'
<1>1. TypeInv'
  BY NobodyAssumption, BoundsAssumption DEF KeyFileInv, TypeInv, Labels, Locked, PathSync,
       facts, Go
<1>2. CallInv'
  BY Kinds, NobodyAssumption DEF KeyFileInv, TypeInv, CallInv, Labels, Locked, PathSync,
       facts, Go
<1>3. RewriteInv'
  BY Kinds, NobodyAssumption DEF KeyFileInv, TypeInv, CallInv, RewriteInv, Covered, Sound,
       IsDocument, Labels, Locked, PathSync, facts, Go
<1>4. (~Covered => Sound)'
  BY Kinds, NobodyAssumption DEF KeyFileInv, TypeInv, CallInv, RewriteInv, Covered, Sound,
       IsDocument, Labels, Locked, PathSync, facts, Go
<1> QED
  BY <1>1, <1>2, <1>3, <1>4 DEF KeyFileInv

\* An overwrite that fails leaves the copy where it is.
LEMMA OverwriteFailsKeeps ==
    ASSUME KeyFileInv, NEW p \in Processes, OverwriteFails(p)
    PROVE  KeyFileInv'
<1>1. TypeInv'
  BY NobodyAssumption, BoundsAssumption DEF KeyFileInv, TypeInv, Labels, Locked,
       OverwriteFails, files, facts, Return, Finish, Go
<1>2. CallInv'
  BY Kinds, NobodyAssumption DEF KeyFileInv, TypeInv, CallInv, Labels, Locked,
       OverwriteFails, files, facts, Return, Finish, Go
<1>3. RewriteInv'
  BY Kinds, NobodyAssumption DEF KeyFileInv, TypeInv, CallInv, RewriteInv, Covered, Sound,
       IsDocument, Labels, Locked, OverwriteFails, files, facts, Return, Finish, Go
<1>4. (~Covered => Sound)'
  BY Kinds, NobodyAssumption DEF KeyFileInv, TypeInv, CallInv, RewriteInv, Covered, Sound,
       IsDocument, Labels, Locked, OverwriteFails, files, facts, Return, Finish, Go
<1> QED
  BY <1>1, <1>2, <1>3, <1>4 DEF KeyFileInv

\* caseKeyFileDestroy removes a file of zeros.
LEMMA RemoveKeeps ==
    ASSUME KeyFileInv, NEW p \in Processes, Remove(p)
    PROVE  KeyFileInv'
<1>1. TypeInv'
  BY NobodyAssumption, BoundsAssumption DEF KeyFileInv, TypeInv, Labels, Locked, Remove,
       facts, At, Go
<1>2. CallInv'
  BY Kinds, NobodyAssumption DEF KeyFileInv, TypeInv, CallInv, Labels, Locked, Remove,
       facts, At, Go
<1>3. RewriteInv'
  BY Kinds, NobodyAssumption DEF KeyFileInv, TypeInv, CallInv, RewriteInv, Covered, Sound,
       IsDocument, Labels, Locked, Remove, facts, At, Go
<1>4. (~Covered => Sound)'
  BY Kinds, NobodyAssumption DEF KeyFileInv, TypeInv, CallInv, RewriteInv, Covered, Sound,
       IsDocument, Labels, Locked, Remove, facts, At, Go
<1> QED
  BY <1>1, <1>2, <1>3, <1>4 DEF KeyFileInv

\* The copy is removed once the file is sound again.
LEMMA CheckRewriteKeeps ==
    ASSUME KeyFileInv, NEW p \in Processes, CheckRewrite(p)
    PROVE  KeyFileInv'
<1>1. TypeInv'
  BY NobodyAssumption, BoundsAssumption DEF KeyFileInv, TypeInv, Labels, Locked,
       CheckRewrite, facts, At, Go, Return, Finish
<1>2. CallInv'
  BY Kinds, NobodyAssumption DEF KeyFileInv, TypeInv, CallInv, Labels, Locked, CheckRewrite,
       facts, At, Go, Return, Finish
<1>3. RewriteInv'
  BY Kinds, NobodyAssumption DEF KeyFileInv, TypeInv, CallInv, RewriteInv, Covered, Sound,
       IsDocument, Labels, Locked, CheckRewrite, facts, At, Go, Return, Finish
<1>4. (~Covered => Sound)'
  BY Kinds, NobodyAssumption, Zenon DEF KeyFileInv, TypeInv, CallInv, RewriteInv, Covered, Sound,
       IsDocument, Labels, Locked, CheckRewrite, facts, At, Go, Return, Finish
<1> QED
  BY <1>1, <1>2, <1>3, <1>4 DEF KeyFileInv

\* The ledger's record of the erasure touches no file.
LEMMA CommitKeeps ==
    ASSUME KeyFileInv, NEW p \in Processes, Commit(p)
    PROVE  KeyFileInv'
<1>1. TypeInv'
  BY NobodyAssumption, BoundsAssumption DEF KeyFileInv, TypeInv, Labels, Locked, Commit,
       files, At, Return, Finish, Go
<1>2. CallInv'
  BY Kinds, NobodyAssumption DEF KeyFileInv, TypeInv, CallInv, Labels, Locked, Commit,
       files, At, Return, Finish, Go
<1>3. RewriteInv'
  BY Kinds, NobodyAssumption DEF KeyFileInv, TypeInv, CallInv, RewriteInv, Covered, Sound,
       IsDocument, Labels, Locked, Commit, files, At, Return, Finish, Go
<1>4. (~Covered => Sound)'
  BY Kinds, NobodyAssumption DEF KeyFileInv, TypeInv, CallInv, RewriteInv, Covered, Sound,
       IsDocument, Labels, Locked, Commit, files, At, Return, Finish, Go
<1> QED
  BY <1>1, <1>2, <1>3, <1>4 DEF KeyFileInv

\* Nor does a commit that fails.
LEMMA CommitFailsKeeps ==
    ASSUME KeyFileInv, NEW p \in Processes, CommitFails(p)
    PROVE  KeyFileInv'
<1>1. TypeInv'
  BY NobodyAssumption, BoundsAssumption, Zenon DEF KeyFileInv, TypeInv, Labels, Locked,
       CommitFails, files, At, Return, Finish, Go
<1>2. CallInv'
  BY Kinds, NobodyAssumption DEF KeyFileInv, TypeInv, CallInv, Labels, Locked, CommitFails,
       files, At, Return, Finish, Go
<1>3. RewriteInv'
  BY Kinds, NobodyAssumption DEF KeyFileInv, TypeInv, CallInv, RewriteInv, Covered, Sound,
       IsDocument, Labels, Locked, CommitFails, files, At, Return, Finish, Go
<1>4. (~Covered => Sound)'
  BY Kinds, NobodyAssumption, Zenon DEF KeyFileInv, TypeInv, CallInv, RewriteInv, Covered, Sound,
       IsDocument, Labels, Locked, CommitFails, files, At, Return, Finish, Go
<1> QED
  BY <1>1, <1>2, <1>3, <1>4 DEF KeyFileInv

\* case_key_open only reads the file.
LEMMA KeyOpenKeeps ==
    ASSUME KeyFileInv, NEW p \in Processes, NEW g \in 1..MaxKeys, KeyOpen(p, g)
    PROVE  KeyFileInv'
<1>1. TypeInv'
  BY NobodyAssumption, BoundsAssumption DEF KeyFileInv, TypeInv, Labels, Locked, KeyOpen,
       files, calls, At
<1>2. CallInv'
  BY Kinds, NobodyAssumption DEF KeyFileInv, TypeInv, CallInv, Labels, Locked, KeyOpen,
       files, calls, At
<1>3. RewriteInv'
  BY Kinds, NobodyAssumption DEF KeyFileInv, TypeInv, CallInv, RewriteInv, Covered, Sound,
       IsDocument, Labels, Locked, KeyOpen, files, calls, At
<1>4. (~Covered => Sound)'
  BY Kinds, NobodyAssumption DEF KeyFileInv, TypeInv, CallInv, RewriteInv, Covered, Sound,
       IsDocument, Labels, Locked, KeyOpen, files, calls, At
<1> QED
  BY <1>1, <1>2, <1>3, <1>4 DEF KeyFileInv

\* record_seal does not touch the key file.
LEMMA SealKeeps ==
    ASSUME KeyFileInv, NEW p \in Processes, Seal(p)
    PROVE  KeyFileInv'
<1>1. TypeInv'
  BY NobodyAssumption, BoundsAssumption DEF KeyFileInv, TypeInv, Labels, Locked, Seal,
       files, calls, At
<1>2. CallInv'
  BY Kinds, NobodyAssumption DEF KeyFileInv, TypeInv, CallInv, Labels, Locked, Seal, files,
       calls, At
<1>3. RewriteInv'
  BY Kinds, NobodyAssumption DEF KeyFileInv, TypeInv, CallInv, RewriteInv, Covered, Sound,
       IsDocument, Labels, Locked, Seal, files, calls, At
<1>4. (~Covered => Sound)'
  BY Kinds, NobodyAssumption DEF KeyFileInv, TypeInv, CallInv, RewriteInv, Covered, Sound,
       IsDocument, Labels, Locked, Seal, files, calls, At
<1> QED
  BY <1>1, <1>2, <1>3, <1>4 DEF KeyFileInv

\* A process that dies leaves both files as they are.
LEMMA ProcessDiesKeeps ==
    ASSUME KeyFileInv, NEW p \in Processes, ProcessDies(p)
    PROVE  KeyFileInv'
<1>1. TypeInv'
  BY NobodyAssumption, BoundsAssumption, Zenon DEF KeyFileInv, TypeInv, Labels, Locked,
       ProcessDies, files, At, Return, Finish, Go
<1>2. CallInv'
  BY Kinds, NobodyAssumption DEF KeyFileInv, TypeInv, CallInv, Labels, Locked, ProcessDies,
       files, At, Return, Finish, Go
<1>3. RewriteInv'
  BY Kinds, NobodyAssumption DEF KeyFileInv, TypeInv, CallInv, RewriteInv, Covered, Sound,
       IsDocument, Labels, Locked, ProcessDies, files, At, Return, Finish, Go
<1>4. (~Covered => Sound)'
  BY Kinds, NobodyAssumption DEF KeyFileInv, TypeInv, CallInv, RewriteInv, Covered, Sound,
       IsDocument, Labels, Locked, ProcessDies, files, At, Return, Finish, Go
<1> QED
  BY <1>1, <1>2, <1>3, <1>4 DEF KeyFileInv

\* A power loss tears only a file that was not as on the disk, and never a synced
\* copy.
LEMMA PowerLossKeeps ==
    ASSUME KeyFileInv, PowerLoss
    PROVE  KeyFileInv'
<1>1. TypeInv'
  BY NobodyAssumption, BoundsAssumption DEF KeyFileInv, TypeInv, Labels, Locked, PowerLoss
<1>2. CallInv'
  BY Kinds, NobodyAssumption DEF KeyFileInv, TypeInv, CallInv, Labels, Locked, PowerLoss
<1>3. RewriteInv'
  BY Kinds, NobodyAssumption, Zenon DEF KeyFileInv, TypeInv, CallInv, RewriteInv, Covered, Sound,
       IsDocument, Labels, Locked, PowerLoss, Outcomes
<1>4. (~Covered => Sound)'
  BY Kinds, NobodyAssumption DEF KeyFileInv, TypeInv, CallInv, RewriteInv, Covered, Sound,
       IsDocument, Labels, Locked, PowerLoss, Outcomes
<1> QED
  BY <1>1, <1>2, <1>3, <1>4 DEF KeyFileInv

\* What is written back is what the files already hold.
LEMMA WriteBackKeeps ==
    ASSUME KeyFileInv, WriteBack
    PROVE  KeyFileInv'
<1>1. TypeInv'
  BY NobodyAssumption, BoundsAssumption DEF KeyFileInv, TypeInv, Labels, Locked, WriteBack,
       calls, facts
<1>2. CallInv'
  BY Kinds, NobodyAssumption DEF KeyFileInv, TypeInv, CallInv, Labels, Locked, WriteBack,
       calls, facts
<1>3. RewriteInv'
  BY Kinds, NobodyAssumption DEF KeyFileInv, TypeInv, CallInv, RewriteInv, Covered, Sound,
       IsDocument, Labels, Locked, WriteBack, calls, facts
<1>4. (~Covered => Sound)'
  BY Kinds, NobodyAssumption DEF KeyFileInv, TypeInv, CallInv, RewriteInv, Covered, Sound,
       IsDocument, Labels, Locked, WriteBack, calls, facts
<1> QED
  BY <1>1, <1>2, <1>3, <1>4 DEF KeyFileInv

\* An examiner puts the copy in the place of a torn file.
LEMMA RepairKeeps ==
    ASSUME KeyFileInv, Repair
    PROVE  KeyFileInv'
<1>1. TypeInv'
  BY NobodyAssumption, BoundsAssumption DEF KeyFileInv, TypeInv, Labels, Locked, Repair,
       facts
<1>2. CallInv'
  BY Kinds, NobodyAssumption DEF KeyFileInv, TypeInv, CallInv, Labels, Locked, Repair, facts
<1>3. RewriteInv'
  BY Kinds, NobodyAssumption DEF KeyFileInv, TypeInv, CallInv, RewriteInv, Covered, Sound,
       IsDocument, Labels, Locked, Repair, facts
<1>4. (~Covered => Sound)'
  BY Kinds, NobodyAssumption, Zenon DEF KeyFileInv, TypeInv, CallInv, RewriteInv, Covered, Sound,
       IsDocument, Labels, Locked, Repair, facts
<1> QED
  BY <1>1, <1>2, <1>3, <1>4 DEF KeyFileInv

-----------------------------------------------------------------------------
(* The theorem. *)

\* The invariant holds before there is a key file.
LEMMA KeyFileInvInit == Init => KeyFileInv
<1> SUFFICES ASSUME Init PROVE KeyFileInv
  OBVIOUS
<1>1. TypeInv
  BY DEF Init, TypeInv, Labels
<1>2. CallInv
  BY NobodyAssumption, Zenon DEF Init, CallInv, Locked
<1>3. RewriteInv /\ Sound
  BY Kinds DEF Init, RewriteInv, Sound
<1> QED
  BY <1>1, <1>2, <1>3 DEF KeyFileInv

\* Every step of every call, and every fault, keeps it.
LEMMA KeyFileInvNext == KeyFileInv /\ [Next]_vars => KeyFileInv'
<1> SUFFICES ASSUME KeyFileInv, [Next]_vars PROVE KeyFileInv'
  OBVIOUS
<1>1. ASSUME NEW p \in Processes, Create(p) \/ Rotate(p) \/ Write(p) PROVE KeyFileInv'
  BY <1>1, CreateClaimKeeps, CreateRefusedKeeps, CreateWriteKeeps, RotateReadKeeps,
     RotateRefusedKeeps, RotateWriteKeeps, TempSyncKeeps, TempFailsKeeps, RenameKeeps
     DEF Create, Rotate, Write
<1>2. ASSUME NEW p \in Processes, Erase(p) PROVE KeyFileInv'
  BY <1>2, EraseReadKeeps, EraseLockKeeps, CopyWriteKeeps, CopySyncKeeps, CopyFailsKeeps,
     OverwriteKeeps, OverwriteEndsKeeps, PathSyncKeeps, OverwriteFailsKeeps, RemoveKeeps,
     CheckRewriteKeeps, CommitKeeps, CommitFailsKeeps DEF Erase
<1>3. ASSUME NEW p \in Processes, Use(p) \/ ProcessDies(p) PROVE KeyFileInv'
  BY <1>3, KeyOpenKeeps, SealKeeps, ProcessDiesKeeps DEF Use
<1>4. CASE UNCHANGED vars
  BY <1>4, ZenonT(40) DEF vars, files, calls, KeyFileInv, TypeInv, CallInv, RewriteInv, Covered, Sound
<1> QED
  BY <1>1, <1>2, <1>3, <1>4, PowerLossKeeps, WriteBackKeeps, RepairKeeps DEF Next

\* A torn key file has the whole new document beside it, always: no order of
\* the calls, no death of a process and no power loss costs the case its key
\* by tearing the file (caseKeyFileRewrite, writeKeyFileAtomic).
THEOREM TornAlwaysHasCopy == Spec => []TornHasCopy
<1>1. Init => KeyFileInv
  BY KeyFileInvInit
<1>2. KeyFileInv /\ [Next]_vars => KeyFileInv'
  BY KeyFileInvNext
<1>3. KeyFileInv => TornHasCopy
  BY DEF KeyFileInv, Covered, Sound, TornHasCopy
<1> QED
  BY <1>1, <1>2, <1>3, PTL DEF Spec

-----------------------------------------------------------------------------
(* Which keys can still be got at, while no two writing calls overlap. *)

\* What can be opened with the file in state c: its own keys, and those of the
\* copy when it is torn.
Opens(c) == KeysOf(c) \cup (IF c.kind = "torn" THEN KeysOf(copy) ELSE {})

\* The keys that must not be lost: records are sealed under them, or can be
\* because a process has them open, and no erasure has begun on them; and those
\* a process can open next.
Needed == (sealed \cup ({held[p] : p \in Processes} \ {0})) \ doomed
Kept   == Needed \cup KeysOf(path)

\* The file in state c loses no key and brings back none that was erased.
FileOK(c) == Kept \subseteq Opens(c) /\ erased \cap Opens(c) = {}

\* So is the file as it is, as it is on the disk, and torn between the two.
FilesInv ==
    /\ FileOK(path) /\ FileOK(pathSaved)
    /\ path # pathSaved /\ path.kind # "zeros" => FileOK(Torn)

\* Every generation has a case key of its own, one of the first n, and only a
\* document has generations.
Fine(c, n) ==
    /\ c.gens \in Seq(0..n)
    /\ \A g, h \in DOMAIN c.gens : c.gens[g] = c.gens[h] /\ c.gens[g] # 0 => g = h
    /\ ~IsDocument(c) => c.gens = <<>>

FineInv ==
    /\ keys \in Nat
    /\ Fine(path, keys) /\ Fine(pathSaved, keys) /\ Fine(copy, keys) /\ Fine(copySaved, keys)
    /\ \A p \in Processes : Fine(base[p], keys) /\ Fine(next[p], keys)
    /\ base = [p \in Processes |-> base[p]] /\ held = [p \in Processes |-> held[p]]

\* A call that can write the file is the only one.
AloneInv == \A p, q \in Processes : pc[p] # "idle" /\ pc[q] # "idle" => p = q

\* So the file is as this call found it or left it.
Writing(p)   == pc[p] \in {"written", "synced"}
Creating(p)  == pc[p] = "claimed" \/ (Writing(p) /\ p \in creating)
Rotating(p)  == pc[p] = "read" \/ (Writing(p) /\ p \notin creating)
Rewriting(p) == pc[p] \in {"copying", "copied", "overwriting"}
SoleInv(p) ==
    /\ pc[p] = "claimed" => p \in creating
    /\ pc[p] \notin {"claimed", "written", "synced"} => p \notin creating
    /\ Creating(p) => path.kind = "empty"
    /\ Rotating(p) => IsDocument(path) /\ path = base[p]
    /\ Writing(p) => erased \cap KeysOf(next[p]) = {}
    /\ Writing(p) /\ p \notin creating => KeysOf(base[p]) \subseteq KeysOf(next[p])
    /\ pc[p] \in Locked \cup {"prepared"} => IsDocument(base[p])
    /\ pc[p] \in Locked \cup {"prepared"} /\ gen[p] # 0 =>
         gen[p] \in DOMAIN base[p].gens /\ next[p] = EraseGeneration(base[p], gen[p])
    /\ Rewriting(p) => path = base[p] /\ pathSaved = base[p]
    /\ pc[p] = "destroying" => path = base[p]
    /\ pc[p] = "half" => p \in linked /\ (pathSaved = base[p] \/ pathSaved = Torn)
    /\ pc[p] \in {"zeroed", "removing"} => path.kind = "zeros"
    /\ pc[p] = "recording" => path = pathSaved /\ path = IF gen[p] = 0 THEN Nothing ELSE next[p]

KeptInv ==
    /\ KeyFileInv /\ FineInv
    /\ ~overlap => erased \subseteq 0..keys /\ FilesInv /\ AloneInv /\ \A p \in Processes : SoleInv(p)

\* What a document's keys are after each change of it.
LEMMA BlankKeys ==
    ASSUME NEW c, c.gens = <<>>
    PROVE  KeysOf(c) = {}
BY DEF KeysOf

\* The constant files have no keys.
LEMMA BlankFine ==
    ASSUME NEW c \in {Nothing, Empty, Torn, Zeros}, NEW n \in Nat
    PROVE  Fine(c, n) /\ KeysOf(c) = {} /\ ~IsDocument(c)
<1>1. c.gens = <<>> /\ c.kind \in {"nothing", "empty", "torn", "zeros"}
  BY DEF Nothing, Empty, Torn, Zeros, Blank, Content
<1>2. KeysOf(c) = {}
  BY <1>1, BlankKeys
<1>3. <<>> \in Seq(0..n) /\ DOMAIN <<>> = {}
  OBVIOUS
<1> QED BY <1>1, <1>2, <1>3 DEF Fine, IsDocument

\* A document stays as fine when more keys are minted.
LEMMA FineGrows ==
    ASSUME NEW c, NEW n \in Nat, NEW m \in Nat, n <= m, Fine(c, n)
    PROVE  Fine(c, m)
<1>1. c.gens \in Seq(0..m)
  <2>1. c.gens \in Seq(0..n)
    BY DEF Fine
  <2>2. 0..n \subseteq 0..m
    OBVIOUS
  <2>3. \A i \in 1..Len(c.gens) : c.gens[i] \in 0..m
    BY <2>1, <2>2
  <2> QED BY <2>1, <2>3
<1> QED BY <1>1 DEF Fine

\* EraseGeneration takes one key and leaves the others.
LEMMA EraseKeys ==
    ASSUME NEW c, NEW n \in Nat, Fine(c, n), NEW g \in DOMAIN c.gens
    PROVE  /\ Fine(EraseGeneration(c, g), n)
           /\ KeysOf(EraseGeneration(c, g)) = KeysOf(c) \ {c.gens[g]}
<1> DEFINE d == EraseGeneration(c, g)
<1>1. d.gens = [c.gens EXCEPT ![g] = 0] /\ IsDocument(d)
  BY DEF EraseGeneration, Content, IsDocument
<1> HIDE DEF d
<1>2. c.gens \in Seq(0..n) /\ DOMAIN c.gens = 1..Len(c.gens) /\ Len(c.gens) \in Nat
  BY DEF Fine
<1>3. d.gens \in Seq(0..n) /\ DOMAIN d.gens = DOMAIN c.gens /\ d.gens[g] = 0
      /\ \A h \in DOMAIN c.gens : h # g => d.gens[h] = c.gens[h]
  BY <1>1, <1>2
<1>4. Fine(d, n)
  BY <1>1, <1>3 DEF Fine
<1>5. KeysOf(d) = KeysOf(c) \ {c.gens[g]}
  <2>1. ASSUME NEW k \in KeysOf(d) PROVE k \in KeysOf(c) \ {c.gens[g]}
    <3>1. PICK h \in DOMAIN c.gens : k = d.gens[h] /\ k # 0
      BY <1>3 DEF KeysOf
    <3>2. h # g /\ k = c.gens[h]
      BY <1>3, <3>1
    <3>3. k # c.gens[g]
      BY <3>1, <3>2 DEF Fine
    <3> QED BY <3>1, <3>2, <3>3 DEF KeysOf
  <2>2. ASSUME NEW k \in KeysOf(c) \ {c.gens[g]} PROVE k \in KeysOf(d)
    <3>1. PICK h \in DOMAIN c.gens : k = c.gens[h] /\ k # 0
      BY DEF KeysOf
    <3>2. h # g /\ k = d.gens[h]
      BY <1>3, <3>1
    <3> QED BY <1>3, <3>1, <3>2 DEF KeysOf
  <2> QED BY <2>1, <2>2
<1> QED BY <1>4, <1>5 DEF d

\* RotatePassphrase keeps every key.
LEMMA RotatePhraseKeys ==
    ASSUME NEW c, NEW n \in Nat, Fine(c, n)
    PROVE  /\ Fine(RotatePassphrase(c), n)
           /\ KeysOf(RotatePassphrase(c)) = KeysOf(c)
<1> DEFINE d == RotatePassphrase(c)
<1>1. d.gens = c.gens /\ IsDocument(d)
  BY DEF RotatePassphrase, Content, IsDocument
<1> HIDE DEF d
<1>2. Fine(d, n) /\ KeysOf(d) = KeysOf(c)
  BY <1>1 DEF Fine, KeysOf
<1> QED BY <1>2 DEF d

\* RotateCaseKey keeps every key and adds the fresh one.
LEMMA RotateCaseKeys ==
    ASSUME keys \in Nat, NEW c, Fine(c, keys)
    PROVE  /\ Fine(RotateCaseKey(c), keys + 1)
           /\ KeysOf(RotateCaseKey(c)) = KeysOf(c) \cup {keys + 1}
<1> DEFINE d == RotateCaseKey(c)
<1>1. d.gens = Append(c.gens, keys + 1) /\ IsDocument(d)
  BY DEF RotateCaseKey, Content, IsDocument
<1> HIDE DEF d
<1>2. c.gens \in Seq(0..keys) /\ DOMAIN c.gens = 1..Len(c.gens) /\ Len(c.gens) \in Nat
  BY DEF Fine
<1>3. /\ DOMAIN d.gens = 1..(Len(c.gens) + 1) /\ d.gens[Len(c.gens) + 1] = keys + 1
      /\ \A h \in DOMAIN c.gens : d.gens[h] = c.gens[h] /\ c.gens[h] \in 0..keys
  BY <1>1, <1>2
<1>4. d.gens \in Seq(0..(keys + 1))
  <2>1. c.gens \in Seq(0..(keys + 1))
    BY <1>2, <1>3
  <2> QED BY <1>1, <2>1
<1>9. \A h \in DOMAIN d.gens : h \in DOMAIN c.gens \/ h = Len(c.gens) + 1
  BY <1>2, <1>3
<1>5. ASSUME NEW g \in DOMAIN d.gens, NEW h \in DOMAIN d.gens, d.gens[g] = d.gens[h], d.gens[g] # 0
      PROVE  g = h
  <2>1. CASE g \in DOMAIN c.gens /\ h \in DOMAIN c.gens
    BY <1>3, <1>5, <2>1, Zenon DEF Fine
  <2>2. CASE g = Len(c.gens) + 1 /\ h \in DOMAIN c.gens
    BY <1>3, <1>5, <2>2
  <2>3. CASE h = Len(c.gens) + 1 /\ g \in DOMAIN c.gens
    BY <1>3, <1>5, <2>3
  <2> QED BY <1>9, <2>1, <2>2, <2>3
<1>6. Fine(d, keys + 1)
  BY <1>1, <1>4, <1>5, Zenon DEF Fine
<1>7. KeysOf(d) = KeysOf(c) \cup {keys + 1}
  <2>1. ASSUME NEW k \in KeysOf(d) PROVE k \in KeysOf(c) \cup {keys + 1}
    <3>1. PICK h \in DOMAIN d.gens : k = d.gens[h] /\ k # 0
      BY DEF KeysOf
    <3>2. CASE h \in DOMAIN c.gens
      BY <1>3, <3>1, <3>2, Zenon DEF KeysOf
    <3>3. CASE h = Len(c.gens) + 1
      BY <1>3, <3>1, <3>3
    <3> QED BY <1>9, <3>2, <3>3
  <2>2. ASSUME NEW k \in KeysOf(c) PROVE k \in KeysOf(d)
    <3>1. PICK h \in DOMAIN c.gens : k = c.gens[h] /\ k # 0
      BY DEF KeysOf
    <3>2. h \in DOMAIN d.gens
      BY <1>2, <1>3
    <3> QED BY <1>3, <3>1, <3>2, Zenon DEF KeysOf
  <2>3. keys + 1 \in KeysOf(d)
    <3>1. Len(c.gens) + 1 \in DOMAIN d.gens /\ keys + 1 # 0
      BY <1>2, <1>3
    <3> QED BY <1>3, <3>1, Zenon DEF KeysOf
  <2> QED BY <2>1, <2>2, <2>3
<1> QED BY <1>6, <1>7 DEF d

\* NewCaseKeyFile has the fresh key alone.
LEMMA NewFileKeys ==
    ASSUME keys \in Nat
    PROVE  Fine(NewCaseKeyFile, keys + 1) /\ KeysOf(NewCaseKeyFile) = {keys + 1}
<1> DEFINE d == NewCaseKeyFile
<1>1. d.gens = <<keys + 1>> /\ IsDocument(d)
  BY DEF NewCaseKeyFile, Content, IsDocument
<1> HIDE DEF d
<1>2. DOMAIN d.gens = {1} /\ d.gens[1] = keys + 1 /\ d.gens \in Seq(0..(keys + 1))
  BY <1>1
<1>3. Fine(d, keys + 1) /\ KeysOf(d) = {keys + 1}
  BY <1>1, <1>2 DEF Fine, KeysOf
<1> QED BY <1>3 DEF d

\* The contents there are, as files, in the calls, or blank.
Known(c) ==
    \/ c \in {Nothing, Empty, Torn, Zeros}
    \/ c \in {path, pathSaved, copy, copySaved}
    \/ \E p \in Processes : c = base[p] \/ c = next[p]

\* A known document is fine.
LEMMA KnownFine ==
    ASSUME FineInv, NEW c, Known(c), NEW m \in Nat, keys <= m
    PROVE  Fine(c, m)
<1>1. keys \in Nat /\ (Fine(c, keys) \/ c \in {Nothing, Empty, Torn, Zeros})
  BY Zenon DEF FineInv, Known
<1>2. CASE Fine(c, keys)
  BY <1>1, <1>2, FineGrows
<1>3. CASE c \in {Nothing, Empty, Torn, Zeros}
  BY <1>3, BlankFine
<1> QED BY <1>1, <1>2, <1>3

\* What a step may put into the calls' variables and into the files: contents
\* there are already, or one new document.
CallsMove ==
    /\ base' = base \/ \E q \in Processes : \E b : Known(b) /\ base' = [base EXCEPT ![q] = b]
    /\ next' = next \/ \E q \in Processes : \E d : (Known(d) \/ Fine(d, keys')) /\ next' = [next EXCEPT ![q] = d]
    /\ held' = held \/ \E q \in Processes : \E h : held' = [held EXCEPT ![q] = h]
FilesMove == Known(path') /\ Known(pathSaved') /\ Known(copy') /\ Known(copySaved')

\* After such a step every document is fine.
LEMMA FineStep ==
    ASSUME FineInv, keys' \in Nat, keys <= keys', FilesMove, CallsMove,
           next = [q \in Processes |-> next[q]]
    PROVE  FineInv'
<1>1. Fine(path', keys') /\ Fine(pathSaved', keys') /\ Fine(copy', keys') /\ Fine(copySaved', keys')
  BY KnownFine DEF FilesMove
<1>2. \A b : Known(b) => Fine(b, keys')
  BY KnownFine
<1>3. \A q \in Processes : Known(base[q]) /\ Known(next[q])
  BY Zenon DEF Known
<1>4. base = [q \in Processes |-> base[q]] /\ held = [q \in Processes |-> held[q]]
  BY DEF FineInv
<1>5. \A q \in Processes : Fine(base'[q], keys')
  BY <1>2, <1>3, <1>4, Zenon DEF CallsMove
<1>6. \A q \in Processes : Fine(next'[q], keys')
  BY <1>2, <1>3, Zenon DEF CallsMove
<1>7. base' = [q \in Processes |-> base'[q]] /\ held' = [q \in Processes |-> held'[q]]
  BY <1>4, Zenon DEF CallsMove
<1> QED BY <1>1, <1>5, <1>6, <1>7, Zenon DEF FineInv

\* Losing hold of keys, or beginning to erase some, makes no key needed.
LEMMA NeededShrinks ==
    ASSUME \A q \in Processes : held'[q] \in {0, held[q]}, sealed' = sealed, doomed \subseteq doomed'
    PROVE  Needed' \subseteq Needed
BY Zenon DEF Needed

\* A step that leaves the files and the ledger alone.
LEMMA FilesStay ==
    ASSUME FilesInv, UNCHANGED <<path, pathSaved, copy, erased>>, Needed' \subseteq Kept
    PROVE  FilesInv'
<1>1. \A c : Opens(c)' = Opens(c)
  BY Zenon DEF Opens
<1>2. KeysOf(path') \subseteq Kept
  BY Zenon DEF Kept
<1>3. \A c : FileOK(c) => FileOK(c)'
  BY <1>1, <1>2, Zenon DEF FileOK, Kept
<1>4. FileOK(path)' /\ FileOK(pathSaved)' /\ (path # pathSaved /\ path.kind # "zeros" => FileOK(Torn)')
  <2>1. FileOK(path)' /\ FileOK(pathSaved)'
    BY <1>3, Zenon DEF FilesInv, FileOK, Opens, Kept
  <2>2. path # pathSaved /\ path.kind # "zeros" => FileOK(Torn)'
    BY <1>3, Zenon DEF FilesInv
  <2> QED BY <2>1, <2>2
<1> QED BY <1>4, Zenon DEF FilesInv

\* A step that leaves one file, on the disk too, with every key of the old.
LEMMA FilesAgree ==
    ASSUME FilesInv, path' = pathSaved', Needed' \subseteq Needed,
           Opens(path) \subseteq Opens(path)', erased' \cap Opens(path)' = {}
    PROVE  FilesInv'
<1>1. Needed \subseteq Opens(path)
  BY Zenon DEF FilesInv, FileOK, Kept
<1>2. KeysOf(path)' \subseteq Opens(path)'
  BY Zenon DEF Opens
<1>3. FileOK(path)'
  BY <1>1, <1>2, Zenon DEF FileOK, Kept
<1>4. FileOK(pathSaved)'
  BY <1>3, Zenon DEF FileOK, Opens
<1> QED BY <1>3, <1>4, Zenon DEF FilesInv

\* A step that changes the copy of a file that does not need one.
LEMMA CopyMoves ==
    ASSUME FilesInv, UNCHANGED <<path, pathSaved, erased>>, Needed' \subseteq Needed, Sound
    PROVE  FilesInv'
<1>1. Opens(path)' = Opens(path) /\ Opens(pathSaved)' = Opens(pathSaved)
  BY Zenon DEF Opens, Sound
<1>2. FileOK(path)' /\ FileOK(pathSaved)'
  BY <1>1, Zenon DEF FilesInv, FileOK, Kept
<1> QED BY <1>2, Zenon DEF FilesInv, Sound

\* The only call is the one of process p, before and after; the rest are idle.
LEMMA SoleStep ==
    ASSUME NEW p \in Processes, SoleInv(p)',
           \A q \in Processes \ {p} : pc'[q] = "idle" /\ q \notin creating'
    PROVE  AloneInv' /\ \A q \in Processes : SoleInv(q)'
<1>1. \A q \in Processes \ {p} : SoleInv(q)'
  BY Zenon DEF SoleInv, Writing, Creating, Rotating, Rewriting, Locked
<1> QED BY <1>1, Zenon DEF AloneInv

\* While no two calls overlap, the other processes are idle.
LEMMA OthersIdle ==
    ASSUME KeptInv, ~overlap, NEW p \in Processes, pc[p] # "idle"
    PROVE  \A q \in Processes \ {p} : pc[q] = "idle" /\ q \notin creating
<1>1. \A q \in Processes \ {p} : pc[q] = "idle"
  BY Zenon DEF KeptInv, AloneInv
<1> QED BY <1>1, Zenon DEF KeptInv, SoleInv

\* A step of the call of process p.
LEMMA GoSole ==
    ASSUME KeptInv, ~overlap, NEW p \in Processes, pc[p] # "idle", NEW l, Go(p, l), creating' = creating, SoleInv(p)'
    PROVE  AloneInv' /\ \A q \in Processes : SoleInv(q)'
<1>1. \A q \in Processes \ {p} : pc'[q] = "idle" /\ q \notin creating'
  BY OthersIdle, Zenon DEF Go, KeptInv, KeyFileInv, TypeInv
<1> QED BY <1>1, SoleStep

\* The call of process p begins: had another been under way, they would overlap.
LEMMA BeginSole ==
    ASSUME KeptInv, ~overlap', NEW p \in Processes, NEW l, NEW c, NEW g, Begin(p, l, c, g),
           creating' \subseteq creating \cup {p}, SoleInv(p)'
    PROVE  AloneInv' /\ \A q \in Processes : SoleInv(q)'
<1>1. ~overlap /\ \A q \in Processes : pc[q] = "idle"
  BY Zenon DEF Begin, At
<1>2. \A q \in Processes : q \notin creating
  BY <1>1, Zenon DEF KeptInv, SoleInv
<1>3. \A q \in Processes \ {p} : pc'[q] = "idle" /\ q \notin creating'
  BY <1>1, <1>2, Zenon DEF Begin, Go, KeptInv, KeyFileInv, TypeInv
<1> QED BY <1>3, SoleStep

\* The call of process p is over.
LEMMA FinishSole ==
    ASSUME KeptInv, ~overlap, NEW p \in Processes, pc[p] # "idle", Finish(p)
    PROVE  AloneInv' /\ \A q \in Processes : SoleInv(q)'
<1>1. pc' = [pc EXCEPT ![p] = "idle"] /\ creating' = creating \ {p}
  BY DEF Finish, Go
<1>2. pc'[p] = "idle" /\ p \notin creating'
  BY <1>1, Zenon DEF KeptInv, KeyFileInv, TypeInv
<1>3. SoleInv(p)'
  BY <1>2, Zenon DEF SoleInv, Writing, Creating, Rotating, Rewriting, Locked
<1>4. \A q \in Processes \ {p} : pc'[q] = "idle" /\ q \notin creating'
  BY <1>1, OthersIdle, Zenon DEF KeptInv, KeyFileInv, TypeInv
<1> QED BY <1>3, <1>4, SoleStep

\* The contents a call lets go of and those it keeps.
LEMMA FinishMoves ==
    ASSUME NEW p \in Processes, Finish(p), held' = held \/ \E h : held' = [held EXCEPT ![p] = h]
    PROVE  CallsMove
<1>1. base' = [base EXCEPT ![p] = Nothing] /\ next' = [next EXCEPT ![p] = Nothing]
  BY DEF Finish
<1>2. Known(Nothing)
  BY DEF Known
<1> QED BY <1>1, <1>2, Zenon DEF CallsMove

\* Every file there is is known.
LEMMA FilesKnown ==
    Known(path) /\ Known(pathSaved) /\ Known(copy) /\ Known(copySaved) /\ \A p \in Processes : Known(base[p]) /\ Known(next[p])
BY Zenon DEF Known

\* What a step has to keep, besides KeyFileInv and the bound on erased.
StepKept == FineInv' /\ (~overlap' => FilesInv' /\ AloneInv' /\ \A q \in Processes : SoleInv(q)')

\* A step that leaves the number of keys alone.
LEMMA MovesFine ==
    ASSUME KeptInv, FilesMove, CallsMove, keys' = keys
    PROVE  FineInv'
<1>1. FineInv /\ keys \in Nat /\ next = [q \in Processes |-> next[q]]
  BY DEF KeptInv, FineInv, KeyFileInv, TypeInv
<1>2. keys <= keys
  BY <1>1
<1> QED BY <1>1, <1>2, FineStep, Zenon

\* A step that leaves the files alone too.
LEMMA QuietFine ==
    ASSUME KeptInv, UNCHANGED files, CallsMove, keys' = keys
    PROVE  FineInv'
<1>1. FilesMove
  BY FilesKnown, Zenon DEF files, FilesMove
<1> QED BY <1>1, MovesFine

\* It keeps the files as they were, when no key becomes needed.
LEMMA QuietFiles ==
    ASSUME KeptInv, ~overlap, UNCHANGED files, erased' = erased, Needed' \subseteq Kept
    PROVE  FilesInv'
BY FilesStay, Zenon DEF KeptInv, files

\* No key becomes needed when those held, sealed and doomed are the same.
LEMMA NeededSame ==
    ASSUME UNCHANGED <<held, sealed, doomed>>
    PROVE  Needed' = Needed /\ Needed' \subseteq Kept
BY Zenon DEF Needed, Kept

\* case_key_rotate reads a document and keeps it as its base.
LEMMA RotateReadKept ==
    ASSUME KeptInv, NEW p \in Processes, RotateRead(p)
    PROVE  StepKept
<1>1. UNCHANGED <<files, next, creating, lock, keys, phrases, facts>> /\ Begin(p, "read", path, 0) /\ IsDocument(path)
  BY DEF RotateRead
<1>2. UNCHANGED <<held, sealed, doomed, erased, allErased>>
  BY <1>1 DEF facts
<1>3. CallsMove
  BY <1>1, <1>2, FilesKnown, Zenon DEF CallsMove, Begin
<1>4. FineInv'
  BY <1>1, <1>2, <1>3, QuietFine, Zenon
<1>5. ASSUME ~overlap' PROVE FilesInv' /\ AloneInv' /\ \A q \in Processes : SoleInv(q)'
  <2>1. ~overlap /\ pc[p] = "idle" /\ p \notin creating
    BY <1>1, <1>5, Zenon DEF Begin, At, KeptInv, SoleInv
  <2>2. FilesInv'
    BY <1>1, <1>2, <2>1, QuietFiles, NeededSame, Zenon
  <2>3. pc'[p] = "read" /\ base'[p] = path /\ path' = path /\ p \notin creating'
    BY <1>1, <2>1, Zenon DEF Begin, Go, KeptInv, KeyFileInv, TypeInv, FineInv, files
  <2>4. SoleInv(p)'
    BY <1>1, <2>3, Zenon DEF SoleInv, Writing, Creating, Rotating, Rewriting, Locked, IsDocument
  <2> QED BY <1>1, <1>5, <2>2, <2>4, BeginSole, Zenon
<1> QED BY <1>4, <1>5, Zenon DEF StepKept

\* A call that gives up, or whose process dies, leaves the files as they are.
LEMMA ReturnKept ==
    ASSUME KeptInv, NEW p \in Processes, pc[p] # "idle", Finish(p), UNCHANGED files,
           UNCHANGED <<keys, sealed, doomed, erased, overlap>>,
           held' = held \/ \E h \in {0, held[p]} : held' = [held EXCEPT ![p] = h]
    PROVE  StepKept
<1>1. FineInv'
  BY FinishMoves, QuietFine, Zenon
<1>2. ASSUME ~overlap PROVE FilesInv' /\ AloneInv' /\ \A q \in Processes : SoleInv(q)'
  <2>1. \A q \in Processes : held'[q] \in {0, held[q]}
    BY Zenon DEF KeptInv, FineInv
  <2>2. Needed' \subseteq Kept
    BY <2>1, NeededShrinks, Zenon DEF Kept
  <2>3. FilesInv'
    BY <1>2, <2>2, QuietFiles, Zenon
  <2> QED BY <1>2, <2>3, FinishSole, Zenon
<1> QED BY <1>1, <1>2, Zenon DEF StepKept

\* case_key_create mints the first key and writes it to a temporary file.
LEMMA CreateWriteKept ==
    ASSUME KeptInv, NEW p \in Processes, CreateWrite(p)
    PROVE  StepKept
<1>1. /\ pc[p] = "claimed" /\ next' = [next EXCEPT ![p] = NewCaseKeyFile] /\ keys' = keys + 1
      /\ Go(p, "written") /\ UNCHANGED <<files, base, gen, creating, linked, synced, lock, facts, overlap>>
  BY DEF CreateWrite, At
<1>2. UNCHANGED <<held, sealed, doomed, erased, allErased>>
  BY <1>1 DEF facts
<1>3. keys \in Nat /\ keys' \in Nat /\ keys <= keys'
  BY <1>1, <1>2 DEF KeptInv, FineInv
<1>4. FineInv'
  <2>1. Fine(NewCaseKeyFile, keys') /\ KeysOf(NewCaseKeyFile) = {keys + 1}
    BY <1>1, <1>3, NewFileKeys
  <2>2. CallsMove
    BY <1>1, <1>2, <2>1, Zenon DEF CallsMove
  <2>3. FilesMove
    BY <1>1, FilesKnown, Zenon DEF files, FilesMove
  <2> QED BY <1>3, <2>2, <2>3, FineStep DEF KeptInv, KeyFileInv, TypeInv
<1>5. ASSUME ~overlap' PROVE FilesInv' /\ AloneInv' /\ \A q \in Processes : SoleInv(q)'
  <2>1. ~overlap /\ pc[p] # "idle" /\ p \in creating /\ path.kind = "empty"
    BY <1>1, <1>5, Zenon DEF KeptInv, SoleInv, Creating
  <2>2. FilesInv'
    BY <1>1, <1>2, <2>1, QuietFiles, NeededSame, Zenon
  <2>3. erased \cap KeysOf(NewCaseKeyFile) = {}
    <3>1. keys + 1 \notin erased
      BY <1>3, <2>1 DEF KeptInv
    <3> QED BY <1>3, <3>1, NewFileKeys
  <2>4. pc'[p] = "written" /\ next'[p] = NewCaseKeyFile /\ path' = path /\ p \in creating' /\ erased' = erased
    BY <1>1, <1>2, <2>1, Zenon DEF Go, KeptInv, KeyFileInv, TypeInv, FineInv, files
  <2>5. SoleInv(p)'
    BY <2>1, <2>3, <2>4, Zenon DEF SoleInv, Writing, Creating, Rotating, Rewriting, Locked
  <2> QED BY <1>1, <2>1, <2>2, <2>5, GoSole, Zenon
<1> QED BY <1>4, <1>5, Zenon DEF StepKept

\* Both modes of case_key_rotate keep every key of the document they read.
LEMMA RotateWriteKept ==
    ASSUME KeptInv, NEW p \in Processes, RotateWrite(p)
    PROVE  StepKept
<1>1. /\ pc[p] = "read" /\ keys' \in {keys, keys + 1}
      /\ Go(p, "written") /\ UNCHANGED <<files, base, gen, creating, linked, synced, lock, facts, overlap>>
  BY DEF RotateWrite, At
<1>2. UNCHANGED <<held, sealed, doomed, erased, allErased>>
  BY <1>1 DEF facts
<1>3. keys \in Nat /\ keys' \in Nat /\ keys <= keys'
  BY <1>1, <1>2 DEF KeptInv, FineInv
<1>4. Fine(base[p], keys)
  BY DEF KeptInv, FineInv
<1>5. PICK d : /\ next' = [next EXCEPT ![p] = d] /\ Fine(d, keys')
               /\ KeysOf(base[p]) \subseteq KeysOf(d) /\ KeysOf(d) \subseteq KeysOf(base[p]) \cup {keys + 1}
  <2>1. CASE next' = [next EXCEPT ![p] = RotatePassphrase(base[p])] /\ keys' = keys
    BY <1>3, <1>4, <2>1, RotatePhraseKeys, Zenon
  <2>2. CASE next' = [next EXCEPT ![p] = RotateCaseKey(base[p])] /\ keys' = keys + 1
    BY <1>3, <1>4, <2>2, RotateCaseKeys, Zenon
  <2> QED BY <2>1, <2>2 DEF RotateWrite
<1>6. FineInv'
  <2>1. CallsMove
    BY <1>1, <1>2, <1>5, Zenon DEF CallsMove
  <2>2. FilesMove
    BY <1>1, FilesKnown, Zenon DEF files, FilesMove
  <2> QED BY <1>3, <2>1, <2>2, FineStep DEF KeptInv, KeyFileInv, TypeInv
<1>7. ASSUME ~overlap' PROVE FilesInv' /\ AloneInv' /\ \A q \in Processes : SoleInv(q)'
  <2>1. ~overlap /\ pc[p] # "idle" /\ p \notin creating /\ IsDocument(path) /\ path = base[p]
    BY <1>1, <1>7, Zenon DEF KeptInv, SoleInv, Rotating
  <2>2. FilesInv'
    BY <1>1, <1>2, <2>1, QuietFiles, NeededSame, Zenon
  <2>3. erased \cap KeysOf(path) = {}
    BY <2>1, Zenon DEF KeptInv, FilesInv, FileOK, Opens
  <2>4. erased \cap KeysOf(d) = {}
    <3>1. keys + 1 \notin erased
      BY <1>3, <2>1 DEF KeptInv
    <3> QED BY <1>5, <2>1, <2>3, <3>1, Zenon
  <2>5. pc'[p] = "written" /\ next'[p] = d /\ path' = path /\ base' = base /\ p \notin creating' /\ erased' = erased
    BY <1>1, <1>2, <1>5, <2>1, Zenon DEF Go, KeptInv, KeyFileInv, TypeInv, FineInv, files
  <2>6. SoleInv(p)'
    BY <1>5, <2>1, <2>4, <2>5, Zenon DEF SoleInv, Writing, Creating, Rotating, Rewriting, Locked, IsDocument
  <2> QED BY <1>1, <2>1, <2>2, <2>6, GoSole, Zenon
<1> QED BY <1>6, <1>7, Zenon DEF StepKept

\* Syncing the temporary file changes nothing that can be read.
LEMMA TempSyncKept ==
    ASSUME KeptInv, NEW p \in Processes, TempSync(p)
    PROVE  StepKept
<1>1. /\ pc[p] = "written" /\ Go(p, "synced")
      /\ UNCHANGED <<files, base, next, gen, creating, linked, lock, keys, phrases, facts, overlap>>
  BY DEF TempSync, At
<1>2. UNCHANGED <<held, sealed, doomed, erased, allErased>>
  BY <1>1 DEF facts
<1>3. FineInv'
  BY <1>1, <1>2, QuietFine, Zenon DEF CallsMove
<1>4. ASSUME ~overlap' PROVE FilesInv' /\ AloneInv' /\ \A q \in Processes : SoleInv(q)'
  <2>1. ~overlap /\ pc[p] # "idle" /\ SoleInv(p)
    BY <1>1, <1>4, Zenon DEF KeptInv
  <2>2. FilesInv'
    BY <1>1, <1>2, <2>1, QuietFiles, NeededSame, Zenon
  <2>3. pc'[p] = "synced" /\ next' = next /\ path' = path /\ base' = base /\ creating' = creating /\ erased' = erased
    BY <1>1, <1>2, Zenon DEF Go, KeptInv, KeyFileInv, TypeInv, files
  <2>4. SoleInv(p)'
    BY <1>1, <2>1, <2>3, Zenon DEF SoleInv, Writing, Creating, Rotating, Rewriting, Locked, IsDocument
  <2> QED BY <1>1, <2>1, <2>2, <2>4, GoSole, Zenon
<1> QED BY <1>3, <1>4, Zenon DEF StepKept

\* A file with nothing to open: no key is needed.
LEMMA BlankFile ==
    ASSUME KeptInv, NEW c, c.kind \in {"nothing", "empty", "zeros"}, Known(c)
    PROVE  KeysOf(c) = {} /\ Opens(c) = {}
<1>1. Fine(c, keys)
  BY KnownFine DEF KeptInv, FineInv
<1>2. KeysOf(c) = {}
  BY <1>1, BlankKeys DEF Fine, IsDocument
<1> QED BY <1>2, Zenon DEF Opens

\* The claim of case_key_create, and its removal, when there is no key yet.
LEMMA BlankedFiles ==
    ASSUME KeptInv, ~overlap, path.kind \in {"nothing", "empty", "zeros"}, path' \in {Nothing, Empty},
           pathSaved' = path', UNCHANGED <<held, sealed, doomed, erased>>
    PROVE  FilesInv'
<1>1. Opens(path) = {}
  BY BlankFile, FilesKnown
<1>2. KeysOf(path') = {} /\ path'.kind # "torn"
  BY BlankFine, Kinds, Zenon
<1>3. Opens(path)' = {}
  BY <1>2, Zenon DEF Opens
<1>4. Needed' \subseteq Needed
  BY NeededSame
<1>5. FilesInv
  BY DEF KeptInv
<1> QED BY <1>1, <1>3, <1>4, <1>5, FilesAgree, Zenon

\* case_key_create claims the path.
LEMMA CreateClaimKept ==
    ASSUME KeptInv, NEW p \in Processes, CreateClaim(p)
    PROVE  StepKept
<1>1. /\ path = Nothing /\ path' = Empty /\ pathSaved' = Empty /\ Begin(p, "claimed", Nothing, 0)
      /\ creating' = creating \cup {p} /\ UNCHANGED <<copy, copySaved, next, keys, held, sealed, doomed, erased>>
  BY DEF CreateClaim, facts
<1>2. Known(Nothing) /\ Known(Empty)
  BY DEF Known
<1>3. CallsMove
  BY <1>1, <1>2, Zenon DEF CallsMove, Begin
<1>4. FilesMove
  BY <1>1, <1>2, FilesKnown, Zenon DEF FilesMove
<1>5. FineInv'
  BY <1>1, <1>3, <1>4, MovesFine, Zenon
<1>6. ASSUME ~overlap' PROVE FilesInv' /\ AloneInv' /\ \A q \in Processes : SoleInv(q)'
  <2>1. ~overlap /\ path.kind = "nothing" /\ path'.kind = "empty"
    BY <1>1, <1>6, Kinds, Zenon DEF Begin
  <2>2. FilesInv'
    BY <1>1, <2>1, BlankedFiles, Zenon
  <2>3. pc'[p] = "claimed" /\ p \in creating'
    BY <1>1, Zenon DEF Begin, Go, KeptInv, KeyFileInv, TypeInv
  <2>4. SoleInv(p)'
    BY <2>1, <2>3, Zenon DEF SoleInv, Writing, Creating, Rotating, Rewriting, Locked
  <2> QED BY <1>1, <1>6, <2>2, <2>4, BeginSole, Zenon
<1> QED BY <1>5, <1>6, Zenon DEF StepKept

\* A creation that is given up removes its claim; whatever was at the path is
\* still the claim when no other call writes.
LEMMA ClaimRemovedKept ==
    ASSUME KeptInv, NEW p \in Processes, pc[p] = "claimed" \/ (Writing(p) /\ p \in creating), Finish(p),
           path' = Nothing, pathSaved' = Nothing,
           UNCHANGED <<copy, copySaved, keys, held, sealed, doomed, erased, overlap>>
    PROVE  StepKept
<1>1. Known(Nothing)
  BY DEF Known
<1>2. FilesMove
  BY <1>1, FilesKnown, Zenon DEF FilesMove
<1>3. FineInv'
  BY <1>2, FinishMoves, MovesFine, Zenon
<1>4. ASSUME ~overlap PROVE FilesInv' /\ AloneInv' /\ \A q \in Processes : SoleInv(q)'
  <2>1. path.kind = "empty" /\ pc[p] # "idle"
    BY <1>4, Zenon DEF KeptInv, SoleInv, Creating, Writing
  <2>2. FilesInv'
    BY <1>4, <2>1, BlankedFiles, Zenon
  <2> QED BY <1>4, <2>1, <2>2, FinishSole, Zenon
<1> QED BY <1>3, <1>4, Zenon DEF StepKept

\* The temporary file replaces the claim, or the document the rotation read.
LEMMA RenameKept ==
    ASSUME KeptInv, NEW p \in Processes, Rename(p)
    PROVE  StepKept
<1>1. /\ pc[p] = "synced" /\ path' = next[p] /\ pathSaved' = next[p] /\ Finish(p)
      /\ UNCHANGED <<copy, copySaved, keys, held, sealed, doomed, erased, overlap>>
  BY Zenon DEF Rename, At, facts, KeptInv, KeyFileInv, CallInv
<1>2. FilesMove
  BY <1>1, FilesKnown, Zenon DEF FilesMove
<1>3. FineInv'
  BY <1>1, <1>2, FinishMoves, MovesFine, Zenon
<1>4. ASSUME ~overlap PROVE FilesInv' /\ AloneInv' /\ \A q \in Processes : SoleInv(q)'
  <2>1. pc[p] # "idle" /\ Writing(p) /\ SoleInv(p) /\ FilesInv /\ IsDocument(next[p])
    BY <1>1, <1>4, Zenon DEF KeptInv, Writing, KeyFileInv, CallInv
  <2>2. Opens(path) \subseteq KeysOf(next[p])
    <3>1. CASE p \in creating
      <4>1. path.kind = "empty"
        BY <2>1, <3>1, Zenon DEF SoleInv, Creating
      <4> QED BY <4>1, BlankFile, FilesKnown
    <3>2. CASE p \notin creating
      BY <2>1, <3>2, Zenon DEF SoleInv, Rotating, Opens, IsDocument
    <3> QED BY <3>1, <3>2
  <2>3. Opens(path)' = KeysOf(next[p])
    BY <1>1, <2>1, Zenon DEF Opens, IsDocument
  <2>4. erased' \cap Opens(path)' = {}
    BY <1>1, <2>1, <2>3, Zenon DEF SoleInv
  <2>5. Needed' \subseteq Needed
    BY <1>1, NeededSame, Zenon
  <2>6. FilesInv'
    BY <1>1, <2>1, <2>2, <2>3, <2>4, <2>5, FilesAgree, Zenon
  <2> QED BY <1>1, <1>4, <2>1, <2>6, FinishSole, Zenon
<1> QED BY <1>1, <1>3, <1>4, Zenon DEF StepKept

\* case_key_erase reads the document and makes the one that goes in its place.
LEMMA EraseReadKept ==
    ASSUME KeptInv, NEW p \in Processes, NEW g \in 0..MaxKeys, EraseRead(p, g)
    PROVE  StepKept
<1>1. /\ IsDocument(path) /\ (g # 0 => g \in DOMAIN path.gens) /\ Begin(p, "prepared", path, g)
      /\ UNCHANGED <<files, creating, keys>> /\ UNCHANGED <<held, sealed, doomed, erased>>
  BY DEF EraseRead, facts
<1>2. PICK d : next' = [next EXCEPT ![p] = d] /\ d = IF g = 0 THEN Nothing ELSE EraseGeneration(path, g)
  BY Zenon DEF EraseRead
<1>3. FineInv'
  <2>1. Known(d) \/ Fine(d, keys)
    <3>1. CASE g = 0
      BY <1>2, <3>1 DEF Known
    <3>2. CASE g # 0
      BY <1>1, <1>2, <3>2, EraseKeys DEF KeptInv, FineInv
    <3> QED BY <3>1, <3>2
  <2>2. CallsMove
    BY <1>1, <1>2, <2>1, FilesKnown, Zenon DEF CallsMove, Begin
  <2> QED BY <1>1, <2>2, QuietFine, Zenon
<1>4. ASSUME ~overlap' PROVE FilesInv' /\ AloneInv' /\ \A q \in Processes : SoleInv(q)'
  <2>1. ~overlap /\ pc[p] = "idle" /\ p \notin creating
    BY <1>1, <1>4, Zenon DEF Begin, At, KeptInv, SoleInv
  <2>2. FilesInv'
    BY <1>1, <2>1, QuietFiles, NeededSame, Zenon
  <2>3. pc'[p] = "prepared" /\ base'[p] = path /\ next'[p] = d /\ gen'[p] = g /\ p \notin creating'
    BY <1>1, <1>2, <2>1, Zenon DEF Begin, Go, KeptInv, KeyFileInv, TypeInv, FineInv
  <2>4. g # 0 => d = EraseGeneration(path, g)
    BY <1>2
  <2>5. SoleInv(p)'
    BY <1>1, <2>3, <2>4, Zenon DEF SoleInv, Writing, Creating, Rotating, Rewriting, Locked, IsDocument
  <2> QED BY <1>1, <1>4, <2>2, <2>5, BeginSole, Zenon
<1> QED BY <1>3, <1>4, Zenon DEF StepKept

\* Once the locks are taken the file is the one that was read, on the disk too
\* when a generation is erased: there is no copy, so the file needs none.
LEMMA EraseLockKept ==
    ASSUME KeptInv, NEW p \in Processes, EraseLock(p)
    PROVE  StepKept
<1>1. pc[p] = "prepared" /\ UNCHANGED <<files, keys, overlap>> /\ UNCHANGED <<held, sealed, doomed, erased>>
  BY DEF EraseLock, facts, At
<1>2. CASE Return(p)
  BY <1>1, <1>2, ReturnKept, Zenon DEF Return
<1>3. CASE /\ path = base[p] /\ (gen[p] # 0 => copy = Nothing)
           /\ UNCHANGED <<base, next, gen, creating, linked>>
           /\ Go(p, IF gen[p] = 0 THEN "destroying" ELSE "copying")
  <2>1. FineInv'
    BY <1>1, <1>3, QuietFine, Zenon DEF CallsMove
  <2>2. ASSUME ~overlap PROVE FilesInv' /\ AloneInv' /\ \A q \in Processes : SoleInv(q)'
    <3>1. pc[p] # "idle" /\ p \notin creating /\ IsDocument(base[p])
          /\ (gen[p] # 0 => gen[p] \in DOMAIN base[p].gens /\ next[p] = EraseGeneration(base[p], gen[p]))
      BY <1>1, <2>2, Zenon DEF KeptInv, SoleInv
    <3>2. FilesInv'
      BY <1>1, <2>2, QuietFiles, NeededSame, Zenon
    <3>3. gen[p] # 0 => pathSaved = base[p]
      BY <1>3, <3>1, Kinds, Zenon DEF KeptInv, KeyFileInv, Covered, Sound, IsDocument
    <3>4. /\ pc'[p] = IF gen[p] = 0 THEN "destroying" ELSE "copying"
          /\ path' = path /\ pathSaved' = pathSaved
      BY <1>1, <1>3, Zenon DEF Go, KeptInv, KeyFileInv, TypeInv, files
    <3>5. SoleInv(p)'
      <4>1. CASE gen[p] = 0
        BY <1>3, <3>1, <3>4, <4>1, Zenon DEF SoleInv, Writing, Creating, Rotating, Rewriting, Locked, IsDocument
      <4>2. CASE gen[p] # 0
        BY <1>3, <3>1, <3>3, <3>4, <4>2, Zenon DEF SoleInv, Writing, Creating, Rotating, Rewriting, Locked, IsDocument
      <4> QED BY <4>1, <4>2
    <3> QED BY <1>3, <2>2, <3>1, <3>2, <3>5, GoSole, Zenon
  <2> QED BY <1>1, <2>1, <2>2, Zenon DEF StepKept
<1> QED BY <1>2, <1>3, Zenon DEF EraseLock

\* The new document is written beside the file, which does not need it yet.
LEMMA CopyWriteKept ==
    ASSUME KeptInv, NEW p \in Processes, CopyWrite(p)
    PROVE  StepKept
<1>1. /\ pc[p] = "copying" /\ copy = Nothing /\ copy' = next[p] /\ copySaved' = Torn /\ Go(p, "copied")
      /\ UNCHANGED <<path, pathSaved, base, next, gen, creating, linked, keys, overlap>>
      /\ UNCHANGED <<held, sealed, doomed, erased>>
  BY DEF CopyWrite, facts, At
<1>2. FilesMove
  BY <1>1, FilesKnown, Zenon DEF FilesMove, Known
<1>3. FineInv'
  BY <1>1, <1>2, MovesFine, Zenon DEF CallsMove
<1>4. ASSUME ~overlap PROVE FilesInv' /\ AloneInv' /\ \A q \in Processes : SoleInv(q)'
  <2>1. pc[p] # "idle" /\ SoleInv(p) /\ FilesInv /\ Sound
    BY <1>1, <1>4, Kinds, Zenon DEF KeptInv, KeyFileInv, Covered, IsDocument
  <2>2. FilesInv'
    BY <1>1, <2>1, CopyMoves, NeededSame, Zenon
  <2>3. pc'[p] = "copied"
    BY <1>1, Zenon DEF Go, KeptInv, KeyFileInv, TypeInv
  <2>4. SoleInv(p)'
    BY <1>1, <2>1, <2>3, Zenon DEF SoleInv, Writing, Creating, Rotating, Rewriting, Locked, IsDocument
  <2> QED BY <1>1, <1>4, <2>1, <2>2, <2>4, GoSole, Zenon
<1> QED BY <1>1, <1>3, <1>4, Zenon DEF StepKept

\* It is synced: what can be read stays.
LEMMA CopySyncKept ==
    ASSUME KeptInv, NEW p \in Processes, CopySync(p)
    PROVE  StepKept
<1>1. /\ pc[p] = "copied" /\ copySaved' = copy /\ Go(p, "overwriting")
      /\ UNCHANGED <<path, copy, pathSaved, base, next, gen, creating, linked, keys, overlap>>
      /\ UNCHANGED <<held, sealed, doomed, erased>>
  BY DEF CopySync, facts, At
<1>2. FilesMove
  BY <1>1, FilesKnown, Zenon DEF FilesMove
<1>3. FineInv'
  BY <1>1, <1>2, MovesFine, Zenon DEF CallsMove
<1>4. ASSUME ~overlap PROVE FilesInv' /\ AloneInv' /\ \A q \in Processes : SoleInv(q)'
  <2>1. pc[p] # "idle" /\ SoleInv(p) /\ FilesInv
    BY <1>1, <1>4, Zenon DEF KeptInv
  <2>2. FilesInv'
    BY <1>1, <2>1, FilesStay, NeededSame, Zenon
  <2>3. pc'[p] = "overwriting"
    BY <1>1, Zenon DEF Go, KeptInv, KeyFileInv, TypeInv
  <2>4. SoleInv(p)'
    BY <1>1, <2>1, <2>3, Zenon DEF SoleInv, Writing, Creating, Rotating, Rewriting, Locked, IsDocument
  <2> QED BY <1>1, <1>4, <2>1, <2>2, <2>4, GoSole, Zenon
<1> QED BY <1>1, <1>3, <1>4, Zenon DEF StepKept

\* It cannot be written, and is removed before the file was touched.
LEMMA CopyFailsKept ==
    ASSUME KeptInv, NEW p \in Processes, CopyFails(p)
    PROVE  StepKept
<1>1. /\ pc[p] = "copied" /\ copy' = Nothing /\ copySaved' = Nothing /\ Finish(p)
      /\ UNCHANGED <<path, pathSaved, keys, overlap>> /\ UNCHANGED <<held, sealed, doomed, erased>>
  BY DEF CopyFails, facts, At, Return
<1>2. FilesMove
  BY <1>1, FilesKnown, Zenon DEF FilesMove, Known
<1>3. FineInv'
  BY <1>1, <1>2, FinishMoves, MovesFine, Zenon
<1>4. ASSUME ~overlap PROVE FilesInv' /\ AloneInv' /\ \A q \in Processes : SoleInv(q)'
  <2>1. pc[p] # "idle" /\ FilesInv /\ Sound
    BY <1>1, <1>4, Zenon DEF KeptInv, KeyFileInv, RewriteInv
  <2>2. FilesInv'
    BY <1>1, <2>1, CopyMoves, NeededSame, Zenon
  <2> QED BY <1>1, <1>4, <2>1, <2>2, FinishSole, Zenon
<1> QED BY <1>1, <1>3, <1>4, Zenon DEF StepKept

\* A generation's overwriting begins: the copy has every other key of the file.
LEMMA RewriteFiles ==
    ASSUME KeptInv, ~overlap, NEW p \in Processes, pc[p] = "overwriting", Overwrite(p)
    PROVE  path' = Torn /\ FilesInv'
<1>1. SoleInv(p) /\ FilesInv /\ gen[p] # 0 /\ copy = next[p]
  BY Zenon DEF KeptInv, KeyFileInv, CallInv, RewriteInv
<1>2. /\ path = base[p] /\ pathSaved = base[p] /\ IsDocument(base[p])
      /\ gen[p] \in DOMAIN base[p].gens /\ copy = EraseGeneration(base[p], gen[p])
  BY <1>1, Zenon DEF SoleInv, Rewriting, Locked
<1> DEFINE k == base[p].gens[gen[p]]
<1>3. KeysOf(copy) = KeysOf(base[p]) \ {k}
  BY <1>2, EraseKeys DEF KeptInv, FineInv
<1>4. /\ path' = Torn /\ doomed' = doomed \cup {k} /\ UNCHANGED <<copy, pathSaved, held, sealed, erased>>
  BY <1>1, Zenon DEF Overwrite, Taken
<1> HIDE DEF k
<1>5. Opens(path) = KeysOf(base[p]) /\ Opens(pathSaved) = KeysOf(base[p])
  BY <1>2, Zenon DEF Opens, IsDocument
<1>6. Needed \subseteq KeysOf(base[p]) /\ erased \cap KeysOf(base[p]) = {}
  BY <1>1, <1>5, Zenon DEF FilesInv, FileOK, Kept
<1>7. Needed' \subseteq KeysOf(base[p]) \ {k}
  BY <1>4, <1>6, Zenon DEF Needed
<1>8. KeysOf(Torn) = {} /\ Torn.kind = "torn"
  BY BlankFine, Kinds DEF KeptInv, FineInv
<1>9. Kept' \subseteq KeysOf(copy) /\ erased' \cap KeysOf(copy) = {}
  BY <1>3, <1>4, <1>6, <1>7, <1>8, Zenon DEF Kept
<1>10. Opens(path)' = KeysOf(copy) /\ Opens(Torn)' = KeysOf(copy) /\ Opens(pathSaved)' = KeysOf(base[p])
  <2>1. Opens(pathSaved)' = KeysOf(base[p])
    BY <1>2, <1>4, Zenon DEF Opens, IsDocument
  <2> QED BY <1>4, <1>8, <2>1, Zenon DEF Opens
<1>11. KeysOf(copy) \subseteq KeysOf(base[p])
  BY <1>3, Zenon
<1>12. FileOK(path)' /\ FileOK(Torn)' /\ FileOK(pathSaved)'
  BY <1>4, <1>6, <1>9, <1>10, <1>11, Zenon DEF FileOK
<1> QED BY <1>4, <1>12, Zenon DEF FilesInv

\* The destruction of the file begins: every key it has is taken.
LEMMA DestroyFiles ==
    ASSUME KeptInv, ~overlap, NEW p \in Processes, pc[p] = "destroying", Overwrite(p)
    PROVE  path' = Zeros /\ FilesInv'
<1>1. SoleInv(p) /\ FilesInv /\ gen[p] = 0
  BY Zenon DEF KeptInv, KeyFileInv, CallInv
<1>2. path = base[p] /\ IsDocument(base[p])
  BY <1>1, Zenon DEF SoleInv, Locked
<1>3. /\ path' = Zeros /\ doomed' = doomed \cup KeysOf(path) /\ UNCHANGED <<copy, pathSaved, held, sealed, erased>>
  BY <1>1, <1>2, Zenon DEF Overwrite, Taken
<1>4. Needed \subseteq KeysOf(path)
  BY <1>1, <1>2, Zenon DEF FilesInv, FileOK, Kept, Opens, IsDocument
<1>5. Needed' = {}
  BY <1>3, <1>4, Zenon DEF Needed
<1>6. KeysOf(Zeros) = {} /\ Zeros.kind = "zeros"
  BY BlankFine, Kinds DEF KeptInv, FineInv
<1>7. Kept' = {} /\ Opens(path)' = {}
  BY <1>3, <1>5, <1>6, Zenon DEF Kept, Opens
<1>8. Opens(pathSaved)' = Opens(pathSaved)
  BY <1>3, Zenon DEF Opens
<1>9. FileOK(path)' /\ FileOK(pathSaved)'
  BY <1>1, <1>3, <1>7, <1>8, Zenon DEF FilesInv, FileOK
<1> QED BY <1>3, <1>6, <1>9, Zenon DEF FilesInv

\* caseKeyOverwrite and caseKeyFileDestroy begin to overwrite the file.
LEMMA OverwriteKept ==
    ASSUME KeptInv, NEW p \in Processes, Overwrite(p)
    PROVE  StepKept
<1>1. /\ pc[p] \in {"overwriting", "destroying"} /\ path' \in {Zeros, Torn}
      /\ linked' = linked \cup {p} /\ Go(p, IF gen[p] = 0 THEN "zeroed" ELSE "half")
      /\ UNCHANGED <<copy, pathSaved, copySaved, base, next, gen, creating, keys, held, erased, overlap>>
  BY DEF Overwrite
<1>2. FilesMove
  BY <1>1, FilesKnown, Zenon DEF FilesMove, Known
<1>3. FineInv'
  BY <1>1, <1>2, MovesFine, Zenon DEF CallsMove
<1>4. ASSUME ~overlap PROVE FilesInv' /\ AloneInv' /\ \A q \in Processes : SoleInv(q)'
  <2>1. pc[p] # "idle" /\ SoleInv(p)
    BY <1>1, <1>4, Zenon DEF KeptInv
  <2>2. pc[p] = "overwriting" => gen[p] # 0
    BY DEF KeptInv, KeyFileInv, CallInv
  <2>3. pc[p] = "destroying" => gen[p] = 0
    BY DEF KeptInv, KeyFileInv, CallInv
  <2>4. FilesInv' /\ (gen[p] = 0 => path'.kind = "zeros")
    BY <1>1, <1>4, <2>2, <2>3, RewriteFiles, DestroyFiles, Kinds, Zenon
  <2>5. pc'[p] = IF gen[p] = 0 THEN "zeroed" ELSE "half"
    BY <1>1, Zenon DEF Go, KeptInv, KeyFileInv, TypeInv
  <2>6. SoleInv(p)'
    <3>1. CASE gen[p] = 0
      BY <1>1, <2>1, <2>4, <2>5, <3>1, Zenon DEF SoleInv, Writing, Creating, Rotating, Rewriting, Locked, IsDocument
    <3>2. CASE gen[p] # 0
      BY <1>1, <2>1, <2>3, <2>5, <3>2, Zenon DEF SoleInv, Writing, Creating, Rotating, Rewriting, Locked, IsDocument
    <3> QED BY <3>1, <3>2
  <2> QED BY <1>1, <1>4, <2>1, <2>4, <2>6, GoSole, Zenon
<1> QED BY <1>1, <1>3, <1>4, Zenon DEF StepKept

\* The overwriting of a generation ends: the file is the copy.
LEMMA RewrittenFiles ==
    ASSUME KeptInv, ~overlap, NEW p \in Processes, OverwriteEnds(p)
    PROVE  FilesInv'
<1>1. SoleInv(p) /\ FilesInv /\ pc[p] = "half" /\ gen[p] # 0 /\ copy = next[p] /\ IsDocument(copy)
  BY Zenon DEF KeptInv, KeyFileInv, CallInv, RewriteInv, Covered, OverwriteEnds, At
<1>2. p \in linked /\ path = Torn
  BY <1>1, Zenon DEF SoleInv, KeptInv, KeyFileInv, RewriteInv
<1>3. path' = copy /\ UNCHANGED <<copy, pathSaved, held, sealed, doomed, erased>>
  BY <1>1, <1>2, Zenon DEF OverwriteEnds, facts
<1>4. /\ pathSaved = base[p] \/ pathSaved = Torn
      /\ IsDocument(base[p]) /\ gen[p] \in DOMAIN base[p].gens /\ copy = EraseGeneration(base[p], gen[p])
  BY <1>1, Zenon DEF SoleInv, Locked
<1>5. KeysOf(copy) \subseteq KeysOf(base[p])
  <2>1. KeysOf(copy) = KeysOf(base[p]) \ {base[p].gens[gen[p]]}
    BY <1>4, EraseKeys DEF KeptInv, FineInv
  <2> QED BY <2>1
<1>6. KeysOf(Torn) = {} /\ Torn.kind = "torn"
  BY BlankFine, Kinds DEF KeptInv, FineInv
<1>7. Opens(Torn) = KeysOf(copy) /\ Opens(Torn)' = KeysOf(copy)
  BY <1>3, <1>6, Zenon DEF Opens
<1>8. Needed \subseteq KeysOf(copy) /\ erased \cap KeysOf(copy) = {}
  BY <1>1, <1>2, <1>7, Zenon DEF FilesInv, FileOK, Kept
<1>9. Needed' = Needed
  BY <1>3, NeededSame, Zenon
<1>10. Kept' \subseteq KeysOf(copy)
  BY <1>3, <1>8, <1>9, Zenon DEF Kept
<1>11. Opens(path)' = KeysOf(copy) /\ KeysOf(copy) \subseteq Opens(pathSaved)'
  <2>1. Opens(path)' = KeysOf(copy)
    BY <1>1, <1>3, Zenon DEF Opens, IsDocument
  <2>2. KeysOf(copy) \subseteq Opens(pathSaved)'
    BY <1>3, <1>4, <1>5, <1>6, Zenon DEF Opens
  <2> QED BY <2>1, <2>2
<1>12. Opens(pathSaved)' = Opens(pathSaved)
  BY <1>3, Zenon DEF Opens
<1>13. erased' \cap Opens(pathSaved)' = {} /\ erased' = erased
  BY <1>1, <1>3, <1>12, Zenon DEF FilesInv, FileOK
<1>14. FileOK(path)' /\ FileOK(pathSaved)' /\ FileOK(Torn)'
  BY <1>7, <1>8, <1>10, <1>11, <1>13, Zenon DEF FileOK
<1> QED BY <1>14, Zenon DEF FilesInv

\* caseKeyOverwrite has written the whole document.
LEMMA OverwriteEndsKept ==
    ASSUME KeptInv, NEW p \in Processes, OverwriteEnds(p)
    PROVE  StepKept
<1>1. /\ pc[p] = "half" /\ path' \in {next[p], path} /\ Go(p, "whole")
      /\ UNCHANGED <<copy, pathSaved, copySaved, base, next, gen, creating, linked, keys, held, overlap>>
  BY DEF OverwriteEnds, At, facts
<1>2. FilesMove
  BY <1>1, FilesKnown, Zenon DEF FilesMove
<1>3. FineInv'
  BY <1>1, <1>2, MovesFine, Zenon DEF CallsMove
<1>4. ASSUME ~overlap PROVE FilesInv' /\ AloneInv' /\ \A q \in Processes : SoleInv(q)'
  <2>1. SoleInv(p) /\ pc'[p] = "whole" /\ pc[p] # "idle"
    BY <1>1, <1>4, Zenon DEF KeptInv, Go, KeyFileInv, TypeInv
  <2>2. SoleInv(p)'
    BY <1>1, <2>1, Zenon DEF SoleInv, Writing, Creating, Rotating, Rewriting, Locked
  <2> QED BY <1>1, <1>4, <2>1, <2>2, RewrittenFiles, GoSole, Zenon
<1> QED BY <1>1, <1>3, <1>4, Zenon DEF StepKept

\* The file on the disk becomes the file there is.
LEMMA SavedFiles ==
    ASSUME KeptInv, ~overlap, UNCHANGED <<path, copy, held, sealed, doomed, erased>>, pathSaved' \in {path, pathSaved}
    PROVE  FilesInv'
<1>1. FilesInv /\ Needed' \subseteq Needed /\ Needed' \subseteq Kept
  BY NeededSame DEF KeptInv
<1>2. CASE pathSaved' = pathSaved
  BY <1>1, <1>2, FilesStay, Zenon
<1>3. CASE pathSaved' = path
  <2>1. Opens(path)' = Opens(path) /\ erased \cap Opens(path) = {}
    BY <1>1, Zenon DEF Opens, FilesInv, FileOK
  <2> QED BY <1>1, <1>3, <2>1, FilesAgree, Zenon
<1> QED BY <1>2, <1>3

\* The overwritten file is synced.
LEMMA PathSyncKept ==
    ASSUME KeptInv, NEW p \in Processes, PathSync(p)
    PROVE  StepKept
<1>1. /\ pc[p] \in {"whole", "zeroed"} /\ pathSaved' \in {path, pathSaved}
      /\ Go(p, IF gen[p] = 0 THEN "removing" ELSE "tidying")
      /\ UNCHANGED <<path, copy, copySaved, base, next, gen, creating, linked, keys, overlap>>
      /\ UNCHANGED <<held, sealed, doomed, erased>>
  BY DEF PathSync, facts
<1>2. FilesMove
  BY <1>1, FilesKnown, Zenon DEF FilesMove
<1>3. FineInv'
  BY <1>1, <1>2, MovesFine, Zenon DEF CallsMove
<1>4. ASSUME ~overlap PROVE FilesInv' /\ AloneInv' /\ \A q \in Processes : SoleInv(q)'
  <2>1. SoleInv(p) /\ pc[p] # "idle" /\ pc'[p] = IF gen[p] = 0 THEN "removing" ELSE "tidying"
    BY <1>1, <1>4, Zenon DEF KeptInv, Go, KeyFileInv, TypeInv
  <2>2. pc[p] = "whole" => gen[p] # 0
    BY DEF KeptInv, KeyFileInv, CallInv
  <2>3. FilesInv'
    BY <1>1, <1>4, SavedFiles, Zenon
  <2>4. SoleInv(p)'
    <3>1. CASE gen[p] = 0
      BY <1>1, <2>1, <2>2, <3>1, Zenon DEF SoleInv, Writing, Creating, Rotating, Rewriting, Locked
    <3>2. CASE gen[p] # 0
      BY <1>1, <2>1, <3>2, Zenon DEF SoleInv, Writing, Creating, Rotating, Rewriting, Locked
    <3> QED BY <3>1, <3>2
  <2> QED BY <1>1, <1>4, <2>1, <2>3, <2>4, GoSole, Zenon
<1> QED BY <1>1, <1>3, <1>4, Zenon DEF StepKept

\* caseKeyFileDestroy removes the file of zeros.
LEMMA RemoveKept ==
    ASSUME KeptInv, NEW p \in Processes, Remove(p)
    PROVE  StepKept
<1>1. /\ pc[p] = "removing" /\ path' = Nothing /\ pathSaved' = Nothing /\ Go(p, "recording")
      /\ UNCHANGED <<copy, copySaved, base, next, gen, creating, keys, overlap>>
      /\ UNCHANGED <<held, sealed, doomed, erased>>
  BY DEF Remove, At, facts
<1>2. FilesMove
  BY <1>1, FilesKnown, Zenon DEF FilesMove, Known
<1>3. FineInv'
  BY <1>1, <1>2, MovesFine, Zenon DEF CallsMove
<1>4. ASSUME ~overlap PROVE FilesInv' /\ AloneInv' /\ \A q \in Processes : SoleInv(q)'
  <2>1. SoleInv(p) /\ pc[p] # "idle" /\ pc'[p] = "recording" /\ gen[p] = 0
    BY <1>1, <1>4, Zenon DEF KeptInv, Go, KeyFileInv, TypeInv, CallInv
  <2>2. path.kind = "zeros"
    BY <1>1, <2>1, Zenon DEF SoleInv
  <2>3. FilesInv'
    BY <1>1, <1>4, <2>2, BlankedFiles, Zenon
  <2>4. SoleInv(p)'
    BY <1>1, <2>1, Zenon DEF SoleInv, Writing, Creating, Rotating, Rewriting, Locked
  <2> QED BY <1>1, <1>4, <2>1, <2>3, <2>4, GoSole, Zenon
<1> QED BY <1>1, <1>3, <1>4, Zenon DEF StepKept

\* The copy is removed, and the file read back.
LEMMA CheckRewriteKept ==
    ASSUME KeptInv, NEW p \in Processes, CheckRewrite(p)
    PROVE  StepKept
<1>1. /\ pc[p] = "tidying" /\ copy' = Nothing /\ copySaved' = Nothing
      /\ UNCHANGED <<path, pathSaved, keys, overlap>> /\ UNCHANGED <<held, sealed, doomed, erased>>
  BY DEF CheckRewrite, At, facts
<1>2. \/ path = next[p] /\ Go(p, "recording") /\ UNCHANGED <<base, next, gen, creating>>
      \/ Finish(p)
  BY DEF CheckRewrite, Return
<1>3. FilesMove
  BY <1>1, FilesKnown, Zenon DEF FilesMove, Known
<1>4. CallsMove
  BY <1>1, <1>2, FinishMoves, Zenon DEF CallsMove
<1>5. FineInv'
  BY <1>1, <1>3, <1>4, MovesFine, Zenon
<1>6. ASSUME ~overlap PROVE FilesInv' /\ AloneInv' /\ \A q \in Processes : SoleInv(q)'
  <2>1. SoleInv(p) /\ FilesInv /\ pc[p] # "idle" /\ Sound /\ gen[p] # 0 /\ IsDocument(next[p])
    BY <1>1, <1>6, Zenon DEF KeptInv, KeyFileInv, RewriteInv, CallInv, Locked
  <2>2. FilesInv'
    BY <1>1, <2>1, NeededSame, CopyMoves, Zenon
  <2>3. CASE Finish(p)
    BY <1>6, <2>1, <2>2, <2>3, FinishSole, Zenon
  <2>4. CASE path = next[p] /\ Go(p, "recording") /\ UNCHANGED <<base, next, gen, creating>>
    <3>1. path = pathSaved
      BY <2>1, <2>4 DEF Sound, IsDocument
    <3>2. pc'[p] = "recording"
      BY <2>4, Zenon DEF KeptInv, Go, KeyFileInv, TypeInv
    <3>3. SoleInv(p)'
      BY <1>1, <2>1, <2>4, <3>1, <3>2, Zenon DEF SoleInv, Writing, Creating, Rotating, Rewriting, Locked
    <3> QED BY <1>6, <2>1, <2>2, <2>4, <3>3, GoSole, Zenon
  <2> QED BY <1>2, <2>3, <2>4
<1> QED BY <1>1, <1>5, <1>6, Zenon DEF StepKept

\* The generations of a document are among the first n keys, or erased.
LEMMA FineGens ==
    ASSUME NEW c, NEW n \in Nat, Fine(c, n)
    PROVE  KeysOf(c) \subseteq 0..n /\ \A g \in DOMAIN c.gens : c.gens[g] \in 0..n
<1>1. PICK s \in Seq(0..n) : s = c.gens
  BY DEF Fine
<1>2. \A g \in DOMAIN s : s[g] \in 0..n
  BY <1>1
<1> QED BY <1>1, <1>2, Zenon DEF KeysOf

\* What the ledger says was erased when an erasure is committed is not in the file.
LEMMA CommitFiles ==
    ASSUME KeptInv, ~overlap, NEW p \in Processes, Commit(p)
    PROVE  FilesInv' /\ erased' \subseteq 0..keys'
<1>1. SoleInv(p) /\ FilesInv /\ pc[p] = "recording" /\ erased \subseteq 0..keys /\ keys \in Nat
  BY DEF KeptInv, FineInv, Commit, At
<1>2. /\ erased' = erased \cup Taken(p) /\ UNCHANGED <<path, pathSaved, copy>> /\ sealed' = sealed /\ doomed' = doomed
      /\ keys' = keys /\ held' = [held EXCEPT ![p] = IF @ \in Taken(p) \/ gen[p] = 0 THEN 0 ELSE @]
  BY DEF Commit, files, EraseKey
<1>3. IsDocument(base[p]) /\ Fine(base[p], keys) /\ path = pathSaved
  BY <1>1, Zenon DEF SoleInv, Locked, KeptInv, FineInv
<1>4. Opens(path)' = Opens(path) /\ erased \cap Opens(path) = {}
  BY <1>1, <1>2, Zenon DEF Opens, FilesInv, FileOK
<1>5. Taken(p) \cap Opens(path) = {} /\ Taken(p) \subseteq 0..keys
  <2>1. CASE gen[p] = 0
    <3>1. path = Nothing
      BY <1>1, <2>1, Zenon DEF SoleInv
    <3>2. Opens(path) = {}
      BY <3>1, BlankFile, FilesKnown, Kinds
    <3>3. KeysOf(base[p]) \subseteq 0..keys
      BY <1>1, <1>3, FineGens
    <3> QED BY <2>1, <3>2, <3>3, Zenon DEF Taken
  <2>2. CASE gen[p] # 0
    <3>1. gen[p] \in DOMAIN base[p].gens /\ path = EraseGeneration(base[p], gen[p])
      BY <1>1, <2>2, Zenon DEF SoleInv, Locked
    <3>2. KeysOf(path) = KeysOf(base[p]) \ {base[p].gens[gen[p]]}
      BY <1>1, <1>3, <3>1, EraseKeys
    <3>3. Opens(path) = KeysOf(path)
      BY <3>1, Kinds, Zenon DEF Opens, IsDocument
    <3>4. base[p].gens[gen[p]] \in 0..keys
      BY <1>1, <1>3, <3>1, FineGens, Zenon
    <3> QED BY <2>2, <3>2, <3>3, <3>4, Zenon DEF Taken
  <2> QED BY <2>1, <2>2
<1>6. \A q \in Processes : held'[q] \in {0, held[q]}
  BY <1>2, Zenon DEF KeptInv, FineInv
<1>7. Needed' \subseteq Needed
  BY <1>2, <1>6, NeededShrinks, Zenon
<1>8. erased' \cap Opens(path)' = {}
  BY <1>2, <1>4, <1>5, Zenon
<1>9. FilesInv'
  BY <1>1, <1>2, <1>3, <1>4, <1>7, <1>8, FilesAgree, Zenon
<1> QED BY <1>1, <1>2, <1>5, <1>9, Zenon

\* The erasure is committed to the ledger.
LEMMA CommitKept ==
    ASSUME KeptInv, NEW p \in Processes, Commit(p)
    PROVE  StepKept
<1>1. /\ pc[p] # "idle" /\ Finish(p) /\ UNCHANGED files /\ UNCHANGED <<keys, overlap>>
      /\ \E h : held' = [held EXCEPT ![p] = h]
  BY Zenon DEF Commit, At, Return, EraseKey
<1>2. FineInv'
  BY <1>1, FinishMoves, QuietFine, Zenon
<1> QED BY <1>1, <1>2, CommitFiles, FinishSole, Zenon DEF StepKept

\* A call gives up, and the files stay as they are or lose the claim.
LEMMA GivesUpKept ==
    ASSUME KeptInv, NEW p \in Processes,
           CreateRefused(p) \/ RotateRefused(p) \/ TempFails(p) \/ OverwriteFails(p) \/ CommitFails(p)
    PROVE  StepKept
<1>1. CASE CreateRefused(p)
  BY <1>1, ClaimRemovedKept DEF CreateRefused, At, facts
<1>2. CASE RotateRefused(p)
  BY <1>2, ReturnKept DEF RotateRefused, At, facts, Return
<1>3. CASE TempFails(p)
  <2>1. Writing(p) /\ Finish(p) /\ UNCHANGED <<copy, copySaved, keys, held, sealed, doomed, erased, overlap>>
    BY <1>3 DEF TempFails, Writing, facts
  <2>2. CASE p \in creating
    BY <1>3, <2>1, <2>2, ClaimRemovedKept, Zenon DEF TempFails
  <2>3. CASE p \notin creating
    <3>1. UNCHANGED files /\ pc[p] # "idle"
      BY <1>3, <2>1, <2>3 DEF TempFails, files, Writing
    <3> QED BY <2>1, <3>1, ReturnKept, Zenon
  <2> QED BY <2>2, <2>3
<1>4. CASE OverwriteFails(p)
  BY <1>4, ReturnKept DEF OverwriteFails, facts, Return
<1>5. CASE CommitFails(p)
  <2>1. /\ pc[p] # "idle" /\ Finish(p) /\ UNCHANGED files /\ UNCHANGED <<keys, sealed, doomed, erased, overlap>>
        /\ held' = [held EXCEPT ![p] = IF held[p] \in Taken(p) \/ gen[p] = 0 THEN 0 ELSE held[p]]
    BY <1>5, Zenon DEF CommitFails, At, Return, EraseKey
  <2>2. \E h \in {0, held[p]} : held' = [held EXCEPT ![p] = h]
    BY <2>1, Zenon
  <2> QED BY <2>1, <2>2, ReturnKept, Zenon
<1> QED BY <1>1, <1>2, <1>3, <1>4, <1>5

\* A step that leaves the calls alone, and the file as the calls expect it.
LEMMA SoleSame ==
    ASSUME AloneInv, \A q \in Processes : SoleInv(q),
           UNCHANGED <<path, pathSaved, pc, base, next, gen, creating, linked, erased>>
    PROVE  AloneInv' /\ \A q \in Processes : SoleInv(q)'
<1>1. AloneInv'
  BY Zenon DEF AloneInv
<1>2. ASSUME NEW q \in Processes PROVE SoleInv(q)'
  <2>1. SoleInv(q)
    OBVIOUS
  <2> QED BY <2>1, Zenon DEF SoleInv, Writing, Creating, Rotating, Rewriting
<1> QED BY <1>1, <1>2

\* A process opens a key the file has, or seals a record under the one it has open.
LEMMA UseKept ==
    ASSUME KeptInv, NEW p \in Processes, Use(p)
    PROVE  StepKept
<1>1. UNCHANGED <<files, calls, keys, doomed, erased, overlap>>
  BY Zenon DEF Use, KeyOpen, Seal
<1>2. UNCHANGED <<path, copy, pathSaved, copySaved, pc, base, next, gen, creating, linked, keys, doomed, erased, overlap>>
  BY <1>1 DEF files, calls
<1>3. held' = held \/ \E h : held' = [held EXCEPT ![p] = h]
  BY Zenon DEF Use, KeyOpen, Seal
<1>4. FineInv'
  BY <1>1, <1>2, <1>3, QuietFine, Zenon DEF CallsMove
<1>5. ASSUME ~overlap PROVE FilesInv' /\ AloneInv' /\ \A q \in Processes : SoleInv(q)'
  <2>1. Needed' \subseteq Kept
    <3>1. ASSUME NEW g \in 1..MaxKeys, KeyOpen(p, g) PROVE Needed' \subseteq Kept
      <4>1. path.gens[g] \in KeysOf(path)
        BY <3>1 DEF KeyOpen, Erased, KeysOf
      <4>2. held' = [held EXCEPT ![p] = path.gens[g]] /\ sealed' = sealed
        BY <3>1 DEF KeyOpen
      <4>3. \A q \in Processes : held'[q] = held[q] \/ held'[q] \in KeysOf(path)
        BY <4>1, <4>2, Zenon DEF KeptInv, FineInv
      <4> QED BY <1>2, <4>2, <4>3, ZenonT(40) DEF Needed, Kept
    <3>2. ASSUME Seal(p) PROVE Needed' \subseteq Kept
      <4>1. held[p] # 0 /\ sealed' = sealed \cup {held[p]} /\ held' = held
        BY <3>2 DEF Seal
      <4> QED BY <1>2, <4>1, Zenon DEF Needed, Kept
    <3> QED BY <3>1, <3>2, Zenon DEF Use
  <2>2. FilesInv'
    BY <1>1, <1>2, <1>5, <2>1, QuietFiles, Zenon
  <2> QED BY <1>2, <1>5, <2>2, SoleSame, Zenon DEF KeptInv
<1> QED BY <1>2, <1>4, <1>5, Zenon DEF StepKept

\* A process dies, in a call or with only a key open.
LEMMA ProcessDiesKept ==
    ASSUME KeptInv, NEW p \in Processes, ProcessDies(p)
    PROVE  StepKept
<1>1. /\ Finish(p) /\ UNCHANGED files /\ UNCHANGED <<keys, sealed, doomed, erased, overlap>>
      /\ held' = [held EXCEPT ![p] = 0] /\ linked' = linked \ {p}
  BY DEF ProcessDies, Return
<1>2. CASE pc[p] # "idle"
  BY <1>1, <1>2, ReturnKept, Zenon
<1>3. CASE pc[p] = "idle"
  <2>1. FineInv'
    BY <1>1, FinishMoves, QuietFine, Zenon
  <2>2. ASSUME ~overlap PROVE FilesInv' /\ AloneInv' /\ \A q \in Processes : SoleInv(q)'
    <3>1. \A q \in Processes : held'[q] \in {0, held[q]}
      BY <1>1, Zenon DEF KeptInv, FineInv
    <3>2. Needed' \subseteq Kept
      BY <1>1, <3>1, NeededShrinks, Zenon DEF Kept
    <3>3. FilesInv'
      BY <1>1, <2>2, <3>2, QuietFiles, Zenon
    <3>4. /\ pc' = [pc EXCEPT ![p] = "idle"] /\ base' = [base EXCEPT ![p] = Nothing]
          /\ next' = [next EXCEPT ![p] = Nothing] /\ gen' = [gen EXCEPT ![p] = 0] /\ creating' = creating \ {p}
      BY <1>1 DEF Finish, Go
    <3>5. pc'[p] = "idle" /\ p \notin creating'
      BY <3>4, Zenon DEF KeptInv, KeyFileInv, TypeInv
    <3>6. ASSUME NEW q \in Processes, q # p
          PROVE  pc'[q] = pc[q] /\ base'[q] = base[q] /\ next'[q] = next[q] /\ gen'[q] = gen[q]
                 /\ (q \in creating' <=> q \in creating) /\ (q \in linked' <=> q \in linked)
      BY <1>1, <3>4, <3>6, Zenon DEF KeptInv, KeyFileInv, TypeInv, FineInv
    <3>7. AloneInv'
      BY <1>3, <2>2, <3>5, <3>6, Zenon DEF AloneInv, KeptInv
    <3>8. ASSUME NEW q \in Processes PROVE SoleInv(q)'
      <4>1. CASE q = p
        BY <3>5, <4>1, Zenon DEF SoleInv, Writing, Creating, Rotating, Rewriting, Locked
      <4>2. CASE q # p
        <5>1. SoleInv(q) /\ path' = path /\ pathSaved' = pathSaved /\ erased' = erased
          BY <1>1, <2>2, Zenon DEF KeptInv, files
        <5> QED BY <3>6, <4>2, <5>1, Zenon DEF SoleInv, Writing, Creating, Rotating, Rewriting
      <4> QED BY <4>1, <4>2
    <3> QED BY <3>3, <3>7, <3>8
  <2> QED BY <1>1, <2>1, <2>2, Zenon DEF StepKept
<1> QED BY <1>2, <1>3

\* The power fails: whatever is left of the file has every key that is needed,
\* with the copy when it is torn.
LEMMA PowerLossFiles ==
    ASSUME KeptInv, ~overlap, PowerLoss
    PROVE  FilesInv'
<1>1. FilesInv /\ (~Covered => Sound)
  BY DEF KeptInv, KeyFileInv
<1>2. PICK c \in Outcomes(path, pathSaved) : path' = c /\ pathSaved' = c
  BY DEF PowerLoss
<1>3. /\ copy' \in Outcomes(copy, copySaved) /\ UNCHANGED <<sealed, doomed, erased>>
      /\ held' = [p \in Processes |-> 0]
  BY DEF PowerLoss
<1>4. \/ c = path \/ c = pathSaved \/ (path.kind = "zeros" /\ c = Zeros)
      \/ (path # pathSaved /\ path.kind # "zeros" /\ c = Torn)
  BY <1>2, Zenon DEF Outcomes
<1>5. KeysOf(Zeros) = {} /\ Opens(Zeros) = {}
  BY BlankFine, Kinds, Zenon DEF Opens, KeptInv, FineInv
<1>6. FileOK(c)
  <2>1. CASE path.kind = "zeros" /\ c = Zeros
    <3>1. Opens(path) = {}
      BY <2>1, BlankFile, FilesKnown
    <3> QED BY <1>1, <1>5, <2>1, <3>1, Zenon DEF FilesInv, FileOK
  <2> QED BY <1>1, <1>4, <2>1, Zenon DEF FilesInv
<1>7. Opens(c)' = Opens(c)
  <2>1. CASE c.kind # "torn"
    BY <2>1, Zenon DEF Opens
  <2>2. CASE c.kind = "torn"
    <3>1. ~Sound
      BY <1>4, <2>2, Kinds, Zenon DEF Sound
    <3>2. copy' = copy
      BY <1>1, <1>3, <3>1, Zenon DEF Covered, Outcomes
    <3> QED BY <3>2, Zenon DEF Opens
  <2> QED BY <2>1, <2>2
<1>8. Needed' \subseteq Needed
  BY <1>3, NeededShrinks, Zenon
<1>9. Kept' \subseteq Opens(c)
  BY <1>2, <1>6, <1>8, Zenon DEF Kept, FileOK, Opens
<1>10. FileOK(path)' /\ FileOK(pathSaved)'
  <2>1. Opens(path)' = Opens(c) /\ Opens(pathSaved)' = Opens(c)
    BY <1>2, <1>7, Zenon DEF Opens
  <2> QED BY <1>3, <1>6, <1>9, <2>1, Zenon DEF FileOK
<1> QED BY <1>2, <1>10, Zenon DEF FilesInv

\* The power fails: every call is over.
LEMMA PowerLossKept ==
    ASSUME KeptInv, PowerLoss
    PROVE  StepKept
<1>1. /\ pc' = [p \in Processes |-> "idle"] /\ base' = [p \in Processes |-> Nothing]
      /\ next' = [p \in Processes |-> Nothing] /\ creating' = {} /\ held' = [p \in Processes |-> 0]
      /\ keys' = keys /\ overlap' = overlap
  BY DEF PowerLoss
<1>2. /\ path' \in Outcomes(path, pathSaved) /\ pathSaved' \in Outcomes(path, pathSaved)
      /\ copy' \in Outcomes(copy, copySaved) /\ copySaved' \in Outcomes(copy, copySaved)
  BY Zenon DEF PowerLoss
<1>3. Known(path') /\ Known(pathSaved') /\ Known(copy') /\ Known(copySaved')
  BY <1>2, Zenon DEF Outcomes, Known
<1>4. FineInv /\ keys \in Nat /\ keys <= keys
  BY DEF KeptInv, FineInv
<1>5. Fine(path', keys) /\ Fine(pathSaved', keys) /\ Fine(copy', keys) /\ Fine(copySaved', keys)
  BY <1>3, <1>4, KnownFine
<1>6. Fine(Nothing, keys)
  BY <1>4, BlankFine
<1>7. FineInv'
  BY <1>1, <1>4, <1>5, <1>6, Zenon DEF FineInv
<1>8. AloneInv'
  BY <1>1, Zenon DEF AloneInv
<1>9. ASSUME NEW q \in Processes PROVE SoleInv(q)'
  <2>1. pc'[q] = "idle" /\ q \notin creating'
    BY <1>1
  <2> QED BY <2>1, Zenon DEF SoleInv, Writing, Creating, Rotating, Rewriting, Locked
<1> QED BY <1>1, <1>7, <1>8, <1>9, PowerLossFiles, Zenon DEF StepKept

\* The system writes back what was not synced: half an overwriting at most.
LEMMA WriteBackKept ==
    ASSUME KeptInv, WriteBack
    PROVE  StepKept
<1>1. /\ pathSaved' = path /\ copySaved' = copy
      /\ UNCHANGED <<path, copy, pc, base, next, gen, creating, linked, keys, overlap>>
      /\ UNCHANGED <<held, sealed, doomed, erased>>
  BY DEF WriteBack, calls, facts
<1>2. FilesMove
  BY <1>1, FilesKnown, Zenon DEF FilesMove
<1>3. FineInv'
  BY <1>1, <1>2, MovesFine, Zenon DEF CallsMove
<1>4. ASSUME ~overlap PROVE FilesInv' /\ AloneInv' /\ \A q \in Processes : SoleInv(q)'
  <2>1. FilesInv'
    BY <1>1, <1>4, SavedFiles, Zenon
  <2>2. AloneInv'
    BY <1>1, <1>4, Zenon DEF AloneInv, KeptInv
  <2>3. ASSUME NEW q \in Processes PROVE SoleInv(q)'
    <3>1. SoleInv(q) /\ (pc[q] = "half" /\ q \in linked => path = Torn)
      BY <1>4, Zenon DEF KeptInv, KeyFileInv, RewriteInv
    <3> QED BY <1>1, <3>1, Zenon DEF SoleInv, Writing, Creating, Rotating, Rewriting
  <2> QED BY <2>1, <2>2, <2>3
<1> QED BY <1>1, <1>3, <1>4, Zenon DEF StepKept

\* The examiner keeps the file that opens and removes the copy.
LEMMA RepairFiles ==
    ASSUME KeptInv, ~overlap, Repair
    PROVE  FilesInv'
<1>1. FilesInv /\ FineInv /\ (~Covered => Sound)
  BY DEF KeptInv, KeyFileInv
<1>2. path = pathSaved /\ UNCHANGED <<held, sealed, doomed, erased>>
  BY DEF Repair, facts
<1>3. Needed' \subseteq Needed /\ erased \cap Opens(path) = {}
  BY <1>1, <1>2, NeededSame, Zenon DEF FilesInv, FileOK
<1>4. CASE IsDocument(path) /\ UNCHANGED <<path, pathSaved>>
  <2>1. Opens(path)' = Opens(path)
    BY <1>4, Zenon DEF Opens, IsDocument
  <2> QED BY <1>1, <1>2, <1>3, <1>4, <2>1, FilesAgree, Zenon
<1>5. CASE path.kind = "torn" /\ path' = copy /\ pathSaved' = copy
  <2>1. IsDocument(copy)
    BY <1>1, <1>5, Zenon DEF Sound, Covered
  <2>2. KeysOf(path) = {}
    <3>1. path.gens = <<>>
      BY <1>1, <1>5, Zenon DEF FineInv, Fine, IsDocument
    <3> QED BY <3>1, BlankKeys
  <2>3. Opens(path) = KeysOf(copy) /\ Opens(path)' = KeysOf(copy)
    BY <1>5, <2>1, <2>2, Zenon DEF Opens, IsDocument
  <2> QED BY <1>1, <1>2, <1>3, <1>5, <2>3, FilesAgree, Zenon
<1> QED BY <1>4, <1>5 DEF Repair

\* No erasure has the locks, and a call that does not need them finds the document it read.
LEMMA RepairKept ==
    ASSUME KeptInv, Repair
    PROVE  StepKept
<1>1. /\ copy' = Nothing /\ copySaved' = Nothing /\ lock = Nobody /\ path = pathSaved
      /\ UNCHANGED <<pc, base, next, gen, creating, keys, overlap>> /\ UNCHANGED <<held, sealed, doomed, erased>>
      /\ \/ path' = path /\ pathSaved' = path
         \/ path.kind = "torn" /\ path' = copy /\ pathSaved' = copy
  BY DEF Repair, facts
<1>2. FilesMove
  BY <1>1, FilesKnown, Zenon DEF FilesMove, Known
<1>3. FineInv'
  BY <1>1, <1>2, MovesFine, Zenon DEF CallsMove
<1>4. ASSUME ~overlap PROVE FilesInv' /\ AloneInv' /\ \A q \in Processes : SoleInv(q)'
  <2>1. AloneInv'
    BY <1>1, <1>4, Zenon DEF AloneInv, KeptInv
  <2>2. ASSUME NEW q \in Processes PROVE SoleInv(q)'
    <3>1. SoleInv(q) /\ pc[q] \notin Locked
      BY <1>1, <1>4, NobodyAssumption, Zenon DEF KeptInv, KeyFileInv, CallInv
    <3>2. CASE path' = path
      BY <1>1, <3>1, <3>2, Zenon DEF SoleInv, Writing, Creating, Rotating, Rewriting, Locked
    <3>3. CASE path.kind = "torn"
      <4>1. ~Creating(q) /\ ~Rotating(q)
        BY <3>1, <3>3, Zenon DEF SoleInv, IsDocument
      <4> QED BY <1>1, <3>1, <4>1, Zenon DEF SoleInv, Writing, Creating, Rotating, Rewriting, Locked
    <3> QED BY <1>1, <3>2, <3>3
  <2> QED BY <1>4, <2>1, <2>2, RepairFiles
<1> QED BY <1>1, <1>3, <1>4, Zenon DEF StepKept

\* A step that leaves every variable as it was.
LEMMA StutterKept ==
    ASSUME KeptInv, UNCHANGED vars
    PROVE  StepKept
<1>1. /\ UNCHANGED <<files, path, pathSaved, copy, keys, overlap>> /\ UNCHANGED <<held, sealed, doomed, erased>>
      /\ UNCHANGED <<pc, base, next, gen, creating, linked>>
  BY DEF vars, files, calls, facts
<1>2. FineInv'
  BY <1>1, QuietFine, Zenon DEF CallsMove
<1>3. ASSUME ~overlap PROVE FilesInv'
  BY <1>1, <1>3, NeededSame, QuietFiles, Zenon
<1> QED BY <1>1, <1>2, <1>3, SoleSame, Zenon DEF StepKept, KeptInv

\* A step that is not a commit leaves the erased keys alone.
LEMMA ErasedStep ==
    ASSUME KeptInv, [Next]_vars, ~overlap, ~(\E p \in Processes : Commit(p))
    PROVE  erased' \subseteq 0..keys'
<1>1. erased \subseteq 0..keys /\ keys \in Nat
  BY DEF KeptInv, FineInv
<1>2. erased' = erased /\ (keys' = keys \/ keys' = keys + 1)
  <2>1. ASSUME NEW p \in Processes, Create(p) \/ Rotate(p) PROVE erased' = erased /\ (keys' = keys \/ keys' = keys + 1)
    BY <2>1, Zenon DEF Create, Rotate, CreateClaim, CreateRefused, CreateWrite, RotateRead, RotateRefused, RotateWrite, facts
  <2>2. ASSUME NEW p \in Processes, Write(p) \/ Use(p) \/ ProcessDies(p) PROVE UNCHANGED <<erased, keys>>
    BY <2>2, Zenon DEF Write, Use, TempSync, TempFails, Rename, KeyOpen, Seal, ProcessDies, facts
  <2>3. ASSUME NEW p \in Processes, Erase(p) PROVE UNCHANGED <<erased, keys>>
    BY <2>3, Zenon DEF Erase, EraseRead, EraseLock, CopyWrite, CopySync, CopyFails, Overwrite, OverwriteEnds,
                PathSync, OverwriteFails, Remove, CheckRewrite, CommitFails, facts
  <2>4. ASSUME PowerLoss \/ WriteBack \/ Repair PROVE UNCHANGED <<erased, keys>>
    BY <2>4 DEF PowerLoss, WriteBack, Repair, facts
  <2>5. ASSUME UNCHANGED vars PROVE UNCHANGED <<erased, keys>>
    BY <2>5 DEF vars, facts
  <2> QED BY <2>1, <2>2, <2>3, <2>4, <2>5, Zenon DEF Next
<1> QED BY <1>1, <1>2

\* That two calls overlapped is never forgotten.
LEMMA OverlapStays ==
    ASSUME [Next]_vars, overlap
    PROVE  overlap'
<1>1. ASSUME NEW p \in Processes, Create(p) \/ Rotate(p) PROVE overlap'
  BY <1>1, Zenon DEF Create, Rotate, CreateClaim, CreateRefused, CreateWrite, RotateRead, RotateRefused, RotateWrite, Begin
<1>2. ASSUME NEW p \in Processes, Write(p) \/ Use(p) \/ ProcessDies(p) PROVE overlap'
  BY <1>2, Zenon DEF Write, Use, TempSync, TempFails, Rename, KeyOpen, Seal, ProcessDies
<1>3. ASSUME NEW p \in Processes, Erase(p) PROVE overlap'
  BY <1>3, Zenon DEF Erase, EraseRead, EraseLock, CopyWrite, CopySync, CopyFails, Overwrite, OverwriteEnds,
              PathSync, OverwriteFails, Remove, CheckRewrite, Commit, CommitFails, Begin
<1>4. ASSUME PowerLoss \/ WriteBack \/ Repair PROVE overlap'
  BY <1>4, Zenon DEF PowerLoss, WriteBack, Repair
<1>5. ASSUME UNCHANGED vars PROVE overlap'
  BY <1>5 DEF vars
<1> QED BY <1>1, <1>2, <1>3, <1>4, <1>5, Zenon DEF Next

-----------------------------------------------------------------------------
(* The theorems on the keys. *)

\* Before there is a key file, no key is needed and none erased.
LEMMA KeptInit == Init => KeptInv
<1> SUFFICES ASSUME Init PROVE KeptInv
  OBVIOUS
<1>1. /\ path = Nothing /\ pathSaved = Nothing /\ copy = Nothing /\ copySaved = Nothing /\ keys = 0
      /\ pc = [p \in Processes |-> "idle"] /\ base = [p \in Processes |-> Nothing]
      /\ next = [p \in Processes |-> Nothing] /\ held = [p \in Processes |-> 0]
      /\ creating = {} /\ sealed = {} /\ erased = {}
  BY DEF Init
<1>2. Fine(Nothing, keys) /\ KeysOf(Nothing) = {} /\ keys \in Nat
  BY <1>1, BlankFine
<1>3. FineInv
  BY <1>1, <1>2, Zenon DEF FineInv
<1>4. FilesInv
  <2>1. Needed = {}
    BY <1>1, Zenon DEF Needed
  <2> QED BY <1>1, <1>2, <2>1, Zenon DEF FilesInv, FileOK, Kept
<1>5. AloneInv
  BY <1>1, Zenon DEF AloneInv
<1>6. ASSUME NEW p \in Processes PROVE SoleInv(p)
  <2>1. pc[p] = "idle" /\ p \notin creating
    BY <1>1
  <2> QED BY <2>1, Zenon DEF SoleInv, Writing, Creating, Rotating, Rewriting, Locked
<1> QED BY <1>1, <1>3, <1>4, <1>5, <1>6, KeyFileInvInit, Zenon DEF KeptInv

\* Every step of every call, and every fault, keeps the keys.
LEMMA KeptNext == KeptInv /\ [Next]_vars => KeptInv'
<1> SUFFICES ASSUME KeptInv, [Next]_vars PROVE KeptInv'
  OBVIOUS
<1>1. KeyFileInv'
  BY KeyFileInvNext DEF KeptInv
<1>2. StepKept
  <2>1. ASSUME NEW p \in Processes, Create(p) \/ Rotate(p) \/ Write(p) PROVE StepKept
    BY <2>1, CreateClaimKept, CreateWriteKept, RotateReadKept, RotateWriteKept, TempSyncKept, RenameKept,
       GivesUpKept, Zenon DEF Create, Rotate, Write
  <2>2. ASSUME NEW p \in Processes, Erase(p) PROVE StepKept
    BY <2>2, EraseReadKept, EraseLockKept, CopyWriteKept, CopySyncKept, CopyFailsKept, OverwriteKept,
       OverwriteEndsKept, PathSyncKept, RemoveKept, CheckRewriteKept, CommitKept, GivesUpKept, Zenon DEF Erase
  <2>3. ASSUME NEW p \in Processes, Use(p) \/ ProcessDies(p) PROVE StepKept
    BY <2>3, UseKept, ProcessDiesKept, Zenon
  <2> QED BY <2>1, <2>2, <2>3, PowerLossKept, WriteBackKept, RepairKept, StutterKept, Zenon DEF Next
<1>3. ASSUME ~overlap' PROVE erased' \subseteq 0..keys'
  <2>1. ~overlap
    BY <1>3, OverlapStays
  <2> QED BY <2>1, ErasedStep, CommitFiles, Zenon
<1> QED BY <1>1, <1>2, <1>3, Zenon DEF KeptInv, StepKept

\* Every document has each case key once; and while no two writing calls
\* overlap, the file, as it is and as a power loss would leave it, has every
\* key still needed and none that was erased.
THEOREM KeysInvariance == Spec => []KeptInv
BY KeptInit, KeptNext, PTL DEF Spec

\* A case key a record was sealed under can be opened from the file, or from
\* the copy beside it, unless an erasure took it, however many processes there
\* are and wherever one of them or the power fails, while no two calls that
\* write the file overlap (case_key_rotate, caseKeyFileRewrite).
THEOREM SealedKeysOpen == Spec => []SealedStillOpens
<1>1. ASSUME KeptInv PROVE SealedStillOpens
  <2>1. ASSUME ~overlap PROVE sealed \subseteq doomed \cup KeysOf(path) \cup KeysOf(copy)
    <3>1. Needed \subseteq Opens(path)
      BY <1>1, <2>1, Zenon DEF KeptInv, FilesInv, FileOK, Kept
    <3> QED BY <3>1, Zenon DEF Needed, Opens
  <2> QED BY <2>1, Zenon DEF SealedStillOpens
<1> QED BY <1>1, KeysInvariance, PTL

\* While no two such calls overlap, no key the ledger says was erased is in
\* the key file (case_key_erase commits only after the file reads back).
THEOREM ErasedKeysGone == Spec => []ErasedLeavesFile
<1>1. ASSUME KeptInv PROVE ErasedLeavesFile
  <2>1. ASSUME ~overlap PROVE erased \cap KeysOf(path) = {}
    BY <1>1, <2>1, Zenon DEF KeptInv, FilesInv, FileOK, Opens
  <2> QED BY <2>1, Zenon DEF ErasedLeavesFile
<1> QED BY <1>1, KeysInvariance, PTL
=============================================================================
