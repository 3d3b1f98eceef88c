------------------------------ MODULE Executor ------------------------------
(***************************************************************************)
(* The batch executor of plex_renamer.executor: apply_plan_iter (copy.py), *)
(* the write-ahead journal (journal.py), the source cleanup pass           *)
(* (cleanup.py) and undo_batch (undo.py), over one shared file system.     *)
(*                                                                         *)
(* The executor is sequential.  What makes it hard is that every step is a *)
(* separate mutation of the disk: a file moves, a journal is rewritten, a  *)
(* source is unlinked.  Each may raise, and the process may die between    *)
(* any two of them; a journal written earlier is then read back by undo,   *)
(* possibly after another batch ran over the same files.                   *)
(*                                                                         *)
(* One journal entry is a key <<op, pos>>: pos 0 is the op's primary file, *)
(* pos 1, 2, ... its sidecars (the code's pair op_index, parent_op_index). *)
(* Directories are left to another module; a file's bytes are abstracted   *)
(* to whose file it was and whether the copy is whole.                     *)
(***************************************************************************)
EXTENDS Naturals, FiniteSets

CONSTANTS
  Path,         \* every file path the plan mentions
  NumOps,       \* ops of the RenamePlan, numbered in plan order
  NumSidecars,  \* sidecars of each op
  Src, Dst,     \* source and target of each key
  Name,         \* final component of each path, used in the review folder
  Depth,        \* number of components of each path, undo's sort key
  CanPreExist,  \* targets that may hold an older file before the first batch
  CanBeOutside, \* sources that may fail a cleanup guard
  PosixRename,  \* os.rename replaces an existing target (FALSE on Windows)
  Absent,       \* no file at a path
  MaxBatches,   \* bound: plans applied
  MaxFaults     \* bound: raised I/O errors, silent corruptions and crashes

Keys == UNION { {i} \X (0 .. NumSidecars[i]) : i \in 1 .. NumOps }
Batches == 1 .. MaxBatches
Names == { Name[p] : p \in Path }

ASSUME PlanAssumption ==
  /\ NumOps \in Nat \ {0}
  /\ NumSidecars \in [1 .. NumOps -> Nat]
  /\ Src \in [Keys -> Path]
  /\ Dst \in [Keys -> Path]
  /\ Depth \in [Path -> Nat]
  /\ CanPreExist \subseteq Path
  /\ CanBeOutside \subseteq Path
  /\ PosixRename \in BOOLEAN
  /\ MaxBatches \in Nat
  /\ MaxFaults \in Nat

\* A file: the path its bytes came from, and the state of this copy of them.
\* "short" differs from the original in size, "bad" in content only.
Blob == [of : Path, is : {"full", "short", "bad"}]

ASSUME AbsentAssumption == Absent \notin Blob

VARIABLES
  fs,         \* the file, or Absent, at each path
  review,     \* the _undo_<batch> folder of each batch: slot -> file
  disk,       \* the journals as last written by os.replace
  mem,        \* the Journal object of the running process
  jb,         \* which journal that object is
  opts,       \* arguments each batch was applied with
  batch,      \* batches started so far
  pc,         \* control point of the process
  cur,        \* key being processed
  succeeded, failed,  \* counters of apply_plan_iter
  todo,       \* verified keys cleanup has yet to unlink
  faults      \* bound on the environment's faults
VARIABLES
  sameFs,     \* ops whose source and target share a file system
  outside,    \* sources outside the guarded input root
  fs0         \* the file system before the first batch (history)
VARIABLES
  swept,      \* sources unlinked by a cleanup pass (history)
  undone      \* batches some undo_batch was started on (history)

fixed   == <<sameFs, outside, fs0>>
history == <<swept, undone>>
counts  == <<succeeded, failed>>
vars    == <<fs, review, disk, mem, jb, opts, batch, pc, cur, counts, todo,
             faults, fixed, history>>

Status  == {"none", "pending", "verified", "failed", "reverted"}
Journal == [st : [Keys -> Status], ran : BOOLEAN]
NewJournal == [st |-> [k \in Keys |-> "none"], ran |-> FALSE]

\* Control points at which no executor code runs.
Resting == {"idle", "done", "aborted", "crashed", "undone", "undoFailed"}
Working == {"add", "transfer", "copying", "verify", "mark", "fail", "gate",
            "guard", "unlink", "record", "undo", "undoMark"}

TypeOK ==
  /\ fs \in [Path -> Blob \cup {Absent}]
  /\ review \in [Batches -> [Names \cup Keys -> Blob \cup {Absent}]]
  /\ disk \in [Batches -> Journal]
  /\ mem \in Journal
  /\ opts \in [Batches -> [cleanup : BOOLEAN, hash : BOOLEAN]]
  /\ batch \in 0 .. MaxBatches
  /\ jb \in 0 .. batch
  /\ pc \in Resting \cup Working
  /\ pc # "idle" => jb \in Batches
  /\ cur \in Keys
  /\ succeeded \in 0 .. NumOps
  /\ failed \in 0 .. NumOps
  /\ todo \subseteq Keys
  /\ faults \in 0 .. MaxFaults
  /\ sameFs \subseteq 1 .. NumOps
  /\ outside \subseteq Path
  /\ fs0 \in [Path -> Blob \cup {Absent}]
  /\ swept \subseteq Path
  /\ undone \subseteq Batches

Whole(p) == [of |-> p, is |-> "full"]

Init ==
  /\ \E old \in SUBSET CanPreExist :
       fs = [p \in Path |-> IF p \in old \cup { Src[k] : k \in Keys }
                            THEN Whole(p) ELSE Absent]
  /\ review = [b \in Batches |-> [s \in Names \cup Keys |-> Absent]]
  /\ disk = [b \in Batches |-> NewJournal]
  /\ mem = NewJournal
  /\ jb = 0
  /\ opts = [b \in Batches |-> [cleanup |-> FALSE, hash |-> FALSE]]
  /\ batch = 0
  /\ pc = "idle"
  /\ cur = <<1, 0>>
  /\ succeeded = 0
  /\ failed = 0
  /\ todo = {}
  /\ faults = 0
  /\ sameFs \in { S \in SUBSET (1 .. NumOps) :
                   \A k \in Keys : Src[k] = Dst[k] => k[1] \in S }
  /\ outside \in SUBSET CanBeOutside
  /\ fs0 = fs
  /\ swept = {}
  /\ undone = {}

-----------------------------------------------------------------------------
(* Helpers                                                                 *)

\* An environment fault: a raised OSError, silent corruption, or a crash.
Fault == faults < MaxFaults /\ faults' = faults + 1

Marked(j, k, status) == [j EXCEPT !.st[k] = status]

\* Journal._persist: the whole file is replaced atomically, or the write
\* raises and the old file stays, the object already changed in memory.
Persist(j, ok, raised) ==
  /\ mem' = j
  /\ \/ disk' = [disk EXCEPT ![jb] = j] /\ pc' = ok /\ UNCHANGED faults
     \/ Fault /\ pc' = raised /\ UNCHANGED disk

Entries(j)    == { k \in Keys : j.st[k] # "none" }
Verified(j)   == { k \in Keys : j.st[k] = "verified" }
AllVerified(j) == Entries(j) # {} /\ Entries(j) = Verified(j)

\* Journal order, and the order undo_batch sorts it into: deepest target first.
Before(k, l)     == k[1] < l[1] \/ (k[1] = l[1] /\ k[2] <= l[2])
UndoBefore(k, l) == \/ Depth[Dst[l]] < Depth[Dst[k]]
                    \/ Depth[Dst[l]] = Depth[Dst[k]] /\ Before(k, l)

\* Control after an op: the next one, or the cleanup gate.
NextOp(i) == IF i < NumOps THEN <<i + 1, 0>> ELSE <<i, 0>>
AfterOp(i) == IF i < NumOps THEN "add" ELSE "gate"

-----------------------------------------------------------------------------
(* apply_plan_iter                                                         *)

\* A new batch: Journal.new persists an empty journal, then the op loop.
StartApply(cleanup, hash) ==
  /\ pc \in Resting
  /\ batch < MaxBatches
  /\ batch' = batch + 1
  /\ jb' = batch + 1
  /\ opts' = [opts EXCEPT ![batch + 1] = [cleanup |-> cleanup, hash |-> hash]]
  /\ mem' = NewJournal
  /\ disk' = [disk EXCEPT ![batch + 1] = NewJournal]
  /\ cur' = <<1, 0>>
  /\ succeeded' = 0
  /\ failed' = 0
  /\ pc' = "add"
  /\ UNCHANGED <<fs, review, todo, faults, fixed, history>>

\* Mutant: the entry is added to the object and written with the next status.
AddPending_Lazy ==
  /\ pc = "add"
  /\ mem' = Marked(mem, cur, "pending")
  /\ pc' = "transfer"
  /\ UNCHANGED <<fs, review, disk, jb, opts, batch, cur, counts, todo, faults,
                 fixed, history>>

\* journal.add_pending: the entry is on disk before the file is touched.
AddPending ==
  /\ pc = "add"
  /\ Persist(Marked(mem, cur, "pending"), "transfer", "fail")
  /\ UNCHANGED <<fs, review, jb, opts, batch, cur, counts, todo, fixed, history>>

\* Mutant: the fast path whenever the file systems allow it.
MayRename_Always == cur[1] \in sameFs

\* _do_copy takes the os.rename fast path: cleanup was asked for and both ends
\* share a file system.  Renaming a path onto itself succeeds and does nothing.
MayRename == opts[jb].cleanup /\ cur[1] \in sameFs
RenameRefused ==
  \/ fs[Src[cur]] = Absent
  \/ ~PosixRename /\ Src[cur] # Dst[cur] /\ fs[Dst[cur]] # Absent

Rename ==
  /\ pc = "transfer"
  /\ MayRename
  /\ ~RenameRefused
  /\ fs' = [fs EXCEPT ![Src[cur]] = Absent, ![Dst[cur]] = fs[Src[cur]]]
  /\ pc' = "mark"
  /\ UNCHANGED <<review, disk, mem, jb, opts, batch, cur, counts, todo, faults,
                 fixed, history>>

\* shutil.copy2 opens the target, truncating what was there ...
CopyRefused == fs[Src[cur]] = Absent \/ Src[cur] = Dst[cur]

BeginCopy ==
  /\ pc = "transfer"
  /\ ~MayRename
  /\ ~CopyRefused
  /\ fs' = [fs EXCEPT ![Dst[cur]] = [of |-> fs[Src[cur]].of, is |-> "short"]]
  /\ pc' = "copying"
  /\ UNCHANGED <<review, disk, mem, jb, opts, batch, cur, counts, todo, faults,
                 fixed, history>>

\* ... and fills it: whole, silently damaged, or short because a write raised.
EndCopy ==
  /\ pc = "copying"
  /\ \/ /\ fs' = [fs EXCEPT ![Dst[cur]] = fs[Src[cur]]]
        /\ pc' = "verify"
        /\ UNCHANGED faults
     \/ /\ Fault
        /\ \E harm \in {"short", "bad"} :
             fs' = [fs EXCEPT ![Dst[cur]].is = harm]
        /\ pc' \in {"verify", "fail"}
  /\ UNCHANGED <<review, disk, mem, jb, opts, batch, cur, counts, todo, fixed,
                 history>>

\* mkdir, os.rename or the opening of either file raises.
TransferFails ==
  /\ pc = "transfer"
  /\ \/ (IF MayRename THEN RenameRefused ELSE CopyRefused) /\ UNCHANGED faults
     \/ Fault
  /\ pc' = "fail"
  /\ UNCHANGED <<fs, review, disk, mem, jb, opts, batch, cur, counts, todo, fixed,
                 history>>

\* verify_size always; verify_hash_with_digest only when asked.
SameSize(a, b) == a.of = b.of /\ (a.is = "short" <=> b.is = "short")
\* Mutant: the size check is made only together with the hash check.
CopyVerifies_HashOnly == opts[jb].hash => fs[Src[cur]] = fs[Dst[cur]]

CopyVerifies ==
  /\ SameSize(fs[Src[cur]], fs[Dst[cur]])
  /\ opts[jb].hash => fs[Src[cur]] = fs[Dst[cur]]

VerifyCopy ==
  /\ pc = "verify"
  /\ \/ pc' = (IF CopyVerifies THEN "mark" ELSE "fail") /\ UNCHANGED faults
     \/ Fault /\ pc' = "fail"
  /\ UNCHANGED <<fs, review, disk, mem, jb, opts, batch, cur, counts, todo, fixed,
                 history>>

\* journal.mark_verified, then the next sidecar or the next op.
LastOfOp == cur[2] = NumSidecars[cur[1]]

\* Mutant: every verified file counts as a success, sidecars too.
MarkVerified_PerFile ==
  /\ pc = "mark"
  /\ Persist(Marked(mem, cur, "verified"),
             IF LastOfOp THEN AfterOp(cur[1]) ELSE "add", "fail")
  /\ IF pc' = "fail"
     THEN UNCHANGED <<cur, succeeded>>
     ELSE /\ cur' = IF LastOfOp THEN NextOp(cur[1]) ELSE <<cur[1], cur[2] + 1>>
          /\ succeeded' = succeeded + 1
  /\ UNCHANGED <<fs, review, jb, opts, batch, failed, todo, fixed, history>>

MarkVerified ==
  /\ pc = "mark"
  /\ Persist(Marked(mem, cur, "verified"),
             IF LastOfOp THEN AfterOp(cur[1]) ELSE "add", "fail")
  /\ IF pc' = "fail"
     THEN UNCHANGED <<cur, succeeded>>
     ELSE /\ cur' = IF LastOfOp THEN NextOp(cur[1]) ELSE <<cur[1], cur[2] + 1>>
          /\ succeeded' = IF LastOfOp THEN succeeded + 1 ELSE succeeded
  /\ UNCHANGED <<fs, review, jb, opts, batch, failed, todo, fixed, history>>

\* Mutant: a sidecar's failure is recorded on its primary.
HandleFailure_OnPrimary ==
  /\ pc = "fail"
  /\ Persist(Marked(mem, <<cur[1], 0>>, "failed"), AfterOp(cur[1]), "aborted")
  /\ IF pc' = "aborted"
     THEN UNCHANGED <<cur, failed>>
     ELSE cur' = NextOp(cur[1]) /\ failed' = failed + 1
  /\ UNCHANGED <<fs, review, jb, opts, batch, succeeded, todo, fixed, history>>

\* Both except clauses: the entry whose step raised is marked failed (the
\* sidecar's own entry, not its primary's) and the op's other sidecars are
\* never attempted.  A journal write that raises here leaves the generator.
HandleFailure ==
  /\ pc = "fail"
  /\ Persist(Marked(mem, cur, "failed"), AfterOp(cur[1]), "aborted")
  /\ IF pc' = "aborted"
     THEN UNCHANGED <<cur, failed>>
     ELSE cur' = NextOp(cur[1]) /\ failed' = failed + 1
  /\ UNCHANGED <<fs, review, jb, opts, batch, succeeded, todo, fixed, history>>

\* Mutant: cleanup looks at nothing but the caller's argument.
CleanupGate_Open ==
  /\ pc = "gate"
  /\ pc' = IF opts[jb].cleanup THEN "guard" ELSE "done"
  /\ UNCHANGED <<fs, review, disk, mem, jb, opts, batch, cur, counts, todo, faults,
                 fixed, history>>

\* Cleanup runs only when the caller asked for it and every op verified.
CleanupGate ==
  /\ pc = "gate"
  /\ pc' = IF opts[jb].cleanup /\ failed = 0 /\ AllVerified(mem)
           THEN "guard" ELSE "done"
  /\ UNCHANGED <<fs, review, disk, mem, jb, opts, batch, cur, counts, todo, faults,
                 fixed, history>>

\* Mutant: sources that fail a guard are left out and the others deleted.
CheckGuards_Skips ==
  /\ pc = "guard"
  /\ pc' = "unlink"
  /\ todo' = { k \in Verified(mem) : Src[k] \notin outside }
  /\ UNCHANGED <<fs, review, disk, mem, jb, opts, batch, cur, counts, faults, fixed,
                 history>>

\* cleanup_sources checks every source before it deletes any; CleanupRefused
\* leaves the generator, so no "done" event follows.
CheckGuards ==
  /\ pc = "guard"
  /\ IF \E k \in Verified(mem) : Src[k] \in outside
     THEN pc' = "aborted" /\ todo' = {}
     ELSE pc' = "unlink" /\ todo' = Verified(mem)
  /\ UNCHANGED <<fs, review, disk, mem, jb, opts, batch, cur, counts, faults, fixed,
                 history>>

\* One source of the deletion pass; a source already renamed away is skipped.
UnlinkSource ==
  /\ pc = "unlink"
  /\ \/ \E k \in todo :
          /\ \A l \in todo : Before(k, l)
          /\ todo' = todo \ {k}
          /\ fs' = [fs EXCEPT ![Src[k]] = Absent]
          /\ swept' = IF fs[Src[k]] = Absent THEN swept ELSE swept \cup {Src[k]}
          /\ UNCHANGED <<pc, faults>>
     \/ /\ todo # {}
        /\ Fault
        /\ pc' = "aborted"
        /\ todo' = {}
        /\ UNCHANGED <<fs, swept>>
  /\ UNCHANGED <<review, disk, mem, jb, opts, batch, cur, counts, fixed, undone>>

\* All sources gone: prune empty parents, whose rmdir may raise.
PruneParents ==
  /\ pc = "unlink"
  /\ todo = {}
  /\ \/ pc' = "record" /\ UNCHANGED faults
     \/ Fault /\ pc' = "aborted"
  /\ UNCHANGED <<fs, review, disk, mem, jb, opts, batch, cur, counts, todo, fixed,
                 history>>

\* journal.mark_cleanup(True): the last write of a batch.
RecordCleanup ==
  /\ pc = "record"
  /\ Persist([mem EXCEPT !.ran = TRUE], "done", "aborted")
  /\ UNCHANGED <<fs, review, jb, opts, batch, cur, counts, todo, fixed, history>>

\* The process dies: what it held in memory is gone.
Crash ==
  /\ pc \in Working
  /\ Fault
  /\ pc' = "crashed"
  /\ mem' = NewJournal
  /\ todo' = {}
  /\ UNCHANGED <<fs, review, disk, jb, opts, batch, cur, counts, fixed, history>>

-----------------------------------------------------------------------------
(* undo_batch                                                              *)

\* Journal.load of any batch's file, from the process that wrote it or another.
StartUndo(b) ==
  /\ pc \in Resting
  /\ jb' = b
  /\ mem' = disk[b]
  /\ undone' = undone \cup {b}
  /\ pc' = "undo"
  /\ UNCHANGED <<fs, review, disk, opts, batch, cur, counts, todo, faults, fixed,
                 swept>>

\* Where shutil.move puts a target in the review folder: its own name, or a
\* name made unique by its key when that one is taken.
ReviewSlot(k) ==
  IF review[jb][Name[Dst[k]]] = Absent THEN Name[Dst[k]] ELSE k

\* Mutant: an unlink that raises is swallowed and the entry reverted anyway.
RevertTarget_Swallows ==
  /\ pc = "undo"
  /\ \E k \in Verified(mem) :
     /\ \A l \in Verified(mem) : UndoBefore(k, l)
     /\ cur' = k
     /\ pc' = "undoMark"
     /\ \/ /\ fs' = [fs EXCEPT ![Dst[k]] = Absent]
           /\ review' = IF mem.ran /\ fs[Dst[k]] # Absent
                        THEN [review EXCEPT ![jb][ReviewSlot(k)] = fs[Dst[k]]]
                        ELSE review
           /\ UNCHANGED faults
        \/ Fault /\ UNCHANGED <<fs, review>>
  /\ UNCHANGED <<disk, mem, jb, opts, batch, counts, todo, fixed, history>>

\* Revert one verified entry.  A missing target counts as reverted; if cleanup
\* ran the target is moved to review, otherwise it is deleted.
RevertTarget ==
  /\ pc = "undo"
  /\ \E k \in Verified(mem) :
     /\ \A l \in Verified(mem) : UndoBefore(k, l)
     /\ \/ /\ cur' = k
           /\ pc' = "undoMark"
           /\ fs' = [fs EXCEPT ![Dst[k]] = Absent]
           /\ review' = IF mem.ran /\ fs[Dst[k]] # Absent
                        THEN [review EXCEPT ![jb][ReviewSlot(k)] = fs[Dst[k]]]
                        ELSE review
           /\ UNCHANGED faults
        \/ /\ Fault
           /\ fs[Dst[k]] # Absent
           /\ pc' = "undoFailed"
           /\ UNCHANGED <<cur, fs, review>>
  /\ UNCHANGED <<disk, mem, jb, opts, batch, counts, todo, fixed, history>>

\* journal.mark_reverted, persisted entry by entry.
MarkReverted ==
  /\ pc = "undoMark"
  /\ Persist(Marked(mem, cur, "reverted"), "undo", "undoFailed")
  /\ UNCHANGED <<fs, review, jb, opts, batch, cur, counts, todo, fixed, history>>

EndUndo ==
  /\ pc = "undo"
  /\ Verified(mem) = {}
  /\ pc' = "undone"
  /\ UNCHANGED <<fs, review, disk, mem, jb, opts, batch, cur, counts, todo, faults,
                 fixed, history>>

-----------------------------------------------------------------------------
\* Steps of code already running; starting an apply or an undo is the user's.
Run ==
  \/ AddPending \/ Rename \/ BeginCopy \/ EndCopy \/ TransferFails \/ VerifyCopy
  \/ MarkVerified \/ HandleFailure
  \/ CleanupGate \/ CheckGuards \/ UnlinkSource \/ PruneParents \/ RecordCleanup
  \/ RevertTarget \/ MarkReverted \/ EndUndo

Next ==
  \/ \E cleanup, hash \in BOOLEAN : StartApply(cleanup, hash)
  \/ \E b \in 1 .. batch : StartUndo(b)
  \/ Run
  \/ Crash

Spec     == Init /\ [][Next]_vars
-----------------------------------------------------------------------------
(* Properties                                                              *)

\* Write-ahead journalling (journal.py, "every filesystem mutation is preceded
\* by a journal entry"): wherever the process died, a path that no longer holds
\* what it held at the start is named by an entry of a journal on disk.
WriteAhead ==
  \A p \in Path : fs[p] # fs0[p] =>
    \E b \in 1 .. batch, k \in Keys :
      disk[b].st[k] # "none" /\ p \in {Src[k], Dst[k]}

\* "Copy is the default operation; the source files remain in place unless
\* source cleanup is explicitly enabled": through any sequence of applies,
\* failures, crashes and undos none of which asked for cleanup, no source
\* changes.
CopyKeepsSources ==
  (\A b \in Batches : ~opts[b].cleanup) =>
    \A k \in Keys : fs[Src[k]] = fs0[Src[k]]

\* Where the bytes of path p can be found, by anyone who looks.
Found(p, states) ==
  \/ \E q \in Path : fs[q] # Absent /\ fs[q].of = p /\ fs[q].is \in states
  \/ \E b \in Batches, s \in Names \cup Keys :
       review[b][s] # Absent /\ review[b][s].of = p /\ review[b][s].is \in states

\* Undo deletes a target outright unless its journal says cleanup ran, so it is
\* only safe on a journal whose batch moved or deleted nothing.
UndosWereSafe ==
  (\A b \in Batches : ~opts[b].cleanup) \/ (\A b \in undone : disk[b].ran)
HashAlways == \A b \in Batches : opts[b].cleanup => opts[b].hash

\* Verify-before-delete: whatever fails, corrupts or crashes, a whole copy of
\* every source exists somewhere, as long as no undo ran on the journal of a
\* batch whose removals it did not record.  Without hashing only the size of
\* a copy is vouched for.
NothingLost ==
  UndosWereSafe =>
    \A k \in Keys : Found(Src[k], {"full"} \cup IF HashAlways THEN {} ELSE {"bad"})

\* "Cleanup only fires when every operation in the batch verified", and one
\* source outside the guards protects them all: whenever the cleanup pass
\* unlinks a source, every key of the plan is verified and every source is
\* inside.
CleanupIsAllOrNothing ==
  [][swept' # swept =>
       /\ Verified(mem) = Keys
       /\ \A k \in Keys : Src[k] \notin outside]_vars

\* "Failures don't abort the whole batch": once the done event is out every op
\* was attempted, no entry is left pending, the journal on disk is the one in
\* memory, and the counts reported are the ops that verified in full.
WhollyVerified == { i \in 1 .. NumOps : \A p \in 0 .. NumSidecars[i] : mem.st[<<i, p>>] = "verified" }
ReportIsTrue ==
  pc = "done" =>
    /\ disk[jb] = mem
    /\ \A i \in 1 .. NumOps : mem.st[<<i, 0>>] # "none"
    /\ \A k \in Keys : mem.st[k] \in {"none", "verified", "failed"}
    /\ succeeded = Cardinality(WhollyVerified)
    /\ succeeded + failed = NumOps

NothingPreExisted == \A k \in Keys : fs0[Dst[k]] = Absent
NoCleanup == \A b \in 1 .. batch : ~opts[b].cleanup

\* As far as undo without cleanup restores: whatever failed or crashed, in an
\* apply or in an undo, and however often either was repeated, in a library
\* that started without the plan's targets every path that is not what it was
\* is the target of an entry not yet reverted: of one an undo has still to
\* revert, or of one left "failed" or "pending", which undo_batch skips.
\* What is reverted is back, sources included.
UndoRestores ==
  pc \in Resting /\ NothingPreExisted /\ NoCleanup =>
    \A p \in Path : fs[p] # fs0[p] =>
      \E b \in 1 .. batch, k \in Keys :
        p = Dst[k] /\ disk[b].st[k] \notin {"none", "reverted"}

\* The journals on disk keep every promise of Ledger, whatever fails: entries
\* settle once, one at a time, only in the newest batch, and cleanup_ran is
\* recorded only over a journal whose every key verified.
Journals == INSTANCE Ledger WITH
  Batch  <- Batches,
  Key    <- Keys,
  st     <- [b \in Batches |-> disk[b].st],
  ran    <- [b \in Batches |-> disk[b].ran],
  opened <- batch
KeepsLedger == Journals!Spec

-----------------------------------------------------------------------------
(* What the code and its documents claim and the executor does not do      *)

\* undo.py: "Cleanup did NOT run: undo deletes the verified targets (sources
\* still exist)."
UndoDeletesOnlyCopies ==
  [][pc = "undo" /\ pc' = "undoMark" /\ ~mem.ran /\ fs[Dst[cur']] # Absent
       => fs[Src[cur']] # Absent]_vars
=============================================================================
