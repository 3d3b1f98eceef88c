--------------------------- MODULE ExecutorProofs ---------------------------
(***************************************************************************)
(* What Executor guarantees for every plan, every number of batches and    *)
(* every number of faults.                                                 *)
(***************************************************************************)
EXTENDS Executor, FiniteSetTheorems, TLAPS

-----------------------------------------------------------------------------
(* The inductive invariant, in named parts                                 *)

OpLoop  == {"add", "transfer", "copying", "verify", "mark", "fail"}
PostOps == {"gate", "guard", "unlink", "record", "done"}

\* Keys the op loop has yet to come to.
After(k, l) == l[1] < k[1] \/ (l[1] = k[1] /\ l[2] < k[2])

\* The counters add up to the ops left behind; a copy under way has both ends.
Counting ==
  /\ pc \in OpLoop  => succeeded + failed = cur[1] - 1
  /\ pc \in PostOps => succeeded + failed = NumOps
Held == pc = "copying" => fs[Src[cur]] # Absent /\ fs[Dst[cur]] # Absent

TypeInv == TypeOK /\ Counting /\ Held

\* The journal on disk is the one in memory, but for the entry whose own write
\* or whose file just failed.
Synced ==
  /\ pc \in (Working \ {"fail"}) \cup {"done"} => disk[jb] = mem
  /\ pc = "fail" =>
       /\ disk[jb].ran = mem.ran
       /\ \A k \in Keys : k # cur => disk[jb].st[k] = mem.st[k]

\* Only the newest batch is being applied.
Newest == pc \in OpLoop \cup PostOps => jb = batch

\* The keys before the current one are settled, those after it untouched.
Frontier ==
  /\ pc \in OpLoop => \A k \in Keys :
       /\ After(k, cur) => mem.st[k] = "none"
       /\ k # cur => mem.st[k] # "pending"
  /\ pc = "add" => mem.st[cur] = "none"
  /\ pc \in {"transfer", "copying", "verify", "mark"} => mem.st[cur] = "pending"
  /\ pc = "fail" => disk[jb].st[cur] \in {"none", "pending"}
  /\ pc = "undoMark" => mem.st[cur] = "verified"

\* With no failure so far everything behind the current key is verified.
Clean ==
  failed = 0 =>
    /\ pc \in OpLoop => \A k \in Keys : After(cur, k) => mem.st[k] = "verified"
    /\ pc = "gate" => Verified(mem) = Keys

\* What the cleanup pass has been let through.
Licensed ==
  /\ pc \in {"guard", "unlink", "record"} =>
       opts[jb].cleanup /\ failed = 0 /\ Verified(mem) = Keys
  /\ pc = "unlink" => \A k \in Keys : Src[k] \notin outside

\* A batch not started has asked for nothing.
Unasked == \A b \in Batches : b > batch => ~opts[b].cleanup

\* ... and its journal is empty.
Unopened == \A b \in Batches : b > batch => disk[b] = NewJournal

IInv == /\ TypeInv /\ Synced /\ Newest /\ Frontier /\ Clean /\ Licensed
        /\ Unasked /\ Unopened

-----------------------------------------------------------------------------
(* Keys                                                                    *)

\* A key is an op of the plan and a position among that op's files.
LEMMA KeyParts ==
  ASSUME NEW k \in Keys
  PROVE  k[1] \in 1 .. NumOps /\ k[2] \in 0 .. NumSidecars[k[1]] /\ k = <<k[1], k[2]>>
BY DEF Keys

LEMMA KeyOf ==
  ASSUME NEW i \in 1 .. NumOps, NEW p \in 0 .. NumSidecars[i]
  PROVE  <<i, p>> \in Keys
BY DEF Keys

\* Where control goes after an op and after a file is a key again.
LEMMA NextKeys ==
  ASSUME NEW k \in Keys
  PROVE  /\ NextOp(k[1]) \in Keys
         /\ k[2] # NumSidecars[k[1]] => <<k[1], k[2] + 1>> \in Keys
<1>1. k[1] \in 1 .. NumOps /\ k[2] \in 0 .. NumSidecars[k[1]]
  BY KeyParts
<1>2. NumOps \in Nat /\ \A i \in 1 .. NumOps : NumSidecars[i] \in Nat
  BY PlanAssumption
<1>3. NextOp(k[1]) \in Keys
  <2>1. CASE k[1] < NumOps
    <3>1. k[1] + 1 \in 1 .. NumOps /\ 0 \in 0 .. NumSidecars[k[1] + 1]
      BY <1>1, <1>2, <2>1
    <3> QED BY <2>1, <3>1, KeyOf DEF NextOp
  <2>2. CASE ~(k[1] < NumOps)
    <3>1. 0 \in 0 .. NumSidecars[k[1]]
      BY <1>1, <1>2
    <3> QED BY <1>1, <2>2, <3>1, KeyOf DEF NextOp
  <2> QED BY <2>1, <2>2
<1>4. ASSUME k[2] # NumSidecars[k[1]]
      PROVE  <<k[1], k[2] + 1>> \in Keys
  <2>1. k[2] + 1 \in 0 .. NumSidecars[k[1]]
    BY <1>1, <1>2, <1>4
  <2> QED BY <1>1, <2>1, KeyOf
<1> QED BY <1>3, <1>4

-----------------------------------------------------------------------------
(* Types                                                                   *)

\* Writing a status and writing the journal keep both well typed.
LEMMA MarkedType ==
  ASSUME NEW j \in Journal, NEW k \in Keys, NEW status \in Status
  PROVE  Marked(j, k, status) \in Journal
BY DEF Marked, Journal

LEMMA PersistType ==
  ASSUME TypeOK, pc # "idle", NEW j \in Journal, NEW ok, NEW raised,
         Persist(j, ok, raised)
  PROVE  /\ mem' \in Journal
         /\ disk' \in [Batches -> Journal]
         /\ faults' \in 0 .. MaxFaults
         /\ pc' \in {ok, raised}
BY PlanAssumption DEF TypeOK, Persist, Fault, Batches

LEMMA TypeInit == Init => TypeInv
<1> SUFFICES ASSUME Init PROVE TypeInv
  OBVIOUS
<1>1. NumOps \in Nat \ {0} /\ MaxBatches \in Nat /\ MaxFaults \in Nat
  BY PlanAssumption
<1>2. <<1, 0>> \in Keys
  BY <1>1, PlanAssumption, KeyOf
<1>3. fs \in [Path -> Blob \cup {Absent}]
  BY DEF Init, Whole, Blob
<1>4. NewJournal \in Journal
  BY DEF NewJournal, Journal, Status
<1>5. outside \subseteq Path /\ sameFs \subseteq 1 .. NumOps
  BY PlanAssumption DEF Init
<1>6. TypeOK
  BY <1>1, <1>2, <1>3, <1>4, <1>5 DEF Init, TypeOK, Resting, Batches
<1>7. Counting /\ Held
  BY DEF Init, Counting, Held, OpLoop, PostOps
<1> QED BY <1>6, <1>7 DEF TypeInv

\* The bound on faults is kept.
LEMMA FaultType ==
  ASSUME TypeOK, Fault
  PROVE  faults' \in 0 .. MaxFaults
BY PlanAssumption DEF TypeOK, Fault

\* A target goes to a slot of its batch's review folder.
LEMMA ReviewType ==
  ASSUME TypeOK, RevertTarget
  PROVE  review' \in [Batches -> [Names \cup Keys -> Blob \cup {Absent}]]
<1>1. PICK k \in Keys :
        \/ review' = review
        \/ /\ fs[Dst[k]] # Absent
           /\ review' = [review EXCEPT ![jb][ReviewSlot(k)] = fs[Dst[k]]]
  BY DEF RevertTarget, Verified
<1>2. Dst[k] \in Path /\ jb \in Batches
  BY PlanAssumption DEF TypeOK, RevertTarget
<1>3. ReviewSlot(k) \in Names \cup Keys /\ fs[Dst[k]] \in Blob \cup {Absent}
  BY <1>2 DEF ReviewSlot, Names, TypeOK
<1>4. [review[jb] EXCEPT ![ReviewSlot(k)] = fs[Dst[k]]] \in [Names \cup Keys -> Blob \cup {Absent}]
  BY <1>2, <1>3 DEF TypeOK
<1>5. review \in [Batches -> [Names \cup Keys -> Blob \cup {Absent}]]
  BY DEF TypeOK
<1>6. [review EXCEPT ![jb][ReviewSlot(k)] = fs[Dst[k]]]
        = [review EXCEPT ![jb] = [review[jb] EXCEPT ![ReviewSlot(k)] = fs[Dst[k]]]]
  OBVIOUS
<1> QED BY <1>1, <1>2, <1>4, <1>5, <1>6

\* Every step keeps the types, and the counters in step with the op loop.
LEMMA TypeStep ==
  ASSUME TypeInv, [Next]_vars
  PROVE  TypeInv'
<1> USE DEF TypeInv
<1>n. NumOps \in Nat \ {0} /\ MaxBatches \in Nat /\ MaxFaults \in Nat
  BY PlanAssumption
<1>k. cur[1] \in 1 .. NumOps /\ NextOp(cur[1]) \in Keys
  BY KeyParts, NextKeys DEF TypeOK
<1>1. ASSUME NEW cleanup \in BOOLEAN, NEW hash \in BOOLEAN, StartApply(cleanup, hash)
      PROVE  TypeInv'
  <2>1. batch + 1 \in Batches /\ NewJournal \in Journal
    BY <1>n, <1>1 DEF StartApply, TypeOK, Batches, NewJournal, Journal, Status
  <2>2. <<1, 0>> \in Keys
    BY <1>n, PlanAssumption, KeyOf
  <2>3. opts' \in [Batches -> [cleanup : BOOLEAN, hash : BOOLEAN]]
    BY <1>1 DEF StartApply, TypeOK
  <2>4. disk' \in [Batches -> Journal] /\ mem' \in Journal
    BY <1>1, <2>1 DEF StartApply, TypeOK
  <2>5. batch' \in 0 .. MaxBatches /\ jb' \in 0 .. batch' /\ jb' \in Batches
    BY <1>n, <1>1, <2>1 DEF StartApply, TypeOK, Batches
  <2>6. /\ pc' = "add" /\ cur' = <<1, 0>> /\ succeeded' = 0 /\ failed' = 0
        /\ UNCHANGED <<fs, review, todo, faults, sameFs, outside, fs0, swept, undone>>
    BY <1>1 DEF StartApply, fixed, history
  <2>7. cur' \in Keys /\ succeeded' \in 0 .. NumOps /\ failed' \in 0 .. NumOps /\ pc' \in Working
    BY <1>n, <2>2, <2>6 DEF Working
  <2>8. /\ fs' \in [Path -> Blob \cup {Absent}] /\ fs0' \in [Path -> Blob \cup {Absent}]
        /\ review' \in [Batches -> [Names \cup Keys -> Blob \cup {Absent}]]
        /\ todo' \subseteq Keys /\ faults' \in 0 .. MaxFaults /\ sameFs' \subseteq 1 .. NumOps
        /\ outside' \subseteq Path /\ swept' \subseteq Path /\ undone' \subseteq Batches
    BY <2>6 DEF TypeOK
  <2>9. TypeOK'
    BY <2>3, <2>4, <2>5, <2>7, <2>8 DEF TypeOK
  <2> QED BY <1>n, <2>6, <2>9 DEF Counting, Held, OpLoop, PostOps
<1>2. ASSUME NEW b \in 1 .. batch, StartUndo(b)
      PROVE  TypeInv'
  <2>0. b \in Batches /\ b \in 0 .. batch
    BY <1>n, <1>2 DEF TypeOK, Batches
  <2>1. TypeOK'
    BY <1>2, <2>0 DEF StartUndo, TypeOK, Batches, Resting, Working, fixed, history, counts
  <2> QED BY <1>2, <2>1 DEF StartUndo, Counting, Held, OpLoop, PostOps
<1>3. CASE AddPending
  <2>1. Marked(mem, cur, "pending") \in Journal /\ pc # "idle"
    BY <1>3, MarkedType DEF AddPending, TypeOK, Status
  <2>2. TypeOK'
    BY <1>3, <2>1, PersistType DEF AddPending, TypeOK, Resting, Working, fixed, history, counts
  <2> QED BY <1>3, <2>1, <2>2, PersistType DEF AddPending, Counting, Held, OpLoop, PostOps, counts
<1>4. CASE Rename
  <2>1. TypeOK'
    BY <1>4, PlanAssumption DEF Rename, RenameRefused, TypeOK, Resting, Working, fixed, history, counts
  <2> QED BY <1>4, <2>1 DEF Rename, Counting, Held, OpLoop, PostOps, counts
<1>5. CASE BeginCopy
  <2>1. fs[Src[cur]] \in Blob /\ Dst[cur] \in Path
    BY <1>5, PlanAssumption DEF BeginCopy, CopyRefused, TypeOK
  <2>2. [of |-> fs[Src[cur]].of, is |-> "short"] \in Blob
    BY <2>1 DEF Blob
  <2>3. TypeOK'
    BY <1>5, <2>2 DEF BeginCopy, TypeOK, Resting, Working, fixed, history, counts
  <2>4. Held'
    BY <1>5, <2>1, <2>2, AbsentAssumption DEF BeginCopy, CopyRefused, Held, TypeOK
  <2> QED BY <1>5, <2>3, <2>4 DEF BeginCopy, Counting, OpLoop, PostOps, counts
<1>6. CASE EndCopy
  <2>1. fs[Src[cur]] \in Blob /\ fs[Dst[cur]] \in Blob /\ Dst[cur] \in Path
    BY <1>6, PlanAssumption DEF EndCopy, Held, TypeOK
  <2>2. \A harm \in {"short", "bad"} : [fs[Dst[cur]] EXCEPT !.is = harm] \in Blob
    BY <2>1 DEF Blob
  <2>3. fs' \in [Path -> Blob \cup {Absent}] /\ faults' \in 0 .. MaxFaults /\ pc' \in {"verify", "fail"}
    <3>1. \/ fs' = [fs EXCEPT ![Dst[cur]] = fs[Src[cur]]]
          \/ \E harm \in {"short", "bad"} :
               fs' = [fs EXCEPT ![Dst[cur]] = [fs[Dst[cur]] EXCEPT !.is = harm]]
      BY <1>6 DEF EndCopy
    <3>2. fs' \in [Path -> Blob \cup {Absent}]
      BY <2>1, <2>2, <3>1 DEF TypeOK
    <3> QED BY <1>6, <3>2, FaultType DEF EndCopy, TypeOK
  <2>4. TypeOK'
    BY <1>6, <2>3 DEF EndCopy, TypeOK, Resting, Working, fixed, history, counts
  <2> QED BY <1>6, <2>3, <2>4 DEF EndCopy, Counting, Held, OpLoop, PostOps, counts
<1>7. CASE TransferFails
  <2>1. TypeOK'
    BY <1>7, FaultType DEF TransferFails, TypeOK, Resting, Working, fixed, history, counts
  <2> QED BY <1>7, <2>1 DEF TransferFails, Counting, Held, OpLoop, PostOps, counts
<1>8. CASE VerifyCopy
  <2>1. pc' \in {"mark", "fail"}
    BY <1>8 DEF VerifyCopy
  <2>2. TypeOK'
    BY <1>8, <2>1, FaultType DEF VerifyCopy, TypeOK, Resting, Working, fixed, history, counts
  <2> QED BY <1>8, <2>1, <2>2 DEF VerifyCopy, Counting, Held, OpLoop, PostOps, counts
<1>9. CASE MarkVerified
  <2>1. Marked(mem, cur, "verified") \in Journal /\ pc = "mark"
    BY <1>9, MarkedType DEF MarkVerified, TypeOK, Status
  <2>2. /\ mem' \in Journal /\ disk' \in [Batches -> Journal] /\ faults' \in 0 .. MaxFaults
        /\ pc' \in {IF LastOfOp THEN AfterOp(cur[1]) ELSE "add", "fail"}
    BY <1>9, <2>1, PersistType DEF MarkVerified
  <2>3. CASE pc' = "fail"
    BY <1>9, <2>1, <2>2, <2>3
    DEF MarkVerified, TypeOK, Counting, Held, OpLoop, PostOps, Resting, Working, fixed, history
  <2>4. CASE pc' # "fail" /\ ~LastOfOp
    <3>1. <<cur[1], cur[2] + 1>> \in Keys /\ cur' = <<cur[1], cur[2] + 1>> /\ pc' = "add"
      BY <1>9, <2>2, <2>4, NextKeys DEF MarkVerified, LastOfOp, TypeOK
    <3> QED BY <1>9, <2>1, <2>2, <2>4, <3>1
        DEF MarkVerified, TypeOK, Counting, Held, OpLoop, PostOps, Resting, Working, fixed, history
  <2>5. CASE pc' # "fail" /\ LastOfOp
    <3>1. cur' = NextOp(cur[1]) /\ pc' = AfterOp(cur[1]) /\ succeeded' = succeeded + 1
          /\ failed' = failed
      BY <1>9, <2>2, <2>5 DEF MarkVerified
    <3>2. succeeded + failed = cur[1] - 1 /\ succeeded \in Nat /\ failed \in Nat
      BY <2>1 DEF Counting, OpLoop, TypeOK
    <3>3. succeeded' \in 0 .. NumOps /\ Counting' /\ Held' /\ pc' \in {"add", "gate"}
      BY <1>n, <1>k, <3>1, <3>2 DEF Counting, Held, OpLoop, PostOps, NextOp, AfterOp
    <3> QED BY <1>9, <1>k, <2>1, <2>2, <3>1, <3>3
        DEF MarkVerified, TypeOK, Resting, Working, fixed, history
  <2> QED BY <2>3, <2>4, <2>5
<1>10. CASE HandleFailure
  <2>1. Marked(mem, cur, "failed") \in Journal /\ pc = "fail"
    BY <1>10, MarkedType DEF HandleFailure, TypeOK, Status
  <2>2. /\ mem' \in Journal /\ disk' \in [Batches -> Journal] /\ faults' \in 0 .. MaxFaults
        /\ pc' \in {AfterOp(cur[1]), "aborted"}
    BY <1>10, <2>1, PersistType DEF HandleFailure
  <2>3. CASE pc' = "aborted"
    BY <1>10, <2>1, <2>2, <2>3
    DEF HandleFailure, TypeOK, Counting, Held, OpLoop, PostOps, Resting, Working, fixed, history
  <2>4. CASE pc' # "aborted"
    <3>1. cur' = NextOp(cur[1]) /\ pc' = AfterOp(cur[1]) /\ failed' = failed + 1
          /\ succeeded' = succeeded
      BY <1>10, <2>2, <2>4 DEF HandleFailure
    <3>2. succeeded + failed = cur[1] - 1 /\ succeeded \in Nat /\ failed \in Nat
      BY <2>1 DEF Counting, OpLoop, TypeOK
    <3>3. failed' \in 0 .. NumOps /\ Counting' /\ Held' /\ pc' \in {"add", "gate"}
      BY <1>n, <1>k, <3>1, <3>2 DEF Counting, Held, OpLoop, PostOps, NextOp, AfterOp
    <3> QED BY <1>10, <1>k, <2>1, <2>2, <3>1, <3>3
        DEF HandleFailure, TypeOK, Resting, Working, fixed, history
  <2> QED BY <2>3, <2>4
<1>11. CASE CleanupGate
  <2>1. pc' \in {"guard", "done"}
    BY <1>11 DEF CleanupGate
  <2> QED BY <1>11, <2>1
      DEF CleanupGate, TypeOK, Counting, Held, OpLoop, PostOps, Resting, Working, fixed, history, counts
<1>12. CASE CheckGuards
  <2>1. pc' \in {"aborted", "unlink"} /\ todo' \subseteq Keys
    BY <1>12 DEF CheckGuards, Verified
  <2> QED BY <1>12, <2>1
      DEF CheckGuards, TypeOK, Counting, Held, OpLoop, PostOps, Resting, Working, fixed, history, counts
<1>13. CASE UnlinkSource
  <2>1. /\ fs' \in [Path -> Blob \cup {Absent}] /\ todo' \subseteq Keys /\ swept' \subseteq Path
        /\ faults' \in 0 .. MaxFaults /\ pc' \in {"unlink", "aborted"}
    <3>1. fs' \in [Path -> Blob \cup {Absent}]
      BY <1>13 DEF UnlinkSource, TypeOK
    <3>2. todo' \subseteq Keys /\ swept' \subseteq Path
      BY <1>13, PlanAssumption DEF UnlinkSource, TypeOK
    <3> QED BY <1>13, <3>1, <3>2, FaultType DEF UnlinkSource, TypeOK
  <2> QED BY <1>13, <2>1
      DEF UnlinkSource, TypeOK, Counting, Held, OpLoop, PostOps, Resting, Working, fixed, counts
<1>14. CASE PruneParents
  BY <1>14, FaultType DEF PruneParents, TypeOK, Counting, Held, OpLoop, PostOps, Resting,
     Working, fixed, history, counts
<1>15. CASE RecordCleanup
  <2>1. [mem EXCEPT !.ran = TRUE] \in Journal /\ pc = "record"
    BY <1>15 DEF RecordCleanup, TypeOK, Journal
  <2>2. /\ mem' \in Journal /\ disk' \in [Batches -> Journal] /\ faults' \in 0 .. MaxFaults
        /\ pc' \in {"done", "aborted"}
    BY <1>15, <2>1, PersistType DEF RecordCleanup
  <2> QED BY <1>15, <2>1, <2>2
      DEF RecordCleanup, TypeOK, Counting, Held, OpLoop, PostOps, Resting, Working, fixed, history, counts
<1>16. CASE Crash
  <2>1. NewJournal \in Journal
    BY DEF NewJournal, Journal, Status
  <2> QED BY <1>16, <2>1, FaultType
      DEF Crash, TypeOK, Counting, Held, OpLoop, PostOps, Resting, Working, fixed, history, counts
<1>17. CASE RevertTarget
  <2>1. review' \in [Batches -> [Names \cup Keys -> Blob \cup {Absent}]]
    BY <1>17, ReviewType DEF RevertTarget
  <2>2. fs' \in [Path -> Blob \cup {Absent}] /\ cur' \in Keys /\ faults' \in 0 .. MaxFaults
        /\ pc' \in {"undoMark", "undoFailed"}
    <3>1. fs' \in [Path -> Blob \cup {Absent}] /\ cur' \in Keys
      BY <1>17 DEF RevertTarget, TypeOK, Verified
    <3> QED BY <1>17, <3>1, FaultType DEF RevertTarget, TypeOK
  <2> QED BY <1>17, <2>1, <2>2
      DEF RevertTarget, TypeOK, Counting, Held, OpLoop, PostOps, Resting, Working, fixed, history, counts
<1>18. CASE MarkReverted
  <2>1. Marked(mem, cur, "reverted") \in Journal /\ pc = "undoMark"
    BY <1>18, MarkedType DEF MarkReverted, TypeOK, Status
  <2>2. /\ mem' \in Journal /\ disk' \in [Batches -> Journal] /\ faults' \in 0 .. MaxFaults
        /\ pc' \in {"undo", "undoFailed"}
    BY <1>18, <2>1, PersistType DEF MarkReverted
  <2> QED BY <1>18, <2>1, <2>2
      DEF MarkReverted, TypeOK, Counting, Held, OpLoop, PostOps, Resting, Working, fixed, history, counts
<1>19. CASE EndUndo
  BY <1>19 DEF EndUndo, TypeOK, Counting, Held, OpLoop, PostOps, Resting, Working, fixed,
     history, counts
<1>20. CASE UNCHANGED vars
  BY <1>20 DEF vars, TypeOK, Counting, Held, fixed, history, counts
<1> QED BY <1>1, <1>2, <1>3, <1>4, <1>5, <1>6, <1>7, <1>8, <1>9, <1>10, <1>11, <1>12, <1>13,
           <1>14, <1>15, <1>16, <1>17, <1>18, <1>19, <1>20 DEF Next, Run

\* Type correctness.
THEOREM TypeCorrect == Spec => []TypeOK
<1>1. Init => TypeInv
  BY TypeInit
<1>2. TypeInv /\ [Next]_vars => TypeInv'
  BY TypeStep
<1>3. TypeInv => TypeOK
  BY DEF TypeInv
<1> QED BY <1>1, <1>2, <1>3, PTL DEF Spec

-----------------------------------------------------------------------------
(* The journal on disk and the object in memory                            *)

\* A journal write replaces one file, or raises and replaces none.
LEMMA PersistEffect ==
  ASSUME TypeOK, pc # "idle", NEW j, NEW ok, NEW raised, Persist(j, ok, raised)
  PROVE  /\ mem' = j
         /\ \/ pc' = ok /\ disk'[jb] = j
            \/ pc' = raised /\ disk' = disk
         /\ \A b \in Batches : b # jb => disk'[b] = disk[b]
BY DEF Persist, TypeOK

LEMMA MarkedSt ==
  ASSUME NEW j \in Journal, NEW k \in Keys, NEW status
  PROVE  /\ Marked(j, k, status).ran = j.ran
         /\ Marked(j, k, status).st[k] = status
         /\ \A l \in Keys : l # k => Marked(j, k, status).st[l] = j.st[l]
BY DEF Marked, Journal

LEMMA SyncStep ==
  ASSUME IInv, [Next]_vars
  PROVE  Synced' /\ Newest'
<1> USE DEF IInv, TypeInv
<1>t. TypeOK'
  BY TypeStep DEF TypeInv
<1>m. mem \in Journal /\ cur \in Keys
  BY DEF TypeOK
<1>1. ASSUME NEW cleanup \in BOOLEAN, NEW hash \in BOOLEAN, StartApply(cleanup, hash)
      PROVE  Synced' /\ Newest'
  <2>1. batch + 1 \in Batches
    BY <1>1, PlanAssumption DEF StartApply, TypeOK, Batches
  <2>2. disk'[jb'] = mem' /\ pc' = "add" /\ jb' = batch'
    BY <1>1, <2>1 DEF StartApply, TypeOK
  <2> QED BY <2>2 DEF Synced, Newest
<1>2. ASSUME NEW b \in 1 .. batch, StartUndo(b)
      PROVE  Synced' /\ Newest'
  BY <1>2 DEF StartUndo, Synced, Newest, OpLoop, PostOps
<1>3. CASE AddPending
  <2>1. pc = "add" /\ disk[jb] = mem /\ jb = batch
    BY <1>3 DEF AddPending, Synced, Newest, Working, OpLoop
  <2>2. /\ mem' = Marked(mem, cur, "pending")
        /\ \/ pc' = "transfer" /\ disk'[jb] = mem'
           \/ pc' = "fail" /\ disk' = disk
    BY <1>3, <2>1, PersistEffect DEF AddPending
  <2>3. UNCHANGED <<jb, batch, cur>>
    BY <1>3 DEF AddPending
  <2> QED BY <1>m, <2>1, <2>2, <2>3, MarkedSt DEF Synced, Newest
<1>4. CASE Rename \/ BeginCopy \/ EndCopy \/ TransferFails \/ VerifyCopy
  <2>1. /\ pc \in {"transfer", "copying", "verify"}
        /\ pc' \in {"copying", "verify", "mark", "fail"}
        /\ UNCHANGED <<disk, mem, jb, batch, cur>>
    BY <1>4 DEF Rename, BeginCopy, EndCopy, TransferFails, VerifyCopy
  <2>2. disk[jb] = mem /\ jb = batch
    BY <2>1 DEF Synced, Newest, Working, OpLoop
  <2> QED BY <2>1, <2>2 DEF Synced, Newest
<1>5. CASE MarkVerified
  <2>1. pc = "mark" /\ disk[jb] = mem /\ jb = batch
    BY <1>5 DEF MarkVerified, Synced, Newest, Working, OpLoop
  <2>2. /\ mem' = Marked(mem, cur, "verified")
        /\ \/ pc' = (IF LastOfOp THEN AfterOp(cur[1]) ELSE "add") /\ disk'[jb] = mem'
           \/ pc' = "fail" /\ disk' = disk
    BY <1>5, <2>1, PersistEffect DEF MarkVerified
  <2>3. UNCHANGED <<jb, batch>> /\ (pc' = "fail" => cur' = cur)
    BY <1>5 DEF MarkVerified
  <2>4. pc' \in {"add", "gate", "fail"}
    BY <2>2 DEF AfterOp
  <2> QED BY <1>m, <2>1, <2>2, <2>3, <2>4, MarkedSt DEF Synced, Newest, AfterOp
<1>6. CASE HandleFailure
  <2>1. /\ pc = "fail" /\ jb = batch
        /\ disk[jb].ran = mem.ran
    BY <1>6 DEF HandleFailure, Synced, Newest, OpLoop
  <2>2. /\ mem' = Marked(mem, cur, "failed")
        /\ \/ pc' = AfterOp(cur[1]) /\ disk'[jb] = mem'
           \/ pc' = "aborted" /\ disk' = disk
    BY <1>6, <2>1, PersistEffect DEF HandleFailure
  <2>3. UNCHANGED <<jb, batch>>
    BY <1>6 DEF HandleFailure
  <2> QED BY <2>1, <2>2, <2>3 DEF Synced, Newest, AfterOp, OpLoop, PostOps, Working
<1>7. CASE CleanupGate \/ CheckGuards \/ UnlinkSource \/ PruneParents
  <2>1. /\ pc \in {"gate", "guard", "unlink"}
        /\ pc' \in {"guard", "unlink", "record", "done", "aborted"}
        /\ UNCHANGED <<disk, mem, jb, batch, cur>>
    BY <1>7 DEF CleanupGate, CheckGuards, UnlinkSource, PruneParents
  <2>2. disk[jb] = mem /\ jb = batch
    BY <2>1 DEF Synced, Newest, Working, PostOps
  <2> QED BY <2>1, <2>2 DEF Synced, Newest
<1>8. CASE RecordCleanup
  <2>1. pc = "record" /\ jb = batch
    BY <1>8 DEF RecordCleanup, Newest, PostOps
  <2>2. \/ pc' = "done" /\ disk'[jb] = mem'
        \/ pc' = "aborted"
    BY <1>8, <2>1, PersistEffect DEF RecordCleanup
  <2>3. UNCHANGED <<jb, batch>>
    BY <1>8 DEF RecordCleanup
  <2> QED BY <2>1, <2>2, <2>3 DEF Synced, Newest, Working, OpLoop, PostOps
<1>9. CASE Crash
  BY <1>9 DEF Crash, Synced, Newest, Working, OpLoop, PostOps
<1>10. CASE RevertTarget \/ EndUndo
  <2>1. /\ pc = "undo" /\ pc' \in {"undoMark", "undoFailed", "undone"}
        /\ UNCHANGED <<disk, mem, jb>>
    BY <1>10 DEF RevertTarget, EndUndo
  <2> QED BY <2>1 DEF Synced, Newest, Working, OpLoop, PostOps
<1>11. CASE MarkReverted
  <2>1. pc = "undoMark"
    BY <1>11 DEF MarkReverted
  <2>2. \/ pc' = "undo" /\ disk'[jb] = mem'
        \/ pc' = "undoFailed"
    BY <1>11, <2>1, PersistEffect DEF MarkReverted
  <2>3. jb' = jb
    BY <1>11 DEF MarkReverted
  <2> QED BY <2>2, <2>3 DEF Synced, Newest, Working, OpLoop, PostOps
<1>12. CASE UNCHANGED vars
  BY <1>12 DEF vars, Synced, Newest
<1> QED BY <1>1, <1>2, <1>3, <1>4, <1>5, <1>6, <1>7, <1>8, <1>9, <1>10, <1>11, <1>12
        DEF Next, Run

-----------------------------------------------------------------------------
(* The frontier of the op loop                                             *)

\* Distinct keys are ordered one way or the other.
LEMMA Ordered ==
  ASSUME NEW k \in Keys, NEW l \in Keys
  PROVE  k = l \/ After(k, l) \/ After(l, k)
<1>1. k = <<k[1], k[2]>> /\ l = <<l[1], l[2]>>
  BY KeyParts
<1>2. k[1] \in Nat /\ k[2] \in Nat /\ l[1] \in Nat /\ l[2] \in Nat
  BY KeyParts, PlanAssumption
<1> QED BY <1>1, <1>2 DEF After

\* The next file of an op comes right after the current one.
LEMMA AfterFile ==
  ASSUME NEW k \in Keys, NEW l \in Keys
  PROVE  /\ After(l, <<k[1], k[2] + 1>>) => After(l, k)
         /\ After(<<k[1], k[2] + 1>>, l) => l = k \/ After(k, l)
         /\ After(<<k[1], k[2] + 1>>, k)
<1>1. k = <<k[1], k[2]>> /\ l = <<l[1], l[2]>>
  BY KeyParts
<1>2. k[1] \in Nat /\ k[2] \in Nat /\ l[1] \in Nat /\ l[2] \in Nat
  BY KeyParts, PlanAssumption
<1> QED BY <1>1, <1>2 DEF After

\* The next op comes after every file of this one, and right after the last.
LEMMA AfterOpKey ==
  ASSUME NEW k \in Keys, NEW l \in Keys, k[1] < NumOps
  PROVE  /\ After(NextOp(k[1]), k)
         /\ After(l, NextOp(k[1])) => After(l, k)
         /\ k[2] = NumSidecars[k[1]] =>
              (After(NextOp(k[1]), l) => l = k \/ After(k, l))
<1>1. k = <<k[1], k[2]>> /\ l = <<l[1], l[2]>>
  BY KeyParts
<1>2. /\ k[1] \in Nat /\ k[2] \in Nat /\ l[1] \in Nat /\ l[2] \in Nat
      /\ l[1] = k[1] => l[2] <= NumSidecars[k[1]]
  BY KeyParts, PlanAssumption
<1>3. NextOp(k[1]) = <<k[1] + 1, 0>>
  BY DEF NextOp
<1> QED BY <1>1, <1>2, <1>3 DEF After

\* The last key of the plan has every other key behind it.
LEMMA LastKey ==
  ASSUME NEW k \in Keys, NEW l \in Keys, ~(k[1] < NumOps), k[2] = NumSidecars[k[1]]
  PROVE  l = k \/ After(k, l)
<1>1. k = <<k[1], k[2]>> /\ l = <<l[1], l[2]>>
  BY KeyParts
<1>2. /\ k[1] \in Nat /\ k[2] \in Nat /\ l[1] \in Nat /\ l[2] \in Nat /\ l[1] <= NumOps
      /\ NumOps \in Nat
      /\ l[1] = k[1] => l[2] <= NumSidecars[k[1]]
  BY KeyParts, PlanAssumption
<1>3. l[1] <= k[1]
  BY <1>2
<1> QED BY <1>1, <1>2, <1>3 DEF After

\* No key is after itself.
LEMMA NotAfterSelf == \A k \in Keys : ~After(k, k)
BY KeyParts, PlanAssumption DEF After

LEMMA FrontierStep ==
  ASSUME IInv, [Next]_vars
  PROVE  Frontier' /\ Clean'
<1> USE DEF IInv, TypeInv
<1>t. TypeOK'
  BY TypeStep DEF TypeInv
<1>m. mem \in Journal /\ cur \in Keys /\ failed \in Nat
  BY PlanAssumption DEF TypeOK
<1>1. ASSUME NEW cleanup \in BOOLEAN, NEW hash \in BOOLEAN, StartApply(cleanup, hash)
      PROVE  Frontier' /\ Clean'
  <2>1. pc' = "add" /\ cur' = <<1, 0>> /\ cur' \in Keys
    BY <1>1, <1>t DEF StartApply, TypeOK
  <2>2. \A k \in Keys : mem'.st[k] = "none"
    BY <1>1 DEF StartApply, NewJournal
  <2>3. \A k \in Keys : ~After(cur', k)
    BY <2>1, KeyParts, PlanAssumption DEF After
  <2> QED BY <2>1, <2>2, <2>3 DEF Frontier, Clean
<1>2. ASSUME NEW b \in 1 .. batch, StartUndo(b)
      PROVE  Frontier' /\ Clean'
  BY <1>2 DEF StartUndo, Frontier, Clean, OpLoop
<1>3. CASE AddPending
  <2>1. /\ pc = "add" /\ disk[jb] = mem /\ mem.st[cur] = "none"
        /\ \A k \in Keys : After(k, cur) => mem.st[k] = "none"
        /\ \A k \in Keys : k # cur => mem.st[k] # "pending"
        /\ failed = 0 => \A k \in Keys : After(cur, k) => mem.st[k] = "verified"
    BY <1>3 DEF AddPending, Synced, Working, OpLoop, Frontier, Clean
  <2>2. /\ mem' = Marked(mem, cur, "pending")
        /\ \/ pc' = "transfer" /\ disk'[jb] = mem'
           \/ pc' = "fail" /\ disk' = disk
    BY <1>3, <2>1, PersistEffect DEF AddPending
  <2>3. UNCHANGED <<jb, batch, cur, failed>>
    BY <1>3 DEF AddPending, counts
  <2>4. mem'.st[cur] = "pending" /\ \A l \in Keys : l # cur => mem'.st[l] = mem.st[l]
    BY <1>m, <2>2, MarkedSt
  <2>5. Frontier'
    BY <1>m, <2>1, <2>2, <2>3, <2>4, NotAfterSelf DEF Frontier
  <2>6. Clean'
    BY <1>m, <2>1, <2>2, <2>3, <2>4, NotAfterSelf DEF Clean
  <2> QED BY <2>5, <2>6
<1>4. CASE Rename \/ BeginCopy \/ EndCopy \/ TransferFails \/ VerifyCopy
  <2>1. /\ pc \in {"transfer", "copying", "verify"}
        /\ pc' \in {"copying", "verify", "mark", "fail"}
        /\ UNCHANGED <<disk, mem, jb, batch, cur, failed>>
    BY <1>4 DEF Rename, BeginCopy, EndCopy, TransferFails, VerifyCopy, counts
  <2>2. disk[jb] = mem
    BY <2>1 DEF Synced, Working
  <2> QED BY <2>1, <2>2 DEF Frontier, Clean, OpLoop
<1>5. CASE MarkVerified
  <2>1. /\ pc = "mark" /\ disk[jb] = mem /\ mem.st[cur] = "pending"
        /\ \A k \in Keys : After(k, cur) => mem.st[k] = "none"
        /\ \A k \in Keys : k # cur => mem.st[k] # "pending"
        /\ failed = 0 => \A k \in Keys : After(cur, k) => mem.st[k] = "verified"
    BY <1>5 DEF MarkVerified, Synced, Working, OpLoop, Frontier, Clean
  <2>2. /\ mem' = Marked(mem, cur, "verified")
        /\ \/ pc' = (IF LastOfOp THEN AfterOp(cur[1]) ELSE "add") /\ disk'[jb] = mem'
           \/ pc' = "fail" /\ disk' = disk
    BY <1>5, <2>1, PersistEffect DEF MarkVerified
  <2>3. /\ UNCHANGED <<jb, batch, failed>> /\ (pc' = "fail" => cur' = cur)
        /\ pc' # "fail" =>
             cur' = IF LastOfOp THEN NextOp(cur[1]) ELSE <<cur[1], cur[2] + 1>>
    BY <1>5 DEF MarkVerified
  <2>4. mem'.st[cur] = "verified" /\ \A l \in Keys : l # cur => mem'.st[l] = mem.st[l]
    BY <1>m, <2>2, MarkedSt
  <2>5. CASE pc' = "fail"
    <3>1. disk'[jb'].st[cur'] = "pending" /\ cur' = cur
      BY <2>1, <2>2, <2>3, <2>5 DEF AfterOp
    <3> QED BY <1>m, <2>1, <2>3, <2>4, <2>5, <3>1, NotAfterSelf DEF Frontier, Clean
  <2>6. CASE pc' # "fail" /\ ~LastOfOp
    <3>1. pc' = "add" /\ cur' = <<cur[1], cur[2] + 1>> /\ cur' \in Keys
      BY <1>t, <2>2, <2>3, <2>6 DEF TypeOK
    <3>2. /\ After(cur', cur)
          /\ \A l \in Keys : After(l, cur') => After(l, cur)
          /\ \A l \in Keys : After(cur', l) => l = cur \/ After(cur, l)
      BY <1>m, <3>1, AfterFile
    <3> QED BY <1>m, <2>1, <2>3, <2>4, <3>1, <3>2, NotAfterSelf DEF Frontier, Clean
  <2>7. CASE pc' # "fail" /\ LastOfOp /\ cur[1] < NumOps
    <3>1. pc' = "add" /\ cur' = NextOp(cur[1]) /\ cur' \in Keys
      BY <1>t, <2>2, <2>3, <2>7 DEF TypeOK, AfterOp
    <3>2. /\ After(cur', cur)
          /\ \A l \in Keys : After(l, cur') => After(l, cur)
          /\ \A l \in Keys : After(cur', l) => l = cur \/ After(cur, l)
      BY <1>m, <2>7, <3>1, AfterOpKey DEF LastOfOp
    <3> QED BY <1>m, <2>1, <2>3, <2>4, <3>1, <3>2, NotAfterSelf DEF Frontier, Clean
  <2>8. CASE pc' # "fail" /\ LastOfOp /\ ~(cur[1] < NumOps)
    <3>1. pc' = "gate"
      BY <2>2, <2>8 DEF AfterOp
    <3>2. \A l \in Keys : l = cur \/ After(cur, l)
      BY <1>m, <2>8, LastKey DEF LastOfOp
    <3>3. failed' = 0 => \A l \in Keys : mem'.st[l] = "verified"
      BY <1>m, <2>1, <2>3, <2>4, <3>2
    <3> QED BY <3>1, <3>3 DEF Frontier, Clean, OpLoop, Verified
  <2> QED BY <2>5, <2>6, <2>7, <2>8
<1>6. CASE HandleFailure
  <2>1. /\ pc = "fail"
        /\ \A k \in Keys : After(k, cur) => mem.st[k] = "none"
        /\ \A k \in Keys : k # cur => mem.st[k] # "pending"
    BY <1>6 DEF HandleFailure, OpLoop, Frontier
  <2>2. /\ mem' = Marked(mem, cur, "failed")
        /\ pc' \in {AfterOp(cur[1]), "aborted"}
    BY <1>6, <2>1, PersistEffect DEF HandleFailure
  <2>3. pc' # "aborted" => cur' = NextOp(cur[1]) /\ failed' = failed + 1
    BY <1>6 DEF HandleFailure
  <2>4. mem'.st[cur] = "failed" /\ \A l \in Keys : l # cur => mem'.st[l] = mem.st[l]
    BY <1>m, <2>2, MarkedSt
  <2>5. CASE pc' = "aborted"
    BY <2>5 DEF Frontier, Clean, OpLoop
  <2>6. CASE pc' # "aborted" /\ cur[1] < NumOps
    <3>1. pc' = "add" /\ cur' = NextOp(cur[1]) /\ cur' \in Keys /\ failed' # 0
      BY <1>m, <1>t, <2>2, <2>3, <2>6 DEF TypeOK, AfterOp
    <3>2. After(cur', cur) /\ \A l \in Keys : After(l, cur') => After(l, cur)
      BY <1>m, <2>6, <3>1, AfterOpKey
    <3> QED BY <1>m, <2>1, <2>4, <3>1, <3>2, NotAfterSelf DEF Frontier, Clean
  <2>7. CASE pc' # "aborted" /\ ~(cur[1] < NumOps)
    <3>1. pc' = "gate" /\ failed' # 0
      BY <1>m, <2>2, <2>3, <2>7 DEF AfterOp
    <3> QED BY <3>1 DEF Frontier, Clean, OpLoop
  <2> QED BY <2>5, <2>6, <2>7
<1>7. CASE CleanupGate \/ CheckGuards \/ UnlinkSource \/ PruneParents \/ RecordCleanup \/ Crash
  <2>1. pc' \in {"guard", "unlink", "record", "done", "aborted", "crashed"}
    BY <1>7 DEF CleanupGate, CheckGuards, UnlinkSource, PruneParents, RecordCleanup, Persist, Crash
  <2> QED BY <2>1 DEF Frontier, Clean, OpLoop
<1>8. CASE RevertTarget
  BY <1>8 DEF RevertTarget, Verified, Frontier, Clean, OpLoop
<1>9. CASE MarkReverted \/ EndUndo
  <2>1. pc' \in {"undo", "undoFailed", "undone"}
    BY <1>9 DEF MarkReverted, EndUndo, Persist
  <2> QED BY <2>1 DEF Frontier, Clean, OpLoop
<1>10. CASE UNCHANGED vars
  BY <1>10 DEF vars, counts, Frontier, Clean, Verified
<1> QED BY <1>1, <1>2, <1>3, <1>4, <1>5, <1>6, <1>7, <1>8, <1>9, <1>10 DEF Next, Run

-----------------------------------------------------------------------------
(* The cleanup gate, and batches yet to come                               *)

LEMMA LicenceStep ==
  ASSUME IInv, [Next]_vars
  PROVE  Licensed'
<1> USE DEF IInv, TypeInv
<1>1. CASE CleanupGate
  <2>1. pc' = "guard" => opts[jb].cleanup /\ failed = 0 /\ Verified(mem) = Keys
    BY <1>1 DEF CleanupGate, Clean
  <2>2. pc' \in {"guard", "done"} /\ UNCHANGED <<opts, jb, failed, mem>>
    BY <1>1 DEF CleanupGate, counts
  <2> QED BY <2>1, <2>2 DEF Licensed, Verified
<1>2. CASE CheckGuards
  <2>1. opts[jb].cleanup /\ failed = 0 /\ Verified(mem) = Keys
    BY <1>2 DEF CheckGuards, Licensed
  <2>2. pc' = "unlink" => \A k \in Keys : Src[k] \notin outside
    BY <1>2, <2>1 DEF CheckGuards
  <2>3. pc' \in {"unlink", "aborted"} /\ UNCHANGED <<opts, jb, failed, mem, outside>>
    BY <1>2 DEF CheckGuards, counts, fixed
  <2> QED BY <2>1, <2>2, <2>3 DEF Licensed, Verified
<1>3. CASE UnlinkSource \/ PruneParents
  <2>1. /\ pc = "unlink" /\ pc' \in {"unlink", "record", "aborted"}
        /\ UNCHANGED <<opts, jb, failed, mem, outside>>
    BY <1>3 DEF UnlinkSource, PruneParents, counts, fixed
  <2> QED BY <2>1 DEF Licensed, Verified
<1>4. ASSUME \/ \E cleanup, hash \in BOOLEAN : StartApply(cleanup, hash)
             \/ \E b \in 1 .. batch : StartUndo(b)
             \/ AddPending \/ Rename \/ BeginCopy \/ EndCopy \/ TransferFails \/ VerifyCopy
             \/ MarkVerified \/ HandleFailure \/ RecordCleanup \/ Crash
             \/ RevertTarget \/ MarkReverted \/ EndUndo
      PROVE  Licensed'
  <2>1. pc' \notin {"guard", "unlink", "record"}
    BY <1>4 DEF StartApply, StartUndo, AddPending, Rename, BeginCopy, EndCopy, TransferFails,
       VerifyCopy, MarkVerified, HandleFailure, RecordCleanup, Crash, RevertTarget,
       MarkReverted, EndUndo, Persist, AfterOp
  <2> QED BY <2>1 DEF Licensed
<1>5. CASE UNCHANGED vars
  BY <1>5 DEF vars, counts, fixed, Licensed, Verified
<1> QED BY <1>1, <1>2, <1>3, <1>4, <1>5 DEF Next, Run

LEMMA FutureStep ==
  ASSUME IInv, [Next]_vars
  PROVE  Unasked' /\ Unopened'
<1> USE DEF IInv, TypeInv
<1>n. batch \in Nat /\ Batches \subseteq Nat
  BY PlanAssumption DEF TypeOK, Batches
<1>1. ASSUME NEW cleanup \in BOOLEAN, NEW hash \in BOOLEAN, StartApply(cleanup, hash)
      PROVE  Unasked' /\ Unopened'
  <2>1. batch' = batch + 1
    BY <1>1 DEF StartApply
  <2>2. \A b \in Batches : b > batch' => opts'[b] = opts[b] /\ disk'[b] = disk[b] /\ b > batch
    BY <1>n, <1>1, <2>1 DEF StartApply, TypeOK
  <2> QED BY <2>2 DEF Unasked, Unopened
<1>2. ASSUME UNCHANGED <<batch, opts>>,
             \/ disk' = disk
             \/ pc # "idle" /\ \E j : disk' = [disk EXCEPT ![jb] = j]
      PROVE  Unasked' /\ Unopened'
  <2>1. jb \in 0 .. batch /\ disk \in [Batches -> Journal]
    BY DEF TypeOK
  <2>2. \A b \in Batches : b > batch => b # jb
    BY <1>n, <2>1
  <2>3. \A b \in Batches : b > batch => disk'[b] = disk[b]
    BY <1>2, <2>1, <2>2
  <2> QED BY <1>2, <2>3 DEF Unasked, Unopened
<1>3. ASSUME AddPending \/ MarkVerified \/ HandleFailure \/ RecordCleanup \/ MarkReverted
      PROVE  Unasked' /\ Unopened'
  <2>1. UNCHANGED <<batch, opts>> /\ pc # "idle"
    BY <1>3 DEF AddPending, MarkVerified, HandleFailure, RecordCleanup, MarkReverted
  <2>2. disk' = disk \/ \E j : disk' = [disk EXCEPT ![jb] = j]
    BY <1>3 DEF AddPending, MarkVerified, HandleFailure, RecordCleanup, MarkReverted, Persist
  <2> QED BY <1>2, <2>1, <2>2
<1>4. ASSUME \/ \E b \in 1 .. batch : StartUndo(b)
             \/ Rename \/ BeginCopy \/ EndCopy \/ TransferFails \/ VerifyCopy
             \/ CleanupGate \/ CheckGuards \/ UnlinkSource \/ PruneParents \/ Crash
             \/ RevertTarget \/ EndUndo \/ UNCHANGED vars
      PROVE  Unasked' /\ Unopened'
  <2>1. UNCHANGED <<batch, opts, disk>>
    BY <1>4 DEF StartUndo, Rename, BeginCopy, EndCopy, TransferFails, VerifyCopy, CleanupGate,
       CheckGuards, UnlinkSource, PruneParents, Crash, RevertTarget, EndUndo, vars
  <2> QED BY <1>2, <2>1
<1> QED BY <1>1, <1>3, <1>4 DEF Next, Run

LEMMA Invariance == Spec => []IInv
<1>1. Init => IInv
  <2> SUFFICES ASSUME Init PROVE IInv
    OBVIOUS
  <2>1. TypeInv
    BY TypeInit
  <2>2. Synced /\ Newest /\ Frontier /\ Clean /\ Licensed
    BY DEF Init, Synced, Newest, Frontier, Clean, Licensed, OpLoop, PostOps, Working
  <2>3. Unasked /\ Unopened
    BY DEF Init, Unasked, Unopened
  <2> QED BY <2>1, <2>2, <2>3 DEF IInv
<1>2. IInv /\ [Next]_vars => IInv'
  BY TypeStep, SyncStep, FrontierStep, LicenceStep, FutureStep DEF IInv
<1> QED BY <1>1, <1>2, PTL DEF Spec

-----------------------------------------------------------------------------
(* What the invariant gives                                                *)

\* Cleanup is all or nothing: no source is unlinked by the cleanup pass unless
\* every key of the plan is verified and every source passed the guards.
THEOREM CleanupGated == Spec => CleanupIsAllOrNothing
<1> DEFINE Gated == /\ Verified(mem) = Keys
                    /\ \A k \in Keys : Src[k] \notin outside
<1>1. IInv /\ [Next]_vars => [swept' # swept => Gated]_vars
  <2> SUFFICES ASSUME IInv, [Next]_vars, swept' # swept
               PROVE  Gated
    OBVIOUS
  <2>1. CASE UnlinkSource
    <3>1. pc = "unlink"
      BY <2>1 DEF UnlinkSource
    <3> QED BY <3>1 DEF IInv, Licensed
  <2>2. CASE ~UnlinkSource
    <3>1. swept' = swept
      BY <2>2 DEF Next, Run, StartApply, StartUndo, AddPending, Rename, BeginCopy, EndCopy,
         TransferFails, VerifyCopy, MarkVerified, HandleFailure, CleanupGate, CheckGuards,
         PruneParents, RecordCleanup, Crash, RevertTarget, MarkReverted, EndUndo, vars, history
    <3> QED BY <3>1
  <2> QED BY <2>1, <2>2
<1> QED BY <1>1, Invariance, PTL DEF Spec, CleanupIsAllOrNothing

\* No batch has asked for cleanup.
Uncleaned == \A b \in Batches : ~opts[b].cleanup

\* A batch that asks for nothing now asked for nothing before.
LEMMA AskedBefore ==
  ASSUME IInv, [Next]_vars, \A b \in Batches : ~opts'[b].cleanup
  PROVE  Uncleaned
<1>t. TypeOK
  BY DEF IInv, TypeInv
<1>1. ASSUME NEW cleanup \in BOOLEAN, NEW hash \in BOOLEAN, StartApply(cleanup, hash)
      PROVE  Uncleaned
  <2>1. ~opts[batch + 1].cleanup
    BY <1>t, <1>1, PlanAssumption DEF StartApply, IInv, Unasked, TypeOK, Batches
  <2>2. \A b \in Batches : b # batch + 1 => opts'[b] = opts[b]
    BY <1>1, <1>t DEF StartApply, TypeOK
  <2> QED BY <2>1, <2>2 DEF Uncleaned
<1>2. ASSUME ~ \E cleanup, hash \in BOOLEAN : StartApply(cleanup, hash)
      PROVE  Uncleaned
  <2>1. opts' = opts
    BY <1>2 DEF Next, Run, StartUndo, AddPending, Rename, BeginCopy, EndCopy, TransferFails,
       VerifyCopy, MarkVerified, HandleFailure, CleanupGate, CheckGuards, UnlinkSource,
       PruneParents, RecordCleanup, Crash, RevertTarget, MarkReverted, EndUndo, vars
  <2> QED BY <2>1 DEF Uncleaned
<1> QED BY <1>1, <1>2

\* Copying keeps the sources: when no target of the plan is one of its sources
\* and no batch asked for cleanup, no apply, undo, failure or crash ever
\* changes a source.
THEOREM CopySafe ==
  ASSUME \A k, l \in Keys : Src[k] # Dst[l]
  PROVE  Spec => []CopyKeepsSources
<1>1. Init => CopyKeepsSources
  BY DEF Init, CopyKeepsSources
<1>2. IInv /\ CopyKeepsSources /\ [Next]_vars => CopyKeepsSources'
  <2> SUFFICES ASSUME IInv, CopyKeepsSources, [Next]_vars,
                      \A b \in Batches : ~opts'[b].cleanup,
                      NEW k \in Keys
               PROVE  fs'[Src[k]] = fs0'[Src[k]]
    BY DEF CopyKeepsSources
  <2>t. TypeOK /\ Src[k] \in Path
    BY PlanAssumption DEF IInv, TypeInv
  <2>1. \A b \in Batches : ~opts[b].cleanup
    BY AskedBefore DEF Uncleaned
  <2>2. fs[Src[k]] = fs0[Src[k]]
    BY <2>1 DEF CopyKeepsSources
  <2>3. ~Rename /\ ~UnlinkSource
    <3>1. pc # "idle" => jb \in Batches
      BY <2>t DEF TypeOK
    <3> QED BY <2>1, <3>1 DEF Rename, MayRename, UnlinkSource, IInv, Licensed
  <2>4. fs0' = fs0
    BY DEF Next, Run, StartApply, StartUndo, AddPending, Rename, BeginCopy, EndCopy,
       TransferFails, VerifyCopy, MarkVerified, HandleFailure, CleanupGate, CheckGuards,
       UnlinkSource, PruneParents, RecordCleanup, Crash, RevertTarget, MarkReverted, EndUndo,
       vars, fixed
  <2>5. CASE BeginCopy \/ EndCopy
    <3>1. fs' = fs \/ \E f : fs' = [fs EXCEPT ![Dst[cur]] = f]
      BY <2>5 DEF BeginCopy, EndCopy
    <3>2. cur \in Keys /\ fs \in [Path -> Blob \cup {Absent}]
      BY <2>t DEF TypeOK
    <3>3. fs'[Src[k]] = fs[Src[k]]
      BY <2>t, <3>1, <3>2
    <3> QED BY <2>2, <2>4, <3>3
  <2>6. CASE RevertTarget
    <3>1. PICK l \in Keys : fs' = fs \/ fs' = [fs EXCEPT ![Dst[l]] = Absent]
      BY <2>6 DEF RevertTarget, Verified
    <3>2. fs'[Src[k]] = fs[Src[k]]
      BY <2>t, <3>1 DEF TypeOK
    <3> QED BY <2>2, <2>4, <3>2
  <2>7. CASE ~(BeginCopy \/ EndCopy \/ RevertTarget)
    <3>1. fs' = fs
      BY <2>3, <2>7 DEF Next, Run, StartApply, StartUndo, AddPending, TransferFails, VerifyCopy,
         MarkVerified, HandleFailure, CleanupGate, CheckGuards, PruneParents, RecordCleanup,
         Crash, MarkReverted, EndUndo, vars
    <3> QED BY <2>2, <2>4, <3>1
  <2> QED BY <2>5, <2>6, <2>7
<1> QED BY <1>1, <1>2, Invariance, PTL DEF Spec

-----------------------------------------------------------------------------
(* Write-ahead journalling                                                 *)

\* No journal on disk ever loses an entry.
LEMMA JournalsGrow ==
  ASSUME IInv, [Next]_vars, NEW b \in 1 .. batch, NEW k \in Keys, disk[b].st[k] # "none"
  PROVE  b \in 1 .. batch' /\ disk'[b].st[k] # "none"
<1>t. TypeOK /\ b \in Batches /\ batch \in Nat /\ cur \in Keys
  <2>1. TypeOK
    BY DEF IInv, TypeInv
  <2>2. batch \in 0 .. MaxBatches /\ cur \in Keys
    BY <2>1 DEF TypeOK
  <2> QED BY <2>1, <2>2, PlanAssumption DEF Batches
<1>1. ASSUME NEW cleanup \in BOOLEAN, NEW hash \in BOOLEAN, StartApply(cleanup, hash)
      PROVE  b \in 1 .. batch' /\ disk'[b].st[k] # "none"
  BY <1>t, <1>1 DEF StartApply, TypeOK
<1>2. ASSUME NEW status, status # "none", NEW ok, NEW raised,
             pc \in {"add", "mark", "fail", "undoMark"}, batch' = batch,
             Persist(Marked(mem, cur, status), ok, raised)
      PROVE  b \in 1 .. batch' /\ disk'[b].st[k] # "none"
  <2>1. /\ pc # "idle" /\ mem \in Journal
        /\ b = jb /\ k # cur => mem.st[k] # "none"
    BY <1>2 DEF IInv, TypeInv, TypeOK, Synced, Working
  <2>2. b # jb \/ disk' = disk => disk'[b] = disk[b]
    BY <1>t, <1>2, <2>1, PersistEffect
  <2>3. b # jb \/ disk' = disk \/ disk'[jb] = Marked(mem, cur, status)
    BY <1>t, <1>2, <2>1, PersistEffect
  <2>4. k # cur => Marked(mem, cur, status).st[k] = mem.st[k]
    BY <1>t, <2>1, MarkedSt
  <2>5. Marked(mem, cur, status).st[cur] # "none"
    BY <1>t, <1>2, <2>1, MarkedSt
  <2> QED BY <1>2, <2>1, <2>2, <2>3, <2>4, <2>5
<1>3. ASSUME AddPending \/ MarkVerified \/ HandleFailure \/ MarkReverted
      PROVE  b \in 1 .. batch' /\ disk'[b].st[k] # "none"
  <2>1. \E status \in {"pending", "verified", "failed", "reverted"} : \E ok, raised :
          Persist(Marked(mem, cur, status), ok, raised)
    BY <1>3 DEF AddPending, MarkVerified, HandleFailure, MarkReverted
  <2>2. batch' = batch /\ pc \in {"add", "mark", "fail", "undoMark"}
    BY <1>3 DEF AddPending, MarkVerified, HandleFailure, MarkReverted
  <2> QED BY <1>2, <2>1, <2>2
<1>4. CASE RecordCleanup
  <2>1. pc = "record" /\ disk[jb] = mem /\ mem \in Journal /\ batch' = batch
    BY <1>4 DEF RecordCleanup, IInv, TypeInv, TypeOK, Synced, Working
  <2>2. b # jb \/ disk' = disk => disk'[b] = disk[b]
    BY <1>t, <1>4, <2>1, PersistEffect DEF RecordCleanup
  <2>3. b # jb \/ disk' = disk \/ disk'[jb] = [mem EXCEPT !.ran = TRUE]
    BY <1>t, <1>4, <2>1, PersistEffect DEF RecordCleanup
  <2>4. [mem EXCEPT !.ran = TRUE].st = mem.st
    BY <2>1 DEF Journal
  <2> QED BY <2>1, <2>2, <2>3, <2>4
<1>5. ASSUME UNCHANGED <<disk, batch>>
      PROVE  b \in 1 .. batch' /\ disk'[b].st[k] # "none"
  BY <1>5
<1> QED BY <1>1, <1>3, <1>4, <1>5 DEF Next, Run, StartUndo, Rename, BeginCopy, EndCopy,
           TransferFails, VerifyCopy, CleanupGate, CheckGuards, UnlinkSource, PruneParents,
           Crash, RevertTarget, EndUndo, vars

\* A step that changes a path names it first.
LEMMA NamedFirst ==
  ASSUME IInv, [Next]_vars, NEW p \in Path, fs'[p] # fs[p]
  PROVE  \E b \in 1 .. batch, k \in Keys : disk[b].st[k] # "none" /\ p \in {Src[k], Dst[k]}
<1>t. TypeOK /\ jb \in 0 .. batch /\ (pc # "idle" => jb \in 1 .. batch)
  <2>1. TypeOK
    BY DEF IInv, TypeInv
  <2>2. jb \in 0 .. batch /\ (pc # "idle" => jb \in Batches)
    BY <2>1 DEF TypeOK
  <2> QED BY <2>1, <2>2 DEF Batches
<1>s. pc \in {"transfer", "copying", "unlink", "undo"} => disk[jb] = mem
  BY DEF IInv, Synced, Working
<1>1. CASE Rename \/ BeginCopy \/ EndCopy
  <2>1. cur \in Keys /\ disk[jb].st[cur] # "none" /\ jb \in 1 .. batch
    BY <1>1, <1>t, <1>s DEF Rename, BeginCopy, EndCopy, IInv, Frontier, TypeOK
  <2>2. fs \in [Path -> Blob \cup {Absent}]
    BY <1>t DEF TypeOK
  <2>3. p \in {Src[cur], Dst[cur]}
    BY <1>1, <2>2 DEF Rename, BeginCopy, EndCopy
  <2> QED BY <2>1, <2>3
<1>2. CASE UnlinkSource
  <2>1. PICK k \in Keys : p = Src[k]
    BY <1>2, <1>t DEF UnlinkSource, TypeOK
  <2>2. k \in Verified(mem) /\ jb \in 1 .. batch
    BY <1>2, <1>t DEF UnlinkSource, IInv, Licensed
  <2> QED BY <1>2, <1>s, <2>1, <2>2 DEF UnlinkSource, Verified
<1>3. CASE RevertTarget
  <2>1. PICK k \in Verified(mem) : p = Dst[k]
    BY <1>3, <1>t DEF RevertTarget, TypeOK
  <2> QED BY <1>3, <1>t, <1>s, <2>1 DEF RevertTarget, Verified
<1>4. CASE ~(Rename \/ BeginCopy \/ EndCopy \/ UnlinkSource \/ RevertTarget)
  <2>1. fs' = fs
    BY <1>4 DEF Next, Run, StartApply, StartUndo, AddPending, TransferFails, VerifyCopy,
       MarkVerified, HandleFailure, CleanupGate, CheckGuards, PruneParents, RecordCleanup,
       Crash, MarkReverted, EndUndo, vars
  <2> QED BY <2>1
<1> QED BY <1>1, <1>2, <1>3, <1>4

\* Every change the executor ever made to the disk is named by a journal that a
\* later process can read, whatever failed and whenever the process died.
THEOREM WriteAheadHolds == Spec => []WriteAhead
<1>1. Init => WriteAhead
  BY DEF Init, WriteAhead
<1>2. IInv /\ WriteAhead /\ [Next]_vars => WriteAhead'
  <2> SUFFICES ASSUME IInv, WriteAhead, [Next]_vars, NEW p \in Path, fs'[p] # fs0'[p]
               PROVE  \E b \in 1 .. batch', k \in Keys :
                        disk'[b].st[k] # "none" /\ p \in {Src[k], Dst[k]}
    BY DEF WriteAhead
  <2>1. fs0' = fs0
    BY DEF Next, Run, StartApply, StartUndo, AddPending, Rename, BeginCopy, EndCopy,
       TransferFails, VerifyCopy, MarkVerified, HandleFailure, CleanupGate, CheckGuards,
       UnlinkSource, PruneParents, RecordCleanup, Crash, RevertTarget, MarkReverted, EndUndo,
       vars, fixed
  <2>2. PICK b \in 1 .. batch, k \in Keys : disk[b].st[k] # "none" /\ p \in {Src[k], Dst[k]}
    <3>1. CASE fs'[p] # fs[p]
      BY <3>1, NamedFirst
    <3>2. CASE fs'[p] = fs[p]
      BY <2>1, <3>2 DEF WriteAhead
    <3> QED BY <3>1, <3>2
  <2> QED BY <2>2, JournalsGrow
<1> QED BY <1>1, <1>2, Invariance, PTL DEF Spec

-----------------------------------------------------------------------------
(* The executor implements the ledger                                      *)

\* A journal write that marks one key is a Set of the ledger.
LEMMA WriteIsSet ==
  ASSUME IInv, NEW status \in Status, pc \in {"add", "mark", "fail", "undoMark"},
         disk' = [disk EXCEPT ![jb] = Marked(mem, cur, status)],
         NEW b, NEW k, b = jb, k = cur
  PROVE  Journals!Set(b, k, status) /\ UNCHANGED [c \in Batches |-> disk[c].ran]
<1>1. disk \in [Batches -> Journal] /\ mem \in Journal /\ cur \in Keys /\ jb \in Batches
  BY DEF IInv, TypeInv, TypeOK
<1>2. /\ disk[jb].ran = mem.ran
      /\ \A l \in Keys : l # cur => disk[jb].st[l] = mem.st[l]
  BY <1>1 DEF IInv, Synced, Working
<1>3. Marked(mem, cur, status).st = [disk[jb].st EXCEPT ![cur] = status]
  <2>1. mem.st \in [Keys -> Status] /\ disk[jb].st \in [Keys -> Status]
    BY <1>1 DEF Journal
  <2>2. Marked(mem, cur, status).st = [mem.st EXCEPT ![cur] = status]
    BY <1>1 DEF Marked, Journal
  <2> QED BY <1>1, <1>2, <2>1, <2>2
<1>4. Marked(mem, cur, status).ran = mem.ran
  BY <1>1, MarkedSt
<1>5. \A c \in Batches : disk'[c] = IF c = jb THEN Marked(mem, cur, status) ELSE disk[c]
  BY <1>1
<1>6. [c \in Batches |-> disk'[c].st]
        = [[c \in Batches |-> disk[c].st] EXCEPT ![jb][cur] = status]
  BY <1>1, <1>3, <1>5
<1>7. [c \in Batches |-> disk'[c].ran] = [c \in Batches |-> disk[c].ran]
  BY <1>1, <1>2, <1>4, <1>5
<1> QED BY <1>6, <1>7 DEF Journals!Set

\* Every step of the executor is a step of the ledger or leaves it alone.
LEMMA LedgerStep ==
  ASSUME IInv, [Next]_vars
  PROVE  [Journals!Next]_Journals!ledger
<1> DEFINE Still == UNCHANGED <<disk, batch>>
<1>0. Still => [Journals!Next]_Journals!ledger
  BY DEF Journals!ledger
<1>t. /\ disk \in [Batches -> Journal] /\ mem \in Journal /\ cur \in Keys
      /\ (pc # "idle" => jb \in Batches)
  BY DEF IInv, TypeInv, TypeOK
<1>1. ASSUME NEW cleanup \in BOOLEAN, NEW hash \in BOOLEAN, StartApply(cleanup, hash)
      PROVE  Journals!Open
  <2>1. batch + 1 \in Batches
    BY <1>1, PlanAssumption DEF StartApply, IInv, TypeInv, TypeOK, Batches
  <2>2. disk[batch + 1] = NewJournal
    BY <2>1, PlanAssumption DEF IInv, TypeInv, TypeOK, Unopened, Batches
  <2>3. disk' = disk /\ batch' = batch + 1
    BY <1>1, <1>t, <2>2 DEF StartApply
  <2> QED BY <2>1, <2>3 DEF Journals!Open
<1>2. CASE AddPending
  <2>0. PICK b \in Batches, k \in Keys : b = jb /\ k = cur
    BY <1>2, <1>t DEF AddPending
  <2>1. pc = "add" /\ jb = batch /\ batch' = batch /\ disk[jb] = mem
    BY <1>2 DEF AddPending, IInv, Newest, OpLoop, Synced, Working
  <2>2. disk' = disk \/ disk' = [disk EXCEPT ![jb] = Marked(mem, cur, "pending")]
    BY <1>2 DEF AddPending, Persist
  <2>3. mem.st[cur] = "none" /\ \A l \in Keys : l # cur => mem.st[l] # "pending"
    BY <2>1 DEF IInv, Frontier, OpLoop
  <2>4. CASE disk' = [disk EXCEPT ![jb] = Marked(mem, cur, "pending")]
    <3>1. Journals!Set(b, k, "pending") /\ UNCHANGED [c \in Batches |-> disk[c].ran]
      BY <2>0, <2>1, <2>4, WriteIsSet DEF Status
    <3>2. Journals!Log(b, k)
      BY <1>t, <2>0, <2>1, <2>3, <3>1 DEF Journals!Log
    <3>3. Journals!Next
      BY <3>2 DEF Journals!Next
    <3> QED BY <3>3
  <2> QED BY <1>0, <2>1, <2>2, <2>4
<1>3. CASE MarkVerified
  <2>0. PICK b \in Batches, k \in Keys : b = jb /\ k = cur
    BY <1>3, <1>t DEF MarkVerified
  <2>1. pc = "mark" /\ jb = batch /\ batch' = batch /\ disk[jb] = mem
    BY <1>3 DEF MarkVerified, IInv, Newest, OpLoop, Synced, Working
  <2>2. disk' = disk \/ disk' = [disk EXCEPT ![jb] = Marked(mem, cur, "verified")]
    BY <1>3 DEF MarkVerified, Persist
  <2>3. mem.st[cur] = "pending" /\ \A l \in Keys : l # cur => mem.st[l] # "pending"
    BY <2>1 DEF IInv, Frontier, OpLoop
  <2>4. CASE disk' = [disk EXCEPT ![jb] = Marked(mem, cur, "verified")]
    <3>1. Journals!Set(b, k, "verified") /\ UNCHANGED [c \in Batches |-> disk[c].ran]
      BY <2>0, <2>1, <2>4, WriteIsSet DEF Status
    <3>2. Journals!Settle(b, k)
      BY <1>t, <2>0, <2>1, <2>3, <3>1 DEF Journals!Settle
    <3>3. Journals!Next
      BY <3>2 DEF Journals!Next
    <3> QED BY <3>3
  <2> QED BY <1>0, <2>1, <2>2, <2>4
<1>4. CASE HandleFailure
  <2>0. PICK b \in Batches, k \in Keys : b = jb /\ k = cur
    BY <1>4, <1>t DEF HandleFailure
  <2>1. pc = "fail" /\ jb = batch /\ batch' = batch
    BY <1>4 DEF HandleFailure, IInv, Newest, OpLoop
  <2>2. disk' = disk \/ disk' = [disk EXCEPT ![jb] = Marked(mem, cur, "failed")]
    BY <1>4 DEF HandleFailure, Persist
  <2>3. /\ disk[jb].st[cur] \in {"none", "pending"}
        /\ \A l \in Keys : l # cur => disk[jb].st[l] # "pending"
    BY <2>1 DEF IInv, Frontier, OpLoop, Synced
  <2>4. CASE disk' = [disk EXCEPT ![jb] = Marked(mem, cur, "failed")]
    <3>1. Journals!Set(b, k, "failed") /\ UNCHANGED [c \in Batches |-> disk[c].ran]
      BY <2>0, <2>1, <2>4, WriteIsSet DEF Status
    <3>2. Journals!Settle(b, k)
      BY <1>t, <2>0, <2>1, <2>3, <3>1 DEF Journals!Settle
    <3>3. Journals!Next
      BY <3>2 DEF Journals!Next
    <3> QED BY <3>3
  <2> QED BY <1>0, <2>1, <2>2, <2>4
<1>5. CASE RecordCleanup
  <2>0. PICK b \in Batches : b = jb
    BY <1>5, <1>t DEF RecordCleanup
  <2>1. /\ pc = "record" /\ jb = batch /\ batch' = batch /\ disk[jb] = mem
        /\ Verified(mem) = Keys
    BY <1>5 DEF RecordCleanup, IInv, Newest, PostOps, Synced, Working, Licensed
  <2>2. disk' = disk \/ disk' = [disk EXCEPT ![jb] = [mem EXCEPT !.ran = TRUE]]
    BY <1>5 DEF RecordCleanup, Persist
  <2>3. CASE disk' = [disk EXCEPT ![jb] = [mem EXCEPT !.ran = TRUE]]
    <3>1. [mem EXCEPT !.ran = TRUE].ran = TRUE /\ [mem EXCEPT !.ran = TRUE].st = mem.st
      BY <1>t DEF Journal
    <3>2. \A c \in Batches :
            disk'[c] = IF c = jb THEN [mem EXCEPT !.ran = TRUE] ELSE disk[c]
      BY <1>t, <2>1, <2>3
    <3>3. [c \in Batches |-> disk'[c].ran]
            = [[c \in Batches |-> disk[c].ran] EXCEPT ![jb] = TRUE]
      BY <1>t, <2>1, <3>1, <3>2
    <3>4. [c \in Batches |-> disk'[c].st] = [c \in Batches |-> disk[c].st]
      BY <1>t, <2>1, <3>1, <3>2
    <3>5. Journals!Commit(b)
      BY <1>t, <2>0, <2>1, <3>3, <3>4 DEF Journals!Commit, Verified
    <3>6. Journals!Next
      BY <3>5 DEF Journals!Next
    <3> QED BY <3>6
  <2> QED BY <1>0, <2>1, <2>2, <2>3
<1>6. CASE MarkReverted
  <2>0. PICK b \in Batches, k \in Keys : b = jb /\ k = cur
    BY <1>6, <1>t DEF MarkReverted
  <2>1. pc = "undoMark" /\ batch' = batch /\ disk[jb] = mem /\ mem.st[cur] = "verified"
    BY <1>6 DEF MarkReverted, IInv, Frontier, Synced, Working
  <2>2. disk' = disk \/ disk' = [disk EXCEPT ![jb] = Marked(mem, cur, "reverted")]
    BY <1>6 DEF MarkReverted, Persist
  <2>3. CASE disk' = [disk EXCEPT ![jb] = Marked(mem, cur, "reverted")]
    <3>1. Journals!Set(b, k, "reverted") /\ UNCHANGED [c \in Batches |-> disk[c].ran]
      BY <2>0, <2>1, <2>3, WriteIsSet DEF Status
    <3>2. Journals!Revert(b, k)
      BY <1>t, <2>0, <2>1, <3>1 DEF Journals!Revert
    <3>3. Journals!Next
      BY <3>2 DEF Journals!Next
    <3> QED BY <3>3
  <2> QED BY <1>0, <2>1, <2>2, <2>3
<1>7. ASSUME ~ \E cleanup, hash \in BOOLEAN : StartApply(cleanup, hash),
             ~(AddPending \/ MarkVerified \/ HandleFailure \/ RecordCleanup \/ MarkReverted)
      PROVE  Still
  BY <1>7 DEF Next, Run, StartUndo, Rename, BeginCopy, EndCopy, TransferFails, VerifyCopy,
     CleanupGate, CheckGuards, UnlinkSource, PruneParents, Crash, RevertTarget, EndUndo, vars
<1> QED BY <1>0, <1>1, <1>2, <1>3, <1>4, <1>5, <1>6, <1>7 DEF Journals!Next

\* The journals on disk implement Ledger: what undo reads back in any later
\* process is a history the abstract journal allows.
THEOREM Implements == Spec => KeepsLedger
<1>1. Init => Journals!Init
  BY DEF Init, Journals!Init, NewJournal
<1>2. IInv /\ [Next]_vars => [Journals!Next]_Journals!ledger
  BY LedgerStep
<1> QED BY <1>1, <1>2, Invariance, PTL DEF Spec, KeepsLedger, Journals!Spec

-----------------------------------------------------------------------------
(* Undo restores                                                           *)

\* A path that changed is the target of an entry that is still to be reverted,
\* and the entry about to be marked has no target any more.
Answerable ==
  /\ \A p \in Path : fs[p] # fs0[p] =>
       \E b \in 1 .. batch, k \in Keys :
         p = Dst[k] /\ disk[b].st[k] \notin {"none", "reverted"}
  /\ pc = "undoMark" => fs[Dst[cur]] = Absent

\* An entry of a journal on disk stays to be reverted until an undo marks it.
LEMMA EntriesStay ==
  ASSUME IInv, [Next]_vars, NEW b \in 1 .. batch, NEW k \in Keys,
         disk[b].st[k] \notin {"none", "reverted"}
  PROVE  /\ b \in 1 .. batch'
         /\ disk'[b].st[k] \in {"none", "reverted"} =>
              pc = "undoMark" /\ b = jb /\ k = cur
<1>t. TypeOK /\ b \in Batches /\ batch \in Nat /\ cur \in Keys
  <2>1. TypeOK
    BY DEF IInv, TypeInv
  <2>2. batch \in 0 .. MaxBatches /\ cur \in Keys
    BY <2>1 DEF TypeOK
  <2> QED BY <2>1, <2>2, PlanAssumption DEF Batches
<1>1. b \in 1 .. batch' /\ disk'[b].st[k] # "none"
  BY JournalsGrow
<1> SUFFICES ASSUME disk'[b].st[k] = "reverted"
             PROVE  pc = "undoMark" /\ b = jb /\ k = cur
  BY <1>1
<1>2. ASSUME NEW cleanup \in BOOLEAN, NEW hash \in BOOLEAN, StartApply(cleanup, hash)
      PROVE  FALSE
  BY <1>t, <1>2 DEF StartApply, TypeOK
<1>3. ASSUME NEW status, NEW ok, NEW raised, pc \in {"add", "mark", "fail", "undoMark"},
             status = "reverted" => pc = "undoMark",
             Persist(Marked(mem, cur, status), ok, raised)
      PROVE  pc = "undoMark" /\ b = jb /\ k = cur
  <2>1. /\ pc # "idle" /\ mem \in Journal
        /\ b = jb /\ k # cur => mem.st[k] # "reverted"
    BY <1>3 DEF IInv, TypeInv, TypeOK, Synced, Working
  <2>2. disk'[b] # disk[b]
    OBVIOUS
  <2>3. b = jb /\ disk'[jb] = Marked(mem, cur, status)
    BY <1>t, <1>3, <2>1, <2>2, PersistEffect
  <2>4. k # cur => Marked(mem, cur, status).st[k] = mem.st[k]
    BY <1>t, <2>1, MarkedSt
  <2>5. Marked(mem, cur, status).st[cur] = status
    BY <1>t, <2>1, MarkedSt
  <2> QED BY <1>3, <2>1, <2>3, <2>4, <2>5
<1>4. ASSUME AddPending \/ MarkVerified \/ HandleFailure \/ MarkReverted
      PROVE  pc = "undoMark" /\ b = jb /\ k = cur
  <2>1. \E status : /\ status = "reverted" => pc = "undoMark"
                    /\ \E ok, raised : Persist(Marked(mem, cur, status), ok, raised)
    BY <1>4 DEF AddPending, MarkVerified, HandleFailure, MarkReverted
  <2>2. pc \in {"add", "mark", "fail", "undoMark"}
    BY <1>4 DEF AddPending, MarkVerified, HandleFailure, MarkReverted
  <2> QED BY <1>3, <2>1, <2>2
<1>5. ASSUME RecordCleanup
      PROVE  FALSE
  <2>1. pc = "record" /\ disk[jb] = mem /\ mem \in Journal
    BY <1>5 DEF RecordCleanup, IInv, TypeInv, TypeOK, Synced, Working
  <2>2. b # jb \/ disk' = disk => disk'[b] = disk[b]
    BY <1>t, <1>5, <2>1, PersistEffect DEF RecordCleanup
  <2>3. b # jb \/ disk' = disk \/ disk'[jb] = [mem EXCEPT !.ran = TRUE]
    BY <1>t, <1>5, <2>1, PersistEffect DEF RecordCleanup
  <2>4. [mem EXCEPT !.ran = TRUE].st = mem.st
    BY <2>1 DEF Journal
  <2> QED BY <2>1, <2>2, <2>3, <2>4
<1>6. disk' # disk
  OBVIOUS
<1> QED BY <1>2, <1>4, <1>5, <1>6 DEF Next, Run, StartUndo, Rename, BeginCopy, EndCopy,
           TransferFails, VerifyCopy, CleanupGate, CheckGuards, UnlinkSource, PruneParents,
           Crash, RevertTarget, EndUndo, vars

\* Without cleanup a path changes only under an entry to be reverted, or back
\* to what it was.
LEMMA ChangedUnderEntry ==
  ASSUME IInv, Uncleaned, [Next]_vars, NEW p \in Path, fs'[p] # fs[p]
  PROVE  \/ fs'[p] = Absent /\ \E k \in Keys : p = Dst[k]
         \/ \E b \in 1 .. batch, k \in Keys :
              p = Dst[k] /\ disk[b].st[k] \notin {"none", "reverted"} /\ pc # "undoMark"
<1>t. TypeOK /\ (pc # "idle" => jb \in 1 .. batch /\ jb \in Batches)
  <2>1. TypeOK
    BY DEF IInv, TypeInv
  <2>2. jb \in 0 .. batch /\ (pc # "idle" => jb \in Batches)
    BY <2>1 DEF TypeOK
  <2> QED BY <2>1, <2>2 DEF Batches
<1>1. CASE BeginCopy \/ EndCopy
  <2>1. cur \in Keys /\ disk[jb] = mem /\ mem.st[cur] = "pending" /\ pc \in {"transfer", "copying"}
    BY <1>1, <1>t DEF BeginCopy, EndCopy, IInv, Frontier, TypeOK, Synced, Working
  <2>2. fs \in [Path -> Blob \cup {Absent}]
    BY <1>t DEF TypeOK
  <2>3. p = Dst[cur]
    BY <1>1, <2>2 DEF BeginCopy, EndCopy
  <2> QED BY <1>t, <2>1, <2>3
<1>2. CASE RevertTarget
  BY <1>2, <1>t DEF RevertTarget, Verified, TypeOK
<1>3. ~Rename /\ ~UnlinkSource
  BY <1>t DEF Uncleaned, Rename, MayRename, UnlinkSource, IInv, Licensed
<1>4. CASE ~(BeginCopy \/ EndCopy \/ RevertTarget)
  <2>1. fs' = fs
    BY <1>3, <1>4 DEF Next, Run, StartApply, StartUndo, AddPending, TransferFails, VerifyCopy,
       MarkVerified, HandleFailure, CleanupGate, CheckGuards, PruneParents, RecordCleanup,
       Crash, MarkReverted, EndUndo, vars
  <2> QED BY <2>1
<1> QED BY <1>1, <1>2, <1>4

\* Whatever failed, crashed or was repeated, without cleanup and in a library
\* that held none of the plan's targets, a path that is not what it was before
\* the first batch is the target of an entry that no undo has reverted: one
\* still to be reverted, or one left failed or pending.
THEOREM UndoIsWhole == Spec => []UndoRestores
<1> DEFINE UInv == Uncleaned /\ NothingPreExisted => Answerable
<1>1. Init => UInv
  BY DEF Init, Answerable
<1>2. IInv /\ UInv /\ [Next]_vars => UInv'
  <2> SUFFICES ASSUME IInv, UInv, [Next]_vars, Uncleaned', NothingPreExisted'
               PROVE  Answerable'
    OBVIOUS
  <2>1. fs0' = fs0
    BY DEF Next, Run, StartApply, StartUndo, AddPending, Rename, BeginCopy, EndCopy,
       TransferFails, VerifyCopy, MarkVerified, HandleFailure, CleanupGate, CheckGuards,
       UnlinkSource, PruneParents, RecordCleanup, Crash, RevertTarget, MarkReverted, EndUndo,
       vars, fixed
  <2>2. Uncleaned /\ NothingPreExisted /\ Answerable
    BY <2>1, AskedBefore DEF Uncleaned, NothingPreExisted
  <2>t. TypeOK
    BY DEF IInv, TypeInv
  <2>3. ASSUME NEW p \in Path, fs'[p] # fs0'[p]
        PROVE  \E b \in 1 .. batch', k \in Keys :
                 p = Dst[k] /\ disk'[b].st[k] \notin {"none", "reverted"}
    <3>1. PICK b \in 1 .. batch, k \in Keys :
            /\ p = Dst[k] /\ disk[b].st[k] \notin {"none", "reverted"}
            /\ ~(pc = "undoMark" /\ k = cur)
      <4>1. CASE fs'[p] # fs[p]
        BY <2>1, <2>2, <2>3, <4>1, ChangedUnderEntry DEF NothingPreExisted
      <4>2. CASE fs'[p] = fs[p]
        BY <2>1, <2>2, <2>3, <4>2 DEF Answerable, NothingPreExisted
      <4> QED BY <4>1, <4>2
    <3> QED BY <3>1, EntriesStay
  <2>4. ASSUME pc' = "undoMark"
        PROVE  fs'[Dst[cur']] = Absent
    <3>1. CASE RevertTarget
      BY <3>1, <2>t, <2>4, PlanAssumption DEF RevertTarget, Verified, TypeOK
    <3>2. CASE UNCHANGED vars
      BY <3>2, <2>2, <2>4 DEF Answerable, vars
    <3>3. CASE ~RevertTarget /\ ~UNCHANGED vars
      BY <2>4, <3>3 DEF Next, Run, StartApply, StartUndo, AddPending, Rename, BeginCopy, EndCopy,
         TransferFails, VerifyCopy, MarkVerified, HandleFailure, CleanupGate, CheckGuards,
         UnlinkSource, PruneParents, RecordCleanup, Crash, MarkReverted, EndUndo, Persist, AfterOp
    <3> QED BY <3>1, <3>2, <3>3
  <2> QED BY <2>3, <2>4 DEF Answerable
<1>3. IInv /\ UInv => UndoRestores
  <2> SUFFICES ASSUME IInv, UInv, NothingPreExisted, NoCleanup
               PROVE  \A p \in Path : fs[p] # fs0[p] =>
                        \E b \in 1 .. batch, k \in Keys :
                          p = Dst[k] /\ disk[b].st[k] \notin {"none", "reverted"}
    BY DEF UndoRestores
  <2>1. Uncleaned
    <3>1. batch \in Nat /\ Batches \subseteq Nat \ {0} /\ <<1, 0>> \in Keys
      BY PlanAssumption, KeyOf DEF IInv, TypeInv, TypeOK, Batches
    <3>2. \A b \in Batches : b > batch \/ b \in 1 .. batch
      BY <3>1
    <3> QED BY <3>1, <3>2 DEF IInv, Unasked, Uncleaned, NoCleanup
  <2> QED BY <2>1 DEF Answerable
<1> QED BY <1>1, <1>2, <1>3, Invariance, PTL DEF Spec

-----------------------------------------------------------------------------
(* The report is true                                                      *)

\* Op i and its sidecars are verified in journal j; such ops among the first n.
InFull(j, i) == \A p \in 0 .. NumSidecars[i] : j.st[<<i, p>>] = "verified"
FullOps(j, n) == { i \in 1 .. n : InFull(j, i) }

\* How many ops the apply has dealt with.
Behind == IF pc \in OpLoop THEN cur[1] - 1 ELSE NumOps

\* Every op behind was attempted and counted by its outcome; of the current op
\* the files before the current one are verified.
Tally ==
  pc \in OpLoop \cup PostOps =>
    /\ succeeded = Cardinality(FullOps(mem, Behind))
    /\ \A i \in 1 .. Behind : mem.st[<<i, 0>>] # "none"
    /\ \A k \in Keys : mem.st[k] # "reverted"
    /\ pc \in OpLoop => \A p \in 0 .. (cur[2] - 1) : mem.st[<<cur[1], p>>] = "verified"
    /\ pc \in PostOps => \A k \in Keys : mem.st[k] # "pending"

\* Marking a key leaves the count of the ops before it, and adds its op to it
\* only if that op is now verified in full.
LEMMA Counted ==
  ASSUME NEW j \in Journal, NEW k \in Keys, NEW status
  PROVE  /\ FullOps(Marked(j, k, status), k[1] - 1) = FullOps(j, k[1] - 1)
         /\ Cardinality(FullOps(Marked(j, k, status), k[1]))
              = Cardinality(FullOps(j, k[1] - 1))
                  + IF InFull(Marked(j, k, status), k[1]) THEN 1 ELSE 0
         /\ Cardinality(FullOps(j, k[1] - 1)) \in Nat
<1> DEFINE m == Marked(j, k, status)
           i == k[1]
<1>k. i \in 1 .. NumOps /\ i \in Nat /\ k = <<k[1], k[2]>>
  BY KeyParts, PlanAssumption
<1>1. \A h \in 1 .. (i - 1) : \A p \in 0 .. NumSidecars[h] : m.st[<<h, p>>] = j.st[<<h, p>>]
  <2> SUFFICES ASSUME NEW h \in 1 .. (i - 1), NEW p \in 0 .. NumSidecars[h]
               PROVE  m.st[<<h, p>>] = j.st[<<h, p>>]
    OBVIOUS
  <2>1. <<h, p>> \in Keys /\ <<h, p>> # k
    BY <1>k, PlanAssumption, KeyOf
  <2> QED BY <2>1, MarkedSt
<1>2. FullOps(m, i - 1) = FullOps(j, i - 1)
  BY <1>1 DEF FullOps, InFull
<1>3. FullOps(m, i) = IF InFull(m, i) THEN FullOps(m, i - 1) \cup {i} ELSE FullOps(m, i - 1)
  BY <1>k DEF FullOps
<1>4. IsFiniteSet(FullOps(j, i - 1)) /\ i \notin FullOps(j, i - 1)
  <2>1. IsFiniteSet(1 .. (i - 1))
    <3>1. 1 \in Int /\ i - 1 \in Int
      BY <1>k
    <3> QED BY <3>1, FS_Interval
  <2>2. FullOps(j, i - 1) \subseteq 1 .. (i - 1)
    BY DEF FullOps
  <2> QED BY <1>k, <2>1, <2>2, FS_Subset
<1>5. Cardinality(FullOps(j, i - 1) \cup {i}) = Cardinality(FullOps(j, i - 1)) + 1
  BY <1>4, FS_AddElement
<1>6. Cardinality(FullOps(j, i - 1)) \in Nat
  BY <1>4, FS_CardinalityType
<1> HIDE DEF m
<1>7. Cardinality(FullOps(m, i))
        = Cardinality(FullOps(j, i - 1)) + IF InFull(m, i) THEN 1 ELSE 0
  <2>1. CASE InFull(m, i)
    <3>1. FullOps(m, i) = FullOps(j, i - 1) \cup {i}
      BY <1>2, <1>3, <2>1
    <3> QED BY <1>5, <2>1, <3>1
  <2>2. CASE ~InFull(m, i)
    <3>1. FullOps(m, i) = FullOps(j, i - 1)
      BY <1>2, <1>3, <2>2
    <3> QED BY <1>6, <2>2, <3>1
  <2> QED BY <2>1, <2>2
<1> QED BY <1>2, <1>6, <1>7 DEF m

\* Every step of the executor keeps the tally.
LEMMA TallyStep ==
  ASSUME IInv, Tally, [Next]_vars
  PROVE  Tally'
<1>t. TypeOK /\ TypeOK'
  BY TypeStep DEF IInv, TypeInv
<1>m. /\ mem \in Journal /\ cur \in Keys /\ cur[1] \in 1 .. NumOps /\ cur[1] \in Nat
      /\ cur[2] \in 0 .. NumSidecars[cur[1]] /\ cur[2] \in Nat /\ NumOps \in Nat
  BY <1>t, KeyParts, PlanAssumption DEF TypeOK
<1>1. ASSUME NEW cleanup \in BOOLEAN, NEW hash \in BOOLEAN, StartApply(cleanup, hash)
      PROVE  Tally'
  <2>1. /\ pc' = "add" /\ cur' = <<1, 0>> /\ succeeded' = 0
        /\ \A k \in Keys : mem'.st[k] = "none"
    BY <1>1 DEF StartApply, NewJournal
  <2>2. Behind' = 0
    BY <2>1 DEF Behind, OpLoop
  <2>3. FullOps(mem', 0) = {}
    BY DEF FullOps
  <2> QED BY <2>1, <2>2, <2>3, FS_EmptySet DEF Tally, OpLoop, PostOps
<1>2. ASSUME pc \in OpLoop, pc' \in OpLoop, cur' = cur, succeeded' = succeeded,
             \/ mem' = mem
             \/ \E status \in {"pending", "verified"} : mem' = Marked(mem, cur, status)
      PROVE  Tally'
  <2>1. Behind = cur[1] - 1 /\ Behind' = cur[1] - 1
    BY <1>2 DEF Behind
  <2>2. FullOps(mem', cur[1] - 1) = FullOps(mem, cur[1] - 1)
    BY <1>2, <1>m, Counted
  <2>3. \A k \in Keys : /\ k # cur => mem'.st[k] = mem.st[k]
                        /\ mem'.st[k] = "reverted" => mem.st[k] = "reverted"
    BY <1>2, <1>m, MarkedSt
  <2>4. \A i \in 1 .. (cur[1] - 1) : <<i, 0>> \in Keys /\ <<i, 0>> # cur
    BY <1>m, PlanAssumption, KeyOf
  <2>5. \A p \in 0 .. (cur[2] - 1) : <<cur[1], p>> \in Keys /\ <<cur[1], p>> # cur
    BY <1>m, PlanAssumption, KeyOf
  <2>6. pc' \notin PostOps
    BY <1>2 DEF OpLoop, PostOps
  <2> QED BY <1>2, <2>1, <2>2, <2>3, <2>4, <2>5, <2>6 DEF Tally
<1>3. CASE AddPending \/ Rename \/ BeginCopy \/ EndCopy \/ TransferFails \/ VerifyCopy
  <2>1. /\ pc \in OpLoop /\ pc' \in OpLoop /\ cur' = cur /\ succeeded' = succeeded
        /\ mem' = mem \/ mem' = Marked(mem, cur, "pending")
    BY <1>3 DEF AddPending, Rename, BeginCopy, EndCopy, TransferFails, VerifyCopy, Persist,
       OpLoop, counts
  <2> QED BY <1>2, <2>1
<1>4. ASSUME NEW status \in {"verified", "failed"}, mem' = Marked(mem, cur, status),
             pc \in OpLoop, pc' = AfterOp(cur[1]), cur' = NextOp(cur[1]),
             succeeded' = succeeded + (IF InFull(mem', cur[1]) THEN 1 ELSE 0)
      PROVE  Tally'
  <2>1. Behind = cur[1] - 1 /\ Behind' = cur[1]
    BY <1>4, <1>m DEF Behind, AfterOp, NextOp, OpLoop
  <2>2. succeeded' = Cardinality(FullOps(mem', cur[1]))
    BY <1>4, <1>m, <2>1, Counted DEF Tally
  <2>3. /\ mem'.st[cur] = status
        /\ \A k \in Keys : k # cur => mem'.st[k] = mem.st[k]
    BY <1>4, <1>m, MarkedSt
  <2>4. \A i \in 1 .. cur[1] : mem'.st[<<i, 0>>] # "none"
    <3> SUFFICES ASSUME NEW i \in 1 .. cur[1] PROVE mem'.st[<<i, 0>>] # "none"
      OBVIOUS
    <3>1. <<i, 0>> \in Keys
      BY <1>m, PlanAssumption, KeyOf
    <3>2. CASE i < cur[1]
      BY <1>4, <1>m, <2>1, <2>3, <3>1, <3>2 DEF Tally
    <3>3. CASE i = cur[1] /\ cur[2] = 0
      <4>1. <<i, 0>> = cur
        BY <1>m, <3>3, KeyParts
      <4> QED BY <2>3, <4>1
    <3>4. CASE i = cur[1] /\ cur[2] # 0
      <4>1. mem.st[<<i, 0>>] = "verified" /\ <<i, 0>> # cur
        BY <1>4, <1>m, <3>4 DEF Tally
      <4> QED BY <2>3, <3>1, <4>1
    <3> QED BY <1>m, <3>2, <3>3, <3>4
  <2>5. \A k \in Keys : mem'.st[k] # "reverted" /\ mem'.st[k] # "pending"
    BY <1>4, <2>3 DEF Tally, IInv, Frontier
  <2>6. pc' \in OpLoop => cur'[2] = 0
    BY <1>4 DEF AfterOp, NextOp, OpLoop
  <2> QED BY <2>1, <2>2, <2>4, <2>5, <2>6 DEF Tally
<1>5. CASE MarkVerified
  <2>1. /\ pc = "mark" /\ mem' = Marked(mem, cur, "verified")
        /\ \/ pc' = "fail" /\ cur' = cur /\ succeeded' = succeeded
           \/ /\ pc' = (IF LastOfOp THEN AfterOp(cur[1]) ELSE "add")
              /\ cur' = (IF LastOfOp THEN NextOp(cur[1]) ELSE <<cur[1], cur[2] + 1>>)
              /\ succeeded' = (IF LastOfOp THEN succeeded + 1 ELSE succeeded)
    BY <1>5 DEF MarkVerified, Persist
  <2>2. /\ mem'.st[cur] = "verified"
        /\ \A k \in Keys : k # cur => mem'.st[k] = mem.st[k]
    BY <1>m, <2>1, MarkedSt
  <2>3. \A p \in 0 .. cur[2] : mem'.st[<<cur[1], p>>] = "verified"
    <3> SUFFICES ASSUME NEW p \in 0 .. cur[2] PROVE mem'.st[<<cur[1], p>>] = "verified"
      OBVIOUS
    <3>1. <<cur[1], p>> \in Keys /\ cur = <<cur[1], cur[2]>>
      BY <1>m, PlanAssumption, KeyOf, KeyParts
    <3>2. p # cur[2] => mem.st[<<cur[1], p>>] = "verified"
      BY <1>m, <2>1 DEF Tally, OpLoop
    <3> QED BY <2>2, <3>1, <3>2
  <2>4. CASE pc' = "fail"
    <3>1. cur' = cur /\ succeeded' = succeeded
      BY <2>1, <2>4 DEF AfterOp
    <3> QED BY <1>2, <2>1, <2>4, <3>1 DEF OpLoop
  <2>5. CASE pc' # "fail" /\ LastOfOp
    <3>1. InFull(mem', cur[1])
      BY <2>3, <2>5 DEF InFull, LastOfOp
    <3> QED BY <1>4, <2>1, <2>5, <3>1 DEF OpLoop
  <2>6. CASE pc' # "fail" /\ ~LastOfOp
    <3>1. pc' = "add" /\ cur' = <<cur[1], cur[2] + 1>> /\ succeeded' = succeeded
      BY <2>1, <2>6
    <3>2. Behind = cur[1] - 1 /\ Behind' = cur[1] - 1
      BY <2>1, <3>1 DEF Behind, OpLoop
    <3>3. FullOps(mem', cur[1] - 1) = FullOps(mem, cur[1] - 1)
      BY <1>m, <2>1, Counted
    <3>4. \A i \in 1 .. (cur[1] - 1) : <<i, 0>> \in Keys /\ <<i, 0>> # cur
      BY <1>m, PlanAssumption, KeyOf
    <3>5. \A k \in Keys : mem'.st[k] # "reverted"
      BY <2>1, <2>2 DEF Tally, OpLoop
    <3>6. \A p \in 0 .. (cur'[2] - 1) : mem'.st[<<cur'[1], p>>] = "verified"
      BY <1>m, <2>3, <3>1
    <3>7. /\ succeeded = Cardinality(FullOps(mem, cur[1] - 1))
          /\ \A i \in 1 .. (cur[1] - 1) : mem.st[<<i, 0>>] # "none"
      BY <2>1, <3>2 DEF Tally, OpLoop
    <3> QED BY <2>2, <3>1, <3>2, <3>3, <3>4, <3>5, <3>6, <3>7 DEF Tally, PostOps
  <2> QED BY <2>4, <2>5, <2>6
<1>6. CASE HandleFailure
  <2>1. /\ pc = "fail" /\ mem' = Marked(mem, cur, "failed") /\ succeeded' = succeeded
        /\ pc' # "aborted" => pc' = AfterOp(cur[1]) /\ cur' = NextOp(cur[1])
    BY <1>6 DEF HandleFailure, Persist
  <2>2. ~InFull(mem', cur[1])
    <3>1. cur = <<cur[1], cur[2]>> /\ mem'.st[cur] = "failed"
      BY <1>m, <2>1, MarkedSt, KeyParts
    <3> QED BY <1>m, <3>1 DEF InFull
  <2>3. succeeded \in Nat
    BY <1>t, PlanAssumption DEF TypeOK
  <2> QED BY <1>4, <2>1, <2>2, <2>3 DEF Tally, OpLoop, PostOps
<1>7. CASE CleanupGate \/ CheckGuards \/ UnlinkSource \/ PruneParents \/ RecordCleanup
  <2>1. /\ pc \in PostOps /\ pc' \in PostOps \cup {"aborted"} /\ succeeded' = succeeded
        /\ mem'.st = mem.st
    BY <1>7, <1>m DEF CleanupGate, CheckGuards, UnlinkSource, PruneParents, RecordCleanup,
       Persist, PostOps, counts, Journal
  <2>2. CASE pc' = "aborted"
    BY <2>2 DEF Tally, OpLoop, PostOps
  <2>3. CASE pc' \in PostOps
    <3>1. Behind' = NumOps /\ Behind = NumOps
      BY <2>1, <2>3 DEF Behind, OpLoop, PostOps
    <3>2. FullOps(mem', NumOps) = FullOps(mem, NumOps)
      BY <2>1 DEF FullOps, InFull
    <3> QED BY <2>1, <2>3, <3>1, <3>2 DEF Tally, OpLoop, PostOps
  <2> QED BY <2>1, <2>2, <2>3
<1>8. ASSUME \/ \E b \in 1 .. batch : StartUndo(b)
             \/ Crash \/ RevertTarget \/ MarkReverted \/ EndUndo
      PROVE  Tally'
  <2>1. pc' \notin OpLoop \cup PostOps
    BY <1>8 DEF StartUndo, Crash, RevertTarget, MarkReverted, EndUndo, Persist, OpLoop, PostOps
  <2> QED BY <2>1 DEF Tally
<1>9. CASE UNCHANGED vars
  <2>1. Behind' = Behind /\ FullOps(mem', Behind') = FullOps(mem, Behind)
    BY <1>9 DEF vars, Behind, FullOps, InFull
  <2> QED BY <1>9, <2>1 DEF vars, counts, Tally
<1> QED BY <1>1, <1>3, <1>5, <1>6, <1>7, <1>8, <1>9 DEF Next, Run

\* Whatever failed, the counts an apply reports are those of its journal: every
\* op was attempted, none is left pending, and the ops counted as succeeded are
\* exactly those all of whose files verified.
THEOREM ReportHolds == Spec => []ReportIsTrue
<1>1. Init => Tally
  BY DEF Init, Tally, OpLoop, PostOps
<1>2. IInv /\ Tally /\ [Next]_vars => Tally'
  BY TallyStep
<1>3. IInv /\ Tally => ReportIsTrue
  <2> SUFFICES ASSUME IInv, Tally, pc = "done"
               PROVE  /\ disk[jb] = mem
                      /\ \A i \in 1 .. NumOps : mem.st[<<i, 0>>] # "none"
                      /\ \A k \in Keys : mem.st[k] \in {"none", "verified", "failed"}
                      /\ succeeded = Cardinality(WhollyVerified)
                      /\ succeeded + failed = NumOps
    BY DEF ReportIsTrue
  <2>1. disk[jb] = mem /\ succeeded + failed = NumOps
    BY DEF IInv, Synced, TypeInv, Counting, PostOps
  <2>2. Behind = NumOps /\ pc \in PostOps
    BY DEF Behind, OpLoop, PostOps
  <2>3. \A k \in Keys : mem.st[k] \in Status
    BY DEF IInv, TypeInv, TypeOK, Journal
  <2>4. WhollyVerified = FullOps(mem, NumOps)
    BY DEF WhollyVerified, FullOps, InFull
  <2> QED BY <2>1, <2>2, <2>3, <2>4 DEF Tally, Status
<1> QED BY <1>1, <1>2, <1>3, Invariance, PTL DEF Spec

-----------------------------------------------------------------------------
(***************************************************************************)
(* Verify-before-delete: no sequence of applies, cleanups, undos, faults   *)
(* and crashes loses the bytes of a source.                                *)
(***************************************************************************)

\* Plans whose ops do not step on each other: no target is a source, no two
\* files share a target, and a file's name in the review folder is no key.
Disjoint ==
  /\ \A k, l \in Keys : Src[k] # Dst[l]
  /\ \A k, l \in Keys : Dst[k] = Dst[l] => k = l
  /\ Names \cap Keys = {}

\* A copy of p good enough to stand for it.
Enough == {"full"} \cup IF HashAlways THEN {} ELSE {"bad"}
StandsFor(f, p) == f # Absent /\ f.of = p /\ f.is \in Enough

-----------------------------------------------------------------------------
(* The inductive invariant, in named parts                                 *)

\* Nothing is ever written over a source.
SourcesIntact == \A k \in Keys : fs[Src[k]] \in {Absent, Whole(Src[k])}

\* A batch that recorded its cleanup left no source, and what the pass has
\* unlinked so far is gone.
Gone(k) == fs[Src[k]] = Absent
SweptForGood ==
  /\ \A b \in Batches : disk[b].ran => \A k \in Keys : Gone(k)
  /\ pc = "unlink" => \A k \in Keys \ todo : Gone(k)
  /\ pc = "record" => \A k \in Keys : Gone(k)

\* A key's own slot in a review folder is filled once, by the file that then
\* left the key's target for good.
SlotsOnce ==
  \A b \in Batches, k \in Keys :
    review[b][k] # Absent => disk[b].ran /\ fs[Dst[k]] = Absent

\* A copy being made has both ends.
BothEnds == pc \in {"copying", "verify"} => fs[Src[cur]] # Absent /\ fs[Dst[cur]] # Absent

\* Control points of an apply.
Applying == (OpLoop \cup PostOps) \ {"done"}

\* In a batch that may delete, what is marked verified can stand for its source.
Vouched ==
  pc \in Applying /\ opts[jb].cleanup =>
    /\ \A k \in Keys : mem.st[k] = "verified" => StandsFor(fs[Dst[k]], Src[k])
    /\ pc = "mark" => StandsFor(fs[Dst[cur]], Src[cur])

\* Undo never runs on the batch being applied.
UndoneBefore ==
  /\ undone \subseteq 1 .. batch
  /\ pc \in Applying => jb \notin undone
  /\ pc \in {"undo", "undoMark"} => jb \in undone

LossInv == /\ SourcesIntact /\ SweptForGood /\ SlotsOnce /\ BothEnds /\ Vouched
           /\ UndoneBefore

\* A source that is gone is stood for by the target or a review slot.
RanFirst == \A b \in undone : disk[b].ran
Reviewed(p) == \E b \in Batches, s \in Names \cup Keys : StandsFor(review[b][s], p)
Somewhere ==
  \A k \in Keys : Gone(k) =>
    \E l \in Keys : Src[l] = Src[k] /\ (StandsFor(fs[Dst[l]], Src[l]) \/ Reviewed(Src[l]))

-----------------------------------------------------------------------------
(* What a step does to paths and journals                                  *)

LEMMA Typed == IInv => TypeOK
BY DEF IInv, TypeInv

\* A source only ever disappears, by a rename or the cleanup pass; a target
\* changes while its source is there, or is taken away by undo.
LEMMA PathStep ==
  ASSUME Disjoint, IInv, [Next]_vars, NEW k \in Keys
  PROVE  /\ fs'[Src[k]] # fs[Src[k]] =>
              fs'[Src[k]] = Absent /\ (Rename \/ UnlinkSource)
         /\ fs'[Dst[k]] # fs[Dst[k]] =>
              \/ (Rename \/ BeginCopy \/ EndCopy) /\ k = cur /\ fs[Src[k]] # Absent
              \/ RevertTarget /\ fs'[Dst[k]] = Absent
<1>t. /\ TypeOK /\ cur \in Keys /\ fs \in [Path -> Blob \cup {Absent}]
      /\ Src \in [Keys -> Path] /\ Dst \in [Keys -> Path]
  BY Typed, PlanAssumption DEF TypeOK
<1>d. Src[k] # Dst[k] /\ \A l \in Keys : Src[k] # Dst[l] /\ Src[l] # Dst[k] /\ (Dst[k] = Dst[l] => k = l)
  BY DEF Disjoint
<1>1. CASE Rename
  BY <1>1, <1>t, <1>d DEF Rename, RenameRefused
<1>2. CASE BeginCopy
  BY <1>2, <1>t, <1>d DEF BeginCopy, CopyRefused
<1>3. CASE EndCopy
  <2>1. \E f : fs' = [fs EXCEPT ![Dst[cur]] = f]
    BY <1>3 DEF EndCopy
  <2>2. fs[Src[cur]] # Absent
    BY <1>3 DEF EndCopy, IInv, TypeInv, Held
  <2> QED BY <1>3, <1>t, <1>d, <2>1, <2>2
<1>4. CASE UnlinkSource
  <2>1. fs' = fs \/ \E l \in Keys : fs' = [fs EXCEPT ![Src[l]] = Absent]
    BY <1>4, <1>t DEF UnlinkSource, TypeOK
  <2> QED BY <1>4, <1>t, <1>d, <2>1
<1>5. CASE RevertTarget
  <2>1. fs' = fs \/ \E l \in Keys : fs' = [fs EXCEPT ![Dst[l]] = Absent]
    BY <1>5 DEF RevertTarget, Verified
  <2> QED BY <1>5, <1>t, <1>d, <2>1
<1>6. CASE ~(Rename \/ BeginCopy \/ EndCopy \/ UnlinkSource \/ RevertTarget)
  <2>1. fs' = fs
    BY <1>6 DEF Next, Run, StartApply, StartUndo, AddPending, TransferFails, VerifyCopy,
       MarkVerified, HandleFailure, CleanupGate, CheckGuards, PruneParents, RecordCleanup,
       Crash, MarkReverted, EndUndo, vars
  <2> QED BY <2>1
<1> QED BY <1>1, <1>2, <1>3, <1>4, <1>5, <1>6

\* cleanup_ran is written by RecordCleanup only, and never unwritten.
LEMMA RanStep ==
  ASSUME IInv, [Next]_vars, NEW b \in Batches
  PROVE  /\ disk'[b].ran => disk[b].ran \/ (RecordCleanup /\ b = jb)
         /\ disk[b].ran => disk'[b].ran
<1>t. TypeOK /\ disk \in [Batches -> Journal] /\ mem \in Journal /\ cur \in Keys
  BY Typed DEF TypeOK
<1>1. ASSUME NEW cleanup \in BOOLEAN, NEW hash \in BOOLEAN, StartApply(cleanup, hash)
      PROVE  disk' = disk
  <2>1. batch + 1 \in Batches /\ batch + 1 > batch
    BY <1>1, <1>t, PlanAssumption DEF StartApply, TypeOK, Batches
  <2>2. disk[batch + 1] = NewJournal
    BY <2>1 DEF IInv, Unopened
  <2> QED BY <1>1, <1>t, <2>2 DEF StartApply
<1>2. ASSUME AddPending \/ MarkVerified \/ HandleFailure \/ MarkReverted
      PROVE  disk'[b].ran = disk[b].ran
  <2>1. PICK status : \E ok, raised : Persist(Marked(mem, cur, status), ok, raised)
    BY <1>2 DEF AddPending, MarkVerified, HandleFailure, MarkReverted
  <2>2. pc \in {"add", "mark", "fail", "undoMark"}
    BY <1>2 DEF AddPending, MarkVerified, HandleFailure, MarkReverted
  <2>3. disk[jb].ran = mem.ran
    BY <2>2 DEF IInv, Synced, Working
  <2>4. Marked(mem, cur, status).ran = mem.ran
    BY <1>t, MarkedSt
  <2>5. disk' = disk \/ disk' = [disk EXCEPT ![jb] = Marked(mem, cur, status)]
    BY <2>1 DEF Persist
  <2> QED BY <1>t, <2>3, <2>4, <2>5
<1>3. CASE RecordCleanup
  <2>1. disk' = disk \/ disk' = [disk EXCEPT ![jb] = [mem EXCEPT !.ran = TRUE]]
    BY <1>3 DEF RecordCleanup, Persist
  <2>2. [mem EXCEPT !.ran = TRUE].ran = TRUE
    BY <1>t DEF Journal
  <2> QED BY <1>t, <1>3, <2>1, <2>2
<1>4. ASSUME ~ \E cleanup, hash \in BOOLEAN : StartApply(cleanup, hash),
             ~(AddPending \/ MarkVerified \/ HandleFailure \/ MarkReverted \/ RecordCleanup)
      PROVE  disk' = disk
  BY <1>4 DEF Next, Run, StartUndo, Rename, BeginCopy, EndCopy, TransferFails, VerifyCopy,
     CleanupGate, CheckGuards, UnlinkSource, PruneParents, Crash, RevertTarget, EndUndo, vars
<1> QED BY <1>1, <1>2, <1>3, <1>4

-----------------------------------------------------------------------------
(* Preservation, part by part                                              *)

LEMMA SourcesStep ==
  ASSUME Disjoint, IInv, LossInv, [Next]_vars
  PROVE  SourcesIntact'
BY PathStep DEF LossInv, SourcesIntact

LEMMA SweptStep ==
  ASSUME Disjoint, IInv, LossInv, [Next]_vars
  PROVE  SweptForGood'
<1>g. \A k \in Keys : Gone(k) => Gone(k)'
  BY PathStep DEF Gone
<1>1. \A b \in Batches : disk'[b].ran => \A k \in Keys : Gone(k)'
  <2> SUFFICES ASSUME NEW b \in Batches, disk'[b].ran PROVE \A k \in Keys : Gone(k)'
    OBVIOUS
  <2>1. CASE disk[b].ran
    BY <1>g, <2>1 DEF LossInv, SweptForGood
  <2>2. CASE RecordCleanup
    BY <1>g, <2>2 DEF LossInv, SweptForGood, RecordCleanup
  <2> QED BY <2>1, <2>2, RanStep
<1>2. ASSUME pc' = "unlink" PROVE \A k \in Keys \ todo' : Gone(k)'
  <2>1. CASE CheckGuards
    BY <1>2, <2>1 DEF CheckGuards, IInv, Licensed
  <2>2. CASE UnlinkSource
    <3>1. PICK k \in todo : todo' = todo \ {k} /\ fs' = [fs EXCEPT ![Src[k]] = Absent]
      BY <1>2, <2>2 DEF UnlinkSource
    <3>2. k \in Keys /\ Gone(k)'
      BY <3>1, Typed, PlanAssumption DEF TypeOK, Gone
    <3> QED BY <1>g, <2>2, <3>1, <3>2 DEF LossInv, SweptForGood, UnlinkSource
  <2>3. CASE UNCHANGED vars
    BY <1>g, <1>2, <2>3 DEF LossInv, SweptForGood, vars
  <2> QED BY <1>2, <2>1, <2>2, <2>3 DEF Next, Run, StartApply, StartUndo, AddPending, Rename,
       BeginCopy, EndCopy, TransferFails, VerifyCopy, MarkVerified, HandleFailure, CleanupGate,
       PruneParents, RecordCleanup, Crash, RevertTarget, MarkReverted, EndUndo, Persist, AfterOp
<1>3. ASSUME pc' = "record" PROVE \A k \in Keys : Gone(k)'
  <2>1. CASE PruneParents
    BY <1>g, <2>1 DEF LossInv, SweptForGood, PruneParents
  <2>2. CASE UNCHANGED vars
    BY <1>g, <1>3, <2>2 DEF LossInv, SweptForGood, vars
  <2> QED BY <1>3, <2>1, <2>2 DEF Next, Run, StartApply, StartUndo, AddPending, Rename,
       BeginCopy, EndCopy, TransferFails, VerifyCopy, MarkVerified, HandleFailure, CleanupGate,
       CheckGuards, UnlinkSource, RecordCleanup, Crash, RevertTarget, MarkReverted, EndUndo,
       Persist, AfterOp
<1> QED BY <1>1, <1>2, <1>3 DEF SweptForGood

\* Where a target goes in the review folder.
LEMMA SlotStep ==
  ASSUME Disjoint, IInv, [Next]_vars, review' # review
  PROVE  \E k \in Keys :
           /\ RevertTarget /\ mem.ran /\ fs[Dst[k]] # Absent
           /\ fs' = [fs EXCEPT ![Dst[k]] = Absent]
           /\ review' = [review EXCEPT ![jb] = [@ EXCEPT ![ReviewSlot(k)] = fs[Dst[k]]]]
           /\ jb \in Batches /\ ReviewSlot(k) \in Names \cup Keys
           /\ ReviewSlot(k) \in Keys => ReviewSlot(k) = k
           /\ ReviewSlot(k) \notin Keys => review[jb][ReviewSlot(k)] = Absent
<1>1. CASE RevertTarget
  <2>1. PICK k \in Keys :
          /\ fs' = [fs EXCEPT ![Dst[k]] = Absent]
          /\ mem.ran /\ fs[Dst[k]] # Absent
          /\ review' = [review EXCEPT ![jb][ReviewSlot(k)] = fs[Dst[k]]]
    BY <1>1 DEF RevertTarget, Verified
  <2>2. Dst[k] \in Path /\ jb \in Batches
    BY <1>1, Typed, PlanAssumption DEF TypeOK, RevertTarget
  <2>3. Name[Dst[k]] \in Names /\ Name[Dst[k]] \notin Keys
    BY <2>2 DEF Disjoint, Names
  <2>4. [review EXCEPT ![jb][ReviewSlot(k)] = fs[Dst[k]]]
          = [review EXCEPT ![jb] = [@ EXCEPT ![ReviewSlot(k)] = fs[Dst[k]]]]
    OBVIOUS
  <2> QED BY <1>1, <2>1, <2>2, <2>3, <2>4 DEF ReviewSlot
<1>2. CASE ~RevertTarget
  <2>1. review' = review
    BY <1>2 DEF Next, Run, StartApply, StartUndo, AddPending, Rename, BeginCopy, EndCopy,
       TransferFails, VerifyCopy, MarkVerified, HandleFailure, CleanupGate, CheckGuards,
       UnlinkSource, PruneParents, RecordCleanup, Crash, MarkReverted, EndUndo, vars
  <2> QED BY <2>1
<1> QED BY <1>1, <1>2

LEMMA SlotsStep ==
  ASSUME Disjoint, IInv, LossInv, [Next]_vars
  PROVE  SlotsOnce'
<1> SUFFICES ASSUME NEW b \in Batches, NEW k \in Keys, review'[b][k] # Absent
             PROVE  disk'[b].ran /\ fs'[Dst[k]] = Absent
  BY DEF SlotsOnce
<1>1. CASE review[b][k] # Absent
  <2>1. disk[b].ran /\ fs[Dst[k]] = Absent
    BY <1>1 DEF LossInv, SlotsOnce
  <2>2. fs[Src[k]] = Absent
    BY <2>1 DEF LossInv, SweptForGood, Gone
  <2> QED BY <2>1, <2>2, PathStep, RanStep
<1>2. CASE review[b][k] = Absent
  <2>1. PICK l \in Keys :
          /\ RevertTarget /\ mem.ran
          /\ fs' = [fs EXCEPT ![Dst[l]] = Absent]
          /\ review' = [review EXCEPT ![jb] = [@ EXCEPT ![ReviewSlot(l)] = fs[Dst[l]]]]
          /\ jb \in Batches
          /\ ReviewSlot(l) \in Keys => ReviewSlot(l) = l
    BY <1>2, SlotStep
  <2>2. review \in [Batches -> [Names \cup Keys -> Blob \cup {Absent}]]
    BY Typed DEF TypeOK
  <2>3. b = jb /\ k = ReviewSlot(l)
    BY <1>2, <2>1, <2>2
  <2>4. disk[jb] = mem /\ disk' = disk
    BY <2>1 DEF RevertTarget, IInv, Synced, Working
  <2>5. fs'[Dst[k]] = Absent
    BY <2>1, <2>3, Typed, PlanAssumption DEF TypeOK
  <2> QED BY <2>1, <2>3, <2>4, <2>5
<1> QED BY <1>1, <1>2

LEMMA EndsStep ==
  ASSUME Disjoint, IInv, LossInv, [Next]_vars
  PROVE  BothEnds'
<1>t. TypeOK /\ cur \in Keys /\ fs \in [Path -> Blob \cup {Absent}] /\ Src[cur] \in Path /\ Dst[cur] \in Path
  BY Typed, PlanAssumption DEF TypeOK
<1>d. Src[cur] # Dst[cur]
  BY <1>t DEF Disjoint
<1>1. CASE BeginCopy
  <2>1. fs[Src[cur]] \in Blob
    BY <1>1, <1>t DEF BeginCopy, CopyRefused
  <2>2. [of |-> fs[Src[cur]].of, is |-> "short"] \in Blob
    BY <2>1 DEF Blob
  <2> QED BY <1>1, <1>t, <1>d, <2>1, <2>2, AbsentAssumption DEF BeginCopy, BothEnds
<1>2. CASE EndCopy
  <2>1. fs[Src[cur]] \in Blob /\ fs[Dst[cur]] \in Blob
    BY <1>2, <1>t DEF EndCopy, LossInv, BothEnds
  <2>2. \A harm \in {"short", "bad"} : [fs[Dst[cur]] EXCEPT !.is = harm] \in Blob
    BY <2>1 DEF Blob
  <2>3. \E f \in Blob : fs' = [fs EXCEPT ![Dst[cur]] = f]
    BY <1>2, <2>1, <2>2 DEF EndCopy
  <2> QED BY <1>2, <1>t, <1>d, <2>1, <2>3, AbsentAssumption DEF EndCopy, BothEnds
<1>3. CASE UNCHANGED vars
  BY <1>3 DEF vars, LossInv, BothEnds
<1>4. CASE ~(BeginCopy \/ EndCopy) /\ ~UNCHANGED vars
  <2>1. pc' \notin {"copying", "verify"}
    BY <1>4 DEF Next, Run, StartApply, StartUndo, AddPending, Rename, TransferFails, VerifyCopy,
       MarkVerified, HandleFailure, CleanupGate, CheckGuards, UnlinkSource, PruneParents,
       RecordCleanup, Crash, RevertTarget, MarkReverted, EndUndo, Persist, AfterOp
  <2> QED BY <2>1 DEF BothEnds
<1> QED BY <1>1, <1>2, <1>3, <1>4

LEMMA UndoneStep ==
  ASSUME IInv, LossInv, [Next]_vars
  PROVE  UndoneBefore'
<1>t. batch \in Nat /\ jb \in 0 .. batch /\ undone \subseteq 1 .. batch
  <2>1. batch \in 0 .. MaxBatches /\ jb \in 0 .. batch
    BY Typed DEF TypeOK
  <2> QED BY <2>1, PlanAssumption DEF LossInv, UndoneBefore
<1>1. ASSUME NEW cleanup \in BOOLEAN, NEW hash \in BOOLEAN, StartApply(cleanup, hash)
      PROVE  UndoneBefore'
  BY <1>t, <1>1 DEF StartApply, UndoneBefore, history
<1>2. ASSUME NEW b \in 1 .. batch, StartUndo(b)
      PROVE  UndoneBefore'
  BY <1>t, <1>2 DEF StartUndo, UndoneBefore, Applying, OpLoop, PostOps
<1>3. CASE UNCHANGED vars
  BY <1>3 DEF vars, history, LossInv, UndoneBefore
<1>4. CASE Run \/ Crash
  <2>1. /\ UNCHANGED <<batch, jb, undone>>
        /\ pc' \in Applying => pc \in Applying
        /\ pc' \in {"undo", "undoMark"} => pc \in {"undo", "undoMark"}
    BY <1>4 DEF Run, AddPending, Rename, BeginCopy, EndCopy, TransferFails, VerifyCopy,
       MarkVerified, HandleFailure, CleanupGate, CheckGuards, UnlinkSource, PruneParents,
       RecordCleanup, Crash, RevertTarget, MarkReverted, EndUndo, Persist, AfterOp, history,
       Applying, OpLoop, PostOps
  <2> QED BY <2>1 DEF LossInv, UndoneBefore
<1> QED BY <1>1, <1>2, <1>3, <1>4 DEF Next

\* Fewer hashes asked for, weaker copies suffice.
LEMMA EnoughGrows ==
  ASSUME IInv, [Next]_vars
  PROVE  /\ Enough \subseteq Enough'
         /\ HashAlways' => HashAlways
<1>1. HashAlways' => HashAlways
  <2>1. ASSUME NEW cleanup \in BOOLEAN, NEW hash \in BOOLEAN, StartApply(cleanup, hash), HashAlways'
        PROVE  HashAlways
    <3>1. ~opts[batch + 1].cleanup
      BY <2>1, Typed, PlanAssumption DEF StartApply, IInv, Unasked, TypeOK, Batches
    <3>2. \A b \in Batches : b # batch + 1 => opts'[b] = opts[b]
      BY <2>1, Typed DEF StartApply, TypeOK
    <3> QED BY <2>1, <3>1, <3>2 DEF HashAlways
  <2>2. ASSUME ~ \E cleanup, hash \in BOOLEAN : StartApply(cleanup, hash)
        PROVE  opts' = opts
    BY <2>2 DEF Next, Run, StartUndo, AddPending, Rename, BeginCopy, EndCopy, TransferFails,
       VerifyCopy, MarkVerified, HandleFailure, CleanupGate, CheckGuards, UnlinkSource,
       PruneParents, RecordCleanup, Crash, RevertTarget, MarkReverted, EndUndo, vars
  <2> QED BY <2>1, <2>2 DEF HashAlways
<1> QED BY <1>1 DEF Enough

\* A step of an apply that marks nothing and changes no target it vouched for.
LEMMA StillVouched ==
  ASSUME IInv, LossInv, [Next]_vars, pc \in Applying, UNCHANGED <<opts, jb>>,
         \A k \in Keys : mem'.st[k] = "verified" =>
           \/ mem.st[k] = "verified" \/ (pc = "mark" /\ k = cur),
         \A k \in Keys : mem.st[k] = "verified" \/ pc = "mark" => fs'[Dst[k]] = fs[Dst[k]],
         pc' # "mark"
  PROVE  Vouched'
BY EnoughGrows DEF LossInv, Vouched, StandsFor

\* A verified copy can stand for its source if hashes were always asked for.
LEMMA VerifiedStands ==
  ASSUME IInv, LossInv, VerifyCopy, pc' = "mark", opts[jb].cleanup
  PROVE  StandsFor(fs[Dst[cur]], Src[cur])
<1>1. CopyVerifies /\ pc = "verify"
  BY DEF VerifyCopy
<1>2. /\ cur \in Keys /\ Src[cur] \in Path /\ Dst[cur] \in Path /\ jb \in Batches
      /\ fs \in [Path -> Blob \cup {Absent}]
  BY <1>1, Typed, PlanAssumption DEF TypeOK
<1>3. fs[Src[cur]] = Whole(Src[cur]) /\ fs[Dst[cur]] \in Blob
  BY <1>1, <1>2 DEF LossInv, BothEnds, SourcesIntact
<1>4. fs[Dst[cur]].of = Src[cur] /\ fs[Dst[cur]].is \in {"full", "bad"}
  BY <1>1, <1>3 DEF CopyVerifies, SameSize, Whole, Blob
<1>5. CASE HashAlways
  <2>1. fs[Dst[cur]] = Whole(Src[cur])
    BY <1>1, <1>2, <1>3, <1>5 DEF HashAlways, CopyVerifies
  <2> QED BY <1>3, <2>1, AbsentAssumption DEF StandsFor, Enough, Whole
<1>6. CASE ~HashAlways
  BY <1>3, <1>4, <1>6, AbsentAssumption DEF StandsFor, Enough
<1> QED BY <1>5, <1>6

LEMMA VouchedStep ==
  ASSUME Disjoint, IInv, LossInv, [Next]_vars
  PROVE  Vouched'
<1>m. mem \in Journal /\ cur \in Keys /\ Src[cur] \in Path /\ Dst[cur] \in Path
      /\ fs \in [Path -> Blob \cup {Absent}]
  BY Typed, PlanAssumption DEF TypeOK
<1>1. ASSUME NEW cleanup \in BOOLEAN, NEW hash \in BOOLEAN, StartApply(cleanup, hash)
      PROVE  Vouched'
  BY <1>1 DEF StartApply, NewJournal, Vouched
<1>2. CASE AddPending
  <2>1. /\ pc = "add" /\ pc' \in {"transfer", "fail"} /\ UNCHANGED <<opts, jb, fs>>
        /\ mem' = Marked(mem, cur, "pending")
    BY <1>2 DEF AddPending, Persist
  <2>2. \A k \in Keys : mem'.st[k] = "verified" => mem.st[k] = "verified"
    BY <1>m, <2>1, MarkedSt
  <2> QED BY <2>1, <2>2, StillVouched DEF Applying, OpLoop
<1>3. CASE BeginCopy \/ EndCopy \/ TransferFails
  <2>1. /\ pc \in {"transfer", "copying"} /\ pc' \in {"copying", "verify", "fail"}
        /\ UNCHANGED <<opts, jb, mem>>
    BY <1>3 DEF BeginCopy, EndCopy, TransferFails
  <2>2. mem.st[cur] = "pending"
    BY <2>1 DEF IInv, Frontier
  <2>3. \A k \in Keys : mem.st[k] = "verified" => fs'[Dst[k]] = fs[Dst[k]]
    <3>1. ~RevertTarget
      BY <2>1 DEF RevertTarget
    <3> QED BY <2>2, <3>1, PathStep
  <2> QED BY <2>1, <2>3, StillVouched DEF Applying, OpLoop
<1>4. CASE Rename
  <2>1. /\ pc = "transfer" /\ pc' = "mark" /\ UNCHANGED <<opts, jb, mem, cur>>
        /\ fs[Src[cur]] # Absent
        /\ fs' = [fs EXCEPT ![Src[cur]] = Absent, ![Dst[cur]] = fs[Src[cur]]]
    BY <1>4 DEF Rename, RenameRefused
  <2>2. mem.st[cur] = "pending"
    BY <2>1 DEF IInv, Frontier
  <2>3. \A k \in Keys : mem.st[k] = "verified" => fs'[Dst[k]] = fs[Dst[k]]
    <3>1. ~RevertTarget
      BY <2>1 DEF RevertTarget
    <3> QED BY <2>2, <3>1, PathStep
  <2>4. fs'[Dst[cur]] = Whole(Src[cur])
    BY <1>m, <2>1 DEF LossInv, SourcesIntact
  <2>5. Whole(Src[cur]) # Absent
    BY <1>m, AbsentAssumption DEF Whole, Blob
  <2>6. StandsFor(fs[Dst[cur]], Src[cur])'
    BY <2>1, <2>4, <2>5 DEF StandsFor, Enough, Whole
  <2>7. opts[jb].cleanup => \A k \in Keys : mem.st[k] = "verified" => StandsFor(fs[Dst[k]], Src[k])
    BY <2>1 DEF LossInv, Vouched, Applying, OpLoop
  <2>8. opts[jb].cleanup => \A k \in Keys : mem.st[k] = "verified" => StandsFor(fs[Dst[k]], Src[k])'
    BY <2>3, <2>7, EnoughGrows DEF StandsFor
  <2> QED BY <2>1, <2>6, <2>8 DEF Vouched
<1>5. CASE VerifyCopy
  <2>1. /\ pc = "verify" /\ pc' \in {"mark", "fail"} /\ UNCHANGED <<opts, jb, mem, cur, fs>>
    BY <1>5 DEF VerifyCopy
  <2>2. CASE pc' = "fail"
    BY <2>1, <2>2, StillVouched DEF Applying, OpLoop
  <2>3. CASE pc' = "mark"
    BY <1>5, <2>1, <2>3, VerifiedStands, EnoughGrows
    DEF LossInv, Vouched, StandsFor, Applying, OpLoop
  <2> QED BY <2>1, <2>2, <2>3
<1>6. CASE MarkVerified
  <2>1. /\ pc = "mark" /\ pc' # "mark" /\ UNCHANGED <<opts, jb, fs>>
        /\ mem' = Marked(mem, cur, "verified")
    BY <1>6 DEF MarkVerified, Persist, AfterOp
  <2>2. \A k \in Keys : k # cur => mem'.st[k] = mem.st[k]
    BY <1>m, <2>1, MarkedSt
  <2> QED BY <2>1, <2>2, StillVouched DEF Applying, OpLoop
<1>7. CASE HandleFailure
  <2>1. /\ pc = "fail" /\ pc' # "mark" /\ UNCHANGED <<opts, jb, fs>>
        /\ mem' = Marked(mem, cur, "failed")
    BY <1>7 DEF HandleFailure, Persist, AfterOp
  <2>2. \A k \in Keys : mem'.st[k] = "verified" => mem.st[k] = "verified"
    BY <1>m, <2>1, MarkedSt
  <2> QED BY <2>1, <2>2, StillVouched DEF Applying, OpLoop
<1>8. CASE CleanupGate \/ CheckGuards \/ UnlinkSource \/ PruneParents
  <2>1. /\ pc \in {"gate", "guard", "unlink"} /\ pc' # "mark" /\ UNCHANGED <<opts, jb, mem>>
    BY <1>8 DEF CleanupGate, CheckGuards, UnlinkSource, PruneParents
  <2>2. \A k \in Keys : fs'[Dst[k]] = fs[Dst[k]]
    <3>1. ~RevertTarget /\ ~Rename /\ ~BeginCopy /\ ~EndCopy
      BY <2>1 DEF RevertTarget, Rename, BeginCopy, EndCopy
    <3> QED BY <3>1, PathStep
  <2> QED BY <2>1, <2>2, StillVouched DEF Applying, PostOps
<1>9. ASSUME \/ \E b \in 1 .. batch : StartUndo(b)
             \/ RecordCleanup \/ Crash \/ RevertTarget \/ MarkReverted \/ EndUndo
      PROVE  Vouched'
  <2>1. pc' \notin Applying /\ pc' # "mark"
    BY <1>9 DEF StartUndo, RecordCleanup, Crash, RevertTarget, MarkReverted, EndUndo, Persist,
       Applying, OpLoop, PostOps
  <2> QED BY <2>1 DEF Vouched
<1>10. CASE UNCHANGED vars
  BY <1>10 DEF vars, LossInv, Vouched, StandsFor, Enough, HashAlways
<1> QED BY <1>1, <1>2, <1>3, <1>4, <1>5, <1>6, <1>7, <1>8, <1>9, <1>10 DEF Next, Run

LEMMA LossInvariance ==
  ASSUME Disjoint
  PROVE  Spec => [](IInv /\ LossInv)
<1>1. Init => LossInv
  <2> SUFFICES ASSUME Init PROVE LossInv
    OBVIOUS
  <2>1. SourcesIntact
    BY PlanAssumption DEF Init, SourcesIntact
  <2>2. SweptForGood /\ BothEnds /\ Vouched /\ UndoneBefore
    BY DEF Init, NewJournal, SweptForGood, BothEnds, Vouched, Applying, OpLoop, PostOps,
       UndoneBefore
  <2>3. SlotsOnce
    BY DEF Init, SlotsOnce
  <2> QED BY <2>1, <2>2, <2>3 DEF LossInv
<1>2. IInv /\ LossInv /\ [Next]_vars => LossInv'
  BY SourcesStep, SweptStep, SlotsStep, EndsStep, UndoneStep, VouchedStep DEF LossInv
<1> QED BY <1>1, <1>2, Invariance, PTL DEF Spec

-----------------------------------------------------------------------------
(* Every source is somewhere                                               *)

\* What stands for a source in a review folder stays there.
LEMMA ReviewKeeps ==
  ASSUME Disjoint, IInv, LossInv, [Next]_vars, NEW p, Reviewed(p)
  PROVE  Reviewed(p)'
<1>1. PICK b \in Batches, s \in Names \cup Keys : StandsFor(review[b][s], p)
  BY DEF Reviewed
<1>2. review'[b][s] = review[b][s]
  <2> SUFFICES ASSUME review'[b][s] # review[b][s] PROVE FALSE
    OBVIOUS
  <2>1. PICK l \in Keys :
          /\ fs[Dst[l]] # Absent
          /\ review' = [review EXCEPT ![jb] = [@ EXCEPT ![ReviewSlot(l)] = fs[Dst[l]]]]
          /\ jb \in Batches
          /\ ReviewSlot(l) \in Keys => ReviewSlot(l) = l
          /\ ReviewSlot(l) \notin Keys => review[jb][ReviewSlot(l)] = Absent
    BY SlotStep
  <2>2. review \in [Batches -> [Names \cup Keys -> Blob \cup {Absent}]]
    BY Typed DEF TypeOK
  <2>3. b = jb /\ s = ReviewSlot(l)
    BY <2>1, <2>2
  <2>4. review[b][s] # Absent
    BY <1>1 DEF StandsFor
  <2> QED BY <2>1, <2>3, <2>4 DEF LossInv, SlotsOnce
<1>3. StandsFor(review[b][s], p)'
  BY <1>1, <1>2, EnoughGrows DEF StandsFor
<1> QED BY <1>3 DEF Reviewed

\* A target that stands for its absent source is left, or goes to review.
LEMMA TargetKeeps ==
  ASSUME Disjoint, IInv, LossInv, RanFirst, [Next]_vars, NEW l \in Keys,
         Gone(l), StandsFor(fs[Dst[l]], Src[l])
  PROVE  StandsFor(fs[Dst[l]], Src[l])' \/ Reviewed(Src[l])'
<1>1. CASE fs'[Dst[l]] = fs[Dst[l]]
  BY <1>1, EnoughGrows DEF StandsFor
<1>2. CASE fs'[Dst[l]] # fs[Dst[l]]
  <2>1. RevertTarget /\ pc = "undo"
    BY <1>2, PathStep DEF Gone, RevertTarget
  <2>2. mem.ran
    BY <2>1 DEF RanFirst, LossInv, UndoneBefore, IInv, Synced, Working
  <2>3. PICK k \in Keys : /\ fs' = [fs EXCEPT ![Dst[k]] = Absent]
                          /\ fs[Dst[k]] # Absent =>
                               review' = [review EXCEPT ![jb][ReviewSlot(k)] = fs[Dst[k]]]
    BY <1>2, <2>1, <2>2 DEF RevertTarget, Verified
  <2>4. k = l
    BY <1>2, <2>3, Typed, PlanAssumption DEF Disjoint, TypeOK
  <2>5. Dst[l] \in Path /\ jb \in Batches
    BY <2>1, Typed, PlanAssumption DEF TypeOK
  <2>6. ReviewSlot(l) \in Names \cup Keys
    BY <2>5 DEF ReviewSlot, Names
  <2>7. review \in [Batches -> [Names \cup Keys -> Blob \cup {Absent}]]
    BY Typed DEF TypeOK
  <2>8. review'[jb][ReviewSlot(l)] = fs[Dst[l]]
    BY <2>3, <2>4, <2>5, <2>6, <2>7 DEF StandsFor
  <2>9. \E b \in Batches, s \in Names \cup Keys :
          /\ review'[b][s] # Absent /\ review'[b][s].of = Src[l] /\ review'[b][s].is \in Enough
    BY <2>5, <2>6, <2>8 DEF StandsFor
  <2> QED BY <2>9, EnoughGrows DEF Reviewed, StandsFor
<1> QED BY <1>1, <1>2

\* A source that goes leaves its own target behind.
LEMMA GoesToTarget ==
  ASSUME Disjoint, IInv, LossInv, [Next]_vars, NEW k \in Keys, ~Gone(k), Gone(k)'
  PROVE  \E l \in Keys : Src[l] = Src[k] /\ StandsFor(fs[Dst[l]], Src[l])'
<1>1. Rename \/ UnlinkSource
  BY PathStep DEF Gone
<1>t. /\ cur \in Keys /\ fs \in [Path -> Blob \cup {Absent}]
      /\ Src \in [Keys -> Path] /\ Dst \in [Keys -> Path]
  BY Typed, PlanAssumption DEF TypeOK
<1>2. CASE Rename
  <2>1. /\ Src[k] = Src[cur] /\ fs[Src[cur]] # Absent
        /\ fs'[Dst[cur]] = fs[Src[cur]]
    BY <1>2, <1>t DEF Rename, RenameRefused, Gone, Disjoint
  <2>2. fs'[Dst[cur]] = Whole(Src[cur])
    BY <1>t, <2>1 DEF LossInv, SourcesIntact
  <2>3. Whole(Src[cur]) # Absent
    BY <1>t, AbsentAssumption DEF Whole, Blob
  <2> QED BY <1>t, <2>1, <2>2, <2>3 DEF StandsFor, Enough, Whole
<1>3. CASE UnlinkSource
  <2>1. pc = "unlink" /\ opts[jb].cleanup /\ mem.st[k] = "verified"
    BY <1>3 DEF UnlinkSource, IInv, Licensed, Verified
  <2>2. StandsFor(fs[Dst[k]], Src[k])
    BY <2>1 DEF LossInv, Vouched, Applying, PostOps
  <2>3. fs'[Dst[k]] = fs[Dst[k]]
    <3>1. ~Rename /\ ~BeginCopy /\ ~EndCopy /\ ~RevertTarget
      BY <2>1 DEF Rename, BeginCopy, EndCopy, RevertTarget
    <3> QED BY <3>1, PathStep
  <2> QED BY <2>2, <2>3, EnoughGrows DEF StandsFor
<1> QED BY <1>1, <1>2, <1>3

LEMMA SomewhereStep ==
  ASSUME Disjoint, IInv, LossInv, RanFirst, Somewhere, [Next]_vars
  PROVE  Somewhere'
<1> SUFFICES ASSUME NEW k \in Keys, Gone(k)'
             PROVE  \E l \in Keys : /\ Src[l] = Src[k]
                                    /\ \/ StandsFor(fs[Dst[l]], Src[l])'
                                       \/ Reviewed(Src[l])'
  BY DEF Somewhere
<1>1. CASE ~Gone(k)
  BY <1>1, GoesToTarget
<1>2. CASE Gone(k)
  <2>1. PICK l \in Keys : /\ Src[l] = Src[k]
                          /\ StandsFor(fs[Dst[l]], Src[l]) \/ Reviewed(Src[l])
    BY <1>2 DEF Somewhere
  <2>2. Gone(l)
    BY <1>2, <2>1 DEF Gone
  <2> QED BY <2>1, <2>2, TargetKeeps, ReviewKeeps
<1> QED BY <1>1, <1>2

\* Undo was on recorded batches only before, if it is after.
LEMMA RanBefore ==
  ASSUME IInv, LossInv, [Next]_vars, RanFirst'
  PROVE  RanFirst
<1>1. undone \subseteq undone' /\ undone \subseteq Batches
  <2>1. undone \subseteq undone'
    BY DEF Next, Run, StartApply, StartUndo, AddPending, Rename, BeginCopy, EndCopy,
       TransferFails, VerifyCopy, MarkVerified, HandleFailure, CleanupGate, CheckGuards,
       UnlinkSource, PruneParents, RecordCleanup, Crash, RevertTarget, MarkReverted, EndUndo,
       vars, history
  <2> QED BY <2>1, Typed DEF TypeOK
<1>2. RecordCleanup => jb \notin undone
  BY DEF RecordCleanup, LossInv, UndoneBefore, Applying, PostOps
<1> QED BY <1>1, <1>2, RanStep DEF RanFirst

\* Nothing is lost: for a plan whose ops do not step on each other, whatever is
\* applied, fails, is corrupted, crashes or is undone in whatever order, a copy
\* of every source good enough for the checks asked for exists, as long as undo
\* was only used on batches that recorded their cleanup or none asked for any.
THEOREM NothingIsLost ==
  ASSUME Disjoint
  PROVE  Spec => []NothingLost
<1> DEFINE Kept == RanFirst => Somewhere
           FromStart == \A k \in Keys : fs0[Src[k]] = Whole(Src[k])
<1>1. Init => Kept /\ FromStart
  <2> SUFFICES ASSUME Init PROVE Kept /\ FromStart
    OBVIOUS
  <2>1. \A k \in Keys : fs0[Src[k]] = Whole(Src[k]) /\ ~Gone(k)
    <3> SUFFICES ASSUME NEW k \in Keys PROVE fs0[Src[k]] = Whole(Src[k]) /\ ~Gone(k)
      OBVIOUS
    <3>1. Src[k] \in Path
      BY PlanAssumption
    <3>2. fs[Src[k]] = Whole(Src[k]) /\ fs0 = fs
      BY <3>1 DEF Init
    <3>3. Whole(Src[k]) # Absent
      BY <3>1, AbsentAssumption DEF Whole, Blob
    <3> QED BY <3>2, <3>3 DEF Gone
  <2> QED BY <2>1 DEF Somewhere
<1>2. IInv /\ LossInv /\ Kept /\ FromStart /\ [Next]_vars => (Kept /\ FromStart)'
  <2> SUFFICES ASSUME IInv, LossInv, Kept, FromStart, [Next]_vars
               PROVE  (Kept /\ FromStart)'
    OBVIOUS
  <2>1. Kept'
    BY SomewhereStep, RanBefore
  <2>2. fs0' = fs0
    BY DEF Next, Run, StartApply, StartUndo, AddPending, Rename, BeginCopy, EndCopy,
       TransferFails, VerifyCopy, MarkVerified, HandleFailure, CleanupGate, CheckGuards,
       UnlinkSource, PruneParents, RecordCleanup, Crash, RevertTarget, MarkReverted, EndUndo,
       vars, fixed
  <2> QED BY <2>1, <2>2
<1>3. IInv /\ LossInv /\ Kept /\ FromStart /\ CopyKeepsSources => NothingLost
  <2> SUFFICES ASSUME IInv, LossInv, Kept, FromStart, CopyKeepsSources, UndosWereSafe,
                      NEW k \in Keys
               PROVE  Found(Src[k], Enough)
    BY DEF NothingLost, Enough
  <2>1. Src[k] \in Path /\ \A l \in Keys : Dst[l] \in Path
    BY PlanAssumption
  <2>2. CASE ~Gone(k)
    <3>1. fs[Src[k]] = Whole(Src[k]) /\ fs[Src[k]] # Absent
      BY <2>2 DEF LossInv, SourcesIntact, Gone
    <3> QED BY <2>1, <3>1 DEF Found, Whole, Enough
  <2>3. CASE Gone(k)
    <3>1. \E b \in Batches : opts[b].cleanup
      <4>1. Whole(Src[k]) # Absent
        BY <2>1, AbsentAssumption DEF Whole, Blob
      <4> QED BY <2>3, <4>1 DEF CopyKeepsSources, Gone
    <3>2. PICK l \in Keys : /\ Src[l] = Src[k]
                            /\ StandsFor(fs[Dst[l]], Src[l]) \/ Reviewed(Src[l])
      BY <2>3, <3>1 DEF UndosWereSafe, RanFirst, Somewhere
    <3>3. CASE StandsFor(fs[Dst[l]], Src[l])
      BY <2>1, <3>2, <3>3 DEF StandsFor, Found
    <3>4. CASE Reviewed(Src[l])
      BY <3>2, <3>4 DEF Reviewed, StandsFor, Found
    <3> QED BY <3>2, <3>3, <3>4
  <2> QED BY <2>2, <2>3
<1>4. Spec => []CopyKeepsSources
  BY CopySafe DEF Disjoint
<1>5. Spec => [](IInv /\ LossInv)
  BY LossInvariance
<1> QED BY <1>1, <1>2, <1>3, <1>4, <1>5, PTL DEF Spec
=============================================================================
