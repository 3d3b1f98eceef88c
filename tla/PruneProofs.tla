----------------------------- MODULE PruneProofs ------------------------------
(***************************************************************************)
(* Theorems about Prune, for any tree, any plan and any other programs:    *)
(* what the walks of cleanup and undo leave alone.                         *)
(***************************************************************************)
EXTENDS Prune, SequenceTheorems, WellFoundedInduction, TLAPS

\* The dropped folder is not around the library's, nor the library around it.
LibraryApart ==
  \A r \in InputRoots :
    /\ ~is_strict_descendant(MoviesRoot, r)
    /\ \A e \in Entry : r \notin Above(Target[e])

TargetDirs == UNION { Above(Target[e]) : e \in Entry }

-----------------------------------------------------------------------------
(* Paths                                                                   *)

LEMMA AbovePath ==
  ASSUME NEW p \in Seq(STRING), NEW d \in Above(p)
  PROVE  d \in Seq(STRING) /\ \E n \in 0 .. Len(p) - 1 : d = SubSeq(p, 1, n) /\ Len(d) = n
<1>1. PICK n \in 0 .. Len(p) - 1 : d = SubSeq(p, 1, n)
  BY DEF Above
<1>2. Len(d) = n /\ d \in Seq(STRING)
  BY <1>1, SubSeqProperties
<1> QED BY <1>1, <1>2

LEMMA ParentLen ==
  ASSUME NEW p \in Seq(STRING), p # NoDir
  PROVE  Parent(p) \in Seq(STRING) /\ Len(p) = Len(Parent(p)) + 1 /\ Parent(p) \in Above(p)
<1>1. Len(p) \in Nat \ {0}
  BY DEF NoDir
<1>2. Parent(p) = SubSeq(p, 1, Len(p) - 1)
  BY DEF Parent, Front
<1>3. Parent(p) \in Above(p)
  BY <1>1, <1>2 DEF Above
<1>4. PICK n \in 0 .. Len(p) - 1 : Parent(p) = SubSeq(p, 1, n) /\ n = Len(p) - 1
  BY <1>1, <1>2
<1>5. Parent(p) \in Seq(STRING) /\ Len(Parent(p)) = n
  BY <1>4, SubSeqProperties
<1> QED BY <1>1, <1>3, <1>4, <1>5

\* The parent of a directory above a path is above it too, so that a walk stays
\* there until it is at the root of the file system.
LEMMA ParentStaysAbove ==
  ASSUME NEW p \in Seq(STRING), NEW d \in Above(p), d # NoDir
  PROVE  Parent(d) \in Above(p)
<1>1. PICK n \in 0 .. Len(p) - 1 : d = SubSeq(p, 1, n) /\ Len(d) = n
  BY AbovePath
<1>2. n # 0
  BY <1>1, SubSeqEmpty DEF NoDir
<1>3. d \in Seq(STRING)
  BY AbovePath
<1>4. Parent(d) = SubSeq(d, 1, n - 1)
  BY <1>1 DEF Parent, Front
<1>5. Parent(d) = SubSeq(p, 1, n - 1)
  <2>1. CASE n = 1
    BY <1>4, <2>1, SubSeqEmpty
  <2>2. CASE n > 1
    BY <1>1, <1>3, <1>4, <2>2, SubSeqOfSubSeq
  <2> QED BY <1>2, <2>1, <2>2
<1> QED BY <1>2, <1>5 DEF Above

\* A directory above a path holds the next one, or what is at its end.
LEMMA NextBelow ==
  ASSUME NEW p \in Seq(STRING), NEW d \in Above(p)
  PROVE  \E c \in Above(p) \cup {p} : c # NoDir /\ Parent(c) = d
<1>1. PICK n \in 0 .. Len(p) - 1 : d = SubSeq(p, 1, n)
  BY AbovePath
<1> DEFINE c == SubSeq(p, 1, n + 1)
<1>2. c \in Seq(STRING) /\ Len(c) = n + 1
  BY <1>1, SubSeqProperties
<1>3. c \in Above(p) \cup {p}
  <2>1. CASE n + 1 = Len(p)
    BY <2>1, SubSeqFull
  <2>2. CASE n + 1 < Len(p)
    BY <1>1, <2>2 DEF Above
  <2> QED BY <1>1, <2>1, <2>2
<1>4. Parent(c) = SubSeq(c, 1, n)
  BY <1>2 DEF Parent, Front
<1>5. SubSeq(c, 1, n) = d
  <2>1. CASE n = 0
    BY <1>1, <2>1, SubSeqEmpty
  <2>2. CASE n > 0
    BY <1>1, <1>2, <2>2, SubSeqOfSubSeq
  <2> QED BY <1>1, <2>1, <2>2
<1>6. c # NoDir
  BY <1>2 DEF NoDir
<1> QED BY <1>3, <1>4, <1>5, <1>6

LEMMA Paths ==
  /\ \A e \in Entry : Source[e] \in Seq(STRING) /\ Target[e] \in Seq(STRING)
  /\ Sources \subseteq Seq(STRING) /\ Listed \subseteq Seq(STRING)
  /\ Others \subseteq Seq(STRING) /\ Elsewhere \subseteq Seq(STRING)
  /\ MoviesRoot \in Seq(STRING)
BY PruneAssumption DEF Sources

\* An undo's walk starts among the directories above targets.
LEMMA ParentIsAbove ==
  ASSUME NEW e \in Entry
  PROVE  Parent(Target[e]) \in Above(Target[e]) \cup {NoDir}
<1> DEFINE p == Target[e]
<1>1. p \in Seq(STRING)
  BY Paths
<1>2. CASE p = NoDir
  BY <1>2, SubSeqEmpty DEF Parent, Front, NoDir
<1>3. CASE p # NoDir
  BY <1>1, <1>3, ParentLen
<1> QED BY <1>2, <1>3

-----------------------------------------------------------------------------
\* Where a walk may be: before a rmdir of a cleanup its directory has passed the
\* guards; a walk of an undo is above a target and not at the library's root.
Walks ==
  /\ todo \subseteq Entry
  /\ pc = "rmdir" => _passes_guards(at)
  /\ pc \in {"undo", "undoRmdir"} => at \in TargetDirs \cup {NoDir}
  /\ pc = "undoRmdir" => at \notin {MoviesRoot, NoDir}
  /\ pc \notin {"prune", "rmdir", "undo", "undoRmdir"} => at = NoDir

IInv == inputRoot \in InputRoots /\ Walks /\ RootsStay

LEMMA InitIInv == Init => IInv
<1> SUFFICES ASSUME Init PROVE IInv
  OBVIOUS
<1>1. inputRoot \in InputRoots /\ Walks
  BY DEF Init, Walks
<1>2. RootsStay
  BY PruneAssumption DEF Init, RootsStay, FromTheStart
<1> QED BY <1>1, <1>2 DEF IInv

\* The guards look at the path and at the path dropped, which no step changes.
LEMMA GuardsKept ==
  ASSUME [Next]_vars, NEW p
  PROVE  /\ inputRoot' = inputRoot /\ RootPasses' = RootPasses
         /\ _passes_guards(p)' = _passes_guards(p)
<1>1. inputRoot' = inputRoot
  BY DEF Next, vars, _on_apply_clicked, Answer, Copy, Unlink, NextParent, Look, RemoveDir,
         undo_batch, UndoEntry, UndoLook, UndoRemoveDir, Undone, OthersMove
<1> QED BY <1>1 DEF _passes_guards, RootPasses

LEMMA WalksStep == Walks /\ [Next]_vars => Walks'
<1> SUFFICES ASSUME Walks, [Next]_vars PROVE Walks'
  OBVIOUS
<1>2. \A p : _passes_guards(p) => _passes_guards(p)'
  BY GuardsKept
<1>4. CASE _on_apply_clicked
  BY <1>4 DEF _on_apply_clicked, Walks
<1>5. CASE Answer
  BY <1>5 DEF Answer, Walks
<1>6. CASE Copy
  BY <1>6 DEF Copy, Walks
<1>7. CASE Unlink
  BY <1>7 DEF Unlink, Walks
<1>8. CASE NextParent
  BY <1>8 DEF NextParent, Walks
<1>9. CASE Look
  BY <1>2, <1>9 DEF Look, Climbs, Walks
<1>10. CASE RemoveDir
  BY <1>10 DEF RemoveDir, Walks
<1>11. CASE undo_batch
  BY <1>11 DEF undo_batch, Walks
<1>12. CASE UndoEntry
  <2>1. PICK e \in Entry : at' \in {at, Parent(Target[e])}
    BY <1>12 DEF UndoEntry, Walks
  <2>2. at' \in TargetDirs \cup {NoDir}
    BY <1>12, <2>1, ParentIsAbove DEF UndoEntry, Walks, TargetDirs
  <2> QED BY <1>12, <2>2 DEF UndoEntry, Walks
<1>13. CASE UndoLook
  BY <1>13 DEF UndoLook, UndoStops, Walks
<1>14. CASE UndoRemoveDir
  <2>1. at \in TargetDirs /\ at # NoDir
    BY <1>14 DEF UndoRemoveDir, Walks
  <2>2. Parent(at) \in TargetDirs
    BY <2>1, ParentStaysAbove, Paths DEF TargetDirs
  <2> QED BY <1>14, <2>2 DEF UndoRemoveDir, Walks
<1>15. CASE Undone
  BY <1>15 DEF Undone, Walks
<1>16. CASE OthersMove
  BY <1>2, <1>16 DEF OthersMove, Walks
<1>17. CASE UNCHANGED vars
  BY <1>2, <1>17 DEF vars, Walks
<1> QED
  BY <1>4, <1>5, <1>6, <1>7, <1>8, <1>9, <1>10, <1>11, <1>12, <1>13, <1>14, <1>15, <1>16, <1>17
  DEF Next

LEMMA StepIInv == ASSUME LibraryApart PROVE IInv /\ [Next]_vars => IInv'
<1> SUFFICES ASSUME IInv, [Next]_vars PROVE IInv'
  OBVIOUS
<1> USE DEF IInv
<1>1. inputRoot' = inputRoot /\ Walks' /\ \A p : _passes_guards(p) => _passes_guards(p)'
  BY GuardsKept, WalksStep
<1>2. SUFFICES RootsStay'
  BY <1>1
<1>3. SUFFICES /\ {inputRoot, MoviesRoot} \subseteq dirs'
               /\ \A p \in gone' : _passes_guards(p)
               /\ FromTheStart \ dirs' \subseteq gone' \cup TargetDirs
  BY <1>1 DEF RootsStay, TargetDirs
<1>8. FromTheStart \ dirs \subseteq gone \cup TargetDirs
  BY DEF RootsStay, TargetDirs
<1>4. CASE Unlink
  BY <1>4, <1>8 DEF Unlink, RootsStay, Sources
<1>5. CASE RemoveDir
  <2>1. _passes_guards(at)
    BY <1>5 DEF RemoveDir, Walks
  <2>2. at \notin {inputRoot, MoviesRoot}
    BY <2>1 DEF _passes_guards, is_strict_descendant, IsStrictPrefix, LibraryApart
  <2> QED BY <1>5, <1>8, <2>1, <2>2 DEF RemoveDir, RootsStay
<1>6. CASE UndoRemoveDir
  <2>1. at \in TargetDirs /\ at # MoviesRoot
    BY <1>6 DEF UndoRemoveDir, Walks
  <2>2. at # inputRoot
    BY <2>1 DEF TargetDirs, LibraryApart
  <2> QED BY <1>6, <1>8, <2>1, <2>2 DEF UndoRemoveDir, RootsStay
<1>7. CASE ~(Unlink \/ RemoveDir \/ UndoRemoveDir)
  <2>1. dirs \subseteq dirs' /\ gone' = gone
    BY <1>7 DEF Next, vars, _on_apply_clicked, Answer, Copy, NextParent, Look,
         undo_batch, UndoEntry, UndoLook, Undone, OthersMove
  <2> QED BY <1>8, <2>1 DEF RootsStay
<1> QED BY <1>4, <1>5, <1>6, <1>7

\* However many walks a cleanup and an undo make, whatever other programs do
\* meanwhile and wherever the files came from: the path dropped and the movies
\* root stay, a cleanup deletes only what passes the guards, and an undo, which
\* has none, takes only directories above its targets.
THEOREM RootsAreKept == ASSUME LibraryApart PROVE Spec => []RootsStay
<1>1. Init => IInv
  BY InitIInv
<1>2. IInv /\ [Next]_vars => IInv'
  BY StepIInv
<1>3. IInv => RootsStay
  BY DEF IInv
<1> QED BY <1>1, <1>2, <1>3, PTL DEF Spec

-----------------------------------------------------------------------------
\* A file of another program that is there stays until that program removes it:
\* the copies, the cleanup and the undo delete files of the plan only, and
\* directories only while they are empty.
THEOREM ArrivalsAreKept == Spec => ArrivalsSurvive
<1> DEFINE Inv == others \in Nat /\ todo \subseteq Entry
<1>1. Init => Inv
  BY DEF Init
<1>2. Inv /\ [Next]_vars => Inv'
  BY DEF Next, vars, _on_apply_clicked, Answer, Copy, Unlink, NextParent, Look, RemoveDir,
         undo_batch, UndoEntry, UndoLook, UndoRemoveDir, Undone, OthersMove
<1>3. Inv /\ [Next]_vars => [others' = others => Others \cap files \subseteq files']_vars
  <2> SUFFICES ASSUME Inv, [Next]_vars, others' = others
               PROVE  Others \cap files \subseteq files'
    OBVIOUS
  <2>1. Others \cap (Sources \cup { Target[e] : e \in Entry }) = {}
    BY PruneAssumption
  <2>2. CASE Copy
    <3>1. PICK e \in Entry : files \ {Source[e]} \subseteq files'
      BY <2>2 DEF Copy
    <3> QED BY <2>1, <3>1 DEF Sources
  <2>3. CASE Unlink
    <3>1. files \ Sources \subseteq files'
      BY <2>3 DEF Unlink
    <3> QED BY <2>1, <3>1
  <2>4. CASE UndoEntry
    <3>1. PICK e \in Entry : files \ {Target[e]} \subseteq files'
      BY <2>4 DEF UndoEntry
    <3> QED BY <2>1, <3>1
  <2>5. CASE ~OthersMove /\ UNCHANGED files
    BY <2>5
  <2>6. ~OthersMove
    BY DEF OthersMove
  <2>7. Copy \/ Unlink \/ UndoEntry \/ UNCHANGED files
    BY <2>6 DEF Next, vars, _on_apply_clicked, Answer, NextParent, Look, RemoveDir,
                undo_batch, UndoLook, UndoRemoveDir, Undone
  <2> QED BY <2>2, <2>3, <2>4, <2>5, <2>6, <2>7
<1> QED BY <1>1, <1>2, <1>3, PTL DEF Spec, ArrivalsSurvive

-----------------------------------------------------------------------------
(* What is swept, and what was shown: the invariant in named parts         *)

SourceDirs == UNION { Above(s) : s \in Sources }
Cleaning == {"prune", "rmdir"}
BeforeUndo == {"idle", "modal", "copy", "prune", "rmdir", "done", "raised"}

\* What there is at each stage: all there was from the start, up to the copies;
\* with the directories of the targets copied so far; but for what is gone.
Stages ==
  /\ pc \in {"idle", "modal"} => dirs = FromTheStart /\ files \subseteq Seq(STRING)
  /\ pc \in {"idle", "modal", "copy"} => gone = {} /\ FromTheStart \subseteq dirs
  /\ pc \in BeforeUndo => FromTheStart \subseteq dirs \cup gone
  /\ pc \in Cleaning \cup {"done", "raised"} => todo = {}
  /\ pc \in {"copy", "done", "raised"} \cup Cleaning =>
       \A e \in Entry \ todo : Above(Target[e]) \subseteq dirs \cup FromTheStart

\* The walks of a cleanup are above sources that pass the guards.
Scope ==
  /\ pc \in Cleaning => /\ left \subseteq SourceDirs /\ at \in SourceDirs \cup {NoDir}
                        /\ RootPasses /\ \A e \in Entry : _passes_guards(Source[e])
  /\ pc = "done" => left = {}

Empty(d) == In(d, files, dirs) = {}

\* Empty directories above sources are yet to be walked to.
SweptSources ==
  pc \in Cleaning \cup {"done"} =>
    \A d \in (SourceDirs \cap dirs) \ touched :
      _passes_guards(d) /\ Empty(d) => d \in left \cup {at}

\* No directory is made to stay empty, and an undo empties none but the one it
\* looks at next.
SweptTargets ==
  /\ pc \in BeforeUndo => \A d \in dirs \ (touched \cup FromTheStart) : ~Empty(d)
  /\ pc \in {"undo", "undoRmdir", "end"} =>
       \A d \in (TargetDirs \cap dirs) \ (touched \cup FromTheStart) : Empty(d) => d = at

\* What touches a directory touches all above it.
Reach == \A d \in touched : d # NoDir => Parent(d) \in touched

Unlisted == { Source[e] : e \in Sidecar }
Eligible == { v \in Listed : _passes_guards(v) }
AboveUnlisted == UNION { Above(s) : s \in Unlisted }
Excused == Unlisted \cup AboveUnlisted \cup touched

\* What was shown has every video that passes the guards, and every directory
\* above them all of whose files do too, and all of whose directories it has.
Shown ==
  pc \in {"modal", "copy"} \cup Cleaning /\ RootPasses =>
    /\ Eligible \subseteq shown
    /\ \A d \in FromTheStart \ touched :
         /\ _passes_guards(d)
         /\ \E v \in Eligible : d \in Above(v)
         /\ \A f \in files \cup Sources : f # NoDir /\ Parent(f) = d => f \in Eligible
         /\ \A c \in FromTheStart : c # NoDir /\ Parent(c) = d => c \in shown
         => d \in shown

Swept == Walks /\ Stages /\ Scope /\ SweptSources /\ SweptTargets
Consented == Walks /\ Stages /\ Scope /\ Reach /\ Shown /\ ConsentCovers

-----------------------------------------------------------------------------
LEMMA FromTheStartHas ==
  /\ NoDir \in FromTheStart
  /\ SourceDirs \subseteq FromTheStart
  /\ MoviesRoot \in FromTheStart
  /\ \A v \in Listed : Above(v) \subseteq FromTheStart
  /\ \A d \in FromTheStart : d \in Seq(STRING)
<1>1. MoviesRoot \in FromTheStart /\ Above(MoviesRoot) \subseteq FromTheStart
  BY PruneAssumption DEF FromTheStart
<1>2. NoDir \in FromTheStart
  <2>1. CASE MoviesRoot = NoDir
    BY <1>1, <2>1
  <2>2. CASE MoviesRoot # NoDir
    <3>1. Len(MoviesRoot) \in Nat \ {0}
      BY <2>2, Paths DEF NoDir
    <3>2. SubSeq(MoviesRoot, 1, 0) \in Above(MoviesRoot)
      BY <3>1 DEF Above
    <3>3. SubSeq(MoviesRoot, 1, 0) = NoDir
      BY SubSeqEmpty DEF NoDir
    <3> QED BY <1>1, <3>2, <3>3
  <2> QED BY <2>1, <2>2
<1>3. SourceDirs \subseteq FromTheStart /\ \A v \in Listed : Above(v) \subseteq FromTheStart
  BY DEF FromTheStart, SourceDirs
<1>4. \A d \in FromTheStart : d \in Seq(STRING)
  BY Paths, AbovePath DEF FromTheStart
<1> QED BY <1>1, <1>2, <1>3, <1>4

LEMMA GuardedIsDeep ==
  ASSUME NEW d, _passes_guards(d)
  PROVE  d # NoDir
BY DEF _passes_guards, has_at_least_three_components, NoDir

LEMMA ReviewDirIsNew == Above(ReviewDir) \subseteq FromTheStart
<1> SUFFICES ASSUME NEW d \in Above(ReviewDir) PROVE d \in FromTheStart
  OBVIOUS
<1> DEFINE S == STRING \cup {"_undo"}
<1>1. MoviesRoot \in Seq(S) /\ "_undo" \in S
  BY Paths
<1>2. Len(ReviewDir) = Len(MoviesRoot) + 1 /\ Len(MoviesRoot) \in Nat
  BY <1>1 DEF ReviewDir
<1>3. PICK n \in 0 .. Len(MoviesRoot) : d = SubSeq(ReviewDir, 1, n)
  BY <1>2 DEF Above
<1>4. d = SubSeq(MoviesRoot, 1, n)
  <2>1. CASE n = 0
    BY <1>3, <2>1, SubSeqEmpty
  <2>2. CASE n > 0
    <3>1. SubSeq(MoviesRoot \o <<"_undo">>, 1, n) = SubSeq(MoviesRoot, 1, n)
      <4>1. n \in 1 .. Len(MoviesRoot) /\ 1 \in 1 .. Len(MoviesRoot) /\ <<"_undo">> \in Seq(S)
        BY <1>1, <1>2, <2>2
      <4> QED BY <1>1, <4>1, SubSeqOfConcat1
    <3>2. ReviewDir = MoviesRoot \o <<"_undo">>
      BY <1>1 DEF ReviewDir
    <3> QED BY <1>3, <3>1, <3>2
  <2> QED BY <2>1, <2>2
<1>5. CASE n = Len(MoviesRoot)
  <2>1. d = MoviesRoot
    BY <1>1, <1>4, <1>5, SubSeqFull
  <2> QED BY <2>1, FromTheStartHas
<1>6. CASE n < Len(MoviesRoot)
  <2>1. d \in Above(MoviesRoot)
    BY <1>2, <1>4, <1>6 DEF Above
  <2> QED BY <2>1, PruneAssumption DEF FromTheStart
<1> QED BY <1>2, <1>5, <1>6

\* What changes of a directory's contents from one tree to the next.
LEMMA Emptied ==
  ASSUME NEW d, ~Empty(d), Empty(d)',
         NEW F, files \ F \subseteq files', NEW D, dirs \ D \subseteq dirs'
  PROVE  \E x \in F \cup D : x # NoDir /\ Parent(x) = d
BY DEF Empty, In, NoDir

LEMMA StagesStep == Walks /\ Stages /\ Scope /\ [Next]_vars => Stages'
<1> SUFFICES ASSUME Walks, Stages, Scope, [Next]_vars PROVE Stages'
  OBVIOUS
<1> USE DEF Cleaning, BeforeUndo
<1>1. CASE _on_apply_clicked
  BY <1>1 DEF _on_apply_clicked, Stages
<1>2. CASE Answer
  BY <1>2 DEF Answer, Stages
<1>3. CASE Copy
  <2>1. PICK e \in todo : todo' = todo \ {e} /\ dirs' = dirs \cup Above(Target[e])
    BY <1>3 DEF Copy
  <2>2. pc = "copy" /\ pc' = "copy" /\ gone' = gone
    BY <1>3 DEF Copy
  <2> QED BY <2>1, <2>2 DEF Stages
<1>4. CASE Unlink
  <2>1. /\ todo = {} /\ todo' = {} /\ dirs' = dirs /\ gone \subseteq gone' /\ pc = "copy"
        /\ pc' \in {"prune", "raised"}
    BY <1>4 DEF Unlink
  <2> QED BY <2>1 DEF Stages
<1>5. CASE NextParent
  BY <1>5 DEF NextParent, Stages
<1>6. CASE Look
  BY <1>6 DEF Look, Stages
<1>7. CASE RemoveDir
  <2>1. at \in FromTheStart
    BY <1>7, FromTheStartHas DEF RemoveDir, Scope
  <2>2. /\ pc = "rmdir" /\ todo' = todo /\ pc' \in {"prune", "raised"}
        /\ dirs \ {at} \subseteq dirs' /\ dirs \cup gone = dirs' \cup gone'
    BY <1>7 DEF RemoveDir
  <2>3. \A e \in Entry : Above(Target[e]) \subseteq dirs' \cup FromTheStart
    BY <2>1, <2>2 DEF Stages
  <2> QED BY <2>2, <2>3 DEF Stages
<1>8. CASE undo_batch
  BY <1>8 DEF undo_batch, Stages
<1>9. CASE UndoEntry
  BY <1>9 DEF UndoEntry, Stages
<1>10. CASE UndoLook
  BY <1>10 DEF UndoLook, Stages
<1>11. CASE UndoRemoveDir
  BY <1>11 DEF UndoRemoveDir, Stages
<1>12. CASE Undone
  BY <1>12 DEF Undone, Stages
<1>13. CASE OthersMove
  BY <1>13, Paths DEF OthersMove, Stages
<1>14. CASE UNCHANGED vars
  BY <1>14 DEF vars, Stages
<1> QED
  BY <1>1, <1>2, <1>3, <1>4, <1>5, <1>6, <1>7, <1>8, <1>9, <1>10, <1>11, <1>12, <1>13, <1>14
  DEF Next

LEMMA ScopeStep == Walks /\ Stages /\ Scope /\ [Next]_vars => Scope'
<1> SUFFICES ASSUME Walks, Stages, Scope, [Next]_vars PROVE Scope'
  OBVIOUS
<1> USE DEF Cleaning
<1>1. RootPasses' = RootPasses /\ \A p : _passes_guards(p)' = _passes_guards(p)
  BY GuardsKept
<1>2. CASE Unlink
  <2>1. \A e \in Entry : _passes_guards(Source[e]) => Parent(Source[e]) \in SourceDirs
    <3> SUFFICES ASSUME NEW e \in Entry, _passes_guards(Source[e])
                 PROVE  Parent(Source[e]) \in SourceDirs
      OBVIOUS
    <3>1. Parent(Source[e]) \in Above(Source[e])
      BY Paths, GuardedIsDeep, ParentLen
    <3> QED BY <3>1 DEF SourceDirs, Sources
  <2>2. CASE RootPasses /\ \A e \in Entry : _passes_guards(Source[e])
    <3>1. pc' = "prune" /\ left' = { Parent(s) : s \in Sources } /\ at' = NoDir
      BY <1>2, <2>2 DEF Unlink, Walks
    <3> QED BY <1>1, <2>1, <2>2, <3>1 DEF Scope, Sources
  <2>3. CASE ~(RootPasses /\ \A e \in Entry : _passes_guards(Source[e]))
    BY <1>2, <2>3 DEF Unlink, Scope
  <2> QED BY <2>2, <2>3
<1>3. CASE NextParent
  <2>1. RootPasses' /\ \A e \in Entry : _passes_guards(Source[e])'
    BY <1>1, <1>3 DEF NextParent, Scope
  <2>2. \/ \E d \in left : at' = d /\ left' = left \ {d} /\ pc' = pc
        \/ left' = {} /\ pc' = "done"
    BY <1>3 DEF NextParent, Deepest
  <2> QED BY <1>3, <2>1, <2>2 DEF NextParent, Scope
<1>4. CASE Look
  BY <1>1, <1>4 DEF Look, Scope
<1>5. CASE RemoveDir
  <2>1. at # NoDir /\ at \in SourceDirs
    BY <1>5, GuardedIsDeep DEF RemoveDir, Scope, Walks
  <2>2. Parent(at) \in SourceDirs
    BY <2>1, ParentStaysAbove, Paths DEF SourceDirs
  <2> QED BY <1>1, <1>5, <2>2 DEF RemoveDir, Scope
<1>6. CASE ~(Unlink \/ NextParent \/ Look \/ RemoveDir)
  <2>1. \/ UNCHANGED <<pc, left, at>>
        \/ pc' \notin Cleaning \cup {"done"}
    BY <1>6 DEF Next, vars, _on_apply_clicked, Answer, Copy, undo_batch, UndoEntry, UndoLook,
         UndoRemoveDir, Undone, OthersMove
  <2> QED BY <1>1, <2>1 DEF Scope
<1> QED BY <1>2, <1>3, <1>4, <1>5, <1>6

\* A directory other programs emptied is among those they touched.
LEMMA OthersEmpty ==
  ASSUME OthersMove, NEW d, ~Empty(d), Empty(d)'
  PROVE  d \in touched'
<1>1. PICK x \in Others \cup { Target[e] : e \in Entry } :
        /\ files \ {x} \subseteq files'
        /\ touched' = touched \cup Above(x)
  BY DEF OthersMove
<1>2. dirs \ {} \subseteq dirs'
  BY DEF OthersMove
<1>3. PICK y \in {x} \cup {} : y # NoDir /\ Parent(y) = d
  BY <1>1, <1>2, Emptied
<1>4. x \in Seq(STRING) /\ x # NoDir /\ Parent(x) = d
  BY <1>3, Paths
<1> QED BY <1>1, <1>4, ParentLen

LEMMA SweptSourcesStep ==
  Walks /\ Stages /\ Scope /\ SweptSources /\ [Next]_vars => SweptSources'
<1> SUFFICES ASSUME Walks, Stages, Scope, SweptSources, [Next]_vars,
                    pc' \in Cleaning \cup {"done"},
                    NEW d \in (SourceDirs \cap dirs') \ touched', _passes_guards(d), Empty(d)'
             PROVE  d \in left' \cup {at'}
  BY GuardsKept DEF SweptSources
<1> USE DEF Cleaning
<1>1. pc \in Cleaning \cup {"done"} /\ d \in dirs \ touched /\ Empty(d) => d \in left \cup {at}
  BY DEF SweptSources
<1>2. CASE Unlink
  <2>1. dirs' = dirs /\ FromTheStart \subseteq dirs /\ left' = { Parent(s) : s \in Sources }
    BY <1>2 DEF Unlink, Stages
  <2>2. PICK s \in Sources : d \in Above(s)
    BY DEF SourceDirs
  <2>3. PICK c \in Above(s) \cup {s} : c # NoDir /\ Parent(c) = d
    BY <2>2, NextBelow, Paths
  <2>4. c \notin dirs'
    BY <2>3 DEF Empty, In, NoDir
  <2>5. c \notin Above(s)
    BY <2>1, <2>4, FromTheStartHas DEF SourceDirs
  <2> QED BY <2>1, <2>3, <2>5
<1>3. CASE NextParent
  <2>1. d \in dirs \ touched /\ Empty(d) /\ pc = "prune" /\ at = NoDir
    BY <1>3 DEF NextParent, Empty
  <2>2. d \in left /\ d # NoDir
    BY <1>1, <2>1, GuardedIsDeep
  <2> QED BY <1>3, <2>2 DEF NextParent
<1>4. CASE Look
  <2>1. d \in dirs \ touched /\ Empty(d) /\ pc = "prune" /\ left' = left
    BY <1>4 DEF Look, Empty
  <2>2. CASE d = at
    BY <1>4, <2>1, <2>2 DEF Look, Climbs, Empty
  <2> QED BY <1>1, <2>1, <2>2
<1>5. CASE RemoveDir
  <2>1. /\ files' = files /\ dirs' = dirs \ {at} /\ at' = Parent(at)
        /\ pc = "rmdir" /\ left' = left /\ touched' = touched
    BY <1>5 DEF RemoveDir
  <2>2. CASE Empty(d)
    BY <1>1, <2>1, <2>2
  <2>3. CASE ~Empty(d)
    <3>1. files \ {} \subseteq files' /\ dirs \ {at} \subseteq dirs'
      BY <2>1
    <3>2. \E x \in {} \cup {at} : x # NoDir /\ Parent(x) = d
      BY <2>3, <3>1, Emptied
    <3> QED BY <2>1, <3>2
  <2> QED BY <2>2, <2>3
<1>6. CASE OthersMove
  <2>1. /\ dirs' = dirs /\ touched \subseteq touched' /\ pc' = pc /\ left' = left /\ at' = at
    BY <1>6 DEF OthersMove
  <2>2. Empty(d)
    BY <1>6, OthersEmpty
  <2> QED BY <1>1, <2>1, <2>2
<1>7. CASE ~(Unlink \/ NextParent \/ Look \/ RemoveDir \/ OthersMove)
  <2>1. UNCHANGED vars
    BY <1>7, PruneAssumption DEF Next, _on_apply_clicked, Answer, Copy, undo_batch, UndoEntry, UndoLook,
       UndoRemoveDir, Undone
  <2> QED BY <1>1, <2>1 DEF vars, Empty
<1> QED BY <1>2, <1>3, <1>4, <1>5, <1>6, <1>7

LEMMA SweptTargetsBefore ==
  Walks /\ Stages /\ Scope /\ SweptTargets /\ [Next]_vars /\ pc' \in BeforeUndo =>
    \A d \in dirs' \ (touched' \cup FromTheStart) : ~Empty(d)'
<1> SUFFICES ASSUME Walks, Stages, Scope, SweptTargets, [Next]_vars, pc' \in BeforeUndo,
                    NEW d \in dirs' \ (touched' \cup FromTheStart), Empty(d)'
             PROVE  FALSE
  OBVIOUS
<1> USE DEF Cleaning, BeforeUndo
<1>1. pc \in BeforeUndo
  BY DEF Next, vars, _on_apply_clicked, Answer, Copy, Unlink, NextParent, Look, RemoveDir,
         undo_batch, UndoEntry, UndoLook, UndoRemoveDir, Undone, OthersMove
<1>2. d \in dirs \ touched => ~Empty(d)
  BY <1>1 DEF SweptTargets
<1>3. CASE _on_apply_clicked
  BY <1>3 DEF _on_apply_clicked, Stages
<1>4. CASE Copy
  <2>1. PICK e \in todo : /\ files' = (files \ (IF e \in renames THEN {Source[e]} ELSE {})) \cup {Target[e]}
                          /\ dirs' = dirs \cup Above(Target[e])
    BY <1>4 DEF Copy
  <2>2. e \in Entry /\ touched' = touched
    BY <1>4 DEF Copy, Walks
  <2>3. CASE d \in dirs
    <3>1. files \ {Source[e]} \subseteq files' /\ dirs \ {} \subseteq dirs'
      BY <2>1
    <3>2. PICK x \in {Source[e]} \cup {} : x # NoDir /\ Parent(x) = d
      BY <1>2, <2>2, <2>3, <3>1, Emptied
    <3>3. d \in Above(Source[e])
      BY <2>2, <3>2, Paths, ParentLen
    <3> QED BY <2>2, <3>3, FromTheStartHas DEF SourceDirs, Sources
  <2>4. CASE d \notin dirs
    <3>1. d \in Above(Target[e])
      BY <2>1, <2>4
    <3>2. PICK c \in Above(Target[e]) \cup {Target[e]} : c # NoDir /\ Parent(c) = d
      BY <2>2, <3>1, NextBelow, Paths
    <3> QED BY <2>1, <3>2 DEF Empty, In, NoDir
  <2> QED BY <2>3, <2>4
<1>5. CASE Unlink
  <2>1. files \ Sources \subseteq files' /\ dirs \ {} \subseteq dirs' /\ UNCHANGED <<dirs, touched>>
    BY <1>5 DEF Unlink
  <2>2. PICK x \in Sources \cup {} : x # NoDir /\ Parent(x) = d
    BY <1>2, <2>1, Emptied
  <2>3. d \in Above(x)
    BY <2>2, Paths, ParentLen
  <2> QED BY <2>2, <2>3, FromTheStartHas DEF SourceDirs
<1>6. CASE RemoveDir
  <2>1. at \in SourceDirs /\ at # NoDir
    BY <1>6, GuardedIsDeep DEF RemoveDir, Scope, Walks
  <2>2. /\ files \ {} \subseteq files' /\ dirs \ {at} \subseteq dirs' /\ dirs' \subseteq dirs
        /\ touched' = touched
    BY <1>6 DEF RemoveDir
  <2>3. PICK x \in {} \cup {at} : x # NoDir /\ Parent(x) = d
    BY <1>2, <2>2, Emptied
  <2>4. d \in SourceDirs
    BY <2>1, <2>3, ParentStaysAbove, Paths DEF SourceDirs
  <2> QED BY <2>4, FromTheStartHas
<1>7. CASE OthersMove
  <2>1. dirs' = dirs /\ touched \subseteq touched'
    BY <1>7 DEF OthersMove
  <2> QED BY <1>2, <1>7, <2>1, OthersEmpty
<1>8. CASE ~(_on_apply_clicked \/ Copy \/ Unlink \/ RemoveDir \/ OthersMove)
  <2>1. UNCHANGED <<files, dirs, touched>>
    BY <1>8 DEF Next, vars, Answer, NextParent, Look, undo_batch, UndoEntry, UndoLook,
       UndoRemoveDir, Undone
  <2> QED BY <1>2, <2>1 DEF Empty
<1> QED BY <1>3, <1>4, <1>5, <1>6, <1>7, <1>8

LEMMA SweptTargetsAfter ==
  Walks /\ Stages /\ SweptTargets /\ [Next]_vars /\ pc' \in {"undo", "undoRmdir", "end"} =>
    \A d \in (TargetDirs \cap dirs') \ (touched' \cup FromTheStart) : Empty(d)' => d = at'
<1> SUFFICES ASSUME Walks, Stages, SweptTargets, [Next]_vars,
                    pc' \in {"undo", "undoRmdir", "end"},
                    NEW d \in (TargetDirs \cap dirs') \ (touched' \cup FromTheStart), Empty(d)'
             PROVE  d = at'
  OBVIOUS
<1> USE DEF Cleaning, BeforeUndo
<1>1. pc \in {"undo", "undoRmdir", "end"} /\ d \in dirs \ touched /\ Empty(d) => d = at
  BY DEF SweptTargets
<1>2. d # NoDir
  BY FromTheStartHas
<1>3. CASE undo_batch
  <2>1. pc \in {"done", "raised"} /\ todo = {} /\ touched' = touched
    BY <1>3 DEF undo_batch, Stages
  <2>2. d \in dirs
    <3>1. PICK e \in Entry : d \in Above(Target[e])
      BY DEF TargetDirs
    <3> QED BY <2>1, <3>1 DEF Stages
  <2>3. ~Empty(d)
    BY <2>1, <2>2 DEF SweptTargets
  <2>4. files \ {} \subseteq files' /\ dirs \ {} \subseteq dirs'
    BY <1>3 DEF undo_batch
  <2>5. \E x \in {} \cup {} : x # NoDir /\ Parent(x) = d
    BY <2>3, <2>4, Emptied
  <2> QED BY <2>5
<1>4. CASE UndoEntry
  <2>1. pc = "undo" /\ at = NoDir /\ UNCHANGED <<dirs, touched>>
    BY <1>4 DEF UndoEntry
  <2>2. ~Empty(d)
    BY <1>1, <1>2, <2>1
  <2>3. PICK e \in Entry : \/ files \ {Target[e]} \subseteq files' /\ at' = Parent(Target[e])
                           \/ UNCHANGED files
    BY <1>4 DEF UndoEntry, Walks
  <2>4. CASE files \ {Target[e]} \subseteq files' /\ at' = Parent(Target[e])
    <3>1. dirs \ {} \subseteq dirs'
      BY <2>1
    <3>2. PICK x \in {Target[e]} \cup {} : x # NoDir /\ Parent(x) = d
      BY <2>2, <2>4, <3>1, Emptied
    <3> QED BY <2>4, <3>2
  <2>5. CASE UNCHANGED files
    BY <2>1, <2>2, <2>5 DEF Empty
  <2> QED BY <2>3, <2>4, <2>5
<1>5. CASE UndoLook
  <2>1. d \in dirs \ touched /\ Empty(d) /\ pc = "undo"
    BY <1>5 DEF UndoLook, Empty
  <2>2. d = at
    BY <1>1, <2>1
  <2>3. ~UndoStops
    BY <2>1, <2>2, FromTheStartHas DEF UndoStops, Empty
  <2> QED BY <1>5, <2>2, <2>3 DEF UndoLook
<1>6. CASE UndoRemoveDir
  <2>1. pc = "undoRmdir" /\ UNCHANGED <<files, touched>>
    BY <1>6 DEF UndoRemoveDir
  <2>2. CASE at \in dirs /\ In(at, files, dirs) = {}
    <3>1. dirs' = dirs \ {at} /\ at' = Parent(at)
      BY <1>6, <2>2 DEF UndoRemoveDir
    <3>2. ~Empty(d)
      BY <1>1, <2>1, <3>1
    <3>3. files \ {} \subseteq files' /\ dirs \ {at} \subseteq dirs'
      BY <2>1, <3>1
    <3>4. PICK x \in {} \cup {at} : x # NoDir /\ Parent(x) = d
      BY <3>2, <3>3, Emptied
    <3> QED BY <3>1, <3>4
  <2>3. CASE ~(at \in dirs /\ In(at, files, dirs) = {})
    <3>1. dirs' = dirs
      BY <1>6, <2>3 DEF UndoRemoveDir
    <3>2. Empty(d)
      BY <2>1, <3>1 DEF Empty
    <3> QED BY <1>1, <2>1, <2>3, <3>1, <3>2 DEF Empty
  <2> QED BY <2>2, <2>3
<1>7. CASE Undone
  <2>1. pc = "undo" /\ UNCHANGED <<files, dirs, touched, at>>
    BY <1>7 DEF Undone
  <2> QED BY <1>1, <2>1 DEF Empty
<1>8. CASE OthersMove
  <2>1. dirs' = dirs /\ touched \subseteq touched' /\ pc' = pc /\ at' = at
    BY <1>8 DEF OthersMove
  <2>2. Empty(d)
    BY <1>8, OthersEmpty
  <2> QED BY <1>1, <2>1, <2>2
<1>9. CASE UNCHANGED vars
  BY <1>1, <1>9 DEF vars, Empty
<1>10. CASE _on_apply_clicked \/ Answer \/ Copy \/ Unlink \/ NextParent \/ Look \/ RemoveDir
  BY <1>10 DEF _on_apply_clicked, Answer, Copy, Unlink, NextParent, Look, RemoveDir
<1> QED BY <1>3, <1>4, <1>5, <1>6, <1>7, <1>8, <1>9, <1>10 DEF Next

LEMMA SweptInvariant == Spec => []Swept
<1>1. Init => Swept
  <2> SUFFICES ASSUME Init PROVE Swept
    OBVIOUS
  <2>1. pc = "idle" /\ dirs = FromTheStart /\ gone = {} /\ todo = {} /\ at = NoDir
    BY DEF Init
  <2>2. files \subseteq Seq(STRING)
    BY Paths DEF Init
  <2> QED
    BY <2>1, <2>2 DEF Swept, Walks, Stages, Scope, SweptSources, SweptTargets, Cleaning, BeforeUndo
<1>2. Swept /\ [Next]_vars => Swept'
  <2> SUFFICES ASSUME Swept, [Next]_vars PROVE Swept'
    OBVIOUS
  <2>1. Walks' /\ Stages' /\ Scope'
    BY WalksStep, StagesStep, ScopeStep DEF Swept
  <2>2. SweptSources'
    BY SweptSourcesStep DEF Swept
  <2>3. SweptTargets'
    BY SweptTargetsBefore, SweptTargetsAfter DEF Swept, SweptTargets
  <2> QED BY <2>1, <2>2, <2>3 DEF Swept
<1> QED BY <1>1, <1>2, PTL DEF Spec

\* However the sources are nested and in whatever order the parents come up,
\* the walks of cleanup_sources leave no empty directory that passes the guards
\* above any source, and those of undo_batch none that the copies made, but
\* where another program removed something.
THEOREM NoSkeletonIsLeft == Spec => []NoSkeleton
<1>1. Swept => NoSkeleton
  <2> SUFFICES ASSUME Swept PROVE NoSkeleton
    OBVIOUS
  <2>1. ASSUME pc = "done", NEW e \in Entry, NEW d \in (Above(Source[e]) \cap dirs) \ touched,
               _passes_guards(d)
        PROVE  In(d, files, dirs) # {}
    <3>1. d \in SourceDirs /\ d # NoDir
      BY <2>1, GuardedIsDeep DEF SourceDirs, Sources
    <3>2. left = {} /\ at = NoDir
      BY <2>1 DEF Swept, Scope, Walks
    <3> QED BY <2>1, <3>1, <3>2 DEF Swept, SweptSources, Empty
  <2>2. ASSUME pc = "end", NEW e \in Entry,
               NEW d \in (Above(Target[e]) \cap dirs) \ (touched \cup FromTheStart)
        PROVE  In(d, files, dirs) # {}
    <3>1. d \in TargetDirs /\ d # NoDir
      BY FromTheStartHas DEF TargetDirs
    <3>2. at = NoDir
      BY <2>2 DEF Swept, Walks
    <3> QED BY <2>2, <3>1, <3>2 DEF Swept, SweptTargets, Empty
  <2> QED BY <2>1, <2>2 DEF NoSkeleton
<1> QED BY <1>1, SweptInvariant, PTL

-----------------------------------------------------------------------------
(* deletion_preview                                                        *)

Chain(eligible) == UNION { Above(v) : v \in eligible }

\* What emptied[n] of the preview is, of emptied.
EmptiedAt(eligible, emptied, n) ==
  LET below == IF \E d \in Chain(eligible) : Len(d) > n THEN emptied[n + 1] ELSE {}
  IN below \cup { d \in Chain(eligible) \cap dirs : Len(d) = n /\ _passes_guards(d)
                    /\ In(d, files, dirs) \subseteq eligible \cup below }

\* The recursion has a solution: the levels of the largest set of directories
\* that hold nothing but what is eligible, or deeper in the set.
LEMMA PreviewDefined ==
  ASSUME NEW videos \in SUBSET Seq(STRING)
  PROVE  \E emptied :
           /\ emptied = [n \in Nat |-> EmptiedAt({ v \in videos : _passes_guards(v) }, emptied, n)]
           /\ deletion_preview(videos) =
                IF RootPasses THEN { v \in videos : _passes_guards(v) } \cup emptied[0] ELSE {}
<1> DEFINE elig == { v \in videos : _passes_guards(v) }
           C == Chain(elig) \cap dirs
           Holds(d, T) == /\ _passes_guards(d)
                          /\ In(d, files, dirs) \subseteq elig \cup { c \in T : Len(c) > Len(d) }
           E == UNION { T \in SUBSET C : \A d \in T : Holds(d, T) }
           f == [n \in Nat |-> { d \in E : Len(d) >= n }]
           Solves(g) == g = [n \in Nat |-> EmptiedAt(elig, g, n)]
<1>1. \A d \in Chain(elig) : Len(d) \in Nat
  BY AbovePath DEF Chain
<1>2. E \subseteq C /\ \A d \in E : Holds(d, E)
  <2> SUFFICES ASSUME NEW d \in E PROVE d \in C /\ Holds(d, E)
    OBVIOUS
  <2>1. PICK T \in SUBSET C : d \in T /\ \A e \in T : Holds(e, T)
    OBVIOUS
  <2>2. T \subseteq E
    BY <2>1
  <2> HIDE DEF E
  <2> QED BY <2>1, <2>2
<1>3. \A d \in C : Holds(d, E) => d \in E
  <2> SUFFICES ASSUME NEW d \in C, Holds(d, E) PROVE d \in E
    OBVIOUS
  <2> DEFINE T == E \cup {d}
  <2>1. \A e \in T : Holds(e, T)
    <3> HIDE DEF E, C
    <3> QED BY <1>2
  <2>2. T \in SUBSET C
    BY <1>2
  <2>3. d \in T
    OBVIOUS
  <2> HIDE DEF Holds, C, T
  <2> QED BY <2>1, <2>2, <2>3
<1> HIDE DEF E
<1>4. ASSUME NEW n \in Nat PROVE f[n] = EmptiedAt(elig, f, n)
  <2> DEFINE below == IF \E d \in Chain(elig) : Len(d) > n THEN f[n + 1] ELSE {}
             level == { d \in C : Len(d) = n /\ _passes_guards(d)
                                  /\ In(d, files, dirs) \subseteq elig \cup below }
  <2>1. below = { d \in E : Len(d) > n }
    <3>1. f[n + 1] = { d \in E : Len(d) >= n + 1 }
      OBVIOUS
    <3>2. \A d \in E : Len(d) \in Nat /\ d \in Chain(elig)
      BY <1>1, <1>2
    <3> HIDE DEF f
    <3> QED BY <3>1, <3>2
  <2>2. level = { d \in E : Len(d) = n }
    <3> HIDE DEF below
    <3>1. \A d \in C : Len(d) = n => (d \in E <=> _passes_guards(d) /\ In(d, files, dirs) \subseteq elig \cup below)
      BY <1>2, <1>3, <2>1
    <3> HIDE DEF C
    <3> QED BY <1>2, <3>1
  <2>3. f[n] = { d \in E : Len(d) >= n }
    OBVIOUS
  <2>4. EmptiedAt(elig, f, n) = below \cup level
    BY DEF EmptiedAt
  <2>5. \A d \in E : Len(d) \in Nat
    BY <1>1, <1>2
  <2> HIDE DEF f, below, level
  <2> QED BY <2>1, <2>2, <2>3, <2>4, <2>5
<1>5. Solves(f)
  <2>1. f = [n \in Nat |-> f[n]]
    OBVIOUS
  <2> HIDE DEF f
  <2> QED BY <1>4, <2>1
<1> DEFINE g == CHOOSE h : Solves(h)
<1>6. Solves(g)
  <2> HIDE DEF f, Solves
  <2> QED BY <1>5
<1>7. deletion_preview(videos) = IF RootPasses THEN elig \cup g[0] ELSE {}
  BY DEF deletion_preview, EmptiedAt, Chain
<1> HIDE DEF g
<1> QED BY <1>6, <1>7

LEMMA LeastNat ==
  ASSUME NEW T \in SUBSET Nat, T # {}
  PROVE  \E x \in T : \A y \in T : x <= y
<1> DEFINE R == { p \in Nat \X Nat : p[1] < p[2] }
<1>1. IsWellFoundedOn(R, Nat)
  BY NatLessThanWellFounded DEF OpToRel
<1>2. PICK x \in T : \A y \in T : <<y, x>> \notin R
  <2> HIDE DEF R
  <2> QED BY <1>1, WFMin
<1>3. ASSUME NEW y \in T PROVE x <= y
  <2>1. x \in Nat /\ y \in Nat /\ <<y, x>> \notin R
    BY <1>2
  <2> QED BY <2>1
<1> QED BY <1>3

\* Induction over the naturals, for a set.
LEMMA SetInduction ==
  ASSUME NEW P, 0 \in P, \A n \in Nat : n \in P => n + 1 \in P
  PROVE  Nat \subseteq P
<1> SUFFICES ASSUME Nat \ P # {} PROVE FALSE
  OBVIOUS
<1>1. PICK x \in Nat \ P : \A y \in Nat \ P : x <= y
  BY LeastNat
<1>2. x # 0 /\ x - 1 \in Nat /\ ~(x <= x - 1)
  OBVIOUS
<1>3. x - 1 \in P /\ (x - 1) + 1 = x
  BY <1>1, <1>2
<1> QED BY <1>1, <1>2, <1>3

LEMMA PreviewHas ==
  ASSUME Stages, pc = "idle", RootPasses
  PROVE  LET preview == deletion_preview(Listed) IN
         /\ Eligible \subseteq preview
         /\ \A d \in FromTheStart :
              /\ _passes_guards(d)
              /\ \E v \in Eligible : d \in Above(v)
              /\ In(d, files, dirs) \subseteq preview
              => d \in preview
<1> DEFINE preview == deletion_preview(Listed)
<1>1. PICK emptied : /\ emptied = [n \in Nat |-> EmptiedAt(Eligible, emptied, n)]
                     /\ preview = Eligible \cup emptied[0]
  BY PreviewDefined, Paths DEF Eligible
<1>2. dirs = FromTheStart /\ files \subseteq Seq(STRING)
  BY DEF Stages
<1> HIDE DEF preview
<1> DEFINE Below(n) == IF \E d \in Chain(Eligible) : Len(d) > n THEN emptied[n + 1] ELSE {}
           Level(n) == { d \in Chain(Eligible) \cap dirs : Len(d) = n /\ _passes_guards(d)
                           /\ In(d, files, dirs) \subseteq Eligible \cup Below(n) }
<1>3. \A n \in Nat : emptied[n] = Below(n) \cup Level(n)
  <2> SUFFICES ASSUME NEW n \in Nat PROVE emptied[n] = Below(n) \cup Level(n)
    OBVIOUS
  <2>1. emptied[n] = EmptiedAt(Eligible, emptied, n)
    BY <1>1
  <2> QED BY <2>1 DEF EmptiedAt
<1> SUFFICES ASSUME NEW d \in FromTheStart, _passes_guards(d), \E v \in Eligible : d \in Above(v),
                    In(d, files, dirs) \subseteq preview
             PROVE  d \in preview
  BY <1>1 DEF preview
<1>4. d \in Chain(Eligible) \cap dirs /\ Len(d) \in Nat
  BY <1>2, FromTheStartHas DEF Chain
<1>5. ASSUME NEW x \in In(d, files, dirs), x \notin Eligible PROVE x \in Below(Len(d))
  <2>1. x \in Seq(STRING) /\ x # NoDir /\ Parent(x) = d /\ x \in emptied[0]
    BY <1>1, <1>2, <1>5, FromTheStartHas DEF In, NoDir
  <2>2. Len(x) = Len(d) + 1
    BY <2>1, ParentLen
  <2> DEFINE P == { n \in Nat : n <= Len(d) => x \in emptied[n] }
  <2>3. \A n \in Nat : n < Len(x) /\ x \in emptied[n] => x \in Below(n)
    BY <1>3
  <2>4. \A n \in Nat : x \in Below(n) => x \in emptied[n + 1]
    OBVIOUS
  <2>5. 0 \in P
    BY <2>1
  <2>6. \A n \in Nat : n \in P => n + 1 \in P
    <3> HIDE DEF Below
    <3> QED BY <1>4, <2>2, <2>3, <2>4
  <2>7. Nat \subseteq P
    <3> HIDE DEF P
    <3> QED BY <2>5, <2>6, SetInduction
  <2>8. x \in emptied[Len(d)]
    BY <1>4, <2>7
  <2> QED BY <1>4, <2>2, <2>3, <2>8
<1>6. d \in emptied[Len(d)]
  <2>1. In(d, files, dirs) \subseteq Eligible \cup Below(Len(d))
    BY <1>5
  <2> HIDE DEF Below
  <2>2. d \in Level(Len(d))
    BY <1>4, <2>1
  <2> QED BY <1>3, <1>4, <2>2
<1>7. d \in emptied[0]
  <2> DEFINE P == { k \in Nat : k <= Len(d) => d \in emptied[Len(d) - k] }
  <2>1. 0 \in P
    BY <1>4, <1>6
  <2>2. \A n \in Nat : n < Len(d) /\ d \in emptied[n + 1] => d \in emptied[n]
    <3> SUFFICES ASSUME NEW n \in Nat, n < Len(d), d \in emptied[n + 1] PROVE d \in emptied[n]
      OBVIOUS
    <3>1. d \in Below(n)
      BY <1>4
    <3> HIDE DEF Below, Level
    <3> QED BY <1>3, <3>1
  <2>3. ASSUME NEW k \in Nat, k \in P, k + 1 <= Len(d) PROVE d \in emptied[Len(d) - (k + 1)]
    <3>1. PICK n \in Nat : n = Len(d) - (k + 1)
      BY <1>4, <2>3
    <3>2. n + 1 = Len(d) - k /\ n < Len(d)
      BY <1>4, <3>1
    <3>3. d \in emptied[Len(d) - k]
      BY <1>4, <2>3
    <3> QED BY <2>2, <3>1, <3>2, <3>3
  <2>4. \A k \in Nat : k \in P => k + 1 \in P
    BY <2>3
  <2>5. Nat \subseteq P
    <3> HIDE DEF P
    <3> QED BY <2>1, <2>4, SetInduction
  <2>6. Len(d) \in P /\ Len(d) - Len(d) = 0
    BY <1>4, <2>5
  <2> QED BY <1>4, <2>6
<1> QED BY <1>1, <1>7

-----------------------------------------------------------------------------
LEMMA ReachStep == Reach /\ [Next]_vars => Reach'
<1> SUFFICES ASSUME Reach, [Next]_vars PROVE Reach'
  OBVIOUS
<1>1. CASE OthersMove
  <2>1. PICK x \in Others \cup { Target[e] : e \in Entry } : touched' = touched \cup Above(x)
    BY <1>1 DEF OthersMove
  <2>2. \A d \in Above(x) : d # NoDir => Parent(d) \in Above(x)
    BY Paths, ParentStaysAbove
  <2> QED BY <2>1, <2>2 DEF Reach
<1>2. CASE touched' \in {touched, {}}
  BY <1>2 DEF Reach
<1>3. OthersMove \/ touched' \in {touched, {}}
  BY DEF Next, vars, _on_apply_clicked, Answer, Copy, Unlink, NextParent, Look, RemoveDir,
         undo_batch, UndoEntry, UndoLook, UndoRemoveDir, Undone
<1> QED BY <1>1, <1>2, <1>3

LEMMA ShownStep == Walks /\ Stages /\ Scope /\ Shown /\ [Next]_vars => Shown'
<1> SUFFICES ASSUME Walks, Stages, Scope, Shown, [Next]_vars,
                    pc' \in {"modal", "copy"} \cup Cleaning, RootPasses
             PROVE  /\ Eligible \subseteq shown'
                    /\ \A d \in FromTheStart \ touched' :
                         /\ _passes_guards(d)
                         /\ \E v \in Eligible : d \in Above(v)
                         /\ \A f \in files' \cup Sources : f # NoDir /\ Parent(f) = d => f \in Eligible
                         /\ \A c \in FromTheStart : c # NoDir /\ Parent(c) = d => c \in shown'
                         => d \in shown'
  BY GuardsKept DEF Shown, Eligible
<1> USE DEF Cleaning
<1>1. CASE _on_apply_clicked
  <2> DEFINE preview == deletion_preview(Listed)
  <2>1. pc = "idle" /\ shown' = (IF preview = {} THEN Listed ELSE preview) /\ files' = files
    BY <1>1 DEF _on_apply_clicked
  <2>2. dirs = FromTheStart
    BY <2>1 DEF Stages
  <2>3. /\ Eligible \subseteq preview
        /\ \A d \in FromTheStart :
             /\ _passes_guards(d)
             /\ \E v \in Eligible : d \in Above(v)
             /\ In(d, files, dirs) \subseteq preview
             => d \in preview
    BY <2>1, PreviewHas
  <2> HIDE DEF preview
  <2>4. Eligible \subseteq shown'
    BY <2>1, <2>3 DEF Eligible
  <2>5. ASSUME NEW d \in FromTheStart, _passes_guards(d), \E v \in Eligible : d \in Above(v),
               \A f \in files \cup Sources : f # NoDir /\ Parent(f) = d => f \in Eligible,
               \A c \in FromTheStart : c # NoDir /\ Parent(c) = d => c \in shown'
        PROVE  d \in shown'
    <3>1. shown' = preview
      BY <2>1, <2>3, <2>5
    <3>2. In(d, files, dirs) \subseteq preview
      BY <2>2, <2>3, <2>5, <3>1 DEF In, NoDir
    <3> QED BY <2>3, <2>5, <3>1, <3>2
  <2> QED BY <2>1, <2>4, <2>5
<1>2. CASE OthersMove
  <2>1. PICK x \in Others \cup { Target[e] : e \in Entry } :
          files \ {x} \subseteq files' /\ touched' = touched \cup Above(x)
    BY <1>2 DEF OthersMove
  <2>2. pc' = pc /\ shown' = shown
    BY <1>2 DEF OthersMove
  <2>3. ASSUME NEW d \in FromTheStart \ touched',
               \A f \in files' \cup Sources : f # NoDir /\ Parent(f) = d => f \in Eligible
        PROVE  \A f \in files \cup Sources : f # NoDir /\ Parent(f) = d => f \in Eligible
    <3>1. x # NoDir => Parent(x) # d
      BY <2>1, <2>3, Paths, ParentLen
    <3> QED BY <2>1, <2>3, <3>1
  <2> QED BY <2>1, <2>2, <2>3 DEF Shown
<1>3. CASE Copy
  <2>1. files \subseteq files' \cup Sources /\ pc = "copy" /\ shown' = shown /\ touched' = touched
    BY <1>3 DEF Copy, Walks, Sources
  <2> QED BY <2>1 DEF Shown
<1>4. CASE Unlink
  <2>1. files \subseteq files' \cup Sources /\ pc = "copy" /\ shown' = shown /\ touched' = touched
    BY <1>4 DEF Unlink
  <2> QED BY <2>1 DEF Shown
<1>5. CASE ~(_on_apply_clicked \/ OthersMove \/ Copy \/ Unlink)
  <2>1. UNCHANGED <<files, shown, touched>> /\ pc \in {"modal", "copy"} \cup Cleaning
    BY <1>5 DEF Next, vars, Answer, NextParent, Look, RemoveDir, undo_batch, UndoEntry, UndoLook,
       UndoRemoveDir, Undone
  <2> QED BY <2>1 DEF Shown
<1> QED BY <1>1, <1>2, <1>3, <1>4, <1>5

LEMMA ConsentStep == Consented /\ [Next]_vars => ConsentCovers'
<1> SUFFICES ASSUME Consented, [Next]_vars PROVE ConsentCovers'
  OBVIOUS
<1> USE DEF Cleaning
<1>1. gone \subseteq shown \cup Excused
  <2>1. gone \subseteq shown \cup Unlisted \cup (UNION { Above(s) : s \in Unlisted }) \cup touched
    BY DEF Consented, ConsentCovers, Unlisted
  <2>2. AboveUnlisted = UNION { Above(s) : s \in Unlisted }
    BY DEF AboveUnlisted
  <2>3. gone \subseteq shown \cup Unlisted \cup AboveUnlisted \cup touched
    BY <2>1, <2>2, Zenon
  <2> QED BY <2>3 DEF Excused
<1>2. SUFFICES gone' \subseteq shown' \cup Unlisted \cup AboveUnlisted \cup touched'
  <2>1. AboveUnlisted = UNION { Above(s) : s \in Unlisted }
    BY DEF AboveUnlisted
  <2>2. gone' \subseteq shown' \cup Unlisted \cup (UNION { Above(s) : s \in Unlisted }) \cup touched'
    BY <1>2, <2>1, Zenon
  <2> QED BY <2>2 DEF ConsentCovers, Unlisted
<1>3. CASE _on_apply_clicked
  BY <1>3 DEF _on_apply_clicked, Consented, Stages
<1>4. CASE Unlink
  <2>1. gone' = gone \/ (RootPasses /\ (\A e \in Entry : _passes_guards(Source[e])) /\ gone' \subseteq gone \cup Sources)
    BY <1>4 DEF Unlink
  <2>2. pc = "copy" /\ shown' = shown /\ touched' = touched
    BY <1>4 DEF Unlink
  <2>3. ASSUME RootPasses, \A e \in Entry : _passes_guards(Source[e])
        PROVE  Sources \subseteq shown \cup Unlisted
    <3>1. \A e \in Entry \ Sidecar : Source[e] \in Eligible
      BY <2>3, PruneAssumption DEF Eligible
    <3>2. Eligible \subseteq shown
      BY <2>2, <2>3 DEF Consented, Shown
    <3> QED BY <3>1, <3>2 DEF Sources, Unlisted
  <2> QED BY <1>1, <2>1, <2>2, <2>3 DEF Excused
<1>5. CASE RemoveDir
  <2>1. gone' \subseteq gone \cup {at} /\ shown' = shown /\ touched' = touched /\ pc = "rmdir"
    BY <1>5 DEF RemoveDir
  <2>2. CASE gone' = gone
    BY <1>1, <2>1, <2>2 DEF Excused
  <2>3. CASE gone' # gone
    <3>1. In(at, files, dirs) = {}
      BY <1>5, <2>3 DEF RemoveDir
    <3>2. _passes_guards(at) /\ at # NoDir /\ RootPasses /\ at \in SourceDirs
      BY <2>1, GuardedIsDeep DEF Consented, Walks, Scope
    <3> SUFFICES ASSUME at \notin Excused PROVE at \in shown
      BY <1>1, <2>1 DEF Excused
    <3>3. PICK e \in Entry : at \in Above(Source[e])
      BY <3>2 DEF SourceDirs, Sources
    <3>4. e \notin Sidecar
      BY <3>3 DEF Excused, AboveUnlisted, Unlisted
    <3>5. \A s \in Sources : s # NoDir /\ Parent(s) = at => s \in Eligible
      <4> SUFFICES ASSUME NEW g \in Entry, Source[g] # NoDir, Parent(Source[g]) = at
                   PROVE  Source[g] \in Eligible
        BY DEF Sources
      <4>1. at \in Above(Source[g])
        BY Paths, ParentLen
      <4>2. g \notin Sidecar
        BY <4>1 DEF Excused, AboveUnlisted, Unlisted
      <4> QED BY <2>1, <4>2, PruneAssumption DEF Consented, Scope, Eligible
    <3>6. Source[e] \in Eligible
      BY <2>1, <3>4, PruneAssumption DEF Consented, Scope, Eligible
    <3>7. \A f \in files \cup Sources : f # NoDir /\ Parent(f) = at => f \in Eligible
      BY <3>1, <3>5 DEF In, NoDir
    <3>8. ASSUME NEW c \in FromTheStart, c # NoDir, Parent(c) = at PROVE c \in shown
      <4>1. c \notin dirs
        BY <3>1, <3>8 DEF In, NoDir
      <4>2. c \in gone
        BY <2>1, <4>1 DEF Consented, Stages, BeforeUndo
      <4>3. c \notin Unlisted
        <5>1. at \in Above(c)
          BY <3>8, FromTheStartHas, ParentLen
        <5> QED BY <5>1 DEF Excused, AboveUnlisted
      <4>4. c \notin AboveUnlisted
        <5>1. \A s \in Unlisted : s \in Seq(STRING)
          BY Paths, PruneAssumption DEF Unlisted
        <5>2. \A s \in Unlisted : c \in Above(s) => at \in Above(s)
          BY <3>8, <5>1, ParentStaysAbove
        <5> QED BY <5>2 DEF Excused, AboveUnlisted
      <4>5. c \notin touched
        BY <3>8 DEF Consented, Reach, Excused
      <4> QED BY <1>1, <4>2, <4>3, <4>4, <4>5 DEF Excused
    <3>9. at \in FromTheStart \ touched
      BY <3>2, FromTheStartHas DEF Excused
    <3> QED BY <2>1, <3>2, <3>3, <3>6, <3>7, <3>8, <3>9 DEF Consented, Shown
  <2> QED BY <2>2, <2>3
<1>6. CASE ~(_on_apply_clicked \/ Unlink \/ RemoveDir)
  <2>1. UNCHANGED <<gone, shown>> /\ touched \subseteq touched'
    BY <1>6 DEF Next, vars, Answer, Copy, NextParent, Look, undo_batch, UndoEntry, UndoLook,
       UndoRemoveDir, Undone, OthersMove
  <2> QED BY <1>1, <2>1 DEF Excused
<1> QED BY <1>3, <1>4, <1>5, <1>6

LEMMA ConsentInvariant == Spec => []Consented
<1>1. Init => Consented
  <2> SUFFICES ASSUME Init PROVE Consented
    OBVIOUS
  <2>1. pc = "idle" /\ dirs = FromTheStart /\ gone = {} /\ todo = {} /\ at = NoDir /\ touched = {}
    BY DEF Init
  <2>2. files \subseteq Seq(STRING)
    BY Paths DEF Init
  <2> QED
    BY <2>1, <2>2 DEF Consented, Walks, Stages, Scope, Reach, Shown, ConsentCovers, Cleaning, BeforeUndo
<1>2. Consented /\ [Next]_vars => Consented'
  <2> SUFFICES ASSUME Consented, [Next]_vars PROVE Consented'
    OBVIOUS
  <2>1. Walks' /\ Stages' /\ Scope'
    BY WalksStep, StagesStep, ScopeStep DEF Consented
  <2>2. Reach' /\ Shown' /\ ConsentCovers'
    BY ReachStep, ShownStep, ConsentStep DEF Consented
  <2> QED BY <2>1, <2>2 DEF Consented
<1> QED BY <1>1, <1>2, PTL DEF Spec

\* What a cleanup deletes was in the modal's list, whatever the tree, the plan
\* and the nesting of the sources, but for sidecars, directories above them, and
\* directories other programs have changed since: deletion_preview finds every
\* directory that _prune_empty_chain will find empty.
THEOREM ConsentIsCovered == Spec => []ConsentCovers
<1>1. Consented => ConsentCovers
  BY DEF Consented
<1> QED BY <1>1, ConsentInvariant, PTL
=============================================================================
