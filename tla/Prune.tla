-------------------------------- MODULE Prune ---------------------------------
(***************************************************************************)
(* The directories of a batch with cleanup: the preview the user consents  *)
(* to (cleanup.deletion_preview, main_window._on_apply_clicked), what the  *)
(* copies create, what cleanup_sources unlinks and prunes, and what        *)
(* undo_batch prunes (undo.py), on a tree other programs write to.         *)
(*                                                                         *)
(* A path is the sequence of its components below the root of the file     *)
(* system.  Copies and unlinks succeed here; how they fail, and in which   *)
(* state a journal is then, is in Executor.  Links and paths that do not   *)
(* resolve are left out.                                                   *)
(***************************************************************************)
EXTENDS Naturals, SequencesExt

CONSTANTS
  Entry,        \* files of the plan, primaries and sidecars, in plan order: 1 .. n
  Sidecar,      \* those of them that are sidecars
  Source,       \* [Entry -> path]
  Target,       \* [Entry -> path]
  Listed,       \* the videos of the rows not skipped, in a plan or not
  Elsewhere,    \* directories there from the start, library roots among them
  InputRoots,   \* paths the user may drop last
  MoviesRoot,   \* the journal's library_root, whatever an entry's kind is
  Disallowed,   \* paths is_always_disallowed matches
  Others,       \* files that are not the program's
  MaxOthers     \* bound: how often one of them comes or goes

Parent(p) == Front(p)
is_strict_descendant(p, d) == IsStrictPrefix(d, p)
Above(p) == { SubSeq(p, 1, n) : n \in 0 .. Len(p) - 1 }
Sources == { Source[e] : e \in Entry }
FromTheStart == Elsewhere \cup UNION { Above(p) : p \in Listed \cup Sources \cup Others \cup Elsewhere }

ASSUME PruneAssumption ==
  /\ Entry = 1 .. Cardinality(Entry)
  /\ Sidecar \subseteq Entry
  /\ Source \in [Entry -> Seq(STRING)] /\ Target \in [Entry -> Seq(STRING)]
  /\ Listed \cup Elsewhere \cup Others \subseteq Seq(STRING)
  /\ { Source[e] : e \in Entry \ Sidecar } \subseteq Listed
  /\ MoviesRoot \in Elsewhere
  /\ InputRoots \subseteq FromTheStart
  /\ Others \cap (Listed \cup Sources \cup { Target[e] : e \in Entry }) = {}
  /\ MaxOthers \in Nat

VARIABLES
  files, dirs,  \* the tree
  inputRoot,    \* the path dropped last
  renames,      \* entries whose two ends share a file system
  pc,
  todo,         \* entries to be copied, or to be undone
  left,         \* parents cleanup has yet to start from
  at,           \* the directory a walk up has reached, NoDir outside a walk
  shown,        \* what the modal listed
  ran,          \* journal.cleanup_ran
  gone,         \* what the cleanup has deleted (history)
  touched,      \* directories other programs changed since the modal opened (history)
  others        \* bound

vars == <<files, dirs, inputRoot, renames, pc, todo, left, at, shown, ran, gone, touched, others>>
NoDir == <<>>

In(d, F, D) == { x \in F \cup D : x # <<>> /\ Parent(x) = d }
Deepest(P) == { p \in P : \A q \in P : Len(q) <= Len(p) }

-----------------------------------------------------------------------------
\* cleanup._check_guards.
has_at_least_three_components(p) == Len(p) >= 3
_passes_guards(p) ==
  is_strict_descendant(p, inputRoot) /\ has_at_least_three_components(p) /\ p \notin Disallowed

RootPasses == inputRoot \notin Disallowed /\ has_at_least_three_components(inputRoot)

\* Mutant: a parent counts as gone only for the files planned, not for its own parent.
deletion_preview_Flat(videos) ==
  LET eligible == { v \in videos : _passes_guards(v) }
  IN eligible \cup { d \in dirs : _passes_guards(d) /\ In(d, files, dirs) # {}
                                  /\ In(d, files, dirs) \subseteq eligible }

\* The eligible videos, and the directories that hold nothing but what is
\* already listed, from the deepest up.
deletion_preview(videos) ==
  LET eligible == { v \in videos : _passes_guards(v) }
      chain == UNION { Above(v) : v \in eligible }
      emptied[n \in Nat] ==     \* the directories of at least n components
        LET below == IF \E d \in chain : Len(d) > n THEN emptied[n + 1] ELSE {}
        IN below \cup { d \in chain \cap dirs : Len(d) = n /\ _passes_guards(d)
                          /\ In(d, files, dirs) \subseteq eligible \cup below }
  IN IF RootPasses THEN eligible \cup emptied[0] ELSE {}

-----------------------------------------------------------------------------
Init ==
  /\ \E there \in SUBSET Others : files = Listed \cup Sources \cup there
  /\ dirs = FromTheStart
  /\ inputRoot \in InputRoots
  /\ renames \in SUBSET Entry
  /\ pc = "idle"
  /\ todo = {} /\ left = {} /\ at = NoDir
  /\ shown = {} /\ ran = FALSE
  /\ gone = {} /\ touched = {} /\ others = 0

\* The modal lists the preview, or the videos if there is no preview.
_on_apply_clicked ==
  /\ pc = "idle"
  /\ shown' = LET preview == deletion_preview(Listed) IN IF preview = {} THEN Listed ELSE preview
  /\ touched' = {}
  /\ pc' = "modal"
  /\ UNCHANGED <<files, dirs, inputRoot, renames, todo, left, at, ran, gone, others>>

Answer ==
  /\ pc = "modal"
  /\ \/ pc' = "copy" /\ todo' = Entry
     \/ pc' = "idle" /\ UNCHANGED todo
  /\ UNCHANGED <<files, dirs, inputRoot, renames, left, at, shown, ran, gone, touched, others>>

\* _do_copy: the target's parents are made; a rename takes the source away.
Copy ==
  /\ pc = "copy"
  /\ \E e \in todo :
       LET taken == IF e \in renames THEN {Source[e]} ELSE {}
       IN /\ \A other \in todo : e <= other
          /\ files' = (files \ taken) \cup {Target[e]}
          /\ dirs' = dirs \cup Above(Target[e])
          /\ todo' = todo \ {e}
  /\ UNCHANGED <<inputRoot, renames, pc, left, at, shown, ran, gone, touched, others>>

\* cleanup_sources: all sources pass or nothing is deleted.
Unlink ==
  /\ pc = "copy"
  /\ todo = {}
  /\ IF RootPasses /\ \A e \in Entry : _passes_guards(Source[e])
     THEN /\ files' = files \ Sources
          /\ gone' = gone \cup (Sources \cap files)
          /\ left' = { Parent(s) : s \in Sources }
          /\ pc' = "prune"
     ELSE /\ pc' = "raised"
          /\ UNCHANGED <<files, gone, left>>
  /\ UNCHANGED <<dirs, inputRoot, renames, todo, at, shown, ran, touched, others>>

\* The parents, deepest first; when none is left the cleanup is recorded.
NextParent ==
  /\ pc = "prune" /\ at = NoDir
  /\ \/ \E d \in Deepest(left) : at' = d /\ left' = left \ {d} /\ UNCHANGED <<ran, pc>>
     \/ left = {} /\ ran' = TRUE /\ pc' = "done" /\ UNCHANGED <<at, left>>
  /\ UNCHANGED <<files, dirs, inputRoot, renames, todo, shown, gone, touched, others>>

\* _prune_empty_chain: the directory may go as far as can be seen.
Climbs == _passes_guards(at) /\ at \in dirs /\ In(at, files, dirs) = {}

Look ==
  /\ pc = "prune" /\ at # NoDir
  /\ IF Climbs THEN pc' = "rmdir" /\ UNCHANGED at ELSE at' = NoDir /\ UNCHANGED pc
  /\ UNCHANGED <<files, dirs, inputRoot, renames, todo, left, shown, ran, gone, touched, others>>

\* Mutant: the tree is removed, whatever has come into it since.
RemoveDir_Tree ==
  /\ pc = "rmdir"
  /\ dirs' = { d \in dirs : ~IsPrefix(at, d) }
  /\ files' = { f \in files : ~IsPrefix(at, f) }
  /\ gone' = gone \cup {at} /\ at' = Parent(at) /\ pc' = "prune"
  /\ UNCHANGED <<inputRoot, renames, todo, left, shown, ran, touched, others>>

\* Mutant: the walk ends with the directory of the file.
RemoveDir_Once ==
  /\ pc = "rmdir"
  /\ dirs' = dirs \ {at} /\ gone' = gone \cup {at} /\ at' = NoDir /\ pc' = "prune"
  /\ UNCHANGED <<files, inputRoot, renames, todo, left, shown, ran, touched, others>>

\* rmdir raises if something has come into the directory since: the exception
\* leaves cleanup_sources and the apply, and nothing says that it ran.
RemoveDir ==
  /\ pc = "rmdir"
  /\ IF at \in dirs /\ In(at, files, dirs) = {}
     THEN dirs' = dirs \ {at} /\ gone' = gone \cup {at} /\ at' = Parent(at) /\ pc' = "prune"
     ELSE pc' = "raised" /\ at' = NoDir /\ UNCHANGED <<dirs, gone>>
  /\ UNCHANGED <<files, inputRoot, renames, todo, left, shown, ran, touched, others>>

-----------------------------------------------------------------------------
ReviewDir == Append(MoviesRoot, "_undo")

undo_batch ==
  /\ pc \in {"done", "raised"}
  /\ todo' = Entry
  /\ dirs' = IF ran THEN dirs \cup {ReviewDir} \cup Above(ReviewDir) ELSE dirs
  /\ pc' = "undo"
  /\ UNCHANGED <<files, inputRoot, renames, left, at, shown, ran, gone, touched, others>>

\* The deepest target first: deleted, or moved to the review folder.
UndoEntry ==
  /\ pc = "undo" /\ at = NoDir
  /\ \E e \in { x \in todo : \A y \in todo : Len(Target[y]) <= Len(Target[x]) } :
       LET kept == IF ran THEN {Append(ReviewDir, Last(Target[e]))} ELSE {}
       IN /\ IF Target[e] \in files
             THEN files' = (files \ {Target[e]}) \cup kept /\ at' = Parent(Target[e])
             ELSE UNCHANGED <<files, at>>
          /\ todo' = todo \ {e}
  /\ UNCHANGED <<dirs, inputRoot, renames, pc, left, shown, ran, gone, touched, others>>

\* Mutant: the walk knows no library root.
UndoStops_Never == at \notin dirs \/ In(at, files, dirs) # {}

\* _prune_empty_dirs: up to the journal's library root, unless the target was
\* under the other one, where only a directory in use stops it.
UndoStops == at = MoviesRoot \/ at \notin dirs \/ In(at, files, dirs) # {}

UndoLook ==
  /\ pc = "undo" /\ at # NoDir
  /\ IF UndoStops THEN at' = NoDir /\ UNCHANGED pc ELSE pc' = "undoRmdir" /\ UNCHANGED at
  /\ UNCHANGED <<files, dirs, inputRoot, renames, todo, left, shown, ran, gone, touched, others>>

UndoRemoveDir ==
  /\ pc = "undoRmdir"
  /\ IF at \in dirs /\ In(at, files, dirs) = {}
     THEN dirs' = dirs \ {at} /\ at' = Parent(at)
     ELSE at' = NoDir /\ UNCHANGED dirs
  /\ pc' = "undo"
  /\ UNCHANGED <<files, inputRoot, renames, todo, left, shown, ran, gone, touched, others>>

Undone ==
  /\ pc = "undo" /\ at = NoDir /\ todo = {}
  /\ pc' = "end"
  /\ UNCHANGED <<files, dirs, inputRoot, renames, todo, left, at, shown, ran, gone, touched, others>>

-----------------------------------------------------------------------------
\* Another program adds or removes a file of its own, or removes a target.
OthersMove ==
  /\ others < MaxOthers
  /\ \E x \in Others \cup { Target[e] : e \in Entry } :
       /\ \/ x \in files /\ files' = files \ {x}
          \/ x \in Others \ files /\ Parent(x) \in dirs /\ files' = files \cup {x}
       /\ touched' = touched \cup Above(x)
  /\ others' = others + 1
  /\ UNCHANGED <<dirs, inputRoot, renames, pc, todo, left, at, shown, ran, gone>>

Next ==
  \/ _on_apply_clicked \/ Answer \/ Copy \/ Unlink \/ NextParent \/ Look \/ RemoveDir
  \/ undo_batch \/ UndoEntry \/ UndoLook \/ UndoRemoveDir \/ Undone
  \/ OthersMove

Spec == Init /\ [][Next]_vars

-----------------------------------------------------------------------------
\* The list the user consents to is whole: "a confirmation modal pops up
\* listing EVERY path scheduled for deletion (source files plus now-empty
\* parent directories ...)" (INVARIANTS.md:61).
ConsentIsWhole == touched = {} => gone \subseteq shown

\* What disappears was on the list the user consented to, except sidecars and
\* the directories that held them, which the preview does not know of, and the
\* directories other programs have changed since (main_window.py:506-512, copy.py:169).
ConsentCovers ==
  LET unlisted == { Source[e] : e \in Sidecar }
  IN gone \subseteq shown \cup unlisted \cup (UNION { Above(s) : s \in unlisted }) \cup touched

\* A file another program puts next to the sources or into the library while a
\* cleanup or an undo walks there is never deleted (cleanup.py:136-145, undo.py:91-103).
ArrivalsSurvive == [][others' = others => Others \cap files \subseteq files']_vars

\* A cleanup that ran to its end leaves no empty directory between a source
\* and the input root, and an undo none that was not there before the copies,
\* whatever order the files were taken in and whatever came in between
\* (cleanup.py:55-57, 95-103; undo.py:38-40, 64, 76-107).
NoSkeleton ==
  /\ pc = "done" => \A e \in Entry : \A d \in (Above(Source[e]) \cap dirs) \ touched :
                      _passes_guards(d) => In(d, files, dirs) # {}
  /\ pc = "end" => \A e \in Entry : \A d \in (Above(Target[e]) \cap dirs) \ (touched \cup FromTheStart) :
                      In(d, files, dirs) # {}

\* No walk of a cleanup or an undo removes the path dropped last or the
\* journal's library root (cleanup.py:84, 126-138, undo.py:86-92), provided the
\* library is not below the path dropped nor the other way round.  What a
\* cleanup deletes is below the path dropped, deep enough and not disallowed.
\* An undo has no such guards: the directories it takes from what was there
\* before are above its targets, and the other library root, what is above it
\* and disallowed paths may be among them.
RootsStay ==
  /\ {inputRoot, MoviesRoot} \subseteq dirs
  /\ \A p \in gone : _passes_guards(p)
  /\ \A d \in FromTheStart \ dirs : d \in gone \/ \E e \in Entry : d \in Above(Target[e])
=============================================================================
