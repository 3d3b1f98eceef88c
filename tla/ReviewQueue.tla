---------------------------- MODULE ReviewQueue -----------------------------
(***************************************************************************)
(* The terminal review screen (cli/review_tui.py).  Rows stream in from a  *)
(* loader thread while the user anchors, excludes, deletes and converts    *)
(* them; every convert and every apply is a worker thread of its own that  *)
(* moves files while the table stays live.  Threads touch the rows only by *)
(* call_from_thread, so a handler of the screen is one step; the disk they *)
(* share with nothing in between.                                          *)
(*                                                                         *)
(* The executor is taken down to what two runs at once can do to a file:   *)
(* journal, sidecars and guards are Executor's, and quitting, which may    *)
(* come at any time, is a crash there.  Overrides of an earlier session    *)
(* (--load) and the search box are left out, the filter stands for it.     *)
(***************************************************************************)
EXTENDS Lists, FiniteSetsExt, Functions

CONSTANTS
  MaxFiles,     \* files under the source, 1 .. MaxFiles as the parser yields them
  Tv,           \* those that are episodes,
  Group,        \* and the show of each
  Anchors,      \* candidates TMDB has
  Tvdb,         \* candidates TVDB has
  NoAnchor,
  Target,       \* paths in the library
  Dest,         \* where the planner puts a file under an anchor, or NoTarget
  NoTarget,
  Shown,        \* whether the table has that target: the screen needs a matched
                \* episode, the planner falls back to the numbers in the name
  SameFS,       \* targets on the file system of the source
  Workers,      \* bound: applies under way at once
  MaxKeys,      \* bound: keys that act on a row
  MaxFaults     \* bound: I/O errors

Files == 1 .. MaxFiles
Candidate == Anchors \cup Tvdb
Absent == 0
Partial == MaxFiles + 1

ASSUME QueueAssumption ==
  /\ MaxFiles \in Nat /\ MaxKeys \in Nat /\ MaxFaults \in Nat
  /\ Tv \subseteq Files /\ DOMAIN Group = Tv
  /\ NoAnchor \notin Candidate /\ NoTarget \notin Target
  /\ Dest \in [Files \X Candidate -> Target \cup {NoTarget}]
  /\ Shown \in [Files \X Candidate -> BOOLEAN]
  /\ \A p \in Files \X Candidate : Shown[p] => Dest[p] # NoTarget
  /\ SameFS \subseteq Target

VARIABLES
  rows,         \* plan_rows
  filter,       \* filter_mode
  table,        \* the table's keys: indices into rows
  cursor,       \* the row of the table that is highlighted
  roots,        \* whether both library roots are set
  pressed,      \* a RowSelected event on its way to its handler
  screen,       \* the modal that is open, if any
  overrides,    \* overrides_groups and overrides_rows
  saved,        \* what --load would read from the file at save_path
  unsaved,      \* the last save raised, and the user was told so (history)
  next,         \* the file the loader resolves next
  source,       \* files at their source
  library,      \* what is at each path of the library
  worker,       \* _apply_in_background's threads
  keys, faults, \* bounds
  deleted,      \* files the user deleted (history)
  risked,       \* files two applies, or two files' targets, have met at (history)
  hidden,       \* files sent to apply with no target in the table (history)
  late,         \* rows decided on after they left the list (history)
  settled       \* files whose anchor _mutate_anchor gave last (history)

disk == <<source, library>>
state == <<filter, roots>>
ui == <<rows, table, cursor>>
saving == <<overrides, saved, unsaved>>
history == <<deleted, risked, hidden, late, settled>>
vars == <<rows, filter, table, cursor, roots, pressed, screen, overrides, saved, unsaved, next,
          source, library, worker, keys, faults, deleted, risked, hidden, late, settled>>

NoScreen == [kind |-> "none", file |-> 0, ops |-> <<>>]
Idle == [step |-> "idle", ops |-> <<>>, todo |-> {}, failed |-> FALSE, unlink |-> {},
         converted |-> {}]

Listed == { rows[i].file : i \in DOMAIN rows }

-----------------------------------------------------------------------------
(* Rows and the table                                                      *)

\* PlanRow.target: what _compute_target has for the row.
HasTarget(row) == roots /\ row.anchor # NoAnchor /\ Shown[row.file, row.anchor]

\* visible_indices
Visible(rs, mode) ==
  Kept([i \in DOMAIN rs |-> i], { i \in DOMAIN rs : mode = "all" \/ rs[i].anchor = NoAnchor })

\* _refresh_table: the cursor keeps its place, not its row.
Refresh(rs, mode) ==
  /\ table' = Visible(rs, mode)
  /\ cursor' = IF table' = <<>> THEN 1 ELSE Min({cursor, Len(table')})

\* build_plan_from_pairs: files of one target are collisions and no ops.
PlanOf(rs) ==
  LET placed == { i \in DOMAIN rs :
                    rs[i].anchor # NoAnchor /\ Dest[rs[i].file, rs[i].anchor] # NoTarget }
      to(i)  == Dest[rs[i].file, rs[i].anchor]
      alone  == { i \in placed : \A j \in placed : to(j) = to(i) => j = i }
  IN [f \in { rs[i].file : i \in alone } |-> to(CHOOSE i \in alone : rs[i].file = f)]

-----------------------------------------------------------------------------
(* The overrides and their file                                            *)

NoOverrides == [groups |-> <<>>, rows |-> <<>>]

\* _persist_overrides: an OSError is told to the user and no more.  The file is
\* then as it was, as an earlier save of the same handler left it, or cut short
\* in place, which _preload_overrides reads as no overrides.
PersistOverrides(new, earlier) ==
  /\ overrides' = new
  /\ \/ saved' = new /\ unsaved' = FALSE /\ UNCHANGED faults
     \/ /\ faults < MaxFaults /\ faults' = faults + 1
        /\ saved' \in {saved, NoOverrides} \cup earlier
        /\ unsaved' = TRUE

\* _remove_row, for each of the files that has a row: its own override goes
\* with it, and the file is saved each time.
RemoveRows(files) ==
  LET gone == files \cap Listed
      without(fs) == [overrides EXCEPT !.rows = Restrict(@, DOMAIN @ \ fs)]
  IN /\ rows' = Kept(rows, { i \in DOMAIN rows : rows[i].file \notin files })
     /\ IF gone = {}
        THEN UNCHANGED <<saving, faults>>
        ELSE PersistOverrides(without(gone), { without(fs) : fs \in SUBSET gone \ {{}, gone} })
     /\ Refresh(rows', filter)

Init ==
  /\ rows = <<>> /\ table = <<>> /\ cursor = 1
  /\ filter = "all" /\ roots \in BOOLEAN
  /\ pressed = <<>> /\ screen = NoScreen
  /\ overrides = NoOverrides /\ saved = overrides /\ unsaved = FALSE
  /\ next = 1
  /\ source = Files /\ library = [t \in Target |-> Absent]
  /\ worker = [w \in Workers |-> Idle]
  /\ keys = 0 /\ faults = 0
  /\ deleted = {} /\ risked = {} /\ hidden = {} /\ late = {} /\ settled = {}

-----------------------------------------------------------------------------
(* The loader                                                              *)

\* _append_plan_row: the overrides made so far are not looked at.
AppendPlanRow ==
  /\ next <= MaxFiles
  /\ \E anchor \in Anchors \cup {NoAnchor} :
       rows' = Append(rows, [file |-> next, anchor |-> anchor])
  /\ Refresh(rows', filter)
  /\ next' = next + 1
  /\ UNCHANGED <<state, pressed, screen, saving, disk, worker, keys, faults, history>>

\* An exception ends the loader; the rows it has brought stay.
LoaderFails ==
  /\ next <= MaxFiles
  /\ faults < MaxFaults /\ faults' = faults + 1
  /\ next' = MaxFiles + 1
  /\ UNCHANGED <<ui, state, pressed, screen, saving, disk, worker, keys, history>>

-----------------------------------------------------------------------------
(* Keys                                                                    *)

\* A modal screen takes the application's keys; a key is typed once the one
\* before it has been handled.
Ready == screen = NoScreen /\ pressed = <<>>
Key == Ready /\ keys < MaxKeys /\ keys' = keys + 1
KeyOnRow == Key /\ table # <<>>

\* _cursor_row_index
CursorRow == rows[table[cursor]]

MoveCursor ==
  /\ Ready
  /\ \E c \in DOMAIN table : cursor' = c
  /\ UNCHANGED <<rows, table, state, pressed, screen, saving, next, disk, worker,
                 keys, faults, history>>

CycleFilter ==
  /\ Ready
  /\ filter' = IF filter = "all" THEN "unanchored" ELSE "all"
  /\ Refresh(rows, filter')
  /\ UNCHANGED <<rows, roots, pressed, screen, saving, next, disk, worker, keys,
                 faults, history>>

\* action_edit_targets, to set or clear a root.
EditTargets ==
  /\ Ready
  /\ roots' = ~roots
  /\ Refresh(rows, filter)
  /\ UNCHANGED <<rows, filter, pressed, screen, saving, next, disk, worker, keys,
                 faults, history>>

RemoveRow ==
  /\ KeyOnRow
  /\ RemoveRows({CursorRow.file})
  /\ UNCHANGED <<state, pressed, screen, next, disk, worker, history>>

DeleteSource ==
  /\ KeyOnRow
  /\ screen' = [NoScreen EXCEPT !.kind = "delete", !.file = CursorRow.file]
  /\ UNCHANGED <<ui, state, pressed, saving, next, disk, worker, faults, history>>

\* Enter posts the row's key; the handler looks it up when it gets there.
PressEnter ==
  /\ KeyOnRow
  /\ pressed' = <<table[cursor]>>
  /\ UNCHANGED <<ui, state, screen, saving, next, disk, worker, faults, history>>

OnRowSelected ==
  /\ pressed # <<>>
  /\ pressed' = <<>>
  /\ screen' = IF Head(pressed) \in DOMAIN rows
               THEN [NoScreen EXCEPT !.kind = "detail", !.file = rows[Head(pressed)].file]
               ELSE NoScreen
  /\ UNCHANGED <<ui, state, saving, next, disk, worker, keys, faults, history>>

-----------------------------------------------------------------------------
(* What the modals decide                                                  *)

Closes(kind) == screen.kind = kind /\ screen' = NoScreen

Cancel ==
  /\ screen # NoScreen /\ screen' = NoScreen
  /\ UNCHANGED <<ui, state, pressed, saving, next, disk, worker, keys, faults, history>>

\* A show's rows are anchored together, a movie's row alone; a row that has
\* left the list meanwhile is no row of the group.
Scope(f, wide) ==
  { i \in DOMAIN rows :
      \/ rows[i].file = f
      \/ wide /\ rows[i].file \in Tv /\ Group[rows[i].file] = Group[f] }

Anchored(indices, anchor) ==
  [i \in DOMAIN rows |-> IF i \in indices THEN [rows[i] EXCEPT !.anchor = anchor] ELSE rows[i]]

FilesAt(indices) == { rows[i].file : i \in indices }

\* Mutant: clearing an anchor leaves its entry.
Recorded_Keeps(map, key, anchor) ==
  IF anchor = NoAnchor THEN map
  ELSE [k \in DOMAIN map \cup {key} |-> IF k = key THEN anchor ELSE map[k]]

\* What an override map becomes: clearing scrubs the entry.
Recorded(map, key, anchor) ==
  IF anchor = NoAnchor
  THEN Restrict(map, DOMAIN map \ {key})
  ELSE [k \in DOMAIN map \cup {key} |-> IF k = key THEN anchor ELSE map[k]]

\* _mutate_anchor
MutateAnchor ==
  /\ Closes("detail")
  /\ LET f == screen.file IN
     \E anchor \in Anchors \cup {NoAnchor} :
       /\ rows' = Anchored(Scope(f, f \in Tv), anchor)
       /\ PersistOverrides(IF f \in Tv
                           THEN [overrides EXCEPT !.groups = Recorded(@, Group[f], anchor)]
                           ELSE [overrides EXCEPT !.rows = Recorded(@, f, anchor)], {})
       /\ late' = IF f \in Listed THEN late ELSE late \cup {f}
       /\ settled' = settled \cup FilesAt(Scope(f, f \in Tv))
  /\ Refresh(rows', filter)
  /\ UNCHANGED <<state, pressed, next, disk, worker, keys, deleted, risked, hidden>>

\* _apply_tvdb_switch: the overrides are left as they are.
ApplyTvdbSwitch ==
  /\ Closes("detail")
  /\ LET f == screen.file IN
     \E anchor \in Tvdb, wide \in BOOLEAN :
       /\ wide => f \in Tv
       /\ rows' = Anchored(Scope(f, wide), anchor)
       /\ settled' = settled \ FilesAt(Scope(f, wide))
  /\ Refresh(rows', filter)
  /\ UNCHANGED <<state, pressed, saving, next, disk, worker, keys, faults, deleted, risked,
                 hidden, late>>

RemoveFromDetail ==
  /\ Closes("detail")
  /\ RemoveRows({screen.file})
  /\ UNCHANGED <<state, pressed, next, disk, worker, keys, history>>

DeleteFromDetail ==
  /\ screen.kind = "detail"
  /\ screen' = IF screen.file \in Listed THEN [screen EXCEPT !.kind = "delete"] ELSE NoScreen
  /\ UNCHANGED <<ui, state, pressed, saving, next, disk, worker, keys, faults, history>>

\* Mutant: the row is the one under the cursor by now.
ConfirmDelete_AtCursor ==
  /\ Closes("delete")
  /\ IF screen.file \in source /\ table # <<>>
     THEN /\ source' = source \ {screen.file}
          /\ deleted' = deleted \cup {screen.file}
          /\ RemoveRows({CursorRow.file})
     ELSE UNCHANGED <<source, deleted, ui, saving, faults>>
  /\ UNCHANGED <<state, pressed, next, library, worker, keys, risked, hidden, late, settled>>

\* _prompt_delete_source's _after_confirm: a file that is gone is an error, a
\* row is looked for again.
ConfirmDelete ==
  /\ Closes("delete")
  /\ IF screen.file \in source
     THEN /\ source' = source \ {screen.file}
          /\ deleted' = deleted \cup {screen.file}
          /\ RemoveRows({screen.file})
     ELSE UNCHANGED <<source, deleted, ui, saving, faults>>
  /\ UNCHANGED <<state, pressed, next, library, worker, keys, risked, hidden, late, settled>>

-----------------------------------------------------------------------------
(* Applying                                                                *)

Busy(w) == worker[w].step # "idle"

\* Files that another apply has too, that are at a target given to another
\* file, or whose target is another's under way.
Meetings(ops) ==
  LET others == { worker[w].ops : w \in { w \in Workers : Busy(w) } } IN
  { f \in DOMAIN ops : \E o \in others : f \in DOMAIN o \/ ops[f] \in Range(o) }
  \cup { f \in Files : \E o \in others : f \in DOMAIN o /\ o[f] \in Range(ops) }
  \cup { f \in Files : \E g \in DOMAIN ops : g # f /\ library[ops[g]] = f }

\* _apply_in_background
ApplyInBackground(ops, converted) ==
  /\ \E w \in Workers :
       /\ ~Busy(w)
       /\ worker' = [worker EXCEPT ![w] = [Idle EXCEPT !.step = "op", !.ops = ops,
                                             !.todo = DOMAIN ops, !.converted = converted]]
  /\ risked' = risked \cup Meetings(ops)
  /\ hidden' = hidden \cup (DOMAIN ops \ converted)

ConvertRow ==
  /\ KeyOnRow
  /\ HasTarget(CursorRow)
  /\ ApplyInBackground(PlanOf(<<CursorRow>>), {CursorRow.file})
  /\ UNCHANGED <<ui, state, pressed, screen, saving, next, disk, faults, deleted, late, settled>>

\* action_apply: the plan is made before the question.
Apply ==
  /\ Key
  /\ \E i \in DOMAIN rows : HasTarget(rows[i])
  /\ PlanOf(rows) # <<>>
  /\ screen' = [NoScreen EXCEPT !.kind = "confirm", !.ops = PlanOf(rows)]
  /\ UNCHANGED <<ui, state, pressed, saving, next, disk, worker, faults, history>>

\* The rows to drop afterwards are taken after it, from what the table shows.
ConfirmApply ==
  /\ Closes("confirm")
  /\ ApplyInBackground(screen.ops,
       { rows[i].file : i \in { j \in DOMAIN rows : HasTarget(rows[j]) } })
  /\ UNCHANGED <<ui, state, pressed, saving, next, disk, keys, faults, deleted, late,
                 settled>>

-----------------------------------------------------------------------------
(* A worker: apply_plan_iter with cleanup                                  *)

Works(w, rec) ==
  /\ worker' = [worker EXCEPT ![w] = rec]
  /\ UNCHANGED <<ui, state, pressed, screen, saving, next, keys, history>>

\* A plan has its movies first, and cleanup goes in the order of the ops.
First(files) == Min(IF files \subseteq Tv THEN files ELSE files \ Tv)

Current(w) == First(worker[w].todo)
Behind(w, failed) ==
  [worker[w] EXCEPT !.step = "op", !.todo = @ \ {Current(w)}, !.failed = @ \/ failed]

\* Mutant: a source that is gone is not caught.
BeginOp_NoCatch(w) ==
  /\ worker[w].step = "op" /\ worker[w].todo # {}
  /\ LET f == Current(w) t == worker[w].ops[f] IN
     \/ /\ f \in source /\ t \in SameFS
        /\ source' = source \ {f}
        /\ library' = [library EXCEPT ![t] = f]
        /\ Works(w, Behind(w, FALSE))
     \/ /\ f \in source /\ t \notin SameFS
        /\ library' = [library EXCEPT ![t] = Partial]
        /\ Works(w, [worker[w] EXCEPT !.step = "copy"])
        /\ UNCHANGED source
  /\ UNCHANGED faults

\* _do_copy: a rename, or across file systems the start of a copy.
BeginOp(w) ==
  /\ worker[w].step = "op" /\ worker[w].todo # {}
  /\ LET f == Current(w) t == worker[w].ops[f] IN
     \/ /\ \/ f \notin source /\ UNCHANGED faults
           \/ f \in source /\ faults < MaxFaults /\ faults' = faults + 1
        /\ Works(w, Behind(w, TRUE))
        /\ UNCHANGED disk
     \/ /\ f \in source /\ t \in SameFS
        /\ source' = source \ {f}
        /\ library' = [library EXCEPT ![t] = f]
        /\ Works(w, Behind(w, FALSE))
        /\ UNCHANGED faults
     \/ /\ f \in source /\ t \notin SameFS
        /\ library' = [library EXCEPT ![t] = Partial]
        /\ Works(w, [worker[w] EXCEPT !.step = "copy"])
        /\ UNCHANGED <<source, faults>>

\* The copy is whole, unless another writes to the same path; it verifies if
\* the source is still there to compare with.
EndCopy(w) ==
  /\ worker[w].step = "copy"
  /\ LET f == Current(w)
         t == worker[w].ops[f]
         shared == \E v \in Workers \ {w} :
                     worker[v].step = "copy" /\ worker[v].ops[Current(v)] = t
     IN \/ /\ \E whole \in {TRUE, ~shared} :
                library' = [library EXCEPT ![t] = IF whole THEN f ELSE Partial]
           /\ Works(w, Behind(w, f \notin source))
           /\ UNCHANGED faults
        \/ /\ faults < MaxFaults /\ faults' = faults + 1
           /\ Works(w, Behind(w, TRUE))
           /\ UNCHANGED library
  /\ UNCHANGED source

\* Mutant: cleanup does not ask what failed.
Gate_Always(w) ==
  /\ worker[w].step = "op" /\ worker[w].todo = {}
  /\ Works(w, [worker[w] EXCEPT !.step = "clean", !.unlink = DOMAIN worker[w].ops])
  /\ UNCHANGED <<disk, faults>>

\* Cleanup runs if nothing failed.
Gate(w) ==
  /\ worker[w].step = "op" /\ worker[w].todo = {}
  /\ Works(w, IF worker[w].failed
              THEN [worker[w] EXCEPT !.step = "done"]
              ELSE [worker[w] EXCEPT !.step = "clean", !.unlink = DOMAIN worker[w].ops])
  /\ UNCHANGED <<disk, faults>>

\* cleanup_sources: what a rename has taken is passed over; an error ends it.
Unlink(w) ==
  /\ worker[w].step = "clean"
  /\ \/ /\ worker[w].unlink = {}
        /\ Works(w, [worker[w] EXCEPT !.step = "done"])
        /\ UNCHANGED <<source, faults>>
     \/ /\ worker[w].unlink # {}
        /\ source' = source \ {First(worker[w].unlink)}
        /\ Works(w, [worker[w] EXCEPT !.unlink = @ \ {First(@)}])
        /\ UNCHANGED faults
     \/ /\ worker[w].unlink # {}
        /\ faults < MaxFaults /\ faults' = faults + 1
        /\ Works(w, [worker[w] EXCEPT !.step = "done", !.failed = TRUE])
        /\ UNCHANGED source
  /\ UNCHANGED library

\* Mutant: rows are dropped only if all went well.
AfterApplyComplete_IfOk(w) ==
  /\ worker[w].step = "done"
  /\ RemoveRows(IF worker[w].failed THEN {} ELSE worker[w].converted \ source)
  /\ worker' = [worker EXCEPT ![w] = Idle]
  /\ UNCHANGED <<state, pressed, screen, next, disk, keys, history>>

\* _finish and _after_apply_complete, on the screen's thread: of the rows it
\* was given those are dropped whose source is gone.
AfterApplyComplete(w) ==
  /\ worker[w].step = "done"
  /\ RemoveRows(worker[w].converted \ source)
  /\ worker' = [worker EXCEPT ![w] = Idle]
  /\ UNCHANGED <<state, pressed, screen, next, disk, keys, history>>

-----------------------------------------------------------------------------
User ==
  \/ MoveCursor \/ CycleFilter \/ EditTargets \/ RemoveRow \/ DeleteSource \/ PressEnter
  \/ ConvertRow \/ Apply
  \/ Cancel \/ MutateAnchor \/ ApplyTvdbSwitch \/ RemoveFromDetail \/ DeleteFromDetail
  \/ ConfirmDelete \/ ConfirmApply

Applies(w) == BeginOp(w) \/ EndCopy(w) \/ Gate(w) \/ Unlink(w) \/ AfterApplyComplete(w)

Next ==
  \/ User
  \/ OnRowSelected
  \/ AppendPlanRow
  \/ LoaderFails
  \/ \E w \in Workers : Applies(w)

Spec == Init /\ [][Next]_vars

\* Threads run and the screen serves its events; the user owes nothing.
FairSpec ==
  /\ Spec
  /\ WF_vars(OnRowSelected) /\ WF_vars(AppendPlanRow)
  /\ \A w \in Workers : WF_vars(Applies(w))

-----------------------------------------------------------------------------
(* Properties                                                              *)

\* A row leaves the list only because its file is gone from the source or
\* because the user excluded that very row: whatever rows the workers removed
\* while a modal was open, nothing else goes (_prompt_delete_source,
\* _after_apply_complete: "Any row whose source survived gets to stay").
Excluded ==
  IF screen = NoScreen
  THEN IF table = <<>> THEN {} ELSE {CursorRow.file}
  ELSE IF screen.kind = "detail" THEN {screen.file} ELSE {}
RowsLeaveForCause ==
  [][\A f \in Listed : f \in Listed' \/ f \notin source' \/ f \in Excluded]_vars

\* Once no apply is under way, no row is left whose file has been moved away,
\* though two may have moved it and either may have failed; rows whose target
\* the table did not show are not looked for (_after_apply_complete).
NoGhosts ==
  (\A w \in Workers : ~Busy(w)) => \A f \in Listed : f \in source \/ f \in hidden

\* A file is at its source or whole in the library, unless the user deleted it
\* or two applies met at it: applies that meet nowhere lose nothing, whatever
\* fails and whatever the user does to the rows meanwhile.
NothingLost ==
  \A f \in Files : f \in source \cup deleted \cup risked \/ \E t \in Target : library[t] = f

\* What overrides say of a file: its own entry, or its show's.
AnchorIn(overridden, f) ==
  IF f \in DOMAIN overridden.rows THEN overridden.rows[f]
  ELSE IF f \in Tv /\ Group[f] \in DOMAIN overridden.groups THEN overridden.groups[Group[f]]
  ELSE NoAnchor

\* Unless the last save failed before the user's eyes, a row shows what the
\* file at save_path holds for it, if its anchor is the one the user gave it
\* last and no TVDB switch came after, which saves nothing: through the rows that
\* stream in, are removed, or are decided on by the whole show.  No row that
\* left the list keeps an entry, but those decided on after they had left
\* (_remove_row: "so the JSON stays in sync").
DecisionsAreSaved ==
  ~unsaved =>
    /\ \A i \in DOMAIN rows :
         rows[i].file \in settled => rows[i].anchor = AnchorIn(saved, rows[i].file)
    /\ DOMAIN saved.rows \subseteq Listed \cup late

\* Every apply ends and gives its rows back to the list.
AppliesEnd == \A w \in Workers : Busy(w) ~> ~Busy(w)
=============================================================================
