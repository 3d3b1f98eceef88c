----------------------------- MODULE ShellRows ------------------------------
(***************************************************************************)
(* The rows of the Windows shell (MainWindow.xaml.cs) and the engine's     *)
(* methods that compute them (daemon/methods.py, orchestrator.py).         *)
(*                                                                         *)
(* The engine keeps no rows: each handler sends the list it holds, awaits, *)
(* and puts the list it gets back in place of the window's.  Handlers are  *)
(* async and run on one thread, so they interleave where they await; a     *)
(* modal keeps new handlers from starting, not awaiting ones from going on *)
(* under it, or from opening a modal on top of it.                         *)
(*                                                                         *)
(* Requests are answered in order, as the engine serves one at a time; how *)
(* they travel and how an engine dies is EngineBridge.  Of an apply only   *)
(* the plan it starts with is here.  Files of a drop are distinct.  A row  *)
(* carries one override for the manual fields.                             *)
(***************************************************************************)
EXTENDS Naturals, Sequences, FiniteSetsExt, Functions

CONSTANTS
  MaxFiles,     \* files that can be dropped, 1 .. MaxFiles in the order of the list
  Group,        \* the show a file belongs to, or the movie it is
  Shows,        \* the groups that are shows
  Episode,      \* what of the group it is: its target is that under its candidate
  Cand,         \* candidates a search can return
  NoCand,       \* an unresolved row's candidate
  Drops,        \* sets of files the user drops
  Slots,        \* bound: handlers under way at once
  MaxClicks,    \* bound: handlers started
  MaxFaults     \* bound: error replies and engine deaths

Files == 1 .. MaxFiles
GroupKey == { Group[f] : f \in Files }

ASSUME ShellAssumption ==
  /\ MaxFiles \in Nat /\ MaxClicks \in Nat /\ MaxFaults \in Nat
  /\ DOMAIN Group = Files /\ DOMAIN Episode = Files
  /\ Shows \subseteq GroupKey
  /\ NoCand \notin Cand
  /\ Drops \subseteq (SUBSET Files) \ {{}}

VARIABLES
  rows,         \* _currentRows: from the files listed to their rows
  groups,       \* _currentGroups
  cleanup,      \* _currentSettings.CleanupEnabled
  engine,       \* _engineStarted, and whether the engine has died since
  handler,      \* the handler in each slot
  modals,       \* the open modals, by slot, the topmost first
  wire,         \* slots whose requests the engine has yet to answer, in order
  lost,         \* slots whose requests died with their engine
  crashed,      \* an exception no handler catches ended the shell
  clicks, faults,  \* bounds
  meant         \* what the user has made of the rows (history)

vars == <<rows, groups, cleanup, engine, handler, modals, wire, lost, crashed,
          clicks, faults, meant>>

Row == [skip : BOOLEAN, manual : BOOLEAN, cand : Cand \cup {NoCand}]
\* EditRowOverrides: fields that are null are not sent.
Edits == UNION { { Restrict(row, F) : row \in Row } : F \in SUBSET {"skip", "manual", "cand"} }

Waiting == {"await", "saving", "orphan", "find", "build", "skip", "rebuild", "stream"}
Asking == {"dialog", "collisions", "confirm"}
\* A handler: the row it is about, the rows it edits, those whose requests are
\* to come, the overrides it sends, the row as it was when activated, the
\* window's rows when it read them and those with the edits answered so far,
\* what the user keeps of the colliding files, whether the rows changed while
\* the user chose (history), the files of its plan, and its cleanup argument.
Idle == [kind |-> "none", step |-> "idle", file |-> 0, files |-> {}, todo |-> {},
         edit |-> <<>>, seen |-> <<>>, base |-> <<>>, work |-> <<>>,
         winners |-> {}, drifted |-> FALSE, plan |-> {}, cleanup |-> FALSE]

-----------------------------------------------------------------------------
(* The engine's methods                                                    *)

\* edit_row, for each of the files: what is sent replaces what was there.
Edited(rs, files, edit) ==
  [f \in DOMAIN rs |->
     IF f \in files THEN [k \in DOMAIN rs[f] |-> IF k \in DOMAIN edit THEN edit[k] ELSE rs[f][k]]
                    ELSE rs[f]]

\* resolve_rows: one candidate, or none, for all the rows of a group.
Resolved(files, found) ==
  [f \in files |-> [skip |-> FALSE, manual |-> FALSE, cand |-> found[Group[f]]]]

\* hydrate_group_with_anchor.
Anchored(rs, g, c) ==
  Edited(rs, { f \in DOMAIN rs : Group[f] = g }, [cand |-> c])

\* build_plan: overrides are not consulted; files whose target another has are
\* in the plan's collisions and not among its ops.
Placed(rs) == { f \in DOMAIN rs : ~rs[f].skip /\ rs[f].cand # NoCand }
SameTarget(rs, f, g) == rs[f].cand = rs[g].cand /\ Episode[f] = Episode[g]
Rivals(rs, f) == { g \in Placed(rs) : SameTarget(rs, f, g) }
Colliding(rs) == { f \in Placed(rs) : Rivals(rs, f) # {f} }
Plan(rs) == Placed(rs) \ Colliding(rs)

-----------------------------------------------------------------------------
Init ==
  /\ rows = <<>> /\ meant = <<>> /\ groups = {}
  /\ cleanup \in BOOLEAN
  /\ engine = "stopped"
  /\ handler = [h \in Slots |-> Idle]
  /\ modals = <<>> /\ wire = <<>> /\ lost = {}
  /\ crashed = FALSE
  /\ clicks = 0 /\ faults = 0

-----------------------------------------------------------------------------
(* How a handler goes on                                                   *)

Put(h, rec) == handler' = [handler EXCEPT ![h] = rec]
Window == <<rows, groups, cleanup, meant>>

\* The answer to h's request is next.
Answered(h, step) == ~crashed /\ wire # <<>> /\ Head(wire) = h /\ handler[h].step = step

\* h is the topmost modal.
OnTop(h, step) == ~crashed /\ modals # <<>> /\ Head(modals) = h /\ handler[h].step = step

\* A request from under a modal just closed: without an engine it throws what
\* no handler catches.
Ask(h, rec) ==
  IF engine = "up"
  THEN Put(h, rec) /\ wire' = Append(wire, h) /\ UNCHANGED crashed
  ELSE crashed' = TRUE /\ UNCHANGED <<handler, wire>>

\* The list a handler brings back was made of another than the window's, or
\* the pane's fields of another row than the list's.
Stale(rec) ==
  \/ rec.base # rows
  \/ rec.kind = "edit" /\ rec.seen # rec.base[rec.file]

\* What the user changed: the pane sends every field it shows.
Intent(rec) ==
  IF rec.kind = "edit"
  THEN Restrict(rec.edit, { k \in DOMAIN rec.edit : rec.edit[k] # rec.seen[k] })
  ELSE rec.edit

\* _currentRows = result.Rows
Install(rec, new) ==
  /\ rows' = new
  /\ meant' = IF Stale(rec) THEN new ELSE Edited(meant, rec.files, Intent(rec))
  /\ UNCHANGED <<groups, cleanup>>

\* What each handler does once EnsureEngineStartedAsync has returned.
Enter(h, rec) ==
  CASE rec.kind \in {"edit", "anchor", "imdb", "override"} ->
         /\ Put(h, [rec EXCEPT !.step = "dialog",
                               !.base = IF rec.kind = "edit" THEN rows ELSE <<>>])
         /\ modals' = <<h>> \o modals
         /\ UNCHANGED wire
    [] rec.kind \in {"load", "settings"} ->
         /\ Put(h, [rec EXCEPT !.step = "await"])
         /\ wire' = Append(wire, h)
         /\ UNCHANGED modals
    [] rec.kind = "toggle" ->
         /\ Put(h, [rec EXCEPT !.step = "await", !.base = rows, !.work = rows])
         /\ wire' = Append(wire, h)
         /\ UNCHANGED modals
    [] rec.kind = "apply" ->
         /\ Put(h, [rec EXCEPT !.step = "build", !.base = rows])
         /\ wire' = Append(wire, h)
         /\ UNCHANGED modals

\* A running engine is not awaited.
Ensure(h, rec) ==
  IF engine = "up"
  THEN Enter(h, rec)
  ELSE Put(h, [rec EXCEPT !.step = "starting"]) /\ UNCHANGED <<modals, wire>>

\* StartAsync returns; what becomes of a failed start is EngineBridge's.
Started(h) ==
  /\ ~crashed
  /\ handler[h].step = "starting"
  /\ engine' = "up"
  /\ Enter(h, handler[h])
  /\ UNCHANGED <<Window, lost, crashed, clicks, faults>>

-----------------------------------------------------------------------------
(* Handlers that load and edit rows                                        *)

\* The main window takes clicks only while no modal is open.
Click(h, rec) ==
  /\ ~crashed
  /\ modals = <<>>
  /\ handler[h].kind = "none"
  /\ clicks < MaxClicks
  /\ clicks' = clicks + 1
  /\ Ensure(h, rec)
  /\ UNCHANGED <<Window, engine, lost, crashed, faults>>

OnPathsDropped(h, paths) ==
  Click(h, [Idle EXCEPT !.kind = "load", !.files = paths])

OnPreviewClicked(h) ==
  /\ DOMAIN rows # {}
  /\ Click(h, [Idle EXCEPT !.kind = "load", !.files = DOMAIN rows])

OnSourceRowActivated(h, f) ==
  Click(h, [Idle EXCEPT !.kind = "edit", !.file = f, !.files = {f}, !.seen = rows[f]])

\* The menu offers the picker for a show no row of which has a candidate; rows
\* loaded under an open menu leave nothing selected.
OnGroupAnchorRequested(h, f) ==
  /\ Group[f] \in groups \cap Shows
  /\ \A g \in DOMAIN rows : Group[g] = Group[f] => rows[g].cand = NoCand
  /\ Click(h, [Idle EXCEPT !.kind = "anchor", !.file = f])

OnSetImdbRequested(h, f) ==
  Click(h, [Idle EXCEPT !.kind = "imdb", !.file = f, !.files = {f}, !.todo = {f}])

OnOverrideRequested(h, selected) ==
  Click(h, [Idle EXCEPT !.kind = "override", !.files = selected, !.todo = selected,
                        !.edit = [manual |-> TRUE]])

\* If every row selected is skipped unskip all, otherwise skip all.
OnToggleSkipRequested(h, selected) ==
  Click(h, [Idle EXCEPT !.kind = "toggle", !.files = selected, !.todo = selected,
                        !.edit = [skip |-> \E f \in selected : ~rows[f].skip]])

\* RunParseAndResolveAsync: rows and groups are replaced.
Loaded(h) ==
  /\ Answered(h, "await") /\ handler[h].kind = "load"
  /\ \E found \in [GroupKey -> Cand \cup {NoCand}] :
       rows' = Resolved(handler[h].files, found)
  /\ groups' = { Group[f] : f \in handler[h].files }
  /\ meant' = rows'
  /\ Put(h, Idle)
  /\ wire' = Tail(wire)
  /\ UNCHANGED <<cleanup, engine, modals, lost, crashed, clicks, faults>>

\* EditPane.OnSaveClick sends the rows the pane was opened with; the manual box
\* and the candidate only if there is one.  A second Save before the answer
\* ends as a Cancel then does.
Save(h) ==
  /\ OnTop(h, "dialog") /\ handler[h].kind = "edit"
  /\ \E box \in Row :
       LET sent == {"skip"} \cup (IF box.manual THEN {"manual"} ELSE {})
                            \cup (IF box.cand # NoCand THEN {"cand"} ELSE {})
       IN Ask(h, [handler[h] EXCEPT !.step = "saving", !.edit = Restrict(box, sent)])
  /\ UNCHANGED <<Window, engine, modals, lost, clicks, faults>>

\* The answer closes the pane; edit_row has an error for a row it does not find.
Saved(h) ==
  /\ Answered(h, "saving")
  /\ LET rec == handler[h] IN
     Put(h, IF rec.file \in DOMAIN rec.base
            THEN [rec EXCEPT !.step = "closing", !.work = Edited(rec.base, rec.files, rec.edit)]
            ELSE [rec EXCEPT !.step = "dialog", !.edit = <<>>])
  /\ wire' = Tail(wire)
  /\ UNCHANGED <<Window, engine, modals, lost, crashed, clicks, faults>>

\* ShowDialog returns true to OnSourceRowActivated, once no modal is above.
PaneCloses(h) ==
  /\ OnTop(h, "closing")
  /\ Install(handler[h], handler[h].work)
  /\ Put(h, Idle)
  /\ modals' = Tail(modals)
  /\ UNCHANGED <<engine, wire, lost, crashed, clicks, faults>>

\* DialogResult set on a pane already closed throws.
OrphanSaved(h) ==
  /\ Answered(h, "orphan")
  /\ crashed' = (handler[h].file \in DOMAIN handler[h].base)
  /\ Put(h, Idle)
  /\ wire' = Tail(wire)
  /\ UNCHANGED <<Window, engine, modals, lost, clicks, faults>>

\* Cancel, or the window's close button, in any modal.
Cancel(h) ==
  /\ \/ \E step \in Asking : OnTop(h, step) /\ Put(h, Idle)
     \/ OnTop(h, "saving") /\ Put(h, [handler[h] EXCEPT !.step = "orphan"])
  /\ modals' = Tail(modals)
  /\ UNCHANGED <<Window, engine, wire, lost, crashed, clicks, faults>>

\* ShowAnchorPicker returns: the rows are read after it.
Pick(h) ==
  /\ OnTop(h, "dialog") /\ handler[h].kind = "anchor"
  /\ \E c \in Cand :
       Ask(h, [handler[h] EXCEPT !.step = "await", !.base = rows, !.edit = [cand |-> c],
                 !.files = { f \in DOMAIN rows : Group[f] = Group[handler[h].file] }])
  /\ modals' = Tail(modals)
  /\ UNCHANGED <<Window, engine, lost, clicks, faults>>

GroupAnchored(h) ==
  /\ Answered(h, "await") /\ handler[h].kind = "anchor"
  /\ LET rec == handler[h] IN
     Install(rec, Anchored(rec.base, Group[rec.file], rec.edit.cand))
  /\ Put(h, Idle)
  /\ wire' = Tail(wire)
  /\ UNCHANGED <<engine, modals, lost, crashed, clicks, faults>>

\* SingleValuePrompt returns a value.  An id is looked up before the rows are
\* read; an override is sent for one row after another.
Enters(h) ==
  /\ OnTop(h, "dialog") /\ handler[h].kind \in {"imdb", "override"}
  /\ Ask(h, IF handler[h].kind = "imdb"
            THEN [handler[h] EXCEPT !.step = "find"]
            ELSE [handler[h] EXCEPT !.step = "await", !.base = rows, !.work = rows])
  /\ modals' = Tail(modals)
  /\ UNCHANGED <<Window, engine, lost, clicks, faults>>

\* find_by_imdb always has a candidate.
Found(h) ==
  /\ Answered(h, "find")
  /\ \E c \in Cand :
       Put(h, [handler[h] EXCEPT !.step = "await", !.base = rows, !.work = rows,
                                 !.edit = [cand |-> c]])
  /\ wire' = Append(Tail(wire), h)
  /\ UNCHANGED <<Window, engine, modals, lost, crashed, clicks, faults>>

\* Mutant: each request is sent with the rows the loop started from.
RowEdited_FromBase(h) ==
  /\ Answered(h, "await") /\ handler[h].kind \in {"imdb", "override", "toggle"}
  /\ LET rec  == handler[h]
         next == Min(rec.todo)
         work == Edited(rec.base, {next}, rec.edit)
     IN IF rec.todo = {next}
        THEN Install(rec, work) /\ Put(h, Idle) /\ wire' = Tail(wire)
        ELSE /\ Put(h, [rec EXCEPT !.work = work, !.todo = @ \ {next}])
             /\ wire' = Append(Tail(wire), h) /\ UNCHANGED Window
  /\ UNCHANGED <<engine, modals, lost, crashed, clicks, faults>>

\* The loop of edit_row requests goes on over the rows it got back, and
\* installs the last of them.
RowEdited(h) ==
  /\ Answered(h, "await") /\ handler[h].kind \in {"imdb", "override", "toggle"}
  /\ LET rec  == handler[h]
         next == Min(rec.todo)
         work == Edited(rec.work, {next}, rec.edit)
     IN \/ /\ next \notin DOMAIN rec.work
           /\ Put(h, Idle) /\ wire' = Tail(wire) /\ UNCHANGED Window
        \/ /\ next \in DOMAIN rec.work /\ rec.todo = {next}
           /\ Install(rec, work)
           /\ Put(h, Idle) /\ wire' = Tail(wire)
        \/ /\ next \in DOMAIN rec.work /\ rec.todo # {next}
           /\ Put(h, [rec EXCEPT !.work = work, !.todo = @ \ {next}])
           /\ wire' = Append(Tail(wire), h) /\ UNCHANGED Window
  /\ UNCHANGED <<engine, modals, lost, crashed, clicks, faults>>

-----------------------------------------------------------------------------
(* Settings                                                                *)

\* The dialog opens before the engine is looked at.
OnSettingsClicked(h) ==
  /\ ~crashed /\ modals = <<>> /\ handler[h].kind = "none"
  /\ clicks < MaxClicks /\ clicks' = clicks + 1
  /\ Put(h, [Idle EXCEPT !.kind = "settings", !.step = "dialog"])
  /\ modals' = <<h>>
  /\ UNCHANGED <<Window, engine, wire, lost, crashed, faults>>

SettingsEntered(h) ==
  /\ OnTop(h, "dialog") /\ handler[h].kind = "settings"
  /\ \E on \in BOOLEAN :
       LET rec == [handler[h] EXCEPT !.cleanup = on] IN
       IF engine = "up"
       THEN Put(h, [rec EXCEPT !.step = "await"]) /\ wire' = Append(wire, h)
       ELSE Put(h, [rec EXCEPT !.step = "starting"]) /\ UNCHANGED wire
  /\ modals' = Tail(modals)
  /\ UNCHANGED <<Window, engine, lost, crashed, clicks, faults>>

SettingsSaved(h) ==
  /\ Answered(h, "await") /\ handler[h].kind = "settings"
  /\ cleanup' = handler[h].cleanup
  /\ Put(h, Idle)
  /\ wire' = Tail(wire)
  /\ UNCHANGED <<rows, groups, meant, engine, modals, lost, crashed, clicks, faults>>

-----------------------------------------------------------------------------
(* Applying: build_plan, the review of collisions, cleanup's confirmation  *)

OnApplyClicked(h) ==
  /\ DOMAIN rows # {}
  /\ Click(h, [Idle EXCEPT !.kind = "apply"])

\* The plan is ready: it is confirmed if cleanup is on, or goes to apply_plan.
Proceed(h, rec) ==
  LET ready == [rec EXCEPT !.plan = Plan(rec.base), !.cleanup = cleanup] IN
  IF cleanup
  THEN /\ Put(h, [ready EXCEPT !.step = "confirm"])
       /\ modals' = <<h>> \o modals
       /\ wire' = Tail(wire)
  ELSE /\ Put(h, [ready EXCEPT !.step = "stream"])
       /\ wire' = Append(Tail(wire), h)
       /\ UNCHANGED modals

Built(h) ==
  /\ Answered(h, "build")
  /\ IF Colliding(handler[h].base) = {}
     THEN Proceed(h, handler[h])
     ELSE /\ Put(h, [handler[h] EXCEPT !.step = "collisions"])
          /\ modals' = <<h>> \o modals
          /\ wire' = Tail(wire)
  /\ UNCHANGED <<Window, engine, lost, crashed, clicks, faults>>

\* One file is kept of each target's, or none of any.
Picks(rs) ==
  { keep \in SUBSET Colliding(rs) :
      \/ keep = {}
      \/ \A f \in Colliding(rs) : Cardinality(Rivals(rs, f) \cap keep) = 1 }

\* The losers are skipped in the window's rows, which are read after the dialog.
Review(h) ==
  /\ OnTop(h, "collisions")
  /\ \E keep \in Picks(handler[h].base) :
       LET losers == (Colliding(handler[h].base) \ keep) \cap DOMAIN rows
           rec == [handler[h] EXCEPT !.base = rows, !.work = rows, !.winners = keep,
                     !.files = losers, !.todo = losers, !.edit = [skip |-> TRUE],
                     !.drifted = handler[h].base # rows]
       IN Ask(h, [rec EXCEPT !.step = IF losers = {} THEN "rebuild" ELSE "skip"])
  /\ modals' = Tail(modals)
  /\ UNCHANGED <<Window, engine, lost, clicks, faults>>

\* Mutant: the second plan is built from the rows without the skips.
Skipped_OldBase(h) ==
  /\ Answered(h, "skip")
  /\ LET rec  == handler[h]
         next == Min(rec.todo)
         work == Edited(rec.work, {next}, rec.edit)
     IN IF rec.todo = {next}
        THEN Install(rec, work) /\ Put(h, [rec EXCEPT !.step = "rebuild", !.todo = {}])
        ELSE Put(h, [rec EXCEPT !.work = work, !.todo = @ \ {next}]) /\ UNCHANGED Window
  /\ wire' = Append(Tail(wire), h)
  /\ UNCHANGED <<engine, modals, lost, crashed, clicks, faults>>

\* After the last of them the rows are installed, and the plan built again.
Skipped(h) ==
  /\ Answered(h, "skip")
  /\ LET rec  == handler[h]
         next == Min(rec.todo)
         work == Edited(rec.work, {next}, rec.edit)
     IN \/ /\ rec.todo = {next}
           /\ Install(rec, work)
           /\ Put(h, [rec EXCEPT !.step = "rebuild", !.base = work, !.work = work,
                                 !.todo = {}])
        \/ /\ rec.todo # {next}
           /\ Put(h, [rec EXCEPT !.work = work, !.todo = @ \ {next}])
           /\ UNCHANGED Window
  /\ wire' = Append(Tail(wire), h)
  /\ UNCHANGED <<engine, modals, lost, crashed, clicks, faults>>

\* Collisions the second plan has are not looked at.
Rebuilt(h) ==
  /\ Answered(h, "rebuild")
  /\ Proceed(h, handler[h])
  /\ UNCHANGED <<Window, engine, lost, crashed, clicks, faults>>

\* The modal is confirmed: the plan it was opened for goes to apply_plan.
Confirm(h) ==
  /\ OnTop(h, "confirm")
  /\ Ask(h, [handler[h] EXCEPT !.step = "stream"])
  /\ modals' = Tail(modals)
  /\ UNCHANGED <<Window, engine, lost, clicks, faults>>

\* The stream's last event; an error in it is not shown.
Streamed(h) ==
  /\ Answered(h, "stream")
  /\ Put(h, Idle)
  /\ wire' = Tail(wire)
  /\ UNCHANGED <<Window, engine, modals, lost, crashed, clicks, faults>>

-----------------------------------------------------------------------------
(* Errors                                                                  *)

\* What a handler's catch of BridgeException leaves: the pane stays open,
\* settings are kept without the engine, the others give up.
Caught(h) ==
  /\ Put(h, IF handler[h].step = "saving"
            THEN [handler[h] EXCEPT !.step = "dialog", !.edit = <<>>]
            ELSE Idle)
  /\ cleanup' = IF handler[h].kind = "settings" THEN handler[h].cleanup ELSE cleanup
  /\ UNCHANGED <<rows, groups, meant, engine, modals, crashed, clicks>>

\* The engine answers with an error.
Refused(h) ==
  /\ \E step \in Waiting : Answered(h, step)
  /\ faults < MaxFaults /\ faults' = faults + 1
  /\ Caught(h)
  /\ wire' = Tail(wire)
  /\ UNCHANGED lost

\* A request that was under way when the engine died fails.
Failed(h) ==
  /\ ~crashed
  /\ h \in lost
  /\ Caught(h)
  /\ lost' = lost \ {h}
  /\ UNCHANGED <<wire, faults>>

\* OnEngineUnexpectedExit
EngineDies ==
  /\ ~crashed
  /\ engine = "up"
  /\ faults < MaxFaults /\ faults' = faults + 1
  /\ engine' = "died"
  /\ lost' = lost \cup Range(wire)
  /\ wire' = <<>>
  /\ UNCHANGED <<Window, handler, modals, crashed, clicks>>

\* RestartEngineAsync, from the dialog that follows a death.
Restarted ==
  /\ ~crashed
  /\ engine = "died"
  /\ engine' = "up"
  /\ UNCHANGED <<Window, handler, modals, wire, lost, crashed, clicks, faults>>

-----------------------------------------------------------------------------
\* The user, who may stop at any point.
User(h) ==
  \/ \E paths \in Drops : OnPathsDropped(h, paths)
  \/ OnPreviewClicked(h) \/ OnApplyClicked(h) \/ OnSettingsClicked(h)
  \/ \E f \in DOMAIN rows :
       OnSourceRowActivated(h, f) \/ OnGroupAnchorRequested(h, f) \/ OnSetImdbRequested(h, f)
  \/ \E selected \in (SUBSET DOMAIN rows) \ {{}} :
       OnOverrideRequested(h, selected) \/ OnToggleSkipRequested(h, selected)
  \/ Save(h) \/ Cancel(h) \/ Pick(h) \/ Enters(h) \/ SettingsEntered(h)
  \/ Review(h) \/ Confirm(h)

\* The engine's answers, and the dispatcher that goes on with what awaited them.
Resumes(h) ==
  \/ Started(h) \/ PaneCloses(h) \/ Failed(h)
  \/ Loaded(h) \/ Saved(h) \/ OrphanSaved(h) \/ GroupAnchored(h) \/ Found(h)
  \/ RowEdited(h) \/ SettingsSaved(h)
  \/ Built(h) \/ Skipped(h) \/ Rebuilt(h) \/ Streamed(h)

Next ==
  \/ \E h \in Slots : User(h) \/ Resumes(h) \/ Refused(h)
  \/ EngineDies
  \/ Restarted

Spec == Init /\ [][Next]_vars

-----------------------------------------------------------------------------
(* Properties                                                              *)

\* An edit the user made stays in the rows until a drop or a preview loads
\* others, whatever the other handlers install in between: only an answer whose
\* request left with rows the window no longer has may undo it (MainWindow's
\* handlers that read _currentRows, await and install).
EditsKept == rows = meant

\* No file the user left in is left out of an apply: unless the rows changed
\* while the collisions were on screen, what goes to apply_plan is every
\* placed row of the list, and every file chosen among the colliding ones.
NothingLeftOut ==
  [][\A h \in Slots :
       handler[h].step # "stream" /\ handler'[h].step = "stream" /\ ~handler'[h].drifted =>
         /\ handler'[h].plan = Placed(handler'[h].base)
         /\ handler'[h].winners \subseteq handler'[h].plan]_vars

=============================================================================
