----------------------------- MODULE ApplyWindow -----------------------------
(***************************************************************************)
(* The Qt main window's apply pass: MainWindow (gui/main_window.py), the   *)
(* QThread that runs an ApplyWorker (gui/apply_worker.py), the progress    *)
(* widget, the cleanup modal and the settings the pass reads.              *)
(*                                                                         *)
(* A run is one press of Apply that got as far as starting a thread.  The  *)
(* thread talks to the window only through queued signals, which the GUI   *)
(* thread handles one at a time, between the user's own events; a modal    *)
(* dialog blocks the user's events and lets the queued ones through.       *)
(*                                                                         *)
(* The window keeps ONE thread, ONE worker and ONE plan in flight, and     *)
(* nothing stops a second run from starting while the first is under way.  *)
(*                                                                         *)
(* What the planner makes of the rows is left open (any subset of the rows *)
(* not skipped, see CollisionPlan), and so is what the executor does to    *)
(* each file of an op (see Executor).                                      *)
(***************************************************************************)
EXTENDS Naturals, Sequences, FiniteSets

CONSTANTS
  Rows,          \* the videos listed in the source panel, one path each
  Ineligible,    \* rows deletion_preview leaves out: they fail a guard
  UsesShortcut,  \* the user presses Ctrl+Return as well as the button
  CleanupAtStart,\* the cleanup toggle as main() finds it in the settings
  MaxRuns,       \* bound: runs started
  MaxEdits       \* bound: edits of a row's skip flag, drops, toggle changes

Runs == 1 .. MaxRuns

ASSUME WindowAssumption ==
  /\ IsFiniteSet(Rows)
  /\ Ineligible \subseteq Rows
  /\ UsesShortcut \in BOOLEAN
  /\ CleanupAtStart \in BOOLEAN
  /\ MaxRuns \in Nat
  /\ MaxEdits \in Nat

\* Events posted to the GUI thread: the worker's signals, the thread's own
\* finished signal, and the deletion Qt defers to the event loop: [kind, run, op].

VARIABLES
  skip,         \* rows marked Skip
  cleanup,      \* Settings.cleanup_enabled, live
  enabled,      \* the Apply button
  modal,        \* the CleanupConfirmModal: open, and the paths it lists
  boxes,        \* "Apply failed" message boxes open
  progress,     \* the progress widget: shown, and the bar's value
  applyThread,  \* the run of _apply_thread and _apply_worker, 0 for None
  planInFlight, \* the run of _apply_plan_in_flight, 0 for None
  report        \* the report shown: the run of its result and of its plan
VARIABLES
  queue,        \* the GUI thread's event queue
  thread,       \* state of each run's QThread
  plan,         \* rows of each run's plan
  deletes,      \* cleanup argument of each run's worker
  emitted       \* ops each worker has emitted
VARIABLES
  runs,         \* runs started
  edits,        \* bound on edits
  crashed       \* a QThread object was destroyed while its thread ran
VARIABLES
  consent,      \* paths the user confirmed for each run, {} with no modal (history)
  toggle,       \* the cleanup toggle at each run's click (history)
  answered,     \* runs whose outcome reached the user (history)
  overlapped    \* a run started before the last one's teardown (history)

widgets == <<enabled, progress, report>>
user    == <<skip, cleanup, edits>>
workers == <<plan, deletes, emitted>>
history == <<consent, toggle>>
vars == <<user, widgets, modal, boxes, applyThread, planInFlight, queue,
          thread, workers, runs, crashed, history, answered, overlapped>>

Alive(r) == thread[r] \in {"working", "looping", "quitting"}

\* _refresh_apply_state: rows are loaded and a root is set, so what is left of
\* the precondition is a row that is not skipped.
MayApply(skipped) == Rows \ skipped # {}

Init ==
  /\ skip = {}
  /\ cleanup = CleanupAtStart
  /\ enabled = MayApply({})
  /\ modal = [open |-> FALSE, paths |-> {}]
  /\ boxes = 0
  /\ progress = [shown |-> FALSE, value |-> 0]
  /\ applyThread = 0
  /\ planInFlight = 0
  /\ report = [result |-> 0, plan |-> 0]
  /\ queue = <<>>
  /\ thread = [r \in Runs |-> "none"]
  /\ plan = [r \in Runs |-> {}]
  /\ deletes = [r \in Runs |-> FALSE]
  /\ emitted = [r \in Runs |-> 0]
  /\ runs = 0
  /\ edits = 0
  /\ crashed = FALSE
  /\ consent = [r \in Runs |-> {}]
  /\ toggle = [r \in Runs |-> FALSE]
  /\ answered = {}
  /\ overlapped = FALSE

-----------------------------------------------------------------------------
(* The user                                                                *)

\* No dialog is open, so the window takes the user's input.
Free == ~crashed /\ ~modal.open /\ boxes = 0

Edit == edits < MaxEdits /\ edits' = edits + 1

\* set_skip and a drop (set_rows) both emit a model signal, and the window
\* answers each by recomputing the button, whatever is running.
SetSkip(skipped) ==
  /\ Free
  /\ Edit
  /\ skip' = skipped
  /\ enabled' = MayApply(skipped)
  /\ UNCHANGED <<cleanup, progress, report, modal, boxes, applyThread,
                 planInFlight, queue, thread, workers, runs, crashed, history,
                 answered, overlapped>>

ToggleSkip(r) == SetSkip(IF r \in skip THEN skip \ {r} ELSE skip \cup {r})
DropPaths     == SetSkip({})

\* The settings dialog's Save: the live Settings change, the orchestrator's
\* copy of them does not.
SaveSettings(on) ==
  /\ Free
  /\ Edit
  /\ cleanup' = on
  /\ enabled' = MayApply(skip)
  /\ UNCHANGED <<skip, progress, report, modal, boxes, applyThread,
                 planInFlight, queue, thread, workers, runs, crashed, history,
                 answered, overlapped>>

\* OrchestratorDeps.cleanup_enabled: assigned once, by main().
DepsCleanup == CleanupAtStart

\* Mutant: the new run's plan is not recorded.
StartRun_ForgetsPlan(confirmed) ==
  \E p \in SUBSET (Rows \ skip) :
    LET r == runs + 1 IN
    /\ runs < MaxRuns
    /\ runs' = r
    /\ plan' = [plan EXCEPT ![r] = p]
    /\ deletes' = [deletes EXCEPT ![r] = DepsCleanup]
    /\ consent' = [consent EXCEPT ![r] = confirmed]
    /\ toggle' = [toggle EXCEPT ![r] = cleanup]
    /\ enabled' = FALSE
    /\ progress' = [shown |-> TRUE, value |-> 0]
    /\ applyThread' = r
    /\ thread' = [thread EXCEPT ![r] = "working"]
    /\ overlapped' = (overlapped \/ applyThread # 0)
    /\ UNCHANGED <<report, emitted, planInFlight>>

\* _do_streaming_apply once prepare_apply has returned a plan: whatever run the
\* window held is overwritten.
StartRun(confirmed) ==
  \E p \in SUBSET (Rows \ skip) :
    LET r == runs + 1 IN
    /\ runs < MaxRuns
    /\ runs' = r
    /\ plan' = [plan EXCEPT ![r] = p]
    /\ deletes' = [deletes EXCEPT ![r] = DepsCleanup]
    /\ consent' = [consent EXCEPT ![r] = confirmed]
    /\ toggle' = [toggle EXCEPT ![r] = cleanup]
    /\ enabled' = FALSE
    /\ progress' = [shown |-> TRUE, value |-> 0]
    /\ applyThread' = r
    /\ planInFlight' = r
    /\ thread' = [thread EXCEPT ![r] = "working"]
    /\ overlapped' = (overlapped \/ applyThread # 0)
    /\ UNCHANGED <<report, emitted>>

\* _do_apply: refused with unresolved collisions still in review, answered at
\* once when prepare_apply returns an early report, or started.  Stamping the
\* proposed ops emits row_changed, which recomputes the button first.
DoApply(confirmed) ==
  \/ StartRun(confirmed)
  \/ /\ enabled' \in {enabled, MayApply(skip)}
     /\ report' \in {report, [result |-> 0, plan |-> 0]}
     /\ UNCHANGED <<progress, applyThread, planInFlight, thread, workers, runs,
                    history, overlapped>>

\* What the modal lists: deletion_preview of the videos, or all of them when
\* the preview is empty.  (The parent directories are left to another module.)
Listed == LET sources == Rows \ skip
              preview == sources \ Ineligible
          IN IF preview # {} THEN preview ELSE sources

\* _on_apply_clicked, connected to the button and, directly, to Ctrl+Return.
ApplyClicked ==
  /\ Free
  /\ enabled \/ UsesShortcut
  /\ IF cleanup
     THEN /\ modal' = [open |-> TRUE, paths |-> Listed]
          /\ UNCHANGED <<widgets, applyThread, planInFlight, thread, workers, runs,
                         history, overlapped>>
     ELSE DoApply({}) /\ UNCHANGED modal
  /\ UNCHANGED <<user, boxes, queue, crashed, answered>>

\* Mutant: the modal's Cancel starts the run as well.
AnswerModal_Always(yes) ==
  /\ ~crashed /\ boxes = 0
  /\ modal.open
  /\ modal' = [open |-> FALSE, paths |-> {}]
  /\ DoApply(IF yes THEN modal.paths ELSE {})
  /\ UNCHANGED <<user, boxes, queue, crashed, answered>>

\* The modal: Delete after ticking the consent box, or Cancel.
AnswerModal(yes) ==
  /\ ~crashed /\ boxes = 0
  /\ modal.open
  /\ modal' = [open |-> FALSE, paths |-> {}]
  /\ IF yes THEN DoApply(modal.paths)
     ELSE UNCHANGED <<widgets, applyThread, planInFlight, thread, workers, runs,
                      history, overlapped>>
  /\ UNCHANGED <<user, boxes, queue, crashed, answered>>

DismissBox ==
  /\ ~crashed
  /\ boxes > 0
  /\ boxes' = boxes - 1
  /\ UNCHANGED <<user, widgets, modal, applyThread, planInFlight, queue, thread,
                 workers, runs, crashed, history, answered, overlapped>>

-----------------------------------------------------------------------------
(* The worker thread                                                       *)

Post(kinds, r, n) ==
  queue' = queue \o [i \in 1 .. Len(kinds) |-> [kind |-> kinds[i], run |-> r, op |-> n]]

\* One op of apply_plan_iter and its op_event.
EmitOp(r) ==
  /\ thread[r] = "working"
  /\ emitted[r] < Cardinality(plan[r])
  /\ emitted' = [emitted EXCEPT ![r] = @ + 1]
  /\ Post(<<"op">>, r, emitted[r] + 1)
  /\ UNCHANGED thread

\* Mutant: the result is handed over at once instead of queued.
EmitFinished_Direct(r) ==
  /\ thread[r] = "working"
  /\ emitted[r] = Cardinality(plan[r])
  /\ thread' = [thread EXCEPT ![r] = "looping"]
  /\ queue' = <<[kind |-> "apply_finished", run |-> r, op |-> 0]>> \o queue \o
              <<[kind |-> "quit", run |-> r, op |-> 0]>>
  /\ UNCHANGED emitted

\* The "done" event after every op and after the cleanup pass.
EmitFinished(r) ==
  /\ thread[r] = "working"
  /\ emitted[r] = Cardinality(plan[r])
  /\ thread' = [thread EXCEPT ![r] = "looping"]
  /\ Post(<<"apply_finished", "quit">>, r, 0)
  /\ UNCHANGED emitted

\* The iterator raised: a journal write, a refused or failed cleanup.
EmitFailed(r) ==
  /\ thread[r] = "working"
  /\ thread' = [thread EXCEPT ![r] = "looping"]
  /\ Post(<<"apply_failed", "quit">>, r, 0)
  /\ UNCHANGED emitted

\* The thread's event loop has returned; QThread.finished is queued.
ThreadExits(r) ==
  /\ thread[r] = "quitting"
  /\ thread' = [thread EXCEPT ![r] = "exited"]
  /\ Post(<<"thread_finished">>, r, 0)
  /\ UNCHANGED emitted

Worker(r) ==
  /\ ~crashed
  /\ EmitOp(r) \/ EmitFinished(r) \/ EmitFailed(r) \/ ThreadExits(r)
  /\ UNCHANGED <<user, widgets, modal, boxes, applyThread, planInFlight, plan,
                 deletes, runs, crashed, history, answered, overlapped>>

-----------------------------------------------------------------------------
(* The GUI thread's queued slots                                           *)

OnOpEvent(e) ==
  /\ e.kind = "op"
  /\ progress' = [progress EXCEPT !.value = e.op]
  /\ queue' = Tail(queue)
  /\ UNCHANGED <<enabled, report, boxes, applyThread, planInFlight, thread, crashed,
                 answered>>

\* Mutant: the handler also tears the thread down, before it has quit.
OnApplyFinished_TearsDown(e) ==
  /\ e.kind = "apply_finished"
  /\ report' = [result |-> e.run, plan |-> planInFlight]
  /\ progress' = [progress EXCEPT !.shown = FALSE]
  /\ enabled' = TRUE
  /\ answered' = answered \cup {e.run}
  /\ queue' = Tail(queue) \o <<[kind |-> "delete", run |-> applyThread, op |-> 0]>>
  /\ applyThread' = 0
  /\ UNCHANGED <<boxes, planInFlight, thread, crashed>>

\* _on_apply_finished: the report is built from the result and the plan in
\* flight; with none the assertion ends the slot.
OnApplyFinished(e) ==
  /\ e.kind = "apply_finished"
  /\ IF planInFlight = 0
     THEN UNCHANGED <<widgets, answered>>
     ELSE /\ report' = [result |-> e.run, plan |-> planInFlight]
          /\ progress' = [progress EXCEPT !.shown = FALSE]
          /\ enabled' = TRUE
          /\ answered' = answered \cup {e.run}
  /\ queue' = Tail(queue)
  /\ UNCHANGED <<boxes, applyThread, planInFlight, thread, crashed>>

OnApplyFailed(e) ==
  /\ e.kind = "apply_failed"
  /\ progress' = [progress EXCEPT !.shown = FALSE]
  /\ enabled' = TRUE
  /\ boxes' = boxes + 1
  /\ answered' = answered \cup {e.run}
  /\ queue' = Tail(queue)
  /\ UNCHANGED <<report, applyThread, planInFlight, thread, crashed>>

OnQuit(e) ==
  /\ e.kind = "quit"
  /\ thread' = [thread EXCEPT ![e.run] = "quitting"]
  /\ queue' = Tail(queue)
  /\ UNCHANGED <<widgets, boxes, applyThread, planInFlight, crashed, answered>>

\* _teardown_apply_thread: deletes the thread the window holds NOW.
TeardownApplyThread(e) ==
  /\ e.kind = "thread_finished"
  /\ queue' = Tail(queue) \o
       (IF applyThread = 0 THEN <<>>
        ELSE <<[kind |-> "delete", run |-> applyThread, op |-> 0]>>)
  /\ applyThread' = 0
  /\ planInFlight' = 0
  /\ UNCHANGED <<widgets, boxes, thread, crashed, answered>>

\* Qt deletes the QThread, which aborts the process if the thread still runs.
OnDelete(e) ==
  /\ e.kind = "delete"
  /\ crashed' = (crashed \/ Alive(e.run))
  /\ queue' = Tail(queue)
  /\ UNCHANGED <<widgets, boxes, applyThread, planInFlight, thread, answered>>

EventLoop ==
  /\ ~crashed
  /\ queue # <<>>
  /\ LET e == Head(queue) IN
       \/ OnOpEvent(e) \/ OnApplyFinished(e) \/ OnApplyFailed(e) \/ OnQuit(e)
       \/ TeardownApplyThread(e) \/ OnDelete(e)
  /\ UNCHANGED <<user, modal, workers, runs, history, overlapped>>

-----------------------------------------------------------------------------
Next ==
  \/ \E r \in Rows : ToggleSkip(r)
  \/ DropPaths
  \/ \E on \in BOOLEAN : SaveSettings(on)
  \/ ApplyClicked
  \/ \E yes \in BOOLEAN : AnswerModal(yes)
  \/ DismissBox
  \/ \E r \in Runs : Worker(r)
  \/ EventLoop

Spec == Init /\ [][Next]_vars

\* Threads are scheduled and the event loop runs; the user owes nothing.
FairSpec ==
  /\ Spec
  /\ WF_vars(EventLoop)
  /\ \A r \in Runs : WF_vars(Worker(r))

-----------------------------------------------------------------------------
(* Properties                                                              *)

\* Videos a run removes from their place: with its worker's cleanup argument set,
\* every one of its plan, renamed away or unlinked by the cleanup pass.  (The
\* sidecars an op carries go with it; the modal never lists them.)
Removes(r) == IF deletes[r] THEN plan[r] ELSE {}

\* A report pairs a run's result with that run's own plan, and comes after the
\* bar has reached the last op, so long as no two runs ever overlapped.
ReportIsOfOneRun ==
  ~overlapped =>
    /\ report.result = report.plan
    /\ (runs > 0 /\ report.result = runs) => progress.value = Cardinality(plan[runs])

\* A QThread is deleted only after its thread has exited (teardown waits for
\* QThread.finished), so long as no two runs ever overlapped.
ThreadOutlivesRun == ~overlapped => ~crashed

\* "Closing the modal or unchecking the box cancels the deletion entirely": if
\* the toggle was never changed since startup, a run removes no video its user
\* did not see listed and confirm, beyond those the preview leaves out.
DeletesOnlyConfirmed ==
  \A r \in Runs :
    toggle[r] = CleanupAtStart =>
      Removes(r) \ Ineligible \subseteq consent[r]

\* "apply_finished ... exactly once, ... mutually exclusive with apply_failed":
\* every run started is answered, by a report or by a failure box, unless two
\* runs overlapped.
EveryRunAnswered ==
  \A r \in Runs : (thread[r] = "working") ~> (r \in answered \/ overlapped)

=============================================================================
