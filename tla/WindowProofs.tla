---------------------------- MODULE WindowProofs ----------------------------
(***************************************************************************)
(* What the Qt window's apply pass guarantees for any rows and any number  *)
(* of runs: consent before deletion, and, until two runs overlap, reports  *)
(* of one run and threads that outlive their work.                         *)
(***************************************************************************)
EXTENDS ApplyWindow, SequenceTheorems, TLAPS

-----------------------------------------------------------------------------
(* The inductive invariant, in named parts                                 *)

Kinds == {"op", "apply_finished", "apply_failed", "quit", "thread_finished", "delete"}
Events == [kind : Kinds, run : Runs, op : Nat]
States == {"none", "working", "looping", "quitting", "exited"}

Typed ==
  /\ skip \subseteq Rows /\ cleanup \in BOOLEAN
  /\ modal \in [open : BOOLEAN, paths : SUBSET Rows]
  /\ progress \in [shown : BOOLEAN, value : Nat]
  /\ report \in [result : 0 .. MaxRuns, plan : 0 .. MaxRuns]
  /\ runs \in 0 .. MaxRuns /\ applyThread \in {0, runs} /\ planInFlight \in {0, runs}
  /\ queue \in Seq(Events)
  /\ thread \in [Runs -> States]
  /\ plan \in [Runs -> SUBSET Rows] /\ consent \in [Runs -> SUBSET Rows]
  /\ deletes \in [Runs -> BOOLEAN] /\ toggle \in [Runs -> BOOLEAN]
  /\ emitted \in [Runs -> Nat]
  /\ crashed \in BOOLEAN /\ overlapped \in BOOLEAN

\* The open modal lists what the rows would let a run remove: no row changes
\* under it.
Consented ==
  /\ modal.open => (Rows \ skip) \ Ineligible \subseteq modal.paths
  /\ DeletesOnlyConfirmed

\* Of the runs started only the one the window holds may still have a thread.
Alone ==
  /\ ~crashed
  /\ planInFlight = applyThread
  /\ \A r \in Runs : /\ r > runs => thread[r] = "none" /\ emitted[r] = 0
                     /\ r <= runs /\ r # applyThread => thread[r] = "exited"

\* The events in the queue: deletions of threads that have exited, and then
\* what the one run has posted, in the order it posted it.
InQueue(i, s) == queue[i].kind \in s
Queued ==
  \A i \in 1 .. Len(queue) :
    /\ InQueue(i, {"delete"}) => thread[queue[i].run] = "exited"
    /\ ~InQueue(i, {"delete"}) =>
         /\ applyThread # 0 /\ queue[i].run = applyThread
         /\ \A j \in 1 .. Len(queue) : i < j => ~InQueue(j, {"delete"})
    /\ InQueue(i, {"op"}) => thread[applyThread] \in {"working", "looping"}
    /\ InQueue(i, {"apply_finished", "apply_failed"}) =>
         /\ thread[applyThread] = "looping"
         /\ \A j \in 1 .. Len(queue) : i < j => InQueue(j, {"quit"})
    /\ InQueue(i, {"quit"}) => thread[applyThread] = "looping" /\ i = Len(queue)
    /\ InQueue(i, {"thread_finished"}) => thread[applyThread] = "exited" /\ i = Len(queue)

\* Where the bar will be once the first i events are handled.
Reached(i) == IF i = 0 THEN progress.value
              ELSE IF InQueue(i, {"delete"}) THEN progress.value ELSE queue[i].op

\* The bar follows the worker; a report comes after the last op.
Followed ==
  /\ applyThread # 0 /\ thread[applyThread] = "working" => Reached(Len(queue)) = emitted[applyThread]
  /\ \A i \in 1 .. Len(queue) :
       InQueue(i, {"apply_finished"}) => Reached(i - 1) = Cardinality(plan[applyThread])
  /\ report.result = report.plan /\ report.result <= runs
  /\ runs > 0 /\ report.result = runs =>
       /\ progress.value = Cardinality(plan[runs])
       /\ thread[runs] # "working"
       /\ \A i \in 1 .. Len(queue) : ~InQueue(i, {"op"})

IInv == Typed /\ Consented /\ (~overlapped => Alone /\ Queued /\ Followed)

LEMMA Bounds == MaxRuns \in Nat
BY WindowAssumption

\* What posting events and taking the head do to the queue.
LEMMA Posts ==
  ASSUME queue \in Seq(Events), NEW kinds \in Seq(Kinds), NEW r \in Runs, NEW n \in Nat,
         Post(kinds, r, n)
  PROVE  /\ queue' \in Seq(Events)
         /\ Len(queue') = Len(queue) + Len(kinds)
         /\ \A i \in 1 .. Len(queue) : queue'[i] = queue[i]
         /\ \A i \in 1 .. Len(queue') :
              i > Len(queue) => queue'[i] = [kind |-> kinds[i - Len(queue)], run |-> r, op |-> n]
<1> DEFINE s == [i \in 1 .. Len(kinds) |-> [kind |-> kinds[i], run |-> r, op |-> n]]
<1>1. s \in Seq(Events) /\ Len(s) = Len(kinds)
  <2>1. Len(kinds) \in Nat /\ \A i \in 1 .. Len(kinds) : s[i] \in Events
    BY DEF Events
  <2> QED BY <2>1, IsASeq
<1>2. queue' = queue \o s
  BY DEF Post
<1> HIDE DEF s
<1>3. /\ queue \o s \in Seq(Events) /\ Len(queue \o s) = Len(queue) + Len(s)
      /\ \A i \in 1 .. Len(queue) + Len(s) :
           (queue \o s)[i] = IF i <= Len(queue) THEN queue[i] ELSE s[i - Len(queue)]
  BY <1>1, ConcatProperties
<1>4. Len(queue) \in Nat /\ Len(kinds) \in Nat
  OBVIOUS
<1>5. /\ queue' \in Seq(Events) /\ Len(queue') = Len(queue) + Len(kinds)
      /\ \A i \in 1 .. Len(queue) : queue'[i] = queue[i]
  BY <1>1, <1>2, <1>3, <1>4
<1>6. ASSUME NEW i \in 1 .. Len(queue'), i > Len(queue)
      PROVE  queue'[i] = [kind |-> kinds[i - Len(queue)], run |-> r, op |-> n]
  <2>1. i - Len(queue) \in 1 .. Len(kinds) /\ i \in 1 .. Len(queue) + Len(s) /\ ~(i <= Len(queue))
    BY <1>1, <1>4, <1>5, <1>6
  <2>2. queue'[i] = s[i - Len(queue)]
    BY <1>2, <1>3, <2>1
  <2> QED BY <2>1, <2>2 DEF s
<1> QED BY <1>5, <1>6

LEMMA PostsOne ==
  ASSUME queue \in Seq(Events), NEW k \in Kinds, NEW r \in Runs, NEW n \in Nat, Post(<<k>>, r, n)
  PROVE  /\ Len(queue') = Len(queue) + 1
         /\ \A i \in 1 .. Len(queue) : queue'[i] = queue[i]
         /\ queue'[Len(queue) + 1] = [kind |-> k, run |-> r, op |-> n]
<1> DEFINE kinds == <<k>>
<1>1. kinds \in Seq(Kinds) /\ Len(kinds) = 1 /\ kinds[1] = k /\ Post(kinds, r, n) /\ Len(queue) \in Nat
  OBVIOUS
<1> HIDE DEF kinds
<1>2. /\ Len(queue') = Len(queue) + Len(kinds)
      /\ \A i \in 1 .. Len(queue) : queue'[i] = queue[i]
      /\ \A i \in 1 .. Len(queue') :
           i > Len(queue) => queue'[i] = [kind |-> kinds[i - Len(queue)], run |-> r, op |-> n]
  BY <1>1, Posts
<1>3. /\ Len(queue) + 1 \in 1 .. Len(queue') /\ Len(queue) + 1 > Len(queue)
      /\ (Len(queue) + 1) - Len(queue) = 1
  BY <1>1, <1>2
<1>4. queue'[Len(queue) + 1] = [kind |-> kinds[1], run |-> r, op |-> n]
  BY <1>2, <1>3
<1> QED BY <1>1, <1>2, <1>4

LEMMA PostsTwo ==
  ASSUME queue \in Seq(Events), NEW k \in Kinds, NEW l \in Kinds, NEW r \in Runs, NEW n \in Nat,
         Post(<<k, l>>, r, n)
  PROVE  /\ Len(queue') = Len(queue) + 2
         /\ \A i \in 1 .. Len(queue) : queue'[i] = queue[i]
         /\ queue'[Len(queue) + 1] = [kind |-> k, run |-> r, op |-> n]
         /\ queue'[Len(queue) + 2] = [kind |-> l, run |-> r, op |-> n]
<1> DEFINE kinds == <<k, l>>
<1>1. /\ kinds \in Seq(Kinds) /\ Len(kinds) = 2 /\ kinds[1] = k /\ kinds[2] = l
      /\ Post(kinds, r, n) /\ Len(queue) \in Nat
  OBVIOUS
<1> HIDE DEF kinds
<1>2. /\ Len(queue') = Len(queue) + Len(kinds)
      /\ \A i \in 1 .. Len(queue) : queue'[i] = queue[i]
      /\ \A i \in 1 .. Len(queue') :
           i > Len(queue) => queue'[i] = [kind |-> kinds[i - Len(queue)], run |-> r, op |-> n]
  BY <1>1, Posts
<1>3. \A d \in {1, 2} : /\ Len(queue) + d \in 1 .. Len(queue') /\ Len(queue) + d > Len(queue)
                       /\ (Len(queue) + d) - Len(queue) = d
  BY <1>1, <1>2
<1>4. \A d \in {1, 2} : queue'[Len(queue) + d] = [kind |-> kinds[d], run |-> r, op |-> n]
  BY <1>2, <1>3
<1> QED BY <1>1, <1>2, <1>4

LEMMA Pops ==
  ASSUME queue \in Seq(Events), queue # <<>>
  PROVE  /\ Head(queue) = queue[1] /\ queue[1] \in Events
         /\ Tail(queue) \in Seq(Events)
         /\ Len(queue) \in Nat \ {0}
         /\ Len(Tail(queue)) = Len(queue) - 1
         /\ \A i \in 1 .. Len(Tail(queue)) : Tail(queue)[i] = queue[i + 1]
BY HeadTailProperties

\* A run that starts.
LEMMA Starts ==
  ASSUME Typed, NEW c, StartRun(c)
  PROVE  \E p \in SUBSET (Rows \ skip) :
           /\ runs' = runs + 1 /\ runs' \in Runs
           /\ plan' = [plan EXCEPT ![runs'] = p]
           /\ deletes' = [deletes EXCEPT ![runs'] = CleanupAtStart]
           /\ consent' = [consent EXCEPT ![runs'] = c]
           /\ toggle' = [toggle EXCEPT ![runs'] = cleanup]
           /\ progress' = [shown |-> TRUE, value |-> 0]
           /\ applyThread' = runs' /\ planInFlight' = runs'
           /\ thread' = [thread EXCEPT ![runs'] = "working"]
           /\ overlapped' = (overlapped \/ applyThread # 0)
           /\ UNCHANGED <<report, emitted>>
<1>1. runs + 1 \in Runs \/ ~(runs < MaxRuns)
  BY Bounds DEF Typed, Runs
<1> QED BY <1>1 DEF StartRun, DepsCleanup

-----------------------------------------------------------------------------
(* Types                                                                   *)

LEMMA TypedInit == Init => Typed
<1> SUFFICES ASSUME Init PROVE Typed
  OBVIOUS
<1>1. queue \in Seq(Events)
  BY EmptySeq DEF Init
<1>2. /\ thread \in [Runs -> States]
      /\ plan \in [Runs -> SUBSET Rows] /\ consent \in [Runs -> SUBSET Rows]
      /\ deletes \in [Runs -> BOOLEAN] /\ toggle \in [Runs -> BOOLEAN]
      /\ emitted \in [Runs -> Nat]
  BY DEF Init, States
<1>3. /\ modal \in [open : BOOLEAN, paths : SUBSET Rows]
      /\ progress \in [shown : BOOLEAN, value : Nat]
      /\ report \in [result : 0 .. MaxRuns, plan : 0 .. MaxRuns]
  BY Bounds DEF Init
<1> QED BY <1>1, <1>2, <1>3, Bounds, WindowAssumption DEF Init, Typed

\* A press of Apply that got as far as planning.
LEMMA TypedApply ==
  ASSUME Typed, NEW c \in SUBSET Rows, DoApply(c), UNCHANGED <<user, queue, crashed>>,
         modal' \in [open : BOOLEAN, paths : SUBSET Rows]
  PROVE  Typed'
<1>1. CASE StartRun(c)
  <2>1. PICK p \in SUBSET (Rows \ skip) :
           /\ runs' = runs + 1 /\ runs' \in Runs
           /\ plan' = [plan EXCEPT ![runs'] = p]
           /\ deletes' = [deletes EXCEPT ![runs'] = CleanupAtStart]
           /\ consent' = [consent EXCEPT ![runs'] = c]
           /\ toggle' = [toggle EXCEPT ![runs'] = cleanup]
           /\ progress' = [shown |-> TRUE, value |-> 0]
           /\ applyThread' = runs' /\ planInFlight' = runs'
           /\ thread' = [thread EXCEPT ![runs'] = "working"]
           /\ overlapped' = (overlapped \/ applyThread # 0)
           /\ UNCHANGED <<report, emitted>>
    BY <1>1, Starts
  <2>3. /\ plan' \in [Runs -> SUBSET Rows] /\ consent' \in [Runs -> SUBSET Rows]
        /\ deletes' \in [Runs -> BOOLEAN] /\ toggle' \in [Runs -> BOOLEAN]
        /\ thread' \in [Runs -> States]
    BY <2>1, WindowAssumption DEF Typed, States
  <2>4. overlapped' \in BOOLEAN
    BY <2>1
  <2> QED BY <2>1, <2>3, <2>4, Bounds DEF Typed, user, Runs
<1>2. CASE ~StartRun(c)
  <2>1. /\ UNCHANGED <<progress, applyThread, planInFlight, thread, workers, runs, history, overlapped>>
        /\ report' \in {report, [result |-> 0, plan |-> 0]}
    BY <1>2 DEF DoApply
  <2>2. report' \in [result : 0 .. MaxRuns, plan : 0 .. MaxRuns]
    BY <2>1, Bounds DEF Typed
  <2> QED BY <2>1, <2>2 DEF Typed, user, workers, history
<1> QED BY <1>1, <1>2

LEMMA TypedStep == Typed /\ [Next]_vars => Typed'
<1> SUFFICES ASSUME Typed, [Next]_vars PROVE Typed'
  OBVIOUS
<1>1. ASSUME NEW s \in SUBSET Rows, SetSkip(s) PROVE Typed'
  BY <1>1 DEF SetSkip, Typed, workers, history
<1>2. ASSUME NEW on \in BOOLEAN, SaveSettings(on) PROVE Typed'
  BY <1>2 DEF SaveSettings, Typed, workers, history
<1>3. ASSUME ApplyClicked PROVE Typed'
  <2>1. CASE cleanup
    <3>1. Listed \in SUBSET Rows
      BY DEF Listed
    <3>2. modal' \in [open : BOOLEAN, paths : SUBSET Rows]
      <4>1. modal' = [open |-> TRUE, paths |-> Listed]
        BY <1>3, <2>1 DEF ApplyClicked
      <4> QED BY <3>1, <4>1
    <3>3. UNCHANGED <<user, widgets, applyThread, planInFlight, queue, thread, workers, runs,
                      crashed, history, overlapped>>
      BY <1>3, <2>1 DEF ApplyClicked
    <3> QED BY <3>2, <3>3 DEF Typed, user, widgets, workers, history
  <2>2. CASE ~cleanup
    <3>1. DoApply({}) /\ UNCHANGED <<user, queue, crashed>> /\ modal' = modal
      BY <1>3, <2>2 DEF ApplyClicked
    <3> QED BY <3>1, TypedApply DEF Typed
  <2> QED BY <2>1, <2>2
<1>4. ASSUME NEW yes \in BOOLEAN, AnswerModal(yes) PROVE Typed'
  <2>1. /\ modal' \in [open : BOOLEAN, paths : SUBSET Rows]
        /\ UNCHANGED <<user, queue, crashed>>
    BY <1>4 DEF AnswerModal
  <2>2. CASE yes
    <3>1. DoApply(modal.paths) /\ modal.paths \in SUBSET Rows
      BY <1>4, <2>2 DEF AnswerModal, Typed
    <3> QED BY <2>1, <3>1, TypedApply
  <2>3. CASE ~yes
    <3>1. UNCHANGED <<widgets, applyThread, planInFlight, thread, workers, runs, history, overlapped>>
      BY <1>4, <2>3 DEF AnswerModal
    <3> QED BY <2>1, <3>1 DEF Typed, user, widgets, workers, history
  <2> QED BY <2>2, <2>3
<1>5. ASSUME DismissBox \/ UNCHANGED vars PROVE Typed'
  BY <1>5 DEF DismissBox, vars, Typed, user, widgets, workers, history
<1>6. ASSUME NEW r \in Runs, Worker(r) PROVE Typed'
  <2>1. UNCHANGED <<user, widgets, modal, applyThread, planInFlight, plan, deletes, runs,
                    crashed, history, overlapped>>
    BY <1>6 DEF Worker
  <2>2. thread' \in [Runs -> States] /\ emitted' \in [Runs -> Nat]
    <3>1. /\ \/ thread' = thread
             \/ \E s \in States : thread' = [thread EXCEPT ![r] = s]
          /\ emitted' = emitted \/ emitted' = [emitted EXCEPT ![r] = emitted[r] + 1]
      BY <1>6 DEF Worker, EmitOp, EmitFinished, EmitFailed, ThreadExits, States
    <3>2. thread' \in [Runs -> States]
      BY <3>1 DEF Typed
    <3>3. emitted' \in [Runs -> Nat]
      <4>1. emitted \in [Runs -> Nat] /\ emitted[r] + 1 \in Nat
        BY DEF Typed
      <4>2. emitted' = emitted \/ emitted' = [emitted EXCEPT ![r] = emitted[r] + 1]
        BY <3>1
      <4> QED BY <4>1, <4>2
    <3> QED BY <3>2, <3>3
  <2>3. queue' \in Seq(Events)
    <3>1. \A n \in Nat, kinds \in Seq(Kinds) : Post(kinds, r, n) => queue' \in Seq(Events)
      BY Posts DEF Typed
    <3>2. /\ <<"op">> \in Seq(Kinds) /\ <<"apply_finished", "quit">> \in Seq(Kinds)
          /\ <<"apply_failed", "quit">> \in Seq(Kinds) /\ <<"thread_finished">> \in Seq(Kinds)
      BY DEF Kinds
    <3>3. emitted[r] + 1 \in Nat
      BY DEF Typed
    <3> QED BY <1>6, <3>1, <3>2, <3>3 DEF Worker, EmitOp, EmitFinished, EmitFailed, ThreadExits
  <2> QED BY <2>1, <2>2, <2>3 DEF Typed, user, widgets, history
<1>7. ASSUME EventLoop PROVE Typed'
  <2>1. /\ queue # <<>> /\ Head(queue) \in Events /\ Tail(queue) \in Seq(Events)
        /\ UNCHANGED <<user, modal, workers, runs, history, overlapped>>
    BY <1>7, Pops DEF EventLoop, Typed
  <2>2. PICK e \in Events : \/ OnOpEvent(e) \/ OnApplyFinished(e) \/ OnApplyFailed(e) \/ OnQuit(e)
                            \/ TeardownApplyThread(e) \/ OnDelete(e)
    BY <1>7, <2>1 DEF EventLoop
  <2>3. /\ progress' \in [shown : BOOLEAN, value : Nat]
        /\ report' \in [result : 0 .. MaxRuns, plan : 0 .. MaxRuns]
        /\ thread' \in [Runs -> States] /\ crashed' \in BOOLEAN
    <3>1. /\ progress' = progress \/ progress' = [progress EXCEPT !.value = e.op]
             \/ progress' = [progress EXCEPT !.shown = FALSE]
          /\ report' = report \/ report' = [result |-> e.run, plan |-> planInFlight]
          /\ thread' = thread \/ thread' = [thread EXCEPT ![e.run] = "quitting"]
          /\ crashed' = crashed \/ crashed' = (crashed \/ Alive(e.run))
      BY <2>2 DEF OnOpEvent, OnApplyFinished, OnApplyFailed, OnQuit, TeardownApplyThread, OnDelete, widgets
    <3>2. e.op \in Nat /\ e.run \in 0 .. MaxRuns /\ planInFlight \in 0 .. MaxRuns
      BY Bounds DEF Events, Runs, Typed
    <3>3. progress' \in [shown : BOOLEAN, value : Nat]
      BY <3>1, <3>2 DEF Typed
    <3>4. report' \in [result : 0 .. MaxRuns, plan : 0 .. MaxRuns]
      BY <3>1, <3>2 DEF Typed
    <3>5. thread' \in [Runs -> States]
      BY <3>1 DEF Typed, States
    <3>6. crashed' \in BOOLEAN
      BY <3>1 DEF Typed, Alive
    <3> QED BY <3>3, <3>4, <3>5, <3>6
  <2>4. applyThread' \in {0, runs} /\ planInFlight' \in {0, runs}
    BY <1>7 DEF EventLoop, OnOpEvent, OnApplyFinished, OnApplyFailed, OnQuit,
       TeardownApplyThread, OnDelete, Typed
  <2>5. queue' \in Seq(Events)
    <3>1. CASE queue' = Tail(queue)
      BY <2>1, <3>1
    <3>2. CASE applyThread # 0 /\ queue' = Tail(queue) \o <<[kind |-> "delete", run |-> applyThread, op |-> 0]>>
      <4>1. [kind |-> "delete", run |-> applyThread, op |-> 0] \in Events
        BY <3>2, Bounds DEF Typed, Events, Kinds, Runs
      <4> QED BY <2>1, <3>2, <4>1, ConcatProperties
    <3>3. CASE applyThread = 0 /\ queue' = Tail(queue) \o <<>>
      BY <2>1, <3>3, ConcatEmptySeq
    <3> QED BY <1>7, <3>1, <3>2, <3>3 DEF EventLoop, OnOpEvent, OnApplyFinished, OnApplyFailed, OnQuit,
       TeardownApplyThread, OnDelete
  <2> QED BY <2>1, <2>3, <2>4, <2>5 DEF Typed, user, workers, history
<1>8. ASSUME NEW r \in Rows, ToggleSkip(r) PROVE Typed'
  BY <1>1, <1>8 DEF ToggleSkip, Typed
<1>9. DropPaths => SetSkip({}) /\ {} \in SUBSET Rows
  BY DEF DropPaths
<1> QED BY <1>1, <1>2, <1>3, <1>4, <1>5, <1>6, <1>7, <1>8, <1>9 DEF Next

-----------------------------------------------------------------------------
(* Consent                                                                 *)

\* A run that starts removes what its user confirmed, if the toggle is as it
\* was at the start.
LEMMA StartsConsented ==
  ASSUME Typed, Consented, NEW c \in SUBSET Rows, StartRun(c),
         cleanup => (Rows \ skip) \ Ineligible \subseteq c
  PROVE  DeletesOnlyConfirmed'
<1>1. PICK p \in SUBSET (Rows \ skip) :
           /\ runs' = runs + 1 /\ runs' \in Runs
           /\ plan' = [plan EXCEPT ![runs'] = p]
           /\ deletes' = [deletes EXCEPT ![runs'] = CleanupAtStart]
           /\ consent' = [consent EXCEPT ![runs'] = c]
           /\ toggle' = [toggle EXCEPT ![runs'] = cleanup]
           /\ progress' = [shown |-> TRUE, value |-> 0]
           /\ applyThread' = runs' /\ planInFlight' = runs'
           /\ thread' = [thread EXCEPT ![runs'] = "working"]
           /\ overlapped' = (overlapped \/ applyThread # 0)
           /\ UNCHANGED <<report, emitted>>
  BY Starts
<1> SUFFICES ASSUME NEW r \in Runs, toggle'[r] = CleanupAtStart, deletes'[r]
             PROVE  plan'[r] \ Ineligible \subseteq consent'[r]
  BY DEF DeletesOnlyConfirmed, Removes
<1>2. CASE r = runs'
  <2>1. plan'[r] = p /\ consent'[r] = c /\ toggle'[r] = cleanup /\ deletes'[r] = CleanupAtStart
    BY <1>1, <1>2 DEF Typed
  <2> QED BY <2>1
<1>3. CASE r # runs'
  <2>1. plan'[r] = plan[r] /\ consent'[r] = consent[r] /\ toggle'[r] = toggle[r] /\ deletes'[r] = deletes[r]
    BY <1>1, <1>3 DEF Typed
  <2> QED BY <2>1 DEF Consented, DeletesOnlyConfirmed, Removes
<1> QED BY <1>2, <1>3

LEMMA ConsentStep == Typed /\ Consented /\ [Next]_vars => Consented'
<1> SUFFICES ASSUME Typed, Consented, [Next]_vars PROVE Consented'
  OBVIOUS
<1>1. ASSUME UNCHANGED <<plan, deletes, history>> PROVE DeletesOnlyConfirmed'
  BY <1>1 DEF Consented, DeletesOnlyConfirmed, Removes, history
<1>2. ASSUME NEW s, SetSkip(s) PROVE Consented'
  BY <1>1, <1>2 DEF SetSkip, Free, workers, Consented
<1>3. ASSUME NEW on, SaveSettings(on) PROVE Consented'
  BY <1>1, <1>3 DEF SaveSettings, Free, workers, Consented
<1>4. ASSUME NEW c \in SUBSET Rows, DoApply(c), cleanup => (Rows \ skip) \ Ineligible \subseteq c
      PROVE  DeletesOnlyConfirmed'
  BY <1>1, <1>4, StartsConsented DEF DoApply, workers
<1>5. ASSUME ApplyClicked PROVE Consented'
  <2>1. CASE cleanup
    <3>1. modal' = [open |-> TRUE, paths |-> Listed] /\ skip' = skip /\ UNCHANGED <<plan, deletes, history>>
      BY <1>5, <2>1 DEF ApplyClicked, user, workers
    <3>2. (Rows \ skip) \ Ineligible \subseteq Listed
      BY DEF Listed
    <3> QED BY <1>1, <3>1, <3>2 DEF Consented
  <2>2. CASE ~cleanup
    <3>1. DoApply({}) /\ modal' = modal /\ ~modal.open
      BY <1>5, <2>2 DEF ApplyClicked, Free
    <3> QED BY <1>4, <2>2, <3>1 DEF Consented
  <2> QED BY <2>1, <2>2
<1>6. ASSUME NEW yes, AnswerModal(yes) PROVE Consented'
  <2>1. modal.open /\ modal' = [open |-> FALSE, paths |-> {}]
    BY <1>6 DEF AnswerModal
  <2>2. CASE yes
    <3>1. DoApply(modal.paths) /\ modal.paths \in SUBSET Rows
      BY <1>6, <2>2 DEF AnswerModal, Typed
    <3> QED BY <1>4, <2>1, <3>1 DEF Consented
  <2>3. CASE ~yes
    BY <1>1, <1>6, <2>1, <2>3 DEF AnswerModal, workers, Consented
  <2> QED BY <2>2, <2>3
<1>7. ASSUME UNCHANGED <<modal, skip, plan, deletes, history>> PROVE Consented'
  BY <1>1, <1>7 DEF Consented
<1>8. ASSUME NEW r \in Runs, Worker(r) PROVE Consented'
  BY <1>7, <1>8 DEF Worker, user
<1>9. DismissBox \/ EventLoop \/ UNCHANGED vars => UNCHANGED <<modal, skip, plan, deletes, history>>
  BY DEF DismissBox, EventLoop, vars, user, workers
<1>10. ASSUME NEW r \in Rows, ToggleSkip(r) PROVE Consented'
  BY <1>2, <1>10 DEF ToggleSkip
<1>11. DropPaths => Consented'
  BY <1>2 DEF DropPaths
<1> QED BY <1>3, <1>5, <1>6, <1>7, <1>8, <1>9, <1>10, <1>11 DEF Next

-----------------------------------------------------------------------------
(* One run at a time                                                       *)

Core == Alone /\ Queued /\ Followed

\* Steps that leave runs, threads and queue alone.
LEMMA Quiet ==
  ASSUME Typed, Core,
         UNCHANGED <<queue, thread, applyThread, planInFlight, plan, emitted, runs, progress, crashed>>,
         report' \in {report, [result |-> 0, plan |-> 0]}
  PROVE  Core'
<1>1. Alone'
  BY DEF Core, Alone
<1>2. Queued'
  BY DEF Core, Queued, InQueue
<1>3. \A i : Reached(i)' = Reached(i) /\ \A s : InQueue(i, s)' = InQueue(i, s)
  BY DEF Reached, InQueue
<1>4. report'.result = report'.plan /\ report'.result \in {0, report.result} /\ report'.result <= runs
  BY Bounds DEF Core, Followed, Typed
<1>5. Followed'
  BY <1>3, <1>4, Bounds DEF Core, Followed, Typed
<1> QED BY <1>1, <1>2, <1>5 DEF Core

\* Before any two overlapped, a run starts when all others have exited.
LEMMA CoreStart ==
  ASSUME Typed, Core, NEW c, StartRun(c), applyThread = 0, UNCHANGED <<queue, crashed>>
  PROVE  Core'
<1>1. PICK p \in SUBSET (Rows \ skip) :
           /\ runs' = runs + 1 /\ runs' \in Runs
           /\ plan' = [plan EXCEPT ![runs'] = p]
           /\ deletes' = [deletes EXCEPT ![runs'] = CleanupAtStart]
           /\ consent' = [consent EXCEPT ![runs'] = c]
           /\ toggle' = [toggle EXCEPT ![runs'] = cleanup]
           /\ progress' = [shown |-> TRUE, value |-> 0]
           /\ applyThread' = runs' /\ planInFlight' = runs'
           /\ thread' = [thread EXCEPT ![runs'] = "working"]
           /\ overlapped' = (overlapped \/ applyThread # 0)
           /\ UNCHANGED <<report, emitted>>
  BY Starts
<1>2. runs \in Nat /\ runs' # 0 /\ Len(queue) \in Nat
  BY <1>1, Bounds DEF Typed
<1>3. \A i \in 1 .. Len(queue) : InQueue(i, {"delete"}) /\ thread[queue[i].run] = "exited" /\ queue[i].run \in Runs
  <2> SUFFICES ASSUME NEW i \in 1 .. Len(queue)
               PROVE  InQueue(i, {"delete"}) /\ thread[queue[i].run] = "exited" /\ queue[i].run \in Runs
    OBVIOUS
  <2>1. queue[i] \in Events
    BY DEF Typed
  <2> QED BY <2>1 DEF Core, Queued, Events
<1>4. thread[runs'] = "none" /\ emitted[runs'] = 0
  BY <1>1, <1>2 DEF Core, Alone
<1>5. Alone'
  BY <1>1, <1>2 DEF Core, Alone, Runs, Typed
<1>6. \A i \in 1 .. Len(queue) : thread'[queue[i].run] = "exited"
  BY <1>1, <1>3, <1>4 DEF Typed
<1>7. \A i \in 1 .. Len(queue) : \A s : InQueue(i, s)' = InQueue(i, s)
  BY DEF InQueue
<1>8. \A i \in 1 .. Len(queue) : queue[i].kind = "delete"
  BY <1>3 DEF InQueue
<1>9. Queued'
  BY <1>6, <1>8 DEF Queued, InQueue
<1>10. Reached(Len(queue))' = 0
  BY <1>1, <1>2, <1>8 DEF Reached, InQueue
<1>11. report' = report /\ report.result # runs' /\ report.result <= runs'
  BY <1>1, <1>2 DEF Core, Followed, Typed
<1>12. Followed'
  BY <1>1, <1>4, <1>8, <1>10, <1>11 DEF Core, Followed, InQueue
<1> QED BY <1>5, <1>9, <1>12 DEF Core

\* The run whose worker takes a step is the one the window holds, and the queue
\* holds what it may.
LEMMA Holder ==
  ASSUME Typed, Core, NEW r \in Runs, thread[r] \in {"working", "looping", "quitting"}
  PROVE  r = applyThread /\ r = runs
<1>1. r \in Nat /\ r # 0 /\ runs \in Nat /\ applyThread \in {0, runs}
  BY Bounds DEF Typed, Runs
<1>2. ~(r > runs)
  BY DEF Core, Alone
<1>3. r = applyThread
  BY <1>1, <1>2 DEF Core, Alone
<1> QED BY <1>1, <1>3

LEMMA CoreEmitOp ==
  ASSUME Typed, Core, NEW r \in Runs, EmitOp(r),
         UNCHANGED <<applyThread, planInFlight, plan, runs, progress, report, crashed>>
  PROVE  Core'
<1> USE DEF Core
<1>1. r = applyThread /\ r = runs /\ thread[r] = "working" /\ applyThread # 0
  BY Holder, Bounds DEF EmitOp, Runs
<1>2. /\ thread' = thread /\ emitted' = [emitted EXCEPT ![r] = emitted[r] + 1]
      /\ Post(<<"op">>, r, emitted[r] + 1)
  BY DEF EmitOp
<1>3. emitted[r] + 1 \in Nat /\ "op" \in Kinds
  BY DEF Kinds, Typed
<1>4. Len(queue) \in Nat
  BY DEF Typed
<1>5. /\ Len(queue') = Len(queue) + 1
      /\ \A i \in 1 .. Len(queue) : queue'[i] = queue[i]
      /\ queue'[Len(queue) + 1] = [kind |-> "op", run |-> r, op |-> emitted[r] + 1]
  BY <1>2, <1>3, PostsOne DEF Typed
<1>6. Alone'
  BY <1>1, <1>2, Bounds DEF Alone, Typed, Runs
<1>7. \A i \in 1 .. Len(queue) : queue[i].kind \in {"delete", "op"}
  <2> SUFFICES ASSUME NEW i \in 1 .. Len(queue) PROVE queue[i].kind \in {"delete", "op"}
    OBVIOUS
  <2>1. queue[i] \in Events
    BY DEF Typed
  <2> QED BY <1>1, <2>1 DEF Queued, InQueue, Events, Kinds
<1>8. \A i \in 1 .. Len(queue') : queue'[i].kind \in {"delete", "op"}
  BY <1>4, <1>5, <1>7
<1>9. Queued'
  <2> SUFFICES ASSUME NEW i \in 1 .. Len(queue')
               PROVE  /\ InQueue(i, {"delete"})' => thread'[queue'[i].run] = "exited"
                      /\ ~InQueue(i, {"delete"})' =>
                           /\ applyThread # 0 /\ queue'[i].run = applyThread
                           /\ \A j \in 1 .. Len(queue') : i < j => ~InQueue(j, {"delete"})'
    BY <1>1, <1>2, <1>8 DEF Queued, InQueue
  <2>1. CASE i \in 1 .. Len(queue)
    <3>1. queue'[i] = queue[i] /\ \A j \in 1 .. Len(queue') : j \in 1 .. Len(queue) \/ j = Len(queue) + 1
      BY <1>4, <1>5, <2>1
    <3> QED BY <1>2, <1>5, <2>1, <3>1 DEF Queued, InQueue
  <2>2. CASE i = Len(queue) + 1
    BY <1>1, <1>4, <1>5, <2>2 DEF InQueue
  <2> QED BY <1>4, <1>5, <2>1, <2>2
<1>10. Reached(Len(queue))' = emitted'[applyThread]
  BY <1>1, <1>2, <1>4, <1>5 DEF Reached, InQueue, Typed
<1>11. Followed'
  BY <1>1, <1>2, <1>8, <1>10 DEF Followed, InQueue
<1> QED BY <1>6, <1>9, <1>11

\* The worker ends: its outcome and the order to quit are the last it posts.
LEMMA CoreEmitEnd ==
  ASSUME Typed, Core, NEW r \in Runs, EmitFinished(r) \/ EmitFailed(r),
         UNCHANGED <<applyThread, planInFlight, plan, runs, progress, report, crashed>>
  PROVE  Core'
<1> USE DEF Core
<1>1. r = applyThread /\ r = runs /\ thread[r] = "working" /\ applyThread # 0
  BY Holder, Bounds DEF EmitFinished, EmitFailed, Runs
<1>2. PICK k \in {"apply_finished", "apply_failed"} :
        /\ thread' = [thread EXCEPT ![r] = "looping"] /\ emitted' = emitted
        /\ Post(<<k, "quit">>, r, 0)
        /\ k = "apply_finished" => emitted[r] = Cardinality(plan[r])
  BY DEF EmitFinished, EmitFailed
<1>3. k \in Kinds /\ "quit" \in Kinds
  BY DEF Kinds
<1>4. Len(queue) \in Nat
  BY DEF Typed
<1>5. /\ Len(queue') = Len(queue) + 2
      /\ \A i \in 1 .. Len(queue) : queue'[i] = queue[i]
      /\ queue'[Len(queue) + 1] = [kind |-> k, run |-> r, op |-> 0]
      /\ queue'[Len(queue) + 2] = [kind |-> "quit", run |-> r, op |-> 0]
  BY <1>2, <1>3, PostsTwo DEF Typed
<1>6. Alone'
  BY <1>1, <1>2, Bounds DEF Alone, Typed, Runs
<1>7. \A i \in 1 .. Len(queue) : queue[i].kind \in {"delete", "op"} /\ queue[i].run \in Runs
  <2> SUFFICES ASSUME NEW i \in 1 .. Len(queue) PROVE queue[i].kind \in {"delete", "op"} /\ queue[i].run \in Runs
    OBVIOUS
  <2>1. queue[i] \in Events
    BY DEF Typed
  <2> QED BY <1>1, <2>1 DEF Queued, InQueue, Events, Kinds
<1>8. thread'[applyThread] = "looping" /\ \A s \in Runs : thread[s] = "exited" => thread'[s] = "exited"
  BY <1>1, <1>2 DEF Typed
<1>9. Queued'
  <2> SUFFICES ASSUME NEW i \in 1 .. Len(queue')
               PROVE  /\ queue'[i].kind = "delete" => thread'[queue'[i].run] = "exited"
                      /\ queue'[i].kind # "delete" =>
                           /\ queue'[i].run = applyThread
                           /\ \A j \in 1 .. Len(queue') : i < j => queue'[j].kind # "delete"
                      /\ queue'[i].kind \in {"apply_finished", "apply_failed"} =>
                           \A j \in 1 .. Len(queue') : i < j => queue'[j].kind = "quit"
                      /\ queue'[i].kind = "quit" => i = Len(queue')
                      /\ queue'[i].kind # "thread_finished"
    BY <1>1, <1>8 DEF Queued, InQueue
  <2>0. \A j \in 1 .. Len(queue') : j \in 1 .. Len(queue) \/ j = Len(queue) + 1 \/ j = Len(queue) + 2
    BY <1>4, <1>5
  <2>1. CASE i \in 1 .. Len(queue)
    <3>1. queue'[i] = queue[i] /\ queue[i].kind \in {"delete", "op"} /\ queue[i].run \in Runs
      BY <1>5, <1>7, <2>1
    <3>2. queue[i].kind = "delete" => thread[queue[i].run] = "exited"
      BY <2>1 DEF Queued, InQueue
    <3>3. queue[i].kind # "delete" => /\ queue[i].run = applyThread
                                      /\ \A j \in 1 .. Len(queue) : i < j => queue[j].kind # "delete"
      BY <2>1 DEF Queued, InQueue
    <3> QED BY <1>2, <1>5, <1>8, <2>0, <3>1, <3>2, <3>3
  <2>2. CASE i = Len(queue) + 1
    BY <1>1, <1>2, <1>4, <1>5, <2>0, <2>2
  <2>3. CASE i = Len(queue) + 2
    BY <1>1, <1>4, <1>5, <2>0, <2>3
  <2> QED BY <2>0, <2>1, <2>2, <2>3
<1>10. Reached(Len(queue)) = emitted[applyThread]
  BY <1>1 DEF Followed
<1>11. ASSUME NEW i \in 1 .. Len(queue'), InQueue(i, {"apply_finished"})'
       PROVE  Reached(i - 1)' = Cardinality(plan[applyThread])
  <2>1. i = Len(queue) + 1 /\ k = "apply_finished"
    <3>1. i \in 1 .. Len(queue) \/ i = Len(queue) + 1 \/ i = Len(queue) + 2
      BY <1>4, <1>5
    <3> QED BY <1>5, <1>7, <1>11, <3>1 DEF InQueue
  <2>2. i - 1 = Len(queue)
    BY <1>4, <2>1
  <2>3. Len(queue) # 0 => queue'[Len(queue)] = queue[Len(queue)]
    BY <1>4, <1>5
  <2>4. Reached(i - 1)' = Reached(Len(queue))
    BY <2>2, <2>3 DEF Reached, InQueue
  <2> QED BY <1>1, <1>2, <1>10, <2>1, <2>4
<1>12. report.result # runs
  BY <1>1, Bounds DEF Followed, Typed
<1>13. Followed'
  BY <1>8, <1>11, <1>12 DEF Followed
<1> QED BY <1>6, <1>9, <1>13

\* The thread leaves its loop: the queue holds nothing of its run any more.
LEMMA CoreExits ==
  ASSUME Typed, Core, NEW r \in Runs, ThreadExits(r),
         UNCHANGED <<applyThread, planInFlight, plan, runs, progress, report, crashed>>
  PROVE  Core'
<1> USE DEF Core
<1>1. r = applyThread /\ r = runs /\ thread[r] = "quitting" /\ applyThread # 0
  BY Holder, Bounds DEF ThreadExits, Runs
<1>2. /\ thread' = [thread EXCEPT ![r] = "exited"] /\ emitted' = emitted
      /\ Post(<<"thread_finished">>, r, 0)
  BY DEF ThreadExits
<1>3. "thread_finished" \in Kinds
  BY DEF Kinds
<1>4. Len(queue) \in Nat
  BY DEF Typed
<1>5. /\ Len(queue') = Len(queue) + 1
      /\ \A i \in 1 .. Len(queue) : queue'[i] = queue[i]
      /\ queue'[Len(queue) + 1] = [kind |-> "thread_finished", run |-> r, op |-> 0]
  BY <1>2, <1>3, PostsOne DEF Typed
<1>6. Alone'
  BY <1>1, <1>2, Bounds DEF Alone, Typed, Runs
<1>7. \A i \in 1 .. Len(queue) : queue[i].kind = "delete" /\ queue[i].run \in Runs /\ thread[queue[i].run] = "exited"
  <2> SUFFICES ASSUME NEW i \in 1 .. Len(queue)
               PROVE  queue[i].kind = "delete" /\ queue[i].run \in Runs /\ thread[queue[i].run] = "exited"
    OBVIOUS
  <2>1. queue[i] \in Events
    BY DEF Typed
  <2> QED BY <1>1, <2>1 DEF Queued, InQueue, Events, Kinds
<1>8. thread'[applyThread] = "exited" /\ \A s \in Runs : thread[s] = "exited" => thread'[s] = "exited"
  BY <1>1, <1>2 DEF Typed
<1>9. \A i \in 1 .. Len(queue') :
        \/ /\ i # Len(queue') /\ queue'[i].kind = "delete"
           /\ thread'[queue'[i].run] = "exited"
        \/ i = Len(queue') /\ queue'[i].kind = "thread_finished" /\ queue'[i].run = applyThread
  <2> SUFFICES ASSUME NEW i \in 1 .. Len(queue')
               PROVE  \/ /\ i # Len(queue') /\ queue'[i].kind = "delete"
                         /\ thread'[queue'[i].run] = "exited"
                      \/ i = Len(queue') /\ queue'[i].kind = "thread_finished" /\ queue'[i].run = applyThread
    OBVIOUS
  <2>1. i \in 1 .. Len(queue) \/ i = Len(queue) + 1
    BY <1>4, <1>5
  <2>2. CASE i \in 1 .. Len(queue)
    BY <1>4, <1>5, <1>7, <1>8, <2>2
  <2>3. CASE i = Len(queue) + 1
    BY <1>1, <1>4, <1>5, <2>3
  <2> QED BY <2>1, <2>2, <2>3
<1>10. Queued'
  <2>1. Len(queue') \in Nat
    BY <1>4, <1>5
  <2> QED BY <1>1, <1>8, <1>9, <2>1 DEF Queued, InQueue
<1>11. Followed'
  BY <1>1, <1>8, <1>9 DEF Followed, InQueue
<1> QED BY <1>6, <1>10, <1>11

-----------------------------------------------------------------------------
(* The event loop                                                          *)

LEMMA Shifts ==
  ASSUME Typed, queue # <<>>, queue' = Tail(queue)
  PROVE  /\ Len(queue) \in Nat \ {0} /\ Len(queue') = Len(queue) - 1
         /\ \A i \in 1 .. Len(queue') : i + 1 \in 1 .. Len(queue) /\ queue'[i] = queue[i + 1]
<1>1. /\ Len(queue) \in Nat \ {0} /\ Len(queue') = Len(queue) - 1
      /\ \A i \in 1 .. Len(queue') : queue'[i] = queue[i + 1]
  BY Pops DEF Typed
<1>2. \A n \in Nat \ {0} : \A i : i \in 1 .. n - 1 => i + 1 \in 1 .. n
  OBVIOUS
<1>3. \A i \in 1 .. Len(queue') : i + 1 \in 1 .. Len(queue)
  BY <1>1, <1>2
<1> QED BY <1>1, <1>3

LEMMA QueuedShifts ==
  ASSUME Typed, Queued, queue # <<>>, queue' = Tail(queue), UNCHANGED <<thread, applyThread>>
  PROVE  Queued'
<1>1. /\ Len(queue) \in Nat \ {0} /\ Len(queue') = Len(queue) - 1
      /\ \A i \in 1 .. Len(queue') : i + 1 \in 1 .. Len(queue) /\ queue'[i] = queue[i + 1]
  BY Shifts
<1>2. \A i, j \in 1 .. Len(queue') : i < j => i + 1 < j + 1
  BY <1>1
<1>3. \A i \in 1 .. Len(queue') : \A s : InQueue(i, s)' <=> InQueue(i + 1, s)
  BY <1>1 DEF InQueue
<1>4. \A i \in 1 .. Len(queue') : i + 1 = Len(queue) => i = Len(queue')
  <2>1. \A n \in Nat \ {0} : \A i : i \in 1 .. n - 1 /\ i + 1 = n => i = n - 1
    OBVIOUS
  <2> QED BY <1>1, <2>1
<1> SUFFICES ASSUME NEW i \in 1 .. Len(queue')
             PROVE  /\ InQueue(i + 1, {"delete"}) => thread[queue[i + 1].run] = "exited"
                    /\ ~InQueue(i + 1, {"delete"}) =>
                         /\ applyThread # 0 /\ queue[i + 1].run = applyThread
                         /\ \A j \in 1 .. Len(queue') : i < j => ~InQueue(j + 1, {"delete"})
                    /\ InQueue(i + 1, {"op"}) => thread[applyThread] \in {"working", "looping"}
                    /\ InQueue(i + 1, {"apply_finished", "apply_failed"}) =>
                         /\ thread[applyThread] = "looping"
                         /\ \A j \in 1 .. Len(queue') : i < j => InQueue(j + 1, {"quit"})
                    /\ InQueue(i + 1, {"quit"}) => thread[applyThread] = "looping" /\ i + 1 = Len(queue)
                    /\ InQueue(i + 1, {"thread_finished"}) => thread[applyThread] = "exited" /\ i + 1 = Len(queue)
  BY <1>1, <1>3, <1>4 DEF Queued
<1> QED BY <1>1, <1>2 DEF Queued

LEMMA FollowedShifts ==
  ASSUME Typed, Followed, queue # <<>>, queue' = Tail(queue),
         UNCHANGED <<report, applyThread, thread, plan, emitted, runs>>,
         \A i \in 0 .. Len(queue') : Reached(i)' = Reached(i + 1),
         progress'.value = progress.value \/ InQueue(1, {"op"})
  PROVE  Followed'
<1>1. /\ Len(queue) \in Nat \ {0} /\ Len(queue') = Len(queue) - 1
      /\ \A i \in 1 .. Len(queue') : i + 1 \in 1 .. Len(queue) /\ queue'[i] = queue[i + 1]
  BY Shifts
<1>2. applyThread # 0 /\ thread[applyThread] = "working" => Reached(Len(queue))' = emitted[applyThread]
  <2>1. Len(queue') \in 0 .. Len(queue') /\ Len(queue') + 1 = Len(queue)
    BY <1>1
  <2> QED BY <2>1 DEF Followed
<1>3. \A i \in 1 .. Len(queue') :
        InQueue(i, {"apply_finished"})' => Reached(i - 1)' = Cardinality(plan[applyThread])
  <2> SUFFICES ASSUME NEW i \in 1 .. Len(queue'), InQueue(i, {"apply_finished"})'
               PROVE  Reached(i - 1)' = Cardinality(plan[applyThread])
    OBVIOUS
  <2>1. i + 1 \in 1 .. Len(queue) /\ InQueue(i + 1, {"apply_finished"})
    BY <1>1 DEF InQueue
  <2>2. Reached((i + 1) - 1) = Cardinality(plan[applyThread])
    BY <2>1 DEF Followed
  <2>3. i - 1 \in 0 .. Len(queue') /\ (i - 1) + 1 = (i + 1) - 1
    BY <1>1
  <2>4. Reached(i - 1)' = Reached((i - 1) + 1)
    BY <2>3
  <2> QED BY <2>2, <2>3, <2>4
<1>4. ASSUME runs > 0, report.result = runs
      PROVE  /\ progress'.value = Cardinality(plan[runs])
             /\ \A i \in 1 .. Len(queue') : ~InQueue(i, {"op"})'
  <2>1. 1 \in 1 .. Len(queue)
    BY <1>1
  <2> QED BY <1>1, <1>4, <2>1 DEF Followed, InQueue
<1>5. /\ report.result = report.plan /\ report.result <= runs
      /\ runs > 0 /\ report.result = runs => thread[runs] # "working"
  BY DEF Followed
<1> QED BY <1>2, <1>3, <1>4, <1>5 DEF Followed

LEMMA CoreOpEvent ==
  ASSUME Typed, Core, queue # <<>>, NEW e, e = queue[1], e.kind = "op",
         progress' = [progress EXCEPT !.value = e.op], queue' = Tail(queue),
         UNCHANGED <<report, applyThread, planInFlight, thread, crashed, plan, emitted, runs>>
  PROVE  Core'
<1> USE DEF Core
<1>1. /\ Len(queue) \in Nat \ {0} /\ Len(queue') = Len(queue) - 1
      /\ \A i \in 1 .. Len(queue') : i + 1 \in 1 .. Len(queue) /\ queue'[i] = queue[i + 1]
  BY Shifts
<1>2. Alone' /\ Queued'
  BY QueuedShifts DEF Alone
<1>3. 1 \in 1 .. Len(queue) /\ InQueue(1, {"op"}) /\ ~InQueue(1, {"delete"})
  BY <1>1 DEF InQueue
<1>4. applyThread # 0 /\ \A j \in 1 .. Len(queue) : 1 < j => ~InQueue(j, {"delete"})
  BY <1>3 DEF Queued
<1>5. progress'.value = e.op
  BY DEF Typed
<1>6. \A i \in 0 .. Len(queue') : Reached(i)' = Reached(i + 1)
  <2> SUFFICES ASSUME NEW i \in 0 .. Len(queue') PROVE Reached(i)' = Reached(i + 1)
    OBVIOUS
  <2>1. CASE i = 0
    BY <1>3, <1>5, <2>1 DEF Reached, InQueue
  <2>2. CASE i # 0
    <3>1. i \in 1 .. Len(queue') /\ i + 1 \in 1 .. Len(queue) /\ 1 < i + 1 /\ i + 1 # 0
      BY <1>1, <2>2
    <3>2. ~InQueue(i + 1, {"delete"}) /\ queue'[i] = queue[i + 1]
      BY <1>1, <1>4, <3>1
    <3> QED BY <2>2, <3>1, <3>2 DEF Reached, InQueue
  <2> QED BY <2>1, <2>2
<1> QED BY <1>2, <1>3, <1>6, FollowedShifts

\* Only threads that have exited are deleted.
LEMMA CoreDelete ==
  ASSUME Typed, Core, queue # <<>>, NEW e, e = queue[1], e.kind = "delete",
         crashed' = (crashed \/ Alive(e.run)), queue' = Tail(queue),
         UNCHANGED <<progress, report, applyThread, planInFlight, thread, plan, emitted, runs>>
  PROVE  Core'
<1> USE DEF Core
<1>1. /\ Len(queue) \in Nat \ {0} /\ Len(queue') = Len(queue) - 1
      /\ \A i \in 1 .. Len(queue') : i + 1 \in 1 .. Len(queue) /\ queue'[i] = queue[i + 1]
  BY Shifts
<1>2. 1 \in 1 .. Len(queue) /\ InQueue(1, {"delete"})
  BY <1>1 DEF InQueue
<1>3. thread[e.run] = "exited"
  BY <1>2 DEF Queued
<1>4. Alone' /\ Queued'
  BY <1>3, QueuedShifts DEF Alone, Alive
<1>5. \A i \in 0 .. Len(queue') : Reached(i)' = Reached(i + 1)
  <2> SUFFICES ASSUME NEW i \in 0 .. Len(queue') PROVE Reached(i)' = Reached(i + 1)
    OBVIOUS
  <2>1. CASE i = 0
    BY <1>2, <2>1 DEF Reached, InQueue
  <2>2. CASE i # 0
    <3>1. i \in 1 .. Len(queue') /\ i + 1 # 0
      BY <1>1, <2>2
    <3>2. queue'[i] = queue[i + 1]
      BY <1>1, <3>1
    <3> QED BY <2>2, <3>1, <3>2 DEF Reached, InQueue
  <2> QED BY <2>1, <2>2
<1> QED BY <1>4, <1>5, FollowedShifts

\* The outcome of a run finds the bar at its last op and nothing behind it but
\* the order to quit.
LEMMA CoreOutcome ==
  ASSUME Typed, Core, queue # <<>>, NEW e, e = queue[1], queue' = Tail(queue),
         \/ /\ e.kind = "apply_finished"
            /\ planInFlight # 0 => report' = [result |-> e.run, plan |-> planInFlight]
            /\ planInFlight = 0 => report' = report
         \/ e.kind = "apply_failed" /\ report' = report,
         progress'.value = progress.value,
         UNCHANGED <<applyThread, planInFlight, thread, crashed, plan, emitted, runs>>
  PROVE  Core'
<1> USE DEF Core
<1>1. /\ Len(queue) \in Nat \ {0} /\ Len(queue') = Len(queue) - 1
      /\ \A i \in 1 .. Len(queue') : i + 1 \in 1 .. Len(queue) /\ queue'[i] = queue[i + 1]
  BY Shifts
<1>2. Alone' /\ Queued'
  BY QueuedShifts DEF Alone
<1>3. 1 \in 1 .. Len(queue) /\ InQueue(1, {"apply_finished", "apply_failed"}) /\ ~InQueue(1, {"delete"})
  BY <1>1 DEF InQueue
<1>4. /\ applyThread # 0 /\ e.run = applyThread /\ thread[applyThread] = "looping"
      /\ \A j \in 1 .. Len(queue) : 1 < j => InQueue(j, {"quit"})
  BY <1>3 DEF Queued
<1>5. applyThread = runs /\ planInFlight = runs
  BY <1>4 DEF Typed, Alone
<1>6. \A i \in 1 .. Len(queue') : queue'[i].kind = "quit"
  <2> SUFFICES ASSUME NEW i \in 1 .. Len(queue') PROVE queue'[i].kind = "quit"
    OBVIOUS
  <2>1. i + 1 \in 1 .. Len(queue) /\ 1 < i + 1 /\ queue'[i] = queue[i + 1]
    BY <1>1
  <2> QED BY <1>4, <2>1 DEF InQueue
<1>7. report'.result = report'.plan /\ report'.result <= runs
  <2>1. report.result = report.plan /\ report.result <= runs /\ runs <= runs
    BY Bounds DEF Followed, Typed
  <2> QED BY <1>4, <1>5, <2>1
<1>8. report'.result = runs => progress'.value = Cardinality(plan[runs])
  <2>1. CASE e.kind = "apply_finished"
    <3>1. InQueue(1, {"apply_finished"})
      BY <2>1 DEF InQueue
    <3>2. Reached(1 - 1) = Cardinality(plan[applyThread])
      BY <1>3, <3>1 DEF Followed
    <3>3. Reached(1 - 1) = progress.value
      BY DEF Reached
    <3> QED BY <1>5, <3>2, <3>3
  <2>2. CASE e.kind = "apply_failed"
    <3>1. report' = report /\ runs > 0
      BY <1>4, <1>5, <2>2, Bounds DEF Typed
    <3> QED BY <3>1 DEF Followed
  <2> QED BY <2>1, <2>2
<1>9. Followed'
  BY <1>4, <1>5, <1>6, <1>7, <1>8 DEF Followed, InQueue
<1> QED BY <1>2, <1>9

\* The order to quit is the last event of its run.
LEMMA CoreQuit ==
  ASSUME Typed, Core, queue # <<>>, NEW e, e = queue[1], e.kind = "quit", queue' = Tail(queue),
         thread' = [thread EXCEPT ![e.run] = "quitting"],
         UNCHANGED <<progress, report, applyThread, planInFlight, crashed, plan, emitted, runs>>
  PROVE  Core'
<1> USE DEF Core
<1>1. Len(queue) \in Nat \ {0} /\ Len(queue') = Len(queue) - 1
  BY Shifts
<1>2. 1 \in 1 .. Len(queue) /\ InQueue(1, {"quit"}) /\ ~InQueue(1, {"delete"})
  BY <1>1 DEF InQueue
<1>3. applyThread # 0 /\ e.run = applyThread /\ 1 = Len(queue)
  BY <1>2 DEF Queued
<1>4. \A i \in 1 .. Len(queue') : FALSE
  <2>1. Len(queue') = 1 - 1
    BY <1>1, <1>3
  <2>2. \A i \in 1 .. 1 - 1 : FALSE
    OBVIOUS
  <2> QED BY <2>1, <2>2
<1>5. applyThread = runs /\ applyThread \in Runs /\ thread' = [thread EXCEPT ![applyThread] = "quitting"]
  BY <1>3, Bounds DEF Typed, Runs
<1>6. thread'[runs] = "quitting" /\ \A r \in Runs : r # applyThread => thread'[r] = thread[r]
  BY <1>5 DEF Typed
<1>7. Alone'
  <2>1. ~(runs > runs)
    BY Bounds DEF Typed
  <2> QED BY <1>5, <1>6, <2>1 DEF Alone
<1>8. Queued' /\ Followed'
  BY <1>4, <1>5, <1>6 DEF Queued, Followed
<1> QED BY <1>7, <1>8

\* A finished thread is the one the window holds, and it has exited.
LEMMA CoreTeardown ==
  ASSUME Typed, Core, queue # <<>>, NEW e, e = queue[1], e.kind = "thread_finished",
         queue' = Tail(queue) \o
           (IF applyThread = 0 THEN <<>>
            ELSE <<[kind |-> "delete", run |-> applyThread, op |-> 0]>>),
         applyThread' = 0, planInFlight' = 0,
         UNCHANGED <<progress, report, thread, crashed, plan, emitted, runs>>
  PROVE  Core'
<1> USE DEF Core
<1>1. /\ Len(queue) \in Nat \ {0} /\ Tail(queue) \in Seq(Events)
      /\ Len(Tail(queue)) = Len(queue) - 1
  BY Pops DEF Typed
<1>2. 1 \in 1 .. Len(queue) /\ InQueue(1, {"thread_finished"}) /\ ~InQueue(1, {"delete"})
  BY <1>1 DEF InQueue
<1>3. applyThread # 0 /\ thread[applyThread] = "exited" /\ 1 = Len(queue)
  BY <1>2 DEF Queued
<1>4. Len(queue') = 1 /\ queue'[1] = [kind |-> "delete", run |-> applyThread, op |-> 0]
  <2> DEFINE d == [kind |-> "delete", run |-> applyThread, op |-> 0]
             s == <<d>>
             t == Tail(queue)
  <2>1. d \in Events
    BY <1>3, Bounds DEF Typed, Events, Kinds, Runs
  <2>2. queue' = t \o s
    BY <1>3
  <2>3. t \in Seq(Events) /\ Len(t) = 0
    <3>1. Len(t) = 1 - 1
      BY <1>1, <1>3
    <3>2. t \in Seq(Events)
      BY <1>1
    <3>3. \A n : n = 1 - 1 => n = 0
      OBVIOUS
    <3> QED BY <3>1, <3>2, <3>3
  <2> HIDE DEF d, t
  <2>4. s \in Seq(Events) /\ Len(s) = 1 /\ s[1] = d
    BY <2>1
  <2> HIDE DEF s
  <2>5. /\ Len(t \o s) = Len(t) + Len(s)
        /\ \A i \in 1 .. Len(t) + Len(s) : (t \o s)[i] = IF i <= Len(t) THEN t[i] ELSE s[i - Len(t)]
    BY <2>3, <2>4, ConcatProperties
  <2>6. Len(queue') = 0 + 1 /\ \A i \in 1 .. 0 + 1 : queue'[i] = IF i <= 0 THEN t[i] ELSE s[i - 0]
    BY <2>2, <2>3, <2>4, <2>5
  <2>7. 1 \in 1 .. 0 + 1 /\ ~(1 <= 0) /\ 1 - 0 = 1 /\ 0 + 1 = 1
    OBVIOUS
  <2> QED BY <2>4, <2>6, <2>7 DEF d
<1>5. Alone'
  BY <1>3 DEF Alone
<1>6. Queued'
  BY <1>3, <1>4 DEF Queued, InQueue
<1>7. Followed'
  <2>1. runs > 0 /\ report.result = runs => thread[runs] # "working"
    BY DEF Followed
  <2> QED BY <1>4, <2>1 DEF Followed, InQueue
<1> QED BY <1>5, <1>6, <1>7

LEMMA CoreEventLoop == Typed /\ Core /\ EventLoop => Core'
<1> SUFFICES ASSUME Typed, Core, EventLoop PROVE Core'
  OBVIOUS
<1>1. queue # <<>> /\ UNCHANGED <<plan, emitted, runs>>
  BY DEF EventLoop, workers
<1>2. PICK e : e = queue[1] /\ \/ OnOpEvent(e) \/ OnApplyFinished(e) \/ OnApplyFailed(e) \/ OnQuit(e)
                               \/ TeardownApplyThread(e) \/ OnDelete(e)
  <2>1. Head(queue) = queue[1]
    BY <1>1, Pops DEF Typed
  <2> QED BY <2>1 DEF EventLoop
<1>3. CASE OnOpEvent(e)
  BY <1>1, <1>2, <1>3, CoreOpEvent DEF OnOpEvent
<1>4. CASE OnApplyFinished(e) \/ OnApplyFailed(e)
  <2>1. /\ queue' = Tail(queue)
        /\ UNCHANGED <<applyThread, planInFlight, thread, crashed>>
        /\ progress' = progress \/ progress' = [progress EXCEPT !.shown = FALSE]
        /\ \/ /\ e.kind = "apply_finished"
              /\ planInFlight # 0 => report' = [result |-> e.run, plan |-> planInFlight]
              /\ planInFlight = 0 => report' = report
           \/ e.kind = "apply_failed" /\ report' = report
    BY <1>4 DEF OnApplyFinished, OnApplyFailed, widgets
  <2>2. progress'.value = progress.value
    BY <2>1 DEF Typed
  <2> QED BY <1>1, <1>2, <2>1, <2>2, CoreOutcome
<1>5. CASE OnQuit(e)
  BY <1>1, <1>2, <1>5, CoreQuit DEF OnQuit, widgets
<1>6. CASE TeardownApplyThread(e)
  BY <1>1, <1>2, <1>6, CoreTeardown DEF TeardownApplyThread, widgets
<1>7. CASE OnDelete(e)
  BY <1>1, <1>2, <1>7, CoreDelete DEF OnDelete, widgets
<1> QED BY <1>2, <1>3, <1>4, <1>5, <1>6, <1>7

-----------------------------------------------------------------------------
(* The theorems                                                            *)

LEMMA CoreApply ==
  ASSUME Typed, Core, NEW c, DoApply(c), ~overlapped', UNCHANGED <<queue, crashed>>
  PROVE  Core'
<1>1. CASE StartRun(c)
  BY <1>1, CoreStart DEF StartRun
<1>2. CASE ~StartRun(c)
  BY <1>2, Quiet DEF DoApply, workers
<1> QED BY <1>1, <1>2

LEMMA CoreStep == Typed /\ Core /\ [Next]_vars /\ ~overlapped' => Core'
<1> SUFFICES ASSUME Typed, Core, [Next]_vars, ~overlapped' PROVE Core'
  OBVIOUS
<1>1. ASSUME UNCHANGED <<queue, thread, applyThread, planInFlight, plan, emitted, runs, progress,
                         crashed, report>>
      PROVE  Core'
  BY <1>1, Quiet
<1>2. ASSUME NEW s, SetSkip(s) PROVE Core'
  BY <1>1, <1>2 DEF SetSkip, workers
<1>3. ASSUME NEW on, SaveSettings(on) PROVE Core'
  BY <1>1, <1>3 DEF SaveSettings, workers
<1>4. ASSUME ApplyClicked PROVE Core'
  <2>1. CASE cleanup
    BY <1>1, <1>4, <2>1 DEF ApplyClicked, widgets, workers
  <2>2. CASE ~cleanup
    <3>1. DoApply({}) /\ UNCHANGED <<queue, crashed>>
      BY <1>4, <2>2 DEF ApplyClicked
    <3> QED BY <3>1, CoreApply
  <2> QED BY <2>1, <2>2
<1>5. ASSUME NEW yes, AnswerModal(yes) PROVE Core'
  <2>1. CASE yes
    <3>1. DoApply(modal.paths) /\ UNCHANGED <<queue, crashed>>
      BY <1>5, <2>1 DEF AnswerModal
    <3> QED BY <3>1, CoreApply
  <2>2. CASE ~yes
    BY <1>1, <1>5, <2>2 DEF AnswerModal, widgets, workers
  <2> QED BY <2>1, <2>2
<1>6. ASSUME NEW r \in Runs, Worker(r) PROVE Core'
  <2>1. UNCHANGED <<applyThread, planInFlight, plan, runs, progress, report, crashed>>
    BY <1>6 DEF Worker, widgets
  <2> QED BY <1>6, <2>1, CoreEmitOp, CoreEmitEnd, CoreExits DEF Worker
<1>7. DismissBox \/ UNCHANGED vars => Core'
  BY <1>1 DEF DismissBox, vars, widgets, workers
<1>8. EventLoop => Core'
  BY CoreEventLoop
<1>9. ASSUME NEW r \in Rows, ToggleSkip(r) PROVE Core'
  BY <1>2, <1>9 DEF ToggleSkip
<1>10. DropPaths => Core'
  BY <1>2 DEF DropPaths
<1> QED BY <1>3, <1>4, <1>5, <1>6, <1>7, <1>8, <1>9, <1>10 DEF Next

\* Once two runs have overlapped, they have.
LEMMA OverlapStays == [Next]_vars /\ overlapped => overlapped'
BY DEF Next, ToggleSkip, DropPaths, SetSkip, SaveSettings, ApplyClicked, AnswerModal, DoApply,
   StartRun, DismissBox, Worker, EventLoop, vars

LEMMA Inductive == Spec => []IInv
<1>1. Init => Core
  <2> SUFFICES ASSUME Init PROVE Core
    OBVIOUS
  <2>1. runs = 0 /\ applyThread = 0 /\ queue = <<>> /\ 1 .. Len(queue) = {}
    BY DEF Init
  <2> QED BY <2>1 DEF Init, Core, Alone, Queued, Followed, Runs
<1>2. Init => IInv
  BY <1>1, TypedInit DEF Init, IInv, Core, Consented, DeletesOnlyConfirmed, Removes
<1>3. IInv /\ [Next]_vars => IInv'
  BY TypedStep, ConsentStep, CoreStep, OverlapStays DEF IInv, Core
<1> QED BY <1>2, <1>3, PTL DEF Spec

\* If the cleanup toggle is as main() found it, no run removes a video its user
\* did not see listed and confirm, beyond those the preview leaves out: no row
\* can change under the open modal, whatever runs are under way.
THEOREM DeletesConsented == Spec => []DeletesOnlyConfirmed
<1>1. IInv => DeletesOnlyConfirmed
  BY DEF IInv, Consented
<1> QED BY <1>1, Inductive, PTL

\* Until two runs overlap, a report pairs a run's result with its own plan and
\* comes after the bar has reached its last op, however signals interleave.
THEOREM ReportsOfOneRun == Spec => []ReportIsOfOneRun
<1>1. IInv => ReportIsOfOneRun
  BY DEF IInv, Followed, ReportIsOfOneRun
<1> QED BY <1>1, Inductive, PTL

\* Until two runs overlap, no QThread is deleted while its thread runs.
THEOREM ThreadsOutlive == Spec => []ThreadOutlivesRun
<1>1. IInv => ThreadOutlivesRun
  BY DEF IInv, Alone, ThreadOutlivesRun
<1> QED BY <1>1, Inductive, PTL
=============================================================================
