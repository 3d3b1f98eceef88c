---------------------------- MODULE BridgeProofs ----------------------------
(***************************************************************************)
(* What the shell's engine bridge guarantees for every number of calls,    *)
(* processes, messages and faults.                                         *)
(***************************************************************************)
EXTENDS EngineBridge, TLAPS

-----------------------------------------------------------------------------
(* The inductive invariant, in named parts                                 *)

CallIds  == 0 .. MaxCalls
Methods  == {"plain", "apply_plan", "shutdown"}
Kinds    == {"result", "error", "progress", "garbage"}
Requests == { r \in [method : Methods, id : CallIds, call : CallIds] : r.id = r.call }
Lines    == { m \in [kind : Kinds, id : CallIds, op : Nat, call : CallIds] : m.id = m.call }

\* The UI thread registers the calls in their order, so that each call's number
\* is the id it was given.
Past(c) == phase[c] \in {"write", "await", "returned"}
InOrder ==
  /\ nextId \in CallIds
  /\ phase \in [Calls -> {"idle", "register", "write", "await", "returned"}]
  /\ \A c \in Calls : /\ Past(c) <=> c <= nextId
                      /\ phase[c] = "register" => c = nextId + 1
                      /\ c <= nextId => idOf[c] = c
  /\ idOf \in [Calls -> CallIds]

\* A call waits under its own id, and what is in the pipes is whose it says.
OwnIds(map) == map \in [Ids -> CallIds] /\ \A i \in Ids : map[i] \in {0, i}
Addressed ==
  /\ OwnIds(pending) /\ OwnIds(streams)
  /\ stdin \in [Procs -> Seq(Requests)]
  /\ stdout \in [Procs -> Seq(Lines)]
  /\ busy \in [Procs -> [request : Requests, ops : Nat]]

Answered ==
  /\ answer \in [Calls -> {"none", "result", "error", "fault"} \cup Kinds]
  /\ from \in [Calls -> CallIds]
  /\ OwnReply

ReplyInv == InOrder /\ Addressed /\ Answered

\* Processes are spawned in turn; the client knows of the last, until a restart
\* takes it to dispose of.
Steps == {"none", "dispose", "wait", "start", "started"}
Spawned ==
  /\ spawned \in 0 .. MaxProcs
  /\ process \in {0, spawned}
  /\ os \in [Procs -> {"unborn", "running", "exited"}]
  /\ \A g \in Procs : g > spawned => os[g] = "unborn"
  /\ restart \in [step : Steps, old : 0 .. spawned]
  /\ restart.step = "none" => restart.old = 0
  /\ restart.step \in {"start", "started"} => restart.old = 0 \/ os[restart.old] # "running"

\* The shutdown flag is up only once the last process was disposed of.
Quiet ==
  /\ quietExit \in BOOLEAN
  /\ disposed \subseteq 1 .. spawned
  /\ process = 0 \/ quietExit => spawned = 0 \/ spawned \in disposed
  /\ watch \in [Procs -> [step : {"off", "on", "failing", "clearing", "raising", "done"},
                          quiet : BOOLEAN]]
  /\ \A g \in Procs : /\ watch[g].step # "off" => g <= spawned
                      /\ watch[g].quiet => \E h \in disposed : g <= h
  /\ DeathIsTold

ProcessInv == Spawned /\ NoOrphan /\ Quiet

-----------------------------------------------------------------------------
(* Calls and replies                                                       *)

LEMMA Numbers == MaxCalls \in Nat \ {0} /\ MaxProcs \in Nat \ {0} /\ MaxOps \in Nat
BY BridgeAssumption

LEMMA ReplyInit == Init => ReplyInv
<1> SUFFICES ASSUME Init PROVE ReplyInv
  OBVIOUS
<1>1. InOrder
  BY Numbers DEF Init, InOrder, Past, Calls, CallIds
<1>2. NoRequest \in Requests
  BY Numbers DEF NoRequest, Requests, Methods, CallIds
<1>3. Addressed
  BY Numbers, <1>2 DEF Init, Addressed, OwnIds, Ids, CallIds, Free
<1>4. Answered
  BY Numbers DEF Init, Answered, OwnReply, CallIds
<1> QED BY <1>1, <1>3, <1>4 DEF ReplyInv

LEMMA OrderStep ==
  ASSUME ReplyInv, [Next]_vars
  PROVE  InOrder'
<1> USE DEF ReplyInv
<1>1. ASSUME NEW c \in Calls, Begin(c)
      PROVE  InOrder'
  <2>1. /\ UIFree /\ phase[c] = "idle" /\ \A d \in Calls : d < c => phase[d] # "idle"
        /\ phase' = [phase EXCEPT ![c] = "register"]
        /\ UNCHANGED <<nextId, idOf>>
    BY <1>1 DEF Begin, Spawn, SpawnFails
  <2>2. \A d \in Calls : d < c => d <= nextId
    BY <2>1 DEF InOrder, Past, UIFree
  <2>3. c = nextId + 1
    <3>1. ~(c <= nextId)
      BY <2>1 DEF InOrder, Past
    <3>2. CASE c = 1
      BY <3>1, <3>2, Numbers DEF InOrder, CallIds
    <3>3. CASE c # 1
      <4>1. c - 1 \in Calls /\ c - 1 < c
        BY <3>3, Numbers DEF Calls
      <4>2. c - 1 <= nextId
        BY <2>2, <4>1
      <4> QED BY <3>1, <4>2, Numbers DEF InOrder, CallIds, Calls
    <3> QED BY <3>2, <3>3
  <2> QED BY <2>1, <2>3 DEF InOrder, Past, UIFree
<1>2. ASSUME NEW c \in Calls, Register(c)
      PROVE  InOrder'
  <2>1. /\ nextId' = nextId + 1 /\ c = nextId + 1
        /\ idOf' = [idOf EXCEPT ![c] = c]
        /\ phase' = [phase EXCEPT ![c] = "write"]
    BY <1>2 DEF Register, InOrder
  <2>2. nextId' \in CallIds /\ c \in CallIds
    BY <2>1, Numbers DEF Calls, CallIds
  <2>3. \A d \in Calls : d <= nextId + 1 <=> d <= nextId \/ d = c
    BY <2>1, Numbers DEF Calls, CallIds, InOrder
  <2> QED BY <2>1, <2>2, <2>3, Numbers DEF InOrder, Past, Calls, CallIds
<1>3. ASSUME NEW c \in Calls, Write(c) \/ Return(c)
      PROVE  InOrder'
  <2>1. /\ UNCHANGED <<nextId, idOf>>
        /\ phase' = phase \/ (Past(c) /\ phase' = [phase EXCEPT ![c] = "await"])
             \/ (Past(c) /\ phase' = [phase EXCEPT ![c] = "returned"])
    BY <1>3 DEF Write, Return, client, Past
  <2> QED BY <2>1 DEF InOrder, Past
<1>4. ASSUME UNCHANGED <<nextId, idOf, phase>>
      PROVE  InOrder'
  BY <1>4 DEF InOrder, Past
<1>5. ASSUME \/ \E g \in Procs : Engine(g) \/ Die(g) \/ Garble(g) \/ ReadStdout(g) \/ OnProcessExited(g)
             \/ \E ok \in BOOLEAN : AnswerPrompt(ok)
             \/ RestartStep
             \/ UNCHANGED vars
      PROVE  UNCHANGED <<nextId, idOf, phase>>
  BY <1>5 DEF Engine, Die, Garble, ReadStdout, OnProcessExited, AnswerPrompt, RestartStep,
     Detach, AwaitExit, Respawn, Restarted, Spawn, SpawnFails, client, calls, vars
<1> QED BY <1>1, <1>2, <1>3, <1>4, <1>5 DEF Next

\* A line more or the first line less leaves a pipe of the same lines.
LEMMA PipeFacts ==
  ASSUME NEW S, NEW q \in Seq(S)
  PROVE  /\ q # <<>> => Head(q) \in S /\ Tail(q) \in Seq(S)
         /\ \A e \in S : Append(q, e) \in Seq(S)
         /\ <<>> \in Seq(S)
OBVIOUS

LEMMA PipeStep ==
  ASSUME NEW S, NEW pipes \in [Procs -> Seq(S)], NEW g, NEW e \in S,
         NEW new, new = [pipes EXCEPT ![g] = Append(@, e)]
  PROVE  new \in [Procs -> Seq(S)]
<1>1. \A h \in Procs : Append(pipes[h], e) \in Seq(S)
  BY PipeFacts
<1> QED BY <1>1

\* Registering a call under its number, or taking it out, keeps the maps.
LEMMA MapStep ==
  ASSUME NEW map, OwnIds(map), NEW i, NEW c \in CallIds, c \in {0, i},
         NEW new, new = [map EXCEPT ![i] = c]
  PROVE  OwnIds(new)
<1>1. map \in [Ids -> CallIds] /\ \A j \in Ids : map[j] \in {0, j}
  BY DEF OwnIds
<1>2. new \in [Ids -> CallIds]
  BY <1>1
<1>3. \A j \in Ids : new[j] = IF j = i THEN c ELSE map[j]
  BY <1>1
<1> QED BY <1>1, <1>2, <1>3 DEF OwnIds

\* What is said on a pipe is said of its own request.
LEMMA SayStep ==
  ASSUME stdout \in [Procs -> Seq(Lines)], NEW g \in Procs, NEW kind \in Kinds,
         NEW r \in Requests, NEW op \in Nat, Say(g, kind, r, op)
  PROVE  stdout' \in [Procs -> Seq(Lines)]
<1>1. [kind |-> kind, id |-> r.id, op |-> op, call |-> r.call] \in Lines
  BY DEF Lines, Requests
<1> QED BY <1>1 DEF Say

LEMMA AddressedStep ==
  ASSUME ReplyInv, [Next]_vars
  PROVE  Addressed'
<1> USE DEF ReplyInv
<1>r. NoRequest \in Requests /\ Free \in [request : Requests, ops : Nat]
  BY Numbers DEF NoRequest, Free, Requests, Methods, CallIds
<1>0. ASSUME UNCHANGED <<pending, streams, stdin, stdout, busy>>
      PROVE  Addressed'
  BY <1>0 DEF Addressed
<1>1. ASSUME NEW c \in Calls, Register(c)
      PROVE  Addressed'
  <2>1. c = nextId + 1 /\ c \in Ids /\ c \in CallIds /\ UNCHANGED <<stdin, stdout, busy>>
    BY <1>1, Numbers DEF Register, InOrder, engine, Calls, Ids, CallIds
  <2>2. /\ pending' = pending \/ pending' = [pending EXCEPT ![c] = c]
        /\ streams' = streams \/ streams' = [streams EXCEPT ![c] = c]
    BY <1>1, <2>1 DEF Register
  <2>3. OwnIds(pending) /\ OwnIds(streams) /\ c \in {0, c}
    BY DEF Addressed
  <2>4. OwnIds(pending')
    BY <2>1, <2>2, <2>3, MapStep
  <2>5. OwnIds(streams')
    BY <2>1, <2>2, <2>3, MapStep
  <2> QED BY <2>1, <2>4, <2>5 DEF Addressed
<1>2. ASSUME NEW c \in Calls, Write(c)
      PROVE  Addressed'
  <2>1. idOf[c] = c /\ c \in CallIds
    BY <1>2, Numbers DEF Write, InOrder, Past, Calls, CallIds
  <2>2. \A method \in Methods : [method |-> method, id |-> idOf[c], call |-> c] \in Requests
    BY <2>1 DEF Requests
  <2>3. UNCHANGED <<pending, streams, stdout, busy>>
    BY <1>2 DEF Write, client
  <2>4. stdin' = stdin \/ \E r \in Requests : stdin' = [stdin EXCEPT ![process] = Append(@, r)]
    BY <1>2, <2>2 DEF Write, Methods
  <2>5. stdin' \in [Procs -> Seq(Requests)]
    BY <2>4, PipeStep DEF Addressed
  <2> QED BY <2>3, <2>5 DEF Addressed
<1>3. ASSUME NEW c \in Calls, Return(c)
      PROVE  Addressed'
  <2>1. /\ pending' = pending \/ pending' = [pending EXCEPT ![idOf[c]] = 0]
        /\ streams' = streams \/ streams' = [streams EXCEPT ![idOf[c]] = 0]
        /\ UNCHANGED <<stdin, stdout, busy>>
    BY <1>3 DEF Return, engine
  <2>2. 0 \in CallIds
    BY Numbers DEF CallIds
  <2>3. OwnIds(pending') /\ OwnIds(streams')
    BY <2>1, <2>2, MapStep DEF Addressed
  <2> QED BY <2>1, <2>3 DEF Addressed
<1>4. ASSUME NEW g \in Procs, Engine(g)
      PROVE  Addressed'
  <2>1. UNCHANGED <<pending, streams>>
    BY <1>4 DEF Engine, client
  <2>2. CASE Serve(g)
    <3>1. Head(stdin[g]) \in Requests /\ Tail(stdin[g]) \in Seq(Requests)
      BY <2>2, PipeFacts DEF Serve, Addressed
    <3>2. /\ stdin' = [stdin EXCEPT ![g] = Tail(@)] \/ stdin' = [stdin EXCEPT ![g] = <<>>]
          /\ \/ busy' = busy
             \/ busy' = [busy EXCEPT ![g] = [request |-> Head(stdin[g]), ops |-> 0]]
             \/ busy' = [busy EXCEPT ![g] = Free]
          /\ stdout' = stdout \/ \E kind \in Kinds : Say(g, kind, Head(stdin[g]), 0)
      BY <2>2 DEF Serve, Exit, Kinds
    <3>3. stdout' \in [Procs -> Seq(Lines)]
      BY <3>1, <3>2, SayStep DEF Addressed
    <3>4. stdin' \in [Procs -> Seq(Requests)]
      <4>1. \E q \in Seq(Requests) : stdin' = [stdin EXCEPT ![g] = q]
        <5>1. <<>> \in Seq(Requests)
          OBVIOUS
        <5> QED BY <3>1, <3>2, <5>1
      <4> QED BY <4>1 DEF Addressed
    <3>5. busy' \in [Procs -> [request : Requests, ops : Nat]]
      <4>1. [request |-> Head(stdin[g]), ops |-> 0] \in [request : Requests, ops : Nat]
        BY <3>1
      <4>2. busy' = busy \/ \E f \in [request : Requests, ops : Nat] : busy' = [busy EXCEPT ![g] = f]
        BY <1>r, <3>2, <4>1
      <4> QED BY <4>2 DEF Addressed
    <3> QED BY <2>1, <3>3, <3>4, <3>5 DEF Addressed
  <2>3. CASE Stream(g)
    <3>1. busy[g].request \in Requests /\ busy[g].ops \in Nat
      BY DEF Addressed
    <3>2. /\ stdin' = stdin
          /\ busy' = [busy EXCEPT ![g].ops = @ + 1] \/ busy' = [busy EXCEPT ![g] = Free]
          /\ \E kind \in Kinds, op \in Nat : Say(g, kind, busy[g].request, op)
      BY <2>3, <3>1 DEF Stream, Kinds
    <3>3. stdout' \in [Procs -> Seq(Lines)]
      BY <3>1, <3>2, SayStep DEF Addressed
    <3>4. busy[g].ops + 1 \in Nat
      BY <3>1
    <3>5. busy' \in [Procs -> [request : Requests, ops : Nat]]
      BY <1>r, <3>2, <3>4 DEF Addressed
    <3> QED BY <2>1, <3>2, <3>3, <3>5 DEF Addressed
  <2> QED BY <1>4, <2>2, <2>3 DEF Engine
<1>5. ASSUME NEW g \in Procs, Die(g) \/ AwaitExit,
             UNCHANGED <<pending, streams, stdout>>
      PROVE  Addressed'
  <2>1. \E h : stdin' = [stdin EXCEPT ![h] = <<>>] /\ busy' = [busy EXCEPT ![h] = Free]
    BY <1>5 DEF Die, AwaitExit, Exit
  <2>2. <<>> \in Seq(Requests)
    OBVIOUS
  <2> QED BY <1>5, <1>r, <2>1, <2>2 DEF Addressed
<1>6. ASSUME NEW g \in Procs, Garble(g)
      PROVE  Addressed'
  <2>1. stdout' \in [Procs -> Seq(Lines)]
    BY <1>6, <1>r, SayStep DEF Garble, Addressed, Kinds
  <2> QED BY <1>6, <2>1 DEF Garble, Addressed, client
<1>7. ASSUME NEW g \in Procs, ReadStdout(g) \/ OnProcessExited(g)
      PROVE  Addressed'
  <2>1. /\ UNCHANGED <<stdin, busy>>
        /\ stdout' = stdout \/ (stdout[g] # <<>> /\ stdout' = [stdout EXCEPT ![g] = Tail(@)])
        /\ UNCHANGED <<pending, streams>> \/ ClearMaps
    BY <1>7 DEF ReadStdout, OnProcessExited
  <2>2. stdout' \in [Procs -> Seq(Lines)]
    <3>1. stdout[g] # <<>> => Tail(stdout[g]) \in Seq(Lines)
      BY PipeFacts DEF Addressed
    <3> QED BY <2>1, <3>1 DEF Addressed
  <2>3. 0 \in CallIds
    BY Numbers DEF CallIds
  <2> QED BY <2>1, <2>2, <2>3 DEF Addressed, ClearMaps, OwnIds
<1>8. ASSUME RestartStep
      PROVE  Addressed'
  <2>1. UNCHANGED <<pending, streams, stdout>>
    BY <1>8 DEF RestartStep
  <2>2. CASE Detach
    <3>1. [method |-> "shutdown", id |-> 0, call |-> 0] \in Requests
      BY Numbers DEF Requests, Methods, CallIds
    <3>2. /\ busy' = busy
          /\ \/ stdin' = stdin
             \/ \E r \in Requests : \E h : stdin' = [stdin EXCEPT ![h] = Append(@, r)]
      BY <2>2, <3>1 DEF Detach
    <3>3. stdin' \in [Procs -> Seq(Requests)]
      BY <3>2, PipeStep DEF Addressed
    <3> QED BY <2>1, <3>2, <3>3 DEF Addressed
  <2>3. CASE AwaitExit
    <3>1. 1 \in Procs
      BY Numbers DEF Procs
    <3> QED BY <1>5, <2>1, <2>3, <3>1
  <2>4. CASE Respawn \/ Restarted
    BY <1>0, <2>1, <2>4 DEF Respawn, Restarted
  <2> QED BY <1>8, <2>2, <2>3, <2>4 DEF RestartStep
<1>9. ASSUME \/ \E c \in Calls : Begin(c)
             \/ \E ok \in BOOLEAN : AnswerPrompt(ok)
             \/ UNCHANGED vars
      PROVE  UNCHANGED <<pending, streams, stdin, stdout, busy>>
  BY <1>9 DEF Begin, AnswerPrompt, engine, client, vars
<1> QED BY <1>0, <1>1, <1>2, <1>3, <1>4, <1>5, <1>6, <1>7, <1>8, <1>9 DEF Next, Die, client

LEMMA AnsweredStep ==
  ASSUME ReplyInv, [Next]_vars
  PROVE  Answered'
<1> USE DEF ReplyInv
<1>0. ASSUME UNCHANGED <<answer, from>>
      PROVE  Answered'
  BY <1>0 DEF Answered, OwnReply
<1>1. ASSUME FailWaiting, from' = from
      PROVE  Answered'
  BY <1>1 DEF FailWaiting, Answered, OwnReply
<1>2. ASSUME NEW m \in Lines, Dispatch(m)
      PROVE  Answered'
  <2>1. CASE UNCHANGED <<answer, from>>
    BY <1>0, <2>1
  <2>2. CASE ~UNCHANGED <<answer, from>>
    <3>1. PICK c : /\ m.id # 0 /\ c # 0 /\ c \in {streams[m.id], pending[m.id]}
                   /\ from' = [from EXCEPT ![c] = m.call]
                   /\ answer' = answer \/ answer' = [answer EXCEPT ![c] = m.kind]
      BY <1>2, <2>2 DEF Dispatch
    <3>2. m.id \in Ids /\ m.call = m.id /\ m.kind \in Kinds /\ m.call \in CallIds
      BY <3>1, Numbers DEF Lines, CallIds, Ids
    <3>3. c = m.id /\ c \in Calls
      BY <3>1, <3>2 DEF Addressed, OwnIds, Ids, Calls
    <3> QED BY <3>1, <3>2, <3>3 DEF Answered, OwnReply
  <2> QED BY <2>1, <2>2
<1>3. ASSUME NEW g \in Procs, ReadStdout(g)
      PROVE  Answered'
  <2>1. \/ UNCHANGED <<answer, from>>
        \/ FailWaiting /\ from' = from
        \/ stdout[g] # <<>> /\ Dispatch(Head(stdout[g]))
    BY <1>3 DEF ReadStdout
  <2>2. stdout[g] # <<>> => Head(stdout[g]) \in Lines
    BY DEF Addressed
  <2> QED BY <1>0, <1>1, <1>2, <2>1, <2>2
<1>4. ASSUME NEW g \in Procs, OnProcessExited(g)
      PROVE  Answered'
  BY <1>0, <1>1, <1>4 DEF OnProcessExited
<1>5. ASSUME ~ \E g \in Procs : ReadStdout(g) \/ OnProcessExited(g)
      PROVE  UNCHANGED <<answer, from>>
  BY <1>5 DEF Next, Begin, Register, Write, Return, Engine, Die, Garble, AnswerPrompt,
     RestartStep, calls, vars
<1> QED BY <1>0, <1>3, <1>4, <1>5

\* A call is answered by the reply to its own request or not at all, however
\* many processes come and go, whatever they say, and in whatever order the
\* readers, the exit callbacks and the window's handlers run.
THEOREM RepliesAreOwn == Spec => []OwnReply
<1>1. ReplyInv /\ [Next]_vars => ReplyInv'
  BY OrderStep, AddressedStep, AnsweredStep DEF ReplyInv
<1>2. ReplyInv => OwnReply
  BY DEF ReplyInv, Answered
<1> QED BY <1>1, <1>2, ReplyInit, PTL DEF Spec

-----------------------------------------------------------------------------
(* Processes and what the user is told of them                             *)

LEMMA ProcessInit == Init => ProcessInv
<1> SUFFICES ASSUME Init PROVE ProcessInv
  OBVIOUS
<1>1. Spawned
  BY Numbers DEF Init, Spawned, NoRestart, Steps, Procs
<1>2. NoOrphan
  BY DEF Init, NoOrphan
<1>3. Quiet
  BY DEF Init, Quiet, DeathIsTold
<1> QED BY <1>1, <1>2, <1>3 DEF ProcessInv

\* A process that ends keeps everything in its place.
LEMMA ExitStep ==
  ASSUME ProcessInv, NEW g \in 1 .. spawned, os' = [os EXCEPT ![g] = "exited"],
         UNCHANGED <<process, quietExit, spawned, restart, watch, told, disposed>>
  PROVE  ProcessInv'
<1>1. Spawned'
  BY Numbers DEF ProcessInv, Spawned, Procs
<1>2. NoOrphan'
  BY DEF ProcessInv, Spawned, NoOrphan
<1>3. Quiet'
  BY DEF ProcessInv, Quiet, DeathIsTold
<1> QED BY <1>1, <1>2, <1>3 DEF ProcessInv

\* StartAsync replaces no process that runs, and lowers the shutdown flag.
LEMMA SpawnStep ==
  ASSUME ProcessInv, Spawn \/ SpawnFails, UNCHANGED <<told, disposed>>,
         \/ restart' = restart
         \/ restart.step = "start" /\ restart' = [restart EXCEPT !.step = "started"]
         \/ restart.step = "start" /\ restart' = NoRestart
  PROVE  ProcessInv'
<1> USE DEF ProcessInv
<1>0. restart \in [step : Steps, old : 0 .. spawned]
  BY DEF Spawned
<1>r. /\ restart' \in [step : Steps, old : 0 .. spawned]
      /\ restart'.step = "none" => restart'.old = 0
      /\ restart'.step \in {"start", "started"} => restart'.old = 0 \/ os[restart'.old] # "running"
      /\ restart'.old # restart.old => os[restart.old] # "running" \/ restart.old = 0
  BY <1>0, Numbers DEF Spawned, Steps, NoRestart
<1>1. CASE UNCHANGED <<process, spawned, os, watch>> /\ (quietExit' = quietExit \/ quietExit' = FALSE)
  <2>1. Spawned'
    BY <1>1, <1>r DEF Spawned
  <2>2. NoOrphan'
    BY <1>1, <1>r DEF NoOrphan, Procs
  <2>3. quietExit' \in BOOLEAN /\ (quietExit' => quietExit)
    <3>1. quietExit \in BOOLEAN
      BY DEF Quiet
    <3>2. CASE quietExit' = quietExit
      BY <3>1, <3>2
    <3>3. CASE quietExit' = FALSE
      BY <3>3
    <3> QED BY <1>1, <3>2, <3>3
  <2>4. Quiet'
    BY <1>1, <2>3 DEF Quiet, DeathIsTold
  <2> QED BY <2>1, <2>2, <2>4
<1>2. CASE Spawn /\ ~Running
  <2>1. /\ spawned < MaxProcs /\ spawned' = spawned + 1 /\ process' = spawned + 1
        /\ quietExit' = FALSE
        /\ os' = [os EXCEPT ![spawned + 1] = "running"]
        /\ watch' = [watch EXCEPT ![spawned + 1].step = "on"]
    BY <1>2 DEF Spawn
  <2>2. spawned \in Nat /\ spawned + 1 \in Procs /\ MaxProcs \in Nat
    BY <2>1, Numbers DEF Spawned, Procs
  <2>3. Spawned'
    <3>1. /\ os' \in [Procs -> {"unborn", "running", "exited"}]
          /\ \A g \in Procs : g > spawned' => os'[g] = "unborn"
      BY <2>1, <2>2 DEF Spawned, Procs
    <3>2. restart' \in [step : Steps, old : 0 .. spawned']
      BY <1>r, <2>1, <2>2
    <3>3. restart'.step \in {"start", "started"} => restart'.old = 0 \/ os'[restart'.old] # "running"
      BY <1>r, <2>1, <2>2 DEF Spawned, Procs
    <3> QED BY <1>r, <2>1, <2>2, <3>1, <3>2, <3>3 DEF Spawned
  <2>4. NoOrphan'
    <3> SUFFICES ASSUME NEW g \in Procs, os'[g] = "running", g # process'
                 PROVE  g = restart'.old
      BY DEF NoOrphan
    <3>1. os[g] = "running" /\ g # process
      BY <1>2, <2>1, <2>2 DEF Spawned, Running, Procs
    <3> QED BY <1>r, <3>1 DEF NoOrphan, Procs
  <2>5. Quiet'
    <3>1. \A g \in Procs : /\ g # spawned + 1 => watch'[g] = watch[g]
                           /\ g = spawned + 1 => watch'[g].step = "on" /\ watch'[g].quiet = watch[g].quiet
      BY <2>1, <2>2 DEF Quiet
    <3>2. watch' \in [Procs -> [step : {"off", "on", "failing", "clearing", "raising", "done"},
                                quiet : BOOLEAN]]
      BY <2>1, <2>2 DEF Quiet
    <3>3. \A g \in Procs : /\ watch'[g].step # "off" => g <= spawned'
                           /\ watch'[g].quiet => \E h \in disposed' : g <= h
      BY <2>1, <2>2, <3>1 DEF Quiet, Procs
    <3>4. DeathIsTold'
      BY <3>1 DEF Quiet, DeathIsTold
    <3>5. disposed' \subseteq 1 .. spawned' /\ process' # 0
      BY <2>1, <2>2 DEF Quiet
    <3> QED BY <2>1, <3>2, <3>3, <3>4, <3>5 DEF Quiet
  <2> QED BY <2>3, <2>4, <2>5
<1> QED BY <1>1, <1>2 DEF Spawn, SpawnFails

\* The callback of one process's exit takes its next step.
LEMMA WatchStep ==
  ASSUME ProcessInv, NEW g \in Procs, OnProcessExited(g)
  PROVE  ProcessInv'
<1> USE DEF ProcessInv
<1>0. UNCHANGED <<process, quietExit, spawned, os, restart, disposed>>
  BY DEF OnProcessExited
<1>1. Spawned' /\ NoOrphan'
  BY <1>0 DEF Spawned, NoOrphan
<1>2. Quiet'
  <2>1. watch[g] \in [step : {"off", "on", "failing", "clearing", "raising", "done"}, quiet : BOOLEAN]
    BY DEF Quiet
  <2>2. CASE watch[g].step = "on"
    <3>1. watch' = [watch EXCEPT ![g] = [step |-> "failing", quiet |-> quietExit]] /\ told' = told
      BY <2>2 DEF OnProcessExited
    <3>2. quietExit => \E h \in disposed : g <= h
      BY <2>2, Numbers DEF Quiet, Spawned, Procs
    <3>3. quietExit \in BOOLEAN
      BY DEF Quiet
    <3> QED BY <1>0, <2>2, <3>1, <3>2, <3>3 DEF Quiet, DeathIsTold
  <2>3. CASE watch[g].step # "on"
    <3>1. PICK step \in {"clearing", "raising", "done"} :
            /\ watch' = [watch EXCEPT ![g].step = step]
            /\ step = "done" => watch[g].quiet \/ g \in told'
            /\ told \subseteq told'
            /\ watch[g].step # "off"
      BY <2>3 DEF OnProcessExited
    <3> QED BY <1>0, <2>1, <3>1 DEF Quiet, DeathIsTold
  <2> QED BY <2>2, <2>3
<1> QED BY <1>1, <1>2

LEMMA ProcessStep ==
  ASSUME ProcessInv, [Next]_vars
  PROVE  ProcessInv'
<1> USE DEF ProcessInv
<1> DEFINE Seen == <<process, quietExit, spawned, os, restart, watch, told, disposed>>
<1>0. ASSUME UNCHANGED Seen
      PROVE  ProcessInv'
  BY <1>0 DEF Spawned, NoOrphan, Quiet, DeathIsTold
<1>1. ASSUME NEW c \in Calls, Begin(c)
      PROVE  ProcessInv'
  <2>1. UNCHANGED <<told, disposed, restart>>
    BY <1>1 DEF Begin
  <2>2. CASE engineStarted
    BY <1>0, <1>1, <2>1, <2>2 DEF Begin
  <2>3. CASE ~engineStarted
    BY <1>1, <2>1, <2>3, SpawnStep DEF Begin
  <2> QED BY <2>2, <2>3
<1>2. ASSUME NEW g \in Procs, Engine(g) \/ Die(g)
      PROVE  ProcessInv'
  <2>1. g \in 1 .. spawned
    BY <1>2, Numbers DEF Engine, Die, Spawned, Procs
  <2>2. /\ UNCHANGED <<process, quietExit, spawned, restart, watch, told, disposed>>
        /\ os' = os \/ os' = [os EXCEPT ![g] = "exited"]
    BY <1>2 DEF Engine, Die, Serve, Stream, Exit, client, shell
  <2> QED BY <1>0, <2>1, <2>2, ExitStep
<1>3. ASSUME NEW ok \in BOOLEAN, AnswerPrompt(ok)
      PROVE  ProcessInv'
  <2>0. UNCHANGED <<spawned, os, watch, told>>
    BY <1>3 DEF AnswerPrompt, engine
  <2>1. CASE ~ok
    BY <1>0, <1>3, <2>0, <2>1 DEF AnswerPrompt
  <2>2. CASE ok
    <3>1. /\ restart = NoRestart
          /\ restart' = [step |-> IF process = 0 THEN "start" ELSE "dispose", old |-> process]
          /\ process' = 0 /\ quietExit' = TRUE
          /\ disposed' = IF process = 0 THEN disposed ELSE disposed \cup {process}
      BY <1>3, <2>2 DEF AnswerPrompt
    <3>2. process \in 0 .. spawned /\ spawned \in Nat
      BY Numbers DEF Spawned
    <3>3. Spawned'
      BY <2>0, <3>1, <3>2 DEF Spawned, Steps
    <3>4. NoOrphan'
      BY <2>0, <3>1 DEF NoOrphan, NoRestart, Procs
    <3>5. /\ disposed' \subseteq 1 .. spawned' /\ (spawned' = 0 \/ spawned' \in disposed')
          /\ quietExit' \in BOOLEAN
      BY <2>0, <3>1, <3>2 DEF Quiet, Spawned
    <3>6. disposed \subseteq disposed'
      BY <3>1
    <3>7. Quiet'
      BY <2>0, <3>5, <3>6 DEF Quiet, DeathIsTold
    <3> QED BY <3>3, <3>4, <3>7
  <2> QED BY <2>1, <2>2
<1>4. CASE RestartStep
  <2>0. UNCHANGED <<told, disposed>>
    BY <1>4 DEF RestartStep
  <2>1. CASE Detach
    <3>1. /\ restart.step = "dispose" /\ restart' = [restart EXCEPT !.step = "wait"]
          /\ UNCHANGED <<process, quietExit, spawned, os>>
          /\ \/ watch' = watch
             \/ watch' = [watch EXCEPT ![restart.old].step = "off"]
      BY <2>1 DEF Detach, Quiet
    <3>2. Spawned' /\ NoOrphan'
      BY <3>1 DEF Spawned, NoOrphan, Steps
    <3>3. Quiet'
      BY <2>0, <3>1 DEF Quiet, DeathIsTold
    <3> QED BY <3>2, <3>3
  <2>2. CASE AwaitExit
    <3>1. /\ restart.step = "wait" /\ restart' = [restart EXCEPT !.step = "start"]
          /\ os' = [os EXCEPT ![restart.old] = "exited"]
          /\ UNCHANGED <<process, quietExit, spawned, watch>>
      BY <2>2 DEF AwaitExit, Exit
    <3>2. restart \in [step : Steps, old : 0 .. spawned] /\ spawned \in 0 .. MaxProcs
      BY DEF Spawned
    <3>3. restart.old \in Procs \/ restart.old = 0
      BY <3>2, Numbers DEF Procs
    <3>4. Spawned'
      <4>1. restart' \in [step : Steps, old : 0 .. spawned'] /\ restart'.old = restart.old
        BY <3>1, <3>2 DEF Steps
      <4>2. restart'.step = "start" /\ (restart.old # 0 => os'[restart.old] = "exited")
        BY <3>1, <3>2, <3>3 DEF Spawned
      <4>3. /\ os' \in [Procs -> {"unborn", "running", "exited"}]
            /\ \A g \in Procs : g > spawned' => os'[g] = "unborn"
        <5>1. os \in [Procs -> {"unborn", "running", "exited"}] /\ spawned' = spawned
          BY <3>1 DEF Spawned
        <5>2. os' \in [Procs -> {"unborn", "running", "exited"}]
          BY <3>1, <5>1
        <5>3. \A g \in Procs : g # restart.old => os'[g] = os[g]
          BY <3>1, <5>1
        <5>4. \A g \in Procs : g > spawned => g # restart.old
          BY <3>2, Numbers DEF Procs
        <5> QED BY <5>1, <5>2, <5>3, <5>4 DEF Spawned
      <4> QED BY <3>1, <4>1, <4>2, <4>3 DEF Spawned
    <3>5. NoOrphan'
      BY <3>1, <3>2 DEF NoOrphan, Spawned
    <3>6. Quiet'
      BY <2>0, <3>1 DEF Quiet, DeathIsTold
    <3> QED BY <3>4, <3>5, <3>6
  <2>3. CASE Respawn
    BY <2>0, <2>3, SpawnStep DEF Respawn
  <2>4. CASE Restarted
    <3>1. /\ restart.step = "started" /\ restart' = NoRestart
          /\ UNCHANGED <<process, quietExit, spawned, os, watch>>
      BY <2>4 DEF Restarted
    <3>2. Spawned'
      BY <3>1, Numbers DEF Spawned, Steps, NoRestart
    <3>3. NoOrphan'
      BY <3>1, Numbers DEF Spawned, NoOrphan, NoRestart, Procs
    <3>4. Quiet'
      BY <2>0, <3>1 DEF Quiet, DeathIsTold
    <3> QED BY <3>2, <3>3, <3>4
  <2> QED BY <1>4, <2>1, <2>2, <2>3, <2>4 DEF RestartStep
<1>5. ASSUME NEW g \in Procs, OnProcessExited(g)
      PROVE  ProcessInv'
  BY <1>5, WatchStep
<1>6. ASSUME \/ \E c \in Calls : Register(c) \/ Write(c) \/ Return(c)
             \/ \E g \in Procs : Garble(g) \/ ReadStdout(g)
             \/ UNCHANGED vars
      PROVE  UNCHANGED Seen
  BY <1>6 DEF Register, Write, Return, Garble, ReadStdout, client, engine, shell, vars
<1> QED BY <1>0, <1>1, <1>2, <1>3, <1>4, <1>5, <1>6 DEF Next

\* No engine process is left running that the client does not know of.
THEOREM NoProcessIsLost == Spec => []NoOrphan
<1>1. ProcessInv => NoOrphan
  BY DEF ProcessInv
<1> QED BY <1>1, ProcessInit, ProcessStep, PTL DEF Spec

\* A death of an engine process is kept from the user only when a restart has
\* disposed of that process or of one spawned after it.
THEOREM DeathsAreTold == Spec => []DeathIsTold
<1>1. ProcessInv => DeathIsTold
  BY DEF ProcessInv, Quiet
<1> QED BY <1>1, ProcessInit, ProcessStep, PTL DEF Spec
=============================================================================
