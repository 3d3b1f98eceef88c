---------------------------- MODULE EngineBridge ----------------------------
(***************************************************************************)
(* The Windows shell's connection to the engine: EngineClient              *)
(* (windows-native/.../Bridge/EngineClient.cs), the parts of MainWindow    *)
(* and App that start and restart it, and the daemon's request loop        *)
(* (daemon/server.py) at the other end of two pipes.                       *)
(*                                                                         *)
(* Four kinds of thread meet in the client's fields: the UI thread, whose  *)
(* handlers start the engine, register a request and write it; the reader  *)
(* of each process's stdout, which completes requests; the callback of     *)
(* each process's Exited event, which fails whatever is still pending; and *)
(* a restart, which disposes of the process it finds and spawns another.   *)
(*                                                                         *)
(* A call stands for a handler of the window that makes one request, an    *)
(* ordinary one or the streaming apply_plan.  Payloads are left out: a     *)
(* message is its request id, its kind and, for progress, its op.          *)
(***************************************************************************)
EXTENDS Naturals, Sequences, FiniteSets

CONSTANTS
  MaxCalls,     \* bound: calls the user's actions make
  MaxProcs,     \* bound: processes spawned
  MaxOps,       \* bound: ops of an apply_plan, each one progress message
  MaxFaults,    \* bound: engine crashes, failed spawns and malformed lines
  Restarts,     \* the user answers OK to the restart prompt
  Streaming     \* the calls that are apply_plan

Calls == 1 .. MaxCalls
Procs == 1 .. MaxProcs
Ids   == 1 .. MaxCalls

ASSUME BridgeAssumption ==
  /\ MaxCalls \in Nat \ {0}
  /\ MaxProcs \in Nat \ {0}
  /\ MaxOps \in Nat
  /\ MaxFaults \in Nat
  /\ Restarts \in BOOLEAN
  /\ Streaming \subseteq Calls

\* Lines of the two pipes are [method, id, call] and [kind, id, op, call]; "call"
\* says whose request it was: no code reads it.

VARIABLES
  process,      \* EngineClient._process, 0 for null
  quietExit,    \* EngineClient._shutdownRequested
  nextId,       \* EngineClient._nextRequestId
  pending,      \* EngineClient._pending: the call waiting under each id, 0 for none
  streams       \* EngineClient._streams, likewise
VARIABLES
  phase,        \* progress of each call's handler
  idOf,         \* the request id of each call
  answer,       \* the call's TaskCompletionSource or channel end: first write wins
  seen,         \* ops whose progress reached each streaming call
  from          \* whose reply completed each call (history)
VARIABLES
  spawned,      \* processes spawned so far
  os,           \* each process as the operating system has it
  stdin, stdout,\* its pipes
  busy,         \* the apply_plan request it is serving, and the ops it has done
  reader,       \* ReadStdoutLoopAsync of each process
  watch         \* OnProcessExited of each process
VARIABLES
  engineStarted,\* MainWindow._engineStarted
  prompts,      \* "Click OK to restart the sidecar" boxes open
  restart,      \* RestartEngineAsync: its step and the process it disposes of
  crashed,      \* an exception no handler catches ended the shell
  faults,       \* bound on faults
  told,         \* processes whose unexpected exit the user was told of (history)
  disposed,     \* processes a restart disposed of (history)
  garbled       \* a line of some process was malformed (history)

client == <<process, quietExit, nextId, pending, streams>>
calls  == <<phase, idOf, answer, seen, from>>
engine == <<spawned, os, stdin, stdout, busy, reader, watch>>
shell  == <<engineStarted, prompts, restart, crashed, faults, told, disposed, garbled>>
vars   == <<client, calls, engine, shell>>

NoRequest == [method |-> "plain", id |-> 0, call |-> 0]

NoRestart == [step |-> "none", old |-> 0]
Free      == [request |-> NoRequest, ops |-> 0]

Init ==
  /\ process = 0
  /\ quietExit = FALSE
  /\ nextId = 0
  /\ pending = [i \in Ids |-> 0]
  /\ streams = [i \in Ids |-> 0]
  /\ phase = [c \in Calls |-> "idle"]
  /\ idOf = [c \in Calls |-> 0]
  /\ answer = [c \in Calls |-> "none"]
  /\ seen = [c \in Calls |-> 0]
  /\ from = [c \in Calls |-> 0]
  /\ spawned = 0
  /\ os = [g \in Procs |-> "unborn"]
  /\ stdin = [g \in Procs |-> <<>>]
  /\ stdout = [g \in Procs |-> <<>>]
  /\ busy = [g \in Procs |-> Free]
  /\ reader = [g \in Procs |-> "off"]
  /\ watch = [g \in Procs |-> [step |-> "off", quiet |-> FALSE]]
  /\ engineStarted = FALSE
  /\ prompts = 0
  /\ restart = NoRestart
  /\ crashed = FALSE
  /\ faults = 0
  /\ told = {}
  /\ disposed = {}
  /\ garbled = FALSE

Fault == faults < MaxFaults /\ faults' = faults + 1

-----------------------------------------------------------------------------
(* The UI thread: a handler makes a call                                   *)

UIFree == \A c \in Calls : phase[c] \notin {"register", "write"}
Running == process # 0 /\ os[process] = "running"

\* Mutant: the flag of an earlier shutdown is not reset.
Spawn_StillQuiet ==
  IF Running
  THEN UNCHANGED <<process, quietExit, nextId, spawned, os, reader, watch>>
  ELSE /\ spawned < MaxProcs
       /\ spawned' = spawned + 1
       /\ process' = spawned + 1
       /\ os' = [os EXCEPT ![spawned + 1] = "running"]
       /\ reader' = [reader EXCEPT ![spawned + 1] = "check"]
       /\ watch' = [watch EXCEPT ![spawned + 1].step = "on"]
       /\ UNCHANGED <<quietExit, nextId>>

\* Mutant: request ids start over with each process.
Spawn_RestartsIds ==
  IF Running
  THEN UNCHANGED <<process, quietExit, nextId, spawned, os, reader, watch>>
  ELSE /\ spawned < MaxProcs
       /\ spawned' = spawned + 1
       /\ process' = spawned + 1
       /\ quietExit' = FALSE
       /\ nextId' = 0
       /\ os' = [os EXCEPT ![spawned + 1] = "running"]
       /\ reader' = [reader EXCEPT ![spawned + 1] = "check"]
       /\ watch' = [watch EXCEPT ![spawned + 1].step = "on"]

\* Mutant: a process that still runs is not noticed.
Spawn_Always ==
  /\ spawned < MaxProcs
  /\ spawned' = spawned + 1
  /\ process' = spawned + 1
  /\ quietExit' = FALSE
  /\ os' = [os EXCEPT ![spawned + 1] = "running"]
  /\ reader' = [reader EXCEPT ![spawned + 1] = "check"]
  /\ watch' = [watch EXCEPT ![spawned + 1].step = "on"]
  /\ UNCHANGED nextId

\* StartAsync, under _spawnLock: nothing to do if the process runs.
Spawn ==
  IF Running
  THEN UNCHANGED <<process, quietExit, nextId, spawned, os, reader, watch>>
  ELSE /\ spawned < MaxProcs
       /\ spawned' = spawned + 1
       /\ process' = spawned + 1
       /\ quietExit' = FALSE
       /\ os' = [os EXCEPT ![spawned + 1] = "running"]
       /\ reader' = [reader EXCEPT ![spawned + 1] = "check"]
       /\ watch' = [watch EXCEPT ![spawned + 1].step = "on"]
       /\ UNCHANGED nextId

\* No binary, or the spawn fails: the flag is reset all the same.
SpawnFails ==
  /\ ~Running
  /\ Fault
  /\ quietExit' = FALSE
  /\ UNCHANGED <<process, nextId, spawned, os, reader, watch>>

\* EnsureEngineStartedAsync: a failure to start is shown in a box, and the
\* handler goes on to its request.
Begin(c) ==
  /\ ~crashed
  /\ UIFree
  /\ phase[c] = "idle"
  /\ \A d \in Calls : d < c => phase[d] # "idle"
  /\ phase' = [phase EXCEPT ![c] = "register"]
  /\ IF engineStarted
     THEN UNCHANGED <<process, quietExit, nextId, spawned, os, reader, watch,
                      engineStarted, faults>>
     ELSE \/ Spawn /\ engineStarted' = TRUE /\ UNCHANGED faults
          \/ SpawnFails /\ UNCHANGED engineStarted
  /\ UNCHANGED <<pending, streams, idOf, answer, seen, from, stdin,
                 stdout, busy, prompts, restart, crashed, told, disposed, garbled>>

\* CallAsync and ApplyPlanAsync register before they send.
Register(c) ==
  /\ ~crashed
  /\ phase[c] = "register"
  /\ nextId' = nextId + 1
  /\ idOf' = [idOf EXCEPT ![c] = nextId + 1]
  /\ IF c \in Streaming
     THEN streams' = [streams EXCEPT ![nextId + 1] = c] /\ UNCHANGED pending
     ELSE pending' = [pending EXCEPT ![nextId + 1] = c] /\ UNCHANGED streams
  /\ phase' = [phase EXCEPT ![c] = "write"]
  /\ UNCHANGED <<process, quietExit, answer, seen, from, engine, shell>>

\* SendAsync: with no process it throws InvalidOperationException, on a broken
\* pipe IOException; the window's handlers catch BridgeException alone.
Write(c) ==
  /\ ~crashed
  /\ phase[c] = "write"
  /\ IF Running
     THEN /\ stdin' = [stdin EXCEPT ![process] = Append(@,
                         [method |-> IF c \in Streaming THEN "apply_plan" ELSE "plain",
                          id |-> idOf[c], call |-> c])]
          /\ phase' = [phase EXCEPT ![c] = "await"]
          /\ UNCHANGED crashed
     ELSE crashed' = TRUE /\ UNCHANGED <<stdin, phase>>
  /\ UNCHANGED <<client, idOf, answer, seen, from, spawned, os, stdout,
                 busy, reader, watch, engineStarted, prompts, restart, faults, told,
                 disposed, garbled>>

\* The awaiting handler resumes, and takes its entry out of the map.
Return(c) ==
  /\ ~crashed
  /\ phase[c] = "await"
  /\ answer[c] # "none"
  /\ phase' = [phase EXCEPT ![c] = "returned"]
  /\ pending' = IF c \in Streaming THEN pending ELSE [pending EXCEPT ![idOf[c]] = 0]
  /\ streams' = IF c \in Streaming THEN [streams EXCEPT ![idOf[c]] = 0] ELSE streams
  /\ UNCHANGED <<process, quietExit, nextId, idOf, answer, seen, from,
                 engine, shell>>

-----------------------------------------------------------------------------
(* The engine process                                                      *)

\* What the process had not read, and what it was doing, is gone with it.
Exit(g) ==
  /\ os' = [os EXCEPT ![g] = "exited"]
  /\ stdin' = [stdin EXCEPT ![g] = <<>>]
  /\ busy' = [busy EXCEPT ![g] = Free]

Say(g, kind, request, op) ==
  stdout' = [stdout EXCEPT ![g] = Append(@,
    [kind |-> kind, id |-> request.id, op |-> op, call |-> request.call])]

\* One turn of _serve: read a line, answer it; shutdown answers and returns.
Serve(g) ==
  /\ busy[g] = Free
  /\ stdin[g] # <<>>
  /\ LET request == Head(stdin[g]) IN
       \/ /\ request.method = "plain"
          /\ stdin' = [stdin EXCEPT ![g] = Tail(@)]
          /\ \E kind \in {"result", "error"} : Say(g, kind, request, 0)
          /\ UNCHANGED <<busy, os>>
       \/ /\ request.method = "apply_plan"
          /\ stdin' = [stdin EXCEPT ![g] = Tail(@)]
          /\ busy' = [busy EXCEPT ![g] = [request |-> request, ops |-> 0]]
          /\ UNCHANGED <<stdout, os>>
       \/ /\ request.method = "shutdown"
          /\ Say(g, "result", request, 0)
          /\ Exit(g)

\* _dispatch_streaming: a progress line per op, then the one result; or an
\* error at any point, when the iterator raises.
Stream(g) ==
  /\ busy[g] # Free
  /\ \/ /\ busy[g].ops < MaxOps
        /\ busy' = [busy EXCEPT ![g].ops = @ + 1]
        /\ Say(g, "progress", busy[g].request, busy[g].ops + 1)
     \/ /\ busy' = [busy EXCEPT ![g] = Free]
        /\ \/ busy[g].ops = MaxOps /\ Say(g, "result", busy[g].request, 0)
           \/ Say(g, "error", busy[g].request, 0)
  /\ UNCHANGED <<stdin, os>>

Engine(g) ==
  /\ ~crashed
  /\ os[g] = "running"
  /\ Serve(g) \/ Stream(g)
  /\ UNCHANGED <<client, calls, spawned, reader, watch, shell>>

\* The process dies, or something it loaded prints a line of its own.
Die(g) ==
  /\ ~crashed
  /\ os[g] = "running"
  /\ Fault
  /\ Exit(g)
  /\ UNCHANGED <<client, calls, spawned, stdout, reader, watch,
                 engineStarted, prompts, restart, crashed, told, disposed, garbled>>

Garble(g) ==
  /\ ~crashed
  /\ os[g] = "running"
  /\ Fault
  /\ garbled' = TRUE
  /\ Say(g, "garbage", NoRequest, 0)
  /\ UNCHANGED <<client, calls, spawned, os, stdin, busy, reader, watch,
                 engineStarted, prompts, restart, crashed, told, disposed>>

-----------------------------------------------------------------------------
(* The reader of one process, and the callback of its exit                 *)

\* FailAllPending is two loops, each over a map and then clearing it; what is
\* registered in between is forgotten without being failed.
Waiting == ({ pending[i] : i \in Ids } \cup { streams[i] : i \in Ids }) \ {0}
FailWaiting ==
  answer' = [c \in Calls |-> IF c \in Waiting /\ answer[c] = "none"
                             THEN "fault" ELSE answer[c]]
ClearMaps ==
  /\ pending' = [i \in Ids |-> 0]
  /\ streams' = [i \in Ids |-> 0]

\* DispatchMessage: a stream's entry first, then a plain request's; a message
\* nobody waits for is dropped.
Dispatch(m) ==
  LET c == IF m.id = 0 THEN 0
           ELSE IF streams[m.id] # 0 THEN streams[m.id]
           ELSE IF m.kind # "progress" THEN pending[m.id] ELSE 0
  IN IF c = 0 \/ answer[c] # "none"
     THEN UNCHANGED <<answer, seen, from>>
     ELSE /\ from' = [from EXCEPT ![c] = m.call]
          /\ IF m.kind = "progress"
             THEN seen' = [seen EXCEPT ![c] = m.op] /\ UNCHANGED answer
             ELSE answer' = [answer EXCEPT ![c] = m.kind] /\ UNCHANGED seen

\* ReadStdoutLoopAsync: HasExited is looked at before each line, so lines left
\* in the pipe of a process that has exited may never be read.
ReadStdout(g) ==
  /\ ~crashed
  /\ \/ /\ reader[g] = "check"
        /\ reader' = [reader EXCEPT ![g] = IF os[g] = "exited" THEN "stopped" ELSE "read"]
        /\ UNCHANGED <<stdout, answer, seen, from, pending, streams>>
     \/ /\ reader[g] = "read"
        /\ stdout[g] # <<>>
        /\ stdout' = [stdout EXCEPT ![g] = Tail(@)]
        /\ IF Head(stdout[g]).kind = "garbage"
           THEN /\ reader' = [reader EXCEPT ![g] = "failing"]
                /\ UNCHANGED <<answer, seen, from>>
           ELSE /\ reader' = [reader EXCEPT ![g] = "check"]
                /\ Dispatch(Head(stdout[g]))
        /\ UNCHANGED <<pending, streams>>
     \/ /\ reader[g] = "read"
        /\ stdout[g] = <<>>
        /\ os[g] = "exited"
        /\ reader' = [reader EXCEPT ![g] = "stopped"]
        /\ UNCHANGED <<stdout, answer, seen, from, pending, streams>>
     \/ /\ reader[g] = "failing"
        /\ reader' = [reader EXCEPT ![g] = "clearing"]
        /\ FailWaiting
        /\ UNCHANGED <<stdout, seen, from, pending, streams>>
     \/ /\ reader[g] = "clearing"
        /\ reader' = [reader EXCEPT ![g] = "check"]
        /\ ClearMaps
        /\ UNCHANGED <<stdout, answer, seen, from>>
  /\ UNCHANGED <<process, quietExit, nextId, phase, idOf, spawned, os,
                 stdin, busy, watch, shell>>

\* Mutant: the exit is announced, the waiting requests are left alone.
OnProcessExited_TellsOnly(g) ==
  /\ ~crashed
  /\ watch[g].step \in {"on", "raising"}
  /\ os[g] = "exited"
  /\ watch' = [watch EXCEPT ![g].step = IF @ = "on" THEN "raising" ELSE "done"]
  /\ IF watch[g].step = "on"
     THEN UNCHANGED <<engineStarted, prompts, told>>
     ELSE /\ engineStarted' = FALSE
          /\ prompts' = prompts + 1
          /\ told' = told \cup {g}
  /\ UNCHANGED <<client, calls, spawned, os, stdin, stdout, busy, reader, restart,
                 crashed, faults, disposed, garbled>>

\* OnProcessExited, on a pool thread: read the shutdown flag, fail what waits,
\* clear, and unless the exit was asked for raise UnexpectedExit, on which the
\* window forgets its engine and the app shows the restart prompt.
OnProcessExited(g) ==
  /\ ~crashed
  /\ \/ /\ watch[g].step = "on"
        /\ os[g] = "exited"
        /\ watch' = [watch EXCEPT ![g] = [step |-> "failing", quiet |-> quietExit]]
        /\ UNCHANGED <<answer, pending, streams, engineStarted, prompts, told>>
     \/ /\ watch[g].step = "failing"
        /\ watch' = [watch EXCEPT ![g].step = "clearing"]
        /\ FailWaiting
        /\ UNCHANGED <<pending, streams, engineStarted, prompts, told>>
     \/ /\ watch[g].step = "clearing"
        /\ watch' = [watch EXCEPT ![g].step = IF watch[g].quiet THEN "done" ELSE "raising"]
        /\ ClearMaps
        /\ UNCHANGED <<answer, engineStarted, prompts, told>>
     \/ /\ watch[g].step = "raising"
        /\ watch' = [watch EXCEPT ![g].step = "done"]
        /\ engineStarted' = FALSE
        /\ prompts' = prompts + 1
        /\ told' = told \cup {g}
        /\ UNCHANGED <<answer, pending, streams>>
  /\ UNCHANGED <<process, quietExit, nextId, phase, idOf, seen, from,
                 spawned, os, stdin, stdout, busy, reader, restart, crashed, faults,
                 disposed, garbled>>

-----------------------------------------------------------------------------
(* Restarting                                                              *)

\* Cancel on the restart prompt, or OK: RestartAsync takes the process, which
\* may by now be another than the one that died, and marks the shutdown asked for.
\* One restart at a time: it holds the UI thread until the shutdown is written.
AnswerPrompt(ok) ==
  /\ ~crashed
  /\ UIFree
  /\ prompts > 0
  /\ prompts' = prompts - 1
  /\ IF ok
     THEN /\ Restarts /\ restart = NoRestart
          /\ restart' = [step |-> IF process = 0 THEN "start" ELSE "dispose",
                         old |-> process]
          /\ process' = 0
          /\ quietExit' = TRUE
          /\ disposed' = IF process = 0 THEN disposed ELSE disposed \cup {process}
     ELSE UNCHANGED <<restart, process, quietExit, disposed>>
  /\ UNCHANGED <<nextId, pending, streams, calls, engine, engineStarted, crashed,
                 faults, told, garbled>>

\* The Exited handler is detached and, if the process runs, shutdown is sent,
\* under an id nobody waits for (0 here).
Detach ==
  LET old == restart.old IN
  /\ restart.step = "dispose"
  /\ watch' = [watch EXCEPT ![old].step = IF @ = "on" THEN "off" ELSE @]
  /\ stdin' = IF os[old] = "running"
              THEN [stdin EXCEPT ![old] = Append(@, [method |-> "shutdown", id |-> 0,
                                                     call |-> 0])]
              ELSE stdin
  /\ restart' = [restart EXCEPT !.step = "wait"]
  /\ UNCHANGED <<process, quietExit, nextId, spawned, os, busy, reader, engineStarted, faults>>

\* WaitForExit(5000), then Kill; disposing of the process ends its reader.
AwaitExit ==
  LET old == restart.old IN
  /\ restart.step = "wait"
  /\ Exit(old)
  /\ reader' = [reader EXCEPT ![old] = "stopped"]
  /\ restart' = [restart EXCEPT !.step = "start"]
  /\ UNCHANGED <<process, quietExit, nextId, spawned, watch, engineStarted, faults>>

Respawn ==
  /\ restart.step = "start"
  /\ \/ Spawn /\ restart' = [restart EXCEPT !.step = "started"] /\ UNCHANGED faults
     \/ SpawnFails /\ restart' = NoRestart
  /\ UNCHANGED <<stdin, busy, engineStarted>>

\* RestartEngineAsync resumes on the UI thread.
Restarted ==
  /\ restart.step = "started"
  /\ engineStarted' = TRUE
  /\ restart' = NoRestart
  /\ UNCHANGED <<process, quietExit, nextId, spawned, os, stdin, busy, reader, watch, faults>>

RestartStep ==
  /\ ~crashed
  /\ Detach \/ AwaitExit \/ Respawn \/ Restarted
  /\ UNCHANGED <<pending, streams, calls, stdout, prompts, crashed, told, disposed,
                 garbled>>

-----------------------------------------------------------------------------
Next ==
  \/ \E c \in Calls : Begin(c) \/ Register(c) \/ Write(c) \/ Return(c)
  \/ \E g \in Procs : Engine(g) \/ Die(g) \/ Garble(g)
  \/ \E g \in Procs : ReadStdout(g) \/ OnProcessExited(g)
  \/ \E ok \in BOOLEAN : AnswerPrompt(ok)
  \/ RestartStep

Spec == Init /\ [][Next]_vars

\* Every thread that can run does; the user, and the faults, owe nothing.
FairSpec ==
  /\ Spec
  /\ \A c \in Calls : WF_vars(Register(c)) /\ WF_vars(Write(c)) /\ WF_vars(Return(c))
  /\ \A g \in Procs : WF_vars(Engine(g)) /\ WF_vars(ReadStdout(g)) /\ WF_vars(OnProcessExited(g))
  /\ WF_vars(RestartStep)

-----------------------------------------------------------------------------
(* Properties                                                              *)

\* "The id round-trips verbatim so the shell can match responses to its pending
\* promises": however many processes have come and gone, a call is completed by
\* the reply to its own request or by a failure, never by another's reply.
OwnReply == \A c \in Calls : answer[c] \in {"result", "error"} => from[c] = c

\* UnexpectedExit "fires when the subprocess exits without a preceding shutdown
\* request": the user is told of every death, but those a restart has answered by
\* disposing of that process or of one spawned later.
DeathIsTold ==
  \A g \in Procs : watch[g].step = "done" => g \in told \/ \E h \in disposed : g <= h

\* No process is left running that the client no longer knows of.
NoOrphan ==
  \A g \in Procs : os[g] = "running" => (g = process \/ g = restart.old)

\* "... without crashing or hanging in-flight requests": a request that was
\* written is answered or failed, whatever dies, as long as no restart disposes
\* of a process and no line is malformed.
NoCallHangs ==
  \A c \in Calls : phase[c] = "await" ~>
    (phase[c] = "returned" \/ disposed # {} \/ garbled \/ crashed)

=============================================================================
