-------------------------- MODULE ContainerControl --------------------------
(***************************************************************************)
(* Controlling one container through docker.models.containers.Container:   *)
(* signals and states, stop and restart with their two timeouts, wait and  *)
(* its conditions, commands run inside (exec_run), output with a terminal  *)
(* or without, commit.  The container ends by itself; other clients start  *)
(* and remove it; requests and answers are lost.                           *)
(***************************************************************************)
EXTENDS Integers, FiniteSets

CONSTANTS Base,         \* APIClient.timeout, seconds the client waits for an answer
          Default,      \* the 10 seconds of stop and restart
          Timeout,      \* timeouts given to stop, restart and wait
          StopTimeout,  \* StopTimeout values containers are made with
          Api,          \* API versions, 1.24 as 24
          None,         \* Python's None
          MaxCalls,     \* bound: calls of the program
          MaxOthers     \* bound: steps of other clients and of the container

Present == {"created", "running", "paused", "exited"}

ASSUME ControlConstants ==
    /\ Base \in Nat \ {0} /\ Default \in Nat
    /\ Timeout \subseteq Nat /\ StopTimeout \subseteq Nat /\ Api \subseteq Nat
    /\ None \notin Int /\ None \notin Present
    /\ MaxCalls \in Nat /\ MaxOthers \in Nat

VARIABLES
    status,    \* daemon: the container
    grace,     \* daemon: its StopTimeout
    api,       \* daemon: the version of the API that is spoken
    exits,     \* daemon: how often it ended
    exec,      \* daemon: the command that was run inside
    image,     \* daemon: the image the last commit made
    pc, call,  \* the program: its next step, its call
    elapsed,   \* seconds since the request the program waits for
    held,      \* the response it has open
    result,    \* how the last call ended
    calls, others,
    before,    \* history: exits when the call began
    again      \* history: an operation whose answer was lost, if nothing else
               \* was done to the container since

given == <<grace, api>>
daemon == <<status, given, exits, exec, image>>
vars == <<daemon, pc, call, elapsed, held, result, calls, others, before, again>>

Up == {"running", "paused"}

NoExec == [state |-> "none", open |-> FALSE, early |-> FALSE]
Done(k) == [kind |-> k, code |-> None]

-----------------------------------------------------------------------------
(* Operations of one request: the states the daemon accepts them in, and   *)
(* the states that may follow, None for the same.  Starting what runs and  *)
(* stopping what is stopped is answered with 304, which is no error.  What *)
(* an answer says (the port, the changes, the archive) is left out.  The   *)
(* version checks of update_container never fire: no client is made for an *)
(* API version as old as that (api/client.py:215).                         *)

Ask(from, to) == [from |-> from, to |-> to]

Start == Ask({"created", "exited", "running"}, {"running"})
\* A signal other than SIGKILL need not end the container.
Kill == Ask(Up, {"exited", None})
Pause == Ask({"running"}, {"paused"})
Unpause == Ask({"paused"}, {"running"})
Resize == Ask({"running"}, {None})
Top == Ask(Up, {None})
Update == Ask(Present, {None})
Diff == Ask(Present, {None})
GetArchive == Ask(Present, {None})
PutArchive == Ask(Present, {None})
Port == Ask(Present, {None})
RemoveForced == Ask(Present, {"gone"})

Simple == [start |-> Start, kill |-> Kill, pause |-> Pause, unpause |-> Unpause,
           resize |-> Resize, top |-> Top, update |-> Update, diff |-> Diff,
           get_archive |-> GetArchive, put_archive |-> PutArchive, port |-> Port,
           remove |-> RemoveForced]

NoCall == [op |-> "none", timeout |-> None, how |-> "none"]
With(op, ts, hs) == [op : {op}, timeout : ts, how : hs]
Call ==
    [op : DOMAIN Simple, timeout : {None}, how : {"none"}]
    \union With("stop", Timeout \union {None}, {"none"})
    \union With("restart", Timeout \union {Default}, {"none"})
    \union With("wait", (Timeout \ {0}) \union {None}, {"none", "next-exit", "removed"})
    \union With("exec", {None}, {"wait", "stream", "detach"})
    \union With("logs", {None}, {"join", "stream"})
    \union With("attach", {None}, {"join", "stream"})
    \union With("commit", {None}, {"none"})

-----------------------------------------------------------------------------
Init ==
    /\ status \in {"created", "running", "exited"}
    /\ grace \in StopTimeout /\ api \in Api
    /\ exits = 0 /\ exec = NoExec /\ image = "none"
    /\ pc = "idle" /\ call = NoCall /\ elapsed = 0 /\ held = FALSE
    /\ result = Done("none")
    /\ calls = 0 /\ others = 0 /\ before = 0 /\ again = "none"

Goto(l) == pc' = l /\ UNCHANGED <<call, result>>
Return(r) == pc' = "idle" /\ result' = r /\ UNCHANGED call

\* The status becomes s; leaving a state in which it is up ends the container.
Becomes(s) ==
    /\ status' = s
    /\ exits' = IF status \in Up /\ s \notin Up THEN exits + 1 ELSE exits
    /\ exec' = IF s \in Up \/ exec.state # "running" THEN exec
               ELSE [exec EXCEPT !.state = "exited", !.open = FALSE]

Begin ==
    /\ pc = "idle" /\ calls < MaxCalls
    /\ \E c \in Call : call' = c /\ pc' = c.op
    /\ calls' = calls + 1
    /\ elapsed' = 0 /\ held' = FALSE
    /\ result' = Done("none")
    /\ before' = exits
    /\ exec' = NoExec /\ image' = "none"
    /\ UNCHANGED <<status, given, exits, others, again>>

\* One request and _raise_for_status.
Operate ==
    /\ pc \in DOMAIN Simple
    /\ LET ask == Simple[pc] IN
       IF status \notin ask.from
       THEN Return(Done("Error")) /\ again' = "none" /\ UNCHANGED <<status, exits, exec>>
       ELSE /\ \E to \in ask.to : Becomes(IF to = None THEN status ELSE to)
            /\ \/ Return(Done("done")) /\ again' = "none"
               \/ Return(Done("lost")) /\ again' = call.op
    /\ UNCHANGED <<given, image, elapsed, held, calls, others, before>>

\* A request that never arrives, or an answer that does not.  Reading the
\* output closes the response in any case; the inspection after it does not.
Lose ==
    /\ pc \notin {"idle", "stopping"}
    /\ held' = (held /\ pc = "tty")
    /\ Return(Done("lost"))
    /\ UNCHANGED <<daemon, elapsed, calls, others, before, again>>

-----------------------------------------------------------------------------
(* stop and restart.  The daemon sends the signal and kills the container  *)
(* after t seconds, or after its StopTimeout if no t was sent.             *)

Patience == IF call.timeout = None THEN grace ELSE call.timeout

\* Seeded fault: the client waits for its usual time.
ClientWaitsBase == Base

\* conn_timeout
ClientWaits == Base + (IF call.timeout = None THEN Default ELSE call.timeout)

\* Seeded fault: a stopped container is an error.
StopOnlyUp ==
    /\ pc \in {"stop", "restart"}
    /\ IF status \notin Up THEN Return(Done("Error")) /\ again' = "none"
       ELSE Goto("stopping") /\ UNCHANGED again
    /\ UNCHANGED <<daemon, elapsed, held, calls, others, before>>

Stop ==
    /\ pc \in {"stop", "restart"}
    /\ IF status \notin Present THEN Return(Done("Error")) /\ again' = "none"
       ELSE Goto("stopping") /\ UNCHANGED again
    /\ UNCHANGED <<daemon, elapsed, held, calls, others, before>>

\* The container has ended, and the answer arrives or is lost.
Stopped ==
    /\ pc = "stopping"
    /\ IF status \notin Present
       THEN Return(Done("Error")) /\ again' = "none" /\ UNCHANGED <<status, exits, exec>>
       ELSE /\ Becomes(IF call.op = "restart" THEN "running"
                       ELSE IF status = "created" THEN "created" ELSE "exited")
            /\ \/ Return(Done("done")) /\ again' = "none"
               \/ Return(Done("lost")) /\ again' = call.op
    /\ UNCHANGED <<given, image, elapsed, held, calls, others, before>>

\* A second passes while the container does not heed the signal.
Tick ==
    /\ pc = "stopping" /\ status \in Up
    /\ elapsed < Patience /\ elapsed < ClientWaits
    /\ elapsed' = elapsed + 1
    /\ UNCHANGED <<daemon, pc, call, held, result, calls, others, before, again>>

\* requests' ReadTimeout; the daemon goes on, and the container ends later.
StopTimesOut ==
    /\ pc = "stopping" /\ elapsed >= ClientWaits
    /\ Return(Done("timeout"))
    /\ again' = IF status \in Present THEN call.op ELSE "none"
    /\ UNCHANGED <<daemon, elapsed, held, calls, others, before>>

-----------------------------------------------------------------------------
(* wait: a request that is answered when the condition is met.             *)

\* A condition is refused, before the request, if the version is below 1.30.
Wait ==
    /\ pc = "wait"
    /\ IF call.how # "none" /\ api < 30 THEN Return(Done("InvalidVersion"))
       ELSE IF status \notin Present THEN Return(Done("Error"))
       ELSE Goto("waiting")
    /\ UNCHANGED <<daemon, elapsed, held, calls, others, before, again>>

\* The code is that of the last end, which exits numbers.
WaitAnswered ==
    /\ pc = "waiting"
    /\ CASE call.how = "none" -> status \notin Up
         [] call.how = "next-exit" -> exits > before
         [] call.how = "removed" -> status = "gone"
    /\ Return([Done("code") EXCEPT !.code = exits])
    /\ UNCHANGED <<daemon, elapsed, held, calls, others, before, again>>

\* A timeout of None is handed to requests as it is: no timeout.
WaitTimesOut ==
    /\ pc = "waiting" /\ call.timeout # None
    /\ Return(Done("timeout"))
    /\ UNCHANGED <<daemon, elapsed, held, calls, others, before, again>>

-----------------------------------------------------------------------------
(* exec_run: create, start, read the output, ask for the exit code.        *)

ExecCreate ==
    /\ pc = "exec"
    /\ IF status # "running" THEN Return(Done("Error")) ELSE Goto("exec start")
    /\ UNCHANGED <<daemon, elapsed, held, calls, others, before, again>>

\* Seeded fault: the code is asked for before the output is read.
ExecStartInspects ==
    /\ pc = "exec start"
    /\ IF status # "running" THEN Return(Done("Error")) /\ UNCHANGED <<exec, held>>
       ELSE /\ exec' = [state |-> "running", open |-> TRUE, early |-> FALSE]
            /\ held' = (call.how = "stream")
            /\ IF call.how = "stream" THEN Return(Done("exec")) ELSE Goto("exec inspect")
    /\ UNCHANGED <<status, given, exits, image, elapsed, calls, others, before, again>>

\* Detached, the response is closed; with stream the caller gets it.
ExecStart ==
    /\ pc = "exec start"
    /\ IF status # "running" THEN Return(Done("Error")) /\ UNCHANGED <<exec, held>>
       ELSE /\ exec' = [state |-> "running", open |-> TRUE, early |-> FALSE]
            /\ held' = (call.how # "detach")
            /\ CASE call.how = "stream" -> Return(Done("exec"))
                 [] call.how = "detach" -> Goto("exec inspect")
                 [] call.how = "wait" -> Goto("output")
    /\ UNCHANGED <<status, given, exits, image, elapsed, calls, others, before, again>>

\* _read_from_socket: all frames, then "finally: response.close()".
Output ==
    /\ pc = "output" /\ ~exec.open
    /\ held' = FALSE
    /\ Goto("exec inspect")
    /\ UNCHANGED <<daemon, elapsed, calls, others, before, again>>

\* ExitCode is null while the command runs.
ExecInspect ==
    /\ pc = "exec inspect"
    /\ Return(IF status = "gone" THEN Done("Error")
              ELSE [kind |-> "exec", code |-> IF exec.state = "exited" THEN exits ELSE None])
    /\ UNCHANGED <<daemon, elapsed, held, calls, others, before, again>>

\* The command ends, or closes its output and goes on.
Command ==
    /\ exec.state = "running" /\ exec.open
    /\ \/ exec' = [exec EXCEPT !.state = "exited", !.open = FALSE]
       \/ exec' = [exec EXCEPT !.open = FALSE, !.early = TRUE]
    /\ UNCHANGED <<status, given, exits, image, pc, call, elapsed, held, result, calls, others,
                   before, again>>

-----------------------------------------------------------------------------
(* logs and attach: the request, then an inspection for the terminal.      *)

\* No status is looked at yet.
Request ==
    /\ pc \in {"logs", "attach"}
    /\ held' = (pc = "attach" \/ call.how = "stream")
    /\ Goto("tty")
    /\ UNCHANGED <<daemon, elapsed, calls, others, before, again>>

\* _check_is_tty.  When it raises, nobody closes the response.
IsTty ==
    /\ pc = "tty"
    /\ IF status \notin Present THEN Return(Done("Error"))
       ELSE IF call.how = "join" /\ call.op = "attach" THEN Goto("joining")
       ELSE Return(Done("done"))
    /\ UNCHANGED <<daemon, elapsed, held, calls, others, before, again>>

\* attach without stream returns when the container has ended.
Join ==
    /\ pc = "joining" /\ status \notin Up
    /\ held' = FALSE
    /\ Return(Done("done"))
    /\ UNCHANGED <<daemon, elapsed, calls, others, before, again>>

-----------------------------------------------------------------------------
(* commit: a request, and the image is looked up.                          *)

Commit ==
    /\ pc = "commit"
    /\ IF status \notin Present THEN Return(Done("Error")) /\ UNCHANGED image
       ELSE image' = "there" /\ Goto("image get")
    /\ UNCHANGED <<status, given, exits, exec, elapsed, held, calls, others, before, again>>

ImageGet ==
    /\ pc = "image get"
    /\ Return(IF image = "there" THEN Done("done") ELSE Done("Error"))
    /\ UNCHANGED <<daemon, elapsed, held, calls, others, before, again>>

-----------------------------------------------------------------------------
(* The container ends; other clients start, pause and remove things.       *)

Others ==
    /\ others < MaxOthers
    /\ \/ status \in Up /\ (Becomes("exited") \/ Becomes("gone")) /\ UNCHANGED image
       \/ status \in {"created", "exited"} /\ (Becomes("running") \/ Becomes("gone"))
          /\ UNCHANGED image
       \/ status = "running" /\ Becomes("paused") /\ UNCHANGED image
       \/ image = "there" /\ image' = "gone" /\ UNCHANGED <<status, exits, exec>>
    /\ others' = others + 1
    /\ again' = "none"
    /\ UNCHANGED <<given, pc, call, elapsed, held, result, calls, before>>

Step == \/ Operate \/ Stop \/ Stopped \/ Tick \/ StopTimesOut
        \/ Wait \/ WaitAnswered \/ WaitTimesOut
        \/ ExecCreate \/ ExecStart \/ Output \/ ExecInspect
        \/ Request \/ IsTty \/ Join \/ Commit \/ ImageGet

Next == Begin \/ Step \/ Lose \/ Command \/ Others

Spec == Init /\ [][Next]_vars /\ WF_vars(Step)

-----------------------------------------------------------------------------
(* Properties                                                              *)

\* Every variable has its type.
TypeOK ==
    /\ status \in Present \union {"gone"} /\ grace \in StopTimeout /\ api \in Api /\ exits \in Nat
    /\ exec \in [state : {"none", "running", "exited"}, open : BOOLEAN, early : BOOLEAN]
    /\ image \in {"none", "there", "gone"}
    /\ pc \in DOMAIN Simple \union
              {"idle", "stop", "restart", "stopping", "wait", "waiting", "exec", "exec start",
               "output", "exec inspect", "logs", "attach", "tty", "joining", "commit", "image get"}
    /\ call \in Call \union {NoCall} /\ elapsed \in Nat /\ held \in BOOLEAN
    /\ result \in [kind : {"none", "done", "Error", "InvalidVersion", "lost", "timeout", "code", "exec"},
                   code : Nat \union {None}]
    /\ calls \in 0..MaxCalls /\ others \in 0..MaxOthers /\ before \in Nat
    /\ again \in DOMAIN Simple \union {"none", "stop", "restart"}

(* A stop or restart with a timeout is never given up by the client while  *)
(* the daemon still waits for the container; without one it may be, if the *)
(* container's own StopTimeout is longer than the client thinks.           *)
ClientOutlastsStop ==
    pc = "idle" /\ result.kind = "timeout" /\ call.op \in {"stop", "restart"} =>
        call.timeout = None /\ grace >= Base + Default

(* start, stop and restart may be repeated when an answer was lost: the    *)
(* second call does not fail because the first one took effect.            *)
RetrySucceeds ==
    [][pc # "idle" /\ pc' = "idle" /\ call.op \in {"start", "stop", "restart"} /\ again = call.op
       => result'.kind # "Error"]_vars

(* exec_run returns an exit code, unless stream or detach was asked for or *)
(* the command closed its output before it ended.                          *)
ExecHasCode ==
    pc = "idle" /\ result.kind = "exec" /\ call.how = "wait" /\ ~exec.early => result.code # None

\* Only a stream that the caller has, or a call that failed, leaves a response open.
HeldByCaller ==
    pc = "idle" /\ held => call.how = "stream" \/ result.kind \in {"Error", "lost"}

(* A command run in the container is seen to its end, and its connection   *)
(* to the caller: the types, ExecHasCode and HeldByCaller together.        *)
ExecIsWhole == TypeOK /\ ExecHasCode /\ HeldByCaller

(* A call ends, whatever the container does, if the daemon does not have   *)
(* to wait for it; wait() ends if it has a timeout, exec_run if the output *)
(* of the command does.                                                    *)
CallEnds ==
    /\ (pc # "idle" /\ call.op \notin {"wait", "exec", "attach"}) ~> (pc = "idle")
    /\ (pc = "waiting" /\ call.timeout # None) ~> (pc = "idle")
    /\ (pc = "output" /\ ~exec.open) ~> (pc = "idle")

(* Stopping and waiting conclude: a call ends (CallEnds), and if it was    *)
(* lost it can be made again (RetrySucceeds).                              *)
CallsConclude == CallEnds /\ RetrySucceeds
=============================================================================
