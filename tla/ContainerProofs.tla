-------------------------- MODULE ContainerProofs --------------------------
(***************************************************************************)
(* Controlling a container, for every timeout and any number of calls and  *)
(* of steps of others: proofs of the invariants of ContainerControl, and   *)
(* of what a repeated call may count on.  And running one: what run()      *)
(* reports is true, whatever happens to the container and to the requests. *)
(***************************************************************************)
EXTENDS ContainerControl, ContainerRun, TLAPS

-----------------------------------------------------------------------------
(* The inductive invariant                                                 *)

\* The step the program is at belongs to its call.
Belongs ==
    /\ pc # "idle" => call \in Call
    /\ pc \notin {"idle", "stopping", "waiting", "exec start", "output", "exec inspect", "tty",
                  "joining", "image get"} => call.op = pc
    /\ pc = "stopping" => call.op \in {"stop", "restart"}
    /\ pc = "waiting" => call.op = "wait"
    /\ pc \in {"exec start", "output", "exec inspect"} => call.op = "exec"
    /\ pc \in {"tty", "joining"} => call.op \in {"logs", "attach"}
    /\ pc = "image get" => call.op = "commit"

\* The daemon has not waited longer than it was asked to.
Waited ==
    /\ pc \in {"stop", "restart"} => elapsed = 0
    /\ pc = "stopping" => elapsed <= Patience

\* A command whose output is closed has ended or has closed it early, and
\* exec_run asks for its code only then, unless it was told not to wait.
CommandSeen ==
    /\ exec.state = "running" /\ ~exec.open => exec.early
    /\ pc = "output" => exec.state # "none"
    /\ pc = "exec inspect" /\ call.how = "wait" => exec.state # "none" /\ ~exec.open

\* A response is open while it is read, or while a stream's terminal is asked for.
Held ==
    /\ held => pc \in {"idle", "output", "tty", "joining"}
    /\ held /\ pc = "tty" => call.op = "attach" \/ call.how = "stream"

\* What an operation did whose answer was lost is still so.
Remembered ==
    /\ again = "start" => status = "running"
    /\ again \in {"stop", "restart"} => status \in Present

IInv == /\ TypeOK /\ Belongs /\ Waited /\ CommandSeen /\ Held /\ Remembered
        /\ ClientOutlastsStop /\ ExecHasCode /\ HeldByCaller

-----------------------------------------------------------------------------
(* Calls                                                                   *)

\* The operations of one request.
SimpleOps == {"start", "kill", "pause", "unpause", "resize", "top", "update", "diff",
              "get_archive", "put_archive", "port", "remove"}

(* The domain of a record is the set of its fields.                        *)
LEMMA SimpleDomain == DOMAIN Simple = SimpleOps
  BY DEF Simple, SimpleOps

(* What an operation of one request asks for.                              *)
LEMMA SimpleAsks ==
    ASSUME NEW o \in SimpleOps
    PROVE  /\ Simple[o].to \subseteq Present \union {"gone", None}
           /\ Simple["start"].from = {"created", "exited", "running"}
           /\ Simple["start"].to = {"running"}
  BY DEF Simple, SimpleOps, Ask, Start, Kill, Pause, Unpause, Resize, Top, Update, Diff, GetArchive,
         PutArchive, Port, RemoveForced, Present

(* A call of each operation.                                               *)
LEMMA CallFacts ==
    ASSUME NEW c \in Call
    PROVE  /\ c.op \in SimpleOps \union {"stop", "restart", "wait", "exec", "logs", "attach", "commit"}
           /\ c.timeout \in Nat \union {None}
           /\ c.op = "exec" => c.how \in {"wait", "stream", "detach"}
           /\ c.op \in {"logs", "attach"} => c.how \in {"join", "stream"}
  BY SimpleDomain, ControlConstants DEF Call, With, SimpleOps

ExecType == [state : {"none", "running", "exited"}, open : BOOLEAN, early : BOOLEAN]

(* The container changes its state: a command inside ends with it.         *)
LEMMA BecomesEffect ==
    ASSUME TypeOK, NEW s \in Present \union {"gone"}, Becomes(s)
    PROVE  /\ status' = s /\ exits' \in Nat /\ exits' >= exits /\ exec' \in ExecType
           /\ exec'.early = exec.early
           /\ exec' = exec \/ (exec.state = "running" /\ exec'.state = "exited" /\ ~exec'.open)
  <1>1. exits \in Nat /\ exec \in ExecType
    BY DEF TypeOK, ExecType
  <1>2. exits' \in Nat /\ exits' >= exits
    BY <1>1 DEF Becomes
  <1>3. exec' = exec \/ (exec.state = "running" /\ exec' = [exec EXCEPT !.state = "exited", !.open = FALSE])
    BY DEF Becomes
  <1>4. ASSUME exec' = [exec EXCEPT !.state = "exited", !.open = FALSE]
        PROVE  exec' \in ExecType /\ exec'.early = exec.early /\ exec'.state = "exited" /\ ~exec'.open
    BY <1>1, <1>4 DEF ExecType
  <1> QED
    BY <1>1, <1>2, <1>3, <1>4 DEF Becomes

ResultType == [kind : {"none", "done", "Error", "InvalidVersion", "lost", "timeout", "code", "exec"},
               code : Nat \union {None}]

(* What a call returns.                                                    *)
LEMMA Returned ==
    ASSUME NEW k \in {"none", "done", "Error", "InvalidVersion", "lost", "timeout", "code", "exec"},
           NEW n \in Nat \union {None}
    PROVE  /\ Done(k) \in ResultType /\ Done(k).kind = k /\ Done(k).code = None
           /\ [kind |-> k, code |-> n] \in ResultType
           /\ [Done(k) EXCEPT !.code = n] \in ResultType
           /\ [Done(k) EXCEPT !.code = n].kind = k /\ [Done(k) EXCEPT !.code = n].code = n
  BY DEF Done, ResultType

(* The daemon's side of a step: the container, the command and the image.  *)
LEMMA DaemonTypes ==
    ASSUME TypeOK, Belongs, Next
    PROVE  /\ status' \in Present \union {"gone"} /\ grace' \in StopTimeout /\ api' \in Api /\ exits' \in Nat
           /\ exec' \in ExecType /\ image' \in {"none", "there", "gone"}
  <1>0. /\ status \in Present \union {"gone"} /\ grace \in StopTimeout /\ api \in Api /\ exits \in Nat
        /\ exec \in ExecType /\ image \in {"none", "there", "gone"}
    BY DEF TypeOK, ExecType
  <1>a. NoExec \in ExecType /\ [state |-> "running", open |-> TRUE, early |-> FALSE] \in ExecType
        /\ [exec EXCEPT !.state = "exited", !.open = FALSE] \in ExecType
        /\ [exec EXCEPT !.open = FALSE, !.early = TRUE] \in ExecType
    BY <1>0 DEF NoExec, ExecType
  <1>1. CASE Begin
    BY <1>1, <1>0, <1>a DEF Begin, daemon, given
  <1>2. CASE Operate
    <2>1. (\E s \in Present \union {"gone"} : Becomes(s)) \/ UNCHANGED <<status, exits, exec>>
      BY <1>2, <1>0, SimpleDomain, SimpleAsks DEF Operate
    <2> QED
      BY <1>2, <1>0, <2>1, BecomesEffect DEF Operate, given
  <1>3. CASE Stop
    BY <1>3, <1>0, <1>a DEF Stop, daemon, given
  <1>4. CASE Stopped
    <2>1. (\E s \in Present \union {"gone"} : Becomes(s)) \/ UNCHANGED <<status, exits, exec>>
      BY <1>4, <1>0 DEF Stopped, Present
    <2> QED
      BY <1>4, <1>0, <2>1, BecomesEffect DEF Stopped, given
  <1>5. CASE Tick
    BY <1>5, <1>0, <1>a DEF Tick, daemon, given
  <1>6. CASE StopTimesOut
    BY <1>6, <1>0, <1>a DEF StopTimesOut, daemon, given
  <1>7. CASE Wait
    BY <1>7, <1>0, <1>a DEF Wait, daemon, given
  <1>8. CASE WaitAnswered
    BY <1>8, <1>0, <1>a DEF WaitAnswered, daemon, given
  <1>9. CASE WaitTimesOut
    BY <1>9, <1>0, <1>a DEF WaitTimesOut, daemon, given
  <1>10. CASE ExecCreate
    BY <1>10, <1>0, <1>a DEF ExecCreate, daemon, given
  <1>11. CASE ExecStart
    BY <1>11, <1>0, <1>a DEF ExecStart, daemon, given
  <1>12. CASE Output
    BY <1>12, <1>0, <1>a DEF Output, daemon, given
  <1>13. CASE ExecInspect
    BY <1>13, <1>0, <1>a DEF ExecInspect, daemon, given
  <1>14. CASE Request
    BY <1>14, <1>0, <1>a DEF Request, daemon, given
  <1>15. CASE IsTty
    BY <1>15, <1>0, <1>a DEF IsTty, daemon, given
  <1>16. CASE Join
    BY <1>16, <1>0, <1>a DEF Join, daemon, given
  <1>17. CASE Commit
    BY <1>17, <1>0, <1>a DEF Commit, daemon, given
  <1>18. CASE ImageGet
    BY <1>18, <1>0, <1>a DEF ImageGet, daemon, given
  <1>19. CASE Lose
    BY <1>19, <1>0, <1>a DEF Lose, daemon, given
  <1>20. CASE Command
    BY <1>20, <1>0, <1>a DEF Command, daemon, given
  <1>21. CASE Others
    <2>1. (\E s \in Present \union {"gone"} : Becomes(s)) \/ UNCHANGED <<status, exits, exec>>
      BY <1>21, <1>0 DEF Others, Present
    <2> QED
      BY <1>21, <1>0, <2>1, BecomesEffect DEF Others, given
  <1> QED
    BY <1>1, <1>2, <1>3, <1>4, <1>5, <1>6, <1>7, <1>8, <1>9, <1>10, <1>11, <1>12, <1>13,
       <1>14, <1>15, <1>16, <1>17, <1>18, <1>19, <1>20, <1>21
       DEF Next, Step

(* The program's side of a step: where it is, and what its call returns.   *)
LEMMA ProgramTypes ==
    ASSUME TypeOK, Belongs, Next
    PROVE  /\ pc' \in SimpleOps \union
                     {"idle", "stop", "restart", "stopping", "wait", "waiting", "exec", "exec start",
                      "output", "exec inspect", "logs", "attach", "tty", "joining", "commit", "image get"}
           /\ call' \in Call \union {NoCall}
           /\ result' \in ResultType
           /\ pc = "idle" \/ UNCHANGED call
  <1>0. /\ pc \in SimpleOps \union
               {"idle", "stop", "restart", "stopping", "wait", "waiting", "exec", "exec start",
                "output", "exec inspect", "logs", "attach", "tty", "joining", "commit", "image get"}
        /\ call \in Call \union {NoCall} /\ result \in ResultType /\ exits \in Nat
    BY SimpleDomain DEF TypeOK, ResultType
  <1>1. CASE Begin
    <2>1. PICK c \in Call : call' = c /\ pc' = c.op
      BY <1>1 DEF Begin
    <2>2. c.op \in SimpleOps \union {"stop", "restart", "wait", "exec", "logs", "attach", "commit"}
      BY CallFacts
    <2> QED
      BY <1>1, <2>1, <2>2, Returned DEF Begin
  <1>2. CASE Operate
    <2>1. pc' = "idle" /\ UNCHANGED call /\ result' \in {Done("done"), Done("lost"), Done("Error")}
      BY <1>2 DEF Operate, Return
    <2> QED
      BY <1>0, <2>1, Returned
  <1>3. CASE Stop
    BY <1>3, <1>0, Returned DEF Stop, Goto, Return
  <1>4. CASE Stopped
    BY <1>4, <1>0, Returned DEF Stopped, Goto, Return
  <1>5. CASE Tick
    BY <1>5, <1>0 DEF Tick
  <1>6. CASE StopTimesOut
    BY <1>6, <1>0, Returned DEF StopTimesOut, Goto, Return
  <1>7. CASE Wait
    BY <1>7, <1>0, Returned DEF Wait, Goto, Return
  <1>8. CASE WaitAnswered
    BY <1>8, <1>0, Returned DEF WaitAnswered, Goto, Return
  <1>9. CASE WaitTimesOut
    BY <1>9, <1>0, Returned DEF WaitTimesOut, Goto, Return
  <1>10. CASE ExecCreate
    BY <1>10, <1>0, Returned DEF ExecCreate, Goto, Return
  <1>11. CASE ExecStart
    <2>1. call.how \in {"wait", "stream", "detach"}
      BY <1>11, CallFacts DEF ExecStart, Belongs
    <2> QED
      BY <1>11, <1>0, <2>1, Returned DEF ExecStart, Goto, Return
  <1>12. CASE Output
    BY <1>12, <1>0, Returned DEF Output, Goto, Return
  <1>13. CASE ExecInspect
    <2>1. [kind |-> "exec", code |-> IF exec.state = "exited" THEN exits ELSE None] \in ResultType
      BY <1>0, Returned
    <2> QED
      BY <1>13, <1>0, <2>1, Returned DEF ExecInspect, Return
  <1>14. CASE Request
    BY <1>14, <1>0, Returned DEF Request, Goto, Return
  <1>15. CASE IsTty
    BY <1>15, <1>0, Returned DEF IsTty, Goto, Return
  <1>16. CASE Join
    BY <1>16, <1>0, Returned DEF Join, Goto, Return
  <1>17. CASE Commit
    BY <1>17, <1>0, Returned DEF Commit, Goto, Return
  <1>18. CASE ImageGet
    BY <1>18, <1>0, Returned DEF ImageGet, Goto, Return
  <1>19. CASE Lose
    BY <1>19, <1>0, Returned DEF Lose, Goto, Return
  <1>20. CASE Command
    BY <1>20, <1>0 DEF Command
  <1>21. CASE Others
    BY <1>21, <1>0 DEF Others
  <1> QED
    BY <1>1, <1>2, <1>3, <1>4, <1>5, <1>6, <1>7, <1>8, <1>9, <1>10, <1>11, <1>12, <1>13,
       <1>14, <1>15, <1>16, <1>17, <1>18, <1>19, <1>20, <1>21
       DEF Next, Step

(* Counters, what is open and what is remembered.                          *)
LEMMA OtherTypes ==
    ASSUME TypeOK, Belongs, Next
    PROVE  /\ elapsed' \in Nat /\ calls' \in 0..MaxCalls /\ others' \in 0..MaxOthers /\ before' \in Nat
           /\ again' \in SimpleOps \union {"none", "stop", "restart"}
  <1>0. /\ elapsed \in Nat /\ calls \in 0..MaxCalls /\ others \in 0..MaxOthers /\ before \in Nat
        /\ again \in SimpleOps \union {"none", "stop", "restart"} /\ exits \in Nat
        /\ MaxCalls \in Nat /\ MaxOthers \in Nat
    BY SimpleDomain, ControlConstants DEF TypeOK
  <1>a. /\ pc \in SimpleOps \union {"stop", "restart"} => call.op = pc
        /\ pc = "stopping" => call.op \in {"stop", "restart"}
    BY DEF Belongs, SimpleOps
  <1>1. CASE Begin
    BY <1>1, <1>0, <1>a, SimpleDomain DEF Begin, Goto, Return
  <1>2. CASE Operate
    BY <1>2, <1>0, <1>a, SimpleDomain DEF Operate, Goto, Return
  <1>3. CASE Stop
    BY <1>3, <1>0, <1>a, SimpleDomain DEF Stop, Goto, Return
  <1>4. CASE Stopped
    BY <1>4, <1>0, <1>a, SimpleDomain DEF Stopped, Goto, Return
  <1>5. CASE Tick
    BY <1>5, <1>0, <1>a, SimpleDomain DEF Tick, Goto, Return
  <1>6. CASE StopTimesOut
    BY <1>6, <1>0, <1>a, SimpleDomain DEF StopTimesOut, Goto, Return
  <1>7. CASE Wait
    BY <1>7, <1>0, <1>a, SimpleDomain DEF Wait, Goto, Return
  <1>8. CASE WaitAnswered
    BY <1>8, <1>0, <1>a, SimpleDomain DEF WaitAnswered, Goto, Return
  <1>9. CASE WaitTimesOut
    BY <1>9, <1>0, <1>a, SimpleDomain DEF WaitTimesOut, Goto, Return
  <1>10. CASE ExecCreate
    BY <1>10, <1>0, <1>a, SimpleDomain DEF ExecCreate, Goto, Return
  <1>11. CASE ExecStart
    BY <1>11, <1>0, <1>a, SimpleDomain DEF ExecStart, Goto, Return
  <1>12. CASE Output
    BY <1>12, <1>0, <1>a, SimpleDomain DEF Output, Goto, Return
  <1>13. CASE ExecInspect
    BY <1>13, <1>0, <1>a, SimpleDomain DEF ExecInspect, Goto, Return
  <1>14. CASE Request
    BY <1>14, <1>0, <1>a, SimpleDomain DEF Request, Goto, Return
  <1>15. CASE IsTty
    BY <1>15, <1>0, <1>a, SimpleDomain DEF IsTty, Goto, Return
  <1>16. CASE Join
    BY <1>16, <1>0, <1>a, SimpleDomain DEF Join, Goto, Return
  <1>17. CASE Commit
    BY <1>17, <1>0, <1>a, SimpleDomain DEF Commit, Goto, Return
  <1>18. CASE ImageGet
    BY <1>18, <1>0, <1>a, SimpleDomain DEF ImageGet, Goto, Return
  <1>19. CASE Lose
    BY <1>19, <1>0, <1>a, SimpleDomain DEF Lose, Goto, Return
  <1>20. CASE Command
    BY <1>20, <1>0, <1>a, SimpleDomain DEF Command, Goto, Return
  <1>21. CASE Others
    BY <1>21, <1>0, <1>a, SimpleDomain DEF Others, Goto, Return
  <1> QED
    BY <1>1, <1>2, <1>3, <1>4, <1>5, <1>6, <1>7, <1>8, <1>9, <1>10, <1>11, <1>12, <1>13,
       <1>14, <1>15, <1>16, <1>17, <1>18, <1>19, <1>20, <1>21
       DEF Next, Step

(* A response is open or not.                                              *)
LEMMA HeldType ==
    ASSUME held \in BOOLEAN, Next
    PROVE  held' \in BOOLEAN
  <1>1. CASE Begin
    BY <1>1 DEF Begin, Goto, Return
  <1>2. CASE Operate
    BY <1>2 DEF Operate, Goto, Return
  <1>3. CASE Stop
    BY <1>3 DEF Stop, Goto, Return
  <1>4. CASE Stopped
    BY <1>4 DEF Stopped, Goto, Return
  <1>5. CASE Tick
    BY <1>5 DEF Tick, Goto, Return
  <1>6. CASE StopTimesOut
    BY <1>6 DEF StopTimesOut, Goto, Return
  <1>7. CASE Wait
    BY <1>7 DEF Wait, Goto, Return
  <1>8. CASE WaitAnswered
    BY <1>8 DEF WaitAnswered, Goto, Return
  <1>9. CASE WaitTimesOut
    BY <1>9 DEF WaitTimesOut, Goto, Return
  <1>10. CASE ExecCreate
    BY <1>10 DEF ExecCreate, Goto, Return
  <1>11. CASE ExecStart
    BY <1>11 DEF ExecStart, Goto, Return
  <1>12. CASE Output
    BY <1>12 DEF Output, Goto, Return
  <1>13. CASE ExecInspect
    BY <1>13 DEF ExecInspect, Goto, Return
  <1>14. CASE Request
    BY <1>14 DEF Request, Goto, Return
  <1>15. CASE IsTty
    BY <1>15 DEF IsTty, Goto, Return
  <1>16. CASE Join
    BY <1>16 DEF Join, Goto, Return
  <1>17. CASE Commit
    BY <1>17 DEF Commit, Goto, Return
  <1>18. CASE ImageGet
    BY <1>18 DEF ImageGet, Goto, Return
  <1>19. CASE Lose
    BY <1>19 DEF Lose, Goto, Return
  <1>20. CASE Command
    BY <1>20 DEF Command, Goto, Return
  <1>21. CASE Others
    BY <1>21 DEF Others, Goto, Return
  <1> QED
    BY <1>1, <1>2, <1>3, <1>4, <1>5, <1>6, <1>7, <1>8, <1>9, <1>10, <1>11, <1>12, <1>13,
       <1>14, <1>15, <1>16, <1>17, <1>18, <1>19, <1>20, <1>21
       DEF Next, Step

(* Every variable keeps its type.                                          *)
LEMMA TypesKept ==
    ASSUME TypeOK, Belongs, Next
    PROVE  TypeOK'
  <1>1. held' \in BOOLEAN
    BY HeldType DEF TypeOK
  <1> QED
    BY <1>1, DaemonTypes, ProgramTypes, OtherTypes, SimpleDomain DEF TypeOK, ExecType, ResultType

(* The step a call begins with, and every step that follows, is one of its *)
(* operation.                                                              *)
LEMMA BelongsKept ==
    ASSUME TypeOK, Belongs, Next
    PROVE  Belongs'
  <1>1. CASE Begin
    <2>1. PICK c \in Call : call' = c /\ pc' = c.op
      BY <1>1 DEF Begin
    <2>2. c.op \in SimpleOps \union {"stop", "restart", "wait", "exec", "logs", "attach", "commit"}
      BY CallFacts
    <2> QED
      BY <2>1, <2>2 DEF Belongs, SimpleOps
  <1>2. CASE Operate
    BY <1>2 DEF Operate, Goto, Return, Belongs
  <1>3. CASE Stop
    BY <1>3 DEF Stop, Goto, Return, Belongs
  <1>4. CASE Stopped
    BY <1>4 DEF Stopped, Goto, Return, Belongs
  <1>5. CASE Tick
    BY <1>5 DEF Tick, Goto, Return, Belongs
  <1>6. CASE StopTimesOut
    BY <1>6 DEF StopTimesOut, Goto, Return, Belongs
  <1>7. CASE Wait
    BY <1>7 DEF Wait, Goto, Return, Belongs
  <1>8. CASE WaitAnswered
    BY <1>8 DEF WaitAnswered, Goto, Return, Belongs
  <1>9. CASE WaitTimesOut
    BY <1>9 DEF WaitTimesOut, Goto, Return, Belongs
  <1>10. CASE ExecCreate
    BY <1>10 DEF ExecCreate, Goto, Return, Belongs
  <1>11. CASE ExecStart
    <2>1. call.how \in {"wait", "stream", "detach"}
      BY <1>11, CallFacts DEF ExecStart, Belongs
    <2> QED
      BY <1>11, <2>1 DEF ExecStart, Goto, Return, Belongs
  <1>12. CASE Output
    BY <1>12 DEF Output, Goto, Return, Belongs
  <1>13. CASE ExecInspect
    BY <1>13 DEF ExecInspect, Goto, Return, Belongs
  <1>14. CASE Request
    BY <1>14 DEF Request, Goto, Return, Belongs
  <1>15. CASE IsTty
    BY <1>15 DEF IsTty, Goto, Return, Belongs
  <1>16. CASE Join
    BY <1>16 DEF Join, Goto, Return, Belongs
  <1>17. CASE Commit
    BY <1>17 DEF Commit, Goto, Return, Belongs
  <1>18. CASE ImageGet
    BY <1>18 DEF ImageGet, Goto, Return, Belongs
  <1>19. CASE Lose
    BY <1>19 DEF Lose, Goto, Return, Belongs
  <1>20. CASE Command
    BY <1>20 DEF Command, Goto, Return, Belongs
  <1>21. CASE Others
    BY <1>21 DEF Others, Goto, Return, Belongs
  <1> QED
    BY <1>1, <1>2, <1>3, <1>4, <1>5, <1>6, <1>7, <1>8, <1>9, <1>10, <1>11, <1>12, <1>13,
       <1>14, <1>15, <1>16, <1>17, <1>18, <1>19, <1>20, <1>21
       DEF Next, Step

(* Starting a command: refused, or its stream is returned, or exec_run goes *)
(* on without the response, or to reading it.                              *)
LEMMA ExecStarted ==
    ASSUME TypeOK, Belongs, ExecStart
    PROVE  /\ call.op = "exec" /\ UNCHANGED <<status, grace, call, elapsed, before, again>>
           /\ \/ /\ pc' = "idle" /\ result'.kind = "Error" /\ UNCHANGED <<exec, held>>
              \/ /\ exec' = [state |-> "running", open |-> TRUE, early |-> FALSE]
                 /\ \/ pc' = "idle" /\ result'.kind = "exec" /\ call.how = "stream"
                    \/ pc' = "exec inspect" /\ UNCHANGED result /\ ~held' /\ call.how = "detach"
                    \/ pc' = "output" /\ UNCHANGED result /\ call.how = "wait"
  <1>1. call.op = "exec" /\ call.how \in {"wait", "stream", "detach"}
    BY CallFacts DEF ExecStart, Belongs
  <1>2. CASE status # "running"
    <2>1. /\ pc' = "idle" /\ result' = Done("Error") /\ exec' = exec /\ held' = held
          /\ UNCHANGED <<status, grace, call, elapsed, before, again>>
      BY <1>2 DEF ExecStart, Return, given
    <2>2. result'.kind = "Error"
      BY <2>1 DEF Done
    <2> QED
      BY <1>1, <2>1, <2>2
  <1>3. CASE status = "running" /\ call.how = "stream"
    <2>1. /\ pc' = "idle" /\ result' = Done("exec")
          /\ exec' = [state |-> "running", open |-> TRUE, early |-> FALSE]
          /\ UNCHANGED <<status, grace, call, elapsed, before, again>>
      BY <1>1, <1>3 DEF ExecStart, Return, given
    <2>2. result'.kind = "exec"
      BY <2>1 DEF Done
    <2> QED
      BY <1>1, <1>3, <2>1, <2>2
  <1>4. CASE status = "running" /\ call.how = "detach"
    BY <1>1, <1>4 DEF ExecStart, Goto, given
  <1>5. CASE status = "running" /\ call.how = "wait"
    BY <1>1, <1>5 DEF ExecStart, Goto, given
  <1> QED
    BY <1>1, <1>2, <1>3, <1>4, <1>5

-----------------------------------------------------------------------------
(* Stopping                                                                *)

(* The daemon's patience and the client's, in seconds.                     *)
LEMMA Seconds ==
    ASSUME TypeOK, Belongs, pc \in {"stop", "restart", "stopping"}
    PROVE  /\ Patience \in Nat /\ ClientWaits \in Nat
           /\ Patience >= ClientWaits => call.timeout = None /\ grace >= Base + Default
  <1>1. call.timeout \in Nat \union {None} /\ grace \in Nat
    BY CallFacts, ControlConstants DEF Belongs, TypeOK
  <1>2. Base \in Nat /\ Base > 0 /\ Default \in Nat
    BY ControlConstants
  <1>3. CASE call.timeout = None
    BY <1>1, <1>2, <1>3 DEF Patience, ClientWaits
  <1>4. CASE call.timeout # None
    <2>1. call.timeout \in Nat
      BY <1>1, <1>4
    <2> DEFINE t == call.timeout
    <2>2. Patience = t /\ ClientWaits = Base + t /\ t \in Nat
      BY <1>4, <2>1 DEF Patience, ClientWaits
    <2> HIDE DEF t
    <2> QED
      BY <1>2, <2>2
  <1> QED
    BY <1>3, <1>4

(* The client gives up only when the daemon's patience is the longer one.  *)
LEMMA StoppingKept ==
    ASSUME TypeOK, Belongs, Waited, ClientOutlastsStop, Next
    PROVE  Waited' /\ ClientOutlastsStop'
  <1>0. elapsed \in Nat /\ result.kind = result.kind
    BY DEF TypeOK
  <1>1. CASE Begin
    <2>1. pc' # "stopping" /\ elapsed' = 0 /\ result' = Done("none") /\ result'.kind = "none"
      BY <1>1, CallFacts DEF Begin, SimpleOps, Done
    <2> QED
      BY <2>1 DEF Waited, ClientOutlastsStop
  <1>2. CASE Operate
    BY <1>2, <1>0, SimpleDomain DEF Operate, Goto, Return, Done, SimpleOps, Belongs, Waited,
                                    ClientOutlastsStop, Patience, daemon, given
  <1>3. CASE Stop
    <2>1. Patience \in Nat /\ elapsed = 0 /\ UNCHANGED <<elapsed, call, grace>>
      BY <1>3, Seconds DEF Stop, Waited, Goto, Return, daemon, given
    <2>2. (pc' = "stopping" /\ UNCHANGED result) \/ (pc' = "idle" /\ result'.kind = "Error")
      BY <1>3 DEF Stop, Goto, Return, Done
    <2>3. Patience' = Patience
      BY <2>1 DEF Patience
    <2> QED
      BY <2>1, <2>2, <2>3 DEF Waited, ClientOutlastsStop
  <1>4. CASE Stopped
    BY <1>4, <1>0, SimpleDomain DEF Stopped, Goto, Return, Done, SimpleOps, Belongs, Waited,
                                    ClientOutlastsStop, Patience, daemon, given
  <1>5. CASE Tick
    <2>1. Patience \in Nat /\ elapsed < Patience /\ elapsed' = elapsed + 1 /\ UNCHANGED <<pc, call, grace, result>>
      BY <1>5, Seconds DEF Tick, daemon, given
    <2>2. Patience' = Patience /\ pc = "stopping"
      BY <1>5, <2>1 DEF Patience, Tick
    <2>3. elapsed' <= Patience
      <3> DEFINE q == Patience
      <3>1. q \in Nat /\ elapsed < q /\ elapsed' = elapsed + 1
        BY <2>1
      <3> HIDE DEF q
      <3>2. elapsed' <= q
        BY <1>0, <3>1
      <3> QED
        BY <3>2 DEF q
    <2> QED
      BY <2>1, <2>2, <2>3 DEF Waited, ClientOutlastsStop
  <1>6. CASE StopTimesOut
    <2>1. /\ pc = "stopping" /\ elapsed >= ClientWaits /\ elapsed <= Patience
          /\ pc' = "idle" /\ UNCHANGED <<call, grace>>
      BY <1>6 DEF StopTimesOut, Waited, Return, daemon, given
    <2>2. Patience >= ClientWaits
      <3> DEFINE q == Patience  w == ClientWaits
      <3>1. q \in Nat /\ w \in Nat /\ elapsed >= w /\ elapsed <= q
        BY <2>1, Seconds
      <3> HIDE DEF q, w
      <3>2. q >= w
        BY <1>0, <3>1
      <3> QED
        BY <3>2 DEF q, w
    <2>3. call.timeout = None /\ grace >= Base + Default
      BY <2>1, <2>2, Seconds
    <2> QED
      BY <2>1, <2>3 DEF Waited, ClientOutlastsStop
  <1>7. CASE Wait
    BY <1>7, <1>0, SimpleDomain DEF Wait, Goto, Return, Done, SimpleOps, Belongs, Waited,
                                    ClientOutlastsStop, Patience, daemon, given
  <1>8. CASE WaitAnswered
    BY <1>8, <1>0, SimpleDomain DEF WaitAnswered, Goto, Return, Done, SimpleOps, Belongs, Waited,
                                    ClientOutlastsStop, Patience, daemon, given
  <1>9. CASE WaitTimesOut
    BY <1>9, <1>0, SimpleDomain DEF WaitTimesOut, Goto, Return, Done, SimpleOps, Belongs, Waited,
                                    ClientOutlastsStop, Patience, daemon, given
  <1>10. CASE ExecCreate
    BY <1>10, <1>0, SimpleDomain DEF ExecCreate, Goto, Return, Done, SimpleOps, Belongs, Waited,
                                     ClientOutlastsStop, Patience, daemon, given
  <1>11. CASE ExecStart
    BY <1>11, ExecStarted DEF Waited, ClientOutlastsStop
  <1>12. CASE Output
    BY <1>12, <1>0, SimpleDomain DEF Output, Goto, Return, Done, SimpleOps, Belongs, Waited,
                                     ClientOutlastsStop, Patience, daemon, given
  <1>13. CASE ExecInspect
    BY <1>13, <1>0, SimpleDomain DEF ExecInspect, Goto, Return, Done, SimpleOps, Belongs, Waited,
                                     ClientOutlastsStop, Patience, daemon, given
  <1>14. CASE Request
    BY <1>14, <1>0, SimpleDomain DEF Request, Goto, Return, Done, SimpleOps, Belongs, Waited,
                                     ClientOutlastsStop, Patience, daemon, given
  <1>15. CASE IsTty
    BY <1>15, <1>0, SimpleDomain DEF IsTty, Goto, Return, Done, SimpleOps, Belongs, Waited,
                                     ClientOutlastsStop, Patience, daemon, given
  <1>16. CASE Join
    BY <1>16, <1>0, SimpleDomain DEF Join, Goto, Return, Done, SimpleOps, Belongs, Waited,
                                     ClientOutlastsStop, Patience, daemon, given
  <1>17. CASE Commit
    BY <1>17, <1>0, SimpleDomain DEF Commit, Goto, Return, Done, SimpleOps, Belongs, Waited,
                                     ClientOutlastsStop, Patience, daemon, given
  <1>18. CASE ImageGet
    BY <1>18, <1>0, SimpleDomain DEF ImageGet, Goto, Return, Done, SimpleOps, Belongs, Waited,
                                     ClientOutlastsStop, Patience, daemon, given
  <1>19. CASE Lose
    BY <1>19, <1>0, SimpleDomain DEF Lose, Goto, Return, Done, SimpleOps, Belongs, Waited,
                                     ClientOutlastsStop, Patience, daemon, given
  <1>20. CASE Command
    BY <1>20, <1>0, SimpleDomain DEF Command, Goto, Return, Done, SimpleOps, Belongs, Waited,
                                     ClientOutlastsStop, Patience, daemon, given
  <1>21. CASE Others
    BY <1>21, <1>0, SimpleDomain DEF Others, Goto, Return, Done, SimpleOps, Belongs, Waited,
                                     ClientOutlastsStop, Patience, daemon, given
  <1> QED
    BY <1>1, <1>2, <1>3, <1>4, <1>5, <1>6, <1>7, <1>8, <1>9, <1>10, <1>11, <1>12, <1>13,
       <1>14, <1>15, <1>16, <1>17, <1>18, <1>19, <1>20, <1>21
       DEF Next, Step

-----------------------------------------------------------------------------
(* Commands inside                                                         *)

(* exec_run asks for the code of a command whose output has ended.         *)
LEMMA CommandKept ==
    ASSUME TypeOK, Belongs, CommandSeen, ExecHasCode, Next
    PROVE  CommandSeen' /\ ExecHasCode'
  <1>0. exec \in ExecType /\ exits \in Nat /\ exits # None
    <2>1. exec \in ExecType /\ exits \in Nat
      BY DEF TypeOK, ExecType
    <2> QED
      BY <2>1, ControlConstants
  <1>1. CASE Begin
    <2>1. /\ exec' = NoExec /\ result'.kind = "none" /\ pc' \notin {"output", "exec inspect"}
      BY <1>1, CallFacts DEF Begin, Done, SimpleOps
    <2> QED
      BY <2>1 DEF CommandSeen, ExecHasCode, NoExec
  <1>2. CASE Operate
    <2>1. \/ exec' = exec
          \/ exec'.state = "exited" /\ ~exec'.open /\ exec'.early = exec.early /\ exec.state = "running"
      <3>1. (\E s \in Present \union {"gone"} : Becomes(s)) \/ UNCHANGED exec
        BY <1>2, SimpleDomain, SimpleAsks DEF Operate, TypeOK
      <3> QED
        BY <3>1, BecomesEffect
    <2>2. /\ call' = call /\ pc' = "idle" /\ result'.kind # "exec"
      BY <1>2 DEF Operate, Return, Done
    <2> QED
      BY <2>1, <2>2 DEF CommandSeen, ExecHasCode
  <1>3. CASE Stop
    <2>1. exec' = exec /\ call' = call /\ pc' \notin {"output", "exec inspect"}
      BY <1>3 DEF Stop, Goto, Return, daemon, given
    <2>2. pc' = "idle" => result'.kind # "exec"
      BY <1>3 DEF Stop, Goto, Return, Done
    <2> QED
      BY <2>1, <2>2 DEF CommandSeen, ExecHasCode
  <1>4. CASE Stopped
    <2>1. \/ exec' = exec
          \/ exec'.state = "exited" /\ ~exec'.open /\ exec'.early = exec.early /\ exec.state = "running"
      <3>1. (\E s \in Present \union {"gone"} : Becomes(s)) \/ UNCHANGED exec
        BY <1>4 DEF Stopped, Present
      <3> QED
        BY <3>1, BecomesEffect
    <2>2. /\ call' = call /\ pc' = "idle" /\ result'.kind # "exec"
      BY <1>4 DEF Stopped, Return, Done
    <2> QED
      BY <2>1, <2>2 DEF CommandSeen, ExecHasCode
  <1>5. CASE Tick
    <2>1. exec' = exec /\ call' = call /\ pc' \notin {"output", "exec inspect"}
      BY <1>5 DEF Tick, Goto, Return, daemon, given
    <2>2. pc' = "idle" => result'.kind # "exec"
      BY <1>5 DEF Tick, Goto, Return, Done
    <2> QED
      BY <2>1, <2>2 DEF CommandSeen, ExecHasCode
  <1>6. CASE StopTimesOut
    <2>1. exec' = exec /\ call' = call /\ pc' \notin {"output", "exec inspect"}
      BY <1>6 DEF StopTimesOut, Goto, Return, daemon, given
    <2>2. pc' = "idle" => result'.kind # "exec"
      BY <1>6 DEF StopTimesOut, Goto, Return, Done
    <2> QED
      BY <2>1, <2>2 DEF CommandSeen, ExecHasCode
  <1>7. CASE Wait
    <2>1. exec' = exec /\ call' = call /\ pc' \notin {"output", "exec inspect"}
      BY <1>7 DEF Wait, Goto, Return, daemon, given
    <2>2. pc' = "idle" => result'.kind # "exec"
      BY <1>7 DEF Wait, Goto, Return, Done
    <2> QED
      BY <2>1, <2>2 DEF CommandSeen, ExecHasCode
  <1>8. CASE WaitAnswered
    <2>1. exec' = exec /\ call' = call /\ pc' \notin {"output", "exec inspect"}
      BY <1>8 DEF WaitAnswered, Goto, Return, daemon, given
    <2>2. pc' = "idle" => result'.kind # "exec"
      BY <1>8 DEF WaitAnswered, Goto, Return, Done
    <2> QED
      BY <2>1, <2>2 DEF CommandSeen, ExecHasCode
  <1>9. CASE WaitTimesOut
    <2>1. exec' = exec /\ call' = call /\ pc' \notin {"output", "exec inspect"}
      BY <1>9 DEF WaitTimesOut, Goto, Return, daemon, given
    <2>2. pc' = "idle" => result'.kind # "exec"
      BY <1>9 DEF WaitTimesOut, Goto, Return, Done
    <2> QED
      BY <2>1, <2>2 DEF CommandSeen, ExecHasCode
  <1>10. CASE ExecCreate
    <2>1. exec' = exec /\ call' = call /\ pc' \notin {"output", "exec inspect"}
      BY <1>10 DEF ExecCreate, Goto, Return, daemon, given
    <2>2. pc' = "idle" => result'.kind # "exec"
      BY <1>10 DEF ExecCreate, Goto, Return, Done
    <2> QED
      BY <2>1, <2>2 DEF CommandSeen, ExecHasCode
  <1>11. CASE ExecStart
    <2>1. call' = call /\ call.op = "exec"
      BY <1>11, ExecStarted
    <2>2. CASE pc' = "idle" /\ result'.kind = "Error" /\ exec' = exec
      BY <2>1, <2>2 DEF CommandSeen, ExecHasCode
    <2>3. CASE exec' = [state |-> "running", open |-> TRUE, early |-> FALSE]
      <3>1. exec'.state = "running" /\ exec'.open /\ ~exec'.early
        BY <2>3
      <3>2. \/ pc' = "idle" /\ call.how = "stream"
            \/ pc' = "exec inspect" /\ call.how = "detach"
            \/ pc' = "output"
            \/ pc' = "idle" /\ result'.kind = "Error"
        BY <1>11, ExecStarted
      <3> QED
        BY <2>1, <3>1, <3>2 DEF CommandSeen, ExecHasCode
    <2> QED
      BY <1>11, <2>2, <2>3, ExecStarted
  <1>12. CASE Output
    <2>1. exec' = exec /\ call' = call /\ pc' = "exec inspect" /\ pc = "output" /\ ~exec.open
      BY <1>12 DEF Output, Goto, daemon, given
    <2> QED
      BY <2>1 DEF CommandSeen, ExecHasCode
  <1>13. CASE ExecInspect
    <2>1. exec' = exec /\ call' = call /\ pc' = "idle" /\ pc = "exec inspect"
      BY <1>13 DEF ExecInspect, Return, daemon, given
    <2>2. \/ result'.kind = "Error"
          \/ result'.code = IF exec.state = "exited" THEN exits ELSE None
      BY <1>13 DEF ExecInspect, Return, Done
    <2>3. exec.state \in {"none", "running", "exited"}
      BY <1>0 DEF ExecType
    <2> QED
      BY <1>0, <2>1, <2>2, <2>3 DEF CommandSeen, ExecHasCode
  <1>14. CASE Request
    <2>1. exec' = exec /\ call' = call /\ pc' \notin {"output", "exec inspect"}
      BY <1>14 DEF Request, Goto, Return, daemon, given
    <2>2. pc' = "idle" => result'.kind # "exec"
      BY <1>14 DEF Request, Goto, Return, Done
    <2> QED
      BY <2>1, <2>2 DEF CommandSeen, ExecHasCode
  <1>15. CASE IsTty
    <2>1. exec' = exec /\ call' = call /\ pc' \notin {"output", "exec inspect"}
      BY <1>15 DEF IsTty, Goto, Return, daemon, given
    <2>2. pc' = "idle" => result'.kind # "exec"
      BY <1>15 DEF IsTty, Goto, Return, Done
    <2> QED
      BY <2>1, <2>2 DEF CommandSeen, ExecHasCode
  <1>16. CASE Join
    <2>1. exec' = exec /\ call' = call /\ pc' \notin {"output", "exec inspect"}
      BY <1>16 DEF Join, Goto, Return, daemon, given
    <2>2. pc' = "idle" => result'.kind # "exec"
      BY <1>16 DEF Join, Goto, Return, Done
    <2> QED
      BY <2>1, <2>2 DEF CommandSeen, ExecHasCode
  <1>17. CASE Commit
    <2>1. exec' = exec /\ call' = call /\ pc' \notin {"output", "exec inspect"}
      BY <1>17 DEF Commit, Goto, Return, daemon, given
    <2>2. pc' = "idle" => result'.kind # "exec"
      BY <1>17 DEF Commit, Goto, Return, Done
    <2> QED
      BY <2>1, <2>2 DEF CommandSeen, ExecHasCode
  <1>18. CASE ImageGet
    <2>1. exec' = exec /\ call' = call /\ pc' \notin {"output", "exec inspect"}
      BY <1>18 DEF ImageGet, Goto, Return, daemon, given
    <2>2. pc' = "idle" => result'.kind # "exec"
      BY <1>18 DEF ImageGet, Goto, Return, Done
    <2> QED
      BY <2>1, <2>2 DEF CommandSeen, ExecHasCode
  <1>19. CASE Lose
    <2>1. exec' = exec /\ call' = call /\ pc' \notin {"output", "exec inspect"}
      BY <1>19 DEF Lose, Goto, Return, daemon, given
    <2>2. pc' = "idle" => result'.kind # "exec"
      BY <1>19 DEF Lose, Goto, Return, Done
    <2> QED
      BY <2>1, <2>2 DEF CommandSeen, ExecHasCode
  <1>20. CASE Command
    <2>1. UNCHANGED <<pc, call, result>> /\ exec.state = "running" /\ exec.open
      BY <1>20 DEF Command
    <2>2. CASE exec' = [exec EXCEPT !.state = "exited", !.open = FALSE]
      <3> DEFINE e == [exec EXCEPT !.state = "exited"]
      <3>1. e.state = "exited" /\ e.early = exec.early /\ e \in ExecType /\ exec' = [e EXCEPT !.open = FALSE]
        BY <1>0, <2>2 DEF ExecType
      <3> HIDE DEF e
      <3>2. exec'.state = "exited" /\ ~exec'.open /\ exec'.early = exec.early
        BY <3>1 DEF ExecType
      <3> QED
        BY <2>1, <3>2 DEF CommandSeen, ExecHasCode
    <2>3. CASE exec' = [exec EXCEPT !.open = FALSE, !.early = TRUE]
      <3> DEFINE e == [exec EXCEPT !.open = FALSE]
      <3>1. e.state = "running" /\ ~e.open /\ e \in ExecType /\ exec' = [e EXCEPT !.early = TRUE]
        BY <1>0, <2>1, <2>3 DEF ExecType
      <3> HIDE DEF e
      <3>2. exec'.state = "running" /\ ~exec'.open /\ exec'.early
        BY <3>1 DEF ExecType
      <3> QED
        BY <2>1, <3>2 DEF CommandSeen, ExecHasCode
    <2> QED
      BY <1>20, <2>2, <2>3 DEF Command
  <1>21. CASE Others
    <2>1. \/ exec' = exec
          \/ exec'.state = "exited" /\ ~exec'.open /\ exec'.early = exec.early /\ exec.state = "running"
      <3>1. (\E s \in Present \union {"gone"} : Becomes(s)) \/ UNCHANGED exec
        BY <1>21 DEF Others, Present
      <3> QED
        BY <3>1, BecomesEffect
    <2>2. UNCHANGED <<call, pc, result>>
      BY <1>21 DEF Others, Return, Done
    <2> QED
      BY <2>1, <2>2 DEF CommandSeen, ExecHasCode
  <1> QED
    BY <1>1, <1>2, <1>3, <1>4, <1>5, <1>6, <1>7, <1>8, <1>9, <1>10, <1>11, <1>12, <1>13,
       <1>14, <1>15, <1>16, <1>17, <1>18, <1>19, <1>20, <1>21
       DEF Next, Step

(* A response stays open only where it is read, and with a caller who has  *)
(* its stream or an error.                                                 *)
LEMMA HeldKept ==
    ASSUME TypeOK, Belongs, Held, HeldByCaller, Next
    PROVE  Held' /\ HeldByCaller'
  <1>1. CASE Begin
    <2>1. held' = FALSE
      BY <1>1 DEF Begin
    <2> QED
      BY <2>1 DEF Held, HeldByCaller
  <1>2. CASE Operate
    <2>1. pc \notin {"idle", "output", "tty", "joining"} /\ held' = held
      BY <1>2, SimpleDomain DEF Operate, SimpleOps
    <2> QED
      BY <2>1 DEF Held, HeldByCaller
  <1>3. CASE Stop
    <2>1. pc \notin {"idle", "output", "tty", "joining"} /\ held' = held
      BY <1>3 DEF Stop
    <2> QED
      BY <2>1 DEF Held, HeldByCaller
  <1>4. CASE Stopped
    <2>1. pc \notin {"idle", "output", "tty", "joining"} /\ held' = held
      BY <1>4 DEF Stopped
    <2> QED
      BY <2>1 DEF Held, HeldByCaller
  <1>5. CASE Tick
    <2>1. pc \notin {"idle", "output", "tty", "joining"} /\ held' = held
      BY <1>5 DEF Tick
    <2> QED
      BY <2>1 DEF Held, HeldByCaller
  <1>6. CASE StopTimesOut
    <2>1. pc \notin {"idle", "output", "tty", "joining"} /\ held' = held
      BY <1>6 DEF StopTimesOut
    <2> QED
      BY <2>1 DEF Held, HeldByCaller
  <1>7. CASE Wait
    <2>1. pc \notin {"idle", "output", "tty", "joining"} /\ held' = held
      BY <1>7 DEF Wait
    <2> QED
      BY <2>1 DEF Held, HeldByCaller
  <1>8. CASE WaitAnswered
    <2>1. pc \notin {"idle", "output", "tty", "joining"} /\ held' = held
      BY <1>8 DEF WaitAnswered
    <2> QED
      BY <2>1 DEF Held, HeldByCaller
  <1>9. CASE WaitTimesOut
    <2>1. pc \notin {"idle", "output", "tty", "joining"} /\ held' = held
      BY <1>9 DEF WaitTimesOut
    <2> QED
      BY <2>1 DEF Held, HeldByCaller
  <1>10. CASE ExecCreate
    <2>1. pc \notin {"idle", "output", "tty", "joining"} /\ held' = held
      BY <1>10 DEF ExecCreate
    <2> QED
      BY <2>1 DEF Held, HeldByCaller
  <1>11. CASE ExecStart
    <2>1. CASE pc' = "idle" /\ result'.kind = "Error" /\ held' = held
      <3>1. pc = "exec start"
        BY <1>11 DEF ExecStart
      <3> QED
        BY <2>1, <3>1 DEF Held, HeldByCaller
    <2>2. CASE /\ call' = call
               /\ \/ pc' = "idle" /\ call.how = "stream"
                  \/ pc' = "exec inspect" /\ ~held'
                  \/ pc' = "output"
      BY <2>2 DEF Held, HeldByCaller
    <2> QED
      BY <1>11, <2>1, <2>2, ExecStarted
  <1>12. CASE Output
    <2>1. held' = FALSE
      BY <1>12 DEF Output
    <2> QED
      BY <2>1 DEF Held, HeldByCaller
  <1>13. CASE ExecInspect
    <2>1. pc \notin {"idle", "output", "tty", "joining"} /\ held' = held
      BY <1>13 DEF ExecInspect
    <2> QED
      BY <2>1 DEF Held, HeldByCaller
  <1>14. CASE Request
    <2>1. /\ pc' = "tty" /\ call' = call /\ held' = (pc = "attach" \/ call.how = "stream")
          /\ pc = "attach" => call.op = "attach"
      BY <1>14 DEF Request, Goto, Belongs
    <2> QED
      BY <2>1 DEF Held, HeldByCaller
  <1>15. CASE IsTty
    <2>1. pc = "tty" /\ call' = call /\ held' = held /\ call.op \in {"logs", "attach"} /\ call.how \in {"join", "stream"}
      BY <1>15, CallFacts DEF IsTty, Belongs, Goto, Return
    <2>2. \/ pc' = "idle" /\ result'.kind = "Error"
          \/ pc' = "joining"
          \/ pc' = "idle" /\ ~(call.how = "join" /\ call.op = "attach")
      BY <1>15 DEF IsTty, Goto, Return, Done
    <2> QED
      BY <2>1, <2>2 DEF Held, HeldByCaller
  <1>16. CASE Join
    <2>1. held' = FALSE
      BY <1>16 DEF Join
    <2> QED
      BY <2>1 DEF Held, HeldByCaller
  <1>17. CASE Commit
    <2>1. pc \notin {"idle", "output", "tty", "joining"} /\ held' = held
      BY <1>17 DEF Commit
    <2> QED
      BY <2>1 DEF Held, HeldByCaller
  <1>18. CASE ImageGet
    <2>1. pc \notin {"idle", "output", "tty", "joining"} /\ held' = held
      BY <1>18 DEF ImageGet
    <2> QED
      BY <2>1 DEF Held, HeldByCaller
  <1>19. CASE Lose
    <2>1. pc' = "idle" /\ result'.kind = "lost"
      BY <1>19 DEF Lose, Return, Done
    <2> QED
      BY <2>1 DEF Held, HeldByCaller
  <1>20. CASE Command
    <2>1. UNCHANGED <<pc, call, held, result>>
      BY <1>20 DEF Command
    <2> QED
      BY <2>1 DEF Held, HeldByCaller
  <1>21. CASE Others
    <2>1. UNCHANGED <<pc, call, held, result>>
      BY <1>21 DEF Others
    <2> QED
      BY <2>1 DEF Held, HeldByCaller
  <1> QED
    BY <1>1, <1>2, <1>3, <1>4, <1>5, <1>6, <1>7, <1>8, <1>9, <1>10, <1>11, <1>12, <1>13,
       <1>14, <1>15, <1>16, <1>17, <1>18, <1>19, <1>20, <1>21
       DEF Next, Step

-----------------------------------------------------------------------------
(* Repeating                                                               *)

(* What an operation did whose answer was lost stays so until something    *)
(* else is done.                                                           *)
LEMMA RememberedKept ==
    ASSUME TypeOK, Belongs, Remembered, Next
    PROVE  Remembered'
  <1>1. CASE Begin
    <2>1. (status' = status /\ again' = again) \/ again' = "none"
      BY <1>1 DEF Begin, daemon, given
    <2> QED
      BY <2>1 DEF Remembered
  <1>2. CASE Operate
    <2>1. pc \in SimpleOps /\ call.op = pc
      BY <1>2, SimpleDomain DEF Operate, Belongs, SimpleOps
    <2>2. \/ again' = "none"
          \/ /\ again' = call.op
             /\ \E to \in Simple[pc].to : Becomes(IF to = None THEN status ELSE to)
      BY <1>2 DEF Operate
    <2>3. call.op = "start" => Simple[pc].to = {"running"}
      BY <2>1, SimpleAsks
    <2>4. "running" # None
      BY ControlConstants DEF Present
    <2>5. again' = "start" => status' = "running"
      BY <2>1, <2>2, <2>3, <2>4 DEF Becomes
    <2> QED
      BY <2>1, <2>2, <2>5 DEF Remembered, SimpleOps
  <1>3. CASE Stop
    <2>1. (status' = status /\ again' = again) \/ again' = "none"
      BY <1>3 DEF Stop, daemon, given
    <2> QED
      BY <2>1 DEF Remembered
  <1>4. CASE Stopped
    <2>1. call.op \in {"stop", "restart"}
      BY <1>4 DEF Stopped, Belongs
    <2>2. again' = "none" \/ (again' = call.op /\ status' \in {"running", "created", "exited"})
      BY <1>4 DEF Stopped, Becomes
    <2> QED
      BY <2>1, <2>2 DEF Remembered, Present
  <1>5. CASE Tick
    <2>1. (status' = status /\ again' = again) \/ again' = "none"
      BY <1>5 DEF Tick, daemon, given
    <2> QED
      BY <2>1 DEF Remembered
  <1>6. CASE StopTimesOut
    <2>1. call.op \in {"stop", "restart"} /\ status' = status
      BY <1>6 DEF StopTimesOut, Belongs, daemon, given
    <2>2. again' = "none" \/ (again' = call.op /\ status \in Present)
      BY <1>6 DEF StopTimesOut
    <2> QED
      BY <2>1, <2>2 DEF Remembered
  <1>7. CASE Wait
    <2>1. (status' = status /\ again' = again) \/ again' = "none"
      BY <1>7 DEF Wait, daemon, given
    <2> QED
      BY <2>1 DEF Remembered
  <1>8. CASE WaitAnswered
    <2>1. (status' = status /\ again' = again) \/ again' = "none"
      BY <1>8 DEF WaitAnswered, daemon, given
    <2> QED
      BY <2>1 DEF Remembered
  <1>9. CASE WaitTimesOut
    <2>1. (status' = status /\ again' = again) \/ again' = "none"
      BY <1>9 DEF WaitTimesOut, daemon, given
    <2> QED
      BY <2>1 DEF Remembered
  <1>10. CASE ExecCreate
    <2>1. (status' = status /\ again' = again) \/ again' = "none"
      BY <1>10 DEF ExecCreate, daemon, given
    <2> QED
      BY <2>1 DEF Remembered
  <1>11. CASE ExecStart
    <2>1. status' = status /\ again' = again
      BY <1>11 DEF ExecStart
    <2> QED
      BY <2>1 DEF Remembered
  <1>12. CASE Output
    <2>1. (status' = status /\ again' = again) \/ again' = "none"
      BY <1>12 DEF Output, daemon, given
    <2> QED
      BY <2>1 DEF Remembered
  <1>13. CASE ExecInspect
    <2>1. (status' = status /\ again' = again) \/ again' = "none"
      BY <1>13 DEF ExecInspect, daemon, given
    <2> QED
      BY <2>1 DEF Remembered
  <1>14. CASE Request
    <2>1. (status' = status /\ again' = again) \/ again' = "none"
      BY <1>14 DEF Request, daemon, given
    <2> QED
      BY <2>1 DEF Remembered
  <1>15. CASE IsTty
    <2>1. (status' = status /\ again' = again) \/ again' = "none"
      BY <1>15 DEF IsTty, daemon, given
    <2> QED
      BY <2>1 DEF Remembered
  <1>16. CASE Join
    <2>1. (status' = status /\ again' = again) \/ again' = "none"
      BY <1>16 DEF Join, daemon, given
    <2> QED
      BY <2>1 DEF Remembered
  <1>17. CASE Commit
    <2>1. (status' = status /\ again' = again) \/ again' = "none"
      BY <1>17 DEF Commit, daemon, given
    <2> QED
      BY <2>1 DEF Remembered
  <1>18. CASE ImageGet
    <2>1. (status' = status /\ again' = again) \/ again' = "none"
      BY <1>18 DEF ImageGet, daemon, given
    <2> QED
      BY <2>1 DEF Remembered
  <1>19. CASE Lose
    <2>1. (status' = status /\ again' = again) \/ again' = "none"
      BY <1>19 DEF Lose, daemon, given
    <2> QED
      BY <2>1 DEF Remembered
  <1>20. CASE Command
    <2>1. (status' = status /\ again' = again) \/ again' = "none"
      BY <1>20 DEF Command, daemon, given
    <2> QED
      BY <2>1 DEF Remembered
  <1>21. CASE Others
    <2>1. (status' = status /\ again' = again) \/ again' = "none"
      BY <1>21 DEF Others, daemon, given
    <2> QED
      BY <2>1 DEF Remembered
  <1> QED
    BY <1>1, <1>2, <1>3, <1>4, <1>5, <1>6, <1>7, <1>8, <1>9, <1>10, <1>11, <1>12, <1>13,
       <1>14, <1>15, <1>16, <1>17, <1>18, <1>19, <1>20, <1>21
       DEF Next, Step

-----------------------------------------------------------------------------
(* Theorems                                                                *)

(* Nothing is called yet.                                                  *)
LEMMA InitIInv == Init => IInv
  <1> SUFFICES ASSUME Init PROVE IInv
    OBVIOUS
  <1>1. NoExec \in ExecType /\ NoExec.state = "none"
    BY DEF NoExec, ExecType
  <1>2. Done("none") \in ResultType /\ Done("none").kind = "none"
    BY Returned
  <1>3. TypeOK
    <2>1. /\ calls \in 0..MaxCalls /\ others \in 0..MaxOthers /\ elapsed \in Nat /\ before \in Nat /\ exits \in Nat
          /\ grace \in StopTimeout /\ api \in Api
      BY ControlConstants DEF Init
    <2>2. held \in BOOLEAN
      BY DEF Init
    <2>3. /\ status \in Present \union {"gone"} /\ image \in {"none", "there", "gone"}
          /\ pc \in DOMAIN Simple \union {"idle", "stop"} /\ call \in Call \union {NoCall}
          /\ again \in DOMAIN Simple \union {"none", "stop", "restart"}
      BY DEF Init, Present
    <2>4. exec \in ExecType /\ result \in ResultType
      BY <1>1, <1>2 DEF Init
    <2>5. pc = "idle"
      BY DEF Init
    <2> QED
      BY <2>1, <2>2, <2>3, <2>4, <2>5 DEF TypeOK, ExecType, ResultType
  <1>4. Belongs /\ Waited /\ Remembered
    BY DEF Init, Belongs, Waited, Remembered
  <1>5. CommandSeen /\ ExecHasCode
    BY <1>1, <1>2 DEF Init, CommandSeen, ExecHasCode
  <1>6. Held /\ HeldByCaller
    BY DEF Init, Held, HeldByCaller
  <1>7. ClientOutlastsStop
    BY <1>2 DEF Init, ClientOutlastsStop
  <1> QED
    BY <1>3, <1>4, <1>5, <1>6, <1>7 DEF IInv

(* Every step keeps the invariant.                                         *)
LEMMA NextIInv == IInv /\ [Next]_vars => IInv'
  <1> SUFFICES ASSUME IInv, [Next]_vars PROVE IInv'
    OBVIOUS
  <1>1. CASE Next
    BY <1>1, TypesKept, BelongsKept, StoppingKept, CommandKept, HeldKept, RememberedKept
       DEF IInv
  <1>2. CASE UNCHANGED vars
    <2>1. /\ UNCHANGED <<status, grace, api, exits, exec, image, pc, call, elapsed, result>>
          /\ UNCHANGED <<calls, others, before, again>> /\ held' = held
      BY <1>2 DEF vars, daemon, given
    <2>2. TypeOK'
      <3>1. held' \in BOOLEAN
        BY <2>1 DEF IInv, TypeOK
      <3>2. /\ status' \in Present \union {"gone"} /\ grace' \in StopTimeout /\ api' \in Api /\ exits' \in Nat
            /\ exec' \in ExecType /\ image' \in {"none", "there", "gone"} /\ result' \in ResultType
            /\ call' \in Call \union {NoCall} /\ elapsed' \in Nat
        BY <2>1 DEF IInv, TypeOK, ExecType, ResultType
      <3>3. /\ pc' \in DOMAIN Simple \union
                   {"idle", "stop", "restart", "stopping", "wait", "waiting", "exec", "exec start",
                    "output", "exec inspect", "logs", "attach", "tty", "joining", "commit", "image get"}
            /\ calls' \in 0..MaxCalls /\ others' \in 0..MaxOthers /\ before' \in Nat
            /\ again' \in DOMAIN Simple \union {"none", "stop", "restart"}
        BY <2>1 DEF IInv, TypeOK
      <3> QED
        BY <3>1, <3>2, <3>3 DEF TypeOK, ExecType, ResultType
    <2>3. Belongs' /\ Remembered'
      BY <2>1 DEF IInv, Belongs, Remembered
    <2>4. Waited' /\ ClientOutlastsStop'
      BY <2>1 DEF IInv, Waited, Patience, ClientOutlastsStop
    <2>5. CommandSeen' /\ ExecHasCode'
      BY <2>1 DEF IInv, CommandSeen, ExecHasCode
    <2>6. Held' /\ HeldByCaller'
      BY <2>1 DEF IInv, Held, HeldByCaller
    <2> QED
      BY <2>2, <2>3, <2>4, <2>5, <2>6 DEF IInv
  <1> QED
    BY <1>1, <1>2

(* The invariant of a controlled container holds whatever the program, the *)
(* container and other clients do.                                         *)
THEOREM ControlInvariance == Spec => []IInv
  BY InitIInv, NextIInv, PTL DEF Spec

(* A stop or restart with a timeout is never given up by the client while  *)
(* the daemon still waits for the container, for every timeout, every      *)
(* StopTimeout and every time the client usually waits.                    *)
THEOREM ClientOutlastsStopHolds == Spec => []ClientOutlastsStop
  <1>1. IInv => ClientOutlastsStop
    BY DEF IInv
  <1> QED
    BY <1>1, ControlInvariance, PTL

(* A command run in the container is seen to its end: its exit code is     *)
(* returned, and no response is left open that the caller did not ask for. *)
THEOREM ExecIsWholeHolds == Spec => []ExecIsWhole
  <1>1. IInv => ExecIsWhole
    BY DEF IInv, ExecIsWhole
  <1> QED
    BY <1>1, ControlInvariance, PTL

(* A start, stop or restart whose answer was lost can be repeated: the     *)
(* second call does not fail because the first one took effect.            *)
THEOREM RetrySucceedsHolds == Spec => RetrySucceeds
  <1> DEFINE Repeats == pc # "idle" /\ pc' = "idle" /\ call.op \in {"start", "stop", "restart"} /\ again = call.op
                        => result'.kind # "Error"
  <1>1. IInv /\ [Next]_vars => [Repeats]_vars
    <2> SUFFICES ASSUME IInv, Next, pc # "idle", pc' = "idle",
                        call.op \in {"start", "stop", "restart"}, again = call.op
                 PROVE  result'.kind # "Error"
      BY DEF Repeats
    <2>1. /\ Belongs
          /\ again = "start" => status = "running"
          /\ again \in {"stop", "restart"} => status \in Present
      BY DEF IInv, Remembered
    <2>2. CASE Operate
      <3>1. pc = call.op /\ pc \in SimpleOps
        BY <2>1, <2>2, SimpleDomain DEF Belongs, Operate, SimpleOps
      <3>2. pc = "start" /\ status \in Simple[pc].from
        BY <2>1, <3>1, SimpleAsks DEF SimpleOps
      <3>3. result' = Done("done") \/ result' = Done("lost")
        BY <2>2, <3>2 DEF Operate, Return
      <3> QED
        BY <3>3 DEF Done
    <2>3. CASE Stop \/ Stopped \/ StopTimesOut
      <3>1. call.op \in {"stop", "restart"} /\ status \in Present
        BY <2>1, <2>3 DEF Belongs, Stop, Stopped, StopTimesOut
      <3>2. result' \in {Done("done"), Done("lost"), Done("timeout")} \/ pc' = "stopping"
        BY <2>3, <3>1 DEF Stop, Stopped, StopTimesOut, Return, Goto
      <3> QED
        BY <3>2 DEF Done
    <2>4. CASE Lose
      BY <2>4 DEF Lose, Return, Done
    <2>5. CASE Begin \/ Tick \/ Command \/ Others
      BY <2>5 DEF Begin, Tick, Command, Others
    <2>6. CASE \/ Wait \/ WaitAnswered \/ WaitTimesOut \/ ExecCreate \/ ExecStart \/ Output
               \/ ExecInspect \/ Request \/ IsTty \/ Join \/ Commit \/ ImageGet
      <3>1. call.op \in {"wait", "exec", "logs", "attach", "commit"}
        BY <2>1, <2>6 DEF Belongs, Wait, WaitAnswered, WaitTimesOut, ExecCreate, ExecStart, Output,
                          ExecInspect, Request, IsTty, Join, Commit, ImageGet
      <3> QED
        BY <3>1
    <2> QED
      BY <2>2, <2>3, <2>4, <2>5, <2>6 DEF Next, Step
  <1> QED
    BY <1>1, ControlInvariance, PTL DEF Spec, RetrySucceeds

-----------------------------------------------------------------------------
(* ContainerRun: its inductive invariant and its properties.  Its state    *)
(* has no variable in common with ContainerControl's.                      *)

(* The inductive invariant: nothing is made before create is answered; an  *)
(* exit status that run has is one the container had; and run keeps its    *)
(* result back until the container is removed.                             *)
Reporting == {"stderr", "stderr tty", "remove"}
Unmade == {"check", "create", "pull", "pulled"}

RunIInv == /\ RunTypeOK
           /\ request = "end" <=> outcome # "pending"
           /\ CreatedOnce
           /\ request \in Unmade => made = 0
           /\ life = "exited" => code \in statuses
           /\ request \in Reporting => exit \in statuses
           /\ request = "join" => 0 \in statuses /\ (opts.remove => life = "gone")
           /\ ResultTellsExit
           /\ NotLeftBehind

(* An outcome is one of the documented ones, and what it says about the    *)
(* exit is what the exit status says (the end of run, containers.py:905);  *)
(* or the output is joined, of a container that exited with 0.             *)
LEMMA ConcludeTells ==
    ASSUME NEW e \in {0, 1}, NEW o, Conclude(e, o)
    PROVE  \/ request' = "end" /\ e = 1 /\ outcome' = "ContainerError"
           \/ request' = "end" /\ e = 0 /\ outcome' \in {"none", "logs"}
           \/ request' = "join" /\ e = 0 /\ outcome' = outcome
  BY DEF Conclude, End, Continue

(* An answered request goes on, or run ends with an APIError.              *)
LEMMA AnsweredGoes ==
    ASSUME NEW l, Answered(l)
    PROVE  (request' = l /\ outcome' = outcome) \/ (request' = "end" /\ outcome' = "APIError")
  BY DEF Answered, Continue, End

(* The initial states of a run satisfy the invariant.                      *)
LEMMA RunInitIInv == ASSUME RunInit PROVE RunIInv
  <1>1. hasImage \in BOOLEAN /\ pulled \in BOOLEAN
    BY DEF RunInit
  <1> QED
    BY <1>1, RunConstants DEF RunInit, RunIInv, RunTypeOK, CreatedOnce, Reporting, Unmade,
           ResultTellsExit, NotLeftBehind

(* The two flags stay flags, whatever step is taken.                       *)
LEMMA FlagsKept ==
    ASSUME hasImage \in BOOLEAN, pulled \in BOOLEAN, [RunNext]_runVars
    PROVE  hasImage' \in BOOLEAN /\ pulled' \in BOOLEAN
  <1>1. CASE Pull
    BY <1>1 DEF Pull
  <1>2. CASE Interfere
    BY <1>2 DEF Interfere, run
  <1>3. CASE Exit \/ AutoRemove \/ Restart \/ UNCHANGED runVars
    BY <1>3 DEF Exit, AutoRemove, Restart, run, runVars, engine
  <1>4. CASE CheckOptions \/ Create \/ ImageNotFound \/ InspectImage \/ Inspect \/ StartContainer
    BY <1>4 DEF CheckOptions, Create, ImageNotFound, InspectImage, Inspect, StartContainer, engine
  <1>5. CASE Logs \/ FollowTty \/ AwaitExit \/ StderrTty \/ Remove \/ JoinOutput \/ Lost
    BY <1>5 DEF Logs, FollowTty, AwaitExit, StderrTty, Remove, JoinOutput, Lost, engine
  <1> QED
    BY <1>1, <1>2, <1>3, <1>4, <1>5 DEF RunNext, RunStep

(* Starting a container again stays within the bound.                      *)
LEMMA OneMore ==
    ASSUME restarts \in 0..MaxRestarts, restarts < MaxRestarts, restarts' = restarts + 1
    PROVE  restarts' \in 0..MaxRestarts
  BY RunConstants

(* Every step of the run, of the container and of others preserves it.     *)
LEMMA RunNextIInv == ASSUME RunIInv, [RunNext]_runVars PROVE RunIInv'
  <1> USE RunConstants DEF RunIInv, RunTypeOK, CreatedOnce, ResultTellsExit, NotLeftBehind, Unmade, Reporting
  <1>0. hasImage' \in BOOLEAN /\ pulled' \in BOOLEAN
    BY FlagsKept
  <1>1. CASE CheckOptions
    <2>1. opts' \in Options
      BY <1>0, <1>1 DEF CheckOptions, Options
    <2> QED
      BY <1>0, <1>1, <2>1 DEF CheckOptions, engine, Continue, End
  <1>2. CASE Create
    <2>1. RunTypeOK'
      <3>1. (request \in {"check", "create", "pull", "pulled", "inspect", "start", "logs", "follow tty",
                 "wait", "stderr", "stderr tty", "remove", "join", "end"})'
        BY <1>2, AnsweredGoes DEF Create
      <3>2. (outcome \in {"pending", "container", "logs", "none", "ContainerError", "ImageNotFound",
                     "APIError", "OptionError", "StreamError"})'
        BY <1>2, AnsweredGoes DEF Create
      <3>3. (opts \in Options)' /\ (restarts \in 0..MaxRestarts)'
        BY <1>2 DEF Create
      <3>4. (/\ life \in {"created", "running"}
             /\ code \in {0, 1} /\ made \in Nat /\ statuses \subseteq {0, 1}
             /\ exit \in {0, 1} /\ out \in {"none", "follow", "stderr"})'
        BY <1>2 DEF Create
      <3> QED
        BY <1>0, <3>1, <3>2, <3>3, <3>4
    <2>2. CreatedOnce' /\ ResultTellsExit' /\ NotLeftBehind'
      BY <1>2, AnsweredGoes DEF Create
    <2> QED
      BY <1>2, AnsweredGoes, <2>1, <2>2 DEF Create
  <1>3. CASE ImageNotFound
    BY <1>0, <1>3 DEF ImageNotFound, engine, Continue, End
  <1>4. CASE Pull
    BY <1>0, <1>4, AnsweredGoes DEF Pull
  <1>5. CASE InspectImage
    BY <1>0, <1>5, AnsweredGoes DEF InspectImage, engine, End
  <1>6. CASE Inspect
    BY <1>0, <1>6, AnsweredGoes DEF Inspect, engine, End
  <1>7. CASE StartContainer
    BY <1>0, <1>7, AnsweredGoes DEF StartContainer, End
  <1>8. CASE Logs
    BY <1>0, <1>8 DEF Logs, engine, Continue
  <1>9. CASE FollowTty
    BY <1>0, <1>9, AnsweredGoes DEF FollowTty, engine, End
  <1>10. CASE AwaitExit
    BY <1>0, <1>10, ConcludeTells DEF AwaitExit, AfterOutput, engine, Continue, End
  <1>11. CASE StderrTty
    BY <1>0, <1>11, ConcludeTells DEF StderrTty, AfterOutput, engine, Continue, End
  <1>12. CASE Remove
    BY <1>0, <1>12, ConcludeTells DEF Remove, End
  <1>13. CASE Lost
    BY <1>0, <1>13 DEF Lost, engine, End
  <1>14. CASE Exit
    <2>1. RunTypeOK'
      BY <1>0, <1>14 DEF Exit, run
    <2>2. CreatedOnce' /\ ResultTellsExit' /\ NotLeftBehind'
      BY <1>14 DEF Exit, run
    <2> QED
      BY <1>14, <2>1, <2>2 DEF Exit, run
  <1>15. CASE AutoRemove
    BY <1>0, <1>15 DEF AutoRemove, run
  <1>16. CASE Restart
    <2>1. RunTypeOK'
      <3>1. (request \in {"check", "create", "pull", "pulled", "inspect", "start", "logs", "follow tty",
                 "wait", "stderr", "stderr tty", "remove", "join", "end"})'
        BY <1>16 DEF Restart, run
      <3>2. (outcome \in {"pending", "container", "logs", "none", "ContainerError", "ImageNotFound",
                     "APIError", "OptionError", "StreamError"})'
        BY <1>16 DEF Restart, run
      <3>3. opts' \in Options
        BY <1>16 DEF Restart, run
      <3>4. restarts' = restarts + 1 /\ restarts < MaxRestarts
        BY <1>16 DEF Restart
      <3>5. restarts' \in 0..MaxRestarts
        BY <3>4, OneMore
      <3>6. life' \in {"created", "running"}
        BY <1>16 DEF Restart
      <3>7. (/\ code \in {0, 1} /\ made \in Nat /\ statuses \subseteq {0, 1}
             /\ exit \in {0, 1} /\ out \in {"none", "follow", "stderr"})'
        BY <1>16 DEF Restart, run
      <3> QED
        BY <1>0, <3>1, <3>2, <3>3, <3>5, <3>6, <3>7
    <2>2. CreatedOnce' /\ ResultTellsExit' /\ NotLeftBehind'
      BY <1>16 DEF Restart, run
    <2> QED
      BY <1>16, <2>1, <2>2 DEF Restart, run
  <1>17. CASE Interfere
    <2>1. RunTypeOK'
      BY <1>0, <1>17 DEF Interfere, run, Exists
    <2>2. CreatedOnce' /\ ResultTellsExit' /\ NotLeftBehind'
      BY <1>17 DEF Interfere, run, Exists
    <2> QED
      BY <1>17, <2>1, <2>2 DEF Interfere, run, Exists
  <1>18. CASE UNCHANGED runVars
    <2>1. UNCHANGED <<hasImage, life, code, made, statuses, restarts>>
      BY <1>18 DEF runVars, engine
    <2>2. UNCHANGED <<opts, request, pulled, exit, out, outcome>>
      BY <1>18 DEF runVars
    <2>3. (opts \in Options)' /\ (restarts \in 0..MaxRestarts)'
      BY <2>1, <2>2
    <2>4. CreatedOnce' /\ ResultTellsExit' /\ NotLeftBehind'
      BY <2>1, <2>2
    <2>5. (request \in {"check", "create", "pull", "pulled", "inspect", "start", "logs", "follow tty",
                 "wait", "stderr", "stderr tty", "remove", "join", "end"})'
      BY <2>2
    <2>6. (outcome \in {"pending", "container", "logs", "none", "ContainerError", "ImageNotFound",
                     "APIError", "OptionError", "StreamError"})'
      BY <2>2
    <2>7. RunTypeOK'
      BY <1>0, <2>1, <2>2, <2>3, <2>5, <2>6
    <2> QED
      BY <2>1, <2>2, <2>4, <2>7
  <1>19. CASE JoinOutput
    BY <1>0, <1>19 DEF JoinOutput, engine, End
  <1> QED
    BY <1>0, <1>1, <1>2, <1>3, <1>4, <1>5, <1>6, <1>7, <1>8, <1>9, <1>10, <1>11, <1>12, <1>13, <1>14,
       <1>15, <1>16, <1>17, <1>18, <1>19 DEF RunNext, RunStep

(* The invariant holds in every state of every run.                        *)
THEOREM RunInvariance == RunSpec => []RunIInv
  BY RunInitIInv, RunNextIInv, PTL DEF RunSpec

(* A run makes at most one container, also when it pulls and tries again,  *)
(* and none if it reports that there is no image.                          *)
THEOREM MadeOnceHolds == RunSpec => []MadeOnce
  <1>1. RunIInv => MadeOnce
    BY DEF RunIInv, MadeOnce
  <1> QED
    BY <1>1, RunInvariance, PTL

(* What run reports about the exit of the container is true.               *)
THEOREM ResultTellsExitHolds == RunSpec => []ResultTellsExit
  <1>1. RunIInv => ResultTellsExit
    BY DEF RunIInv
  <1> QED
    BY <1>1, RunInvariance, PTL

(* remove=True: a run that reports the end of the container has removed it. *)
THEOREM NotLeftBehindHolds == RunSpec => []NotLeftBehind
  <1>1. RunIInv => NotLeftBehind
    BY DEF RunIInv
  <1> QED
    BY <1>1, RunInvariance, PTL
=============================================================================
