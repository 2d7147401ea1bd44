---------------------------- MODULE ContainerRun ----------------------------
(***************************************************************************)
(* ContainerCollection.run: create a container, pulling its image if need  *)
(* be, start it, wait for it, fetch its output and remove it, one request  *)
(* after another, while the container runs and exits, the daemon removes   *)
(* it by itself, other clients interfere and requests fail.                *)
(***************************************************************************)
EXTENDS Naturals, FiniteSets

CONSTANTS OtherClients,  \* other clients remove images and containers, restart them
          Faults,        \* requests or their answers may be lost
          MaxRestarts    \* bound: times the container is started again

ASSUME RunConstants == OtherClients \in BOOLEAN /\ Faults \in BOOLEAN /\ MaxRestarts \in Nat

VARIABLES
    hasImage,  \* daemon: it has the image
    life,      \* daemon: the container, "none" before create, "gone" after removal
    code,      \* daemon: the container's last exit status
    made,      \* history: how many containers the run has created
    statuses,  \* history: the statuses the container has exited with
    restarts,  \* history: how often it was started again
    opts,      \* the options run() was called with
    request,   \* run: its next request
    pulled,    \* run: it is in its except ImageNotFound branch
    exit,      \* run: exit_status
    out,       \* run: what out holds, "none", "follow" or "stderr"
    outcome    \* run: how it ended

engine == <<hasImage, life, code, made, statuses, restarts>>
runVars == <<engine, opts, request, pulled, exit, out, outcome>>

(* detach, stream, remove, auto_remove: run's arguments; readable: the     *)
(* logging driver is json-file or journald; modern: the API version is     *)
(* 1.25 or later.                                                          *)
Options == [detach : BOOLEAN, stream : BOOLEAN, remove : BOOLEAN, auto_remove : BOOLEAN,
            readable : BOOLEAN, modern : BOOLEAN]

RunInit == /\ hasImage \in BOOLEAN
           /\ life = "none" /\ code = 0 /\ made = 0 /\ statuses = {} /\ restarts = 0
           /\ opts \in Options
           /\ request = "check" /\ pulled = FALSE /\ exit = 0 /\ out = "none" /\ outcome = "pending"

\* The container exists for the daemon.
Exists == life \in {"created", "running", "exited"}

-----------------------------------------------------------------------------
(* run()                                                                   *)

Continue(l) == request' = l /\ UNCHANGED outcome
End(r) == request' = "end" /\ outcome' = r

\* A request was served; its answer arrives, or it is lost and run raises.
Answered(l) == Continue(l) \/ (Faults /\ End("APIError"))

\* Seeded faults, here and below: variants in which a property must fail.

\* A create request whose answer is lost is sent again.
CreateRetried ==
    /\ request = "create" /\ hasImage
    /\ life' = "created" /\ made' = made + 1
    /\ Continue("inspect") \/ (Faults /\ Continue("create") /\ made < 2)
    /\ UNCHANGED <<hasImage, code, statuses, restarts, opts, pulled, exit, out>>

\* "if detach and remove", and HostConfig's test of auto_remove: nothing is
\* asked of the daemon when the API is too old for an option.
CheckOptions ==
    /\ request = "check"
    /\ opts' = [opts EXCEPT !.auto_remove = @ \/ (opts.detach /\ opts.remove)]
    /\ IF opts'.auto_remove /\ ~opts.modern THEN End("OptionError") ELSE Continue("create")
    /\ UNCHANGED <<engine, pulled, exit, out>>

\* POST /containers/create, answered with 404 "No such image" without the image.
Create ==
    /\ request = "create"
    /\ hasImage
    /\ life' = "created" /\ made' = made + 1
    /\ Answered("inspect")
    /\ UNCHANGED <<hasImage, code, statuses, restarts, opts, pulled, exit, out>>

ImageNotFound ==
    /\ request = "create"
    /\ ~hasImage
    /\ IF pulled THEN End("ImageNotFound") ELSE Continue("pull")
    /\ UNCHANGED <<engine, opts, pulled, exit, out>>

(* images.pull reads the progress to its end and takes no notice of an     *)
(* error in it: whether the image is there shows in the inspect after it.  *)
Pull ==
    /\ request = "pull"
    /\ hasImage' \in {hasImage, TRUE}
    /\ Answered("pulled")
    /\ pulled' = TRUE
    /\ UNCHANGED <<life, code, made, statuses, restarts, opts, exit, out>>

InspectImage ==
    /\ request = "pulled"
    /\ IF hasImage THEN Answered("create") ELSE End("ImageNotFound")
    /\ UNCHANGED <<engine, opts, pulled, exit, out>>

\* create() ends with get(): the attributes that tell the logging driver.
Inspect ==
    /\ request = "inspect"
    /\ IF Exists THEN Answered("start") ELSE End("APIError")
    /\ UNCHANGED <<engine, opts, pulled, exit, out>>

StartContainer ==
    /\ request = "start"
    /\ IF Exists
       THEN /\ life' = "running"
            /\ IF opts.detach THEN End("container") \/ (Faults /\ End("APIError"))
               ELSE Answered(IF opts.readable THEN "logs" ELSE "wait")
       ELSE End("APIError") /\ UNCHANGED life
    /\ UNCHANGED <<hasImage, code, made, statuses, restarts, opts, pulled, exit, out>>

(* logs(): the request, then _check_is_tty inspects the container before   *)
(* anybody looks at the answer.  With stream=True, follow=True the answer  *)
(* is an open stream, with stdout=False, stderr=True after a failure it is *)
(* the errors so far.                                                      *)
Logs ==
    /\ request \in {"logs", "stderr"}
    /\ Continue(IF request = "logs" THEN "follow tty" ELSE "stderr tty")
    /\ UNCHANGED <<engine, opts, pulled, exit, out>>

FollowTty ==
    /\ request = "follow tty"
    /\ IF Exists
       THEN out' = "follow" /\ Answered("wait")
       ELSE End("APIError") /\ UNCHANGED out
    /\ UNCHANGED <<engine, opts, pulled, exit>>

\* Seeded fault: a run has failed when there are errors to show.
ConcludeFromOutput(e, o) ==
    IF o = "stderr" THEN End("ContainerError") ELSE End(IF o = "none" THEN "none" ELSE "logs")

(* What run does once it knows the exit status and has what output it      *)
(* wants: with stream=True the caller reads it, otherwise run does.        *)
Conclude(e, o) ==
    CASE e # 0 -> End("ContainerError")
      [] e = 0 /\ o = "none" -> End("none")
      [] e = 0 /\ o # "none" -> IF opts.stream THEN End("logs") ELSE Continue("join")

\* Seeded fault: the error is raised before the container is removed.
AfterOutputRaises(e, o) ==
    IF opts.remove /\ e = 0 THEN Continue("remove") ELSE Conclude(e, o)

AfterOutput(e, o) ==
    IF opts.remove THEN Continue("remove") ELSE Conclude(e, o)

\* Seeded fault: waiting does not end when the container is removed.
WaitForExit ==
    /\ request = "wait" /\ life = "exited"
    /\ exit' = code
    /\ out' = IF code = 0 THEN out ELSE "none"
    /\ IF code # 0 /\ ~opts.auto_remove THEN Continue("stderr") ELSE AfterOutput(code, out')
    /\ UNCHANGED <<engine, opts, pulled>>

\* wait() has no timeout; the daemon answers when the container does not run.
AwaitExit ==
    /\ request = "wait"
    /\ \/ /\ life = "exited"
          /\ exit' = code
          /\ out' = IF code = 0 THEN out ELSE "none"
          /\ \/ IF code # 0 /\ ~opts.auto_remove
                THEN Continue("stderr")
                ELSE AfterOutput(code, out')
             \/ Faults /\ End("APIError")
       \/ /\ life = "gone"
          /\ End("APIError")
          /\ UNCHANGED <<exit, out>>
    /\ UNCHANGED <<engine, opts, pulled>>

\* The errors are fetched whatever the logging driver is; one that cannot be
\* read has made the daemon answer with an error.
StderrTty ==
    /\ request = "stderr tty"
    /\ IF Exists /\ opts.readable
       THEN out' = "stderr" /\ (AfterOutput(exit, out') \/ (Faults /\ End("APIError")))
       ELSE End("APIError") /\ UNCHANGED out
    /\ UNCHANGED <<engine, opts, pulled, exit>>

\* container.remove(): the daemon refuses while the container runs.
Remove ==
    /\ request = "remove"
    /\ IF life \in {"created", "exited"}
       THEN life' = "gone" /\ (Conclude(exit, out) \/ (Faults /\ End("APIError")))
       ELSE End("APIError") /\ UNCHANGED life
    /\ UNCHANGED <<hasImage, code, made, statuses, restarts, opts, pulled, exit, out>>

(* b''.join(out): the stream is read to its end.  It ends with the exit    *)
(* that was waited for, or a container started again keeps it open.  A     *)
(* connection that is cut ends it quietly (CancellableStream), or makes it *)
(* raise (a header read in part), after the container was removed.         *)
JoinOutput ==
    /\ request = "join"
    /\ End("logs") \/ (Faults /\ End("StreamError"))
    /\ UNCHANGED <<engine, opts, pulled, exit, out>>

\* A request is lost before the daemon has it.
Lost ==
    /\ Faults
    /\ request \notin {"check", "join", "end"}
    /\ End("APIError")
    /\ UNCHANGED <<engine, opts, pulled, exit, out>>

RunStep == CheckOptions \/ Create \/ ImageNotFound \/ Pull \/ InspectImage \/ Inspect
           \/ StartContainer \/ Logs \/ FollowTty \/ AwaitExit \/ StderrTty \/ Remove

-----------------------------------------------------------------------------
(* The daemon and the others                                               *)

run == <<opts, request, pulled, exit, out, outcome>>

Exit == /\ life = "running"
        /\ life' = "exited"
        /\ code' \in {0, 1}
        /\ statuses' = statuses \union {code'}
        /\ UNCHANGED <<hasImage, made, restarts, run>>

AutoRemove == /\ life = "exited" /\ opts.auto_remove
              /\ life' = "gone"
              /\ UNCHANGED <<hasImage, code, made, statuses, restarts, run>>

Restart == /\ OtherClients
           /\ life = "exited" /\ restarts < MaxRestarts
           /\ life' = "running" /\ restarts' = restarts + 1
           /\ UNCHANGED <<hasImage, code, made, statuses, run>>

Interfere == /\ OtherClients
             /\ \/ Exists /\ life' = "gone" /\ UNCHANGED hasImage
                \/ hasImage' = ~hasImage /\ UNCHANGED life
             /\ UNCHANGED <<code, made, statuses, restarts, run>>

RunNext == RunStep \/ JoinOutput \/ Lost \/ Exit \/ AutoRemove \/ Restart \/ Interfere

RunSpec == RunInit /\ [][RunNext]_runVars

(* run() goes on, the daemon removes what it has to remove, and ends the   *)
(* output of a container that does not run.  That the container exits is   *)
(* nobody's obligation.                                                    *)
FairRunSpec ==
    /\ RunSpec
    /\ WF_runVars(RunStep) /\ WF_runVars(AutoRemove) /\ WF_runVars(life # "running" /\ JoinOutput)

-----------------------------------------------------------------------------
(* Properties                                                              *)

\* Every variable has its type.
RunTypeOK ==
    /\ hasImage \in BOOLEAN
    /\ life \in {"none", "created", "running", "exited", "gone"}
    /\ code \in {0, 1} /\ made \in Nat /\ statuses \subseteq {0, 1} /\ restarts \in 0..MaxRestarts
    /\ opts \in Options
    /\ request \in {"check", "create", "pull", "pulled", "inspect", "start", "logs", "follow tty",
                    "wait", "stderr", "stderr tty", "remove", "join", "end"}
    /\ pulled \in BOOLEAN /\ exit \in {0, 1} /\ out \in {"none", "follow", "stderr"}
    /\ outcome \in {"pending", "container", "logs", "none", "ContainerError", "ImageNotFound",
                    "APIError", "OptionError", "StreamError"}

(* What run tells its caller about the exit is true: an output is returned *)
(* only for a container that exited with 0, ContainerError raised only for *)
(* one that did not, even if it was restarted or removed meanwhile.        *)
ResultTellsExit ==
    /\ outcome \in {"logs", "none"} => 0 \in statuses
    /\ outcome = "ContainerError" => 1 \in statuses

(* remove=True: whenever run reports how the container ended, with a value *)
(* or with ContainerError, the container is gone.                          *)
NotLeftBehind ==
    opts.remove /\ outcome \in {"logs", "none", "ContainerError"} => life = "gone"

(* The retry after the pull is no second creation: a run makes at most one *)
(* container, and none when it reports that there is no image.             *)
CreatedOnce == made <= 1 /\ (outcome \in {"ImageNotFound", "OptionError"} => made = 0)

(* CreatedOnce, with the types of everything a run keeps.                  *)
MadeOnce == RunTypeOK /\ CreatedOnce

(* detach=True with remove=True hands the removal over to the daemon: a    *)
(* container that has exited for good is removed although run is over.     *)
DetachedRemoved ==
    (outcome = "container" /\ opts.remove /\ life = "exited") ~> (life # "exited")

(* run() ends: it only waits for the container and its output, and a       *)
(* container that does not run any more ends that wait, removed or not.    *)
WaitEnds == <>[](life # "running") => <>(request = "end")

(* Neither the caller nor the container is left waiting: WaitEnds for the  *)
(* one, DetachedRemoved for the other.                                     *)
RunEnds == WaitEnds /\ DetachedRemoved

\* Nobody interferes with a run that is not detached, and it is over.
Undisturbed == ~OtherClients /\ ~Faults /\ ~opts.detach /\ made = 1 /\ request = "end"

(* "Raises ContainerError: If the container exits with a non-zero exit     *)
(* code and detach is False": also when its logging driver has no logs.    *)
NonZeroRaisesContainerError ==
    Undisturbed /\ statuses = {1} /\ ~opts.auto_remove => outcome = "ContainerError"
=============================================================================
