--------------------------- MODULE ServiceUpdate ---------------------------
(***************************************************************************)
(* Updating a swarm service through docker.models.services.Service.        *)
(*                                                                         *)
(* A Service object holds attrs, a snapshot of the service made by its     *)
(* last reload.  update() takes its defaults (the image, the force-update  *)
(* counter) and the version it sends from that snapshot, but merges them   *)
(* into a specification it inspects afresh; the daemon accepts the POST    *)
(* only if the version is still the current one.  Several threads, other   *)
(* clients and the removal of the service interleave with every request.   *)
(***************************************************************************)
EXTENDS Naturals

CONSTANTS Thread,      \* threads of programs that use docker-py
          Object,      \* Service objects, all of the same service
          Obj,         \* the object each thread works on
          Plain,       \* settings the client copies without looking at them
          Value,       \* values of settings
          None,        \* an absent setting, an override not given
          Request,     \* keyword arguments update() is called with
          Replicas,    \* numbers scale() is called with
          Initial,     \* specifications the service may be created with
          Modern       \* threads whose clients speak API version 1.25 or later

(* Settings as the caller sees them, and as the service stores them: a     *)
(* service made through an old API keeps its networks beside the task      *)
(* template ("LegacyNetworks") instead of in it.                           *)
Setting == Plain \union {"Image", "Mode", "Networks"}
Field == Setting \union {"LegacyNetworks"}
SpecType == [settings : [Field -> Value \union {None}], force : Nat]

ASSUME ServiceConstants ==
    /\ Obj \in [Thread -> Object]
    /\ None \notin Value
    /\ "LegacyNetworks" \notin Plain
    /\ Request \subseteq [Setting -> Value \union {None}]
    /\ Replicas \subseteq Value \ {"Global"}
    /\ Initial \subseteq SpecType
    /\ Modern \subseteq Thread

VARIABLES
    spec,      \* daemon: the service's specification
    version,   \* daemon: its version index
    exists,    \* daemon: the service has not been removed
    attrs,     \* per object: the snapshot in Model.attrs
    pc,        \* per thread: what it does next
    call,      \* per thread: the arguments of its call, defaults filled in
    ver,       \* per thread: the version it read, from attrs or from a GET
    cur,       \* per thread: the specification it inspected
    spent      \* history: objects that had an update accepted since their reload

daemon == <<spec, version, exists>>
vars == <<daemon, attrs, pc, call, ver, cur, spent>>

Untouched == [x \in Setting |-> None]
Empty == [settings |-> [x \in Field |-> None], force |-> 0]
NoCall == [op |-> "update", set |-> Untouched, bump |-> FALSE, force |-> 0, fetch |-> TRUE,
           asked |-> Untouched]

CallType == [op : {"update", "scale"}, set : [Setting -> Value \union {None}],
             bump : BOOLEAN, force : Nat, fetch : BOOLEAN,
             asked : [Setting -> Value \union {None}]]

Init == /\ spec \in Initial
        /\ version = 1
        /\ exists = TRUE
        /\ attrs = [o \in Object |-> [spec |-> spec, version |-> version]]
        /\ pc = [t \in Thread |-> "idle"]
        /\ call = [t \in Thread |-> NoCall]
        /\ ver = [t \in Thread |-> 0]
        /\ cur = [t \in Thread |-> Empty]
        /\ spent = {}

-----------------------------------------------------------------------------
(* What update_service posts.                                              *)

\* Seeded faults, here and below: variants in which a property must fail.

\* Networks kept beside the task template are not moved into it.
TaskNetworksOnly(old, set, modern) ==
    IF set["Networks"] # None THEN set["Networks"] ELSE old["Networks"]

\* _merge_task_template and the "is None" tests of update_service, networks apart.
Merge(old, set) == [x \in Setting |-> IF set[x] = None THEN old[x] ELSE set[x]]

\* The Networks entry of the posted task template.
TaskNetworks(old, set, modern) ==
    IF set["Networks"] # None THEN set["Networks"]
    ELSE IF old["Networks"] # None \/ ~modern THEN old["Networks"]
    ELSE old["LegacyNetworks"]

\* The whole request body built from the inspected specification and the call.
Body(current, c, modern) ==
    [settings |-> [x \in Field |->
        IF x = "LegacyNetworks" THEN (IF modern THEN None ELSE current.settings[x])
        ELSE IF x = "Networks" THEN TaskNetworks(current.settings, c.set, modern)
        ELSE Merge(current.settings, c.set)[x]],
     force |-> IF c.force = 0 THEN current.force ELSE c.force]

-----------------------------------------------------------------------------
(* Service.update and Service.scale                                        *)

Goto(t, l) == pc' = [pc EXCEPT ![t] = l]

\* The call returns or raises, and its local variables are gone.
Return(t) == /\ pc' = [pc EXCEPT ![t] = "idle"]
             /\ call' = [call EXCEPT ![t] = NoCall]
             /\ ver' = [ver EXCEPT ![t] = 0]
             /\ cur' = [cur EXCEPT ![t] = Empty]

\* Seeded fault: it becomes the snapshot's counter.
ReadForceSame(t) ==
    /\ pc[t] = "force"
    /\ call' = [call EXCEPT ![t].force = IF call[t].bump THEN attrs[Obj[t]].spec.force ELSE 0]
    /\ Goto(t, "version")
    /\ UNCHANGED <<daemon, attrs, ver, cur, spent>>

\* Seeded fault: the version is asked of the daemon, to have the newest.
ReadVersionFresh(t) ==
    /\ pc[t] = "version"
    /\ ver' = [ver EXCEPT ![t] = version]
    /\ Goto(t, IF call[t].fetch THEN "inspect" ELSE "post")
    /\ UNCHANGED <<daemon, attrs, call, cur, spent>>

BeginUpdate(t) ==
    /\ pc[t] = "idle"
    /\ \E request \in Request, bump, fetch \in BOOLEAN :
          call' = [call EXCEPT ![t] =
                     [op |-> "update", set |-> request, bump |-> bump, force |-> 0,
                      fetch |-> fetch, asked |-> request]]
    /\ Goto(t, "image")
    /\ UNCHANGED <<daemon, attrs, ver, cur, spent>>

\* "if it hasn't been set, use current image": the image of the snapshot.
ReadImage(t) ==
    /\ pc[t] = "image"
    /\ call' = [call EXCEPT ![t].set["Image"] =
                  IF @ = None THEN attrs[Obj[t]].spec.settings["Image"] ELSE @]
    /\ Goto(t, "force")
    /\ UNCHANGED <<daemon, attrs, ver, cur, spent>>

\* force_update=True becomes the snapshot's counter plus one.
ReadForce(t) ==
    /\ pc[t] = "force"
    /\ call' = [call EXCEPT ![t].force =
                  IF call[t].bump THEN attrs[Obj[t]].spec.force + 1 ELSE 0]
    /\ Goto(t, "version")
    /\ UNCHANGED <<daemon, attrs, ver, cur, spent>>

\* scale(): the snapshot tells whether the service is global.
BeginScale(t) ==
    /\ pc[t] = "idle"
    /\ attrs[Obj[t]].spec.settings["Mode"] # "Global"
    /\ \E replicas \in Replicas :
          call' = [call EXCEPT ![t] =
                     [op |-> "scale", set |-> [Untouched EXCEPT !["Mode"] = replicas],
                      bump |-> FALSE, force |-> 0, fetch |-> TRUE,
                      asked |-> [Untouched EXCEPT !["Mode"] = replicas]]]
    /\ Goto(t, "version")
    /\ UNCHANGED <<daemon, attrs, ver, cur, spent>>

\* self.version is read, then _check_api_features may refuse the call: of its
\* tests only that of force_update is modelled.
ReadVersion(t) ==
    /\ pc[t] = "version"
    /\ IF call[t].force # 0 /\ t \notin Modern
       THEN Return(t)
       ELSE /\ ver' = [ver EXCEPT ![t] = attrs[Obj[t]].version]
            /\ Goto(t, IF call[t].fetch THEN "inspect" ELSE "post")
            /\ UNCHANGED <<call, cur>>
    /\ UNCHANGED <<daemon, attrs, spent>>

\* inspect_service; a removed service raises NotFound.
Inspect(t) ==
    /\ pc[t] = "inspect"
    /\ IF exists
       THEN cur' = [cur EXCEPT ![t] = spec] /\ Goto(t, "post") /\ UNCHANGED <<call, ver>>
       ELSE Return(t)
    /\ UNCHANGED <<daemon, attrs, spent>>

\* The daemon takes a specification sent with the version it holds, no other.
Accepts(v) == exists /\ v = version

\* The POST reaches the daemon.  The answer may be lost on the way back: the
\* caller then sees the error it would see had the request been lost (Lose).
Accept(t) ==
    /\ pc[t] = "post"
    /\ Accepts(ver[t])
    /\ spec' = Body(cur[t], call[t], t \in Modern)
    /\ version' = version + 1
    /\ spent' = spent \union {Obj[t]}
    /\ Return(t)
    /\ UNCHANGED <<exists, attrs>>

\* "update out of sequence" or NotFound: an APIError, nothing is changed.
Reject(t) ==
    /\ pc[t] = "post"
    /\ ~Accepts(ver[t])
    /\ Return(t)
    /\ UNCHANGED <<daemon, attrs, spent>>

\* A request is lost before the daemon sees it; the call raises.
Lose(t) ==
    /\ pc[t] \in {"inspect", "post", "reload"}
    /\ Return(t)
    /\ UNCHANGED <<daemon, attrs, spent>>

-----------------------------------------------------------------------------
(* Model.reload, Service.remove, and everybody else                        *)

BeginReload(t) ==
    /\ pc[t] = "idle"
    /\ Goto(t, "reload")
    /\ UNCHANGED <<daemon, attrs, call, ver, cur, spent>>

\* collection.get(id)
ReloadGet(t) ==
    /\ pc[t] = "reload"
    /\ IF exists
       THEN /\ cur' = [cur EXCEPT ![t] = spec]
            /\ ver' = [ver EXCEPT ![t] = version]
            /\ Goto(t, "assign")
            /\ UNCHANGED call
       ELSE Return(t)
    /\ UNCHANGED <<daemon, attrs, spent>>

\* self.attrs = new_model.attrs, when the answer has come
ReloadAssign(t) ==
    /\ pc[t] = "assign"
    /\ attrs' = [attrs EXCEPT ![Obj[t]] = [spec |-> cur[t], version |-> ver[t]]]
    /\ spent' = spent \ {Obj[t]}
    /\ Return(t)
    /\ UNCHANGED daemon

Remove(t) ==
    /\ pc[t] = "idle"
    /\ exists
    /\ exists' = FALSE
    /\ UNCHANGED <<spec, version, attrs, pc, call, ver, cur, spent>>

\* Another client of the daemon overrides some settings.
Elsewhere ==
    /\ exists
    /\ \E request \in Request, bump, modern \in BOOLEAN :
          spec' = Body(spec, [set |-> request, force |-> IF bump THEN spec.force + 1 ELSE 0],
                       modern)
    /\ version' = version + 1
    /\ UNCHANGED <<exists, attrs, pc, call, ver, cur, spent>>

Next == \/ \E t \in Thread :
              \/ BeginUpdate(t) \/ ReadImage(t) \/ ReadForce(t)
              \/ BeginScale(t) \/ ReadVersion(t) \/ Inspect(t)
              \/ Accept(t) \/ Reject(t) \/ Lose(t)
              \/ BeginReload(t) \/ ReloadGet(t) \/ ReloadAssign(t) \/ Remove(t)
        \/ Elsewhere

Spec == Init /\ [][Next]_vars

-----------------------------------------------------------------------------
(* Properties                                                              *)

\* Every variable has its type.
TypeOK ==
    /\ spec \in SpecType
    /\ version \in Nat
    /\ exists \in BOOLEAN
    /\ attrs \in [Object -> [spec : SpecType, version : Nat]]
    /\ pc \in [Thread -> {"idle", "image", "force", "version", "inspect", "post",
                          "reload", "assign"}]
    /\ call \in [Thread -> CallType]
    /\ ver \in [Thread -> Nat]
    /\ cur \in [Thread -> SpecType]
    /\ spent \subseteq Object

\* The networks a service is attached to, wherever they are stored.
Attached(s) == IF s["Networks"] # None THEN s["Networks"] ELSE s["LegacyNetworks"]

\* A specification as callers see it: legacy networks are networks.
Visible(s) == [x \in Setting |-> IF x = "Networks" THEN Attached(s) ELSE s[x]]

(* The detailed specification implements the abstract one: whatever the    *)
(* snapshots, inspections and lost answers, the service changes only by    *)
(* whole updates of the specification it has at that moment.               *)
Abstract == INSTANCE VersionedSpec WITH settings <- Visible(spec.settings), force <- spec.force
Implements == Abstract!Spec

(* No lost update (Service.update and update_service, whose version        *)
(* argument is "required to avoid conflicting writes"): an accepted update *)
(* that fetches the current specification leaves every setting its caller  *)
(* did not name, the image included, as the daemon has it at that moment.  *)
NoLostUpdate ==
    [][\A t \in Thread : Accept(t) /\ call[t].fetch =>
          \A x \in Setting : call[t].asked[x] = None =>
             Visible(spec'.settings)[x] = Visible(spec.settings)[x]]_vars

(* A forced update is never a no-op and never skips: it adds one to the    *)
(* counter the daemon has, although update() adds it to its own copy.      *)
ForceTakesEffect ==
    [][\A t \in Thread : Accept(t) /\ call[t].bump => spec'.force = spec.force + 1]_vars

(* scale() decides from its snapshot that the service is not global; an    *)
(* accepted scale has not turned a global service into a replicated one.   *)
ScaleKeepsGlobal ==
    [][\A t \in Thread : Accept(t) /\ call[t].op = "scale" =>
          spec.settings["Mode"] # "Global"]_vars

(* A call repeated after an error, its answer lost or not, is not applied  *)
(* a second time unless the object was reloaded in between.                *)
RetryNotApplied == [][\A t \in Thread : Accept(t) => Obj[t] \notin spent]_vars

\* The thread holds a specification the daemon sent.
Fetched(t) == pc[t] = "assign" \/ (pc[t] = "post" /\ call[t].fetch)

(* The reason for all of the above: a snapshot or an inspection that bears *)
(* the daemon's version equals the daemon's specification.                 *)
SnapshotsAgree ==
    /\ \A o \in Object : /\ attrs[o].version <= version
                         /\ attrs[o].version = version => attrs[o].spec = spec
    /\ \A t \in Thread :
          /\ pc[t] \in {"inspect", "post", "assign"} => ver[t] <= version
          /\ Fetched(t) /\ ver[t] = version => cur[t] = spec

(* The inductive invariant that the proofs rest on: SnapshotsAgree, and    *)
(* what the arguments of an unfinished call owe to the snapshot of its     *)
(* object, which only the same thread replaces.                            *)
ImageFrom(c, s) ==
    c.set["Image"] = IF c.asked["Image"] = None THEN s.settings["Image"] ELSE c.asked["Image"]

Defaults(c, s) ==
    IF c.op = "update"
    THEN /\ ImageFrom(c, s)
         /\ c.force = (IF c.bump THEN s.force + 1 ELSE 0)
    ELSE s.settings["Mode"] # "Global"

Wanted(c) ==
    IF c.op = "update"
    THEN c.asked \in Request /\ \A x \in Setting \ {"Image"} : c.set[x] = c.asked[x]
    ELSE /\ \E n \in Replicas : c.asked = [Untouched EXCEPT !["Mode"] = n]
         /\ c.set = c.asked /\ c.fetch /\ ~c.bump /\ c.force = 0

CallAgrees(t) ==
    /\ pc[t] \in {"image", "force", "version", "inspect", "post"} => Wanted(call[t])
    /\ pc[t] \in {"image", "force"} => call[t].op = "update"
    /\ pc[t] = "image" => call[t].set = call[t].asked
    /\ pc[t] = "force" => ImageFrom(call[t], attrs[Obj[t]].spec)
    /\ pc[t] \in {"version", "inspect", "post"} => Defaults(call[t], attrs[Obj[t]].spec)
    /\ pc[t] \in {"inspect", "post"} => ver[t] = attrs[Obj[t]].version
    /\ pc[t] = "inspect" => call[t].fetch
    /\ pc[t] = "assign" => attrs[Obj[t]].version <= ver[t]
    /\ ~Fetched(t) => cur[t] = Empty

IInv == /\ SnapshotsAgree
        /\ \A t \in Thread : CallAgrees(t)
        /\ \A o \in spent : attrs[o].version < version
=============================================================================
