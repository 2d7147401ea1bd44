---------------------------- MODULE ModelObjects ----------------------------
(***************************************************************************)
(* One model object and its collection (docker.models): get, create, list, *)
(* reload, and the operations that name the daemon's object by an          *)
(* attribute of the snapshot in attrs.  The kinds of objects differ in     *)
(* that attribute, and in which operations inspect the object afterwards.  *)
(* Meanwhile other clients create, rename, change and remove objects, and  *)
(* requests and answers are lost.                                          *)
(***************************************************************************)
EXTENDS Naturals, FiniteSets

CONSTANTS Kind,       \* kinds of objects
          Id,         \* the daemon's objects; bound: those made later are among them
          Name,       \* names they may have
          MaxCalls,   \* bound: calls of the program
          MaxOthers   \* bound: steps of other clients

Kinds == {"container", "network", "volume", "image", "secret", "config", "node", "plugin"}

ASSUME ObjectConstants ==
    /\ Kind \subseteq Kinds /\ Name # {}
    /\ MaxCalls \in Nat /\ MaxOthers \in Nat

VARIABLES
    kind,      \* the kind of this run's objects
    objs,      \* daemon: name, life and use: running, enabled, connected, or,
               \* for a volume, beyond the reach of its driver
    attrs,     \* Model.attrs: id, name and use as last inspected; {} or one
    mine,      \* history: the object attrs was first taken from; {} or one
    pc, call,  \* the program: its next step, its call
    made,      \* create: what the daemon answered; {} or one
    pending,   \* list: objects the daemon listed and not yet inspected
    found,     \* list: objects it has
    seen,      \* history: objects there when a call began, or when it listed them
    result,    \* how the last call ended
    calls, others

vars == <<kind, objs, attrs, mine, pc, call, made, pending, found, seen, result, calls, others>>

-----------------------------------------------------------------------------
(* Kinds.  ref is the attribute operations name the object by, id the one  *)
(* reload() does, made what create returns (the answer, or an inspection   *)
(* by Id or by name), lists the ways to list (as answered, with an         *)
(* inspection of each item, the same but ignoring removed ones).           *)

Trait(ref, id, m, lists, ops) ==
    [ref |-> ref, id |-> id, made |-> m, lists |-> lists, ops |-> ops]

Container ==
    Trait("id", "id", "id", {"sparse", "strict", "tolerant"}, {"switch", "rename", "remove", "prune"})
Network == Trait("id", "id", "id", {"sparse", "strict"}, {"switch", "remove", "prune"})
Volume == Trait("name", "name", "answer", {"sparse"}, {"remove", "prune"})
Image == Trait("id", "id", "none", {"strict"}, {"remove", "prune"})
Secret == Trait("id", "id", "answer", {"sparse"}, {"remove"})
Config == Trait("id", "id", "answer", {"sparse"}, {"remove"})
Node == Trait("id", "id", "none", {"sparse"}, {"remove"})
Plugin == Trait("name", "id", "name", {"sparse"},
                {"install", "configure", "switch", "upgrade", "remove"})

T == CASE kind = "container" -> Container
       [] kind = "network" -> Network
       [] kind = "volume" -> Volume
       [] kind = "image" -> Image
       [] kind = "secret" -> Secret
       [] kind = "config" -> Config
       [] kind = "node" -> Node
       [] kind = "plugin" -> Plugin

There == {i \in Id : objs[i].life = "there"}
Named(n) == {i \in There : objs[i].name = n}

\* The object a request finds, if any, that names it as attrs has it.
Finds(by) == {i \in There : \E a \in attrs : IF by = "id" THEN i = a.id ELSE objs[i].name = a.name}

\* prepare_model of an inspection.
Snapshot(i) == [id |-> i, name |-> objs[i].name, used |-> objs[i].used]

Unmade == [name |-> CHOOSE n \in Name : TRUE, life |-> "none", used |-> FALSE]
Unmades == {i \in Id : objs[i] = Unmade}

Op == {"create", "install", "list", "reload", "configure", "switch", "rename", "remove", "upgrade",
       "prune"}
CallType == [op : Op, name : Name, style : {"sparse", "strict", "tolerant"}, flag : BOOLEAN]
NoCall == [op |-> "none", name |-> CHOOSE n \in Name : TRUE, style |-> "sparse", flag |-> FALSE]
Call ==
    {c \in CallType :
        /\ c.op \in {"create", "list", "reload"} \union T.ops
        /\ c.op = "create" => T.made # "none" /\ Unmades # {}
        /\ c.op \notin {"create", "install", "list", "prune"} => attrs # {}
        /\ c.style \in (IF c.op = "list" THEN T.lists ELSE {"sparse"})
        /\ c.op \notin {"create", "install", "rename"} => c.name = NoCall.name
        /\ c.op \notin {"switch", "remove"} => ~c.flag}

-----------------------------------------------------------------------------
Init ==
    /\ kind \in Kind
    /\ objs \in [Id -> [name : Name, life : {"there"}, used : BOOLEAN] \union {Unmade}]
    /\ Unmade \in {objs[i] : i \in Id}
    /\ \A i, j \in There : objs[i].name = objs[j].name => i = j
    /\ attrs = {} /\ mine = {}
    /\ pc = "idle" /\ call = NoCall
    /\ made = {} /\ pending = {} /\ found = {} /\ seen = {}
    /\ result = "none"
    /\ calls = 0 /\ others = 0

Goto(l) == pc' = l /\ UNCHANGED <<call, result>>

Return(r) == pc' = "idle" /\ result' = r /\ UNCHANGED call

\* An answer arrives, or is lost after the daemon has served the request.
Answered(r) == Return(r) \/ Return("lost")

\* collection.get(name)
Get ==
    /\ pc = "idle" /\ attrs = {}
    /\ \E n \in Name : \E i \in Named(n) : attrs' = {Snapshot(i)} /\ mine' = {i}
    /\ UNCHANGED <<kind, objs, pc, call, made, pending, found, seen, result, calls, others>>

Begin ==
    /\ pc = "idle" /\ calls < MaxCalls
    /\ \E c \in Call : call' = c /\ pc' = c.op
    /\ calls' = calls + 1
    /\ made' = {} /\ pending' = {} /\ found' = {} /\ seen' = There
    /\ result' = "none"
    /\ UNCHANGED <<kind, objs, attrs, mine, others>>

\* A request is lost before the daemon has it, or its answer after it only read.
Lose ==
    /\ pc # "idle"
    /\ Return("lost")
    /\ UNCHANGED <<kind, objs, attrs, mine, made, pending, found, seen, calls, others>>

-----------------------------------------------------------------------------
(* create                                                                  *)

\* The POST makes an object and answers its Id.  A volume that exists already
\* is answered as if it were new; other names in use are a conflict.
Create ==
    /\ pc = "create"
    /\ IF Named(call.name) # {}
       THEN IF kind # "volume"
            THEN Return("Conflict") /\ UNCHANGED <<objs, attrs, mine, made>>
            ELSE \/ /\ \E i \in Named(call.name) : attrs' = {Snapshot(i)} /\ mine' = {i}
                    /\ Return("done") /\ UNCHANGED <<objs, made>>
                 \/ Return("lost") /\ UNCHANGED <<objs, attrs, mine, made>>
       ELSE \E i \in Unmades :
            /\ objs' = [objs EXCEPT ![i] = [name |-> call.name, life |-> "there", used |-> FALSE]]
            /\ \/ Return("lost") /\ UNCHANGED <<attrs, mine, made>>
               \/ /\ T.made = "answer"
                  /\ attrs' = {[id |-> i, name |-> call.name, used |-> FALSE]} /\ mine' = {i}
                  /\ Return("done") /\ UNCHANGED made
               \/ /\ T.made # "answer"
                  /\ made' = {i}
                  /\ Goto("made") /\ UNCHANGED <<attrs, mine>>
    /\ UNCHANGED <<kind, pending, found, seen, calls, others>>

\* install and upgrade ask the registry for the plugin's privileges first.  The
\* snapshot must say disabled to be upgraded; the exception that is raised
\* otherwise does not exist.  "refused" is an error of any kind that the remote
\* reference is the reason of.
Privileges ==
    /\ pc \in {"install", "upgrade"}
    /\ IF pc = "upgrade" /\ \E a \in attrs : a.used THEN Return("AttributeError")
       ELSE Goto(IF pc = "install" THEN "pull" ELSE "apply") \/ Return("refused")
    /\ UNCHANGED <<kind, objs, attrs, mine, made, pending, found, seen, calls, others>>

\* PluginCollection.install: a pull that is refused raises; an error in its
\* progress is not looked at, so that the inspection follows then, too.
Install ==
    /\ pc = "pull"
    /\ \/ UNCHANGED objs /\ (Return("refused") \/ Goto("made"))
       \/ /\ Named(call.name) = {}
          /\ \E i \in Unmades : objs' = [objs EXCEPT ![i].name = call.name, ![i].life = "there"]
          /\ Goto("made") \/ Return("lost")
    /\ UNCHANGED <<kind, attrs, mine, made, pending, found, seen, calls, others>>

\* Seeded fault: what was made is looked up by its name.
MadeByName ==
    LET is == Named(call.name) IN
    /\ pc = "made"
    /\ IF is = {} THEN Return("NotFound") /\ UNCHANGED <<attrs, mine>>
       ELSE Return("done") /\ \E i \in is : attrs' = {Snapshot(i)} /\ mine' = {i}
    /\ UNCHANGED <<kind, objs, made, pending, found, seen, calls, others>>

\* "return self.get(resp['Id'])", for a plugin "return self.get(name)".
Made ==
    LET is == IF T.made = "name" THEN Named(call.name) ELSE made \intersect There IN
    /\ pc = "made"
    /\ IF is = {} THEN Return("NotFound") /\ UNCHANGED <<attrs, mine>>
       ELSE Return("done") /\ \E i \in is : attrs' = {Snapshot(i)} /\ mine' = {i}
    /\ UNCHANGED <<kind, objs, made, pending, found, seen, calls, others>>

-----------------------------------------------------------------------------
(* list                                                                    *)

List ==
    /\ pc = "list"
    /\ IF call.style = "sparse"
       THEN found' = There /\ Return("done") /\ UNCHANGED pending
       ELSE pending' = There /\ Goto("inspect") /\ UNCHANGED found
    /\ seen' = seen \union There
    /\ UNCHANGED <<kind, objs, attrs, mine, made, calls, others>>

\* Seeded fault: a container that is gone ends the list.
InspectStops ==
    /\ pc = "inspect"
    /\ IF pending = {} THEN Return("done") /\ UNCHANGED <<pending, found>>
       ELSE \E i \in pending :
            /\ pending' = pending \ {i}
            /\ IF i \in There THEN found' = found \union {i} /\ Goto("inspect")
               ELSE Return(IF call.style = "tolerant" THEN "done" ELSE "NotFound") /\ UNCHANGED found
    /\ UNCHANGED <<kind, objs, attrs, mine, made, seen, calls, others>>

\* One listed object is inspected; one that is gone is skipped if the caller
\* said so (ignore_removed), and ends the call otherwise.
Inspect ==
    /\ pc = "inspect"
    /\ IF pending = {} THEN Return("done") /\ UNCHANGED <<pending, found>>
       ELSE \E i \in pending :
            /\ pending' = pending \ {i}
            /\ found' = found \union ({i} \intersect There)
            /\ IF i \in There \/ call.style = "tolerant" THEN Goto("inspect") ELSE Return("NotFound")
    /\ UNCHANGED <<kind, objs, attrs, mine, made, seen, calls, others>>

-----------------------------------------------------------------------------
(* Operations on the object                                                *)

\* Seeded fault: the object is looked up again under its name.
ReloadByName ==
    /\ pc = "reload"
    /\ IF Finds("name") = {} THEN Return("NotFound") /\ UNCHANGED attrs
       ELSE Return("done") /\ \E i \in Finds("name") : attrs' = {Snapshot(i)}
    /\ UNCHANGED <<kind, objs, mine, made, pending, found, seen, calls, others>>

\* Model.reload
Reload ==
    /\ pc = "reload"
    /\ IF Finds(T.id) = {} THEN Return("NotFound") /\ UNCHANGED attrs
       ELSE Return("done") /\ \E i \in Finds(T.id) : attrs' = {Snapshot(i)}
    /\ UNCHANGED <<kind, mine, objs, made, pending, found, seen, calls, others>>

\* A request that names the object by the attribute `by`: ok are the objects it
\* is served for, new what it makes of each object, l what comes next.
Request(by, ok, new, l) ==
    /\ IF Finds(by) = {} THEN Return("NotFound") /\ UNCHANGED objs
       ELSE \E i \in Finds(by) :
            IF i \in ok
            THEN /\ objs' = [objs EXCEPT ![i] = new[i]]
                 /\ (IF l = "idle" THEN Return("done") ELSE Goto(l)) \/ Return("lost")
            ELSE Return("Conflict") /\ UNCHANGED objs
    /\ UNCHANGED <<kind, attrs, mine, made, pending, found, seen, calls, others>>

\* Plugin.configure: a plugin that is enabled is refused, and the settings are
\* not among what is kept of an object; the object is reloaded.
Configure ==
    /\ pc = "configure"
    /\ Request(T.ref, {i \in Id : ~objs[i].used}, objs, "reload")

\* start and stop, connect and disconnect; enable_plugin and disable_plugin,
\* which refuse what is so already and are followed by a reload.
Switch ==
    /\ pc = "switch"
    /\ Request(T.ref,
               {i \in Id : kind = "plugin" => objs[i].used # call.flag},
               [i \in Id |-> [objs[i] EXCEPT !.used = call.flag]],
               IF kind = "plugin" THEN "reload" ELSE "idle")

\* Seeded fault: the program names the container by the name it knows.
RenameByName ==
    /\ pc = "rename"
    /\ Request("name", {i \in Id : Named(call.name) = {}},
               [i \in Id |-> [objs[i] EXCEPT !.name = call.name]], "idle")

\* Container.rename: attrs keeps the old name.
Rename ==
    /\ pc = "rename"
    /\ Request(T.ref, {i \in Id : Named(call.name) = {}},
               [i \in Id |-> [objs[i] EXCEPT !.name = call.name]], "idle")

\* force is sent for containers, images, nodes and plugins; networks, secrets
\* and configs have none, and for a volume it is lost (_url ignores params).
Remove ==
    /\ pc = "remove"
    /\ Request(T.ref,
               {i \in Id : objs[i].used =>
                              call.flag /\ kind \in {"container", "image", "node", "plugin"}},
               [i \in Id |-> [objs[i] EXCEPT !.life = "gone"]], "idle")

\* Plugin.upgrade, as it is iterated over: the POST.
Upgrade ==
    /\ pc = "apply"
    /\ Request(T.ref, {i \in Id : ~objs[i].used}, objs, "progress")

\* The caller reads all of the progress, and the object is reloaded, or not.
Progress ==
    /\ pc = "progress"
    /\ Goto("reload") \/ Return("abandoned")
    /\ UNCHANGED <<kind, objs, attrs, mine, made, pending, found, seen, calls, others>>

\* prune: everything that is not in use.
Prune ==
    /\ pc = "prune"
    /\ objs' = [i \in Id |-> IF i \in There /\ ~objs[i].used
                             THEN [objs[i] EXCEPT !.life = "gone"] ELSE objs[i]]
    /\ Answered("done")
    /\ UNCHANGED <<kind, attrs, mine, made, pending, found, seen, calls, others>>

-----------------------------------------------------------------------------
(* Other clients                                                           *)

Others ==
    /\ others < MaxOthers
    /\ \/ \E i \in There : objs' = [objs EXCEPT ![i].used = ~@]
       \/ \E i \in There : objs' = [objs EXCEPT ![i].life = "gone"]
       \/ \E i \in There, n \in Name :
             kind = "container" /\ Named(n) = {} /\ objs' = [objs EXCEPT ![i].name = n]
       \/ \E i \in Unmades, n \in Name :
             /\ Unmades # {i} /\ Named(n) = {}
             /\ objs' = [objs EXCEPT ![i] = [name |-> n, life |-> "there", used |-> FALSE]]
    /\ others' = others + 1
    /\ UNCHANGED <<kind, attrs, mine, pc, call, made, pending, found, seen, result, calls>>

Step == \/ Create \/ Privileges \/ Install \/ Made \/ List \/ Inspect \/ Reload \/ Configure
        \/ Switch \/ Rename \/ Remove \/ Upgrade \/ Progress \/ Prune

Next == Get \/ Begin \/ Step \/ Lose \/ Others

Spec == Init /\ [][Next]_vars

-----------------------------------------------------------------------------
(* Properties                                                              *)

\* Every variable has its type.
TypeOK ==
    /\ kind \in Kind
    /\ objs \in [Id -> [name : Name, life : {"none", "there", "gone"}, used : BOOLEAN]]
    /\ attrs \subseteq [id : Id, name : Name, used : BOOLEAN] /\ Cardinality(attrs) <= 1
    /\ mine \subseteq Id /\ Cardinality(mine) = Cardinality(attrs)
    /\ pc \in Op \union {"idle", "made", "inspect", "pull", "apply", "progress"}
    /\ call \in CallType \union {NoCall}
    /\ made \subseteq Id /\ Cardinality(made) <= 1
    /\ pending \subseteq Id /\ found \subseteq Id /\ seen \subseteq Id
    /\ result \in {"none", "done", "lost", "NotFound", "Conflict", "refused", "AttributeError",
                   "abandoned"}
    /\ calls \in 0..MaxCalls /\ others \in 0..MaxOthers

(* The program works on the object it was given, however often it is       *)
(* renamed and its name given to another (the requests carry self.id); the *)
(* kinds that are named by name work on the holder of that very name.      *)
SameObject ==
    [][\A i \in Id : (Switch \/ Rename \/ Remove) /\ objs'[i] # objs[i] =>
          IF T.ref = "id" THEN i \in mine ELSE \E j \in mine : objs[i].name = objs[j].name]_vars

(* NotFound is raised for an operation only when the object the caller was *)
(* given is gone, not when it has another name.                            *)
NotFoundIsGone ==
    pc = "idle" /\ result = "NotFound" /\ call.op \notin {"create", "install", "list"} => mine \cap There = {}

\* create returns the object this very call made, if the kind asks for it by Id.
CreateReturnsOwn ==
    pc = "idle" /\ call.op = "create" /\ result = "done" /\ T.made = "id" => mine = made

\* Every object that was there from the call to the answer is in the list,
\* and nothing that never was there.
ListComplete ==
    pc = "idle" /\ call.op = "list" /\ result = "done" =>
        /\ seen \intersect There \subseteq found
        /\ \A i \in found : objs[i].life # "none"

(* A list fails because an object was removed meanwhile, and never with    *)
(* ignore_removed ("Ignore failures due to missing containers").           *)
ListFails ==
    pc = "idle" /\ call.op = "list" /\ result = "NotFound" =>
        /\ call.style = "strict"
        /\ \E i \in seen : objs[i].life = "gone"

(* A list is right or fails for a reason, while others add and remove:     *)
(* the types, ListComplete and ListFails together.                         *)
ListIsRight == TypeOK /\ ListComplete /\ ListFails

(* "Force removal of volumes that were already removed out of band by the  *)
(* volume driver plugin": the daemon does not refuse a forced removal.     *)
ForceRemoves ==
    pc = "idle" /\ call.op = "remove" /\ call.flag /\ kind = "volume" => result # "Conflict"
=============================================================================
