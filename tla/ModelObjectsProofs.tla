------------------------- MODULE ModelObjectsProofs -------------------------
(***************************************************************************)
(* A model object stays the daemon's object it was made from, for every    *)
(* kind, any number of objects and names, and any number of calls and of   *)
(* steps of others: proofs of what ModelObjects promises.                  *)
(***************************************************************************)
EXTENDS ModelObjects, FiniteSetTheorems, TLAPS

-----------------------------------------------------------------------------
(* The inductive invariant                                                 *)

\* attrs names the object it was first taken from: by its Id, or, for a
\* volume, whose name stands for it, by the name that object has or had.
Owns ==
    \/ attrs = {} /\ mine = {}
    \/ \E a \in [id : Id, name : Name, used : BOOLEAN], m \in Id :
          /\ attrs = {a} /\ mine = {m} /\ objs[m].life # "none"
          /\ kind # "volume" => a.id = m
          /\ kind \in {"volume", "plugin"} => a.name = objs[m].name

\* The step the program is at belongs to its call; operations on an object
\* have one, and only containers are renamed.
Belongs ==
    /\ pc \in Op \ {"reload"} => call.op = pc
    /\ pc = "reload" => call.op \in {"reload", "configure", "switch", "upgrade"}
    /\ pc = "made" => call.op \in {"create", "install"}
    /\ pc = "inspect" => call.op = "list" /\ call.style # "sparse"
    /\ pc = "pull" => call.op = "install"
    /\ pc \in {"apply", "progress"} => call.op = "upgrade"
    /\ call.op \notin {"none", "create", "install", "list", "prune"} => attrs # {}
    /\ call.op = "rename" => kind = "container"

\* What create has made is one object.
MadeOne == made = {} \/ \E i \in Id : made = {i}

\* Listed objects have been made, and what is there is found or still to be inspected.
Listed ==
    /\ pending \subseteq seen /\ found \subseteq seen
    /\ \A i \in seen : objs[i].life # "none"
    /\ pc = "inspect" => seen \intersect There \subseteq found \union pending

\* A call that created something has an object; only calls that name one fail with NotFound.
Attained ==
    /\ pc = "idle" /\ call.op = "create" /\ result = "done" => attrs # {}
    /\ pc = "idle" /\ result = "NotFound" => call.op \notin {"none", "prune"}

Steps == Op \union {"idle", "made", "inspect", "pull", "apply", "progress"}
Results == {"none", "done", "lost", "NotFound", "Conflict", "refused", "AttributeError", "abandoned"}
Object == [name : Name, life : {"none", "there", "gone"}, used : BOOLEAN]
\* TypeOK, but for the sets of at most one element, which Owns and MadeOne bound.
Types ==
    /\ kind \in Kind
    /\ objs \in [Id -> Object]
    /\ pc \in Steps
    /\ call \in CallType \union {NoCall}
    /\ pending \subseteq Id /\ found \subseteq Id /\ seen \subseteq Id
    /\ result \in Results
    /\ calls \in 0..MaxCalls /\ others \in 0..MaxOthers

IInv == /\ Types /\ Owns /\ Belongs /\ MadeOne /\ Listed /\ Attained
        /\ NotFoundIsGone /\ CreateReturnsOwn /\ ListComplete /\ ListFails

-----------------------------------------------------------------------------
(* Kinds and calls                                                         *)

(* What the kinds differ in.                                               *)
LEMMA Traits ==
    ASSUME kind \in Kind
    PROVE  /\ kind \in Kinds /\ T.ref \in {"id", "name"} /\ T.id \in {"id", "name"}
           /\ T.ref = "name" <=> kind \in {"volume", "plugin"}
           /\ T.id = "name" <=> kind = "volume"
           /\ T.made \in {"id", "answer", "name", "none"} /\ (T.made = "id" <=> kind \in {"container", "network"})
           /\ T.lists \subseteq {"sparse", "strict", "tolerant"}
  BY ObjectConstants DEF Kinds, T, Trait, Container, Network, Volume, Image, Secret, Config, Node, Plugin

(* The fields of the program's call.                                       *)
LEMMA Fields ==
    ASSUME Types
    PROVE  /\ call.op \in Op \union {"none"} /\ call.name \in Name
           /\ call.style \in {"sparse", "strict", "tolerant"} /\ call.flag \in BOOLEAN
  <1>1. call \in CallType \/ call = NoCall
    BY DEF Types
  <1>2. CASE call \in CallType
    BY <1>2 DEF CallType
  <1>3. CASE call = NoCall
    BY <1>3, ObjectConstants DEF NoCall
  <1> QED
    BY <1>1, <1>2, <1>3

(* A call that is made has its type, and one on an object has an object.   *)
LEMMA Calls ==
    ASSUME kind \in Kind, NEW c \in Call
    PROVE  /\ c \in CallType /\ c.op \in Op
           /\ c.op \notin {"create", "install", "list", "prune"} => attrs # {}
           /\ c.op = "rename" => kind = "container"
  <1>1. c \in CallType /\ c.op \in Op /\ c.op \in {"create", "list", "reload"} \union T.ops
    BY DEF Call, CallType
  <1>2. c.op \notin {"create", "install", "list", "prune"} => attrs # {}
    BY DEF Call
  <1>3. "rename" \in T.ops => kind = "container"
    BY ObjectConstants DEF Kinds, T, Trait, Container, Network, Volume, Image, Secret, Config, Node, Plugin
  <1> QED
    BY <1>1, <1>2, <1>3

-----------------------------------------------------------------------------
(* How the daemon's objects change                                         *)

(* Made objects stay made, removed ones removed, and only containers get   *)
(* another name.                                                           *)
Evolved ==
    /\ kind' = kind
    /\ objs' \in [Id -> Object]
    /\ \A i \in Id :
          /\ objs[i].life # "none" => objs'[i].life # "none"
          /\ objs[i].life = "gone" => objs'[i].life = "gone"
          /\ objs[i].life # "none" /\ kind # "container" => objs'[i].name = objs[i].name

(* One object is replaced by one that goes on from it.                     *)
LEMMA Replaced ==
    ASSUME objs \in [Id -> Object], kind' = kind, NEW i \in Id, NEW o \in Object,
           objs' = [objs EXCEPT ![i] = o],
           objs[i].life # "none" => o.life # "none",
           objs[i].life = "gone" => o.life = "gone",
           objs[i].life # "none" /\ kind # "container" => o.name = objs[i].name
    PROVE  Evolved
  <1>1. objs' \in [Id -> Object]
    OBVIOUS
  <1>2. \A j \in Id : objs'[j] = IF j = i THEN o ELSE objs[j]
    OBVIOUS
  <1> QED
    BY <1>1, <1>2 DEF Evolved

(* An object that no client ever made.                                     *)
LEMMA UnmadeObject ==
    ASSUME NEW i \in Unmades
    PROVE  i \in Id /\ objs[i].life = "none"
  BY DEF Unmades, Unmade

(* A request changes at most one object, the one it names; it is refused   *)
(* with NotFound only if there is none.                                    *)
Requested(by, next) ==
    /\ UNCHANGED <<kind, attrs, mine, made, pending, found, seen, call, calls, others>>
    /\ pc' \in {"idle", next}
    /\ pc' = "idle" => result' \in {"done", "lost", "NotFound", "Conflict", "AttributeError"}
    /\ pc' # "idle" => result' = result
    /\ pc' = "idle" /\ result' = "NotFound" => Finds(by) = {}
    /\ \A i \in Id : objs'[i] # objs[i] => i \in Finds(by)
    /\ Evolved

(* What a call does that names the object: Switch.                         *)
LEMMA SwitchEffect ==
    ASSUME Types, Belongs, Switch
    PROVE  Requested(T.ref, "reload") /\ pc = "switch"
  <1> DEFINE new(i) == [objs[i] EXCEPT !.used = call.flag]
  <1>0. /\ pc = "switch" /\ objs \in [Id -> Object] /\ call.flag \in BOOLEAN
        /\ UNCHANGED <<kind, attrs, mine, made, pending, found, seen, calls, others>>
    <2>1. objs \in [Id -> Object] /\ call.flag \in BOOLEAN
      BY Fields DEF Types
    <2> QED
      BY <2>1 DEF Switch, Request
  <1>1. CASE Finds(T.ref) = {} /\ Return("NotFound") /\ UNCHANGED objs
    BY <1>0, <1>1 DEF Requested, Return, Evolved
  <1>2. CASE Return("Conflict") /\ UNCHANGED objs
    BY <1>0, <1>2 DEF Requested, Return, Evolved
  <1>3. ASSUME NEW i \in Finds(T.ref), objs' = [objs EXCEPT ![i] = new(i)],
               Return("done") \/ Goto("reload") \/ Return("lost")
        PROVE  Requested(T.ref, "reload")
    <2>1. PICK o : o = new(i)
      OBVIOUS
    <2>2. i \in Id /\ o \in Object /\ o.life = objs[i].life /\ o.name = objs[i].name
      BY <1>0, <2>1 DEF Finds, There, Object
    <2>3. Evolved
      BY <1>0, <1>3, <2>1, <2>2, Replaced
    <2>4. \A j \in Id : objs'[j] # objs[j] => j = i
      BY <1>0, <1>3, <2>2
    <2> QED
      BY <1>0, <1>3, <2>3, <2>4 DEF Requested, Return, Goto
  <1>4. \/ Finds(T.ref) = {} /\ Return("NotFound") /\ UNCHANGED objs
        \/ Return("Conflict") /\ UNCHANGED objs
        \/ \E i \in Finds(T.ref) : /\ objs' = [objs EXCEPT ![i] = new(i)]
                                   /\ Return("done") \/ Goto("reload") \/ Return("lost")
    <2>1. \A i \in Finds(T.ref) : i \in Id
      BY DEF Finds, There
    <2> QED
      BY <2>1 DEF Switch, Request
  <1> QED
    BY <1>0, <1>1, <1>2, <1>3, <1>4

(* What a call does that names the object: Rename.                         *)
LEMMA RenameEffect ==
    ASSUME Types, Belongs, Rename
    PROVE  Requested(T.ref, "idle") /\ pc = "rename"
  <1> DEFINE new(i) == [objs[i] EXCEPT !.name = call.name]
  <1>0. /\ pc = "rename" /\ objs \in [Id -> Object] /\ call.name \in Name /\ (pc = "rename" => kind = "container")
        /\ UNCHANGED <<kind, attrs, mine, made, pending, found, seen, calls, others>>
    <2>1. objs \in [Id -> Object] /\ call.name \in Name /\ (pc = "rename" => kind = "container")
      BY Fields DEF Types, Belongs, Op
    <2> QED
      BY <2>1 DEF Rename, Request
  <1>1. CASE Finds(T.ref) = {} /\ Return("NotFound") /\ UNCHANGED objs
    BY <1>0, <1>1 DEF Requested, Return, Evolved
  <1>2. CASE Return("Conflict") /\ UNCHANGED objs
    BY <1>0, <1>2 DEF Requested, Return, Evolved
  <1>3. ASSUME NEW i \in Finds(T.ref), objs' = [objs EXCEPT ![i] = new(i)],
               Return("done") \/ Return("lost")
        PROVE  Requested(T.ref, "idle")
    <2>1. PICK o : o = new(i)
      OBVIOUS
    <2>2. i \in Id /\ o \in Object /\ o.life = objs[i].life
      BY <1>0, <2>1 DEF Finds, There, Object
    <2>3. Evolved
      BY <1>0, <1>3, <2>1, <2>2, Replaced
    <2>4. \A j \in Id : objs'[j] # objs[j] => j = i
      BY <1>0, <1>3, <2>2
    <2> QED
      BY <1>0, <1>3, <2>3, <2>4 DEF Requested, Return, Goto
  <1>4. \/ Finds(T.ref) = {} /\ Return("NotFound") /\ UNCHANGED objs
        \/ Return("Conflict") /\ UNCHANGED objs
        \/ \E i \in Finds(T.ref) : /\ objs' = [objs EXCEPT ![i] = new(i)]
                                   /\ Return("done") \/ Return("lost")
    <2>1. \A i \in Finds(T.ref) : i \in Id
      BY DEF Finds, There
    <2> QED
      BY <2>1 DEF Rename, Request
  <1> QED
    BY <1>0, <1>1, <1>2, <1>3, <1>4

(* What a call does that names the object: Remove.                         *)
LEMMA RemoveEffect ==
    ASSUME Types, Belongs, Remove
    PROVE  Requested(T.ref, "idle") /\ pc = "remove"
  <1> DEFINE new(i) == [objs[i] EXCEPT !.life = "gone"]
  <1>0. /\ pc = "remove" /\ objs \in [Id -> Object]
        /\ UNCHANGED <<kind, attrs, mine, made, pending, found, seen, calls, others>>
    <2>1. objs \in [Id -> Object]
      BY DEF Types
    <2> QED
      BY <2>1 DEF Remove, Request
  <1>1. CASE Finds(T.ref) = {} /\ Return("NotFound") /\ UNCHANGED objs
    BY <1>0, <1>1 DEF Requested, Return, Evolved
  <1>2. CASE Return("Conflict") /\ UNCHANGED objs
    BY <1>0, <1>2 DEF Requested, Return, Evolved
  <1>3. ASSUME NEW i \in Finds(T.ref), objs' = [objs EXCEPT ![i] = new(i)],
               Return("done") \/ Return("lost")
        PROVE  Requested(T.ref, "idle")
    <2>1. PICK o : o = new(i)
      OBVIOUS
    <2>2. i \in Id /\ o \in Object /\ o.life = "gone" /\ o.name = objs[i].name
      BY <1>0, <2>1 DEF Finds, There, Object
    <2>3. Evolved
      BY <1>0, <1>3, <2>1, <2>2, Replaced
    <2>4. \A j \in Id : objs'[j] # objs[j] => j = i
      BY <1>0, <1>3, <2>2
    <2> QED
      BY <1>0, <1>3, <2>3, <2>4 DEF Requested, Return, Goto
  <1>4. \/ Finds(T.ref) = {} /\ Return("NotFound") /\ UNCHANGED objs
        \/ Return("Conflict") /\ UNCHANGED objs
        \/ \E i \in Finds(T.ref) : /\ objs' = [objs EXCEPT ![i] = new(i)]
                                   /\ Return("done") \/ Return("lost")
    <2>1. \A i \in Finds(T.ref) : i \in Id
      BY DEF Finds, There
    <2> QED
      BY <2>1 DEF Remove, Request
  <1> QED
    BY <1>0, <1>1, <1>2, <1>3, <1>4

(* What a call does that names the object: Configure.                        *)
LEMMA ConfigureEffect ==
    ASSUME Types, Belongs, Configure
    PROVE  Requested(T.ref, "reload") /\ pc = "configure"
  <1> DEFINE new(i) == objs[i]
  <1>0. /\ pc = "configure" /\ objs \in [Id -> Object]
        /\ UNCHANGED <<kind, attrs, mine, made, pending, found, seen, calls, others>>
    <2>1. objs \in [Id -> Object]
      BY DEF Types
    <2> QED
      BY <2>1 DEF Configure, Request
  <1>1. CASE Finds(T.ref) = {} /\ Return("NotFound") /\ UNCHANGED objs
    BY <1>0, <1>1 DEF Requested, Return, Evolved
  <1>2. CASE Return("Conflict") /\ UNCHANGED objs
    BY <1>0, <1>2 DEF Requested, Return, Evolved
  <1>3. ASSUME NEW i \in Finds(T.ref), objs' = [objs EXCEPT ![i] = new(i)],
               Return("done") \/ Goto("reload") \/ Return("lost")
        PROVE  Requested(T.ref, "reload")
    <2>1. PICK o : o = new(i)
      OBVIOUS
    <2>2. i \in Id /\ o \in Object /\ o.life = objs[i].life /\ o.name = objs[i].name
      BY <1>0, <2>1 DEF Finds, There, Object
    <2>3. Evolved
      BY <1>0, <1>3, <2>1, <2>2, Replaced
    <2>4. \A j \in Id : objs'[j] # objs[j] => j = i
      BY <1>0, <1>3, <2>2
    <2> QED
      BY <1>0, <1>3, <2>3, <2>4 DEF Requested, Return, Goto
  <1>4. \/ Finds(T.ref) = {} /\ Return("NotFound") /\ UNCHANGED objs
        \/ Return("Conflict") /\ UNCHANGED objs
        \/ \E i \in Finds(T.ref) : /\ objs' = [objs EXCEPT ![i] = new(i)]
                                   /\ Return("done") \/ Goto("reload") \/ Return("lost")
    <2>1. \A i \in Finds(T.ref) : i \in Id
      BY DEF Finds, There
    <2> QED
      BY <2>1 DEF Configure, Request
  <1> QED
    BY <1>0, <1>1, <1>2, <1>3, <1>4

(* What a call does that names the object: Upgrade.                        *)
LEMMA UpgradeEffect ==
    ASSUME Types, Belongs, Upgrade
    PROVE  Requested(T.ref, "progress") /\ pc = "apply"
  <1> DEFINE new(i) == objs[i]
  <1>0. /\ pc = "apply" /\ objs \in [Id -> Object]
        /\ UNCHANGED <<kind, attrs, mine, made, pending, found, seen, calls, others>>
    <2>1. objs \in [Id -> Object]
      BY DEF Types
    <2> QED
      BY <2>1 DEF Upgrade, Request
  <1>1. CASE Finds(T.ref) = {} /\ Return("NotFound") /\ UNCHANGED objs
    BY <1>0, <1>1 DEF Requested, Return, Evolved
  <1>2. CASE Return("Conflict") /\ UNCHANGED objs
    BY <1>0, <1>2 DEF Requested, Return, Evolved
  <1>3. ASSUME NEW i \in Finds(T.ref), objs' = [objs EXCEPT ![i] = new(i)],
               Return("done") \/ Goto("progress") \/ Return("lost")
        PROVE  Requested(T.ref, "progress")
    <2>1. PICK o : o = new(i)
      OBVIOUS
    <2>2. i \in Id /\ o \in Object /\ o.life = objs[i].life /\ o.name = objs[i].name
      BY <1>0, <2>1 DEF Finds, There, Object
    <2>3. Evolved
      BY <1>0, <1>3, <2>1, <2>2, Replaced
    <2>4. \A j \in Id : objs'[j] # objs[j] => j = i
      BY <1>0, <1>3, <2>2
    <2> QED
      BY <1>0, <1>3, <2>3, <2>4 DEF Requested, Return, Goto
  <1>4. \/ Finds(T.ref) = {} /\ Return("NotFound") /\ UNCHANGED objs
        \/ Return("Conflict") /\ UNCHANGED objs
        \/ \E i \in Finds(T.ref) : /\ objs' = [objs EXCEPT ![i] = new(i)]
                                   /\ Return("done") \/ Goto("progress") \/ Return("lost")
    <2>1. \A i \in Finds(T.ref) : i \in Id
      BY DEF Finds, There
    <2> QED
      BY <2>1 DEF Upgrade, Request
  <1> QED
    BY <1>0, <1>1, <1>2, <1>3, <1>4

\* An operation on the object is one of five, each naming it by T.ref.
Operate == Configure \/ Switch \/ Rename \/ Remove \/ Upgrade
Then == IF pc \in {"configure", "switch"} THEN "reload" ELSE IF pc = "apply" THEN "progress" ELSE "idle"

(* What any of the five does.                                              *)
LEMMA OperateEffect ==
    ASSUME Types, Belongs, Operate
    PROVE  /\ Requested(T.ref, Then) /\ pc \in {"configure", "switch", "rename", "remove", "apply"}
           /\ call.op \in {"configure", "switch", "rename", "remove", "upgrade"}
  BY ConfigureEffect, SwitchEffect, RenameEffect, RemoveEffect, UpgradeEffect
     DEF Operate, Then, Belongs, Op

(* No step undoes what became of an object.                                *)
LEMMA Evolution ==
    ASSUME Types, Belongs, Next
    PROVE  Evolved
  <1>0. objs \in [Id -> Object] /\ call.name \in Name
    BY Fields DEF Types
  <1>1. CASE UNCHANGED <<kind, objs>>
    BY <1>0, <1>1 DEF Evolved
  <1>2. CASE Operate
    BY <1>2, OperateEffect DEF Requested
  <1>3. ASSUME NEW i \in Unmades, NEW o \in Object, UNCHANGED kind, objs' = [objs EXCEPT ![i] = o]
        PROVE  Evolved
    BY <1>0, <1>3, UnmadeObject, Replaced
  <1>4. CASE Create
    <2>1. kind' = kind /\ (objs' = objs \/ \E i \in Unmades :
             objs' = [objs EXCEPT ![i] = [name |-> call.name, life |-> "there", used |-> FALSE]])
      BY <1>4 DEF Create
    <2>2. [name |-> call.name, life |-> "there", used |-> FALSE] \in Object
      BY <1>0 DEF Object
    <2> QED
      BY <1>1, <1>3, <2>1, <2>2
  <1>5. CASE Install
    <2>1. kind' = kind /\ (objs' = objs \/ \E i \in Unmades :
             objs' = [objs EXCEPT ![i].name = call.name, ![i].life = "there"])
      BY <1>5 DEF Install
    <2>2. ASSUME NEW i \in Unmades, objs' = [objs EXCEPT ![i].name = call.name, ![i].life = "there"]
          PROVE  Evolved
      <3>1. PICK o : o = [objs[i] EXCEPT !.name = call.name, !.life = "there"]
        OBVIOUS
      <3>2. o \in Object /\ objs' = [objs EXCEPT ![i] = o]
        BY <1>0, <2>2, <3>1, UnmadeObject DEF Object
      <3> QED
        BY <1>3, <2>1, <3>2
    <2> QED
      BY <1>1, <2>1, <2>2
  <1>6. CASE Prune
    <2>1. /\ kind' = kind
          /\ objs' = [i \in Id |-> IF i \in There /\ ~objs[i].used
                                   THEN [objs[i] EXCEPT !.life = "gone"] ELSE objs[i]]
      BY <1>6 DEF Prune
    <2>2. \A i \in Id : [objs[i] EXCEPT !.life = "gone"] \in Object
      BY <1>0 DEF Object
    <2>3. objs' \in [Id -> Object]
      BY <1>0, <2>1, <2>2
    <2>4. \A i \in Id : /\ objs'[i] = objs[i] \/ (i \in There /\ objs'[i].life = "gone")
                        /\ objs'[i].name = objs[i].name
      BY <1>0, <2>1 DEF Object
    <2> QED
      BY <2>1, <2>3, <2>4 DEF Evolved, There
  <1>7. CASE Others
    <2>0. kind' = kind
      BY <1>7 DEF Others
    <2>1. ASSUME NEW i \in There, NEW o \in Object, objs' = [objs EXCEPT ![i] = o], o.life # "none",
                 kind = "container" \/ o.name = objs[i].name
          PROVE  Evolved
      BY <1>0, <2>0, <2>1, Replaced DEF There
    <2>2. ASSUME NEW i \in There, objs' = [objs EXCEPT ![i].used = ~@]
          PROVE  Evolved
      <3>1. PICK o : o = [objs[i] EXCEPT !.used = ~@]
        OBVIOUS
      <3>2. objs[i] \in Object
        BY <1>0 DEF There
      <3>3. o \in Object /\ o.name = objs[i].name /\ o.life = objs[i].life
        BY <3>1, <3>2 DEF Object
      <3>4. objs' = [objs EXCEPT ![i] = o]
        BY <2>2, <3>1
      <3> QED
        BY <2>1, <3>3, <3>4 DEF There
    <2>3. ASSUME NEW i \in There, objs' = [objs EXCEPT ![i].life = "gone"]
          PROVE  Evolved
      <3>1. PICK o : o = [objs[i] EXCEPT !.life = "gone"]
        OBVIOUS
      <3>2. objs[i] \in Object
        BY <1>0 DEF There
      <3>3. o \in Object /\ o.name = objs[i].name /\ o.life = "gone" /\ objs' = [objs EXCEPT ![i] = o]
        BY <2>3, <3>1, <3>2 DEF Object
      <3> QED
        BY <2>1, <3>3
    <2>4. ASSUME NEW i \in There, NEW n \in Name, kind = "container", objs' = [objs EXCEPT ![i].name = n]
          PROVE  Evolved
      <3>1. PICK o : o = [objs[i] EXCEPT !.name = n]
        OBVIOUS
      <3>2. objs[i] \in Object
        BY <1>0 DEF There
      <3>3. o \in Object /\ o.life = objs[i].life /\ objs' = [objs EXCEPT ![i] = o]
        BY <2>4, <3>1, <3>2 DEF Object
      <3> QED
        BY <2>1, <2>4, <3>3 DEF There
    <2>5. ASSUME NEW i \in Unmades, NEW n \in Name,
                 objs' = [objs EXCEPT ![i] = [name |-> n, life |-> "there", used |-> FALSE]]
          PROVE  Evolved
      <3>1. [name |-> n, life |-> "there", used |-> FALSE] \in Object
        BY DEF Object
      <3> QED
        BY <1>3, <2>0, <2>5, <3>1
    <2> QED
      BY <1>7, <2>2, <2>3, <2>4, <2>5 DEF Others
  <1> QED
    BY <1>1, <1>2, <1>4, <1>5, <1>6, <1>7
       DEF Next, Step, Operate, Get, Begin, Lose, Made, List, Inspect, Reload, Privileges, Progress

-----------------------------------------------------------------------------
(* The object                                                              *)

(* The program keeps the object it has.                                    *)
LEMMA OwnsKept ==
    ASSUME Owns, Evolved, UNCHANGED <<attrs, mine>>
    PROVE  Owns'
  BY DEF Owns, Evolved

(* ... or takes another one, as the daemon has it.                         *)
LEMMA OwnsTaken ==
    ASSUME NEW i \in Id, NEW a \in [id : Id, name : Name, used : BOOLEAN],
           a.id = i, a.name = objs'[i].name, objs'[i].life # "none",
           attrs' = {a}, mine' = {i}
    PROVE  Owns'
  <1>1. /\ attrs' = {a} /\ mine' = {i} /\ objs'[i].life # "none"
        /\ kind' # "volume" => a.id = i
        /\ kind' \in {"volume", "plugin"} => a.name = objs'[i].name
    OBVIOUS
  <1> QED
    BY <1>1 DEF Owns

(* An object that is there is taken as it is.                              *)
LEMMA SnapshotTaken ==
    ASSUME objs \in [Id -> Object], UNCHANGED objs, NEW i \in There,
           attrs' = {Snapshot(i)}, mine' = {i}
    PROVE  Owns'
  <1>1. PICK a : a = Snapshot(i)
    OBVIOUS
  <1>2. i \in Id /\ objs[i] \in Object /\ objs[i].life = "there"
    BY DEF There
  <1>3. a \in [id : Id, name : Name, used : BOOLEAN] /\ a.id = i /\ a.name = objs[i].name
    BY <1>1, <1>2 DEF Snapshot, Object
  <1> QED
    BY <1>1, <1>2, <1>3, OwnsTaken

(* Reloading finds the object the program has, and nothing else, unless it *)
(* is a volume, which its name stands for.                                 *)
LEMMA Found ==
    ASSUME Types, Owns, NEW i \in Finds(T.id)
    PROVE  /\ i \in There /\ attrs # {}
           /\ \A m \in mine : /\ kind # "volume" => i = m
                              /\ kind = "volume" => objs[i].name = objs[m].name
  <1>1. T.id \in {"id", "name"} /\ (T.id = "name" <=> kind = "volume")
    BY Traits DEF Types
  <1>2. i \in There
    BY DEF Finds
  <1>3. PICK a \in attrs : IF T.id = "id" THEN i = a.id ELSE objs[i].name = a.name
    BY DEF Finds
  <1>4. PICK m \in Id : /\ attrs = {a} /\ mine = {m}
                        /\ kind # "volume" => a.id = m
                        /\ kind \in {"volume", "plugin"} => a.name = objs[m].name
    BY <1>3 DEF Owns
  <1>5. CASE kind = "volume"
    BY <1>1, <1>2, <1>3, <1>4, <1>5
  <1>6. CASE kind # "volume"
    BY <1>1, <1>2, <1>3, <1>4, <1>6
  <1> QED
    BY <1>5, <1>6

(* The program's object is not there if a request does not find it.        *)
LEMMA NotThere ==
    ASSUME Types, Owns, Finds(T.id) = {} \/ Finds(T.ref) = {}
    PROVE  mine \intersect There = {}
  <1>1. /\ T.id \in {"id", "name"} /\ T.ref \in {"id", "name"}
        /\ T.id = "name" <=> kind = "volume"
        /\ T.ref = "name" <=> kind \in {"volume", "plugin"}
    BY Traits DEF Types
  <1>2. CASE mine = {}
    BY <1>2
  <1>3. ASSUME NEW a \in attrs, NEW m \in Id, attrs = {a}, mine = {m},
               kind # "volume" => a.id = m,
               kind \in {"volume", "plugin"} => a.name = objs[m].name
        PROVE  m \notin There
    <2>1. a.id = m /\ m \in There => m \in Finds("id")
      BY <1>3 DEF Finds
    <2>2. a.name = objs[m].name /\ m \in There => m \in Finds("name")
      BY <1>3 DEF Finds
    <2>3. CASE Finds(T.id) = {}
      BY <1>1, <1>3, <2>1, <2>2, <2>3
    <2>4. CASE Finds(T.ref) = {}
      BY <1>1, <1>3, <2>1, <2>2, <2>4
    <2> QED
      BY <2>3, <2>4
  <1> QED
    BY <1>2, <1>3 DEF Owns

(* No step loses the program's object or mistakes another for it.          *)
LEMMA Owned ==
    ASSUME Types, Belongs, Owns, Next
    PROVE  Owns'
  <1>0. Evolved /\ objs \in [Id -> Object] /\ call.name \in Name
    BY Evolution, Fields DEF Types
  <1>1. CASE UNCHANGED <<attrs, mine>>
    BY <1>0, <1>1, OwnsKept
  <1>2. CASE Operate
    BY <1>1, <1>2, OperateEffect DEF Requested
  <1>3. CASE Get
    <2>1. \E i \in There : attrs' = {Snapshot(i)} /\ mine' = {i} /\ UNCHANGED objs
      BY <1>3 DEF Get, Named
    <2> QED
      BY <1>0, <2>1, SnapshotTaken
  <1>4. CASE Create
    <2>1. CASE \E i \in Named(call.name) : attrs' = {Snapshot(i)} /\ mine' = {i} /\ UNCHANGED objs
      <3>1. \E i \in There : attrs' = {Snapshot(i)} /\ mine' = {i} /\ UNCHANGED objs
        BY <2>1 DEF Named
      <3> QED
        BY <1>0, <3>1, SnapshotTaken
    <2>2. ASSUME NEW i \in Unmades, attrs' = {[id |-> i, name |-> call.name, used |-> FALSE]}, mine' = {i},
                 objs' = [objs EXCEPT ![i] = [name |-> call.name, life |-> "there", used |-> FALSE]]
          PROVE  Owns'
      <3>1. PICK a : a = [id |-> i, name |-> call.name, used |-> FALSE]
        OBVIOUS
      <3>2. /\ i \in Id /\ a \in [id : Id, name : Name, used : BOOLEAN] /\ a.id = i /\ a.name = call.name
            /\ attrs' = {a} /\ mine' = {i}
        BY <1>0, <2>2, <3>1, UnmadeObject
      <3>3. objs'[i].name = call.name /\ objs'[i].life = "there"
        BY <1>0, <2>2, UnmadeObject
      <3> QED
        BY <3>2, <3>3, OwnsTaken
    <2> QED
      BY <1>1, <1>4, <2>1, <2>2 DEF Create
  <1>5. CASE Made
    <2>1. \/ UNCHANGED <<attrs, mine>>
          \/ \E i \in There : attrs' = {Snapshot(i)} /\ mine' = {i} /\ UNCHANGED objs
      BY <1>5 DEF Made, Named
    <2> QED
      BY <1>0, <1>1, <2>1, SnapshotTaken
  <1>6. CASE Reload
    <2>1. CASE UNCHANGED <<attrs, mine>>
      BY <1>1, <2>1
    <2>2. ASSUME NEW i \in Finds(T.id), attrs' = {Snapshot(i)}, UNCHANGED <<kind, mine, objs>>
          PROVE  Owns'
      <3>1. /\ i \in There /\ i \in Id /\ objs[i] \in Object
            /\ \A m \in mine : /\ kind # "volume" => i = m
                               /\ kind = "volume" => objs[i].name = objs[m].name
        BY <1>0, Found DEF There
      <3>2. PICK a : a = Snapshot(i)
        OBVIOUS
      <3>3. a \in [id : Id, name : Name, used : BOOLEAN] /\ a.id = i /\ a.name = objs[i].name
        BY <3>1, <3>2 DEF Snapshot, Object
      <3>4. PICK m \in Id : mine = {m} /\ objs[m].life # "none"
        BY Found, <2>2 DEF Owns
      <3>5. attrs' = {a} /\ mine' = {m} /\ objs' = objs /\ kind' = kind
        BY <2>2, <3>2, <3>4
      <3>6. /\ objs'[m].life # "none"
            /\ kind' # "volume" => a.id = m
            /\ kind' \in {"volume", "plugin"} => a.name = objs'[m].name
        <4>1. (kind # "volume" => i = m) /\ (kind = "volume" => objs[i].name = objs[m].name)
          BY <3>1, <3>4
        <4>2. CASE kind = "volume"
          BY <3>3, <3>4, <3>5, <4>1, <4>2
        <4>3. CASE kind # "volume"
          BY <3>3, <3>4, <3>5, <4>1, <4>3
        <4> QED
          BY <4>2, <4>3
      <3> QED
        BY <3>3, <3>5, <3>6 DEF Owns
    <2> QED
      BY <1>6, <2>1, <2>2 DEF Reload
  <1> QED
    BY <1>1, <1>2, <1>3, <1>4, <1>5, <1>6
       DEF Next, Step, Operate, Begin, Lose, Install, List, Inspect, Privileges, Progress, Prune, Others

-----------------------------------------------------------------------------
(* The call and its results                                                *)

(* No step makes a variable of the wrong type.                             *)
LEMMA Typed ==
    ASSUME Types, Belongs, Listed, MadeOne, Next
    PROVE  Types'
  <1>0. /\ Evolved /\ There \subseteq Id
        /\ (call \in CallType \/ call = NoCall) /\ call \in CallType \union {NoCall}
        /\ kind \in Kind /\ objs \in [Id -> Object]
        /\ pc \in Steps
        /\ pending \subseteq Id /\ found \subseteq Id /\ seen \subseteq Id
        /\ result \in Results
        /\ calls \in 0..MaxCalls /\ others \in 0..MaxOthers /\ MaxCalls \in Nat /\ MaxOthers \in Nat
    BY Evolution, ObjectConstants DEF Types, There
  <1>1. kind' \in Kind /\ objs' \in [Id -> Object]
    BY <1>0 DEF Evolved
  <1>2. calls' \in 0..MaxCalls /\ others' \in 0..MaxOthers
    <2>1. calls' = calls \/ (calls' = calls + 1 /\ calls < MaxCalls)
      BY OperateEffect DEF Requested, Operate, Next, Step, Get, Begin, Create, Install, Made, List,
                           Inspect, Reload,
            Lose, Privileges, Progress, Prune, Others
    <2>2. others' = others \/ (others' = others + 1 /\ others < MaxOthers)
      BY OperateEffect DEF Requested, Operate, Next, Step, Get, Begin, Create, Install, Made, List,
                           Inspect, Reload,
            Lose, Privileges, Progress, Prune, Others
    <2> QED
      BY <1>0, <2>1, <2>2
  <1>3. pending' \subseteq Id /\ found' \subseteq Id /\ seen' \subseteq Id
    BY <1>0, OperateEffect DEF Requested, Operate, Next, Step, Get, Begin, Create, Install, Made, List,
                               Inspect, Reload,
          Lose, Privileges, Progress, Prune, Others
  <1>4. call' \in CallType \union {NoCall}
    <2>1. CASE Begin
      BY <1>0, <2>1, Calls DEF Begin
    <2>2. CASE Operate
      BY <1>0, <2>2, OperateEffect DEF Requested
    <2>3. CASE ~Begin /\ ~Operate
      <3>1. call' = call
        BY <2>3 DEF Operate, Next, Step, Get, Create, Install, Made, List, Inspect, Reload,
              Lose, Privileges, Progress, Prune, Others, Goto, Return, Answered
      <3> QED
        BY <1>0, <3>1
    <2> QED
      BY <2>1, <2>2, <2>3
  <1>5. pc' \in Steps
    <2>1. CASE Begin
      BY <1>0, <2>1, Calls DEF Begin, Steps
    <2>2. CASE Operate
      BY <1>0, <2>2, OperateEffect DEF Requested, Then, Op, Steps
    <2>3. CASE ~Begin /\ ~Operate
      <3>1. pc' \in {pc, "idle", "made", "inspect", "reload", "pull", "apply"}
        BY <2>3 DEF Operate, Next, Step, Get, Create, Install, Made, List, Inspect, Reload,
              Lose, Privileges, Progress, Prune, Others, Goto, Return, Answered
      <3> QED
        BY <1>0, <3>1 DEF Op, Steps
    <2> QED
      BY <2>1, <2>2, <2>3
  <1>6. result' \in Results
    <2>1. CASE Operate
      BY <1>0, <2>1, OperateEffect DEF Requested, Then, Results
    <2>2. CASE ~Operate
      <3>1. result' \in {result} \union Results
        BY <2>2 DEF Operate, Next, Step, Get, Begin, Create, Install, Made, List, Inspect, Reload,
              Lose, Privileges, Progress, Prune, Others, Goto, Return, Answered, Results
      <3> QED
        BY <1>0, <3>1
    <2> QED
      BY <2>1, <2>2
  <1> QED
    BY <1>1, <1>2, <1>3, <1>4, <1>5, <1>6 DEF Types

(* What create made is one object.                                         *)
LEMMA OneMade ==
    ASSUME Types, Belongs, MadeOne, Next
    PROVE  MadeOne'
  <1>1. made' = made \/ made' = {} \/ \E i \in Id : made' = {i}
    BY OperateEffect DEF Requested, Operate, Next, Step, Get, Begin, Create, Install, Made, List, Inspect,
                         Reload,
          Lose, Privileges, Progress, Prune, Others, Unmades
  <1> QED
    BY <1>1 DEF MadeOne

(* A step belongs to the call that is made.                                *)
LEMMA Belonged ==
    ASSUME Types, Belongs, Owns, Next
    PROVE  Belongs'
  <1>0. kind \in Kind /\ pc \in Steps
    BY DEF Types
  <1>1. CASE Get
    BY <1>1, <1>0 DEF Get, Belongs, Op, Return, Goto, Answered
  <1>2. CASE Begin
    <2>1. PICK c \in Call : call' = c /\ pc' = c.op /\ UNCHANGED <<attrs, kind>>
      BY <1>2 DEF Begin
    <2> QED
      BY <2>1, Calls, <1>0 DEF Belongs, Op
  <1>3. CASE Create
    <2>1. /\ call' = call /\ kind' = kind /\ pc' \in {"idle", "made"}
          /\ attrs' = attrs \/ attrs' # {}
      BY <1>3 DEF Create, Return, Goto, Answered
    <2> QED
      BY <1>3, <1>0, <2>1 DEF Belongs, Op, Create
  <1>4. CASE Install
    BY <1>4, <1>0 DEF Install, Belongs, Op, Return, Goto, Answered
  <1>5. CASE Made
    <2>1. call' = call /\ kind' = kind /\ pc' = "idle" /\ (attrs' = attrs \/ attrs' # {})
      BY <1>5 DEF Made, Return, Goto, Answered
    <2> QED
      BY <1>5, <1>0, <2>1 DEF Belongs, Op
  <1>6. CASE List
    <2>1. UNCHANGED <<call, kind, attrs>> /\ pc = "list"
      BY <1>6 DEF List, Return, Goto, Answered
    <2>2. pc' = "idle" \/ (pc' = "inspect" /\ call.style # "sparse")
      BY <1>6 DEF List, Return, Goto, Answered
    <2> QED
      BY <1>6, <1>0, <2>1, <2>2 DEF Belongs, Op
  <1>7. CASE Inspect
    <2>1. UNCHANGED <<call, kind, attrs>> /\ pc = "inspect" /\ pc' \in {"idle", "inspect"}
      BY <1>7 DEF Inspect, Return, Goto, Answered
    <2> QED
      BY <1>7, <1>0, <2>1 DEF Belongs, Op
  <1>8. CASE Reload
    <2>1. UNCHANGED <<call, kind>> /\ pc' = "idle" /\ (attrs' = attrs \/ attrs' # {})
      BY <1>8 DEF Reload, Return, Goto, Answered
    <2> QED
      BY <1>8, <1>0, <2>1 DEF Belongs, Op
  <1>9. CASE Operate
    BY <1>9, <1>0, OperateEffect DEF Requested, Then, Belongs, Op
  <1>10. CASE Lose
    BY <1>10, <1>0 DEF Lose, Belongs, Op, Return, Goto, Answered
  <1>11. CASE Progress \/ Privileges
    BY <1>11, <1>0 DEF Progress, Privileges, Belongs, Op, Return, Goto, Answered
  <1>12. CASE Prune
    BY <1>12, <1>0 DEF Prune, Belongs, Op, Return, Goto, Answered
  <1>13. CASE Others
    BY <1>13, <1>0 DEF Others, Belongs, Op, Return, Goto, Answered
  <1> QED
    BY <1>1, <1>2, <1>3, <1>4, <1>5, <1>6, <1>7, <1>8, <1>9, <1>10, <1>11, <1>12, <1>13
       DEF Next, Step, Operate

(* The listed objects that were there when the daemon listed them are made. *)
LEMMA ListedKept ==
    ASSUME Types, Listed, Evolved, UNCHANGED <<pending, found, seen>>, pc' = "inspect" => pc = "inspect"
    PROVE  Listed'
  <1>1. \A i \in seen : i \in Id /\ objs[i] \in Object /\ objs'[i] \in Object /\ objs[i].life # "none"
    BY DEF Types, Listed, Evolved
  <1>2. \A i \in seen : /\ objs'[i].life # "none"
                        /\ objs'[i].life = "there" => objs[i].life = "there"
    BY <1>1 DEF Evolved, Object
  <1>3. seen \intersect There' \subseteq seen \intersect There
    BY <1>1, <1>2 DEF There
  <1> QED
    BY <1>2, <1>3 DEF Listed

(* A list misses nothing, and has nothing that was never made.             *)
LEMMA Listing ==
    ASSUME Types, Belongs, Listed, Next
    PROVE  Listed'
  <1>0. Evolved /\ kind \in Kind
    BY Evolution DEF Types
  <1>1. CASE Get
    <2>1. UNCHANGED <<pending, found, seen>> /\ (pc' = "inspect" => pc = "inspect")
      BY <1>1 DEF Get, Return, Goto, Answered
    <2> QED
      BY <1>0, <2>1, ListedKept
  <1>2. CASE Begin
    <2>1. /\ pending' = {} /\ found' = {} /\ seen' = There /\ objs' = objs /\ pc' \in Op
      BY <1>2, <1>0, Calls DEF Begin
    <2> QED
      BY <2>1 DEF Listed, There, Op
  <1>3. CASE Create
    <2>1. UNCHANGED <<pending, found, seen>> /\ (pc' = "inspect" => pc = "inspect")
      BY <1>3 DEF Create, Return, Goto, Answered
    <2> QED
      BY <1>0, <2>1, ListedKept
  <1>4. CASE Install
    <2>1. UNCHANGED <<pending, found, seen>> /\ (pc' = "inspect" => pc = "inspect")
      BY <1>4 DEF Install, Return, Goto, Answered
    <2> QED
      BY <1>0, <2>1, ListedKept
  <1>5. CASE Made
    <2>1. UNCHANGED <<pending, found, seen>> /\ (pc' = "inspect" => pc = "inspect")
      BY <1>5 DEF Made, Return, Goto, Answered
    <2> QED
      BY <1>0, <2>1, ListedKept
  <1>6. CASE List
    <2>1. /\ objs' = objs /\ seen' = seen \union There /\ pc = "list"
          /\ \/ found' = There /\ pending' = pending /\ pc' = "idle"
             \/ pending' = There /\ found' = found
      BY <1>6 DEF List, Return, Goto, Answered
    <2>2. There' = There
      BY <2>1 DEF There
    <2>3. \A i \in seen' : objs'[i].life # "none"
      BY <2>1 DEF Listed, There
    <2>4. pc' = "inspect" => seen' \intersect There' \subseteq found' \union pending'
      BY <2>1, <2>2
    <2> QED
      BY <2>1, <2>3, <2>4 DEF Listed
  <1>7. CASE Inspect
    <2>1. CASE pending = {}
      <3>1. UNCHANGED <<pending, found, seen>> /\ pc' = "idle"
        BY <1>7, <2>1 DEF Inspect, Return, Goto, Answered
      <3> QED
        BY <1>0, <3>1, ListedKept
    <2>2. ASSUME NEW i \in pending, pending' = pending \ {i}, found' = found \union ({i} \intersect There),
                 UNCHANGED <<objs, seen>>, pc = "inspect"
          PROVE  Listed'
      <3>1. There' = There
        BY <2>2 DEF There
      <3> QED
        BY <2>2, <3>1 DEF Listed
    <2> QED
      BY <1>7, <2>1, <2>2 DEF Inspect
  <1>8. CASE Reload
    <2>1. UNCHANGED <<pending, found, seen>> /\ (pc' = "inspect" => pc = "inspect")
      BY <1>8 DEF Reload, Return, Goto, Answered
    <2> QED
      BY <1>0, <2>1, ListedKept
  <1>9. CASE Operate
    <2>1. UNCHANGED <<pending, found, seen>> /\ (pc' = "inspect" => pc = "inspect")
      BY <1>9, OperateEffect DEF Requested, Then
    <2> QED
      BY <1>0, <2>1, ListedKept
  <1>10. CASE Lose
    <2>1. UNCHANGED <<pending, found, seen>> /\ (pc' = "inspect" => pc = "inspect")
      BY <1>10 DEF Lose, Return, Goto, Answered
    <2> QED
      BY <1>0, <2>1, ListedKept
  <1>11. CASE Progress \/ Privileges
    <2>1. UNCHANGED <<pending, found, seen>> /\ (pc' = "inspect" => pc = "inspect")
      BY <1>11 DEF Progress, Privileges, Return, Goto, Answered
    <2> QED
      BY <1>0, <2>1, ListedKept
  <1>12. CASE Prune
    <2>1. UNCHANGED <<pending, found, seen>> /\ (pc' = "inspect" => pc = "inspect")
      BY <1>12 DEF Prune, Return, Goto, Answered
    <2> QED
      BY <1>0, <2>1, ListedKept
  <1>13. CASE Others
    <2>1. UNCHANGED <<pending, found, seen>> /\ (pc' = "inspect" => pc = "inspect")
      BY <1>13 DEF Others, Return, Goto, Answered
    <2> QED
      BY <1>0, <2>1, ListedKept
  <1> QED
    BY <1>1, <1>2, <1>3, <1>4, <1>5, <1>6, <1>7, <1>8, <1>9, <1>10, <1>11, <1>12, <1>13
       DEF Next, Step, Operate

(* How the last call ended fits the call.                                  *)
LEMMA Attaining ==
    ASSUME Types, Belongs, Attained, Next
    PROVE  Attained'
  <1>0. kind \in Kind /\ pc \in Steps
    BY DEF Types
  <1>1. CASE Get
    <2>1. UNCHANGED <<call, pc, result>> /\ (attrs # {} => attrs' # {})
      BY <1>1 DEF Get
    <2> QED
      BY <2>1 DEF Attained
  <1>2. CASE Begin
    <2>1. result' = "none"
      BY <1>2 DEF Begin
    <2> QED
      BY <2>1 DEF Attained
  <1>3. CASE Create
    <2>1. /\ pc' = "idle" /\ result' = "done" => attrs' # {}
          /\ call' = call /\ call.op = "create"
      BY <1>3 DEF Create, Belongs, Op, Return, Goto, Answered
    <2> QED
      BY <2>1 DEF Attained
  <1>4. CASE Install
    <2>1. pc' = "made" \/ result' \in {"refused", "lost"}
      BY <1>4 DEF Install, Goto, Return
    <2> QED
      BY <2>1 DEF Attained
  <1>5. CASE Made
    <2>1. /\ pc' = "idle" /\ result' = "done" => attrs' # {}
          /\ call' = call /\ call.op \in {"create", "install"}
      BY <1>5 DEF Made, Belongs, Return, Goto, Answered
    <2> QED
      BY <2>1 DEF Attained
  <1>6. CASE List
    <2>1. call' = call /\ call.op = "list"
      BY <1>6 DEF List, Belongs, Op, Return, Goto, Answered
    <2> QED
      BY <2>1 DEF Attained
  <1>7. CASE Inspect
    <2>1. call' = call /\ call.op = "list"
      BY <1>7 DEF Inspect, Belongs, Op, Return, Goto, Answered
    <2> QED
      BY <2>1 DEF Attained
  <1>8. CASE Reload
    <2>1. call' = call /\ call.op \in {"reload", "configure", "switch", "upgrade"}
      BY <1>8 DEF Reload, Belongs, Op, Return, Goto, Answered
    <2> QED
      BY <2>1 DEF Attained
  <1>9. CASE Operate
    BY <1>9, <1>0, OperateEffect DEF Requested, Attained
  <1>10. CASE Lose
    <2>1. result' = "lost"
      BY <1>10 DEF Lose, Return
    <2> QED
      BY <2>1 DEF Attained
  <1>11. CASE Progress \/ Privileges
    <2>1. pc' \in {"reload", "pull", "apply"} \/ result' \in {"abandoned", "refused", "AttributeError"}
      BY <1>11 DEF Progress, Privileges, Goto, Return
    <2> QED
      BY <2>1 DEF Attained
  <1>12. CASE Prune
    <2>1. result' \in {"done", "lost"} /\ call' = call /\ call.op = "prune"
      BY <1>12 DEF Prune, Belongs, Op, Return, Goto, Answered
    <2> QED
      BY <2>1 DEF Attained
  <1>13. CASE Others
    BY <1>13 DEF Others, Attained
  <1> QED
    BY <1>1, <1>2, <1>3, <1>4, <1>5, <1>6, <1>7, <1>8, <1>9, <1>10, <1>11, <1>12, <1>13
       DEF Next, Step, Operate

-----------------------------------------------------------------------------
(* What calls promise                                                      *)

(* What is gone stays gone.                                                *)
LEMMA GoneKept ==
    ASSUME Types, Owns, Evolved, mine' = mine, mine \intersect There = {}
    PROVE  mine' \intersect There' = {}
  <1>1. \A m \in mine : m \in Id /\ objs[m].life = "gone"
    <2>1. \A m \in mine : m \in Id /\ objs[m] \in Object /\ objs[m].life # "none"
      BY DEF Types, Owns
    <2> QED
      BY <2>1 DEF There, Object
  <1>2. \A m \in mine : objs'[m].life = "gone"
    BY <1>1 DEF Evolved
  <1> QED
    BY <1>2 DEF There

(* NotFound for an operation means that its object is gone.                *)
LEMMA NotFoundStays ==
    ASSUME Types, Belongs, Owns, Attained, NotFoundIsGone, Next
    PROVE  NotFoundIsGone'
  <1>0. Evolved
    BY Evolution
  <1>1. CASE Get
    <2>1. UNCHANGED <<call, result>> /\ pc = "idle" /\ attrs = {}
      BY <1>1 DEF Get
    <2>2. result = "NotFound" => call.op \in {"create", "install", "list"}
      BY <2>1 DEF Attained, Belongs
    <2> QED
      BY <2>1, <2>2 DEF NotFoundIsGone
  <1>2. CASE Begin
    <2>1. result' = "none"
      BY <1>2 DEF Begin
    <2> QED
      BY <2>1 DEF NotFoundIsGone
  <1>3. CASE Create
    <2>1. call' = call /\ call.op = "create"
      BY <1>3 DEF Create, Belongs, Op, Return, Goto, Answered
    <2> QED
      BY <2>1 DEF NotFoundIsGone
  <1>4. CASE Install
    <2>1. pc' = "made" \/ result' \in {"refused", "lost"}
      BY <1>4 DEF Install, Goto, Return
    <2> QED
      BY <2>1 DEF NotFoundIsGone
  <1>5. CASE Made
    <2>1. call' = call /\ call.op \in {"create", "install"}
      BY <1>5 DEF Made, Belongs, Return, Goto, Answered
    <2> QED
      BY <2>1 DEF NotFoundIsGone
  <1>6. CASE List
    <2>1. call' = call /\ call.op = "list"
      BY <1>6 DEF List, Belongs, Op, Return, Goto, Answered
    <2> QED
      BY <2>1 DEF NotFoundIsGone
  <1>7. CASE Inspect
    <2>1. call' = call /\ call.op = "list"
      BY <1>7 DEF Inspect, Belongs, Return, Goto, Answered
    <2> QED
      BY <2>1 DEF NotFoundIsGone
  <1>8. CASE Reload
    <2>1. CASE result' = "NotFound"
      <3>1. Finds(T.id) = {} /\ mine' = mine
        BY <1>8, <2>1 DEF Reload, Return
      <3>2. mine' \intersect There' = {}
        BY <1>0, <3>1, NotThere, GoneKept
      <3> QED
        BY <3>2 DEF NotFoundIsGone
    <2>2. CASE result' # "NotFound"
      BY <2>2 DEF NotFoundIsGone
    <2> QED
      BY <2>1, <2>2
  <1>9. CASE Operate
    <2>1. CASE pc' = "idle" /\ result' = "NotFound"
      <3>1. Finds(T.ref) = {} /\ mine' = mine
        BY <1>9, <2>1, OperateEffect DEF Requested
      <3>2. mine' \intersect There' = {}
        BY <1>0, <3>1, NotThere, GoneKept
      <3> QED
        BY <3>2 DEF NotFoundIsGone
    <2>2. CASE ~(pc' = "idle" /\ result' = "NotFound")
      BY <2>2 DEF NotFoundIsGone
    <2> QED
      BY <2>1, <2>2
  <1>10. CASE Lose
    <2>1. result' = "lost"
      BY <1>10 DEF Lose, Return
    <2> QED
      BY <2>1 DEF NotFoundIsGone
  <1>11. CASE Progress \/ Privileges
    <2>1. pc' \in {"reload", "pull", "apply"} \/ result' \in {"abandoned", "refused", "AttributeError"}
      BY <1>11 DEF Progress, Privileges, Goto, Return
    <2> QED
      BY <2>1 DEF NotFoundIsGone
  <1>12. CASE Prune
    <2>1. result' \in {"done", "lost"}
      BY <1>12 DEF Prune, Answered, Return
    <2> QED
      BY <2>1 DEF NotFoundIsGone
  <1>13. CASE Others
    <2>1. UNCHANGED <<call, pc, result, mine>>
      BY <1>13 DEF Others
    <2>2. CASE mine \intersect There = {}
      BY <1>0, <2>1, <2>2, GoneKept DEF NotFoundIsGone
    <2>3. CASE mine \intersect There # {}
      BY <2>1, <2>3 DEF NotFoundIsGone
    <2> QED
      BY <2>2, <2>3
  <1> QED
    BY <1>1, <1>2, <1>3, <1>4, <1>5, <1>6, <1>7, <1>8, <1>9, <1>10, <1>11, <1>12, <1>13
       DEF Next, Step, Operate

(* create returns what it made.                                            *)
LEMMA OwnReturned ==
    ASSUME Types, Belongs, MadeOne, Attained, Owns, CreateReturnsOwn, Next
    PROVE  CreateReturnsOwn'
  <1>0. kind \in Kind
    BY DEF Types
  <1>1. CASE Get
    <2>1. UNCHANGED <<call, pc, result>> /\ pc = "idle" /\ attrs = {}
      BY <1>1 DEF Get
    <2> QED
      BY <2>1 DEF Attained, CreateReturnsOwn
  <1>2. CASE Begin
    <2>1. result' = "none"
      BY <1>2 DEF Begin
    <2> QED
      BY <2>1 DEF CreateReturnsOwn
  <1>3. CASE Create
    <2>1. kind' = kind /\ T' = T /\ (T.made = "id" => kind # "volume")
      BY <1>0, <1>3, Traits DEF Create, T
    <2>2. pc' = "idle" /\ result' = "done" => kind = "volume" \/ T.made = "answer"
      BY <1>3 DEF Create, Return, Goto, Answered
    <2> QED
      BY <2>1, <2>2 DEF CreateReturnsOwn
  <1>4. CASE Install
    <2>1. pc' = "made" \/ result' \in {"refused", "lost"}
      BY <1>4 DEF Install, Goto, Return
    <2> QED
      BY <2>1 DEF CreateReturnsOwn
  <1>5. CASE Made
    <2>1. kind' = kind /\ T' = T /\ made' = made
      BY <1>5 DEF Made, T
    <2>2. CASE T.made = "id" /\ result' = "done"
      <3>1. \E i \in made \intersect There : mine' = {i}
        BY <1>5, <2>2 DEF Made, Return
      <3> QED
        BY <2>1, <3>1 DEF MadeOne, CreateReturnsOwn
    <2>3. CASE ~(T.made = "id" /\ result' = "done")
      BY <2>1, <2>3 DEF CreateReturnsOwn
    <2> QED
      BY <2>2, <2>3
  <1>6. CASE List
    <2>1. call' = call /\ call.op = "list"
      BY <1>6 DEF List, Belongs, Op, Return, Goto, Answered
    <2> QED
      BY <2>1 DEF CreateReturnsOwn
  <1>7. CASE Inspect
    <2>1. call' = call /\ call.op = "list"
      BY <1>7 DEF Inspect, Belongs, Return, Goto, Answered
    <2> QED
      BY <2>1 DEF CreateReturnsOwn
  <1>8. CASE Reload
    <2>1. call' = call /\ call.op \in {"reload", "configure", "switch", "upgrade"}
      BY <1>8 DEF Reload, Belongs, Return, Goto, Answered
    <2> QED
      BY <2>1 DEF CreateReturnsOwn
  <1>9. CASE Operate
    <2>1. call' = call /\ call.op # "create"
      BY <1>9, OperateEffect DEF Requested
    <2> QED
      BY <2>1 DEF CreateReturnsOwn
  <1>10. CASE Lose
    <2>1. result' = "lost"
      BY <1>10 DEF Lose, Return
    <2> QED
      BY <2>1 DEF CreateReturnsOwn
  <1>11. CASE Progress \/ Privileges
    <2>1. pc' \in {"reload", "pull", "apply"} \/ result' \in {"abandoned", "refused", "AttributeError"}
      BY <1>11 DEF Progress, Privileges, Goto, Return
    <2> QED
      BY <2>1 DEF CreateReturnsOwn
  <1>12. CASE Prune
    <2>1. call' = call /\ call.op = "prune"
      BY <1>12 DEF Prune, Belongs, Op, Return, Goto, Answered
    <2> QED
      BY <2>1 DEF CreateReturnsOwn
  <1>13. CASE Others
    <2>1. UNCHANGED <<call, pc, result, mine, made, kind>> /\ T' = T
      BY <1>13 DEF Others, T
    <2> QED
      BY <2>1 DEF CreateReturnsOwn
  <1> QED
    BY <1>1, <1>2, <1>3, <1>4, <1>5, <1>6, <1>7, <1>8, <1>9, <1>10, <1>11, <1>12, <1>13
       DEF Next, Step, Operate

(* A list has what was there throughout, or fails for a reason.            *)
LEMMA ListsStay ==
    ASSUME Types, Belongs, Listed, ListComplete, ListFails, Next
    PROVE  ListComplete' /\ ListFails'
  <1>0. Evolved
    BY Evolution
  <1>1. CASE Get
    <2>1. UNCHANGED <<pc, call, result, seen, found, objs>>
      BY <1>1 DEF Get
    <2> QED
      BY <2>1 DEF ListComplete, ListFails, There
  <1>2. CASE Begin
    <2>1. result' = "none"
      BY <1>2 DEF Begin
    <2> QED
      BY <2>1 DEF ListComplete, ListFails
  <1>3. CASE Create
    <2>1. call' = call /\ call.op = "create"
      BY <1>3 DEF Create, Belongs, Op, Return, Goto, Answered
    <2> QED
      BY <2>1 DEF ListComplete, ListFails
  <1>4. CASE Install
    <2>1. pc' = "made" \/ result' \in {"refused", "lost"}
      BY <1>4 DEF Install, Goto, Return
    <2> QED
      BY <2>1 DEF ListComplete, ListFails
  <1>5. CASE Made
    <2>1. call' = call /\ call.op \in {"create", "install"}
      BY <1>5 DEF Made, Belongs, Return, Goto, Answered
    <2> QED
      BY <2>1 DEF ListComplete, ListFails
  <1>6. CASE List
    <2>1. pc' = "idle" => found' = There /\ result' = "done"
      BY <1>6 DEF List, Return, Goto, Answered
    <2>2. There' = There /\ objs' = objs
      BY <1>6 DEF List, There
    <2>3. \A i \in There : objs[i].life = "there"
      BY DEF There
    <2> QED
      BY <2>1, <2>2, <2>3 DEF ListComplete, ListFails
  <1>7. CASE Inspect
    <2>0. call' = call /\ seen' = seen /\ objs' = objs /\ There' = There /\ pc = "inspect"
      BY <1>7 DEF Inspect, There, Goto, Return
    <2>1. \A i \in seen : objs[i].life # "none" /\ objs[i] \in Object /\ i \in Id
      BY DEF Listed, Types
    <2>2. CASE pending = {}
      <3>1. found' = found /\ result' = "done"
        BY <1>7, <2>2 DEF Inspect, Return
      <3> QED
        BY <2>0, <2>1, <2>2, <3>1 DEF Listed, ListComplete, ListFails
    <2>3. ASSUME NEW i \in pending,
                 Goto("inspect") \/ (i \notin There /\ call.style # "tolerant" /\ Return("NotFound"))
          PROVE  ListComplete' /\ ListFails'
      <3>1. CASE Goto("inspect")
        <4>1. pc' = "inspect"
          BY <3>1 DEF Goto
        <4> QED
          BY <4>1 DEF ListComplete, ListFails
      <3>2. CASE i \notin There /\ call.style # "tolerant" /\ Return("NotFound")
        <4>1. result' = "NotFound" /\ call.style = "strict"
          BY <2>0, <3>2, Fields DEF Return, Belongs
        <4>2. i \in seen /\ objs[i].life = "gone"
          BY <2>1, <3>2 DEF Listed, There, Object
        <4> QED
          BY <2>0, <4>1, <4>2 DEF ListComplete, ListFails
      <3> QED
        BY <2>3, <3>1, <3>2
    <2> QED
      BY <1>7, <2>2, <2>3 DEF Inspect
  <1>8. CASE Reload
    <2>1. call' = call /\ call.op \in {"reload", "configure", "switch", "upgrade"}
      BY <1>8 DEF Reload, Belongs, Return, Goto, Answered
    <2> QED
      BY <2>1 DEF ListComplete, ListFails
  <1>9. CASE Operate
    <2>1. call' = call /\ call.op # "list"
      BY <1>9, OperateEffect DEF Requested
    <2> QED
      BY <2>1 DEF ListComplete, ListFails
  <1>10. CASE Lose
    <2>1. result' = "lost"
      BY <1>10 DEF Lose, Return
    <2> QED
      BY <2>1 DEF ListComplete, ListFails
  <1>11. CASE Progress \/ Privileges
    <2>1. pc' \in {"reload", "pull", "apply"} \/ result' \in {"abandoned", "refused", "AttributeError"}
      BY <1>11 DEF Progress, Privileges, Goto, Return
    <2> QED
      BY <2>1 DEF ListComplete, ListFails
  <1>12. CASE Prune
    <2>1. call' = call /\ call.op = "prune"
      BY <1>12 DEF Prune, Belongs, Op, Return, Goto, Answered
    <2> QED
      BY <2>1 DEF ListComplete, ListFails
  <1>13. CASE Others
    <2>1. UNCHANGED <<pc, call, result, seen, found>>
      BY <1>13 DEF Others
    <2>2. \A i \in seen : /\ i \in Id /\ objs[i] \in Object /\ objs'[i] \in Object
                          /\ objs[i].life # "none"
      BY <1>0 DEF Listed, Types, Evolved
    <2>3. \A i \in seen : /\ objs'[i].life # "none"
                          /\ objs[i].life = "gone" => objs'[i].life = "gone"
      BY <1>0, <2>2 DEF Evolved
    <2>4. seen \intersect There' \subseteq seen \intersect There
      BY <2>2, <2>3 DEF There, Object
    <2>5. found \subseteq seen
      BY DEF Listed
    <2>6. ListComplete'
      BY <2>1, <2>3, <2>4, <2>5 DEF ListComplete
    <2>7. ListFails'
      BY <2>1, <2>3 DEF ListFails
    <2> QED
      BY <2>6, <2>7
  <1> QED
    BY <1>1, <1>2, <1>3, <1>4, <1>5, <1>6, <1>7, <1>8, <1>9, <1>10, <1>11, <1>12, <1>13
       DEF Next, Step, Operate

-----------------------------------------------------------------------------
(* Theorems                                                                *)

(* The invariant holds at the beginning.                                   *)
LEMMA AtFirst ==
    ASSUME Init
    PROVE  IInv
  <1>1. Unmade \in Object
    BY ObjectConstants DEF Unmade, Object
  <1>2. \A o \in [name : Name, life : {"there"}, used : BOOLEAN] : o \in Object
    BY DEF Object
  <1>3. objs \in [Id -> Object]
    BY <1>1, <1>2 DEF Init
  <1>4. Types
    BY <1>3, ObjectConstants DEF Init, Types, Op, Steps, Results
  <1>5. Owns /\ MadeOne /\ Listed /\ Attained
    BY DEF Init, Owns, MadeOne, Listed, Attained
  <1>6. call.op = "none" /\ pc = "idle" /\ result = "none"
    BY DEF Init, NoCall
  <1>7. Belongs
    BY <1>6 DEF Belongs, Op
  <1>8. NotFoundIsGone /\ CreateReturnsOwn /\ ListComplete /\ ListFails
    BY <1>6 DEF NotFoundIsGone, CreateReturnsOwn, ListComplete, ListFails
  <1> QED
    BY <1>4, <1>5, <1>7, <1>8 DEF IInv

(* ... and after every step.                                               *)
LEMMA AfterNext ==
    ASSUME IInv, [Next]_vars
    PROVE  IInv'
  <1>1. CASE Next
    BY <1>1, Typed, Owned, Belonged, OneMade, Listing, Attaining, NotFoundStays, OwnReturned, ListsStay
       DEF IInv
  <1>2. CASE UNCHANGED vars
    <2>0. T' = T /\ There' = There
      BY <1>2 DEF vars, T, There
    <2>1. Types'
      BY <1>2 DEF IInv, vars, Types
    <2>2. Owns' /\ Belongs' /\ MadeOne'
      BY <1>2 DEF IInv, vars, Owns, Belongs, MadeOne
    <2>3. Listed' /\ Attained' /\ NotFoundIsGone'
      BY <1>2, <2>0 DEF IInv, vars, Listed, Attained, NotFoundIsGone
    <2>4. CreateReturnsOwn' /\ ListComplete' /\ ListFails'
      BY <1>2, <2>0 DEF IInv, vars, CreateReturnsOwn, ListComplete, ListFails
    <2> QED
      BY <2>1, <2>2, <2>3, <2>4 DEF IInv
  <1> QED
    BY <1>1, <1>2

(* The program's object, its calls and its lists stay as IInv has them,    *)
(* whatever the kind, and whatever other clients do and the network loses. *)
THEOREM ObjectInvariance == Spec => []IInv
  BY AtFirst, AfterNext, PTL DEF Spec

(* The types follow, the sizes of the sets of at most one element too.     *)
LEMMA IInvTypes ==
    ASSUME IInv
    PROVE  TypeOK
  <1>1. Types /\ Owns /\ MadeOne
    BY DEF IInv
  <1>2. /\ attrs \subseteq [id : Id, name : Name, used : BOOLEAN] /\ mine \subseteq Id
        /\ Cardinality(attrs) <= 1 /\ Cardinality(mine) = Cardinality(attrs)
    <2>1. CASE attrs = {} /\ mine = {}
      BY <2>1, FS_EmptySet
    <2>2. ASSUME NEW a \in [id : Id, name : Name, used : BOOLEAN], NEW m \in Id, attrs = {a}, mine = {m}
          PROVE  /\ attrs \subseteq [id : Id, name : Name, used : BOOLEAN] /\ mine \subseteq Id
                 /\ Cardinality(attrs) <= 1 /\ Cardinality(mine) = Cardinality(attrs)
      <3>1. Cardinality({a}) = 1 /\ Cardinality({m}) = 1
        BY FS_Singleton
      <3>2. Cardinality(attrs) = 1 /\ Cardinality(mine) = 1
        BY <2>2, <3>1
      <3> QED
        BY <2>2, <3>2
    <2> QED
      BY <1>1, <2>1, <2>2 DEF Owns
  <1>3. made \subseteq Id /\ Cardinality(made) <= 1
    <2>1. CASE made = {}
      BY <2>1, FS_EmptySet
    <2>2. ASSUME NEW i \in Id, made = {i}
          PROVE  made \subseteq Id /\ Cardinality(made) <= 1
      BY <2>2, FS_Singleton
    <2> QED
      BY <1>1, <2>1, <2>2 DEF MadeOne
  <1> QED
    BY <1>1, <1>2, <1>3 DEF Types, TypeOK, Object, Steps, Results

(* A list is right or fails for a reason, however many objects others add  *)
(* and remove while they are inspected one by one.                         *)
THEOREM ListIsRightHolds == Spec => []ListIsRight
  <1>1. IInv => ListIsRight
    BY IInvTypes DEF IInv, ListIsRight
  <1> QED
    BY <1>1, ObjectInvariance, PTL

(* NotFound for an operation means that its object is gone, though others  *)
(* rename containers and give their names to new ones.                     *)
THEOREM NotFoundIsGoneHolds == Spec => []NotFoundIsGone
  <1>1. IInv => NotFoundIsGone
    BY DEF IInv
  <1> QED
    BY <1>1, ObjectInvariance, PTL

(* create returns the very object it made, if it asks for it by its Id.    *)
THEOREM CreateReturnsOwnHolds == Spec => []CreateReturnsOwn
  <1>1. IInv => CreateReturnsOwn
    BY DEF IInv
  <1> QED
    BY <1>1, ObjectInvariance, PTL

(* Operations change the object the program was given, or, where a name    *)
(* stands for the object, the holder of that name.                         *)
THEOREM SameObjectHolds == Spec => SameObject
  <1> DEFINE Same == \A i \in Id : (Switch \/ Rename \/ Remove) /\ objs'[i] # objs[i] =>
                        IF T.ref = "id" THEN i \in mine ELSE \E j \in mine : objs[i].name = objs[j].name
  <1>1. ASSUME IInv, NEW i \in Id, Switch \/ Rename \/ Remove, objs'[i] # objs[i]
        PROVE  IF T.ref = "id" THEN i \in mine ELSE \E j \in mine : objs[i].name = objs[j].name
    <2>1. i \in Finds(T.ref)
      BY <1>1, OperateEffect DEF IInv, Operate, Requested
    <2>2. /\ T.ref \in {"id", "name"}
          /\ T.ref = "name" <=> kind \in {"volume", "plugin"}
      BY <1>1, Traits DEF IInv, Types
    <2>3. PICK a \in attrs : IF T.ref = "id" THEN i = a.id ELSE objs[i].name = a.name
      BY <2>1 DEF Finds
    <2>4. PICK m \in Id : /\ attrs = {a} /\ mine = {m}
                          /\ kind # "volume" => a.id = m
                          /\ kind \in {"volume", "plugin"} => a.name = objs[m].name
      BY <1>1, <2>3 DEF IInv, Owns
    <2>5. CASE T.ref = "id"
      BY <2>2, <2>3, <2>4, <2>5
    <2>6. CASE T.ref = "name"
      BY <2>2, <2>3, <2>4, <2>6
    <2> QED
      BY <2>2, <2>5, <2>6
  <1>2. IInv /\ [Next]_vars => [Same]_vars
    BY <1>1 DEF Same
  <1> QED
    BY <1>2, ObjectInvariance, PTL DEF Spec, SameObject
=============================================================================
