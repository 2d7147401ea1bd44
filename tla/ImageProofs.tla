---------------------------- MODULE ImageProofs ----------------------------
(***************************************************************************)
(* What pulls and builds send.  Credentials go to their own registry, the  *)
(* newest login is the one that is sent, and the file is loaded when it is *)
(* needed and only then, for every number of threads, whatever files and   *)
(* stores the command line leaves: RegistryAuth.  And the walk of a build, *)
(* which does not enter directories that match, follows the rule of        *)
(* .dockerignore, whatever the patterns, the directory and the changes     *)
(* other programs make meanwhile: BuildContext.                            *)
(***************************************************************************)
EXTENDS RegistryAuth, BuildContext, FiniteSetTheorems, WellFoundedInduction, TLAPS

-----------------------------------------------------------------------------
(* Both need it                                                            *)

(* A set of numbers has a least one.                                       *)
LEMMA Least == ASSUME NEW T \in SUBSET Nat, T # {} PROVE \E m \in T : \A k \in T : m <= k
  <1> DEFINE R == OpToRel(<, Nat)
  <1>1. IsWellFoundedOn(R, Nat)
    BY NatLessThanWellFounded
  <1>2. \A x, y \in Nat : <<x, y>> \in R <=> x < y
    BY DEF OpToRel
  <1> HIDE DEF R
  <1>3. PICK x \in T : \A y \in T : ~ (<<y, x>> \in R)
    BY <1>1, WFMin
  <1>4. x \in Nat /\ \A y \in T : y \in Nat
    OBVIOUS
  <1>5. \A y \in T : ~ (y < x)
    BY <1>2, <1>3, <1>4
  <1>6. \A y \in T : x <= y
    BY <1>4, <1>5
  <1> QED
    BY <1>6

-----------------------------------------------------------------------------
(* Names of registries                                                     *)

(* A name stands for a registry, and a registry is its own name.           *)
LEMMA Names ==
    /\ \A k \in Key : ResolveIndexName(k) \in Key /\ HostOf[k] \in Key
                      /\ ResolveIndexName(HostOf[k]) = ResolveIndexName(k)
                      /\ ResolveIndexName(k) = IF HostOf[k] = HubHost THEN Hub ELSE HostOf[k]
    /\ \A h \in Registry : h \in Key /\ HostOf[h] = h /\ ResolveIndexName(h) = h /\ h # HubHost
    /\ ResolveIndexName(HubUrl) = Hub /\ ResolveIndexName(Hub) = Hub
  <1>1. \A k \in Key : k \notin Section /\ HostOf[k] \in Key /\ HostOf[HostOf[k]] = HostOf[k]
    BY AuthConstants
  <1>2. Hub \in Key /\ HubUrl \in Key /\ HostOf[Hub] = Hub /\ HostOf[HubUrl] = HubHost
    BY AuthConstants
  <1>3. \A k \in Key : ResolveIndexName(k) = IF HostOf[k] = HubHost THEN Hub ELSE HostOf[k]
    BY <1>1 DEF ResolveIndexName
  <1>4. \A h \in Registry : h \in Key /\ HostOf[h] = h /\ h # HubHost
    BY <1>1 DEF Registry
  <1> QED
    BY <1>1, <1>2, <1>3, <1>4

-----------------------------------------------------------------------------
(* Entries of a file                                                       *)

AuthsSet == Seq([key : Key \union Section, cred : CredSet])

\* A name has one entry, its credentials are for the registry of that name,
\* and their password is not one the daemon refused.
GoodAuths(auths) ==
    /\ auths \in AuthsSet
    /\ \A i, j \in DOMAIN auths : auths[i].key = auths[j].key => i = j
    /\ \A i \in DOMAIN auths :
          /\ auths[i].cred.kind = "auth" =>
                 ResolveIndexName(auths[i].cred.reg) = ResolveIndexName(auths[i].key)
          /\ auths[i].cred.secret # "bad"

(* Sequences of elements of a set are sequences of those of a larger one.  *)
LEMMA Wider == ASSUME NEW S, NEW T, S \subseteq T, NEW s \in Seq(S) PROVE s \in Seq(T)
  OBVIOUS

(* The entry under a name is the one that has this name.                   *)
LEMMA EntryIs ==
    ASSUME NEW auths, GoodAuths(auths), NEW i \in DOMAIN auths
    PROVE  auths[i].key \in Keys(auths) /\ Entry(auths, auths[i].key) = auths[i].cred
  <1>1. \A j \in DOMAIN auths : auths[j].key = auths[i].key <=> j = i
    BY DEF GoodAuths
  <1>2. (CHOOSE j \in DOMAIN auths : auths[j].key = auths[i].key) = i
    BY <1>1
  <1> QED
    BY <1>2 DEF Keys, Entry

(* add_auth makes an entry, and leaves the others.                         *)
LEMMA AddAuthGood ==
    ASSUME NEW auths, GoodAuths(auths), NEW k \in Key, NEW c \in CredSet, c.secret # "bad",
           ResolveIndexName(c.reg) = ResolveIndexName(k)
    PROVE  /\ GoodAuths(AddAuth(auths, k, c))
           /\ Keys(AddAuth(auths, k, c)) = Keys(auths) \union {k}
           /\ Entry(AddAuth(auths, k, c), k) = c
           /\ \A l \in Keys(auths) \ {k} : Entry(AddAuth(auths, k, c), l) = Entry(auths, l)
  <1> DEFINE new == AddAuth(auths, k, c)
             e == [key |-> k, cred |-> c]
  <1>0. auths \in AuthsSet /\ e \in [key : Key \union Section, cred : CredSet]
        /\ e.key = k /\ e.cred = c
    BY DEF GoodAuths
  <1>1. /\ new \in AuthsSet /\ DOMAIN auths \subseteq DOMAIN new
        /\ \A i \in DOMAIN auths : new[i] = IF auths[i].key = k THEN e ELSE auths[i]
        /\ \A i \in DOMAIN new \ DOMAIN auths : new[i] = e
        /\ \A i, j \in DOMAIN new \ DOMAIN auths : i = j
        /\ k \in Keys(auths) <=> DOMAIN new = DOMAIN auths
        /\ k \notin Keys(auths) => DOMAIN new \ DOMAIN auths # {}
    <2>1. CASE k \in Keys(auths)
      <3>1. new = [i \in DOMAIN auths |-> IF auths[i].key = k THEN e ELSE auths[i]]
        BY <2>1 DEF AddAuth
      <3>2. DOMAIN auths = 1..Len(auths) /\ Len(auths) \in Nat
            /\ \A i \in DOMAIN auths : auths[i] \in [key : Key \union Section, cred : CredSet]
        <4> DEFINE E == [key : Key \union Section, cred : CredSet]
        <4>1. auths \in Seq(E)
          BY <1>0 DEF AuthsSet
        <4> HIDE DEF E
        <4>2. DOMAIN auths = 1..Len(auths) /\ Len(auths) \in Nat /\ \A i \in DOMAIN auths : auths[i] \in E
          BY <4>1
        <4> QED
          BY <4>2 DEF E
      <3> HIDE DEF e, new
      <3>3. new \in AuthsSet
        BY <1>0, <3>1, <3>2 DEF AuthsSet
      <3> QED
        BY <2>1, <3>1, <3>3
    <2>2. CASE k \notin Keys(auths)
      <3>1. new = Append(auths, e)
        BY <2>2 DEF AddAuth
      <3>2. \A i \in DOMAIN auths : auths[i].key # k
        BY <2>2 DEF Keys
      <3> HIDE DEF e, new
      <3>3. new \in AuthsSet /\ DOMAIN auths = 1..Len(auths) /\ Len(auths) \in Nat
            /\ DOMAIN new = 1..Len(auths) + 1 /\ new[Len(auths) + 1] = e
            /\ \A i \in 1..Len(auths) : new[i] = auths[i]
        BY <1>0, <3>1 DEF AuthsSet
      <3>4. DOMAIN new \ DOMAIN auths = {Len(auths) + 1} /\ DOMAIN auths \subseteq DOMAIN new
        BY <3>3
      <3> QED
        BY <2>2, <3>2, <3>3, <3>4
    <2> QED
      BY <2>1, <2>2
  <1> HIDE DEF new, e
  <1>2. \A i \in DOMAIN auths : new[i].key = auths[i].key
    BY <1>0, <1>1
  <1>3. ASSUME NEW i \in DOMAIN new, NEW j \in DOMAIN new, new[i].key = new[j].key PROVE i = j
    <2>1. CASE i \in DOMAIN auths /\ j \in DOMAIN auths
      BY <1>2, <1>3, <2>1 DEF GoodAuths
    <2>2. CASE i \notin DOMAIN auths /\ j \notin DOMAIN auths
      BY <1>1, <2>2
    <2>3. CASE i \in DOMAIN auths /\ j \notin DOMAIN auths
      BY <1>0, <1>1, <1>2, <1>3, <2>3 DEF Keys
    <2>4. CASE i \notin DOMAIN auths /\ j \in DOMAIN auths
      BY <1>0, <1>1, <1>2, <1>3, <2>4 DEF Keys
    <2> QED
      BY <2>1, <2>2, <2>3, <2>4
  <1>4. \A i \in DOMAIN new : new[i] = e \/ (i \in DOMAIN auths /\ new[i] = auths[i])
    BY <1>1
  <1>5. GoodAuths(new)
    BY <1>0, <1>1, <1>3, <1>4 DEF GoodAuths
  <1>6. Keys(new) = Keys(auths) \union {k}
    <2>1. Keys(new) \subseteq Keys(auths) \union {k}
      BY <1>0, <1>4 DEF Keys
    <2>2. Keys(auths) \subseteq Keys(new)
      BY <1>1, <1>2 DEF Keys
    <2>3. k \in Keys(new)
      <3>1. CASE k \in Keys(auths)
        BY <2>2, <3>1
      <3>2. CASE k \notin Keys(auths)
        BY <1>0, <1>1, <3>2 DEF Keys
      <3> QED
        BY <3>1, <3>2
    <2> QED
      BY <2>1, <2>2, <2>3
  <1>7. Entry(new, k) = c
    <2>1. PICK i \in DOMAIN new : new[i].key = k
      BY <1>6 DEF Keys
    <2>2. Entry(new, k) = new[i].cred
      BY <1>5, <2>1, EntryIs
    <2>3. new[i] = e
      BY <1>1, <1>2, <2>1
    <2> QED
      BY <1>0, <2>2, <2>3
  <1>8. ASSUME NEW l \in Keys(auths) \ {k} PROVE Entry(new, l) = Entry(auths, l)
    <2>1. PICK i \in DOMAIN auths : auths[i].key = l
      BY DEF Keys
    <2>2. i \in DOMAIN new /\ new[i] = auths[i]
      BY <1>1, <2>1
    <2>3. Entry(new, l) = new[i].cred /\ Entry(auths, l) = auths[i].cred
      BY <1>5, <2>1, <2>2, EntryIs
    <2> QED
      BY <2>2, <2>3
  <1> QED
    BY <1>5, <1>6, <1>7, <1>8 DEF new

(* A finite set, as a sequence, has each element once.                     *)
LEMMA Listed ==
    ASSUME NEW S, IsFiniteSet(S)
    PROVE  /\ SetToSeq(S) \in Seq(S)
           /\ \A i, j \in DOMAIN SetToSeq(S) : SetToSeq(S)[i] = SetToSeq(S)[j] => i = j
  <1>1. Cardinality(S) \in Nat /\ ExistsBijection(1..Cardinality(S), S)
    BY FS_CardinalityType
  <1>2. PICK f \in Bijection(1..Cardinality(S), S) : TRUE
    BY <1>1 DEF ExistsBijection
  <1>3. f \in [1..Cardinality(S) -> S] /\ \A i, j \in DOMAIN f : f[i] = f[j] => i = j
    BY <1>2 DEF Bijection, Injection, Surjection, IsInjective
  <1> QED
    BY <1>1, <1>3 DEF SetToSeq, IsInjective

(* What load_config returns is good, if the file is one the command line   *)
(* writes.                                                                 *)
LEMMA LoadConfigGood ==
    ASSUME NEW f \in FileSet
    PROVE  LoadConfig(f) \in ConfigSet /\ GoodAuths(LoadConfig(f).auths)
  <1>1. /\ f.auths \in Seq([key : Key, cred : CredSet]) /\ f.store \in BOOLEAN
        /\ f.helpers \in SUBSET Key /\ f.sections \in SUBSET Section /\ IsFiniteSet(f.sections)
        /\ \A i \in DOMAIN f.auths : f.auths[i].cred \in Own(f.auths[i].key)
        /\ \A i, j \in DOMAIN f.auths : f.auths[i].key = f.auths[j].key => i = j
    BY DEF FileSet
  <1>2. f.auths \in AuthsSet
    <2> DEFINE K == [key : Key, cred : CredSet]
               E == [key : Key \union Section, cred : CredSet]
    <2>1. K \subseteq E
      OBVIOUS
    <2>2. f.auths \in Seq(K)
      BY <1>1
    <2> HIDE DEF K, E
    <2>3. f.auths \in Seq(E)
      BY <2>1, <2>2, Wider
    <2> QED
      BY <2>3 DEF AuthsSet, E
  <1>3. GoodAuths(f.auths)
    BY <1>1, <1>2 DEF GoodAuths, Own
  <1>4. \A a \in AuthsSet : [NoConfig EXCEPT !.auths = a] \in ConfigSet
                            /\ [NoConfig EXCEPT !.auths = a].auths = a
    BY DEF NoConfig, ConfigSet, AuthsSet
  <1>5. <<>> \in AuthsSet /\ GoodAuths(<<>>) /\ NoConfig.auths = <<>> /\ NoConfig \in ConfigSet
    BY DEF AuthsSet, GoodAuths, NoConfig, ConfigSet
  <1> DEFINE sections == {[key |-> s, cred |-> Empty] : s \in f.sections}
             listed == SetToSeq(sections)
  <1>6. GoodAuths(listed)
    <2>1. IsFiniteSet(sections)
      <3> DEFINE g == [s \in f.sections |-> [key |-> s, cred |-> Empty]]
      <3>1. g \in Surjection(f.sections, sections)
        BY DEF Surjection
      <3> HIDE DEF g, sections
      <3> QED
        BY <1>1, <3>1, FS_Surjection
    <2>2. listed \in Seq(sections) /\ \A i, j \in DOMAIN listed : listed[i] = listed[j] => i = j
      <3> HIDE DEF sections
      <3> QED
        BY <2>1, Listed
    <2>3. Empty \in CredSet /\ Empty.kind = "empty" /\ Empty.secret = ""
      BY AuthConstants DEF Empty, CredSet
    <2>4. ASSUME NEW x \in sections
          PROVE  /\ x \in [key : Key \union Section, cred : CredSet] /\ x.cred = Empty
                 /\ x = [key |-> x.key, cred |-> Empty]
      <3>1. PICK s \in f.sections : x = [key |-> s, cred |-> Empty]
        OBVIOUS
      <3>2. s \in Key \union Section /\ x.key = s /\ x.cred = Empty
        BY <1>1, <3>1
      <3> QED
        BY <2>3, <3>1, <3>2
    <2> HIDE DEF sections, listed
    <2>5. \A i \in DOMAIN listed : listed[i] \in sections
      BY <2>2
    <2>6. listed \in AuthsSet
      <3>1. sections \subseteq [key : Key \union Section, cred : CredSet]
        BY <2>4
      <3> QED
        BY <2>2, <3>1, Wider DEF AuthsSet
    <2>7. \A i, j \in DOMAIN listed : listed[i].key = listed[j].key => i = j
      BY <2>2, <2>4, <2>5
    <2> QED
      BY <2>3, <2>4, <2>5, <2>6, <2>7 DEF GoodAuths
  <1> HIDE DEF listed, sections
  <1>7. CASE ~f.readable
    BY <1>2, <1>3, <1>4, <1>7 DEF LoadConfig, LegacyConfig
  <1>8. CASE f.readable /\ (f.auths # <<>> \/ f.store \/ f.helpers # {})
    <2>1. LoadConfig(f) = [auths |-> f.auths, store |-> f.store, helpers |-> f.helpers]
      BY <1>8 DEF LoadConfig
    <2> QED
      BY <1>1, <1>2, <1>3, <2>1 DEF ConfigSet, AuthsSet
  <1>9. CASE f.readable /\ ~(f.auths # <<>> \/ f.store \/ f.helpers # {}) /\ f.scalar
    BY <1>5, <1>9 DEF LoadConfig
  <1>10. CASE f.readable /\ ~(f.auths # <<>> \/ f.store \/ f.helpers # {}) /\ ~f.scalar
    <2>1. LoadConfig(f) = [NoConfig EXCEPT !.auths = listed]
      BY <1>10 DEF LoadConfig, listed, sections
    <2>2. listed \in AuthsSet
      BY <1>6 DEF GoodAuths
    <2> QED
      BY <1>4, <1>6, <2>1, <2>2
  <1> QED
    BY <1>7, <1>8, <1>9, <1>10

-----------------------------------------------------------------------------
(* The inductive invariant                                                 *)

\* A thread in a call is in one of those there are; it adds only a login
\* the daemon has accepted.
CallOK(t) ==
    /\ pc[t] # "idle" => call[t] \in Call
    /\ pc[t] \in {"post", "add"} => call[t].op = "login"
    /\ pc[t] = "add" => call[t].secret # "bad"

\* A thread that nobody overtook, in a call that is not to load a file, is
\* about to load one because nothing is in memory, and if it uses nothing
\* the file has nothing.
LoadOK(t) ==
    /\ /\ pc[t] \in {"read", "assign"} /\ call[t].op # "reload" /\ ~call[t].path /\ ~overtaken[t]
       => IsEmpty(mem)
    /\ pc[t] = "assign" /\ ~call[t].path /\ ~edited[t] => loaded[t] = LoadConfig(disk.file)
    /\ pc[t] = "use" /\ ~call[t].path /\ ~edited[t] /\ ~overtaken[t] /\ IsEmpty(mem)
       => IsEmpty(LoadConfig(disk.file))

\* The newest login under a registry's own name is its entry.
NewestOK ==
    \A k \in Registry : newest[k].kind = "auth" /\ newest[k].reg = k =>
                            k \in Keys(mem.auths) /\ Entry(mem.auths, k) = newest[k]

IInv ==
    /\ TypeOK
    /\ GoodAuths(mem.auths) /\ \A t \in Thread : GoodAuths(loaded[t].auths)
    /\ \A t \in Thread : CallOK(t)
    /\ \A t \in Thread : LoadOK(t)
    /\ NewestOK

Label == {"idle", "check", "read", "assign", "use", "post", "add"}

(* What is known of a call by its kind.                                    *)
LEMMA Calls ==
    ASSUME NEW c \in Call
    PROVE  /\ c.path \in BOOLEAN
           /\ c.op = "login" => c.key \in Key /\ c.secret \in Secret
           /\ c.op = "header" => ~c.path
  <1>1. CASE c \in Logins
    BY <1>1, AuthConstants
  <1>2. CASE c \in {[NoCall EXCEPT !.op = "header", !.key = k] : k \in Registry}
    BY <1>2 DEF NoCall
  <1>3. CASE c \in {[NoCall EXCEPT !.op = "build"]}
    BY <1>3 DEF NoCall
  <1>4. CASE c \in {[NoCall EXCEPT !.op = "reload", !.path = p] : p \in BOOLEAN}
    <2>1. PICK p \in BOOLEAN : c = [NoCall EXCEPT !.op = "reload", !.path = p]
      BY <1>4
    <2>2. c.op = "reload"
      BY <2>1 DEF NoCall
    <2>3. c.path = p
      BY <2>1 DEF NoCall
    <2> QED
      BY <2>1, <2>2, <2>3
  <1> QED
    BY <1>1, <1>2, <1>3, <1>4 DEF Call

(* The files and stores that are on the disk.                              *)
LEMMA Disks ==
    ASSUME disk \in Disk
    PROVE  disk.file \in FileSet /\ disk.custom \in FileSet /\ disk.default \in StoreSet
           /\ disk.helper \in StoreSet
  BY AuthConstants

(* The initial states satisfy the invariant.                               *)
LEMMA InitIInv == ASSUME Init PROVE IInv
  <1>1. LoadConfig(disk.file) \in ConfigSet /\ GoodAuths(LoadConfig(disk.file).auths)
    BY Disks, LoadConfigGood DEF Init
  <1>2. NoConfig \in ConfigSet /\ GoodAuths(NoConfig.auths)
    BY DEF NoConfig, ConfigSet, GoodAuths, AuthsSet
  <1>3. NoCred \in CredSet /\ NoCred.kind = "none"
    BY AuthConstants DEF NoCred, CredSet
  <1>4. TypeOK
    BY <1>1, <1>2, <1>3, AuthConstants DEF Init, TypeOK
  <1>5. \A t \in Thread : CallOK(t) /\ LoadOK(t) /\ GoodAuths(loaded[t].auths)
    BY <1>2 DEF Init, CallOK, LoadOK
  <1>6. NewestOK
    BY <1>3, Names DEF Init, NewestOK
  <1> QED
    BY <1>1, <1>4, <1>5, <1>6 DEF Init, IInv

(* A thread that goes on leaves what the others are at.                    *)
LEMMA GotoFrame ==
    ASSUME TypeOK, NEW t \in Thread, NEW l \in Label, Goto(t, l)
    PROVE  /\ pc' \in [Thread -> Label] /\ call' \in [Thread -> Call \union {NoCall}]
           /\ edited' \in [Thread -> BOOLEAN]
           /\ pc'[t] = l
           /\ l # "idle" => call'[t] = call[t] /\ edited'[t] = edited[t]
           /\ \A u \in Thread \ {t} : pc'[u] = pc[u] /\ call'[u] = call[u] /\ edited'[u] = edited[u]
  <1>1. pc \in [Thread -> Label] /\ call \in [Thread -> Call \union {NoCall}]
        /\ edited \in [Thread -> BOOLEAN]
    BY DEF TypeOK, Label
  <1>2. pc' = [pc EXCEPT ![t] = l]
    BY DEF Goto
  <1>3. CASE l = "idle"
    BY <1>1, <1>2, <1>3 DEF Goto
  <1>4. CASE l # "idle"
    BY <1>1, <1>2, <1>4 DEF Goto
  <1> QED
    BY <1>3, <1>4

(* A step that does not change mem or the disk keeps the invariant, if the *)
(* thread that makes it is where it may be.                                *)
LEMMA PassIInv ==
    ASSUME IInv, NEW t \in Thread, NEW l \in Label, Pass(t, l),
           loaded' \in [Thread -> ConfigSet], \A u \in Thread \ {t} : loaded'[u] = loaded[u],
           GoodAuths(loaded'[t].auths), CallOK(t)', LoadOK(t)'
    PROVE  IInv'
  <1>1. TypeOK /\ UNCHANGED <<disk, mem, calls, edits, newest>> /\ Goto(t, l)
    BY DEF IInv, Pass
  <1>2. /\ pc' \in [Thread -> Label] /\ call' \in [Thread -> Call \union {NoCall}]
        /\ edited' \in [Thread -> BOOLEAN]
        /\ \A u \in Thread \ {t} : pc'[u] = pc[u] /\ call'[u] = call[u] /\ edited'[u] = edited[u]
    BY <1>1, GotoFrame
  <1>3. overtaken' \in [Thread -> BOOLEAN]
        /\ \A u \in Thread \ {t} : overtaken'[u] = overtaken[u]
    <2>1. overtaken \in [Thread -> BOOLEAN]
      BY <1>1 DEF TypeOK
    <2>2. CASE l = "idle"
      BY <2>1, <2>2 DEF Pass
    <2>3. CASE l # "idle"
      BY <2>1, <2>3 DEF Pass
    <2> QED
      BY <2>2, <2>3
  <1>4. TypeOK'
    BY <1>1, <1>2, <1>3 DEF TypeOK, Label
  <1>5. GoodAuths(mem'.auths) /\ \A u \in Thread : GoodAuths(loaded'[u].auths)
    BY <1>1 DEF IInv
  <1>6. \A u \in Thread : CallOK(u)'
    <2> TAKE u \in Thread
    <2>1. CASE u # t
      BY <1>2, <2>1 DEF CallOK, IInv
    <2> QED
      BY <2>1
  <1>7. \A u \in Thread : LoadOK(u)'
    <2> TAKE u \in Thread
    <2>1. CASE u # t
      <3>1. pc'[u] = pc[u] /\ call'[u] = call[u] /\ edited'[u] = edited[u]
            /\ overtaken'[u] = overtaken[u] /\ loaded'[u] = loaded[u] /\ disk' = disk /\ mem' = mem
        BY <1>1, <1>2, <1>3, <2>1
      <3> QED
        BY <3>1 DEF LoadOK, IInv
    <2> QED
      BY <2>1
  <1>8. NewestOK'
    BY <1>1 DEF NewestOK, IInv
  <1> QED
    BY <1>4, <1>5, <1>6, <1>7, <1>8 DEF IInv

(* The steps of a call that change neither mem nor what was loaded.        *)
LEMMA QuietIInv ==
    ASSUME IInv, NEW t \in Thread,
           \/ Check(t) \/ Header(t) \/ Build(t) \/ LoginLookup(t) \/ Post(t)
           \/ Pass(t, "idle") /\ UNCHANGED loaded
    PROVE  IInv'
  <1>0. loaded' = loaded /\ TypeOK /\ CallOK(t) /\ LoadOK(t) /\ GoodAuths(loaded[t].auths)
    BY DEF IInv, Check, Header, Build, LoginLookup, Post
  <1>1. loaded' \in [Thread -> ConfigSet] /\ GoodAuths(loaded'[t].auths)
        /\ \A u \in Thread \ {t} : loaded'[u] = loaded[u]
    BY <1>0 DEF TypeOK
  <1>2. ASSUME NEW l \in {"idle", "post", "add"}, Pass(t, l), CallOK(t)' PROVE IInv'
    <2>1. l \in Label /\ pc'[t] = l
      BY <1>0, <1>2, GotoFrame DEF Pass, Label
    <2>2. LoadOK(t)'
      BY <2>1 DEF LoadOK
    <2> QED
      BY <1>1, <1>2, <2>1, <2>2, PassIInv
  <1>3. ASSUME Pass(t, "idle") PROVE IInv'
    <2>1. pc'[t] = "idle"
      BY <1>0, <1>3, GotoFrame DEF Pass, Label
    <2>2. CallOK(t)'
      BY <2>1 DEF CallOK
    <2> QED
      BY <1>2, <1>3, <2>2
  <1>4. CASE Check(t)
    <2> DEFINE l == IF IsEmpty(mem) THEN "read" ELSE "use"
    <2>1. Pass(t, l) /\ pc[t] = "check" /\ l \in Label /\ l # "idle"
      BY <1>4 DEF Check, Label
    <2>2. pc'[t] = l /\ call'[t] = call[t] /\ mem' = mem
      BY <1>0, <2>1, GotoFrame DEF Pass
    <2>3. CallOK(t)'
      BY <1>0, <2>1, <2>2 DEF CallOK
    <2>4. LoadOK(t)'
      BY <2>2 DEF LoadOK, IsEmpty
    <2> HIDE DEF l
    <2> QED
      BY <1>1, <2>1, <2>3, <2>4, PassIInv
  <1>5. CASE Header(t) \/ Build(t)
    BY <1>3, <1>5 DEF Header, Build
  <1>6. CASE LoginLookup(t)
    <2>1. PICK l \in {"idle", "post"} : Pass(t, l)
      BY <1>6 DEF LoginLookup
    <2>2. CASE l = "post"
      <3>1. pc'[t] = "post" /\ call'[t] = call[t] /\ pc[t] = "use" /\ call[t].op = "login"
        BY <1>0, <1>6, <2>1, <2>2, GotoFrame DEF Pass, Label, LoginLookup
      <3>2. CallOK(t)'
        BY <1>0, <3>1 DEF CallOK
      <3> QED
        BY <1>2, <2>1, <2>2, <3>2
    <2> QED
      BY <1>3, <2>1, <2>2
  <1>7. CASE Post(t)
    <2>1. CASE Pass(t, "idle")
      BY <1>3, <2>1
    <2>2. CASE call[t].secret # "bad" /\ Pass(t, "add")
      <3>1. pc'[t] = "add" /\ call'[t] = call[t] /\ pc[t] = "post"
        BY <1>0, <1>7, <2>2, GotoFrame DEF Pass, Label, Post
      <3>2. CallOK(t)'
        BY <1>0, <2>2, <3>1 DEF CallOK
      <3> QED
        BY <1>2, <2>2, <3>2
    <2> QED
      BY <1>7, <2>1, <2>2 DEF Post
  <1> QED
    BY <1>3, <1>4, <1>5, <1>6, <1>7

(* Read: what the thread loaded is what the file has, or its call fails.   *)
LEMMA ReadIInv == ASSUME IInv, NEW t \in Thread, Read(t) PROVE IInv'
  <1> DEFINE file == IF call[t].path THEN disk.custom ELSE disk.file
  <1>9. CASE Invalid(file)
    BY <1>9, QuietIInv DEF Read
  <1> SUFFICES ASSUME ~Invalid(file) PROVE IInv'
    BY <1>9
  <1>0. TypeOK /\ CallOK(t) /\ LoadOK(t) /\ Pass(t, "assign") /\ pc[t] = "read"
        /\ "assign" \in Label
    BY DEF IInv, Read, Label
  <1>1. LoadConfig(file) \in ConfigSet /\ GoodAuths(LoadConfig(file).auths)
    BY <1>0, Disks, LoadConfigGood DEF TypeOK
  <1>2. loaded' = [loaded EXCEPT ![t] = LoadConfig(file)] /\ loaded \in [Thread -> ConfigSet]
    BY <1>0 DEF Read, TypeOK
  <1>3. pc'[t] = "assign" /\ call'[t] = call[t] /\ edited'[t] = edited[t] /\ mem' = mem
        /\ disk' = disk /\ overtaken' = overtaken
    BY <1>0, GotoFrame DEF Pass
  <1>4. CallOK(t)'
    BY <1>0, <1>3 DEF CallOK
  <1>5. ~call[t].path => file = disk.file
    OBVIOUS
  <1> HIDE DEF file
  <1>6. /\ loaded' \in [Thread -> ConfigSet] /\ loaded'[t] = LoadConfig(file)
        /\ \A u \in Thread \ {t} : loaded'[u] = loaded[u]
    BY <1>1, <1>2
  <1>7. LoadOK(t)'
    BY <1>0, <1>3, <1>5, <1>6 DEF LoadOK
  <1> QED
    BY <1>0, <1>1, <1>4, <1>6, <1>7, PassIInv

(* Begin: nothing is asked of a call that has only begun.                  *)
LEMMA BeginIInv == ASSUME IInv, NEW t \in Thread, Begin(t) PROVE IInv'
  <1>0. TypeOK /\ UNCHANGED <<disk, mem, loaded, edits, newest, overtaken, edited>>
    BY DEF IInv, Begin, history
  <1>1. PICK c \in Call :
            /\ call' = [call EXCEPT ![t] = c]
            /\ pc' = [pc EXCEPT ![t] = IF c.op = "reload" \/ c.path THEN "read" ELSE "check"]
    BY DEF Begin
  <1>2. pc \in [Thread -> Label] /\ call \in [Thread -> Call \union {NoCall}]
    BY <1>0 DEF TypeOK, Label
  <1>3. pc' \in [Thread -> Label] /\ call' \in [Thread -> Call \union {NoCall}]
        /\ call'[t] = c /\ pc'[t] = (IF c.op = "reload" \/ c.path THEN "read" ELSE "check")
        /\ \A u \in Thread \ {t} : pc'[u] = pc[u] /\ call'[u] = call[u]
    BY <1>1, <1>2 DEF Label
  <1>4. calls' \in 0..MaxCalls
    BY <1>0, AuthConstants DEF Begin, TypeOK
  <1>5. TypeOK'
    BY <1>0, <1>3, <1>4 DEF TypeOK, Label
  <1>6. CallOK(t)' /\ LoadOK(t)'
    BY <1>3 DEF CallOK, LoadOK
  <1>7. ASSUME NEW u \in Thread, u # t PROVE CallOK(u)' /\ LoadOK(u)'
    BY <1>0, <1>3, <1>7 DEF CallOK, LoadOK, IInv
  <1>8. NewestOK' /\ GoodAuths(mem'.auths) /\ \A u \in Thread : GoodAuths(loaded'[u].auths)
    BY <1>0 DEF NewestOK, IInv
  <1> QED
    BY <1>5, <1>6, <1>7, <1>8 DEF IInv

(* The command line: nothing is asked of a thread in a call any more.      *)
LEMMA CommandLineIInv == ASSUME IInv, CommandLine PROVE IInv'
  <1>0. TypeOK /\ UNCHANGED <<mem, pc, call, loaded, calls, newest, overtaken>> /\ disk' \in Disk
        /\ edited' = [t \in Thread |-> pc[t] # "idle"]
    BY DEF IInv, CommandLine
  <1>1. edits' \in 0..MaxEdits
    BY <1>0, AuthConstants DEF CommandLine, TypeOK
  <1>2. edited' \in [Thread -> BOOLEAN]
    BY <1>0
  <1>3. TypeOK'
    BY <1>0, <1>1, <1>2 DEF TypeOK
  <1>4. ASSUME NEW t \in Thread PROVE CallOK(t)' /\ LoadOK(t)'
    <2>1. edited'[t] <=> pc[t] # "idle"
      BY <1>0
    <2> QED
      BY <1>0, <2>1 DEF CallOK, LoadOK, IInv
  <1>5. NewestOK' /\ GoodAuths(mem'.auths) /\ \A u \in Thread : GoodAuths(loaded'[u].auths)
    BY <1>0 DEF NewestOK, IInv
  <1> QED
    BY <1>3, <1>4, <1>5 DEF IInv

(* A thread that changes mem overtakes every other one that is in a call.  *)
LEMMA OvertakeFrame ==
    ASSUME TypeOK, NEW t \in Thread, NEW l \in Label, Overtake(t, l)
    PROVE  /\ overtaken' \in [Thread -> BOOLEAN]
           /\ \A u \in Thread \ {t} : pc[u] # "idle" => overtaken'[u]
  <1>1. overtaken \in [Thread -> BOOLEAN]
    BY DEF TypeOK
  <1>2. overtaken' = [u \in Thread |->
            IF u = t THEN l # "idle" /\ overtaken[t] ELSE overtaken[u] \/ pc[u] # "idle"]
    BY DEF Overtake
  <1>3. \A u \in Thread : (IF u = t THEN l # "idle" /\ overtaken[t]
                           ELSE overtaken[u] \/ pc[u] # "idle") \in BOOLEAN
    BY <1>1
  <1>4. overtaken' \in [Thread -> BOOLEAN]
    BY <1>2, <1>3
  <1>5. \A u \in Thread \ {t} : pc[u] # "idle" => overtaken'[u]
    BY <1>2
  <1> QED
    BY <1>4, <1>5

(* What is asked of the threads that were overtaken.                       *)
LEMMA OvertakenOK ==
    ASSUME IInv, NEW t \in Thread, NEW l \in Label, Goto(t, l), Overtake(t, l), disk' = disk,
           NEW u \in Thread \ {t}, loaded'[u] = loaded[u]
    PROVE  CallOK(u)' /\ LoadOK(u)'
  <1>1. TypeOK /\ CallOK(u) /\ LoadOK(u)
    BY DEF IInv
  <1>2. pc'[u] = pc[u] /\ call'[u] = call[u] /\ edited'[u] = edited[u]
        /\ (pc[u] # "idle" => overtaken'[u])
    BY <1>1, GotoFrame, OvertakeFrame
  <1>3. CallOK(u)'
    BY <1>1, <1>2 DEF CallOK
  <1>4. LoadOK(u)'
    BY <1>1, <1>2 DEF LoadOK
  <1> QED
    BY <1>3, <1>4

(* Assign: what is in memory is what the thread loaded.                    *)
LEMMA AssignIInv == ASSUME IInv, NEW t \in Thread, Assign(t) PROVE IInv'
  <1> DEFINE l == IF call[t].op = "reload" THEN "idle" ELSE "use"
  <1>0. TypeOK /\ CallOK(t) /\ LoadOK(t) /\ pc[t] = "assign" /\ mem' = loaded[t]
        /\ newest' = [k \in Key |-> NoCred] /\ loaded' = [loaded EXCEPT ![t] = NoConfig]
        /\ Goto(t, l) /\ Overtake(t, l) /\ UNCHANGED <<disk, calls, edits>>
    BY DEF IInv, Assign
  <1>1. l \in Label /\ l \in {"idle", "use"}
    BY DEF Label
  <1> HIDE DEF l
  <1>2. /\ pc' \in [Thread -> Label] /\ call' \in [Thread -> Call \union {NoCall}]
        /\ edited' \in [Thread -> BOOLEAN] /\ overtaken' \in [Thread -> BOOLEAN]
        /\ pc'[t] = l
        /\ l # "idle" => call'[t] = call[t] /\ edited'[t] = edited[t]
    BY <1>0, <1>1, GotoFrame, OvertakeFrame
  <1>3. NoConfig \in ConfigSet /\ GoodAuths(NoConfig.auths)
    BY DEF NoConfig, ConfigSet, GoodAuths, AuthsSet
  <1>4. loaded \in [Thread -> ConfigSet] /\ loaded' \in [Thread -> ConfigSet]
        /\ loaded'[t] = NoConfig /\ \A u \in Thread \ {t} : loaded'[u] = loaded[u]
    BY <1>0, <1>3 DEF TypeOK
  <1>5. NoCred \in CredSet /\ NoCred.kind = "none"
    BY AuthConstants DEF NoCred, CredSet
  <1>6. mem' \in ConfigSet /\ newest' \in [Key -> CredSet]
    BY <1>0, <1>4, <1>5
  <1>7. TypeOK'
    BY <1>0, <1>2, <1>4, <1>6 DEF TypeOK, Label
  <1>8. CallOK(t)'
    BY <1>0, <1>1, <1>2 DEF CallOK
  <1>9. LoadOK(t)'
    BY <1>0, <1>1, <1>2 DEF LoadOK
  <1>10. \A u \in Thread : CallOK(u)' /\ LoadOK(u)'
    <2> TAKE u \in Thread
    <2>1. CASE u # t
      BY <1>0, <1>1, <1>4, <2>1, OvertakenOK
    <2> QED
      BY <1>8, <1>9, <2>1
  <1>11. GoodAuths(mem'.auths) /\ \A u \in Thread : GoodAuths(loaded'[u].auths)
    BY <1>0, <1>3, <1>4 DEF IInv
  <1>12. NewestOK'
    BY <1>0, <1>5, Names DEF NewestOK
  <1> QED
    BY <1>7, <1>10, <1>11, <1>12 DEF IInv

(* Add: the entry is for the registry of the login, and is its newest one. *)
LEMMA AddIInv == ASSUME IInv, NEW t \in Thread, Add(t) PROVE IInv'
  <1> DEFINE k == call[t].key
             c == Cred(k, "user", call[t].secret)
  <1>0. TypeOK /\ CallOK(t) /\ pc[t] = "add" /\ Goto(t, "idle") /\ Overtake(t, "idle")
        /\ mem' = [mem EXCEPT !.auths = AddAuth(@, k, c)]
        /\ newest' = [newest EXCEPT ![ResolveIndexName(k)] = c]
        /\ UNCHANGED <<disk, loaded, calls, edits>> /\ "idle" \in Label
    BY DEF IInv, Add, Enter, Label
  <1>1. call[t] \in Call /\ call[t].op = "login" /\ call[t].secret # "bad"
    BY <1>0 DEF CallOK
  <1>2. k \in Key /\ c \in CredSet /\ c.kind = "auth" /\ c.reg = k /\ c.secret # "bad"
    BY <1>1, Calls DEF Cred, CredSet
  <1> HIDE DEF k, c
  <1>3. ResolveIndexName(k) \in Key
    BY <1>2, Names
  <1>4. GoodAuths(mem.auths) /\ mem \in ConfigSet
    BY <1>0 DEF IInv, TypeOK
  <1>5. /\ GoodAuths(AddAuth(mem.auths, k, c))
        /\ Keys(AddAuth(mem.auths, k, c)) = Keys(mem.auths) \union {k}
        /\ Entry(AddAuth(mem.auths, k, c), k) = c
        /\ \A n \in Keys(mem.auths) \ {k} :
               Entry(AddAuth(mem.auths, k, c), n) = Entry(mem.auths, n)
    BY <1>2, <1>4, AddAuthGood
  <1>6. mem'.auths = AddAuth(mem.auths, k, c) /\ mem' \in ConfigSet
    <2>1. AddAuth(mem.auths, k, c) \in AuthsSet
      BY <1>5 DEF GoodAuths
    <2> QED
      BY <1>0, <1>4, <2>1 DEF ConfigSet, AuthsSet
  <1>7. newest' \in [Key -> CredSet] /\ newest'[ResolveIndexName(k)] = c
        /\ \A n \in Key \ {ResolveIndexName(k)} : newest'[n] = newest[n]
    BY <1>0, <1>2, <1>3 DEF TypeOK
  <1>8. /\ pc' \in [Thread -> Label] /\ call' \in [Thread -> Call \union {NoCall}]
        /\ edited' \in [Thread -> BOOLEAN] /\ overtaken' \in [Thread -> BOOLEAN]
        /\ pc'[t] = "idle"
    BY <1>0, GotoFrame, OvertakeFrame
  <1>9. TypeOK'
    BY <1>0, <1>6, <1>7, <1>8 DEF TypeOK, Label
  <1>10. \A u \in Thread : CallOK(u)' /\ LoadOK(u)'
    <2> TAKE u \in Thread
    <2>1. CASE u # t
      BY <1>0, <2>1, OvertakenOK
    <2>2. CASE u = t
      BY <1>8, <2>2 DEF CallOK, LoadOK
    <2> QED
      BY <2>1, <2>2
  <1>11. NewestOK'
    <2> SUFFICES ASSUME NEW h \in Registry, newest'[h].kind = "auth", newest'[h].reg = h
                 PROVE  h \in Keys(mem'.auths) /\ Entry(mem'.auths, h) = newest'[h]
      BY DEF NewestOK
    <2>1. h \in Key /\ ResolveIndexName(h) = h
      BY Names
    <2>2. CASE h = ResolveIndexName(k)
      <3>1. newest'[h] = c /\ h = k
        BY <1>2, <1>7, <2>2
      <3> QED
        BY <1>5, <1>6, <3>1
    <2>3. CASE h # ResolveIndexName(k)
      <3>1. newest'[h] = newest[h] /\ h # k
        BY <1>7, <2>1, <2>3
      <3>2. h \in Keys(mem.auths) /\ Entry(mem.auths, h) = newest[h]
        BY <3>1 DEF IInv, NewestOK
      <3> QED
        BY <1>5, <1>6, <3>1, <3>2
    <2> QED
      BY <2>2, <2>3
  <1>12. GoodAuths(mem'.auths) /\ \A u \in Thread : GoodAuths(loaded'[u].auths)
    BY <1>0, <1>5, <1>6 DEF IInv
  <1> QED
    BY <1>9, <1>10, <1>11, <1>12 DEF IInv

(* Every step preserves the invariant.                                     *)
LEMMA NextIInv == ASSUME IInv, [Next]_vars PROVE IInv'
  <1>1. CASE Next
    BY <1>1, QuietIInv, ReadIInv, BeginIInv, AssignIInv, AddIInv, CommandLineIInv DEF Next
  <1>2. CASE UNCHANGED vars
    <2>1. UNCHANGED <<disk, mem, pc, call, loaded, calls, edits, newest, overtaken, edited>>
      BY <1>2 DEF vars, history
    <2>2. TypeOK' /\ NewestOK'
      BY <2>1 DEF IInv, TypeOK, NewestOK
    <2>3. \A t \in Thread : CallOK(t)' /\ LoadOK(t)'
      BY <2>1 DEF IInv, CallOK, LoadOK
    <2> QED
      BY <2>1, <2>2, <2>3 DEF IInv
  <1> QED
    BY <1>1, <1>2

(* The invariant holds in every state of every behavior.                   *)
THEOREM AuthInvariance == Spec => []IInv
  BY InitIInv, NextIInv, PTL DEF Spec

-----------------------------------------------------------------------------
(* Loading                                                                 *)

(* The file is loaded when it is needed, and only then.                    *)
THEOREM LoadedWhenNeededHolds == Spec => LoadedWhenNeeded
  <1>1. ASSUME IInv, NEW t \in Thread, Header(t), ~edited[t], ~overtaken[t], IsEmpty(mem)
        PROVE  IsEmpty(LoadConfig(disk.file))
    <2>1. pc[t] = "use" /\ call[t].op = "header" /\ call[t] \in Call /\ LoadOK(t)
      BY <1>1 DEF Header, IInv, CallOK
    <2>2. ~call[t].path
      BY <2>1, Calls
    <2> QED
      BY <1>1, <2>1, <2>2 DEF LoadOK
  <1>2. ASSUME IInv, [Next]_vars
        PROVE  \/ Keys(mem.auths) \subseteq Keys(mem'.auths)
               \/ \E t \in Thread :
                    Assign(t) /\ (call[t].op = "reload" \/ call[t].path \/ overtaken[t])
    <2>1. CASE mem' = mem
      BY <2>1
    <2>2. ASSUME NEW t \in Thread, Add(t) PROVE Keys(mem.auths) \subseteq Keys(mem'.auths)
      <3>1. CallOK(t) /\ GoodAuths(mem.auths) /\ mem \in ConfigSet
            /\ call[t] \in Call /\ call[t].op = "login" /\ call[t].secret # "bad"
        BY <1>2, <2>2 DEF IInv, TypeOK, CallOK, Add, Enter
      <3> DEFINE c == Cred(call[t].key, "user", call[t].secret)
      <3>2. call[t].key \in Key /\ c \in CredSet /\ c.reg = call[t].key /\ c.secret # "bad"
        BY <3>1, Calls DEF Cred, CredSet
      <3>3. mem' = [mem EXCEPT !.auths = AddAuth(@, call[t].key, c)]
        BY <2>2 DEF Add, Enter
      <3> HIDE DEF c
      <3>4. mem'.auths = AddAuth(mem.auths, call[t].key, c)
        BY <3>1, <3>3 DEF ConfigSet
      <3> QED
        BY <3>1, <3>2, <3>4, AddAuthGood
    <2>3. ASSUME NEW t \in Thread, Assign(t), call[t].op # "reload", ~call[t].path, ~overtaken[t]
          PROVE  Keys(mem.auths) \subseteq Keys(mem'.auths)
      <3>1. IsEmpty(mem)
        BY <1>2, <2>3 DEF IInv, LoadOK, Assign
      <3>2. Keys(mem.auths) = {}
        BY <3>1 DEF IsEmpty, Keys
      <3> QED
        BY <3>2
    <2>4. ASSUME NEW t \in Thread, Begin(t) \/ Check(t) \/ Read(t) \/ Header(t) \/ Build(t)
                                   \/ LoginLookup(t) \/ Post(t)
          PROVE  mem' = mem
      BY <2>4 DEF Begin, Check, Read, Header, Build, LoginLookup, Post, Pass
    <2>5. CommandLine \/ UNCHANGED vars => mem' = mem
      BY DEF CommandLine, vars
    <2> QED
      BY <1>2, <2>1, <2>2, <2>3, <2>4, <2>5 DEF Next
  <1>3. IInv /\ [Next]_vars =>
            [\A t \in Thread : Header(t) /\ ~edited[t] /\ ~overtaken[t] /\ IsEmpty(mem)
                                   => IsEmpty(LoadConfig(disk.file))]_vars
    BY <1>1
  <1>4. Spec => EmptyIsReloaded
    BY <1>3, AuthInvariance, PTL DEF Spec, EmptyIsReloaded
  <1>5. IInv /\ [Next]_vars =>
            [Keys(mem.auths) \subseteq Keys(mem'.auths)
             \/ \E t \in Thread :
                  Assign(t) /\ (call[t].op = "reload" \/ call[t].path \/ overtaken[t])]_vars
    BY <1>2
  <1>6. Spec => LoginsKept
    BY <1>5, AuthInvariance, PTL DEF Spec, LoginsKept
  <1> QED
    BY <1>4, <1>6 DEF LoadedWhenNeeded

-----------------------------------------------------------------------------
(* What is sent                                                            *)

(* What is found among the entries is the one under the name of the        *)
(* registry, or one under another name for it, or nothing.                 *)
LEMMA ResolveAuthsIs ==
    ASSUME NEW auths, GoodAuths(auths), NEW r
    PROVE  /\ r \in Keys(auths) => ResolveAuths(auths, r) = Entry(auths, r)
           /\ \/ ResolveAuths(auths, r) = NoCred
              \/ r \in Keys(auths)
              \/ \E i \in DOMAIN auths : /\ ResolveIndexName(auths[i].key) = r
                                         /\ ResolveAuths(auths, r) = auths[i].cred
           /\ r \notin Keys(auths) /\ (\E i \in DOMAIN auths : ResolveIndexName(auths[i].key) = r)
              => \E i \in DOMAIN auths : /\ ResolveIndexName(auths[i].key) = r
                                         /\ ResolveAuths(auths, r) = auths[i].cred
  <1> DEFINE same == {i \in DOMAIN auths : ResolveIndexName(auths[i].key) = r}
             first == CHOOSE i \in same : \A j \in same : i <= j
  <1>1. same # {} => first \in same
    <2>1. DOMAIN auths = 1..Len(auths)
      BY DEF GoodAuths, AuthsSet
    <2>2. same \in SUBSET Nat
      BY <2>1
    <2> HIDE DEF same
    <2> QED
      BY <2>2, Least
  <1>2. ResolveAuths(auths, r) = IF r \in Keys(auths) THEN Entry(auths, r)
                                 ELSE IF same = {} THEN NoCred ELSE auths[first].cred
    BY DEF ResolveAuths
  <1> HIDE DEF first
  <1>3. CASE r \in Keys(auths)
    BY <1>2, <1>3
  <1>4. CASE r \notin Keys(auths) /\ same = {}
    BY <1>2, <1>4
  <1>5. CASE r \notin Keys(auths) /\ same # {}
    <2>1. first \in DOMAIN auths /\ ResolveIndexName(auths[first].key) = r
      BY <1>1, <1>5
    <2>2. ResolveAuths(auths, r) = auths[first].cred
      BY <1>2, <1>5
    <2> QED
      BY <1>5, <2>1, <2>2
  <1> QED
    BY <1>3, <1>4, <1>5

(* Credentials from the entries of good auths are for the registry.        *)
LEMMA EntriesOwn ==
    ASSUME NEW auths, GoodAuths(auths), NEW h \in Registry, ResolveAuths(auths, h).kind = "auth"
    PROVE  ResolveIndexName(ResolveAuths(auths, h).reg) = h
  <1>1. NoCred.kind # "auth" /\ ResolveIndexName(h) = h
    BY Names DEF NoCred
  <1>2. CASE h \in Keys(auths)
    <2>1. PICK i \in DOMAIN auths : auths[i].key = h
      BY <1>2 DEF Keys
    <2>2. ResolveAuths(auths, h) = auths[i].cred
      BY <1>2, <2>1, ResolveAuthsIs, EntryIs
    <2> QED
      BY <1>1, <2>1, <2>2 DEF GoodAuths
  <1>3. CASE h \notin Keys(auths)
    <2>1. PICK i \in DOMAIN auths : /\ ResolveIndexName(auths[i].key) = h
                                    /\ ResolveAuths(auths, h) = auths[i].cred
      BY <1>1, <1>3, ResolveAuthsIs
    <2> QED
      BY <2>1 DEF GoodAuths
  <1> QED
    BY <1>2, <1>3

(* The name a store is asked for is one of the registry's.                 *)
Asked(h) == IF h = Hub THEN HubUrl ELSE h

(* Its answer is what it holds under that name.                            *)
LEMMA StoreOwn ==
    ASSUME NEW s \in StoreSet, NEW h \in Registry
    PROVE  /\ Asked(h) \in Key /\ ResolveIndexName(Asked(h)) = h
           /\ s[Asked(h)].kind = "auth" => ResolveIndexName(s[Asked(h)].reg) = h
  <1>1. Asked(h) \in Key /\ ResolveIndexName(Asked(h)) = h
    BY Names, AuthConstants DEF Asked
  <1>2. s[Asked(h)] \in Own(Asked(h))
    BY <1>1 DEF StoreSet
  <1> QED
    BY <1>1, <1>2 DEF Own

(* Credentials are a registry's own, from whatever source, and good ones.  *)
THEOREM OwnCredentialsHolds == Spec => []OwnCredentials
  <1>1. ASSUME IInv PROVE SendsOwnRegistry
    <2> SUFFICES ASSUME NEW h \in Registry, Resolve(disk, mem, h).kind = "auth"
                 PROVE  ResolveIndexName(Resolve(disk, mem, h).reg) = h
      BY DEF SendsOwnRegistry
    <2>1. GoodAuths(mem.auths) /\ disk.default \in StoreSet /\ disk.helper \in StoreSet
      BY <1>1, Disks DEF IInv, TypeOK
    <2>2. ResolveIndexName(h) = h
      BY Names
    <2> DEFINE s == StoreOf(mem, h)
               c == IF s = "none" THEN NoCred ELSE ResolveStore(disk, s, h)
    <2>3. Resolve(disk, mem, h) = IF c.kind # "none" THEN c ELSE ResolveAuths(mem.auths, h)
      BY <2>2 DEF Resolve
    <2>4. s \in {"helper", "default", "none"}
      BY DEF StoreOf
    <2>5. c = NoCred \/ c = disk.default[Asked(h)] \/ c = disk.helper[Asked(h)]
      BY <2>4 DEF ResolveStore, Asked
    <2> HIDE DEF c
    <2>6. c.kind = "auth" => ResolveIndexName(c.reg) = h
      <3>1. NoCred.kind # "auth"
        BY DEF NoCred
      <3>2. \A st \in StoreSet : st[Asked(h)].kind = "auth"
                                 => ResolveIndexName(st[Asked(h)].reg) = h
        BY StoreOwn
      <3> QED
        BY <2>1, <2>5, <3>1, <3>2
    <2>7. CASE c.kind # "none"
      BY <2>3, <2>6, <2>7
    <2>8. CASE c.kind = "none"
      BY <2>1, <2>3, <2>8, EntriesOwn
    <2> QED
      BY <2>7, <2>8
  <1>2. ASSUME IInv PROVE RefusedNotKept
    BY <1>2 DEF IInv, GoodAuths, RefusedNotKept
  <1>3. IInv => OwnCredentials
    BY <1>1, <1>2 DEF IInv, OwnCredentials
  <1> QED
    BY <1>3, AuthInvariance, PTL

(* A login under the registry's own name is what is sent to it.            *)
THEOREM NewestLoginUsedHolds == Spec => []NewestLoginUsed
  <1>1. ASSUME IInv, NEW h \in Registry, newest[h].kind = "auth", newest[h].reg = h,
               StoreOf(mem, h) = "none" \/ ResolveStore(disk, StoreOf(mem, h), h) = NoCred
        PROVE  Resolve(disk, mem, h) = newest[h]
    <2>1. GoodAuths(mem.auths) /\ h \in Keys(mem.auths) /\ Entry(mem.auths, h) = newest[h]
      BY <1>1 DEF IInv, NewestOK
    <2>2. ResolveIndexName(h) = h /\ NoCred.kind = "none"
      BY Names DEF NoCred
    <2>3. Resolve(disk, mem, h) = ResolveAuths(mem.auths, h)
      BY <1>1, <2>2 DEF Resolve
    <2> QED
      BY <2>1, <2>3, ResolveAuthsIs
  <1>2. IInv => NewestLoginUsed
    BY <1>1 DEF NewestLoginUsed
  <1> QED
    BY <1>2, AuthInvariance, PTL

(* Entries under names, and under the hosts of these names.                *)
LEMMA Spreads ==
    ASSUME NEW f, NEW ks, ks \subseteq Key
    PROVE  /\ DOMAIN Spread(f, ks) = ks \union {HostOf[k] : k \in ks}
           /\ \A x \in ks : Spread(f, ks)[x] = f[x]
           /\ \A x \in DOMAIN Spread(f, ks) :
                  \E k \in ks : ResolveIndexName(x) = ResolveIndexName(k)
  <1>1. DOMAIN Spread(f, ks) = ks \union {HostOf[k] : k \in ks}
        /\ \A x \in ks : Spread(f, ks)[x] = f[x]
    BY DEF Spread
  <1>2. \A k \in ks : ResolveIndexName(HostOf[k]) = ResolveIndexName(k)
    BY Names
  <1> QED
    BY <1>1, <1>2

\* What a build collects: from the default store, from helpers.
Lists == IF mem.store THEN {k \in Key : disk.default[k].kind # "none"} ELSE {}
Stored == Spread([k \in Lists |-> ResolveStore(disk, "default", k)], Lists)
Helped == Spread([k \in mem.helpers |-> ResolveStore(disk, "helper", k)], mem.helpers)
Collected == DOMAIN Helped \union DOMAIN Stored \union Keys(mem.auths)

(* What is collected is for the registries the names stand for.            *)
LEMMA CollectedFor ==
    ASSUME mem.helpers \subseteq Key
    PROVE  /\ \A x \in DOMAIN Helped :
                  \E k \in mem.helpers : ResolveIndexName(x) = ResolveIndexName(k)
           /\ \A x \in DOMAIN Stored :
                  \E k \in Lists : ResolveIndexName(x) = ResolveIndexName(k)
           /\ \A x \in Lists : x \in DOMAIN Stored /\ Stored[x] = ResolveStore(disk, "default", x)
  <1> DEFINE f == [k \in mem.helpers |-> ResolveStore(disk, "helper", k)]
             g == [k \in Lists |-> ResolveStore(disk, "default", k)]
  <1>1. Helped = Spread(f, mem.helpers) /\ Stored = Spread(g, Lists)
    BY DEF Helped, Stored
  <1>2. \A x \in Lists : g[x] = ResolveStore(disk, "default", x)
    OBVIOUS
  <1>3. Lists \subseteq Key
    BY DEF Lists
  <1> HIDE DEF f, g
  <1>4. \A x \in DOMAIN Helped : \E k \in mem.helpers : ResolveIndexName(x) = ResolveIndexName(k)
    BY <1>1, Spreads
  <1>5. \A x \in DOMAIN Stored : \E k \in Lists : ResolveIndexName(x) = ResolveIndexName(k)
    BY <1>1, <1>3, Spreads
  <1>6. \A x \in Lists : x \in DOMAIN Stored /\ Stored[x] = g[x]
    BY <1>1, <1>3, Spreads
  <1> QED
    BY <1>2, <1>4, <1>5, <1>6

(* The credentials of a build: those of helpers first, then those of the   *)
(* store, then entries; and those of the hub under its URL too.            *)
LEMMA AllIs ==
    /\ DOMAIN AllCredentials(disk, mem) = Collected \union (IF Hub \in Collected THEN {HubUrl} ELSE {})
    /\ \A k \in Collected : AllCredentials(disk, mem)[k] =
           IF k \in DOMAIN Helped THEN Helped[k]
           ELSE IF k \in DOMAIN Stored THEN Stored[k] ELSE Entry(mem.auths, k)
    /\ Hub \in Collected /\ HubUrl \notin Collected =>
           AllCredentials(disk, mem)[HubUrl] = AllCredentials(disk, mem)[Hub]
  <1> DEFINE entries == [k \in Keys(mem.auths) |-> Entry(mem.auths, k)]
             at(k) == IF k \in DOMAIN Helped THEN Helped[k]
                      ELSE IF k \in DOMAIN Stored THEN Stored[k] ELSE entries[k]
  <1>1. AllCredentials(disk, mem) =
            [k \in Collected \union (IF Hub \in Collected THEN {HubUrl} ELSE {}) |->
                IF k \in Collected THEN at(k) ELSE at(Hub)]
    BY DEF AllCredentials, Collected, Helped, Stored, Lists
  <1>2. \A k \in Collected : k \notin DOMAIN Helped /\ k \notin DOMAIN Stored
                             => entries[k] = Entry(mem.auths, k)
    BY DEF Collected
  <1>3. \A k \in Collected : at(k) = IF k \in DOMAIN Helped THEN Helped[k]
                             ELSE IF k \in DOMAIN Stored THEN Stored[k] ELSE Entry(mem.auths, k)
    BY <1>2
  <1> HIDE DEF at
  <1> QED
    BY <1>1, <1>3

(* A build sends for a registry what a pull from it would send.            *)
THEOREM BuildSendsWhatPullSendsHolds == Spec => []BuildSendsWhatPullSends
  <1> DEFINE all == AllCredentials(disk, mem)
             own(h) == Resolve(disk, mem, h)
             entries(h) == {k \in Keys(mem.auths) : ResolveIndexName(k) = h}
  <1>1. ASSUME IInv, NEW h \in Registry,
               own(h).kind = "auth",
               \A k, l \in entries(h) : k = l,
               h = Hub => entries(h) \subseteq {Hub, HubUrl},
               \A k \in mem.helpers : ResolveIndexName(k) # h,
               \A k \in Key : ResolveIndexName(k) = h /\ disk.default[k].kind # "none"
                                  => k = IF h = Hub THEN HubUrl ELSE h
        PROVE  DaemonFinds(all, h) = own(h)
    <2> DEFINE a == Asked(h)
    <2>1. /\ GoodAuths(mem.auths) /\ mem.helpers \subseteq Key /\ disk.default \in StoreSet
          /\ Lists \subseteq Key
      BY <1>1, Disks DEF IInv, TypeOK, ConfigSet, Lists
    <2>2. h \in Key /\ HostOf[h] = h /\ ResolveIndexName(h) = h /\ h # HubHost
          /\ HubUrl \in Key /\ HostOf[HubUrl] = HubHost /\ HubUrl # Hub /\ Hub \in Key
          /\ ResolveIndexName(HubUrl) = Hub
      BY Names, AuthConstants
    <2>3. a \in Key /\ ResolveIndexName(a) = h /\ a # Hub
      BY <2>1, <2>2, StoreOwn DEF Asked
    <2>4. \A x \in DOMAIN Helped : ResolveIndexName(x) # h
      BY <1>1, <2>1, CollectedFor
    <2>5. \A k \in Lists : ResolveIndexName(k) = h => k = a
      BY <1>1 DEF Lists, Asked
    <2>6. \A x \in DOMAIN Stored : ResolveIndexName(x) = h => a \in Lists
      BY <2>1, <2>5, CollectedFor
    <2>7. own(h) = IF mem.store /\ disk.default[a].kind # "none" THEN disk.default[a]
                   ELSE ResolveAuths(mem.auths, h)
      <3>1. a \notin mem.helpers
        BY <1>1, <2>3
      <3>2. StoreOf(mem, h) = IF mem.store THEN "default" ELSE "none"
        BY <3>1 DEF StoreOf, Asked
      <3>3. ResolveStore(disk, "default", h) = disk.default[a]
        BY DEF ResolveStore, Asked
      <3>4. NoCred.kind = "none"
        BY DEF NoCred
      <3> QED
        BY <2>2, <3>2, <3>3, <3>4 DEF Resolve
    <2> DEFINE names == IF h = Hub THEN {HubUrl} ELSE {k \in Key : HostOf[k] = h}
               found == names \intersect DOMAIN all
    <2>8. DaemonFinds(all, h) = IF found = {} THEN NoCred
                                ELSE all[IF h \in found THEN h ELSE CHOOSE k \in found : TRUE]
      BY DEF DaemonFinds
    <2>9. \A k \in names : ResolveIndexName(k) = h
      BY <2>2, Names
    <2>10. CASE a \in Lists
      <3>1. own(h) = disk.default[a]
        BY <2>7, <2>10 DEF Lists
      <3>2. a \in DOMAIN Stored /\ Stored[a] = disk.default[a]
        <4>1. ResolveStore(disk, "default", a) = disk.default[a]
          BY <2>3 DEF ResolveStore
        <4> QED
          BY <2>1, <2>10, <4>1, CollectedFor
      <3>3. a \in DOMAIN all /\ all[a] = own(h)
        BY <2>3, <2>4, <3>1, <3>2, AllIs DEF Collected
      <3>4. CASE h = Hub
        <4>1. a = HubUrl /\ found = {HubUrl} /\ h \notin found
          BY <2>2, <3>3, <3>4 DEF Asked
        <4> HIDE DEF found, own, all, a
        <4> QED
          BY <2>8, <3>3, <4>1
      <3>5. CASE h # Hub
        <4>1. a = h /\ h \in found
          BY <2>2, <3>3, <3>5 DEF Asked
        <4> HIDE DEF found, own, all, a
        <4> QED
          BY <2>8, <3>3, <4>1
      <3> QED
        BY <3>4, <3>5
    <2>11. CASE a \notin Lists
      <3>1. own(h) = ResolveAuths(mem.auths, h)
        BY <2>3, <2>7, <2>11 DEF Lists
      <3>2. PICK e \in Keys(mem.auths) : ResolveIndexName(e) = h /\ own(h) = Entry(mem.auths, e)
        <4>1. ResolveAuths(mem.auths, h) # NoCred
          <5>1. own(h).kind = "auth" /\ NoCred.kind = "none"
            BY <1>1 DEF NoCred
          <5> HIDE DEF own
          <5> QED
            BY <3>1, <5>1
        <4>2. CASE h \in Keys(mem.auths)
          BY <2>1, <2>2, <3>1, <4>2, ResolveAuthsIs
        <4>3. CASE h \notin Keys(mem.auths)
          <5>1. PICK i \in DOMAIN mem.auths :
                    /\ ResolveIndexName(mem.auths[i].key) = h
                    /\ ResolveAuths(mem.auths, h) = mem.auths[i].cred
            BY <2>1, <4>1, <4>3, ResolveAuthsIs
          <5> QED
            BY <2>1, <3>1, <5>1, EntryIs
        <4> QED
          BY <4>2, <4>3
      <3>3. e \in entries(h) /\ \A k \in entries(h) : k = e
        BY <1>1, <3>2
      <3>4. \A x \in Collected : ResolveIndexName(x) = h => x = e
        BY <2>4, <2>6, <2>11, <3>3 DEF Collected
      <3>5. e \in Collected /\ all[e] = own(h)
        BY <2>4, <2>6, <2>11, <3>2, AllIs DEF Collected
      <3>6. e \in Key
        <4>1. e \in Section => e = h
          BY <3>2 DEF ResolveIndexName
        <4>2. e \in Key \union Section
          <5>1. PICK i \in DOMAIN mem.auths : e = mem.auths[i].key
            BY DEF Keys
          <5>2. mem.auths \in AuthsSet
            BY <2>1 DEF GoodAuths
          <5> DEFINE E == [key : Key \union Section, cred : CredSet]
          <5>3. mem.auths \in Seq(E)
            BY <5>2 DEF AuthsSet
          <5> HIDE DEF E
          <5>4. mem.auths[i] \in E
            BY <5>3
          <5> QED
            BY <5>1, <5>4 DEF E
        <4> QED
          BY <2>2, <4>1, <4>2
      <3>7. CASE h = Hub
        <4>1. HubUrl \in DOMAIN all /\ all[HubUrl] = own(h)
          <5>1. CASE e = HubUrl
            BY <3>5, <5>1, AllIs
          <5>2. CASE e = Hub
            <6>1. HubUrl \notin Collected /\ Hub \in Collected
              BY <2>2, <3>4, <3>5, <3>7, <5>2
            <6> QED
              BY <3>5, <5>2, <6>1, AllIs
          <5> QED
            BY <1>1, <3>3, <3>7, <5>1, <5>2
        <4>2. found = {HubUrl} /\ h \notin found
          BY <2>2, <3>7, <4>1
        <4> HIDE DEF found, own, all
        <4> QED
          BY <2>8, <4>1, <4>2
      <3>8. CASE h # Hub
        <4>1. HostOf[e] = h
          BY <3>2, <3>6, <3>8, Names
        <4>2. e \in found
          BY <3>5, <3>6, <3>8, <4>1, AllIs
        <4>3. HubUrl \notin names
          BY <2>2, <3>8
        <4>4. \A x \in found : x = e
          BY <2>9, <3>4, <4>3, AllIs
        <4>5. found = {e}
          BY <4>2, <4>4
        <4> HIDE DEF found, own, all
        <4> QED
          BY <2>8, <3>5, <4>5
      <3> QED
        BY <3>7, <3>8
    <2> QED
      BY <2>10, <2>11
  <1>2. IInv => BuildSendsWhatPullSends
    BY <1>1 DEF BuildSendsWhatPullSends
  <1> QED
    BY <1>2, AuthInvariance, PTL

-----------------------------------------------------------------------------
(* BuildContext: numbers and sequences.  Its state has no variable in      *)
(* common with RegistryAuth's.                                             *)

(* A bounded one has a greatest one.                                       *)
LEMMA Greatest ==
    ASSUME NEW n \in Nat, NEW T \in SUBSET (1..n), T # {}
    PROVE  \E m \in T : \A k \in T : k <= m
  <1> DEFINE U == {k \in 0..n : n - k \in T}
  <1>1. U \in SUBSET Nat
    OBVIOUS
  <1>2. U # {}
    <2>1. PICK k \in T : TRUE
      OBVIOUS
    <2>2. k \in 1..n /\ n - k \in 0..n /\ n - (n - k) = k
      OBVIOUS
    <2>3. n - k \in U
      BY <2>1, <2>2
    <2> QED
      BY <2>3
  <1>3. PICK u \in U : \A k \in U : u <= k
    <2> HIDE DEF U
    <2> QED
      BY <1>1, <1>2, Least
  <1>4. \A k \in T : k <= n - u
    <2> TAKE k \in T
    <2>1. k \in 1..n /\ n - k \in 0..n /\ n - (n - k) = k
      OBVIOUS
    <2>2. n - k \in U
      BY <2>1
    <2>3. u <= n - k /\ u \in 0..n
      BY <1>3, <2>2
    <2> QED
      BY <2>1, <2>3
  <1>5. n - u \in T
    BY <1>3
  <1> QED
    BY <1>4, <1>5

(* What is known of every number below one, if of that below, is known of  *)
(* all: stated of sets, which have no induction.                           *)
LEMMA Climb ==
    ASSUME NEW n \in Nat, NEW T \in SUBSET (1..n), 1 \in T,
           \A i \in 1..n : i \in T /\ i < n => i + 1 \in T
    PROVE  T = 1..n
  <1> DEFINE U == (1..n) \ T
  <1> SUFFICES ASSUME U # {} PROVE FALSE
    OBVIOUS
  <1>1. PICK m \in U : \A k \in U : m <= k
    <2>1. U \in SUBSET Nat
      OBVIOUS
    <2> HIDE DEF U
    <2> QED
      BY <2>1, Least
  <1>2. m \in 1..n /\ m # 1
    BY <1>1
  <1>3. m - 1 \in 1..n /\ m - 1 \notin U /\ m - 1 < n
    BY <1>1, <1>2
  <1>4. (m - 1) + 1 \in T
    BY <1>3
  <1> QED
    BY <1>1, <1>2, <1>4

(* The beginning of a path, and its length and names.                      *)
LEMMA Beginning ==
    ASSUME NEW p \in Seq(STRING), NEW n \in 0..Len(p)
    PROVE  /\ SubSeq(p, 1, n) \in Seq(STRING) /\ Len(SubSeq(p, 1, n)) = n
           /\ \A i \in 1..n : SubSeq(p, 1, n)[i] = p[i]
  OBVIOUS

(* Sequences with the same names are the same.                             *)
LEMMA SameNames ==
    ASSUME NEW p \in Seq(STRING), NEW q \in Seq(STRING), Len(p) = Len(q),
           \A i \in 1..Len(p) : p[i] = q[i]
    PROVE  p = q
  OBVIOUS

(* A beginning of a beginning is a beginning.                              *)
LEMMA Shorter ==
    ASSUME NEW p \in Seq(STRING), NEW n \in 0..Len(p), NEW m \in 0..n
    PROVE  SubSeq(SubSeq(p, 1, n), 1, m) = SubSeq(p, 1, m)
  <1>1. m \in 0..Len(p)
    OBVIOUS
  <1> QED
    BY <1>1, Beginning, SameNames

(* The whole of a path is a beginning of it.                               *)
LEMMA Whole == ASSUME NEW p \in Seq(STRING) PROVE SubSeq(p, 1, Len(p)) = p
  <1>1. Len(p) \in 0..Len(p)
    OBVIOUS
  <1> QED
    BY <1>1, Beginning, SameNames

(* What ends where the beginning of a path does, below the same parent, is *)
(* that beginning.                                                         *)
LEMMA Ends ==
    ASSUME NEW p \in Seq(STRING), NEW n \in 1..Len(p)
    PROVE  /\ BaseName(SubSeq(p, 1, n)) = p[n]
           /\ Parent(SubSeq(p, 1, n)) = SubSeq(p, 1, n - 1)
  <1>1. n \in 0..Len(p) /\ n - 1 \in 0..n /\ n \in 1..n
    OBVIOUS
  <1>2. Len(SubSeq(p, 1, n)) = n /\ SubSeq(p, 1, n)[n] = p[n]
    BY <1>1, Beginning
  <1> QED
    BY <1>1, <1>2, Shorter DEF BaseName, Parent

-----------------------------------------------------------------------------
(* The tree of a directory                                                 *)

(* Every directory on the way to a path of a tree is in the tree.          *)
LEMMA Ancestors ==
    ASSUME NEW tree, tree \subseteq Path, Closed(tree), NEW p \in tree, NEW n \in 1..Len(p) - 1
    PROVE  SubSeq(p, 1, n) \in tree /\ BaseName(SubSeq(p, 1, n)) \in Dir
  <1>0. \A q \in tree : q \in Seq(STRING) /\ q # <<>>
    BY ContextConstants
  <1>1. p \in Seq(STRING) /\ Len(p) \in Nat \ {0} /\ n \in 1..Len(p)
    BY <1>0
  <1> DEFINE T == {i \in 1..Len(p) : SubSeq(p, 1, Len(p) + 1 - i) \in tree}
  <1>2. 1 \in T
    <2>1. SubSeq(p, 1, Len(p)) = p /\ 1 \in 1..Len(p) /\ Len(p) + 1 - 1 = Len(p)
      BY <1>1, Whole
    <2> QED
      BY <2>1
  <1>3. ASSUME NEW i \in 1..Len(p), i \in T, i < Len(p) PROVE i + 1 \in T
    <2> DEFINE m == Len(p) + 1 - i
    <2>1. m \in 2..Len(p) /\ m \in 1..Len(p) /\ m \in 0..Len(p) /\ i + 1 \in 1..Len(p)
          /\ Len(p) + 1 - (i + 1) = m - 1
      BY <1>1, <1>3
    <2>2. SubSeq(p, 1, m) \in tree
      BY <1>3
    <2>3. Len(SubSeq(p, 1, m)) = m /\ m # 1
      BY <1>1, <2>1, Beginning
    <2>4. Parent(SubSeq(p, 1, m)) \in tree
      BY <2>2, <2>3 DEF Closed
    <2>5. SubSeq(p, 1, m - 1) \in tree
      BY <1>1, <2>1, <2>4, Ends
    <2> QED
      BY <2>1, <2>5
  <1>4. T = 1..Len(p)
    <2>1. Len(p) \in Nat /\ T \in SUBSET (1..Len(p))
      BY <1>1
    <2> HIDE DEF T
    <2> QED
      BY <1>2, <1>3, <2>1, Climb
  <1>5. \A k \in 1..Len(p) : SubSeq(p, 1, k) \in tree
    <2> TAKE k \in 1..Len(p)
    <2>1. Len(p) + 1 - k \in 1..Len(p) /\ Len(p) + 1 - (Len(p) + 1 - k) = k
      BY <1>1
    <2>2. Len(p) + 1 - k \in T
      BY <1>4, <2>1
    <2> QED
      BY <2>1, <2>2
  <1>6. n + 1 \in 1..Len(p) /\ n + 1 \in 0..Len(p) /\ n + 1 # 1 /\ (n + 1) - 1 = n
    BY <1>1
  <1>7. SubSeq(p, 1, n + 1) \in tree /\ Len(SubSeq(p, 1, n + 1)) = n + 1
    BY <1>1, <1>5, <1>6, Beginning
  <1>8. Parent(SubSeq(p, 1, n + 1)) = SubSeq(p, 1, n)
    BY <1>1, <1>6, Ends
  <1>9. BaseName(Parent(SubSeq(p, 1, n + 1))) \in Dir
    BY <1>6, <1>7 DEF Closed
  <1> QED
    BY <1>1, <1>5, <1>8, <1>9

-----------------------------------------------------------------------------
(* Patterns                                                                *)

Rule == [exclusion : BOOLEAN, dirs : Seq(STRING)]

(* A path matches itself, whatever names it has.                           *)
LEMMA MatchesItself == ASSUME NEW p \in Seq(STRING), p # <<>> PROVE Match(p, p)
  <1> DEFINE at == [i \in 1..Len(p) + 1 |-> i]
  <1>1. at \in [1..Len(p) + 1 -> 1..Len(p) + 1]
    OBVIOUS
  <1>2. at[1] = 1 /\ at[Len(p) + 1] = Len(p) + 1
    OBVIOUS
  <1>3. \A i \in 1..Len(p) : at[i] = i /\ at[i + 1] = i + 1
    OBVIOUS
  <1> HIDE DEF at
  <1>4. \A i \in 1..Len(p) :
            IF p[i] = "**" THEN at[i] <= at[i + 1] /\ (i = Len(p) => at[i] < at[i + 1])
            ELSE at[i + 1] = at[i] + 1 /\ p[i] \in {"*", p[at[i]]}
    BY <1>3
  <1> QED
    BY <1>1, <1>2, <1>4 DEF Match

(* Without "**" a pattern matches paths that are as long as it is, name    *)
(* by name.                                                                *)
LEMMA MatchNames ==
    ASSUME NEW dirs \in Seq(STRING), NEW p \in Seq(STRING), Match(dirs, p),
           \A i \in 1..Len(dirs) : dirs[i] # "**"
    PROVE  Len(dirs) = Len(p) /\ \A i \in 1..Len(p) : dirs[i] \in {"*", p[i]}
  <1>1. PICK at \in [1..Len(dirs) + 1 -> 1..Len(p) + 1] :
            /\ at[1] = 1 /\ at[Len(dirs) + 1] = Len(p) + 1
            /\ \A i \in 1..Len(dirs) : at[i + 1] = at[i] + 1 /\ dirs[i] \in {"*", p[at[i]]}
    BY DEF Match
  <1>2. Len(dirs) + 1 \in Nat /\ 1 \in 1..Len(dirs) + 1
    OBVIOUS
  <1> DEFINE T == {i \in 1..Len(dirs) + 1 : at[i] = i}
  <1>3. 1 \in T
    BY <1>1, <1>2
  <1>4. ASSUME NEW i \in 1..Len(dirs) + 1, i \in T, i < Len(dirs) + 1 PROVE i + 1 \in T
    <2>1. i \in 1..Len(dirs) /\ i + 1 \in 1..Len(dirs) + 1
      BY <1>4
    <2> QED
      BY <1>1, <1>4, <2>1
  <1>5. T = 1..Len(dirs) + 1
    <2>1. T \in SUBSET (1..Len(dirs) + 1)
      OBVIOUS
    <2> HIDE DEF T
    <2> QED
      BY <1>2, <1>3, <1>4, <2>1, Climb
  <1>6. \A i \in 1..Len(dirs) + 1 : at[i] = i
    BY <1>5
  <1> QED
    BY <1>1, <1>6

(* Without any wildcard it matches one path, itself.                       *)
LEMMA MatchLiteral ==
    ASSUME NEW dirs \in Seq(STRING), NEW p \in Seq(STRING), Match(dirs, p),
           \A i \in 1..Len(dirs) : dirs[i] \notin Wild
    PROVE  dirs = p
  <1>1. \A i \in 1..Len(dirs) : dirs[i] # "**" /\ dirs[i] # "*"
    BY DEF Wild
  <1>2. Len(dirs) = Len(p) /\ \A i \in 1..Len(p) : dirs[i] \in {"*", p[i]}
    BY <1>1, MatchNames
  <1>3. \A i \in 1..Len(dirs) : dirs[i] = p[i]
    BY <1>1, <1>2
  <1> QED
    BY <1>2, <1>3, SameNames

(* The empty pattern matches no path.                                      *)
LEMMA MatchNothing ==
    ASSUME NEW p \in Seq(STRING), p # <<>>, NEW dirs \in Seq(STRING), Match(dirs, p)
    PROVE  dirs # <<>>
  <1> SUFFICES ASSUME dirs = <<>> PROVE FALSE
    OBVIOUS
  <1>1. Len(dirs) + 1 = 1 /\ Len(p) + 1 # 1
    OBVIOUS
  <1> QED
    BY <1>1 DEF Match

(* What hits a path matches the path or a beginning of it.                 *)
LEMMA HitsAny ==
    ASSUME NEW r \in Rule, NEW p \in Seq(STRING), p # <<>>, Hits(r, p)
    PROVE  AnyHit(r, p)
  <1>1. CASE Match(r.dirs, p)
    <2>1. Len(p) \in 1..Len(p)
      OBVIOUS
    <2> QED
      BY <1>1, <2>1, Whole DEF AnyHit
  <1>2. CASE Len(r.dirs) < Len(p) /\ Match(r.dirs, SubSeq(p, 1, Len(r.dirs)))
    <2>1. r.dirs \in Seq(STRING) /\ r.dirs # <<>>
      BY DEF Hits, Rule
    <2>2. Len(r.dirs) \in 1..Len(p)
      BY <1>2, <2>1
    <2> QED
      BY <1>2, <2>2 DEF AnyHit
  <1> QED
    BY <1>1, <1>2 DEF Hits

(* And a pattern that matches a beginning which has as many names hits.    *)
LEMMA AnyHits ==
    ASSUME NEW r \in Rule, NEW p \in Seq(STRING), NEW n \in 1..Len(p), Len(r.dirs) = n,
           Match(r.dirs, SubSeq(p, 1, n))
    PROVE  Hits(r, p)
  <1>1. r.dirs # <<>>
    BY DEF Rule
  <1>2. CASE n = Len(p)
    BY <1>1, <1>2, Whole DEF Hits
  <1>3. CASE n < Len(p)
    BY <1>1, <1>3 DEF Hits
  <1> QED
    BY <1>2, <1>3

(* What matches a beginning of a beginning of a path does so of the path.  *)
LEMMA AnyHitBelow ==
    ASSUME NEW r \in Rule, NEW p \in Seq(STRING), NEW n \in 1..Len(p), AnyHit(r, SubSeq(p, 1, n))
    PROVE  AnyHit(r, p)
  <1>1. n \in 0..Len(p) /\ Len(SubSeq(p, 1, n)) = n
    BY Beginning
  <1>2. PICK m \in 1..n : Match(r.dirs, SubSeq(SubSeq(p, 1, n), 1, m))
    BY <1>1 DEF AnyHit
  <1>3. m \in 0..n /\ m \in 1..Len(p)
    OBVIOUS
  <1> QED
    BY <1>1, <1>2, <1>3, Shorter DEF AnyHit

(* A pattern without wildcards is the beginning of the path it matches.    *)
LEMMA AnyHitLiteral ==
    ASSUME NEW r \in Rule, NEW p \in Seq(STRING), AnyHit(r, p),
           \A k \in DOMAIN r.dirs : r.dirs[k] \notin Wild
    PROVE  \E n \in 1..Len(p) : r.dirs = SubSeq(p, 1, n) /\ Len(r.dirs) = n
  <1>1. r.dirs \in Seq(STRING) /\ \A k \in 1..Len(r.dirs) : r.dirs[k] \notin Wild
    BY DEF Rule
  <1>2. PICK n \in 1..Len(p) : Match(r.dirs, SubSeq(p, 1, n))
    BY DEF AnyHit
  <1>3. SubSeq(p, 1, n) \in Seq(STRING) /\ Len(SubSeq(p, 1, n)) = n
    BY Beginning
  <1>4. r.dirs = SubSeq(p, 1, n)
    BY <1>1, <1>2, <1>3, MatchLiteral
  <1> QED
    BY <1>3, <1>4

-----------------------------------------------------------------------------
(* The rule of .dockerignore                                               *)

(* The last of the patterns that hit decides.                              *)
LEMMA LastDecides ==
    ASSUME NEW H, NEW k \in H, H \subseteq Nat, \A j \in H : j <= k
    PROVE  Decides(H) <=> ~patterns[k].exclusion
  <1>1. \A i \in H : (\A j \in H : j <= i) => i = k
    OBVIOUS
  <1>2. (CHOOSE i \in H : \A j \in H : j <= i) = k
    BY <1>1
  <1> QED
    BY <1>2 DEF Decides

(* If one has hit, there is a last one.                                    *)
LEMMA HasLast ==
    ASSUME patterns \in Seq(Rule), NEW H \in SUBSET (DOMAIN patterns), H # {}
    PROVE  \E k \in H : (\A j \in H : j <= k) /\ (Decides(H) <=> ~patterns[k].exclusion)
  <1>1. Len(patterns) \in Nat /\ H \in SUBSET (1..Len(patterns))
    OBVIOUS
  <1>2. PICK k \in H : \A j \in H : j <= k
    BY <1>1, Greatest
  <1>3. H \subseteq Nat
    BY <1>1
  <1> QED
    BY <1>2, <1>3, LastDecides

(* The patterns that hit a path, and those that hit it or a directory it   *)
(* is in.                                                                  *)
Hit(p) == {i \in DOMAIN patterns : Hits(patterns[i], p)}
RuleHits(p) == {i \in DOMAIN patterns : AnyHit(patterns[i], p)}

(* The former are among the latter, and so are those of a directory.       *)
LEMMA HitAny ==
    ASSUME patterns \in Seq(Rule), NEW p \in Seq(STRING), NEW n \in 1..Len(p)
    PROVE  Hit(SubSeq(p, 1, n)) \subseteq RuleHits(p)
  <1>1. SubSeq(p, 1, n) \in Seq(STRING) /\ SubSeq(p, 1, n) # <<>>
    BY Beginning
  <1> SUFFICES ASSUME NEW i \in Hit(SubSeq(p, 1, n)) PROVE i \in RuleHits(p)
    OBVIOUS
  <1>2. i \in DOMAIN patterns /\ patterns[i] \in Rule /\ Hits(patterns[i], SubSeq(p, 1, n))
    BY DEF Hit
  <1>3. AnyHit(patterns[i], SubSeq(p, 1, n))
    BY <1>1, <1>2, HitsAny
  <1>4. AnyHit(patterns[i], p)
    BY <1>2, <1>3, AnyHitBelow
  <1> QED
    BY <1>2, <1>4 DEF RuleHits

(* The directories on the way to a path.                                   *)
Way(p) == \A n \in 1..Len(p) - 1 : LET q == SubSeq(p, 1, n) IN q \in Path /\ BaseName(q) \in Dir
Open(p) == \A n \in 1..Len(p) - 1 : Enters(SubSeq(p, 1, n))

Literal == \A i \in DOMAIN patterns : \A k \in DOMAIN patterns[i].dirs :
               patterns[i].exclusion => patterns[i].dirs[k] \notin Wild

(* A path that matches is ignored: an exception that hits it by a          *)
(* directory it is in is no wildcard, and Hits tries that directory.       *)
LEMMA MatchesIgnored ==
    ASSUME patterns \in Seq(Rule), Literal, NEW p \in Seq(STRING), p # <<>>, Matches(p)
    PROVE  Ignored(p)
  <1>0. Len(p) \in 1..Len(p) /\ SubSeq(p, 1, Len(p)) = p
    BY Whole
  <1>1. Hit(p) \subseteq RuleHits(p)
    BY <1>0, HitAny
  <1>2. Hit(p) # {} /\ Hit(p) \in SUBSET (DOMAIN patterns) /\ RuleHits(p) \in SUBSET (DOMAIN patterns)
        /\ DOMAIN patterns \subseteq Nat
    BY DEF Matches, Decides, Hit, RuleHits
  <1>3. PICK k \in Hit(p) : (\A j \in Hit(p) : j <= k) /\ ~patterns[k].exclusion
    BY <1>2, HasLast DEF Matches, Hit
  <1>4. PICK m \in RuleHits(p) : /\ \A j \in RuleHits(p) : j <= m
                                 /\ Decides(RuleHits(p)) <=> ~patterns[m].exclusion
    BY <1>1, <1>2, HasLast
  <1>5. SUFFICES ASSUME patterns[m].exclusion PROVE FALSE
    BY <1>4 DEF Ignored, RuleHits
  <1>6. patterns[m] \in Rule /\ AnyHit(patterns[m], p) /\ m \in DOMAIN patterns
    BY DEF RuleHits
  <1>7. \A i \in DOMAIN patterns[m].dirs : patterns[m].dirs[i] \notin Wild
    BY <1>5, <1>6 DEF Literal
  <1>8. PICK n \in 1..Len(p) : patterns[m].dirs = SubSeq(p, 1, n) /\ Len(patterns[m].dirs) = n
    BY <1>6, <1>7, AnyHitLiteral
  <1>9. Match(patterns[m].dirs, SubSeq(p, 1, n))
    <2>1. SubSeq(p, 1, n) \in Seq(STRING) /\ SubSeq(p, 1, n) # <<>>
      BY Beginning
    <2> QED
      BY <1>8, <2>1, MatchesItself
  <1>10. m \in Hit(p)
    BY <1>6, <1>8, <1>9, AnyHits DEF Hit
  <1>11. m <= k /\ k <= m /\ k \in Nat /\ m \in Nat
    BY <1>1, <1>2, <1>3, <1>4, <1>10
  <1> QED
    BY <1>3, <1>5, <1>11

(* A path below a directory that is not entered is ignored: an exception   *)
(* that would spare it leads into the directory.                           *)
LEMMA ClosedIgnored ==
    ASSUME patterns \in Seq(Rule), Literal, NEW p \in Seq(STRING), NEW n \in 1..Len(p) - 1,
           ~Enters(SubSeq(p, 1, n))
    PROVE  Ignored(p)
  <1> DEFINE q == SubSeq(p, 1, n)
  <1>0. n \in 1..Len(p) /\ Len(p) \in Nat /\ n \in Nat
    OBVIOUS
  <1>1. q \in Seq(STRING) /\ q # <<>> /\ Len(q) = n
    BY <1>0, Beginning
  <1>2. Hit(q) \subseteq RuleHits(p)
    BY <1>0, HitAny
  <1>3. Matches(q) /\ \A i \in DOMAIN patterns :
                          patterns[i].exclusion => ~StartsWith(patterns[i].dirs, q)
    BY DEF Enters
  <1> HIDE DEF q
  <1>4. Hit(q) # {} /\ Hit(q) \in SUBSET (DOMAIN patterns) /\ RuleHits(p) \in SUBSET (DOMAIN patterns)
        /\ DOMAIN patterns \subseteq Nat
    BY <1>3 DEF Matches, Decides, Hit, RuleHits
  <1>5. PICK k \in Hit(q) : (\A j \in Hit(q) : j <= k) /\ ~patterns[k].exclusion
    BY <1>3, <1>4, HasLast DEF Matches, Hit
  <1>6. PICK m \in RuleHits(p) : /\ \A j \in RuleHits(p) : j <= m
                                 /\ Decides(RuleHits(p)) <=> ~patterns[m].exclusion
    BY <1>2, <1>4, HasLast
  <1>7. SUFFICES ASSUME patterns[m].exclusion PROVE FALSE
    BY <1>6 DEF Ignored, RuleHits
  <1>8. patterns[m] \in Rule /\ AnyHit(patterns[m], p) /\ m \in DOMAIN patterns
    BY DEF RuleHits
  <1>9. \A i \in DOMAIN patterns[m].dirs : patterns[m].dirs[i] \notin Wild
    BY <1>7, <1>8 DEF Literal
  <1>10. PICK j \in 1..Len(p) : patterns[m].dirs = SubSeq(p, 1, j) /\ Len(patterns[m].dirs) = j
    BY <1>8, <1>9, AnyHitLiteral
  <1>11. CASE j <= n
    <2>1. SubSeq(q, 1, j) = SubSeq(p, 1, j) /\ j \in 1..Len(q)
      BY <1>0, <1>1, <1>11, Shorter DEF q
    <2>2. SubSeq(p, 1, j) \in Seq(STRING) /\ SubSeq(p, 1, j) # <<>>
      BY Beginning
    <2>3. Match(patterns[m].dirs, SubSeq(q, 1, j))
      BY <1>10, <2>1, <2>2, MatchesItself
    <2>4. m \in Hit(q)
      BY <1>1, <1>8, <1>10, <2>1, <2>3, AnyHits DEF Hit
    <2>5. m <= k /\ k <= m /\ k \in Nat /\ m \in Nat
      BY <1>2, <1>4, <1>5, <1>6, <2>4
    <2> QED
      BY <1>5, <1>7, <2>5
  <1>12. CASE n < j
    <2>1. BaseName(q) = p[n] /\ Parent(q) = SubSeq(p, 1, n - 1)
      BY <1>0, Ends DEF q
    <2>2. j \in 0..Len(p) /\ n \in 1..j /\ n - 1 \in 0..j
      BY <1>0, <1>12
    <2>3. SubSeq(p, 1, j)[n] = p[n] /\ SubSeq(SubSeq(p, 1, j), 1, n - 1) = SubSeq(p, 1, n - 1)
      BY <2>2, Beginning, Shorter
    <2>4. StartsWith(patterns[m].dirs, q)
      BY <1>1, <1>10, <2>1, <2>2, <2>3 DEF StartsWith
    <2> QED
      BY <1>3, <1>7, <1>8, <2>4
  <1> QED
    BY <1>0, <1>11, <1>12

(* An ignored path matches, or is below a directory that is not entered,   *)
(* if the patterns are simple.                                             *)
LEMMA IgnoredUnseen ==
    ASSUME patterns \in Seq(Rule), Simple, NEW p \in Seq(STRING), p # <<>>, Way(p), Ignored(p),
           Open(p)
    PROVE  Matches(p)
  <1>1. RuleHits(p) # {} /\ RuleHits(p) \in SUBSET (DOMAIN patterns) /\ DOMAIN patterns \subseteq Nat
    BY DEF Ignored, Decides, RuleHits
  <1>2. PICK k \in RuleHits(p) : (\A j \in RuleHits(p) : j <= k) /\ ~patterns[k].exclusion
    BY <1>1, HasLast DEF Ignored, RuleHits
  <1>3. patterns[k] \in Rule /\ AnyHit(patterns[k], p) /\ k \in DOMAIN patterns
    BY DEF RuleHits
  <1>4. patterns[k].dirs \in Seq(STRING)
    BY <1>3 DEF Rule
  <1>5. PICK n \in 1..Len(p) : Match(patterns[k].dirs, SubSeq(p, 1, n))
    BY <1>3 DEF AnyHit
  <1>6. SubSeq(p, 1, n) \in Seq(STRING) /\ Len(SubSeq(p, 1, n)) = n /\ SubSeq(p, 1, n) # <<>>
    BY Beginning
  <1>7. Len(p) \in 1..Len(p) /\ SubSeq(p, 1, Len(p)) = p
    BY Whole
  <1>8. ASSUME NEW m \in 1..Len(p), k \in Hit(SubSeq(p, 1, m)) PROVE Matches(SubSeq(p, 1, m))
    <2>1. \A j \in Hit(SubSeq(p, 1, m)) : j <= k
      BY <1>2, HitAny
    <2>2. Hit(SubSeq(p, 1, m)) \subseteq Nat
      BY <1>1 DEF Hit
    <2>3. Decides(Hit(SubSeq(p, 1, m)))
      BY <1>2, <1>8, <2>1, <2>2, LastDecides
    <2> QED
      BY <2>3 DEF Matches, Hit
  <1>9. CASE Hits(patterns[k], p)
    <2>1. k \in Hit(SubSeq(p, 1, Len(p)))
      BY <1>3, <1>7, <1>9 DEF Hit
    <2> QED
      BY <1>7, <1>8, <2>1
  <1>10. CASE \A i \in DOMAIN patterns : \A j \in DOMAIN patterns[i].dirs :
                 patterns[i].dirs[j] # "**"
    <2>0. \A i \in 1..Len(patterns[k].dirs) : patterns[k].dirs[i] # "**"
      BY <1>3, <1>10, <1>4
    <2>1. Len(patterns[k].dirs) = n
      BY <1>5, <1>6, <1>4, <2>0, MatchNames
    <2>2. Hits(patterns[k], p)
      BY <1>3, <1>5, <2>1, AnyHits
    <2> QED
      BY <1>9, <2>2
  <1>11. CASE \A i \in DOMAIN patterns, d \in Path :
                  patterns[i].exclusion /\ BaseName(d) \in Dir => ~StartsWith(patterns[i].dirs, d)
    <2>1. patterns[k].dirs # <<>>
      BY <1>5, <1>6, <1>4, MatchNothing
    <2>2. CASE n = Len(p)
      <3>1. Hits(patterns[k], p)
        BY <1>5, <1>7, <2>1, <2>2 DEF Hits
      <3> QED
        BY <1>9, <3>1
    <2>3. CASE n < Len(p)
      <3>1. k \in Hit(SubSeq(p, 1, n))
        BY <1>3, <1>5, <2>1 DEF Hit, Hits
      <3>2. n \in 1..Len(p) - 1 /\ Matches(SubSeq(p, 1, n))
        BY <1>8, <2>3, <3>1
      <3>3. SubSeq(p, 1, n) \in Path /\ BaseName(SubSeq(p, 1, n)) \in Dir /\ Enters(SubSeq(p, 1, n))
        BY <3>2 DEF Way, Open
      <3> QED
        BY <1>11, <3>2, <3>3 DEF Enters
    <2> QED
      BY <2>2, <2>3
  <1> QED
    BY <1>10, <1>11 DEF Simple

(* What the walk yields is what the rule does not ignore: a path matches   *)
(* no pattern and every directory it is in is entered, just if the last    *)
(* pattern that matches it or one of these directories is no exception.    *)
THEOREM RuleFollowed ==
    ASSUME patterns \in Seq(Rule), Simple, NEW p \in Seq(STRING), p # <<>>, Way(p)
    PROVE  ~Matches(p) /\ Open(p) <=> ~Ignored(p)
  <1>1. Literal
    BY DEF Simple, Literal
  <1>2. Matches(p) => Ignored(p)
    BY <1>1, MatchesIgnored
  <1>3. ~Open(p) => Ignored(p)
    BY <1>1, ClosedIgnored DEF Open
  <1>4. Ignored(p) /\ Open(p) => Matches(p)
    BY IgnoredUnseen
  <1> QED
    BY <1>2, <1>3, <1>4

-----------------------------------------------------------------------------
(* The inductive invariant                                                 *)

\* What is on the walk's way, and what it may yield.
Found(p) == Way(p) /\ Open(p) /\ ~Matches(p)

\* The exceptions exclude_paths adds are the last patterns.
PatternsOK ==
    /\ patterns \in Seq(Rule)
    /\ stage \notin {"start", "raised"} => /\ Len(patterns) >= 2
                                           /\ patterns[Len(patterns) - 1] = Exception(Named)
                                           /\ patterns[Len(patterns)] = Exception(<<Dockerignore>>)

\* What is where at which step of the build.
Phases ==
    /\ stage \in {"start", "walk"} => archive = <<>>
    /\ stage \notin {"walk", "raised"} => agenda = {} /\ entering = {}
    /\ stage = "start" => files = {} /\ yielded = {}
    /\ stage = "done" => files = {}

\* The walk looks only at what it may enter and yields only what it may yield.
WalkOK ==
    /\ \A p \in agenda : Way(p) /\ Open(p)
    /\ \A p \in entering : Way(p) /\ Open(p) /\ BaseName(p) \in Dir /\ Enters(p)
    /\ \A p, q \in entering : p = q
    /\ \A p \in files \union (Archived \ Extra) : Found(p)

\* A name is packed once, those of the extra files at the end.
PackOK ==
    /\ \A i, j \in DOMAIN archive : archive[i] = archive[j] => i = j
    /\ files \intersect Archived = {}
    /\ IF stage = "done" THEN Extra \subseteq Archived ELSE Extra \intersect Archived = {}
    /\ stage # "raised" => \A p \in yielded : \/ p \in files \/ p \in Archived \/ p \in Extra
                                              \/ BaseName(p) \in Sockets

\* Nothing that is to be found and that nobody has touched is lost.
Kept(p) ==
    /\ stage = "walk" => \/ p \in files
                         \/ \E n \in 1..Len(p) : SubSeq(p, 1, n) \in agenda
                         \/ \E n \in 1..Len(p) - 1 : SubSeq(p, 1, n) \in entering
    /\ stage = "pack" => p \in files \union Archived \union Extra
    /\ stage = "done" => p \in Archived
NothingLost ==
    \A p \in context \ touched : BaseName(p) \notin Sockets /\ Open(p) /\ ~Matches(p) => Kept(p)

BuildIInv == BuildTypeOK /\ PatternsOK /\ Phases /\ WalkOK /\ PackOK /\ NothingLost

(* A number that is not 0 is 1 or more.                                    *)
LEMMA OneOrMore == \A n \in Nat \ {0} : n = 1 \/ n > 1
  OBVIOUS

(* One name is a path.                                                     *)
LEMMA OneName == ASSUME NEW S, NEW x \in S PROVE <<x>> \in Seq(S) /\ <<x>> # <<>>
  <1>1. Append(<<>>, x) \in Seq(S)
    OBVIOUS
  <1>2. Append(<<>>, x) = <<x>>
    OBVIOUS
  <1>3. <<x>> # <<>>
    OBVIOUS
  <1> QED
    BY <1>1, <1>2, <1>3

(* A dockerfile argument names a path, and so does what it is called in    *)
(* the archive.                                                            *)
LEMMA NamedPath == ASSUME BuildTypeOK PROVE Named \in Seq(STRING) /\ Named # <<>>
  <1>1. dockerfile \in Seq(STRING) /\ Temp \in STRING /\ Dockerfile \in STRING
    BY ContextConstants DEF BuildTypeOK
  <1>2. CASE dockerfile = Outside
    <2>1. Named = <<Temp>>
      BY <1>2 DEF Named, Outside
    <2> QED
      BY <1>1, <2>1, OneName
  <1>3. CASE dockerfile = <<>>
    BY <1>1, <1>3 DEF Named, Outside
  <1>4. CASE dockerfile # Outside /\ dockerfile # <<>>
    BY <1>1, <1>4 DEF Named
  <1> QED
    BY <1>2, <1>3, <1>4

(* Paths are sequences of names.                                           *)
LEMMA Paths == \A p \in Path : p \in Seq(STRING) /\ p # <<>> /\ Len(p) \in Nat \ {0}
  BY ContextConstants

(* What is decided of a path depends on the patterns alone.                *)
LEMMA SamePatterns ==
    ASSUME patterns' = patterns
    PROVE  \A p : /\ Matches(p)' <=> Matches(p)
                  /\ Enters(p)' <=> Enters(p)
                  /\ Open(p)' <=> Open(p)
                  /\ Found(p)' <=> Found(p)
  <1> TAKE p
  <1>1. \A q : Matches(q)' <=> Matches(q)
    BY DEF Matches, Decides
  <1>2. \A q : Enters(q)' <=> Enters(q)
    BY <1>1 DEF Enters
  <1>3. Open(p)' <=> Open(p)
    BY <1>2 DEF Open
  <1> QED
    BY <1>1, <1>2, <1>3 DEF Found

(* The initial states satisfy the invariant.                               *)
LEMMA BuildInitIInv == ASSUME BuildInit PROVE BuildIInv
  <1>1. BuildTypeOK
    BY ContextConstants DEF BuildInit, BuildTypeOK
  <1>2. PatternsOK
    BY DEF BuildInit, PatternsOK
  <1>3. Archived = {}
    BY DEF BuildInit, Archived
  <1>4. Phases /\ WalkOK /\ PackOK
    BY <1>3 DEF BuildInit, Phases, WalkOK, PackOK
  <1>5. NothingLost
    BY DEF BuildInit, NothingLost, Kept
  <1> QED
    BY <1>1, <1>2, <1>4, <1>5 DEF BuildIInv

(* Start: the names in the directory are listed, and nothing is done yet.  *)
LEMMA StartIInv == ASSUME BuildIInv, Start PROVE BuildIInv'
  <1>0. USE DEF BuildIInv
  <1>1. patterns \in Seq(Rule) /\ files = {} /\ archive = <<>> /\ stage = "start" /\ stage' = "walk"
        /\ entering = {} /\ yielded = {}
        /\ UNCHANGED <<context, ignore, dockerfile, entering, files, yielded, archive, touched, others>>
    BY DEF Start, PatternsOK, Phases, argument
  <1>2. Children(<<>>) \subseteq context /\ \A q \in Children(<<>>) : Len(q) = 1
    BY DEF Children
  <1>3. BuildTypeOK'
    BY <1>1, <1>2 DEF BuildTypeOK, Start, Archived
  <1>4. PatternsOK'
    <2> DEFINE own == IF <<Dockerignore>> \in context THEN ignore ELSE <<>>
    <2>1. own \in Seq(Rule)
      BY ContextConstants DEF BuildTypeOK, Rule
    <2>2. Named' = Named /\ Exception(Named) \in Rule /\ Exception(<<Dockerignore>>) \in Rule
      BY <1>1, NamedPath, ContextConstants DEF Named, Exception, Rule
    <2>3. patterns' = own \o << Exception(Named), Exception(<<Dockerignore>>) >>
      BY DEF Start
    <2> HIDE DEF own
    <2> QED
      BY <2>1, <2>2, <2>3 DEF PatternsOK
  <1>5. Phases'
    BY <1>1 DEF Phases
  <1>6. Archived' = {} /\ files' = {} /\ agenda' = Children(<<>>)
    BY <1>1 DEF Archived, Start
  <1>7. WalkOK'
    <2>1. ASSUME NEW p \in agenda' PROVE Way(p)' /\ Open(p)'
      <3>1. Len(p) = 1
        BY <1>2, <1>6
      <3>2. 1..Len(p) - 1 = {}
        BY <3>1
      <3> QED
        BY <3>2 DEF Way, Open
    <2> QED
      BY <1>1, <1>6, <2>1 DEF WalkOK
  <1>8. PackOK'
    BY <1>1, <1>6 DEF PackOK
  <1>9. NothingLost'
    <2> SUFFICES ASSUME NEW p \in context PROVE \E n \in 1..Len(p) : SubSeq(p, 1, n) \in agenda'
      BY <1>1 DEF NothingLost, Kept
    <2>1. p \in Seq(STRING) /\ 1 \in 1..Len(p) /\ Len(p) \in Nat
      BY Paths DEF BuildTypeOK
    <2>2. SubSeq(p, 1, 1) \in context
      <3>1. CASE Len(p) = 1
        BY <2>1, <3>1, Whole
      <3>2. CASE Len(p) > 1
        <4>1. 1 \in 1..Len(p) - 1
          BY <2>1, <3>2
        <4> QED
          BY <4>1, Ancestors DEF BuildTypeOK
      <3>3. Len(p) \in Nat \ {0}
        BY Paths DEF BuildTypeOK
      <3> QED
        BY <3>1, <3>2, <3>3, OneOrMore
    <2>3. Len(SubSeq(p, 1, 1)) = 1 /\ Parent(SubSeq(p, 1, 1)) = <<>>
      <3>1. 1 \in 0..Len(p)
        BY <2>1
      <3>2. Len(SubSeq(p, 1, 1)) = 1
        BY <2>1, <3>1, Beginning
      <3>3. Parent(SubSeq(p, 1, 1)) = SubSeq(p, 1, 0)
        BY <2>1, Ends
      <3> QED
        BY <2>1, <3>2, <3>3
    <2>4. SubSeq(p, 1, 1) \in Children(<<>>)
      BY <2>2, <2>3 DEF Children
    <2> QED
      BY <1>6, <2>1, <2>4
  <1> QED
    BY <1>3, <1>4, <1>5, <1>7, <1>8, <1>9

(* Unreadable, or any other failure: nothing is promised of the archive.   *)
LEMMA RaisedIInv ==
    ASSUME BuildIInv, stage' = "raised", stage \in {"start", "walk"}, UNCHANGED <<context, argument,
               patterns, agenda, entering, files, yielded, archive, touched, others>>
    PROVE  BuildIInv'
  <1>0. USE DEF BuildIInv, argument
  <1>1. Named' = Named /\ Extra' = Extra /\ Archived' = Archived /\ patterns' = patterns
    BY DEF Named, Extra, Archived
  <1>2. archive = <<>> /\ Archived = {}
    BY DEF Phases, Archived
  <1>3. BuildTypeOK' /\ PatternsOK' /\ Phases' /\ NothingLost' /\ PackOK'
    BY <1>1, <1>2 DEF BuildTypeOK, PatternsOK, Phases, NothingLost, Kept, PackOK
  <1>4. WalkOK'
    <2>1. \A q : Way(q)' <=> Way(q)
      BY DEF Way
    <2>2. \A q : (Enters(q)' <=> Enters(q)) /\ (Open(q)' <=> Open(q)) /\ (Found(q)' <=> Found(q))
      BY <1>1, SamePatterns
    <2> QED
      BY <1>1, <2>1, <2>2 DEF WalkOK
  <1> QED
    BY <1>3, <1>4

(* A child of a directory that is entered is on the way too.               *)
LEMMA ChildOnWay ==
    ASSUME BuildTypeOK, NEW p \in context, Way(p), Open(p), BaseName(p) \in Dir, Enters(p), NEW q \in Children(p)
    PROVE  q \in Path /\ Way(q) /\ Open(q)
  <1>1. p \in Path /\ q \in Path /\ p \in Seq(STRING) /\ q \in Seq(STRING)
    BY Paths DEF BuildTypeOK, Children
  <1>2. Len(q) = Len(p) + 1 /\ SubSeq(q, 1, Len(p)) = p
    BY <1>1 DEF Children, Parent
  <1>3. ASSUME NEW n \in 1..Len(q) - 1
        PROVE  SubSeq(q, 1, n) \in Path /\ BaseName(SubSeq(q, 1, n)) \in Dir /\ Enters(SubSeq(q, 1, n))
    <2>1. CASE n = Len(p)
      BY <1>1, <1>2, <2>1
    <2>2. CASE n < Len(p)
      <3>0. Len(p) \in Nat /\ Len(q) = Len(p) + 1
        BY <1>1, <1>2
      <3>1. n \in 1..Len(p) - 1 /\ n \in 0..Len(p) /\ Len(p) \in 0..Len(q)
        BY <2>2, <3>0
      <3>2. SubSeq(q, 1, n) = SubSeq(p, 1, n)
        BY <1>1, <1>2, <3>1, Shorter
      <3> QED
        BY <3>1, <3>2 DEF Way, Open
    <2>3. n = Len(p) \/ n < Len(p)
      <3>1. Len(p) \in Nat /\ Len(q) \in Nat /\ n <= Len(p)
        BY <1>1, <1>2
      <3> QED
        BY <3>1
    <2> QED
      BY <2>1, <2>2, <2>3
  <1> QED
    BY <1>1, <1>3 DEF Way, Open

(* Visit: what is yielded matches nothing, and a path that was below the   *)
(* one visited is below a directory that is entered.                       *)
LEMMA VisitIInv == ASSUME BuildIInv, Visit PROVE BuildIInv'
  <1>0. USE DEF BuildIInv, argument
  <1>1. stage = "walk" /\ archive = <<>> /\ patterns' = patterns /\ entering = {}
        /\ UNCHANGED <<context, ignore, dockerfile, stage, patterns, archive, touched, others>>
    BY DEF Visit, Phases
  <1>2. PICK v \in agenda :
            /\ files' = files \union (IF Matches(v) THEN {} ELSE {v})
            /\ yielded' = yielded \union (IF Matches(v) THEN {} ELSE {v})
            /\ agenda' = agenda \ {v}
            /\ entering' = IF v \in context /\ BaseName(v) \in Dir /\ Enters(v) THEN {v} ELSE {}
    BY DEF Visit
  <1>3. v \in Path /\ Way(v) /\ Open(v) /\ v \in Seq(STRING)
    BY Paths DEF WalkOK, BuildTypeOK
  <1>4. /\ \A q \in agenda' : q \in Path /\ Way(q) /\ Open(q)
        /\ \A q \in entering' : q \in Path /\ Way(q) /\ Open(q) /\ BaseName(q) \in Dir /\ Enters(q)
    BY <1>2, <1>3 DEF WalkOK, BuildTypeOK
  <1>5. files' \subseteq Path /\ yielded' \subseteq Path /\ \A q \in files' : Found(q)
    BY <1>2, <1>3 DEF WalkOK, Found, BuildTypeOK
  <1>6. BuildTypeOK'
    BY <1>1, <1>4, <1>5 DEF BuildTypeOK
  <1>7. Named' = Named /\ Archived' = {} /\ Extra' = Extra /\ Archived = {}
    BY <1>1 DEF Named, Archived, Extra
  <1>8. PatternsOK' /\ Phases'
    BY <1>1, <1>7 DEF PatternsOK, Phases
  <1>9. WalkOK'
    <2>1. \A q : Way(q)' <=> Way(q)
      BY DEF Way
    <2>2. \A q : (Enters(q)' <=> Enters(q)) /\ (Open(q)' <=> Open(q)) /\ (Found(q)' <=> Found(q))
      BY <1>1, SamePatterns
    <2>3. \A p, q \in entering' : p = q
      BY <1>2
    <2> QED
      BY <1>1, <1>4, <1>5, <1>7, <2>1, <2>2, <2>3 DEF WalkOK
  <1>10. PackOK'
    BY <1>1, <1>2, <1>7 DEF PackOK
  <1>11. NothingLost'
    <2>1. SUFFICES ASSUME NEW p \in context, p \notin touched, BaseName(p) \notin Sockets, Open(p), ~Matches(p)
                   PROVE  \/ p \in files'
                          \/ \E n \in 1..Len(p) : SubSeq(p, 1, n) \in agenda'
                          \/ \E n \in 1..Len(p) - 1 : SubSeq(p, 1, n) \in entering'
      BY <1>1, SamePatterns DEF NothingLost, Kept
    <2>2. p \in files \/ \E n \in 1..Len(p) : SubSeq(p, 1, n) \in agenda
      BY <1>1, <2>1 DEF NothingLost, Kept
    <2>3. p \in Seq(STRING) /\ Len(p) \in Nat \ {0}
      BY Paths DEF BuildTypeOK
    <2>4. CASE p \in files
      BY <1>2, <2>4
    <2>5. ASSUME NEW n \in 1..Len(p), SubSeq(p, 1, n) \in agenda, SubSeq(p, 1, n) # v
          PROVE  \E k \in 1..Len(p) : SubSeq(p, 1, k) \in agenda'
      BY <1>2, <2>5
    <2>6. ASSUME NEW n \in 1..Len(p), SubSeq(p, 1, n) = v
          PROVE  p \in files' \/ \E k \in 1..Len(p) - 1 : SubSeq(p, 1, k) \in entering'
      <3>1. CASE n = Len(p)
        BY <1>2, <2>1, <2>3, <2>6, <3>1, Whole
      <3>2. CASE n # Len(p)
        <4>1. n \in 1..Len(p) - 1
          BY <2>3, <3>2
        <4>2. v \in context /\ BaseName(v) \in Dir /\ Enters(v)
          BY <2>1, <2>6, <4>1, Ancestors DEF BuildTypeOK, Open
        <4> QED
          BY <1>2, <2>6, <4>1, <4>2
      <3> QED
        BY <3>1, <3>2
    <2> QED
      BY <2>2, <2>4, <2>5, <2>6
  <1> QED
    BY <1>6, <1>8, <1>9, <1>10, <1>11

(* List: a path that was below the directory is now, or is below, one of   *)
(* its children.                                                           *)
LEMMA ListIInv == ASSUME BuildIInv, List PROVE BuildIInv'
  <1>0. USE DEF BuildIInv, argument
  <1>1. stage = "walk" /\ archive = <<>> /\ patterns' = patterns
        /\ UNCHANGED <<context, ignore, dockerfile, patterns, files, yielded, archive, touched, others>>
    BY DEF List, Phases
  <1>2. PICK v \in entering :
          \/ v \in context /\ agenda' = agenda \union Children(v) /\ entering' = {} /\ stage' = stage
          \/ v \notin context /\ stage' = "raised" /\ UNCHANGED <<agenda, entering>>
    BY DEF List
  <1>3. CASE stage' = "raised" /\ UNCHANGED <<agenda, entering>>
    BY <1>1, <1>3, RaisedIInv
  <1>4. CASE v \in context /\ agenda' = agenda \union Children(v) /\ entering' = {} /\ stage' = stage
    <2>1. v \in Path /\ Way(v) /\ Open(v) /\ v \in Seq(STRING) /\ BaseName(v) \in Dir /\ Enters(v)
      BY Paths DEF WalkOK, BuildTypeOK
    <2>2. \A q \in agenda' : q \in Path /\ Way(q) /\ Open(q)
      BY <1>4, <2>1, ChildOnWay DEF WalkOK, BuildTypeOK
    <2>3. BuildTypeOK'
      BY <1>1, <1>4, <2>2 DEF BuildTypeOK
    <2>4. Named' = Named /\ Archived' = Archived /\ Extra' = Extra
      BY <1>1 DEF Named, Archived, Extra
    <2>5. PatternsOK' /\ Phases'
      BY <1>1, <1>4, <2>4 DEF PatternsOK, Phases
    <2>6. WalkOK'
      <3>1. \A q : Way(q)' <=> Way(q)
        BY DEF Way
      <3> QED
        BY <1>1, <1>4, <2>2, <2>4, <3>1, SamePatterns DEF WalkOK
    <2>7. PackOK'
      BY <1>1, <1>4, <2>4 DEF PackOK
    <2>8. NothingLost'
      <3>1. SUFFICES ASSUME NEW p \in context, p \notin touched, BaseName(p) \notin Sockets, Open(p), ~Matches(p)
                     PROVE  p \in files \/ \E n \in 1..Len(p) : SubSeq(p, 1, n) \in agenda'
        BY <1>1, <1>4, SamePatterns DEF NothingLost, Kept
      <3>2. \/ p \in files
            \/ \E n \in 1..Len(p) : SubSeq(p, 1, n) \in agenda
            \/ \E n \in 1..Len(p) - 1 : SubSeq(p, 1, n) \in entering
        BY <1>1, <3>1 DEF NothingLost, Kept
      <3>3. p \in Seq(STRING) /\ Len(p) \in Nat \ {0}
        BY Paths DEF BuildTypeOK
      <3>4. ASSUME NEW n \in 1..Len(p), SubSeq(p, 1, n) \in agenda
            PROVE  \E k \in 1..Len(p) : SubSeq(p, 1, k) \in agenda'
        BY <1>4, <3>4
      <3>5. ASSUME NEW n \in 1..Len(p) - 1, SubSeq(p, 1, n) \in entering
            PROVE  \E k \in 1..Len(p) : SubSeq(p, 1, k) \in agenda'
        <4>0. SubSeq(p, 1, n) = v
          BY <3>5 DEF WalkOK
        <4>1. n + 1 \in 1..Len(p) /\ n + 1 \in 0..Len(p) /\ (n + 1) - 1 = n
          BY <3>3
        <4>3. SubSeq(p, 1, n + 1) \in context
          <5>1. CASE n + 1 = Len(p)
            BY <3>3, <5>1, Whole
          <5>2. CASE n + 1 # Len(p)
            <6>1. n + 1 \in 1..Len(p) - 1
              BY <3>3, <4>1, <5>2
            <6> QED
              BY <6>1, Ancestors DEF BuildTypeOK
          <5> QED
            BY <5>1, <5>2
        <4>4. Len(v) = n /\ Len(SubSeq(p, 1, n + 1)) = n + 1 /\ Parent(SubSeq(p, 1, n + 1)) = v
          <5>1. n \in 0..Len(p)
            BY <3>3
          <5>2. Len(SubSeq(p, 1, n)) = n /\ Len(SubSeq(p, 1, n + 1)) = n + 1
            BY <3>3, <4>1, <5>1, Beginning
          <5>3. Parent(SubSeq(p, 1, n + 1)) = SubSeq(p, 1, n)
            BY <3>3, <4>1, Ends
          <5> QED
            BY <4>0, <5>2, <5>3
        <4>5. SubSeq(p, 1, n + 1) \in Children(v)
          BY <4>3, <4>4 DEF Children
        <4> QED
          BY <1>4, <4>1, <4>5
      <3> QED
        BY <3>2, <3>4, <3>5
    <2> QED
      BY <2>3, <2>5, <2>6, <2>7, <2>8
  <1> QED
    BY <1>2, <1>3, <1>4

(* Others: what nobody has touched was there before.                       *)
LEMMA OthersIInv == ASSUME BuildIInv, Others PROVE BuildIInv'
  <1>0. USE DEF BuildIInv
  <1>1. UNCHANGED <<ignore, dockerfile, stage, patterns, agenda, entering, files, yielded, archive>>
        /\ others < MaxOthers /\ others' = others + 1
    BY DEF Others, argument
  <1>2. PICK p \in Path :
          LET below == {q \in context : Len(q) >= Len(p) /\ SubSeq(q, 1, Len(p)) = p} IN
          /\ context' = IF p \in context THEN context \ below ELSE context \union {p}
          /\ Closed(context')
          /\ touched' = touched \union below \union {p}
    BY DEF Others
  <1>3. context' \subseteq Path /\ touched' \subseteq Path /\ Closed(context')
        /\ context' \ touched' \subseteq context \ touched
    BY <1>2 DEF BuildTypeOK
  <1>4. others' \in 0..MaxOthers
    BY <1>1, ContextConstants DEF BuildTypeOK
  <1>5. BuildTypeOK'
    BY <1>1, <1>3, <1>4 DEF BuildTypeOK
  <1>6. Named' = Named /\ Archived' = Archived /\ Extra' = Extra
    BY <1>1 DEF Named, Archived, Extra
  <1>7. PatternsOK' /\ Phases'
    BY <1>1, <1>6 DEF PatternsOK, Phases
  <1>8. WalkOK'
    <2>1. \A q : Way(q)' <=> Way(q)
      BY DEF Way
    <2> QED
      BY <1>1, <1>6, <2>1, SamePatterns DEF WalkOK
  <1>9. PackOK'
    BY <1>1, <1>6 DEF PackOK
  <1>10. NothingLost'
    BY <1>1, <1>3, <1>6, SamePatterns DEF NothingLost, Kept
  <1> QED
    BY <1>5, <1>7, <1>8, <1>9, <1>10

(* Walked: nothing is listed any more, so that what is to be found was.    *)
LEMMA WalkedIInv == ASSUME BuildIInv, Walked PROVE BuildIInv'
  <1>0. USE DEF BuildIInv
  <1>1. stage = "walk" /\ agenda = {} /\ stage' = "pack" /\ archive = <<>>
        /\ entering = {} /\ UNCHANGED <<context, ignore, dockerfile, patterns, agenda, entering, files,
                                        yielded, archive, touched, others>>
    BY DEF Walked, Phases, argument
  <1>2. BuildTypeOK'
    BY <1>1 DEF BuildTypeOK
  <1>3. Named' = Named /\ Archived' = Archived /\ Extra' = Extra
    BY <1>1 DEF Named, Archived, Extra
  <1>4. PatternsOK' /\ Phases'
    BY <1>1, <1>3 DEF PatternsOK, Phases
  <1>5. WalkOK'
    <2>1. \A q : Way(q)' <=> Way(q)
      BY DEF Way
    <2> QED
      BY <1>1, <1>3, <2>1, SamePatterns DEF WalkOK
  <1>6. PackOK'
    BY <1>1, <1>3 DEF PackOK
  <1>7. NothingLost'
    BY <1>1, <1>3, SamePatterns DEF NothingLost, Kept
  <1> QED
    BY <1>2, <1>4, <1>5, <1>6, <1>7

(* Pack: a name is taken that is not in the archive.                       *)
LEMMA PackIInv == ASSUME BuildIInv, Pack PROVE BuildIInv'
  <1>0. USE DEF BuildIInv
  <1>1. stage = "pack" /\ agenda = {} /\ stage' \in {"pack", "raised"} /\ patterns' = patterns
        /\ entering = {}
        /\ UNCHANGED <<context, ignore, dockerfile, patterns, agenda, entering, yielded, touched, others>>
    BY DEF Pack, Phases, argument
  <1>2. PICK v \in files :
          /\ \/ (v \in Extra \/ BaseName(v) \in Sockets) /\ stage' = stage /\ archive' = archive
             \/ v \notin Extra /\ archive' = Append(archive, v) /\ stage' = stage
             \/ v \notin Extra /\ stage' = "raised" /\ archive' = archive
          /\ files' = files \ {v}
    BY DEF Pack, Skipped
  <1>3. v \in Path /\ v \notin Archived /\ archive \in Seq(Path \union {<<Temp>>})
    BY DEF BuildTypeOK, PackOK
  <1>4. Named' = Named /\ Extra' = Extra
    BY <1>1 DEF Named, Extra
  <1>5. archive' = archive \/ (v \notin Extra /\ archive' = Append(archive, v))
    BY <1>2, Zenon
  <1>6. CASE archive' = archive
    <2>1. Archived' = Archived
      BY <1>6 DEF Archived
    <2>2. BuildTypeOK' /\ PatternsOK' /\ Phases'
      BY <1>1, <1>2, <1>4, <1>6 DEF BuildTypeOK, PatternsOK, Phases
    <2>3. WalkOK'
      <3>1. \A q : Way(q)' <=> Way(q)
        BY DEF Way
      <3> QED
        BY <1>1, <1>2, <1>4, <2>1, <3>1, SamePatterns DEF WalkOK
    <2>4. PackOK'
      <3>1. stage' = "pack" => v \in Extra \/ BaseName(v) \in Sockets
        BY <1>2, <1>3, <1>6
      <3> QED
        BY <1>1, <1>2, <1>4, <1>6, <2>1, <3>1 DEF PackOK
    <2>5. NothingLost'
      <3>1. stage' = "pack" => v \in Extra \/ BaseName(v) \in Sockets
        BY <1>2, <1>3, <1>6
      <3> QED
        BY <1>1, <1>2, <1>4, <2>1, <3>1, SamePatterns DEF NothingLost, Kept
    <2> QED
      BY <2>2, <2>3, <2>4, <2>5
  <1>7. CASE v \notin Extra /\ archive' = Append(archive, v)
    <2>1. /\ archive' \in Seq(Path \union {<<Temp>>}) /\ Len(archive') = Len(archive) + 1
          /\ archive'[Len(archive) + 1] = v /\ Len(archive) \in Nat
          /\ \A i \in 1..Len(archive) : archive'[i] = archive[i]
      BY <1>3, <1>7
    <2>2. DOMAIN archive' = 1..Len(archive) + 1 /\ DOMAIN archive = 1..Len(archive)
      BY <1>3, <2>1
    <2>3. Archived' = Archived \union {v}
      <3>1. Archived' \subseteq Archived \union {v}
        BY <2>1, <2>2 DEF Archived
      <3>2. Archived \subseteq Archived'
        <4>1. \A i \in DOMAIN archive : i \in DOMAIN archive' /\ archive'[i] = archive[i]
          BY <2>1, <2>2
        <4> QED
          BY <4>1 DEF Archived
      <3>3. v \in Archived'
        <4>1. Len(archive) + 1 \in DOMAIN archive'
          BY <2>1, <2>2
        <4> QED
          BY <2>1, <4>1 DEF Archived
      <3> QED
        BY <3>1, <3>2, <3>3
    <2>4. BuildTypeOK' /\ PatternsOK' /\ Phases'
      BY <1>1, <1>2, <1>4, <2>1 DEF BuildTypeOK, PatternsOK, Phases
    <2>5. WalkOK'
      <3>1. \A q : Way(q)' <=> Way(q)
        BY DEF Way
      <3> QED
        BY <1>1, <1>2, <1>4, <2>3, <3>1, SamePatterns DEF WalkOK
    <2>6. PackOK'
      <3>1. ASSUME NEW i \in DOMAIN archive', NEW j \in DOMAIN archive', archive'[i] = archive'[j]
            PROVE  i = j
        <4>1. \A k \in 1..Len(archive) : archive[k] # v
          BY <1>3, <2>2 DEF Archived
        <4>2. CASE i \in 1..Len(archive) /\ j \in 1..Len(archive)
          BY <2>1, <2>2, <3>1, <4>2 DEF PackOK
        <4>3. CASE i = Len(archive) + 1 /\ j \in 1..Len(archive)
          BY <2>1, <3>1, <4>1, <4>3
        <4>4. CASE i \in 1..Len(archive) /\ j = Len(archive) + 1
          BY <2>1, <3>1, <4>1, <4>4
        <4> QED
          BY <2>1, <2>2, <4>2, <4>3, <4>4
      <3>2. files' \intersect Archived' = {}
        BY <1>2, <2>3 DEF PackOK
      <3>3. stage' # "done" /\ Extra' \intersect Archived' = {}
        BY <1>1, <1>4, <1>7, <2>3 DEF PackOK
      <3>4. \A p \in yielded' : \/ p \in files' \/ p \in Archived' \/ p \in Extra'
                                \/ BaseName(p) \in Sockets
        BY <1>1, <1>2, <1>4, <2>3 DEF PackOK
      <3> QED
        BY <3>1, <3>2, <3>3, <3>4 DEF PackOK
    <2>7. NothingLost'
      BY <1>1, <1>2, <1>4, <2>3, SamePatterns DEF NothingLost, Kept
    <2> QED
      BY <2>4, <2>5, <2>6, <2>7
  <1> QED
    BY <1>5, <1>6, <1>7

(* Close: the extra files come last, under names that nothing has.         *)
LEMMA CloseIInv == ASSUME BuildIInv, Close PROVE BuildIInv'
  <1>0. USE DEF BuildIInv
  <1> DEFINE extra == IF Extra = {} THEN <<>> ELSE << <<Dockerignore>>, <<Temp>> >>
  <1>1. stage = "pack" /\ agenda = {} /\ files = {} /\ stage' = "done" /\ archive' = archive \o extra
        /\ entering = {}
        /\ UNCHANGED <<context, ignore, dockerfile, patterns, agenda, entering, files, yielded, touched,
                       others>>
    BY DEF Close, Phases, argument
  <1>2. archive \in Seq(Path \union {<<Temp>>}) /\ <<Dockerignore>> \in Path
        /\ <<Dockerignore>> # <<Temp>>
    BY ContextConstants DEF BuildTypeOK
  <1>3. Named' = Named /\ Extra' = Extra
    BY <1>1 DEF Named, Extra
  <1>4. /\ extra \in Seq(Path \union {<<Temp>>}) /\ Extra = {extra[i] : i \in DOMAIN extra}
        /\ \A i, j \in DOMAIN extra : extra[i] = extra[j] => i = j
    <2>1. CASE Extra = {}
      BY <2>1
    <2>2. CASE Extra # {}
      <3>1. Extra = {<<Dockerignore>>, <<Temp>>} /\ extra = << <<Dockerignore>>, <<Temp>> >>
        BY <2>2 DEF Extra
      <3> HIDE DEF extra
      <3>2. extra \in Seq(Path \union {<<Temp>>}) /\ DOMAIN extra = {1, 2}
            /\ extra[1] = <<Dockerignore>> /\ extra[2] = <<Temp>>
        BY <1>2, <3>1
      <3> QED
        BY <1>2, <3>1, <3>2
    <2> QED
      BY <2>1, <2>2
  <1> HIDE DEF extra
  <1>5. /\ archive' \in Seq(Path \union {<<Temp>>}) /\ Len(archive) \in Nat /\ Len(extra) \in Nat
        /\ Len(archive') = Len(archive) + Len(extra)
        /\ \A i \in 1..Len(archive) : archive'[i] = archive[i]
        /\ \A i \in 1..Len(extra) : archive'[Len(archive) + i] = extra[i]
    BY <1>1, <1>2, <1>4
  <1>6. DOMAIN archive' = 1..Len(archive) + Len(extra) /\ DOMAIN archive = 1..Len(archive)
        /\ DOMAIN extra = 1..Len(extra)
    BY <1>2, <1>4, <1>5
  <1>7. ASSUME NEW i \in DOMAIN archive'
        PROVE  \/ i \in 1..Len(archive)
               \/ \E k \in 1..Len(extra) : i = Len(archive) + k
    <2>1. CASE i <= Len(archive)
      BY <1>5, <1>6, <2>1
    <2>2. CASE Len(archive) < i
      <3>1. i - Len(archive) \in 1..Len(extra) /\ i = Len(archive) + (i - Len(archive))
        BY <1>5, <1>6, <2>2
      <3> QED
        BY <3>1
    <2> QED
      BY <1>5, <1>6, <2>1, <2>2
  <1>8. Archived' = Archived \union Extra
    <2>1. Archived' \subseteq Archived \union Extra
      <3> SUFFICES ASSUME NEW i \in DOMAIN archive' PROVE archive'[i] \in Archived \union Extra
        BY DEF Archived
      <3>1. CASE i \in 1..Len(archive)
        BY <1>5, <1>6, <3>1 DEF Archived
      <3>2. ASSUME NEW k \in 1..Len(extra), i = Len(archive) + k
            PROVE  archive'[i] \in Archived \union Extra
        BY <1>4, <1>5, <1>6, <3>2
      <3> QED
        BY <1>7, <3>1, <3>2
    <2>2. Archived \subseteq Archived'
      <3>1. \A i \in DOMAIN archive : i \in DOMAIN archive' /\ archive'[i] = archive[i]
        BY <1>5, <1>6
      <3> QED
        BY <3>1 DEF Archived
    <2>3. Extra \subseteq Archived'
      <3>1. \A i \in DOMAIN extra : Len(archive) + i \in DOMAIN archive'
                                    /\ archive'[Len(archive) + i] = extra[i]
        BY <1>5, <1>6
      <3> QED
        BY <1>4, <3>1 DEF Archived
    <2> QED
      BY <2>1, <2>2, <2>3
  <1>9. BuildTypeOK' /\ PatternsOK' /\ Phases'
    BY <1>1, <1>3, <1>5 DEF BuildTypeOK, PatternsOK, Phases
  <1>10. WalkOK'
    <2>1. \A q : Way(q)' <=> Way(q)
      BY DEF Way
    <2> QED
      BY <1>1, <1>3, <1>8, <2>1, SamePatterns DEF WalkOK
  <1>11. PackOK'
    <2>1. ASSUME NEW i \in DOMAIN archive', NEW j \in DOMAIN archive', archive'[i] = archive'[j]
          PROVE  i = j
      <3>1. \A k \in 1..Len(archive), n \in 1..Len(extra) : archive[k] # extra[n]
        <4>1. \A n \in 1..Len(extra) : extra[n] \notin Archived
          BY <1>1, <1>4, <1>6 DEF PackOK
        <4>2. \A k \in 1..Len(archive) : archive[k] \in Archived
          BY <1>6 DEF Archived
        <4> QED
          BY <4>1, <4>2
      <3>2. CASE i \in 1..Len(archive) /\ j \in 1..Len(archive)
        BY <1>5, <1>6, <2>1, <3>2 DEF PackOK
      <3>3. ASSUME NEW k \in 1..Len(extra), i = Len(archive) + k PROVE i = j
        <4>1. CASE j \in 1..Len(archive)
          BY <1>5, <2>1, <3>1, <3>3, <4>1
        <4>2. ASSUME NEW n \in 1..Len(extra), j = Len(archive) + n PROVE i = j
          <5>1. extra[k] = extra[n]
            BY <1>5, <2>1, <3>3, <4>2
          <5> QED
            BY <1>4, <1>6, <3>3, <4>2, <5>1
        <4> QED
          BY <1>7, <4>1, <4>2
      <3>4. ASSUME NEW n \in 1..Len(extra), j = Len(archive) + n, i \in 1..Len(archive) PROVE i = j
        BY <1>5, <2>1, <3>1, <3>4
      <3> QED
        BY <1>7, <3>2, <3>3, <3>4
    <2>2. files' \intersect Archived' = {} /\ stage' = "done" /\ Extra' \subseteq Archived'
      BY <1>1, <1>3, <1>8
    <2>3. \A p \in yielded' : p \in Archived' \/ BaseName(p) \in Sockets
      BY <1>1, <1>8 DEF PackOK
    <2> QED
      BY <2>1, <2>2, <2>3 DEF PackOK
  <1>12. NothingLost'
    BY <1>1, <1>3, <1>8, SamePatterns DEF NothingLost, Kept
  <1> QED
    BY <1>9, <1>10, <1>11, <1>12

(* Nothing changes the invariant's value but the steps above.              *)
LEMMA StutterIInv == ASSUME BuildIInv, UNCHANGED buildVars PROVE BuildIInv'
  <1>0. USE DEF BuildIInv, buildVars, argument
  <1>1. Named' = Named /\ Extra' = Extra /\ Archived' = Archived /\ patterns' = patterns
    BY DEF Named, Extra, Archived
  <1>2. BuildTypeOK' /\ PatternsOK' /\ Phases'
    BY <1>1 DEF BuildTypeOK, PatternsOK, Phases
  <1>3. WalkOK'
    <2>1. \A q : Way(q)' <=> Way(q)
      BY DEF Way
    <2> QED
      BY <1>1, <2>1, SamePatterns DEF WalkOK
  <1>4. PackOK'
    BY <1>1 DEF PackOK
  <1>5. NothingLost'
    BY <1>1, SamePatterns DEF NothingLost, Kept
  <1> QED
    BY <1>2, <1>3, <1>4, <1>5

(* The invariant holds throughout a build.                                 *)
THEOREM BuildInvariance == BuildSpec => []BuildIInv
  <1>1. BuildIInv /\ [BuildNext]_buildVars => BuildIInv'
    <2>1. BuildIInv /\ Unreadable => BuildIInv'
      BY RaisedIInv DEF Unreadable
    <2> QED
      BY <2>1, StartIInv, VisitIInv, ListIInv, WalkedIInv, PackIInv, CloseIInv, OthersIInv, StutterIInv
         DEF BuildNext
  <1> QED
    BY <1>1, BuildInitIInv, PTL DEF BuildSpec

-----------------------------------------------------------------------------
(* What is sent                                                            *)

(* Each name is in the archive once, the generated ones among them, and    *)
(* what the walk found is there, sockets apart.                            *)
THEOREM OneEntryEachHolds == BuildSpec => []OneEntryEach
  <1>1. BuildIInv => OneEntryEach
    BY DEF BuildIInv, PackOK, Phases, OneEntryEach
  <1> QED
    BY <1>1, BuildInvariance, PTL

(* The archive has what the rule of .dockerignore does not ignore.         *)
THEOREM SendsWhatIsNotIgnoredHolds == BuildSpec => []SendsWhatIsNotIgnored
  <1>1. ASSUME BuildIInv, stage = "done", Simple PROVE \A p \in Archived \ Extra : ~Ignored(p)
    <2> TAKE p \in Archived \ Extra
    <2>1. Found(p) /\ patterns \in Seq(Rule)
      BY <1>1 DEF BuildIInv, WalkOK, PatternsOK
    <2>2. p \in Path \union {<<Temp>>}
      BY <1>1 DEF BuildIInv, BuildTypeOK, Archived
    <2>3. p \in Seq(STRING) /\ p # <<>>
      BY <2>2, Paths, OneName, ContextConstants
    <2> QED
      BY <1>1, <2>1, <2>3, RuleFollowed DEF Found
  <1>2. ASSUME BuildIInv, stage = "done", Simple
        PROVE  \A p \in context \ touched : ~Ignored(p) /\ BaseName(p) \notin Sockets => p \in Archived
    <2> TAKE p \in context \ touched
    <2>1. p \in Path /\ p \in Seq(STRING) /\ p # <<>> /\ patterns \in Seq(Rule)
      BY <1>2, Paths DEF BuildIInv, BuildTypeOK, PatternsOK
    <2>2. Way(p)
      BY <1>2, <2>1, Ancestors DEF BuildIInv, BuildTypeOK, Way
    <2>3. ~Ignored(p) => Open(p) /\ ~Matches(p)
      BY <1>2, <2>1, <2>2, RuleFollowed
    <2> QED
      BY <1>2, <2>3 DEF BuildIInv, NothingLost, Kept
  <1>3. BuildIInv => SendsWhatIsNotIgnored
    BY <1>1, <1>2 DEF SendsWhatIsNotIgnored
  <1> QED
    BY <1>3, BuildInvariance, PTL

(* An exception for a path, after which there are only exceptions: the     *)
(* walk enters the directories the path is in and yields it.               *)
LEMMA Spared ==
    ASSUME patterns \in Seq(Rule), NEW p \in Seq(STRING), p # <<>>, NEW i \in DOMAIN patterns,
           patterns[i] = Exception(p), \A j \in DOMAIN patterns : i <= j => patterns[j].exclusion
    PROVE  Open(p) /\ ~Matches(p)
  <1>1. patterns[i].exclusion /\ patterns[i].dirs = p /\ DOMAIN patterns \subseteq Nat
    BY DEF Exception
  <1>2. i \in Hit(p)
    BY <1>1, MatchesItself DEF Hit, Hits
  <1>3. ~Matches(p)
    <2>1. Hit(p) \in SUBSET (DOMAIN patterns) /\ Hit(p) # {}
      BY <1>2 DEF Hit
    <2>2. PICK k \in Hit(p) : /\ \A j \in Hit(p) : j <= k
                              /\ Decides(Hit(p)) <=> ~patterns[k].exclusion
      BY <2>1, HasLast
    <2>3. patterns[k].exclusion
      BY <1>2, <2>1, <2>2
    <2> QED
      BY <2>2, <2>3 DEF Matches, Hit
  <1>4. ASSUME NEW n \in 1..Len(p) - 1 PROVE Enters(SubSeq(p, 1, n))
    <2>1. n \in 1..Len(p) /\ n \in 0..Len(p) /\ n <= Len(p)
      OBVIOUS
    <2>2. Len(SubSeq(p, 1, n)) = n /\ BaseName(SubSeq(p, 1, n)) = p[n]
          /\ Parent(SubSeq(p, 1, n)) = SubSeq(p, 1, n - 1)
      BY <2>1, Beginning, Ends
    <2>3. StartsWith(p, SubSeq(p, 1, n))
      BY <2>1, <2>2 DEF StartsWith
    <2> QED
      BY <1>1, <2>3 DEF Enters
  <1> QED
    BY <1>3, <1>4 DEF Open

(* The Dockerfile and .dockerignore are sent whatever is ignored.          *)
THEOREM NeededIsSentHolds == BuildSpec => []NeededIsSent
  <1>1. ASSUME BuildIInv, stage = "done", NEW p \in {Named, <<Dockerignore>>} \intersect (context \ touched)
        PROVE  p \in Archived
    <2>1. patterns \in Seq(Rule) /\ Len(patterns) >= 2 /\ Len(patterns) \in Nat
          /\ patterns[Len(patterns) - 1] = Exception(Named)
          /\ patterns[Len(patterns)] = Exception(<<Dockerignore>>)
      BY <1>1 DEF BuildIInv, PatternsOK
    <2>2. Named \in Seq(STRING) /\ Named # <<>> /\ p \in Seq(STRING) /\ p # <<>>
      BY <1>1, NamedPath, Paths DEF BuildIInv, BuildTypeOK
    <2>3. Len(patterns) - 1 \in DOMAIN patterns /\ Len(patterns) \in DOMAIN patterns
          /\ \A j \in DOMAIN patterns : Len(patterns) - 1 <= j => j = Len(patterns) - 1
                                                                  \/ j = Len(patterns)
      BY <2>1
    <2>4. \A j \in DOMAIN patterns : Len(patterns) - 1 <= j => patterns[j].exclusion
      BY <2>1, <2>3 DEF Exception
    <2>5. \A j \in DOMAIN patterns : Len(patterns) <= j => patterns[j].exclusion
      BY <2>1, <2>4
    <2>6. Open(p) /\ ~Matches(p)
      BY <2>1, <2>2, <2>3, <2>4, <2>5, Spared
    <2>7. BaseName(p) \notin Sockets
      <3>1. dockerfile \in Dockerfiles
        BY <1>1 DEF BuildIInv, BuildTypeOK
      <3>2. Dockerignore \notin Sockets /\ Dockerfile \notin Sockets /\ Temp \notin Sockets
        BY ContextConstants
      <3>3. \A x : BaseName(<<x>>) = x
        BY DEF BaseName
      <3>4. BaseName(Named) \notin Sockets
        BY <3>1, <3>2, <3>3, ContextConstants DEF Named
      <3> QED
        BY <3>2, <3>3, <3>4
    <2> QED
      BY <1>1, <2>6, <2>7 DEF BuildIInv, NothingLost, Kept
  <1>2. BuildIInv => NeededIsSent
    BY <1>1 DEF NeededIsSent
  <1> QED
    BY <1>2, BuildInvariance, PTL
=============================================================================
