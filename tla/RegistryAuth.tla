---------------------------- MODULE RegistryAuth ----------------------------
(***************************************************************************)
(* Registry credentials of one APIClient: the configuration file and the   *)
(* credential stores the docker command line writes, the copy of the file  *)
(* the client keeps in _auth_configs, login(), and the lookup behind the   *)
(* X-Registry-Auth and X-Registry-Config headers.  Several threads use the *)
(* client.                                                                 *)
(***************************************************************************)
EXTENDS Naturals, FiniteSets, SequencesExt

CONSTANTS Thread,      \* threads that share the client
          Key,         \* ways to write registries: host names and URLs
          HostOf,      \* convert_to_hostname
          Hub,         \* INDEX_NAME, "docker.io"
          HubUrl,      \* INDEX_URL, "https://index.docker.io/v1/"
          HubHost,     \* "index.docker.io"
          Section,     \* other sections of a configuration file
          Disk,        \* states of the file, a second file and the stores
          Secret,      \* passwords given to login, "bad" is wrong
          Logins,      \* calls of login
          MaxCalls,    \* bound: calls, of all threads together
          MaxEdits     \* bound: changes of the disk by the command line

(* Credentials.  user is "" in an entry without 'username': an identity    *)
(* token, or an answer of a store, whose key is 'Username'.                *)
CredSet == [kind : {"none", "empty", "broken", "auth"}, reg : Key, user : {"", "user", "other"},
            secret : Secret \union {"", "file", "store"}]

\* What the command line keeps under a name is for the registry of that name.
Own(k) == {c \in CredSet : c.secret \in {"", "file", "store"} /\ (c.kind = "auth" => c.reg = k)}

\* A configuration file: an object, which has each name once.  A "broken" entry is
\* no object, or its "auth" cannot be decoded.
FileSet == {f \in [readable : BOOLEAN, auths : Seq([key : Key, cred : CredSet]), store : BOOLEAN,
                helpers : SUBSET Key, scalar : BOOLEAN, sections : SUBSET Section] :
            /\ IsFiniteSet(f.sections)
            /\ f.readable \/ \A i \in DOMAIN f.auths : f.auths[i].cred.kind # "broken"
            /\ \A i \in DOMAIN f.auths : f.auths[i].cred \in Own(f.auths[i].key)
            /\ \A i, j \in DOMAIN f.auths : f.auths[i].key = f.auths[j].key => i = j}

\* A credential store: what it answers for each name.
StoreSet == {s \in [Key -> CredSet] : \A k \in Key : s[k] \in Own(k)}

ASSUME AuthConstants ==
    /\ HostOf \in [Key -> Key] /\ \A k \in Key : HostOf[HostOf[k]] = HostOf[k]
    /\ {Hub, HubUrl, HubHost} \subseteq Key
    /\ HostOf[Hub] = Hub /\ HostOf[HubUrl] = HubHost /\ HubHost \notin {Hub, HubUrl}
    /\ Key \cap Section = {}
    /\ Disk \subseteq [file : FileSet, custom : FileSet, default : StoreSet, helper : StoreSet]
    /\ Logins \subseteq [op : {"login"}, key : Key, secret : Secret, reauth : BOOLEAN,
                          path : BOOLEAN]
    /\ MaxCalls \in Nat /\ MaxEdits \in Nat

VARIABLES
    disk,       \* file, custom: configuration files; default, helper: stores
    mem,        \* _auth_configs
    pc,         \* next step of each thread, "idle" between calls
    call,       \* its call
    loaded,     \* what its load_config returned
    calls, edits,
    newest,     \* history: the last login the client accepted, per registry
    overtaken,  \* history: another thread changed mem since its call began
    edited      \* history: the disk changed since its call began

history == <<newest, overtaken, edited>>
vars == <<disk, mem, pc, call, loaded, calls, edits, history>>

NoCred == [kind |-> "none", reg |-> Hub, user |-> "", secret |-> ""]
Empty  == [kind |-> "empty", reg |-> Hub, user |-> "", secret |-> ""]
Broken == [kind |-> "broken", reg |-> Hub, user |-> "", secret |-> ""]
Cred(k, u, s) == [kind |-> "auth", reg |-> k, user |-> u, secret |-> s]

\* What images and plugins name their registries by.
Registry == {HostOf[k] : k \in Key} \ {HubHost}

\* An AuthConfig: entries in the order they were inserted, the default
\* store, the registries that have a helper of their own.
NoConfig == [auths |-> <<>>, store |-> FALSE, helpers |-> {}]

Keys(auths) == {auths[i].key : i \in DOMAIN auths}
Entry(auths, k) == auths[CHOOSE i \in DOMAIN auths : auths[i].key = k].cred

-----------------------------------------------------------------------------
(* auth.py                                                                 *)

ResolveIndexName(k) ==
    IF k \in Section THEN k ELSE IF HostOf[k] = HubHost THEN Hub ELSE HostOf[k]

IsEmpty(m) == m.auths = <<>> /\ ~m.store /\ m.helpers = {}

\* parse_auth raises on the "auths" of such a file, and so does load_config: as
\* InvalidConfigFile, or as decode_auth's ValueError.
Invalid(f) == f.readable /\ \E i \in DOMAIN f.auths : f.auths[i].cred.kind = "broken"

\* A file that is not JSON: one of the old format has one entry, for the
\* hub; one that is missing or half written has none.
LegacyConfig(f) == [NoConfig EXCEPT !.auths = f.auths]

(* load_config of a file that is not Invalid.  If no section holds          *)
(* credentials the file is taken for one whose sections are registries:    *)
(* each section that is an object, an empty "auths" among them, becomes an *)
(* entry without credentials, and one that is not makes it give up.        *)
LoadConfig(f) ==
    IF ~f.readable THEN LegacyConfig(f)
    ELSE IF f.auths # <<>> \/ f.store \/ f.helpers # {}
    THEN [auths |-> f.auths, store |-> f.store, helpers |-> f.helpers]
    ELSE IF f.scalar THEN NoConfig
    ELSE [NoConfig EXCEPT !.auths =
             SetToSeq({[key |-> s, cred |-> Empty] : s \in f.sections})]

\* get_credential_store: the store responsible for a registry.
StoreOf(m, k) ==
    IF (IF k = Hub THEN HubUrl ELSE k) \in m.helpers THEN "helper"
    ELSE IF m.store THEN "default" ELSE "none"

\* _resolve_authconfig_credstore
ResolveStore(d, s, k) == d[s][IF k = Hub THEN HubUrl ELSE k]

\* Seeded fault: entries are looked for under any name first.
ResolveAuthsUnordered(auths, r) ==
    LET same == {i \in DOMAIN auths : ResolveIndexName(auths[i].key) = r}
    IN IF same = {} THEN NoCred ELSE auths[CHOOSE i \in same : \A j \in same : i <= j].cred

ResolveAuths(auths, r) ==
    LET same == {i \in DOMAIN auths : ResolveIndexName(auths[i].key) = r}
    IN IF r \in Keys(auths) THEN Entry(auths, r)
       ELSE IF same = {} THEN NoCred ELSE auths[CHOOSE i \in same : \A j \in same : i <= j].cred

\* resolve_authconfig: the store first, then the entries of the file.
Resolve(d, m, k) ==
    LET s == StoreOf(m, k)
        c == IF s = "none" THEN NoCred ELSE ResolveStore(d, s, k)
    IN IF c.kind # "none" THEN c ELSE ResolveAuths(m.auths, ResolveIndexName(k))

\* auth_data[k] and auth_data[convert_to_hostname(k)] for every k of ks.
Spread(f, ks) == [x \in ks \union {HostOf[k] : k \in ks} |->
                    IF x \in ks THEN f[x] ELSE f[CHOOSE k \in ks : HostOf[k] = x]]

\* Seeded fault: no entry under the URL of the hub is added.
AllCredentialsNoUrl(d, m) ==
    LET listed  == IF m.store THEN {k \in Key : d.default[k].kind # "none"} ELSE {}
        stored  == Spread([k \in listed |-> ResolveStore(d, "default", k)], listed)
        helped  == Spread([k \in m.helpers |-> ResolveStore(d, "helper", k)], m.helpers)
        entries == [k \in Keys(m.auths) |-> Entry(m.auths, k)]
        at(k)   == IF k \in DOMAIN helped THEN helped[k]
                   ELSE IF k \in DOMAIN stored THEN stored[k] ELSE entries[k]
        all     == DOMAIN helped \union DOMAIN stored \union DOMAIN entries
    IN [k \in all |-> at(k)]

(* get_all_credentials, and the entry _set_auth_headers adds for the hub.  *)
(* A store holds one entry per host, so that the order of its list does    *)
(* not matter.                                                             *)
AllCredentials(d, m) ==
    LET listed  == IF m.store THEN {k \in Key : d.default[k].kind # "none"} ELSE {}
        stored  == Spread([k \in listed |-> ResolveStore(d, "default", k)], listed)
        helped  == Spread([k \in m.helpers |-> ResolveStore(d, "helper", k)], m.helpers)
        entries == [k \in Keys(m.auths) |-> Entry(m.auths, k)]
        at(k)   == IF k \in DOMAIN helped THEN helped[k]
                   ELSE IF k \in DOMAIN stored THEN stored[k] ELSE entries[k]
        all     == DOMAIN helped \union DOMAIN stored \union DOMAIN entries
    IN [k \in all \union (IF Hub \in all THEN {HubUrl} ELSE {}) |->
           IF k \in all THEN at(k) ELSE at(Hub)]

\* add_auth: an entry keeps its place.
AddAuth(auths, k, c) ==
    IF k \in Keys(auths)
    THEN [i \in DOMAIN auths |-> IF auths[i].key = k THEN [key |-> k, cred |-> c] ELSE auths[i]]
    ELSE Append(auths, [key |-> k, cred |-> c])

-----------------------------------------------------------------------------
(* Calls.  "header" is every operation that sends credentials for the      *)
(* registry of one image or plugin (get_config_header), "build" the one    *)
(* that sends them all.                                                    *)

NoCall == [op |-> "none", key |-> Hub, secret |-> "", reauth |-> FALSE, path |-> FALSE]
Call == Logins
        \union {[NoCall EXCEPT !.op = "header", !.key = k] : k \in Registry}
        \union {[NoCall EXCEPT !.op = "build"]}
        \union {[NoCall EXCEPT !.op = "reload", !.path = p] : p \in BOOLEAN}

Init ==
    /\ disk \in Disk /\ ~Invalid(disk.file)
    /\ mem = LoadConfig(disk.file)
    /\ pc = [t \in Thread |-> "idle"]
    /\ call = [t \in Thread |-> NoCall]
    /\ loaded = [t \in Thread |-> NoConfig]
    /\ calls = 0 /\ edits = 0
    /\ newest = [k \in Key |-> NoCred]
    /\ overtaken = [t \in Thread |-> FALSE]
    /\ edited = [t \in Thread |-> FALSE]

\* reload_config always reads a file, login does if it was given one.
Begin(t) ==
    /\ pc[t] = "idle" /\ calls < MaxCalls
    /\ \E c \in Call :
        /\ call' = [call EXCEPT ![t] = c]
        /\ pc' = [pc EXCEPT ![t] = IF c.op = "reload" \/ c.path THEN "read" ELSE "check"]
    /\ calls' = calls + 1
    /\ UNCHANGED <<disk, mem, loaded, edits, history>>

Goto(t, l) ==
    /\ pc' = [pc EXCEPT ![t] = l]
    /\ call' = IF l = "idle" THEN [call EXCEPT ![t] = NoCall] ELSE call
    /\ edited' = IF l = "idle" THEN [edited EXCEPT ![t] = FALSE] ELSE edited

\* Thread t has changed mem, and goes on at l.
Overtake(t, l) ==
    overtaken' = [u \in Thread |->
        IF u = t THEN l # "idle" /\ overtaken[t] ELSE overtaken[u] \/ pc[u] # "idle"]

\* Thread t has not, and goes on at l.
Pass(t, l) ==
    /\ Goto(t, l)
    /\ overtaken' = IF l = "idle" THEN [overtaken EXCEPT ![t] = FALSE] ELSE overtaken
    /\ UNCHANGED <<disk, mem, calls, edits, newest>>

\* Seeded fault: what is in memory is used, if anything ever was.
CheckNever(t) == pc[t] = "check" /\ Pass(t, "use") /\ UNCHANGED loaded

\* "if not self._auth_configs or self._auth_configs.is_empty"
Check(t) ==
    /\ pc[t] = "check"
    /\ Pass(t, IF IsEmpty(mem) THEN "read" ELSE "use")
    /\ UNCHANGED loaded

\* auth.load_config: the file is read, nothing is assigned yet; an entry that
\* parse_auth refuses makes the call fail.
Read(t) ==
    LET f == IF call[t].path THEN disk.custom ELSE disk.file IN
    /\ pc[t] = "read"
    /\ IF Invalid(f) THEN Pass(t, "idle") /\ UNCHANGED loaded
       ELSE loaded' = [loaded EXCEPT ![t] = LoadConfig(f)] /\ Pass(t, "assign")

\* The copy in memory is replaced, logins made since the check included.
Assign(t) ==
    LET l == IF call[t].op = "reload" THEN "idle" ELSE "use" IN
    /\ pc[t] = "assign"
    /\ mem' = loaded[t]
    /\ newest' = [k \in Key |-> NoCred]
    /\ loaded' = [loaded EXCEPT ![t] = NoConfig]
    /\ Goto(t, l) /\ Overtake(t, l)
    /\ UNCHANGED <<disk, calls, edits>>

\* What get_config_header finds is sent, if it is anything; a store that
\* fails makes the operation fail.
Header(t) ==
    /\ pc[t] = "use" /\ call[t].op = "header"
    /\ Pass(t, "idle")
    /\ UNCHANGED loaded

\* _set_auth_headers sends AllCredentials, or fails if one store does.
Build(t) ==
    /\ pc[t] = "use" /\ call[t].op = "build"
    /\ Pass(t, "idle")
    /\ UNCHANGED loaded

(* login: an entry for the same user is returned without asking the        *)
(* daemon, unless reauth; a store that fails makes the login fail.         *)
LoginLookup(t) ==
    /\ pc[t] = "use" /\ call[t].op = "login"
    /\ LET c == Resolve(disk, mem, call[t].key)
           known == c.kind = "auth" /\ c.user = "user" /\ ~call[t].reauth
       IN Pass(t, IF known \/ c.kind = "broken" THEN "idle" ELSE "post")
    /\ UNCHANGED loaded

\* POST /auth: the daemon accepts, refuses, or no answer arrives.
Post(t) ==
    /\ pc[t] = "post"
    /\ Pass(t, "idle") \/ (call[t].secret # "bad" /\ Pass(t, "add"))
    /\ UNCHANGED loaded

\* An entry under k is made for the login thread t has made.
Enter(t, k) ==
    LET c == Cred(call[t].key, "user", call[t].secret) IN
    /\ pc[t] = "add"
    /\ mem' = [mem EXCEPT !.auths = AddAuth(@, k, c)]
    /\ newest' = [newest EXCEPT ![ResolveIndexName(k)] = c]
    /\ Goto(t, "idle") /\ Overtake(t, "idle")
    /\ UNCHANGED <<disk, loaded, calls, edits>>

\* Seeded fault: a login for one registry is kept as one for the hub.
AddForHub(t) == Enter(t, Hub)

\* add_auth(registry or auth.INDEX_NAME, req_data)
Add(t) == Enter(t, call[t].key)

\* docker login and docker logout on the command line.
CommandLine ==
    /\ edits < MaxEdits
    /\ edits' = edits + 1
    /\ disk' \in Disk \ {disk}
    /\ edited' = [t \in Thread |-> pc[t] # "idle"]
    /\ UNCHANGED <<mem, pc, call, loaded, calls, newest, overtaken>>

Next == \/ \E t \in Thread : Begin(t) \/ Check(t) \/ Read(t) \/ Assign(t) \/ Header(t)
                             \/ Build(t) \/ LoginLookup(t) \/ Post(t) \/ Add(t)
        \/ CommandLine

Spec == Init /\ [][Next]_vars

-----------------------------------------------------------------------------
(* Properties                                                              *)

ConfigSet == [auths : Seq([key : Key \union Section, cred : CredSet]), store : BOOLEAN,
              helpers : SUBSET Key]

\* Every variable has its type.
TypeOK ==
    /\ disk \in Disk /\ mem \in ConfigSet
    /\ pc \in [Thread -> {"idle", "check", "read", "assign", "use", "post", "add"}]
    /\ call \in [Thread -> Call \union {NoCall}]
    /\ loaded \in [Thread -> ConfigSet]
    /\ calls \in 0..MaxCalls /\ edits \in 0..MaxEdits
    /\ newest \in [Key -> CredSet]
    /\ overtaken \in [Thread -> BOOLEAN] /\ edited \in [Thread -> BOOLEAN]

(* The credentials an operation finds for a registry are credentials for   *)
(* that registry, under whatever name, from whatever source they came.     *)
SendsOwnRegistry ==
    \A k \in Registry : LET c == Resolve(disk, mem, k) IN
        c.kind = "auth" => ResolveIndexName(c.reg) = k

\* A password the daemon refused is never kept.
RefusedNotKept == \A i \in DOMAIN mem.auths : mem.auths[i].cred.secret # "bad"

(* Credentials are a registry's own and good ones: the types, SendsOwn-    *)
(* Registry and RefusedNotKept together.                                   *)
OwnCredentials == TypeOK /\ SendsOwnRegistry /\ RefusedNotKept

(* A login under the registry's own name is what every later operation on  *)
(* the registry sends, whatever entries for the same registry the file     *)
(* has, until the configuration is loaded again or a store has an answer.  *)
NewestLoginUsed ==
    \A k \in Registry :
        /\ newest[k].kind = "auth" /\ newest[k].reg = k
        /\ StoreOf(mem, k) = "none" \/ ResolveStore(disk, StoreOf(mem, k), k) = NoCred
        => Resolve(disk, mem, k) = newest[k]

(* An entry, a login among them, is forgotten only by a call that is to    *)
(* load a file, or by one that found nothing in memory and was overtaken   *)
(* by another thread while it loaded the file.                             *)
LoginsKept ==
    [][Keys(mem.auths) \subseteq Keys(mem'.auths)
       \/ \E t \in Thread :
            Assign(t) /\ (call[t].op = "reload" \/ call[t].path \/ overtaken[t])]_vars

\* external: what a daemon finds in X-Registry-Config, for the hub under its
\* URL only.
DaemonFinds(all, h) ==
    LET names == IF h = Hub THEN {HubUrl} ELSE {k \in Key : HostOf[k] = h}
        found == names \intersect DOMAIN all
    IN IF found = {} THEN NoCred ELSE all[IF h \in found THEN h ELSE CHOOSE k \in found : TRUE]

(* A build sends for each registry what a pull from it would send, unless  *)
(* the registry has a helper of its own or several entries, the hub one    *)
(* under another name than docker.io or its URL, or the store answers for  *)
(* another name of the registry than the one a pull asks for.              *)
BuildSendsWhatPullSends ==
    LET all == AllCredentials(disk, mem) IN
    \A h \in Registry :
        LET own == Resolve(disk, mem, h)
            entries == {k \in Keys(mem.auths) : ResolveIndexName(k) = h}
        IN /\ own.kind = "auth"
           /\ \A k, l \in entries : k = l
           /\ h = Hub => entries \subseteq {Hub, HubUrl}
           /\ \A k \in mem.helpers : ResolveIndexName(k) # h
           /\ \A k \in Key : ResolveIndexName(k) = h /\ disk.default[k].kind # "none"
                           => k = IF h = Hub THEN HubUrl ELSE h
           => DaemonFinds(all, h) = own

(* An operation goes without a configuration only if the file has none: a  *)
(* login on the command line is noticed while nothing is in memory.        *)
EmptyIsReloaded ==
    [][\A t \in Thread :
          Header(t) /\ ~edited[t] /\ ~overtaken[t] /\ IsEmpty(mem) => IsEmpty(LoadConfig(disk.file))]_vars

(* The file is loaded when it is needed (EmptyIsReloaded) and only then    *)
(* (LoginsKept).                                                           *)
LoadedWhenNeeded == EmptyIsReloaded /\ LoginsKept

\* There is a source of credentials in a configuration.
HasData(m) == m.store \/ m.helpers # {} \/ \E i \in DOMAIN m.auths : m.auths[i].cred.kind = "auth"

(* "If we don't have any auth data so far, try reloading the config file   *)
(* one more time in case anything showed up in there."                     *)
NoDataIsReloaded ==
    [][\A t \in Thread :
          Header(t) /\ ~edited[t] /\ ~overtaken[t] /\ ~HasData(mem) => ~HasData(LoadConfig(disk.file))]_vars
=============================================================================
