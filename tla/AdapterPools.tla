---------------------------- MODULE AdapterPools ----------------------------
(***************************************************************************)
(* The connection pools of docker-py's transport adapters.                 *)
(*                                                                         *)
(* An adapter keeps one pool per URL in a container of bounded size that   *)
(* closes the least recently used pool when it is full.  get_connection    *)
(* looks a pool up, or makes one, under the container's lock; the caller   *)
(* takes a connection from the pool after the lock is released, while      *)
(* other threads evict pools or close the adapter.  Pools of the SSH       *)
(* adapter also remember whether the SSH client had a transport when they  *)
(* were made.                                                              *)
(***************************************************************************)
EXTENDS Integers, Sequences, SequencesExt, FiniteSets, FiniteSetsExt

CONSTANTS Thread,      \* threads that share one client
          Closer,      \* those of them that call close()
          Url,         \* the URLs they request
          PoolId,      \* names of pools; bound: pools in use at a time
          NumPools,    \* the size of the container (num_pools)
          Ssh,         \* SSHHTTPAdapter with a paramiko client, or Unix and npipe
          Drops,       \* the SSH transport may die
          None

\* A pool knows the transport it was made with, if there was one.
Pool == [id : PoolId, transport : BOOLEAN]
Entry == [url : Url, pool : Pool]

ASSUME PoolConstants ==
    /\ NumPools \in Nat \ {0}
    /\ Closer \subseteq Thread
    /\ Ssh \in BOOLEAN /\ Drops \in BOOLEAN
    /\ None \notin Thread \union Url \union Pool

VARIABLES
    lock,     \* the holder of pools.lock, or None
    cache,    \* the container: urls and pools, the most recently used last
    open,     \* pools that are not closed
    client,   \* ssh_client: "up", "dead" with a transport that ended, or "closed"
    pc,       \* per thread: what it does next
    url,      \* per thread: the URL it requests
    pool,     \* per thread: the pool get_connection returned
    trash,    \* per thread: pools that close() still has to dispose of
    others,   \* history, per thread: other URLs looked up since its own
    cleared   \* history, per thread: the adapter was closed since its lookup

lockAndPools == <<lock, cache, open>>
vars == <<lockAndPools, client, pc, url, pool, trash, others, cleared>>

CachedUrls == {cache[i].url : i \in DOMAIN cache}
CachedPools == {cache[i].pool : i \in DOMAIN cache}

Init == /\ lock = None
        /\ cache = <<>>
        /\ open = {}
        /\ client = IF Ssh THEN "up" ELSE "closed"
        /\ pc = [t \in Thread |-> "idle"]
        /\ url = [t \in Thread |-> None]
        /\ pool = [t \in Thread |-> None]
        /\ trash = [t \in Thread |-> {}]
        /\ others = [t \in Thread |-> {}]
        /\ cleared = [t \in Thread |-> FALSE]

PoolsInUse == open \union (Range(pool) \ {None})
FreeIds == PoolId \ {p.id : p \in PoolsInUse}
NewPool == [id |-> CHOOSE x \in FreeIds : TRUE, transport |-> client # "closed"]

Goto(t, l) == pc' = [pc EXCEPT ![t] = l]

\* The request of t ends, in whatever way, and forgets its pool.
Finish(t) ==
    /\ Goto(t, "idle")
    /\ url' = [url EXCEPT ![t] = None]
    /\ pool' = [pool EXCEPT ![t] = None]
    /\ others' = [others EXCEPT ![t] = {}]
    /\ cleared' = [cleared EXCEPT ![t] = FALSE]

-----------------------------------------------------------------------------
(* get_connection                                                          *)

Request(t, u) ==
    /\ pc[t] = "idle"
    /\ url' = [url EXCEPT ![t] = u]
    /\ Goto(t, "lookup")
    /\ UNCHANGED <<lockAndPools, client, pool, trash, others, cleared>>

\* Other threads that already have their pool see one more URL go by.
Witnessed(t) ==
    others' = [x \in Thread |->
                 IF pc[x] = "conn" /\ url[x] # url[t] THEN others[x] \union {url[t]}
                 ELSE others[x]]

\* Seeded faults: variants of the actions below in which a property must fail.

\* A hit leaves the entry where it is: first in, first out.
HitInPlace(t) ==
    /\ pc[t] = "lookup" /\ lock = None
    /\ \E i \in DOMAIN cache :
          cache[i].url = url[t] /\ pool' = [pool EXCEPT ![t] = cache[i].pool]
    /\ Witnessed(t)
    /\ Goto(t, "conn")
    /\ UNCHANGED <<lockAndPools, client, url, trash, cleared>>

\* "with self.pools.lock" is missing.
MissUnlocked(t) ==
    /\ pc[t] = "lookup"
    /\ url[t] \notin CachedUrls
    /\ Goto(t, IF Ssh THEN "check" ELSE "create")
    /\ UNCHANGED <<lockAndPools, client, url, pool, trash, others, cleared>>

\* clear() takes what is in the container again when it has disposed of all it took.
DisposeLive(t) ==
    /\ pc[t] = "dispose"
    /\ \E p \in trash[t] :
          LET again == trash[t] = {p}
          IN  /\ open' = open \ {p}
              /\ trash' = [trash EXCEPT ![t] = IF again THEN CachedPools ELSE @ \ {p}]
              /\ cache' = IF again THEN <<>> ELSE cache
    /\ UNCHANGED <<lock, client, pc, url, pool, others, cleared>>

\* pools.get(url): a hit becomes the most recently used entry.
Hit(t) ==
    /\ pc[t] = "lookup" /\ lock = None
    /\ \E i \in DOMAIN cache :
          /\ cache[i].url = url[t]
          /\ cache' = Append(RemoveAt(cache, i), cache[i])
          /\ pool' = [pool EXCEPT ![t] = cache[i].pool]
    /\ Witnessed(t)
    /\ Goto(t, "conn")
    /\ UNCHANGED <<lock, open, client, url, trash, cleared>>

Miss(t) ==
    /\ pc[t] = "lookup" /\ lock = None
    /\ url[t] \notin CachedUrls
    /\ lock' = t
    /\ Goto(t, IF Ssh THEN "check" ELSE "create")
    /\ UNCHANGED <<cache, open, client, url, pool, trash, others, cleared>>

\* "Connection is closed try a reconnect": only a closed client has no transport.
Reconnect(t) ==
    /\ pc[t] = "check"
    /\ client = "closed" /\ client' = "up"
    /\ Goto(t, "create")
    /\ UNCHANGED <<lockAndPools, url, pool, trash, others, cleared>>

\* connect() raises, and the with statement releases the lock.
ReconnectFails(t) ==
    /\ pc[t] = "check"
    /\ client = "closed"
    /\ lock' = None
    /\ Finish(t)
    /\ UNCHANGED <<cache, open, client, trash>>

Connected(t) ==
    /\ pc[t] = "check"
    /\ client # "closed"
    /\ Goto(t, "create")
    /\ UNCHANGED <<lockAndPools, client, url, pool, trash, others, cleared>>

\* pools[url] = pool: the container disposes of its oldest entry when it is full.
Create(t) ==
    /\ pc[t] = "create" /\ FreeIds # {}
    /\ LET p == NewPool
           entries == Append(cache, [url |-> url[t], pool |-> p])
           full == Len(entries) > NumPools
       IN  /\ cache' = IF full THEN Tail(entries) ELSE entries
           /\ open' = (open \union {p}) \ (IF full THEN {Head(entries).pool} ELSE {})
           /\ pool' = [pool EXCEPT ![t] = p]
    /\ lock' = None
    /\ Witnessed(t)
    /\ Goto(t, "conn")
    /\ UNCHANGED <<client, url, trash, cleared>>

-----------------------------------------------------------------------------
(* The request itself                                                      *)

\* _get_conn: "Pool is closed" if it was closed since get_connection.
GetConn(t) ==
    /\ pc[t] = "conn"
    /\ IF pool[t] \in open
       THEN /\ Goto(t, "connect") /\ UNCHANGED <<url, pool>>
            /\ others' = [others EXCEPT ![t] = {}]
            /\ cleared' = [cleared EXCEPT ![t] = FALSE]
       ELSE Finish(t)
    /\ UNCHANGED <<lockAndPools, client, trash>>

(* SSHConnection.connect opens a session on the pool's transport, or runs  *)
(* the ssh program when the pool has none (ShellsOut); the session fails   *)
(* on a dead transport.  Unix and npipe connections are simply opened.     *)
Connect(t) ==
    /\ pc[t] = "connect"
    /\ Finish(t)
    /\ UNCHANGED <<lockAndPools, client, trash>>

ShellsOut(t) == Ssh /\ Connect(t) /\ ~pool[t].transport

-----------------------------------------------------------------------------
(* close                                                                   *)

\* pools.clear() empties the container under the lock ...
Clear(t) ==
    /\ pc[t] = "idle" /\ lock = None
    /\ trash' = [trash EXCEPT ![t] = CachedPools]
    /\ cache' = <<>>
    /\ cleared' = [x \in Thread |-> cleared[x] \/ pc[x] = "conn"]
    /\ Goto(t, "dispose")
    /\ UNCHANGED <<lock, open, client, url, pool, others>>

\* ... and closes the pools without it.
Dispose(t) ==
    /\ pc[t] = "dispose"
    /\ \E p \in trash[t] :
          /\ open' = open \ {p}
          /\ trash' = [trash EXCEPT ![t] = @ \ {p}]
    /\ UNCHANGED <<lock, cache, client, pc, url, pool, others, cleared>>

\* SSHHTTPAdapter.close goes on to close the client.
CloseClient(t) ==
    /\ pc[t] = "dispose" /\ trash[t] = {}
    /\ client' = "closed"
    /\ Goto(t, "idle")
    /\ UNCHANGED <<lockAndPools, url, pool, trash, others, cleared>>

\* The network or the server ends a transport.
Drop == /\ Drops
        /\ client = "up" /\ client' = "dead"
        /\ UNCHANGED <<lockAndPools, pc, url, pool, trash, others, cleared>>

GetConnection(t) == Hit(t) \/ Miss(t) \/ Reconnect(t) \/ ReconnectFails(t)
                    \/ Connected(t) \/ Create(t)
Proceed(t) == GetConnection(t) \/ GetConn(t) \/ Connect(t) \/ Dispose(t) \/ CloseClient(t)

Next == \/ \E t \in Thread : (\E u \in Url : Request(t, u)) \/ Proceed(t)
        \/ \E t \in Closer : Clear(t)
        \/ Drop

Spec == Init /\ [][Next]_vars

\* A thread that is inside the adapter keeps running.
FairSpec == Spec /\ \A t \in Thread : WF_vars(Proceed(t))

-----------------------------------------------------------------------------
(* Properties                                                              *)

\* Every variable has its type.
TypeOK ==
    /\ lock \in Thread \union {None}
    /\ cache \in Seq(Entry)
    /\ open \subseteq Pool
    /\ client \in {"up", "dead", "closed"}
    /\ pc \in [Thread -> {"idle", "lookup", "check", "create", "conn", "connect", "dispose"}]
    /\ url \in [Thread -> Url \union {None}]
    /\ pool \in [Thread -> Pool \union {None}]
    /\ trash \in [Thread -> SUBSET Pool]
    /\ others \in [Thread -> SUBSET Url]
    /\ cleared \in [Thread -> BOOLEAN]

(* Whatever threads look up and close, an open pool is either cached,      *)
(* under one URL only, or about to be disposed of: none is forgotten with  *)
(* its connections open, and the cache never holds a closed one.           *)
NoPoolForgotten ==
    /\ open = CachedPools \union UNION {trash[t] : t \in Thread}
    /\ Len(cache) <= NumPools
    /\ Cardinality(CachedUrls) = Len(cache) /\ Cardinality(CachedPools) = Len(cache)

(* A request finds its pool closed only if the adapter was closed, or as   *)
(* many other URLs as the container has room for were looked up, between   *)
(* get_connection and _get_conn.                                           *)
RefusedUnderPressure ==
    \A t \in Thread : pc[t] = "conn" /\ pool[t] \notin open =>
        cleared[t] \/ Cardinality(others[t]) >= NumPools

\* Two threads with pools of one URL share the pool, if neither was evicted.
OnePoolPerUrl ==
    \A t, x \in Thread : pool[t] # None /\ pool[x] # None /\ url[t] = url[x]
        /\ pool[t] \in CachedPools /\ pool[x] \in CachedPools => pool[t] = pool[x]

(* Every pool is accounted for while threads look up, evict and close:     *)
(* the types, NoPoolForgotten and OnePoolPerUrl together.                  *)
PoolsAccountedFor == TypeOK /\ NoPoolForgotten /\ OnePoolPerUrl

\* Whoever takes the container's lock releases it, connected or not.
LockReleased == \A t \in Thread : lock = t ~> lock # t

\* close() comes to an end however many pools are made meanwhile.
CloseEnds == \A t \in Thread : pc[t] = "dispose" ~> pc[t] # "dispose"

(* Nobody holds on to the adapter: neither a thread that reconnects under  *)
(* the lock (LockReleased) nor close() (CloseEnds) goes on for ever.       *)
Releases == LockReleased /\ CloseEnds

(* use_ssh_client: only "if set to True, an ssh connection is made via     *)
(* shelling out to the ssh client"; this adapter has a paramiko client.    *)
NeverShellsOut == [][\A t \in Thread : ~ShellsOut(t)]_vars
=============================================================================
