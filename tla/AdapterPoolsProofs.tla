------------------------- MODULE AdapterPoolsProofs -------------------------
(***************************************************************************)
(* No pool is forgotten, and none is closed under a request that did not   *)
(* have to expect it: proofs of what AdapterPools promises, for any number *)
(* of threads, URLs and pools.                                             *)
(***************************************************************************)
EXTENDS AdapterPools, FiniteSetTheorems, SequenceTheorems, TLAPS

-----------------------------------------------------------------------------
(* The inductive invariant                                                 *)

\* What a thread holds fits what it is at.
Holding ==
    \A t \in Thread :
        /\ pc[t] \notin {"idle", "dispose"} => url[t] # None
        /\ pc[t] \in {"conn", "connect"} <=> pool[t] # None
        /\ pc[t] # "dispose" => trash[t] = {}

\* Whoever found no pool for its URL holds the lock until it has made one.
Locked ==
    \A t \in Thread : pc[t] \in {"check", "create"} => lock = t /\ url[t] \notin CachedUrls

\* The container has one entry for each of its URLs and of its pools.
Distinct ==
    /\ \A i, j \in DOMAIN cache : cache[i].url = cache[j].url => i = j
    /\ \A i, j \in DOMAIN cache : cache[i].pool = cache[j].pool => i = j
    /\ Len(cache) <= NumPools

\* Open pools are cached or in the trash of one thread.
Disposed ==
    /\ \A p \in Pool : p \in open <=> p \in CachedPools \/ \E t \in Thread : p \in trash[t]
    /\ \A t \in Thread : trash[t] \intersect CachedPools = {}
    /\ \A t, x \in Thread : t # x => trash[t] \intersect trash[x] = {}

\* The pool a thread has is cached under the URL the thread requests, or not at all.
Keyed == \A t \in Thread : \A i \in DOMAIN cache : cache[i].pool = pool[t] => cache[i].url = url[t]

\* All that is more recent than entry i was looked up since t has its pool.
After(t, i) == \A j \in DOMAIN cache : j > i => cache[j].url \in others[t]

(* A request that has its pool still finds it, before nothing but entries  *)
(* looked up meanwhile, or enough others were to have evicted it.          *)
Recent ==
    \A t \in Thread : pc[t] = "conn" /\ ~cleared[t] =>
        \/ \E i \in DOMAIN cache : cache[i].pool = pool[t] /\ After(t, i)
        \/ Cardinality(others[t]) >= NumPools

Finite == \A t \in Thread : IsFiniteSet(others[t])

IInv == TypeOK /\ Holding /\ Locked /\ Distinct /\ Disposed /\ Keyed /\ Recent /\ Finite

-----------------------------------------------------------------------------
(* The container                                                           *)

Elements(f, n) == {f[i] : i \in 1..n}

(* A sequence has as many elements as positions if none is repeated.       *)
LEMMA CountDistinct ==
    ASSUME NEW n \in Nat, NEW S, NEW f \in [1..n -> S], \A i, j \in 1..n : f[i] = f[j] => i = j
    PROVE  Cardinality(Elements(f, n)) = n
  <1> DEFINE R == Elements(f, n)
  <1>1. f \in Surjection(1..n, R) /\ f \in Injection(1..n, R)
    BY DEF Elements, Surjection, Injection, IsInjective
  <1>2. IsFiniteSet(1..n) /\ Cardinality(1..n) = n
    BY FS_Interval
  <1> QED
    BY <1>1, <1>2, FS_Surjection

(* Where position k of the container comes from when entry i of n is moved *)
(* to the end.                                                             *)
From(k, i, n) == IF k < i THEN k ELSE IF k < n THEN k + 1 ELSE i

\* It permutes 1..n, and takes the moved entry only to the end.
Rotates(i, n) ==
    /\ \A k \in 1..n : From(k, i, n) \in 1..n
    /\ \A k, l \in 1..n : From(k, i, n) = From(l, i, n) => k = l
    /\ \A l \in 1..n : \E k \in 1..n : From(k, i, n) = l
    /\ \A l \in 1..n : From(l, i, n) = i <=> l = n
    /\ \A k, l \in 1..n : l > k /\ From(k, i, n) # i =>
          From(l, i, n) = i \/ From(l, i, n) > From(k, i, n)

(* Whatever the entry and the length of the container.                     *)
LEMMA FromAll == ASSUME NEW n \in Nat, NEW i \in 1..n PROVE Rotates(i, n)
  <1>1. \A k \in 1..n : From(k, i, n) \in 1..n
    BY DEF From
  <1>2. \A k, l \in 1..n : From(k, i, n) = From(l, i, n) => k = l
    BY DEF From
  <1>3. ASSUME NEW l \in 1..n
        PROVE  \E k \in 1..n : From(k, i, n) = l
    <2>1. CASE l < i
      BY <2>1 DEF From
    <2>2. CASE l = i
      <3>1. n \in 1..n /\ From(n, i, n) = l
        BY <2>2 DEF From
      <3> QED
        BY <3>1
    <2>3. CASE l > i
      <3>1. l - 1 \in 1..n /\ From(l - 1, i, n) = l
        BY <2>3 DEF From
      <3> QED
        BY <3>1
    <2> QED
      BY <2>1, <2>2, <2>3
  <1>4. \A l \in 1..n : From(l, i, n) = i <=> l = n
    BY DEF From
  <1>5. \A k, l \in 1..n : l > k /\ From(k, i, n) # i =>
            From(l, i, n) = i \/ From(l, i, n) > From(k, i, n)
    BY DEF From
  <1> QED
    BY <1>1, <1>2, <1>3, <1>4, <1>5 DEF Rotates

(* An entry that is used again becomes the last one.                       *)
LEMMA MovedToEnd ==
    ASSUME NEW c \in Seq(Entry), NEW i \in DOMAIN c, NEW d, d = Append(RemoveAt(c, i), c[i])
    PROVE  /\ d \in Seq(Entry) /\ Len(d) = Len(c)
           /\ \A k \in 1..Len(c) : d[k] = c[From(k, i, Len(c))]
  <1> DEFINE n == Len(c)
             a == SubSeq(c, 1, i - 1)
             b == SubSeq(c, i + 1, Len(c))
             e == a \o b
  <1>1. i \in 1..n /\ n \in Nat /\ c[i] \in Entry
    OBVIOUS
  <1>2. a \in Seq(Entry) /\ Len(a) = i - 1 /\ \A k \in 1..(i - 1) : a[k] = c[k]
    BY <1>1
  <1>3. b \in Seq(Entry) /\ Len(b) = n - i /\ \A k \in 1..(n - i) : b[k] = c[k + i]
    BY <1>1
  <1>4. d = Append(e, c[i])
    BY DEF RemoveAt
  <1>5. n = Len(c)
    OBVIOUS
  <1> HIDE DEF a, b, n
  <1>6. /\ e \in Seq(Entry) /\ Len(e) = Len(a) + Len(b)
        /\ \A k \in 1..(Len(a) + Len(b)) : e[k] = IF k <= Len(a) THEN a[k] ELSE b[k - Len(a)]
    BY <1>2, <1>3, ConcatProperties
  <1> HIDE DEF e
  <1>7. /\ d \in Seq(Entry) /\ Len(d) = Len(e) + 1 /\ d[Len(e) + 1] = c[i]
        /\ \A k \in 1..Len(e) : d[k] = e[k]
    <2>1. PICK f \in Entry : f = c[i]
      BY <1>1
    <2>2. /\ Append(e, f) \in Seq(Entry) /\ Len(Append(e, f)) = Len(e) + 1 /\ Append(e, f)[Len(e) + 1] = f
          /\ \A k \in 1..Len(e) : Append(e, f)[k] = e[k]
      BY <1>6, <2>1, AppendProperties
    <2> QED
      BY <1>4, <2>1, <2>2
  <1>8. Len(e) = n - 1 /\ Len(d) = n /\ Len(a) = i - 1 /\ Len(b) = n - i
    BY <1>1, <1>2, <1>3, <1>6, <1>7
  <1>9. ASSUME NEW k \in 1..n
        PROVE  d[k] = c[From(k, i, n)]
    <2>1. CASE k < i
      <3>1. k \in 1..(i - 1) /\ k \in 1..(Len(a) + Len(b)) /\ k <= Len(a) /\ k \in 1..Len(e)
        BY <1>1, <1>2, <1>3, <1>8, <2>1
      <3>2. d[k] = e[k] /\ e[k] = a[k] /\ a[k] = c[k]
        BY <1>2, <1>6, <1>7, <3>1
      <3>3. From(k, i, n) = k
        BY <2>1 DEF From
      <3> QED
        BY <3>2, <3>3
    <2>2. CASE k >= i /\ k < n
      <3> DEFINE la == Len(a)
                 lb == Len(b)
                 le == Len(e)
      <3>0. i \in Int /\ n \in Int /\ k \in Int /\ i >= 1 /\ i <= n /\ k >= i /\ k < n
        BY <1>1, <2>2
      <3>5. la = i - 1 /\ lb = n - i /\ le = n - 1
        BY <1>8
      <3> DEFINE j == k - la
      <3> HIDE DEF la, lb, le
      <3>1. /\ j \in 1..(n - i) /\ j + i = k + 1 /\ ~(k <= la) /\ k \in 1..le
            /\ k \in 1..(la + lb)
        <4>0. la \in Int /\ lb \in Int /\ le \in Int
          BY <3>0, <3>5
        <4>1. j \in 1..(n - i)
          BY <3>0, <3>5, <4>0
        <4>2. j + i = k + 1
          BY <3>0, <3>5, <4>0
        <4>3. ~(k <= la)
          BY <3>0, <3>5, <4>0
        <4>4. k \in 1..le
          BY <3>0, <3>5, <4>0
        <4>5. k \in 1..(la + lb)
          <5>1. la + lb = n - 1
            BY <3>0, <3>5, <4>0
          <5>2. k \in 1..(n - 1)
            BY <3>0
          <5> QED
            BY <5>1, <5>2
        <4> QED
          BY <4>1, <4>2, <4>3, <4>4, <4>5
      <3> USE DEF la, lb, le
      <3>2. From(k, i, n) = k + 1
        BY <1>1, <2>2 DEF From
      <3>3. d[k] = e[k] /\ e[k] = b[j]
        BY <1>6, <1>7, <3>1
      <3> HIDE DEF j
      <3>4. b[j] = c[j + i]
        BY <1>3, <3>1
      <3> QED
        BY <3>1, <3>2, <3>3, <3>4
    <2>3. CASE k = n
      <3>1. From(k, i, n) = i /\ k = Len(e) + 1
        BY <1>1, <1>8, <2>3 DEF From
      <3> QED
        BY <1>7, <3>1
    <2>4. k < i \/ (k >= i /\ k < n) \/ k = n
      BY <1>1
    <2> QED
      BY <2>1, <2>2, <2>3, <2>4
  <1> QED
    BY <1>5, <1>7, <1>8, <1>9

(* A hit keeps what is cached.                                             *)
LEMMA HitCache ==
    ASSUME TypeOK, Distinct, NEW i \in DOMAIN cache, cache' = Append(RemoveAt(cache, i), cache[i])
    PROVE  /\ cache' \in Seq(Entry) /\ Len(cache') = Len(cache)
           /\ CachedUrls' = CachedUrls /\ CachedPools' = CachedPools /\ Distinct'
           /\ \A k \in 1..Len(cache) : cache'[k] = cache[From(k, i, Len(cache))]
  <1>n. PICK n : n = Len(cache)
    OBVIOUS
  <1>0. cache \in Seq(Entry) /\ i \in 1..n /\ n \in Nat /\ n = Len(cache) /\ DOMAIN cache = 1..n
    BY <1>n, LenProperties DEF TypeOK
  <1>1. cache' \in Seq(Entry) /\ Len(cache') = n /\ \A k \in 1..n : cache'[k] = cache[From(k, i, n)]
    <2>1. PICK c, d : c = cache /\ d = cache'
      OBVIOUS
    <2>2. c \in Seq(Entry) /\ i \in DOMAIN c /\ d = Append(RemoveAt(c, i), c[i])
      BY <1>0, <2>1
    <2>3. d \in Seq(Entry) /\ Len(d) = Len(c) /\ \A k \in 1..Len(c) : d[k] = c[From(k, i, Len(c))]
      BY <2>2, MovedToEnd
    <2> QED
      BY <1>0, <2>1, <2>3
  <1>2. DOMAIN cache' = 1..n
    BY <1>0, <1>1, LenProperties
  <1>3. /\ \A k \in 1..n : From(k, i, n) \in 1..n
        /\ \A k, l \in 1..n : From(k, i, n) = From(l, i, n) => k = l
        /\ \A l \in 1..n : \E k \in 1..n : From(k, i, n) = l
    <2>1. n \in Nat /\ i \in 1..n
      BY <1>0
    <2> QED
      BY <2>1, FromAll DEF Rotates
  <1>5. CachedUrls' = CachedUrls
    <2>1. CachedUrls = {cache[k].url : k \in 1..n} /\ CachedUrls' = {cache'[k].url : k \in 1..n}
      BY <1>0, <1>2 DEF CachedUrls
    <2>2. ASSUME NEW l \in 1..n
          PROVE  cache[l].url \in {cache'[k].url : k \in 1..n}
      <3>1. PICK k \in 1..n : From(k, i, n) = l
        BY <1>3
      <3> QED
        BY <1>1, <3>1
    <2>3. ASSUME NEW k \in 1..n
          PROVE  cache'[k].url \in {cache[l].url : l \in 1..n}
      <3>1. PICK l \in 1..n : From(k, i, n) = l
        BY <1>3
      <3> QED
        BY <1>1, <3>1
    <2> QED
      BY <2>1, <2>2, <2>3
  <1>6. CachedPools' = CachedPools
    <2>1. CachedPools = {cache[k].pool : k \in 1..n} /\ CachedPools' = {cache'[k].pool : k \in 1..n}
      BY <1>0, <1>2 DEF CachedPools
    <2>2. ASSUME NEW l \in 1..n
          PROVE  cache[l].pool \in {cache'[k].pool : k \in 1..n}
      <3>1. PICK k \in 1..n : From(k, i, n) = l
        BY <1>3
      <3> QED
        BY <1>1, <3>1
    <2>3. ASSUME NEW k \in 1..n
          PROVE  cache'[k].pool \in {cache[l].pool : l \in 1..n}
      <3>1. PICK l \in 1..n : From(k, i, n) = l
        BY <1>3
      <3> QED
        BY <1>1, <3>1
    <2> QED
      BY <2>1, <2>2, <2>3
  <1>7. Distinct'
    <2>1. /\ \A k, l \in 1..n : cache[k].url = cache[l].url => k = l
          /\ \A k, l \in 1..n : cache[k].pool = cache[l].pool => k = l
          /\ n <= NumPools
      BY <1>0 DEF Distinct
    <2>2. \A k, l \in 1..n : cache'[k].url = cache'[l].url => k = l
      <3>1. ASSUME NEW k \in 1..n, NEW l \in 1..n, cache'[k].url = cache'[l].url
            PROVE  k = l
        <4>1. From(k, i, n) \in 1..n /\ From(l, i, n) \in 1..n
          BY <1>3
        <4>2. cache[From(k, i, n)].url = cache[From(l, i, n)].url
          BY <1>1, <3>1
        <4>3. From(k, i, n) = From(l, i, n)
          BY <2>1, <4>1, <4>2
        <4> QED
          BY <1>3, <4>3
      <3> QED
        BY <3>1
    <2>3. \A k, l \in 1..n : cache'[k].pool = cache'[l].pool => k = l
      <3>1. ASSUME NEW k \in 1..n, NEW l \in 1..n, cache'[k].pool = cache'[l].pool
            PROVE  k = l
        <4>1. From(k, i, n) \in 1..n /\ From(l, i, n) \in 1..n
          BY <1>3
        <4>2. cache[From(k, i, n)].pool = cache[From(l, i, n)].pool
          BY <1>1, <3>1
        <4>3. From(k, i, n) = From(l, i, n)
          BY <2>1, <4>1, <4>2
        <4> QED
          BY <1>3, <4>3
      <3> QED
        BY <3>1
    <2> QED
      BY <1>1, <1>2, <2>1, <2>2, <2>3 DEF Distinct
  <1>8. \A k \in 1..Len(cache) : cache'[k] = cache[From(k, i, Len(cache))]
    BY <1>0, <1>1
  <1> QED
    BY <1>0, <1>1, <1>5, <1>6, <1>7, <1>8

(* A new entry is added to a container that has room.                      *)
LEMMA AddedCache ==
    ASSUME TypeOK, Distinct, NEW e \in Entry, e.url \notin CachedUrls, e.pool \notin CachedPools,
           Len(cache) < NumPools, cache' = Append(cache, e)
    PROVE  /\ cache' \in Seq(Entry) /\ Len(cache') = Len(cache) + 1
           /\ CachedUrls' = CachedUrls \union {e.url} /\ CachedPools' = CachedPools \union {e.pool}
           /\ Distinct'
           /\ \A k \in 1..Len(cache) : cache'[k] = cache[k]
           /\ cache'[Len(cache) + 1] = e
  <1>0. cache \in Seq(Entry) /\ Len(cache) \in Nat /\ NumPools \in Nat
    BY PoolConstants DEF TypeOK
  <1>1. /\ cache' \in Seq(Entry) /\ Len(cache') = Len(cache) + 1
        /\ \A k \in 1..Len(cache) : cache'[k] = cache[k]
        /\ cache'[Len(cache) + 1] = e
    BY <1>0
  <1>2. DOMAIN cache = 1..Len(cache) /\ DOMAIN cache' = 1..(Len(cache) + 1)
    BY <1>0, <1>1
  <1>3. \A k \in 1..(Len(cache) + 1) : (k \in 1..Len(cache) /\ cache'[k] = cache[k]) \/ (k = Len(cache) + 1 /\ cache'[k] = e)
    BY <1>0, <1>1
  <1>4. \A k \in 1..Len(cache) : k \in 1..(Len(cache) + 1)
    BY <1>0
  <1>5. Len(cache) + 1 \in 1..(Len(cache) + 1)
    BY <1>0
  <1>6. CachedUrls' = CachedUrls \union {e.url}
    BY <1>1, <1>2, <1>3, <1>4, <1>5 DEF CachedUrls
  <1>7. CachedPools' = CachedPools \union {e.pool}
    BY <1>1, <1>2, <1>3, <1>4, <1>5 DEF CachedPools
  <1>8. \A k \in 1..Len(cache) : cache[k].url # e.url /\ cache[k].pool # e.pool
    BY <1>2 DEF CachedUrls, CachedPools
  <1>9. Distinct'
    <2>1. \A k, l \in 1..(Len(cache) + 1) : cache'[k].url = cache'[l].url => k = l
      BY <1>2, <1>3, <1>8 DEF Distinct
    <2>2. \A k, l \in 1..(Len(cache) + 1) : cache'[k].pool = cache'[l].pool => k = l
      BY <1>2, <1>3, <1>8 DEF Distinct
    <2>3. Len(cache') <= NumPools
      BY <1>0, <1>1
    <2> QED
      BY <1>2, <2>1, <2>2, <2>3 DEF Distinct
  <1> QED
    BY <1>1, <1>6, <1>7, <1>9

(* ... or takes the place of the oldest one.                               *)
LEMMA EvictedCache ==
    ASSUME TypeOK, Distinct, NEW e \in Entry, e.url \notin CachedUrls, e.pool \notin CachedPools,
           Len(cache) = NumPools, cache' = Tail(Append(cache, e))
    PROVE  /\ cache' \in Seq(Entry) /\ Len(cache') = NumPools
           /\ CachedUrls' \subseteq CachedUrls \union {e.url}
           /\ CachedPools' = (CachedPools \ {cache[1].pool}) \union {e.pool}
           /\ cache[1].pool \in CachedPools /\ Distinct'
           /\ \A k \in 1..NumPools : cache'[k] = IF k < NumPools THEN cache[k + 1] ELSE e
  <1>0. cache \in Seq(Entry) /\ Len(cache) = NumPools /\ NumPools \in Nat /\ NumPools > 0
    BY PoolConstants DEF TypeOK
  <1>1. /\ cache' \in Seq(Entry) /\ Len(cache') = NumPools
        /\ \A k \in 1..NumPools : cache'[k] = IF k < NumPools THEN cache[k + 1] ELSE e
    BY <1>0
  <1>2. DOMAIN cache = 1..NumPools /\ DOMAIN cache' = 1..NumPools
    BY <1>0, <1>1
  <1>3. \A k \in 1..NumPools : (k + 1 \in 1..NumPools /\ cache'[k] = cache[k + 1]) \/ (k = NumPools /\ cache'[k] = e)
    BY <1>0, <1>1
  <1>4. \A l \in 1..NumPools : l # 1 => \E k \in 1..NumPools : cache'[k] = cache[l]
    <2>1. ASSUME NEW l \in 1..NumPools, l # 1
          PROVE  \E k \in 1..NumPools : cache'[k] = cache[l]
      <3>1. l - 1 \in 1..NumPools /\ l - 1 < NumPools /\ (l - 1) + 1 = l
        BY <1>0, <2>1
      <3>2. cache'[l - 1] = cache[l]
        BY <1>1, <3>1
      <3> QED
        BY <3>1, <3>2
    <2> QED
      BY <2>1
  <1>5. cache'[NumPools] = e /\ NumPools \in 1..NumPools /\ 1 \in 1..NumPools
    BY <1>0, <1>1
  <1>6. CachedUrls' \subseteq CachedUrls \union {e.url}
    BY <1>2, <1>3 DEF CachedUrls
  <1>7. cache[1].pool \in CachedPools /\ \A k \in 1..NumPools : cache[k].pool = cache[1].pool => k = 1
    BY <1>2, <1>5 DEF CachedPools, Distinct
  <1>8. CachedPools' = (CachedPools \ {cache[1].pool}) \union {e.pool}
    <2>1. \A q \in CachedPools' : q \in (CachedPools \ {cache[1].pool}) \union {e.pool}
      <3>1. ASSUME NEW k \in 1..NumPools
            PROVE  cache'[k].pool \in (CachedPools \ {cache[1].pool}) \union {e.pool}
        <4>1. CASE k + 1 \in 1..NumPools /\ cache'[k] = cache[k + 1]
          <5>1. cache[k + 1].pool \in CachedPools
            BY <1>2, <4>1 DEF CachedPools
          <5>2. k + 1 # 1
            BY <1>0
          <5> QED
            BY <1>7, <4>1, <5>1, <5>2
        <4>2. CASE cache'[k] = e
          BY <4>2
        <4> QED
          BY <1>3, <4>1, <4>2
      <3> QED
        BY <1>2, <3>1 DEF CachedPools
    <2>2. e.pool \in CachedPools'
      BY <1>2, <1>5 DEF CachedPools
    <2>3. ASSUME NEW l \in 1..NumPools, cache[l].pool # cache[1].pool
          PROVE  cache[l].pool \in CachedPools'
      <3>1. PICK k \in 1..NumPools : cache'[k] = cache[l]
        BY <1>4, <2>3
      <3> QED
        BY <1>2, <3>1 DEF CachedPools
    <2>4. \A q \in CachedPools \ {cache[1].pool} : q \in CachedPools'
      BY <1>2, <2>3 DEF CachedPools
    <2> QED
      BY <2>1, <2>2, <2>4
  <1>9. \A k \in 1..NumPools : cache[k].url # e.url /\ cache[k].pool # e.pool
    BY <1>2 DEF CachedUrls, CachedPools
  <1>10. Distinct'
    <2>1. \A k, l \in 1..NumPools : k + 1 = l + 1 => k = l
      BY <1>0
    <2>2. /\ \A k, l \in 1..NumPools : cache[k].url = cache[l].url => k = l
          /\ \A k, l \in 1..NumPools : cache[k].pool = cache[l].pool => k = l
      BY <1>2 DEF Distinct
    <2>3. ASSUME NEW k \in 1..NumPools, NEW l \in 1..NumPools,
                 cache'[k].url = cache'[l].url \/ cache'[k].pool = cache'[l].pool
          PROVE  k = l
      <3>1. CASE cache'[k] = e /\ k = NumPools
        BY <1>3, <1>9, <2>3, <3>1
      <3>2. CASE cache'[l] = e /\ l = NumPools
        BY <1>3, <1>9, <2>3, <3>2
      <3>3. CASE /\ k + 1 \in 1..NumPools /\ cache'[k] = cache[k + 1]
                 /\ l + 1 \in 1..NumPools /\ cache'[l] = cache[l + 1]
        BY <2>1, <2>2, <2>3, <3>3
      <3> QED
        BY <1>3, <3>1, <3>2, <3>3
    <2>4. Len(cache') <= NumPools
      BY <1>0, <1>1
    <2> QED
      BY <1>2, <2>3, <2>4 DEF Distinct
  <1> QED
    BY <1>1, <1>6, <1>7, <1>8, <1>10

(* A new pool is none of those in use.                                     *)
LEMMA NewPoolIsNew ==
    ASSUME TypeOK, FreeIds # {}
    PROVE  NewPool \in Pool /\ NewPool \notin open /\ \A t \in Thread : pool[t] # NewPool
  <1>1. NewPool.id \in FreeIds /\ NewPool \in Pool
    <2>1. (CHOOSE x \in FreeIds : TRUE) \in FreeIds
      OBVIOUS
    <2> QED
      BY <2>1 DEF NewPool, Pool, FreeIds
  <1>2. NewPool \notin PoolsInUse
    BY <1>1 DEF FreeIds
  <1>3. \A t \in Thread : pool[t] # None => pool[t] \in PoolsInUse
    BY DEF TypeOK, PoolsInUse, Range
  <1> QED
    BY <1>1, <1>2, <1>3, PoolConstants DEF PoolsInUse
(* What making a pool does.                                                *)
Created(t, p) ==
    /\ p \in Pool /\ p \notin open /\ \A x \in Thread : pool[x] # p
    /\ pool' = [pool EXCEPT ![t] = p] /\ pc' = [pc EXCEPT ![t] = "conn"]
    /\ cache' \in Seq(Entry) /\ Distinct' /\ CachedUrls' \subseteq CachedUrls \union {url[t]}
    /\ \/ CachedPools' = CachedPools \union {p} /\ open' = open \union {p}
       \/ \E q \in CachedPools :
             CachedPools' = (CachedPools \ {q}) \union {p} /\ open' = (open \union {p}) \ {q}
    /\ \/ /\ Len(cache) < NumPools /\ Len(cache') = Len(cache) + 1
          /\ \A k \in 1..Len(cache) : cache'[k] = cache[k]
          /\ cache'[Len(cache) + 1] = [url |-> url[t], pool |-> p]
       \/ /\ Len(cache) = NumPools /\ Len(cache') = NumPools
          /\ \A k \in 1..NumPools :
                cache'[k] = IF k < NumPools THEN cache[k + 1] ELSE [url |-> url[t], pool |-> p]

(* Create makes such a pool.                                               *)
LEMMA CreateEffect ==
    ASSUME TypeOK, Holding, Locked, Distinct, Disposed, NEW t \in Thread, Create(t)
    PROVE  \E p \in Pool : Created(t, p)
  <1>1. PICK p : p = NewPool
    OBVIOUS
  <1>2. p \in Pool /\ p \notin open /\ \A x \in Thread : pool[x] # p
    BY <1>1, NewPoolIsNew DEF Create
  <1>3. PICK e : e = [url |-> url[t], pool |-> p]
    OBVIOUS
  <1>4. url[t] \in Url /\ url[t] \notin CachedUrls
    BY DEF TypeOK, Create, Holding, Locked
  <1>5. p \notin CachedPools
    BY <1>2 DEF Disposed
  <1>6. e \in Entry /\ e.url = url[t] /\ e.pool = p /\ e.url \notin CachedUrls /\ e.pool \notin CachedPools
    BY <1>2, <1>3, <1>4, <1>5 DEF Entry
  <1>7. pool' = [pool EXCEPT ![t] = p] /\ pc' = [pc EXCEPT ![t] = "conn"]
    BY <1>1 DEF Create, Goto
  <1>8. cache \in Seq(Entry) /\ Len(cache) \in Nat /\ NumPools \in Nat /\ NumPools > 0 /\ Len(cache) <= NumPools
    BY PoolConstants, LenProperties DEF TypeOK, Distinct
  <1>9. Len(Append(cache, e)) = Len(cache) + 1
    BY <1>6, <1>8, AppendProperties
  <1>10. /\ cache' = (IF Len(cache) + 1 > NumPools THEN Tail(Append(cache, e)) ELSE Append(cache, e))
         /\ open' = (open \union {p}) \ (IF Len(cache) + 1 > NumPools THEN {Head(Append(cache, e)).pool} ELSE {})
    BY <1>1, <1>3, <1>9 DEF Create
  <1>11. CASE Len(cache) < NumPools
    <2>1. ~(Len(cache) + 1 > NumPools)
      BY <1>8, <1>11
    <2>2. cache' = Append(cache, e) /\ open' = open \union {p}
      BY <1>10, <2>1
    <2> QED
      BY <1>2, <1>3, <1>6, <1>7, <1>11, <2>2, AddedCache DEF Created
  <1>12. CASE Len(cache) = NumPools
    <2>1. Len(cache) + 1 > NumPools
      BY <1>8, <1>12
    <2>2. Head(Append(cache, e)) = cache[1]
      <3>1. Append(cache, e)[1] = cache[1]
        BY <1>6, <1>8, <1>12, AppendProperties
      <3> QED
        BY <3>1 DEF Head
    <2>3. cache' = Tail(Append(cache, e)) /\ open' = (open \union {p}) \ {cache[1].pool}
      BY <1>10, <2>1, <2>2
    <2>4. /\ cache' \in Seq(Entry) /\ Len(cache') = NumPools /\ Distinct'
          /\ CachedUrls' \subseteq CachedUrls \union {e.url}
          /\ CachedPools' = (CachedPools \ {cache[1].pool}) \union {e.pool}
          /\ cache[1].pool \in CachedPools
          /\ \A k \in 1..NumPools : cache'[k] = IF k < NumPools THEN cache[k + 1] ELSE e
      BY <1>6, <1>12, <2>3, EvictedCache
    <2>5. \E q \in CachedPools :
             CachedPools' = (CachedPools \ {q}) \union {p} /\ open' = (open \union {p}) \ {q}
      BY <1>6, <2>3, <2>4
    <2> QED
      BY <1>2, <1>3, <1>6, <1>7, <1>12, <2>4, <2>5 DEF Created
  <1> QED
    BY <1>8, <1>11, <1>12

-----------------------------------------------------------------------------
(* What each step keeps                                                    *)

(* The steps that the program and its surroundings take.                   *)
LEMMA Steps ==
    ASSUME Next
    PROVE  \/ \E t \in Thread, u \in Url : Request(t, u)
           \/ \E t \in Thread : \/ Hit(t) \/ Miss(t) \/ Reconnect(t) \/ ReconnectFails(t)
                                \/ Connected(t) \/ Create(t) \/ GetConn(t) \/ Connect(t)
                                \/ Dispose(t) \/ CloseClient(t) \/ Clear(t)
           \/ Drop
  BY PoolConstants DEF Next, Proceed, GetConnection

(* What is cached has its type.                                            *)
LEMMA Cached ==
    ASSUME TypeOK
    PROVE  /\ DOMAIN cache = 1..Len(cache) /\ Len(cache) \in Nat
           /\ \A i \in DOMAIN cache : /\ cache[i] \in Entry
                                      /\ cache[i].url \in CachedUrls /\ cache[i].url \in Url
                                      /\ cache[i].pool \in CachedPools /\ cache[i].pool \in Pool
           /\ CachedUrls \subseteq Url /\ CachedPools \subseteq Pool
  <1>1. cache \in Seq(Entry)
    BY DEF TypeOK
  <1>2. DOMAIN cache = 1..Len(cache) /\ Len(cache) \in Nat
    BY <1>1, LenProperties
  <1>3. \A i \in DOMAIN cache : cache[i] \in Entry
    BY <1>1, <1>2, ElementOfSeq
  <1>4. \A i \in DOMAIN cache : cache[i].url \in Url /\ cache[i].pool \in Pool
    BY <1>3 DEF Entry
  <1> QED
    BY <1>2, <1>3, <1>4 DEF CachedUrls, CachedPools

(* What threads hold fits what they do.                                    *)
LEMMA HoldingKept ==
    ASSUME TypeOK, Holding, Locked, Distinct, Disposed, Next
    PROVE  Holding'
  <1>0. /\ pc \in [Thread -> {"idle", "lookup", "check", "create", "conn", "connect", "dispose"}]
        /\ url \in [Thread -> Url \union {None}] /\ pool \in [Thread -> Pool \union {None}]
        /\ trash \in [Thread -> SUBSET Pool] /\ None \notin Thread /\ None \notin Url /\ None \notin Pool
    BY PoolConstants DEF TypeOK
  <1>1. ASSUME NEW t \in Thread, NEW u \in Url, Request(t, u)
        PROVE  Holding'
    BY <1>0, <1>1 DEF Request, Holding, Goto, Finish, Witnessed
  <1>2. ASSUME NEW t \in Thread, Hit(t)
        PROVE  Holding'
    <2>1. PICK i \in DOMAIN cache : pool' = [pool EXCEPT ![t] = cache[i].pool] /\ cache[i].url = url[t]
      BY <1>2 DEF Hit
    <2>2. cache[i].pool \in Pool /\ url[t] \in Url
      BY <2>1, Cached
    <2> QED
      BY <1>0, <1>2, <2>1, <2>2 DEF Hit, Holding, Goto, Finish, Witnessed
  <1>3. ASSUME NEW t \in Thread, Miss(t)
        PROVE  Holding'
    BY <1>0, <1>3 DEF Miss, Holding, Goto, Finish, Witnessed
  <1>4. ASSUME NEW t \in Thread, Reconnect(t)
        PROVE  Holding'
    BY <1>0, <1>4 DEF Reconnect, Holding, Goto, Finish, Witnessed
  <1>5. ASSUME NEW t \in Thread, ReconnectFails(t)
        PROVE  Holding'
    BY <1>0, <1>5 DEF ReconnectFails, Holding, Goto, Finish, Witnessed
  <1>6. ASSUME NEW t \in Thread, Connected(t)
        PROVE  Holding'
    BY <1>0, <1>6 DEF Connected, Holding, Goto, Finish, Witnessed
  <1>7. ASSUME NEW t \in Thread, Create(t)
        PROVE  Holding'
    <2>1. PICK p \in Pool : pool' = [pool EXCEPT ![t] = p]
      BY <1>7, CreateEffect DEF Created
    <2>2. pc[t] = "create" /\ pc' = [pc EXCEPT ![t] = "conn"] /\ UNCHANGED <<url, trash>>
      BY <1>7 DEF Create, Goto, Finish, Witnessed
    <2> QED
      BY <1>0, <2>1, <2>2 DEF Holding
  <1>8. ASSUME NEW t \in Thread, GetConn(t)
        PROVE  Holding'
    BY <1>0, <1>8 DEF GetConn, Holding, Goto, Finish, Witnessed
  <1>9. ASSUME NEW t \in Thread, Connect(t)
        PROVE  Holding'
    BY <1>0, <1>9 DEF Connect, Holding, Goto, Finish, Witnessed
  <1>10. ASSUME NEW t \in Thread, Dispose(t)
        PROVE  Holding'
    BY <1>0, <1>10 DEF Dispose, Holding, Goto, Finish, Witnessed
  <1>11. ASSUME NEW t \in Thread, CloseClient(t)
        PROVE  Holding'
    BY <1>0, <1>11 DEF CloseClient, Holding, Goto, Finish, Witnessed
  <1>12. ASSUME NEW t \in Thread, Clear(t)
        PROVE  Holding'
    BY <1>0, <1>12 DEF Clear, Holding, Goto, Finish, Witnessed
  <1>13. CASE Drop
    BY <1>0, <1>13 DEF Drop, Holding, Goto, Finish, Witnessed
  <1> QED
    BY <1>1, <1>2, <1>3, <1>4, <1>5, <1>6, <1>7, <1>8, <1>9, <1>10, <1>11, <1>12, <1>13, Steps

(* Only the holder of the lock makes a pool for its URL.                   *)
LEMMA LockedKept ==
    ASSUME TypeOK, Holding, Locked, Distinct, Disposed, Next
    PROVE  Locked'
  <1>0. /\ pc \in [Thread -> {"idle", "lookup", "check", "create", "conn", "connect", "dispose"}]
        /\ url \in [Thread -> Url \union {None}] /\ pool \in [Thread -> Pool \union {None}]
        /\ trash \in [Thread -> SUBSET Pool] /\ None \notin Thread /\ None \notin Url /\ None \notin Pool
    BY PoolConstants DEF TypeOK
  <1>1. ASSUME NEW t \in Thread, NEW u \in Url, Request(t, u)
        PROVE  Locked'
    <2>1. CachedUrls' = CachedUrls
      BY <1>1 DEF Request, lockAndPools, CachedUrls
    <2> QED
      BY <1>0, <1>1, <2>1 DEF Request, Locked, lockAndPools, Goto, Finish, Witnessed
  <1>2. ASSUME NEW t \in Thread, Hit(t)
        PROVE  Locked'
    <2>1. pc' = [pc EXCEPT ![t] = "conn"] /\ lock = None
      BY <1>2 DEF Hit, Goto
    <2> QED
      BY <1>0, <2>1 DEF Locked
  <1>3. ASSUME NEW t \in Thread, Miss(t)
        PROVE  Locked'
    <2>1. /\ UNCHANGED <<cache, url>> /\ url[t] \notin CachedUrls /\ CachedUrls' = CachedUrls
          /\ lock = None /\ lock' = t /\ (pc' = [pc EXCEPT ![t] = "check"] \/ pc' = [pc EXCEPT ![t] = "create"])
      BY <1>3 DEF Miss, CachedUrls, Goto
    <2> QED
      BY <1>0, <2>1 DEF Locked
  <1>4. ASSUME NEW t \in Thread, Reconnect(t)
        PROVE  Locked'
    <2>1. CachedUrls' = CachedUrls
      BY <1>4 DEF Reconnect, CachedUrls, lockAndPools, Goto, Finish, Witnessed
    <2> QED
      BY <1>0, <1>4, <2>1 DEF Reconnect, Locked, lockAndPools, Goto, Finish, Witnessed
  <1>5. ASSUME NEW t \in Thread, ReconnectFails(t)
        PROVE  Locked'
    <2>1. CachedUrls' = CachedUrls
      BY <1>5 DEF ReconnectFails, CachedUrls, lockAndPools, Goto, Finish, Witnessed
    <2> QED
      BY <1>0, <1>5, <2>1 DEF ReconnectFails, Locked, lockAndPools, Goto, Finish, Witnessed
  <1>6. ASSUME NEW t \in Thread, Connected(t)
        PROVE  Locked'
    <2>1. CachedUrls' = CachedUrls
      BY <1>6 DEF Connected, CachedUrls, lockAndPools, Goto, Finish, Witnessed
    <2> QED
      BY <1>0, <1>6, <2>1 DEF Connected, Locked, lockAndPools, Goto, Finish, Witnessed
  <1>7. ASSUME NEW t \in Thread, Create(t)
        PROVE  Locked'
    <2>1. pc' = [pc EXCEPT ![t] = "conn"] /\ pc[t] = "create"
      BY <1>7 DEF Create, Goto
    <2> QED
      BY <1>0, <2>1 DEF Locked
  <1>8. ASSUME NEW t \in Thread, GetConn(t)
        PROVE  Locked'
    <2>1. CachedUrls' = CachedUrls
      BY <1>8 DEF GetConn, CachedUrls, lockAndPools, Goto, Finish, Witnessed
    <2> QED
      BY <1>0, <1>8, <2>1 DEF GetConn, Locked, lockAndPools, Goto, Finish, Witnessed
  <1>9. ASSUME NEW t \in Thread, Connect(t)
        PROVE  Locked'
    <2>1. CachedUrls' = CachedUrls
      BY <1>9 DEF Connect, CachedUrls, lockAndPools, Goto, Finish, Witnessed
    <2> QED
      BY <1>0, <1>9, <2>1 DEF Connect, Locked, lockAndPools, Goto, Finish, Witnessed
  <1>10. ASSUME NEW t \in Thread, Dispose(t)
        PROVE  Locked'
    <2>1. CachedUrls' = CachedUrls
      BY <1>10 DEF Dispose, CachedUrls, lockAndPools, Goto, Finish, Witnessed
    <2> QED
      BY <1>0, <1>10, <2>1 DEF Dispose, Locked, lockAndPools, Goto, Finish, Witnessed
  <1>11. ASSUME NEW t \in Thread, CloseClient(t)
        PROVE  Locked'
    <2>1. CachedUrls' = CachedUrls
      BY <1>11 DEF CloseClient, CachedUrls, lockAndPools, Goto, Finish, Witnessed
    <2> QED
      BY <1>0, <1>11, <2>1 DEF CloseClient, Locked, lockAndPools, Goto, Finish, Witnessed
  <1>12. ASSUME NEW t \in Thread, Clear(t)
        PROVE  Locked'
    <2>1. pc' = [pc EXCEPT ![t] = "dispose"] /\ lock = None
      BY <1>12 DEF Clear, Goto
    <2> QED
      BY <1>0, <2>1 DEF Locked
  <1>13. CASE Drop
    BY <1>13 DEF Drop, Locked, CachedUrls, lockAndPools
  <1> QED
    BY <1>1, <1>2, <1>3, <1>4, <1>5, <1>6, <1>7, <1>8, <1>9, <1>10, <1>11, <1>12, <1>13, Steps

(* Variables keep their types.                                             *)
LEMMA Typed ==
    ASSUME TypeOK, Holding, Locked, Distinct, Disposed, Next
    PROVE  TypeOK'
  <1>0. /\ pc \in [Thread -> {"idle", "lookup", "check", "create", "conn", "connect", "dispose"}]
        /\ url \in [Thread -> Url \union {None}] /\ pool \in [Thread -> Pool \union {None}]
        /\ trash \in [Thread -> SUBSET Pool] /\ client \in {"up", "dead", "closed"}
        /\ lock \in Thread \union {None} /\ cache \in Seq(Entry) /\ open \subseteq Pool
        /\ others \in [Thread -> SUBSET Url] /\ cleared \in [Thread -> BOOLEAN]
    BY DEF TypeOK
  <1>1. ASSUME NEW t \in Thread, NEW u \in Url, Request(t, u)
        PROVE  TypeOK'
    <2>1. /\ pc' \in [Thread -> {"idle", "lookup", "check", "create", "conn", "connect", "dispose"}]
          /\ url' \in [Thread -> Url \union {None}] /\ pool' \in [Thread -> Pool \union {None}]
          /\ trash' \in [Thread -> SUBSET Pool] /\ others' \in [Thread -> SUBSET Url]
          /\ cleared' \in [Thread -> BOOLEAN]
      BY <1>0, <1>1 DEF Request, lockAndPools, Goto, Finish, Witnessed
    <2>2. /\ client' \in {"up", "dead", "closed"} /\ lock' \in Thread \union {None}
          /\ UNCHANGED <<cache, open>>
      BY <1>0, <1>1 DEF Request, lockAndPools, Goto, Finish, Witnessed
    <2> QED
      BY <1>0, <2>1, <2>2 DEF TypeOK
  <1>2. ASSUME NEW t \in Thread, Hit(t)
        PROVE  TypeOK'
    <2>1. client' \in {"up", "dead", "closed"} /\ lock' \in Thread \union {None}
      BY <1>0, <1>2 DEF Hit, lockAndPools, Goto, Finish, Witnessed
    <2>2. cache' \in Seq(Entry) /\ open' \subseteq Pool
      BY <1>0, <1>2, HitCache DEF Hit
    <2>3. pc' \in [Thread -> {"idle", "lookup", "check", "create", "conn", "connect", "dispose"}]
      BY <1>0, <1>2 DEF Hit, lockAndPools, Goto, Finish, Witnessed
    <2>4. url' \in [Thread -> Url \union {None}] /\ pool' \in [Thread -> Pool \union {None}]
      BY <1>0, <1>2, Cached DEF Hit
    <2>5. trash' \in [Thread -> SUBSET Pool]
      BY <1>0, <1>2 DEF Hit, lockAndPools, Goto, Finish, Witnessed
    <2>6. others' \in [Thread -> SUBSET Url]
      <3>1. url[t] \in Url
        BY <1>0, <1>2 DEF Hit, Holding
      <3> QED
        BY <1>0, <1>2, <3>1 DEF Hit, Witnessed
    <2>7. cleared' \in [Thread -> BOOLEAN]
      BY <1>0, <1>2 DEF Hit, lockAndPools, Goto, Finish, Witnessed
    <2> QED
      BY <2>1, <2>2, <2>3, <2>4, <2>5, <2>6, <2>7 DEF TypeOK
  <1>3. ASSUME NEW t \in Thread, Miss(t)
        PROVE  TypeOK'
    <2>1. /\ pc' \in [Thread -> {"idle", "lookup", "check", "create", "conn", "connect", "dispose"}]
          /\ url' \in [Thread -> Url \union {None}] /\ pool' \in [Thread -> Pool \union {None}]
          /\ trash' \in [Thread -> SUBSET Pool] /\ others' \in [Thread -> SUBSET Url]
          /\ cleared' \in [Thread -> BOOLEAN]
      BY <1>0, <1>3 DEF Miss, lockAndPools, Goto, Finish, Witnessed
    <2>2. /\ client' \in {"up", "dead", "closed"} /\ lock' \in Thread \union {None}
          /\ UNCHANGED <<cache, open>>
      BY <1>0, <1>3 DEF Miss, lockAndPools, Goto, Finish, Witnessed
    <2> QED
      BY <1>0, <2>1, <2>2 DEF TypeOK
  <1>4. ASSUME NEW t \in Thread, Reconnect(t)
        PROVE  TypeOK'
    <2>1. /\ pc' \in [Thread -> {"idle", "lookup", "check", "create", "conn", "connect", "dispose"}]
          /\ url' \in [Thread -> Url \union {None}] /\ pool' \in [Thread -> Pool \union {None}]
          /\ trash' \in [Thread -> SUBSET Pool] /\ others' \in [Thread -> SUBSET Url]
          /\ cleared' \in [Thread -> BOOLEAN]
      BY <1>0, <1>4 DEF Reconnect, lockAndPools, Goto, Finish, Witnessed
    <2>2. /\ client' \in {"up", "dead", "closed"} /\ lock' \in Thread \union {None}
          /\ UNCHANGED <<cache, open>>
      BY <1>0, <1>4 DEF Reconnect, lockAndPools, Goto, Finish, Witnessed
    <2> QED
      BY <1>0, <2>1, <2>2 DEF TypeOK
  <1>5. ASSUME NEW t \in Thread, ReconnectFails(t)
        PROVE  TypeOK'
    <2>1. /\ pc' \in [Thread -> {"idle", "lookup", "check", "create", "conn", "connect", "dispose"}]
          /\ url' \in [Thread -> Url \union {None}] /\ pool' \in [Thread -> Pool \union {None}]
          /\ trash' \in [Thread -> SUBSET Pool] /\ others' \in [Thread -> SUBSET Url]
          /\ cleared' \in [Thread -> BOOLEAN]
      BY <1>0, <1>5 DEF ReconnectFails, lockAndPools, Goto, Finish, Witnessed
    <2>2. /\ client' \in {"up", "dead", "closed"} /\ lock' \in Thread \union {None}
          /\ UNCHANGED <<cache, open>>
      BY <1>0, <1>5 DEF ReconnectFails, lockAndPools, Goto, Finish, Witnessed
    <2> QED
      BY <1>0, <2>1, <2>2 DEF TypeOK
  <1>6. ASSUME NEW t \in Thread, Connected(t)
        PROVE  TypeOK'
    <2>1. /\ pc' \in [Thread -> {"idle", "lookup", "check", "create", "conn", "connect", "dispose"}]
          /\ url' \in [Thread -> Url \union {None}] /\ pool' \in [Thread -> Pool \union {None}]
          /\ trash' \in [Thread -> SUBSET Pool] /\ others' \in [Thread -> SUBSET Url]
          /\ cleared' \in [Thread -> BOOLEAN]
      BY <1>0, <1>6 DEF Connected, lockAndPools, Goto, Finish, Witnessed
    <2>2. /\ client' \in {"up", "dead", "closed"} /\ lock' \in Thread \union {None}
          /\ UNCHANGED <<cache, open>>
      BY <1>0, <1>6 DEF Connected, lockAndPools, Goto, Finish, Witnessed
    <2> QED
      BY <1>0, <2>1, <2>2 DEF TypeOK
  <1>7. ASSUME NEW t \in Thread, Create(t)
        PROVE  TypeOK'
    <2>1. client' \in {"up", "dead", "closed"} /\ lock' \in Thread \union {None}
      BY <1>0, <1>7 DEF Create, lockAndPools, Goto, Finish, Witnessed
    <2>2. cache' \in Seq(Entry) /\ open' \subseteq Pool
      <3>1. PICK p \in Pool : Created(t, p)
        BY <1>7, CreateEffect
      <3> QED
        BY <1>0, <3>1 DEF Created
    <2>3. pc' \in [Thread -> {"idle", "lookup", "check", "create", "conn", "connect", "dispose"}]
      BY <1>0, <1>7 DEF Create, lockAndPools, Goto, Finish, Witnessed
    <2>4. url' \in [Thread -> Url \union {None}] /\ pool' \in [Thread -> Pool \union {None}]
      <3>1. PICK p \in Pool : Created(t, p)
        BY <1>7, CreateEffect
      <3>2. url' = url
        BY <1>7 DEF Create
      <3> QED
        BY <1>0, <3>1, <3>2 DEF Created
    <2>5. trash' \in [Thread -> SUBSET Pool]
      BY <1>0, <1>7 DEF Create, lockAndPools, Goto, Finish, Witnessed
    <2>6. others' \in [Thread -> SUBSET Url]
      <3>1. url[t] \in Url
        BY <1>0, <1>7 DEF Create, Holding
      <3> QED
        BY <1>0, <1>7, <3>1 DEF Create, Witnessed
    <2>7. cleared' \in [Thread -> BOOLEAN]
      BY <1>0, <1>7 DEF Create, lockAndPools, Goto, Finish, Witnessed
    <2> QED
      BY <2>1, <2>2, <2>3, <2>4, <2>5, <2>6, <2>7 DEF TypeOK
  <1>8. ASSUME NEW t \in Thread, GetConn(t)
        PROVE  TypeOK'
    <2>1. /\ pc' \in [Thread -> {"idle", "lookup", "check", "create", "conn", "connect", "dispose"}]
          /\ url' \in [Thread -> Url \union {None}] /\ pool' \in [Thread -> Pool \union {None}]
          /\ trash' \in [Thread -> SUBSET Pool] /\ others' \in [Thread -> SUBSET Url]
          /\ cleared' \in [Thread -> BOOLEAN]
      BY <1>0, <1>8 DEF GetConn, lockAndPools, Goto, Finish, Witnessed
    <2>2. /\ client' \in {"up", "dead", "closed"} /\ lock' \in Thread \union {None}
          /\ UNCHANGED <<cache, open>>
      BY <1>0, <1>8 DEF GetConn, lockAndPools, Goto, Finish, Witnessed
    <2> QED
      BY <1>0, <2>1, <2>2 DEF TypeOK
  <1>9. ASSUME NEW t \in Thread, Connect(t)
        PROVE  TypeOK'
    <2>1. /\ pc' \in [Thread -> {"idle", "lookup", "check", "create", "conn", "connect", "dispose"}]
          /\ url' \in [Thread -> Url \union {None}] /\ pool' \in [Thread -> Pool \union {None}]
          /\ trash' \in [Thread -> SUBSET Pool] /\ others' \in [Thread -> SUBSET Url]
          /\ cleared' \in [Thread -> BOOLEAN]
      BY <1>0, <1>9 DEF Connect, lockAndPools, Goto, Finish, Witnessed
    <2>2. /\ client' \in {"up", "dead", "closed"} /\ lock' \in Thread \union {None}
          /\ UNCHANGED <<cache, open>>
      BY <1>0, <1>9 DEF Connect, lockAndPools, Goto, Finish, Witnessed
    <2> QED
      BY <1>0, <2>1, <2>2 DEF TypeOK
  <1>10. ASSUME NEW t \in Thread, Dispose(t)
        PROVE  TypeOK'
    <2>1. client' \in {"up", "dead", "closed"} /\ lock' \in Thread \union {None}
      BY <1>0, <1>10 DEF Dispose, lockAndPools, Goto, Finish, Witnessed
    <2>2. cache' \in Seq(Entry) /\ open' \subseteq Pool
      BY <1>0, <1>10 DEF Dispose, lockAndPools, Goto, Finish, Witnessed
    <2>3. pc' \in [Thread -> {"idle", "lookup", "check", "create", "conn", "connect", "dispose"}]
      BY <1>0, <1>10 DEF Dispose, lockAndPools, Goto, Finish, Witnessed
    <2>4. url' \in [Thread -> Url \union {None}] /\ pool' \in [Thread -> Pool \union {None}]
      BY <1>0, <1>10 DEF Dispose, lockAndPools, Goto, Finish, Witnessed
    <2>5. trash' \in [Thread -> SUBSET Pool]
      BY <1>0, <1>10 DEF Dispose
    <2>6. others' \in [Thread -> SUBSET Url]
      BY <1>0, <1>10 DEF Dispose, lockAndPools, Goto, Finish, Witnessed
    <2>7. cleared' \in [Thread -> BOOLEAN]
      BY <1>0, <1>10 DEF Dispose, lockAndPools, Goto, Finish, Witnessed
    <2> QED
      BY <2>1, <2>2, <2>3, <2>4, <2>5, <2>6, <2>7 DEF TypeOK
  <1>11. ASSUME NEW t \in Thread, CloseClient(t)
        PROVE  TypeOK'
    <2>1. /\ pc' \in [Thread -> {"idle", "lookup", "check", "create", "conn", "connect", "dispose"}]
          /\ url' \in [Thread -> Url \union {None}] /\ pool' \in [Thread -> Pool \union {None}]
          /\ trash' \in [Thread -> SUBSET Pool] /\ others' \in [Thread -> SUBSET Url]
          /\ cleared' \in [Thread -> BOOLEAN]
      BY <1>0, <1>11 DEF CloseClient, lockAndPools, Goto, Finish, Witnessed
    <2>2. /\ client' \in {"up", "dead", "closed"} /\ lock' \in Thread \union {None}
          /\ UNCHANGED <<cache, open>>
      BY <1>0, <1>11 DEF CloseClient, lockAndPools, Goto, Finish, Witnessed
    <2> QED
      BY <1>0, <2>1, <2>2 DEF TypeOK
  <1>12. ASSUME NEW t \in Thread, Clear(t)
        PROVE  TypeOK'
    <2>1. client' \in {"up", "dead", "closed"} /\ lock' \in Thread \union {None}
      BY <1>0, <1>12 DEF Clear, lockAndPools, Goto, Finish, Witnessed
    <2>2. cache' \in Seq(Entry) /\ open' \subseteq Pool
      BY <1>0, <1>12 DEF Clear
    <2>3. pc' \in [Thread -> {"idle", "lookup", "check", "create", "conn", "connect", "dispose"}]
      BY <1>0, <1>12 DEF Clear, lockAndPools, Goto, Finish, Witnessed
    <2>4. url' \in [Thread -> Url \union {None}] /\ pool' \in [Thread -> Pool \union {None}]
      BY <1>0, <1>12 DEF Clear, lockAndPools, Goto, Finish, Witnessed
    <2>5. trash' \in [Thread -> SUBSET Pool]
      BY <1>0, <1>12, Cached DEF Clear
    <2>6. others' \in [Thread -> SUBSET Url]
      BY <1>0, <1>12 DEF Clear, lockAndPools, Goto, Finish, Witnessed
    <2>7. cleared' \in [Thread -> BOOLEAN]
      BY <1>0, <1>12 DEF Clear, lockAndPools, Goto, Finish, Witnessed
    <2> QED
      BY <2>1, <2>2, <2>3, <2>4, <2>5, <2>6, <2>7 DEF TypeOK
  <1>13. CASE Drop
    <2>1. /\ pc' \in [Thread -> {"idle", "lookup", "check", "create", "conn", "connect", "dispose"}]
          /\ url' \in [Thread -> Url \union {None}] /\ pool' \in [Thread -> Pool \union {None}]
          /\ trash' \in [Thread -> SUBSET Pool] /\ others' \in [Thread -> SUBSET Url]
          /\ cleared' \in [Thread -> BOOLEAN]
      BY <1>0, <1>13 DEF Drop, lockAndPools, Goto, Finish, Witnessed
    <2>2. /\ client' \in {"up", "dead", "closed"} /\ lock' \in Thread \union {None}
          /\ UNCHANGED <<cache, open>>
      BY <1>0, <1>13 DEF Drop, lockAndPools, Goto, Finish, Witnessed
    <2> QED
      BY <1>0, <2>1, <2>2 DEF TypeOK
  <1> QED
    BY <1>1, <1>2, <1>3, <1>4, <1>5, <1>6, <1>7, <1>8, <1>9, <1>10, <1>11, <1>12, <1>13, Steps

(* With the same pools cached, open and to dispose of, nothing is lost.    *)
LEMMA DisposedSame ==
    ASSUME Disposed, CachedPools' = CachedPools, open' = open, trash' = trash
    PROVE  Disposed'
  BY DEF Disposed

(* No open pool is forgotten.                                              *)
LEMMA DisposedKept ==
    ASSUME TypeOK, Holding, Locked, Distinct, Disposed, Next
    PROVE  Disposed'
  <1>0. /\ pc \in [Thread -> {"idle", "lookup", "check", "create", "conn", "connect", "dispose"}]
        /\ url \in [Thread -> Url \union {None}] /\ pool \in [Thread -> Pool \union {None}]
        /\ trash \in [Thread -> SUBSET Pool] /\ None \notin Thread /\ None \notin Url /\ None \notin Pool
    BY PoolConstants DEF TypeOK
  <1>1. ASSUME NEW t \in Thread, NEW u \in Url, Request(t, u)
        PROVE  Disposed'
    <2>1. CachedPools' = CachedPools /\ open' = open /\ trash' = trash
      BY <1>1 DEF Request, CachedPools, lockAndPools
    <2> QED
      BY <2>1, DisposedSame
  <1>2. ASSUME NEW t \in Thread, Hit(t)
        PROVE  Disposed'
    <2>1. CachedPools' = CachedPools /\ open' = open /\ trash' = trash
      BY <1>2, HitCache DEF Hit
    <2> QED
      BY <2>1, DisposedSame
  <1>3. ASSUME NEW t \in Thread, Miss(t)
        PROVE  Disposed'
    <2>1. CachedPools' = CachedPools /\ open' = open /\ trash' = trash
      BY <1>3 DEF Miss, CachedPools, lockAndPools
    <2> QED
      BY <2>1, DisposedSame
  <1>4. ASSUME NEW t \in Thread, Reconnect(t)
        PROVE  Disposed'
    <2>1. CachedPools' = CachedPools /\ open' = open /\ trash' = trash
      BY <1>4 DEF Reconnect, CachedPools, lockAndPools
    <2> QED
      BY <2>1, DisposedSame
  <1>5. ASSUME NEW t \in Thread, ReconnectFails(t)
        PROVE  Disposed'
    <2>1. CachedPools' = CachedPools /\ open' = open /\ trash' = trash
      BY <1>5 DEF ReconnectFails, CachedPools, lockAndPools
    <2> QED
      BY <2>1, DisposedSame
  <1>6. ASSUME NEW t \in Thread, Connected(t)
        PROVE  Disposed'
    <2>1. CachedPools' = CachedPools /\ open' = open /\ trash' = trash
      BY <1>6 DEF Connected, CachedPools, lockAndPools
    <2> QED
      BY <2>1, DisposedSame
  <1>7. ASSUME NEW t \in Thread, Create(t)
        PROVE  Disposed'
    <2>1. PICK p \in Pool : Created(t, p)
      BY <1>7, CreateEffect
    <2>2. trash' = trash
      BY <1>7 DEF Create
    <2>3. p \notin open /\ \A x \in Thread : p \notin trash[x]
      BY <2>1 DEF Created, Disposed
    <2>4. CASE CachedPools' = CachedPools \union {p} /\ open' = open \union {p}
      BY <2>2, <2>3, <2>4 DEF Disposed
    <2>5. ASSUME NEW q \in CachedPools,
                 CachedPools' = (CachedPools \ {q}) \union {p}, open' = (open \union {p}) \ {q}
          PROVE  Disposed'
      <3>1. q \in open /\ p # q /\ \A x \in Thread : q \notin trash[x]
        BY <2>3, Cached DEF Disposed
      <3> QED
        BY <2>2, <2>3, <2>5, <3>1 DEF Disposed
    <2> QED
      BY <2>1, <2>4, <2>5 DEF Created
  <1>8. ASSUME NEW t \in Thread, GetConn(t)
        PROVE  Disposed'
    <2>1. CachedPools' = CachedPools /\ open' = open /\ trash' = trash
      BY <1>8 DEF GetConn, CachedPools, lockAndPools
    <2> QED
      BY <2>1, DisposedSame
  <1>9. ASSUME NEW t \in Thread, Connect(t)
        PROVE  Disposed'
    <2>1. CachedPools' = CachedPools /\ open' = open /\ trash' = trash
      BY <1>9 DEF Connect, CachedPools, lockAndPools
    <2> QED
      BY <2>1, DisposedSame
  <1>10. ASSUME NEW t \in Thread, Dispose(t)
        PROVE  Disposed'
    <2>1. PICK q \in trash[t] : open' = open \ {q} /\ trash' = [trash EXCEPT ![t] = @ \ {q}]
      BY <1>10 DEF Dispose
    <2>2. CachedPools' = CachedPools
      BY <1>10 DEF Dispose, CachedPools
    <2>3. trash'[t] = trash[t] \ {q} /\ \A x \in Thread : x # t => trash'[x] = trash[x]
      BY <1>0, <2>1
    <2>4. q \notin CachedPools /\ \A x \in Thread : x # t => q \notin trash[x]
      BY <2>1 DEF Disposed
    <2>5. \A r \in Pool : r \in open' <=> r \in CachedPools' \/ \E x \in Thread : r \in trash'[x]
      BY <2>1, <2>2, <2>3, <2>4 DEF Disposed
    <2>6. \A x \in Thread : trash'[x] \subseteq trash[x]
      BY <2>3
    <2> QED
      BY <2>2, <2>5, <2>6 DEF Disposed
  <1>11. ASSUME NEW t \in Thread, CloseClient(t)
        PROVE  Disposed'
    <2>1. CachedPools' = CachedPools /\ open' = open /\ trash' = trash
      BY <1>11 DEF CloseClient, CachedPools, lockAndPools
    <2> QED
      BY <2>1, DisposedSame
  <1>12. ASSUME NEW t \in Thread, Clear(t)
        PROVE  Disposed'
    <2>1. trash' = [trash EXCEPT ![t] = CachedPools] /\ cache' = <<>> /\ open' = open /\ trash[t] = {}
      BY <1>12 DEF Clear, Holding
    <2>2. CachedPools' = {}
      BY <2>1 DEF CachedPools
    <2>3. trash'[t] = CachedPools /\ \A x \in Thread : x # t => trash'[x] = trash[x]
      BY <1>0, <2>1, Cached
    <2>4. \A r \in Pool : r \in open' <=> r \in CachedPools' \/ \E x \in Thread : r \in trash'[x]
      BY <2>1, <2>2, <2>3 DEF Disposed
    <2>5. \A x, y \in Thread : x # y => trash'[x] \intersect trash'[y] = {}
      BY <2>3 DEF Disposed
    <2> QED
      BY <2>2, <2>4, <2>5 DEF Disposed
  <1>13. CASE Drop
    <2>1. CachedPools' = CachedPools /\ open' = open /\ trash' = trash
      BY <1>13 DEF Drop, CachedPools, lockAndPools
    <2> QED
      BY <2>1, DisposedSame
  <1> QED
    BY <1>1, <1>2, <1>3, <1>4, <1>5, <1>6, <1>7, <1>8, <1>9, <1>10, <1>11, <1>12, <1>13, Steps

(* A pool that is cached is so under the URL of whoever has it.            *)
LEMMA KeyedKept ==
    ASSUME TypeOK, Holding, Locked, Distinct, Disposed, Keyed, Next
    PROVE  Keyed'
  <1>0. /\ pc \in [Thread -> {"idle", "lookup", "check", "create", "conn", "connect", "dispose"}]
        /\ url \in [Thread -> Url \union {None}] /\ pool \in [Thread -> Pool \union {None}]
        /\ trash \in [Thread -> SUBSET Pool] /\ None \notin Thread /\ None \notin Url /\ None \notin Pool
    BY PoolConstants DEF TypeOK
  <1>a. \A i \in DOMAIN cache : cache[i].pool # None
    BY <1>0, Cached
  <1>1. ASSUME NEW t \in Thread, NEW u \in Url, Request(t, u)
        PROVE  Keyed'
    <2>1. cache' = cache /\ \A x \in Thread : pool'[x] = None \/ (pool'[x] = pool[x] /\ url'[x] = url[x])
      BY <1>0, <1>1 DEF Request, Holding, lockAndPools, Goto, Finish, Witnessed
    <2> QED
      BY <1>a, <2>1 DEF Keyed
  <1>2. ASSUME NEW t \in Thread, Hit(t)
        PROVE  Keyed'
    <2>1. PICK i \in DOMAIN cache : /\ cache[i].url = url[t] /\ pool' = [pool EXCEPT ![t] = cache[i].pool]
                                    /\ cache' = Append(RemoveAt(cache, i), cache[i])
      BY <1>2 DEF Hit
    <2>2. url' = url
      BY <1>2 DEF Hit
    <2>3. \A k \in DOMAIN cache' : \E l \in DOMAIN cache : cache'[k] = cache[l]
      <3>1. DOMAIN cache' = 1..Len(cache) /\ \A k \in 1..Len(cache) : cache'[k] = cache[From(k, i, Len(cache))]
        BY <2>1, HitCache, LenProperties
      <3>2. PICK n : n = Len(cache)
        OBVIOUS
      <3>3. n \in Nat /\ i \in 1..n
        BY <3>2, Cached
      <3>4. \A k \in 1..n : From(k, i, n) \in 1..n
        BY <3>3, FromAll DEF Rotates
      <3> QED
        BY <3>1, <3>2, <3>4, Cached
    <2>4. \A x \in Thread : pool'[x] = IF x = t THEN cache[i].pool ELSE pool[x]
      BY <1>0, <2>1, Cached
    <2>5. \A x \in Thread, l \in DOMAIN cache : cache[l].pool = pool'[x] => cache[l].url = url[x]
      <3>1. \A l \in DOMAIN cache : cache[l].pool = cache[i].pool => cache[l].url = url[t]
        BY <2>1 DEF Distinct
      <3> QED
        BY <2>4, <3>1 DEF Keyed
    <2> QED
      BY <2>2, <2>3, <2>5 DEF Keyed
  <1>3. ASSUME NEW t \in Thread, Miss(t)
        PROVE  Keyed'
    <2>1. cache' = cache /\ \A x \in Thread : pool'[x] = None \/ (pool'[x] = pool[x] /\ url'[x] = url[x])
      BY <1>0, <1>3 DEF Miss, Holding, lockAndPools, Goto, Finish, Witnessed
    <2> QED
      BY <1>a, <2>1 DEF Keyed
  <1>4. ASSUME NEW t \in Thread, Reconnect(t)
        PROVE  Keyed'
    <2>1. cache' = cache /\ \A x \in Thread : pool'[x] = None \/ (pool'[x] = pool[x] /\ url'[x] = url[x])
      BY <1>0, <1>4 DEF Reconnect, Holding, lockAndPools, Goto, Finish, Witnessed
    <2> QED
      BY <1>a, <2>1 DEF Keyed
  <1>5. ASSUME NEW t \in Thread, ReconnectFails(t)
        PROVE  Keyed'
    <2>1. cache' = cache /\ \A x \in Thread : pool'[x] = None \/ (pool'[x] = pool[x] /\ url'[x] = url[x])
      BY <1>0, <1>5 DEF ReconnectFails, Holding, lockAndPools, Goto, Finish, Witnessed
    <2> QED
      BY <1>a, <2>1 DEF Keyed
  <1>6. ASSUME NEW t \in Thread, Connected(t)
        PROVE  Keyed'
    <2>1. cache' = cache /\ \A x \in Thread : pool'[x] = None \/ (pool'[x] = pool[x] /\ url'[x] = url[x])
      BY <1>0, <1>6 DEF Connected, Holding, lockAndPools, Goto, Finish, Witnessed
    <2> QED
      BY <1>a, <2>1 DEF Keyed
  <1>7. ASSUME NEW t \in Thread, Create(t)
        PROVE  Keyed'
    <2>1. PICK p \in Pool : Created(t, p)
      BY <1>7, CreateEffect
    <2>2. url' = url
      BY <1>7 DEF Create
    <2>3. \A k \in DOMAIN cache' : \/ \E l \in DOMAIN cache : cache'[k] = cache[l]
                                   \/ cache'[k] = [url |-> url[t], pool |-> p]
      <3>1. DOMAIN cache' = 1..Len(cache') /\ DOMAIN cache = 1..Len(cache) /\ Len(cache) \in Nat /\ NumPools \in Nat
        BY <2>1, Cached, LenProperties, PoolConstants DEF Created
      <3>2. CASE /\ Len(cache') = Len(cache) + 1
                 /\ \A k \in 1..Len(cache) : cache'[k] = cache[k]
                 /\ cache'[Len(cache) + 1] = [url |-> url[t], pool |-> p]
        <4>1. ASSUME NEW k \in 1..(Len(cache) + 1)
              PROVE  k \in 1..Len(cache) \/ k = Len(cache) + 1
          BY <3>1
        <4> QED
          BY <3>1, <3>2, <4>1
      <3>3. CASE /\ Len(cache) = NumPools /\ Len(cache') = NumPools
                 /\ \A k \in 1..NumPools :
                       cache'[k] = IF k < NumPools THEN cache[k + 1] ELSE [url |-> url[t], pool |-> p]
        <4>1. ASSUME NEW k \in 1..NumPools
              PROVE  k < NumPools => k + 1 \in 1..NumPools
          BY <3>1
        <4> QED
          BY <3>1, <3>3, <4>1
      <3> QED
        BY <2>1, <3>2, <3>3 DEF Created
    <2>4. \A x \in Thread : pool'[x] = IF x = t THEN p ELSE pool[x]
      BY <1>0, <2>1 DEF Created
    <2>5. \A l \in DOMAIN cache : cache[l].pool # p
      BY <2>1, Cached DEF Created, Disposed
    <2>6. \A x \in Thread : pool[x] # p
      BY <2>1 DEF Created
    <2>7. ASSUME NEW x \in Thread, NEW k \in DOMAIN cache', cache'[k].pool = pool'[x]
          PROVE  cache'[k].url = url[x]
      <3>1. ASSUME NEW l \in DOMAIN cache, cache'[k] = cache[l]
            PROVE  cache'[k].url = url[x]
        BY <2>4, <2>5, <2>7, <3>1 DEF Keyed
      <3>2. CASE cache'[k] = [url |-> url[t], pool |-> p]
        BY <2>4, <2>6, <2>7, <3>2
      <3> QED
        BY <2>3, <3>1, <3>2
    <2> QED
      BY <2>2, <2>7 DEF Keyed
  <1>8. ASSUME NEW t \in Thread, GetConn(t)
        PROVE  Keyed'
    <2>1. cache' = cache /\ \A x \in Thread : pool'[x] = None \/ (pool'[x] = pool[x] /\ url'[x] = url[x])
      BY <1>0, <1>8 DEF GetConn, Holding, lockAndPools, Goto, Finish, Witnessed
    <2> QED
      BY <1>a, <2>1 DEF Keyed
  <1>9. ASSUME NEW t \in Thread, Connect(t)
        PROVE  Keyed'
    <2>1. cache' = cache /\ \A x \in Thread : pool'[x] = None \/ (pool'[x] = pool[x] /\ url'[x] = url[x])
      BY <1>0, <1>9 DEF Connect, Holding, lockAndPools, Goto, Finish, Witnessed
    <2> QED
      BY <1>a, <2>1 DEF Keyed
  <1>10. ASSUME NEW t \in Thread, Dispose(t)
        PROVE  Keyed'
    <2>1. cache' = cache /\ \A x \in Thread : pool'[x] = None \/ (pool'[x] = pool[x] /\ url'[x] = url[x])
      BY <1>0, <1>10 DEF Dispose, Holding, lockAndPools, Goto, Finish, Witnessed
    <2> QED
      BY <1>a, <2>1 DEF Keyed
  <1>11. ASSUME NEW t \in Thread, CloseClient(t)
        PROVE  Keyed'
    <2>1. cache' = cache /\ \A x \in Thread : pool'[x] = None \/ (pool'[x] = pool[x] /\ url'[x] = url[x])
      BY <1>0, <1>11 DEF CloseClient, Holding, lockAndPools, Goto, Finish, Witnessed
    <2> QED
      BY <1>a, <2>1 DEF Keyed
  <1>12. ASSUME NEW t \in Thread, Clear(t)
        PROVE  Keyed'
    <2>1. DOMAIN cache' = {}
      BY <1>12 DEF Clear
    <2> QED
      BY <2>1 DEF Keyed
  <1>13. CASE Drop
    <2>1. UNCHANGED <<cache, pool, url>>
      BY <1>13 DEF Drop, lockAndPools
    <2> QED
      BY <2>1 DEF Keyed
  <1> QED
    BY <1>1, <1>2, <1>3, <1>4, <1>5, <1>6, <1>7, <1>8, <1>9, <1>10, <1>11, <1>12, <1>13, Steps

(* What a thread saw go by grows by one URL at a time.                     *)
LEMMA FiniteKept ==
    ASSUME TypeOK, Finite, Next
    PROVE  Finite'
  <1>1. ASSUME NEW x \in Thread
        PROVE  \/ others'[x] = others[x] \/ others'[x] = {}
               \/ \E u : others'[x] = others[x] \union {u}
    <2>1. others \in [Thread -> SUBSET Url]
      BY DEF TypeOK
    <2>2. others' = others \/ (\E t \in Thread : others' = [others EXCEPT ![t] = {}]) \/ \E t \in Thread : Witnessed(t)
      BY Steps DEF Request, Hit, Miss, Reconnect, ReconnectFails, Connected, Create, GetConn, Connect,
                   Dispose,
                   CloseClient, Clear, Drop, Finish
    <2>3. CASE \E t \in Thread : Witnessed(t)
      BY <2>3 DEF Witnessed
    <2>4. CASE \E t \in Thread : others' = [others EXCEPT ![t] = {}]
      BY <2>1, <2>4
    <2> QED
      BY <2>2, <2>3, <2>4
  <1>2. ASSUME NEW x \in Thread
        PROVE  IsFiniteSet(others'[x])
    <2>1. IsFiniteSet(others[x])
      BY DEF Finite
    <2>2. ASSUME NEW u, others'[x] = others[x] \union {u}
          PROVE  IsFiniteSet(others'[x])
      <3>1. PICK o : o = others[x]
        OBVIOUS
      <3> QED
        BY <2>1, <2>2, <3>1, FS_AddElement
    <2> QED
      BY <1>1, <2>1, <2>2, FS_EmptySet
  <1> QED
    BY <1>2 DEF Finite

(* Steps that leave the container alone keep what requests find there.     *)
LEMMA RecentSame ==
    ASSUME Recent, cache' = cache,
           \A x \in Thread : pc'[x] = "conn" /\ ~cleared'[x] =>
               pc[x] = "conn" /\ ~cleared[x] /\ pool'[x] = pool[x] /\ others'[x] = others[x]
    PROVE  Recent'
  BY DEF Recent, After

(* Enough URLs stay enough.                                                *)
LEMMA EnoughStay ==
    ASSUME TypeOK, Finite, Finite', NEW x \in Thread, others[x] \subseteq others'[x], Cardinality(others[x]) >= NumPools
    PROVE  Cardinality(others'[x]) >= NumPools
  <1>1. PICK o, q : o = others[x] /\ q = others'[x]
    OBVIOUS
  <1>2. IsFiniteSet(o) /\ IsFiniteSet(q) /\ o \subseteq q
    BY <1>1 DEF Finite
  <1>3. Cardinality(o) <= Cardinality(q) /\ Cardinality(o) \in Nat /\ Cardinality(q) \in Nat
    BY <1>2, FS_Subset, FS_CardinalityType
  <1> QED
    BY <1>1, <1>3, PoolConstants

(* A hit moves an entry behind the others, which see its URL go by.        *)
LEMMA RecentHit ==
    ASSUME TypeOK, Holding, Distinct, Keyed, Recent, Finite, Finite', NEW t \in Thread, Hit(t)
    PROVE  Recent'
  <1>1. PICK i \in DOMAIN cache : /\ cache[i].url = url[t] /\ pool' = [pool EXCEPT ![t] = cache[i].pool]
                                  /\ cache' = Append(RemoveAt(cache, i), cache[i])
    BY DEF Hit
  <1>2. PICK n : n = Len(cache)
    OBVIOUS
  <1>3. n \in Nat /\ i \in 1..n /\ DOMAIN cache = 1..n
    BY <1>2, Cached
  <1>4. DOMAIN cache' = 1..n /\ \A k \in 1..n : cache'[k] = cache[From(k, i, n)]
    BY <1>1, <1>2, HitCache, LenProperties
  <1>5a. Rotates(i, n)
    BY <1>3, FromAll
  <1>5. /\ \A k \in 1..n : From(k, i, n) \in 1..n
        /\ \A l \in 1..n : \E k \in 1..n : From(k, i, n) = l
        /\ \A l \in 1..n : From(l, i, n) = i <=> l = n
        /\ \A k, l \in 1..n : l > k /\ From(k, i, n) # i =>
              From(l, i, n) = i \/ From(l, i, n) > From(k, i, n)
    BY <1>5a DEF Rotates
  <1>6. /\ pc \in [Thread -> {"idle", "lookup", "check", "create", "conn", "connect", "dispose"}]
        /\ pool \in [Thread -> Pool \union {None}] /\ pc[t] = "lookup"
        /\ pc' = [pc EXCEPT ![t] = "conn"] /\ cleared' = cleared /\ url' = url
        /\ \A x \in Thread : others'[x] = IF pc[x] = "conn" /\ url[x] # url[t]
                                          THEN others[x] \union {url[t]} ELSE others[x]
    BY DEF TypeOK, Hit, Goto, Witnessed
  <1>7. ASSUME NEW x \in Thread, x # t, pc[x] = "conn", ~cleared[x]
        PROVE  \/ \E k \in DOMAIN cache' : cache'[k].pool = pool'[x] /\ After(x, k)'
               \/ Cardinality(others'[x]) >= NumPools
    <2>1. pool'[x] = pool[x] /\ others[x] \subseteq others'[x]
      BY <1>1, <1>6, <1>7
    <2>2. CASE Cardinality(others[x]) >= NumPools
      BY <2>1, <2>2, EnoughStay
    <2>3. ASSUME NEW l \in DOMAIN cache, cache[l].pool = pool[x], After(x, l)
          PROVE  \E k \in DOMAIN cache' : cache'[k].pool = pool'[x] /\ After(x, k)'
      <3>1. PICK k \in 1..n : From(k, i, n) = l
        BY <1>3, <1>5
      <3>2. cache'[k].pool = pool'[x]
        BY <1>4, <2>1, <2>3, <3>1
      <3>3. ASSUME NEW j \in 1..n, j > k
            PROVE  cache'[j].url \in others'[x]
        <4>1. l # i
          BY <1>3, <1>5, <3>1, <3>3
        <4>2. url[x] # url[t]
          BY <1>1, <2>3, <4>1 DEF Distinct, Keyed
        <4>3. others'[x] = others[x] \union {url[t]}
          BY <1>6, <1>7, <4>2
        <4>4. CASE From(j, i, n) = i
          BY <1>1, <1>4, <4>3, <4>4
        <4>5. CASE From(j, i, n) > l
          <5>1. From(j, i, n) \in DOMAIN cache
            BY <1>3, <1>5
          <5>2. cache[From(j, i, n)].url \in others[x]
            BY <2>3, <4>5, <5>1 DEF After
          <5> QED
            BY <1>4, <4>3, <5>2
        <4> QED
          BY <1>5, <3>1, <3>3, <4>1, <4>4, <4>5
      <3>4. After(x, k)'
        BY <1>4, <3>3 DEF After
      <3> QED
        BY <1>4, <3>2, <3>4
    <2> QED
      BY <1>7, <2>2, <2>3 DEF Recent
  <1>8. \E k \in DOMAIN cache' : cache'[k].pool = pool'[t] /\ After(t, k)'
    <2>1. n \in 1..n /\ From(n, i, n) = i
      BY <1>3, <1>5
    <2>2. cache'[n].pool = pool'[t]
      BY <1>1, <1>4, <1>6, <2>1
    <2>3. \A j \in 1..n : ~(j > n)
      BY <1>3
    <2>4. After(t, n)'
      BY <1>4, <2>3 DEF After
    <2> QED
      BY <1>4, <2>1, <2>2, <2>4
  <1> QED
    BY <1>6, <1>7, <1>8 DEF Recent

(* A new pool evicts another one only from behind as many as there is room *)
(* for, whose URLs have all gone by.                                       *)
LEMMA RecentCreate ==
    ASSUME TypeOK, Holding, Locked, Distinct, Disposed, Keyed, Recent, Finite, Finite',
           NEW t \in Thread, Create(t)
    PROVE  Recent'
  <1>1. PICK p \in Pool : Created(t, p)
    BY CreateEffect
  <1>2. PICK n, N : n = Len(cache) /\ N = NumPools
    OBVIOUS
  <1>3. n \in Nat /\ N \in Nat /\ N > 0 /\ DOMAIN cache = 1..n /\ DOMAIN cache' = 1..Len(cache')
    BY <1>1, <1>2, Cached, PoolConstants, LenProperties DEF Created
  <1>4. PICK e : e = [url |-> url[t], pool |-> p]
    OBVIOUS
  <1>5. \/ /\ n < N /\ DOMAIN cache' = 1..(n + 1) /\ cache'[n + 1] = e
           /\ \A k \in 1..n : cache'[k] = cache[k]
        \/ /\ n = N /\ DOMAIN cache' = 1..N
           /\ \A k \in 1..N : cache'[k] = IF k < N THEN cache[k + 1] ELSE e
    BY <1>1, <1>2, <1>3, <1>4 DEF Created
  <1>6. /\ pc \in [Thread -> {"idle", "lookup", "check", "create", "conn", "connect", "dispose"}]
        /\ pool \in [Thread -> Pool \union {None}] /\ pc[t] = "create"
        /\ pc' = [pc EXCEPT ![t] = "conn"] /\ cleared' = cleared /\ url' = url
        /\ pool' = [pool EXCEPT ![t] = p]
        /\ \A x \in Thread : others'[x] = IF pc[x] = "conn" /\ url[x] # url[t]
                                          THEN others[x] \union {url[t]} ELSE others[x]
    BY <1>1 DEF TypeOK, Create, Goto, Witnessed, Created
  <1>7. ASSUME NEW x \in Thread, x # t, pc[x] = "conn", ~cleared[x]
        PROVE  \/ \E k \in DOMAIN cache' : cache'[k].pool = pool'[x] /\ After(x, k)'
               \/ Cardinality(others'[x]) >= NumPools
    <2>1. pool'[x] = pool[x] /\ others[x] \subseteq others'[x]
      BY <1>6, <1>7
    <2>2. CASE Cardinality(others[x]) >= NumPools
      BY <2>1, <2>2, EnoughStay
    <2>3. ASSUME NEW l \in DOMAIN cache, cache[l].pool = pool[x], After(x, l)
          PROVE  \/ \E k \in DOMAIN cache' : cache'[k].pool = pool'[x] /\ After(x, k)'
                 \/ Cardinality(others'[x]) >= NumPools
      <3>1. url[x] # url[t]
        <4>1. cache[l].url = url[x] /\ cache[l].url \in CachedUrls
          BY <2>3, Cached DEF Keyed
        <4> QED
          BY <1>6, <4>1 DEF Locked
      <3>2. others'[x] = others[x] \union {url[t]} /\ e.url \in others'[x]
        BY <1>4, <1>6, <1>7, <3>1
      <3>3. \A j \in 1..n : j > l => cache[j].url \in others'[x]
        BY <1>3, <2>3, <3>2 DEF After
      <3>4. CASE /\ n < N /\ DOMAIN cache' = 1..(n + 1) /\ cache'[n + 1] = e
                 /\ \A k \in 1..n : cache'[k] = cache[k]
        <4>1. l \in 1..n /\ l \in 1..(n + 1)
          BY <1>3
        <4>2. cache'[l].pool = pool'[x]
          BY <2>1, <2>3, <3>4, <4>1
        <4>3. ASSUME NEW j \in 1..(n + 1), j > l
              PROVE  cache'[j].url \in others'[x]
          <5>1. j \in 1..n \/ j = n + 1
            BY <1>3
          <5> QED
            BY <3>2, <3>3, <3>4, <4>3, <5>1
        <4>4. After(x, l)'
          BY <3>4, <4>3 DEF After
        <4> QED
          BY <3>4, <4>1, <4>2, <4>4
      <3>5. CASE /\ n = N /\ DOMAIN cache' = 1..N
                 /\ \A k \in 1..N : cache'[k] = IF k < N THEN cache[k + 1] ELSE e
        <4>0. l \in 1..N
          BY <1>3, <3>5
        <4>1. ASSUME NEW j \in 1..N, j + 1 > l
              PROVE  cache'[j].url \in others'[x]
          <5>1. CASE j < N
            <6>1. j + 1 \in 1..n
              BY <1>3, <3>5, <5>1
            <6> QED
              BY <3>3, <3>5, <4>1, <5>1, <6>1
          <5>2. CASE ~(j < N)
            BY <3>2, <3>5, <5>2
          <5> QED
            BY <5>1, <5>2
        <4>2. CASE l > 1
          <5>1. PICK k : k = l - 1
            OBVIOUS
          <5>2. k \in 1..N /\ k < N /\ k + 1 = l
            BY <1>3, <4>0, <4>2, <5>1
          <5>3. cache'[k].pool = pool'[x]
            BY <2>1, <2>3, <3>5, <5>2
          <5>4. \A j \in 1..N : j > k => j + 1 > l
            BY <5>2
          <5>5. After(x, k)'
            BY <3>5, <4>1, <5>4 DEF After
          <5> QED
            BY <3>5, <5>2, <5>3, <5>5
        <4>3. CASE l = 1
          <5>1. \A j \in 1..N : cache'[j].url \in others'[x]
            <6>1. \A j \in 1..N : j + 1 > l
              BY <4>3
            <6> QED
              BY <4>1, <6>1
          <5>2. \A j, k \in 1..N : cache'[j].url = cache'[k].url => j = k
            BY <1>1, <3>5 DEF Created, Distinct
          <5>3. PICK o, f : o = others'[x] /\ f = [j \in 1..N |-> cache'[j].url]
            OBVIOUS
          <5>4. f \in [1..N -> o] /\ \A j, k \in 1..N : f[j] = f[k] => j = k
            BY <5>1, <5>2, <5>3
          <5>5. Elements(f, N) \subseteq o /\ IsFiniteSet(o)
            BY <5>3, <5>4 DEF Finite, Elements
          <5>6. Cardinality(Elements(f, N)) = N
            BY <1>3, <5>4, CountDistinct
          <5>7. Cardinality(Elements(f, N)) <= Cardinality(o) /\ Cardinality(o) \in Nat
            BY <5>5, FS_Subset, FS_CardinalityType
          <5>8. Cardinality(o) >= N
            BY <1>3, <5>6, <5>7
          <5> QED
            BY <1>2, <5>3, <5>8
        <4> QED
          BY <4>0, <4>2, <4>3
      <3> QED
        BY <1>5, <3>4, <3>5
    <2> QED
      BY <1>7, <2>2, <2>3 DEF Recent
  <1>8. \E k \in DOMAIN cache' : cache'[k].pool = pool'[t] /\ After(t, k)'
    <2>1. PICK k \in DOMAIN cache' : cache'[k] = e /\ \A j \in DOMAIN cache' : ~(j > k)
      <3>1. CASE n < N /\ DOMAIN cache' = 1..(n + 1) /\ cache'[n + 1] = e
        <4>1. n + 1 \in 1..(n + 1) /\ \A j \in 1..(n + 1) : ~(j > n + 1)
          BY <1>3
        <4> QED
          BY <3>1, <4>1
      <3>2. CASE /\ n = N /\ DOMAIN cache' = 1..N
                 /\ \A k \in 1..N : cache'[k] = IF k < N THEN cache[k + 1] ELSE e
        <4>1. N \in 1..N /\ ~(N < N) /\ \A j \in 1..N : ~(j > N)
          BY <1>3
        <4> QED
          BY <3>2, <4>1
      <3> QED
        BY <1>5, <3>1, <3>2
    <2>2. cache'[k].pool = pool'[t]
      BY <1>4, <1>6, <2>1
    <2>3. After(t, k)'
      BY <2>1 DEF After
    <2> QED
      BY <2>2, <2>3
  <1> QED
    BY <1>6, <1>7, <1>8 DEF Recent

(* A request that has its pool finds it, unless it had to expect otherwise. *)
LEMMA RecentKept ==
    ASSUME TypeOK, Holding, Locked, Distinct, Disposed, Keyed, Recent, Finite, Finite', Next
    PROVE  Recent'
  <1>0. /\ pc \in [Thread -> {"idle", "lookup", "check", "create", "conn", "connect", "dispose"}]
        /\ url \in [Thread -> Url \union {None}] /\ pool \in [Thread -> Pool \union {None}]
        /\ others \in [Thread -> SUBSET Url] /\ cleared \in [Thread -> BOOLEAN]
    BY DEF TypeOK
  <1>1. ASSUME NEW t \in Thread, NEW u \in Url, Request(t, u)
        PROVE  Recent'
    <2>1. /\ cache' = cache
          /\ \A x \in Thread : pc'[x] = "conn" /\ ~cleared'[x] =>
                pc[x] = "conn" /\ ~cleared[x] /\ pool'[x] = pool[x] /\ others'[x] = others[x]
      BY <1>0, <1>1 DEF Request, lockAndPools, Goto, Finish
    <2> QED
      BY <2>1, RecentSame
  <1>2. ASSUME NEW t \in Thread, Hit(t)
        PROVE  Recent'
    BY <1>2, RecentHit
  <1>3. ASSUME NEW t \in Thread, Miss(t)
        PROVE  Recent'
    <2>1. /\ cache' = cache
          /\ \A x \in Thread : pc'[x] = "conn" /\ ~cleared'[x] =>
                pc[x] = "conn" /\ ~cleared[x] /\ pool'[x] = pool[x] /\ others'[x] = others[x]
      BY <1>0, <1>3 DEF Miss, lockAndPools, Goto, Finish
    <2> QED
      BY <2>1, RecentSame
  <1>4. ASSUME NEW t \in Thread, Reconnect(t)
        PROVE  Recent'
    <2>1. /\ cache' = cache
          /\ \A x \in Thread : pc'[x] = "conn" /\ ~cleared'[x] =>
                pc[x] = "conn" /\ ~cleared[x] /\ pool'[x] = pool[x] /\ others'[x] = others[x]
      BY <1>0, <1>4 DEF Reconnect, lockAndPools, Goto, Finish
    <2> QED
      BY <2>1, RecentSame
  <1>5. ASSUME NEW t \in Thread, ReconnectFails(t)
        PROVE  Recent'
    <2>1. /\ cache' = cache
          /\ \A x \in Thread : pc'[x] = "conn" /\ ~cleared'[x] =>
                pc[x] = "conn" /\ ~cleared[x] /\ pool'[x] = pool[x] /\ others'[x] = others[x]
      BY <1>0, <1>5 DEF ReconnectFails, lockAndPools, Goto, Finish
    <2> QED
      BY <2>1, RecentSame
  <1>6. ASSUME NEW t \in Thread, Connected(t)
        PROVE  Recent'
    <2>1. /\ cache' = cache
          /\ \A x \in Thread : pc'[x] = "conn" /\ ~cleared'[x] =>
                pc[x] = "conn" /\ ~cleared[x] /\ pool'[x] = pool[x] /\ others'[x] = others[x]
      BY <1>0, <1>6 DEF Connected, lockAndPools, Goto, Finish
    <2> QED
      BY <2>1, RecentSame
  <1>7. ASSUME NEW t \in Thread, Create(t)
        PROVE  Recent'
    BY <1>7, RecentCreate
  <1>8. ASSUME NEW t \in Thread, GetConn(t)
        PROVE  Recent'
    <2>1. /\ cache' = cache
          /\ \A x \in Thread : pc'[x] = "conn" /\ ~cleared'[x] =>
                pc[x] = "conn" /\ ~cleared[x] /\ pool'[x] = pool[x] /\ others'[x] = others[x]
      BY <1>0, <1>8 DEF GetConn, lockAndPools, Goto, Finish
    <2> QED
      BY <2>1, RecentSame
  <1>9. ASSUME NEW t \in Thread, Connect(t)
        PROVE  Recent'
    <2>1. /\ cache' = cache
          /\ \A x \in Thread : pc'[x] = "conn" /\ ~cleared'[x] =>
                pc[x] = "conn" /\ ~cleared[x] /\ pool'[x] = pool[x] /\ others'[x] = others[x]
      BY <1>0, <1>9 DEF Connect, lockAndPools, Goto, Finish
    <2> QED
      BY <2>1, RecentSame
  <1>10. ASSUME NEW t \in Thread, Dispose(t)
        PROVE  Recent'
    <2>1. /\ cache' = cache
          /\ \A x \in Thread : pc'[x] = "conn" /\ ~cleared'[x] =>
                pc[x] = "conn" /\ ~cleared[x] /\ pool'[x] = pool[x] /\ others'[x] = others[x]
      BY <1>0, <1>10 DEF Dispose, lockAndPools, Goto, Finish
    <2> QED
      BY <2>1, RecentSame
  <1>11. ASSUME NEW t \in Thread, CloseClient(t)
        PROVE  Recent'
    <2>1. /\ cache' = cache
          /\ \A x \in Thread : pc'[x] = "conn" /\ ~cleared'[x] =>
                pc[x] = "conn" /\ ~cleared[x] /\ pool'[x] = pool[x] /\ others'[x] = others[x]
      BY <1>0, <1>11 DEF CloseClient, lockAndPools, Goto, Finish
    <2> QED
      BY <2>1, RecentSame
  <1>12. ASSUME NEW t \in Thread, Clear(t)
        PROVE  Recent'
    <2>1. /\ pc' = [pc EXCEPT ![t] = "dispose"]
          /\ cleared' = [x \in Thread |-> cleared[x] \/ pc[x] = "conn"]
      BY <1>12 DEF Clear, Goto
    <2>2. \A x \in Thread : pc'[x] = "conn" => cleared'[x]
      BY <1>0, <2>1
    <2> QED
      BY <2>2 DEF Recent
  <1>13. CASE Drop
    <2>1. /\ cache' = cache
          /\ \A x \in Thread : pc'[x] = "conn" /\ ~cleared'[x] =>
                pc[x] = "conn" /\ ~cleared[x] /\ pool'[x] = pool[x] /\ others'[x] = others[x]
      BY <1>0, <1>13 DEF Drop, lockAndPools, Goto, Finish
    <2> QED
      BY <2>1, RecentSame
  <1> QED
    BY <1>1, <1>2, <1>3, <1>4, <1>5, <1>6, <1>7, <1>8, <1>9, <1>10, <1>11, <1>12, <1>13, Steps

(* The container has room for NumPools entries, one per URL and pool.      *)
LEMMA DistinctKept ==
    ASSUME TypeOK, Holding, Locked, Distinct, Disposed, Next
    PROVE  Distinct'
  <1>1. ASSUME NEW t \in Thread, NEW u \in Url, Request(t, u)
        PROVE  Distinct'
    <2>1. cache' = cache
      BY <1>1 DEF Request, lockAndPools
    <2> QED
      BY <2>1 DEF Distinct
  <1>2. ASSUME NEW t \in Thread, Hit(t)
        PROVE  Distinct'
    BY <1>2, HitCache DEF Hit
  <1>3. ASSUME NEW t \in Thread, Miss(t)
        PROVE  Distinct'
    <2>1. cache' = cache
      BY <1>3 DEF Miss, lockAndPools
    <2> QED
      BY <2>1 DEF Distinct
  <1>4. ASSUME NEW t \in Thread, Reconnect(t)
        PROVE  Distinct'
    <2>1. cache' = cache
      BY <1>4 DEF Reconnect, lockAndPools
    <2> QED
      BY <2>1 DEF Distinct
  <1>5. ASSUME NEW t \in Thread, ReconnectFails(t)
        PROVE  Distinct'
    <2>1. cache' = cache
      BY <1>5 DEF ReconnectFails, lockAndPools
    <2> QED
      BY <2>1 DEF Distinct
  <1>6. ASSUME NEW t \in Thread, Connected(t)
        PROVE  Distinct'
    <2>1. cache' = cache
      BY <1>6 DEF Connected, lockAndPools
    <2> QED
      BY <2>1 DEF Distinct
  <1>7. ASSUME NEW t \in Thread, Create(t)
        PROVE  Distinct'
    <2>1. PICK p \in Pool : Created(t, p)
      BY <1>7, CreateEffect
    <2> QED
      BY <2>1 DEF Created
  <1>8. ASSUME NEW t \in Thread, GetConn(t)
        PROVE  Distinct'
    <2>1. cache' = cache
      BY <1>8 DEF GetConn, lockAndPools
    <2> QED
      BY <2>1 DEF Distinct
  <1>9. ASSUME NEW t \in Thread, Connect(t)
        PROVE  Distinct'
    <2>1. cache' = cache
      BY <1>9 DEF Connect, lockAndPools
    <2> QED
      BY <2>1 DEF Distinct
  <1>10. ASSUME NEW t \in Thread, Dispose(t)
        PROVE  Distinct'
    <2>1. cache' = cache
      BY <1>10 DEF Dispose, lockAndPools
    <2> QED
      BY <2>1 DEF Distinct
  <1>11. ASSUME NEW t \in Thread, CloseClient(t)
        PROVE  Distinct'
    <2>1. cache' = cache
      BY <1>11 DEF CloseClient, lockAndPools
    <2> QED
      BY <2>1 DEF Distinct
  <1>12. ASSUME NEW t \in Thread, Clear(t)
        PROVE  Distinct'
    <2>1. cache' = <<>>
      BY <1>12 DEF Clear
    <2> QED
      BY <2>1, PoolConstants DEF Distinct
  <1>13. CASE Drop
    <2>1. cache' = cache
      BY <1>13 DEF Drop, lockAndPools
    <2> QED
      BY <2>1 DEF Distinct
  <1> QED
    BY <1>1, <1>2, <1>3, <1>4, <1>5, <1>6, <1>7, <1>8, <1>9, <1>10, <1>11, <1>12, <1>13, Steps

-----------------------------------------------------------------------------
(* Theorems                                                                *)

(* The invariant holds at the beginning.                                   *)
LEMMA AtFirst ==
    ASSUME Init
    PROVE  IInv
  <1>1. TypeOK
    BY PoolConstants DEF Init, TypeOK
  <1>2. Holding /\ Locked /\ Distinct /\ Keyed /\ Recent
    BY PoolConstants DEF Init, Holding, Locked, Distinct, Keyed, Recent
  <1>3. Disposed
    BY DEF Init, Disposed, CachedPools
  <1>4. Finite
    BY FS_EmptySet DEF Init, Finite
  <1> QED
    BY <1>1, <1>2, <1>3, <1>4 DEF IInv

(* ... and after every step.                                               *)
LEMMA AfterNext ==
    ASSUME IInv, [Next]_vars
    PROVE  IInv'
  <1>1. CASE Next
    BY <1>1, Typed, HoldingKept, LockedKept, DistinctKept, DisposedKept, KeyedKept, RecentKept, FiniteKept
       DEF IInv
  <1>2. CASE UNCHANGED vars
    <2>1. TypeOK' /\ Holding' /\ Distinct' /\ Keyed' /\ Finite'
      BY <1>2 DEF IInv, vars, lockAndPools, TypeOK, Holding, Distinct, Keyed, Finite
    <2>2. Locked' /\ Disposed'
      BY <1>2 DEF IInv, vars, lockAndPools, Locked, Disposed, CachedUrls, CachedPools
    <2>3. Recent'
      BY <1>2, RecentSame DEF IInv, vars, lockAndPools
    <2> QED
      BY <2>1, <2>2, <2>3 DEF IInv
  <1> QED
    BY <1>1, <1>2

(* The container, the lock, the pools and what the threads have of them    *)
(* stay as IInv has them, for any number of each.                          *)
THEOREM PoolInvariance == Spec => []IInv
  BY AtFirst, AfterNext, PTL DEF Spec

(* An open pool is cached, under one URL, or about to be disposed of, and  *)
(* threads with pools of one URL share it unless one was evicted.          *)
THEOREM PoolsAccountedForHolds == Spec => []PoolsAccountedFor
  <1>1. ASSUME IInv
        PROVE  PoolsAccountedFor
    <2>1. TypeOK /\ Distinct /\ Disposed /\ Keyed
      BY <1>1 DEF IInv
    <2>2. open = CachedPools \union UNION {trash[t] : t \in Thread}
      <3>1. \A p \in Pool : p \in open <=> p \in CachedPools \/ \E t \in Thread : p \in trash[t]
        BY <2>1 DEF Disposed
      <3>2. open \subseteq Pool /\ CachedPools \subseteq Pool /\ \A t \in Thread : trash[t] \subseteq Pool
        BY <2>1, Cached DEF TypeOK
      <3> QED
        BY <3>1, <3>2
    <2>3. PICK n, c : n = Len(cache) /\ c = cache
      OBVIOUS
    <2>4. /\ n \in Nat /\ DOMAIN cache = 1..n
          /\ \A i, j \in 1..n : c[i].url = c[j].url => i = j
          /\ \A i, j \in 1..n : c[i].pool = c[j].pool => i = j
      BY <2>1, <2>3, Cached DEF Distinct
    <2>5. Cardinality(CachedUrls) = n
      <3>1. PICK f, S : f = [i \in 1..n |-> c[i].url] /\ S = {c[i].url : i \in 1..n}
        OBVIOUS
      <3>2. f \in [1..n -> S] /\ \A i, j \in 1..n : f[i] = f[j] => i = j
        BY <2>4, <3>1
      <3>3. Cardinality(Elements(f, n)) = n
        BY <2>4, <3>2, CountDistinct
      <3>4. Elements(f, n) = CachedUrls
        BY <2>3, <2>4, <3>1 DEF CachedUrls, Elements
      <3> QED
        BY <3>3, <3>4
    <2>6. Cardinality(CachedPools) = n
      <3>1. PICK f, S : f = [i \in 1..n |-> c[i].pool] /\ S = {c[i].pool : i \in 1..n}
        OBVIOUS
      <3>2. f \in [1..n -> S] /\ \A i, j \in 1..n : f[i] = f[j] => i = j
        BY <2>4, <3>1
      <3>3. Cardinality(Elements(f, n)) = n
        BY <2>4, <3>2, CountDistinct
      <3>4. Elements(f, n) = CachedPools
        BY <2>3, <2>4, <3>1 DEF CachedPools, Elements
      <3> QED
        BY <3>3, <3>4
    <2>7. NoPoolForgotten
      BY <2>1, <2>2, <2>3, <2>5, <2>6 DEF NoPoolForgotten, Distinct
    <2>8. OnePoolPerUrl
      <3>1. ASSUME NEW t \in Thread, NEW x \in Thread, url[t] = url[x], pool[t] \in CachedPools, pool[x] \in CachedPools
            PROVE  pool[t] = pool[x]
        <4>1. PICK i \in DOMAIN cache : cache[i].pool = pool[t]
          BY <3>1 DEF CachedPools
        <4>2. PICK j \in DOMAIN cache : cache[j].pool = pool[x]
          BY <3>1 DEF CachedPools
        <4>3. cache[i].url = cache[j].url
          BY <2>1, <3>1, <4>1, <4>2 DEF Keyed
        <4> QED
          BY <2>1, <4>1, <4>2, <4>3 DEF Distinct
      <3> QED
        BY <3>1 DEF OnePoolPerUrl
    <2> QED
      BY <2>1, <2>7, <2>8 DEF PoolsAccountedFor
  <1> QED
    BY <1>1, PoolInvariance, PTL

(* A request finds its pool closed only if the adapter was closed, or as   *)
(* many other URLs as the container has room for went by.                  *)
THEOREM RefusedUnderPressureHolds == Spec => []RefusedUnderPressure
  <1>1. ASSUME IInv
        PROVE  RefusedUnderPressure
    <2>1. ASSUME NEW t \in Thread, NEW i \in DOMAIN cache, cache[i].pool = pool[t]
          PROVE  pool[t] \in open
      BY <1>1, <2>1, Cached DEF IInv, Disposed
    <2> QED
      BY <1>1, <2>1 DEF IInv, Recent, RefusedUnderPressure
  <1> QED
    BY <1>1, PoolInvariance, PTL
=============================================================================
