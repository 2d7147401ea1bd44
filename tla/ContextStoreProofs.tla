------------------------- MODULE ContextStoreProofs -------------------------
(***************************************************************************)
(* Programs that die anywhere, and others that work on other names, leave  *)
(* the shared files of contexts in order: proofs of the properties of      *)
(* ContextStore.                                                           *)
(***************************************************************************)
EXTENDS ContextStore, TLAPS

(* The inductive invariant, first what a program knows of its own call ... *)
CallOK(p) ==
    /\ pc[p] = "idle" <=> name[p] = None
    /\ pc[p] \in {"open", "write"} \union CertFile => op[p] = "create"
    /\ pc[p] \in {"get current", "unlink", "rmtree tls"} => op[p] = "remove"
    /\ pc[p] \in {"read", "truncate", "store"} => op[p] \in {"select", "remove"}
    /\ pc[p] # "idle" => \/ op[p] = "create" /\ name[p] \in Name /\ host[p] \in Host
                         \/ op[p] = "select" /\ name[p] \in Name \union {Default}
                         \/ op[p] = "remove" /\ name[p] \in Name
    /\ pc[p] \in CertFile => host[p] \in Tls
    /\ linked[p] => pc[p] = "write"

\* The certificates of n are those of the endpoint in its metadata.
Matched(n) == certs[n] = IF meta[n] \in Tls THEN CertFile \X {meta[n]} ELSE {}

(* ... then how the files of n stand while p alone works on it ...         *)
MetaOK(p, n) ==
    /\ pc[p] \in {"open", "rmtree tls"} => meta[n] = Absent
    /\ pc[p] = "write" => meta[n] = Torn /\ linked[p]
    /\ pc[p] \in CertFile => meta[n] = host[p]
    /\ op[p] = "select" /\ pc[p] \in {"read", "truncate", "store"} => meta[n] \in Host
    /\ pc[p] = "unlink" => current # n \/ Unwritable

CertsOK(p, n) ==
    /\ pc[p] # "write" => meta[n] # Torn
    /\ pc[p] \notin CertFile \union {"rmtree tls"} => Matched(n)
    /\ pc[p] = "ca" => certs[n] = {}
    /\ pc[p] = "cert" => certs[n] = {<<"ca", host[p]>>}
    /\ pc[p] = "key" => certs[n] = {<<"ca", host[p]>>, <<"cert", host[p]>>}

(* ... and what is true of a name that no two programs have worked on at   *)
(* once.                                                                   *)
Alone(n) == \A p, q \in Process : name[p] = n /\ name[q] = n => p = q

NameOK(n) ==
    n \notin contended =>
        /\ Alone(n)
        /\ current = n => meta[n] \in Host \/ Unwritable
        /\ \A p \in Process : name[p] = n => MetaOK(p, n)
        /\ n \notin interrupted =>
              /\ \A p \in Process : name[p] = n => CertsOK(p, n)
              /\ Idle(n) => Matched(n) /\ meta[n] # Torn

(* The inductive invariant.                                                *)
IInv == /\ TypeOK
        /\ \A p \in Process : CallOK(p)
        /\ \A n \in Name : NameOK(n)

-----------------------------------------------------------------------------
(* Without any file and with every program idle the invariant holds.       *)
LEMMA InitIInv == ASSUME Init PROVE IInv
  BY ContextConstants DEF Init, IInv, TypeOK, CallOK, NameOK, Alone, Matched, Idle, CertFile, Torn, Absent,
                          HalfWay

\* A step changes the call of its own program and the files of its own name.
OthersCalls(p) ==
    \A q \in Process \ {p} : /\ pc'[q] = pc[q] /\ op'[q] = op[q]
                             /\ name'[q] = name[q] /\ host'[q] = host[q]

OthersLinks(p) ==
    \A q \in Process \ {p} : /\ linked'[q] => linked[q]
                             /\ name[q] # name[p] => linked'[q] = linked[q]

OtherFiles(p) ==
    /\ \A n \in Name \ {name[p]} : /\ meta'[n] = meta[n] /\ certs'[n] = certs[n]
                                   /\ n \in interrupted' <=> n \in interrupted
    /\ current' \in {current, Torn, Default, name[p]}

(* What a step leaves alone: who works on another name does not notice it. *)
LEMMA Confined ==
    ASSUME TypeOK, NEW p \in Process, Step(p) \/ Interrupt(p)
    PROVE  OthersCalls(p) /\ OthersLinks(p) /\ OtherFiles(p) /\ contended' = contended
  <1>1. OthersCalls(p)
    <2>1. (\E l : Goto(p, l)) \/ Return(p)
      BY DEF Step, Interrupt, Load, OpenMeta, WriteMeta, CopyCert, GetCurrent, ReadConfig,
             Truncate, Store, AfterConfig, Unlink, RemoveCerts
    <2> QED
      BY <2>1 DEF Goto, Return, call, OthersCalls, TypeOK
  <1>2. OthersLinks(p)
    BY DEF OthersLinks, TypeOK, Step, Interrupt, Load, OpenMeta, WriteMeta, CopyCert, GetCurrent,
           ReadConfig, Truncate, Store, Unlink, RemoveCerts
  <1>3. contended' = contended
    BY DEF Step, Interrupt, Load, OpenMeta, WriteMeta, CopyCert, GetCurrent, ReadConfig,
           Truncate, Store, Unlink, RemoveCerts, history
  <1>4. OtherFiles(p)
    BY DEF OtherFiles, TypeOK, Step, Interrupt, Load, OpenMeta, WriteMeta, CopyCert, GetCurrent,
           ReadConfig, Truncate, Store, Target, Unlink, RemoveCerts, history, files
  <1> QED
    BY <1>1, <1>2, <1>3, <1>4

(* Where a program goes on, and how its call ends.                         *)
LEMMA Moved ==
    ASSUME TypeOK, NEW p \in Process, NEW l, Goto(p, l)
    PROVE  pc'[p] = l /\ op'[p] = op[p] /\ name'[p] = name[p] /\ host'[p] = host[p]
  BY DEF Goto, call, TypeOK

\* A call that returns leaves the program idle, with no arguments.
LEMMA Ended ==
    ASSUME TypeOK, NEW p \in Process, Return(p)
    PROVE  pc'[p] = "idle" /\ op'[p] = None /\ name'[p] = None /\ host'[p] = None
  BY DEF Return, TypeOK

(* A step keeps what its program knows of its call.                        *)
LEMMA OwnCall ==
    ASSUME TypeOK, NEW p \in Process, CallOK(p), Step(p) \/ Interrupt(p)
    PROVE  CallOK(p)'
  <1> USE DEF CallOK
  <1>1. CASE Return(p)
    <2>1. ~linked'[p]
      BY <1>1, Ended DEF TypeOK, Step, Interrupt, Load, OpenMeta, WriteMeta, CopyCert, GetCurrent,
             ReadConfig, Truncate, Store, Unlink, RemoveCerts, Goto, CertFile
    <2> QED
      BY <1>1, <2>1, Ended DEF CertFile
  <1>2. CASE Load(p) /\ ~Return(p)
    <2>1. \/ op[p] = "create" /\ Goto(p, "open")
          \/ op[p] = "select" /\ Goto(p, "read")
          \/ op[p] = "remove" /\ Goto(p, "get current")
      BY <1>2 DEF Load
    <2>2. linked'[p] = linked[p] /\ pc[p] = "load"
      BY <1>2 DEF Load
    <2>3. /\ op'[p] = op[p] /\ name'[p] = name[p] /\ host'[p] = host[p]
          /\ \/ op[p] = "create" /\ pc'[p] = "open"
             \/ op[p] = "select" /\ pc'[p] = "read"
             \/ op[p] = "remove" /\ pc'[p] = "get current"
      BY <2>1, Moved
    <2> QED
      BY <2>2, <2>3 DEF CertFile
  <1>3. CASE OpenMeta(p)
    <2>1. pc[p] = "open" /\ Goto(p, "write")
      BY <1>3 DEF OpenMeta
    <2>2. pc'[p] = "write" /\ op'[p] = op[p] /\ name'[p] = name[p] /\ host'[p] = host[p]
      BY <2>1, Moved
    <2> QED
      BY <2>1, <2>2 DEF CertFile
  <1>4. CASE WriteMeta(p) /\ ~Return(p)
    <2>1. pc[p] = "write" /\ Goto(p, "ca") /\ host[p] \in Tls /\ ~linked'[p]
      BY <1>4 DEF WriteMeta, TypeOK
    <2>2. pc'[p] = "ca" /\ op'[p] = op[p] /\ name'[p] = name[p] /\ host'[p] = host[p]
      BY <2>1, Moved
    <2> QED
      BY <2>1, <2>2 DEF CertFile
  <1>5. CASE CopyCert(p) /\ ~Return(p)
    <2>1. PICK l : Goto(p, l) /\ l \in {"cert", "key"}
      BY <1>5 DEF CopyCert
    <2>2. linked'[p] = linked[p] /\ pc[p] \in CertFile
      BY <1>5 DEF CopyCert
    <2> QED
      BY <2>1, <2>2, Moved DEF CertFile
  <1>6. CASE GetCurrent(p)
    <2>1. PICK l : Goto(p, l) /\ l \in {"read", "unlink"}
      BY <1>6 DEF GetCurrent
    <2>2. linked'[p] = linked[p] /\ pc[p] = "get current"
      BY <1>6 DEF GetCurrent
    <2> QED
      BY <2>1, <2>2, Moved DEF CertFile
  <1>7. CASE (ReadConfig(p) \/ Truncate(p) \/ Store(p)) /\ ~Return(p)
    <2>1. \/ Goto(p, "truncate") \/ Goto(p, "store")
          \/ Goto(p, "unlink") /\ op[p] = "remove"
      BY <1>7 DEF ReadConfig, Truncate, Store, AfterConfig
    <2>2. linked'[p] = linked[p] /\ pc[p] \in {"read", "truncate", "store"}
      BY <1>7 DEF ReadConfig, Truncate, Store
    <2>3. /\ op'[p] = op[p] /\ name'[p] = name[p] /\ host'[p] = host[p]
          /\ \/ pc'[p] \in {"truncate", "store"}
             \/ pc'[p] = "unlink" /\ op[p] = "remove"
      BY <2>1, Moved
    <2> QED
      BY <2>2, <2>3 DEF CertFile
  <1>8. CASE Unlink(p)
    <2>1. pc[p] = "unlink" /\ Goto(p, "rmtree tls") /\ ~linked'[p]
      BY <1>8 DEF Unlink, TypeOK
    <2>2. pc'[p] = "rmtree tls" /\ op'[p] = op[p] /\ name'[p] = name[p] /\ host'[p] = host[p]
      BY <2>1, Moved
    <2> QED
      BY <2>1, <2>2 DEF CertFile
  <1> QED
    BY <1>1, <1>2, <1>3, <1>4, <1>5, <1>6, <1>7, <1>8 DEF Step, RemoveCerts, Interrupt

(* Beginning a call.                                                       *)
LEMMA Begun ==
    ASSUME TypeOK, NEW p \in Process, Create(p) \/ Select(p) \/ Remove(p)
    PROVE  /\ OthersCalls(p)
           /\ UNCHANGED <<files, linked, interrupted>>
           /\ pc[p] = "idle" /\ pc'[p] = "load"
           /\ \/ op'[p] = "create" /\ name'[p] \in Name /\ host'[p] \in Host
              \/ op'[p] = "select" /\ name'[p] \in Name \union {Default} /\ host'[p] = None
              \/ op'[p] = "remove" /\ name'[p] \in Name /\ host'[p] = None
           /\ contended' = contended \union {n \in {name'[p]} : \E q \in Process : name[q] = n}
  <1>1. PICK o \in {"create", "select", "remove"}, n \in Name \union {Default},
             h \in Host \union {None} :
           /\ Begin(p, o, n, h)
           /\ o = "create" => n \in Name /\ h \in Host
           /\ o = "remove" => n \in Name
           /\ o # "create" => h = None
    BY DEF Create, Select, Remove
  <1> QED
    BY <1>1 DEF Begin, TypeOK, OthersCalls

(* Every step keeps what every program knows of its call.                  *)
LEMMA CallStep ==
    ASSUME TypeOK, \A p \in Process : CallOK(p), [Next]_vars, NEW q \in Process
    PROVE  CallOK(q)'
  <1>1. ASSUME NEW p \in Process, Create(p) \/ Select(p) \/ Remove(p)
        PROVE  CallOK(q)'
    <2>1. CASE q = p
      BY <1>1, <2>1, Begun, ContextConstants DEF CallOK, CertFile
    <2>2. CASE q # p
      BY <1>1, <2>2, Begun DEF CallOK, OthersCalls
    <2> QED
      BY <2>1, <2>2
  <1>2. ASSUME NEW p \in Process, Step(p) \/ Interrupt(p)
        PROVE  CallOK(q)'
    <2>1. CASE q = p
      BY <1>2, <2>1, OwnCall
    <2>2. CASE q # p
      <3>1. /\ pc'[q] = pc[q] /\ op'[q] = op[q] /\ name'[q] = name[q] /\ host'[q] = host[q]
            /\ linked'[q] => linked[q]
        BY <1>2, <2>2, Confined DEF OthersCalls, OthersLinks
      <3> QED
        BY <3>1 DEF CallOK
    <2> QED
      BY <2>1, <2>2
  <1>3. CASE Repair \/ UNCHANGED vars
    BY <1>3 DEF Repair, vars, call, CallOK
  <1> QED
    BY <1>1, <1>2, <1>3 DEF Next

\* Where a program may be.
Label == {"idle", "load", "open", "get current", "read", "truncate", "store", "unlink"}
             \union HalfWay

(* The call of a program keeps its type, wherever it goes on.              *)
LEMMA CallTypes ==
    ASSUME TypeOK, NEW p \in Process,
           Return(p) \/ \E l \in Label : Goto(p, l)
    PROVE  /\ pc' \in [Process -> Label]
           /\ op' \in [Process -> {"create", "select", "remove", None}]
           /\ name' \in [Process -> Name \union {Default, None}]
           /\ host' \in [Process -> Host \union {None}]
  BY DEF TypeOK, Return, Goto, call, Label

(* Every variable keeps its type.                                          *)
LEMMA TypeStep ==
    ASSUME TypeOK, \A p \in Process : CallOK(p), [Next]_vars
    PROVE  TypeOK'
  <1>1. ASSUME NEW p \in Process, Create(p) \/ Select(p) \/ Remove(p)
        PROVE  TypeOK'
    <2>1. /\ pc' \in [Process -> Label]
          /\ op' \in [Process -> {"create", "select", "remove", None}]
          /\ name' \in [Process -> Name \union {Default, None}]
          /\ host' \in [Process -> Host \union {None}]
          /\ contended' \subseteq Name \union {Default}
      <3>1. PICK o \in {"create", "select", "remove"}, n \in Name \union {Default},
                 h \in Host \union {None} : Begin(p, o, n, h)
        BY <1>1 DEF Create, Select, Remove
      <3>2. contended' \subseteq contended \union {n}
        BY <3>1 DEF Begin
      <3>3. pc' = [pc EXCEPT ![p] = "load"] /\ op' = [op EXCEPT ![p] = o]
            /\ name' = [name EXCEPT ![p] = n] /\ host' = [host EXCEPT ![p] = h]
        BY <3>1 DEF Begin
      <3> QED
        BY <3>2, <3>3 DEF TypeOK, Label
    <2>2. UNCHANGED <<files, linked, interrupted>>
      BY <1>1, Begun
    <2> QED
      BY <2>1, <2>2 DEF TypeOK, files, Label
  <1>2. ASSUME NEW p \in Process, Step(p) \/ Interrupt(p)
        PROVE  TypeOK'
    <2>1. Return(p) \/ \E l \in Label : Goto(p, l)
      BY <1>2 DEF Step, Interrupt, Load, OpenMeta, WriteMeta, CopyCert, GetCurrent, ReadConfig,
             Truncate, Store, AfterConfig, Unlink, RemoveCerts, Label, HalfWay, CertFile
    <2>2. contended' \subseteq Name \union {Default}
      BY <1>2, Confined DEF TypeOK
    <2>3. interrupted' \subseteq Name
      <3>1. CASE Interrupt(p)
        <4>1. pc[p] \in HalfWay => name[p] \in Name
          <5>1. CallOK(p)
            OBVIOUS
          <5> QED
            BY <5>1 DEF CallOK, HalfWay, CertFile
        <4> QED
          BY <3>1, <4>1 DEF Interrupt, TypeOK
      <3> QED
        BY <1>2, <3>1 DEF Step, Load, OpenMeta, WriteMeta, CopyCert, GetCurrent, ReadConfig,
               Truncate, Store, Unlink, RemoveCerts, TypeOK, history
    <2>4. linked' \in [Process -> BOOLEAN]
      BY <1>2 DEF Step, Interrupt, Load, OpenMeta, WriteMeta, CopyCert, GetCurrent, ReadConfig,
             Truncate, Store, Unlink, RemoveCerts, TypeOK
    <2>5. current' \in Name \union {Default, Torn}
      <3>1. pc[p] # "idle"
        BY <1>2 DEF Step, Interrupt, Load, OpenMeta, WriteMeta, CopyCert, GetCurrent, ReadConfig,
               Truncate, Store, Unlink, RemoveCerts, CertFile
      <3>2. name[p] \in Name \union {Default}
        BY <3>1 DEF CallOK
      <3> QED
        BY <1>2, <3>2, Confined DEF OtherFiles, TypeOK
    <2>6. meta' \in [Name -> Host \union {Absent, Torn}]
      BY <1>2 DEF Step, Interrupt, Load, OpenMeta, WriteMeta, CopyCert, GetCurrent, ReadConfig,
             Truncate, Store, Unlink, RemoveCerts, TypeOK, files, CallOK
    <2>7. certs' \in [Name -> SUBSET (CertFile \X Host)]
      <3>1. CASE CopyCert(p)
        <4>1. host[p] \in Host /\ pc[p] \in CertFile
          BY <3>1, ContextConstants DEF CopyCert, CallOK
        <4>2. <<pc[p], host[p]>> \in CertFile \X Host
          BY <4>1
        <4> QED
          BY <3>1, <4>2 DEF CopyCert, TypeOK
      <3>2. CASE RemoveCerts(p)
        BY <3>2 DEF RemoveCerts, TypeOK
      <3>3. CASE Interrupt(p)
        <4>1. CASE pc[p] = "rmtree tls"
          <5>1. name[p] \in Name
            BY <4>1 DEF CallOK
          <5>2. PICK rest \in SUBSET certs[name[p]] : certs' = [certs EXCEPT ![name[p]] = rest]
            BY <3>3, <4>1 DEF Interrupt
          <5> QED
            BY <5>1, <5>2 DEF TypeOK
        <4> QED
          BY <3>3, <4>1 DEF Interrupt, TypeOK
      <3> QED
        BY <1>2, <3>1, <3>2, <3>3 DEF Step, Load, OpenMeta, WriteMeta, GetCurrent,
           ReadConfig, Truncate, Store, Unlink, TypeOK, files
    <2> QED
      BY <2>1, <2>2, <2>3, <2>4, <2>5, <2>6, <2>7, CallTypes DEF TypeOK, Label
  <1>3. CASE Repair \/ UNCHANGED vars
    BY <1>3 DEF Repair, vars, call, files, history, TypeOK
  <1> QED
    BY <1>1, <1>2, <1>3 DEF Next

(* A step is taken by a program with a name, and at most ends its call.    *)
LEMMA NameKept ==
    ASSUME TypeOK, \A p \in Process : CallOK(p), NEW p \in Process, Step(p) \/ Interrupt(p)
    PROVE  pc[p] # "idle" /\ name[p] # None /\ name'[p] \in {name[p], None}
  <1>1. pc[p] # "idle"
    BY DEF Step, Interrupt, Load, OpenMeta, WriteMeta, CopyCert, GetCurrent, ReadConfig,
           Truncate, Store, Unlink, RemoveCerts, CertFile
  <1>2. Return(p) \/ \E l : Goto(p, l)
    BY DEF Step, Interrupt, Load, OpenMeta, WriteMeta, CopyCert, GetCurrent, ReadConfig,
           Truncate, Store, AfterConfig, Unlink, RemoveCerts
  <1> QED
    BY <1>1, <1>2, Moved, Ended DEF CallOK

(* The files of a name stay in order while a program works on another one. *)
LEMMA Elsewhere ==
    ASSUME TypeOK, \A p \in Process : CallOK(p), NEW p \in Process, Step(p) \/ Interrupt(p),
           NEW n \in Name, name[p] # n, NameOK(n)
    PROVE  NameOK(n)'
  <1>1. OthersCalls(p) /\ OthersLinks(p) /\ OtherFiles(p) /\ contended' = contended
    BY Confined
  <1>2. name'[p] # n
    BY NameKept, ContextConstants
  <1>3. /\ meta'[n] = meta[n] /\ certs'[n] = certs[n]
        /\ n \in interrupted' <=> n \in interrupted
        /\ current' = n => current = n
    BY <1>1, ContextConstants DEF OtherFiles, Torn, Default
  <1>4. ASSUME NEW q \in Process, name'[q] = n
        PROVE  /\ name[q] = n /\ pc'[q] = pc[q] /\ op'[q] = op[q]
               /\ host'[q] = host[q] /\ linked'[q] = linked[q]
    BY <1>1, <1>2, <1>4 DEF OthersCalls, OthersLinks
  <1>5. \A q \in Process : name[q] = n => name'[q] = n
    BY <1>1 DEF OthersCalls
  <1>6. n \notin contended => Alone(n)'
    BY <1>4 DEF NameOK, Alone
  <1>7. ASSUME NEW q \in Process, name'[q] = n, MetaOK(q, n) PROVE MetaOK(q, n)'
    BY <1>3, <1>4, <1>7 DEF MetaOK
  <1>8. ASSUME NEW q \in Process, name'[q] = n, CertsOK(q, n) PROVE CertsOK(q, n)'
    BY <1>3, <1>4, <1>8 DEF CertsOK, Matched
  <1>9. Idle(n)' => Idle(n)
    BY <1>5 DEF Idle
  <1>10. Matched(n) => Matched(n)'
    BY <1>3 DEF Matched
  <1> QED
    BY <1>1, <1>3, <1>4, <1>6, <1>7, <1>8, <1>9, <1>10 DEF NameOK

(* For the name it works on alone, what a step has to show is about its    *)
(* own program, the selection and, at the end of its call, the certificates. *)
LEMMA OnlyOne ==
    ASSUME TypeOK, \A p \in Process : CallOK(p), NEW p \in Process, Step(p) \/ Interrupt(p),
           NEW n \in Name, name[p] = n, n \notin contended, NameOK(n),
           current' = n => meta'[n] \in Host \/ Unwritable,
           name'[p] = n => MetaOK(p, n)',
           n \notin interrupted' => (name'[p] = n => CertsOK(p, n)'),
           n \notin interrupted' /\ name'[p] = None => Matched(n)' /\ meta'[n] # Torn
    PROVE  NameOK(n)'
  <1>1. OthersCalls(p) /\ contended' = contended
    BY Confined
  <1>2. ASSUME NEW q \in Process, name'[q] = n PROVE q = p
    BY <1>1, <1>2 DEF OthersCalls, NameOK, Alone
  <1>3. Alone(n)'
    BY <1>2 DEF Alone
  <1>4. Idle(n)' => name'[p] = None
    BY NameKept DEF Idle
  <1> QED
    BY <1>1, <1>2, <1>3, <1>4 DEF NameOK

(* What a program knows of the name it works on, if it is alone with it.   *)
LEMMA Known ==
    ASSUME IInv, NEW p \in Process, NEW n \in Name, name[p] = n, n \notin contended
    PROVE  /\ CallOK(p) /\ MetaOK(p, n)
           /\ n \notin interrupted => CertsOK(p, n)
           /\ current = n => meta[n] \in Host \/ Unwritable
  BY DEF IInv, NameOK

(* Each step leaves the name it works on in order.                         *)
LEMMA Here ==
    ASSUME IInv, NEW p \in Process, Step(p) \/ Interrupt(p),
           NEW n \in Name, name[p] = n, n \notin contended
    PROVE  NameOK(n)'
  <1>0. /\ CallOK(p) /\ MetaOK(p, n)
        /\ n \notin interrupted => CertsOK(p, n)
        /\ current = n => meta[n] \in Host \/ Unwritable
    BY Known
  <1>1. CASE Load(p)
    <2>1. pc[p] = "load" /\ UNCHANGED <<files, linked, history>>
      BY <1>1 DEF Load
    <2>2. \/ op[p] = "create" /\ Goto(p, "open") /\ meta[n] = Absent
          \/ op[p] = "select" /\ Goto(p, "read") /\ meta[n] \in Host
          \/ op[p] = "remove" /\ Goto(p, "get current")
          \/ Return(p)
      <3>1. n # Default
        BY ContextConstants
      <3>2. \/ op[p] = "create" /\ meta[n] = Absent /\ Goto(p, "open")
            \/ op[p] = "select" /\ meta[n] \in Host \union {Default} /\ Goto(p, "read")
            \/ op[p] = "remove" /\ Goto(p, "get current")
            \/ Return(p)
        BY <1>1, <3>1 DEF Load
      <3>3. meta[n] # Default \/ Default \in Host
        BY DEF IInv, TypeOK, Default, Torn, Absent
      <3> QED
        BY <3>2, <3>3
    <2>3. \/ /\ name'[p] = n /\ op'[p] = op[p] /\ host'[p] = host[p]
             /\ \/ op[p] = "create" /\ pc'[p] = "open" /\ meta[n] = Absent
                \/ op[p] = "select" /\ pc'[p] = "read" /\ meta[n] \in Host
                \/ op[p] = "remove" /\ pc'[p] = "get current"
          \/ name'[p] = None
      BY <2>2, Moved, Ended DEF IInv
    <2>4. UNCHANGED <<meta, certs, current, linked, interrupted>>
      BY <2>1 DEF files, history
    <2>5. name'[p] = n => MetaOK(p, n)'
      BY <2>3, <2>4, ContextConstants DEF MetaOK, CertFile
    <2>6. n \notin interrupted' => Matched(n)' /\ meta'[n] # Torn
      BY <1>0, <2>1, <2>4 DEF CertsOK, CertFile, Matched
    <2>7. n \notin interrupted' => (name'[p] = n => CertsOK(p, n)')
      BY <2>3, <2>6, ContextConstants DEF CertsOK, CertFile
    <2> QED
      BY <1>0, <2>4, <2>5, <2>6, <2>7, OnlyOne DEF IInv
  <1>2. CASE OpenMeta(p)
    <2>1. /\ pc[p] = "open" /\ meta'[n] = Torn /\ linked'[p] /\ Goto(p, "write")
          /\ UNCHANGED <<certs, current, interrupted>>
      BY <1>2 DEF OpenMeta, IInv, TypeOK, history
    <2>2. pc'[p] = "write" /\ op'[p] = op[p] /\ name'[p] = n /\ host'[p] = host[p]
      BY <2>1, Moved DEF IInv
    <2>3. current' = n => Unwritable
      BY <1>0, <2>1, ContextConstants DEF MetaOK
    <2>4. MetaOK(p, n)'
      BY <2>1, <2>2 DEF MetaOK, CertFile
    <2>5. n \notin interrupted' => CertsOK(p, n)'
      BY <1>0, <2>1, <2>2, ContextConstants DEF MetaOK, CertsOK, Matched, CertFile
    <2> QED
      BY <2>2, <2>3, <2>4, <2>5, OnlyOne, ContextConstants DEF IInv
  <1>3. CASE WriteMeta(p)
    <2>1. pc[p] = "write" /\ meta[n] = Torn /\ linked[p] /\ host[p] \in Host
      BY <1>0, <1>3 DEF WriteMeta, MetaOK, CallOK
    <2>2. meta'[n] = host[p] /\ UNCHANGED <<certs, current, interrupted>>
      BY <1>3, <2>1 DEF WriteMeta, IInv, TypeOK, history
    <2>3. IF host[p] \in Tls THEN Goto(p, "ca") ELSE Return(p)
      BY <1>3 DEF WriteMeta
    <2>4. \/ host[p] \in Tls /\ pc'[p] = "ca" /\ op'[p] = op[p] /\ name'[p] = n /\ host'[p] = host[p]
          \/ host[p] \notin Tls /\ name'[p] = None
      BY <2>3, Moved, Ended DEF IInv
    <2>5. n \notin interrupted => certs[n] = {}
      BY <1>0, <2>1, ContextConstants DEF CertsOK, Matched, CertFile
    <2>6. name'[p] = n => MetaOK(p, n)'
      BY <2>1, <2>2, <2>4, ContextConstants DEF MetaOK, CertFile
    <2>7. n \notin interrupted' => (name'[p] = n => CertsOK(p, n)')
      BY <2>1, <2>2, <2>4, <2>5, ContextConstants DEF CertsOK, CertFile
    <2>8. n \notin interrupted' /\ name'[p] = None => Matched(n)' /\ meta'[n] # Torn
      BY <2>1, <2>2, <2>4, <2>5, ContextConstants DEF Matched
    <2> QED
      BY <2>1, <2>2, <2>6, <2>7, <2>8, OnlyOne DEF IInv
  <1>4. CASE CopyCert(p)
    <2>1. /\ pc[p] \in CertFile /\ meta[n] = host[p] /\ host[p] \in Tls /\ host[p] \in Host
      BY <1>0, <1>4, ContextConstants DEF CopyCert, MetaOK, CallOK
    <2>2. /\ certs'[n] = {c \in certs[n] : c[1] # pc[p]} \union {<<pc[p], host[p]>>}
          /\ UNCHANGED <<meta, current, linked, interrupted>>
      BY <1>4 DEF CopyCert, IInv, TypeOK, history
    <2>3. \/ pc[p] = "ca" /\ Goto(p, "cert")
          \/ pc[p] = "cert" /\ Goto(p, "key")
          \/ pc[p] = "key" /\ Return(p)
      BY <1>4 DEF CopyCert
    <2>4. \/ /\ op'[p] = op[p] /\ name'[p] = n /\ host'[p] = host[p]
             /\ (pc[p] = "ca" /\ pc'[p] = "cert") \/ (pc[p] = "cert" /\ pc'[p] = "key")
          \/ pc[p] = "key" /\ name'[p] = None
      BY <2>3, Moved, Ended DEF IInv
    <2>5. name'[p] = n => MetaOK(p, n)'
      BY <2>1, <2>2, <2>4, ContextConstants DEF MetaOK, CertFile
    <2>6. n \notin interrupted => /\ pc[p] = "ca" => certs'[n] = {<<"ca", host[p]>>}
                                  /\ pc[p] = "cert" => certs'[n] = {<<"ca", host[p]>>, <<"cert", host[p]>>}
                                  /\ pc[p] = "key" => certs'[n] = CertFile \X {host[p]}
      <3> DEFINE h == host[p]
      <3>1. ASSUME n \notin interrupted, pc[p] = "ca"
            PROVE  certs'[n] = {<<"ca", h>>}
        BY <1>0, <2>2, <3>1 DEF CertsOK
      <3>2. ASSUME n \notin interrupted, pc[p] = "cert"
            PROVE  certs'[n] = {<<"ca", h>>, <<"cert", h>>}
        BY <1>0, <2>2, <3>2 DEF CertsOK
      <3>3. ASSUME n \notin interrupted, pc[p] = "key"
            PROVE  certs'[n] = CertFile \X {h}
        <4>1. certs'[n] = {<<"ca", h>>, <<"cert", h>>, <<"key", h>>}
          BY <1>0, <2>2, <3>3 DEF CertsOK
        <4> QED
          BY <4>1 DEF CertFile
      <3> QED
        BY <3>1, <3>2, <3>3
    <2>7. n \notin interrupted' => (name'[p] = n => CertsOK(p, n)')
      BY <2>1, <2>2, <2>4, <2>6, ContextConstants DEF CertsOK, CertFile
    <2>8. n \notin interrupted' /\ name'[p] = None => Matched(n)' /\ meta'[n] # Torn
      BY <2>1, <2>2, <2>4, <2>6, ContextConstants DEF Matched
    <2> QED
      BY <1>0, <2>2, <2>5, <2>7, <2>8, OnlyOne DEF IInv
  <1>5. CASE GetCurrent(p)
    <2>1. /\ pc[p] = "get current"
          /\ Goto(p, "read") \/ (Goto(p, "unlink") /\ current # n)
          /\ UNCHANGED <<files, linked, interrupted>>
      BY <1>5 DEF GetCurrent, history
    <2>2. /\ pc'[p] = "read" \/ (pc'[p] = "unlink" /\ current # n)
          /\ op'[p] = op[p] /\ name'[p] = n /\ host'[p] = host[p] /\ op[p] = "remove"
      BY <1>0, <2>1, Moved DEF IInv, CallOK
    <2>3. UNCHANGED <<meta, certs, current, linked, interrupted>>
      BY <2>1 DEF files
    <2>4. MetaOK(p, n)'
      BY <2>2, <2>3 DEF MetaOK, CertFile
    <2>5. n \notin interrupted' => CertsOK(p, n)'
      BY <1>0, <2>1, <2>2, <2>3 DEF CertsOK, CertFile, Matched
    <2> QED
      BY <1>0, <2>2, <2>3, <2>4, <2>5, OnlyOne, ContextConstants DEF IInv
  <1>6. CASE ReadConfig(p) \/ Truncate(p) \/ Store(p)
    <2>1. /\ pc[p] \in {"read", "truncate", "store"} /\ op[p] \in {"select", "remove"}
          /\ UNCHANGED <<meta, certs, linked, interrupted>>
      BY <1>0, <1>6 DEF ReadConfig, Truncate, Store, CallOK, files, history
    <2>2. current' = n => \/ current = n /\ (op[p] = "remove" => Unwritable \/ Goto(p, "truncate"))
                          \/ op[p] = "select" /\ meta[n] \in Host
      <3>1. CASE ReadConfig(p)
        BY <2>1, <3>1, ContextConstants DEF ReadConfig, Target, files
      <3>2. CASE Truncate(p)
        BY <3>2, ContextConstants DEF Truncate
      <3>3. CASE Store(p)
        BY <1>0, <2>1, <3>3, ContextConstants DEF Store, Target, MetaOK
      <3> QED
        BY <1>6, <3>1, <3>2, <3>3
    <2>3. \/ Goto(p, "truncate") \/ Goto(p, "store")
          \/ op[p] = "remove" /\ Goto(p, "unlink")
          \/ Return(p)
      BY <1>6 DEF ReadConfig, Truncate, Store, AfterConfig
    <2>4. \/ /\ op'[p] = op[p] /\ name'[p] = n /\ host'[p] = host[p]
             /\ \/ pc'[p] \in {"truncate", "store"}
                \/ pc'[p] = "unlink" /\ op[p] = "remove"
          \/ name'[p] = None
      BY <2>3, Moved, Ended DEF IInv
    <2>5. pc'[p] = "unlink" /\ name'[p] = n => current' # n \/ Unwritable
      <3>1. Goto(p, "truncate") => pc'[p] = "truncate"
        BY Moved DEF IInv
      <3> QED
        BY <2>2, <2>4, <3>1, ContextConstants
    <2>6. current' = n => meta'[n] \in Host \/ Unwritable
      BY <1>0, <2>1, <2>2
    <2>7. name'[p] = n => MetaOK(p, n)'
      BY <1>0, <2>1, <2>4, <2>5, ContextConstants DEF MetaOK, CertFile
    <2>8. n \notin interrupted' => Matched(n)' /\ meta'[n] # Torn
      BY <1>0, <2>1 DEF CertsOK, CertFile, Matched
    <2>9. n \notin interrupted' => (name'[p] = n => CertsOK(p, n)')
      BY <2>4, <2>8, ContextConstants DEF CertsOK, CertFile, Matched
    <2> QED
      BY <2>6, <2>7, <2>8, <2>9, OnlyOne DEF IInv
  <1>7. CASE Unlink(p)
    <2>1. /\ pc[p] = "unlink" /\ Goto(p, "rmtree tls") /\ meta'[n] = Absent
          /\ UNCHANGED <<certs, current, interrupted>>
      BY <1>7 DEF Unlink, IInv, TypeOK, history
    <2>2. pc'[p] = "rmtree tls" /\ op'[p] = op[p] /\ name'[p] = n /\ op[p] = "remove"
      BY <1>0, <2>1, Moved DEF IInv, CallOK
    <2>3. current' = n => Unwritable
      BY <1>0, <2>1 DEF MetaOK
    <2>4. MetaOK(p, n)'
      BY <2>1, <2>2 DEF MetaOK, CertFile
    <2>5. CertsOK(p, n)'
      BY <2>1, <2>2, ContextConstants DEF CertsOK, CertFile, Torn, Absent
    <2> QED
      BY <2>2, <2>3, <2>4, <2>5, OnlyOne, ContextConstants DEF IInv
  <1>8. CASE RemoveCerts(p)
    <2>1. /\ pc[p] = "rmtree tls" /\ Return(p) /\ certs'[n] = {}
          /\ UNCHANGED <<meta, current>>
      BY <1>8 DEF RemoveCerts, IInv, TypeOK
    <2>2. name'[p] = None /\ meta[n] = Absent
      BY <1>0, <2>1, Ended DEF IInv, MetaOK
    <2>3. Matched(n)' /\ meta'[n] # Torn
      BY <2>1, <2>2, ContextConstants DEF Matched, Torn, Absent
    <2> QED
      BY <1>0, <2>1, <2>2, <2>3, OnlyOne, ContextConstants DEF IInv
  <1>9. CASE Interrupt(p)
    <2>1. Return(p) /\ UNCHANGED <<meta, current>>
      BY <1>9 DEF Interrupt
    <2>2. name'[p] = None
      BY <2>1, Ended DEF IInv
    <2>3. ASSUME n \notin interrupted' PROVE Matched(n)' /\ meta'[n] # Torn
      <3>1. n \notin interrupted /\ pc[p] \notin HalfWay
        BY <1>9, <2>3 DEF Interrupt
      <3>2. UNCHANGED certs
        BY <1>9, <3>1 DEF Interrupt, HalfWay
      <3> QED
        BY <1>0, <2>1, <3>1, <3>2 DEF CertsOK, Matched, HalfWay, CertFile
    <2> QED
      BY <1>0, <2>1, <2>2, <2>3, OnlyOne, ContextConstants DEF IInv
  <1> QED
    BY <1>1, <1>2, <1>3, <1>4, <1>5, <1>6, <1>7, <1>8, <1>9 DEF Step

(* Beginning a call on a name in use makes it contended.                   *)
LEMMA NameBegun ==
    ASSUME IInv, NEW p \in Process, Create(p) \/ Select(p) \/ Remove(p),
           NEW n \in Name, n \notin contended'
    PROVE  NameOK(n)'
  <1>1. /\ OthersCalls(p)
        /\ UNCHANGED <<meta, certs, current, linked, interrupted>>
        /\ pc[p] = "idle" /\ pc'[p] = "load"
        /\ name'[p] = n => \A q \in Process : name[q] # n
        /\ n \notin contended
    BY Begun DEF files, IInv
  <1>2. Alone(n)'
    BY <1>1 DEF IInv, NameOK, Alone, OthersCalls
  <1>3. name[p] = None
    BY <1>1 DEF IInv, CallOK
  <1>4. ASSUME NEW q \in Process, name'[q] = n, q # p
        PROVE  MetaOK(q, n)' /\ (n \notin interrupted' => CertsOK(q, n)')
    <2>1. /\ MetaOK(q, n) /\ (n \notin interrupted => CertsOK(q, n))
          /\ pc'[q] = pc[q] /\ op'[q] = op[q] /\ host'[q] = host[q]
      BY <1>1, <1>4 DEF OthersCalls, IInv, NameOK
    <2> QED
      BY <1>1, <2>1 DEF MetaOK, CertsOK, Matched
  <1>5. ASSUME name'[p] = n
        PROVE  MetaOK(p, n)' /\ (n \notin interrupted' => CertsOK(p, n)')
    <2>1. n \notin interrupted => Matched(n) /\ meta[n] # Torn
      BY <1>1, <1>5 DEF IInv, NameOK, Idle
    <2> QED
      BY <1>1, <2>1 DEF MetaOK, CertsOK, CertFile, Matched
  <1>6. Idle(n)' => Idle(n)
    BY <1>1, <1>3, ContextConstants DEF Idle, OthersCalls
  <1> QED
    BY <1>1, <1>2, <1>4, <1>5, <1>6 DEF IInv, NameOK, Matched

(* Every step of every program preserves the invariant.                    *)
LEMMA NextIInv == ASSUME IInv, [Next]_vars PROVE IInv'
  <1>1. TypeOK' /\ \A p \in Process : CallOK(p)'
    BY TypeStep, CallStep DEF IInv
  <1>2. ASSUME NEW n \in Name PROVE NameOK(n)'
    <2>1. ASSUME NEW p \in Process, Create(p) \/ Select(p) \/ Remove(p) PROVE NameOK(n)'
      BY <2>1, NameBegun DEF NameOK
    <2>2. ASSUME NEW p \in Process, Step(p) \/ Interrupt(p) PROVE NameOK(n)'
      <3>1. CASE name[p] = n /\ n \notin contended
        BY <2>2, <3>1, Here
      <3>2. CASE name[p] = n /\ n \in contended
        BY <2>2, <3>2, Confined DEF IInv, NameOK
      <3>3. CASE name[p] # n
        BY <2>2, <3>3, Elsewhere DEF IInv
      <3> QED
        BY <3>1, <3>2, <3>3
    <2>3. CASE Repair
      <3>1. UNCHANGED <<meta, certs, pc, op, name, host, linked, interrupted, contended>> /\ current' = Default
        BY <2>3 DEF Repair, call, history
      <3>2. current' # n
        BY <3>1, ContextConstants
      <3>3. ASSUME NEW q \in Process, MetaOK(q, n) PROVE MetaOK(q, n)'
        BY <3>1, <3>2, <3>3 DEF MetaOK
      <3>4. ASSUME NEW q \in Process, CertsOK(q, n) PROVE CertsOK(q, n)'
        BY <3>1, <3>4 DEF CertsOK, Matched
      <3> QED
        BY <3>1, <3>2, <3>3, <3>4 DEF IInv, NameOK, Alone, Matched, Idle
    <2>4. CASE UNCHANGED vars
      BY <2>4 DEF vars, files, call, history, IInv, NameOK, Alone, MetaOK, CertsOK, Matched, Idle
    <2> QED
      BY <2>1, <2>2, <2>3, <2>4 DEF Next
  <1> QED
    BY <1>1, <1>2 DEF IInv

-----------------------------------------------------------------------------
(* The invariant holds in every state: two programs, or a hundred, on any  *)
(* number of names, dying wherever they do.                                *)
THEOREM ContextInvariance == Spec => []IInv
  BY InitIInv, NextIInv, PTL DEF Spec

(* A metadata file that cannot be read is one that is being written, or    *)
(* one whose writer died or had company.                                   *)
THEOREM ReadableHolds == Spec => []Readable
  <1>1. IInv => Readable
    BY DEF IInv, NameOK, MetaOK, CertsOK, Readable, TornIsExplained, Idle
  <1> QED
    BY <1>1, ContextInvariance, PTL

(* With a configuration file that can be written, the selected context     *)
(* exists: remove_context deselects before it removes, and a selection is  *)
(* written only for a context that was loaded.                             *)
THEOREM CurrentExistsHolds == ASSUME ~Unwritable PROVE Spec => []CurrentExists
  <1>1. IInv => CurrentExists
    BY DEF IInv, NameOK, CurrentExists
  <1> QED
    BY <1>1, ContextInvariance, PTL

(* Between calls a context has the certificates of its own endpoint, and a *)
(* removed one leaves none to the next of its name.                        *)
THEOREM CertsMatchHolds == Spec => []CertsMatch
  <1>1. IInv => CertsMatch
    BY DEF IInv, NameOK, Matched, CertsMatch
  <1> QED
    BY <1>1, ContextInvariance, PTL

(* create_context never writes over a context, unless it has company.      *)
THEOREM NoOverwriteHolds == Spec => NoOverwrite
  <1>1. ASSUME IInv, NEW p \in Process, OpenMeta(p), name[p] \notin contended
        PROVE  meta[name[p]] = Absent
    <2>1. CallOK(p) /\ pc[p] = "open"
      BY <1>1 DEF OpenMeta, IInv
    <2>2. name[p] \in Name
      BY <2>1 DEF CallOK
    <2> QED
      BY <1>1, <2>1, <2>2, Known DEF MetaOK
  <1>2. IInv /\ [Next]_vars =>
          [\A p \in Process : OpenMeta(p) /\ name[p] \notin contended => meta[name[p]] = Absent]_vars
    BY <1>1
  <1> QED
    BY <1>2, ContextInvariance, PTL DEF Spec, NoOverwrite
=============================================================================
