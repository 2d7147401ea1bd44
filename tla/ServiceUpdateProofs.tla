------------------------ MODULE ServiceUpdateProofs ------------------------
(***************************************************************************)
(* Proofs about ServiceUpdate, for any number of threads, objects,         *)
(* settings and values.  The properties of updates need Unshared: no two   *)
(* threads use the same Service object.                                    *)
(***************************************************************************)
EXTENDS ServiceUpdate, TLAPS

\* Every thread works on a Service object of its own.
Unshared == \A t, u \in Thread : Obj[t] = Obj[u] => t = u

\* Merging and building the body keep specifications well typed.
LEMMA BodyType ==
    ASSUME NEW current \in SpecType, NEW c, NEW modern \in BOOLEAN,
           c.set \in [Setting -> Value \union {None}], c.force \in Nat
    PROVE  Body(current, c, modern) \in SpecType
  BY DEF Body, SpecType, Field, Setting, Merge, TaskNetworks

\* No call and an empty specification have their types.
LEMMA NoCallType == NoCall \in CallType /\ Empty \in SpecType
  BY DEF NoCall, CallType, Empty, SpecType, Untouched

\* Returning from a call keeps the thread's variables well typed.
LEMMA ReturnType ==
    ASSUME TypeOK, NEW t \in Thread, Return(t)
    PROVE  /\ pc' \in [Thread -> {"idle", "image", "force", "version", "inspect", "post",
                                   "reload", "assign"}]
           /\ call' \in [Thread -> CallType]
           /\ ver' \in [Thread -> Nat]
           /\ cur' \in [Thread -> SpecType]
  BY NoCallType DEF TypeOK, Return

\* Type correctness: every reachable state is well typed.
THEOREM TypeCorrect == Spec => []TypeOK
<1>1. Init => TypeOK
  BY ServiceConstants, NoCallType DEF Init, TypeOK
<1>2. TypeOK /\ [Next]_vars => TypeOK'
  <2> SUFFICES ASSUME TypeOK, [Next]_vars PROVE TypeOK'
    OBVIOUS
  <2>1. ASSUME NEW t \in Thread, BeginUpdate(t) PROVE TypeOK'
    BY <2>1, ServiceConstants DEF TypeOK, BeginUpdate, Goto, CallType, daemon
  <2>2. ASSUME NEW t \in Thread, ReadImage(t) PROVE TypeOK'
    <3> DEFINE image == IF call[t].set["Image"] = None
                        THEN attrs[Obj[t]].spec.settings["Image"] ELSE call[t].set["Image"]
               set == [call[t].set EXCEPT !["Image"] = image]
    <3>1. call[t] \in CallType /\ attrs[Obj[t]].spec \in SpecType
      BY ServiceConstants DEF TypeOK
    <3>2. set \in [Setting -> Value \union {None}]
      BY <3>1 DEF CallType, SpecType, Field, Setting
    <3>3. [call[t] EXCEPT !.set = set] \in CallType
      BY <3>1, <3>2 DEF CallType
    <3>4. call' = [call EXCEPT ![t] = [call[t] EXCEPT !.set = set]]
      BY <2>2, <3>1 DEF ReadImage, TypeOK, CallType
    <3> QED BY <2>2, <3>3, <3>4 DEF TypeOK, ReadImage, Goto, daemon
  <2>3. ASSUME NEW t \in Thread, ReadForce(t) PROVE TypeOK'
    <3> DEFINE force == IF call[t].bump THEN attrs[Obj[t]].spec.force + 1 ELSE 0
    <3>1. call[t] \in CallType /\ attrs[Obj[t]].spec \in SpecType
      BY ServiceConstants DEF TypeOK
    <3>2. [call[t] EXCEPT !.force = force] \in CallType
      BY <3>1 DEF CallType, SpecType
    <3>3. call' = [call EXCEPT ![t] = [call[t] EXCEPT !.force = force]]
      BY <2>3, <3>1 DEF ReadForce, TypeOK, CallType
    <3> QED BY <2>3, <3>2, <3>3 DEF TypeOK, ReadForce, Goto, daemon
  <2>4. ASSUME NEW t \in Thread, BeginScale(t) PROVE TypeOK'
    BY <2>4, ServiceConstants DEF TypeOK, BeginScale, Goto, CallType, daemon, Untouched, Setting
  <2>5. ASSUME NEW t \in Thread, ReadVersion(t) PROVE TypeOK'
    BY <2>5, ServiceConstants, ReturnType DEF TypeOK, ReadVersion, Goto, daemon
  <2>6. ASSUME NEW t \in Thread, Inspect(t) PROVE TypeOK'
    BY <2>6, ReturnType DEF TypeOK, Inspect, Goto, daemon
  <2>7. ASSUME NEW t \in Thread, Accept(t) PROVE TypeOK'
    <3> DEFINE modern == t \in Modern
    <3>1. modern \in BOOLEAN
      OBVIOUS
    <3> HIDE DEF modern
    <3>2. Body(cur[t], call[t], modern) \in SpecType
      BY <2>7, <3>1, BodyType DEF TypeOK, CallType
    <3> QED BY <2>7, <3>2, ReturnType, ServiceConstants DEF TypeOK, Accept, modern
  <2>8. ASSUME NEW t \in Thread, Reject(t) \/ Lose(t) PROVE TypeOK'
    BY <2>8, ReturnType DEF TypeOK, Reject, Lose, daemon
  <2>9. ASSUME NEW t \in Thread, BeginReload(t) PROVE TypeOK'
    BY <2>9 DEF TypeOK, BeginReload, Goto, daemon
  <2>10. ASSUME NEW t \in Thread, ReloadGet(t) PROVE TypeOK'
    BY <2>10, ReturnType DEF TypeOK, ReloadGet, Goto, daemon
  <2>11. ASSUME NEW t \in Thread, ReloadAssign(t) PROVE TypeOK'
    BY <2>11, ReturnType, ServiceConstants DEF TypeOK, ReloadAssign, daemon
  <2>12. ASSUME NEW t \in Thread, Remove(t) PROVE TypeOK'
    BY <2>12 DEF TypeOK, Remove
  <2>13. ASSUME Elsewhere PROVE TypeOK'
    <3>1. PICK request \in Request, bump, modern \in BOOLEAN :
             spec' = Body(spec, [set |-> request, force |-> IF bump THEN spec.force + 1 ELSE 0],
                          modern)
      BY <2>13 DEF Elsewhere
    <3> DEFINE c == [set |-> request, force |-> IF bump THEN spec.force + 1 ELSE 0]
    <3>2. c.set \in [Setting -> Value \union {None}] /\ c.force \in Nat
      BY ServiceConstants DEF TypeOK, SpecType
    <3> HIDE DEF c
    <3>3. spec' \in SpecType
      BY <3>1, <3>2, BodyType DEF TypeOK, c
    <3> QED BY <2>13, <3>3 DEF TypeOK, Elsewhere
  <2>14. ASSUME UNCHANGED vars PROVE TypeOK'
    BY <2>14 DEF TypeOK, vars, daemon
  <2> QED
    BY <2>1, <2>2, <2>3, <2>4, <2>5, <2>6, <2>7, <2>8, <2>9, <2>10, <2>11, <2>12, <2>13, <2>14
    DEF Next
<1> QED BY <1>1, <1>2, PTL DEF Spec

-----------------------------------------------------------------------------
(* The inductive invariant.                                                *)

\* A call's local invariant only looks at the caller and at its own object.
LEMMA CallFrame ==
    ASSUME NEW u \in Thread, CallAgrees(u),
           pc'[u] = pc[u], call'[u] = call[u], ver'[u] = ver[u], cur'[u] = cur[u],
           attrs'[Obj[u]] = attrs[Obj[u]]
    PROVE  CallAgrees(u)'
  BY DEF CallAgrees, Fetched, Defaults, Wanted, ImageFrom

\* A thread that returns has no call left to agree with anything.
LEMMA CallReturn ==
    ASSUME TypeOK, NEW t \in Thread, Return(t)
    PROVE  /\ CallAgrees(t)' /\ pc'[t] = "idle"
           /\ \A u \in Thread \ {t} : /\ pc'[u] = pc[u] /\ call'[u] = call[u]
                                      /\ ver'[u] = ver[u] /\ cur'[u] = cur[u]
  BY DEF TypeOK, Return, CallAgrees, Fetched

\* Init establishes the invariant.
LEMMA InvInit == Init => IInv
  BY ServiceConstants DEF Init, IInv, SnapshotsAgree, CallAgrees, Fetched, SpecType

\* The steps of a call before its POST, which leave the daemon alone.
LEMMA InvCall ==
    ASSUME TypeOK, IInv, Unshared, NEW t \in Thread,
           BeginUpdate(t) \/ ReadImage(t) \/ ReadForce(t) \/ BeginScale(t)
    PROVE  IInv'
<1>1. /\ UNCHANGED <<spec, version, attrs, ver, cur, spent>>
      /\ \A u \in Thread \ {t} : pc'[u] = pc[u] /\ call'[u] = call[u]
      /\ pc'[t] \in {"image", "force", "version"}
  BY DEF BeginUpdate, ReadImage, ReadForce, BeginScale, Goto, TypeOK, daemon
<1>2. CallAgrees(t)'
  <2> USE DEF IInv, TypeOK
  <2>1. CASE BeginUpdate(t)
    BY <2>1, ServiceConstants DEF BeginUpdate, Goto, CallAgrees, Fetched, Wanted, ImageFrom
  <2>2. CASE ReadImage(t)
    <3>1. call[t].op = "update" /\ call[t] \in CallType /\ call[t].set = call[t].asked
      BY <2>2 DEF ReadImage, CallAgrees
    <3>2. /\ call'[t].op = call[t].op /\ call'[t].asked = call[t].asked
          /\ \A x \in Setting \ {"Image"} : call'[t].set[x] = call[t].set[x]
          /\ ImageFrom(call'[t], attrs[Obj[t]].spec)
      BY <2>2, <3>1 DEF ReadImage, CallType, ImageFrom, Setting
    <3> QED BY <2>2, <3>1, <3>2, <1>1 DEF ReadImage, Goto, CallAgrees, Fetched, Wanted, ImageFrom
  <2>3. CASE ReadForce(t)
    <3>1. call[t].op = "update" /\ call[t] \in CallType
      BY <2>3 DEF ReadForce, CallAgrees
    <3>2. /\ call'[t].op = call[t].op /\ call'[t].asked = call[t].asked
          /\ call'[t].set = call[t].set /\ call'[t].bump = call[t].bump
          /\ call'[t].force = IF call[t].bump THEN attrs[Obj[t]].spec.force + 1 ELSE 0
      BY <2>3, <3>1 DEF ReadForce, CallType
    <3> QED BY <2>3, <3>1, <3>2, <1>1
            DEF ReadForce, Goto, CallAgrees, Fetched, Wanted, ImageFrom, Defaults
  <2>4. CASE BeginScale(t)
    <3>1. PICK n \in Replicas : call'[t] =
             [op |-> "scale", set |-> [Untouched EXCEPT !["Mode"] = n],
              bump |-> FALSE, force |-> 0, fetch |-> TRUE,
              asked |-> [Untouched EXCEPT !["Mode"] = n]]
      BY <2>4 DEF BeginScale
    <3>2. Wanted(call'[t])
      BY <3>1 DEF Wanted
    <3>3. Defaults(call'[t], attrs[Obj[t]].spec)
      BY <2>4, <3>1 DEF BeginScale, Defaults
    <3> QED BY <2>4, <3>2, <3>3, <1>1 DEF BeginScale, Goto, CallAgrees, Fetched, Wanted, Defaults, ImageFrom
  <2> QED BY <2>1, <2>2, <2>3, <2>4
<1>3. \A u \in Thread : CallAgrees(u)'
  BY <1>1, <1>2, CallFrame DEF IInv
<1>4. SnapshotsAgree'
  BY <1>1 DEF IInv, SnapshotsAgree, Fetched
<1> QED BY <1>1, <1>3, <1>4 DEF IInv

\* The steps that end in a request, or in the end of the call.
LEMMA InvRequest ==
    ASSUME TypeOK, IInv, Unshared, NEW t \in Thread,
           ReadVersion(t) \/ Inspect(t) \/ Reject(t) \/ Lose(t) \/ BeginReload(t) \/ ReloadGet(t)
    PROVE  IInv'
<1> USE DEF IInv, TypeOK
<1>1. UNCHANGED <<spec, version, attrs, spent>>
  BY DEF ReadVersion, Inspect, Reject, Lose, BeginReload, ReloadGet, daemon
<1>2. \A u \in Thread \ {t} : /\ pc'[u] = pc[u] /\ call'[u] = call[u]
                              /\ ver'[u] = ver[u] /\ cur'[u] = cur[u]
  BY CallReturn DEF ReadVersion, Inspect, Reject, Lose, BeginReload, ReloadGet, Goto
<1>3. CASE Return(t)
  <2>1. \A u \in Thread : CallAgrees(u)'
    BY <1>1, <1>2, <1>3, CallReturn, CallFrame
  <2>2. SnapshotsAgree'
    BY <1>1, <1>2, <1>3, CallReturn DEF SnapshotsAgree, Fetched
  <2> QED BY <1>1, <2>1, <2>2
<1>4. CASE ~Return(t)
  <2>1. CallAgrees(t)'
    <3>1. CASE ReadVersion(t)
      BY <1>4, <3>1 DEF ReadVersion, Goto, CallAgrees, Fetched, Wanted, Defaults, ImageFrom
    <3>2. CASE Inspect(t)
      BY <1>4, <3>2 DEF Inspect, Goto, CallAgrees, Fetched, Wanted, Defaults, ImageFrom
    <3>3. CASE BeginReload(t)
      BY <3>3 DEF BeginReload, Goto, CallAgrees, Fetched
    <3>4. CASE ReloadGet(t)
      BY <1>4, <3>4, ServiceConstants DEF ReloadGet, Goto, CallAgrees, Fetched, SnapshotsAgree
    <3> QED BY <1>4, <3>1, <3>2, <3>3, <3>4 DEF Reject, Lose
  <2>2. \A u \in Thread : CallAgrees(u)'
    BY <1>1, <1>2, <2>1, CallFrame
  <2>3. /\ pc'[t] \in {"inspect", "post", "assign"} => ver'[t] <= version
        /\ Fetched(t)' /\ ver'[t] = version => cur'[t] = spec
    BY <1>4, ServiceConstants DEF ReadVersion, Inspect, Reject, Lose, BeginReload, ReloadGet, Goto,
                 SnapshotsAgree, Fetched, CallAgrees
  <2>4. SnapshotsAgree'
    BY <1>1, <1>2, <2>3 DEF SnapshotsAgree, Fetched
  <2> QED BY <1>1, <2>2, <2>4
<1> QED BY <1>3, <1>4

\* The steps that change the daemon, or replace a snapshot.
LEMMA InvWrite ==
    ASSUME TypeOK, IInv, NEW changed,
           version' = version + 1, UNCHANGED attrs, spent' \subseteq spent \union changed,
           changed \subseteq {o \in Object : attrs[o].version = version},
           \A u \in Thread : \/ UNCHANGED <<pc[u], call[u], ver[u], cur[u]>>
                             \/ pc'[u] = "idle" /\ CallAgrees(u)'
    PROVE  IInv'
<1> USE DEF IInv, TypeOK
<1>1. \A u \in Thread : CallAgrees(u)'
  BY CallFrame
<1>2. \A o \in Object : attrs'[o].version <= version /\ attrs'[o].version # version'
  BY DEF SnapshotsAgree
<1>3. \A u \in Thread : pc'[u] \in {"inspect", "post", "assign"} => ver'[u] <= version
  BY DEF SnapshotsAgree
<1>4. SnapshotsAgree'
  BY <1>2, <1>3 DEF SnapshotsAgree, Fetched
<1>5. \A o \in spent' : attrs'[o].version < version'
  BY <1>2
<1> QED BY <1>1, <1>4, <1>5

\* Every step keeps the invariant.
LEMMA InvNext == TypeOK /\ IInv /\ Unshared /\ [Next]_vars => IInv'
<1> SUFFICES ASSUME TypeOK, IInv, Unshared, [Next]_vars PROVE IInv'
  OBVIOUS
<1>1. ASSUME NEW t \in Thread, Accept(t) PROVE IInv'
  <2>1. attrs[Obj[t]].version = version /\ Obj[t] \in Object
    BY <1>1, ServiceConstants DEF Accept, Accepts, IInv, CallAgrees
  <2>2. Return(t)
    BY <1>1 DEF Accept
  <2>3. \A u \in Thread : \/ UNCHANGED <<pc[u], call[u], ver[u], cur[u]>>
                          \/ pc'[u] = "idle" /\ CallAgrees(u)'
    BY <2>2, CallReturn
  <2> QED BY <1>1, <2>1, <2>3, InvWrite DEF Accept
<1>2. ASSUME Elsewhere PROVE IInv'
  BY <1>2, InvWrite DEF Elsewhere
<1>3. ASSUME NEW t \in Thread, ReloadAssign(t) PROVE IInv'
  <2> USE DEF IInv, TypeOK
  <2>1. /\ attrs' = [attrs EXCEPT ![Obj[t]] = [spec |-> cur[t], version |-> ver[t]]]
        /\ Obj[t] \in Object /\ Return(t) /\ UNCHANGED <<spec, version>>
        /\ spent' = spent \ {Obj[t]}
    BY <1>3, ServiceConstants DEF ReloadAssign, daemon
  <2>2. \A u \in Thread \ {t} : attrs'[Obj[u]] = attrs[Obj[u]]
    BY <2>1, ServiceConstants DEF Unshared
  <2>3. \A u \in Thread : CallAgrees(u)'
    BY <2>1, <2>2, CallReturn, CallFrame
  <2>4. SnapshotsAgree'
    <3>1. ver[t] <= version /\ (ver[t] = version => cur[t] = spec)
      BY <1>3 DEF ReloadAssign, SnapshotsAgree, Fetched
    <3> QED BY <2>1, <3>1, CallReturn DEF SnapshotsAgree, Fetched
  <2> QED BY <2>1, <2>3, <2>4
<1>4. ASSUME NEW t \in Thread, Remove(t) PROVE IInv'
  <2>1. UNCHANGED <<spec, version, attrs, pc, call, ver, cur, spent>>
    BY <1>4 DEF Remove
  <2> QED BY <2>1, CallFrame DEF IInv, SnapshotsAgree, Fetched
<1>5. CASE UNCHANGED vars
  <2>1. UNCHANGED <<spec, version, attrs, pc, call, ver, cur, spent>>
    BY <1>5 DEF vars, daemon
  <2> QED BY <2>1, CallFrame DEF IInv, SnapshotsAgree, Fetched
<1> QED BY <1>1, <1>2, <1>3, <1>4, <1>5, InvCall, InvRequest DEF Next

\* The invariant holds in every reachable state when objects are not shared.
THEOREM Invariance == ASSUME Unshared PROVE Spec => [](TypeOK /\ IInv)
<1>1. TypeOK /\ IInv /\ [Next]_vars => IInv'
  BY InvNext
<1> QED BY <1>1, InvInit, TypeCorrect, PTL DEF Spec

\* A snapshot or inspection of the daemon's version is the daemon's specification.
THEOREM SnapshotsAgreeHolds == ASSUME Unshared PROVE Spec => []SnapshotsAgree
<1>1. IInv => SnapshotsAgree
  BY DEF IInv
<1> QED BY <1>1, Invariance, PTL

-----------------------------------------------------------------------------
(* What an accepted update does, and the action properties.                *)

\* When the daemon accepts, the snapshot is current, and so are the defaults
\* taken from it and the specification they were merged into.
LEMMA AcceptCurrent ==
    ASSUME TypeOK, IInv, NEW t \in Thread, Accept(t)
    PROVE  /\ Defaults(call[t], spec) /\ Wanted(call[t])
           /\ IF call[t].fetch THEN cur[t] = spec ELSE cur[t] = Empty
           /\ Obj[t] \notin spent
           /\ spec' = Body(cur[t], call[t], t \in Modern)
<1> USE DEF IInv, Accept, Accepts
<1>1. attrs[Obj[t]].version = version /\ Obj[t] \in Object
  BY ServiceConstants DEF CallAgrees
<1>2. attrs[Obj[t]].spec = spec
  BY <1>1 DEF SnapshotsAgree
<1>3. version \in Nat
  BY DEF TypeOK
<1> QED BY <1>1, <1>2, <1>3 DEF CallAgrees, SnapshotsAgree, Fetched

\* No accepted update reverts a setting its caller did not name.
THEOREM NoLostUpdateHolds == ASSUME Unshared PROVE Spec => NoLostUpdate
<1>1. TypeOK /\ IInv /\ [Next]_vars =>
        [\A t \in Thread : Accept(t) /\ call[t].fetch =>
          \A x \in Setting : call[t].asked[x] = None =>
             Visible(spec'.settings)[x] = Visible(spec.settings)[x]]_vars
  <2> SUFFICES ASSUME TypeOK, IInv, NEW t \in Thread, Accept(t), call[t].fetch,
                      NEW x \in Setting, call[t].asked[x] = None
               PROVE  Visible(spec'.settings)[x] = Visible(spec.settings)[x]
    OBVIOUS
  <2>1. spec' = Body(spec, call[t], t \in Modern) /\ Defaults(call[t], spec) /\ Wanted(call[t])
    BY AcceptCurrent
  <2>2. call[t].set[x] = None \/ (x = "Image" /\ call[t].set[x] = spec.settings[x])
    BY <2>1 DEF Defaults, Wanted, ImageFrom
  <2>3. CASE x = "Networks"
    BY <2>1, <2>2, <2>3, ServiceConstants
       DEF Body, Visible, Attached, TaskNetworks, Field, Setting
  <2>4. CASE x # "Networks"
    BY <2>1, <2>2, <2>4, ServiceConstants DEF Body, Visible, Merge, Field, Setting
  <2> QED BY <2>3, <2>4
<1> QED BY <1>1, Invariance, PTL DEF Spec, NoLostUpdate

\* A forced update adds exactly one to the daemon's counter.
THEOREM ForceTakesEffectHolds == ASSUME Unshared PROVE Spec => ForceTakesEffect
<1>1. TypeOK /\ IInv /\ [Next]_vars =>
        [\A t \in Thread : Accept(t) /\ call[t].bump => spec'.force = spec.force + 1]_vars
  <2> SUFFICES ASSUME TypeOK, IInv, NEW t \in Thread, Accept(t), call[t].bump
               PROVE  spec'.force = spec.force + 1
    OBVIOUS
  <2>1. call[t].force = spec.force + 1
    BY AcceptCurrent DEF Defaults, Wanted
  <2>2. spec.force \in Nat
    BY DEF TypeOK, SpecType
  <2> QED BY <2>1, <2>2, AcceptCurrent DEF Body
<1> QED BY <1>1, Invariance, PTL DEF Spec, ForceTakesEffect

\* An accepted scale never meets a global service.
THEOREM ScaleKeepsGlobalHolds == ASSUME Unshared PROVE Spec => ScaleKeepsGlobal
<1>1. TypeOK /\ IInv /\ [Next]_vars =>
        [\A t \in Thread : Accept(t) /\ call[t].op = "scale" =>
           spec.settings["Mode"] # "Global"]_vars
  BY AcceptCurrent DEF Defaults
<1> QED BY <1>1, Invariance, PTL DEF Spec, ScaleKeepsGlobal

\* A repeated call is not applied twice without a reload.
THEOREM RetryNotAppliedHolds == ASSUME Unshared PROVE Spec => RetryNotApplied
<1>1. TypeOK /\ IInv /\ [Next]_vars => [\A t \in Thread : Accept(t) => Obj[t] \notin spent]_vars
  BY AcceptCurrent
<1> QED BY <1>1, Invariance, PTL DEF Spec, RetryNotApplied

-----------------------------------------------------------------------------
(* Refinement: every step is an atomic update of VersionedSpec, or a       *)
(* stutter.                                                                *)

\* An update merged into the whole specification overrides what is visible of it.
LEMMA VisibleBody ==
    ASSUME NEW s \in SpecType, NEW c, NEW modern \in BOOLEAN,
           NEW asked \in [Setting -> Value \union {None}],
           \A x \in Setting : c.set[x] = asked[x] \/
                              (asked[x] = None /\ x = "Image" /\ c.set[x] = s.settings[x])
    PROVE  Visible(Body(s, c, modern).settings) = Abstract!Override(Visible(s.settings), asked)
<1> SUFFICES ASSUME NEW x \in Setting
             PROVE  Visible(Body(s, c, modern).settings)[x] =
                    Abstract!Override(Visible(s.settings), asked)[x]
  BY DEF Visible, Abstract!Override
<1>1. CASE x = "Networks"
  BY <1>1, ServiceConstants
  DEF Visible, Attached, Body, TaskNetworks, Abstract!Override, Field, Setting
<1>2. CASE x # "Networks"
  BY <1>2, ServiceConstants DEF Visible, Body, Merge, Abstract!Override, Field, Setting
<1> QED BY <1>1, <1>2

\* An update without the current specification is a replacement.
LEMMA VisibleReplace ==
    ASSUME NEW c, NEW modern \in BOOLEAN, NEW asked \in [Setting -> Value \union {None}], NEW x \in Setting,
           c.set \in [Setting -> Value \union {None}]
    PROVE  Visible(Body(Empty, c, modern).settings)[x] = c.set[x]
<1>1. CASE x = "Networks"
  BY <1>1, ServiceConstants DEF Visible, Attached, Body, TaskNetworks, Empty, Field, Setting
<1>2. CASE x # "Networks"
  BY <1>2, ServiceConstants DEF Visible, Body, Merge, Empty, Field, Setting
<1> QED BY <1>1, <1>2

\* An accepted request is one atomic step of the abstract specification.
LEMMA AcceptRefines ==
    ASSUME TypeOK, IInv, NEW t \in Thread, Accept(t)
    PROVE  Abstract!Next
<1> DEFINE c == call[t]
<1> DEFINE modern == t \in Modern
<1>1. /\ Defaults(c, spec) /\ Wanted(c) /\ spec' = Body(cur[t], c, modern)
      /\ IF c.fetch THEN cur[t] = spec ELSE cur[t] = Empty
  BY AcceptCurrent
<1>2. exists /\ exists' = exists
  BY DEF Accept, Accepts
<1>3. c \in CallType /\ spec \in SpecType /\ spec.force \in Nat
  BY DEF TypeOK, SpecType
<1>7. modern \in BOOLEAN
  OBVIOUS
<1> HIDE DEF c, modern
<1>4. CASE c.op = "update" /\ c.fetch
  <2>1. c.asked \in Request /\ c.asked \in [Setting -> Value \union {None}] /\ c.bump \in BOOLEAN
    BY <1>1, <1>3, <1>4 DEF Wanted, CallType
  <2>2. \A x \in Setting : c.set[x] = c.asked[x] \/
                           (c.asked[x] = None /\ x = "Image" /\ c.set[x] = spec.settings[x])
    BY <1>1, <1>4 DEF Wanted, Defaults, ImageFrom
  <2>3. Visible(spec'.settings) = Abstract!Override(Visible(spec.settings), c.asked)
    BY <1>1, <1>3, <1>4, <1>7, <2>1, <2>2, VisibleBody
  <2>4. spec'.force = IF c.bump THEN spec.force + 1 ELSE spec.force
    BY <1>1, <1>3, <1>4 DEF Body, Defaults
  <2>5. Abstract!Update(c.asked, c.bump)
    BY <1>2, <2>3, <2>4 DEF Abstract!Update
  <2> QED BY <2>1, <2>5 DEF Abstract!Next
<1>5. CASE c.op = "update" /\ ~c.fetch
  <2>1. c.asked \in Request /\ c.bump \in BOOLEAN /\ spec' = Body(Empty, c, modern)
        /\ c.set \in [Setting -> Value \union {None}]
        /\ c.asked \in [Setting -> Value \union {None}]
    BY <1>1, <1>3, <1>5 DEF Wanted, CallType
  <2>2. \A x \in Setting : Visible(spec'.settings)[x] =
           IF x = "Image" /\ c.asked[x] = None THEN Visible(spec.settings)[x] ELSE c.asked[x]
    BY <1>1, <1>5, <1>7, <2>1, VisibleReplace DEF Wanted, Defaults, ImageFrom, Visible
  <2>3. Visible(spec'.settings) = [x \in Setting |->
           IF x = "Image" /\ c.asked[x] = None THEN Visible(spec.settings)[x] ELSE c.asked[x]]
    BY <2>2 DEF Visible
  <2>4. spec'.force = IF c.bump THEN spec.force + 1 ELSE 0
    BY <1>1, <1>3, <1>5, <2>1 DEF Body, Defaults, Empty
  <2>5. Abstract!Replace(c.asked, c.bump)
    BY <1>2, <2>3, <2>4 DEF Abstract!Replace
  <2> QED BY <2>1, <2>5 DEF Abstract!Next
<1>6. CASE c.op = "scale"
  <2>1. PICK n \in Replicas : c.asked = [Untouched EXCEPT !["Mode"] = n]
    BY <1>1, <1>6 DEF Wanted
  <2>2. c.set = c.asked /\ c.fetch /\ c.force = 0 /\ spec.settings["Mode"] # "Global"
    BY <1>1, <1>6 DEF Wanted, Defaults
  <2>3. c.asked \in [Setting -> Value \union {None}]
    BY <1>3 DEF CallType
  <2>4. Visible(spec'.settings) = Abstract!Override(Visible(spec.settings), c.asked)
    BY <1>1, <1>3, <1>7, <2>2, <2>3, VisibleBody
  <2>5. n # None
    BY ServiceConstants
  <2>6. Visible(spec'.settings) = [Visible(spec.settings) EXCEPT !["Mode"] = n]
    BY <2>1, <2>4, <2>5 DEF Abstract!Override, Untouched, Visible, Setting
  <2>7. Visible(spec.settings)["Mode"] # "Global"
    BY <2>2 DEF Visible, Setting
  <2>8. spec'.force = spec.force
    BY <1>1, <2>2 DEF Body
  <2>9. Abstract!Scale(n)
    BY <1>2, <2>6, <2>7, <2>8 DEF Abstract!Scale
  <2> QED BY <2>9 DEF Abstract!Next
<1> QED BY <1>3, <1>4, <1>5, <1>6 DEF CallType

\* ServiceUpdate implements VersionedSpec.
THEOREM Refinement == ASSUME Unshared PROVE Spec => Implements
<1>1. Init => Abstract!Init
  BY ServiceConstants
  DEF Init, Abstract!Init, SpecType, Visible, Attached, Field, Setting
<1>2. TypeOK /\ IInv /\ [Next]_vars => [Abstract!Next]_(Abstract!vars)
  <2> SUFFICES ASSUME TypeOK, IInv, [Next]_vars
               PROVE  Abstract!Next \/ UNCHANGED <<spec, exists>>
    BY DEF Abstract!vars
  <2>1. ASSUME NEW t \in Thread, Accept(t) PROVE Abstract!Next
    BY <2>1, AcceptRefines
  <2>2. ASSUME NEW t \in Thread, Remove(t) PROVE Abstract!Next
    BY <2>2 DEF Remove, Abstract!Next, Abstract!Remove
  <2>3. ASSUME Elsewhere PROVE Abstract!Next
    <3>1. PICK request \in Request, bump, modern \in BOOLEAN :
             spec' = Body(spec, [set |-> request, force |-> IF bump THEN spec.force + 1 ELSE 0],
                          modern)
      BY <2>3 DEF Elsewhere
    <3> DEFINE c == [set |-> request, force |-> IF bump THEN spec.force + 1 ELSE 0]
    <3>2. request \in [Setting -> Value \union {None}] /\ c.set = request
      BY ServiceConstants
    <3> HIDE DEF c
    <3>3. Visible(spec'.settings) = Abstract!Override(Visible(spec.settings), request)
      BY <3>1, <3>2, VisibleBody DEF TypeOK, c
    <3>4. spec'.force = IF bump THEN spec.force + 1 ELSE spec.force
      BY <3>1 DEF Body, TypeOK, SpecType
    <3>5. Abstract!Update(request, bump)
      BY <2>3, <3>3, <3>4 DEF Elsewhere, Abstract!Update
    <3> QED BY <3>5 DEF Abstract!Next
  <2>4. \/ \E t \in Thread : Accept(t) \/ Remove(t)
        \/ Elsewhere
        \/ UNCHANGED <<spec, exists>>
    BY DEF Next, vars, daemon, BeginUpdate, ReadImage, ReadForce, BeginScale, ReadVersion,
           Inspect, Reject, Lose, BeginReload, ReloadGet, ReloadAssign
  <2> QED BY <2>1, <2>2, <2>3, <2>4
<1> QED BY <1>1, <1>2, Invariance, PTL DEF Spec, Implements, Abstract!Spec
=============================================================================
