--------------------------- MODULE VersionedSpec ---------------------------
(***************************************************************************)
(* What docker-py promises about the specification of a swarm service: a   *)
(* set of named settings and a force-update counter that change only by    *)
(* whole, atomic updates.  An update overrides the settings its caller     *)
(* names and keeps every other setting at the value it has at that moment; *)
(* an update made without fetch_current_spec keeps the image only.         *)
(* ServiceUpdate implements this with cached attributes, an inspect        *)
(* request and a POST.                                                     *)
(***************************************************************************)
EXTENDS Naturals

CONSTANTS Setting,    \* the names of the settings of a service
          Value,      \* the values a setting may have
          None,       \* stands for a setting that is absent
          Request,    \* the overrides callers ask for: None leaves a setting alone
          Replicas    \* the modes scale() asks for

VARIABLES settings, force, exists

vars == <<settings, force, exists>>

Override(old, request) ==
    [x \in Setting |-> IF request[x] = None THEN old[x] ELSE request[x]]

Init == /\ settings \in [Setting -> Value \union {None}]
        /\ force \in Nat
        /\ exists = TRUE

\* Service.update: the caller's settings, and one more forced restart if asked.
Update(request, bump) ==
    /\ exists
    /\ settings' = Override(settings, request)
    /\ force' = IF bump THEN force + 1 ELSE force
    /\ UNCHANGED exists

\* Service.update(fetch_current_spec=False): only the image is carried over.
Replace(request, bump) ==
    /\ exists
    /\ settings' = [x \in Setting |->
                       IF x = "Image" /\ request[x] = None THEN settings[x] ELSE request[x]]
    /\ force' = IF bump THEN force + 1 ELSE 0
    /\ UNCHANGED exists

\* Service.scale: a number of replicas, never for a global service.
Scale(replicas) ==
    /\ exists
    /\ settings["Mode"] # "Global"
    /\ settings' = [settings EXCEPT !["Mode"] = replicas]
    /\ UNCHANGED <<force, exists>>

Remove == exists /\ exists' = FALSE /\ UNCHANGED <<settings, force>>

Next == \/ \E request \in Request, bump \in BOOLEAN :
              Update(request, bump) \/ Replace(request, bump)
        \/ \E replicas \in Replicas : Scale(replicas)
        \/ Remove

Spec == Init /\ [][Next]_vars
=============================================================================
