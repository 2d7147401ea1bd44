--------------------------- MODULE OrderedOutput ---------------------------
(***************************************************************************)
(* What reading a container's output promises: on every channel the caller *)
(* gets the bytes the container wrote, in order and each of them once, and *)
(* an output that ends without an error is complete, unless the connection *)
(* was cut.  FrameStream implements this over a multiplexed connection.    *)
(***************************************************************************)
EXTENDS Sequences, Naturals

CONSTANTS Channel    \* the parts the caller gets the output in

VARIABLES sent,      \* per channel: what the container has written
          got,       \* per channel: what the caller has been given
          state,     \* "open", "ended" or "failed"
          lossy      \* the connection broke, or the end is not to be trusted

vars == <<sent, got, state, lossy>>

Init == /\ sent = [c \in Channel |-> <<>>]
        /\ got = [c \in Channel |-> <<>>]
        /\ state = "open"
        /\ lossy \in BOOLEAN

Extends(longer, shorter) ==
    /\ Len(shorter) <= Len(longer)
    /\ shorter = SubSeq(longer, 1, Len(shorter))

Write(c) == /\ Extends(sent'[c], sent[c])
            /\ \A d \in Channel \ {c} : sent'[d] = sent[d]
            /\ DOMAIN sent' = Channel
            /\ UNCHANGED <<got, state, lossy>>

Deliver(c) == /\ state = "open"
              /\ Extends(got'[c], got[c]) /\ Extends(sent[c], got'[c])
              /\ \A d \in Channel \ {c} : got'[d] = got[d]
              /\ DOMAIN got' = Channel
              /\ UNCHANGED <<sent, state, lossy>>

End == /\ state = "open"
       /\ state' = "ended"
       /\ lossy \/ got = sent
       /\ UNCHANGED <<sent, got, lossy>>

Fail == state = "open" /\ state' = "failed" /\ UNCHANGED <<sent, got, lossy>>

Cut == lossy' = TRUE /\ UNCHANGED <<sent, got, state>>

Next == (\E c \in Channel : Write(c) \/ Deliver(c)) \/ End \/ Fail \/ Cut

Spec == Init /\ [][Next]_vars
=============================================================================
