-------------------------- MODULE MCServiceUpdate --------------------------
EXTENDS ServiceUpdate, TLC

CONSTANTS MaxVersion,   \* the daemon's version index stops here
          MaxForce      \* and the force-update counter here

Ask(x, v) == [Untouched EXCEPT ![x] = v]

MCOwn == [t \in Thread |-> t]
\* Threads are interchangeable, each together with its object.
Alike == Permutations(Thread)
MCShared == [t \in Thread |-> CHOOSE o \in Object : TRUE]

MCRequest == {Ask("Image", "b"), Ask("Networks", "b")}
MCModeRequest == MCRequest \union {Ask("Mode", "Global")}
MCValue == {"a", "b", "Global"}

Created(mode, nets, legacy) ==
    [settings |-> [x \in Field |-> CASE x = "Mode" -> mode
                                     [] x = "Networks" -> nets
                                     [] x = "LegacyNetworks" -> legacy
                                     [] OTHER -> "a"],
     force |-> 0]

\* A service with its networks in the template, one made by an old client.
MCInitial == {Created("a", "a", None), Created("a", None, "a")}
\* One made by an old client, which a new one turns into the other form.
MCOld == {Created("a", None, "a")}

Bounded == version <= MaxVersion /\ spec.force <= MaxForce
=============================================================================
