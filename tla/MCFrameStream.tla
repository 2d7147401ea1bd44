---------------------------- MODULE MCFrameStream ----------------------------
EXTENDS FrameStream

Reads(via, demux, tty, recoverable) ==
    [via |-> via, demux |-> demux, tty |-> tty, recoverable |-> recoverable]

\* Every way of reading, and recoverable errors wherever they can occur.
MCModes == {Reads("socket", d, FALSE, FALSE) : d \in BOOLEAN} \union
           {Reads("socket", d, TRUE, TRUE) : d \in BOOLEAN} \union
           {Reads("socket", TRUE, FALSE, TRUE), Reads("response", FALSE, FALSE, FALSE)}
MCPlain == {Reads("socket", d, FALSE, FALSE) : d \in BOOLEAN}
=============================================================================
