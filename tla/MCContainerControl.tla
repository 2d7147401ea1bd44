------------------------- MODULE MCContainerControl -------------------------
EXTENDS ContainerControl, TLC
=============================================================================
