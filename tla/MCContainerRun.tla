--------------------------- MODULE MCContainerRun ---------------------------
EXTENDS ContainerRun
=============================================================================
