--------------------------- MODULE MCAdapterPools ---------------------------
EXTENDS AdapterPools
=============================================================================
