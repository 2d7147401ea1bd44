-------------------------- MODULE MCProgressStream --------------------------
EXTENDS ProgressStream, TLC
=============================================================================
