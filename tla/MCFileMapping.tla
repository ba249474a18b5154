--------------------------- MODULE MCFileMapping ---------------------------
EXTENDS FileMapping
=============================================================================
