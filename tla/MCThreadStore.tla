--------------------------- MODULE MCThreadStore ---------------------------
\* Two messages and two threads: one to be deleted while the other is received or sent.
EXTENDS ThreadStore
=============================================================================
