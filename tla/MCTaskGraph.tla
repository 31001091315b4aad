----------------------------- MODULE MCTaskGraph -----------------------------
EXTENDS TaskGraph
=============================================================================
