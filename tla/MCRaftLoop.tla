----------------------------- MODULE MCRaftLoop -----------------------------
EXTENDS RaftLoop
=============================================================================
