--------------------------- MODULE MCSharedFiles ---------------------------
\* Small instances of SharedFiles for TLC.  A run that checks liveness has no
\* symmetry.
EXTENDS SharedFiles
=============================================================================
