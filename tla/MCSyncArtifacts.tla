---------------------------- MODULE MCSyncArtifacts -----------------------------
EXTENDS SyncArtifacts
MCFamilies == <<"bitwise", "log">>
=============================================================================
