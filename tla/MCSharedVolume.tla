--------------------------- MODULE MCSharedVolume ---------------------------
EXTENDS SharedVolume
=============================================================================
