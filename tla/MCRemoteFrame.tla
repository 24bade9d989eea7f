--------------------------- MODULE MCRemoteFrame ---------------------------
EXTENDS RemoteFrame
=============================================================================
