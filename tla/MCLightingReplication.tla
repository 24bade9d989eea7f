----------------------- MODULE MCLightingReplication -----------------------
EXTENDS LightingReplication
=============================================================================
