---------------------------- MODULE MCDiscovery ----------------------------
EXTENDS Discovery
=============================================================================
