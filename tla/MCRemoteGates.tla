---------------------------- MODULE MCRemoteGates ----------------------------
(* One pull request with a few pushes, watched by one call or by two.      *)
EXTENDS RemoteGates

CONSTANTS c1, c2, h1, h2
=============================================================================
