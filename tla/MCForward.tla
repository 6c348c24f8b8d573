------------------------------- MODULE MCForward -------------------------------
(* Instances of ZccpForward for TLC.                                        *)
EXTENDS ZccpForward

CONSTANTS c1, c2, noClient, cpu, any, cpu1, noId, noHdr, body

MCMatches == (cpu :> {cpu1}) @@ (any :> {cpu1})
=============================================================================
