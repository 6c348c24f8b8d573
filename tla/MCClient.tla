------------------------------- MODULE MCClient -------------------------------
(* Instances of ZccpClientPeer for TLC.                                     *)
EXTENDS ZccpClientPeer, TLC

CONSTANTS c1, cpu, cpu1, noId, noHdr, body

MCMatchesOne == (cpu :> {cpu1})
=============================================================================
