------------------------------- MODULE MCSystem -------------------------------
(* Instances of ZccpSystem for TLC.                                         *)
EXTENDS ZccpSystem

CONSTANTS c1, c2, cpu, any, cpu1, disk1, noId, noHdr, body

MCMatches == (cpu :> {cpu1}) @@ (any :> {cpu1, disk1})
MCMatchesOne == (cpu :> {cpu1})

(* Clients are interchangeable: nothing orders or chooses among them.       *)
MCSymmetry == Permutations(Clients)
=============================================================================
