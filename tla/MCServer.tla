------------------------------- MODULE MCServer -------------------------------
(* Instances of ZccpServerPeers for TLC.                                    *)
EXTENDS ZccpServerPeers

CONSTANTS c1, c2, cpu, any, cpu1, disk1, noId, alice, noHdr, hdr, body

(* "any" matches both addresses and "cpu" only its own, as the expressions  *)
(* of zccp_server_test do.                                                  *)
MCMatches == (cpu :> {cpu1}) @@ (any :> {cpu1, disk1})

(* One expression.                                                          *)
MCMatchesOne == (cpu :> {cpu1})
=============================================================================
