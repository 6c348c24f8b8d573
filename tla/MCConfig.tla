------------------------------- MODULE MCConfig -------------------------------
(* Instances of ZccpConfig for TLC.                                         *)
EXTENDS ZccpConfig, TLC

CONSTANTS c1, c2, t1, t2, zccp_cfg, noFile, unloadable, tcp, unset

Slow == [options |-> ("server/timeout" :> 5000) @@ ("server/verbose" :> unset),
         endpoints |-> {tcp}]
Loud == [options |-> ("server/timeout" :> unset) @@ ("server/verbose" :> 1),
         endpoints |-> {}]

MCContents == {Slow, Loud}
=============================================================================
