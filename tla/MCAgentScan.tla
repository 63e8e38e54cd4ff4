---------------------------- MODULE MCAgentScan -----------------------------
(***************************************************************************)
(* AgentScan on small instances.                                           *)
(***************************************************************************)
EXTENDS AgentScan

CONSTANTS s1, s2, f1, f2

OneSub == {s1}
TwoSubs == {s1, s2}
OneName == {f1}
TwoNames == {f1, f2}
NoNames == {}
=============================================================================
