---------------------------- MODULE MCClientPolicy ----------------------------
(***************************************************************************)
(* Instances of ClientPolicy: every policy of up to two lists of up to two *)
(* measurements.                                                           *)
(***************************************************************************)
EXTENDS ClientPolicy

MCIndices == {0, 1}
UpTo2(S) == {<<>>} \cup {<<x>> : x \in S} \cup {<<x, y>> : x, y \in S}
MCPolicies == UpTo2(UpTo2(Measurements))
=============================================================================
