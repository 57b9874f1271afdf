--------------------------- MODULE MCMatchEnvelope ---------------------------
(***************************************************************************)
(* Instances of MatchEnvelope: bytes of three values, so that the two byte *)
(* length wraps at nine, an envelope of seven bytes, and encodings that    *)
(* end at their first 1, some too long for the envelope, some too long for *)
(* the length.                                                             *)
(***************************************************************************)
EXTENDS MatchEnvelope

MCResults ==
    UNION {{[i \in 1 .. n |-> IF i = n THEN 1 ELSE IF i = 1 THEN first ELSE rest] :
                first, rest \in {0, 2}} : n \in 1 .. 12}
=============================================================================
