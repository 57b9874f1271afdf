--------------------------- MODULE MCMatchExchange ---------------------------
(***************************************************************************)
(* MatchExchange for TLC: which clients share a cookie store.              *)
(***************************************************************************)
EXTENDS MatchExchange, TLC

\* All callers use one FaceVerifierClient.
MCJars == {"jar"}
OneJar == [c \in Clients |-> "jar"]

\* Clients of one jar differ in nothing, nor do pods.
Symmetric == Permutations(Clients) \cup Permutations(Pods)
=============================================================================
