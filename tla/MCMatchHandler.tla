--------------------------- MODULE MCMatchHandler ---------------------------
(* Instances of MatchHandler: one request with every kind of plaintext, and  *)
(* another one beside it that matches.                                       *)
EXTENDS MatchHandler, TLC

\* a and b are faces of different people, c matches neither well, x is blurred.
MCImages == {"a", "b", "c", "x"}
MCUnusable == {"x"}
MCHashesFiles == {"listsA", "listsAToo", "listsB", "broken"}
MCCommits == ("listsA" :> "a") @@ ("listsAToo" :> "a") @@ ("listsB" :> "b") @@ ("broken" :> NoCommitment)
MCThresholds == {-1, 1, NaN}

\* Scores of a probe against a reference: 2 is high, -1 is negative.
MCSimilarity ==
    [pair \in MCImages \X MCImages |->
        CASE pair[1] = pair[2] -> 2
          [] pair = <<"b", "a">> -> 1
          [] pair = <<"c", "a">> -> -1
          [] pair = <<"a", "b">> -> NaN
          [] pair = <<"c", "b">> -> NoScore
          [] OTHER -> 0]

\* The first requester sends anything that tells the checks apart (credentials
\* some file lists; the LightGuard flag alone decides), the second one a match.
Match == [live |-> "a", credential |-> "a", challenge |-> "a", hashes |-> "listsA",
          lightGuard |-> FALSE, threshold |-> 1]
Anything ==
    {Garbage, [Match EXCEPT !.lightGuard = TRUE]}
        \cup {in \in MatchInputs : in.credential \in {"a", "b"} /\ ~in.lightGuard}
MCOffers == [r \in Requests |-> IF r = "r1" THEN Anything ELSE {Match}]
=============================================================================
