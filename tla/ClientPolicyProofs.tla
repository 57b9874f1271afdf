-------------------------- MODULE ClientPolicyProofs --------------------------
(***************************************************************************)
(* Theorems about ClientPolicy, for every set of measurements, every       *)
(* policy, and every bound.                                                *)
(***************************************************************************)
EXTENDS ClientPolicy, TLAPS

\* In a usable list each measurement is the one its index gets in the PcrConfig.
LEMMA NothingIsDropped ==
    ASSUME NEW list \in Seq(Measurements), Unique(list), NEW pcr \in Entries(list)
    PROVE  /\ pcr.index \in DOMAIN PcrConfigOf(list)
           /\ PcrConfigOf(list)[pcr.index] = pcr.value
PROOF
    <1>1. PICK i \in DOMAIN list : pcr = list[i] BY DEF Entries
    <1>. DEFINE n == list[i].index
                at == {j \in DOMAIN list : list[j].index = n}
                Picked(k) == \A j \in at : IF n = 0 THEN k <= j ELSE j <= k
    <1>2. DOMAIN list \subseteq Nat OBVIOUS
    <1>3. at = {i} BY DEF Unique
    <1>4. i \in at /\ Picked(i) BY <1>2, <1>3
    <1>. HIDE DEF Picked
    <1>5. (CHOOSE k \in at : Picked(k)) \in at BY <1>4
    <1>6. (CHOOSE k \in at : Picked(k)) = i BY <1>3, <1>5
    <1>7. n \in {q.index : q \in Entries(list)} BY <1>1
    <1>8. PcrConfigOf(list)[n] = list[CHOOSE k \in at : Picked(k)].value
      BY <1>7 DEF PcrConfigOf, Picked
    <1>. QED BY <1>1, <1>6, <1>7, <1>8 DEF PcrConfigOf

\* An index of a PcrConfig is that of a measurement the list holds, with its value.
LEMMA NothingIsAdded ==
    ASSUME NEW list \in Seq(Measurements), Unique(list), NEW n \in DOMAIN PcrConfigOf(list)
    PROVE  \E pcr \in Entries(list) : pcr.index = n /\ PcrConfigOf(list)[n] = pcr.value
PROOF
    <1>1. n \in {q.index : q \in Entries(list)} BY DEF PcrConfigOf
    <1>2. PICK pcr \in Entries(list) : pcr.index = n BY <1>1
    <1>3. PcrConfigOf(list)[pcr.index] = pcr.value BY NothingIsDropped
    <1>. QED BY <1>2, <1>3

\* A bound given in milliseconds is read back from its parts.
LEMMA WholeMillis ==
    ASSUME NEW millis \in Nat
    PROVE  (millis * PerMilli) \div PerMilli = millis
BY PolicyAssumption, SMT

-----------------------------------------------------------------------------
\* A client's verifier is that of its own usable configuration, whose bound is
\* the one that was asked for; and what the last check said follows from it.
IInv ==
    /\ stage \in {"start", "config", "client", "error"}
    /\ stage \in {"config", "client"} =>
        /\ config.policy \in Seq(Seq(Measurements))
        /\ config.maxAge = IF asked \div PerMilli <= MaxMillis THEN asked \div PerMilli ELSE MaxMillis
    /\ stage = "client" => Usable(config.policy) /\ verifier = VerifierOf(config)
    /\ answer \in {"Accepted", "NotMeasured", "TooOld"} =>
        stage = "client" /\ answer = Verdict(verifier, document)

LEMMA InvInit == Init => IInv
BY DEF Init, IInv

\* Both constructors store a bound the field can hold.
LEMMA MakeStep ==
    ASSUME NEW policy \in Policies, NEW millis \in 0 .. MaxMillis, IInv, stage = "start", Make(policy, millis)
    PROVE  IInv'
PROOF
    <1>1. millis \in Nat /\ millis <= MaxMillis BY PolicyAssumption
    <1>2. asked' \div PerMilli = millis BY <1>1, WholeMillis DEF Make
    <1>3. policy \in Seq(Seq(Measurements)) BY PolicyAssumption
    <1>. QED BY <1>1, <1>2, <1>3 DEF IInv, Make

LEMMA FailStep ==
    ASSUME NEW error \in {"InvalidConfig", "MalformedConfig"}, IInv, stage # "client", Fail(error)
    PROVE  IInv'
BY DEF IInv, Fail

LEMMA InvStep == IInv /\ [Next]_vars => IInv'
PROOF
    <1>. SUFFICES ASSUME IInv, [Next]_vars PROVE IInv' OBVIOUS
    <1>1. CASE Configure
      <2>1. PICK policy \in Policies :
                \/ New(policy)
                \/ \E json \in JsonFiles, millis \in 0 .. MaxMillis :
                    FromJson(json, policy, millis) \/ Deserialize(json, policy, millis)
        BY <1>1 DEF Configure
      <2>2. stage = "start" BY <1>1 DEF Configure
      <2>3. DefaultAge \in 0 .. MaxMillis BY PolicyAssumption
      <2>4. CASE New(policy) BY <2>2, <2>3, <2>4, MakeStep, FailStep DEF New
      <2>5. ASSUME NEW json \in JsonFiles, NEW millis \in 0 .. MaxMillis,
                   FromJson(json, policy, millis) \/ Deserialize(json, policy, millis)
            PROVE  IInv'
        <3>1. AgeField(json, millis) \in 0 .. MaxMillis BY <2>3 DEF AgeField
        <3>2. \/ Fail("MalformedConfig") \/ Fail("InvalidConfig") \/ Make(policy, AgeField(json, millis))
          BY <2>5, Zenon DEF FromJson, Deserialize
        <3>. QED BY <2>2, <3>1, <3>2, MakeStep, FailStep
      <2>. QED BY <2>1, <2>4, <2>5
    <1>2. ASSUME NEW duration \in 0 .. MaxDuration, WithMaxAttestationAge(duration) PROVE IInv'
      <2>1. config'.maxAge = Millis(duration) /\ config'.policy = config.policy
        <3>. DEFINE M == Millis(duration)
        <3>. HIDE DEF M
        <3>1. config' = [config EXCEPT !.maxAge = M] BY <1>2 DEF WithMaxAttestationAge, M
        <3>. QED BY <3>1 DEF M
      <2>. QED BY <1>2, <2>1 DEF IInv, WithMaxAttestationAge, Millis
    <1>3. CASE NewClient
      <2>1. CASE Usable(config.policy) BY <1>3, <2>1 DEF IInv, NewClient
      <2>2. CASE ~Usable(config.policy) BY <1>3, <2>2, FailStep DEF NewClient
      <2>. QED BY <2>1, <2>2
    <1>4. CASE Check
      <2>1. PICK doc : VerifyDocument(doc) /\ stage = "client" BY <1>4 DEF Check
      <2>. QED BY <2>1 DEF IInv, VerifyDocument, VerifierOf, Verdict, Matches
    <1>5. CASE UNCHANGED vars BY <1>5 DEF IInv, vars, Verdict, Matches
    <1>. QED BY <1>1, <1>2, <1>3, <1>4, <1>5 DEF Next

LEMMA InvAlways == Spec => []IInv
BY InvInit, InvStep, PTL DEF Spec

\* A client that answered has a usable policy, each list of which its verifier
\* holds as a PcrConfig.
LEMMA AnswersComeFromThePolicy ==
    ASSUME IInv, answer \in {"Accepted", "NotMeasured", "TooOld"}
    PROVE  /\ Usable(config.policy)
           /\ \A list \in Entries(config.policy) : list \in Seq(Measurements) /\ Unique(list) /\ PinsImage(list)
           /\ verifier.pcrs = {PcrConfigOf(list) : list \in Entries(config.policy)}
           /\ verifier.maxAge = config.maxAge
           /\ answer = Verdict(verifier, document)
           /\ stage = "client"
PROOF
    <1>1. stage = "client" /\ Usable(config.policy) /\ verifier = VerifierOf(config) BY DEF IInv
    <1>2. config.policy \in Seq(Seq(Measurements)) BY <1>1 DEF IInv
    <1>3. \A list \in Entries(config.policy) : list \in Seq(Measurements) BY <1>2 DEF Entries
    <1>. QED BY <1>1, <1>3 DEF IInv, Usable, VerifierOf

-----------------------------------------------------------------------------
\* For every policy, however its configuration came to be, an accepted document
\* carries every measurement of one listed configuration (Config::verifier).
THEOREM DocumentsMatchInFull == Spec => []AcceptedInFull
PROOF
    <1>1. IInv => AcceptedInFull
      <2>. SUFFICES ASSUME IInv, answer = "Accepted"
                    PROVE  \E list \in Entries(config.policy) :
                               \A pcr \in Entries(list) : document.pcrs[pcr.index] = pcr.value
        BY DEF AcceptedInFull
      <2>1. Matches(verifier, document) BY AnswersComeFromThePolicy DEF Verdict
      <2>2. PICK list \in Entries(config.policy) :
                \A n \in DOMAIN PcrConfigOf(list) : document.pcrs[n] = PcrConfigOf(list)[n]
        BY <2>1, AnswersComeFromThePolicy DEF Matches
      <2>3. list \in Seq(Measurements) /\ Unique(list) BY AnswersComeFromThePolicy
      <2>. QED BY <2>2, <2>3, NothingIsDropped
    <1>. QED BY <1>1, InvAlways, PTL

\* For every policy and every way to a client, debug enclaves are refused
\* (Config::verifier, FaceVerifierClient::new).
THEOREM DebugIsRefused == Spec => []DebugNeverAccepted
PROOF
    <1>1. IInv => DebugNeverAccepted
      <2>. SUFFICES ASSUME IInv, answer = "Accepted" PROVE \E n \in Indices : document.pcrs[n] # Zero
        BY DEF DebugNeverAccepted
      <2>1. Matches(verifier, document) BY AnswersComeFromThePolicy DEF Verdict
      <2>2. PICK list \in Entries(config.policy) :
                \A n \in DOMAIN PcrConfigOf(list) : document.pcrs[n] = PcrConfigOf(list)[n]
        BY <2>1, AnswersComeFromThePolicy DEF Matches
      <2>3. list \in Seq(Measurements) /\ Unique(list) /\ PinsImage(list) BY AnswersComeFromThePolicy
      <2>4. PICK pcr \in Entries(list) : pcr.index = 0 /\ pcr.value # Zero BY <2>3 DEF PinsImage, Entries
      <2>5. document.pcrs[0] = pcr.value BY <2>2, <2>3, <2>4, NothingIsDropped
      <2>. QED BY <2>4, <2>5, PolicyAssumption
    <1>. QED BY <1>1, InvAlways, PTL

\* For every policy, an enclave that a listed configuration describes is refused
\* only for its document's age (Config::verifier, with_max_attestation_age).
THEOREM OnlyDueRefusals == Spec => []RefusalsAreDue
PROOF
    <1>1. IInv => RefusalsAreDue
      <2>. SUFFICES ASSUME IInv PROVE RefusalsAreDue OBVIOUS
      <2>1. ASSUME answer = "NotMeasured", NEW list \in Entries(config.policy)
            PROVE  \E pcr \in Entries(list) : document.pcrs[pcr.index] # pcr.value
        <3>1. ~Matches(verifier, document) BY <2>1, AnswersComeFromThePolicy DEF Verdict
        <3>2. PcrConfigOf(list) \in verifier.pcrs BY <2>1, AnswersComeFromThePolicy
        <3>3. PICK n \in DOMAIN PcrConfigOf(list) : document.pcrs[n] # PcrConfigOf(list)[n]
          BY <3>1, <3>2 DEF Matches
        <3>4. list \in Seq(Measurements) /\ Unique(list) BY <2>1, AnswersComeFromThePolicy
        <3>5. PICK pcr \in Entries(list) : pcr.index = n /\ PcrConfigOf(list)[n] = pcr.value
          BY <3>3, <3>4, NothingIsAdded
        <3>. QED BY <3>3, <3>5
      <2>2. ASSUME answer = "TooOld" PROVE document.age > asked \div PerMilli \/ document.age > MaxMillis
        <3>1. document.age > config.maxAge BY <2>2, AnswersComeFromThePolicy DEF Verdict
        <3>2. stage = "client" BY <2>2, AnswersComeFromThePolicy
        <3>. QED BY <3>1, <3>2 DEF IInv
      <2>. QED BY <2>1, <2>2 DEF RefusalsAreDue
    <1>. QED BY <1>1, InvAlways, PTL
=============================================================================
