---------------------------- MODULE ClientPolicy ----------------------------
(***************************************************************************)
(* The client's configuration: how it is made, when the measurement policy *)
(* it lists is usable, the verifier a client is built with, and which      *)
(* attestation documents that verifier accepts.                            *)
(*                                                                         *)
(* Pontifex checks a document; it is external and modelled by what         *)
(* config.rs gives it: a document matches one configuration in full and is *)
(* no older than the bound.                                                *)
(*                                                                         *)
(*   sources  verifier/client/src/config.rs, client.rs, error.rs           *)
(***************************************************************************)
EXTENDS Integers, Sequences

CONSTANTS
    Images,      \* 48 byte measurements that are not all zero
    Zero,        \* 48 zero bytes: what a debug enclave reports for every PCR
    WrongSize,   \* a value that is not 48 bytes long
    Indices,     \* PCR numbers
    Policies,    \* the lists of lists of measurements a configuration may hold
    MaxMillis,   \* the largest bound on an age (u64::MAX milliseconds)
    DefaultAge,  \* default_max_attestation_age_millis
    PerMilli     \* the parts a millisecond of a Duration has

Measurements == [index : Indices, value : Images \cup {Zero, WrongSize}]

ASSUME PolicyAssumption ==
    /\ Zero \notin Images /\ WrongSize \notin Images /\ Zero # WrongSize
    /\ 0 \in Indices
    /\ Policies \subseteq Seq(Seq(Measurements))
    /\ MaxMillis \in Nat /\ DefaultAge \in 0 .. MaxMillis /\ PerMilli \in Nat \ {0}

VARIABLES
    stage,     \* "start", "config", "client" or "error"
    config,    \* the Config: its policy and its bound on a document's age
    asked,     \* history: the bound the caller asked for, in parts
    verifier,  \* what the client's Verifier was given
    document,  \* the document checked last
    answer     \* an error, or what the check said

vars == <<stage, config, asked, verifier, document, answer>>

-----------------------------------------------------------------------------
Entries(list) == {list[i] : i \in DOMAIN list}

\* Mutant of Unique: an index may come twice.
Repeatable(list) == TRUE

Unique(list) == \A i, j \in DOMAIN list : list[i].index = list[j].index => i = j

PinsImage(list) == \E i \in DOMAIN list : list[i].index = 0 /\ list[i].value # Zero

\* Config::verifier: each list pins a nonzero PCR0, at full length, once.
Usable(policy) ==
    /\ policy # <<>>
    /\ \A list \in Entries(policy) :
        /\ \A pcr \in Entries(list) : pcr.value # WrongSize
        /\ Unique(list)
        /\ PinsImage(list)

\* The PcrConfig of a list: its first PCR0, and each other index with the value
\* it was given last.
PcrConfigOf(list) ==
    [n \in {pcr.index : pcr \in Entries(list)} |->
        LET at == {i \in DOMAIN list : list[i].index = n}
            which == CHOOSE i \in at : \A j \in at : IF n = 0 THEN i <= j ELSE j <= i
        IN  list[which].value]

VerifierOf(c) == [pcrs |-> {PcrConfigOf(list) : list \in Entries(c.policy)}, maxAge |-> c.maxAge]

\* Pontifex: the measurements of one configuration, and the document's age.
Matches(v, doc) == \E pcrs \in v.pcrs : \A n \in DOMAIN pcrs : doc.pcrs[n] = pcrs[n]
Verdict(v, doc) == CASE ~Matches(v, doc) -> "NotMeasured"
                     [] Matches(v, doc) /\ doc.age > v.maxAge -> "TooOld"
                     [] OTHER -> "Accepted"

-----------------------------------------------------------------------------
NoConfig == [policy |-> <<>>, maxAge |-> 0]
NoVerifier == [pcrs |-> {}, maxAge |-> 0]
NoDocument == [pcrs |-> [n \in Indices |-> Zero], age |-> 0]

Init ==
    /\ stage = "start" /\ config = NoConfig /\ asked = 0
    /\ verifier = NoVerifier /\ document = NoDocument /\ answer = "none"

Fail(error) ==
    /\ stage' = "error"
    /\ answer' = error
    /\ UNCHANGED <<config, asked, verifier, document>>

Make(policy, millis) ==
    /\ stage' = "config"
    /\ config' = [policy |-> policy, maxAge |-> millis]
    /\ asked' = millis * PerMilli
    /\ UNCHANGED <<verifier, document, answer>>

\* Config::new takes a policy and no bound.
New(policy) ==
    IF Usable(policy) THEN Make(policy, DefaultAge) ELSE Fail("InvalidConfig")

Required == {"host_url", "allowed_pcr_configs"}
Optional == {"max_attestation_age_millis", "connect_timeout_millis", "request_timeout_millis"}

\* serde: the required fields, no unknown ones, and hex in the measurements.
Parses(json) == json.hex /\ Required \subseteq json.fields /\ json.fields \subseteq Required \cup Optional

AgeField(json, millis) == IF "max_attestation_age_millis" \in json.fields THEN millis ELSE DefaultAge

\* Config::from_json parses and then validates.
FromJson(json, policy, millis) ==
    CASE ~Parses(json) -> Fail("MalformedConfig")
      [] Parses(json) /\ ~Usable(policy) -> Fail("InvalidConfig")
      [] OTHER -> Make(policy, AgeField(json, millis))

\* Config is Deserialize: a caller may parse one without validating it.
Deserialize(json, policy, millis) ==
    IF Parses(json) THEN Make(policy, AgeField(json, millis)) ELSE Fail("MalformedConfig")

\* Mutant of Millis: the milliseconds are narrowed instead of capped.
MillisWrapped(duration) == (duration \div PerMilli) % (MaxMillis + 1)

\* Whole milliseconds, capped at what the field can hold.
Millis(duration) ==
    LET whole == duration \div PerMilli IN IF whole <= MaxMillis THEN whole ELSE MaxMillis

WithMaxAttestationAge(duration) ==
    /\ stage = "config"
    /\ config' = [config EXCEPT !.maxAge = Millis(duration)]
    /\ asked' = duration
    /\ UNCHANGED <<stage, verifier, document, answer>>

\* Mutant of NewClient: the configuration counts as validated already.
NewClientUnchecked ==
    /\ stage = "config"
    /\ stage' = "client"
    /\ verifier' = VerifierOf(config)
    /\ UNCHANGED <<config, asked, document, answer>>

\* FaceVerifierClient::new builds the verifier, which validates the policy again.
NewClient ==
    /\ stage = "config"
    /\ IF Usable(config.policy)
       THEN /\ stage' = "client"
            /\ verifier' = VerifierOf(config)
            /\ UNCHANGED <<config, asked, document, answer>>
       ELSE Fail("InvalidConfig")

\* An assignment's document, or the one a statement carries.
VerifyDocument(doc) ==
    /\ document' = doc
    /\ answer' = Verdict(verifier, doc)
    /\ UNCHANGED <<stage, config, asked, verifier>>

-----------------------------------------------------------------------------
\* With or without the policy, a bound and the README's allow_debug_measurements.
JsonFiles ==
    [fields : {Required, {"host_url"}, Required \cup {"max_attestation_age_millis"},
               Required \cup {"max_attestation_age_millis", "allow_debug_measurements"}},
     hex : BOOLEAN]

\* Bound: durations and ages up to a little more than the field can hold.
MaxDuration == (MaxMillis + 2) * PerMilli

\* A Config comes from the constructor, from_json, or serde alone.
Configure ==
    /\ stage = "start"
    /\ \E policy \in Policies :
        \/ New(policy)
        \/ \E json \in JsonFiles, millis \in 0 .. MaxMillis :
            FromJson(json, policy, millis) \/ Deserialize(json, policy, millis)

Check ==
    /\ stage = "client"
    /\ \E pcrs \in [Indices -> Images \cup {Zero}], age \in 0 .. MaxMillis + 1 :
        VerifyDocument([pcrs |-> pcrs, age |-> age])

Next ==
    \/ Configure
    \/ \E duration \in 0 .. MaxDuration : WithMaxAttestationAge(duration)
    \/ NewClient
    \/ Check

Spec == Init /\ [][Next]_vars

-----------------------------------------------------------------------------
\* However the configuration came to be, a client accepts a document only if it
\* carries every measurement of one of the listed configurations ("matches any
\* one configuration in full", config.rs): none that was listed is dropped on
\* the way to the verifier, and one unusable list spoils the policy.
AcceptedInFull ==
    answer = "Accepted" =>
        \E list \in Entries(config.policy) : \A pcr \in Entries(list) : document.pcrs[pcr.index] = pcr.value

\* No client ever accepts an enclave in debug mode, whose PCRs are all zero, not
\* even one whose configuration was deserialized without validation.
DebugNeverAccepted ==
    answer = "Accepted" => \E n \in Indices : document.pcrs[n] # Zero

\* A rollout works: a document that carries one listed configuration in full is
\* refused only for its age, and then it is older than the caller's bound, in
\* whole milliseconds, or than any bound that can be written.
RefusalsAreDue ==
    /\ answer = "NotMeasured" =>
        \A list \in Entries(config.policy) : \E pcr \in Entries(list) : document.pcrs[pcr.index] # pcr.value
    /\ answer = "TooOld" => document.age > asked \div PerMilli \/ document.age > MaxMillis
=============================================================================
