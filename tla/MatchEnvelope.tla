---------------------------- MODULE MatchEnvelope ----------------------------
(***************************************************************************)
(* The fixed-size plaintext of a sealed match response: a two byte length, *)
(* the result in CBOR, and zeros up to the envelope's size.  The enclave   *)
(* writes it, the client reads it, possibly from an enclave of another     *)
(* build, whose envelopes this code did not write.                         *)
(*                                                                         *)
(* A result is the byte string that encodes it.                            *)
(*                                                                         *)
(*   sources  verifier/sealed-types/src/messages.rs                        *)
(***************************************************************************)
EXTENDS Integers, Sequences

CONSTANTS
    Base,         \* values of a byte (256)
    EnvelopeLen,  \* MATCH_RESULT_ENVELOPE_LEN
    Results       \* the encodings of match results

LengthLen == 2
Byte == 0 .. Base - 1

\* What comes after an encoding cannot change where it ends: no encoding is a
\* proper prefix of another (CBOR items are self-delimiting).
StartsWith(bytes, encoded) ==
    Len(encoded) <= Len(bytes) /\ \A i \in 1 .. Len(encoded) : bytes[i] = encoded[i]

ASSUME EnvelopeAssumption ==
    /\ Base \in Nat /\ Base > 1
    /\ EnvelopeLen \in Nat /\ EnvelopeLen > LengthLen
    /\ Results \subseteq Seq(Byte)
    /\ <<>> \notin Results
    /\ \A r, s \in Results : StartsWith(r, s) => r = s

VARIABLES
    stage,    \* "encode", "refused", "arrived", "read" or "malformed"
    sent,     \* the result the enclave seals
    arrived,  \* the plaintext the client opens
    received  \* the result the client reads from it

vars == <<stage, sent, arrived, received>>

-----------------------------------------------------------------------------
\* Mutant of Fits: the length is narrowed to two bytes before it is compared.
FitsOnceNarrowed(encoded) == Len(encoded) % (Base * Base) <= EnvelopeLen - LengthLen

\* The length has a two byte form, and length and result fit the envelope.
Fits(encoded) ==
    Len(encoded) < Base * Base /\ Len(encoded) <= EnvelopeLen - LengthLen

\* Mutant of ToPadded: the envelope ends with the result.
ToUnpadded(encoded) ==
    <<Len(encoded) \div Base, Len(encoded) % Base>> \o encoded

\* A vector of zeros into which the length, high byte first, and the result are
\* copied.
ToPadded(encoded) ==
    [i \in 1 .. EnvelopeLen |->
        CASE i = 1 -> (Len(encoded) \div Base) % Base
          [] i = 2 -> Len(encoded) % Base
          [] i \in LengthLen + 1 .. LengthLen + Len(encoded) -> encoded[i - LengthLen]
          [] OTHER -> 0]

\* What the first two bytes say, and the bytes they say the result takes.
LengthOf(bytes) == bytes[1] * Base + bytes[2]
BodyOf(bytes) == SubSeq(bytes, LengthLen + 1, LengthLen + LengthOf(bytes))

\* Mutant of WellFramed: the padding is not looked at.
WellFramedUpToLength(bytes) ==
    Len(bytes) = EnvelopeLen /\ LengthLen + LengthOf(bytes) <= Len(bytes)

\* The right size, a length within it, and nothing but zeros after the result.
WellFramed(bytes) ==
    /\ Len(bytes) = EnvelopeLen
    /\ LengthLen + LengthOf(bytes) <= Len(bytes)
    /\ \A i \in LengthLen + LengthOf(bytes) + 1 .. Len(bytes) : bytes[i] = 0

\* Reading CBOR takes the one item the bytes start with and ignores the rest.
Decodes(body) == \E r \in Results : StartsWith(body, r)
FromCbor(body) == CHOOSE r \in Results : StartsWith(body, r)

-----------------------------------------------------------------------------
Init ==
    /\ stage = "encode"
    /\ sent \in Results
    /\ arrived = <<>>
    /\ received = <<>>

\* to_padded_cbor; the channel then carries the envelope as it is.
Encode ==
    /\ stage = "encode"
    /\ Fits(sent)
    /\ arrived' = ToPadded(sent)
    /\ stage' = "arrived"
    /\ UNCHANGED <<sent, received>>

\* ResponseTooLarge.
Refuse ==
    /\ stage = "encode"
    /\ ~Fits(sent)
    /\ stage' = "refused"
    /\ UNCHANGED <<sent, arrived, received>>

\* from_padded_cbor.
Read ==
    /\ stage = "arrived"
    /\ WellFramed(arrived)
    /\ Decodes(BodyOf(arrived))
    /\ received' = FromCbor(BodyOf(arrived))
    /\ stage' = "read"
    /\ UNCHANGED <<sent, arrived>>

RefuseToRead ==
    /\ stage = "arrived"
    /\ WellFramed(arrived) => ~Decodes(BodyOf(arrived))
    /\ stage' = "malformed"
    /\ UNCHANGED <<sent, arrived, received>>

\* The client reads a plaintext of an enclave of another build.
Foreign(bytes) ==
    /\ stage = "encode"
    /\ arrived' = bytes
    /\ stage' = "arrived"
    /\ sent' = <<>>
    /\ UNCHANGED received

\* Nothing follows.
Done == stage \in {"refused", "read", "malformed"} /\ UNCHANGED vars

Next == Encode \/ Refuse \/ Read \/ RefuseToRead \/ Done

Spec == Init /\ [][Next]_vars

\* With envelopes of other builds among those that arrive.
ForeignPlaintexts == [1 .. EnvelopeLen -> Byte] \cup {<<>>, <<0>>} \cup [1 .. EnvelopeLen + 1 -> {0}]
OpenNext == Next \/ \E bytes \in ForeignPlaintexts : Foreign(bytes)
OpenSpec == Init /\ [][OpenNext]_vars

-----------------------------------------------------------------------------
\* A result is read as it was sent, and only one too long for the envelope is
\* refused: neither the width of the length nor the limit cuts a result short,
\* and none becomes another (messages.rs, to_padded_cbor and from_padded_cbor).
ResultsSurvive ==
    sent # <<>> =>
        /\ stage = "refused" => Len(sent) > EnvelopeLen - LengthLen \/ Len(sent) >= Base * Base
        /\ stage = "read" => received = sent
        /\ stage # "malformed"

\* Every response has the same size, whatever the result: its ciphertext tells
\* the host nothing (messages.rs, "Fixed plaintext size of every sealed match
\* response").
SameSize == sent # <<>> /\ stage \notin {"encode", "refused"} => Len(arrived) = EnvelopeLen

\* The padding of an accepted response, all that follows its announced length, is
\* zero, whoever wrote it.  The result lies within that length; in an envelope of
\* this build it is all of it, so that nothing at all travels beside the result.
\* In one of another build bytes within the announced length, after the item that
\* ciborium decodes, are ignored and may be anything.
NothingInThePadding ==
    stage = "read" =>
        /\ \A i \in 1 .. Len(arrived) : i > LengthLen + LengthOf(arrived) => arrived[i] = 0
        /\ Len(received) <= LengthOf(arrived)
        /\ sent # <<>> => Len(received) = LengthOf(arrived)
=============================================================================
