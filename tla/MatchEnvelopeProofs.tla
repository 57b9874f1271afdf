------------------------- MODULE MatchEnvelopeProofs -------------------------
(***************************************************************************)
(* Theorems about MatchEnvelope, for every byte width, envelope size and   *)
(* set of self-delimiting encodings.                                       *)
(***************************************************************************)
EXTENDS MatchEnvelope, TLAPS

\* Division and remainder put a length back together.
LEMMA LengthComesBack ==
    ASSUME NEW n \in Nat, n < Base * Base
    PROVE  /\ n \div Base \in Byte
           /\ n % Base \in Byte
           /\ ((n \div Base) * Base) + (n % Base) = n
           /\ (n \div Base) % Base = n \div Base
PROOF
    <1>. DEFINE q == n \div Base
                r == n % Base
    <1>1. Base \in Nat /\ Base > 1 BY EnvelopeAssumption
    <1>2. q \in Int /\ r \in 0 .. Base - 1 /\ n = Base * q + r BY <1>1, SMT
    <1>3. q >= 0 BY <1>1, <1>2, SMT
    <1>4. q < Base BY <1>1, <1>2, <1>3, SMT
    <1>5. q % Base = q BY <1>1, <1>2, <1>3, <1>4, SMT
    <1>. QED BY <1>1, <1>2, <1>3, <1>4, <1>5 DEF Byte

\* An envelope has the envelope's size, announces its result's length, and
\* carries the result and then zeros.
LEMMA EnvelopeShape ==
    ASSUME NEW r \in Results, Fits(r)
    PROVE  /\ ToPadded(r) \in Seq(Byte)
           /\ Len(ToPadded(r)) = EnvelopeLen
           /\ LengthOf(ToPadded(r)) = Len(r)
           /\ WellFramed(ToPadded(r))
           /\ BodyOf(ToPadded(r)) = r
PROOF
    <1>. DEFINE e == ToPadded(r)
    <1>1. r \in Seq(Byte) /\ Len(r) \in Nat BY EnvelopeAssumption
    <1>2. Base \in Nat /\ Base > 1 /\ EnvelopeLen \in Nat /\ EnvelopeLen > 2
      BY EnvelopeAssumption DEF LengthLen
    <1>3. Len(r) < Base * Base /\ Len(r) <= EnvelopeLen - 2 BY DEF Fits, LengthLen
    <1>4. e[1] = Len(r) \div Base /\ e[2] = Len(r) % Base
      BY <1>1, <1>2, <1>3, LengthComesBack DEF ToPadded, LengthLen
    <1>5. e[1] \in Byte /\ e[2] \in Byte
      BY <1>1, <1>3, <1>4, LengthComesBack
    <1>6. \A i \in 3 .. 2 + Len(r) : e[i] = r[i - 2]
      BY <1>1, <1>2, <1>3 DEF ToPadded, LengthLen
    <1>7. \A i \in 3 + Len(r) .. EnvelopeLen : e[i] = 0
      BY <1>1, <1>2, <1>3 DEF ToPadded, LengthLen
    <1>8. \A i \in 1 .. EnvelopeLen : e[i] \in Byte
      <2>. SUFFICES ASSUME NEW i \in 1 .. EnvelopeLen PROVE e[i] \in Byte OBVIOUS
      <2>1. CASE i \in {1, 2} BY <1>5, <2>1
      <2>2. CASE i \in 3 .. 2 + Len(r)
        <3>1. i - 2 \in 1 .. Len(r) BY <1>1, <2>2
        <3>2. r[i - 2] \in Byte BY <1>1, <3>1
        <3>. QED BY <1>6, <2>2, <3>2
      <2>3. CASE i \in 3 + Len(r) .. EnvelopeLen BY <1>2, <1>7, <2>3 DEF Byte
      <2>. QED BY <1>1, <1>2, <2>1, <2>2, <2>3
    <1>9. e = [i \in 1 .. EnvelopeLen |-> e[i]] BY DEF ToPadded
    <1>10. e \in Seq(Byte) /\ Len(e) = EnvelopeLen
      <2>1. e \in [1 .. EnvelopeLen -> Byte] BY <1>8, <1>9
      <2>. QED BY <1>2, <2>1
    <1>11. LengthOf(e) = Len(r) BY <1>1, <1>3, <1>4, LengthComesBack DEF LengthOf
    <1>12. WellFramed(e)
      BY <1>1, <1>2, <1>3, <1>7, <1>10, <1>11 DEF WellFramed, LengthLen
    <1>13. BodyOf(e) = r
      <2>1. BodyOf(e) = SubSeq(e, 3, 2 + Len(r)) BY <1>11 DEF BodyOf, LengthLen
      <2>2. SubSeq(e, 3, 2 + Len(r)) = [i \in 1 .. Len(r) |-> e[i + 2]]
        BY <1>1, <1>2, <1>3, <1>10
      <2>3. [i \in 1 .. Len(r) |-> e[i + 2]] = [i \in 1 .. Len(r) |-> r[i]]
        BY <1>1, <1>6
      <2>4. r = [i \in 1 .. Len(r) |-> r[i]] BY <1>1
      <2>. QED BY <2>1, <2>2, <2>3, <2>4
    <1>. QED BY <1>10, <1>11, <1>12, <1>13

\* Reading an envelope gives the result it was made from, and no other.
LEMMA RoundTrip ==
    ASSUME NEW r \in Results, Fits(r)
    PROVE  /\ Decodes(BodyOf(ToPadded(r)))
           /\ FromCbor(BodyOf(ToPadded(r))) = r
PROOF
    <1>1. BodyOf(ToPadded(r)) = r BY EnvelopeShape
    <1>2. r \in Seq(Byte) BY EnvelopeAssumption
    <1>3. StartsWith(r, r) BY <1>2 DEF StartsWith
    <1>4. \A s \in Results : StartsWith(r, s) => s = r BY EnvelopeAssumption
    <1>. QED BY <1>1, <1>3, <1>4 DEF Decodes, FromCbor

-----------------------------------------------------------------------------
\* What every stage knows of the result and of the bytes that arrived.
IInv ==
    /\ stage \in {"encode", "refused", "arrived", "read", "malformed"}
    /\ sent \in Results \cup {<<>>}
    /\ arrived \in Seq(Byte)
    /\ stage = "encode" => sent \in Results
    /\ stage = "refused" => ~Fits(sent)
    /\ stage \in {"arrived", "read", "malformed"} /\ sent # <<>> => Fits(sent) /\ arrived = ToPadded(sent)
    /\ stage = "malformed" => sent = <<>>
    /\ stage = "read" =>
        /\ WellFramed(arrived)
        /\ Decodes(BodyOf(arrived))
        /\ received = FromCbor(BodyOf(arrived))

LEMMA InvInit == Init => IInv
BY EnvelopeAssumption DEF Init, IInv

LEMMA InvStep == IInv /\ [OpenNext]_vars => IInv'
PROOF
    <1>. SUFFICES ASSUME IInv, [OpenNext]_vars PROVE IInv' OBVIOUS
    <1>. USE EnvelopeAssumption
    <1>1. CASE Encode
      <2>1. sent \in Results /\ Fits(sent) BY <1>1 DEF IInv, Encode
      <2>2. ToPadded(sent) \in Seq(Byte) BY <2>1, EnvelopeShape
      <2>. QED BY <1>1, <2>1, <2>2 DEF IInv, Encode
    <1>2. CASE Refuse BY <1>2 DEF IInv, Refuse
    <1>3. CASE Read BY <1>3 DEF IInv, Read
    <1>4. CASE RefuseToRead
      <2>1. sent = <<>>
        <3>. SUFFICES ASSUME sent # <<>> PROVE FALSE OBVIOUS
        <3>1. sent \in Results /\ Fits(sent) /\ arrived = ToPadded(sent)
          BY <1>4 DEF IInv, RefuseToRead
        <3>2. WellFramed(arrived) BY <3>1, EnvelopeShape
        <3>3. Decodes(BodyOf(arrived)) BY <3>1, RoundTrip
        <3>. QED BY <1>4, <3>2, <3>3 DEF RefuseToRead
      <2>. QED BY <1>4, <2>1 DEF IInv, RefuseToRead
    <1>5. CASE \E bytes \in ForeignPlaintexts : Foreign(bytes)
      <2>1. PICK bytes \in ForeignPlaintexts : Foreign(bytes) BY <1>5
      <2>2. 0 \in Byte BY DEF Byte
      <2>3. bytes \in Seq(Byte)
        <3>1. CASE bytes \in [1 .. EnvelopeLen -> Byte] BY <3>1
        <3>2. CASE bytes = <<>> BY <3>2
        <3>3. CASE bytes = <<0>>
          <4>1. Byte # {} /\ 0 \in Byte BY <2>2
          <4>2. <<0>> \in Seq(Byte) BY <4>1
          <4>. QED BY <3>3, <4>2
        <3>4. CASE bytes \in [1 .. EnvelopeLen + 1 -> {0}]
          <4>1. bytes \in [1 .. EnvelopeLen + 1 -> Byte] BY <2>2, <3>4
          <4>. QED BY <4>1
        <3>. QED BY <2>1, <3>1, <3>2, <3>3, <3>4 DEF ForeignPlaintexts
      <2>. QED BY <2>1, <2>3 DEF IInv, Foreign
    <1>6. CASE Done BY <1>6 DEF IInv, Done, vars
    <1>7. CASE UNCHANGED vars BY <1>7 DEF IInv, vars
    <1>. QED BY <1>1, <1>2, <1>3, <1>4, <1>5, <1>6, <1>7 DEF OpenNext, Next

LEMMA InvAlways == OpenSpec => []IInv
BY InvInit, InvStep, PTL DEF OpenSpec

-----------------------------------------------------------------------------
\* For every byte width and envelope size, a result is read as it was sent, and
\* only one that does not fit is refused (to_padded_cbor, from_padded_cbor).
THEOREM EveryResultSurvives == OpenSpec => []ResultsSurvive
PROOF
    <1>1. IInv => ResultsSurvive
      <2>. SUFFICES ASSUME IInv, sent # <<>>
                    PROVE  /\ stage = "refused" => Len(sent) > EnvelopeLen - LengthLen \/ Len(sent) >= Base * Base
                           /\ stage = "read" => received = sent
                           /\ stage # "malformed"
        BY DEF ResultsSurvive
      <2>1. sent \in Results /\ Len(sent) \in Nat BY EnvelopeAssumption DEF IInv
      <2>2. ASSUME stage = "refused" PROVE Len(sent) > EnvelopeLen - LengthLen \/ Len(sent) >= Base * Base
        <3>1. Base * Base \in Nat /\ EnvelopeLen - LengthLen \in Int BY EnvelopeAssumption DEF LengthLen
        <3>2. ~Fits(sent) BY <2>2 DEF IInv
        <3>. QED BY <2>1, <3>1, <3>2 DEF Fits
      <2>3. ASSUME stage = "read" PROVE received = sent
        <3>1. Fits(sent) /\ arrived = ToPadded(sent) BY <2>3 DEF IInv
        <3>. QED BY <2>1, <2>3, <3>1, RoundTrip DEF IInv
      <2>4. stage # "malformed" BY DEF IInv
      <2>. QED BY <2>2, <2>3, <2>4
    <1>. QED BY <1>1, InvAlways, PTL

\* For every byte width and envelope size, the enclave's responses all have the
\* one size (MATCH_RESULT_ENVELOPE_LEN).
THEOREM EveryResponseHasOneSize == OpenSpec => []SameSize
PROOF
    <1>1. IInv => SameSize
      <2>. SUFFICES ASSUME IInv, sent # <<>>, stage \notin {"encode", "refused"}
                    PROVE  Len(arrived) = EnvelopeLen
        BY DEF SameSize
      <2>1. sent \in Results /\ Fits(sent) /\ arrived = ToPadded(sent) BY DEF IInv
      <2>. QED BY <2>1, EnvelopeShape
    <1>. QED BY <1>1, InvAlways, PTL

\* For every byte width and envelope size, also of envelopes no code of this
\* repository wrote: what follows the announced length of an accepted response is
\* zero, and the result lies within that length.  In an envelope of this build the
\* two end together; in another one the bytes between them are not looked at
\* (from_padded_cbor, whose decoder ignores what follows the item).
THEOREM PaddingCarriesNothing == OpenSpec => []NothingInThePadding
PROOF
    <1>1. IInv => NothingInThePadding
      <2>. SUFFICES ASSUME IInv, stage = "read"
                    PROVE  /\ \A i \in 1 .. Len(arrived) : i > LengthLen + LengthOf(arrived) => arrived[i] = 0
                           /\ Len(received) <= LengthOf(arrived)
                           /\ sent # <<>> => Len(received) = LengthOf(arrived)
        BY DEF NothingInThePadding
      <2>1. WellFramed(arrived) /\ Decodes(BodyOf(arrived)) /\ received = FromCbor(BodyOf(arrived))
        BY DEF IInv
      <2>2. arrived \in Seq(Byte) /\ Len(arrived) = EnvelopeLen /\ EnvelopeLen > 2
        BY <2>1, EnvelopeAssumption DEF IInv, WellFramed, LengthLen
      <2>3. arrived[1] \in Byte /\ arrived[2] \in Byte BY <2>2, EnvelopeAssumption
      <2>4. LengthOf(arrived) \in Nat
        BY <2>3, EnvelopeAssumption, SMT DEF LengthOf, Byte
      <2>5. Len(BodyOf(arrived)) = LengthOf(arrived)
        BY <2>1, <2>2, <2>4 DEF BodyOf, LengthLen, WellFramed
      <2>6. received \in Results /\ StartsWith(BodyOf(arrived), received)
        BY <2>1 DEF Decodes, FromCbor
      <2>7. Len(received) \in Nat /\ Len(received) <= LengthOf(arrived)
        BY <2>5, <2>6, EnvelopeAssumption DEF StartsWith
      <2>8. \A i \in 1 .. Len(arrived) : i > LengthLen + LengthOf(arrived) => arrived[i] = 0
        BY <2>1, <2>2, <2>4 DEF WellFramed, LengthLen
      <2>9. ASSUME sent # <<>> PROVE Len(received) = LengthOf(arrived)
        <3>1. sent \in Results /\ Fits(sent) /\ arrived = ToPadded(sent)
          BY <2>9 DEF IInv
        <3>2. LengthOf(arrived) = Len(sent) BY <3>1, EnvelopeShape
        <3>3. received = sent BY <2>1, <3>1, RoundTrip
        <3>. QED BY <3>2, <3>3
      <2>. QED BY <2>7, <2>8, <2>9
    <1>. QED BY <1>1, InvAlways, PTL
=============================================================================
