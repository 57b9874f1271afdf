--------------------------- MODULE ServedDocument ---------------------------
(***************************************************************************)
(* What one enclave boot promises the readers of its attestation documents *)
(* (EnclaveState::encryption_key_attestation and signing_key_attestation): *)
(* from the first request on there is a document for each key, it is never *)
(* older than Bound, it is only ever replaced by a younger one, and once   *)
(* the enclave has stopped it does not serve again.  How the documents are *)
(* renewed is not part of the promise; see AttestationCache.               *)
(***************************************************************************)
EXTENDS Integers

CONSTANTS
    Keys,   \* the attested boot keys
    Bound   \* the oldest document a reader may be handed

VARIABLES
    status, \* "booting", "serving" or "stopped"
    age     \* per key: age of the document a reader gets, 0 when there is none

servedVars == <<status, age>>

NoAge == [k \in Keys |-> 0]

Init == status = "booting" /\ age = NoAge

\* The first request can be served: every key has a fresh enough document.
Begin ==
    /\ status = "booting"
    /\ status' = "serving"
    /\ age' \in [Keys -> 0 .. Bound]

\* The document of one key is replaced by a younger one.
Renew(k) ==
    /\ status = "serving"
    /\ \E young \in 0 .. (age[k] - 1) : age' = [age EXCEPT ![k] = young]
    /\ UNCHANGED status

\* Time passes, but never beyond the oldest age that may be served.
Pass ==
    /\ status = "serving"
    /\ age' = [k \in Keys |-> age[k] + 1]
    /\ \A k \in Keys : age'[k] <= Bound
    /\ UNCHANGED status

Stop ==
    /\ status \in {"booting", "serving"}
    /\ status' = "stopped"
    /\ age' = NoAge

Next == Begin \/ (\E k \in Keys : Renew(k)) \/ Pass \/ Stop

Spec == Init /\ [][Next]_servedVars
=============================================================================
