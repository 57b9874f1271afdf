--------------------------- MODULE SealedOperation ---------------------------
(***************************************************************************)
(* What a client is promised of an operation, whatever pods, hosts and the *)
(* load balancer do: it seals to an enclave it trusts, only that enclave   *)
(* ever reads what it sealed, it seals again at most once, and never after *)
(* some enclave read it; and a result comes from the enclave that read it. *)
(***************************************************************************)
EXTENDS Integers

CONSTANTS Clients, Boots, NoBoot

VARIABLES
    phase,     \* per client: "idle", "asking" for an enclave or "sealed" to one
    attempts,  \* per client: enclaves asked for in this operation
    trusted,   \* per client: the boot it sealed to
    reader,    \* per client: the boot that read what it sealed
    outcome    \* per client: how its last operation ended

operationVars == <<phase, attempts, trusted, reader, outcome>>

Init ==
    /\ phase = [c \in Clients |-> "idle"]
    /\ attempts = [c \in Clients |-> 0]
    /\ trusted = [c \in Clients |-> NoBoot]
    /\ reader = [c \in Clients |-> NoBoot]
    /\ outcome = [c \in Clients |-> "none"]

Begin(c) ==
    /\ phase[c] = "idle"
    /\ phase' = [phase EXCEPT ![c] = "asking"]
    /\ attempts' = [attempts EXCEPT ![c] = 1]
    /\ outcome' = [outcome EXCEPT ![c] = "none"]
    /\ UNCHANGED <<trusted, reader>>

\* An operation with an enclave trusted earlier.
Resume(c, b) ==
    /\ phase[c] = "idle"
    /\ phase' = [phase EXCEPT ![c] = "sealed"]
    /\ attempts' = [attempts EXCEPT ![c] = 1]
    /\ trusted' = [trusted EXCEPT ![c] = b]
    /\ outcome' = [outcome EXCEPT ![c] = "none"]
    /\ UNCHANGED reader

Trust(c, b) ==
    /\ phase[c] = "asking"
    /\ phase' = [phase EXCEPT ![c] = "sealed"]
    /\ trusted' = [trusted EXCEPT ![c] = b]
    /\ UNCHANGED <<attempts, reader, outcome>>

\* Only the trusted boot, and only once.
Read(c) ==
    /\ phase[c] = "sealed"
    /\ reader[c] = NoBoot
    /\ reader' = [reader EXCEPT ![c] = trusted[c]]
    /\ UNCHANGED <<phase, attempts, trusted, outcome>>

\* The one retry, of something nobody read.
Again(c) ==
    /\ phase[c] = "sealed"
    /\ reader[c] = NoBoot
    /\ attempts[c] = 1
    /\ phase' = [phase EXCEPT ![c] = "asking"]
    /\ attempts' = [attempts EXCEPT ![c] = 2]
    /\ trusted' = [trusted EXCEPT ![c] = NoBoot]
    /\ UNCHANGED <<reader, outcome>>

End(c, how) ==
    /\ phase[c] # "idle"
    /\ how = "Result" => reader[c] \in Boots /\ reader[c] = trusted[c]
    /\ phase' = [phase EXCEPT ![c] = "idle"]
    /\ attempts' = [attempts EXCEPT ![c] = 0]
    /\ trusted' = [trusted EXCEPT ![c] = NoBoot]
    /\ reader' = [reader EXCEPT ![c] = NoBoot]
    /\ outcome' = [outcome EXCEPT ![c] = how]

Next == \E c \in Clients :
    \/ Begin(c) \/ Read(c) \/ Again(c)
    \/ \E b \in Boots : Trust(c, b) \/ Resume(c, b)
    \/ \E how \in {"Result", "Failed"} : End(c, how)

Spec == Init /\ [][Next]_operationVars
=============================================================================
