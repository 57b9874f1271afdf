----------------------- MODULE AttestationCacheProofs -----------------------
(***************************************************************************)
(* Theorems about AttestationCache, and about ClientFreshness, which       *)
(* composes it with its clients, for every choice of the durations that    *)
(* satisfies DurationAssumption and FreshnessAssumption.                   *)
(*                                                                         *)
(* The bound on served documents is not inductive: it says nothing of      *)
(* where a task stands in its loop.  IInv adds that: how far the age of a  *)
(* document can have come at each point of the loop, counted from the last *)
(* moment the code looked at it (start, success or failed refresh).        *)
(***************************************************************************)
EXTENDS ClientFreshness, TLAPS

\* The gates before any key is attested, and those before the tasks start.
EarlyGates == {"rng", "connect", "engine", "keys", "attestEncryption"}
Unstarted == EarlyGates \cup {"attestSigning"}

\* What each gate has established.  The first document ages while the second
\* key is attested, both age while the measurements are read.
BootInv ==
    /\ mainTimer <= MaxAttestTime
    /\ main \in EarlyGates => cached = {}
    /\ main \in Unstarted => \A k \in Keys : task[k] = "unstarted" /\ failures[k] = 0
    /\ main = "attestSigning" => cached = {"encryption"} /\ attestedAge["encryption"] <= mainTimer
    /\ main \in {"measurements", "serving"} => cached = Keys /\ \A k \in Keys : task[k] # "unstarted"
    /\ main = "measurements" => \A k \in Keys : attestedAge[k] <= MaxAttestTime + mainTimer

\* attested_at trails the NSM's stamp by at most one attest.
DocInv(k) ==
    k \in cached => attestedAge[k] <= docAge[k] /\ docAge[k] <= attestedAge[k] + MaxAttestTime

\* The age of k's document, by what its refresh task is doing.
TaskInv(k) ==
    /\ task[k] # "unstarted" => k \in cached
    /\ task[k] = "sleeping" =>
        /\ timer[k] <= MaxCachedAge
        /\ timer[k] <= attestedAge[k]
        /\ attestedAge[k] <= MaxServableAge - 1 + timer[k]
        /\ attestedAge[k] <= OutageSpan(failures[k]) + MaxAttestTime + timer[k]
    /\ task[k] = "attesting" =>
        /\ timer[k] <= MaxAttestTime
        /\ MaxCachedAge + timer[k] <= attestedAge[k]
        /\ attestedAge[k] <= MaxServableAge - 1 + MaxCachedAge + timer[k]
        /\ attestedAge[k] <= OutageSpan(failures[k]) + MaxAttestTime + MaxCachedAge + timer[k]
    /\ task[k] \in Finished => attestedAge[k] <= MaxServableAge - 1 + MaxCachedAge + MaxAttestTime
    /\ task[k] = "gaveUp" => OutageSpan(failures[k]) + MaxAttestTime >= MaxServableAge

IInv == TypeOK /\ BootInv /\ \A k \in Keys : DocInv(k) /\ TaskInv(k)

-----------------------------------------------------------------------------
(* Arithmetic of OutageSpan, so that no other proof multiplies. *)

LEMMA OutageSpanNat == \A n \in Nat : OutageSpan(n) \in Nat
BY DurationAssumption DEF OutageSpan

LEMMA OutageSpanStep ==
    \A n \in Nat : OutageSpan(n + 1) = OutageSpan(n) + MaxCachedAge + MaxAttestTime
<1>1. SUFFICES ASSUME NEW n \in Nat, NEW p \in Nat, p = MaxCachedAge + MaxAttestTime
               PROVE  (n + 1) * p = n * p + p
  BY DurationAssumption DEF OutageSpan
<1>2. QED
  OBVIOUS

LEMMA OutageSpanZero == OutageSpan(0) = 0
BY DurationAssumption DEF OutageSpan

-----------------------------------------------------------------------------
(* The state keeps its shape (TypeOK).  Every step of the code and of the    *)
(* environment writes only values of the declared sets.                      *)

LEMMA TypeStep == TypeOK /\ [Next]_vars => TypeOK'
<1> SUFFICES ASSUME TypeOK, [Next]_vars PROVE TypeOK'
  OBVIOUS
<1> USE DurationAssumption DEF TypeOK, taskVars, cacheVars, MainStates, Gates, AttestGates, TaskStates, Finished, Keys
<1>1. CASE Boot
  <2>1. ASSUME NEW from, NEW to \in MainStates, PassGate(from, to) PROVE TypeOK'
    BY <2>1 DEF PassGate
  <2>2. CASE AttestEncryptionKey
    BY <2>2 DEF AttestEncryptionKey, NewAttestedKey, Store
  <2>3. CASE AttestSigningKey
    BY <2>3 DEF AttestSigningKey, NewAttestedKey, Store
  <2>4. CASE ReadMeasurements
    BY <2>4 DEF ReadMeasurements
  <2>5. CASE GateFails
    BY <2>5 DEF GateFails
  <2>6. QED
    BY <1>1, <2>1, <2>2, <2>3, <2>4, <2>5 DEF Boot
<1>2. ASSUME NEW k \in Keys, RefreshTask(k) PROVE TypeOK'
  <2>1. CASE Wake(k)
    BY <2>1 DEF Wake
  <2>2. CASE RefreshSucceeds(k)
    BY <2>2 DEF RefreshSucceeds, Store
  <2>3. CASE RefreshFails(k)
    BY <2>3 DEF RefreshFails
  <2>4. CASE RefreshPanics(k)
    BY <2>4 DEF RefreshPanics
  <2>5. QED
    BY <1>2, <2>1, <2>2, <2>3, <2>4 DEF RefreshTask
<1>3. CASE TaskEnded
  BY <1>3 DEF TaskEnded
<1>4. CASE ServerStops
  BY <1>4 DEF ServerStops
<1>5. CASE Tick
  BY <1>5 DEF Tick, Older
<1>6. CASE NsmChanges
  BY <1>6 DEF NsmChanges
<1>7. CASE Stopped \/ UNCHANGED vars
  BY <1>7 DEF Stopped, vars
<1>8. QED
  BY <1>1, <1>2, <1>3, <1>4, <1>5, <1>6, <1>7 DEF Next

\* The state of a boot always has the declared shape: no gate, refresh task or
\* supervision step of the code leaves it (EnclaveState, AttestedKey, main).
THEOREM TypeCorrect == Spec => []TypeOK
<1>1. Init => TypeOK
  BY DEF Init, TypeOK, MainStates, Gates, TaskStates
<1>2. QED
  BY <1>1, TypeStep, PTL DEF Spec

-----------------------------------------------------------------------------
(* The inductive invariant: initially, and one lemma per group of actions.   *)

LEMMA InvInit == Init => IInv
BY DurationAssumption
   DEF Init, IInv, TypeOK, BootInv, DocInv, TaskInv, MainStates, Gates, EarlyGates, Unstarted,
       TaskStates, Finished, Keys

LEMMA BootStep == IInv /\ Boot => BootInv' /\ \A k \in Keys : DocInv(k)' /\ TaskInv(k)'
<1> SUFFICES ASSUME IInv, Boot
             PROVE  BootInv' /\ \A k \in Keys : DocInv(k)' /\ TaskInv(k)'
  OBVIOUS
<1> USE DurationAssumption
    DEF IInv, TypeOK, BootInv, DocInv, taskVars, cacheVars, Gates, AttestGates, EarlyGates, Unstarted, Finished, Keys
<1>1. ASSUME NEW from \in EarlyGates, NEW to \in EarlyGates, PassGate(from, to)
      PROVE  BootInv' /\ \A k \in Keys : DocInv(k)' /\ TaskInv(k)'
  BY <1>1 DEF PassGate, TaskInv
<1>2. CASE AttestEncryptionKey
  <2>1. PICK stamp \in 0 .. mainTimer : Store("encryption", stamp)
    BY <1>2 DEF AttestEncryptionKey, NewAttestedKey
  <2>2. BootInv' /\ \A k \in Keys : DocInv(k)'
    <3>1. cached' = {"encryption"}
      BY <1>2, <2>1 DEF AttestEncryptionKey, NewAttestedKey, Store
    <3>2. BootInv'
      BY <1>2, <2>1, <3>1 DEF AttestEncryptionKey, NewAttestedKey, Store
    <3>3. \A k \in Keys : DocInv(k)'
      BY <1>2, <2>1, <3>1 DEF AttestEncryptionKey, NewAttestedKey, Store
    <3>4. QED
      BY <3>2, <3>3
  <2>3. \A k \in Keys : TaskInv(k)'
    BY <1>2, <2>1 DEF AttestEncryptionKey, NewAttestedKey, Store, TaskInv
  <2>4. QED
    BY <2>2, <2>3
<1>3. CASE AttestSigningKey
  <2>1. BootInv' /\ \A k \in Keys : DocInv(k)'
    BY <1>3 DEF AttestSigningKey, NewAttestedKey, Store
  <2>2. \A k \in Keys : TaskInv(k)'
    BY <1>3, OutageSpanZero DEF AttestSigningKey, NewAttestedKey, Store, TaskInv
  <2>3. QED
    BY <2>1, <2>2
<1>4. CASE ReadMeasurements
  BY <1>4 DEF ReadMeasurements, TaskInv
<1>5. CASE GateFails
  BY <1>5 DEF GateFails, TaskInv
<1>6. QED
  BY <1>1, <1>2, <1>3, <1>4, <1>5 DEF Boot

LEMMA RefreshStep ==
    ASSUME NEW k \in Keys, IInv, RefreshTask(k)
    PROVE  BootInv' /\ \A j \in Keys : DocInv(j)' /\ TaskInv(j)'
<1> USE DurationAssumption DEF IInv, TypeOK, taskVars, cacheVars, Live, Finished
<1>0. main \in {"measurements", "serving"} \/ task[k] = "unstarted"
  BY DEF RefreshTask, Wake, RefreshSucceeds, RefreshFails, RefreshPanics, BootInv, Unstarted,
         EarlyGates, MainStates, Gates
<1>1. CASE Wake(k)
  <2>1. BootInv'
    BY <1>1 DEF Wake, BootInv, Unstarted, EarlyGates
  <2>2. \A j \in Keys : DocInv(j)'
    BY <1>1 DEF Wake, DocInv
  <2>3. ASSUME NEW j \in Keys PROVE TaskInv(j)'
    <3>1. CASE j = k
      BY <1>1, <3>1, OutageSpanNat DEF Wake, TaskInv
    <3>2. CASE j # k
      BY <1>1, <3>2 DEF Wake, TaskInv
    <3>3. QED
      BY <3>1, <3>2
  <2>4. QED
    BY <2>1, <2>2, <2>3
<1>2. CASE RefreshSucceeds(k)
  <2>1. PICK stamp \in 0 .. timer[k] : Store(k, stamp)
    BY <1>2 DEF RefreshSucceeds
  <2>2. BootInv'
    BY <1>0, <1>2, <2>1 DEF RefreshSucceeds, Store, BootInv, Unstarted, EarlyGates
  <2>3. ASSUME NEW j \in Keys PROVE DocInv(j)'
    BY <1>2, <2>1 DEF RefreshSucceeds, Store, DocInv, TaskInv
  <2>4. ASSUME NEW j \in Keys PROVE TaskInv(j)'
    BY <1>2, <2>1, OutageSpanZero DEF RefreshSucceeds, Store, TaskInv
  <2>5. QED
    BY <2>2, <2>3, <2>4
<1>3. CASE RefreshFails(k)
  <2>1. BootInv'
    BY <1>0, <1>3 DEF RefreshFails, BootInv, Unstarted, EarlyGates
  <2>2. \A j \in Keys : DocInv(j)'
    BY <1>3 DEF RefreshFails, DocInv
  <2>3. ASSUME NEW j \in Keys PROVE TaskInv(j)'
    BY <1>3, OutageSpanStep, OutageSpanNat DEF RefreshFails, TaskInv
  <2>4. QED
    BY <2>1, <2>2, <2>3
<1>4. CASE RefreshPanics(k)
  <2>1. BootInv'
    BY <1>0, <1>4 DEF RefreshPanics, BootInv, Unstarted, EarlyGates
  <2>2. \A j \in Keys : DocInv(j)'
    BY <1>4 DEF RefreshPanics, DocInv
  <2>3. ASSUME NEW j \in Keys PROVE TaskInv(j)'
    BY <1>4 DEF RefreshPanics, TaskInv
  <2>4. QED
    BY <2>1, <2>2, <2>3
<1>5. QED
  BY <1>1, <1>2, <1>3, <1>4 DEF RefreshTask

\* Time is the only step that can exceed a bound: it is stopped by the sleep or
\* attest that is due, and, once a task has finished, by main, which must exit.
LEMMA TickStep == IInv /\ Tick => BootInv' /\ \A k \in Keys : DocInv(k)' /\ TaskInv(k)'
<1> SUFFICES ASSUME IInv, Tick
             PROVE  BootInv' /\ \A k \in Keys : DocInv(k)' /\ TaskInv(k)'
  OBVIOUS
<1> USE DurationAssumption DEF IInv, TypeOK, Tick, Older, AttestGates
<1>1. BootInv'
  BY DEF BootInv, Unstarted, EarlyGates, Keys
<1>2. ASSUME NEW k \in Keys PROVE DocInv(k)'
  BY DEF DocInv
<1>3. ASSUME NEW k \in Keys PROVE TaskInv(k)'
  <2>1. CASE task[k] = "unstarted"
    BY <2>1 DEF TaskInv, Finished
  <2>2. CASE task[k] = "sleeping"
    BY <2>2, OutageSpanNat DEF TaskInv, MayWait, Finished
  <2>3. CASE task[k] = "attesting"
    BY <2>3, OutageSpanNat DEF TaskInv, MayWait, Finished
  <2>4. CASE task[k] \in Finished
    <3>1. main = "measurements"
      BY <2>4 DEF MayWait, Finished, BootInv, Unstarted, EarlyGates
    <3>2. attestedAge'[k] <= MaxAttestTime + MaxAttestTime
      BY <3>1, <1>1 DEF BootInv
    <3>3. QED
      BY <2>4, <3>2 DEF TaskInv, Finished
  <2>5. QED
    BY <2>1, <2>2, <2>3, <2>4 DEF TaskStates
<1>4. QED
  BY <1>1, <1>2, <1>3

LEMMA InvStep == IInv /\ [Next]_vars => IInv'
<1> SUFFICES ASSUME IInv, [Next]_vars PROVE IInv'
  OBVIOUS
<1>1. TypeOK'
  BY TypeStep DEF IInv
<1>2. BootInv' /\ \A k \in Keys : DocInv(k)' /\ TaskInv(k)'
  <2>1. CASE TaskEnded \/ ServerStops
    BY <2>1 DEF TaskEnded, ServerStops, taskVars, cacheVars, IInv, BootInv, DocInv, TaskInv, Unstarted, EarlyGates
  <2>2. CASE NsmChanges
    BY <2>2 DEF NsmChanges, taskVars, cacheVars, IInv, BootInv, DocInv, TaskInv
  <2>3. CASE Stopped \/ UNCHANGED vars
    BY <2>3 DEF Stopped, vars, IInv, BootInv, DocInv, TaskInv
  <2>4. QED
    BY <2>1, <2>2, <2>3, BootStep, RefreshStep, TickStep DEF Next
<1>3. QED
  BY <1>1, <1>2 DEF IInv

LEMMA InvAlways == Spec => []IInv
BY InvInit, InvStep, PTL DEF Spec

-----------------------------------------------------------------------------
(* What follows from IInv. *)

LEMMA ServedBound == IInv => ServedDocumentsBounded
<1> SUFFICES ASSUME IInv, main = "serving", NEW k \in Keys
             PROVE  k \in cached /\ docAge[k] <= StaleBound
  BY DEF ServedDocumentsBounded
<1>1. k \in cached /\ task[k] # "unstarted"
  BY DEF IInv, BootInv
<1>2. attestedAge[k] <= MaxServableAge - 1 + MaxCachedAge + MaxAttestTime
  BY <1>1, DurationAssumption DEF IInv, TypeOK, TaskInv, TaskStates
<1>3. docAge[k] <= attestedAge[k] + MaxAttestTime
  BY <1>1 DEF IInv, DocInv
<1>4. QED
  BY <1>1, <1>2, <1>3, DurationAssumption DEF StaleBound, IInv, TypeOK

\* No request is handed a document older than StaleBound while the enclave
\* serves, whatever the three durations are.
THEOREM StalenessBounded == Spec => []ServedDocumentsBounded
BY ServedBound, InvAlways, PTL

\* The age the failure check reads is at most one attest short of the truth.
THEOREM AgeUnderratedBounded == Spec => []AgeUnderratedByOneAttest
<1>1. IInv => AgeUnderratedByOneAttest
  BY DEF IInv, DocInv, AgeUnderratedByOneAttest, TypeOK
<1>2. QED
  BY <1>1, InvAlways, PTL

\* A refresh task ends for age only after failed attests that span
\* MaxServableAge: short outages never take the enclave down.
THEOREM OutagesRiddenOut == Spec => []GivesUpOnlyAfterOutage
<1>1. IInv => GivesUpOnlyAfterOutage
  BY DEF IInv, TaskInv, GivesUpOnlyAfterOutage
<1>2. QED
  BY <1>1, InvAlways, PTL

\* No renewal puts an older document in the place of a younger one, although
\* attests take time and the cache is written only after they return.
THEOREM RenewalsAreYounger == Spec => NeverReplacedByOlder
<1>1. IInv /\ [Next]_vars => [RenewalIsYounger]_vars
  <2> SUFFICES ASSUME IInv, Next, NEW k \in cached, attestedAge'[k] < attestedAge[k]
               PROVE  docAge'[k] < docAge[k]
    BY DEF RenewalIsYounger
  <2> USE DurationAssumption DEF IInv, TypeOK, taskVars, cacheVars
  <2>1. CASE Boot
    BY <2>1 DEF Boot, PassGate, GateFails, ReadMeasurements, AttestEncryptionKey, AttestSigningKey,
                NewAttestedKey, Store, BootInv, EarlyGates
  <2>2. ASSUME NEW j \in Keys, RefreshTask(j) PROVE docAge'[k] < docAge[k]
    <3>1. RefreshSucceeds(j) /\ j = k
      BY <2>2 DEF RefreshTask, Wake, RefreshSucceeds, RefreshFails, RefreshPanics, Store
    <3>2. PICK stamp \in 0 .. timer[k] : docAge'[k] = stamp
      BY <3>1 DEF RefreshSucceeds, Store
    <3>3. MaxCachedAge + timer[k] <= attestedAge[k] /\ attestedAge[k] <= docAge[k]
      BY <3>1 DEF RefreshSucceeds, TaskInv, DocInv
    <3>4. QED
      BY <3>2, <3>3
  <2>3. CASE Tick
    BY <2>3 DEF Tick, Older
  <2>4. CASE TaskEnded \/ ServerStops \/ NsmChanges \/ Stopped
    BY <2>4 DEF TaskEnded, ServerStops, NsmChanges, Stopped, vars
  <2>5. QED
    BY <2>1, <2>2, <2>3, <2>4 DEF Next
<1>2. QED
  BY <1>1, InvAlways, PTL DEF Spec, NeverReplacedByOlder

-----------------------------------------------------------------------------
(* MAX_SERVABLE_AGE read as a bound on what is served.                        *)

\* With attests that take no time, every age is a number of sleeps: one per
\* failed attest, and the one under way.
RoundsInv ==
    \A k \in Keys :
        /\ task[k] = "sleeping" =>
            attestedAge[k] = failures[k] * MaxCachedAge + timer[k] /\ failures[k] * MaxCachedAge < MaxServableAge
        /\ task[k] = "attesting" => timer[k] = 0 /\ attestedAge[k] = (failures[k] + 1) * MaxCachedAge
        /\ task[k] \in Finished \cup {"attesting"} => attestedAge[k] <= MaxServableAge

LEMMA RoundsStep ==
    ASSUME MaxAttestTime = 0, NEW n \in Nat, MaxServableAge = n * MaxCachedAge
    PROVE  IInv /\ IInv' /\ RoundsInv /\ [Next]_vars => RoundsInv'
PROOF
    <1>. SUFFICES ASSUME IInv, IInv', RoundsInv, [Next]_vars PROVE RoundsInv' OBVIOUS
    <1>. USE DurationAssumption
    <1>. DEFINE Rounds(k) ==
        /\ task[k] = "sleeping" =>
            attestedAge[k] = failures[k] * MaxCachedAge + timer[k] /\ failures[k] * MaxCachedAge < MaxServableAge
        /\ task[k] = "attesting" => timer[k] = 0 /\ attestedAge[k] = (failures[k] + 1) * MaxCachedAge
        /\ task[k] \in Finished \cup {"attesting"} => attestedAge[k] <= MaxServableAge
    <1>0. \A k \in Keys : Rounds(k) BY DEF RoundsInv
    <1>1. /\ task \in [Keys -> TaskStates] /\ timer \in [Keys -> Nat] /\ docAge \in [Keys -> Nat]
          /\ attestedAge \in [Keys -> Nat] /\ failures \in [Keys -> Nat] /\ mainTimer \in Nat
      BY DEF IInv, TypeOK
    <1>2. \A f \in Nat : f * MaxCachedAge \in Nat /\ (f + 1) * MaxCachedAge = f * MaxCachedAge + MaxCachedAge
      OBVIOUS
    <1>3. \A f \in Nat : f * MaxCachedAge < MaxServableAge => (f + 1) * MaxCachedAge <= MaxServableAge
      OBVIOUS
    <1>4. SUFFICES ASSUME NEW k \in Keys PROVE Rounds(k)' BY DEF RoundsInv
    <1>5. CASE Tick
      <2>1. main # "measurements" \/ mainTimer < MaxAttestTime BY <1>5 DEF Tick, AttestGates
      <2>2. task[k] \notin Finished \cup {"attesting"}
        BY <1>1, <1>5, <2>1 DEF Tick, MayWait, Finished, AttestGates, IInv, BootInv, Unstarted, EarlyGates
      <2>3. ASSUME task[k] = "sleeping"
            PROVE attestedAge'[k] = attestedAge[k] + 1 /\ timer'[k] = timer[k] + 1
        BY <1>1, <1>5, <2>3 DEF Tick, Older, IInv, TaskInv
      <2>. QED BY <1>0, <1>1, <1>2, <1>5, <2>2, <2>3 DEF Tick
    <1>6. CASE Boot
      <2>1. CASE AttestSigningKey
        <3>1. failures'[k] = 0 /\ task'[k] = "sleeping" /\ timer'[k] = 0
          BY <1>1, <2>1 DEF AttestSigningKey, NewAttestedKey, IInv, BootInv, Unstarted
        <3>2. attestedAge'[k] = 0
          BY <1>1, <2>1 DEF AttestSigningKey, NewAttestedKey, Store, IInv, BootInv, Keys
        <3>. QED BY <3>1, <3>2 DEF Finished
      <2>2. CASE ~AttestSigningKey
        BY <1>0, <1>6, <2>2 DEF Boot, PassGate, GateFails, ReadMeasurements, AttestEncryptionKey,
            NewAttestedKey, taskVars, cacheVars, IInv, BootInv, Unstarted, EarlyGates, Finished
      <2>. QED BY <2>1, <2>2
    <1>7. ASSUME NEW j \in Keys, RefreshTask(j) PROVE Rounds(k)'
      <2>1. CASE j # k
        <3>1. task'[k] = task[k] /\ timer'[k] = timer[k] /\ attestedAge'[k] = attestedAge[k] /\ failures'[k] = failures[k]
          BY <1>1, <1>7, <2>1 DEF RefreshTask, Wake, RefreshSucceeds, RefreshFails, RefreshPanics, Store, cacheVars
        <3>. QED BY <1>0, <3>1
      <2>2. CASE Wake(k)
        <3>1. timer[k] = MaxCachedAge BY <1>1, <2>2 DEF Wake, IInv, TaskInv
        <3>2. attestedAge[k] = failures[k] * MaxCachedAge + timer[k] /\ failures[k] * MaxCachedAge < MaxServableAge
          BY <1>0, <2>2 DEF Wake
        <3>3. task'[k] = "attesting" /\ timer'[k] = 0 /\ attestedAge' = attestedAge /\ failures' = failures
          BY <1>1, <2>2 DEF Wake, cacheVars
        <3>. QED BY <1>1, <1>2, <1>3, <3>1, <3>2, <3>3
      <2>3. CASE RefreshSucceeds(k)
        BY <1>1, <2>3 DEF RefreshSucceeds, Store, Finished
      <2>4. CASE RefreshFails(k)
        <3>1. attestedAge[k] = (failures[k] + 1) * MaxCachedAge /\ attestedAge[k] <= MaxServableAge
          BY <1>0, <2>4 DEF RefreshFails
        <3>2. /\ task'[k] = IF attestedAge[k] >= MaxServableAge THEN "gaveUp" ELSE "sleeping"
              /\ timer'[k] = 0 /\ failures'[k] = failures[k] + 1 /\ attestedAge' = attestedAge
          BY <1>1, <2>4 DEF RefreshFails, cacheVars
        <3>. QED BY <1>1, <3>1, <3>2 DEF Finished
      <2>5. CASE RefreshPanics(k)
        BY <1>0, <1>1, <2>5 DEF RefreshPanics, cacheVars, Finished
      <2>. QED BY <1>7, <2>1, <2>2, <2>3, <2>4, <2>5 DEF RefreshTask
    <1>8. CASE TaskEnded \/ ServerStops \/ NsmChanges \/ Stopped \/ UNCHANGED vars
      BY <1>0, <1>8 DEF TaskEnded, ServerStops, NsmChanges, Stopped, vars, taskVars, cacheVars
    <1>. QED BY <1>5, <1>6, <1>7, <1>8 DEF Next

\* The README's reading of MAX_SERVABLE_AGE holds exactly where attests take no
\* time and the age is a whole number of sleeps, as ten minutes in an hour: what
\* the run cache_servable_age shows is the time of the attests and nothing else.
THEOREM ServableAgeExact ==
    ASSUME MaxAttestTime = 0, NEW n \in Nat, MaxServableAge = n * MaxCachedAge
    PROVE  Spec => []ServedWithinServableAge
PROOF
    <1>1. Init => RoundsInv BY DEF Init, RoundsInv, Finished
    <1>2. IInv /\ IInv' /\ RoundsInv /\ [Next]_vars => RoundsInv' BY RoundsStep
    <1>3. IInv /\ RoundsInv => ServedWithinServableAge
      <2>. SUFFICES ASSUME IInv, RoundsInv, main = "serving", NEW k \in Keys
                    PROVE  attestedAge[k] <= MaxServableAge
        BY DEF ServedWithinServableAge
      <2>1. CASE task[k] = "sleeping"
        <3>1. failures[k] \in Nat /\ timer[k] \in Nat /\ timer[k] <= MaxCachedAge
          BY <2>1 DEF IInv, TypeOK, TaskInv
        <3>2. \A f \in Nat : f * MaxCachedAge < MaxServableAge => f * MaxCachedAge + MaxCachedAge <= MaxServableAge
          BY DurationAssumption
        <3>3. \A f \in Nat : f * MaxCachedAge \in Nat BY DurationAssumption
        <3>. QED BY <2>1, <3>1, <3>2, <3>3, DurationAssumption DEF RoundsInv
      <2>2. CASE task[k] # "sleeping"
        BY <2>2 DEF RoundsInv, IInv, TypeOK, BootInv, TaskStates
      <2>. QED BY <2>1, <2>2
    <1>. QED BY <1>1, <1>2, <1>3, InvAlways, PTL DEF Spec

-----------------------------------------------------------------------------
(* How long an outage is ridden out at most. *)

\* Each failed attest came a whole sleep after the one before it, and the last
\* one found a document younger than MaxServableAge if its task sleeps again.
OutageOf(k) ==
    /\ task[k] = "sleeping" => failures[k] * MaxCachedAge + timer[k] <= attestedAge[k]
    /\ task[k] = "attesting" => failures[k] * MaxCachedAge + MaxCachedAge + timer[k] <= attestedAge[k]
    /\ task[k] \notin Finished => failures[k] * MaxCachedAge < MaxServableAge
    /\ failures[k] * MaxCachedAge < MaxServableAge + MaxCachedAge

OutageInv == \A k \in Keys : OutageOf(k)

\* One more failure is one more sleep; no other proof multiplies.
LEMMA OneMoreFailure ==
    \A n \in Nat : /\ n * MaxCachedAge \in Nat
                  /\ (n + 1) * MaxCachedAge = n * MaxCachedAge + MaxCachedAge
BY DurationAssumption

LEMMA OutageStep == IInv /\ OutageInv /\ [Next]_vars => OutageInv'
<1> SUFFICES ASSUME IInv, OutageInv, [Next]_vars, NEW k \in Keys PROVE OutageOf(k)'
  BY DEF OutageInv
<1> USE DurationAssumption
<1>0. OutageOf(k)
  BY DEF OutageInv
<1>1. /\ task \in [Keys -> TaskStates] /\ timer \in [Keys -> Nat]
      /\ attestedAge \in [Keys -> Nat] /\ failures \in [Keys -> Nat]
  BY DEF IInv, TypeOK
<1>2. failures[k] * MaxCachedAge \in Nat
  BY <1>1, OneMoreFailure
<1>3. CASE Tick
  <2>1. task[k] \in {"sleeping", "attesting"} =>
          attestedAge'[k] = attestedAge[k] + 1 /\ timer'[k] = timer[k] + 1
    BY <1>1, <1>3 DEF Tick, Older, IInv, TaskInv
  <2>2. UNCHANGED <<task, failures>>
    BY <1>3 DEF Tick
  <2>. QED BY <1>0, <1>1, <1>2, <2>1, <2>2 DEF OutageOf
<1>4. CASE AttestSigningKey
  <2>1. failures'[k] = 0 /\ task'[k] = "sleeping" /\ timer'[k] = 0 /\ attestedAge'[k] \in Nat
    BY <1>1, <1>4 DEF AttestSigningKey, NewAttestedKey, Store, IInv, BootInv, Unstarted, Keys
  <2>. QED BY <2>1 DEF OutageOf, Finished
<1>5. CASE Boot /\ ~AttestSigningKey
  <2>1. UNCHANGED <<task, timer, failures>>
    BY <1>5 DEF Boot, PassGate, GateFails, ReadMeasurements, AttestEncryptionKey, NewAttestedKey, taskVars
  <2>2. task[k] \in {"sleeping", "attesting"} => UNCHANGED attestedAge
    BY <1>5 DEF Boot, PassGate, GateFails, ReadMeasurements, AttestEncryptionKey, NewAttestedKey,
                cacheVars, IInv, BootInv, Unstarted, EarlyGates
  <2>. QED BY <1>0, <2>1, <2>2 DEF OutageOf
<1>6. ASSUME NEW j \in Keys, RefreshTask(j) PROVE OutageOf(k)'
  <2>1. CASE j # k
    <3>1. UNCHANGED <<task[k], timer[k], attestedAge[k], failures[k]>>
      BY <1>1, <1>6, <2>1 DEF RefreshTask, Wake, RefreshSucceeds, RefreshFails, RefreshPanics, Store, cacheVars
    <3>. QED BY <1>0, <3>1 DEF OutageOf
  <2>2. CASE Wake(k)
    <3>1. /\ task[k] = "sleeping" /\ task'[k] = "attesting" /\ timer[k] >= MaxCachedAge /\ timer'[k] = 0
          /\ UNCHANGED <<attestedAge[k], failures[k]>>
      BY <1>1, <2>2 DEF Wake, cacheVars
    <3>. QED BY <1>0, <1>1, <1>2, <3>1 DEF OutageOf, Finished
  <2>3. CASE RefreshSucceeds(k)
    <3>1. task'[k] = "sleeping" /\ timer'[k] = 0 /\ attestedAge'[k] = 0 /\ failures'[k] = 0
      BY <1>1, <2>3 DEF RefreshSucceeds, Store
    <3>. QED BY <3>1 DEF OutageOf, Finished
  <2>4. CASE RefreshFails(k)
    <3>1. /\ task[k] = "attesting" /\ timer'[k] = 0 /\ failures'[k] = failures[k] + 1
          /\ task'[k] = IF attestedAge[k] >= MaxServableAge THEN "gaveUp" ELSE "sleeping"
          /\ UNCHANGED attestedAge[k]
      BY <1>1, <2>4 DEF RefreshFails, cacheVars
    <3>2. failures'[k] * MaxCachedAge = failures[k] * MaxCachedAge + MaxCachedAge
      BY <1>1, <3>1, OneMoreFailure
    <3>. HIDE DEF Finished
    <3>3. task'[k] \notin Finished => task'[k] = "sleeping" /\ attestedAge[k] < MaxServableAge
      BY <1>1, <3>1 DEF Finished
    <3>4. task[k] \notin Finished /\ task'[k] # "attesting"
      BY <3>1 DEF Finished
    <3>5. task'[k] = "sleeping" => task'[k] \notin Finished
      BY DEF Finished
    <3>. QED BY <1>0, <1>1, <1>2, <3>1, <3>2, <3>3, <3>4, <3>5 DEF OutageOf
  <2>5. CASE RefreshPanics(k)
    <3>1. task'[k] = "panicked" /\ UNCHANGED failures[k]
      BY <1>1, <2>5 DEF RefreshPanics
    <3>. QED BY <1>0, <3>1 DEF OutageOf, Finished
  <2>. QED BY <1>6, <2>1, <2>2, <2>3, <2>4, <2>5 DEF RefreshTask
<1>7. CASE TaskEnded \/ ServerStops \/ NsmChanges \/ Stopped \/ UNCHANGED vars
  BY <1>0, <1>7 DEF TaskEnded, ServerStops, NsmChanges, Stopped, vars, taskVars, cacheVars, OutageOf
<1>. QED BY <1>3, <1>4, <1>5, <1>6, <1>7 DEF Next

\* A task that has failed for MaxServableAge worth of sleeps in a row has given
\* up: six failures with the code's hour and ten minutes, however long or short
\* its attests were.  With OutagesRiddenOut, the length of an outage that takes
\* the enclave down is bounded from both sides.
THEOREM OutagesEnd ==
    Spec => [](\A k \in Keys :
                /\ task[k] \in {"sleeping", "attesting"} => failures[k] * MaxCachedAge < MaxServableAge
                /\ failures[k] * MaxCachedAge < MaxServableAge + MaxCachedAge)
<1>1. Init => OutageInv
  BY DurationAssumption DEF Init, OutageInv, OutageOf, Finished
<1>2. OutageInv => \A k \in Keys :
                /\ task[k] \in {"sleeping", "attesting"} => failures[k] * MaxCachedAge < MaxServableAge
                /\ failures[k] * MaxCachedAge < MaxServableAge + MaxCachedAge
  BY DEF OutageInv, OutageOf, Finished
<1>. QED BY <1>1, <1>2, OutageStep, InvAlways, PTL DEF Spec

\* The time a document still has, counted by the clock the code reads.
TimeLeft(k) == MaxServableAge - 1 + MaxCachedAge + MaxAttestTime - attestedAge[k]

InTime == main = "serving" => \A k \in Keys : TimeLeft(k) \in Nat

LEMMA TimeIsLeft == IInv => InTime
<1>. SUFFICES ASSUME IInv, main = "serving", NEW k \in Keys PROVE TimeLeft(k) \in Nat
  BY DEF InTime
<1>1. attestedAge[k] \in Nat /\ timer[k] \in Nat
  BY DEF IInv, TypeOK
<1>2. attestedAge[k] <= MaxServableAge - 1 + MaxCachedAge + MaxAttestTime
  BY <1>1, DurationAssumption DEF IInv, TypeOK, BootInv, TaskInv, TaskStates
<1>. QED BY <1>1, <1>2, DurationAssumption DEF TimeLeft

\* While the NSM answers nobody, time only spends what the documents have left,
\* which is never negative: a serving enclave cannot sit out an outage that has
\* no end.  What fairness adds in OutageEndsTheProcess is that time passes.
THEOREM OutageSpendsTheAge ==
    Spec => [][main = "serving" /\ main' = "serving" /\ ~nsmUp =>
                \A k \in Keys : /\ TimeLeft(k) \in Nat /\ TimeLeft(k)' \in Nat
                                /\ TimeLeft(k)' = IF Tick THEN TimeLeft(k) - 1 ELSE TimeLeft(k)]_vars
<1>. DEFINE Spent == \A k \in Keys :
                /\ TimeLeft(k) \in Nat /\ TimeLeft(k)' \in Nat
                /\ TimeLeft(k)' = IF Tick THEN TimeLeft(k) - 1 ELSE TimeLeft(k)
<1>1. IInv /\ IInv' /\ [Next]_vars => [main = "serving" /\ main' = "serving" /\ ~nsmUp => Spent]_vars
  <2>. SUFFICES ASSUME IInv, IInv', Next, main = "serving", main' = "serving", ~nsmUp, NEW k \in Keys
                PROVE  /\ TimeLeft(k) \in Nat /\ TimeLeft(k)' \in Nat
                       /\ TimeLeft(k)' = IF Tick THEN TimeLeft(k) - 1 ELSE TimeLeft(k)
    OBVIOUS
  <2>0. InTime'
    BY TimeIsLeft, PTL
  <2>1. TimeLeft(k) \in Nat
    BY TimeIsLeft DEF InTime
  <2>2. attestedAge[k] \in Nat
    BY DEF IInv, TypeOK
  <2>3. TimeLeft(k)' = IF Tick THEN TimeLeft(k) - 1 ELSE TimeLeft(k)
    <3>1. CASE Tick
      <4>1. attestedAge'[k] = attestedAge[k] + 1
        BY <3>1 DEF Tick, Older, IInv, BootInv
      <4>. QED BY <2>2, <3>1, <4>1, DurationAssumption DEF TimeLeft
    <3>2. CASE ~Tick
      <4>1. attestedAge'[k] = attestedAge[k]
        BY <3>2 DEF Next, Boot, PassGate, AttestEncryptionKey, AttestSigningKey, NewAttestedKey,
           ReadMeasurements, GateFails, RefreshTask, Wake, RefreshSucceeds, RefreshFails,
           RefreshPanics, TaskEnded, ServerStops, NsmChanges, Stopped, cacheVars, vars
      <4>. QED BY <3>2, <4>1 DEF TimeLeft
    <3>. QED BY <3>1, <3>2
  <2>4. TimeLeft(k)' \in Nat
    BY <2>0 DEF InTime
  <2>. QED BY <2>1, <2>3, <2>4
<1>. QED BY <1>1, InvAlways, PTL DEF Spec

-----------------------------------------------------------------------------
(* The safety half of progress: boot advances, and so does every renewal. *)

\* What is left of boot: a period for each gate still to pass, less the time
\* main has spent in the attest it waits for.
Period == MaxAttestTime + 1
BootLeft ==
    IF main = "rng" THEN 7 * Period
    ELSE IF main = "connect" THEN 6 * Period
    ELSE IF main = "engine" THEN 5 * Period
    ELSE IF main = "keys" THEN 4 * Period
    ELSE IF main = "attestEncryption" THEN 3 * Period - mainTimer
    ELSE IF main = "attestSigning" THEN 2 * Period - mainTimer
    ELSE IF main = "measurements" THEN Period - mainTimer
    ELSE 0

\* Until main serves or has failed, every gate it passes and every moment it waits
\* bring that nearer, and nothing puts it off, neither the tasks that it started on
\* the way nor an NSM that comes and goes.  That main gets there at all takes gates
\* that return: AttestsReturn, and that main runs on.
THEOREM BootOnlyAdvances ==
    Spec => [][(main \in Gates) =>
                /\ BootLeft \in 1 .. 7 * Period
                /\ BootLeft' \in Nat /\ BootLeft' <= BootLeft
                /\ Boot \/ Tick => BootLeft' < BootLeft]_vars
<1>. DEFINE Advances ==
        /\ BootLeft \in 1 .. 7 * Period
        /\ BootLeft' \in Nat /\ BootLeft' <= BootLeft
        /\ Boot \/ Tick => BootLeft' < BootLeft
<1>1. IInv /\ [Next]_vars => [(main \in Gates) => Advances]_vars
  <2>. SUFFICES ASSUME IInv, Next, main \in Gates PROVE Advances
    OBVIOUS
  <2>0. mainTimer \in Nat /\ mainTimer <= MaxAttestTime /\ MaxAttestTime \in Nat
    BY DurationAssumption DEF IInv, TypeOK, BootInv
  <2>1. BootLeft \in 1 .. 7 * Period
    BY <2>0 DEF BootLeft, Period, Gates
  <2>2. CASE Boot
    <3>1. CASE GateFails
      <4>1. BootLeft' = 0
        BY <3>1 DEF GateFails, BootLeft
      <4>. QED BY <2>1, <4>1
    <3>2. CASE ~GateFails
      <4>1. /\ mainTimer' = 0
            /\ <<main, main'>> \in {<<"rng", "connect">>, <<"connect", "engine">>, <<"engine", "keys">>,
                                    <<"keys", "attestEncryption">>, <<"attestEncryption", "attestSigning">>,
                                    <<"attestSigning", "measurements">>, <<"measurements", "serving">>}
        BY <2>2, <3>2 DEF Boot, PassGate, AttestEncryptionKey, AttestSigningKey, NewAttestedKey, ReadMeasurements
      <4>2. BootLeft' \in Nat /\ BootLeft' < BootLeft
        BY <2>0, <4>1 DEF BootLeft, Period
      <4>. QED BY <2>1, <4>2
    <3>. QED BY <3>1, <3>2
  <2>3. CASE Tick
    <3>1. /\ main \in AttestGates /\ main' = main /\ mainTimer' = mainTimer + 1
          /\ mainTimer < MaxAttestTime
      BY <2>3 DEF Tick, Gates
    <3>2. BootLeft' = BootLeft - 1
      BY <2>0, <3>1 DEF BootLeft, Period, AttestGates
    <3>. QED BY <2>1, <3>2
  <2>4. CASE ~Boot /\ ~Tick
    <3>1. main' = main /\ mainTimer' = mainTimer
      BY <2>4 DEF Next, Gates, RefreshTask, Wake, RefreshSucceeds, RefreshFails, RefreshPanics,
                  TaskEnded, ServerStops, NsmChanges, Stopped, vars
    <3>2. BootLeft' = BootLeft
      BY <3>1 DEF BootLeft
    <3>. QED BY <2>1, <2>4, <3>2
  <2>. QED BY <2>2, <2>3, <2>4
<1>. QED BY <1>1, InvAlways, PTL DEF Spec

\* The time until the refresh task of k has its next answer, at the latest.
Due(k) ==
    IF task[k] = "sleeping" THEN MaxCachedAge + MaxAttestTime - timer[k]
    ELSE IF task[k] = "attesting" THEN MaxAttestTime - timer[k]
    ELSE 0

\* While the NSM answers, no task gives up, time only brings the next document of
\* each key nearer, and only that document sets the clock back: no failure of the
\* past, however the tasks met it, leaves one waiting longer than a sleep and an
\* attest.  What fairness adds in DocumentsKeepBeingRenewed is that time passes.
THEOREM RenewalsComeDue ==
    Spec => [][Live /\ nsmUp =>
                \A k \in Keys :
                    /\ Due(k) \in 0 .. MaxCachedAge + MaxAttestTime
                    /\ task'[k] = "gaveUp" => task[k] = "gaveUp"
                    /\ Tick /\ task[k] \in {"sleeping", "attesting"} => Due(k)' = Due(k) - 1
                    /\ task[k] # "unstarted" /\ Due(k)' > Due(k) => attestedAge'[k] = 0]_vars
<1>. DEFINE ComesDue(k) ==
        /\ Due(k) \in 0 .. MaxCachedAge + MaxAttestTime
        /\ task'[k] = "gaveUp" => task[k] = "gaveUp"
        /\ Tick /\ task[k] \in {"sleeping", "attesting"} => Due(k)' = Due(k) - 1
        /\ task[k] # "unstarted" /\ Due(k)' > Due(k) => attestedAge'[k] = 0
<1>1. IInv /\ [Next]_vars => [Live /\ nsmUp => \A k \in Keys : ComesDue(k)]_vars
  <2>. SUFFICES ASSUME IInv, Next, Live, nsmUp, NEW k \in Keys PROVE ComesDue(k)
    OBVIOUS
  <2>0. /\ task \in [Keys -> TaskStates] /\ timer \in [Keys -> Nat]
        /\ attestedAge \in [Keys -> Nat] /\ timer[k] \in Nat
        /\ MaxCachedAge \in Nat /\ MaxAttestTime \in Nat
        /\ task[k] = "sleeping" => timer[k] <= MaxCachedAge
        /\ task[k] = "attesting" => timer[k] <= MaxAttestTime
    BY DurationAssumption DEF IInv, TypeOK, TaskInv
  <2>1. Due(k) \in 0 .. MaxCachedAge + MaxAttestTime
    BY <2>0 DEF Due
  <2>2. CASE Tick
    <3>1. task' = task /\ (task[k] \in {"sleeping", "attesting"} => timer'[k] = timer[k] + 1)
      BY <2>2 DEF Tick
    <3>. QED BY <2>0, <2>1, <3>1 DEF Due
  <2>3. ASSUME ~Tick, Due(k)' = Due(k), task'[k] = "gaveUp" => task[k] = "gaveUp" PROVE ComesDue(k)
    BY <2>1, <2>3
  <2>4. CASE AttestSigningKey
    <3>1. task[k] = "unstarted" /\ task'[k] = "sleeping" /\ ~Tick
      BY <2>4 DEF AttestSigningKey, NewAttestedKey, IInv, BootInv, Unstarted, EarlyGates, Tick
    <3>. QED BY <2>1, <3>1
  <2>5. ASSUME NEW j \in Keys, RefreshTask(j) PROVE ComesDue(k)
    <3>1. ~Tick
      BY <2>0, <2>5 DEF RefreshTask, Wake, RefreshSucceeds, RefreshFails, RefreshPanics, Tick
    <3>2. CASE j # k
      <4>1. UNCHANGED <<task[k], timer[k]>>
        BY <2>0, <2>5, <3>2 DEF RefreshTask, Wake, RefreshSucceeds, RefreshFails, RefreshPanics
      <4>. QED BY <2>3, <3>1, <4>1 DEF Due
    <3>3. CASE Wake(k)
      <4>1. /\ task[k] = "sleeping" /\ task'[k] = "attesting"
            /\ timer[k] = MaxCachedAge /\ timer'[k] = 0
        BY <2>0, <3>3 DEF Wake
      <4>2. Due(k)' = Due(k)
        BY <2>0, <4>1 DEF Due
      <4>. QED BY <2>3, <3>1, <4>1, <4>2
    <3>4. CASE RefreshSucceeds(k)
      <4>1. task'[k] = "sleeping" /\ attestedAge'[k] = 0
        BY <2>0, <3>4 DEF RefreshSucceeds, Store
      <4>. QED BY <2>1, <3>1, <4>1
    <3>5. CASE RefreshPanics(k)
      <4>1. task'[k] = "panicked"
        BY <2>0, <3>5 DEF RefreshPanics
      <4>2. Due(k)' = 0
        BY <4>1 DEF Due
      <4>. QED BY <2>1, <3>1, <4>1, <4>2
    <3>6. ~RefreshFails(j)
      BY DEF RefreshFails
    <3>. QED BY <2>5, <3>2, <3>3, <3>4, <3>5, <3>6 DEF RefreshTask
  <2>6. CASE \/ Boot /\ ~AttestSigningKey
             \/ TaskEnded \/ ServerStops \/ NsmChanges \/ Stopped
    <3>1. UNCHANGED taskVars
      BY <2>6 DEF Boot, PassGate, GateFails, ReadMeasurements, AttestEncryptionKey, NewAttestedKey,
                  TaskEnded, ServerStops, NsmChanges, Stopped, vars, taskVars
    <3>2. Due(k)' = Due(k) /\ task'[k] = task[k]
      BY <3>1 DEF Due, taskVars
    <3>. QED BY <2>2, <2>3, <3>2
  <2>. QED BY <2>2, <2>4, <2>5, <2>6 DEF Next
<1>. QED BY <1>1, InvAlways, PTL DEF Spec

-----------------------------------------------------------------------------
(* The refresh machinery implements ServedDocument. *)

LEMMA ServedInit == Init => Served!Init
BY DEF Init, Served!Init, Served!NoAge, ServedStatus, ServedAge

\* A gate passed is invisible until the last one, which opens the service.
LEMMA ServedBoot == IInv /\ IInv' /\ Boot => [Served!Next]_(Served!servedVars)
<1> SUFFICES ASSUME IInv, IInv', Boot PROVE [Served!Next]_(Served!servedVars)
  OBVIOUS
<1> USE DEF Served!servedVars, ServedStatus, ServedAge
<1>1. CASE ReadMeasurements
  <2>1. \A k \in Keys : ServedAge'[k] \in 0 .. StaleBound
    <3>1. ServedDocumentsBounded'
      BY ServedBound, PTL
    <3>2. QED
      BY <1>1, <3>1, DurationAssumption
         DEF ReadMeasurements, ServedDocumentsBounded, StaleBound, IInv, TypeOK, cacheVars
  <2>2. Served!Begin
    BY <1>1, <2>1 DEF ReadMeasurements, Served!Begin
  <2>3. QED
    BY <2>2 DEF Served!Next
<1>2. CASE GateFails
  <2>1. Served!Stop
    BY <1>2 DEF GateFails, Gates, Served!Stop, Served!NoAge
  <2>2. QED
    BY <2>1 DEF Served!Next
<1>3. CASE ~ReadMeasurements /\ ~GateFails
  BY <1>3 DEF Boot, PassGate, AttestEncryptionKey, AttestSigningKey, NewAttestedKey
<1>4. QED
  BY <1>1, <1>2, <1>3

\* A renewal while serving is a Renew of that key; all else a task does is hidden.
LEMMA ServedRefresh ==
    ASSUME NEW k \in Keys, IInv, RefreshTask(k)
    PROVE  [Served!Next]_(Served!servedVars)
<1> USE DEF Served!servedVars, ServedStatus, ServedAge
<1>1. CASE RefreshSucceeds(k) /\ main = "serving"
  <2>1. PICK stamp \in 0 .. timer[k] : Store(k, stamp)
    BY <1>1 DEF RefreshSucceeds
  <2>2. stamp < docAge[k] /\ stamp \in Nat /\ docAge[k] \in Nat /\ k \in cached
    BY <1>1, <2>1, DurationAssumption DEF RefreshSucceeds, IInv, TypeOK, TaskInv, DocInv
  <2>3. ServedAge' = [ServedAge EXCEPT ![k] = stamp]
    BY <1>1, <2>1 DEF RefreshSucceeds, Store, IInv, TypeOK
  <2>4. stamp \in 0 .. (ServedAge[k] - 1)
    BY <1>1, <2>2
  <2>5. Served!Renew(k)
    BY <1>1, <2>3, <2>4 DEF RefreshSucceeds, Served!Renew
  <2>6. QED
    BY <2>5 DEF Served!Next
<1>2. CASE RefreshSucceeds(k) /\ main # "serving"
  BY <1>2 DEF RefreshSucceeds
<1>3. CASE Wake(k) \/ RefreshFails(k) \/ RefreshPanics(k)
  BY <1>3 DEF Wake, RefreshFails, RefreshPanics, cacheVars
<1>4. QED
  BY <1>1, <1>2, <1>3 DEF RefreshTask

LEMMA ServedTick == IInv /\ IInv' /\ Tick => [Served!Next]_(Served!servedVars)
<1> SUFFICES ASSUME IInv, IInv', Tick PROVE [Served!Next]_(Served!servedVars)
  OBVIOUS
<1> USE DEF Served!servedVars, ServedStatus, ServedAge
<1>1. CASE main = "serving"
  <2>1. cached = Keys /\ main' = "serving"
    BY <1>1 DEF IInv, BootInv, Tick
  <2>2. ServedAge' = [k \in Keys |-> ServedAge[k] + 1]
    BY <1>1, <2>1 DEF Tick, Older
  <2>3. \A k \in Keys : ServedAge'[k] <= StaleBound
    <3>1. ServedDocumentsBounded'
      BY ServedBound, PTL
    <3>2. QED
      BY <2>1, <3>1 DEF ServedDocumentsBounded, StaleBound
  <2>4. Served!Pass
    BY <1>1, <2>1, <2>2, <2>3 DEF Served!Pass
  <2>5. QED
    BY <2>4 DEF Served!Next
<1>2. CASE main # "serving"
  BY <1>2 DEF Tick
<1>3. QED
  BY <1>1, <1>2

\* Readers of the two caches get the service ServedDocument promises: a document
\* for each key from the first request on, never older than StaleBound, only
\* replaced by younger ones, and nothing once the enclave has stopped.
THEOREM Refinement == Spec => ImplementsServedDocument
<1>1. IInv /\ IInv' /\ [Next]_vars => [Served!Next]_(Served!servedVars)
  <2> SUFFICES ASSUME IInv, IInv', [Next]_vars PROVE [Served!Next]_(Served!servedVars)
    OBVIOUS
  <2>1. CASE TaskEnded \/ ServerStops
    <3>1. Served!Stop
      BY <2>1 DEF TaskEnded, ServerStops, Served!Stop, Served!NoAge, ServedStatus, ServedAge
    <3>2. QED
      BY <3>1 DEF Served!Next
  <2>2. CASE NsmChanges \/ Stopped \/ UNCHANGED vars
    BY <2>2 DEF NsmChanges, Stopped, vars, cacheVars, Served!servedVars, ServedStatus, ServedAge
  <2>3. QED
    BY <2>1, <2>2, ServedBoot, ServedRefresh, ServedTick DEF Next
<1>2. QED
  BY <1>1, ServedInit, InvAlways, PTL DEF Spec, Served!Spec, ImplementsServedDocument

-----------------------------------------------------------------------------
(* The clients beside the cache (ClientFreshness): the invariant of the        *)
(* composition adds what a document is on its way with.                        *)

\* A panic ends its task at once, and main with it once main serves: the cached
\* document ages no further than the measurements gate takes.
PanicInv ==
    \A k \in Keys : task[k] = "panicked" =>
        attestedAge[k] <= OutageSpan(failures[k]) + MaxCachedAge + MaxAttestTime + MaxAttestTime

\* A document travels with the age it was read at.
TravelInv ==
    /\ travelling =>
        /\ bound \in Nat /\ age \in Nat /\ elapsed \in 0 .. MaxTransit
        /\ age <= StaleBound + elapsed
        /\ unbroken => age <= MaxCachedAge + 3 * MaxAttestTime + elapsed
    /\ verdict = "tooOld" =>
        /\ bound < OldestJudged
        /\ bound < OldestUnbroken \/ ~unbroken

FreshnessInv == IInv /\ PanicInv /\ TravelInv

-----------------------------------------------------------------------------
\* What the invariant of the cache says of a document whose key had no failure.
LEMMA UnbrokenAge ==
    ASSUME IInv, PanicInv, main = "serving", NEW k \in Keys, failures[k] = 0
    PROVE  docAge[k] <= MaxCachedAge + 3 * MaxAttestTime
PROOF
    <1>. USE DurationAssumption
    <1>1. k \in cached /\ task[k] # "unstarted" BY DEF IInv, BootInv
    <1>2. attestedAge[k] \in Nat /\ docAge[k] \in Nat /\ timer[k] \in Nat /\ task[k] \in TaskStates
      BY DEF IInv, TypeOK
    <1>3. task[k] # "gaveUp"
      <2>. SUFFICES ASSUME task[k] = "gaveUp" PROVE FALSE OBVIOUS
      <2>1. OutageSpan(failures[k]) + MaxAttestTime >= MaxServableAge BY DEF IInv, TaskInv
      <2>. QED BY <2>1, OutageSpanZero
    <1>4. attestedAge[k] <= MaxCachedAge + MaxAttestTime + MaxAttestTime
      <2>1. CASE task[k] = "sleeping" BY <1>2, <2>1, OutageSpanZero DEF IInv, TaskInv
      <2>2. CASE task[k] = "attesting" BY <1>2, <2>2, OutageSpanZero DEF IInv, TaskInv
      <2>3. CASE task[k] = "panicked" BY <2>3, OutageSpanZero DEF PanicInv
      <2>. QED BY <1>1, <1>2, <1>3, <2>1, <2>2, <2>3 DEF TaskStates, Finished
    <1>5. docAge[k] <= attestedAge[k] + MaxAttestTime BY <1>1 DEF IInv, DocInv
    <1>. QED BY <1>2, <1>4, <1>5

\* Time passes for a panicked task only while main reads the measurements.
LEMMA PanicStep == IInv /\ PanicInv /\ [Next]_vars => PanicInv'
PROOF
    <1>. SUFFICES ASSUME IInv, PanicInv, [Next]_vars, NEW k \in Keys, task'[k] = "panicked"
                  PROVE  (attestedAge[k] <= OutageSpan(failures[k]) + MaxCachedAge + MaxAttestTime + MaxAttestTime)'
      BY DEF PanicInv
    <1>. USE DurationAssumption
    <1>1. /\ task \in [Keys -> TaskStates] /\ timer \in [Keys -> Nat]
          /\ attestedAge \in [Keys -> Nat] /\ failures \in [Keys -> Nat] /\ mainTimer \in Nat
      BY DEF IInv, TypeOK
    <1>2. OutageSpan(failures[k]) \in Nat BY <1>1, OutageSpanNat
    <1>3. CASE task[k] = "panicked" /\ attestedAge'[k] = attestedAge[k] /\ failures' = failures
      BY <1>3 DEF PanicInv
    <1>4. CASE Tick
      <2>1. task[k] = "panicked" /\ failures' = failures BY <1>4 DEF Tick
      <2>2. main # "serving" /\ main \in AttestGates /\ mainTimer < MaxAttestTime
        BY <1>4, <2>1 DEF Tick, MayWait, Finished
      <2>3. main = "measurements"
        BY <2>1, <2>2 DEF IInv, BootInv, Unstarted, EarlyGates, AttestGates
      <2>4. attestedAge[k] <= MaxAttestTime + mainTimer BY <2>3 DEF IInv, BootInv
      <2>5. attestedAge'[k] <= attestedAge[k] + 1 BY <1>1, <1>4 DEF Tick, Older
      <2>6. attestedAge'[k] \in Nat BY <1>1, <1>4 DEF Tick, Older
      <2>. QED BY <1>1, <1>2, <2>1, <2>2, <2>4, <2>5, <2>6
    <1>5. CASE Boot
      BY <1>1, <1>5, <1>3 DEF Boot, PassGate, GateFails, ReadMeasurements, AttestEncryptionKey, AttestSigningKey,
          NewAttestedKey, Store, taskVars, cacheVars, IInv, BootInv, Unstarted, EarlyGates
    <1>6. ASSUME NEW j \in Keys, RefreshTask(j) PROVE (attestedAge[k] <= OutageSpan(failures[k]) + MaxCachedAge + MaxAttestTime + MaxAttestTime)'
      <2>1. CASE RefreshPanics(j) /\ j = k
        <3>1. attestedAge[k] <= OutageSpan(failures[k]) + MaxAttestTime + MaxCachedAge + timer[k] /\ timer[k] <= MaxAttestTime
          BY <2>1 DEF RefreshPanics, IInv, TaskInv
        <3>2. attestedAge' = attestedAge /\ failures' = failures BY <2>1 DEF RefreshPanics, cacheVars
        <3>. QED BY <1>1, <1>2, <3>1, <3>2
      <2>2. CASE j = k /\ ~RefreshPanics(j)
        BY <1>1, <1>6, <2>2 DEF RefreshTask, Wake, RefreshSucceeds, RefreshFails
      <2>3. CASE j # k
        <3>1. task[k] = "panicked" /\ attestedAge'[k] = attestedAge[k] /\ failures'[k] = failures[k]
          BY <1>1, <1>6, <2>3 DEF RefreshTask, Wake, RefreshSucceeds, RefreshFails, RefreshPanics, Store, cacheVars
        <3>. QED BY <3>1 DEF PanicInv, OutageSpan
      <2>. QED BY <2>1, <2>2, <2>3
    <1>7. CASE TaskEnded \/ ServerStops \/ NsmChanges \/ Stopped \/ UNCHANGED vars
      BY <1>3, <1>7 DEF TaskEnded, ServerStops, NsmChanges, Stopped, vars, taskVars, cacheVars
    <1>. QED BY <1>4, <1>5, <1>6, <1>7 DEF Next

LEMMA FreshnessInvInit == FreshnessInit => FreshnessInv
PROOF
    <1>1. FreshnessInit => IInv BY InvInit DEF FreshnessInit
    <1>2. FreshnessInit => PanicInv BY DEF FreshnessInit, Init, PanicInv
    <1>3. FreshnessInit => TravelInv BY DEF FreshnessInit, TravelInv
    <1>. QED BY <1>1, <1>2, <1>3 DEF FreshnessInv

\* Every step of the composition is one of the cache, or leaves it alone.
LEMMA CacheStep == FreshnessNext => [Next]_vars
BY DEF FreshnessNext, Ask, Judge, Lose, FreshnessTick, IdleTick, EnclaveStep, Next, vars

LEMMA TravelStep == FreshnessInv /\ [FreshnessNext]_allVars => TravelInv'
PROOF
    <1>. SUFFICES ASSUME FreshnessInv, [FreshnessNext]_allVars PROVE TravelInv' OBVIOUS
    <1>. USE DurationAssumption, FreshnessAssumption
    <1>. USE DEF OldestJudged, OldestUnbroken
    <1>0. StaleBound \in Nat BY DEF StaleBound
    <1>1. ASSUME NEW k \in Keys, Ask(k) PROVE TravelInv'
      <2>1. docAge[k] \in Nat /\ docAge[k] <= StaleBound
        BY <1>1, ServedBound DEF Ask, FreshnessInv, IInv, TypeOK, ServedDocumentsBounded
      <2>2. failures[k] = 0 => docAge[k] <= MaxCachedAge + 3 * MaxAttestTime
        BY <1>1, UnbrokenAge DEF Ask, FreshnessInv
      <2>3. verdict' # "tooOld" /\ age' = docAge[k] /\ elapsed' = 0 /\ bound' \in Nat BY <1>1 DEF Ask
      <2>4. unbroken' => failures[k] = 0 BY <1>1, Zenon DEF Ask
      <2>5. ASSUME unbroken' PROVE age' <= MaxCachedAge + 3 * MaxAttestTime + elapsed'
        BY <2>1, <2>2, <2>3, <2>4, <2>5
      <2>6. bound' \in Nat /\ age' \in Nat /\ elapsed' \in 0 .. MaxTransit /\ age' <= StaleBound + elapsed'
        BY <1>0, <2>1, <2>3
      <2>. QED BY <2>3, <2>5, <2>6, Zenon DEF TravelInv
    <1>2. CASE Judge
      <2>1. /\ bound \in Nat /\ age \in Nat /\ elapsed \in 0 .. MaxTransit
            /\ age <= StaleBound + elapsed
            /\ unbroken => age <= MaxCachedAge + 3 * MaxAttestTime + elapsed
        BY <1>2 DEF Judge, FreshnessInv, TravelInv
      <2>2. verdict' = "tooOld" => age > bound BY <1>2, <2>1 DEF Judge
      <2>3. ~travelling' /\ unbroken' = unbroken /\ bound' = bound BY <1>2 DEF Judge
      <2>4. ASSUME age > bound PROVE bound < OldestJudged BY <1>0, <2>1, <2>4
      <2>5. ASSUME age > bound, unbroken PROVE bound < OldestUnbroken BY <2>1, <2>5
      <2>. QED BY <2>2, <2>3, <2>4, <2>5, Zenon DEF TravelInv
    <1>3. CASE Lose BY <1>3 DEF Lose, TravelInv
    <1>4. CASE FreshnessTick
      <2>1. /\ travelling' = travelling /\ unbroken' = unbroken /\ verdict' = verdict /\ travelling
            /\ elapsed < MaxTransit /\ elapsed' = elapsed + 1 /\ age' = age + 1 /\ bound' = bound
        BY <1>4 DEF FreshnessTick
      <2>. QED BY <1>0, <2>1 DEF FreshnessInv, TravelInv
    <1>5. CASE IdleTick \/ EnclaveStep \/ UNCHANGED allVars
      BY <1>5 DEF IdleTick, EnclaveStep, allVars, clientVars, FreshnessInv, TravelInv
    <1>. QED BY <1>1, <1>2, <1>3, <1>4, <1>5 DEF FreshnessNext

LEMMA FreshnessInvStep == FreshnessInv /\ [FreshnessNext]_allVars => FreshnessInv'
PROOF
    <1>. SUFFICES ASSUME FreshnessInv, [FreshnessNext]_allVars PROVE FreshnessInv' OBVIOUS
    <1>1. [Next]_vars BY CacheStep DEF allVars, vars
    <1>2. IInv' BY <1>1, InvStep DEF FreshnessInv
    <1>3. PanicInv' BY <1>1, PanicStep DEF FreshnessInv
    <1>. QED BY <1>2, <1>3, TravelStep DEF FreshnessInv

LEMMA FreshnessInvAlways == FreshnessSpec => []FreshnessInv
BY FreshnessInvInit, FreshnessInvStep, PTL DEF FreshnessSpec

-----------------------------------------------------------------------------
\* For all durations and bounds, a client refuses a document for its age only
\* if its bound leaves out the failure check's slack or the journey.
THEOREM GenerousBoundsSuffice == FreshnessSpec => []GenerousClientsAreServed
PROOF
    <1>1. FreshnessInv => GenerousClientsAreServed BY DEF FreshnessInv, TravelInv, GenerousClientsAreServed
    <1>. QED BY <1>1, FreshnessInvAlways, PTL

\* For all durations and bounds, a client that allows for one refresh cycle is
\* refused nothing unless an attest of that key failed.
THEOREM RefusalsNeedFailures == FreshnessSpec => []RefusalsFollowFailures
PROOF
    <1>1. FreshnessInv => RefusalsFollowFailures BY DEF FreshnessInv, TravelInv, RefusalsFollowFailures
    <1>. QED BY <1>1, FreshnessInvAlways, PTL

-----------------------------------------------------------------------------
(* The composition implements its parts. *)

\* Clients that read the cache change nothing of it: every behaviour of the
\* composition is one of the enclave.  What is proved of Spec holds of it.
THEOREM CompositionImplementsCache == FreshnessSpec => Spec
PROOF
    <1>1. FreshnessInit => Init BY DEF FreshnessInit
    <1>2. [FreshnessNext]_allVars => [Next]_vars BY CacheStep DEF allVars, vars
    <1>. QED BY <1>1, <1>2, PTL DEF FreshnessSpec, Spec

\* The service of ServedDocument is kept while clients read, lose and judge
\* documents, in any order and at any time.
THEOREM CompositionServesDocuments == FreshnessSpec => ImplementsServedDocument
BY CompositionImplementsCache, Refinement, PTL
=============================================================================
