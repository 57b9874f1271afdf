------------------------ MODULE EnclaveExecutorProofs ------------------------
(***************************************************************************)
(* Theorems about EnclaveExecutor, for any number of workers and matches   *)
(* and any durations that satisfy ExecutorAssumption.                      *)
(*                                                                         *)
(* That a waiting task has waited no longer than the matches it met take   *)
(* does not say what is left of them.  ExecInv adds the units of time that *)
(* the running matches still have to go: a unit of time that passes for a  *)
(* waiting task takes one of them, and only a match that starts, and is    *)
(* met by the task, adds some.                                             *)
(***************************************************************************)
EXTENDS EnclaveExecutor, FiniteSetTheorems, TLAPS

\* The units of time the running matches still have to go.
ToRun ==
    {u \in Requests \X (1 .. MatchTime) : \E w \in Workers : work[w] = u[1] /\ u[2] <= left[w]}

Shape ==
    /\ queue \subseteq Requests \cup Control
    /\ work \in [Workers -> Requests \cup {NoTask}]
    /\ \A v, w \in Workers : work[v] = work[w] /\ ~Idle(w) => v = w
    /\ \A w \in Workers : work[w] \notin queue
    /\ left \in [Workers -> 0 .. MatchTime]
    /\ age \in [Control -> Nat]
    /\ met \in [Control -> SUBSET Requests]
    /\ probing \in BOOLEAN /\ inRotation \in BOOLEAN
    /\ probing <=> "probe" \in queue

\* The inductive bound: what a task has waited, and what the matches that run
\* have to go, is no more than what the matches it has met take.
Waited(t) ==
    IF t \in queue
    THEN /\ age[t] + Cardinality(ToRun) <= MatchTime * Cardinality(met[t])
         /\ Running \subseteq met[t]
         /\ met[t] \cap queue = {}
    ELSE age[t] = 0 /\ met[t] = {}

ExecInv == Shape /\ \A t \in Control : Waited(t)

-----------------------------------------------------------------------------
(* Work units and their number. *)

LEMMA Numbers ==
    /\ MatchTime \in Nat \ {0} /\ ProbeDeadline \in Nat \ {0}
    /\ NoTask \notin Requests /\ NoTask \notin Control /\ Control \cap Requests = {}
    /\ "probe" \in Control /\ "wake" \in Control
BY ExecutorAssumption DEF Control

\* The work of some matches is finite: MatchTime units each.
LEMMA UnitsOf ==
    ASSUME NEW M \in SUBSET Requests
    PROVE  /\ IsFiniteSet(M \X (1 .. MatchTime)) /\ IsFiniteSet(M) /\ Cardinality(M) \in Nat
           /\ Cardinality(M \X (1 .. MatchTime)) = MatchTime * Cardinality(M)
           /\ MatchTime * Cardinality(M) \in Nat
PROOF
    <1>1. IsFiniteSet(M) /\ Cardinality(M) \in Nat BY ExecutorAssumption, FS_Subset, FS_CardinalityType
    <1>2. IsFiniteSet(1 .. MatchTime) /\ Cardinality(1 .. MatchTime) = MatchTime BY Numbers, FS_Interval
    <1>3. IsFiniteSet(M \X (1 .. MatchTime)) /\ Cardinality(M \X (1 .. MatchTime)) = Cardinality(M) * MatchTime
      BY <1>1, <1>2, FS_Product
    <1>. QED BY <1>1, <1>3, Numbers

LEMMA ToRunFinite == IsFiniteSet(ToRun) /\ Cardinality(ToRun) \in Nat
PROOF
    <1>1. ToRun \subseteq Requests \X (1 .. MatchTime) BY DEF ToRun
    <1>2. IsFiniteSet(Requests \X (1 .. MatchTime)) BY UnitsOf
    <1>. QED BY <1>1, <1>2, FS_Subset, FS_CardinalityType

LEMMA BoundNat ==
    ASSUME Shape, NEW t \in Control
    PROVE  age[t] \in Nat /\ met[t] \in SUBSET Requests /\ MatchTime * Cardinality(met[t]) \in Nat
PROOF
    <1>1. age[t] \in Nat /\ met[t] \in SUBSET Requests BY DEF Shape
    <1>. QED BY <1>1, UnitsOf

\* Whatever starts no match keeps the bound of a task that goes on waiting.
LEMMA StillWaits ==
    ASSUME Shape, NEW t \in Control, Waited(t), t \in queue' <=> t \in queue,
           age'[t] = age[t], met'[t] = met[t],
           ToRun' \subseteq ToRun, Running' \subseteq Running, queue' \cap met[t] \subseteq queue
    PROVE  Waited(t)'
PROOF
    <1>1. CASE t \in queue
      <2>. DEFINE r == Cardinality(ToRun)
      <2>. DEFINE s == Cardinality(ToRun')
      <2>. DEFINE b == MatchTime * Cardinality(met[t])
      <2>1. r \in Nat /\ s \in Nat /\ s <= r
        <3>1. IsFiniteSet(ToRun) /\ r \in Nat BY ToRunFinite
        <3>2. ToRun' \in SUBSET ToRun OBVIOUS
        <3>. HIDE DEF r
        <3>3. IsFiniteSet(ToRun') /\ s <= Cardinality(ToRun) BY <3>1, <3>2, FS_Subset
        <3>4. s \in Nat BY <3>3, FS_CardinalityType
        <3>. QED BY <3>1, <3>3, <3>4 DEF r
      <2>2. age[t] + r <= b BY <1>1 DEF Waited
      <2>3. age[t] \in Nat /\ b \in Nat BY BoundNat
      <2>4. Running' \subseteq met'[t] /\ met'[t] \cap queue' = {} BY <1>1 DEF Waited
      <2>5. Waited(t)' <=> age[t] + s <= b BY <1>1, <2>4 DEF Waited
      <2>. HIDE DEF r, s, b
      <2>. QED BY <2>1, <2>2, <2>3, <2>5
    <1>2. CASE t \notin queue BY <1>2 DEF Waited
    <1>. QED BY <1>1, <1>2

\* The units still to run are units of running matches.
LEMMA ToRunOfRunning == ToRun \subseteq Running \X (1 .. MatchTime)
BY DEF ToRun, Running

\* A task that joins the queue waits for the matches that run.
LEMMA StartsToWait ==
    ASSUME Shape, NEW t \in Control, t \notin queue, Enqueue(t), UNCHANGED <<work, left>>
    PROVE  Waited(t)'
PROOF
    <1>. USE Numbers
    <1>. DEFINE units == Running \X (1 .. MatchTime)
    <1>1. Running \in SUBSET Requests BY DEF Running
    <1>2. IsFiniteSet(units) /\ Cardinality(units) = MatchTime * Cardinality(Running) BY <1>1, UnitsOf
    <1>3. queue' = queue \cup {t} /\ age'[t] = 0 /\ met'[t] = Running /\ Running' = Running /\ ToRun' = ToRun
      BY DEF Shape, Enqueue, Running, ToRun
    <1>4. Cardinality(ToRun) <= Cardinality(units) /\ Cardinality(ToRun) \in Nat
      <2>1. ToRun \in SUBSET units BY ToRunOfRunning
      <2>. QED BY <1>2, <2>1, FS_Subset, ToRunFinite
    <1>5. Running \cap queue' = {} BY <1>1, <1>3 DEF Shape, Running
    <1>6. t \in queue' BY <1>3
    <1>7. age'[t] + Cardinality(ToRun') <= MatchTime * Cardinality(met'[t]) BY <1>2, <1>3, <1>4
    <1>. QED BY <1>3, <1>5, <1>6, <1>7 DEF Waited

\* A task that is out of the queue waits for nothing.
LEMMA StopsWaiting ==
    ASSUME Shape, NEW t \in Control, Leaves(t) PROVE Waited(t)'
BY DEF Shape, Waited, Leaves

\* A match that starts is one that a waiting task meets.
LEMMA MeetsTheMatch ==
    ASSUME Shape, NEW t \in Control, t \in queue, Waited(t),
           NEW w \in Workers, NEW m \in Requests, TakeMatch(w, m)
    PROVE  Waited(t)'
PROOF
    <1>. USE Numbers
    <1>. DEFINE units == {m} \X (1 .. MatchTime)
    <1>1. PICK n \in 1 .. MatchTime : left' = [left EXCEPT ![w] = n] BY DEF TakeMatch
    <1>2. /\ queue' = queue \ {m} /\ work' = [work EXCEPT ![w] = m] /\ age' = age
          /\ met'[t] = met[t] \cup {m} /\ m \notin met[t] /\ t \in queue'
      BY DEF TakeMatch, Waited
    <1>3. ToRun' \subseteq ToRun \cup units
      <2>. SUFFICES ASSUME NEW u \in ToRun' PROVE u \in ToRun \cup units OBVIOUS
      <2>1. u \in Requests \X (1 .. MatchTime) BY DEF ToRun
      <2>2. PICK v \in Workers : work'[v] = u[1] /\ u[2] <= left'[v] BY DEF ToRun
      <2>3. CASE v = w BY <1>2, <2>1, <2>2, <2>3 DEF Shape
      <2>4. CASE v # w
        <3>1. work[v] = u[1] /\ u[2] <= left[v] BY <1>1, <1>2, <2>2, <2>4 DEF Shape
        <3>. QED BY <2>1, <3>1 DEF ToRun
      <2>. QED BY <2>3, <2>4
    <1>4. Running' \subseteq met'[t]
      <2>. SUFFICES ASSUME NEW x \in Running' PROVE x \in met'[t] OBVIOUS
      <2>1. PICK v \in Workers : work'[v] = x /\ x \in Requests BY DEF Running
      <2>2. v = w => x = m BY <1>2, <2>1 DEF Shape
      <2>3. v # w => x \in Running BY <1>2, <2>1 DEF Shape, Running
      <2>. QED BY <1>2, <2>2, <2>3 DEF Waited
    <1>5. met'[t] \cap queue' = {} BY <1>2 DEF Waited
    <1>. DEFINE a == age[t]
    <1>. DEFINE r == Cardinality(ToRun)
    <1>. DEFINE s == Cardinality(ToRun')
    <1>. DEFINE c == Cardinality(met[t])
    <1>6. r \in Nat /\ s \in Nat /\ s <= r + MatchTime
      <2>1. IsFiniteSet(ToRun) /\ Cardinality(ToRun) \in Nat BY ToRunFinite
      <2>2. IsFiniteSet(units) /\ Cardinality(units) = MatchTime * Cardinality({m}) BY UnitsOf
      <2>3. Cardinality({m}) = 1 BY FS_Singleton
      <2>. HIDE DEF units
      <2>4. /\ IsFiniteSet(ToRun \cup units)
            /\ Cardinality(ToRun \cup units) =
                  Cardinality(ToRun) + Cardinality(units) - Cardinality(ToRun \cap units)
        BY <2>1, <2>2, FS_Union
      <2>5. Cardinality(ToRun \cap units) \in Nat
        <3>1. IsFiniteSet(ToRun \cap units) BY <2>1, FS_Subset
        <3>. QED BY <3>1, FS_CardinalityType
      <2>6. IsFiniteSet(ToRun') /\ Cardinality(ToRun') <= Cardinality(ToRun \cup units)
        BY <1>3, <2>4, FS_Subset
      <2>7. Cardinality(ToRun') \in Nat BY <2>6, FS_CardinalityType
      <2>8. Cardinality(units) = MatchTime BY <2>2, <2>3
      <2>. QED BY <2>1, <2>4, <2>5, <2>6, <2>7, <2>8
    <1>7. c \in Nat /\ Cardinality(met'[t]) = c + 1
      <2>1. IsFiniteSet(met[t]) /\ c \in Nat BY BoundNat, UnitsOf
      <2>. QED BY <1>2, <2>1, FS_AddElement
    <1>8. a + r <= MatchTime * c BY DEF Waited
    <1>9. a \in Nat BY BoundNat
    <1>10. a + s <= MatchTime * (c + 1)
      <2>. HIDE DEF a, r, s, c
      <2>1. MatchTime * (c + 1) = MatchTime * c + MatchTime /\ MatchTime * c \in Nat BY <1>7
      <2>. QED BY <1>6, <1>8, <1>9, <2>1
    <1>11. age'[t] + Cardinality(ToRun') <= MatchTime * Cardinality(met'[t]) BY <1>2, <1>7, <1>10
    <1>. QED BY <1>2, <1>4, <1>5, <1>11 DEF Waited

\* Time that passes for a waiting task takes a unit from a running match.
LEMMA MatchesTakeTheTime ==
    ASSUME Shape, NEW t \in Control, t \in queue, Tick, Waited(t)
    PROVE  Waited(t)'
PROOF
    <1>. USE Numbers
    <1>1. PICK w \in Workers : ~Idle(w) BY DEF Tick
    <1>. DEFINE u == <<work[w], left[w]>>
    <1>2. /\ UNCHANGED <<queue, work, met>> /\ age'[t] = age[t] + 1
          /\ \A v \in Workers : left'[v] = IF Idle(v) THEN 0 ELSE left[v] - 1
      BY DEF Tick
    <1>3. work[w] \in Requests /\ left[w] \in 1 .. MatchTime BY <1>1 DEF Shape, Idle, Tick
    <1>4. u \in ToRun
      <2>1. left[w] <= left[w] BY <1>3
      <2>. QED BY <1>3, <2>1 DEF ToRun
    <1>5. ToRun' \subseteq ToRun \ {u}
      <2>. SUFFICES ASSUME NEW x \in ToRun' PROVE x \in ToRun /\ x # u OBVIOUS
      <2>1. x \in Requests \X (1 .. MatchTime) BY DEF ToRun
      <2>2. PICK v \in Workers : work'[v] = x[1] /\ x[2] <= left'[v] BY DEF ToRun
      <2>3. work[v] = x[1] /\ ~Idle(v) BY <1>2, <2>1, <2>2 DEF Idle
      <2>4. left[v] \in Nat /\ left'[v] = left[v] - 1 /\ x[2] \in Nat BY <1>2, <2>1, <2>3 DEF Shape
      <2>5. x[2] <= left[v] /\ x[2] # left[v] BY <2>2, <2>4
      <2>6. x \in ToRun BY <2>1, <2>3, <2>5 DEF ToRun
      <2>7. x # u
        <3>1. x = u => v = w BY <2>3, <1>1 DEF Shape
        <3>2. x = u => x[2] = left[w] OBVIOUS
        <3>. QED BY <2>5, <3>1, <3>2
      <2>. QED BY <2>6, <2>7
    <1>. DEFINE a == age[t]
    <1>. DEFINE r == Cardinality(ToRun)
    <1>. DEFINE s == Cardinality(ToRun')
    <1>. DEFINE b == MatchTime * Cardinality(met[t])
    <1>6. r \in Nat /\ s \in Nat /\ s <= r - 1
      <2>1. IsFiniteSet(ToRun) /\ Cardinality(ToRun) \in Nat BY ToRunFinite
      <2>. HIDE DEF u
      <2>2. IsFiniteSet(ToRun \ {u}) /\ Cardinality(ToRun \ {u}) = Cardinality(ToRun) - 1
        BY <1>4, <2>1, FS_RemoveElement
      <2>3. IsFiniteSet(ToRun') /\ Cardinality(ToRun') <= Cardinality(ToRun \ {u})
        BY <1>5, <2>2, FS_Subset
      <2>4. Cardinality(ToRun') \in Nat BY <2>3, FS_CardinalityType
      <2>. QED BY <2>1, <2>2, <2>3, <2>4
    <1>7. a + r <= b BY DEF Waited
    <1>8. a \in Nat /\ b \in Nat BY BoundNat
    <1>9. Running' = Running BY <1>2 DEF Running
    <1>10. Waited(t)' <=> a + 1 + s <= b BY <1>2, <1>9 DEF Waited
    <1>. HIDE DEF a, r, s, b
    <1>. QED BY <1>6, <1>7, <1>8, <1>10

-----------------------------------------------------------------------------
(* The steps. *)

\* A control task joins or leaves the queue: no match starts.
LEMMA ControlStep ==
    ASSUME ExecInv, NEW e \in Control,
           \/ e \notin queue /\ Enqueue(e) /\ probing' = (probing \/ e = "probe")
           \/ Leaves(e) /\ probing' = (probing /\ e # "probe"),
           UNCHANGED <<work, left>>, inRotation' \in BOOLEAN
    PROVE  ExecInv'
PROOF
    <1>. USE Numbers
    <1>1. Shape BY DEF ExecInv
    <1>2. (queue' = queue \cup {e} \/ queue' = queue \ {e}) /\ ToRun' = ToRun /\ Running' = Running
      BY DEF Enqueue, Leaves, ToRun, Running
    <1>3. age'[e] = 0 /\ age' = [age EXCEPT ![e] = 0] /\ \E M \in SUBSET Requests : met' = [met EXCEPT ![e] = M]
      <2>1. Running \in SUBSET Requests BY DEF Running
      <2>. QED BY <1>1, <2>1 DEF Enqueue, Leaves, Shape
    <1>4. Shape'
      <2>1. age' \in [Control -> Nat] BY <1>1, <1>3 DEF Shape
      <2>2. met' \in [Control -> SUBSET Requests] BY <1>1, <1>3 DEF Shape
      <2>3. \A w \in Workers : work'[w] \notin queue' BY <1>1, <1>2 DEF Shape
      <2>4. probing' \in BOOLEAN /\ (probing' <=> "probe" \in queue')
        BY <1>1 DEF Shape, Enqueue, Leaves
      <2>5. queue' \subseteq Requests \cup Control BY <1>1, <1>2 DEF Shape
      <2>. QED BY <1>1, <2>1, <2>2, <2>3, <2>4, <2>5 DEF Shape, Idle
    <1>5. ASSUME NEW t \in Control, t # e PROVE Waited(t)'
      <2>1. age'[t] = age[t] /\ met'[t] = met[t] BY <1>1, <1>3, <1>5 DEF Shape
      <2>2. Waited(t) /\ met[t] \in SUBSET Requests BY <1>1 DEF ExecInv, Shape
      <2>. QED BY <1>1, <1>2, <1>5, <2>1, <2>2, StillWaits
    <1>6. Waited(e)' BY <1>1, StartsToWait, StopsWaiting
    <1>. QED BY <1>4, <1>5, <1>6 DEF ExecInv

LEMMA ArriveStep == ASSUME ExecInv, NEW m \in Requests, Arrive(m) PROVE ExecInv'
PROOF
    <1>. USE Numbers
    <1>1. Shape BY DEF ExecInv
    <1>2. queue' = queue \cup {m} /\ UNCHANGED <<work, left, age, met, probing, inRotation>>
      BY DEF Arrive, controlVars, hostVars
    <1>3. m \notin Running /\ \A t \in Control : m \notin met[t] BY DEF Arrive, Fresh, AtEnclave
    <1>4. Shape'
      <2>1. \A w \in Workers : work'[w] \notin queue' BY <1>1, <1>2, <1>3 DEF Shape, Running
      <2>. QED BY <1>1, <1>2, <2>1 DEF Shape, Idle
    <1>5. ASSUME NEW t \in Control PROVE Waited(t)'
      <2>1. ToRun' = ToRun /\ Running' = Running BY <1>2 DEF ToRun, Running
      <2>2. Waited(t) BY DEF ExecInv
      <2>. QED BY <1>1, <1>2, <1>3, <2>1, <2>2, StillWaits
    <1>. QED BY <1>4, <1>5 DEF ExecInv

LEMMA TakeMatchStep == ASSUME ExecInv, NEW w \in Workers, NEW m \in Requests, TakeMatch(w, m) PROVE ExecInv'
PROOF
    <1>. USE Numbers
    <1>1. Shape BY DEF ExecInv
    <1>2. PICK n \in 1 .. MatchTime : left' = [left EXCEPT ![w] = n] BY DEF TakeMatch
    <1>3. /\ m \in queue /\ queue' = queue \ {m} /\ work' = [work EXCEPT ![w] = m]
          /\ met' = [t \in Control |-> IF t \in queue THEN met[t] \cup {m} ELSE met[t]]
          /\ UNCHANGED <<age, probing, inRotation>>
      BY DEF TakeMatch, hostVars
    <1>4. \A v \in Workers : v # w => work'[v] = work[v] /\ work[v] # m BY <1>1, <1>3 DEF Shape
    <1>5. work'[w] = m BY <1>1, <1>3 DEF Shape
    <1>6. Shape'
      <2>1. work' \in [Workers -> Requests \cup {NoTask}] BY <1>1, <1>3 DEF Shape
      <2>2. left' \in [Workers -> 0 .. MatchTime] BY <1>1, <1>2 DEF Shape
      <2>3. \A v \in Workers : work'[v] \notin queue' BY <1>1, <1>3, <1>4, <1>5 DEF Shape
      <2>4. \A u, v \in Workers : work'[u] = work'[v] /\ work'[v] # NoTask => u = v
        BY <1>1, <1>4, <1>5 DEF Shape, Idle
      <2>5. met' \in [Control -> SUBSET Requests] BY <1>1, <1>3 DEF Shape
      <2>. QED BY <1>1, <1>3, <2>1, <2>2, <2>3, <2>4, <2>5 DEF Shape, Idle
    <1>7. ASSUME NEW t \in Control PROVE Waited(t)'
      <2>1. Waited(t) BY DEF ExecInv
      <2>2. CASE t \in queue BY <1>1, <2>1, <2>2, MeetsTheMatch
      <2>3. CASE t \notin queue BY <1>3, <2>1, <2>3 DEF Waited
      <2>. QED BY <2>2, <2>3
    <1>. QED BY <1>6, <1>7 DEF ExecInv

LEMMA EndMatchStep == ASSUME ExecInv, NEW w \in Workers, EndMatch(w) PROVE ExecInv'
PROOF
    <1>. USE Numbers
    <1>1. Shape BY DEF ExecInv
    <1>2. /\ work' = [work EXCEPT ![w] = NoTask]
          /\ UNCHANGED <<queue, left, age, met, probing, inRotation>>
      BY DEF EndMatch, controlVars, hostVars
    <1>3. \A v \in Workers : work'[v] = IF v = w THEN NoTask ELSE work[v] BY <1>1, <1>2 DEF Shape
    <1>4. Shape'
      <2>1. work' \in [Workers -> Requests \cup {NoTask}] BY <1>1, <1>2 DEF Shape
      <2>2. NoTask \notin queue BY <1>1 DEF Shape
      <2>3. \A v \in Workers : work'[v] \notin queue' BY <1>1, <1>2, <1>3, <2>2 DEF Shape
      <2>4. \A u, v \in Workers : work'[u] = work'[v] /\ work'[v] # NoTask => u = v
        BY <1>1, <1>3 DEF Shape, Idle
      <2>. QED BY <1>1, <1>2, <2>1, <2>3, <2>4 DEF Shape, Idle
    <1>5. ASSUME NEW t \in Control PROVE Waited(t)'
      <2>1. ToRun' \subseteq ToRun /\ Running' \subseteq Running
        BY <1>2, <1>3 DEF ToRun, Running
      <2>2. Waited(t) BY DEF ExecInv
      <2>. QED BY <1>1, <1>2, <2>1, <2>2, StillWaits
    <1>. QED BY <1>4, <1>5 DEF ExecInv

LEMMA TickStep == ASSUME ExecInv, Tick PROVE ExecInv'
PROOF
    <1>. USE Numbers
    <1>1. Shape BY DEF ExecInv
    <1>2. UNCHANGED <<queue, work, met, probing, inRotation>> BY DEF Tick
    <1>3. Shape'
      <2>1. left' \in [Workers -> 0 .. MatchTime] BY <1>1 DEF Tick, Shape
      <2>2. age' \in [Control -> Nat] BY <1>1 DEF Tick, Shape
      <2>. QED BY <1>1, <1>2, <2>1, <2>2 DEF Shape, Idle
    <1>4. ASSUME NEW t \in Control PROVE Waited(t)'
      <2>1. CASE t \in queue BY <1>1, <2>1, MatchesTakeTheTime DEF ExecInv
      <2>2. CASE t \notin queue
        <3>1. age'[t] = 0 /\ met'[t] = {} BY <2>2 DEF Tick, ExecInv, Waited
        <3>. QED BY <1>2, <2>2, <3>1 DEF Waited
      <2>. QED BY <2>1, <2>2
    <1>. QED BY <1>3, <1>4 DEF ExecInv

LEMMA ExecInvInit == Init => ExecInv
PROOF
    <1>. SUFFICES ASSUME Init PROVE ExecInv OBVIOUS
    <1>. USE Numbers
    <1>1. Shape
      <2>1. /\ work \in [Workers -> Requests \cup {NoTask}] /\ left \in [Workers -> 0 .. MatchTime]
            /\ age \in [Control -> Nat] /\ met \in [Control -> SUBSET Requests]
        BY DEF Init
      <2>. QED BY <2>1 DEF Init, Shape, Idle
    <1>2. \A t \in Control : Waited(t) BY DEF Init, Waited
    <1>. QED BY <1>1, <1>2 DEF ExecInv

LEMMA ExecInvStep == ExecInv /\ [Next]_vars => ExecInv'
PROOF
    <1>. SUFFICES ASSUME ExecInv, [Next]_vars PROVE ExecInv' OBVIOUS
    <1>. USE Numbers
    <1>0. Shape BY DEF ExecInv
    <1>1. ASSUME NEW m \in Requests, Arrive(m) PROVE ExecInv' BY <1>1, ArriveStep
    <1>2. CASE Probe
      <2>1. "probe" \notin queue /\ probing' = (probing \/ "probe" = "probe") BY <1>0, <1>2 DEF Probe, Shape
      <2>. QED BY <1>0, <1>2, <2>1, ControlStep DEF Probe, Shape
    <1>3. CASE ProbeMissed
      <2>1. probing' = (probing /\ "probe" # "probe") BY <1>3 DEF ProbeMissed
      <2>. QED BY <1>3, <2>1, ControlStep DEF ProbeMissed
    <1>4. CASE RefreshDue
      <2>1. probing' = (probing \/ "wake" = "probe") BY <1>0, <1>4 DEF RefreshDue, hostVars, Shape
      <2>. QED BY <1>0, <1>4, <2>1, ControlStep DEF RefreshDue, hostVars, Shape
    <1>5. ASSUME NEW w \in Workers, Work(w) PROVE ExecInv'
      <2>1. ASSUME NEW m \in Requests, TakeMatch(w, m) PROVE ExecInv' BY <2>1, TakeMatchStep
      <2>2. CASE EndMatch(w) BY <2>2, EndMatchStep
      <2>3. CASE TakeProbe(w)
        <3>1. probing' = (probing /\ "probe" # "probe") BY <2>3 DEF TakeProbe
        <3>. QED BY <2>3, <3>1, ControlStep DEF TakeProbe
      <2>4. CASE TakeWake(w)
        <3>1. probing' = (probing /\ "wake" # "probe") BY <1>0, <2>4 DEF TakeWake, hostVars, Shape
        <3>. QED BY <1>0, <2>4, <3>1, ControlStep DEF TakeWake, hostVars, Shape
      <2>. QED BY <1>5, <2>1, <2>2, <2>3, <2>4 DEF Work
    <1>6. CASE Tick BY <1>6, TickStep
    <1>7. CASE UNCHANGED vars
      <2>1. UNCHANGED <<queue, work, left, age, met, probing, inRotation>> BY <1>7 DEF vars
      <2>2. Shape' BY <1>0, <2>1 DEF Shape, Idle
      <2>3. ASSUME NEW t \in Control PROVE Waited(t)'
        <3>1. ToRun' = ToRun /\ Running' = Running BY <2>1 DEF ToRun, Running
        <3>2. Waited(t) BY DEF ExecInv
        <3>. QED BY <1>0, <2>1, <3>1, <3>2, StillWaits
      <2>. QED BY <2>2, <2>3 DEF ExecInv
    <1>. QED BY <1>1, <1>2, <1>3, <1>4, <1>5, <1>6, <1>7 DEF Next

LEMMA ExecInvAlways == Spec => []ExecInv
BY ExecInvInit, ExecInvStep, PTL DEF Spec

-----------------------------------------------------------------------------
\* For any number of workers and matches, and whatever order the runtime takes
\* its tasks in, a health check or a refresh that is due waits for nothing but
\* matches, and for none longer than it takes.
THEOREM ControlWaitsBounded == Spec => []ControlWaitsOnlyForMatches
PROOF
    <1>1. ExecInv => ControlWaitsOnlyForMatches
      <2>. SUFFICES ASSUME ExecInv, NEW t \in Control
                    PROVE  age[t] <= MatchTime * Cardinality(met[t])
        BY DEF ControlWaitsOnlyForMatches
      <2>. DEFINE a == age[t]
      <2>. DEFINE r == Cardinality(ToRun)
      <2>. DEFINE b == MatchTime * Cardinality(met[t])
      <2>1. a \in Nat /\ r \in Nat /\ b \in Nat BY BoundNat, ToRunFinite DEF ExecInv
      <2>2. CASE t \in queue
        <3>1. a + r <= b BY <2>2 DEF ExecInv, Waited
        <3>. HIDE DEF a, r, b
        <3>2. a <= b BY <2>1, <3>1
        <3>. QED BY <3>2 DEF a, b
      <2>3. CASE t \notin queue
        <3>1. a = 0 BY <2>3 DEF ExecInv, Waited
        <3>. QED BY <2>1, <3>1
      <2>. QED BY <2>2, <2>3
    <1>. QED BY <1>1, ExecInvAlways, PTL

\* A pod leaves the rotation only when the matches that ran while the health
\* check waited are work up to its deadline: no number of refreshes, and no order
\* of the tasks, makes an enclave that has no match to run miss one.
THEOREM OnlyOverloadLeavesRotation ==
    Spec => [][inRotation /\ ~inRotation' => ProbeDeadline <= MatchTime * Cardinality(met["probe"])]_vars
PROOF
    <1>1. ControlWaitsOnlyForMatches /\ [Next]_vars =>
            [inRotation /\ ~inRotation' => ProbeDeadline <= MatchTime * Cardinality(met["probe"])]_vars
      <2>. SUFFICES ASSUME ControlWaitsOnlyForMatches, Next, inRotation, ~inRotation'
                    PROVE  ProbeDeadline <= MatchTime * Cardinality(met["probe"])
        OBVIOUS
      <2>1. ProbeMissed
        BY DEF Next, Arrive, Probe, RefreshDue, Work, TakeMatch, EndMatch, TakeProbe, TakeWake, Tick, hostVars
      <2>2. age["probe"] = ProbeDeadline BY <2>1 DEF ProbeMissed
      <2>. QED BY <2>2 DEF ControlWaitsOnlyForMatches, Control
    <1>. QED BY <1>1, ControlWaitsBounded, PTL DEF Spec

-----------------------------------------------------------------------------
(* A pod out of the rotation works off what it has. *)

\* The units of work at the enclave, of matches queued and running.
Units == ToRun \cup ((queue \cap Requests) \X (1 .. MatchTime))

\* No match is new, and none that runs has more to go.
LEMMA NothingNew ==
    ASSUME Shape, left' \in [Workers -> 0 .. MatchTime],
           queue' \cap Requests \subseteq queue,
           \A m \in Requests, w \in Workers : work'[w] = m =>
                m \in queue \/ (work[w] = m /\ left'[w] <= left[w])
    PROVE  Units' \subseteq Units /\ AtEnclave' \subseteq AtEnclave
PROOF
    <1>1. ASSUME NEW u \in Units' PROVE u \in Units
      <2>1. u \in Requests \X (1 .. MatchTime) BY <1>1 DEF Units, ToRun
      <2>2. CASE u \in ((queue \cap Requests) \X (1 .. MatchTime))' BY <2>2 DEF Units
      <2>3. CASE u \in ToRun'
        <3>1. PICK w \in Workers : work'[w] = u[1] /\ u[2] <= left'[w] BY <2>3 DEF ToRun
        <3>2. left[w] \in Nat /\ left'[w] \in Nat /\ u[2] \in Nat BY <2>1, Numbers DEF Shape
        <3>3. u[1] \in queue => u \in Units BY <2>1 DEF Units
        <3>4. work[w] = u[1] /\ left'[w] <= left[w] => u \in Units
          <4>1. left'[w] <= left[w] => u[2] <= left[w] BY <3>1, <3>2
          <4>. QED BY <2>1, <4>1 DEF Units, ToRun
        <3>. QED BY <2>1, <3>1, <3>3, <3>4
      <2>. QED BY <1>1, <2>2, <2>3 DEF Units
    <1>2. AtEnclave' \subseteq AtEnclave BY DEF AtEnclave, Running
    <1>. QED BY <1>1, <1>2

\* Time that passes takes a unit of work from a match at the enclave.
LEMMA TimeIsWorked ==
    ASSUME Shape, Tick, AtEnclave # {}
    PROVE  Units' # Units
PROOF
    <1>. USE Numbers
    <1>1. PICK w \in Workers : ~Idle(w) BY DEF AtEnclave, Running, Tick, Idle
    <1>. DEFINE u == <<work[w], left[w]>>
    <1>2. work[w] \in Requests /\ left[w] \in 1 .. MatchTime /\ left'[w] = left[w] - 1
      BY <1>1 DEF Shape, Idle, Tick
    <1>3. u \in Units
      <2>1. left[w] <= left[w] BY <1>2
      <2>. QED BY <1>2, <2>1 DEF Units, ToRun
    <1>4. u \notin Units'
      <2>1. work[w] \notin queue /\ queue' = queue /\ work' = work BY DEF Shape, Tick
      <2>2. ASSUME NEW v \in Workers, work[v] = work[w] PROVE ~(left[w] <= left'[v])
        <3>1. v = w BY <1>1, <2>2 DEF Shape
        <3>. QED BY <1>2, <3>1
      <2>. QED BY <2>1, <2>2 DEF Units, ToRun
    <1>. QED BY <1>3, <1>4

\* Out of the rotation the matches at the enclave only become fewer, and a unit
\* of time is a unit of work done: there is at most MatchTime of each, so the
\* overload that took the pod out is over after a bounded time.  What fairness
\* adds in PodsComeBack is that time runs on and the next health check is sent.
THEOREM OverloadIsWorkedOff ==
    Spec => [][~inRotation =>
                  /\ Units' \subseteq Units /\ AtEnclave' \subseteq AtEnclave
                  /\ Tick /\ AtEnclave # {} => Units' # Units]_vars
PROOF
    <1>. DEFINE Shrinks ==
            /\ Units' \subseteq Units /\ AtEnclave' \subseteq AtEnclave
            /\ Tick /\ AtEnclave # {} => Units' # Units
    <1>1. ExecInv /\ ExecInv' /\ [Next]_vars => [~inRotation => Shrinks]_vars
      <2>. SUFFICES ASSUME ExecInv, ExecInv', Next, ~inRotation PROVE Shrinks OBVIOUS
      <2>0. Shape /\ left' \in [Workers -> 0 .. MatchTime] BY DEF ExecInv, Shape
      <2>. SUFFICES
                /\ queue' \cap Requests \subseteq queue
                /\ \A m \in Requests, w \in Workers : work'[w] = m =>
                      m \in queue \/ (work[w] = m /\ left'[w] <= left[w])
        BY <2>0, NothingNew, TimeIsWorked
      <2>1. \A w \in Workers : left[w] \in Nat BY <2>0, Numbers DEF Shape
      <2>2. ASSUME UNCHANGED <<work, left>>
            PROVE  \A m \in Requests, w \in Workers : work'[w] = m => work[w] = m /\ left'[w] <= left[w]
        BY <2>1, <2>2
      <2>3. ASSUME NEW e \in Control, Enqueue(e) \/ Leaves(e) PROVE queue' \cap Requests \subseteq queue
        BY <2>3, Numbers DEF Enqueue, Leaves
      <2>4. CASE Probe \/ ProbeMissed \/ RefreshDue
        BY <2>2, <2>3, <2>4, Numbers DEF Probe, ProbeMissed, RefreshDue
      <2>5. ASSUME NEW w \in Workers, NEW m \in Requests, TakeMatch(w, m)
            PROVE  /\ queue' \cap Requests \subseteq queue
                   /\ \A n \in Requests, v \in Workers : work'[v] = n =>
                         n \in queue \/ (work[v] = n /\ left'[v] <= left[v])
        <3>1. m \in queue /\ queue' = queue \ {m} /\ work' = [work EXCEPT ![w] = m] BY <2>5 DEF TakeMatch
        <3>2. PICK t \in 1 .. MatchTime : left' = [left EXCEPT ![w] = t] BY <2>5 DEF TakeMatch
        <3>3. ASSUME NEW n \in Requests, NEW v \in Workers, work'[v] = n
              PROVE  n \in queue \/ (work[v] = n /\ left'[v] <= left[v])
          <4>1. CASE v = w BY <2>0, <3>1, <3>3, <4>1 DEF Shape
          <4>2. CASE v # w
            <5>1. left'[v] = left[v] /\ work'[v] = work[v] BY <2>0, <3>1, <3>2, <4>2 DEF Shape
            <5>. QED BY <2>1, <3>3, <5>1
          <4>. QED BY <4>1, <4>2
        <3>. QED BY <3>1, <3>3
      <2>6. ASSUME NEW w \in Workers, EndMatch(w)
            PROVE  /\ queue' \cap Requests \subseteq queue
                   /\ \A n \in Requests, v \in Workers : work'[v] = n => work[v] = n /\ left'[v] <= left[v]
        BY <2>0, <2>1, <2>6, Numbers DEF EndMatch, Shape
      <2>7. CASE Tick
        <3>1. \A w \in Workers : left'[w] <= left[w]
          <4>. SUFFICES ASSUME NEW w \in Workers PROVE left'[w] <= left[w] OBVIOUS
          <4>1. left'[w] = IF Idle(w) THEN 0 ELSE left[w] - 1 BY <2>7 DEF Tick
          <4>. QED BY <2>1, <4>1
        <3>. QED BY <2>7, <3>1 DEF Tick
      <2>8. ~(\E m \in Requests : Arrive(m)) BY DEF Arrive
      <2>. QED BY <2>2, <2>3, <2>4, <2>5, <2>6, <2>7, <2>8, Numbers DEF Next, Work, TakeProbe, TakeWake
    <1>. QED BY <1>1, ExecInvAlways, PTL DEF Spec
=============================================================================
