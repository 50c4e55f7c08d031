------------------------ MODULE AsyncTaskRuntimeProof ------------------------
(***************************************************************************)
(* Proofs about AsyncTaskRuntime for every set of submissions, every       *)
(* assignment of keys, every number of slots, and any number of restarts.  *)
(***************************************************************************)
EXTENDS AsyncTaskRuntime, FiniteSetTheorems, SequenceTheorems, TLAPS

RunningIn(s) == {t \in Ids : s[t] = "running"}

\* The queue q, the leases w and the count a agree with the states s.
Sound(q, w, a, s) ==
    /\ s \in [Ids -> States]
    /\ q = {t \in Ids : s[t] = "queued"}
    /\ \A t, u \in RunningIn(s) : t # u => Writes[t] \cap Writes[u] = {}
    /\ w = KeysWrittenBy(RunningIn(s))
    /\ a = Cardinality(RunningIn(s))

\* LeasesExclusive says that the runtime's own variables are sound.
LEMMA SoundIsExclusive ==
    ASSUME LeaseTypes
    PROVE  LeasesExclusive <=> Sound(pending, writers, active, state)
  BY DEF LeaseTypes, LeasesExclusive, Sound, Running, RunningIn

\* Any set of tasks is finite.
LEMMA FiniteTasks ==
    ASSUME NEW S \in SUBSET Ids
    PROVE  IsFiniteSet(S) /\ Cardinality(S) \in Nat
  BY FS_Subset, FS_CardinalityType, RuntimeAssumption DEF RuntimeAssumption

-----------------------------------------------------------------------------
(* What pump() admits. *)

\* The tasks of an admission come from the queue, are all different, write
\* no key that was leased and no key of one another, and fit into the slots.
Sensible(q, w, a, adm) ==
    /\ ToSet(adm) \subseteq q
    /\ Cardinality(ToSet(adm)) = Len(adm)
    /\ \A t \in ToSet(adm) : Writes[t] \cap w = {}
    /\ \A t, u \in ToSet(adm) : t # u => Writes[t] \cap Writes[u] = {}
    /\ a + Len(adm) <= MaxActive
    /\ a + Len(adm) = MaxActive \/ Candidates(q, w, ToSet(adm)) = {}

LEMMA AdmissionFacts ==
    ASSUME NEW o, NEW q \in SUBSET Ids, NEW w, NEW a \in Nat,
           NEW adm \in Seq(q), Admission(o, q, w, a, adm)
    PROVE  Sensible(q, w, a, adm)
<1> USE RuntimeAssumption DEF RuntimeAssumption
<1> DEFINE n == Len(adm)
<1> DEFINE before(k) == {adm[l] : l \in 1..(k - 1)}
<1>1. DOMAIN adm = 1..n /\ n \in Nat /\ \A k \in 1..n : adm[k] \in q
  OBVIOUS
<1>2. ToSet(adm) = {adm[k] : k \in 1..n}
  BY <1>1 DEF ToSet
<1>3. \A k \in 1..n : adm[k] \in Candidates(q, w, before(k))
  BY <1>1 DEF Admission
<1>4. \A k \in 1..n : /\ adm[k] \in q \ before(k)
                      /\ Writes[adm[k]] \cap w = {}
                      /\ Writes[adm[k]] \cap KeysWrittenBy(before(k)) = {}
  BY <1>3 DEF Candidates, Eligible
<1>5. \A k, l \in 1..n : l < k => adm[l] \in before(k)
  OBVIOUS
<1>6. \A k, l \in 1..n : l < k => adm[l] # adm[k]
  BY <1>4, <1>5
<1>7. \A k, l \in 1..n : l < k => Writes[adm[k]] \cap Writes[adm[l]] = {}
  <2> SUFFICES ASSUME NEW k \in 1..n, NEW l \in 1..n, l < k
               PROVE  Writes[adm[k]] \cap Writes[adm[l]] = {}
    OBVIOUS
  <2>1. Writes[adm[l]] \subseteq KeysWrittenBy(before(k))
    BY <1>5 DEF KeysWrittenBy
  <2> QED
    BY <1>4, <2>1
<1>8. \A k, l \in 1..n : k # l => adm[k] # adm[l] /\ Writes[adm[k]] \cap Writes[adm[l]] = {}
  <2> SUFFICES ASSUME NEW k \in 1..n, NEW l \in 1..n, k # l
               PROVE  adm[k] # adm[l] /\ Writes[adm[k]] \cap Writes[adm[l]] = {}
    OBVIOUS
  <2>1. l < k \/ k < l
    OBVIOUS
  <2> QED
    BY <2>1, <1>6, <1>7
<1>9. \A t, u \in ToSet(adm) : t # u => Writes[t] \cap Writes[u] = {}
  BY <1>2, <1>8
<1>10. Cardinality(ToSet(adm)) = n
  <2>1. adm \in Surjection(1..n, ToSet(adm))
    BY <1>1, <1>2 DEF Surjection
  <2>2. adm \in Injection(1..n, ToSet(adm))
    BY <1>1, <1>2, <1>8 DEF Injection, IsInjective
  <2>3. IsFiniteSet(1..n) /\ Cardinality(1..n) = n
    BY FS_Interval
  <2> QED
    BY <2>1, <2>2, <2>3, FS_Surjection
<1>11. ToSet(adm) \subseteq q
  BY <1>2, <1>1
<1> QED
  BY <1>1, <1>2, <1>4, <1>9, <1>10, <1>11 DEF Admission, Sensible

\* No task but a queued one changes its state, and it is then running.
OnlyAdmits(s, s2) ==
    \A t \in Ids : /\ s[t] # "queued" => s2[t] = s[t]
                   /\ s[t] = "queued" => s2[t] \in LiveStates

\* The tasks of adm are admitted: q, w, a and s become q2, w2, a2 and s2.
Admits(o, q, w, a, s, adm, q2, w2, a2, s2) ==
    /\ Admission(o, q, w, a, adm)
    /\ q2 = q \ ToSet(adm)
    /\ w2 = w \cup KeysWrittenBy(ToSet(adm))
    /\ a2 = a + Len(adm)
    /\ s2 = [t \in Ids |-> IF t \in ToSet(adm) THEN "running" ELSE s[t]]

\* What is then true: the table is sound, it has the types of the runtime's
\* variables, and no task waits that could run.
WellLeased(s, q2, w2, a2, s2) ==
    /\ Sound(q2, w2, a2, s2)
    /\ w2 \subseteq Keys
    /\ a2 \in 0..MaxActive
    /\ a2 < MaxActive => \A t \in q2 : ~Eligible(t, w2)
    /\ OnlyAdmits(s, s2)

\* Admitting those tasks keeps the lease table sound and leaves no task waiting
\* that could run; only tasks of the queue change their state.
LEMMA AdmissionKeepsSound ==
    ASSUME NEW o, NEW q \in SUBSET Ids, NEW w, NEW a \in Nat, NEW s,
           Sound(q, w, a, s), NEW adm \in Seq(q),
           NEW q2, NEW w2, NEW a2, NEW s2,
           Admits(o, q, w, a, s, adm, q2, w2, a2, s2)
    PROVE  WellLeased(s, q2, w2, a2, s2)
<1> DEFINE taken == ToSet(adm)
<1> DEFINE n == Len(adm)
<1>1. /\ q2 = q \ taken
      /\ w2 = w \cup KeysWrittenBy(taken)
      /\ a2 = a + n /\ n \in Nat
      /\ s2 = [t \in Ids |-> IF t \in taken THEN "running" ELSE s[t]]
      /\ Admission(o, q, w, a, adm)
  BY DEF Admits
<1> USE RuntimeAssumption DEF RuntimeAssumption
<1>2. q \subseteq Ids /\ RunningIn(s) \subseteq Ids /\ q \cap RunningIn(s) = {}
  BY DEF Sound, RunningIn
<1>3. a \in Nat /\ a = Cardinality(RunningIn(s)) /\ IsFiniteSet(RunningIn(s))
  BY <1>2, FiniteTasks DEF Sound
<1>4. /\ taken \subseteq q
      /\ Cardinality(taken) = n
      /\ \A t \in taken : Writes[t] \cap w = {}
      /\ \A t, u \in taken : t # u => Writes[t] \cap Writes[u] = {}
      /\ a + n <= MaxActive
      /\ a + n = MaxActive \/ Candidates(q, w, taken) = {}
  <2>1. Sensible(q, w, a, adm)
    BY <1>1, AdmissionFacts
  <2> QED
    BY <2>1 DEF Sensible
<1> HIDE DEF taken, n
<1>5. s2 \in [Ids -> States]
  BY <1>1, <1>2, <1>4 DEF Sound, States, LiveStates
<1>6. RunningIn(s2) = RunningIn(s) \cup taken
  BY <1>1, <1>2, <1>4 DEF RunningIn
<1>7. q2 = {t \in Ids : s2[t] = "queued"}
  BY <1>1, <1>2, <1>4 DEF Sound
<1>8. \A t, u \in RunningIn(s2) : t # u => Writes[t] \cap Writes[u] = {}
  <2>1. \A t \in RunningIn(s) : Writes[t] \subseteq w
    BY DEF Sound, KeysWrittenBy
  <2>2. \A t, u \in RunningIn(s) : t # u => Writes[t] \cap Writes[u] = {}
    BY DEF Sound
  <2>3. \A t \in RunningIn(s), u \in taken : Writes[t] \cap Writes[u] = {}
    BY <1>4, <2>1
  <2> QED
    BY <1>4, <1>6, <2>2, <2>3
<1>9. w2 = KeysWrittenBy(RunningIn(s2))
  BY <1>1, <1>6 DEF Sound, KeysWrittenBy
<1>10. a2 = Cardinality(RunningIn(s2)) /\ a2 \in 0..MaxActive
  <2>1. IsFiniteSet(taken) /\ RunningIn(s) \cap taken = {}
    BY <1>2, <1>4, FiniteTasks
  <2>2. Cardinality(RunningIn(s) \cap taken) = 0
    BY <2>1, FS_EmptySet
  <2>3. Cardinality(RunningIn(s) \cup taken) =
            Cardinality(RunningIn(s)) + Cardinality(taken) - Cardinality(RunningIn(s) \cap taken)
    BY <1>3, <2>1, FS_Union
  <2>4. Cardinality(RunningIn(s) \cup taken) = a + n
    BY <1>1, <1>3, <1>4, <2>2, <2>3
  <2>5. a + n \in 0..MaxActive
    BY <1>1, <1>3, <1>4
  <2> QED
    BY <1>1, <1>6, <2>4, <2>5
<1>11. w2 \subseteq Keys
  BY <1>9 DEF KeysWrittenBy, RunningIn
<1>12. a2 < MaxActive => \A t \in q2 : ~Eligible(t, w2)
  <2> SUFFICES ASSUME a2 < MaxActive, NEW t \in q2
               PROVE  ~Eligible(t, w2)
    OBVIOUS
  <2>1. Candidates(q, w, taken) = {}
    BY <1>1, <1>3, <1>4
  <2> QED
    BY <1>1, <2>1 DEF Candidates
<1>13. OnlyAdmits(s, s2)
  BY <1>1, <1>4 DEF Sound, OnlyAdmits, LiveStates
<1>14. Sound(q2, w2, a2, s2)
  BY <1>5, <1>7, <1>8, <1>9, <1>10 DEF Sound
<1> QED
  BY <1>10, <1>11, <1>12, <1>13, <1>14 DEF WellLeased

-----------------------------------------------------------------------------
(* What every handler that pumps establishes. *)

Table ==
    /\ Sound(pending, writers, active, state)
    /\ pending \subseteq Ids
    /\ writers \subseteq Keys
    /\ active \in 0..MaxActive
    /\ NoIdleSlot

LEMMA PumpKeepsTable ==
    ASSUME NEW q \in SUBSET Ids, NEW w, NEW a \in Nat, NEW s,
           Sound(q, w, a, s), Pump(q, w, a, s)
    PROVE  Table' /\ OnlyAdmits(s, state')
<1>1. PICK adm \in SeqOf(q, MaxActive) :
          Admits(order', q, w, a, s, adm, pending', writers', active', state')
  BY DEF Pump, Admits
<1>2. adm \in Seq(q)
  BY DEF SeqOf
<1>3. WellLeased(s, pending', writers', active', state')
  BY <1>1, <1>2, AdmissionKeepsSound
<1>4. pending' \subseteq Ids
  BY <1>1 DEF Admits
<1> QED
  BY <1>3, <1>4 DEF WellLeased, Table, NoIdleSlot

-----------------------------------------------------------------------------
(* The handlers find the table sound again before they pump. *)

\* A new task is queued; records that have ended may be forgotten.
LEMMA SubmitKeepsSound ==
    ASSUME Table, LeaseTypes, NEW t \in Ids, state[t] = "unknown", NEW s,
           s = [u \in Ids |-> IF u = t THEN "queued"
                              ELSE IF u \in Pruned THEN "forgotten" ELSE state[u]]
    PROVE  /\ Sound(pending \cup {t}, writers, active, s)
           /\ RunningIn(s) = Running
<1>1. Sound(pending, writers, active, state)
  BY DEF Table
<1>2. \A u \in Pruned : state[u] \notin LiveStates
  BY DEF Pruned, Finished, EndStates, LiveStates
<1>3. s \in [Ids -> States]
  BY DEF LeaseTypes, States, LiveStates
<1>4. RunningIn(s) = RunningIn(state)
  BY <1>2 DEF RunningIn, LiveStates
<1>5. pending \cup {t} = {u \in Ids : s[u] = "queued"}
  BY <1>1, <1>2 DEF Sound, LiveStates
<1> QED
  BY <1>1, <1>3, <1>4, <1>5 DEF Sound, RunningIn, Running

\* A running task ends and gives back its keys and its slot.
LEMMA GiveBackKeepsSound ==
    ASSUME Table, LeaseTypes, NEW t \in Ids, state[t] = "running",
           NEW final \in EndStates, NEW s, s = [state EXCEPT ![t] = final]
    PROVE  /\ Sound(pending, writers \ Writes[t], OneLess(active), s)
           /\ OneLess(active) \in Nat
           /\ RunningIn(s) = Running \ {t}
<1> USE RuntimeAssumption DEF RuntimeAssumption
<1>1. Sound(pending, writers, active, state)
  BY DEF Table
<1>2. s \in [Ids -> States]
  BY DEF LeaseTypes, States
<1>3. RunningIn(s) = Running \ {t} /\ t \in Running
  BY DEF RunningIn, Running, LeaseTypes, EndStates
<1>4. pending = {u \in Ids : s[u] = "queued"}
  BY <1>1 DEF Sound, LeaseTypes, EndStates
<1>5. \A u, v \in Running : u # v => Writes[u] \cap Writes[v] = {}
  BY <1>1 DEF Sound, RunningIn, Running
<1>6. writers = KeysWrittenBy(Running) /\ active = Cardinality(Running)
  BY <1>1 DEF Sound, RunningIn, Running
<1>7. writers \ Writes[t] = KeysWrittenBy(Running \ {t})
  BY <1>3, <1>5, <1>6 DEF KeysWrittenBy
<1>8. OneLess(active) = Cardinality(Running \ {t}) /\ OneLess(active) \in Nat
  <2>1. IsFiniteSet(Running) /\ Cardinality(Running) \in Nat
    BY FiniteTasks DEF Running
  <2>2. Cardinality(Running \ {t}) = Cardinality(Running) - 1
    BY <1>3, <2>1, FS_RemoveElement
  <2>3. Cardinality(Running \ {t}) \in Nat
    BY FiniteTasks DEF Running
  <2> QED
    BY <1>6, <2>1, <2>2, <2>3 DEF OneLess
<1>9. \A u, v \in RunningIn(s) : u # v => Writes[u] \cap Writes[v] = {}
  BY <1>3, <1>5
<1> QED
  BY <1>2, <1>3, <1>4, <1>7, <1>8, <1>9 DEF Sound

\* A queued task ends without ever holding anything.
LEMMA WithdrawKeepsSound ==
    ASSUME Table, LeaseTypes, NEW t \in Ids, state[t] = "queued",
           NEW final \in EndStates, NEW s, s = [state EXCEPT ![t] = final]
    PROVE  /\ Sound(pending \ {t}, writers, active, s)
           /\ RunningIn(s) = Running
<1>1. Sound(pending, writers, active, state)
  BY DEF Table
<1>2. s \in [Ids -> States]
  BY DEF LeaseTypes, States
<1>3. RunningIn(s) = RunningIn(state)
  BY DEF RunningIn, LeaseTypes, EndStates
<1>4. pending \ {t} = {u \in Ids : s[u] = "queued"}
  BY <1>1 DEF Sound, LeaseTypes, EndStates
<1> QED
  BY <1>1, <1>2, <1>3, <1>4 DEF Sound, RunningIn, Running

-----------------------------------------------------------------------------
(* The inductive invariant, and the ways a record may change its state. *)

IInv == LeaseTypes /\ LeasesExclusive /\ NoIdleSlot /\ DeadlineArmed

LEMMA TableOfIInv ==
    ASSUME IInv
    PROVE  Table /\ LeaseTypes /\ active \in Nat
  BY SoundIsExclusive, RuntimeAssumption DEF IInv, Table, LeaseTypes, RuntimeAssumption

LEMMA IInvOfTable ==
    ASSUME Table', deadline' = Running', deferred' \subseteq Ids, work' \subseteq Ids
    PROVE  IInv'
<1>1. Sound(pending', writers', active', state')
  BY DEF Table
<1>2. LeaseTypes'
  <2>1. deadline' \subseteq Ids
    BY DEF Running
  <2> QED
    BY <1>1, <2>1 DEF Table, LeaseTypes, Sound
<1>3. LeasesExclusive'
  BY <1>1 DEF Sound, LeasesExclusive, Running, RunningIn
<1> QED
  BY <1>2, <1>3 DEF IInv, Table, DeadlineArmed

OverStates == EndStates \cup {"forgotten"}

\* A record may be admitted from the queue, may end and may be forgotten; it
\* never goes back.
Forward(from, to) ==
    /\ from = "unknown" => to \in {"unknown", "queued", "running"}
    /\ from = "queued" => to \in {"queued", "running"} \cup OverStates
    /\ from = "running" => to \in {"running"} \cup OverStates
    /\ from \in OverStates => to \in OverStates

Moves == \A t \in Ids : Forward(state[t], state'[t])

\* A record that has ended stays as it is, or is forgotten.
Settled == \A t \in Ids : Finished(t) => state'[t] \in {state[t], "forgotten"}

LEMMA SubmitStep ==
    ASSUME IInv, NEW t \in Ids, Submit(t)
    PROVE  IInv' /\ Moves /\ Settled
<1> DEFINE s == [u \in Ids |-> IF u = t THEN "queued"
                               ELSE IF u \in Pruned THEN "forgotten" ELSE state[u]]
<1>1. Table /\ LeaseTypes /\ active \in Nat
  BY TableOfIInv
<1>2. state[t] = "unknown" /\ Pump(pending \cup {t}, writers, active, s)
  BY DEF Submit
<1>3. Sound(pending \cup {t}, writers, active, s) /\ RunningIn(s) = Running
  BY <1>1, <1>2, SubmitKeepsSound
<1>4. pending \cup {t} \in SUBSET Ids
  BY <1>1 DEF LeaseTypes
<1>5. \A u \in Ids : s[u] = IF u = t THEN "queued"
                            ELSE IF u \in Pruned THEN "forgotten" ELSE state[u]
  OBVIOUS
<1> HIDE DEF s
<1>6. Table' /\ OnlyAdmits(s, state')
  BY <1>1, <1>2, <1>3, <1>4, PumpKeepsTable
<1>7. Running \subseteq Running'
  BY <1>3, <1>6 DEF OnlyAdmits, Running, RunningIn
<1>8. deadline' = Running'
  BY <1>7 DEF Submit, Admitted, IInv, DeadlineArmed
<1>9. deferred' \subseteq Ids /\ work' \subseteq Ids
  BY <1>1 DEF Submit, Admitted, Running, LeaseTypes
<1>10. IInv'
  BY <1>6, <1>8, <1>9, IInvOfTable
<1>11. Moves
  <2>1. \A u \in Pruned : state[u] \in EndStates
    BY DEF Pruned, Finished
  <2> QED
    BY <1>2, <1>5, <1>6, <2>1
       DEF Moves, Forward, OnlyAdmits, OverStates, EndStates, LiveStates
<1>12. Settled
  BY <1>2, <1>5, <1>6 DEF Settled, OnlyAdmits, Finished, EndStates
<1> QED
  BY <1>10, <1>11, <1>12

\* A running task ends; t leaves the table and others may be admitted.
LEMMA GiveBackStep ==
    ASSUME IInv, NEW t \in Ids, state[t] = "running", NEW final \in EndStates,
           GiveBack(t, final),
           deadline' = (deadline \ {t}) \cup Admitted,
           deferred' \subseteq deferred \cup Admitted, work' \subseteq work
    PROVE  IInv' /\ Moves /\ Settled
<1> DEFINE s == [state EXCEPT ![t] = final]
<1>1. Table /\ LeaseTypes
  BY TableOfIInv
<1>2. Pump(pending, writers \ Writes[t], OneLess(active), s)
  BY DEF GiveBack
<1>3. /\ Sound(pending, writers \ Writes[t], OneLess(active), s)
      /\ OneLess(active) \in Nat
      /\ RunningIn(s) = Running \ {t}
  BY <1>1, GiveBackKeepsSound
<1>4. \A u \in Ids : s[u] = IF u = t THEN final ELSE state[u]
  BY <1>1 DEF LeaseTypes
<1>5. pending \in SUBSET Ids
  BY <1>1 DEF LeaseTypes
<1> HIDE DEF s
<1>6. Table' /\ OnlyAdmits(s, state')
  BY <1>2, <1>3, <1>5, PumpKeepsTable
<1>7. Running \ {t} \subseteq Running' /\ t \notin Running'
  BY <1>3, <1>4, <1>6 DEF OnlyAdmits, Running, RunningIn, EndStates
<1>8. deadline' = Running'
  BY <1>7 DEF Admitted, IInv, DeadlineArmed
<1>9. deferred' \subseteq Ids /\ work' \subseteq Ids
  BY <1>1 DEF Admitted, Running, LeaseTypes
<1>10. IInv'
  BY <1>6, <1>8, <1>9, IInvOfTable
<1>11. Moves
  BY <1>4, <1>6 DEF Moves, Forward, OnlyAdmits, OverStates, EndStates, LiveStates
<1>12. Settled
  BY <1>4, <1>6 DEF Settled, OnlyAdmits, Finished, EndStates
<1> QED
  BY <1>10, <1>11, <1>12

\* A queued task ends.
LEMMA WithdrawStep ==
    ASSUME IInv, NEW t \in Ids, state[t] = "queued", NEW final \in EndStates,
           Withdraw(t, final),
           deadline' = (deadline \ {t}) \cup Admitted,
           deferred' \subseteq deferred \cup Admitted, work' \subseteq work
    PROVE  IInv' /\ Moves /\ Settled
<1> DEFINE s == [state EXCEPT ![t] = final]
<1>1. Table /\ LeaseTypes /\ active \in Nat
  BY TableOfIInv
<1>2. Pump(pending \ {t}, writers, active, s)
  BY DEF Withdraw
<1>3. Sound(pending \ {t}, writers, active, s) /\ RunningIn(s) = Running
  BY <1>1, WithdrawKeepsSound
<1>4. \A u \in Ids : s[u] = IF u = t THEN final ELSE state[u]
  BY <1>1 DEF LeaseTypes
<1>5. pending \ {t} \in SUBSET Ids
  BY <1>1 DEF LeaseTypes
<1> HIDE DEF s
<1>6. Table' /\ OnlyAdmits(s, state')
  BY <1>1, <1>2, <1>3, <1>5, PumpKeepsTable
<1>7. Running \subseteq Running' /\ t \notin Running
  BY <1>3, <1>6 DEF OnlyAdmits, Running, RunningIn
<1>8. deadline' = Running'
  BY <1>7 DEF Admitted, IInv, DeadlineArmed
<1>9. deferred' \subseteq Ids /\ work' \subseteq Ids
  BY <1>1 DEF Admitted, Running, LeaseTypes
<1>10. IInv'
  BY <1>6, <1>8, <1>9, IInvOfTable
<1>11. Moves
  BY <1>4, <1>6 DEF Moves, Forward, OnlyAdmits, OverStates, EndStates, LiveStates
<1>12. Settled
  BY <1>4, <1>6 DEF Settled, OnlyAdmits, Finished, EndStates
<1> QED
  BY <1>10, <1>11, <1>12

-----------------------------------------------------------------------------
(* Every step. *)

LEMMA EndEarlyStep ==
    ASSUME IInv, NEW t \in Ids, NEW final \in EndStates,
           EndEarly(t, final)
    PROVE  IInv' /\ Moves /\ Settled
<1>1. /\ deadline' = (deadline \ {t}) \cup Admitted
      /\ deferred' \subseteq deferred \cup Admitted
      /\ work' \subseteq work
  BY DEF EndEarly
<1>2. CASE state[t] = "running"
  <2>1. GiveBack(t, final)
    BY <1>2 DEF EndEarly
  <2> QED
    BY <1>1, <1>2, <2>1, GiveBackStep
<1>3. CASE state[t] = "queued"
  <2>1. Withdraw(t, final)
    BY <1>3 DEF EndEarly
  <2> QED
    BY <1>1, <1>3, <2>1, WithdrawStep
<1> QED
  BY <1>2, <1>3 DEF EndEarly, LiveStates

\* A step that changes neither the leases nor a record.
LEMMA QuietStep ==
    ASSUME IInv, UNCHANGED <<state, pending, writers, active, deadline>>,
           deferred' \subseteq Ids, work' \subseteq Ids
    PROVE  IInv' /\ Moves /\ Settled
<1>1. LeaseTypes'
  BY DEF IInv, LeaseTypes
<1>2. LeasesExclusive' /\ NoIdleSlot' /\ DeadlineArmed'
  BY DEF IInv, LeasesExclusive, NoIdleSlot, DeadlineArmed, Running
<1>3. Moves
  BY DEF IInv, LeaseTypes, Moves, Forward, States, OverStates, LiveStates
<1>4. Settled
  BY DEF Settled
<1> QED
  BY <1>1, <1>2, <1>3, <1>4 DEF IInv

LEMMA FinishStep ==
    ASSUME IInv, NEW t \in Ids, state[t] = "running", NEW ok \in BOOLEAN,
           Finish(t, Outcome(ok)),
           deferred' \subseteq deferred \cup Admitted, work' \subseteq work
    PROVE  IInv' /\ Moves /\ Settled
<1>1. Outcome(ok) \in EndStates
  BY DEF Outcome, EndStates
<1>2. GiveBack(t, Outcome(ok)) /\ deadline' = (deadline \ {t}) \cup Admitted
  BY DEF Finish
<1> QED
  BY <1>1, <1>2, GiveBackStep

LEMMA StartRecordStep ==
    ASSUME IInv, NEW t \in Ids, StartRecord(t)
    PROVE  IInv' /\ Moves /\ Settled
<1>1. deferred \subseteq Ids /\ work \subseteq Ids
  BY DEF IInv, LeaseTypes
<1>2. CASE SkipEnded(t)
  BY <1>1, <1>2, QuietStep DEF SkipEnded
<1>3. CASE BeginWork(t)
  BY <1>1, <1>3, QuietStep DEF BeginWork
<1>4. ASSUME NEW ok \in BOOLEAN, FinishOnTheSpot(t, ok)
      PROVE  IInv' /\ Moves /\ Settled
  BY <1>4, FinishStep DEF FinishOnTheSpot
<1> QED
  BY <1>2, <1>3, <1>4 DEF StartRecord

LEMMA WorkEndStep ==
    ASSUME IInv, NEW t \in Ids, NEW ok \in BOOLEAN, WorkEnd(t, ok)
    PROVE  IInv' /\ Moves /\ Settled
<1>1. work' \subseteq work
  BY DEF WorkEnd
<1>2. CASE state[t] = "running"
  <2>1. Finish(t, Outcome(ok)) /\ deferred' = deferred \cup Admitted
    BY <1>2 DEF WorkEnd
  <2> QED
    BY <1>1, <1>2, <2>1, FinishStep
<1>3. CASE state[t] # "running"
  <2>1. UNCHANGED <<state, leaseVars>>
    BY <1>3 DEF WorkEnd
  <2>2. deferred' \subseteq Ids /\ work' \subseteq Ids
    BY <1>1, <2>1 DEF IInv, LeaseTypes, leaseVars
  <2> QED
    BY <2>1, <2>2, QuietStep DEF leaseVars
<1> QED
  BY <1>2, <1>3

LEMMA RestartStep ==
    ASSUME IInv, Restart
    PROVE  IInv' /\ Moves
<1>1. \A t \in Ids : /\ state'[t] \in OverStates \cup {"unknown"}
                     /\ state[t] # "unknown" => state'[t] \in OverStates
                     /\ state[t] = "unknown" => state'[t] = "unknown"
  BY DEF Restart, LoadedState, OverStates, EndStates
<1>3. Running' = {}
  BY <1>1 DEF Running, OverStates, EndStates
<1>4. {t \in Ids : state'[t] = "queued"} = {}
  BY <1>1 DEF OverStates, EndStates
<1>5. state' \in [Ids -> States]
  BY <1>1 DEF Restart, States, OverStates
<1>6. /\ pending' = {} /\ writers' = {} /\ active' = 0
      /\ deferred' = {} /\ deadline' = {} /\ work' = {}
  BY DEF Restart
<1>7. LeaseTypes'
  BY <1>5, <1>6, RuntimeAssumption DEF LeaseTypes, RuntimeAssumption
<1>8. LeasesExclusive'
  <2>1. Cardinality({}) = 0
    BY FS_EmptySet
  <2>2. KeysWrittenBy({}) = {}
    BY DEF KeysWrittenBy
  <2> QED
    BY <1>3, <1>4, <1>6, <2>1, <2>2 DEF LeasesExclusive
<1>9. NoIdleSlot' /\ DeadlineArmed'
  BY <1>3, <1>6 DEF NoIdleSlot, DeadlineArmed
<1>10. Moves
  BY <1>1 DEF IInv, LeaseTypes, Moves, Forward, OverStates, EndStates
<1> QED
  BY <1>7, <1>8, <1>9, <1>10 DEF IInv

LEMMA NextStep ==
    ASSUME IInv, [Next]_vars
    PROVE  IInv' /\ Moves /\ (Restart \/ Settled)
<1>1. ASSUME NEW t \in Ids, Submit(t)
      PROVE  IInv' /\ Moves /\ (Restart \/ Settled)
  BY <1>1, SubmitStep
<1>2. ASSUME NEW t \in Ids, Cancel(t)
      PROVE  IInv' /\ Moves /\ (Restart \/ Settled)
  <2>1. "cancelled" \in EndStates
    BY DEF EndStates
  <2> QED
    BY <1>2, <2>1, EndEarlyStep DEF Cancel
<1>3. ASSUME NEW t \in Ids, Timeout(t)
      PROVE  IInv' /\ Moves /\ (Restart \/ Settled)
  <2>1. "failed" \in EndStates
    BY DEF EndStates
  <2> QED
    BY <1>3, <2>1, EndEarlyStep DEF Timeout
<1>4. ASSUME NEW t \in Ids, StartRecord(t)
      PROVE  IInv' /\ Moves /\ (Restart \/ Settled)
  BY <1>4, StartRecordStep
<1>5. ASSUME NEW t \in Ids, NEW ok \in BOOLEAN, WorkEnd(t, ok)
      PROVE  IInv' /\ Moves /\ (Restart \/ Settled)
  BY <1>5, WorkEndStep
<1>6. CASE Restart
  BY <1>6, RestartStep
<1>7. CASE UNCHANGED vars
  <2>1. deferred' \subseteq Ids /\ work' \subseteq Ids
    BY <1>7 DEF IInv, LeaseTypes, vars, leaseVars
  <2> QED
    BY <1>7, <2>1, QuietStep DEF vars, leaseVars
<1> QED
  BY <1>1, <1>2, <1>3, <1>4, <1>5, <1>6, <1>7 DEF Next, Task

LEMMA InitIInv ==
    ASSUME Init
    PROVE  IInv
<1>1. Running = {} /\ {t \in Ids : state[t] = "queued"} = {}
  BY DEF Init, Running
<1>2. LeaseTypes
  BY RuntimeAssumption DEF Init, LeaseTypes, States, RuntimeAssumption
<1>3. LeasesExclusive
  <2>1. Cardinality({}) = 0
    BY FS_EmptySet
  <2>2. KeysWrittenBy({}) = {}
    BY DEF KeysWrittenBy
  <2> QED
    BY <1>1, <2>1, <2>2 DEF Init, LeasesExclusive
<1>4. NoIdleSlot /\ DeadlineArmed
  BY <1>1 DEF Init, NoIdleSlot, DeadlineArmed
<1> QED
  BY <1>2, <1>3, <1>4 DEF IInv

-----------------------------------------------------------------------------
(* The theorems. *)

LEMMA Invariance == Spec => []IInv
<1>1. Init => IInv
  BY InitIInv
<1>2. IInv /\ [Next]_vars => IInv'
  BY NextStep
<1> QED
  BY <1>1, <1>2, PTL DEF Spec

\* The lease table tells the truth (LeasesExclusive), whatever the submissions,
\* their keys and their priorities, however often the launcher restarts.
THEOREM LeasesAlwaysExclusive == Spec => []LeasesExclusive
<1>1. IInv => LeasesExclusive
  BY DEF IInv
<1> QED
  BY <1>1, Invariance, PTL

\* No queued task waits for a lease and a slot that are both free (NoIdleSlot).
THEOREM NeverIdle == Spec => []NoIdleSlot
<1>1. IInv => NoIdleSlot
  BY DEF IInv
<1> QED
  BY <1>1, Invariance, PTL

\* The armed deadlines are those of the running tasks (DeadlineArmed).
THEOREM DeadlinesArmed == Spec => []DeadlineArmed
<1>1. IInv => DeadlineArmed
  BY DEF IInv
<1> QED
  BY <1>1, Invariance, PTL

\* A task starts only while its record is running (NeverStartsAfterEnd).
THEOREM NoStartAfterEnd == Spec => NeverStartsAfterEnd
<1>1. [Next]_vars => [work' \ work \subseteq Running]_vars
  <2> SUFFICES ASSUME [Next]_vars
               PROVE  work' \ work \subseteq Running \/ UNCHANGED vars
    OBVIOUS
  <2>1. ASSUME NEW t \in Ids, Submit(t) \/ Cancel(t) \/ Timeout(t)
        PROVE  work' \ work \subseteq Running
    BY <2>1 DEF Submit, Cancel, Timeout, EndEarly
  <2>2. ASSUME NEW t \in Ids, StartRecord(t)
        PROVE  work' \ work \subseteq Running
    BY <2>2 DEF StartRecord, SkipEnded, BeginWork, FinishOnTheSpot, Running
  <2>3. ASSUME NEW t \in Ids, NEW ok \in BOOLEAN, WorkEnd(t, ok)
        PROVE  work' \ work \subseteq Running
    BY <2>3 DEF WorkEnd
  <2>4. CASE Restart
    BY <2>4 DEF Restart
  <2> QED
    BY <2>1, <2>2, <2>3, <2>4 DEF Next, Task
<1> QED
  BY <1>1, PTL DEF Spec, NeverStartsAfterEnd

-----------------------------------------------------------------------------
(* Deferred starts. *)

\* Nothing happened yet of a task that was not admitted, and nothing took effect
\* of one whose start is ahead.
StartsInv ==
    /\ StartAhead
    /\ \A t \in Ids : state[t] \in {"unknown", "queued"} => t \notin deferred \cup work \cup effects
    /\ deferred \cap effects = {}

\* What a step may do: it defers the start of those it admits and of no others;
\* a task gets to work by its deferred start, while its record is running; it takes
\* effect at the end of its work, or by that start.
Starts ==
    /\ Admitted \subseteq deferred'
    /\ deferred' \subseteq deferred \cup Admitted
    /\ Running \cap Running' \cap (deferred \cup work) \subseteq deferred' \cup work'
    /\ work' \ work \subseteq (deferred \ deferred') \cap Running
    /\ effects' \ effects \subseteq (work \cup Running) \ deferred'

LEMMA StartsStep ==
    ASSUME IInv, IInv', StartsInv, [Next]_vars
    PROVE  Starts
<1>1. deadline' = Running' /\ deadline = Running
  BY DEF IInv, DeadlineArmed
<1>2. ASSUME NEW t \in Ids, Submit(t)
      PROVE  Starts
  BY <1>2 DEF Submit, Starts
<1>3. ASSUME NEW t \in Ids, NEW final, EndEarly(t, final)
      PROVE  Starts
  <2>1. /\ deferred' = deferred \cup Admitted
        /\ work' = work \/ work' = work \ {t}
        /\ effects' = effects
        /\ deadline' = (deadline \ {t}) \cup Admitted
    BY <1>3 DEF EndEarly
  <2>2. t \notin Running \cap Running'
    BY <1>1, <2>1 DEF Admitted
  <2> QED
    BY <2>1, <2>2 DEF Starts
<1>4. ASSUME NEW t \in Ids, StartRecord(t)
      PROVE  Starts
  <2>1. CASE SkipEnded(t)
    <3>1. Running' = Running /\ t \notin Running
      BY <2>1 DEF SkipEnded, Running
    <3> QED
      BY <2>1, <3>1 DEF SkipEnded, Starts, Admitted
  <2>2. CASE BeginWork(t)
    <3>1. Running' = Running /\ t \in Running /\ t \in deferred
      BY <1>4, <2>2 DEF StartRecord, BeginWork, Running
    <3> QED
      BY <2>2, <3>1 DEF BeginWork, Starts, Admitted
  <2>3. ASSUME NEW ok \in BOOLEAN, FinishOnTheSpot(t, ok)
        PROVE  Starts
    <3>1. /\ t \in Running
          /\ deadline' = (deadline \ {t}) \cup Admitted
          /\ deferred' = (deferred \ {t}) \cup Admitted
          /\ work' = work
          /\ effects' \subseteq effects \cup {t}
      BY <2>3 DEF FinishOnTheSpot, Finish, Running, Effects
    <3>2. t \notin Running' /\ t \notin deferred'
      BY <1>1, <3>1 DEF Admitted
    <3> QED
      BY <3>1, <3>2 DEF Starts, Admitted
  <2> QED
    BY <1>4, <2>1, <2>2, <2>3 DEF StartRecord
<1>5. ASSUME NEW t \in Ids, NEW ok \in BOOLEAN, WorkEnd(t, ok)
      PROVE  Starts
  <2>1. /\ t \in work /\ t \notin deferred
        /\ work' = work \ {t}
        /\ effects' \subseteq effects \cup {t}
    BY <1>5 DEF WorkEnd, Effects, StartsInv, StartAhead
  <2>2. CASE state[t] = "running"
    <3>1. /\ t \in Running
          /\ deadline' = (deadline \ {t}) \cup Admitted
          /\ deferred' = deferred \cup Admitted
      BY <1>5, <2>2 DEF WorkEnd, Finish, Running
    <3>2. t \notin Running' /\ t \notin deferred'
      BY <1>1, <2>1, <3>1 DEF Admitted
    <3> QED
      BY <2>1, <3>1, <3>2 DEF Starts, Admitted
  <2>3. CASE state[t] # "running"
    <3>1. Running' = Running /\ t \notin Running /\ deferred' = deferred
      BY <1>5, <2>3 DEF WorkEnd, Running, leaseVars
    <3> QED
      BY <2>1, <3>1 DEF Starts, Admitted
  <2> QED
    BY <2>2, <2>3
<1>6. CASE Restart
  <2>1. \A t \in Ids : state'[t] # "running"
    BY <1>6 DEF Restart, LoadedState, EndStates
  <2>2. Running' = {}
    BY <2>1 DEF Running
  <2> QED
    BY <1>6, <2>2 DEF Restart, Starts, Admitted
<1>7. CASE UNCHANGED vars
  <2>1. Running' = Running
    BY <1>7 DEF vars, Running
  <2> QED
    BY <1>7, <2>1 DEF vars, leaseVars, Starts, Admitted
<1> QED
  BY <1>2, <1>3, <1>4, <1>5, <1>6, <1>7 DEF Next, Task, Cancel, Timeout

LEMMA StartsInvStep ==
    ASSUME LeaseTypes, LeaseTypes', StartsInv, Moves, Starts
    PROVE  StartsInv'
<1>1. \A t \in Ids : state[t] \in States /\ state'[t] \in States /\ Forward(state[t], state'[t])
  BY DEF LeaseTypes, Moves
<1>2. \A t \in Ids : state'[t] \in {"unknown", "queued"} => state[t] \in {"unknown", "queued"}
  BY <1>1 DEF Forward, States, LiveStates, EndStates, OverStates
<1>3. \A t \in Admitted : t \in Ids /\ state[t] \in {"unknown", "queued"}
  BY <1>1 DEF Admitted, Running, Forward, States, LiveStates, EndStates, OverStates
<1>4. \A t \in Admitted : t \notin deferred \cup work \cup effects
  BY <1>3 DEF StartsInv
<1>5. StartAhead'
  BY <1>4 DEF StartsInv, StartAhead, Starts, Admitted
<1>6. ASSUME NEW t \in Ids, state'[t] \in {"unknown", "queued"}
      PROVE  t \notin deferred' \cup work' \cup effects'
  <2>1. t \notin Running /\ t \notin Running' /\ t \notin deferred \cup work \cup effects
    BY <1>2, <1>6 DEF StartsInv, Running
  <2> QED
    BY <2>1 DEF Starts, Admitted
<1>7. deferred' \cap effects' = {}
  BY <1>4 DEF StartsInv, Starts
<1> QED
  BY <1>5, <1>6, <1>7 DEF StartsInv

\* An admitted task is started once, or never if it ends before its deferred start
\* (StartedOnceOrNever): once over and not at work, nothing of it is left that
\* could work or take effect.
THEOREM AlwaysStartedOnceOrNever == Spec => StartedOnceOrNever
<1>1. Init => StartsInv
  BY DEF Init, StartsInv, StartAhead, Running
<1>2. IInv /\ StartsInv /\ [Next]_vars => StartsInv' /\ Moves /\ Starts
  <2> SUFFICES ASSUME IInv, StartsInv, [Next]_vars
               PROVE  StartsInv' /\ Moves /\ Starts
    OBVIOUS
  <2>1. IInv' /\ Moves
    BY NextStep
  <2>2. Starts
    BY <2>1, StartsStep
  <2> QED
    BY <2>1, <2>2, StartsInvStep DEF IInv
<1>3. Spec => []StartsInv
  BY <1>1, <1>2, Invariance, PTL DEF Spec
<1>4. StartsInv => StartAhead
  BY DEF StartsInv
<1>5. ASSUME NEW t \in Ids
      PROVE  Spec => [](EndedBeforeStart(t) => [](t \notin work \cup effects))
  <2> DEFINE Past == state[t] \in OverStates /\ t \notin work \cup effects
  <2>1. StartsInv /\ EndedBeforeStart(t) => Past
    BY DEF StartsInv, StartAhead, EndedBeforeStart, Finished, OverStates
  <2>2. Past /\ IInv /\ StartsInv /\ [Next]_vars => Past'
    <3> SUFFICES ASSUME Past, IInv, StartsInv, [Next]_vars
                 PROVE  Past'
      OBVIOUS
    <3>1. Moves /\ Starts
      BY <1>2
    <3>2. state'[t] \in OverStates
      BY <3>1 DEF Moves, Forward
    <3>3. t \notin Running
      BY DEF Running, OverStates, EndStates
    <3> QED
      BY <3>1, <3>2, <3>3 DEF Starts
  <2>3. Past => t \notin work \cup effects
    OBVIOUS
  <2> HIDE DEF Past
  <2> QED
    BY <1>3, <2>1, <2>2, <2>3, Invariance, PTL DEF Spec
<1>6. Spec => \A t \in Ids : [](EndedBeforeStart(t) => [](t \notin work \cup effects))
  BY <1>5
<1> QED
  BY <1>3, <1>4, <1>6, PTL DEF StartedOnceOrNever

\* The runtime implements the abstract lease table (LeaseSpec): every step moves
\* tasks only forward, from waiting to holding to over, and never hands out a
\* key or a slot twice.
THEOREM RuntimeIsLeaseTable == Spec => LeaseSpec
<1> DEFINE over == {t \in Ids : state[t] \in EndStates \cup {"forgotten"}}
<1>1. Init => Leases!Init
  BY DEF Init, Leases!Init, Running, EndStates
<1>2. ASSUME IInv, IInv', [Next]_vars
      PROVE  [Leases!Next]_(Leases!leaseVars)
  <2>1. Moves /\ LeaseTypes /\ LeaseTypes' /\ LeasesExclusive /\ LeasesExclusive'
    BY <1>2, NextStep DEF IInv
  <2>2. pending = {t \in Ids : state[t] = "queued"} /\ pending' = {t \in Ids : state'[t] = "queued"}
    BY <2>1 DEF LeasesExclusive
  <2>3. Leases!New = {t \in Ids : state[t] = "unknown"}
    BY <2>1, <2>2 DEF Leases!New, Running, LeaseTypes, States, LiveStates, EndStates
  <2>4. \A t \in Ids : Forward(state[t], state'[t])
    BY <2>1 DEF Moves
  <2>5. \A t \in Ids : state[t] \in States /\ state'[t] \in States
    BY <2>1 DEF LeaseTypes
  <2>6. pending' \subseteq pending \cup Leases!New
    BY <2>2, <2>3, <2>4, <2>5 DEF Forward, States, LiveStates, OverStates, EndStates
  <2>7. Running' \subseteq Running \cup pending \cup Leases!New
    BY <2>2, <2>3, <2>4, <2>5 DEF Running, Forward, States, LiveStates, OverStates, EndStates
  <2>8. over' \subseteq over \cup Running \cup pending
    BY <2>2, <2>4, <2>5 DEF Running, Forward, States, LiveStates, OverStates, EndStates
  <2>9. over \subseteq over'
    BY <2>4 DEF Forward, OverStates
  <2>10. pending \cup Running \subseteq pending' \cup Running' \cup over'
    BY <2>2, <2>4 DEF Running, Forward, OverStates
  <2>11. Leases!Exclusive(Running')
    BY <2>1 DEF Leases!Exclusive, LeasesExclusive
  <2>12. Cardinality(Running') <= MaxActive
    BY <2>1, RuntimeAssumption DEF LeasesExclusive, LeaseTypes, RuntimeAssumption
  <2>13. Leases!Cardinality(Running') = Cardinality(Running')
    BY DEF Leases!Cardinality, Cardinality
  <2> QED
    BY <2>6, <2>7, <2>8, <2>9, <2>10, <2>11, <2>12, <2>13 DEF Leases!Next
<1> QED
  BY <1>1, <1>2, Invariance, PTL DEF Spec, LeaseSpec, Leases!Spec
-----------------------------------------------------------------------------
(* The journal. *)

\* What the next process makes of a state it finds in the journal.
Loaded(s) == IF s \in EndStates THEN s ELSE "interrupted"

\* The journal says one thing of each task, and the truth of each task that has
\* ended, as the next process would read it.
JournalTrue ==
    /\ \A r, q \in ToSet(journal) : r.id = q.id => r.state = q.state
    /\ \A t \in Ids, r \in ToSet(journal) :
           r.id = t /\ Finished(t) => state[t] = Loaded(r.state)

\* A handler that changes a record or the list of them saves the journal.
LEMMA AlwaysSaved ==
    ASSUME [Next]_vars
    PROVE  Restart \/ SaveJournal \/ UNCHANGED <<state, diskVars>>
<1>1. ASSUME NEW t \in Ids, Submit(t) \/ Cancel(t) \/ Timeout(t)
      PROVE  SaveJournal
  BY <1>1 DEF Submit, Cancel, Timeout, EndEarly
<1>2. ASSUME NEW t \in Ids, StartRecord(t)
      PROVE  SaveJournal \/ UNCHANGED <<state, diskVars>>
  BY <1>2 DEF StartRecord, SkipEnded, BeginWork, FinishOnTheSpot, Finish
<1>3. ASSUME NEW t \in Ids, NEW ok \in BOOLEAN, WorkEnd(t, ok)
      PROVE  SaveJournal \/ UNCHANGED <<state, diskVars>>
  BY <1>3 DEF WorkEnd, Finish
<1>4. CASE UNCHANGED vars
  BY <1>4 DEF vars
<1> QED
  BY <1>1, <1>2, <1>3, <1>4 DEF Next, Task

\* What is saved are the states of some of the records.
LEMMA SavedStates ==
    ASSUME SaveJournal, NEW r \in ToSet(journal')
    PROVE  \E x : r.id = x /\ r.state = state'[x]
<1>1. PICK i \in DOMAIN journal' : r = journal'[i]
  BY DEF ToSet
<1> DEFINE last == LastRecords(order')
<1>2. journal' = [k \in DOMAIN last |-> [id |-> last[k], state |-> state'[last[k]]]]
  BY DEF SaveJournal, Journal
<1> HIDE DEF last
<1>3. r = [id |-> last[i], state |-> state'[last[i]]]
  BY <1>1, <1>2
<1> QED
  BY <1>3

\* A task that the next process knows from the journal.
LEMMA RestartedState ==
    ASSUME JournalTrue, Restart, NEW t \in Ids, NEW r \in ToSet(journal), r.id = t,
           state[t] # "unknown"
    PROVE  state'[t] = Loaded(r.state)
<1> DEFINE q == CHOOSE q \in ToSet(journal) : q.id = t
<1>1. q \in ToSet(journal) /\ q.id = t
  OBVIOUS
<1>2. state'[t] = IF q.state \in EndStates THEN q.state ELSE "interrupted"
  BY DEF Restart, LoadedState
<1> HIDE DEF q
<1>3. q.state = r.state
  BY <1>1 DEF JournalTrue
<1> QED
  BY <1>2, <1>3 DEF Loaded

LEMMA JournalStep ==
    ASSUME JournalTrue, [Next]_vars
    PROVE  JournalTrue'
<1>1. CASE SaveJournal
  <2>1. \A r \in ToSet(journal') : r.state = state'[r.id]
    BY <1>1, SavedStates
  <2>2. \A t \in Ids : Finished(t)' => Loaded(state'[t]) = state'[t]
    BY DEF Finished, Loaded
  <2> QED
    BY <2>1, <2>2 DEF JournalTrue
<1>2. CASE UNCHANGED <<state, diskVars>>
  BY <1>2 DEF JournalTrue, Finished, diskVars
<1>3. CASE Restart
  <2>1. journal' = journal
    BY <1>3 DEF Restart
  <2>2. ASSUME NEW t \in Ids, NEW r \in ToSet(journal), r.id = t, Finished(t)'
        PROVE  state'[t] = Loaded(r.state)
    <3>1. state[t] # "unknown"
      BY <1>3, <2>2 DEF Restart, LoadedState, Finished, EndStates
    <3> QED
      BY <1>3, <2>2, <3>1, RestartedState
  <2> QED
    BY <2>1, <2>2 DEF JournalTrue
<1> QED
  BY <1>1, <1>2, <1>3, AlwaysSaved

\* The end of a task is not lost, across restarts either, and no task comes back to
\* life (EndSurvives): the journal on disk is never behind what the runtime told.
THEOREM EndsSurvive == Spec => EndSurvives
<1>1. Init => JournalTrue
  BY DEF Init, JournalTrue, ToSet
<1>2. JournalTrue /\ [Next]_vars => JournalTrue'
  BY JournalStep
<1>3. Spec => []JournalTrue
  BY <1>1, <1>2, PTL DEF Spec
<1>4. IInv /\ JournalTrue /\ [Next]_vars => [Settled]_vars
  <2> SUFFICES ASSUME IInv, JournalTrue, [Next]_vars
               PROVE  Settled
    OBVIOUS
  <2>1. CASE Restart
    <3> SUFFICES ASSUME NEW t \in Ids, Finished(t)
                 PROVE  state'[t] \in {state[t], "forgotten"}
      BY DEF Settled
    <3>1. state[t] # "unknown"
      BY DEF Finished, EndStates
    <3>2. CASE \E r \in ToSet(journal) : r.id = t
      BY <2>1, <3>1, <3>2, RestartedState DEF JournalTrue
    <3>3. CASE ~\E r \in ToSet(journal) : r.id = t
      BY <2>1, <3>1, <3>3 DEF Restart, LoadedState
    <3> QED
      BY <3>2, <3>3
  <2> QED
    BY <2>1, NextStep
<1> QED
  BY <1>3, <1>4, Invariance, PTL DEF Spec, EndSurvives, Settled

-----------------------------------------------------------------------------
(* Idempotency keys. *)
\* The records and those of them in the journal are well formed, and no two of them
\* were submitted under the same key.
OrderTrue ==
    /\ order \in Seq(Ids)
    /\ journal \in Seq([id : Ids, state : States])
    /\ OneTaskPerKey
    /\ \A r, q \in ToSet(journal) : Retry[r.id] = Retry[q.id] => r.id = q.id

\* The journal holds records from the list, and no others.
LEMMA JournalIsPart ==
    ASSUME NEW o \in Seq(Ids), NEW s \in [Ids -> States], RuntimeAssumption
    PROVE  /\ Journal(o, s) \in Seq([id : Ids, state : States])
           /\ \A r \in ToSet(Journal(o, s)) : r.id \in ToSet(o)
<1> DEFINE first == 1 + (IF Len(o) > JournalSize THEN Len(o) - JournalSize ELSE 0)
           last == LastRecords(o)
           n == Len(o) - first + 1
<1>1. /\ Len(o) \in Nat /\ JournalSize \in Nat /\ DOMAIN o = 1 .. Len(o)
      /\ first \in Nat \ {0} /\ n \in Nat
  BY DEF RuntimeAssumption
<1>2. last = SubSeq(o, first, Len(o))
  BY DEF LastRecords
<1> HIDE DEF first, last, n
<1>3. DOMAIN last = 1 .. n /\ \A i \in 1 .. n : last[i] = o[first + i - 1]
  <2>1. first \in 1 .. Len(o) + 1 /\ Len(o) \in 0 .. Len(o)
    BY <1>1 DEF first
  <2>2. /\ last \in Seq(Ids)
        /\ Len(last) = IF first <= Len(o) THEN Len(o) - first + 1 ELSE 0
        /\ \A i \in 1 .. Len(o) - first + 1 : last[i] = o[first + i - 1]
    <3>1. first \in Int /\ Len(o) \in Int /\ \A i \in first .. Len(o) : o[i] \in Ids
      BY <1>1
    <3> QED
      BY <1>2, <3>1, SubSeqProperties
  <2>3. Len(last) = n
    BY <1>1, <2>1, <2>2 DEF n
  <2> QED
    BY <2>2, <2>3 DEF n
<1>4. \A i \in 1 .. n : first + i - 1 \in 1 .. Len(o)
  BY <1>1 DEF n
<1>5. \A i \in 1 .. n : last[i] \in Ids /\ last[i] \in ToSet(o)
  <2>1. \A k \in 1 .. Len(o) : o[k] \in Ids /\ o[k] \in ToSet(o)
    BY <1>1 DEF ToSet
  <2> QED
    BY <1>3, <1>4, <2>1
<1>6. Journal(o, s) = [i \in 1 .. n |-> [id |-> last[i], state |-> s[last[i]]]]
  BY <1>3 DEF Journal, last
<1>7. Journal(o, s) \in [1 .. n -> [id : Ids, state : States]]
  BY <1>5, <1>6
<1>8. Journal(o, s) \in Seq([id : Ids, state : States])
  <2> DEFINE Records == [id : Ids, state : States]
  <2>1. Journal(o, s) \in [1 .. n -> Records]
    BY <1>7
  <2> HIDE DEF Records
  <2>2. Journal(o, s) \in Seq(Records)
    BY <1>1, <2>1
  <2> QED
    BY <2>2 DEF Records
<1>9. \A r \in ToSet(Journal(o, s)) : r.id \in ToSet(o)
  <2> SUFFICES ASSUME NEW i \in DOMAIN Journal(o, s)
               PROVE  Journal(o, s)[i].id \in ToSet(o)
    BY DEF ToSet
  <2>1. i \in 1 .. n /\ Journal(o, s)[i] = [id |-> last[i], state |-> s[last[i]]]
    BY <1>6
  <2> QED
    BY <1>5, <2>1
<1> QED
  BY <1>8, <1>9

\* A handler that saves the list saves it well.
LEMMA SavedOrder ==
    ASSUME RuntimeAssumption, LeaseTypes', SaveJournal, order' \in Seq(Ids), OneTaskPerKey'
    PROVE  OrderTrue'
<1>1. /\ journal' \in Seq([id : Ids, state : States])
      /\ \A r \in ToSet(journal') : r.id \in ToSet(order')
  BY JournalIsPart DEF SaveJournal, LeaseTypes
<1> QED
  BY <1>1 DEF OrderTrue, OneTaskPerKey

\* A new record goes to the end of the list.
LEMMA SubmitOrder ==
    ASSUME OrderTrue, NEW t \in Ids, Submit(t)
    PROVE  order' \in Seq(Ids) /\ ToSet(order') \subseteq ToSet(order) \cup {t}
<1>1. PICK kept \in SeqOf(ToSet(order) \ Pruned, Len(order)) : order' = Append(kept, t)
  BY DEF Submit
<1>2. order \in Seq(Ids) /\ ToSet(order) \subseteq Ids
  BY DEF OrderTrue, ToSet
<1>3. kept \in Seq(ToSet(order)) /\ kept \in Seq(Ids)
  BY <1>1, <1>2 DEF SeqOf
<1>4. order' \in Seq(Ids)
  BY <1>1, <1>3
<1>5. \A i \in DOMAIN order' : order'[i] \in ToSet(order) \cup {t}
  BY <1>1, <1>3
<1> QED
  BY <1>4, <1>5 DEF ToSet

LEMMA OrderStep ==
    ASSUME OrderTrue, IInv, [Next]_vars, RuntimeAssumption
    PROVE  OrderTrue'
<1>1. LeaseTypes'
  BY NextStep DEF IInv
<1>2. ASSUME NEW t \in Ids, Submit(t)
      PROVE  OrderTrue'
  <2>1. order' \in Seq(Ids) /\ ToSet(order') \subseteq ToSet(order) \cup {t}
    BY <1>2, SubmitOrder
  <2>2. \A u \in ToSet(order) : Retry[u] # Retry[t]
    BY <1>2 DEF Submit, Known
  <2>3. OneTaskPerKey'
    BY <2>1, <2>2 DEF OrderTrue, OneTaskPerKey
  <2> QED
    BY <1>1, <1>2, <2>1, <2>3, SavedOrder DEF Submit
<1>3. CASE Restart
  <2>1. journal' = journal /\ order' = [i \in DOMAIN journal |-> journal[i].id]
    BY <1>3 DEF Restart
  <2>2. \A i \in DOMAIN journal : journal[i].id \in Ids /\ journal[i] \in ToSet(journal)
    <3>1. \A i \in DOMAIN journal : journal[i] \in [id : Ids, state : States]
      <4> DEFINE Records == [id : Ids, state : States]
      <4>1. journal \in Seq(Records)
        BY DEF OrderTrue
      <4> HIDE DEF Records
      <4>2. \A i \in DOMAIN journal : journal[i] \in Records
        BY <4>1
      <4> QED
        BY <4>2 DEF Records
    <3>2. \A r \in [id : Ids, state : States] : r.id \in Ids
      OBVIOUS
    <3> QED
      BY <3>1, <3>2 DEF ToSet
  <2>3. order' \in Seq(Ids)
    <3>1. DOMAIN journal = 1 .. Len(journal) /\ Len(journal) \in Nat
      BY DEF OrderTrue
    <3>2. order' \in [1 .. Len(journal) -> Ids]
      BY <2>1, <2>2, <3>1
    <3> QED
      BY <3>1, <3>2
  <2>4. \A x \in ToSet(order') : \E r \in ToSet(journal) : r.id = x
    BY <2>1, <2>2 DEF ToSet
  <2>5. OneTaskPerKey'
    BY <2>4 DEF OrderTrue, OneTaskPerKey
  <2> QED
    BY <2>1, <2>3, <2>5 DEF OrderTrue
<1>4. ASSUME order' = order
      PROVE  OrderTrue'
  <2>1. CASE journal' = journal
    BY <1>4, <2>1 DEF OrderTrue, OneTaskPerKey
  <2>2. CASE SaveJournal
    BY <1>1, <1>4, <2>2, SavedOrder DEF OrderTrue, OneTaskPerKey
  <2>3. CASE Restart
    BY <1>3, <2>3
  <2> QED
    BY <2>1, <2>2, <2>3, AlwaysSaved DEF diskVars
<1>5. ASSUME NEW t \in Ids, Cancel(t) \/ Task(t)
      PROVE  order' = order
  <2>1. CASE Cancel(t) \/ Timeout(t)
    BY <2>1 DEF Cancel, Timeout, EndEarly
  <2>2. CASE StartRecord(t)
    BY <2>2 DEF StartRecord, SkipEnded, BeginWork, FinishOnTheSpot, Finish, diskVars
  <2>3. ASSUME NEW ok \in BOOLEAN, WorkEnd(t, ok)
        PROVE  order' = order
    BY <2>3 DEF WorkEnd, Finish, diskVars
  <2> QED
    BY <1>5, <2>1, <2>2, <2>3 DEF Task
<1>6. CASE UNCHANGED vars
  BY <1>4, <1>6 DEF vars, diskVars
<1> QED
  BY <1>2, <1>3, <1>4, <1>5, <1>6 DEF Next

\* A repeated submission is one task as long as the first is remembered, across
\* restarts too (OneTaskPerKey): the journal remembers no two under one key.
THEOREM AlwaysOneTaskPerKey == Spec => []OneTaskPerKey
<1>1. Init => OrderTrue
  BY DEF Init, OrderTrue, OneTaskPerKey, ToSet
<1>2. IInv /\ OrderTrue /\ [Next]_vars => OrderTrue'
  BY OrderStep, RuntimeAssumption
<1>3. OrderTrue => OneTaskPerKey
  BY DEF OrderTrue
<1> QED
  BY <1>1, <1>2, <1>3, Invariance, PTL DEF Spec
=============================================================================
