------------------------ MODULE ConcurrentTaskProof ------------------------
(***************************************************************************)
(* Proofs about ConcurrentTask, and about NetJob which is built on it, for *)
(* every set of tasks, every policy, every limit and every number of       *)
(* starts, aborts, dialogs and changes of the setting.                     *)
(*                                                                         *)
(* The theorems about Spec are about the job as ConcurrentTask and its two *)
(* policies leave it; those about NetSpec, at the end, are about NetJob,   *)
(* which replaces start, abort and executeNextSubTask.                     *)
(***************************************************************************)
EXTENDS NetJob, FiniteSetTheorems, TLAPS

(* Facts about sequences the steps below rest on. *)

\* Appending an element adds it to the set of elements.
LEMMA ToSetAppend ==
    ASSUME NEW S, NEW s \in Seq(S), NEW x \in S
    PROVE  ToSet(Append(s, x)) = ToSet(s) \cup {x}
<1>1. DOMAIN Append(s, x) = DOMAIN s \cup {Len(s) + 1}
  OBVIOUS
<1>2. \A i \in DOMAIN s : Append(s, x)[i] = s[i]
  OBVIOUS
<1>3. Append(s, x)[Len(s) + 1] = x
  OBVIOUS
<1> QED
  BY <1>1, <1>2, <1>3 DEF ToSet

\* Taking the head off leaves the other elements, and only them if no element
\* occurs twice.
LEMMA ToSetTail ==
    ASSUME NEW S, NEW s \in Seq(S), s # <<>>
    PROVE  /\ Head(s) \in ToSet(s)
           /\ Head(s) \in S
           /\ Tail(s) \in Seq(S)
           /\ ToSet(Tail(s)) \subseteq ToSet(s)
           /\ ToSet(s) \subseteq ToSet(Tail(s)) \cup {Head(s)}
           /\ IsInjective(s) => Head(s) \notin ToSet(Tail(s)) /\ IsInjective(Tail(s))
<1>1. Len(s) \in Nat \ {0} /\ DOMAIN s = 1..Len(s) /\ Head(s) = s[1]
  OBVIOUS
<1>2. DOMAIN Tail(s) = 1..(Len(s) - 1) /\ \A i \in 1..(Len(s) - 1) : Tail(s)[i] = s[i + 1]
  BY <1>1
<1>3. Head(s) \in ToSet(s) /\ Head(s) \in S /\ Tail(s) \in Seq(S)
  BY <1>1 DEF ToSet
<1>4. ToSet(Tail(s)) \subseteq ToSet(s)
  BY <1>1, <1>2 DEF ToSet
<1>5. \A i \in DOMAIN s : i = 1 \/ s[i] \in ToSet(Tail(s))
  <2> SUFFICES ASSUME NEW i \in DOMAIN s, i # 1
               PROVE  s[i] \in ToSet(Tail(s))
    OBVIOUS
  <2>1. i - 1 \in DOMAIN Tail(s) /\ Tail(s)[i - 1] = s[i]
    BY <1>1, <1>2
  <2> QED
    BY <2>1 DEF ToSet
<1>6. ToSet(s) \subseteq ToSet(Tail(s)) \cup {Head(s)}
  BY <1>1, <1>5 DEF ToSet
<1>7. ASSUME IsInjective(s)
      PROVE  Head(s) \notin ToSet(Tail(s)) /\ IsInjective(Tail(s))
  BY <1>1, <1>2, <1>7 DEF ToSet, IsInjective
<1> QED
  BY <1>3, <1>4, <1>6, <1>7

\* Appending an element that does not occur keeps a sequence free of repeats.
LEMMA InjectiveAppend ==
    ASSUME NEW S, NEW s \in Seq(S), NEW x \in S, IsInjective(s), x \notin ToSet(s)
    PROVE  IsInjective(Append(s, x))
<1>1. DOMAIN Append(s, x) = 1..(Len(s) + 1) /\ DOMAIN s = 1..Len(s) /\ Len(s) \in Nat
  OBVIOUS
<1>2. \A i \in DOMAIN s : Append(s, x)[i] = s[i] /\ s[i] # x
  BY DEF ToSet
<1>3. Append(s, x)[Len(s) + 1] = x
  OBVIOUS
<1> QED
  BY <1>1, <1>2, <1>3 DEF IsInjective

-----------------------------------------------------------------------------
(* Type correctness. *)

\* The sequence operators keep the type of a sequence.
LEMMA SeqTypes ==
    ASSUME NEW S
    PROVE  /\ <<>> \in Seq(S)
           /\ \A s \in Seq(S), x \in S : Append(s, x) \in Seq(S)
  OBVIOUS

\* emitSucceeded, emitFailed and emitAborted keep the types.
LEMMA EmitType ==
    ASSUME TypeOK, NEW o \in EndStates, Emit(o)
    PROVE  state' \in TaskStates /\ signals' \in Seq(EndStates)
  BY SeqTypes DEF TypeOK, TaskStates, Emit

LEMMA InitType == Init => TypeOK
<1>1. <<>> \in Seq(Tasks) /\ <<>> \in Seq(EndStates)
  BY SeqTypes
<1>2. Init => lateAdd \in BOOLEAN
  BY Zenon DEF Init
<1> QED
  BY <1>1, <1>2, JobAssumption DEF Init, TypeOK, TaskStates, LimitsOf, JobAssumption

LEMMA NextType == TypeOK /\ [Next]_vars => TypeOK'
<1> SUFFICES ASSUME TypeOK, [Next]_vars
             PROVE  TypeOK'
  OBVIOUS
<1> USE DEF TypeOK
<1>1. ASSUME NEW t \in Tasks, AddTask(t)
      PROVE  TypeOK'
  BY <1>1, SeqTypes DEF AddTask, childVars
<1>2. ASSUME NEW n \in Limits, SetMaxConcurrent(n)
      PROVE  TypeOK'
  BY <1>2 DEF SetMaxConcurrent, childVars, bookVars
<1>3. CASE Start
  <2>1. wakeups' \in Nat
    BY <1>3, JobAssumption DEF JobAssumption, Start
  <2>2. signals' \in Seq(EndStates)
    BY <1>3, SeqTypes DEF Start
  <2>3. lateAdd' \in BOOLEAN
    BY <1>3, Zenon DEF Start
  <2> QED
    BY <1>3, <2>1, <2>2, <2>3 DEF Start, childVars, TaskStates
<1>4. CASE Clear
  <2>1. ToSet(queue) \subseteq Tasks
    BY DEF ToSet
  <2> QED
    BY <1>4, <2>1, SeqTypes DEF Clear, childVars
<1>5. CASE AbortIdle
  <2>1. ToSet(queue) \subseteq Tasks
    BY DEF ToSet
  <2> QED
    BY <1>5, <2>1, SeqTypes DEF EndStates, AbortIdle, DropQueue
<1>6. CASE AbortActive
  <2>1. ToSet(queue) \subseteq Tasks
    BY DEF ToSet
  <2>2. PICK a \in [doing -> Answers] : ChildrenAnswer(a)
    BY <1>6 DEF AbortActive
  <2>3. Cardinality({t \in doing : a[t] = "fails"}) \in Nat
    BY FS_Subset, FS_CardinalityType, JobAssumption DEF JobAssumption
  <2>4. child' \in [Tasks -> TaskStates]
    BY <2>2 DEF ChildrenAnswer, TaskStates, EndStates
  <2>5. /\ heard' \subseteq Tasks
        /\ doing' \subseteq Tasks
        /\ done' \subseteq Tasks
        /\ failed' \subseteq Tasks
        /\ wakeups' \in Nat
    BY <2>2, <2>3 DEF ChildrenAnswer
  <2>6. PICK o \in EndStates : Emit(o)
    BY <2>2 DEF ChildrenAnswer, EndStates
  <2>7. state' \in TaskStates /\ signals' \in Seq(EndStates)
    BY <2>6, EmitType
  <2> QED
    BY <1>6, <2>1, <2>4, <2>5, <2>7, SeqTypes DEF AbortActive, DropQueue
<1>7. CASE ExecuteNextSubTask
  <2>1. wakeups' \in Nat
    BY <1>7 DEF ExecuteNextSubTask
  <2>2. CASE OptionsDecided
    <3>1. state' \in TaskStates /\ signals' \in Seq(EndStates)
      BY <2>2, EmitType DEF OptionsDecided, EndStates
    <3> QED
      BY <1>7, <2>1, <2>2, <3>1 DEF ExecuteNextSubTask, BaseQuiet, bookVars, OptionsDecided
  <2>3. CASE NothingToDo
    BY <1>7, <2>1, <2>3 DEF ExecuteNextSubTask, BaseQuiet, bookVars, NothingToDo
  <2>4. CASE Conclude
    <3>1. PICK o \in EndStates : Emit(o)
      BY <2>4 DEF Conclude, EndStates
    <3>2. state' \in TaskStates /\ signals' \in Seq(EndStates)
      BY <3>1, EmitType
    <3> QED
      BY <1>7, <2>1, <2>4, <3>2 DEF ExecuteNextSubTask, BaseQuiet, bookVars, Conclude
  <2>5. CASE StartSubTask
    <3>1. Head(queue) \in Tasks /\ Tail(queue) \in Seq(Tasks)
      BY <2>5, ToSetTail DEF StartSubTask
    <3> QED
      BY <1>7, <2>1, <2>5, <3>1 DEF ExecuteNextSubTask, BaseQuiet, bookVars, StartSubTask
  <2> QED
    BY <1>7, <2>2, <2>3, <2>4, <2>5 DEF ExecuteNextSubTask
<1>8. ASSUME NEW t \in Tasks, ChildStart(t)
      PROVE  TypeOK'
  BY <1>8 DEF TaskStates, ChildStart, jobVars, bookVars
<1>9. ASSUME NEW t \in Tasks, NEW o \in EndStates, ChildEnd(t, o)
      PROVE  TypeOK'
  <2>1. CASE Reaches(t, o)
    <3>1. SubTaskFinished(t, o) /\ SubTaskPolicy(o)
      BY <1>9, <2>1 DEF ChildEnd
    <3>2. state' \in TaskStates /\ signals' \in Seq(EndStates)
      BY <3>1, EmitType DEF SubTaskPolicy, EndStates
    <3> QED
      BY <1>9, <3>1, <3>2 DEF TaskStates, ChildEnd, SubTaskFinished, bookVars
  <2>2. CASE ~Reaches(t, o)
    BY <1>9, <2>2 DEF TaskStates, ChildEnd, jobVars, bookVars
  <2> QED
    BY <2>1, <2>2
<1>10. CASE UNCHANGED vars
  BY <1>10 DEF vars, jobVars, childVars, bookVars
<1> QED
  BY <1>1, <1>2, <1>3, <1>4, <1>5, <1>6, <1>7, <1>8, <1>9, <1>10
  DEF Next, Owner, Abort, Child

\* Every variable keeps its type, for any tasks, policy, limits and bounds.
THEOREM TypeCorrect == Spec => []TypeOK
  BY InitType, NextType, PTL DEF Spec

-----------------------------------------------------------------------------
(* Where the tasks are. *)

\* Emitting an outcome never makes a task inactive.
LEMMA EmitNotInactive ==
    ASSUME NEW o \in EndStates, Emit(o)
    PROVE  state' = "Inactive" => state = "Inactive"
  BY DEF Emit, EndStates

\* The set of active children is finite, so its cardinality is a number.
LEMMA DoingFinite ==
    ASSUME TypeOK
    PROVE  IsFiniteSet(doing) /\ Cardinality(doing) \in Nat
  BY FS_Subset, FS_CardinalityType, JobAssumption DEF JobAssumption, TypeOK

LEMMA InitPlace == Init => EachTaskHasItsPlace
<1> SUFFICES ASSUME Init PROVE EachTaskHasItsPlace
  OBVIOUS
<1>1. ToSet(<<>>) = {} /\ IsInjective(<<>>)
  BY DEF ToSet, IsInjective
<1>2. Cardinality(doing) = 0 /\ limit \in Nat
  BY FS_EmptySet, JobAssumption DEF Init, JobAssumption, LimitsOf
<1> QED
  BY <1>1, <1>2 DEF Init, EachTaskHasItsPlace

\* addTask(): the task is fresh, so it is queued once.
LEMMA AddTaskPlace ==
    ASSUME TypeOK, EachTaskHasItsPlace, NEW t \in Tasks, AddTask(t)
    PROVE  EachTaskHasItsPlace'
<1>1. /\ queue \in Seq(Tasks) /\ owed \in Seq(Tasks)
      /\ queue' = Append(queue, t) /\ owed' = Append(owed, t)
      /\ Fresh(t)
      /\ UNCHANGED <<state, limit, doing, failed, succeeded, dropped>>
      /\ UNCHANGED <<starts, child>>
  BY DEF TypeOK, AddTask, childVars
<1>2. ToSet(queue') = ToSet(queue) \cup {t} /\ ToSet(owed') = ToSet(owed) \cup {t}
  BY <1>1, ToSetAppend
<1>3. IsInjective(queue')
  BY <1>1, InjectiveAppend DEF EachTaskHasItsPlace, Fresh
<1> QED
  BY <1>1, <1>2, <1>3 DEF EachTaskHasItsPlace, Fresh

\* clear() and abort() with no active child only move the queue to `dropped'.
LEMMA EmptyQueuePlace ==
    ASSUME TypeOK, EachTaskHasItsPlace,
           queue' = <<>>, owed' = <<>>, dropped' = dropped \cup ToSet(queue),
           UNCHANGED <<state, limit, doing, starts, child>>
    PROVE  EachTaskHasItsPlace'
<1>1. ToSet(<<>>) = {} /\ IsInjective(<<>>)
  BY DEF ToSet, IsInjective
<1> QED
  BY <1>1 DEF EachTaskHasItsPlace

\* abort() with active children.
LEMMA AbortActivePlace ==
    ASSUME TypeOK, EachTaskHasItsPlace, AbortActive
    PROVE  EachTaskHasItsPlace'
<1>1. PICK a \in [doing -> Answers] : PossibleAnswers(a) /\ ChildrenAnswer(a)
  BY DEF AbortActive
<1>2. ToSet(<<>>) = {} /\ IsInjective(<<>>)
  BY DEF ToSet, IsInjective
<1>3. /\ queue' = <<>> /\ owed' = <<>> /\ dropped' = dropped \cup ToSet(queue)
      /\ limit' = limit /\ starts' = starts /\ succeeded' = succeeded
  BY DEF AbortActive, DropQueue
<1> DEFINE Fails == {t \in doing : a[t] = "fails"}
<1>4. doing' = doing \ Fails /\ failed' = failed \cup Fails
  BY <1>1 DEF ChildrenAnswer
<1>5. \A t \in Tasks : t \notin doing => child'[t] = child[t]
  BY <1>1 DEF ChildrenAnswer, TypeOK
<1>6. \A t \in Tasks : child[t] # "Running" => child'[t] = child[t]
  BY <1>1 DEF ChildrenAnswer, PossibleAnswers, TypeOK
<1>7. \A t \in Tasks : child'[t] = "Running" => child[t] = "Running" /\ t \notin Fails
  BY <1>1 DEF ChildrenAnswer, TypeOK
<1>8. Cardinality(doing') <= limit'
  <2>1. Cardinality(doing') <= Cardinality(doing) /\ Cardinality(doing') \in Nat
    BY <1>4, DoingFinite, FS_Subset, FS_CardinalityType
  <2> QED
    BY <1>3, <2>1, DoingFinite, JobAssumption DEF EachTaskHasItsPlace, TypeOK, JobAssumption
<1>9. state' = "Inactive" => doing' = {}
  <2>1. PICK o \in EndStates : Emit(o)
    BY <1>1 DEF ChildrenAnswer, EndStates
  <2> QED
    BY <1>4, <2>1, EmitNotInactive DEF EachTaskHasItsPlace
<1>10. \A t \in starts' : child'[t] = "Inactive" /\ t \in doing'
  <2> SUFFICES ASSUME NEW t \in starts
               PROVE  child'[t] = "Inactive" /\ t \in doing'
    BY <1>3
  <2>1. t \in Tasks /\ t \in doing /\ child[t] = "Inactive"
    BY DEF EachTaskHasItsPlace, TypeOK
  <2>2. t \notin Fails
    BY <1>1, <2>1 DEF PossibleAnswers
  <2> QED
    BY <1>4, <1>6, <2>1, <2>2
<1>11. \A t \in dropped' : child'[t] = "Inactive" /\ t \notin doing'
  <2>1. \A t \in dropped' : t \in Tasks /\ child[t] = "Inactive" /\ t \notin doing
    BY <1>3 DEF EachTaskHasItsPlace, TypeOK, ToSet
  <2> QED
    BY <1>4, <1>6, <2>1
<1>12. \A t \in Tasks : child'[t] = "Running" => t \in doing'
  BY <1>4, <1>7 DEF EachTaskHasItsPlace
<1> QED
  BY <1>2, <1>3, <1>8, <1>9, <1>10, <1>11, <1>12 DEF EachTaskHasItsPlace

\* startSubTask(): the head of the queue becomes active, its start is pending.
LEMMA StartSubTaskPlace ==
    ASSUME TypeOK, EachTaskHasItsPlace, ExecuteNextSubTask, StartSubTask
    PROVE  EachTaskHasItsPlace'
<1>1. /\ queue \in Seq(Tasks) /\ queue # <<>>
      /\ queue' = Tail(queue)
      /\ doing' = doing \cup {Head(queue)}
      /\ starts' = starts \cup {Head(queue)}
      /\ state = "Running" /\ state' = state
      /\ Cardinality(doing) < limit
      /\ UNCHANGED <<limit, failed, succeeded, child, owed, dropped>>
  BY DEF TypeOK, StartSubTask, ExecuteNextSubTask, BaseQuiet, bookVars
<1>2. /\ Head(queue) \in ToSet(queue) /\ Head(queue) \in Tasks
      /\ ToSet(Tail(queue)) \subseteq ToSet(queue)
      /\ ToSet(queue) \subseteq ToSet(Tail(queue)) \cup {Head(queue)}
      /\ Head(queue) \notin ToSet(Tail(queue))
      /\ IsInjective(Tail(queue))
  BY <1>1, ToSetTail DEF EachTaskHasItsPlace
<1>3. Cardinality(doing') <= limit'
  <2>1. IsFiniteSet(doing) /\ Cardinality(doing) \in Nat /\ limit \in Nat
    BY DoingFinite, JobAssumption DEF TypeOK, JobAssumption
  <2>2. Cardinality(doing') <= Cardinality(doing) + 1 /\ Cardinality(doing') \in Nat
    <3>1. Cardinality(doing \cup {Head(queue)}) =
            IF Head(queue) \in doing THEN Cardinality(doing) ELSE Cardinality(doing) + 1
      BY <2>1, FS_AddElement, Zenon
    <3> QED
      BY <1>1, <2>1, <3>1
  <2> QED
    BY <1>1, <2>1, <2>2
<1> QED
  BY <1>1, <1>2, <1>3 DEF EachTaskHasItsPlace

\* start() of a child that was pending.
LEMMA ChildStartPlace ==
    ASSUME TypeOK, EachTaskHasItsPlace, NEW t \in Tasks, ChildStart(t)
    PROVE  EachTaskHasItsPlace'
<1>1. /\ t \in starts /\ starts' = starts \ {t}
      /\ child' = [child EXCEPT ![t] = "Running"]
      /\ UNCHANGED <<state, limit, queue, doing, failed, succeeded, owed, dropped>>
  BY DEF ChildStart, jobVars, bookVars
<1>2. \A u \in Tasks : u # t => child'[u] = child[u]
  BY <1>1 DEF TypeOK
<1>3. ToSet(queue) \subseteq Tasks /\ dropped \subseteq Tasks /\ starts \subseteq Tasks
  BY DEF TypeOK, ToSet
<1>4. t \in doing /\ t \notin ToSet(queue) \cup dropped
  BY <1>1 DEF EachTaskHasItsPlace
<1>5. \A u \in Tasks : child'[u] = "Running" => u \in doing'
  BY <1>1, <1>2, <1>4 DEF EachTaskHasItsPlace
<1>6. /\ \A u \in ToSet(queue') : child'[u] = "Inactive" /\ u \notin doing' \cup dropped'
      /\ \A u \in starts' : child'[u] = "Inactive" /\ u \in doing'
      /\ \A u \in dropped' : child'[u] = "Inactive" /\ u \notin doing'
  BY <1>1, <1>2, <1>3, <1>4 DEF EachTaskHasItsPlace
<1> QED
  BY <1>1, <1>5, <1>6 DEF EachTaskHasItsPlace

\* A running child ends, whether or not the job still hears it.
LEMMA ChildEndPlace ==
    ASSUME TypeOK, EachTaskHasItsPlace, NEW t \in Tasks, NEW o \in EndStates,
           ChildEnd(t, o)
    PROVE  EachTaskHasItsPlace'
<1>1. /\ child[t] = "Running" /\ child' = [child EXCEPT ![t] = o]
      /\ UNCHANGED <<starts, owed, dropped>>
  BY DEF ChildEnd, bookVars
<1>2. \A u \in Tasks : u # t => child'[u] = child[u]
  BY <1>1 DEF TypeOK
<1>3. child'[t] # "Running"
  BY <1>1 DEF TypeOK, EndStates
<1>4. ToSet(queue) \subseteq Tasks /\ dropped \subseteq Tasks /\ starts \subseteq Tasks
  BY DEF TypeOK, ToSet
<1>5. CASE Reaches(t, o)
  <2>1. /\ SubTaskFinished(t, o) /\ SubTaskPolicy(o)
    BY <1>5 DEF ChildEnd
  <2>2. /\ doing' = doing \ {t}
        /\ t \in succeeded' \cup failed'
        /\ succeeded \subseteq succeeded' /\ failed \subseteq failed'
        /\ UNCHANGED <<limit, queue>>
    BY <2>1 DEF SubTaskFinished
  <2>3. state' = "Inactive" => state = "Inactive"
    BY <2>1, EmitNotInactive DEF SubTaskPolicy, EndStates
  <2>4. Cardinality(doing') <= limit'
    <3>1. IsFiniteSet(doing) /\ Cardinality(doing) \in Nat /\ limit \in Nat
      BY DoingFinite, JobAssumption DEF TypeOK, JobAssumption
    <3>2. Cardinality(doing') <= Cardinality(doing) /\ Cardinality(doing') \in Nat
      BY <2>2, <3>1, FS_Subset, FS_CardinalityType
    <3> QED
      BY <2>2, <3>1, <3>2 DEF EachTaskHasItsPlace
  <2> QED
    BY <1>1, <1>2, <1>3, <1>4, <2>2, <2>3, <2>4 DEF EachTaskHasItsPlace
<1>6. CASE ~Reaches(t, o)
  <2>1. UNCHANGED <<state, limit, queue, doing, failed, succeeded>>
    BY <1>6 DEF ChildEnd, jobVars
  <2> QED
    BY <1>1, <1>2, <1>3, <1>4, <2>1 DEF EachTaskHasItsPlace
<1> QED
  BY <1>5, <1>6

LEMMA NextPlace == TypeOK /\ EachTaskHasItsPlace /\ [Next]_vars => EachTaskHasItsPlace'
<1> SUFFICES ASSUME TypeOK, EachTaskHasItsPlace, [Next]_vars
             PROVE  EachTaskHasItsPlace'
  OBVIOUS
<1>1. ASSUME NEW n \in Limits, SetMaxConcurrent(n)
      PROVE  EachTaskHasItsPlace'
  <2>1. doing = {} /\ doing' = {} /\ limit' \in Nat
    BY <1>1, JobAssumption DEF SetMaxConcurrent, EachTaskHasItsPlace, JobAssumption
  <2>2. Cardinality(doing') <= limit'
    BY <2>1, FS_EmptySet
  <2> QED
    BY <1>1, <2>1, <2>2 DEF SetMaxConcurrent, EachTaskHasItsPlace, childVars, bookVars
<1>2. CASE Start
  BY <1>2 DEF Start, EachTaskHasItsPlace, childVars
<1>3. CASE Clear
  BY <1>3, EmptyQueuePlace DEF Clear, childVars
<1>4. CASE AbortIdle
  BY <1>4, EmptyQueuePlace DEF AbortIdle, DropQueue
<1>5. CASE ExecuteNextSubTask
  <2>1. CASE StartSubTask
    BY <1>5, <2>1, StartSubTaskPlace
  <2>2. CASE OptionsDecided
    <3>1. state' = "Inactive" => state = "Inactive"
      BY <2>2, EmitNotInactive DEF OptionsDecided, EndStates
    <3> QED
      BY <1>5, <2>2, <3>1 DEF ExecuteNextSubTask, BaseQuiet, bookVars, OptionsDecided,
                              EachTaskHasItsPlace
  <2>3. CASE NothingToDo
    BY <1>5, <2>3 DEF ExecuteNextSubTask, BaseQuiet, bookVars, NothingToDo, EachTaskHasItsPlace
  <2>4. CASE Conclude
    <3>1. doing' = {}
      BY <2>4 DEF Conclude
    <3> QED
      BY <1>5, <2>4, <3>1 DEF ExecuteNextSubTask, BaseQuiet, bookVars, Conclude, EachTaskHasItsPlace
  <2> QED
    BY <1>5, <2>1, <2>2, <2>3, <2>4 DEF ExecuteNextSubTask
<1>6. CASE UNCHANGED vars
  BY <1>6 DEF vars, jobVars, childVars, bookVars, EachTaskHasItsPlace
<1> QED
  BY <1>1, <1>2, <1>3, <1>4, <1>5, <1>6, AddTaskPlace, AbortActivePlace,
     ChildStartPlace, ChildEndPlace
  DEF Next, Owner, Abort, Child

\* Every task is in exactly one place: queued once, active, given up, or ended
\* with its outcome recorded (inductive together with TypeOK).
THEOREM PlaceCorrect == Spec => []EachTaskHasItsPlace
<1>1. Init => TypeOK /\ EachTaskHasItsPlace
  BY InitType, InitPlace
<1>2. TypeOK /\ EachTaskHasItsPlace /\ [Next]_vars => (TypeOK /\ EachTaskHasItsPlace)'
  BY NextType, NextPlace
<1> QED
  BY <1>1, <1>2, PTL DEF Spec

\* No child runs that the job does not count, and it never counts more than
\* max_concurrent, through any number of aborts and restarts.
THEOREM LimitAlwaysRespected == Spec => []LimitRespected
<1>1. TypeOK /\ EachTaskHasItsPlace => LimitRespected
  BY DEF EachTaskHasItsPlace, LimitRespected, Active
<1> QED
  BY <1>1, TypeCorrect, PlaceCorrect, PTL

\* A task taken off the queue by abort() or clear() never runs.
THEOREM DroppedTasksNeverRun == Spec => []DroppedNeverRuns
<1>1. EachTaskHasItsPlace => DroppedNeverRuns
  BY DEF EachTaskHasItsPlace, DroppedNeverRuns
<1> QED
  BY <1>1, PlaceCorrect, PTL
-----------------------------------------------------------------------------
(* The outcome of the job. *)

\* What a job that nobody aborted has emitted since it was started.
OneSignal == signals = IF state \in EndStates THEN <<state>> ELSE <<>>

\* Only a running task emits, and then it no longer runs.
LEMMA EmitOnce ==
    ASSUME OneSignal, NEW o \in EndStates, Emit(o)
    PROVE  OneSignal'
<1>1. CASE state = "Running"
  <2>1. signals = <<>> /\ state' = o /\ signals' = Append(<<>>, o)
    BY <1>1 DEF Emit, OneSignal, EndStates
  <2> QED
    BY <2>1 DEF OneSignal
<1>2. CASE state # "Running"
  BY <1>2 DEF Emit, OneSignal
<1> QED
  BY <1>1, <1>2

LEMMA NextSignal == TypeOK /\ FinishesOnce /\ [Next]_vars => FinishesOnce'
<1> SUFFICES ASSUME TypeOK, FinishesOnce, [Next]_vars, abortCount' = 0
             PROVE  OneSignal'
  BY DEF FinishesOnce, OneSignal
<1> USE DEF EndStates
<1>1. ASSUME NEW t \in Tasks, AddTask(t)
      PROVE  OneSignal'
  BY <1>1 DEF AddTask, FinishesOnce, OneSignal
<1>2. ASSUME NEW n \in Limits, SetMaxConcurrent(n)
      PROVE  OneSignal'
  BY <1>2 DEF SetMaxConcurrent, bookVars, FinishesOnce, OneSignal
<1>3. CASE Start
  BY <1>3 DEF Start, OneSignal
<1>4. CASE Clear
  BY <1>4 DEF Clear, FinishesOnce, OneSignal
<1>5. CASE Abort
  BY <1>5 DEF Abort, AbortIdle, AbortActive, DropQueue, TypeOK
<1>6. CASE ExecuteNextSubTask
  <2>1. OneSignal
    BY <1>6 DEF ExecuteNextSubTask, BaseQuiet, bookVars, FinishesOnce, OneSignal
  <2>2. UNCHANGED <<state, signals>> \/ \E o \in EndStates : Emit(o)
    BY <1>6 DEF ExecuteNextSubTask, OptionsDecided, NothingToDo, Conclude, StartSubTask
  <2> QED
    BY <2>1, <2>2, EmitOnce DEF OneSignal
<1>7. ASSUME NEW t \in Tasks, ChildStart(t)
      PROVE  OneSignal'
  BY <1>7 DEF ChildStart, jobVars, bookVars, FinishesOnce, OneSignal
<1>8. ASSUME NEW t \in Tasks, NEW o \in EndStates, ChildEnd(t, o)
      PROVE  OneSignal'
  <2>1. OneSignal
    BY <1>8 DEF ChildEnd, bookVars, FinishesOnce, OneSignal
  <2>2. UNCHANGED <<state, signals>> \/ Emit("Failed")
    BY <1>8 DEF ChildEnd, SubTaskPolicy, jobVars
  <2> QED
    BY <2>1, <2>2, EmitOnce DEF OneSignal
<1>9. CASE UNCHANGED vars
  BY <1>9 DEF vars, jobVars, bookVars, FinishesOnce, OneSignal
<1> QED
  BY <1>1, <1>2, <1>3, <1>4, <1>5, <1>6, <1>7, <1>8, <1>9 DEF Next, Owner, Child

\* A job that nobody aborts emits its outcome once per start, whatever wakeups
\* are left in the event loop.
THEOREM EndsOnce == Spec => []FinishesOnce
<1>1. Init => FinishesOnce
  BY DEF Init, FinishesOnce, EndStates
<1> QED
  BY <1>1, InitType, NextType, NextSignal, PTL DEF Spec

\* The one step in which a job whose policy is not "options" becomes Succeeded.
LEMMA OnlyConcludeSucceeds ==
    ASSUME [Next]_vars, kind # "options", state # "Succeeded", state' = "Succeeded"
    PROVE  /\ queue = <<>> /\ doing = {} /\ failed = {}
<1>1. ASSUME NEW o \in {"Failed", "AbortedByUser"}, Emit(o)
      PROVE  FALSE
  BY <1>1 DEF Emit
<1>2. ~Owner
  <2>1. ~AbortActive
    BY <1>1 DEF AbortActive, ChildrenAnswer
  <2> QED
    BY <2>1 DEF Owner, AddTask, SetMaxConcurrent, Start, Clear, Abort, AbortIdle
<1>3. ASSUME NEW t \in Tasks, Child(t)
      PROVE  FALSE
  <2>1. ~ChildStart(t)
    BY DEF ChildStart, jobVars
  <2>2. ASSUME NEW o \in EndStates, ChildEnd(t, o)
        PROVE  FALSE
    BY <1>1, <2>2 DEF ChildEnd, SubTaskPolicy, jobVars
  <2> QED
    BY <1>3, <2>1, <2>2 DEF Child
<1>4. Conclude
  BY <1>2, <1>3 DEF Next, vars, jobVars, ExecuteNextSubTask, OptionsDecided,
                    NothingToDo, StartSubTask
<1> QED
  BY <1>1, <1>4 DEF Conclude

\* A job becomes Succeeded only when all it owes has succeeded and no child is
\* active.
THEOREM SuccessAlwaysEarned == Spec => SuccessIsEarned
<1>1. ASSUME TypeOK, EachTaskHasItsPlace, [Next]_vars, kind # "options",
             state # "Succeeded", state' = "Succeeded"
      PROVE  ToSet(owed) \subseteq succeeded /\ Active = {}
  <2>1. queue = <<>> /\ doing = {} /\ failed = {}
    BY <1>1, OnlyConcludeSucceeds
  <2>2. ToSet(queue) = {}
    BY <2>1 DEF ToSet
  <2> QED
    BY <1>1, <2>1, <2>2 DEF EachTaskHasItsPlace, Active
<1> QED
  BY <1>1, TypeCorrect, PlaceCorrect, PTL DEF Spec, SuccessIsEarned

-----------------------------------------------------------------------------
(* The queue as a pool of work. *)

Over == {t \in Tasks : child[t] \in EndStates}

\* Steps that only move waiting items out, or that leave the pool alone.
LEMMA PoolGivesUp ==
    ASSUME TypeOK, queue' = <<>>, UNCHANGED <<doing, child>>
    PROVE  Pool!GiveUp
<1>1. ToSet(queue') = {} /\ Over' = Over
  BY DEF ToSet, Over
<1>2. Over' = Over \cup {} /\ {} \subseteq Over \cup {} /\ doing' = doing \ {}
  BY <1>1
<1>3. {} \in SUBSET doing
  OBVIOUS
<1> QED
  BY <1>1, <1>2, <1>3 DEF Pool!GiveUp, Over

\* abort() with active children: those that end, end; those that fail leave.
LEMMA PoolAbort ==
    ASSUME TypeOK, AbortActive
    PROVE  Pool!GiveUp
<1>1. PICK a \in [doing -> Answers] : PossibleAnswers(a) /\ ChildrenAnswer(a)
  BY DEF AbortActive
<1> DEFINE Fails == {t \in doing : a[t] = "fails"}
           Ends == {t \in doing : a[t] = "ends"}
<1>2. ToSet(queue') = {}
  BY DEF AbortActive, DropQueue, ToSet
<1>3. child' = [t \in Tasks |-> IF t \in Ends THEN "AbortedByUser"
                                ELSE IF t \in Fails THEN "Failed" ELSE child[t]]
  BY <1>1 DEF ChildrenAnswer
<1>4. \A t \in Ends \cup Fails : child[t] = "Running" /\ t \in Tasks
  BY <1>1 DEF PossibleAnswers, TypeOK
<1>5. Over' = Over \cup (Ends \cup Fails)
  BY <1>3, <1>4 DEF Over, EndStates
<1>6. doing' = doing \ Fails
  BY <1>1 DEF ChildrenAnswer
<1>7. Fails \subseteq Over \cup (Ends \cup Fails)
  OBVIOUS
<1>8. Ends \cup Fails \in SUBSET doing /\ Fails \in SUBSET doing
  OBVIOUS
<1> HIDE DEF Ends, Fails
<1> QED
  BY <1>2, <1>5, <1>6, <1>7, <1>8 DEF Pool!GiveUp, Over

\* startSubTask() takes one waiting item.
LEMMA PoolTake ==
    ASSUME TypeOK, EachTaskHasItsPlace, ExecuteNextSubTask, StartSubTask
    PROVE  Pool!Take
<1>1. /\ queue \in Seq(Tasks) /\ queue # <<>> /\ queue' = Tail(queue)
      /\ doing' = doing \cup {Head(queue)} /\ child' = child
  BY DEF TypeOK, StartSubTask, ExecuteNextSubTask, BaseQuiet
<1>2. /\ Head(queue) \in ToSet(queue)
      /\ ToSet(queue') = ToSet(queue) \ {Head(queue)}
  BY <1>1, ToSetTail DEF EachTaskHasItsPlace
<1> QED
  BY <1>1, <1>2 DEF Pool!Take

\* A child ends; it leaves its slot if the job hears of it.
LEMMA PoolEnd ==
    ASSUME TypeOK, EachTaskHasItsPlace, NEW t \in Tasks, NEW o \in EndStates,
           ChildEnd(t, o)
    PROVE  Pool!End
<1>1. /\ child[t] = "Running" /\ t \in doing /\ queue' = queue
      /\ child' = [child EXCEPT ![t] = o]
  BY DEF ChildEnd, SubTaskFinished, jobVars, EachTaskHasItsPlace
<1>2. Over' = Over \cup {t}
  BY <1>1 DEF Over, TypeOK
<1>3. doing' = doing \ {t} \/ doing' = doing \ {}
  BY DEF ChildEnd, SubTaskFinished, jobVars
<1>4. {t} \in SUBSET doing /\ {} \in SUBSET doing
  BY <1>1
<1>5. {t} \subseteq Over \cup {t} /\ {} \subseteq Over \cup {t}
  OBVIOUS
<1> QED
  BY <1>1, <1>2, <1>3, <1>4, <1>5 DEF Pool!End, Over

LEMMA PoolStep ==
    ASSUME TypeOK, EachTaskHasItsPlace, [Next]_vars
    PROVE  [Pool!Next]_<<ToSet(queue), doing, Over>>
<1>1. ASSUME NEW t \in Tasks, AddTask(t)
      PROVE  Pool!Offer
  <2>1. /\ ToSet(queue') = ToSet(queue) \cup {t}
        /\ UNCHANGED <<doing, child>>
    BY <1>1, ToSetAppend DEF AddTask, childVars, TypeOK
  <2>2. t \in Tasks \ (ToSet(queue) \cup doing \cup Over)
    BY <1>1 DEF AddTask, Fresh, Over, EndStates
  <2> QED
    BY <2>1, <2>2 DEF Pool!Offer, Over
<1>2. ASSUME NEW n \in Limits, SetMaxConcurrent(n)
      PROVE  UNCHANGED <<ToSet(queue), doing, Over>>
  BY <1>2 DEF SetMaxConcurrent, childVars, Over
<1>3. CASE Start
  BY <1>3 DEF Start, childVars, Over
<1>4. CASE Clear
  BY <1>4, PoolGivesUp DEF Clear, childVars, Pool!Next
<1>5. CASE AbortIdle
  BY <1>5, PoolGivesUp DEF AbortIdle, DropQueue, Pool!Next
<1>6. CASE AbortActive
  BY <1>6, PoolAbort DEF Pool!Next
<1>7. CASE ExecuteNextSubTask
  <2>1. CASE StartSubTask
    BY <1>7, <2>1, PoolTake DEF Pool!Next
  <2>2. CASE ~StartSubTask
    <3>1. UNCHANGED <<queue, doing, child>>
      BY <1>7, <2>2 DEF ExecuteNextSubTask, BaseQuiet, OptionsDecided, NothingToDo, Conclude
    <3> QED
      BY <3>1 DEF Over
  <2> QED
    BY <2>1, <2>2
<1>8. ASSUME NEW t \in Tasks, ChildStart(t)
      PROVE  UNCHANGED <<ToSet(queue), doing, Over>>
  <2>1. child[t] = "Inactive" /\ child' = [child EXCEPT ![t] = "Running"]
    BY <1>8 DEF ChildStart, EachTaskHasItsPlace
  <2>2. Over' = Over
    BY <2>1 DEF Over, EndStates, TypeOK
  <2> QED
    BY <1>8, <2>2 DEF ChildStart, jobVars
<1>9. ASSUME NEW t \in Tasks, NEW o \in EndStates, ChildEnd(t, o)
      PROVE  Pool!End
  BY <1>9, PoolEnd
<1>10. CASE UNCHANGED vars
  BY <1>10 DEF vars, jobVars, childVars, Over
<1> QED
  BY <1>1, <1>2, <1>3, <1>4, <1>5, <1>6, <1>7, <1>8, <1>9, <1>10
  DEF Next, Owner, Abort, Child, Pool!Next

\* ConcurrentTask implements the pool of work: no task is taken twice, none is
\* taken after it ended, and none leaves its slot before it ended.
THEOREM ImplementsPool == Spec => PoolSpec
<1>1. Init => Pool!Init
  BY DEF Init, Pool!Init, ToSet, EndStates
<1>2. ASSUME TypeOK, EachTaskHasItsPlace, [Next]_vars
      PROVE  [Pool!Next]_(Pool!poolVars)
  BY <1>2, PoolStep DEF Pool!poolVars, Over
<1> QED
  BY <1>1, <1>2, TypeCorrect, PlaceCorrect, PTL DEF Spec, PoolSpec, Pool!Spec
-----------------------------------------------------------------------------
(* The order in which the policies start their tasks. *)

Bad == {"Failed", "AbortedByUser"}

\* What m_done and m_failed record is how the children ended.
OutcomesRecorded ==
    /\ failed \subseteq done
    /\ \A t \in done : child[t] \in EndStates
    /\ \A t \in failed : child[t] \in Bad

\* How many of the tasks the job owes have left the queue.
Taken == Len(owed) - Len(queue)

\* The queue is what is left of the list of tasks.
QueueIsRest ==
    /\ Len(queue) <= Len(owed)
    /\ \A i \in 1..Len(queue) : queue[i] = owed[Taken + i]

\* With one slot, what has left the queue is active or has ended, and all but
\* the last of it has ended (for MultipleOptionsTask: in vain).
TakenInOrder ==
    kind # "concurrent" =>
        /\ limit = 1
        /\ \A i \in 1..Taken : owed[i] \in doing \cup done
        /\ \A i, j \in 1..Taken :
              i < j => child[owed[i]] \in (IF kind = "options" THEN Bad ELSE EndStates)

\* The inductive invariant behind PolicyKept.
Order == OutcomesRecorded /\ QueueIsRest /\ TakenInOrder

\* A child that has ended stays as it ended.
LEMMA EndedStays ==
    ASSUME TypeOK, EachTaskHasItsPlace, [Next]_vars,
           NEW t \in Tasks, child[t] \in EndStates
    PROVE  child'[t] = child[t]
<1> USE DEF EndStates
<1>1. ASSUME AbortActive
      PROVE  child'[t] = child[t]
  BY <1>1 DEF AbortActive, ChildrenAnswer, PossibleAnswers
<1>2. ASSUME NEW u \in Tasks, ChildStart(u)
      PROVE  child'[t] = child[t]
  BY <1>2 DEF ChildStart, EachTaskHasItsPlace, TypeOK
<1>3. ASSUME NEW u \in Tasks, NEW o \in EndStates, ChildEnd(u, o)
      PROVE  child'[t] = child[t]
  BY <1>3 DEF ChildEnd, TypeOK
<1> QED
  BY <1>1, <1>2, <1>3
  DEF Next, Owner, Child, Abort, AddTask, SetMaxConcurrent, Start, Clear, AbortIdle,
      ExecuteNextSubTask, BaseQuiet, childVars, vars

\* The outcomes the job records are those its children ended with.
LEMMA NextOutcomes ==
    ASSUME TypeOK, EachTaskHasItsPlace, [Next]_vars, OutcomesRecorded
    PROVE  OutcomesRecorded'
<1>1. ASSUME UNCHANGED <<done, failed>>
      PROVE  OutcomesRecorded'
  BY <1>1, EndedStays DEF OutcomesRecorded, TypeOK
<1>2. CASE Clear
  BY <1>2 DEF Clear, OutcomesRecorded
<1>3. CASE AbortActive
  <2>1. PICK a \in [doing -> Answers] : PossibleAnswers(a) /\ ChildrenAnswer(a)
    BY <1>3 DEF AbortActive
  <2> DEFINE Fails == {t \in doing : a[t] = "fails"}
  <2>2. done' = done \cup Fails /\ failed' = failed \cup Fails
    BY <2>1 DEF ChildrenAnswer
  <2>3. \A t \in Fails : t \in Tasks /\ child'[t] = "Failed"
    BY <2>1 DEF ChildrenAnswer, TypeOK
  <2>4. \A t \in done : child'[t] = child[t]
    BY EndedStays DEF OutcomesRecorded, TypeOK
  <2> HIDE DEF Fails
  <2> QED
    BY <2>2, <2>3, <2>4 DEF OutcomesRecorded, EndStates, Bad
<1>4. ASSUME NEW t \in Tasks, NEW o \in EndStates, ChildEnd(t, o)
      PROVE  OutcomesRecorded'
  <2>1. CASE Reaches(t, o)
    <3>1. SubTaskFinished(t, o) /\ child'[t] = o
      BY <1>4, <2>1 DEF ChildEnd, TypeOK
    <3>2. \A u \in done : child'[u] = child[u]
      BY EndedStays DEF OutcomesRecorded, TypeOK
    <3> QED
      BY <3>1, <3>2 DEF SubTaskFinished, OutcomesRecorded, EndStates, Bad
  <2>2. CASE ~Reaches(t, o)
    BY <1>1, <1>4, <2>2 DEF ChildEnd, jobVars
  <2> QED
    BY <2>1, <2>2
<1> QED
  BY <1>1, <1>2, <1>3, <1>4
  DEF Next, Owner, Child, Abort, AddTask, SetMaxConcurrent, Start, AbortIdle,
      ExecuteNextSubTask, BaseQuiet, ChildStart, vars, jobVars

\* The list of tasks grows at its end, together with the queue.
LEMMA AddTaskRest ==
    ASSUME TypeOK, QueueIsRest, NEW t \in Tasks, AddTask(t)
    PROVE  /\ QueueIsRest'
           /\ Taken' = Taken /\ Taken \in Nat
           /\ \A i \in 1..Taken : owed'[i] = owed[i]
<1>1. /\ queue \in Seq(Tasks) /\ owed \in Seq(Tasks)
      /\ queue' = Append(queue, t) /\ owed' = Append(owed, t)
  BY DEF TypeOK, AddTask
<1>2. /\ Len(queue) \in Nat /\ Len(owed) \in Nat
      /\ Len(queue') = Len(queue) + 1 /\ Len(owed') = Len(owed) + 1
      /\ \A i \in 1..Len(queue) : queue'[i] = queue[i]
      /\ \A i \in 1..Len(owed) : owed'[i] = owed[i]
      /\ queue'[Len(queue) + 1] = t /\ owed'[Len(owed) + 1] = t
  BY <1>1
<1>3. Taken' = Taken /\ Taken \in Nat
  BY <1>2 DEF Taken, QueueIsRest
<1>4. ASSUME NEW i \in 1..Len(queue')
      PROVE  queue'[i] = owed'[Taken' + i]
  <2>1. CASE i = Len(queue) + 1
    <3>1. Taken + i = Len(owed) + 1
      BY <1>2, <2>1 DEF Taken
    <3> QED
      BY <1>2, <1>3, <2>1, <3>1
  <2>2. CASE i # Len(queue) + 1
    <3>1. i \in 1..Len(queue) /\ Taken + i \in 1..Len(owed)
      BY <1>2, <1>3, <2>2 DEF Taken, QueueIsRest
    <3> QED
      BY <1>2, <1>3, <3>1 DEF QueueIsRest
  <2> QED
    BY <2>1, <2>2
<1>5. \A i \in 1..Taken : i \in 1..Len(owed)
  BY <1>2, <1>3 DEF Taken
<1> QED
  BY <1>2, <1>3, <1>4, <1>5 DEF QueueIsRest

\* The head of the queue is the next task of the list.
LEMMA StartRest ==
    ASSUME TypeOK, QueueIsRest, queue # <<>>, queue' = Tail(queue), owed' = owed
    PROVE  /\ QueueIsRest'
           /\ Taken \in Nat /\ Taken' = Taken + 1
           /\ owed[Taken + 1] = Head(queue)
<1>1. /\ queue \in Seq(Tasks) /\ Len(queue) \in Nat \ {0} /\ Len(owed) \in Nat
      /\ Len(queue') = Len(queue) - 1 /\ Head(queue) = queue[1]
      /\ \A i \in 1..Len(queue') : queue'[i] = queue[i + 1]
  BY DEF TypeOK
<1>2. Taken \in Nat /\ Taken' = Taken + 1
  BY <1>1 DEF Taken, QueueIsRest
<1>3. owed[Taken + 1] = Head(queue)
  BY <1>1 DEF QueueIsRest
<1>4. ASSUME NEW i \in 1..Len(queue')
      PROVE  queue'[i] = owed'[Taken' + i]
  <2>1. i + 1 \in 1..Len(queue) /\ Taken + (i + 1) = Taken' + i
    BY <1>1, <1>2
  <2> QED
    BY <1>1, <2>1 DEF QueueIsRest
<1>5. Len(queue') <= Len(owed')
  BY <1>1 DEF QueueIsRest
<1> QED
  BY <1>2, <1>3, <1>4, <1>5 DEF QueueIsRest

\* Abort and clear leave nothing owed.
LEMMA EmptyRest ==
    ASSUME queue' = <<>>, owed' = <<>>
    PROVE  QueueIsRest' /\ Taken' = 0
  BY DEF QueueIsRest, Taken

\* Whatever else happens leaves the order alone.
LEMMA SameOrder ==
    ASSUME TypeOK, EachTaskHasItsPlace, [Next]_vars, Order,
           UNCHANGED <<kind, limit, queue, owed>>,
           doing \cup done \subseteq doing' \cup done'
    PROVE  QueueIsRest' /\ TakenInOrder'
<1>1. QueueIsRest' /\ Taken' = Taken
  BY DEF Order, QueueIsRest, Taken
<1>2. Len(owed) \in Nat /\ Len(queue) \in Nat /\ Taken <= Len(owed)
  BY DEF Taken, TypeOK
<1>3. \A i \in 1..Taken : owed[i] \in Tasks
  BY <1>2 DEF Taken, TypeOK
<1>4. \A i \in 1..Taken : child[owed[i]] \in EndStates => child'[owed[i]] = child[owed[i]]
  BY <1>3, EndedStays
<1>5. TakenInOrder'
  BY <1>1, <1>4 DEF Order, TakenInOrder, EndStates, Bad
<1> QED
  BY <1>1, <1>5

\* startSubTask() under a policy with one slot: the slot is free, so all that
\* was taken before has ended, and in vain if the policy tries options.
LEMMA StartOrder ==
    ASSUME TypeOK, EachTaskHasItsPlace, Order, ExecuteNextSubTask, StartSubTask,
           kind = "options" => OptionsOpen
    PROVE  QueueIsRest' /\ TakenInOrder'
<1>1. /\ queue # <<>> /\ queue' = Tail(queue)
      /\ doing' = doing \cup {Head(queue)} /\ Cardinality(doing) < limit
      /\ UNCHANGED <<kind, limit, owed, done, failed, child>>
  BY DEF StartSubTask, ExecuteNextSubTask, BaseQuiet, bookVars
<1>2. /\ QueueIsRest' /\ Taken \in Nat /\ Taken' = Taken + 1
      /\ owed[Taken + 1] = Head(queue)
  BY <1>1, StartRest DEF Order
<1>3. ASSUME kind # "concurrent"
      PROVE  /\ \A i \in 1..Taken : owed[i] \in done
             /\ kind = "options" => \A i \in 1..Taken : owed[i] \in failed
  <2>1. doing = {}
    <3>1. IsFiniteSet(doing) /\ Cardinality(doing) \in Nat /\ Cardinality(doing) < 1
      BY <1>1, <1>3, DoingFinite DEF Order, TakenInOrder
    <3> QED
      BY <3>1, FS_EmptySet
  <2>2. \A i \in 1..Taken : owed[i] \in done
    BY <1>3, <2>1 DEF Order, TakenInOrder
  <2>3. ASSUME kind = "options"
        PROVE  done = failed
    <3>1. IsFiniteSet(done) /\ failed \subseteq done
      BY FS_Subset, JobAssumption DEF JobAssumption, TypeOK, Order, OutcomesRecorded
    <3>2. Cardinality(done) = Cardinality(failed)
      BY <2>3 DEF OptionsOpen
    <3> QED
      BY <3>1, <3>2, FS_Subset
  <2> QED
    BY <2>2, <2>3
<1>4. ASSUME kind # "concurrent", NEW i \in 1..Taken'
      PROVE  owed'[i] \in doing' \cup done'
  <2>1. i \in 1..Taken \/ i = Taken + 1
    BY <1>2
  <2> QED
    BY <1>1, <1>2, <1>3, <1>4, <2>1
<1>5. ASSUME kind # "concurrent", NEW i \in 1..Taken', NEW j \in 1..Taken', i < j
      PROVE  child'[owed'[i]] \in (IF kind = "options" THEN Bad ELSE EndStates)
  <2>1. i \in 1..Taken
    BY <1>2, <1>5
  <2> QED
    BY <1>1, <1>3, <1>5, <2>1 DEF Order, OutcomesRecorded
<1>6. TakenInOrder'
  BY <1>1, <1>4, <1>5 DEF Order, TakenInOrder
<1> QED
  BY <1>2, <1>6

LEMMA NextOrder ==
    TypeOK /\ EachTaskHasItsPlace /\ Order /\ [Next]_vars => Order'
<1> SUFFICES ASSUME TypeOK, EachTaskHasItsPlace, Order, [Next]_vars
             PROVE  QueueIsRest' /\ TakenInOrder'
  BY NextOutcomes DEF Order
<1>1. ASSUME NEW t \in Tasks, AddTask(t)
      PROVE  QueueIsRest' /\ TakenInOrder'
  <2>1. /\ QueueIsRest' /\ Taken' = Taken
        /\ \A i \in 1..Taken : owed'[i] = owed[i]
    BY <1>1, AddTaskRest DEF Order
  <2>2. UNCHANGED <<kind, limit, doing, done, child>>
    BY <1>1 DEF AddTask, childVars
  <2>3. TakenInOrder'
    BY <2>1, <2>2 DEF Order, TakenInOrder
  <2> QED
    BY <2>1, <2>3
<1>2. ASSUME NEW n \in Limits, SetMaxConcurrent(n)
      PROVE  QueueIsRest' /\ TakenInOrder'
  <2>1. UNCHANGED <<kind, queue, owed, doing, done, child>> /\ limit' \in LimitsOf(kind)
    BY <1>2 DEF SetMaxConcurrent, childVars, bookVars
  <2> QED
    BY <2>1 DEF Order, QueueIsRest, TakenInOrder, Taken, LimitsOf
<1>3. ASSUME queue' = <<>>, owed' = <<>>, UNCHANGED <<kind, limit>>
      PROVE  QueueIsRest' /\ TakenInOrder'
  <2>1. QueueIsRest' /\ Taken' = 0
    BY <1>3, EmptyRest
  <2> QED
    BY <1>3, <2>1 DEF Order, TakenInOrder
<1>4. CASE Clear \/ Abort
  BY <1>3, <1>4 DEF Clear, Abort, AbortIdle, AbortActive, DropQueue
<1>5. CASE ExecuteNextSubTask
  <2>1. CASE StartSubTask /\ (kind = "options" => OptionsOpen)
    BY <1>5, <2>1, StartOrder
  <2>2. CASE ~(StartSubTask /\ (kind = "options" => OptionsOpen))
    <3>1. UNCHANGED <<kind, limit, queue, owed, doing, done>>
      BY <1>5, <2>2 DEF ExecuteNextSubTask, BaseQuiet, bookVars, OptionsDecided,
                        NothingToDo, Conclude
    <3> QED
      BY <3>1, SameOrder
  <2> QED
    BY <2>1, <2>2
<1>6. ASSUME NEW t \in Tasks, Child(t)
      PROVE  QueueIsRest' /\ TakenInOrder'
  <2>1. /\ UNCHANGED <<kind, limit, queue, owed>>
        /\ doing \cup done \subseteq doing' \cup done'
    BY <1>6 DEF Child, ChildStart, ChildEnd, SubTaskFinished, jobVars, bookVars
  <2> QED
    BY <2>1, SameOrder
<1>7. CASE Start \/ UNCHANGED vars
  <2>1. UNCHANGED <<kind, limit, queue, owed, doing, done>>
    BY <1>7 DEF Start, vars, jobVars, bookVars
  <2> QED
    BY <2>1, SameOrder
<1> QED
  BY <1>1, <1>2, <1>4, <1>5, <1>6, <1>7 DEF Next, Owner

\* The inductive invariant gives the property: a task that has left the queue
\* is among the first `Taken' of the list.
LEMMA OrderImpliesPolicy ==
    ASSUME TypeOK, EachTaskHasItsPlace, Order
    PROVE  PolicyKept
<1>1. /\ Len(owed) \in Nat /\ Len(queue) \in Nat /\ Taken \in Nat
      /\ DOMAIN owed = 1..Len(owed)
  BY DEF TypeOK, Order, QueueIsRest, Taken
<1>2. ASSUME NEW j \in DOMAIN owed, child[owed[j]] # "Inactive" \/ owed[j] \in starts
      PROVE  j \in 1..Taken
  <2> SUFFICES ASSUME ~(j <= Taken)
               PROVE  FALSE
    BY <1>1
  <2>1. j - Taken \in 1..Len(queue) /\ Taken + (j - Taken) = j
    BY <1>1 DEF Taken
  <2>2. queue[j - Taken] = owed[j] /\ j - Taken \in DOMAIN queue
    BY <2>1 DEF Order, QueueIsRest, TypeOK
  <2>3. owed[j] \in ToSet(queue)
    BY <2>2 DEF ToSet
  <2> QED
    BY <1>2, <2>3 DEF EachTaskHasItsPlace
<1>3. ASSUME kind # "concurrent", NEW i \in DOMAIN owed, NEW j \in DOMAIN owed, i < j,
             child[owed[j]] # "Inactive" \/ owed[j] \in starts
      PROVE  child[owed[i]] \in (IF kind = "options" THEN Bad ELSE EndStates)
  <2>1. j \in 1..Taken
    BY <1>2, <1>3
  <2>2. i \in 1..Taken
    BY <1>1, <1>3, <2>1
  <2> QED
    BY <1>3, <2>1, <2>2 DEF Order, TakenInOrder
<1>4. SequentialOrder
  BY <1>3 DEF SequentialOrder, Bad, EndStates
<1>5. OptionsStopAtSuccess
  BY <1>3 DEF OptionsStopAtSuccess, Bad
<1> QED
  BY <1>4, <1>5 DEF PolicyKept

\* SequentialTask starts a task only after all before it have ended, and
\* MultipleOptionsTask only after all before it have failed, through any number
\* of aborts and restarts.
THEOREM PolicyAlwaysKept == Spec => []PolicyKept
<1>1. Init => Order
  <2> SUFFICES ASSUME Init PROVE Order
    OBVIOUS
  <2>1. Taken = 0 /\ QueueIsRest
    BY DEF Init, Taken, QueueIsRest
  <2> QED
    BY <2>1 DEF Init, Order, OutcomesRecorded, TakenInOrder, LimitsOf
<1>2. TypeOK /\ EachTaskHasItsPlace /\ Order => PolicyKept
  BY OrderImpliesPolicy
<1>3. Spec => []Order
  BY <1>1, NextOrder, TypeCorrect, PlaceCorrect, PTL DEF Spec
<1> QED
  BY <1>2, <1>3, TypeCorrect, PlaceCorrect, PTL
-----------------------------------------------------------------------------
(* NetJob: where the downloads are. *)

\* A hash table hands out each of its elements once.
LEMMA SeqsOfSet ==
    ASSUME NEW S, IsFiniteSet(S), NEW q \in SetToSeqs(S)
    PROVE  q \in Seq(S) /\ IsInjective(q) /\ ToSet(q) = S
<1> DEFINE n == Cardinality(S)
<1>1. n \in Nat
  BY FS_CardinalityType
<1>2. q \in [1..n -> S] /\ \A i, j \in 1..n : i # j => q[i] # q[j]
  BY DEF SetToSeqs
<1>3. q \in Injection(1..n, S) /\ IsInjective(q)
  BY <1>2 DEF Injection, IsInjective
<1>4. Cardinality(1..n) = n
  BY <1>1, FS_Interval
<1>5. q \in Surjection(1..n, S)
  BY <1>3, <1>4, FS_Injection
<1>6. q \in Seq(S)
  BY <1>1, <1>2
<1>7. DOMAIN q = 1..n
  BY <1>2
<1>8. ToSet(q) = S
  BY <1>2, <1>5, <1>7 DEF ToSet, Surjection
<1> QED
  BY <1>3, <1>6, <1>8

\* The types of the variables that say where a download is.
NetTypes ==
    /\ queue \in Seq(Tasks)
    /\ owed \in Seq(Tasks)
    /\ doing \subseteq Tasks
    /\ done \subseteq Tasks
    /\ failed \subseteq Tasks
    /\ succeeded \subseteq Tasks
    /\ starts \subseteq Tasks
    /\ child \in [Tasks -> TaskStates]

\* Only downloads the job was given are anywhere, and those that run or whose
\* start is pending are active.
NetPlaces ==
    /\ ToSet(queue) \cup doing \cup failed \cup succeeded \subseteq ToSet(owed)
    /\ \A t \in starts : t \in doing /\ child[t] # "Running"
    /\ \A t \in Tasks : child[t] = "Running" => t \in doing

\* The inductive invariant behind NoDownloadLost.
NetInv == NetTypes /\ NetPlaces /\ NoDownloadLost

whereVars == <<queue, owed, doing, done, failed, succeeded, starts, child>>

\* The invariant is about these variables only.
LEMMA NetSame ==
    ASSUME NetInv, UNCHANGED whereVars
    PROVE  NetInv'
  BY DEF NetInv, NetTypes, NetPlaces, NoDownloadLost, whereVars

\* addNetAction(): a download the job was never given.
LEMMA NetAdd ==
    ASSUME NetInv, NEW t \in Tasks, AddNetAction(t)
    PROVE  NetInv'
<1>1. /\ queue' = Append(queue, t) /\ owed' = Append(owed, t)
      /\ t \notin ToSet(owed)
      /\ UNCHANGED <<doing, done, failed, succeeded, starts, child>>
  BY DEF AddNetAction, AddTask, childVars
<1>2. /\ ToSet(queue') = ToSet(queue) \cup {t}
      /\ ToSet(owed') = ToSet(owed) \cup {t}
      /\ queue' \in Seq(Tasks) /\ owed' \in Seq(Tasks)
  BY <1>1, ToSetAppend, SeqTypes DEF NetInv, NetTypes
<1>3. t \notin ToSet(queue) \cup doing \cup failed \cup succeeded
  BY <1>1 DEF NetInv, NetPlaces
<1>4. IsInjective(queue')
  BY <1>1, <1>3, InjectiveAppend DEF NetInv, NetTypes, NoDownloadLost
<1>5. NetTypes' /\ NetPlaces'
  BY <1>1, <1>2 DEF NetInv, NetTypes, NetPlaces
<1>6. NoDownloadLost'
  BY <1>1, <1>2, <1>3, <1>4 DEF NetInv, NoDownloadLost
<1> QED
  BY <1>5, <1>6 DEF NetInv

\* NetJob::abort: what was queued and what ends at once counts as failed.
LEMMA NetAbort ==
    ASSUME NetInv, AbortJob
    PROVE  NetInv'
<1>1. PICK ended \in SUBSET {t \in doing : child[t] = "Running"} :
          /\ child' = [t \in Tasks |-> IF t \in ended THEN "AbortedByUser" ELSE child[t]]
          /\ doing' = doing \ ended
          /\ done' = done \cup ended
          /\ failed' = failed \cup ToSet(queue) \cup ended
  BY DEF AbortJob
<1>2. queue' = <<>> /\ UNCHANGED <<succeeded, starts, owed>>
  BY DEF AbortJob
<1>3. ToSet(<<>>) = {} /\ IsInjective(<<>>) /\ <<>> \in Seq(Tasks)
  BY DEF ToSet, IsInjective
<1>4. ToSet(queue) \subseteq Tasks /\ ended \subseteq doing /\ doing \subseteq Tasks
  BY DEF NetInv, NetTypes, ToSet
<1>5. NetTypes'
  BY <1>1, <1>2, <1>3, <1>4 DEF NetInv, NetTypes, TaskStates, EndStates
<1>6. NetPlaces'
  <2>1. \A t \in starts' : t \in doing' /\ child'[t] # "Running"
    BY <1>1, <1>2, <1>4 DEF NetInv, NetTypes, NetPlaces
  <2>2. \A t \in Tasks : child'[t] = "Running" => t \in doing'
    BY <1>1 DEF NetInv, NetPlaces
  <2>3. ToSet(queue') \cup doing' \cup failed' \cup succeeded' \subseteq ToSet(owed')
    BY <1>1, <1>2, <1>3, <1>4 DEF NetInv, NetPlaces
  <2> QED
    BY <2>1, <2>2, <2>3 DEF NetPlaces
<1>7. NoDownloadLost'
  BY <1>1, <1>2, <1>3, <1>4 DEF NetInv, NoDownloadLost
<1> QED
  BY <1>5, <1>6, <1>7 DEF NetInv

\* The first of the queue q starts, where q holds the downloads that are
\* queued or are queued again: those that are not active, lost or done.
LEMMA NetTake ==
    ASSUME NetInv, NEW q \in Seq(Tasks), q # <<>>, IsInjective(q), TakeFirst(q),
           failed' \subseteq failed, done' \subseteq done,
           ToSet(q) \cup failed' = ToSet(queue) \cup failed,
           ToSet(q) \cap failed' = {},
           UNCHANGED <<owed, succeeded, child>>
    PROVE  NetInv'
<1>1. /\ queue' = Tail(q) /\ doing' = doing \cup {Head(q)}
      /\ starts' = starts \cup {Head(q)}
  BY DEF TakeFirst
<1>2. /\ Head(q) \in ToSet(q) /\ Head(q) \in Tasks /\ Tail(q) \in Seq(Tasks)
      /\ ToSet(queue') = ToSet(q) \ {Head(q)}
      /\ IsInjective(queue')
  BY <1>1, ToSetTail
<1>3. ToSet(q) \cap (doing \cup succeeded) = {}
  BY DEF NetInv, NoDownloadLost
<1>4. NetTypes'
  BY <1>1, <1>2 DEF NetInv, NetTypes
<1>5. NetPlaces'
  <2>1. child[Head(q)] # "Running"
    BY <1>2, <1>3 DEF NetInv, NetPlaces
  <2>2. /\ \A t \in starts' : t \in doing' /\ child'[t] # "Running"
        /\ \A t \in Tasks : child'[t] = "Running" => t \in doing'
    BY <1>1, <2>1 DEF NetInv, NetPlaces
  <2>3. ToSet(queue') \cup doing' \cup failed' \cup succeeded' \subseteq ToSet(owed')
    BY <1>1, <1>2 DEF NetInv, NetPlaces
  <2> QED
    BY <2>2, <2>3 DEF NetPlaces
<1>6. NoDownloadLost'
  BY <1>1, <1>2, <1>3 DEF NetInv, NoDownloadLost
<1> QED
  BY <1>4, <1>5, <1>6 DEF NetInv

\* NetJob::executeNextSubTask, delivered or called from the dialog.
LEMMA NetNextSubTask ==
    ASSUME NetInv, NEW tries, NEW d, NextSubTask(tries, d)
    PROVE  NetInv'
<1>1. UNCHANGED <<succeeded, child, owed>>
  BY DEF NextSubTask, bookVars
<1>2. CASE Retry(tries, d)
  <2>1. PICK q \in SetToSeqs(failed) : TakeFirst(q)
    BY <1>2 DEF Retry, Take
  <2>2. queue = <<>> /\ failed # {} /\ failed' = {} /\ done' = done \ failed
    BY <1>2 DEF Retry, CanRetry
  <2>3. IsFiniteSet(failed)
    BY FS_Subset, JobAssumption DEF JobAssumption, NetInv, NetTypes
  <2>4. q \in Seq(failed) /\ IsInjective(q) /\ ToSet(q) = failed
    BY <2>1, <2>3, SeqsOfSet
  <2>5. q \in Seq(Tasks)
    BY <2>4 DEF NetInv, NetTypes
  <2>6. q # <<>> /\ ToSet(queue) = {}
    BY <2>2, <2>4 DEF ToSet
  <2> QED
    BY <1>1, <2>1, <2>2, <2>4, <2>5, <2>6, NetTake
<1>3. CASE StartNext(d) /\ UNCHANGED <<failed, done>>
  BY <1>1, <1>3, NetTake DEF StartNext, Take, NetInv, NetTypes, NoDownloadLost
<1>4. CASE (ConcludeJob(tries, d) \/ Nothing(d)) /\ UNCHANGED <<failed, done>>
  BY <1>1, <1>4, NetSame DEF ConcludeJob, Nothing, whereVars
<1> QED
  BY <1>2, <1>3, <1>4 DEF NextSubTask

\* A download starts or ends.
LEMMA NetDownload ==
    ASSUME NetInv, NEW t \in Tasks, Child(t)
    PROVE  NetInv'
<1>1. CASE ChildStart(t)
  <2>1. /\ t \in starts /\ starts' = starts \ {t}
        /\ child' = [child EXCEPT ![t] = "Running"]
        /\ UNCHANGED <<queue, owed, doing, done, failed, succeeded>>
    BY <1>1 DEF ChildStart, jobVars, bookVars
  <2>2. NetTypes'
    BY <2>1 DEF NetInv, NetTypes, TaskStates
  <2>3. NetPlaces'
    BY <2>1 DEF NetInv, NetTypes, NetPlaces
  <2>4. NoDownloadLost'
    BY <2>1 DEF NetInv, NoDownloadLost
  <2> QED
    BY <2>2, <2>3, <2>4 DEF NetInv
<1>2. ASSUME NEW o \in EndStates, ChildEnd(t, o)
      PROVE  NetInv'
  <2>1. /\ child[t] = "Running" /\ t \in doing
        /\ child' = [child EXCEPT ![t] = o]
        /\ UNCHANGED <<starts, owed, queue>>
    BY <1>2 DEF ChildEnd, SubTaskFinished, jobVars, bookVars, NetInv, NetPlaces
  <2>2. \A u \in Tasks : child'[u] = "Running" => child[u] = "Running" /\ u # t
    BY <2>1 DEF NetInv, NetTypes, EndStates
  <2>3. child' \in [Tasks -> TaskStates]
    BY <2>1 DEF NetInv, NetTypes, TaskStates
  <2>4. t \notin starts /\ \A u \in starts : child'[u] # "Running"
    BY <2>1, <2>2 DEF NetInv, NetTypes, NetPlaces
  <2>5. CASE UNCHANGED <<doing, done, failed, succeeded>>
    BY <2>1, <2>2, <2>3, <2>4, <2>5 DEF NetInv, NetTypes, NetPlaces, NoDownloadLost
  <2>6. CASE SubTaskFinished(t, o)
    <3>1. /\ doing' = doing \ {t} /\ done' = done \cup {t}
          /\ \/ succeeded' = succeeded \cup {t} /\ failed' = failed
             \/ failed' = failed \cup {t} /\ succeeded' = succeeded
      BY <2>6 DEF SubTaskFinished
    <3>2. NetTypes'
      BY <2>1, <2>3, <3>1 DEF NetInv, NetTypes
    <3>3. NetPlaces'
      BY <2>1, <2>2, <2>4, <3>1 DEF NetInv, NetPlaces
    <3>4. NoDownloadLost'
      BY <2>1, <3>1 DEF NetInv, NoDownloadLost
    <3> QED
      BY <3>2, <3>3, <3>4 DEF NetInv
  <2> QED
    BY <1>2, <2>5, <2>6 DEF ChildEnd, jobVars
<1> QED
  BY <1>1, <1>2 DEF Child

LEMMA NetStep == NetInv /\ [NetNext]_netJobVars => NetInv'
<1> SUFFICES ASSUME NetInv, [NetNext]_netJobVars
             PROVE  NetInv'
  OBVIOUS
<1>1. CASE JobOwner
  <2>1. CASE StartJob
    BY <2>1, NetSame DEF StartJob, whereVars, childVars
  <2> QED
    BY <1>1, <2>1, NetAdd, NetAbort DEF JobOwner
<1>2. CASE User
  <2>1. ASSUME NEW n \in Limits, ApplySettings(n) \/ EditOnPage(n)
        PROVE  NetInv'
    BY <2>1, NetSame DEF ApplySettings, EditOnPage, whereVars, vars, jobVars, childVars,
                         bookVars
  <2>2. CASE DialogAccepted
    BY <2>2, NetNextSubTask DEF DialogAccepted
  <2>3. CASE DialogRejected
    BY <2>3, NetSame DEF DialogRejected, whereVars, childVars, bookVars
  <2> QED
    BY <1>2, <2>1, <2>2, <2>3 DEF User
<1>3. CASE NetExecuteNextSubTask
  BY <1>3, NetNextSubTask DEF NetExecuteNextSubTask
<1>4. ASSUME NEW t \in Tasks, Download(t)
      PROVE  NetInv'
  BY <1>4, NetDownload DEF Download
<1>5. CASE UNCHANGED netJobVars
  BY <1>5, NetSame DEF netJobVars, vars, jobVars, childVars, bookVars, whereVars
<1> QED
  BY <1>1, <1>2, <1>3, <1>4, <1>5 DEF NetNext

\* NetInv holds of every reachable state of a download job.
THEOREM NetInvariant == NetSpec => []NetInv
<1>1. NetInit => NetInv
  <2> SUFFICES ASSUME NetInit PROVE NetInv
    OBVIOUS
  <2>1. /\ queue = <<>> /\ owed = <<>> /\ doing = {} /\ done = {} /\ failed = {}
        /\ succeeded = {} /\ starts = {}
        /\ child = [t \in Tasks |-> "Inactive"]
    BY DEF NetInit, Init
  <2>2. ToSet(<<>>) = {} /\ IsInjective(<<>>) /\ <<>> \in Seq(Tasks)
    BY DEF ToSet, IsInjective
  <2> QED
    BY <2>1, <2>2 DEF NetInv, NetTypes, NetPlaces, NoDownloadLost, TaskStates
<1> QED
  BY <1>1, NetStep, PTL DEF NetSpec

\* However tries, aborts, restarts and changes of the setting interleave, each
\* download is in exactly one place and none is lost or doubled.
THEOREM DownloadsNeverLost == NetSpec => []NoDownloadLost
<1>1. NetInv => NoDownloadLost
  BY DEF NetInv
<1> QED
  BY <1>1, NetInvariant, PTL

\* The one step in which a download job becomes Succeeded.
LEMMA OnlyConcludeJobSucceeds ==
    ASSUME [NetNext]_netJobVars, state # "Succeeded", state' = "Succeeded"
    PROVE  queue = <<>> /\ doing = {} /\ failed = {}
<1>1. ASSUME NEW o \in {"Failed", "AbortedByUser"}, Emit(o)
      PROVE  FALSE
  BY <1>1 DEF Emit
<1>2. ASSUME NEW tries, NEW d, NextSubTask(tries, d)
      PROVE  queue = <<>> /\ doing = {} /\ failed = {}
  <2>1. ~Retry(tries, d) /\ ~StartNext(d) /\ ~Nothing(d)
    BY DEF Retry, StartNext, Take, Nothing
  <2>2. ~EmitFailed(d)
    BY <1>1 DEF EmitFailed
  <2> QED
    BY <1>2, <2>1, <2>2 DEF NextSubTask, ConcludeJob
<1>3. ~JobOwner
  BY <1>1 DEF JobOwner, AddNetAction, AddTask, StartJob, AbortJob
<1>4. ASSUME NEW t \in Tasks, Download(t)
      PROVE  FALSE
  <2>1. ~ChildStart(t)
    BY DEF ChildStart, jobVars
  <2>2. ASSUME NEW o \in EndStates, ChildEnd(t, o)
        PROVE  FALSE
    BY <1>1, <2>2 DEF ChildEnd, SubTaskPolicy, jobVars
  <2> QED
    BY <1>4, <2>1, <2>2 DEF Download, Child
<1>5. ASSUME User
      PROVE  DialogAccepted
  BY <1>1, <1>5 DEF User, ApplySettings, EditOnPage, DialogRejected, vars, jobVars
<1>6. NetExecuteNextSubTask \/ DialogAccepted
  BY <1>3, <1>4, <1>5 DEF NetNext, netJobVars, vars, jobVars
<1> QED
  BY <1>2, <1>6 DEF NetExecuteNextSubTask, DialogAccepted

\* A download job succeeds only when everything it was given has been
\* downloaded and nothing is active.
THEOREM SuccessMeansDownloaded == NetSpec => AllDownloaded
<1>1. ASSUME NetInv, [NetNext]_netJobVars, state # "Succeeded", state' = "Succeeded"
      PROVE  ToSet(owed) \subseteq succeeded /\ Active = {}
  <2>1. queue = <<>> /\ doing = {} /\ failed = {}
    BY <1>1, OnlyConcludeJobSucceeds
  <2>2. ToSet(queue) = {}
    BY <2>1 DEF ToSet
  <2>3. Active = {}
    BY <1>1, <2>1 DEF NetInv, NetPlaces, Active
  <2> QED
    BY <1>1, <2>1, <2>2, <2>3 DEF NetInv, NoDownloadLost
<1> QED
  BY <1>1, NetInvariant, PTL DEF NetSpec, AllDownloaded
=============================================================================
