----------------------------- MODULE AccountsProof -----------------------------
(***************************************************************************)
(* Proofs about Accounts for every set of accounts, profiles, owners and   *)
(* outcomes, and any number of acts of users.                              *)
(***************************************************************************)
EXTENDS Accounts, FiniteSetTheorems, TLAPS

FlowStates == {"none", "created", "running"}

\* The types of the variables the proofs speak of.
AccountTypes ==
    /\ place \in [Accounts -> {"new", "listed", "gone"}]
    /\ default \in Accounts \cup {NoAccount}
    /\ validity \in [Accounts -> {"none", "assumed", "certain", "expiring"}]
    /\ state \in [Accounts -> FlowOutcomes \cup {"Unchecked", "Working"}]
    /\ flow \in [Accounts -> FlowStates]
    /\ held \in [Accounts -> {"no", "pending", "answered"}]
    /\ activity \in Nat

\* The inductive invariant.
Facts ==
    /\ AccountTypes
    /\ ListConsistent
    /\ WorkingIsOwned
    /\ OnlineHasToken
    /\ ActivityCoversBusy

-----------------------------------------------------------------------------
(* The activity count.                                                     *)

LEMMA ListedFinite ==
    ASSUME NEW S, S \subseteq Accounts
    PROVE  IsFiniteSet(S) /\ Cardinality(S) \in Nat
BY FS_Subset, FS_CardinalityType, AccountsAssumption

\* Flows that come into being are counted, whatever leaves the list meanwhile.
LEMMA BeginsKeepsCount ==
    ASSUME AccountTypes, ActivityCoversBusy,
           flow' \in [Accounts -> FlowStates], Listed' \subseteq Listed,
           activity' = ActivityBegins(flow')
    PROVE  activity' \in Nat /\ ActivityCoversBusy'
<1> DEFINE B == Listed \cap Busy
           N == {a \in Listed : flow[a] = "none" /\ flow'[a] # "none"}
<1>1. B \subseteq Accounts /\ N \subseteq Accounts /\ B \cap N = {}
  BY DEF Listed, Busy
<1>2. /\ IsFiniteSet(B) /\ Cardinality(B) \in Nat
      /\ IsFiniteSet(N) /\ Cardinality(N) \in Nat
  BY <1>1, ListedFinite
<1>3. Cardinality(B \cap N) = 0
  BY <1>1, FS_EmptySet
<1>4. IsFiniteSet(B \cup N) /\ Cardinality(B \cup N) = Cardinality(B) + Cardinality(N)
  <2>1. Cardinality(B \cup N) = Cardinality(B) + Cardinality(N) - Cardinality(B \cap N)
    BY <1>2, FS_Union
  <2>2. IsFiniteSet(B \cup N)
    BY <1>2, FS_Union
  <2> QED
    BY <1>2, <1>3, <2>1, <2>2
<1>5. Listed' \cap Busy' \subseteq B \cup N
  BY DEF Listed, Busy
<1>6. Cardinality(Listed' \cap Busy') <= Cardinality(B) + Cardinality(N)
  BY <1>4, <1>5, FS_Subset
<1>7. activity' = activity + Cardinality(N)
  BY DEF ActivityBegins
<1>8. Cardinality(B) <= activity
  BY DEF ActivityCoversBusy
<1>9. Cardinality(Listed' \cap Busy') \in Nat
  BY ListedFinite, <1>1, <1>5
<1>10. activity \in Nat
  BY DEF AccountTypes
<1>11. activity' \in Nat /\ Cardinality(Listed' \cap Busy') <= activity'
  BY ONLY <1>2, <1>6, <1>7, <1>8, <1>9, <1>10
<1> QED
  BY <1>11 DEF ActivityCoversBusy

\* The end of a flow takes back what its begin added, if the account is listed.
LEMMA EndsKeepsCount ==
    ASSUME AccountTypes, ActivityCoversBusy, NEW a \in Accounts, flow[a] = "running",
           flow' = [flow EXCEPT ![a] = "none"], place' = place,
           activity' = ActivityEnds(a)
    PROVE  activity' \in Nat /\ ActivityCoversBusy'
<1> DEFINE B == Listed \cap Busy
<1>1. B \subseteq Accounts /\ IsFiniteSet(B) /\ Cardinality(B) \in Nat
  BY ListedFinite DEF Listed
<1>2. Listed' \cap Busy' = B \ {a}
  BY DEF AccountTypes, Listed, Busy
<1>3. Cardinality(B) <= activity /\ activity \in Nat
  BY DEF ActivityCoversBusy, AccountTypes
<1>4. CASE a \in Listed
  <2>1. a \in B
    BY <1>4 DEF Busy
  <2>2. Cardinality(B \ {a}) = Cardinality(B) - 1
    BY <1>1, <2>1, FS_RemoveElement
  <2>3. Cardinality(B) # 0
    BY <1>1, <2>1, FS_EmptySet
  <2>4. activity' = activity - 1
    BY <1>1, <1>3, <1>4, <2>3 DEF ActivityEnds
  <2> QED
    BY <1>1, <1>2, <1>3, <2>2, <2>3, <2>4 DEF ActivityCoversBusy
<1>5. CASE a \notin Listed
  <2>1. B \ {a} = B
    BY <1>5
  <2>2. activity' = activity
    BY <1>5 DEF ActivityEnds
  <2> QED
    BY <1>2, <1>3, <2>1, <2>2 DEF ActivityCoversBusy
<1> QED
  BY <1>4, <1>5

\* Accounts that leave the list leave the count too high, never too low.
LEMMA LeavingKeepsCount ==
    ASSUME AccountTypes, ActivityCoversBusy, UNCHANGED <<flow, activity>>,
           Listed' \cap Busy' \subseteq Listed \cap Busy
    PROVE  ActivityCoversBusy'
<1>1. /\ IsFiniteSet(Listed \cap Busy) /\ Cardinality(Listed \cap Busy) \in Nat
      /\ Cardinality(Listed' \cap Busy') \in Nat
  BY ListedFinite DEF Listed
<1>2. Cardinality(Listed' \cap Busy') <= Cardinality(Listed \cap Busy)
  BY <1>1, FS_Subset
<1>3. Cardinality(Listed \cap Busy) <= activity /\ activity \in Nat /\ activity' = activity
  BY DEF ActivityCoversBusy, AccountTypes
<1> QED
  BY <1>1, <1>2, <1>3 DEF ActivityCoversBusy

-----------------------------------------------------------------------------
(* Kinds of steps.                                                         *)

LEMMA QuietKeepsFacts ==
    ASSUME Facts, UNCHANGED <<dataVars, flow, activity>>
    PROVE  Facts'
BY DEF Facts, dataVars, AccountTypes, ListConsistent, WorkingIsOwned, OnlineHasToken,
       ActivityCoversBusy, Listed, Busy

\* What TakeOff does to the list.
LEMMA TakeOffKeepsList ==
    ASSUME AccountTypes, ListConsistent, NEW a \in Accounts, TakeOff(a)
    PROVE  /\ place' \in [Accounts -> {"new", "listed", "gone"}]
           /\ default' \in Accounts \cup {NoAccount}
           /\ Listed' = Listed \ {a}
           /\ ListConsistent'
<1>1. /\ place' \in [Accounts -> {"new", "listed", "gone"}]
      /\ default' \in Accounts \cup {NoAccount}
  BY DEF AccountTypes, TakeOff
<1>2. Listed' = Listed \ {a}
  BY DEF AccountTypes, TakeOff, Listed
<1>3. ListConsistent'
  BY <1>2, AccountsAssumption DEF ListConsistent, TakeOff
<1> QED
  BY <1>1, <1>2, <1>3

\* What the flows of a step may do to the states of their accounts: the state
\* is kept, or it is Working and the flow runs.  One account may leave the list.
LEMMA FlowStepKeepsFacts ==
    ASSUME Facts, UNCHANGED <<validity, held>>,
           UNCHANGED <<place, default>> \/ \E c \in Accounts : TakeOff(c),
           flow' \in [Accounts -> FlowStates],
           \A a \in Accounts : flow[a] = "running" => flow'[a] = "running",
           state' = state \/ \E a \in Accounts : /\ state' = [state EXCEPT ![a] = "Working"]
                                                 /\ flow'[a] = "running",
           activity' = ActivityBegins(flow')
    PROVE  Facts'
<1>1. /\ place' \in [Accounts -> {"new", "listed", "gone"}]
      /\ default' \in Accounts \cup {NoAccount}
      /\ Listed' \subseteq Listed
      /\ ListConsistent'
  <2>1. CASE UNCHANGED <<place, default>>
    BY <2>1 DEF Facts, AccountTypes, ListConsistent, Listed
  <2>2. CASE \E c \in Accounts : TakeOff(c)
    BY <2>2, TakeOffKeepsList DEF Facts
  <2> QED
    BY <2>1, <2>2
<1>2. activity' \in Nat /\ ActivityCoversBusy'
  BY <1>1, BeginsKeepsCount DEF Facts
<1>3. AccountTypes'
  BY <1>1, <1>2 DEF Facts, AccountTypes
<1>4. WorkingIsOwned'
  BY DEF Facts, AccountTypes, WorkingIsOwned
<1>5. OnlineHasToken'
  BY DEF Facts, AccountTypes, OnlineHasToken
<1> QED
  BY <1>1, <1>2, <1>3, <1>4, <1>5 DEF Facts

LEMMA StartKeepsFacts ==
    ASSUME Facts, NEW a \in Accounts, StartRefresh(a),
           UNCHANGED <<place, default, validity, held>>
    PROVE  Facts'
<1>1. flow' \in [Accounts -> FlowStates] /\ flow'[a] = "running"
  BY DEF Facts, AccountTypes, StartRefresh, Running, FlowStates
<1>2. \A b \in Accounts : flow[b] = "running" => flow'[b] = "running"
  BY DEF Facts, AccountTypes, StartRefresh, Running
<1>3. state' = state \/ state' = [state EXCEPT ![a] = "Working"]
  BY DEF StartRefresh, StateWhenRunning
<1>4. activity' = ActivityBegins(flow')
  BY DEF StartRefresh
<1> QED
  BY <1>1, <1>2, <1>3, <1>4, FlowStepKeepsFacts

\* A turn of the schedule starts a refresh of a listed account or none.
LEMMA TryNextStarts ==
    ASSUME NEW q, NEW armed, TryNext(q, armed)
    PROVE  UNCHANGED <<flow, state, activity>> \/ \E a \in Accounts : StartRefresh(a)
BY DEF TryNext, Listed

LEMMA TryNextKeepsFacts ==
    ASSUME Facts, NEW q, NEW armed, TryNext(q, armed),
           UNCHANGED <<place, default, validity, held>>
    PROVE  Facts'
BY TryNextStarts, StartKeepsFacts, QuietKeepsFacts DEF dataVars

\* TakeOff alone, nothing else being changed.
LEMMA TakeOffKeepsFacts ==
    ASSUME Facts, NEW a \in Accounts, TakeOff(a),
           UNCHANGED <<validity, state, held, flow, activity>>
    PROVE  Facts'
<1>1. /\ place' \in [Accounts -> {"new", "listed", "gone"}]
      /\ default' \in Accounts \cup {NoAccount}
      /\ Listed' = Listed \ {a}
      /\ ListConsistent'
  BY TakeOffKeepsList DEF Facts
<1>2. AccountTypes'
  BY <1>1 DEF Facts, AccountTypes
<1>3. Busy' = Busy
  BY DEF Busy
<1>4. ActivityCoversBusy'
  BY <1>1, <1>3, LeavingKeepsCount DEF Facts
<1>5. WorkingIsOwned' /\ OnlineHasToken'
  BY DEF Facts, WorkingIsOwned, OnlineHasToken
<1> QED
  BY <1>1, <1>2, <1>4, <1>5 DEF Facts

-----------------------------------------------------------------------------
(* One lemma per operation that changes more than that.                    *)

LEMMA FlowEndsKeepsFacts ==
    ASSUME Facts, NEW a \in Accounts, NEW outcome \in Outcomes, FlowEnds(a, outcome)
    PROVE  Facts'
<1>1. outcome \in FlowOutcomes /\ outcome # "Working"
  BY AccountsAssumption DEF FlowOutcomes
<1>2. /\ flow[a] = "running" /\ flow' = [flow EXCEPT ![a] = "none"]
      /\ state' = [state EXCEPT ![a] = outcome]
      /\ validity' = [validity EXCEPT ![a] = TokenAfter(outcome, validity[a])]
      /\ activity' = ActivityEnds(a)
      /\ UNCHANGED <<place, default, held>>
  BY DEF FlowEnds
<1>3. activity' \in Nat /\ ActivityCoversBusy'
  BY <1>2, EndsKeepsCount DEF Facts
<1>4. TokenAfter(outcome, validity[a]) \in {"none", "assumed", "certain", "expiring"}
  BY DEF Facts, AccountTypes, TokenAfter
<1>5. AccountTypes'
  BY <1>1, <1>2, <1>3, <1>4 DEF Facts, AccountTypes, FlowStates
<1>6. ListConsistent'
  BY <1>2 DEF Facts, ListConsistent, Listed
<1>7. WorkingIsOwned'
  BY <1>1, <1>2 DEF Facts, AccountTypes, WorkingIsOwned
<1>8. OnlineHasToken'
  <2>1. outcome = "Online" => TokenAfter(outcome, validity[a]) = "certain"
    BY DEF TokenAfter
  <2> QED
    BY <1>2, <2>1 DEF Facts, AccountTypes, OnlineHasToken
<1> QED
  BY <1>3, <1>5, <1>6, <1>7, <1>8 DEF Facts

LEMMA AbortKeepsFacts ==
    ASSUME Facts, NEW a \in Accounts, Abort(a)
    PROVE  Facts'
<1>1. /\ flow[a] = "running" /\ flow' = [flow EXCEPT ![a] = "none"]
      /\ state' = [state EXCEPT ![a] = "Unchecked"]
      /\ activity' = ActivityEnds(a)
      /\ held' = held \/ held' = [held EXCEPT ![a] = "pending"]
      /\ UNCHANGED <<place, default, validity>>
  BY DEF Abort, StateAfterAbort
<1>2. activity' \in Nat /\ ActivityCoversBusy'
  BY <1>1, EndsKeepsCount DEF Facts
<1>3. AccountTypes'
  BY <1>1, <1>2 DEF Facts, AccountTypes, FlowStates
<1>4. ListConsistent'
  BY <1>1 DEF Facts, ListConsistent, Listed
<1>5. WorkingIsOwned'
  <2> SUFFICES ASSUME NEW b \in Accounts, state'[b] = "Working"
               PROVE  flow'[b] = "running" \/ held'[b] = "answered"
    BY DEF WorkingIsOwned
  <2>1. b # a
    BY <1>1 DEF Facts, AccountTypes
  <2>2. state[b] = "Working" /\ flow'[b] = flow[b] /\ held'[b] = held[b]
    BY <1>1, <2>1 DEF Facts, AccountTypes
  <2> QED
    BY <2>2 DEF Facts, WorkingIsOwned
<1>6. OnlineHasToken'
  BY <1>1 DEF Facts, AccountTypes, OnlineHasToken
<1> QED
  BY <1>2, <1>3, <1>4, <1>5, <1>6 DEF Facts

LEMMA LateStepKeepsFacts ==
    ASSUME Facts, NEW a \in Accounts, LateStep(a)
    PROVE  Facts'
<1>1. PICK s \in {"Working"} \cup (Outcomes \ {"Online"}) : state' = [state EXCEPT ![a] = s]
  BY DEF LateStep
<1>2. s \in FlowOutcomes \cup {"Unchecked", "Working"} /\ s # "Online"
  BY AccountsAssumption
<1>3. held' = [held EXCEPT ![a] = "answered"] /\ UNCHANGED <<place, default, validity, flow, activity>>
  BY DEF LateStep
<1>4. AccountTypes'
  BY <1>1, <1>2, <1>3 DEF Facts, AccountTypes
<1>5. ListConsistent' /\ ActivityCoversBusy'
  BY <1>3 DEF Facts, ListConsistent, ActivityCoversBusy, Listed, Busy
<1>6. WorkingIsOwned'
  BY <1>1, <1>3 DEF Facts, AccountTypes, WorkingIsOwned
<1>7. OnlineHasToken'
  BY <1>1, <1>2, <1>3 DEF Facts, AccountTypes, OnlineHasToken
<1> QED
  BY <1>4, <1>5, <1>6, <1>7 DEF Facts

LEMMA AddAccountKeepsFacts ==
    ASSUME Facts, NEW a \in Accounts, AddAccount(a)
    PROVE  Facts'
<1>1. /\ place[a] = "new" /\ flow[a] = "none"
      /\ default \in Replaced(a) => default' = a
      /\ default \notin Replaced(a) => default' = default \/ default' = a
      /\ UNCHANGED <<validity, state, held, flow, activity>>
  <2>1. default \in Replaced(a) => default # NoAccount
    BY AccountsAssumption DEF Replaced, Listed
  <2> QED
    BY <2>1 DEF AddAccount
<1>2. place' = [b \in Accounts |-> IF b = a THEN "listed"
                                   ELSE IF b \in Replaced(a) THEN "gone" ELSE place[b]]
  BY DEF AddAccount
<1>3. Listed' = (Listed \ Replaced(a)) \cup {a}
  <2> SUFFICES ASSUME NEW b \in Accounts
               PROVE  place'[b] = "listed" <=> b = a \/ (place[b] = "listed" /\ b \notin Replaced(a))
    BY DEF Listed
  <2>1. CASE b = a
    BY <1>2, <2>1
  <2>2. CASE b # a /\ b \in Replaced(a)
    BY <1>2, <2>2
  <2>3. CASE b # a /\ b \notin Replaced(a)
    BY <1>2, <2>3
  <2> QED
    BY <2>1, <2>2, <2>3
<1>4. AccountTypes'
  <2>1. place' \in [Accounts -> {"new", "listed", "gone"}]
    BY <1>2 DEF Facts, AccountTypes
  <2> QED
    BY <1>1, <2>1 DEF Facts, AccountTypes
<1>5. ListConsistent'
  <2>1. ASSUME NEW b \in Listed', NEW c \in Listed', ProfileOf[b] = ProfileOf[c]
        PROVE  b = c
    BY <1>3, <2>1 DEF Facts, ListConsistent, Replaced
  <2>2. default' \in Listed' \cup {NoAccount}
    BY <1>1, <1>3 DEF Facts, ListConsistent
  <2> QED
    BY <2>1, <2>2 DEF ListConsistent
<1>6. ActivityCoversBusy'
  <2>1. Listed' \cap Busy' \subseteq Listed \cap Busy
    BY <1>1, <1>3 DEF Busy
  <2> QED
    BY <1>1, <2>1, LeavingKeepsCount DEF Facts
<1>7. WorkingIsOwned' /\ OnlineHasToken'
  BY <1>1 DEF Facts, WorkingIsOwned, OnlineHasToken
<1> QED
  BY <1>4, <1>5, <1>6, <1>7 DEF Facts

\* A flow that is made is not started, and one that was there is kept.
LEMMA WithFlowMakes ==
    ASSUME NEW f \in [Accounts -> FlowStates], NEW a \in Accounts
    PROVE  /\ WithFlow(f, a) \in [Accounts -> FlowStates]
           /\ \A b \in Accounts : f[b] # "none" => WithFlow(f, a)[b] = f[b]
           /\ \A b \in Accounts : WithFlow(f, a)[b] = "running" => f[b] = "running"
BY DEF WithFlow, FlowStates

\* What a launch asks for keeps the flows that run and starts none.
LEMMA ForcedMakes ==
    ASSUME Facts, NEW a \in Accounts
    PROVE  /\ Forced(a) \in [Accounts -> FlowStates]
           /\ \A b \in Accounts : Forced(a)[b] = "running" <=> flow[b] = "running"
<1>1. flow \in [Accounts -> FlowStates]
  BY DEF Facts, AccountTypes
<1>2. CASE Forced(a) = flow
  BY <1>1, <1>2
<1>3. CASE Forced(a) = WithFlow(flow, a)
  <2>1. \A b \in Accounts : flow[b] = "running" => WithFlow(flow, a)[b] = "running"
    BY <1>1, WithFlowMakes
  <2> QED
    BY <1>1, <1>3, <2>1, WithFlowMakes
<1> QED
  BY <1>2, <1>3 DEF Forced

LEMMA LaunchKeepsFacts ==
    ASSUME Facts, NEW a \in Accounts, Launch(a)
    PROVE  Facts'
<1>1. /\ Forced(a) \in [Accounts -> FlowStates]
      /\ \A b \in Accounts : Forced(a)[b] = "running" <=> flow[b] = "running"
  BY ForcedMakes
<1>2. activity' = ActivityBegins(flow') /\ UNCHANGED <<validity, held>>
  BY DEF Launch
<1>3. CASE flow' = Forced(a) /\ UNCHANGED <<state, place, default>>
  BY <1>1, <1>2, <1>3, FlowStepKeepsFacts
<1>4. ASSUME NEW c \in AccountToCheck(a), NEW asked,
             asked = Forced(a) \/ asked = WithFlow(Forced(a), c),
             \/ /\ flow' = Running(asked, c)
                /\ state' = StateWhenRunning(asked, c)
                /\ UNCHANGED <<place, default>>
             \/ /\ flow' = asked
                /\ UNCHANGED <<state, place, default>>
             \/ /\ flow' = asked
                /\ Decide(a, c)
                /\ UNCHANGED state
      PROVE  Facts'
  <2>1. c \in Accounts
    BY <1>4, AccountsAssumption DEF AccountToCheck, Listed
  <2>2. /\ asked \in [Accounts -> FlowStates]
        /\ \A b \in Accounts : flow[b] = "running" => asked[b] = "running"
    BY <1>1, <1>4, <2>1, WithFlowMakes
  <2>3. CASE flow' = Running(asked, c) /\ state' = StateWhenRunning(asked, c)
             /\ UNCHANGED <<place, default>>
    <3>1. flow' \in [Accounts -> FlowStates] /\ flow'[c] = "running"
      BY <2>1, <2>2, <2>3 DEF Running, FlowStates
    <3>2. \A b \in Accounts : flow[b] = "running" => flow'[b] = "running"
      BY <2>1, <2>2, <2>3 DEF Running
    <3>3. state' = state \/ state' = [state EXCEPT ![c] = "Working"]
      BY <2>3 DEF StateWhenRunning
    <3> QED
      BY <1>2, <2>1, <2>3, <3>1, <3>2, <3>3, FlowStepKeepsFacts
  <2>4. CASE flow' = asked /\ UNCHANGED <<state, place, default>>
    BY <1>2, <2>2, <2>4, FlowStepKeepsFacts
  <2>5. CASE flow' = asked /\ Decide(a, c) /\ UNCHANGED state
    <3>1. UNCHANGED <<place, default>> \/ \E b \in Accounts : TakeOff(b)
      BY <2>5 DEF Decide, Replaced, Listed
    <3> QED
      BY <1>2, <2>1, <2>2, <2>5, <3>1, FlowStepKeepsFacts
  <2> QED
    BY <1>4, <2>3, <2>4, <2>5
<1>5. \/ flow' = Forced(a) /\ UNCHANGED <<state, place, default>>
      \/ \E c \in AccountToCheck(a) : \E asked \in {Forced(a), WithFlow(Forced(a), c)} :
            \/ /\ flow' = Running(asked, c)
               /\ state' = StateWhenRunning(asked, c)
               /\ UNCHANGED <<place, default>>
            \/ /\ flow' = asked
               /\ UNCHANGED <<state, place, default>>
            \/ /\ flow' = asked
               /\ Decide(a, c)
               /\ UNCHANGED state
  BY DEF Launch
<1> QED
  BY <1>3, <1>4, <1>5

-----------------------------------------------------------------------------
(* The invariant.                                                          *)

LEMMA InitFacts == Init => Facts
<1> SUFFICES ASSUME Init PROVE Facts
  OBVIOUS
<1>1. AccountTypes
  BY AccountsAssumption DEF Init, AccountTypes, FlowStates
<1>2. Listed = Loaded
  BY AccountsAssumption DEF Init, Listed
<1>3. ListConsistent
  BY <1>2, AccountsAssumption DEF Init, ListConsistent
<1>4. WorkingIsOwned /\ OnlineHasToken
  BY DEF Init, WorkingIsOwned, OnlineHasToken
<1>5. Listed \cap Busy = {}
  BY DEF Init, Busy
<1>6. Cardinality({}) = 0
  BY FS_EmptySet
<1>7. ActivityCoversBusy
  <2>1. activity = 0
    BY DEF Init
  <2> QED
    BY <1>5, <1>6, <2>1 DEF ActivityCoversBusy
<1> QED
  BY <1>1, <1>3, <1>4, <1>7 DEF Facts

LEMMA StepKeepsFacts == Facts /\ [Next]_vars => Facts'
<1> SUFFICES ASSUME Facts, [Next]_vars PROVE Facts'
  OBVIOUS
<1>1. CASE UNCHANGED vars
  BY <1>1, QuietKeepsFacts DEF vars
<1>2. CASE FillQueue
  <2>1. PICK q : TryNext(q, FALSE)
    BY <1>2 DEF FillQueue
  <2> QED
    BY <1>2, <2>1, TryNextKeepsFacts DEF FillQueue
<1>3. CASE NextTimer
  BY <1>3, TryNextKeepsFacts DEF NextTimer
<1>4. CASE LaunchGoesOn
  <2>1. CASE UNCHANGED <<place, default>>
    BY <1>4, <2>1, QuietKeepsFacts DEF LaunchGoesOn, dataVars
  <2>2. CASE \E c \in Accounts : TakeOff(c)
    BY <1>4, <2>2, TakeOffKeepsFacts DEF LaunchGoesOn
  <2> QED
    BY <1>4, <2>1, <2>2 DEF LaunchGoesOn, Decide, Replaced, Listed
<1>5. CASE Claim \/ GameEnds
  BY <1>5, QuietKeepsFacts DEF Claim, GameEnds
<1>6. ASSUME NEW a \in Accounts, AccountStep(a)
      PROVE  Facts'
  <2>1. CASE RequestRefresh(a)
    <3>1. UNCHANGED <<place, default, validity, held>>
      BY <2>1 DEF RequestRefresh
    <3>2. UNCHANGED <<flow, state, activity>> \/ \E q : TryNext(q, refreshTimer)
      BY <2>1 DEF RequestRefresh
    <3> QED
      BY <3>1, <3>2, TryNextKeepsFacts, QuietKeepsFacts DEF dataVars
  <2>2. CASE PrepareRefresh(a)
    <3>1. /\ flow' = WithFlow(flow, a) /\ flow[a] = "none"
          /\ activity' = ActivityBegins(flow')
          /\ UNCHANGED <<place, default, validity, state, held>>
      BY <2>2 DEF PrepareRefresh, dataVars, Busy, Listed
    <3>2. flow \in [Accounts -> FlowStates]
      BY DEF Facts, AccountTypes
    <3>3. /\ flow' \in [Accounts -> FlowStates]
          /\ \A b \in Accounts : flow[b] = "running" => flow'[b] = "running"
      BY <3>1, <3>2, WithFlowMakes
    <3> QED
      BY <3>1, <3>3, FlowStepKeepsFacts
  <2>3. CASE DirectRefresh(a) \/ Login(a)
    BY <2>3, StartKeepsFacts DEF DirectRefresh, Login
  <2>4. CASE Abort(a)
    BY <2>4, AbortKeepsFacts
  <2>5. CASE LateStep(a)
    BY <2>5, LateStepKeepsFacts
  <2>6. CASE AddAccount(a)
    BY <2>6, AddAccountKeepsFacts
  <2>7. CASE RemoveAccount(a)
    BY <2>7, TakeOffKeepsFacts DEF RemoveAccount
  <2>8. CASE TokenAges(a)
    <3>1. /\ validity' = [validity EXCEPT ![a] = "expiring"]
          /\ UNCHANGED <<place, default, state, held, flow, activity>>
      BY <2>8 DEF TokenAges
    <3>2. AccountTypes' /\ ListConsistent' /\ WorkingIsOwned' /\ ActivityCoversBusy'
      BY <3>1 DEF Facts, AccountTypes, ListConsistent, WorkingIsOwned, ActivityCoversBusy, Listed, Busy
    <3>3. OnlineHasToken'
      BY <3>1 DEF Facts, AccountTypes, OnlineHasToken
    <3> QED
      BY <3>2, <3>3 DEF Facts
  <2>9. CASE Launch(a)
    BY <2>9, LaunchKeepsFacts
  <2>10. CASE \E outcome \in Outcomes : FlowEnds(a, outcome)
    BY <2>10, FlowEndsKeepsFacts
  <2> QED
    BY <1>6, <2>1, <2>2, <2>3, <2>4, <2>5, <2>6, <2>7, <2>8, <2>9, <2>10 DEF AccountStep
<1>7. ASSUME NEW a \in Accounts \cup {NoAccount}, SetDefault(a)
      PROVE  Facts'
  <2>1. /\ a \in Listed \cup {NoAccount} /\ default' = a
        /\ UNCHANGED <<place, validity, state, held, flow, activity>>
    BY <1>7 DEF SetDefault
  <2> QED
    BY <2>1 DEF Facts, AccountTypes, ListConsistent, WorkingIsOwned, OnlineHasToken,
                ActivityCoversBusy, Listed, Busy
<1> QED
  BY <1>1, <1>2, <1>3, <1>4, <1>5, <1>6, <1>7 DEF Next

\* The invariant holds of every behaviour of the list, the flows and the launches.
THEOREM FactsAlways == Spec => []Facts
BY InitFacts, StepKeepsFacts, PTL DEF Spec

\* For any accounts and profiles the list holds one account per profile and
\* the default account is in it: addAccount, removeAccount and setDefaultAccount.
THEOREM ListAlwaysConsistent == Spec => []ListConsistent
<1>1. Facts => ListConsistent
  BY DEF Facts
<1> QED
  BY <1>1, FactsAlways, PTL

\* For any number of accounts m_activityCount covers every busy account of the
\* list, whichever are replaced or removed while they are busy.
THEOREM ActivityAlwaysCovers == Spec => []ActivityCoversBusy
<1>1. Facts => ActivityCoversBusy
  BY DEF Facts
<1> QED
  BY <1>1, FactsAlways, PTL

\* An account shown as working has a flow that runs or was answered late, with
\* any number of flows started, ended and aborted.
THEOREM WorkingAlwaysOwned == Spec => []WorkingIsOwned
<1>1. Facts => WorkingIsOwned
  BY DEF Facts
<1> QED
  BY <1>1, FactsAlways, PTL

\* An account shown as online has a token that a refresh confirmed and none
\* has rejected since.
THEOREM OnlineAlwaysHasToken == Spec => []OnlineHasToken
<1>1. Facts => OnlineHasToken
  BY DEF Facts
<1> QED
  BY <1>1, FactsAlways, PTL

\* What the list shows of an account is what its flow and its token say.
THEOREM StatesAlwaysTrue == Spec => []StatesAreTrue
<1>1. Facts => StatesAreTrue
  BY DEF Facts, StatesAreTrue
<1> QED
  BY <1>1, FactsAlways, PTL
=============================================================================
