------------------------ MODULE LimitsManager_proofs ------------------------
(***************************************************************************)
(* The limits manager for any number of requests, any limits and budgets   *)
(* and every enforcement action: the slots of the concurrent limiter are   *)
(* accounted for on every path through the middleware, and the budget is   *)
(* overrun by no more than the requests under way may cost.                *)
(***************************************************************************)
EXTENDS LimitsManager, FiniteSetTheorems, TLAPS

Holding == {"handler", "record", "release"}
Undoing == {"undo"}
UnderWay == {"admitted", "undo", "handler", "record"}

(* The number of requests an assignment of states puts in one of a set of states. *)
Population(f, states) == Cardinality({q \in Requests : f[q] \in states})

(* A population is a number, and no larger than the requests. *)
LEMMA PopulationType ==
    ASSUME NEW f, NEW S
    PROVE  /\ IsFiniteSet({q \in Requests : f[q] \in S})
           /\ Population(f, S) \in Nat /\ Cardinality(Requests) \in Nat
           /\ Population(f, S) <= Cardinality(Requests)
  <1>1. IsFiniteSet(Requests) /\ {q \in Requests : f[q] \in S} \subseteq Requests
    BY ManagerAssumption DEF ManagerAssumption
  <1> QED
    BY <1>1, FS_Subset, FS_CardinalityType DEF Population

(* The two assignments differ in the state of r at most. *)
DifferAt(r, f, g) == \A q \in Requests : q # r => g[q] = f[q]

(* What r adds to a population. *)
Here(f, r, states) == IF f[r] \in states THEN 1 ELSE 0

(* A request that moves is counted where it arrives and no longer where it *)
(* was.                                                                    *)
LEMMA MoveCounts ==
    ASSUME NEW f, NEW g, NEW r \in Requests, DifferAt(r, f, g), NEW S
    PROVE  Population(g, S) = Population(f, S) + Here(g, r, S) - Here(f, r, S)
  <1> DEFINE to == g[r]
             A == {q \in Requests : f[q] \in S}
             B == {q \in Requests : g[q] \in S}
  <1>0. IsFiniteSet(A) /\ Cardinality(A) \in Nat
    BY PopulationType DEF Population
  <1>1. g[r] = to /\ \A q \in Requests : q # r => g[q] = f[q]
    BY DEF DifferAt
  <1>2. CASE to \in S /\ f[r] \notin S
    <2>1. B = A \cup {r} /\ r \notin A
      BY <1>1, <1>2
    <2>2. Cardinality(B) = Cardinality(A) + 1
      BY <1>0, <2>1, FS_AddElement
    <2> QED
      BY <1>0, <1>2, <2>2 DEF Population, Here
  <1>3. CASE to \notin S /\ f[r] \in S
    <2>1. B = A \ {r} /\ r \in A
      BY <1>1, <1>3
    <2>2. Cardinality(B) = Cardinality(A) - 1
      BY <1>0, <2>1, FS_RemoveElement
    <2> QED
      BY <1>0, <1>3, <2>2 DEF Population, Here
  <1>4. CASE to \in S /\ f[r] \in S
    <2>1. B = A
      BY <1>1, <1>4
    <2>2. Population(g, S) = Population(f, S) /\ Population(f, S) \in Nat
      BY <1>0, <2>1 DEF Population
    <2> QED
      BY <1>4, <2>2 DEF Here
  <1>5. CASE to \notin S /\ f[r] \notin S
    <2>1. B = A
      BY <1>1, <1>5
    <2>2. Population(g, S) = Population(f, S) /\ Population(f, S) \in Nat
      BY <1>0, <2>1 DEF Population
    <2> QED
      BY <1>5, <2>2 DEF Here
  <1> QED
    BY <1>2, <1>3, <1>4, <1>5

-----------------------------------------------------------------------------
(* Types *)

(* Every step keeps usage, slots and program counters in their types. *)
LEMMA StepTypes ==
    ASSUME TypeOK, [Next]_vars
    PROVE  TypeOK'
  <1> USE ManagerAssumption DEF ManagerAssumption, TypeOK
  <1>1. ASSUME NEW r \in Requests, Step(r)
        PROVE  TypeOK'
    <2>1. CASE Begin(r)
      BY <2>1 DEF Begin, States
    <2>2. ASSUME NEW b \in Buckets, NEW next \in States, TakeToken(r, b, next)
          PROVE  TypeOK'
      <3>1. pc' \in [Requests -> States]
        BY <2>2 DEF TakeToken, AfterViolation, States
      <3>2. bucket' \in [Buckets -> Nat \cup {Unlimited}]
        <4>1. CASE UNCHANGED bucket
          BY <4>1
        <4>2. CASE bucket[b] # Unlimited /\ bucket[b] > 0 /\ bucket' = [bucket EXCEPT ![b] = @ - 1]
          <5>1. bucket[b] - 1 \in Nat
            BY <4>2
          <5> QED
            BY <4>2, <5>1
        <4> QED
          BY <2>2, <4>1, <4>2 DEF TakeToken
      <3> QED
        BY <2>2, <3>1, <3>2 DEF TakeToken
    <2>3. CASE CheckRequest(r)
      <3>1. {"second", "minute", "hour"} \subseteq Buckets /\ {"minute", "hour", "tokens"} \subseteq States
        BY DEF Buckets, States
      <3> QED
        BY <2>2, <2>3, <3>1 DEF CheckRequest
    <2>4. CASE CheckTokens(r) \/ CheckBudget(r)
      BY <2>4 DEF CheckTokens, CheckBudget, AfterViolation, States
    <2>5. CASE Acquire(r) \/ Undo(r) \/ Finish(r) \/ Release(r)
      BY <2>5 DEF Acquire, Undo, Finish, Release, States
    <2>6. CASE RecordUsage(r)
      <3>1. pc' \in [Requests -> States] /\ UNCHANGED <<bucket, current, action>>
        BY <2>6 DEF RecordUsage, States
      <3>2. used' \in [Windows -> Nat]
        BY <2>6 DEF RecordUsage
      <3>3. tokensUsed' \in [TokenWindows -> Nat]
        BY <2>6 DEF RecordUsage, RecordTokens
      <3> QED
        BY <3>1, <3>2, <3>3
    <2> QED
      BY <1>1, <2>1, <2>3, <2>4, <2>5, <2>6 DEF Step
  <1>2. ASSUME NEW b \in Buckets, BucketRefill(b)
        PROVE  TypeOK'
    <2>1. bucket[b] + 1 \in Nat
      BY <1>2 DEF BucketRefill
    <2> QED
      BY <1>2, <2>1 DEF BucketRefill
  <1>3. ASSUME NEW w \in TokenWindows, TokensExpire(w)
        PROVE  TypeOK'
    BY <1>3 DEF TokensExpire, TokenWindows
  <1>4. ASSUME NEW w \in Windows, SpendingExpires(w)
        PROVE  TypeOK'
    BY <1>4 DEF SpendingExpires, Windows
  <1>5. CASE UNCHANGED vars
    BY <1>5 DEF vars
  <1> QED
    BY <1>1, <1>2, <1>3, <1>4, <1>5 DEF Next

(* The manager's counters and the states of its requests keep their types. *)
THEOREM ManagerTypes == Spec => []TypeOK
  <1>1. Init => TypeOK
    BY ManagerAssumption DEF ManagerAssumption, Init, TypeOK, States
  <1> QED
    BY <1>1, StepTypes, PTL DEF Spec

-----------------------------------------------------------------------------
(* Slots *)

HoldingNow == Population(pc, Holding)
UndoingNow == Population(pc, Undoing)
UnderWayNow == Population(pc, UnderWay)

(* The counter is what is held and what is about to be given back. *)
SlotInv ==
    /\ TypeOK
    /\ current = HoldingNow + UndoingNow
    /\ HoldingNow <= MaxConcurrent

MovesTo(r, to) == pc' = [pc EXCEPT ![r] = to]

(* How the three populations change when a request moves. *)
LEMMA PopulationsMove ==
    ASSUME TypeOK, NEW r \in Requests, NEW to \in States, MovesTo(r, to)
    PROVE  /\ pc'[r] = to
           /\ HoldingNow \in Nat /\ UndoingNow \in Nat /\ UnderWayNow \in Nat
           /\ HoldingNow' = HoldingNow + Here(pc', r, Holding) - Here(pc, r, Holding)
           /\ UndoingNow' = UndoingNow + Here(pc', r, Undoing) - Here(pc, r, Undoing)
           /\ UnderWayNow' = UnderWayNow + Here(pc', r, UnderWay) - Here(pc, r, UnderWay)
  <1>1. pc'[r] = to /\ DifferAt(r, pc, pc')
    BY DEF TypeOK, DifferAt, MovesTo
  <1>2. HoldingNow' = HoldingNow + Here(pc', r, Holding) - Here(pc, r, Holding)
    BY <1>1, MoveCounts, Zenon DEF HoldingNow
  <1>3. UndoingNow' = UndoingNow + Here(pc', r, Undoing) - Here(pc, r, Undoing)
    BY <1>1, MoveCounts, Zenon DEF UndoingNow
  <1>4. UnderWayNow' = UnderWayNow + Here(pc', r, UnderWay) - Here(pc, r, UnderWay)
    BY <1>1, MoveCounts, Zenon DEF UnderWayNow
  <1>5. HoldingNow \in Nat /\ UndoingNow \in Nat /\ UnderWayNow \in Nat
    BY PopulationType DEF HoldingNow, UndoingNow, UnderWayNow
  <1> QED
    BY <1>1, <1>2, <1>3, <1>4, <1>5, Zenon

(* A step that is no request's leaves them as they are. *)
LEMMA PopulationsStay ==
    ASSUME UNCHANGED pc
    PROVE  HoldingNow' = HoldingNow /\ UndoingNow' = UndoingNow /\ UnderWayNow' = UnderWayNow
  BY DEF HoldingNow, UndoingNow, UnderWayNow

(* Where a request goes while it checks the limits: on, to admission, or   *)
(* away.  It is admitted with a violation only when the action allows it,  *)
(* and otherwise only while the hourly budget is not exceeded.             *)
Checking == {"idle", "second", "minute", "hour", "tokens", "budget"}

LEMMA ChecksMove ==
    ASSUME TypeOK, NEW r \in Requests, Begin(r) \/ CheckRequest(r) \/ CheckTokens(r) \/ CheckBudget(r)
    PROVE  /\ pc[r] \in Checking
           /\ \E to \in Checking \cup {"admitted"} :
                 /\ pc' = [pc EXCEPT ![r] = to]
                 /\ to = "admitted" => EnforceAllows \/ ~Exceeded("hourly")
           /\ UNCHANGED <<used, current, action>>
  <1>1. CASE Begin(r)
    BY <1>1 DEF Begin, Checking
  <1>2. ASSUME NEW b \in {"second", "minute", "hour"}, NEW next \in {"minute", "hour", "tokens"}, TakeToken(r, b, next)
        PROVE  /\ pc[r] \in Checking
               /\ \E to \in Checking \cup {"admitted"} :
                     pc' = [pc EXCEPT ![r] = to] /\ (to = "admitted" => EnforceAllows)
               /\ UNCHANGED <<used, current, action>>
    BY <1>2 DEF TakeToken, AfterViolation, Checking
  <1>3. CASE CheckRequest(r)
    BY <1>2, <1>3 DEF CheckRequest
  <1>4. CASE CheckTokens(r)
    <2> DEFINE to == IF TokensExceeded THEN AfterViolation ELSE "budget"
    <2>1. pc' = [pc EXCEPT ![r] = to] /\ pc[r] = "tokens" /\ UNCHANGED <<used, current, action>>
      BY <1>4 DEF CheckTokens
    <2>2. to \in Checking \cup {"admitted"} /\ (to = "admitted" => EnforceAllows)
      BY DEF AfterViolation, Checking
    <2> HIDE DEF to
    <2> QED
      BY <2>1, <2>2 DEF Checking
  <1>5. CASE CheckBudget(r)
    <2>1. BudgetAllows => ~Exceeded("hourly")
      <3>1. "hourly" \in Windows /\ Shorter["hourly"] = {}
        BY DEF Windows, Shorter
      <3> QED
        BY <3>1 DEF BudgetAllows
    <2> QED
      BY <1>5, <2>1 DEF CheckBudget, AfterViolation, Checking
  <1> QED
    BY <1>1, <1>3, <1>4, <1>5

(* Every step keeps the account of the slots. *)
LEMMA StepSlots ==
    ASSUME SlotInv, [Next]_vars
    PROVE  SlotInv'
  <1> USE ManagerAssumption DEF ManagerAssumption
  <1>1. TypeOK /\ TypeOK' /\ current \in Int /\ MaxConcurrent \in Nat
    BY StepTypes DEF SlotInv, TypeOK
  <1>2. SUFFICES current' = HoldingNow' + UndoingNow' /\ HoldingNow' <= MaxConcurrent
    BY <1>1 DEF SlotInv
  <1>3. ASSUME NEW r \in Requests, Begin(r) \/ CheckRequest(r) \/ CheckTokens(r) \/ CheckBudget(r)
        PROVE  current' = HoldingNow' + UndoingNow' /\ HoldingNow' <= MaxConcurrent
    <2>1. PICK to \in Checking \cup {"admitted"} : MovesTo(r, to)
      BY <1>1, <1>3, ChecksMove DEF MovesTo
    <2>2. pc[r] \in Checking /\ current' = current
      BY <1>1, <1>3, ChecksMove
    <2>3. to \in States
      BY DEF Checking, States
    <2>4. HoldingNow' = HoldingNow /\ UndoingNow' = UndoingNow
      BY <1>1, <2>1, <2>2, <2>3, PopulationsMove DEF Here, Checking, Holding, Undoing
    <2> QED
      BY <2>2, <2>4 DEF SlotInv
  <1>4. ASSUME NEW r \in Requests, Acquire(r)
        PROVE  current' = HoldingNow' + UndoingNow' /\ HoldingNow' <= MaxConcurrent
    <2>1. current' = current + 1 /\ pc[r] = "admitted"
      BY <1>4 DEF Acquire
    <2>2. CASE current + 1 > MaxConcurrent
      <3>1. MovesTo(r, "undo") /\ "undo" \in States
        BY <1>4, <2>2 DEF Acquire, States, MovesTo
      <3>2. HoldingNow \in Nat /\ UndoingNow \in Nat /\ HoldingNow' = HoldingNow /\ UndoingNow' = UndoingNow + 1
        BY <1>1, <2>1, <3>1, PopulationsMove DEF Here, Holding, Undoing
      <3> QED
        BY <1>1, <2>1, <3>2 DEF SlotInv
    <2>3. CASE ~(current + 1 > MaxConcurrent)
      <3>1. MovesTo(r, "handler") /\ "handler" \in States
        BY <1>4, <2>3 DEF Acquire, States, MovesTo
      <3>2. HoldingNow \in Nat /\ UndoingNow \in Nat /\ HoldingNow' = HoldingNow + 1 /\ UndoingNow' = UndoingNow
        BY <1>1, <2>1, <3>1, PopulationsMove DEF Here, Holding, Undoing
      <3> QED
        BY <1>1, <2>1, <2>3, <3>2 DEF SlotInv
    <2> QED
      BY <2>2, <2>3
  <1>5. ASSUME NEW r \in Requests, Undo(r)
        PROVE  current' = HoldingNow' + UndoingNow' /\ HoldingNow' <= MaxConcurrent
    <2>1. current' = current - 1 /\ pc[r] = "undo" /\ MovesTo(r, "idle") /\ "idle" \in States
      BY <1>5 DEF Undo, States, MovesTo
    <2>2. HoldingNow \in Nat /\ UndoingNow \in Nat /\ HoldingNow' = HoldingNow /\ UndoingNow' = UndoingNow - 1
      BY <1>1, <2>1, PopulationsMove DEF Here, Holding, Undoing
    <2> QED
      BY <1>1, <2>1, <2>2 DEF SlotInv
  <1>6. ASSUME NEW r \in Requests, Finish(r) \/ RecordUsage(r)
        PROVE  current' = HoldingNow' + UndoingNow' /\ HoldingNow' <= MaxConcurrent
    <2>1. PICK to \in {"record", "release"} : MovesTo(r, to)
      BY <1>6 DEF Finish, RecordUsage, MovesTo
    <2>2. pc[r] \in {"handler", "record"} /\ current' = current /\ to \in States
      BY <1>6 DEF Finish, RecordUsage, States
    <2>3. HoldingNow' = HoldingNow /\ UndoingNow' = UndoingNow
      BY <1>1, <2>1, <2>2, PopulationsMove DEF Here, Holding, Undoing
    <2> QED
      BY <2>2, <2>3 DEF SlotInv
  <1>7. ASSUME NEW r \in Requests, Release(r)
        PROVE  current' = HoldingNow' + UndoingNow' /\ HoldingNow' <= MaxConcurrent
    <2>1. current' = current - 1 /\ pc[r] = "release" /\ MovesTo(r, "idle") /\ "idle" \in States
      BY <1>7 DEF Release, States, MovesTo
    <2>2. HoldingNow \in Nat /\ UndoingNow \in Nat /\ HoldingNow' = HoldingNow - 1 /\ UndoingNow' = UndoingNow
      BY <1>1, <2>1, PopulationsMove DEF Here, Holding, Undoing
    <2> QED
      BY <1>1, <2>1, <2>2 DEF SlotInv
  <1>8. ASSUME UNCHANGED <<pc, current>>
        PROVE  current' = HoldingNow' + UndoingNow' /\ HoldingNow' <= MaxConcurrent
    BY <1>8, PopulationsStay DEF SlotInv
  <1>9. CASE \/ \E b \in Buckets : BucketRefill(b)
             \/ \E w \in TokenWindows : TokensExpire(w)
             \/ \E w \in Windows : SpendingExpires(w)
             \/ UNCHANGED vars
    BY <1>8, <1>9 DEF BucketRefill, TokensExpire, SpendingExpires, vars
  <1> QED
    BY <1>3, <1>4, <1>5, <1>6, <1>7, <1>9 DEF Next, Step

(* Whatever limits stop a request and wherever, every slot of the          *)
(* concurrent limiter that was taken is given back once, and no more       *)
(* handlers run than MaxConcurrent (AcquireConcurrent and                  *)
(* ReleaseConcurrent of manager.go as the middleware of limits.go calls    *)
(* them).                                                                  *)
THEOREM SlotsAreAccounted == Spec => []SlotsAccounted
  <1>1. Init => SlotInv
    <2> SUFFICES ASSUME Init PROVE SlotInv
      OBVIOUS
    <2>1. TypeOK /\ MaxConcurrent \in Nat /\ current = 0
      BY ManagerAssumption DEF ManagerAssumption, Init, TypeOK, States
    <2>2. {q \in Requests : pc[q] \in Holding} = {} /\ {q \in Requests : pc[q] \in Undoing} = {}
      BY DEF Init, Holding, Undoing
    <2>3. HoldingNow = 0 /\ UndoingNow = 0
      BY <2>2, FS_EmptySet DEF HoldingNow, UndoingNow, Population
    <2> QED
      BY <2>1, <2>3 DEF SlotInv
  <1>2. SlotInv => SlotsAccounted
    <2> SUFFICES ASSUME SlotInv PROVE SlotsAccounted
      OBVIOUS
    <2>1. Limiter!InState("inside") = {q \in Requests : pc[q] \in Holding}
      BY DEF Limiter!InState, limiterPc, Holding
    <2>2. Limiter!InState("undo") = {q \in Requests : pc[q] \in Undoing}
      BY DEF Limiter!InState, limiterPc, Undoing
    <2>3. \A T : Limiter!Cardinality(T) = Cardinality(T)
      BY DEF Limiter!Cardinality, Cardinality
    <2> QED
      BY <2>1, <2>2, <2>3 DEF SlotInv, HoldingNow, UndoingNow, Population, SlotsAccounted, Limiter!LimiterIsExact,
                        Limiter!AtMostLimitInside, Limiter!CounterIsExact
  <1> QED
    BY <1>1, <1>2, StepSlots, PTL DEF Spec

-----------------------------------------------------------------------------
(* Budget *)

(* What so many requests may cost. *)
Cost(n) == MaxCost * n

(* More requests may cost more, and one more costs at most MaxCost more. *)
LEMMA CostGrows ==
    ASSUME NEW a \in Nat, NEW b \in Nat
    PROVE  Cost(a) \in Nat /\ (a <= b => Cost(a) <= Cost(b)) /\ Cost(a + 1) = Cost(a) + MaxCost
  <1>0. MaxCost \in Nat
    BY ManagerAssumption DEF ManagerAssumption
  <1>1. MaxCost * a \in Nat /\ MaxCost * (a + 1) = MaxCost * a + MaxCost
    BY <1>0
  <1>2. ASSUME a <= b PROVE MaxCost * a <= MaxCost * b
    <2>1. PICK d \in Nat : b = a + d
      <3>1. b - a \in Nat /\ b = a + (b - a)
        BY <1>2
      <3> QED BY <3>1
    <2>2. MaxCost * b = MaxCost * a + MaxCost * d /\ MaxCost * d \in Nat
      BY <1>0, <2>1
    <2> QED
      BY <1>1, <2>2
  <1> QED
    BY <1>1, <1>2 DEF Cost

(* Blocking enforcement with an hourly budget. *)
Capped == action = "block" /\ Budget["hourly"] # Unlimited
Spent == used["hourly"]
WithinOvershoot == Spent + Cost(UnderWayNow) <= Budget["hourly"] + Cost(Cardinality(Requests))

OvershootInv == TypeOK /\ (Capped => WithinOvershoot)

(* Every step keeps the overshoot within what is under way. *)
LEMMA StepOvershoot ==
    ASSUME OvershootInv, [Next]_vars
    PROVE  OvershootInv'
  <1> USE ManagerAssumption DEF ManagerAssumption
  <1>1. TypeOK /\ TypeOK'
    BY StepTypes DEF OvershootInv
  <1>2. "hourly" \in Windows /\ Spent \in Nat /\ Spent' \in Nat
    BY <1>1 DEF TypeOK, Spent, Windows
  <1>3. /\ UnderWayNow \in Nat /\ UnderWayNow' \in Nat /\ Cardinality(Requests) \in Nat
        /\ UnderWayNow <= Cardinality(Requests) /\ UnderWayNow' <= Cardinality(Requests)
    BY PopulationType DEF UnderWayNow
  <1>4. SUFFICES ASSUME Capped'
                 PROVE  WithinOvershoot'
    BY <1>1 DEF OvershootInv
  <1>5. action' = action
    BY DEF Next, Step, Begin, CheckRequest, TakeToken, CheckTokens, CheckBudget, Acquire, Undo, Finish, RecordUsage,
           Release, BucketRefill, TokensExpire, SpendingExpires, vars
  <1>6. Capped /\ WithinOvershoot /\ Budget["hourly"] \in Nat /\ ~EnforceAllows
    BY <1>2, <1>4, <1>5 DEF Capped, OvershootInv, EnforceAllows
  <1>7. Cost(UnderWayNow) \in Nat /\ Cost(UnderWayNow') \in Nat /\ Cost(Cardinality(Requests)) \in Nat
    BY <1>3, CostGrows
  <1>8. ASSUME Spent' <= Spent, UnderWayNow' <= UnderWayNow
        PROVE  WithinOvershoot'
    <2>1. Cost(UnderWayNow') <= Cost(UnderWayNow)
      BY <1>3, <1>8, CostGrows
    <2> QED
      BY <1>2, <1>6, <1>7, <1>8, <2>1 DEF WithinOvershoot
  <1>9. ASSUME Spent' <= Budget["hourly"]
        PROVE  WithinOvershoot'
    <2>1. Cost(UnderWayNow') <= Cost(Cardinality(Requests))
      BY <1>3, CostGrows
    <2> QED
      BY <1>2, <1>6, <1>7, <1>9, <2>1 DEF WithinOvershoot
  <1>10. ASSUME NEW r \in Requests, Begin(r) \/ CheckRequest(r) \/ CheckTokens(r) \/ CheckBudget(r)
         PROVE  WithinOvershoot'
    <2>1. PICK to \in Checking \cup {"admitted"} : MovesTo(r, to) /\ (to = "admitted" => EnforceAllows \/ ~Exceeded("hourly"))
      BY <1>1, <1>10, ChecksMove DEF MovesTo
    <2>2. pc[r] \in Checking /\ Spent' = Spent
      BY <1>1, <1>10, ChecksMove DEF Spent
    <2>3. CASE to = "admitted"
      <3>1. Spent <= Budget["hourly"]
        BY <1>2, <1>6, <2>1, <2>3 DEF Exceeded, Spent, Capped
      <3> QED
        BY <1>9, <2>2, <3>1
    <2>4. CASE to # "admitted"
      <3>1. to \in Checking /\ to \in States
        BY <2>4 DEF Checking, States
      <3>2. UnderWayNow' = UnderWayNow
        BY <1>1, <2>1, <2>2, <3>1, PopulationsMove DEF Here, Checking, UnderWay
      <3> QED
        BY <1>2, <1>3, <1>8, <2>2, <3>2
    <2> QED
      BY <2>3, <2>4
  <1>11. ASSUME NEW r \in Requests, Acquire(r) \/ Undo(r) \/ Finish(r) \/ Release(r)
         PROVE  WithinOvershoot'
    <2>1. PICK to \in {"undo", "handler", "idle", "release", "record"} :
             MovesTo(r, to) /\ (pc[r] = "release" => to = "idle")
      BY <1>11 DEF Acquire, Undo, Finish, Release, MovesTo
    <2>2. pc[r] \in {"admitted", "undo", "handler", "release"} /\ Spent' = Spent
      BY <1>11 DEF Acquire, Undo, Finish, Release, Spent
    <2>3. to \in States
      BY DEF States
    <2>4. UnderWayNow' <= UnderWayNow
      BY <1>1, <2>1, <2>2, <2>3, PopulationsMove DEF Here, UnderWay
    <2> QED
      BY <1>2, <1>8, <2>2, <2>4
  <1>12. ASSUME NEW r \in Requests, RecordUsage(r)
         PROVE  WithinOvershoot'
    <2>1. PICK cost \in 0..MaxCost : used' = [w \in Windows |-> used[w] + cost]
      BY <1>12 DEF RecordUsage
    <2>2. Spent' = Spent + cost
      BY <1>2, <2>1 DEF Spent
    <2>3. MovesTo(r, "release") /\ pc[r] = "record" /\ "release" \in States
      BY <1>12 DEF RecordUsage, MovesTo, States
    <2>4. UnderWayNow = UnderWayNow' + 1
      <3>1. UnderWayNow' = UnderWayNow - 1
        BY <1>1, <2>3, PopulationsMove DEF Here, UnderWay
      <3> QED
        BY <1>3, <3>1
    <2>5. Cost(UnderWayNow) = Cost(UnderWayNow') + MaxCost
      BY <1>3, <2>4, CostGrows
    <2> QED
      BY <1>2, <1>6, <1>7, <2>2, <2>5 DEF WithinOvershoot
  <1>13. CASE (\E b \in Buckets : BucketRefill(b)) \/ (\E w \in TokenWindows : TokensExpire(w)) \/ UNCHANGED vars
    <2>1. UNCHANGED <<pc, used>>
      BY <1>13 DEF BucketRefill, TokensExpire, vars
    <2> QED
      BY <1>2, <1>3, <1>8, <2>1, PopulationsStay DEF Spent
  <1>14. ASSUME NEW w \in Windows, SpendingExpires(w)
         PROVE  WithinOvershoot'
    <2>1. UNCHANGED pc /\ Spent' <= Spent
      <3>1. CASE w = "hourly"
        <4>1. used' = [used EXCEPT ![w] = 0] /\ UNCHANGED pc
          BY <1>14, <3>1 DEF SpendingExpires
        <4>2. Spent' = 0
          BY <1>1, <3>1, <4>1 DEF Spent, TypeOK
        <4> QED
          BY <1>2, <4>1, <4>2
      <3>2. CASE w # "hourly"
        <4>1. PICK kept : used' = [used EXCEPT ![w] = kept] /\ UNCHANGED pc
          BY <1>14 DEF SpendingExpires
        <4>2. Spent' = Spent
          BY <1>1, <1>2, <3>2, <4>1 DEF Spent, TypeOK
        <4> QED
          BY <1>2, <4>1, <4>2
      <3> QED
        BY <3>1, <3>2
    <2> QED
      BY <1>3, <1>8, <2>1, PopulationsStay
  <1>15. CASE UNCHANGED vars
    BY <1>13, <1>15
  <1> QED
    BY <1>10, <1>11, <1>12, <1>13, <1>14, <1>15 DEF Next, Step

(* The check comes before the handler and the charge after it, so the      *)
(* hourly budget can be overrun, but for any number of requests, any costs *)
(* and any budget by no more than the requests that were under way         *)
(* together may cost: stale checks do not add up (Tracker.Check and        *)
(* RecordUsage under manager.go's lock).                                   *)
THEOREM OvershootStaysBounded == Spec => []OvershootBounded
  <1>1. Init => OvershootInv
    <2> SUFFICES ASSUME Init PROVE OvershootInv
      OBVIOUS
    <2>1. TypeOK /\ Spent = 0
      BY ManagerAssumption DEF ManagerAssumption, Init, TypeOK, States, Spent, Windows
    <2>2. /\ UnderWayNow \in Nat /\ Cardinality(Requests) \in Nat
          /\ UnderWayNow <= Cardinality(Requests)
      BY PopulationType DEF UnderWayNow
    <2>3. Cost(UnderWayNow) \in Nat /\ Cost(Cardinality(Requests)) \in Nat /\ Cost(UnderWayNow) <= Cost(Cardinality(Requests))
      BY <2>2, CostGrows
    <2>4. Capped => Budget["hourly"] \in Nat
      BY ManagerAssumption DEF ManagerAssumption, Capped, Windows
    <2> QED
      BY <2>1, <2>3, <2>4 DEF OvershootInv, WithinOvershoot
  <1>2. OvershootInv => OvershootBounded
    <2>1. InFlight = {q \in Requests : pc[q] \in UnderWay}
      BY DEF InFlight, UnderWay
    <2> QED
      BY <2>1 DEF OvershootInv, OvershootBounded, Capped, WithinOvershoot, Spent, Cost, UnderWayNow, Population
  <1> QED
    BY <1>1, <1>2, StepOvershoot, PTL DEF Spec

=============================================================================
