------------------------- MODULE NeighbourTableProofs -------------------------
(****************************************************************************)
(* Theorems about NeighbourTable, for any devices, capacity and timeout.    *)
(****************************************************************************)
EXTENDS NeighbourTable, NeighbourLemmas

\* No device was heard in the future.
HeardInPast == \A a \in Address : heard[a] <= time

IInv == TypeOK /\ EntriesAreCurrent /\ HeardInPast

-----------------------------------------------------------------------------

(* The tick is a tick whatever the time. *)
LEMMA TickAtType ==
    ASSUME TypeOK, NEW t \in Nat
    PROVE  TickAt(t) \in Ticks
  BY ModFacts, TableAssumption, ClockAssumption DEF TypeOK, TickAt, Ticks

(* The empty table satisfies the inductive invariant. *)
LEMMA Initially == Init => IInv
<1> SUFFICES ASSUME Init
             PROVE  IInv
  OBVIOUS
<1>1. TypeOK
  BY EmptyTable, TableAssumption, ClockAssumption DEF Init, TypeOK, Ticks
<1>2. DOMAIN neighborTable_ = {}
  BY EmptyTable DEF Init
<1>3. EntriesAreCurrent /\ HeardInPast
  BY <1>2 DEF Init, EntriesAreCurrent, HeardInPast, Never
<1>4. QED
  BY <1>1, <1>3 DEF IInv

\* What the steps that take devices out have in common.
Shrinks(S) ==
    /\ S \subseteq DOMAIN neighborTable_
    /\ neighborTable_' = Restrict(neighborTable_, S)
    /\ \A a \in S : heard'[a] = heard[a]
    /\ heard' \in [Address -> {Never} \cup 0 .. MAX_TIME]
    /\ \A a \in Address : heard'[a] <= time
    /\ UNCHANGED <<boot, time>>

(* Removing neighbours preserves the invariant. *)
LEMMA ShrinkKeepsIInv ==
    ASSUME IInv, NEW S, Shrinks(S)
    PROVE  IInv'
<1>1. /\ neighborTable_' \in Tables
      /\ Cardinality(DOMAIN neighborTable_') <= FANET_MAX_NEIGHBORS
      /\ DOMAIN neighborTable_' = S
      /\ \A b \in S : neighborTable_'[b] = neighborTable_[b]
  BY RestrictProperties DEF IInv, TypeOK, Shrinks
<1>2. TypeOK'
  BY <1>1 DEF IInv, TypeOK, Shrinks
<1>3. EntriesAreCurrent'
  BY <1>1 DEF IInv, EntriesAreCurrent, Shrinks, TickAt
<1>4. HeardInPast'
  BY DEF Shrinks, HeardInPast
<1>5. QED
  BY <1>2, <1>3, <1>4 DEF IInv

(* addOrUpdate() preserves the invariant. *)
LEMMA AddOrUpdateKeepsIInv ==
    ASSUME IInv, NEW a \in Address, AddOrUpdate(a)
    PROVE  IInv'
<1>1. /\ neighborTable_' \in AfterAddOrUpdate(neighborTable_, a, TickAt(time))
      /\ heard' = [heard EXCEPT ![a] = time]
      /\ boot' = boot /\ time' = time
  BY DEF AddOrUpdate
<1>2. time \in 0 .. MAX_TIME /\ time \in Nat /\ TickAt(time) \in Ticks
  BY TickAtType, TableAssumption, ClockAssumption DEF IInv, TypeOK
<1>3. /\ neighborTable_' \in Tables
      /\ Cardinality(DOMAIN neighborTable_') <= FANET_MAX_NEIGHBORS
      /\ neighborTable_'[a] = TickAt(time)
      /\ \A b \in DOMAIN neighborTable_' \ {a} :
            b \in DOMAIN neighborTable_ /\ neighborTable_'[b] = neighborTable_[b]
  BY <1>1, <1>2, AddOrUpdateProperties DEF IInv, TypeOK
<1>4. TypeOK'
  BY <1>1, <1>2, <1>3 DEF IInv, TypeOK
<1>5. EntriesAreCurrent'
  <2>1. ASSUME NEW b \in DOMAIN neighborTable_'
        PROVE  heard'[b] # Never /\ neighborTable_'[b] = (boot' + heard'[b]) % TICK_MOD
    <3>1. b \in Address
      BY <1>3, TableDomain
    <3>2. CASE b = a
      BY <1>1, <1>2, <1>3, <3>1, <3>2 DEF IInv, TypeOK, TickAt, Never
    <3>3. CASE b # a
      BY <1>1, <1>3, <3>1, <3>3 DEF IInv, TypeOK, EntriesAreCurrent, TickAt
    <3>4. QED
      BY <3>2, <3>3
  <2>2. QED
    BY <2>1 DEF EntriesAreCurrent, TickAt
<1>6. HeardInPast'
  BY <1>1, <1>2 DEF IInv, TypeOK, HeardInPast
<1>7. QED
  BY <1>4, <1>5, <1>6 DEF IInv

(* Every step preserves the inductive invariant. *)
LEMMA Inductive ==
    ASSUME IInv, [Next]_vars
    PROVE  IInv'
<1>1. ASSUME NEW a \in Address, AddOrUpdate(a)
      PROVE  IInv'
  BY <1>1, AddOrUpdateKeepsIInv
<1>2. ASSUME NEW a \in Address, Remove(a)
      PROVE  IInv'
  <2>1. Shrinks(DOMAIN neighborTable_ \ {a})
    BY <1>2, TableDomain DEF Shrinks, Remove, AfterRemove, IInv, TypeOK,
        HeardInPast, Never
  <2>2. QED
    BY <2>1, ShrinkKeepsIInv
<1>3. CASE RemoveOutdated
  <2>1. \E S : Shrinks(S)
    BY <1>3 DEF Shrinks, RemoveOutdated, AfterRemoveOutdated, IInv, TypeOK, HeardInPast
  <2>2. QED
    BY <2>1, ShrinkKeepsIInv
<1>4. CASE Clear
  <2>1. neighborTable_' = NoNeighbours /\ DOMAIN neighborTable_' = {}
    BY <1>4, EmptyTable DEF Clear
  <2>2. TypeOK'
    BY <1>4, <2>1, EmptyTable DEF Clear, IInv, TypeOK
  <2>3. EntriesAreCurrent'
    BY <2>1 DEF EntriesAreCurrent
  <2>4. HeardInPast'
    BY <1>4 DEF Clear, IInv, TypeOK, HeardInPast, Never
  <2>5. QED
    BY <2>2, <2>3, <2>4 DEF IInv
<1>5. CASE TimePasses
  BY <1>5, TableAssumption, ClockAssumption DEF TimePasses, IInv, TypeOK, EntriesAreCurrent,
      HeardInPast, TickAt, Never
<1>6. CASE UNCHANGED vars
  BY <1>6 DEF vars, IInv, TypeOK, EntriesAreCurrent, HeardInPast, TickAt
<1>7. QED
  BY <1>1, <1>2, <1>3, <1>4, <1>5, <1>6 DEF Next

(* The inductive invariant always holds. *)
LEMMA Invariance == Spec => []IInv
<1>1. QED
  BY Initially, Inductive, PTL DEF Spec

(* The table is always one of at most FANET_MAX_NEIGHBORS entries: the      *)
(* push_back in addOrUpdate never finds the vector full.                    *)
THEOREM TypeCorrect == Spec => []TypeOK
<1>1. IInv => TypeOK
  BY DEF IInv
<1>2. QED
  BY <1>1, Invariance, PTL

(* What the table says of a device is when it was heard last. *)
THEOREM EntriesTrue == Spec => []EntriesAreCurrent
<1>1. IInv => EntriesAreCurrent
  BY DEF IInv
<1>2. QED
  BY <1>1, Invariance, PTL

-----------------------------------------------------------------------------

(* Only addOrUpdate() evicts, and only from a full table; as long as the    *)
(* clock has not wrapped, the entry with the smallest tick is the one heard *)
(* longest ago.                                                             *)
LEMMA EvictionStep ==
    ASSUME IInv, [Next]_vars, NEW a \in Address, Evicted(a)
    PROVE  /\ Full(neighborTable_)
           /\ boot + time < TICK_MOD =>
                \A b \in DOMAIN neighborTable_ : heard[a] <= heard[b]
<1>1. a \in DOMAIN neighborTable_ /\ a \notin DOMAIN neighborTable_'
      /\ heard'[a] # Never /\ ~Outlived(a)
  BY DEF Evicted
<1>2. ASSUME NEW c \in Address, AddOrUpdate(c)
      PROVE  Full(neighborTable_) /\ a \in Oldest(neighborTable_)
  <2>1. TickAt(time) \in Ticks
    BY TickAtType, TableAssumption, ClockAssumption DEF IInv, TypeOK
  <2>2. neighborTable_' \in AfterAddOrUpdate(neighborTable_, c, TickAt(time))
    BY <1>2 DEF AddOrUpdate
  <2>3. QED
    BY <1>1, <2>1, <2>2, AddOrUpdateProperties DEF IInv, TypeOK
<1>3. ASSUME NEW c \in Address, Remove(c)
      PROVE  FALSE
  <2>1. /\ heard' = [heard EXCEPT ![c] = Never]
        /\ neighborTable_' = Restrict(neighborTable_, DOMAIN neighborTable_ \ {c})
    BY <1>3 DEF Remove, AfterRemove
  <2>2. DOMAIN neighborTable_' = DOMAIN neighborTable_ \ {c}
    BY <2>1 DEF Restrict
  <2>3. QED
    BY <1>1, <2>1, <2>2 DEF IInv, TypeOK
<1>4. ASSUME RemoveOutdated
      PROVE  FALSE
  <2>1. /\ boot \in Nat /\ time \in Nat /\ heard[a] \in Nat
        /\ heard[a] <= time
        /\ neighborTable_[a] = (boot + heard[a]) % TICK_MOD
    BY <1>1, TableAssumption, ClockAssumption DEF IInv, TypeOK, EntriesAreCurrent, HeardInPast,
        Ticks, TickAt, Never
  <2>2. DOMAIN neighborTable_' = {b \in DOMAIN neighborTable_ :
            (TickAt(time) - neighborTable_[b]) % TICK_MOD <= NEIGHBOR_MAX_TIMEOUT_MS}
    BY <1>4 DEF RemoveOutdated, AfterRemoveOutdated, Restrict
  <2>3. time - heard[a] <= NEIGHBOR_MAX_TIMEOUT_MS
    BY <1>1, <2>1, TableAssumption, ClockAssumption DEF Outlived
  <2>4. (((boot + time) % TICK_MOD) - ((boot + heard[a]) % TICK_MOD)) % TICK_MOD
            = (time - heard[a]) % TICK_MOD
    <3>1. boot \in Int /\ time \in Int /\ heard[a] \in Int /\ TICK_MOD \in Nat \ {0}
      BY <2>1, TableAssumption, ClockAssumption
    <3>2. QED
      BY <3>1, ElapsedTicks, ZenonT(40)
  <2>5. (TickAt(time) - neighborTable_[a]) % TICK_MOD = (time - heard[a]) % TICK_MOD
    BY <2>1, <2>4 DEF TickAt
  <2>6. time - heard[a] \in Nat
    BY <2>1
  <2>7. (time - heard[a]) % TICK_MOD <= time - heard[a]
    BY <2>6, Reduced, TableAssumption, ClockAssumption
  <2>8. a \in DOMAIN neighborTable_'
    BY <1>1, <2>2, <2>3, <2>5, <2>6, <2>7, Reduced, TableAssumption, ClockAssumption
  <2>9. QED
    BY <1>1, <2>8
<1>5. ASSUME Clear
      PROVE  FALSE
  BY <1>1, <1>5, TableDomain, EmptyTable DEF Clear, IInv, TypeOK
<1>6. ASSUME TimePasses \/ UNCHANGED vars
      PROVE  FALSE
  BY <1>1, <1>6 DEF TimePasses, vars
<1>7. Full(neighborTable_) /\ a \in Oldest(neighborTable_)
  BY <1>1, <1>2, <1>3, <1>4, <1>5, <1>6 DEF Next
<1>8. ASSUME boot + time < TICK_MOD, NEW b \in DOMAIN neighborTable_
      PROVE  heard[a] <= heard[b]
  <2>1. a \in Address /\ b \in Address
    BY <1>1, TableDomain DEF IInv, TypeOK
  <2>2. \A c \in {a, b} :
            /\ heard[c] \in Nat /\ heard[c] <= time
            /\ neighborTable_[c] = (boot + heard[c]) % TICK_MOD
    BY <1>1, <2>1, TableAssumption, ClockAssumption DEF IInv, TypeOK, EntriesAreCurrent,
        HeardInPast, Never, TickAt
  <2>3. boot \in Nat /\ time \in Nat /\ TICK_MOD \in Nat
    BY TableAssumption, ClockAssumption DEF IInv, TypeOK, Ticks
  <2>4. \A c \in {a, b} : boot + heard[c] \in Nat /\ boot + heard[c] < TICK_MOD
    BY <1>8, <2>2, <2>3
  <2>5. \A c \in {a, b} : neighborTable_[c] = boot + heard[c]
    BY <2>2, <2>4, ModFacts
  <2>6. neighborTable_[a] <= neighborTable_[b]
    BY <1>7 DEF Oldest
  <2>7. QED
    BY <2>2, <2>3, <2>5, <2>6
<1>9. QED
  BY <1>7, <1>8

(* A device in reach is forgotten only to make room in a full table, and it *)
(* is then the one heard longest ago, until the clock wraps.                *)
THEOREM EvictionOrder == Spec => EvictsLeastRecent
<1>1. IInv /\ [Next]_vars =>
        [ \A a \in Address : Evicted(a) =>
            /\ Full(neighborTable_)
            /\ boot + time < TICK_MOD =>
                \A b \in DOMAIN neighborTable_ : heard[a] <= heard[b] ]_vars
  BY EvictionStep
<1>2. QED
  BY <1>1, Invariance, PTL DEF Spec, EvictsLeastRecent

(* removeOutdated() compares differences of ticks, which the wrap of the    *)
(* clock does not change: it takes out exactly the outdated devices, as     *)
(* long as the clock has not gone round completely.                         *)
THEOREM CleanupAcrossWrap ==
    ASSUME MAX_TIME < TICK_MOD
    PROVE  Spec => []CleanupIsExact
<1>1. ASSUME IInv
      PROVE  CleanupIsExact
  <2>1. DOMAIN AfterRemoveOutdated(neighborTable_, TickAt(time)) = {b \in DOMAIN neighborTable_ :
            (TickAt(time) - neighborTable_[b]) % TICK_MOD <= NEIGHBOR_MAX_TIMEOUT_MS}
    BY DEF AfterRemoveOutdated, Restrict
  <2>2. ASSUME NEW a \in DOMAIN neighborTable_
        PROVE  (TickAt(time) - neighborTable_[a]) % TICK_MOD = time - heard[a]
    <3>1. a \in Address
      BY <1>1, TableDomain DEF IInv, TypeOK
    <3>2. /\ heard[a] \in Nat /\ heard[a] <= time
          /\ neighborTable_[a] = TickAt(heard[a])
      BY <1>1, <3>1, TableAssumption, ClockAssumption DEF IInv, TypeOK, EntriesAreCurrent,
          HeardInPast, Never
    <3>3. boot \in Nat /\ boot < TICK_MOD /\ time \in Nat /\ time < TICK_MOD
      BY <1>1, TableAssumption, ClockAssumption DEF IInv, TypeOK, Ticks
    <3>4. (((boot + time) % TICK_MOD) - ((boot + heard[a]) % TICK_MOD)) % TICK_MOD
            = (time - heard[a]) % TICK_MOD
      <4>1. boot \in Int /\ time \in Int /\ heard[a] \in Int /\ TICK_MOD \in Nat \ {0}
        BY <3>2, <3>3, TableAssumption, ClockAssumption
      <4>2. QED
        BY <4>1, ElapsedTicks, ZenonT(40)
    <3>5. (TickAt(time) - neighborTable_[a]) % TICK_MOD = (time - heard[a]) % TICK_MOD
      BY <3>2, <3>4 DEF TickAt
    <3>6. time - heard[a] \in Nat /\ time - heard[a] < TICK_MOD
      BY <3>2, <3>3, TableAssumption, ClockAssumption
    <3>7. QED
      BY <3>4, <3>5, <3>6, Reduced, TableAssumption, ClockAssumption
  <2>3. \A a \in DOMAIN neighborTable_ : time - heard[a] \in Int
    <3>1. DOMAIN neighborTable_ \in SUBSET Address
      BY <1>1, TableDomain DEF IInv, TypeOK
    <3>2. QED
      BY <1>1, <3>1, TableAssumption, ClockAssumption DEF IInv, TypeOK, Never
  <2>4. QED
    BY <2>1, <2>2, <2>3, TableAssumption, ClockAssumption DEF Outlived, CleanupIsExact
<1>2. QED
  BY <1>1, Invariance, PTL

=============================================================================
