---------------------------- MODULE NeighbourLemmas ----------------------------
(****************************************************************************)
(* What the operators on tables of neighbours preserve, for any devices and *)
(* any capacity, and the facts about numbers reduced modulo M, as the       *)
(* uint32_t ticks are, that this rests on.                                  *)
(****************************************************************************)
EXTENDS NeighbourOps, FiniteSetTheorems, TLAPS

(* Division with remainder. *)
LEMMA Division ==
    ASSUME NEW x \in Int, NEW M \in Nat \ {0}
    PROVE  /\ x \div M \in Int /\ x % M \in Int
           /\ 0 <= x % M /\ x % M < M
           /\ x = M * (x \div M) + (x % M)
  OBVIOUS

(* The remainder is determined by its range. *)
LEMMA Remainder ==
    ASSUME NEW q \in Int, NEW r \in Int, NEW M \in Nat \ {0}, 0 <= r, r < M
    PROVE  (M * q + r) % M = r
  OBVIOUS

(* Going round does not change the remainder. *)
LEMMA GoingRound ==
    ASSUME NEW k \in Int, NEW r \in Int, NEW M \in Nat \ {0}
    PROVE  (M * k + r) % M = r % M
<1> DEFINE q == r \div M
           s == r % M
<1>1. q \in Int /\ s \in Int /\ 0 <= s /\ s < M /\ r = M * q + s
  BY Division
<1> HIDE DEF q, s
<1>2. M * k + r = M * (k + q) + s
  BY <1>1
<1>3. k + q \in Int
  BY <1>1
<1>4. (M * (k + q) + s) % M = s
  BY <1>1, <1>3, Remainder
<1>5. QED
  BY <1>2, <1>4 DEF s

(* The difference of two ticks is the difference of the times they stand    *)
(* for, reduced.                                                            *)
LEMMA TickDifference ==
    ASSUME NEW a \in Int, NEW b \in Int, NEW M \in Nat \ {0}
    PROVE  ((a % M) - (b % M)) % M = (a - b) % M
<1> DEFINE p == a \div M
           q == b \div M
           r == a % M
           s == b % M
<1>1. /\ p \in Int /\ r \in Int /\ a = M * p + r
      /\ q \in Int /\ s \in Int /\ b = M * q + s
  BY Division
<1> HIDE DEF p, q, r, s
<1>2. a - b = M * (p - q) + (r - s)
  BY <1>1
<1>3. p - q \in Int /\ r - s \in Int
  BY <1>1
<1>4. (M * (p - q) + (r - s)) % M = (r - s) % M
  BY <1>3, GoingRound
<1>5. QED
  BY <1>2, <1>4 DEF r, s

(* Two times counted from the same start. *)
LEMMA ElapsedTicks ==
    ASSUME NEW s \in Int, NEW t \in Int, NEW u \in Int, NEW M \in Nat \ {0}
    PROVE  (((s + t) % M) - ((s + u) % M)) % M = (t - u) % M
<1> DEFINE a == s + t
           b == s + u
<1>1. a \in Int /\ b \in Int /\ a - b = t - u
  OBVIOUS
<1> HIDE DEF a, b
<1>2. ((a % M) - (b % M)) % M = (a - b) % M
  BY <1>1, TickDifference
<1>3. QED
  BY <1>1, <1>2 DEF a, b

(* A number in range is its own remainder, and the remainder of a natural   *)
(* number does not exceed it.                                               *)
LEMMA Reduced ==
    ASSUME NEW n \in Nat, NEW M \in Nat \ {0}
    PROVE  /\ n % M \in 0 .. (M - 1)
           /\ n % M <= n
           /\ n < M => n % M = n
  OBVIOUS

-----------------------------------------------------------------------------

(* A time reduced to a tick. *)
LEMMA ModFacts ==
    ASSUME NEW n \in Nat
    PROVE  /\ n % TICK_MOD \in Ticks
           /\ n < TICK_MOD => n % TICK_MOD = n
  BY Reduced, TableAssumption DEF Ticks

(* A table in the domain Tables maps some addresses to ticks. *)
LEMMA TableDomain ==
    ASSUME NEW table \in Tables
    PROVE  /\ DOMAIN table \in SUBSET Address
           /\ table \in [DOMAIN table -> Ticks]
           /\ IsFiniteSet(DOMAIN table)
<1>1. PICK S \in SUBSET Address : table \in [S -> Ticks]
  BY DEF Tables
<1>2. IsFiniteSet(S)
  BY FS_Subset, TableAssumption
<1>3. QED
  BY <1>1, <1>2

(* removeOldest() on a table that is not empty takes out one device. *)
LEMMA RemoveOldestProperties ==
    ASSUME NEW table \in Tables, Full(table), NEW room \in AfterRemoveOldest(table)
    PROVE  \E a \in Oldest(table) :
                /\ a \in DOMAIN table
                /\ room = AfterRemove(table, a)
                /\ room \in Tables
                /\ DOMAIN room = DOMAIN table \ {a}
                /\ Cardinality(DOMAIN room) = FANET_MAX_NEIGHBORS - 1
<1>1. DOMAIN table # {}
  BY FS_EmptySet, TableAssumption DEF Full
<1>2. PICK a \in Oldest(table) : room = AfterRemove(table, a)
  BY <1>1 DEF AfterRemoveOldest
<1>3. a \in DOMAIN table
  BY <1>2 DEF Oldest
<1>4. DOMAIN room = DOMAIN table \ {a} /\ room \in [DOMAIN table \ {a} -> Ticks]
  BY <1>2, TableDomain DEF AfterRemove, Restrict
<1>5. room \in Tables
  BY <1>4, TableDomain DEF Tables
<1>6. Cardinality(DOMAIN room) = FANET_MAX_NEIGHBORS - 1
  BY <1>3, <1>4, TableDomain, FS_RemoveElement DEF Full
<1>7. QED
  BY <1>2, <1>3, <1>4, <1>5, <1>6

(* After addOrUpdate() the device is in the table with the tick, and of the *)
(* others all but the one taken out of a full table are there as before.    *)
LEMMA AddOrUpdateProperties ==
    ASSUME NEW table \in Tables, Cardinality(DOMAIN table) <= FANET_MAX_NEIGHBORS,
           NEW a \in Address, NEW tick \in Ticks,
           NEW new \in AfterAddOrUpdate(table, a, tick)
    PROVE  /\ new \in Tables
           /\ Cardinality(DOMAIN new) <= FANET_MAX_NEIGHBORS
           /\ a \in DOMAIN new /\ new[a] = tick
           /\ \A b \in DOMAIN new \ {a} : b \in DOMAIN table /\ new[b] = table[b]
           /\ \A b \in DOMAIN table \ DOMAIN new : Full(table) /\ b \in Oldest(table)
<1>1. PICK room \in IF Full(table) THEN AfterRemoveOldest(table) ELSE {table} :
            new = WithEntry(room, a, tick)
  BY DEF AfterAddOrUpdate
<1>2. /\ room \in Tables
      /\ Cardinality(DOMAIN room) < FANET_MAX_NEIGHBORS
      /\ DOMAIN room \subseteq DOMAIN table
      /\ \A b \in DOMAIN room : room[b] = table[b]
      /\ \A b \in DOMAIN table \ DOMAIN room : Full(table) /\ b \in Oldest(table)
  <2>1. CASE Full(table)
    <3>1. PICK o \in Oldest(table) :
                /\ o \in DOMAIN table
                /\ room = AfterRemove(table, o)
                /\ room \in Tables
                /\ DOMAIN room = DOMAIN table \ {o}
                /\ Cardinality(DOMAIN room) = FANET_MAX_NEIGHBORS - 1
      BY <1>1, <2>1, RemoveOldestProperties
    <3>2. \A b \in DOMAIN room : room[b] = table[b]
      BY <3>1 DEF AfterRemove, Restrict
    <3>3. QED
      BY <2>1, <3>1, <3>2, TableAssumption
  <2>2. CASE ~Full(table)
    <3>1. room = table
      BY <1>1, <2>2
    <3>2. Cardinality(DOMAIN table) \in Nat
      BY TableDomain, FS_CardinalityType
    <3>3. QED
      BY <2>2, <3>1, <3>2, TableAssumption DEF Full
  <2>3. QED
    BY <2>1, <2>2
<1>3. /\ DOMAIN room \in SUBSET Address /\ room \in [DOMAIN room -> Ticks]
      /\ IsFiniteSet(DOMAIN room) /\ Cardinality(DOMAIN room) \in Nat
  BY <1>2, TableDomain, FS_CardinalityType
<1>4. DOMAIN new = DOMAIN room \cup {a} /\ new \in [DOMAIN room \cup {a} -> Ticks]
  BY <1>1, <1>3 DEF WithEntry
<1>5. new \in Tables
  BY <1>3, <1>4 DEF Tables
<1>6. Cardinality(DOMAIN new) <= FANET_MAX_NEIGHBORS
  <2>1. Cardinality(DOMAIN room \cup {a}) <= Cardinality(DOMAIN room) + 1
    BY <1>3, FS_AddElement
  <2>2. QED
    BY <1>2, <1>3, <1>4, <2>1, FS_AddElement, FS_CardinalityType, TableAssumption
<1>7. new[a] = tick /\ \A b \in DOMAIN room \ {a} : new[b] = room[b]
  BY <1>1 DEF WithEntry
<1>8. QED
  BY <1>2, <1>4, <1>5, <1>6, <1>7

(* Taking devices out keeps a table a table. *)
LEMMA RestrictProperties ==
    ASSUME NEW table \in Tables, Cardinality(DOMAIN table) <= FANET_MAX_NEIGHBORS,
           NEW S \in SUBSET DOMAIN table
    PROVE  /\ Restrict(table, S) \in Tables
           /\ Cardinality(DOMAIN Restrict(table, S)) <= FANET_MAX_NEIGHBORS
           /\ DOMAIN Restrict(table, S) = S
           /\ \A b \in S : Restrict(table, S)[b] = table[b]
<1>1. /\ DOMAIN Restrict(table, S) = S
      /\ \A b \in S : Restrict(table, S)[b] = table[b]
  BY DEF Restrict
<1>2. Restrict(table, S) \in [S -> Ticks]
  BY TableDomain DEF Restrict
<1>3. S \in SUBSET Address
  BY TableDomain
<1>4. Restrict(table, S) \in Tables
  BY <1>2, <1>3 DEF Tables
<1>5. /\ Cardinality(S) <= Cardinality(DOMAIN table)
      /\ Cardinality(S) \in Nat /\ Cardinality(DOMAIN table) \in Nat
  BY TableDomain, FS_Subset, FS_CardinalityType
<1>6. QED
  BY <1>1, <1>4, <1>5, TableAssumption

-----------------------------------------------------------------------------

(* The empty table. *)
LEMMA EmptyTable ==
    /\ NoNeighbours \in Tables
    /\ Cardinality(DOMAIN NoNeighbours) <= FANET_MAX_NEIGHBORS
    /\ DOMAIN NoNeighbours = {}
<1>1. NoNeighbours \in [{} -> Ticks]
  BY DEF NoNeighbours
<1>2. NoNeighbours \in Tables
  BY <1>1 DEF Tables
<1>3. DOMAIN NoNeighbours = {}
  BY DEF NoNeighbours
<1>4. QED
  BY <1>2, <1>3, FS_EmptySet, TableAssumption

=============================================================================
