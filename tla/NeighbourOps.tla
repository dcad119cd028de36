----------------------------- MODULE NeighbourOps -----------------------------
(****************************************************************************)
(* The table of the devices heard recently, as a value (include/fanet/      *)
(* neighbourTable.hpp). The vector of {address, lastSeen} pairs is a        *)
(* function from the addresses in it to their lastSeen: addOrUpdate looks   *)
(* an address up before it adds it, so that an address occurs once. The     *)
(* vector's order decides one thing only, which of several equally old      *)
(* entries removeOldest takes; here it may be any of them.                  *)
(*                                                                          *)
(* The operators After... give the table, or the possible tables, after a   *)
(* call. NeighbourTable is the class on its own; Protocol uses the          *)
(* operators in its handlers, which make several calls in one step.         *)
(****************************************************************************)
EXTENDS Integers, FiniteSets, Functions

CONSTANTS
    Address,                    \* The devices
    FANET_MAX_NEIGHBORS,        \* Capacity of the vector
    NEIGHBOR_MAX_TIMEOUT_MS,    \* A device silent for longer is outdated
    TICK_MOD                    \* Ticks are uint32_t: 2^32 in the code

ASSUME TableAssumption ==
    /\ IsFiniteSet(Address)
    /\ FANET_MAX_NEIGHBORS \in Nat \ {0}
    /\ NEIGHBOR_MAX_TIMEOUT_MS \in Nat
    /\ TICK_MOD \in Nat \ {0}

Ticks == 0 .. (TICK_MOD - 1)
Tables == UNION {[S -> Ticks] : S \in SUBSET Address}
NoNeighbours == [a \in {} |-> 0]

Full(table) == Cardinality(DOMAIN table) = FANET_MAX_NEIGHBORS

\* lastSeen(): 0 when the address is not in the table.
LastSeen(table, a) == IF a \in DOMAIN table THEN table[a] ELSE 0

AfterRemove(table, a) == Restrict(table, DOMAIN table \ {a})

\* A mutant: the comparison is the wrong way round.
Newest(table) == {a \in DOMAIN table : \A b \in DOMAIN table : table[a] >= table[b]}

\* removeOldest() compares the ticks as numbers.
Oldest(table) == {a \in DOMAIN table : \A b \in DOMAIN table : table[a] <= table[b]}
AfterRemoveOldest(table) ==
    IF DOMAIN table = {} THEN {table} ELSE {AfterRemove(table, a) : a \in Oldest(table)}

\* Mutants: no room is made; the lastSeen of a known device is left alone.
AddWithoutRoom(table, a, tick) ==
    {[b \in DOMAIN table \cup {a} |-> IF b = a THEN tick ELSE table[b]]}
AddKnown(table, a, tick) ==
    [b \in DOMAIN table \cup {a} |-> IF b \in DOMAIN table THEN table[b] ELSE tick]

\* addOrUpdate() makes room first, whether the address is new or not.
WithEntry(table, a, tick) ==
    [b \in DOMAIN table \cup {a} |-> IF b = a THEN tick ELSE table[b]]
AfterAddOrUpdate(table, a, tick) ==
    {WithEntry(room, a, tick) :
        room \in IF Full(table) THEN AfterRemoveOldest(table) ELSE {table}}

\* A mutant: the difference does not wrap.
OutdatedAsNumbers(table, tick) ==
    Restrict(table, {a \in DOMAIN table : tick - table[a] <= NEIGHBOR_MAX_TIMEOUT_MS})

\* removeOutdated() subtracts the ticks as uint32_t.
AfterRemoveOutdated(table, tick) ==
    Restrict(table, {a \in DOMAIN table :
                        (tick - table[a]) % TICK_MOD <= NEIGHBOR_MAX_TIMEOUT_MS})

=============================================================================
