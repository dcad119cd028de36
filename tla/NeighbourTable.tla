---------------------------- MODULE NeighbourTable ----------------------------
(****************************************************************************)
(* The table of neighbours on its own: any of its operations at any time.   *)
(****************************************************************************)
EXTENDS NeighbourOps

CONSTANTS
    BootTicks,      \* What the clock may show at the start
    MAX_TIME        \* Bound of the model: how long it runs

ASSUME ClockAssumption ==
    /\ BootTicks \subseteq Ticks
    /\ MAX_TIME \in Nat

VARIABLES
    neighborTable_,     \* Address -> lastSeen, for the addresses in the table
    boot,               \* The tick the clock started from
    time,               \* Milliseconds since then, never wraps
    heard               \* History: when each address was last added

vars == <<neighborTable_, boot, time, heard>>

Never == -1

\* What fanet_getTick() returns t milliseconds after the start.
TickAt(t) == (boot + t) % TICK_MOD

-----------------------------------------------------------------------------

Init ==
    /\ neighborTable_ = NoNeighbours
    /\ boot \in BootTicks
    /\ time = 0
    /\ heard = [a \in Address |-> Never]

AddOrUpdate(a) ==
    /\ neighborTable_' \in AfterAddOrUpdate(neighborTable_, a, TickAt(time))
    /\ heard' = [heard EXCEPT ![a] = time]
    /\ UNCHANGED <<boot, time>>

Remove(a) ==
    /\ neighborTable_' = AfterRemove(neighborTable_, a)
    /\ heard' = [heard EXCEPT ![a] = Never]
    /\ UNCHANGED <<boot, time>>

RemoveOutdated ==
    /\ neighborTable_' = AfterRemoveOutdated(neighborTable_, TickAt(time))
    /\ UNCHANGED <<boot, time, heard>>

Clear ==
    /\ neighborTable_' = NoNeighbours
    /\ heard' = [a \in Address |-> Never]
    /\ UNCHANGED <<boot, time>>

TimePasses ==
    /\ time < MAX_TIME
    /\ time' = time + 1
    /\ UNCHANGED <<neighborTable_, boot, heard>>

Next ==
    \/ \E a \in Address : AddOrUpdate(a) \/ Remove(a)
    \/ RemoveOutdated
    \/ Clear
    \/ TimePasses

Spec == Init /\ [][Next]_vars

-----------------------------------------------------------------------------

(* Every variable has its type; the vector never exceeds its capacity.      *)
TypeOK ==
    /\ neighborTable_ \in Tables
    /\ Cardinality(DOMAIN neighborTable_) <= FANET_MAX_NEIGHBORS
    /\ boot \in Ticks
    /\ time \in 0 .. MAX_TIME
    /\ heard \in [Address -> {Never} \cup 0 .. MAX_TIME]

(* An entry tells when the device was heard last, not when it was heard     *)
(* first or when some other device was.                                     *)
EntriesAreCurrent ==
    \A a \in DOMAIN neighborTable_ :
        /\ heard[a] # Never
        /\ neighborTable_[a] = TickAt(heard[a])

\* Silent for longer than the timeout, in real time.
Outlived(a) == time - heard[a] > NEIGHBOR_MAX_TIMEOUT_MS

\* Taken out by a step, though nobody asked for it and it is not outdated.
Evicted(a) ==
    /\ a \in DOMAIN neighborTable_ \ DOMAIN neighborTable_'
    /\ heard'[a] # Never
    /\ ~Outlived(a)

(* A device still in reach is forgotten only by a full table, and then the  *)
(* one heard longest ago goes. This ends with the wrap of the clock, after  *)
(* which removeOldest takes the larger ticks for the later ones.            *)
EvictsLeastRecent ==
    [][ \A a \in Address : Evicted(a) =>
            /\ Full(neighborTable_)
            /\ boot + time < TICK_MOD =>
                \A b \in DOMAIN neighborTable_ : heard[a] <= heard[b] ]_vars

(* Whenever it is called, the cleanup forgets exactly the devices that have *)
(* been silent for too long, also when the clock wrapped after they were    *)
(* heard.                                                                   *)
CleanupIsExact ==
    DOMAIN AfterRemoveOutdated(neighborTable_, TickAt(time))
        = {a \in DOMAIN neighborTable_ : ~Outlived(a)}

=============================================================================
