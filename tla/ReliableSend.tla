----------------------------- MODULE ReliableSend -----------------------------
(****************************************************************************)
(* What the protocol promises an application that asks for an ACK: a        *)
(* message it took over is sent at most RETRYS times and is dropped only    *)
(* when a device it is addressed to has sent an ACK, or when all its        *)
(* transmissions were made. Nothing else ends its waiting, but a restart.   *)
(* A message that finds no room is never taken over (a stuttering step).    *)
(*                                                                          *)
(* Protocol implements this specification while the address of the device   *)
(* stays the same and the packets are strict.                               *)
(****************************************************************************)
EXTENDS Naturals, FiniteSets, Functions

CONSTANTS
    Messages,       \* Names of messages, one for each submission
    Address,        \* Where they may go
    RETRYS          \* Transmissions of a message

VARIABLES
    waiting         \* Message -> where it goes and how often it was sent

Init == waiting = [m \in {} |-> 0]

Exhausted == {m \in DOMAIN waiting : waiting[m].attempts = RETRYS}

-----------------------------------------------------------------------------

(* A message is taken over. *)
Accept(m, a) ==
    /\ m \notin DOMAIN waiting
    /\ waiting' = [k \in DOMAIN waiting \cup {m} |->
                      IF k = m THEN [to |-> a, attempts |-> 0] ELSE waiting[k]]

(* An ACK settles everything that waits for the device it comes from. *)
Confirm(a) ==
    waiting' = Restrict(waiting, {m \in DOMAIN waiting : waiting[m].to # a})

(* Some exhausted messages are given up; one of the others may be sent. *)
GiveUp(gone) == waiting' = Restrict(waiting, DOMAIN waiting \ gone)
Attempt(gone, m) ==
    waiting' = [k \in DOMAIN waiting \ gone |->
                   IF k = m THEN [waiting[k] EXCEPT !.attempts = @ + 1]
                   ELSE waiting[k]]

(* The protocol is initialised again. *)
Reset == waiting' = [m \in {} |-> 0]

Next ==
    \/ \E m \in Messages, a \in Address : Accept(m, a)
    \/ \E a \in Address : Confirm(a)
    \/ \E gone \in SUBSET Exhausted : GiveUp(gone)
    \/ \E gone \in SUBSET Exhausted : \E m \in DOMAIN waiting \ Exhausted :
            Attempt(gone, m)
    \/ Reset

Spec == Init /\ [][Next]_waiting

=============================================================================
