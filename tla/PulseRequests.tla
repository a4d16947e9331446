---------------------------- MODULE PulseRequests ----------------------------
(***************************************************************************)
(* What the fuel schedules promise the main loop: an injector opens only   *)
(* for a request that was accepted and has not been used up, a schedule    *)
(* owes at most two pulses (the one it is set to and the one queued after  *)
(* it), and it is closed before it opens for the pulse that was queued.    *)
(***************************************************************************)
EXTENDS Naturals

CONSTANT Channel

VARIABLES
    owed,       \* the number of pulses that a channel still has to start
    injecting   \* the channels whose injectors are open

Init ==
    /\ owed = [c \in Channel |-> 0]
    /\ injecting = {}

\* A further pulse is asked for.  (A request that replaces one that has not
\* started yet changes nothing here.)
Accept(c) ==
    /\ owed[c] < 2
    /\ owed' = [owed EXCEPT ![c] = @ + 1]
    /\ UNCHANGED injecting

Open(c) ==
    /\ owed[c] > 0
    /\ owed' = [owed EXCEPT ![c] = @ - 1]
    /\ injecting' = injecting \cup {c}

Close(c) ==
    /\ c \in injecting
    /\ injecting' = injecting \ {c}
    /\ UNCHANGED owed

Next == \E c \in Channel : Accept(c) \/ Open(c) \/ Close(c)

Spec == Init /\ [][Next]_<<owed, injecting>>
=============================================================================
