------------------------------ MODULE Broadcast ------------------------------
(***************************************************************************)
(* What the hub promises its users when one worker runs it: one log of     *)
(* messages, which each client receives in the order of the log, whole and *)
(* without repetition, from the place where it joined until its connection *)
(* breaks.                                                                 *)
(***************************************************************************)
EXTENDS Naturals, Sequences

CONSTANTS Client, Content

VARIABLES
    log,     \* all that has been sent, in order
    first,   \* the place in the log of the first message of each client; 0: not joined
    live,    \* the clients that have joined and whose connection is up
    got      \* what each client has received

bvars == <<log, first, live, got>>

BroadcastInit ==
    /\ log = <<>> /\ live = {}
    /\ first = [c \in Client |-> 0] /\ got = [c \in Client |-> <<>>]

Join(c) ==
    /\ first[c] = 0
    /\ first' = [first EXCEPT ![c] = Len(log) + 1]
    /\ live' = live \union {c}
    /\ UNCHANGED <<log, got>>

Send(m) == log' = Append(log, m) /\ UNCHANGED <<first, live, got>>

\* The place in the log of the message that c receives next.
Upcoming(c) == first[c] + Len(got[c])

Receive(c) ==
    /\ c \in live /\ Upcoming(c) <= Len(log)
    /\ got' = [got EXCEPT ![c] = Append(@, log[Upcoming(c)])]
    /\ UNCHANGED <<log, first, live>>

Break(c) == c \in live /\ live' = live \ {c} /\ UNCHANGED <<log, first, got>>

BroadcastNext ==
    \/ \E m \in Content : Send(m)
    \/ \E c \in Client : Join(c) \/ Receive(c) \/ Break(c)

\* The promise of safety, and with fairness that of delivery.
BroadcastSpec == BroadcastInit /\ [][BroadcastNext]_bvars
FairBroadcastSpec == BroadcastSpec /\ \A c \in Client : WF_bvars(Receive(c))

=============================================================================
