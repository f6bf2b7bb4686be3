----------------------------- MODULE HubChannel ------------------------------
(***************************************************************************)
(* The hub as its users see it.  Two history variables are added to        *)
(* Propagator: the log of what was written to all of share_, in the order  *)
(* in which exec_to_all took share_, and the place in it at which each     *)
(* session joined.  They show that the hub of one worker is a Broadcast.   *)
(***************************************************************************)
EXTENDS Propagator

VARIABLES
    log,     \* history: the messages and answers relayed to all
    first    \* history: the place in the log from which each session is in share_

hvars == <<vars, log, first>>

\* The messages that users see in an order: what was relayed, and the echo's answers.
Recorded(m) == m.type \in {"relay", "reply"}
Relayed == [type : {"relay", "reply"}, from : Author, n : 0 .. MaxMessages]

\* Worker w is about to take share_ for a message that belongs in the log.
Publishes(w) == Recorded(frame[w].note) /\ Snapshot(w)

Logged ==
    IF \E w \in Worker : Publishes(w)
    THEN \E w \in Worker : Publishes(w) /\ log' = Append(log, frame[w].note)
    ELSE UNCHANGED log

Placed ==
    first' = [s \in Session |->
                IF s \in share_' \ share_ THEN Len(log) + 1 ELSE first[s]]

HubInit == Init /\ log = <<>> /\ first = [s \in Session |-> 0]
HubNext == Next /\ Logged /\ Placed

HubSpec == HubInit /\ [][HubNext]_hvars
FairHubSpec == HubSpec /\ Fairness

-----------------------------------------------------------------------------
\* The sessions that have joined and whose stream is up.
Live == {s \in Session : first[s] # 0 /\ stream[s] = "open"}

Channel == INSTANCE Broadcast WITH Client <- Session, Content <- Relayed, live <- Live

(***************************************************************************)
(* With one worker every client receives what was relayed since it joined, *)
(* all of it, once, and in the order common to all, until its stream       *)
(* breaks: exec_to_all posts to each strand, Session_Base::writing and     *)
(* on_write keep the order, whatever else is posted in between.            *)
(***************************************************************************)
ImplementsBroadcast == Channel!BroadcastSpec

\* ... and receives in the end all that was relayed, while its stream is up.
ImplementsFairBroadcast == Channel!FairBroadcastSpec

=============================================================================
