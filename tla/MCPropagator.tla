---------------------------- MODULE MCPropagator ----------------------------
(***************************************************************************)
(* Propagator on small instances.  Spec starts from the empty hub;         *)
(* ConnectedSpec starts when every session has connected, one after the    *)
(* other, and has received all the daemon wrote: a state of Spec, from     *)
(* which the runs go on to more messages and disconnects.                  *)
(***************************************************************************)
EXTENDS Propagator, TLC

\* Sessions and workers are interchangeable.
Symmetry == Permutations(Session) \union Permutations(Worker)

Rank == CHOOSE f \in [Session -> 1..Cardinality(Session)] :
            \A s, t \in Session : f[s] = f[t] => s = t

ConnectedInit ==
    /\ conn = [s \in Session |-> "open"]
    /\ stream = [s \in Session |-> "open"]
    /\ reading = [s \in Session |-> TRUE]
    /\ posted = [s \in Session |-> <<>>]
    /\ queue_ = [s \in Session |-> <<>>]
    /\ sending = [s \in Session |-> FALSE]
    /\ share_ = Session
    /\ userid = Cardinality(Session) + 1
    /\ frame = [w \in Worker |-> Idle]
    /\ uid = Rank
    /\ sent = [a \in Author |-> 0]
    /\ got = [s \in Session |-> <<>>]
    /\ shown = [s \in Session |-> Cardinality(Session)]
    /\ notices = [s \in Session |-> 0]

ConnectedSpec == ConnectedInit /\ [][Next]_vars /\ Fairness

=============================================================================
