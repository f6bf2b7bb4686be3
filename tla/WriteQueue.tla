------------------------------ MODULE WriteQueue ------------------------------
(***************************************************************************)
(* The write side every transport of the daemon has (websocket and TCP     *)
(* sessions, TCP and UDP clients, UDP servers, serial ports): write()      *)
(* posts a handler, writing() queues the data and starts a write if none   *)
(* is on its way, on_write() drops what was written and starts the next.   *)
(* The definitions are read from the TCP session; its strand makes each    *)
(* handler one step.                                                       *)
(***************************************************************************)
EXTENDS Naturals, Sequences

CONSTANTS
    Data,        \* what callers write
    MaxWrites    \* bound on the calls of write() (for model checking)

ASSUME MaxWritesAssumption == MaxWrites \in Nat

VARIABLES
    posted,       \* data of the handlers posted to the strand, oldest first
    queue_,       \* data accepted by writing()
    outstanding,  \* the async_write operations that have not completed
    up,           \* FALSE once the connection has broken or was closed
    accepted,     \* history: the data given to write()
    sent          \* history: the data the peer got

vars == <<posted, queue_, outstanding, up, accepted, sent>>

Channel == INSTANCE FifoChannel

\* The tests of writing() and on_write(), each after a bug a property rules out.
AlwaysStarts(q) == TRUE
StartsWrite(q) == Len(q) <= 1

NeverContinues(q) == FALSE
ContinuesWrite(q) == q # <<>>

PushFront(q, d) == <<d>> \o q
PushBack(q, d) == Append(q, d)

\* do_write(): async_write of the front of the queue, if the test says so.
DoWriteIf(test) == outstanding' = outstanding + IF test THEN 1 ELSE 0

Init ==
    /\ posted = <<>> /\ queue_ = <<>> /\ outstanding = 0
    /\ up = TRUE
    /\ accepted = <<>> /\ sent = <<>>

\* write(), from any thread.
Write(d) ==
    /\ Len(accepted) < MaxWrites
    /\ posted' = Append(posted, d)
    /\ accepted' = Append(accepted, d)
    /\ UNCHANGED <<queue_, outstanding, up, sent>>

\* writing(), on the strand.
Writing ==
    /\ posted # <<>>
    /\ posted' = Tail(posted)
    /\ queue_' = PushBack(queue_, Head(posted))
    /\ DoWriteIf(StartsWrite(queue_'))
    /\ UNCHANGED <<up, accepted, sent>>

\* on_write() without error: the peer has the front of the queue.
OnWriteOk ==
    /\ outstanding > 0 /\ up
    /\ sent' = Append(sent, Head(queue_))
    /\ queue_' = Tail(queue_)
    /\ outstanding' = outstanding - 1 + IF ContinuesWrite(queue_') THEN 1 ELSE 0
    /\ UNCHANGED <<posted, up, accepted>>

\* on_write() with an error: fail(), and the queue keeps what it holds.
OnWriteError ==
    /\ outstanding > 0
    /\ up' = FALSE
    /\ outstanding' = outstanding - 1
    /\ UNCHANGED <<posted, queue_, accepted, sent>>

\* The connection ends otherwise: a failed read, or closing().
GoDown ==
    /\ up /\ up' = FALSE
    /\ UNCHANGED <<posted, queue_, outstanding, accepted, sent>>

Next ==
    \/ \E d \in Data : Write(d)
    \/ Writing
    \/ OnWriteOk
    \/ OnWriteError
    \/ GoDown

Spec == Init /\ [][Next]_vars

\* A posted handler runs; an async_write completes, one way or the other.
Fairness == WF_vars(Writing) /\ WF_vars(OnWriteOk \/ OnWriteError)
FairSpec == Spec /\ Fairness

-----------------------------------------------------------------------------
\* Every variable holds a value of its kind.
TypeOK ==
    /\ posted \in Seq(Data)
    /\ queue_ \in Seq(Data)
    /\ outstanding \in Nat
    /\ up \in BOOLEAN
    /\ accepted \in Seq(Data)
    /\ sent \in Seq(Data)

(***************************************************************************)
(* async_write must not be started while another one is on its way, and a  *)
(* queue with data in it must have one on its way: writing() after a       *)
(* failed on_write() must not restart, on_write() must not forget to.      *)
(***************************************************************************)
OneWrite ==
    /\ outstanding <= 1
    /\ queue_ = <<>> => outstanding = 0
    /\ up /\ queue_ # <<>> => outstanding = 1

\* Nothing written is lost, repeated or moved between write() and the wire.
Conserved == accepted = sent \o (queue_ \o posted)

\* The write side is a FIFO channel.
ImplementsChannel == Channel!ChannelSpec

\* ... that delivers all it has accepted while the connection lasts.
ImplementsFairChannel == Channel!FairChannelSpec

=============================================================================
