------------------------------ MODULE Propagator ------------------------------
(***************************************************************************)
(* The hub of the daemon: the websocket sessions of the users              *)
(* (Session_Base, Session_Static_Callback_Static_Share), the set share_    *)
(* they join and leave (Static_Shareable), and the callbacks of            *)
(* core/json/websocket_session.cpp that write to one or to all of them.    *)
(*                                                                         *)
(* Handlers run on Worker, the threads that call ioc.run().  Each session  *)
(* has a strand: at most one of its handlers runs at a time.  A handler    *)
(* that touches only its own session is one step; one that touches share_, *)
(* userid or other sessions is cut at each of these accesses.  With one    *)
(* worker every handler therefore runs to its end before the next starts.  *)
(***************************************************************************)
EXTENDS Integers, Sequences, FiniteSets

CONSTANTS
    Session,      \* connections a client may make, each used once
    Worker,       \* the threads that run the io_context
    Nobody,       \* the author of what the daemon itself writes
    Fault,        \* the failures the network may produce, a subset of AllFaults
    Input,        \* the kinds of messages that arrive, a subset of AllInputs
    MaxMessages,  \* bound on the messages each author has relayed
    UIntMod       \* 2^w for the w-bit unsigned int that holds the user count

\* What becomes of a message: "not_json" is not even relayed, the others are, and
\* then refused, handled by a silent app or by the echo app; "app_data" is what an
\* application relays by itself (a TCP, UDP or serial read).
AllInputs == {"not_json", "reject", "do_read", "echo_app", "app_data"}

AllFaults == {"accept_closed", "accept_error", "read_closed", "read_error",
              "write_error"}

ASSUME NobodyAssumption == Nobody \notin Session
ASSUME FaultAssumption  == Fault \subseteq AllFaults
ASSUME InputAssumption  == Input \subseteq AllInputs
ASSUME BoundAssumption  == MaxMessages \in Nat /\ UIntMod \in Nat \ {0}

VARIABLES
    conn,      \* life of each session object
    stream,    \* status of its websocket stream
    reading,   \* is an async_read_some outstanding?
    posted,    \* handlers of write() waiting on the strand
    queue_,    \* messages accepted by writing()
    sending,   \* is an async_write outstanding?
    share_,    \* the sessions that joined
    userid,    \* the UID counter
    frame,     \* what each worker executes
    uid,       \* history: the UID each session was given (0: none yet)
    sent,      \* history: messages of each author relayed to all
    got,       \* history: relayed messages each client has received, in order
    shown,     \* history: the last number of users each client was told
    notices    \* history: close notices each session has caused

net   == <<stream, reading, posted, queue_, sending>>
hist  == <<uid, sent, got, shown, notices>>
vars  == <<conn, net, share_, userid, frame, hist>>

Author == Session \union {Nobody}
MsgType == {"hello", "nusers", "error", "relay", "reply"}

\* A message: its author and the number it carries (user id, count, sequence number).
Msg == [type : MsgType, from : Author, n : Nat]
Message(t, a, k) == [type |-> t, from |-> a, n |-> k]

(***************************************************************************)
(* What a worker executes: the next statement, the session whose handler   *)
(* it is, the local user id or count, the message being written to all,    *)
(* the sessions of the snapshot still to visit, and what the handler does  *)
(* after the loop.                                                         *)
(***************************************************************************)
Point == {"idle", "load_uid", "store_uid", "open_count", "close_count",
          "snapshot", "visit", "leave"}
After == {"return", "do_read", "reject", "echo_app"}

Frame == [at : Point, ws : Author, val : Nat, note : Msg,
          todo : SUBSET Session, then : After]

Idle == [at |-> "idle", ws |-> Nobody, val |-> 0,
         note |-> Message("error", Nobody, 0), todo |-> {}, then |-> "return"]

Enter(point, s) == [Idle EXCEPT !.at = point, !.ws = s]
WriteAll(s, m, after) == [Enter("snapshot", s) EXCEPT !.note = m, !.then = after]

StrandFree(s) == \A w \in Worker : frame[w].ws # s
CanRun(w, s) == frame[w].at = "idle" /\ StrandFree(s)

\* Worker w has entered a handler of s and stands before the named statement.
At(w, s, point) == frame[w].ws = s /\ frame[w].at = point
LoopEnded(w, s, after) ==
    At(w, s, "visit") /\ frame[w].todo = {} /\ frame[w].then = after

\* The handlers, queued or outstanding, that hold a shared_ptr to session s.  A queue
\* whose entries held one too is a bug that is ruled out.
PendingOrQueued(s) ==
    conn[s] = "accepting" \/ reading[s] \/ sending[s] \/ posted[s] # <<>> \/ queue_[s] # <<>>
Pending(s) == conn[s] = "accepting" \/ reading[s] \/ sending[s] \/ posted[s] # <<>>
\* weak_ptr::lock() succeeds.  A destructor that has begun no longer counts.
RawPointer(s) == TRUE
Locked(s) == Pending(s) \/ \E w \in Worker : frame[w].ws = s /\ frame[w].at # "leave"

\* The unsigned arithmetic of send_status, the UID counter, the tests of the write
\* loop; the operator before each is a bug that some property rules out.
Signed(n) == n
Unsigned(n) == n % UIntMod

CountBeforeJoin == Unsigned(Cardinality(share_) - 1)
UsersOnOpen == Unsigned(Cardinality(share_))

UidKept(k) == k
NextUid(k) == k + 1

PushFront(q, m) == <<m>> \o q
PushBack(q, m) == Append(q, m)

AlwaysStarts(q) == TRUE
StartsWrite(q) == Len(q) <= 1

NeverContinues(q) == FALSE
ContinuesWrite(q) == q # <<>>

(***************************************************************************)
(* Leaving a handler releases its shared_ptr; the last one runs            *)
(* ~Session_Static_Callback_Static_Share on the same worker.               *)
(***************************************************************************)
Release(w, s) ==
    frame' = [frame EXCEPT ![w] = IF Pending(s)' THEN Idle ELSE Enter("leave", s)]

-----------------------------------------------------------------------------
\* The listener accepts a connection, builds the session and calls run().
Connect(s) ==
    /\ conn[s] = "none"
    /\ conn' = [conn EXCEPT ![s] = "accepting"]
    /\ UNCHANGED <<net, share_, userid, frame, hist>>

\* on_accept(): do_read(), then on_open() joins and calls the on_open callback.
OnAccept(w, s) ==
    /\ conn[s] = "accepting" /\ CanRun(w, s)
    /\ conn' = [conn EXCEPT ![s] = "open"]
    /\ reading' = [reading EXCEPT ![s] = TRUE]
    /\ share_' = share_ \union {s}
    /\ frame' = [frame EXCEPT ![w] = Enter("load_uid", s)]
    /\ UNCHANGED <<stream, posted, queue_, sending, userid, hist>>

\* fail() on error::closed: the peer left before the handshake.  on_close runs.
OnAcceptClosed(w, s) ==
    /\ "accept_closed" \in Fault
    /\ conn[s] = "accepting" /\ CanRun(w, s)
    /\ conn' = [conn EXCEPT ![s] = "refused"]
    /\ stream' = [stream EXCEPT ![s] = "closed"]
    /\ frame' = [frame EXCEPT ![w] = Enter("close_count", s)]
    /\ UNCHANGED <<reading, posted, queue_, sending, share_, userid, hist>>

\* fail() on any other error only prints.
OnAcceptError(w, s) ==
    /\ "accept_error" \in Fault
    /\ conn[s] = "accepting" /\ CanRun(w, s)
    /\ conn' = [conn EXCEPT ![s] = "refused"]
    /\ stream' = [stream EXCEPT ![s] = "failed"]
    /\ UNCHANGED <<reading, posted, queue_, sending, share_, userid, hist>>
    /\ Release(w, s)

\* userid++ is a load and a store: nothing orders those of two workers.
LoadUid(w, s) ==
    /\ At(w, s, "load_uid")
    /\ frame' = [frame EXCEPT ![w].val = userid, ![w].at = "store_uid"]
    /\ UNCHANGED <<conn, net, share_, userid, hist>>

\* The store, then send_uid and send_app_list: two posts on the own strand, which
\* nothing tells apart; one message stands for both.
StoreUid(w, s) ==
    LET k == frame[w].val
    IN  /\ At(w, s, "store_uid")
        /\ userid' = NextUid(k)
        /\ uid' = [uid EXCEPT ![s] = k]
        /\ posted' = [posted EXCEPT ![s] = Append(@, Message("hello", Nobody, k))]
        /\ frame' = [frame EXCEPT ![w] = Enter("open_count", s)]
        /\ UNCHANGED <<conn, stream, reading, queue_, sending, share_,
                       sent, got, shown, notices>>

\* on_open: get_num_shares() reads share_ without its mutex, send_status follows.
OpenCount(w, s) ==
    /\ At(w, s, "open_count")
    /\ frame' = [frame EXCEPT ![w] =
                    WriteAll(s, Message("nusers", Nobody, UsersOnOpen), "return")]
    /\ UNCHANGED <<conn, net, share_, userid, hist>>

\* on_close: the count of the others, in unsigned arithmetic.
CloseCount(w, s) ==
    LET k == Unsigned(Cardinality(share_) - 1)
    IN  /\ At(w, s, "close_count")
        /\ frame' = [frame EXCEPT ![w] =
                        WriteAll(s, Message("nusers", Nobody, k), "return")]
        /\ notices' = [notices EXCEPT ![s] = @ + 1]
        /\ UNCHANGED <<conn, net, share_, userid, uid, sent, got, shown>>

\* exec_to_all: weak pointers to all the shares, taken under the mutex.
Snapshot(w) ==
    /\ frame[w].at = "snapshot"
    /\ frame' = [frame EXCEPT ![w].todo = share_, ![w].at = "visit"]
    /\ UNCHANGED <<conn, net, share_, userid, hist>>

\* One turn of exec_to_all's loop: write() to r if it can still be locked.
Visit(w, r) ==
    /\ frame[w].at = "visit" /\ r \in frame[w].todo
    /\ frame' = [frame EXCEPT ![w].todo = @ \ {r}]
    /\ posted' = IF Locked(r)
                 THEN [posted EXCEPT ![r] = Append(@, frame[w].note)]
                 ELSE posted
    /\ UNCHANGED <<conn, stream, reading, queue_, sending, share_, userid, hist>>

\* The loop of send_status is over: on_open or on_close returns.
EndNotice(w, s) ==
    /\ LoopEnded(w, s, "return")
    /\ UNCHANGED <<conn, net, share_, userid, hist>>
    /\ Release(w, s)

-----------------------------------------------------------------------------
\* on_read with text that is no JSON object: fail_message to the sender, do_read.
OnReadNotJson(w, s) ==
    /\ reading[s] /\ stream[s] = "open" /\ CanRun(w, s)
    /\ "not_json" \in Input
    /\ posted[s] = <<>> /\ queue_[s] = <<>>      \* bound: one at a time
    /\ posted' = [posted EXCEPT ![s] = Append(@, Message("error", Nobody, 0))]
    /\ UNCHANGED <<conn, stream, reading, queue_, sending, share_, userid, frame, hist>>

\* on_message: the object is echoed to all before it is parsed and dispatched.
OnReadMessage(w, s, after) ==
    /\ reading[s] /\ stream[s] = "open" /\ CanRun(w, s)
    /\ sent[s] < MaxMessages
    /\ sent' = [sent EXCEPT ![s] = @ + 1]
    /\ reading' = [reading EXCEPT ![s] = FALSE]
    /\ frame' = [frame EXCEPT ![w] = WriteAll(s, Message("relay", s, sent'[s]), after)]
    /\ UNCHANGED <<conn, stream, posted, queue_, sending, share_, userid,
                   uid, got, shown, notices>>

\* Ill formed, or refused by its app: fail_message to the sender, then do_read.
Reject(w, s) ==
    /\ LoopEnded(w, s, "reject")
    /\ posted' = [posted EXCEPT ![s] = Append(@, Message("error", Nobody, 0))]
    /\ reading' = [reading EXCEPT ![s] = TRUE]
    /\ UNCHANGED <<conn, stream, queue_, sending, share_, userid, hist>>
    /\ Release(w, s)

\* Dispatched to the echo app: its answer goes to all.
EchoApp(w, s) ==
    /\ LoopEnded(w, s, "echo_app")
    /\ frame' = [frame EXCEPT ![w] =
                    WriteAll(s, Message("reply", s, frame[w].note.n), "do_read")]
    /\ UNCHANGED <<conn, net, share_, userid, hist>>

\* Dispatched to an app that has done its work: on_read ends with do_read.
EndRead(w, s) ==
    /\ LoopEnded(w, s, "do_read")
    /\ reading' = [reading EXCEPT ![s] = TRUE]
    /\ UNCHANGED <<conn, stream, posted, queue_, sending, share_, userid, hist>>
    /\ Release(w, s)

\* A handler of an application (a TCP, UDP or serial read) writes to all.
AppData(w) ==
    /\ "app_data" \in Input
    /\ frame[w].at = "idle" /\ sent[Nobody] < MaxMessages
    /\ \A v \in Worker : frame[v].note.type = "relay" => frame[v].ws # Nobody
    /\ sent' = [sent EXCEPT ![Nobody] = @ + 1]
    /\ frame' = [frame EXCEPT ![w] =
                    WriteAll(Nobody, Message("relay", Nobody, sent'[Nobody]), "return")]
    /\ UNCHANGED <<conn, net, share_, userid, uid, got, shown, notices>>

EndAppData(w) ==
    /\ LoopEnded(w, Nobody, "return")
    /\ frame' = [frame EXCEPT ![w] = Idle]
    /\ UNCHANGED <<conn, net, share_, userid, hist>>

\* The client closes the websocket: on_read gets error::closed, on_close runs.
OnReadClosed(w, s) ==
    /\ "read_closed" \in Fault
    /\ reading[s] /\ stream[s] = "open" /\ CanRun(w, s)
    /\ stream' = [stream EXCEPT ![s] = "closed"]
    /\ reading' = [reading EXCEPT ![s] = FALSE]
    /\ frame' = [frame EXCEPT ![w] = Enter("close_count", s)]
    /\ UNCHANGED <<conn, posted, queue_, sending, share_, userid, hist>>

\* The connection is reset or times out: on_error prints, nothing else.
OnReadError(w, s) ==
    /\ "read_error" \in Fault
    /\ reading[s] /\ stream[s] = "open" /\ CanRun(w, s)
    /\ stream' = [stream EXCEPT ![s] = "failed"]
    /\ reading' = [reading EXCEPT ![s] = FALSE]
    /\ UNCHANGED <<conn, posted, queue_, sending, share_, userid, hist>>
    /\ Release(w, s)

\* A write failed before: the read ends with operation_aborted, on_close runs.
OnReadAborted(w, s) ==
    /\ reading[s] /\ stream[s] # "open" /\ CanRun(w, s)
    /\ reading' = [reading EXCEPT ![s] = FALSE]
    /\ frame' = [frame EXCEPT ![w] = Enter("close_count", s)]
    /\ UNCHANGED <<conn, stream, posted, queue_, sending, share_, userid, hist>>

-----------------------------------------------------------------------------
\* The handler write() posted: push_back, and do_write() if it is alone.
Writing(w, s) ==
    /\ posted[s] # <<>> /\ CanRun(w, s)
    /\ posted' = [posted EXCEPT ![s] = Tail(@)]
    /\ queue_' = [queue_ EXCEPT ![s] = PushBack(@, Head(posted[s]))]
    /\ sending' = [sending EXCEPT ![s] = @ \/ StartsWrite(queue_'[s])]
    /\ UNCHANGED <<conn, stream, reading, share_, userid, hist>>
    /\ Release(w, s)

\* on_write without error: the client has the front, the next one is started.
OnWriteOk(w, s) ==
    LET m == Head(queue_[s])
    IN  /\ sending[s] /\ stream[s] = "open" /\ CanRun(w, s)
        /\ queue_' = [queue_ EXCEPT ![s] = Tail(@)]
        /\ sending' = [sending EXCEPT ![s] = ContinuesWrite(queue_'[s])]
        /\ got' = IF m.type \in {"relay", "reply"}
                  THEN [got EXCEPT ![s] = Append(@, m)] ELSE got
        /\ shown' = IF m.type = "nusers" THEN [shown EXCEPT ![s] = m.n] ELSE shown
        /\ UNCHANGED <<conn, stream, reading, posted, share_, userid, uid, sent, notices>>
        /\ Release(w, s)

\* The first error of the stream hits a write: printed, the queue is left as it is.
OnWriteError(w, s) ==
    /\ "write_error" \in Fault
    /\ sending[s] /\ stream[s] = "open" /\ CanRun(w, s)
    /\ stream' = [stream EXCEPT ![s] = "failed"]
    /\ sending' = [sending EXCEPT ![s] = FALSE]
    /\ UNCHANGED <<conn, reading, posted, queue_, share_, userid, hist>>
    /\ Release(w, s)

\* The stream is down: operation_aborted, so fail() runs on_close, a second time perhaps.
OnWriteAborted(w, s) ==
    /\ sending[s] /\ stream[s] # "open" /\ CanRun(w, s)
    /\ sending' = [sending EXCEPT ![s] = FALSE]
    /\ frame' = [frame EXCEPT ![w] = Enter("close_count", s)]
    /\ UNCHANGED <<conn, stream, reading, posted, queue_, share_, userid, hist>>

\* The destructor: leave(this), after which nothing of the session is left.
Leave(w, s) ==
    /\ At(w, s, "leave")
    /\ share_' = share_ \ {s}
    /\ conn' = [conn EXCEPT ![s] = "gone"]
    /\ queue_' = [queue_ EXCEPT ![s] = <<>>]
    /\ frame' = [frame EXCEPT ![w] = Idle]
    /\ UNCHANGED <<stream, reading, posted, sending, userid, hist>>

-----------------------------------------------------------------------------
Init ==
    /\ conn = [s \in Session |-> "none"]
    /\ stream = [s \in Session |-> "open"]
    /\ reading = [s \in Session |-> FALSE]
    /\ posted = [s \in Session |-> <<>>]
    /\ queue_ = [s \in Session |-> <<>>]
    /\ sending = [s \in Session |-> FALSE]
    /\ share_ = {}
    /\ userid = 1
    /\ frame = [w \in Worker |-> Idle]
    /\ uid = [s \in Session |-> 0]
    /\ sent = [a \in Author |-> 0]
    /\ got = [s \in Session |-> <<>>]
    /\ shown = [s \in Session |-> 0]
    /\ notices = [s \in Session |-> 0]

\* Handlers the network or a client triggers: nothing obliges them to happen.
Environment(w, s) ==
    \/ OnAcceptClosed(w, s)
    \/ OnAcceptError(w, s)
    \/ OnReadNotJson(w, s)
    \/ \E after \in Input \intersect After : OnReadMessage(w, s, after)
    \/ OnReadClosed(w, s)
    \/ OnReadError(w, s)
    \/ OnWriteError(w, s)

\* Handlers that are ready or bound to become so.
Handler(w, s) ==
    \/ OnAccept(w, s)
    \/ OnReadAborted(w, s)
    \/ Writing(w, s)
    \/ OnWriteOk(w, s)
    \/ OnWriteAborted(w, s)

\* The rest of a handler that a worker has entered.
Continue(w) ==
    \/ Snapshot(w)
    \/ EndAppData(w)
    \/ \E r \in Session : Visit(w, r)
    \/ \E s \in Session :
        \/ LoadUid(w, s)
        \/ StoreUid(w, s)
        \/ OpenCount(w, s)
        \/ CloseCount(w, s)
        \/ EndNotice(w, s)
        \/ Reject(w, s)
        \/ EchoApp(w, s)
        \/ EndRead(w, s)
        \/ Leave(w, s)

Next ==
    \/ \E s \in Session : Connect(s)
    \/ \E w \in Worker : AppData(w) \/ Continue(w)
    \/ \E w \in Worker, s \in Session : Environment(w, s) \/ Handler(w, s)

Spec == Init /\ [][Next]_vars

(***************************************************************************)
(* asio runs every handler that is ready, and a started handler returns.   *)
(* An async_write ends: the timeouts of set_run_options see to it.         *)
(***************************************************************************)
Fairness ==
    /\ \A w \in Worker : WF_vars(Continue(w))
    /\ \A s \in Session : WF_vars(\E w \in Worker : Handler(w, s))

FairSpec == Spec /\ Fairness

-----------------------------------------------------------------------------
\* Every variable holds a value of its kind.
TypeOK ==
    /\ conn \in [Session -> {"none", "accepting", "refused", "open", "gone"}]
    /\ stream \in [Session -> {"open", "closed", "failed"}]
    /\ reading \in [Session -> BOOLEAN]
    /\ posted \in [Session -> Seq(Msg)]
    /\ queue_ \in [Session -> Seq(Msg)]
    /\ sending \in [Session -> BOOLEAN]
    /\ share_ \subseteq Session
    /\ userid \in Nat
    /\ frame \in [Worker -> Frame]
    /\ uid \in [Session -> Nat]
    /\ sent \in [Author -> Nat]
    /\ got \in [Session -> Seq(Msg)]
    /\ shown \in [Session -> Nat]
    /\ notices \in [Session -> Nat]

(***************************************************************************)
(* A destroyed session is never touched again: it is in no share, no       *)
(* handler of it is queued, outstanding or running.  share_ holds plain    *)
(* pointers, so this rests on the destructor's leave() and on the weak     *)
(* pointers of exec_to_all, whatever other workers do in between.          *)
(***************************************************************************)
GoneIsSilent ==
    \A s \in Session :
        conn[s] = "gone" => ~Pending(s) /\ s \notin share_ /\ StrandFree(s)

(***************************************************************************)
(* The end of one session is announced at most twice: once by the read     *)
(* loop and once by the write loop (TODO.md, "2 messages been sent when    *)
(* some user disconnect from daemon").  Writing the announcement to the    *)
(* closed session itself must not cause further ones.                      *)
(***************************************************************************)
AtMostTwoNotices == \A s \in Session : notices[s] <= 2

\* What the daemon has written, or will write, to the client of r, in order.
Pipeline(r) == got[r] \o queue_[r] \o posted[r]

\* Of each author, every relayed message is followed by the next.
RelayOf(m, a) == m.type = "relay" /\ m.from = a
InSequence(p) ==
    \A a \in Author : \A i, j \in 1 .. Len(p) :
        /\ i < j /\ RelayOf(p[i], a) /\ RelayOf(p[j], a)
        /\ \A k \in 1 .. Len(p) : i < k /\ k < j => ~RelayOf(p[k], a)
        => p[j].n = p[i].n + 1

\* No answer of the echo app comes before the message it answers.
EchoFollows(p) ==
    \A i, j \in 1 .. Len(p) :
        i < j /\ p[i].type = "reply" /\ RelayOf(p[j], p[i].from) => p[i].n < p[j].n

(***************************************************************************)
(* From the time a client joins it receives the messages of each author    *)
(* without a gap, a repetition or a reordering, and no answer of the echo  *)
(* app before a message it answers, although handlers of other sessions    *)
(* post to its strand at the same time: on_read re-arms the read only      *)
(* after read_handler() has returned.                                      *)
(***************************************************************************)
AuthorOrder ==
    \A r \in Session : InSequence(Pipeline(r)) /\ EchoFollows(Pipeline(r))

(***************************************************************************)
(* With one worker all clients see the relayed messages in the same order. *)
(***************************************************************************)
SameOrder ==
    \A r, t \in Session : \A i, j \in 1..Len(got[r]) : \A k, l \in 1..Len(got[t]) :
        i < j /\ got[t][k] = got[r][i] /\ got[t][l] = got[r][j] => k < l

(***************************************************************************)
(* A UID identifies one user (README.md, "Any message a user send will be  *)
(* indetified by their UID").  It needs userid++ of core/functions.cpp to  *)
(* be executed by one worker at a time.                                    *)
(***************************************************************************)
UidsUnique ==
    \A s, t \in Session : uid[s] # 0 /\ uid[s] = uid[t] => s = t

\* No handler is running or ready, and none is due for a stream that is down.
Settled ==
    /\ \A w \in Worker : frame[w].at = "idle"
    /\ \A s \in Session : /\ posted[s] = <<>> /\ ~sending[s]
                          /\ stream[s] # "open" => ~Pending(s)

Connected == {s \in share_ : stream[s] = "open"}

(***************************************************************************)
(* The number of users that clients show (README.md, "Number of users      *)
(* connected to the daemon") is counted before it is sent to one after the *)
(* other, and a disconnect may be silent (fail() announces only            *)
(* operation_aborted and error::closed).  With one worker, when no         *)
(* handshake ends in error::closed, a settled client may show a number     *)
(* that is too high, but never one that is too low.                        *)
(***************************************************************************)
NeverUndercounts ==
    Settled => \A s \in Connected : shown[s] >= Cardinality(Connected)

(***************************************************************************)
(* A session whose stream is down is destroyed and leaves share_ in the    *)
(* end: no handler, message or backlog keeps it alive.                     *)
(***************************************************************************)
DownIsReleased == \A s \in Session : stream[s] # "open" ~> conn[s] = "gone"

(***************************************************************************)
(* What is posted to a client is written unless its stream breaks: the     *)
(* write loop never stops with messages left in the queue.                 *)
(***************************************************************************)
BacklogDrains ==
    \A s \in Session :
        queue_[s] \o posted[s] # <<>>
            ~> queue_[s] \o posted[s] = <<>> \/ stream[s] # "open"

=============================================================================
