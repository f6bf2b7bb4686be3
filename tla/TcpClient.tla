------------------------------ MODULE TcpClient ------------------------------
(***************************************************************************)
(* The TCP client app: the messages of apps/tcp_client/tcp_client.cpp, the *)
(* container of the clients, and the Client_Base a connection runs on.     *)
(* The container is keyed by the local endpoint of the connection, which   *)
(* the client saves in on_open() to find its entry when it ends.           *)
(*                                                                         *)
(* One worker runs the io_context, every handler is one step; asio decides *)
(* which ready handler runs next.  The write side is that of WriteQueue,   *)
(* reduced to idle, posted, busy, and stuck on data that failed.           *)
(***************************************************************************)
EXTENDS Naturals, FiniteSets, Functions

CONSTANTS
    Client,    \* the connections users may ask for, each used once
    Port,      \* the local endpoints the system gives to connections
    NoPort,    \* a default endpoint
    Fault      \* what the network may do wrong, a subset of AllFaults

AllFaults == {"refused", "unreachable", "peer_eof", "peer_reset"}

ASSUME PortAssumption == NoPort \notin Port
ASSUME FaultAssumption == Fault \subseteq AllFaults

VARIABLES
    clients_,    \* the container: local endpoint |-> client
    opening,     \* the async_connect of each client, and how it has ended
    link,        \* its connection
    bound,       \* the local endpoint of the socket
    local,       \* the member that on_open() sets
    rd,          \* the read side
    wr,          \* the write side
    closing,     \* is closing() posted?
    shown,       \* the clients in the last status all users were sent
    terminated   \* an exception left a noexcept function

sockets == <<opening, link, bound>>
vars    == <<clients_, sockets, local, rd, wr, closing, shown, terminated>>

Listed == Range(clients_)

\* remote_endpoint() throws for a socket that is closed or whose peer has reset.
Broken == {"reset", "closed"}

\* A handler of the write side is posted, or a write outstanding.
Writes(c) == wr[c] \in {"posted", "busy"}

\* A handler of c, queued or outstanding, needs its socket.
Busy(c) == opening[c] \notin {"none", "done"} \/ rd[c] # "idle" \/ Writes(c) \/ closing[c]

(***************************************************************************)
(* message_status(): endpoints() of the container after the step, to all   *)
(* users.  Every caller is noexcept, so an endpoint that throws ends the   *)
(* daemon.                                                                 *)
(***************************************************************************)
SendStatus ==
    /\ ~terminated
    /\ IF \E c \in Range(clients_') : link'[c] \in Broken
       THEN terminated' = TRUE /\ UNCHANGED shown
       ELSE shown' = Range(clients_') /\ UNCHANGED terminated

Quiet == ~terminated /\ UNCHANGED <<shown, terminated>>
Terminate ==
    /\ ~terminated /\ terminated' = TRUE
    /\ UNCHANGED <<clients_, sockets, local, rd, wr, closing, shown>>

\* clients_.erase(p).
Erased(p) == Restrict(clients_, DOMAIN clients_ \ {p})

\* close() of the container: closing() is posted to the client found at p.  A close()
\* that only erases is a bug that is ruled out.
PostedToNone(p) == {}
PostedTo(p) == {c \in Client : p \in DOMAIN clients_ /\ clients_[p] = c}

-----------------------------------------------------------------------------
(***************************************************************************)
(* The messages of the users.  One that names no listed client is refused  *)
(* and changes nothing.                                                    *)
(***************************************************************************)

\* open: an async_connect starts; the container learns of it when it succeeds.
MessageOpen(c) ==
    /\ opening[c] = "none"
    /\ opening' = [opening EXCEPT ![c] = "connecting"]
    /\ UNCHANGED <<clients_, link, bound, local, rd, wr, closing>>
    /\ Quiet

\* close: no status yet, on_close() sends it.
MessageClose(p) ==
    /\ p \in DOMAIN clients_
    /\ closing' = [c \in Client |-> closing[c] \/ c \in PostedTo(p)]
    /\ clients_' = Erased(p)
    /\ UNCHANGED <<sockets, local, rd, wr>>
    /\ Quiet

MessageData(p) ==
    /\ p \in DOMAIN clients_
    /\ wr' = [wr EXCEPT ![clients_[p]] = IF @ = "idle" THEN "posted" ELSE @]
    /\ UNCHANGED <<clients_, sockets, local, rd, closing>>
    /\ Quiet

MessageStatus == UNCHANGED <<clients_, sockets, local, rd, wr, closing>> /\ SendStatus

-----------------------------------------------------------------------------
\* What on_open() saves, after a bug that is ruled out.
NothingSaved(c) == NoPort
LocalEndpoint(c) == bound[c]

\* opened_cb() without error: the container and the callbacks, a status, on_open(),
\* the first read.
OnConnect(c) ==
    /\ opening[c] = "connected"
    /\ opening' = [opening EXCEPT ![c] = "done"]
    /\ clients_' = [p \in DOMAIN clients_ \union {bound[c]} |->
                        IF p = bound[c] THEN c ELSE clients_[p]]
    /\ local' = [local EXCEPT ![c] = LocalEndpoint(c)]
    /\ rd' = [rd EXCEPT ![c] = "waiting"]
    /\ UNCHANGED <<link, bound, wr, closing>>
    /\ SendStatus

\* fail() on connection_refused tells the users; nothing else is done.
OnConnectRefused(c) ==
    /\ opening[c] = "refused"
    /\ opening' = [opening EXCEPT ![c] = "done"]
    /\ UNCHANGED <<clients_, link, bound, local, rd, wr, closing>>
    /\ Quiet

\* fail() on another error calls on_close(), whose callbacks have not been set yet.
OnConnectFailed(c) == opening[c] = "failed" /\ Terminate

\* on_read() with data: read_handler() needs the local endpoint of an open socket.
OnReadData(c) ==
    /\ rd[c] = "data"
    /\ IF link[c] = "closed"
       THEN Terminate
       ELSE /\ rd' = [rd EXCEPT ![c] = "waiting"]
            /\ UNCHANGED <<clients_, sockets, local, wr, closing>>
            /\ Quiet

\* A fail() that does not send the status is a bug that is ruled out.
FailSilently(c, other) ==
    /\ clients_' = Erased(local[c])
    /\ closing' = [d \in Client |-> closing[d] \/ d \in PostedTo(local[c]) \/ (other /\ d = c)]
    /\ UNCHANGED <<sockets, local>>
    /\ Quiet

\* fail(): on_close() closes the container's entry and sends the status.  An error
\* other than eof and operation_aborted is told to the users, and close() called.
Fail(c, other) ==
    /\ clients_' = Erased(local[c])
    /\ closing' = [d \in Client |-> closing[d] \/ d \in PostedTo(local[c]) \/ (other /\ d = c)]
    /\ UNCHANGED <<sockets, local>>
    /\ SendStatus

ReadEnded(c) == rd' = [rd EXCEPT ![c] = "idle"] /\ UNCHANGED wr
WriteEnded(c) == wr' = [wr EXCEPT ![c] = "idle"] /\ UNCHANGED rd

\* The queue keeps what failed, so that no write is ever started again.
WriteFailed(c) == wr' = [wr EXCEPT ![c] = "stuck"] /\ UNCHANGED rd

OnReadEof(c) == rd[c] = "waiting" /\ link[c] = "eof" /\ ReadEnded(c) /\ Fail(c, FALSE)
OnReadError(c) == rd[c] = "waiting" /\ link[c] = "reset" /\ ReadEnded(c) /\ Fail(c, TRUE)
OnReadAborted(c) == rd[c] = "aborted" /\ ReadEnded(c) /\ Fail(c, FALSE)

\* writing(): a write starts.
Writing(c) ==
    /\ wr[c] = "posted"
    /\ wr' = [wr EXCEPT ![c] = "busy"]
    /\ UNCHANGED <<clients_, sockets, local, rd, closing>>
    /\ Quiet

OnWriteOk(c) ==
    /\ wr[c] = "busy" /\ link[c] \notin Broken
    /\ WriteEnded(c)
    /\ UNCHANGED <<clients_, sockets, local, closing>>
    /\ Quiet

OnWriteError(c) == wr[c] = "busy" /\ link[c] = "reset" /\ WriteFailed(c) /\ Fail(c, TRUE)

\* closing() cancelled the write (aborted), or it was started after (bad descriptor).
OnWriteAborted(c) ==
    /\ wr[c] = "busy" /\ link[c] = "closed"
    /\ WriteFailed(c)
    /\ \E other \in BOOLEAN : Fail(c, other)

\* What closing() does to an outstanding read, after a bug that is ruled out.
LeftWaiting(r) == r
Cancelled(r) == IF r = "waiting" THEN "aborted" ELSE r

\* closing(): shutdown, cancel, close; it gives up when shutdown fails.
Closing(c) ==
    /\ closing[c]
    /\ closing' = [closing EXCEPT ![c] = FALSE]
    /\ IF link[c] \in Broken
       THEN UNCHANGED <<link, rd>>
       ELSE /\ link' = [link EXCEPT ![c] = "closed"]
            /\ rd' = [rd EXCEPT ![c] = Cancelled(@)]
    /\ UNCHANGED <<clients_, opening, bound, local, wr>>
    /\ Quiet

-----------------------------------------------------------------------------
(***************************************************************************)
(* The network.  The system gives a connection a local endpoint no other   *)
(* connection has; one that is over is given again once the handlers that  *)
(* asio queued for it have run, for they are queued before the new ones.   *)
(***************************************************************************)
Held(p) == \E d \in Client : bound[d] = p /\ (link[d] \in {"up", "eof"} \/ Busy(d))

ConnectCompletes(c, p) ==
    /\ opening[c] = "connecting" /\ ~Held(p)
    /\ opening' = [opening EXCEPT ![c] = "connected"]
    /\ link' = [link EXCEPT ![c] = "up"]
    /\ bound' = [bound EXCEPT ![c] = p]
    /\ UNCHANGED <<clients_, local, rd, wr, closing>>
    /\ Quiet

ConnectFails(c) ==
    /\ opening[c] = "connecting"
    /\ \/ "refused" \in Fault /\ opening' = [opening EXCEPT ![c] = "refused"]
       \/ "unreachable" \in Fault /\ opening' = [opening EXCEPT ![c] = "failed"]
    /\ UNCHANGED <<clients_, link, bound, local, rd, wr, closing>>
    /\ Quiet

DataArrives(c) ==
    /\ rd[c] = "waiting" /\ link[c] = "up"
    /\ rd' = [rd EXCEPT ![c] = "data"]
    /\ UNCHANGED <<clients_, sockets, local, wr, closing>>
    /\ Quiet

PeerEnds(c) ==
    /\ \/ "peer_eof" \in Fault /\ link[c] = "up" /\ link' = [link EXCEPT ![c] = "eof"]
       \/ "peer_reset" \in Fault /\ link[c] \in {"up", "eof"}
          /\ link' = [link EXCEPT ![c] = "reset"]
    /\ UNCHANGED <<clients_, opening, bound, local, rd, wr, closing>>
    /\ Quiet

-----------------------------------------------------------------------------
Init ==
    /\ clients_ = [p \in {} |-> p]
    /\ opening = [c \in Client |-> "none"]
    /\ link = [c \in Client |-> "none"]
    /\ bound = [c \in Client |-> NoPort]
    /\ local = [c \in Client |-> NoPort]
    /\ rd = [c \in Client |-> "idle"]
    /\ wr = [c \in Client |-> "idle"]
    /\ closing = [c \in Client |-> FALSE]
    /\ shown = {}
    /\ terminated = FALSE

Handler(c) ==
    \/ OnConnect(c)
    \/ OnConnectRefused(c)
    \/ OnConnectFailed(c)
    \/ OnReadData(c)
    \/ OnReadEof(c)
    \/ OnReadError(c)
    \/ OnReadAborted(c)
    \/ Writing(c)
    \/ OnWriteError(c)
    \/ OnWriteAborted(c)
    \/ Closing(c)

Next ==
    \/ MessageStatus
    \/ \E p \in Port : MessageClose(p) \/ MessageData(p)
    \/ \E c \in Client :
        \/ MessageOpen(c)
        \/ Handler(c)
        \/ \E p \in Port : ConnectCompletes(c, p)
        \/ ConnectFails(c)
        \/ DataArrives(c)
        \/ PeerEnds(c)
        \/ OnWriteOk(c)

Spec == Init /\ [][Next]_vars

\* asio runs every handler that is ready: data that keeps arriving does not keep
\* closing() waiting.
Fairness == \A c \in Client : WF_vars(Handler(c)) /\ WF_vars(Closing(c))
FairSpec == Spec /\ Fairness

-----------------------------------------------------------------------------
\* Every variable holds a value of its kind.
TypeOK ==
    /\ DOMAIN clients_ \subseteq Port /\ Listed \subseteq Client
    /\ opening \in [Client -> {"none", "connecting", "connected", "refused", "failed", "done"}]
    /\ link \in [Client -> {"none", "up", "eof", "reset", "closed"}]
    /\ bound \in [Client -> Port \union {NoPort}]
    /\ local \in [Client -> Port \union {NoPort}]
    /\ rd \in [Client -> {"idle", "waiting", "data", "aborted"}]
    /\ wr \in [Client -> {"idle", "posted", "busy", "stuck"}]
    /\ closing \in [Client -> BOOLEAN]
    /\ shown \subseteq Client
    /\ terminated \in BOOLEAN

(***************************************************************************)
(* A listed client can be used: it has a read on its way, whose end will   *)
(* take it off the list, and its socket has not been closed.  The list is  *)
(* kept by endpoint and emptied by three handlers, so a failure of one     *)
(* client must neither miss its own entry nor leave a dead one.            *)
(***************************************************************************)
ListedIsServed ==
    \A p \in DOMAIN clients_ :
        LET c == clients_[p]
        IN  rd[c] # "idle" /\ link[c] # "closed" /\ local[c] = p

(***************************************************************************)
(* A connection that users cannot see is on its way to be closed: no order *)
(* of messages and handlers leaves it open, read from, and in no status.   *)
(***************************************************************************)
UnlistedIsClosing ==
    \A c \in Client :
        opening[c] = "done" /\ link[c] \in {"up", "eof"} /\ c \notin Listed => closing[c]

\* No handler is ready.
Settled ==
    /\ ~terminated
    /\ \A c \in Client :
        /\ opening[c] \in {"none", "connecting", "done"} /\ ~closing[c]
        /\ rd[c] \in {"idle", "waiting"} /\ wr[c] # "posted"
        /\ rd[c] = "waiting" => link[c] = "up"
        /\ wr[c] = "busy" => link[c] \notin Broken

(***************************************************************************)
(* Once the app is settled, the last status shows exactly the connections  *)
(* that are open, although closing one sends its status only from the      *)
(* aborted read.                                                           *)
(***************************************************************************)
StatusAccurate == Settled => shown = {c \in Client : link[c] \in {"up", "eof"}}

(***************************************************************************)
(* A client that was closed, by a user, by its peer or by an error, ends   *)
(* all its operations.                                                     *)
(***************************************************************************)
ClosedComesToRest == \A c \in Client : closing[c] ~> ~Busy(c) \/ terminated

=============================================================================
