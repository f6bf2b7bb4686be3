------------------------------ MODULE TcpServer ------------------------------
(***************************************************************************)
(* The TCP server app: the messages of apps/tcp_server/tcp_server.cpp, the *)
(* container of listeners, Listener_Base and its accept loop, and the TCP  *)
(* sessions that join the listener's Shareable.                            *)
(*                                                                         *)
(* One worker runs the io_context (--threads is 1 by default), so every    *)
(* handler is one step; asio decides which ready handler runs next.  What  *)
(* is queued to be written to a client is the subject of WriteQueue: here  *)
(* a write side is idle, has a writing() posted or has a write on its way. *)
(***************************************************************************)
EXTENDS Naturals, FiniteSets

CONSTANTS
    Client,     \* the connections TCP clients make, each used once
    Listener,   \* the listeners message_open may create, each used once
    Requested,  \* the port numbers users write in their messages
    PortMin,    \* CONFIG_VALID_TCP_PORT_MIN
    PortMod,    \* 2^16: CONFIG_VALID_TCP_PORT_MAX, and the range of uint16_t
    Fault,      \* what the network or a user may do wrong, a subset of AllFaults
    NoListener  \* what a connection not made yet belongs to

AllFaults == {"accept_error", "bad_address", "peer_eof", "peer_reset"}

ASSUME PortAssumption ==
    PortMin \in Nat /\ PortMod \in Nat \ {0} /\ Requested \subseteq Nat
ASSUME FaultAssumption == Fault \subseteq AllFaults
ASSUME NamesAssumption == NoListener \notin Listener /\ Client \cap {"idle", "waiting"} = {}

VARIABLES
    servers_,    \* the container: port |-> listener
    acceptor,    \* the socket of each listener; "closing": closing() is posted
    accept,      \* its async_accept: none, outstanding, or done with a client
    of,          \* the listener a client connected to
    link,        \* the connection of each client
    run,         \* is on_run() of the new session posted?
    rd,          \* the read side of each session
    wr,          \* its write side
    closing,     \* is closing() of the session posted?
    share_,      \* the sessions in the Shareable of their listener
    shown,       \* the last status all users were sent
    terminated   \* an exception left a noexcept function

listeners == <<servers_, acceptor, accept>>
sessions  == <<of, link, run, rd, wr, closing, share_>>
vars      == <<listeners, sessions, shown, terminated>>

\* is_valid_port(), and the port message_open stands for: it converts to uint16_t
\* before the check, the other messages after it.
IsValidPort(p) == p > PortMin /\ p < PortMod
OpenPort(raw) == raw % PortMod

Listed == DOMAIN servers_
Bound(p) == \E l \in Listener : acceptor[l].port = p /\ acceptor[l].state # "closed"

\* endpoint() of a socket that is closed, or whose peer has reset, throws.
Throws(c) == link[c] \in {"reset", "closed"}
SharesOf(l) == {c \in share_ : of[c] = l}

\* A handler of the write side is posted, or a write outstanding.
Writes(c) == wr[c] \in {"posted", "busy"}

\* The handlers that hold a shared_ptr to the session of c.
Alive(c) == run[c] \/ rd[c] # "idle" \/ Writes(c) \/ closing[c]

(***************************************************************************)
(* message_status(): the endpoints of all servers and of all their         *)
(* clients, to all users.  clients() is noexcept: if an endpoint() in it   *)
(* throws, the daemon terminates.  It reads the state after the step.      *)
(***************************************************************************)
ClientsShown == {c \in share_' : \E p \in DOMAIN servers_' : servers_'[p] = of[c]}
SendStatus ==
    /\ ~terminated
    /\ IF \E c \in ClientsShown : link'[c] \in {"reset", "closed"}
       THEN terminated' = TRUE /\ UNCHANGED shown
       ELSE /\ shown' = [servers |-> DOMAIN servers_', clients |-> ClientsShown]
            /\ UNCHANGED terminated

\* The step sends no status, or throws where nothing catches.
Quiet == ~terminated /\ UNCHANGED <<shown, terminated>>
Terminate == ~terminated /\ terminated' = TRUE /\ UNCHANGED <<listeners, sessions, shown>>

-----------------------------------------------------------------------------
(***************************************************************************)
(* The messages of the users.  One that is refused (a port out of range, a *)
(* server that is not listed, or already is) changes nothing here.         *)
(***************************************************************************)

\* open: a listener bound to the port starts to accept.  bind() fails as long as a
\* closed listener's acceptor holds the port.
MessageOpen(raw, l) ==
    LET p == OpenPort(raw)
    IN  /\ acceptor[l].state = "none"
        /\ IsValidPort(p) /\ p \notin Listed /\ ~Bound(p)
        /\ servers_' = [q \in Listed \union {p} |-> IF q = p THEN l ELSE servers_[q]]
        /\ acceptor' = [acceptor EXCEPT ![l] = [state |-> "open", port |-> p]]
        /\ accept' = [accept EXCEPT ![l] = "waiting"]
        /\ UNCHANGED sessions
        /\ SendStatus

\* open with an address that make_address() does not accept: it throws.
MessageOpenBadAddress(raw) ==
    "bad_address" \in Fault /\ IsValidPort(OpenPort(raw)) /\ Terminate

\* servers_.erase(ep), after a bug that is ruled out.
NotErased(p) == servers_
Erased(p) == [q \in Listed \ {p} |-> servers_[q]]

\* close: closing() is posted to the sessions that joined and to the acceptor, and
\* the listener leaves the container.
MessageClose(p) ==
    /\ IsValidPort(p) /\ p \in Listed
    /\ LET l == servers_[p]
       IN  /\ closing' = [c \in Client |-> closing[c] \/ c \in SharesOf(l)]
           /\ acceptor' = [acceptor EXCEPT ![l].state = "closing"]
    /\ servers_' = Erased(p)
    /\ UNCHANGED <<accept, of, link, run, rd, wr, share_>>
    /\ SendStatus

MessageStatus == UNCHANGED <<listeners, sessions>> /\ SendStatus

\* data: write() to each session whose endpoint is in the list.  All of the
\* listener's endpoints are read for the comparison.
MessageData(p, to) ==
    /\ IsValidPort(p) /\ p \in Listed /\ to # {}
    /\ IF \E c \in SharesOf(servers_[p]) : Throws(c)
       THEN Terminate
       ELSE /\ wr' = [c \in Client |-> IF c \in to \cap SharesOf(servers_[p]) /\ wr[c] = "idle"
                                       THEN "posted" ELSE wr[c]]
            /\ UNCHANGED <<listeners, of, link, run, rd, closing, share_>>
            /\ Quiet

\* close client: close() on the session with that endpoint.
MessageCloseClient(p, c) ==
    /\ IsValidPort(p) /\ p \in Listed
    /\ IF \E d \in SharesOf(servers_[p]) : Throws(d)
       THEN Terminate
       ELSE /\ closing' = [closing EXCEPT ![c] = @ \/ c \in SharesOf(servers_[p])]
            /\ UNCHANGED <<listeners, of, link, run, rd, wr, share_>>
            /\ Quiet

-----------------------------------------------------------------------------
\* do_accept(): on a closed acceptor the operation ends at once with an error.
DoAccept(l) == IF acceptor[l].state = "closed" THEN "idle" ELSE "waiting"

\* on_accept(): a session is made for the client, its run() posted; accept again.
OnAccept(l) ==
    /\ accept[l] \in Client
    /\ run' = [run EXCEPT ![accept[l]] = TRUE]
    /\ accept' = [accept EXCEPT ![l] = DoAccept(l)]
    /\ UNCHANGED <<servers_, acceptor, of, link, rd, wr, closing, share_>>
    /\ Quiet

\* on_accept() with an error: it is printed, and nothing accepts again.
OnAcceptError(l) ==
    /\ "accept_error" \in Fault
    /\ accept[l] = "waiting"
    /\ accept' = [accept EXCEPT ![l] = "idle"]
    /\ UNCHANGED <<servers_, acceptor, sessions>>
    /\ Quiet

\* closing() of the listener: cancel and close.  The system resets the connections
\* that were not accepted.
ClosingListener(l) ==
    /\ acceptor[l].state = "closing"
    /\ acceptor' = [acceptor EXCEPT ![l].state = "closed"]
    /\ accept' = [accept EXCEPT ![l] = IF @ = "waiting" THEN "idle" ELSE @]
    /\ link' = [c \in Client |-> IF of[c] = l /\ link[c] = "backlog"
                                 THEN "reset" ELSE link[c]]
    /\ UNCHANGED <<servers_, of, run, rd, wr, closing, share_>>
    /\ Quiet

-----------------------------------------------------------------------------
\* on_run(): on_open() joins and sends the status, then the first read.
OnRun(c) ==
    /\ run[c]
    /\ run' = [run EXCEPT ![c] = FALSE]
    /\ share_' = share_ \union {c}
    /\ rd' = [rd EXCEPT ![c] = "waiting"]
    /\ UNCHANGED <<listeners, of, link, wr, closing>>
    /\ SendStatus

\* on_read() with data: read_handler() relays it under the session's endpoint.
OnReadData(c) ==
    /\ rd[c] = "data"
    /\ IF Throws(c)
       THEN Terminate
       ELSE /\ rd' = [rd EXCEPT ![c] = "waiting"]
            /\ UNCHANGED <<listeners, of, link, run, wr, closing, share_>>
            /\ Quiet

\* What fail() does with the session's share, after a bug that is ruled out.
StaysJoined(c) == share_
Leaves(c) == share_ \ {c}

\* A fail() that does not send the status is a bug that is ruled out.
FailSilently(c, other) ==
    /\ share_' = Leaves(c)
    /\ closing' = [closing EXCEPT ![c] = @ \/ other]
    /\ UNCHANGED <<listeners, of, link, run>>
    /\ Quiet

\* fail(): on_close() leaves and sends the status.  An error other than eof and
\* operation_aborted is told to the users, and close() called.
Fail(c, other) ==
    /\ share_' = Leaves(c)
    /\ closing' = [closing EXCEPT ![c] = @ \/ other]
    /\ UNCHANGED <<listeners, of, link, run>>
    /\ SendStatus

ReadEnded(c) == rd' = [rd EXCEPT ![c] = "idle"] /\ UNCHANGED wr
WriteEnded(c) == wr' = [wr EXCEPT ![c] = "idle"] /\ UNCHANGED rd

\* The queue keeps what failed, so that no write is ever started again.
WriteFailed(c) == wr' = [wr EXCEPT ![c] = "stuck"] /\ UNCHANGED rd

OnReadEof(c) ==
    /\ rd[c] = "waiting" /\ link[c] = "eof"
    /\ ReadEnded(c) /\ Fail(c, FALSE)

OnReadError(c) ==
    /\ rd[c] = "waiting" /\ link[c] = "reset"
    /\ ReadEnded(c) /\ Fail(c, TRUE)

OnReadAborted(c) ==
    /\ rd[c] = "aborted"
    /\ ReadEnded(c) /\ Fail(c, FALSE)

\* writing(): a write starts.
Writing(c) ==
    /\ wr[c] = "posted"
    /\ wr' = [wr EXCEPT ![c] = "busy"]
    /\ UNCHANGED <<listeners, of, link, run, rd, closing, share_>>
    /\ Quiet

OnWriteOk(c) ==
    /\ wr[c] = "busy" /\ ~Throws(c)
    /\ WriteEnded(c)
    /\ UNCHANGED <<listeners, of, link, run, closing, share_>>
    /\ Quiet

\* The peer is gone: broken pipe.
OnWriteError(c) ==
    /\ wr[c] = "busy" /\ link[c] = "reset"
    /\ WriteFailed(c) /\ Fail(c, TRUE)

\* closing() cancelled the write (aborted), or it was started after (bad descriptor).
OnWriteAborted(c) ==
    /\ wr[c] = "busy" /\ link[c] = "closed"
    /\ WriteFailed(c)
    /\ \E other \in BOOLEAN : Fail(c, other)

\* What close() does to an outstanding read, after a bug that is ruled out.
LeftWaiting(r) == r
Cancelled(r) == IF r = "waiting" THEN "aborted" ELSE r

\* closing(): shutdown, cancel, close; it gives up when shutdown fails.
Closing(c) ==
    /\ closing[c]
    /\ closing' = [closing EXCEPT ![c] = FALSE]
    /\ IF Throws(c)
       THEN UNCHANGED <<link, rd>>
       ELSE /\ link' = [link EXCEPT ![c] = "closed"]
            /\ rd' = [rd EXCEPT ![c] = Cancelled(@)]
    /\ UNCHANGED <<listeners, of, run, wr, share_>>
    /\ Quiet

-----------------------------------------------------------------------------
\* The network.  A connection is made as long as the acceptor listens.
Connect(c, l) ==
    /\ link[c] = "none" /\ acceptor[l].state \in {"open", "closing"}
    /\ link' = [link EXCEPT ![c] = "backlog"]
    /\ of' = [of EXCEPT ![c] = l]
    /\ UNCHANGED <<listeners, run, rd, wr, closing, share_>>
    /\ Quiet

\* An async_accept completes: its handler is ready.
AcceptCompletes(l, c) ==
    /\ accept[l] = "waiting" /\ link[c] = "backlog" /\ of[c] = l
    /\ accept' = [accept EXCEPT ![l] = c]
    /\ link' = [link EXCEPT ![c] = "up"]
    /\ UNCHANGED <<servers_, acceptor, of, run, rd, wr, closing, share_>>
    /\ Quiet

\* A read completes: its handler is ready.
DataArrives(c) ==
    /\ rd[c] = "waiting" /\ link[c] = "up"
    /\ rd' = [rd EXCEPT ![c] = "data"]
    /\ UNCHANGED <<listeners, of, link, run, wr, closing, share_>>
    /\ Quiet

PeerCloses(c) ==
    /\ "peer_eof" \in Fault /\ link[c] = "up"
    /\ link' = [link EXCEPT ![c] = "eof"]
    /\ UNCHANGED <<listeners, of, run, rd, wr, closing, share_>>
    /\ Quiet

PeerResets(c) ==
    /\ "peer_reset" \in Fault /\ link[c] \in {"up", "eof"}
    /\ link' = [link EXCEPT ![c] = "reset"]
    /\ UNCHANGED <<listeners, of, run, rd, wr, closing, share_>>
    /\ Quiet

-----------------------------------------------------------------------------
Init ==
    /\ servers_ = [p \in {} |-> NoListener]
    /\ acceptor = [l \in Listener |-> [state |-> "none", port |-> 0]]
    /\ accept = [l \in Listener |-> "idle"]
    /\ of = [c \in Client |-> NoListener]
    /\ link = [c \in Client |-> "none"]
    /\ run = [c \in Client |-> FALSE]
    /\ rd = [c \in Client |-> "idle"]
    /\ wr = [c \in Client |-> "idle"]
    /\ closing = [c \in Client |-> FALSE]
    /\ share_ = {}
    /\ shown = [servers |-> {}, clients |-> {}]
    /\ terminated = FALSE

Message ==
    \/ MessageStatus
    \/ \E raw \in Requested :
        \/ \E l \in Listener : MessageOpen(raw, l)
        \/ MessageOpenBadAddress(raw)
        \/ MessageClose(raw)
        \/ \E to \in SUBSET Client : MessageData(raw, to)
        \/ \E c \in Client : MessageCloseClient(raw, c)

Network ==
    \/ \E l \in Listener : OnAcceptError(l)
    \/ \E l \in Listener, c \in Client : Connect(c, l) \/ AcceptCompletes(l, c)
    \/ \E c \in Client :
        \/ DataArrives(c) \/ PeerCloses(c) \/ PeerResets(c)
        \/ OnWriteOk(c)

ListenerHandler(l) == OnAccept(l) \/ ClosingListener(l)

SessionHandler(c) ==
    \/ OnRun(c)
    \/ OnReadData(c)
    \/ OnReadEof(c)
    \/ OnReadError(c)
    \/ OnReadAborted(c)
    \/ Writing(c)
    \/ OnWriteError(c)
    \/ OnWriteAborted(c)
    \/ Closing(c)

Next ==
    \/ Message
    \/ Network
    \/ \E l \in Listener : ListenerHandler(l)
    \/ \E c \in Client : SessionHandler(c)

Spec == Init /\ [][Next]_vars

\* asio runs every handler that is ready.
Fairness ==
    /\ \A l \in Listener : WF_vars(ListenerHandler(l))
    /\ \A c \in Client : WF_vars(SessionHandler(c))
FairSpec == Spec /\ Fairness

-----------------------------------------------------------------------------
\* Every variable holds a value of its kind.
TypeOK ==
    /\ DOMAIN servers_ \subseteq 0..(PortMod - 1)
    /\ \A p \in DOMAIN servers_ : servers_[p] \in Listener
    /\ acceptor \in [Listener -> [state : {"none", "open", "closing", "closed"},
                                  port : 0..(PortMod - 1)]]
    /\ accept \in [Listener -> {"idle", "waiting"} \union Client]
    /\ of \in [Client -> Listener \union {NoListener}]
    /\ link \in [Client -> {"none", "backlog", "up", "eof", "reset", "closed"}]
    /\ run \in [Client -> BOOLEAN]
    /\ rd \in [Client -> {"idle", "waiting", "data", "aborted"}]
    /\ wr \in [Client -> {"idle", "posted", "busy", "stuck"}]
    /\ closing \in [Client -> BOOLEAN]
    /\ share_ \subseteq Client
    /\ shown \in [servers : SUBSET (0..(PortMod - 1)), clients : SUBSET Client]
    /\ terminated \in BOOLEAN

(***************************************************************************)
(* share_ holds plain pointers, and ~Session_TCP_Server does not leave():  *)
(* every way a session can end must have passed through on_close() before  *)
(* the last handler releases it.                                           *)
(***************************************************************************)
ShareHoldsLiveSessions == \A c \in share_ : Alive(c)

\* No handler is posted or ready.
Settled ==
    /\ ~terminated
    /\ \A l \in Listener :
        /\ acceptor[l].state # "closing" /\ accept[l] \notin Client
        /\ accept[l] = "waiting" => \A c \in Client : of[c] = l => link[c] # "backlog"
    /\ \A c \in Client :
        /\ ~run[c] /\ ~closing[c]
        /\ rd[c] \in {"idle", "waiting"} /\ wr[c] # "posted"
        /\ rd[c] = "waiting" => link[c] = "up"
        /\ wr[c] = "busy" => ~Throws(c)

ServedClients == {c \in Client : rd[c] = "waiting" /\ \E p \in Listed : servers_[p] = of[c]}

(***************************************************************************)
(* Once the app is settled, the last status the users were sent names the  *)
(* servers that listen and the clients they serve: every change of either  *)
(* is followed by a status, whatever the order of the handlers.            *)
(***************************************************************************)
StatusAccurate == Settled => shown = [servers |-> Listed, clients |-> ServedClients]

(***************************************************************************)
(* The container and the acceptors agree: a server that is listed listens  *)
(* on the port it is listed under, a port a message can name, and one that *)
(* listens is listed, so that a user can close it.                         *)
(***************************************************************************)
ListedIffListening ==
    /\ \A p \in Listed :
        /\ IsValidPort(p)
        /\ acceptor[servers_[p]] = [state |-> "open", port |-> p]
    /\ \A l \in Listener :
        acceptor[l].state = "open" => \E p \in Listed : servers_[p] = l

(***************************************************************************)
(* A session whose connection was closed or reset is destroyed: each of    *)
(* its operations ends, and the close() its failures call leads nowhere.   *)
(***************************************************************************)
DeadIsDestroyed == \A c \in Client : Throws(c) ~> ~Alive(c) \/ terminated

\* clients() is declared noexcept (listener_base.hpp): nothing in it may throw.
NeverTerminates == ~terminated

(***************************************************************************)
(* "Any client socket connected will be notified.  Data can be sent to 1,  *)
(* any or all clients." (README.md): once the app is settled, every client *)
(* with a session is in the last status, so it can be named in a message.  *)
(***************************************************************************)
ConnectedIsShown == Settled => \A c \in Client : rd[c] = "waiting" => c \in shown.clients

=============================================================================
