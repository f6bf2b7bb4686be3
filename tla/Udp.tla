--------------------------------- MODULE Udp ---------------------------------
(***************************************************************************)
(* The UDP server app and the UDP client app: their messages, their two    *)
(* containers, keyed by the local endpoint of a socket, and Server_Base    *)
(* and Client_Base, whose handlers are the same but for the addresses.     *)
(*                                                                         *)
(* One worker runs the io_context, every handler is one step.  The write   *)
(* side is that of WriteQueue, reduced to idle, posted, busy, and stuck on *)
(* a datagram that failed.  The addresses of peers are left out.           *)
(***************************************************************************)
EXTENDS Functions

CONSTANTS
    Socket,    \* the sockets users may open, each used once
    Port,      \* local endpoints, which both apps share
    NoPort,    \* a default endpoint
    Fault      \* what may go wrong, a subset of AllFaults

AllFaults == {"no_socket", "read_error", "send_error"}
Role == {"server", "client"}

VARIABLES
    containers,  \* servers_ and clients_: local endpoint |-> socket
    role,        \* the app of each socket
    socket_,     \* none, open or closed
    local,       \* the endpoint it was bound to
    reading,     \* the async_receive_from: idle, waiting, or its handler is ready
    writing_,    \* the write side
    failed,      \* history: the sockets that fail() has closed
    thrown       \* where an exception has ended the daemon

vars == <<containers, role, socket_, local, reading, writing_, failed, thrown>>

Listed(r) == DOMAIN containers[r]
Bound(p) == \E s \in Socket : socket_[s] = "open" /\ local[s] = p

\* Handlers of s are posted or outstanding.
Busy(s) == reading[s] # "idle" \/ writing_[s] \in {"posted", "busy"}

Quiet == thrown = "no" /\ UNCHANGED thrown
Throw(where) ==
    /\ thrown = "no" /\ thrown' = where
    /\ UNCHANGED <<containers, role, socket_, local, reading, writing_, failed>>

(***************************************************************************)
(* message_status(), after the step.  endpoints() of the clients asks each *)
(* socket for its local endpoint, which throws if the socket is closed;    *)
(* that of the servers reads the keys.                                     *)
(***************************************************************************)
SendStatus(r) ==
    /\ thrown = "no"
    /\ thrown' = IF /\ r = "client"
                    /\ \E s \in Range(containers'["client"]) : socket_'[s] = "closed"
                 THEN "status" ELSE "no"

-----------------------------------------------------------------------------
(***************************************************************************)
(* The messages of the users.  One that is refused (no such socket, an     *)
(* endpoint in use) changes nothing.                                       *)
(***************************************************************************)

\* open: bind, the first receive, the container, the status.  The entry of a socket
\* that failed on this endpoint is replaced.
MessageOpen(r, s, p) ==
    /\ socket_[s] = "none" /\ ~Bound(p)
    /\ socket_' = [socket_ EXCEPT ![s] = "open"]
    /\ role' = [role EXCEPT ![s] = r]
    /\ local' = [local EXCEPT ![s] = p]
    /\ reading' = [reading EXCEPT ![s] = "waiting"]
    /\ containers' = [containers EXCEPT ![r] =
                        [q \in Listed(r) \union {p} |-> IF q = p THEN s ELSE @[q]]]
    /\ UNCHANGED <<writing_, failed>>
    /\ SendStatus(r)

\* open when the system has no socket left: an exception that nothing catches.
MessageOpenThrows ==
    /\ "no_socket" \in Fault /\ \E s \in Socket : socket_[s] = "none"
    /\ Throw("open")

\* What close() does to the socket and to an outstanding receive; before each, a bug
\* that a property rules out.
StaysOpen == "open"
Closes == "closed"
LeftWaiting(rd) == rd
Cancelled(rd) == IF rd = "waiting" THEN "aborted" ELSE rd

NotErased(c, p) == c
Erased(c, p) == Restrict(c, DOMAIN c \ {p})

MessageClose(r, p) ==
    /\ p \in Listed(r)
    /\ LET s == containers[r][p]
       IN  /\ socket_' = [socket_ EXCEPT ![s] = Closes]
           /\ reading' = [reading EXCEPT ![s] = Cancelled(@)]
    /\ containers' = [containers EXCEPT ![r] = Erased(@, p)]
    /\ UNCHANGED <<role, local, writing_, failed>>
    /\ SendStatus(r)

\* data: nothing tells the user that the socket has failed.
MessageData(r, p) ==
    /\ p \in Listed(r)
    /\ writing_' = [writing_ EXCEPT ![containers[r][p]] = IF @ = "idle" THEN "posted" ELSE @]
    /\ UNCHANGED <<containers, role, socket_, local, reading, failed>>
    /\ Quiet

MessageStatus(r) ==
    /\ UNCHANGED <<containers, role, socket_, local, reading, writing_, failed>>
    /\ SendStatus(r)

-----------------------------------------------------------------------------
\* on_read(): read_handler() is noexcept and asks for the local endpoint.
OnReadData(s) ==
    /\ reading[s] = "data"
    /\ IF socket_[s] = "closed"
       THEN Throw("read_handler")
       ELSE /\ reading' = [reading EXCEPT ![s] = "waiting"]
            /\ UNCHANGED <<containers, role, socket_, local, writing_, failed>>
            /\ Quiet

\* fail() ignores operation_aborted and bad_descriptor.
OnReadAborted(s) ==
    /\ reading[s] = "aborted"
    /\ reading' = [reading EXCEPT ![s] = "idle"]
    /\ UNCHANGED <<containers, role, socket_, local, writing_, failed>>
    /\ Quiet

\* fail() on another error: the users are told, the socket is closed.  The container
\* is not, and no status is sent.
Fail(s) ==
    /\ socket_' = [socket_ EXCEPT ![s] = "closed"]
    /\ failed' = failed \union {s}
    /\ UNCHANGED <<containers, role, local>>
    /\ Quiet

OnReadError(s) ==
    /\ "read_error" \in Fault
    /\ reading[s] = "waiting" /\ socket_[s] = "open"
    /\ reading' = [reading EXCEPT ![s] = "idle"]
    /\ UNCHANGED writing_
    /\ Fail(s)

\* writing(): a write starts.
Writing(s) ==
    /\ writing_[s] = "posted"
    /\ writing_' = [writing_ EXCEPT ![s] = "busy"]
    /\ UNCHANGED <<containers, role, socket_, local, reading, failed>>
    /\ Quiet

OnWriteOk(s) ==
    /\ writing_[s] = "busy" /\ socket_[s] = "open"
    /\ writing_' = [writing_ EXCEPT ![s] = "idle"]
    /\ UNCHANGED <<containers, role, socket_, local, reading, failed>>
    /\ Quiet

\* A datagram that cannot be sent, too long or to nowhere: the socket is closed.
OnWriteError(s) ==
    /\ "send_error" \in Fault
    /\ writing_[s] = "busy" /\ socket_[s] = "open"
    /\ writing_' = [writing_ EXCEPT ![s] = "stuck"]
    /\ reading' = [reading EXCEPT ![s] = Cancelled(@)]
    /\ Fail(s)

OnWriteAborted(s) ==
    /\ writing_[s] = "busy" /\ socket_[s] = "closed"
    /\ writing_' = [writing_ EXCEPT ![s] = "stuck"]
    /\ UNCHANGED <<containers, role, socket_, local, reading, failed>>
    /\ Quiet

\* A datagram is received; its handler is queued.
DataArrives(s) ==
    /\ reading[s] = "waiting" /\ socket_[s] = "open"
    /\ reading' = [reading EXCEPT ![s] = "data"]
    /\ UNCHANGED <<containers, role, socket_, local, writing_, failed>>
    /\ Quiet

-----------------------------------------------------------------------------
Init ==
    /\ containers = [r \in Role |-> [p \in {} |-> p]]
    /\ role = [s \in Socket |-> "server"]
    /\ socket_ = [s \in Socket |-> "none"]
    /\ local = [s \in Socket |-> NoPort]
    /\ reading = [s \in Socket |-> "idle"]
    /\ writing_ = [s \in Socket |-> "idle"]
    /\ failed = {}
    /\ thrown = "no"

Handler(s) ==
    \/ OnReadData(s)
    \/ OnReadAborted(s)
    \/ Writing(s)
    \/ OnWriteAborted(s)

Next ==
    \/ MessageOpenThrows
    \/ \E r \in Role :
        \/ MessageStatus(r)
        \/ \E p \in Port :
            \/ MessageClose(r, p)
            \/ MessageData(r, p)
            \/ \E s \in Socket : MessageOpen(r, s, p)
    \/ \E s \in Socket :
        \/ Handler(s)
        \/ OnReadError(s)
        \/ OnWriteOk(s)
        \/ OnWriteError(s)
        \/ DataArrives(s)

Spec == Init /\ [][Next]_vars

\* asio runs every handler that is ready.
Fairness == \A s \in Socket : WF_vars(Handler(s))

-----------------------------------------------------------------------------
\* Every variable holds a value of its kind.
TypeOK ==
    /\ DOMAIN containers = Role
    /\ \A r \in Role : Listed(r) \subseteq Port /\ Range(containers[r]) \subseteq Socket
    /\ role \in [Socket -> Role]
    /\ socket_ \in [Socket -> {"none", "open", "closed"}]
    /\ local \in [Socket -> Port \union {NoPort}]
    /\ reading \in [Socket -> {"idle", "waiting", "data", "aborted"}]
    /\ writing_ \in [Socket -> {"idle", "posted", "busy", "stuck"}]
    /\ failed \subseteq Socket
    /\ thrown \in {"no", "open", "status", "read_handler"}

(***************************************************************************)
(* Every open socket is in the container of its app under its endpoint, so *)
(* that users can close it.  An open on an endpoint whose socket has       *)
(* failed replaces the entry: what it replaces must be dead.               *)
(***************************************************************************)
OpenIsListed ==
    \A s \in Socket : socket_[s] = "open" =>
        local[s] \in Listed(role[s]) /\ containers[role[s]][local[s]] = s

(***************************************************************************)
(* An entry is of a socket of its app and endpoint that is open, unless it *)
(* has failed: closing a socket never leaves its entry, and an entry never *)
(* comes to stand for a socket with another endpoint.                      *)
(***************************************************************************)
ListedIsOpenOrFailed ==
    \A r \in Role : \A p \in Listed(r) :
        LET s == containers[r][p]
        IN  /\ role[s] = r /\ local[s] = p
            /\ socket_[s] = "open" \/ s \in failed

(***************************************************************************)
(* Both: what users see listed, and can close and write through, is what   *)
(* is open, but for sockets that have failed.                              *)
(***************************************************************************)
SocketsAreListed == OpenIsListed /\ ListedIsOpenOrFailed

(***************************************************************************)
(* A socket that is closed, by a user or by an error, ends all that was    *)
(* outstanding on it.                                                      *)
(***************************************************************************)
SocketComesToRest ==
    \A s \in Socket : socket_[s] = "closed" ~> ~Busy(s) \/ thrown # "no"

(***************************************************************************)
(* A status is answered: what users are told of the sockets never ends the *)
(* daemon.  The handler that sends it is declared noexcept.                *)
(***************************************************************************)
StatusAnswers == thrown # "status"

=============================================================================
