------------------------------ MODULE SecurePair ------------------------------
(***************************************************************************)
(* A connection of the TCP client app to a server of the TCP server app,   *)
(* either end plain or SSL: Client_Base and Session_Base with their        *)
(* handshakes.  The ends need not agree: a plain end takes whatever comes  *)
(* for data, an SSL end waits for its handshake, without a timeout, and is *)
(* in no status until then.                                                *)
(*                                                                         *)
(* Both apps may run in one daemon.  Handlers are one step each; the       *)
(* bytes on the wire are those of the handshake, alerts, and data.  What a *)
(* status may throw is the subject of TcpServer and TcpClient.             *)
(***************************************************************************)
EXTENDS Naturals, Sequences

CONSTANT MaxData    \* bound on what the users of an end write

VARIABLES
    secure,      \* is the end an SSL end?
    stage,       \* its operation: none yet, the handshake, a read, or none any more
    shown,       \* is it in the status: in the container, or joined?
    sock,        \* its socket
    closing,     \* is closing() posted?
    wire,        \* the bytes on their way to it
    wrote,       \* history: how much data its users have written
    told,        \* history: the errors its users were told
    terminated   \* an exception left a noexcept function

vars == <<secure, stage, shown, sock, closing, wire, wrote, told, terminated>>

Ends == {"client", "server"}
Other(e) == IF e = "client" THEN "server" ELSE "client"

\* What arrives first, if anything has.
Finds(e, item) == wire[e] # <<>> /\ Head(wire[e]) = item
Ended(e) == wire[e] = <<>> /\ sock[Other(e)] # "up" /\ sock[e] = "up"

Rest(e) == [wire EXCEPT ![e] = Tail(@)]
Sent(w, e, items) == [w EXCEPT ![Other(e)] = IF sock[Other(e)] = "up" THEN @ \o items ELSE @]

-----------------------------------------------------------------------------
\* on_open(), in the container or joined, and the first read.
Opens(e) ==
    /\ stage' = [stage EXCEPT ![e] = "read"]
    /\ shown' = [shown EXCEPT ![e] = TRUE]

Handshakes(e) == stage' = [stage EXCEPT ![e] = "handshake"] /\ UNCHANGED shown

\* opened_cb() of the client: an SSL client speaks first.
OpenedCb ==
    /\ stage["client"] = "none"
    /\ IF secure["client"]
       THEN Handshakes("client") /\ wire' = Sent(wire, "client", <<"hello">>)
       ELSE Opens("client") /\ UNCHANGED wire
    /\ UNCHANGED <<secure, sock, closing, wrote, told, terminated>>

\* on_run() of the session.
OnRun ==
    /\ stage["server"] = "none"
    /\ IF secure["server"] THEN Handshakes("server") ELSE Opens("server")
    /\ UNCHANGED <<secure, sock, closing, wire, wrote, told, terminated>>

\* The SSL library answers the client.
SaysHello ==
    /\ stage["server"] = "handshake" /\ sock["server"] = "up" /\ Finds("server", "hello")
    /\ wire' = Sent(Rest("server"), "server", <<"server_hello">>)
    /\ UNCHANGED <<secure, stage, shown, sock, closing, wrote, told, terminated>>

\* on_handshake_cb() of the client, without error: the container learns of it.
OnHandshakeCb ==
    /\ stage["client"] = "handshake" /\ Finds("client", "server_hello")
    /\ wire' = Sent(Rest("client"), "client", <<"finished">>)
    /\ Opens("client")
    /\ UNCHANGED <<secure, sock, closing, wrote, told, terminated>>

\* on_handshake() of the session, without error: do_accept().
OnHandshake ==
    /\ stage["server"] = "handshake" /\ Finds("server", "finished")
    /\ wire' = Rest("server")
    /\ Opens("server")
    /\ UNCHANGED <<secure, sock, closing, wrote, told, terminated>>

\* What arrives is no handshake, or nothing more does.
Expected(e) == IF e = "client" THEN {"server_hello"} ELSE {"hello", "finished"}
BreaksHandshake(e) ==
    /\ stage[e] = "handshake"
    /\ sock[e] # "up" \/ Ended(e) \/ (wire[e] # <<>> /\ Head(wire[e]) \notin Expected(e))

\* The SSL library tells the other end why.
Alerts(e) == IF wire[e] = <<>> THEN UNCHANGED wire ELSE wire' = Sent(Rest(e), e, <<"alert">>)

-----------------------------------------------------------------------------
\* What on_close() does to the entry; before it, a bug that is ruled out.
StaysShown(e) == shown
Unshown(e) == [shown EXCEPT ![e] = FALSE]

(***************************************************************************)
(* fail(): on_close() takes the end out of the status.  An error is told,  *)
(* and close() called; eof, a cut off SSL stream and an aborted operation  *)
(* are no errors.  The container closes the client it erases.              *)
(***************************************************************************)
Fail(e, error) ==
    /\ stage' = [stage EXCEPT ![e] = "over"]
    /\ shown' = Unshown(e)
    /\ told' = [told EXCEPT ![e] = @ + IF error THEN 1 ELSE 0]
    /\ closing' = [closing EXCEPT ![e] = @ \/ error \/ (e = "client" /\ shown[e] /\ ~shown'[e])]

\* on_handshake() with an error: the failed session; before it, a bug that is ruled out.
OpensAnyway(error) == Opens("server") /\ UNCHANGED <<told, closing>>
FailsHandshake(error) == Fail("server", error)

OnHandshakeError ==
    /\ BreaksHandshake("server")
    /\ Alerts("server")
    /\ FailsHandshake(~Ended("server"))
    /\ UNCHANGED <<secure, sock, wrote, terminated>>

\* on_handshake_cb() with an error: the callbacks that on_close() calls are set by the
\* callback that an error does not reach.
OnHandshakeCbError ==
    /\ BreaksHandshake("client")
    /\ Alerts("client")
    /\ told' = [told EXCEPT !["client"] = @ + IF Ended("client") THEN 0 ELSE 1]
    /\ terminated' = TRUE
    /\ UNCHANGED <<secure, stage, shown, sock, closing, wrote>>

\* on_read(): a plain end shows all that comes, an SSL end what it can decipher.
Deciphers(e) == wire[e] # <<>> /\ (secure[e] => Head(wire[e]) = "secret")

OnRead(e) ==
    /\ stage[e] = "read" /\ sock[e] = "up" /\ Deciphers(e)
    /\ wire' = Rest(e)
    /\ UNCHANGED <<secure, stage, shown, sock, closing, wrote, told, terminated>>

OnReadError(e) ==
    /\ stage[e] = "read"
    /\ sock[e] # "up" \/ Ended(e) \/ (wire[e] # <<>> /\ ~Deciphers(e))
    /\ Fail(e, sock[e] # "closed" /\ ~Ended(e))
    /\ UNCHANGED <<secure, sock, wire, wrote, terminated>>

\* The users write, or close the connection; they can name what is shown.
UserWrites(e) ==
    /\ shown[e] /\ sock[e] = "up" /\ wrote[e] < MaxData
    /\ wire' = Sent(wire, e, IF secure[e] THEN <<"secret">> ELSE <<"data">>)
    /\ wrote' = [wrote EXCEPT ![e] = @ + 1]
    /\ UNCHANGED <<secure, stage, shown, sock, closing, told, terminated>>

UserCloses(e) ==
    /\ shown[e]
    /\ closing' = [closing EXCEPT ![e] = TRUE]
    /\ shown' = IF e = "client" THEN [shown EXCEPT ![e] = FALSE] ELSE shown
    /\ UNCHANGED <<secure, stage, sock, wire, wrote, told, terminated>>

\* closing(): an SSL end cuts the stream off as a plain one does.  It gives up when
\* shutdown fails.
Closing(e) ==
    /\ closing[e]
    /\ closing' = [closing EXCEPT ![e] = FALSE]
    /\ IF sock[e] # "up"
       THEN UNCHANGED <<sock, wire>>
       ELSE /\ sock' = [sock EXCEPT ![e] = "closed"]
            /\ wire' = [wire EXCEPT ![e] = <<>>]
    /\ UNCHANGED <<secure, stage, shown, wrote, told, terminated>>

\* The system resets an end that has sent what the other, closed, did not read.
Resets(e) ==
    /\ sock[e] = "up" /\ sock[Other(e)] = "closed"
    /\ sock' = [sock EXCEPT ![e] = "reset"]
    /\ wire' = [wire EXCEPT ![e] = <<>>]
    /\ UNCHANGED <<secure, stage, shown, closing, wrote, told, terminated>>

\* A session without an operation is destroyed.
Destroyed ==
    /\ stage["server"] = "over" /\ ~closing["server"] /\ sock["server"] # "closed"
    /\ sock' = [sock EXCEPT !["server"] = "closed"]
    /\ UNCHANGED <<secure, stage, shown, closing, wire, wrote, told, terminated>>

-----------------------------------------------------------------------------
\* The connection has been made; the handlers of both ends are ready.
Init ==
    /\ secure \in [Ends -> BOOLEAN]
    /\ stage = [e \in Ends |-> "none"]
    /\ shown = [e \in Ends |-> FALSE]
    /\ sock = [e \in Ends |-> "up"]
    /\ closing = [e \in Ends |-> FALSE]
    /\ wire = [e \in Ends |-> <<>>]
    /\ wrote = [e \in Ends |-> 0]
    /\ told = [e \in Ends |-> 0]
    /\ terminated = FALSE

ClientHandler == OpenedCb \/ OnHandshakeCb \/ OnHandshakeCbError
ServerHandler == OnRun \/ SaysHello \/ OnHandshake \/ OnHandshakeError \/ Destroyed
Handler(e) ==
    /\ ~terminated
    /\ \/ e = "client" /\ ClientHandler
       \/ e = "server" /\ ServerHandler
       \/ OnRead(e) \/ OnReadError(e)

Next ==
    \E e \in Ends :
        \/ Handler(e)
        \/ ~terminated /\ (Closing(e) \/ UserWrites(e) \/ UserCloses(e) \/ Resets(e))

Spec == Init /\ [][Next]_vars

\* asio runs every handler that is ready.
Fairness == \A e \in Ends : WF_vars(Handler(e)) /\ WF_vars(~terminated /\ Closing(e))

-----------------------------------------------------------------------------
(***************************************************************************)
(* Users see both ends of a connection only if the ends agree: an end      *)
(* that waits for its handshake, for however long, is in no status, "the   *)
(* socket will not be seen" (README.md), and one whose handshake failed    *)
(* never comes into one.                                                   *)
(***************************************************************************)
BothShownAgree == shown["client"] /\ shown["server"] => secure["client"] = secure["server"]

(***************************************************************************)
(* When the ends do not agree, no timeout breaks the connection: data      *)
(* does, "a error will be displayed (...) and the connection broken"       *)
(* (README.md).  Once the users of the plain end have written, the users   *)
(* of the SSL end are told an error, and then the plain end closes and     *)
(* leaves the status too -- unless the SSL end is the client, whose        *)
(* failure ends the daemon.                                                *)
(***************************************************************************)
MismatchBreaks ==
    \A e \in Ends :
        ~secure[e] /\ secure[Other(e)] /\ wrote[e] > 0
            ~> /\ told[Other(e)] > 0
               /\ terminated \/ (\A f \in Ends : sock[f] # "up" /\ ~shown[f])

=============================================================================
