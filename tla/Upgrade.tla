------------------------------- MODULE Upgrade -------------------------------
(***************************************************************************)
(* How a connection becomes a websocket session.  A Listener_Base makes    *)
(* the session at once: plain sessions read the request, SSL sessions do   *)
(* their handshake first.  A Listener_Dual serves both: Detect_Session     *)
(* looks at the first bytes, http_session reads the request, and the       *)
(* session is run with it.  On the way the socket, what was read too much  *)
(* and the timeout are handed from object to object.                       *)
(*                                                                         *)
(* Each object holds the shared_ptr of its outstanding operation only: one *)
(* that starts no other is destroyed, and the socket with it, unless it    *)
(* was moved on.                                                           *)
(***************************************************************************)
EXTENDS Naturals, Sequences

CONSTANT Conn    \* the connections clients make, each used once

VARIABLES
    kind,      \* the listener: "plain" or "ssl", of one kind of session, or "dual"
    accept,    \* its async_accept: waiting, or stopped
    session,   \* where each connection is, and what the object there has
    wire,      \* what each client has sent and the server has not read
    script,    \* what the client still sends, and which answers it waits for
    ended      \* the clients that have left

vars == <<kind, accept, session, wire, script, ended>>

Answers == {"server_hello", "response"}
Hello == <<"hello", "server_hello", "finished">>

\* A client waits for the answer to one thing before it sends the next.
Scripts ==
    {secure \o <<request, "response">> :
        secure \in {<<>>, Hello}, request \in {"upgrade", "get"}}

\* The stages at which the server waits for the client.
Stages == {"detect", "handshake", "read", "ssl_run", "accept", "shutdown"}

None == [stage |-> "none", expires |-> FALSE, secure |-> FALSE, buffer |-> <<>>, request |-> FALSE]

\* The operation that is outstanding reads what the object was given, then the socket.
Input(c) == session[c].buffer \o wire[c]
At(c, stage) == session[c].stage = stage
Finds(c, stage, item) == At(c, stage) /\ Input(c) # <<>> /\ Head(Input(c)) = item
FindsOther(c, stage, item) == At(c, stage) /\ Input(c) # <<>> /\ Head(Input(c)) # item

Becomes(c, s) == session' = [session EXCEPT ![c] = s]

\* The item is consumed; the session goes on as s.
Consumes(c, s) ==
    IF session[c].buffer # <<>>
    THEN Becomes(c, [s EXCEPT !.buffer = Tail(session[c].buffer)]) /\ UNCHANGED wire
    ELSE Becomes(c, s) /\ wire' = [wire EXCEPT ![c] = Tail(@)]

\* The client gets what it waits for.
Answered(c) == script' = [script EXCEPT ![c] = Tail(@)]

\* expires_after() of the stream, and the timeouts of a websocket that set_run_options()
\* sets: the operation that is outstanding ends in the end.  expires_never() is what the
\* stream starts with.
ExpiresNever == FALSE
ExpiresAfter == TRUE
SetRunOptions(s) == [s EXCEPT !.stage = "accept", !.expires = TRUE]

\* run() of a session with a request, and what http_session does before it.
RunWith(s) == SetRunOptions([s EXCEPT !.request = TRUE])
MakeWebsocket(s) == RunWith([s EXCEPT !.expires = ExpiresNever])

\* do_eof() of a plain and of an SSL connection.
PlainEof(s) == [s EXCEPT !.stage = "gone"]
SslEof(s) == [s EXCEPT !.stage = "shutdown", !.expires = ExpiresAfter]

-----------------------------------------------------------------------------
\* The listener.  Listener_Base ends its loop at an error, Listener_Dual goes on.
Stops == "stopped"
AcceptsAgain == "waiting"

OnAcceptError ==
    /\ accept = "waiting"
    /\ accept' = IF kind = "dual" THEN AcceptsAgain ELSE "stopped"
    /\ UNCHANGED <<kind, session, wire, script, ended>>

\* Listener_Dual: a Detect_Session, which waits for the first bytes.
OnAcceptDual(c) ==
    /\ accept = "waiting" /\ kind = "dual" /\ At(c, "backlog")
    /\ Becomes(c, [None EXCEPT !.stage = "detect", !.expires = ExpiresAfter])
    /\ UNCHANGED <<kind, accept, wire, script, ended>>

\* Listener_Base: a session, on_run().
OnRun(c) ==
    /\ accept = "waiting" /\ kind # "dual" /\ At(c, "backlog")
    /\ Becomes(c, IF kind = "plain" THEN SetRunOptions(None)
                  ELSE [None EXCEPT !.stage = "ssl_run", !.secure = TRUE, !.expires = ExpiresAfter])
    /\ UNCHANGED <<kind, accept, wire, script, ended>>

-----------------------------------------------------------------------------
\* What the next object gets of the bytes that were read; before it, a bug that is
\* ruled out.
NothingMoved(bytes) == <<>>
Moved(bytes) == bytes

\* on_detect(): an SSL client says hello first.
OnDetect(c) ==
    /\ At(c, "detect")
    /\ \E n \in 1 .. Len(wire[c]) :
           LET read == SubSeq(wire[c], 1, n)
               ssl == read[1] = "hello"
           IN  /\ Becomes(c, [session[c] EXCEPT !.stage = IF ssl THEN "handshake" ELSE "read",
                                                !.secure = ssl, !.expires = ExpiresAfter,
                                                !.buffer = Moved(read)])
               /\ wire' = [wire EXCEPT ![c] = SubSeq(@, n + 1, Len(@))]
    /\ UNCHANGED <<kind, accept, script, ended>>

\* The SSL library answers the hello of the client, in either handshake.
SaysHello(c) ==
    /\ \E stage \in {"handshake", "ssl_run"} : Finds(c, stage, "hello")
    /\ Consumes(c, session[c])
    /\ Answered(c)
    /\ UNCHANGED <<kind, accept, ended>>

\* on_handshake() of ssl_http_session.
OnHandshake(c) ==
    /\ Finds(c, "handshake", "finished")
    /\ Consumes(c, [session[c] EXCEPT !.stage = "read", !.expires = ExpiresAfter])
    /\ UNCHANGED <<kind, accept, script, ended>>

\* on_handshake() of a websocket session.
OnHandshakeSession(c) ==
    /\ Finds(c, "ssl_run", "finished")
    /\ Consumes(c, SetRunOptions([session[c] EXCEPT !.expires = ExpiresNever]))
    /\ UNCHANGED <<kind, accept, script, ended>>

\* on_read(): the session gets the stream and the request.
OnReadUpgrade(c) ==
    /\ Finds(c, "read", "upgrade")
    /\ Consumes(c, MakeWebsocket(session[c]))
    /\ UNCHANGED <<kind, accept, script, ended>>

\* on_read() with any other request: nothing is started.
OnReadOther(c) ==
    /\ Finds(c, "read", "get")
    /\ Consumes(c, [session[c] EXCEPT !.stage = "gone"])
    /\ UNCHANGED <<kind, accept, script, ended>>

\* on_read() at the end of the stream: do_eof().
OnReadEof(c) ==
    /\ At(c, "read") /\ Input(c) = <<>> /\ c \in ended
    /\ Becomes(c, IF session[c].secure THEN SslEof(session[c]) ELSE PlainEof(session[c]))
    /\ UNCHANGED <<kind, accept, wire, script, ended>>

\* The acceptance answers the request, its own or the one the session was run with.
OnAccept(c) ==
    /\ At(c, "accept")
    /\ LET open == [session[c] EXCEPT !.stage = "open"]
       IN  IF session[c].request THEN Becomes(c, open) /\ UNCHANGED wire
           ELSE Finds(c, "accept", "upgrade") /\ Consumes(c, open)
    /\ Answered(c)
    /\ UNCHANGED <<kind, accept, ended>>

\* The outstanding operation ends with an error, which its object prints: what it found
\* is not what it was for, the client has left, or it has taken too long.
Refused(c) ==
    \/ ~session[c].request /\ FindsOther(c, "accept", "upgrade")
    \/ \E stage \in {"handshake", "ssl_run"} :
           FindsOther(c, stage, "hello") /\ Head(Input(c)) # "finished"
    \/ c \in ended /\ Input(c) = <<>> /\ ~At(c, "read")

Fail(c) ==
    /\ session[c].stage \in Stages
    /\ Refused(c) \/ session[c].expires
    /\ Becomes(c, [session[c] EXCEPT !.stage = "gone"])
    /\ UNCHANGED <<kind, accept, wire, script, ended>>

-----------------------------------------------------------------------------
\* The clients.
Connect(c) ==
    /\ At(c, "none")
    /\ Becomes(c, [None EXCEPT !.stage = "backlog"])
    /\ UNCHANGED <<kind, accept, wire, script, ended>>

Sends(c) ==
    /\ ~At(c, "none") /\ c \notin ended
    /\ script[c] # <<>> /\ Head(script[c]) \notin Answers
    /\ wire' = [wire EXCEPT ![c] = Append(@, Head(script[c]))]
    /\ script' = [script EXCEPT ![c] = Tail(@)]
    /\ UNCHANGED <<kind, accept, session, ended>>

Leaves(c) ==
    /\ ~At(c, "none") /\ c \notin ended
    /\ ended' = ended \union {c}
    /\ UNCHANGED <<kind, accept, session, wire, script>>

Init ==
    /\ kind \in {"plain", "ssl", "dual"}
    /\ accept = "waiting"
    /\ session = [c \in Conn |-> None]
    /\ wire = [c \in Conn |-> <<>>]
    /\ script \in [Conn -> Scripts]
    /\ ended = {}

Handler(c) ==
    \/ OnDetect(c) \/ SaysHello(c) \/ OnHandshake(c) \/ OnHandshakeSession(c)
    \/ OnReadUpgrade(c) \/ OnReadOther(c) \/ OnReadEof(c) \/ OnAccept(c)
    \/ Fail(c)

Accepts(c) == OnAcceptDual(c) \/ OnRun(c)

Next ==
    \/ OnAcceptError
    \/ \E c \in Conn : Accepts(c) \/ Handler(c) \/ Connect(c) \/ Sends(c) \/ Leaves(c)

Spec == Init /\ [][Next]_vars

\* Handlers run and time passes; what lets an accept fail does not do so for ever.  A
\* client may stop at any point.
Fairness == \A c \in Conn : WF_vars(Handler(c)) /\ SF_vars(Accepts(c))

-----------------------------------------------------------------------------
(***************************************************************************)
(* The two ends never wait for each other: while a client waits for an     *)
(* answer, what it has sent is still before the server's operation, or     *)
(* the connection is over.  Bytes that were read to look at them, and not  *)
(* handed on, would leave both waiting until the timeout.                  *)
(***************************************************************************)
NobodyWaits ==
    \A c \in Conn :
        /\ session[c].stage \in Stages /\ ~(At(c, "accept") /\ session[c].request)
        /\ script[c] # <<>> /\ Head(script[c]) \in Answers
        => Input(c) # <<>>

(***************************************************************************)
(* No client holds a connection half open: each that was accepted, by a    *)
(* dual listener each that was made, becomes a session or is dropped,      *)
(* wherever the client stops, although every object on the way has to set  *)
(* the timeout anew.                                                       *)
(***************************************************************************)
EveryConnectionEnds ==
    \A c \in Conn :
        session[c].stage \in Stages \/ (kind = "dual" /\ At(c, "backlog"))
            ~> session[c].stage \in {"open", "gone"}

=============================================================================
