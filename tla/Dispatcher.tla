----------------------------- MODULE Dispatcher -----------------------------
(***************************************************************************)
(* What the daemon does with the messages of its users, seen from the      *)
(* outside: on_message() relays a message to all, parses it, and gives it  *)
(* to the handler of an app, which answers its sender or all.              *)
(*                                                                         *)
(* A message is one action, for it is handled without a pause.  The        *)
(* containers of the apps are abstract here: the endpoints that are open.  *)
(* TcpServer, TcpClient, Udp and Serial say what is behind them.           *)
(***************************************************************************)
EXTENDS Messages

CONSTANTS
    Table,         \* the apps this daemon was built with
    Judged,        \* what users send: what the parsers make of it, by Judge()
    LocalPort      \* the ports the system gives to clients

VARIABLES
    daemon,        \* "up" or "down"
    listed,        \* the ports each app's container holds
    connecting,    \* TCP connections that are being made
    last,          \* history: the request last received, and what it was found to be
    answers        \* history: what was sent in that step

vars == <<daemon, listed, connecting, last, answers>>

Nothing == [request |-> NoRequest, allowed |-> FALSE, found |-> "nothing"]

Init ==
    /\ daemon = "up"
    /\ listed = [app \in EndpointApps |-> {}]
    /\ connecting = FALSE
    /\ last = Nothing
    /\ answers = <<>>

-----------------------------------------------------------------------------
\* Messages the daemon makes, by the overloads of Factory::create() for data and for a
\* control; they are sent in this order.
CreateData(app, what)       == [type |-> "data", app |-> app, what |-> what]
CreateControl(app, control) == [type |-> "control", app |-> app, what |-> control]

ToAll(msg)    == [to |-> "all", msg |-> msg]
ToSender(msg) == [to |-> "sender", msg |-> msg]

Send(messages) == answers' = messages

\* The factory is given a null name for an app that is not in the table.
Named(app) == app \in Table

\* add_mid(): the message itself, to its sender too.
Relay == ToAll([type |-> "any", app |-> "main", what |-> "relay"])

\* make_error_message() and fail_message(), to one user or to all.
ErrorMessage(app) == CreateControl(app, "error")
Fail(app) == ToSender(ErrorMessage(app))
FailAll(app) == ToAll(ErrorMessage(app))
IllFormed(app) == <<Fail(app)>>

Status(app) == CreateControl(app, "status")

-----------------------------------------------------------------------------
App(j)     == j.request[1]
Control(j) == j.request[2]

Found(j, what) == last' = [request |-> j.request, allowed |-> j.allowed, found |-> what]
Keeps == UNCHANGED <<listed, connecting>>

-----------------------------------------------------------------------------
\* Text that does not parse, or is no object: the sender alone is told.
OnMessageNotJson ==
    /\ Send(IllFormed("main")) /\ last' = [Nothing EXCEPT !.found = "refused"]
    /\ UNCHANGED daemon /\ Keeps

\* add_mid() sets the time, which has to be there: what it relays is never sent.
OnMessageNoTime(j) ==
    /\ j.main = "unchecked"
    /\ daemon' = "down"
    /\ Send(<<>>) /\ Found(j, "unchecked") /\ Keeps

OnMessageIllFormed(j) ==
    /\ j.main = "refused"
    /\ Send(<<Relay>> \o IllFormed("main")) /\ Found(j, "refused")
    /\ UNCHANGED daemon /\ Keeps

\* The message reaches the handler of its app, which runs a parser for it.
Handler(j, verdict) == j.main = "accepted" /\ j.parsed /\ j.verdict = verdict
NoCase(j) == j.main = "accepted" /\ ~j.parsed

\* The serial app sends its status after an open or a close, refused or not.
SerialStatus(j) ==
    IF App(j) = "serial" /\ Control(j) \in {"open", "close"}
    THEN <<ToAll(Status("serial"))>> ELSE <<>>

HandlerUnchecked(j) ==
    /\ Handler(j, "unchecked")
    /\ daemon' = "down"
    /\ Send(<<Relay>>) /\ Found(j, "unchecked") /\ Keeps

HandlerRefuses(j) ==
    /\ Handler(j, "refused")
    /\ Send(<<Relay>> \o IllFormed(App(j)) \o SerialStatus(j)) /\ Found(j, "refused")
    /\ UNCHANGED daemon /\ Keeps

\* Requests no handler has a case for: the apps of endpoints answer, the others do not,
\* and the main app has no handler at all.
HandlerHasNoCase(j) ==
    /\ NoCase(j) /\ App(j) \in EndpointApps /\ Control(j) # "status"
    /\ Send(<<Relay>> \o IllFormed(App(j))) /\ Found(j, "refused")
    /\ UNCHANGED daemon /\ Keeps

HandlerStatus(j) ==
    /\ NoCase(j) /\ App(j) \in EndpointApps \union {"serial"} /\ Control(j) = "status"
    /\ Send(<<Relay, ToAll(Status(App(j)))>>) /\ Found(j, "accepted")
    /\ UNCHANGED daemon /\ Keeps

HandlerIgnores(j) ==
    /\ NoCase(j) /\ App(j) \notin EndpointApps
    /\ j.request # <<"serial", "status">>
    /\ Send(<<Relay>>) /\ Found(j, "ignored")
    /\ UNCHANGED daemon /\ Keeps

-----------------------------------------------------------------------------
\* The handler has what it needs.
Accepts(j, apps, control) ==
    Handler(j, "accepted") /\ App(j) \in apps /\ Control(j) = control

\* A change is shown to all, and not only to the one who asked.
StatusToSender(app) == <<ToSender(Status(app))>>
StatusAfter(app) == <<ToAll(Status(app))>>

Adds(app, port) == port \notin listed[app] /\ listed' = [listed EXCEPT ![app] = @ \union {port}]

HandlerOpens(j) ==
    /\ Accepts(j, {"tcp_server", "udp_server"}, "open")
    /\ Adds(App(j), j.port)
    /\ Send(<<Relay>> \o StatusAfter(App(j))) /\ Found(j, "accepted")
    /\ UNCHANGED <<daemon, connecting>>

\* A client gets its port from the system: a UDP client at once, a TCP client when connected.
HandlerOpensUdpClient(j) ==
    /\ Accepts(j, {"udp_client"}, "open")
    /\ \E port \in LocalPort : Adds("udp_client", port)
    /\ Send(<<Relay>> \o StatusAfter("udp_client")) /\ Found(j, "accepted")
    /\ UNCHANGED <<daemon, connecting>>

HandlerConnects(j) ==
    /\ Accepts(j, {"tcp_client"}, "open")
    /\ connecting' = TRUE
    /\ Send(<<Relay>>) /\ Found(j, "accepted")
    /\ UNCHANGED <<daemon, listed>>

\* The status that a closed TCP client causes is sent by its last handler, AppSends.
HandlerCloses(j) ==
    /\ Accepts(j, EndpointApps, "close")
    /\ j.port \in listed[App(j)]
    /\ listed' = [listed EXCEPT ![App(j)] = @ \ {j.port}]
    /\ Send(<<Relay>> \o IF App(j) = "tcp_client" THEN <<>> ELSE StatusAfter(App(j)))
    /\ Found(j, "accepted")
    /\ UNCHANGED <<daemon, connecting>>

\* data, "close client", serial requests, the monitor: nothing that is listed changes.
HandlerDoes(j) ==
    /\ \/ Accepts(j, EndpointApps, "data") \/ Accepts(j, {"tcp_server"}, "custom")
       \/ Handler(j, "accepted") /\ App(j) \in {"serial", "monitor"}
    /\ Send(<<Relay>> \o SerialStatus(j)) /\ Found(j, "accepted")
    /\ UNCHANGED daemon /\ Keeps

EchoApp(j) ==
    /\ Handler(j, "accepted") /\ App(j) = "echo"
    /\ Send(<<Relay, ToAll(CreateData("echo", "echo"))>>) /\ Found(j, "accepted")
    /\ UNCHANGED daemon /\ Keeps

\* The app an error is reported for: the UDP client reports data it could not send as
\* the TCP client's.
ReportedFor(j) ==
    IF j.request = <<"udp_client", "data">> THEN "tcp_client" ELSE App(j)

Report(j, app) ==
    IF Named(app)
    THEN Send(<<Relay, Fail(app)>> \o SerialStatus(j)) /\ Found(j, "failed") /\ UNCHANGED daemon
    ELSE Send(<<Relay>>) /\ Found(j, "unchecked") /\ daemon' = "down"

\* The container refuses: in use, not found, or an error of the system.
ContainerFails(j) ==
    /\ Handler(j, "accepted") /\ App(j) \in EndpointApps \union {"serial"}
    /\ Accepts(j, EndpointApps, "close") => j.port \notin listed[App(j)]
    /\ Report(j, ReportedFor(j))
    /\ Keeps

-----------------------------------------------------------------------------
\* Handlers of sockets, ports and the timer send status and data to all at any time.
Connected ==
    /\ connecting /\ connecting' = FALSE
    /\ \E port \in LocalPort : Adds("tcp_client", port)
    /\ Send(StatusAfter("tcp_client")) /\ last' = Nothing
    /\ UNCHANGED daemon

AppSends(app) ==
    /\ \E msg \in {CreateData(app, "received"), Status(app)} : Send(<<ToAll(msg)>>)
    /\ last' = Nothing
    /\ UNCHANGED daemon /\ Keeps

\* UDP_Server::on_error() tells all, in the name of the TCP server app.
UdpServerFails ==
    /\ "udp_server" \in Table /\ listed["udp_server"] # {}
    /\ last' = Nothing
    /\ IF Named("tcp_server")
       THEN Send(<<FailAll("tcp_server")>>) /\ UNCHANGED daemon
       ELSE Send(<<>>) /\ daemon' = "down"
    /\ Keeps

OnMessage(j) ==
    \/ OnMessageNoTime(j) \/ OnMessageIllFormed(j)
    \/ HandlerUnchecked(j) \/ HandlerRefuses(j)
    \/ HandlerHasNoCase(j) \/ HandlerIgnores(j)
    \/ HandlerStatus(j)
    \/ HandlerOpens(j) \/ HandlerOpensUdpClient(j)
    \/ HandlerConnects(j) \/ HandlerCloses(j)
    \/ HandlerDoes(j) \/ EchoApp(j) \/ ContainerFails(j)

Next ==
    /\ daemon = "up"
    /\ \/ OnMessageNotJson
       \/ \E j \in Judged : OnMessage(j)
       \/ Connected \/ UdpServerFails
       \/ \E app \in Table \ {"main", "echo"} : AppSends(app)

Spec == Init /\ [][Next]_vars

-----------------------------------------------------------------------------
TypeOK ==
    /\ daemon \in {"up", "down"}
    /\ listed \in [EndpointApps -> SUBSET (0 .. UIntMod - 1)]
    /\ connecting \in BOOLEAN
    /\ last.found \in {"nothing", "accepted", "refused", "failed", "ignored", "unchecked"}

\* What an app shows can be used: whatever port it lists, a message made of its entry
\* closes it, or a client of it, and a message made of what was received answers it, pass
\* the parser and mean the same ports.  The makers and the parsers agree.
EntryOf(app, port, peer) ==
    CASE app = "tcp_server" -> TcpServerEntry(port, peer)
      [] app = "udp_server" -> UdpServerEntry(port)
      [] app = "tcp_client" -> TcpClientEntry(port, peer)
      [] app = "udp_client" -> UdpClientEntry(port, peer)

ReceivedBy(app, port, peer) ==
    CASE app = "tcp_server" -> TcpServerReceived(peer, port)
      [] app = "udp_server" -> UdpServerReceived(port, peer)
      [] app = "tcp_client" -> TcpClientReceived(port)
      [] app = "udp_client" -> UdpClientReceived(port)

Passes(phases) == Verdict(phases) = "accepted"

ClosesPort(app, port, entry) ==
    LET close == CloseOf(app, entry)
    IN  Passes(ParserEndpoint(close)) /\ PortAt(close, Data) = port

ClosesClient(port, peer, entry) ==
    LET close == CloseClientOf(entry)
    IN  /\ Passes(ParserCloseClients(close))
        /\ PortAt(close, Sub("server")) = port /\ Narrowed(close, Sub("client")) = peer

AnswersPeer(app, port, peer, received) ==
    LET answer == AnswerTo(app, received)
    IN  IF app \in Clients
        THEN Passes(ParserClientData(answer)) /\ PortAt(answer, Sub("local")) = port
        ELSE /\ Passes(ParserServerData(answer))
             /\ PortAt(answer, Sub("from")) = port /\ PortAt(answer, <<"data", "to", "1">>) = peer

ShownCanBeUsed ==
    /\ \A app \in EndpointApps : \A port \in listed[app], peer \in LocalPort :
           LET entry == EntryOf(app, port, peer)
           IN  /\ ClosesPort(app, port, entry)
               /\ app = "tcp_server" => ClosesClient(port, peer, entry)
               /\ AnswersPeer(app, port, peer, ReceivedBy(app, port, peer))
    /\ Passes(ParserSerialClose(CloseOf("serial", SerialEntry("tty"))))
    /\ Passes(ParserSerialData(Below(Data, Payload ++ SerialReceived("tty"))))

\* A message that the protocol allows is not refused and does not stop the daemon: no
\* check is stricter than what the apps need, and no parser reads more than it.
WellFormedIsHandled ==
    last.allowed =>
        daemon = "up" /\ last.found \in {"accepted", "failed", "ignored"}

\* Users are told what happened: an error means that no port was opened or closed, and
\* every change of the ports is followed by a status to all, but for a TCP client that
\* is closed, whose last handler sends it.
ToldWhatHappened ==
    [][ /\ (\E i \in DOMAIN answers' : answers'[i].msg.what = "error") => listed' = listed
        /\ listed' # listed =>
              \/ \E i \in DOMAIN answers' : answers'[i].to = "all" /\ answers'[i].msg.what = "status"
              \/ last'.request = <<"tcp_client", "close">> ]_vars

\* No message stops the daemon: on_message() is declared noexcept, and a parser checks
\* what it reads.  It does not hold: see MessageStops.
NoMessageStops == daemon = "up"

=============================================================================
