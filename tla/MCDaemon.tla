------------------------------ MODULE MCDaemon ------------------------------
(***************************************************************************)
(* What the daemon has one of, on small instances: its start and end, the  *)
(* dispatcher with the parsers, the monitor and the figures it reads.  A   *)
(* behaviour is one of a part, and leaves the others as they start: they   *)
(* share no variable.                                                      *)
(***************************************************************************)
EXTENDS Monitor, Integers, Sequences

CONSTANTS
    PortMin, PortMod, UIntMod, LocalPort,            \* see Messages and Dispatcher
    CommandLine, Built, Bad, None, UseSSL,           \* see Startup
    Comm, Cores, MaxTicks, MaxUptime                 \* see SystemInfo

VARIABLES
    part,    \* what this behaviour is one of
    daemon, listed, connecting, last, answers,
    phase, cmdl, args, file, stream, ec, listening, table, threads, io, signal,
    machine, clock, start_, sampling, message, used, worked

M == INSTANCE Messages

\* A port has 16 bits and a number 32; the ports that the system gives out are not reserved.
ASSUME PortsAssumption ==
    /\ PortMin \in Nat /\ PortMod \in Nat \ {0} /\ UIntMod \in Nat /\ UIntMod > 8 /\ PortMod <= UIntMod
    /\ \A port \in LocalPort : port \in Nat /\ M!IsValidPort(port)

-----------------------------------------------------------------------------
\* Documents that the protocol allows: one for each request of each app and every port.
d ++ e == M!++(d, e)

Main(app, type) ==
    M!Member(<<"app">>, M!Text(app)) ++ M!Member(<<"time">>, M!Number(0)) ++ M!Member(<<"type">>, M!Text(type))
Data(app) == Main(app, "data")
Control(app, control) == Main(app, "control") ++ M!Member(<<"ctype">>, M!Text(control))
Body(members) == M!Below(M!Data, M!Empty ++ members)

ValidPort == {port \in 0 .. PortMod - 1 : M!IsValidPort(port)}
EndpointIn(member, port) == M!Below(<<member>>, M!Endpoint(port))

Values(names, v) == [p \in {<<name>> : name \in names} |-> v]
KeepAlive ==
    M!Below(<<"options">>, M!Empty ++ M!Member(<<"keepalive">>, M!Bool)
                               ++ Values({"idle", "interval", "count"}, M!Number(1)))

\* What the protocol allows, whatever a parser takes.
Sizes == 5 .. 8
Encodings == {"text", "hex", "binary", "octo"}

SerialPort == M!Member(<<"port">>, M!Text("tty"))
SerialOptions(size, option) ==
    M!Member(<<"char_size">>, M!Number(size)) ++ Values(M!SerialUints, M!Number(option))

DataFrom(port, peer) ==
    EndpointIn("from", port) ++ M!Payload ++ M!Member(<<"to">>, M!Array) ++ M!Below(<<"to", "1">>, M!Endpoint(peer))

EndpointRequests(port, peer) ==
    {Control(app, "close") ++ Body(M!Endpoint(port)) : app \in M!EndpointApps}
    \union {Control(app, "open") ++ Body(M!Endpoint(port)) : app \in {"udp_server", "udp_client"}}
    \union {Control(app, "open") ++ Body(M!Endpoint(port) ++ M!Secure("plain") ++ options) :
               app \in {"tcp_server", "tcp_client"}, options \in {M!Empty, KeepAlive}}
    \union {Data(app) ++ Body(EndpointIn("local", port) ++ M!Payload) : app \in M!Clients}
    \union {Data(app) ++ Body(DataFrom(port, peer)) : app \in M!EndpointApps \ M!Clients}
    \union {Control("tcp_server", "custom") ++ Body(EndpointIn("server", port) ++ EndpointIn("client", peer))}

OtherRequests ==
    {Control(app, "status") : app \in M!EndpointApps \union {"serial"}}
    \union {Control("serial", "open") ++ Body(SerialPort ++ SerialOptions(size, option)) :
               size \in Sizes, option \in 0 .. 2}
    \union {Control("serial", "close") ++ Body(SerialPort),
            Data("serial") ++ Body(SerialPort ++ M!Payload),
            Control("monitor", "status") ++ Body(M!Member(<<"type">>, M!Text("set"))
                ++ M!Member(<<"sample_time">>, M!Number(1)) ++ M!Member(<<"cont">>, M!Bool)),
            Control("monitor", "status") ++ Body(M!Member(<<"type">>, M!Text("cancel")))}
    \union {Data("echo") ++ Body(M!Member(<<"type">>, M!Text(type)) ++ M!Payload) : type \in Encodings}

WellFormed == OtherRequests \union UNION {EndpointRequests(port, peer) : port, peer \in ValidPort}

\* One member of such a document is missing, or is something else.
Without(doc, path) ==
    [p \in {q \in DOMAIN doc : Len(q) < Len(path) \/ SubSeq(q, 1, Len(path)) # path} |-> doc[p]]
Wrong(v) ==
    IF v.is = "number" THEN {M!Number(n) : n \in {-1, 1, 5, 9, 16}} \union {M!Bool}
    ELSE {M!Text("error"), M!Number(0)}
Faulty(doc) ==
    UNION {{Without(doc, p)} \union {M!Member(p, v) ++ Without(doc, p) : v \in Wrong(doc[p])} : p \in DOMAIN doc}

Document == WellFormed \union UNION {Faulty(doc) : doc \in WellFormed}
                \union {Control(app, "error") : app \in M!Apps}

Judged == {M!Judge(doc, M!Apps, WellFormed) : doc \in Document}

D == INSTANCE Dispatcher WITH Table <- M!Apps

-----------------------------------------------------------------------------
\* Command lines: one option is unusual, or the file is.
Plain ==
    [asks |-> FALSE, prints |-> FALSE, file |-> None, port |-> 8080,
     addr |-> None, threads |-> None, key |-> "key", cert |-> "cert"]

Setting(key, value) == [key |-> key, value |-> value]
OptionFile ==
    {<<>>,
     <<Setting("port", 9000), Setting("threads", 2), Setting("addr", "::1")>>,
     <<Setting("port", 1), Setting("key", "other"), Setting("cert", Bad)>>,
     <<Setting("text", None), Setting("port", 9000)>>,
     <<Setting("colour", "red"), Setting("port", None), Setting("threads", 2)>>,
     <<Setting("addr", None), Setting("port", 9000)>>,
     <<Setting("port", 9000), Setting("threads", None)>>,
     <<Setting("threads", Bad), Setting("port", 9000)>>}

CommandLines ==
    {Plain, [Plain EXCEPT !.asks = TRUE], [Plain EXCEPT !.prints = TRUE], [Plain EXCEPT !.file = Bad]}
    \union {[Plain EXCEPT !.port = p, !.file = f] : p \in {None, Bad, 1, 2, 65535, 65536}, f \in OptionFile}
    \union {[Plain EXCEPT !.threads = t, !.file = f] : t \in {None, Bad, 0, 2}, f \in OptionFile}
    \union {[Plain EXCEPT !.addr = a] : a \in {"::1", Bad}}
    \union {[Plain EXCEPT !.key = k, !.file = f] : k \in {None, Bad}, f \in OptionFile}

AppsBuilt == <<"main", "echo", "monitor">>

St == INSTANCE Startup

\* The options that are numbers are read as such, on the command line and in a file, which
\* is a sequence of settings; the apps are registered in an order.
IsFile(f) ==
    /\ f \in Seq({f[i] : i \in DOMAIN f})
    /\ \A i \in DOMAIN f : f[i].key \in St!Numbers => f[i].value \in {None, Bad} \union Int

ASSUME CommandLineAssumption ==
    \A line \in CommandLine :
        /\ \A option \in St!Numbers : line[option] \in {None, Bad} \union Int
        /\ line.file \in {None, Bad} \/ IsFile(line.file)
ASSUME BuiltAssumption == Built \in Seq({Built[i] : i \in DOMAIN Built})

I == INSTANCE SystemInfo

-----------------------------------------------------------------------------
dispatcher == <<daemon, listed, connecting, last, answers>>
startup    == <<phase, cmdl, args, file, stream, ec, listening, table, threads, io, signal>>
info       == <<machine, clock, start_, sampling, message, used, worked>>

\* A part that is not used starts in the first of its states.
DaemonInit ==
    /\ part \in {"monitor", "dispatcher", "startup", "info"}
    /\ Init /\ D!Init
    /\ St!Init /\ (part = "startup" \/ cmdl = Plain)
    /\ I!Init /\ (part = "info" \/ machine = CHOOSE m \in [comm : Comm, cores : Cores, started : {0}] : TRUE)

DaemonNext ==
    /\ UNCHANGED part
    /\ \/ part = "monitor" /\ Next /\ UNCHANGED <<dispatcher, startup, info>>
       \/ part = "dispatcher" /\ D!Next /\ UNCHANGED <<vars, startup, info>>
       \/ part = "startup" /\ St!Next /\ UNCHANGED <<vars, dispatcher, info>>
       \/ part = "info" /\ I!Next /\ UNCHANGED <<vars, dispatcher, startup>>

DaemonSpec ==
    /\ DaemonInit /\ [][DaemonNext]_<<part, vars, dispatcher, startup, info>>
    /\ Fairness /\ (part = "startup" => St!Fairness)

-----------------------------------------------------------------------------
\* The properties of the parts, stated and explained in their modules.
ShownCanBeUsed      == part = "dispatcher" => D!ShownCanBeUsed
WellFormedIsHandled == D!WellFormedIsHandled
ToldWhatHappened    == D!ToldWhatHappened
NoMessageStops      == D!NoMessageStops

RunningIsConfigured == St!RunningIsConfigured
StartupEnds         == part = "startup" => St!StartupEnds
SignalStops         == St!SignalStops

FiguresAreRight == part = "info" => I!FiguresAreRight

=============================================================================
