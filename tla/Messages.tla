------------------------------ MODULE Messages ------------------------------
(***************************************************************************)
(* What the parsers of the apps make of a message.  A message is a JSON    *)
(* document; here it is a function from the paths of its members to what   *)
(* is there, so that a member that is missing is not in the domain.        *)
(*                                                                         *)
(* Every parser is a check_...() of the members it needs, and then a       *)
(* get_...() that reads them.  RapidJSON asserts that a member that is     *)
(* read is there and of the kind that is asked for: without that assertion *)
(* the behaviour is undefined.  A parser is written as the sequence of its *)
(* phases, and the first phase that is not met decides the verdict.        *)
(***************************************************************************)
EXTENDS Integers, Sequences

CONSTANTS
    PortMin, PortMod,    \* CONFIG_VALID_TCP_PORT_MIN, and 2^16
    UIntMod              \* 2^32

\* What a member may be.  A number has a value; so has a string that is compared.
Number(n) == [is |-> "number", n |-> n]
Text(s)   == [is |-> "string", s |-> s]
Other(k)  == [is |-> k]

Array    == Other("array")
Object   == Other("object")
Bool     == Other("bool")

\* The tests of RapidJSON.  A payload is given as bytes, in an object, or as text.
Is(v, kind) ==
    CASE kind = "uint64"  -> v.is = "number" /\ v.n >= 0
      [] kind = "uint"    -> v.is = "number" /\ v.n \in 0 .. UIntMod - 1
      [] kind = "int"     -> v.is = "number" /\ 2 * v.n \in -UIntMod .. UIntMod - 1
      [] kind = "payload" -> v.is \in {"object", "string"}
      [] kind = "any"     -> TRUE
      [] OTHER            -> v.is = kind

Has(doc, path) == path \in DOMAIN doc

\* Needs are pairs of a path and a kind: a conjunction of HasMember() and Is...().
Met(doc, needs) == \A need \in needs : Has(doc, need[1]) /\ Is(doc[need[1]], need[2])

\* A phase of a parser that refuses the message, and one that reads members.
Check(doc, needs) == [reads |-> FALSE, met |-> Met(doc, needs)]
Valid(condition)  == [reads |-> FALSE, met |-> condition]
Read(doc, needs)  == [reads |-> TRUE, met |-> Met(doc, needs)]

FirstUnmet(phases, i) ==
    /\ i \in DOMAIN phases /\ ~phases[i].met
    /\ \A j \in 1 .. i - 1 : phases[j].met

Verdict(phases) ==
    IF \A i \in DOMAIN phases : phases[i].met THEN "accepted"
    ELSE IF \E i \in DOMAIN phases : FirstUnmet(phases, i) /\ phases[i].reads
    THEN "unchecked" ELSE "refused"

-----------------------------------------------------------------------------
\* Elements of a list, "to" or the bytes of a payload, are at the paths of its indices.
Index == {"1", "2"}
Items(doc, path) == {path \o <<i>> : i \in Index} \cap DOMAIN doc
Members(doc, path) == {p \in DOMAIN doc : Len(p) = Len(path) + 1 /\ SubSeq(p, 1, Len(path)) = path}

Data == <<"data">>
Sub(key) == <<"data", key>>

DataObject == {<<Data, "object">>}
EndpointAt(path) == {<<path \o <<"addr">>, "string">>, <<path \o <<"port">>, "uint">>}

\* make_address() with an error code: the text is an address, or the message is refused.
Address == Text("address")
IsAddress(doc, path) == doc[path \o <<"addr">>] = Address

PortAt(doc, path) == doc[path \o <<"port">>].n

\* is_valid_port(): above the reserved ports, which PortMin is the last of.
IsValidPort(port) == port > PortMin /\ port < PortMod

\* A port that is converted to uint16_t before it is tested.
Narrowed(doc, path) == PortAt(doc, path) % PortMod

\* The endpoint in a member, read as its get_...() reads it; the test is skipped when the
\* members are not there, for the phase before decides then.
ValidEndpoint(doc, path) ==
    Met(doc, EndpointAt(path)) => IsValidPort(PortAt(doc, path)) /\ IsAddress(doc, path)

ValidNarrowed(doc, path) ==
    Met(doc, EndpointAt(path)) => IsValidPort(Narrowed(doc, path)) /\ IsAddress(doc, path)

\* json_2_byte_array(): every element of an array or an object is read as a number.
Bytes(doc, path) ==
    IF Met(doc, {<<path, "object">>}) \/ Met(doc, {<<path, "array">>})
    THEN {<<p, "uint">> : p \in Members(doc, path)}
    ELSE {}

-----------------------------------------------------------------------------
\* The main part of a message: which app, which control.
Apps == {"main", "echo", "serial", "monitor", "tcp_server", "tcp_client", "udp_server", "udp_client"}
EndpointApps == {"tcp_server", "tcp_client", "udp_server", "udp_client"}
Controls == {"status", "error", "open", "close", "config", "custom"}

MainNeeds == {<<<<"app">>, "string">>, <<<<"time">>, "uint64">>, <<<<"type">>, "string">>}

\* parser_main(): check_message, get_app (a name in the table), get_type, get_time.
ParserMain(doc, table) ==
    LET type == doc[<<"type">>].s
        ctype == <<<<"ctype">>, "string">>
        present == Met(doc, MainNeeds)
    IN  << Check(doc, MainNeeds),
           Valid(present => doc[<<"app">>].s \in table),
           Valid(present => type \in {"data", "control"}),
           Valid(present /\ type = "control" => Met(doc, {ctype}) /\ doc[<<"ctype">>].s \in Controls),
           Read(doc, MainNeeds) >>

MainControl(doc) == IF doc[<<"type">>].s = "data" THEN "data" ELSE doc[<<"ctype">>].s

-----------------------------------------------------------------------------
\* The TCP and UDP clients name a connection by its local endpoint.
ClientDataNeeds == {<<Sub("data"), "payload">>, <<Sub("local"), "object">>} \union EndpointAt(Sub("local"))

ParserClientData(doc) ==
    << Check(doc, DataObject), Check(doc, ClientDataNeeds),
       Read(doc, EndpointAt(Sub("local"))), Valid(ValidEndpoint(doc, Sub("local"))),
       Read(doc, Bytes(doc, Sub("data"))) >>

\* keepalive options: a server's are int, a client's unsigned.  They may be missing.
KeepAliveNeeds(int) ==
    {<<Sub("options"), "object">>, <<<<"data", "options", "keepalive">>, "bool">>}
        \union {<<<<"data", "options", o>>, int>> : o \in {"idle", "interval", "count"}}

GetKeepAlive(doc, int) ==
    Read(doc, IF Met(doc, KeepAliveNeeds(int)) THEN KeepAliveNeeds(int) ELSE {})

TcpOpenNeeds == EndpointAt(Data) \union {<<Sub("secure"), "string">>}

ParserTcpClientOpen(doc) ==
    << Check(doc, DataObject), Check(doc, TcpOpenNeeds),
       Read(doc, TcpOpenNeeds), Valid(ValidNarrowed(doc, Data)), GetKeepAlive(doc, "uint") >>

ParserUdpClientOpen(doc) ==
    << Check(doc, DataObject), Check(doc, EndpointAt(Data)),
       Read(doc, EndpointAt(Data)), Valid(ValidNarrowed(doc, Data)) >>

\* close of all four apps of endpoints, and open of the UDP server.
ParserEndpoint(doc) ==
    << Check(doc, DataObject), Check(doc, EndpointAt(Data)),
       Read(doc, EndpointAt(Data)), Valid(ValidEndpoint(doc, Data)) >>

\* The TCP server's address is left to make_address() in message_open(), which throws.
ParserTcpServerOpen(doc) ==
    << Check(doc, DataObject), Check(doc, TcpOpenNeeds), Read(doc, TcpOpenNeeds),
       Valid(Met(doc, TcpOpenNeeds) => IsValidPort(Narrowed(doc, Data))), GetKeepAlive(doc, "int") >>

MakeAddress(doc) ==
    << [reads |-> TRUE, met |-> Met(doc, EndpointAt(Data)) => IsAddress(doc, Data)] >>

\* "close client": a server, and a client whose port is narrowed first.
CloseClientNeeds ==
    {<<Sub("server"), "object">>, <<Sub("client"), "object">>}
        \union EndpointAt(Sub("server")) \union EndpointAt(Sub("client"))

ParserCloseClients(doc) ==
    << Check(doc, DataObject), Check(doc, CloseClientNeeds),
       Read(doc, EndpointAt(Sub("server"))), Valid(ValidEndpoint(doc, Sub("server"))),
       Read(doc, EndpointAt(Sub("client"))), Valid(ValidNarrowed(doc, Sub("client"))) >>

-----------------------------------------------------------------------------
\* data of the servers: "from" a server, "to" a list of its clients.  The parentheses of
\* check_data() refuse a bad "from" only if "to" is a list, and never a missing "to".
FromNeeds == {<<Sub("from"), "object">>} \union EndpointAt(Sub("from"))
ToNeeds   == {<<Sub("to"), "array">>}

FromOrNoTo(doc) == ~(~Met(doc, FromNeeds) /\ Met(doc, ToNeeds))

ClientNeeds(doc) ==
    UNION {{<<p, "object">>} \union EndpointAt(p) : p \in Items(doc, Sub("to"))}

ParserServerData(doc) ==
    << Check(doc, DataObject), Valid(FromOrNoTo(doc)), Read(doc, ToNeeds),
       Check(doc, ClientNeeds(doc)), Check(doc, {<<Sub("data"), "payload">>}),
       Read(doc, FromNeeds), Valid(ValidEndpoint(doc, Sub("from"))),
       Valid(\A p \in Items(doc, Sub("to")) : ValidEndpoint(doc, p)),
       Read(doc, Bytes(doc, Sub("data"))) >>

-----------------------------------------------------------------------------
\* The serial app.  Its character size throws when it is not 5 to 8 bits.
SerialUints == {"baudrate", "parity", "stopbit", "char_size", "flow_control", "fc_start", "fc_stop"}
SerialConfigNeeds ==
    {<<Sub("port"), "string">>} \union {<<Sub(o), "uint">> : o \in SerialUints}

SevenBits == 5 .. 7
CharSizes == 5 .. 8

ParserSerialConfig(doc) ==
    LET value(o) == doc[Sub(o)].n
        present == Met(doc, SerialConfigNeeds)
    IN  << Check(doc, DataObject), Check(doc, SerialConfigNeeds), Read(doc, SerialConfigNeeds),
           [reads |-> TRUE, met |-> present => value("char_size") \in CharSizes],
           Valid(present => value("stopbit") \in 0 .. 2 /\ value("parity") \in 0 .. 2
                              /\ value("flow_control") \in 0 .. 2) >>

ParserSerialClose(doc) ==
    << Check(doc, DataObject), Check(doc, {<<Sub("port"), "string">>}),
       Read(doc, {<<Sub("port"), "string">>}) >>

ParserSerialData(doc) ==
    << Check(doc, DataObject), Check(doc, {<<Sub("port"), "string">>, <<Sub("data"), "payload">>}),
       Read(doc, Bytes(doc, Sub("data"))) >>

-----------------------------------------------------------------------------
\* The monitor checks the members of "set", and reads them for all but "cancel".
MonitorNeeds == {<<Sub("sample_time"), "int">>, <<Sub("cont"), "bool">>}
MonitorTypeIs(doc, t) == Met(doc, {<<Sub("type"), "string">>}) /\ doc[Sub("type")].s = t

ParserMonitor(doc) ==
    << Check(doc, DataObject), Check(doc, {<<Sub("type"), "string">>}),
       Check(doc, IF MonitorTypeIs(doc, "set") THEN MonitorNeeds ELSE {}),
       Read(doc, IF MonitorTypeIs(doc, "cancel") THEN {} ELSE MonitorNeeds) >>

\* Echo reads its payload as bytes, whatever its type; a text is left alone.
EchoTypes == {"text", "hex", "binary", "octo"}

ParserEcho(doc) ==
    << Check(doc, DataObject), Check(doc, {<<Sub("type"), "string">>, <<Sub("data"), "any">>}),
       Valid(Met(doc, {<<Sub("type"), "string">>}) => doc[Sub("type")].s \in EchoTypes),
       Read(doc, Bytes(doc, Sub("data"))) >>

-----------------------------------------------------------------------------
\* The document that is parsed: time() has replaced what the sender wrote.
Timed(doc)   == Met(doc, {<<<<"time">>, "any">>})
Stamped(doc) == [doc EXCEPT ![<<"time">>] = Number(0)]

\* The parser a handler runs for a request, and what it reads after.
Phases(doc, app, control) ==
    CASE app \in {"tcp_client", "udp_client"} /\ control = "data" -> ParserClientData(doc)
      [] app \in {"tcp_server", "udp_server"} /\ control = "data" -> ParserServerData(doc)
      [] app \in EndpointApps /\ control = "close"      -> ParserEndpoint(doc)
      [] <<app, control>> = <<"udp_server", "open">>    -> ParserEndpoint(doc)
      [] <<app, control>> = <<"tcp_client", "open">>    -> ParserTcpClientOpen(doc)
      [] <<app, control>> = <<"udp_client", "open">>    -> ParserUdpClientOpen(doc)
      [] <<app, control>> = <<"tcp_server", "open">>    -> ParserTcpServerOpen(doc) \o MakeAddress(doc)
      [] <<app, control>> = <<"tcp_server", "custom">>  -> ParserCloseClients(doc)
      [] <<app, control>> = <<"serial", "open">>        -> ParserSerialConfig(doc)
      [] <<app, control>> = <<"serial", "close">>       -> ParserSerialClose(doc)
      [] <<app, control>> = <<"serial", "data">>        -> ParserSerialData(doc)
      [] <<app, control>> = <<"monitor", "status">>     -> ParserMonitor(doc)
      [] app = "echo"                                   -> ParserEcho(doc)
      [] OTHER                                          -> <<>>

NoRequest == <<"none", "none">>

\* The port as the get_...() of the request leaves it, and as it was written.
TakenWide(doc, request) ==
    IF request[1] \notin EndpointApps \/ ~Met(doc, EndpointAt(Data)) THEN 0 ELSE PortAt(doc, Data)
Taken(doc, request) ==
    IF request[1] \notin EndpointApps \/ ~Met(doc, EndpointAt(Data)) THEN 0
    ELSE IF request = <<"tcp_server", "open">> THEN Narrowed(doc, Data)
    ELSE PortAt(doc, Data)

\* All that matters of a document.  Messages with the same judgement are handled alike.
Judge(doc, table, allowed) ==
    LET main == IF ~Timed(doc) THEN "unchecked" ELSE Verdict(ParserMain(Stamped(doc), table))
        request == IF main = "accepted" THEN <<doc[<<"app">>].s, MainControl(doc)>> ELSE NoRequest
        phases == IF main = "accepted" THEN Phases(doc, request[1], request[2]) ELSE <<>>
    IN  [allowed |-> doc \in allowed, main |-> main, request |-> request,
         parsed |-> phases # <<>>, verdict |-> Verdict(phases),
         port |-> IF Verdict(phases) = "accepted" THEN Taken(doc, request) ELSE 0]

-----------------------------------------------------------------------------
\* What the daemon makes, as members below the "data" of a message.
Below(path, members) ==
    [p \in {path \o q : q \in DOMAIN members} |-> members[SubSeq(p, Len(path) + 1, Len(p))]]

Part(doc, path) ==
    LET below == {p \in DOMAIN doc : Len(p) >= Len(path) /\ SubSeq(p, 1, Len(path)) = path}
    IN  [q \in {SubSeq(p, Len(path) + 1, Len(p)) : p \in below} |-> doc[path \o q]]

\* One member, and the members of two documents.
Member(path, v) == [p \in {path} |-> v]
d ++ e == [p \in DOMAIN d \union DOMAIN e |-> IF p \in DOMAIN d THEN d[p] ELSE e[p]]

Empty == Member(<<>>, Object)
Endpoint(port) == Empty ++ Member(<<"addr">>, Address) ++ Member(<<"port">>, Number(port))
Secure(text) == Member(<<"secure">>, Text(text))

\* make_status_message(): the entry of an endpoint, with its peer.
TcpServerEntry(port, client) ==
    Endpoint(port) ++ Secure("plain") ++ Member(<<"clients">>, Array)
        ++ Below(<<"clients", "1">>, Endpoint(client))

UdpServerEntry(port) == Endpoint(port)

TcpClientEntry(local, remote) ==
    Empty ++ Secure("plain") ++ Below(<<"local">>, Endpoint(local)) ++ Below(<<"remote">>, Endpoint(remote))

UdpClientEntry(local, remote) ==
    Empty ++ Below(<<"local">>, Endpoint(local)) ++ Below(<<"remote">>, Endpoint(remote))

\* The messages of received data: bytes, and where they came from and went to.
ByteArray == Member(<<"data">>, Array) ++ Member(<<"data", "1">>, Number(0))

TcpServerReceived(from, to) ==
    Empty ++ Below(<<"from">>, Endpoint(from)) ++ Below(<<"to">>, Endpoint(to)) ++ ByteArray

UdpServerReceived(to, from) ==
    Empty ++ Below(<<"from">>, Endpoint(from)) ++ Below(<<"to">>, Endpoint(to)) ++ ByteArray

TcpClientReceived(local) == Empty ++ Below(<<"local">>, Endpoint(local)) ++ ByteArray

UdpClientReceived(local) == Empty ++ Below(<<"local">>, Endpoint(local)) ++ ByteArray

\* The serial app names its ports.
SerialEntry(port) ==
    Empty ++ Member(<<"port">>, Text(port)) ++ Member(<<"open">>, Bool) ++ Member(<<"config">>, Object)
        ++ [p \in {<<"config", o>> : o \in SerialUints \ {"fc_start", "fc_stop"}} |-> Number(8)]

SerialReceived(port) == Empty ++ Member(<<"port">>, Text(port)) ++ ByteArray

-----------------------------------------------------------------------------
\* What users make of it: a message that closes an entry, or answers what was received.
\* They send bytes as the members of an object: an array is refused.
Clients == {"tcp_client", "udp_client"}
Payload == Member(<<"data">>, Object) ++ Member(<<"data", "1">>, Number(0))

CloseOf(app, entry) == Below(Data, Part(entry, IF app \in Clients THEN <<"local">> ELSE <<>>))

CloseClientOf(entry) ==
    Below(Data, Empty ++ Below(<<"server">>, Part(entry, <<>>))
                    ++ Below(<<"client">>, Part(entry, <<"clients", "1">>)))

AnswerTo(app, received) ==
    Below(Data,
        IF app \in Clients
        THEN Empty ++ Below(<<"local">>, Part(received, <<"local">>)) ++ Payload
        ELSE Empty ++ Below(<<"from">>, Part(received, <<"to">>)) ++ Payload
                 ++ Member(<<"to">>, Array) ++ Below(<<"to", "1">>, Part(received, <<"from">>)))

=============================================================================
