------------------------------- MODULE Options -------------------------------
(***************************************************************************)
(* The options users give when they open: keepalive for the connections of *)
(* a TCP server or client, the configuration of a serial port.  Each goes  *)
(* through several hands before it reaches a socket or a device, and some  *)
(* of them after the message has been handled.                             *)
(***************************************************************************)
EXTENDS Naturals, Sequences

CONSTANTS
    Conn,     \* TCP connections, each made once
    Port,     \* serial ports
    Value     \* the values of an option

VARIABLES
    share,     \* the Data_Share of the TCP server, once it is open
    end,       \* what a connection is: none, being made, or an end of the server or client app
    wants,     \* history: the options asked for when it was opened
    socket,    \* the options its socket has
    device,    \* the options each serial device has
    listed,    \* the serial ports in the container
    asked,     \* history: the configuration that was asked for
    told,      \* history: was the user who opened it told an error?
    shown      \* the configurations in the last status

vars == <<share, end, wants, socket, device, listed, asked, told, shown>>

tcp    == <<share, end, wants, socket>>
serial == <<device, listed, asked, told, shown>>

-----------------------------------------------------------------------------
\* What the structures hold, and sockets of which no option has been set.
KeepAliveOptions == [on : BOOLEAN, idle : Value, count : Value, interval : Value]
Default == [on |-> FALSE, idle |-> 0, count |-> 0, interval |-> 0]

\* get_keepalive() reads options by their names; without them, "on" stays FALSE and the
\* others are not initialised.
GetKeepAlive == KeepAliveOptions
NoKeepAlive == {o \in KeepAliveOptions : ~o.on}

\* keep_alive() of a session or client: the socket's option, and those of TCP.
TcpOptions(options, idle, count, interval) ==
    [options EXCEPT !.idle = idle, !.count = count, !.interval = interval]
EnableKeepAlive(options, set) == [options EXCEPT !.on = set]
KeepAlive(options, idle, count, interval, set) ==
    TcpOptions(EnableKeepAlive(options, set), idle, count, interval)

\* message_open() of the server: set_share_data() copies the options.
MessageOpenServer ==
    /\ share = Default
    /\ share' \in GetKeepAlive \union NoKeepAlive
    /\ UNCHANGED <<end, wants, socket, serial>>

\* on_open() of a session.
OnOpen(c) ==
    /\ end[c] = "none" /\ share # Default
    /\ end' = [end EXCEPT ![c] = "server"]
    /\ wants' = [wants EXCEPT ![c] = share]
    /\ socket' = IF share.on
                 THEN [socket EXCEPT ![c] = KeepAlive(@, share.idle, share.interval, share.count, TRUE)]
                 ELSE socket
    /\ UNCHANGED <<share, serial>>

\* message_open() of the client returns before the connection is made.
MessageOpenClient(c) ==
    /\ end[c] = "none"
    /\ end' = [end EXCEPT ![c] = "connecting"]
    /\ \E options \in GetKeepAlive \union NoKeepAlive : wants' = [wants EXCEPT ![c] = options]
    /\ UNCHANGED <<share, socket, serial>>

\* init_client() reads the message that message_open() had on its stack: anything may be
\* there.
InitClient(c) ==
    /\ end[c] = "connecting"
    /\ end' = [end EXCEPT ![c] = "client"]
    /\ \E data \in KeepAliveOptions :
           socket' = [socket EXCEPT ![c] = KeepAlive(@, data.idle, data.count, data.interval, data.on)]
    /\ UNCHANGED <<share, wants, serial>>

-----------------------------------------------------------------------------
\* The configuration of a serial port, in the order config() sets it.
Order == <<"baudrate", "char_size", "parity", "stopbit", "flow_control">>
Configs == [{Order[i] : i \in DOMAIN Order} -> Value]

\* set_option(): a device that refuses an option keeps the one it has.
SetOption(options, config, name, refused) ==
    [options EXCEPT ![name] = IF name \in refused THEN @ ELSE config[name]]

\* get_config(), option by option.
GetOption(options, name) == options[name]
GetConfig(p) == [name \in DOMAIN device'[p] |-> GetOption(device'[p], name)]

\* The device after some options have been tried, in their order.
Tried(options, config, names, refused) ==
    [name \in DOMAIN options |->
        IF name \in names THEN SetOption(options, config, name, refused)[name] ELSE options[name]]

\* config() of the container ends at the first error.  Before it, a bug that is ruled out:
\* all are tried, and the error is that of the last.
TriesAll(refused) == [names |-> {Order[i] : i \in DOMAIN Order}, error |-> "flow_control" \in refused]
Config(refused) ==
    LET stops == {i \in DOMAIN Order : Order[i] \in refused}
        first == CHOOSE i \in stops : \A j \in stops : i <= j
    IN  IF stops = {} THEN [names |-> {Order[i] : i \in DOMAIN Order}, error |-> FALSE]
        ELSE [names |-> {Order[i] : i \in 1 .. first}, error |-> TRUE]

\* make_serial_status(): the ports that are open, with what the devices say.
SerialStatus == shown' = [p \in listed' |-> GetConfig(p)]

\* serial_open(): open() sets the baud rate first, and a device may refuse it there; then
\* the port is in the container, and config() follows, with a device that may refuse one of
\* the options (it makes no difference what it says to those after it).  An error is told,
\* and the status sent in every case.
SerialOpen(p) ==
    /\ p \notin listed
    /\ \E config \in Configs :
          \/ told' = [told EXCEPT ![p] = TRUE] /\ UNCHANGED <<device, listed, asked>>
          \/ /\ asked' = [asked EXCEPT ![p] = config]
             /\ \E refused \in {{}} \union {{Order[i]} : i \in DOMAIN Order} :
                   LET done == Config(refused)
                       baud == SetOption(device[p], config, "baudrate", {})
                   IN  /\ device' = [device EXCEPT ![p] = Tried(baud, config, done.names, refused)]
                       /\ told' = [told EXCEPT ![p] = done.error]
                       /\ listed' = listed \union {p}
    /\ SerialStatus
    /\ UNCHANGED tcp

\* serial_close().
SerialClose(p) ==
    /\ p \in listed
    /\ listed' = listed \ {p}
    /\ UNCHANGED <<device, asked, told, tcp>>
    /\ SerialStatus

-----------------------------------------------------------------------------
Init ==
    /\ share = Default
    /\ end = [c \in Conn |-> "none"]
    /\ wants = [c \in Conn |-> Default]
    /\ socket = [c \in Conn |-> Default]
    /\ device \in [Port -> {[o \in {Order[i] : i \in DOMAIN Order} |-> v] : v \in Value}]
    /\ listed = {}
    /\ asked = device
    /\ told = [p \in Port |-> FALSE]
    /\ shown = [p \in {} |-> p]

NextTcp ==
    \/ MessageOpenServer
    \/ \E c \in Conn : OnOpen(c) \/ MessageOpenClient(c) \/ InitClient(c)

NextSerial == \E p \in Port : SerialOpen(p) \/ SerialClose(p)

Next == NextTcp \/ NextSerial

Spec == Init /\ [][Next]_vars

-----------------------------------------------------------------------------
(***************************************************************************)
(* No option is lost silently.  The device of a serial port that is listed *)
(* has the whole configuration that was asked for, or its user was told an *)
(* error -- the port is open all the same, at least at the baud rate that  *)
(* was asked for -- and the last status shows what the devices have.  The  *)
(* connections of a TCP server have keepalive if its opener asked for it,  *)
(* after the idle time that was asked for, and only then ("When opening,   *)
(* you can also enable keepalive", README.md).  More cannot be said: their *)
(* count and interval are exchanged, and a client's options are gone.      *)
(***************************************************************************)
AskedIsSet ==
    /\ \A p \in listed :
        /\ device[p] = asked[p] \/ told[p]
        /\ device[p]["baudrate"] = asked[p]["baudrate"]
    /\ shown = [p \in listed |-> device[p]]
    /\ \A c \in Conn : end[c] = "server" =>
        /\ socket[c].on = wants[c].on
        /\ wants[c].on => socket[c].idle = wants[c].idle

=============================================================================
