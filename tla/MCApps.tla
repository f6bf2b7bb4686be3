------------------------------- MODULE MCApps -------------------------------
(***************************************************************************)
(* The apps that share nothing but the io_context, on small instances: a   *)
(* behaviour uses one of them, the TCP client app, the UDP apps or the     *)
(* serial app, and leaves the others as they start.  No variable of one is *)
(* read by another, and so their interleavings add nothing to these.       *)
(***************************************************************************)
EXTENDS TcpClient

CONSTANTS Socket, Handle, Name, NoName

VARIABLES
    app,    \* the app in use
    containers, role, socket_, udp_local, reading, writing_, failed, thrown,
    serials, stream_, device, port_name_, reads, writes, present, opened, leaked

U == INSTANCE UdpProofs WITH
        local <- udp_local,
        Fault <- {"no_socket", "read_error", "send_error"}

S == INSTANCE SerialProofs WITH
        Fault <- {"removed", "bad_baud", "read_error", "write_error"}

udp    == <<containers, role, socket_, udp_local, reading, writing_, failed, thrown>>
serial == <<serials, stream_, device, port_name_, reads, writes, present, opened, leaked>>

AppsInit ==
    /\ app \in {"tcp_client", "udp", "serial"}
    /\ Init /\ U!Init /\ S!Init

AppsNext ==
    /\ UNCHANGED app
    /\ \/ app = "tcp_client" /\ Next /\ UNCHANGED <<udp, serial>>
       \/ app = "udp" /\ U!Next /\ UNCHANGED <<vars, serial>>
       \/ app = "serial" /\ S!Next /\ UNCHANGED <<vars, udp>>

AppsSpec ==
    /\ AppsInit /\ [][AppsNext]_<<app, vars, udp, serial>>
    /\ Fairness /\ U!Fairness /\ S!Fairness

-----------------------------------------------------------------------------
\* The properties of the UDP apps and of the serial app, stated and explained there.
SocketsAreListed  == U!SocketsAreListed
SocketComesToRest == U!SocketComesToRest

PortsAreListed    == S!PortsAreListed
ClosedByItsOwnEnd == S!ClosedByItsOwnEnd
OpenedIsShown     == S!OpenedIsShown
RemovedIsUnlisted == S!RemovedIsUnlisted

=============================================================================
