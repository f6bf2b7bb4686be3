----------------------------- MODULE MCLibrary -----------------------------
(***************************************************************************)
(* What the apps and the websockets take from my_async, on small           *)
(* instances: the write side of a transport, the way of a connection to a  *)
(* websocket session, a pair of TCP ends, and the options users give.  A   *)
(* behaviour is one of a part, and leaves the others as they start: they   *)
(* share no variable.                                                      *)
(***************************************************************************)
EXTENDS WriteQueue

CONSTANTS Conn, MaxData, Port, Value    \* see Upgrade, SecurePair and Options

VARIABLES
    part,    \* what this behaviour is one of
    kind, accept, session, wire, script, ended,
    secure, stage, shown, sock, closing, pair_wire, wrote, told, terminated,
    share, end, wants, socket, device, listed, asked, refused, configs

U == INSTANCE Upgrade
P == INSTANCE SecurePair WITH wire <- pair_wire

\* Options reach each connection on its own: one is enough.
O == INSTANCE Options WITH Conn <- {CHOOSE c \in Conn : TRUE}, told <- refused, shown <- configs

upgrade == <<kind, accept, session, wire, script, ended>>
pair    == <<secure, stage, shown, sock, closing, pair_wire, wrote, told, terminated>>
options == <<share, end, wants, socket, device, listed, asked, refused, configs>>

\* A part that is not used starts in one of its states.
LibraryInit ==
    /\ part \in {"write", "upgrade", "pair", "keepalive", "serial"}
    /\ Init
    /\ U!Init /\ (part = "upgrade" \/ <<kind, script>> = <<"plain", [c \in Conn |-> <<"get", "response">>]>>)
    /\ P!Init /\ (part = "pair" \/ secure = [e \in P!Ends |-> FALSE])
    /\ O!Init /\ (part = "serial" \/ device = [p \in Port |-> [o \in DOMAIN device[p] |-> 1]])

LibraryNext ==
    /\ UNCHANGED part
    /\ \/ part = "write" /\ Next /\ UNCHANGED <<upgrade, pair, options>>
       \/ part = "upgrade" /\ U!Next /\ UNCHANGED <<vars, pair, options>>
       \/ part = "pair" /\ P!Next /\ UNCHANGED <<vars, upgrade, options>>
       \/ part = "keepalive" /\ O!NextTcp /\ UNCHANGED <<vars, upgrade, pair>>
       \/ part = "serial" /\ O!NextSerial /\ UNCHANGED <<vars, upgrade, pair>>

LibrarySpec ==
    /\ LibraryInit /\ [][LibraryNext]_<<part, vars, upgrade, pair, options>>
    /\ Fairness
    /\ (part = "upgrade" => U!Fairness)
    /\ (part = "pair" => P!Fairness)

-----------------------------------------------------------------------------
\* The properties of the parts, stated and explained in their modules.
NobodyWaits         == U!NobodyWaits
EveryConnectionEnds == U!EveryConnectionEnds
BothShownAgree      == P!BothShownAgree
MismatchBreaks      == P!MismatchBreaks
AskedIsSet          == O!AskedIsSet

=============================================================================
