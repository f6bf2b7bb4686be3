--------------------------- MODULE TcpServerProofs ---------------------------
(***************************************************************************)
(* The TCP server app, for any number of clients and listeners, any ports  *)
(* and any faults: who is joined, what is listed, what the users are shown.*)
(***************************************************************************)
EXTENDS TcpServer, TLAPS

\* The clients a status lists.
JoinedAndListed == {c \in share_ : \E p \in Listed : servers_[p] = of[c]}

\* A session that has joined has a read on its way, which ends in fail().
JoinedReads == \A c \in share_ : rd[c] # "idle"

\* A session that reads has joined, or an earlier fail() found its socket dead.
ReadersJoined == \A c \in Client : rd[c] # "idle" => c \in share_ \/ Throws(c)

\* The last status is never out of date.
StatusCurrent == ~terminated => shown = [servers |-> Listed, clients |-> JoinedAndListed]

\* A client that has not connected has no session.
NotConnected ==
    \A c \in Client : link[c] = "none" =>
        c \notin share_ /\ ~run[c] /\ \A l \in Listener : accept[l] # c

(***************************************************************************)
(* The inductive invariant.  StatusAccurate and ShareHoldsLiveSessions do  *)
(* not survive a step by themselves: both rest on the read of a session,   *)
(* which begins as it joins and ends as it leaves.                         *)
(***************************************************************************)
IInv ==
    /\ TypeOK
    /\ ListedIffListening
    /\ JoinedReads
    /\ ReadersJoined
    /\ StatusCurrent
    /\ NotConnected

-----------------------------------------------------------------------------
\* After a step that sends the status, the status is current.
LEMMA StatusSent ==
    ASSUME SendStatus, UNCHANGED of
    PROVE  StatusCurrent'
PROOF
  <1> QED
    BY DEF SendStatus, StatusCurrent, JoinedAndListed, ClientsShown, Listed

\* ... and it names ports and clients.
LEMMA StatusTyped ==
    ASSUME TypeOK, SendStatus,
           DOMAIN servers_' \subseteq 0..(PortMod - 1), share_' \subseteq Client
    PROVE  /\ shown' \in [servers : SUBSET (0..(PortMod - 1)), clients : SUBSET Client]
           /\ terminated' \in BOOLEAN
PROOF
  <1>1. CASE \E c \in ClientsShown : link'[c] \in {"reset", "closed"}
    BY <1>1 DEF SendStatus, TypeOK
  <1>2. CASE ~ \E c \in ClientsShown : link'[c] \in {"reset", "closed"}
    <2>1. shown' = [servers |-> DOMAIN servers_', clients |-> ClientsShown]
      BY <1>2 DEF SendStatus
    <2>2. ClientsShown \subseteq Client
      BY DEF ClientsShown
    <2>3. shown' \in [servers : SUBSET (0..(PortMod - 1)), clients : SUBSET Client]
      BY <2>1, <2>2
    <2> QED
      BY <1>2, <2>3 DEF SendStatus, TypeOK
  <1> QED
    BY <1>1, <1>2

\* A quiet step that moves no session of a listed server keeps it current.
LEMMA StatusKept ==
    ASSUME StatusCurrent, Quiet, UNCHANGED <<servers_, share_>>,
           \A c \in share_ : of'[c] = of[c]
    PROVE  StatusCurrent'
PROOF
  <1>1. JoinedAndListed' = JoinedAndListed
    BY DEF JoinedAndListed, Listed
  <1> QED
    BY <1>1 DEF StatusCurrent, Quiet, Listed

\* A step that ends the daemon changes nothing else.
LEMMA TerminateKeeps ==
    ASSUME IInv, Terminate
    PROVE  IInv'
PROOF
  <1> USE DEF IInv, Terminate, listeners, sessions
  <1>1. TypeOK'
    BY DEF TypeOK
  <1>2. ListedIffListening'
    BY DEF ListedIffListening, Listed
  <1>3. JoinedReads' /\ ReadersJoined'
    BY DEF JoinedReads, ReadersJoined, Throws
  <1>4. StatusCurrent' /\ NotConnected'
    BY DEF StatusCurrent, NotConnected
  <1> QED
    BY <1>1, <1>2, <1>3, <1>4

\* What a step that changes neither servers_ nor an acceptor keeps.
LEMMA ListingKept ==
    ASSUME ListedIffListening, UNCHANGED <<servers_, acceptor>>
    PROVE  ListedIffListening'
PROOF
  <1> QED
    BY DEF ListedIffListening, Listed

\* The listener of an entry is open, on the port of the entry.
LEMMA EntriesListen ==
    ASSUME TypeOK, ListedIffListening, NEW p \in Listed
    PROVE  /\ servers_[p] \in Listener
           /\ acceptor[servers_[p]].state = "open" /\ acceptor[servers_[p]].port = p
PROOF
  <1>1. acceptor[servers_[p]] = [state |-> "open", port |-> p]
    BY DEF ListedIffListening
  <1>2. servers_[p] \in Listener
    BY DEF TypeOK, Listed
  <1> QED
    BY <1>1, <1>2

\* What a step that changes neither share_ nor a read nor a connection keeps.
LEMMA JoiningKept ==
    ASSUME JoinedReads, ReadersJoined, UNCHANGED <<share_, rd, link>>
    PROVE  JoinedReads' /\ ReadersJoined'
PROOF
  <1> QED
    BY DEF JoinedReads, ReadersJoined, Throws

\* Nothing is open, listed, connected or shown at the start.
LEMMA InitIInv == Init => IInv
PROOF
  <1> SUFFICES ASSUME Init PROVE IInv
    OBVIOUS
  <1> USE DEF Init
  <1>1. DOMAIN servers_ = {} /\ share_ = {}
    OBVIOUS
  <1>2. TypeOK
    <2>1. 0 \in 0..(PortMod - 1)
      BY PortAssumption
    <2>2. acceptor \in [Listener -> [state : {"none", "open", "closing", "closed"},
                                    port : 0..(PortMod - 1)]]
      BY <2>1
    <2>3. shown \in [servers : SUBSET (0..(PortMod - 1)), clients : SUBSET Client]
      BY Zenon
    <2> QED
      BY <1>1, <2>2, <2>3, Zenon DEF TypeOK
  <1>3. ListedIffListening
    BY <1>1 DEF ListedIffListening, Listed
  <1>4. JoinedReads /\ ReadersJoined
    BY <1>1 DEF JoinedReads, ReadersJoined
  <1>5. JoinedAndListed = {}
    BY <1>1 DEF JoinedAndListed
  <1>6. StatusCurrent
    BY <1>1, <1>5 DEF StatusCurrent, Listed
  <1>7. NotConnected
    BY <1>1, NamesAssumption DEF NotConnected
  <1> QED
    BY <1>2, <1>3, <1>4, <1>6, <1>7 DEF IInv

-----------------------------------------------------------------------------
\* open: the new listener is in no entry of the container, for those are open.
LEMMA OpenKeeps ==
    ASSUME IInv, NEW raw \in Requested, NEW l \in Listener, MessageOpen(raw, l)
    PROVE  IInv'
PROOF
  <1> DEFINE p == OpenPort(raw)
  <1> USE DEF IInv
  <1>1. p \in 0..(PortMod - 1)
    BY PortAssumption DEF OpenPort
  <1>2. /\ p \notin Listed /\ IsValidPort(p) /\ acceptor[l].state = "none"
        /\ servers_' = [q \in Listed \union {p} |-> IF q = p THEN l ELSE servers_[q]]
        /\ acceptor' = [acceptor EXCEPT ![l] = [state |-> "open", port |-> p]]
        /\ accept' = [accept EXCEPT ![l] = "waiting"]
        /\ UNCHANGED <<of, link, run, rd, wr, closing, share_>>
        /\ SendStatus
    BY DEF MessageOpen, sessions
  <1>3. /\ DOMAIN servers_' = Listed \union {p} /\ servers_'[p] = l
        /\ \A q \in Listed : servers_'[q] = servers_[q]
    BY <1>2
  <1>4. TypeOK'
    <2>1. DOMAIN servers_' \subseteq 0..(PortMod - 1) /\ share_' \subseteq Client
      BY <1>1, <1>2, <1>3 DEF TypeOK, Listed
    <2>2. \A q \in DOMAIN servers_' : servers_'[q] \in Listener
      BY <1>2, <1>3 DEF TypeOK, Listed
    <2>3. acceptor' \in [Listener -> [state : {"none", "open", "closing", "closed"},
                                     port : 0..(PortMod - 1)]]
      BY <1>1, <1>2 DEF TypeOK
    <2> QED
      BY <1>2, <2>1, <2>2, <2>3, StatusTyped DEF TypeOK
  <1>5. ListedIffListening'
    <2>1. acceptor'[l] = [state |-> "open", port |-> p]
      BY <1>2 DEF TypeOK
    <2>2. \A k \in Listener : k # l => acceptor'[k] = acceptor[k]
      BY <1>2 DEF TypeOK
    <2>3. \A q \in Listed : servers_[q] \in Listener /\ acceptor[servers_[q]].state = "open"
      BY EntriesListen
    <2>4. \A q \in Listed : servers_[q] # l /\ servers_[q] \in Listener
      BY <1>2, <2>3
    <2> QED
      BY <1>2, <1>3, <2>1, <2>2, <2>4 DEF ListedIffListening, Listed
  <1>6. JoinedReads' /\ ReadersJoined'
    BY <1>2, JoiningKept
  <1>7. StatusCurrent'
    BY <1>2, StatusSent
  <1>8. NotConnected'
    BY <1>2, NamesAssumption DEF NotConnected, TypeOK
  <1> QED
    BY <1>4, <1>5, <1>6, <1>7, <1>8

\* close: two entries of the container are never the same listener.
LEMMA CloseKeeps ==
    ASSUME IInv, NEW p \in Requested, MessageClose(p)
    PROVE  IInv'
PROOF
  <1> DEFINE l == servers_[p]
  <1> USE DEF IInv
  <1>1. /\ p \in Listed /\ l \in Listener
        /\ closing' = [c \in Client |-> closing[c] \/ c \in SharesOf(l)]
        /\ acceptor' = [acceptor EXCEPT ![l].state = "closing"]
        /\ servers_' = [q \in Listed \ {p} |-> servers_[q]]
        /\ UNCHANGED <<accept, of, link, run, rd, wr, share_>>
        /\ SendStatus
    BY DEF MessageClose, Erased, TypeOK, Listed
  <1>2. /\ DOMAIN servers_' = Listed \ {p}
        /\ \A q \in Listed \ {p} : servers_'[q] = servers_[q]
    BY <1>1
  <1>3. TypeOK'
    <2>1. DOMAIN servers_' \subseteq 0..(PortMod - 1) /\ share_' \subseteq Client
      BY <1>1, <1>2 DEF TypeOK, Listed
    <2>2. \A q \in DOMAIN servers_' : servers_'[q] \in Listener
      BY <1>1, <1>2 DEF TypeOK, Listed
    <2>3. acceptor' \in [Listener -> [state : {"none", "open", "closing", "closed"},
                                     port : 0..(PortMod - 1)]]
      BY <1>1 DEF TypeOK
    <2>4. closing' \in [Client -> BOOLEAN]
      BY <1>1 DEF TypeOK
    <2> QED
      BY <1>1, <2>1, <2>2, <2>3, <2>4, StatusTyped DEF TypeOK
  <1>4. ListedIffListening'
    <2>1. acceptor'[l].state = "closing"
      BY <1>1 DEF TypeOK
    <2>2. \A k \in Listener : k # l => acceptor'[k] = acceptor[k]
      BY <1>1 DEF TypeOK
    <2>3. \A q \in Listed : servers_[q] \in Listener /\ acceptor[servers_[q]].port = q
      BY EntriesListen
    <2>4. \A q \in Listed \ {p} : servers_[q] # l /\ servers_[q] \in Listener
      BY <1>1, <2>3
    <2> QED
      BY <1>1, <1>2, <2>1, <2>2, <2>4 DEF ListedIffListening, Listed
  <1>5. JoinedReads' /\ ReadersJoined'
    BY <1>1, JoiningKept
  <1>6. StatusCurrent'
    BY <1>1, StatusSent
  <1>7. NotConnected'
    BY <1>1 DEF NotConnected
  <1> QED
    BY <1>3, <1>4, <1>5, <1>6, <1>7

\* The other messages.
LEMMA MessageKeeps ==
    ASSUME IInv, Message
    PROVE  IInv'
PROOF
  <1> USE DEF IInv
  <1>1. CASE MessageStatus
    <2>1. UNCHANGED <<servers_, acceptor, accept, of, link, run, rd, wr, closing, share_>>
          /\ SendStatus
      BY <1>1 DEF MessageStatus, listeners, sessions
    <2>2. TypeOK'
      BY <2>1, StatusTyped DEF TypeOK
    <2>3. ListedIffListening' /\ JoinedReads' /\ ReadersJoined'
      BY <2>1, ListingKept, JoiningKept
    <2> QED
      BY <2>1, <2>2, <2>3, StatusSent DEF NotConnected
  <1>2. CASE \E raw \in Requested, l \in Listener : MessageOpen(raw, l)
    BY <1>2, OpenKeeps
  <1>3. CASE \E raw \in Requested : MessageOpenBadAddress(raw)
    BY <1>3, TerminateKeeps DEF MessageOpenBadAddress
  <1>4. CASE \E raw \in Requested : MessageClose(raw)
    BY <1>4, CloseKeeps
  <1>5. ASSUME NEW p \in Requested, NEW to \in SUBSET Client, MessageData(p, to)
        PROVE  IInv'
    <2>1. CASE Terminate
      BY <2>1, TerminateKeeps
    <2>2. CASE ~Terminate
      <3>1. /\ wr' = [c \in Client |-> IF c \in to \cap SharesOf(servers_[p]) /\ wr[c] = "idle"
                                       THEN "posted" ELSE wr[c]]
            /\ UNCHANGED <<servers_, acceptor, accept, of, link, run, rd, closing, share_>>
            /\ Quiet
        BY <1>5, <2>2 DEF MessageData, listeners
      <3>2. TypeOK'
        BY <3>1 DEF TypeOK, Quiet
      <3>3. ListedIffListening' /\ JoinedReads' /\ ReadersJoined' /\ StatusCurrent'
        BY <3>1, ListingKept, JoiningKept, StatusKept
      <3> QED
        BY <3>1, <3>2, <3>3 DEF NotConnected
    <2> QED
      BY <2>1, <2>2
  <1>6. ASSUME NEW p \in Requested, NEW c \in Client, MessageCloseClient(p, c)
        PROVE  IInv'
    <2>1. CASE Terminate
      BY <2>1, TerminateKeeps
    <2>2. CASE ~Terminate
      <3>1. /\ closing' = [closing EXCEPT ![c] = @ \/ c \in SharesOf(servers_[p])]
            /\ UNCHANGED <<servers_, acceptor, accept, of, link, run, rd, wr, share_>>
            /\ Quiet
        BY <1>6, <2>2 DEF MessageCloseClient, listeners
      <3>2. TypeOK'
        BY <3>1 DEF TypeOK, Quiet
      <3>3. ListedIffListening' /\ JoinedReads' /\ ReadersJoined' /\ StatusCurrent'
        BY <3>1, ListingKept, JoiningKept, StatusKept
      <3> QED
        BY <3>1, <3>2, <3>3 DEF NotConnected
    <2> QED
      BY <2>1, <2>2
  <1> QED
    BY <1>1, <1>2, <1>3, <1>4, <1>5, <1>6 DEF Message

-----------------------------------------------------------------------------
\* A step that moves only what hangs on the accept loop of l.
LEMMA ListenerKeeps ==
    ASSUME IInv, NEW l \in Listener,
           ListenerHandler(l) \/ OnAcceptError(l)
             \/ \E c \in Client : Connect(c, l) \/ AcceptCompletes(l, c)
    PROVE  IInv'
PROOF
  <1> USE DEF IInv
  <1>1. CASE OnAccept(l)
    <2>1. /\ accept[l] \in Client
          /\ run' = [run EXCEPT ![accept[l]] = TRUE]
          /\ accept' = [accept EXCEPT ![l] = DoAccept(l)]
          /\ DoAccept(l) \in {"idle", "waiting"}
          /\ UNCHANGED <<servers_, acceptor, of, link, rd, wr, closing, share_>>
          /\ Quiet
      BY <1>1 DEF OnAccept, DoAccept
    <2>2. TypeOK'
      BY <2>1 DEF TypeOK, Quiet
    <2>3. ListedIffListening' /\ JoinedReads' /\ ReadersJoined' /\ StatusCurrent'
      BY <2>1, ListingKept, JoiningKept, StatusKept
    <2>4. link[accept[l]] # "none"
      BY <2>1 DEF NotConnected
    <2>5. NotConnected'
      BY <2>1, <2>4, NamesAssumption DEF NotConnected, TypeOK
    <2> QED
      BY <2>2, <2>3, <2>5
  <1>2. CASE OnAcceptError(l)
    <2>1. /\ accept' = [accept EXCEPT ![l] = "idle"]
          /\ UNCHANGED <<servers_, acceptor, of, link, run, rd, wr, closing, share_>>
          /\ Quiet
      BY <1>2 DEF OnAcceptError, sessions
    <2>2. TypeOK'
      BY <2>1 DEF TypeOK, Quiet
    <2>3. ListedIffListening' /\ JoinedReads' /\ ReadersJoined' /\ StatusCurrent'
      BY <2>1, ListingKept, JoiningKept, StatusKept
    <2>4. NotConnected'
      BY <2>1, NamesAssumption DEF NotConnected, TypeOK
    <2> QED
      BY <2>2, <2>3, <2>4
  <1>3. CASE ClosingListener(l)
    <2>1. /\ acceptor[l].state = "closing"
          /\ acceptor' = [acceptor EXCEPT ![l].state = "closed"]
          /\ accept' = [accept EXCEPT ![l] = IF @ = "waiting" THEN "idle" ELSE @]
          /\ link' = [c \in Client |-> IF of[c] = l /\ link[c] = "backlog"
                                       THEN "reset" ELSE link[c]]
          /\ UNCHANGED <<servers_, of, run, rd, wr, closing, share_>>
          /\ Quiet
      BY <1>3 DEF ClosingListener
    <2>2. TypeOK'
      BY <2>1 DEF TypeOK, Quiet
    <2>3. ListedIffListening'
      <3>1. acceptor'[l].state = "closed"
        BY <2>1 DEF TypeOK
      <3>2. \A k \in Listener : k # l => acceptor'[k] = acceptor[k]
        BY <2>1 DEF TypeOK
      <3>3. \A p \in Listed : servers_[p] \in Listener /\ acceptor[servers_[p]].state = "open"
        BY EntriesListen
      <3>4. \A p \in Listed : servers_[p] \in Listener /\ servers_[p] # l
        BY <2>1, <3>3
      <3> QED
        BY <2>1, <3>1, <3>2, <3>4 DEF ListedIffListening, Listed
    <2>4. JoinedReads' /\ ReadersJoined'
      BY <2>1 DEF JoinedReads, ReadersJoined, Throws, TypeOK
    <2>5. NotConnected'
      BY <2>1, NamesAssumption DEF NotConnected, TypeOK
    <2> QED
      BY <2>1, <2>2, <2>3, <2>4, <2>5, StatusKept
  <1>4. ASSUME NEW c \in Client, Connect(c, l)
        PROVE  IInv'
    <2>1. /\ link[c] = "none"
          /\ link' = [link EXCEPT ![c] = "backlog"]
          /\ of' = [of EXCEPT ![c] = l]
          /\ UNCHANGED <<servers_, acceptor, accept, run, rd, wr, closing, share_>>
          /\ Quiet
      BY <1>4 DEF Connect, listeners
    <2>2. TypeOK'
      BY <2>1 DEF TypeOK, Quiet
    <2>3. JoinedReads' /\ ReadersJoined'
      BY <2>1 DEF JoinedReads, ReadersJoined, Throws, TypeOK
    <2>4. c \notin share_
      BY <2>1 DEF NotConnected
    <2>5. \A d \in share_ : of'[d] = of[d]
      BY <2>1, <2>4 DEF TypeOK
    <2>6. NotConnected'
      BY <2>1 DEF NotConnected, TypeOK
    <2> QED
      BY <2>1, <2>2, <2>3, <2>5, <2>6, ListingKept, StatusKept
  <1>5. ASSUME NEW c \in Client, AcceptCompletes(l, c)
        PROVE  IInv'
    <2>1. /\ link[c] = "backlog"
          /\ accept' = [accept EXCEPT ![l] = c]
          /\ link' = [link EXCEPT ![c] = "up"]
          /\ UNCHANGED <<servers_, acceptor, of, run, rd, wr, closing, share_>>
          /\ Quiet
      BY <1>5 DEF AcceptCompletes
    <2>2. TypeOK'
      BY <2>1 DEF TypeOK, Quiet
    <2>3. JoinedReads' /\ ReadersJoined'
      BY <2>1 DEF JoinedReads, ReadersJoined, Throws, TypeOK
    <2>4. NotConnected'
      BY <2>1 DEF NotConnected, TypeOK
    <2> QED
      BY <2>1, <2>2, <2>3, <2>4, ListingKept, StatusKept
  <1> QED
    BY <1>1, <1>2, <1>3, <1>4, <1>5 DEF ListenerHandler

-----------------------------------------------------------------------------
\* fail(): the session leaves, and reads on only if its socket is dead.
LEMMA FailKeeps ==
    ASSUME IInv, NEW c \in Client, NEW other \in BOOLEAN, Fail(c, other),
           ReadEnded(c) \/ (WriteFailed(c) /\ Throws(c))
    PROVE  IInv'
PROOF
  <1> USE DEF IInv
  <1>1. /\ share_' = share_ \ {c}
        /\ closing' = [closing EXCEPT ![c] = @ \/ other]
        /\ UNCHANGED <<servers_, acceptor, accept, of, link, run>>
        /\ SendStatus
    BY DEF Fail, Leaves, listeners
  <1>2. /\ rd' \in [Client -> {"idle", "waiting", "data", "aborted"}]
        /\ wr' \in [Client -> {"idle", "posted", "busy", "stuck"}]
        /\ \A d \in Client : d # c => rd'[d] = rd[d]
        /\ rd'[c] = "idle" \/ Throws(c)
    BY DEF ReadEnded, WriteFailed, TypeOK
  <1>3. TypeOK'
    <2>1. closing' \in [Client -> BOOLEAN]
      BY <1>1 DEF TypeOK
    <2>2. DOMAIN servers_' \subseteq 0..(PortMod - 1) /\ share_' \subseteq Client
      BY <1>1 DEF TypeOK
    <2> QED
      BY <1>1, <1>2, <2>1, <2>2, StatusTyped DEF TypeOK
  <1>4. ListedIffListening'
    BY <1>1, ListingKept
  <1>5. JoinedReads' /\ ReadersJoined'
    BY <1>1, <1>2 DEF JoinedReads, ReadersJoined, Throws, TypeOK
  <1>6. StatusCurrent'
    BY <1>1, StatusSent
  <1>7. NotConnected'
    BY <1>1 DEF NotConnected
  <1> QED
    BY <1>3, <1>4, <1>5, <1>6, <1>7

\* A quiet step that moves only the write side, closing() or the kind of a read that
\* is on its way, or the connection of a client that stays dead if it was.
LEMMA QuietKeeps ==
    ASSUME IInv, Quiet,
           UNCHANGED <<servers_, acceptor, accept, of, run, share_>>,
           link' \in [Client -> {"none", "backlog", "up", "eof", "reset", "closed"}],
           rd' \in [Client -> {"idle", "waiting", "data", "aborted"}],
           wr' \in [Client -> {"idle", "posted", "busy", "stuck"}],
           closing' \in [Client -> BOOLEAN],
           \A c \in Client : /\ rd'[c] = "idle" <=> rd[c] = "idle"
                             /\ Throws(c) => Throws(c)'
                             /\ link'[c] = "none" => link[c] = "none"
    PROVE  IInv'
PROOF
  <1> USE DEF IInv
  <1>1. TypeOK'
    BY DEF TypeOK, Quiet
  <1>2. JoinedReads' /\ ReadersJoined'
    BY DEF JoinedReads, ReadersJoined, TypeOK
  <1>3. NotConnected'
    BY DEF NotConnected
  <1> QED
    BY <1>1, <1>2, <1>3, ListingKept, StatusKept

\* The handlers of a session, and what the network does to it.
LEMMA SessionKeeps ==
    ASSUME IInv, NEW c \in Client,
           \/ SessionHandler(c)
           \/ DataArrives(c) \/ PeerCloses(c) \/ PeerResets(c) \/ OnWriteOk(c)
    PROVE  IInv'
PROOF
  <1> USE DEF IInv
  <1>1. CASE OnRun(c)
    <2>1. /\ run[c]
          /\ run' = [run EXCEPT ![c] = FALSE]
          /\ share_' = share_ \union {c}
          /\ rd' = [rd EXCEPT ![c] = "waiting"]
          /\ UNCHANGED <<servers_, acceptor, accept, of, link, wr, closing>>
          /\ SendStatus
      BY <1>1 DEF OnRun, listeners
    <2>2. TypeOK'
      <3>1. DOMAIN servers_' \subseteq 0..(PortMod - 1) /\ share_' \subseteq Client
        BY <2>1 DEF TypeOK
      <3> QED
        BY <2>1, <3>1, StatusTyped DEF TypeOK
    <2>3. JoinedReads' /\ ReadersJoined'
      BY <2>1 DEF JoinedReads, ReadersJoined, Throws, TypeOK
    <2>4. NotConnected'
      BY <2>1 DEF NotConnected, TypeOK
    <2> QED
      BY <2>1, <2>2, <2>3, <2>4, ListingKept, StatusSent
  <1>2. CASE OnReadData(c)
    <2>1. CASE Throws(c)
      BY <1>2, <2>1, TerminateKeeps DEF OnReadData
    <2>2. CASE ~Throws(c)
      BY <1>2, <2>2, QuietKeeps DEF OnReadData, TypeOK, Throws, listeners
    <2> QED
      BY <2>1, <2>2
  <1>3. CASE OnReadEof(c)
    BY <1>3, FailKeeps DEF OnReadEof
  <1>4. CASE OnReadError(c)
    BY <1>4, FailKeeps DEF OnReadError
  <1>5. CASE OnReadAborted(c)
    BY <1>5, FailKeeps DEF OnReadAborted
  <1>6. CASE Writing(c)
    BY <1>6, QuietKeeps DEF Writing, TypeOK, Throws, listeners
  <1>7. CASE OnWriteOk(c)
    BY <1>7, QuietKeeps DEF OnWriteOk, WriteEnded, TypeOK, Throws, listeners
  <1>8. CASE OnWriteError(c)
    BY <1>8, FailKeeps DEF OnWriteError, Throws
  <1>9. CASE OnWriteAborted(c)
    BY <1>9, FailKeeps DEF OnWriteAborted, Throws
  <1>10. CASE Closing(c)
    <2>1. closing' \in [Client -> BOOLEAN]
      BY <1>10 DEF Closing, TypeOK
    <2>2. CASE Throws(c)
      BY <1>10, <2>1, <2>2, QuietKeeps DEF Closing, TypeOK, Throws, listeners
    <2>3. CASE ~Throws(c)
      BY <1>10, <2>1, <2>3, QuietKeeps DEF Closing, Cancelled, TypeOK, Throws, listeners
    <2> QED
      BY <2>2, <2>3
  <1>11. CASE DataArrives(c)
    BY <1>11, QuietKeeps DEF DataArrives, TypeOK, Throws, listeners
  <1>12. CASE PeerCloses(c)
    BY <1>12, QuietKeeps DEF PeerCloses, TypeOK, Throws, listeners
  <1>13. CASE PeerResets(c)
    BY <1>13, QuietKeeps DEF PeerResets, TypeOK, Throws, listeners
  <1> QED
    BY <1>1, <1>2, <1>3, <1>4, <1>5, <1>6, <1>7, <1>8, <1>9, <1>10, <1>11, <1>12, <1>13
    DEF SessionHandler

\* Every step preserves the invariant.
LEMMA NextIInv == IInv /\ [Next]_vars => IInv'
PROOF
  <1> SUFFICES ASSUME IInv, [Next]_vars PROVE IInv'
    OBVIOUS
  <1>1. CASE Message
    BY <1>1, MessageKeeps
  <1>2. CASE \E l \in Listener : \/ ListenerHandler(l) \/ OnAcceptError(l)
                                 \/ \E c \in Client : Connect(c, l) \/ AcceptCompletes(l, c)
    BY <1>2, ListenerKeeps
  <1>3. CASE \E c \in Client :
               \/ SessionHandler(c)
               \/ DataArrives(c) \/ PeerCloses(c) \/ PeerResets(c) \/ OnWriteOk(c)
    BY <1>3, SessionKeeps
  <1>4. CASE UNCHANGED vars
    <2>1. UNCHANGED <<servers_, acceptor, accept, of, link, run, rd, wr, closing,
                      share_, shown, terminated>>
      BY <1>4 DEF vars, listeners, sessions
    <2>2. TypeOK'
      BY <2>1 DEF IInv, TypeOK
    <2>3. StatusCurrent' /\ NotConnected'
      BY <2>1 DEF IInv, StatusCurrent, JoinedAndListed, Listed, NotConnected
    <2> QED
      BY <2>1, <2>2, <2>3, ListingKept, JoiningKept DEF IInv
  <1> QED
    BY <1>1, <1>2, <1>3, <1>4 DEF Next, Network

LEMMA SpecIInv == Spec => []IInv
PROOF
  <1> QED
    BY InitIInv, NextIInv, PTL DEF Spec

-----------------------------------------------------------------------------
\* Every variable of the TCP server app keeps its kind.
THEOREM TypeCorrect == Spec => []TypeOK
PROOF
  <1>1. IInv => TypeOK
    BY DEF IInv
  <1> QED
    BY <1>1, SpecIInv, PTL

(***************************************************************************)
(* No Shareable ever holds a pointer to a session that has been destroyed, *)
(* although the destructor does not leave().                               *)
(***************************************************************************)
THEOREM NoDanglingShare == Spec => []ShareHoldsLiveSessions
PROOF
  <1>1. IInv => ShareHoldsLiveSessions
    BY DEF IInv, JoinedReads, ShareHoldsLiveSessions, Alive, TypeOK
  <1> QED
    BY <1>1, SpecIInv, PTL

\* The servers listed in the container are those that listen, on the listed ports.
THEOREM ListingIsAccurate == Spec => []ListedIffListening
PROOF
  <1>1. IInv => ListedIffListening
    BY DEF IInv
  <1> QED
    BY <1>1, SpecIInv, PTL

\* Whenever no handler is left to run, the users have been sent the true status.
THEOREM StatusIsAccurate == Spec => []StatusAccurate
PROOF
  <1>1. IInv => StatusAccurate
    <2> SUFFICES ASSUME IInv, Settled
                 PROVE  shown = [servers |-> Listed, clients |-> ServedClients]
      BY DEF StatusAccurate
    <2>1. \A c \in Client : /\ rd[c] \in {"idle", "waiting"}
                            /\ rd[c] = "waiting" => link[c] = "up"
      BY DEF Settled
    <2>2. \A c \in Client : c \in share_ <=> rd[c] = "waiting"
      BY <2>1 DEF IInv, JoinedReads, ReadersJoined, Throws
    <2>3. JoinedAndListed = ServedClients
      BY <2>2 DEF JoinedAndListed, ServedClients, IInv, TypeOK
    <2> QED
      BY <2>3 DEF IInv, StatusCurrent, Settled
  <1> QED
    BY <1>1, SpecIInv, PTL

=============================================================================
