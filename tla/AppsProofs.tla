------------------------------ MODULE AppsProofs ------------------------------
(***************************************************************************)
(* The TCP client app, for any number of connections and endpoints and any *)
(* faults: the container and the connections agree, whatever fails first.  *)
(* Then the apps side by side: a behaviour of them is, seen by one of      *)
(* them, one of its own, and so the theorems of the TCP client, of         *)
(* UdpProofs and of SerialProofs hold of the system that is run.           *)
(***************************************************************************)
EXTENDS MCApps, TLAPS

\* What a connection is before opened_cb() has run.
Fresh ==
    \A c \in Client : opening[c] # "done" =>
        /\ rd[c] = "idle" /\ wr[c] = "idle" /\ ~closing[c] /\ local[c] = NoPort
        /\ link[c] = "none" <=> opening[c] # "connected"
        /\ link[c] = "none" => bound[c] = NoPort
        /\ link[c] # "closed"

\* What on_open() has saved is the endpoint of the socket.
LocalIsBound ==
    \A c \in Client : /\ opening[c] = "done" => local[c] = bound[c]
                      /\ link[c] # "none" => bound[c] \in Port
                      /\ rd[c] # "idle" \/ wr[c] # "idle" \/ closing[c] => link[c] # "none"

\* closing() is posted to clients that have left the container.
ClosingIsUnlisted == \A c \in Client : closing[c] => c \notin Listed

\* The endpoint of a connection that is up, or has handlers to run, is its own.
Holds(c) == link[c] \in {"up", "eof"} \/ Busy(c)
EndpointsDiffer ==
    \A c, d \in Client :
        Holds(c) /\ Holds(d) /\ bound[c] = bound[d] /\ bound[c] \in Port => c = d

\* The last status names all that are listed, and no other whose read has ended.
ShownReads ==
    ~terminated => Listed \subseteq shown /\ \A c \in shown : rd[c] # "idle"

(***************************************************************************)
(* The inductive invariant.  on_close() erases an entry by endpoint: that  *)
(* it is the client's own rests on EndpointsDiffer.                        *)
(***************************************************************************)
IInv ==
    /\ TypeOK
    /\ Fresh
    /\ LocalIsBound
    /\ EndpointsDiffer
    /\ ListedIsServed
    /\ UnlistedIsClosing
    /\ ClosingIsUnlisted
    /\ ShownReads

-----------------------------------------------------------------------------
\* The client of an entry.
LEMMA EntryOf ==
    ASSUME IInv, NEW p \in DOMAIN clients_
    PROVE  /\ p \in Port /\ clients_[p] \in Client /\ clients_[p] \in Listed
           /\ rd[clients_[p]] # "idle" /\ link[clients_[p]] # "closed"
           /\ opening[clients_[p]] = "done" /\ Holds(clients_[p])
           /\ local[clients_[p]] = p /\ bound[clients_[p]] = p
PROOF
  <1> DEFINE c == clients_[p]
  <1>1. p \in Port /\ c \in Listed /\ c \in Client
    BY DEF IInv, TypeOK, Listed, Range
  <1>2. rd[c] # "idle" /\ link[c] # "closed" /\ local[c] = p
    BY DEF IInv, ListedIsServed
  <1>3. opening[c] = "done"
    BY <1>1, <1>2 DEF IInv, Fresh
  <1>4. Holds(c)
    BY <1>2 DEF Holds, Busy, Writes
  <1> QED
    BY <1>1, <1>2, <1>3, <1>4 DEF IInv, LocalIsBound

\* Who is listed has an entry.
LEMMA ListedHasEntry ==
    ASSUME NEW c \in Listed
    PROVE  \E p \in DOMAIN clients_ : clients_[p] = c
PROOF
  <1> QED
    BY DEF Listed, Range

\* close() of the container takes one client off the list, and posts to that one.
LEMMA EntryErased ==
    ASSUME IInv, NEW p \in DOMAIN clients_, clients_' = Erased(p)
    PROVE  /\ DOMAIN clients_' = DOMAIN clients_ \ {p}
           /\ \A q \in DOMAIN clients_' : clients_'[q] = clients_[q] /\ clients_[q] # clients_[p]
           /\ Listed' = Listed \ {clients_[p]}
           /\ PostedTo(p) = {clients_[p]}
PROOF
  <1>1. /\ DOMAIN clients_' = DOMAIN clients_ \ {p}
        /\ \A q \in DOMAIN clients_' : clients_'[q] = clients_[q]
    BY DEF Erased, Restrict
  <1>2. \A q \in DOMAIN clients_ : local[clients_[q]] = q
    BY EntryOf
  <1>3. \A q \in DOMAIN clients_' : clients_[q] # clients_[p]
    BY <1>1, <1>2
  <1>4. Listed' = Listed \ {clients_[p]}
    BY <1>1, <1>3 DEF Listed, Range
  <1>5. PostedTo(p) = {clients_[p]}
    BY EntryOf DEF PostedTo
  <1> QED
    BY <1>1, <1>3, <1>4, <1>5

\* on_close() erases no entry but the client's own, and misses none.
LEMMA OwnEntry ==
    ASSUME IInv, NEW c \in Client, opening[c] = "done", Holds(c)
    PROVE  /\ local[c] \in DOMAIN clients_ <=> c \in Listed
           /\ c \in Listed => clients_[local[c]] = c
PROOF
  <1>1. ASSUME c \in Listed
        PROVE  local[c] \in DOMAIN clients_ /\ clients_[local[c]] = c
    <2>1. PICK p \in DOMAIN clients_ : clients_[p] = c
      BY <1>1, ListedHasEntry
    <2> QED
      BY <2>1, EntryOf
  <1>2. ASSUME local[c] \in DOMAIN clients_
        PROVE  c \in Listed
    <2> DEFINE d == clients_[local[c]]
    <2>1. d \in Client /\ d \in Listed /\ Holds(d) /\ bound[d] = local[c] /\ local[c] \in Port
      BY <1>2, EntryOf
    <2>2. local[c] = bound[c]
      BY DEF IInv, LocalIsBound
    <2>3. c = d
      BY <2>1, <2>2 DEF IInv, EndpointsDiffer
    <2> QED
      BY <2>1, <2>3
  <1> QED
    BY <1>1, <1>2

\* Nothing is connected at the start.
LEMMA InitIInv == Init => IInv
PROOF
  <1> SUFFICES ASSUME Init PROVE IInv
    OBVIOUS
  <1> USE DEF Init
  <1>1. DOMAIN clients_ = {} /\ Listed = {}
    BY DEF Listed, Range
  <1>2. TypeOK
    BY <1>1 DEF TypeOK
  <1>3. Fresh /\ LocalIsBound /\ EndpointsDiffer
    BY PortAssumption DEF Fresh, LocalIsBound, EndpointsDiffer, Holds, Busy, Writes
  <1>4. ListedIsServed /\ UnlistedIsClosing /\ ClosingIsUnlisted
    BY <1>1 DEF ListedIsServed, UnlistedIsClosing, ClosingIsUnlisted
  <1>5. ShownReads
    BY <1>1 DEF ShownReads
  <1> QED
    BY <1>2, <1>3, <1>4, <1>5 DEF IInv

-----------------------------------------------------------------------------
\* After a step that sends the status, the status names who is listed.
LEMMA StatusSent ==
    ASSUME SendStatus
    PROVE  ~terminated' => shown' = Listed'
PROOF
  <1> QED
    BY DEF SendStatus, Listed

\* ... and it names clients.
LEMMA StatusTyped ==
    ASSUME TypeOK, SendStatus, Listed' \subseteq Client
    PROVE  shown' \subseteq Client /\ terminated' \in BOOLEAN
PROOF
  <1> QED
    BY DEF SendStatus, TypeOK, Listed

\* A step that ends the daemon changes nothing else.
LEMMA TerminateKeeps ==
    ASSUME IInv, Terminate
    PROVE  IInv'
PROOF
  <1> USE DEF IInv, Terminate, sockets
  <1>1. Listed' = Listed
    BY DEF Listed
  <1>2. TypeOK' /\ Fresh' /\ LocalIsBound'
    BY <1>1 DEF TypeOK, Fresh, LocalIsBound
  <1>3. EndpointsDiffer'
    BY DEF EndpointsDiffer, Holds, Busy, Writes
  <1>4. ListedIsServed' /\ UnlistedIsClosing' /\ ClosingIsUnlisted' /\ ShownReads'
    BY <1>1 DEF ListedIsServed, UnlistedIsClosing, ClosingIsUnlisted, ShownReads
  <1> QED
    BY <1>2, <1>3, <1>4

\* A quiet step that starts no read, and writes for listed clients only, and closes
\* only what closing() was posted to.
LEMMA QuietKeeps ==
    ASSUME IInv, Quiet,
           UNCHANGED <<clients_, opening, bound, local>>,
           link' \in [Client -> {"none", "up", "eof", "reset", "closed"}],
           rd' \in [Client -> {"idle", "waiting", "data", "aborted"}],
           wr' \in [Client -> {"idle", "posted", "busy", "stuck"}],
           closing' \in [Client -> BOOLEAN],
           \A c \in Client :
              /\ rd'[c] = "idle" <=> rd[c] = "idle"
              /\ wr'[c] # "idle" => wr[c] # "idle" \/ rd[c] # "idle"
              /\ wr'[c] \in {"posted", "busy"} => Writes(c) \/ rd[c] # "idle"
              /\ closing'[c] => closing[c]
              /\ closing[c] => closing'[c] \/ link'[c] \notin {"up", "eof"}
              /\ link'[c] = "none" <=> link[c] = "none"
              /\ link'[c] \in {"up", "eof"} => link[c] \in {"up", "eof"}
              /\ link'[c] = "closed" => link[c] = "closed" \/ closing[c]
    PROVE  IInv'
PROOF
  <1> USE DEF IInv
  <1>1. Listed' = Listed
    BY DEF Listed
  <1>2. TypeOK'
    BY <1>1 DEF TypeOK, Quiet
  <1>3. Fresh' /\ LocalIsBound'
    BY DEF Fresh, LocalIsBound
  <1>4. \A c \in Client : Holds(c)' => Holds(c)
    BY DEF Holds, Busy, Writes
  <1>5. EndpointsDiffer'
    BY <1>4 DEF EndpointsDiffer
  <1>6. ListedIsServed'
    <2>1. \A p \in DOMAIN clients_ : clients_[p] \in Client /\ ~closing[clients_[p]]
      BY EntryOf DEF ClosingIsUnlisted
    <2> QED
      BY <2>1 DEF ListedIsServed
  <1>7. UnlistedIsClosing' /\ ClosingIsUnlisted'
    BY <1>1 DEF UnlistedIsClosing, ClosingIsUnlisted
  <1>8. ShownReads'
    BY <1>1 DEF ShownReads, Quiet, TypeOK
  <1> QED
    BY <1>2, <1>3, <1>5, <1>6, <1>7, <1>8

\* A step of an async_connect that has not succeeded.
LEMMA OpeningKeeps ==
    ASSUME IInv, NEW c \in Client, opening[c] \in {"none", "connecting", "refused"},
           NEW o \in {"connecting", "refused", "failed", "done"},
           opening' = [opening EXCEPT ![c] = o],
           UNCHANGED <<clients_, link, bound, local, rd, wr, closing>>, Quiet
    PROVE  IInv'
PROOF
  <1> USE DEF IInv
  <1>1. Listed' = Listed
    BY DEF Listed
  <1>2. TypeOK'
    BY <1>1 DEF TypeOK, Quiet
  <1>3. \A d \in Client : d # c => opening'[d] = opening[d]
    BY DEF TypeOK
  <1>4. opening'[c] = o
    BY DEF TypeOK
  <1>5. /\ rd[c] = "idle" /\ wr[c] = "idle" /\ ~closing[c] /\ local[c] = NoPort
        /\ link[c] = "none" /\ bound[c] = NoPort
    BY DEF Fresh
  <1>6. Fresh' /\ LocalIsBound'
    BY <1>3, <1>4, <1>5 DEF Fresh, LocalIsBound
  <1>7. EndpointsDiffer'
    BY <1>3, <1>5, PortAssumption DEF EndpointsDiffer, Holds, Busy, Writes
  <1>8. ListedIsServed' /\ UnlistedIsClosing' /\ ClosingIsUnlisted' /\ ShownReads'
    BY <1>1, <1>3, <1>5
    DEF ListedIsServed, UnlistedIsClosing, ClosingIsUnlisted, ShownReads, Quiet
  <1> QED
    BY <1>2, <1>6, <1>7, <1>8

-----------------------------------------------------------------------------
\* A step that sends the status and keeps who is listed served.
LEMMA StatusKeepsShown ==
    ASSUME SendStatus, ListedIsServed'
    PROVE  ShownReads'
PROOF
  <1> SUFFICES ASSUME ~terminated'
               PROVE  Listed' \subseteq shown' /\ \A c \in shown' : rd'[c] # "idle"
    BY DEF ShownReads
  <1>1. shown' = Listed'
    BY StatusSent
  <1>2. \A c \in Listed' : rd'[c] # "idle"
    BY DEF Listed, Range, ListedIsServed
  <1> QED
    BY <1>1, <1>2

\* A user closes a client.
LEMMA MessageCloseKeeps ==
    ASSUME IInv, NEW p \in Port, MessageClose(p)
    PROVE  IInv'
PROOF
  <1> DEFINE c == clients_[p]
  <1> USE DEF MessageClose, sockets
  <1>1. p \in DOMAIN clients_
    OBVIOUS
  <1>2. /\ DOMAIN clients_' = DOMAIN clients_ \ {p}
        /\ \A q \in DOMAIN clients_' : clients_'[q] = clients_[q] /\ clients_[q] # c
        /\ Listed' = Listed \ {c}
        /\ PostedTo(p) = {c}
    BY <1>1, EntryErased
  <1>3. c \in Client /\ c \in Listed /\ rd[c] # "idle" /\ opening[c] = "done" /\ Holds(c)
    BY <1>1, EntryOf
  <1>4. closing' = [d \in Client |-> closing[d] \/ d = c]
    BY <1>2
  <1>5. TypeOK'
    BY <1>2, <1>4 DEF IInv, TypeOK, Quiet
  <1>6. Fresh' /\ LocalIsBound'
    BY <1>3, <1>4 DEF IInv, Fresh, LocalIsBound
  <1>7. EndpointsDiffer'
    <2>1. \A d \in Client : Holds(d)' => Holds(d)
      BY <1>3, <1>4 DEF Holds, Busy, Writes
    <2> QED
      BY <2>1 DEF IInv, EndpointsDiffer
  <1>8. ListedIsServed'
    BY <1>2 DEF IInv, ListedIsServed
  <1>9. UnlistedIsClosing' /\ ClosingIsUnlisted'
    BY <1>2, <1>4 DEF IInv, UnlistedIsClosing, ClosingIsUnlisted
  <1>10. ShownReads'
    BY <1>2 DEF IInv, ShownReads, Quiet
  <1> QED
    BY <1>5, <1>6, <1>7, <1>8, <1>9, <1>10 DEF IInv

\* A user writes to a client.
LEMMA MessageDataKeeps ==
    ASSUME IInv, NEW p \in Port, MessageData(p)
    PROVE  IInv'
PROOF
  <1>1. clients_[p] \in Client /\ rd[clients_[p]] # "idle"
    BY EntryOf DEF MessageData
  <1>2. TypeOK
    BY DEF IInv
  <1>3. wr' \in [Client -> {"idle", "posted", "busy", "stuck"}]
    BY <1>2 DEF MessageData, TypeOK
  <1>4. \A c \in Client :
          /\ wr'[c] # "idle" => wr[c] # "idle" \/ rd[c] # "idle"
          /\ wr'[c] \in {"posted", "busy"} => Writes(c) \/ rd[c] # "idle"
    BY <1>1, <1>2 DEF MessageData, Writes, TypeOK
  <1> QED
    BY <1>2, <1>3, <1>4, QuietKeeps DEF MessageData, TypeOK, sockets

\* A user asks for the status.
LEMMA MessageStatusKeeps ==
    ASSUME IInv, MessageStatus
    PROVE  IInv'
PROOF
  <1> USE DEF IInv, MessageStatus, sockets
  <1>1. Listed' = Listed
    BY DEF Listed
  <1>2. TypeOK'
    BY <1>1, StatusTyped DEF TypeOK
  <1>3. Fresh' /\ LocalIsBound' /\ ListedIsServed'
    BY DEF Fresh, LocalIsBound, ListedIsServed
  <1>4. EndpointsDiffer'
    BY DEF EndpointsDiffer, Holds, Busy, Writes
  <1>5. UnlistedIsClosing' /\ ClosingIsUnlisted'
    BY <1>1 DEF UnlistedIsClosing, ClosingIsUnlisted
  <1> QED
    BY <1>2, <1>3, <1>4, <1>5, StatusKeepsShown

\* The end of an operation with an error.
LEMMA FailKeeps ==
    ASSUME IInv, NEW c \in Client, NEW other \in BOOLEAN, Fail(c, other),
           \/ ReadEnded(c) /\ rd[c] # "idle"
           \/ WriteFailed(c) /\ Writes(c)
    PROVE  IInv'
PROOF
  <1> USE DEF sockets
  <1>1. TypeOK /\ opening[c] = "done" /\ Holds(c)
    BY DEF IInv, Fresh, Holds, Busy, Writes
  <1>2. /\ local[c] \in DOMAIN clients_ <=> c \in Listed
        /\ c \in Listed => clients_[local[c]] = c
    BY <1>1, OwnEntry
  <1>3. /\ DOMAIN clients_' = DOMAIN clients_ \ {local[c]}
        /\ \A q \in DOMAIN clients_' : clients_'[q] = clients_[q]
    BY DEF Fail, Erased, Restrict
  <1>4. /\ \A q \in DOMAIN clients_' : clients_[q] # c
        /\ Listed' = Listed \ {c}
        /\ PostedTo(local[c]) = Listed \intersect {c}
    <2>1. CASE c \in Listed
      <3>1. local[c] \in DOMAIN clients_ /\ clients_[local[c]] = c
        BY <1>2, <2>1
      <3>2. clients_' = Erased(local[c])
        BY DEF Fail
      <3>3. /\ \A q \in DOMAIN clients_' : clients_[q] # c
            /\ Listed' = Listed \ {c}
            /\ PostedTo(local[c]) = {c}
        BY <3>1, <3>2, EntryErased
      <3> QED
        BY <2>1, <3>3
    <2>2. CASE c \notin Listed
      <3>1. PostedTo(local[c]) = {}
        BY <1>2, <2>2 DEF PostedTo
      <3>2. DOMAIN clients_' = DOMAIN clients_
        BY <1>2, <1>3, <2>2
      <3>3. Listed' = Listed
        BY <1>3, <3>2 DEF Listed, Range
      <3>4. \A q \in DOMAIN clients_ : clients_[q] # c
        BY <2>2 DEF Listed, Range
      <3> QED
        BY <2>2, <3>1, <3>2, <3>3, <3>4
    <2> QED
      BY <2>1, <2>2
  <1>5. closing' = [d \in Client |-> closing[d] \/ (d = c /\ (c \in Listed \/ other))]
    BY <1>4 DEF Fail
  <1>6. \A d \in Client : /\ d # c => rd'[d] = rd[d]
                          /\ rd'[d] # "idle" => rd[d] # "idle"
                          /\ wr'[d] # "idle" => wr[d] # "idle"
                          /\ Writes(d)' => Writes(d)
    BY <1>1 DEF ReadEnded, WriteFailed, Writes, TypeOK
  <1>7. TypeOK'
    <2>1. rd' \in [Client -> {"idle", "waiting", "data", "aborted"}]
          /\ wr' \in [Client -> {"idle", "posted", "busy", "stuck"}]
      BY <1>1 DEF ReadEnded, WriteFailed, Writes, TypeOK
    <2>2. Listed' \subseteq Client /\ DOMAIN clients_' \subseteq Port
      BY <1>1, <1>3, <1>4 DEF TypeOK
    <2>3. shown' \subseteq Client /\ terminated' \in BOOLEAN
      BY <1>1, <2>2, StatusTyped DEF Fail
    <2>4. closing' \in [Client -> BOOLEAN]
      BY <1>1, <1>5 DEF TypeOK
    <2> QED
      BY <1>1, <2>1, <2>2, <2>3, <2>4 DEF TypeOK, Fail
  <1>8. Fresh' /\ LocalIsBound'
    BY <1>1, <1>5, <1>6 DEF IInv, Fresh, LocalIsBound, Fail, TypeOK, Writes
  <1>9. EndpointsDiffer'
    <2>1. \A d \in Client : Holds(d)' => Holds(d)
      BY <1>1, <1>5, <1>6 DEF Holds, Busy, Writes, Fail
    <2> QED
      BY <2>1 DEF IInv, EndpointsDiffer, Fail
  <1>10. ListedIsServed'
    <2>1. \A q \in DOMAIN clients_' : clients_'[q] \in Client /\ clients_'[q] # c
      BY <1>3, <1>4, EntryOf
    <2> QED
      BY <1>3, <1>6, <2>1 DEF IInv, ListedIsServed, Fail
  <1>11. UnlistedIsClosing' /\ ClosingIsUnlisted'
    BY <1>4, <1>5 DEF IInv, UnlistedIsClosing, ClosingIsUnlisted, Fail
  <1>12. ShownReads'
    BY <1>10, StatusKeepsShown DEF Fail
  <1> QED
    BY <1>7, <1>8, <1>9, <1>10, <1>11, <1>12 DEF IInv

\* A connection that has succeeded joins the container.
LEMMA OnConnectKeeps ==
    ASSUME IInv, NEW c \in Client, OnConnect(c)
    PROVE  IInv'
PROOF
  <1> DEFINE p == bound[c]
  <1> USE DEF OnConnect, LocalEndpoint
  <1>1. /\ TypeOK /\ opening[c] = "connected" /\ Holds(c)
        /\ rd[c] = "idle" /\ wr[c] = "idle" /\ ~closing[c] /\ link[c] # "none"
    BY DEF IInv, Fresh, Holds, Busy
  <1>2. p \in Port
    BY <1>1 DEF IInv, LocalIsBound
  <1>3. p \notin DOMAIN clients_
    <2>1. SUFFICES ASSUME p \in DOMAIN clients_ PROVE FALSE
      OBVIOUS
    <2>2. /\ clients_[p] \in Client /\ Holds(clients_[p])
          /\ bound[clients_[p]] = p /\ rd[clients_[p]] # "idle"
      BY <2>1, EntryOf
    <2>3. clients_[p] = c
      BY <1>1, <1>2, <2>2 DEF IInv, EndpointsDiffer
    <2> QED
      BY <1>1, <2>2, <2>3
  <1>4. c \notin Listed
    BY <1>1, ListedHasEntry, EntryOf
  <1>5. /\ DOMAIN clients_' = DOMAIN clients_ \union {p}
        /\ clients_'[p] = c
        /\ \A q \in DOMAIN clients_ : clients_'[q] = clients_[q]
    BY <1>3
  <1>6. Listed' = Listed \union {c}
    BY <1>5 DEF Listed, Range
  <1>7. /\ opening'[c] = "done" /\ local'[c] = p /\ rd'[c] = "waiting"
        /\ \A d \in Client : d # c => /\ opening'[d] = opening[d]
                                      /\ local'[d] = local[d]
                                      /\ rd'[d] = rd[d]
    BY <1>1 DEF TypeOK
  <1>8. TypeOK'
    <2>1. DOMAIN clients_' \subseteq Port /\ Listed' \subseteq Client
      BY <1>1, <1>2, <1>5, <1>6 DEF TypeOK
    <2>2. shown' \subseteq Client /\ terminated' \in BOOLEAN
      BY <1>1, <2>1, StatusTyped
    <2> QED
      BY <1>1, <2>1, <2>2 DEF TypeOK
  <1>9. Fresh' /\ LocalIsBound'
    BY <1>1, <1>2, <1>7 DEF IInv, Fresh, LocalIsBound
  <1>10. EndpointsDiffer'
    <2>1. \A d \in Client : Holds(d)' => Holds(d)
      BY <1>1, <1>7 DEF Holds, Busy, Writes
    <2> QED
      BY <2>1 DEF IInv, EndpointsDiffer
  <1>11. ListedIsServed'
    <2>1. \A q \in DOMAIN clients_ : clients_[q] \in Client /\ clients_[q] # c
      BY <1>4, EntryOf
    <2>2. link[c] # "closed"
      BY <1>1 DEF IInv, Fresh
    <2> QED
      BY <1>5, <1>7, <2>1, <2>2 DEF IInv, ListedIsServed
  <1>12. UnlistedIsClosing' /\ ClosingIsUnlisted'
    BY <1>1, <1>6, <1>7 DEF IInv, UnlistedIsClosing, ClosingIsUnlisted
  <1>13. ShownReads'
    BY <1>11, StatusKeepsShown
  <1> QED
    BY <1>8, <1>9, <1>10, <1>11, <1>12, <1>13 DEF IInv

\* The system gives a connection an endpoint that no other holds.
LEMMA ConnectCompletesKeeps ==
    ASSUME IInv, NEW c \in Client, NEW p \in Port, ConnectCompletes(c, p)
    PROVE  IInv'
PROOF
  <1> USE DEF ConnectCompletes
  <1>1. /\ TypeOK /\ opening[c] = "connecting"
        /\ rd[c] = "idle" /\ wr[c] = "idle" /\ ~closing[c] /\ local[c] = NoPort
    BY DEF IInv, Fresh
  <1>2. /\ opening'[c] = "connected" /\ link'[c] = "up" /\ bound'[c] = p
        /\ \A d \in Client : d # c => /\ opening'[d] = opening[d]
                                      /\ link'[d] = link[d]
                                      /\ bound'[d] = bound[d]
    BY <1>1 DEF TypeOK
  <1>3. Listed' = Listed
    BY DEF Listed
  <1>4. c \notin Listed
    BY <1>1, ListedHasEntry, EntryOf
  <1>5. TypeOK'
    BY <1>1, <1>3 DEF TypeOK, Quiet
  <1>6. Fresh' /\ LocalIsBound'
    BY <1>1, <1>2 DEF IInv, Fresh, LocalIsBound
  <1>7. EndpointsDiffer'
    <2>1. \A d \in Client : d # c /\ Holds(d)' => Holds(d) /\ bound[d] # p
      BY <1>2 DEF Holds, Held, Busy, Writes
    <2> QED
      BY <1>2, <2>1 DEF IInv, EndpointsDiffer
  <1>8. ListedIsServed'
    <2>1. \A q \in DOMAIN clients_ : clients_[q] \in Client /\ clients_[q] # c
      BY <1>4, EntryOf
    <2> QED
      BY <1>2, <2>1 DEF IInv, ListedIsServed
  <1>9. UnlistedIsClosing' /\ ClosingIsUnlisted'
    BY <1>2, <1>3 DEF IInv, UnlistedIsClosing, ClosingIsUnlisted
  <1>10. ShownReads'
    BY <1>3 DEF IInv, ShownReads, Quiet
  <1> QED
    BY <1>5, <1>6, <1>7, <1>8, <1>9, <1>10 DEF IInv

\* Handlers and events that leave the container as it is.
LEMMA QuietStepsKeep ==
    ASSUME IInv, NEW c \in Client,
           OnReadData(c) \/ Writing(c) \/ OnWriteOk(c) \/ Closing(c)
              \/ DataArrives(c) \/ PeerEnds(c)
    PROVE  IInv'
PROOF
  <1> USE DEF sockets, Writes
  <1>1. TypeOK
    BY DEF IInv
  <1>2. CASE OnReadData(c)
    <2>1. CASE link[c] = "closed"
      BY <1>2, <2>1, TerminateKeeps DEF OnReadData
    <2>2. CASE link[c] # "closed"
      BY <1>1, <1>2, <2>2, QuietKeeps DEF OnReadData, TypeOK
    <2> QED
      BY <2>1, <2>2
  <1>3. CASE Writing(c)
    BY <1>1, <1>3, QuietKeeps DEF Writing, TypeOK
  <1>4. CASE OnWriteOk(c)
    BY <1>1, <1>4, QuietKeeps DEF OnWriteOk, WriteEnded, TypeOK
  <1>5. CASE Closing(c)
    <2>1. opening[c] = "done" /\ link[c] # "none"
      BY <1>5 DEF IInv, Fresh, LocalIsBound, Closing
    <2> QED
      BY <1>1, <1>5, <2>1, QuietKeeps DEF Closing, Cancelled, Broken, TypeOK
  <1>6. CASE DataArrives(c)
    BY <1>1, <1>6, QuietKeeps DEF DataArrives, TypeOK
  <1>7. CASE PeerEnds(c)
    BY <1>1, <1>7, QuietKeeps DEF PeerEnds, TypeOK
  <1> QED
    BY <1>2, <1>3, <1>4, <1>5, <1>6, <1>7

-----------------------------------------------------------------------------
\* Every step keeps the invariant.
LEMMA NextIInv == IInv /\ [Next]_vars => IInv'
PROOF
  <1> SUFFICES ASSUME IInv, [Next]_vars PROVE IInv'
    OBVIOUS
  <1>1. CASE MessageStatus
    BY <1>1, MessageStatusKeeps
  <1>2. ASSUME NEW p \in Port, MessageClose(p) \/ MessageData(p)
        PROVE  IInv'
    BY <1>2, MessageCloseKeeps, MessageDataKeeps
  <1>3. ASSUME NEW c \in Client, MessageOpen(c) \/ ConnectFails(c) \/ OnConnectRefused(c)
        PROVE  IInv'
    BY <1>3, OpeningKeeps DEF MessageOpen, ConnectFails, OnConnectRefused
  <1>4. ASSUME NEW c \in Client, NEW p \in Port, ConnectCompletes(c, p)
        PROVE  IInv'
    BY <1>4, ConnectCompletesKeeps
  <1>5. ASSUME NEW c \in Client, OnConnect(c)
        PROVE  IInv'
    BY <1>5, OnConnectKeeps
  <1>6. ASSUME NEW c \in Client, OnConnectFailed(c)
        PROVE  IInv'
    BY <1>6, TerminateKeeps DEF OnConnectFailed
  <1>7. ASSUME NEW c \in Client,
               OnReadData(c) \/ Writing(c) \/ OnWriteOk(c) \/ Closing(c)
                  \/ DataArrives(c) \/ PeerEnds(c)
        PROVE  IInv'
    BY <1>7, QuietStepsKeep
  <1>8. ASSUME NEW c \in Client, OnReadEof(c) \/ OnReadError(c) \/ OnReadAborted(c)
        PROVE  IInv'
    <2>1. PICK other \in BOOLEAN : ReadEnded(c) /\ rd[c] # "idle" /\ Fail(c, other)
      BY <1>8 DEF OnReadEof, OnReadError, OnReadAborted
    <2> QED
      BY <2>1, FailKeeps
  <1>9. ASSUME NEW c \in Client, OnWriteError(c) \/ OnWriteAborted(c)
        PROVE  IInv'
    <2>1. PICK other \in BOOLEAN : WriteFailed(c) /\ Writes(c) /\ Fail(c, other)
      BY <1>9 DEF Writes, OnWriteError, OnWriteAborted
    <2> QED
      BY <2>1, FailKeeps
  <1>10. CASE UNCHANGED vars
    <2>1. Listed' = Listed /\ UNCHANGED <<opening, link, bound>>
      BY <1>10 DEF Listed, vars, sockets
    <2>2. TypeOK' /\ Fresh' /\ LocalIsBound' /\ EndpointsDiffer'
      BY <1>10, <2>1
      DEF vars, IInv, TypeOK, Fresh, LocalIsBound, EndpointsDiffer, Holds, Busy, Writes
    <2>3. ListedIsServed' /\ UnlistedIsClosing' /\ ClosingIsUnlisted' /\ ShownReads'
      BY <1>10, <2>1
      DEF vars, IInv, ListedIsServed, UnlistedIsClosing, ClosingIsUnlisted, ShownReads
    <2> QED
      BY <2>2, <2>3 DEF IInv
  <1> QED
    BY <1>1, <1>2, <1>3, <1>4, <1>5, <1>6, <1>7, <1>8, <1>9, <1>10 DEF Next, Handler

\* The invariant holds at all times.
LEMMA SpecIInv == Spec => []IInv
PROOF
  <1> QED
    BY InitIInv, NextIInv, PTL DEF Spec

-----------------------------------------------------------------------------
(***************************************************************************)
(* Every variable of the TCP client app keeps its kind, for any number of  *)
(* connections and endpoints.                                              *)
(***************************************************************************)
THEOREM TypeCorrect == Spec => []TypeOK
PROOF
  <1>1. IInv => TypeOK
    BY DEF IInv
  <1> QED
    BY <1>1, SpecIInv, PTL

(***************************************************************************)
(* An entry of the container is of a client that reads, on a socket that   *)
(* has not been closed, and that will erase this entry and no other.       *)
(***************************************************************************)
THEOREM ListedAreServed == Spec => []ListedIsServed
PROOF
  <1>1. IInv => ListedIsServed
    BY DEF IInv
  <1> QED
    BY <1>1, SpecIInv, PTL

(***************************************************************************)
(* A connection that has left the container but is still up has closing()  *)
(* posted to it.                                                           *)
(***************************************************************************)
THEOREM UnlistedAreClosing == Spec => []UnlistedIsClosing
PROOF
  <1>1. IInv => UnlistedIsClosing
    BY DEF IInv
  <1> QED
    BY <1>1, SpecIInv, PTL

(***************************************************************************)
(* When no handler is ready, the last status that users were sent shows    *)
(* the connections that are open, all of them and no other.                *)
(***************************************************************************)
THEOREM StatusIsAccurate == Spec => []StatusAccurate
PROOF
  <1>1. IInv => StatusAccurate
    <2> SUFFICES ASSUME IInv, Settled
                 PROVE  shown = {c \in Client : link[c] \in {"up", "eof"}}
      BY DEF StatusAccurate
    <2>1. ASSUME NEW c \in shown PROVE c \in Client /\ link[c] \in {"up", "eof"}
      BY <2>1 DEF IInv, ShownReads, TypeOK, Settled
    <2>2. ASSUME NEW c \in Client, link[c] \in {"up", "eof"} PROVE c \in shown
      <3>1. opening[c] = "done"
        BY <2>2 DEF IInv, Fresh, Settled
      <3>2. c \in Listed
        BY <2>2, <3>1 DEF IInv, UnlistedIsClosing, Settled
      <3> QED
        BY <3>2 DEF IInv, ShownReads, Settled
    <2> QED
      BY <2>1, <2>2
  <1> QED
    BY <1>1, SpecIInv, PTL

-----------------------------------------------------------------------------
\* What the apps do is a step of the TCP client app, or leaves its variables alone.
LEMMA TcpBehaviour == AppsSpec => Init /\ [][Next]_vars
PROOF
  <1>1. AppsInit => Init
    BY DEF AppsInit
  <1>2. [AppsNext]_<<app, vars, udp, serial>> => [Next]_vars
    BY DEF AppsNext
  <1> QED
    BY <1>1, <1>2, PTL DEF AppsSpec

\* What the apps do is a step of the UDP apps, or leaves all of theirs alone.
LEMMA UdpBehaviour == AppsSpec => U!Spec
PROOF
  <1>1. AppsInit => U!Init
    BY DEF AppsInit
  <1>2. [AppsNext]_<<app, vars, udp, serial>> => [U!Next]_(U!vars)
    BY DEF AppsNext, U!vars, udp
  <1> QED
    BY <1>1, <1>2, PTL DEF AppsSpec, U!Spec

\* The same of the serial app.
LEMMA SerialBehaviour == AppsSpec => S!Spec
PROOF
  <1>1. AppsInit => S!Init
    BY DEF AppsInit
  <1>2. [AppsNext]_<<app, vars, udp, serial>> => [S!Next]_(S!vars)
    BY DEF AppsNext, S!vars, S!objects, serial
  <1> QED
    BY <1>1, <1>2, PTL DEF AppsSpec, S!Spec

(***************************************************************************)
(* What is listed of the TCP client app is served, what is not is closing, *)
(* and the status that users were sent is right when no handler is ready.  *)
(***************************************************************************)
THEOREM AppsConnectionsAgree ==
    AppsSpec => [](ListedIsServed /\ UnlistedIsClosing /\ StatusAccurate)
PROOF
  <1> QED
    BY TcpBehaviour, ListedAreServed, UnlistedAreClosing, StatusIsAccurate, PTL DEF Spec

(***************************************************************************)
(* A UDP socket that is open is listed under its endpoint in the container *)
(* of its app, and what is listed is open or has failed.                   *)
(***************************************************************************)
THEOREM AppsSocketsAreReachable == AppsSpec => []SocketsAreListed
PROOF
  <1>1. U!Spec => []U!SocketsAreListed
    BY U!SocketsAreReachable
  <1> QED
    BY <1>1, UdpBehaviour, PTL DEF SocketsAreListed

(***************************************************************************)
(* A serial port is listed under the name of the device it has open, and   *)
(* only one that failed at the baud rate is open and not listed.           *)
(***************************************************************************)
THEOREM AppsPortsAreListed ==
    ASSUME NoName \notin Name
    PROVE  AppsSpec => []PortsAreListed
PROOF
  <1>1. S!Spec => []S!PortsAreListed
    BY S!OpenPortsAreListed
  <1> QED
    BY <1>1, SerialBehaviour, PTL DEF PortsAreListed

(***************************************************************************)
(* The last status shows no port that was closed since, and every listed   *)
(* one whose device is there.                                              *)
(***************************************************************************)
THEOREM AppsStatusShowsPorts ==
    ASSUME NoName \notin Name
    PROVE  AppsSpec => []OpenedIsShown
PROOF
  <1>1. S!Spec => []S!OpenedIsShown
    BY S!StatusShowsPorts
  <1> QED
    BY <1>1, SerialBehaviour, PTL DEF OpenedIsShown

(***************************************************************************)
(* An open port is closed by a user or because its own read has ended,     *)
(* never by the late end of a port that had the same name before.          *)
(***************************************************************************)
THEOREM AppsOnlyOwnEndCloses ==
    ASSUME NoName \notin Name
    PROVE  AppsSpec => ClosedByItsOwnEnd
PROOF
  <1>1. S!Spec => S!ClosedByItsOwnEnd
    BY S!OnlyOwnEndCloses
  <1> QED
    BY <1>1, SerialBehaviour DEF ClosedByItsOwnEnd

===============================================================================
