------------------------------ MODULE UdpProofs ------------------------------
(***************************************************************************)
(* The UDP apps, for any number of sockets and endpoints and any faults:   *)
(* the containers hold every open socket, and else only sockets that have  *)
(* failed.                                                                 *)
(***************************************************************************)
EXTENDS Udp, TLAPS

\* What has failed is closed: it stays in its container but never reads again.
FailedIsClosed == \A s \in failed : socket_[s] = "closed"

(***************************************************************************)
(* The inductive invariant.  An open() takes a new socket, which is in no  *)
(* container by ListedIsOpenOrFailed and FailedIsClosed, and an endpoint   *)
(* that is not bound, whose entry, if any, is of a socket that failed.     *)
(***************************************************************************)
IInv ==
    /\ TypeOK
    /\ OpenIsListed
    /\ ListedIsOpenOrFailed
    /\ FailedIsClosed

-----------------------------------------------------------------------------
\* Nothing is open at the start.
LEMMA InitIInv == Init => IInv
PROOF
  <1> SUFFICES ASSUME Init PROVE IInv
    OBVIOUS
  <1> USE DEF Init
  <1>1. \A r \in Role : Listed(r) = {} /\ Range(containers[r]) = {}
    BY DEF Listed, Range
  <1>2. TypeOK
    BY <1>1 DEF TypeOK, Role
  <1> QED
    BY <1>1, <1>2 DEF IInv, OpenIsListed, ListedIsOpenOrFailed, FailedIsClosed

\* The socket of an entry.
LEMMA EntryOf ==
    ASSUME IInv, NEW r \in Role, NEW p \in Listed(r)
    PROVE  /\ p \in Port /\ containers[r][p] \in Socket
           /\ role[containers[r][p]] = r /\ local[containers[r][p]] = p
           /\ socket_[containers[r][p]] \in {"open", "closed"}
PROOF
  <1>1. p \in Port /\ containers[r][p] \in Socket
    BY DEF IInv, TypeOK, Listed, Range
  <1> QED
    BY <1>1 DEF IInv, ListedIsOpenOrFailed, FailedIsClosed

\* message_status() only says where an exception has ended the daemon.
LEMMA StatusTyped ==
    ASSUME NEW r \in Role, SendStatus(r) \/ Quiet
    PROVE  thrown' \in {"no", "open", "status", "read_handler"}
PROOF
  <1> QED
    BY DEF SendStatus, Quiet

-----------------------------------------------------------------------------
\* The entry of the new socket replaces none of an open one.
LEMMA OpenKeeps ==
    ASSUME IInv, NEW r \in Role, NEW p \in Port, NEW s \in Socket, MessageOpen(r, s, p)
    PROVE  IInv'
PROOF
  <1> USE DEF IInv, MessageOpen
  <1>1. /\ \A q \in Role \ {r} : containers'[q] = containers[q]
        /\ Listed(r)' = Listed(r) \union {p}
        /\ \A q \in Listed(r)' : containers'[r][q] = IF q = p THEN s ELSE containers[r][q]
        /\ DOMAIN containers' = Role
    BY DEF TypeOK, Listed
  <1>2. \A t \in Socket \ {s} : socket_'[t] = socket_[t] /\ role'[t] = role[t] /\ local'[t] = local[t]
    BY DEF TypeOK
  <1>3. socket_'[s] = "open" /\ role'[s] = r /\ local'[s] = p
    BY DEF TypeOK
  <1>4. \A q \in Role : \A o \in Listed(q) : containers[q][o] # s
    BY EntryOf
  <1>5. TypeOK'
    <2>1. ASSUME NEW q \in Role, NEW o \in Listed(q)'
          PROVE  o \in Port /\ containers'[q][o] \in Socket
      <3>1. CASE q = r /\ o = p
        BY <1>1, <3>1
      <3>2. CASE ~(q = r /\ o = p)
        BY <1>1, <3>2, EntryOf DEF Listed
      <3> QED
        BY <3>1, <3>2
    <2>2. \A q \in Role : Listed(q)' \subseteq Port /\ Range(containers'[q]) \subseteq Socket
      BY <2>1 DEF Listed, Range
    <2> QED
      BY <1>1, <2>2, StatusTyped DEF TypeOK
  <1>6. OpenIsListed'
    <2> SUFFICES ASSUME NEW t \in Socket, socket_'[t] = "open"
                 PROVE  /\ local'[t] \in DOMAIN containers'[role'[t]]
                        /\ containers'[role'[t]][local'[t]] = t
      BY DEF OpenIsListed, Listed
    <2>1. CASE t = s
      BY <1>1, <1>3, <2>1 DEF Listed
    <2>2. CASE t # s
      <3>1. socket_[t] = "open" /\ role'[t] = role[t] /\ local'[t] = local[t]
        BY <1>2, <2>2
      <3>2. local[t] \in Listed(role[t]) /\ containers[role[t]][local[t]] = t /\ role[t] \in Role
        BY <3>1 DEF OpenIsListed, TypeOK
      <3>3. local[t] # p
        BY <3>1 DEF Bound
      <3> QED
        BY <1>1, <3>1, <3>2, <3>3 DEF Listed
    <2> QED
      BY <2>1, <2>2
  <1>7. ListedIsOpenOrFailed'
    <2> SUFFICES ASSUME NEW q \in Role, NEW o \in Listed(q)'
                 PROVE  LET t == containers'[q][o]
                        IN  role'[t] = q /\ local'[t] = o /\ (socket_'[t] = "open" \/ t \in failed')
      BY DEF ListedIsOpenOrFailed
    <2>1. CASE q = r /\ o = p
      BY <1>1, <1>3, <2>1
    <2>2. CASE ~(q = r /\ o = p)
      <3> DEFINE t == containers[q][o]
      <3>1. o \in Listed(q) /\ containers'[q][o] = t
        BY <1>1, <2>2 DEF Listed
      <3>2. t \in Socket \ {s} /\ role[t] = q /\ local[t] = o /\ (socket_[t] = "open" \/ t \in failed)
        BY <1>4, <3>1, EntryOf DEF ListedIsOpenOrFailed
      <3> QED
        BY <1>2, <3>1, <3>2
    <2> QED
      BY <2>1, <2>2
  <1>8. FailedIsClosed'
    BY <1>2 DEF FailedIsClosed, TypeOK
  <1> QED
    BY <1>5, <1>6, <1>7, <1>8

\* close() takes the entry of the socket it closes, and no other.
LEMMA CloseKeeps ==
    ASSUME IInv, NEW r \in Role, NEW p \in Port, MessageClose(r, p)
    PROVE  IInv'
PROOF
  <1> USE DEF IInv, MessageClose
  <1> DEFINE s == containers[r][p]
  <1>1. s \in Socket /\ role[s] = r /\ local[s] = p
    BY EntryOf
  <1>2. /\ DOMAIN containers' = Role
        /\ \A q \in Role \ {r} : containers'[q] = containers[q]
        /\ Listed(r)' = Listed(r) \ {p}
        /\ \A q \in Listed(r)' : containers'[r][q] = containers[r][q]
    BY DEF TypeOK, Listed, Erased, Restrict
  <1>3. \A t \in Socket : socket_'[t] = IF t = s THEN "closed" ELSE socket_[t]
    BY DEF TypeOK, Closes
  <1>4. TypeOK'
    <2>1. \A q \in Role : Listed(q)' \subseteq Port /\ Range(containers'[q]) \subseteq Socket
      BY <1>2 DEF TypeOK, Listed, Range
    <2>2. socket_' \in [Socket -> {"none", "open", "closed"}]
      BY DEF TypeOK, Closes
    <2>3. reading' \in [Socket -> {"idle", "waiting", "data", "aborted"}]
      BY DEF TypeOK, Cancelled
    <2> QED
      BY <1>2, <2>1, <2>2, <2>3, StatusTyped DEF TypeOK
  <1>5. OpenIsListed'
    <2> SUFFICES ASSUME NEW t \in Socket, socket_'[t] = "open"
                 PROVE  local[t] \in Listed(role[t])' /\ containers'[role[t]][local[t]] = t
      BY DEF OpenIsListed
    <2>1. t # s /\ local[t] \in Listed(role[t]) /\ containers[role[t]][local[t]] = t /\ role[t] \in Role
      BY <1>3 DEF OpenIsListed, TypeOK
    <2>2. role[t] # r \/ local[t] # p
      BY <2>1
    <2> QED
      BY <1>2, <2>1, <2>2 DEF Listed
  <1>6. ListedIsOpenOrFailed'
    <2> SUFFICES ASSUME NEW q \in Role, NEW o \in Listed(q)'
                 PROVE  LET t == containers'[q][o]
                        IN  role[t] = q /\ local[t] = o /\ (socket_'[t] = "open" \/ t \in failed)
      BY DEF ListedIsOpenOrFailed
    <2> DEFINE t == containers[q][o]
    <2>1. o \in Listed(q) /\ containers'[q][o] = t /\ ~(q = r /\ o = p)
      BY <1>2 DEF Listed
    <2>2. t \in Socket /\ role[t] = q /\ local[t] = o /\ (socket_[t] = "open" \/ t \in failed)
      BY <2>1, EntryOf DEF ListedIsOpenOrFailed
    <2>3. t # s
      BY <1>1, <2>1, <2>2
    <2> QED
      BY <1>3, <2>1, <2>2, <2>3
  <1>7. FailedIsClosed'
    BY <1>3 DEF FailedIsClosed, TypeOK
  <1> QED
    BY <1>4, <1>5, <1>6, <1>7

\* A failure closes one socket, and the container keeps it.
LEMMA FailKeeps ==
    ASSUME IInv, NEW s \in Socket, OnReadError(s) \/ OnWriteError(s)
    PROVE  IInv'
PROOF
  <1> USE DEF IInv, Quiet
  <1>1. /\ Fail(s) /\ UNCHANGED <<containers, role, local>>
        /\ failed' = failed \union {s}
    BY DEF OnReadError, OnWriteError, Fail
  <1>2. \A t \in Socket : socket_'[t] = IF t = s THEN "closed" ELSE socket_[t]
    BY <1>1 DEF Fail, TypeOK
  <1>3. TypeOK'
    <2>1. socket_' \in [Socket -> {"none", "open", "closed"}] /\ failed' \subseteq Socket
      BY <1>1 DEF TypeOK, Fail
    <2>2. /\ reading' \in [Socket -> {"idle", "waiting", "data", "aborted"}]
          /\ writing_' \in [Socket -> {"idle", "posted", "busy", "stuck"}]
      BY DEF TypeOK, OnReadError, OnWriteError, Cancelled
    <2> QED
      BY <1>1, <2>1, <2>2 DEF TypeOK, Fail, Listed
  <1>4. OpenIsListed'
    BY <1>1, <1>2 DEF OpenIsListed, Listed
  <1>5. ListedIsOpenOrFailed'
    <2> SUFFICES ASSUME NEW q \in Role, NEW o \in Listed(q)
                 PROVE  LET t == containers[q][o]
                        IN  role[t] = q /\ local[t] = o /\ (socket_'[t] = "open" \/ t \in failed')
      BY <1>1 DEF ListedIsOpenOrFailed, Listed
    <2> QED
      BY <1>1, <1>2, EntryOf DEF ListedIsOpenOrFailed
  <1>6. FailedIsClosed'
    BY <1>1, <1>2 DEF FailedIsClosed, TypeOK
  <1> QED
    BY <1>3, <1>4, <1>5, <1>6

\* Every other step leaves the sockets and the containers as they are.
LEMMA OthersKeep ==
    ASSUME IInv, UNCHANGED <<containers, role, socket_, local, failed>>,
           reading' \in [Socket -> {"idle", "waiting", "data", "aborted"}],
           writing_' \in [Socket -> {"idle", "posted", "busy", "stuck"}],
           thrown' \in {"no", "open", "status", "read_handler"}
    PROVE  IInv'
PROOF
  <1> QED
    BY DEF IInv, TypeOK, OpenIsListed, ListedIsOpenOrFailed, FailedIsClosed, Listed

LEMMA HandlersKeep ==
    ASSUME IInv, NEW s \in Socket, Handler(s) \/ OnWriteOk(s) \/ DataArrives(s)
    PROVE  IInv'
PROOF
  <1>1. CASE OnReadData(s)
    BY <1>1, OthersKeep DEF OnReadData, Throw, Quiet, IInv, TypeOK
  <1>2. CASE OnReadAborted(s) \/ DataArrives(s)
    BY <1>2, OthersKeep DEF OnReadAborted, DataArrives, Quiet, IInv, TypeOK
  <1>3. CASE Writing(s) \/ OnWriteAborted(s) \/ OnWriteOk(s)
    BY <1>3, OthersKeep DEF Writing, OnWriteAborted, OnWriteOk, Quiet, IInv, TypeOK
  <1> QED
    BY <1>1, <1>2, <1>3 DEF Handler

LEMMA NextIInv == IInv /\ [Next]_vars => IInv'
PROOF
  <1> SUFFICES ASSUME IInv, [Next]_vars PROVE IInv'
    OBVIOUS
  <1>1. CASE MessageOpenThrows
    BY <1>1, OthersKeep DEF MessageOpenThrows, Throw, IInv, TypeOK
  <1>2. ASSUME NEW r \in Role, MessageStatus(r) PROVE IInv'
    BY <1>2, OthersKeep, StatusTyped DEF MessageStatus, IInv, TypeOK
  <1>3. ASSUME NEW r \in Role, NEW p \in Port, MessageData(r, p) PROVE IInv'
    <2>1. writing_' \in [Socket -> {"idle", "posted", "busy", "stuck"}]
      BY <1>3 DEF MessageData, IInv, TypeOK
    <2> QED
      BY <1>3, <2>1, OthersKeep DEF MessageData, Quiet, IInv, TypeOK
  <1>4. CASE UNCHANGED vars
    BY <1>4, OthersKeep DEF vars, IInv, TypeOK
  <1> QED
    BY <1>1, <1>2, <1>3, <1>4, OpenKeeps, CloseKeeps, FailKeeps, HandlersKeep DEF Next

LEMMA Invariant == Spec => []IInv
PROOF
  <1> QED
    BY InitIInv, NextIInv, PTL DEF Spec

-----------------------------------------------------------------------------
\* Every variable keeps its kind.
THEOREM TypeCorrect == Spec => []TypeOK
PROOF
  <1>1. IInv => TypeOK
    BY DEF IInv
  <1> QED
    BY <1>1, Invariant, PTL

(***************************************************************************)
(* open(), close() and fail() never leave an open socket out of reach: the *)
(* container of its app has it under the endpoint users name it by.        *)
(***************************************************************************)
THEOREM OpenAreListed == Spec => []OpenIsListed
PROOF
  <1>1. IInv => OpenIsListed
    BY DEF IInv
  <1> QED
    BY <1>1, Invariant, PTL

(***************************************************************************)
(* What the containers list is open, or has failed: close() leaves no      *)
(* entry behind, and no entry is under another endpoint or app.            *)
(***************************************************************************)
THEOREM ListedAreOpenOrFailed == Spec => []ListedIsOpenOrFailed
PROOF
  <1>1. IInv => ListedIsOpenOrFailed
    BY DEF IInv
  <1> QED
    BY <1>1, Invariant, PTL

(***************************************************************************)
(* Both: the containers of the UDP apps hold the open sockets, and what    *)
(* has failed, and nothing else.                                           *)
(***************************************************************************)
THEOREM SocketsAreReachable == Spec => []SocketsAreListed
PROOF
  <1>1. IInv => SocketsAreListed
    BY DEF IInv, SocketsAreListed
  <1> QED
    BY <1>1, Invariant, PTL

=============================================================================
