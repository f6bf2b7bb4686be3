----------------------------- MODULE SerialProofs -----------------------------
(***************************************************************************)
(* The serial app, for any number of ports and devices and any faults.     *)
(* All it takes is that the empty name is not the name of a device.        *)
(***************************************************************************)
EXTENDS Serial, TLAPS

\* An object that is not open yet has no read; one whose open() failed never has,
\* and is never listed.
Fresh ==
    /\ \A h \in Handle : stream_[h] = "none" => reads[h] = "idle"
    /\ \A h \in leaked : stream_[h] = "open" /\ reads[h] = "idle"
    /\ \A n \in Listed : serials[n] \notin leaked

\* close() clears the name: who has one is open on the device of that name.
NamesAreOwn ==
    \A h \in Handle : port_name_[h] \in Name =>
        stream_[h] = "open" /\ device[h] = port_name_[h]

(***************************************************************************)
(* The inductive invariant.  close_callback() closes the container's entry *)
(* under the object's own name: that it is the object's own entry rests on *)
(* NamesAreOwn, and for those whose open() failed on their having no read. *)
(***************************************************************************)
IInv ==
    /\ TypeOK
    /\ PortsAreListed
    /\ Fresh
    /\ NamesAreOwn

-----------------------------------------------------------------------------
\* Nothing is open at the start.
LEMMA InitIInv == ASSUME NoName \notin Name, Init PROVE IInv
PROOF
  <1> USE DEF Init
  <1>1. Listed = {} /\ Range(serials) = {}
    BY DEF Listed, Range
  <1>2. TypeOK
    BY <1>1 DEF TypeOK
  <1> QED
    BY <1>1, <1>2 DEF IInv, PortsAreListed, Fresh, NamesAreOwn

\* The object of an entry.
LEMMA EntryOf ==
    ASSUME IInv, NEW n \in Listed
    PROVE  /\ n \in Name /\ serials[n] \in Handle
           /\ stream_[serials[n]] = "open" /\ device[serials[n]] = n
           /\ port_name_[serials[n]] = n
PROOF
  <1>1. n \in Name /\ serials[n] \in Handle
    BY DEF IInv, TypeOK, Listed, Range
  <1> QED
    BY <1>1 DEF IInv, PortsAreListed

\* A status shows devices.
LEMMA StatusTyped ==
    ASSUME SendStatus, present' \subseteq Name
    PROVE  opened' \subseteq Name
PROOF
  <1> QED
    BY DEF SendStatus

-----------------------------------------------------------------------------
\* The new entry is under a name that no other open object has.
LEMMA OpenKeeps ==
    ASSUME IInv, NEW n \in Name, NEW h \in Handle, MessageOpen(n, h)
    PROVE  IInv'
PROOF
  <1> USE DEF IInv, MessageOpen
  <1>1. /\ Listed' = Listed \union {n} /\ n \notin Listed
        /\ \A m \in Listed' : serials'[m] = IF m = n THEN h ELSE serials[m]
    BY DEF Listed
  <1>2. /\ stream_'[h] = "open" /\ device'[h] = n /\ port_name_'[h] = n
        /\ \A g \in Handle \ {h} : /\ stream_'[g] = stream_[g] /\ device'[g] = device[g]
                                   /\ port_name_'[g] = port_name_[g] /\ reads'[g] = reads[g]
    BY DEF TypeOK
  <1>3. \A m \in Listed : serials[m] # h
    BY EntryOf
  <1>4. TypeOK'
    <2>1. \A m \in Listed' : m \in Name /\ serials'[m] \in Handle
      BY <1>1, EntryOf
    <2>2. Listed' \subseteq Name /\ Range(serials)' \subseteq Handle
      BY <2>1 DEF Listed, Range
    <2>3. opened' \subseteq Name
      BY StatusTyped DEF TypeOK
    <2> QED
      BY <2>2, <2>3 DEF TypeOK
  <1>5. PortsAreListed'
    <2>1. ASSUME NEW m \in Listed'
          PROVE  /\ stream_'[serials'[m]] = "open" /\ port_name_'[serials'[m]] = m
                 /\ device'[serials'[m]] = m
      <3>1. CASE m = n
        BY <1>1, <1>2, <3>1
      <3>2. CASE m # n
        BY <1>1, <1>2, <1>3, <3>2, EntryOf
      <3> QED
        BY <3>1, <3>2
    <2>2. ASSUME NEW g \in Handle, stream_'[g] = "open", g \notin leaked
          PROVE  device'[g] \in Listed' /\ serials'[device'[g]] = g
      <3>1. CASE g = h
        BY <1>1, <1>2, <3>1
      <3>2. CASE g # h
        <4>1. device[g] \in Listed /\ serials[device[g]] = g /\ device'[g] = device[g]
          BY <1>2, <2>2, <3>2 DEF PortsAreListed
        <4> QED
          BY <1>1, <4>1
      <3> QED
        BY <3>1, <3>2
    <2> QED
      BY <2>1, <2>2 DEF PortsAreListed
  <1>6. Fresh'
    <2>1. h \notin leaked
      BY DEF Fresh
    <2>2. \A m \in Listed' : serials'[m] \notin leaked
      BY <1>1, <2>1 DEF Fresh
    <2>3. \A g \in leaked : stream_'[g] = "open" /\ reads'[g] = "idle"
      BY <1>2, <2>1 DEF Fresh, TypeOK
    <2>4. \A g \in Handle : stream_'[g] = "none" => reads'[g] = "idle"
      BY <1>2 DEF Fresh
    <2> QED
      BY <2>2, <2>3, <2>4 DEF Fresh
  <1>7. NamesAreOwn'
    BY <1>2 DEF NamesAreOwn
  <1> QED
    BY <1>4, <1>5, <1>6, <1>7

\* An open() that fails at the baud rate adds an object, and no entry.
LEMMA OpenBadBaudKeeps ==
    ASSUME IInv, NEW n \in Name, NEW h \in Handle, MessageOpenBadBaud(n, h)
    PROVE  IInv'
PROOF
  <1> USE DEF IInv, MessageOpenBadBaud
  <1>1. /\ stream_'[h] = "open" /\ device'[h] = n /\ port_name_'[h] = n
        /\ \A g \in Handle \ {h} : /\ stream_'[g] = stream_[g] /\ device'[g] = device[g]
                                   /\ port_name_'[g] = port_name_[g]
    BY DEF TypeOK
  <1>2. TypeOK'
    <2>1. opened' \subseteq Name
      BY StatusTyped DEF TypeOK
    <2> QED
      BY <2>1 DEF TypeOK, Listed
  <1>3. PortsAreListed'
    <2>1. ASSUME NEW m \in Listed
          PROVE  /\ stream_'[serials[m]] = "open" /\ port_name_'[serials[m]] = m
                 /\ device'[serials[m]] = m
      BY <1>1, EntryOf
    <2>2. ASSUME NEW g \in Handle, stream_'[g] = "open", g \notin leaked'
          PROVE  device'[g] \in Listed /\ serials[device'[g]] = g
      BY <1>1, <2>2 DEF PortsAreListed
    <2> QED
      BY <2>1, <2>2 DEF PortsAreListed, Listed
  <1>4. Fresh'
    <2>1. \A m \in Listed : serials[m] \notin leaked'
      BY EntryOf DEF Fresh
    <2> QED
      BY <1>1, <2>1 DEF Fresh, TypeOK, Listed
  <1>5. NamesAreOwn'
    BY <1>1 DEF NamesAreOwn
  <1> QED
    BY <1>2, <1>3, <1>4, <1>5

-----------------------------------------------------------------------------
\* close() of the container closes the object of the entry that it erases.
LEMMA CloseKeeps ==
    ASSUME NoName \notin Name, IInv, NEW n, NEW ended,
           ended \in [Handle -> {"idle", "waiting", "data", "eof", "aborted", "failed"}],
           \A h \in Handle : reads[h] = "idle" => ended[h] = "idle",
           Close(n, ended), SendStatus,
           UNCHANGED <<device, writes, present, leaked>>
    PROVE  IInv'
PROOF
  <1> USE DEF IInv
  <1>1. opened' \subseteq Name
    BY StatusTyped DEF TypeOK
  <1>2. CASE n \notin Listed
    <2>1. UNCHANGED <<serials, stream_, port_name_>> /\ reads' = ended
      BY <1>2 DEF Close
    <2>2. TypeOK' /\ PortsAreListed' /\ NamesAreOwn'
      BY <1>1, <2>1 DEF TypeOK, PortsAreListed, NamesAreOwn, Listed
    <2>3. Fresh'
      BY <2>1 DEF Fresh, TypeOK, Listed
    <2> QED
      BY <2>2, <2>3
  <1>3. CASE n \in Listed
    <2> DEFINE g == serials[n]
    <2>1. g \in Handle /\ stream_[g] = "open" /\ device[g] = n /\ port_name_[g] = n /\ n \in Name
      BY <1>3, EntryOf
    <2>2. /\ serials' = Erased(n)
          /\ stream_' = [stream_ EXCEPT ![g] = "closed"]
          /\ port_name_' = [port_name_ EXCEPT ![g] = NoName]
          /\ reads' = [ended EXCEPT ![g] = Cancelled(ended[g])]
      BY <1>3 DEF Close, NameCleared
    <2>3. Listed' = Listed \ {n} /\ \A m \in Listed' : serials'[m] = serials[m]
      BY <2>2 DEF Erased, Restrict, Listed
    <2>4. /\ stream_'[g] = "closed" /\ port_name_'[g] = NoName
          /\ \A h \in Handle \ {g} : /\ stream_'[h] = stream_[h] /\ reads'[h] = ended[h]
                                     /\ port_name_'[h] = port_name_[h]
      BY <2>1, <2>2 DEF TypeOK
    <2>5. \A m \in Listed' : m # n /\ m \in Listed /\ serials[m] # g
      BY <2>1, <2>3, EntryOf
    <2>6. TypeOK'
      <3>1. Listed' \subseteq Name /\ Range(serials)' \subseteq Handle
        BY <2>3, EntryOf DEF Listed, Range
      <3>2. stream_' \in [Handle -> {"none", "open", "closed"}]
        BY <2>2 DEF TypeOK
      <3>3. port_name_' \in [Handle -> Name \union {NoName}]
        BY <2>2 DEF TypeOK
      <3>4. reads' \in [Handle -> {"idle", "waiting", "data", "eof", "aborted", "failed"}]
        BY <2>2 DEF Cancelled
      <3> QED
        BY <1>1, <3>1, <3>2, <3>3, <3>4 DEF TypeOK
    <2>7. PortsAreListed'
      <3>1. ASSUME NEW m \in Listed'
            PROVE  /\ stream_'[serials'[m]] = "open" /\ port_name_'[serials'[m]] = m
                   /\ device[serials'[m]] = m
        BY <2>3, <2>4, <2>5, EntryOf
      <3>2. ASSUME NEW h \in Handle, stream_'[h] = "open", h \notin leaked
            PROVE  device[h] \in Listed' /\ serials'[device[h]] = h
        <4>1. h # g /\ device[h] \in Listed /\ serials[device[h]] = h
          BY <2>4, <3>2 DEF PortsAreListed
        <4>2. device[h] # n
          BY <4>1
        <4> QED
          BY <2>3, <4>1, <4>2
      <3> QED
        BY <3>1, <3>2 DEF PortsAreListed
    <2>8. NamesAreOwn'
      BY <2>1, <2>4 DEF NamesAreOwn
    <2>9. Fresh'
      <3>1. g \notin leaked /\ \A m \in Listed' : serials'[m] \notin leaked
        BY <1>3, <2>3, <2>5 DEF Fresh
      <3>2. \A h \in Handle : stream_'[h] = "none" => reads'[h] = "idle"
        BY <2>4 DEF Fresh
      <3>3. \A h \in leaked : stream_'[h] = "open" /\ reads'[h] = "idle"
        BY <2>4, <3>1 DEF Fresh, TypeOK
      <3> QED
        BY <3>1, <3>2, <3>3 DEF Fresh
    <2> QED
      BY <2>6, <2>7, <2>8, <2>9
  <1> QED
    BY <1>2, <1>3

-----------------------------------------------------------------------------
\* A step that leaves the container, the names and the streams alone.
LEMMA OthersKeep ==
    ASSUME IInv, TypeOK', UNCHANGED <<serials, stream_, device, port_name_, leaked>>,
           \A h \in Handle : reads[h] = "idle" => reads'[h] = "idle"
    PROVE  IInv'
PROOF
  <1>1. PortsAreListed' /\ NamesAreOwn'
    BY DEF IInv, PortsAreListed, NamesAreOwn, Listed
  <1>2. Fresh'
    BY DEF IInv, Fresh, Listed, TypeOK
  <1> QED
    BY <1>1, <1>2 DEF IInv

\* The handlers that change the read or the write of one object only.
LEMMA HandlersKeep ==
    ASSUME IInv, NEW h \in Handle,
           \/ OnReadData(h) \/ OnReadAborted(h) \/ OnReadError(h)
           \/ Writing(h) \/ OnWriteOk(h) \/ OnWriteError(h)
           \/ ReadEnds(h) \/ DataArrives(h)
    PROVE  IInv'
PROOF
  <1>1. UNCHANGED Others
    BY DEF OnReadData, OnReadAborted, OnReadError, Writing, OnWriteOk, OnWriteError,
           ReadEnds, DataArrives
  <1>2. /\ reads' \in [Handle -> {"idle", "waiting", "data", "eof", "aborted", "failed"}]
        /\ \A k \in Handle : reads[k] = "idle" => reads'[k] = "idle"
    BY DEF IInv, TypeOK, OnReadData, OnReadAborted, OnReadError, Writing, OnWriteOk,
           OnWriteError, ReadEnds, DataArrives
  <1>3. writes' \in [Handle -> {"idle", "posted", "busy", "stuck"}]
    BY DEF IInv, TypeOK, OnReadData, OnReadAborted, OnReadError, Writing, OnWriteOk,
           OnWriteError, ReadEnds, DataArrives
  <1>4. TypeOK'
    BY <1>1, <1>2, <1>3 DEF IInv, TypeOK, Others, Listed
  <1> QED
    BY <1>1, <1>2, <1>4, OthersKeep DEF Others

\* The read of a port that has ended closes the entry under the port's name.
LEMMA OnReadEofKeeps ==
    ASSUME NoName \notin Name, IInv, NEW h \in Handle, OnReadEof(h)
    PROVE  IInv'
PROOF
  <1> DEFINE ended == [reads EXCEPT ![h] = "idle"]
  <1>1. /\ Close(port_name_[h], ended) /\ SendStatus
        /\ UNCHANGED <<device, writes, present, leaked>>
    BY DEF OnReadEof, ClosesOn, ClosedStatus
  <1>2. ended \in [Handle -> {"idle", "waiting", "data", "eof", "aborted", "failed"}]
    BY DEF IInv, TypeOK
  <1>3. \A k \in Handle : reads[k] = "idle" => ended[k] = "idle"
    BY DEF IInv, TypeOK
  <1> HIDE DEF ended
  <1> QED
    BY <1>1, <1>2, <1>3, CloseKeeps

\* The messages of the users that open no port, and the devices.
LEMMA MessagesKeep ==
    ASSUME NoName \notin Name, IInv, NEW n \in Name,
           MessageClose(n) \/ MessageData(n) \/ Remove(n) \/ Plug(n)
    PROVE  IInv'
PROOF
  <1>1. CASE MessageClose(n)
    <2>1. reads \in [Handle -> {"idle", "waiting", "data", "eof", "aborted", "failed"}]
      BY DEF IInv, TypeOK
    <2> QED
      BY <1>1, <2>1, CloseKeeps DEF MessageClose
  <1>2. CASE MessageData(n)
    <2>1. TypeOK'
      BY <1>2 DEF IInv, TypeOK, MessageData, Listed
    <2> QED
      BY <1>2, <2>1, OthersKeep DEF MessageData
  <1>3. CASE Remove(n) \/ Plug(n)
    <2>1. TypeOK'
      BY <1>3 DEF IInv, TypeOK, Remove, Plug, objects, Listed
    <2> QED
      BY <1>3, <2>1, OthersKeep DEF Remove, Plug, objects
  <1> QED
    BY <1>1, <1>2, <1>3

-----------------------------------------------------------------------------
\* Every step keeps the invariant.
LEMMA NextIInv ==
    ASSUME NoName \notin Name, IInv, [Next]_vars
    PROVE  IInv'
PROOF
  <1>1. CASE UNCHANGED vars
    <2>1. TypeOK'
      BY <1>1 DEF IInv, TypeOK, vars, objects, Listed
    <2> QED
      BY <1>1, <2>1, OthersKeep DEF vars, objects
  <1>2. ASSUME NEW n \in Name, MessageClose(n) \/ MessageData(n) \/ Remove(n) \/ Plug(n)
        PROVE  IInv'
    BY <1>2, MessagesKeep
  <1>3. CASE MessageStatus
    <2>1. opened' \subseteq Name
      BY <1>3, StatusTyped DEF IInv, TypeOK, MessageStatus
    <2>2. TypeOK'
      BY <1>3, <2>1 DEF IInv, TypeOK, MessageStatus, objects, Listed
    <2> QED
      BY <1>3, <2>2, OthersKeep DEF MessageStatus, objects
  <1>4. ASSUME NEW n \in Name, NEW h \in Handle,
               MessageOpen(n, h) \/ MessageOpenBadBaud(n, h)
        PROVE  IInv'
    BY <1>4, OpenKeeps, OpenBadBaudKeeps
  <1>5. ASSUME NEW h \in Handle, \/ Handler(h) \/ OnReadError(h) \/ OnWriteOk(h)
                                 \/ OnWriteError(h) \/ DataArrives(h)
        PROVE  IInv'
    BY <1>5, HandlersKeep, OnReadEofKeeps DEF Handler
  <1> QED
    BY <1>1, <1>2, <1>3, <1>4, <1>5 DEF Next

THEOREM Invariant == ASSUME NoName \notin Name PROVE Spec => []IInv
PROOF
  <1>1. Init => IInv
    BY InitIInv
  <1>2. IInv /\ [Next]_vars => IInv'
    BY NextIInv
  <1> QED
    BY <1>1, <1>2, PTL DEF Spec

-----------------------------------------------------------------------------
\* After a status, the users see what the container holds.
LEMMA StatusShows ==
    ASSUME SendStatus, IInv' PROVE OpenedIsShown'
PROOF
  <1>1. \A n \in Listed' : stream_'[serials'[n]] = "open"
    BY DEF IInv, PortsAreListed
  <1> QED
    BY <1>1 DEF SendStatus, OpenedIsShown, Listed

\* What changes the container is followed by a status, and only a device that no open
\* port is on is plugged in without one.
LEMMA StepsShow ==
    ASSUME NoName \notin Name, IInv, IInv', OpenedIsShown, [Next]_vars
    PROVE  OpenedIsShown'
PROOF
  <1>1. CASE SendStatus
    BY <1>1, StatusShows
  <1>2. CASE UNCHANGED <<serials, present, opened>>
    BY <1>2 DEF OpenedIsShown, Listed
  <1>3. ASSUME NEW n \in Name, Remove(n)
        PROVE  OpenedIsShown'
    BY <1>3 DEF Remove, OpenedIsShown, Listed
  <1>4. ASSUME NEW n \in Name, Plug(n)
        PROVE  OpenedIsShown'
    <2>1. n \notin Listed
      BY <1>4, EntryOf DEF Plug
    <2> QED
      BY <1>4, <2>1 DEF Plug, OpenedIsShown, Listed
  <1>5. ASSUME NEW h \in Handle, OnReadEof(h)
        PROVE  SendStatus
    BY <1>5 DEF OnReadEof, ClosesOn, ClosedStatus
  <1>6. ASSUME NEW h \in Handle, \/ OnReadData(h) \/ OnReadAborted(h) \/ OnReadError(h)
                                 \/ Writing(h) \/ OnWriteOk(h) \/ OnWriteError(h)
                                 \/ ReadEnds(h) \/ DataArrives(h)
        PROVE  UNCHANGED <<serials, present, opened>>
    BY <1>6 DEF OnReadData, OnReadAborted, OnReadError, Writing, OnWriteOk, OnWriteError,
                ReadEnds, DataArrives, Others
  <1>7. ASSUME NEW n \in Name, NEW h \in Handle,
               MessageOpen(n, h) \/ MessageOpenBadBaud(n, h)
        PROVE  SendStatus
    BY <1>7 DEF MessageOpen, MessageOpenBadBaud
  <1>8. ASSUME NEW n \in Name, MessageClose(n)
        PROVE  SendStatus
    BY <1>8 DEF MessageClose
  <1>9. ASSUME NEW n \in Name, MessageData(n)
        PROVE  UNCHANGED <<serials, present, opened>>
    BY <1>9 DEF MessageData
  <1>10. CASE MessageStatus
    BY <1>1, <1>10 DEF MessageStatus
  <1>11. CASE UNCHANGED vars
    BY <1>2, <1>11 DEF vars
  <1> QED
    BY <1>1, <1>2, <1>3, <1>4, <1>5, <1>6, <1>7, <1>8, <1>9, <1>10, <1>11 DEF Next, Handler

\* The entry that close() of the container closes, if any.
LEMMA ClosesTheEntry ==
    ASSUME IInv, NEW n, NEW ended, Close(n, ended),
           NEW h \in Handle, stream_[h] = "open", stream_'[h] = "closed"
    PROVE  n \in Listed /\ h = serials[n]
PROOF
  <1> QED
    BY DEF Close, IInv, TypeOK

\* A step that closes an open port is the user's close, or the end of its read.
LEMMA ClosedBy ==
    ASSUME NoName \notin Name, IInv, [Next]_vars,
           NEW h \in Handle, stream_[h] = "open", stream_'[h] = "closed"
    PROVE  reads[h] = "eof" \/ MessageClose(device[h])
PROOF
  <1>1. ASSUME NEW n \in Name, MessageClose(n)
        PROVE  MessageClose(device[h])
    <2>1. n \in Listed /\ h = serials[n]
      BY <1>1, ClosesTheEntry DEF MessageClose
    <2> QED
      BY <1>1, <2>1, EntryOf
  <1>2. ASSUME NEW g \in Handle, OnReadEof(g)
        PROVE  reads[h] = "eof"
    <2> DEFINE n == port_name_[g]
    <2>1. n \in Listed /\ h = serials[n]
      BY <1>2, ClosesTheEntry DEF OnReadEof, ClosesOn
    <2>2. n \in Name
      BY <2>1, EntryOf
    <2>3. stream_[g] = "open" /\ device[g] = n /\ g \notin leaked
      BY <1>2, <2>2 DEF IInv, NamesAreOwn, Fresh, OnReadEof
    <2>4. g = h
      BY <2>1, <2>3 DEF IInv, PortsAreListed
    <2> QED
      BY <1>2, <2>4 DEF OnReadEof
  <1>3. stream_' # stream_
    OBVIOUS
  <1>4. ASSUME NEW n \in Name, MessageData(n) \/ Remove(n) \/ Plug(n)
        PROVE  FALSE
    BY <1>3, <1>4 DEF MessageData, Remove, Plug, objects
  <1>5. ASSUME NEW n \in Name, NEW g \in Handle,
               MessageOpen(n, g) \/ MessageOpenBadBaud(n, g)
        PROVE  FALSE
    BY <1>5 DEF MessageOpen, MessageOpenBadBaud, IInv, TypeOK
  <1>6. ASSUME NEW g \in Handle,
               \/ OnReadData(g) \/ OnReadAborted(g) \/ OnReadError(g)
               \/ Writing(g) \/ OnWriteOk(g) \/ OnWriteError(g)
               \/ ReadEnds(g) \/ DataArrives(g)
        PROVE  FALSE
    BY <1>3, <1>6 DEF OnReadData, OnReadAborted, OnReadError, Writing, OnWriteOk,
                      OnWriteError, ReadEnds, DataArrives, Others
  <1>7. CASE UNCHANGED vars
    BY <1>3, <1>7 DEF vars, objects
  <1>8. CASE MessageStatus
    BY <1>3, <1>8 DEF MessageStatus, objects
  <1> QED
    BY <1>1, <1>2, <1>4, <1>5, <1>6, <1>7, <1>8 DEF Next, Handler

-----------------------------------------------------------------------------
\* Every variable keeps its kind.
THEOREM TypeCorrect == ASSUME NoName \notin Name PROVE Spec => []TypeOK
PROOF
  <1>1. IInv => TypeOK
    BY DEF IInv
  <1> QED
    BY <1>1, Invariant, PTL

(***************************************************************************)
(* open(), close() and the end of a read never leave the container and the *)
(* open ports apart, but for the ports whose open() failed.                *)
(***************************************************************************)
THEOREM OpenPortsAreListed == ASSUME NoName \notin Name PROVE Spec => []PortsAreListed
PROOF
  <1>1. IInv => PortsAreListed
    BY DEF IInv
  <1> QED
    BY <1>1, Invariant, PTL

(***************************************************************************)
(* The status that follows each change of the container is enough: the     *)
(* last one has every port that is open, and none that was closed since.   *)
(***************************************************************************)
THEOREM StatusShowsPorts == ASSUME NoName \notin Name PROVE Spec => []OpenedIsShown
PROOF
  <1>1. Init => OpenedIsShown
    BY DEF Init, OpenedIsShown, Listed
  <1>2. IInv /\ IInv' /\ OpenedIsShown /\ [Next]_vars => OpenedIsShown'
    BY StepsShow
  <1> QED
    BY <1>1, <1>2, Invariant, PTL DEF Spec

(***************************************************************************)
(* close_callback() closes by name, and the name may have been given to    *)
(* another port since: that port is not the one it closes.                 *)
(***************************************************************************)
THEOREM OnlyOwnEndCloses == ASSUME NoName \notin Name PROVE Spec => ClosedByItsOwnEnd
PROOF
  <1> DEFINE Own == \A h \in Handle : stream_[h] = "open" /\ stream_'[h] = "closed" =>
                        reads[h] = "eof" \/ MessageClose(device[h])
  <1>1. IInv /\ [Next]_vars => [Own]_vars
    BY ClosedBy
  <1>2. []IInv /\ [][Next]_vars => [][Own]_vars
    BY <1>1, PTL
  <1> QED
    BY <1>2, Invariant DEF Spec, ClosedByItsOwnEnd
=============================================================================
