--------------------------- MODULE PropagatorProofs ---------------------------
(***************************************************************************)
(* The hub, for any number of sessions and workers, any failures and any   *)
(* messages: a session that is destroyed is never touched again, and its   *)
(* end is announced at most twice.  With one worker UIDs are unique.       *)
(***************************************************************************)
EXTENDS Propagator, FiniteSetTheorems, TLAPS

-----------------------------------------------------------------------------
\* A write that is outstanding is that of the front of the queue.
FrontIsSent == \A s \in Session : sending[s] => queue_[s] # <<>>

Typed ==
    /\ TypeOK
    /\ IsFiniteSet(share_)
    /\ FrontIsSent

(***************************************************************************)
(* What keeps a destroyed session silent: one handler of a session runs at *)
(* a time, the one that runs belongs to a session that lives, and nothing  *)
(* of a session is pending when its destructor starts or has run.  Only a  *)
(* handshake that ended starts to read.                                    *)
(***************************************************************************)
Alive(s) ==
    /\ \A v, w \in Worker : frame[v].ws = s /\ frame[w].ws = s => v = w
    /\ ~StrandFree(s) => conn[s] \notin {"none", "gone"}
    /\ \A w \in Worker : frame[w].ws = s /\ frame[w].then # "return" => conn[s] # "accepting"
    /\ \A w \in Worker : At(w, s, "leave") => ~Pending(s)
    /\ conn[s] \in {"none", "gone"} => ~Pending(s)
    /\ s \in share_ => conn[s] = "open"
    /\ reading[s] => conn[s] # "accepting"

AllAlive == \A s \in Session : Alive(s)

\* The frames a handler starts with, and those it ends with.
LEMMA FramesTyped ==
    /\ Idle \in Frame
    /\ \A p \in Point, s \in Session : Enter(p, s) \in Frame
    /\ \A a \in Author, m \in Msg, t \in After : WriteAll(a, m, t) \in Frame
PROOF
  <1>1. Idle \in Frame
    BY DEF Idle, Frame, Point, After, Author, Msg, MsgType, Message
  <1>2. \A p \in Point, a \in Author : Enter(p, a) \in Frame
    BY <1>1 DEF Enter, Frame
  <1>3. ASSUME NEW a \in Author, NEW m \in Msg, NEW t \in After
        PROVE  WriteAll(a, m, t) \in Frame
    <2>1. Enter("snapshot", a) \in Frame
      BY <1>2 DEF Point
    <2> QED
      BY <2>1 DEF WriteAll, Frame
  <1>4. Session \subseteq Author
    BY DEF Author
  <1> QED
    BY <1>1, <1>2, <1>3, <1>4

\* A handler that returns leaves its worker idle, or in the destructor.
LEMMA ReleaseTyped ==
    ASSUME frame \in [Worker -> Frame], NEW w \in Worker, NEW s \in Session, Release(w, s)
    PROVE  frame' \in [Worker -> Frame]
PROOF
  <1>1. Idle \in Frame /\ Enter("leave", s) \in Frame
    BY FramesTyped DEF Point
  <1> QED
    BY <1>1 DEF Release

\* What a message that is posted, or relayed, looks like.
LEMMA MessagesTyped ==
    /\ \A k \in Nat : Message("hello", Nobody, k) \in Msg /\ Message("nusers", Nobody, k) \in Msg
    /\ Message("error", Nobody, 0) \in Msg
    /\ \A a \in Author, k \in Nat : Message("relay", a, k) \in Msg /\ Message("reply", a, k) \in Msg
PROOF
  <1> QED
    BY DEF Message, Msg, MsgType, Author

\* A write() to one session.
LEMMA PostTyped ==
    ASSUME TypeOK, NEW s \in Session, NEW m \in Msg,
           \/ posted' = posted
           \/ posted' = [posted EXCEPT ![s] = Append(@, m)]
    PROVE  posted' \in [Session -> Seq(Msg)]
PROOF
  <1>1. posted \in [Session -> Seq(Msg)] /\ Append(posted[s], m) \in Seq(Msg)
    BY DEF TypeOK
  <1> QED
    BY <1>1

\* The counts that are sent are numbers, whatever the unsigned arithmetic makes of them.
LEMMA CountTyped ==
    ASSUME IsFiniteSet(share_)
    PROVE  UsersOnOpen \in Nat /\ Unsigned(Cardinality(share_) - 1) \in Nat
PROOF
  <1>1. Cardinality(share_) \in Nat
    BY FS_CardinalityType
  <1>2. \A n \in Int : n % UIntMod \in Nat
    BY BoundAssumption
  <1> QED
    BY <1>1, <1>2 DEF UsersOnOpen, Unsigned

-----------------------------------------------------------------------------
\* The empty hub.
LEMMA InitTyped == Init => Typed
PROOF
  <1> SUFFICES ASSUME Init PROVE Typed
    OBVIOUS
  <1>1. TypeOK
    BY FramesTyped DEF Init, TypeOK, Author
  <1>2. IsFiniteSet(share_)
    BY FS_EmptySet DEF Init
  <1> QED
    BY <1>1, <1>2 DEF Typed, FrontIsSent, Init

\* A connection is accepted.
LEMMA ConnectTyped ==
    ASSUME Typed, NEW s \in Session, Connect(s)
    PROVE  Typed'
PROOF
  <1>1. TypeOK'
    BY DEF Typed, TypeOK, Connect, net, hist
  <1> QED
    BY <1>1 DEF Typed, FrontIsSent, Connect, net

\* The websocket handshake ends, well or not.
LEMMA AcceptTyped ==
    ASSUME Typed, NEW w \in Worker, NEW s \in Session,
           OnAccept(w, s) \/ OnAcceptClosed(w, s) \/ OnAcceptError(w, s)
    PROVE  Typed'
PROOF
  <1>1. TypeOK'
    <2>1. Enter("load_uid", s) \in Frame /\ Enter("close_count", s) \in Frame
      BY FramesTyped DEF Point
    <2>2. frame' \in [Worker -> Frame]
      BY <2>1, ReleaseTyped DEF Typed, TypeOK, OnAccept, OnAcceptClosed, OnAcceptError
    <2> QED
      BY <2>2 DEF Typed, TypeOK, OnAccept, OnAcceptClosed, OnAcceptError, net, hist
  <1>2. IsFiniteSet(share_')
    BY FS_AddElement DEF Typed, OnAccept, OnAcceptClosed, OnAcceptError
  <1>3. FrontIsSent'
    BY DEF Typed, FrontIsSent, OnAccept, OnAcceptClosed, OnAcceptError, net
  <1> QED
    BY <1>1, <1>2, <1>3 DEF Typed

\* The statements of on_open and on_close.
LEMMA OpenTyped ==
    ASSUME Typed, NEW w \in Worker, NEW s \in Session,
           LoadUid(w, s) \/ StoreUid(w, s) \/ OpenCount(w, s) \/ CloseCount(w, s)
    PROVE  Typed'
PROOF
  <1> DEFINE m == Message("hello", Nobody, frame[w].val)
             k == Unsigned(Cardinality(share_) - 1)
             loaded == [frame[w] EXCEPT !.val = userid, !.at = "store_uid"]
  <1>1. frame \in [Worker -> Frame] /\ frame[w] \in Frame /\ frame[w].val \in Nat
    BY DEF Typed, TypeOK, Frame
  <1>2. m \in Msg /\ Message("nusers", Nobody, UsersOnOpen) \in Msg /\ Message("nusers", Nobody, k) \in Msg
    BY <1>1, CountTyped, MessagesTyped DEF Typed
  <1>3. frame' \in [Worker -> Frame]
    <2>1. CASE LoadUid(w, s)
      <3>1. loaded \in Frame
        BY <1>1 DEF Typed, TypeOK, Frame, Point
      <3>2. frame' = [frame EXCEPT ![w] = loaded]
        BY <1>1, <2>1 DEF LoadUid
      <3> QED
        BY <1>1, <3>1, <3>2
    <2>2. CASE StoreUid(w, s)
      <3>1. Enter("open_count", s) \in Frame
        BY FramesTyped DEF Point
      <3> QED
        BY <1>1, <2>2, <3>1 DEF StoreUid
    <2>3. CASE OpenCount(w, s)
      <3>1. WriteAll(s, Message("nusers", Nobody, UsersOnOpen), "return") \in Frame
        BY FramesTyped, <1>2 DEF Author, After
      <3> QED
        BY <1>1, <2>3, <3>1 DEF OpenCount
    <2>4. CASE CloseCount(w, s)
      <3>1. WriteAll(s, Message("nusers", Nobody, k), "return") \in Frame
        BY FramesTyped, <1>2 DEF Author, After
      <3> QED
        BY <1>1, <2>4, <3>1 DEF CloseCount
    <2> QED
      BY <2>1, <2>2, <2>3, <2>4
  <1>4. posted' \in [Session -> Seq(Msg)]
    <2>1. posted' = posted \/ posted' = [posted EXCEPT ![s] = Append(@, m)]
      BY DEF LoadUid, StoreUid, OpenCount, CloseCount, net
    <2> QED
      BY <1>2, <2>1, PostTyped DEF Typed
  <1>5. userid' \in Nat /\ uid' \in [Session -> Nat] /\ notices' \in [Session -> Nat]
    <2>1. CASE StoreUid(w, s)
      <3>1. userid' = frame[w].val + 1 /\ notices' = notices
        BY <2>1 DEF StoreUid, NextUid
      <3>2. uid' = [uid EXCEPT ![s] = frame[w].val]
        BY <2>1 DEF StoreUid
      <3> QED
        BY <1>1, <3>1, <3>2 DEF Typed, TypeOK
    <2>2. CASE ~StoreUid(w, s)
      <3>1. /\ userid' = userid /\ uid' = uid
            /\ notices' = notices \/ notices' = [notices EXCEPT ![s] = notices[s] + 1]
        BY <2>2 DEF LoadUid, OpenCount, CloseCount, hist
      <3>2. notices[s] + 1 \in Nat
        BY DEF Typed, TypeOK
      <3>3. notices' \in [Session -> Nat]
        BY <3>1, <3>2 DEF Typed, TypeOK
      <3> QED
        BY <3>1, <3>3 DEF Typed, TypeOK
    <2> QED
      BY <2>1, <2>2
  <1>6. TypeOK'
    BY <1>3, <1>4, <1>5 DEF Typed, TypeOK, LoadUid, StoreUid, OpenCount, CloseCount, net, hist
  <1>7. IsFiniteSet(share_)' /\ FrontIsSent'
    BY DEF Typed, FrontIsSent, LoadUid, StoreUid, OpenCount, CloseCount, net
  <1> QED
    BY <1>6, <1>7 DEF Typed

\* The loop of exec_to_all.
LEMMA LoopTyped ==
    ASSUME Typed, NEW w \in Worker, Snapshot(w) \/ \E r \in Session : Visit(w, r)
    PROVE  Typed'
PROOF
  <1> DEFINE taken == [frame[w] EXCEPT !.todo = share_, !.at = "visit"]
             visited(r) == [frame[w] EXCEPT !.todo = @ \ {r}]
  <1>1. frame \in [Worker -> Frame] /\ frame[w] \in Frame /\ frame[w].note \in Msg
    BY DEF Typed, TypeOK, Frame
  <1>2. frame' \in [Worker -> Frame]
    <2>1. taken \in Frame
      BY <1>1 DEF Typed, TypeOK, Frame, Point
    <2>2. \A r \in Session : visited(r) \in Frame
      BY <1>1 DEF Frame
    <2>3. Snapshot(w) => frame' = [frame EXCEPT ![w] = taken]
      BY <1>1 DEF Snapshot
    <2>4. \A r \in Session : Visit(w, r) => frame' = [frame EXCEPT ![w] = visited(r)]
      BY <1>1 DEF Visit
    <2> QED
      BY <1>1, <2>1, <2>2, <2>3, <2>4
  <1>3. posted' \in [Session -> Seq(Msg)]
    <2>1. CASE Snapshot(w)
      BY <2>1 DEF Typed, TypeOK, Snapshot, net
    <2>2. ASSUME NEW r \in Session, Visit(w, r)
          PROVE  posted' \in [Session -> Seq(Msg)]
      <3>1. posted' = posted \/ posted' = [posted EXCEPT ![r] = Append(@, frame[w].note)]
        BY <2>2 DEF Visit
      <3> QED
        BY <1>1, <3>1, PostTyped DEF Typed
    <2> QED
      BY <2>1, <2>2
  <1>4. TypeOK'
    BY <1>2, <1>3 DEF Typed, TypeOK, Snapshot, Visit, net, hist
  <1>5. IsFiniteSet(share_)' /\ FrontIsSent'
    BY DEF Typed, FrontIsSent, Snapshot, Visit, net
  <1> QED
    BY <1>4, <1>5 DEF Typed

\* What a handler does after its loop.
LEMMA LoopEndTyped ==
    ASSUME Typed, NEW w \in Worker, NEW s \in Session,
           EndNotice(w, s) \/ Reject(w, s) \/ EchoApp(w, s) \/ EndRead(w, s)
    PROVE  Typed'
PROOF
  <1>1. frame' \in [Worker -> Frame]
    <2>1. CASE EchoApp(w, s)
      <3>1. frame[w].note.n \in Nat
        BY DEF Typed, TypeOK, Frame, Msg
      <3>2. WriteAll(s, Message("reply", s, frame[w].note.n), "do_read") \in Frame
        BY <3>1, FramesTyped, MessagesTyped DEF Author, After
      <3> QED
        BY <2>1, <3>2 DEF Typed, TypeOK, EchoApp
    <2>2. CASE Release(w, s)
      BY <2>2, ReleaseTyped DEF Typed, TypeOK
    <2> QED
      BY <2>1, <2>2 DEF EndNotice, Reject, EndRead
  <1>2. posted' \in [Session -> Seq(Msg)]
    <2>1. posted' = posted \/ posted' = [posted EXCEPT ![s] = Append(@, Message("error", Nobody, 0))]
      BY DEF EndNotice, Reject, EchoApp, EndRead, net
    <2> QED
      BY <2>1, MessagesTyped, PostTyped DEF Typed
  <1>3. TypeOK'
    BY <1>1, <1>2 DEF Typed, TypeOK, EndNotice, Reject, EchoApp, EndRead, net, hist
  <1>4. IsFiniteSet(share_)' /\ FrontIsSent'
    BY DEF Typed, FrontIsSent, EndNotice, Reject, EchoApp, EndRead, net
  <1> QED
    BY <1>3, <1>4 DEF Typed

\* A message that arrives is relayed to all.
LEMMA MessageTyped ==
    ASSUME Typed, NEW w \in Worker, NEW s \in Session, NEW after \in After,
           OnReadNotJson(w, s) \/ OnReadMessage(w, s, after)
    PROVE  Typed'
PROOF
  <1>1. sent[s] + 1 \in Nat /\ Message("relay", s, sent[s] + 1) \in Msg
    BY MessagesTyped DEF Typed, TypeOK, Author
  <1>2. frame' \in [Worker -> Frame]
    <2>1. CASE OnReadNotJson(w, s)
      BY <2>1 DEF Typed, TypeOK, OnReadNotJson
    <2>2. CASE OnReadMessage(w, s, after)
      <3>1. sent'[s] = sent[s] + 1 /\ s \in Author
        BY <2>2 DEF Typed, TypeOK, OnReadMessage, Author
      <3>2. WriteAll(s, Message("relay", s, sent'[s]), after) \in Frame
        BY <1>1, <3>1, FramesTyped
      <3> QED
        BY <2>2, <3>2 DEF Typed, TypeOK, OnReadMessage
    <2> QED
      BY <2>1, <2>2
  <1>3. posted' \in [Session -> Seq(Msg)]
    <2>1. posted' = posted \/ posted' = [posted EXCEPT ![s] = Append(@, Message("error", Nobody, 0))]
      BY DEF OnReadNotJson, OnReadMessage, net
    <2> QED
      BY <2>1, MessagesTyped, PostTyped DEF Typed
  <1>4. sent' \in [Author -> Nat]
    BY <1>1 DEF Typed, TypeOK, OnReadNotJson, OnReadMessage, Author, hist
  <1>5. TypeOK'
    BY <1>2, <1>3, <1>4 DEF Typed, TypeOK, OnReadNotJson, OnReadMessage, net, hist
  <1>6. IsFiniteSet(share_)' /\ FrontIsSent'
    BY DEF Typed, FrontIsSent, OnReadNotJson, OnReadMessage, net
  <1> QED
    BY <1>5, <1>6 DEF Typed

\* An application relays what it has read.
LEMMA AppTyped ==
    ASSUME Typed, NEW w \in Worker, AppData(w) \/ EndAppData(w)
    PROVE  Typed'
PROOF
  <1>1. frame' \in [Worker -> Frame] /\ sent' \in [Author -> Nat]
    <2>1. CASE AppData(w)
      <3>1. Nobody \in Author /\ sent[Nobody] + 1 \in Nat
        BY DEF Typed, TypeOK, Author
      <3>2. sent' = [sent EXCEPT ![Nobody] = sent[Nobody] + 1] /\ sent'[Nobody] = sent[Nobody] + 1
        BY <2>1, <3>1 DEF Typed, TypeOK, AppData
      <3>3. WriteAll(Nobody, Message("relay", Nobody, sent'[Nobody]), "return") \in Frame
        BY <3>1, <3>2, MessagesTyped, FramesTyped DEF After
      <3> QED
        BY <2>1, <3>1, <3>2, <3>3 DEF Typed, TypeOK, AppData
    <2>2. CASE EndAppData(w)
      BY <2>2, FramesTyped DEF Typed, TypeOK, EndAppData, hist
    <2> QED
      BY <2>1, <2>2
  <1>2. TypeOK'
    BY <1>1 DEF Typed, TypeOK, AppData, EndAppData, net, hist
  <1> QED
    BY <1>2 DEF Typed, FrontIsSent, AppData, EndAppData, net

\* The end of a read or a write by an error, and the destructor.  That a destroyed
\* session has no write outstanding is where the types need Alive.
LEMMA DownTyped ==
    ASSUME Typed, NEW w \in Worker, NEW s \in Session, Alive(s),
           \/ OnReadClosed(w, s) \/ OnReadError(w, s) \/ OnReadAborted(w, s)
           \/ OnWriteError(w, s) \/ OnWriteAborted(w, s) \/ Leave(w, s)
    PROVE  Typed'
PROOF
  <1>1. frame' \in [Worker -> Frame]
    <2>1. Idle \in Frame /\ Enter("close_count", s) \in Frame
      BY FramesTyped DEF Point
    <2>2. \/ Release(w, s) \/ frame' = [frame EXCEPT ![w] = Idle]
          \/ frame' = [frame EXCEPT ![w] = Enter("close_count", s)]
      BY DEF OnReadClosed, OnReadError, OnReadAborted, OnWriteError, OnWriteAborted, Leave
    <2> QED
      BY <2>1, <2>2, ReleaseTyped DEF Typed, TypeOK
  <1>2. queue_' \in [Session -> Seq(Msg)] /\ share_' \subseteq Session
    <2>1. /\ queue_' = queue_ \/ queue_' = [queue_ EXCEPT ![s] = <<>>]
          /\ share_' \subseteq share_
      BY DEF OnReadClosed, OnReadError, OnReadAborted, OnWriteError, OnWriteAborted, Leave
    <2> DEFINE Messages == Seq(Msg)
    <2>2. <<>> \in Messages /\ queue_ \in [Session -> Messages]
      BY DEF Typed, TypeOK
    <2> HIDE DEF Messages
    <2>3. queue_' \in [Session -> Messages]
      BY <2>1, <2>2
    <2> USE DEF Messages
    <2> QED
      BY <2>1, <2>3 DEF Typed, TypeOK
  <1>3. /\ conn' \in [Session -> {"none", "accepting", "refused", "open", "gone"}]
        /\ stream' \in [Session -> {"open", "closed", "failed"}]
        /\ reading' \in [Session -> BOOLEAN]
        /\ sending' \in [Session -> BOOLEAN]
    <2>1. \/ conn' = conn \/ conn' = [conn EXCEPT ![s] = "gone"]
      BY DEF OnReadClosed, OnReadError, OnReadAborted, OnWriteError, OnWriteAborted, Leave
    <2>2. \/ stream' = stream \/ stream' = [stream EXCEPT ![s] = "closed"]
          \/ stream' = [stream EXCEPT ![s] = "failed"]
      BY DEF OnReadClosed, OnReadError, OnReadAborted, OnWriteError, OnWriteAborted, Leave
    <2>3. /\ reading' = reading \/ reading' = [reading EXCEPT ![s] = FALSE]
          /\ sending' = sending \/ sending' = [sending EXCEPT ![s] = FALSE]
      BY DEF OnReadClosed, OnReadError, OnReadAborted, OnWriteError, OnWriteAborted, Leave
    <2> QED
      BY <2>1, <2>2, <2>3 DEF Typed, TypeOK
  <1>4. TypeOK'
    BY <1>1, <1>2, <1>3 DEF Typed, TypeOK, OnReadClosed, OnReadError, OnReadAborted,
                            OnWriteError, OnWriteAborted, Leave, hist
  <1>5. IsFiniteSet(share_')
    BY FS_RemoveElement DEF Typed, OnReadClosed, OnReadError, OnReadAborted,
                            OnWriteError, OnWriteAborted, Leave
  <1>6. FrontIsSent'
    <2>1. CASE Leave(w, s)
      BY <2>1 DEF Typed, TypeOK, FrontIsSent, Alive, Pending, Leave
    <2>2. CASE ~Leave(w, s)
      BY <2>2 DEF Typed, TypeOK, FrontIsSent, OnReadClosed, OnReadError, OnReadAborted,
                  OnWriteError, OnWriteAborted
    <2> QED
      BY <2>1, <2>2
  <1> QED
    BY <1>4, <1>5, <1>6 DEF Typed

\* write() and its completion: a write that ends has a front to hand over.
LEMMA WriteTyped ==
    ASSUME Typed, NEW w \in Worker, NEW s \in Session, Writing(w, s) \/ OnWriteOk(w, s)
    PROVE  Typed'
PROOF
  <1>1. queue_[s] \in Seq(Msg) /\ posted[s] \in Seq(Msg)
    BY DEF Typed, TypeOK
  <1>2. frame' \in [Worker -> Frame]
    BY ReleaseTyped DEF Typed, TypeOK, Writing, OnWriteOk
  <1>3. CASE Writing(w, s)
    <2>1. Head(posted[s]) \in Msg /\ Tail(posted[s]) \in Seq(Msg)
      BY <1>1, <1>3 DEF Writing
    <2>2. Append(queue_[s], Head(posted[s])) \in Seq(Msg) /\ Append(queue_[s], Head(posted[s])) # <<>>
      BY <1>1, <2>1
    <2>3. /\ posted' = [posted EXCEPT ![s] = Tail(posted[s])]
          /\ queue_' = [queue_ EXCEPT ![s] = Append(queue_[s], Head(posted[s]))]
      BY <1>3 DEF Writing, PushBack
    <2>4. posted' \in [Session -> Seq(Msg)] /\ queue_' \in [Session -> Seq(Msg)]
      BY <2>1, <2>2, <2>3 DEF Typed, TypeOK
    <2>5. sending' \in [Session -> BOOLEAN]
      BY <1>3 DEF Typed, TypeOK, Writing, StartsWrite
    <2>6. TypeOK'
      BY <1>2, <1>3, <2>4, <2>5 DEF Typed, TypeOK, Writing, hist
    <2>7. FrontIsSent'
      BY <1>3, <2>2, <2>3 DEF Typed, TypeOK, FrontIsSent, Writing
    <2> QED
      BY <1>3, <2>6, <2>7 DEF Typed, Writing
  <1>4. CASE OnWriteOk(w, s)
    <2>1. queue_[s] # <<>>
      BY <1>4 DEF Typed, FrontIsSent, OnWriteOk
    <2>2. Head(queue_[s]) \in Msg /\ Tail(queue_[s]) \in Seq(Msg)
      BY <1>1, <2>1
    <2>3. Head(queue_[s]).n \in Nat
      BY <2>2 DEF Msg
    <2>4. /\ queue_' = [queue_ EXCEPT ![s] = Tail(queue_[s])]
          /\ sending' = [sending EXCEPT ![s] = (queue_'[s] # <<>>)]
      BY <1>4 DEF OnWriteOk, ContinuesWrite
    <2>5. got' \in [Session -> Seq(Msg)]
      <3>1. got[s] \in Seq(Msg) /\ Append(got[s], Head(queue_[s])) \in Seq(Msg)
        BY <2>2 DEF Typed, TypeOK
      <3>2. got' = got \/ got' = [got EXCEPT ![s] = Append(got[s], Head(queue_[s]))]
        BY <1>4 DEF OnWriteOk
      <3> QED
        BY <3>1, <3>2 DEF Typed, TypeOK
    <2>6. shown' \in [Session -> Nat]
      <3>1. shown' = shown \/ shown' = [shown EXCEPT ![s] = Head(queue_[s]).n]
        BY <1>4 DEF OnWriteOk
      <3> QED
        BY <2>3, <3>1 DEF Typed, TypeOK
    <2>7. queue_' \in [Session -> Seq(Msg)] /\ sending' \in [Session -> BOOLEAN]
      BY <2>2, <2>4 DEF Typed, TypeOK
    <2>8. TypeOK'
      BY <1>2, <1>4, <2>5, <2>6, <2>7 DEF Typed, TypeOK, OnWriteOk
    <2>9. FrontIsSent'
      BY <2>4 DEF Typed, TypeOK, FrontIsSent
    <2> QED
      BY <1>4, <2>8, <2>9 DEF Typed, OnWriteOk
  <1> QED
    BY <1>3, <1>4

\* The types are kept by every step of a hub whose sessions are alive.
LEMMA NextTyped == Typed /\ AllAlive /\ [Next]_vars => Typed'
PROOF
  <1> SUFFICES ASSUME Typed, AllAlive, [Next]_vars PROVE Typed'
    OBVIOUS
  <1>1. CASE UNCHANGED vars
    <2>1. TypeOK'
      BY <1>1 DEF Typed, TypeOK, vars, net, hist
    <2> QED
      BY <1>1, <2>1 DEF Typed, FrontIsSent, vars, net
  <1>2. ASSUME NEW s \in Session, Connect(s)
        PROVE  Typed'
    BY <1>2, ConnectTyped
  <1>3. ASSUME NEW w \in Worker, AppData(w)
        PROVE  Typed'
    BY <1>3, AppTyped
  <1>4. ASSUME NEW w \in Worker, Continue(w)
        PROVE  Typed'
    BY <1>4, AppTyped, OpenTyped, LoopTyped, LoopEndTyped, DownTyped DEF Continue, AllAlive
  <1>5. ASSUME NEW w \in Worker, NEW s \in Session, Environment(w, s) \/ Handler(w, s)
        PROVE  Typed'
    BY <1>5, AcceptTyped, MessageTyped, DownTyped, WriteTyped DEF Environment, Handler, After, AllAlive
  <1> QED
    BY <1>1, <1>2, <1>3, <1>4, <1>5 DEF Next

-----------------------------------------------------------------------------
\* Nothing that Alive(r) speaks of changes, but for the frames.
Undisturbed(r) ==
    /\ conn'[r] = conn[r] /\ reading'[r] = reading[r] /\ Pending(r)' = Pending(r)
    /\ r \in share_' => r \in share_

\* Worker w runs, or may run, a handler of s, and no other worker does.
Holds(w, s) == \A v \in Worker : frame[v].ws = s => v = w

\* A session is kept alive by the handler of another.
LEMMA OthersKept ==
    ASSUME TypeOK, NEW w \in Worker, NEW r \in Session, NEW f \in Frame, Alive(r),
           frame' = [frame EXCEPT ![w] = f], f.ws # r, Undisturbed(r)
    PROVE  Alive(r)'
PROOF
  <1>1. \A v \in Worker : frame'[v].ws = r => frame'[v] = frame[v]
    BY DEF TypeOK
  <1> QED
    BY <1>1 DEF Alive, StrandFree, At, Undisturbed

\* A step of a handler of s keeps every session alive if it keeps its own so.
LEMMA HandlerStep ==
    ASSUME TypeOK, AllAlive, NEW w \in Worker, NEW s \in Session, NEW f \in Frame,
           Holds(w, s), frame' = [frame EXCEPT ![w] = f], f.ws \in {s, Nobody},
           \A r \in Session \ {s} : Undisturbed(r),
           f.ws = s => conn'[s] \notin {"none", "gone"},
           f.ws = s /\ f.then # "return" => conn'[s] # "accepting",
           f.ws = s /\ f.at = "leave" => ~Pending(s)',
           conn'[s] \in {"none", "gone"} => ~Pending(s)',
           s \in share_' => conn'[s] = "open",
           reading'[s] => conn'[s] # "accepting"
    PROVE  AllAlive'
PROOF
  <1>1. \A r \in Session \ {s} : Alive(r)'
    BY OthersKept, NobodyAssumption DEF AllAlive
  <1>2. Alive(s)'
    <2>1. \A v \in Worker : frame'[v].ws = s => v = w
      BY DEF TypeOK, Holds
    <2>2. frame'[w] = f
      BY DEF TypeOK
    <2> QED
      BY <2>1, <2>2 DEF Alive, StrandFree, At
  <1> QED
    BY <1>1, <1>2 DEF AllAlive

\* The handler of s that returns.
LEMMA ReturnStep ==
    ASSUME TypeOK, AllAlive, NEW w \in Worker, NEW s \in Session,
           Holds(w, s), Release(w, s),
           \A r \in Session \ {s} : Undisturbed(r),
           conn'[s] \notin {"none", "gone"},
           s \in share_' => conn'[s] = "open",
           reading'[s] => conn'[s] # "accepting"
    PROVE  AllAlive'
PROOF
  <1> DEFINE f == IF Pending(s)' THEN Idle ELSE Enter("leave", s)
  <1>1. f \in Frame /\ f.ws \in {s, Nobody} /\ (f.ws = s => ~Pending(s)') /\ f.then = "return"
    <2>1. /\ Idle.ws = Nobody /\ Enter("leave", s).ws = s
          /\ Idle.then = "return" /\ Enter("leave", s).then = "return"
      BY DEF Idle, Enter
    <2>2. Idle \in Frame /\ Enter("leave", s) \in Frame
      BY FramesTyped DEF Point
    <2> QED
      BY <2>1, <2>2, NobodyAssumption
  <1>2. frame' = [frame EXCEPT ![w] = f]
    BY DEF Release
  <1> HIDE DEF f
  <1> QED
    BY <1>1, <1>2, HandlerStep

\* Who holds the strand of s: a handler that has begun, or one that may begin.
LEMMA HoldsStrand ==
    ASSUME AllAlive, NEW w \in Worker, NEW s \in Session
    PROVE  /\ CanRun(w, s) => Holds(w, s)
           /\ frame[w].ws = s => Holds(w, s) /\ conn[s] \notin {"none", "gone"}
PROOF
  <1> QED
    BY DEF AllAlive, Alive, CanRun, StrandFree, Holds

\* A step after which the same handlers run, or none of them in a destructor.
LEMMA SameStrands ==
    ASSUME AllAlive, UNCHANGED <<conn, reading, share_>>,
           \A v \in Worker : /\ frame'[v].ws = frame[v].ws
                             /\ frame'[v].then = frame[v].then
                             /\ frame'[v].at = "leave" => frame[v].at = "leave",
           \A r \in Session : Pending(r)' => Locked(r)
    PROVE  AllAlive'
PROOF
  <1> SUFFICES ASSUME NEW r \in Session PROVE Alive(r)'
    BY DEF AllAlive
  <1>1. Alive(r)
    BY DEF AllAlive
  <1>2. Locked(r) =>
          /\ conn[r] \notin {"none", "gone"}
          /\ \A v \in Worker : ~At(v, r, "leave")
    BY <1>1 DEF Alive, Locked, StrandFree, At
  <1> QED
    BY <1>1, <1>2 DEF Alive, StrandFree, At

-----------------------------------------------------------------------------
\* Of the empty hub nothing is pending.
LEMMA InitAlive == Init => AllAlive
PROOF
  <1> QED
    BY NobodyAssumption DEF Init, AllAlive, Alive, Pending, StrandFree, At, Idle

\* A connection that is accepted starts with no handler but that of the handshake.
LEMMA ConnectAlive ==
    ASSUME TypeOK, AllAlive, NEW s \in Session, Connect(s)
    PROVE  AllAlive'
PROOF
  <1>1. /\ conn[s] = "none" /\ conn' = [conn EXCEPT ![s] = "accepting"]
        /\ UNCHANGED <<reading, posted, queue_, sending, share_, frame>>
    BY DEF Connect, net
  <1>2. ASSUME NEW r \in Session, r # s
        PROVE  Alive(r)'
    <2>1. Alive(r) /\ conn'[r] = conn[r]
      BY <1>1, <1>2 DEF AllAlive, TypeOK
    <2> QED
      BY <1>1, <2>1 DEF Alive, Pending, StrandFree, At
  <1>3. Alive(s)'
    <2>1. Alive(s) /\ conn'[s] = "accepting"
      BY <1>1 DEF AllAlive, TypeOK
    <2>2. StrandFree(s) /\ ~reading[s] /\ s \notin share_
      BY <1>1, <2>1 DEF Alive, Pending
    <2> QED
      BY <1>1, <2>1, <2>2 DEF Alive, StrandFree, At
  <1> QED
    BY <1>2, <1>3 DEF AllAlive

\* The handler of the handshake goes on with on_open or on_close, or returns.
LEMMA AcceptAlive ==
    ASSUME TypeOK, AllAlive, NEW w \in Worker, NEW s \in Session,
           OnAccept(w, s) \/ OnAcceptClosed(w, s) \/ OnAcceptError(w, s)
    PROVE  AllAlive'
PROOF
  <1>1. Alive(s) /\ conn[s] = "accepting" /\ Holds(w, s)
    BY HoldsStrand DEF AllAlive, OnAccept, OnAcceptClosed, OnAcceptError
  <1>2. \A r \in Session \ {s} : Undisturbed(r)
    BY DEF TypeOK, Undisturbed, Pending, OnAccept, OnAcceptClosed, OnAcceptError
  <1>3. CASE OnAccept(w, s)
    <2>1. Enter("load_uid", s) \in Frame
      BY FramesTyped DEF Point
    <2>2. Enter("load_uid", s).ws = s /\ Enter("load_uid", s).at = "load_uid"
      BY DEF Enter, Idle
    <2>3. conn'[s] = "open"
      BY <1>3 DEF OnAccept, TypeOK
    <2>4. frame' = [frame EXCEPT ![w] = Enter("load_uid", s)]
      BY <1>3 DEF OnAccept
    <2> QED
      BY <1>1, <1>2, <2>1, <2>2, <2>3, <2>4, HandlerStep
  <1>4. CASE OnAcceptClosed(w, s)
    <2>1. Enter("close_count", s) \in Frame
      BY FramesTyped DEF Point
    <2>2. /\ Enter("close_count", s).ws = s /\ Enter("close_count", s).at = "close_count"
          /\ Enter("close_count", s).then = "return"
      BY DEF Enter, Idle
    <2>3. conn'[s] = "refused" /\ share_' = share_
      BY <1>4 DEF OnAcceptClosed, TypeOK
    <2>4. s \notin share_
      BY <1>1 DEF Alive
    <2>5. frame' = [frame EXCEPT ![w] = Enter("close_count", s)]
      BY <1>4 DEF OnAcceptClosed
    <2> QED
      BY <1>1, <1>2, <2>1, <2>2, <2>3, <2>4, <2>5, HandlerStep
  <1>5. CASE OnAcceptError(w, s)
    <2>1. conn'[s] = "refused" /\ share_' = share_ /\ Release(w, s)
      BY <1>5 DEF OnAcceptError, TypeOK
    <2>2. s \notin share_
      BY <1>1 DEF Alive
    <2> QED
      BY <1>1, <1>2, <2>1, <2>2, ReturnStep
  <1> QED
    BY <1>3, <1>4, <1>5

\* The statements of a handler of s that has been entered: the frame stays with s.
LEMMA StatementAlive ==
    ASSUME TypeOK, TypeOK', AllAlive, NEW w \in Worker, NEW s \in Session,
           LoadUid(w, s) \/ StoreUid(w, s) \/ OpenCount(w, s) \/ CloseCount(w, s) \/ EchoApp(w, s)
    PROVE  AllAlive'
PROOF
  <1>1. Alive(s) /\ frame[w].ws = s
    BY DEF AllAlive, LoadUid, StoreUid, OpenCount, CloseCount, EchoApp, At, LoopEnded
  <1>2. Holds(w, s) /\ conn[s] \notin {"none", "gone"}
    BY <1>1, HoldsStrand
  <1>3. UNCHANGED <<conn, reading, sending, share_>> /\ \A r \in Session \ {s} : posted'[r] = posted[r]
    BY DEF TypeOK, LoadUid, StoreUid, OpenCount, CloseCount, EchoApp, net
  <1>4. \A r \in Session \ {s} : Undisturbed(r)
    BY <1>3 DEF Undisturbed, Pending
  <1> DEFINE Stays == /\ frame' = [frame EXCEPT ![w] = frame'[w]]
                      /\ frame'[w].ws = s /\ frame'[w].at # "leave"
                      /\ frame'[w].then # "return" => frame[w].then # "return"
  <1>5. Stays
    <2>1. CASE LoadUid(w, s)
      <3> DEFINE f == [frame[w] EXCEPT !.val = userid, !.at = "store_uid"]
      <3>1. frame' = [frame EXCEPT ![w] = f]
        BY <2>1 DEF LoadUid, TypeOK
      <3>2. f.ws = s /\ f.at = "store_uid" /\ f.then = frame[w].then
        BY <1>1 DEF TypeOK, Frame
      <3> HIDE DEF f
      <3> QED
        BY <3>1, <3>2 DEF TypeOK
    <2>2. CASE frame' = [frame EXCEPT ![w] = Enter("open_count", s)]
      <3>1. /\ Enter("open_count", s).ws = s /\ Enter("open_count", s).at = "open_count"
            /\ Enter("open_count", s).then = "return"
        BY DEF Enter, Idle
      <3> QED
        BY <2>2, <3>1 DEF TypeOK
    <2>3. ASSUME NEW m, NEW t, frame' = [frame EXCEPT ![w] = WriteAll(s, m, t)],
                 t # "return" => frame[w].then # "return"
          PROVE  Stays
      <3>1. /\ WriteAll(s, m, t).ws = s /\ WriteAll(s, m, t).at = "snapshot"
            /\ WriteAll(s, m, t).then = t
        BY DEF WriteAll, Enter, Idle
      <3> QED
        BY <2>3, <3>1 DEF TypeOK
    <2>4. CASE StoreUid(w, s)
      BY <2>2, <2>4 DEF StoreUid
    <2>5. CASE OpenCount(w, s) \/ CloseCount(w, s) \/ EchoApp(w, s)
      <3> HIDE DEF Stays
      <3> QED
        BY <2>3, <2>5 DEF OpenCount, CloseCount, EchoApp, LoopEnded
    <2> QED
      BY <2>1, <2>4, <2>5
  <1>6. frame'[w] \in Frame
    BY DEF TypeOK
  <1> QED
    BY <1>1, <1>2, <1>3, <1>4, <1>5, <1>6, HandlerStep DEF Alive

\* The loop of exec_to_all runs none of the handlers it posts.
LEMMA LoopAlive ==
    ASSUME TypeOK, AllAlive, NEW w \in Worker, Snapshot(w) \/ \E r \in Session : Visit(w, r)
    PROVE  AllAlive'
PROOF
  <1>1. UNCHANGED <<conn, reading, sending, share_>>
    BY DEF Snapshot, Visit, net
  <1>2. \A v \in Worker : /\ frame'[v].ws = frame[v].ws
                          /\ frame'[v].then = frame[v].then
                          /\ frame'[v].at = "leave" => frame[v].at = "leave"
    <2>1. frame[w] \in Frame /\ frame \in [Worker -> Frame]
      BY DEF TypeOK
    <2>2. CASE Snapshot(w)
      <3> DEFINE f == [frame[w] EXCEPT !.todo = share_, !.at = "visit"]
      <3>1. f.ws = frame[w].ws /\ f.at = "visit" /\ f.then = frame[w].then
        BY <2>1 DEF Frame
      <3>2. frame' = [frame EXCEPT ![w] = f]
        BY <2>1, <2>2 DEF Snapshot
      <3> HIDE DEF f
      <3> QED
        BY <2>1, <3>1, <3>2
    <2>3. ASSUME NEW r \in Session, Visit(w, r)
          PROVE  \A v \in Worker : /\ frame'[v].ws = frame[v].ws /\ frame'[v].at = frame[v].at
                                   /\ frame'[v].then = frame[v].then
      <3> DEFINE f == [frame[w] EXCEPT !.todo = @ \ {r}]
      <3>1. f.ws = frame[w].ws /\ f.at = frame[w].at /\ f.then = frame[w].then
        BY <2>1 DEF Frame
      <3>2. frame' = [frame EXCEPT ![w] = f]
        BY <2>1, <2>3 DEF Visit
      <3> HIDE DEF f
      <3> QED
        BY <2>1, <3>1, <3>2
    <2> QED
      BY <2>2, <2>3
  <1>3. \A r \in Session : Pending(r)' => Locked(r)
    <2>1. \A r \in Session : posted'[r] = posted[r] \/ Locked(r)
      BY DEF TypeOK, Snapshot, Visit, net
    <2> QED
      BY <1>1, <2>1 DEF Pending, Locked
  <1> QED
    BY <1>1, <1>2, <1>3, SameStrands

\* A handler of s whose loop is over returns.
LEMMA ReturnAlive ==
    ASSUME TypeOK, AllAlive, NEW w \in Worker, NEW s \in Session,
           EndNotice(w, s) \/ Reject(w, s) \/ EndRead(w, s)
    PROVE  AllAlive'
PROOF
  <1>1. Alive(s) /\ frame[w].ws = s /\ Release(w, s)
    BY DEF AllAlive, EndNotice, Reject, EndRead, At, LoopEnded
  <1>2. Holds(w, s) /\ conn[s] \notin {"none", "gone"}
    BY <1>1, HoldsStrand
  <1>3. UNCHANGED <<conn, share_>>
    BY DEF EndNotice, Reject, EndRead, net
  <1>4. \A r \in Session \ {s} : Undisturbed(r)
    BY DEF TypeOK, Undisturbed, Pending, EndNotice, Reject, EndRead, net
  <1>5. reading'[s] => conn[s] # "accepting"
    BY <1>1 DEF Alive, EndNotice, Reject, EndRead, LoopEnded, net
  <1> QED
    BY <1>1, <1>2, <1>3, <1>4, <1>5, ReturnStep DEF Alive

\* A message arrives: the handler of the read begins, or ends at once.
LEMMA MessageAlive ==
    ASSUME TypeOK, TypeOK', AllAlive, NEW w \in Worker, NEW s \in Session, NEW after \in After,
           OnReadNotJson(w, s) \/ OnReadMessage(w, s, after)
    PROVE  AllAlive'
PROOF
  <1>1. Alive(s) /\ reading[s] /\ Holds(w, s)
    BY HoldsStrand DEF AllAlive, OnReadNotJson, OnReadMessage
  <1>2. conn[s] \notin {"none", "gone", "accepting"}
    BY <1>1 DEF Alive, Pending
  <1>3. CASE OnReadNotJson(w, s)
    <2>1. UNCHANGED <<conn, reading, sending, share_, frame>>
      BY <1>3 DEF OnReadNotJson
    <2>2. \A r \in Session : posted'[r] = posted[r] \/ r = s
      BY <1>3 DEF OnReadNotJson, TypeOK
    <2>3. \A r \in Session : Pending(r)' => Locked(r)
      BY <1>1, <2>1, <2>2 DEF Pending, Locked
    <2> QED
      BY <2>1, <2>3, SameStrands
  <1>4. CASE OnReadMessage(w, s, after)
    <2> DEFINE f == WriteAll(s, Message("relay", s, sent'[s]), after)
    <2>1. f.ws = s /\ f.at = "snapshot"
      BY DEF WriteAll, Enter, Idle
    <2>2. frame' = [frame EXCEPT ![w] = f]
      BY <1>4 DEF OnReadMessage
    <2>3. f \in Frame
      BY <2>2 DEF TypeOK
    <2>4. /\ UNCHANGED <<conn, share_>> /\ reading'[s] = FALSE
          /\ \A r \in Session \ {s} : Undisturbed(r)
      BY <1>4 DEF OnReadMessage, TypeOK, Undisturbed, Pending
    <2> HIDE DEF f
    <2> QED
      BY <1>1, <1>2, <2>1, <2>2, <2>3, <2>4, HandlerStep DEF Alive
  <1> QED
    BY <1>3, <1>4

\* A handler of an application is of no session.
LEMMA AppAlive ==
    ASSUME TypeOK, TypeOK', AllAlive, NEW w \in Worker, AppData(w) \/ EndAppData(w)
    PROVE  AllAlive'
PROOF
  <1> DEFINE f == WriteAll(Nobody, Message("relay", Nobody, sent'[Nobody]), "return")
  <1>1. f.ws = Nobody /\ Idle.ws = Nobody
    BY DEF WriteAll, Enter, Idle
  <1>2. frame' = [frame EXCEPT ![w] = f] \/ frame' = [frame EXCEPT ![w] = Idle]
    BY DEF AppData, EndAppData
  <1> HIDE DEF f
  <1>3. /\ frame' = [frame EXCEPT ![w] = frame'[w]]
        /\ frame'[w] \in Frame /\ frame'[w].ws = Nobody
    BY <1>1, <1>2 DEF TypeOK
  <1>4. \A r \in Session : Undisturbed(r)
    BY DEF Undisturbed, Pending, AppData, EndAppData, net
  <1> QED
    BY <1>3, <1>4, OthersKept, NobodyAssumption DEF AllAlive

\* The read ends, or a write is done or fails: the handler announces it or returns.
LEMMA TransportAlive ==
    ASSUME TypeOK, AllAlive, NEW w \in Worker, NEW s \in Session,
           \/ OnReadClosed(w, s) \/ OnReadError(w, s) \/ OnReadAborted(w, s)
           \/ OnWriteError(w, s) \/ OnWriteAborted(w, s)
           \/ Writing(w, s) \/ OnWriteOk(w, s)
    PROVE  AllAlive'
PROOF
  <1>1. Alive(s) /\ Pending(s) /\ Holds(w, s)
    BY HoldsStrand DEF AllAlive, Pending, OnReadClosed, OnReadError, OnReadAborted,
                       OnWriteError, OnWriteAborted, Writing, OnWriteOk
  <1>2. conn[s] \notin {"none", "gone"}
    BY <1>1 DEF Alive
  <1>3. UNCHANGED <<conn, share_>> /\ (reading'[s] => reading[s])
    BY DEF TypeOK, OnReadClosed, OnReadError, OnReadAborted, OnWriteError, OnWriteAborted,
           Writing, OnWriteOk
  <1>4. \A r \in Session \ {s} : Undisturbed(r)
    BY DEF TypeOK, Undisturbed, Pending, OnReadClosed, OnReadError, OnReadAborted,
           OnWriteError, OnWriteAborted, Writing, OnWriteOk
  <1>5. CASE Release(w, s)
    BY <1>1, <1>2, <1>3, <1>4, <1>5, ReturnStep DEF Alive
  <1>6. CASE OnReadClosed(w, s) \/ OnReadAborted(w, s) \/ OnWriteAborted(w, s)
    <2>1. Enter("close_count", s) \in Frame
      BY FramesTyped DEF Point
    <2>2. /\ Enter("close_count", s).ws = s /\ Enter("close_count", s).at = "close_count"
          /\ Enter("close_count", s).then = "return"
      BY DEF Enter, Idle
    <2>3. frame' = [frame EXCEPT ![w] = Enter("close_count", s)]
      BY <1>6 DEF OnReadClosed, OnReadAborted, OnWriteAborted
    <2> QED
      BY <1>1, <1>2, <1>3, <1>4, <2>1, <2>2, <2>3, HandlerStep DEF Alive
  <1> QED
    BY <1>5, <1>6 DEF OnReadError, OnWriteError, Writing, OnWriteOk

\* The destructor takes the session out of the share.
LEMMA LeaveAlive ==
    ASSUME TypeOK, AllAlive, NEW w \in Worker, NEW s \in Session, Leave(w, s)
    PROVE  AllAlive'
PROOF
  <1>1. Alive(s) /\ frame[w].ws = s /\ ~Pending(s)
    BY DEF AllAlive, Alive, Leave, At
  <1>2. Holds(w, s)
    BY <1>1, HoldsStrand
  <1>3. Idle \in Frame /\ Idle.ws = Nobody /\ frame' = [frame EXCEPT ![w] = Idle]
    BY FramesTyped DEF Idle, Leave
  <1>4. conn'[s] = "gone" /\ s \notin share_'
    BY DEF TypeOK, Leave
  <1>5. ~Pending(s)'
    BY <1>1, <1>4 DEF Pending, Leave
  <1>6. \A r \in Session \ {s} : Undisturbed(r)
    BY DEF TypeOK, Undisturbed, Pending, Leave
  <1> QED
    BY <1>2, <1>3, <1>4, <1>5, <1>6, HandlerStep, NobodyAssumption

\* Sessions stay alive until they are gone, and silent then.
LEMMA NextAlive == Typed /\ AllAlive /\ [Next]_vars => AllAlive'
PROOF
  <1> SUFFICES ASSUME Typed, AllAlive, [Next]_vars PROVE AllAlive'
    OBVIOUS
  <1>1. TypeOK /\ TypeOK'
    BY NextTyped DEF Typed
  <1>2. CASE UNCHANGED vars
    BY <1>2 DEF AllAlive, Alive, Pending, StrandFree, At, vars, net
  <1>3. ASSUME NEW s \in Session, Connect(s)
        PROVE  AllAlive'
    BY <1>1, <1>3, ConnectAlive
  <1>4. ASSUME NEW w \in Worker, AppData(w)
        PROVE  AllAlive'
    BY <1>1, <1>4, AppAlive
  <1>5. ASSUME NEW w \in Worker, Continue(w)
        PROVE  AllAlive'
    BY <1>1, <1>5, AppAlive, LoopAlive, StatementAlive, ReturnAlive, LeaveAlive DEF Continue
  <1>6. ASSUME NEW w \in Worker, NEW s \in Session, Environment(w, s) \/ Handler(w, s)
        PROVE  AllAlive'
    BY <1>1, <1>6, AcceptAlive, MessageAlive, TransportAlive
       DEF Environment, Handler, After
  <1> QED
    BY <1>2, <1>3, <1>4, <1>5, <1>6 DEF Next

-----------------------------------------------------------------------------
(***************************************************************************)
(* Every variable keeps its kind: in particular the counts that are shown  *)
(* stay numbers, and on_write finds a message at the front of the queue.   *)
(***************************************************************************)
THEOREM TypeCorrect == Spec => []TypeOK
PROOF
  <1>1. Init => Typed /\ AllAlive
    BY InitTyped, InitAlive
  <1>2. Typed /\ AllAlive /\ [Next]_vars => (Typed /\ AllAlive)'
    BY NextTyped, NextAlive
  <1>3. Typed /\ AllAlive => TypeOK
    BY DEF Typed
  <1> QED
    BY <1>1, <1>2, <1>3, PTL DEF Spec

(***************************************************************************)
(* A destroyed session is never touched again, whatever the workers do in  *)
(* between (Static_Shareable holds plain pointers to its shares).          *)
(***************************************************************************)
THEOREM GoneStaysSilent == Spec => []GoneIsSilent
PROOF
  <1>1. Init => Typed /\ AllAlive
    BY InitTyped, InitAlive
  <1>2. Typed /\ AllAlive /\ [Next]_vars => (Typed /\ AllAlive)'
    BY NextTyped, NextAlive
  <1>3. AllAlive => GoneIsSilent
    BY DEF AllAlive, Alive, GoneIsSilent
  <1> QED
    BY <1>1, <1>2, <1>3, PTL DEF Spec

-----------------------------------------------------------------------------
(***************************************************************************)
(* Each notice is paid for: one by the end of the read loop of the         *)
(* session, one by its write loop having stopped with messages left.       *)
(* Neither can start again, so a closing session causes no third notice    *)
(* by writing to itself.                                                   *)
(***************************************************************************)
Returning(s) == \A w \in Worker : frame[w].ws = s => frame[w].then = "return"
ReadOver(s) == conn[s] \notin {"none", "accepting"} /\ ~reading[s] /\ Returning(s)
Stuck(s) == conn[s] = "gone" \/ (~sending[s] /\ queue_[s] # <<>>)
Closing(s) == \E w \in Worker : At(w, s, "close_count")

One(b) == IF b THEN 1 ELSE 0
Paid(s) == notices[s] + One(Closing(s)) <= One(ReadOver(s)) + One(Stuck(s))
AllPaid == \A s \in Session : Paid(s)

\* No notice begins or is sent, and no loop that is over starts again.
Quiet(s) ==
    /\ notices'[s] = notices[s]
    /\ Closing(s)' => Closing(s)
    /\ ReadOver(s) => ReadOver(s)'
    /\ Stuck(s) => Stuck(s)'

\* A step that announces nothing keeps the account.
LEMMA QuietPaid ==
    ASSUME TypeOK, NEW s \in Session, Paid(s), Quiet(s)
    PROVE  Paid(s)'
PROOF
  <1>1. notices[s] \in Nat
    BY DEF TypeOK
  <1> QED
    BY <1>1 DEF Paid, One, Quiet

\* Another session's step: the handlers of r that run are those that did.
Aside(r) ==
    /\ conn'[r] = conn[r] /\ reading'[r] = reading[r] /\ sending'[r] = sending[r]
    /\ queue_'[r] = queue_[r] /\ notices'[r] = notices[r]

\* Steps of other sessions announce nothing of r.
LEMMA AsideQuiet ==
    ASSUME NEW r \in Session, Aside(r),
           \A v \in Worker : frame'[v].ws = r =>
               /\ frame[v].ws = r /\ frame'[v].then = frame[v].then
               /\ frame'[v].at = "close_count" => frame[v].at = "close_count"
    PROVE  Quiet(r)
PROOF
  <1>1. Closing(r)' => Closing(r)
    BY DEF Closing, At
  <1>2. Returning(r) => Returning(r)'
    BY DEF Returning
  <1> QED
    BY <1>1, <1>2 DEF Quiet, Aside, ReadOver, Stuck

\* Worker w goes on with frame f.
GoesOn(w, f) == frame' = [frame EXCEPT ![w] = f]

\* A handler of s goes on with frame f.
LEMMA ActorFrames ==
    ASSUME TypeOK, NEW w \in Worker, NEW s \in Session, NEW f \in Frame, Holds(w, s),
           GoesOn(w, f), f.ws \in {s, Nobody}
    PROVE  /\ Closing(s)' <=> f.ws = s /\ f.at = "close_count"
           /\ Returning(s)' <=> (f.ws = s => f.then = "return")
           /\ \A r \in Session \ {s} : \A v \in Worker : frame'[v].ws = r => frame'[v] = frame[v]
PROOF
  <1>1. frame'[w] = f /\ \A v \in Worker : frame'[v].ws = s => v = w
    BY DEF TypeOK, Holds, GoesOn
  <1>2. \A v \in Worker : v # w => frame'[v] = frame[v]
    BY DEF TypeOK, GoesOn
  <1> QED
    BY <1>1, <1>2, NobodyAssumption DEF Closing, Returning, At

\* A step of a handler of s concerns no account but that of s.
LEMMA ActorPaid ==
    ASSUME TypeOK, AllPaid, NEW w \in Worker, NEW s \in Session, NEW f \in Frame, Holds(w, s),
           GoesOn(w, f), f.ws \in {s, Nobody},
           \A r \in Session \ {s} : Aside(r),
           Paid(s)'
    PROVE  AllPaid'
PROOF
  <1>1. ASSUME NEW r \in Session \ {s}
        PROVE  Quiet(r)
    <2>1. \A v \in Worker : frame'[v].ws = r => frame'[v] = frame[v]
      BY ActorFrames
    <2>2. Aside(r)
      OBVIOUS
    <2> QED
      BY <2>1, <2>2, AsideQuiet
  <1> QED
    BY <1>1, QuietPaid DEF AllPaid

-----------------------------------------------------------------------------
\* Nothing is announced of a session that has not connected.
LEMMA InitPaid == Init => AllPaid
PROOF
  <1> SUFFICES ASSUME Init, NEW s \in Session PROVE Paid(s)
    BY DEF AllPaid
  <1>1. ~Closing(s) /\ ~ReadOver(s) /\ ~Stuck(s)
    BY DEF Init, Closing, At, Idle, ReadOver, Stuck
  <1> QED
    BY <1>1 DEF Init, Paid, One

\* The steps at which no worker begins, ends or changes a handler of a session.
LEMMA BesidePaid ==
    ASSUME TypeOK, AllPaid, NEW w \in Worker,
           \/ Snapshot(w) \/ (\E r \in Session : Visit(w, r))
           \/ AppData(w) \/ EndAppData(w)
           \/ \E s \in Session : OnReadNotJson(w, s)
    PROVE  AllPaid'
PROOF
  <1> SUFFICES ASSUME NEW r \in Session PROVE Quiet(r)
    BY QuietPaid DEF AllPaid
  <1>1. Aside(r)
    BY DEF Aside, Snapshot, Visit, AppData, EndAppData, OnReadNotJson, net, hist
  <1>2. ASSUME NEW v \in Worker, frame'[v].ws = r
        PROVE  /\ frame[v].ws = r /\ frame'[v].then = frame[v].then
               /\ frame'[v].at = "close_count" => frame[v].at = "close_count"
    <2>1. frame[w] \in Frame /\ frame \in [Worker -> Frame]
      BY DEF TypeOK
    <2>2. CASE Snapshot(w)
      <3> DEFINE f == [frame[w] EXCEPT !.todo = share_, !.at = "visit"]
      <3>1. f.ws = frame[w].ws /\ f.at = "visit" /\ f.then = frame[w].then
        BY <2>1 DEF Frame
      <3>2. frame' = [frame EXCEPT ![w] = f]
        BY <2>1, <2>2 DEF Snapshot
      <3> HIDE DEF f
      <3> QED
        BY <1>2, <2>1, <3>1, <3>2
    <2>3. ASSUME NEW q \in Session, Visit(w, q)
          PROVE  frame[v].ws = r /\ frame'[v].then = frame[v].then /\ frame'[v].at = frame[v].at
      <3> DEFINE f == [frame[w] EXCEPT !.todo = @ \ {q}]
      <3>1. f.ws = frame[w].ws /\ f.at = frame[w].at /\ f.then = frame[w].then
        BY <2>1 DEF Frame
      <3>2. frame' = [frame EXCEPT ![w] = f]
        BY <2>1, <2>3 DEF Visit
      <3> HIDE DEF f
      <3> QED
        BY <1>2, <2>1, <3>1, <3>2
    <2>4. CASE AppData(w) \/ EndAppData(w)
      <3> DEFINE f == WriteAll(Nobody, Message("relay", Nobody, sent'[Nobody]), "return")
      <3>1. f.ws = Nobody /\ Idle.ws = Nobody
        BY DEF WriteAll, Enter, Idle
      <3>2. frame' = [frame EXCEPT ![w] = f] \/ frame' = [frame EXCEPT ![w] = Idle]
        BY <2>4 DEF AppData, EndAppData
      <3> HIDE DEF f
      <3> QED
        BY <1>2, <2>1, <3>1, <3>2, NobodyAssumption
    <2>5. CASE \E s \in Session : OnReadNotJson(w, s)
      BY <1>2, <2>5 DEF OnReadNotJson
    <2> QED
      BY <2>2, <2>3, <2>4, <2>5
  <1> QED
    BY <1>1, <1>2, AsideQuiet

\* The frame of a handler of s that returns, and how that shows.
LEMMA ReturnFrame ==
    ASSUME TypeOK, NEW w \in Worker, NEW s \in Session, Release(w, s)
    PROVE  \E f \in Frame : /\ GoesOn(w, f) /\ f.ws \in {s, Nobody}
                            /\ f.at # "close_count" /\ f.then = "return"
PROOF
  <1>1. Idle \in Frame /\ Enter("leave", s) \in Frame
    BY FramesTyped DEF Point
  <1>2. /\ Idle.ws = Nobody /\ Idle.at = "idle" /\ Idle.then = "return"
        /\ Enter("leave", s).ws = s /\ Enter("leave", s).at = "leave"
        /\ Enter("leave", s).then = "return"
    BY DEF Idle, Enter
  <1> QED
    BY <1>1, <1>2 DEF Release, GoesOn

\* A handler of s that starts no announcement and no loop that is over.
LEMMA ActorQuiet ==
    ASSUME TypeOK, AllPaid, NEW w \in Worker, NEW s \in Session, NEW f \in Frame, Holds(w, s),
           GoesOn(w, f), f.ws \in {s, Nobody}, f.at # "close_count",
           \A r \in Session \ {s} : Aside(r),
           notices'[s] = notices[s], Stuck(s) => Stuck(s)',
           ReadOver(s) => /\ conn'[s] \notin {"none", "accepting"} /\ ~reading'[s]
                          /\ f.ws = s => f.then = "return"
    PROVE  AllPaid'
PROOF
  <1>1. ~Closing(s)' /\ (Returning(s)' <=> (f.ws = s => f.then = "return"))
    BY ActorFrames
  <1>2. Quiet(s)
    BY <1>1 DEF Quiet, ReadOver
  <1> QED
    BY <1>2, QuietPaid, ActorPaid DEF AllPaid

\* A connection that is accepted announces nothing.
LEMMA ConnectPaid ==
    ASSUME TypeOK, AllPaid, AllAlive, NEW s \in Session, Connect(s)
    PROVE  AllPaid'
PROOF
  <1> SUFFICES ASSUME NEW r \in Session PROVE Quiet(r)
    BY QuietPaid DEF AllPaid
  <1>1. UNCHANGED <<reading, sending, queue_, frame, notices>>
    BY DEF Connect, net, hist
  <1>2. conn'[r] = conn[r] \/ (conn[r] = "none" /\ conn'[r] = "accepting")
    BY DEF Connect, TypeOK
  <1>3. (Closing(r)' <=> Closing(r)) /\ (Returning(r)' <=> Returning(r))
    BY <1>1 DEF Closing, Returning, At
  <1>4. notices'[r] = notices[r] /\ reading'[r] = reading[r]
    BY <1>1
  <1>5. Stuck(r) => Stuck(r)'
    BY <1>1, <1>2 DEF Stuck
  <1>6. ReadOver(r) => ReadOver(r)'
    BY <1>2, <1>3, <1>4 DEF ReadOver
  <1> QED
    BY <1>3, <1>4, <1>5, <1>6 DEF Quiet

\* A handshake that ends in error::closed is the first notice, and no read follows it.
LEMMA AcceptPaid ==
    ASSUME TypeOK, AllPaid, AllAlive, NEW w \in Worker, NEW s \in Session,
           OnAccept(w, s) \/ OnAcceptClosed(w, s) \/ OnAcceptError(w, s)
    PROVE  AllPaid'
PROOF
  <1>1. /\ Alive(s) /\ conn[s] = "accepting" /\ Holds(w, s) /\ StrandFree(s)
        /\ UNCHANGED <<queue_, sending, notices>>
    BY HoldsStrand DEF AllAlive, CanRun, OnAccept, OnAcceptClosed, OnAcceptError, hist
  <1>2. \A r \in Session \ {s} : Aside(r)
    BY DEF TypeOK, Aside, OnAccept, OnAcceptClosed, OnAcceptError, hist
  <1>3. ~ReadOver(s) /\ (Stuck(s) => Stuck(s)')
    BY <1>1 DEF ReadOver, Stuck
  <1>4. CASE OnAccept(w, s)
    <2>1. /\ Enter("load_uid", s) \in Frame
          /\ Enter("load_uid", s).ws = s /\ Enter("load_uid", s).at = "load_uid"
      BY FramesTyped DEF Point, Enter, Idle
    <2>2. GoesOn(w, Enter("load_uid", s))
      BY <1>4 DEF OnAccept, GoesOn
    <2> QED
      BY <1>1, <1>2, <1>3, <2>1, <2>2, ActorQuiet
  <1>5. CASE OnAcceptClosed(w, s)
    <2>1. /\ Enter("close_count", s) \in Frame
          /\ Enter("close_count", s).ws = s /\ Enter("close_count", s).then = "return"
      BY FramesTyped DEF Point, Enter, Idle
    <2>2. GoesOn(w, Enter("close_count", s))
      BY <1>5 DEF OnAcceptClosed, GoesOn
    <2>3. Returning(s)'
      BY <1>1, <2>1, <2>2, ActorFrames
    <2>4. conn'[s] = "refused" /\ ~reading'[s]
      BY <1>1, <1>5 DEF TypeOK, Alive, OnAcceptClosed
    <2>5. ReadOver(s)'
      BY <2>3, <2>4 DEF ReadOver
    <2>6. ~Closing(s)
      BY <1>1 DEF StrandFree, Closing, At
    <2>7. Paid(s)'
      <3>1. Paid(s) /\ notices[s] \in Nat
        BY DEF AllPaid, TypeOK
      <3> QED
        BY <1>1, <1>3, <2>5, <2>6, <3>1 DEF Paid, One
    <2> QED
      BY <1>1, <1>2, <2>1, <2>2, <2>7, ActorPaid
  <1>6. CASE OnAcceptError(w, s)
    <2>1. PICK f \in Frame : /\ GoesOn(w, f) /\ f.ws \in {s, Nobody}
                             /\ f.at # "close_count" /\ f.then = "return"
      BY <1>6, ReturnFrame DEF OnAcceptError
    <2> QED
      BY <1>1, <1>2, <1>3, <2>1, ActorQuiet
  <1> QED
    BY <1>4, <1>5, <1>6

\* The statements of a handler that has been entered, but the announcement itself.
LEMMA StatementPaid ==
    ASSUME TypeOK, TypeOK', AllPaid, AllAlive, NEW w \in Worker, NEW s \in Session,
           LoadUid(w, s) \/ StoreUid(w, s) \/ OpenCount(w, s) \/ EchoApp(w, s)
    PROVE  AllPaid'
PROOF
  <1>1. frame[w].ws = s /\ Holds(w, s) /\ frame[w] \in Frame
    BY HoldsStrand DEF TypeOK, LoadUid, StoreUid, OpenCount, EchoApp, At, LoopEnded
  <1>2. UNCHANGED <<conn, reading, queue_, sending, notices>>
    BY DEF LoadUid, StoreUid, OpenCount, EchoApp, net, hist
  <1>3. (\A r \in Session \ {s} : Aside(r)) /\ (Stuck(s) => Stuck(s)')
    BY <1>2 DEF Aside, Stuck
  <1>4. ReadOver(s) => frame[w].then = "return"
    BY <1>1 DEF ReadOver, Returning
  <1> DEFINE Goes == \E f \in Frame :
                        /\ GoesOn(w, f) /\ f.ws = s /\ f.at # "close_count"
                        /\ frame[w].then = "return" => f.then = "return"
  <1>5. Goes
    <2>1. CASE LoadUid(w, s)
      <3> DEFINE f == [frame[w] EXCEPT !.val = userid, !.at = "store_uid"]
      <3>1. f \in Frame /\ f.ws = s /\ f.at = "store_uid" /\ f.then = frame[w].then
        BY <1>1 DEF TypeOK, Frame, Point
      <3>2. GoesOn(w, f)
        BY <2>1 DEF LoadUid, TypeOK, GoesOn
      <3> HIDE DEF f
      <3> QED
        BY <3>1, <3>2
    <2>2. CASE StoreUid(w, s)
      <3>1. /\ Enter("open_count", s) \in Frame /\ Enter("open_count", s).ws = s
            /\ Enter("open_count", s).at = "open_count" /\ Enter("open_count", s).then = "return"
        BY FramesTyped DEF Point, Enter, Idle
      <3>2. GoesOn(w, Enter("open_count", s))
        BY <2>2 DEF StoreUid, GoesOn
      <3> QED
        BY <3>1, <3>2
    <2>3. ASSUME NEW m, NEW t, GoesOn(w, WriteAll(s, m, t)),
                 frame[w].then = "return" => t = "return"
          PROVE  Goes
      <3>1. /\ WriteAll(s, m, t).ws = s /\ WriteAll(s, m, t).at = "snapshot"
            /\ WriteAll(s, m, t).then = t
        BY DEF WriteAll, Enter, Idle
      <3>2. WriteAll(s, m, t) \in Frame
        BY <2>3 DEF TypeOK, GoesOn
      <3> QED
        BY <2>3, <3>1, <3>2
    <2>4. CASE OpenCount(w, s) \/ EchoApp(w, s)
      <3> HIDE DEF Goes
      <3> QED
        BY <2>3, <2>4 DEF OpenCount, EchoApp, LoopEnded, GoesOn
    <2> QED
      BY <2>1, <2>2, <2>4
  <1> QED
    BY <1>1, <1>2, <1>3, <1>4, <1>5, ActorQuiet DEF ReadOver

\* on_close announces the end of s: the notice that was due is sent.
LEMMA ClosePaid ==
    ASSUME TypeOK, TypeOK', AllPaid, AllAlive, NEW w \in Worker, NEW s \in Session,
           CloseCount(w, s)
    PROVE  AllPaid'
PROOF
  <1> DEFINE f == WriteAll(s, Message("nusers", Nobody, Unsigned(Cardinality(share_) - 1)), "return")
  <1>1. At(w, s, "close_count") /\ Holds(w, s)
    BY HoldsStrand DEF CloseCount, At
  <1>2. UNCHANGED <<conn, reading, queue_, sending>> /\ notices' = [notices EXCEPT ![s] = @ + 1]
    BY DEF CloseCount, net
  <1>3. \A r \in Session \ {s} : Aside(r)
    BY <1>2 DEF TypeOK, Aside
  <1>4. GoesOn(w, f) /\ f.ws = s /\ f.at = "snapshot" /\ f.then = "return"
    BY DEF CloseCount, WriteAll, Enter, Idle, GoesOn
  <1>5. f \in Frame
    BY <1>4 DEF TypeOK, GoesOn
  <1> HIDE DEF f
  <1>6. ~Closing(s)' /\ Returning(s)'
    BY <1>1, <1>4, <1>5, ActorFrames
  <1>7. Paid(s)'
    <2>1. Paid(s) /\ notices[s] \in Nat /\ notices'[s] = notices[s] + 1
      BY <1>2 DEF AllPaid, TypeOK
    <2>2. Closing(s) /\ (ReadOver(s) => ReadOver(s)') /\ (Stuck(s) <=> Stuck(s)')
      BY <1>1, <1>2, <1>6 DEF Closing, ReadOver, Stuck
    <2> QED
      BY <1>6, <2>1, <2>2 DEF Paid, One
  <1> QED
    BY <1>1, <1>3, <1>4, <1>5, <1>7, ActorPaid

\* A handler that reads again had not ended the loop of reads.
LEMMA ReturnPaid ==
    ASSUME TypeOK, AllPaid, AllAlive, NEW w \in Worker, NEW s \in Session,
           EndNotice(w, s) \/ Reject(w, s) \/ EndRead(w, s)
    PROVE  AllPaid'
PROOF
  <1>1. frame[w].ws = s /\ Holds(w, s) /\ Release(w, s)
    BY HoldsStrand DEF EndNotice, Reject, EndRead, At, LoopEnded
  <1>2. PICK f \in Frame : /\ GoesOn(w, f) /\ f.ws \in {s, Nobody}
                           /\ f.at # "close_count" /\ f.then = "return"
    BY <1>1, ReturnFrame
  <1>3. UNCHANGED <<conn, queue_, sending, notices>>
    BY DEF EndNotice, Reject, EndRead, net, hist
  <1>4. \A r \in Session \ {s} : Aside(r)
    BY <1>3 DEF TypeOK, Aside, EndNotice, Reject, EndRead, net
  <1>5. Stuck(s) => Stuck(s)'
    BY <1>3 DEF Stuck
  <1>6. ReadOver(s) => reading' = reading
    BY <1>1 DEF ReadOver, Returning, EndNotice, Reject, EndRead, LoopEnded, net
  <1> QED
    BY <1>1, <1>2, <1>3, <1>4, <1>5, <1>6, ActorQuiet DEF ReadOver

\* The read ends with a message or an error: its loop was not over.
LEMMA ReadPaid ==
    ASSUME TypeOK, TypeOK', AllPaid, AllAlive, NEW w \in Worker, NEW s \in Session, NEW after \in After,
           \/ OnReadMessage(w, s, after) \/ OnReadError(w, s)
           \/ OnReadClosed(w, s) \/ OnReadAborted(w, s)
    PROVE  AllPaid'
PROOF
  <1>1. /\ Alive(s) /\ reading[s] /\ StrandFree(s) /\ Holds(w, s)
        /\ UNCHANGED <<conn, queue_, sending, notices>> /\ reading' = [reading EXCEPT ![s] = FALSE]
    BY HoldsStrand DEF AllAlive, CanRun, OnReadMessage, OnReadError, OnReadClosed, OnReadAborted, hist
  <1>2. \A r \in Session \ {s} : Aside(r)
    BY <1>1 DEF TypeOK, Aside
  <1>3. ~ReadOver(s) /\ (Stuck(s) <=> Stuck(s)')
    BY <1>1 DEF ReadOver, Stuck
  <1>4. CASE OnReadMessage(w, s, after)
    <2> DEFINE f == WriteAll(s, Message("relay", s, sent'[s]), after)
    <2>1. f.ws = s /\ f.at = "snapshot"
      BY DEF WriteAll, Enter, Idle
    <2>2. GoesOn(w, f)
      BY <1>4 DEF OnReadMessage, GoesOn
    <2>3. f \in Frame
      BY <2>2 DEF TypeOK, GoesOn
    <2> HIDE DEF f
    <2> QED
      BY <1>1, <1>2, <1>3, <2>1, <2>2, <2>3, ActorQuiet
  <1>5. CASE OnReadError(w, s)
    <2>1. PICK f \in Frame : /\ GoesOn(w, f) /\ f.ws \in {s, Nobody}
                             /\ f.at # "close_count" /\ f.then = "return"
      BY <1>5, ReturnFrame DEF OnReadError
    <2> QED
      BY <1>1, <1>2, <1>3, <2>1, ActorQuiet
  <1>6. CASE OnReadClosed(w, s) \/ OnReadAborted(w, s)
    <2>1. /\ Enter("close_count", s) \in Frame
          /\ Enter("close_count", s).ws = s /\ Enter("close_count", s).then = "return"
      BY FramesTyped DEF Point, Enter, Idle
    <2>2. GoesOn(w, Enter("close_count", s))
      BY <1>6 DEF OnReadClosed, OnReadAborted, GoesOn
    <2>3. Returning(s)'
      BY <1>1, <2>1, <2>2, ActorFrames
    <2>4. conn'[s] \notin {"none", "accepting"} /\ ~reading'[s]
      BY <1>1 DEF TypeOK, Alive, Pending
    <2>5. ReadOver(s)'
      BY <2>3, <2>4 DEF ReadOver
    <2>6. ~Closing(s)
      BY <1>1 DEF StrandFree, Closing, At
    <2>7. Paid(s)'
      <3>1. Paid(s) /\ notices[s] \in Nat
        BY DEF AllPaid, TypeOK
      <3> QED
        BY <1>1, <1>3, <2>5, <2>6, <3>1 DEF Paid, One
    <2> QED
      BY <1>1, <1>2, <2>1, <2>2, <2>7, ActorPaid
  <1> QED
    BY <1>4, <1>5, <1>6

\* write() and its completions: a write loop that stopped is not started again.
LEMMA WritePaid ==
    ASSUME Typed, AllPaid, AllAlive, NEW w \in Worker, NEW s \in Session,
           Writing(w, s) \/ OnWriteOk(w, s) \/ OnWriteError(w, s)
    PROVE  AllPaid'
PROOF
  <1>1. /\ TypeOK /\ Alive(s) /\ Pending(s) /\ Holds(w, s) /\ Release(w, s)
        /\ UNCHANGED <<conn, reading, notices>>
    BY HoldsStrand DEF Typed, AllAlive, Pending, Writing, OnWriteOk, OnWriteError, hist
  <1>2. PICK f \in Frame : /\ GoesOn(w, f) /\ f.ws \in {s, Nobody}
                           /\ f.at # "close_count" /\ f.then = "return"
    BY <1>1, ReturnFrame
  <1>3. \A r \in Session \ {s} : Aside(r)
    BY <1>1 DEF TypeOK, Aside, Writing, OnWriteOk, OnWriteError
  <1>4. conn[s] # "gone"
    BY <1>1 DEF Alive
  <1>5. Stuck(s) => Stuck(s)'
    <2>1. CASE Writing(w, s)
      <3> DEFINE q == Append(queue_[s], Head(posted[s]))
      <3>1. queue_[s] \in Seq(Msg) /\ Head(posted[s]) \in Msg
        BY <1>1, <2>1 DEF TypeOK, Writing
      <3>2. q # <<>> /\ (queue_[s] # <<>> => Len(q) > 1)
        BY <3>1
      <3>3. queue_'[s] = q /\ (sending'[s] => sending[s] \/ Len(q) <= 1)
        BY <1>1, <2>1 DEF TypeOK, Writing, PushBack, StartsWrite
      <3>4. Len(q) \in Nat
        BY <3>1
      <3> HIDE DEF q
      <3> QED
        BY <1>4, <3>2, <3>3, <3>4 DEF Stuck
    <2>2. CASE OnWriteOk(w, s) \/ OnWriteError(w, s)
      BY <1>4, <2>2 DEF Stuck, OnWriteOk, OnWriteError
    <2> QED
      BY <2>1, <2>2
  <1> QED
    BY <1>1, <1>2, <1>3, <1>5, ActorQuiet DEF ReadOver

\* A write fails because the stream is down: its loop stops with the message left.
LEMMA AbortPaid ==
    ASSUME Typed, AllPaid, AllAlive, NEW w \in Worker, NEW s \in Session, OnWriteAborted(w, s)
    PROVE  AllPaid'
PROOF
  <1>1. /\ TypeOK /\ Alive(s) /\ Pending(s) /\ sending[s] /\ StrandFree(s) /\ Holds(w, s)
        /\ UNCHANGED <<conn, reading, queue_, notices>> /\ sending' = [sending EXCEPT ![s] = FALSE]
    BY HoldsStrand DEF Typed, AllAlive, CanRun, Pending, OnWriteAborted, hist
  <1>2. \A r \in Session \ {s} : Aside(r)
    BY <1>1 DEF TypeOK, Aside
  <1>3. /\ Enter("close_count", s) \in Frame
        /\ Enter("close_count", s).ws = s /\ Enter("close_count", s).then = "return"
    BY FramesTyped DEF Point, Enter, Idle
  <1>4. GoesOn(w, Enter("close_count", s))
    BY DEF OnWriteAborted, GoesOn
  <1>5. Returning(s)'
    BY <1>1, <1>3, <1>4, ActorFrames
  <1>6. ~Stuck(s) /\ Stuck(s)'
    <2>1. conn[s] # "gone" /\ queue_[s] # <<>>
      BY <1>1 DEF Typed, FrontIsSent, Alive
    <2> QED
      BY <1>1, <2>1 DEF TypeOK, Stuck
  <1>7. Paid(s)'
    <2>1. Paid(s) /\ notices[s] \in Nat /\ ~Closing(s)
      BY <1>1 DEF AllPaid, TypeOK, StrandFree, Closing, At
    <2>2. ReadOver(s) => ReadOver(s)'
      BY <1>1, <1>5 DEF ReadOver
    <2> QED
      BY <1>1, <1>6, <2>1, <2>2 DEF Paid, One
  <1> QED
    BY <1>1, <1>2, <1>3, <1>4, <1>7, ActorPaid

\* A session that is gone counts as stuck for good.
LEMMA LeavePaid ==
    ASSUME TypeOK, AllPaid, AllAlive, NEW w \in Worker, NEW s \in Session, Leave(w, s)
    PROVE  AllPaid'
PROOF
  <1>1. frame[w].ws = s /\ Holds(w, s)
    BY HoldsStrand DEF Leave, At
  <1>2. /\ Idle \in Frame /\ Idle.ws = Nobody /\ Idle.at = "idle" /\ Idle.then = "return"
        /\ GoesOn(w, Idle)
    BY FramesTyped DEF Leave, Idle, GoesOn
  <1>3. \A r \in Session \ {s} : Aside(r)
    BY DEF TypeOK, Aside, Leave, hist
  <1>4. conn'[s] = "gone" /\ reading' = reading /\ notices' = notices
    BY DEF TypeOK, Leave, hist
  <1>5. Stuck(s)'
    BY <1>4 DEF Stuck
  <1> QED
    BY <1>1, <1>2, <1>3, <1>4, <1>5, ActorQuiet DEF ReadOver

\* The account is kept by every step.
LEMMA NextPaid == Typed /\ AllAlive /\ AllPaid /\ [Next]_vars => AllPaid'
PROOF
  <1> SUFFICES ASSUME Typed, AllAlive, AllPaid, [Next]_vars PROVE AllPaid'
    OBVIOUS
  <1>1. TypeOK /\ TypeOK'
    BY NextTyped DEF Typed
  <1>2. CASE UNCHANGED vars
    BY <1>2 DEF AllPaid, Paid, ReadOver, Returning, Stuck, Closing, At, vars, net, hist
  <1>3. ASSUME NEW s \in Session, Connect(s)
        PROVE  AllPaid'
    BY <1>1, <1>3, ConnectPaid
  <1>4. ASSUME NEW w \in Worker, AppData(w)
        PROVE  AllPaid'
    BY <1>1, <1>4, BesidePaid
  <1>5. ASSUME NEW w \in Worker, Continue(w)
        PROVE  AllPaid'
    BY <1>1, <1>5, BesidePaid, StatementPaid, ClosePaid, ReturnPaid, LeavePaid DEF Continue
  <1>6. ASSUME NEW w \in Worker, NEW s \in Session, Environment(w, s) \/ Handler(w, s)
        PROVE  AllPaid'
    BY <1>1, <1>6, AcceptPaid, BesidePaid, ReadPaid, WritePaid, AbortPaid
       DEF Environment, Handler, After
  <1> QED
    BY <1>2, <1>3, <1>4, <1>5, <1>6 DEF Next

(***************************************************************************)
(* However a session ends, whatever is written to it meanwhile and by how  *)
(* many workers, its end is announced at most twice (TODO.md, "2 messages  *)
(* been sent when some user disconnect from daemon").                      *)
(***************************************************************************)
THEOREM NoticesAreBounded == Spec => []AtMostTwoNotices
PROOF
  <1>1. Init => Typed /\ AllAlive /\ AllPaid
    BY InitTyped, InitAlive, InitPaid
  <1>2. Typed /\ AllAlive /\ AllPaid /\ [Next]_vars => (Typed /\ AllAlive /\ AllPaid)'
    BY NextTyped, NextAlive, NextPaid
  <1>3. Typed /\ AllPaid => AtMostTwoNotices
    <2> SUFFICES ASSUME Typed, AllPaid, NEW s \in Session PROVE notices[s] <= 2
      BY DEF AtMostTwoNotices
    <2>1. Paid(s) /\ notices[s] \in Nat
      BY DEF AllPaid, Typed, TypeOK
    <2> QED
      BY <2>1 DEF Paid, One
  <1> QED
    BY <1>1, <1>2, <1>3, PTL DEF Spec

-----------------------------------------------------------------------------
(***************************************************************************)
(* With one worker a UID is given once: the counter is above every UID     *)
(* that was given, and a handler between its load and its store has loaded *)
(* the value the counter still has.                                        *)
(***************************************************************************)
OneWorker == \A v, w \in Worker : v = w

Counted ==
    /\ userid > 0
    /\ \A s \in Session : uid[s] < userid
    /\ \A w \in Worker : frame[w].at = "store_uid" => frame[w].val = userid
    /\ UidsUnique

\* A worker comes to stand before another statement than the store of a UID.
Elsewhere(w) == \E f \in Frame : frame' = [frame EXCEPT ![w] = f] /\ f.at # "store_uid"

\* Such a step leaves the account of UIDs as it is.
LEMMA ElsewhereCounted ==
    ASSUME TypeOK, Counted, UNCHANGED <<userid, uid>>,
           UNCHANGED frame \/ \E w \in Worker : Elsewhere(w)
    PROVE  Counted'
PROOF
  <1>1. \A v \in Worker : frame'[v].at = "store_uid" => frame'[v] = frame[v]
    BY DEF TypeOK, Elsewhere
  <1> QED
    BY <1>1 DEF Counted, UidsUnique

\* Handlers that return, begin or write to all come to stand elsewhere.
LEMMA ReleaseElsewhere ==
    ASSUME TypeOK, NEW w \in Worker, NEW s \in Session, Release(w, s)
    PROVE  Elsewhere(w)
PROOF
  <1>1. /\ Idle \in Frame /\ Idle.at = "idle"
        /\ Enter("leave", s) \in Frame /\ Enter("leave", s).at = "leave"
    BY FramesTyped DEF Point, Idle, Enter
  <1> QED
    BY <1>1 DEF Release, Elsewhere

\* The same for one that is entered.
LEMMA EnterElsewhere ==
    ASSUME TypeOK, NEW w \in Worker, NEW s \in Session, NEW p \in Point, p # "store_uid",
           frame' = [frame EXCEPT ![w] = Enter(p, s)]
    PROVE  Elsewhere(w)
PROOF
  <1>1. Enter(p, s) \in Frame /\ Enter(p, s).at = p
    BY FramesTyped DEF Point, Idle, Enter
  <1> QED
    BY <1>1 DEF Elsewhere

\* The same for one that starts the loop of exec_to_all.
LEMMA WriteAllElsewhere ==
    ASSUME TypeOK, TypeOK', NEW w \in Worker, NEW a, NEW m, NEW t,
           frame' = [frame EXCEPT ![w] = WriteAll(a, m, t)]
    PROVE  Elsewhere(w)
PROOF
  <1>1. WriteAll(a, m, t) \in Frame /\ WriteAll(a, m, t).at = "snapshot"
    BY DEF TypeOK, WriteAll, Idle, Enter
  <1> QED
    BY <1>1 DEF Elsewhere

\* The two statements that are about UIDs.
LEMMA LoadCounted ==
    ASSUME TypeOK, Counted, NEW w \in Worker, NEW s \in Session, LoadUid(w, s)
    PROVE  Counted'
PROOF
  <1> DEFINE f == [frame[w] EXCEPT !.val = userid, !.at = "store_uid"]
  <1>1. f.val = userid
    BY DEF TypeOK, Frame
  <1>2. frame' = [frame EXCEPT ![w] = f] /\ UNCHANGED <<userid, uid>>
    BY DEF LoadUid, TypeOK, hist
  <1> HIDE DEF f
  <1>3. \A v \in Worker : frame'[v].at = "store_uid" => frame'[v].val = userid
    BY <1>1, <1>2 DEF TypeOK, Counted
  <1> QED
    BY <1>2, <1>3 DEF Counted, UidsUnique

\* The store, by the one worker there is: the UID is new, and no other is being given.
LEMMA StoreCounted ==
    ASSUME OneWorker, TypeOK, Counted, NEW w \in Worker, NEW s \in Session, StoreUid(w, s)
    PROVE  Counted'
PROOF
  <1>1. frame[w].val = userid
    BY DEF Counted, StoreUid, At
  <1>2. userid' = userid + 1 /\ uid' = [uid EXCEPT ![s] = userid]
    BY <1>1 DEF StoreUid, NextUid
  <1>3. \A v \in Worker : frame'[v].at # "store_uid"
    <2>1. frame' = [frame EXCEPT ![w] = Enter("open_count", s)]
      BY DEF StoreUid
    <2>2. Enter("open_count", s).at = "open_count"
      BY DEF Enter, Idle
    <2> QED
      BY <2>1, <2>2 DEF TypeOK, OneWorker
  <1>4. userid' > 0 /\ \A r \in Session : uid'[r] < userid'
    BY <1>2 DEF TypeOK, Counted
  <1>5. UidsUnique'
    <2> SUFFICES ASSUME NEW r \in Session, NEW q \in Session,
                        uid'[r] # 0, uid'[r] = uid'[q], r # q
                 PROVE  FALSE
      BY DEF UidsUnique
    <2>1. CASE r # s /\ q # s
      <3>1. uid'[r] = uid[r] /\ uid'[q] = uid[q]
        BY <1>2, <2>1 DEF TypeOK
      <3> QED
        BY <3>1 DEF Counted, UidsUnique
    <2>2. CASE r = s \/ q = s
      <3>1. \E o \in Session : userid = uid[o]
        BY <1>2, <2>2 DEF TypeOK
      <3> QED
        BY <3>1 DEF TypeOK, Counted
    <2> QED
      BY <2>1, <2>2
  <1> QED
    BY <1>3, <1>4, <1>5 DEF Counted

\* The loop of exec_to_all gives no UID.
LEMMA LoopCounted ==
    ASSUME TypeOK, Counted, NEW w \in Worker, Snapshot(w) \/ \E r \in Session : Visit(w, r)
    PROVE  Counted'
PROOF
  <1>1. frame[w] \in Frame
    BY DEF TypeOK
  <1>2. UNCHANGED <<userid, uid>>
    BY DEF Snapshot, Visit, hist
  <1>3. CASE Snapshot(w)
    <2> DEFINE f == [frame[w] EXCEPT !.todo = share_, !.at = "visit"]
    <2>1. f \in Frame /\ f.at = "visit"
      BY <1>1 DEF TypeOK, Frame, Point
    <2>2. frame' = [frame EXCEPT ![w] = f]
      BY <1>3 DEF TypeOK, Snapshot
    <2> HIDE DEF f
    <2> QED
      BY <1>2, <2>1, <2>2, ElsewhereCounted DEF Elsewhere
  <1>4. ASSUME NEW r \in Session, Visit(w, r)
        PROVE  Counted'
    <2> DEFINE f == [frame[w] EXCEPT !.todo = @ \ {r}]
    <2>1. f \in Frame /\ f.at = "visit"
      BY <1>1, <1>4 DEF Frame, Visit
    <2>2. frame' = [frame EXCEPT ![w] = f]
      BY <1>4 DEF TypeOK, Visit
    <2> HIDE DEF f
    <2> QED
      BY <1>2, <2>1, <2>2, ElsewhereCounted DEF Elsewhere
  <1> QED
    BY <1>3, <1>4

\* All other statements leave the counter alone.
LEMMA OtherCounted ==
    ASSUME TypeOK, TypeOK', Counted, NEW w \in Worker, NEW s \in Session, NEW after \in After,
           \/ OnAccept(w, s) \/ OnAcceptClosed(w, s) \/ OnAcceptError(w, s)
           \/ OpenCount(w, s) \/ CloseCount(w, s) \/ EndNotice(w, s)
           \/ OnReadNotJson(w, s) \/ OnReadMessage(w, s, after)
           \/ Reject(w, s) \/ EchoApp(w, s) \/ EndRead(w, s)
           \/ OnReadClosed(w, s) \/ OnReadError(w, s) \/ OnReadAborted(w, s)
           \/ Writing(w, s) \/ OnWriteOk(w, s) \/ OnWriteError(w, s) \/ OnWriteAborted(w, s)
    PROVE  Counted'
PROOF
  <1>1. UNCHANGED <<userid, uid>>
    BY DEF OnAccept, OnAcceptClosed, OnAcceptError, OpenCount, CloseCount, EndNotice,
           OnReadNotJson, OnReadMessage, Reject, EchoApp, EndRead, OnReadClosed, OnReadError,
           OnReadAborted, Writing, OnWriteOk, OnWriteError, OnWriteAborted, hist
  <1>2. CASE Release(w, s)
    BY <1>1, <1>2, ReleaseElsewhere, ElsewhereCounted
  <1>3. CASE UNCHANGED frame
    BY <1>1, <1>3, ElsewhereCounted
  <1>4. ASSUME NEW p \in Point, p # "store_uid", frame' = [frame EXCEPT ![w] = Enter(p, s)]
        PROVE  Counted'
    BY <1>1, <1>4, EnterElsewhere, ElsewhereCounted
  <1>5. ASSUME NEW m, NEW t, frame' = [frame EXCEPT ![w] = WriteAll(s, m, t)]
        PROVE  Counted'
    BY <1>1, <1>5, WriteAllElsewhere, ElsewhereCounted
  <1> QED
    BY <1>2, <1>3, <1>4, <1>5
       DEF OnAccept, OnAcceptClosed, OnAcceptError, OpenCount, CloseCount, EndNotice,
           OnReadNotJson, OnReadMessage, Reject, EchoApp, EndRead, OnReadClosed, OnReadError,
           OnReadAborted, Writing, OnWriteOk, OnWriteError, OnWriteAborted, Point

\* Nor do the applications and the destructor.
LEMMA OutsideCounted ==
    ASSUME TypeOK, TypeOK', Counted, NEW w \in Worker,
           AppData(w) \/ EndAppData(w) \/ \E s \in Session : Leave(w, s)
    PROVE  Counted'
PROOF
  <1>1. UNCHANGED <<userid, uid>>
    BY DEF AppData, EndAppData, Leave, hist
  <1>2. CASE AppData(w)
    BY <1>1, <1>2, WriteAllElsewhere, ElsewhereCounted DEF AppData
  <1>3. CASE frame' = [frame EXCEPT ![w] = Idle]
    <2>1. Idle \in Frame /\ Idle.at = "idle"
      BY FramesTyped DEF Idle
    <2> QED
      BY <1>1, <1>3, <2>1, ElsewhereCounted DEF Elsewhere
  <1> QED
    BY <1>2, <1>3 DEF EndAppData, Leave

\* With one worker, every step keeps the account of UIDs.
LEMMA NextCounted ==
    ASSUME OneWorker, TypeOK, TypeOK', Counted, [Next]_vars
    PROVE  Counted'
PROOF
  <1>1. CASE UNCHANGED vars
    BY <1>1 DEF Counted, UidsUnique, vars, hist
  <1>2. ASSUME NEW s \in Session, Connect(s)
        PROVE  Counted'
    BY <1>2, ElsewhereCounted DEF Connect, hist
  <1>3. ASSUME NEW w \in Worker, AppData(w)
        PROVE  Counted'
    BY <1>3, OutsideCounted
  <1>4. ASSUME NEW w \in Worker, Continue(w)
        PROVE  Counted'
    BY <1>4, LoadCounted, StoreCounted, LoopCounted, OtherCounted, OutsideCounted
       DEF Continue, After
  <1>5. ASSUME NEW w \in Worker, NEW s \in Session, Environment(w, s) \/ Handler(w, s)
        PROVE  Counted'
    BY <1>5, OtherCounted DEF Environment, Handler, After
  <1> QED
    BY <1>1, <1>2, <1>3, <1>4, <1>5 DEF Next

(***************************************************************************)
(* One worker, as the daemon is started by default, gives every user a UID *)
(* of their own (README.md, "Any message a user send will be indetified by *)
(* their UID"); two may give the same one twice.                           *)
(***************************************************************************)
THEOREM UidsAreUnique ==
    ASSUME OneWorker
    PROVE  Spec => []UidsUnique
PROOF
  <1>1. Init => Typed /\ AllAlive /\ Counted
    <2>1. Init => Counted
      BY DEF Init, Counted, UidsUnique, Idle
    <2> QED
      BY <2>1, InitTyped, InitAlive
  <1>2. Typed /\ AllAlive /\ Counted /\ [Next]_vars => (Typed /\ AllAlive /\ Counted)'
    <2> SUFFICES ASSUME Typed, AllAlive, Counted, [Next]_vars
                 PROVE  Typed' /\ AllAlive' /\ Counted'
      OBVIOUS
    <2>1. Typed' /\ AllAlive'
      BY NextTyped, NextAlive
    <2>2. TypeOK /\ TypeOK'
      BY <2>1 DEF Typed
    <2> QED
      BY <2>1, <2>2, NextCounted
  <1>3. Counted => UidsUnique
    BY DEF Counted
  <1> QED
    BY <1>1, <1>2, <1>3, PTL DEF Spec
===============================================================================
