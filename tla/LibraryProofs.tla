----------------------------- MODULE LibraryProofs -----------------------------
(***************************************************************************)
(* What the apps and the websockets take from my_async, for every value of *)
(* the constants.  The write side of the transports: its invariants, and   *)
(* that it implements FifoChannel.  Then each of the other parts: the way  *)
(* to a websocket session, the pair of TCP ends, the options.  Each has    *)
(* an inductive invariant of its own, and a behaviour of the library is    *)
(* one of each part.                                                       *)
(***************************************************************************)
EXTENDS MCLibrary, SequenceTheorems, TLAPS

\* Appending to the second of two sequences appends to their concatenation.
LEMMA ConcatAppend ==
    ASSUME NEW S, NEW s \in Seq(S), NEW t \in Seq(S), NEW e \in S
    PROVE  s \o Append(t, e) = Append(s \o t, e)
PROOF
  <1>1. /\ Append(t, e) = t \o <<e>> /\ <<e>> \in Seq(S)
        /\ s \o t \in Seq(S)
    BY AppendIsConcat, ConcatProperties
  <1>2. Append(s \o t, e) = (s \o t) \o <<e>>
    BY <1>1, AppendIsConcat
  <1> QED
    BY <1>1, <1>2, ConcatAssociative

\* Moving the head of the second sequence to the end of the first changes nothing.
LEMMA MoveHead ==
    ASSUME NEW S, NEW s \in Seq(S), NEW t \in Seq(S), t # <<>>
    PROVE  Append(s, Head(t)) \o Tail(t) = s \o t
PROOF
  <1> DEFINE h == Head(t)
             r == Tail(t)
  <1>1. h \in S /\ r \in Seq(S) /\ t = <<h>> \o r
    BY HeadTailProperties, HeadTailAppend, ConcatProperties, SeqEqual
  <1>2. Append(s, h) = s \o <<h>> /\ <<h>> \in Seq(S)
    BY <1>1, AppendIsConcat
  <1>3. (s \o <<h>>) \o r = s \o (<<h>> \o r)
    BY <1>1, <1>2, ConcatAssociative
  <1> QED
    BY <1>1, <1>2, <1>3

-----------------------------------------------------------------------------
(***************************************************************************)
(* The inductive invariant.  TypeOK needs OneWrite: on_write() takes the   *)
(* front of the queue, which is there because a write is outstanding.      *)
(***************************************************************************)
IInv == TypeOK /\ OneWrite /\ Conserved

\* The empty write side satisfies the invariant.
LEMMA InitIInv == Init => IInv
PROOF
  <1> SUFFICES ASSUME Init PROVE IInv
    OBVIOUS
  <1>1. TypeOK /\ OneWrite
    BY DEF Init, TypeOK, OneWrite
  <1>2. Conserved
    BY DEF Init, Conserved
  <1> QED
    BY <1>1, <1>2 DEF IInv

\* Each handler preserves it.
LEMMA NextIInv == IInv /\ [Next]_vars => IInv'
PROOF
  <1> SUFFICES ASSUME IInv, [Next]_vars
               PROVE  IInv'
    OBVIOUS
  <1> USE DEF IInv
  <1>1. ASSUME NEW d \in Data, Write(d)
        PROVE  IInv'
    <2>1. TypeOK' /\ OneWrite'
      BY <1>1, AppendProperties DEF Write, TypeOK, OneWrite
    <2>2. /\ queue_ \o Append(posted, d) = Append(queue_ \o posted, d)
          /\ queue_ \o posted \in Seq(Data)
      BY ConcatAppend, ConcatProperties DEF TypeOK
    <2>3. sent \o Append(queue_ \o posted, d) = Append(sent \o (queue_ \o posted), d)
      BY <2>2, ConcatAppend DEF TypeOK
    <2> QED
      BY <1>1, <2>1, <2>2, <2>3 DEF Write, Conserved
  <1>2. CASE Writing
    <2>1. Head(posted) \in Data /\ posted' \in Seq(Data)
      BY <1>2, HeadTailProperties DEF Writing, TypeOK
    <2>2. /\ queue_' \in Seq(Data) /\ queue_' # <<>>
          /\ Len(queue_') = Len(queue_) + 1
      BY <1>2, <2>1, AppendProperties DEF Writing, PushBack, TypeOK
    <2>3. outstanding' = outstanding + IF queue_ = <<>> THEN 1 ELSE 0
      <3>1. Len(queue_) \in Nat /\ (Len(queue_) = 0 <=> queue_ = <<>>)
        BY EmptySeq, LenProperties DEF TypeOK
      <3> QED
        BY <1>2, <2>2, <3>1 DEF Writing, DoWriteIf, StartsWrite
    <2>4. TypeOK'
      BY <1>2, <2>1, <2>2, <2>3 DEF Writing, TypeOK
    <2>5. OneWrite'
      BY <1>2, <2>2, <2>3 DEF Writing, OneWrite, TypeOK
    <2>6. queue_' \o posted' = queue_ \o posted
      BY <1>2, MoveHead DEF Writing, PushBack, TypeOK
    <2>7. Conserved'
      BY <1>2, <2>6 DEF Writing, Conserved
    <2> QED
      BY <2>4, <2>5, <2>7
  <1>3. CASE OnWriteOk
    <2>1. queue_ # <<>> /\ outstanding = 1
      BY <1>3 DEF OnWriteOk, OneWrite, TypeOK
    <2>2. Head(queue_) \in Data /\ queue_' \in Seq(Data)
      BY <1>3, <2>1, HeadTailProperties DEF OnWriteOk, TypeOK
    <2>3. sent' \in Seq(Data)
      BY <1>3, <2>2, AppendProperties DEF OnWriteOk, TypeOK
    <2>4. outstanding' = IF queue_' = <<>> THEN 0 ELSE 1
      BY <1>3, <2>1 DEF OnWriteOk, ContinuesWrite
    <2>5. TypeOK'
      BY <1>3, <2>2, <2>3, <2>4 DEF OnWriteOk, TypeOK
    <2>6. OneWrite'
      BY <2>4 DEF OneWrite
    <2>7. sent' \o (queue_' \o posted) = sent \o (queue_ \o posted)
      <3>1. sent' \o (queue_' \o posted) = (sent' \o queue_') \o posted
        <4>1. posted \in Seq(Data)
          BY DEF TypeOK
        <4> QED
          BY <2>2, <2>3, <4>1, ConcatAssociative
      <3>2. sent' \o queue_' = sent \o queue_
        BY <1>3, <2>1, MoveHead DEF OnWriteOk, TypeOK
      <3>3. (sent \o queue_) \o posted = sent \o (queue_ \o posted)
        BY ConcatAssociative DEF TypeOK
      <3> QED
        BY <3>1, <3>2, <3>3
    <2>8. Conserved'
      BY <1>3, <2>7 DEF OnWriteOk, Conserved
    <2> QED
      BY <2>5, <2>6, <2>8
  <1>4. CASE OnWriteError
    <2>1. outstanding = 1 /\ queue_ # <<>>
      BY <1>4 DEF OnWriteError, OneWrite, TypeOK
    <2>2. outstanding' = 0 /\ up' = FALSE /\ queue_' = queue_
      BY <1>4, <2>1 DEF OnWriteError
    <2>3. UNCHANGED <<posted, queue_, accepted, sent>>
      BY <1>4 DEF OnWriteError
    <2>4. TypeOK'
      <3>1. outstanding' \in Nat /\ up' \in BOOLEAN
        BY <2>2
      <3> QED
        BY <2>3, <3>1, Zenon DEF TypeOK
    <2>5. OneWrite'
      BY <2>2 DEF OneWrite
    <2> QED
      BY <2>3, <2>4, <2>5 DEF Conserved
  <1>5. CASE GoDown
    BY <1>5 DEF GoDown, TypeOK, OneWrite, Conserved
  <1>6. CASE UNCHANGED vars
    BY <1>6 DEF vars, TypeOK, OneWrite, Conserved
  <1> QED
    BY <1>1, <1>2, <1>3, <1>4, <1>5, <1>6 DEF Next

\* The invariant holds throughout.
LEMMA Invariant == Spec => []IInv
PROOF
  <1> QED
    BY InitIInv, NextIInv, PTL DEF Spec

\* The variables hold what they should; with it, on_write() never meets an empty queue.
THEOREM TypeCorrect == Spec => []TypeOK
PROOF
  <1>1. IInv => TypeOK
    BY DEF IInv
  <1> QED
    BY <1>1, Invariant, PTL

(***************************************************************************)
(* writing() and on_write() never have two writes on their way, and a      *)
(* connection that is up never holds data without one.                     *)
(***************************************************************************)
THEOREM OneWriteAtATime == Spec => []OneWrite
PROOF
  <1>1. IInv => OneWrite
    BY DEF IInv
  <1> QED
    BY <1>1, Invariant, PTL

\* No data is lost, repeated or moved by the posted handlers and the queue.
THEOREM NothingLost == Spec => []Conserved
PROOF
  <1>1. IInv => Conserved
    BY DEF IInv
  <1> QED
    BY <1>1, Invariant, PTL

-----------------------------------------------------------------------------
\* The item after a prefix is the head of what follows the prefix.
LEMMA ElementAfterPrefix ==
    ASSUME NEW S, NEW s \in Seq(S), NEW t \in Seq(S), t # <<>>
    PROVE  /\ Len(s) < Len(s \o t)
           /\ (s \o t)[Len(s) + 1] = Head(t)
PROOF
  <1>1. Len(s) \in Nat /\ Len(t) \in Nat \ {0}
    BY EmptySeq, LenProperties
  <1>2. /\ Len(s \o t) = Len(s) + Len(t)
        /\ (s \o t)[Len(s) + 1] = t[1]
    BY <1>1, ConcatProperties
  <1> QED
    BY <1>1, <1>2

(***************************************************************************)
(* Every step of the write side is a step of the channel or changes        *)
(* nothing its callers see: on_write() delivers the oldest item not yet    *)
(* delivered, and only while the connection is up.                         *)
(***************************************************************************)
LEMMA StepRefines ==
    IInv /\ [Next]_vars => [Channel!ChannelNext]_(Channel!cvars)
PROOF
  <1> SUFFICES ASSUME IInv, [Next]_vars
               PROVE  Channel!ChannelNext \/ UNCHANGED Channel!cvars
    OBVIOUS
  <1> USE DEF IInv, Channel!ChannelNext, Channel!cvars
  <1>1. ASSUME NEW d \in Data, Write(d)
        PROVE  Channel!Accept(d)
    BY <1>1 DEF Write, Channel!Accept
  <1>2. CASE Writing
    BY <1>2 DEF Writing
  <1>3. CASE OnWriteOk
    <2>1. queue_ # <<>>
      BY <1>3 DEF OnWriteOk, OneWrite, TypeOK
    <2>2. queue_ \o posted \in Seq(Data) /\ queue_ \o posted # <<>>
      BY <2>1, ConcatProperties, ConcatEqualIffEmpty DEF TypeOK
    <2>3. Head(queue_ \o posted) = Head(queue_)
      <3>1. Len(queue_) \in Nat \ {0} /\ Len(posted) \in Nat
        BY <2>1, EmptySeq, LenProperties DEF TypeOK
      <3>2. (queue_ \o posted)[1] = queue_[1]
        BY <3>1, ConcatProperties DEF TypeOK
      <3> QED
        BY <2>1, <2>2, <3>2
    <2>4. /\ Len(sent) < Len(accepted)
          /\ accepted[Len(sent) + 1] = Head(queue_)
      BY <2>2, <2>3, ElementAfterPrefix DEF Conserved, TypeOK
    <2> QED
      BY <1>3, <2>4 DEF OnWriteOk, Channel!Deliver
  <1>4. CASE OnWriteError
    BY <1>4 DEF OnWriteError, Channel!Break, TypeOK
  <1>5. CASE GoDown
    BY <1>5 DEF GoDown, Channel!Break
  <1>6. CASE UNCHANGED vars
    BY <1>6 DEF vars
  <1> QED
    BY <1>1, <1>2, <1>3, <1>4, <1>5, <1>6 DEF Next

\* The queue, its handlers and its writes together are a FIFO channel.
THEOREM RefinesChannel == Spec => ImplementsChannel
PROOF
  <1>1. Init => Channel!ChannelInit
    BY DEF Init, Channel!ChannelInit
  <1> QED
    BY <1>1, Invariant, StepRefines, PTL DEF Spec, ImplementsChannel, Channel!ChannelSpec

\* What the library does is a step of the write side, or leaves it alone.
LEMMA WriteBehaviour == LibrarySpec => Init /\ [][Next]_vars
PROOF
  <1>1. LibraryInit => Init
    BY DEF LibraryInit
  <1>2. [LibraryNext]_<<part, vars, upgrade, pair, options>> => [Next]_vars
    BY DEF LibraryNext
  <1> QED
    BY <1>1, <1>2, PTL DEF LibrarySpec

(***************************************************************************)
(* The write side as a part of the library: one write at a time, and what  *)
(* was written is sent once, in its order.                                 *)
(***************************************************************************)
THEOREM LibraryWritesInOrder == LibrarySpec => [](OneWrite /\ Conserved)
PROOF
  <1>1. IInv => OneWrite /\ Conserved
    BY DEF IInv
  <1> QED
    BY <1>1, InitIInv, NextIInv, WriteBehaviour, PTL

-----------------------------------------------------------------------------
(***************************************************************************)
(* The way to a websocket session.  While a connection is on it, what has  *)
(* been sent and not consumed and what the client will still send fit      *)
(* together; from then on nothing depends on either.                       *)
(***************************************************************************)
Request == {"upgrade", "get"}
Sent == {"hello", "server_hello", "finished", "response"} \union Request

\* What is before the server's operation, and the rest of the client's script.
Fits(input, rest) ==
    \E r \in Request :
        \/ input = <<>> /\ rest = <<r, "response">>
        \/ input = <<>> /\ rest = <<"hello", "server_hello", "finished", r, "response">>
        \/ input = <<>> /\ rest = <<"finished", r, "response">>
        \/ input = <<"hello">> /\ rest = <<"server_hello", "finished", r, "response">>
        \/ input = <<"finished">> /\ rest = <<r, "response">>
        \/ input = <<"finished", r>> /\ rest = <<"response">>
        \/ input = <<r>> /\ rest = <<"response">>

\* One item, and then another, in an empty sequence.
LEMMA Appended ==
    ASSUME NEW a, NEW b
    PROVE  Append(<<>>, a) = <<a>> /\ Append(<<a>>, b) = <<a, b>>
PROOF
  <1>1. /\ <<>> \in Seq({a, b}) /\ <<a>> \in Seq({a, b}) /\ <<a, b>> \in Seq({a, b})
        /\ Len(<<>>) = 0 /\ Len(<<a>>) = 1 /\ Len(<<a, b>>) = 2
    OBVIOUS
  <1>2. Append(<<>>, a) = <<a>>
    BY <1>1, AppendProperties, SeqEqual
  <1>3. /\ Append(<<a>>, b) \in Seq({a, b}) /\ Len(Append(<<a>>, b)) = 2
        /\ Append(<<a>>, b)[1] = a /\ Append(<<a>>, b)[2] = b
    BY <1>1, AppendProperties
  <1>4. <<a, b>>[1] = a /\ <<a, b>>[2] = b /\ 1 .. 2 = {1, 2}
    OBVIOUS
  <1>5. Append(<<a>>, b) = <<a, b>>
    <2>1. \A j \in 1 .. Len(Append(<<a>>, b)) : Append(<<a>>, b)[j] = <<a, b>>[j]
      BY <1>3, <1>4
    <2>2. Len(Append(<<a>>, b)) = Len(<<a, b>>)
      BY <1>1, <1>3
    <2> QED
      BY <1>1, <1>3, <2>1, <2>2, SeqEqual
  <1> QED
    BY <1>2, <1>5

\* What is needed of the tuples that Fits names.
LEMMA Tuples ==
    ASSUME NEW a, NEW b, NEW c, NEW d, NEW e
    PROVE  /\ Head(<<a>>) = a /\ Head(<<a, b>>) = a /\ Head(<<a, b, c>>) = a
           /\ Head(<<a, b, c, d>>) = a /\ Head(<<a, b, c, d, e>>) = a
           /\ Tail(<<a>>) = <<>> /\ Tail(<<a, b>>) = <<b>> /\ Tail(<<a, b, c>>) = <<b, c>>
           /\ Tail(<<a, b, c, d, e>>) = <<b, c, d, e>> /\ Tail(<<a, b, c, d>>) = <<b, c, d>>
           /\ Append(<<>>, a) = <<a>> /\ Append(<<a>>, b) = <<a, b>>
           /\ <<a>> # <<>> /\ <<a, b>> # <<>> /\ <<a, b, c>> # <<>>
           /\ <<a, b, c, d>> # <<>> /\ <<a, b, c, d, e>> # <<>>
PROOF
  <1>1. /\ Head(<<a>>) = a /\ Head(<<a, b>>) = a /\ Head(<<a, b, c>>) = a
        /\ Head(<<a, b, c, d>>) = a /\ Head(<<a, b, c, d, e>>) = a
    OBVIOUS
  <1>2. Tail(<<a>>) = <<>> /\ Tail(<<a, b>>) = <<b>> /\ Tail(<<a, b, c>>) = <<b, c>>
    OBVIOUS
  <1>3. Tail(<<a, b, c, d, e>>) = <<b, c, d, e>> /\ Tail(<<a, b, c, d>>) = <<b, c, d>>
    OBVIOUS
  <1>4. Append(<<>>, a) = <<a>> /\ Append(<<a>>, b) = <<a, b>>
    BY Appended
  <1>5. /\ <<a>> # <<>> /\ <<a, b>> # <<>> /\ <<a, b, c>> # <<>>
        /\ <<a, b, c, d>> # <<>> /\ <<a, b, c, d, e>> # <<>>
    OBVIOUS
  <1> QED
    BY <1>1, <1>2, <1>3, <1>4, <1>5

\* The client sends, the server answers the hello or consumes what completes a handshake.
LEMMA FitsOn ==
    ASSUME NEW i, NEW s, Fits(i, s)
    PROVE  /\ s # <<>> /\ Head(s) \notin U!Answers => Fits(Append(i, Head(s)), Tail(s))
           /\ i # <<>> /\ Head(i) = "hello" => Fits(Tail(i), Tail(s))
           /\ i # <<>> /\ Head(i) = "finished" => Fits(Tail(i), s)
           /\ s # <<>> /\ Head(s) \in U!Answers => i # <<>>
           /\ Head(s) \in Sent
PROOF
  <1>1. PICK r \in Request :
        \/ i = <<>> /\ s = <<r, "response">>
        \/ i = <<>> /\ s = <<"hello", "server_hello", "finished", r, "response">>
        \/ i = <<>> /\ s = <<"finished", r, "response">>
        \/ i = <<"hello">> /\ s = <<"server_hello", "finished", r, "response">>
        \/ i = <<"finished">> /\ s = <<r, "response">>
        \/ i = <<"finished", r>> /\ s = <<"response">>
        \/ i = <<r>> /\ s = <<"response">>
    BY DEF Fits
  <1>2. r # "hello" /\ r # "finished" /\ r # "response" /\ r # "server_hello"
    BY DEF Request
  <1>3. U!Answers = {"server_hello", "response"}
    BY DEF U!Answers
  <1>4. CASE i = <<>> /\ s = <<r, "response">>
    BY <1>2, <1>3, <1>4, Tuples DEF Fits, Sent
  <1>5. CASE i = <<>> /\ s = <<"hello", "server_hello", "finished", r, "response">>
    BY <1>2, <1>3, <1>5, Tuples DEF Fits, Sent
  <1>6. CASE i = <<>> /\ s = <<"finished", r, "response">>
    BY <1>2, <1>3, <1>6, Tuples DEF Fits, Sent
  <1>7. CASE i = <<"hello">> /\ s = <<"server_hello", "finished", r, "response">>
    BY <1>2, <1>3, <1>7, Tuples DEF Fits, Sent
  <1>8. CASE i = <<"finished">> /\ s = <<r, "response">>
    <2>1. Head(i) = "finished" /\ Tail(i) = <<>> /\ Head(s) = r /\ Tail(s) = <<"response">>
          /\ Append(i, r) = <<"finished", r>>
      <3>1. i = <<"finished">> /\ s = <<r, "response">>
        BY <1>8
      <3>2. /\ Head(<<"finished">>) = "finished" /\ Tail(<<"finished">>) = <<>>
            /\ Head(<<r, "response">>) = r /\ Tail(<<r, "response">>) = <<"response">>
        BY Tuples
      <3>3. Append(<<"finished">>, r) = <<"finished", r>>
        BY Appended
      <3> QED
        BY <3>1, <3>2, <3>3, Zenon
    <2>2. Fits(Append(i, r), Tail(s)) /\ Fits(Tail(i), s)
      BY <1>8, <2>1 DEF Fits
    <2> QED
      BY <1>2, <1>3, <2>1, <2>2 DEF Sent
  <1>9. CASE i = <<"finished", r>> /\ s = <<"response">>
    BY <1>2, <1>3, <1>9, Tuples DEF Fits, Sent
  <1>10. CASE i = <<r>> /\ s = <<"response">>
    BY <1>2, <1>3, <1>10, Tuples DEF Fits, Sent
  <1> QED
    BY <1>1, <1>4, <1>5, <1>6, <1>7, <1>8, <1>9, <1>10

(***************************************************************************)
(* One connection: its session, what has arrived, the rest of its script.  *)
(* Before the listener has looked at it nothing has been read of it, and   *)
(* only a session that has got a request is run with one.                  *)
(***************************************************************************)
Over == {"open", "gone"}
Stage == {"none", "backlog"} \union U!Stages \union Over
Sessions ==
    [stage : Stage, expires : BOOLEAN, secure : BOOLEAN, buffer : Seq(Sent), request : BOOLEAN]

ConnectionOk(s, arrived, rest) ==
    /\ s \in Sessions
    /\ s.stage \in Over \/ s.request \/ (arrived \in Seq(Sent) /\ Fits(s.buffer \o arrived, rest))
    /\ s.stage \in {"none", "backlog", "detect"} => s.buffer = <<>>
    /\ s.request => s.stage \in {"accept"} \union Over

UpgradeInv ==
    /\ DOMAIN session = Conn /\ DOMAIN wire = Conn /\ DOMAIN script = Conn
    /\ \A c \in Conn : ConnectionOk(session[c], wire[c], script[c])

\* A step is about one connection.
Concerns(c) ==
    /\ DOMAIN session' = Conn /\ DOMAIN wire' = Conn /\ DOMAIN script' = Conn
    /\ \A d \in Conn \ {c} : session'[d] = session[d] /\ wire'[d] = wire[d] /\ script'[d] = script[d]

\* It is enough to look at that one.
LEMMA OneConnection ==
    ASSUME UpgradeInv, NEW c \in Conn, Concerns(c), ConnectionOk(session'[c], wire'[c], script'[c])
    PROVE  UpgradeInv'
PROOF
  <1>1. \A d \in Conn : ConnectionOk(session'[d], wire'[d], script'[d])
    BY DEF UpgradeInv, Concerns
  <1> QED
    BY <1>1 DEF UpgradeInv, Concerns

\* What the initial script of a client may be.
LEMMA ScriptsFit == \A s \in U!Scripts : Fits(<<>> \o <<>>, s)
PROOF
  <1> SUFFICES ASSUME NEW s \in U!Scripts PROVE Fits(<<>> \o <<>>, s)
    OBVIOUS
  <1>1. PICK first \in {<<>>, U!Hello}, r \in Request : s = first \o <<r, "response">>
    BY DEF U!Scripts, Request
  <1>2. <<>> \o <<>> = <<>> /\ <<>> \in Seq(Sent)
    OBVIOUS
  <1>3. <<r, "response">> \in Seq(Sent)
    BY DEF Sent
  <1>4. CASE first = <<>>
    <2>1. s = <<r, "response">>
      BY <1>1, <1>3, <1>4
    <2> QED
      BY <1>2, <2>1 DEF Fits
  <1>5. CASE first = U!Hello
    <2> DEFINE all == <<"hello", "server_hello", "finished", r, "response">>
    <2>1. /\ U!Hello \in Seq(Sent) /\ Len(U!Hello) = 3
          /\ U!Hello[1] = "hello" /\ U!Hello[2] = "server_hello" /\ U!Hello[3] = "finished"
      BY DEF U!Hello, Sent
    <2>2. /\ Len(<<r, "response">>) = 2 /\ <<r, "response">>[1] = r /\ <<r, "response">>[2] = "response"
      OBVIOUS
    <2>3. /\ all \in Seq(Sent) /\ Len(all) = 5
          /\ all[1] = "hello" /\ all[2] = "server_hello" /\ all[3] = "finished" /\ all[4] = r
          /\ all[5] = "response"
      BY DEF Sent
    <2>4. /\ U!Hello \o <<r, "response">> \in Seq(Sent)
          /\ Len(U!Hello \o <<r, "response">>) = 5
          /\ \A i \in 1 .. 5 : (U!Hello \o <<r, "response">>)[i] =
                IF i <= 3 THEN U!Hello[i] ELSE <<r, "response">>[i - 3]
      <3>1. /\ U!Hello \o <<r, "response">> \in Seq(Sent)
            /\ Len(U!Hello \o <<r, "response">>) = Len(U!Hello) + Len(<<r, "response">>)
            /\ \A i \in 1 .. Len(U!Hello) + Len(<<r, "response">>) :
                  (U!Hello \o <<r, "response">>)[i] =
                      IF i <= Len(U!Hello) THEN U!Hello[i] ELSE <<r, "response">>[i - Len(U!Hello)]
        BY <1>3, <2>1, ConcatProperties, Zenon
      <3>2. Len(U!Hello) + Len(<<r, "response">>) = 5 /\ Len(U!Hello) = 3
        BY <2>1, <2>2
      <3> QED
        BY <3>1, <3>2, Zenon
    <2>5. \A i \in 1 .. 5 : (U!Hello \o <<r, "response">>)[i] = all[i]
      BY <2>1, <2>2, <2>3, <2>4
    <2>6. U!Hello \o <<r, "response">> = all
      BY <2>3, <2>4, <2>5, SeqEqual
    <2> QED
      BY <1>1, <1>2, <1>5, <2>6 DEF Fits
  <1> QED
    BY <1>1, <1>4, <1>5

\* Before any client has connected.
LEMMA UpgradeInit == U!Init => UpgradeInv
PROOF
  <1> SUFFICES ASSUME U!Init PROVE UpgradeInv
    OBVIOUS
  <1>1. <<>> \in Seq(Sent)
    OBVIOUS
  <1>2. /\ U!None \in Sessions /\ U!None.stage = "none" /\ U!None.buffer = <<>>
        /\ U!None.request = FALSE
    BY <1>1 DEF U!None, Sessions, Stage
  <1>3. ASSUME NEW c \in Conn
        PROVE  ConnectionOk(session[c], wire[c], script[c])
    <2>1. session[c] = U!None /\ wire[c] = <<>> /\ Fits(<<>> \o <<>>, script[c])
      BY ScriptsFit DEF U!Init
    <2> QED
      BY <1>1, <1>2, <2>1 DEF ConnectionOk
  <1> QED
    BY <1>3 DEF U!Init, UpgradeInv

\* The tail of a concatenation is that of the first sequence, with the second.
LEMMA TailOfConcat ==
    ASSUME NEW S, NEW s \in Seq(S), NEW t \in Seq(S), s # <<>>
    PROVE  Tail(s \o t) = Tail(s) \o t
PROOF
  <1>1. s \o t \in Seq(S) /\ Len(s \o t) = Len(s) + Len(t) /\ s \o t # <<>>
    BY ConcatProperties, ConcatEqualIffEmpty
  <1>2. /\ Tail(s) \in Seq(S) /\ Len(Tail(s)) = Len(s) - 1 /\ Len(s) \in Nat /\ Len(t) \in Nat
        /\ \A i \in 1 .. Len(Tail(s)) : Tail(s)[i] = s[i + 1]
    BY HeadTailProperties, LenProperties
  <1>3. /\ Tail(s \o t) \in Seq(S) /\ Len(Tail(s \o t)) = Len(s \o t) - 1
        /\ \A i \in 1 .. Len(Tail(s \o t)) : Tail(s \o t)[i] = (s \o t)[i + 1]
    BY <1>1, HeadTailProperties
  <1>4. /\ Tail(s) \o t \in Seq(S) /\ Len(Tail(s) \o t) = Len(Tail(s)) + Len(t)
        /\ \A i \in 1 .. Len(Tail(s)) + Len(t) :
              (Tail(s) \o t)[i] = IF i <= Len(Tail(s)) THEN Tail(s)[i] ELSE t[i - Len(Tail(s))]
    BY <1>2, ConcatProperties
  <1>5. \A i \in 1 .. Len(s) + Len(t) : (s \o t)[i] = IF i <= Len(s) THEN s[i] ELSE t[i - Len(s)]
    BY ConcatProperties
  <1>6. \A i \in 1 .. Len(Tail(s \o t)) : Tail(s \o t)[i] = (Tail(s) \o t)[i]
    BY <1>1, <1>2, <1>3, <1>4, <1>5
  <1> QED
    BY <1>1, <1>2, <1>3, <1>4, <1>6, SeqEqual

\* What an operation finds first is consumed, of what was read before or of what arrives.
LEMMA ConsumesFirst ==
    ASSUME UpgradeInv, NEW c \in Conn, session[c].stage \notin Over, ~session[c].request,
           U!Input(c) # <<>>,
           NEW s \in Sessions, s.buffer = session[c].buffer, U!Consumes(c, s)
    PROVE  /\ DOMAIN session' = Conn /\ DOMAIN wire' = Conn
           /\ \A d \in Conn \ {c} : session'[d] = session[d] /\ wire'[d] = wire[d]
           /\ session'[c] \in Sessions
           /\ session'[c].stage = s.stage /\ session'[c].request = s.request
           /\ wire'[c] \in Seq(Sent)
           /\ session'[c].buffer \o wire'[c] = Tail(U!Input(c))
PROOF
  <1>1. /\ DOMAIN session = Conn /\ DOMAIN wire = Conn /\ DOMAIN script = Conn
        /\ session[c].buffer \in Seq(Sent) /\ wire[c] \in Seq(Sent)
    BY DEF UpgradeInv, ConnectionOk, Sessions
  <1> DEFINE b == session[c].buffer
             w == wire[c]
  <1>2. U!Input(c) = b \o w
    BY DEF U!Input
  <1>3. CASE b # <<>>
    <2>1. session'[c] = [s EXCEPT !.buffer = Tail(b)] /\ wire' = wire
          /\ DOMAIN session' = Conn /\ \A d \in Conn \ {c} : session'[d] = session[d]
      BY <1>1, <1>3 DEF U!Consumes, U!Becomes
    <2>2. Tail(b) \in Seq(Sent) /\ Tail(b) \o w = Tail(b \o w)
      BY <1>1, <1>3, TailOfConcat, HeadTailProperties
    <2>3. session'[c] \in Sessions /\ session'[c].buffer = Tail(b)
          /\ session'[c].stage = s.stage /\ session'[c].request = s.request
      BY <2>1, <2>2 DEF Sessions
    <2> QED
      BY <1>1, <1>2, <2>1, <2>2, <2>3
  <1>4. CASE b = <<>>
    <2>1. session'[c] = s /\ wire'[c] = Tail(w)
          /\ DOMAIN session' = Conn /\ DOMAIN wire' = Conn
          /\ \A d \in Conn \ {c} : session'[d] = session[d] /\ wire'[d] = wire[d]
      BY <1>1, <1>4 DEF U!Consumes, U!Becomes
    <2>2. b \o w = w /\ w # <<>>
      BY <1>1, <1>2, <1>4, ConcatEmptySeq
    <2>3. Tail(w) \in Seq(Sent) /\ <<>> \o Tail(w) = Tail(w)
      BY <1>1, <2>2, HeadTailProperties, ConcatEmptySeq
    <2> QED
      BY <1>2, <1>4, <2>1, <2>2, <2>3
  <1> QED
    BY <1>3, <1>4

\* What is known of a connection that the server is working on.
LEMMA OnItsWay ==
    ASSUME UpgradeInv, NEW c \in Conn, session[c].stage \notin Over, ~session[c].request
    PROVE  /\ wire[c] \in Seq(Sent) /\ Fits(U!Input(c), script[c])
           /\ session[c] \in Sessions
PROOF
  <1> QED
    BY DEF UpgradeInv, ConnectionOk, U!Input

\* A session whose operation is neither the first look nor started by a request.
LEMMA StillFits ==
    ASSUME NEW s \in Sessions, s.request = FALSE, s.stage \notin {"none", "backlog", "detect"},
           NEW w \in Seq(Sent), NEW r, Fits(s.buffer \o w, r)
    PROVE  ConnectionOk(s, w, r)
PROOF
  <1> QED
    BY DEF ConnectionOk

\* A session that is open or gone, or runs with a request: nothing more is asked.
LEMMA NothingToFit ==
    ASSUME NEW s \in Sessions, s.stage \in Over \/ (s.stage = "accept" /\ s.request), NEW w, NEW r
    PROVE  ConnectionOk(s, w, r)
PROOF
  <1> QED
    BY DEF ConnectionOk, Over

\* The listener takes a connection that nothing has been read of.
LEMMA AcceptsKeep ==
    ASSUME UpgradeInv, NEW c \in Conn, U!OnAcceptDual(c) \/ U!OnRun(c) \/ U!Connect(c)
    PROVE  UpgradeInv'
PROOF
  <1>1. /\ DOMAIN session = Conn /\ DOMAIN wire = Conn /\ DOMAIN script = Conn
        /\ session[c].stage \in {"none", "backlog"} /\ ConnectionOk(session[c], wire[c], script[c])
        /\ wire' = wire /\ script' = script
    BY DEF UpgradeInv, U!OnAcceptDual, U!OnRun, U!Connect, U!At
  <1>2. /\ session[c].buffer = <<>> /\ ~session[c].request
        /\ wire[c] \in Seq(Sent) /\ Fits(<<>> \o wire[c], script[c])
    BY <1>1 DEF ConnectionOk, Over
  <1>3. PICK s \in Sessions :
           /\ session' = [session EXCEPT ![c] = s]
           /\ s.stage \in Stage /\ s.buffer = <<>> /\ s.request = FALSE
    <2>1. <<>> \in Seq(Sent)
      OBVIOUS
    <2>2. CASE U!OnAcceptDual(c)
      <3>1. [U!None EXCEPT !.stage = "detect", !.expires = U!ExpiresAfter] \in Sessions
        BY <2>1 DEF U!None, U!ExpiresAfter, Sessions, Stage, U!Stages
      <3> QED
        BY <2>2, <3>1 DEF U!OnAcceptDual, U!Becomes, U!None, U!ExpiresAfter, Stage, U!Stages
    <2>3. CASE U!Connect(c)
      <3>1. [U!None EXCEPT !.stage = "backlog"] \in Sessions
        BY <2>1 DEF U!None, Sessions, Stage
      <3> QED
        BY <2>3, <3>1 DEF U!Connect, U!Becomes, U!None, Stage
    <2>4. CASE U!OnRun(c)
      <3>1. /\ U!SetRunOptions(U!None) \in Sessions
            /\ U!SetRunOptions(U!None).buffer = <<>> /\ U!SetRunOptions(U!None).request = FALSE
        BY <2>1 DEF U!None, U!SetRunOptions, Sessions, Stage, U!Stages
      <3>2. [U!None EXCEPT !.stage = "ssl_run", !.secure = TRUE, !.expires = U!ExpiresAfter] \in Sessions
        BY <2>1 DEF U!None, U!ExpiresAfter, Sessions, Stage, U!Stages
      <3>4. CASE kind = "plain"
        <4>1. session' = [session EXCEPT ![c] = U!SetRunOptions(U!None)]
          BY <2>4, <3>4 DEF U!OnRun, U!Becomes
        <4> QED
          BY <3>1, <4>1 DEF Sessions
      <3>5. CASE kind # "plain"
        BY <2>4, <3>2, <3>5 DEF U!OnRun, U!Becomes, U!None, U!ExpiresAfter, Stage, U!Stages
      <3> QED
        BY <3>4, <3>5
    <2> QED
      BY <2>2, <2>3, <2>4
  <1>4. session'[c] = s /\ Concerns(c)
    BY <1>1, <1>3 DEF Concerns
  <1>5. ConnectionOk(s, wire[c], script[c])
    BY <1>2, <1>3 DEF ConnectionOk
  <1> QED
    BY <1>1, <1>4, <1>5, OneConnection

\* What was read to look at it is handed on: nothing is missing before the next operation.
LEMMA DetectKeeps == ASSUME UpgradeInv, NEW c \in Conn, U!OnDetect(c) PROVE UpgradeInv'
PROOF
  <1>1. /\ DOMAIN session = Conn /\ DOMAIN wire = Conn /\ DOMAIN script = Conn
        /\ session[c].stage = "detect" /\ ConnectionOk(session[c], wire[c], script[c])
        /\ script' = script
    BY DEF UpgradeInv, U!OnDetect, U!At
  <1>2. /\ session[c].buffer = <<>> /\ session[c].request = FALSE /\ session[c] \in Sessions
        /\ wire[c] \in Seq(Sent) /\ Fits(<<>> \o wire[c], script[c])
    BY <1>1 DEF ConnectionOk, Over, Sessions
  <1>3. PICK n \in 1 .. Len(wire[c]) :
           LET read == SubSeq(wire[c], 1, n)
               ssl == read[1] = "hello"
           IN  /\ session' = [session EXCEPT ![c] =
                     [session[c] EXCEPT !.stage = IF ssl THEN "handshake" ELSE "read",
                                        !.secure = ssl, !.expires = TRUE, !.buffer = read]]
               /\ wire' = [wire EXCEPT ![c] = SubSeq(wire[c], n + 1, Len(wire[c]))]
    BY <1>1 DEF U!OnDetect, U!Becomes, U!Moved, U!ExpiresAfter
  <1> DEFINE read == SubSeq(wire[c], 1, n)
             ssl == read[1] = "hello"
             s == [session[c] EXCEPT !.stage = IF ssl THEN "handshake" ELSE "read",
                                     !.secure = ssl, !.expires = TRUE, !.buffer = read]
             w == SubSeq(wire[c], n + 1, Len(wire[c]))
  <1>4. read \in Seq(Sent) /\ w \in Seq(Sent) /\ read \o w = wire[c]
    <2>1. Len(wire[c]) \in Nat /\ \A i \in 1 .. Len(wire[c]) : wire[c][i] \in Sent
      BY <1>2, LenProperties, ElementOfSeq
    <2>2. n \in Int /\ n + 1 \in Int /\ Len(wire[c]) \in Int /\ n <= Len(wire[c]) /\ 1 <= n
      BY <2>1
    <2>3. read \in Seq(Sent)
      BY <2>1, <2>2, SubSeqProperties
    <2>4. w \in Seq(Sent)
      BY <2>1, <2>2, SubSeqProperties
    <2>5. read \o w = SubSeq(wire[c], 1, Len(wire[c]))
      <3>1. 1 \in 1 .. Len(wire[c]) + 1 /\ n \in 0 .. Len(wire[c]) /\ Len(wire[c]) \in n .. Len(wire[c])
        BY <2>1, <2>2
      <3>2. 1 - 1 = 0
        OBVIOUS
      <3> QED
        BY <1>2, <3>1, <3>2, ConcatAdjacentSubSeq
    <2> QED
      BY <1>2, <2>3, <2>4, <2>5, SubSeqFull
  <1>5. s \in Sessions /\ s.stage \in {"handshake", "read"} /\ s.buffer = read /\ s.request = FALSE
    <2>1. ssl \in BOOLEAN
      OBVIOUS
    <2>2. (IF ssl THEN "handshake" ELSE "read") \in {"handshake", "read"}
      BY <2>1
    <2> HIDE DEF ssl, read
    <2> QED
      BY <1>2, <1>4, <2>1, <2>2 DEF Sessions, Stage, U!Stages
  <1>6. session'[c] = s /\ wire'[c] = w /\ Concerns(c)
    BY <1>1, <1>3 DEF Concerns
  <1>7. Fits(read \o w, script[c])
    BY <1>2, <1>4, ConcatEmptySeq
  <1> HIDE DEF s, w, read
  <1>8. ConnectionOk(s, w, script[c])
    BY <1>4, <1>5, <1>7, StillFits
  <1> QED
    BY <1>1, <1>6, <1>8, OneConnection

\* The handlers that consume what they find.
LEMMA HandlersKeep ==
    ASSUME UpgradeInv, NEW c \in Conn,
           \/ U!SaysHello(c) \/ U!OnHandshake(c) \/ U!OnHandshakeSession(c)
           \/ U!OnReadUpgrade(c) \/ U!OnReadOther(c)
    PROVE  UpgradeInv'
PROOF
  <1>1. /\ session[c].stage \in {"handshake", "ssl_run", "read"} /\ U!Input(c) # <<>>
        /\ DOMAIN script = Conn /\ ConnectionOk(session[c], wire[c], script[c])
    BY DEF UpgradeInv, U!SaysHello, U!OnHandshake, U!OnHandshakeSession, U!OnReadUpgrade, U!OnReadOther,
           U!Finds, U!At
  <1>2. /\ session[c].stage \notin Over /\ session[c].request = FALSE
        /\ session[c] \in Sessions /\ wire[c] \in Seq(Sent) /\ Fits(U!Input(c), script[c])
    BY <1>1 DEF ConnectionOk, Over, Sessions, U!Input
  \* SaysHello also answers, and so does not leave the script alone.
  <1>3. CASE U!SaysHello(c)
    <2>1. Head(U!Input(c)) = "hello" /\ U!Consumes(c, session[c]) /\ script' = [script EXCEPT ![c] = Tail(@)]
      BY <1>3 DEF U!SaysHello, U!Finds, U!Answered
    <2>2. /\ DOMAIN session' = Conn /\ DOMAIN wire' = Conn
          /\ \A d \in Conn \ {c} : session'[d] = session[d] /\ wire'[d] = wire[d]
          /\ session'[c] \in Sessions
          /\ session'[c].stage = session[c].stage /\ session'[c].request = session[c].request
          /\ wire'[c] \in Seq(Sent)
          /\ session'[c].buffer \o wire'[c] = Tail(U!Input(c))
      BY <1>1, <1>2, <2>1, ConsumesFirst
    <2>3. Concerns(c) /\ script'[c] = Tail(script[c])
      BY <1>1, <2>1, <2>2 DEF Concerns
    <2>4. Fits(session'[c].buffer \o wire'[c], script'[c])
      BY <1>1, <1>2, <2>1, <2>2, <2>3, FitsOn
    <2>5. ConnectionOk(session'[c], wire'[c], script'[c])
      BY <1>1, <1>2, <2>2, <2>4, StillFits
    <2> QED
      BY <2>3, <2>5, OneConnection
  <1>4. ASSUME Head(U!Input(c)) = "finished", script' = script,
               NEW s \in Sessions, s.buffer = session[c].buffer, s.request = FALSE,
               s.stage \in {"read", "accept"}, U!Consumes(c, s)
        PROVE  UpgradeInv'
    <2>1. /\ DOMAIN session' = Conn /\ DOMAIN wire' = Conn
          /\ \A d \in Conn \ {c} : session'[d] = session[d] /\ wire'[d] = wire[d]
          /\ session'[c] \in Sessions
          /\ session'[c].stage = s.stage /\ session'[c].request = s.request
          /\ wire'[c] \in Seq(Sent)
          /\ session'[c].buffer \o wire'[c] = Tail(U!Input(c))
      BY <1>1, <1>2, <1>4, ConsumesFirst
    <2>2. Concerns(c)
      BY <1>1, <1>4, <2>1 DEF Concerns
    <2>3. Fits(session'[c].buffer \o wire'[c], script'[c])
      BY <1>1, <1>2, <1>4, <2>1, FitsOn
    <2>4. ConnectionOk(session'[c], wire'[c], script'[c])
      BY <1>4, <2>1, <2>3, StillFits
    <2> QED
      BY <2>2, <2>4, OneConnection
  <1>5. ASSUME script' = script,
               NEW s \in Sessions, s.buffer = session[c].buffer,
               s.stage \in Over \/ (s.stage = "accept" /\ s.request), U!Consumes(c, s)
        PROVE  UpgradeInv'
    <2>1. /\ DOMAIN session' = Conn /\ DOMAIN wire' = Conn
          /\ \A d \in Conn \ {c} : session'[d] = session[d] /\ wire'[d] = wire[d]
          /\ session'[c] \in Sessions
          /\ session'[c].stage = s.stage /\ session'[c].request = s.request
      BY <1>1, <1>2, <1>5, ConsumesFirst
    <2>2. Concerns(c)
      BY <1>1, <1>5, <2>1 DEF Concerns
    <2>3. ConnectionOk(session'[c], wire'[c], script'[c])
      BY <1>5, <2>1, NothingToFit
    <2> QED
      BY <2>2, <2>3, OneConnection
  <1>6. CASE U!OnHandshake(c)
    <2> DEFINE s == [session[c] EXCEPT !.stage = "read", !.expires = U!ExpiresAfter]
    <2>1. Head(U!Input(c)) = "finished" /\ script' = script /\ U!Consumes(c, s)
      BY <1>6 DEF U!OnHandshake, U!Finds
    <2>2. s \in Sessions /\ s.buffer = session[c].buffer /\ s.request = FALSE /\ s.stage = "read"
      BY <1>2 DEF Sessions, Stage, U!Stages, U!ExpiresAfter
    <2> QED
      BY <1>4, <2>1, <2>2
  <1>7. CASE U!OnHandshakeSession(c)
    <2> DEFINE s == U!SetRunOptions([session[c] EXCEPT !.expires = U!ExpiresNever])
    <2>1. Head(U!Input(c)) = "finished" /\ script' = script /\ U!Consumes(c, s)
      BY <1>7 DEF U!OnHandshakeSession, U!Finds
    <2>2. s \in Sessions /\ s.buffer = session[c].buffer /\ s.request = FALSE /\ s.stage = "accept"
      BY <1>2 DEF Sessions, Stage, U!Stages, U!ExpiresNever, U!SetRunOptions
    <2> HIDE DEF s
    <2> QED
      BY <1>4, <2>1, <2>2
  <1>8. CASE U!OnReadUpgrade(c)
    <2> DEFINE s == U!MakeWebsocket(session[c])
    <2>1. script' = script /\ U!Consumes(c, s)
      BY <1>8 DEF U!OnReadUpgrade
    <2>2. s \in Sessions /\ s.buffer = session[c].buffer /\ s.request /\ s.stage = "accept"
      BY <1>2 DEF Sessions, Stage, U!Stages, U!ExpiresNever, U!SetRunOptions, U!MakeWebsocket, U!RunWith
    <2> HIDE DEF s
    <2> QED
      BY <1>5, <2>1, <2>2
  <1>9. CASE U!OnReadOther(c)
    <2> DEFINE s == [session[c] EXCEPT !.stage = "gone"]
    <2>1. script' = script /\ U!Consumes(c, s)
      BY <1>9 DEF U!OnReadOther
    <2>2. s \in Sessions /\ s.buffer = session[c].buffer /\ s.stage \in Over
      BY <1>2 DEF Sessions, Stage, Over
    <2> HIDE DEF s
    <2> QED
      BY <1>5, <2>1, <2>2
  <1> QED
    BY <1>3, <1>6, <1>7, <1>8, <1>9

\* The handlers that end what they have begun.
LEMMA EndsKeep ==
    ASSUME UpgradeInv, NEW c \in Conn, U!OnReadEof(c) \/ U!Fail(c) \/ U!OnAccept(c)
    PROVE  UpgradeInv'
PROOF
  <1>1. /\ DOMAIN session = Conn /\ DOMAIN wire = Conn /\ DOMAIN script = Conn
        /\ session[c] \in Sessions /\ ConnectionOk(session[c], wire[c], script[c])
    BY DEF UpgradeInv, ConnectionOk
  <1>2. ASSUME NEW s \in Sessions, s.stage \in Over, Concerns(c),
               session'[c].stage = s.stage, session'[c] \in Sessions
        PROVE  UpgradeInv'
    <2>1. ConnectionOk(session'[c], wire'[c], script'[c])
      BY <1>2, NothingToFit
    <2> QED
      BY <1>2, <2>1, OneConnection
  <1>3. CASE U!Fail(c)
    <2>1. [session[c] EXCEPT !.stage = "gone"] \in Sessions
      BY <1>1 DEF Sessions, Stage, Over
    <2>2. session'[c] = [session[c] EXCEPT !.stage = "gone"] /\ Concerns(c)
      BY <1>1, <1>3 DEF U!Fail, U!Becomes, Concerns
    <2>3. session'[c].stage \in Over
      BY <1>1, <2>2 DEF Sessions, Over
    <2> QED
      BY <1>2, <2>1, <2>2, <2>3
  <1>4. CASE U!OnReadEof(c)
    <2>1. /\ session[c].stage = "read" /\ UNCHANGED <<wire, script>>
          /\ session' = [session EXCEPT ![c] = IF session[c].secure THEN U!SslEof(session[c])
                                              ELSE U!PlainEof(session[c])]
      BY <1>4 DEF U!OnReadEof, U!At, U!Becomes
    <2>2. Concerns(c)
      BY <1>1, <2>1 DEF Concerns
    <2>3. session[c].request = FALSE /\ wire[c] \in Seq(Sent) /\ Fits(U!Input(c), script[c])
      BY <1>1, <2>1 DEF ConnectionOk, Over, U!Input, Sessions
    <2>4. CASE session[c].secure
      <3>1. /\ U!SslEof(session[c]) \in Sessions /\ U!SslEof(session[c]).stage = "shutdown"
            /\ U!SslEof(session[c]).request = FALSE
            /\ U!SslEof(session[c]).buffer = session[c].buffer
        BY <1>1, <2>3 DEF U!SslEof, Sessions, Stage, U!Stages, U!ExpiresAfter
      <3>2. session'[c] = U!SslEof(session[c]) /\ wire' = wire /\ script' = script
        BY <1>1, <2>1, <2>4
      <3>3. Fits(session'[c].buffer \o wire'[c], script'[c])
        BY <2>3, <3>1, <3>2 DEF U!Input
      <3>4. ConnectionOk(session'[c], wire'[c], script'[c])
        BY <2>3, <3>1, <3>2, <3>3, StillFits
      <3> QED
        BY <2>2, <3>4, OneConnection
    <2>5. CASE ~session[c].secure
      <3>1. U!PlainEof(session[c]) \in Sessions /\ U!PlainEof(session[c]).stage \in Over
        BY <1>1 DEF U!PlainEof, Sessions, Stage, Over
      <3>2. session'[c] = U!PlainEof(session[c])
        BY <1>1, <2>1, <2>5
      <3> QED
        BY <1>2, <2>2, <3>1, <3>2
    <2> QED
      BY <2>4, <2>5
  <1>5. CASE U!OnAccept(c)
    <2> DEFINE open == [session[c] EXCEPT !.stage = "open"]
    <2>1. open \in Sessions /\ open.stage \in Over /\ open.buffer = session[c].buffer
      BY <1>1 DEF Sessions, Stage, Over
    <2>2. /\ session[c].stage = "accept" /\ script' = [script EXCEPT ![c] = Tail(@)]
          /\ IF session[c].request THEN U!Becomes(c, open) /\ UNCHANGED wire
             ELSE U!Input(c) # <<>> /\ U!Consumes(c, open)
      BY <1>5 DEF U!OnAccept, U!At, U!Answered, U!Finds
    <2> HIDE DEF open
    <2>3. CASE session[c].request
      <3>1. session'[c] = open /\ Concerns(c)
        BY <1>1, <2>2, <2>3 DEF U!Becomes, Concerns
      <3> QED
        BY <1>2, <2>1, <3>1
    <2>4. CASE ~session[c].request
      <3>1. /\ DOMAIN session' = Conn /\ DOMAIN wire' = Conn
            /\ \A d \in Conn \ {c} : session'[d] = session[d] /\ wire'[d] = wire[d]
            /\ session'[c] \in Sessions /\ session'[c].stage = open.stage
        <4>1. session[c].stage \notin Over
          BY <2>2 DEF Over
        <4>2. U!Input(c) # <<>> /\ U!Consumes(c, open)
          BY <2>2, <2>4
        <4> QED
          BY <2>1, <2>4, <4>1, <4>2, ConsumesFirst
      <3>2. Concerns(c)
        BY <1>1, <2>2, <3>1 DEF Concerns
      <3> QED
        BY <1>2, <2>1, <3>1, <3>2
    <2> QED
      BY <2>3, <2>4
  <1> QED
    BY <1>3, <1>4, <1>5

\* The client sends the next thing of its script.
LEMMA SendsKeep == ASSUME UpgradeInv, NEW c \in Conn, U!Sends(c) PROVE UpgradeInv'
PROOF
  <1>1. /\ DOMAIN session = Conn /\ DOMAIN wire = Conn /\ DOMAIN script = Conn
        /\ session[c] \in Sessions /\ ConnectionOk(session[c], wire[c], script[c])
        /\ script[c] # <<>> /\ Head(script[c]) \notin U!Answers
        /\ session' = session /\ wire' = [wire EXCEPT ![c] = Append(@, Head(script[c]))]
        /\ script' = [script EXCEPT ![c] = Tail(@)]
    BY DEF UpgradeInv, ConnectionOk, U!Sends
  <1>2. /\ Concerns(c) /\ session'[c] = session[c]
        /\ wire'[c] = Append(wire[c], Head(script[c])) /\ script'[c] = Tail(script[c])
    BY <1>1 DEF Concerns
  <1>3. CASE session[c].stage \in Over \/ session[c].request
    <2>1. ConnectionOk(session'[c], wire'[c], script'[c])
      BY <1>1, <1>2, <1>3 DEF ConnectionOk
    <2> QED
      BY <1>2, <2>1, OneConnection
  <1>4. CASE ~(session[c].stage \in Over \/ session[c].request)
    <2> DEFINE b == session[c].buffer
               item == Head(script[c])
    <2>1. wire[c] \in Seq(Sent) /\ Fits(b \o wire[c], script[c]) /\ b \in Seq(Sent)
      BY <1>1, <1>4 DEF ConnectionOk, Sessions
    <2>2. Fits(Append(b \o wire[c], item), Tail(script[c])) /\ item \in Sent
      BY <1>1, <2>1, FitsOn
    <2> HIDE DEF item, b
    <2>3. b \o Append(wire[c], item) = Append(b \o wire[c], item)
      BY <2>1, <2>2, ConcatAppend
    <2>4. Append(wire[c], item) \in Seq(Sent)
      BY <2>1, <2>2, AppendProperties
    <2>5. ConnectionOk(session[c], Append(wire[c], item), Tail(script[c]))
      BY <1>1, <2>2, <2>3, <2>4 DEF ConnectionOk, b
    <2> QED
      BY <1>2, <2>5, OneConnection DEF item
  <1> QED
    BY <1>3, <1>4

\* Every step keeps the invariant.
LEMMA UpgradeNext == UpgradeInv /\ [U!Next]_(U!vars) => UpgradeInv'
PROOF
  <1> SUFFICES ASSUME UpgradeInv, [U!Next]_(U!vars) PROVE UpgradeInv'
    OBVIOUS
  <1>1. CASE UNCHANGED <<session, wire, script>>
    BY <1>1 DEF UpgradeInv
  <1>2. CASE UNCHANGED U!vars
    BY <1>1, <1>2 DEF U!vars
  <1>3. CASE U!OnAcceptError
    BY <1>1, <1>3 DEF U!OnAcceptError
  <1>4. ASSUME NEW c \in Conn, U!Accepts(c) \/ U!Handler(c) \/ U!Connect(c) \/ U!Sends(c) \/ U!Leaves(c)
        PROVE  UpgradeInv'
    <2>1. CASE U!Accepts(c) \/ U!Connect(c)
      BY <2>1, AcceptsKeep DEF U!Accepts
    <2>2. CASE U!Handler(c)
      BY <2>2, DetectKeeps, HandlersKeep, EndsKeep DEF U!Handler
    <2>3. CASE U!Sends(c)
      BY <2>3, SendsKeep
    <2>4. CASE U!Leaves(c)
      BY <1>1, <2>4 DEF U!Leaves
    <2> QED
      BY <1>4, <2>1, <2>2, <2>3, <2>4
  <1> QED
    BY <1>2, <1>3, <1>4 DEF U!Next

\* A client that waits for an answer has sent what the server waits for.
LEMMA SentIsFound == UpgradeInv => U!NobodyWaits
PROOF
  <1> SUFFICES ASSUME UpgradeInv, NEW c \in Conn,
                      session[c].stage \in U!Stages, ~(U!At(c, "accept") /\ session[c].request),
                      script[c] # <<>>, Head(script[c]) \in U!Answers
               PROVE  U!Input(c) # <<>>
    BY DEF U!NobodyWaits
  <1>1. session[c].stage \notin Over /\ ~session[c].request
    BY DEF UpgradeInv, ConnectionOk, U!At, U!Stages, Over
  <1>2. Fits(U!Input(c), script[c])
    BY <1>1, OnItsWay
  <1> QED
    BY <1>2, FitsOn

\* What the library does is a step of the connections, or leaves them alone.
LEMMA UpgradeBehaviour == LibrarySpec => U!Init /\ [][U!Next]_(U!vars)
PROOF
  <1>1. LibraryInit => U!Init
    BY DEF LibraryInit
  <1>2. [LibraryNext]_<<part, vars, upgrade, pair, options>> => [U!Next]_(U!vars)
    BY DEF LibraryNext, U!vars, upgrade
  <1> QED
    BY <1>1, <1>2, PTL DEF LibrarySpec

(***************************************************************************)
(* Client and server never wait for each other on the way to a websocket   *)
(* session, whichever listener accepts, however much the first look reads  *)
(* and wherever a handshake stops.                                         *)
(***************************************************************************)
THEOREM NobodyIsLeftWaiting == LibrarySpec => []NobodyWaits
PROOF
  <1>1. UpgradeInv => NobodyWaits
    BY SentIsFound DEF NobodyWaits
  <1> QED
    BY <1>1, UpgradeInit, UpgradeNext, UpgradeBehaviour, PTL

-----------------------------------------------------------------------------
(***************************************************************************)
(* The pair of TCP ends.  What an end that opens has seen of the other:    *)
(* only an SSL end starts a handshake, only an SSL end that is in it sends *)
(* what completes the handshake of the other, and so an SSL end that is in *)
(* a status has an SSL end on the other side.                              *)
(***************************************************************************)
Item == {"hello", "server_hello", "finished", "alert", "secret", "data"}

PairTyped ==
    /\ secure \in [P!Ends -> BOOLEAN]
    /\ shown \in [P!Ends -> BOOLEAN]
    /\ DOMAIN stage = P!Ends
    /\ pair_wire \in [P!Ends -> Seq(Item)]

Completes == {"server_hello", "finished"}
ComesFromSecure(e, q) == \A i \in 1 .. Len(q) : q[i] \in Completes => secure[P!Other(e)]

PairInv ==
    /\ PairTyped
    /\ \A e \in P!Ends :
          /\ stage[e] = "handshake" => secure[e]
          /\ ComesFromSecure(e, pair_wire[e])
          /\ shown[e] /\ secure[e] => secure[P!Other(e)]

\* There are two ends, each the other of the other.
LEMMA TwoEnds ==
    /\ P!Ends = {"client", "server"}
    /\ P!Other("client") = "server" /\ P!Other("server") = "client"
PROOF
  <1> QED
    BY DEF P!Ends, P!Other

\* What has been received, and what is added to what has been sent.
LEMMA WireKept ==
    ASSUME NEW e, NEW q \in Seq(Item), ComesFromSecure(e, q)
    PROVE  /\ ComesFromSecure(e, <<>>)
           /\ q # <<>> => Tail(q) \in Seq(Item) /\ ComesFromSecure(e, Tail(q))
           /\ \A m \in Item : (m \in Completes => secure[P!Other(e)]) =>
                 q \o <<m>> \in Seq(Item) /\ ComesFromSecure(e, q \o <<m>>)
PROOF
  <1>1. ComesFromSecure(e, <<>>)
    BY DEF ComesFromSecure
  <1>2. ASSUME q # <<>>
        PROVE  Tail(q) \in Seq(Item) /\ ComesFromSecure(e, Tail(q))
    <2>1. /\ Tail(q) \in Seq(Item)
          /\ \A i \in 1 .. Len(Tail(q)) : i + 1 \in 1 .. Len(q) /\ Tail(q)[i] = q[i + 1]
      BY <1>2
    <2> QED
      BY <2>1 DEF ComesFromSecure
  <1>3. ASSUME NEW m \in Item, m \in Completes => secure[P!Other(e)]
        PROVE  q \o <<m>> \in Seq(Item) /\ ComesFromSecure(e, q \o <<m>>)
    <2>1. q \o <<m>> = Append(q, m)
      BY AppendIsConcat
    <2>2. Append(q, m) \in Seq(Item) /\ Len(Append(q, m)) = Len(q) + 1 /\ Len(q) \in Nat
      OBVIOUS
    <2>3. ASSUME NEW i \in 1 .. Len(Append(q, m))
          PROVE  (i \in 1 .. Len(q) /\ Append(q, m)[i] = q[i]) \/ Append(q, m)[i] = m
      <3>1. CASE i = Len(q) + 1
        BY <3>1, AppendProperties
      <3>2. CASE i \in 1 .. Len(q)
        BY <3>2, AppendProperties
      <3> QED
        BY <2>2, <3>1, <3>2
    <2> QED
      BY <1>3, <2>1, <2>2, <2>3 DEF ComesFromSecure
  <1> QED
    BY <1>1, <1>2, <1>3

\* How a step changes what is on the wires, if what it adds is honest.
WireStep ==
    /\ pair_wire' = [d \in P!Ends |-> pair_wire'[d]]
    /\ \A d \in P!Ends :
          \/ pair_wire'[d] = pair_wire[d]
          \/ pair_wire'[d] = <<>>
          \/ pair_wire[d] # <<>> /\ pair_wire'[d] = Tail(pair_wire[d])
          \/ \E m \in Item : /\ m \in Completes => secure[P!Other(d)]
                             /\ pair_wire'[d] = pair_wire[d] \o <<m>>

\* Such a step, if it lets an end start a handshake or open only as it may, keeps the invariant.
LEMMA WireStepKeeps ==
    ASSUME PairInv, WireStep, secure' = secure,
           shown' \in [P!Ends -> BOOLEAN], DOMAIN stage' = P!Ends,
           \A e \in P!Ends :
              /\ stage'[e] = "handshake" => secure[e]
              /\ shown'[e] /\ secure[e] => secure[P!Other(e)]
    PROVE  PairInv'
PROOF
  <1>1. ASSUME NEW d \in P!Ends
        PROVE  pair_wire'[d] \in Seq(Item) /\ ComesFromSecure(d, pair_wire'[d])
    <2>1. pair_wire[d] \in Seq(Item) /\ ComesFromSecure(d, pair_wire[d])
      BY DEF PairInv, PairTyped
    <2>2. <<>> \in Seq(Item)
      OBVIOUS
    <2>3. /\ ComesFromSecure(d, <<>>)
          /\ pair_wire[d] # <<>> => Tail(pair_wire[d]) \in Seq(Item) /\ ComesFromSecure(d, Tail(pair_wire[d]))
          /\ \A m \in Item : (m \in Completes => secure[P!Other(d)]) =>
                pair_wire[d] \o <<m>> \in Seq(Item) /\ ComesFromSecure(d, pair_wire[d] \o <<m>>)
      BY <2>1, WireKept
    <2>4. CASE \/ pair_wire'[d] \in {pair_wire[d], <<>>}
               \/ pair_wire[d] # <<>> /\ pair_wire'[d] = Tail(pair_wire[d])
      BY <2>1, <2>2, <2>3, <2>4, Zenon
    <2>5. CASE \E m \in Item : /\ m \in Completes => secure[P!Other(d)]
                               /\ pair_wire'[d] = pair_wire[d] \o <<m>>
      BY <2>3, <2>5, Zenon
    <2>6. \/ pair_wire'[d] = pair_wire[d]
          \/ pair_wire'[d] = <<>>
          \/ pair_wire[d] # <<>> /\ pair_wire'[d] = Tail(pair_wire[d])
          \/ \E m \in Item : /\ m \in Completes => secure[P!Other(d)]
                             /\ pair_wire'[d] = pair_wire[d] \o <<m>>
      BY <1>1 DEF WireStep
    <2> QED
      BY <2>4, <2>5, <2>6, Zenon
  <1>2. pair_wire' \in [P!Ends -> Seq(Item)]
    BY <1>1 DEF WireStep
  <1>3. \A d \in P!Ends : ComesFromSecure(d, pair_wire[d])'
    BY <1>1 DEF ComesFromSecure
  <1> QED
    BY <1>2, <1>3 DEF PairInv, PairTyped

\* The initial pair.
LEMMA PairInit == P!Init => PairInv
PROOF
  <1> SUFFICES ASSUME P!Init PROVE PairInv
    OBVIOUS
  <1>1. Len(<<>>) = 0 /\ <<>> \in Seq(Item)
    OBVIOUS
  <1>2. PairTyped
    BY <1>1 DEF P!Init, PairTyped
  <1>3. \A e \in P!Ends : pair_wire[e] = <<>> /\ stage[e] = "none" /\ shown[e] = FALSE
    BY DEF P!Init
  <1> QED
    BY <1>1, <1>2, <1>3 DEF PairInv, ComesFromSecure

\* The steps at which an end begins, or its handshake goes on.
LEMMA PairHandshakes ==
    ASSUME PairInv, P!OpenedCb \/ P!OnRun \/ P!SaysHello \/ P!OnHandshakeCb \/ P!OnHandshake
    PROVE  PairInv'
PROOF
  <1>1. /\ P!Ends = {"client", "server"} /\ P!Other("client") = "server" /\ P!Other("server") = "client"
        /\ PairTyped
        /\ \A e \in P!Ends : pair_wire[e] \in Seq(Item) /\ (shown[e] /\ secure[e] => secure[P!Other(e)])
                             /\ (stage[e] = "handshake" => secure[e])
    BY TwoEnds DEF PairInv, PairTyped
  <1>2. secure' = secure /\ shown' \in [P!Ends -> BOOLEAN] /\ DOMAIN stage' = P!Ends
    BY <1>1 DEF PairTyped, P!OpenedCb, P!OnRun, P!SaysHello, P!OnHandshakeCb, P!OnHandshake, P!Opens,
                P!Handshakes
  <1>3. ASSUME NEW e \in P!Ends, P!Finds(e, "server_hello") \/ P!Finds(e, "finished")
        PROVE  secure[P!Other(e)] /\ pair_wire[e] # <<>>
    <2>1. pair_wire[e] # <<>> /\ Head(pair_wire[e]) \in Completes
      BY <1>3 DEF P!Finds, Completes
    <2>2. 1 \in 1 .. Len(pair_wire[e]) /\ pair_wire[e][1] = Head(pair_wire[e])
      BY <1>1, <2>1
    <2> QED
      BY <2>1, <2>2 DEF PairInv, ComesFromSecure
  <1>4. WireStep
    <2>1. pair_wire' = [d \in P!Ends |-> pair_wire'[d]]
      BY <1>1 DEF PairTyped, P!OpenedCb, P!OnRun, P!SaysHello, P!OnHandshakeCb, P!OnHandshake, P!Sent, P!Rest
    <2>2. CASE P!OpenedCb
      <3>1. "hello" \in Item /\ "hello" \notin Completes
        BY DEF Item, Completes
      <3>2. /\ pair_wire'["client"] = pair_wire["client"]
            /\ \/ pair_wire'["server"] = pair_wire["server"]
               \/ pair_wire'["server"] = pair_wire["server"] \o <<"hello">>
        BY <1>1, <2>2 DEF PairTyped, P!OpenedCb, P!Sent
      <3> QED
        BY <1>1, <2>1, <3>1, <3>2 DEF WireStep
    <2>3. CASE P!OnRun
      BY <1>1, <2>1, <2>3 DEF WireStep, P!OnRun
    <2>4. CASE P!SaysHello
      <3>1. secure["server"] /\ pair_wire["server"] # <<>> /\ "server_hello" \in Item
        BY <1>1, <2>4 DEF Item, P!SaysHello, P!Finds
      <3>2. /\ pair_wire'["server"] = Tail(pair_wire["server"])
            /\ \/ pair_wire'["client"] = pair_wire["client"]
               \/ pair_wire'["client"] = pair_wire["client"] \o <<"server_hello">>
        BY <1>1, <2>4 DEF PairTyped, P!SaysHello, P!Sent, P!Rest
      <3> QED
        BY <1>1, <2>1, <3>1, <3>2 DEF WireStep
    <2>5. CASE P!OnHandshakeCb
      <3>1. secure["client"] /\ pair_wire["client"] # <<>> /\ "finished" \in Item
        BY <1>1, <2>5 DEF Item, P!OnHandshakeCb, P!Finds
      <3>2. /\ pair_wire'["client"] = Tail(pair_wire["client"])
            /\ \/ pair_wire'["server"] = pair_wire["server"]
               \/ pair_wire'["server"] = pair_wire["server"] \o <<"finished">>
        BY <1>1, <2>5 DEF PairTyped, P!OnHandshakeCb, P!Sent, P!Rest
      <3> QED
        BY <1>1, <2>1, <3>1, <3>2 DEF WireStep
    <2>6. CASE P!OnHandshake
      <3>1. pair_wire["server"] # <<>>
        BY <1>1, <1>3, <2>6 DEF P!OnHandshake
      <3> QED
        BY <1>1, <2>1, <2>6, <3>1 DEF PairTyped, WireStep, P!OnHandshake, P!Rest
    <2> QED
      BY <2>2, <2>3, <2>4, <2>5, <2>6
  <1>5. \A e \in P!Ends : /\ stage'[e] = "handshake" => secure[e]
                          /\ shown'[e] /\ secure[e] => secure[P!Other(e)]
    <2>1. CASE P!OpenedCb \/ P!OnRun
      BY <1>1, <2>1 DEF PairTyped, P!OpenedCb, P!OnRun, P!Opens, P!Handshakes
    <2>2. CASE P!SaysHello
      BY <1>1, <2>2 DEF P!SaysHello
    <2>3. CASE P!OnHandshakeCb
      BY <1>1, <1>3, <2>3 DEF PairTyped, P!OnHandshakeCb, P!Opens
    <2>4. CASE P!OnHandshake
      BY <1>1, <1>3, <2>4 DEF PairTyped, P!OnHandshake, P!Opens
    <2> QED
      BY <2>1, <2>2, <2>3, <2>4
  <1> QED
    BY <1>2, <1>4, <1>5, WireStepKeeps

\* The steps at which an end fails, reads, writes or closes.
LEMMA PairSteps ==
    ASSUME PairInv, NEW e \in P!Ends,
           \/ P!OnHandshakeError \/ P!OnHandshakeCbError \/ P!Destroyed
           \/ P!OnRead(e) \/ P!OnReadError(e)
           \/ P!Closing(e) \/ P!UserWrites(e) \/ P!UserCloses(e) \/ P!Resets(e)
    PROVE  PairInv'
PROOF
  <1>1. /\ P!Ends = {"client", "server"} /\ P!Other("client") = "server" /\ P!Other("server") = "client"
        /\ PairTyped
        /\ \A d \in P!Ends : /\ pair_wire[d] \in Seq(Item)
                             /\ shown[d] /\ secure[d] => secure[P!Other(d)]
                             /\ stage[d] = "handshake" => secure[d]
    BY TwoEnds DEF PairInv, PairTyped
  <1>2. /\ secure' = secure /\ shown' \in [P!Ends -> BOOLEAN] /\ DOMAIN stage' = P!Ends
        /\ \A d \in P!Ends : /\ shown'[d] => shown[d]
                             /\ stage'[d] = stage[d] \/ stage'[d] = "over"
    <2>1. CASE P!OnHandshakeError
      BY <1>1, <2>1 DEF PairTyped, P!OnHandshakeError, P!FailsHandshake, P!Fail, P!Unshown
    <2>2. CASE P!OnReadError(e)
      BY <1>1, <2>2 DEF PairTyped, P!OnReadError, P!Fail, P!Unshown
    <2>3. CASE P!UserCloses(e)
      BY <1>1, <2>3 DEF PairTyped, P!UserCloses
    <2>4. CASE \/ P!OnHandshakeCbError \/ P!Destroyed \/ P!OnRead(e)
               \/ P!Closing(e) \/ P!UserWrites(e) \/ P!Resets(e)
      BY <1>1, <2>4
         DEF PairTyped, P!OnHandshakeCbError, P!Destroyed, P!OnRead, P!Closing, P!UserWrites, P!Resets
    <2> QED
      BY <2>1, <2>2, <2>3, <2>4
  <1>3. WireStep
    <2>1. CASE UNCHANGED pair_wire
      BY <1>1, <2>1 DEF PairTyped, WireStep
    <2>2. ASSUME NEW d \in P!Ends, pair_wire[d] # <<>>, pair_wire' = P!Rest(d)
          PROVE  WireStep
      BY <1>1, <2>2 DEF PairTyped, WireStep, P!Rest
    <2>3. ASSUME NEW d \in P!Ends, pair_wire' = [pair_wire EXCEPT ![d] = <<>>]
          PROVE  WireStep
      BY <1>1, <2>3 DEF PairTyped, WireStep
    <2>4. ASSUME NEW d \in P!Ends, P!Alerts(d)
          PROVE  WireStep
      <3>1. CASE pair_wire[d] = <<>>
        BY <2>1, <2>4, <3>1 DEF P!Alerts
      <3>2. CASE pair_wire[d] # <<>>
        <4>1. pair_wire' = P!Sent(P!Rest(d), d, <<"alert">>)
          BY <2>4, <3>2 DEF P!Alerts
        <4>2. /\ pair_wire' = [f \in P!Ends |-> pair_wire'[f]]
              /\ pair_wire'[d] = Tail(pair_wire[d])
              /\ \/ pair_wire'[P!Other(d)] = pair_wire[P!Other(d)]
                 \/ pair_wire'[P!Other(d)] = pair_wire[P!Other(d)] \o <<"alert">>
          BY <1>1, <4>1 DEF PairTyped, P!Sent, P!Rest
        <4>3. "alert" \in Item /\ "alert" \notin Completes
          BY DEF Completes, Item
        <4> QED
          BY <1>1, <3>2, <4>2, <4>3 DEF WireStep
      <3> QED
        BY <3>1, <3>2
    <2>5. CASE P!UserWrites(e)
      <3>1. PICK m \in {"secret", "data"} : pair_wire' = P!Sent(pair_wire, e, <<m>>)
        BY <2>5 DEF P!UserWrites
      <3>2. m \in Item /\ m \notin Completes
        BY DEF Completes, Item
      <3>3. /\ pair_wire' = [f \in P!Ends |-> pair_wire'[f]]
            /\ pair_wire'[e] = pair_wire[e]
            /\ \/ pair_wire'[P!Other(e)] = pair_wire[P!Other(e)]
               \/ pair_wire'[P!Other(e)] = pair_wire[P!Other(e)] \o <<m>>
        BY <1>1, <3>1 DEF PairTyped, P!Sent
      <3> QED
        BY <1>1, <3>2, <3>3 DEF WireStep
    <2>6. CASE P!OnHandshakeError \/ P!OnHandshakeCbError
      BY <1>1, <2>4, <2>6 DEF P!OnHandshakeError, P!OnHandshakeCbError
    <2>7. CASE P!OnRead(e)
      BY <2>2, <2>7 DEF P!OnRead, P!Deciphers
    <2>8. CASE P!Closing(e) \/ P!Resets(e)
      BY <2>1, <2>3, <2>8 DEF P!Closing, P!Resets
    <2>9. CASE P!Destroyed \/ P!OnReadError(e) \/ P!UserCloses(e)
      BY <2>1, <2>9 DEF P!Destroyed, P!OnReadError, P!UserCloses
    <2> QED
      BY <2>5, <2>6, <2>7, <2>8, <2>9
  <1> QED
    BY <1>1, <1>2, <1>3, WireStepKeeps

\* Every step of the pair keeps the invariant.
LEMMA PairNext == PairInv /\ [P!Next]_(P!vars) => PairInv'
PROOF
  <1> SUFFICES ASSUME PairInv, [P!Next]_(P!vars) PROVE PairInv'
    OBVIOUS
  <1>1. CASE UNCHANGED P!vars
    BY <1>1 DEF P!vars, PairInv, PairTyped, ComesFromSecure
  <1>2. CASE P!Next
    BY <1>2, PairHandshakes, PairSteps DEF P!Next, P!Handler, P!ClientHandler, P!ServerHandler
  <1> QED
    BY <1>1, <1>2

\* Of two ends that are shown both are plain, or both are SSL ends.
LEMMA ShownAgree == PairInv => P!BothShownAgree
PROOF
  <1> QED
    BY TwoEnds DEF PairInv, PairTyped, P!BothShownAgree

\* What the library does is a step of the pair, or leaves it alone.
LEMMA PairBehaviour == LibrarySpec => P!Init /\ [][P!Next]_(P!vars)
PROOF
  <1>1. LibraryInit => P!Init
    BY DEF LibraryInit
  <1>2. [LibraryNext]_<<part, vars, upgrade, pair, options>> => [P!Next]_(P!vars)
    BY DEF LibraryNext, P!vars, pair
  <1> QED
    BY <1>1, <1>2, PTL DEF LibrarySpec

(***************************************************************************)
(* Of a plain end and an SSL end of one TCP connection at most one gets so *)
(* far that its users see it: the SSL end waits for a handshake that the   *)
(* plain one neither starts nor completes.                                 *)
(***************************************************************************)
THEOREM ShownEndsAgree == LibrarySpec => []BothShownAgree
PROOF
  <1>1. PairInv /\ [P!Next]_(P!vars) => PairInv'
    BY PairNext
  <1>2. PairInv => BothShownAgree
    BY ShownAgree DEF BothShownAgree
  <1> QED
    BY <1>1, <1>2, PairInit, PairBehaviour, PTL

-----------------------------------------------------------------------------
(***************************************************************************)
(* The options.  What has to be known besides AskedIsSet: every device has *)
(* a whole configuration, and the socket of a connection that has not been *)
(* made has no option.                                                     *)
(***************************************************************************)
OneConn == {CHOOSE c \in Conn : TRUE}
Names == {"baudrate", "char_size", "parity", "stopbit", "flow_control"}

OptionsInv ==
    /\ share \in O!KeepAliveOptions \union {O!Default}
    /\ DOMAIN end = OneConn /\ DOMAIN wants = OneConn /\ DOMAIN socket = OneConn
    /\ \A c \in OneConn : end[c] = "none" => socket[c] = O!Default
    /\ device \in [Port -> [Names -> Value]] /\ asked \in [Port -> [Names -> Value]]
    /\ DOMAIN refused = Port
    /\ listed \in SUBSET Port
    /\ O!AskedIsSet

\* The options that are set, in their order, are all there are.
LEMMA OrderNames ==
    /\ {O!Order[i] : i \in DOMAIN O!Order} = Names
    /\ O!Configs = [Names -> Value]
PROOF
  <1>1. DOMAIN O!Order = 1 .. 5
    BY DEF O!Order
  <1>2. {O!Order[i] : i \in 1 .. 5} = Names
    BY DEF O!Order, Names
  <1> QED
    BY <1>1, <1>2 DEF O!Configs

\* Before anything is opened.
LEMMA OptionsInit == O!Init => OptionsInv
PROOF
  <1> SUFFICES ASSUME O!Init PROVE OptionsInv
    OBVIOUS
  <1>1. device \in [Port -> {[o \in Names |-> v] : v \in Value}]
    BY OrderNames DEF O!Init
  <1>2. device \in [Port -> [Names -> Value]] /\ asked = device
    BY <1>1 DEF O!Init
  <1>3. listed = {} /\ configs = [p \in {} |-> p] /\ DOMAIN refused = Port
    BY DEF O!Init
  <1>4. /\ share = O!Default
        /\ end = [c \in OneConn |-> "none"]
        /\ wants = [c \in OneConn |-> O!Default]
        /\ socket = [c \in OneConn |-> O!Default]
    BY DEF O!Init, OneConn
  <1>5. configs = [p \in listed |-> device[p]]
    BY <1>3
  <1>6. O!AskedIsSet
    BY <1>3, <1>4, <1>5 DEF O!AskedIsSet, OneConn
  <1> QED
    BY <1>2, <1>3, <1>4, <1>6 DEF OptionsInv

\* What the handlers of a TCP connection do keeps it.
LEMMA OptionsTcp == OptionsInv /\ O!NextTcp => OptionsInv'
PROOF
  <1> SUFFICES ASSUME OptionsInv, O!NextTcp PROVE OptionsInv'
    OBVIOUS
  <1>1. UNCHANGED <<device, listed, asked, refused, configs>>
    BY DEF O!NextTcp, O!MessageOpenServer, O!OnOpen, O!MessageOpenClient, O!InitClient, O!serial
  <1>2. /\ share' \in O!KeepAliveOptions \union {O!Default}
        /\ DOMAIN end' = OneConn /\ DOMAIN wants' = OneConn /\ DOMAIN socket' = OneConn
        /\ \A c \in OneConn : /\ end'[c] = "none" => socket'[c] = O!Default
                              /\ end'[c] = "server" =>
                                    /\ socket'[c].on = wants'[c].on
                                    /\ wants'[c].on => socket'[c].idle = wants'[c].idle
    <2>1. /\ share \in O!KeepAliveOptions \union {O!Default}
          /\ DOMAIN end = OneConn /\ DOMAIN wants = OneConn /\ DOMAIN socket = OneConn
          /\ \A c \in OneConn : /\ end[c] = "none" => socket[c] = O!Default
                                /\ end[c] = "server" =>
                                      /\ socket[c].on = wants[c].on
                                      /\ wants[c].on => socket[c].idle = wants[c].idle
      BY DEF OptionsInv, O!AskedIsSet, OneConn
    <2>2. CASE O!MessageOpenServer
      BY <2>1, <2>2 DEF O!MessageOpenServer, O!GetKeepAlive, O!NoKeepAlive
    <2>3. CASE \E c \in OneConn : O!OnOpen(c)
      <3>1. PICK c \in OneConn : O!OnOpen(c)
        BY <2>3
      <3>2. /\ end[c] = "none" /\ share \in O!KeepAliveOptions /\ share' = share
            /\ end' = [end EXCEPT ![c] = "server"]
            /\ wants' = [wants EXCEPT ![c] = share]
            /\ socket' = IF share.on
                         THEN [socket EXCEPT ![c] =
                                  O!KeepAlive(@, share.idle, share.interval, share.count, TRUE)]
                         ELSE socket
        BY <2>1, <3>1 DEF O!OnOpen
      <3>3. socket'[c].on = share.on /\ (share.on => socket'[c].idle = share.idle)
        <4>1. socket[c] = [on |-> FALSE, idle |-> 0, count |-> 0, interval |-> 0]
          BY <2>1, <3>2 DEF O!Default
        <4>2. share.on \in BOOLEAN
          BY <3>2 DEF O!KeepAliveOptions
        <4>3. CASE share.on
          BY <2>1, <3>2, <4>1, <4>3 DEF O!KeepAlive, O!TcpOptions, O!EnableKeepAlive
        <4>4. CASE ~share.on
          <5>1. share.on = FALSE
            BY <4>2, <4>4, Zenon
          <5>2. socket' = socket /\ socket[c].on = FALSE
            BY <3>2, <4>1, <4>4
          <5> QED
            BY <5>1, <5>2, Zenon
        <4> QED
          BY <4>3, <4>4
      <3> QED
        BY <2>1, <3>2, <3>3
    <2>4. CASE \E c \in OneConn : O!MessageOpenClient(c)
      BY <2>1, <2>4 DEF O!MessageOpenClient
    <2>5. CASE \E c \in OneConn : O!InitClient(c)
      BY <2>1, <2>5 DEF O!InitClient
    <2> QED
      BY <2>2, <2>3, <2>4, <2>5 DEF O!NextTcp, OneConn
  <1> QED
    BY <1>1, <1>2 DEF OptionsInv, O!AskedIsSet, OneConn

\* A port is opened or closed.
LEMMA OptionsSerial == OptionsInv /\ O!NextSerial => OptionsInv'
PROOF
  <1> SUFFICES ASSUME OptionsInv, O!NextSerial PROVE OptionsInv'
    OBVIOUS
  <1>1. /\ device \in [Port -> [Names -> Value]] /\ asked \in [Port -> [Names -> Value]]
        /\ DOMAIN refused = Port /\ listed \in SUBSET Port
        /\ \A p \in listed : /\ device[p] = asked[p] \/ refused[p]
                             /\ device[p]["baudrate"] = asked[p]["baudrate"]
    BY DEF OptionsInv, O!AskedIsSet
  <1>2. UNCHANGED <<share, end, wants, socket>>
    BY DEF O!NextSerial, O!SerialOpen, O!SerialClose, O!tcp
  <1>3. /\ device' \in [Port -> [Names -> Value]] /\ asked' \in [Port -> [Names -> Value]]
        /\ DOMAIN refused' = Port /\ listed' \in SUBSET Port
        /\ \A p \in listed' : /\ device'[p] = asked'[p] \/ refused'[p]
                              /\ device'[p]["baudrate"] = asked'[p]["baudrate"]
    <2>1. CASE \E p \in Port : O!SerialOpen(p)
      <3>1. PICK p \in Port : O!SerialOpen(p)
        BY <2>1
      <3>2. PICK config \in [Names -> Value] :
               \/ refused' = [refused EXCEPT ![p] = TRUE] /\ UNCHANGED <<device, listed, asked>>
               \/ /\ asked' = [asked EXCEPT ![p] = config]
                  /\ \E some \in {{}} \union {{n} : n \in Names} :
                        LET done == O!Config(some)
                            baud == O!SetOption(device[p], config, "baudrate", {})
                        IN  /\ device' = [device EXCEPT ![p] = O!Tried(baud, config, done.names, some)]
                            /\ refused' = [refused EXCEPT ![p] = done.error]
                            /\ listed' = listed \union {p}
        <4>1. {{O!Order[i]} : i \in DOMAIN O!Order} = {{n} : n \in Names}
          BY OrderNames
        <4> QED
          BY <3>1, <4>1, OrderNames DEF O!SerialOpen
      <3>3. CASE refused' = [refused EXCEPT ![p] = TRUE] /\ UNCHANGED <<device, listed, asked>>
        BY <1>1, <3>3
      <3>4. ASSUME NEW some \in {{}} \union {{n} : n \in Names},
                   asked' = [asked EXCEPT ![p] = config],
                   device' = [device EXCEPT ![p] =
                                 O!Tried(O!SetOption(device[p], config, "baudrate", {}), config,
                                         O!Config(some).names, some)],
                   refused' = [refused EXCEPT ![p] = O!Config(some).error],
                   listed' = listed \union {p}
            PROVE  /\ device' \in [Port -> [Names -> Value]] /\ asked' \in [Port -> [Names -> Value]]
                   /\ DOMAIN refused' = Port /\ listed' \in SUBSET Port
                   /\ \A d \in listed' : /\ device'[d] = asked'[d] \/ refused'[d]
                                         /\ device'[d]["baudrate"] = asked'[d]["baudrate"]
        <4>1. PICK baud \in [Names -> Value] :
                 /\ baud = O!SetOption(device[p], config, "baudrate", {})
                 /\ baud["baudrate"] = config["baudrate"]
          <5>1. O!SetOption(device[p], config, "baudrate", {}) =
                   [device[p] EXCEPT !["baudrate"] = config["baudrate"]]
            BY DEF O!SetOption
          <5>2. device[p] \in [Names -> Value] /\ config["baudrate"] \in Value /\ "baudrate" \in Names
            BY <1>1, <3>2 DEF Names
          <5>3. [device[p] EXCEPT !["baudrate"] = config["baudrate"]] \in [Names -> Value]
            BY <5>2
          <5>4. [device[p] EXCEPT !["baudrate"] = config["baudrate"]]["baudrate"] = config["baudrate"]
            BY <5>2
          <5> QED
            BY <5>1, <5>3, <5>4, Zenon
        <4>2. PICK set \in [Names -> Value] :
                 /\ device' = [device EXCEPT ![p] = set]
                 /\ \A n \in Names : set[n] = IF n \in O!Config(some).names /\ n \notin some
                                              THEN config[n] ELSE baud[n]
          <5>1. O!Tried(baud, config, O!Config(some).names, some) =
                   [n \in Names |-> IF n \in O!Config(some).names /\ n \notin some
                                    THEN config[n] ELSE baud[n]]
            BY DEF O!Tried, O!SetOption
          <5>2. [n \in Names |-> IF n \in O!Config(some).names /\ n \notin some
                                  THEN config[n] ELSE baud[n]] \in [Names -> Value]
            BY <3>2, <4>1
          <5> QED
            BY <3>4, <4>1, <5>1, <5>2
        <4>3. some = {} => /\ O!Config(some).names = Names
                           /\ O!Config(some).error = FALSE
          BY OrderNames DEF O!Config
        <4>4. some # {} => O!Config(some).error = TRUE
          <5>1. ASSUME NEW n \in Names, some = {n}
                PROVE  {i \in DOMAIN O!Order : O!Order[i] \in some} # {}
            BY <5>1, OrderNames
          <5>2. some # {} => {i \in DOMAIN O!Order : O!Order[i] \in some} # {}
            BY <5>1
          <5> QED
            BY <5>2 DEF O!Config
        <4>5. some = {} => set = config
          BY <4>2, <4>3
        <4>6. set["baudrate"] = config["baudrate"]
          BY <4>1, <4>2 DEF Names
        <4> QED
          BY <1>1, <3>4, <4>2, <4>4, <4>5, <4>6
      <3> QED
        BY <3>2, <3>3, <3>4
    <2>2. CASE \E p \in Port : O!SerialClose(p)
      BY <1>1, <2>2 DEF O!SerialClose
    <2> QED
      BY <2>1, <2>2 DEF O!NextSerial
  <1>4. configs' = [p \in listed' |-> device'[p]]
    <2>1. configs' = [p \in listed' |-> [name \in DOMAIN device'[p] |-> device'[p][name]]]
      BY DEF O!NextSerial, O!SerialOpen, O!SerialClose, O!SerialStatus, O!GetConfig, O!GetOption
    <2>2. \A p \in listed' : device'[p] = [name \in DOMAIN device'[p] |-> device'[p][name]]
      BY <1>3
    <2> QED
      BY <2>1, <2>2
  <1> QED
    BY <1>2, <1>3, <1>4 DEF OptionsInv, O!AskedIsSet

\* What the library does is a step of the options, or leaves them alone.
LEMMA OptionsBehaviour == LibrarySpec => O!Init /\ [][O!Next]_(O!vars)
PROOF
  <1>1. LibraryInit => O!Init
    BY DEF LibraryInit
  <1>2. [LibraryNext]_<<part, vars, upgrade, pair, options>> => [O!Next]_(O!vars)
    BY DEF LibraryNext, O!vars, O!Next, options
  <1> QED
    BY <1>1, <1>2, PTL DEF LibrarySpec

(***************************************************************************)
(* No option is lost silently: a port that is listed has the configuration *)
(* that was asked for or its user was told, the status shows what the      *)
(* devices have, and the connections of a TCP server have keepalive, after *)
(* the idle time that was asked for, exactly if it was asked for.          *)
(***************************************************************************)
THEOREM OptionsAreSet == LibrarySpec => []AskedIsSet
PROOF
  <1>1. OptionsInv /\ [O!Next]_(O!vars) => OptionsInv'
    <2> SUFFICES ASSUME OptionsInv, [O!Next]_(O!vars) PROVE OptionsInv'
      OBVIOUS
    <2>1. CASE UNCHANGED O!vars
      BY <2>1 DEF O!vars, OptionsInv, O!AskedIsSet
    <2> QED
      BY <2>1, OptionsTcp, OptionsSerial DEF O!Next
  <1>2. OptionsInv => AskedIsSet
    BY DEF OptionsInv, AskedIsSet
  <1> QED
    BY <1>1, <1>2, OptionsInit, OptionsBehaviour, PTL

=============================================================================
