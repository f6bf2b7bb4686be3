---------------------------- MODULE HubUsersProofs ----------------------------
(***************************************************************************)
(* What users see of the hub, for any number of sessions and messages and  *)
(* any failures: with any number of workers, each author's messages arrive *)
(* in sequence; with one worker, all users see one order, none shows a     *)
(* number of users that is too low, and the hub is a Broadcast.            *)
(***************************************************************************)
EXTENDS PropagatorProofs, HubChannel, SequenceTheorems

-----------------------------------------------------------------------------
Carries(w) == Recorded(frame[w].note)

\* A message of author a, of that type, is about to be posted to r.
Due(r, type, a) ==
    \E w \in Worker :
        /\ frame[w].note.type = type /\ frame[w].note.from = a
        /\ frame[w].at = "snapshot" \/ r \in frame[w].todo

\* A message of author a is being relayed.
Relaying(a) == \E w \in Worker : RelayOf(frame[w].note, a)

\* The number of the last message of a that r has been sent, if it was sent any.
Latest(r, a) == IF Due(r, "relay", a) THEN sent[a] - 1 ELSE sent[a]

LastIs(p, a, n) ==
    \A i \in 1 .. Len(p) :
        RelayOf(p[i], a) /\ (\A k \in 1 .. Len(p) : i < k => ~RelayOf(p[k], a)) => p[i].n = n

(***************************************************************************)
(* What is being written to all is the newest message of its author, whose *)
(* next handler does not run before.                                       *)
(***************************************************************************)
NotesCurrent ==
    /\ \A w \in Worker : Carries(w) =>
          /\ frame[w].at \in {"snapshot", "visit"}
          /\ frame[w].note.from = frame[w].ws /\ frame[w].note.n = sent[frame[w].ws]
          /\ frame[w].note.type = "reply" => frame[w].ws \in Session
    /\ \A w \in Worker : frame[w].then = "echo_app" => frame[w].note.type = "relay"
    /\ \A v, w \in Worker :
          Carries(v) /\ Carries(w) /\ frame[v].note.from = frame[w].note.from => v = w
    /\ \A w \in Worker : \A r \in frame[w].todo : conn[r] \in {"open", "gone"}
    /\ \A r \in Session : conn[r] = "open" => r \in share_

(***************************************************************************)
(* What r has been sent: nothing before it has joined; the messages of     *)
(* each author in sequence, as far as it has relayed any; and no answer    *)
(* that the author has not asked for.                                      *)
(***************************************************************************)
Numbered(p, r) ==
    \A i \in 1 .. Len(p) :
        LET a == p[i].from
        IN  /\ p[i].type = "relay" => p[i].n <= sent[a] /\ (Due(r, "relay", a) => p[i].n < sent[a])
            /\ p[i].type = "reply" =>
                  p[i].n <= sent[a] /\ (Relaying(a) \/ Due(r, "reply", a) => p[i].n < sent[a])

Receives(r) == r \in share_ /\ Locked(r)

Ordered(r) ==
    LET p == Pipeline(r)
    IN  /\ InSequence(p) /\ EchoFollows(p)
        /\ Numbered(p, r)
        /\ Receives(r) => \A a \in Author : LastIs(p, a, Latest(r, a))
        /\ conn[r] \in {"none", "accepting", "refused"} => \A i \in 1 .. Len(p) : ~Recorded(p[i])

AllOrdered == NotesCurrent /\ \A r \in Session : Ordered(r)
-----------------------------------------------------------------------------
(***************************************************************************)
(* What happens to a pipeline: a message is posted at its end; one that    *)
(* users do not see in an order is taken out when it has been written;     *)
(* and what is left in the queue is cut off with the session.              *)
(***************************************************************************)
Without(p, d) == [i \in 1 .. Len(p) - 1 |-> p[IF i < d THEN i ELSE i + 1]]

\* The sequence q is the beginning of p.
CutOff(q, p) == Len(q) <= Len(p) /\ \A i \in 1 .. Len(q) : q[i] = p[i]

\* The places of a sequence that has got longer.
LEMMA Places ==
    ASSUME NEW p \in Seq(Msg), NEW m \in Msg
    PROVE  /\ Append(p, m) \in Seq(Msg) /\ Len(p) \in Nat /\ Len(Append(p, m)) = Len(p) + 1
           /\ \A i \in 1 .. Len(p) : Append(p, m)[i] = p[i] /\ p[i] \in Msg
           /\ Append(p, m)[Len(p) + 1] = m
PROOF
  <1> QED
    OBVIOUS

\* A message that is the next of its author comes in sequence.
LEMMA AppendInSequence ==
    ASSUME NEW p \in Seq(Msg), NEW m \in Msg, InSequence(p),
           \A a \in Author : RelayOf(m, a) => LastIs(p, a, m.n - 1)
    PROVE  InSequence(Append(p, m))
PROOF
  <1> DEFINE q == Append(p, m)
             e == Len(p) + 1
  <1>1. /\ Len(p) \in Nat /\ Len(q) = e /\ q[e] = m
        /\ \A i \in 1 .. Len(p) : q[i] = p[i] /\ p[i] \in Msg
    BY Places
  <1> HIDE DEF q
  <1> SUFFICES ASSUME NEW a \in Author, NEW i \in 1 .. Len(q), NEW j \in 1 .. Len(q),
                      i < j, RelayOf(q[i], a), RelayOf(q[j], a),
                      \A k \in 1 .. Len(q) : i < k /\ k < j => ~RelayOf(q[k], a)
               PROVE  q[j].n = q[i].n + 1
    BY DEF InSequence, q
  <1>2. CASE j \in 1 .. Len(p)
    <2>1. i \in 1 .. Len(p) /\ \A k \in 1 .. Len(p) : i < k /\ k < j => ~RelayOf(p[k], a)
      BY <1>1, <1>2
    <2> QED
      BY <1>1, <1>2, <2>1 DEF InSequence
  <1>3. CASE j = e
    <2>1. i \in 1 .. Len(p) /\ \A k \in 1 .. Len(p) : i < k => ~RelayOf(p[k], a)
      BY <1>1, <1>3
    <2>2. RelayOf(m, a) /\ p[i] \in Msg
      BY <1>1, <1>3, <2>1
    <2>3. p[i].n = m.n - 1
      BY <1>1, <2>1, <2>2 DEF LastIs
    <2> QED
      BY <1>1, <1>3, <2>1, <2>3 DEF Msg
  <1> QED
    BY <1>1, <1>2, <1>3

\* The last message of an author, when another or one of its own is posted.
LEMMA AppendLast ==
    ASSUME NEW p \in Seq(Msg), NEW m \in Msg, NEW a, NEW n
    PROVE  /\ RelayOf(m, a) => LastIs(Append(p, m), a, m.n)
           /\ ~RelayOf(m, a) /\ LastIs(p, a, n) => LastIs(Append(p, m), a, n)
PROOF
  <1> DEFINE q == Append(p, m)
             e == Len(p) + 1
  <1>1. /\ Len(p) \in Nat /\ Len(q) = e /\ q[e] = m
        /\ \A i \in 1 .. Len(p) : q[i] = p[i]
    BY Places
  <1> HIDE DEF q
  <1>2. ASSUME RelayOf(m, a)
        PROVE  LastIs(q, a, m.n)
    <2>1. \A i \in 1 .. Len(q) : i < e => e \in 1 .. Len(q) /\ RelayOf(q[e], a)
      BY <1>1, <1>2
    <2> QED
      BY <1>1, <2>1 DEF LastIs
  <1>3. ASSUME ~RelayOf(m, a), LastIs(p, a, n)
        PROVE  LastIs(q, a, n)
    <2> SUFFICES ASSUME NEW i \in 1 .. Len(q), RelayOf(q[i], a),
                        \A k \in 1 .. Len(q) : i < k => ~RelayOf(q[k], a)
                 PROVE  q[i].n = n
      BY DEF LastIs
    <2>1. i \in 1 .. Len(p) /\ \A k \in 1 .. Len(p) : i < k => ~RelayOf(p[k], a)
      BY <1>1, <1>3
    <2> QED
      BY <1>1, <1>3, <2>1 DEF LastIs
  <1> QED
    BY <1>2, <1>3 DEF q

\* A message is posted after the answers it must follow.
LEMMA AppendEcho ==
    ASSUME NEW p \in Seq(Msg), NEW m \in Msg, EchoFollows(p),
           \A i \in 1 .. Len(p) : p[i].type = "reply" /\ RelayOf(m, p[i].from) => p[i].n < m.n
    PROVE  EchoFollows(Append(p, m))
PROOF
  <1> DEFINE q == Append(p, m)
             e == Len(p) + 1
  <1>1. /\ Len(p) \in Nat /\ Len(q) = e /\ q[e] = m
        /\ \A i \in 1 .. Len(p) : q[i] = p[i]
    BY Places
  <1> HIDE DEF q
  <1> SUFFICES ASSUME NEW i \in 1 .. Len(q), NEW j \in 1 .. Len(q),
                      i < j, q[i].type = "reply", RelayOf(q[j], q[i].from)
               PROVE  q[i].n < q[j].n
    BY DEF EchoFollows, q
  <1>2. i \in 1 .. Len(p) /\ q[i] = p[i]
    BY <1>1
  <1>3. CASE j = e
    BY <1>1, <1>2, <1>3
  <1>4. CASE j \in 1 .. Len(p)
    BY <1>1, <1>2, <1>4 DEF EchoFollows
  <1> QED
    BY <1>1, <1>3, <1>4

\* Where the messages come from when one is taken out.
LEMMA WithoutPlaces ==
    ASSUME NEW p \in Seq(Msg), NEW d \in 1 .. Len(p)
    PROVE  /\ Len(p) \in Nat /\ Len(Without(p, d)) = Len(p) - 1
           /\ \A i \in 1 .. Len(p) - 1 : Without(p, d)[i] = p[IF i < d THEN i ELSE i + 1]
           /\ Without(p, d) \in Seq(Msg)
PROOF
  <1>1. Len(p) \in Nat /\ Len(p) - 1 \in Nat /\ \A i \in 1 .. Len(p) : p[i] \in Msg
    OBVIOUS
  <1>2. \A i \in 1 .. Len(p) - 1 : (IF i < d THEN i ELSE i + 1) \in 1 .. Len(p)
    BY <1>1
  <1>3. Without(p, d) \in [1 .. Len(p) - 1 -> Msg]
    BY <1>1, <1>2 DEF Without
  <1> QED
    BY <1>1, <1>3 DEF Without

\* Nothing changes in the order of the others.
LEMMA WithoutKeeps ==
    ASSUME NEW p \in Seq(Msg), NEW d \in 1 .. Len(p), ~Recorded(p[d])
    PROVE  /\ InSequence(p) => InSequence(Without(p, d))
           /\ EchoFollows(p) => EchoFollows(Without(p, d))
           /\ \A a, n : LastIs(p, a, n) => LastIs(Without(p, d), a, n)
PROOF
  <1> DEFINE q == Without(p, d)
             at(i) == IF i < d THEN i ELSE i + 1
             back(k) == IF k < d THEN k ELSE k - 1
  <1>0. /\ Len(p) \in Nat /\ Len(q) = Len(p) - 1
        /\ \A i \in 1 .. Len(p) - 1 : q[i] = p[at(i)]
    BY WithoutPlaces
  <1> HIDE DEF q
  <1>1. /\ Len(p) \in Nat /\ Len(q) = Len(p) - 1
        /\ \A i \in 1 .. Len(q) : q[i] = p[at(i)] /\ at(i) \in 1 .. Len(p)
    BY <1>0
  <1>2. \A k \in 1 .. Len(p) : k # d => back(k) \in 1 .. Len(q) /\ at(back(k)) = k /\ q[back(k)] = p[k]
    BY <1>1
  <1>3. \A a : ~RelayOf(p[d], a)
    BY DEF Recorded, RelayOf
  <1>4. \A i, j \in 1 .. Len(q) : i < j <=> at(i) < at(j)
    BY <1>1
  <1>5. ASSUME InSequence(p)
        PROVE  InSequence(q)
    <2> SUFFICES ASSUME NEW a \in Author, NEW i \in 1 .. Len(q), NEW j \in 1 .. Len(q),
                        i < j, RelayOf(q[i], a), RelayOf(q[j], a),
                        \A k \in 1 .. Len(q) : i < k /\ k < j => ~RelayOf(q[k], a)
                 PROVE  q[j].n = q[i].n + 1
      BY DEF InSequence
    <2>1. ASSUME NEW k \in 1 .. Len(p), at(i) < k, k < at(j)
          PROVE  ~RelayOf(p[k], a)
      <3>1. CASE k = d
        BY <1>3, <3>1
      <3>2. CASE k # d
        <4>1. back(k) \in 1 .. Len(q) /\ i < back(k) /\ back(k) < j /\ q[back(k)] = p[k]
          BY <1>1, <1>2, <2>1, <3>2
        <4> QED
          BY <4>1
      <3> QED
        BY <3>1, <3>2
    <2>2. at(i) \in 1 .. Len(p) /\ at(j) \in 1 .. Len(p) /\ at(i) < at(j) /\ q[i] = p[at(i)] /\ q[j] = p[at(j)]
      BY <1>1, <1>4
    <2> HIDE DEF at
    <2> QED
      BY <1>5, <2>1, <2>2 DEF InSequence
  <1>6. ASSUME EchoFollows(p)
        PROVE  EchoFollows(q)
    <2> SUFFICES ASSUME NEW i \in 1 .. Len(q), NEW j \in 1 .. Len(q),
                        i < j, q[i].type = "reply", RelayOf(q[j], q[i].from)
                 PROVE  q[i].n < q[j].n
      BY DEF EchoFollows
    <2>1. at(i) \in 1 .. Len(p) /\ at(j) \in 1 .. Len(p) /\ at(i) < at(j) /\ q[i] = p[at(i)] /\ q[j] = p[at(j)]
      BY <1>1, <1>4
    <2> HIDE DEF at
    <2> QED
      BY <1>6, <2>1 DEF EchoFollows
  <1>7. ASSUME NEW a, NEW n, LastIs(p, a, n)
        PROVE  LastIs(q, a, n)
    <2> SUFFICES ASSUME NEW i \in 1 .. Len(q), RelayOf(q[i], a),
                        \A k \in 1 .. Len(q) : i < k => ~RelayOf(q[k], a)
                 PROVE  q[i].n = n
      BY DEF LastIs
    <2>1. ASSUME NEW k \in 1 .. Len(p), at(i) < k
          PROVE  ~RelayOf(p[k], a)
      <3>1. CASE k = d
        BY <1>3, <3>1
      <3>2. CASE k # d
        <4>1. back(k) \in 1 .. Len(q) /\ i < back(k) /\ q[back(k)] = p[k]
          BY <1>1, <1>2, <2>1, <3>2
        <4> QED
          BY <4>1
      <3> QED
        BY <3>1, <3>2
    <2>2. at(i) \in 1 .. Len(p) /\ q[i] = p[at(i)]
      BY <1>1
    <2> HIDE DEF at
    <2> QED
      BY <1>7, <2>1, <2>2 DEF LastIs
  <1> QED
    BY <1>5, <1>6, <1>7 DEF q

\* A sequence that is cut off is in order as far as it goes.
LEMMA CutOffKeeps ==
    ASSUME NEW p \in Seq(Msg), NEW q \in Seq(Msg), CutOff(q, p), InSequence(p), EchoFollows(p)
    PROVE  InSequence(q) /\ EchoFollows(q)
PROOF
  <1>1. Len(p) \in Nat /\ Len(q) \in Nat /\ \A i \in 1 .. Len(q) : i \in 1 .. Len(p) /\ q[i] = p[i]
    BY DEF CutOff
  <1>2. InSequence(q)
    <2> SUFFICES ASSUME NEW a \in Author, NEW i \in 1 .. Len(q), NEW j \in 1 .. Len(q),
                        i < j, RelayOf(q[i], a), RelayOf(q[j], a),
                        \A k \in 1 .. Len(q) : i < k /\ k < j => ~RelayOf(q[k], a)
                 PROVE  q[j].n = q[i].n + 1
      BY DEF InSequence
    <2>1. \A k \in 1 .. Len(p) : i < k /\ k < j => ~RelayOf(p[k], a)
      BY <1>1
    <2> QED
      BY <1>1, <2>1 DEF InSequence
  <1>3. EchoFollows(q)
    BY <1>1 DEF EchoFollows
  <1> QED
    BY <1>2, <1>3
-----------------------------------------------------------------------------
\* A pipeline is as it was, or has lost a message nobody sees in an order, or got one.
Steady(q, p) ==
    \/ q = p
    \/ \E m \in Msg : ~Recorded(m) /\ q = Append(p, m)
    \/ \E d \in 1 .. Len(p) : ~Recorded(p[d]) /\ q = Without(p, d)

\* What a session is before it has joined, or when it never will.
Unjoined == {"none", "accepting", "refused"}

\* The three parts of a pipeline, and what they make.
LEMMA PipelineTyped ==
    ASSUME TypeOK, NEW r \in Session
    PROVE  /\ got[r] \in Seq(Msg) /\ queue_[r] \in Seq(Msg) /\ posted[r] \in Seq(Msg)
           /\ Pipeline(r) \in Seq(Msg)
PROOF
  <1>1. got[r] \in Seq(Msg) /\ queue_[r] \in Seq(Msg) /\ posted[r] \in Seq(Msg)
    BY DEF TypeOK
  <1>2. got[r] \o queue_[r] \in Seq(Msg)
    BY <1>1, ConcatProperties
  <1> QED
    BY <1>1, <1>2, ConcatProperties DEF Pipeline

\* What is appended to the second of two sequences is appended to both together.
LEMMA AppendConcat ==
    ASSUME NEW p \in Seq(Msg), NEW q \in Seq(Msg), NEW m \in Msg
    PROVE  p \o Append(q, m) = Append(p \o q, m)
PROOF
  <1>1. Append(q, m) = q \o <<m>> /\ <<m>> \in Seq(Msg) /\ p \o q \in Seq(Msg)
    BY AppendIsConcat, ConcatProperties
  <1>2. Append(p \o q, m) = (p \o q) \o <<m>>
    BY <1>1, AppendIsConcat
  <1> QED
    BY <1>1, <1>2, ConcatAssociative

\* The first comes first.
LEMMA ConcatFront ==
    ASSUME NEW p \in Seq(Msg), NEW q \in Seq(Msg), NEW i \in 1 .. Len(p)
    PROVE  i \in 1 .. Len(p \o q) /\ (p \o q)[i] = p[i]
PROOF
  <1>1. Len(p) \in Nat /\ Len(q) \in Nat
    OBVIOUS
  <1>2. i \in 1 .. Len(p) + Len(q) /\ i <= Len(p)
    BY <1>1
  <1> QED
    BY <1>2, ConcatProperties

\* The head of the second goes to the end of the first.
LEMMA HeadMoves ==
    ASSUME NEW p \in Seq(Msg), NEW q \in Seq(Msg), q # <<>>
    PROVE  Append(p, Head(q)) \o Tail(q) = p \o q
PROOF
  <1> DEFINE h == Head(q)
             t == Tail(q)
  <1>1. h \in Msg /\ t \in Seq(Msg) /\ q = <<h>> \o t
    BY HeadTailProperties, HeadTailAppend, ConcatProperties, SeqEqual
  <1>2. Append(p, h) = p \o <<h>> /\ <<h>> \in Seq(Msg)
    BY <1>1, AppendIsConcat
  <1>3. (p \o <<h>>) \o t = p \o (<<h>> \o t)
    BY <1>1, <1>2, ConcatAssociative
  <1> QED
    BY <1>1, <1>2, <1>3

\* The head of the second is dropped.
LEMMA HeadDropped ==
    ASSUME NEW p \in Seq(Msg), NEW q \in Seq(Msg), NEW u \in Seq(Msg), q # <<>>
    PROVE  LET d == Len(p) + 1
               all == p \o q \o u
           IN  d \in 1 .. Len(all) /\ all[d] = Head(q) /\ p \o Tail(q) \o u = Without(all, d)
PROOF
  <1> DEFINE d == Len(p) + 1
             all == p \o q \o u
             rest == p \o Tail(q) \o u
  <1>1. /\ Tail(q) \in Seq(Msg) /\ Len(Tail(q)) = Len(q) - 1 /\ Len(q) > 0
        /\ \A i \in 1 .. Len(Tail(q)) : Tail(q)[i] = q[i + 1]
        /\ Head(q) = q[1] /\ Len(p) \in Nat /\ Len(q) \in Nat /\ Len(u) \in Nat
    BY HeadTailProperties
  <1>2. /\ p \o q \in Seq(Msg) /\ Len(p \o q) = Len(p) + Len(q)
        /\ p \o Tail(q) \in Seq(Msg) /\ Len(p \o Tail(q)) = Len(p) + Len(q) - 1
    BY <1>1, ConcatProperties
  <1>3. /\ all \in Seq(Msg) /\ Len(all) = Len(p) + Len(q) + Len(u)
        /\ rest \in Seq(Msg) /\ Len(rest) = Len(p) + Len(q) - 1 + Len(u)
    BY <1>1, <1>2, ConcatProperties
  <1>4. \A i \in 1 .. Len(all) :
            all[i] = IF i <= Len(p) THEN p[i]
                     ELSE IF i <= Len(p) + Len(q) THEN q[i - Len(p)] ELSE u[i - Len(p) - Len(q)]
    BY <1>1, <1>2, <1>3, ConcatProperties
  <1>5. \A i \in 1 .. Len(rest) :
            rest[i] = IF i <= Len(p) THEN p[i]
                      ELSE IF i <= Len(p) + Len(q) - 1 THEN q[i + 1 - Len(p)]
                      ELSE u[i + 1 - Len(p) - Len(q)]
    BY <1>1, <1>2, <1>3, ConcatProperties
  <1> HIDE DEF all, rest
  <1>6. d \in 1 .. Len(all) /\ all[d] = Head(q)
    BY <1>1, <1>3, <1>4
  <1>7. /\ Len(Without(all, d)) = Len(rest) /\ Without(all, d) \in Seq(Msg)
        /\ \A i \in 1 .. Len(rest) : Without(all, d)[i] = all[IF i < d THEN i ELSE i + 1]
    <2>1. Len(rest) = Len(all) - 1
      BY <1>1, <1>3
    <2> HIDE DEF d
    <2> QED
      BY <1>3, <1>6, <2>1, WithoutPlaces
  <1>8. ASSUME NEW i \in 1 .. Len(rest)
        PROVE  Without(all, d)[i] = rest[i]
    <2>1. CASE i < d
      <3>1. i \in 1 .. Len(all) /\ i <= Len(p)
        BY <1>1, <1>3, <2>1
      <3>2. Without(all, d)[i] = all[i]
        BY <1>7, <2>1
      <3> QED
        BY <1>4, <1>5, <3>1, <3>2
    <2>2. CASE ~(i < d)
      <3>1. i + 1 \in 1 .. Len(all) /\ ~(i <= Len(p)) /\ Without(all, d)[i] = all[i + 1]
        BY <1>1, <1>3, <1>7, <2>2
      <3>2. all[i + 1] = IF i + 1 <= Len(p) + Len(q) THEN q[i + 1 - Len(p)]
                         ELSE u[i + 1 - Len(p) - Len(q)]
        BY <1>1, <1>3, <1>4, <3>1
      <3>3. rest[i] = IF i <= Len(p) + Len(q) - 1 THEN q[i + 1 - Len(p)]
                      ELSE u[i + 1 - Len(p) - Len(q)]
        BY <1>5, <3>1
      <3> QED
        BY <1>1, <3>1, <3>2, <3>3
    <2> QED
      BY <2>1, <2>2
  <1>9. rest = Without(all, d)
    BY <1>3, <1>7, <1>8, SeqEqual
  <1> QED
    BY <1>6, <1>9 DEF all, rest

\* write() to r puts a message at the end of what r is sent.
LEMMA PostPipeline ==
    ASSUME TypeOK, NEW s \in Session, NEW m \in Msg, UNCHANGED <<got, queue_>>,
           posted' = [posted EXCEPT ![s] = Append(@, m)]
    PROVE  \A r \in Session : Pipeline(r)' = IF r = s THEN Append(Pipeline(r), m) ELSE Pipeline(r)
PROOF
  <1> SUFFICES ASSUME NEW r \in Session
               PROVE  Pipeline(r)' = IF r = s THEN Append(Pipeline(r), m) ELSE Pipeline(r)
    OBVIOUS
  <1>1. CASE r # s
    BY <1>1 DEF TypeOK, Pipeline
  <1>2. CASE r = s
    <2>1. /\ got[r] \in Seq(Msg) /\ queue_[r] \in Seq(Msg) /\ posted[r] \in Seq(Msg)
          /\ got[r] \o queue_[r] \in Seq(Msg)
      BY PipelineTyped, ConcatProperties
    <2>2. posted'[r] = Append(posted[r], m)
      BY <1>2 DEF TypeOK
    <2>3. got[r] \o queue_[r] \o Append(posted[r], m) = Append(got[r] \o queue_[r] \o posted[r], m)
      BY <2>1, AppendConcat
    <2> QED
      BY <1>2, <2>2, <2>3 DEF Pipeline
  <1> QED
    BY <1>1, <1>2

\* What is accepted by writing() stays where it was.
LEMMA WritingPipeline ==
    ASSUME TypeOK, NEW w \in Worker, NEW s \in Session, Writing(w, s)
    PROVE  \A r \in Session : Pipeline(r)' = Pipeline(r)
PROOF
  <1> SUFFICES ASSUME NEW r \in Session PROVE Pipeline(r)' = Pipeline(r)
    OBVIOUS
  <1>1. CASE r # s
    BY <1>1 DEF TypeOK, Writing, Pipeline, hist
  <1>2. CASE r = s
    <2> DEFINE g == got[r]
               q == queue_[r]
               b == posted[r]
    <2>1. g \in Seq(Msg) /\ q \in Seq(Msg) /\ b \in Seq(Msg) /\ b # <<>> /\ Head(b) \in Msg /\ Tail(b) \in Seq(Msg)
      BY <1>2, PipelineTyped, HeadTailProperties DEF Writing
    <2>2. got'[r] = g /\ queue_'[r] = Append(q, Head(b)) /\ posted'[r] = Tail(b)
      BY <1>2 DEF TypeOK, Writing, PushBack, hist
    <2> HIDE DEF g, q, b
    <2>3. g \o q \in Seq(Msg) /\ g \o Append(q, Head(b)) = Append(g \o q, Head(b))
      BY <2>1, AppendConcat, ConcatProperties
    <2>4. Append(g \o q, Head(b)) \o Tail(b) = g \o q \o b
      BY <2>1, <2>3, HeadMoves
    <2> QED
      BY <2>2, <2>3, <2>4 DEF Pipeline, g, q, b
  <1> QED
    BY <1>1, <1>2

\* What has been written is what the client got, or is nothing it sees in an order.
LEMMA WrittenPipeline ==
    ASSUME Typed, NEW w \in Worker, NEW s \in Session, OnWriteOk(w, s)
    PROVE  \A r \in Session : Steady(Pipeline(r)', Pipeline(r))
PROOF
  <1> SUFFICES ASSUME NEW r \in Session PROVE Steady(Pipeline(r)', Pipeline(r))
    OBVIOUS
  <1>1. TypeOK /\ queue_[s] # <<>>
    BY DEF Typed, FrontIsSent, OnWriteOk
  <1>2. CASE r # s
    <2>1. got'[r] = got[r] /\ queue_'[r] = queue_[r] /\ posted'[r] = posted[r]
      BY <1>1, <1>2 DEF TypeOK, OnWriteOk
    <2> QED
      BY <2>1 DEF Pipeline, Steady
  <1>3. CASE r = s
    <2> DEFINE g == got[r]
               q == queue_[r]
               b == posted[r]
    <2>1. g \in Seq(Msg) /\ q \in Seq(Msg) /\ b \in Seq(Msg) /\ q # <<>>
      BY <1>1, <1>3, PipelineTyped
    <2>2. Head(q) \in Msg /\ Tail(q) \in Seq(Msg)
      BY <2>1, HeadTailProperties
    <2>3. /\ got'[r] = IF Recorded(Head(q)) THEN Append(g, Head(q)) ELSE g
          /\ queue_'[r] = Tail(q) /\ posted'[r] = b
      BY <1>1, <1>3 DEF TypeOK, OnWriteOk, Recorded
    <2>4. CASE Recorded(Head(q))
      <3>1. Append(g, Head(q)) \o Tail(q) = g \o q
        BY <2>1, HeadMoves
      <3> QED
        BY <2>3, <2>4, <3>1 DEF Pipeline, Steady
    <2>5. CASE ~Recorded(Head(q))
      <3> HIDE DEF g, q, b
      <3>1. LET d == Len(g) + 1
                all == g \o q \o b
            IN  d \in 1 .. Len(all) /\ all[d] = Head(q) /\ g \o Tail(q) \o b = Without(all, d)
        BY <2>1, HeadDropped
      <3>2. Pipeline(r) = g \o q \o b /\ Pipeline(r)' = g \o Tail(q) \o b
        BY <2>3, <2>5 DEF Pipeline, g, q, b
      <3> QED
        BY <2>5, <3>1, <3>2 DEF Steady
    <2> QED
      BY <2>4, <2>5
  <1> QED
    BY <1>2, <1>3

\* A session that is destroyed loses what was still to be written.
LEMMA LeavePipeline ==
    ASSUME TypeOK, AllAlive, NEW w \in Worker, NEW s \in Session, Leave(w, s)
    PROVE  /\ \A r \in Session \ {s} : Pipeline(r)' = Pipeline(r)
           /\ CutOff(Pipeline(s)', Pipeline(s))
PROOF
  <1>1. posted[s] = <<>> /\ got' = got /\ posted' = posted /\ queue_' = [queue_ EXCEPT ![s] = <<>>]
    BY DEF AllAlive, Alive, Pending, Leave, hist
  <1>2. \A r \in Session \ {s} : Pipeline(r)' = Pipeline(r)
    BY <1>1 DEF TypeOK, Pipeline
  <1>3. CutOff(Pipeline(s)', Pipeline(s))
    <2> DEFINE g == got[s]
               q == queue_[s]
    <2>1. g \in Seq(Msg) /\ q \in Seq(Msg) /\ g \o q \in Seq(Msg)
      BY PipelineTyped, ConcatProperties
    <2>2. queue_'[s] = <<>>
      BY <1>1 DEF TypeOK
    <2>3. g \o <<>> = g /\ g \o q \o <<>> = g \o q
      BY <2>1, ConcatEmptySeq
    <2>4. Pipeline(s) = g \o q /\ Pipeline(s)' = g
      BY <1>1, <2>2, <2>3 DEF Pipeline
    <2>5. Len(g) <= Len(g \o q) /\ \A i \in 1 .. Len(g) : (g \o q)[i] = g[i]
      <3> HIDE DEF g, q
      <3> QED
        BY <2>1, ConcatProperties
    <2> QED
      BY <2>4, <2>5 DEF CutOff
  <1> QED
    BY <1>2, <1>3
-----------------------------------------------------------------------------
\* A relayed message of a is on its way to some users, or an answer to one to r.
Answerable(r, a) == Relaying(a) \/ Due(r, "reply", a)

(***************************************************************************)
(* How a step may change what author a still has to post to r: nothing     *)
(* becomes due, and what was due still is if it can be posted; or a new    *)
(* message of a becomes due.                                               *)
(***************************************************************************)
Goes(r, a) ==
    \/ /\ sent'[a] = sent[a]
       /\ Due(r, "relay", a)' => Due(r, "relay", a)
       /\ Receives(r)' /\ Due(r, "relay", a) => Due(r, "relay", a)'
       /\ Answerable(r, a)' => Answerable(r, a)
    \/ /\ sent'[a] = sent[a] + 1
       /\ Due(r, "relay", a)' /\ ~Due(r, "relay", a)

\* How a step may change the membership of r: only one that joins begins to receive.
Remains(r) ==
    /\ Receives(r)' => Receives(r) \/ conn[r] \in Unjoined
    /\ conn'[r] \in Unjoined => conn[r] \in Unjoined
    /\ conn[r] \in {"open", "gone"} => conn'[r] \in {"open", "gone"}
    /\ conn'[r] = "open" => r \in share_'

\* A steady pipeline keeps its order, and gets no message that users see in an order.
LEMMA SteadyKeeps ==
    ASSUME NEW p \in Seq(Msg), NEW q, Steady(q, p)
    PROVE  /\ InSequence(p) => InSequence(q)
           /\ EchoFollows(p) => EchoFollows(q)
           /\ \A a, n : LastIs(p, a, n) => LastIs(q, a, n)
           /\ \A i \in 1 .. Len(q) : Recorded(q[i]) => \E j \in 1 .. Len(p) : q[i] = p[j]
PROOF
  <1>1. CASE q = p
    BY <1>1
  <1>2. ASSUME NEW m \in Msg, ~Recorded(m), q = Append(p, m)
        PROVE  /\ InSequence(p) => InSequence(q)
               /\ EchoFollows(p) => EchoFollows(q)
               /\ \A a, n : LastIs(p, a, n) => LastIs(q, a, n)
               /\ \A i \in 1 .. Len(q) : Recorded(q[i]) => \E j \in 1 .. Len(p) : q[i] = p[j]
    <2>1. \A a : ~RelayOf(m, a)
      BY <1>2 DEF Recorded, RelayOf
    <2>2. InSequence(p) => InSequence(q)
      BY <1>2, <2>1, AppendInSequence
    <2>3. EchoFollows(p) => EchoFollows(q)
      BY <1>2, <2>1, AppendEcho
    <2>4. \A a, n : LastIs(p, a, n) => LastIs(q, a, n)
      BY <1>2, <2>1, AppendLast
    <2>5. \A i \in 1 .. Len(q) : Recorded(q[i]) => \E j \in 1 .. Len(p) : q[i] = p[j]
      BY <1>2, Places
    <2> QED
      BY <2>2, <2>3, <2>4, <2>5
  <1>3. ASSUME NEW d \in 1 .. Len(p), ~Recorded(p[d]), q = Without(p, d)
        PROVE  /\ InSequence(p) => InSequence(q)
               /\ EchoFollows(p) => EchoFollows(q)
               /\ \A a, n : LastIs(p, a, n) => LastIs(q, a, n)
               /\ \A i \in 1 .. Len(q) : Recorded(q[i]) => \E j \in 1 .. Len(p) : q[i] = p[j]
    <2>1. ASSUME NEW i \in 1 .. Len(q)
          PROVE  \E j \in 1 .. Len(p) : q[i] = p[j]
      <3> DEFINE j == IF i < d THEN i ELSE i + 1
      <3>1. i \in 1 .. Len(p) - 1 /\ Len(p) \in Nat /\ q[i] = p[j]
        BY <1>3, WithoutPlaces
      <3>2. j \in 1 .. Len(p)
        BY <3>1
      <3> QED
        BY <3>1, <3>2
    <2> QED
      BY <1>3, <2>1, WithoutKeeps
  <1> QED
    BY <1>1, <1>2, <1>3 DEF Steady

\* A session whose pipeline is steady stays ordered, whatever becomes due to it.
LEMMA OrderedSteady ==
    ASSUME TypeOK, TypeOK', NEW r \in Session, Ordered(r), Remains(r),
           Steady(Pipeline(r)', Pipeline(r)), \A a \in Author : Goes(r, a)
    PROVE  Ordered(r)'
PROOF
  <1> DEFINE p == Pipeline(r)
  <1>0. PICK q : q = Pipeline(r)'
    OBVIOUS
  <1>1. p \in Seq(Msg) /\ q \in Seq(Msg)
    <2>1. got'[r] \in Seq(Msg) /\ queue_'[r] \in Seq(Msg) /\ posted'[r] \in Seq(Msg)
      BY DEF TypeOK
    <2>2. got'[r] \o queue_'[r] \in Seq(Msg)
      BY <2>1, ConcatProperties
    <2> QED
      BY <1>0, <2>1, <2>2, PipelineTyped, ConcatProperties DEF Pipeline
  <1>2. /\ InSequence(p) /\ EchoFollows(p) /\ Numbered(p, r)
        /\ Receives(r) => \A a \in Author : LastIs(p, a, Latest(r, a))
        /\ conn[r] \in Unjoined => \A i \in 1 .. Len(p) : ~Recorded(p[i])
    BY DEF Ordered, Unjoined
  <1>3. /\ InSequence(q) /\ EchoFollows(q)
        /\ \A a, n : LastIs(p, a, n) => LastIs(q, a, n)
        /\ \A i \in 1 .. Len(q) : Recorded(q[i]) => \E j \in 1 .. Len(p) : q[i] = p[j]
    BY <1>0, <1>1, <1>2, SteadyKeeps
  <1> HIDE DEF p
  <1>5. conn'[r] \in Unjoined => \A i \in 1 .. Len(q) : ~Recorded(q[i])
    BY <1>2, <1>3 DEF Remains
  <1>6. \A i \in 1 .. Len(q) : q[i] \in Msg
    BY <1>1
  <1>7. \A a \in Author : sent[a] \in Nat /\ sent'[a] \in Nat
    BY DEF TypeOK
  <1>8. ASSUME NEW i \in 1 .. Len(q), Recorded(q[i])
        PROVE  LET a == q[i].from
               IN  /\ q[i].type = "relay" =>
                        q[i].n <= sent'[a] /\ (Due(r, "relay", a)' => q[i].n < sent'[a])
                   /\ q[i].type = "reply" =>
                        q[i].n <= sent'[a] /\ (Answerable(r, a)' => q[i].n < sent'[a])
    <2> DEFINE a == q[i].from
    <2>1. a \in Author /\ q[i].n \in Nat
      BY <1>6 DEF Msg
    <2>2. /\ q[i].type = "relay" =>
                q[i].n <= sent[a] /\ (Due(r, "relay", a) => q[i].n < sent[a])
          /\ q[i].type = "reply" =>
                q[i].n <= sent[a] /\ (Answerable(r, a) => q[i].n < sent[a])
      <3>1. PICK j \in 1 .. Len(p) : q[i] = p[j]
        BY <1>3, <1>8
      <3> QED
        BY <1>2, <3>1 DEF Numbered, Answerable
    <2>3. Goes(r, a) /\ sent[a] \in Nat
      BY <1>7, <2>1
    <2> HIDE DEF a
    <2>4. /\ q[i].type = "relay" =>
                q[i].n <= sent'[a] /\ (Due(r, "relay", a)' => q[i].n < sent'[a])
          /\ q[i].type = "reply" =>
                q[i].n <= sent'[a] /\ (Answerable(r, a)' => q[i].n < sent'[a])
      BY <2>1, <2>2, <2>3 DEF Goes
    <2> QED
      BY <2>4 DEF a
  <1>9. Receives(r)' => \A a \in Author : LastIs(q, a, Latest(r, a)')
    <2> SUFFICES ASSUME Receives(r)', NEW a \in Author PROVE LastIs(q, a, Latest(r, a)')
      OBVIOUS
    <2>1. CASE conn[r] \in Unjoined
      <3>1. \A i \in 1 .. Len(q) : ~RelayOf(q[i], a)
        BY <1>2, <1>3, <2>1 DEF Recorded, RelayOf
      <3> QED
        BY <3>1 DEF LastIs
    <2>2. CASE conn[r] \notin Unjoined
      <3>1. LastIs(q, a, Latest(r, a))
        BY <1>2, <1>3, <2>2 DEF Remains
      <3>2. Latest(r, a)' = Latest(r, a)
        <4>1. sent[a] \in Nat /\ Goes(r, a)
          BY <1>7
        <4>2. /\ Latest(r, a) = IF Due(r, "relay", a) THEN sent[a] - 1 ELSE sent[a]
              /\ Latest(r, a)' = IF Due(r, "relay", a)' THEN sent'[a] - 1 ELSE sent'[a]
          BY DEF Latest
        <4> QED
          BY <4>1, <4>2 DEF Goes
      <3> QED
        BY <3>1, <3>2
    <2> QED
      BY <2>1, <2>2
  <1>10. Numbered(Pipeline(r), r)'
    BY <1>0, <1>8 DEF Numbered, Recorded, Answerable
  <1> QED
    BY <1>0, <1>3, <1>5, <1>9, <1>10 DEF Ordered, Unjoined
-----------------------------------------------------------------------------
\* Worker w has no message left to post that users see in an order.
Finished(w) == Carries(w) => frame[w].at = "visit" /\ frame[w].todo = {}

\* A worker that goes on with no such message makes nothing due.
LEMMA PassiveGoes ==
    ASSUME TypeOK, NEW w \in Worker, NEW f \in Frame, GoesOn(w, f), Finished(w),
           ~Recorded(f.note), UNCHANGED sent
    PROVE  \A r \in Session, a \in Author : Goes(r, a)
PROOF
  <1> SUFFICES ASSUME NEW r \in Session, NEW a \in Author PROVE Goes(r, a)
    OBVIOUS
  <1>1. frame'[w] = f /\ \A v \in Worker \ {w} : frame'[v] = frame[v]
    BY DEF TypeOK, GoesOn
  <1>2. \A type \in {"relay", "reply"} : f.note.type # type
    BY DEF Recorded
  <1>3. \A type \in {"relay", "reply"} :
            frame[w].note.type = type => frame[w].at # "snapshot" /\ r \notin frame[w].todo
    BY DEF Finished, Carries, Recorded
  <1>4. Due(r, "relay", a)' <=> Due(r, "relay", a)
    BY <1>1, <1>2, <1>3 DEF Due
  <1>5. Due(r, "reply", a)' <=> Due(r, "reply", a)
    BY <1>1, <1>2, <1>3 DEF Due
  <1>6. Relaying(a)' => Relaying(a)
    BY <1>1, <1>2 DEF Relaying, RelayOf
  <1> QED
    BY <1>4, <1>5, <1>6 DEF Goes, Answerable

\* What is being written stays current when a worker goes on without such a message.
LEMMA PassiveNotes ==
    ASSUME TypeOK, NotesCurrent, NEW w \in Worker, NEW f \in Frame, GoesOn(w, f),
           ~Recorded(f.note), f.then # "echo_app", f.todo \subseteq frame[w].todo,
           UNCHANGED sent, \A r \in Session : Remains(r)
    PROVE  NotesCurrent'
PROOF
  <1>1. frame'[w] = f /\ \A v \in Worker \ {w} : frame'[v] = frame[v]
    BY DEF TypeOK, GoesOn
  <1>2. ~Carries(w)' /\ \A v \in Worker \ {w} : Carries(v)' <=> Carries(v)
    BY <1>1 DEF Carries
  <1>3. \A v \in Worker : Carries(v)' =>
            /\ frame'[v].at \in {"snapshot", "visit"}
            /\ frame'[v].note.from = frame'[v].ws /\ frame'[v].note.n = sent'[frame'[v].ws]
            /\ frame'[v].note.type = "reply" => frame'[v].ws \in Session
    BY <1>1, <1>2 DEF NotesCurrent
  <1>4. \A v \in Worker : frame'[v].then = "echo_app" => frame'[v].note.type = "relay"
    BY <1>1 DEF NotesCurrent
  <1>5. \A u, v \in Worker :
            Carries(u)' /\ Carries(v)' /\ frame'[u].note.from = frame'[v].note.from => u = v
    BY <1>1, <1>2 DEF NotesCurrent
  <1>6. \A v \in Worker : \A r \in frame'[v].todo : conn'[r] \in {"open", "gone"}
    <2> SUFFICES ASSUME NEW v \in Worker, NEW r \in frame'[v].todo
                 PROVE  conn'[r] \in {"open", "gone"}
      OBVIOUS
    <2>1. r \in frame[v].todo
      BY <1>1
    <2>2. r \in Session
      BY <2>1 DEF TypeOK, Frame
    <2> QED
      BY <2>1, <2>2 DEF NotesCurrent, Remains
  <1>7. \A r \in Session : conn'[r] = "open" => r \in share_'
    BY DEF Remains
  <1> QED
    BY <1>3, <1>4, <1>5, <1>6, <1>7 DEF NotesCurrent

\* Only a session that joins begins to receive while a handler of s runs.
LEMMA ActorRemains ==
    ASSUME TypeOK, NotesCurrent, NEW w \in Worker, NEW s \in Session, NEW f \in Frame,
           GoesOn(w, f), f.ws \in {s, Nobody} \/ f = frame[w], Locked(s),
           \A r \in Session \ {s} : Undisturbed(r),
           share_ \subseteq share_', s \in share_' => s \in share_ \/ conn[s] \in Unjoined,
           \/ conn'[s] = conn[s]
           \/ conn[s] = "accepting" /\ conn'[s] \in {"open", "refused"} /\ (conn'[s] = "open" => s \in share_')
    PROVE  \A r \in Session : Remains(r)
PROOF
  <1>1. ASSUME NEW r \in Session \ {s}
        PROVE  Remains(r)
    <2>1. f.ws # r \/ f = frame[w]
      BY NobodyAssumption
    <2>2. \A v \in Worker : frame'[v].ws = r => frame'[v] = frame[v]
      BY <2>1 DEF TypeOK, GoesOn
    <2>3. Undisturbed(r)
      OBVIOUS
    <2>4. Receives(r)' => Receives(r)
      BY <2>2, <2>3 DEF Receives, Locked, Undisturbed
    <2>5. conn[r] = "open" => r \in share_
      BY DEF NotesCurrent
    <2> QED
      BY <2>3, <2>4, <2>5 DEF Remains, Undisturbed
  <1>2. Remains(s)
    <2>1. conn[s] = "open" => s \in share_
      BY DEF NotesCurrent
    <2> QED
      BY <2>1 DEF Remains, Receives, Unjoined
  <1> QED
    BY <1>1, <1>2

\* A step of a handler of s that posts nothing users see in an order, nor begins to.
LEMMA ActorOrdered ==
    ASSUME TypeOK, TypeOK', AllOrdered, NEW w \in Worker, NEW s \in Session, NEW f \in Frame,
           GoesOn(w, f), f.ws \in {s, Nobody} \/ f = frame[w], Locked(s), Finished(w),
           ~Recorded(f.note), f.then # "echo_app", f.todo \subseteq frame[w].todo,
           \A r \in Session \ {s} : Undisturbed(r),
           share_ \subseteq share_', s \in share_' => s \in share_ \/ conn[s] \in Unjoined,
           \/ conn'[s] = conn[s]
           \/ conn[s] = "accepting" /\ conn'[s] \in {"open", "refused"} /\ (conn'[s] = "open" => s \in share_'),
           UNCHANGED sent, \A r \in Session : Steady(Pipeline(r)', Pipeline(r))
    PROVE  AllOrdered'
PROOF
  <1>1. NotesCurrent /\ \A r \in Session : Ordered(r)
    BY DEF AllOrdered
  <1>2. \A r \in Session : Remains(r)
    BY <1>1, ActorRemains
  <1>3. NotesCurrent'
    BY <1>1, <1>2, PassiveNotes
  <1>4. \A r \in Session, a \in Author : Goes(r, a)
    BY PassiveGoes
  <1>5. \A r \in Session : Ordered(r)'
    BY <1>1, <1>2, <1>4, OrderedSteady
  <1> QED
    BY <1>3, <1>5 DEF AllOrdered

\* The frames that begin or end a handler, and their notes.
LEMMA FrameNotes ==
    ASSUME NEW s \in Session
    PROVE  /\ ~Recorded(Idle.note) /\ Idle.then = "return" /\ Idle.todo = {} /\ Idle.ws = Nobody
           /\ Idle \in Frame
           /\ \A p \in Point :
                /\ Enter(p, s) \in Frame /\ Enter(p, s).ws = s /\ Enter(p, s).at = p
                /\ ~Recorded(Enter(p, s).note)
                /\ Enter(p, s).then = "return" /\ Enter(p, s).todo = {}
PROOF
  <1>1. Idle.note = Message("error", Nobody, 0) /\ Idle.then = "return" /\ Idle.todo = {} /\ Idle.ws = Nobody
    BY DEF Idle
  <1>2. \A p : /\ Enter(p, s).note = Idle.note /\ Enter(p, s).then = "return" /\ Enter(p, s).todo = {}
               /\ Enter(p, s).ws = s /\ Enter(p, s).at = p
    BY DEF Enter, Idle
  <1>3. ~Recorded(Message("error", Nobody, 0))
    BY DEF Recorded, Message
  <1> QED
    BY <1>1, <1>2, <1>3, FramesTyped

\* A handler that returns, in a step that posts nothing users see in an order.
LEMMA ReturnOrdered ==
    ASSUME TypeOK, TypeOK', AllOrdered, NEW w \in Worker, NEW s \in Session,
           Release(w, s), Locked(s), Finished(w),
           \A r \in Session \ {s} : Undisturbed(r), UNCHANGED share_,
           conn'[s] = conn[s] \/ (conn[s] = "accepting" /\ conn'[s] = "refused"),
           UNCHANGED sent, \A r \in Session : Steady(Pipeline(r)', Pipeline(r))
    PROVE  AllOrdered'
PROOF
  <1>1. PICK f : f = IF Pending(s)' THEN Idle ELSE Enter("leave", s)
    OBVIOUS
  <1>2. /\ f \in Frame /\ f.ws \in {s, Nobody} /\ ~Recorded(f.note) /\ f.then = "return" /\ f.todo = {}
        /\ GoesOn(w, f)
    BY <1>1, FrameNotes DEF Release, GoesOn, Point
  <1>3. f.then # "echo_app" /\ f.todo \subseteq frame[w].todo
    BY <1>2
  <1> QED
    BY <1>2, <1>3, ActorOrdered

\* A handler that enters another statement, likewise.
LEMMA EnterOrdered ==
    ASSUME TypeOK, TypeOK', AllOrdered, NEW w \in Worker, NEW s \in Session, NEW p \in Point,
           frame' = [frame EXCEPT ![w] = Enter(p, s)], Locked(s), Finished(w),
           \A r \in Session \ {s} : Undisturbed(r),
           share_ \subseteq share_', s \in share_' => s \in share_ \/ conn[s] \in Unjoined,
           \/ conn'[s] = conn[s]
           \/ conn[s] = "accepting" /\ conn'[s] \in {"open", "refused"} /\ (conn'[s] = "open" => s \in share_'),
           UNCHANGED sent, \A r \in Session : Steady(Pipeline(r)', Pipeline(r))
    PROVE  AllOrdered'
PROOF
  <1>1. PICK f : f = Enter(p, s)
    OBVIOUS
  <1>2. /\ f \in Frame /\ f.ws \in {s, Nobody} /\ ~Recorded(f.note) /\ f.then = "return" /\ f.todo = {}
        /\ GoesOn(w, f)
    BY <1>1, FrameNotes DEF GoesOn
  <1>3. f.then # "echo_app" /\ f.todo \subseteq frame[w].todo
    BY <1>2
  <1> QED
    BY <1>2, <1>3, ActorOrdered
-----------------------------------------------------------------------------
\* A worker that has nothing left to visit, or has not begun, is finished.
LEMMA ReadyFinished ==
    ASSUME AllOrdered, NEW w \in Worker, frame[w].at # "snapshot",
           frame[w].at = "visit" => frame[w].todo = {}
    PROVE  Finished(w)
PROOF
  <1> QED
    BY DEF AllOrdered, NotesCurrent, Finished

\* Pipelines whose parts do not change.
LEMMA SamePipelines ==
    ASSUME UNCHANGED <<got, queue_, posted>>
    PROVE  \A r : Steady(Pipeline(r)', Pipeline(r))
PROOF
  <1> QED
    BY DEF Pipeline, Steady

\* A message is posted to s that users do not see in an order.
LEMMA PostSteady ==
    ASSUME TypeOK, NEW s \in Session, NEW m \in Msg, ~Recorded(m), UNCHANGED <<got, queue_>>,
           posted' = [posted EXCEPT ![s] = Append(@, m)]
    PROVE  \A r \in Session : Steady(Pipeline(r)', Pipeline(r))
PROOF
  <1> QED
    BY PostPipeline DEF Steady

\* Nothing is sent to a session before its handshake.
LEMMA ConnectOrdered ==
    ASSUME TypeOK, TypeOK', AllOrdered, NEW s \in Session, Connect(s)
    PROVE  AllOrdered'
PROOF
  <1>1. /\ conn[s] = "none" /\ conn' = [conn EXCEPT ![s] = "accepting"]
        /\ UNCHANGED <<reading, posted, queue_, sending, share_, frame, sent, got>>
    BY DEF Connect, net, hist
  <1>2. NotesCurrent /\ \A r \in Session : Ordered(r)
    BY DEF AllOrdered
  <1>3. \A r \in Session : Remains(r)
    <2> SUFFICES ASSUME NEW r \in Session PROVE Remains(r)
      OBVIOUS
    <2>1. CASE r = s
      BY <1>1, <2>1 DEF TypeOK, Remains, Unjoined
    <2>2. CASE r # s
      <3>1. conn'[r] = conn[r]
        BY <1>1, <2>2 DEF TypeOK
      <3>2. Receives(r)' <=> Receives(r)
        BY <1>1, <3>1 DEF Receives, Locked, Pending
      <3>3. conn[r] = "open" => r \in share_
        BY <1>2 DEF NotesCurrent
      <3> QED
        BY <1>1, <3>1, <3>2, <3>3 DEF Remains
    <2> QED
      BY <2>1, <2>2
  <1>4. \A r \in Session, a \in Author : Goes(r, a)
    BY <1>1 DEF Goes, Answerable, Due, Relaying
  <1>5. \A r \in Session : Steady(Pipeline(r)', Pipeline(r))
    BY <1>1, SamePipelines
  <1>6. NotesCurrent'
    <2>1. \A w \in Worker : \A r \in frame'[w].todo : conn'[r] \in {"open", "gone"}
      <3> SUFFICES ASSUME NEW w \in Worker, NEW r \in frame[w].todo PROVE conn'[r] \in {"open", "gone"}
        BY <1>1
      <3>1. r \in Session
        BY DEF TypeOK, Frame
      <3> QED
        BY <1>2, <1>3, <3>1 DEF NotesCurrent, Remains
    <2>2. \A r \in Session : conn'[r] = "open" => r \in share_'
      BY <1>3 DEF Remains
    <2> QED
      BY <1>1, <1>2, <2>1, <2>2 DEF NotesCurrent, Carries
  <1>7. \A r \in Session : Ordered(r)'
    BY <1>2, <1>3, <1>4, <1>5, OrderedSteady
  <1> QED
    BY <1>6, <1>7 DEF AllOrdered

\* The handshake ends: a session that joins has been sent nothing yet.
LEMMA AcceptOrdered ==
    ASSUME TypeOK, TypeOK', AllAlive, AllOrdered, NEW w \in Worker, NEW s \in Session,
           OnAccept(w, s) \/ OnAcceptClosed(w, s) \/ OnAcceptError(w, s)
    PROVE  AllOrdered'
PROOF
  <1>1. /\ conn[s] = "accepting" /\ frame[w].at = "idle"
        /\ UNCHANGED <<posted, queue_, sending, sent, got>>
    BY DEF CanRun, OnAccept, OnAcceptClosed, OnAcceptError, hist
  <1>2. Locked(s) /\ Finished(w)
    BY <1>1, ReadyFinished DEF Locked, Pending
  <1>3. \A r \in Session : Steady(Pipeline(r)', Pipeline(r))
    BY <1>1, SamePipelines
  <1>4. \A r \in Session \ {s} : Undisturbed(r)
    <2>1. ASSUME NEW r \in Session \ {s}
          PROVE  /\ conn'[r] = conn[r] /\ reading'[r] = reading[r]
                 /\ (r \in share_' <=> r \in share_)
      BY <2>1 DEF TypeOK, OnAccept, OnAcceptClosed, OnAcceptError
    <2> QED
      BY <1>1, <2>1 DEF Undisturbed, Pending, OnAccept, OnAcceptClosed, OnAcceptError
  <1>5. CASE OnAccept(w, s)
    <2>1. /\ frame' = [frame EXCEPT ![w] = Enter("load_uid", s)] /\ conn'[s] = "open"
          /\ share_' = share_ \union {s}
      BY <1>5 DEF TypeOK, OnAccept
    <2> QED
      BY <1>1, <1>2, <1>3, <1>4, <2>1, EnterOrdered DEF Point, Unjoined
  <1>6. CASE OnAcceptClosed(w, s)
    <2>1. /\ frame' = [frame EXCEPT ![w] = Enter("close_count", s)] /\ conn'[s] = "refused"
          /\ share_' = share_
      BY <1>6 DEF TypeOK, OnAcceptClosed
    <2> QED
      BY <1>1, <1>2, <1>3, <1>4, <2>1, EnterOrdered DEF Point
  <1>7. CASE OnAcceptError(w, s)
    <2>1. Release(w, s) /\ conn'[s] = "refused" /\ share_' = share_
      BY <1>7 DEF TypeOK, OnAcceptError
    <2> QED
      BY <1>1, <1>2, <1>3, <1>4, <2>1, ReturnOrdered
  <1> QED
    BY <1>5, <1>6, <1>7

\* The statements of on_open and on_close post numbers only.
LEMMA OpenOrdered ==
    ASSUME TypeOK, TypeOK', AllAlive, AllOrdered, NEW w \in Worker, NEW s \in Session,
           LoadUid(w, s) \/ StoreUid(w, s) \/ OpenCount(w, s) \/ CloseCount(w, s)
    PROVE  AllOrdered'
PROOF
  <1>1. /\ frame[w].ws = s /\ frame[w].at \in {"load_uid", "store_uid", "open_count", "close_count"}
        /\ frame[w] \in Frame
        /\ UNCHANGED <<conn, reading, queue_, sending, share_, sent, got>>
    BY DEF TypeOK, LoadUid, StoreUid, OpenCount, CloseCount, At, net, hist
  <1>2. Locked(s) /\ Finished(w) /\ ~Carries(w)
    BY <1>1, ReadyFinished DEF Locked, AllOrdered, NotesCurrent
  <1>3. \A r \in Session : Steady(Pipeline(r)', Pipeline(r))
    <2>1. CASE StoreUid(w, s)
      <3>1. frame[w].val \in Nat
        BY <1>1 DEF Frame
      <3>2. Message("hello", Nobody, frame[w].val) \in Msg /\ ~Recorded(Message("hello", Nobody, frame[w].val))
        BY <3>1, MessagesTyped DEF Recorded, Message
      <3> QED
        BY <1>1, <2>1, <3>2, PostSteady DEF StoreUid
    <2>2. CASE ~StoreUid(w, s)
      BY <1>1, <2>2, SamePipelines DEF LoadUid, OpenCount, CloseCount, net
    <2> QED
      BY <2>1, <2>2
  <1>4. \A r \in Session \ {s} : Undisturbed(r)
    <2>1. \A r \in Session \ {s} : posted'[r] = posted[r]
      BY DEF TypeOK, LoadUid, StoreUid, OpenCount, CloseCount, net
    <2> QED
      BY <1>1, <2>1 DEF Undisturbed, Pending
  <1>5. CASE LoadUid(w, s)
    <2>1. PICK f : f = [frame[w] EXCEPT !.val = userid, !.at = "store_uid"]
      OBVIOUS
    <2>2. /\ f \in Frame /\ f.ws = s /\ f.note = frame[w].note /\ f.then = frame[w].then
          /\ f.todo = frame[w].todo
      BY <1>1, <2>1 DEF TypeOK, Frame, Point
    <2>3. GoesOn(w, f)
      BY <1>5, <2>1 DEF TypeOK, LoadUid, GoesOn
    <2>4. ~Recorded(f.note) /\ f.then # "echo_app"
      BY <1>2, <2>2 DEF Carries, AllOrdered, NotesCurrent, Recorded
    <2> QED
      BY <1>1, <1>2, <1>3, <1>4, <2>2, <2>3, <2>4, ActorOrdered
  <1>6. CASE StoreUid(w, s)
    <2>1. frame' = [frame EXCEPT ![w] = Enter("open_count", s)]
      BY <1>6 DEF StoreUid
    <2> QED
      BY <1>1, <1>2, <1>3, <1>4, <2>1, EnterOrdered DEF Point
  <1>7. CASE OpenCount(w, s) \/ CloseCount(w, s)
    <2>1. PICK k : frame' = [frame EXCEPT ![w] = WriteAll(s, Message("nusers", Nobody, k), "return")]
      BY <1>7 DEF OpenCount, CloseCount
    <2>2. PICK f : f = WriteAll(s, Message("nusers", Nobody, k), "return")
      OBVIOUS
    <2>3. /\ f.ws = s /\ f.note = Message("nusers", Nobody, k) /\ f.then = "return" /\ f.todo = {}
          /\ GoesOn(w, f)
      BY <2>1, <2>2 DEF WriteAll, Enter, Idle, GoesOn
    <2>4. f \in Frame /\ ~Recorded(f.note)
      BY <2>3 DEF TypeOK, GoesOn, Recorded, Message
    <2>5. f.then # "echo_app" /\ f.todo \subseteq frame[w].todo
      BY <2>3
    <2> QED
      BY <1>1, <1>2, <1>3, <1>4, <2>3, <2>4, <2>5, ActorOrdered
  <1> QED
    BY <1>5, <1>6, <1>7

\* The handlers of a session that return after their loop.
LEMMA EndOrdered ==
    ASSUME TypeOK, TypeOK', AllAlive, AllOrdered, NEW w \in Worker, NEW s \in Session,
           EndNotice(w, s) \/ Reject(w, s) \/ EndRead(w, s)
    PROVE  AllOrdered'
PROOF
  <1>1. /\ frame[w].ws = s /\ frame[w].at = "visit" /\ frame[w].todo = {} /\ Release(w, s)
        /\ UNCHANGED <<conn, queue_, sending, share_, sent, got>>
    BY DEF EndNotice, Reject, EndRead, At, LoopEnded, net, hist
  <1>2. Locked(s) /\ Finished(w)
    BY <1>1, ReadyFinished DEF Locked
  <1>3. \A r \in Session : Steady(Pipeline(r)', Pipeline(r))
    <2>1. CASE Reject(w, s)
      <3>1. Message("error", Nobody, 0) \in Msg /\ ~Recorded(Message("error", Nobody, 0))
        BY MessagesTyped DEF Recorded, Message
      <3> QED
        BY <1>1, <2>1, <3>1, PostSteady DEF Reject
    <2>2. CASE ~Reject(w, s)
      BY <1>1, <2>2, SamePipelines DEF EndNotice, EndRead, net
    <2> QED
      BY <2>1, <2>2
  <1>4. \A r \in Session \ {s} : Undisturbed(r)
    <2>1. \A r \in Session \ {s} : posted'[r] = posted[r] /\ reading'[r] = reading[r]
      BY DEF TypeOK, EndNotice, Reject, EndRead, net
    <2> QED
      BY <1>1, <2>1 DEF Undisturbed, Pending
  <1> QED
    BY <1>1, <1>2, <1>3, <1>4, ReturnOrdered

\* A read that ends without a message relays nothing.
LEMMA ReadOrdered ==
    ASSUME TypeOK, TypeOK', AllAlive, AllOrdered, NEW w \in Worker, NEW s \in Session,
           \/ OnReadNotJson(w, s)
           \/ OnReadClosed(w, s) \/ OnReadError(w, s) \/ OnReadAborted(w, s)
    PROVE  AllOrdered'
PROOF
  <1>1. /\ reading[s] /\ frame[w].at = "idle" /\ frame[w] \in Frame
        /\ UNCHANGED <<conn, queue_, sending, share_, sent, got>>
    BY DEF TypeOK, CanRun, OnReadNotJson, OnReadClosed, OnReadError, OnReadAborted, hist
  <1>2. Locked(s) /\ Finished(w) /\ ~Carries(w)
    BY <1>1, ReadyFinished DEF Locked, Pending, AllOrdered, NotesCurrent
  <1>3. \A r \in Session : Steady(Pipeline(r)', Pipeline(r))
    <2>1. CASE OnReadNotJson(w, s)
      <3>1. Message("error", Nobody, 0) \in Msg /\ ~Recorded(Message("error", Nobody, 0))
        BY MessagesTyped DEF Recorded, Message
      <3> QED
        BY <1>1, <2>1, <3>1, PostSteady DEF OnReadNotJson
    <2>2. CASE ~OnReadNotJson(w, s)
      BY <1>1, <2>2, SamePipelines DEF OnReadClosed, OnReadError, OnReadAborted
    <2> QED
      BY <2>1, <2>2
  <1>4. \A r \in Session \ {s} : Undisturbed(r)
    <2>1. \A r \in Session \ {s} : posted'[r] = posted[r] /\ reading'[r] = reading[r]
      BY DEF TypeOK, OnReadNotJson, OnReadClosed, OnReadError, OnReadAborted
    <2> QED
      BY <1>1, <2>1 DEF Undisturbed, Pending
  <1>5. CASE OnReadNotJson(w, s)
    <2>1. GoesOn(w, frame[w])
      <3>1. frame' = frame
        BY <1>5 DEF OnReadNotJson
      <3> QED
        BY <3>1 DEF TypeOK, GoesOn
    <2>2. ~Recorded(frame[w].note) /\ frame[w].then # "echo_app"
      BY <1>2 DEF Carries, AllOrdered, NotesCurrent, Recorded
    <2> QED
      BY <1>1, <1>2, <1>3, <1>4, <2>1, <2>2, ActorOrdered
  <1>6. CASE OnReadClosed(w, s) \/ OnReadAborted(w, s)
    <2>1. frame' = [frame EXCEPT ![w] = Enter("close_count", s)]
      BY <1>6 DEF OnReadClosed, OnReadAborted
    <2> QED
      BY <1>1, <1>2, <1>3, <1>4, <2>1, EnterOrdered DEF Point
  <1>7. CASE OnReadError(w, s)
    BY <1>1, <1>2, <1>3, <1>4, <1>7, ReturnOrdered DEF OnReadError
  <1> QED
    BY <1>5, <1>6, <1>7
\* write() and the ends of writes move messages along their pipeline.
LEMMA WriteOrdered ==
    ASSUME Typed, TypeOK', AllAlive, AllOrdered, NEW w \in Worker, NEW s \in Session,
           Writing(w, s) \/ OnWriteOk(w, s) \/ OnWriteError(w, s) \/ OnWriteAborted(w, s)
    PROVE  AllOrdered'
PROOF
  <1>1. /\ TypeOK /\ frame[w].at = "idle" /\ Pending(s)
        /\ UNCHANGED <<conn, reading, share_, sent>>
    BY DEF Typed, CanRun, Pending, Writing, OnWriteOk, OnWriteError, OnWriteAborted, hist
  <1>2. Locked(s) /\ Finished(w)
    BY <1>1, ReadyFinished DEF Locked
  <1>3. \A r \in Session : Steady(Pipeline(r)', Pipeline(r))
    <2>1. CASE Writing(w, s)
      BY <1>1, <2>1, WritingPipeline DEF Steady
    <2>2. CASE OnWriteOk(w, s)
      BY <2>2, WrittenPipeline
    <2>3. CASE OnWriteError(w, s) \/ OnWriteAborted(w, s)
      BY <2>3, SamePipelines DEF OnWriteError, OnWriteAborted, hist
    <2> QED
      BY <2>1, <2>2, <2>3
  <1>4. \A r \in Session \ {s} : Undisturbed(r)
    <2>1. \A r \in Session \ {s} : posted'[r] = posted[r] /\ sending'[r] = sending[r]
      BY <1>1 DEF TypeOK, Writing, OnWriteOk, OnWriteError, OnWriteAborted
    <2> QED
      BY <1>1, <2>1 DEF Undisturbed, Pending
  <1>5. CASE OnWriteAborted(w, s)
    <2>1. frame' = [frame EXCEPT ![w] = Enter("close_count", s)]
      BY <1>5 DEF OnWriteAborted
    <2> QED
      BY <1>1, <1>2, <1>3, <1>4, <2>1, EnterOrdered DEF Point
  <1>6. CASE ~OnWriteAborted(w, s)
    <2>1. Release(w, s)
      BY <1>6 DEF Writing, OnWriteOk, OnWriteError
    <2> QED
      BY <1>1, <1>2, <1>3, <1>4, <2>1, ReturnOrdered
  <1> QED
    BY <1>5, <1>6

\* The destructor cuts the pipeline off, and the session receives no more.
LEMMA LeaveOrdered ==
    ASSUME TypeOK, TypeOK', AllAlive, AllOrdered, NEW w \in Worker, NEW s \in Session, Leave(w, s)
    PROVE  AllOrdered'
PROOF
  <1>1. /\ frame[w].ws = s /\ frame[w].at = "leave" /\ GoesOn(w, Idle)
        /\ conn' = [conn EXCEPT ![s] = "gone"] /\ share_' = share_ \ {s}
        /\ UNCHANGED <<reading, sending, posted, sent>>
    BY DEF Leave, At, GoesOn, hist
  <1>2. NotesCurrent /\ Finished(w) /\ \A r \in Session : Ordered(r)
    BY <1>1, ReadyFinished DEF AllOrdered
  <1>3. \A r \in Session : Remains(r)
    <2> SUFFICES ASSUME NEW r \in Session PROVE Remains(r)
      OBVIOUS
    <2>1. CASE r = s
      BY <1>1, <2>1 DEF TypeOK, Remains, Receives, Unjoined
    <2>2. CASE r # s
      <3>1. conn'[r] = conn[r] /\ (r \in share_' <=> r \in share_)
        BY <1>1, <2>2 DEF TypeOK
      <3>2. \A v \in Worker : frame'[v].ws = r => frame'[v] = frame[v]
        <4>1. Idle.ws = Nobody
          BY DEF Idle
        <4> QED
          BY <1>1, <4>1, NobodyAssumption DEF TypeOK, GoesOn
      <3>3. Receives(r)' => Receives(r)
        BY <1>1, <3>1, <3>2 DEF Receives, Locked, Pending
      <3>4. conn[r] = "open" => r \in share_
        BY <1>2 DEF NotesCurrent
      <3> QED
        BY <3>1, <3>3, <3>4 DEF Remains
    <2> QED
      BY <2>1, <2>2
  <1>4. \A r \in Session, a \in Author : Goes(r, a)
    BY <1>1, <1>2, FrameNotes, PassiveGoes
  <1>5. NotesCurrent'
    <2>1. Idle.then # "echo_app" /\ Idle.todo \subseteq frame[w].todo /\ ~Recorded(Idle.note) /\ Idle \in Frame
      BY FrameNotes
    <2> QED
      BY <1>1, <1>2, <1>3, <2>1, PassiveNotes
  <1>6. \A r \in Session \ {s} : Ordered(r)'
    BY <1>2, <1>3, <1>4, LeavePipeline, OrderedSteady DEF Steady
  <1>7. Ordered(s)'
    <2>1. PICK q : q = Pipeline(s)'
      OBVIOUS
    <2>2. PICK p : p = Pipeline(s)
      OBVIOUS
    <2>3. p \in Seq(Msg) /\ q \in Seq(Msg) /\ CutOff(q, p)
      <3>1. got'[s] \in Seq(Msg) /\ queue_'[s] \in Seq(Msg) /\ posted'[s] \in Seq(Msg)
        BY DEF TypeOK
      <3>2. got'[s] \o queue_'[s] \in Seq(Msg)
        BY <3>1, ConcatProperties
      <3>3. q \in Seq(Msg)
        BY <2>1, <3>1, <3>2, ConcatProperties DEF Pipeline
      <3> QED
        BY <2>1, <2>2, <3>3, PipelineTyped, LeavePipeline
    <2>4. InSequence(p) /\ EchoFollows(p) /\ Numbered(p, s)
      BY <1>2, <2>2 DEF Ordered
    <2>5. InSequence(q) /\ EchoFollows(q)
      BY <2>3, <2>4, CutOffKeeps
    <2>6. \A i \in 1 .. Len(q) : i \in 1 .. Len(p) /\ q[i] = p[i] /\ q[i] \in Msg
      BY <2>3 DEF CutOff
    <2>7. \A a \in Author : /\ Due(s, "relay", a)' => Due(s, "relay", a)
                            /\ Answerable(s, a)' => Answerable(s, a)
                            /\ sent'[a] = sent[a]
      <3>1. Idle.note.type = "error" /\ frame'[w] = Idle /\ \A v \in Worker \ {w} : frame'[v] = frame[v]
        BY <1>1 DEF TypeOK, GoesOn, Idle, Message
      <3> QED
        BY <1>1, <3>1 DEF Due, Answerable, Relaying, RelayOf
    <2>8. Numbered(Pipeline(s), s)'
      <3> SUFFICES ASSUME NEW i \in 1 .. Len(q)
                   PROVE  LET a == q[i].from
                          IN  /\ q[i].type = "relay" => q[i].n <= sent'[a] /\ (Due(s, "relay", a)' => q[i].n < sent'[a])
                              /\ q[i].type = "reply" =>
                                    q[i].n <= sent'[a] /\ (Answerable(s, a)' => q[i].n < sent'[a])
        BY <2>1 DEF Numbered, Answerable
      <3>1. q[i].from \in Author
        BY <2>6 DEF Msg
      <3>2. LET a == q[i].from
            IN  /\ q[i].type = "relay" => q[i].n <= sent[a] /\ (Due(s, "relay", a) => q[i].n < sent[a])
                /\ q[i].type = "reply" =>
                      q[i].n <= sent[a] /\ (Answerable(s, a) => q[i].n < sent[a])
        BY <2>4, <2>6 DEF Numbered, Answerable
      <3> QED
        BY <2>7, <3>1, <3>2
    <2>9. ~Receives(s)' /\ conn'[s] = "gone"
      BY <1>1 DEF TypeOK, Receives
    <2> QED
      BY <2>1, <2>5, <2>8, <2>9 DEF Ordered
  <1> QED
    BY <1>5, <1>6, <1>7 DEF AllOrdered

\* A handler of an application that returns.
LEMMA EndAppOrdered ==
    ASSUME TypeOK, TypeOK', AllOrdered, NEW w \in Worker, EndAppData(w)
    PROVE  AllOrdered'
PROOF
  <1>1. /\ frame[w].ws = Nobody /\ frame[w].at = "visit" /\ frame[w].todo = {} /\ GoesOn(w, Idle)
        /\ UNCHANGED <<conn, reading, posted, queue_, sending, share_, sent, got>>
    BY DEF EndAppData, LoopEnded, At, GoesOn, net, hist
  <1>2. NotesCurrent /\ Finished(w) /\ \A r \in Session : Ordered(r)
    BY <1>1, ReadyFinished DEF AllOrdered
  <1>3. /\ Idle \in Frame /\ Idle.ws = Nobody /\ ~Recorded(Idle.note) /\ Idle.then # "echo_app"
        /\ Idle.todo \subseteq frame[w].todo
    <2>1. ~Recorded(Idle.note) /\ Idle.then = "return" /\ Idle.todo = {} /\ Idle.ws = Nobody
      BY DEF Idle, Message, Recorded
    <2> QED
      BY <2>1, FramesTyped
  <1>4. \A r \in Session : Remains(r)
    <2> SUFFICES ASSUME NEW r \in Session PROVE Remains(r)
      OBVIOUS
    <2>1. \A v \in Worker : frame'[v].ws = r => frame'[v] = frame[v]
      BY <1>1, <1>3, NobodyAssumption DEF TypeOK, GoesOn
    <2>2. Receives(r)' => Receives(r)
      BY <1>1, <2>1 DEF Receives, Locked, Pending
    <2> QED
      BY <1>1, <1>2, <2>2 DEF Remains, NotesCurrent
  <1>5. NotesCurrent'
    BY <1>1, <1>2, <1>3, <1>4, PassiveNotes
  <1>6. \A r \in Session, a \in Author : Goes(r, a)
    BY <1>1, <1>2, <1>3, PassiveGoes
  <1>7. \A r \in Session : Ordered(r)'
    BY <1>1, <1>2, <1>4, <1>6, SamePipelines, OrderedSteady
  <1> QED
    BY <1>5, <1>7 DEF AllOrdered
-----------------------------------------------------------------------------
\* An author begins to relay: the next message of its own becomes due to all.
LEMMA BeginOrdered ==
    ASSUME TypeOK, TypeOK', AllOrdered, NEW w \in Worker, NEW a \in Author, NEW f \in Frame,
           GoesOn(w, f), f.ws = a, f.at = "snapshot", f.todo = {},
           f.note = Message("relay", a, sent[a] + 1), sent' = [sent EXCEPT ![a] = @ + 1],
           ~Carries(w), \A v \in Worker : Carries(v) => frame[v].note.from # a,
           \A r \in Session : Remains(r) /\ Steady(Pipeline(r)', Pipeline(r))
    PROVE  AllOrdered'
PROOF
  <1>1. frame'[w] = f /\ \A v \in Worker \ {w} : frame'[v] = frame[v]
    BY DEF TypeOK, GoesOn
  <1>2. sent[a] \in Nat /\ sent'[a] = sent[a] + 1 /\ \A b \in Author \ {a} : sent'[b] = sent[b]
    BY DEF TypeOK
  <1>3. f.note.type = "relay" /\ f.note.from = a /\ f.note.n = sent'[a]
    BY <1>2 DEF Message
  <1>4. NotesCurrent /\ \A r \in Session : Ordered(r)
    BY DEF AllOrdered
  <1>5. Carries(w)' /\ \A v \in Worker \ {w} : Carries(v)' <=> Carries(v)
    BY <1>1, <1>3 DEF Carries, Recorded
  <1>6. ASSUME NEW r \in Session, NEW b \in Author
        PROVE  Goes(r, b)
    <2>1. CASE b = a
      <3>1. Due(r, "relay", a)'
        BY <1>1, <1>3 DEF Due
      <3>2. ~Due(r, "relay", a)
        BY DEF Due, Carries, Recorded
      <3> QED
        BY <1>2, <2>1, <3>1, <3>2 DEF Goes
    <2>2. CASE b # a
      <3>1. frame[w].note.type \notin {"relay", "reply"}
        BY DEF Carries, Recorded
      <3>2. Due(r, "relay", b)' <=> Due(r, "relay", b)
        BY <1>1, <1>3, <2>2, <3>1 DEF Due
      <3>3. Due(r, "reply", b)' => Due(r, "reply", b)
        BY <1>1, <1>3, <2>2, <3>1 DEF Due
      <3>4. Relaying(b)' => Relaying(b)
        BY <1>1, <1>3, <2>2 DEF Relaying, RelayOf
      <3> QED
        BY <1>2, <2>2, <3>2, <3>3, <3>4 DEF Goes, Answerable
    <2> QED
      BY <2>1, <2>2
  <1>7. NotesCurrent'
    <2>1. ASSUME NEW v \in Worker, Carries(v)'
          PROVE  /\ frame'[v].at \in {"snapshot", "visit"}
                 /\ frame'[v].note.from = frame'[v].ws /\ frame'[v].note.n = sent'[frame'[v].ws]
                 /\ frame'[v].note.type = "reply" => frame'[v].ws \in Session
      <3>1. CASE v = w
        BY <1>1, <1>3, <3>1
      <3>2. CASE v # w
        <4>1. /\ Carries(v) /\ frame'[v] = frame[v] /\ frame[v].ws \in Author \ {a}
              /\ frame[v].note.from = frame[v].ws
          BY <1>1, <1>4, <1>5, <2>1, <3>2 DEF TypeOK, Frame, NotesCurrent
        <4> QED
          BY <1>2, <1>4, <4>1 DEF NotesCurrent
      <3> QED
        BY <3>1, <3>2
    <2>2. \A v \in Worker : frame'[v].then = "echo_app" => frame'[v].note.type = "relay"
      BY <1>1, <1>3, <1>4 DEF NotesCurrent
    <2>3. \A u, v \in Worker :
            Carries(u)' /\ Carries(v)' /\ frame'[u].note.from = frame'[v].note.from => u = v
      BY <1>1, <1>3, <1>4, <1>5 DEF NotesCurrent
    <2>4. \A v \in Worker : \A r \in frame'[v].todo : conn'[r] \in {"open", "gone"}
      <3> SUFFICES ASSUME NEW v \in Worker, NEW r \in frame'[v].todo
                   PROVE  conn'[r] \in {"open", "gone"}
        OBVIOUS
      <3>1. r \in frame[v].todo
        BY <1>1
      <3>2. r \in Session
        BY <3>1 DEF TypeOK, Frame
      <3> QED
        BY <1>4, <3>1, <3>2 DEF NotesCurrent, Remains
    <2>5. \A r \in Session : conn'[r] = "open" => r \in share_'
      BY DEF Remains
    <2> QED
      BY <2>1, <2>2, <2>3, <2>4, <2>5 DEF NotesCurrent
  <1>8. \A r \in Session : Ordered(r)'
    BY <1>4, <1>6, OrderedSteady
  <1> QED
    BY <1>7, <1>8 DEF AllOrdered

\* A user's message: the next of its author, none of whose is on its way.
LEMMA MessageOrdered ==
    ASSUME TypeOK, TypeOK', AllAlive, AllOrdered, NEW w \in Worker, NEW s \in Session,
           NEW after \in After, OnReadMessage(w, s, after)
    PROVE  AllOrdered'
PROOF
  <1>1. /\ reading[s] /\ CanRun(w, s) /\ sent' = [sent EXCEPT ![s] = @ + 1]
        /\ reading' = [reading EXCEPT ![s] = FALSE]
        /\ UNCHANGED <<conn, posted, queue_, sending, share_, got>>
    BY DEF OnReadMessage
  <1>2. PICK f : f = WriteAll(s, Message("relay", s, sent'[s]), after)
    OBVIOUS
  <1>3. sent'[s] = sent[s] + 1
    BY <1>1 DEF TypeOK, Author
  <1>4. /\ GoesOn(w, f) /\ f.ws = s /\ f.at = "snapshot" /\ f.todo = {}
        /\ f.note = Message("relay", s, sent[s] + 1)
    BY <1>2, <1>3 DEF OnReadMessage, WriteAll, Enter, Idle, GoesOn
  <1>5. f \in Frame
    BY <1>4 DEF TypeOK, GoesOn
  <1>6. NotesCurrent /\ ~Carries(w) /\ \A v \in Worker : Carries(v) => frame[v].note.from # s
    BY <1>1 DEF AllOrdered, NotesCurrent, CanRun, StrandFree
  <1>7. Locked(s) /\ \A r \in Session \ {s} : Undisturbed(r)
    BY <1>1 DEF TypeOK, Locked, Pending, Undisturbed
  <1>8. \A r \in Session : Remains(r)
    BY <1>1, <1>4, <1>5, <1>6, <1>7, ActorRemains
  <1> QED
    BY <1>1, <1>4, <1>5, <1>6, <1>8, SamePipelines, BeginOrdered DEF Author

\* What an application relays: the next message of the daemon's own.
LEMMA AppOrdered ==
    ASSUME TypeOK, TypeOK', AllOrdered, NEW w \in Worker, AppData(w)
    PROVE  AllOrdered'
PROOF
  <1>1. /\ frame[w].at = "idle" /\ sent' = [sent EXCEPT ![Nobody] = @ + 1] /\ Nobody \in Author
        /\ \A v \in Worker : frame[v].note.type = "relay" => frame[v].ws # Nobody
        /\ UNCHANGED <<conn, reading, posted, queue_, sending, share_, got>>
    BY DEF AppData, net, Author
  <1>2. PICK f : f = WriteAll(Nobody, Message("relay", Nobody, sent'[Nobody]), "return")
    OBVIOUS
  <1>3. sent'[Nobody] = sent[Nobody] + 1
    BY <1>1 DEF TypeOK
  <1>4. /\ GoesOn(w, f) /\ f.ws = Nobody /\ f.at = "snapshot" /\ f.todo = {}
        /\ f.note = Message("relay", Nobody, sent[Nobody] + 1)
    BY <1>2, <1>3 DEF AppData, WriteAll, Enter, Idle, GoesOn
  <1>5. f \in Frame
    BY <1>4 DEF TypeOK, GoesOn
  <1>6. NotesCurrent /\ ~Carries(w)
    BY <1>1 DEF AllOrdered, NotesCurrent
  <1>7. \A v \in Worker : Carries(v) => frame[v].note.from # Nobody
    BY <1>1, <1>6, NobodyAssumption DEF NotesCurrent, Carries, Recorded
  <1>8. ASSUME NEW r \in Session
        PROVE  Remains(r)
    <2>1. \A v \in Worker : frame'[v].ws = r => frame'[v] = frame[v]
      BY <1>4, NobodyAssumption DEF TypeOK, GoesOn
    <2>2. Receives(r)' => Receives(r)
      BY <1>1, <2>1 DEF Receives, Locked, Pending
    <2> QED
      BY <1>1, <1>6, <2>2 DEF Remains, NotesCurrent
  <1> QED
    BY <1>1, <1>4, <1>5, <1>6, <1>7, <1>8, SamePipelines, BeginOrdered

\* The echo answers a message that has been posted to all.
LEMMA EchoOrdered ==
    ASSUME TypeOK, TypeOK', AllAlive, AllOrdered, NEW w \in Worker, NEW s \in Session, EchoApp(w, s)
    PROVE  AllOrdered'
PROOF
  <1>1. /\ frame[w].ws = s /\ frame[w].at = "visit" /\ frame[w].todo = {} /\ frame[w].then = "echo_app"
        /\ UNCHANGED <<conn, reading, posted, queue_, sending, share_, sent, got>>
    BY DEF EchoApp, LoopEnded, At, net, hist
  <1>2. PICK f : f = WriteAll(s, Message("reply", s, frame[w].note.n), "do_read")
    OBVIOUS
  <1>3. /\ GoesOn(w, f) /\ f.ws = s /\ f.at = "snapshot" /\ f.todo = {} /\ f.then = "do_read"
        /\ f.note.type = "reply" /\ f.note.from = s /\ f.note.n = frame[w].note.n
    BY <1>2 DEF EchoApp, WriteAll, Enter, Idle, GoesOn, Message
  <1>4. f \in Frame /\ frame'[w] = f /\ \A v \in Worker \ {w} : frame'[v] = frame[v]
    BY <1>3 DEF TypeOK, GoesOn
  <1>5. NotesCurrent /\ \A r \in Session : Ordered(r)
    BY DEF AllOrdered
  <1>6. frame[w].note.type = "relay" /\ Carries(w) /\ frame[w].note.from = s /\ frame[w].note.n = sent[s]
    BY <1>1, <1>5 DEF NotesCurrent, Carries, Recorded
  <1>7. Carries(w)' /\ \A v \in Worker \ {w} : (Carries(v)' <=> Carries(v))
    BY <1>3, <1>4 DEF Carries, Recorded
  <1>8. \A v \in Worker \ {w} : Carries(v) => frame[v].note.from # s
    BY <1>5, <1>6 DEF NotesCurrent
  <1>9. ASSUME NEW r \in Session, NEW a \in Author
        PROVE  Goes(r, a)
    <2>1. CASE a = s
      <3>1. ~Due(r, "relay", s) /\ ~Due(r, "relay", s)'
        BY <1>1, <1>3, <1>4, <1>8 DEF Due, Carries, Recorded
      <3>2. Relaying(s)
        BY <1>6 DEF Relaying, RelayOf
      <3> QED
        BY <1>1, <2>1, <3>1, <3>2 DEF Goes, Answerable
    <2>2. CASE a # s
      <3>1. Due(r, "relay", a)' <=> Due(r, "relay", a)
        BY <1>3, <1>4, <1>6, <2>2 DEF Due
      <3>2. Due(r, "reply", a)' => Due(r, "reply", a)
        BY <1>3, <1>4, <1>6, <2>2 DEF Due
      <3>3. Relaying(a)' => Relaying(a)
        BY <1>3, <1>4, <2>2 DEF Relaying, RelayOf
      <3> QED
        BY <1>1, <3>1, <3>2, <3>3 DEF Goes, Answerable
    <2> QED
      BY <2>1, <2>2
  <1>10. \A r \in Session : Remains(r)
    <2>1. Locked(s)
      BY <1>1 DEF Locked
    <2>2. \A r \in Session \ {s} : Undisturbed(r)
      BY <1>1 DEF Undisturbed, Pending
    <2> QED
      BY <1>1, <1>3, <1>4, <1>5, <2>1, <2>2, ActorRemains
  <1>11. NotesCurrent'
    <2>1. \A v \in Worker : Carries(v)' =>
            /\ frame'[v].at \in {"snapshot", "visit"}
            /\ frame'[v].note.from = frame'[v].ws /\ frame'[v].note.n = sent'[frame'[v].ws]
            /\ frame'[v].note.type = "reply" => frame'[v].ws \in Session
      BY <1>1, <1>3, <1>4, <1>5, <1>6, <1>7 DEF NotesCurrent
    <2>2. \A v \in Worker : frame'[v].then = "echo_app" => frame'[v].note.type = "relay"
      BY <1>3, <1>4, <1>5 DEF NotesCurrent
    <2>3. \A u, v \in Worker :
            Carries(u)' /\ Carries(v)' /\ frame'[u].note.from = frame'[v].note.from => u = v
      BY <1>3, <1>4, <1>5, <1>7, <1>8 DEF NotesCurrent
    <2>4. \A v \in Worker : \A r \in frame'[v].todo : conn'[r] \in {"open", "gone"}
      BY <1>1, <1>3, <1>4, <1>5 DEF NotesCurrent
    <2>5. \A r \in Session : conn'[r] = "open" => r \in share_'
      BY <1>10 DEF Remains
    <2> QED
      BY <2>1, <2>2, <2>3, <2>4, <2>5 DEF NotesCurrent
  <1>12. \A r \in Session : Ordered(r)'
    BY <1>1, <1>5, <1>9, <1>10, SamePipelines, OrderedSteady
  <1> QED
    BY <1>11, <1>12 DEF AllOrdered
-----------------------------------------------------------------------------
\* A worker goes on with the same message, and with sessions that can be posted to.
LEMMA LoopNotes ==
    ASSUME TypeOK, NotesCurrent, NEW w \in Worker, NEW f \in Frame, GoesOn(w, f),
           frame[w].at \in {"snapshot", "visit"}, f.at = "visit",
           f.ws = frame[w].ws, f.note = frame[w].note, f.then = frame[w].then,
           \A r \in f.todo : conn[r] \in {"open", "gone"},
           UNCHANGED <<conn, share_, sent>>
    PROVE  NotesCurrent'
PROOF
  <1>1. frame'[w] = f /\ \A v \in Worker \ {w} : frame'[v] = frame[v]
    BY DEF TypeOK, GoesOn
  <1>2. \A v \in Worker : /\ frame'[v].note = frame[v].note /\ frame'[v].ws = frame[v].ws
                          /\ frame'[v].then = frame[v].then
                          /\ frame'[v].at = frame[v].at \/ frame'[v].at = "visit"
                          /\ (Carries(v)' <=> Carries(v))
    BY <1>1 DEF Carries
  <1>3. \A v \in Worker : \A r \in frame'[v].todo : conn'[r] \in {"open", "gone"}
    BY <1>1 DEF NotesCurrent
  <1> QED
    BY <1>2, <1>3 DEF NotesCurrent

\* The memberships do not change in the loop.
LEMMA LoopRemains ==
    ASSUME TypeOK, NotesCurrent, NEW w \in Worker, NEW f \in Frame, GoesOn(w, f),
           frame[w].at \in {"snapshot", "visit"}, f.at = "visit", f.ws = frame[w].ws,
           UNCHANGED <<conn, reading, sending, share_>>,
           \A r \in Session : posted'[r] # <<>> => Locked(r)
    PROVE  \A r \in Session : Remains(r)
PROOF
  <1> SUFFICES ASSUME NEW r \in Session PROVE Remains(r)
    OBVIOUS
  <1>1. \A v \in Worker : frame'[v].ws = frame[v].ws /\ (frame'[v].at = "leave" <=> frame[v].at = "leave")
    BY DEF TypeOK, GoesOn
  <1>2. Pending(r)' => Locked(r)
    BY DEF Pending, Locked
  <1>3. Receives(r)' => Receives(r)
    BY <1>1, <1>2 DEF Receives, Locked
  <1> QED
    BY <1>3 DEF Remains, NotesCurrent

\* Whom the message is due to does not change for those who can be posted to.
LEMMA SnapshotOrdered ==
    ASSUME TypeOK, TypeOK', AllAlive, AllOrdered, NEW w \in Worker, Snapshot(w)
    PROVE  AllOrdered'
PROOF
  <1>1. frame[w].at = "snapshot" /\ UNCHANGED <<conn, reading, posted, queue_, sending, share_, sent, got>>
    BY DEF Snapshot, net, hist
  <1>2. PICK f : f = [frame[w] EXCEPT !.todo = share_, !.at = "visit"]
    OBVIOUS
  <1>3. /\ f \in Frame /\ f.at = "visit" /\ f.todo = share_
        /\ f.ws = frame[w].ws /\ f.note = frame[w].note /\ f.then = frame[w].then
    <2>1. frame[w] \in Frame
      BY DEF TypeOK
    <2> QED
      BY <1>2, <2>1 DEF TypeOK, Frame, Point
  <1>4. GoesOn(w, f)
    BY <1>2 DEF TypeOK, Snapshot, GoesOn
  <1>5. frame'[w] = f /\ \A v \in Worker \ {w} : frame'[v] = frame[v]
    BY <1>4 DEF TypeOK, GoesOn
  <1>6. NotesCurrent /\ \A r \in Session : Ordered(r)
    BY DEF AllOrdered
  <1>7. NotesCurrent'
    <2>1. \A r \in share_ : conn[r] = "open"
      BY DEF TypeOK, AllAlive, Alive
    <2> QED
      BY <1>1, <1>3, <1>4, <1>6, <2>1, LoopNotes
  <1>8. \A r \in Session : Remains(r)
    <2>1. \A r \in Session : posted'[r] # <<>> => Locked(r)
      BY <1>1 DEF Locked, Pending
    <2> QED
      BY <1>1, <1>3, <1>4, <1>6, <2>1, LoopRemains
  <1>9. ASSUME NEW r \in Session, NEW a \in Author
        PROVE  Goes(r, a)
    <2>1. Receives(r)' => r \in share_
      BY <1>1 DEF Receives
    <2>2. Due(r, "relay", a)' => Due(r, "relay", a)
      BY <1>1, <1>3, <1>5 DEF Due
    <2>3. Due(r, "reply", a)' => Due(r, "reply", a)
      BY <1>1, <1>3, <1>5 DEF Due
    <2>4. r \in share_ /\ Due(r, "relay", a) => Due(r, "relay", a)'
      BY <1>3, <1>5 DEF Due
    <2>5. Relaying(a)' => Relaying(a)
      BY <1>3, <1>5 DEF Relaying
    <2> QED
      BY <1>1, <2>1, <2>2, <2>3, <2>4, <2>5 DEF Goes, Answerable
  <1>10. \A r \in Session : Ordered(r)'
    BY <1>1, <1>6, <1>8, <1>9, SamePipelines, OrderedSteady
  <1> QED
    BY <1>7, <1>10 DEF AllOrdered

\* The message of an author is posted to r: the next relayed, or the answer to the last.
LEMMA VisitedOrdered ==
    ASSUME TypeOK, TypeOK', AllAlive, AllOrdered, NEW w \in Worker, NEW r \in Session, Visit(w, r),
           Carries(w), Locked(r), Remains(r),
           \A a \in Author : /\ Due(r, "relay", a)' <=> (Due(r, "relay", a) /\ ~RelayOf(frame[w].note, a))
                             /\ Due(r, "reply", a)' => Due(r, "reply", a)
                             /\ Relaying(a)' <=> Relaying(a)
                             /\ frame[w].note.type = "reply" /\ frame[w].note.from = a => ~Due(r, "reply", a)'
    PROVE  Ordered(r)'
PROOF
  <1>1. PICK m : m = frame[w].note
    OBVIOUS
  <1>2. PICK p : p = Pipeline(r)
    OBVIOUS
  <1>3. NotesCurrent /\ Ordered(r)
    BY DEF AllOrdered
  <1>4. /\ m \in Msg /\ m.n \in Nat /\ m.from \in Author /\ m.n = sent[m.from] /\ sent'= sent
        /\ \A a \in Author : sent[a] \in Nat
    BY <1>1, <1>3 DEF TypeOK, Frame, Msg, NotesCurrent, Visit, hist
  <1>5. conn[r] = "open" /\ conn'[r] = "open" /\ Receives(r)
    <2>1. conn[r] \in {"open", "gone"}
      BY <1>3 DEF NotesCurrent, Visit
    <2>2. conn[r] # "gone"
      BY DEF AllAlive, Alive, StrandFree, Locked
    <2> QED
      BY <1>3, <2>1, <2>2 DEF NotesCurrent, Receives, Visit
  <1>6. /\ p \in Seq(Msg) /\ InSequence(p) /\ EchoFollows(p) /\ Numbered(p, r)
        /\ \A a \in Author : LastIs(p, a, Latest(r, a))
    BY <1>2, <1>3, <1>5, PipelineTyped DEF Ordered
  <1>7. Pipeline(r)' = Append(p, m)
    <2>1. UNCHANGED <<got, queue_>> /\ posted' = [posted EXCEPT ![r] = Append(@, m)]
      BY <1>1 DEF Visit, hist
    <2> QED
      BY <1>2, <1>4, <2>1, PostPipeline
  <1>8. /\ Recorded(m) /\ (m.type = "relay" => Due(r, "relay", m.from) /\ Relaying(m.from))
        /\ m.type = "reply" => ~Due(r, "relay", m.from) /\ ~Relaying(m.from)
    <2>1. \A v \in Worker : Carries(v) /\ frame[v].note.from = m.from => v = w
      BY <1>1, <1>3 DEF NotesCurrent
    <2>2. m.type = "reply" => ~Due(r, "relay", m.from) /\ ~Relaying(m.from)
      BY <1>1, <2>1 DEF Due, Relaying, RelayOf, Carries, Recorded
    <2> QED
      BY <1>1, <2>2 DEF Carries, Due, Relaying, RelayOf, Visit
  <1>9. \A i \in 1 .. Len(p) :
            /\ p[i] \in Msg /\ p[i].n \in Nat /\ p[i].from \in Author
            /\ p[i].type = "relay" => p[i].n <= sent[p[i].from] /\ (Due(r, "relay", p[i].from) => p[i].n < sent[p[i].from])
            /\ p[i].type = "reply" => p[i].n <= sent[p[i].from] /\ (Answerable(r, p[i].from) => p[i].n < sent[p[i].from])
    <2> SUFFICES ASSUME NEW i \in 1 .. Len(p)
                 PROVE  /\ p[i] \in Msg /\ p[i].n \in Nat /\ p[i].from \in Author
                        /\ p[i].type = "relay" => p[i].n <= sent[p[i].from] /\ (Due(r, "relay", p[i].from) => p[i].n < sent[p[i].from])
                        /\ p[i].type = "reply" => p[i].n <= sent[p[i].from] /\ (Answerable(r, p[i].from) => p[i].n < sent[p[i].from])
      OBVIOUS
    <2>1. p[i] \in Msg
      BY <1>6
    <2> QED
      BY <1>6, <2>1 DEF Numbered, Answerable, Msg
  <1>10. InSequence(Append(p, m))
    <2>1. \A a \in Author : RelayOf(m, a) => LastIs(p, a, m.n - 1)
      BY <1>4, <1>6, <1>8 DEF RelayOf, Latest
    <2> QED
      BY <1>4, <1>6, <2>1, AppendInSequence
  <1>11. EchoFollows(Append(p, m))
    <2>1. \A i \in 1 .. Len(p) : p[i].type = "reply" /\ RelayOf(m, p[i].from) => p[i].n < m.n
      BY <1>4, <1>8, <1>9 DEF RelayOf, Answerable
    <2> QED
      BY <1>4, <1>6, <2>1, AppendEcho
  <1>12. ASSUME NEW a \in Author
         PROVE  LastIs(Append(p, m), a, Latest(r, a)')
    <2>1. CASE RelayOf(m, a)
      <3>1. ~Due(r, "relay", a)'
        BY <1>1, <2>1
      <3>2. Latest(r, a)' = m.n
        BY <1>4, <2>1, <3>1 DEF Latest, RelayOf
      <3> QED
        BY <1>4, <1>6, <2>1, <3>2, AppendLast
    <2>2. CASE ~RelayOf(m, a)
      <3>1. Due(r, "relay", a)' <=> Due(r, "relay", a)
        BY <1>1, <2>2
      <3>2. Latest(r, a)' = Latest(r, a)
        BY <1>4, <3>1 DEF Latest
      <3> QED
        BY <1>4, <1>6, <2>2, <3>2, AppendLast
    <2> QED
      BY <2>1, <2>2
  <1>13. Numbered(Pipeline(r), r)'
    <2>1. PICK q : q = Append(p, m)
      OBVIOUS
    <2>2. /\ Len(p) \in Nat /\ Len(q) = Len(p) + 1 /\ q[Len(p) + 1] = m
          /\ \A i \in 1 .. Len(p) : q[i] = p[i]
      BY <1>4, <1>6, <2>1, Places
    <2> SUFFICES ASSUME NEW i \in 1 .. Len(q)
                 PROVE  LET a == q[i].from
                        IN  /\ q[i].type = "relay" => q[i].n <= sent[a] /\ (Due(r, "relay", a)' => q[i].n < sent[a])
                            /\ q[i].type = "reply" =>
                                  q[i].n <= sent[a] /\ (Relaying(a)' \/ Due(r, "reply", a)' => q[i].n < sent[a])
      BY <1>4, <1>7, <2>1 DEF Numbered
    <2>3. CASE i \in 1 .. Len(p)
      <3>1. q[i] = p[i]
        BY <2>2, <2>3
      <3> QED
        BY <1>9, <2>3, <3>1 DEF Answerable
    <2>4. CASE i = Len(p) + 1
      <3>1. q[i] = m
        BY <2>2, <2>4
      <3>2. m.type = "relay" => ~Due(r, "relay", m.from)'
        BY <1>1, <1>4 DEF RelayOf
      <3>3. m.type = "reply" => ~Relaying(m.from)' /\ ~Due(r, "reply", m.from)'
        BY <1>1, <1>4, <1>8
      <3> QED
        BY <1>4, <3>1, <3>2, <3>3
    <2> QED
      BY <2>2, <2>3, <2>4
  <1> QED
    BY <1>5, <1>7, <1>10, <1>11, <1>12, <1>13 DEF Ordered

\* One turn of the loop: r has been sent the message, or cannot be any more.
LEMMA VisitOrdered ==
    ASSUME TypeOK, TypeOK', AllAlive, AllOrdered, NEW w \in Worker, NEW r \in Session, Visit(w, r)
    PROVE  AllOrdered'
PROOF
  <1>1. /\ frame[w].at = "visit" /\ r \in frame[w].todo /\ frame[w].note \in Msg
        /\ UNCHANGED <<conn, reading, queue_, sending, share_, sent, got>>
    BY DEF TypeOK, Frame, Visit, hist
  <1>2. PICK f : f = [frame[w] EXCEPT !.todo = @ \ {r}]
    OBVIOUS
  <1>3. /\ f \in Frame /\ f.at = "visit" /\ f.todo = frame[w].todo \ {r}
        /\ f.ws = frame[w].ws /\ f.note = frame[w].note /\ f.then = frame[w].then
    <2>1. frame[w] \in Frame
      BY DEF TypeOK
    <2> QED
      BY <1>1, <1>2, <2>1 DEF Frame
  <1>4. GoesOn(w, f)
    BY <1>2 DEF TypeOK, Visit, GoesOn
  <1>5. frame'[w] = f /\ \A v \in Worker \ {w} : frame'[v] = frame[v]
    BY <1>4 DEF TypeOK, GoesOn
  <1>6. NotesCurrent /\ \A t \in Session : Ordered(t)
    BY DEF AllOrdered
  <1>7. NotesCurrent'
    <2>1. \A t \in f.todo : conn[t] \in {"open", "gone"}
      BY <1>3, <1>6 DEF NotesCurrent
    <2> QED
      BY <1>1, <1>3, <1>4, <1>6, <2>1, LoopNotes
  <1>8. \A t \in Session : Remains(t)
    <2>1. \A t \in Session : posted'[t] # <<>> => Locked(t)
      BY DEF TypeOK, Visit, Locked, Pending
    <2> QED
      BY <1>1, <1>3, <1>4, <1>6, <2>1, LoopRemains
  <1>9. ASSUME NEW t \in Session, NEW a \in Author
        PROVE  /\ Due(t, "relay", a)' => Due(t, "relay", a)
               /\ Due(t, "reply", a)' => Due(t, "reply", a)
               /\ t # r => (Due(t, "relay", a) => Due(t, "relay", a)')
               /\ Relaying(a)' <=> Relaying(a)
    <2>1. \A type : Due(t, type, a)' => Due(t, type, a)
      BY <1>1, <1>3, <1>5 DEF Due
    <2>2. \A type : t # r => (Due(t, type, a) => Due(t, type, a)')
      BY <1>1, <1>3, <1>5 DEF Due
    <2>3. Relaying(a)' <=> Relaying(a)
      BY <1>3, <1>5 DEF Relaying
    <2> QED
      BY <2>1, <2>2, <2>3
  <1>10. \A t \in Session \ {r}, a \in Author : Goes(t, a)
    BY <1>1, <1>9 DEF Goes, Answerable
  <1>11. \A t \in Session \ {r} : Pipeline(t)' = Pipeline(t)
    <2>1. \A t \in Session \ {r} : posted'[t] = posted[t]
      BY DEF TypeOK, Visit
    <2> QED
      BY <1>1, <2>1 DEF Pipeline
  <1>12. \A t \in Session \ {r} : Ordered(t)'
    BY <1>6, <1>8, <1>10, <1>11, OrderedSteady DEF Steady
  <1>13. CASE Carries(w) /\ Locked(r)
    <2>1. \A v \in Worker \ {w} : Carries(v) => frame[v].note.from # frame[w].note.from
      BY <1>6, <1>13 DEF NotesCurrent
    <2>2. \A a \in Author : Due(r, "relay", a)' <=> (Due(r, "relay", a) /\ ~RelayOf(frame[w].note, a))
      BY <1>1, <1>3, <1>5, <2>1 DEF Due, RelayOf, Carries, Recorded
    <2>3. \A a \in Author : frame[w].note.type = "reply" /\ frame[w].note.from = a => ~Due(r, "reply", a)'
      BY <1>1, <1>3, <1>5, <2>1 DEF Due, Carries, Recorded
    <2>4. Ordered(r)'
      BY <1>8, <1>9, <1>13, <2>2, <2>3, VisitedOrdered
    <2> QED
      BY <1>7, <1>12, <2>4 DEF AllOrdered
  <1>14. CASE ~(Carries(w) /\ Locked(r))
    <2>1. Steady(Pipeline(r)', Pipeline(r))
      <3>1. CASE Locked(r)
        <4>1. posted' = [posted EXCEPT ![r] = Append(@, frame[w].note)] /\ ~Recorded(frame[w].note)
          BY <1>14, <3>1 DEF Visit, Carries
        <4> QED
          BY <1>1, <4>1, PostSteady
      <3>2. CASE ~Locked(r)
        BY <1>1, <3>2, SamePipelines DEF Visit
      <3> QED
        BY <3>1, <3>2
    <2>2. ASSUME NEW a \in Author
          PROVE  Goes(r, a)
      <3>1. CASE ~Carries(w)
        <4>1. frame[w].note.type \notin {"relay", "reply"}
          BY <3>1 DEF Carries, Recorded
        <4>2. Due(r, "relay", a) => Due(r, "relay", a)'
          BY <1>3, <1>5, <4>1 DEF Due
        <4> QED
          BY <1>1, <1>9, <4>2 DEF Goes, Answerable
      <3>2. CASE ~Locked(r)
        <4>1. ~Receives(r)'
          <5>1. conn[r] \notin Unjoined
            BY <1>1, <1>6 DEF NotesCurrent, Unjoined
          <5> QED
            BY <1>8, <3>2, <5>1 DEF Remains, Receives
        <4> QED
          BY <1>1, <1>9, <4>1 DEF Goes, Answerable
      <3> QED
        BY <1>14, <3>1, <3>2
    <2>3. Ordered(r)'
      BY <1>6, <1>8, <2>1, <2>2, OrderedSteady
    <2> QED
      BY <1>7, <1>12, <2>3 DEF AllOrdered
  <1> QED
    BY <1>13, <1>14

-----------------------------------------------------------------------------
\* Nothing has been sent by the empty hub.
LEMMA InitOrdered == Init => AllOrdered
PROOF
  <1> SUFFICES ASSUME Init PROVE AllOrdered
    OBVIOUS
  <1>1. \A w \in Worker : frame[w] = Idle /\ ~Carries(w)
    BY DEF Init, Carries, Recorded, Idle, Message
  <1>2. NotesCurrent
    BY <1>1 DEF NotesCurrent, Init, Idle
  <1>3. ASSUME NEW r \in Session
        PROVE  Ordered(r)
    <2>1. Pipeline(r) = <<>> /\ ~Receives(r)
      BY DEF Init, Pipeline, Receives
    <2>2. Len(<<>>) = 0
      OBVIOUS
    <2> QED
      BY <2>1, <2>2 DEF Ordered, InSequence, EchoFollows, Numbered
  <1> QED
    BY <1>2, <1>3 DEF AllOrdered

\* Every step keeps the order.
LEMMA NextOrdered == Typed /\ AllAlive /\ AllOrdered /\ [Next]_vars => AllOrdered'
PROOF
  <1> SUFFICES ASSUME Typed, AllAlive, AllOrdered, [Next]_vars PROVE AllOrdered'
    OBVIOUS
  <1>1. TypeOK /\ TypeOK'
    BY NextTyped DEF Typed
  <1>2. CASE UNCHANGED vars
    <2>1. NotesCurrent'
      BY <1>2 DEF AllOrdered, NotesCurrent, Carries, vars, hist
    <2>2. ASSUME NEW r \in Session
          PROVE  Ordered(r)'
      <3>1. \A a \in Author : Goes(r, a)
        BY <1>2 DEF Goes, Answerable, Relaying, Due, vars, hist
      <3>2. Remains(r)
        BY <1>2 DEF Remains, Receives, Locked, Pending, AllOrdered, NotesCurrent, vars, net
      <3>3. Steady(Pipeline(r)', Pipeline(r))
        BY <1>2 DEF Steady, Pipeline, vars, net, hist
      <3> QED
        BY <1>1, <3>1, <3>2, <3>3, OrderedSteady DEF AllOrdered
    <2> QED
      BY <2>1, <2>2 DEF AllOrdered
  <1>3. ASSUME NEW s \in Session, Connect(s)
        PROVE  AllOrdered'
    BY <1>1, <1>3, ConnectOrdered
  <1>4. ASSUME NEW w \in Worker, AppData(w)
        PROVE  AllOrdered'
    BY <1>1, <1>4, AppOrdered
  <1>5. ASSUME NEW w \in Worker, Continue(w)
        PROVE  AllOrdered'
    BY <1>1, <1>5, SnapshotOrdered, EndAppOrdered, VisitOrdered, OpenOrdered, EndOrdered,
       EchoOrdered, LeaveOrdered DEF Continue
  <1>6. ASSUME NEW w \in Worker, NEW s \in Session, Environment(w, s) \/ Handler(w, s)
        PROVE  AllOrdered'
    BY <1>1, <1>6, AcceptOrdered, ReadOrdered, MessageOrdered, WriteOrdered
       DEF Environment, Handler, After
  <1> QED
    BY <1>2, <1>3, <1>4, <1>5, <1>6 DEF Next

(***************************************************************************)
(* Whatever handlers of other sessions do at the same time, and however    *)
(* sessions end, what is sent to a client holds the messages of each       *)
(* author without a gap, a repetition or a reordering, and no answer of    *)
(* the echo app before the message it answers.                             *)
(***************************************************************************)
THEOREM AuthorsInOrder == Spec => []AuthorOrder
PROOF
  <1>1. Init => Typed /\ AllAlive /\ AllOrdered
    BY InitTyped, InitAlive, InitOrdered
  <1>2. Typed /\ AllAlive /\ AllOrdered /\ [Next]_vars => (Typed /\ AllAlive /\ AllOrdered)'
    BY NextTyped, NextAlive, NextOrdered
  <1>3. AllOrdered => AuthorOrder
    BY DEF AllOrdered, Ordered, AuthorOrder
  <1> QED
    BY <1>1, <1>2, <1>3, PTL DEF Spec

-----------------------------------------------------------------------------
(***************************************************************************)
(* One order for all.  Any two pipelines agree on the order of the         *)
(* messages they share; and what is being written to all is, in each       *)
(* pipeline that has it already, the last that users see in an order.  The *)
(* second needs one worker: two would post to two sessions in two orders.  *)
(***************************************************************************)
Consistent(p, q) ==
    \A i, j \in 1 .. Len(p) : \A k, l \in 1 .. Len(q) :
        i < j /\ Recorded(p[i]) /\ Recorded(p[j]) /\ q[k] = p[i] /\ q[l] = p[j] => k < l

\* Nothing that users see in an order comes after m.
NewestIsLast(p, m) ==
    \A i, j \in 1 .. Len(p) : p[i] = m /\ i < j => ~Recorded(p[j])

\* The history got keeps what users see in an order, and nothing else.
GotRecorded == \A r \in Session : \A i \in 1 .. Len(got[r]) : Recorded(got[r][i])

\* The invariant of one worker.
OneOrder ==
    /\ \A r, t \in Session : Consistent(Pipeline(r), Pipeline(t))
    /\ \A w \in Worker : Carries(w) => \A t \in Session : NewestIsLast(Pipeline(t), frame[w].note)
    /\ GotRecorded

\* The messages of q that users see in an order come from p, in the same order.
Within(q, p) ==
    \E h \in [1 .. Len(q) -> Nat] : \A i \in 1 .. Len(q) : Recorded(q[i]) =>
        /\ h[i] \in 1 .. Len(p) /\ p[h[i]] = q[i]
        /\ \A j \in 1 .. Len(q) : i < j /\ Recorded(q[j]) => h[i] < h[j]

\* A steady pipeline, or one that is cut off, is within what it was.
LEMMA SteadyWithin ==
    ASSUME NEW p \in Seq(Msg), NEW q, Steady(q, p) \/ (CutOff(q, p) /\ q \in Seq(Msg))
    PROVE  Within(q, p)
PROOF
  <1>1. CASE q = p \/ (CutOff(q, p) /\ q \in Seq(Msg))
    <2> DEFINE h == [i \in 1 .. Len(q) |-> i]
    <2>1. /\ Len(p) \in Nat /\ Len(q) \in Nat
          /\ \A i \in 1 .. Len(q) : i \in 1 .. Len(p) /\ q[i] = p[i]
      BY <1>1 DEF CutOff
    <2>2. h \in [1 .. Len(q) -> Nat] /\ \A i \in 1 .. Len(q) : h[i] = i
      BY <2>1
    <2> HIDE DEF h
    <2> QED
      BY <2>1, <2>2 DEF Within
  <1>2. ASSUME NEW m \in Msg, ~Recorded(m), q = Append(p, m)
        PROVE  Within(q, p)
    <2> DEFINE h == [i \in 1 .. Len(q) |-> i]
    <2>1. /\ Len(p) \in Nat /\ Len(q) = Len(p) + 1
          /\ \A i \in 1 .. Len(q) : Recorded(q[i]) => i \in 1 .. Len(p) /\ q[i] = p[i]
      BY <1>2, Places
    <2>2. h \in [1 .. Len(q) -> Nat] /\ \A i \in 1 .. Len(q) : h[i] = i
      BY <2>1
    <2> HIDE DEF h
    <2> QED
      BY <2>1, <2>2 DEF Within
  <1>3. ASSUME NEW d \in 1 .. Len(p), q = Without(p, d)
        PROVE  Within(q, p)
    <2> DEFINE h == [i \in 1 .. Len(q) |-> IF i < d THEN i ELSE i + 1]
    <2>1. /\ Len(p) \in Nat /\ Len(q) = Len(p) - 1
          /\ \A i \in 1 .. Len(q) : q[i] = p[IF i < d THEN i ELSE i + 1]
      BY <1>3, WithoutPlaces
    <2>2. h \in [1 .. Len(q) -> Nat] /\ \A i \in 1 .. Len(q) : h[i] = IF i < d THEN i ELSE i + 1
      BY <2>1
    <2> HIDE DEF h
    <2>3. \A i \in 1 .. Len(q) : h[i] \in 1 .. Len(p) /\ q[i] = p[h[i]]
      BY <2>1, <2>2
    <2>4. \A i, j \in 1 .. Len(q) : i < j => h[i] < h[j]
      BY <2>1, <2>2
    <2> QED
      BY <2>2, <2>3, <2>4 DEF Within
  <1> QED
    BY <1>1, <1>2, <1>3 DEF Steady

\* Pipelines within those that agree agree, and what was last still is.
LEMMA WithinKeeps ==
    ASSUME NEW p, NEW p1, NEW q, NEW q1, Within(p1, p), Within(q1, q)
    PROVE  /\ Consistent(p, q) => Consistent(p1, q1)
           /\ \A m : Recorded(m) /\ NewestIsLast(p, m) => NewestIsLast(p1, m)
PROOF
  <1>1. PICK g \in [1 .. Len(p1) -> Nat] : \A i \in 1 .. Len(p1) : Recorded(p1[i]) =>
            /\ g[i] \in 1 .. Len(p) /\ p[g[i]] = p1[i]
            /\ \A j \in 1 .. Len(p1) : i < j /\ Recorded(p1[j]) => g[i] < g[j]
    BY DEF Within
  <1>2. PICK h \in [1 .. Len(q1) -> Nat] : \A i \in 1 .. Len(q1) : Recorded(q1[i]) =>
            /\ h[i] \in 1 .. Len(q) /\ q[h[i]] = q1[i]
            /\ \A j \in 1 .. Len(q1) : i < j /\ Recorded(q1[j]) => h[i] < h[j]
    BY DEF Within
  <1>3. ASSUME Consistent(p, q)
        PROVE  Consistent(p1, q1)
    <2> SUFFICES ASSUME NEW i \in 1 .. Len(p1), NEW j \in 1 .. Len(p1),
                        NEW k \in 1 .. Len(q1), NEW l \in 1 .. Len(q1),
                        i < j, Recorded(p1[i]), Recorded(p1[j]), q1[k] = p1[i], q1[l] = p1[j]
                 PROVE  k < l
      BY DEF Consistent
    <2>1. /\ g[i] \in 1 .. Len(p) /\ g[j] \in 1 .. Len(p) /\ g[i] < g[j]
          /\ p[g[i]] = p1[i] /\ p[g[j]] = p1[j]
      BY <1>1
    <2>2. /\ h[k] \in 1 .. Len(q) /\ h[l] \in 1 .. Len(q)
          /\ q[h[k]] = q1[k] /\ q[h[l]] = q1[l]
          /\ l < k => h[l] < h[k]
      BY <1>2
    <2>3. h[k] < h[l]
      BY <1>3, <2>1, <2>2 DEF Consistent
    <2> QED
      BY <2>2, <2>3
  <1>4. ASSUME NEW m, Recorded(m), NewestIsLast(p, m)
        PROVE  NewestIsLast(p1, m)
    <2> SUFFICES ASSUME NEW i \in 1 .. Len(p1), NEW j \in 1 .. Len(p1),
                        p1[i] = m, i < j, Recorded(p1[j])
                 PROVE  FALSE
      BY DEF NewestIsLast
    <2>1. /\ g[i] \in 1 .. Len(p) /\ g[j] \in 1 .. Len(p) /\ g[i] < g[j]
          /\ p[g[i]] = m /\ p[g[j]] = p1[j]
      BY <1>1, <1>4
    <2> QED
      BY <1>4, <2>1 DEF NewestIsLast
  <1> QED
    BY <1>3, <1>4

\* A message that comes last in one pipeline, and is not followed in another.
LEMMA AppendConsistent ==
    ASSUME NEW p \in Seq(Msg), NEW q \in Seq(Msg), NEW m \in Msg, Recorded(m),
           \A i \in 1 .. Len(p) : p[i] # m, NewestIsLast(q, m)
    PROVE  /\ Consistent(p, q) => Consistent(Append(p, m), q)
           /\ Consistent(q, p) => Consistent(q, Append(p, m))
           /\ Consistent(p, p) => Consistent(Append(p, m), Append(p, m))
           /\ NewestIsLast(Append(p, m), m)
PROOF
  <1> DEFINE a == Append(p, m)
             e == Len(p) + 1
  <1>1. /\ Len(p) \in Nat /\ Len(a) = e /\ a[e] = m /\ Len(q) \in Nat
        /\ \A i \in 1 .. Len(p) : a[i] = p[i]
    BY Places
  <1> HIDE DEF a
  <1>2. \A i \in 1 .. Len(a) : i = e \/ (i \in 1 .. Len(p) /\ a[i] = p[i] /\ a[i] # m /\ i < e)
    BY <1>1
  <1>3. ASSUME Consistent(p, q)
        PROVE  Consistent(a, q)
    <2> SUFFICES ASSUME NEW i \in 1 .. Len(a), NEW j \in 1 .. Len(a),
                        NEW k \in 1 .. Len(q), NEW l \in 1 .. Len(q),
                        i < j, Recorded(a[i]), Recorded(a[j]), q[k] = a[i], q[l] = a[j]
                 PROVE  k < l
      BY DEF Consistent
    <2>1. i \in 1 .. Len(p) /\ a[i] = p[i] /\ a[i] # m
      BY <1>1, <1>2
    <2>2. CASE j = e
      <3>1. q[l] = m /\ k # l /\ ~(l < k)
        BY <1>1, <2>1, <2>2 DEF NewestIsLast
      <3> QED
        BY <3>1
    <2>3. CASE j # e
      BY <1>2, <1>3, <2>1, <2>3 DEF Consistent
    <2> QED
      BY <2>2, <2>3
  <1>4. ASSUME Consistent(q, p)
        PROVE  Consistent(q, a)
    <2> SUFFICES ASSUME NEW i \in 1 .. Len(q), NEW j \in 1 .. Len(q),
                        NEW k \in 1 .. Len(a), NEW l \in 1 .. Len(a),
                        i < j, Recorded(q[i]), Recorded(q[j]), a[k] = q[i], a[l] = q[j]
                 PROVE  k < l
      BY DEF Consistent
    <2>1. k \in 1 .. Len(p) /\ a[k] = p[k] /\ k < e
      BY <1>1, <1>2 DEF NewestIsLast
    <2>2. CASE l = e
      BY <2>1, <2>2
    <2>3. CASE l # e
      BY <1>2, <1>4, <2>1, <2>3 DEF Consistent
    <2> QED
      BY <2>2, <2>3
  <1>5. ASSUME Consistent(p, p)
        PROVE  Consistent(a, a)
    <2> SUFFICES ASSUME NEW i \in 1 .. Len(a), NEW j \in 1 .. Len(a),
                        NEW k \in 1 .. Len(a), NEW l \in 1 .. Len(a),
                        i < j, Recorded(a[i]), Recorded(a[j]), a[k] = a[i], a[l] = a[j]
                 PROVE  k < l
      BY DEF Consistent
    <2>1. i \in 1 .. Len(p) /\ a[i] = p[i] /\ a[i] # m
      BY <1>1, <1>2
    <2>2. k \in 1 .. Len(p) /\ a[k] = p[k] /\ k < e
      BY <1>1, <1>2, <2>1
    <2>3. CASE l = e
      BY <2>2, <2>3
    <2>4. CASE l # e
      <3>1. j \in 1 .. Len(p) /\ a[j] = p[j] /\ l \in 1 .. Len(p) /\ a[l] = p[l]
        BY <1>1, <1>2, <2>4
      <3> QED
        BY <1>5, <2>1, <2>2, <3>1 DEF Consistent
    <2> QED
      BY <2>3, <2>4
  <1>6. NewestIsLast(a, m)
    BY <1>1, <1>2 DEF NewestIsLast
  <1> QED
    BY <1>3, <1>4, <1>5, <1>6 DEF a

\* A worker posts what users see in an order to session r.
PostedTo(w, r) ==
    /\ Visit(w, r) /\ Carries(w) /\ Locked(r)
    /\ Pipeline(r)' = Append(Pipeline(r), frame[w].note)
    /\ \A t \in Session \ {r} : Pipeline(t)' = Pipeline(t)

\* A step adds one such message to one pipeline at most, and reorders none.
LEMMA PipelineSteps ==
    ASSUME Typed, TypeOK', AllAlive, [Next]_vars
    PROVE  \/ \A r \in Session : Within(Pipeline(r)', Pipeline(r))
           \/ \E w \in Worker, r \in Session : PostedTo(w, r)
PROOF
  <1>1. TypeOK /\ \A r \in Session : Pipeline(r) \in Seq(Msg)
    BY PipelineTyped DEF Typed
  <1>2. ASSUME \A r \in Session : Steady(Pipeline(r)', Pipeline(r))
        PROVE  \A r \in Session : Within(Pipeline(r)', Pipeline(r))
    BY <1>1, <1>2, SteadyWithin
  <1>3. ASSUME UNCHANGED <<got, queue_, posted>>
        PROVE  \A r \in Session : Within(Pipeline(r)', Pipeline(r))
    BY <1>2, <1>3, SamePipelines
  <1>4. ASSUME NEW s \in Session, NEW m \in Msg, ~Recorded(m), UNCHANGED <<got, queue_>>,
               posted' = [posted EXCEPT ![s] = Append(@, m)]
        PROVE  \A r \in Session : Within(Pipeline(r)', Pipeline(r))
    BY <1>1, <1>2, <1>4, PostSteady
  <1>5. CASE UNCHANGED vars
    BY <1>3, <1>5 DEF vars, net, hist
  <1>6. ASSUME NEW s \in Session, Connect(s)
        PROVE  \A r \in Session : Within(Pipeline(r)', Pipeline(r))
    BY <1>3, <1>6 DEF Connect, net, hist
  <1>7. ASSUME NEW w \in Worker, AppData(w) \/ EndAppData(w) \/ Snapshot(w)
        PROVE  \A r \in Session : Within(Pipeline(r)', Pipeline(r))
    BY <1>3, <1>7 DEF AppData, EndAppData, Snapshot, net, hist
  <1>8. ASSUME NEW w \in Worker, NEW r \in Session, Visit(w, r)
        PROVE  \/ \A t \in Session : Within(Pipeline(t)', Pipeline(t))
               \/ PostedTo(w, r)
    <2>1. frame[w].note \in Msg /\ UNCHANGED <<got, queue_>>
      BY <1>1, <1>8 DEF TypeOK, Frame, Visit, hist
    <2>2. CASE ~Locked(r)
      BY <1>3, <1>8, <2>1, <2>2 DEF Visit
    <2>3. CASE Locked(r)
      <3>1. posted' = [posted EXCEPT ![r] = Append(@, frame[w].note)]
        BY <1>8, <2>3 DEF Visit
      <3>2. CASE Carries(w)
        BY <1>1, <1>8, <2>1, <2>3, <3>1, <3>2, PostPipeline DEF PostedTo
      <3>3. CASE ~Carries(w)
        BY <1>4, <2>1, <3>1, <3>3 DEF Carries
      <3> QED
        BY <3>2, <3>3
    <2> QED
      BY <2>2, <2>3
  <1>9. ASSUME NEW w \in Worker, NEW s \in Session,
               StoreUid(w, s) \/ Reject(w, s) \/ OnReadNotJson(w, s)
        PROVE  \A r \in Session : Within(Pipeline(r)', Pipeline(r))
    <2>1. frame[w].val \in Nat
      BY <1>1 DEF TypeOK, Frame
    <2>2. /\ Message("hello", Nobody, frame[w].val) \in Msg /\ ~Recorded(Message("hello", Nobody, frame[w].val))
          /\ Message("error", Nobody, 0) \in Msg /\ ~Recorded(Message("error", Nobody, 0))
      BY <2>1, MessagesTyped DEF Recorded, Message
    <2> QED
      BY <1>4, <1>9, <2>2 DEF StoreUid, Reject, OnReadNotJson, hist
  <1>10. ASSUME NEW w \in Worker, NEW s \in Session,
                LoadUid(w, s) \/ OpenCount(w, s) \/ CloseCount(w, s) \/ EndNotice(w, s)
                  \/ EchoApp(w, s) \/ EndRead(w, s)
         PROVE  \A r \in Session : Within(Pipeline(r)', Pipeline(r))
    BY <1>3, <1>10 DEF LoadUid, OpenCount, CloseCount, EndNotice, EchoApp, EndRead, net, hist
  <1>11. ASSUME NEW w \in Worker, NEW s \in Session, Leave(w, s)
         PROVE  \A r \in Session : Within(Pipeline(r)', Pipeline(r))
    <2>1. Pipeline(s)' \in Seq(Msg)
      <3>1. got'[s] \in Seq(Msg) /\ queue_'[s] \in Seq(Msg) /\ posted'[s] \in Seq(Msg)
        BY DEF TypeOK
      <3>2. got'[s] \o queue_'[s] \in Seq(Msg)
        BY <3>1, ConcatProperties
      <3> QED
        BY <3>1, <3>2, ConcatProperties DEF Pipeline
    <2> QED
      BY <1>1, <1>11, <2>1, LeavePipeline, SteadyWithin DEF Steady
  <1>12. ASSUME NEW w \in Worker, NEW s \in Session, NEW after \in After,
                \/ OnAccept(w, s) \/ OnAcceptClosed(w, s) \/ OnAcceptError(w, s)
                \/ OnReadMessage(w, s, after)
                \/ OnReadClosed(w, s) \/ OnReadError(w, s) \/ OnReadAborted(w, s)
                \/ OnWriteError(w, s) \/ OnWriteAborted(w, s)
         PROVE  \A r \in Session : Within(Pipeline(r)', Pipeline(r))
    BY <1>3, <1>12 DEF OnAccept, OnAcceptClosed, OnAcceptError, OnReadMessage, OnReadClosed,
                       OnReadError, OnReadAborted, OnWriteError, OnWriteAborted, hist
  <1>13. ASSUME NEW w \in Worker, NEW s \in Session, Writing(w, s) \/ OnWriteOk(w, s)
         PROVE  \A r \in Session : Within(Pipeline(r)', Pipeline(r))
    <2>1. \A r \in Session : Steady(Pipeline(r)', Pipeline(r))
      BY <1>1, <1>13, WritingPipeline, WrittenPipeline DEF Steady
    <2> QED
      BY <1>2, <2>1
  <1>14. ASSUME NEW w \in Worker, Continue(w)
         PROVE  \/ \A r \in Session : Within(Pipeline(r)', Pipeline(r))
                \/ \E r \in Session : PostedTo(w, r)
    BY <1>7, <1>8, <1>9, <1>10, <1>11, <1>14 DEF Continue
  <1>15. ASSUME NEW w \in Worker, NEW s \in Session, Environment(w, s) \/ Handler(w, s)
         PROVE  \A r \in Session : Within(Pipeline(r)', Pipeline(r))
    BY <1>9, <1>12, <1>13, <1>15 DEF Environment, Handler, After
  <1> QED
    BY <1>5, <1>6, <1>7, <1>14, <1>15 DEF Next

(***************************************************************************)
(* A message that no one has been sent yet.                                *)
(***************************************************************************)
Fresh(m) ==
    \/ m.type = "relay" /\ m.n = sent[m.from] + 1
    \/ m.type = "reply" /\ m.n = sent[m.from] /\ Relaying(m.from)

\* After the step the worker carries nothing, or what it carried before.
Kept(w) == ~Carries(w)' \/ (Carries(w) /\ frame'[w].note = frame[w].note)

\* A handler that ends, or enters a statement other than the loop, carries nothing.
LEMMA PassiveKept ==
    ASSUME TypeOK, NEW w \in Worker, NEW f, frame' = [frame EXCEPT ![w] = f],
           ~Recorded(f.note) \/ f.note = frame[w].note
    PROVE  \A v \in Worker : Kept(v)
PROOF
  <1>1. frame'[w] = f /\ \A v \in Worker \ {w} : frame'[v] = frame[v]
    BY DEF TypeOK
  <1> QED
    BY <1>1 DEF Kept, Carries

\* What a worker carries after a step it carried before, or it is new.
LEMMA CarriedSteps ==
    ASSUME TypeOK, TypeOK', NotesCurrent, [Next]_vars
    PROVE  \A v \in Worker : Kept(v) \/ Fresh(frame'[v].note)
PROOF
  <1>1. CASE UNCHANGED frame
    BY <1>1 DEF Kept, Carries
  <1>2. ~Recorded(Idle.note) /\ \A p, s : ~Recorded(Enter(p, s).note)
    BY DEF Idle, Enter, Message, Recorded
  <1>3. \A a, m, t : WriteAll(a, m, t).note = m
    BY DEF WriteAll, Enter, Idle
  <1>4. ASSUME NEW w \in Worker, NEW s \in Session, Release(w, s)
        PROVE  \A v \in Worker : Kept(v)
    BY <1>2, <1>4, PassiveKept DEF Release
  <1>5. ASSUME NEW w \in Worker, AppData(w)
        PROVE  \A v \in Worker : Kept(v) \/ Fresh(frame'[v].note)
    <2>1. /\ frame' = [frame EXCEPT ![w] = WriteAll(Nobody, Message("relay", Nobody, sent'[Nobody]), "return")]
          /\ sent'[Nobody] = sent[Nobody] + 1
      BY <1>5 DEF TypeOK, AppData, Author
    <2>2. /\ frame'[w].note = Message("relay", Nobody, sent[Nobody] + 1)
          /\ \A v \in Worker \ {w} : frame'[v] = frame[v]
      BY <1>3, <2>1 DEF TypeOK
    <2> QED
      BY <2>2 DEF Kept, Carries, Fresh, Message
  <1>6. ASSUME NEW w \in Worker, Snapshot(w) \/ EndAppData(w) \/ \E r \in Session : Visit(w, r)
        PROVE  \A v \in Worker : Kept(v)
    <2>1. frame[w] \in Frame
      BY DEF TypeOK
    <2>2. CASE Snapshot(w)
      <3>1. PICK f : f = [frame[w] EXCEPT !.todo = share_, !.at = "visit"]
        OBVIOUS
      <3>2. f.note = frame[w].note
        BY <2>1, <3>1 DEF Frame
      <3>3. frame' = [frame EXCEPT ![w] = f]
        BY <2>2, <3>1 DEF TypeOK, Snapshot
      <3> QED
        BY <3>2, <3>3, PassiveKept
    <2>3. ASSUME NEW r \in Session, Visit(w, r)
          PROVE  \A v \in Worker : Kept(v)
      <3>1. PICK f : f = [frame[w] EXCEPT !.todo = @ \ {r}]
        OBVIOUS
      <3>2. f.note = frame[w].note
        BY <2>1, <3>1 DEF Frame
      <3>3. frame' = [frame EXCEPT ![w] = f]
        BY <2>3, <3>1 DEF TypeOK, Visit
      <3> QED
        BY <3>2, <3>3, PassiveKept
    <2> QED
      BY <1>2, <1>6, <2>2, <2>3, PassiveKept DEF EndAppData
  <1>7. ASSUME NEW w \in Worker, NEW s \in Session,
               \/ LoadUid(w, s) \/ StoreUid(w, s) \/ OpenCount(w, s) \/ CloseCount(w, s)
               \/ EndNotice(w, s) \/ Reject(w, s) \/ EndRead(w, s) \/ Leave(w, s)
        PROVE  \A v \in Worker : Kept(v)
    <2>1. CASE LoadUid(w, s)
      <3>1. PICK f : f = [frame[w] EXCEPT !.val = userid, !.at = "store_uid"]
        OBVIOUS
      <3>2. frame[w] \in Frame
        BY DEF TypeOK
      <3>3. f.note = frame[w].note
        BY <3>1, <3>2 DEF Frame
      <3>4. frame' = [frame EXCEPT ![w] = f]
        BY <2>1, <3>1 DEF TypeOK, LoadUid
      <3> QED
        BY <3>3, <3>4, PassiveKept
    <2>2. CASE OpenCount(w, s) \/ CloseCount(w, s)
      <3>1. PICK k : frame' = [frame EXCEPT ![w] = WriteAll(s, Message("nusers", Nobody, k), "return")]
        BY <2>2 DEF OpenCount, CloseCount
      <3>2. ~Recorded(WriteAll(s, Message("nusers", Nobody, k), "return").note)
        BY <1>3 DEF Message, Recorded
      <3> QED
        BY <3>1, <3>2, PassiveKept
    <2> QED
      BY <1>2, <1>4, <1>7, <2>1, <2>2, PassiveKept DEF StoreUid, EndNotice, Reject, EndRead, Leave
  <1>8. ASSUME NEW w \in Worker, NEW s \in Session, EchoApp(w, s)
        PROVE  \A v \in Worker : Kept(v) \/ Fresh(frame'[v].note)
    <2>1. /\ frame[w].ws = s /\ frame[w].then = "echo_app"
          /\ frame' = [frame EXCEPT ![w] = WriteAll(s, Message("reply", s, frame[w].note.n), "do_read")]
      BY <1>8 DEF EchoApp, LoopEnded, At
    <2>2. /\ frame'[w].note = Message("reply", s, frame[w].note.n)
          /\ \A v \in Worker \ {w} : frame'[v] = frame[v]
      BY <1>3, <2>1 DEF TypeOK
    <2>3. RelayOf(frame[w].note, s) /\ frame[w].note.n = sent[s]
      BY <2>1 DEF NotesCurrent, Carries, Recorded, RelayOf
    <2> QED
      BY <2>2, <2>3 DEF Kept, Carries, Fresh, Message, Relaying
  <1>9. ASSUME NEW w \in Worker, NEW s \in Session, NEW after \in After, OnReadMessage(w, s, after)
        PROVE  \A v \in Worker : Kept(v) \/ Fresh(frame'[v].note)
    <2>1. /\ frame' = [frame EXCEPT ![w] = WriteAll(s, Message("relay", s, sent'[s]), after)]
          /\ sent'[s] = sent[s] + 1
      BY <1>9 DEF TypeOK, OnReadMessage, Author
    <2>2. /\ frame'[w].note = Message("relay", s, sent[s] + 1)
          /\ \A v \in Worker \ {w} : frame'[v] = frame[v]
      BY <1>3, <2>1 DEF TypeOK
    <2> QED
      BY <2>2 DEF Kept, Carries, Fresh, Message
  <1>10. ASSUME NEW w \in Worker, NEW s \in Session,
                \/ OnAccept(w, s) \/ OnAcceptClosed(w, s) \/ OnAcceptError(w, s)
                \/ OnReadNotJson(w, s) \/ OnReadClosed(w, s) \/ OnReadError(w, s) \/ OnReadAborted(w, s)
                \/ Writing(w, s) \/ OnWriteOk(w, s) \/ OnWriteError(w, s) \/ OnWriteAborted(w, s)
         PROVE  \A v \in Worker : Kept(v)
    <2>1. \/ UNCHANGED frame \/ Release(w, s)
          \/ \E p \in Point : frame' = [frame EXCEPT ![w] = Enter(p, s)]
      BY <1>10 DEF OnAccept, OnAcceptClosed, OnAcceptError, OnReadNotJson, OnReadClosed, OnReadError,
                   OnReadAborted, Writing, OnWriteOk, OnWriteError, OnWriteAborted, Point
    <2> QED
      BY <1>2, <1>4, <2>1, PassiveKept DEF Kept, Carries
  <1>11. ASSUME NEW w \in Worker, Continue(w)
         PROVE  \A v \in Worker : Kept(v) \/ Fresh(frame'[v].note)
    BY <1>6, <1>7, <1>8, <1>11 DEF Continue
  <1>12. ASSUME NEW w \in Worker, NEW s \in Session, Environment(w, s) \/ Handler(w, s)
         PROVE  \A v \in Worker : Kept(v) \/ Fresh(frame'[v].note)
    BY <1>9, <1>10, <1>12 DEF Environment, Handler, After
  <1> QED
    BY <1>1, <1>5, <1>11, <1>12 DEF Next, Connect, vars

\* What a client has received of the messages that users see in an order is all of that kind.
LEMMA GotKept ==
    ASSUME Typed, GotRecorded, [Next]_vars
    PROVE  GotRecorded'
PROOF
  <1>1. CASE UNCHANGED got
    BY <1>1 DEF GotRecorded
  <1>2. ASSUME NEW w \in Worker, NEW s \in Session, OnWriteOk(w, s)
        PROVE  GotRecorded'
    <2> DEFINE m == Head(queue_[s])
    <2>1. queue_[s] # <<>> /\ queue_[s] \in Seq(Msg) /\ got \in [Session -> Seq(Msg)]
      BY <1>2 DEF Typed, TypeOK, FrontIsSent, OnWriteOk
    <2>2. m \in Msg
      BY <2>1
    <2>3. got' = IF Recorded(m) THEN [got EXCEPT ![s] = Append(@, m)] ELSE got
      BY <1>2 DEF OnWriteOk, Recorded
    <2> HIDE DEF m
    <2>4. CASE Recorded(m)
      <3> SUFFICES ASSUME NEW r \in Session, NEW i \in 1 .. Len(got'[r]) PROVE Recorded(got'[r][i])
        BY DEF GotRecorded
      <3>1. CASE r = s
        <4>1. got'[r] = Append(got[r], m) /\ got[r] \in Seq(Msg)
          BY <2>1, <2>3, <2>4, <3>1
        <4>2. (i \in 1 .. Len(got[r]) /\ got'[r][i] = got[r][i]) \/ got'[r][i] = m
          BY <2>2, <4>1, Places
        <4> QED
          BY <2>4, <4>2 DEF GotRecorded
      <3>2. CASE r # s
        BY <2>1, <2>3, <2>4, <3>2 DEF GotRecorded
      <3> QED
        BY <3>1, <3>2
    <2>5. CASE ~Recorded(m)
      BY <1>1, <2>3, <2>5
    <2> QED
      BY <2>4, <2>5
  <1>3. ASSUME NEW w \in Worker, Continue(w) \/ AppData(w)
        PROVE  UNCHANGED got
    BY <1>3 DEF Continue, Snapshot, EndAppData, Visit, LoadUid, StoreUid, OpenCount, CloseCount,
                EndNotice, Reject, EchoApp, EndRead, Leave, AppData, hist
  <1>4. ASSUME NEW w \in Worker, NEW s \in Session, Environment(w, s) \/ Handler(w, s)
        PROVE  UNCHANGED got \/ OnWriteOk(w, s)
    BY <1>4 DEF Environment, Handler, OnAcceptClosed, OnAcceptError, OnReadNotJson, OnReadMessage,
                OnReadClosed, OnReadError, OnWriteError, OnAccept, OnReadAborted, Writing,
                OnWriteAborted, hist
  <1> QED
    BY <1>1, <1>2, <1>3, <1>4 DEF Next, Connect, vars, hist

\* A message that no one has been sent is in no pipeline.
LEMMA FreshIsNew ==
    ASSUME TypeOK, AllOrdered, NEW m, Recorded(m), NEW t \in Session,
           \/ Fresh(m)
           \/ Due(t, m.type, m.from) /\ m.n = sent[m.from]
    PROVE  \A i \in 1 .. Len(Pipeline(t)) : Pipeline(t)[i] # m
PROOF
  <1> SUFFICES ASSUME NEW i \in 1 .. Len(Pipeline(t)), Pipeline(t)[i] = m PROVE FALSE
    OBVIOUS
  <1>1. Numbered(Pipeline(t), t)
    BY DEF AllOrdered, Ordered
  <1>2. m \in Msg
    BY PipelineTyped
  <1>3. m.n \in Nat /\ m.from \in Author /\ sent[m.from] \in Nat
    BY <1>2 DEF Msg, TypeOK
  <1> QED
    BY <1>1, <1>3 DEF Numbered, Fresh, Recorded

\* With one worker, every step keeps the order of all.
LEMMA NextOneOrder ==
    ASSUME OneWorker, Typed, TypeOK', AllAlive, AllOrdered, OneOrder, [Next]_vars
    PROVE  OneOrder'
PROOF
  <1>1. TypeOK /\ NotesCurrent /\ \A r \in Session : Pipeline(r) \in Seq(Msg)
    BY PipelineTyped DEF Typed, AllOrdered
  <1>2. GotRecorded'
    BY GotKept DEF OneOrder
  <1>3. ASSUME NEW v \in Worker, Carries(v)', NEW t \in Session
        PROVE  NewestIsLast(Pipeline(t), frame'[v].note)
    <2>1. CASE Kept(v)
      BY <1>3, <2>1 DEF Kept, OneOrder
    <2>2. CASE Fresh(frame'[v].note)
      BY <1>1, <1>3, <2>2, FreshIsNew DEF Carries, NewestIsLast
    <2> QED
      BY <1>1, <2>1, <2>2, CarriedSteps
  <1>4. CASE \A r \in Session : Within(Pipeline(r)', Pipeline(r))
    <2>1. ASSUME NEW r \in Session, NEW t \in Session
          PROVE  Consistent(Pipeline(r), Pipeline(t))'
      <3>1. PICK p, q : p = Pipeline(r)' /\ q = Pipeline(t)'
        OBVIOUS
      <3>2. Consistent(p, q)
        BY <1>4, <3>1, WithinKeeps DEF OneOrder
      <3> QED
        BY <3>1, <3>2
    <2>2. ASSUME NEW w \in Worker, Carries(w)', NEW t \in Session
          PROVE  NewestIsLast(Pipeline(t), frame[w].note)'
      <3>1. PICK p : p = Pipeline(t)'
        OBVIOUS
      <3>2. NewestIsLast(p, frame'[w].note)
        BY <1>3, <1>4, <2>2, <3>1, WithinKeeps DEF Carries
      <3> QED
        BY <3>1, <3>2
    <2> QED
      BY <1>2, <2>1, <2>2 DEF OneOrder
  <1>5. ASSUME NEW w \in Worker, NEW r \in Session, PostedTo(w, r)
        PROVE  OneOrder'
    <2>1. PICK m : m = frame[w].note
      OBVIOUS
    <2>2. PICK p : p = Pipeline(r)
      OBVIOUS
    <2>3. /\ m \in Msg /\ Recorded(m) /\ p \in Seq(Msg)
          /\ Pipeline(r)' = Append(p, m) /\ \A t \in Session \ {r} : Pipeline(t)' = Pipeline(t)
      BY <1>1, <1>5, <2>1, <2>2 DEF PostedTo, Carries, TypeOK, Frame
    <2>4. \A i \in 1 .. Len(p) : p[i] # m
      <3>1. Due(r, m.type, m.from) /\ m.n = sent[m.from]
        BY <1>1, <1>5, <2>1 DEF PostedTo, Visit, Due, NotesCurrent
      <3> QED
        BY <1>1, <2>2, <2>3, <3>1, FreshIsNew
    <2>5. \A t \in Session : NewestIsLast(Pipeline(t), m)
      BY <1>5, <2>1 DEF PostedTo, OneOrder
    <2>6. ASSUME NEW t \in Session
          PROVE  /\ Consistent(Append(p, m), Pipeline(t)) /\ Consistent(Pipeline(t), Append(p, m))
                 /\ Consistent(Append(p, m), Append(p, m))
                 /\ NewestIsLast(Append(p, m), m)
      <3>1. Consistent(p, Pipeline(t)) /\ Consistent(Pipeline(t), p) /\ Consistent(p, p)
        BY <2>2 DEF OneOrder
      <3> QED
        BY <1>1, <2>3, <2>4, <2>5, <3>1, AppendConsistent
    <2>7. ASSUME NEW t \in Session, NEW u \in Session
          PROVE  Consistent(Pipeline(t), Pipeline(u))'
      <3>1. PICK q1, q2 : q1 = Pipeline(t)' /\ q2 = Pipeline(u)'
        OBVIOUS
      <3>2. Consistent(Pipeline(t), Pipeline(u))
        BY DEF OneOrder
      <3>3. Consistent(q1, q2)
        BY <2>3, <2>6, <3>1, <3>2
      <3> QED
        BY <3>1, <3>3
    <2>8. ASSUME NEW v \in Worker, Carries(v)', NEW t \in Session
          PROVE  NewestIsLast(Pipeline(t), frame[v].note)'
      <3>1. frame'[v].note = m
        <4>1. v = w
          BY DEF OneWorker
        <4>2. PICK f : f = [frame[w] EXCEPT !.todo = @ \ {r}]
          OBVIOUS
        <4>3. frame'[w] = f /\ f.note = frame[w].note
          BY <1>1, <1>5, <4>2 DEF PostedTo, Visit, TypeOK, Frame
        <4> QED
          BY <2>1, <4>1, <4>3
      <3>2. PICK q : q = Pipeline(t)'
        OBVIOUS
      <3>3. NewestIsLast(q, m)
        BY <2>3, <2>5, <2>6, <3>2
      <3> QED
        BY <3>1, <3>2, <3>3
    <2> QED
      BY <1>2, <2>7, <2>8 DEF OneOrder
  <1> QED
    BY <1>4, <1>5, PipelineSteps

(***************************************************************************)
(* With one worker all clients receive the relayed messages and the echo's *)
(* answers in one order: what is written to all has been posted to all     *)
(* before the next is begun.                                               *)
(***************************************************************************)
THEOREM AllInOneOrder ==
    ASSUME OneWorker
    PROVE  Spec => []SameOrder
PROOF
  <1>1. Init => Typed /\ AllAlive /\ AllOrdered /\ OneOrder
    <2> SUFFICES ASSUME Init PROVE OneOrder
      BY InitTyped, InitAlive, InitOrdered
    <2>1. \A r \in Session : Pipeline(r) = <<>> /\ got[r] = <<>>
      BY DEF Init, Pipeline
    <2>2. Len(<<>>) = 0
      OBVIOUS
    <2>3. \A w \in Worker : ~Carries(w)
      BY DEF Init, Idle, Carries, Recorded, Message
    <2> QED
      BY <2>1, <2>2, <2>3 DEF OneOrder, Consistent, GotRecorded
  <1>2. Typed /\ AllAlive /\ AllOrdered /\ OneOrder /\ [Next]_vars
            => (Typed /\ AllAlive /\ AllOrdered /\ OneOrder)'
    <2> SUFFICES ASSUME Typed, AllAlive, AllOrdered, OneOrder, [Next]_vars
                 PROVE  Typed' /\ AllAlive' /\ AllOrdered' /\ OneOrder'
      OBVIOUS
    <2>1. Typed' /\ AllAlive' /\ AllOrdered'
      BY NextTyped, NextAlive, NextOrdered
    <2>2. TypeOK'
      BY <2>1 DEF Typed
    <2> QED
      BY <2>1, <2>2, NextOneOrder
  <1>3. Typed /\ OneOrder => SameOrder
    <2> SUFFICES ASSUME Typed, OneOrder, NEW r \in Session, NEW t \in Session,
                        NEW i \in 1 .. Len(got[r]), NEW j \in 1 .. Len(got[r]),
                        NEW k \in 1 .. Len(got[t]), NEW l \in 1 .. Len(got[t]),
                        i < j, got[t][k] = got[r][i], got[t][l] = got[r][j]
                 PROVE  k < l
      BY DEF SameOrder
    <2>1. ASSUME NEW u \in Session, NEW o \in 1 .. Len(got[u])
          PROVE  o \in 1 .. Len(Pipeline(u)) /\ Pipeline(u)[o] = got[u][o]
      <3>1. /\ got[u] \in Seq(Msg) /\ queue_[u] \in Seq(Msg) /\ posted[u] \in Seq(Msg)
            /\ got[u] \o queue_[u] \in Seq(Msg)
        BY PipelineTyped, ConcatProperties DEF Typed
      <3>2. o \in 1 .. Len(got[u] \o queue_[u]) /\ (got[u] \o queue_[u])[o] = got[u][o]
        BY <3>1, ConcatFront
      <3> QED
        BY <3>1, <3>2, ConcatFront DEF Pipeline
    <2>2. Recorded(got[r][i]) /\ Recorded(got[r][j])
      BY DEF OneOrder, GotRecorded
    <2>3. Consistent(Pipeline(r), Pipeline(t))
      BY DEF OneOrder
    <2>4. /\ i \in 1 .. Len(Pipeline(r)) /\ j \in 1 .. Len(Pipeline(r))
          /\ k \in 1 .. Len(Pipeline(t)) /\ l \in 1 .. Len(Pipeline(t))
          /\ Pipeline(r)[i] = got[r][i] /\ Pipeline(r)[j] = got[r][j]
          /\ Pipeline(t)[k] = got[t][k] /\ Pipeline(t)[l] = got[t][l]
      BY <2>1
    <2> QED
      BY <2>2, <2>3, <2>4 DEF Consistent
  <1> QED
    BY <1>1, <1>2, <1>3, PTL DEF Spec
-----------------------------------------------------------------------------
(***************************************************************************)
(* The number of users.  A count is about to be taken again whenever one   *)
(* may be too low; otherwise the last count that each connected session is *)
(* sent, or is about to be sent, is high enough.                           *)
(***************************************************************************)
Backlog(s) == queue_[s] \o posted[s]

\* The last count in the sequence p, or x if there is none, is n at least.
EnoughIn(p, x, n) ==
    /\ \A i \in 1 .. Len(p) :
          p[i].type = "nusers" /\ (\A k \in 1 .. Len(p) : i < k => p[k].type # "nusers")
              => p[i].n >= n
    /\ (\A i \in 1 .. Len(p) : p[i].type # "nusers") => x >= n

\* The last count that s is sent is n at least.
Shows(s, n) == EnoughIn(Backlog(s), shown[s], n)

\* The worker writes a count to all; or it will take one and write it.
Tells(w) == frame[w].note.type = "nusers"
Counting == {"load_uid", "store_uid", "open_count", "close_count"}
Recounts(w) == frame[w].at \in Counting \/ (frame[w].at = "snapshot" /\ Tells(w))

\* N users are connected: unless they are counted again, all are told of N or more.
ShownIsEnough ==
    LET N == Cardinality(Connected)
    IN  /\ (\A w \in Worker : ~Recounts(w)) =>
               \A s \in Connected :
                   Shows(s, N) \/ \E w \in Worker : Tells(w) /\ s \in frame[w].todo
        /\ \A w \in Worker : Tells(w) => frame[w].note.n >= N

\* Outside the loop of exec_to_all a handler has nothing left to write or to do after it.
Straight ==
    \A w \in Worker : frame[w].at \notin {"snapshot", "visit"} =>
                          frame[w].then = "return" /\ ~Tells(w)

(***************************************************************************)
(* What a session that is connected is doing: it reads, or a handler of it *)
(* will have it read again; it writes as long as something is queued.  A   *)
(* handler announces the end of a session only when its stream is down.    *)
(***************************************************************************)
Serves(s) ==
    /\ conn[s] \in Unjoined =>
          ~reading[s] /\ ~sending[s] /\ posted[s] = <<>> /\ queue_[s] = <<>>
    /\ conn[s] = "open" /\ stream[s] = "open" =>
          /\ queue_[s] # <<>> => sending[s]
          /\ reading[s] \/ \E w \in Worker : frame[w].ws = s /\ frame[w].then # "return"
    /\ \A w \in Worker : frame[w].ws = s =>
          /\ frame[w].at # "leave" => conn[s] = "open"
          /\ frame[w].at = "close_count" => stream[s] # "open"

AllServe == \A s \in Session : Serves(s)

\* The invariant of the counts.
EnoughShown == Straight /\ AllServe /\ ShownIsEnough
\* A message that is no count leaves the last count as it is; a count is the last one.
LEMMA AppendEnough ==
    ASSUME NEW p \in Seq(Msg), NEW m \in Msg, NEW x, NEW n,
           \/ m.type # "nusers" /\ EnoughIn(p, x, n)
           \/ m.type = "nusers" /\ m.n >= n
    PROVE  EnoughIn(Append(p, m), x, n)
PROOF
  <1> DEFINE e == Len(p) + 1
  <1>0. PICK q : q = Append(p, m)
    OBVIOUS
  <1>1. /\ Len(p) \in Nat /\ Len(q) = e /\ q[e] = m
        /\ \A i \in 1 .. Len(p) : i \in 1 .. Len(q) /\ q[i] = p[i]
    BY <1>0, Places
  <1>2. CASE m.type # "nusers" /\ EnoughIn(p, x, n)
    <2>1. ASSUME NEW i \in 1 .. Len(q), q[i].type = "nusers",
                 \A k \in 1 .. Len(q) : i < k => q[k].type # "nusers"
          PROVE  q[i].n >= n
      <3>1. i \in 1 .. Len(p)
        BY <1>1, <1>2, <2>1
      <3>2. p[i].type = "nusers" /\ \A k \in 1 .. Len(p) : i < k => p[k].type # "nusers"
        BY <1>1, <2>1, <3>1
      <3>3. p[i].n >= n
        BY <1>2, <3>1, <3>2 DEF EnoughIn
      <3> QED
        BY <1>1, <3>1, <3>3
    <2>2. (\A i \in 1 .. Len(q) : q[i].type # "nusers") => x >= n
      BY <1>1, <1>2 DEF EnoughIn
    <2> QED
      BY <1>0, <2>1, <2>2 DEF EnoughIn
  <1>3. CASE m.type = "nusers" /\ m.n >= n
    <2>1. e \in 1 .. Len(q) /\ \A i \in 1 .. Len(q) : i = e \/ i < e
      BY <1>1
    <2> QED
      BY <1>0, <1>1, <1>3, <2>1 DEF EnoughIn
  <1> QED
    BY <1>2, <1>3

\* The first message is written: if it is a count, it is the one that is shown.
LEMMA TailEnough ==
    ASSUME NEW p \in Seq(Msg), p # <<>>, NEW x, NEW n, EnoughIn(p, x, n)
    PROVE  EnoughIn(Tail(p), IF Head(p).type = "nusers" THEN Head(p).n ELSE x, n)
PROOF
  <1> DEFINE y == IF Head(p).type = "nusers" THEN Head(p).n ELSE x
  <1>0. PICK q : q = Tail(p)
    OBVIOUS
  <1>1. /\ Len(p) \in Nat /\ 1 \in 1 .. Len(p) /\ p[1] = Head(p) /\ Len(q) = Len(p) - 1
        /\ \A i \in 1 .. Len(q) : q[i] = p[i + 1] /\ i + 1 \in 1 .. Len(p)
    BY <1>0
  <1>2. \A k \in 1 .. Len(p) : k # 1 => k - 1 \in 1 .. Len(q) /\ q[k - 1] = p[k]
    BY <1>1
  <1>3. ASSUME NEW i \in 1 .. Len(q), q[i].type = "nusers",
               \A k \in 1 .. Len(q) : i < k => q[k].type # "nusers"
        PROVE  q[i].n >= n
    <2>1. ASSUME NEW k \in 1 .. Len(p), i + 1 < k
          PROVE  p[k].type # "nusers"
      <3>1. k - 1 \in 1 .. Len(q) /\ i < k - 1 /\ q[k - 1] = p[k]
        BY <1>1, <1>2, <2>1
      <3> QED
        BY <1>3, <3>1
    <2>2. PICK j \in 1 .. Len(p) : j = i + 1 /\ q[i] = p[j]
      BY <1>1
    <2> QED
      BY <1>3, <2>1, <2>2 DEF EnoughIn
  <1>4. ASSUME \A i \in 1 .. Len(q) : q[i].type # "nusers"
        PROVE  y >= n
    <2>1. \A k \in 1 .. Len(p) : k # 1 => p[k].type # "nusers"
      BY <1>2, <1>4
    <2>2. CASE p[1].type = "nusers"
      <3>1. \A k \in 1 .. Len(p) : 1 < k => p[k].type # "nusers"
        BY <2>1
      <3> QED
        BY <1>1, <2>2, <3>1 DEF EnoughIn
    <2>3. CASE p[1].type # "nusers"
      BY <1>1, <2>1, <2>3 DEF EnoughIn
    <2> QED
      BY <2>2, <2>3
  <1> HIDE DEF y
  <1>5. EnoughIn(q, y, n)
    BY <1>3, <1>4 DEF EnoughIn
  <1> QED
    BY <1>0, <1>5 DEF y

\* What is enough for many users is enough for fewer.
LEMMA FewerEnough ==
    ASSUME NEW p \in Seq(Msg), NEW x \in Nat, NEW n \in Nat, NEW k \in Nat, k <= n, EnoughIn(p, x, n)
    PROVE  EnoughIn(p, x, k)
PROOF
  <1>0. \A i \in 1 .. Len(p) : p[i] \in Msg
    OBVIOUS
  <1>1. \A i \in 1 .. Len(p) : p[i].n \in Nat
    BY <1>0 DEF Msg
  <1> QED
    BY <1>1 DEF EnoughIn

\* What becomes of the backlog when the first of the queue has been written.
LEMMA TailConcat ==
    ASSUME NEW p \in Seq(Msg), NEW q \in Seq(Msg), p # <<>>
    PROVE  p \o q # <<>> /\ Head(p \o q) = Head(p) /\ Tail(p \o q) = Tail(p) \o q
PROOF
  <1>1. /\ Head(p) \in Msg /\ <<Head(p)>> \in Seq(Msg) /\ Tail(p) \in Seq(Msg)
        /\ <<Head(p)>> \o Tail(p) = p
    BY HeadTailProperties, HeadMoves, ConcatEmptySeq, HeadTailAppend, ConcatProperties, SeqEqual
  <1>2. p \o q = <<Head(p)>> \o (Tail(p) \o q)
    BY <1>1, ConcatAssociative
  <1>3. Tail(p) \o q \in Seq(Msg)
    BY <1>1, ConcatProperties
  <1>4. \A h \in Msg, t \in Seq(Msg) : <<h>> \o t # <<>> /\ Head(<<h>> \o t) = h /\ Tail(<<h>> \o t) = t
    <2> SUFFICES ASSUME NEW h \in Msg, NEW t \in Seq(Msg)
                 PROVE  <<h>> \o t # <<>> /\ Head(<<h>> \o t) = h /\ Tail(<<h>> \o t) = t
      OBVIOUS
    <2>1. PICK c : c = <<h>> \o t
      OBVIOUS
    <2>2. c \in Seq(Msg) /\ Len(c) = 1 + Len(t) /\ c[1] = h /\ \A i \in 1 .. Len(t) : c[i + 1] = t[i]
      BY <2>1, ConcatProperties
    <2>3. c # <<>> /\ Head(c) = h /\ Tail(c) \in Seq(Msg) /\ Len(Tail(c)) = Len(t)
      BY <2>2
    <2>4. \A i \in 1 .. Len(t) : Tail(c)[i] = t[i]
      BY <2>2, <2>3
    <2>5. Tail(c) = t
      BY <2>3, <2>4, SeqEqual
    <2> QED
      BY <2>1, <2>3, <2>5
  <1> QED
    BY <1>1, <1>2, <1>3, <1>4

(***************************************************************************)
(* What is posted makes the backlog longer, what moves from the strand to  *)
(* the queue leaves it as it is, and what is written is its head.          *)
(***************************************************************************)

\* What is not yet written comes after what is received.
LEMMA BacklogLast ==
    ASSUME TypeOK, NEW s \in Session
    PROVE  Backlog(s) \in Seq(Msg) /\ Pipeline(s) = got[s] \o Backlog(s)
PROOF
  <1>1. got[s] \in Seq(Msg) /\ queue_[s] \in Seq(Msg) /\ posted[s] \in Seq(Msg)
    BY DEF TypeOK
  <1>2. \A p, q, r \in Seq(Msg) : (p \o q) \o r = p \o (q \o r)
    BY ConcatAssociative
  <1>3. (got[s] \o queue_[s]) \o posted[s] = got[s] \o (queue_[s] \o posted[s])
    BY <1>1, <1>2
  <1>4. queue_[s] \o posted[s] \in Seq(Msg)
    BY <1>1, ConcatProperties
  <1> QED
    BY <1>3, <1>4 DEF Pipeline, Backlog

\* write() posts a message to one session.
LEMMA BacklogPosted ==
    ASSUME TypeOK, NEW s \in Session, NEW m \in Msg, UNCHANGED queue_,
           posted' = [posted EXCEPT ![s] = Append(@, m)]
    PROVE  \A r \in Session :
              /\ Backlog(r) \in Seq(Msg)
              /\ Backlog(r)' = IF r = s THEN Append(Backlog(r), m) ELSE Backlog(r)
PROOF
  <1> SUFFICES ASSUME NEW r \in Session
               PROVE  /\ Backlog(r) \in Seq(Msg)
                      /\ Backlog(r)' = IF r = s THEN Append(Backlog(r), m) ELSE Backlog(r)
    OBVIOUS
  <1>1. queue_[r] \in Seq(Msg) /\ posted[r] \in Seq(Msg)
    BY DEF TypeOK
  <1>2. posted'[r] = IF r = s THEN Append(posted[r], m) ELSE posted[r]
    BY DEF TypeOK
  <1>3. queue_[r] \o Append(posted[r], m) = Append(queue_[r] \o posted[r], m)
    BY <1>1, AppendConcat
  <1>4. queue_[r] \o posted[r] \in Seq(Msg)
    BY <1>1, ConcatProperties
  <1>5. CASE r = s
    BY <1>2, <1>3, <1>4, <1>5 DEF Backlog
  <1>6. CASE r # s
    <2>1. queue_'[r] = queue_[r] /\ posted'[r] = posted[r]
      BY <1>2, <1>6
    <2>2. Backlog(r)' = Backlog(r)
      BY <2>1 DEF Backlog
    <2> QED
      BY <1>4, <1>6, <2>2 DEF Backlog
  <1> QED
    BY <1>5, <1>6

\* writing() moves it to the queue.
LEMMA BacklogMoved ==
    ASSUME TypeOK, NEW w \in Worker, NEW s \in Session, Writing(w, s)
    PROVE  \A r \in Session : Backlog(r)' = Backlog(r)
PROOF
  <1> SUFFICES ASSUME NEW r \in Session PROVE Backlog(r)' = Backlog(r)
    OBVIOUS
  <1>1. CASE r # s
    BY <1>1 DEF TypeOK, Writing, Backlog
  <1>2. CASE r = s
    <2>1. queue_[s] \in Seq(Msg) /\ posted[s] \in Seq(Msg) /\ posted[s] # <<>>
      BY DEF TypeOK, Writing
    <2>2. queue_'[s] = Append(queue_[s], Head(posted[s])) /\ posted'[s] = Tail(posted[s])
      BY DEF TypeOK, Writing, PushBack
    <2>3. Append(queue_[s], Head(posted[s])) \o Tail(posted[s]) = queue_[s] \o posted[s]
      BY <2>1, HeadMoves
    <2> QED
      BY <1>2, <2>2, <2>3 DEF Backlog
  <1> QED
    BY <1>1, <1>2

\* on_write() takes it out.
LEMMA BacklogWritten ==
    ASSUME Typed, NEW w \in Worker, NEW s \in Session, OnWriteOk(w, s)
    PROVE  /\ queue_[s] # <<>> /\ Head(queue_[s]) \in Msg
           /\ Backlog(s) \in Seq(Msg) /\ Backlog(s) # <<>> /\ Head(Backlog(s)) = Head(queue_[s])
           /\ Backlog(s)' = Tail(Backlog(s))
           /\ \A r \in Session \ {s} : Backlog(r)' = Backlog(r)
PROOF
  <1>1. /\ queue_[s] \in Seq(Msg) /\ posted[s] \in Seq(Msg) /\ queue_[s] # <<>>
        /\ queue_'[s] = Tail(queue_[s]) /\ posted'[s] = posted[s]
    BY DEF Typed, TypeOK, FrontIsSent, OnWriteOk
  <1>2. \A r \in Session \ {s} : Backlog(r)' = Backlog(r)
    BY DEF Typed, TypeOK, OnWriteOk, Backlog
  <1> QED
    BY <1>1, <1>2, TailConcat, ConcatProperties, HeadTailProperties DEF Backlog

\* What a step may do to the backlogs and what is shown.
LEMMA PostShows ==
    ASSUME TypeOK, NEW s \in Session, NEW m \in Msg, UNCHANGED <<queue_, shown>>,
           posted' = [posted EXCEPT ![s] = Append(@, m)]
    PROVE  /\ \A r \in Session : \A n : r # s \/ m.type # "nusers" => (Shows(r, n) => Shows(r, n)')
           /\ \A n : m.type = "nusers" /\ m.n >= n => Shows(s, n)'
PROOF
  <1>1. \A r \in Session \ {s} : \A n : Shows(r, n) => Shows(r, n)'
    BY DEF TypeOK, Shows, Backlog
  <1>2. PICK b : b = Backlog(s)
    OBVIOUS
  <1>3. b \in Seq(Msg) /\ Backlog(s)' = Append(b, m) /\ shown'[s] = shown[s]
    BY <1>2, BacklogPosted
  <1>4. \A n : m.type # "nusers" /\ Shows(s, n) => Shows(s, n)'
    BY <1>2, <1>3, AppendEnough DEF Shows
  <1>5. \A n : m.type = "nusers" /\ m.n >= n => Shows(s, n)'
    BY <1>3, AppendEnough DEF Shows
  <1> QED
    BY <1>1, <1>4, <1>5

\* A message that moves from the strand to the queue changes nothing in the backlog.
LEMMA WritingShows ==
    ASSUME TypeOK, NEW w \in Worker, NEW s \in Session, Writing(w, s)
    PROVE  \A r \in Session : \A n : Shows(r, n) => Shows(r, n)'
PROOF
  <1> SUFFICES ASSUME NEW r \in Session, NEW n, Shows(r, n) PROVE Shows(r, n)'
    OBVIOUS
  <1>1. Backlog(r)' = Backlog(r)
    BY BacklogMoved
  <1>2. shown' = shown
    BY DEF Writing, hist
  <1> QED
    BY <1>1, <1>2 DEF Shows

\* A count that is written is shown.
LEMMA WrittenShows ==
    ASSUME Typed, NEW w \in Worker, NEW s \in Session, OnWriteOk(w, s)
    PROVE  \A r \in Session : \A n : Shows(r, n) => Shows(r, n)'
PROOF
  <1> SUFFICES ASSUME NEW r \in Session, NEW n, Shows(r, n) PROVE Shows(r, n)'
    OBVIOUS
  <1>1. CASE r # s
    <2>1. Backlog(r)' = Backlog(r)
      BY <1>1, BacklogWritten
    <2>2. shown'[r] = shown[r]
      BY <1>1 DEF Typed, TypeOK, OnWriteOk
    <2> QED
      BY <2>1, <2>2 DEF Shows
  <1>2. CASE r = s
    <2>1. PICK b : b = Backlog(s)
      OBVIOUS
    <2>2. b \in Seq(Msg) /\ b # <<>> /\ Head(b) = Head(queue_[s])
      BY <2>1, BacklogWritten
    <2>3. Backlog(s)' = Tail(b)
      BY <2>1, BacklogWritten
    <2>4. shown'[s] = IF Head(b).type = "nusers" THEN Head(b).n ELSE shown[s]
      BY <2>2 DEF Typed, TypeOK, OnWriteOk
    <2>5. EnoughIn(Tail(b), IF Head(b).type = "nusers" THEN Head(b).n ELSE shown[s], n)
      BY <1>2, <2>1, <2>2, TailEnough DEF Shows
    <2> QED
      BY <1>2, <2>3, <2>4, <2>5 DEF Shows
  <1> QED
    BY <1>1, <1>2

-----------------------------------------------------------------------------
\* The counter has room for every session there may be.
RoomForUsers == IsFiniteSet(Session) /\ Cardinality(Session) < UIntMod

\* The count of on_open is enough, and that of on_close if its own session is down.
LEMMA CountsEnough ==
    ASSUME RoomForUsers, Typed
    PROVE  /\ Cardinality(Connected) \in Nat
           /\ UsersOnOpen >= Cardinality(Connected)
           /\ \A s \in share_ \ Connected : Unsigned(Cardinality(share_) - 1) >= Cardinality(Connected)
PROOF
  <1>1. IsFiniteSet(share_) /\ share_ \subseteq Session /\ Connected \subseteq share_
    BY DEF Typed, TypeOK, Connected
  <1>2. /\ Cardinality(share_) \in Nat /\ Cardinality(share_) < UIntMod
        /\ Cardinality(Connected) \in Nat /\ Cardinality(Connected) <= Cardinality(share_)
    <2>1. Cardinality(share_) <= Cardinality(Session) /\ Cardinality(Session) \in Nat
      BY <1>1, FS_Subset, FS_CardinalityType DEF RoomForUsers
    <2>2. IsFiniteSet(Connected) /\ Cardinality(Connected) <= Cardinality(share_)
      BY <1>1, FS_Subset
    <2> QED
      BY <1>1, <2>1, <2>2, FS_CardinalityType, BoundAssumption DEF RoomForUsers
  <1>3. \A n \in Nat : n < UIntMod => Unsigned(n) = n
    BY BoundAssumption DEF Unsigned
  <1>4. ASSUME NEW s \in share_ \ Connected
        PROVE  Unsigned(Cardinality(share_) - 1) >= Cardinality(Connected)
    <2>1. IsFiniteSet(share_ \ {s}) /\ Cardinality(share_ \ {s}) = Cardinality(share_) - 1
      BY <1>1, FS_RemoveElement
    <2>2. Connected \subseteq share_ \ {s}
      BY <1>1
    <2>3. Cardinality(Connected) <= Cardinality(share_) - 1
      BY <2>1, <2>2, FS_Subset
    <2>4. Cardinality(share_) - 1 \in Nat /\ Cardinality(share_) - 1 < UIntMod
      BY <1>2, <2>3, BoundAssumption
    <2> QED
      BY <1>3, <2>3, <2>4
  <1> QED
    BY <1>2, <1>3, <1>4 DEF UsersOnOpen

\* No session is connected that was not: there are not more of them.
LEMMA FewerConnected ==
    ASSUME Typed, share_' \subseteq share_,
           \A s \in Session : stream'[s] = "open" => stream[s] = "open"
    PROVE  /\ Connected' \subseteq Connected
           /\ Cardinality(Connected) \in Nat /\ Cardinality(Connected)' \in Nat
           /\ Cardinality(Connected)' <= Cardinality(Connected)
PROOF
  <1>1. PICK c, d : c = Connected /\ d = Connected'
    OBVIOUS
  <1>2. IsFiniteSet(share_) /\ share_ \subseteq Session /\ c \subseteq share_
    BY <1>1 DEF Typed, TypeOK, Connected
  <1>3. d \subseteq c
    BY <1>1, <1>2 DEF Connected
  <1>4. IsFiniteSet(c)
    BY <1>2, FS_Subset
  <1>5. IsFiniteSet(d) /\ Cardinality(d) <= Cardinality(c)
    BY <1>3, <1>4, FS_Subset
  <1>6. Cardinality(c) \in Nat /\ Cardinality(d) \in Nat
    BY <1>4, <1>5, FS_CardinalityType
  <1> QED
    BY <1>1, <1>3, <1>5, <1>6

\* A handler that will take a count: what it writes to all, if it does, is enough.
LEMMA RecountEnough ==
    ASSUME OneWorker, TypeOK, NEW w \in Worker, NEW f \in Frame,
           frame' = [frame EXCEPT ![w] = f],
           f.at \in Counting \/ (f.at = "snapshot" /\ f.note.type = "nusers"),
           f.note.type = "nusers" => f.note.n >= Cardinality(Connected)'
    PROVE  ShownIsEnough'
PROOF
  <1>1. frame'[w] = f /\ \A v \in Worker : v = w
    BY DEF TypeOK, OneWorker
  <1>2. Recounts(w)'
    BY <1>1 DEF Recounts, Tells
  <1> QED
    BY <1>1, <1>2 DEF ShownIsEnough, Tells

\* A step of a handler that is not telling anyone of a count.
LEMMA QuietEnough ==
    ASSUME OneWorker, Typed, ShownIsEnough, NEW w \in Worker, NEW f \in Frame,
           ~Recounts(w), ~Tells(w) \/ frame[w].todo = {},
           frame' = [frame EXCEPT ![w] = f], f.note.type # "nusers",
           share_' \subseteq share_,
           \A s \in Session : stream'[s] = "open" => stream[s] = "open",
           \A s \in Connected' : \A n : Shows(s, n) => Shows(s, n)',
           TypeOK'
    PROVE  ShownIsEnough'
PROOF
  <1>1. frame'[w] = f /\ \A v \in Worker : v = w
    BY DEF Typed, TypeOK, OneWorker
  <1>2. PICK n, k : n = Cardinality(Connected) /\ k = Cardinality(Connected)'
    OBVIOUS
  <1>3. Connected' \subseteq Connected /\ n \in Nat /\ k \in Nat /\ k <= n
    BY <1>2, FewerConnected
  <1>4. ASSUME NEW s \in Connected'
        PROVE  Shows(s, n)'
    BY <1>1, <1>2, <1>3, <1>4 DEF ShownIsEnough
  <1>5. ASSUME NEW s \in Connected'
        PROVE  Shows(s, k)'
    <2>1. PICK b, x : b = Backlog(s)' /\ x = shown'[s]
      OBVIOUS
    <2>2. s \in Session /\ queue_'[s] \in Seq(Msg) /\ posted'[s] \in Seq(Msg) /\ x \in Nat
      BY <2>1 DEF TypeOK, Connected
    <2>3. b \in Seq(Msg)
      BY <2>1, <2>2, ConcatProperties DEF Backlog
    <2>4. EnoughIn(b, x, n)
      BY <1>4, <2>1 DEF Shows
    <2>5. EnoughIn(b, x, k)
      BY <1>3, <2>2, <2>3, <2>4, FewerEnough
    <2> QED
      BY <2>1, <2>5 DEF Shows
  <1>6. \A v \in Worker : ~Tells(v)'
    BY <1>1 DEF Tells
  <1> QED
    BY <1>2, <1>5, <1>6 DEF ShownIsEnough

-----------------------------------------------------------------------------
\* A worker goes on with a frame that is straight.
LEMMA FrameStraight ==
    ASSUME TypeOK, Straight, NEW w \in Worker, NEW f, frame' = [frame EXCEPT ![w] = f],
           f.at \in {"snapshot", "visit"} \/ (f.then = "return" /\ f.note.type # "nusers")
    PROVE  Straight'
PROOF
  <1>1. frame'[w] = f /\ \A v \in Worker \ {w} : frame'[v] = frame[v]
    BY DEF TypeOK
  <1> QED
    BY <1>1 DEF Straight, Tells

\* A session that a worker leaves alone, or that its handler keeps reading.
LEMMA ServesKept ==
    ASSUME TypeOK, NEW w \in Worker, NEW f, NEW r \in Session, Serves(r),
           frame' = [frame EXCEPT ![w] = f],
           conn'[r] = conn[r], stream'[r] = stream[r], reading'[r] = reading[r],
           sending'[r] = sending[r], queue_'[r] = queue_[r],
           posted'[r] = posted[r] \/ conn[r] \notin Unjoined,
           frame[w].ws = r /\ frame[w].then # "return" => f.ws = r /\ f.then # "return",
           f.ws = r => /\ f.at # "leave" => conn[r] = "open"
                       /\ f.at = "close_count" => stream[r] # "open"
    PROVE  Serves(r)'
PROOF
  <1>1. frame'[w] = f /\ \A v \in Worker \ {w} : frame'[v] = frame[v]
    BY DEF TypeOK
  <1>2. ASSUME NEW v \in Worker, frame'[v].ws = r
        PROVE  /\ frame'[v].at # "leave" => conn'[r] = "open"
               /\ frame'[v].at = "close_count" => stream'[r] # "open"
    BY <1>1, <1>2 DEF Serves
  <1>3. (\E v \in Worker : frame[v].ws = r /\ frame[v].then # "return")
            => \E v \in Worker : frame'[v].ws = r /\ frame'[v].then # "return"
    BY <1>1
  <1> QED
    BY <1>2, <1>3 DEF Serves

\* A handler of s that goes on with frame f.
LEMMA ActorServes ==
    ASSUME TypeOK, AllServe, NEW w \in Worker, NEW s \in Session, NEW f, Holds(w, s),
           frame[w].ws = s \/ frame[w].then = "return",
           frame' = [frame EXCEPT ![w] = f], f.ws \in {s, Nobody},
           \A r \in Session \ {s} :
               /\ conn'[r] = conn[r] /\ stream'[r] = stream[r] /\ reading'[r] = reading[r]
               /\ sending'[r] = sending[r] /\ queue_'[r] = queue_[r] /\ posted'[r] = posted[r],
           conn'[s] \in Unjoined =>
               ~reading'[s] /\ ~sending'[s] /\ posted'[s] = <<>> /\ queue_'[s] = <<>>,
           conn'[s] = "open" /\ stream'[s] = "open" =>
               /\ queue_'[s] # <<>> => sending'[s]
               /\ reading'[s] \/ (f.ws = s /\ f.then # "return"),
           f.ws = s => /\ f.at # "leave" => conn'[s] = "open"
                       /\ f.at = "close_count" => stream'[s] # "open"
    PROVE  AllServe'
PROOF
  <1>1. frame'[w] = f /\ \A v \in Worker : frame'[v].ws = s => v = w
    BY NobodyAssumption DEF TypeOK, Holds
  <1>2. ASSUME NEW r \in Session \ {s}
        PROVE  Serves(r)'
    BY <1>2, ServesKept, NobodyAssumption DEF AllServe
  <1>3. Serves(s)'
    BY <1>1 DEF Serves
  <1> QED
    BY <1>2, <1>3 DEF AllServe

\* Whose handlers are pending, and whose have begun: only sessions that are open.
LEMMA PendingIsOpen ==
    ASSUME TypeOK, AllAlive, AllServe, NEW s \in Session
    PROVE  /\ reading[s] \/ sending[s] \/ posted[s] # <<>> => conn[s] = "open"
           /\ \A w \in Worker : frame[w].ws = s /\ frame[w].at # "leave" => conn[s] = "open"
PROOF
  <1>1. conn[s] \in {"none", "accepting", "refused", "open", "gone"}
    BY DEF TypeOK
  <1> QED
    BY <1>1 DEF AllAlive, Alive, AllServe, Serves, Pending, Unjoined

\* A connected session whose handler has nothing to do after the loop is reading.
LEMMA ConnectedReads ==
    ASSUME AllServe, NEW s \in Session, conn[s] = "open", stream[s] = "open",
           \A v \in Worker : frame[v].ws = s => frame[v].then = "return"
    PROVE  reading[s]
PROOF
  <1> QED
    BY DEF AllServe, Serves

\* What a handler that returns leaves behind.
LEMMA ReturnFrames ==
    ASSUME NEW w \in Worker, NEW s \in Session, Release(w, s)
    PROVE  \E f \in Frame :
              /\ frame' = [frame EXCEPT ![w] = f] /\ f.ws \in {s, Nobody} /\ f.then = "return"
              /\ f.note.type = "error" /\ f.at \in {"idle", "leave"} /\ (f.ws = s => f.at = "leave")
PROOF
  <1> DEFINE f == IF Pending(s)' THEN Idle ELSE Enter("leave", s)
  <1>1. f \in Frame
    BY FramesTyped DEF Point
  <1>2. /\ f.ws \in {s, Nobody} /\ f.then = "return" /\ f.note.type = "error"
        /\ f.at \in {"idle", "leave"} /\ (f.ws = s => f.at = "leave")
    BY NobodyAssumption DEF Idle, Enter, Message
  <1>3. frame' = [frame EXCEPT ![w] = f]
    BY DEF Release
  <1> QED
    BY <1>1, <1>2, <1>3

\* The invariant of the count and what it rests on.
Hub == Typed /\ AllAlive /\ AllOrdered /\ EnoughShown
Scope == OneWorker /\ RoomForUsers /\ "accept_closed" \notin Fault

(***************************************************************************)
(* A handler of s ends or goes on, without a count to take or to write,    *)
(* and without posting one.                                                *)
(***************************************************************************)
LEMMA QuietStep ==
    ASSUME Scope, Hub, TypeOK', NEW w \in Worker, NEW s \in Session, NEW f \in Frame,
           CanRun(w, s) \/ (frame[w].ws = s /\ frame[w].at = "visit" /\ frame[w].todo = {}),
           frame' = [frame EXCEPT ![w] = f], f.ws \in {s, Nobody}, f.note.type # "nusers",
           f.at \notin Counting,
           f.at \in {"snapshot", "visit"} \/ f.then = "return",
           f.ws = s /\ f.at # "leave" => conn'[s] = "open",
           share_' = share_,
           \A r \in Session \ {s} :
               /\ conn'[r] = conn[r] /\ stream'[r] = stream[r] /\ reading'[r] = reading[r]
               /\ sending'[r] = sending[r] /\ queue_'[r] = queue_[r] /\ posted'[r] = posted[r],
           conn'[s] \in Unjoined =>
               ~reading'[s] /\ ~sending'[s] /\ posted'[s] = <<>> /\ queue_'[s] = <<>>,
           stream'[s] = "open" => stream[s] = "open",
           conn'[s] = "open" /\ stream'[s] = "open" =>
               /\ queue_'[s] # <<>> => sending'[s]
               /\ reading'[s] \/ (f.ws = s /\ f.then # "return"),
           \A r \in Session : \A n : Shows(r, n) => Shows(r, n)'
    PROVE  EnoughShown'
PROOF
  <1>1. Typed /\ TypeOK /\ AllAlive /\ AllServe /\ Straight /\ ShownIsEnough /\ OneWorker
    BY DEF Hub, EnoughShown, Typed, Scope
  <1>2. Holds(w, s) /\ (frame[w].ws = s \/ frame[w].then = "return")
    BY <1>1, HoldsStrand DEF CanRun, Straight
  <1>3. ~Recounts(w) /\ (~Tells(w) \/ frame[w].todo = {})
    BY <1>1 DEF CanRun, Straight, Recounts, Counting
  <1>4. Straight'
    BY <1>1, FrameStraight
  <1>5. AllServe'
    <2>1. f.ws = s => (f.at # "leave" => conn'[s] = "open") /\ (f.at = "close_count" => stream'[s] # "open")
      BY DEF Counting
    <2> QED
      BY <1>1, <1>2, <2>1, ActorServes
  <1>6. ShownIsEnough'
    <2>1. Connected' \subseteq Session
      BY DEF TypeOK, Connected
    <2>2. \A r \in Session : stream'[r] = "open" => stream[r] = "open"
      OBVIOUS
    <2> QED
      BY <1>1, <1>3, <2>1, <2>2, QuietEnough
  <1> QED
    BY <1>4, <1>5, <1>6 DEF EnoughShown

\* A handler of s comes to take a count, or to write one that is high enough.
LEMMA RecountStep ==
    ASSUME Scope, Hub, TypeOK', NEW w \in Worker, NEW s \in Session, NEW f \in Frame,
           CanRun(w, s) \/ (frame[w].ws = s /\ frame[w].at \in Counting),
           frame' = [frame EXCEPT ![w] = f], f.ws = s, f.then = "return",
           \/ f.at \in Counting /\ f.note.type # "nusers"
           \/ f.at = "snapshot" /\ f.note.type = "nusers" /\ f.note.n >= Cardinality(Connected)',
           conn'[s] = "open",
           \A r \in Session \ {s} :
               /\ conn'[r] = conn[r] /\ stream'[r] = stream[r] /\ reading'[r] = reading[r]
               /\ sending'[r] = sending[r] /\ queue_'[r] = queue_[r] /\ posted'[r] = posted[r],
           stream'[s] = "open" => (queue_'[s] # <<>> => sending'[s]) /\ reading'[s],
           f.at = "close_count" => stream'[s] # "open"
    PROVE  EnoughShown'
PROOF
  <1>1. TypeOK /\ AllAlive /\ AllServe /\ Straight /\ OneWorker
    BY DEF Hub, EnoughShown, Typed, Scope
  <1>2. Holds(w, s) /\ (frame[w].ws = s \/ frame[w].then = "return")
    BY <1>1, HoldsStrand DEF CanRun, Straight
  <1>3. Straight'
    BY <1>1, FrameStraight
  <1>4. AllServe'
    <2>1. conn'[s] \notin Unjoined
      BY DEF Unjoined
    <2> QED
      BY <1>1, <1>2, <2>1, ActorServes
  <1>5. ShownIsEnough'
    BY <1>1, RecountEnough
  <1> QED
    BY <1>3, <1>4, <1>5 DEF EnoughShown

\* A handler of s returns.
LEMMA ReturnEnough ==
    ASSUME Scope, Hub, TypeOK', NEW w \in Worker, NEW s \in Session,
           CanRun(w, s) \/ (frame[w].ws = s /\ frame[w].at = "visit" /\ frame[w].todo = {}),
           Release(w, s), share_' = share_,
           \A r \in Session \ {s} :
               /\ conn'[r] = conn[r] /\ stream'[r] = stream[r] /\ reading'[r] = reading[r]
               /\ sending'[r] = sending[r] /\ queue_'[r] = queue_[r] /\ posted'[r] = posted[r],
           conn'[s] \in Unjoined =>
               ~reading'[s] /\ ~sending'[s] /\ posted'[s] = <<>> /\ queue_'[s] = <<>>,
           stream'[s] = "open" => stream[s] = "open",
           conn'[s] = "open" /\ stream'[s] = "open" =>
               (queue_'[s] # <<>> => sending'[s]) /\ reading'[s],
           \A r \in Session : \A n : Shows(r, n) => Shows(r, n)'
    PROVE  EnoughShown'
PROOF
  <1>1. PICK f \in Frame :
            /\ frame' = [frame EXCEPT ![w] = f] /\ f.ws \in {s, Nobody} /\ f.then = "return"
            /\ f.note.type = "error" /\ f.at \in {"idle", "leave"} /\ (f.ws = s => f.at = "leave")
    BY ReturnFrames
  <1>2. f.at \notin Counting
    BY <1>1 DEF Counting
  <1> QED
    BY <1>1, <1>2, QuietStep

-----------------------------------------------------------------------------
\* What a hub that satisfies the invariants gives to the proofs of the steps.
LEMMA HubFacts ==
    ASSUME Scope, Hub
    PROVE  /\ TypeOK /\ Typed /\ AllAlive /\ AllServe /\ Straight /\ ShownIsEnough /\ NotesCurrent
           /\ OneWorker
           /\ \A s \in Session : conn[s] = "open" => s \in share_
           /\ \A w \in Worker : frame[w] \in Frame
PROOF
  <1> QED
    BY DEF Hub, EnoughShown, Typed, TypeOK, AllOrdered, NotesCurrent, Scope

\* The frame of a handler that comes to a statement.
LEMMA EnterFrame ==
    ASSUME NEW p \in Point, NEW s \in Session, NEW f, f = Enter(p, s)
    PROVE  f \in Frame /\ f.at = p /\ f.ws = s /\ f.then = "return" /\ f.note.type # "nusers"
PROOF
  <1>1. f \in Frame
    BY FramesTyped
  <1>2. f.at = p /\ f.ws = s /\ f.then = "return" /\ f.note.type = "error"
    BY DEF Enter, Idle, Message
  <1> QED
    BY <1>1, <1>2

\* Nothing is posted to anyone, or written.
LEMMA SameShows ==
    ASSUME UNCHANGED <<queue_, posted, shown>>
    PROVE  \A r \in Session : \A n : Shows(r, n) => Shows(r, n)'
PROOF
  <1> QED
    BY DEF Shows, Backlog

\* A handshake ends: a session that joins will have a count taken.
LEMMA AcceptEnough ==
    ASSUME Scope, Hub, TypeOK', NEW w \in Worker, NEW s \in Session,
           OnAccept(w, s) \/ OnAcceptClosed(w, s) \/ OnAcceptError(w, s)
    PROVE  EnoughShown'
PROOF
  <1>1. TypeOK /\ AllServe
    BY HubFacts
  <1>2. ~reading[s] /\ ~sending[s] /\ posted[s] = <<>> /\ queue_[s] = <<>>
    BY <1>1 DEF AllServe, Serves, Unjoined, OnAccept, OnAcceptClosed, OnAcceptError
  <1>3. CASE OnAccept(w, s)
    <2>1. PICK f : f = Enter("load_uid", s)
      OBVIOUS
    <2>2. f \in Frame /\ f.at = "load_uid" /\ f.ws = s /\ f.then = "return" /\ f.note.type # "nusers"
      BY <2>1, EnterFrame DEF Point
    <2>3. /\ conn'[s] = "open" /\ stream' = stream /\ reading'[s] = TRUE /\ queue_' = queue_
          /\ sending' = sending /\ posted' = posted /\ frame' = [frame EXCEPT ![w] = f]
          /\ \A r \in Session \ {s} : conn'[r] = conn[r] /\ reading'[r] = reading[r]
      BY <1>1, <1>3, <2>1 DEF TypeOK, OnAccept
    <2>4. CanRun(w, s) /\ f.at \in Counting /\ f.at # "close_count"
      BY <1>3, <2>2 DEF OnAccept, Counting
    <2> QED
      BY <1>2, <2>2, <2>3, <2>4, RecountStep
  <1>4. CASE OnAcceptError(w, s)
    <2>1. /\ CanRun(w, s) /\ Release(w, s) /\ share_' = share_ /\ conn'[s] = "refused"
          /\ UNCHANGED <<reading, posted, queue_, sending, shown>> /\ stream'[s] = "failed"
          /\ \A r \in Session \ {s} : conn'[r] = conn[r] /\ stream'[r] = stream[r]
      BY <1>1, <1>4 DEF TypeOK, OnAcceptError, hist
    <2> QED
      BY <1>2, <2>1, SameShows, ReturnEnough
  <1>5. CASE OnAcceptClosed(w, s)
    BY <1>5 DEF OnAcceptClosed, Scope
  <1> QED
    BY <1>3, <1>4, <1>5

\* The statements of on_open and on_close.
LEMMA StatementEnough ==
    ASSUME Scope, Hub, TypeOK', NEW w \in Worker, NEW s \in Session,
           LoadUid(w, s) \/ StoreUid(w, s) \/ OpenCount(w, s) \/ CloseCount(w, s)
    PROVE  EnoughShown'
PROOF
  <1>1. /\ TypeOK /\ AllServe /\ AllAlive /\ Straight /\ Typed /\ (conn[s] = "open" => s \in share_)
        /\ frame[w] \in Frame
    BY HubFacts
  <1>2. /\ frame[w].ws = s /\ frame[w].at \in Counting
        /\ conn' = conn /\ stream' = stream /\ reading' = reading /\ sending' = sending
        /\ queue_' = queue_ /\ share_' = share_
        /\ \A r \in Session \ {s} : posted'[r] = posted[r]
    BY <1>1 DEF TypeOK, At, Counting, LoadUid, StoreUid, OpenCount, CloseCount, net
  <1>3. conn[s] = "open" /\ frame[w].then = "return" /\ frame[w].note.type # "nusers"
    BY <1>1, <1>2, PendingIsOpen DEF Counting, Straight, Tells
  <1>4. stream'[s] = "open" => (queue_'[s] # <<>> => sending'[s]) /\ reading'[s]
    <2>1. \A v \in Worker : frame[v].ws = s => frame[v].then = "return"
      BY <1>1, <1>2, <1>3, HoldsStrand DEF Holds
    <2> QED
      BY <1>1, <1>2, <1>3, <2>1, ConnectedReads DEF AllServe, Serves
  <1>5. ASSUME NEW f \in Frame, frame' = [frame EXCEPT ![w] = f], f.ws = s, f.then = "return",
               f.at # "close_count",
               \/ f.at \in Counting /\ f.note.type # "nusers"
               \/ f.at = "snapshot" /\ f.note.type = "nusers" /\ f.note.n >= Cardinality(Connected)'
        PROVE  EnoughShown'
    BY <1>2, <1>3, <1>4, <1>5, RecountStep
  <1>6. CASE LoadUid(w, s)
    <2>1. PICK f : f = [frame[w] EXCEPT !.val = userid, !.at = "store_uid"]
      OBVIOUS
    <2>2. /\ f \in Frame /\ f.ws = s /\ f.then = "return" /\ f.at = "store_uid"
          /\ f.note = frame[w].note
      BY <1>1, <1>2, <1>3, <2>1 DEF TypeOK, Frame, Point
    <2>3. frame' = [frame EXCEPT ![w] = f]
      BY <1>1, <1>6, <2>1 DEF TypeOK, LoadUid
    <2> QED
      BY <1>3, <1>5, <2>2, <2>3 DEF Counting
  <1>7. CASE StoreUid(w, s)
    <2>1. PICK f : f = Enter("open_count", s)
      OBVIOUS
    <2>2. f \in Frame /\ f.at = "open_count" /\ f.ws = s /\ f.then = "return" /\ f.note.type # "nusers"
      BY <2>1, EnterFrame DEF Point
    <2> QED
      BY <1>5, <1>7, <2>1, <2>2 DEF Counting, StoreUid
  <1>8. CASE OpenCount(w, s) \/ CloseCount(w, s)
    <2>1. PICK n : n = IF OpenCount(w, s) THEN UsersOnOpen ELSE Unsigned(Cardinality(share_) - 1)
      OBVIOUS
    <2>2. PICK f : f = WriteAll(s, Message("nusers", Nobody, n), "return")
      OBVIOUS
    <2>3. n \in Nat
      BY <1>1, <2>1, CountTyped DEF Typed
    <2>4. /\ f \in Frame /\ f.at = "snapshot" /\ f.ws = s /\ f.then = "return"
          /\ f.note.type = "nusers" /\ f.note.n = n
      <3>1. f \in Frame
        BY <2>2, <2>3, FramesTyped, MessagesTyped DEF After, Author
      <3> QED
        BY <2>2, <3>1 DEF WriteAll, Enter, Idle, Message
    <2>5. frame' = [frame EXCEPT ![w] = f]
      BY <1>8, <2>1, <2>2 DEF OpenCount, CloseCount, At
    <2>6. n >= Cardinality(Connected)
      <3>1. CASE OpenCount(w, s)
        BY <1>1, <2>1, <3>1, CountsEnough DEF Scope
      <3>2. CASE ~OpenCount(w, s)
        <4>1. CloseCount(w, s) /\ frame[w].at = "close_count"
          BY <1>8, <3>2 DEF CloseCount, At
        <4>2. s \in share_ \ Connected
          BY <1>1, <1>2, <1>3, <4>1 DEF AllServe, Serves, Connected
        <4> QED
          BY <1>1, <2>1, <3>2, <4>2, CountsEnough DEF Scope
      <3> QED
        BY <3>1, <3>2
    <2>7. n >= Cardinality(Connected)'
      BY <1>2, <2>6 DEF Connected
    <2> QED
      BY <1>5, <2>4, <2>5, <2>7
  <1> QED
    BY <1>6, <1>7, <1>8

\* The end of a session that will be announced.
LEMMA DownEnough ==
    ASSUME Scope, Hub, TypeOK', NEW w \in Worker, NEW s \in Session,
           OnReadClosed(w, s) \/ OnReadAborted(w, s) \/ OnWriteAborted(w, s)
    PROVE  EnoughShown'
PROOF
  <1>1. TypeOK /\ AllServe /\ AllAlive
    BY HubFacts
  <1>2. PICK f : f = Enter("close_count", s)
    OBVIOUS
  <1>3. /\ f \in Frame /\ f.at = "close_count" /\ f.at \in Counting /\ f.ws = s
        /\ f.then = "return" /\ f.note.type # "nusers"
    BY <1>2, EnterFrame DEF Point, Counting
  <1>4. /\ CanRun(w, s) /\ (reading[s] \/ sending[s]) /\ frame' = [frame EXCEPT ![w] = f]
        /\ stream'[s] # "open" /\ UNCHANGED <<conn, posted, queue_>>
        /\ \A r \in Session \ {s} :
               stream'[r] = stream[r] /\ reading'[r] = reading[r] /\ sending'[r] = sending[r]
    BY <1>1, <1>2 DEF TypeOK, OnReadClosed, OnReadAborted, OnWriteAborted
  <1>5. conn[s] = "open"
    BY <1>1, <1>4, PendingIsOpen
  <1> QED
    BY <1>3, <1>4, <1>5, RecountStep

\* The handlers that return, at once or after the loop, and announce nothing.
LEMMA EndEnough ==
    ASSUME Scope, Hub, TypeOK', NEW w \in Worker, NEW s \in Session,
           \/ EndNotice(w, s) \/ Reject(w, s) \/ EndRead(w, s)
           \/ OnReadError(w, s) \/ Writing(w, s) \/ OnWriteOk(w, s) \/ OnWriteError(w, s)
    PROVE  EnoughShown'
PROOF
  <1>1. /\ TypeOK /\ Typed /\ AllServe /\ AllAlive
        /\ queue_[s] \in Seq(Msg) /\ posted[s] \in Seq(Msg)
    BY HubFacts DEF TypeOK
  <1>2. CanRun(w, s) \/ (frame[w].ws = s /\ frame[w].at = "visit" /\ frame[w].todo = {})
    BY DEF EndNotice, Reject, EndRead, LoopEnded, At, OnReadError, Writing, OnWriteOk, OnWriteError
  <1>3. /\ Release(w, s) /\ share_' = share_ /\ conn' = conn
        /\ stream'[s] = "open" => stream[s] = "open"
        /\ \A r \in Session \ {s} :
               /\ stream'[r] = stream[r] /\ reading'[r] = reading[r]
               /\ sending'[r] = sending[r] /\ queue_'[r] = queue_[r] /\ posted'[r] = posted[r]
    BY <1>1 DEF TypeOK, EndNotice, Reject, EndRead, OnReadError, Writing, OnWriteOk, OnWriteError, net
  <1>4. conn[s] = "open" /\ conn'[s] \notin Unjoined
    <2>1. \/ reading[s] \/ sending[s] \/ posted[s] # <<>>
          \/ frame[w].ws = s /\ frame[w].at # "leave"
      BY DEF EndNotice, Reject, EndRead, LoopEnded, At, OnReadError, Writing, OnWriteOk, OnWriteError
    <2> QED
      BY <1>1, <1>3, <2>1, PendingIsOpen DEF Unjoined
  <1>5. stream'[s] = "open" => (queue_'[s] # <<>> => sending'[s]) /\ reading'[s]
    <2> SUFFICES ASSUME stream'[s] = "open"
                 PROVE  (queue_'[s] # <<>> => sending'[s]) /\ reading'[s]
      OBVIOUS
    <2>1. stream[s] = "open" /\ (queue_[s] # <<>> => sending[s])
      BY <1>1, <1>3, <1>4 DEF AllServe, Serves
    <2>2. ~OnReadError(w, s) /\ ~OnWriteError(w, s)
      BY <1>1 DEF TypeOK, OnReadError, OnWriteError
    <2>3. CASE Reject(w, s) \/ EndRead(w, s)
      BY <1>1, <2>1, <2>3 DEF TypeOK, Reject, EndRead
    <2>4. CASE EndNotice(w, s) \/ Writing(w, s) \/ OnWriteOk(w, s)
      <3>1. \A v \in Worker : frame[v].ws = s => frame[v].then = "return"
        <4>1. CASE EndNotice(w, s)
          <5>1. frame[w].ws = s /\ frame[w].then = "return"
            BY <4>1 DEF EndNotice, LoopEnded, At
          <5> QED
            BY <1>1, <5>1, HoldsStrand DEF Holds
        <4> QED
          BY <2>4, <4>1 DEF Writing, OnWriteOk, CanRun, StrandFree
      <3>2. reading'[s]
        BY <1>1, <1>4, <2>1, <2>4, <3>1, ConnectedReads DEF EndNotice, Writing, OnWriteOk, net
      <3>3. queue_'[s] # <<>> => sending'[s]
        <4>1. CASE EndNotice(w, s)
          BY <2>1, <4>1 DEF EndNotice, net
        <4>2. CASE Writing(w, s)
          <5>1. CASE queue_[s] = <<>>
            <6>1. queue_'[s] = Append(<<>>, Head(posted[s])) /\ sending'[s] = (sending[s] \/ StartsWrite(queue_'[s]))
              BY <1>1, <4>2, <5>1 DEF TypeOK, Writing, PushBack
            <6>2. Len(queue_'[s]) = 1
              BY <6>1
            <6>3. StartsWrite(queue_'[s])
              BY <6>2 DEF StartsWrite
            <6> QED
              BY <6>1, <6>3
          <5>2. CASE queue_[s] # <<>>
            BY <1>1, <2>1, <4>2, <5>2 DEF TypeOK, Writing
          <5> QED
            BY <5>1, <5>2
        <4>3. CASE OnWriteOk(w, s)
          BY <1>1, <4>3 DEF TypeOK, OnWriteOk, ContinuesWrite
        <4> QED
          BY <2>4, <4>1, <4>2, <4>3
      <3> QED
        BY <3>2, <3>3
    <2> QED
      BY <2>2, <2>3, <2>4
  <1>6. \A r \in Session : \A n : Shows(r, n) => Shows(r, n)'
    <2>1. Message("error", Nobody, 0) \in Msg /\ Message("error", Nobody, 0).type # "nusers"
      BY MessagesTyped DEF Message
    <2>2. CASE Reject(w, s)
      BY <1>1, <2>1, <2>2, PostShows DEF Reject, hist
    <2>3. CASE Writing(w, s) \/ OnWriteOk(w, s)
      BY <1>1, <2>3, WritingShows, WrittenShows
    <2>4. CASE EndNotice(w, s) \/ EndRead(w, s) \/ OnReadError(w, s) \/ OnWriteError(w, s)
      BY <2>4, SameShows DEF EndNotice, EndRead, OnReadError, OnWriteError, net, hist
    <2> QED
      BY <2>2, <2>3, <2>4
  <1> QED
    BY <1>2, <1>3, <1>4, <1>5, <1>6, ReturnEnough

\* The handlers that begin to write what is no count to all.
LEMMA RelayEnough ==
    ASSUME Scope, Hub, TypeOK', NEW w \in Worker, NEW s \in Session,
           EchoApp(w, s) \/ \E after \in Input \intersect After : OnReadMessage(w, s, after)
    PROVE  EnoughShown'
PROOF
  <1>1. TypeOK /\ AllServe /\ AllAlive /\ frame[w] \in Frame
    BY HubFacts
  <1>2. \E m \in Msg, after \in After \ {"return"} :
            m.type # "nusers" /\ frame' = [frame EXCEPT ![w] = WriteAll(s, m, after)]
    <2>1. CASE EchoApp(w, s)
      <3>1. frame[w].note.n \in Nat /\ s \in Author
        BY <1>1 DEF Frame, Msg, Author
      <3>2. Message("reply", s, frame[w].note.n) \in Msg /\ Message("reply", s, frame[w].note.n).type # "nusers"
        BY <3>1, MessagesTyped DEF Message
      <3> QED
        BY <2>1, <3>2 DEF EchoApp, After
    <2>2. ASSUME NEW after \in Input \intersect After, OnReadMessage(w, s, after)
          PROVE  \E m \in Msg, t \in After \ {"return"} :
                     m.type # "nusers" /\ frame' = [frame EXCEPT ![w] = WriteAll(s, m, t)]
      <3>1. after \in After \ {"return"}
        BY InputAssumption DEF AllInputs
      <3>2. sent'[s] \in Nat /\ s \in Author
        BY DEF TypeOK, Author
      <3>3. Message("relay", s, sent'[s]) \in Msg /\ Message("relay", s, sent'[s]).type # "nusers"
        BY <3>2, MessagesTyped DEF Message
      <3> QED
        BY <2>2, <3>1, <3>3 DEF OnReadMessage
    <2> QED
      BY <2>1, <2>2
  <1>3. PICK m \in Msg, after \in After \ {"return"} :
            m.type # "nusers" /\ frame' = [frame EXCEPT ![w] = WriteAll(s, m, after)]
    BY <1>2
  <1>4. PICK f : f = WriteAll(s, m, after)
    OBVIOUS
  <1>5. f \in Frame /\ f.at = "snapshot" /\ f.ws = s /\ f.then = after /\ f.note = m
    <2>1. f \in Frame
      BY <1>4, FramesTyped DEF Author
    <2> QED
      BY <1>4, <2>1 DEF WriteAll, Enter, Idle
  <1>6. /\ CanRun(w, s) \/ (frame[w].ws = s /\ frame[w].at = "visit" /\ frame[w].todo = {})
        /\ reading[s] \/ (frame[w].ws = s /\ frame[w].at # "leave")
    BY <1>1 DEF EchoApp, LoopEnded, At, OnReadMessage
  <1>7. conn[s] = "open"
    BY <1>1, <1>6, PendingIsOpen
  <1>8. /\ conn' = conn /\ stream' = stream /\ posted' = posted /\ queue_' = queue_
        /\ sending' = sending /\ share_' = share_ /\ shown' = shown
        /\ \A r \in Session \ {s} : reading'[r] = reading[r]
    BY <1>1 DEF TypeOK, EchoApp, OnReadMessage, net, hist
  <1>9. \A r \in Session \ {s} :
            /\ conn'[r] = conn[r] /\ stream'[r] = stream[r] /\ reading'[r] = reading[r]
            /\ sending'[r] = sending[r] /\ queue_'[r] = queue_[r] /\ posted'[r] = posted[r]
    BY <1>8
  <1>10. /\ conn'[s] = "open" /\ conn'[s] \notin Unjoined
         /\ stream'[s] = "open" => stream[s] = "open" /\ (queue_'[s] # <<>> => sending'[s])
    BY <1>1, <1>7, <1>8 DEF AllServe, Serves, Unjoined
  <1>11. \A r \in Session : \A n : Shows(r, n) => Shows(r, n)'
    BY <1>8, SameShows
  <1>12. /\ frame' = [frame EXCEPT ![w] = f] /\ f.ws \in {s, Nobody} /\ f.note.type # "nusers"
         /\ f.at \notin Counting /\ f.at \in {"snapshot", "visit"} /\ f.ws = s /\ f.then # "return"
    BY <1>3, <1>4, <1>5 DEF Counting
  <1> QED
    BY <1>5, <1>6, <1>8, <1>9, <1>10, <1>11, <1>12, QuietStep

\* A message that is refused at once is answered to its sender alone.
LEMMA NotJsonEnough ==
    ASSUME Scope, Hub, TypeOK', NEW w \in Worker, NEW s \in Session, OnReadNotJson(w, s)
    PROVE  EnoughShown'
PROOF
  <1>1. TypeOK /\ AllServe /\ AllAlive /\ Straight /\ ShownIsEnough /\ Typed /\ OneWorker /\ frame[w] \in Frame
    BY HubFacts
  <1>2. conn[s] = "open"
    BY <1>1, PendingIsOpen DEF OnReadNotJson
  <1>3. PICK f \in Frame : f = frame[w]
    BY <1>1
  <1>4. /\ frame' = [frame EXCEPT ![w] = f] /\ f.at = "idle" /\ f.then = "return" /\ f.note.type # "nusers"
        /\ f.ws # s
    BY <1>1, <1>3 DEF TypeOK, OnReadNotJson, CanRun, StrandFree, Straight, Tells
  <1>5. Straight'
    BY <1>1, <1>4, FrameStraight
  <1>6. ASSUME NEW r \in Session
        PROVE  Serves(r)'
    <2>1. /\ conn' = conn /\ stream' = stream /\ reading' = reading /\ sending' = sending
          /\ queue_' = queue_ /\ (r # s => posted'[r] = posted[r])
      BY <1>1 DEF TypeOK, OnReadNotJson
    <2>2. r = s => conn[r] \notin Unjoined
      BY <1>2 DEF Unjoined
    <2>3. f.ws = r => (f.at # "leave" => conn[r] = "open") /\ (f.at = "close_count" => stream[r] # "open")
      BY <1>1, <1>3, PendingIsOpen DEF AllServe, Serves
    <2>4. frame[w].ws = r /\ frame[w].then # "return" => f.ws = r /\ f.then # "return"
      BY <1>3
    <2>5. Serves(r)
      BY <1>1 DEF AllServe
    <2> QED
      BY <1>1, <1>4, <2>1, <2>2, <2>3, <2>4, <2>5, ServesKept
  <1>7. \A r \in Session : \A n : Shows(r, n) => Shows(r, n)'
    <2>1. Message("error", Nobody, 0) \in Msg /\ Message("error", Nobody, 0).type # "nusers"
      BY MessagesTyped DEF Message
    <2> QED
      BY <1>1, <2>1, PostShows DEF OnReadNotJson, hist
  <1>8. ShownIsEnough'
    <2>1. ~Recounts(w) /\ ~Tells(w)
      BY <1>3, <1>4 DEF Recounts, Tells, Counting
    <2>2. share_' = share_ /\ stream' = stream /\ Connected' \subseteq Session
      BY DEF OnReadNotJson, TypeOK, Connected
    <2> QED
      BY <1>1, <1>4, <1>7, <2>1, <2>2, QuietEnough
  <1> QED
    BY <1>5, <1>6, <1>8 DEF EnoughShown, AllServe

\* An app writes to all, or has done so.
LEMMA AppEnough ==
    ASSUME Scope, Hub, TypeOK', NEW w \in Worker, AppData(w) \/ EndAppData(w)
    PROVE  EnoughShown'
PROOF
  <1>1. TypeOK /\ AllServe /\ Straight /\ ShownIsEnough /\ Typed /\ OneWorker
    BY HubFacts
  <1>2. /\ frame[w].ws = Nobody \/ frame[w].then = "return"
        /\ ~Recounts(w) /\ (~Tells(w) \/ frame[w].todo = {})
        /\ UNCHANGED <<conn, net, share_, shown>>
    BY <1>1 DEF AppData, EndAppData, LoopEnded, At, Straight, Recounts, Counting, hist
  <1>3. \E f \in Frame :
            /\ frame' = [frame EXCEPT ![w] = f] /\ f.ws = Nobody /\ f.note.type # "nusers"
            /\ f.at \in {"snapshot", "visit"} \/ f.then = "return"
    <2>1. CASE AppData(w)
      <3>1. sent'[Nobody] \in Nat /\ Nobody \in Author
        BY DEF TypeOK, Author
      <3>2. PICK m : m = Message("relay", Nobody, sent'[Nobody])
        OBVIOUS
      <3>3. m \in Msg /\ m.type # "nusers"
        BY <3>1, <3>2, MessagesTyped DEF Message
      <3>4. PICK f : f = WriteAll(Nobody, m, "return")
        OBVIOUS
      <3>5. f \in Frame
        BY <3>1, <3>3, <3>4, FramesTyped DEF After
      <3>6. f.at = "snapshot" /\ f.ws = Nobody /\ f.note = m
        BY <3>4 DEF WriteAll, Enter, Idle
      <3> QED
        BY <2>1, <3>2, <3>3, <3>4, <3>5, <3>6 DEF AppData
    <2>2. CASE EndAppData(w)
      <3>1. Idle \in Frame /\ Idle.ws = Nobody /\ Idle.note.type = "error" /\ Idle.then = "return"
        BY FramesTyped DEF Idle, Message
      <3> QED
        BY <2>2, <3>1 DEF EndAppData
    <2> QED
      BY <2>1, <2>2
  <1>4. PICK f \in Frame :
            /\ frame' = [frame EXCEPT ![w] = f] /\ f.ws = Nobody /\ f.note.type # "nusers"
            /\ f.at \in {"snapshot", "visit"} \/ f.then = "return"
    BY <1>3
  <1>5. Straight'
    BY <1>1, <1>4, FrameStraight
  <1>6. ASSUME NEW r \in Session
        PROVE  Serves(r)'
    <2>1. Serves(r) /\ r # Nobody
      BY <1>1, NobodyAssumption DEF AllServe
    <2>2. UNCHANGED <<conn, stream, reading, sending, queue_, posted>>
      BY <1>2 DEF net
    <2> QED
      BY <1>1, <1>2, <1>4, <2>1, <2>2, ServesKept
  <1>7. ShownIsEnough'
    <2>1. \A r \in Session : \A n : Shows(r, n) => Shows(r, n)'
      BY <1>2, SameShows DEF net
    <2>2. Connected' \subseteq Session
      BY DEF TypeOK, Connected
    <2> QED
      BY <1>1, <1>2, <1>4, <2>1, <2>2, QuietEnough DEF net
  <1> QED
    BY <1>5, <1>6, <1>7 DEF EnoughShown, AllServe

\* A session is destroyed.
LEMMA LeaveEnough ==
    ASSUME Scope, Hub, TypeOK', NEW w \in Worker, NEW s \in Session, Leave(w, s)
    PROVE  EnoughShown'
PROOF
  <1>1. TypeOK /\ AllServe /\ AllAlive /\ Straight /\ ShownIsEnough /\ Typed /\ OneWorker
    BY HubFacts
  <1>2. /\ Idle \in Frame /\ Idle.ws = Nobody /\ Idle.note.type # "nusers" /\ Idle.then = "return"
        /\ Idle.at = "idle"
    BY FramesTyped DEF Idle, Message
  <1>3. PICK f : f = Idle
    OBVIOUS
  <1>4. /\ frame' = [frame EXCEPT ![w] = f] /\ frame[w].ws = s /\ frame[w].at = "leave"
        /\ UNCHANGED <<stream, reading, posted, sending, shown>> /\ share_' = share_ \ {s}
        /\ conn'[s] = "gone"
        /\ \A r \in Session \ {s} : conn'[r] = conn[r] /\ queue_'[r] = queue_[r]
    BY <1>1, <1>3 DEF TypeOK, Leave, At, hist
  <1>5. Straight'
    BY <1>1, <1>2, <1>3, <1>4, FrameStraight
  <1>6. AllServe'
    <2>1. Holds(w, s) /\ conn'[s] \notin Unjoined
      BY <1>1, <1>4, HoldsStrand DEF Unjoined
    <2> QED
      BY <1>1, <1>2, <1>3, <1>4, <2>1, NobodyAssumption, ActorServes
  <1>7. ShownIsEnough'
    <2>1. ~Recounts(w) /\ ~Tells(w)
      BY <1>1, <1>4 DEF Straight, Recounts, Tells, Counting
    <2>2. \A r \in Connected' : r \in Session \ {s}
      BY <1>4 DEF TypeOK, Connected
    <2>3. \A r \in Session \ {s} : \A n : Shows(r, n) => Shows(r, n)'
      BY <1>4 DEF Shows, Backlog
    <2> QED
      BY <1>1, <1>2, <1>3, <1>4, <2>1, <2>2, <2>3, QuietEnough
  <1> QED
    BY <1>5, <1>6, <1>7 DEF EnoughShown

\* The loop of exec_to_all: a count is told to every session that is connected.
LEMMA LoopEnough ==
    ASSUME Scope, Hub, TypeOK', NEW w \in Worker, Snapshot(w) \/ \E r \in Session : Visit(w, r)
    PROVE  EnoughShown'
PROOF
  <1>1. /\ TypeOK /\ AllServe /\ AllAlive /\ Straight /\ ShownIsEnough /\ Typed /\ NotesCurrent
        /\ OneWorker /\ frame[w] \in Frame
    BY HubFacts
  <1>2. UNCHANGED <<conn, stream, reading, queue_, sending, share_, shown>>
    BY DEF Snapshot, Visit, net, hist
  <1>3. \E f \in Frame :
            /\ frame' = [frame EXCEPT ![w] = f] /\ f.at = "visit" /\ f.ws = frame[w].ws
            /\ f.then = frame[w].then /\ f.note = frame[w].note
            /\ Snapshot(w) => f.todo = share_
            /\ \A r \in Session : Visit(w, r) => f.todo = frame[w].todo \ {r}
    <2>1. CASE Snapshot(w)
      <3>1. PICK f : f = [frame[w] EXCEPT !.todo = share_, !.at = "visit"]
        OBVIOUS
      <3>2. /\ f \in Frame /\ f.at = "visit" /\ f.ws = frame[w].ws /\ f.todo = share_
            /\ f.then = frame[w].then /\ f.note = frame[w].note
        BY <1>1, <3>1 DEF TypeOK, Frame, Point
      <3>3. frame' = [frame EXCEPT ![w] = f]
        BY <1>1, <2>1, <3>1 DEF TypeOK, Snapshot
      <3>4. \A r \in Session : ~Visit(w, r)
        BY <2>1 DEF Snapshot, Visit
      <3> QED
        BY <3>2, <3>3, <3>4
    <2>2. ASSUME NEW r \in Session, Visit(w, r)
          PROVE  \E f \in Frame :
                     /\ frame' = [frame EXCEPT ![w] = f] /\ f.at = "visit" /\ f.ws = frame[w].ws
                     /\ f.then = frame[w].then /\ f.note = frame[w].note
                     /\ Snapshot(w) => f.todo = share_
                     /\ \A t \in Session : Visit(w, t) => f.todo = frame[w].todo \ {t}
      <3>1. PICK f : f = [frame[w] EXCEPT !.todo = @ \ {r}]
        OBVIOUS
      <3>2. /\ f \in Frame /\ f.at = "visit" /\ f.ws = frame[w].ws /\ f.todo = frame[w].todo \ {r}
            /\ f.then = frame[w].then /\ f.note = frame[w].note
        BY <1>1, <2>2, <3>1 DEF Frame, Visit
      <3>3. frame' = [frame EXCEPT ![w] = f]
        BY <1>1, <2>2, <3>1 DEF TypeOK, Visit
      <3>4. \A t \in Session : Visit(w, t) => f.todo = frame[w].todo \ {t}
        <4>1. frame'[w] = f
          BY <1>1, <3>3 DEF TypeOK
        <4> SUFFICES ASSUME NEW t \in Session, Visit(w, t) PROVE f.todo = frame[w].todo \ {t}
          OBVIOUS
        <4>2. PICK g : g = [frame[w] EXCEPT !.todo = @ \ {t}]
          OBVIOUS
        <4>3. g.todo = frame[w].todo \ {t} /\ frame'[w] = g
          BY <1>1, <4>2 DEF TypeOK, Frame, Visit
        <4> QED
          BY <4>1, <4>3
      <3>5. ~Snapshot(w)
        BY <2>2 DEF Snapshot, Visit
      <3> QED
        BY <3>2, <3>3, <3>4, <3>5
    <2> QED
      BY <2>1, <2>2
  <1>4. PICK f \in Frame :
            /\ frame' = [frame EXCEPT ![w] = f] /\ f.at = "visit" /\ f.ws = frame[w].ws
            /\ f.then = frame[w].then /\ f.note = frame[w].note
            /\ Snapshot(w) => f.todo = share_
            /\ \A r \in Session : Visit(w, r) => f.todo = frame[w].todo \ {r}
    BY <1>3
  <1>5. Straight'
    BY <1>1, <1>4, FrameStraight
  <1>6. ASSUME NEW r \in Session
        PROVE  Serves(r)'
    <2>1. posted'[r] = posted[r] \/ conn[r] \notin Unjoined
      <3>1. CASE Snapshot(w)
        BY <3>1 DEF Snapshot, net
      <3>2. ASSUME NEW t \in Session, Visit(w, t)
            PROVE  posted'[r] = posted[r] \/ conn[r] \notin Unjoined
        <4>1. t \in frame[w].todo /\ (t # r => posted'[r] = posted[r])
          BY <1>1, <3>2 DEF TypeOK, Visit
        <4>2. conn[t] \in {"open", "gone"}
          BY <1>1, <4>1 DEF NotesCurrent
        <4> QED
          BY <4>1, <4>2 DEF Unjoined
      <3> QED
        BY <3>1, <3>2
    <2>2. f.ws = r => conn[r] = "open"
      BY <1>1, <1>4, PendingIsOpen DEF Snapshot, Visit
    <2>3. Serves(r)
      BY <1>1 DEF AllServe
    <2> QED
      BY <1>1, <1>2, <1>4, <2>1, <2>2, <2>3, ServesKept
  <1>7. CASE ~Tells(w)
    <2>1. ~Recounts(w) /\ f.note.type # "nusers"
      BY <1>4, <1>7 DEF Recounts, Tells, Counting, Snapshot, Visit
    <2>2. \A r \in Session : \A n : Shows(r, n) => Shows(r, n)'
      <3>1. CASE Snapshot(w)
        BY <1>2, <3>1, SameShows DEF Snapshot, net
      <3>2. ASSUME NEW t \in Session, Visit(w, t)
            PROVE  \A r \in Session : \A n : Shows(r, n) => Shows(r, n)'
        <4>1. frame[w].note \in Msg
          BY <1>1 DEF Frame
        <4>2. posted' = posted \/ posted' = [posted EXCEPT ![t] = Append(@, frame[w].note)]
          BY <3>2 DEF Visit
        <4> QED
          BY <1>1, <1>2, <1>7, <4>1, <4>2, PostShows, SameShows DEF Tells
      <3> QED
        BY <3>1, <3>2
    <2>3. Connected' \subseteq Session
      BY DEF TypeOK, Connected
    <2>4. ShownIsEnough'
      BY <1>1, <1>2, <1>4, <1>7, <2>1, <2>2, <2>3, QuietEnough
    <2> QED
      BY <1>5, <1>6, <2>4 DEF EnoughShown, AllServe
  <1>8. CASE Tells(w)
    <2>1. PICK n : n = Cardinality(Connected)
      OBVIOUS
    <2>2. Connected' = Connected /\ n = Cardinality(Connected)'
      BY <1>2, <2>1 DEF Connected
    <2>3. frame'[w] = f /\ \A v \in Worker : v = w
      BY <1>1, <1>4 DEF TypeOK, OneWorker
    <2>4. frame[w].note.type = "nusers" /\ frame[w].note.n >= n
      BY <1>1, <1>8, <2>1 DEF ShownIsEnough, Tells
    <2>5. ASSUME NEW s \in Connected
          PROVE  Shows(s, n)' \/ (Tells(w)' /\ s \in frame'[w].todo)
      <3>1. Tells(w)'
        BY <1>4, <1>8, <2>3 DEF Tells
      <3>2. CASE Snapshot(w)
        BY <1>4, <2>3, <3>1, <3>2 DEF Connected
      <3>3. ASSUME NEW r \in Session, Visit(w, r)
            PROVE  Shows(s, n)' \/ (Tells(w)' /\ s \in frame'[w].todo)
        <4>1. s \in Session /\ s \in share_ /\ stream[s] = "open" /\ conn[s] = "open"
          BY <1>1 DEF TypeOK, Connected, AllAlive, Alive
        <4>2. frame[w].note \in Msg /\ frame[w].at = "visit"
          BY <1>1, <3>3 DEF Frame, Visit
        <4>3. CASE s = r
          <5>1. Locked(s)
            BY <1>1, <2>3, <4>1, <4>2 DEF AllServe, Serves, Locked, Pending
          <5>2. posted' = [posted EXCEPT ![s] = Append(@, frame[w].note)]
            BY <3>3, <4>3, <5>1 DEF Visit
          <5> QED
            BY <1>1, <1>2, <2>4, <4>1, <4>2, <5>2, PostShows
        <4>4. CASE s # r
          <5>1. ~Recounts(w)
            BY <4>2 DEF Recounts, Counting
          <5>2. Shows(s, n) \/ s \in frame[w].todo
            BY <1>1, <2>1, <2>3, <5>1 DEF ShownIsEnough
          <5>3. Shows(s, n) => Shows(s, n)'
            <6>1. posted'[s] = posted[s]
              BY <1>1, <3>3, <4>1, <4>4 DEF TypeOK, Visit
            <6> QED
              BY <1>2, <6>1 DEF Shows, Backlog
          <5> QED
            BY <1>4, <2>3, <3>1, <3>3, <4>4, <5>2, <5>3
        <4> QED
          BY <4>3, <4>4
      <3> QED
        BY <3>2, <3>3
    <2>6. \A v \in Worker : Tells(v)' => frame'[v].note.n >= n
      BY <1>4, <2>3, <2>4
    <2>7. \A s \in Connected' : Shows(s, n)' \/ \E v \in Worker : Tells(v)' /\ s \in frame'[v].todo
      BY <2>2, <2>5
    <2>8. ShownIsEnough'
      BY <2>2, <2>6, <2>7 DEF ShownIsEnough
    <2> QED
      BY <1>5, <1>6, <2>8 DEF EnoughShown, AllServe
  <1> QED
    BY <1>7, <1>8

\* A step that changes nothing of what the counts depend on.
LEMMA SameEnough ==
    ASSUME ShownIsEnough, UNCHANGED <<share_, stream, frame, queue_, posted, shown>>
    PROVE  ShownIsEnough'
PROOF
  <1>1. Connected' = Connected
    BY DEF Connected
  <1> QED
    BY <1>1 DEF ShownIsEnough, Shows, Backlog, Recounts, Tells

\* A connection is accepted, or nothing happens.
LEMMA ConnectEnough ==
    ASSUME Scope, Hub, UNCHANGED vars \/ \E s \in Session : Connect(s)
    PROVE  EnoughShown'
PROOF
  <1>1. TypeOK /\ AllServe /\ Straight /\ ShownIsEnough
    BY HubFacts
  <1>2. /\ UNCHANGED <<stream, reading, posted, queue_, sending, share_, frame, shown>>
        /\ \A r \in Session : conn'[r] = conn[r] \/ (conn[r] = "none" /\ conn'[r] = "accepting")
    BY <1>1 DEF TypeOK, Connect, vars, net, hist
  <1>3. Straight' /\ ShownIsEnough'
    BY <1>1, <1>2, SameEnough DEF Straight, Tells
  <1>4. ASSUME NEW r \in Session
        PROVE  Serves(r)'
    <2>1. Serves(r)
      BY <1>1 DEF AllServe
    <2> QED
      BY <1>2, <2>1 DEF Serves, Unjoined
  <1> QED
    BY <1>3, <1>4 DEF EnoughShown, AllServe

\* Every step keeps the counts high enough.
LEMMA NextEnough ==
    ASSUME Scope, Hub, TypeOK', [Next]_vars
    PROVE  EnoughShown'
PROOF
  <1>1. ASSUME NEW w \in Worker, Continue(w)
        PROVE  EnoughShown'
    BY <1>1, LoopEnough, AppEnough, StatementEnough, EndEnough, RelayEnough, LeaveEnough DEF Continue
  <1>2. ASSUME NEW w \in Worker, NEW s \in Session, Environment(w, s)
        PROVE  EnoughShown'
    BY <1>2, AcceptEnough, NotJsonEnough, RelayEnough, DownEnough, EndEnough DEF Environment
  <1>3. ASSUME NEW w \in Worker, NEW s \in Session, Handler(w, s)
        PROVE  EnoughShown'
    BY <1>3, AcceptEnough, DownEnough, EndEnough DEF Handler
  <1> QED
    BY <1>1, <1>2, <1>3, ConnectEnough, AppEnough DEF Next

\* When all is settled, what is shown is the last count.
LEMMA SettledShows ==
    ASSUME Scope, Hub
    PROVE  NeverUndercounts
PROOF
  <1> SUFFICES ASSUME Settled, NEW s \in Connected PROVE shown[s] >= Cardinality(Connected)
    BY DEF NeverUndercounts
  <1>1. TypeOK /\ AllServe /\ AllAlive /\ Straight /\ ShownIsEnough
    BY HubFacts
  <1>2. s \in Session /\ conn[s] = "open" /\ stream[s] = "open"
    BY <1>1 DEF TypeOK, Connected, AllAlive, Alive
  <1>3. Backlog(s) = <<>>
    <2>1. posted[s] = <<>> /\ queue_[s] = <<>>
      BY <1>1, <1>2 DEF Settled, AllServe, Serves
    <2> QED
      BY <2>1 DEF Backlog
  <1>4. \A w \in Worker : ~Recounts(w) /\ ~Tells(w)
    BY <1>1 DEF Settled, Straight, Recounts, Tells, Counting
  <1>5. EnoughIn(<<>>, shown[s], Cardinality(Connected))
    BY <1>1, <1>3, <1>4 DEF ShownIsEnough, Shows
  <1>6. Len(<<>>) = 0
    OBVIOUS
  <1> QED
    BY <1>5, <1>6 DEF EnoughIn

(***************************************************************************)
(* With one worker, and when no handshake ends in error::closed, a client  *)
(* that is connected never shows too few users once all is settled: as     *)
(* many sessions as the counter has room for may come and go, announced or *)
(* not, and whatever else is written to them in between.                   *)
(***************************************************************************)
THEOREM CountIsEnough ==
    ASSUME OneWorker, RoomForUsers, "accept_closed" \notin Fault
    PROVE  Spec => []NeverUndercounts
PROOF
  <1>1. Scope
    BY DEF Scope
  <1>2. Init => Hub
    <2> SUFFICES ASSUME Init PROVE EnoughShown
      BY InitTyped, InitAlive, InitOrdered DEF Hub
    <2>1. Connected = {} /\ (\A w \in Worker : frame[w] = Idle)
      BY DEF Init, Connected
    <2>2. Idle.ws = Nobody /\ Idle.at = "idle" /\ Idle.then = "return" /\ Idle.note.type = "error"
      BY DEF Idle, Message
    <2>3. Straight /\ ShownIsEnough
      BY <2>1, <2>2 DEF Straight, ShownIsEnough, Tells
    <2>4. AllServe
      BY <2>1, <2>2, NobodyAssumption DEF Init, AllServe, Serves
    <2> QED
      BY <2>3, <2>4 DEF EnoughShown
  <1>3. Hub /\ [Next]_vars => Hub'
    <2> SUFFICES ASSUME Hub, [Next]_vars PROVE Hub'
      OBVIOUS
    <2>1. Typed' /\ AllAlive' /\ AllOrdered'
      BY NextTyped, NextAlive, NextOrdered DEF Hub
    <2>2. TypeOK'
      BY <2>1 DEF Typed
    <2> QED
      BY <1>1, <2>1, <2>2, NextEnough DEF Hub
  <1>4. Hub => NeverUndercounts
    BY <1>1, SettledShows
  <1> QED
    BY <1>2, <1>3, <1>4, PTL DEF Spec

-----------------------------------------------------------------------------
(***************************************************************************)
(* The hub of one worker is a Broadcast.  What is on its way to a client   *)
(* takes it through the log: from the place lo the messages of b that      *)
(* users see in an order are those of the log l, one after the other, up   *)
(* to the place hi; at[i] is the place reached with the i-th of them.      *)
(***************************************************************************)
Passes(l, b, at) ==
    \A i \in 1 .. Len(b) :
        IF Recorded(b[i]) THEN at[i] = at[i - 1] + 1 /\ l[at[i]] = b[i] ELSE at[i] = at[i - 1]

Leads(l, b, lo, hi) ==
    \E at \in [0 .. Len(b) -> 0 .. Len(l)] :
        at[0] = lo /\ at[Len(b)] = hi /\ Passes(l, b, at)

\* With nothing in it that users see in an order, the log stays where it is.
LEMMA LeadsNowhere ==
    ASSUME NEW l \in Seq(Msg), NEW b \in Seq(Msg), \A i \in 1 .. Len(b) : ~Recorded(b[i])
    PROVE  Leads(l, b, Len(l), Len(l))
PROOF
  <1> DEFINE at == [i \in 0 .. Len(b) |-> Len(l)]
  <1>1. Len(l) \in Nat /\ Len(b) \in Nat
    OBVIOUS
  <1>2. at \in [0 .. Len(b) -> 0 .. Len(l)] /\ \A i \in 0 .. Len(b) : at[i] = Len(l)
    BY <1>1
  <1> HIDE DEF at
  <1>3. at[0] = Len(l) /\ at[Len(b)] = Len(l) /\ Passes(l, b, at)
    BY <1>1, <1>2 DEF Passes
  <1> QED
    BY <1>2, <1>3 DEF Leads

\* A message is posted: one that users do not see in an order, or the next of the log.
LEMMA LeadsPosted ==
    ASSUME NEW l \in Seq(Msg), NEW b \in Seq(Msg), NEW m \in Msg, NEW lo, NEW hi, Leads(l, b, lo, hi)
    PROVE  /\ ~Recorded(m) => Leads(l, Append(b, m), lo, hi)
           /\ Recorded(m) /\ hi + 1 = Len(l) /\ l[Len(l)] = m => Leads(l, Append(b, m), lo, Len(l))
PROOF
  <1>1. PICK at \in [0 .. Len(b) -> 0 .. Len(l)] : at[0] = lo /\ at[Len(b)] = hi /\ Passes(l, b, at)
    BY DEF Leads
  <1>2. /\ Append(b, m) \in Seq(Msg) /\ Len(b) \in Nat /\ Len(Append(b, m)) = Len(b) + 1
        /\ \A i \in 1 .. Len(b) : Append(b, m)[i] = b[i]
        /\ Append(b, m)[Len(b) + 1] = m
    BY Places
  <1>3. Len(l) \in Nat /\ lo \in 0 .. Len(l) /\ hi \in 0 .. Len(l)
    BY <1>1, <1>2
  <1>4. ASSUME NEW k \in 0 .. Len(l), IF Recorded(m) THEN k = hi + 1 /\ l[k] = m ELSE k = hi
        PROVE  Leads(l, Append(b, m), lo, k)
    <2> DEFINE up == [i \in 0 .. Len(b) + 1 |-> IF i <= Len(b) THEN at[i] ELSE k]
    <2>1. up \in [0 .. Len(b) + 1 -> 0 .. Len(l)]
      BY <1>1, <1>2, <1>4
    <2>2. up[Len(b) + 1] = k /\ \A i \in 0 .. Len(b) : up[i] = at[i]
      BY <1>2
    <2> HIDE DEF up
    <2>3. up[0] = lo
      BY <1>1, <1>2, <2>2
    <2>4. ASSUME NEW i \in 1 .. Len(b) + 1
          PROVE  IF Recorded(Append(b, m)[i])
                 THEN up[i] = up[i - 1] + 1 /\ l[up[i]] = Append(b, m)[i] ELSE up[i] = up[i - 1]
      <3>1. CASE i <= Len(b)
        <4>1. i \in 1 .. Len(b) /\ i - 1 \in 0 .. Len(b) /\ i \in 0 .. Len(b)
          BY <1>2, <3>1
        <4>2. Append(b, m)[i] = b[i] /\ up[i] = at[i] /\ up[i - 1] = at[i - 1]
          BY <1>2, <2>2, <4>1
        <4> QED
          BY <1>1, <4>1, <4>2 DEF Passes
      <3>2. CASE i = Len(b) + 1
        <4>1. i - 1 = Len(b) /\ Len(b) \in 0 .. Len(b)
          BY <1>2, <3>2
        <4>2. up[i - 1] = hi /\ up[i] = k /\ Append(b, m)[i] = m
          BY <1>1, <1>2, <2>2, <3>2, <4>1
        <4> QED
          BY <1>4, <4>2
      <3> QED
        BY <1>2, <3>1, <3>2
    <2>5. Passes(l, Append(b, m), up)
      BY <1>2, <2>4 DEF Passes
    <2> QED
      BY <1>2, <2>1, <2>2, <2>3, <2>5 DEF Leads
  <1>5. CASE ~Recorded(m)
    BY <1>3, <1>4, <1>5
  <1>6. CASE Recorded(m) /\ hi + 1 = Len(l) /\ l[Len(l)] = m
    <2>1. Len(l) \in 0 .. Len(l)
      BY <1>3
    <2> QED
      BY <1>4, <1>6, <2>1
  <1> QED
    BY <1>5, <1>6

\* The first message is taken; if users see it in an order, it is the next of the log.
LEMMA LeadsTaken ==
    ASSUME NEW l \in Seq(Msg), NEW b \in Seq(Msg), b # <<>>, NEW lo, NEW hi, Leads(l, b, lo, hi)
    PROVE  IF Recorded(Head(b))
           THEN lo + 1 \in 1 .. Len(l) /\ l[lo + 1] = Head(b) /\ Leads(l, Tail(b), lo + 1, hi)
           ELSE Leads(l, Tail(b), lo, hi)
PROOF
  <1>1. PICK at \in [0 .. Len(b) -> 0 .. Len(l)] : at[0] = lo /\ at[Len(b)] = hi /\ Passes(l, b, at)
    BY DEF Leads
  <1>2. /\ Len(b) \in Nat /\ Len(b) >= 1 /\ Head(b) = b[1] /\ Len(Tail(b)) = Len(b) - 1
        /\ \A i \in 1 .. Len(b) - 1 : Tail(b)[i] = b[i + 1]
    <2>1. Len(b) \in Nat /\ Len(b) # 0
      BY EmptySeq
    <2> QED
      BY <2>1
  <1>3. Len(l) \in Nat
    OBVIOUS
  <1>4. Leads(l, Tail(b), at[1], hi)
    <2> DEFINE on == [i \in 0 .. Len(b) - 1 |-> at[i + 1]]
    <2>1. on \in [0 .. Len(b) - 1 -> 0 .. Len(l)]
      BY <1>1, <1>2
    <2>2. \A i \in 0 .. Len(b) - 1 : on[i] = at[i + 1]
      OBVIOUS
    <2> HIDE DEF on
    <2>3. on[0] = at[1] /\ on[Len(b) - 1] = hi
      <3>1. 0 \in 0 .. Len(b) - 1 /\ Len(b) - 1 \in 0 .. Len(b) - 1 /\ (Len(b) - 1) + 1 = Len(b)
        BY <1>2
      <3> QED
        BY <1>1, <2>2, <3>1
    <2>4. ASSUME NEW i \in 1 .. Len(b) - 1
          PROVE  IF Recorded(Tail(b)[i])
                 THEN on[i] = on[i - 1] + 1 /\ l[on[i]] = Tail(b)[i] ELSE on[i] = on[i - 1]
      <3>1. /\ i \in 0 .. Len(b) - 1 /\ i - 1 \in 0 .. Len(b) - 1 /\ (i - 1) + 1 = i
            /\ i + 1 \in 1 .. Len(b) /\ (i + 1) - 1 = i
        BY <1>2
      <3>2. Tail(b)[i] = b[i + 1] /\ on[i] = at[i + 1] /\ on[i - 1] = at[i]
        BY <1>2, <2>2, <3>1
      <3> QED
        BY <1>1, <3>1, <3>2 DEF Passes
    <2>5. Passes(l, Tail(b), on)
      BY <1>2, <2>4 DEF Passes
    <2> QED
      BY <1>2, <2>1, <2>3, <2>5 DEF Leads
  <1>5. IF Recorded(b[1]) THEN at[1] = lo + 1 /\ l[at[1]] = b[1] ELSE at[1] = lo
    <2>1. 1 \in 1 .. Len(b) /\ 1 - 1 = 0
      BY <1>2
    <2> QED
      BY <1>1, <2>1 DEF Passes
  <1>6. lo \in 0 .. Len(l) /\ at[1] \in 0 .. Len(l)
    BY <1>1, <1>2
  <1>7. CASE Recorded(Head(b))
    <2>1. at[1] = lo + 1 /\ lo + 1 \in 1 .. Len(l) /\ l[lo + 1] = Head(b)
      BY <1>2, <1>3, <1>5, <1>6, <1>7
    <2> QED
      BY <1>4, <1>7, <2>1
  <1>8. CASE ~Recorded(Head(b))
    BY <1>2, <1>4, <1>5, <1>8
  <1> QED
    BY <1>7, <1>8

\* The log has got longer.
LEMMA LeadsLonger ==
    ASSUME NEW l \in Seq(Msg), NEW b \in Seq(Msg), NEW m \in Msg, NEW lo, NEW hi, Leads(l, b, lo, hi)
    PROVE  Leads(Append(l, m), b, lo, hi)
PROOF
  <1>1. PICK at \in [0 .. Len(b) -> 0 .. Len(l)] : at[0] = lo /\ at[Len(b)] = hi /\ Passes(l, b, at)
    BY DEF Leads
  <1>2. /\ Len(l) \in Nat /\ Len(Append(l, m)) = Len(l) + 1
        /\ \A i \in 1 .. Len(l) : Append(l, m)[i] = l[i]
    BY Places
  <1>3. at \in [0 .. Len(b) -> 0 .. Len(Append(l, m))]
    BY <1>1, <1>2
  <1>4. ASSUME NEW i \in 1 .. Len(b), Recorded(b[i])
        PROVE  Append(l, m)[at[i]] = l[at[i]]
    <2>1. Len(b) \in Nat /\ i \in 0 .. Len(b) /\ i - 1 \in 0 .. Len(b)
      BY LenProperties
    <2>2. at[i] = at[i - 1] + 1 /\ at[i] \in 0 .. Len(l) /\ at[i - 1] \in 0 .. Len(l)
      BY <1>1, <1>4, <2>1 DEF Passes
    <2> QED
      BY <1>2, <2>2
  <1>5. Passes(Append(l, m), b, at)
    BY <1>1, <1>4 DEF Passes
  <1> QED
    BY <1>1, <1>3, <1>5 DEF Leads

-----------------------------------------------------------------------------
(***************************************************************************)
(* The steps other than those of exec_to_all: worker w begins, goes on     *)
(* with or ends a handler of a, and is not in the loop afterwards.         *)
(***************************************************************************)
Statement(w, s) ==
    \/ LoadUid(w, s) \/ StoreUid(w, s) \/ OpenCount(w, s) \/ CloseCount(w, s)
    \/ EndNotice(w, s) \/ Reject(w, s) \/ EchoApp(w, s) \/ EndRead(w, s) \/ Leave(w, s)
    \/ Environment(w, s) \/ Handler(w, s)

Beside(w, a, f) ==
    /\ frame' = [frame EXCEPT ![w] = f] /\ f.at # "visit"
    /\ f.ws \in {a, Nobody} \/ f = frame[w]
    /\ \/ frame[w].at = "idle"
       \/ frame[w].ws = a /\ (frame[w].at = "visit" => frame[w].todo = {})

\* A step is one of these.
LEMMA NextKinds ==
    ASSUME Next
    PROVE  \/ \E s \in Session : Connect(s)
           \/ \E w \in Worker : Snapshot(w) \/ \E r \in Session : Visit(w, r)
           \/ \E w \in Worker : AppData(w) \/ EndAppData(w)
           \/ \E w \in Worker, s \in Session : Statement(w, s)
PROOF
  <1> QED
    BY DEF Next, Continue, Statement

\* What a worker has before it in such a step, and after it.
LEMMA BesideFrames ==
    ASSUME TypeOK, NEW w \in Worker
    PROVE  /\ AppData(w) \/ EndAppData(w) => \E f : Beside(w, Nobody, f)
           /\ \A s \in Session : Statement(w, s) => \E f : Beside(w, s, f)
PROOF
  <1>1. /\ Idle.at = "idle" /\ Idle.ws = Nobody
        /\ \A p, s : Enter(p, s).at = p /\ Enter(p, s).ws = s
    BY DEF Idle, Enter
  <1>2. \A a, m, t : WriteAll(a, m, t).at = "snapshot" /\ WriteAll(a, m, t).ws = a
    BY DEF WriteAll, Enter, Idle
  <1>3. ASSUME NEW a, NEW f, frame' = [frame EXCEPT ![w] = f], f.at # "visit",
               f.ws \in {a, Nobody} \/ f = frame[w],
               \/ frame[w].at = "idle"
               \/ frame[w].ws = a /\ (frame[w].at = "visit" => frame[w].todo = {})
        PROVE  \E g : Beside(w, a, g)
    BY <1>3 DEF Beside
  <1>4. ASSUME NEW s \in Session, Release(w, s),
               \/ frame[w].at = "idle"
               \/ frame[w].ws = s /\ (frame[w].at = "visit" => frame[w].todo = {})
        PROVE  \E g : Beside(w, s, g)
    <2>1. PICK g : frame' = [frame EXCEPT ![w] = g] /\ g.ws \in {s, Nobody} /\ g.at \in {"idle", "leave"}
      BY <1>4, ReturnFrames
    <2> QED
      BY <1>3, <1>4, <2>1
  <1>5. AppData(w) \/ EndAppData(w) => \E f : Beside(w, Nobody, f)
    <2>1. CASE AppData(w)
      <3>1. PICK g : g = WriteAll(Nobody, Message("relay", Nobody, sent'[Nobody]), "return")
        OBVIOUS
      <3>2. g.at = "snapshot" /\ g.ws = Nobody
        BY <1>2, <3>1
      <3>3. frame' = [frame EXCEPT ![w] = g] /\ frame[w].at = "idle"
        BY <2>1, <3>1 DEF AppData
      <3> QED
        BY <1>3, <3>2, <3>3
    <2>2. CASE EndAppData(w)
      BY <1>1, <1>3, <2>2 DEF EndAppData, LoopEnded, At
    <2> QED
      BY <2>1, <2>2
  <1>6. ASSUME NEW s \in Session, LoadUid(w, s)
        PROVE  \E f : Beside(w, s, f)
    <2>1. PICK f : f = [frame[w] EXCEPT !.val = userid, !.at = "store_uid"]
      OBVIOUS
    <2>2. frame[w] \in Frame
      BY DEF TypeOK
    <2>3. f.at = "store_uid" /\ f.ws = s
      BY <1>6, <2>1, <2>2 DEF Frame, LoadUid, At
    <2>4. frame' = [frame EXCEPT ![w] = f]
      BY <1>6, <2>1 DEF TypeOK, LoadUid
    <2> QED
      BY <1>3, <1>6, <2>3, <2>4 DEF LoadUid, At
  <1>7. ASSUME NEW s \in Session,
               StoreUid(w, s) \/ OpenCount(w, s) \/ CloseCount(w, s) \/ EchoApp(w, s) \/ Leave(w, s)
        PROVE  \E f : Beside(w, s, f)
    <2>1. CASE Leave(w, s)
      BY <1>1, <1>3, <2>1 DEF Leave, At
    <2>4. CASE StoreUid(w, s)
      <3>1. PICK f : f = Enter("open_count", s)
        OBVIOUS
      <3>2. /\ frame' = [frame EXCEPT ![w] = f] /\ f.at = "open_count" /\ f.ws = s
            /\ frame[w].ws = s /\ frame[w].at = "store_uid"
        BY <1>1, <2>4, <3>1 DEF StoreUid, At
      <3> QED
        BY <1>3, <3>2
    <2>2. CASE OpenCount(w, s) \/ CloseCount(w, s)
      BY <1>2, <1>3, <2>2 DEF OpenCount, CloseCount, At
    <2>3. CASE EchoApp(w, s)
      <3>1. PICK g : g = WriteAll(s, Message("reply", s, frame[w].note.n), "do_read")
        OBVIOUS
      <3>2. g.at = "snapshot" /\ g.ws = s
        BY <1>2, <3>1
      <3>3. frame' = [frame EXCEPT ![w] = g] /\ frame[w].ws = s /\ frame[w].todo = {}
        BY <2>3, <3>1 DEF EchoApp, At, LoopEnded
      <3> QED
        BY <1>3, <3>2, <3>3
    <2> QED
      BY <1>7, <2>1, <2>2, <2>3, <2>4
  <1>8. ASSUME NEW s \in Session, EndNotice(w, s) \/ Reject(w, s) \/ EndRead(w, s)
        PROVE  \E f : Beside(w, s, f)
    BY <1>4, <1>8 DEF EndNotice, Reject, EndRead, At, LoopEnded
  <1>9. ASSUME NEW s \in Session, OnReadNotJson(w, s)
        PROVE  \E f : Beside(w, s, f)
    <2>1. frame[w].at = "idle" /\ frame' = [frame EXCEPT ![w] = frame[w]]
      BY <1>9 DEF OnReadNotJson, CanRun, TypeOK
    <2> QED
      BY <1>3, <2>1
  <1>10. ASSUME NEW s \in Session, NEW after,
                \/ OnAccept(w, s) \/ OnAcceptClosed(w, s) \/ OnReadClosed(w, s) \/ OnReadAborted(w, s)
                \/ OnWriteAborted(w, s) \/ OnReadMessage(w, s, after)
         PROVE  \E f : Beside(w, s, f)
    BY <1>1, <1>2, <1>3, <1>10 DEF OnAccept, OnAcceptClosed, OnReadClosed, OnReadAborted,
                                  OnWriteAborted, OnReadMessage, CanRun
  <1>11. ASSUME NEW s \in Session,
                \/ OnAcceptError(w, s) \/ OnReadError(w, s) \/ Writing(w, s) \/ OnWriteOk(w, s)
                \/ OnWriteError(w, s)
         PROVE  \E f : Beside(w, s, f)
    BY <1>4, <1>11 DEF OnAcceptError, OnReadError, Writing, OnWriteOk, OnWriteError, CanRun
  <1> QED
    BY <1>5, <1>6, <1>7, <1>8, <1>9, <1>10, <1>11 DEF Statement, Environment, Handler

-----------------------------------------------------------------------------
(***************************************************************************)
(* Who hears the log.  A session whose stream is up reads, or a handler of *)
(* it writes to all and will have it read again: exec_to_all can lock it.  *)
(* A session ends only when its stream is down.                            *)
(***************************************************************************)
Listens(s) ==
    /\ conn[s] = "open" /\ stream[s] = "open" =>
          \/ reading[s]
          \/ \E w \in Worker : /\ frame[w].ws = s /\ frame[w].then # "return"
                               /\ frame[w].at \in {"snapshot", "visit"}
    /\ conn[s] \in {"refused", "gone"} => stream[s] # "open"

AllListen == \A s \in Session : Listens(s)

\* A session whose strand is at rest, or whose handler goes on to read again.
LEMMA ListensOn ==
    ASSUME TypeOK, NEW w \in Worker, NEW f, NEW r \in Session, Listens(r),
           frame' = [frame EXCEPT ![w] = f],
           conn'[r] = conn[r], stream'[r] = stream[r], reading'[r] = reading[r],
           \/ frame[w].ws # r \/ frame[w].then = "return" \/ frame[w].at \notin {"snapshot", "visit"}
           \/ f.ws = r /\ f.then # "return" /\ f.at \in {"snapshot", "visit"}
    PROVE  Listens(r)'
PROOF
  <1>1. frame'[w] = f /\ \A v \in Worker \ {w} : frame'[v] = frame[v]
    BY DEF TypeOK
  <1> QED
    BY <1>1 DEF Listens

\* A step of a handler of s leaves the others as they were.
LEMMA OthersListen ==
    ASSUME TypeOK, AllListen, NEW w \in Worker, NEW s \in Session, NEW f, Beside(w, s, f),
           \A r \in Session \ {s} :
               conn'[r] = conn[r] /\ stream'[r] = stream[r] /\ reading'[r] = reading[r],
           Listens(s)'
    PROVE  AllListen'
PROOF
  <1>1. ASSUME NEW r \in Session \ {s}
        PROVE  Listens(r)'
    <2>1. frame[w].ws # r \/ frame[w].at \notin {"snapshot", "visit"}
      BY DEF Beside
    <2> QED
      BY <2>1, ListensOn DEF Beside, AllListen
  <1> QED
    BY <1>1 DEF AllListen

\* A destructor runs when the stream is down.
LEMMA LeavesDown ==
    ASSUME TypeOK, AllAlive, AllListen, NEW w \in Worker, NEW s \in Session, At(w, s, "leave")
    PROVE  stream[s] # "open"
PROOF
  <1>1. conn[s] \in {"none", "accepting", "refused", "open", "gone"} /\ Alive(s) /\ Listens(s)
    BY DEF TypeOK, AllAlive, AllListen
  <1>2. ~Pending(s) /\ conn[s] \in {"refused", "open"}
    BY <1>1 DEF Alive, At, StrandFree, Pending
  <1>3. \A v \in Worker : frame[v].ws = s => v = w
    BY <1>1 DEF Alive, At
  <1> QED
    BY <1>1, <1>2, <1>3 DEF Listens, Pending, At

\* A step of a handler leaves everyone listening whose stream is up.
LEMMA StatementListen ==
    ASSUME TypeOK, AllAlive, AllListen, NEW w \in Worker, NEW s \in Session, Statement(w, s)
    PROVE  AllListen'
PROOF
  <1>1. PICK f : Beside(w, s, f)
    BY BesideFrames
  <1>2. \A r \in Session \ {s} :
            conn'[r] = conn[r] /\ stream'[r] = stream[r] /\ reading'[r] = reading[r]
    <2>1. CASE LoadUid(w, s) \/ StoreUid(w, s) \/ OpenCount(w, s) \/ CloseCount(w, s)
                 \/ EndNotice(w, s) \/ Reject(w, s) \/ EchoApp(w, s) \/ EndRead(w, s) \/ Leave(w, s)
      BY <2>1 DEF TypeOK, LoadUid, StoreUid, OpenCount, CloseCount, EndNotice, Reject, EchoApp,
                  EndRead, Leave, net
    <2>2. CASE Environment(w, s) \/ Handler(w, s)
      BY <2>2 DEF TypeOK, Environment, Handler, OnAcceptClosed, OnAcceptError, OnReadNotJson,
                  OnReadMessage, OnReadClosed, OnReadError, OnWriteError, OnAccept, OnReadAborted,
                  Writing, OnWriteOk, OnWriteAborted
    <2> QED
      BY <2>1, <2>2 DEF Statement
  <1> SUFFICES Listens(s)'
    BY <1>1, <1>2, OthersListen
  <1>3. frame'[w] = f /\ Listens(s) /\ frame' = [frame EXCEPT ![w] = f]
    BY <1>1 DEF TypeOK, Beside, AllListen
  <1>4. ASSUME UNCHANGED <<conn, stream, reading>>, frame[w].at \notin {"snapshot", "visit"}
        PROVE  Listens(s)'
    BY <1>3, <1>4, ListensOn
  <1>5. CASE LoadUid(w, s) \/ StoreUid(w, s) \/ OpenCount(w, s) \/ CloseCount(w, s)
    BY <1>4, <1>5 DEF LoadUid, StoreUid, OpenCount, CloseCount, At, net
  <1>6. CASE EndNotice(w, s)
    BY <1>3, <1>6, ListensOn DEF EndNotice, LoopEnded, net
  <1>7. CASE Reject(w, s) \/ EndRead(w, s)
    <2>1. reading'[s] /\ conn' = conn /\ stream' = stream
      BY <1>7 DEF TypeOK, Reject, EndRead
    <2> QED
      BY <1>3, <2>1 DEF Listens
  <1>8. CASE EchoApp(w, s)
    <2>1. PICK g : g = WriteAll(s, Message("reply", s, frame[w].note.n), "do_read")
      OBVIOUS
    <2>2. g.ws = s /\ g.then # "return" /\ g.at = "snapshot" /\ frame' = [frame EXCEPT ![w] = g]
      BY <1>8, <2>1 DEF EchoApp, WriteAll, Enter, Idle
    <2> QED
      BY <1>3, <1>8, <2>2, ListensOn DEF EchoApp, net
  <1>9. CASE Leave(w, s)
    <2>1. stream[s] # "open" /\ stream' = stream
      BY <1>9, LeavesDown DEF Leave
    <2> QED
      BY <2>1 DEF Listens
  <1>10. ASSUME NEW after \in Input \intersect After, OnReadMessage(w, s, after)
         PROVE  Listens(s)'
    <2>1. PICK g : g = WriteAll(s, Message("relay", s, sent'[s]), after)
      OBVIOUS
    <2>2. after # "return"
      BY InputAssumption DEF AllInputs
    <2>3. g.ws = s /\ g.then = after /\ g.at = "snapshot" /\ frame' = [frame EXCEPT ![w] = g]
      BY <1>10, <2>1 DEF OnReadMessage, WriteAll, Enter, Idle
    <2>4. frame'[w] = g /\ conn' = conn /\ stream' = stream
      BY <1>10, <2>3 DEF TypeOK, OnReadMessage
    <2> QED
      BY <1>3, <2>2, <2>3, <2>4 DEF Listens
  <1>11. CASE OnReadNotJson(w, s) \/ Writing(w, s) \/ OnWriteOk(w, s)
    BY <1>4, <1>11 DEF OnReadNotJson, Writing, OnWriteOk, CanRun
  <1>12. CASE \/ OnAcceptClosed(w, s) \/ OnAcceptError(w, s) \/ OnReadClosed(w, s)
              \/ OnReadError(w, s) \/ OnReadAborted(w, s) \/ OnWriteError(w, s) \/ OnWriteAborted(w, s)
    <2>1. stream'[s] # "open"
      BY <1>12 DEF TypeOK, OnAcceptClosed, OnAcceptError, OnReadClosed, OnReadError, OnReadAborted,
                   OnWriteError, OnWriteAborted
    <2> QED
      BY <2>1 DEF Listens
  <1>13. CASE OnAccept(w, s)
    <2>1. conn'[s] = "open" /\ reading'[s]
      BY <1>13 DEF TypeOK, OnAccept
    <2> QED
      BY <2>1 DEF Listens
  <1> QED
    BY <1>5, <1>6, <1>7, <1>8, <1>9, <1>10, <1>11, <1>12, <1>13 DEF Statement, Environment, Handler

\* ... and so does every step.
LEMMA NextListen == Typed /\ AllAlive /\ AllListen /\ [Next]_vars => AllListen'
PROOF
  <1> SUFFICES ASSUME Typed, AllAlive, AllListen, [Next]_vars PROVE AllListen'
    OBVIOUS
  <1>1. TypeOK
    BY DEF Typed
  <1>2. CASE UNCHANGED vars
    BY <1>2 DEF AllListen, Listens, vars, net
  <1>3. ASSUME NEW s \in Session, Connect(s)
        PROVE  AllListen'
    <2> SUFFICES ASSUME NEW r \in Session PROVE Listens(r)'
      BY DEF AllListen
    <2>1. UNCHANGED <<stream, reading, frame>> /\ Listens(r)
      BY <1>3 DEF AllListen, Connect, net
    <2>2. CASE r = s
      BY <1>1, <1>3, <2>2 DEF TypeOK, Connect, Listens
    <2>3. CASE r # s
      <3>1. conn'[r] = conn[r]
        BY <1>1, <1>3, <2>3 DEF TypeOK, Connect
      <3> QED
        BY <2>1, <3>1 DEF Listens
    <2> QED
      BY <2>2, <2>3
  <1>4. ASSUME NEW w \in Worker, Snapshot(w) \/ \E r \in Session : Visit(w, r)
        PROVE  AllListen'
    <2>1. frame[w] \in Frame
      BY <1>1 DEF TypeOK
    <2>2. PICK f : /\ frame' = [frame EXCEPT ![w] = f]
                   /\ f.ws = frame[w].ws /\ f.then = frame[w].then /\ f.at = "visit"
      <3>1. CASE Snapshot(w)
        <4>1. PICK g : g = [frame[w] EXCEPT !.todo = share_, !.at = "visit"]
          OBVIOUS
        <4>2. g.ws = frame[w].ws /\ g.then = frame[w].then /\ g.at = "visit"
          BY <2>1, <4>1 DEF Frame
        <4>3. frame' = [frame EXCEPT ![w] = g]
          BY <1>1, <3>1, <4>1 DEF TypeOK, Snapshot
        <4> QED
          BY <4>2, <4>3
      <3>2. ASSUME NEW r \in Session, Visit(w, r)
            PROVE  \E g : /\ frame' = [frame EXCEPT ![w] = g]
                          /\ g.ws = frame[w].ws /\ g.then = frame[w].then /\ g.at = "visit"
        <4>1. PICK g : g = [frame[w] EXCEPT !.todo = @ \ {r}]
          OBVIOUS
        <4>2. g.ws = frame[w].ws /\ g.then = frame[w].then /\ g.at = frame[w].at
          BY <2>1, <4>1 DEF Frame
        <4>3. frame' = [frame EXCEPT ![w] = g] /\ frame[w].at = "visit"
          BY <1>1, <3>2, <4>1 DEF TypeOK, Visit
        <4> QED
          BY <4>2, <4>3
      <3> QED
        BY <1>4, <3>1, <3>2
    <2>3. UNCHANGED <<conn, stream, reading>>
      BY <1>4 DEF Snapshot, Visit, net
    <2> SUFFICES ASSUME NEW r \in Session PROVE Listens(r)'
      BY DEF AllListen
    <2>4. Listens(r)
      BY DEF AllListen
    <2>5. \/ frame[w].ws # r \/ frame[w].then = "return"
          \/ f.ws = r /\ f.then # "return" /\ f.at \in {"snapshot", "visit"}
      BY <2>2
    <2> QED
      BY <1>1, <2>2, <2>3, <2>4, <2>5, ListensOn
  <1>5. ASSUME NEW w \in Worker, AppData(w) \/ EndAppData(w)
        PROVE  AllListen'
    <2>1. PICK f : Beside(w, Nobody, f)
      BY <1>1, <1>5, BesideFrames
    <2>2. UNCHANGED <<conn, stream, reading>>
      BY <1>5 DEF AppData, EndAppData, net
    <2> SUFFICES ASSUME NEW r \in Session PROVE Listens(r)'
      BY DEF AllListen
    <2>3. Listens(r)
      BY DEF AllListen
    <2>4. frame[w].ws # r \/ frame[w].at \notin {"snapshot", "visit"}
      BY <2>1, NobodyAssumption DEF Beside
    <2> QED
      BY <1>1, <2>1, <2>2, <2>3, <2>4, ListensOn DEF Beside
  <1> QED
    BY <1>1, <1>2, <1>3, <1>4, <1>5, NextKinds, StatementListen

(***************************************************************************)
(* Before its handshake has ended nothing of a session is running, waiting *)
(* or lost, but the handshake.                                             *)
(***************************************************************************)
Untouched(s) ==
    conn[s] \in {"none", "accepting"} =>
        /\ stream[s] = "open" /\ ~sending[s] /\ posted[s] = <<>> /\ queue_[s] = <<>>
        /\ StrandFree(s)

AllUntouched == \A s \in Session : Untouched(s)

\* A handler of a session begins with the end of its handshake, or after it.
LEMMA StatementTouches ==
    ASSUME Typed, AllAlive, AllUntouched, NEW w \in Worker, NEW s \in Session, Statement(w, s)
    PROVE  conn'[s] \notin {"none", "accepting"}
PROOF
  <1>1. TypeOK /\ Alive(s) /\ Untouched(s)
    BY DEF Typed, AllAlive, AllUntouched
  <1>2. \/ frame[w].ws = s \/ reading[s] \/ sending[s] \/ posted[s] # <<>>
        => conn[s] \notin {"none", "accepting"}
    BY <1>1 DEF Alive, Untouched, StrandFree, Pending
  <1>3. ASSUME frame[w].ws = s
        PROVE  conn[s] \notin {"none", "accepting"}
    BY <1>2, <1>3
  <1>4. CASE \/ LoadUid(w, s) \/ StoreUid(w, s) \/ OpenCount(w, s) \/ CloseCount(w, s)
             \/ EndNotice(w, s) \/ Reject(w, s) \/ EchoApp(w, s) \/ EndRead(w, s)
    <2>1. frame[w].ws = s /\ conn' = conn
      BY <1>4 DEF LoadUid, StoreUid, OpenCount, CloseCount, EndNotice, Reject, EchoApp, EndRead,
                  LoopEnded, At
    <2> QED
      BY <1>3, <2>1
  <1>5. CASE Leave(w, s) \/ OnAccept(w, s) \/ OnAcceptClosed(w, s) \/ OnAcceptError(w, s)
    BY <1>1, <1>5 DEF TypeOK, Leave, OnAccept, OnAcceptClosed, OnAcceptError
  <1>6. ASSUME NEW after, \/ OnReadNotJson(w, s) \/ OnReadMessage(w, s, after) \/ OnReadClosed(w, s)
                          \/ OnReadError(w, s) \/ OnReadAborted(w, s)
        PROVE  conn'[s] \notin {"none", "accepting"}
    <2>1. reading[s] /\ conn' = conn
      BY <1>6 DEF OnReadNotJson, OnReadMessage, OnReadClosed, OnReadError, OnReadAborted
    <2> QED
      BY <1>2, <2>1
  <1>7. CASE Writing(w, s) \/ OnWriteOk(w, s) \/ OnWriteError(w, s) \/ OnWriteAborted(w, s)
    <2>1. (posted[s] # <<>> \/ sending[s]) /\ conn' = conn
      BY <1>7 DEF Writing, OnWriteOk, OnWriteError, OnWriteAborted
    <2> QED
      BY <1>2, <2>1
  <1> QED
    BY <1>4, <1>5, <1>6, <1>7 DEF Statement, Environment, Handler

\* So it is after every step.
LEMMA NextUntouched ==
    Typed /\ AllAlive /\ NotesCurrent /\ AllUntouched /\ [Next]_vars => AllUntouched'
PROOF
  <1> SUFFICES ASSUME Typed, AllAlive, NotesCurrent, AllUntouched, [Next]_vars,
                      NEW r \in Session
               PROVE  Untouched(r)'
    BY DEF AllUntouched
  <1>1. TypeOK /\ Untouched(r)
    BY DEF Typed, AllUntouched
  <1>2. ASSUME stream'[r] = stream[r], sending'[r] = sending[r], posted'[r] = posted[r],
               queue_'[r] = queue_[r], conn[r] \in {"none", "accepting"},
               \A v \in Worker : frame'[v].ws = r => frame[v].ws = r
        PROVE  Untouched(r)'
    BY <1>1, <1>2 DEF Untouched, StrandFree
  <1>3. CASE UNCHANGED vars
    BY <1>1, <1>3 DEF Untouched, StrandFree, vars, net
  <1>4. ASSUME NEW s \in Session, Connect(s)
        PROVE  Untouched(r)'
    <2>1. UNCHANGED <<stream, sending, posted, queue_, frame>>
      BY <1>4 DEF Connect, net
    <2>2. CASE r = s
      BY <1>2, <1>4, <2>1, <2>2 DEF Connect
    <2>3. CASE r # s
      <3>1. conn'[r] = conn[r]
        BY <1>1, <1>4, <2>3 DEF TypeOK, Connect
      <3> QED
        BY <1>2, <2>1, <3>1 DEF Untouched
    <2> QED
      BY <2>2, <2>3
  <1>5. ASSUME NEW w \in Worker, Snapshot(w)
        PROVE  Untouched(r)'
    <2>1. frame[w] \in Frame /\ frame'[w] = [frame[w] EXCEPT !.todo = share_, !.at = "visit"]
      BY <1>1, <1>5 DEF TypeOK, Snapshot
    <2>2. frame'[w].ws = frame[w].ws /\ \A v \in Worker \ {w} : frame'[v] = frame[v]
      BY <1>1, <1>5, <2>1 DEF TypeOK, Snapshot, Frame
    <2> QED
      BY <1>2, <1>5, <2>2 DEF Snapshot, net, Untouched
  <1>6. ASSUME NEW w \in Worker, NEW s \in Session, Visit(w, s)
        PROVE  Untouched(r)'
    <2>1. frame[w] \in Frame /\ frame'[w] = [frame[w] EXCEPT !.todo = @ \ {s}]
      BY <1>1, <1>6 DEF TypeOK, Visit
    <2>2. frame'[w].ws = frame[w].ws /\ \A v \in Worker \ {w} : frame'[v] = frame[v]
      BY <1>1, <1>6, <2>1 DEF TypeOK, Visit, Frame
    <2>3. conn[s] \in {"open", "gone"} /\ conn' = conn
      BY <1>6 DEF NotesCurrent, Visit
    <2>4. r # s => posted'[r] = posted[r]
      BY <1>1, <1>6 DEF TypeOK, Visit
    <2> QED
      BY <1>2, <1>6, <2>2, <2>3, <2>4 DEF Visit, Untouched
  <1>7. ASSUME NEW w \in Worker, NEW a \in Author, NEW f, Beside(w, a, f), r # a,
               conn'[r] = conn[r], stream'[r] = stream[r], sending'[r] = sending[r],
               posted'[r] = posted[r], queue_'[r] = queue_[r]
        PROVE  Untouched(r)'
    <2>1. frame'[w] = f /\ \A v \in Worker \ {w} : frame'[v] = frame[v]
      BY <1>1, <1>7 DEF TypeOK, Beside
    <2>2. \A v \in Worker : frame'[v].ws = r => frame[v].ws = r
      BY <1>7, <2>1, NobodyAssumption DEF Beside
    <2> QED
      BY <1>2, <1>7, <2>2 DEF Untouched
  <1>8. ASSUME NEW w \in Worker, AppData(w) \/ EndAppData(w)
        PROVE  Untouched(r)'
    <2>1. PICK f : Beside(w, Nobody, f)
      BY <1>1, <1>8, BesideFrames
    <2>2. UNCHANGED <<conn, stream, sending, posted, queue_>> /\ Nobody \in Author /\ r # Nobody
      BY <1>8, NobodyAssumption DEF AppData, EndAppData, net, Author
    <2> QED
      BY <1>7, <2>1, <2>2
  <1>9. ASSUME NEW w \in Worker, NEW s \in Session, Statement(w, s)
        PROVE  Untouched(r)'
    <2>1. CASE r = s
      BY <1>9, <2>1, StatementTouches DEF Untouched
    <2>2. CASE r # s
      <3>1. PICK f : Beside(w, s, f)
        BY <1>1, <1>9, BesideFrames
      <3>2. /\ conn'[r] = conn[r] /\ stream'[r] = stream[r] /\ sending'[r] = sending[r]
            /\ posted'[r] = posted[r] /\ queue_'[r] = queue_[r]
        <4>1. CASE \/ LoadUid(w, s) \/ StoreUid(w, s) \/ OpenCount(w, s) \/ CloseCount(w, s)
                   \/ EndNotice(w, s) \/ Reject(w, s) \/ EchoApp(w, s) \/ EndRead(w, s) \/ Leave(w, s)
          BY <1>1, <2>2, <4>1 DEF TypeOK, LoadUid, StoreUid, OpenCount, CloseCount, EndNotice, Reject,
                                  EchoApp, EndRead, Leave, net
        <4>2. CASE Environment(w, s)
          BY <1>1, <2>2, <4>2 DEF TypeOK, Environment, OnAcceptClosed, OnAcceptError, OnReadNotJson,
                                  OnReadMessage, OnReadClosed, OnReadError, OnWriteError
        <4>3. CASE Handler(w, s)
          BY <1>1, <2>2, <4>3 DEF TypeOK, Handler, OnAccept, OnReadAborted, Writing, OnWriteOk,
                                  OnWriteAborted
        <4> QED
          BY <1>9, <4>1, <4>2, <4>3 DEF Statement
      <3>3. s \in Author
        BY DEF Author
      <3> QED
        BY <1>7, <2>2, <3>1, <3>2, <3>3
    <2> QED
      BY <2>1, <2>2
  <1> QED
    BY <1>3, <1>4, <1>5, <1>6, <1>8, <1>9, NextKinds

-----------------------------------------------------------------------------
(***************************************************************************)
(* The invariant of the log.  A message that is being posted to all is the *)
(* last of it, and is still owed to the sessions that the loop has yet to  *)
(* visit.  What is on its way to a session whose stream is up leads        *)
(* through the log from what it has heard to what it has been told.        *)
(***************************************************************************)
Owes(r) == \E w \in Worker : Carries(w) /\ frame[w].at = "visit" /\ r \in frame[w].todo
Told(r) == IF Owes(r) THEN Len(log) - 1 ELSE Len(log)
Heard(r) == first[r] - 1 + Len(got[r])
InStep(r) == r \in Live => Leads(log, Backlog(r), Heard(r), Told(r))

LogTyped ==
    /\ log \in Seq(Relayed) /\ first \in [Session -> Nat]
    /\ \A a \in Author : sent[a] <= MaxMessages

HasJoined(s) ==
    /\ first[s] # 0 => conn[s] \in {"open", "gone"}
    /\ conn[s] = "open" => first[s] # 0

LastLogged ==
    \A w \in Worker :
        Carries(w) /\ frame[w].at = "visit" => log # <<>> /\ log[Len(log)] = frame[w].note

Followed ==
    /\ LogTyped /\ LastLogged
    /\ \A s \in Session : HasJoined(s) /\ InStep(s)

\* What the log's invariant rests on.
Heeded == Typed /\ AllAlive /\ AllOrdered /\ GotRecorded /\ AllListen /\ AllUntouched

-----------------------------------------------------------------------------
\* What is in the log is a message like the others.
LEMMA LogIsMessages ==
    ASSUME LogTyped
    PROVE  Relayed \subseteq Msg /\ log \in Seq(Msg) /\ Len(log) \in Nat
PROOF
  <1>1. Relayed \subseteq Msg
    BY BoundAssumption DEF Relayed, Msg, MsgType
  <1>2. \A S, T : S \subseteq T => \A q \in Seq(S) : q \in Seq(T) /\ Len(q) \in Nat
    BY SeqDef
  <1> QED
    BY <1>1, <1>2 DEF LogTyped

\* Only the snapshot of a worker that carries such a message adds to the log.
LEMMA LogGrows ==
    ASSUME OneWorker, Logged, NEW w \in Worker, Snapshot(w)
    PROVE  log' = IF Carries(w) THEN Append(log, frame[w].note) ELSE log
PROOF
  <1>1. \A v \in Worker : v = w
    BY DEF OneWorker
  <1> QED
    BY <1>1 DEF Logged, Publishes, Carries

\* Any other step leaves it as it is.
LEMMA LogStays ==
    ASSUME TypeOK, Logged,
           \A v \in Worker : frame' = frame \/ frame[v].at # "snapshot" \/ frame'[v].at # "visit"
    PROVE  log' = log
PROOF
  <1>1. ASSUME NEW v \in Worker, Snapshot(v)
        PROVE  FALSE
    <2>1. frame[v] \in Frame /\ frame[v].at = "snapshot"
      BY <1>1 DEF TypeOK, Snapshot
    <2>2. frame'[v] = [frame[v] EXCEPT !.todo = share_, !.at = "visit"]
      BY <1>1 DEF TypeOK, Snapshot
    <2>3. frame'[v].at = "visit"
      BY <2>1, <2>2 DEF Frame
    <2> QED
      BY <2>1, <2>3
  <1> QED
    BY <1>1 DEF Logged, Publishes

\* Beside the loop of exec_to_all nothing is owed, and the log stays as it is.
LEMMA BesideOwes ==
    ASSUME TypeOK, OneWorker, NEW w \in Worker, NEW a, NEW f, Beside(w, a, f)
    PROVE  /\ \A v \in Worker : v = w /\ frame'[v] = f
           /\ \A r : ~Owes(r) /\ ~Owes(r)'
           /\ Logged => log' = log
PROOF
  <1>1. \A v \in Worker : v = w
    BY DEF OneWorker
  <1>2. frame'[w] = f /\ f.at # "visit"
    BY DEF TypeOK, Beside
  <1>3. Logged => log' = log
    BY <1>1, <1>2, LogStays
  <1>4. \A r : ~Owes(r)
    BY <1>1 DEF Owes, Beside
  <1>5. \A r : ~Owes(r)'
    BY <1>1, <1>2 DEF Owes
  <1> QED
    BY <1>1, <1>2, <1>3, <1>4, <1>5

\* Who joins gets the place after the last of the log.
LEMMA PlacesGiven ==
    ASSUME TypeOK, AllAlive, LogTyped, Placed
    PROVE  /\ share_' \subseteq share_ => first' = first
           /\ \A w \in Worker, s \in Session :
                  OnAccept(w, s) => first' = [first EXCEPT ![s] = Len(log) + 1]
PROOF
  <1>1. first \in [Session -> Nat]
    BY DEF LogTyped
  <1>2. share_' \subseteq share_ => first' = first
    BY <1>1 DEF Placed
  <1>3. ASSUME NEW w \in Worker, NEW s \in Session, OnAccept(w, s)
        PROVE  first' = [first EXCEPT ![s] = Len(log) + 1]
    <2>1. s \notin share_
      BY <1>3 DEF AllAlive, Alive, OnAccept
    <2>2. share_' \ share_ = {s}
      BY <1>3, <2>1 DEF OnAccept
    <2> QED
      BY <1>1, <2>2 DEF Placed
  <1> QED
    BY <1>2, <1>3

\* A session that is heard of is in the hub, and its strand can be locked in the loop.
LEMMA LiveIsShared ==
    ASSUME Heeded, Followed, NEW r \in Live
    PROVE  /\ r \in Session /\ first[r] # 0 /\ stream[r] = "open" /\ conn[r] = "open"
           /\ r \in share_ /\ Locked(r)
PROOF
  <1>1. /\ r \in Session /\ first[r] # 0 /\ stream[r] = "open"
        /\ HasJoined(r) /\ Listens(r)
    BY DEF Live, Followed, Heeded, AllListen
  <1>2. conn[r] = "open"
    BY <1>1 DEF HasJoined, Listens
  <1>3. r \in share_
    BY <1>1, <1>2 DEF Heeded, AllOrdered, NotesCurrent
  <1>4. Locked(r)
    BY <1>1, <1>2 DEF Listens, Locked, Pending
  <1> QED
    BY <1>1, <1>2, <1>3, <1>4

\* Nothing happens to what r has heard, or a private message is posted to it.
Adds(q, p) == q = p \/ \E m \in Msg : ~Recorded(m) /\ q = Append(p, m)

\* Then r remains in step with the log.
LEMMA StaysInStep ==
    ASSUME Typed, LogTyped, NEW r \in Session, InStep(r), log' = log, Owes(r)' <=> Owes(r),
           r \in Live' => /\ r \in Live
                          /\ first'[r] = first[r] /\ got'[r] = got[r] /\ Adds(Backlog(r)', Backlog(r))
    PROVE  InStep(r)'
PROOF
  <1> SUFFICES ASSUME r \in Live' PROVE Leads(log, Backlog(r), Heard(r), Told(r))'
    BY DEF InStep
  <1>1. Leads(log, Backlog(r), Heard(r), Told(r)) /\ Heard(r)' = Heard(r) /\ Told(r)' = Told(r)
    BY DEF InStep, Heard, Told
  <1>2. log \in Seq(Msg) /\ Backlog(r) \in Seq(Msg)
    <2>1. queue_[r] \in Seq(Msg) /\ posted[r] \in Seq(Msg)
      BY DEF Typed, TypeOK
    <2> QED
      BY <2>1, LogIsMessages, ConcatProperties DEF Backlog
  <1>3. PICK b, lo, hi : b = Backlog(r) /\ lo = Heard(r) /\ hi = Told(r)
    OBVIOUS
  <1>4. Leads(log, Backlog(r)', lo, hi)
    <2>1. CASE Backlog(r)' = b
      BY <1>1, <1>3, <2>1
    <2>2. ASSUME NEW m \in Msg, ~Recorded(m), Backlog(r)' = Append(b, m)
          PROVE  Leads(log, Backlog(r)', lo, hi)
      <3>1. Leads(log, Append(b, m), lo, hi)
        BY <1>1, <1>2, <1>3, <2>2, LeadsPosted
      <3> QED
        BY <2>2, <3>1
    <2> QED
      BY <1>3, <2>1, <2>2 DEF Adds
  <1> QED
    BY <1>1, <1>3, <1>4 DEF Leads, Passes

-----------------------------------------------------------------------------
\* What a step beside the loop does to what a client is sent.
LEMMA StatementAdds ==
    ASSUME Typed, AllAlive, AllListen, NEW w \in Worker, NEW s \in Session, Statement(w, s), ~OnWriteOk(w, s)
    PROVE  /\ UNCHANGED got
           /\ \A r \in Session : stream'[r] = "open" => Adds(Backlog(r)', Backlog(r))
PROOF
  <1>1. TypeOK
    BY DEF Typed
  <1>2. UNCHANGED <<queue_, posted>> => \A r \in Session : Adds(Backlog(r)', Backlog(r))
    BY DEF Adds, Backlog
  <1>3. ASSUME NEW m \in Msg, ~Recorded(m), UNCHANGED queue_, posted' = [posted EXCEPT ![s] = Append(@, m)]
        PROVE  \A r \in Session : Adds(Backlog(r)', Backlog(r))
    BY <1>1, <1>3, BacklogPosted DEF Adds
  <1>4. CASE \/ LoadUid(w, s) \/ OpenCount(w, s) \/ CloseCount(w, s) \/ EndNotice(w, s)
             \/ EchoApp(w, s) \/ EndRead(w, s)
    BY <1>2, <1>4 DEF LoadUid, OpenCount, CloseCount, EndNotice, EchoApp, EndRead, net, hist
  <1>5. CASE StoreUid(w, s) \/ Reject(w, s) \/ OnReadNotJson(w, s)
    <2>1. frame[w].val \in Nat
      BY <1>1 DEF TypeOK, Frame
    <2>2. /\ Message("hello", Nobody, frame[w].val) \in Msg /\ ~Recorded(Message("hello", Nobody, frame[w].val))
          /\ Message("error", Nobody, 0) \in Msg /\ ~Recorded(Message("error", Nobody, 0))
      BY <2>1, MessagesTyped DEF Recorded, Message
    <2> QED
      BY <1>3, <1>5, <2>2 DEF StoreUid, Reject, OnReadNotJson, hist
  <1>6. CASE Leave(w, s)
    <2>1. stream'[s] # "open"
      BY <1>1, <1>6, LeavesDown DEF Leave
    <2>2. \A r \in Session \ {s} : queue_'[r] = queue_[r] /\ posted' = posted
      BY <1>1, <1>6 DEF TypeOK, Leave
    <2> QED
      BY <1>6, <2>1, <2>2 DEF Leave, hist, Adds, Backlog
  <1>7. ASSUME NEW after, \/ OnAccept(w, s) \/ OnAcceptClosed(w, s) \/ OnAcceptError(w, s)
                          \/ OnReadMessage(w, s, after) \/ OnReadClosed(w, s) \/ OnReadError(w, s)
                          \/ OnReadAborted(w, s) \/ OnWriteError(w, s) \/ OnWriteAborted(w, s)
        PROVE  UNCHANGED <<got, queue_, posted>>
    BY <1>7 DEF OnAccept, OnAcceptClosed, OnAcceptError, OnReadMessage, OnReadClosed, OnReadError,
                OnReadAborted, OnWriteError, OnWriteAborted, hist
  <1>8. CASE Writing(w, s)
    BY <1>1, <1>8, BacklogMoved DEF Writing, hist, Adds
  <1> QED
    BY <1>2, <1>4, <1>5, <1>6, <1>7, <1>8 DEF Statement, Environment, Handler

\* ... to its life, and to what has been relayed.
LEMMA StatementLives ==
    ASSUME Typed, NEW w \in Worker, NEW s \in Session, Statement(w, s), ~OnAccept(w, s)
    PROVE  /\ share_' \subseteq share_
           /\ \A r \in Session :
                 /\ \/ conn'[r] = conn[r] \/ conn'[r] = "gone"
                    \/ conn[r] = "accepting" /\ conn'[r] = "refused"
                 /\ stream'[r] = "open" => stream[r] = "open"
PROOF
  <1>1. TypeOK
    BY DEF Typed
  <1>2. CASE \/ LoadUid(w, s) \/ StoreUid(w, s) \/ OpenCount(w, s) \/ CloseCount(w, s)
             \/ EndNotice(w, s) \/ Reject(w, s) \/ EchoApp(w, s) \/ EndRead(w, s)
    BY <1>2 DEF LoadUid, StoreUid, OpenCount, CloseCount, EndNotice, Reject, EchoApp, EndRead, net
  <1>3. CASE Leave(w, s)
    BY <1>1, <1>3 DEF TypeOK, Leave
  <1>4. ASSUME NEW after, \/ OnReadNotJson(w, s) \/ OnReadMessage(w, s, after)
                          \/ OnWriteAborted(w, s) \/ Writing(w, s) \/ OnWriteOk(w, s) \/ OnReadAborted(w, s)
        PROVE  UNCHANGED <<share_, conn, stream>>
    BY <1>4 DEF OnReadNotJson, OnReadMessage, OnWriteAborted, Writing, OnWriteOk, OnReadAborted
  <1>5. CASE \/ OnAcceptClosed(w, s) \/ OnAcceptError(w, s) \/ OnReadClosed(w, s) \/ OnReadError(w, s)
             \/ OnWriteError(w, s)
    BY <1>1, <1>5 DEF TypeOK, OnAcceptClosed, OnAcceptError, OnReadClosed, OnReadError, OnWriteError
  <1> QED
    BY <1>2, <1>3, <1>4, <1>5 DEF Statement, Environment, Handler

\* Nobody relays more than MaxMessages.
LEMMA NextBounded ==
    ASSUME TypeOK, \A a \in Author : sent[a] <= MaxMessages, [Next]_vars
    PROVE  \A a \in Author : sent'[a] <= MaxMessages
PROOF
  <1>1. ASSUME NEW w \in Worker, NEW s \in Session, NEW after, OnReadMessage(w, s, after)
        PROVE  \A a \in Author : sent'[a] <= MaxMessages
    BY <1>1, BoundAssumption DEF TypeOK, OnReadMessage, Author
  <1>2. ASSUME NEW w \in Worker, AppData(w)
        PROVE  \A a \in Author : sent'[a] <= MaxMessages
    BY <1>2, BoundAssumption DEF TypeOK, AppData, Author
  <1>3. ASSUME NEW w \in Worker, NEW s \in Session, Statement(w, s)
        PROVE  UNCHANGED sent \/ \E after : OnReadMessage(w, s, after)
    BY <1>3 DEF Statement, LoadUid, StoreUid, OpenCount, CloseCount, EndNotice, Reject, EchoApp,
                EndRead, Leave, Environment, Handler, OnAcceptClosed, OnAcceptError, OnReadNotJson,
                OnReadClosed, OnReadError, OnWriteError, OnAccept, OnReadAborted, Writing, OnWriteOk,
                OnWriteAborted, hist
  <1>4. ASSUME NEW w \in Worker, Snapshot(w) \/ EndAppData(w) \/ \E r \in Session : Visit(w, r)
        PROVE  UNCHANGED sent
    BY <1>4 DEF Snapshot, EndAppData, Visit, hist
  <1> QED
    BY <1>1, <1>2, <1>3, <1>4, NextKinds DEF Connect, vars, hist

-----------------------------------------------------------------------------
\* A step beside the loop, of a handler that neither joins nor completes a write.
LEMMA BesideFollowed ==
    ASSUME OneWorker, Heeded, Followed, NEW w \in Worker, NEW a, NEW f, Beside(w, a, f),
           Logged, first' = first, \A b \in Author : sent'[b] <= MaxMessages,
           \A r \in Session :
               /\ \/ conn'[r] = conn[r] \/ conn'[r] = "gone"
                  \/ conn[r] = "accepting" /\ conn'[r] = "refused"
               /\ stream'[r] = "open" => stream[r] = "open" /\ Adds(Backlog(r)', Backlog(r)),
           UNCHANGED got
    PROVE  Followed'
PROOF
  <1>1. TypeOK /\ Typed /\ LogTyped
    BY DEF Heeded, Typed, Followed
  <1>2. /\ \A v \in Worker : v = w /\ frame'[v] = f
        /\ \A r : ~Owes(r) /\ ~Owes(r)'
        /\ log' = log
    BY <1>1, BesideOwes
  <1>3. LogTyped'
    BY <1>1, <1>2 DEF LogTyped
  <1>4. LastLogged'
    BY <1>2 DEF LastLogged, Beside
  <1>5. ASSUME NEW r \in Session
        PROVE  HasJoined(r)' /\ InStep(r)'
    <2>1. HasJoined(r) /\ InStep(r)
      BY DEF Followed
    <2>2. HasJoined(r)'
      BY <2>1 DEF HasJoined
    <2>3. r \in Live' => r \in Live /\ Adds(Backlog(r)', Backlog(r))
      BY DEF Live
    <2> QED
      BY <1>1, <1>2, <2>1, <2>2, <2>3, StaysInStep
  <1> QED
    BY <1>3, <1>4, <1>5 DEF Followed

\* A connection is accepted by the listener, before it is a session of the hub.
LEMMA ConnectFollowed ==
    ASSUME Heeded, Followed, NEW s \in Session, Connect(s), Logged, Placed
    PROVE  Followed'
PROOF
  <1>1. TypeOK /\ Typed /\ LogTyped /\ AllAlive
    BY DEF Heeded, Typed, Followed
  <1>2. /\ UNCHANGED <<frame, stream, queue_, posted, got, sent, share_>>
        /\ \A r \in Session : conn'[r] = conn[r] \/ (conn[r] = "none" /\ conn'[r] = "accepting")
    BY <1>1 DEF TypeOK, Connect, net, hist
  <1>3. log' = log /\ first' = first
    BY <1>1, <1>2, LogStays, PlacesGiven
  <1>4. LogTyped' /\ LastLogged'
    BY <1>2, <1>3 DEF Followed, LogTyped, LastLogged, Carries
  <1>5. ASSUME NEW r \in Session
        PROVE  HasJoined(r)' /\ InStep(r)'
    <2>1. HasJoined(r) /\ InStep(r)
      BY DEF Followed
    <2>2. HasJoined(r)'
      BY <1>2, <1>3, <2>1 DEF HasJoined
    <2>3. Owes(r)' <=> Owes(r)
      BY <1>2 DEF Owes, Carries
    <2>4. Adds(Backlog(r)', Backlog(r))
      BY <1>2 DEF Adds, Backlog
    <2>5. r \in Live' => r \in Live
      BY <1>2, <1>3 DEF Live
    <2> QED
      BY <1>1, <1>2, <1>3, <2>1, <2>2, <2>3, <2>4, <2>5, StaysInStep
  <1> QED
    BY <1>4, <1>5 DEF Followed

\* A session joins: nothing is on its way to it yet that is in the log.
LEMMA JoinFollowed ==
    ASSUME OneWorker, Heeded, Followed, NEW w \in Worker, NEW s \in Session, OnAccept(w, s),
           Logged, Placed
    PROVE  Followed' /\ log' = log /\ first[s] = 0
PROOF
  <1>1. TypeOK /\ Typed /\ LogTyped /\ AllAlive
    BY DEF Heeded, Typed, Followed
  <1>2. PICK f : Beside(w, s, f)
    BY <1>1, BesideFrames DEF Statement, Handler
  <1>3. /\ \A v \in Worker : v = w /\ frame'[v] = f
        /\ \A r : ~Owes(r) /\ ~Owes(r)'
        /\ log' = log
    BY <1>1, <1>2, BesideOwes
  <1>4. first' = [first EXCEPT ![s] = Len(log) + 1] /\ first \in [Session -> Nat] /\ Len(log) \in Nat
    BY <1>1, PlacesGiven, LogIsMessages DEF LogTyped
  <1>5. /\ UNCHANGED <<stream, posted, queue_, got, sent>>
        /\ conn[s] = "accepting" /\ conn' = [conn EXCEPT ![s] = "open"]
    BY DEF OnAccept, hist
  <1>6. first[s] = 0
    BY <1>1, <1>4, <1>5 DEF Followed, HasJoined
  <1>7. first'[s] = Len(log) + 1 /\ \A r \in Session \ {s} : first'[r] = first[r]
    BY <1>4
  <1>8. LogTyped'
    BY <1>1, <1>3, <1>4, <1>5 DEF LogTyped
  <1>9. LastLogged'
    BY <1>2, <1>3 DEF LastLogged, Beside
  <1>10. ASSUME NEW r \in Session \ {s}
         PROVE  HasJoined(r)' /\ InStep(r)'
    <2>1. HasJoined(r) /\ InStep(r)
      BY DEF Followed
    <2>2. conn'[r] = conn[r] /\ first'[r] = first[r]
      BY <1>1, <1>5, <1>7 DEF TypeOK
    <2>3. HasJoined(r)'
      BY <2>1, <2>2 DEF HasJoined
    <2>4. Adds(Backlog(r)', Backlog(r)) /\ (r \in Live' => r \in Live)
      BY <1>5, <2>2 DEF Adds, Backlog, Live
    <2> QED
      BY <1>1, <1>3, <1>5, <2>1, <2>2, <2>3, <2>4, StaysInStep
  <1>11. HasJoined(s)'
    BY <1>1, <1>4, <1>5, <1>7 DEF HasJoined, TypeOK
  <1>12. InStep(s)'
    <2>1. /\ got[s] \in Seq(Msg) /\ queue_[s] \in Seq(Msg) /\ posted[s] \in Seq(Msg)
          /\ got[s] \o queue_[s] \in Seq(Msg) /\ Backlog(s) \in Seq(Msg) /\ Pipeline(s) \in Seq(Msg)
      BY <1>1, PipelineTyped, ConcatProperties DEF Backlog
    <2>2. \A i \in 1 .. Len(Pipeline(s)) : ~Recorded(Pipeline(s)[i])
      BY <1>5 DEF Heeded, AllOrdered, Ordered
    <2>3. Pipeline(s) = got[s] \o Backlog(s)
      BY <1>1, BacklogLast
    <2>4. Len(got[s]) = 0
      <3> SUFFICES ASSUME Len(got[s]) # 0 PROVE FALSE
        OBVIOUS
      <3>1. 1 \in 1 .. Len(got[s])
        BY <2>1
      <3>2. 1 \in 1 .. Len(Pipeline(s)) /\ Pipeline(s)[1] = got[s][1]
        BY <2>1, <2>3, <3>1, ConcatFront
      <3> QED
        BY <2>2, <3>1, <3>2 DEF Heeded, GotRecorded
    <2>5. got[s] = <<>>
      BY <2>1, <2>4, EmptySeq
    <2>6. Backlog(s) = Pipeline(s)
      BY <2>1, <2>3, <2>5, ConcatEmptySeq
    <2>7. Leads(log, Backlog(s), Len(log), Len(log))
      BY <1>1, <2>1, <2>2, <2>6, LeadsNowhere, LogIsMessages
    <2>8. Heard(s)' = Len(log) /\ Told(s)' = Len(log) /\ Backlog(s)' = Backlog(s)
      BY <1>3, <1>4, <1>5, <1>7, <2>4 DEF Heard, Told, Backlog
    <2> QED
      BY <1>3, <2>7, <2>8 DEF InStep, Leads, Passes
  <1> QED
    BY <1>3, <1>6, <1>8, <1>9, <1>10, <1>11, <1>12 DEF Followed

\* A message that is relayed is one that the log may hold.
LEMMA CarriedIsRelayed ==
    ASSUME Heeded, LogTyped, NEW w \in Worker, Carries(w)
    PROVE  frame[w].note \in Relayed
PROOF
  <1>1. frame[w].note \in Msg /\ frame[w].ws \in Author
    BY DEF Heeded, Typed, TypeOK, Frame
  <1>2. frame[w].note.n = sent[frame[w].ws] /\ sent[frame[w].ws] <= MaxMessages
    BY <1>1 DEF Heeded, AllOrdered, NotesCurrent, LogTyped
  <1>3. frame[w].note.n \in 0 .. MaxMessages
    BY <1>1, <1>2, BoundAssumption DEF Msg
  <1> QED
    BY <1>1, <1>3 DEF Carries, Recorded, Relayed, Msg

\* exec_to_all takes the shares: from here on the message is owed to all of them.
LEMMA SnapshotFollowed ==
    ASSUME OneWorker, Heeded, Followed, NEW w \in Worker, Snapshot(w), Logged, Placed
    PROVE  Followed' /\ first' = first
PROOF
  <1>1. TypeOK /\ Typed /\ LogTyped /\ AllAlive
    BY DEF Heeded, Typed, Followed
  <1>2. /\ frame[w] \in Frame /\ frame[w].at = "snapshot"
        /\ frame'[w] = [frame[w] EXCEPT !.todo = share_, !.at = "visit"]
    BY <1>1 DEF TypeOK, Snapshot
  <1>3. frame'[w].todo = share_ /\ frame'[w].at = "visit" /\ frame'[w].note = frame[w].note
    BY <1>2 DEF Frame
  <1>4. /\ \A v \in Worker : v = w
        /\ \A r : ~Owes(r)
        /\ \A r : Owes(r)' <=> Carries(w) /\ r \in share_
    BY <1>2, <1>3 DEF OneWorker, Owes, Carries
  <1>5. log' = IF Carries(w) THEN Append(log, frame[w].note) ELSE log
    BY LogGrows
  <1>6. /\ UNCHANGED <<conn, stream, queue_, posted, got, sent, share_>>
        /\ first' = first
    BY <1>1, PlacesGiven DEF Snapshot, net, hist
  <1>7. Carries(w) => frame[w].note \in Relayed
    BY <1>1, CarriedIsRelayed
  <1>8. LogTyped'
    BY <1>1, <1>5, <1>6, <1>7 DEF LogTyped
  <1>9. log \in Seq(Msg) /\ Len(log) \in Nat /\ Relayed \subseteq Msg
    BY <1>1, LogIsMessages
  <1>10. Carries(w) => /\ log' \in Seq(Msg) /\ Len(log') = Len(log) + 1 /\ log' # <<>>
                       /\ log'[Len(log')] = frame[w].note
    <2> SUFFICES ASSUME Carries(w)
                 PROVE  /\ log' \in Seq(Msg) /\ Len(log') = Len(log) + 1 /\ log' # <<>>
                        /\ log'[Len(log')] = frame[w].note
      OBVIOUS
    <2>1. PICK m : m = frame[w].note
      OBVIOUS
    <2>2. m \in Msg /\ log' = Append(log, m)
      BY <1>5, <1>7, <1>9, <2>1
    <2> QED
      BY <1>9, <2>1, <2>2, Places
  <1>11. LastLogged'
    BY <1>3, <1>4, <1>10 DEF LastLogged, Carries
  <1>12. ASSUME NEW r \in Session
         PROVE  HasJoined(r)' /\ InStep(r)'
    <2>1. HasJoined(r) /\ InStep(r)
      BY DEF Followed
    <2>2. HasJoined(r)' /\ Backlog(r)' = Backlog(r) /\ Heard(r)' = Heard(r) /\ (r \in Live' => r \in Live)
      BY <1>6, <2>1 DEF HasJoined, Backlog, Heard, Live
    <2>3. ASSUME r \in Live'
          PROVE  Leads(log, Backlog(r), Heard(r), Told(r))'
      <3>1. r \in Live /\ r \in share_
        BY <2>2, <2>3, LiveIsShared
      <3>2. Leads(log, Backlog(r), Heard(r), Len(log))
        BY <1>4, <2>1, <3>1 DEF InStep, Told
      <3>3. Backlog(r) \in Seq(Msg)
        <4>1. queue_[r] \in Seq(Msg) /\ posted[r] \in Seq(Msg)
          BY <1>1 DEF TypeOK
        <4> QED
          BY <4>1, ConcatProperties DEF Backlog
      <3>4. CASE Carries(w)
        <4>1. Told(r)' = Len(log)
          BY <1>4, <1>9, <1>10, <3>1, <3>4 DEF Told
        <4>2. Leads(log', Backlog(r), Heard(r), Len(log))
          <5>1. PICK m : m = frame[w].note
            OBVIOUS
          <5>2. m \in Msg /\ log' = Append(log, m)
            BY <1>5, <1>7, <1>9, <3>4, <5>1
          <5> QED
            BY <1>9, <3>2, <3>3, <5>2, LeadsLonger
        <4> QED
          BY <2>2, <4>1, <4>2 DEF Leads, Passes
      <3>5. CASE ~Carries(w)
        <4>1. Told(r)' = Len(log) /\ log' = log
          BY <1>4, <1>5, <3>5 DEF Told
        <4> QED
          BY <2>2, <3>2, <4>1 DEF Leads, Passes
      <3> QED
        BY <3>4, <3>5
    <2> QED
      BY <2>2, <2>3 DEF InStep
  <1> QED
    BY <1>6, <1>8, <1>11, <1>12 DEF Followed

\* The loop posts the message to one of them, and owes it to the rest.
LEMMA VisitFollowed ==
    ASSUME OneWorker, Heeded, Followed, NEW w \in Worker, NEW s \in Session, Visit(w, s), Logged, Placed
    PROVE  Followed' /\ log' = log /\ first' = first
PROOF
  <1>1. TypeOK /\ Typed /\ LogTyped /\ AllAlive
    BY DEF Heeded, Typed, Followed
  <1>2. /\ frame[w] \in Frame /\ frame[w].at = "visit" /\ s \in frame[w].todo
        /\ frame'[w] = [frame[w] EXCEPT !.todo = @ \ {s}]
    BY <1>1 DEF TypeOK, Visit
  <1>3. frame'[w].todo = frame[w].todo \ {s} /\ frame'[w].at = "visit" /\ frame'[w].note = frame[w].note
    BY <1>2 DEF Frame
  <1>4. /\ \A v \in Worker : v = w
        /\ \A r : Owes(r) <=> Carries(w) /\ r \in frame[w].todo
        /\ \A r : Owes(r)' <=> Carries(w) /\ r \in frame[w].todo \ {s}
    BY <1>2, <1>3 DEF OneWorker, Owes, Carries
  <1>5. log' = log
    BY <1>1, <1>2, <1>4, LogStays
  <1>6. /\ UNCHANGED <<conn, stream, queue_, got, sent, share_>>
        /\ first' = first
    BY <1>1, PlacesGiven DEF Visit, hist
  <1>7. LogTyped' /\ LastLogged'
    BY <1>2, <1>3, <1>4, <1>5, <1>6 DEF Followed, LogTyped, LastLogged, Carries
  <1>8. PICK m : m = frame[w].note
    OBVIOUS
  <1>9. m \in Msg /\ log \in Seq(Msg) /\ Len(log) \in Nat
    BY <1>1, <1>2, <1>8, LogIsMessages DEF Frame
  <1>10. ASSUME NEW r \in Session
         PROVE  HasJoined(r)' /\ InStep(r)'
    <2>1. HasJoined(r) /\ InStep(r)
      BY DEF Followed
    <2>2. HasJoined(r)' /\ Heard(r)' = Heard(r) /\ (r \in Live' => r \in Live)
      BY <1>6, <2>1 DEF HasJoined, Heard, Live
    <2>3. Backlog(r) \in Seq(Msg)
      <3>1. queue_[r] \in Seq(Msg) /\ posted[r] \in Seq(Msg)
        BY <1>1 DEF TypeOK
      <3> QED
        BY <3>1, ConcatProperties DEF Backlog
    <2>4. CASE r # s
      <3>1. Owes(r)' <=> Owes(r)
        BY <1>4, <2>4
      <3>2. posted'[r] = posted[r]
        BY <1>1, <2>4 DEF TypeOK, Visit
      <3>3. Backlog(r)' = Backlog(r)
        BY <1>6, <3>2 DEF Backlog
      <3> QED
        BY <1>1, <1>5, <1>6, <2>1, <2>2, <3>1, <3>3, StaysInStep DEF Adds
    <2>5. ASSUME r = s, r \in Live'
          PROVE  Leads(log, Backlog(r), Heard(r), Told(r))'
      <3>1. Locked(s) /\ Leads(log, Backlog(r), Heard(r), Told(r))
        BY <2>1, <2>2, <2>5, LiveIsShared DEF InStep
      <3>2. posted' = [posted EXCEPT ![s] = Append(@, m)] /\ UNCHANGED queue_
        BY <1>6, <1>8, <3>1 DEF Visit
      <3>3. Backlog(r)' = Append(Backlog(r), m)
        BY <1>1, <1>9, <2>5, <3>2, BacklogPosted
      <3>4. Told(r)' = Len(log)
        BY <1>4, <1>5, <2>5 DEF Told
      <3>5. PICK b, lo, hi : b = Backlog(r) /\ lo = Heard(r) /\ hi = Told(r)
        OBVIOUS
      <3>6. Leads(log, Append(b, m), lo, Len(log))
        <4>1. CASE Recorded(m)
          <5>1. hi = Len(log) - 1
            BY <1>2, <1>4, <1>8, <2>5, <3>5, <4>1 DEF Told, Carries
          <5>2. log[Len(log)] = m
            BY <1>2, <1>8, <4>1 DEF Followed, LastLogged, Carries
          <5>3. hi + 1 = Len(log)
            BY <1>9, <5>1
          <5> QED
            BY <1>9, <2>3, <3>1, <3>5, <4>1, <5>2, <5>3, LeadsPosted
        <4>2. CASE ~Recorded(m)
          <5>1. hi = Len(log)
            BY <1>4, <1>8, <3>5, <4>2 DEF Told, Carries
          <5> QED
            BY <1>9, <2>3, <3>1, <3>5, <4>2, <5>1, LeadsPosted
        <4> QED
          BY <4>1, <4>2
      <3> QED
        BY <1>5, <2>2, <3>3, <3>4, <3>5, <3>6 DEF Leads, Passes
    <2> QED
      BY <2>2, <2>4, <2>5 DEF InStep
  <1> QED
    BY <1>5, <1>6, <1>7, <1>10 DEF Followed

\* on_write: the client has the front of the queue; if it is in the log, it is the next.
LEMMA WrittenFollowed ==
    ASSUME OneWorker, Heeded, Followed, NEW w \in Worker, NEW s \in Session, OnWriteOk(w, s),
           Logged, Placed
    PROVE  /\ Followed' /\ log' = log /\ first' = first
           /\ \/ got' = got
              \/ /\ s \in Live /\ first[s] + Len(got[s]) \in 1 .. Len(log)
                 /\ got' = [got EXCEPT ![s] = Append(@, log[first[s] + Len(got[s])])]
PROOF
  <1>1. TypeOK /\ Typed /\ LogTyped /\ AllAlive
    BY DEF Heeded, Typed, Followed
  <1>2. PICK f : Beside(w, s, f)
    BY <1>1, BesideFrames DEF Statement, Handler
  <1>3. /\ \A v \in Worker : v = w /\ frame'[v] = f
        /\ \A r : ~Owes(r) /\ ~Owes(r)'
        /\ log' = log
    BY <1>1, <1>2, BesideOwes
  <1>4. PICK m : m = Head(queue_[s])
    OBVIOUS
  <1>5. /\ UNCHANGED <<conn, stream, sent, share_>> /\ stream[s] = "open"
        /\ first' = first
        /\ got' = IF Recorded(m) THEN [got EXCEPT ![s] = Append(@, m)] ELSE got
    BY <1>1, <1>4, PlacesGiven DEF OnWriteOk, Recorded
  <1>6. PICK b : b = Backlog(s)
    OBVIOUS
  <1>7. /\ m \in Msg /\ b \in Seq(Msg) /\ b # <<>> /\ Head(b) = m /\ Backlog(s)' = Tail(b)
        /\ queue_[s] # <<>> /\ \A r \in Session \ {s} : Backlog(r)' = Backlog(r)
    BY <1>1, <1>4, <1>6, BacklogWritten
  <1>8. LogTyped'
    BY <1>1, <1>3, <1>5 DEF LogTyped
  <1>9. LastLogged'
    BY <1>2, <1>3 DEF LastLogged, Beside
  <1>10. log \in Seq(Msg) /\ Len(log) \in Nat
    BY <1>1, LogIsMessages
  <1>11. got[s] \in Seq(Msg) /\ Len(got[s]) \in Nat /\ first[s] \in Nat
    BY <1>1, LenProperties DEF TypeOK, LogTyped
  <1>12. ASSUME NEW r \in Session, r # s
         PROVE  HasJoined(r)' /\ InStep(r)'
    <2>1. HasJoined(r) /\ InStep(r)
      BY DEF Followed
    <2>2. HasJoined(r)' /\ (r \in Live' => r \in Live)
      BY <1>5, <2>1 DEF HasJoined, Live
    <2>3. got'[r] = got[r]
      BY <1>1, <1>5, <1>12 DEF TypeOK
    <2> QED
      BY <1>1, <1>3, <1>5, <1>7, <1>12, <2>1, <2>2, <2>3, StaysInStep DEF Adds
  <1>13. HasJoined(s)'
    BY <1>5 DEF HasJoined, Followed
  <1>14. Recorded(m) => s \in Live
    <2> SUFFICES ASSUME Recorded(m) PROVE s \in Live
      OBVIOUS
    <2>1. /\ got[s] \in Seq(Msg) /\ queue_[s] \in Seq(Msg) /\ posted[s] \in Seq(Msg)
          /\ got[s] \o queue_[s] \in Seq(Msg) /\ Pipeline(s) \in Seq(Msg)
      BY <1>1, PipelineTyped, ConcatProperties
    <2>3. Pipeline(s) = got[s] \o b
      BY <1>1, <1>6, BacklogLast
    <2>4. /\ Len(got[s]) + 1 \in 1 .. Len(Pipeline(s))
          /\ Pipeline(s)[Len(got[s]) + 1] = m
      <3>1. b[1] = m /\ Len(b) \in Nat /\ Len(b) >= 1
        <4>1. Len(b) \in Nat /\ Len(b) # 0 /\ Head(b) = b[1]
          BY <1>7, EmptySeq
        <4> QED
          BY <1>7, <4>1
      <3>2. 1 \in 1 .. Len(b) /\ Len(got[s]) + 1 \in Len(got[s]) + 1 .. Len(got[s]) + Len(b)
        BY <1>11, <3>1
      <3>3. /\ Len(got[s] \o b) = Len(got[s]) + Len(b)
            /\ (got[s] \o b)[Len(got[s]) + 1] = b[1]
        BY <1>7, <2>1, <3>1, <3>2, ConcatProperties
      <3> QED
        BY <1>11, <2>3, <3>1, <3>3
    <2>5. conn[s] \notin Unjoined
      BY <2>4 DEF Heeded, AllOrdered, Ordered, Unjoined
    <2>6. conn[s] \in {"open", "gone"}
      BY <1>1, <2>5 DEF TypeOK, Unjoined
    <2>7. conn[s] = "open"
      BY <1>5, <2>6 DEF Heeded, AllListen, Listens
    <2> QED
      BY <1>5, <2>7 DEF Followed, HasJoined, Live
  <1>15. s \in Live => Leads(log, b, Heard(s), Len(log))
    BY <1>3, <1>6 DEF Followed, InStep, Told
  <1>16. PICK lo : lo = Heard(s)
    OBVIOUS
  <1>17. s \in Live => IF Recorded(m)
                       THEN lo + 1 \in 1 .. Len(log) /\ log[lo + 1] = m /\ Leads(log, Tail(b), lo + 1, Len(log))
                       ELSE Leads(log, Tail(b), lo, Len(log))
    BY <1>7, <1>10, <1>15, <1>16, LeadsTaken
  <1>18. lo + 1 = first[s] + Len(got[s])
    BY <1>11, <1>16 DEF Heard
  <1>19. Told(s)' = Len(log)
    BY <1>3 DEF Told
  <1>20. InStep(s)'
    <2> SUFFICES ASSUME s \in Live' PROVE Leads(log, Backlog(s), Heard(s), Told(s))'
      BY DEF InStep
    <2>1. s \in Live
      BY <1>5 DEF Live
    <2>2. CASE Recorded(m)
      <3>1. got'[s] = Append(got[s], m)
        BY <1>1, <1>5, <2>2 DEF TypeOK
      <3>2. Len(got'[s]) = Len(got[s]) + 1
        BY <1>7, <1>11, <3>1, Places
      <3>3. Heard(s)' = lo + 1
        BY <1>5, <1>11, <1>16, <3>2 DEF Heard
      <3> QED
        BY <1>3, <1>7, <1>17, <1>19, <2>1, <2>2, <3>3 DEF Leads, Passes
    <2>3. CASE ~Recorded(m)
      <3>1. Heard(s)' = lo
        BY <1>5, <1>16, <2>3 DEF Heard
      <3> QED
        BY <1>3, <1>7, <1>17, <1>19, <2>1, <2>3, <3>1 DEF Leads, Passes
    <2> QED
      BY <2>2, <2>3
  <1>21. \/ got' = got
         \/ /\ s \in Live /\ first[s] + Len(got[s]) \in 1 .. Len(log)
            /\ got' = [got EXCEPT ![s] = Append(@, log[first[s] + Len(got[s])])]
    BY <1>5, <1>14, <1>17, <1>18
  <1>22. Followed'
    BY <1>8, <1>9, <1>12, <1>13, <1>20 DEF Followed
  <1> QED
    BY <1>3, <1>5, <1>21, <1>22

\* The other steps of a handler, in one lemma.
LEMMA StatementFollowed ==
    ASSUME OneWorker, Heeded, Followed, NEW w \in Worker, NEW s \in Session, Statement(w, s),
           ~OnWriteOk(w, s), ~OnAccept(w, s), Logged, Placed, \A a \in Author : sent'[a] <= MaxMessages
    PROVE  Followed' /\ log' = log /\ first' = first /\ got' = got
PROOF
  <1>1. TypeOK /\ Typed /\ LogTyped /\ AllAlive /\ AllListen
    BY DEF Heeded, Typed, Followed
  <1>2. PICK f : Beside(w, s, f)
    BY <1>1, BesideFrames
  <1>3. log' = log
    BY <1>1, <1>2, BesideOwes
  <1>4. /\ share_' \subseteq share_
        /\ \A r \in Session :
              /\ \/ conn'[r] = conn[r] \/ conn'[r] = "gone"
                 \/ conn[r] = "accepting" /\ conn'[r] = "refused"
              /\ stream'[r] = "open" => stream[r] = "open"
    BY <1>1, StatementLives
  <1>5. first' = first
    BY <1>1, <1>4, PlacesGiven
  <1>6. UNCHANGED got /\ \A r \in Session : stream'[r] = "open" => Adds(Backlog(r)', Backlog(r))
    BY <1>1, StatementAdds
  <1>7. Followed'
    BY <1>2, <1>4, <1>5, <1>6, BesideFollowed
  <1> QED
    BY <1>3, <1>5, <1>6, <1>7

\* A handler of an application begins to write to all, or ends.
LEMMA AppFollowed ==
    ASSUME OneWorker, Heeded, Followed, NEW w \in Worker, AppData(w) \/ EndAppData(w),
           Logged, Placed, \A a \in Author : sent'[a] <= MaxMessages
    PROVE  Followed' /\ log' = log /\ first' = first
PROOF
  <1>1. TypeOK /\ Typed /\ LogTyped /\ AllAlive
    BY DEF Heeded, Typed, Followed
  <1>2. PICK f : Beside(w, Nobody, f)
    BY <1>1, BesideFrames
  <1>3. log' = log
    BY <1>1, <1>2, BesideOwes
  <1>4. UNCHANGED <<conn, stream, queue_, posted, got, share_>>
    BY DEF AppData, EndAppData, net, hist
  <1>5. first' = first
    BY <1>1, <1>4, PlacesGiven
  <1>6. \A r \in Session : Adds(Backlog(r)', Backlog(r))
    BY <1>4 DEF Adds, Backlog
  <1>7. Followed'
    BY <1>2, <1>4, <1>5, <1>6, BesideFollowed
  <1> QED
    BY <1>3, <1>5, <1>7

-----------------------------------------------------------------------------
\* What a step is to the users: a message for all, a session that joins, or breaks, or receives.
LEMMA StepIsBroadcast ==
    ASSUME OneWorker, Heeded, Followed, HubNext
    PROVE  Followed' /\ (Channel!BroadcastNext \/ UNCHANGED <<log, first, Live, got>>)
PROOF
  <1>1. TypeOK /\ Typed /\ LogTyped /\ Next /\ Logged /\ Placed
    BY DEF Heeded, Typed, Followed, HubNext
  <1>2. \A a \in Author : sent'[a] <= MaxMessages
    BY <1>1, NextBounded DEF LogTyped
  <1>3. ASSUME NEW s \in Session, Connect(s)
        PROVE  Followed' /\ UNCHANGED <<log, first, Live, got>>
    <2>1. Followed' /\ UNCHANGED <<frame, stream, got, share_>>
      BY <1>1, <1>3, ConnectFollowed DEF Connect, net, hist
    <2>2. log' = log /\ first' = first
      BY <1>1, <2>1, LogStays, PlacesGiven DEF Heeded
    <2> QED
      BY <2>1, <2>2 DEF Live
  <1>4. ASSUME NEW w \in Worker, Snapshot(w)
        PROVE  Followed' /\ (Channel!BroadcastNext \/ UNCHANGED <<log, first, Live, got>>)
    <2>1. Followed' /\ first' = first /\ UNCHANGED <<stream, got>>
      BY <1>1, <1>4, SnapshotFollowed DEF Snapshot, net, hist
    <2>2. log' = IF Carries(w) THEN Append(log, frame[w].note) ELSE log
      BY <1>1, <1>4, LogGrows
    <2>3. Live' = Live
      BY <2>1 DEF Live
    <2>4. CASE Carries(w)
      <3>1. frame[w].note \in Relayed
        BY <1>1, <2>4, CarriedIsRelayed
      <3> QED
        BY <2>1, <2>2, <2>3, <2>4, <3>1 DEF Channel!BroadcastNext, Channel!Send
    <2> QED
      BY <2>1, <2>2, <2>3, <2>4
  <1>5. ASSUME NEW w \in Worker, NEW s \in Session, Visit(w, s)
        PROVE  Followed' /\ UNCHANGED <<log, first, Live, got>>
    <2>1. Followed' /\ UNCHANGED <<log, first, stream, got>>
      BY <1>1, <1>5, VisitFollowed DEF Visit, hist
    <2> QED
      BY <2>1 DEF Live
  <1>6. ASSUME NEW w \in Worker, AppData(w) \/ EndAppData(w)
        PROVE  Followed' /\ UNCHANGED <<log, first, Live, got>>
    <2>1. Followed' /\ UNCHANGED <<log, first, stream, got>>
      BY <1>1, <1>2, <1>6, AppFollowed DEF AppData, EndAppData, net, hist
    <2> QED
      BY <2>1 DEF Live
  <1>7. ASSUME NEW w \in Worker, NEW s \in Session, OnAccept(w, s)
        PROVE  Followed' /\ Channel!BroadcastNext
    <2>1. Followed' /\ log' = log /\ first[s] = 0 /\ UNCHANGED <<stream, got>>
      BY <1>1, <1>7, JoinFollowed DEF OnAccept, hist
    <2>2. /\ first' = [first EXCEPT ![s] = Len(log) + 1] /\ first \in [Session -> Nat]
          /\ Len(log) \in Nat
      BY <1>1, <1>7, PlacesGiven, LogIsMessages DEF LogTyped, Heeded
    <2>3. stream[s] = "open"
      BY <1>7 DEF Heeded, AllUntouched, Untouched, OnAccept
    <2>4. Live' = Live \union {s}
      BY <2>1, <2>2, <2>3 DEF Live
    <2> QED
      BY <2>1, <2>2, <2>4 DEF Channel!BroadcastNext, Channel!Join
  <1>8. ASSUME NEW w \in Worker, NEW s \in Session, OnWriteOk(w, s)
        PROVE  Followed' /\ (Channel!BroadcastNext \/ UNCHANGED <<log, first, Live, got>>)
    <2>1. Followed' /\ log' = log /\ first' = first /\ stream' = stream
      BY <1>1, <1>8, WrittenFollowed DEF OnWriteOk
    <2>2. Live' = Live
      BY <2>1 DEF Live
    <2>3. \/ got' = got
          \/ /\ s \in Live /\ first[s] + Len(got[s]) \in 1 .. Len(log)
             /\ got' = [got EXCEPT ![s] = Append(@, log[first[s] + Len(got[s])])]
      BY <1>1, <1>8, WrittenFollowed
    <2> QED
      BY <2>1, <2>2, <2>3 DEF Channel!BroadcastNext, Channel!Receive, Channel!Upcoming
  <1>9. ASSUME NEW w \in Worker, NEW s \in Session, Statement(w, s), ~OnWriteOk(w, s), ~OnAccept(w, s)
        PROVE  Followed' /\ (Channel!BroadcastNext \/ UNCHANGED <<log, first, Live, got>>)
    <2>1. Followed' /\ log' = log /\ first' = first /\ got' = got
      BY <1>1, <1>2, <1>9, StatementFollowed
    <2>2. /\ \A r \in Session \ {s} : stream'[r] = stream[r]
          /\ stream'[s] = "open" => stream[s] = "open"
      <3>1. ASSUME NEW after, OnReadNotJson(w, s) \/ OnReadMessage(w, s, after)
            PROVE  stream' = stream
        BY <3>1 DEF OnReadNotJson, OnReadMessage
      <3>2. CASE \/ OnAcceptClosed(w, s) \/ OnAcceptError(w, s) \/ OnReadClosed(w, s)
                 \/ OnReadError(w, s) \/ OnWriteError(w, s)
        BY <1>1, <3>2 DEF TypeOK, OnAcceptClosed, OnAcceptError, OnReadClosed, OnReadError, OnWriteError
      <3>3. CASE OnReadAborted(w, s) \/ Writing(w, s) \/ OnWriteAborted(w, s)
        BY <3>3 DEF OnReadAborted, Writing, OnWriteAborted
      <3>4. CASE \/ LoadUid(w, s) \/ StoreUid(w, s) \/ OpenCount(w, s) \/ CloseCount(w, s)
                 \/ EndNotice(w, s) \/ Reject(w, s) \/ EchoApp(w, s) \/ EndRead(w, s) \/ Leave(w, s)
        BY <3>4 DEF LoadUid, StoreUid, OpenCount, CloseCount, EndNotice, Reject, EchoApp, EndRead,
                    Leave, net
      <3> QED
        BY <1>9, <3>1, <3>2, <3>3, <3>4 DEF Statement, Environment, Handler
    <2>3. CASE s \in Live /\ stream'[s] # "open"
      <3>1. Live' = Live \ {s}
        BY <2>1, <2>2, <2>3 DEF Live
      <3> QED
        BY <2>1, <2>3, <3>1 DEF Channel!BroadcastNext, Channel!Break
    <2>4. CASE s \notin Live \/ stream'[s] = "open"
      <3>1. Live' = Live
        BY <2>1, <2>2, <2>4 DEF Live
      <3> QED
        BY <2>1, <3>1
    <2> QED
      BY <2>3, <2>4
  <1> QED
    BY <1>1, <1>3, <1>4, <1>5, <1>6, <1>7, <1>8, <1>9, NextKinds

\* What the log's invariant rests on does not need it.
LEMMA NextHeeded == Heeded /\ [Next]_vars => Heeded'
PROOF
  <1> SUFFICES ASSUME Heeded, [Next]_vars PROVE Heeded'
    OBVIOUS
  <1>1. Typed /\ AllAlive /\ AllOrdered /\ GotRecorded /\ AllListen /\ AllUntouched /\ NotesCurrent
    BY DEF Heeded, AllOrdered
  <1>2. Typed' /\ AllAlive' /\ AllOrdered'
    BY <1>1, NextTyped, NextAlive, NextOrdered
  <1>3. GotRecorded' /\ AllListen' /\ AllUntouched'
    BY <1>1, GotKept, NextListen, NextUntouched
  <1> QED
    BY <1>2, <1>3 DEF Heeded

\* The empty hub.
LEMMA InitHeeded == Init => Heeded
PROOF
  <1> SUFFICES ASSUME Init PROVE Heeded
    OBVIOUS
  <1>1. Typed /\ AllAlive /\ AllOrdered
    BY InitTyped, InitAlive, InitOrdered
  <1>2. Len(<<>>) = 0 /\ \A r \in Session : got[r] = <<>>
    BY DEF Init
  <1>3. GotRecorded
    BY <1>2 DEF GotRecorded
  <1>4. AllListen
    BY DEF Init, AllListen, Listens
  <1>5. AllUntouched
    BY NobodyAssumption DEF Init, AllUntouched, Untouched, StrandFree, Idle
  <1> QED
    BY <1>1, <1>3, <1>4, <1>5 DEF Heeded

\* ... has an empty log, and is the initial state of a Broadcast.
LEMMA InitFollowed == HubInit => Followed /\ Channel!BroadcastInit
PROOF
  <1> SUFFICES ASSUME HubInit PROVE Followed /\ Channel!BroadcastInit
    OBVIOUS
  <1>1. Init /\ log = <<>> /\ first = [s \in Session |-> 0]
    BY DEF HubInit
  <1>2. LogTyped
    BY <1>1, BoundAssumption DEF LogTyped, Init
  <1>3. LastLogged
    BY <1>1 DEF LastLogged, Carries, Recorded, Init, Idle, Message
  <1>4. Live = {}
    BY <1>1 DEF Live
  <1>5. \A s \in Session : HasJoined(s) /\ InStep(s)
    BY <1>1, <1>4 DEF HasJoined, InStep, Init
  <1>6. Channel!BroadcastInit
    BY <1>1, <1>4 DEF Channel!BroadcastInit, Init
  <1> QED
    BY <1>2, <1>3, <1>5, <1>6 DEF Followed

(***************************************************************************)
(* With one worker the hub is a Broadcast: whatever is posted in between,  *)
(* however sessions come, fail and go, every client whose stream is up     *)
(* receives the messages relayed since it joined, each once, in the one    *)
(* order of the log, without a gap.                                        *)
(***************************************************************************)
THEOREM HubIsBroadcast ==
    ASSUME OneWorker
    PROVE  HubSpec => ImplementsBroadcast
PROOF
  <1> DEFINE All == Heeded /\ Followed
  <1>1. HubInit => All /\ Channel!BroadcastInit
    BY InitHeeded, InitFollowed DEF HubInit
  <1>2. All /\ [HubNext]_hvars => All' /\ [Channel!BroadcastNext]_(Channel!bvars)
    <2> SUFFICES ASSUME Heeded, Followed, [HubNext]_hvars
                 PROVE  Heeded' /\ Followed' /\ [Channel!BroadcastNext]_(Channel!bvars)
      OBVIOUS
    <2>1. CASE HubNext
      <3>1. Followed' /\ (Channel!BroadcastNext \/ UNCHANGED <<log, first, Live, got>>)
        BY <2>1, StepIsBroadcast
      <3>2. Heeded'
        BY <2>1, NextHeeded DEF HubNext
      <3> QED
        BY <3>1, <3>2 DEF Channel!bvars
    <2>2. CASE UNCHANGED hvars
      <3>1. UNCHANGED vars /\ UNCHANGED <<log, first>>
        BY <2>2 DEF hvars
      <3>2. Heeded'
        BY <3>1, NextHeeded
      <3>3. UNCHANGED <<conn, stream, posted, queue_, frame, sent, got>>
        BY <3>1 DEF vars, net, hist
      <3>4. Live' = Live
        BY <3>1, <3>3 DEF Live
      <3>5. Followed'
        <4>1. LogTyped' /\ LastLogged'
          BY <3>1, <3>3 DEF Followed, LogTyped, LastLogged, Carries
        <4>2. ASSUME NEW r \in Session
              PROVE  HasJoined(r)' /\ InStep(r)'
          <5>1. Owes(r)' <=> Owes(r)
            BY <3>3 DEF Owes, Carries
          <5>2. Adds(Backlog(r)', Backlog(r))
            BY <3>3 DEF Adds, Backlog
          <5>3. HasJoined(r)'
            BY <3>1, <3>3 DEF Followed, HasJoined
          <5> QED
            BY <3>1, <3>3, <3>4, <5>1, <5>2, <5>3, StaysInStep DEF Followed, Heeded
        <4> QED
          BY <4>1, <4>2 DEF Followed
      <3> QED
        BY <3>1, <3>2, <3>3, <3>4, <3>5 DEF Channel!bvars
    <2> QED
      BY <2>1, <2>2
  <1> QED
    BY <1>1, <1>2, PTL DEF HubSpec, ImplementsBroadcast, Channel!BroadcastSpec

=============================================================================
