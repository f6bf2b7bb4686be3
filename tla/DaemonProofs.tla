---------------------------- MODULE DaemonProofs ----------------------------
(***************************************************************************)
(* What the daemon has one of, for any values of the constants: the        *)
(* Executor of the monitor app and its one sampling, main() and what it    *)
(* has established when the threads run, what the dispatcher tells the     *)
(* users of a step, and what they can make of what the apps show.          *)
(***************************************************************************)
EXTENDS MCDaemon, SequenceTheorems, TLAPS

(***************************************************************************)
(* The inductive invariant.  OneSampling must say that is_running_ is set  *)
(* while a sampling is active: it is what init() tests.                    *)
(***************************************************************************)
IInv == TypeOK /\ OneSampling /\ RunningIsActive

\* What the frames of a step look like when one worker moves to another point.
LEMMA FrameUpdate ==
    ASSUME TypeOK, NEW w \in Worker, NEW point \in Point,
           frame' = [frame EXCEPT ![w].at = point]
    PROVE  /\ frame' \in [Worker -> [at : Point, sample : Nat]]
           /\ frame'[w].at = point
           /\ \A v \in Worker : v # w => frame'[v] = frame[v]
PROOF
  <1> QED
    BY DEF TypeOK

\* ... or returns.
LEMMA FrameReturn ==
    ASSUME TypeOK, NEW w \in Worker, Return(w)
    PROVE  /\ frame' \in [Worker -> [at : Point, sample : Nat]]
           /\ frame'[w].at = "idle"
           /\ \A v \in Worker : v # w => frame'[v] = frame[v]
PROOF
  <1> QED
    BY DEF TypeOK, Return, Idle, Point

\* A worker that begins to sample when none does is the only one.
LEMMA Enters ==
    ASSUME TypeOK, NEW w \in Worker, NEW point \in {"calculate", "report", "stop"},
           GoTo(w, point), Sampling = {}
    PROVE  /\ frame' \in [Worker -> [at : Point, sample : Nat]]
           /\ Sampling' = {w}
PROOF
  <1>1. /\ frame' \in [Worker -> [at : Point, sample : Nat]]
        /\ frame'[w].at = point
        /\ \A v \in Worker : v # w => frame'[v] = frame[v]
    BY FrameUpdate DEF GoTo, Point
  <1>2. \A v \in Worker :
          frame[v].at \notin {"calculate", "arm", "report", "again", "stop"}
    BY DEF Sampling
  <1>3. \A v \in Worker :
          frame'[v].at \in {"calculate", "arm", "report", "again", "stop"} <=> v = w
    BY <1>1, <1>2
  <1> QED
    BY <1>1, <1>3 DEF Sampling

\* The Executor starts idle.
LEMMA InitIInv == Init => IInv
PROOF
  <1> SUFFICES ASSUME Init PROVE IInv
    OBVIOUS
  <1>1. frame \in [Worker -> [at : Point, sample : Nat]]
    BY DEF Init, Idle, Point
  <1>2. TypeOK
    BY <1>1, Zenon DEF Init, TypeOK
  <1>3. ~Active /\ Sampling = {}
    BY DEF Init, Active, Sampling, Idle
  <1> QED
    BY <1>2, <1>3, Zenon DEF Init, IInv, OneSampling, RunningIsActive

-----------------------------------------------------------------------------
\* The messages keep the invariant.
LEMMA MessagesKeep ==
    ASSUME IInv, NEW w \in Worker,
           \/ \E s \in Sample, cont \in BOOLEAN : MessageSet(w, s, cont)
           \/ SetSample(w) \/ InitCalculate(w) \/ InitAlreadyRunning(w)
           \/ MessageCancel(w) \/ CancelTimer(w)
    PROVE  IInv'
PROOF
  <1> USE DEF IInv
  <1>1. CASE \E s \in Sample, cont \in BOOLEAN : MessageSet(w, s, cont)
    <2> PICK s \in Sample, cont \in BOOLEAN : MessageSet(w, s, cont)
      BY <1>1
    <2>1. TypeOK'
      BY SampleAssumption DEF MessageSet, TypeOK, Point, At
    <2>2. Sampling' = Sampling
      BY DEF MessageSet, Sampling, TypeOK, At
    <2> QED
      BY <2>1, <2>2 DEF MessageSet, OneSampling, RunningIsActive, Active
  <1>2. CASE SetSample(w)
    <2>1. TypeOK'
      BY <1>2 DEF SetSample, TypeOK, Point, At
    <2>2. Sampling' = Sampling
      BY <1>2 DEF SetSample, Sampling, TypeOK, At
    <2> QED
      BY <1>2, <2>1, <2>2 DEF SetSample, OneSampling, RunningIsActive, Active
  <1>3. CASE InitCalculate(w)
    <2>1. Sampling = {} /\ timer_ = "none"
      BY <1>3 DEF InitCalculate, MayEnter, OneSampling, Active
    <2>2. /\ frame' \in [Worker -> [at : Point, sample : Nat]]
          /\ Sampling' = {w}
      BY <1>3, <2>1, Enters DEF InitCalculate
    <2>3. TypeOK'
      BY <1>3, <2>2 DEF InitCalculate, TypeOK
    <2> QED
      BY <1>3, <2>1, <2>2, <2>3 DEF InitCalculate, OneSampling, RunningIsActive, Active
  <1>4. CASE InitAlreadyRunning(w)
    <2>1. TypeOK'
      BY <1>4, FrameReturn DEF InitAlreadyRunning, TypeOK, shared
    <2>2. Sampling' = Sampling
      BY <1>4, FrameReturn DEF InitAlreadyRunning, Sampling, At
    <2> QED
      BY <1>4, <2>1, <2>2
      DEF InitAlreadyRunning, shared, OneSampling, RunningIsActive, Active
  <1>5. CASE MessageCancel(w)
    <2>1. TypeOK'
      BY <1>5, FrameUpdate DEF MessageCancel, TypeOK, GoTo, Point
    <2>2. Sampling' = Sampling
      BY <1>5, FrameUpdate DEF MessageCancel, Sampling, At, GoTo, Point
    <2> QED
      BY <1>5, <2>1, <2>2 DEF MessageCancel, OneSampling, RunningIsActive, Active
  <1>6. CASE CancelTimer(w)
    <2>1. TypeOK'
      BY <1>6, FrameReturn DEF CancelTimer, TypeOK
    <2>2. Sampling' = Sampling
      BY <1>6, FrameReturn DEF CancelTimer, Sampling, At
    <2>3. timer_' = "none" <=> timer_ = "none"
      BY <1>6 DEF CancelTimer
    <2> QED
      BY <1>6, <2>1, <2>2, <2>3 DEF CancelTimer, OneSampling, RunningIsActive, Active
  <1> QED
    BY <1>1, <1>2, <1>3, <1>4, <1>5, <1>6

\* The sampling itself keeps it.
LEMMA SamplingKeeps ==
    ASSUME IInv, NEW w \in Worker,
           \/ Calculate(w) \/ Arm(w) \/ DoWait(w) \/ DoWaitAborted(w)
           \/ Report(w) \/ Again(w) \/ Stop(w)
    PROVE  IInv'
PROOF
  <1> USE DEF IInv
  <1>1. ASSUME NEW point \in {"calculate", "arm", "again", "stop"},
               w \in Sampling, GoTo(w, point), UNCHANGED <<shared, users, stuck>>
        PROVE  IInv'
    <2>1. TypeOK'
      BY <1>1, FrameUpdate DEF TypeOK, GoTo, Point, shared
    <2>2. Sampling' = Sampling
      BY <1>1, FrameUpdate DEF Sampling, GoTo, Point
    <2> QED
      BY <1>1, <2>1, <2>2 DEF shared, OneSampling, RunningIsActive, Active
  <1>2. CASE Calculate(w)
    BY <1>1, <1>2 DEF Calculate, Sampling, At
  <1>3. CASE Report(w)
    BY <1>1, <1>3 DEF Report, Sampling, At
  <1>4. CASE Again(w)
    BY <1>1, <1>4 DEF Again, Sampling, At
  <1>5. CASE Arm(w)
    <2>1. Sampling = {w} /\ is_running_
      BY <1>5 DEF Arm, At, Sampling, OneSampling, Active
    <2>2. TypeOK'
      BY <1>5, FrameReturn DEF Arm, TypeOK
    <2>3. Sampling' = {}
      BY <1>5, <2>1, FrameReturn DEF Arm, Sampling
    <2> QED
      BY <1>5, <2>1, <2>2, <2>3 DEF Arm, OneSampling, RunningIsActive, Active
  <1>6. CASE DoWait(w)
    <2>1. Sampling = {} /\ is_running_
      BY <1>6 DEF DoWait, OneSampling, Active
    <2>2. CASE GoTo(w, "report") /\ UNCHANGED stuck
      <3>1. TypeOK'
        BY <1>6, <2>2, FrameUpdate DEF DoWait, TypeOK, GoTo, Point
      <3>2. Sampling' = {w}
        BY <2>1, <2>2, Enters
      <3> QED
        BY <1>6, <2>1, <2>2, <3>1, <3>2 DEF DoWait, OneSampling, RunningIsActive, Active
    <2>3. CASE stuck' = TRUE /\ UNCHANGED frame
      <3>1. TypeOK'
        BY <1>6, <2>3 DEF DoWait, TypeOK
      <3>2. Sampling' = {}
        BY <2>1, <2>3 DEF Sampling
      <3> QED
        BY <1>6, <2>3, <3>1, <3>2 DEF DoWait, OneSampling, RunningIsActive, Active
    <2> QED
      BY <1>6, <2>2, <2>3 DEF DoWait
  <1>7. CASE DoWaitAborted(w)
    <2>1. Sampling = {} /\ is_running_
      BY <1>7 DEF DoWaitAborted, OneSampling, Active
    <2>2. TypeOK'
      BY <1>7, FrameUpdate DEF DoWaitAborted, TypeOK, GoTo, Point
    <2>3. Sampling' = {w}
      BY <1>7, <2>1, Enters DEF DoWaitAborted
    <2> QED
      BY <1>7, <2>1, <2>2, <2>3 DEF DoWaitAborted, OneSampling, RunningIsActive, Active
  <1>8. CASE Stop(w)
    <2>1. Sampling = {w} /\ timer_ = "none"
      BY <1>8 DEF Stop, At, Sampling, OneSampling
    <2>2. TypeOK'
      BY <1>8, FrameReturn DEF Stop, NotRunning, TypeOK
    <2>3. Sampling' = {}
      BY <1>8, <2>1, FrameReturn DEF Stop, Sampling
    <2> QED
      BY <1>8, <2>1, <2>2, <2>3 DEF Stop, NotRunning, OneSampling, RunningIsActive, Active
  <1> QED
    BY <1>2, <1>3, <1>4, <1>5, <1>6, <1>7, <1>8

\* Every step keeps it.
LEMMA NextIInv == IInv /\ [Next]_vars => IInv'
PROOF
  <1> SUFFICES ASSUME IInv, [Next]_vars PROVE IInv'
    OBVIOUS
  <1>1. CASE Expire
    BY <1>1 DEF Expire, IInv, TypeOK, OneSampling, RunningIsActive, Active, Sampling
  <1>2. CASE UsersChange
    BY <1>2 DEF UsersChange, shared, IInv, TypeOK, OneSampling, RunningIsActive, Active,
                Sampling
  <1>3. CASE UNCHANGED vars
    BY <1>3 DEF vars, shared, IInv, TypeOK, OneSampling, RunningIsActive, Active, Sampling
  <1> QED
    BY <1>1, <1>2, <1>3, MessagesKeep, SamplingKeeps DEF Next, Step, TimerHandler

\* The invariant holds throughout.
LEMMA Invariant == Spec => []IInv
PROOF
  <1> QED
    BY InitIInv, NextIInv, PTL DEF Spec

-----------------------------------------------------------------------------
\* Every member of the Executor keeps its type.
THEOREM TypeCorrect == Spec => []TypeOK
PROOF
  <1>1. IInv => TypeOK
    BY DEF IInv
  <1> QED
    BY <1>1, Invariant, PTL

(***************************************************************************)
(* However many threads run the daemon and whatever messages arrive, one   *)
(* sampling exists at most: is_running_ protects start_, end_ and uptime_. *)
(***************************************************************************)
THEOREM AtMostOneSampling == Spec => []OneSampling
PROOF
  <1>1. IInv => OneSampling
    BY DEF IInv
  <1> QED
    BY <1>1, Invariant, PTL

\* A failed second read is the only way for the flag to outlive the sampling.
THEOREM FlagIsReleased == Spec => []RunningIsActive
PROOF
  <1>1. IInv => RunningIsActive
    BY DEF IInv
  <1> QED
    BY <1>1, Invariant, PTL

\* What the daemon does is a step of the Executor, or leaves it alone.
LEMMA MonitorBehaviour == DaemonSpec => Init /\ [][Next]_vars
PROOF
  <1>1. DaemonInit => Init
    BY DEF DaemonInit
  <1>2. [DaemonNext]_<<part, vars, dispatcher, startup, info>> => [Next]_vars
    BY DEF DaemonNext
  <1> QED
    BY <1>1, <1>2, PTL DEF DaemonSpec

(***************************************************************************)
(* The same of the whole daemon: no part of it but the Executor touches    *)
(* its flag.                                                               *)
(***************************************************************************)
THEOREM DaemonSamplesOnce == DaemonSpec => [](OneSampling /\ RunningIsActive)
PROOF
  <1>1. IInv => OneSampling /\ RunningIsActive
    BY DEF IInv
  <1> QED
    BY <1>1, InitIInv, NextIInv, MonitorBehaviour, PTL

-----------------------------------------------------------------------------
(***************************************************************************)
(* Start-up.  What main() has established when it gets to a place: the     *)
(* options are numbers as long as they are read, and checked after that;   *)
(* the table of the apps grows to the one it was built with; and until the *)
(* threads run nothing takes the listener away.                            *)
(***************************************************************************)
Ended   == {"success", "failure", "killed"}
Running == {"threads", "joining"}
Keyed   == {"listener", "apps"} \union Running
Checked == {"address", "certificate"} \union Keyed
Before  == {"arguments", "file", "check", "address", "certificate", "listener"}

ArgsTyped(a) ==
    DOMAIN a = {"port", "addr", "threads", "key", "cert"} /\ a.port \in Int /\ a.threads \in Int

ArgsChecked ==
    /\ args.port > 1 /\ args.port <= St!MaxPort /\ args.threads >= 1
    /\ UseSSL => None \notin {args.key, args.cert}
    /\ \A option \in {"port", "threads", "addr"} : cmdl[option] # None => args[option] = cmdl[option]

TableGrows ==
    /\ table \in Seq({Built[i] : i \in DOMAIN Built})
    /\ Len(table) <= Len(Built)
    /\ \A i \in 1 .. Len(table) : table[i] = Built[i]

StartupInv ==
    /\ phase \in Before \union {"apps"} \union Running \union Ended
    /\ cmdl \in CommandLine
    /\ ArgsTyped(args)
    /\ phase = "file" => IsFile(file)
    /\ phase \in Checked => ArgsChecked
    /\ phase \in Checked \ {"address"} => args.addr # Bad
    /\ phase \in Keyed => (UseSSL => Bad \notin {args.key, args.cert})
    /\ phase \in Before => table = <<>>
    /\ phase = "apps" => TableGrows /\ (~ec => listening = <<args.addr, args.port>>)
    /\ phase \in Before \union {"apps"} => threads = 0 /\ io = "idle"
    /\ phase \in Running =>
          /\ table = Built
          /\ threads \in Int /\ threads <= args.threads
          /\ io = "idle" => listening = <<args.addr, args.port>>

\* A number that is neither too small nor too large.
LEMMA UpTo == ASSUME NEW n \in Int, NEW most \in Int, n > 1, n <= most PROVE n \in 2 .. most
PROOF
  <1> QED
    OBVIOUS

\* What is left of a file is a file.
LEMMA RestIsFile ==
    ASSUME NEW f, IsFile(f), NEW m \in Nat, m >= 1
    PROVE  IsFile(SubSeq(f, m, Len(f)))
PROOF
  <1> DEFINE S == {f[i] : i \in DOMAIN f}
             r == SubSeq(f, m, Len(f))
             R == {r[i] : i \in DOMAIN r}
  <1>1. f \in Seq(S) /\ Len(f) \in Nat /\ DOMAIN f = 1 .. Len(f)
    <2>1. f \in Seq(S)
      BY DEF IsFile
    <2> QED
      BY <2>1, LenProperties
  <1>2. m \in Int /\ Len(f) \in Int /\ \A i \in m .. Len(f) : f[i] \in S
    BY <1>1
  <1>3. /\ r \in Seq(S)
        /\ Len(r) = IF m <= Len(f) THEN Len(f) - m + 1 ELSE 0
        /\ \A i \in 1 .. Len(f) - m + 1 : r[i] = f[m + i - 1]
    BY <1>2, SubSeqProperties
  <1>4. DOMAIN r = 1 .. Len(r) /\ Len(r) \in Nat /\ r \in [1 .. Len(r) -> S]
    BY <1>3, LenProperties
  <1>5. r \in Seq(R)
    <2>1. r \in [1 .. Len(r) -> R]
      BY <1>4
    <2> HIDE DEF r, R
    <2> QED
      BY <1>4, <2>1, SeqDef
  <1>6. \A i \in DOMAIN r : \E j \in DOMAIN f : r[i] = f[j]
    <2> SUFFICES ASSUME NEW i \in DOMAIN r PROVE \E j \in DOMAIN f : r[i] = f[j]
      OBVIOUS
    <2>1. i \in 1 .. Len(f) - m + 1 /\ m + i - 1 \in 1 .. Len(f)
      BY <1>1, <1>3, <1>4
    <2> QED
      BY <1>1, <1>3, <2>1
  <1> QED
    BY <1>5, <1>6 DEF IsFile

\* main() begins with the defaults.
LEMMA StartupInit == St!Init => StartupInv
PROOF
  <1> SUFFICES ASSUME St!Init PROVE StartupInv
    OBVIOUS
  <1>1. ArgsTyped(args)
    BY DEF St!Init, St!Default, ArgsTyped
  <1> QED
    BY <1>1 DEF St!Init, StartupInv, Before, Checked, Keyed, Running

\* The arguments are read.
LEMMA ReadingKeeps ==
    ASSUME StartupInv,
           \/ St!Asks \/ St!FileNotFound \/ St!OpensFile \/ St!EndOfFile
           \/ St!IgnoresSetting \/ St!ReadsSetting
    PROVE  StartupInv'
PROOF
  <1>1. /\ phase \in {"arguments", "file"} /\ cmdl \in CommandLine /\ ArgsTyped(args)
        /\ table = <<>> /\ threads = 0 /\ io = "idle"
        /\ cmdl' = cmdl /\ table' = table /\ threads' = threads /\ io' = io
    BY DEF StartupInv, Before, St!Asks, St!FileNotFound, St!OpensFile, St!EndOfFile,
           St!IgnoresSetting, St!ReadsSetting, St!loop
  <1>2. ASSUME phase' \in {"file", "check"} \union Ended, ArgsTyped(args)', phase' = "file" => IsFile(file)'
        PROVE  StartupInv'
    BY <1>1, <1>2 DEF StartupInv, Before, Checked, Keyed, Running, Ended
  <1>3. CASE St!Asks \/ St!FileNotFound
    BY <1>1, <1>2, <1>3 DEF St!Asks, St!FileNotFound, St!Exits, Ended
  <1>4. CASE St!OpensFile
    <2>1. cmdl.file = None \/ IsFile(cmdl.file)
      BY <1>1, <1>4, CommandLineAssumption DEF St!OpensFile
    <2> QED
      BY <1>1, <1>2, <1>4, <2>1 DEF St!OpensFile, St!GoesTo, St!files
  <1>5. CASE St!EndOfFile
    BY <1>1, <1>2, <1>5 DEF St!EndOfFile, St!GoesTo
  <1>6. ASSUME phase = "file", NEW i \in St!NextSetting
        PROVE  /\ IsFile(file) /\ i \in 1 .. Len(file)
               /\ IsFile(St!RestOfUnknown(i)) /\ IsFile(St!Rest(i))
    <2>1. IsFile(file) /\ i \in DOMAIN file
      BY <1>6 DEF StartupInv, St!NextSetting
    <2>2. DOMAIN file = 1 .. Len(file) /\ Len(file) \in Nat
      BY <2>1, LenProperties DEF IsFile
    <2>3. i + 1 \in Nat /\ i + 1 >= 1 /\ i + 2 \in Nat /\ i + 2 >= 1
      BY <2>1, <2>2
    <2>4. IsFile(SubSeq(file, i + 1, Len(file))) /\ IsFile(SubSeq(file, i + 2, Len(file)))
      BY <2>1, <2>3, RestIsFile
    <2> QED
      BY <2>1, <2>2, <2>4 DEF St!RestOfUnknown, St!Rest
  <1>7. CASE St!IgnoresSetting
    BY <1>1, <1>2, <1>6, <1>7 DEF St!IgnoresSetting
  <1>8. CASE St!ReadsSetting
    <2>1. PICK i \in St!NextSetting :
             LET attr == St!Attribute(i)
                 fails == attr \in St!Numbers /\ St!ValueAt(i) = Bad
             IN  /\ attr \in St!Attributes
                 /\ args' = IF St!ValueAt(i) = None THEN args
                            ELSE [args EXCEPT ![attr] = IF fails THEN 0 ELSE St!ValueAt(i)]
                 /\ file' = St!Rest(i)
      BY <1>8 DEF St!ReadsSetting
    <2>2. phase = "file" /\ phase' = phase
      BY <1>8 DEF St!ReadsSetting
    <2>3. IsFile(file) /\ i \in 1 .. Len(file) /\ IsFile(St!Rest(i))
      BY <1>6, <2>2
    <2>4. St!Attributes \subseteq {"port", "threads", "addr", "key", "cert"}
          /\ St!Numbers = {"port", "threads"}
      BY DEF St!Attributes, St!Numbers
    <2>5. ASSUME St!Attribute(i) \in St!Numbers, St!ValueAt(i) # None, St!ValueAt(i) # Bad
          PROVE  St!ValueAt(i) \in Int
      <3>1. i = 1 /\ file[i].key \in St!Numbers
        BY <2>4, <2>5 DEF St!Attribute
      <3>2. St!ValueAt(i) = file[i].value
        BY <2>5 DEF St!ValueAt
      <3>3. i \in DOMAIN file
        BY <1>6, <2>2 DEF St!NextSetting
      <3> QED
        BY <2>3, <2>5, <3>1, <3>2, <3>3 DEF IsFile
    <2>6. ArgsTyped(args)'
      <3>1. CASE St!ValueAt(i) = None
        BY <1>1, <2>1, <3>1
      <3>2. CASE St!ValueAt(i) # None
        <4> DEFINE attr == St!Attribute(i)
                   v == IF attr \in St!Numbers /\ St!ValueAt(i) = Bad THEN 0 ELSE St!ValueAt(i)
        <4>1. args' = [args EXCEPT ![attr] = v] /\ attr \in {"port", "threads", "addr", "key", "cert"}
          BY <2>1, <2>4, <3>2
        <4>2. attr \in {"port", "threads"} => v \in Int
          BY <2>4, <2>5, <3>2
        <4> HIDE DEF attr, v
        <4> QED
          BY <1>1, <4>1, <4>2 DEF ArgsTyped
      <3> QED
        BY <3>1, <3>2
    <2> QED
      BY <1>2, <2>1, <2>2, <2>3, <2>6
  <1> QED
    BY <1>3, <1>4, <1>5, <1>7, <1>8

\* The arguments are checked.
LEMMA CheckingKeeps == ASSUME StartupInv, St!ChecksArguments PROVE StartupInv'
PROOF
  <1>1. /\ phase = "check" /\ cmdl \in CommandLine /\ ArgsTyped(args)
        /\ table = <<>> /\ threads = 0 /\ io = "idle"
        /\ cmdl' = cmdl /\ table' = table /\ threads' = threads /\ io' = io
    BY DEF StartupInv, Before, St!ChecksArguments, St!loop
  <1>2. CASE St!Refused
    BY <1>1, <1>2
       DEF StartupInv, St!ChecksArguments, St!Exits, Before, Checked, Keyed, Running, Ended
  <1>3. CASE ~St!Refused
    <2>1. args' = [option \in DOMAIN args |->
                      IF option \in {"key", "cert"} /\ ~UseSSL THEN None ELSE St!Given(option)]
      BY <1>3 DEF St!ChecksArguments
    <2>2. /\ DOMAIN args' = {"port", "addr", "threads", "key", "cert"}
          /\ \A o \in {"port", "addr", "threads"} : args'[o] = St!Given(o)
          /\ UseSSL => \A o \in {"key", "cert"} : args'[o] = St!Given(o)
      BY <1>1, <2>1 DEF ArgsTyped
    <2>3. \A option \in {"port", "threads"} : St!Given(option) \in Int
      <3>1. \A option \in {"port", "threads"} :
               cmdl[option] \in {None, Bad} \union Int /\ args[option] \in Int
        BY <1>1, CommandLineAssumption DEF ArgsTyped, St!Numbers
      <3>2. St!Given("port") # Bad /\ St!Given("threads") # Bad
        BY <1>3 DEF St!Refused
      <3> QED
        BY <3>1, <3>2 DEF St!Given
    <2>4. args'.port > 1 /\ args'.port <= St!MaxPort /\ args'.threads >= 1
      BY <1>3, <2>2, <2>3 DEF St!Refused, St!ValidListeningPort
    <2>5. UseSSL => None \notin {args'.key, args'.cert}
      BY <1>3, <2>2 DEF St!Refused
    <2>6. \A option \in {"port", "threads", "addr"} : cmdl[option] # None => args'[option] = cmdl[option]
      BY <2>2 DEF St!Given
    <2>7. ArgsTyped(args') /\ ArgsChecked'
      BY <1>1, <2>2, <2>3, <2>4, <2>5, <2>6 DEF ArgsTyped, ArgsChecked
    <2>8. phase' \in {"success", "address"}
      BY <1>3 DEF St!ChecksArguments, St!Exits, St!GoesTo
    <2> QED
      BY <1>1, <2>7, <2>8 DEF StartupInv, Before, Checked, Keyed, Running, Ended
  <1> QED
    BY <1>2, <1>3

\* The address, the certificate, the listener, the apps.
LEMMA MakingKeeps ==
    ASSUME StartupInv,
           \/ St!MakesAddress \/ St!LoadsCertificate \/ St!MakesListener
           \/ St!RegistersApp \/ St!WaitsForSignals
    PROVE  StartupInv'
PROOF
  <1>1. /\ phase \in {"address", "certificate", "listener", "apps"}
        /\ cmdl \in CommandLine /\ ArgsTyped(args) /\ ArgsChecked
        /\ threads = 0 /\ io = "idle"
        /\ cmdl' = cmdl /\ args' = args /\ threads' = threads /\ io' = io
    BY DEF StartupInv, Before, Checked, Keyed, St!MakesAddress, St!LoadsCertificate, St!MakesListener,
           St!RegistersApp, St!WaitsForSignals, St!loop
  <1>2. ArgsTyped(args)' /\ ArgsChecked' /\ cmdl' \in CommandLine
    BY <1>1 DEF ArgsTyped, ArgsChecked
  <1>3. CASE St!MakesAddress
    BY <1>1, <1>2, <1>3
       DEF St!MakesAddress, St!Exits, St!GoesTo, StartupInv, Before, Checked, Keyed, Running, Ended
  <1>4. CASE St!LoadsCertificate
    BY <1>1, <1>2, <1>4
       DEF St!LoadsCertificate, St!Exits, St!GoesTo, StartupInv, Before, Checked, Keyed, Running, Ended
  <1>5. CASE St!MakesListener
    <2>1. TableGrows'
      <3>1. table' = <<>> /\ Len(<<>>) = 0 /\ <<>> \in Seq({Built[i] : i \in DOMAIN Built})
        BY <1>5 DEF St!MakesListener, StartupInv, Before
      <3>2. Len(Built) \in Nat
        BY BuiltAssumption, LenProperties
      <3> QED
        BY <3>1, <3>2 DEF TableGrows
    <2> QED
      BY <1>1, <1>2, <1>5, <2>1
         DEF St!MakesListener, St!Listens, St!GoesTo, StartupInv, Before, Checked, Keyed, Running, Ended
  <1>6. CASE St!RegistersApp
    <2> DEFINE S == {Built[i] : i \in DOMAIN Built}
               b == Built[Len(table) + 1]
    <2>1. /\ table \in Seq(S) /\ Len(table) < Len(Built)
          /\ \A i \in 1 .. Len(table) : table[i] = Built[i]
          /\ table' = Append(table, b)
      BY <1>6 DEF St!RegistersApp, StartupInv, TableGrows
    <2>2. Len(table) \in Nat /\ Len(Built) \in Nat /\ DOMAIN Built = 1 .. Len(Built)
      BY <2>1, BuiltAssumption, LenProperties
    <2>3. b \in S
      BY <2>1, <2>2
    <2> HIDE DEF S, b
    <2>4. /\ table' \in Seq(S) /\ Len(table') = Len(table) + 1 /\ table'[Len(table) + 1] = b
          /\ \A i \in 1 .. Len(table) : table'[i] = table[i]
      BY <2>1, <2>3, AppendProperties
    <2>5. TableGrows'
      BY <2>1, <2>2, <2>4 DEF TableGrows, S, b
    <2> QED
      BY <1>1, <1>2, <1>6, <2>5 DEF St!RegistersApp, StartupInv, Before, Checked, Keyed, Running, Ended
  <1>7. CASE St!WaitsForSignals
    <2>1. table = Built
      <3> DEFINE S == {Built[i] : i \in DOMAIN Built}
      <3>1. /\ table \in Seq(S) /\ Len(table) = Len(Built) /\ Built \in Seq(S)
            /\ \A i \in 1 .. Len(table) : table[i] = Built[i]
        BY <1>7, BuiltAssumption DEF St!WaitsForSignals, StartupInv, TableGrows
      <3> HIDE DEF S
      <3> QED
        BY <3>1, SeqEqual
    <2>2. ArgsTyped(args) /\ args.threads >= 1 /\ args.threads \in Int
      BY <1>1 DEF ArgsTyped, ArgsChecked
    <2>3. /\ table' = table /\ listening' = listening
          /\ phase' = "failure" \/ (phase' = "threads" /\ ~ec)
      BY <1>7 DEF St!WaitsForSignals, St!Exits, St!GoesTo
    <2>4. phase = "apps" /\ args.addr # Bad /\ (UseSSL => Bad \notin {args.key, args.cert})
          /\ (~ec => listening = <<args.addr, args.port>>)
      BY <1>7 DEF St!WaitsForSignals, StartupInv, Checked, Keyed
    <2> QED
      BY <1>1, <1>2, <2>1, <2>2, <2>3, <2>4 DEF StartupInv, Before, Checked, Keyed, Running, Ended
  <1> QED
    BY <1>3, <1>4, <1>5, <1>6, <1>7

\* The threads run, and end.
LEMMA RunningKeeps ==
    ASSUME StartupInv,
           \/ St!StartsThread \/ St!SignalHandler \/ St!ThreadReturns \/ St!Returns
           \/ St!Signal \/ St!AcceptFails
    PROVE  StartupInv'
PROOF
  <1>1. /\ cmdl' = cmdl /\ args' = args /\ table' = table /\ file' = file /\ ec' = ec
        /\ cmdl \in CommandLine /\ ArgsTyped(args)
    BY DEF StartupInv, St!StartsThread, St!SignalHandler, St!ThreadReturns, St!Returns, St!Signal,
           St!AcceptFails, St!files, St!loop
  <1>2. phase \in Running => /\ ArgsChecked /\ args.threads \in Int /\ args.addr # Bad
                             /\ (UseSSL => Bad \notin {args.key, args.cert}) /\ table = Built
                             /\ threads \in Int /\ threads <= args.threads
                             /\ io = "idle" => listening = <<args.addr, args.port>>
    BY DEF StartupInv, Checked, Keyed, Running, ArgsTyped
  <1>3. ArgsTyped(args)' /\ (ArgsChecked => ArgsChecked') /\ cmdl' \in CommandLine
    BY <1>1 DEF ArgsTyped, ArgsChecked
  <1>4. ASSUME phase' \in Ended
        PROVE  StartupInv'
    BY <1>3, <1>4 DEF StartupInv, Before, Checked, Keyed, Running, Ended
  <1>5. ASSUME phase \in Running, phase' \in Running,
               threads' \in Int, threads' <= args.threads,
               io' = "idle" => io = "idle" /\ listening' = listening
        PROVE  StartupInv'
    BY <1>1, <1>2, <1>3, <1>5 DEF StartupInv, Before, Checked, Keyed, Running, Ended
  <1>6. CASE St!StartsThread
    BY <1>2, <1>5, <1>6 DEF St!StartsThread, St!MoreThreads, Running
  <1>7. CASE St!SignalHandler \/ St!AcceptFails
    <2>1. io = "running" /\ io' \in {"running", "stopped"} /\ phase' = phase /\ threads' = threads
      BY <1>7 DEF St!SignalHandler, St!AcceptFails, St!Stops, St!loop
    <2>2. phase \in Running \union Ended
      BY <2>1 DEF StartupInv
    <2> QED
      BY <1>2, <1>4, <1>5, <2>1, <2>2
  <1>8. CASE St!ThreadReturns
    BY <1>2, <1>5, <1>8 DEF St!ThreadReturns, Running
  <1>9. CASE St!Returns
    BY <1>4, <1>9 DEF St!Returns, St!Exits, Ended
  <1>10. CASE St!Signal
    <2>1. CASE phase \in Running
      BY <1>2, <1>5, <1>10, <2>1 DEF St!Signal, Running
    <2>2. CASE phase \notin Running
      BY <1>4, <1>10, <2>2 DEF St!Signal, St!Exits, Running, Ended
    <2> QED
      BY <2>1, <2>2
  <1> QED
    BY <1>6, <1>7, <1>8, <1>9, <1>10

\* Every step of main() keeps the invariant.
LEMMA StartupNext == StartupInv /\ [St!Next]_(St!vars) => StartupInv'
PROOF
  <1> SUFFICES ASSUME StartupInv, [St!Next]_(St!vars) PROVE StartupInv'
    OBVIOUS
  <1>1. CASE UNCHANGED St!vars
    BY <1>1 DEF St!vars, St!files, St!loop, StartupInv, ArgsTyped, ArgsChecked, TableGrows, IsFile
  <1>2. CASE St!Next
    <2>1. CASE St!ReadsNothing
      BY <1>1, <2>1 DEF St!ReadsNothing
    <2> QED
      BY <1>2, <2>1, ReadingKeeps, CheckingKeeps, MakingKeeps, RunningKeeps DEF St!Next, St!Proceeds
  <1> QED
    BY <1>1, <1>2

\* What the daemon does is a step of main(), or leaves it alone.
LEMMA StartupBehaviour == DaemonSpec => St!Init /\ [][St!Next]_(St!vars)
PROOF
  <1>1. DaemonInit => St!Init
    BY DEF DaemonInit
  <1>2. [DaemonNext]_<<part, vars, dispatcher, startup, info>> => [St!Next]_(St!vars)
    BY DEF DaemonNext, St!vars, St!files, St!loop, startup
  <1> QED
    BY <1>1, <1>2, PTL DEF DaemonSpec

(***************************************************************************)
(* Threads only run with options that were checked, those of the command   *)
(* line before those of the file, with every app registered, and with the  *)
(* listener, until the first of them has run.                              *)
(***************************************************************************)
THEOREM RunsAsConfigured == DaemonSpec => []RunningIsConfigured
PROOF
  <1>1. StartupInv => RunningIsConfigured
    <2> SUFFICES ASSUME StartupInv, phase \in Running PROVE RunningIsConfigured
      BY Zenon DEF RunningIsConfigured, St!RunningIsConfigured, Running
    <2>1. /\ args.port \in Int /\ args.port > 1 /\ args.port <= St!MaxPort /\ args.threads >= 1
          /\ \A option \in {"port", "threads", "addr"} :
                cmdl[option] # None => args[option] = cmdl[option]
      BY DEF StartupInv, ArgsChecked, ArgsTyped, Checked, Keyed
    <2>2. args.port \in 2 .. St!MaxPort
      <3>1. St!MaxPort \in Int
        BY DEF St!MaxPort
      <3>2. \A most \in Int : args.port <= most => args.port \in 2 .. most
        BY <2>1, UpTo
      <3> QED
        BY <2>1, <3>1, <3>2, Zenon
    <2>3. /\ args.addr # Bad /\ table = Built /\ threads <= args.threads
          /\ UseSSL => {args.key, args.cert} \cap {None, Bad} = {}
          /\ io = "idle" => listening = <<args.addr, args.port>>
      BY DEF StartupInv, ArgsChecked, Checked, Keyed, Running
    <2> QED
      BY <2>1, <2>2, <2>3, Zenon DEF RunningIsConfigured, St!RunningIsConfigured
  <1> QED
    BY <1>1, StartupInit, StartupNext, StartupBehaviour, PTL

-----------------------------------------------------------------------------
(***************************************************************************)
(* The dispatcher: what the users are told of a step.  A step that leaves  *)
(* what is listed alone tells nothing wrong; four steps do not.            *)
(***************************************************************************)
TellsErrors == (\E i \in DOMAIN answers' : answers'[i].msg.what = "error") => listed' = listed
TellsChanges ==
    listed' # listed =>
        \/ \E i \in DOMAIN answers' : answers'[i].to = "all" /\ answers'[i].msg.what = "status"
        \/ last'.request = <<"tcp_client", "close">>

\* A judged message is of an app and a control.
LEMMA JudgedRequest ==
    ASSUME NEW j \in Judged
    PROVE  j.request = <<D!App(j), D!Control(j)>>
PROOF
  <1>1. PICK doc \in Document : j = M!Judge(doc, M!Apps, WellFormed)
    BY DEF Judged
  <1>2. PICK a, b : j.request = <<a, b>>
    BY <1>1, Zenon DEF M!Judge, M!NoRequest
  <1> QED
    BY <1>2 DEF D!App, D!Control

\* The relay and what comes after it.
LEMMA AfterRelay ==
    ASSUME NEW a, NEW b
    PROVE  <<a>> \o <<b>> = <<a, b>> /\ <<a>> \o <<>> = <<a>>
PROOF
  <1>1. /\ <<a>> \in Seq({a, b}) /\ <<b>> \in Seq({a, b}) /\ <<a, b>> \in Seq({a, b})
        /\ Len(<<a>>) = 1 /\ Len(<<b>>) = 1 /\ Len(<<a, b>>) = 2
        /\ <<a>>[1] = a /\ <<b>>[1] = b /\ <<a, b>>[1] = a /\ <<a, b>>[2] = b
    OBVIOUS
  <1>2. <<a>> \o <<>> = <<a>>
    BY <1>1, ConcatEmptySeq
  <1>3. /\ <<a>> \o <<b>> \in Seq({a, b}) /\ Len(<<a>> \o <<b>>) = 2
        /\ (<<a>> \o <<b>>)[1] = a /\ (<<a>> \o <<b>>)[2] = b
    BY <1>1, ConcatProperties
  <1>4. \A i \in 1 .. Len(<<a>> \o <<b>>) : (<<a>> \o <<b>>)[i] = <<a, b>>[i]
    BY <1>1, <1>3
  <1>5. <<a>> \o <<b>> = <<a, b>>
    BY <1>1, <1>3, <1>4, SeqEqual
  <1> QED
    BY <1>2, <1>5

\* The relay is no error, and a status to all is the status that is asked for.
LEMMA StatusTold ==
    ASSUME NEW app, answers' \in {<<D!ToAll(D!Status(app))>>, <<D!Relay, D!ToAll(D!Status(app))>>}
    PROVE  TellsErrors /\ TellsChanges
PROOF
  <1>1. /\ D!ToAll(D!Status(app)).to = "all" /\ D!ToAll(D!Status(app)).msg.what = "status"
        /\ D!Relay.msg.what = "relay"
    BY DEF D!ToAll, D!Status, D!CreateControl, D!Relay
  <1> DEFINE status == D!ToAll(D!Status(app))
             relay == D!Relay
  <1> HIDE DEF status, relay
  <1>2. /\ status.to = "all" /\ status.msg.what = "status" /\ relay.msg.what = "relay"
        /\ answers' = <<status>> \/ answers' = <<relay, status>>
    BY <1>1 DEF status, relay
  <1>3. \A i \in DOMAIN answers' : answers'[i].msg.what # "error"
    BY <1>2
  <1>4. \E i \in DOMAIN answers' : answers'[i].to = "all" /\ answers'[i].msg.what = "status"
    <2>1. CASE answers' = <<status>>
      <3>1. 1 \in DOMAIN answers' /\ answers'[1] = status
        BY <2>1
      <3> QED
        BY <1>2, <3>1
    <2>2. CASE answers' = <<relay, status>>
      <3>1. 2 \in DOMAIN answers' /\ answers'[2] = status
        BY <2>2
      <3> QED
        BY <1>2, <3>1
    <2> QED
      BY <1>2, <2>1, <2>2
  <1> QED
    BY <1>3, <1>4 DEF TellsErrors, TellsChanges

\* What a step of the dispatcher tells is what it did.
LEMMA StepTells ==
    ASSUME D!Next
    PROVE  TellsErrors /\ TellsChanges
PROOF
  <1>0. ASSUME listed' = listed PROVE TellsErrors /\ TellsChanges
    BY <1>0 DEF TellsErrors, TellsChanges
  <1>1. CASE D!OnMessageNotJson
    BY <1>0, <1>1 DEF D!OnMessageNotJson, D!Keeps
  <1>2. ASSUME NEW j \in Judged, D!OnMessage(j) PROVE TellsErrors /\ TellsChanges
    <2>1. CASE D!OnMessageNoTime(j)
      BY <1>0, <2>1 DEF D!OnMessageNoTime, D!Keeps
    <2>2. CASE D!OnMessageIllFormed(j)
      BY <1>0, <2>2 DEF D!OnMessageIllFormed, D!Keeps
    <2>3. CASE D!HandlerUnchecked(j)
      BY <1>0, <2>3 DEF D!HandlerUnchecked, D!Keeps
    <2>4. CASE D!HandlerRefuses(j)
      BY <1>0, <2>4 DEF D!HandlerRefuses, D!Keeps
    <2>5. CASE D!HandlerHasNoCase(j)
      BY <1>0, <2>5 DEF D!HandlerHasNoCase, D!Keeps
    <2>6. CASE D!HandlerIgnores(j)
      BY <1>0, <2>6 DEF D!HandlerIgnores, D!Keeps
    <2>7. CASE D!HandlerStatus(j)
      BY <1>0, <2>7 DEF D!HandlerStatus, D!Keeps
    <2>8. CASE D!HandlerOpens(j)
      <3>1. answers' = <<D!Relay, D!ToAll(D!Status(D!App(j)))>>
        BY <2>8, AfterRelay DEF D!HandlerOpens, D!Send, D!StatusAfter
      <3> QED
        BY <3>1, StatusTold
    <2>9. CASE D!HandlerOpensUdpClient(j)
      <3>1. answers' = <<D!Relay, D!ToAll(D!Status("udp_client"))>>
        BY <2>9, AfterRelay DEF D!HandlerOpensUdpClient, D!Send, D!StatusAfter
      <3> QED
        BY <3>1, StatusTold
    <2>10. CASE D!HandlerConnects(j)
      BY <1>0, <2>10 DEF D!HandlerConnects
    <2>11. CASE D!HandlerCloses(j)
      <3>1. CASE D!App(j) = "tcp_client"
        <4>1. answers' = <<D!Relay>> /\ D!Control(j) = "close" /\ last'.request = j.request
          BY <2>11, <3>1, AfterRelay DEF D!HandlerCloses, D!Send, D!Accepts, D!Found
        <4>2. last'.request = <<"tcp_client", "close">>
          BY <3>1, <4>1, JudgedRequest
        <4>3. D!Relay.msg.what = "relay"
          BY DEF D!Relay, D!ToAll
        <4>4. \A i \in DOMAIN answers' : answers'[i] = D!Relay
          BY <4>1
        <4> QED
          BY <4>2, <4>3, <4>4 DEF TellsErrors, TellsChanges
      <3>2. CASE D!App(j) # "tcp_client"
        <4>1. answers' = <<D!Relay, D!ToAll(D!Status(D!App(j)))>>
          BY <2>11, <3>2, AfterRelay DEF D!HandlerCloses, D!Send, D!StatusAfter
        <4> QED
          BY <4>1, StatusTold
      <3> QED
        BY <3>1, <3>2
    <2>12. CASE D!HandlerDoes(j)
      BY <1>0, <2>12 DEF D!HandlerDoes, D!Keeps
    <2>13. CASE D!EchoApp(j)
      BY <1>0, <2>13 DEF D!EchoApp, D!Keeps
    <2>14. CASE D!ContainerFails(j)
      BY <1>0, <2>14 DEF D!ContainerFails, D!Keeps
    <2> QED
      BY <1>2, <2>1, <2>2, <2>3, <2>4, <2>5, <2>6, <2>7, <2>8, <2>9, <2>10, <2>11, <2>12,
         <2>13, <2>14, Zenon DEF D!OnMessage
  <1>3. CASE D!Connected
    <2>1. answers' = <<D!ToAll(D!Status("tcp_client"))>>
      BY <1>3 DEF D!Connected, D!Send, D!StatusAfter
    <2> QED
      BY <2>1, StatusTold
  <1>4. CASE D!UdpServerFails
    BY <1>0, <1>4 DEF D!UdpServerFails, D!Keeps
  <1>5. ASSUME NEW app, D!AppSends(app) PROVE TellsErrors /\ TellsChanges
    BY <1>0, <1>5 DEF D!AppSends, D!Keeps
  <1> QED
    BY <1>1, <1>2, <1>3, <1>4, <1>5, Zenon DEF D!Next

(***************************************************************************)
(* Users are told what happened: an error means that no port was opened or *)
(* closed, and a change of the ports is shown to all.                      *)
(***************************************************************************)
THEOREM DispatcherTells == DaemonSpec => ToldWhatHappened
PROOF
  <1>1. [DaemonNext]_<<part, vars, dispatcher, startup, info>> =>
            [TellsErrors /\ TellsChanges]_(D!vars)
    BY StepTells DEF DaemonNext, D!vars, dispatcher
  <1> QED
    BY <1>1, PTL DEF DaemonSpec, ToldWhatHappened, D!ToldWhatHappened, TellsErrors, TellsChanges

-----------------------------------------------------------------------------
(***************************************************************************)
(* What the daemon shows, and what users make of it.  A document is a      *)
(* function from paths.  First, paths: what begins with one has a rest,    *)
(* and is the two of them.                                                 *)
(***************************************************************************)
LEMMA PathParts ==
    ASSUME NEW S, NEW p \in Seq(S), NEW q \in Seq(S)
    PROVE  /\ p \o q \in Seq(S) /\ Len(p) \in Nat /\ Len(p \o q) \in Nat /\ Len(p \o q) >= Len(p)
           /\ SubSeq(p \o q, 1, Len(p)) = p
           /\ SubSeq(p \o q, Len(p) + 1, Len(p \o q)) = q
PROOF
  <1>1. /\ p \o q \in Seq(S) /\ Len(p \o q) = Len(p) + Len(q)
        /\ \A i \in 1 .. Len(p) + Len(q) : (p \o q)[i] = IF i <= Len(p) THEN p[i] ELSE q[i - Len(p)]
        /\ Len(p) \in Nat /\ Len(q) \in Nat
    BY ConcatProperties, LenProperties
  <1> DEFINE r == p \o q
             n == Len(p)
             m == Len(q)
  <1>2. /\ r \in Seq(S) /\ Len(r) = n + m /\ n \in Nat /\ m \in Nat
        /\ \A i \in 1 .. n + m : r[i] \in S
        /\ \A i \in 1 .. n : r[i] = p[i]
        /\ \A i \in 1 .. m : r[n + i] = q[i]
    <2>1. \A i \in 1 .. n + m : r[i] \in S
      BY <1>1, ElementOfSeq
    <2>2. \A i \in 1 .. n : r[i] = p[i]
      BY <1>1
    <2>3. \A i \in 1 .. m : r[n + i] = q[i]
      <3> SUFFICES ASSUME NEW i \in 1 .. m PROVE r[n + i] = q[i]
        OBVIOUS
      <3>1. n + i \in 1 .. n + m /\ ~(n + i <= n) /\ (n + i) - n = i
        BY <1>1
      <3> QED
        BY <1>1, <3>1
    <2> QED
      BY <1>1, <2>1, <2>2, <2>3
  <1> HIDE DEF r
  <1>3. SubSeq(r, 1, n) = p
    <2>1. \A i \in 1 .. n : r[i] \in S
      BY <1>2
    <2>2. /\ SubSeq(r, 1, n) \in Seq(S) /\ Len(SubSeq(r, 1, n)) = IF 1 <= n THEN n - 1 + 1 ELSE 0
          /\ \A i \in 1 .. n - 1 + 1 : SubSeq(r, 1, n)[i] = r[1 + i - 1]
      BY <1>2, <2>1, SubSeqProperties
    <2>3. \A i \in 1 .. n : SubSeq(r, 1, n)[i] = p[i]
      BY <1>2, <2>2
    <2>4. Len(SubSeq(r, 1, n)) = n
      BY <1>2, <2>2
    <2> QED
      BY <2>2, <2>3, <2>4, SeqEqual
  <1>4. SubSeq(r, n + 1, n + m) = q
    <2>1. \A i \in n + 1 .. n + m : r[i] \in S
      BY <1>2
    <2>2. /\ SubSeq(r, n + 1, n + m) \in Seq(S)
          /\ Len(SubSeq(r, n + 1, n + m)) = IF n + 1 <= n + m THEN (n + m) - (n + 1) + 1 ELSE 0
          /\ \A i \in 1 .. (n + m) - (n + 1) + 1 : SubSeq(r, n + 1, n + m)[i] = r[(n + 1) + i - 1]
      BY <1>2, <2>1, SubSeqProperties
    <2>3. (n + m) - (n + 1) + 1 = m /\ \A i \in 1 .. m : (n + 1) + i - 1 = n + i
      BY <1>2
    <2>4. \A i \in 1 .. m : SubSeq(r, n + 1, n + m)[i] = q[i]
      BY <1>2, <2>2, <2>3
    <2>5. Len(SubSeq(r, n + 1, n + m)) = m
      BY <1>2, <2>2
    <2> QED
      BY <2>2, <2>4, <2>5, SeqEqual
  <1> QED
    BY <1>1, <1>2, <1>3, <1>4 DEF r

\* What begins with p is p and a rest.
LEMMA PathRest ==
    ASSUME NEW S, NEW p \in Seq(S), NEW r \in Seq(S), Len(r) >= Len(p), SubSeq(r, 1, Len(p)) = p
    PROVE  /\ SubSeq(r, Len(p) + 1, Len(r)) \in Seq(S)
           /\ r = p \o SubSeq(r, Len(p) + 1, Len(r))
PROOF
  <1>1. Len(p) \in Nat /\ Len(r) \in Nat /\ \A i \in 1 .. Len(r) : r[i] \in S
    BY LenProperties, ElementOfSeq
  <1>2. SubSeq(r, Len(p) + 1, Len(r)) \in Seq(S)
    BY <1>1, SubSeqProperties
  <1>3. 1 \in 1 .. Len(r) + 1 /\ Len(p) \in 1 - 1 .. Len(r) /\ Len(r) \in Len(p) .. Len(r)
    BY <1>1
  <1>4. SubSeq(r, 1, Len(p)) \o SubSeq(r, Len(p) + 1, Len(r)) = SubSeq(r, 1, Len(r))
    BY <1>3, ConcatAdjacentSubSeq
  <1> QED
    BY <1>2, <1>4, SubSeqFull

\* The keys of the documents.
Key == {"addr", "port", "secure", "clients", "local", "remote", "from", "to", "data", "server",
        "client", "open", "config", "baudrate", "parity", "stopbit", "char_size", "flow_control",
        "fc_start", "fc_stop", "1", "2", "app", "time", "type", "ctype", "options", "keepalive",
        "idle", "interval", "count", "sample_time", "cont"}
Path == Seq(Key)

\* The members of a document put below a path, and those below a path of a document.
LEMMA BelowHas ==
    ASSUME NEW path \in Path, NEW m, DOMAIN m \subseteq Path
    PROVE  /\ DOMAIN D!Below(path, m) \subseteq Path
           /\ \A p \in DOMAIN D!Below(path, m) : \E q \in DOMAIN m : p = path \o q
           /\ \A q \in DOMAIN m :
                 path \o q \in DOMAIN D!Below(path, m) /\ D!Below(path, m)[path \o q] = m[q]
PROOF
  <1>1. D!Below(path, m) =
           [p \in {path \o q : q \in DOMAIN m} |-> m[SubSeq(p, Len(path) + 1, Len(p))]]
    BY DEF D!Below
  <1>2. \A q \in DOMAIN m :
           path \o q \in Path /\ SubSeq(path \o q, Len(path) + 1, Len(path \o q)) = q
    BY PathParts DEF Path
  <1>3. \A q \in DOMAIN m : D!Below(path, m)[path \o q] = m[SubSeq(path \o q, Len(path) + 1, Len(path \o q))]
    BY <1>1
  <1>4. DOMAIN D!Below(path, m) = {path \o q : q \in DOMAIN m}
    BY <1>1
  <1> QED
    BY <1>2, <1>3, <1>4

LEMMA PartHas ==
    ASSUME NEW path \in Path, NEW d, DOMAIN d \subseteq Path
    PROVE  /\ DOMAIN D!Part(d, path) \subseteq Path
           /\ \A q \in DOMAIN D!Part(d, path) : path \o q \in DOMAIN d
           /\ \A q \in Path : path \o q \in DOMAIN d =>
                 q \in DOMAIN D!Part(d, path) /\ D!Part(d, path)[q] = d[path \o q]
PROOF
  <1> DEFINE below == {p \in DOMAIN d : Len(p) >= Len(path) /\ SubSeq(p, 1, Len(path)) = path}
             dom == {SubSeq(p, Len(path) + 1, Len(p)) : p \in below}
  <1>1. D!Part(d, path) = [q \in dom |-> d[path \o q]]
    BY DEF D!Part
  <1>2. DOMAIN D!Part(d, path) = dom /\ \A q \in dom : D!Part(d, path)[q] = d[path \o q]
    BY <1>1
  <1>3. \A q \in dom : q \in Path /\ path \o q \in DOMAIN d
    <2> SUFFICES ASSUME NEW p \in below
                 PROVE  /\ SubSeq(p, Len(path) + 1, Len(p)) \in Path
                        /\ path \o SubSeq(p, Len(path) + 1, Len(p)) \in DOMAIN d
      OBVIOUS
    <2>1. p \in Path /\ p \in DOMAIN d
      OBVIOUS
    <2> QED
      BY <2>1, PathRest DEF Path
  <1>4. \A q \in Path : path \o q \in DOMAIN d => q \in dom
    <2> SUFFICES ASSUME NEW q \in Path, path \o q \in DOMAIN d PROVE q \in dom
      OBVIOUS
    <2>1. /\ Len(path \o q) >= Len(path) /\ SubSeq(path \o q, 1, Len(path)) = path
          /\ q = SubSeq(path \o q, Len(path) + 1, Len(path \o q))
      BY PathParts DEF Path
    <2>2. path \o q \in below
      BY <2>1
    <2> QED
      BY <2>1, <2>2
  <1> HIDE DEF below, dom
  <1> QED
    BY <1>2, <1>3, <1>4

Doc(d) == DOMAIN d \subseteq Path
Holds(d, path, v) == path \in DOMAIN d /\ d[path] = v

\* Nothing is at this path or below it.
Clear(d, path) == \A q \in Path : path \o q \notin DOMAIN d

\* An endpoint is at this path; a payload is, of bytes that are numbers.
HoldsEndpoint(d, path, port) ==
    /\ Holds(d, path, D!Object)
    /\ Holds(d, path \o <<"addr">>, D!Address) /\ Holds(d, path \o <<"port">>, D!Number(port))
HoldsPayload(d, path) ==
    /\ Holds(d, path, D!Object)
    /\ \A q \in Path : q # <<>> /\ path \o q \in DOMAIN d => d[path \o q] = D!Number(0)

\* The paths that are used, and how they are put together.
LEMMA Paths ==
    /\ <<>> \in Path /\ Len(<<>>) = 0
    /\ \A a \in Key : <<a>> \in Path /\ Len(<<a>>) = 1 /\ <<a>>[1] = a
    /\ \A a, b \in Key :
          <<a, b>> \in Path /\ Len(<<a, b>>) = 2 /\ <<a, b>>[1] = a /\ <<a, b>>[2] = b
    /\ \A a, b, c \in Key :
          <<a, b, c>> \in Path /\ Len(<<a, b, c>>) = 3
             /\ <<a, b, c>>[1] = a /\ <<a, b, c>>[2] = b /\ <<a, b, c>>[3] = c
PROOF
  <1> QED
    BY DEF Path

LEMMA PathsJoin ==
    /\ \A p \in Path : p \o <<>> = p /\ <<>> \o p = p
    /\ \A a, b \in Key : <<a>> \o <<b>> = <<a, b>>
    /\ \A a, b, c \in Key : <<a, b>> \o <<c>> = <<a, b, c>> /\ <<a>> \o <<b, c>> = <<a, b, c>>
    /\ \A p, q \in Path :
          /\ p \o q \in Path /\ Len(p) \in Nat /\ Len(q) \in Nat /\ Len(p \o q) = Len(p) + Len(q)
          /\ \A i \in 1 .. Len(p) : (p \o q)[i] = p[i]
    /\ \A p, q, r \in Path : (p \o q) \o r = p \o (q \o r)
PROOF
  <1>1. ASSUME NEW p \in Path
        PROVE  p \o <<>> = p /\ <<>> \o p = p
    BY ConcatEmptySeq DEF Path
  <1>2. ASSUME NEW a \in Key, NEW b \in Key
        PROVE  <<a>> \o <<b>> = <<a, b>>
    BY AfterRelay
  <1>3. ASSUME NEW p \in Path, NEW q \in Path
        PROVE  /\ p \o q \in Path /\ Len(p) \in Nat /\ Len(q) \in Nat /\ Len(p \o q) = Len(p) + Len(q)
               /\ \A i \in 1 .. Len(p) : (p \o q)[i] = p[i]
    <2>1. Len(p) \in Nat /\ Len(q) \in Nat
      BY DEF Path
    <2>2. /\ p \o q \in Path /\ Len(p \o q) = Len(p) + Len(q)
          /\ \A i \in 1 .. Len(p) + Len(q) : (p \o q)[i] = IF i <= Len(p) THEN p[i] ELSE q[i - Len(p)]
      BY ConcatProperties DEF Path
    <2> QED
      BY <2>1, <2>2
  <1>4. ASSUME NEW p \in Path, NEW q \in Path, NEW r \in Path
        PROVE  (p \o q) \o r = p \o (q \o r)
    BY ConcatAssociative DEF Path
  <1>5. ASSUME NEW a \in Key, NEW b \in Key, NEW c \in Key
        PROVE  <<a, b>> \o <<c>> = <<a, b, c>> /\ <<a>> \o <<b, c>> = <<a, b, c>>
    <2>1. ASSUME NEW p \in Path, NEW q \in Path, Len(p) = 3, Len(q) = 3,
                 p[1] = q[1], p[2] = q[2], p[3] = q[3]
          PROVE  p = q
      BY <2>1, SeqEqual DEF Path
    <2>2. /\ <<a, b, c>> \in Path /\ Len(<<a, b, c>>) = 3
          /\ <<a, b, c>>[1] = a /\ <<a, b, c>>[2] = b /\ <<a, b, c>>[3] = c
          /\ <<a, b>> \in Path /\ Len(<<a, b>>) = 2 /\ <<a, b>>[1] = a /\ <<a, b>>[2] = b
          /\ <<b, c>> \in Path /\ Len(<<b, c>>) = 2 /\ <<b, c>>[1] = b /\ <<b, c>>[2] = c
          /\ <<a>> \in Path /\ Len(<<a>>) = 1 /\ <<a>>[1] = a
          /\ <<c>> \in Path /\ Len(<<c>>) = 1 /\ <<c>>[1] = c
      BY Paths
    <2>3. \A p, q \in Path : \A i \in 1 .. Len(p) + Len(q) :
             (p \o q)[i] = IF i <= Len(p) THEN p[i] ELSE q[i - Len(p)]
      BY ConcatProperties DEF Path
    <2>4. /\ (<<a, b>> \o <<c>>)[1] = a /\ (<<a, b>> \o <<c>>)[2] = b /\ (<<a, b>> \o <<c>>)[3] = c
      BY <2>2, <2>3
    <2>5. /\ (<<a>> \o <<b, c>>)[1] = a /\ (<<a>> \o <<b, c>>)[2] = b /\ (<<a>> \o <<b, c>>)[3] = c
      BY <2>2, <2>3
    <2>6. /\ <<a, b>> \o <<c>> \in Path /\ Len(<<a, b>> \o <<c>>) = 3
          /\ <<a>> \o <<b, c>> \in Path /\ Len(<<a>> \o <<b, c>>) = 3
      BY <1>3, <2>2
    <2> QED
      BY <2>1, <2>2, <2>4, <2>5, <2>6
  <1> QED
    BY <1>1, <1>2, <1>3, <1>4, <1>5

-----------------------------------------------------------------------------
\* Two documents together: what the first has, and what only the second has.
LEMMA Together ==
    ASSUME NEW d, NEW e
    PROVE  /\ Doc(d) /\ Doc(e) => Doc(D!++(d, e))
           /\ \A p : \A v : Holds(d, p, v) => Holds(D!++(d, e), p, v)
           /\ \A p : \A v : p \notin DOMAIN d /\ Holds(e, p, v) => Holds(D!++(d, e), p, v)
           /\ \A p : Clear(d, p) /\ Clear(e, p) => Clear(D!++(d, e), p)
PROOF
  <1>1. /\ DOMAIN D!++(d, e) = DOMAIN d \union DOMAIN e
        /\ \A p \in DOMAIN d : D!++(d, e)[p] = d[p]
        /\ \A p \in DOMAIN e \ DOMAIN d : D!++(d, e)[p] = e[p]
    BY DEF D!++
  <1> QED
    BY <1>1 DEF Doc, Holds, Clear

\* Two paths that differ at some place: nothing below the one is below the other.
Apart(p, q) == \E i \in 1 .. Len(p) : i <= Len(q) /\ p[i] # q[i]

LEMMA ApartStays ==
    ASSUME NEW p \in Path, NEW q \in Path, Apart(p, q), NEW r \in Path, NEW s \in Path
    PROVE  p \o r # q \o s
PROOF
  <1>1. PICK i \in 1 .. Len(p) : i <= Len(q) /\ p[i] # q[i]
    BY DEF Apart
  <1>2. i \in 1 .. Len(q)
    BY <1>1, PathsJoin
  <1>3. (p \o r)[i] = p[i] /\ (q \o s)[i] = q[i]
    BY <1>1, <1>2, PathsJoin
  <1> QED
    BY <1>1, <1>3

LEMMA PathCancel ==
    ASSUME NEW p \in Path, NEW q \in Path, NEW r \in Path, p \o q = p \o r
    PROVE  q = r
PROOF
  <1>1. \A s, t, v \in Seq(Key) : s \o t = s \o v => t = v
    BY ConcatSimplifications, Zenon
  <1> QED
    BY <1>1 DEF Path

\* A document of one member.
LEMMA Alone ==
    ASSUME NEW path \in Path, NEW v
    PROVE  /\ Doc(D!Member(path, v)) /\ Holds(D!Member(path, v), path, v)
           /\ \A q \in Path : Len(path) < Len(q) \/ Apart(q, path) => Clear(D!Member(path, v), q)
PROOF
  <1>1. DOMAIN D!Member(path, v) = {path} /\ D!Member(path, v)[path] = v
    BY DEF D!Member
  <1>2. ASSUME NEW q \in Path, Len(path) < Len(q) \/ Apart(q, path), NEW r \in Path PROVE q \o r # path
    <2>1. CASE Len(path) < Len(q)
      BY <2>1, PathsJoin
    <2>2. CASE Apart(q, path)
      <3>1. <<>> \in Path /\ path \o <<>> = path
        BY Paths, PathsJoin
      <3>2. q \o r # path \o <<>>
        BY <1>2, <2>2, <3>1, ApartStays
      <3> QED
        BY <3>1, <3>2
    <2> QED
      BY <1>2, <2>1, <2>2
  <1> QED
    BY <1>1, <1>2 DEF Doc, Holds, Clear

\* A document put below a path.
LEMMA Placed ==
    ASSUME NEW path \in Path, NEW m, Doc(m)
    PROVE  /\ Doc(D!Below(path, m))
           /\ \A q \in Path : \A v : Holds(m, q, v) => Holds(D!Below(path, m), path \o q, v)
           /\ \A q \in Path : Clear(m, q) => Clear(D!Below(path, m), path \o q)
           /\ \A q \in Path : Apart(q, path) => Clear(D!Below(path, m), q)
PROOF
  <1>1. /\ DOMAIN D!Below(path, m) \subseteq Path
        /\ \A p \in DOMAIN D!Below(path, m) : \E q \in DOMAIN m : p = path \o q
        /\ \A q \in DOMAIN m :
              path \o q \in DOMAIN D!Below(path, m) /\ D!Below(path, m)[path \o q] = m[q]
        /\ DOMAIN m \subseteq Path
    BY BelowHas DEF Doc
  <1>2. ASSUME NEW q \in Path, Clear(m, q), NEW r \in Path, (path \o q) \o r \in DOMAIN D!Below(path, m)
        PROVE  FALSE
    <2>1. PICK s \in DOMAIN m : (path \o q) \o r = path \o s
      BY <1>1, <1>2
    <2>2. path \o (q \o r) = path \o s /\ q \o r \in Path /\ s \in Path
      BY <1>1, <2>1, PathsJoin
    <2>3. q \o r = s
      BY <2>2, PathCancel
    <2> QED
      BY <1>2, <2>1, <2>3 DEF Clear
  <1>3. ASSUME NEW q \in Path, Apart(q, path), NEW r \in Path, q \o r \in DOMAIN D!Below(path, m)
        PROVE  FALSE
    <2>1. PICK s \in DOMAIN m : q \o r = path \o s
      BY <1>1, <1>3
    <2>2. s \in Path
      BY <1>1
    <2>3. q \o r # path \o s
      BY <1>3, <2>2, ApartStays
    <2> QED
      BY <2>1, <2>3
  <1> QED
    BY <1>1, <1>2, <1>3 DEF Doc, Holds, Clear

\* What is below a path, taken out.
LEMMA Copied ==
    ASSUME NEW path \in Path, NEW d, Doc(d)
    PROVE  /\ Doc(D!Part(d, path))
           /\ \A q \in Path : \A v : Holds(d, path \o q, v) => Holds(D!Part(d, path), q, v)
PROOF
  <1> QED
    BY PartHas DEF Doc, Holds

-----------------------------------------------------------------------------
\* The members of an endpoint are at paths.
LEMMA EndpointPaths ==
    ASSUME NEW p \in Path
    PROVE  /\ <<"addr">> \in Path /\ <<"port">> \in Path
           /\ p \o <<"addr">> \in Path /\ p \o <<"port">> \in Path /\ p \o <<>> = p
PROOF
  <1>1. "addr" \in Key /\ "port" \in Key
    BY DEF Key
  <1> QED
    BY <1>1, Paths, PathsJoin

\* The endpoint that a maker makes.
LEMMA EndpointMade ==
    ASSUME NEW port
    PROVE  /\ Doc(D!Endpoint(port)) /\ HoldsEndpoint(D!Endpoint(port), <<>>, port)
           /\ \A q \in Path : q # <<>> /\ q[1] \notin {"addr", "port"} => Clear(D!Endpoint(port), q)
PROOF
  <1> DEFINE e == D!Empty
             a == D!Member(<<"addr">>, D!Address)
             n == D!Member(<<"port">>, D!Number(port))
  <1>1. "addr" \in Key /\ "port" \in Key /\ <<>> \in Path /\ <<"addr">> \in Path /\ <<"port">> \in Path
    <2>1. "addr" \in Key /\ "port" \in Key
      BY DEF Key
    <2> QED
      BY <2>1, Paths
  <1>2. /\ Doc(e) /\ Holds(e, <<>>, D!Object)
        /\ \A q \in Path : Len(<<>>) < Len(q) \/ Apart(q, <<>>) => Clear(e, q)
    BY <1>1, Alone DEF D!Empty
  <1>3. /\ Doc(a) /\ Holds(a, <<"addr">>, D!Address)
        /\ \A q \in Path : Len(<<"addr">>) < Len(q) \/ Apart(q, <<"addr">>) => Clear(a, q)
    BY <1>1, Alone
  <1>4. /\ Doc(n) /\ Holds(n, <<"port">>, D!Number(port))
        /\ \A q \in Path : Len(<<"port">>) < Len(q) \/ Apart(q, <<"port">>) => Clear(n, q)
    BY <1>1, Alone
  <1>5. D!Endpoint(port) = D!++(D!++(e, a), n)
    BY DEF D!Endpoint
  <1>6. ASSUME NEW q \in Path, q # <<>>, q[1] \notin {"addr", "port"}
        PROVE  Clear(e, q) /\ Clear(a, q) /\ Clear(n, q)
    <2>1. Len(q) \in Nat /\ Len(q) > 0
      BY <1>6, EmptySeq DEF Path
    <2>2. Apart(q, <<"addr">>) /\ Apart(q, <<"port">>)
      BY <1>1, <1>6, <2>1, Paths DEF Apart
    <2> QED
      BY <1>2, <1>3, <1>4, <2>1, <2>2, Paths
  <1>7. <<"addr">> \notin DOMAIN e /\ <<"port">> \notin DOMAIN e /\ <<"port">> \notin DOMAIN a
    <2>1. DOMAIN e = {<<>>} /\ DOMAIN a = {<<"addr">>}
      BY DEF D!Member, D!Empty
    <2> QED
      BY <2>1
  <1> HIDE DEF e, a, n
  <1>8. Doc(D!++(e, a)) /\ Holds(D!++(e, a), <<>>, D!Object) /\ Holds(D!++(e, a), <<"addr">>, D!Address)
    BY <1>2, <1>3, <1>7, Together
  <1>9. <<"port">> \notin DOMAIN D!++(e, a)
    BY <1>7 DEF D!++
  <1>10. /\ Doc(D!Endpoint(port)) /\ Holds(D!Endpoint(port), <<>>, D!Object)
         /\ Holds(D!Endpoint(port), <<"addr">>, D!Address) /\ Holds(D!Endpoint(port), <<"port">>, D!Number(port))
    BY <1>4, <1>5, <1>8, <1>9, Together
  <1>11. <<>> \o <<"addr">> = <<"addr">> /\ <<>> \o <<"port">> = <<"port">>
    BY <1>1, PathsJoin
  <1>12. \A q \in Path : q # <<>> /\ q[1] \notin {"addr", "port"} => Clear(D!Endpoint(port), q)
    BY <1>5, <1>6, Together
  <1> QED
    BY <1>10, <1>11, <1>12 DEF HoldsEndpoint

\* An endpoint in a document that is put below a path, copied, or joined with another.
LEMMA EndpointMoves ==
    ASSUME NEW d, Doc(d), NEW path \in Path, NEW q \in Path, NEW port
    PROVE  /\ HoldsEndpoint(d, q, port) => HoldsEndpoint(D!Below(path, d), path \o q, port)
           /\ HoldsEndpoint(d, path \o q, port) => HoldsEndpoint(D!Part(d, path), q, port)
PROOF
  <1>1. /\ (path \o q) \o <<"addr">> = path \o (q \o <<"addr">>)
        /\ (path \o q) \o <<"port">> = path \o (q \o <<"port">>)
        /\ q \o <<"addr">> \in Path /\ q \o <<"port">> \in Path
    <2>1. /\ <<"addr">> \in Path /\ <<"port">> \in Path
          /\ q \o <<"addr">> \in Path /\ q \o <<"port">> \in Path
      BY EndpointPaths
    <2>2. \A r \in Path : (path \o q) \o r = path \o (q \o r)
      BY PathsJoin
    <2> QED
      BY <2>1, <2>2
  <1> QED
    BY <1>1, Placed, Copied DEF HoldsEndpoint

LEMMA EndpointJoins ==
    ASSUME NEW d, NEW e, NEW path \in Path, NEW port
    PROVE  /\ HoldsEndpoint(d, path, port) => HoldsEndpoint(D!++(d, e), path, port)
           /\ Clear(d, path) /\ HoldsEndpoint(e, path, port) => HoldsEndpoint(D!++(d, e), path, port)
PROOF
  <1>1. Clear(d, path) =>
            path \notin DOMAIN d /\ path \o <<"addr">> \notin DOMAIN d /\ path \o <<"port">> \notin DOMAIN d
    <2>1. <<"addr">> \in Path /\ <<"port">> \in Path /\ <<>> \in Path /\ path \o <<>> = path
      BY EndpointPaths, Paths
    <2> QED
      BY <2>1 DEF Clear
  <1> QED
    BY <1>1, Together DEF HoldsEndpoint

\* The payload that users send, in a document that is put below a path or joined with another.
LEMMA PayloadMade ==
    /\ Doc(D!Payload) /\ HoldsPayload(D!Payload, <<"data">>)
    /\ \A q \in Path : q # <<>> /\ q[1] # "data" => Clear(D!Payload, q)
PROOF
  <1>1. /\ "data" \in Key /\ "1" \in Key /\ <<"data">> \in Path /\ <<"data", "1">> \in Path
        /\ <<>> \in Path /\ Len(<<"data">>) = 1 /\ Len(<<"data", "1">>) = 2
        /\ <<"data">>[1] = "data" /\ <<"data", "1">>[1] = "data"
    <2>1. "data" \in Key /\ "1" \in Key
      BY DEF Key
    <2> QED
      BY <2>1, Paths
  <1> DEFINE o == D!Member(<<"data">>, D!Object)
             b == D!Member(<<"data", "1">>, D!Number(0))
  <1>2. /\ DOMAIN o = {<<"data">>} /\ o[<<"data">>] = D!Object
        /\ DOMAIN b = {<<"data", "1">>} /\ b[<<"data", "1">>] = D!Number(0)
        /\ D!Payload = D!++(o, b)
    BY DEF D!Member, D!Payload
  <1>3. <<"data">> # <<"data", "1">>
    BY <1>1
  <1> HIDE DEF o, b
  <1>4. /\ DOMAIN D!Payload = {<<"data">>, <<"data", "1">>}
        /\ D!Payload[<<"data">>] = D!Object /\ D!Payload[<<"data", "1">>] = D!Number(0)
    BY <1>2, <1>3 DEF D!++
  <1>5. ASSUME NEW q \in Path, q # <<>>, <<"data">> \o q \in DOMAIN D!Payload
        PROVE  D!Payload[<<"data">> \o q] = D!Number(0)
    <2>1. <<"data">> \o q # <<"data">>
      <3>1. Len(q) \in Nat /\ Len(q) > 0
        BY <1>5, EmptySeq DEF Path
      <3>2. Len(<<"data">> \o q) = 1 + Len(q)
        BY <1>1, PathsJoin
      <3> QED
        BY <1>1, <3>1, <3>2
    <2> QED
      BY <1>4, <1>5, <2>1
  <1>6. ASSUME NEW q \in Path, q # <<>>, q[1] # "data", NEW r \in Path
        PROVE  q \o r \notin DOMAIN D!Payload
    <2>1. Len(q) \in Nat /\ Len(q) > 0
      BY <1>6, EmptySeq DEF Path
    <2>2. (q \o r)[1] = q[1]
      BY <2>1, PathsJoin
    <2> QED
      BY <1>1, <1>4, <1>6, <2>2
  <1> QED
    BY <1>1, <1>4, <1>5, <1>6 DEF Doc, Holds, HoldsPayload, Clear

LEMMA PayloadMoves ==
    ASSUME NEW d, Doc(d), NEW e, Doc(e), NEW path \in Path, NEW q \in Path
    PROVE  /\ HoldsPayload(d, q) => HoldsPayload(D!Below(path, d), path \o q)
           /\ HoldsPayload(d, q) /\ Clear(e, q) => HoldsPayload(D!++(d, e), q)
           /\ Clear(d, q) /\ HoldsPayload(e, q) => HoldsPayload(D!++(d, e), q)
PROOF
  <1>0. /\ DOMAIN d \subseteq Path
        /\ \A p \in DOMAIN D!Below(path, d) : \E s \in DOMAIN d : p = path \o s
        /\ \A s \in DOMAIN d : D!Below(path, d)[path \o s] = d[s]
    <2>1. DOMAIN d \subseteq Path
      BY DEF Doc
    <2> QED
      BY <2>1, BelowHas
  <1>1. ASSUME HoldsPayload(d, q) PROVE HoldsPayload(D!Below(path, d), path \o q)
    <2>1. Holds(D!Below(path, d), path \o q, D!Object)
      BY <1>1, Placed DEF HoldsPayload
    <2>2. ASSUME NEW r \in Path, r # <<>>, (path \o q) \o r \in DOMAIN D!Below(path, d)
          PROVE  D!Below(path, d)[(path \o q) \o r] = D!Number(0)
      <3>2. PICK s \in DOMAIN d : (path \o q) \o r = path \o s
        BY <2>2, <1>0
      <3>3. path \o (q \o r) = path \o s /\ q \o r \in Path /\ s \in Path
        BY <1>0, <3>2, PathsJoin
      <3>4. q \o r = s
        BY <3>3, PathCancel
      <3>5. d[s] = D!Number(0)
        BY <1>1, <2>2, <3>2, <3>4 DEF HoldsPayload
      <3> QED
        BY <1>0, <3>2, <3>5
    <2> QED
      BY <2>1, <2>2 DEF HoldsPayload
  <1>2. /\ DOMAIN D!++(d, e) = DOMAIN d \union DOMAIN e
        /\ \A p \in DOMAIN d : D!++(d, e)[p] = d[p]
        /\ \A p \in DOMAIN e \ DOMAIN d : D!++(d, e)[p] = e[p]
    BY DEF D!++
  <1>3. q \o <<>> = q /\ <<>> \in Path
    BY Paths, PathsJoin
  <1> QED
    BY <1>1, <1>2, <1>3 DEF HoldsPayload, Holds, Clear

-----------------------------------------------------------------------------
\* The ports that the parsers accept.
Ports == PortMin + 1 .. PortMod - 1

LEMMA PortsAreValid ==
    /\ \A port \in Ports :
          D!IsValidPort(port) /\ port % PortMod = port /\ port \in 0 .. UIntMod - 1 /\ port \in Int
    /\ LocalPort \subseteq Ports
PROOF
  <1>1. ASSUME NEW port \in Ports
        PROVE  D!IsValidPort(port) /\ port % PortMod = port /\ port \in 0 .. UIntMod - 1 /\ port \in Int
    <2>1. port \in Int /\ port > PortMin /\ port < PortMod /\ PortMin >= 0 /\ PortMod <= UIntMod
      BY <1>1, PortsAssumption DEF Ports
    <2>2. port % PortMod = port
      BY <2>1, PortsAssumption
    <2> QED
      BY <2>1, <2>2, PortsAssumption DEF D!IsValidPort
  <1>2. LocalPort \subseteq Ports
    BY PortsAssumption DEF M!IsValidPort, Ports
  <1> QED
    BY <1>1, <1>2

\* The kinds of what a document of the daemon holds.
LEMMA Kinds ==
    /\ D!Is(D!Object, "object") /\ D!Is(D!Object, "payload") /\ D!Is(D!Array, "array")
    /\ D!Is(D!Address, "string") /\ \A s : D!Is(D!Text(s), "string")
    /\ \A n \in 0 .. UIntMod - 1 : D!Is(D!Number(n), "uint") /\ D!Number(n).n = n
PROOF
  <1> QED
    BY DEF D!Is, D!Object, D!Array, D!Address, D!Text, D!Number, D!Other

\* A need that is met, and needs that are.
LEMMA NeedsMet ==
    /\ \A d, A, B : D!Met(d, A) /\ D!Met(d, B) => D!Met(d, A \union B)
    /\ \A d, p, v, kind : Holds(d, p, v) /\ D!Is(v, kind) => D!Met(d, {<<p, kind>>})
PROOF
  <1> QED
    BY DEF D!Met, D!Has, Holds

\* A parser accepts when all of its phases are met.
LEMMA AllMet ==
    /\ \A a, b, c : a.met /\ b.met /\ c.met => D!Passes(<<a, b, c>>)
    /\ \A a, b, c, e : a.met /\ b.met /\ c.met /\ e.met => D!Passes(<<a, b, c, e>>)
    /\ \A a, b, c, e, f : a.met /\ b.met /\ c.met /\ e.met /\ f.met => D!Passes(<<a, b, c, e, f>>)
    /\ \A a, b, c, e, f, g : a.met /\ b.met /\ c.met /\ e.met /\ f.met /\ g.met =>
           D!Passes(<<a, b, c, e, f, g>>)
    /\ \A a, b, c, e, f, g, h, i, k :
           a.met /\ b.met /\ c.met /\ e.met /\ f.met /\ g.met /\ h.met /\ i.met /\ k.met =>
           D!Passes(<<a, b, c, e, f, g, h, i, k>>)
PROOF
  <1> QED
    BY DEF D!Passes, D!Verdict

\* An endpoint that is there is read and accepted, as the port that it is.
LEMMA EndpointRead ==
    ASSUME NEW d, NEW path \in Path, NEW port \in Ports, HoldsEndpoint(d, path, port)
    PROVE  /\ D!Met(d, D!EndpointAt(path)) /\ D!Met(d, {<<path, "object">>})
           /\ D!PortAt(d, path) = port /\ D!Narrowed(d, path) = port
           /\ D!ValidEndpoint(d, path) /\ D!ValidNarrowed(d, path)
PROOF
  <1>1. /\ D!IsValidPort(port) /\ port % PortMod = port /\ port \in 0 .. UIntMod - 1
    BY PortsAreValid
  <1>2. /\ D!Met(d, {<<path, "object">>})
        /\ D!Met(d, {<<path \o <<"addr">>, "string">>}) /\ D!Met(d, {<<path \o <<"port">>, "uint">>})
    BY <1>1, Kinds, NeedsMet DEF HoldsEndpoint
  <1>3. D!Met(d, D!EndpointAt(path))
    BY <1>2 DEF D!EndpointAt, D!Met
  <1>4. D!PortAt(d, path) = port /\ D!IsAddress(d, path)
    BY <1>1, Kinds DEF HoldsEndpoint, Holds, D!PortAt, D!IsAddress
  <1> QED
    BY <1>1, <1>2, <1>3, <1>4 DEF D!Narrowed, D!ValidEndpoint, D!ValidNarrowed

\* A payload that is there is read as the bytes that it is.
LEMMA PayloadRead ==
    ASSUME NEW d, Doc(d), NEW path \in Path, HoldsPayload(d, path)
    PROVE  D!Met(d, {<<path, "payload">>}) /\ D!Met(d, D!Bytes(d, path))
PROOF
  <1>1. D!Met(d, {<<path, "payload">>}) /\ D!Met(d, {<<path, "object">>})
    BY Kinds, NeedsMet DEF HoldsPayload
  <1>2. D!Bytes(d, path) = {<<p, "uint">> : p \in D!Members(d, path)}
    BY <1>1 DEF D!Bytes
  <1>3. ASSUME NEW p \in D!Members(d, path)
        PROVE  p \in DOMAIN d /\ d[p] = D!Number(0)
    <2>1. p \in DOMAIN d /\ p \in Path /\ Len(p) = Len(path) + 1 /\ SubSeq(p, 1, Len(path)) = path
      BY DEF D!Members, Doc
    <2> DEFINE q == SubSeq(p, Len(path) + 1, Len(p))
    <2>2. Len(path) \in Nat /\ Len(p) >= Len(path)
      BY <2>1, PathsJoin
    <2>3. q \in Path /\ p = path \o q
      BY <2>1, <2>2, PathRest DEF Path
    <2>4. q # <<>>
      BY <2>1, <2>2, <2>3, PathsJoin
    <2> QED
      BY <2>1, <2>3, <2>4 DEF HoldsPayload
  <1>4. D!Is(D!Number(0), "uint")
    BY Kinds, PortsAssumption
  <1>5. ASSUME NEW need \in D!Bytes(d, path)
        PROVE  need[1] \in DOMAIN d /\ D!Is(d[need[1]], need[2])
    BY <1>2, <1>3, <1>4
  <1> QED
    BY <1>1, <1>5 DEF D!Met, D!Has

-----------------------------------------------------------------------------
\* The places of a message that users make.
LEMMA Places ==
    /\ {"local", "from", "to", "data", "server", "client", "clients", "remote", "port", "1", "2"} \subseteq Key
    /\ <<>> \in Path /\ D!Data \in Path /\ D!Data \o <<>> = D!Data
    /\ \A k \in Key : <<k>> \in Path /\ D!Sub(k) = D!Data \o <<k>> /\ D!Sub(k) \in Path
    /\ \A k, l \in Key :
          /\ <<k, l>> \in Path /\ <<"data", k, l>> \in Path
          /\ <<"data", k, l>> = D!Data \o <<k, l>> /\ D!Sub(k) \o <<l>> = <<"data", k, l>>
PROOF
  <1>1. {"local", "from", "to", "data", "server", "client", "clients", "remote", "port", "1", "2"} \subseteq Key
    BY DEF Key
  <1>2. "data" \in Key
    BY <1>1
  <1>3. D!Data = <<"data">> /\ \A k : D!Sub(k) = <<"data", k>>
    BY DEF D!Data, D!Sub
  <1>4. <<>> \in Path /\ D!Data \in Path /\ D!Data \o <<>> = D!Data
    BY <1>2, <1>3, Paths, PathsJoin
  <1>5. ASSUME NEW k \in Key
        PROVE  <<k>> \in Path /\ D!Sub(k) = D!Data \o <<k>> /\ D!Sub(k) \in Path
    BY <1>2, <1>3, Paths, PathsJoin
  <1>6. ASSUME NEW k \in Key, NEW l \in Key
        PROVE  /\ <<k, l>> \in Path /\ <<"data", k, l>> \in Path
               /\ <<"data", k, l>> = D!Data \o <<k, l>> /\ D!Sub(k) \o <<l>> = <<"data", k, l>>
    BY <1>2, <1>3, Paths, PathsJoin
  <1> QED
    BY <1>1, <1>4, <1>5, <1>6

\* Paths whose first keys differ are apart, and those whose second keys do.
LEMMA KeysApart ==
    /\ \A p, q \in Path : p # <<>> /\ q # <<>> /\ p[1] # q[1] => Apart(p, q)
    /\ \A k, l, m, n \in Key : k # m => Apart(<<k>>, <<m>>) /\ Apart(<<k>>, <<m, n>>) /\ Apart(<<k, l>>, <<m>>)
    /\ \A k, l, n \in Key : l # n => Apart(<<k, l>>, <<k, n>>)
    /\ \A k, l \in Key : <<k>> # <<>> /\ <<k, l>> # <<>>
PROOF
  <1>1. ASSUME NEW p \in Path, NEW q \in Path, p # <<>>, q # <<>>, p[1] # q[1]
        PROVE  Apart(p, q)
    <2>1. Len(p) \in Nat /\ Len(p) > 0 /\ Len(q) \in Nat /\ Len(q) > 0
      BY <1>1, EmptySeq DEF Path
    <2>2. 1 \in 1 .. Len(p) /\ 1 <= Len(q)
      BY <2>1
    <2> QED
      BY <1>1, <2>2 DEF Apart
  <1>2. ASSUME NEW k \in Key, NEW l \in Key, NEW m \in Key, NEW n \in Key, k # m
        PROVE  Apart(<<k>>, <<m>>) /\ Apart(<<k>>, <<m, n>>) /\ Apart(<<k, l>>, <<m>>)
    BY <1>2 DEF Apart
  <1>3. ASSUME NEW k \in Key, NEW l \in Key, NEW n \in Key, l # n
        PROVE  Apart(<<k, l>>, <<k, n>>)
    <2>1. /\ Len(<<k, l>>) = 2 /\ Len(<<k, n>>) = 2 /\ <<k, l>>[2] = l /\ <<k, n>>[2] = n
          /\ 2 \in 1 .. 2 /\ 2 <= 2
      OBVIOUS
    <2>2. 2 \in 1 .. Len(<<k, l>>) /\ 2 <= Len(<<k, n>>) /\ <<k, l>>[2] # <<k, n>>[2]
      BY <1>3, <2>1
    <2> QED
      BY <2>2, Zenon DEF Apart
  <1>4. \A k, l \in Key : <<k>> # <<>> /\ <<k, l>> # <<>>
    OBVIOUS
  <1> QED
    BY <1>1, <1>2, <1>3, <1>4

\* The document that is just an object.
LEMMA EmptyHolds ==
    /\ Doc(D!Empty) /\ Holds(D!Empty, <<>>, D!Object)
    /\ \A q \in Path : q # <<>> => Clear(D!Empty, q)
PROOF
  <1>1. /\ Doc(D!Empty) /\ Holds(D!Empty, <<>>, D!Object)
        /\ \A q \in Path : Len(<<>>) < Len(q) => Clear(D!Empty, q)
    BY Alone, Paths DEF D!Empty
  <1>2. ASSUME NEW q \in Path, q # <<>> PROVE Len(<<>>) < Len(q)
    BY <1>2, EmptySeq DEF Path
  <1> QED
    BY <1>1, <1>2

-----------------------------------------------------------------------------
\* What a document has to hold for a parser to accept it: an endpoint at its data,
LEMMA EndpointPasses ==
    ASSUME NEW doc, NEW port \in Ports, Holds(doc, D!Data, D!Object), HoldsEndpoint(doc, D!Data, port)
    PROVE  /\ D!Passes(D!ParserEndpoint(doc)) /\ D!PortAt(doc, D!Data) = port
           /\ D!Passes(D!ParserUdpClientOpen(doc))
           /\ Holds(doc, D!Sub("secure"), D!Text("plain")) =>
                 /\ D!Passes(D!ParserTcpClientOpen(doc))
                 /\ D!ParserTcpServerOpen(doc) \o D!MakeAddress(doc) # <<>>
                 /\ D!Passes(D!ParserTcpServerOpen(doc) \o D!MakeAddress(doc))
PROOF
  <1>1. /\ D!Met(doc, D!DataObject) /\ D!Met(doc, D!EndpointAt(D!Data))
        /\ D!ValidEndpoint(doc, D!Data) /\ D!ValidNarrowed(doc, D!Data) /\ D!PortAt(doc, D!Data) = port
        /\ D!Narrowed(doc, D!Data) = port
    BY EndpointRead, Places DEF D!DataObject
  <1>2. /\ D!Passes(D!ParserEndpoint(doc)) /\ D!Passes(D!ParserUdpClientOpen(doc))
    BY <1>1, AllMet DEF D!ParserEndpoint, D!ParserUdpClientOpen, D!Check, D!Read, D!Valid
  <1>3. \A kind : D!GetKeepAlive(doc, kind).met
    BY DEF D!GetKeepAlive, D!Read, D!Met
  <1>4. ASSUME Holds(doc, D!Sub("secure"), D!Text("plain"))
        PROVE  /\ D!Passes(D!ParserTcpClientOpen(doc))
               /\ D!ParserTcpServerOpen(doc) \o D!MakeAddress(doc) # <<>>
               /\ D!Passes(D!ParserTcpServerOpen(doc) \o D!MakeAddress(doc))
    <2>1. D!Met(doc, {<<D!Sub("secure"), "string">>})
      BY <1>4, Kinds, NeedsMet
    <2>2. D!Met(doc, D!TcpOpenNeeds)
      BY <1>1, <2>1, NeedsMet DEF D!TcpOpenNeeds
    <2>3. D!Passes(D!ParserTcpClientOpen(doc))
      BY <1>1, <1>3, <2>2, AllMet DEF D!ParserTcpClientOpen, D!Check, D!Read, D!Valid
    <2> DEFINE a == D!Check(doc, D!DataObject)
               b == D!Check(doc, D!TcpOpenNeeds)
               c == D!Read(doc, D!TcpOpenNeeds)
               d == D!Valid(D!Met(doc, D!TcpOpenNeeds) => D!IsValidPort(D!Narrowed(doc, D!Data)))
               e == D!GetKeepAlive(doc, "int")
               z == [reads |-> TRUE, met |-> D!Met(doc, D!EndpointAt(D!Data)) => D!IsAddress(doc, D!Data)]
               phases == <<a, b, c, d, e>> \o <<z>>
               All == {a, b, c, d, e, z}
    <2>4. phases = D!ParserTcpServerOpen(doc) \o D!MakeAddress(doc)
      BY DEF D!ParserTcpServerOpen, D!MakeAddress
    <2>5. D!IsValidPort(D!Narrowed(doc, D!Data)) /\ D!IsAddress(doc, D!Data)
      BY <1>1 DEF D!ValidNarrowed
    <2>6. a.met /\ b.met /\ c.met /\ d.met /\ z.met
      BY <1>1, <2>2, <2>5 DEF D!Check, D!Read, D!Valid
    <2>7. e.met
      BY <1>3
    <2> HIDE DEF a, b, c, d, e, z
    <2>8. /\ <<a, b, c, d, e>> \in Seq(All) /\ Len(<<a, b, c, d, e>>) = 5
          /\ <<z>> \in Seq(All) /\ Len(<<z>>) = 1
      OBVIOUS
    <2>9. \A x \in All : x.met
      BY <2>6, <2>7
    <2> HIDE DEF All
    <2>10. phases \in Seq(All) /\ Len(phases) = 6
      BY <2>8, ConcatProperties
    <2>11. \A i \in DOMAIN phases : phases[i].met
      BY <2>9, <2>10
    <2>12. D!Passes(phases) /\ phases # <<>>
      BY <2>10, <2>11 DEF D!Passes, D!Verdict
    <2> QED
      BY <2>3, <2>4, <2>12
  <1> QED
    BY <1>1, <1>2, <1>4

\* ... a payload and the endpoint of a connection,
LEMMA ClientDataPasses ==
    ASSUME NEW doc, Doc(doc), NEW port \in Ports, Holds(doc, D!Data, D!Object),
           HoldsEndpoint(doc, D!Sub("local"), port), HoldsPayload(doc, D!Sub("data"))
    PROVE  D!Passes(D!ParserClientData(doc)) /\ D!PortAt(doc, D!Sub("local")) = port
PROOF
  <1>1. D!Sub("local") \in Path /\ D!Sub("data") \in Path
    BY Places
  <1>2. D!Met(doc, D!DataObject)
    BY Kinds, NeedsMet DEF D!DataObject
  <1>3. /\ D!Met(doc, {<<D!Sub("local"), "object">>}) /\ D!Met(doc, D!EndpointAt(D!Sub("local")))
        /\ D!ValidEndpoint(doc, D!Sub("local")) /\ D!PortAt(doc, D!Sub("local")) = port
    BY <1>1, EndpointRead
  <1>4. D!Met(doc, {<<D!Sub("data"), "payload">>}) /\ D!Met(doc, D!Bytes(doc, D!Sub("data")))
    BY <1>1, PayloadRead
  <1>5. D!Met(doc, D!ClientDataNeeds)
    BY <1>3, <1>4 DEF D!ClientDataNeeds, D!Met
  <1> QED
    BY <1>2, <1>3, <1>4, <1>5, AllMet DEF D!ParserClientData, D!Check, D!Read, D!Valid

\* ... a payload, the endpoint of a server, and the one of its peers,
LEMMA ServerDataPasses ==
    ASSUME NEW doc, Doc(doc), NEW port \in Ports, NEW peer \in Ports, Holds(doc, D!Data, D!Object),
           HoldsEndpoint(doc, D!Sub("from"), port), HoldsPayload(doc, D!Sub("data")),
           Holds(doc, D!Sub("to"), D!Array), HoldsEndpoint(doc, <<"data", "to", "1">>, peer),
           <<"data", "to", "2">> \notin DOMAIN doc
    PROVE  /\ D!Passes(D!ParserServerData(doc)) /\ D!PortAt(doc, D!Sub("from")) = port
           /\ D!PortAt(doc, <<"data", "to", "1">>) = peer
PROOF
  <1>1. /\ D!Sub("from") \in Path /\ D!Sub("data") \in Path /\ <<"data", "to", "1">> \in Path
        /\ D!Sub("to") \o <<"1">> = <<"data", "to", "1">> /\ D!Sub("to") \o <<"2">> = <<"data", "to", "2">>
    BY Places
  <1>2. D!Items(doc, D!Sub("to")) \subseteq {<<"data", "to", "1">>}
    BY <1>1 DEF D!Items, D!Index
  <1>3. D!Met(doc, D!DataObject) /\ D!Met(doc, D!ToNeeds)
    BY Kinds, NeedsMet DEF D!DataObject, D!ToNeeds
  <1>4. /\ D!Met(doc, {<<D!Sub("from"), "object">>}) /\ D!Met(doc, D!EndpointAt(D!Sub("from")))
        /\ D!ValidEndpoint(doc, D!Sub("from")) /\ D!PortAt(doc, D!Sub("from")) = port
    BY <1>1, EndpointRead
  <1>5. /\ D!Met(doc, {<<<<"data", "to", "1">>, "object">>})
        /\ D!Met(doc, D!EndpointAt(<<"data", "to", "1">>))
        /\ D!ValidEndpoint(doc, <<"data", "to", "1">>) /\ D!PortAt(doc, <<"data", "to", "1">>) = peer
    BY <1>1, EndpointRead
  <1>6. D!Met(doc, {<<D!Sub("data"), "payload">>}) /\ D!Met(doc, D!Bytes(doc, D!Sub("data")))
    BY <1>1, PayloadRead
  <1>7. D!Met(doc, D!FromNeeds)
    BY <1>4 DEF D!FromNeeds, D!Met
  <1>8. D!Met(doc, D!ClientNeeds(doc))
    BY <1>2, <1>5 DEF D!ClientNeeds, D!Met
  <1>9. \A p \in D!Items(doc, D!Sub("to")) : D!ValidEndpoint(doc, p)
    BY <1>2, <1>5
  <1>10. D!Passes(D!ParserServerData(doc))
    BY <1>3, <1>4, <1>6, <1>7, <1>8, <1>9, AllMet
       DEF D!ParserServerData, D!Check, D!Read, D!Valid, D!FromOrNoTo
  <1> QED
    BY <1>4, <1>5, <1>10

\* ... a server and a client of it,
LEMMA CloseClientPasses ==
    ASSUME NEW doc, NEW port \in Ports, NEW peer \in Ports, Holds(doc, D!Data, D!Object),
           HoldsEndpoint(doc, D!Sub("server"), port), HoldsEndpoint(doc, D!Sub("client"), peer)
    PROVE  /\ D!Passes(D!ParserCloseClients(doc)) /\ D!PortAt(doc, D!Sub("server")) = port
           /\ D!Narrowed(doc, D!Sub("client")) = peer
PROOF
  <1>1. D!Sub("server") \in Path /\ D!Sub("client") \in Path
    BY Places
  <1>2. D!Met(doc, D!DataObject)
    BY Kinds, NeedsMet DEF D!DataObject
  <1>3. /\ D!Met(doc, {<<D!Sub("server"), "object">>}) /\ D!Met(doc, D!EndpointAt(D!Sub("server")))
        /\ D!ValidEndpoint(doc, D!Sub("server")) /\ D!PortAt(doc, D!Sub("server")) = port
    BY <1>1, EndpointRead
  <1>4. /\ D!Met(doc, {<<D!Sub("client"), "object">>}) /\ D!Met(doc, D!EndpointAt(D!Sub("client")))
        /\ D!ValidNarrowed(doc, D!Sub("client")) /\ D!Narrowed(doc, D!Sub("client")) = peer
    BY <1>1, EndpointRead
  <1>5. D!Met(doc, D!CloseClientNeeds)
    BY <1>3, <1>4 DEF D!CloseClientNeeds, D!Met
  <1>6. D!Passes(D!ParserCloseClients(doc))
    BY <1>2, <1>3, <1>4, <1>5, AllMet DEF D!ParserCloseClients, D!Check, D!Read, D!Valid
  <1> QED
    BY <1>3, <1>4, <1>6

\* ... a serial port, with options, with nothing, or with a payload,
LEMMA SerialPasses ==
    ASSUME NEW doc, Doc(doc), Holds(doc, D!Data, D!Object), Holds(doc, D!Sub("port"), D!Text("tty"))
    PROVE  /\ D!Passes(D!ParserSerialClose(doc))
           /\ HoldsPayload(doc, D!Sub("data")) => D!Passes(D!ParserSerialData(doc))
           /\ \A size \in D!CharSizes, option \in 0 .. 2 :
                 /\ Holds(doc, D!Sub("char_size"), D!Number(size))
                 /\ \A o \in D!SerialUints \ {"char_size"} : Holds(doc, D!Sub(o), D!Number(option))
                 => D!Passes(D!ParserSerialConfig(doc))
PROOF
  <1>1. D!Met(doc, D!DataObject) /\ D!Met(doc, {<<D!Sub("port"), "string">>})
    BY Kinds, NeedsMet DEF D!DataObject
  <1>2. D!Passes(D!ParserSerialClose(doc))
    BY <1>1, AllMet DEF D!ParserSerialClose, D!Check, D!Read
  <1>3. ASSUME HoldsPayload(doc, D!Sub("data")) PROVE D!Passes(D!ParserSerialData(doc))
    <2>1. D!Met(doc, {<<D!Sub("data"), "payload">>}) /\ D!Met(doc, D!Bytes(doc, D!Sub("data")))
      BY <1>3, Places, PayloadRead
    <2>2. D!Met(doc, {<<D!Sub("port"), "string">>, <<D!Sub("data"), "payload">>})
      BY <1>1, <2>1 DEF D!Met
    <2> QED
      BY <1>1, <2>1, <2>2, AllMet DEF D!ParserSerialData, D!Check, D!Read
  <1>4. ASSUME NEW size \in D!CharSizes, NEW option \in 0 .. 2,
               Holds(doc, D!Sub("char_size"), D!Number(size)),
               \A o \in D!SerialUints \ {"char_size"} : Holds(doc, D!Sub(o), D!Number(option))
        PROVE  D!Passes(D!ParserSerialConfig(doc))
    <2>1. /\ size \in 0 .. UIntMod - 1 /\ option \in 0 .. UIntMod - 1
      BY PortsAssumption DEF D!CharSizes
    <2>2. \A n \in 0 .. UIntMod - 1 : D!Is(D!Number(n), "uint") /\ D!Number(n).n = n
      BY Kinds
    <2>3. \A o \in D!SerialUints : D!Met(doc, {<<D!Sub(o), "uint">>})
      BY <1>4, <2>1, <2>2, NeedsMet
    <2>4. D!Met(doc, D!SerialConfigNeeds)
      BY <1>1, <2>3 DEF D!SerialConfigNeeds, D!Met
    <2>5. doc[D!Sub("char_size")].n = size
      BY <1>4, <2>1, <2>2 DEF Holds
    <2>6. {"stopbit", "parity", "flow_control"} \subseteq D!SerialUints \ {"char_size"}
      BY DEF D!SerialUints
    <2>7. /\ doc[D!Sub("stopbit")].n = option /\ doc[D!Sub("parity")].n = option
          /\ doc[D!Sub("flow_control")].n = option
      BY <1>4, <2>1, <2>2, <2>6 DEF Holds
    <2> DEFINE sized == D!Met(doc, D!SerialConfigNeeds) => doc[D!Sub("char_size")].n \in D!CharSizes
               rest == D!Met(doc, D!SerialConfigNeeds) =>
                           doc[D!Sub("stopbit")].n \in 0 .. 2 /\ doc[D!Sub("parity")].n \in 0 .. 2
                             /\ doc[D!Sub("flow_control")].n \in 0 .. 2
               size_phase == [reads |-> TRUE, met |-> sized]
    <2>8. sized /\ rest
      BY <2>5, <2>7
    <2>9. D!ParserSerialConfig(doc) =
             << D!Check(doc, D!DataObject), D!Check(doc, D!SerialConfigNeeds), D!Read(doc, D!SerialConfigNeeds),
                size_phase, D!Valid(rest) >>
      BY Zenon DEF D!ParserSerialConfig, sized, rest, size_phase
    <2> HIDE DEF sized, rest
    <2>10. /\ D!Check(doc, D!DataObject).met /\ D!Check(doc, D!SerialConfigNeeds).met
           /\ D!Read(doc, D!SerialConfigNeeds).met /\ size_phase.met /\ D!Valid(rest).met
      BY <1>1, <2>4, <2>8 DEF D!Check, D!Read, D!Valid
    <2> HIDE DEF size_phase
    <2> QED
      BY <2>9, <2>10, AllMet
  <1> QED
    BY <1>2, <1>3, <1>4

\* ... the members of "set", or "cancel" alone,
LEMMA MonitorPasses ==
    ASSUME NEW doc, Holds(doc, D!Data, D!Object)
    PROVE  /\ Holds(doc, D!Sub("type"), D!Text("cancel")) => D!Passes(D!ParserMonitor(doc))
           /\ /\ Holds(doc, D!Sub("type"), D!Text("set"))
              /\ Holds(doc, D!Sub("sample_time"), D!Number(1)) /\ Holds(doc, D!Sub("cont"), D!Bool)
              => D!Passes(D!ParserMonitor(doc))
PROOF
  <1>1. D!Met(doc, D!DataObject)
    BY Kinds, NeedsMet DEF D!DataObject
  <1>2. ASSUME NEW t, Holds(doc, D!Sub("type"), D!Text(t))
        PROVE  D!Met(doc, {<<D!Sub("type"), "string">>}) /\ \A k : D!MonitorTypeIs(doc, k) <=> k = t
    <2>1. D!Met(doc, {<<D!Sub("type"), "string">>})
      BY <1>2, Kinds, NeedsMet
    <2>2. doc[D!Sub("type")].s = t
      BY <1>2 DEF Holds, D!Text
    <2> QED
      BY <2>1, <2>2 DEF D!MonitorTypeIs
  <1>3. D!Met(doc, {})
    BY DEF D!Met
  <1>4. ASSUME Holds(doc, D!Sub("type"), D!Text("cancel")) PROVE D!Passes(D!ParserMonitor(doc))
    BY <1>1, <1>2, <1>3, <1>4, AllMet DEF D!ParserMonitor, D!Check, D!Read
  <1>5. ASSUME Holds(doc, D!Sub("type"), D!Text("set")),
               Holds(doc, D!Sub("sample_time"), D!Number(1)), Holds(doc, D!Sub("cont"), D!Bool)
        PROVE  D!Passes(D!ParserMonitor(doc))
    <2>1. D!Is(D!Number(1), "int") /\ D!Is(D!Bool, "bool")
      BY PortsAssumption DEF D!Is, D!Number, D!Bool, D!Other
    <2>2. D!Met(doc, {<<D!Sub("sample_time"), "int">>}) /\ D!Met(doc, {<<D!Sub("cont"), "bool">>})
      BY <1>5, <2>1, NeedsMet
    <2>3. D!Met(doc, D!MonitorNeeds)
      BY <2>2 DEF D!MonitorNeeds, D!Met
    <2> QED
      BY <1>1, <1>2, <1>5, <2>3, AllMet DEF D!ParserMonitor, D!Check, D!Read
  <1> QED
    BY <1>4, <1>5

\* ... or a type of text and a payload.
LEMMA EchoPasses ==
    ASSUME NEW doc, Doc(doc), Holds(doc, D!Data, D!Object), HoldsPayload(doc, D!Sub("data")),
           NEW type \in D!EchoTypes, Holds(doc, D!Sub("type"), D!Text(type))
    PROVE  D!Passes(D!ParserEcho(doc))
PROOF
  <1>1. D!Met(doc, D!DataObject) /\ D!Met(doc, {<<D!Sub("type"), "string">>})
    BY Kinds, NeedsMet DEF D!DataObject
  <1>2. D!Met(doc, {<<D!Sub("data"), "any">>}) /\ D!Met(doc, D!Bytes(doc, D!Sub("data")))
    <2>1. D!Is(D!Object, "any")
      BY DEF D!Is
    <2> QED
      BY <2>1, NeedsMet, Places, PayloadRead DEF HoldsPayload
  <1>3. D!Met(doc, {<<D!Sub("type"), "string">>, <<D!Sub("data"), "any">>})
    BY <1>1, <1>2 DEF D!Met
  <1>4. doc[D!Sub("type")].s \in D!EchoTypes
    BY DEF Holds, D!Text
  <1> QED
    BY <1>1, <1>2, <1>3, <1>4, AllMet DEF D!ParserEcho, D!Check, D!Read, D!Valid

-----------------------------------------------------------------------------
\* A message that closes what an entry shows is of its port.
LEMMA EntryCloses ==
    ASSUME NEW app, NEW entry, Doc(entry), NEW port \in Ports,
           HoldsEndpoint(entry, IF app \in D!Clients THEN <<"local">> ELSE <<>>, port)
    PROVE  D!ClosesPort(app, port, entry)
PROOF
  <1> DEFINE path == IF app \in D!Clients THEN <<"local">> ELSE <<>>
             shown == D!Part(entry, path)
             close == D!Below(D!Data, shown)
  <1>1. path \in Path /\ path \o <<>> = path
    BY Places, PathsJoin
  <1> HIDE DEF path
  <1>2. Doc(shown) /\ HoldsEndpoint(shown, <<>>, port)
    <2>1. HoldsEndpoint(entry, path, port)
      BY DEF path
    <2> QED
      BY <1>1, <2>1, Copied, EndpointMoves, Places
  <1> HIDE DEF shown
  <1>3. Doc(close) /\ HoldsEndpoint(close, D!Data, port)
    <2>1. D!Data \in Path /\ <<>> \in Path /\ D!Data \o <<>> = D!Data
      BY Places
    <2>2. HoldsEndpoint(close, D!Data \o <<>>, port)
      BY <1>2, <2>1, EndpointMoves
    <2> QED
      BY <1>2, <2>1, <2>2, Placed
  <1>4. close = D!CloseOf(app, entry)
    BY Zenon DEF D!CloseOf, path, shown
  <1> HIDE DEF close
  <1>5. D!Passes(D!ParserEndpoint(close)) /\ D!PortAt(close, D!Data) = port
    BY <1>3, EndpointPasses DEF HoldsEndpoint
  <1> QED
    BY <1>4, <1>5, Zenon DEF D!ClosesPort

\* A message that closes a client of an entry is of its port and its peer.
LEMMA EntryClosesClient ==
    ASSUME NEW entry, Doc(entry), NEW port \in Ports, NEW peer \in Ports,
           HoldsEndpoint(entry, <<>>, port), HoldsEndpoint(entry, <<"clients", "1">>, peer)
    PROVE  D!ClosesClient(port, peer, entry)
PROOF
  <1> DEFINE s == D!Below(<<"server">>, D!Part(entry, <<>>))
             c == D!Below(<<"client">>, D!Part(entry, <<"clients", "1">>))
             both == D!++(D!++(D!Empty, s), c)
             close == D!Below(D!Data, both)
  <1>1. /\ {"server", "client", "clients", "1"} \subseteq Key
        /\ <<>> \in Path /\ <<"server">> \in Path /\ <<"client">> \in Path /\ <<"clients", "1">> \in Path
        /\ <<>> \o <<>> = <<>> /\ <<"server">> \o <<>> = <<"server">> /\ <<"client">> \o <<>> = <<"client">>
        /\ <<"clients", "1">> \o <<>> = <<"clients", "1">>
        /\ <<"client">> # <<>> /\ Apart(<<"client">>, <<"server">>)
    BY Places, PathsJoin, KeysApart
  <1>2. /\ Doc(D!Part(entry, <<>>)) /\ HoldsEndpoint(D!Part(entry, <<>>), <<>>, port)
        /\ Doc(D!Part(entry, <<"clients", "1">>))
        /\ HoldsEndpoint(D!Part(entry, <<"clients", "1">>), <<>>, peer)
    BY <1>1, Copied, EndpointMoves
  <1>3. /\ Doc(s) /\ HoldsEndpoint(s, <<"server">>, port) /\ Clear(s, <<"client">>)
        /\ Doc(c) /\ HoldsEndpoint(c, <<"client">>, peer)
    BY <1>1, <1>2, Placed, EndpointMoves
  <1>4. close = D!CloseClientOf(entry)
    BY DEF D!CloseClientOf
  <1> HIDE DEF s, c
  <1>5. /\ Doc(D!++(D!Empty, s)) /\ Holds(D!++(D!Empty, s), <<>>, D!Object)
        /\ HoldsEndpoint(D!++(D!Empty, s), <<"server">>, port) /\ Clear(D!++(D!Empty, s), <<"client">>)
    BY <1>1, <1>3, EmptyHolds, Together, EndpointJoins, KeysApart
  <1>6. /\ Doc(both) /\ Holds(both, <<>>, D!Object)
        /\ HoldsEndpoint(both, <<"server">>, port) /\ HoldsEndpoint(both, <<"client">>, peer)
    BY <1>1, <1>3, <1>5, Together, EndpointJoins
  <1> HIDE DEF both
  <1>7. /\ Holds(close, D!Data, D!Object)
        /\ HoldsEndpoint(close, D!Sub("server"), port) /\ HoldsEndpoint(close, D!Sub("client"), peer)
    <2>1. /\ D!Data \in Path /\ D!Data \o <<>> = D!Data
          /\ D!Sub("server") = D!Data \o <<"server">> /\ D!Sub("client") = D!Data \o <<"client">>
      BY <1>1, Places
    <2>2. Holds(close, D!Data \o <<>>, D!Object)
      BY <1>1, <1>6, <2>1, Placed
    <2>3. /\ HoldsEndpoint(close, D!Data \o <<"server">>, port)
          /\ HoldsEndpoint(close, D!Data \o <<"client">>, peer)
      BY <1>1, <1>6, <2>1, EndpointMoves
    <2> QED
      BY <2>1, <2>2, <2>3
  <1> HIDE DEF close
  <1>8. /\ D!Passes(D!ParserCloseClients(close)) /\ D!PortAt(close, D!Sub("server")) = port
        /\ D!Narrowed(close, D!Sub("client")) = peer
    BY <1>7, CloseClientPasses
  <1> QED
    BY <1>4, <1>8, Zenon DEF D!ClosesClient

-----------------------------------------------------------------------------
\* An answer to what a client received names the connection.
LEMMA ClientAnswers ==
    ASSUME NEW app \in D!Clients, NEW received, Doc(received), NEW port \in Ports, NEW peer,
           HoldsEndpoint(received, <<"local">>, port)
    PROVE  D!AnswersPeer(app, port, peer, received)
PROOF
  <1> DEFINE l == D!Below(<<"local">>, D!Part(received, <<"local">>))
             named == D!++(D!Empty, l)
             all == D!++(named, D!Payload)
             answer == D!Below(D!Data, all)
  <1>1. /\ {"local", "data"} \subseteq Key
        /\ <<>> \in Path /\ <<"local">> \in Path /\ <<"data">> \in Path
        /\ <<"local">> \o <<>> = <<"local">>
        /\ <<"data">> # <<>> /\ <<"local">> # <<>> /\ Apart(<<"data">>, <<"local">>)
    BY Places, PathsJoin, KeysApart
  <1>2. /\ D!Data \in Path /\ D!Data \o <<>> = D!Data
        /\ D!Sub("local") = D!Data \o <<"local">> /\ D!Sub("data") = D!Data \o <<"data">>
        /\ D!Sub("local") \in Path /\ D!Sub("data") \in Path
    BY <1>1, Places
  <1>3. Doc(D!Part(received, <<"local">>)) /\ HoldsEndpoint(D!Part(received, <<"local">>), <<>>, port)
    BY <1>1, Copied, EndpointMoves
  <1>4. Doc(l) /\ HoldsEndpoint(l, <<"local">>, port) /\ Clear(l, <<"data">>)
    BY <1>1, <1>3, Placed, EndpointMoves
  <1>5. answer = D!AnswerTo(app, received)
    BY DEF D!AnswerTo
  <1> HIDE DEF l
  <1>6. /\ Doc(named) /\ Holds(named, <<>>, D!Object)
        /\ HoldsEndpoint(named, <<"local">>, port) /\ Clear(named, <<"data">>)
    BY <1>1, <1>4, EmptyHolds, Together, EndpointJoins
  <1> HIDE DEF named
  <1>7. /\ Doc(all) /\ Holds(all, <<>>, D!Object)
        /\ HoldsEndpoint(all, <<"local">>, port) /\ HoldsPayload(all, <<"data">>)
    BY <1>1, <1>6, PayloadMade, Together, EndpointJoins, PayloadMoves
  <1> HIDE DEF all
  <1>8. Doc(answer) /\ Holds(answer, D!Data, D!Object)
    <2>1. Doc(answer) /\ Holds(answer, D!Data \o <<>>, D!Object)
      BY <1>1, <1>2, <1>7, Placed
    <2> QED
      BY <1>2, <2>1
  <1>9. HoldsEndpoint(answer, D!Sub("local"), port)
    <2>1. HoldsEndpoint(answer, D!Data \o <<"local">>, port)
      BY <1>1, <1>2, <1>7, EndpointMoves
    <2> QED
      BY <1>2, <2>1
  <1>10. HoldsPayload(answer, D!Sub("data"))
    <2>1. HoldsPayload(answer, D!Data \o <<"data">>)
      BY <1>1, <1>2, <1>7, PayloadMoves
    <2> QED
      BY <1>2, <2>1
  <1> HIDE DEF answer
  <1>11. D!Passes(D!ParserClientData(answer)) /\ D!PortAt(answer, D!Sub("local")) = port
    BY <1>8, <1>9, <1>10, ClientDataPasses
  <1> QED
    BY <1>5, <1>11, Zenon DEF D!AnswersPeer

\* An answer to what a server received comes from it and goes to the one who sent it.
LEMMA ServerAnswers ==
    ASSUME NEW app, app \notin D!Clients, NEW received, Doc(received),
           NEW port \in Ports, NEW peer \in Ports,
           HoldsEndpoint(received, <<"to">>, port), HoldsEndpoint(received, <<"from">>, peer)
    PROVE  D!AnswersPeer(app, port, peer, received)
PROOF
  <1> DEFINE f == D!Below(<<"from">>, D!Part(received, <<"to">>))
             t == D!Member(<<"to">>, D!Array)
             c == D!Below(<<"to", "1">>, D!Part(received, <<"from">>))
             sent == D!++(D!Empty, f)
             said == D!++(sent, D!Payload)
             list == D!++(said, t)
             all == D!++(list, c)
             answer == D!Below(D!Data, all)
  <1>1. /\ {"from", "to", "data", "1", "2"} \subseteq Key
        /\ <<>> \in Path /\ <<"from">> \in Path /\ <<"to">> \in Path /\ <<"data">> \in Path
        /\ <<"to", "1">> \in Path /\ <<"to", "2">> \in Path
        /\ <<"from">> \o <<>> = <<"from">> /\ <<"to">> \o <<>> = <<"to">>
        /\ <<"to", "1">> \o <<>> = <<"to", "1">>
    BY Places, PathsJoin
  <1>2. /\ <<"from">> # <<>> /\ <<"to">> # <<>> /\ <<"data">> # <<>> /\ <<"to", "1">> # <<>> /\ <<"to", "2">> # <<>>
        /\ Apart(<<"data">>, <<"from">>) /\ Apart(<<"to">>, <<"from">>)
        /\ Apart(<<"to", "1">>, <<"from">>) /\ Apart(<<"to", "2">>, <<"from">>)
        /\ Apart(<<"to", "2">>, <<"to", "1">>)
    BY <1>1, KeysApart
  <1>3. /\ <<"to">>[1] # "data" /\ <<"to", "1">>[1] # "data" /\ <<"to", "2">>[1] # "data"
        /\ Len(<<"to">>) < Len(<<"to", "1">>) /\ Len(<<"to">>) < Len(<<"to", "2">>)
    OBVIOUS
  <1>4. /\ D!Data \in Path /\ D!Data \o <<>> = D!Data
        /\ D!Sub("from") = D!Data \o <<"from">> /\ D!Sub("data") = D!Data \o <<"data">>
        /\ D!Sub("to") = D!Data \o <<"to">>
        /\ D!Sub("from") \in Path /\ D!Sub("data") \in Path /\ D!Sub("to") \in Path
        /\ <<"data", "to", "1">> \in Path
        /\ <<"data", "to", "1">> = D!Data \o <<"to", "1">> /\ <<"data", "to", "2">> = D!Data \o <<"to", "2">>
        /\ D!Sub("to") \o <<"1">> = <<"data", "to", "1">> /\ D!Sub("to") \o <<"2">> = <<"data", "to", "2">>
    <2>1. {"from", "to", "data", "1", "2"} \subseteq Key
      BY <1>1
    <2> QED
      BY <2>1, Places
  <1>5. /\ Doc(D!Part(received, <<"to">>)) /\ HoldsEndpoint(D!Part(received, <<"to">>), <<>>, port)
        /\ Doc(D!Part(received, <<"from">>)) /\ HoldsEndpoint(D!Part(received, <<"from">>), <<>>, peer)
    BY <1>1, Copied, EndpointMoves
  <1>6. /\ Doc(f) /\ HoldsEndpoint(f, <<"from">>, port)
        /\ Clear(f, <<"data">>) /\ Clear(f, <<"to">>) /\ Clear(f, <<"to", "1">>) /\ Clear(f, <<"to", "2">>)
    BY <1>1, <1>2, <1>5, Placed, EndpointMoves
  <1>7. /\ Doc(t) /\ Holds(t, <<"to">>, D!Array) /\ Clear(t, <<"to", "1">>) /\ Clear(t, <<"to", "2">>)
    BY <1>1, <1>3, Alone
  <1>8. /\ Doc(c) /\ HoldsEndpoint(c, <<"to", "1">>, peer) /\ Clear(c, <<"to", "2">>)
    BY <1>1, <1>2, <1>5, Placed, EndpointMoves
  <1>9. answer = D!AnswerTo(app, received)
    BY DEF D!AnswerTo
  <1> HIDE DEF f, t, c
  <1>10. /\ Doc(sent) /\ Holds(sent, <<>>, D!Object) /\ HoldsEndpoint(sent, <<"from">>, port)
         /\ Clear(sent, <<"data">>) /\ Clear(sent, <<"to">>)
         /\ Clear(sent, <<"to", "1">>) /\ Clear(sent, <<"to", "2">>)
    BY <1>1, <1>2, <1>6, EmptyHolds, Together, EndpointJoins
  <1> HIDE DEF sent
  <1>11. /\ Doc(D!Payload) /\ HoldsPayload(D!Payload, <<"data">>)
         /\ Clear(D!Payload, <<"to">>) /\ Clear(D!Payload, <<"to", "1">>) /\ Clear(D!Payload, <<"to", "2">>)
    BY <1>1, <1>2, <1>3, PayloadMade
  <1>12. /\ Doc(said) /\ Holds(said, <<>>, D!Object) /\ HoldsEndpoint(said, <<"from">>, port)
         /\ HoldsPayload(said, <<"data">>)
         /\ Clear(said, <<"to">>) /\ Clear(said, <<"to", "1">>) /\ Clear(said, <<"to", "2">>)
    BY <1>1, <1>10, <1>11, Together, EndpointJoins, PayloadMoves
  <1> HIDE DEF said
  <1>13. <<"to">> \notin DOMAIN said /\ Clear(t, <<"data">>)
    <2>1. <<"to">> \notin DOMAIN said
      BY <1>1, <1>12 DEF Clear
    <2>2. Apart(<<"data">>, <<"to">>)
      BY <1>1, KeysApart
    <2> QED
      BY <1>1, <2>1, <2>2, Alone DEF t
  <1>14. /\ Doc(list) /\ Holds(list, <<>>, D!Object) /\ HoldsEndpoint(list, <<"from">>, port)
         /\ HoldsPayload(list, <<"data">>) /\ Holds(list, <<"to">>, D!Array)
         /\ Clear(list, <<"to", "1">>) /\ Clear(list, <<"to", "2">>)
    BY <1>1, <1>7, <1>12, <1>13, Together, EndpointJoins, PayloadMoves
  <1> HIDE DEF list
  <1>15. Clear(c, <<"data">>)
    <2>1. Apart(<<"data">>, <<"to", "1">>)
      BY <1>1, KeysApart
    <2> QED
      BY <1>1, <1>5, <2>1, Placed DEF c
  <1>16. /\ Doc(all) /\ Holds(all, <<>>, D!Object) /\ HoldsEndpoint(all, <<"from">>, port)
         /\ HoldsPayload(all, <<"data">>) /\ Holds(all, <<"to">>, D!Array)
         /\ HoldsEndpoint(all, <<"to", "1">>, peer) /\ Clear(all, <<"to", "2">>)
    BY <1>1, <1>8, <1>14, <1>15, Together, EndpointJoins, PayloadMoves
  <1> HIDE DEF all
  <1>17. Doc(answer) /\ Holds(answer, D!Data, D!Object) /\ Holds(answer, D!Sub("to"), D!Array)
    <2>1. /\ Doc(answer) /\ Holds(answer, D!Data \o <<>>, D!Object)
          /\ Holds(answer, D!Data \o <<"to">>, D!Array)
      BY <1>1, <1>4, <1>16, Placed
    <2> QED
      BY <1>4, <2>1
  <1>18. HoldsEndpoint(answer, D!Sub("from"), port) /\ HoldsEndpoint(answer, <<"data", "to", "1">>, peer)
    <2>1. /\ HoldsEndpoint(answer, D!Data \o <<"from">>, port)
          /\ HoldsEndpoint(answer, D!Data \o <<"to", "1">>, peer)
      BY <1>1, <1>4, <1>16, EndpointMoves
    <2> QED
      BY <1>4, <2>1
  <1>19. HoldsPayload(answer, D!Sub("data"))
    <2>1. HoldsPayload(answer, D!Data \o <<"data">>)
      BY <1>1, <1>4, <1>16, PayloadMoves
    <2> QED
      BY <1>4, <2>1
  <1>20. <<"data", "to", "2">> \notin DOMAIN answer
    <2>1. Clear(answer, D!Data \o <<"to", "2">>)
      BY <1>1, <1>4, <1>16, Placed
    <2>2. D!Data \o <<"to", "2">> \in Path
      BY <1>1, <1>4, PathsJoin
    <2>3. (D!Data \o <<"to", "2">>) \o <<>> \notin DOMAIN answer
      BY <1>1, <2>1 DEF Clear
    <2> QED
      BY <1>4, <2>2, <2>3, PathsJoin
  <1> HIDE DEF answer
  <1>21. /\ D!Passes(D!ParserServerData(answer)) /\ D!PortAt(answer, D!Sub("from")) = port
         /\ D!PortAt(answer, <<"data", "to", "1">>) = peer
    BY <1>17, <1>18, <1>19, <1>20, ServerDataPasses
  <1> QED
    BY <1>9, <1>21, Zenon DEF D!AnswersPeer

-----------------------------------------------------------------------------
\* What the makers of entries and of received data put below a path, or beside it.
LEMMA EndpointBelow ==
    ASSUME NEW path \in Path, NEW port
    PROVE  /\ Doc(D!Below(path, D!Endpoint(port)))
           /\ HoldsEndpoint(D!Below(path, D!Endpoint(port)), path, port)
           /\ \A q \in Path : Apart(q, path) => Clear(D!Below(path, D!Endpoint(port)), q)
PROOF
  <1>1. <<>> \in Path /\ path \o <<>> = path
    BY Paths, PathsJoin
  <1> QED
    BY <1>1, EndpointMade, EndpointMoves, Placed

LEMMA SmallMembers ==
    /\ Doc(D!Secure("plain")) /\ Doc(D!Member(<<"clients">>, D!Array)) /\ Doc(D!ByteArray)
    /\ \A q \in Path : q # <<>> /\ q[1] # "secure" => Clear(D!Secure("plain"), q)
    /\ Clear(D!Member(<<"clients">>, D!Array), <<"clients", "1">>)
PROOF
  <1>1. "secure" \in Key /\ "clients" \in Key /\ "1" \in Key /\ "data" \in Key
    BY DEF Key
  <1>2. /\ <<"secure">> \in Path /\ <<"clients">> \in Path /\ <<"clients", "1">> \in Path
        /\ <<"data">> \in Path /\ <<"data", "1">> \in Path
        /\ Len(<<"clients">>) < Len(<<"clients", "1">>)
        /\ <<"secure">>[1] = "secure" /\ <<"secure">> # <<>>
    BY <1>1, Paths
  <1>3. /\ Doc(D!Secure("plain"))
        /\ \A q \in Path : Apart(q, <<"secure">>) => Clear(D!Secure("plain"), q)
    BY <1>2, Alone DEF D!Secure
  <1>4. \A q \in Path : q # <<>> /\ q[1] # "secure" => Apart(q, <<"secure">>)
    BY <1>2, KeysApart
  <1>5. /\ Doc(D!Member(<<"clients">>, D!Array))
        /\ Clear(D!Member(<<"clients">>, D!Array), <<"clients", "1">>)
    BY <1>2, Alone
  <1>6. Doc(D!ByteArray)
    BY <1>2, Alone, Together DEF D!ByteArray
  <1> QED
    BY <1>3, <1>4, <1>5, <1>6

\* Where the makers put the endpoints.
LEMMA EntriesHold ==
    ASSUME NEW port, NEW peer
    PROVE  /\ \A app \in D!EndpointApps :
                 /\ Doc(D!EntryOf(app, port, peer))
                 /\ HoldsEndpoint(D!EntryOf(app, port, peer),
                                  IF app \in D!Clients THEN <<"local">> ELSE <<>>, port)
           /\ HoldsEndpoint(D!EntryOf("tcp_server", port, peer), <<"clients", "1">>, peer)
PROOF
  <1> DEFINE e == D!Endpoint(port)
             s == D!Secure("plain")
             m == D!Member(<<"clients">>, D!Array)
             c == D!Below(<<"clients", "1">>, D!Endpoint(peer))
             l == D!Below(<<"local">>, D!Endpoint(port))
             r == D!Below(<<"remote">>, D!Endpoint(peer))
             es == D!++(e, s)
             esm == D!++(es, m)
             os == D!++(D!Empty, s)
             ol == D!++(D!Empty, l)
             osl == D!++(os, l)
  <1>1. /\ {"clients", "1", "local", "remote"} \subseteq Key
        /\ <<>> \in Path /\ <<"clients", "1">> \in Path /\ <<"local">> \in Path /\ <<"remote">> \in Path
        /\ <<"clients", "1">> # <<>> /\ <<"local">> # <<>>
        /\ <<"clients", "1">>[1] = "clients" /\ <<"local">>[1] = "local"
    <2>1. {"clients", "1", "local", "remote"} \subseteq Key
      BY Places
    <2> QED
      BY <2>1, Paths, KeysApart
  <1>2. /\ Doc(e) /\ HoldsEndpoint(e, <<>>, port) /\ Clear(e, <<"clients", "1">>)
        /\ Doc(s) /\ Clear(s, <<"clients", "1">>) /\ Clear(s, <<"local">>)
        /\ Doc(m) /\ Clear(m, <<"clients", "1">>)
    BY <1>1, EndpointMade, SmallMembers
  <1>3. /\ Doc(c) /\ HoldsEndpoint(c, <<"clients", "1">>, peer)
        /\ Doc(l) /\ HoldsEndpoint(l, <<"local">>, port) /\ Doc(r)
    BY <1>1, EndpointBelow
  <1>4. D!EntryOf("tcp_server", port, peer) = D!++(esm, c)
    BY DEF D!EntryOf, D!TcpServerEntry
  <1>5. D!EntryOf("udp_server", port, peer) = e
    BY DEF D!EntryOf, D!UdpServerEntry
  <1>6. D!EntryOf("tcp_client", port, peer) = D!++(osl, r)
    BY DEF D!EntryOf, D!TcpClientEntry
  <1>7. D!EntryOf("udp_client", port, peer) = D!++(ol, r)
    BY DEF D!EntryOf, D!UdpClientEntry
  <1> HIDE DEF e, s, m, c, l, r
  <1>8. Doc(es) /\ HoldsEndpoint(es, <<>>, port) /\ Clear(es, <<"clients", "1">>)
    BY <1>1, <1>2, Together, EndpointJoins
  <1> HIDE DEF es
  <1>9. Doc(esm) /\ HoldsEndpoint(esm, <<>>, port) /\ Clear(esm, <<"clients", "1">>)
    BY <1>1, <1>2, <1>8, Together, EndpointJoins
  <1> HIDE DEF esm
  <1>10. /\ Doc(D!EntryOf("tcp_server", port, peer))
         /\ HoldsEndpoint(D!EntryOf("tcp_server", port, peer), <<>>, port)
         /\ HoldsEndpoint(D!EntryOf("tcp_server", port, peer), <<"clients", "1">>, peer)
    BY <1>1, <1>3, <1>4, <1>9, Together, EndpointJoins
  <1>11. Doc(os) /\ Clear(os, <<"local">>)
    BY <1>1, <1>2, EmptyHolds, Together
  <1>12. Doc(ol) /\ HoldsEndpoint(ol, <<"local">>, port)
    BY <1>1, <1>3, EmptyHolds, Together, EndpointJoins
  <1> HIDE DEF os, ol
  <1>13. Doc(osl) /\ HoldsEndpoint(osl, <<"local">>, port)
    BY <1>1, <1>3, <1>11, Together, EndpointJoins
  <1> HIDE DEF osl
  <1>14. /\ Doc(D!EntryOf("tcp_client", port, peer))
         /\ HoldsEndpoint(D!EntryOf("tcp_client", port, peer), <<"local">>, port)
    BY <1>1, <1>3, <1>6, <1>13, Together, EndpointJoins
  <1>15. /\ Doc(D!EntryOf("udp_client", port, peer))
         /\ HoldsEndpoint(D!EntryOf("udp_client", port, peer), <<"local">>, port)
    BY <1>1, <1>3, <1>7, <1>12, Together, EndpointJoins
  <1> QED
    BY <1>2, <1>5, <1>10, <1>14, <1>15 DEF D!EndpointApps, D!Clients

LEMMA ReceivedHold ==
    ASSUME NEW port, NEW peer
    PROVE  \A app \in D!EndpointApps :
              /\ Doc(D!ReceivedBy(app, port, peer))
              /\ app \in D!Clients => HoldsEndpoint(D!ReceivedBy(app, port, peer), <<"local">>, port)
              /\ app \notin D!Clients =>
                    /\ HoldsEndpoint(D!ReceivedBy(app, port, peer), <<"to">>, port)
                    /\ HoldsEndpoint(D!ReceivedBy(app, port, peer), <<"from">>, peer)
PROOF
  <1> DEFINE b == D!ByteArray
             l == D!Below(<<"local">>, D!Endpoint(port))
             f == D!Below(<<"from">>, D!Endpoint(peer))
             t == D!Below(<<"to">>, D!Endpoint(port))
             ol == D!++(D!Empty, l)
             of == D!++(D!Empty, f)
             oft == D!++(of, t)
  <1>1. /\ {"local", "from", "to"} \subseteq Key
        /\ <<"local">> \in Path /\ <<"from">> \in Path /\ <<"to">> \in Path
        /\ <<"local">> # <<>> /\ <<"from">> # <<>> /\ <<"to">> # <<>>
        /\ Apart(<<"to">>, <<"from">>)
    BY Places, KeysApart
  <1>2. /\ Doc(l) /\ HoldsEndpoint(l, <<"local">>, port)
        /\ Doc(f) /\ HoldsEndpoint(f, <<"from">>, peer) /\ Clear(f, <<"to">>)
        /\ Doc(t) /\ HoldsEndpoint(t, <<"to">>, port) /\ Doc(b)
    BY <1>1, EndpointBelow, SmallMembers
  <1>3. D!TcpServerReceived(peer, port) = D!++(oft, b) /\ D!UdpServerReceived(port, peer) = D!++(oft, b)
    BY DEF D!TcpServerReceived, D!UdpServerReceived
  <1>4. D!TcpClientReceived(port) = D!++(ol, b) /\ D!UdpClientReceived(port) = D!++(ol, b)
    BY DEF D!TcpClientReceived, D!UdpClientReceived
  <1> HIDE DEF l, f, t, b
  <1>5. /\ Doc(ol) /\ HoldsEndpoint(ol, <<"local">>, port)
        /\ Doc(of) /\ HoldsEndpoint(of, <<"from">>, peer) /\ Clear(of, <<"to">>)
    BY <1>1, <1>2, EmptyHolds, Together, EndpointJoins
  <1> HIDE DEF ol, of
  <1>6. Doc(oft) /\ HoldsEndpoint(oft, <<"from">>, peer) /\ HoldsEndpoint(oft, <<"to">>, port)
    BY <1>1, <1>2, <1>5, Together, EndpointJoins
  <1> HIDE DEF oft
  <1>7. /\ Doc(D!++(ol, b)) /\ HoldsEndpoint(D!++(ol, b), <<"local">>, port)
        /\ Doc(D!++(oft, b))
        /\ HoldsEndpoint(D!++(oft, b), <<"from">>, peer) /\ HoldsEndpoint(D!++(oft, b), <<"to">>, port)
    BY <1>1, <1>2, <1>5, <1>6, Together, EndpointJoins
  <1>8. /\ D!ReceivedBy("tcp_server", port, peer) = D!++(oft, b)
        /\ D!ReceivedBy("udp_server", port, peer) = D!++(oft, b)
        /\ D!ReceivedBy("tcp_client", port, peer) = D!++(ol, b)
        /\ D!ReceivedBy("udp_client", port, peer) = D!++(ol, b)
    BY <1>3, <1>4 DEF D!ReceivedBy
  <1> QED
    BY <1>7, <1>8 DEF D!EndpointApps, D!Clients

\* Every entry and all that is received can be used.
LEMMA EndpointsCanBeUsed ==
    ASSUME NEW app \in D!EndpointApps, NEW port \in Ports, NEW peer \in Ports
    PROVE  /\ D!ClosesPort(app, port, D!EntryOf(app, port, peer))
           /\ app = "tcp_server" => D!ClosesClient(port, peer, D!EntryOf(app, port, peer))
           /\ D!AnswersPeer(app, port, peer, D!ReceivedBy(app, port, peer))
PROOF
  <1>1. D!ClosesPort(app, port, D!EntryOf(app, port, peer))
    BY EntriesHold, EntryCloses
  <1>2. ASSUME app = "tcp_server"
        PROVE  D!ClosesClient(port, peer, D!EntryOf(app, port, peer))
    <2>1. app \notin D!Clients
      BY <1>2 DEF D!Clients
    <2>2. /\ Doc(D!EntryOf(app, port, peer)) /\ HoldsEndpoint(D!EntryOf(app, port, peer), <<>>, port)
          /\ HoldsEndpoint(D!EntryOf(app, port, peer), <<"clients", "1">>, peer)
      BY <1>2, <2>1, EntriesHold
    <2> QED
      BY <2>2, EntryClosesClient
  <1>3. D!AnswersPeer(app, port, peer, D!ReceivedBy(app, port, peer))
    <2>1. CASE app \in D!Clients
      BY <2>1, ReceivedHold, ClientAnswers
    <2>2. CASE app \notin D!Clients
      BY <2>2, ReceivedHold, ServerAnswers
    <2> QED
      BY <2>1, <2>2
  <1> QED
    BY <1>1, <1>2, <1>3

-----------------------------------------------------------------------------
\* The entry of a serial port names it, and so does what it receives.
LEMMA SerialHolds ==
    /\ Doc(D!SerialEntry("tty")) /\ Holds(D!SerialEntry("tty"), <<>>, D!Object)
    /\ Holds(D!SerialEntry("tty"), <<"port">>, D!Text("tty"))
    /\ Doc(D!SerialReceived("tty")) /\ Holds(D!SerialReceived("tty"), <<>>, D!Object)
    /\ Holds(D!SerialReceived("tty"), <<"port">>, D!Text("tty"))
    /\ \A q \in Path : q # <<>> /\ <<"data">> \o q \in DOMAIN D!SerialReceived("tty") =>
          D!SerialReceived("tty")[<<"data">> \o q] = D!Number(0)
PROOF
  <1> DEFINE e == D!Empty
             n == D!Member(<<"port">>, D!Text("tty"))
             o == D!Member(<<"open">>, D!Bool)
             c == D!Member(<<"config">>, D!Object)
             f == [p \in {<<"config", k>> : k \in D!SerialUints \ {"fc_start", "fc_stop"}} |-> D!Number(8)]
             x == D!Member(<<"data">>, D!Array)
             y == D!Member(<<"data", "1">>, D!Number(0))
             b == D!ByteArray
             en == D!++(e, n)
             eno == D!++(en, o)
             enoc == D!++(eno, c)
             r == D!++(en, b)
  <1>1. /\ {"port", "open", "config", "data", "1"} \subseteq Key /\ D!SerialUints \subseteq Key
    BY DEF Key, D!SerialUints
  <1>2. /\ <<>> \in Path /\ <<"port">> \in Path /\ <<"open">> \in Path /\ <<"config">> \in Path
        /\ <<"data">> \in Path /\ <<"data", "1">> \in Path
        /\ \A k \in D!SerialUints : <<"config", k>> \in Path
        /\ Len(<<>>) = 0 /\ Len(<<"port">>) = 1 /\ Len(<<"data">>) = 1 /\ Len(<<"data", "1">>) = 2
    BY <1>1, Paths
  <1>3. Doc(e) /\ Holds(e, <<>>, D!Object) /\ DOMAIN e = {<<>>}
    BY EmptyHolds DEF D!Empty, D!Member
  <1>4. /\ Doc(n) /\ Holds(n, <<"port">>, D!Text("tty")) /\ DOMAIN n = {<<"port">>}
        /\ Doc(o) /\ Doc(c) /\ Doc(x) /\ Doc(y)
    <2>1. DOMAIN n = {<<"port">>}
      BY DEF D!Member
    <2> QED
      BY <1>2, <2>1, Alone
  <1>5. Doc(f)
    BY <1>2 DEF Doc
  <1>6. /\ D!SerialEntry("tty") = D!++(enoc, f) /\ D!SerialReceived("tty") = r /\ b = D!++(x, y)
    BY DEF D!SerialEntry, D!SerialReceived, D!ByteArray
  <1>7. DOMAIN x = {<<"data">>} /\ DOMAIN y = {<<"data", "1">>} /\ y[<<"data", "1">>] = D!Number(0)
    BY DEF D!Member
  <1> HIDE DEF e, n, o, c, f, x, y, b
  <1>8. <<"port">> \notin DOMAIN e
    BY <1>2, <1>3
  <1>9. /\ Doc(en) /\ Holds(en, <<>>, D!Object) /\ Holds(en, <<"port">>, D!Text("tty"))
        /\ DOMAIN en = {<<>>, <<"port">>}
    <2>1. DOMAIN en = DOMAIN e \union DOMAIN n
      BY DEF D!++
    <2> QED
      BY <1>3, <1>4, <1>8, <2>1, Together
  <1> HIDE DEF en
  <1>10. Doc(eno) /\ Holds(eno, <<>>, D!Object) /\ Holds(eno, <<"port">>, D!Text("tty"))
    BY <1>4, <1>9, Together
  <1> HIDE DEF eno
  <1>11. Doc(enoc) /\ Holds(enoc, <<>>, D!Object) /\ Holds(enoc, <<"port">>, D!Text("tty"))
    BY <1>4, <1>10, Together
  <1> HIDE DEF enoc
  <1>12. /\ Doc(D!SerialEntry("tty")) /\ Holds(D!SerialEntry("tty"), <<>>, D!Object)
         /\ Holds(D!SerialEntry("tty"), <<"port">>, D!Text("tty"))
    BY <1>5, <1>6, <1>11, Together
  <1>13. /\ Doc(b) /\ DOMAIN b = {<<"data">>, <<"data", "1">>} /\ b[<<"data", "1">>] = D!Number(0)
    <2>1. <<"data">> # <<"data", "1">>
      BY <1>2
    <2>2. Doc(b)
      BY <1>4, <1>6, Together
    <2> QED
      BY <1>6, <1>7, <2>1, <2>2 DEF D!++
  <1>14. /\ Doc(r) /\ Holds(r, <<>>, D!Object) /\ Holds(r, <<"port">>, D!Text("tty"))
    BY <1>9, <1>13, Together
  <1>15. ASSUME NEW q \in Path, q # <<>>, <<"data">> \o q \in DOMAIN r
         PROVE  r[<<"data">> \o q] = D!Number(0)
    <2>1. Len(q) \in Nat /\ Len(q) > 0
      BY <1>15, EmptySeq DEF Path
    <2>2. Len(<<"data">> \o q) = 1 + Len(q)
      BY <1>2, PathsJoin
    <2>3. <<"data">> \o q \notin {<<>>, <<"port">>, <<"data">>}
      <3>1. Len(<<"data">> \o q) # 0 /\ Len(<<"data">> \o q) # 1
        BY <2>1, <2>2
      <3> QED
        BY <1>2, <3>1
    <2>4. <<"data">> \o q = <<"data", "1">> /\ <<"data", "1">> \notin DOMAIN en
      BY <1>9, <1>13, <1>15, <2>3 DEF D!++
    <2> QED
      BY <1>13, <2>4 DEF D!++
  <1> QED
    BY <1>6, <1>12, <1>14, <1>15

\* A serial port that is shown can be closed.
LEMMA SerialCloses == D!Passes(D!ParserSerialClose(D!CloseOf("serial", D!SerialEntry("tty"))))
PROOF
  <1> DEFINE path == <<>>
             shown == D!Part(D!SerialEntry("tty"), path)
             close == D!Below(D!Data, shown)
  <1>1. /\ "port" \in Key /\ <<>> \in Path /\ <<"port">> \in Path
        /\ <<>> \o <<>> = <<>> /\ <<>> \o <<"port">> = <<"port">>
        /\ D!Data \in Path /\ D!Data \o <<>> = D!Data /\ D!Sub("port") = D!Data \o <<"port">>
    BY Places, PathsJoin
  <1>2. Doc(shown) /\ Holds(shown, <<>>, D!Object) /\ Holds(shown, <<"port">>, D!Text("tty"))
    <2>1. /\ Holds(D!SerialEntry("tty"), <<>> \o <<>>, D!Object)
          /\ Holds(D!SerialEntry("tty"), <<>> \o <<"port">>, D!Text("tty"))
      BY <1>1, SerialHolds
    <2> QED
      BY <1>1, <2>1, SerialHolds, Copied
  <1>3. close = D!CloseOf("serial", D!SerialEntry("tty"))
    <2>1. "serial" \notin D!Clients
      BY DEF D!Clients
    <2> QED
      BY <2>1, Zenon DEF D!CloseOf
  <1> HIDE DEF shown
  <1>4. /\ Doc(close) /\ Holds(close, D!Data, D!Object)
        /\ Holds(close, D!Sub("port"), D!Text("tty"))
    <2>1. /\ Doc(close) /\ Holds(close, D!Data \o <<>>, D!Object)
          /\ Holds(close, D!Data \o <<"port">>, D!Text("tty"))
      BY <1>1, <1>2, Placed
    <2> QED
      BY <1>1, <2>1
  <1> HIDE DEF close
  <1>5. D!Passes(D!ParserSerialClose(close))
    BY <1>4, SerialPasses
  <1> QED
    BY <1>3, <1>5

\* What it received can be answered.
LEMMA SerialAnswers ==
    D!Passes(D!ParserSerialData(D!Below(D!Data, D!++(D!Payload, D!SerialReceived("tty")))))
PROOF
  <1> DEFINE w == D!Payload
             r == D!SerialReceived("tty")
             both == D!++(w, r)
             answer == D!Below(D!Data, both)
  <1>1. /\ {"port", "data"} \subseteq Key /\ <<>> \in Path /\ <<"port">> \in Path /\ <<"data">> \in Path
        /\ <<"port">> # <<>> /\ <<"port">>[1] # "data"
        /\ <<>> \o <<>> = <<>> /\ <<"port">> \o <<>> = <<"port">>
        /\ D!Data \in Path /\ D!Data \o <<>> = D!Data
        /\ D!Sub("port") = D!Data \o <<"port">> /\ D!Sub("data") = D!Data \o <<"data">>
        /\ D!Sub("data") \in Path
    <2>1. {"port", "data"} \subseteq Key /\ <<>> \in Path /\ D!Data \in Path /\ D!Data \o <<>> = D!Data
      BY Places
    <2>2. /\ <<"port">> \in Path /\ D!Sub("port") = D!Data \o <<"port">>
          /\ <<"data">> \in Path /\ D!Sub("data") = D!Data \o <<"data">> /\ D!Sub("data") \in Path
      BY <2>1, Places
    <2>3. <<>> \o <<>> = <<>> /\ <<"port">> \o <<>> = <<"port">>
      BY <2>1, <2>2, PathsJoin
    <2>4. <<"port">> # <<>> /\ <<"port">>[1] # "data"
      OBVIOUS
    <2> QED
      BY <2>1, <2>2, <2>3, <2>4
  <1>2. Doc(w) /\ HoldsPayload(w, <<"data">>) /\ Clear(w, <<"port">>)
    BY <1>1, PayloadMade
  <1>3. <<>> \notin DOMAIN w /\ <<"port">> \notin DOMAIN w
    <2>1. DOMAIN w = {<<"data">>, <<"data", "1">>}
      BY DEF D!Payload, D!Member, D!++
    <2> QED
      BY <2>1
  <1>4. /\ Doc(r) /\ Holds(r, <<>>, D!Object) /\ Holds(r, <<"port">>, D!Text("tty"))
        /\ \A q \in Path : q # <<>> /\ <<"data">> \o q \in DOMAIN r => r[<<"data">> \o q] = D!Number(0)
    BY SerialHolds
  <1> HIDE DEF w, r
  <1>5. /\ DOMAIN both = DOMAIN w \union DOMAIN r
        /\ \A p \in DOMAIN w : both[p] = w[p]
        /\ \A p \in DOMAIN r \ DOMAIN w : both[p] = r[p]
    BY DEF D!++
  <1>6. Doc(both) /\ Holds(both, <<>>, D!Object) /\ Holds(both, <<"port">>, D!Text("tty"))
    BY <1>2, <1>3, <1>4, Together
  <1>7. HoldsPayload(both, <<"data">>)
    <2>1. Holds(both, <<"data">>, D!Object)
      BY <1>2, Together DEF HoldsPayload
    <2>2. \A q \in Path : q # <<>> /\ <<"data">> \o q \in DOMAIN both => both[<<"data">> \o q] = D!Number(0)
      BY <1>2, <1>4, <1>5 DEF HoldsPayload
    <2> QED
      BY <2>1, <2>2 DEF HoldsPayload
  <1> HIDE DEF both
  <1>8. /\ Doc(answer) /\ Holds(answer, D!Data, D!Object) /\ Holds(answer, D!Sub("port"), D!Text("tty"))
        /\ HoldsPayload(answer, D!Sub("data"))
    <2>1. /\ Doc(answer) /\ Holds(answer, D!Data \o <<>>, D!Object)
          /\ Holds(answer, D!Data \o <<"port">>, D!Text("tty"))
      BY <1>1, <1>6, Placed
    <2>2. HoldsPayload(answer, D!Data \o <<"data">>)
      BY <1>1, <1>6, <1>7, PayloadMoves
    <2> QED
      BY <1>1, <2>1, <2>2
  <1> HIDE DEF answer
  <1>9. D!Passes(D!ParserSerialData(answer))
    BY <1>8, SerialPasses
  <1> QED
    BY <1>9 DEF w, r, both, answer

-----------------------------------------------------------------------------
\* A port that an open is accepted with is one that the parsers accept.
LEMMA PortIsUint ==
    ASSUME NEW doc, M!Met(doc, M!EndpointAt(M!Data))
    PROVE  M!PortAt(doc, M!Data) \in Int
PROOF
  <1>1. M!Is(doc[M!Data \o <<"port">>], "uint")
    <2>1. <<M!Data \o <<"port">>, "uint">> \in M!EndpointAt(M!Data)
      BY DEF M!EndpointAt
    <2> QED
      BY <2>1 DEF M!Met
  <1>2. doc[M!Data \o <<"port">>].n \in 0 .. UIntMod - 1
    BY <1>1, Zenon DEF M!Is
  <1> QED
    BY <1>2, PortsAssumption DEF M!PortAt

LEMMA UdpOpenTakes ==
    ASSUME NEW doc, M!Verdict(M!ParserEndpoint(doc)) = "accepted"
    PROVE  M!Met(doc, M!EndpointAt(M!Data)) /\ M!PortAt(doc, M!Data) \in Ports
PROOF
  <1> DEFINE phases == M!ParserEndpoint(doc)
  <1>1. \A i \in DOMAIN phases : phases[i].met
    BY Zenon DEF M!Verdict
  <1>2. /\ 3 \in DOMAIN phases /\ 4 \in DOMAIN phases
        /\ phases[3] = M!Read(doc, M!EndpointAt(M!Data))
        /\ phases[4] = M!Valid(M!ValidEndpoint(doc, M!Data))
    BY DEF M!ParserEndpoint
  <1> HIDE DEF phases
  <1>3. M!Met(doc, M!EndpointAt(M!Data)) /\ M!ValidEndpoint(doc, M!Data)
    BY <1>1, <1>2 DEF M!Read, M!Valid
  <1>4. M!IsValidPort(M!PortAt(doc, M!Data)) /\ M!PortAt(doc, M!Data) \in Int
    BY <1>3, PortIsUint DEF M!ValidEndpoint
  <1> QED
    BY <1>3, <1>4, PortsAssumption DEF M!IsValidPort, Ports

LEMMA TcpOpenTakes ==
    ASSUME NEW doc, M!Verdict(M!ParserTcpServerOpen(doc) \o M!MakeAddress(doc)) = "accepted"
    PROVE  M!Met(doc, M!EndpointAt(M!Data)) /\ M!Narrowed(doc, M!Data) \in Ports
PROOF
  <1> DEFINE a == M!Check(doc, M!DataObject)
             b == M!Check(doc, M!TcpOpenNeeds)
             c == M!Read(doc, M!TcpOpenNeeds)
             d == M!Valid(M!Met(doc, M!TcpOpenNeeds) => M!IsValidPort(M!Narrowed(doc, M!Data)))
             e == M!GetKeepAlive(doc, "int")
             z == [reads |-> TRUE, met |-> M!Met(doc, M!EndpointAt(M!Data)) => M!IsAddress(doc, M!Data)]
             phases == <<a, b, c, d, e>> \o <<z>>
             All == {a, b, c, d, e, z}
  <1>1. phases = M!ParserTcpServerOpen(doc) \o M!MakeAddress(doc)
    BY DEF M!ParserTcpServerOpen, M!MakeAddress
  <1>2. \A i \in DOMAIN phases : phases[i].met
    BY <1>1, Zenon DEF M!Verdict
  <1>3. c.met = M!Met(doc, M!TcpOpenNeeds)
        /\ d.met = (M!Met(doc, M!TcpOpenNeeds) => M!IsValidPort(M!Narrowed(doc, M!Data)))
    BY DEF M!Read, M!Valid
  <1> HIDE DEF a, b, c, d, e, z
  <1>4. /\ <<a, b, c, d, e>> \in Seq(All) /\ Len(<<a, b, c, d, e>>) = 5
        /\ <<a, b, c, d, e>>[3] = c /\ <<a, b, c, d, e>>[4] = d
        /\ <<z>> \in Seq(All) /\ Len(<<z>>) = 1
    OBVIOUS
  <1> HIDE DEF All
  <1>5. /\ phases \in Seq(All) /\ Len(phases) = 6
        /\ phases[3] = c /\ phases[4] = d
    BY <1>4, ConcatProperties
  <1>6. 3 \in DOMAIN phases /\ 4 \in DOMAIN phases
    BY <1>5
  <1> HIDE DEF phases
  <1>7. c.met /\ d.met
    BY <1>2, <1>5, <1>6
  <1>8. M!Met(doc, M!TcpOpenNeeds) /\ M!IsValidPort(M!Narrowed(doc, M!Data))
    BY <1>3, <1>7
  <1>9. M!Met(doc, M!EndpointAt(M!Data))
    BY <1>8 DEF M!Met, M!TcpOpenNeeds
  <1>10. M!Narrowed(doc, M!Data) \in Int
    BY <1>9, PortIsUint, PortsAssumption DEF M!Narrowed
  <1> QED
    BY <1>8, <1>9, <1>10, PortsAssumption DEF M!IsValidPort, Ports

LEMMA OpenedPorts ==
    ASSUME NEW j \in Judged, D!Accepts(j, {"tcp_server", "udp_server"}, "open")
    PROVE  j.port \in Ports
PROOF
  <1>1. PICK doc \in Document : j = M!Judge(doc, M!Apps, WellFormed)
    BY DEF Judged
  <1>2. /\ j.main = "accepted" /\ j.verdict = "accepted" /\ j.parsed
        /\ D!App(j) \in {"tcp_server", "udp_server"} /\ D!Control(j) = "open"
    BY DEF D!Accepts, D!Handler
  <1>3. j.request = <<D!App(j), "open">>
    BY <1>2, JudgedRequest
  <1> DEFINE phases == M!Phases(doc, D!App(j), "open")
  <1>4. M!Verdict(phases) = "accepted" /\ j.port = M!Taken(doc, j.request)
    <2> DEFINE main == IF ~M!Timed(doc) THEN "unchecked"
                       ELSE M!Verdict(M!ParserMain(M!Stamped(doc), M!Apps))
               request == IF main = "accepted" THEN <<doc[<<"app">>].s, M!MainControl(doc)>>
                          ELSE M!NoRequest
               chosen == IF main = "accepted" THEN M!Phases(doc, request[1], request[2]) ELSE <<>>
    <2>1. j = [allowed |-> doc \in WellFormed, main |-> main, request |-> request,
               parsed |-> chosen # <<>>, verdict |-> M!Verdict(chosen),
               port |-> IF M!Verdict(chosen) = "accepted" THEN M!Taken(doc, request) ELSE 0]
      BY <1>1 DEF M!Judge
    <2> HIDE DEF main, request
    <2>2. /\ j.main = main /\ j.request = request /\ j.verdict = M!Verdict(chosen)
          /\ j.port = IF M!Verdict(chosen) = "accepted" THEN M!Taken(doc, request) ELSE 0
      BY <2>1
    <2>3. chosen = phases
      BY <1>2, <1>3, <2>2
    <2> QED
      BY <1>2, <2>2, <2>3
  <1> HIDE DEF phases
  <1>5. CASE D!App(j) = "udp_server"
    <2>1. phases = M!ParserEndpoint(doc)
      BY <1>5 DEF phases, M!Phases, M!EndpointApps
    <2>2. M!Met(doc, M!EndpointAt(M!Data)) /\ M!PortAt(doc, M!Data) \in Ports
      BY <1>4, <2>1, UdpOpenTakes
    <2>3. M!Taken(doc, <<"udp_server", "open">>) = M!PortAt(doc, M!Data)
      BY <2>2 DEF M!Taken, M!EndpointApps
    <2> QED
      BY <1>3, <1>4, <1>5, <2>2, <2>3
  <1>6. CASE D!App(j) = "tcp_server"
    <2>1. phases = M!ParserTcpServerOpen(doc) \o M!MakeAddress(doc)
      BY <1>6 DEF phases, M!Phases, M!EndpointApps
    <2>2. M!Met(doc, M!EndpointAt(M!Data)) /\ M!Narrowed(doc, M!Data) \in Ports
      BY <1>4, <2>1, TcpOpenTakes
    <2>3. M!Taken(doc, <<"tcp_server", "open">>) = M!Narrowed(doc, M!Data)
      BY <2>2 DEF M!Taken, M!EndpointApps
    <2> QED
      BY <1>3, <1>4, <1>6, <2>2, <2>3
  <1> QED
    BY <1>2, <1>5, <1>6

-----------------------------------------------------------------------------
\* Every port that is listed is one that the parsers accept.
ListedInv == listed \in [D!EndpointApps -> SUBSET Ports]

LEMMA ListedStays == ASSUME ListedInv, D!Next PROVE ListedInv'
PROOF
  <1>0. LocalPort \subseteq Ports
    BY PortsAreValid
  <1>1. CASE D!OnMessageNotJson
    BY <1>1 DEF D!OnMessageNotJson, D!Keeps, ListedInv
  <1>2. ASSUME NEW j \in Judged, D!OnMessage(j) PROVE ListedInv'
    <2>1. CASE D!OnMessageNoTime(j)
      BY <2>1 DEF D!OnMessageNoTime, D!Keeps, ListedInv
    <2>2. CASE D!OnMessageIllFormed(j)
      BY <2>2 DEF D!OnMessageIllFormed, D!Keeps, ListedInv
    <2>3. CASE D!HandlerUnchecked(j)
      BY <2>3 DEF D!HandlerUnchecked, D!Keeps, ListedInv
    <2>4. CASE D!HandlerRefuses(j)
      BY <2>4 DEF D!HandlerRefuses, D!Keeps, ListedInv
    <2>5. CASE D!HandlerHasNoCase(j)
      BY <2>5 DEF D!HandlerHasNoCase, D!Keeps, ListedInv
    <2>6. CASE D!HandlerIgnores(j)
      BY <2>6 DEF D!HandlerIgnores, D!Keeps, ListedInv
    <2>7. CASE D!HandlerStatus(j)
      BY <2>7 DEF D!HandlerStatus, D!Keeps, ListedInv
    <2>8. CASE D!HandlerOpens(j)
      <3>1. /\ D!Accepts(j, {"tcp_server", "udp_server"}, "open")
            /\ listed' = [listed EXCEPT ![D!App(j)] = @ \union {j.port}]
        BY <2>8 DEF D!HandlerOpens, D!Adds
      <3>2. j.port \in Ports
        BY <3>1, OpenedPorts
      <3> QED
        BY <3>1, <3>2 DEF ListedInv
    <2>9. CASE D!HandlerOpensUdpClient(j)
      <3>1. PICK port \in LocalPort : listed' = [listed EXCEPT !["udp_client"] = @ \union {port}]
        BY <2>9 DEF D!HandlerOpensUdpClient, D!Adds
      <3> QED
        BY <1>0, <3>1 DEF ListedInv
    <2>10. CASE D!HandlerConnects(j)
      BY <2>10 DEF D!HandlerConnects, ListedInv
    <2>11. CASE D!HandlerCloses(j)
      BY <2>11 DEF D!HandlerCloses, ListedInv
    <2>12. CASE D!HandlerDoes(j)
      BY <2>12 DEF D!HandlerDoes, D!Keeps, ListedInv
    <2>13. CASE D!EchoApp(j)
      BY <2>13 DEF D!EchoApp, D!Keeps, ListedInv
    <2>14. CASE D!ContainerFails(j)
      BY <2>14 DEF D!ContainerFails, D!Keeps, ListedInv
    <2> QED
      BY <1>2, <2>1, <2>2, <2>3, <2>4, <2>5, <2>6, <2>7, <2>8, <2>9, <2>10, <2>11, <2>12,
         <2>13, <2>14, Zenon DEF D!OnMessage
  <1>3. CASE D!Connected
    <2>1. PICK port \in LocalPort : listed' = [listed EXCEPT !["tcp_client"] = @ \union {port}]
      BY <1>3 DEF D!Connected, D!Adds
    <2> QED
      BY <1>0, <2>1 DEF ListedInv
  <1>4. CASE D!UdpServerFails
    BY <1>4 DEF D!UdpServerFails, D!Keeps, ListedInv
  <1>5. ASSUME NEW app, D!AppSends(app) PROVE ListedInv'
    BY <1>5 DEF D!AppSends, D!Keeps, ListedInv
  <1> QED
    BY <1>1, <1>2, <1>3, <1>4, <1>5, Zenon DEF D!Next

LEMMA ListedUsable == ListedInv => D!ShownCanBeUsed
PROOF
  <1> SUFFICES ASSUME ListedInv PROVE D!ShownCanBeUsed
    OBVIOUS
  <1>1. ASSUME NEW app \in D!EndpointApps, NEW port \in listed[app], NEW peer \in LocalPort
        PROVE  /\ D!ClosesPort(app, port, D!EntryOf(app, port, peer))
               /\ app = "tcp_server" => D!ClosesClient(port, peer, D!EntryOf(app, port, peer))
               /\ D!AnswersPeer(app, port, peer, D!ReceivedBy(app, port, peer))
    <2>1. port \in Ports /\ peer \in Ports
      BY <1>1, PortsAreValid DEF ListedInv
    <2> QED
      BY <2>1, EndpointsCanBeUsed
  <1> QED
    BY <1>1, SerialCloses, SerialAnswers, Zenon DEF D!ShownCanBeUsed

(***************************************************************************)
(* What an app shows can be used: a message made of the entry of any port  *)
(* that is listed closes it, and one made of what it received answers it.  *)
(***************************************************************************)
THEOREM ShownIsUsable == DaemonSpec => []ShownCanBeUsed
PROOF
  <1>1. D!Init => ListedInv
    BY DEF D!Init, ListedInv
  <1>2. ListedInv /\ [D!Next]_(D!vars) => ListedInv'
    BY ListedStays DEF D!vars, ListedInv
  <1>3. [DaemonNext]_<<part, vars, dispatcher, startup, info>> => [D!Next]_(D!vars)
    BY DEF DaemonNext, D!vars, dispatcher
  <1>4. ListedInv => ShownCanBeUsed
    BY ListedUsable DEF ShownCanBeUsed
  <1>5. DaemonInit => D!Init
    BY DEF DaemonInit
  <1> QED
    BY <1>1, <1>2, <1>3, <1>4, <1>5, PTL DEF DaemonSpec

-----------------------------------------------------------------------------
(***************************************************************************)
(* What users send.  The judgements are those of M and the handlers are    *)
(* those of D: two instances of Messages with the same constants.          *)
(***************************************************************************)
\* The two instances of Messages make the same of a document.
LEMMA SameMakers ==
    /\ \A d, e : d ++ e = D!++(d, e)
    /\ \A p, m : M!Below(p, m) = D!Below(p, m)
    /\ \A p, v : M!Member(p, v) = D!Member(p, v)
    /\ \A s : M!Text(s) = D!Text(s) /\ M!Secure(s) = D!Secure(s)
    /\ \A n : M!Number(n) = D!Number(n) /\ M!Endpoint(n) = D!Endpoint(n)
    /\ M!Data = D!Data /\ M!Empty = D!Empty /\ M!Payload = D!Payload
    /\ M!Array = D!Array /\ M!Object = D!Object /\ M!Bool = D!Bool
PROOF
  <1>1. \A d, e : M!++(d, e) = D!++(d, e)
    BY DEF M!++, D!++
  <1>2. \A d, e : d ++ e = D!++(d, e)
    BY <1>1 DEF ++
  <1>3. \A p, m : M!Below(p, m) = D!Below(p, m)
    BY DEF M!Below, D!Below
  <1>4. \A p, v : M!Member(p, v) = D!Member(p, v)
    BY DEF M!Member, D!Member
  <1>5. \A s : M!Text(s) = D!Text(s) /\ M!Secure(s) = D!Secure(s)
    BY <1>4 DEF M!Text, D!Text, M!Secure, D!Secure
  <1>6. /\ M!Data = D!Data /\ M!Array = D!Array /\ M!Object = D!Object /\ M!Bool = D!Bool
        /\ M!Address = D!Address /\ \A n : M!Number(n) = D!Number(n)
    BY DEF M!Data, D!Data, M!Array, D!Array, M!Object, D!Object, M!Bool, D!Bool, M!Other, D!Other,
           M!Number, D!Number, M!Address, D!Address, M!Text, D!Text
  <1>7. M!Empty = D!Empty /\ M!Payload = D!Payload
    BY <1>1, <1>4, <1>6 DEF M!Empty, D!Empty, M!Payload, D!Payload
  <1>8. \A n : M!Endpoint(n) = D!Endpoint(n)
    BY <1>1, <1>4, <1>6, <1>7 DEF M!Endpoint, D!Endpoint
  <1> QED
    BY <1>2, <1>3, <1>4, <1>5, <1>6, <1>7, <1>8

LEMMA SameNeeds ==
    ASSUME NEW doc
    PROVE  /\ \A v, kind : M!Is(v, kind) = D!Is(v, kind)
           /\ \A needs : M!Met(doc, needs) = D!Met(doc, needs)
           /\ \A needs : M!Check(doc, needs) = D!Check(doc, needs) /\ M!Read(doc, needs) = D!Read(doc, needs)
           /\ \A c : M!Valid(c) = D!Valid(c)
PROOF
  <1>1. \A v, kind : M!Is(v, kind) = D!Is(v, kind)
    BY DEF M!Is, D!Is
  <1>2. \A needs : M!Met(doc, needs) = D!Met(doc, needs)
    BY <1>1 DEF M!Met, D!Met, M!Has, D!Has
  <1> QED
    BY <1>1, <1>2 DEF M!Check, D!Check, M!Read, D!Read, M!Valid, D!Valid

LEMMA SamePlaces ==
    ASSUME NEW doc
    PROVE  /\ M!DataObject = D!DataObject /\ \A path : M!EndpointAt(path) = D!EndpointAt(path)
           /\ \A path : M!Bytes(doc, path) = D!Bytes(doc, path)
           /\ \A path : M!ValidEndpoint(doc, path) = D!ValidEndpoint(doc, path)
           /\ \A path : M!ValidNarrowed(doc, path) = D!ValidNarrowed(doc, path)
           /\ \A path : M!IsAddress(doc, path) = D!IsAddress(doc, path)
           /\ \A path : M!Narrowed(doc, path) = D!Narrowed(doc, path)
           /\ \A path : M!Items(doc, path) = D!Items(doc, path)
           /\ \A port : M!IsValidPort(port) = D!IsValidPort(port)
           /\ \A key : M!Sub(key) = D!Sub(key)
PROOF
  <1>1. M!Data = D!Data /\ \A needs : M!Met(doc, needs) = D!Met(doc, needs)
    BY SameMakers, SameNeeds
  <1>2. M!DataObject = D!DataObject /\ \A path : M!EndpointAt(path) = D!EndpointAt(path)
    BY <1>1 DEF M!DataObject, D!DataObject, M!EndpointAt, D!EndpointAt
  <1>3. \A path : M!Bytes(doc, path) = D!Bytes(doc, path)
    BY <1>1 DEF M!Bytes, D!Bytes, M!Members, D!Members
  <1>4. /\ \A port : M!IsValidPort(port) = D!IsValidPort(port)
        /\ \A path : M!PortAt(doc, path) = D!PortAt(doc, path)
        /\ \A path : M!Narrowed(doc, path) = D!Narrowed(doc, path)
        /\ \A path : M!IsAddress(doc, path) = D!IsAddress(doc, path)
    BY DEF M!IsValidPort, D!IsValidPort, M!PortAt, D!PortAt, M!Narrowed, D!Narrowed,
           M!IsAddress, D!IsAddress, M!Address, D!Address, M!Text, D!Text
  <1>5. /\ \A path : M!ValidEndpoint(doc, path) = D!ValidEndpoint(doc, path)
        /\ \A path : M!ValidNarrowed(doc, path) = D!ValidNarrowed(doc, path)
    BY <1>1, <1>2, <1>4 DEF M!ValidEndpoint, D!ValidEndpoint, M!ValidNarrowed, D!ValidNarrowed
  <1>6. \A path : M!Items(doc, path) = D!Items(doc, path)
    BY DEF M!Items, D!Items, M!Index, D!Index
  <1>7. \A key : M!Sub(key) = D!Sub(key)
    BY DEF M!Sub, D!Sub
  <1> QED
    BY <1>2, <1>3, <1>4, <1>5, <1>6, <1>7

LEMMA SameEndpointParsers ==
    ASSUME NEW doc
    PROVE  /\ M!ParserEndpoint(doc) = D!ParserEndpoint(doc)
           /\ M!ParserClientData(doc) = D!ParserClientData(doc)
           /\ M!ParserCloseClients(doc) = D!ParserCloseClients(doc)
           /\ M!ParserServerData(doc) = D!ParserServerData(doc)
           /\ M!ParserSerialClose(doc) = D!ParserSerialClose(doc)
           /\ M!ParserSerialData(doc) = D!ParserSerialData(doc)
PROOF
  <1>1. M!ParserEndpoint(doc) = D!ParserEndpoint(doc)
    BY SamePlaces, SameMakers, SameNeeds DEF M!ParserEndpoint, D!ParserEndpoint
  <1>2. M!ParserClientData(doc) = D!ParserClientData(doc)
    BY SamePlaces, SameMakers, SameNeeds
       DEF M!ParserClientData, D!ParserClientData, M!ClientDataNeeds, D!ClientDataNeeds
  <1>3. M!ParserCloseClients(doc) = D!ParserCloseClients(doc)
    BY SamePlaces, SameMakers, SameNeeds
       DEF M!ParserCloseClients, D!ParserCloseClients, M!CloseClientNeeds, D!CloseClientNeeds
  <1>4. M!ParserServerData(doc) = D!ParserServerData(doc)
    <2>1. M!FromNeeds = D!FromNeeds /\ M!ToNeeds = D!ToNeeds /\ M!ClientNeeds(doc) = D!ClientNeeds(doc)
      BY SamePlaces, SameMakers, SameNeeds
         DEF M!FromNeeds, D!FromNeeds, M!ToNeeds, D!ToNeeds, M!ClientNeeds, D!ClientNeeds
    <2>2. M!FromOrNoTo(doc) = D!FromOrNoTo(doc)
      BY <2>1, SameNeeds DEF M!FromOrNoTo, D!FromOrNoTo
    <2> DEFINE mine == \A p \in M!Items(doc, M!Sub("to")) : M!ValidEndpoint(doc, p)
               its == \A p \in D!Items(doc, D!Sub("to")) : D!ValidEndpoint(doc, p)
    <2>3. mine = its
      BY SamePlaces
    <2>4. /\ M!Check(doc, M!DataObject) = D!Check(doc, D!DataObject)
          /\ M!Valid(M!FromOrNoTo(doc)) = D!Valid(D!FromOrNoTo(doc))
          /\ M!Read(doc, M!ToNeeds) = D!Read(doc, D!ToNeeds)
          /\ M!Check(doc, M!ClientNeeds(doc)) = D!Check(doc, D!ClientNeeds(doc))
          /\ M!Check(doc, {<<M!Sub("data"), "payload">>}) = D!Check(doc, {<<D!Sub("data"), "payload">>})
          /\ M!Read(doc, M!FromNeeds) = D!Read(doc, D!FromNeeds)
      BY <2>1, <2>2, SamePlaces, SameNeeds
    <2>5. /\ M!Valid(M!ValidEndpoint(doc, M!Sub("from"))) = D!Valid(D!ValidEndpoint(doc, D!Sub("from")))
          /\ M!Read(doc, M!Bytes(doc, M!Sub("data"))) = D!Read(doc, D!Bytes(doc, D!Sub("data")))
      BY SamePlaces, SameNeeds
    <2> HIDE DEF mine, its
    <2>6. M!Valid(mine) = D!Valid(its)
      BY <2>3, SameNeeds
    <2>7. /\ M!ParserServerData(doc) =
                 << M!Check(doc, M!DataObject), M!Valid(M!FromOrNoTo(doc)), M!Read(doc, M!ToNeeds),
                    M!Check(doc, M!ClientNeeds(doc)), M!Check(doc, {<<M!Sub("data"), "payload">>}),
                    M!Read(doc, M!FromNeeds), M!Valid(M!ValidEndpoint(doc, M!Sub("from"))),
                    M!Valid(mine), M!Read(doc, M!Bytes(doc, M!Sub("data"))) >>
          /\ D!ParserServerData(doc) =
                 << D!Check(doc, D!DataObject), D!Valid(D!FromOrNoTo(doc)), D!Read(doc, D!ToNeeds),
                    D!Check(doc, D!ClientNeeds(doc)), D!Check(doc, {<<D!Sub("data"), "payload">>}),
                    D!Read(doc, D!FromNeeds), D!Valid(D!ValidEndpoint(doc, D!Sub("from"))),
                    D!Valid(its), D!Read(doc, D!Bytes(doc, D!Sub("data"))) >>
      BY Zenon DEF M!ParserServerData, D!ParserServerData, mine, its
    <2> QED
      BY <2>4, <2>5, <2>6, <2>7
  <1>5. M!ParserSerialClose(doc) = D!ParserSerialClose(doc)
    BY SamePlaces, SameMakers, SameNeeds DEF M!ParserSerialClose, D!ParserSerialClose
  <1>6. M!ParserSerialData(doc) = D!ParserSerialData(doc)
    BY SamePlaces, SameMakers, SameNeeds DEF M!ParserSerialData, D!ParserSerialData
  <1> QED
    BY <1>1, <1>2, <1>3, <1>4, <1>5, <1>6

LEMMA SameOpenParsers ==
    ASSUME NEW doc
    PROVE  /\ M!ParserTcpClientOpen(doc) = D!ParserTcpClientOpen(doc)
           /\ M!ParserUdpClientOpen(doc) = D!ParserUdpClientOpen(doc)
           /\ M!ParserTcpServerOpen(doc) = D!ParserTcpServerOpen(doc)
           /\ M!MakeAddress(doc) = D!MakeAddress(doc)
PROOF
  <1>1. M!TcpOpenNeeds = D!TcpOpenNeeds
    BY SamePlaces, SameMakers DEF M!TcpOpenNeeds, D!TcpOpenNeeds
  <1>2. \A kind : M!GetKeepAlive(doc, kind) = D!GetKeepAlive(doc, kind)
    <2> SUFFICES ASSUME NEW kind PROVE M!GetKeepAlive(doc, kind) = D!GetKeepAlive(doc, kind)
      OBVIOUS
    <2>1. M!KeepAliveNeeds(kind) = D!KeepAliveNeeds(kind)
      BY SamePlaces DEF M!KeepAliveNeeds, D!KeepAliveNeeds
    <2> QED
      BY <2>1, SameNeeds DEF M!GetKeepAlive, D!GetKeepAlive
  <1>3. M!ParserTcpClientOpen(doc) = D!ParserTcpClientOpen(doc)
    BY <1>1, <1>2, SamePlaces, SameMakers, SameNeeds DEF M!ParserTcpClientOpen, D!ParserTcpClientOpen
  <1>4. M!ParserUdpClientOpen(doc) = D!ParserUdpClientOpen(doc)
    BY SamePlaces, SameMakers, SameNeeds DEF M!ParserUdpClientOpen, D!ParserUdpClientOpen
  <1>5. M!ParserTcpServerOpen(doc) = D!ParserTcpServerOpen(doc)
    BY <1>1, <1>2, SamePlaces, SameMakers, SameNeeds DEF M!ParserTcpServerOpen, D!ParserTcpServerOpen
  <1>6. M!MakeAddress(doc) = D!MakeAddress(doc)
    <2> DEFINE mine == M!Met(doc, M!EndpointAt(M!Data)) => M!IsAddress(doc, M!Data)
               its == D!Met(doc, D!EndpointAt(D!Data)) => D!IsAddress(doc, D!Data)
    <2>1. mine = its
      BY SamePlaces, SameMakers, SameNeeds
    <2>2. /\ M!MakeAddress(doc) = <<[reads |-> TRUE, met |-> mine]>>
          /\ D!MakeAddress(doc) = <<[reads |-> TRUE, met |-> its]>>
      BY Zenon DEF M!MakeAddress, D!MakeAddress, mine, its
    <2> HIDE DEF mine, its
    <2> QED
      BY <2>1, <2>2, Zenon
  <1> QED
    BY <1>3, <1>4, <1>5, <1>6

LEMMA SameOtherParsers ==
    ASSUME NEW doc
    PROVE  /\ M!ParserSerialConfig(doc) = D!ParserSerialConfig(doc)
           /\ M!ParserMonitor(doc) = D!ParserMonitor(doc)
           /\ M!ParserEcho(doc) = D!ParserEcho(doc)
PROOF
  <1>1. M!ParserSerialConfig(doc) = D!ParserSerialConfig(doc)
    <2>1. M!SerialConfigNeeds = D!SerialConfigNeeds
      BY SamePlaces DEF M!SerialConfigNeeds, D!SerialConfigNeeds, M!SerialUints, D!SerialUints
    <2> DEFINE MSize == M!Met(doc, M!SerialConfigNeeds) => doc[M!Sub("char_size")].n \in M!CharSizes
               DSize == D!Met(doc, D!SerialConfigNeeds) => doc[D!Sub("char_size")].n \in D!CharSizes
               MRest == M!Met(doc, M!SerialConfigNeeds) =>
                            doc[M!Sub("stopbit")].n \in 0 .. 2 /\ doc[M!Sub("parity")].n \in 0 .. 2
                              /\ doc[M!Sub("flow_control")].n \in 0 .. 2
               DRest == D!Met(doc, D!SerialConfigNeeds) =>
                            doc[D!Sub("stopbit")].n \in 0 .. 2 /\ doc[D!Sub("parity")].n \in 0 .. 2
                              /\ doc[D!Sub("flow_control")].n \in 0 .. 2
    <2>2. MSize = DSize /\ MRest = DRest
      <3>1. M!CharSizes = D!CharSizes
        BY DEF M!CharSizes, D!CharSizes
      <3> QED
        BY <2>1, <3>1, SamePlaces, SameNeeds
    <2>3. /\ M!ParserSerialConfig(doc) =
                 << M!Check(doc, M!DataObject), M!Check(doc, M!SerialConfigNeeds),
                    M!Read(doc, M!SerialConfigNeeds), [reads |-> TRUE, met |-> MSize], M!Valid(MRest) >>
          /\ D!ParserSerialConfig(doc) =
                 << D!Check(doc, D!DataObject), D!Check(doc, D!SerialConfigNeeds),
                    D!Read(doc, D!SerialConfigNeeds), [reads |-> TRUE, met |-> DSize], D!Valid(DRest) >>
      BY Zenon DEF M!ParserSerialConfig, D!ParserSerialConfig, MSize, DSize, MRest, DRest
    <2> HIDE DEF MSize, DSize, MRest, DRest
    <2>4. /\ M!Check(doc, M!DataObject) = D!Check(doc, D!DataObject)
          /\ M!Check(doc, M!SerialConfigNeeds) = D!Check(doc, D!SerialConfigNeeds)
          /\ M!Read(doc, M!SerialConfigNeeds) = D!Read(doc, D!SerialConfigNeeds)
          /\ M!Valid(MRest) = D!Valid(DRest)
      BY <2>1, <2>2, SamePlaces, SameNeeds
    <2> QED
      BY <2>2, <2>3, <2>4, Zenon
  <1>2. M!ParserMonitor(doc) = D!ParserMonitor(doc)
    <2>1. M!MonitorNeeds = D!MonitorNeeds /\ \A t : M!MonitorTypeIs(doc, t) = D!MonitorTypeIs(doc, t)
      BY SamePlaces, SameNeeds DEF M!MonitorNeeds, D!MonitorNeeds, M!MonitorTypeIs, D!MonitorTypeIs
    <2> QED
      BY <2>1, SamePlaces, SameMakers, SameNeeds DEF M!ParserMonitor, D!ParserMonitor
  <1>3. M!ParserEcho(doc) = D!ParserEcho(doc)
    <2> DEFINE mine == M!Met(doc, {<<M!Sub("type"), "string">>}) => doc[M!Sub("type")].s \in M!EchoTypes
               its == D!Met(doc, {<<D!Sub("type"), "string">>}) => doc[D!Sub("type")].s \in D!EchoTypes
    <2>1. mine = its
      BY SamePlaces, SameNeeds DEF M!EchoTypes, D!EchoTypes
    <2>2. /\ M!ParserEcho(doc) =
                 << M!Check(doc, M!DataObject),
                    M!Check(doc, {<<M!Sub("type"), "string">>, <<M!Sub("data"), "any">>}), M!Valid(mine),
                    M!Read(doc, M!Bytes(doc, M!Sub("data"))) >>
          /\ D!ParserEcho(doc) =
                 << D!Check(doc, D!DataObject),
                    D!Check(doc, {<<D!Sub("type"), "string">>, <<D!Sub("data"), "any">>}), D!Valid(its),
                    D!Read(doc, D!Bytes(doc, D!Sub("data"))) >>
      BY Zenon DEF M!ParserEcho, D!ParserEcho, mine, its
    <2> HIDE DEF mine, its
    <2>3. /\ M!Check(doc, M!DataObject) = D!Check(doc, D!DataObject)
          /\ M!Check(doc, {<<M!Sub("type"), "string">>, <<M!Sub("data"), "any">>}) =
                 D!Check(doc, {<<D!Sub("type"), "string">>, <<D!Sub("data"), "any">>})
          /\ M!Valid(mine) = D!Valid(its)
          /\ M!Read(doc, M!Bytes(doc, M!Sub("data"))) = D!Read(doc, D!Bytes(doc, D!Sub("data")))
      BY <2>1, SamePlaces, SameNeeds
    <2> QED
      BY <2>2, <2>3, Zenon
  <1> QED
    BY <1>1, <1>2, <1>3

LEMMA SamePhases ==
    ASSUME NEW doc, NEW app, NEW control
    PROVE  M!Phases(doc, app, control) = D!Phases(doc, app, control)
PROOF
  <1>1. M!EndpointApps = D!EndpointApps
    BY DEF M!EndpointApps, D!EndpointApps
  <1>2. M!ParserTcpServerOpen(doc) \o M!MakeAddress(doc) = D!ParserTcpServerOpen(doc) \o D!MakeAddress(doc)
    BY SameOpenParsers
  <1> QED
    BY <1>1, <1>2, SameEndpointParsers, SameOpenParsers, SameOtherParsers DEF M!Phases, D!Phases

LEMMA SameVerdict == \A phases : M!Verdict(phases) = D!Verdict(phases)
PROOF
  <1> QED
    BY DEF M!Verdict, D!Verdict, M!FirstUnmet, D!FirstUnmet

\* The main part of a message of an app and a control, or of data.
Heads(doc, app, control) ==
    /\ Holds(doc, <<"app">>, D!Text(app)) /\ Holds(doc, <<"time">>, D!Number(0))
    /\ IF control = "data" THEN Holds(doc, <<"type">>, D!Text("data"))
       ELSE Holds(doc, <<"type">>, D!Text("control")) /\ Holds(doc, <<"ctype">>, D!Text(control))

\* A message with a main part passes the first parser, and reaches the handler it names.
LEMMA MainPasses ==
    ASSUME NEW doc, NEW app \in M!Apps, NEW control \in M!Controls \union {"data"},
           Heads(doc, app, control)
    PROVE  /\ M!Timed(doc) /\ M!Verdict(M!ParserMain(M!Stamped(doc), M!Apps)) = "accepted"
           /\ doc[<<"app">>].s = app /\ M!MainControl(doc) = control
PROOF
  <1> DEFINE s == M!Stamped(doc)
             type == IF control = "data" THEN "data" ELSE "control"
  <1>1. /\ \A p \in DOMAIN doc : p \in DOMAIN s /\ (p # <<"time">> => s[p] = doc[p])
        /\ <<"time">> \in DOMAIN doc => s[<<"time">>] = M!Number(0)
    BY DEF M!Stamped
  <1>2. /\ \A t : M!Text(t) = [is |-> "string", s |-> t] /\ D!Text(t) = [is |-> "string", s |-> t]
        /\ M!Number(0) = [is |-> "number", n |-> 0]
    BY DEF M!Text, D!Text, M!Number
  <1>3. <<"app">> # <<"time">> /\ <<"type">> # <<"time">> /\ <<"ctype">> # <<"time">>
    OBVIOUS
  <1>4. /\ <<"app">> \in DOMAIN doc /\ doc[<<"app">>] = [is |-> "string", s |-> app]
        /\ <<"time">> \in DOMAIN doc
        /\ <<"type">> \in DOMAIN doc /\ doc[<<"type">>] = [is |-> "string", s |-> type]
        /\ control # "data" =>
              <<"ctype">> \in DOMAIN doc /\ doc[<<"ctype">>] = [is |-> "string", s |-> control]
    BY <1>2 DEF Heads, Holds
  <1>5. /\ <<"app">> \in DOMAIN s /\ s[<<"app">>] = [is |-> "string", s |-> app]
        /\ <<"time">> \in DOMAIN s /\ s[<<"time">>] = [is |-> "number", n |-> 0]
        /\ <<"type">> \in DOMAIN s /\ s[<<"type">>] = [is |-> "string", s |-> type]
        /\ control # "data" =>
              <<"ctype">> \in DOMAIN s /\ s[<<"ctype">>] = [is |-> "string", s |-> control]
    BY <1>1, <1>2, <1>3, <1>4
  <1> HIDE DEF s
  <1>6. /\ \A t : M!Is([is |-> "string", s |-> t], "string")
        /\ M!Is([is |-> "number", n |-> 0], "uint64")
    BY DEF M!Is
  <1>7. M!Met(s, M!MainNeeds)
    BY <1>5, <1>6 DEF M!Met, M!Has, M!MainNeeds
  <1>8. control # "data" => M!Met(s, {<<<<"ctype">>, "string">>})
    BY <1>5, <1>6 DEF M!Met, M!Has
  <1>9. s[<<"app">>].s = app /\ s[<<"type">>].s = type /\ (control # "data" => s[<<"ctype">>].s = control)
    BY <1>5
  <1> DEFINE known == M!Met(s, M!MainNeeds) => s[<<"app">>].s \in M!Apps
             kind == M!Met(s, M!MainNeeds) => s[<<"type">>].s \in {"data", "control"}
             named == M!Met(s, M!MainNeeds) /\ s[<<"type">>].s = "control" =>
                         M!Met(s, {<<<<"ctype">>, "string">>}) /\ s[<<"ctype">>].s \in M!Controls
  <1>10. known /\ kind
    BY <1>9
  <1>11. named
    <2> SUFFICES ASSUME s[<<"type">>].s = "control"
                 PROVE  M!Met(s, {<<<<"ctype">>, "string">>}) /\ s[<<"ctype">>].s \in M!Controls
      OBVIOUS
    <2>1. control # "data"
      BY <1>9
    <2> QED
      BY <1>8, <1>9, <2>1
  <1>12. M!ParserMain(s, M!Apps) =
            << M!Check(s, M!MainNeeds), M!Valid(known), M!Valid(kind), M!Valid(named), M!Read(s, M!MainNeeds) >>
    BY Zenon DEF M!ParserMain, known, kind, named
  <1> HIDE DEF known, kind, named
  <1>13. /\ M!Check(s, M!MainNeeds).met /\ M!Valid(known).met /\ M!Valid(kind).met /\ M!Valid(named).met
         /\ M!Read(s, M!MainNeeds).met
    BY <1>7, <1>10, <1>11 DEF M!Check, M!Valid, M!Read
  <1>14. D!Passes(M!ParserMain(s, M!Apps))
    BY <1>12, <1>13, AllMet
  <1>15. M!Timed(doc)
    BY <1>4 DEF M!Timed, M!Met, M!Has, M!Is
  <1>16. doc[<<"app">>].s = app /\ doc[<<"type">>].s = type /\ (control # "data" => doc[<<"ctype">>].s = control)
    BY <1>4
  <1>17. M!MainControl(doc) = control
    BY <1>16 DEF M!MainControl
  <1> QED
    BY <1>14, <1>15, <1>16, <1>17, SameVerdict DEF D!Passes, s

LEMMA JudgedAs ==
    ASSUME NEW doc, NEW app \in M!Apps, NEW control \in M!Controls \union {"data"},
           Heads(doc, app, control), NEW j, j = M!Judge(doc, M!Apps, WellFormed)
    PROVE  /\ j.main = "accepted" /\ j.request = <<app, control>>
           /\ j.parsed = (D!Phases(doc, app, control) # <<>>)
           /\ j.verdict = D!Verdict(D!Phases(doc, app, control))
PROOF
  <1> DEFINE main == IF ~M!Timed(doc) THEN "unchecked" ELSE M!Verdict(M!ParserMain(M!Stamped(doc), M!Apps))
             request == IF main = "accepted" THEN <<doc[<<"app">>].s, M!MainControl(doc)>> ELSE M!NoRequest
             phases == IF main = "accepted" THEN M!Phases(doc, request[1], request[2]) ELSE <<>>
  <1>1. j = [allowed |-> doc \in WellFormed, main |-> main, request |-> request,
             parsed |-> phases # <<>>, verdict |-> M!Verdict(phases),
             port |-> IF M!Verdict(phases) = "accepted" THEN M!Taken(doc, request) ELSE 0]
    BY Zenon DEF M!Judge
  <1>2. main = "accepted" /\ request = <<app, control>>
    BY MainPasses
  <1> HIDE DEF main, request
  <1>3. phases = D!Phases(doc, app, control)
    BY <1>2, SamePhases
  <1> HIDE DEF phases
  <1>4. /\ j.main = main /\ j.request = request /\ j.parsed = (phases # <<>>)
        /\ j.verdict = M!Verdict(phases)
    BY <1>1
  <1> QED
    BY <1>2, <1>3, <1>4, SameVerdict

-----------------------------------------------------------------------------
\* The main part of a request, with nothing at its data.
Heading(app, control) == IF control = "data" THEN Data(app) ELSE Control(app, control)

LEMMA HeadMade ==
    ASSUME NEW app, NEW control
    PROVE  /\ Doc(Heading(app, control)) /\ Heads(Heading(app, control), app, control)
           /\ Clear(Heading(app, control), D!Data)
PROOF
  <1> DEFINE a == D!Member(<<"app">>, D!Text(app))
             t == D!Member(<<"time">>, D!Number(0))
             k == D!Member(<<"type">>, D!Text(IF control = "data" THEN "data" ELSE "control"))
             c == D!Member(<<"ctype">>, D!Text(control))
             at == D!++(a, t)
             atk == D!++(at, k)
  <1>1. /\ {"app", "time", "type", "ctype", "data"} \subseteq Key /\ D!Data = <<"data">>
    BY DEF Key, D!Data
  <1>2. /\ <<"app">> \in Path /\ <<"time">> \in Path /\ <<"type">> \in Path /\ <<"ctype">> \in Path
        /\ D!Data \in Path
        /\ Apart(D!Data, <<"app">>) /\ Apart(D!Data, <<"time">>)
        /\ Apart(D!Data, <<"type">>) /\ Apart(D!Data, <<"ctype">>)
    BY <1>1, Paths, KeysApart
  <1>3. /\ Doc(a) /\ Holds(a, <<"app">>, D!Text(app)) /\ Clear(a, D!Data)
        /\ Doc(t) /\ Holds(t, <<"time">>, D!Number(0)) /\ Clear(t, D!Data)
        /\ Doc(k) /\ Holds(k, <<"type">>, D!Text(IF control = "data" THEN "data" ELSE "control"))
        /\ Clear(k, D!Data)
        /\ Doc(c) /\ Holds(c, <<"ctype">>, D!Text(control)) /\ Clear(c, D!Data)
    BY <1>2, Alone
  <1>4. DOMAIN a = {<<"app">>} /\ DOMAIN t = {<<"time">>} /\ DOMAIN k = {<<"type">>}
    BY DEF D!Member
  <1>5. Heading(app, control) = IF control = "data" THEN atk ELSE D!++(atk, c)
    BY SameMakers DEF Heading, Data, Control, Main
  <1> HIDE DEF a, t, k, c
  <1>6. /\ Doc(at) /\ Holds(at, <<"app">>, D!Text(app)) /\ Holds(at, <<"time">>, D!Number(0))
        /\ Clear(at, D!Data) /\ DOMAIN at = {<<"app">>, <<"time">>}
    <2>1. <<"time">> \notin DOMAIN a
      BY <1>4
    <2>2. DOMAIN at = {<<"app">>, <<"time">>}
      BY <1>4 DEF D!++
    <2> QED
      BY <1>3, <2>1, <2>2, Together
  <1> HIDE DEF at
  <1>7. /\ Doc(atk) /\ Holds(atk, <<"app">>, D!Text(app)) /\ Holds(atk, <<"time">>, D!Number(0))
        /\ Holds(atk, <<"type">>, D!Text(IF control = "data" THEN "data" ELSE "control"))
        /\ Clear(atk, D!Data) /\ DOMAIN atk = {<<"app">>, <<"time">>, <<"type">>}
    <2>1. <<"type">> \notin DOMAIN at
      BY <1>6
    <2>2. DOMAIN atk = {<<"app">>, <<"time">>, <<"type">>}
      BY <1>4, <1>6 DEF D!++
    <2> QED
      BY <1>3, <1>6, <2>1, <2>2, Together
  <1> HIDE DEF atk
  <1>8. CASE control = "data"
    BY <1>5, <1>7, <1>8 DEF Heads
  <1>9. CASE control # "data"
    <2>1. <<"ctype">> \notin DOMAIN atk
      BY <1>7
    <2>2. /\ Doc(D!++(atk, c)) /\ Holds(D!++(atk, c), <<"app">>, D!Text(app))
          /\ Holds(D!++(atk, c), <<"time">>, D!Number(0)) /\ Holds(D!++(atk, c), <<"type">>, D!Text("control"))
          /\ Holds(D!++(atk, c), <<"ctype">>, D!Text(control)) /\ Clear(D!++(atk, c), D!Data)
      BY <1>3, <1>7, <1>9, <2>1, Together
    <2> QED
      BY <1>5, <1>9, <2>2 DEF Heads
  <1> QED
    BY <1>8, <1>9

\* A request with a body: what it holds, and where.
LEMMA BodyHas ==
    ASSUME NEW app, NEW control, NEW m, Doc(m),
           NEW doc, doc = Heading(app, control) ++ Body(m)
    PROVE  /\ Doc(doc) /\ Heads(doc, app, control) /\ Holds(doc, D!Data, D!Object)
           /\ \A q \in Path : \A v : q # <<>> /\ Holds(m, q, v) => Holds(doc, D!Data \o q, v)
           /\ \A q \in Path : \A port :
                 q # <<>> /\ HoldsEndpoint(m, q, port) => HoldsEndpoint(doc, D!Data \o q, port)
           /\ \A port : HoldsEndpoint(m, <<>>, port) => HoldsEndpoint(doc, D!Data, port)
           /\ \A q \in Path : q # <<>> /\ HoldsPayload(m, q) => HoldsPayload(doc, D!Data \o q)
           /\ \A q \in Path : q # <<>> /\ Clear(m, q) => Clear(doc, D!Data \o q)
PROOF
  <1> DEFINE h == Heading(app, control)
             all == D!++(D!Empty, m)
             b == D!Below(D!Data, all)
  <1>1. doc = D!++(h, b)
    BY SameMakers DEF Body
  <1>2. Doc(h) /\ Heads(h, app, control) /\ Clear(h, D!Data)
    BY HeadMade
  <1>3. /\ D!Data \in Path /\ <<>> \in Path /\ D!Data \o <<>> = D!Data
    BY Places
  <1>4. \A q \in Path : D!Data \o q \in Path /\ Clear(h, D!Data \o q) /\ D!Data \o q \notin DOMAIN h
    <2> SUFFICES ASSUME NEW q \in Path
                 PROVE  D!Data \o q \in Path /\ Clear(h, D!Data \o q) /\ D!Data \o q \notin DOMAIN h
      OBVIOUS
    <2>1. \A r \in Path : (D!Data \o q) \o r = D!Data \o (q \o r) /\ q \o r \in Path
      BY <1>3, PathsJoin
    <2>2. D!Data \o q \in Path
      BY <1>3, PathsJoin
    <2> QED
      BY <1>2, <2>1, <2>2 DEF Clear
  <1>5. DOMAIN D!Empty = {<<>>} /\ Doc(D!Empty) /\ Holds(D!Empty, <<>>, D!Object)
        /\ \A q \in Path : q # <<>> => Clear(D!Empty, q)
    BY EmptyHolds DEF D!Empty, D!Member
  <1> HIDE DEF h
  <1>6. /\ Doc(all) /\ Holds(all, <<>>, D!Object)
        /\ \A q \in Path : \A v : q # <<>> /\ Holds(m, q, v) => Holds(all, q, v)
        /\ \A q \in Path : \A port : q # <<>> /\ HoldsEndpoint(m, q, port) => HoldsEndpoint(all, q, port)
        /\ \A q \in Path : q # <<>> /\ HoldsPayload(m, q) => HoldsPayload(all, q)
        /\ \A q \in Path : q # <<>> /\ Clear(m, q) => Clear(all, q)
    <2>1. /\ Doc(all) /\ Holds(all, <<>>, D!Object)
          /\ \A q \in Path : \A v : q # <<>> /\ Holds(m, q, v) => Holds(all, q, v)
          /\ \A q \in Path : q # <<>> /\ Clear(m, q) => Clear(all, q)
      BY <1>5, Together
    <2>2. \A q \in Path : \A port : q # <<>> /\ HoldsEndpoint(m, q, port) => HoldsEndpoint(all, q, port)
      BY <1>5, EndpointJoins
    <2>3. \A q \in Path : q # <<>> /\ HoldsPayload(m, q) => HoldsPayload(all, q)
      BY <1>5, PayloadMoves
    <2> QED
      BY <2>1, <2>2, <2>3
  <1>7. \A port : HoldsEndpoint(m, <<>>, port) => HoldsEndpoint(all, <<>>, port)
    <2>1. <<"addr">> # <<>> /\ <<"port">> # <<>>
      OBVIOUS
    <2>2. /\ <<>> \o <<"addr">> = <<"addr">> /\ <<>> \o <<"port">> = <<"port">>
          /\ <<"addr">> \in Path /\ <<"port">> \in Path
      BY <1>3, EndpointPaths, PathsJoin
    <2> QED
      BY <1>6, <2>1, <2>2 DEF HoldsEndpoint
  <1> HIDE DEF all
  <1>8. /\ Doc(b)
        /\ \A q \in Path : \A v : Holds(all, q, v) => Holds(b, D!Data \o q, v)
        /\ \A q \in Path : \A port : HoldsEndpoint(all, q, port) => HoldsEndpoint(b, D!Data \o q, port)
        /\ \A q \in Path : HoldsPayload(all, q) => HoldsPayload(b, D!Data \o q)
        /\ \A q \in Path : Clear(all, q) => Clear(b, D!Data \o q)
    <2>1. /\ Doc(b)
          /\ \A q \in Path : \A v : Holds(all, q, v) => Holds(b, D!Data \o q, v)
          /\ \A q \in Path : Clear(all, q) => Clear(b, D!Data \o q)
      BY <1>3, <1>6, Placed
    <2>2. \A q \in Path : \A port : HoldsEndpoint(all, q, port) => HoldsEndpoint(b, D!Data \o q, port)
      BY <1>3, <1>6, EndpointMoves
    <2>3. \A q \in Path : HoldsPayload(all, q) => HoldsPayload(b, D!Data \o q)
      BY <1>3, <1>6, PayloadMoves
    <2> QED
      BY <2>1, <2>2, <2>3
  <1> HIDE DEF b
  <1>9. /\ Doc(doc)
        /\ \A p : \A v : Holds(h, p, v) => Holds(doc, p, v)
        /\ \A q \in Path : \A v : Holds(b, D!Data \o q, v) => Holds(doc, D!Data \o q, v)
        /\ \A q \in Path : \A port : HoldsEndpoint(b, D!Data \o q, port) => HoldsEndpoint(doc, D!Data \o q, port)
        /\ \A q \in Path : HoldsPayload(b, D!Data \o q) => HoldsPayload(doc, D!Data \o q)
        /\ \A q \in Path : Clear(b, D!Data \o q) => Clear(doc, D!Data \o q)
    <2>1. /\ Doc(doc)
          /\ \A p : \A v : Holds(h, p, v) => Holds(doc, p, v)
      BY <1>1, <1>2, <1>8, Together
    <2>2. \A q \in Path : \A v : Holds(b, D!Data \o q, v) => Holds(doc, D!Data \o q, v)
      BY <1>1, <1>4, Together
    <2>3. \A q \in Path : Clear(b, D!Data \o q) => Clear(doc, D!Data \o q)
      BY <1>1, <1>4, Together
    <2>4. \A q \in Path : \A port : HoldsEndpoint(b, D!Data \o q, port) => HoldsEndpoint(doc, D!Data \o q, port)
      BY <1>1, <1>4, EndpointJoins
    <2>5. \A q \in Path : HoldsPayload(b, D!Data \o q) => HoldsPayload(doc, D!Data \o q)
      BY <1>1, <1>2, <1>4, <1>8, PayloadMoves
    <2> QED
      BY <2>1, <2>2, <2>3, <2>4, <2>5
  <1>10. Heads(doc, app, control)
    BY <1>2, <1>9 DEF Heads
  <1>11. Holds(doc, D!Data, D!Object)
    BY <1>3, <1>6, <1>8, <1>9
  <1>12. \A port : HoldsEndpoint(m, <<>>, port) => HoldsEndpoint(doc, D!Data, port)
    BY <1>3, <1>7, <1>8, <1>9
  <1> QED
    BY <1>6, <1>8, <1>9, <1>10, <1>11, <1>12

-----------------------------------------------------------------------------
\* Which parser a request is given to.
LEMMA PhasesAre ==
    ASSUME NEW doc
    PROVE  /\ \A app \in D!EndpointApps :
                 /\ D!Phases(doc, app, "close") = D!ParserEndpoint(doc)
                 /\ D!Phases(doc, app, "status") = <<>>
           /\ D!Phases(doc, "serial", "status") = <<>>
           /\ D!Phases(doc, "udp_server", "open") = D!ParserEndpoint(doc)
           /\ D!Phases(doc, "udp_client", "open") = D!ParserUdpClientOpen(doc)
           /\ D!Phases(doc, "tcp_client", "open") = D!ParserTcpClientOpen(doc)
           /\ D!Phases(doc, "tcp_server", "open") = D!ParserTcpServerOpen(doc) \o D!MakeAddress(doc)
           /\ \A app \in D!Clients : D!Phases(doc, app, "data") = D!ParserClientData(doc)
           /\ \A app \in D!EndpointApps \ D!Clients : D!Phases(doc, app, "data") = D!ParserServerData(doc)
           /\ D!Phases(doc, "tcp_server", "custom") = D!ParserCloseClients(doc)
           /\ D!Phases(doc, "serial", "open") = D!ParserSerialConfig(doc)
           /\ D!Phases(doc, "serial", "close") = D!ParserSerialClose(doc)
           /\ D!Phases(doc, "serial", "data") = D!ParserSerialData(doc)
           /\ D!Phases(doc, "monitor", "status") = D!ParserMonitor(doc)
           /\ D!Phases(doc, "echo", "data") = D!ParserEcho(doc)
PROOF
  <1> USE DEF D!EndpointApps, D!Clients
  <1>1. \A app \in D!EndpointApps :
           /\ D!Phases(doc, app, "close") = D!ParserEndpoint(doc)
           /\ D!Phases(doc, app, "status") = <<>>
    BY DEF D!Phases
  <1>2. D!Phases(doc, "serial", "status") = <<>>
    BY DEF D!Phases
  <1>3. /\ D!Phases(doc, "udp_server", "open") = D!ParserEndpoint(doc)
        /\ D!Phases(doc, "udp_client", "open") = D!ParserUdpClientOpen(doc)
        /\ D!Phases(doc, "tcp_client", "open") = D!ParserTcpClientOpen(doc)
        /\ D!Phases(doc, "tcp_server", "open") = D!ParserTcpServerOpen(doc) \o D!MakeAddress(doc)
    BY DEF D!Phases
  <1>4. \A app \in D!Clients : D!Phases(doc, app, "data") = D!ParserClientData(doc)
    BY DEF D!Phases
  <1>5. \A app \in D!EndpointApps \ D!Clients : D!Phases(doc, app, "data") = D!ParserServerData(doc)
    BY DEF D!Phases
  <1>6. /\ D!Phases(doc, "tcp_server", "custom") = D!ParserCloseClients(doc)
        /\ D!Phases(doc, "serial", "open") = D!ParserSerialConfig(doc)
        /\ D!Phases(doc, "serial", "close") = D!ParserSerialClose(doc)
        /\ D!Phases(doc, "serial", "data") = D!ParserSerialData(doc)
        /\ D!Phases(doc, "monitor", "status") = D!ParserMonitor(doc)
        /\ D!Phases(doc, "echo", "data") = D!ParserEcho(doc)
    BY DEF D!Phases
  <1> QED
    BY <1>1, <1>2, <1>3, <1>4, <1>5, <1>6, Zenon

LEMMA SomePhases ==
    ASSUME NEW doc
    PROVE  <<>> \notin {D!ParserEndpoint(doc), D!ParserUdpClientOpen(doc), D!ParserTcpClientOpen(doc),
                        D!ParserClientData(doc), D!ParserServerData(doc), D!ParserCloseClients(doc),
                        D!ParserSerialConfig(doc), D!ParserSerialClose(doc), D!ParserSerialData(doc),
                        D!ParserMonitor(doc), D!ParserEcho(doc)}
PROOF
  <1>1. /\ \A a, b, c : <<a, b, c>> # <<>>
        /\ \A a, b, c, d : <<a, b, c, d>> # <<>>
        /\ \A a, b, c, d, e : <<a, b, c, d, e>> # <<>>
        /\ \A a, b, c, d, e, f : <<a, b, c, d, e, f>> # <<>>
        /\ \A a, b, c, d, e, f, g, h, i : <<a, b, c, d, e, f, g, h, i>> # <<>>
    OBVIOUS
  <1>2. D!ParserEndpoint(doc) # <<>> /\ D!ParserUdpClientOpen(doc) # <<>>
    BY <1>1, Zenon DEF D!ParserEndpoint, D!ParserUdpClientOpen
  <1>3. D!ParserTcpClientOpen(doc) # <<>> /\ D!ParserClientData(doc) # <<>>
    BY <1>1, Zenon DEF D!ParserTcpClientOpen, D!ParserClientData
  <1>4. D!ParserServerData(doc) # <<>> /\ D!ParserCloseClients(doc) # <<>>
    BY <1>1, Zenon DEF D!ParserServerData, D!ParserCloseClients
  <1>5. D!ParserSerialConfig(doc) # <<>>
    BY <1>1, Zenon DEF D!ParserSerialConfig
  <1>6. D!ParserSerialClose(doc) # <<>> /\ D!ParserSerialData(doc) # <<>>
    BY <1>1, Zenon DEF D!ParserSerialClose, D!ParserSerialData
  <1>7. D!ParserMonitor(doc) # <<>> /\ D!ParserEcho(doc) # <<>>
    BY <1>1, Zenon DEF D!ParserMonitor, D!ParserEcho
  <1> QED
    BY <1>2, <1>3, <1>4, <1>5, <1>6, <1>7

(***************************************************************************)
(* What a judgement says of a request that is handled: the parser of its   *)
(* handler accepts it, or it asks for a status and has no parser.          *)
(***************************************************************************)
Handled(j) ==
    /\ j.main = "accepted"
    /\ \/ j.parsed /\ j.verdict = "accepted"
       \/ ~j.parsed /\ j.request \in {<<app, "status">> : app \in D!EndpointApps \union {"serial"}}

Judgement(doc) == M!Judge(doc, M!Apps, WellFormed)

LEMMA AcceptedIsHandled ==
    ASSUME NEW doc, NEW app \in M!Apps, NEW control \in M!Controls \union {"data"}, Heads(doc, app, control),
           D!Phases(doc, app, control) # <<>>, D!Passes(D!Phases(doc, app, control))
    PROVE  Handled(Judgement(doc))
PROOF
  <1>1. PICK j : j = M!Judge(doc, M!Apps, WellFormed)
    OBVIOUS
  <1>2. /\ j.main = "accepted" /\ j.parsed = (D!Phases(doc, app, control) # <<>>)
        /\ j.verdict = D!Verdict(D!Phases(doc, app, control))
    BY <1>1, JudgedAs
  <1> QED
    BY <1>1, <1>2 DEF Handled, Judgement, D!Passes

LEMMA StatusIsHandled ==
    ASSUME NEW app \in M!EndpointApps \union {"serial"}
    PROVE  Handled(Judgement(Control(app, "status")))
PROOF
  <1> DEFINE doc == Control(app, "status")
  <1>1. app \in M!Apps /\ app \in D!EndpointApps \union {"serial"} /\ "status" \in M!Controls
    BY DEF M!Apps, M!EndpointApps, D!EndpointApps, M!Controls
  <1>2. Heads(doc, app, "status")
    BY HeadMade DEF Heading
  <1> HIDE DEF doc
  <1>3. PICK j : j = M!Judge(doc, M!Apps, WellFormed)
    OBVIOUS
  <1>4. D!Phases(doc, app, "status") = <<>>
    BY <1>1, PhasesAre
  <1>5. /\ j.main = "accepted" /\ j.request = <<app, "status">>
        /\ j.parsed = (D!Phases(doc, app, "status") # <<>>)
    BY <1>1, <1>2, <1>3, JudgedAs
  <1>6. ~j.parsed
    BY <1>4, <1>5
  <1>7. Handled(j)
    BY <1>1, <1>5, <1>6 DEF Handled
  <1> QED
    BY <1>3, <1>7 DEF Judgement, doc

-----------------------------------------------------------------------------
\* The paths of the requests.
LEMMA Spots ==
    /\ {"secure", "options", "keepalive", "idle", "interval", "count", "type", "sample_time", "cont",
        "char_size", "port", "local", "from", "to", "data", "server", "client", "1", "2"} \subseteq Key
    /\ D!SerialUints \subseteq Key
    /\ \A k \in Key : <<k>> \in Path /\ <<k>> # <<>> /\ <<k>>[1] = k /\ D!Data \o <<k>> = D!Sub(k)
    /\ \A k, l \in Key :
          /\ <<k, l>> \in Path /\ <<k, l>> # <<>> /\ <<k, l>>[1] = k
          /\ D!Data \o <<k, l>> = <<"data", k, l>>
PROOF
  <1>1. {"secure", "options", "keepalive", "idle", "interval", "count", "type", "sample_time", "cont",
         "char_size", "port", "local", "from", "to", "data", "server", "client", "1", "2"} \subseteq Key
    BY DEF Key
  <1>2. D!SerialUints \subseteq Key
    BY DEF Key, D!SerialUints
  <1>3. ASSUME NEW k \in Key
        PROVE  <<k>> \in Path /\ <<k>> # <<>> /\ <<k>>[1] = k /\ D!Data \o <<k>> = D!Sub(k)
    BY Paths, Places
  <1>4. ASSUME NEW k \in Key, NEW l \in Key
        PROVE  /\ <<k, l>> \in Path /\ <<k, l>> # <<>> /\ <<k, l>>[1] = k
               /\ D!Data \o <<k, l>> = <<"data", k, l>>
    BY Paths, Places
  <1> QED
    BY <1>1, <1>2, <1>3, <1>4

\* Members of one name each, of the same value.
LEMMA ValuesHold ==
    ASSUME NEW names, names \subseteq Key, NEW v
    PROVE  /\ Doc(Values(names, v)) /\ \A name \in names : Holds(Values(names, v), <<name>>, v)
           /\ \A p \in DOMAIN Values(names, v) : \E name \in names : p = <<name>>
PROOF
  <1>1. DOMAIN Values(names, v) = {<<name>> : name \in names} /\ \A p \in DOMAIN Values(names, v) : Values(names, v)[p] = v
    BY DEF Values
  <1>2. \A name \in names : <<name>> \in Path
    BY Paths
  <1> QED
    BY <1>1, <1>2 DEF Doc, Holds

\* The body of an open.
LEMMA OpenBody ==
    ASSUME NEW port, NEW options \in {M!Empty, KeepAlive}
    PROVE  LET m == M!Endpoint(port) ++ M!Secure("plain") ++ options
           IN  Doc(m) /\ HoldsEndpoint(m, <<>>, port) /\ Holds(m, <<"secure">>, D!Text("plain"))
PROOF
  <1> DEFINE e == D!Endpoint(port)
             s == D!Secure("plain")
             es == D!++(e, s)
  <1>1. /\ Doc(e) /\ HoldsEndpoint(e, <<>>, port) /\ <<"secure">> \notin DOMAIN e
    <2>1. /\ Doc(e) /\ HoldsEndpoint(e, <<>>, port)
          /\ \A q \in Path : q # <<>> /\ q[1] \notin {"addr", "port"} => Clear(e, q)
      BY EndpointMade
    <2>2. <<"secure">> \in Path /\ <<"secure">> # <<>> /\ <<"secure">>[1] \notin {"addr", "port"}
      BY Spots
    <2>3. <<"secure">> \o <<>> = <<"secure">> /\ <<>> \in Path
      BY <2>2, Paths, PathsJoin
    <2> QED
      BY <2>1, <2>2, <2>3 DEF Clear
  <1>2. Doc(s) /\ Holds(s, <<"secure">>, D!Text("plain"))
    BY Spots, Alone DEF D!Secure
  <1>3. Doc(options)
    <2>1. Doc(D!Empty)
      BY EmptyHolds
    <2>2. Doc(KeepAlive)
      <3> DEFINE k == D!Member(<<"keepalive">>, D!Bool)
                 n == Values({"idle", "interval", "count"}, D!Number(1))
      <3>1. {"idle", "interval", "count"} \subseteq Key /\ <<"keepalive">> \in Path /\ <<"options">> \in Path
        BY Spots
      <3>2. Doc(k) /\ Doc(n)
        BY <3>1, Alone, ValuesHold
      <3>3. KeepAlive = D!Below(<<"options">>, D!++(D!++(D!Empty, k), n))
        BY SameMakers DEF KeepAlive
      <3> HIDE DEF k, n
      <3>4. Doc(D!++(D!++(D!Empty, k), n))
        BY <2>1, <3>2, Together
      <3> QED
        BY <3>1, <3>3, <3>4, Placed
    <2> QED
      BY <2>1, <2>2, SameMakers
  <1>4. M!Endpoint(port) ++ M!Secure("plain") ++ options = D!++(es, options)
    BY SameMakers
  <1> HIDE DEF e, s
  <1>5. Doc(es) /\ HoldsEndpoint(es, <<>>, port) /\ Holds(es, <<"secure">>, D!Text("plain"))
    BY <1>1, <1>2, Together, EndpointJoins, Paths
  <1> HIDE DEF es
  <1>6. /\ Doc(D!++(es, options)) /\ HoldsEndpoint(D!++(es, options), <<>>, port)
        /\ Holds(D!++(es, options), <<"secure">>, D!Text("plain"))
    BY <1>3, <1>5, Together, EndpointJoins, Paths
  <1> QED
    BY <1>4, <1>6

\* The body of a client's data.
LEMMA ClientDataBody ==
    ASSUME NEW port
    PROVE  LET m == EndpointIn("local", port) ++ M!Payload
           IN  Doc(m) /\ HoldsEndpoint(m, <<"local">>, port) /\ HoldsPayload(m, <<"data">>)
PROOF
  <1> DEFINE l == D!Below(<<"local">>, D!Endpoint(port))
  <1>1. <<"local">> \in Path /\ <<"data">> \in Path /\ Apart(<<"data">>, <<"local">>)
    BY Spots, KeysApart
  <1>2. Doc(l) /\ HoldsEndpoint(l, <<"local">>, port) /\ Clear(l, <<"data">>)
    BY <1>1, EndpointBelow
  <1>3. EndpointIn("local", port) ++ M!Payload = D!++(l, D!Payload)
    BY SameMakers DEF EndpointIn
  <1> HIDE DEF l
  <1>4. /\ Doc(D!++(l, D!Payload)) /\ HoldsEndpoint(D!++(l, D!Payload), <<"local">>, port)
        /\ HoldsPayload(D!++(l, D!Payload), <<"data">>)
    BY <1>1, <1>2, PayloadMade, Together, EndpointJoins, PayloadMoves
  <1> QED
    BY <1>3, <1>4

\* The body of a server's data.
LEMMA ServerDataBody ==
    ASSUME NEW port, NEW peer
    PROVE  LET m == DataFrom(port, peer)
           IN  /\ Doc(m) /\ HoldsEndpoint(m, <<"from">>, port) /\ HoldsPayload(m, <<"data">>)
               /\ Holds(m, <<"to">>, D!Array) /\ HoldsEndpoint(m, <<"to", "1">>, peer)
               /\ Clear(m, <<"to", "2">>)
PROOF
  <1> DEFINE f == D!Below(<<"from">>, D!Endpoint(port))
             t == D!Member(<<"to">>, D!Array)
             c == D!Below(<<"to", "1">>, D!Endpoint(peer))
             said == D!++(f, D!Payload)
             list == D!++(said, t)
             all == D!++(list, c)
  <1>1. /\ {"from", "to", "data", "1", "2"} \subseteq Key
        /\ <<"from">> \in Path /\ <<"to">> \in Path /\ <<"data">> \in Path
        /\ <<"to", "1">> \in Path /\ <<"to", "2">> \in Path
        /\ <<"to">>[1] # "data" /\ <<"to", "1">>[1] # "data" /\ <<"to", "2">>[1] # "data"
        /\ <<"to">> # <<>> /\ <<"to", "1">> # <<>> /\ <<"to", "2">> # <<>>
    BY Spots
  <1>2. /\ Apart(<<"data">>, <<"from">>) /\ Apart(<<"to">>, <<"from">>)
        /\ Apart(<<"to", "1">>, <<"from">>) /\ Apart(<<"to", "2">>, <<"from">>)
        /\ Apart(<<"to", "2">>, <<"to", "1">>) /\ Apart(<<"data">>, <<"to">>)
        /\ Apart(<<"data">>, <<"to", "1">>)
    BY <1>1, KeysApart
  <1>3. /\ Doc(f) /\ HoldsEndpoint(f, <<"from">>, port)
        /\ Clear(f, <<"data">>) /\ Clear(f, <<"to">>) /\ Clear(f, <<"to", "1">>) /\ Clear(f, <<"to", "2">>)
    BY <1>1, <1>2, EndpointBelow
  <1>4. /\ Doc(t) /\ Holds(t, <<"to">>, D!Array)
        /\ Clear(t, <<"data">>) /\ Clear(t, <<"to", "1">>) /\ Clear(t, <<"to", "2">>)
    <2>1. Len(<<"to">>) < Len(<<"to", "1">>) /\ Len(<<"to">>) < Len(<<"to", "2">>)
      OBVIOUS
    <2> QED
      BY <1>1, <1>2, <2>1, Alone
  <1>5. /\ Doc(c) /\ HoldsEndpoint(c, <<"to", "1">>, peer) /\ Clear(c, <<"data">>) /\ Clear(c, <<"to", "2">>)
    BY <1>1, <1>2, EndpointBelow
  <1>6. DataFrom(port, peer) = all
    BY SameMakers DEF DataFrom, EndpointIn
  <1> HIDE DEF f, t, c
  <1>7. /\ Doc(D!Payload) /\ HoldsPayload(D!Payload, <<"data">>)
        /\ Clear(D!Payload, <<"to">>) /\ Clear(D!Payload, <<"to", "1">>) /\ Clear(D!Payload, <<"to", "2">>)
    BY <1>1, PayloadMade
  <1>8. /\ Doc(said) /\ HoldsEndpoint(said, <<"from">>, port) /\ HoldsPayload(said, <<"data">>)
        /\ Clear(said, <<"to">>) /\ Clear(said, <<"to", "1">>) /\ Clear(said, <<"to", "2">>)
    BY <1>1, <1>3, <1>7, Together, EndpointJoins, PayloadMoves
  <1> HIDE DEF said
  <1>9. <<"to">> \notin DOMAIN said
    <2>1. <<"to">> \o <<>> = <<"to">> /\ <<>> \in Path
      BY <1>1, Paths, PathsJoin
    <2> QED
      BY <1>8, <2>1 DEF Clear
  <1>10. /\ Doc(list) /\ HoldsEndpoint(list, <<"from">>, port) /\ HoldsPayload(list, <<"data">>)
         /\ Holds(list, <<"to">>, D!Array) /\ Clear(list, <<"to", "1">>) /\ Clear(list, <<"to", "2">>)
    BY <1>1, <1>4, <1>8, <1>9, Together, EndpointJoins, PayloadMoves
  <1> HIDE DEF list
  <1>11. /\ Doc(all) /\ HoldsEndpoint(all, <<"from">>, port) /\ HoldsPayload(all, <<"data">>)
         /\ Holds(all, <<"to">>, D!Array) /\ HoldsEndpoint(all, <<"to", "1">>, peer)
         /\ Clear(all, <<"to", "2">>)
    BY <1>1, <1>5, <1>10, Together, EndpointJoins, PayloadMoves
  <1> QED
    BY <1>6, <1>11

\* The body of "close client".
LEMMA CustomBody ==
    ASSUME NEW port, NEW peer
    PROVE  LET m == EndpointIn("server", port) ++ EndpointIn("client", peer)
           IN  Doc(m) /\ HoldsEndpoint(m, <<"server">>, port) /\ HoldsEndpoint(m, <<"client">>, peer)
PROOF
  <1> DEFINE s == D!Below(<<"server">>, D!Endpoint(port))
             c == D!Below(<<"client">>, D!Endpoint(peer))
  <1>1. <<"server">> \in Path /\ <<"client">> \in Path /\ Apart(<<"client">>, <<"server">>)
    BY Spots, KeysApart
  <1>2. /\ Doc(s) /\ HoldsEndpoint(s, <<"server">>, port) /\ Clear(s, <<"client">>)
        /\ Doc(c) /\ HoldsEndpoint(c, <<"client">>, peer)
    BY <1>1, EndpointBelow
  <1>3. EndpointIn("server", port) ++ EndpointIn("client", peer) = D!++(s, c)
    BY SameMakers DEF EndpointIn
  <1> HIDE DEF s, c
  <1>4. /\ Doc(D!++(s, c)) /\ HoldsEndpoint(D!++(s, c), <<"server">>, port)
        /\ HoldsEndpoint(D!++(s, c), <<"client">>, peer)
    BY <1>1, <1>2, Together, EndpointJoins
  <1> QED
    BY <1>3, <1>4

\* The bodies that name a serial port.
LEMMA SerialBody ==
    /\ Doc(SerialPort) /\ Holds(SerialPort, <<"port">>, D!Text("tty"))
    /\ LET m == SerialPort ++ M!Payload
       IN  Doc(m) /\ Holds(m, <<"port">>, D!Text("tty")) /\ HoldsPayload(m, <<"data">>)
    /\ \A size, option :
          LET m == SerialPort ++ SerialOptions(size, option)
          IN  /\ Doc(m) /\ Holds(m, <<"port">>, D!Text("tty"))
              /\ Holds(m, <<"char_size">>, D!Number(size))
              /\ \A o \in D!SerialUints \ {"char_size"} : Holds(m, <<o>>, D!Number(option))
PROOF
  <1>1. /\ {"port", "data", "char_size"} \subseteq Key
        /\ <<"port">> \in Path /\ <<"data">> \in Path /\ <<"char_size">> \in Path
        /\ Apart(<<"data">>, <<"port">>) /\ D!SerialUints \subseteq Key
    BY Spots, KeysApart
  <1>2. /\ Doc(SerialPort) /\ Holds(SerialPort, <<"port">>, D!Text("tty")) /\ Clear(SerialPort, <<"data">>)
        /\ DOMAIN SerialPort = {<<"port">>}
    <2>1. SerialPort = D!Member(<<"port">>, D!Text("tty"))
      BY SameMakers DEF SerialPort
    <2>2. DOMAIN SerialPort = {<<"port">>}
      BY <2>1 DEF D!Member
    <2> QED
      BY <1>1, <2>1, <2>2, Alone
  <1>3. LET m == SerialPort ++ M!Payload
        IN  Doc(m) /\ Holds(m, <<"port">>, D!Text("tty")) /\ HoldsPayload(m, <<"data">>)
    <2>1. SerialPort ++ M!Payload = D!++(SerialPort, D!Payload)
      BY SameMakers
    <2>2. /\ Doc(D!++(SerialPort, D!Payload)) /\ Holds(D!++(SerialPort, D!Payload), <<"port">>, D!Text("tty"))
          /\ HoldsPayload(D!++(SerialPort, D!Payload), <<"data">>)
      BY <1>1, <1>2, PayloadMade, Together, PayloadMoves
    <2> QED
      BY <2>1, <2>2
  <1>4. ASSUME NEW size, NEW option
        PROVE  LET m == SerialPort ++ SerialOptions(size, option)
               IN  /\ Doc(m) /\ Holds(m, <<"port">>, D!Text("tty"))
                   /\ Holds(m, <<"char_size">>, D!Number(size))
                   /\ \A o \in D!SerialUints \ {"char_size"} : Holds(m, <<o>>, D!Number(option))
    <2> DEFINE c == D!Member(<<"char_size">>, D!Number(size))
               n == Values(D!SerialUints, D!Number(option))
               o == D!++(c, n)
    <2>1. SerialPort ++ SerialOptions(size, option) = D!++(SerialPort, o)
      <3>1. M!SerialUints = D!SerialUints
        BY DEF M!SerialUints, D!SerialUints
      <3> QED
        BY <3>1, SameMakers DEF SerialOptions
    <2>2. /\ Doc(c) /\ Holds(c, <<"char_size">>, D!Number(size)) /\ DOMAIN c = {<<"char_size">>}
      <3>1. DOMAIN c = {<<"char_size">>}
        BY DEF D!Member
      <3> QED
        BY <1>1, <3>1, Alone
    <2>3. Doc(n) /\ \A k \in D!SerialUints : Holds(n, <<k>>, D!Number(option))
      BY <1>1, ValuesHold
    <2> HIDE DEF c, n
    <2>4. \A k \in D!SerialUints \ {"char_size"} : <<k>> \notin DOMAIN c
      BY <2>2
    <2>5. /\ Doc(o) /\ Holds(o, <<"char_size">>, D!Number(size))
          /\ \A k \in D!SerialUints \ {"char_size"} : Holds(o, <<k>>, D!Number(option))
      BY <2>2, <2>3, <2>4, Together
    <2>6. /\ <<"char_size">> \notin DOMAIN SerialPort
          /\ \A k \in D!SerialUints : <<k>> \notin DOMAIN SerialPort
      <3>1. "port" \notin D!SerialUints
        BY DEF D!SerialUints
      <3> QED
        BY <1>2, <3>1
    <2> HIDE DEF o
    <2>7. /\ Doc(D!++(SerialPort, o)) /\ Holds(D!++(SerialPort, o), <<"port">>, D!Text("tty"))
          /\ Holds(D!++(SerialPort, o), <<"char_size">>, D!Number(size))
          /\ \A k \in D!SerialUints \ {"char_size"} : Holds(D!++(SerialPort, o), <<k>>, D!Number(option))
      BY <1>2, <2>5, <2>6, Together
    <2> QED
      BY <2>1, <2>7
  <1> QED
    BY <1>2, <1>3, <1>4

\* The bodies of the monitor's requests, and of the echo's.
LEMMA TypedBody ==
    /\ LET m == M!Member(<<"type">>, M!Text("set")) ++ M!Member(<<"sample_time">>, M!Number(1))
                    ++ M!Member(<<"cont">>, M!Bool)
       IN  /\ Doc(m) /\ Holds(m, <<"type">>, D!Text("set"))
           /\ Holds(m, <<"sample_time">>, D!Number(1)) /\ Holds(m, <<"cont">>, D!Bool)
    /\ \A type :
          /\ Doc(M!Member(<<"type">>, M!Text(type)))
          /\ Holds(M!Member(<<"type">>, M!Text(type)), <<"type">>, D!Text(type))
          /\ LET m == M!Member(<<"type">>, M!Text(type)) ++ M!Payload
             IN  Doc(m) /\ Holds(m, <<"type">>, D!Text(type)) /\ HoldsPayload(m, <<"data">>)
PROOF
  <1>1. /\ <<"type">> \in Path /\ <<"sample_time">> \in Path /\ <<"cont">> \in Path /\ <<"data">> \in Path
        /\ Apart(<<"data">>, <<"type">>)
    BY Spots, KeysApart
  <1>2. ASSUME NEW type
        PROVE  /\ M!Member(<<"type">>, M!Text(type)) = D!Member(<<"type">>, D!Text(type))
               /\ Doc(D!Member(<<"type">>, D!Text(type)))
               /\ Holds(D!Member(<<"type">>, D!Text(type)), <<"type">>, D!Text(type))
               /\ Clear(D!Member(<<"type">>, D!Text(type)), <<"data">>)
               /\ DOMAIN D!Member(<<"type">>, D!Text(type)) = {<<"type">>}
    <2>1. DOMAIN D!Member(<<"type">>, D!Text(type)) = {<<"type">>}
      BY DEF D!Member
    <2> QED
      BY <1>1, <2>1, SameMakers, Alone
  <1>3. LET m == M!Member(<<"type">>, M!Text("set")) ++ M!Member(<<"sample_time">>, M!Number(1))
                    ++ M!Member(<<"cont">>, M!Bool)
        IN  /\ Doc(m) /\ Holds(m, <<"type">>, D!Text("set"))
            /\ Holds(m, <<"sample_time">>, D!Number(1)) /\ Holds(m, <<"cont">>, D!Bool)
    <2> DEFINE t == D!Member(<<"type">>, D!Text("set"))
               s == D!Member(<<"sample_time">>, D!Number(1))
               c == D!Member(<<"cont">>, D!Bool)
               ts == D!++(t, s)
    <2>1. M!Member(<<"type">>, M!Text("set")) ++ M!Member(<<"sample_time">>, M!Number(1))
              ++ M!Member(<<"cont">>, M!Bool) = D!++(ts, c)
      BY SameMakers
    <2>2. /\ Doc(t) /\ Holds(t, <<"type">>, D!Text("set")) /\ DOMAIN t = {<<"type">>}
          /\ Doc(s) /\ Holds(s, <<"sample_time">>, D!Number(1)) /\ DOMAIN s = {<<"sample_time">>}
          /\ Doc(c) /\ Holds(c, <<"cont">>, D!Bool)
      <3>1. DOMAIN s = {<<"sample_time">>}
        BY DEF D!Member
      <3> QED
        BY <1>1, <1>2, <3>1, Alone
    <2>3. <<"sample_time">> # <<"type">> /\ <<"cont">> # <<"type">> /\ <<"cont">> # <<"sample_time">>
      OBVIOUS
    <2> HIDE DEF t, s, c
    <2>4. /\ Doc(ts) /\ Holds(ts, <<"type">>, D!Text("set")) /\ Holds(ts, <<"sample_time">>, D!Number(1))
          /\ <<"cont">> \notin DOMAIN ts
      <3>1. <<"cont">> \notin DOMAIN ts
        BY <2>2, <2>3 DEF D!++
      <3>2. <<"sample_time">> \notin DOMAIN t
        BY <2>2, <2>3
      <3> QED
        BY <2>2, <3>1, <3>2, Together
    <2> HIDE DEF ts
    <2>5. /\ Doc(D!++(ts, c)) /\ Holds(D!++(ts, c), <<"type">>, D!Text("set"))
          /\ Holds(D!++(ts, c), <<"sample_time">>, D!Number(1)) /\ Holds(D!++(ts, c), <<"cont">>, D!Bool)
      BY <2>2, <2>4, Together
    <2> QED
      BY <2>1, <2>5
  <1>4. ASSUME NEW type
        PROVE  LET m == M!Member(<<"type">>, M!Text(type)) ++ M!Payload
               IN  Doc(m) /\ Holds(m, <<"type">>, D!Text(type)) /\ HoldsPayload(m, <<"data">>)
    <2> DEFINE t == D!Member(<<"type">>, D!Text(type))
    <2>1. M!Member(<<"type">>, M!Text(type)) ++ M!Payload = D!++(t, D!Payload)
      BY SameMakers
    <2>2. Doc(t) /\ Holds(t, <<"type">>, D!Text(type)) /\ Clear(t, <<"data">>)
      BY <1>2
    <2> HIDE DEF t
    <2>3. /\ Doc(D!++(t, D!Payload)) /\ Holds(D!++(t, D!Payload), <<"type">>, D!Text(type))
          /\ HoldsPayload(D!++(t, D!Payload), <<"data">>)
      BY <1>1, <2>2, PayloadMade, Together, PayloadMoves
    <2> QED
      BY <2>1, <2>3
  <1> QED
    BY <1>2, <1>3, <1>4

-----------------------------------------------------------------------------
\* The names of the apps and of their controls.
LEMMA Names ==
    /\ M!EndpointApps = D!EndpointApps /\ M!Clients = D!Clients
    /\ D!EndpointApps = {"tcp_server", "tcp_client", "udp_server", "udp_client"}
    /\ D!Clients = {"tcp_client", "udp_client"}
    /\ D!EndpointApps \union {"serial", "monitor", "echo"} \subseteq M!Apps
    /\ {"status", "open", "close", "custom"} \subseteq M!Controls
    /\ Sizes = D!CharSizes /\ Encodings = D!EchoTypes
PROOF
  <1>1. /\ M!EndpointApps = D!EndpointApps /\ M!Clients = D!Clients
        /\ D!EndpointApps = {"tcp_server", "tcp_client", "udp_server", "udp_client"}
        /\ D!Clients = {"tcp_client", "udp_client"}
    BY DEF M!EndpointApps, D!EndpointApps, M!Clients, D!Clients
  <1>2. /\ D!EndpointApps \union {"serial", "monitor", "echo"} \subseteq M!Apps
        /\ {"status", "open", "close", "custom"} \subseteq M!Controls
    BY <1>1 DEF M!Apps, M!Controls
  <1>3. Sizes = D!CharSizes /\ Encodings = D!EchoTypes
    BY DEF Sizes, D!CharSizes, Encodings, D!EchoTypes
  <1> QED
    BY <1>1, <1>2, <1>3

\* The requests that name endpoints are handled, whatever the ports.
LEMMA EndpointRequestsHandled ==
    ASSUME NEW port \in ValidPort, NEW peer \in ValidPort, NEW doc \in EndpointRequests(port, peer)
    PROVE  Handled(Judgement(doc))
PROOF
  <1>0. port \in Ports /\ peer \in Ports
    <2>1. \A p \in ValidPort : p \in Int /\ M!IsValidPort(p)
      BY PortsAssumption DEF ValidPort
    <2>2. \A p \in ValidPort : p \in Ports
      BY <2>1, PortsAssumption DEF M!IsValidPort, Ports
    <2> QED
      BY <2>2
  <1>1. ASSUME NEW app \in M!EndpointApps, doc = Control(app, "close") ++ Body(M!Endpoint(port))
        PROVE  Handled(Judgement(doc))
    <2>1. /\ doc = Heading(app, "close") ++ Body(D!Endpoint(port))
          /\ Doc(D!Endpoint(port)) /\ HoldsEndpoint(D!Endpoint(port), <<>>, port)
      BY <1>1, SameMakers, EndpointMade DEF Heading
    <2>2. /\ Heads(doc, app, "close") /\ Holds(doc, D!Data, D!Object) /\ HoldsEndpoint(doc, D!Data, port)
      BY <2>1, BodyHas
    <2>3. D!Passes(D!ParserEndpoint(doc)) /\ D!Phases(doc, app, "close") = D!ParserEndpoint(doc)
      BY <1>0, <1>1, <2>2, EndpointPasses, PhasesAre, Names
    <2> QED
      BY <1>1, <2>2, <2>3, SomePhases, Names, AcceptedIsHandled
  <1>2. ASSUME NEW app \in {"udp_server", "udp_client"}, doc = Control(app, "open") ++ Body(M!Endpoint(port))
        PROVE  Handled(Judgement(doc))
    <2>1. /\ doc = Heading(app, "open") ++ Body(D!Endpoint(port))
          /\ Doc(D!Endpoint(port)) /\ HoldsEndpoint(D!Endpoint(port), <<>>, port)
      BY <1>2, SameMakers, EndpointMade DEF Heading
    <2>2. /\ Heads(doc, app, "open") /\ Holds(doc, D!Data, D!Object) /\ HoldsEndpoint(doc, D!Data, port)
      BY <2>1, BodyHas
    <2>3. D!Passes(D!ParserEndpoint(doc)) /\ D!Passes(D!ParserUdpClientOpen(doc))
      BY <1>0, <2>2, EndpointPasses
    <2>4. D!Phases(doc, app, "open") \in {D!ParserEndpoint(doc), D!ParserUdpClientOpen(doc)}
      BY <1>2, PhasesAre
    <2>5. D!Passes(D!Phases(doc, app, "open")) /\ D!Phases(doc, app, "open") # <<>>
      BY <2>3, <2>4, SomePhases
    <2> QED
      BY <1>2, <2>2, <2>5, Names, AcceptedIsHandled
  <1>3. ASSUME NEW app \in {"tcp_server", "tcp_client"}, NEW options \in {M!Empty, KeepAlive},
               doc = Control(app, "open") ++ Body(M!Endpoint(port) ++ M!Secure("plain") ++ options)
        PROVE  Handled(Judgement(doc))
    <2> DEFINE m == M!Endpoint(port) ++ M!Secure("plain") ++ options
    <2>1. Doc(m) /\ HoldsEndpoint(m, <<>>, port) /\ Holds(m, <<"secure">>, D!Text("plain"))
      BY <1>3, OpenBody
    <2>2. doc = Heading(app, "open") ++ Body(m)
      BY <1>3 DEF Heading
    <2> HIDE DEF m
    <2>3. /\ Heads(doc, app, "open") /\ Holds(doc, D!Data, D!Object) /\ HoldsEndpoint(doc, D!Data, port)
          /\ \A q \in Path : \A v : q # <<>> /\ Holds(m, q, v) => Holds(doc, D!Data \o q, v)
      BY <2>1, <2>2, BodyHas
    <2>4. Holds(doc, D!Sub("secure"), D!Text("plain"))
      <3>1. <<"secure">> \in Path /\ <<"secure">> # <<>> /\ D!Data \o <<"secure">> = D!Sub("secure")
        BY Spots
      <3>2. Holds(doc, D!Data \o <<"secure">>, D!Text("plain"))
        BY <2>1, <2>3, <3>1
      <3> QED
        BY <3>1, <3>2
    <2>5. /\ D!Passes(D!ParserTcpClientOpen(doc))
          /\ D!ParserTcpServerOpen(doc) \o D!MakeAddress(doc) # <<>>
          /\ D!Passes(D!ParserTcpServerOpen(doc) \o D!MakeAddress(doc))
      BY <1>0, <2>3, <2>4, EndpointPasses
    <2>6. D!Phases(doc, app, "open") \in
             {D!ParserTcpClientOpen(doc), D!ParserTcpServerOpen(doc) \o D!MakeAddress(doc)}
      BY <1>3, PhasesAre
    <2>7. D!Passes(D!Phases(doc, app, "open")) /\ D!Phases(doc, app, "open") # <<>>
      BY <2>5, <2>6, SomePhases
    <2> QED
      BY <1>3, <2>3, <2>7, Names, AcceptedIsHandled
  <1>4. ASSUME NEW app \in M!Clients, doc = Data(app) ++ Body(EndpointIn("local", port) ++ M!Payload)
        PROVE  Handled(Judgement(doc))
    <2> DEFINE m == EndpointIn("local", port) ++ M!Payload
    <2>1. Doc(m) /\ HoldsEndpoint(m, <<"local">>, port) /\ HoldsPayload(m, <<"data">>)
      BY ClientDataBody
    <2>2. doc = Heading(app, "data") ++ Body(m)
      BY <1>4 DEF Heading
    <2> HIDE DEF m
    <2>3. /\ Doc(doc) /\ Heads(doc, app, "data") /\ Holds(doc, D!Data, D!Object)
          /\ HoldsEndpoint(doc, D!Data \o <<"local">>, port) /\ HoldsPayload(doc, D!Data \o <<"data">>)
      BY <2>1, <2>2, Spots, BodyHas
    <2>4. HoldsEndpoint(doc, D!Sub("local"), port) /\ HoldsPayload(doc, D!Sub("data"))
      BY <2>3, Spots
    <2>5. D!Passes(D!ParserClientData(doc)) /\ D!Phases(doc, app, "data") = D!ParserClientData(doc)
      BY <1>0, <1>4, <2>3, <2>4, ClientDataPasses, PhasesAre, Names
    <2> QED
      BY <1>4, <2>3, <2>5, SomePhases, Names, AcceptedIsHandled
  <1>5. ASSUME NEW app \in M!EndpointApps \ M!Clients, doc = Data(app) ++ Body(DataFrom(port, peer))
        PROVE  Handled(Judgement(doc))
    <2> DEFINE m == DataFrom(port, peer)
    <2>1. /\ Doc(m) /\ HoldsEndpoint(m, <<"from">>, port) /\ HoldsPayload(m, <<"data">>)
          /\ Holds(m, <<"to">>, D!Array) /\ HoldsEndpoint(m, <<"to", "1">>, peer)
          /\ Clear(m, <<"to", "2">>)
      BY ServerDataBody
    <2>2. doc = Heading(app, "data") ++ Body(m)
      BY <1>5 DEF Heading
    <2> HIDE DEF m
    <2>3. /\ Doc(doc) /\ Heads(doc, app, "data") /\ Holds(doc, D!Data, D!Object)
          /\ HoldsEndpoint(doc, D!Data \o <<"from">>, port) /\ HoldsPayload(doc, D!Data \o <<"data">>)
          /\ Holds(doc, D!Data \o <<"to">>, D!Array) /\ HoldsEndpoint(doc, D!Data \o <<"to", "1">>, peer)
          /\ Clear(doc, D!Data \o <<"to", "2">>)
      BY <2>1, <2>2, Spots, BodyHas
    <2>4. /\ HoldsEndpoint(doc, D!Sub("from"), port) /\ HoldsPayload(doc, D!Sub("data"))
          /\ Holds(doc, D!Sub("to"), D!Array) /\ HoldsEndpoint(doc, <<"data", "to", "1">>, peer)
          /\ Clear(doc, <<"data", "to", "2">>)
      BY <2>3, Spots
    <2>5. <<"data", "to", "2">> \notin DOMAIN doc
      <3>1. <<"data", "to", "2">> \in Path /\ <<>> \in Path
        BY Spots, Paths
      <3>2. <<"data", "to", "2">> \o <<>> = <<"data", "to", "2">>
        BY <3>1, PathsJoin
      <3> QED
        BY <2>4, <3>1, <3>2 DEF Clear
    <2>6. D!Passes(D!ParserServerData(doc))
      BY <1>0, <2>3, <2>4, <2>5, ServerDataPasses
    <2>7. D!Phases(doc, app, "data") = D!ParserServerData(doc)
      BY <1>5, PhasesAre, Names
    <2> QED
      BY <1>5, <2>3, <2>6, <2>7, SomePhases, Names, AcceptedIsHandled
  <1>6. ASSUME doc = Control("tcp_server", "custom")
                         ++ Body(EndpointIn("server", port) ++ EndpointIn("client", peer))
        PROVE  Handled(Judgement(doc))
    <2> DEFINE m == EndpointIn("server", port) ++ EndpointIn("client", peer)
    <2>1. Doc(m) /\ HoldsEndpoint(m, <<"server">>, port) /\ HoldsEndpoint(m, <<"client">>, peer)
      BY CustomBody
    <2>2. doc = Heading("tcp_server", "custom") ++ Body(m)
      BY <1>6 DEF Heading
    <2> HIDE DEF m
    <2>3. /\ Heads(doc, "tcp_server", "custom") /\ Holds(doc, D!Data, D!Object)
          /\ HoldsEndpoint(doc, D!Data \o <<"server">>, port) /\ HoldsEndpoint(doc, D!Data \o <<"client">>, peer)
      BY <2>1, <2>2, Spots, BodyHas
    <2>4. HoldsEndpoint(doc, D!Sub("server"), port) /\ HoldsEndpoint(doc, D!Sub("client"), peer)
      BY <2>3, Spots
    <2>5. /\ D!Passes(D!ParserCloseClients(doc))
          /\ D!Phases(doc, "tcp_server", "custom") = D!ParserCloseClients(doc)
      BY <1>0, <2>3, <2>4, CloseClientPasses, PhasesAre
    <2> QED
      BY <2>3, <2>5, SomePhases, Names, AcceptedIsHandled
  <1>7. \/ \E app \in M!EndpointApps : doc = Control(app, "close") ++ Body(M!Endpoint(port))
        \/ \E app \in {"udp_server", "udp_client"} : doc = Control(app, "open") ++ Body(M!Endpoint(port))
        \/ \E app \in {"tcp_server", "tcp_client"}, options \in {M!Empty, KeepAlive} :
              doc = Control(app, "open") ++ Body(M!Endpoint(port) ++ M!Secure("plain") ++ options)
        \/ \E app \in M!Clients : doc = Data(app) ++ Body(EndpointIn("local", port) ++ M!Payload)
        \/ \E app \in M!EndpointApps \ M!Clients : doc = Data(app) ++ Body(DataFrom(port, peer))
        \/ doc = Control("tcp_server", "custom") ++ Body(EndpointIn("server", port) ++ EndpointIn("client", peer))
    BY DEF EndpointRequests
  <1> QED
    BY <1>1, <1>2, <1>3, <1>4, <1>5, <1>6, <1>7, Zenon

\* The other requests are handled.
LEMMA OtherRequestsHandled == \A doc \in OtherRequests : Handled(Judgement(doc))
PROOF
  <1> SUFFICES ASSUME NEW doc \in OtherRequests PROVE Handled(Judgement(doc))
    OBVIOUS
  <1>1. ASSUME NEW app \in M!EndpointApps \union {"serial"}, doc = Control(app, "status")
        PROVE  Handled(Judgement(doc))
    BY <1>1, StatusIsHandled
  <1>2. ASSUME NEW size \in Sizes, NEW option \in 0 .. 2,
               doc = Control("serial", "open") ++ Body(SerialPort ++ SerialOptions(size, option))
        PROVE  Handled(Judgement(doc))
    <2> DEFINE m == SerialPort ++ SerialOptions(size, option)
    <2>1. /\ Doc(m) /\ Holds(m, <<"port">>, D!Text("tty")) /\ Holds(m, <<"char_size">>, D!Number(size))
          /\ \A o \in D!SerialUints \ {"char_size"} : Holds(m, <<o>>, D!Number(option))
      BY SerialBody
    <2>2. doc = Heading("serial", "open") ++ Body(m)
      BY <1>2 DEF Heading
    <2> HIDE DEF m
    <2>3. /\ Doc(doc) /\ Heads(doc, "serial", "open") /\ Holds(doc, D!Data, D!Object)
          /\ \A q \in Path : \A v : q # <<>> /\ Holds(m, q, v) => Holds(doc, D!Data \o q, v)
      BY <2>1, <2>2, BodyHas
    <2>4. /\ Holds(doc, D!Sub("port"), D!Text("tty")) /\ Holds(doc, D!Sub("char_size"), D!Number(size))
          /\ \A o \in D!SerialUints \ {"char_size"} : Holds(doc, D!Sub(o), D!Number(option))
      <3>1. \A k \in D!SerialUints \union {"port", "char_size"} :
               <<k>> \in Path /\ <<k>> # <<>> /\ D!Data \o <<k>> = D!Sub(k)
        BY Spots
      <3>2. \A k \in D!SerialUints \union {"port", "char_size"} : \A v :
               Holds(m, <<k>>, v) => Holds(doc, D!Sub(k), v)
        <4> SUFFICES ASSUME NEW k \in D!SerialUints \union {"port", "char_size"}, NEW v, Holds(m, <<k>>, v)
                     PROVE  Holds(doc, D!Sub(k), v)
          OBVIOUS
        <4>1. Holds(doc, D!Data \o <<k>>, v)
          BY <2>3, <3>1
        <4> QED
          BY <3>1, <4>1
      <3> QED
        BY <2>1, <3>2
    <2>5. /\ D!Passes(D!ParserSerialConfig(doc)) /\ D!Phases(doc, "serial", "open") = D!ParserSerialConfig(doc)
      BY <1>2, <2>3, <2>4, SerialPasses, PhasesAre, Names
    <2> QED
      BY <2>3, <2>5, SomePhases, Names, AcceptedIsHandled
  <1>3. ASSUME doc = Control("serial", "close") ++ Body(SerialPort)
        PROVE  Handled(Judgement(doc))
    <2>1. doc = Heading("serial", "close") ++ Body(SerialPort)
      BY <1>3 DEF Heading
    <2>2. /\ Doc(doc) /\ Heads(doc, "serial", "close") /\ Holds(doc, D!Data, D!Object)
          /\ Holds(doc, D!Data \o <<"port">>, D!Text("tty"))
      BY <2>1, SerialBody, Spots, BodyHas
    <2>3. Holds(doc, D!Sub("port"), D!Text("tty"))
      BY <2>2, Spots
    <2>4. /\ D!Passes(D!ParserSerialClose(doc)) /\ D!Phases(doc, "serial", "close") = D!ParserSerialClose(doc)
      BY <2>2, <2>3, SerialPasses, PhasesAre
    <2> QED
      BY <2>2, <2>4, SomePhases, Names, AcceptedIsHandled
  <1>4. ASSUME doc = Data("serial") ++ Body(SerialPort ++ M!Payload)
        PROVE  Handled(Judgement(doc))
    <2> DEFINE m == SerialPort ++ M!Payload
    <2>1. Doc(m) /\ Holds(m, <<"port">>, D!Text("tty")) /\ HoldsPayload(m, <<"data">>)
      BY SerialBody
    <2>2. doc = Heading("serial", "data") ++ Body(m)
      BY <1>4 DEF Heading
    <2> HIDE DEF m
    <2>3. /\ Doc(doc) /\ Heads(doc, "serial", "data") /\ Holds(doc, D!Data, D!Object)
          /\ Holds(doc, D!Data \o <<"port">>, D!Text("tty")) /\ HoldsPayload(doc, D!Data \o <<"data">>)
      BY <2>1, <2>2, Spots, BodyHas
    <2>4. Holds(doc, D!Sub("port"), D!Text("tty")) /\ HoldsPayload(doc, D!Sub("data"))
      BY <2>3, Spots
    <2>5. /\ D!Passes(D!ParserSerialData(doc)) /\ D!Phases(doc, "serial", "data") = D!ParserSerialData(doc)
      BY <2>3, <2>4, SerialPasses, PhasesAre
    <2> QED
      BY <2>3, <2>5, SomePhases, Names, AcceptedIsHandled
  <1>5. ASSUME doc = Control("monitor", "status") ++ Body(M!Member(<<"type">>, M!Text("set"))
                         ++ M!Member(<<"sample_time">>, M!Number(1)) ++ M!Member(<<"cont">>, M!Bool))
        PROVE  Handled(Judgement(doc))
    <2> DEFINE m == M!Member(<<"type">>, M!Text("set")) ++ M!Member(<<"sample_time">>, M!Number(1))
                        ++ M!Member(<<"cont">>, M!Bool)
    <2>1. /\ Doc(m) /\ Holds(m, <<"type">>, D!Text("set"))
          /\ Holds(m, <<"sample_time">>, D!Number(1)) /\ Holds(m, <<"cont">>, D!Bool)
      BY TypedBody
    <2>2. doc = Heading("monitor", "status") ++ Body(m)
      BY <1>5 DEF Heading
    <2> HIDE DEF m
    <2>3. /\ Heads(doc, "monitor", "status") /\ Holds(doc, D!Data, D!Object)
          /\ Holds(doc, D!Data \o <<"type">>, D!Text("set"))
          /\ Holds(doc, D!Data \o <<"sample_time">>, D!Number(1)) /\ Holds(doc, D!Data \o <<"cont">>, D!Bool)
      BY <2>1, <2>2, Spots, BodyHas
    <2>4. /\ Holds(doc, D!Sub("type"), D!Text("set"))
          /\ Holds(doc, D!Sub("sample_time"), D!Number(1)) /\ Holds(doc, D!Sub("cont"), D!Bool)
      BY <2>3, Spots
    <2>5. /\ D!Passes(D!ParserMonitor(doc)) /\ D!Phases(doc, "monitor", "status") = D!ParserMonitor(doc)
      BY <2>3, <2>4, MonitorPasses, PhasesAre
    <2> QED
      BY <2>3, <2>5, SomePhases, Names, AcceptedIsHandled
  <1>6. ASSUME doc = Control("monitor", "status") ++ Body(M!Member(<<"type">>, M!Text("cancel")))
        PROVE  Handled(Judgement(doc))
    <2> DEFINE m == M!Member(<<"type">>, M!Text("cancel"))
    <2>1. Doc(m) /\ Holds(m, <<"type">>, D!Text("cancel"))
      BY TypedBody
    <2>2. doc = Heading("monitor", "status") ++ Body(m)
      BY <1>6 DEF Heading
    <2> HIDE DEF m
    <2>3. /\ Heads(doc, "monitor", "status") /\ Holds(doc, D!Data, D!Object)
          /\ Holds(doc, D!Data \o <<"type">>, D!Text("cancel"))
      BY <2>1, <2>2, Spots, BodyHas
    <2>4. Holds(doc, D!Sub("type"), D!Text("cancel"))
      BY <2>3, Spots
    <2>5. /\ D!Passes(D!ParserMonitor(doc)) /\ D!Phases(doc, "monitor", "status") = D!ParserMonitor(doc)
      BY <2>3, <2>4, MonitorPasses, PhasesAre
    <2> QED
      BY <2>3, <2>5, SomePhases, Names, AcceptedIsHandled
  <1>7. ASSUME NEW type \in Encodings, doc = Data("echo") ++ Body(M!Member(<<"type">>, M!Text(type)) ++ M!Payload)
        PROVE  Handled(Judgement(doc))
    <2> DEFINE m == M!Member(<<"type">>, M!Text(type)) ++ M!Payload
    <2>1. Doc(m) /\ Holds(m, <<"type">>, D!Text(type)) /\ HoldsPayload(m, <<"data">>)
      BY TypedBody
    <2>2. doc = Heading("echo", "data") ++ Body(m)
      BY <1>7 DEF Heading
    <2> HIDE DEF m
    <2>3. /\ Doc(doc) /\ Heads(doc, "echo", "data") /\ Holds(doc, D!Data, D!Object)
          /\ Holds(doc, D!Data \o <<"type">>, D!Text(type)) /\ HoldsPayload(doc, D!Data \o <<"data">>)
      BY <2>1, <2>2, Spots, BodyHas
    <2>4. Holds(doc, D!Sub("type"), D!Text(type)) /\ HoldsPayload(doc, D!Sub("data"))
      BY <2>3, Spots
    <2>5. /\ D!Passes(D!ParserEcho(doc)) /\ D!Phases(doc, "echo", "data") = D!ParserEcho(doc)
      BY <1>7, <2>3, <2>4, EchoPasses, PhasesAre, Names
    <2> QED
      BY <2>3, <2>5, SomePhases, Names, AcceptedIsHandled
  <1>8. \/ \E app \in M!EndpointApps \union {"serial"} : doc = Control(app, "status")
        \/ \E size \in Sizes, option \in 0 .. 2 :
              doc = Control("serial", "open") ++ Body(SerialPort ++ SerialOptions(size, option))
        \/ doc = Control("serial", "close") ++ Body(SerialPort)
        \/ doc = Data("serial") ++ Body(SerialPort ++ M!Payload)
        \/ doc = Control("monitor", "status") ++ Body(M!Member(<<"type">>, M!Text("set"))
                     ++ M!Member(<<"sample_time">>, M!Number(1)) ++ M!Member(<<"cont">>, M!Bool))
        \/ doc = Control("monitor", "status") ++ Body(M!Member(<<"type">>, M!Text("cancel")))
        \/ \E type \in Encodings : doc = Data("echo") ++ Body(M!Member(<<"type">>, M!Text(type)) ++ M!Payload)
    BY DEF OtherRequests
  <1> QED
    BY <1>1, <1>2, <1>3, <1>4, <1>5, <1>6, <1>7, <1>8, Zenon

\* What the protocol allows is handled.
LEMMA AllowedIsHandled == \A j \in Judged : j.allowed => Handled(j)
PROOF
  <1> SUFFICES ASSUME NEW j \in Judged, j.allowed PROVE Handled(j)
    OBVIOUS
  <1>1. PICK doc \in Document : j = M!Judge(doc, M!Apps, WellFormed)
    BY DEF Judged
  <1>2. j.allowed = (doc \in WellFormed)
    BY <1>1 DEF M!Judge
  <1>3. doc \in OtherRequests \/ \E port \in ValidPort, peer \in ValidPort : doc \in EndpointRequests(port, peer)
    <2>1. doc \in WellFormed
      BY <1>2
    <2> DEFINE all == {EndpointRequests(port, peer) : port, peer \in ValidPort}
    <2>2. WellFormed = OtherRequests \union UNION all
      BY DEF WellFormed
    <2>3. \A S \in all : \E port \in ValidPort, peer \in ValidPort : S = EndpointRequests(port, peer)
      OBVIOUS
    <2> HIDE DEF all
    <2>4. doc \in OtherRequests \/ \E S \in all : doc \in S
      BY <2>1, <2>2
    <2> QED
      BY <2>3, <2>4, Zenon
  <1>4. Handled(Judgement(doc))
    BY <1>3, OtherRequestsHandled, EndpointRequestsHandled
  <1> QED
    BY <1>1, <1>4 DEF Judgement

\* A step leaves the daemon up and the message handled, if the protocol allows it.
LEMMA StepHandles == ASSUME daemon = "up", D!Next PROVE WellFormedIsHandled'
PROOF
  <1> USE DEF D!WellFormedIsHandled, WellFormedIsHandled
  <1>0. ~D!Nothing.allowed /\ ~[D!Nothing EXCEPT !.found = "refused"].allowed
    BY DEF D!Nothing
  <1>1. CASE D!OnMessageNotJson
    BY <1>0, <1>1 DEF D!OnMessageNotJson
  <1>2. ASSUME NEW j \in Judged, D!OnMessage(j) PROVE WellFormedIsHandled'
    <2>0. /\ j.allowed => Handled(j)
          /\ j.request = <<D!App(j), D!Control(j)>>
          /\ \A what : D!Found(j, what) => last'.allowed = j.allowed /\ last'.found = what
      BY AllowedIsHandled, JudgedRequest DEF D!Found
    <2>1. j.allowed /\ ~j.parsed => D!App(j) \in D!EndpointApps \union {"serial"} /\ D!Control(j) = "status"
      BY <2>0 DEF Handled
    <2>2. CASE D!OnMessageNoTime(j)
      BY <2>0, <2>2 DEF D!OnMessageNoTime, Handled
    <2>3. CASE D!OnMessageIllFormed(j)
      BY <2>0, <2>3 DEF D!OnMessageIllFormed, Handled
    <2>4. CASE D!HandlerUnchecked(j)
      BY <2>0, <2>4 DEF D!HandlerUnchecked, D!Handler, Handled
    <2>5. CASE D!HandlerRefuses(j)
      BY <2>0, <2>5 DEF D!HandlerRefuses, D!Handler, Handled
    <2>6. CASE D!HandlerHasNoCase(j)
      BY <2>0, <2>1, <2>6 DEF D!HandlerHasNoCase, D!NoCase
    <2>7. CASE D!HandlerIgnores(j)
      BY <2>0, <2>7 DEF D!HandlerIgnores
    <2>8. CASE D!HandlerStatus(j)
      BY <2>0, <2>8 DEF D!HandlerStatus
    <2>9. CASE D!HandlerOpens(j)
      BY <2>0, <2>9 DEF D!HandlerOpens
    <2>10. CASE D!HandlerOpensUdpClient(j)
      BY <2>0, <2>10 DEF D!HandlerOpensUdpClient
    <2>11. CASE D!HandlerConnects(j)
      BY <2>0, <2>11 DEF D!HandlerConnects
    <2>12. CASE D!HandlerCloses(j)
      BY <2>0, <2>12 DEF D!HandlerCloses
    <2>13. CASE D!HandlerDoes(j)
      BY <2>0, <2>13 DEF D!HandlerDoes
    <2>14. CASE D!EchoApp(j)
      BY <2>0, <2>14 DEF D!EchoApp
    <2>15. CASE D!ContainerFails(j)
      <3>1. D!ReportedFor(j) \in M!Apps
        BY <2>15, Names DEF D!ContainerFails, D!ReportedFor
      <3>2. D!Found(j, "failed") /\ UNCHANGED daemon
        BY <2>15, <3>1 DEF D!ContainerFails, D!Report, D!Named
      <3> QED
        BY <2>0, <3>2
    <2> QED
      BY <1>2, <2>2, <2>3, <2>4, <2>5, <2>6, <2>7, <2>8, <2>9, <2>10, <2>11, <2>12, <2>13,
         <2>14, <2>15, Zenon DEF D!OnMessage
  <1>3. CASE D!Connected
    BY <1>0, <1>3 DEF D!Connected
  <1>4. CASE D!UdpServerFails
    BY <1>0, <1>4 DEF D!UdpServerFails
  <1>5. ASSUME NEW app, D!AppSends(app) PROVE WellFormedIsHandled'
    BY <1>0, <1>5 DEF D!AppSends
  <1> QED
    BY <1>1, <1>2, <1>3, <1>4, <1>5, Zenon DEF D!Next

(***************************************************************************)
(* A message that the protocol allows is not refused and does not stop the *)
(* daemon, whatever its ports: no check of the parsers is stricter than    *)
(* what the apps need, and no parser reads more than it.                   *)
(***************************************************************************)
THEOREM WellFormedHandled == DaemonSpec => []WellFormedIsHandled
PROOF
  <1>1. D!Init => WellFormedIsHandled
    BY DEF D!Init, D!Nothing, D!WellFormedIsHandled, WellFormedIsHandled
  <1>2. WellFormedIsHandled /\ [D!Next]_(D!vars) => WellFormedIsHandled'
    <2>1. CASE D!Next
      BY <2>1, StepHandles DEF D!Next
    <2>2. CASE UNCHANGED D!vars
      BY <2>2 DEF D!vars, D!WellFormedIsHandled, WellFormedIsHandled
    <2> QED
      BY <2>1, <2>2
  <1>3. [DaemonNext]_<<part, vars, dispatcher, startup, info>> => [D!Next]_(D!vars)
    BY DEF DaemonNext, D!vars, dispatcher
  <1>4. DaemonInit => D!Init
    BY DEF DaemonInit
  <1> QED
    BY <1>1, <1>2, <1>3, <1>4, PTL DEF DaemonSpec

=============================================================================
