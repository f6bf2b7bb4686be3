------------------------------- MODULE Monitor -------------------------------
(***************************************************************************)
(* The monitor app: one Executor, shared by all users, that samples the    *)
(* daemon's CPU and memory use between two expiries of a timer and sends   *)
(* the figures to all.  A "set" message starts it, a "cancel" stops it.    *)
(*                                                                         *)
(* The messages of two users and the timer's handler have different        *)
(* strands, or none, so several workers may be inside the Executor: a      *)
(* handler is cut at each access to its shared members.  With one worker   *)
(* every handler runs to its end before the next starts.                   *)
(***************************************************************************)
EXTENDS Naturals

CONSTANTS
    Worker,    \* the threads that run the io_context
    Sample,    \* the sample times users ask for
    Fault      \* what may go wrong, a subset of AllFaults

\* The two reads of /proc fail, or no user is left.
AllFaults == {"first_read", "second_read", "users_leave"}

ASSUME FaultAssumption == Fault \subseteq AllFaults
ASSUME SampleAssumption == Sample # {} /\ Sample \subseteq Nat

VARIABLES
    is_running_,    \* std::atomic<bool>
    keep_reading_,  \* sample again and again?
    sample_,        \* the sample time last set
    timer_,         \* none, pending, or the handler is ready: fired or aborted
    users,          \* is a user connected?
    frame,          \* what each worker executes
    stuck           \* history: a second read has failed

shared == <<is_running_, keep_reading_, sample_, timer_>>
vars   == <<shared, users, frame, stuck>>

Point == {"idle", "sample", "init", "calculate", "arm", "cancel_timer",
          "report", "again", "stop"}

Idle == [at |-> "idle", sample |-> 0]
At(w, point) == frame[w].at = point
GoTo(w, point) == frame' = [frame EXCEPT ![w].at = point]
Return(w) == frame' = [frame EXCEPT ![w] = Idle]

-----------------------------------------------------------------------------
\* A "set" message: continuos(), sample(), init().
MessageSet(w, sample, cont) ==
    /\ At(w, "idle") /\ users
    /\ keep_reading_' = cont
    /\ frame' = [frame EXCEPT ![w] = [at |-> "sample", sample |-> sample]]
    /\ UNCHANGED <<is_running_, sample_, timer_, users, stuck>>

SetSample(w) ==
    /\ At(w, "sample")
    /\ sample_' = frame[w].sample
    /\ frame' = [frame EXCEPT ![w] = [at |-> "init", sample |-> 0]]
    /\ UNCHANGED <<is_running_, keep_reading_, timer_, users, stuck>>

\* The test of init(), after one that does not look at is_running_.
AlwaysEnters == TRUE
MayEnter == ~is_running_

\* compare_exchange_strong: one caller gets past it.
InitCalculate(w) ==
    /\ At(w, "init") /\ MayEnter
    /\ is_running_' = TRUE
    /\ GoTo(w, "calculate")
    /\ UNCHANGED <<keep_reading_, sample_, timer_, users, stuck>>

InitAlreadyRunning(w) ==
    /\ At(w, "init") /\ ~MayEnter
    /\ Return(w)
    /\ UNCHANGED <<shared, users, stuck>>

\* A "cancel" message: continuos(false), and cancel() of the timer.
MessageCancel(w) ==
    /\ At(w, "idle") /\ users
    /\ keep_reading_' = FALSE
    /\ GoTo(w, "cancel_timer")
    /\ UNCHANGED <<is_running_, sample_, timer_, users, stuck>>

CancelTimer(w) ==
    /\ At(w, "cancel_timer")
    /\ timer_' = IF timer_ = "pending" THEN "aborted" ELSE timer_
    /\ Return(w)
    /\ UNCHANGED <<is_running_, keep_reading_, sample_, users, stuck>>

-----------------------------------------------------------------------------
\* calculate(): the first read of /proc, then the timer.
Calculate(w) ==
    /\ At(w, "calculate")
    /\ \/ GoTo(w, "arm")
       \/ "first_read" \in Fault /\ GoTo(w, "stop")
    /\ UNCHANGED <<shared, users, stuck>>

Arm(w) ==
    /\ At(w, "arm")
    /\ timer_' = "pending"
    /\ Return(w)
    /\ UNCHANGED <<is_running_, keep_reading_, sample_, users, stuck>>

Expire ==
    /\ timer_ = "pending"
    /\ timer_' = "fired"
    /\ UNCHANGED <<is_running_, keep_reading_, sample_, users, frame, stuck>>

\* do_wait(): the second read.  When it fails, the handler returns as it is.
DoWait(w) ==
    /\ At(w, "idle") /\ timer_ = "fired"
    /\ timer_' = "none"
    /\ \/ GoTo(w, "report") /\ UNCHANGED stuck
       \/ "second_read" \in Fault /\ stuck' = TRUE /\ UNCHANGED frame
    /\ UNCHANGED <<is_running_, keep_reading_, sample_, users>>

DoWaitAborted(w) ==
    /\ At(w, "idle") /\ timer_ = "aborted"
    /\ timer_' = "none"
    /\ GoTo(w, "stop")
    /\ UNCHANGED <<is_running_, keep_reading_, sample_, users, stuck>>

\* The figures go to all users, if there are any.
Report(w) ==
    /\ At(w, "report")
    /\ GoTo(w, IF users THEN "again" ELSE "stop")
    /\ UNCHANGED <<shared, users, stuck>>

\* Whether do_wait() goes on, after one that always does.
GoesOnAlways == TRUE
GoesOn == keep_reading_

Again(w) ==
    /\ At(w, "again")
    /\ GoTo(w, IF GoesOn THEN "calculate" ELSE "stop")
    /\ UNCHANGED <<shared, users, stuck>>

\* What the end of a sampling writes to is_running_, after one that forgets to.
StillRunning == is_running_
NotRunning == FALSE

Stop(w) ==
    /\ At(w, "stop")
    /\ is_running_' = NotRunning
    /\ Return(w)
    /\ UNCHANGED <<keep_reading_, sample_, timer_, users, stuck>>

\* The last user leaves, or the first one comes.
UsersChange ==
    /\ "users_leave" \in Fault
    /\ users' = ~users
    /\ UNCHANGED <<shared, frame, stuck>>

-----------------------------------------------------------------------------
Init ==
    /\ is_running_ = FALSE /\ keep_reading_ = FALSE
    /\ sample_ = 1
    /\ timer_ = "none"
    /\ users = TRUE
    /\ frame = [w \in Worker |-> Idle]
    /\ stuck = FALSE

\* The rest of a handler a worker has entered, and the handlers of the timer.
Step(w) ==
    \/ SetSample(w)
    \/ InitCalculate(w)
    \/ InitAlreadyRunning(w)
    \/ CancelTimer(w)
    \/ Calculate(w)
    \/ Arm(w)
    \/ Report(w)
    \/ Again(w)
    \/ Stop(w)

TimerHandler(w) == DoWait(w) \/ DoWaitAborted(w)

Next ==
    \/ Expire
    \/ UsersChange
    \/ \E w \in Worker :
        \/ \E s \in Sample, cont \in BOOLEAN : MessageSet(w, s, cont)
        \/ MessageCancel(w)
        \/ Step(w)
        \/ TimerHandler(w)

Spec == Init /\ [][Next]_vars

(***************************************************************************)
(* A started handler returns, a timer expires, and asio runs the handler   *)
(* that is ready: other messages do not keep it waiting for ever.          *)
(***************************************************************************)
Fairness ==
    /\ WF_vars(Expire)
    /\ \A w \in Worker : WF_vars(Step(w))
    /\ SF_vars(\E w \in Worker : TimerHandler(w))
FairSpec == Spec /\ Fairness

-----------------------------------------------------------------------------
\* Every variable holds a value of its kind.
TypeOK ==
    /\ is_running_ \in BOOLEAN /\ keep_reading_ \in BOOLEAN
    /\ sample_ \in Nat
    /\ timer_ \in {"none", "pending", "fired", "aborted"}
    /\ users \in BOOLEAN
    /\ frame \in [Worker -> [at : Point, sample : Nat]]
    /\ stuck \in BOOLEAN

\* The workers that use start_, end_ and uptime_, which nothing locks.
Sampling == {w \in Worker : frame[w].at \in {"calculate", "arm", "report", "again", "stop"}}
Active == Sampling # {} \/ timer_ # "none"

(***************************************************************************)
(* At most one sampling exists: no two workers are in calculate() or       *)
(* do_wait() at once, and none is while the timer waits, although any      *)
(* message may call init() at any time.  is_running_ is the only lock.     *)
(***************************************************************************)
OneSampling ==
    /\ \A v, w \in Sampling : v = w
    /\ Sampling # {} => timer_ = "none"
    /\ Active => is_running_

(***************************************************************************)
(* is_running_ never outlives the sampling, which would refuse all later   *)
(* requests, except after a failed second read.                            *)
(***************************************************************************)
RunningIsActive == is_running_ => Active \/ stuck

(***************************************************************************)
(* A cancel ends the sampling, also one that arrives between do_wait()'s   *)
(* test of keep_reading_ and the start of the timer (after one more        *)
(* sample then), unless a user asks for it to go on.                       *)
(***************************************************************************)
CancelStops == ~keep_reading_ ~> keep_reading_ \/ ~Active

\* No handler is running or ready.
Settled == (\A w \in Worker : At(w, "idle")) /\ timer_ \in {"none", "pending"}

(***************************************************************************)
(* "Monitor App notify the status of daemon memory/cpu usage" (README.md): *)
(* while users have asked for continuous samples, no read fails and a user *)
(* is connected, one is under way.  It does not hold, with one worker and  *)
(* no fault: a "set" between a "cancel" and the aborted handler is lost.   *)
(***************************************************************************)
SetIsServed == Settled /\ keep_reading_ /\ users => timer_ = "pending"

=============================================================================
