---------------------------- MODULE EngineLockout ----------------------------
(***************************************************************************)
(* The lockout logic of the fingerprint HAL: FingerprintEngine's           *)
(* checkSensorLockout, resetLockoutImpl, startLockoutTimer and             *)
(* lockoutTimerExpired, with the two entry points of Session that reach    *)
(* them besides resetLockout (an AUTHENTICATED message, a pointer down).   *)
(*                                                                         *)
(* Three kinds of threads run this code and share its fields without a     *)
(* lock: the thread on which the vendor library calls notify(), the worker *)
(* thread of the HAL, and one detached thread per lockout timer.  Each     *)
(* action below is one access to a shared field, or one callback.          *)
(***************************************************************************)
EXTENDS LockoutTracker

CONSTANTS Timers,       \* detached timer threads that may exist at once (bound)
          MaxFailed,    \* no attempt fails beyond this count (bound)
          GarbageAtStart   \* whether unwritten fields may hold anything but zeros

ASSUME TimersAssumption == {"vendor", "worker"} \cap Timers = {}

ASSUME BoundAssumption == MaxFailed \in Nat

ASSUME GarbageAssumption == GarbageAtStart \in BOOLEAN

VARIABLES
  isLockoutTimerStarted,
  isLockoutTimerAborted,
  pc,         \* where each thread is in the code
  loaded,     \* the vendor thread's register in mFailedCount++
  timeLeft,   \* local of checkSensorLockout, per thread; what the framework is told
  sleep,      \* how long each timer thread has still to sleep
  reported,   \* the lockout the framework has last been told of
  disturbed   \* history: two threads were in this code at once, or a field
              \* that no constructor writes did not start as a zero

flags == <<isLockoutTimerStarted, isLockoutTimerAborted>>
locals == <<loaded, timeLeft, sleep>>
vars == <<tracker, flags, pc, locals, reported, disturbed>>

Checkers == {"vendor", "worker"}
Threads == Checkers \cup Timers

Resting == {"idle", "asleep", "off"}
Busy(p) == pc[p] \notin Resting

Report == {"none", "timed", "permanent"}

\* The lockout a mode stands for, in the words of what the framework is told.
LockoutOf(mode) ==
  CASE mode = "kTimed"     -> "timed"
    [] mode = "kPermanent" -> "permanent"
    [] OTHER               -> "none"

CheckLabel == {"getMode", "elapsed", "expire", "unstamp", "reread", "timeLeft",
               "tellTimed", "needTimer", "spawn", "markStarted",
               "tellPermanent", "abort"}
ClearLabel == {"clearStart", "clearMode"}
VendorLabel == {"idle", "loadCount", "storeCount", "raise", "stamp"}
                 \cup CheckLabel \cup ClearLabel
WorkerLabel == {"idle", "clearCount", "ifStarted"} \cup CheckLabel \cup ClearLabel
TimerLabel == {"off", "asleep", "tellCleared", "unmark", "unabort"} \cup ClearLabel

-----------------------------------------------------------------------------

AsIfInitialised ==
  /\ mCurrentMode = "kNone"
  /\ timedAge = Unset
  /\ ~isLockoutTimerStarted
  /\ ~isLockoutTimerAborted

\* None of these fields but mFailedCount has an initialiser, and the engine is
\* allocated on the heap: what they hold is up to the allocator, unless the
\* instance says that it hands out zeros.
Init ==
  /\ mFailedCount = 0
  /\ mCurrentMode \in StoredMode
  /\ timedAge \in {Unset} \cup Age
  /\ isLockoutTimerStarted \in BOOLEAN
  /\ isLockoutTimerAborted \in BOOLEAN
  /\ pc = [p \in Threads |-> IF p \in Checkers THEN "idle" ELSE "off"]
  /\ loaded = 0
  /\ timeLeft = [p \in Checkers |-> 0]
  /\ sleep = [t \in Timers |-> 0]
  /\ reported = "none"
  /\ disturbed = ~AsIfInitialised
  /\ disturbed => GarbageAtStart

Step(p, from, to) ==
  /\ pc[p] = from
  /\ pc' = [pc EXCEPT ![p] = to]

\* The first step of a thread into this code.
Enter(p, from, to) ==
  /\ Step(p, from, to)
  /\ disturbed' = (disturbed \/ \E q \in Threads \ {p} : Busy(q))

-----------------------------------------------------------------------------
(* FINGERPRINT_AUTHENTICATED on the vendor thread.  The callback that tells   *)
(* the framework of the result comes before, the lowering of the finger       *)
(* status after; neither touches the lockout.                                 *)

AttemptFails ==
  /\ mFailedCount < MaxFailed
  /\ Enter("vendor", "idle", "loadCount")
  /\ UNCHANGED <<tracker, flags, locals, reported>>

\* Mutant: a success forgives the failed attempts, as reset(false) would.
AttemptSucceedsForgiving ==
  /\ Enter("vendor", "idle", "clearStart")
  /\ mFailedCount' = 0
  /\ UNCHANGED <<mCurrentMode, timedAge, flags, locals, reported>>

AttemptSucceeds ==
  /\ Enter("vendor", "idle", "clearStart")
  /\ UNCHANGED <<tracker, flags, locals, reported>>

LoadCount ==
  /\ Step("vendor", "loadCount", "storeCount")
  /\ loaded' = mFailedCount
  /\ UNCHANGED <<tracker, flags, timeLeft, sleep, reported, disturbed>>

StoreCount ==
  /\ Step("vendor", "storeCount", "raise")
  /\ StoreFailedCount(loaded)
  /\ UNCHANGED <<flags, locals, reported, disturbed>>

\* Mutant: the handler forgets checkSensorLockout after a failed attempt.
RaiseUnchecked ==
  /\ Step("vendor", "raise",
          IF BeginsTimedLockout(loaded + 1) THEN "stamp" ELSE "idle")
  /\ StoreRaisedMode(loaded + 1)
  /\ loaded' = 0
  /\ UNCHANGED <<flags, timeLeft, sleep, reported, disturbed>>

\* The comparisons use the sum the thread has just stored.  A local is put back to
\* zero where it goes out of scope, here and below.
Raise ==
  /\ Step("vendor", "raise",
          IF BeginsTimedLockout(loaded + 1) THEN "stamp" ELSE "getMode")
  /\ StoreRaisedMode(loaded + 1)
  /\ loaded' = 0
  /\ UNCHANGED <<flags, timeLeft, sleep, reported, disturbed>>

Stamp ==
  /\ Step("vendor", "stamp", "getMode")
  /\ StampStart
  /\ UNCHANGED <<flags, locals, reported, disturbed>>

-----------------------------------------------------------------------------
(* Session::onPointerDown and resetLockout, as the worker thread runs them.   *)
(* What follows a finger that is let through is not the lockout's business; a *)
(* resetLockout whose token has no mac changes nothing and is left out.       *)

PointerDown ==
  /\ Enter("worker", "idle", "getMode")
  /\ UNCHANGED <<tracker, flags, locals, reported>>

\* clearLockout() calls onLockoutCleared before it resets the tracker.
ResetLockout ==
  /\ Enter("worker", "idle", "clearCount")
  /\ reported' = "none"
  /\ UNCHANGED <<tracker, flags, locals>>

ClearCount ==
  /\ Step("worker", "clearCount", "clearStart")
  /\ ClearFailedCount
  /\ UNCHANGED <<flags, locals, reported, disturbed>>

\* Mutant: resetLockout leaves a sleeping timer alone.
IfStartedIgnored ==
  /\ Step("worker", "ifStarted", "idle")
  /\ UNCHANGED <<tracker, flags, locals, reported, disturbed>>

IfStarted ==
  /\ Step("worker", "ifStarted", IF isLockoutTimerStarted THEN "abort" ELSE "idle")
  /\ UNCHANGED <<tracker, flags, locals, reported, disturbed>>

-----------------------------------------------------------------------------
(* The common tail of LockoutTracker::reset(), whoever calls it.              *)

AfterReset(p) ==
  CASE p = "vendor" -> "idle"
    [] p = "worker" -> "ifStarted"
    [] OTHER        -> "unmark"

ResetStart(p) ==
  /\ Step(p, "clearStart", "clearMode")
  /\ ClearStart
  /\ UNCHANGED <<flags, locals, reported, disturbed>>

ResetMode(p) ==
  /\ Step(p, "clearMode", AfterReset(p))
  /\ ClearMode
  /\ UNCHANGED <<flags, locals, reported, disturbed>>

-----------------------------------------------------------------------------
(* checkSensorLockout(), on the vendor thread or the worker.                  *)

\* getMode() reads the mode to see whether a timed lockout may have lapsed, and again
\* for its result.
ReadMode(p) ==
  /\ \/ Step(p, "getMode", IF mCurrentMode = "kTimed" THEN "elapsed" ELSE "reread")
     \/ Step(p, "reread",  CASE mCurrentMode = "kTimed"     -> "timeLeft"
                             [] mCurrentMode = "kPermanent" -> "tellPermanent"
                             [] OTHER                       -> "idle")
  /\ UNCHANGED <<tracker, flags, locals, reported, disturbed>>

CheckElapsed(p) ==
  /\ Step(p, "elapsed", IF HasElapsed THEN "expire" ELSE "reread")
  /\ UNCHANGED <<tracker, flags, locals, reported, disturbed>>

Expire(p) ==
  /\ Step(p, "expire", "unstamp")
  /\ ClearMode
  /\ UNCHANGED <<flags, locals, reported, disturbed>>

Unstamp(p) ==
  /\ Step(p, "unstamp", "reread")
  /\ ClearStart
  /\ UNCHANGED <<flags, locals, reported, disturbed>>

GetTimeLeft(p) ==
  /\ Step(p, "timeLeft", "tellTimed")
  /\ timeLeft' = [timeLeft EXCEPT ![p] = TimeLeft]
  /\ UNCHANGED <<tracker, flags, loaded, sleep, reported, disturbed>>

TellTimed(p) ==
  /\ Step(p, "tellTimed", "needTimer")
  /\ reported' = "timed"
  /\ UNCHANGED <<tracker, flags, locals, disturbed>>

NeedTimer(p) ==
  /\ Step(p, "needTimer", IF isLockoutTimerStarted THEN "idle" ELSE "spawn")
  /\ timeLeft' = IF isLockoutTimerStarted
                   THEN [timeLeft EXCEPT ![p] = 0] ELSE timeLeft
  /\ UNCHANGED <<tracker, flags, loaded, sleep, reported, disturbed>>

\* std::this_thread::sleep_for(): no time at all when the time is negative.
SleepFor(time) == IF time > 0 THEN time ELSE 0

\* startLockoutTimer() detaches the thread first and sets the flag afterwards.
Spawn(p) ==
  \E t \in Timers :
    /\ pc[p] = "spawn"
    /\ pc[t] = "off"
    /\ pc' = [pc EXCEPT ![p] = "markStarted", ![t] = "asleep"]
    /\ sleep' = [sleep EXCEPT ![t] = SleepFor(timeLeft[p])]
    /\ timeLeft' = [timeLeft EXCEPT ![p] = 0]
    /\ UNCHANGED <<tracker, flags, loaded, reported, disturbed>>

MarkStarted(p) ==
  /\ Step(p, "markStarted", "idle")
  /\ isLockoutTimerStarted' = TRUE
  /\ UNCHANGED <<tracker, isLockoutTimerAborted, locals, reported, disturbed>>

TellPermanent(p) ==
  /\ Step(p, "tellPermanent", "abort")
  /\ reported' = "permanent"
  /\ UNCHANGED <<tracker, flags, locals, disturbed>>

\* Also the last step of resetLockoutImpl().
Abort(p) ==
  /\ Step(p, "abort", "idle")
  /\ isLockoutTimerAborted' = TRUE
  /\ UNCHANGED <<tracker, isLockoutTimerStarted, locals, reported, disturbed>>

-----------------------------------------------------------------------------
(* lockoutTimerExpired(), on the thread of timer t.                           *)

\* Mutant: an aborted timer returns without putting the flags back.
WakeUpAndReturn(t) ==
  /\ sleep[t] = 0
  /\ Enter(t, "asleep", IF isLockoutTimerAborted THEN "off" ELSE "tellCleared")
  /\ UNCHANGED <<tracker, flags, locals, reported>>

WakeUp(t) ==
  /\ sleep[t] = 0
  /\ Enter(t, "asleep", IF isLockoutTimerAborted THEN "unmark" ELSE "tellCleared")
  /\ UNCHANGED <<tracker, flags, locals, reported>>

\* Mutant: the tracker is reset but the framework is not told.
TellClearedNot(t) ==
  /\ Step(t, "tellCleared", "clearStart")
  /\ UNCHANGED <<tracker, flags, locals, reported, disturbed>>

TellCleared(t) ==
  /\ Step(t, "tellCleared", "clearStart")
  /\ reported' = "none"
  /\ UNCHANGED <<tracker, flags, locals, disturbed>>

Unmark(t) ==
  /\ Step(t, "unmark", "unabort")
  /\ isLockoutTimerStarted' = FALSE
  /\ UNCHANGED <<tracker, isLockoutTimerAborted, locals, reported, disturbed>>

Unabort(t) ==
  /\ Step(t, "unabort", "off")
  /\ isLockoutTimerAborted' = FALSE
  /\ UNCHANGED <<tracker, isLockoutTimerStarted, locals, reported, disturbed>>

-----------------------------------------------------------------------------

\* Time passes for the lockout and for every timer that sleeps.  Nothing makes a
\* thread wake up, or take its next step, the moment it could.
Tick ==
  /\ TimePasses
  /\ sleep' = [t \in Timers |->
                 IF pc[t] = "asleep" /\ sleep[t] > 0 THEN sleep[t] - 1 ELSE sleep[t]]
  /\ UNCHANGED <<mFailedCount, mCurrentMode, flags, pc, loaded, timeLeft,
                 reported, disturbed>>

Input == AttemptFails \/ AttemptSucceeds \/ PointerDown \/ ResetLockout

VendorRuns == LoadCount \/ StoreCount \/ Raise \/ Stamp

WorkerRuns == ClearCount \/ IfStarted

CheckRuns(p) ==
  \/ ReadMode(p) \/ CheckElapsed(p) \/ Expire(p) \/ Unstamp(p)
  \/ GetTimeLeft(p) \/ TellTimed(p) \/ NeedTimer(p) \/ Spawn(p) \/ MarkStarted(p)
  \/ TellPermanent(p) \/ Abort(p)

TimerRuns(t) == WakeUp(t) \/ TellCleared(t) \/ Unmark(t) \/ Unabort(t)

ResetRuns(p) == ResetStart(p) \/ ResetMode(p)

Next ==
  \/ Input
  \/ VendorRuns
  \/ WorkerRuns
  \/ \E p \in Checkers : CheckRuns(p)
  \/ \E t \in Timers : TimerRuns(t)
  \/ \E p \in Threads : ResetRuns(p)
  \/ Tick

Spec == Init /\ [][Next]_vars

\* Threads that are in the code are scheduled, and time goes on.  Nothing obliges
\* a user, the framework or the sensor to call again.
Fairness ==
  /\ WF_vars(VendorRuns \/ CheckRuns("vendor") \/ ResetRuns("vendor"))
  /\ WF_vars(WorkerRuns \/ CheckRuns("worker") \/ ResetRuns("worker"))
  /\ \A t \in Timers : WF_vars(TimerRuns(t) \/ ResetRuns(t))
  /\ WF_vars(Tick)

FairSpec == Spec /\ Fairness

-----------------------------------------------------------------------------
(* Properties.                                                               *)

TypeOK ==
  /\ mFailedCount \in Nat
  /\ mCurrentMode \in StoredMode
  /\ timedAge \in {Unset} \cup Age
  /\ isLockoutTimerStarted \in BOOLEAN
  /\ isLockoutTimerAborted \in BOOLEAN
  /\ pc \in [Threads -> VendorLabel \cup WorkerLabel \cup TimerLabel]
  /\ pc["vendor"] \in VendorLabel
  /\ pc["worker"] \in WorkerLabel
  /\ \A t \in Timers : pc[t] \in TimerLabel
  /\ loaded \in Nat
  /\ timeLeft \in [Checkers -> -1 .. LOCKOUT_TIMED_DURATION + MaxAhead]
  /\ sleep \in [Timers -> 0 .. LOCKOUT_TIMED_DURATION + MaxAhead]
  /\ reported \in Report
  /\ disturbed \in BOOLEAN

Quiet == \A p \in Threads : ~Busy(p)

\* As long as the threads have not met in this code: whenever none of them is in
\* it, the framework has been told of the lockout the tracker is in.
LockoutIsReported ==
  ~disturbed /\ Quiet =>
    /\ mCurrentMode = "kTimed" => reported = "timed"
    /\ mCurrentMode = "kPermanent" => reported = "permanent"

\* As long as the threads have not met: isLockoutTimerStarted is set exactly while
\* a timer thread sleeps, and there is never more than one.
OneTimerPerFlag ==
  ~disturbed /\ Quiet =>
    /\ isLockoutTimerStarted <=> \E t \in Timers : pc[t] = "asleep"
    /\ \A t, u \in Timers : pc[t] = "asleep" /\ pc[u] = "asleep" => t = u

\* As long as the threads have not met: a timer announces onLockoutCleared only to
\* a framework that still believes in a timed lockout.  In particular it neither
\* repeats the announcement of a resetLockout nor lifts a permanent lockout.
TimerClearsOnlyTimed ==
  ~disturbed =>
    \A t \in Timers : pc[t] = "tellCleared" =>
      reported = "timed" /\ mCurrentMode # "kPermanent"

\* As long as the threads have not met: failed attempts are counted one by one and
\* are forgiven only by resetLockout, after the framework was told so.
FailuresForgivenOnlyByReset ==
  [][ ~disturbed /\ mFailedCount' # mFailedCount =>
        \/ mFailedCount' = mFailedCount + 1
        \/ mFailedCount' = 0 /\ pc["worker"] # "idle" /\ reported = "none" ]_vars

\* As long as the threads have not met: further failed attempts do not prolong a
\* timed lockout that is running.
TimedLockoutNotProlonged ==
  [][ ~disturbed /\ mCurrentMode = "kTimed" /\ mCurrentMode' = "kTimed"
        /\ timedAge # Unset => timedAge' >= timedAge ]_vars

\* Unless the threads meet, the engine can always start a timer again later.
TimerFlagComesDown ==
  isLockoutTimerStarted ~> (~isLockoutTimerStarted \/ disturbed)

-----------------------------------------------------------------------------
(* What all this implements.                                                 *)

CheckingLabel == {"stamp", "getMode", "elapsed", "expire", "unstamp", "reread",
                  "timeLeft", "tellTimed", "tellPermanent"}

SomeoneAt(labels) == \E p \in Threads : pc[p] \in labels

PolicyStage ==
  CASE SomeoneAt({"raise"})      -> "judge"
    [] SomeoneAt(CheckingLabel)  -> "check"
    [] SomeoneAt({"clearCount"}) -> "forgive"
    [] SomeoneAt(ClearLabel)     -> "lift"
    [] OTHER                     -> "rest"

Policy ==
  INSTANCE LockoutPolicy WITH
    RecognitionLifts <- TRUE,
    attempts <- mFailedCount,
    lockout  <- LockoutOf(mCurrentMode),
    told     <- reported,
    stage    <- PolicyStage,
    kept     <- ~disturbed

\* As long as the threads have not met, counter, mode and report follow the policy: a
\* lockout is imposed at exactly the thresholds, is told before the next attempt is
\* taken, and ends by lapse, by a timer, by resetLockout or by a recognised finger, the
\* last of which no comment speaks of: see DocumentedPolicyKept.
LockoutPolicyKept == Policy!PolicySpec

-----------------------------------------------------------------------------
(* What the comments of the repository say, and the code does not do.        *)

\* After a period of time the framework learns that a timed lockout is cleared,
\* even if the threads never meet.
TimedLockoutClearedInTheEnd ==
  reported = "timed" ~> (reported # "timed" \/ disturbed)

Documented ==
  INSTANCE LockoutPolicy WITH
    RecognitionLifts <- FALSE,
    attempts <- mFailedCount,
    lockout  <- LockoutOf(mCurrentMode),
    told     <- reported,
    stage    <- PolicyStage,
    kept     <- ~disturbed

\* A lockout ends by resetLockout or after a period of time and in no other way, even if
\* the threads never meet; the code also ends it, untold, when a finger is recognised.
DocumentedPolicyKept == Documented!PolicySpec

=============================================================================
