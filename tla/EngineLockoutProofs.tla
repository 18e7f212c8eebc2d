-------------------------- MODULE EngineLockoutProofs --------------------------
(***************************************************************************)
(* Proofs about EngineLockout, for every set of timers and every threshold *)
(* and duration the assumptions allow.                                     *)
(***************************************************************************)
EXTENDS EngineLockout, TLAPS

(***************************************************************************)
(* The inductive invariant.  While the threads have not met, at most one of *)
(* them is in the code, at most one timer exists, and the flags and the     *)
(* report follow from where that one thread is.                             *)
(***************************************************************************)

Alone == \A p, q \in Threads : Busy(p) /\ Busy(q) => p = q

OneTimer == \A t, u \in Timers : pc[t] # "off" /\ pc[u] # "off" => t = u

\* A timer thread that has not yet taken its mark down.
Marked(t) == pc[t] \in {"asleep", "tellCleared", "clearStart", "clearMode", "unmark"}

FlagIsExact ==
  isLockoutTimerStarted <=>
    (\E t \in Timers : Marked(t)) /\ (\A p \in Checkers : pc[p] # "markStarted")

SpawnsUnmarked ==
  /\ \A p \in Checkers : pc[p] = "spawn" => ~isLockoutTimerStarted
  /\ \A p \in Checkers : pc[p] = "markStarted" => \E t \in Timers : pc[t] = "asleep"

TrueAtLabel ==
  \A p \in Checkers :
    /\ pc[p] \in {"elapsed", "expire", "timeLeft", "tellTimed"} => mCurrentMode = "kTimed"
    /\ pc[p] \in {"needTimer", "spawn"} => reported = "timed"
    /\ pc[p] = "tellPermanent" => mCurrentMode = "kPermanent"

WorkerResets == pc["worker"] \in {"clearCount", "clearStart", "clearMode"}

PermanentTold ==
  mCurrentMode = "kPermanent" =>
    \/ reported = "permanent"
    \/ pc["vendor"] \in {"getMode", "reread", "tellPermanent"}
    \/ WorkerResets

TimedTold ==
  mCurrentMode = "kTimed" =>
    \/ reported = "timed"
    \/ pc["vendor"] \in {"stamp", "getMode", "elapsed", "expire", "reread",
                         "timeLeft", "tellTimed"}
    \/ WorkerResets
    \/ \E t \in Timers : pc[t] \in {"clearStart", "clearMode"}

SleeperIsDue ==
  \A t \in Timers : pc[t] = "asleep" /\ ~isLockoutTimerAborted =>
    \/ reported = "timed"
    \/ \E p \in Checkers : pc[p] = "abort"
    \/ WorkerResets
    \/ pc["worker"] = "ifStarted"

TellsDue ==
  \A t \in Timers : pc[t] = "tellCleared" =>
    reported = "timed" /\ mCurrentMode # "kPermanent"

CountIsFresh ==
  /\ pc["vendor"] = "storeCount" => loaded = mFailedCount
  /\ pc["vendor"] = "raise" => mFailedCount = loaded + 1
  /\ pc["worker"] = "clearCount" => reported = "none"

StartIsFresh ==
  /\ mCurrentMode \in LockoutMode
  /\ mCurrentMode = "kNone" =>
       timedAge = Unset \/ \E p \in Checkers : pc[p] = "unstamp"
  /\ pc["vendor"] = "stamp" => timedAge = Unset /\ mCurrentMode = "kTimed"
  /\ \A p \in Threads : pc[p] = "clearMode" => timedAge = Unset

Undisturbed ==
  /\ Alone
  /\ OneTimer
  /\ FlagIsExact
  /\ SpawnsUnmarked
  /\ TrueAtLabel
  /\ PermanentTold
  /\ TimedTold
  /\ SleeperIsDue
  /\ TellsDue
  /\ CountIsFresh
  /\ StartIsFresh

IndInv == TypeOK /\ (~disturbed => Undisturbed)

-----------------------------------------------------------------------------
(* Types.                                                                    *)

\* The checkers are not timers, so a thread is of one kind only.
LEMMA KindsApart ==
  /\ "vendor" \in Checkers /\ "worker" \in Checkers /\ "vendor" # "worker"
  /\ \A t \in Timers : t # "vendor" /\ t # "worker"
  /\ \A p \in Checkers : p \in Threads
  /\ \A t \in Timers : t \in Threads
  /\ \A p \in Threads : p \in Checkers \/ p \in Timers
BY TimersAssumption DEF Checkers, Threads

\* The time left exceeds the duration by no more than the start lies ahead.
LEMMA TimeLeftBounded ==
  ASSUME timedAge \in {Unset} \cup Age
  PROVE  TimeLeft \in -1 .. LOCKOUT_TIMED_DURATION + MaxAhead
BY DurationAssumption, AheadAssumption DEF TimeLeft, Unset, Age

\* A thread sleeps for the time left, or not at all.
LEMMA SleepBounded ==
  ASSUME NEW time \in -1 .. LOCKOUT_TIMED_DURATION + MaxAhead
  PROVE  SleepFor(time) \in 0 .. LOCKOUT_TIMED_DURATION + MaxAhead
BY DurationAssumption, AheadAssumption DEF SleepFor

\* The ages form a chain that ends.
LEMMA AgeGrows ==
  ASSUME timedAge \in {Unset} \cup Age, TimePasses
  PROVE  timedAge' \in {Unset} \cup Age
BY DurationAssumption, AheadAssumption DEF TimePasses, Unset, Age

\* A thread that moves to one of its own labels keeps every label in its range.
LEMMA VendorMoves ==
  ASSUME TypeOK, NEW to \in VendorLabel, pc' = [pc EXCEPT !["vendor"] = to]
  PROVE  /\ pc' \in [Threads -> VendorLabel \cup WorkerLabel \cup TimerLabel]
         /\ pc'["vendor"] \in VendorLabel
         /\ pc'["worker"] \in WorkerLabel
         /\ \A t \in Timers : pc'[t] \in TimerLabel
BY KindsApart DEF TypeOK

LEMMA WorkerMoves ==
  ASSUME TypeOK, NEW to \in WorkerLabel, pc' = [pc EXCEPT !["worker"] = to]
  PROVE  /\ pc' \in [Threads -> VendorLabel \cup WorkerLabel \cup TimerLabel]
         /\ pc'["vendor"] \in VendorLabel
         /\ pc'["worker"] \in WorkerLabel
         /\ \A t \in Timers : pc'[t] \in TimerLabel
BY KindsApart DEF TypeOK

LEMMA TimerMoves ==
  ASSUME TypeOK, NEW u \in Timers, NEW to \in TimerLabel,
         pc' = [pc EXCEPT ![u] = to]
  PROVE  /\ pc' \in [Threads -> VendorLabel \cup WorkerLabel \cup TimerLabel]
         /\ pc'["vendor"] \in VendorLabel
         /\ pc'["worker"] \in WorkerLabel
         /\ \A t \in Timers : pc'[t] \in TimerLabel
BY KindsApart DEF TypeOK

LEMMA CheckerMoves ==
  ASSUME TypeOK, NEW p \in Checkers, NEW to \in CheckLabel \cup {"idle"},
         pc' = [pc EXCEPT ![p] = to]
  PROVE  /\ pc' \in [Threads -> VendorLabel \cup WorkerLabel \cup TimerLabel]
         /\ pc'["vendor"] \in VendorLabel
         /\ pc'["worker"] \in WorkerLabel
         /\ \A t \in Timers : pc'[t] \in TimerLabel
<1>1. to \in VendorLabel /\ to \in WorkerLabel
  BY DEF VendorLabel, WorkerLabel
<1>2. p = "vendor" \/ p = "worker"
  BY DEF Checkers
<1> QED BY <1>1, <1>2, VendorMoves, WorkerMoves

\* Every step keeps the types.
LEMMA TypeStep == TypeOK /\ [Next]_vars => TypeOK'
<1> SUFFICES ASSUME TypeOK, [Next]_vars
             PROVE  TypeOK'
  OBVIOUS
<1> USE KindsApart DEF tracker, flags, locals, Step, Enter
<1>1. CASE Input
  <2>1. CASE AttemptFails
    BY <2>1, VendorMoves DEF TypeOK, AttemptFails, VendorLabel
  <2>2. CASE AttemptSucceeds
    BY <2>2, VendorMoves DEF TypeOK, AttemptSucceeds, VendorLabel, ClearLabel
  <2>3. CASE PointerDown
    BY <2>3, WorkerMoves DEF TypeOK, PointerDown, WorkerLabel, CheckLabel
  <2>4. CASE ResetLockout
    BY <2>4, WorkerMoves DEF TypeOK, ResetLockout, WorkerLabel, Report
  <2> QED BY <1>1, <2>1, <2>2, <2>3, <2>4 DEF Input
<1>2. CASE VendorRuns
  <2>1. CASE LoadCount
    BY <2>1, VendorMoves DEF TypeOK, LoadCount, VendorLabel
  <2>2. CASE StoreCount
    BY <2>2, VendorMoves DEF TypeOK, StoreCount, VendorLabel, StoreFailedCount
  <2>3. CASE Raise
    BY <2>3, VendorMoves DEF TypeOK, Raise, VendorLabel, CheckLabel, StoreRaisedMode, StoredMode, LockoutMode
  <2>4. CASE Stamp
    BY <2>4, VendorMoves, DurationAssumption, AheadAssumption DEF TypeOK, Stamp, VendorLabel, CheckLabel, StampStart, Age
  <2> QED BY <1>2, <2>1, <2>2, <2>3, <2>4 DEF VendorRuns
<1>3. CASE WorkerRuns
  <2>1. CASE ClearCount
    BY <2>1, WorkerMoves DEF TypeOK, ClearCount, WorkerLabel, ClearLabel, ClearFailedCount
  <2>2. CASE IfStarted
    BY <2>2, WorkerMoves DEF TypeOK, IfStarted, WorkerLabel, CheckLabel
  <2> QED BY <1>3, <2>1, <2>2 DEF WorkerRuns
<1>4. ASSUME NEW p \in Checkers, CheckRuns(p)
      PROVE  TypeOK'
  <2>1. CASE ReadMode(p)
    BY <2>1, CheckerMoves DEF TypeOK, ReadMode, CheckLabel
  <2>2. CASE CheckElapsed(p)
    BY <2>2, CheckerMoves DEF TypeOK, CheckElapsed, CheckLabel
  <2>3. CASE Expire(p)
    BY <2>3, CheckerMoves DEF TypeOK, Expire, CheckLabel, ClearMode, StoredMode, LockoutMode
  <2>4. CASE Unstamp(p)
    BY <2>4, CheckerMoves DEF TypeOK, Unstamp, ClearStart, CheckLabel
  <2>5. CASE GetTimeLeft(p)
    BY <2>5, CheckerMoves, TimeLeftBounded DEF TypeOK, GetTimeLeft, CheckLabel
  <2>6. CASE TellTimed(p)
    BY <2>6, CheckerMoves DEF TypeOK, TellTimed, CheckLabel, Report
  <2>7. CASE NeedTimer(p)
    <3>1. timeLeft' \in [Checkers -> -1 .. LOCKOUT_TIMED_DURATION + MaxAhead]
      BY <2>7, DurationAssumption, AheadAssumption DEF TypeOK, NeedTimer
    <3> QED BY <2>7, <3>1, CheckerMoves DEF TypeOK, NeedTimer, CheckLabel
  <2>8. CASE Spawn(p)
    <3>1. PICK t \in Timers :
            /\ pc[p] = "spawn"
            /\ pc' = [pc EXCEPT ![p] = "markStarted", ![t] = "asleep"]
            /\ sleep' = [sleep EXCEPT ![t] = SleepFor(timeLeft[p])]
            /\ timeLeft' = [timeLeft EXCEPT ![p] = 0]
      BY <2>8 DEF Spawn
    <3>2. p = "vendor" \/ p = "worker"
      BY DEF Checkers
    <3>3. SleepFor(timeLeft[p]) \in 0 .. LOCKOUT_TIMED_DURATION + MaxAhead
      BY SleepBounded DEF TypeOK
    <3>4. /\ sleep' \in [Timers -> 0 .. LOCKOUT_TIMED_DURATION + MaxAhead]
          /\ timeLeft' \in [Checkers -> -1 .. LOCKOUT_TIMED_DURATION + MaxAhead]
      BY <3>1, <3>3, DurationAssumption, AheadAssumption DEF TypeOK
    <3> QED BY <2>8, <3>1, <3>2, <3>4
            DEF TypeOK, Spawn, VendorLabel, WorkerLabel, TimerLabel, CheckLabel
  <2>9. CASE MarkStarted(p)
    BY <2>9, CheckerMoves DEF TypeOK, MarkStarted
  <2>10. CASE TellPermanent(p)
    BY <2>10, CheckerMoves DEF TypeOK, TellPermanent, CheckLabel, Report
  <2>11. CASE Abort(p)
    BY <2>11, CheckerMoves DEF TypeOK, Abort
  <2> QED BY <1>4, <2>1, <2>2, <2>3, <2>4, <2>5, <2>6, <2>7, <2>8, <2>9, <2>10, <2>11 DEF CheckRuns
<1>5. ASSUME NEW t \in Timers, TimerRuns(t)
      PROVE  TypeOK'
  <2>1. CASE WakeUp(t)
    BY <2>1, TimerMoves DEF TypeOK, WakeUp, TimerLabel
  <2>2. CASE TellCleared(t)
    BY <2>2, TimerMoves DEF TypeOK, TellCleared, TimerLabel, ClearLabel, Report
  <2>3. CASE Unmark(t)
    BY <2>3, TimerMoves DEF TypeOK, Unmark, TimerLabel
  <2>4. CASE Unabort(t)
    BY <2>4, TimerMoves DEF TypeOK, Unabort, TimerLabel
  <2> QED BY <1>5, <2>1, <2>2, <2>3, <2>4 DEF TimerRuns
<1>6. ASSUME NEW p \in Threads, ResetRuns(p)
      PROVE  TypeOK'
  <2>1. CASE ResetStart(p)
    BY <2>1, VendorMoves, WorkerMoves, TimerMoves
    DEF TypeOK, ResetStart, ClearStart, VendorLabel, WorkerLabel, TimerLabel, ClearLabel, Checkers
  <2>2. CASE ResetMode(p)
    BY <2>2, VendorMoves, WorkerMoves, TimerMoves
    DEF TypeOK, ResetMode, ClearMode, AfterReset, StoredMode, LockoutMode,
        VendorLabel, WorkerLabel, TimerLabel, ClearLabel, Checkers
  <2> QED BY <1>6, <2>1, <2>2 DEF ResetRuns
<1>7. CASE Tick
  <2>1. \A t \in Timers : sleep'[t] \in 0 .. LOCKOUT_TIMED_DURATION + MaxAhead
    BY <1>7, DurationAssumption, AheadAssumption DEF Tick, TypeOK
  <2> QED BY <1>7, <2>1, AgeGrows DEF TypeOK, Tick, TimePasses
<1>8. CASE UNCHANGED vars
  BY <1>8 DEF TypeOK, vars
<1> QED BY <1>1, <1>2, <1>3, <1>4, <1>5, <1>6, <1>7, <1>8 DEF Next

LEMMA TypeInit == Init => TypeOK
<1> SUFFICES ASSUME Init PROVE TypeOK
  OBVIOUS
<1>1. disturbed \in BOOLEAN
  BY DEF Init
<1>2. /\ timeLeft \in [Checkers -> -1 .. LOCKOUT_TIMED_DURATION + MaxAhead]
      /\ sleep \in [Timers -> 0 .. LOCKOUT_TIMED_DURATION + MaxAhead]
  BY DurationAssumption, AheadAssumption DEF Init
<1>3. /\ pc \in [Threads -> VendorLabel \cup WorkerLabel \cup TimerLabel]
      /\ pc["vendor"] = "idle"
      /\ pc["worker"] = "idle"
      /\ \A t \in Timers : pc[t] = "off"
  BY KindsApart, TimersAssumption
  DEF Init, VendorLabel, TimerLabel, Checkers, Threads
<1> QED BY <1>1, <1>2, <1>3
        DEF Init, TypeOK, VendorLabel, WorkerLabel, TimerLabel, Report

\* Every field, register and label keeps to its range, whatever the fields hold that no
\* constructor writes: in particular the time left can be negative, and exceeds the
\* duration of the lockout by no more than an unwritten start lies in the future.
THEOREM TypeCorrect == Spec => []TypeOK
BY TypeInit, TypeStep, PTL DEF Spec

-----------------------------------------------------------------------------
(* The inductive step.                                                       *)

\* Nobody but p is in the code.
Only(p) == \A q \in Threads \ {p} : ~Busy(q)

\* Once disturbed, always disturbed.
LEMMA DisturbedStays ==
  ASSUME TypeOK, Next, ~disturbed'
  PROVE  ~disturbed
BY DEF Next, Input, AttemptFails, AttemptSucceeds, PointerDown, ResetLockout,
       VendorRuns, LoadCount, StoreCount, Raise, Stamp,
       WorkerRuns, ClearCount, IfStarted,
       CheckRuns, ReadMode, CheckElapsed, Expire, Unstamp, GetTimeLeft, TellTimed,
       NeedTimer, Spawn, MarkStarted, TellPermanent, Abort,
       TimerRuns, WakeUp, TellCleared, Unmark, Unabort,
       ResetRuns, ResetStart, ResetMode, Tick, Enter, Step, TypeOK

\* A thread that is in the code is there alone.
LEMMA RunsAlone ==
  ASSUME NEW p \in Threads, Alone, Busy(p)
  PROVE  Only(p)
BY DEF Alone, Only

\* A thread that comes in undisturbed finds nobody.
LEMMA EntersAlone ==
  ASSUME NEW p \in Threads, NEW from, NEW to, Enter(p, from, to), ~disturbed'
  PROVE  Only(p)
BY DEF Enter, Only

\* The others are where they were: checkers idle, timers asleep or off.
LEMMA OthersRest ==
  ASSUME TypeOK, NEW p \in Threads, Only(p)
  PROVE  /\ \A q \in Checkers \ {p} : pc[q] = "idle"
         /\ \A t \in Timers \ {p} : pc[t] \in {"asleep", "off"}
BY KindsApart
DEF Only, Busy, Resting, TypeOK, Checkers, VendorLabel, WorkerLabel, TimerLabel,
    CheckLabel, ClearLabel

\* Moving the only busy thread leaves at most one busy.
LEMMA AloneKept ==
  ASSUME TypeOK, NEW p \in Threads, NEW to, Only(p), pc' = [pc EXCEPT ![p] = to]
  PROVE  Alone'
BY DEF TypeOK, Only, Alone, Busy

\* A message comes in, or the worker takes a task.
LEMMA InputKeeps ==
  ASSUME TypeOK, Undisturbed, Input, ~disturbed'
  PROVE  Undisturbed'
<1> USE KindsApart DEF tracker, flags, locals, Step, Enter, Checkers
<1> USE DEF Undisturbed, OneTimer, FlagIsExact, Marked, SpawnsUnmarked,
            TrueAtLabel, WorkerResets, PermanentTold, TimedTold,
            SleeperIsDue, TellsDue, CountIsFresh, StartIsFresh
<1>1. CASE AttemptFails
  <2>1. Only("vendor")
    BY <1>1, EntersAlone DEF AttemptFails
  <2>2. Alone'
    BY <1>1, <2>1, AloneKept DEF AttemptFails
  <2> QED BY <1>1, <2>1, <2>2, OthersRest DEF TypeOK, AttemptFails
<1>2. CASE AttemptSucceeds
  <2>1. Only("vendor")
    BY <1>2, EntersAlone DEF AttemptSucceeds
  <2>2. Alone'
    BY <1>2, <2>1, AloneKept DEF AttemptSucceeds
  <2> QED BY <1>2, <2>1, <2>2, OthersRest DEF TypeOK, AttemptSucceeds
<1>3. CASE PointerDown
  <2>1. Only("worker")
    BY <1>3, EntersAlone DEF PointerDown
  <2>2. Alone'
    BY <1>3, <2>1, AloneKept DEF PointerDown
  <2> QED BY <1>3, <2>1, <2>2, OthersRest DEF TypeOK, PointerDown
<1>4. CASE ResetLockout
  <2>1. Only("worker")
    BY <1>4, EntersAlone DEF ResetLockout
  <2>2. Alone'
    BY <1>4, <2>1, AloneKept DEF ResetLockout
  <2> QED BY <1>4, <2>1, <2>2, OthersRest DEF TypeOK, ResetLockout
<1> QED BY <1>1, <1>2, <1>3, <1>4 DEF Input

\* addFailedAttempt.
LEMMA VendorKeeps ==
  ASSUME TypeOK, Undisturbed, VendorRuns, ~disturbed'
  PROVE  Undisturbed'
<1> USE KindsApart DEF tracker, flags, locals, Step, Enter, Checkers
<1> USE DEF Undisturbed, OneTimer, FlagIsExact, Marked, SpawnsUnmarked,
            TrueAtLabel, WorkerResets, PermanentTold, TimedTold,
            SleeperIsDue, TellsDue, CountIsFresh, StartIsFresh
<1>1. Only("vendor")
  BY RunsAlone DEF VendorRuns, LoadCount, StoreCount, Raise, Stamp, Busy,
       Resting
<1>2. /\ \A q \in Checkers \ {"vendor"} : pc[q] = "idle"
      /\ \A u \in Timers \ {"vendor"} : pc[u] \in {"asleep", "off"}
  BY <1>1, OthersRest
<1>3. CASE LoadCount
  <2>1. Alone'
    BY <1>1, <1>3, AloneKept DEF LoadCount
  <2> QED BY <1>2, <1>3, <2>1 DEF TypeOK, LoadCount
<1>4. CASE StoreCount
  <2>1. Alone'
    BY <1>1, <1>4, AloneKept DEF StoreCount
  <2> QED BY <1>2, <1>4, <2>1 DEF TypeOK, StoreCount, StoreFailedCount
<1>5. CASE Raise
  <2>1. Alone'
    BY <1>1, <1>5, AloneKept DEF Raise
  <2> QED BY <1>2, <1>5, <2>1 DEF TypeOK, Raise, StoreRaisedMode, BeginsTimedLockout,
            LockoutMode
<1>6. CASE Stamp
  <2>1. Alone'
    BY <1>1, <1>6, AloneKept DEF Stamp
  <2> QED BY <1>2, <1>6, <2>1 DEF TypeOK, Stamp, StampStart
<1> QED BY <1>3, <1>4, <1>5, <1>6 DEF VendorRuns

\* resetLockoutImpl, but for the two steps it shares with others.
LEMMA WorkerKeeps ==
  ASSUME TypeOK, Undisturbed, WorkerRuns, ~disturbed'
  PROVE  Undisturbed'
<1> USE KindsApart DEF tracker, flags, locals, Step, Enter, Checkers
<1> USE DEF Undisturbed, OneTimer, FlagIsExact, Marked, SpawnsUnmarked,
            TrueAtLabel, WorkerResets, PermanentTold, TimedTold,
            SleeperIsDue, TellsDue, CountIsFresh, StartIsFresh
<1>1. Only("worker")
  BY RunsAlone DEF WorkerRuns, ClearCount, IfStarted, Busy, Resting
<1>2. /\ \A q \in Checkers \ {"worker"} : pc[q] = "idle"
      /\ \A u \in Timers \ {"worker"} : pc[u] \in {"asleep", "off"}
  BY <1>1, OthersRest
<1>3. CASE ClearCount
  <2>1. Alone'
    BY <1>1, <1>3, AloneKept DEF ClearCount
  <2> QED BY <1>2, <1>3, <2>1 DEF TypeOK, ClearCount, ClearFailedCount
<1>4. CASE IfStarted
  <2>1. Alone'
    BY <1>1, <1>4, AloneKept DEF IfStarted
  <2>2. CASE isLockoutTimerStarted
    BY <1>2, <1>4, <2>1, <2>2 DEF TypeOK, IfStarted
  <2>3. CASE ~isLockoutTimerStarted
    <3>1. \A t \in Timers : pc[t] # "asleep"
      BY <1>2, <1>4, <2>3 DEF IfStarted
    <3> QED BY <1>2, <1>4, <2>1, <2>3, <3>1 DEF TypeOK, IfStarted
  <2> QED BY <2>2, <2>3
<1> QED BY <1>3, <1>4 DEF WorkerRuns

\* checkSensorLockout.
LEMMA CheckKeeps ==
  ASSUME TypeOK, Undisturbed, NEW p \in Checkers, CheckRuns(p), ~disturbed'
  PROVE  Undisturbed'
<1> USE KindsApart DEF tracker, flags, locals, Step, Enter, Checkers
<1> USE DEF Undisturbed, OneTimer, FlagIsExact, Marked, SpawnsUnmarked,
            TrueAtLabel, WorkerResets, PermanentTold, TimedTold,
            SleeperIsDue, TellsDue, CountIsFresh, StartIsFresh
<1>1. Only(p)
  BY RunsAlone DEF CheckRuns, ReadMode, CheckElapsed, Expire, Unstamp,
       GetTimeLeft, TellTimed, NeedTimer, Spawn, MarkStarted, TellPermanent,
       Abort, Busy, Resting
<1>2. /\ \A q \in Checkers \ {p} : pc[q] = "idle"
      /\ \A u \in Timers \ {p} : pc[u] \in {"asleep", "off"}
  BY <1>1, OthersRest
<1>3. CASE ReadMode(p)
  <2>1. Alone'
    BY <1>1, <1>3, AloneKept DEF ReadMode
  <2> QED BY <1>2, <1>3, <2>1 DEF TypeOK, ReadMode
<1>4. CASE CheckElapsed(p)
  <2>1. Alone'
    BY <1>1, <1>4, AloneKept DEF CheckElapsed
  <2> QED BY <1>2, <1>4, <2>1 DEF TypeOK, CheckElapsed
<1>5. CASE Expire(p)
  <2>1. Alone'
    BY <1>1, <1>5, AloneKept DEF Expire
  <2> QED BY <1>2, <1>5, <2>1 DEF TypeOK, Expire, ClearMode, LockoutMode
<1>6. CASE Unstamp(p)
  <2>1. Alone'
    BY <1>1, <1>6, AloneKept DEF Unstamp
  <2> QED BY <1>2, <1>6, <2>1 DEF TypeOK, Unstamp, ClearStart
<1>7. CASE GetTimeLeft(p)
  <2>1. Alone'
    BY <1>1, <1>7, AloneKept DEF GetTimeLeft
  <2> QED BY <1>2, <1>7, <2>1 DEF TypeOK, GetTimeLeft
<1>8. CASE TellTimed(p)
  <2>1. Alone'
    BY <1>1, <1>8, AloneKept DEF TellTimed
  <2> QED BY <1>2, <1>8, <2>1 DEF TypeOK, TellTimed
<1>9. CASE NeedTimer(p)
  <2>1. Alone'
    BY <1>1, <1>9, AloneKept DEF NeedTimer
  <2> QED BY <1>2, <1>9, <2>1 DEF TypeOK, NeedTimer
<1>10. CASE Spawn(p)
  <2>1. PICK t \in Timers :
          /\ pc[p] = "spawn"
          /\ pc' = [pc EXCEPT ![p] = "markStarted", ![t] = "asleep"]
    BY <1>10 DEF Spawn
  <2>2. pc'[t] = "asleep" /\ pc'[p] = "markStarted"
    BY <2>1 DEF TypeOK
  <2>3. \A q \in Checkers \ {p} : pc'[q] = "idle"
    BY <1>2, <2>1 DEF TypeOK
  <2>4. \A u \in Timers : pc[u] = "off"
    BY <1>2, <2>1 DEF TypeOK
  <2>5. \A u \in Timers \ {t} : pc'[u] = "off"
    BY <2>1, <2>4 DEF TypeOK
  <2>6. Alone'
    BY <2>2, <2>3, <2>5 DEF Alone, Busy, Resting
  <2> QED BY <1>10, <2>2, <2>3, <2>4, <2>5, <2>6 DEF TypeOK, Spawn
<1>11. CASE MarkStarted(p)
  <2>1. Alone'
    BY <1>1, <1>11, AloneKept DEF MarkStarted
  <2> QED BY <1>2, <1>11, <2>1 DEF TypeOK, MarkStarted
<1>12. CASE TellPermanent(p)
  <2>1. Alone'
    BY <1>1, <1>12, AloneKept DEF TellPermanent
  <2> QED BY <1>2, <1>12, <2>1 DEF TypeOK, TellPermanent
<1>13. CASE Abort(p)
  <2>1. Alone'
    BY <1>1, <1>13, AloneKept DEF Abort
  <2> QED BY <1>2, <1>13, <2>1 DEF TypeOK, Abort
<1> QED BY <1>3, <1>4, <1>5, <1>6, <1>7, <1>8, <1>9, <1>10, <1>11, <1>12, <1>13 DEF CheckRuns

\* reset.
LEMMA ResetKeeps ==
  ASSUME TypeOK, Undisturbed, NEW p \in Threads, ResetRuns(p), ~disturbed'
  PROVE  Undisturbed'
<1> USE KindsApart DEF tracker, flags, locals, Step, Enter, Checkers
<1> USE DEF Undisturbed, OneTimer, FlagIsExact, Marked, SpawnsUnmarked,
            TrueAtLabel, WorkerResets, PermanentTold, TimedTold,
            SleeperIsDue, TellsDue, CountIsFresh, StartIsFresh
<1>1. Only(p)
  BY RunsAlone DEF ResetRuns, ResetStart, ResetMode, Busy, Resting
<1>2. /\ \A q \in Checkers \ {p} : pc[q] = "idle"
      /\ \A u \in Timers \ {p} : pc[u] \in {"asleep", "off"}
  BY <1>1, OthersRest
<1>3. CASE ResetStart(p)
  <2>1. Alone'
    BY <1>1, <1>3, AloneKept DEF ResetStart
  <2> QED BY <1>2, <1>3, <2>1 DEF TypeOK, ResetStart, ClearStart
<1>4. CASE ResetMode(p)
  <2>1. Alone'
    BY <1>1, <1>4, AloneKept DEF ResetMode
  <2> QED BY <1>2, <1>4, <2>1 DEF TypeOK, ResetMode, ClearMode, AfterReset, LockoutMode
<1> QED BY <1>3, <1>4 DEF ResetRuns

\* lockoutTimerExpired, once the thread is awake.
LEMMA TimerKeeps ==
  ASSUME TypeOK, Undisturbed, NEW t \in Timers, TimerRuns(t), ~disturbed'
  PROVE  Undisturbed'
<1> USE KindsApart DEF tracker, flags, locals, Step, Enter, Checkers
<1> USE DEF Undisturbed, OneTimer, FlagIsExact, Marked, SpawnsUnmarked,
            TrueAtLabel, WorkerResets, PermanentTold, TimedTold,
            SleeperIsDue, TellsDue, CountIsFresh, StartIsFresh
<1>1. Only(t)
  <2>1. CASE WakeUp(t)
    BY <2>1, EntersAlone DEF WakeUp
  <2>2. CASE TellCleared(t) \/ Unmark(t) \/ Unabort(t)
    BY <2>2, RunsAlone DEF TellCleared, Unmark, Unabort, Busy, Resting
  <2> QED BY <2>1, <2>2 DEF TimerRuns
<1>2. /\ \A q \in Checkers \ {t} : pc[q] = "idle"
      /\ \A u \in Timers \ {t} : pc[u] \in {"asleep", "off"}
  BY <1>1, OthersRest
<1>3. CASE WakeUp(t)
  <2>1. Alone'
    BY <1>1, <1>3, AloneKept DEF WakeUp
  <2> QED BY <1>2, <1>3, <2>1 DEF TypeOK, WakeUp
<1>4. CASE TellCleared(t)
  <2>1. Alone'
    BY <1>1, <1>4, AloneKept DEF TellCleared
  <2> QED BY <1>2, <1>4, <2>1 DEF TypeOK, TellCleared
<1>5. CASE Unmark(t)
  <2>1. Alone'
    BY <1>1, <1>5, AloneKept DEF Unmark
  <2> QED BY <1>2, <1>5, <2>1 DEF TypeOK, Unmark
<1>6. CASE Unabort(t)
  <2>1. Alone'
    BY <1>1, <1>6, AloneKept DEF Unabort
  <2> QED BY <1>2, <1>6, <2>1 DEF TypeOK, Unabort
<1> QED BY <1>3, <1>4, <1>5, <1>6 DEF TimerRuns

\* Every step keeps the inductive invariant.
LEMMA InvStep == IndInv /\ [Next]_vars => IndInv'
<1> SUFFICES ASSUME TypeOK, ~disturbed => Undisturbed, [Next]_vars, ~disturbed'
             PROVE  Undisturbed'
  BY TypeStep DEF IndInv
<1>1. CASE Next
  <2>1. Undisturbed
    BY <1>1, DisturbedStays
  <2>2. CASE Tick
    BY <2>1, <2>2, DurationAssumption, AheadAssumption
    DEF Tick, TimePasses, Unset, flags, Undisturbed, Alone, Busy, OneTimer, FlagIsExact, Marked,
        SpawnsUnmarked, TrueAtLabel, WorkerResets, PermanentTold, TimedTold,
        SleeperIsDue, TellsDue, CountIsFresh, StartIsFresh
  <2> QED BY <1>1, <2>1, <2>2, InputKeeps, VendorKeeps, WorkerKeeps, CheckKeeps,
             ResetKeeps, TimerKeeps DEF Next
<1>2. CASE UNCHANGED vars
  BY <1>2
  DEF vars, tracker, flags, locals, Undisturbed, Alone, Busy, OneTimer, FlagIsExact, Marked,
      SpawnsUnmarked, TrueAtLabel, WorkerResets, PermanentTold, TimedTold,
      SleeperIsDue, TellsDue, CountIsFresh, StartIsFresh
<1> QED BY <1>1, <1>2

LEMMA InvInit == Init => IndInv
<1> SUFFICES ASSUME Init, ~disturbed PROVE Undisturbed
  BY TypeInit DEF IndInv
<1>1. /\ \A p \in Checkers : pc[p] = "idle"
      /\ \A t \in Timers : pc[t] = "off"
  BY KindsApart, TimersAssumption DEF Init, Checkers, Threads
<1>2. AsIfInitialised
  BY DEF Init
<1>3. Alone
  BY <1>1, KindsApart DEF Alone, Busy, Resting
<1> QED BY <1>1, <1>2, <1>3, KindsApart
        DEF AsIfInitialised, LockoutMode, Undisturbed, OneTimer, FlagIsExact, Marked,
            SpawnsUnmarked, TrueAtLabel, PermanentTold, TimedTold, SleeperIsDue,
            TellsDue, CountIsFresh, StartIsFresh

LEMMA Inductive == Spec => []IndInv
BY InvInit, InvStep, PTL DEF Spec

-----------------------------------------------------------------------------
(* What follows from it.                                                     *)

\* As long as the threads have not met, the framework knows of the lockout the
\* tracker is in whenever the code of LockoutTracker and checkSensorLockout rests.
THEOREM LockoutIsAlwaysReported == Spec => []LockoutIsReported
<1>1. IndInv => LockoutIsReported
  <2> SUFFICES ASSUME Undisturbed, Quiet, TypeOK
               PROVE  /\ mCurrentMode = "kTimed" => reported = "timed"
                      /\ mCurrentMode = "kPermanent" => reported = "permanent"
    BY DEF IndInv, LockoutIsReported
  <2> QED BY KindsApart DEF Undisturbed, PermanentTold, TimedTold, WorkerResets, Quiet,
                            Busy, Resting
<1> QED BY <1>1, Inductive, PTL

\* As long as the threads have not met, isLockoutTimerStarted is set whenever the code
\* rests exactly if a timer sleeps, and there is never more than one.
THEOREM OneTimerPerFlagHolds == Spec => []OneTimerPerFlag
<1>1. IndInv => OneTimerPerFlag
  <2> SUFFICES ASSUME Undisturbed, Quiet, TypeOK
               PROVE  /\ isLockoutTimerStarted <=> \E t \in Timers : pc[t] = "asleep"
                      /\ \A t, u \in Timers :
                            pc[t] = "asleep" /\ pc[u] = "asleep" => t = u
    BY DEF IndInv, OneTimerPerFlag
  <2> QED BY KindsApart DEF Undisturbed, FlagIsExact, Marked, OneTimer, Quiet, Busy,
                            Resting
<1> QED BY <1>1, Inductive, PTL

\* As long as the threads have not met, lockoutTimerExpired announces the end only of
\* a timed lockout the framework believes in, and never that of a permanent one.
THEOREM TimerClearsOnlyTimedHolds == Spec => []TimerClearsOnlyTimed
<1>1. IndInv => TimerClearsOnlyTimed
  BY DEF IndInv, Undisturbed, TellsDue, TimerClearsOnlyTimed
<1> QED BY <1>1, Inductive, PTL

\* As long as the threads have not met, no failed attempt is counted twice or lost,
\* and none is forgiven but by a resetLockout the framework has heard of.
THEOREM FailuresForgivenOnlyByResetHolds == Spec => FailuresForgivenOnlyByReset
<1> DEFINE Counted ==
             ~disturbed /\ mFailedCount' # mFailedCount =>
               \/ mFailedCount' = mFailedCount + 1
               \/ mFailedCount' = 0 /\ pc["worker"] # "idle" /\ reported = "none"
<1>1. IndInv /\ [Next]_vars => Counted
  <2> SUFFICES ASSUME TypeOK, Undisturbed, [Next]_vars, mFailedCount' # mFailedCount
               PROVE  \/ mFailedCount' = mFailedCount + 1
                      \/ mFailedCount' = 0 /\ pc["worker"] # "idle" /\ reported = "none"
    BY DEF IndInv
  <2>1. StoreCount \/ ClearCount
    BY DEF vars, tracker, Next, Tick, Input, AttemptFails, AttemptSucceeds,
           PointerDown, ResetLockout, VendorRuns, LoadCount, Raise, StoreRaisedMode,
           Stamp, StampStart, WorkerRuns, IfStarted, CheckRuns, ReadMode, CheckElapsed,
           Expire, Unstamp, GetTimeLeft, TellTimed, NeedTimer, Spawn, MarkStarted,
           TellPermanent, Abort, TimerRuns, WakeUp, TellCleared, Unmark, Unabort,
           ResetRuns, ResetStart, ResetMode, ClearStart, ClearMode
  <2> QED BY <2>1 DEF Undisturbed, CountIsFresh, StoreCount, StoreFailedCount, ClearCount,
                      ClearFailedCount, Step
<1> QED BY <1>1, Inductive, PTL DEF Spec, FailuresForgivenOnlyByReset

\* As long as the threads have not met, a failed attempt never moves the start of a
\* timed lockout that is running.
THEOREM TimedLockoutNotProlongedHolds == Spec => TimedLockoutNotProlonged
<1> DEFINE Grows ==
             ~disturbed /\ mCurrentMode = "kTimed" /\ mCurrentMode' = "kTimed"
               /\ timedAge # Unset => timedAge' >= timedAge
<1>1. IndInv /\ [Next]_vars => Grows
  <2> SUFFICES ASSUME TypeOK, Undisturbed, [Next]_vars, timedAge # Unset
               PROVE  timedAge' >= timedAge
    BY DEF IndInv
  <2>1. timedAge \in Int /\ timedAge <= LOCKOUT_TIMED_DURATION + 1
    BY DurationAssumption, AheadAssumption DEF TypeOK, Age
  <2>2. CASE Stamp
    BY <2>2 DEF Stamp, Step, Undisturbed, StartIsFresh
  <2>3. CASE \E p \in Checkers : Unstamp(p)
    BY <2>1, <2>3, DurationAssumption DEF Unstamp, ClearStart, Unset
  <2>4. CASE \E p \in Threads : ResetStart(p)
    BY <2>1, <2>4, DurationAssumption DEF ResetStart, ClearStart, Unset
  <2>5. CASE Tick
    BY <2>1, <2>5 DEF Tick, TimePasses
  <2>6. CASE timedAge' = timedAge
    BY <2>1, <2>6
  <2>7. \/ Stamp \/ Tick \/ timedAge' = timedAge
        \/ \E p \in Checkers : Unstamp(p)
        \/ \E p \in Threads : ResetStart(p)
    BY DEF vars, tracker, Next, Input, AttemptFails, AttemptSucceeds,
           PointerDown, ResetLockout, VendorRuns, LoadCount, StoreCount,
           StoreFailedCount, Raise, StoreRaisedMode, WorkerRuns, ClearCount,
           ClearFailedCount, IfStarted, CheckRuns, ReadMode, CheckElapsed,
           Expire, GetTimeLeft, TellTimed, NeedTimer, Spawn, MarkStarted,
           TellPermanent, Abort, TimerRuns, WakeUp, TellCleared, Unmark, Unabort,
           ResetRuns, ResetMode, ClearMode
  <2> QED BY <2>2, <2>3, <2>4, <2>5, <2>6, <2>7
<1> QED BY <1>1, Inductive, PTL DEF Spec, TimedLockoutNotProlonged

=============================================================================
