------------------------- MODULE LockoutPolicyProofs -------------------------
(***************************************************************************)
(* EngineLockout implements LockoutPolicy: every step of a thread is one   *)
(* step of the policy or none, until two threads meet.                     *)
(***************************************************************************)
EXTENDS EngineLockoutProofs

\* The stage as seen from the only thread that is in the code.
StageAt(label) ==
  CASE label = "raise"          -> "judge"
    [] label \in CheckingLabel  -> "check"
    [] label = "clearCount"     -> "forgive"
    [] label \in ClearLabel     -> "lift"
    [] OTHER                    -> "rest"

\* Threads that rest are at none of the labels the stage depends on.
LEMMA OnlyMoverCounts ==
  ASSUME TypeOK, NEW p \in Threads, Only(p), NEW to, pc' = [pc EXCEPT ![p] = to],
         NEW L, L \cap Resting = {}
  PROVE  /\ SomeoneAt(L) <=> pc[p] \in L
         /\ SomeoneAt(L)' <=> to \in L
BY DEF SomeoneAt, Only, Busy, TypeOK

LEMMA StageMoves ==
  ASSUME TypeOK, NEW p \in Threads, Only(p), NEW to, pc' = [pc EXCEPT ![p] = to]
  PROVE  PolicyStage = StageAt(pc[p]) /\ PolicyStage' = StageAt(to)
<1>1. /\ {"raise"} \cap Resting = {} /\ CheckingLabel \cap Resting = {}
      /\ {"clearCount"} \cap Resting = {} /\ ClearLabel \cap Resting = {}
  BY DEF Resting, CheckingLabel, ClearLabel
<1>2. /\ SomeoneAt({"raise"}) <=> pc[p] = "raise"
      /\ SomeoneAt({"raise"})' <=> to = "raise"
  BY <1>1, OnlyMoverCounts
<1>3. /\ SomeoneAt(CheckingLabel) <=> pc[p] \in CheckingLabel
      /\ SomeoneAt(CheckingLabel)' <=> to \in CheckingLabel
  BY <1>1, OnlyMoverCounts
<1>4. /\ SomeoneAt({"clearCount"}) <=> pc[p] = "clearCount"
      /\ SomeoneAt({"clearCount"})' <=> to = "clearCount"
  BY <1>1, OnlyMoverCounts
<1>5. /\ SomeoneAt(ClearLabel) <=> pc[p] \in ClearLabel
      /\ SomeoneAt(ClearLabel)' <=> to \in ClearLabel
  BY <1>1, OnlyMoverCounts
<1>6. PolicyStage = StageAt(pc[p])
  BY <1>2, <1>3, <1>4, <1>5, SMTT(30) DEF PolicyStage, StageAt, CheckingLabel, ClearLabel
<1>7. PolicyStage' = StageAt(to)
  BY <1>2, <1>3, <1>4, <1>5, SMTT(30) DEF PolicyStage, StageAt, CheckingLabel, ClearLabel
<1> QED BY <1>6, <1>7

\* One step of the only thread that is in the code, seen from the policy.
LEMMA StepMoves ==
  ASSUME TypeOK, NEW p \in Threads, Only(p), NEW from, NEW to, Step(p, from, to)
  PROVE  PolicyStage = StageAt(from) /\ PolicyStage' = StageAt(to)
BY StageMoves DEF Step

\* A spawned timer sleeps, so the policy does not see it.
LEMMA SpawnMoves ==
  ASSUME TypeOK, NEW p \in Checkers, Only(p), Spawn(p)
  PROVE  PolicyStage = "rest" /\ PolicyStage' = "rest"
<1>1. \A q \in Threads : pc[q] \in {"spawn", "idle", "asleep", "off"}
  BY KindsApart, OthersRest DEF Spawn
<1>2. \A q \in Threads : pc'[q] \in {"markStarted", "idle", "asleep", "off"}
  BY <1>1, KindsApart, OthersRest DEF Spawn, TypeOK
<1>3. \A L \in {{"raise"}, CheckingLabel, {"clearCount"}, ClearLabel} :
        ~SomeoneAt(L) /\ ~SomeoneAt(L)'
  BY <1>1, <1>2 DEF SomeoneAt, CheckingLabel, ClearLabel
<1> QED BY <1>3 DEF PolicyStage

\* Where no thread moves, the stage stays.
LEMMA StageStays ==
  ASSUME pc' = pc
  PROVE  PolicyStage' = PolicyStage
BY DEF PolicyStage, SomeoneAt

-----------------------------------------------------------------------------
(* The step, action by action.  What the policy calls Fail is the store of   *)
(* the count; the load before it does not show.                              *)

Shown == Policy!PolicyStep \/ UNCHANGED Policy!policyVars

\* A message comes in, or the worker takes a task.
LEMMA InputImplements ==
  ASSUME TypeOK, Undisturbed, Input, ~disturbed, ~disturbed'
  PROVE  Shown
<1> USE KindsApart DEF tracker, flags, locals, StageAt, CheckingLabel, ClearLabel
<1>1. CASE AttemptFails
  <2>1. Only("vendor")
    BY <1>1, EntersAlone DEF AttemptFails
  <2>2. PolicyStage = "rest" /\ PolicyStage' = "rest"
    BY <1>1, <2>1, StepMoves DEF AttemptFails, Enter
  <2> QED BY <1>1, <2>2 DEF AttemptFails, Shown, Policy!policyVars
<1>2. CASE AttemptSucceeds
  <2>1. Only("vendor")
    BY <1>2, EntersAlone DEF AttemptSucceeds
  <2>2. PolicyStage = "rest" /\ PolicyStage' = "lift"
    BY <1>2, <2>1, StepMoves DEF AttemptSucceeds, Enter
  <2> QED BY <1>2, <2>2 DEF AttemptSucceeds, Shown, Policy!PolicyStep, Policy!Recognise, Policy!Proceed
<1>3. CASE PointerDown
  <2>1. Only("worker")
    BY <1>3, EntersAlone DEF PointerDown
  <2>2. PolicyStage = "rest" /\ PolicyStage' = "check"
    BY <1>3, <2>1, StepMoves DEF PointerDown, Enter
  <2> QED BY <1>3, <2>2 DEF PointerDown, Shown, Policy!PolicyStep, Policy!Consult, Policy!Proceed
<1>4. CASE ResetLockout
  <2>1. Only("worker")
    BY <1>4, EntersAlone DEF ResetLockout
  <2>2. PolicyStage = "rest" /\ PolicyStage' = "forgive"
    BY <1>4, <2>1, StepMoves DEF ResetLockout, Enter
  <2> QED BY <1>4, <2>2 DEF ResetLockout, Shown, Policy!PolicyStep, Policy!Reset, Policy!Proceed
<1> QED BY <1>1, <1>2, <1>3, <1>4 DEF Input

\* The vendor thread counts a failed attempt and judges it.
LEMMA VendorImplements ==
  ASSUME TypeOK, Undisturbed, VendorRuns, ~disturbed, ~disturbed'
  PROVE  Shown
<1> USE KindsApart DEF tracker, flags, locals, StageAt, CheckingLabel, ClearLabel
<1>1. Only("vendor")
  BY RunsAlone DEF Undisturbed, VendorRuns, LoadCount, StoreCount, Raise, Stamp, Step,
                   Busy, Resting
<1>2. CASE LoadCount
  <2>1. PolicyStage = "rest" /\ PolicyStage' = "rest"
    BY <1>1, <1>2, StepMoves DEF LoadCount
  <2> QED BY <1>2, <2>1 DEF LoadCount, Shown, Policy!policyVars
<1>3. CASE StoreCount
  <2>1. PolicyStage = "rest" /\ PolicyStage' = "judge"
    BY <1>1, <1>3, StepMoves DEF StoreCount
  <2>2. loaded = mFailedCount
    BY <1>3 DEF StoreCount, Step, Undisturbed, CountIsFresh
  <2> QED BY <1>3, <2>1, <2>2
          DEF StoreCount, StoreFailedCount, Shown, Policy!PolicyStep, Policy!Fail,
              Policy!Proceed
<1>4. CASE Raise
  <2>1. PolicyStage = "judge" /\ PolicyStage' = "check"
    BY <1>1, <1>4, StepMoves DEF Raise
  <2>2. mFailedCount = loaded + 1 /\ mCurrentMode \in LockoutMode /\ mFailedCount \in Nat
    BY <1>4 DEF Raise, Step, Undisturbed, CountIsFresh, StartIsFresh, TypeOK
  <2>3. LockoutOf(mCurrentMode)' =
          CASE mFailedCount >= LOCKOUT_PERMANENT_THRESHOLD -> "permanent"
            [] /\ mFailedCount \in LOCKOUT_TIMED_THRESHOLD .. LOCKOUT_PERMANENT_THRESHOLD - 1
               /\ LockoutOf(mCurrentMode) = "none" -> "timed"
            [] OTHER -> LockoutOf(mCurrentMode)
    BY <1>4, <2>2, ThresholdAssumption
    DEF Raise, StoreRaisedMode, BeginsTimedLockout, LockoutOf, LockoutMode
  <2> QED BY <1>4, <2>1, <2>3
          DEF Raise, StoreRaisedMode, Shown, Policy!PolicyStep, Policy!Judge, Policy!Proceed
<1>5. CASE Stamp
  <2>1. PolicyStage = "check" /\ PolicyStage' = "check"
    BY <1>1, <1>5, StepMoves DEF Stamp
  <2> QED BY <1>5, <2>1 DEF Stamp, StampStart, Shown, Policy!policyVars
<1> QED BY <1>2, <1>3, <1>4, <1>5 DEF VendorRuns

\* resetLockout forgives the attempts; whether a timer sleeps is not the policy's business.
LEMMA WorkerImplements ==
  ASSUME TypeOK, Undisturbed, WorkerRuns, ~disturbed, ~disturbed'
  PROVE  Shown
<1> USE KindsApart DEF tracker, flags, locals, StageAt, CheckingLabel, ClearLabel
<1>1. Only("worker")
  BY RunsAlone DEF Undisturbed, WorkerRuns, ClearCount, IfStarted, Step, Busy, Resting
<1>2. CASE ClearCount
  <2>1. PolicyStage = "forgive" /\ PolicyStage' = "lift"
    BY <1>1, <1>2, StepMoves DEF ClearCount
  <2> QED BY <1>2, <2>1
          DEF ClearCount, ClearFailedCount, Shown, Policy!PolicyStep, Policy!Forgive,
              Policy!Proceed
<1>3. CASE IfStarted
  <2>1. PolicyStage = "rest" /\ PolicyStage' = "rest"
    BY <1>1, <1>3, StepMoves DEF IfStarted
  <2> QED BY <1>3, <2>1 DEF IfStarted, Shown, Policy!policyVars
<1> QED BY <1>2, <1>3 DEF WorkerRuns

\* checkSensorLockout answers with the lockout in force, or finds that it has lapsed.
LEMMA CheckImplements ==
  ASSUME TypeOK, Undisturbed, NEW p \in Checkers, CheckRuns(p), ~disturbed, ~disturbed'
  PROVE  Shown
<1> USE KindsApart DEF tracker, flags, locals, StageAt, CheckingLabel, ClearLabel
<1>1. Only(p)
  BY RunsAlone DEF Undisturbed, CheckRuns, ReadMode, CheckElapsed, Expire, Unstamp,
                   GetTimeLeft, TellTimed, NeedTimer, Spawn, MarkStarted, TellPermanent,
                   Abort, Step, Busy, Resting
<1>2. mCurrentMode \in LockoutMode
  BY DEF Undisturbed, StartIsFresh
<1>3. CASE ReadMode(p)
  <2>1. CASE pc[p] = "reread" /\ mCurrentMode = "kNone"
    <3>1. Step(p, "reread", "idle")
      BY <1>3, <2>1 DEF ReadMode, Step
    <3>2. PolicyStage = "check" /\ PolicyStage' = "rest"
      BY <1>1, <3>1, StepMoves
    <3>3. LockoutOf(mCurrentMode) = "none"
      BY <2>1 DEF LockoutOf
    <3> QED BY <1>3, <3>2, <3>3
            DEF ReadMode, Shown, Policy!PolicyStep, Policy!LetThrough, Policy!Proceed
  <2>2. CASE pc[p] # "reread" \/ mCurrentMode # "kNone"
    <3>1. PICK from \in CheckingLabel, to \in CheckingLabel : Step(p, from, to)
      BY <1>2, <1>3, <2>2 DEF ReadMode, Step, LockoutMode
    <3>2. PolicyStage = "check" /\ PolicyStage' = "check"
      BY <1>1, <3>1, StepMoves
    <3> QED BY <1>3, <3>2 DEF ReadMode, Shown, Policy!policyVars
  <2> QED BY <2>1, <2>2
<1>4. CASE CheckElapsed(p)
  <2>1. PolicyStage = "check" /\ PolicyStage' = "check"
    BY <1>1, <1>4, StepMoves DEF CheckElapsed
  <2> QED BY <1>4, <2>1 DEF CheckElapsed, Shown, Policy!policyVars
<1>5. CASE Expire(p)
  <2>1. PolicyStage = "check" /\ PolicyStage' = "check"
    BY <1>1, <1>5, StepMoves DEF Expire
  <2>2. LockoutOf(mCurrentMode) = "timed" /\ LockoutOf(mCurrentMode)' = "none"
    BY <1>1, <1>5 DEF Expire, Step, ClearMode, LockoutOf, Undisturbed, TrueAtLabel
  <2> QED BY <1>5, <2>1, <2>2
          DEF Expire, ClearMode, Shown, Policy!PolicyStep, Policy!Lapse, Policy!Proceed
<1>6. CASE Unstamp(p)
  <2>1. PolicyStage = "check" /\ PolicyStage' = "check"
    BY <1>1, <1>6, StepMoves DEF Unstamp
  <2> QED BY <1>6, <2>1 DEF Unstamp, ClearStart, Shown, Policy!policyVars
<1>7. CASE GetTimeLeft(p)
  <2>1. PolicyStage = "check" /\ PolicyStage' = "check"
    BY <1>1, <1>7, StepMoves DEF GetTimeLeft
  <2> QED BY <1>7, <2>1 DEF GetTimeLeft, Shown, Policy!policyVars
<1>8. CASE TellTimed(p)
  <2>1. PolicyStage = "check" /\ PolicyStage' = "rest"
    BY <1>1, <1>8, StepMoves DEF TellTimed
  <2>2. LockoutOf(mCurrentMode) = "timed"
    BY <1>8 DEF TellTimed, Step, LockoutOf, Undisturbed, TrueAtLabel
  <2> QED BY <1>8, <2>1, <2>2
          DEF TellTimed, Shown, Policy!PolicyStep, Policy!Tell, Policy!Proceed
<1>9. CASE NeedTimer(p)
  <2>1. PolicyStage = "rest" /\ PolicyStage' = "rest"
    BY <1>1, <1>9, StepMoves DEF NeedTimer
  <2> QED BY <1>9, <2>1 DEF NeedTimer, Shown, Policy!policyVars
<1>10. CASE Spawn(p)
  BY <1>1, <1>10, SpawnMoves DEF Spawn, Shown, Policy!policyVars
<1>11. CASE MarkStarted(p)
  <2>1. PolicyStage = "rest" /\ PolicyStage' = "rest"
    BY <1>1, <1>11, StepMoves DEF MarkStarted
  <2> QED BY <1>11, <2>1 DEF MarkStarted, Shown, Policy!policyVars
<1>12. CASE TellPermanent(p)
  <2>1. PolicyStage = "check" /\ PolicyStage' = "rest"
    BY <1>1, <1>12, StepMoves DEF TellPermanent
  <2>2. LockoutOf(mCurrentMode) = "permanent"
    BY <1>12 DEF TellPermanent, Step, LockoutOf, Undisturbed, TrueAtLabel
  <2> QED BY <1>12, <2>1, <2>2
          DEF TellPermanent, Shown, Policy!PolicyStep, Policy!Tell, Policy!Proceed
<1>13. CASE Abort(p)
  <2>1. PolicyStage = "rest" /\ PolicyStage' = "rest"
    BY <1>1, <1>13, StepMoves DEF Abort
  <2> QED BY <1>13, <2>1 DEF Abort, Shown, Policy!policyVars
<1> QED BY <1>3, <1>4, <1>5, <1>6, <1>7, <1>8, <1>9, <1>10, <1>11, <1>12, <1>13
        DEF CheckRuns

\* A timer announces the end of the lockout, or goes away unheard.
LEMMA TimerImplements ==
  ASSUME TypeOK, Undisturbed, NEW t \in Timers, TimerRuns(t), ~disturbed, ~disturbed'
  PROVE  Shown
<1> USE KindsApart DEF tracker, flags, locals, StageAt, CheckingLabel, ClearLabel
<1>1. Only(t)
  BY RunsAlone, EntersAlone
  DEF Undisturbed, TimerRuns, WakeUp, TellCleared, Unmark, Unabort, Step, Busy, Resting
<1>2. CASE WakeUp(t)
  <2>1. PolicyStage = "rest" /\ PolicyStage' = "rest"
    BY <1>1, <1>2, StepMoves DEF WakeUp, Enter
  <2> QED BY <1>2, <2>1 DEF WakeUp, Shown, Policy!policyVars
<1>3. CASE TellCleared(t)
  <2>1. PolicyStage = "rest" /\ PolicyStage' = "lift"
    BY <1>1, <1>3, StepMoves DEF TellCleared
  <2>2. reported = "timed" /\ LockoutOf(mCurrentMode) # "permanent"
    BY <1>3 DEF TellCleared, Step, LockoutOf, Undisturbed, TellsDue
  <2> QED BY <1>3, <2>1, <2>2
          DEF TellCleared, Shown, Policy!PolicyStep, Policy!Announce, Policy!Proceed
<1>4. CASE Unmark(t)
  <2>1. PolicyStage = "rest" /\ PolicyStage' = "rest"
    BY <1>1, <1>4, StepMoves DEF Unmark
  <2> QED BY <1>4, <2>1 DEF Unmark, Shown, Policy!policyVars
<1>5. CASE Unabort(t)
  <2>1. PolicyStage = "rest" /\ PolicyStage' = "rest"
    BY <1>1, <1>5, StepMoves DEF Unabort
  <2> QED BY <1>5, <2>1 DEF Unabort, Shown, Policy!policyVars
<1> QED BY <1>2, <1>3, <1>4, <1>5 DEF TimerRuns

\* The tail of a reset lifts the lockout, whoever runs it.
LEMMA ResetImplements ==
  ASSUME TypeOK, Undisturbed, NEW p \in Threads, ResetRuns(p), ~disturbed, ~disturbed'
  PROVE  Shown
<1> USE KindsApart DEF tracker, flags, locals, StageAt, CheckingLabel, ClearLabel
<1>1. Only(p)
  BY RunsAlone DEF Undisturbed, ResetRuns, ResetStart, ResetMode, Step, Busy, Resting
<1>2. CASE ResetStart(p)
  <2>1. PolicyStage = "lift" /\ PolicyStage' = "lift"
    BY <1>1, <1>2, StepMoves DEF ResetStart
  <2> QED BY <1>2, <2>1 DEF ResetStart, ClearStart, Shown, Policy!policyVars
<1>3. CASE ResetMode(p)
  <2>1. PolicyStage = "lift" /\ PolicyStage' = "rest"
    BY <1>1, <1>3, StepMoves DEF ResetMode, AfterReset
  <2>2. LockoutOf(mCurrentMode)' = "none"
    BY <1>3 DEF ResetMode, ClearMode, LockoutOf
  <2> QED BY <1>3, <2>1, <2>2
          DEF ResetMode, ClearMode, Shown, Policy!PolicyStep, Policy!Lift, Policy!Proceed
<1> QED BY <1>2, <1>3 DEF ResetRuns

\* Every step of the threads is one of the policy, or none.
LEMMA StepImplements ==
  ASSUME IndInv, [Next]_vars
  PROVE  [Policy!PolicyNext]_(Policy!policyVars)
<1>1. CASE disturbed'
  BY <1>1 DEF Policy!PolicyNext
<1>2. CASE ~disturbed' /\ Next
  <2>1. ~disturbed
    BY <1>2, DisturbedStays DEF IndInv
  <2>2. TypeOK /\ Undisturbed
    BY <2>1 DEF IndInv
  <2>3. CASE Tick
    BY <2>3, StageStays
    DEF Tick, TimePasses, flags, Policy!policyVars
  <2>4. CASE ~Tick
    <3>1. Shown
      BY <1>2, <2>1, <2>2, <2>4, InputImplements, VendorImplements, WorkerImplements,
         CheckImplements, TimerImplements, ResetImplements DEF Next
    <3> QED BY <2>1, <3>1 DEF Shown, Policy!PolicyNext
  <2> QED BY <2>3, <2>4
<1>3. CASE UNCHANGED vars
  BY <1>3, StageStays DEF vars, tracker, Policy!policyVars
<1> QED BY <1>1, <1>2, <1>3

\* Both start with nothing counted, nothing told and nothing pending.
LEMMA InitImplements == Init => Policy!PolicyInit
<1> SUFFICES ASSUME Init PROVE Policy!PolicyInit
  OBVIOUS
<1>1. \A p \in Threads : pc[p] \in {"idle", "off"}
  BY DEF Init
<1>2. \A L \in {{"raise"}, CheckingLabel, {"clearCount"}, ClearLabel} : ~SomeoneAt(L)
  BY <1>1 DEF SomeoneAt, CheckingLabel, ClearLabel
<1>3. PolicyStage = "rest"
  BY <1>2 DEF PolicyStage
<1>4. ~disturbed => LockoutOf(mCurrentMode) = "none"
  BY DEF Init, AsIfInitialised, LockoutOf
<1>5. (~disturbed) \in BOOLEAN /\ reported = "none" /\ mFailedCount = 0
  BY TypeInit DEF Init, TypeOK
<1> QED BY <1>3, <1>4, <1>5 DEF Policy!PolicyInit

\* The engine implements the policy, for every set of timers and every threshold: until
\* two threads meet in its code, a lockout is imposed, told and lifted as the policy says.
THEOREM EngineLockoutImplementsPolicy == Spec => LockoutPolicyKept
<1>1. Spec => []IndInv
  BY Inductive
<1>2. IndInv /\ [Next]_vars => [Policy!PolicyNext]_(Policy!policyVars)
  BY StepImplements
<1> QED BY <1>1, <1>2, InitImplements, PTL DEF Spec, LockoutPolicyKept, Policy!PolicySpec

\* The policy alone is enough for the framework to know of the lockout in force whenever
\* nothing is pending; the proof looks at nothing of the engine.
THEOREM PolicyInforms == LockoutPolicyKept => []Policy!Informed
<1>1. Policy!PolicyInit => Policy!Informed
  BY DEF Policy!PolicyInit, Policy!Informed
<1>2. Policy!Informed /\ [Policy!PolicyNext]_(Policy!policyVars) => Policy!Informed'
  BY DEF Policy!Informed, Policy!PolicyNext, Policy!policyVars, Policy!PolicyStep,
         Policy!Proceed, Policy!Fail, Policy!Judge, Policy!Consult, Policy!Tell,
         Policy!Lapse, Policy!LetThrough, Policy!Reset, Policy!Forgive, Policy!Announce,
         Policy!Recognise, Policy!Lift
<1> QED BY <1>1, <1>2, PTL DEF LockoutPolicyKept, Policy!PolicySpec

=============================================================================
