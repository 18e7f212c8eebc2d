------------------------- MODULE LockoutSessionsProofs -------------------------
(***************************************************************************)
(* Proofs about LockoutSessions.  Whatever the sessions do, the lockout    *)
(* logic sees a behaviour of EngineLockout, so that what is proved of it   *)
(* holds here; and the end of a timed lockout is told to a session that    *)
(* believes in it, for every number of sessions and of timers.             *)
(***************************************************************************)
EXTENDS LockoutSessions, LockoutPolicyProofs

-----------------------------------------------------------------------------
(* The engine of LockoutSessions is EngineLockout.                           *)

\* Sessions come and go without a step of the engine, and otherwise only choose on
\* whose behalf it runs.
LEMMA StepIsEngineStep ==
  ASSUME [NextWithSessions]_allVars
  PROVE  [Next]_vars
<1>1. CASE CreateSession \/ Close \/ CheckSession
  BY <1>1 DEF CreateSession, Close, CheckSession
<1>2. CASE VendorInput \/ WorkerInput
  BY <1>2 DEF VendorInput, WorkerInput, Next, Input
<1>3. ASSUME NEW p \in Threads, Runs(p)
      PROVE  Next
  BY <1>3 DEF Runs, EngineRuns, Next
<1>4. CASE TimePassesForAll
  BY <1>4 DEF TimePassesForAll, Next
<1>5. CASE UNCHANGED allVars
  BY <1>5 DEF allVars
<1> QED BY <1>1, <1>2, <1>3, <1>4, <1>5 DEF NextWithSessions

\* LockoutSessions implements EngineLockout: that the threads carry the callbacks of
\* sessions that are replaced meanwhile adds no behaviour to the lockout logic.
THEOREM SessionsImplementEngine == SpecWithSessions => Spec
<1>1. InitWithSessions => Init
  BY DEF InitWithSessions
<1> QED BY <1>1, StepIsEngineStep, PTL DEF SpecWithSessions, Spec

\* So the framework knows of the lockout, as it does of EngineLockout.
THEOREM LockoutIsReportedToSessions == SpecWithSessions => []LockoutIsReported
BY SessionsImplementEngine, LockoutIsAlwaysReported, PTL

\* And the promise of LockoutPolicy is kept however sessions come and go, the engine being
\* one for all of them (Fingerprint::createSession).
THEOREM SessionsKeepPolicy == SpecWithSessions => LockoutPolicyKept
BY SessionsImplementEngine, EngineLockoutImplementsPolicy, PTL

-----------------------------------------------------------------------------
(* Whose callback a thread holds.                                            *)

AllTypes == TypeOK /\ SessionsTypeOK

LEMMA CallbacksKeepType ==
  ASSUME AllTypes, TypeOK', NEW s \in Sessions, OnBehalfOf(s)
  PROVE  /\ cb' \in [Threads -> Sessions \cup {None}]
         /\ \A p \in Threads : cb'[p] = None <=> Away(pc'[p])
BY SessionsAssumption DEF AllTypes, SessionsTypeOK, OnBehalfOf, Sessions, None

\* A thread that stays in the code keeps its callback ...
LEMMA HoldsOn ==
  ASSUME NEW s, OnBehalfOf(s), NEW p \in Threads, ~Away(pc[p]), ~Away(pc'[p])
  PROVE  cb'[p] = cb[p]
BY DEF OnBehalfOf

\* ... and one that comes in gets that of the session it came for.
LEMMA GetsOwn ==
  ASSUME NEW s, OnBehalfOf(s), NEW p \in Threads, Away(pc[p]), ~Away(pc'[p])
  PROVE  cb'[p] = s
BY DEF OnBehalfOf

\* A thread runs only when it is in the code, and then it holds a callback.
LEMMA RunsInside ==
  ASSUME NEW p \in Threads, EngineRuns(p)
  PROVE  ~Away(pc[p])
BY KindsApart
DEF EngineRuns, Away, Step, Enter,
    VendorRuns, LoadCount, StoreCount, Raise, Stamp, WorkerRuns, ClearCount, IfStarted,
    CheckRuns, ReadMode, CheckElapsed, Expire, Unstamp, GetTimeLeft, TellTimed,
    NeedTimer, Spawn, MarkStarted, TellPermanent, Abort,
    TimerRuns, WakeUp, TellCleared, Unmark, Unabort, ResetRuns, ResetStart, ResetMode

\* What a session is told is what the framework is told.
LEMMA TellsType ==
  ASSUME knows \in [Sessions -> Report], TypeOK', NEW s \in Sessions, Tells(s)
  PROVE  knows' \in [Sessions -> Report]
BY DEF Tells, TypeOK

LEMMA SessionsTypeInit == InitWithSessions => AllTypes
<1> SUFFICES ASSUME InitWithSessions PROVE AllTypes
  OBVIOUS
<1>1. TypeOK
  BY TypeInit DEF InitWithSessions
<1>2. \A p \in Threads : Away(pc[p])
  BY DEF InitWithSessions, Init, Away
<1> QED BY <1>1, <1>2 DEF InitWithSessions, AllTypes, SessionsTypeOK, Report

LEMMA SessionsTypeStep == AllTypes /\ [NextWithSessions]_allVars => AllTypes'
<1> SUFFICES ASSUME AllTypes, [NextWithSessions]_allVars
             PROVE  AllTypes'
  OBVIOUS
<1>1. TypeOK'
  BY StepIsEngineStep, TypeStep DEF AllTypes
<1>2. CASE CreateSession
  <2>1. mSession' \in Sessions \cup {None}
    BY <1>2, SessionsAssumption DEF CreateSession, AllTypes, SessionsTypeOK, Sessions, None
  <2>2. checked' => mSession' # None
    BY <1>2, SessionsAssumption DEF CreateSession, AllTypes, SessionsTypeOK, Sessions, None
  <2> QED BY <1>1, <1>2, <2>1, <2>2
          DEF CreateSession, AllTypes, SessionsTypeOK, vars
<1>3. CASE Close
  BY <1>1, <1>3 DEF Close, AllTypes, SessionsTypeOK, vars
<1>4. CASE VendorInput
  <2>1. mSession \in Sessions
    BY <1>4 DEF VendorInput, AllTypes, SessionsTypeOK
  <2> QED BY <1>1, <1>4, <2>1, CallbacksKeepType DEF VendorInput, AllTypes, SessionsTypeOK, sessionVars
<1>5. CASE WorkerInput
  <2>1. PICK s \in 1 .. mSession :
          /\ \/ PointerDown /\ UNCHANGED knows
             \/ ResetLockout /\ Tells(s)
          /\ OnBehalfOf(s)
          /\ UNCHANGED <<sessionVars, checked>>
    BY <1>5 DEF WorkerInput
  <2>2. s \in Sessions
    BY SessionsAssumption DEF AllTypes, SessionsTypeOK, Sessions, None
  <2>3. knows' \in [Sessions -> Report]
    BY <1>1, <2>1, <2>2, TellsType DEF AllTypes, SessionsTypeOK
  <2> QED BY <1>1, <2>1, <2>2, <2>3, CallbacksKeepType DEF AllTypes, SessionsTypeOK, sessionVars
<1>6. ASSUME NEW p \in Threads, Runs(p)
      PROVE  AllTypes'
  <2>1. cb[p] \in Sessions
    BY <1>6, RunsInside DEF Runs, AllTypes, SessionsTypeOK
  <2>2. knows' \in [Sessions -> Report]
    BY <1>1, <1>6, <2>1, TellsType DEF Runs, AllTypes, SessionsTypeOK
  <2> QED BY <1>1, <1>6, <2>1, <2>2, CallbacksKeepType DEF Runs, AllTypes, SessionsTypeOK, sessionVars
<1>7. CASE TimePassesForAll
  BY <1>1, <1>7 DEF TimePassesForAll, Tick, AllTypes, SessionsTypeOK, sessionVars
<1>8. CASE CheckSession
  BY <1>1, <1>8 DEF CheckSession, AllTypes, SessionsTypeOK, vars, sessionVars
<1>9. CASE UNCHANGED allVars
  BY <1>1, <1>9 DEF allVars, vars, sessionVars, AllTypes, SessionsTypeOK
<1> QED BY <1>2, <1>3, <1>4, <1>5, <1>6, <1>7, <1>8, <1>9 DEF NextWithSessions

\* A thread holds the callback of a session exactly while it is in the code or sleeps,
\* and never that of a session that was not created.
THEOREM SessionsTypeCorrect == SpecWithSessions => []SessionsTypeOK
<1>1. AllTypes => SessionsTypeOK
  BY DEF AllTypes
<1> QED BY <1>1, SessionsTypeInit, SessionsTypeStep, PTL DEF SpecWithSessions

-----------------------------------------------------------------------------
(* The inductive invariant.  While the threads have not met, what a thread   *)
(* brings the framework is due to the very session whose callback it holds.  *)

\* Whoever is about to start a timer has told its session of the lockout.
StarterTold ==
  \A p \in Checkers : pc[p] \in {"needTimer", "spawn"} => knows[cb[p]] = "timed"

\* A timer that sleeps is awaited by its session, or is about to be aborted.
SleeperIsAwaited ==
  \A t \in Timers : pc[t] = "asleep" /\ ~isLockoutTimerAborted =>
    \/ knows[cb[t]] = "timed"
    \/ \E p \in Checkers : pc[p] = "abort"
    \/ WorkerResets
    \/ pc["worker"] = "ifStarted"

TellsItsOwn ==
  \A t \in Timers : pc[t] = "tellCleared" => knows[cb[t]] = "timed"

Awaited == StarterTold /\ SleeperIsAwaited /\ TellsItsOwn

SessionsInv == AllTypes /\ IndInv /\ (~disturbed => Awaited)

-----------------------------------------------------------------------------
(* The inductive step.                                                       *)

\* A finger, or resetLockout: the latter tells its session that nothing is locked.
LEMMA InputAwaits ==
  ASSUME AllTypes, Undisturbed, Awaited, ~disturbed', VendorInput \/ WorkerInput
  PROVE  Awaited'
<1> USE KindsApart DEF tracker, flags, locals, Step, Checkers, TypeOK, AllTypes, SessionsTypeOK
<1> USE DEF Awaited, StarterTold, SleeperIsAwaited, TellsItsOwn, WorkerResets, Away
<1>1. CASE VendorInput
  <2>1. Only("vendor")
    BY <1>1, EntersAlone DEF VendorInput, AttemptFails, AttemptSucceeds
  <2>2. PICK to \in {"loadCount", "clearStart"} : Step("vendor", "idle", to)
    BY <1>1 DEF VendorInput, AttemptFails, AttemptSucceeds, Enter
  <2>3. \A q \in Threads \ {"vendor"} : pc'[q] = pc[q]
    BY <2>2
  <2>4. \A t \in Timers : pc[t] = "asleep" => cb'[t] = cb[t]
    BY <1>1, <2>3, HoldsOn DEF VendorInput
  <2>5. UNCHANGED <<knows, isLockoutTimerAborted>>
    BY <1>1 DEF VendorInput, AttemptFails, AttemptSucceeds
  <2> QED BY <2>1, <2>2, <2>3, <2>4, <2>5, OthersRest
<1>2. CASE WorkerInput
  <2>1. PICK s \in 1 .. mSession :
          /\ \/ PointerDown /\ UNCHANGED knows
             \/ ResetLockout /\ Tells(s)
          /\ OnBehalfOf(s)
    BY <1>2 DEF WorkerInput
  <2>2. Only("worker")
    BY <2>1, EntersAlone DEF PointerDown, ResetLockout
  <2>3. PICK to \in {"getMode", "clearCount"} : Step("worker", "idle", to)
    BY <2>1 DEF PointerDown, ResetLockout, Enter
  <2>4. \A q \in Threads \ {"worker"} : pc'[q] = pc[q]
    BY <2>3
  <2>5. \A t \in Timers : pc[t] = "asleep" => cb'[t] = cb[t]
    BY <2>1, <2>4, HoldsOn
  <2>6. isLockoutTimerAborted' = isLockoutTimerAborted
    BY <2>1 DEF PointerDown, ResetLockout
  <2>7. knows' = knows \/ pc'["worker"] = "clearCount"
    BY <2>1 DEF ResetLockout, Enter
  <2> QED BY <2>2, <2>3, <2>4, <2>5, <2>6, <2>7, OthersRest
<1> QED BY <1>1, <1>2

\* The thread that runs is the only one in the code.
LEMMA RunnerIsAlone ==
  ASSUME TypeOK, Undisturbed, ~disturbed', NEW p \in Threads, EngineRuns(p)
  PROVE  Only(p)
<1>1. CASE p \in Timers /\ WakeUp(p)
  BY <1>1, EntersAlone DEF WakeUp
<1>2. CASE ~(p \in Timers /\ WakeUp(p))
  <2>1. Busy(p)
    BY <1>2
    DEF EngineRuns, Busy, Resting, Step, Enter,
        VendorRuns, LoadCount, StoreCount, Raise, Stamp, WorkerRuns, ClearCount, IfStarted,
        CheckRuns, ReadMode, CheckElapsed, Expire, Unstamp, GetTimeLeft, TellTimed,
        NeedTimer, Spawn, MarkStarted, TellPermanent, Abort,
        TimerRuns, TellCleared, Unmark, Unabort, ResetRuns, ResetStart, ResetMode
  <2> QED BY <2>1, RunsAlone DEF Undisturbed
<1> QED BY <1>1, <1>2

\* Vendor thread and worker outside checkSensorLockout.
LEMMA HandlerAwaits ==
  ASSUME AllTypes, Undisturbed, Awaited, ~disturbed', NEW p \in Threads, Runs(p),
         \/ p = "vendor" /\ VendorRuns
         \/ p = "worker" /\ WorkerRuns
         \/ ResetRuns(p)
  PROVE  Awaited'
<1> USE KindsApart DEF tracker, flags, locals, Step, Checkers, TypeOK, AllTypes, SessionsTypeOK
<1>1. Only(p)
  BY RunnerIsAlone DEF Runs
<1>2. PICK from, to : Step(p, from, to)
  BY DEF VendorRuns, LoadCount, StoreCount, Raise, Stamp, WorkerRuns, ClearCount,
         IfStarted, ResetRuns, ResetStart, ResetMode
<1>3. \A q \in Threads \ {p} : pc'[q] = pc[q]
  BY <1>2
<1>4. \A t \in Timers \ {p} : pc[t] = "asleep" => cb'[t] = cb[t]
  BY <1>3, HoldsOn DEF Runs, Away
<1>5. UNCHANGED <<knows, isLockoutTimerAborted>>
  BY DEF Runs, Telling, VendorRuns, LoadCount, StoreCount, Raise, Stamp, WorkerRuns,
         ClearCount, IfStarted, ResetRuns, ResetStart, ResetMode
<1>6. pc'[p] \notin {"needTimer", "spawn", "asleep", "tellCleared"}
  BY DEF VendorRuns, LoadCount, StoreCount, Raise, Stamp, WorkerRuns, ClearCount,
         IfStarted, ResetRuns, ResetStart, ResetMode, AfterReset
<1>7. /\ WorkerResets => WorkerResets' \/ pc'["worker"] = "ifStarted" \/ p # "worker"
      /\ \A q \in Checkers : pc[q] = "abort" => pc'[q] = "abort"
  BY <1>3 DEF WorkerResets, VendorRuns, LoadCount, StoreCount, Raise, Stamp, WorkerRuns,
          ClearCount, IfStarted, ResetRuns, ResetStart, ResetMode, AfterReset
<1>8. pc["worker"] = "ifStarted" =>
        \/ p # "worker"
        \/ pc'["worker"] = "abort"
        \/ \A t \in Timers : pc[t] # "asleep"
  BY <1>1, OthersRest
     DEF VendorRuns, WorkerRuns, ClearCount, IfStarted, ResetRuns, ResetStart, ResetMode,
         Undisturbed, FlagIsExact, Marked, LoadCount, StoreCount, Raise, Stamp, SpawnsUnmarked
<1> QED BY <1>1, <1>3, <1>4, <1>5, <1>6, <1>7, <1>8, OthersRest
        DEF Awaited, StarterTold, SleeperIsAwaited, TellsItsOwn, WorkerResets

\* checkSensorLockout: whoever starts a timer has told its session of the lockout, and
\* hands its callback over.
LEMMA CheckAwaits ==
  ASSUME AllTypes, Undisturbed, Awaited, ~disturbed',
         NEW p \in Checkers, Runs(p), CheckRuns(p)
  PROVE  Awaited'
<1> USE KindsApart DEF Checkers
<1>1. Only(p)
  BY RunnerIsAlone DEF Runs, AllTypes, SessionsTypeOK
<1>2. /\ \A q \in Checkers \ {p} : pc[q] = "idle"
      /\ \A t \in Timers : pc[t] \in {"asleep", "off"}
  BY <1>1, OthersRest DEF AllTypes, SessionsTypeOK
<1>3. OnBehalfOf(cb[p]) /\ cb[p] \in Sessions
  BY RunsInside DEF Runs, AllTypes, SessionsTypeOK
<1> USE DEF tracker, flags, locals, Step, TypeOK, AllTypes, SessionsTypeOK
<1> USE DEF Awaited, StarterTold, SleeperIsAwaited, TellsItsOwn, WorkerResets
<1>4. CASE Spawn(p)
  <2>1. PICK t \in Timers :
          /\ pc[p] = "spawn" /\ pc[t] = "off"
          /\ pc' = [pc EXCEPT ![p] = "markStarted", ![t] = "asleep"]
    BY <1>4 DEF Spawn
  <2>2. \A u \in Timers : pc[u] = "off"
    BY <1>2, <2>1 DEF Undisturbed, OneTimer, SpawnsUnmarked, FlagIsExact, Marked
  <2>3. /\ pc'[t] = "asleep" /\ pc'[p] = "markStarted"
        /\ \A u \in Timers \ {t} : pc'[u] = "off"
        /\ \A q \in Checkers \ {p} : pc'[q] = "idle"
    BY <1>2, <2>1, <2>2
  <2>4. cb'[t] = cb[p]
    BY <1>3, <2>1, <2>3, GetsOwn DEF Away
  <2>5. knows' = knows
    BY <2>1 DEF Runs, Telling
  <2> QED BY <2>1, <2>3, <2>4, <2>5
<1>5. CASE ~Spawn(p)
  <2>1. PICK from, to : Step(p, from, to)
    BY <1>5 DEF CheckRuns, ReadMode, CheckElapsed, Expire, Unstamp, GetTimeLeft,
            TellTimed, NeedTimer, MarkStarted, TellPermanent, Abort
  <2>2. \A q \in Threads \ {p} : pc'[q] = pc[q]
    BY <2>1
  <2>3. \A t \in Timers : pc[t] = "asleep" => cb'[t] = cb[t]
    BY <1>3, <2>2, HoldsOn DEF Away
  <2>4. pc'[p] \in {"needTimer", "spawn"} => cb'[p] = cb[p]
    BY <1>3, <2>1, HoldsOn, RunsInside DEF Away, Runs
  <2>5. CASE TellTimed(p)
    <3>1. knows' = [knows EXCEPT ![cb[p]] = "timed"]
      BY <2>5 DEF Runs, Tells, Telling, TellTimed
    <3>2. pc'[p] = "needTimer"
      BY <2>5 DEF TellTimed
    <3> QED BY <1>2, <1>3, <2>2, <2>3, <2>4, <2>5, <3>1, <3>2 DEF TellTimed
  <2>6. CASE NeedTimer(p)
    <3>1. knows' = knows /\ pc[p] = "needTimer"
      BY <2>6 DEF Runs, Telling, NeedTimer
    <3> QED BY <1>2, <2>2, <2>3, <2>4, <2>6, <3>1 DEF NeedTimer
  <2>7. CASE TellPermanent(p)
    BY <1>2, <2>2, <2>3, <2>7 DEF TellPermanent
  <2>8. CASE Abort(p)
    BY <1>2, <2>2, <2>3, <2>8 DEF Abort
  <2>9. CASE \/ ReadMode(p) \/ CheckElapsed(p) \/ Expire(p) \/ Unstamp(p)
            \/ GetTimeLeft(p) \/ MarkStarted(p)
    <3>1. UNCHANGED <<knows, isLockoutTimerAborted>>
      BY <2>9 DEF Runs, Telling, ReadMode, CheckElapsed, Expire, Unstamp, GetTimeLeft,
                  MarkStarted
    <3>2. pc'[p] \notin {"needTimer", "spawn"}
          /\ pc[p] \notin {"abort", "ifStarted", "clearCount", "clearStart", "clearMode"}
      BY <2>9 DEF ReadMode, CheckElapsed, Expire, Unstamp, GetTimeLeft, MarkStarted
    <3> QED BY <1>2, <2>2, <2>3, <3>1, <3>2
  <2> QED BY <1>5, <2>5, <2>6, <2>7, <2>8, <2>9 DEF CheckRuns
<1> QED BY <1>4, <1>5

\* lockoutTimerExpired: the timer wakes up unaborted only while it is awaited.
LEMMA TimerAwaits ==
  ASSUME AllTypes, Undisturbed, Awaited, ~disturbed',
         NEW t \in Timers, Runs(t), TimerRuns(t)
  PROVE  Awaited'
<1> USE KindsApart DEF Checkers
<1>1. Only(t)
  BY RunnerIsAlone DEF Runs, AllTypes, SessionsTypeOK
<1>2. /\ \A q \in Checkers : pc[q] = "idle"
      /\ \A u \in Timers \ {t} : pc[u] = "off"
  <2>1. pc[t] # "off"
    BY DEF TimerRuns, WakeUp, TellCleared, Unmark, Unabort, Enter, Step
  <2>2. \A q \in Checkers \ {t} : pc[q] = "idle"
    BY <1>1, OthersRest DEF AllTypes, SessionsTypeOK
  <2> QED BY <2>1, <2>2 DEF Undisturbed, OneTimer
<1> USE DEF tracker, flags, locals, Step, Enter, TypeOK, AllTypes, SessionsTypeOK
<1> USE DEF Awaited, StarterTold, SleeperIsAwaited, TellsItsOwn, WorkerResets
<1>3. PICK from, to : Step(t, from, to) /\ to # "asleep"
  BY DEF TimerRuns, WakeUp, TellCleared, Unmark, Unabort
<1>4. \A q \in Threads \ {t} : pc'[q] = pc[q]
  BY <1>3
<1>5. CASE WakeUp(t)
  <2>1. knows' = knows
    BY <1>5 DEF WakeUp, Runs, Telling
  <2>2. cb'[t] = cb[t]
    BY <1>5, HoldsOn DEF WakeUp, Runs, Away
  <2> QED BY <1>2, <1>3, <1>4, <1>5, <2>1, <2>2 DEF WakeUp
<1>6. CASE TellCleared(t) \/ Unmark(t) \/ Unabort(t)
  BY <1>2, <1>4, <1>6 DEF TellCleared, Unmark, Unabort
<1> QED BY <1>5, <1>6 DEF TimerRuns

LEMMA SessionsInvInit == InitWithSessions => SessionsInv
<1> SUFFICES ASSUME InitWithSessions PROVE SessionsInv
  OBVIOUS
<1>1. AllTypes /\ IndInv
  BY SessionsTypeInit, InvInit DEF InitWithSessions
<1>2. \A p \in Threads : pc[p] \in {"idle", "off"}
  BY DEF InitWithSessions, Init
<1>3. Awaited
  BY <1>2, KindsApart DEF Awaited, StarterTold, SleeperIsAwaited, TellsItsOwn
<1> QED BY <1>1, <1>3 DEF SessionsInv

LEMMA SessionsInvStep == SessionsInv /\ [NextWithSessions]_allVars => SessionsInv'
<1> SUFFICES ASSUME SessionsInv, [NextWithSessions]_allVars
             PROVE  SessionsInv'
  OBVIOUS
<1>1. AllTypes' /\ IndInv'
  BY SessionsTypeStep, StepIsEngineStep, InvStep DEF SessionsInv
<1> SUFFICES ASSUME ~disturbed'
             PROVE  Awaited'
  BY <1>1 DEF SessionsInv
<1>2. ~disturbed
  <2>1. CASE Next
    BY <2>1, DisturbedStays DEF SessionsInv, IndInv
  <2>2. CASE UNCHANGED vars
    BY <2>2 DEF vars
  <2> QED BY <2>1, <2>2, StepIsEngineStep
<1>3. AllTypes /\ Undisturbed /\ Awaited
  BY <1>2 DEF SessionsInv, IndInv
<1>4. CASE CreateSession \/ Close \/ CheckSession \/ TimePassesForAll \/ UNCHANGED allVars
  <2>1. UNCHANGED <<pc, cb, knows, isLockoutTimerAborted>>
    BY <1>4 DEF CreateSession, Close, CheckSession, TimePassesForAll, Tick, allVars, vars, flags
  <2> QED BY <1>3, <2>1
          DEF Awaited, StarterTold, SleeperIsAwaited, TellsItsOwn, WorkerResets
<1>5. CASE VendorInput \/ WorkerInput
  BY <1>3, <1>5, InputAwaits
<1>6. ASSUME NEW p \in Threads, Runs(p)
      PROVE  Awaited'
  BY <1>3, <1>6, HandlerAwaits, CheckAwaits, TimerAwaits DEF Runs, EngineRuns
<1> QED BY <1>4, <1>5, <1>6 DEF NextWithSessions

\* The end of a timed lockout goes to the session that was told of the lockout and still
\* believes in it: neither to the one that is current when the timer wakes up, nor to one
\* that a resetLockout, or a permanent lockout, has told something else meanwhile.
THEOREM ClearedWhereToldHolds == SpecWithSessions => []ClearedWhereTold
<1>1. SessionsInv => ClearedWhereTold
  BY DEF SessionsInv, Awaited, TellsItsOwn, ClearedWhereTold
<1> QED BY <1>1, SessionsInvInit, SessionsInvStep, PTL DEF SpecWithSessions

=============================================================================
