---------------------------- MODULE LockoutSessions ----------------------------
(***************************************************************************)
(* EngineLockout together with the sessions it speaks to.  The engine      *)
(* outlives every session, and each thread that runs its code holds the    *)
(* callback of the session on whose behalf it came: the vendor thread that *)
(* of the current session, the worker that of the session whose task it    *)
(* took, a timer that of whoever started it.                               *)
(*                                                                         *)
(* HalSession has the lifecycle and the queue.  Here a task may be of any  *)
(* session that ever was: those of a closed session can still be queued.   *)
(***************************************************************************)
EXTENDS EngineLockout

CONSTANT MaxSessions   \* sessions ever created (bound)

ASSUME SessionsAssumption == MaxSessions \in Nat

Sessions == 1 .. MaxSessions
None == 0

VARIABLES
  mSession, mIsClosed,
  checked, \* the vendor thread is past the test of notify(): there is a session, and
           \* it is open
  cb,      \* the session whose callback each thread holds, or None
  knows    \* the lockout each session was last told of

sessionVars == <<mSession, mIsClosed>>
allVars == <<vars, sessionVars, checked, cb, knows>>

InitWithSessions ==
  /\ Init
  /\ mSession = None /\ mIsClosed = TRUE
  /\ checked = FALSE
  /\ cb = [p \in Threads |-> None]
  /\ knows = [s \in Sessions |-> "none"]

CreateSession ==
  /\ mIsClosed /\ mSession < MaxSessions
  /\ mSession' = mSession + 1
  /\ mIsClosed' = FALSE
  /\ UNCHANGED <<vars, checked, cb, knows>>

Close ==
  /\ ~mIsClosed
  /\ mIsClosed' = TRUE
  /\ UNCHANGED <<vars, mSession, checked, cb, knows>>

Away(label) == label \in {"idle", "off"}

\* Mutant: a timer speaks to the session that is current when it wakes up.
OnBehalfOfCurrent(s) ==
  cb' = [p \in Threads |->
           IF Away(pc'[p]) THEN None
           ELSE IF Away(pc[p]) THEN s
           ELSE IF p \in Timers /\ pc[p] # pc'[p] THEN mSession ELSE cb[p]]

\* Mutant: a thread that is done holds on to its callback.
OnBehalfOfKept(s) ==
  cb' = [p \in Threads |-> IF Away(pc[p]) /\ ~Away(pc'[p]) THEN s ELSE cb[p]]

\* A thread that comes in, or is started, holds the callback of s until it leaves.
OnBehalfOf(s) ==
  cb' = [p \in Threads |->
           IF Away(pc'[p]) THEN None ELSE IF Away(pc[p]) THEN s ELSE cb[p]]

Tells(s) == knows' = [knows EXCEPT ![s] = reported']

\* notify() tests the session, and reads mSession again to hand the message over: by
\* then the session may be closed, or be another one.
CheckSession ==
  /\ pc["vendor"] = "idle" /\ ~checked
  /\ mSession # None /\ ~mIsClosed
  /\ checked' = TRUE
  /\ UNCHANGED <<vars, sessionVars, cb, knows>>

VendorInput ==
  /\ checked
  /\ AttemptFails \/ AttemptSucceeds
  /\ OnBehalfOf(mSession)
  /\ checked' = FALSE
  /\ UNCHANGED <<sessionVars, knows>>

WorkerInput ==
  \E s \in 1 .. mSession :
    /\ \/ PointerDown /\ UNCHANGED knows
       \/ ResetLockout /\ Tells(s)
    /\ OnBehalfOf(s)
    /\ UNCHANGED <<sessionVars, checked>>

EngineRuns(p) ==
  \/ p = "vendor" /\ VendorRuns
  \/ p = "worker" /\ WorkerRuns
  \/ p \in Checkers /\ CheckRuns(p)
  \/ p \in Timers /\ TimerRuns(p)
  \/ ResetRuns(p)

Telling == {"tellTimed", "tellPermanent", "tellCleared"}

\* What thread p does next in the engine, with the callback it holds.
Runs(p) ==
  /\ EngineRuns(p)
  /\ OnBehalfOf(cb[p])
  /\ IF pc[p] \in Telling THEN Tells(cb[p]) ELSE UNCHANGED knows
  /\ UNCHANGED <<sessionVars, checked>>

TimePassesForAll == Tick /\ UNCHANGED <<sessionVars, checked, cb, knows>>

NextWithSessions ==
  \/ CreateSession \/ Close
  \/ CheckSession \/ VendorInput \/ WorkerInput
  \/ \E p \in Threads : Runs(p)
  \/ TimePassesForAll

\* The fairness of EngineLockout: threads that are in the code run, and time goes on.
SpecWithSessions ==
  /\ InitWithSessions /\ [][NextWithSessions]_allVars
  /\ \A p \in Threads : WF_allVars(Runs(p))
  /\ WF_allVars(TimePassesForAll)

-----------------------------------------------------------------------------
(* Properties.                                                               *)

\* Types; and a thread holds a callback exactly while it is on someone's behalf.
SessionsTypeOK ==
  /\ mSession \in Sessions \cup {None} /\ mIsClosed \in BOOLEAN
  /\ checked \in BOOLEAN /\ (checked => mSession # None)
  /\ cb \in [Threads -> Sessions \cup {None}]
  /\ \A p \in Threads : cb[p] = None <=> Away(pc[p])
  /\ knows \in [Sessions -> Report]

\* As long as the threads have not met: the end of a timed lockout is told to the session
\* that was told of the lockout and still believes in it, even if it is closed and others
\* were created while the timer slept.
ClearedWhereTold ==
  ~disturbed =>
    \A t \in Timers : pc[t] = "tellCleared" => knows[cb[t]] = "timed"

Sleeps(s) == \E t \in Timers : pc[t] = "asleep" /\ cb[t] = s

\* A session for which a timer sleeps hears of the end of its lockout, if nothing raises
\* the abort flag and the threads do not meet.
TimerTellsItsSession ==
  \A s \in Sessions :
    (knows[s] = "timed" /\ Sleeps(s) /\ ~isLockoutTimerAborted /\ Quiet)
      ~> (knows[s] # "timed" \/ isLockoutTimerAborted \/ disturbed)

=============================================================================
