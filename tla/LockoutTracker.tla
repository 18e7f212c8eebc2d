--------------------------- MODULE LockoutTracker ---------------------------
(***************************************************************************)
(* fingerprint/LockoutTracker.{h,cpp}: the counter of failed attempts and  *)
(* the lockout mode it leads to.                                           *)
(*                                                                         *)
(* The class has no lock and is called from three kinds of threads, so the *)
(* unit of interleaving is one access to one of its fields.  This module   *)
(* gives the fields and those accesses; the program counters that put them *)
(* in the order of the C++ methods belong to the callers, in EngineLockout.*)
(***************************************************************************)
EXTENDS Integers

CONSTANTS LOCKOUT_TIMED_THRESHOLD,      \* 5 in the code
          LOCKOUT_PERMANENT_THRESHOLD,  \* 20 in the code
          LOCKOUT_TIMED_DURATION,       \* 10000 ms in the code, in ticks here
          MaxAhead   \* how far ahead of now an unwritten start may lie (bound)

ASSUME DurationAssumption == LOCKOUT_TIMED_DURATION \in Nat \ {0}

ASSUME AheadAssumption == MaxAhead \in Nat

ASSUME ThresholdAssumption ==
  /\ LOCKOUT_TIMED_THRESHOLD \in Nat \ {0}
  /\ LOCKOUT_PERMANENT_THRESHOLD \in Nat
  /\ LOCKOUT_TIMED_THRESHOLD < LOCKOUT_PERMANENT_THRESHOLD

VARIABLES
  mFailedCount,
  mCurrentMode,
  timedAge      \* now - mLockoutTimedStart, the only way the code reads that
                \* field; Unset while the field is 0, or less

tracker == <<mFailedCount, mCurrentMode, timedAge>>

-----------------------------------------------------------------------------

LockoutMode == {"kNone", "kTimed", "kPermanent"}

\* The constructor leaves mCurrentMode unwritten, so the field may hold a byte
\* that is none of the enumerators.
StoredMode == LockoutMode \cup {"noEnumerator"}

\* Past the duration all ages look alike to the code: one age stands for them.  A
\* negative age is that of a start in the future, which only an unwritten field holds.
Age == -MaxAhead .. LOCKOUT_TIMED_DURATION + 1

\* Against a start of 0 the whole uptime has passed, which exceeds the duration long
\* before the service runs.
Unset == LOCKOUT_TIMED_DURATION + 2

\* Util::hasElapsed(mLockoutTimedStart, LOCKOUT_TIMED_DURATION).
HasElapsed == timedAge > LOCKOUT_TIMED_DURATION

\* Mutant: the test for a start that is set is forgotten.
TimeLeftUnguarded == LOCKOUT_TIMED_DURATION - timedAge

\* getLockoutTimeLeft(): negative when the lockout lapses between the test of
\* getMode() and this one (-1 stands for every negative time), and more than the
\* duration when the start lies in the future.
TimeLeft == IF timedAge = Unset THEN 0 ELSE LOCKOUT_TIMED_DURATION - timedAge

TimePasses ==
  timedAge' = IF timedAge <= LOCKOUT_TIMED_DURATION THEN timedAge + 1 ELSE timedAge

-----------------------------------------------------------------------------
(* addFailedAttempt(): count + 1, then the mode, then the start time.        *)

\* mFailedCount++ is a load (kept by the caller) and this store.
StoreFailedCount(loaded) ==
  /\ mFailedCount' = loaded + 1
  /\ UNCHANGED <<mCurrentMode, timedAge>>

\* Mutant: a failed attempt restarts a timed lockout that is already running.
BeginsTimedLockoutAgain(failed) ==
  /\ failed < LOCKOUT_PERMANENT_THRESHOLD
  /\ failed >= LOCKOUT_TIMED_THRESHOLD
  /\ mCurrentMode \in {"kNone", "kTimed"}

\* No thread but the caller ever writes kTimed or kPermanent, so nothing can come
\* between the comparison with kNone and the store in a way that shows.
BeginsTimedLockout(failed) ==
  /\ failed < LOCKOUT_PERMANENT_THRESHOLD
  /\ failed >= LOCKOUT_TIMED_THRESHOLD
  /\ mCurrentMode = "kNone"

\* Mutant: the permanent lockout comes one failure late.
StoreRaisedModeLate(failed) ==
  /\ mCurrentMode' =
       CASE failed > LOCKOUT_PERMANENT_THRESHOLD -> "kPermanent"
         [] BeginsTimedLockout(failed)           -> "kTimed"
         [] OTHER                                -> mCurrentMode
  /\ UNCHANGED <<mFailedCount, timedAge>>

StoreRaisedMode(failed) ==
  /\ mCurrentMode' =
       CASE failed >= LOCKOUT_PERMANENT_THRESHOLD -> "kPermanent"
         [] BeginsTimedLockout(failed)            -> "kTimed"
         [] OTHER                                 -> mCurrentMode
  /\ UNCHANGED <<mFailedCount, timedAge>>

StampStart ==
  /\ timedAge' = 0
  /\ UNCHANGED <<mFailedCount, mCurrentMode>>

-----------------------------------------------------------------------------
(* reset(dueToTimeout): the count unless dueToTimeout, the start, the mode.  *)
(* getMode() stores the same two values, in the opposite order, when it      *)
(* finds that a timed lockout has lapsed.                                    *)

ClearFailedCount ==
  /\ mFailedCount' = 0
  /\ UNCHANGED <<mCurrentMode, timedAge>>

ClearStart ==
  /\ timedAge' = Unset
  /\ UNCHANGED <<mFailedCount, mCurrentMode>>

ClearMode ==
  /\ mCurrentMode' = "kNone"
  /\ UNCHANGED <<mFailedCount, timedAge>>

=============================================================================
