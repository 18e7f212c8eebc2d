---------------------------- MODULE LockoutPolicy ----------------------------
(***************************************************************************)
(* What the lockout promises, without threads, timers and clocks: after    *)
(* how many failed attempts which lockout is imposed, what can end it, and *)
(* when the framework is told.  EngineLockout implements it for as long as *)
(* its threads do not meet; from then on nothing is promised any more.     *)
(***************************************************************************)
EXTENDS Naturals

CONSTANTS LOCKOUT_TIMED_THRESHOLD, LOCKOUT_PERMANENT_THRESHOLD,
          RecognitionLifts   \* whether recognising a finger may end a lockout

VARIABLES
  attempts,   \* failed attempts that have not been forgiven
  lockout,    \* the lockout in force
  told,       \* the lockout the framework was last told of
  stage,      \* what has to happen next
  kept        \* whether the promise (still) holds

policyVars == <<attempts, lockout, told, stage, kept>>

Lockout == {"none", "timed", "permanent"}
Stage == {"rest", "judge", "check", "forgive", "lift"}

PolicyInit ==
  /\ attempts = 0 /\ told = "none" /\ stage = "rest"
  /\ kept \in BOOLEAN
  /\ kept => lockout = "none"

Proceed(from, to) == stage = from /\ stage' = to

\* An attempt that fails is counted, and then judged.
Fail ==
  /\ Proceed("rest", "judge")
  /\ attempts' = attempts + 1
  /\ UNCHANGED <<lockout, told>>

\* A lockout is never weakened by a failure, and a timed one does not begin anew.
Judge ==
  /\ Proceed("judge", "check")
  /\ lockout' = CASE attempts >= LOCKOUT_PERMANENT_THRESHOLD -> "permanent"
                  [] /\ attempts \in LOCKOUT_TIMED_THRESHOLD .. LOCKOUT_PERMANENT_THRESHOLD - 1
                     /\ lockout = "none" -> "timed"
                  [] OTHER -> lockout
  /\ UNCHANGED <<attempts, told>>

\* A finger on the glass asks for the lockout, as does a failed attempt.
Consult == Proceed("rest", "check") /\ UNCHANGED <<attempts, lockout, told>>

\* A timed lockout may turn out to have lapsed.  The answer: the framework is told of a
\* lockout in force, or there is none.
Tell ==
  /\ Proceed("check", "rest")
  /\ lockout # "none"
  /\ told' = lockout
  /\ UNCHANGED <<attempts, lockout>>

Lapse ==
  /\ Proceed("check", "check")
  /\ lockout = "timed"
  /\ lockout' = "none"
  /\ UNCHANGED <<attempts, told>>

LetThrough ==
  /\ Proceed("check", "rest")
  /\ lockout = "none"
  /\ UNCHANGED <<attempts, lockout, told>>

\* resetLockout: the framework is told, the attempts are forgiven, the lockout is lifted.
Reset ==
  /\ Proceed("rest", "forgive")
  /\ told' = "none"
  /\ UNCHANGED <<attempts, lockout>>

Forgive ==
  /\ Proceed("forgive", "lift")
  /\ attempts' = 0
  /\ UNCHANGED <<lockout, told>>

\* A timer announces the end of a timed lockout; the attempts stay.
Announce ==
  /\ Proceed("rest", "lift")
  /\ told = "timed" /\ lockout # "permanent"
  /\ told' = "none"
  /\ UNCHANGED <<attempts, lockout>>

\* A finger is recognised, which lifts whatever lockout there is without a word to the
\* framework, if the policy allows that at all.
Recognise ==
  /\ Proceed("rest", "lift")
  /\ lockout # "none" => RecognitionLifts
  /\ UNCHANGED <<attempts, lockout, told>>

Lift ==
  /\ Proceed("lift", "rest")
  /\ lockout' = "none"
  /\ UNCHANGED <<attempts, told>>

PolicyStep ==
  \/ Fail \/ Judge \/ Consult \/ Tell \/ Lapse \/ LetThrough
  \/ Reset \/ Forgive \/ Announce \/ Recognise \/ Lift

PolicyNext == kept' => kept /\ PolicyStep

PolicySpec == PolicyInit /\ [][PolicyNext]_policyVars

-----------------------------------------------------------------------------

\* Whenever nothing is pending, the framework knows of the lockout in force.
Informed == kept /\ stage = "rest" /\ lockout # "none" => told = lockout

=============================================================================
