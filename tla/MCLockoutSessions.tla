-------------------------- MODULE MCLockoutSessions --------------------------
(* A small instance of LockoutSessions for TLC. *)
EXTENDS LockoutSessions

\* Nothing is claimed of what comes after the threads have met.
UntilDisturbed == ~disturbed

=============================================================================
