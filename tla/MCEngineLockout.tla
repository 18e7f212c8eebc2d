--------------------------- MODULE MCEngineLockout ---------------------------
(* Small instances of EngineLockout for TLC. *)
EXTENDS EngineLockout, TLC

TimerSymmetry == Permutations(Timers)

=============================================================================
