----------------------------- MODULE MCMessages -----------------------------
(* Small instances of Messages for TLC. *)
EXTENDS Messages, TLC

AllTasks == {"pointerDown", "pointerUp", "enumerate", "getAuthenticatorId"}

OnlyEnumerate == {"enumerate"}

\* The first user has two fingerprints, the second has one, with another id.
TwoUsers == 1 :> <<11, 12>> @@ 2 :> <<21>>

\* A code that a byte cuts to VENDOR, which goes on, and scan failed, which ends it.
SomeCodes == {263, 1044}

\* An id that does not fit into an int of 4 bits.
SomeIds == {21}

=============================================================================
