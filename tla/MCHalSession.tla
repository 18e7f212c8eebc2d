---------------------------- MODULE MCHalSession ----------------------------
(* Small instances of HalSession for TLC: what is asked for in each. *)
EXTENDS HalSession

\* One operation of every kind the code treats differently.
OneOfEach == {"authenticate", "enumerateEnrollments", "detectInteraction",
              "removeEnrollments"}

OnlyAuthenticate == {"authenticate"}

OnlyEnumerate == {"enumerateEnrollments"}

OnlyGenerateChallenge == {"generateChallenge"}

=============================================================================
