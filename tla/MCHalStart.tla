------------------------------ MODULE MCHalStart ------------------------------
(* A small instance of HalStart for TLC. *)
EXTENDS HalStart

\* Nothing built in, a partition or two, everything.
SomeImages == {{}, {1, 4}, Partitions}

\* Each property that is told is set to something else than its default, the type also
\* to a name that is not recognised, the location also to one that does not parse.
SomeSettings ==
  [type |-> {"udfps", "side", "other"},
   sensor_id |-> {},
   sensor_location |-> {<<720, 2532, 128>>, <<720, 2532, NoNumber>>},
   sensor_strength |-> {},
   navigation_guesture |-> {},
   detect_interaction |-> {},
   display_touch |-> {FALSE},
   control_illumination |-> {TRUE}]

=============================================================================
