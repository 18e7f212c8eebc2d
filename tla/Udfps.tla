-------------------------------- MODULE Udfps --------------------------------
(***************************************************************************)
(* The under-display part of FingerprintEngine: what onPointerDownImpl,    *)
(* onPointerUpImpl and setFingerStatus tell the sensor and the display.    *)
(*                                                                         *)
(* The worker runs them for pointer events, the vendor thread for messages *)
(* of the sensor, and neither takes a lock: each action is one command to  *)
(* a device, or the store into the request that both threads share.  Sensor*)
(* and display are external, and carry out one command at a time.          *)
(***************************************************************************)
EXTENDS Naturals

VARIABLES
  sensor,   \* what goodixExtCmd() last set: x, y, status, nit
  req,      \* FingerprintEngine::req.local_hbm_value
  panel,    \* what the last ioctl set the display to, or "unreached" if it did not get
            \* there: the display then goes on showing what it did
  pc,       \* the next command of each thread
  doing,    \* the operation each thread does, or did last
  overlap   \* history: another thread lowered the finger status during the
            \* last pointer down

devices == <<sensor, req, panel>>
udfpsVars == <<devices, pc, doing, overlap>>

Threads == {"worker", "vendor"}
Operations == {"down", "up", "lower"}

\* onPointerDownImpl and onPointerUpImpl start at "x"; onAcquired calls only
\* setFingerStatus(false), which starts at "status".
Commands == {"x", "y", "status", "nit", "store", "ioctl"}

Busy(p) == pc[p] # "idle"

\* Coordinates are 0 or those of a touch, which are not told apart.
Sensor == [x : {"zero", "touch"}, y : {"zero", "touch"},
           status : {"PARAM_FOD_RELEASED", "PARAM_FOD_PRESSED"},
           nit : {"PARAM_NIT_NONE", "PARAM_NIT_FOD"}]

Brightness == {"OFF_FINGER_UP", "WHITE_1000NIT"}

UdfpsInit ==
  /\ sensor = [x |-> "zero", y |-> "zero", status |-> "PARAM_FOD_RELEASED",
               nit |-> "PARAM_NIT_NONE"]
  /\ req = "OFF_FINGER_UP"
  /\ panel = "OFF_FINGER_UP"
  /\ pc = [p \in Threads |-> "idle"]
  /\ doing = [p \in Threads |-> "up"]
  /\ overlap = FALSE

-----------------------------------------------------------------------------

\* Mutant: onAcquired forgets to tell the sensor of the status.
BeginWithoutStatus(p, o) ==
  /\ pc[p] = "idle"
  /\ pc' = [pc EXCEPT ![p] = IF o = "lower" THEN "nit" ELSE "x"]
  /\ doing' = [doing EXCEPT ![p] = o]
  /\ overlap' = \E q \in Threads \ {p} :
                   IF o = "down" THEN Busy(q)
                   ELSE overlap \/ (Busy(q) /\ doing[q] = "down")
  /\ UNCHANGED devices

\* Thread p begins an operation.  A pointer down is overlapped when the other thread
\* has not finished lowering the status, or begins to before the down is done.
Begin(p, o) ==
  /\ pc[p] = "idle"
  /\ pc' = [pc EXCEPT ![p] = IF o = "lower" THEN "status" ELSE "x"]
  /\ doing' = [doing EXCEPT ![p] = o]
  /\ overlap' = \E q \in Threads \ {p} :
                   IF o = "down" THEN Busy(q)
                   ELSE overlap \/ (Busy(q) /\ doing[q] = "down")
  /\ UNCHANGED devices

Step(p, from, to) ==
  /\ pc[p] = from
  /\ pc' = [pc EXCEPT ![p] = to]
  /\ UNCHANGED <<doing, overlap>>

Pressed(p) == doing[p] = "down"

Coordinate(p) == IF Pressed(p) THEN "touch" ELSE "zero"

PressX(p) ==
  /\ Step(p, "x", "y")
  /\ sensor' = [sensor EXCEPT !.x = Coordinate(p)]
  /\ UNCHANGED <<req, panel>>

PressY(p) ==
  /\ Step(p, "y", "status")
  /\ sensor' = [sensor EXCEPT !.y = Coordinate(p)]
  /\ UNCHANGED <<req, panel>>

PressStatus(p) ==
  /\ Step(p, "status", "nit")
  /\ sensor' = [sensor EXCEPT !.status = IF Pressed(p) THEN "PARAM_FOD_PRESSED"
                                                       ELSE "PARAM_FOD_RELEASED"]
  /\ UNCHANGED <<req, panel>>

Nit(p) ==
  /\ Step(p, "nit", "store")
  /\ sensor' = [sensor EXCEPT !.nit = IF Pressed(p) THEN "PARAM_NIT_FOD"
                                                    ELSE "PARAM_NIT_NONE"]
  /\ UNCHANGED <<req, panel>>

\* Mutant: the request keeps the brightness of the last press.
StoreHbmOnce(p) ==
  /\ Step(p, "store", "ioctl")
  /\ req' = IF Pressed(p) THEN "WHITE_1000NIT" ELSE req
  /\ UNCHANGED <<sensor, panel>>

StoreHbm(p) ==
  /\ Step(p, "store", "ioctl")
  /\ req' = IF Pressed(p) THEN "WHITE_1000NIT" ELSE "OFF_FINGER_UP"
  /\ UNCHANGED <<sensor, panel>>

\* MI_DISP_IOCTL_SET_LOCAL_HBM takes what the shared request holds by then.  The result is
\* ignored: the display feature may not be open, or fail.
SetLocalHbm(p) ==
  /\ Step(p, "ioctl", "idle")
  /\ panel' \in {req, "unreached"}
  /\ UNCHANGED <<sensor, req>>

UdfpsRuns(p) ==
  \/ PressX(p) \/ PressY(p) \/ PressStatus(p) \/ Nit(p)
  \/ StoreHbm(p) \/ SetLocalHbm(p)

\* What the threads may do to the devices: the worker presses and lifts, the vendor
\* thread only lifts and lowers.
UdfpsNext ==
  \/ \E o \in {"down", "up"} : Begin("worker", o)
  \/ \E o \in {"lower", "up"} : Begin("vendor", o)
  \/ \E p \in Threads : UdfpsRuns(p)

UdfpsSpec == UdfpsInit /\ [][UdfpsNext]_udfpsVars

-----------------------------------------------------------------------------
(* Properties.                                                               *)

UdfpsTypeOK ==
  /\ sensor \in Sensor
  /\ req \in Brightness
  /\ panel \in Brightness \cup {"unreached"}
  /\ pc \in [Threads -> Commands \cup {"idle"}]
  /\ doing \in [Threads -> Operations]
  /\ overlap \in BOOLEAN

Shows(brightness) == panel \in {brightness, "unreached"}

Lowered ==
  /\ sensor.status = "PARAM_FOD_RELEASED"
  /\ sensor.nit = "PARAM_NIT_NONE"
  /\ req = "OFF_FINGER_UP"
  /\ Shows("OFF_FINGER_UP")

Raised ==
  /\ sensor.status = "PARAM_FOD_PRESSED"
  /\ sensor.nit = "PARAM_NIT_FOD"
  /\ req = "WHITE_1000NIT"
  /\ Shows("WHITE_1000NIT")

\* Once the worker is done with onPointerUp, display and sensor are dark and the
\* coordinates are zero, and so they stay until the next onPointerDown, whatever the
\* vendor thread does to them at the same time; the display, once an ioctl reaches it.
LiftedIsDark ==
  (~Busy("worker") /\ doing["worker"] = "up")
    => Lowered /\ sensor.x = "zero" /\ sensor.y = "zero"

\* When neither thread is in setFingerStatus, sensor and display agree on whether a
\* finger is on the glass, unless a message of the sensor met the last pointer down, or
\* the display was not reached.
DevicesAgree ==
  (~overlap /\ \A p \in Threads : ~Busy(p)) => Lowered \/ Raised

=============================================================================
