----------------------------- MODULE UdfpsProofs -----------------------------
(***************************************************************************)
(* Proofs about Udfps: sensor and display are dark once a finger is lifted,*)
(* and agree when both threads rest, in every interleaving.                *)
(***************************************************************************)
EXTENDS Udfps, TLAPS

-----------------------------------------------------------------------------
(* The inductive invariant.                                                  *)

\* The vendor thread never presses, and only it lowers the status alone.
Roles == doing["vendor"] \in {"up", "lower"} /\ doing["worker"] \in {"down", "up"}

\* What thread p, which lifts or lowers, has got to is dark.
StatusIsDark(p) ==
  /\ pc[p] \notin {"x", "y", "status"} => sensor.status = "PARAM_FOD_RELEASED"
  /\ pc[p] \notin {"x", "y", "status", "nit"} => sensor.nit = "PARAM_NIT_NONE"
  /\ pc[p] \in {"ioctl", "idle"} => req = "OFF_FINGER_UP"
  /\ pc[p] = "idle" => Shows("OFF_FINGER_UP")

CoordinatesAreZero(p) ==
  /\ pc[p] # "x" => sensor.x = "zero"
  /\ pc[p] \notin {"x", "y"} => sensor.y = "zero"

\* The part of a pointer up that the worker has done cannot be undone: the vendor
\* thread does nothing but lower as well.
UpLasts == doing["worker"] = "up" => StatusIsDark("worker") /\ CoordinatesAreZero("worker")

Pressing == Busy("worker") /\ doing["worker"] = "down"

\* A pointer down that is not overlapped is alone, and what it has got to is lit.
DownIsAlone == Pressing => ~Busy("vendor")

DownIsLit ==
  Pressing =>
    /\ pc["worker"] \notin {"x", "y", "status"} => sensor.status = "PARAM_FOD_PRESSED"
    /\ pc["worker"] \in {"store", "ioctl"} => sensor.nit = "PARAM_NIT_FOD"
    /\ pc["worker"] = "ioctl" => req = "WHITE_1000NIT"

\* The vendor thread lowers for good unless the worker presses.
VendorLasts == Busy("vendor") /\ ~Pressing => StatusIsDark("vendor")

UdfpsInv ==
  /\ UdfpsTypeOK
  /\ Roles
  /\ UpLasts
  /\ ~overlap => DownIsAlone /\ DownIsLit /\ VendorLasts /\ DevicesAgree

-----------------------------------------------------------------------------

LEMMA InitEstablishes ==
  ASSUME UdfpsInit
  PROVE  UdfpsInv
<1> USE DEF UdfpsInit
<1>1. UdfpsTypeOK
  BY DEF UdfpsTypeOK, Sensor, Brightness, Operations
<1>2. pc["worker"] = "idle" /\ pc["vendor"] = "idle"
  BY DEF Threads
<1>3. doing["worker"] = "up" /\ doing["vendor"] = "up"
  BY DEF Threads
<1>4. Lowered /\ sensor.x = "zero" /\ sensor.y = "zero"
  BY DEF Lowered, Shows
<1> HIDE DEF UdfpsInit
<1> QED
  BY <1>1, <1>2, <1>3, <1>4 DEF UdfpsInv, Roles, UpLasts, StatusIsDark,
     CoordinatesAreZero, DownIsAlone, DownIsLit, VendorLasts, DevicesAgree, Pressing,
     Busy, Lowered, Shows

\* To begin an operation disturbs nothing: its part that is done is empty.
LEMMA BeginPreserves ==
  ASSUME UdfpsInv,
         \/ \E o \in {"down", "up"} : Begin("worker", o)
         \/ \E o \in {"lower", "up"} : Begin("vendor", o)
  PROVE  UdfpsInv'
<1> USE DEF UdfpsInv, UdfpsTypeOK, Roles, Pressing, Busy, Begin, devices, Threads,
        Operations, Commands
<1>1. CASE Begin("worker", "down")
  BY <1>1 DEF UpLasts, StatusIsDark, CoordinatesAreZero, DownIsAlone, DownIsLit,
     VendorLasts, DevicesAgree, Lowered, Raised, Shows
<1>2. CASE Begin("worker", "up")
  BY <1>2 DEF UpLasts, StatusIsDark, CoordinatesAreZero, DownIsAlone, DownIsLit,
     VendorLasts, DevicesAgree, Lowered, Raised, Shows
<1>3. CASE \E o \in {"lower", "up"} : Begin("vendor", o)
  BY <1>3 DEF UpLasts, StatusIsDark, CoordinatesAreZero, DownIsAlone, DownIsLit,
     VendorLasts, DevicesAgree, Lowered, Raised, Shows
<1> QED BY <1>1, <1>2, <1>3

\* Each command either moves a pointer down on, which is alone, or darkens.
LEMMA CommandPreserves ==
  ASSUME UdfpsInv, NEW p \in Threads, UdfpsRuns(p)
  PROVE  UdfpsInv'
<1> USE DEF UdfpsInv, UdfpsTypeOK, Roles, Pressing, Busy, Step, Pressed, Coordinate,
        Sensor, Brightness, Threads, Commands, UpLasts, StatusIsDark,
        CoordinatesAreZero, DownIsAlone, DownIsLit, VendorLasts, DevicesAgree, Lowered,
        Raised, Shows
<1>1. CASE PressX(p)
  BY <1>1 DEF PressX
<1>2. CASE PressY(p)
  BY <1>2 DEF PressY
<1>3. CASE PressStatus(p)
  BY <1>3 DEF PressStatus
<1>4. CASE Nit(p)
  BY <1>4 DEF Nit
<1>5. CASE StoreHbm(p)
  BY <1>5 DEF StoreHbm
<1>6. CASE SetLocalHbm(p)
  BY <1>6 DEF SetLocalHbm
<1> QED BY <1>1, <1>2, <1>3, <1>4, <1>5, <1>6 DEF UdfpsRuns

LEMMA StutterPreserves ==
  ASSUME UdfpsInv, UNCHANGED udfpsVars
  PROVE  UdfpsInv'
BY DEF udfpsVars, devices, UdfpsInv, UdfpsTypeOK, Roles, UpLasts, StatusIsDark,
   CoordinatesAreZero, DownIsAlone, DownIsLit, VendorLasts, DevicesAgree, Pressing,
   Busy, Lowered, Raised, Shows

THEOREM UdfpsInvariance == UdfpsSpec => []UdfpsInv
<1>1. ASSUME UdfpsInv, [UdfpsNext]_udfpsVars PROVE UdfpsInv'
  BY <1>1, BeginPreserves, CommandPreserves, StutterPreserves DEF UdfpsNext
<1> QED BY <1>1, InitEstablishes, PTL DEF UdfpsSpec

\* Lifting a finger leaves sensor and display (once it is reached) dark, although the vendor thread may
\* command them, and store into the request they share, at any moment in between.
THEOREM LiftedIsDarkAlways == UdfpsSpec => []LiftedIsDark
<1>1. UdfpsInv => LiftedIsDark
  BY DEF UdfpsInv, UdfpsTypeOK, UpLasts, StatusIsDark, CoordinatesAreZero,
     LiftedIsDark, Lowered, Busy, Shows
<1> QED BY <1>1, UdfpsInvariance, PTL

\* Sensor and display agree on the finger when both threads rest, unless a message of
\* the sensor met the last pointer down or the display was not reached.
THEOREM DevicesAgreeAlways == UdfpsSpec => []DevicesAgree
<1>1. UdfpsInv => DevicesAgree
  BY DEF UdfpsInv, DevicesAgree
<1> QED BY <1>1, UdfpsInvariance, PTL

=============================================================================
