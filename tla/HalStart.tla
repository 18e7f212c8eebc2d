------------------------------- MODULE HalStart -------------------------------
(***************************************************************************)
(* How the service starts, fails and starts again: main(), the constructors*)
(* of Fingerprint and FingerprintEngine, openFingerprintHal(), the system  *)
(* properties behind FingerprintConfig, getSensorProps() and, of           *)
(* createSession(), what touches the device for the first time.            *)
(*                                                                         *)
(* External: the vendor library, which may call notify() as soon as it has *)
(* the callback; whoever sets properties; and init, which runs             *)
(* VendorInit first and starts the service again whenever it dies.         *)
(***************************************************************************)
EXTENDS VendorInit, Integers

CONSTANTS Settings,     \* the values each property may be set to
          MaxChanges,   \* properties are set this often at most (bound)
          NoNumber      \* a word that ParseInt does not take

VARIABLES
  props,         \* the persist.vendor.fingerprint properties that somebody has set
  changes,       \* how often a property was set
  pc,            \* where the main thread is, "dead" when there is no process
  mSensorType,
  mDevice,       \* "null", "open", or "wild": it is tested before it is written
  disp_fd,       \* whether the display feature could be opened
  registered,    \* whether the vendor library holds Fingerprint::notify
  mEngine,       \* whether the constructor has stored the engine
  mSession,
  heard,         \* what became of the last message of the vendor library
  told           \* the last answer of getSensorProps, or Nothing

memory == <<mSensorType, mDevice, disp_fd, registered, mEngine, mSession>>
answers == <<heard, told>>
vars == <<initVars, props, changes, pc, memory, answers>>

Nothing == [type |-> "nothing"]

Key == {"type", "sensor_id", "sensor_location", "sensor_strength",
        "navigation_guesture", "detect_interaction", "display_touch",
        "control_illumination"}

ASSUME SettingsAssumption ==
  /\ DOMAIN Settings = Key /\ NoNumber \notin Int
  /\ MaxChanges \in Nat

-----------------------------------------------------------------------------
(* FingerprintConfig.                                                        *)

\* A location is the sequence of what stands between the colons.
configData ==
  [type |-> "rear", sensor_id |-> 5, sensor_location |-> <<>>, sensor_strength |-> 2,
   navigation_guesture |-> FALSE, detect_interaction |-> FALSE,
   display_touch |-> TRUE, control_illumination |-> FALSE]

cfg(key) == IF key \in DOMAIN props THEN props[key] ELSE configData[key]

-----------------------------------------------------------------------------
(* Process life.                                                             *)

\* What memory a process starts with; the engine's mDevice is up to the allocator.
Blank ==
  /\ mSensorType' = "unwritten"
  /\ mDevice' \in {"null", "wild"}
  /\ disp_fd' = FALSE
  /\ registered' = FALSE
  /\ mEngine' = FALSE
  /\ mSession' = "none"

Init ==
  /\ VendorInitInit
  /\ props = <<>>
  /\ changes = 0
  /\ pc = "dead"
  /\ mSensorType = "unwritten"
  /\ mDevice = "null"
  /\ disp_fd = FALSE
  /\ registered = FALSE
  /\ mEngine = FALSE
  /\ mSession = "none"
  /\ heard = "none"
  /\ told = Nothing

Boot ==
  /\ vendor_load_properties
  /\ UNCHANGED <<props, changes, pc, memory, answers>>

\* The device's product.prop sets some properties; later the shell may set any.
SetProperty ==
  \E k \in Key : \E v \in Settings[k] :
    /\ changes < MaxChanges
    /\ props' = [j \in DOMAIN props \cup {k} |-> IF j = k THEN v ELSE props[j]]
    /\ changes' = changes + 1
    /\ UNCHANGED <<initVars, pc, memory, answers>>

\* main() makes the service object; sInstance is set before anything else.
Start ==
  /\ Loaded /\ pc = "dead"
  /\ pc' = "type"
  /\ Blank
  /\ heard' = "none" /\ told' = Nothing
  /\ UNCHANGED <<initVars, props, changes>>

Dies ==
  /\ pc' = "dead"
  /\ UNCHANGED <<initVars, props, changes, memory, answers>>

At(here, next) ==
  /\ pc = here
  /\ pc' = next
  /\ UNCHANGED <<initVars, props, changes, answers>>

SensorType ==
  [n \in {"", "default", "rear", "udfps", "udfps_us", "side"} |->
     CASE n = "udfps"    -> "UNDER_DISPLAY_OPTICAL"
       [] n = "udfps_us" -> "UNDER_DISPLAY_ULTRASONIC"
       [] n = "side"     -> "POWER_BUTTON"
       [] OTHER          -> "REAR"]

\* Mutant: the service goes on with a type it does not recognise.
ReadTypeUnknown ==
  /\ At("type", "engine")
  /\ mSensorType' = IF cfg("type") \in DOMAIN SensorType
                      THEN SensorType[cfg("type")] ELSE "UNKNOWN"
  /\ UNCHANGED <<mDevice, disp_fd, registered, mEngine, mSession>>

\* An unrecognised type ends the process.
ReadType ==
  IF cfg("type") \in DOMAIN SensorType
    THEN /\ At("type", "engine")
         /\ mSensorType' = SensorType[cfg("type")]
         /\ UNCHANGED <<mDevice, disp_fd, registered, mEngine, mSession>>
    ELSE pc = "type" /\ Dies

\* The constructor of the engine takes garbage for a device that is open already.
MakeEngine ==
  /\ At("engine", IF mDevice = "null" THEN "module" ELSE "assign")
  /\ UNCHANGED memory

-----------------------------------------------------------------------------
(* openFingerprintHal() and the rest of the constructors.                    *)

\* No module, no open method, or open fails: the engine goes on without a device.
NoDevice ==
  /\ At("module", "display")
  /\ UNCHANGED memory

OpenDevice ==
  /\ At("module", "version")
  /\ UNCHANGED memory

\* The module has another version: the handle that is open is dropped, not closed.
WrongVersion ==
  /\ At("version", "display")
  /\ UNCHANGED memory

\* Mutant: the device is used even though it refused the callback.
SetNotifyUnchecked ==
  /\ At("version", "display")
  /\ registered' \in BOOLEAN
  /\ mDevice' = "open"
  /\ UNCHANGED <<mSensorType, disp_fd, mEngine, mSession>>

SetNotify ==
  /\ At("version", "display")
  /\ registered' \in BOOLEAN
  /\ mDevice' = IF registered' THEN "open" ELSE "null"
  /\ UNCHANGED <<mSensorType, disp_fd, mEngine, mSession>>

OpenDisplay ==
  /\ At("display", "assign")
  /\ disp_fd' \in BOOLEAN
  /\ UNCHANGED <<mSensorType, mDevice, registered, mEngine, mSession>>

AssignEngine ==
  /\ At("assign", "register")
  /\ mEngine' = TRUE
  /\ UNCHANGED <<mSensorType, mDevice, disp_fd, registered, mSession>>

\* A registration that fails ends the process, by a CHECK.
RegisterService ==
  \/ At("register", "serving") /\ UNCHANGED memory
  \/ pc = "register" /\ Dies

Construct ==
  \/ ReadType \/ MakeEngine \/ NoDevice \/ OpenDevice \/ WrongVersion \/ SetNotify
  \/ OpenDisplay \/ AssignEngine \/ RegisterService

-----------------------------------------------------------------------------
(* Calls of the framework.                                                   *)

\* Three numbers and possibly a display; anything else is no location.
getSensorLocation(loc) ==
  IF Len(loc) \in 3 .. 4 /\ \A i \in 1 .. 3 : loc[i] \in Int
    THEN [sensorLocationX |-> loc[1], sensorLocationY |-> loc[2],
          sensorRadius |-> loc[3], display |-> IF Len(loc) = 4 THEN loc[4] ELSE ""]
    ELSE [sensorLocationX |-> 0, sensorLocationY |-> 0, sensorRadius |-> 0,
          display |-> ""]

Props(type) ==
  [type |-> type, sensorId |-> cfg("sensor_id"),
   sensorStrength |-> cfg("sensor_strength"),
   location |-> getSensorLocation(cfg("sensor_location")),
   navigationGuesture |-> cfg("navigation_guesture"),
   detectInteraction |-> cfg("detect_interaction"),
   displayTouch |-> cfg("display_touch"),
   controlIllumination |-> cfg("control_illumination")]

Serving == pc = "serving"

\* Mutant: the type, too, is read anew.
getSensorPropsFresh ==
  /\ Serving
  /\ cfg("type") \in DOMAIN SensorType
  /\ told' = Props(SensorType[cfg("type")])
  /\ UNCHANGED <<initVars, props, changes, pc, memory, heard>>

getSensorProps ==
  /\ Serving
  /\ told' = Props(mSensorType)
  /\ UNCHANGED <<initVars, props, changes, pc, memory, heard>>

\* Mutant: a session is refused, politely, while there is no device.
CreateSessionRefused ==
  /\ Serving /\ mSession # "open"
  /\ mDevice # "null"
  /\ mSession' = "open"
  /\ UNCHANGED <<initVars, props, changes, pc, mSensorType, mDevice, disp_fd,
                 registered, mEngine, answers>>

\* The constructor of Session calls setActiveGroup() on the device, whatever mDevice
\* is: with a null device the process dies, with a wild one it may.
CreateSession ==
  /\ Serving /\ mSession # "open"
  /\ \/ /\ mDevice # "null"
        /\ mSession' = "open"
        /\ UNCHANGED <<initVars, props, changes, pc, mSensorType, mDevice, disp_fd,
                       registered, mEngine, answers>>
     \/ mDevice # "open" /\ Dies

Close ==
  /\ Serving /\ mSession = "open"
  /\ mSession' = "closed"
  /\ UNCHANGED <<initVars, props, changes, pc, mSensorType, mDevice, disp_fd,
                 registered, mEngine, answers>>

-----------------------------------------------------------------------------
(* The vendor thread.                                                        *)

\* Mutant: a session that was never created is taken for one.
SessionListensUnlessClosed == mSession # "closed"

SessionListens == mSession \notin {"none", "closed"}

\* Fingerprint::notify, as soon as the callback is registered; handling a message
\* takes a session and its engine.
Notify ==
  /\ pc # "dead" /\ registered
  /\ heard' = IF ~SessionListens THEN "dropped"
              ELSE IF mSession = "none" \/ ~mEngine THEN "crash" ELSE "handled"
  /\ UNCHANGED <<initVars, props, changes, pc, memory, told>>

-----------------------------------------------------------------------------

Next ==
  \/ Boot \/ SetProperty \/ Start \/ Construct
  \/ getSensorProps \/ CreateSession \/ Close \/ Notify

Spec == Init /\ [][Next]_vars

\* init boots and starts what has died, the main thread is scheduled, and the framework
\* asks for a session while it has none.
Fairness == WF_vars(Boot) /\ WF_vars(Start) /\ WF_vars(Construct) /\ WF_vars(CreateSession)

FairSpec == Spec /\ Fairness

-----------------------------------------------------------------------------
(* Properties.                                                               *)

TypeOK ==
  /\ DOMAIN area \subseteq Names /\ sku \in Sku
  /\ DOMAIN props \subseteq Key /\ \A k \in DOMAIN props : props[k] \in Settings[k]
  /\ changes \in 0 .. MaxChanges
  /\ pc \in {"dead", "type", "engine", "module", "version", "display", "assign",
             "register", "serving"}
  /\ mSensorType \in {SensorType[n] : n \in DOMAIN SensorType} \cup {"unwritten"}
  /\ mDevice \in {"null", "open", "wild"}
  /\ disp_fd \in BOOLEAN /\ registered \in BOOLEAN /\ mEngine \in BOOLEAN
  /\ mSession \in {"none", "open", "closed"}
  /\ heard \in {"none", "dropped", "handled", "crash"}
  /\ told.type \in {"nothing"} \cup {SensorType[n] : n \in DOMAIN SensorType}

\* The vendor library has the callback before the service object is complete: a
\* message that comes that early, or before the first session, does no harm.
NoMessageCrashes == heard # "crash"

\* A process that started with a zero in mDevice gives a session only over a device
\* that will call back, whichever step of opening it failed.
SessionIsConnected == mSession = "open" /\ mDevice # "wild" => registered

\* One process never tells two types, whatever is set meanwhile.
TypeFixedForLife ==
  [][ pc # "dead" /\ told # Nothing /\ told' # Nothing => told'.type = told.type ]_vars

\* Steps in which something outside the service fails.
Fails ==
  \/ NoDevice \/ WrongVersion
  \/ SetNotify /\ ~registered'
  \/ pc = "register" /\ pc' = "dead"

\* A device that could not be opened is tried again only because the next session brings
\* the process down.  That suffices: once nothing outside fails any more, a session is
\* connected, unless the type stays unrecognised or mDevice was not zero.
ConnectedInTheEnd ==
  <>[](cfg("type") \in DOMAIN SensorType) /\ <>[][~Fails]_vars
    => []<>(mDevice = "wild" \/ (pc # "dead" /\ mSession # "none" /\ registered))

=============================================================================
