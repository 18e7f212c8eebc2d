---------------------------- MODULE HalStartProofs ----------------------------
(***************************************************************************)
(* Proofs about HalStart, for every image, every setting of the properties *)
(* and any number of changes, deaths and restarts.                         *)
(***************************************************************************)
EXTENDS HalStart, TLAPS

Constructing == {"type", "engine", "module", "version", "display", "assign", "register"}

\* What a process has done when it is at each place of its constructors.
Life ==
  /\ pc \in {"dead", "serving"} \cup Constructing
  /\ pc \in Constructing => mSession = "none"
  /\ pc \in {"register", "serving"} => mEngine
  /\ mSession \in {"none", "open", "closed"}
  /\ mEngine \in BOOLEAN /\ (mSession # "none" => mEngine)

\* What mDevice says of the device.
Device ==
  /\ mDevice \in {"null", "open", "wild"}
  /\ registered \in BOOLEAN /\ (mDevice = "open" => registered)
  /\ mSession = "open" => mDevice # "null"

\* The type that was told is that of the process, and it was not told before it was read.
Told ==
  /\ pc = "type" => told = Nothing
  /\ told # Nothing => told.type = mSensorType

LifeInv == Life /\ Device /\ Told /\ NoMessageCrashes

LEMMA LifeInit == Init => LifeInv
BY DEF Init, LifeInv, Life, Device, Told, NoMessageCrashes, Constructing, Nothing

LEMMA ConstructKeepsLife ==
  ASSUME LifeInv, Construct
  PROVE  LifeInv'
<1> USE DEF LifeInv, Life, Device, Told, NoMessageCrashes, Constructing, At, Dies, memory, answers
<1>1. CASE ReadType
  BY <1>1 DEF ReadType
<1>2. CASE MakeEngine
  BY <1>2 DEF MakeEngine
<1>3. CASE NoDevice \/ OpenDevice \/ WrongVersion
  BY <1>3 DEF NoDevice, OpenDevice, WrongVersion
<1>4. CASE SetNotify
  BY <1>4 DEF SetNotify
<1>5. CASE OpenDisplay \/ AssignEngine
  BY <1>5 DEF OpenDisplay, AssignEngine
<1>6. CASE RegisterService
  BY <1>6 DEF RegisterService
<1> QED BY <1>1, <1>2, <1>3, <1>4, <1>5, <1>6 DEF Construct

LEMMA CallsKeepLife ==
  ASSUME LifeInv, getSensorProps \/ CreateSession \/ Close \/ Notify
  PROVE  LifeInv'
<1> USE DEF LifeInv, Life, Device, Told, NoMessageCrashes, Constructing, Serving, Dies,
        memory, answers
<1>1. CASE getSensorProps
  <2>1. told'.type = mSensorType'
    BY <1>1 DEF getSensorProps, Props
  <2>2. Life' /\ Device' /\ NoMessageCrashes'
    BY <1>1 DEF getSensorProps
  <2>3. pc' # "type"
    BY <1>1 DEF getSensorProps
  <2> QED BY <2>1, <2>2, <2>3
<1>2. CASE CreateSession
  <2>1. CASE Dies
    BY <1>2, <2>1 DEF CreateSession
  <2>2. CASE /\ mDevice # "null" /\ mSession' = "open"
             /\ UNCHANGED <<pc, mSensorType, mDevice, registered, mEngine, heard, told>>
    <3>1. Life'
      BY <1>2, <2>2 DEF CreateSession
    <3>2. Device' /\ Told' /\ NoMessageCrashes'
      BY <2>2
    <3> QED BY <3>1, <3>2
  <2> QED BY <1>2, <2>1, <2>2 DEF CreateSession
<1>3. CASE Close
  BY <1>3 DEF Close
<1>4. CASE Notify
  <2>1. SessionListens => mSession # "none" /\ mEngine
    BY DEF SessionListens
  <2>2. heard' # "crash"
    BY <1>4, <2>1 DEF Notify
  <2> QED BY <1>4, <2>2 DEF Notify
<1> QED BY <1>1, <1>2, <1>3, <1>4

\* No step of the constructors, the framework, the vendor library or whoever sets
\* properties breaks the invariant, and a new process begins with it.
LEMMA LifeNext == LifeInv /\ [Next]_vars => LifeInv'
<1> SUFFICES ASSUME LifeInv, [Next]_vars PROVE LifeInv'
  OBVIOUS
<1>1. CASE Construct
  BY <1>1, ConstructKeepsLife
<1>2. CASE getSensorProps \/ CreateSession \/ Close \/ Notify
  BY <1>2, CallsKeepLife
<1> USE DEF LifeInv, Life, Device, Told, NoMessageCrashes, Constructing, memory, answers
<1>3. CASE Boot \/ SetProperty
  BY <1>3 DEF Boot, SetProperty
<1>4. CASE Start
  BY <1>4 DEF Start, Blank
<1>5. CASE UNCHANGED vars
  BY <1>5 DEF vars
<1> QED BY <1>1, <1>2, <1>3, <1>4, <1>5 DEF Next

THEOREM LifeInvariance == Spec => []LifeInv
BY LifeInit, LifeNext, PTL DEF Spec

\* A message that comes while the constructors still run, or before the first session,
\* is dropped by Fingerprint::notify and reaches no engine that is not there.
THEOREM NoMessageCrashesHolds == Spec => []NoMessageCrashes
<1>1. LifeInv => NoMessageCrashes
  BY DEF LifeInv
<1> QED BY <1>1, LifeInvariance, PTL

\* Whichever step of openFingerprintHal() failed: a session is open only over a device
\* that holds the callback, in a process whose mDevice started as a zero.
THEOREM SessionIsConnectedHolds == Spec => []SessionIsConnected
<1>1. LifeInv => SessionIsConnected
  BY DEF LifeInv, Device, SessionIsConnected
<1> QED BY <1>1, LifeInvariance, PTL

\* getSensorProps() tells one type as long as the process lives.
THEOREM TypeFixedForLifeHolds == Spec => TypeFixedForLife
<1> DEFINE Fixed == pc # "dead" /\ told # Nothing /\ told' # Nothing => told'.type = told.type
<1>1. LifeInv /\ [Next]_vars => [Fixed]_vars
  <2> SUFFICES ASSUME LifeInv, Next, pc # "dead", told # Nothing, told' # Nothing
               PROVE  told'.type = told.type
    OBVIOUS
  <2>1. LifeInv'
    BY LifeNext
  <2>2. mSensorType' = mSensorType
    BY DEF Next, LifeInv, Told, Boot, SetProperty, Start, Construct, At, Dies, memory, answers,
       ReadType, MakeEngine, NoDevice, OpenDevice, WrongVersion, SetNotify, OpenDisplay,
       AssignEngine, RegisterService, getSensorProps, CreateSession, Close, Notify
  <2> QED BY <2>1, <2>2 DEF LifeInv, Told
<1> QED BY <1>1, LifeInvariance, PTL DEF Spec, TypeFixedForLife

-----------------------------------------------------------------------------
(* init, before the service starts.                                          *)

\* The number of a kind in the order in which vendor_load_properties sets them.
Turn(kind) == CASE kind = "device" -> 1 [] kind = "model" -> 2 [] kind = "name" -> 3
                [] kind = "revision" -> 4

Passed(n) ==
  \/ Turn(n[1]) < place[1]
  \/ Turn(n[1]) = place[1] /\ n # Revision /\ n[2] < place[2]

Final(n) == IF n[1] = "revision" THEN sku ELSE ValueOf(n[1])

\* The properties that have been passed exist and have their final value.
BootInv ==
  /\ place \in (1 .. 5) \X (1 .. 9)
  /\ place[1] >= 4 => place[2] = 1
  /\ DOMAIN area \subseteq Names
  /\ \A n \in Names : Passed(n) => n \in DOMAIN area /\ area[n] = Final(n)

LEMMA Lengths ==
  /\ Len(source_partitions) = 9 /\ Len(Kinds) = 3
  /\ Kinds[1] = "device" /\ Kinds[2] = "model" /\ Kinds[3] = "name"
BY DEF source_partitions, Kinds

LEMMA NamesAre ==
  \A n : n \in Names <=> \/ n \in {"device", "model", "name"} \X (1 .. 9)
                        \/ n = <<"revision", 0>>
<1>1. DOMAIN Kinds = 1 .. 3
  BY DEF Kinds
<1>2. {Kinds[k] : k \in DOMAIN Kinds} = {"device", "model", "name"}
  BY <1>1, Lengths
<1> QED BY <1>2, Lengths DEF Names, Partitions, Revision

LEMMA BootInit == Init => BootInv
<1> SUFFICES ASSUME Init PROVE BootInv
  OBVIOUS
<1>1. place = <<1, 1>> /\ DOMAIN area \subseteq Names
  BY DEF Init, VendorInitInit
<1>2. ASSUME NEW n \in Names PROVE ~Passed(n)
  BY <1>1, <1>2, NamesAre DEF Passed, Turn
<1> QED BY <1>1, <1>2 DEF BootInv

\* One turn of the loop passes one property, and sets that one.
LEMMA TurnKeepsBoot ==
  ASSUME BootInv, vendor_load_properties
  PROVE  BootInv'
<1> DEFINE k == place[1]
           p == place[2]
           this == IF k > 3 THEN Revision ELSE <<Kinds[k], p>>
<1>1. k \in 1 .. 4 /\ p \in 1 .. 9 /\ (k = 4 => p = 1)
  BY Lengths DEF BootInv, vendor_load_properties
<1>2. sku' = sku
  BY DEF vendor_load_properties
<1>3. this \in Names /\ Turn(this[1]) = k /\ (k < 4 => this[2] = p)
  BY <1>1, Lengths, NamesAre DEF Turn, Revision
<1>4. area' = [n \in DOMAIN area \cup {this} |-> IF n = this THEN Final(this) ELSE area[n]]
  <2>1. CASE k > 3
    BY <2>1, Lengths DEF vendor_load_properties, property_override, Final, Revision
  <2>2. CASE ~(k > 3)
    BY <2>2, <1>1, Lengths DEF vendor_load_properties, property_override, Final
  <2> QED BY <2>1, <2>2
<1>5. place' = IF k = 4 \/ p = 9 THEN <<k + 1, 1>> ELSE <<k, p + 1>>
  BY <1>1, Lengths DEF vendor_load_properties
<1>6. ASSUME NEW n \in Names, Passed(n)'
      PROVE  n = this \/ Passed(n)
  <2>1. Turn(n[1]) \in 1 .. 4 /\ (Turn(n[1]) < 4 => n = <<Kinds[Turn(n[1])], n[2]>> /\ n[2] \in 1 .. 9)
    BY Lengths, NamesAre DEF Turn
  <2>2. Turn(n[1]) = 4 => n = Revision
    BY NamesAre DEF Turn, Revision
  <2>3. CASE Turn(n[1]) < k
    BY <2>3 DEF Passed
  <2>4. CASE Turn(n[1]) = k
    <3>1. CASE k = 4
      BY <2>2, <2>4, <3>1
    <3>2. CASE k < 4
      <4>1. n # Revision
        BY <2>4, <3>2, NamesAre DEF Turn, Revision
      <4>2. n[2] = p \/ n[2] < p
        BY <1>1, <1>5, <1>6, <2>1, <2>4, <3>2 DEF Passed
      <4> QED BY <2>1, <2>4, <3>2, <4>1, <4>2 DEF Passed
    <3> QED BY <1>1, <3>1, <3>2
  <2>5. ~(Turn(n[1]) > k)
    BY <1>1, <1>5, <1>6, <2>1, <2>2 DEF Passed, Revision
  <2> QED BY <1>1, <2>1, <2>3, <2>4, <2>5
<1>7. ASSUME NEW n \in Names, Passed(n)'
      PROVE  n \in DOMAIN area' /\ area'[n] = Final(n)'
  <2>1. Final(n)' = Final(n)
    BY <1>2 DEF Final, ValueOf
  <2>2. CASE n = this
    BY <1>4, <2>1, <2>2
  <2>3. CASE n # this
    BY <1>4, <1>6, <1>7, <2>1, <2>3 DEF BootInv
  <2> QED BY <2>2, <2>3
<1>8. place' \in (1 .. 5) \X (1 .. 9) /\ (place'[1] >= 4 => place'[2] = 1)
  BY <1>1, <1>5
<1>9. DOMAIN area' \subseteq Names
  BY <1>3, <1>4 DEF BootInv
<1> QED BY <1>7, <1>8, <1>9 DEF BootInv

LEMMA BootNext == BootInv /\ [Next]_vars => BootInv'
<1> SUFFICES ASSUME BootInv, [Next]_vars PROVE BootInv'
  OBVIOUS
<1>1. CASE Boot
  BY <1>1, TurnKeepsBoot DEF Boot
<1>2. CASE UNCHANGED initVars
  BY <1>2 DEF BootInv, Passed, Final, ValueOf, initVars
<1> QED
  BY <1>1, <1>2 DEF Next, vars, SetProperty, Start, Construct, At, Dies, ReadType, MakeEngine,
     NoDevice, OpenDevice, WrongVersion, SetNotify, OpenDisplay, AssignEngine,
     RegisterService, getSensorProps, CreateSession, Close, Notify

\* When init has run vendor_load_properties(), every partition names the same device,
\* whatever set of them the build had filled.
THEOREM VariantIsConsistentHolds == Spec => []VariantIsConsistent
<1>1. BootInv => VariantIsConsistent
  <2> SUFFICES ASSUME BootInv, Loaded
               PROVE  /\ DOMAIN area = Names
                      /\ \A n, m \in Names : n[1] = m[1] => area[n] = area[m]
                      /\ area[Revision] = area[<<"device", 1>>]
    BY DEF VariantIsConsistent
  <2>1. place[1] = 5
    BY Lengths DEF Loaded
  <2>2. ASSUME NEW n \in Names PROVE n \in DOMAIN area /\ area[n] = Final(n)
    BY <2>1, <2>2, NamesAre DEF BootInv, Passed, Turn
  <2>3. Revision \in Names /\ <<"device", 1>> \in Names
    BY NamesAre DEF Revision
  <2> QED BY <2>2, <2>3 DEF BootInv, Final, ValueOf, Revision
<1> QED BY <1>1, BootInit, BootNext, PTL DEF Spec

-----------------------------------------------------------------------------
(* Type correctness, which rests on both parts.                              *)

Types == {SensorType[n] : n \in DOMAIN SensorType}

ServiceTypeOK ==
  /\ DOMAIN props \subseteq Key /\ \A k \in DOMAIN props : props[k] \in Settings[k]
  /\ changes \in 0 .. MaxChanges
  /\ mSensorType \in Types \cup {"unwritten"}
  /\ pc \in {"serving"} \cup (Constructing \ {"type"}) => mSensorType \in Types
  /\ disp_fd \in BOOLEAN
  /\ heard \in {"none", "dropped", "handled", "crash"}
  /\ told.type \in {"nothing"} \cup Types

LEMMA ServiceTypeInit == Init => ServiceTypeOK
<1> SUFFICES ASSUME Init PROVE ServiceTypeOK
  OBVIOUS
<1>1. DOMAIN props = {}
  BY DEF Init
<1>2. changes \in 0 .. MaxChanges
  BY SettingsAssumption DEF Init
<1> QED BY <1>1, <1>2 DEF Init, ServiceTypeOK, Constructing, Nothing

LEMMA ServiceTypeNext == LifeInv /\ ServiceTypeOK /\ [Next]_vars => ServiceTypeOK'
<1> SUFFICES ASSUME LifeInv, ServiceTypeOK, [Next]_vars PROVE ServiceTypeOK'
  OBVIOUS
<1> USE SettingsAssumption DEF ServiceTypeOK, Constructing, memory, answers
<1>1. CASE Boot
  BY <1>1 DEF Boot
<1>2. CASE SetProperty
  BY <1>2 DEF SetProperty
<1>3. CASE Start
  BY <1>3 DEF Start, Blank, Nothing
<1>4. CASE ReadType
  BY <1>4 DEF ReadType, At, Dies, Types
<1>5. CASE MakeEngine \/ NoDevice \/ OpenDevice \/ WrongVersion \/ SetNotify
  BY <1>5 DEF MakeEngine, NoDevice, OpenDevice, WrongVersion, SetNotify, At
<1>6. CASE OpenDisplay \/ AssignEngine \/ RegisterService
  BY <1>6 DEF OpenDisplay, AssignEngine, RegisterService, At, Dies
<1>7. CASE getSensorProps
  BY <1>7 DEF getSensorProps, Props, Serving
<1>8. CASE CreateSession \/ Close
  BY <1>8 DEF CreateSession, Close, Dies
<1>9. CASE Notify
  BY <1>9 DEF Notify
<1>10. CASE UNCHANGED vars
  BY <1>10 DEF vars
<1> QED
  BY <1>1, <1>2, <1>3, <1>4, <1>5, <1>6, <1>7, <1>8, <1>9, <1>10 DEF Next, Construct

\* Fields, properties and answers keep to their types; in particular no answer tells a type
\* that was never read.
THEOREM TypeCorrect == Spec => []TypeOK
<1>1. sku \in Sku /\ [Next]_vars => (sku \in Sku)'
  BY DEF Next, vars, initVars, Boot, vendor_load_properties, SetProperty, Start, Construct, At,
     Dies, ReadType, MakeEngine, NoDevice, OpenDevice, WrongVersion, SetNotify, OpenDisplay,
     AssignEngine, RegisterService, getSensorProps, CreateSession, Close, Notify
<1>2. Init => sku \in Sku
  BY DEF Init, VendorInitInit
<1>3. LifeInv /\ BootInv /\ ServiceTypeOK /\ sku \in Sku => TypeOK
  BY DEF LifeInv, Life, Device, BootInv, ServiceTypeOK, TypeOK, Constructing, Types
<1> QED
  BY <1>1, <1>2, <1>3, LifeInit, LifeNext, BootInit, BootNext, ServiceTypeInit,
     ServiceTypeNext, PTL DEF Spec

=============================================================================
