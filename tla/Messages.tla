------------------------------ MODULE Messages ------------------------------
(***************************************************************************)
(* Session::notify by the type of the message, and the tasks of Session    *)
(* that act on the same devices: pointer events, enumeration and the       *)
(* request for the authenticator id.  The lifecycle of sessions is reduced *)
(* to opening and closing (HalSession has the whole of it), and messages   *)
(* that only lead to a callback are left out.                              *)
(*                                                                         *)
(* External: the vendor library, which answers an enumeration with one     *)
(* message per fingerprint of the active group, and sends messages about   *)
(* the finger when it likes; and the framework.                            *)
(***************************************************************************)
EXTENDS Udfps, Integers, Sequences

CONSTANTS MaxSessions,    \* sessions ever created (bound)
          MaxTasks,       \* tasks ever scheduled (bound)
          TaskKinds,      \* the tasks that are scheduled
          MAX_WORKER_QUEUE_SIZE,
          Templates,      \* the fingerprints of the user of each session
          Codes,          \* the acquired codes the sensor sends
          Ids,            \* the authenticator ids the device may have
          INT_HALF        \* half the values of an int, 2^31 in the code

Sessions == 1 .. MaxSessions
None == 0

ASSUME SizeAssumption ==
  /\ MaxSessions \in Nat /\ MaxTasks \in Nat
  /\ MAX_WORKER_QUEUE_SIZE \in Nat \ {0} /\ INT_HALF \in Nat \ {0}

ASSUME TasksAssumption ==
  TaskKinds \subseteq {"pointerDown", "pointerUp", "enumerate", "getAuthenticatorId"}

ASSUME TemplatesAssumption == Templates \in [Sessions -> Seq(Nat)]

ASSUME CodesAssumption == Codes \subseteq Nat /\ Ids \subseteq Int

VARIABLES
  mSession, mIsClosed,
  queue, made,     \* the worker's queue, and the number of tasks ever scheduled
  outbox,          \* messages the device still has to send
  message,         \* the message Session::notify is about to handle, or Nothing
  enrollments,     \* the static list of FINGERPRINT_TEMPLATE_ENUMERATING
  cut              \* history: since the last report, an enumeration message was
                   \* dropped or went to another session than the one it is about

sessionVars == <<mSession, mIsClosed>>
taskVars == <<queue, made>>
vars == <<udfpsVars, sessionVars, taskVars, outbox, message, enrollments, cut>>

Nothing == [type |-> "nothing"]

Enumerating == [type : {"enumerating"}, fid : Nat, remaining : Nat, of : Sessions]
AuthenticatorId == [type : {"authenticatorId"}, data : Ids]
Acquired == [type : {"acquired"}, code : Codes]
Authenticated == [type : {"authenticated"}]

\* The rest of a handler: the callback that it is about to make.
EnrollmentsEnumerated == [type : {"onEnrollmentsEnumerated"}, to : Sessions,
                          of : Sessions, clean : BOOLEAN]
AuthenticatorIdRetrieved == [type : {"onAuthenticatorIdRetrieved"}, sent : Int,
                             auth_id : Int]

Init ==
  /\ UdfpsInit
  /\ mSession = None
  /\ mIsClosed = TRUE
  /\ queue = <<>>
  /\ made = 0
  /\ outbox = <<>>
  /\ message = Nothing
  /\ enrollments = <<>>
  /\ cut = FALSE

-----------------------------------------------------------------------------
(* The binder thread.                                                        *)

CreateSession ==
  /\ mIsClosed /\ mSession < MaxSessions
  /\ mSession' = mSession + 1
  /\ mIsClosed' = FALSE
  /\ UNCHANGED <<udfpsVars, taskVars, outbox, message, enrollments, cut>>

Close ==
  /\ ~mIsClosed
  /\ mIsClosed' = TRUE
  /\ UNCHANGED <<udfpsVars, mSession, taskVars, outbox, message, enrollments, cut>>

\* Mutant: the queue takes one task more than it should.
QueueHasRoomForOneMore == Len(queue) <= MAX_WORKER_QUEUE_SIZE

QueueHasRoom == Len(queue) < MAX_WORKER_QUEUE_SIZE

\* A task that does not fit into the queue is rejected, unnoticed.
Schedule ==
  \E k \in TaskKinds :
    /\ ~mIsClosed /\ made < MaxTasks
    /\ made' = made + 1
    /\ queue' = IF QueueHasRoom THEN Append(queue, k) ELSE queue
    /\ UNCHANGED <<udfpsVars, sessionVars, outbox, message, enrollments, cut>>

-----------------------------------------------------------------------------
(* The worker.                                                               *)

Take(k) ==
  /\ ~Busy("worker") /\ queue # <<>> /\ Head(queue) = k
  /\ queue' = Tail(queue)
  /\ UNCHANGED <<sessionVars, made, message, enrollments, cut>>

\* checkSensorLockout lets the finger through or not: see EngineLockout.
PointerDown ==
  /\ Take("pointerDown")
  /\ Begin("worker", "down") \/ UNCHANGED udfpsVars
  /\ UNCHANGED outbox

\* Mutant: a lockout also stops the finger from being lifted.
PointerUpChecked ==
  /\ Take("pointerUp")
  /\ Begin("worker", "up") \/ UNCHANGED udfpsVars
  /\ UNCHANGED outbox

PointerUp ==
  /\ Take("pointerUp")
  /\ Begin("worker", "up")
  /\ UNCHANGED outbox

\* What the device sends about the fingerprints of the group that is active.
Enumeration(s) ==
  [i \in 1 .. Len(Templates[s]) |->
     [type |-> "enumerating", fid |-> Templates[s][i],
      remaining |-> Len(Templates[s]) - i, of |-> s]]

\* The device may also refuse, which leads to onError and nothing else.
Enumerate ==
  /\ Take("enumerate")
  /\ outbox' \in {outbox, outbox \o Enumeration(mSession)}
  /\ UNCHANGED udfpsVars

GetAuthenticatorId ==
  /\ Take("getAuthenticatorId")
  /\ \E id \in Ids :
       outbox' \in {outbox, Append(outbox, [type |-> "authenticatorId", data |-> id])}
  /\ UNCHANGED udfpsVars

-----------------------------------------------------------------------------
(* The vendor thread: Fingerprint::notify, then Session::notify.             *)

VendorFree == message = Nothing /\ ~Busy("vendor")

SessionListens == mSession # None /\ ~mIsClosed

\* An answer of the device reaches Fingerprint::notify.
ReceiveAnswer ==
  /\ VendorFree /\ outbox # <<>>
  /\ outbox' = Tail(outbox)
  /\ message' = IF SessionListens THEN Head(outbox) ELSE Nothing
  /\ cut' = (cut \/ (~SessionListens /\ Head(outbox).type = "enumerating"))
  /\ UNCHANGED <<udfpsVars, sessionVars, taskVars, enrollments>>

\* So does a message about a finger; without a session nothing comes of it.
ReceiveFinger ==
  /\ VendorFree /\ SessionListens
  /\ message' \in Acquired \cup Authenticated
  /\ UNCHANGED <<udfpsVars, sessionVars, taskVars, outbox, enrollments, cut>>

FINGERPRINT_ACQUIRED_VENDOR_BASE == 1000
VENDOR == 7

\* The cast to AcquiredInfo, an enum of AIDL as wide as a byte.
AsByte(code) == ((code + 128) % 256) - 128

convertAcquiredInfo(code) ==
  IF code > FINGERPRINT_ACQUIRED_VENDOR_BASE
    THEN [info |-> VENDOR, vendorCode |-> code - FINGERPRINT_ACQUIRED_VENDOR_BASE]
    ELSE [info |-> AsByte(code), vendorCode |-> 0]

\* onAcquired(): the scan is over, or has failed (44).
EndsScan(res) == res.info # VENDOR \/ res.vendorCode = 44

OnAcquired ==
  /\ message.type = "acquired" /\ ~Busy("vendor")
  /\ IF EndsScan(convertAcquiredInfo(message.code))
       THEN Begin("vendor", "lower") ELSE UNCHANGED udfpsVars
  /\ message' = Nothing
  /\ UNCHANGED <<sessionVars, taskVars, outbox, enrollments, cut>>

\* Mutant: the end of an attempt presses the finger status.
OnAuthenticatedPressing ==
  /\ message.type = "authenticated" /\ ~Busy("vendor")
  /\ Begin("vendor", "down")
  /\ message' = Nothing
  /\ UNCHANGED <<sessionVars, taskVars, outbox, enrollments, cut>>

\* The attempt is counted before (EngineLockout); then onPointerUpImpl(0).
OnAuthenticated ==
  /\ message.type = "authenticated" /\ ~Busy("vendor")
  /\ Begin("vendor", "up")
  /\ message' = Nothing
  /\ UNCHANGED <<sessionVars, taskVars, outbox, enrollments, cut>>

\* The list is static: it survives sessions, and is cleared only by a report.
OnEnumerating ==
  LET isCut == cut \/ message.of # mSession IN
  /\ message.type = "enumerating" /\ ~Busy("vendor")
  /\ enrollments' = Append(enrollments, message.fid)
  /\ cut' = isCut
  /\ message' = IF message.remaining = 0
                  THEN [type |-> "onEnrollmentsEnumerated", to |-> mSession,
                        of |-> message.of, clean |-> ~isCut]
                  ELSE Nothing
  /\ UNCHANGED <<udfpsVars, sessionVars, taskVars, outbox>>

\* Mutant: the list is reported but not cleared.
TellEnrollmentsKept ==
  /\ message.type = "onEnrollmentsEnumerated"
  /\ cut' = FALSE
  /\ message' = Nothing
  /\ UNCHANGED <<udfpsVars, sessionVars, taskVars, outbox, enrollments>>

TellEnrollments ==
  /\ message.type = "onEnrollmentsEnumerated"
  /\ enrollments' = <<>>
  /\ cut' = FALSE
  /\ message' = Nothing
  /\ UNCHANGED <<udfpsVars, sessionVars, taskVars, outbox>>

\* int auth_id = data: the low bits, as a signed number.
Narrow(data) ==
  LET low == data % (2 * INT_HALF) IN
  IF low < INT_HALF THEN low ELSE low - 2 * INT_HALF

\* onPointerUpImpl(0), and when it is done ...
OnAuthenticatorId ==
  /\ message.type = "authenticatorId" /\ ~Busy("vendor")
  /\ Begin("vendor", "up")
  /\ message' = [type |-> "onAuthenticatorIdRetrieved", sent |-> message.data,
                 auth_id |-> Narrow(message.data)]
  /\ UNCHANGED <<sessionVars, taskVars, outbox, enrollments, cut>>

\* ... the callback.
TellAuthenticatorId ==
  /\ message.type = "onAuthenticatorIdRetrieved" /\ ~Busy("vendor")
  /\ message' = Nothing
  /\ UNCHANGED <<udfpsVars, sessionVars, taskVars, outbox, enrollments, cut>>

-----------------------------------------------------------------------------

Binder == CreateSession \/ Close \/ Schedule

RunsCommand(p) ==
  /\ UdfpsRuns(p)
  /\ UNCHANGED <<sessionVars, taskVars, outbox, message, enrollments, cut>>

Worker ==
  \/ PointerDown \/ PointerUp \/ Enumerate \/ GetAuthenticatorId
  \/ RunsCommand("worker")

Handles ==
  \/ OnAcquired \/ OnAuthenticated \/ OnEnumerating \/ TellEnrollments
  \/ OnAuthenticatorId \/ TellAuthenticatorId
  \/ RunsCommand("vendor")

Next == Binder \/ Worker \/ ReceiveAnswer \/ ReceiveFinger \/ Handles

Spec == Init /\ [][Next]_vars

\* Both threads are scheduled; nobody has to touch the sensor or to ask for anything.
FairSpec == Spec /\ WF_vars(Worker) /\ WF_vars(Handles)

-----------------------------------------------------------------------------
(* Properties.                                                               *)

TypeOK ==
  /\ UdfpsTypeOK
  /\ mSession \in Sessions \cup {None}
  /\ mIsClosed \in BOOLEAN
  /\ queue \in Seq(TaskKinds) /\ Len(queue) <= MAX_WORKER_QUEUE_SIZE
  /\ made \in 0 .. MaxTasks
  /\ outbox \in Seq(Enumerating \cup AuthenticatorId)
  /\ message \in {Nothing} \cup Enumerating \cup AuthenticatorId \cup Acquired
                   \cup Authenticated \cup EnrollmentsEnumerated
                   \cup AuthenticatorIdRetrieved
  /\ enrollments \in Seq(Nat)
  /\ cut \in BOOLEAN

\* A finger whose lifting was accepted by the queue leaves the display dark in the end,
\* if it can be reached, even if the session is closed and whatever the sensor sends.
LiftedGoesDark ==
  (\E i \in 1 .. Len(queue) : queue[i] = "pointerUp") ~> Shows("OFF_FINGER_UP")

\* An enumeration of which no message was lost, and that was not preceded by one that
\* lost some, is reported as exactly the fingerprints of the session's user.
WholeUnlessCut ==
  message.type = "onEnrollmentsEnumerated" /\ message.clean
    => enrollments = Templates[message.to]

-----------------------------------------------------------------------------
(* What the comments of the repository say, and the code does not do.        *)

\* fingerprint-xiaomi.h: an enumeration lists the enrollments of one user.  When the
\* message that completes it is about the user of the session it is reported to, no
\* fingerprint of another user is in the list.
EnumerationIsOwn ==
  message.type = "onEnrollmentsEnumerated" /\ message.of = message.to
    => \A i \in DOMAIN enrollments : \E j \in DOMAIN Templates[message.to] :
         enrollments[i] = Templates[message.to][j]

=============================================================================
