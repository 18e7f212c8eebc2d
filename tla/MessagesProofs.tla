--------------------------- MODULE MessagesProofs ---------------------------
(***************************************************************************)
(* Proofs about Messages: whatever messages and tasks come, the devices    *)
(* see a behaviour of Udfps, so that what is proved of Udfps holds here;   *)
(* and an enumeration that is not cut is reported whole, for every number  *)
(* of sessions, tasks and fingerprints.                                    *)
(***************************************************************************)
EXTENDS Messages, UdfpsProofs, SequenceTheorems

\* Tasks and messages with a finger in them begin an operation; nothing else but the
\* commands of one touches the devices.
LEMMA StepIsUdfpsStep ==
  ASSUME [Next]_vars
  PROVE  [UdfpsNext]_udfpsVars
<1>1. CASE Binder
  BY <1>1 DEF Binder, CreateSession, Close, Schedule
<1>2. CASE Worker
  BY <1>2 DEF Worker, PointerDown, PointerUp, Enumerate, GetAuthenticatorId, RunsCommand,
     UdfpsNext, Threads
<1>3. CASE ReceiveAnswer \/ ReceiveFinger
  BY <1>3 DEF ReceiveAnswer, ReceiveFinger
<1>4. CASE Handles
  BY <1>4 DEF Handles, OnAcquired, OnAuthenticated, OnEnumerating, TellEnrollments,
     OnAuthenticatorId, TellAuthenticatorId, RunsCommand, UdfpsNext, Threads
<1>5. CASE UNCHANGED vars
  BY <1>5 DEF vars
<1> QED BY <1>1, <1>2, <1>3, <1>4, <1>5 DEF Next

\* Messages implements Udfps: Session::notify and the tasks of the worker begin only
\* those operations that Udfps allows their threads, and never two at once.
THEOREM MessagesImplementUdfps == Spec => UdfpsSpec
<1>1. Init => UdfpsInit
  BY DEF Init
<1> QED BY <1>1, StepIsUdfpsStep, PTL DEF Spec, UdfpsSpec

\* onPointerUp leaves sensor and display, once it is reached, dark until the next
\* onPointerDown.
THEOREM LiftedIsDarkHolds == Spec => []LiftedIsDark
BY MessagesImplementUdfps, LiftedIsDarkAlways, PTL

\* Sensor and display agree when both threads rest, unless a message met the last
\* pointer down or the display was not reached.
THEOREM DevicesAgreeHolds == Spec => []DevicesAgree
BY MessagesImplementUdfps, DevicesAgreeAlways, PTL

-----------------------------------------------------------------------------
(* The inductive invariant.  While no enumeration is cut, the list holds what *)
(* of the one that is on its way was already handled, in order: the messages  *)
(* still to come say how much that is.                                        *)

Answers == Enumerating \cup AuthenticatorId

\* A session was created before anybody could be asked, or told, anything.
SessionIsThere ==
  (~mIsClosed \/ queue # <<>> \/ message # Nothing) => mSession # None

\* Which of the fingerprints of its user an enumeration message is about.
Position(m) == Len(Templates[m.of]) - m.remaining

IsPart(m) ==
  m.type = "enumerating" =>
    Position(m) \in 1 .. Len(Templates[m.of]) /\ m.fid = Templates[m.of][Position(m)]

Unfinished(m) == m.type = "enumerating" /\ m.remaining # 0

Starts(m) == m.type = "enumerating" => Position(m) = 1

\* The messages of an enumeration come one after the other, and all of them.
Follows(m, n) ==
  IF Unfinished(m)
    THEN n.type = "enumerating" /\ n.of = m.of /\ n.remaining = m.remaining - 1
    ELSE Starts(n)

InSequence(messages) ==
  \A i \in 1 .. Len(messages) :
    /\ IsPart(messages[i])
    /\ i < Len(messages) => Follows(messages[i], messages[i + 1])
    /\ i = Len(messages) => ~Unfinished(messages[i])

MessageInOrder ==
  /\ IsPart(message)
  /\ message.type \in {"enumerating", "onEnrollmentsEnumerated"} =>
       IF outbox = <<>> THEN ~Unfinished(message) ELSE Follows(message, outbox[1])

\* The list holds exactly the first n fingerprints of the user of session s.
Holds(s, n) ==
  Len(enrollments) = n /\ \A i \in 1 .. n : enrollments[i] = Templates[s][i]

\* What the list holds when m is the next message of an enumeration to be handled.
Awaits(m) ==
  IF m.type = "enumerating" THEN Holds(m.of, Position(m) - 1) ELSE enrollments = <<>>

ListIsExact ==
  ~cut =>
    CASE message.type = "onEnrollmentsEnumerated" ->
           message.to = message.of /\ Holds(message.of, Len(Templates[message.of]))
      [] message.type = "enumerating" -> Awaits(message)
      [] OTHER -> IF outbox = <<>> THEN enrollments = <<>> ELSE Awaits(outbox[1])

ReportIsClean == message.type = "onEnrollmentsEnumerated" => message.clean = ~cut

InOrder == InSequence(outbox) /\ MessageInOrder

MessagesInv ==
  TypeOK /\ SessionIsThere /\ InOrder /\ ListIsExact /\ ReportIsClean

-----------------------------------------------------------------------------
(* Types.                                                                    *)

\* An id fits into the int it is stored in.
LEMMA NarrowType ==
  ASSUME NEW data \in Int
  PROVE  Narrow(data) \in Int /\ Narrow(data) \in -INT_HALF .. INT_HALF - 1
<1>1. data % (2 * INT_HALF) \in 0 .. 2 * INT_HALF - 1
  BY SizeAssumption
<1> QED BY <1>1, SizeAssumption DEF Narrow

\* What the device sends about a user is one message per fingerprint, in order.
LEMMA EnumerationType ==
  ASSUME NEW s \in Sessions
  PROVE  /\ Enumeration(s) \in Seq(Answers)
         /\ Len(Enumeration(s)) = Len(Templates[s])
         /\ Len(Templates[s]) \in Nat
         /\ \A i \in 1 .. Len(Templates[s]) :
              /\ Enumeration(s)[i] \in Enumerating
              /\ Enumeration(s)[i] = [type |-> "enumerating", fid |-> Templates[s][i],
                                      remaining |-> Len(Templates[s]) - i, of |-> s]
<1>1. Templates[s] \in Seq(Nat) /\ Len(Templates[s]) \in Nat
  BY TemplatesAssumption
<1>2. \A i \in 1 .. Len(Templates[s]) :
        [type |-> "enumerating", fid |-> Templates[s][i],
         remaining |-> Len(Templates[s]) - i, of |-> s] \in Enumerating
  BY <1>1 DEF Enumerating
<1>3. Enumeration(s) \in [1 .. Len(Templates[s]) -> Answers]
  BY <1>2 DEF Enumeration, Answers
<1>4. Enumeration(s) \in Seq(Answers)
  BY <1>1, <1>3, SeqDef
<1>5. Len(Enumeration(s)) = Len(Templates[s])
  BY <1>1, <1>3, <1>4, LenProperties
<1> QED BY <1>1, <1>2, <1>4, <1>5 DEF Enumeration

\* The type of a message tells what else is in it.
LEMMA MessageKinds ==
  ASSUME TypeOK
  PROVE  /\ message.type = "enumerating" => message \in Enumerating
         /\ message.type = "authenticatorId" => message \in AuthenticatorId
         /\ message.type = "onEnrollmentsEnumerated" => message \in EnrollmentsEnumerated
         /\ message.type = "onAuthenticatorIdRetrieved" => message \in AuthenticatorIdRetrieved
BY DEF TypeOK, Nothing, Enumerating, AuthenticatorId, Acquired, Authenticated,
       EnrollmentsEnumerated, AuthenticatorIdRetrieved

LEMMA AnswerKinds ==
  ASSUME NEW m \in Answers
  PROVE  /\ m.type = "enumerating" => m \in Enumerating
         /\ m.type # "enumerating" => m \in AuthenticatorId /\ m.type = "authenticatorId"
BY DEF Answers, Enumerating, AuthenticatorId

\* The devices keep the invariant of Udfps, whoever commands them.
LEMMA TypeStep ==
  ASSUME TypeOK, SessionIsThere, UdfpsTypeOK', [Next]_vars
  PROVE  TypeOK' /\ SessionIsThere'
<1> USE DEF TypeOK, SessionIsThere, sessionVars, taskVars
<1>1. CASE CreateSession
  <2>1. mSession' \in Sessions /\ mSession' # None
    BY <1>1, SizeAssumption DEF CreateSession, Sessions, None
  <2> QED BY <1>1, <2>1 DEF CreateSession
<1>2. CASE Close
  BY <1>2 DEF Close
<1>3. CASE Schedule
  BY <1>3, SizeAssumption DEF Schedule, QueueHasRoom
<1>4. ASSUME NEW k, Take(k), outbox' = outbox
      PROVE  TypeOK' /\ SessionIsThere'
  BY <1>4, SizeAssumption DEF Take
<1>5. CASE PointerDown \/ PointerUp
  BY <1>4, <1>5 DEF PointerDown, PointerUp
<1>6. CASE Enumerate
  <2>1. mSession \in Sessions
    BY <1>6 DEF Enumerate, Take
  <2>2. outbox \in Seq(Answers) /\ Enumeration(mSession) \in Seq(Answers)
    BY <2>1, EnumerationType DEF Answers
  <2>3. outbox \o Enumeration(mSession) \in Seq(Answers)
    BY <2>2, ConcatProperties
  <2>4. outbox' \in Seq(Answers)
    BY <1>6, <2>2, <2>3 DEF Enumerate
  <2> QED BY <1>6, <2>4, SizeAssumption DEF Enumerate, Take, Answers
<1>7. CASE GetAuthenticatorId
  <2>1. outbox \in Seq(Answers)
    BY DEF Answers
  <2>2. \A id \in Ids : [type |-> "authenticatorId", data |-> id] \in Answers
    BY DEF Answers, AuthenticatorId
  <2>3. \A id \in Ids :
          Append(outbox, [type |-> "authenticatorId", data |-> id]) \in Seq(Answers)
    BY <2>1, <2>2, AppendProperties
  <2>4. outbox' \in Seq(Answers)
    BY <1>7, <2>1, <2>3 DEF GetAuthenticatorId
  <2> QED BY <1>7, <2>4, SizeAssumption DEF GetAuthenticatorId, Take, Answers
<1>8. CASE ReceiveAnswer
  <2>1. Head(outbox) \in Answers /\ Tail(outbox) \in Seq(Answers)
    BY <1>8, HeadTailProperties DEF ReceiveAnswer, Answers
  <2> QED BY <1>8, <2>1 DEF ReceiveAnswer, Answers, SessionListens
<1>9. CASE ReceiveFinger
  BY <1>9 DEF ReceiveFinger, SessionListens
<1>10. CASE OnAcquired \/ OnAuthenticated \/ TellAuthenticatorId
  BY <1>10 DEF OnAcquired, OnAuthenticated, TellAuthenticatorId
<1>11. CASE OnEnumerating
  <2>1. message \in Enumerating /\ mSession \in Sessions
    BY <1>11, MessageKinds DEF OnEnumerating, Nothing
  <2>2. enrollments' \in Seq(Nat) /\ cut' \in BOOLEAN
    BY <1>11, <2>1 DEF OnEnumerating, Enumerating
  <2>3. message' \in EnrollmentsEnumerated \cup {Nothing}
    BY <1>11, <2>1 DEF OnEnumerating, Enumerating, EnrollmentsEnumerated
  <2> QED BY <1>11, <2>1, <2>2, <2>3 DEF OnEnumerating, None, Sessions
<1>12. CASE TellEnrollments
  <2>1. enrollments' \in Seq(Nat) /\ message' = Nothing /\ cut' \in BOOLEAN
    BY <1>12, EmptySeq DEF TellEnrollments
  <2> QED BY <1>12, <2>1 DEF TellEnrollments
<1>13. CASE OnAuthenticatorId
  <2>1. message.data \in Int
    BY <1>13, MessageKinds, CodesAssumption DEF OnAuthenticatorId, AuthenticatorId
  <2>2. Narrow(message.data) \in Int
    BY <2>1, NarrowType, SizeAssumption
  <2>3. message' \in AuthenticatorIdRetrieved
    BY <1>13, <2>1, <2>2 DEF OnAuthenticatorId, AuthenticatorIdRetrieved
  <2>4. message # Nothing
    BY <1>13 DEF OnAuthenticatorId, Nothing
  <2> QED BY <1>13, <2>3, <2>4 DEF OnAuthenticatorId
<1>14. CASE RunsCommand("worker") \/ RunsCommand("vendor")
  BY <1>14 DEF RunsCommand
<1>15. CASE UNCHANGED vars
  BY <1>15 DEF vars
<1> QED BY <1>1, <1>2, <1>3, <1>5, <1>6, <1>7, <1>8, <1>9, <1>10, <1>11, <1>12, <1>13,
           <1>14, <1>15 DEF Next, Binder, Worker, Handles

-----------------------------------------------------------------------------
(* The order of messages.                                                    *)

\* Messages in order stay so when others in order follow, and so does the list.
LEMMA MoreMessages ==
  ASSUME MessagesInv, NEW r \in Seq(Answers), InSequence(r),
         r # <<>> => Starts(r[1]),
         outbox' = outbox \o r, UNCHANGED <<message, enrollments, cut>>
  PROVE  InOrder' /\ ListIsExact' /\ ReportIsClean'
<1>1. outbox \in Seq(Answers)
  BY DEF MessagesInv, TypeOK, Answers
<1>2. /\ Len(outbox) \in Nat /\ Len(r) \in Nat
      /\ Len(outbox') = Len(outbox) + Len(r)
      /\ \A i \in 1 .. Len(outbox) : outbox'[i] = outbox[i]
      /\ \A i \in 1 .. Len(r) : outbox'[Len(outbox) + i] = r[i]
  BY <1>1, ConcatProperties, LenProperties
<1>3. InSequence(outbox')
  <2> SUFFICES ASSUME NEW i \in 1 .. Len(outbox')
               PROVE  /\ IsPart(outbox'[i])
                      /\ i < Len(outbox') => Follows(outbox'[i], outbox'[i + 1])
                      /\ i = Len(outbox') => ~Unfinished(outbox'[i])
    BY DEF InSequence
  <2>1. CASE i < Len(outbox)
    BY <1>2, <2>1 DEF MessagesInv, InOrder, InSequence
  <2>2. CASE i = Len(outbox)
    <3>1. /\ outbox'[i] = outbox[i] /\ ~Unfinished(outbox[i]) /\ IsPart(outbox[i])
      BY <1>2, <2>2 DEF MessagesInv, InOrder, InSequence
    <3>2. CASE r = <<>>
      BY <1>2, <2>2, <3>1, <3>2
    <3>3. CASE r # <<>>
      <4>1. Len(r) >= 1
        BY <1>2, <3>3, EmptySeq
      <4>2. outbox'[i + 1] = r[1]
        BY <1>2, <2>2, <4>1
      <4> QED BY <1>2, <2>2, <3>1, <3>3, <4>2 DEF Follows
    <3> QED BY <3>2, <3>3
  <2>3. CASE i > Len(outbox)
    <3>1. PICK j \in 1 .. Len(r) : i = Len(outbox) + j
      <4>1. i - Len(outbox) \in 1 .. Len(r)
        BY <1>2, <2>3
      <4> QED BY <1>2, <4>1
    <3>2. /\ IsPart(r[j])
          /\ j < Len(r) => Follows(r[j], r[j + 1])
          /\ j = Len(r) => ~Unfinished(r[j])
      BY DEF InSequence
    <3>3. outbox'[i] = r[j] /\ (j < Len(r) => outbox'[i + 1] = r[j + 1])
      BY <1>2, <3>1
    <3> QED BY <1>2, <3>1, <3>2, <3>3
  <2> QED BY <1>2, <2>1, <2>2, <2>3
<1>4. /\ outbox # <<>> => outbox' # <<>> /\ outbox'[1] = outbox[1]
      /\ outbox = <<>> => outbox' = r
  BY <1>1, <1>2, ConcatEmptySeq, EmptySeq
<1>5. MessageInOrder'
  BY <1>4 DEF MessagesInv, InOrder, MessageInOrder, Follows, IsPart, Position, Unfinished
<1>6. ListIsExact'
  <2>1. \A m : Starts(m) /\ enrollments = <<>> => Awaits(m)
    BY DEF Starts, Awaits, Holds
  <2>2. \A m : Awaits(m)' <=> Awaits(m)
    BY DEF Awaits, Holds, Position
  <2> QED BY <1>4, <2>1, <2>2 DEF MessagesInv, ListIsExact, Holds
<1> QED BY <1>3, <1>5, <1>6 DEF MessagesInv, InOrder, ReportIsClean

\* The answer to an enumeration is in order.
LEMMA EnumerationInSequence ==
  ASSUME NEW s \in Sessions
  PROVE  /\ InSequence(Enumeration(s))
         /\ Enumeration(s) # <<>> => Starts(Enumeration(s)[1])
<1> DEFINE e == Enumeration(s)
<1>1. /\ e \in Seq(Answers) /\ Len(e) = Len(Templates[s]) /\ Len(e) \in Nat
      /\ \A i \in 1 .. Len(e) :
           /\ e[i].type = "enumerating" /\ e[i].of = s /\ e[i].fid = Templates[s][i]
           /\ e[i].remaining = Len(e) - i
  <2>1. /\ e \in Seq(Answers) /\ Len(e) = Len(Templates[s]) /\ Len(e) \in Nat
        /\ \A i \in 1 .. Len(Templates[s]) :
             e[i] = [type |-> "enumerating", fid |-> Templates[s][i],
                     remaining |-> Len(Templates[s]) - i, of |-> s]
    BY EnumerationType
  <2> HIDE DEF e
  <2>2. ASSUME NEW i \in 1 .. Len(e)
        PROVE  /\ e[i].type = "enumerating" /\ e[i].of = s /\ e[i].fid = Templates[s][i]
               /\ e[i].remaining = Len(e) - i
    <3>1. e[i] = [type |-> "enumerating", fid |-> Templates[s][i],
                  remaining |-> Len(e) - i, of |-> s]
      BY <2>1
    <3> QED BY <3>1
  <2> QED BY <2>1, <2>2
<1> HIDE DEF e
<1>2. \A i \in 1 .. Len(e) : Position(e[i]) = i
  BY <1>1 DEF Position
<1>3. InSequence(e)
  BY <1>1, <1>2 DEF InSequence, IsPart, Follows, Unfinished
<1>4. e # <<>> => Starts(e[1])
  <2> SUFFICES ASSUME e # <<>> PROVE Starts(e[1])
    OBVIOUS
  <2>1. 1 \in 1 .. Len(e)
    BY <1>1, EmptySeq
  <2> QED BY <1>2, <2>1 DEF Starts
<1> QED BY <1>3, <1>4 DEF e

\* The vendor thread takes an answer, or loses it.
LEMMA ReceiveKeepsOrder ==
  ASSUME MessagesInv, ReceiveAnswer
  PROVE  InOrder' /\ ListIsExact' /\ ReportIsClean'
<1>1. outbox \in Seq(Answers) /\ outbox # <<>> /\ message = Nothing
  BY DEF MessagesInv, TypeOK, Answers, ReceiveAnswer, VendorFree
<1>2. /\ Len(outbox) \in Nat \ {0} /\ outbox[1] \in Answers
      /\ Head(outbox) = outbox[1]
      /\ Len(outbox') = Len(outbox) - 1
      /\ \A i \in 1 .. Len(outbox') : outbox'[i] = outbox[i + 1]
  BY <1>1, HeadTailProperties, EmptySeq DEF ReceiveAnswer
<1>3. InSequence(outbox')
  <2>1. \A i \in 1 .. Len(outbox') :
          i + 1 \in 1 .. Len(outbox) /\ (i < Len(outbox') => i + 1 \in 1 .. Len(outbox'))
    BY <1>2
  <2> QED BY <1>2, <2>1 DEF MessagesInv, InOrder, InSequence
<1>4. /\ IsPart(outbox[1])
      /\ IF outbox' = <<>> THEN ~Unfinished(outbox[1]) ELSE Follows(outbox[1], outbox'[1])
  <2>1. 1 \in 1 .. Len(outbox)
    BY <1>2
  <2>2. CASE outbox' = <<>>
    <3>1. Len(outbox) = 1
      BY <1>2, <2>2, EmptySeq
    <3> QED BY <2>1, <2>2, <3>1 DEF MessagesInv, InOrder, InSequence
  <2>3. CASE outbox' # <<>>
    <3>1. outbox' \in Seq(Answers)
      BY <1>1, HeadTailProperties DEF ReceiveAnswer
    <3>2. Len(outbox') >= 1
      BY <2>3, <3>1, EmptySeq
    <3>3. 1 < Len(outbox) /\ outbox'[1] = outbox[2]
      BY <1>2, <3>2
    <3> QED BY <2>1, <2>3, <3>3 DEF MessagesInv, InOrder, InSequence
  <2> QED BY <2>2, <2>3
<1>5. message' \in {Nothing, outbox[1]} /\ enrollments' = enrollments
  BY <1>2 DEF ReceiveAnswer
<1>6. outbox[1].type # "onEnrollmentsEnumerated" /\ Nothing.type = "nothing"
  BY <1>2, AnswerKinds DEF Enumerating, AuthenticatorId, Nothing
<1>7. MessageInOrder'
  BY <1>4, <1>5, <1>6 DEF MessageInOrder, IsPart, Position, Unfinished, Follows, Starts
<1>8. ListIsExact'
  <2> SUFFICES ASSUME ~cut'
               PROVE  ListIsExact'
    BY DEF ListIsExact
  <2>1. ~cut /\ (message' = Nothing => outbox[1].type # "enumerating")
    BY <1>2, <1>6 DEF ReceiveAnswer, MessagesInv, TypeOK
  <2>2. Awaits(outbox[1])
    BY <1>1, <1>6, <2>1 DEF MessagesInv, ListIsExact
  <2>3. CASE outbox[1].type = "enumerating"
    <3>1. message' = outbox[1]
      BY <1>5, <2>1, <2>3
    <3> QED BY <1>5, <2>2, <2>3, <3>1 DEF ListIsExact, Awaits, Holds, Position
  <2>4. CASE outbox[1].type # "enumerating"
    <3>1. enrollments' = <<>>
      BY <1>5, <2>2, <2>4 DEF Awaits
    <3>2. outbox' # <<>> => Starts(outbox'[1])
      BY <1>4, <2>4 DEF Follows, Unfinished
    <3>3. message'.type \notin {"enumerating", "onEnrollmentsEnumerated"}
      BY <1>5, <1>6, <2>4
    <3>4. outbox' # <<>> => Awaits(outbox[1])'
      BY <3>1, <3>2 DEF Awaits, Starts, Holds, Position
    <3> QED BY <3>1, <3>2, <3>3 DEF ListIsExact, Awaits, Starts, Holds, Position
  <2> QED BY <2>3, <2>4
<1>9. ReportIsClean'
  BY <1>5, <1>6 DEF ReportIsClean
<1> QED BY <1>3, <1>7, <1>8, <1>9 DEF InOrder

\* The handler of FINGERPRINT_TEMPLATE_ENUMERATING adds the next fingerprint to the list.
LEMMA EnumeratingKeepsOrder ==
  ASSUME MessagesInv, OnEnumerating
  PROVE  InOrder' /\ ListIsExact' /\ ReportIsClean'
<1>1. /\ message \in Enumerating /\ outbox' = outbox /\ message.type = "enumerating"
      /\ enrollments' = Append(enrollments, message.fid) /\ enrollments \in Seq(Nat)
      /\ message.of \in Sessions /\ message.fid \in Nat /\ message.remaining \in Nat
      /\ Len(Templates[message.of]) \in Nat
  BY MessageKinds, TemplatesAssumption DEF MessagesInv, TypeOK, OnEnumerating, Enumerating
<1>2. /\ Position(message) \in 1 .. Len(Templates[message.of])
      /\ message.fid = Templates[message.of][Position(message)]
      /\ IF outbox = <<>> THEN ~Unfinished(message) ELSE Follows(message, outbox[1])
  BY <1>1 DEF MessagesInv, InOrder, MessageInOrder, IsPart
<1>3. ASSUME ~cut'
      PROVE  /\ ~cut /\ message.of = mSession
             /\ Len(enrollments') = Position(message)
             /\ \A i \in 1 .. Position(message) : enrollments'[i] = Templates[message.of][i]
  <2>1. ~cut /\ message.of = mSession
    BY <1>3 DEF OnEnumerating, MessagesInv, TypeOK
  <2>2. Holds(message.of, Position(message) - 1)
    BY <1>1, <2>1 DEF MessagesInv, ListIsExact, Awaits
  <2> QED BY <1>1, <1>2, <2>1, <2>2, AppendProperties DEF Holds
<1>4. InSequence(outbox')
  BY <1>1 DEF MessagesInv, InOrder
<1>5. CASE message.remaining = 0
  <2>1. /\ message'.type = "onEnrollmentsEnumerated" /\ message'.to = mSession
        /\ message'.of = message.of
        /\ message'.clean = ~(cut \/ message.of # mSession)
    BY <1>5 DEF OnEnumerating
  <2>2. cut' = (cut \/ message.of # mSession)
    BY DEF OnEnumerating
  <2>3. Position(message) = Len(Templates[message.of])
    BY <1>1, <1>5 DEF Position
  <2>4. outbox # <<>> => Starts(outbox[1])
    BY <1>2, <1>5 DEF Follows, Unfinished
  <2>5. MessageInOrder'
    BY <1>1, <2>1, <2>4
    DEF MessageInOrder, IsPart, Unfinished, Follows, Starts, Position
  <2>6. ListIsExact'
    BY <1>3, <2>1, <2>3 DEF ListIsExact, Holds
  <2>7. ReportIsClean'
    BY <2>1, <2>2 DEF ReportIsClean
  <2> QED BY <1>4, <2>5, <2>6, <2>7 DEF InOrder
<1>6. CASE message.remaining # 0
  <2>1. message' = Nothing /\ message'.type = "nothing"
    BY <1>6 DEF OnEnumerating, Nothing
  <2>2. /\ outbox # <<>> /\ outbox[1].type = "enumerating" /\ outbox[1].of = message.of
        /\ outbox[1].remaining = message.remaining - 1
    BY <1>1, <1>2, <1>6 DEF Follows, Unfinished
  <2>3. Position(outbox[1]) - 1 = Position(message)
    BY <1>1, <2>2 DEF Position
  <2>4. MessageInOrder'
    BY <2>1 DEF MessageInOrder, IsPart
  <2>5. ListIsExact'
    BY <1>1, <1>3, <2>1, <2>2, <2>3 DEF ListIsExact, Awaits, Holds, Position
  <2>6. ReportIsClean'
    BY <2>1 DEF ReportIsClean
  <2> QED BY <1>4, <2>4, <2>5, <2>6 DEF InOrder
<1> QED BY <1>5, <1>6

\* The report empties the list; what comes next is the start of an enumeration.
LEMMA ReportKeepsOrder ==
  ASSUME MessagesInv, TellEnrollments
  PROVE  InOrder' /\ ListIsExact' /\ ReportIsClean'
<1>1. /\ message.type = "onEnrollmentsEnumerated" /\ outbox' = outbox
      /\ message' = Nothing /\ message'.type = "nothing" /\ enrollments' = <<>>
  BY DEF TellEnrollments, Nothing
<1>2. outbox # <<>> => Starts(outbox[1])
  BY <1>1 DEF MessagesInv, InOrder, MessageInOrder, Follows, Unfinished
<1>3. InSequence(outbox')
  BY <1>1 DEF MessagesInv, InOrder
<1>4. MessageInOrder' /\ ReportIsClean'
  BY <1>1 DEF MessageInOrder, IsPart, ReportIsClean
<1>5. ListIsExact'
  BY <1>1, <1>2 DEF ListIsExact, Awaits, Starts, Holds, Position
<1> QED BY <1>3, <1>4, <1>5 DEF InOrder

\* Messages of other types do not touch what concerns enumerations.
LEMMA OthersKeepOrder ==
  ASSUME MessagesInv, UNCHANGED <<outbox, enrollments, cut>>,
         \/ message' = message
         \/ {message.type, message'.type} \cap {"enumerating", "onEnrollmentsEnumerated"} = {}
  PROVE  InOrder' /\ ListIsExact' /\ ReportIsClean'
<1>1. InSequence(outbox')
  BY DEF MessagesInv, InOrder
<1>2. MessageInOrder' /\ ReportIsClean'
  BY DEF MessagesInv, InOrder, MessageInOrder, IsPart, ReportIsClean, Follows, Position,
         Unfinished, Starts
<1>3. ListIsExact'
  BY DEF MessagesInv, ListIsExact, Awaits, Starts, Holds, Position
<1> QED BY <1>1, <1>2, <1>3 DEF InOrder

LEMMA OrderStep ==
  ASSUME MessagesInv, [Next]_vars
  PROVE  InOrder' /\ ListIsExact' /\ ReportIsClean'
<1> USE DEF sessionVars, taskVars
<1>1. CASE \/ CreateSession \/ Close \/ Schedule \/ PointerDown \/ PointerUp
           \/ RunsCommand("worker") \/ RunsCommand("vendor") \/ UNCHANGED vars
  BY <1>1, OthersKeepOrder
  DEF CreateSession, Close, Schedule, PointerDown, PointerUp, Take, RunsCommand, vars
<1>2. CASE Enumerate
  <2>1. UNCHANGED <<message, enrollments, cut>>
    BY <1>2 DEF Enumerate, Take
  <2>2. mSession \in Sessions
    BY <1>2 DEF Enumerate, Take, MessagesInv, TypeOK, SessionIsThere
  <2>3. CASE outbox' = outbox
    BY <2>1, <2>3, OthersKeepOrder
  <2>4. CASE outbox' = outbox \o Enumeration(mSession)
    BY <2>1, <2>2, <2>4, EnumerationInSequence, EnumerationType, MoreMessages
  <2> QED BY <1>2, <2>3, <2>4 DEF Enumerate
<1>3. CASE GetAuthenticatorId
  <2>1. UNCHANGED <<message, enrollments, cut>>
    BY <1>3 DEF GetAuthenticatorId, Take
  <2>2. CASE outbox' = outbox
    BY <2>1, <2>2, OthersKeepOrder
  <2>3. ASSUME NEW id \in Ids,
               outbox' = Append(outbox, [type |-> "authenticatorId", data |-> id])
        PROVE  InOrder' /\ ListIsExact' /\ ReportIsClean'
    <3> DEFINE m == [type |-> "authenticatorId", data |-> id]
    <3>1. m \in Answers /\ m.type = "authenticatorId"
      BY DEF Answers, AuthenticatorId
    <3> HIDE DEF m
    <3>2. <<m>> \in Seq(Answers) /\ Len(<<m>>) = 1 /\ <<m>>[1] = m
      BY <3>1
    <3>3. InSequence(<<m>>) /\ Starts(<<m>>[1])
      BY <3>1, <3>2 DEF InSequence, IsPart, Unfinished, Starts
    <3>4. outbox' = outbox \o <<m>>
      <4>1. outbox \in Seq(Answers)
        BY DEF MessagesInv, TypeOK, Answers
      <4> QED BY <2>3, <3>1, <4>1, AppendIsConcat DEF m
    <3> QED BY <2>1, <3>2, <3>3, <3>4, MoreMessages
  <2> QED BY <1>3, <2>2, <2>3 DEF GetAuthenticatorId
<1>4. CASE ReceiveAnswer
  BY <1>4, ReceiveKeepsOrder
<1>5. CASE ReceiveFinger
  <2>1. message.type = "nothing" /\ message'.type \in {"acquired", "authenticated"}
    BY <1>5 DEF ReceiveFinger, VendorFree, Nothing, Acquired, Authenticated
  <2> QED BY <1>5, <2>1, OthersKeepOrder DEF ReceiveFinger
<1>6. CASE OnAcquired \/ OnAuthenticated \/ OnAuthenticatorId \/ TellAuthenticatorId
  <2>1. /\ message.type \notin {"enumerating", "onEnrollmentsEnumerated"}
        /\ message'.type \in {"nothing", "onAuthenticatorIdRetrieved"}
        /\ UNCHANGED <<outbox, enrollments, cut>>
    BY <1>6 DEF OnAcquired, OnAuthenticated, OnAuthenticatorId, TellAuthenticatorId, Nothing
  <2> QED BY <2>1, OthersKeepOrder
<1>7. CASE OnEnumerating
  BY <1>7, EnumeratingKeepsOrder
<1>8. CASE TellEnrollments
  BY <1>8, ReportKeepsOrder
<1> QED BY <1>1, <1>2, <1>3, <1>4, <1>5, <1>6, <1>7, <1>8 DEF Next, Binder, Worker, Handles

LEMMA MessagesInvInit ==
  ASSUME Init
  PROVE  MessagesInv
<1> USE DEF Init
<1>1. UdfpsTypeOK
  BY InitEstablishes DEF UdfpsInv
<1>2. message.type = "nothing"
  BY DEF Nothing
<1>3. /\ queue \in Seq(TaskKinds) /\ Len(queue) = 0 /\ enrollments \in Seq(Nat)
      /\ outbox \in Seq(Enumerating \cup AuthenticatorId)
  BY EmptySeq
<1>4. made \in 0 .. MaxTasks /\ Len(queue) <= MAX_WORKER_QUEUE_SIZE
  BY <1>3, SizeAssumption
<1>5. TypeOK
  BY <1>1, <1>3, <1>4 DEF TypeOK
<1> QED BY <1>2, <1>3, <1>5
        DEF MessagesInv, SessionIsThere, InOrder, InSequence, MessageInOrder, IsPart,
            ListIsExact, ReportIsClean

LEMMA MessagesInvariance == Spec => []MessagesInv
<1>1. ASSUME MessagesInv, UdfpsTypeOK', [Next]_vars
      PROVE  MessagesInv'
  BY <1>1, TypeStep, OrderStep DEF MessagesInv
<1>2. UdfpsInv => UdfpsTypeOK
  BY DEF UdfpsInv
<1> QED BY <1>1, <1>2, MessagesInvInit, MessagesImplementUdfps, UdfpsInvariance, PTL DEF Spec

\* Every field keeps to its range: no task outgrows the worker's queue, no callback is
\* prepared without a session to make it to, and an id narrowed to an int fits there.
THEOREM MessagesTypeCorrect == Spec => []TypeOK
<1>1. MessagesInv => TypeOK
  BY DEF MessagesInv
<1> QED BY <1>1, MessagesInvariance, PTL

\* However sessions close and open while an enumeration is on its way, a report is what
\* the user of the session has, unless one of its messages, or of those before it, was
\* dropped or given to another session.
THEOREM WholeUnlessCutHolds == Spec => []WholeUnlessCut
<1>1. MessagesInv => WholeUnlessCut
  <2> SUFFICES ASSUME MessagesInv, message.type = "onEnrollmentsEnumerated", message.clean
               PROVE  enrollments = Templates[message.to]
    BY DEF WholeUnlessCut
  <2>1. message.to = message.of /\ Holds(message.of, Len(Templates[message.of]))
    BY DEF MessagesInv, ListIsExact, ReportIsClean
  <2>2. enrollments \in Seq(Nat) /\ Templates[message.to] \in Seq(Nat)
    BY MessageKinds, TemplatesAssumption DEF MessagesInv, TypeOK, EnrollmentsEnumerated
  <2> QED BY <2>1, <2>2, SeqEqual DEF Holds
<1> QED BY <1>1, MessagesInvariance, PTL

=============================================================================
