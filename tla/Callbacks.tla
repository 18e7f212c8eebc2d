------------------------------ MODULE Callbacks ------------------------------
(***************************************************************************)
(* What the framework and the device get to see of each other's data: the  *)
(* callbacks Session::notify makes out of messages (those that Messages    *)
(* does not follow further), the arguments the engine hands to the device, *)
(* and the conversions between them: translate() of Legacy2Aidl.h,         *)
(* convertError(), convertAcquiredInfo() and the widths of integers.       *)
(*                                                                         *)
(* One session is open all the time (HalSession has its lifecycle).        *)
(* External: the device, the framework, and the queue of the worker.       *)
(***************************************************************************)
EXTENDS Integers, SequencesExt

CONSTANTS MaxTasks,     \* tasks ever scheduled (bound)
          MAX_WORKER_QUEUE_SIZE,
          SAMPLES,      \* scans an enrolment takes
          INT_HALF, LONG_HALF, ENUM_HALF,  \* half the values of an int, a long and an
                                           \* enum of AIDL: 2^31, 2^63 and 2^7
          HMAC_SIZE,    \* bytes of hw_auth_token_t::hmac, 32 in the code
          Byte, Words,  \* bytes, and integers as the sequences of their bytes
          Macs,         \* the macs of the framework's tokens
          Fids,         \* the fingerprint ids the device gives out
          Longs,        \* the 64-bit values in messages
          Codes         \* the codes of the sensor's errors and acquired infos

ASSUME SizeAssumption ==
  /\ MaxTasks \in Nat /\ MAX_WORKER_QUEUE_SIZE \in Nat \ {0} /\ SAMPLES \in Nat \ {0}
  /\ INT_HALF \in Nat \ {0} /\ LONG_HALF \in Nat \ {0} /\ ENUM_HALF \in Nat \ {0}
  /\ HMAC_SIZE \in Nat

\* The id 0 stands for a finger that was not recognised.
ASSUME DataAssumption ==
  /\ Words \subseteq Seq(Byte)
  /\ Macs \subseteq Seq(Byte)
  /\ Fids \subseteq 1 .. 2 * INT_HALF - 1
  /\ Longs \subseteq -LONG_HALF .. LONG_HALF - 1
  /\ Codes \subseteq Int

VARIABLES
  queue, made,   \* the worker's queue, and the number of tasks ever scheduled
  outbox,        \* messages the device still has to send
  issued,        \* the device: the challenges it generated and did not revoke
  templates,     \* the device: the fingerprints it knows
  enrolling,     \* the device: the fingerprint it enrols, and the scans that are missing
  authenticating,  \* the device: the operation it waits to see a finger for
  authId,        \* the device: its authenticator id since the last invalidation
  presented,     \* the last token the device was given, and what it was made from, or
                 \* Overrun
  told,          \* the last callback, and the message it was made from
  challenge,     \* the framework: the challenge it was told last
  asked,         \* the framework: the operations it asked a finger for
  authenticatorId,  \* the framework: the new authenticator id it was told last
  known          \* the framework: the fingerprints it believes the device has

orderVars == <<queue, made>>
deviceVars == <<issued, templates, enrolling, authenticating, authId, presented>>
frameworkVars == <<challenge, asked, authenticatorId, known>>
vars == <<orderVars, outbox, deviceVars, told, frameworkVars>>

None == [op |-> "none"]

\* A mac was written past the end of hmac.
Overrun == [op |-> "overrun"]

Init ==
  /\ queue = <<>> /\ made = 0 /\ outbox = <<>>
  /\ issued = {} /\ templates = {} /\ enrolling = None /\ authenticating = None
  /\ authId = None /\ presented = None
  /\ told = None /\ challenge = None /\ asked = {} /\ authenticatorId = None
  /\ known = {}

-----------------------------------------------------------------------------
(* Conversions.                                                              *)

Unsigned(half, n) == n % (2 * half)

Signed(half, n) ==
  LET low == Unsigned(half, n) IN IF low < half THEN low ELSE low - 2 * half

FINGERPRINT_VENDOR_BASE == 1000
VENDOR == 7
UNABLE_TO_PROCESS == 2

\* convertError() and convertAcquiredInfo() alike: both bases are 1000, and both enums of
\* AIDL are a byte wide and have VENDOR at 7.
convert(code) ==
  IF code > FINGERPRINT_VENDOR_BASE
    THEN <<VENDOR, code - FINGERPRINT_VENDOR_BASE>> ELSE <<Signed(ENUM_HALF, code), 0>>

Tokens == [challenge : Longs, timestamp : Words, mac : Macs]
Hmac == [1 .. HMAC_SIZE -> Byte]

\* Mutant: the timestamp is left in host order.
toHatUnswapped(token, stack) ==
  [challenge |-> Unsigned(LONG_HALF, token.challenge),
   timestamp |-> token.timestamp,
   mac       |-> [i \in 1 .. HMAC_SIZE |->
                    IF i <= Len(token.mac) THEN token.mac[i] ELSE stack[i]]]

\* translate() to the token of the device.  The user and authenticator ids go the way of
\* the challenge, the authenticator type goes the way of the timestamp, whose bytes are
\* swapped.  What the mac does not reach keeps what was on the stack; so does the
\* version, which is left out.
toHat(token, stack) ==
  [challenge |-> Unsigned(LONG_HALF, token.challenge),
   timestamp |-> Reverse(token.timestamp),
   mac       |-> [i \in 1 .. HMAC_SIZE |->
                    IF i <= Len(token.mac) THEN token.mac[i] ELSE stack[i]]]

\* translate() to the token of the framework.
toToken(hat) ==
  [challenge |-> Signed(LONG_HALF, hat.challenge),
   timestamp |-> Reverse(hat.timestamp),
   mac       |-> hat.mac]

-----------------------------------------------------------------------------
(* The framework, external, on the binder thread.                            *)

\* A task that does not fit into the queue is rejected, unnoticed.
Schedule(task) ==
  /\ made < MaxTasks
  /\ made' = made + 1
  /\ queue' = IF Len(queue) < MAX_WORKER_QUEUE_SIZE THEN Append(queue, task) ELSE queue
  /\ asked' = IF task.op = "authenticate" THEN asked \cup {task.operationId} ELSE asked
  /\ UNCHANGED <<outbox, deviceVars, told, challenge, authenticatorId, known>>

\* Challenges are used, and fingerprints are removed, as the framework was told of them.
Request ==
  \/ Schedule([op |-> "generateChallenge"])
  \/ Schedule([op |-> "invalidateAuthenticatorId"])
  \/ \E id \in Longs : Schedule([op |-> "authenticate", operationId |-> id])
  \/ \E ids \in SUBSET known \ {{}} : Schedule([op |-> "removeEnrollments", ids |-> ids])
  \/ /\ challenge # None
     /\ Schedule([op |-> "revokeChallenge", challenge |-> challenge.is])
  \/ \E token \in Tokens :
       /\ challenge # None /\ token.challenge = challenge.is
       /\ Schedule([op |-> "enroll", hat |-> token])

-----------------------------------------------------------------------------
(* The worker, and what the device (external) does about its orders.         *)

Take(op) ==
  /\ queue # <<>> /\ Head(queue).op = op
  /\ queue' = Tail(queue)
  /\ UNCHANGED <<made, frameworkVars>>

generateChallengeImpl ==
  /\ Take("generateChallenge")
  /\ \E c \in Longs :
       /\ issued' = issued \cup {Unsigned(LONG_HALF, c)}
       /\ outbox' = Append(outbox, [type |-> "challengeGenerated", data |-> c])
  /\ UNCHANGED <<templates, enrolling, authenticating, authId, presented, told>>

revokeChallengeImpl ==
  LET c == Head(queue).challenge IN
  /\ Take("revokeChallenge")
  /\ issued' = issued \ {Unsigned(LONG_HALF, c)}
  /\ outbox' = Append(outbox, [type |-> "challengeRevoked", data |-> c])
  /\ UNCHANGED <<templates, enrolling, authenticating, authId, presented, told>>

Idle == enrolling = None /\ authenticating = None

\* The device may start when it knows the challenge; if it does not, that is an error.
enrollImpl ==
  LET token == Head(queue).hat IN
  /\ Take("enroll") /\ Len(token.mac) <= HMAC_SIZE
  /\ \E stack \in Hmac : presented' = [hat |-> toHat(token, stack), of |-> token]
  /\ \/ /\ presented'.hat.challenge \in issued /\ Idle
        /\ \E fid \in Fids \ templates :
             enrolling' = [fid |-> fid, missing |-> SAMPLES]
        /\ UNCHANGED told
     \/ /\ told' = [op |-> "onError", code |-> <<UNABLE_TO_PROCESS, 1>>]
        /\ UNCHANGED enrolling
  /\ UNCHANGED <<outbox, issued, templates, authenticating, authId>>

\* translate() copies a mac of any length into hmac.  What the program does after it has
\* written past its end is undefined: the model stops.
enrollImplOverruns ==
  /\ Take("enroll") /\ Len(Head(queue).hat.mac) > HMAC_SIZE
  /\ presented' = Overrun
  /\ UNCHANGED <<outbox, issued, templates, enrolling, authenticating, authId, told>>

\* Mutant: the operation passes through an int.
authenticateImplNarrow ==
  LET id == Head(queue).operationId IN
  /\ Take("authenticate")
  /\ \/ /\ Idle
        /\ authenticating' = [for |-> Unsigned(LONG_HALF, Signed(INT_HALF, id))]
        /\ UNCHANGED told
     \/ /\ told' = [op |-> "onError", code |-> <<UNABLE_TO_PROCESS, 1>>]
        /\ UNCHANGED authenticating
  /\ UNCHANGED <<outbox, issued, templates, enrolling, authId, presented>>

authenticateImpl ==
  LET id == Head(queue).operationId IN
  /\ Take("authenticate")
  /\ \/ /\ Idle
        /\ authenticating' = [for |-> Unsigned(LONG_HALF, id)]
        /\ UNCHANGED told
     \/ /\ told' = [op |-> "onError", code |-> <<UNABLE_TO_PROCESS, 1>>]
        /\ UNCHANGED authenticating
  /\ UNCHANGED <<outbox, issued, templates, enrolling, authId, presented>>

invalidateAuthenticatorIdImpl ==
  /\ Take("invalidateAuthenticatorId")
  /\ \E id \in Longs :
       /\ authId' = [is |-> Unsigned(LONG_HALF, id)]
       /\ outbox' = Append(outbox, [type |-> "authenticatorIdInvalidated", data |-> id])
  /\ UNCHANGED <<issued, templates, enrolling, authenticating, presented, told>>

\* The device removes what it has of the list, and sends a message for each.
removeEnrollmentsImpl ==
  LET found == SetToSeq({Unsigned(INT_HALF, id) : id \in Head(queue).ids} \cap templates) IN
  /\ Take("removeEnrollments")
  /\ templates' = templates \ ToSet(found)
  /\ outbox' = outbox \o [i \in DOMAIN found |->
                            [type |-> "removed", fid |-> found[i],
                             remaining |-> Len(found) - i]]
  /\ UNCHANGED <<issued, enrolling, authenticating, authId, presented, told>>

Worker ==
  \/ generateChallengeImpl \/ revokeChallengeImpl \/ enrollImpl \/ enrollImplOverruns
  \/ authenticateImpl \/ removeEnrollmentsImpl \/ invalidateAuthenticatorIdImpl

\* A finger is scanned for the enrolment; the last scan makes the template.
Scan ==
  LET left == enrolling.missing - 1 IN
  /\ enrolling # None
  /\ outbox' = Append(outbox, [type |-> "enrolling", fid |-> enrolling.fid,
                               remaining |-> left])
  /\ enrolling' = IF left = 0 THEN None ELSE [enrolling EXCEPT !.missing = left]
  /\ templates' = IF left = 0 THEN templates \cup {enrolling.fid} ELSE templates
  /\ UNCHANGED <<orderVars, issued, authenticating, authId, presented, told, frameworkVars>>

\* A finger is recognised; the token of the device is about the operation.
Match ==
  /\ authenticating # None
  /\ \E fid \in templates, timestamp \in Words, mac \in Hmac :
       outbox' = Append(outbox,
         [type |-> "authenticated", fid |-> fid,
          hat |-> [challenge |-> authenticating.for, timestamp |-> timestamp, mac |-> mac]])
  /\ authenticating' = None
  /\ UNCHANGED <<orderVars, issued, templates, enrolling, authId, presented, told,
                 frameworkVars>>

-----------------------------------------------------------------------------
(* Session::notify, and what the framework remembers of each callback.       *)

Message == Head(outbox)

Answer(type) ==
  /\ outbox # <<>> /\ Message.type = type
  /\ outbox' = Tail(outbox)
  /\ UNCHANGED <<orderVars, deviceVars>>

Id == Signed(INT_HALF, Message.fid)

onEnrollmentProgress ==
  /\ Answer("enrolling")
  /\ told' = [op |-> "onEnrollmentProgress", of |-> Message, id |-> Id,
              remaining |-> Message.remaining]
  /\ known' = IF Message.remaining = 0 THEN known \cup {Id} ELSE known
  /\ UNCHANGED <<challenge, asked, authenticatorId>>

\* Mutant: like an enumeration, a removal is reported by its last message.
onEnrollmentsRemovedOnce ==
  /\ Answer("removed")
  /\ told' = [op |-> "onEnrollmentsRemoved", of |-> Message, id |-> Id]
  /\ known' = IF Message.remaining = 0 THEN known \ {Id} ELSE known
  /\ UNCHANGED <<challenge, asked, authenticatorId>>

onEnrollmentsRemoved ==
  /\ Answer("removed")
  /\ told' = [op |-> "onEnrollmentsRemoved", of |-> Message, id |-> Id]
  /\ known' = known \ {Id}
  /\ UNCHANGED <<challenge, asked, authenticatorId>>

\* Mutant: a challenge passes through an int, as the authenticator id does.
onChallengeGeneratedNarrow ==
  /\ Answer("challengeGenerated")
  /\ told' = [op |-> "onChallengeGenerated", of |-> Message]
  /\ challenge' = [is |-> Signed(INT_HALF, Message.data)]
  /\ UNCHANGED <<asked, authenticatorId, known>>

onChallengeGenerated ==
  /\ Answer("challengeGenerated")
  /\ told' = [op |-> "onChallengeGenerated", of |-> Message]
  /\ challenge' = [is |-> Message.data]
  /\ UNCHANGED <<asked, authenticatorId, known>>

onChallengeRevoked ==
  /\ Answer("challengeRevoked")
  /\ told' = [op |-> "onChallengeRevoked", of |-> Message]
  /\ challenge' = IF challenge = [is |-> Message.data] THEN None ELSE challenge
  /\ UNCHANGED <<asked, authenticatorId, known>>

\* FINGERPRINT_ERROR, and FINGERPRINT_ACQUIRED unless it is for the vendor.
onErrorOrAcquired ==
  /\ \E code \in Codes, op \in {"onError", "onAcquired"} :
       /\ op = "onAcquired" => convert(code)[1] # VENDOR
       /\ told' = [op |-> op, code |-> convert(code), of |-> code]
  /\ UNCHANGED <<orderVars, outbox, deviceVars, frameworkVars>>

\* FINGERPRINT_AUTHENTICATED with a finger that is recognised: a token of the device.
onAuthenticationSucceeded ==
  /\ Answer("authenticated")
  /\ told' = [op |-> "onAuthenticationSucceeded", of |-> Message, id |-> Id,
              token |-> toToken(Message.hat)]
  /\ UNCHANGED frameworkVars

\* Mutant: the new id passes through an int, as the retrieved one does.
onAuthenticatorIdInvalidatedNarrow ==
  /\ Answer("authenticatorIdInvalidated")
  /\ told' = [op |-> "onAuthenticatorIdInvalidated", of |-> Message]
  /\ authenticatorId' = [is |-> Signed(INT_HALF, Message.data)]
  /\ UNCHANGED <<challenge, asked, known>>

onAuthenticatorIdInvalidated ==
  /\ Answer("authenticatorIdInvalidated")
  /\ told' = [op |-> "onAuthenticatorIdInvalidated", of |-> Message]
  /\ authenticatorId' = [is |-> Message.data]
  /\ UNCHANGED <<challenge, asked, known>>

Notify ==
  \/ onEnrollmentProgress \/ onEnrollmentsRemoved \/ onChallengeGenerated
  \/ onChallengeRevoked \/ onErrorOrAcquired \/ onAuthenticationSucceeded
  \/ onAuthenticatorIdInvalidated

-----------------------------------------------------------------------------

Next == presented # Overrun /\ (Request \/ Worker \/ Scan \/ Match \/ Notify)

Spec == Init /\ [][Next]_vars

-----------------------------------------------------------------------------
(* Properties.                                                               *)

TypeOK ==
  /\ made \in 0 .. MaxTasks /\ Len(queue) <= MAX_WORKER_QUEUE_SIZE
  /\ issued \subseteq 0 .. 2 * LONG_HALF - 1
  /\ templates \subseteq Fids
  /\ enrolling = None \/ enrolling \in [fid : Fids \ templates, missing : 1 .. SAMPLES]
  /\ authenticating = None \/ authenticating.for \in 0 .. 2 * LONG_HALF - 1
  /\ authId = None \/ authId.is \in 0 .. 2 * LONG_HALF - 1
  /\ presented \in {None, Overrun} \/ presented.of \in Tokens
  /\ challenge = None \/ challenge.is \in Longs
  /\ asked \subseteq Longs
  /\ authenticatorId = None \/ authenticatorId.is \in Longs
  /\ known \subseteq -INT_HALF .. INT_HALF - 1

\* Whatever is enrolled and removed, in any order: when nothing is on its way, the
\* framework knows exactly the fingerprints of the device, each under its own id.
CacheInSync == outbox = <<>> => known = {Signed(INT_HALF, fid) : fid \in templates}

Pending(c) ==
  \/ \E i \in DOMAIN queue : queue[i] = [op |-> "revokeChallenge", challenge |-> c]
  \/ \E i \in DOMAIN outbox : outbox[i] = [type |-> "challengeRevoked", data |-> c]

\* The challenge the framework holds is one the device accepts, until the framework
\* itself has it revoked: no bit of it is lost on the way there and back.
ChallengeIsGood ==
  challenge # None /\ ~Pending(challenge.is)
    => Unsigned(LONG_HALF, challenge.is) \in issued

\* Every token that the device is given says what the framework's said, to the last byte
\* of its mac, and a token of the device comes back from the framework as it was: what
\* differs is only the order of bytes and the sign.
TokenSurvives ==
  /\ presented \notin {None, Overrun} =>
       LET token == presented.of
           back == toToken(presented.hat) IN
       /\ back.challenge = token.challenge /\ back.timestamp = token.timestamp
       /\ \A i \in DOMAIN token.mac : back.mac[i] = token.mac[i]
  /\ told.op = "onAuthenticationSucceeded" => toHat(told.token, told.of.hat.mac) = told.of.hat

\* The framework is told of a recognised finger only when it knows that finger, whatever
\* enrolments and removals went before, and for an operation that it asked one for.
AuthenticationIsOwn ==
  [][ told' # told /\ told'.op = "onAuthenticationSucceeded" =>
        told'.id \in known /\ told'.token.challenge \in asked ]_vars

Invalidations == {i \in DOMAIN outbox : outbox[i].type = "authenticatorIdInvalidated"}

\* The authenticator id told by an invalidation is that of the device, to the last bit,
\* until the next invalidation is on its way.
NewIdIsExact ==
  authenticatorId # None /\ Invalidations = {}
    => authId = [is |-> Unsigned(LONG_HALF, authenticatorId.is)]

=============================================================================
