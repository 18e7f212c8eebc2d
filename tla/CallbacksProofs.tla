---------------------------- MODULE CallbacksProofs ----------------------------
(***************************************************************************)
(* Proofs about Callbacks, for integers of every width, words and macs of  *)
(* every length, and any data the framework and the device exchange.       *)
(***************************************************************************)
EXTENDS Callbacks, SequenceTheorems, FiniteSetTheorems, TLAPS

-----------------------------------------------------------------------------
(* What there is in the queue of the worker and on the way from the device.  *)

Ints == -INT_HALF .. INT_HALF - 1
UnsignedLongs == 0 .. 2 * LONG_HALF - 1

Hats == [challenge : UnsignedLongs, timestamp : Seq(Byte), mac : Hmac]

Tasks ==
  [op : {"generateChallenge", "invalidateAuthenticatorId"}]
    \cup [op : {"authenticate"}, operationId : Longs]
    \cup [op : {"removeEnrollments"}, ids : SUBSET Ints]
    \cup [op : {"revokeChallenge"}, challenge : Longs]
    \cup [op : {"enroll"}, hat : Tokens]

DataMessages ==
  [type : {"challengeGenerated", "challengeRevoked", "authenticatorIdInvalidated"},
   data : Longs]
FingerMessages == [type : {"enrolling", "removed"}, fid : Fids, remaining : Nat]
Authentications == [type : {"authenticated"}, fid : Fids, hat : Hats]

Messages == DataMessages \cup FingerMessages \cup Authentications

\* TypeOK, and what it leaves open of the records.
Types ==
  /\ made \in 0 .. MaxTasks
  /\ queue \in Seq(Tasks) /\ Len(queue) <= MAX_WORKER_QUEUE_SIZE
  /\ outbox \in Seq(Messages)
  /\ issued \subseteq UnsignedLongs
  /\ templates \subseteq Fids
  /\ enrolling = None \/ enrolling \in [fid : Fids \ templates, missing : 1 .. SAMPLES]
  /\ authenticating = None \/ authenticating \in [for : UnsignedLongs]
  /\ authId = None \/ authId \in [is : UnsignedLongs]
  /\ presented \in {None, Overrun} \/ presented.of \in Tokens
  /\ challenge = None \/ challenge \in [is : Longs]
  /\ asked \subseteq Longs
  /\ authenticatorId = None \/ authenticatorId \in [is : Longs]
  /\ known \subseteq Ints

-----------------------------------------------------------------------------
(* The inductive invariant, in four parts that do not depend on each other.  *)

\* A challenge on its way, or with the framework, that the device does not accept any
\* more has its revocation behind it in the outbox.
RevokedBehind(c, i) ==
  Unsigned(LONG_HALF, c) \in issued
    \/ \E j \in i + 1 .. Len(outbox) :
         outbox[j].type = "challengeRevoked" /\ outbox[j].data = c

ChallengesMatch ==
  /\ challenge # None => RevokedBehind(challenge.is, 0)
  /\ \A i \in 1 .. Len(outbox) :
       outbox[i].type = "challengeGenerated" => RevokedBehind(outbox[i].data, i)

\* The last invalidation that is on its way, or else the last that was told, has the id
\* of the device.
Invalidation(m) == m.type = "authenticatorIdInvalidated"

IdsMatch ==
  /\ \A i \in 1 .. Len(outbox) :
       Invalidation(outbox[i]) /\ (\A j \in i + 1 .. Len(outbox) : ~Invalidation(outbox[j]))
         => authId = [is |-> Unsigned(LONG_HALF, outbox[i].data)]
  /\ authenticatorId # None /\ (\A i \in 1 .. Len(outbox) : ~Invalidation(outbox[i]))
       => authId = [is |-> Unsigned(LONG_HALF, authenticatorId.is)]

\* The message m makes the framework learn, or forget, the fingerprint fid.
Changes(m) == m.type = "removed" \/ (m.type = "enrolling" /\ m.remaining = 0)
About(m, fid) == Changes(m) /\ m.fid = fid

\* No message from position i to position j is about fid.
Silent(fid, i, j) == \A k \in i .. j : ~About(outbox[k], fid)

Knows(fid) == Signed(INT_HALF, fid) \in known

\* The framework knows fid when it has got the first n messages of the outbox: it was
\* told so by the last of them about fid, or knew before.
KnowsAfter(fid, n) ==
  /\ Silent(fid, 1, n) => Knows(fid)
  /\ \A i \in 1 .. n :
       About(outbox[i], fid) /\ Silent(fid, i + 1, n) => outbox[i].type = "enrolling"

\* In the end the framework knows what the device knows, and before that it knows each
\* finger that the device recognised by the time it is told.
FingersMatch ==
  /\ known \subseteq {Signed(INT_HALF, fid) : fid \in Fids}
  /\ \A fid \in Fids : Silent(fid, 1, Len(outbox)) => (fid \in templates <=> Knows(fid))
  /\ \A i \in 1 .. Len(outbox) :
       Changes(outbox[i]) /\ Silent(outbox[i].fid, i + 1, Len(outbox))
         => (outbox[i].fid \in templates <=> outbox[i].type = "enrolling")
  /\ \A i \in 1 .. Len(outbox) :
       outbox[i].type = "authenticated" => KnowsAfter(outbox[i].fid, i - 1)

\* A finger is looked for, and recognised, for an operation the framework asked for.
IsAsked(c) == Signed(LONG_HALF, c) \in asked

OperationsMatch ==
  /\ \A i \in 1 .. Len(queue) : queue[i].op = "authenticate" => queue[i].operationId \in asked
  /\ authenticating # None => IsAsked(authenticating.for)
  /\ \A i \in 1 .. Len(outbox) :
       outbox[i].type = "authenticated" => IsAsked(outbox[i].hat.challenge)

\* What was handed over last is what the conversions made of it.
ConversionsMatch ==
  /\ presented \notin {None, Overrun} =>
       /\ Len(presented.of.mac) <= HMAC_SIZE
       /\ \E stack \in Hmac : presented.hat = toHat(presented.of, stack)
  /\ told.op = "onAuthenticationSucceeded" =>
       told.of.hat \in Hats /\ told.token = toToken(told.of.hat)

CallbacksInv ==
  /\ Types
  /\ ChallengesMatch
  /\ IdsMatch
  /\ FingersMatch
  /\ OperationsMatch
  /\ ConversionsMatch

-----------------------------------------------------------------------------
(* Conversions.                                                              *)

\* The remainder that a conversion to unsigned leaves, and what it is for numbers of the
\* same width.
LEMMA UnsignedIs ==
  ASSUME NEW half \in Nat \ {0}, NEW n \in Int
  PROVE  /\ Unsigned(half, n) \in 0 .. 2 * half - 1
         /\ n \in 0 .. 2 * half - 1 => Unsigned(half, n) = n
         /\ n \in -half .. -1 => Unsigned(half, n) = n + 2 * half
<1> DEFINE size == 2 * half
<1>1. size \in Nat \ {0}
  OBVIOUS
<1> HIDE DEF size
<1>2. n % size \in 0 .. size - 1
  BY <1>1
<1>3. n \in 0 .. size - 1 => n % size = n
  BY <1>1
<1>4. n \in -size .. -1 => n % size = n + size
  BY <1>1
<1> QED BY <1>2, <1>3, <1>4 DEF Unsigned, size

\* A conversion to signed takes off the whole range in the upper half.
LEMMA SignedIs ==
  ASSUME NEW half \in Nat \ {0}, NEW n \in 0 .. 2 * half - 1
  PROVE  /\ Signed(half, n) = IF n < half THEN n ELSE n - 2 * half
         /\ Signed(half, n) \in -half .. half - 1
<1>1. Unsigned(half, n) = n
  BY UnsignedIs
<1> QED BY <1>1 DEF Signed

LEMMA SignedType ==
  ASSUME NEW half \in Nat \ {0}, NEW n \in Int
  PROVE  Signed(half, n) \in -half .. half - 1
<1>1. Unsigned(half, n) \in 0 .. 2 * half - 1
  BY UnsignedIs
<1> QED BY <1>1 DEF Signed

\* There and back again, no bit of a number is lost: the conversions are inverse.
LEMMA SignedOfUnsigned ==
  ASSUME NEW half \in Nat \ {0}, NEW n \in -half .. half - 1
  PROVE  Signed(half, Unsigned(half, n)) = n
<1>1. CASE n >= 0
  <2>1. Unsigned(half, n) = n /\ n \in 0 .. 2 * half - 1
    BY <1>1, UnsignedIs
  <2> QED BY <2>1, SignedIs
<1>2. CASE n < 0
  <2>1. Unsigned(half, n) = n + 2 * half /\ n + 2 * half \in 0 .. 2 * half - 1
    BY <1>2, UnsignedIs
  <2> QED BY <1>2, <2>1, SignedIs
<1> QED BY <1>1, <1>2

LEMMA UnsignedOfSigned ==
  ASSUME NEW half \in Nat \ {0}, NEW n \in 0 .. 2 * half - 1
  PROVE  Unsigned(half, Signed(half, n)) = n
<1>1. Signed(half, n) = IF n < half THEN n ELSE n - 2 * half
  BY SignedIs
<1>2. CASE n < half
  BY <1>1, <1>2, UnsignedIs
<1>3. CASE n >= half
  <2>1. n - 2 * half \in -half .. -1
    BY <1>3
  <2>2. Unsigned(half, n - 2 * half) = n - 2 * half + 2 * half
    BY <2>1, UnsignedIs
  <2> QED BY <1>1, <1>3, <2>2
<1> QED BY <1>2, <1>3

\* Swapping the bytes of a word twice changes nothing.
LEMMA ReverseTwice ==
  ASSUME NEW S, NEW s \in Seq(S)
  PROVE  Reverse(s) \in Seq(S) /\ Reverse(Reverse(s)) = s
<1>1. Len(s) \in Nat /\ s = [i \in 1 .. Len(s) |-> s[i]]
  BY LenProperties
<1>2. Reverse(s) \in [1 .. Len(s) -> S]
  BY <1>1 DEF Reverse
<1>3. Reverse(s) \in Seq(S)
  BY <1>1, <1>2, SeqDef
<1>4. Len(Reverse(s)) = Len(s)
  BY <1>1, <1>2, <1>3, LenProperties
<1>5. \A i \in 1 .. Len(s) : Reverse(s)[i] = s[Len(s) - i + 1]
  BY <1>1 DEF Reverse
<1>6. Reverse(Reverse(s)) = [i \in 1 .. Len(s) |-> Reverse(s)[Len(s) - i + 1]]
  BY <1>4 DEF Reverse
<1>7. \A i \in 1 .. Len(s) : Reverse(s)[Len(s) - i + 1] = s[i]
  BY <1>1, <1>5
<1> QED BY <1>1, <1>3, <1>6, <1>7

\* A token that goes to the device comes back as it was, but for what the stack added to
\* its mac.
LEMMA TokenRoundTrip ==
  ASSUME NEW token \in Tokens, NEW stack \in Hmac, Len(token.mac) <= HMAC_SIZE
  PROVE  LET back == toToken(toHat(token, stack)) IN
         /\ back.challenge = token.challenge /\ back.timestamp = token.timestamp
         /\ \A i \in DOMAIN token.mac : back.mac[i] = token.mac[i]
<1>1. /\ token.challenge \in -LONG_HALF .. LONG_HALF - 1
      /\ token.timestamp \in Seq(Byte) /\ token.mac \in Seq(Byte)
  BY DataAssumption DEF Tokens
<1>2. Signed(LONG_HALF, Unsigned(LONG_HALF, token.challenge)) = token.challenge
  BY <1>1, SizeAssumption, SignedOfUnsigned
<1>3. Reverse(Reverse(token.timestamp)) = token.timestamp
  BY <1>1, ReverseTwice
<1> DEFINE mac == [i \in 1 .. HMAC_SIZE |-> IF i <= Len(token.mac) THEN token.mac[i] ELSE stack[i]]
<1>4. ASSUME NEW i \in DOMAIN token.mac PROVE mac[i] = token.mac[i]
  <2>1. Len(token.mac) \in Nat /\ i \in 1 .. Len(token.mac)
    BY <1>1, LenProperties
  <2> QED BY <2>1, SizeAssumption
<1> HIDE DEF mac
<1>5. toHat(token, stack) = [challenge |-> Unsigned(LONG_HALF, token.challenge),
                             timestamp |-> Reverse(token.timestamp), mac |-> mac]
  BY DEF toHat, mac
<1> QED BY <1>2, <1>3, <1>4, <1>5 DEF toToken

\* A token of the device that goes to the framework comes back as it was.
LEMMA HatRoundTrip ==
  ASSUME NEW hat \in Hats, NEW stack
  PROVE  toHat(toToken(hat), stack) = hat
<1>1. /\ hat.challenge \in 0 .. 2 * LONG_HALF - 1 /\ hat.timestamp \in Seq(Byte)
      /\ hat.mac \in [1 .. HMAC_SIZE -> Byte]
  BY DEF Hats, UnsignedLongs, Hmac
<1>2. Unsigned(LONG_HALF, Signed(LONG_HALF, hat.challenge)) = hat.challenge
  BY <1>1, SizeAssumption, UnsignedOfSigned
<1>3. Reverse(Reverse(hat.timestamp)) = hat.timestamp
  BY <1>1, ReverseTwice
<1>4. hat.mac \in Seq(Byte) /\ Len(hat.mac) = HMAC_SIZE
  <2>1. hat.mac \in Seq(Byte)
    BY <1>1, SizeAssumption, SeqDef
  <2> QED BY <1>1, <2>1, SizeAssumption, LenProperties
<1>5. [i \in 1 .. HMAC_SIZE |-> IF i <= Len(hat.mac) THEN hat.mac[i] ELSE stack[i]] = hat.mac
  BY <1>1, <1>4, SizeAssumption
<1>6. hat = [challenge |-> hat.challenge, timestamp |-> hat.timestamp, mac |-> hat.mac]
  BY DEF Hats
<1> QED BY <1>2, <1>3, <1>5, <1>6 DEF toHat, toToken

-----------------------------------------------------------------------------
(* Tasks and messages.                                                       *)

LEMMA TaskFields ==
  ASSUME NEW t \in Tasks
  PROVE  /\ t.op = "authenticate" => t.operationId \in Longs
         /\ t.op = "removeEnrollments" => t.ids \subseteq Ints
         /\ t.op = "revokeChallenge" => t.challenge \in Longs
         /\ t.op = "enroll" => t.hat \in Tokens
BY DEF Tasks

DataTypes == {"challengeGenerated", "challengeRevoked", "authenticatorIdInvalidated"}

LEMMA MessageFields ==
  ASSUME NEW m \in Messages
  PROVE  /\ m.type \in DataTypes \cup {"enrolling", "removed", "authenticated"}
         /\ m.type \in DataTypes => m.data \in Longs
         /\ m.type \in {"enrolling", "removed", "authenticated"} => m.fid \in Fids
         /\ m.type \in {"enrolling", "removed"} => m.remaining \in Nat
         /\ m.type = "authenticated" => m.hat \in Hats
BY DEF Messages, DataMessages, FingerMessages, Authentications, DataTypes

LEMMA DataMessage ==
  ASSUME NEW type \in DataTypes, NEW c \in Longs
  PROVE  [type |-> type, data |-> c] \in Messages
BY DEF Messages, DataMessages, DataTypes

\* The fingerprint ids are numbers that an unsigned int holds.
LEMMA FidsAre ==
  /\ Fids \subseteq 0 .. 2 * INT_HALF - 1
  /\ \A fid \in Fids : Signed(INT_HALF, fid) \in Ints
  /\ \A f, g \in Fids : Signed(INT_HALF, f) = Signed(INT_HALF, g) => f = g
<1>1. INT_HALF \in Nat \ {0} /\ Fids \subseteq 0 .. 2 * INT_HALF - 1
  BY DataAssumption, SizeAssumption
<1>2. \A fid \in Fids : /\ Signed(INT_HALF, fid) \in Ints
                        /\ Unsigned(INT_HALF, Signed(INT_HALF, fid)) = fid
  BY <1>1, SignedIs, UnsignedOfSigned DEF Ints
<1> QED BY <1>1, <1>2

LEMMA LongsAre ==
  /\ LONG_HALF \in Nat \ {0} /\ Longs \subseteq Int
  /\ \A c \in Longs : /\ Unsigned(LONG_HALF, c) \in UnsignedLongs
                      /\ Signed(LONG_HALF, Unsigned(LONG_HALF, c)) = c
<1>1. LONG_HALF \in Nat \ {0} /\ Longs \subseteq -LONG_HALF .. LONG_HALF - 1
  BY DataAssumption, SizeAssumption
<1> QED BY <1>1, UnsignedIs, SignedOfUnsigned DEF UnsignedLongs

\* The device has sent the messages r.
Sends(r) == r \in Seq(Messages) /\ outbox' = outbox \o r

LEMMA SendsNone ==
  ASSUME Types, outbox' = outbox
  PROVE  Sends(<<>>) /\ Len(<<>>) = 0
BY EmptySeq, ConcatEmptySeq DEF Sends, Types

LEMMA SendsOne ==
  ASSUME Types, NEW m \in Messages, outbox' = Append(outbox, m)
  PROVE  Sends(<<m>>) /\ Len(<<m>>) = 1 /\ <<m>>[1] = m
<1>1. <<m>> \in Seq(Messages) /\ Len(<<m>>) = 1 /\ <<m>>[1] = m
  OBVIOUS
<1> QED BY <1>1, AppendIsConcat DEF Sends, Types

LEMMA Sent ==
  ASSUME Types, NEW r, Sends(r)
  PROVE  /\ outbox' \in Seq(Messages) /\ Len(outbox) \in Nat /\ Len(r) \in Nat
         /\ Len(outbox') = Len(outbox) + Len(r)
         /\ \A i \in 1 .. Len(outbox) : outbox'[i] = outbox[i]
         /\ \A i \in 1 .. Len(r) : outbox'[Len(outbox) + i] = r[i]
         /\ \A i \in 1 .. Len(outbox') :
              i \in 1 .. Len(outbox) \/ \E j \in 1 .. Len(r) : i = Len(outbox) + j
<1>1. outbox \in Seq(Messages) /\ r \in Seq(Messages) /\ outbox' = outbox \o r
  BY DEF Types, Sends
<1>2. /\ outbox' \in Seq(Messages) /\ Len(outbox) \in Nat /\ Len(r) \in Nat
      /\ Len(outbox') = Len(outbox) + Len(r)
      /\ \A i \in 1 .. Len(outbox) : outbox'[i] = outbox[i]
      /\ \A i \in 1 .. Len(r) : outbox'[Len(outbox) + i] = r[i]
  BY <1>1, ConcatProperties, LenProperties
<1>3. ASSUME NEW i \in 1 .. Len(outbox'), i \notin 1 .. Len(outbox)
      PROVE  \E j \in 1 .. Len(r) : i = Len(outbox) + j
  <2>1. i - Len(outbox) \in 1 .. Len(r)
    BY <1>2, <1>3
  <2>2. i = Len(outbox) + (i - Len(outbox))
    BY <1>2
  <2> QED BY <2>1, <2>2
<1> QED BY <1>2, <1>3

\* Session::notify has got the first message.
LEMMA Got ==
  ASSUME Types, outbox # <<>>, outbox' = Tail(outbox)
  PROVE  /\ Message = outbox[1] /\ Message \in Messages
         /\ Len(outbox) \in Nat \ {0} /\ Len(outbox') = Len(outbox) - 1
         /\ outbox' \in Seq(Messages)
         /\ \A i \in 1 .. Len(outbox') : i + 1 \in 1 .. Len(outbox) /\ outbox'[i] = outbox[i + 1]
BY HeadTailProperties, EmptySeq DEF Types, Message

-----------------------------------------------------------------------------
(* Types.                                                                    *)

\* The list of what the device removes is a sequence of its fingerprints.
LEMMA SetToSeqType ==
  ASSUME NEW S, IsFiniteSet(S)
  PROVE  /\ Cardinality(S) \in Nat
         /\ SetToSeq(S) \in [1 .. Cardinality(S) -> S]
         /\ SetToSeq(S) \in Seq(S) /\ Len(SetToSeq(S)) = Cardinality(S)
<1>1. Cardinality(S) \in Nat
  BY FS_CardinalityType
<1>2. \E f \in [1 .. Cardinality(S) -> S] : IsInjective(f)
  BY FS_CardinalityType DEF ExistsBijection, Bijection, Injection
<1>3. SetToSeq(S) \in [1 .. Cardinality(S) -> S]
  BY <1>2 DEF SetToSeq
<1>4. SetToSeq(S) \in Seq(S)
  BY <1>1, <1>3, SeqDef
<1> QED BY <1>1, <1>3, <1>4, LenProperties

LEMMA FoundType ==
  ASSUME Types, NEW ids
  PROVE  LET found == SetToSeq({Unsigned(INT_HALF, id) : id \in ids} \cap templates) IN
         /\ found \in Seq(templates) /\ found \in Seq(Fids)
         /\ [i \in DOMAIN found |->
               [type |-> "removed", fid |-> found[i], remaining |-> Len(found) - i]]
                 \in Seq(FingerMessages)
         /\ Len([i \in DOMAIN found |->
               [type |-> "removed", fid |-> found[i], remaining |-> Len(found) - i]])
                 = Len(found)
<1> DEFINE S == {Unsigned(INT_HALF, id) : id \in ids} \cap templates
           found == SetToSeq(S)
           r == [i \in DOMAIN found |->
                   [type |-> "removed", fid |-> found[i], remaining |-> Len(found) - i]]
<1>1. S \subseteq 0 .. 2 * INT_HALF - 1 /\ S \subseteq templates /\ templates \subseteq Fids
  BY FidsAre DEF Types
<1>2. IsFiniteSet(S)
  <2>1. IsFiniteSet(0 .. 2 * INT_HALF - 1)
    BY SizeAssumption, FS_Interval
  <2> QED BY <1>1, <2>1, FS_Subset
<1> HIDE DEF S
<1>3. /\ Len(found) \in Nat /\ found \in [1 .. Len(found) -> S]
      /\ found \in Seq(S)
  BY <1>2, SetToSeqType
<1>4. found \in Seq(templates) /\ found \in Seq(Fids)
  BY <1>1, <1>3, SeqMonotonic
<1>5. DOMAIN found = 1 .. Len(found)
  BY <1>3
<1> HIDE DEF found
<1>6. ASSUME NEW i \in 1 .. Len(found)
      PROVE  [type |-> "removed", fid |-> found[i], remaining |-> Len(found) - i]
               \in FingerMessages
  <2>1. found[i] \in S
    BY <1>3
  <2>2. Len(found) - i \in Nat
    BY <1>3
  <2> QED BY <1>1, <2>1, <2>2 DEF FingerMessages
<1>7. r \in [1 .. Len(found) -> FingerMessages]
  BY <1>5, <1>6
<1>8. r \in Seq(FingerMessages)
  BY <1>3, <1>7, SeqDef
<1>9. Len(r) = Len(found)
  BY <1>3, <1>7, <1>8, LenProperties
<1> QED BY <1>4, <1>8, <1>9 DEF found, S

\* The framework schedules a task, or fails to.
LEMMA ScheduleTypes ==
  ASSUME Types, NEW task \in Tasks, Schedule(task)
  PROVE  Types'
<1> USE DEF deviceVars
<1>1. queue' \in Seq(Tasks) /\ Len(queue') <= MAX_WORKER_QUEUE_SIZE
  BY SizeAssumption, AppendProperties DEF Types, Schedule
<1>2. made' \in 0 .. MaxTasks
  BY SizeAssumption DEF Types, Schedule
<1>3. asked' \subseteq Longs
  BY TaskFields DEF Types, Schedule
<1> QED BY <1>1, <1>2, <1>3 DEF Types, Schedule

LEMMA RequestTypes ==
  ASSUME Types, Request
  PROVE  Types' /\ \E task \in Tasks : Schedule(task)
<1> SUFFICES \E task \in Tasks : Schedule(task)
  BY ScheduleTypes
<1>1. /\ [op |-> "generateChallenge"] \in Tasks
      /\ [op |-> "invalidateAuthenticatorId"] \in Tasks
      /\ \A id \in Longs : [op |-> "authenticate", operationId |-> id] \in Tasks
      /\ \A c \in Longs : [op |-> "revokeChallenge", challenge |-> c] \in Tasks
      /\ \A ids \in SUBSET Ints : [op |-> "removeEnrollments", ids |-> ids] \in Tasks
      /\ \A token \in Tokens : [op |-> "enroll", hat |-> token] \in Tasks
  BY DEF Tasks
<1>2. CASE \E ids \in SUBSET known \ {{}} : Schedule([op |-> "removeEnrollments", ids |-> ids])
  BY <1>1, <1>2 DEF Types
<1>3. CASE challenge # None /\ Schedule([op |-> "revokeChallenge", challenge |-> challenge.is])
  BY <1>1, <1>3 DEF Types
<1> QED BY <1>1, <1>2, <1>3 DEF Request

\* The worker takes a task that somebody scheduled.
LEMMA TakeTypes ==
  ASSUME Types, NEW op, Take(op)
  PROVE  /\ Head(queue) \in Tasks /\ Head(queue).op = op
         /\ queue' \in Seq(Tasks) /\ Len(queue') <= MAX_WORKER_QUEUE_SIZE
         /\ UNCHANGED <<made, challenge, asked, authenticatorId, known>>
<1>1. queue \in Seq(Tasks) /\ queue # <<>> /\ queue' = Tail(queue)
  BY DEF Types, Take
<1>2. Head(queue) \in Tasks /\ Tail(queue) \in Seq(Tasks) /\ Len(Tail(queue)) = Len(queue) - 1
      /\ Len(queue) \in Nat
  BY <1>1, HeadTailProperties
<1> QED BY <1>1, <1>2, SizeAssumption DEF Types, Take, frameworkVars

LEMMA WorkerTypes ==
  ASSUME Types, Worker
  PROVE  Types' /\ \E r : Sends(r)
<1> USE DEF Types
<1>1. CASE generateChallengeImpl
  <2>1. PICK c \in Longs :
          /\ issued' = issued \cup {Unsigned(LONG_HALF, c)}
          /\ outbox' = Append(outbox, [type |-> "challengeGenerated", data |-> c])
    BY <1>1 DEF generateChallengeImpl
  <2>2. [type |-> "challengeGenerated", data |-> c] \in Messages
    BY DataMessage DEF DataTypes
  <2>3. issued' \subseteq UnsignedLongs
    BY <2>1, LongsAre
  <2>4. Sends(<<[type |-> "challengeGenerated", data |-> c]>>)
    BY <2>1, <2>2, SendsOne
  <2> QED BY <1>1, <2>3, <2>4, Sent, TakeTypes DEF generateChallengeImpl
<1>2. CASE revokeChallengeImpl
  <2> DEFINE c == Head(queue).challenge
  <2>1. c \in Longs
    BY <1>2, TakeTypes, TaskFields DEF revokeChallengeImpl
  <2> HIDE DEF c
  <2>2. [type |-> "challengeRevoked", data |-> c] \in Messages
    BY <2>1, DataMessage DEF DataTypes
  <2>3. Sends(<<[type |-> "challengeRevoked", data |-> c]>>)
    BY <1>2, <2>2, SendsOne DEF revokeChallengeImpl, c
  <2> QED BY <1>2, <2>3, Sent, TakeTypes DEF revokeChallengeImpl
<1>3. CASE enrollImpl
  <2>1. Head(queue).hat \in Tokens
    BY <1>3, TakeTypes, TaskFields DEF enrollImpl
  <2>2. presented'.of \in Tokens
    BY <1>3, <2>1 DEF enrollImpl
  <2>3. enrolling' = None \/ enrolling' \in [fid : Fids \ templates, missing : 1 .. SAMPLES]
    BY <1>3, SizeAssumption DEF enrollImpl
  <2>4. Sends(<<>>)
    BY <1>3, SendsNone DEF enrollImpl
  <2> QED BY <1>3, <2>2, <2>3, <2>4, TakeTypes DEF enrollImpl
<1>4. CASE authenticateImpl
  <2>1. Head(queue).operationId \in Longs
    BY <1>4, TakeTypes, TaskFields DEF authenticateImpl
  <2> DEFINE to == Unsigned(LONG_HALF, Head(queue).operationId)
  <2>2. authenticating' = None \/ authenticating' \in [for : UnsignedLongs]
    <3>1. to \in UnsignedLongs
      BY <2>1, LongsAre
    <3>2. authenticating' = [for |-> to] \/ authenticating' = authenticating
      BY <1>4 DEF authenticateImpl
    <3> HIDE DEF to
    <3> QED BY <3>1, <3>2
  <2>3. Sends(<<>>)
    BY <1>4, SendsNone DEF authenticateImpl
  <2> QED BY <1>4, <2>2, <2>3, TakeTypes DEF authenticateImpl
<1>5. CASE removeEnrollmentsImpl
  <2> DEFINE found == SetToSeq({Unsigned(INT_HALF, id) : id \in Head(queue).ids} \cap templates)
             r == [i \in DOMAIN found |->
                     [type |-> "removed", fid |-> found[i], remaining |-> Len(found) - i]]
  <2>1. r \in Seq(FingerMessages)
    BY FoundType
  <2>2. templates' = templates \ ToSet(found) /\ outbox' = outbox \o r
    BY <1>5 DEF removeEnrollmentsImpl
  <2> HIDE DEF r, found
  <2>3. Sends(r)
    BY <2>1, <2>2, SeqMonotonic DEF Sends, Messages
  <2>4. outbox' \in Seq(Messages)
    BY <2>3, Sent
  <2>5. UNCHANGED <<made, challenge, asked, authenticatorId, known, issued, enrolling,
                    authenticating, authId, presented, told>>
    BY <1>5, TakeTypes DEF removeEnrollmentsImpl
  <2>6. queue' \in Seq(Tasks) /\ Len(queue') <= MAX_WORKER_QUEUE_SIZE
    BY <1>5, TakeTypes DEF removeEnrollmentsImpl
  <2>7. enrolling' = None \/ enrolling' \in [fid : Fids \ templates', missing : 1 .. SAMPLES]
    BY <2>2, <2>5
  <2> QED BY <2>2, <2>3, <2>4, <2>5, <2>6, <2>7
<1>6. CASE invalidateAuthenticatorIdImpl
  <2>1. PICK id \in Longs :
          /\ authId' = [is |-> Unsigned(LONG_HALF, id)]
          /\ outbox' = Append(outbox, [type |-> "authenticatorIdInvalidated", data |-> id])
    BY <1>6 DEF invalidateAuthenticatorIdImpl
  <2>2. [type |-> "authenticatorIdInvalidated", data |-> id] \in Messages
    BY DataMessage DEF DataTypes
  <2>3. authId' \in [is : UnsignedLongs]
    BY <2>1, LongsAre
  <2>4. Sends(<<[type |-> "authenticatorIdInvalidated", data |-> id]>>)
    BY <2>1, <2>2, SendsOne
  <2> QED BY <1>6, <2>3, <2>4, Sent, TakeTypes DEF invalidateAuthenticatorIdImpl
<1>7. CASE enrollImplOverruns
  <2>1. Sends(<<>>)
    BY <1>7, SendsNone DEF enrollImplOverruns
  <2> QED BY <1>7, <2>1, TakeTypes DEF enrollImplOverruns
<1> QED BY <1>1, <1>2, <1>3, <1>4, <1>5, <1>6, <1>7 DEF Worker

\* What a scan sends.
Progress == [type |-> "enrolling", fid |-> enrolling.fid, remaining |-> enrolling.missing - 1]

LEMMA ScanTypes ==
  ASSUME Types, Scan
  PROVE  /\ Types' /\ Sends(<<Progress>>) /\ Len(<<Progress>>) = 1 /\ <<Progress>>[1] = Progress
         /\ Progress.type = "enrolling" /\ Progress.fid = enrolling.fid
         /\ Progress.fid \in Fids \ templates /\ Progress.remaining = enrolling.missing - 1
<1> USE DEF Types
<1>1. enrolling.fid \in Fids \ templates /\ enrolling.missing \in 1 .. SAMPLES
  BY DEF Scan
<1>2. Progress \in Messages
  <2>1. enrolling.missing - 1 \in Nat
    BY <1>1, SizeAssumption
  <2> QED BY <1>1, <2>1 DEF Progress, Messages, FingerMessages
<1>3. outbox' = Append(outbox, Progress)
  BY DEF Scan, Progress
<1>4. Sends(<<Progress>>) /\ Len(<<Progress>>) = 1 /\ <<Progress>>[1] = Progress
  BY <1>2, <1>3, SendsOne
<1>5. CASE enrolling.missing - 1 = 0
  BY <1>1, <1>4, <1>5, Sent DEF Scan, Progress, orderVars, frameworkVars
<1>6. CASE enrolling.missing - 1 # 0
  <2>1. enrolling' = [enrolling EXCEPT !.missing = enrolling.missing - 1]
        /\ templates' = templates
    BY <1>6 DEF Scan
  <2>2. enrolling' \in [fid : Fids \ templates, missing : 1 .. SAMPLES]
    <3>1. enrolling \in [fid : Fids \ templates, missing : 1 .. SAMPLES]
      BY DEF Scan
    <3>2. enrolling.missing - 1 \in 1 .. SAMPLES
      BY <1>1, <1>6, SizeAssumption
    <3> QED BY <2>1, <3>1, <3>2
  <2> QED BY <1>1, <1>4, <2>1, <2>2, Sent DEF Scan, Progress, orderVars, frameworkVars
<1> QED BY <1>5, <1>6

LEMMA MatchTypes ==
  ASSUME Types, Match
  PROVE  Types' /\ \E m \in Messages : /\ Sends(<<m>>) /\ Len(<<m>>) = 1 /\ <<m>>[1] = m
                                       /\ m.type = "authenticated" /\ m.fid \in templates
                                       /\ m.hat.challenge = authenticating.for
<1> USE DEF Types
<1>1. PICK fid \in templates, timestamp \in Words, mac \in Hmac :
        outbox' = Append(outbox,
          [type |-> "authenticated", fid |-> fid,
           hat |-> [challenge |-> authenticating.for, timestamp |-> timestamp, mac |-> mac]])
  BY DEF Match
<1> DEFINE hat == [challenge |-> authenticating.for, timestamp |-> timestamp, mac |-> mac]
           m == [type |-> "authenticated", fid |-> fid, hat |-> hat]
<1>2. hat \in Hats /\ hat.challenge = authenticating.for
  <2>1. authenticating.for \in UnsignedLongs
    BY DEF Match
  <2> QED BY <2>1, DataAssumption DEF Hats
<1> HIDE DEF hat
<1>3. m \in Messages /\ m.type = "authenticated" /\ m.fid = fid /\ m.hat = hat
  BY <1>2 DEF Messages, Authentications
<1>4. outbox' = Append(outbox, m)
  BY <1>1 DEF hat
<1> HIDE DEF m
<1>5. Sends(<<m>>) /\ Len(<<m>>) = 1 /\ <<m>>[1] = m
  BY <1>3, <1>4, SendsOne
<1>6. Types'
  BY <1>5, Sent DEF Match, orderVars, frameworkVars
<1> QED BY <1>2, <1>3, <1>5, <1>6

LEMMA NotifyTypes ==
  ASSUME Types, Notify
  PROVE  Types' /\ (onErrorOrAcquired \/ (outbox # <<>> /\ outbox' = Tail(outbox)))
<1> USE DEF Types, deviceVars, orderVars, frameworkVars
<1>1. CASE onErrorOrAcquired
  BY <1>1 DEF onErrorOrAcquired
<1>2. CASE ~onErrorOrAcquired
  <2>1. /\ outbox # <<>> /\ outbox' = Tail(outbox)
        /\ UNCHANGED <<queue, made, issued, templates, enrolling, authenticating, authId,
                       presented>>
    BY <1>2 DEF Notify, Answer, onEnrollmentProgress, onEnrollmentsRemoved,
            onChallengeGenerated, onChallengeRevoked, onAuthenticationSucceeded,
            onAuthenticatorIdInvalidated
  <2>2. Message \in Messages /\ outbox' \in Seq(Messages)
    BY <2>1, Got
  <2>3. CASE onEnrollmentProgress \/ onEnrollmentsRemoved
    <3>1. Message.fid \in Fids
      BY <2>2, <2>3, MessageFields DEF onEnrollmentProgress, onEnrollmentsRemoved, Answer
    <3>2. Id \in Ints
      BY <3>1, FidsAre DEF Id
    <3>3. known' \subseteq Ints
      BY <2>3, <3>2 DEF onEnrollmentProgress, onEnrollmentsRemoved
    <3> QED BY <2>1, <2>2, <2>3, <3>3 DEF onEnrollmentProgress, onEnrollmentsRemoved
  <2>4. CASE onChallengeGenerated \/ onAuthenticatorIdInvalidated \/ onChallengeRevoked
    <3>1. Message.data \in Longs
      BY <2>2, <2>4, MessageFields
         DEF onChallengeGenerated, onAuthenticatorIdInvalidated, onChallengeRevoked, Answer,
             DataTypes
    <3> QED BY <2>1, <2>2, <2>4, <3>1
            DEF onChallengeGenerated, onAuthenticatorIdInvalidated, onChallengeRevoked
  <2>5. CASE onAuthenticationSucceeded
    BY <2>1, <2>2, <2>5 DEF onAuthenticationSucceeded
  <2> QED BY <1>2, <2>1, <2>3, <2>4, <2>5 DEF Notify
<1> QED BY <1>1, <1>2

LEMMA TypesStep ==
  ASSUME Types, [Next]_vars
  PROVE  Types'
<1>1. CASE UNCHANGED vars
  BY <1>1 DEF vars, orderVars, deviceVars, frameworkVars, Types
<1> QED BY <1>1, RequestTypes, WorkerTypes, ScanTypes, MatchTypes, NotifyTypes DEF Next

-----------------------------------------------------------------------------
(* What the steps of the worker and of the device have in common: messages r *)
(* are sent, and the state of the device moves along with them.              *)

ChallengesFollow(r) ==
  /\ challenge' = challenge
  /\ \A c \in Longs :
       Unsigned(LONG_HALF, c) \in issued =>
         Unsigned(LONG_HALF, c) \in issued'
           \/ \E j \in 1 .. Len(r) : r[j].type = "challengeRevoked" /\ r[j].data = c
  /\ \A j \in 1 .. Len(r) :
       r[j].type = "challengeGenerated" => Unsigned(LONG_HALF, r[j].data) \in issued'

IdsFollow(r) ==
  /\ authenticatorId' = authenticatorId
  /\ \/ authId' = authId /\ \A j \in 1 .. Len(r) : ~Invalidation(r[j])
     \/ /\ Len(r) = 1 /\ Invalidation(r[1])
        /\ authId' = [is |-> Unsigned(LONG_HALF, r[1].data)]

FingersFollow(r) ==
  /\ known' = known
  /\ \A fid \in Fids :
       (\A j \in 1 .. Len(r) : ~About(r[j], fid)) => (fid \in templates' <=> fid \in templates)
  /\ \A j \in 1 .. Len(r) :
       Changes(r[j]) => (r[j].fid \in templates' <=> r[j].type = "enrolling")
  /\ \A j \in 1 .. Len(r) :
       r[j].type = "authenticated" => j = 1 /\ r[j].fid \in templates

OperationsFollow(r) ==
  /\ asked' = asked
  /\ queue' = queue \/ (queue # <<>> /\ queue' = Tail(queue))
  /\ authenticating' # None => IsAsked(authenticating'.for)
  /\ \A j \in 1 .. Len(r) :
       r[j].type = "authenticated" => IsAsked(r[j].hat.challenge)

LEMMA ChallengesSent ==
  ASSUME Types, ChallengesMatch, NEW r, Sends(r), ChallengesFollow(r)
  PROVE  ChallengesMatch'
<1>1. /\ outbox' \in Seq(Messages) /\ Len(outbox) \in Nat /\ Len(r) \in Nat
      /\ Len(outbox') = Len(outbox) + Len(r)
      /\ \A i \in 1 .. Len(outbox) : outbox'[i] = outbox[i]
      /\ \A i \in 1 .. Len(r) : outbox'[Len(outbox) + i] = r[i]
  BY Sent
<1>2. ASSUME NEW c \in Longs, NEW i \in 0 .. Len(outbox), RevokedBehind(c, i)
      PROVE  RevokedBehind(c, i)'
  <2>1. CASE Unsigned(LONG_HALF, c) \in issued /\ Unsigned(LONG_HALF, c) \notin issued'
    <3>1. PICK j \in 1 .. Len(r) : r[j].type = "challengeRevoked" /\ r[j].data = c
      BY <2>1 DEF ChallengesFollow
    <3>2. Len(outbox) + j \in i + 1 .. Len(outbox') /\ outbox'[Len(outbox) + j] = r[j]
      BY <1>1
    <3> QED BY <3>1, <3>2 DEF RevokedBehind
  <2>2. CASE Unsigned(LONG_HALF, c) \notin issued
    <3>1. PICK j \in i + 1 .. Len(outbox) :
            outbox[j].type = "challengeRevoked" /\ outbox[j].data = c
      BY <1>2, <2>2 DEF RevokedBehind
    <3>2. j \in i + 1 .. Len(outbox') /\ outbox'[j] = outbox[j]
      BY <1>1
    <3> QED BY <3>1, <3>2 DEF RevokedBehind
  <2> QED BY <2>1, <2>2 DEF RevokedBehind
<1>3. challenge' # None => RevokedBehind(challenge.is, 0)'
  <2>1. challenge' = challenge
    BY DEF ChallengesFollow
  <2>2. challenge # None => challenge.is \in Longs /\ RevokedBehind(challenge.is, 0)
    BY DEF ChallengesMatch, Types
  <2>3. 0 \in 0 .. Len(outbox)
    BY <1>1
  <2> QED BY <1>2, <2>1, <2>2, <2>3 DEF RevokedBehind
<1>4. ASSUME NEW i \in 1 .. Len(outbox'), outbox'[i].type = "challengeGenerated"
      PROVE  RevokedBehind(outbox[i].data, i)'
  <2>1. CASE i \in 1 .. Len(outbox)
    <3>1. outbox'[i] = outbox[i] /\ outbox[i] \in Messages /\ i \in 0 .. Len(outbox)
      BY <1>1, <2>1 DEF Types
    <3>2. outbox[i].data \in Longs
      BY <1>4, <3>1, MessageFields DEF DataTypes
    <3>3. RevokedBehind(outbox[i].data, i)
      BY <1>4, <2>1, <3>1 DEF ChallengesMatch
    <3> QED BY <1>2, <3>1, <3>2, <3>3 DEF RevokedBehind
  <2>2. CASE i \notin 1 .. Len(outbox)
    <3>1. PICK j \in 1 .. Len(r) : i = Len(outbox) + j
      BY <2>2, Sent
    <3>2. outbox'[i] = r[j]
      BY <1>1, <3>1
    <3> QED BY <1>4, <3>2 DEF ChallengesFollow, RevokedBehind
  <2> QED BY <2>1, <2>2
<1> QED BY <1>3, <1>4 DEF ChallengesMatch

LEMMA IdsSent ==
  ASSUME Types, IdsMatch, NEW r, Sends(r), IdsFollow(r)
  PROVE  IdsMatch'
<1>1. /\ outbox' \in Seq(Messages) /\ Len(outbox) \in Nat /\ Len(r) \in Nat
      /\ Len(outbox') = Len(outbox) + Len(r)
      /\ \A i \in 1 .. Len(outbox) : outbox'[i] = outbox[i]
      /\ \A i \in 1 .. Len(r) : outbox'[Len(outbox) + i] = r[i]
  BY Sent
<1>2. CASE authId' = authId /\ \A j \in 1 .. Len(r) : ~Invalidation(r[j])
  <2>1. \A i \in 1 .. Len(outbox) : i \in 1 .. Len(outbox') /\ outbox'[i] = outbox[i]
    BY <1>1
  <2>2. \A i \in 1 .. Len(outbox') : Invalidation(outbox'[i]) => i \in 1 .. Len(outbox)
    <3> SUFFICES ASSUME NEW i \in 1 .. Len(outbox'), i \notin 1 .. Len(outbox)
                 PROVE  ~Invalidation(outbox'[i])
      OBVIOUS
    <3>1. PICK j \in 1 .. Len(r) : i = Len(outbox) + j
      BY Sent
    <3> QED BY <1>1, <1>2, <3>1
  <2>3. ASSUME NEW i \in 1 .. Len(outbox'), Invalidation(outbox'[i]),
               \A j \in i + 1 .. Len(outbox') : ~Invalidation(outbox'[j])
        PROVE  authId' = [is |-> Unsigned(LONG_HALF, outbox'[i].data)]
    <3>1. i \in 1 .. Len(outbox) /\ Invalidation(outbox[i]) /\ outbox'[i] = outbox[i]
      BY <1>1, <2>1, <2>2, <2>3
    <3>2. \A j \in i + 1 .. Len(outbox) :
            j \in 1 .. Len(outbox) /\ j \in i + 1 .. Len(outbox') /\ ~Invalidation(outbox[j])
      BY <1>1, <2>1, <2>3
    <3> QED BY <1>2, <3>1, <3>2 DEF IdsMatch
  <2>4. ASSUME authenticatorId' # None, \A i \in 1 .. Len(outbox') : ~Invalidation(outbox'[i])
        PROVE  authId' = [is |-> Unsigned(LONG_HALF, authenticatorId'.is)]
    <3>1. \A i \in 1 .. Len(outbox) : ~Invalidation(outbox[i])
      BY <2>1, <2>4
    <3> QED BY <1>2, <2>4, <3>1 DEF IdsMatch, IdsFollow
  <2> QED BY <2>3, <2>4 DEF IdsMatch
<1>3. CASE /\ Len(r) = 1 /\ Invalidation(r[1])
           /\ authId' = [is |-> Unsigned(LONG_HALF, r[1].data)]
  <2>1. Len(outbox') = Len(outbox) + 1 /\ outbox'[Len(outbox) + 1] = r[1]
    BY <1>1, <1>3
  <2>2. Len(outbox') \in 1 .. Len(outbox') /\ Invalidation(outbox'[Len(outbox')])
    BY <1>1, <1>3, <2>1 DEF Invalidation
  <2>3. ASSUME NEW i \in 1 .. Len(outbox'), \A j \in i + 1 .. Len(outbox') : ~Invalidation(outbox'[j])
        PROVE  i = Len(outbox')
    <3>1. Len(outbox') \notin i + 1 .. Len(outbox')
      BY <2>2, <2>3
    <3> QED BY <1>1, <3>1
  <2>4. ~(\A i \in 1 .. Len(outbox') : ~Invalidation(outbox'[i]))
    BY <2>2
  <2> QED BY <1>3, <2>1, <2>3, <2>4 DEF IdsMatch
<1> QED BY <1>2, <1>3 DEF IdsFollow

LEMMA FingersSent ==
  ASSUME Types, FingersMatch, NEW r, Sends(r), FingersFollow(r)
  PROVE  FingersMatch'
<1>1. /\ outbox' \in Seq(Messages) /\ Len(outbox) \in Nat /\ Len(r) \in Nat
      /\ Len(outbox') = Len(outbox) + Len(r)
      /\ \A i \in 1 .. Len(outbox) : outbox'[i] = outbox[i]
      /\ \A i \in 1 .. Len(r) : outbox'[Len(outbox) + i] = r[i]
  BY Sent
<1>2. ASSUME NEW fid, NEW i \in Nat \ {0}, NEW j \in 0 .. Len(outbox)
      PROVE  Silent(fid, i, j)' <=> Silent(fid, i, j)
  <2>1. \A k \in i .. j : outbox'[k] = outbox[k]
    BY <1>1
  <2> QED BY <2>1 DEF Silent
<1>3. ASSUME NEW fid, NEW i \in 1 .. Len(outbox) + 1, Silent(fid, i, Len(outbox))'
      PROVE  Silent(fid, i, Len(outbox)) /\ \A j \in 1 .. Len(r) : ~About(r[j], fid)
  <2>1. \A k \in i .. Len(outbox') : ~About(outbox'[k], fid)
    BY <1>3 DEF Silent
  <2>2. \A j \in 1 .. Len(r) : Len(outbox) + j \in i .. Len(outbox')
    BY <1>1
  <2>3. \A k \in i .. Len(outbox) : k \in i .. Len(outbox') /\ outbox'[k] = outbox[k]
    BY <1>1
  <2> QED BY <1>1, <2>1, <2>2, <2>3 DEF Silent
<1>4. ASSUME NEW fid \in Fids, Silent(fid, 1, Len(outbox))'
      PROVE  fid \in templates' <=> Knows(fid)'
  <2>1. Silent(fid, 1, Len(outbox)) /\ \A j \in 1 .. Len(r) : ~About(r[j], fid)
    BY <1>1, <1>3, <1>4
  <2> QED BY <2>1 DEF FingersMatch, FingersFollow, Knows
<1>5. ASSUME NEW fid \in Fids, NEW i \in 1 .. Len(outbox'),
             outbox'[i].fid = fid, Changes(outbox'[i]), Silent(fid, i + 1, Len(outbox))'
      PROVE  fid \in templates' <=> outbox'[i].type = "enrolling"
  <2>1. CASE i \in 1 .. Len(outbox)
    <3>1. i + 1 \in 1 .. Len(outbox) + 1 /\ outbox'[i] = outbox[i]
      BY <1>1, <2>1
    <3>2. Silent(fid, i + 1, Len(outbox)) /\ \A j \in 1 .. Len(r) : ~About(r[j], fid)
      BY <1>3, <1>5, <3>1
    <3> QED BY <1>5, <2>1, <3>1, <3>2 DEF FingersMatch, FingersFollow
  <2>2. CASE i \notin 1 .. Len(outbox)
    <3>1. PICK j \in 1 .. Len(r) : i = Len(outbox) + j
      BY <2>2, Sent
    <3> QED BY <1>1, <1>5, <3>1 DEF FingersFollow
  <2> QED BY <2>1, <2>2
<1>6. ASSUME NEW fid \in Fids, NEW i \in 1 .. Len(outbox'),
             outbox'[i].fid = fid, outbox'[i].type = "authenticated"
      PROVE  KnowsAfter(fid, i - 1)'
  <2>1. /\ i - 1 \in 0 .. Len(outbox) /\ KnowsAfter(fid, i - 1)
    <3>1. CASE i \in 1 .. Len(outbox)
      BY <1>1, <1>6, <3>1 DEF FingersMatch
    <3>2. CASE i \notin 1 .. Len(outbox)
      <4>1. PICK j \in 1 .. Len(r) : i = Len(outbox) + j
        BY <3>2, Sent
      <4>2. r[j].fid = fid /\ j = 1 /\ fid \in templates
        BY <1>1, <1>6, <4>1 DEF FingersFollow
      <4>3. i - 1 = Len(outbox)
        BY <1>1, <4>1, <4>2
      <4>4. Silent(fid, 1, Len(outbox)) => Knows(fid)
        BY <4>2 DEF FingersMatch
      <4>5. ASSUME NEW k \in 1 .. Len(outbox), About(outbox[k], fid),
                   Silent(fid, k + 1, Len(outbox))
            PROVE  outbox[k].type = "enrolling"
        BY <4>2, <4>5 DEF FingersMatch, About
      <4> QED BY <1>1, <4>3, <4>4, <4>5 DEF KnowsAfter
    <3> QED BY <3>1, <3>2
  <2>2. Silent(fid, 1, i - 1)' => Knows(fid)'
    BY <1>2, <2>1 DEF KnowsAfter, FingersFollow, Knows
  <2>3. ASSUME NEW k \in 1 .. i - 1, About(outbox'[k], fid), Silent(fid, k + 1, i - 1)'
        PROVE  outbox'[k].type = "enrolling"
    <3>1. outbox'[k] = outbox[k] /\ k + 1 \in Nat \ {0}
      BY <1>1, <2>1
    <3>2. Silent(fid, k + 1, i - 1)
      BY <1>2, <2>1, <2>3, <3>1
    <3> QED BY <2>1, <2>3, <3>1, <3>2 DEF KnowsAfter
  <2> QED BY <2>2, <2>3 DEF KnowsAfter
<1>7. known' \subseteq {Signed(INT_HALF, fid) : fid \in Fids}
  BY DEF FingersMatch, FingersFollow
<1>8. \A i \in 1 .. Len(outbox') :
        Changes(outbox'[i]) \/ outbox'[i].type = "authenticated" => outbox'[i].fid \in Fids
  BY <1>1, MessageFields DEF Changes
<1>9. \A i \in 1 .. Len(outbox') :
        Changes(outbox'[i]) /\ (\A k \in i + 1 .. Len(outbox') : ~About(outbox'[k], outbox'[i].fid))
          => (outbox'[i].fid \in templates' <=> outbox'[i].type = "enrolling")
  BY <1>5, <1>8 DEF Silent
<1>10. \A i \in 1 .. Len(outbox') :
         outbox'[i].type = "authenticated" =>
           \A fid \in Fids : fid = outbox'[i].fid => KnowsAfter(fid, i - 1)'
  BY <1>6
<1> QED BY <1>4, <1>7, <1>8, <1>9, <1>10 DEF FingersMatch, KnowsAfter, Silent, Knows

LEMMA OperationsSent ==
  ASSUME Types, OperationsMatch, NEW r, Sends(r), OperationsFollow(r)
  PROVE  OperationsMatch'
<1>1. /\ outbox' \in Seq(Messages) /\ Len(outbox) \in Nat /\ Len(r) \in Nat
      /\ \A i \in 1 .. Len(outbox) : outbox'[i] = outbox[i]
      /\ \A i \in 1 .. Len(r) : outbox'[Len(outbox) + i] = r[i]
  BY Sent
<1>2. \A i \in 1 .. Len(queue') :
        queue'[i].op = "authenticate" => queue'[i].operationId \in asked'
  <2>1. CASE queue' = queue
    BY <2>1 DEF OperationsMatch, OperationsFollow
  <2>2. CASE queue # <<>> /\ queue' = Tail(queue)
    <3>1. queue \in Seq(Tasks)
      BY DEF Types
    <3>2. \A i \in 1 .. Len(queue') : i + 1 \in 1 .. Len(queue) /\ queue'[i] = queue[i + 1]
      BY <2>2, <3>1, HeadTailProperties
    <3> QED BY <3>2 DEF OperationsMatch, OperationsFollow
  <2> QED BY <2>1, <2>2 DEF OperationsFollow
<1>3. ASSUME NEW i \in 1 .. Len(outbox'), outbox'[i].type = "authenticated"
      PROVE  Signed(LONG_HALF, outbox'[i].hat.challenge) \in asked'
  <2>1. CASE i \in 1 .. Len(outbox)
    BY <1>1, <1>3, <2>1 DEF OperationsMatch, OperationsFollow, IsAsked
  <2>2. CASE i \notin 1 .. Len(outbox)
    <3>1. PICK j \in 1 .. Len(r) : i = Len(outbox) + j
      BY <2>2, Sent
    <3> QED BY <1>1, <1>3, <3>1 DEF OperationsFollow, IsAsked
  <2> QED BY <2>1, <2>2
<1>4. authenticating' # None => Signed(LONG_HALF, authenticating'.for) \in asked'
  BY DEF OperationsFollow, IsAsked
<1> QED BY <1>2, <1>3, <1>4 DEF OperationsMatch, IsAsked

-----------------------------------------------------------------------------
(* Each step of the worker and of the device is of that kind.                *)

Follow(r) ==
  /\ Sends(r)
  /\ ChallengesFollow(r) /\ IdsFollow(r) /\ FingersFollow(r) /\ OperationsFollow(r)

\* The parts of the invariant that the messages on their way are about.
Matching == ChallengesMatch /\ IdsMatch /\ FingersMatch /\ OperationsMatch

LEMMA FollowingKeepsMatching ==
  ASSUME Types, Matching, NEW r, Follow(r)
  PROVE  Matching'
BY ChallengesSent, IdsSent, FingersSent, OperationsSent DEF Matching, Follow

\* A message that changes nothing the device or the framework knows of fingers.
LEMMA SilentMessages ==
  ASSUME NEW m, m.type \in DataTypes
  PROVE  /\ ~Changes(m) /\ m.type # "authenticated"
         /\ \A fid : ~About(m, fid)
BY DEF DataTypes, Changes, About

\* What no task of the worker touches on its own.
LEMMA TakeFollows ==
  ASSUME Types, Matching, NEW op, Take(op)
  PROVE  /\ UNCHANGED <<challenge, authenticatorId, known, asked>>
         /\ queue' = queue \/ (queue # <<>> /\ queue' = Tail(queue))
         /\ authenticating # None => IsAsked(authenticating.for)
BY DEF Take, frameworkVars, Matching, OperationsMatch

LEMMA generateChallengeFollows ==
  ASSUME Types, Matching, generateChallengeImpl
  PROVE  \E r : Follow(r)
<1>1. PICK c \in Longs :
        /\ issued' = issued \cup {Unsigned(LONG_HALF, c)}
        /\ outbox' = Append(outbox, [type |-> "challengeGenerated", data |-> c])
  BY DEF generateChallengeImpl
<1> DEFINE m == [type |-> "challengeGenerated", data |-> c]
<1>2. m \in Messages /\ m.type = "challengeGenerated" /\ m.data = c
  BY DataMessage DEF DataTypes
<1>3. outbox' = Append(outbox, m)
  BY <1>1
<1> HIDE DEF m
<1>4. Sends(<<m>>) /\ Len(<<m>>) = 1 /\ <<m>>[1] = m
  BY <1>2, <1>3, SendsOne
<1> DEFINE r == <<m>>
<1>5. Len(r) = 1 /\ \A j \in 1 .. Len(r) : j = 1 /\ r[j] = m
  BY <1>4
<1> HIDE DEF r
<1>6. /\ UNCHANGED <<challenge, authenticatorId, known, asked, templates, authenticating, authId>>
      /\ queue' = queue \/ (queue # <<>> /\ queue' = Tail(queue))
      /\ authenticating # None => IsAsked(authenticating.for)
  BY TakeFollows DEF generateChallengeImpl
<1>7. ChallengesFollow(r)
  BY <1>1, <1>2, <1>5, <1>6 DEF ChallengesFollow
<1>8. IdsFollow(r)
  BY <1>2, <1>5, <1>6 DEF IdsFollow, Invalidation
<1>9. FingersFollow(r)
  BY <1>2, <1>5, <1>6, SilentMessages DEF FingersFollow, DataTypes
<1>10. OperationsFollow(r)
  BY <1>2, <1>5, <1>6 DEF OperationsFollow
<1>11. Sends(r)
  BY <1>4 DEF r
<1> QED BY <1>7, <1>8, <1>9, <1>10, <1>11 DEF Follow

LEMMA revokeChallengeFollows ==
  ASSUME Types, Matching, revokeChallengeImpl
  PROVE  \E r : Follow(r)
<1> DEFINE c == Head(queue).challenge
           m == [type |-> "challengeRevoked", data |-> c]
<1>1. c \in Longs
  BY TakeTypes, TaskFields DEF revokeChallengeImpl
<1>2. /\ issued' = issued \ {Unsigned(LONG_HALF, c)}
      /\ outbox' = Append(outbox, m)
  BY DEF revokeChallengeImpl
<1> HIDE DEF c
<1>3. m \in Messages /\ m.type = "challengeRevoked" /\ m.data = c
  BY <1>1, DataMessage DEF DataTypes
<1> HIDE DEF m
<1>4. Sends(<<m>>) /\ Len(<<m>>) = 1 /\ <<m>>[1] = m
  BY <1>2, <1>3, SendsOne
<1> DEFINE r == <<m>>
<1>5. Len(r) = 1 /\ 1 \in 1 .. Len(r) /\ r[1] = m /\ \A j \in 1 .. Len(r) : j = 1 /\ r[j] = m
  BY <1>4
<1> HIDE DEF r
<1>6. /\ UNCHANGED <<challenge, authenticatorId, known, asked, templates, authenticating, authId>>
      /\ queue' = queue \/ (queue # <<>> /\ queue' = Tail(queue))
      /\ authenticating # None => IsAsked(authenticating.for)
  BY TakeFollows DEF revokeChallengeImpl
<1>7. ChallengesFollow(r)
  <2>1. ASSUME NEW d \in Longs, Unsigned(LONG_HALF, d) \in issued,
               Unsigned(LONG_HALF, d) \notin issued'
        PROVE  \E j \in 1 .. Len(r) : r[j].type = "challengeRevoked" /\ r[j].data = d
    <3>1. Unsigned(LONG_HALF, d) = Unsigned(LONG_HALF, c)
      BY <1>2, <2>1
    <3>2. d = c
      BY <1>1, <3>1, LongsAre
    <3> QED BY <1>3, <1>5, <3>2
  <2> QED BY <1>3, <1>5, <1>6, <2>1 DEF ChallengesFollow
<1>8. IdsFollow(r)
  BY <1>3, <1>5, <1>6 DEF IdsFollow, Invalidation
<1>9. FingersFollow(r)
  BY <1>3, <1>5, <1>6, SilentMessages DEF FingersFollow, DataTypes
<1>10. OperationsFollow(r)
  BY <1>3, <1>5, <1>6 DEF OperationsFollow
<1>11. Sends(r)
  BY <1>4 DEF r
<1> QED BY <1>7, <1>8, <1>9, <1>10, <1>11 DEF Follow

LEMMA invalidateAuthenticatorIdFollows ==
  ASSUME Types, Matching, invalidateAuthenticatorIdImpl
  PROVE  \E r : Follow(r)
<1>1. PICK id \in Longs :
        /\ authId' = [is |-> Unsigned(LONG_HALF, id)]
        /\ outbox' = Append(outbox, [type |-> "authenticatorIdInvalidated", data |-> id])
  BY DEF invalidateAuthenticatorIdImpl
<1> DEFINE m == [type |-> "authenticatorIdInvalidated", data |-> id]
<1>2. m \in Messages /\ m.type = "authenticatorIdInvalidated" /\ m.data = id
  BY DataMessage DEF DataTypes
<1>3. outbox' = Append(outbox, m)
  BY <1>1
<1> HIDE DEF m
<1>4. Sends(<<m>>) /\ Len(<<m>>) = 1 /\ <<m>>[1] = m
  BY <1>2, <1>3, SendsOne
<1> DEFINE r == <<m>>
<1>5. Len(r) = 1 /\ r[1] = m /\ \A j \in 1 .. Len(r) : j = 1 /\ r[j] = m
  BY <1>4
<1> HIDE DEF r
<1>6. /\ UNCHANGED <<challenge, authenticatorId, known, asked, templates, authenticating, issued>>
      /\ queue' = queue \/ (queue # <<>> /\ queue' = Tail(queue))
      /\ authenticating # None => IsAsked(authenticating.for)
  BY TakeFollows DEF invalidateAuthenticatorIdImpl
<1>7. ChallengesFollow(r)
  BY <1>2, <1>5, <1>6 DEF ChallengesFollow
<1>8. IdsFollow(r)
  BY <1>1, <1>2, <1>5, <1>6 DEF IdsFollow, Invalidation
<1>9. FingersFollow(r)
  BY <1>2, <1>5, <1>6, SilentMessages DEF FingersFollow, DataTypes
<1>10. OperationsFollow(r)
  BY <1>2, <1>5, <1>6 DEF OperationsFollow
<1>11. Sends(r)
  BY <1>4 DEF r
<1> QED BY <1>7, <1>8, <1>9, <1>10, <1>11 DEF Follow

\* The device is given an order and sends nothing; it may start to enrol or to look for a
\* finger.
LEMMA OrderFollows ==
  ASSUME Types, Matching, enrollImpl \/ enrollImplOverruns \/ authenticateImpl
  PROVE  \E r : Follow(r)
<1> DEFINE r == <<>>
<1>1. outbox' = outbox
  BY DEF enrollImpl, enrollImplOverruns, authenticateImpl
<1>2. Sends(r) /\ Len(r) = 0
  BY <1>1, SendsNone
<1>3. \A j \in 1 .. Len(r) : FALSE
  BY <1>2
<1> HIDE DEF r
<1>4. /\ UNCHANGED <<challenge, authenticatorId, known, asked, templates, issued, authId>>
      /\ queue' = queue \/ (queue # <<>> /\ queue' = Tail(queue))
      /\ authenticating # None => IsAsked(authenticating.for)
  BY TakeFollows DEF enrollImpl, enrollImplOverruns, authenticateImpl
<1>5. authenticating' # None => IsAsked(authenticating'.for)
  <2> DEFINE id == Head(queue).operationId
             to == Unsigned(LONG_HALF, id)
  <2>1. CASE authenticateImpl /\ authenticating' = [for |-> to]
    <3>1. queue \in Seq(Tasks) /\ queue # <<>> /\ Head(queue).op = "authenticate"
      BY <2>1 DEF Types, authenticateImpl, Take
    <3>2. Len(queue) \in Nat \ {0} /\ Head(queue) = queue[1]
      BY <3>1, HeadTailProperties, EmptySeq
    <3>3. id \in asked /\ id \in Longs
      <4>1. 1 \in 1 .. Len(queue)
        BY <3>2
      <4> QED BY <3>1, <3>2, <4>1 DEF Matching, OperationsMatch, Types
    <3>4. Signed(LONG_HALF, to) = id
      BY <3>3, LongsAre
    <3> HIDE DEF to, id
    <3> QED BY <2>1, <3>3, <3>4 DEF IsAsked
  <2>2. CASE authenticating' = authenticating
    BY <1>4, <2>2
  <2>3. enrollImpl \/ enrollImplOverruns => authenticating' = authenticating
    BY DEF enrollImpl, enrollImplOverruns
  <2>4. authenticateImpl => authenticating' = [for |-> to] \/ authenticating' = authenticating
    BY DEF authenticateImpl
  <2> QED BY <2>1, <2>2, <2>3, <2>4
<1>6. ChallengesFollow(r)
  BY <1>3, <1>4 DEF ChallengesFollow
<1>7. IdsFollow(r)
  BY <1>3, <1>4 DEF IdsFollow
<1>8. FingersFollow(r)
  BY <1>3, <1>4 DEF FingersFollow
<1>9. OperationsFollow(r)
  BY <1>3, <1>4, <1>5 DEF OperationsFollow
<1> QED BY <1>2, <1>6, <1>7, <1>8, <1>9 DEF Follow

LEMMA removeEnrollmentsFollows ==
  ASSUME Types, Matching, removeEnrollmentsImpl
  PROVE  \E r : Follow(r)
<1> DEFINE found == SetToSeq({Unsigned(INT_HALF, id) : id \in Head(queue).ids} \cap templates)
           r == [i \in DOMAIN found |->
                   [type |-> "removed", fid |-> found[i], remaining |-> Len(found) - i]]
<1>1. found \in Seq(Fids) /\ r \in Seq(FingerMessages) /\ Len(r) = Len(found)
  BY FoundType
<1>2. templates' = templates \ ToSet(found) /\ outbox' = outbox \o r
  BY DEF removeEnrollmentsImpl
<1>3. Sends(r)
  <2>1. r \in Seq(Messages)
    <3>1. FingerMessages \subseteq Messages
      BY DEF Messages
    <3> HIDE DEF r
    <3> QED BY <1>1, <3>1, SeqMonotonic
  <2> QED BY <1>2, <2>1 DEF Sends
<1>4. \A j \in 1 .. Len(r) : /\ r[j].type = "removed" /\ r[j].fid = found[j]
                             /\ found[j] \in ToSet(found)
  <2> HIDE DEF found
  <2>1. DOMAIN found = 1 .. Len(r)
    BY <1>1
  <2> QED BY <2>1 DEF ToSet
<1>5. \A fid \in ToSet(found) : \E j \in 1 .. Len(r) : r[j].fid = fid
  <2> HIDE DEF found
  <2>1. DOMAIN found = 1 .. Len(r)
    BY <1>1
  <2> QED BY <1>4, <2>1 DEF ToSet
<1> HIDE DEF r, found
<1>6. /\ UNCHANGED <<challenge, authenticatorId, known, asked, authenticating, issued, authId>>
      /\ queue' = queue \/ (queue # <<>> /\ queue' = Tail(queue))
      /\ authenticating # None => IsAsked(authenticating.for)
  BY TakeFollows DEF removeEnrollmentsImpl
<1>7. ChallengesFollow(r)
  BY <1>4, <1>6 DEF ChallengesFollow
<1>8. IdsFollow(r)
  BY <1>4, <1>6 DEF IdsFollow, Invalidation
<1>9. FingersFollow(r)
  <2>1. ASSUME NEW fid \in Fids, \A j \in 1 .. Len(r) : ~About(r[j], fid)
        PROVE  fid \in templates' <=> fid \in templates
    BY <1>2, <1>4, <1>5, <2>1 DEF About, Changes
  <2> QED BY <1>2, <1>4, <1>6, <2>1 DEF FingersFollow
<1>10. OperationsFollow(r)
  BY <1>4, <1>6 DEF OperationsFollow
<1> QED BY <1>3, <1>7, <1>8, <1>9, <1>10 DEF Follow

\* The last scan of an enrolment makes the template, and its message says so.
LEMMA ScanFollows ==
  ASSUME Types, Matching, Scan
  PROVE  \E r : Follow(r)
<1> DEFINE r == <<Progress>>
<1>1. /\ Sends(r) /\ Len(r) = 1 /\ r[1] = Progress
      /\ Progress.type = "enrolling" /\ Progress.fid = enrolling.fid
      /\ Progress.fid \in Fids \ templates /\ Progress.remaining = enrolling.missing - 1
  BY ScanTypes
<1> HIDE DEF r
<1>2. 1 \in 1 .. Len(r) /\ \A j \in 1 .. Len(r) : j = 1 /\ r[j] = Progress
  BY <1>1
<1>3. UNCHANGED <<challenge, authenticatorId, known, asked, authenticating, issued, authId,
                  queue>>
  BY DEF Scan, orderVars, frameworkVars
<1>4. ChallengesFollow(r)
  BY <1>1, <1>2, <1>3 DEF ChallengesFollow
<1>5. IdsFollow(r)
  BY <1>1, <1>2, <1>3 DEF IdsFollow, Invalidation
<1>6. FingersFollow(r)
  <2>1. CASE Progress.remaining = 0
    <3>1. templates' = templates \cup {Progress.fid}
      BY <1>1, <2>1 DEF Scan
    <3>2. \A fid : About(Progress, fid) <=> Progress.fid = fid
      BY <1>1, <2>1 DEF About, Changes
    <3>3. \A fid \in Fids :
            (\A j \in 1 .. Len(r) : ~About(r[j], fid)) => (fid \in templates' <=> fid \in templates)
      BY <1>2, <3>1, <3>2
    <3> QED BY <1>1, <1>2, <1>3, <3>1, <3>3 DEF FingersFollow
  <2>2. CASE Progress.remaining # 0
    <3>1. templates' = templates
      BY <1>1, <2>2 DEF Scan
    <3> QED BY <1>1, <1>2, <1>3, <2>2, <3>1 DEF FingersFollow, Changes
  <2> QED BY <2>1, <2>2
<1>7. OperationsFollow(r)
  BY <1>1, <1>2, <1>3 DEF OperationsFollow, Matching, OperationsMatch
<1> QED BY <1>1, <1>4, <1>5, <1>6, <1>7 DEF Follow

LEMMA MatchFollows ==
  ASSUME Types, Matching, Match
  PROVE  \E r : Follow(r)
<1>1. PICK m \in Messages : /\ Sends(<<m>>) /\ Len(<<m>>) = 1 /\ <<m>>[1] = m
                            /\ m.type = "authenticated" /\ m.fid \in templates
                            /\ m.hat.challenge = authenticating.for
  BY MatchTypes
<1> DEFINE r == <<m>>
<1>2. Sends(r) /\ \A j \in 1 .. Len(r) : j = 1 /\ r[j] = m
  BY <1>1
<1> HIDE DEF r
<1>3. /\ UNCHANGED <<challenge, authenticatorId, known, asked, templates, issued, authId, queue>>
      /\ authenticating # None /\ authenticating' = None
  BY DEF Match, orderVars, frameworkVars
<1>4. ChallengesFollow(r)
  BY <1>1, <1>2, <1>3 DEF ChallengesFollow
<1>5. IdsFollow(r)
  BY <1>1, <1>2, <1>3 DEF IdsFollow, Invalidation
<1>6. FingersFollow(r)
  BY <1>1, <1>2, <1>3 DEF FingersFollow, Changes
<1>7. OperationsFollow(r)
  BY <1>1, <1>2, <1>3 DEF OperationsFollow, Matching, OperationsMatch
<1> QED BY <1>2, <1>4, <1>5, <1>6, <1>7 DEF Follow

LEMMA WorkerFollows ==
  ASSUME Types, Matching, Worker
  PROVE  \E r : Follow(r)
BY generateChallengeFollows, revokeChallengeFollows, invalidateAuthenticatorIdFollows,
   OrderFollows, removeEnrollmentsFollows DEF Worker

\* The framework remembers that it asked for a finger before the task gets into the queue.
LEMMA RequestKeepsMatching ==
  ASSUME Types, Matching, Request
  PROVE  Matching'
<1>1. PICK task \in Tasks : Schedule(task)
  BY RequestTypes
<1>2. UNCHANGED <<outbox, issued, templates, authenticating, authId, challenge,
                  authenticatorId, known>> /\ asked \subseteq asked'
  BY <1>1 DEF Schedule, deviceVars
<1>3. ChallengesMatch' /\ IdsMatch' /\ FingersMatch'
  BY <1>2 DEF Matching, ChallengesMatch, RevokedBehind, IdsMatch, Invalidation, FingersMatch,
     Silent, Changes, About, Knows, KnowsAfter
<1>4. \A i \in 1 .. Len(queue') :
        queue'[i].op = "authenticate" => queue'[i].operationId \in asked'
  <2>1. queue \in Seq(Tasks)
    BY DEF Types
  <2>2. CASE queue' = Append(queue, task)
    <3>1. /\ Len(queue') = Len(queue) + 1 /\ Len(queue) \in Nat
          /\ \A i \in 1 .. Len(queue) : queue'[i] = queue[i]
          /\ queue'[Len(queue) + 1] = task
      BY <2>1, <2>2, AppendProperties, LenProperties
    <3>2. task.op = "authenticate" => task.operationId \in asked'
      BY <1>1 DEF Schedule
    <3>3. \A i \in 1 .. Len(queue') : i \in 1 .. Len(queue) \/ i = Len(queue) + 1
      BY <3>1
    <3> QED BY <1>2, <3>1, <3>2, <3>3 DEF Matching, OperationsMatch
  <2>3. CASE queue' = queue
    BY <1>2, <2>3 DEF Matching, OperationsMatch
  <2> QED BY <1>1, <2>2, <2>3 DEF Schedule
<1>5. OperationsMatch'
  BY <1>2, <1>4 DEF Matching, OperationsMatch, IsAsked
<1> QED BY <1>3, <1>5 DEF Matching

-----------------------------------------------------------------------------
(* What the steps of Session::notify have in common: the framework learns    *)
(* from the first message.                                                   *)

LearnsChallenge ==
  \/ /\ Message.type = "challengeGenerated"
     /\ challenge' = [is |-> Message.data]
  \/ /\ Message.type = "challengeRevoked"
     /\ challenge' = IF challenge = [is |-> Message.data] THEN None ELSE challenge
  \/ /\ Message.type \notin {"challengeGenerated", "challengeRevoked"}
     /\ challenge' = challenge

LearnsId ==
  \/ Invalidation(Message) /\ authenticatorId' = [is |-> Message.data]
  \/ ~Invalidation(Message) /\ authenticatorId' = authenticatorId

LearnsFingers ==
  \/ ~Changes(Message) /\ known' = known
  \/ /\ Changes(Message) /\ Message.type = "enrolling"
     /\ known' = known \cup {Signed(INT_HALF, Message.fid)}
  \/ /\ Changes(Message) /\ Message.type = "removed"
     /\ known' = known \ {Signed(INT_HALF, Message.fid)}

Learns ==
  /\ outbox # <<>> /\ outbox' = Tail(outbox)
  /\ UNCHANGED <<queue, issued, templates, authenticating, authId, asked>>
  /\ LearnsChallenge /\ LearnsId /\ LearnsFingers

LEMMA NotifyLearns ==
  ASSUME Types, Notify, ~onErrorOrAcquired
  PROVE  Learns
<1> USE DEF Answer, orderVars, deviceVars, frameworkVars, Id, Changes, Invalidation,
            LearnsChallenge, LearnsId, LearnsFingers
<1>1. CASE onEnrollmentProgress
  BY <1>1 DEF onEnrollmentProgress, Learns
<1>2. CASE onEnrollmentsRemoved
  BY <1>2 DEF onEnrollmentsRemoved, Learns
<1>3. CASE onChallengeGenerated
  BY <1>3 DEF onChallengeGenerated, Learns
<1>4. CASE onChallengeRevoked
  BY <1>4 DEF onChallengeRevoked, Learns
<1>5. CASE onAuthenticationSucceeded
  BY <1>5 DEF onAuthenticationSucceeded, Learns
<1>6. CASE onAuthenticatorIdInvalidated
  BY <1>6 DEF onAuthenticatorIdInvalidated, Learns
<1> QED BY <1>1, <1>2, <1>3, <1>4, <1>5, <1>6 DEF Notify

LEMMA ChallengesGot ==
  ASSUME Types, ChallengesMatch, Learns
  PROVE  ChallengesMatch'
<1>1. /\ Message = outbox[1] /\ Message \in Messages
      /\ Len(outbox) \in Nat \ {0} /\ Len(outbox') = Len(outbox) - 1
      /\ outbox' \in Seq(Messages)
      /\ \A i \in 1 .. Len(outbox') : i + 1 \in 1 .. Len(outbox) /\ outbox'[i] = outbox[i + 1]
  BY Got DEF Learns
<1>2. ASSUME NEW c \in Longs, NEW i \in 0 .. Len(outbox'), RevokedBehind(c, i + 1)
      PROVE  RevokedBehind(c, i)'
  <2>1. CASE Unsigned(LONG_HALF, c) \in issued
    BY <2>1 DEF RevokedBehind, Learns
  <2>2. CASE Unsigned(LONG_HALF, c) \notin issued
    <3>1. PICK j \in i + 1 + 1 .. Len(outbox) :
            outbox[j].type = "challengeRevoked" /\ outbox[j].data = c
      BY <1>2, <2>2 DEF RevokedBehind
    <3>2. j - 1 \in i + 1 .. Len(outbox') /\ j - 1 \in 1 .. Len(outbox') /\ (j - 1) + 1 = j
      BY <1>1, <3>1
    <3>3. outbox'[j - 1] = outbox[j]
      BY <1>1, <3>2
    <3> QED BY <3>1, <3>2, <3>3 DEF RevokedBehind
  <2> QED BY <2>1, <2>2
<1>3. ASSUME NEW c \in Longs, RevokedBehind(c, 1)
      PROVE  RevokedBehind(c, 0)'
  BY <1>1, <1>2, <1>3
<1>4. ASSUME NEW c \in Longs, challenge' = [is |-> c]
      PROVE  RevokedBehind(c, 0)'
  <2>1. CASE Message.type = "challengeGenerated"
    <3>1. c = Message.data
      BY <1>4, <2>1 DEF Learns, LearnsChallenge
    <3>2. RevokedBehind(c, 1)
      BY <1>1, <2>1, <3>1 DEF ChallengesMatch
    <3> QED BY <1>3, <3>2
  <2>2. CASE Message.type # "challengeGenerated"
    <3>1. challenge = [is |-> c]
      BY <1>4, <2>2 DEF Learns, LearnsChallenge, None
    <3>2. challenge # None /\ challenge.is = c
      BY <3>1 DEF None
    <3>3. RevokedBehind(c, 0)
      BY <3>2 DEF ChallengesMatch
    <3>4. ~(outbox[1].type = "challengeRevoked" /\ outbox[1].data = c)
      BY <1>1, <1>4, <3>1 DEF Learns, LearnsChallenge, None
    <3>5. RevokedBehind(c, 1)
      <4>1. CASE Unsigned(LONG_HALF, c) \in issued
        BY <4>1 DEF RevokedBehind
      <4>2. CASE Unsigned(LONG_HALF, c) \notin issued
        <5>1. PICK j \in 1 .. Len(outbox) :
                outbox[j].type = "challengeRevoked" /\ outbox[j].data = c
          BY <3>3, <4>2 DEF RevokedBehind
        <5>2. j \in 1 + 1 .. Len(outbox)
          BY <1>1, <3>4, <5>1
        <5> QED BY <5>1, <5>2 DEF RevokedBehind
      <4> QED BY <4>1, <4>2
    <3> QED BY <1>3, <3>5
  <2> QED BY <2>1, <2>2
<1>5. challenge' = None \/ \E c \in Longs : challenge' = [is |-> c]
  <2>1. challenge = None \/ \E c \in Longs : challenge = [is |-> c]
    BY DEF Types
  <2>2. Message.type = "challengeGenerated" => Message.data \in Longs
    BY <1>1, MessageFields DEF DataTypes
  <2> QED BY <2>1, <2>2 DEF Learns, LearnsChallenge
<1>6. ASSUME NEW i \in 1 .. Len(outbox'), NEW c \in Longs,
             outbox'[i].type = "challengeGenerated", outbox'[i].data = c
      PROVE  RevokedBehind(c, i)'
  <2>1. i + 1 \in 1 .. Len(outbox) /\ outbox'[i] = outbox[i + 1] /\ i \in 0 .. Len(outbox')
    BY <1>1
  <2>2. RevokedBehind(c, i + 1)
    BY <1>6, <2>1 DEF ChallengesMatch
  <2> QED BY <1>2, <2>1, <2>2
<1>7. \A i \in 1 .. Len(outbox') :
        outbox'[i].type = "challengeGenerated" => outbox'[i].data \in Longs
  BY <1>1, MessageFields DEF DataTypes
<1>8. challenge' # None => RevokedBehind(challenge.is, 0)'
  BY <1>4, <1>5 DEF RevokedBehind
<1>9. \A i \in 1 .. Len(outbox') :
        outbox'[i].type = "challengeGenerated" => RevokedBehind(outbox[i].data, i)'
  BY <1>6, <1>7 DEF RevokedBehind
<1> QED BY <1>8, <1>9 DEF ChallengesMatch

LEMMA IdsGot ==
  ASSUME Types, IdsMatch, Learns
  PROVE  IdsMatch'
<1>1. /\ Message = outbox[1] /\ Message \in Messages
      /\ Len(outbox) \in Nat \ {0} /\ Len(outbox') = Len(outbox) - 1
      /\ outbox' \in Seq(Messages)
      /\ \A i \in 1 .. Len(outbox') : i + 1 \in 1 .. Len(outbox) /\ outbox'[i] = outbox[i + 1]
  BY Got DEF Learns
<1>2. ASSUME NEW i \in 0 .. Len(outbox'), \A j \in i + 1 .. Len(outbox') : ~Invalidation(outbox'[j])
      PROVE  \A j \in (i + 1) + 1 .. Len(outbox) : ~Invalidation(outbox[j])
  <2> SUFFICES ASSUME NEW j \in (i + 1) + 1 .. Len(outbox)
               PROVE  ~Invalidation(outbox[j])
    OBVIOUS
  <2>1. j - 1 \in i + 1 .. Len(outbox') /\ j - 1 \in 1 .. Len(outbox') /\ (j - 1) + 1 = j
    BY <1>1
  <2>2. outbox'[j - 1] = outbox[j]
    BY <1>1, <2>1
  <2> QED BY <1>2, <2>1, <2>2
<1>3. ASSUME NEW i \in 1 .. Len(outbox'), Invalidation(outbox'[i]),
             \A j \in i + 1 .. Len(outbox') : ~Invalidation(outbox'[j])
      PROVE  authId' = [is |-> Unsigned(LONG_HALF, outbox'[i].data)]
  <2>1. i \in 0 .. Len(outbox') /\ i + 1 \in 1 .. Len(outbox) /\ outbox'[i] = outbox[i + 1]
    BY <1>1
  <2>2. \A j \in (i + 1) + 1 .. Len(outbox) : ~Invalidation(outbox[j])
    BY <1>2, <1>3, <2>1
  <2> QED BY <1>3, <2>1, <2>2 DEF IdsMatch, Learns
<1>4. ASSUME authenticatorId' # None, \A i \in 1 .. Len(outbox') : ~Invalidation(outbox'[i])
      PROVE  authId' = [is |-> Unsigned(LONG_HALF, authenticatorId'.is)]
  <2>1. \A j \in 2 .. Len(outbox) : ~Invalidation(outbox[j])
    <3>1. 0 \in 0 .. Len(outbox')
      BY <1>1
    <3> QED BY <1>2, <1>4, <3>1
  <2>2. CASE Invalidation(Message)
    <3>1. authId = [is |-> Unsigned(LONG_HALF, Message.data)]
      BY <1>1, <2>1, <2>2 DEF IdsMatch
    <3> QED BY <2>2, <3>1 DEF Learns, LearnsId
  <2>3. CASE ~Invalidation(Message)
    <3>1. \A j \in 1 .. Len(outbox) : ~Invalidation(outbox[j])
      BY <1>1, <2>1, <2>3
    <3> QED BY <1>4, <2>3, <3>1 DEF IdsMatch, Learns, LearnsId
  <2> QED BY <2>2, <2>3
<1> QED BY <1>3, <1>4 DEF IdsMatch

LEMMA OperationsGot ==
  ASSUME Types, OperationsMatch, Learns
  PROVE  OperationsMatch'
<1>1. \A i \in 1 .. Len(outbox') : i + 1 \in 1 .. Len(outbox) /\ outbox'[i] = outbox[i + 1]
  BY Got DEF Learns
<1>2. \A i \in 1 .. Len(outbox') :
        outbox'[i].type = "authenticated" => Signed(LONG_HALF, outbox'[i].hat.challenge) \in asked'
  BY <1>1 DEF OperationsMatch, IsAsked, Learns
<1> QED BY <1>2 DEF OperationsMatch, IsAsked, Learns

\* The framework comes to know, or forgets, the fingerprint of the message and no other.
LEMMA FingersLearned ==
  ASSUME Types, Learns, NEW fid \in Fids
  PROVE  /\ ~About(Message, fid) => (Knows(fid)' <=> Knows(fid))
         /\ About(Message, fid) => (Knows(fid)' <=> Message.type = "enrolling")
<1>1. Message \in Messages
  BY Got DEF Learns
<1>2. CASE ~Changes(Message)
  BY <1>2 DEF Learns, LearnsFingers, About, Knows
<1>3. CASE Changes(Message)
  <2>1. Message.fid \in Fids
    BY <1>1, <1>3, MessageFields DEF Changes
  <2>2. Signed(INT_HALF, Message.fid) = Signed(INT_HALF, fid) <=> Message.fid = fid
    BY <2>1, FidsAre
  <2>3. Message.type = "enrolling" =>
          known' = known \cup {Signed(INT_HALF, Message.fid)}
    BY <1>3 DEF Learns, LearnsFingers
  <2>4. Message.type # "enrolling" =>
          known' = known \ {Signed(INT_HALF, Message.fid)}
    BY <1>3 DEF Learns, LearnsFingers
  <2>5. About(Message, fid) <=> Message.fid = fid
    BY <1>3 DEF About
  <2>6. CASE Message.type = "enrolling"
    BY <2>2, <2>3, <2>5, <2>6 DEF Knows
  <2>7. CASE Message.type # "enrolling"
    BY <2>2, <2>4, <2>5, <2>7 DEF Knows
  <2> QED BY <2>6, <2>7
<1> QED BY <1>2, <1>3

LEMMA FingersGot ==
  ASSUME Types, FingersMatch, Learns
  PROVE  FingersMatch'
<1>1. /\ Message = outbox[1] /\ Message \in Messages
      /\ Len(outbox) \in Nat \ {0} /\ Len(outbox') = Len(outbox) - 1
      /\ outbox' \in Seq(Messages)
      /\ \A i \in 1 .. Len(outbox') : i + 1 \in 1 .. Len(outbox) /\ outbox'[i] = outbox[i + 1]
  BY Got DEF Learns
<1>2. ASSUME NEW fid, NEW i \in Nat \ {0}, NEW j \in 0 .. Len(outbox'), Silent(fid, i, j)'
      PROVE  Silent(fid, i + 1, j + 1)
  <2> SUFFICES ASSUME NEW k \in i + 1 .. j + 1
               PROVE  ~About(outbox[k], fid)
    BY DEF Silent
  <2>1. k - 1 \in i .. j /\ k - 1 \in 1 .. Len(outbox') /\ (k - 1) + 1 = k
    BY <1>1
  <2>2. outbox'[k - 1] = outbox[k]
    BY <1>1, <2>1
  <2> QED BY <1>2, <2>1, <2>2 DEF Silent
<1>3. ASSUME NEW fid, NEW j \in 1 .. Len(outbox), Silent(fid, 2, j), ~About(Message, fid)
      PROVE  Silent(fid, 1, j)
  <2>1. \A k \in 1 .. j : k = 1 \/ k \in 2 .. j
    BY <1>1
  <2> QED BY <1>1, <1>3, <2>1 DEF Silent
<1>4. known' \subseteq {Signed(INT_HALF, fid) : fid \in Fids}
  <2>1. Changes(Message) => Message.fid \in Fids
    BY <1>1, MessageFields DEF Changes
  <2> QED BY <2>1 DEF FingersMatch, Learns, LearnsFingers
<1>5. ASSUME NEW fid \in Fids, Silent(fid, 1, Len(outbox))'
      PROVE  fid \in templates' <=> Knows(fid)'
  <2>1. Silent(fid, 2, Len(outbox)) /\ Len(outbox) \in 1 .. Len(outbox)
    <3>1. \A k \in 1 .. Len(outbox') : ~About(outbox'[k], fid)
      BY <1>5 DEF Silent
    <3>2. \A k \in 2 .. Len(outbox) : k - 1 \in 1 .. Len(outbox') /\ outbox'[k - 1] = outbox[k]
      <4>1. \A k \in 2 .. Len(outbox) : k - 1 \in 1 .. Len(outbox') /\ (k - 1) + 1 = k
        BY <1>1
      <4> QED BY <1>1, <4>1
    <3> QED BY <1>1, <3>1, <3>2 DEF Silent
  <2>2. CASE About(Message, fid)
    <3>1. Message.fid = fid /\ Changes(outbox[1]) /\ 1 \in 1 .. Len(outbox)
      BY <1>1, <2>2 DEF About
    <3>2. fid \in templates <=> outbox[1].type = "enrolling"
      BY <1>1, <2>1, <3>1 DEF FingersMatch
    <3> QED BY <1>1, <2>2, <3>2, FingersLearned DEF Learns
  <2>3. CASE ~About(Message, fid)
    <3>1. Silent(fid, 1, Len(outbox))
      BY <1>3, <2>1, <2>3
    <3> QED BY <2>3, <3>1, FingersLearned DEF FingersMatch, Learns
  <2> QED BY <2>2, <2>3
<1>6. ASSUME NEW fid \in Fids, NEW i \in 1 .. Len(outbox'),
             outbox'[i].fid = fid, Changes(outbox'[i]),
             \A k \in i + 1 .. Len(outbox') : ~About(outbox'[k], fid)
      PROVE  fid \in templates' <=> outbox'[i].type = "enrolling"
  <2>1. i + 1 \in 1 .. Len(outbox) /\ outbox'[i] = outbox[i + 1]
    BY <1>1
  <2>2. Silent(fid, (i + 1) + 1, Len(outbox))
    <3> SUFFICES ASSUME NEW k \in (i + 1) + 1 .. Len(outbox)
                 PROVE  ~About(outbox[k], fid)
      BY DEF Silent
    <3>1. k - 1 \in i + 1 .. Len(outbox') /\ k - 1 \in 1 .. Len(outbox') /\ (k - 1) + 1 = k
      BY <1>1
    <3>2. outbox'[k - 1] = outbox[k]
      BY <1>1, <3>1
    <3> QED BY <1>6, <3>1, <3>2
  <2> QED BY <1>6, <2>1, <2>2 DEF FingersMatch, Learns
<1>7. ASSUME NEW fid \in Fids, NEW i \in 1 .. Len(outbox'),
             outbox'[i].fid = fid, outbox'[i].type = "authenticated"
      PROVE  KnowsAfter(fid, i - 1)'
  <2>1. /\ i + 1 \in 1 .. Len(outbox) /\ outbox'[i] = outbox[i + 1]
        /\ i - 1 \in 0 .. Len(outbox') /\ (i - 1) + 1 = i /\ (i + 1) - 1 = i
        /\ i \in 1 .. Len(outbox)
    BY <1>1
  <2>2. KnowsAfter(fid, i)
    BY <1>7, <2>1 DEF FingersMatch
  <2>3. ASSUME Silent(fid, 1, i - 1)'
        PROVE  Knows(fid)'
    <3>1. Silent(fid, 2, i)
      BY <1>2, <2>1, <2>3
    <3>2. CASE About(Message, fid)
      <4>1. 1 \in 1 .. i /\ outbox[1].type = "enrolling"
        BY <1>1, <2>1, <2>2, <3>1, <3>2 DEF KnowsAfter
      <4> QED BY <1>1, <3>2, <4>1, FingersLearned
    <3>3. CASE ~About(Message, fid)
      <4>1. Silent(fid, 1, i)
        BY <1>3, <2>1, <3>1, <3>3
      <4> QED BY <2>2, <3>3, <4>1, FingersLearned DEF KnowsAfter
    <3> QED BY <3>2, <3>3
  <2>4. ASSUME NEW k \in 1 .. i - 1, About(outbox'[k], fid), Silent(fid, k + 1, i - 1)'
        PROVE  outbox'[k].type = "enrolling"
    <3>1. k \in 1 .. Len(outbox') /\ k + 1 \in 1 .. i /\ k + 1 \in Nat \ {0}
      <4>1. Len(outbox') \in Nat
        BY <1>1
      <4> QED BY <4>1
    <3>2. outbox'[k] = outbox[k + 1]
      BY <1>1, <3>1
    <3>3. Silent(fid, (k + 1) + 1, i)
      BY <1>2, <2>1, <2>4, <3>1
    <3> QED BY <2>2, <2>4, <3>1, <3>2, <3>3 DEF KnowsAfter
  <2> QED BY <2>3, <2>4 DEF KnowsAfter
<1>8. \A i \in 1 .. Len(outbox') :
        Changes(outbox'[i]) \/ outbox'[i].type = "authenticated" => outbox'[i].fid \in Fids
  BY <1>1, MessageFields DEF Changes
<1>9. \A i \in 1 .. Len(outbox') :
        Changes(outbox'[i]) /\ (\A k \in i + 1 .. Len(outbox') : ~About(outbox'[k], outbox'[i].fid))
          => (outbox'[i].fid \in templates' <=> outbox'[i].type = "enrolling")
  BY <1>6, <1>8
<1>10. \A i \in 1 .. Len(outbox') :
         outbox'[i].type = "authenticated" =>
           \A fid \in Fids : fid = outbox'[i].fid => KnowsAfter(fid, i - 1)'
  BY <1>7
<1> QED BY <1>4, <1>5, <1>8, <1>9, <1>10 DEF FingersMatch, KnowsAfter, Silent, Knows

LEMMA LearningKeepsMatching ==
  ASSUME Types, Matching, Learns
  PROVE  Matching'
BY ChallengesGot, IdsGot, FingersGot, OperationsGot DEF Matching

LEMMA MatchingStep ==
  ASSUME Types, Matching, [Next]_vars
  PROVE  Matching'
<1>1. CASE UNCHANGED vars \/ onErrorOrAcquired
  <2>1. UNCHANGED <<queue, outbox, issued, templates, authenticating, authId, challenge, asked,
                    authenticatorId, known>>
    BY <1>1 DEF vars, orderVars, deviceVars, frameworkVars, onErrorOrAcquired
  <2>2. ChallengesMatch'
    BY <2>1 DEF Matching, ChallengesMatch, RevokedBehind
  <2>3. IdsMatch'
    BY <2>1 DEF Matching, IdsMatch
  <2>4. FingersMatch'
    BY <2>1 DEF Matching, FingersMatch, Silent, Knows, KnowsAfter
  <2>5. OperationsMatch'
    BY <2>1 DEF Matching, OperationsMatch, IsAsked
  <2> QED BY <2>2, <2>3, <2>4, <2>5 DEF Matching
<1>2. CASE Notify /\ ~onErrorOrAcquired
  BY <1>2, NotifyLearns, LearningKeepsMatching
<1>3. CASE Worker \/ Scan \/ Match
  BY <1>3, WorkerFollows, ScanFollows, MatchFollows, FollowingKeepsMatching
<1>4. CASE Request
  BY <1>4, RequestKeepsMatching
<1> QED BY <1>1, <1>2, <1>3, <1>4 DEF Next

-----------------------------------------------------------------------------
(* What was handed over last, and the invariant.                             *)

LEMMA ConversionsStep ==
  ASSUME Types, ConversionsMatch, [Next]_vars
  PROVE  ConversionsMatch'
<1>1. presented' \notin {None, Overrun} =>
        /\ Len(presented'.of.mac) <= HMAC_SIZE
        /\ \E stack \in Hmac : presented'.hat = toHat(presented'.of, stack)
  <2>1. CASE presented' = presented
    BY <2>1 DEF ConversionsMatch
  <2>2. CASE enrollImpl
    <3> DEFINE token == Head(queue).hat
    <3>1. PICK stack \in Hmac : presented' = [hat |-> toHat(token, stack), of |-> token]
      BY <2>2 DEF enrollImpl
    <3>2. Len(token.mac) <= HMAC_SIZE
      BY <2>2 DEF enrollImpl
    <3> HIDE DEF token
    <3>3. presented'.hat = toHat(token, stack) /\ presented'.of = token
      BY <3>1
    <3> QED BY <3>2, <3>3
  <2>3. CASE enrollImplOverruns
    BY <2>3 DEF enrollImplOverruns
  <2>4. presented' = presented \/ enrollImpl \/ enrollImplOverruns
    BY DEF Next, Request, Schedule, Worker, generateChallengeImpl, revokeChallengeImpl,
       authenticateImpl, removeEnrollmentsImpl, invalidateAuthenticatorIdImpl, Scan, Match,
       Notify, onEnrollmentProgress, onEnrollmentsRemoved, onChallengeGenerated,
       onChallengeRevoked, onErrorOrAcquired, onAuthenticationSucceeded,
       onAuthenticatorIdInvalidated, Answer, deviceVars, vars
  <2> QED BY <2>1, <2>2, <2>3, <2>4
<1> DEFINE ToldRight ==
      /\ told.op = "onAuthenticationSucceeded" =>
           told.of.hat \in Hats /\ told.token = toToken(told.of.hat)
<1>2. ToldRight'
  <2>1. CASE told' = told
    BY <2>1 DEF ConversionsMatch
  <2>2. CASE told' = [op |-> "onError", code |-> <<UNABLE_TO_PROCESS, 1>>]
    BY <2>2
  <2>3. CASE onErrorOrAcquired
    <3>1. PICK code \in Codes, op \in {"onError", "onAcquired"} :
            told' = [op |-> op, code |-> convert(code), of |-> code]
      BY <2>3 DEF onErrorOrAcquired
    <3> QED BY <3>1
  <2>4. CASE onAuthenticationSucceeded
    <3>1. Message \in Messages /\ Message.type = "authenticated"
      BY <2>4, Got DEF onAuthenticationSucceeded, Answer
    <3>2. Message.hat \in Hats
      BY <3>1, MessageFields
    <3> DEFINE token == toToken(Message.hat)
    <3>3. told' = [op |-> "onAuthenticationSucceeded", of |-> Message, id |-> Id, token |-> token]
      BY <2>4 DEF onAuthenticationSucceeded
    <3>4. told'.token = token /\ told'.of = Message /\ "code" \notin DOMAIN told'
      BY <3>3
    <3> QED BY <3>2, <3>4
  <2>5. CASE \/ onEnrollmentProgress \/ onEnrollmentsRemoved \/ onChallengeGenerated
             \/ onChallengeRevoked \/ onAuthenticatorIdInvalidated
    <3>1. told'.op # "onAuthenticationSucceeded" /\ "code" \notin DOMAIN told'
      BY <2>5 DEF onEnrollmentProgress, onEnrollmentsRemoved, onChallengeGenerated,
         onChallengeRevoked, onAuthenticatorIdInvalidated
    <3> QED BY <3>1
  <2>6. \/ told' = told \/ told' = [op |-> "onError", code |-> <<UNABLE_TO_PROCESS, 1>>]
        \/ Notify
    BY DEF Next, Request, Schedule, Worker, generateChallengeImpl, revokeChallengeImpl,
       enrollImpl, enrollImplOverruns, authenticateImpl, removeEnrollmentsImpl, invalidateAuthenticatorIdImpl,
       Scan, Match, deviceVars, vars
  <2> QED BY <2>1, <2>2, <2>3, <2>4, <2>5, <2>6 DEF Notify
<1> QED BY <1>1, <1>2 DEF ConversionsMatch

LEMMA CallbacksInitially == Init => CallbacksInv
<1> SUFFICES ASSUME Init PROVE CallbacksInv
  OBVIOUS
<1> USE DEF Init
<1>1. <<>> \in Seq(Tasks) /\ <<>> \in Seq(Messages) /\ Len(<<>>) = 0
  BY EmptySeq
<1>2. Types
  BY <1>1, SizeAssumption DEF Types
<1>3. ChallengesMatch
  BY <1>1 DEF ChallengesMatch
<1>4. IdsMatch
  BY <1>1 DEF IdsMatch
<1>5. FingersMatch
  BY <1>1 DEF FingersMatch, Knows
<1>6. OperationsMatch
  BY <1>1 DEF OperationsMatch
<1>7. ConversionsMatch
  BY DEF ConversionsMatch, None
<1> QED BY <1>2, <1>3, <1>4, <1>5, <1>6, <1>7 DEF CallbacksInv

LEMMA CallbacksInvariance == Spec => []CallbacksInv
<1>1. CallbacksInv /\ [Next]_vars => CallbacksInv'
  BY TypesStep, MatchingStep, ConversionsStep DEF CallbacksInv, Matching
<1> QED BY <1>1, CallbacksInitially, PTL DEF Spec

-----------------------------------------------------------------------------
(* Theorems.                                                                 *)

\* Whatever is asked for and sent, every variable stays in its type: no conversion leaves
\* the range of its integers, and the worker's queue keeps its bound
\* (WorkerThread::schedule).
THEOREM CallbacksTypeCorrect == Spec => []TypeOK
<1>1. CallbacksInv => TypeOK
  BY DEF CallbacksInv, Types, TypeOK, UnsignedLongs, Ints
<1> QED BY <1>1, CallbacksInvariance, PTL

\* Enrolments and removals in any order leave the framework with exactly the fingerprints
\* of the device when no message is on its way (Session::notify, FINGERPRINT_TEMPLATE_*).
THEOREM CacheInSyncHolds == Spec => []CacheInSync
<1>1. CallbacksInv => CacheInSync
  <2> SUFFICES ASSUME CallbacksInv, outbox = <<>>
               PROVE  known = {Signed(INT_HALF, fid) : fid \in templates}
    BY DEF CacheInSync
  <2>1. \A fid \in Fids : fid \in templates <=> Signed(INT_HALF, fid) \in known
    <3>1. \A fid : Silent(fid, 1, Len(outbox))
      <4>1. Len(outbox) = 0
        BY EmptySeq
      <4> QED BY <4>1 DEF Silent
    <3> QED BY <3>1 DEF CallbacksInv, FingersMatch, Knows
  <2>2. templates \subseteq Fids /\ known \subseteq {Signed(INT_HALF, fid) : fid \in Fids}
    BY DEF CallbacksInv, Types, FingersMatch
  <2> QED BY <2>1, <2>2
<1> QED BY <1>1, CallbacksInvariance, PTL

\* The challenge the framework holds is accepted by the device, unless the framework has
\* asked to revoke it (Session::generateChallenge, Session::revokeChallenge and the
\* callbacks of both).
THEOREM ChallengeIsGoodHolds == Spec => []ChallengeIsGood
<1>1. CallbacksInv => ChallengeIsGood
  <2> SUFFICES ASSUME CallbacksInv, challenge # None, ~Pending(challenge.is)
               PROVE  Unsigned(LONG_HALF, challenge.is) \in issued
    BY DEF ChallengeIsGood
  <2>1. RevokedBehind(challenge.is, 0) /\ outbox \in Seq(Messages)
    BY DEF CallbacksInv, ChallengesMatch, Types
  <2>2. ASSUME NEW j \in 1 .. Len(outbox),
               outbox[j].type = "challengeRevoked", outbox[j].data = challenge.is
        PROVE  FALSE
    <3>1. outbox[j] \in Messages /\ j \in DOMAIN outbox
      BY <2>1
    <3>2. outbox[j] = [type |-> "challengeRevoked", data |-> challenge.is]
      BY <2>2, <3>1 DEF Messages, DataMessages, FingerMessages, Authentications
    <3> QED BY <3>1, <3>2 DEF Pending
  <2> QED BY <2>1, <2>2 DEF RevokedBehind
<1> QED BY <1>1, CallbacksInvariance, PTL

\* Every token that the device is given says what the framework's said, however short its
\* mac, and a token of the device says to the framework what it said (translate(),
\* Legacy2Aidl.h).
THEOREM TokenSurvivesHolds == Spec => []TokenSurvives
<1>1. CallbacksInv => TokenSurvives
  <2> SUFFICES ASSUME CallbacksInv PROVE TokenSurvives
    OBVIOUS
  <2>1. ASSUME presented \notin {None, Overrun}
        PROVE  LET token == presented.of
                   back == toToken(presented.hat) IN
               /\ back.challenge = token.challenge /\ back.timestamp = token.timestamp
               /\ \A i \in DOMAIN token.mac : back.mac[i] = token.mac[i]
    <3>1. presented.of \in Tokens /\ Len(presented.of.mac) <= HMAC_SIZE
      BY <2>1 DEF CallbacksInv, Types, ConversionsMatch
    <3>2. PICK stack \in Hmac : presented.hat = toHat(presented.of, stack)
      BY <2>1 DEF CallbacksInv, ConversionsMatch
    <3> QED BY <2>1, <3>1, <3>2, TokenRoundTrip
  <2>2. ASSUME told.op = "onAuthenticationSucceeded"
        PROVE  toHat(told.token, told.of.hat.mac) = told.of.hat
    <3>1. told.of.hat \in Hats /\ told.token = toToken(told.of.hat)
      BY <2>2 DEF CallbacksInv, ConversionsMatch
    <3> QED BY <3>1, HatRoundTrip
  <2> QED BY <2>1, <2>2 DEF TokenSurvives
<1> QED BY <1>1, CallbacksInvariance, PTL

\* The authenticator id the framework is told after an invalidation is that of the device
\* to the last bit (FINGERPRINT_AUTHENTICATOR_ID_INVALIDATED).
THEOREM NewIdIsExactHolds == Spec => []NewIdIsExact
<1>1. CallbacksInv => NewIdIsExact
  <2> SUFFICES ASSUME CallbacksInv, authenticatorId # None, Invalidations = {}
               PROVE  authId = [is |-> Unsigned(LONG_HALF, authenticatorId.is)]
    BY DEF NewIdIsExact
  <2>1. outbox \in Seq(Messages)
    BY DEF CallbacksInv, Types
  <2>2. \A i \in 1 .. Len(outbox) : ~Invalidation(outbox[i])
    BY <2>1 DEF Invalidations, Invalidation
  <2> QED BY <2>2 DEF CallbacksInv, IdsMatch
<1> QED BY <1>1, CallbacksInvariance, PTL

\* The framework hears of a recognised finger only when it knows that finger, and with a
\* token for an operation that it asked for (FINGERPRINT_AUTHENTICATED).
THEOREM AuthenticationIsOwnHolds == Spec => AuthenticationIsOwn
<1> DEFINE Own == told' # told /\ told'.op = "onAuthenticationSucceeded" =>
                    told'.id \in known /\ told'.token.challenge \in asked
<1>1. ASSUME CallbacksInv, Next
      PROVE  Own
  <2>1. Types
    BY <1>1 DEF CallbacksInv
  <2>2. CASE onAuthenticationSucceeded
    <3>1. /\ Message = outbox[1] /\ Len(outbox) \in Nat \ {0}
          /\ Message \in Messages /\ Message.type = "authenticated"
      BY <2>1, <2>2, Got DEF onAuthenticationSucceeded, Answer
    <3>2. 1 \in 1 .. Len(outbox)
      BY <3>1
    <3>3. Signed(LONG_HALF, Message.hat.challenge) \in asked
      BY <1>1, <3>1, <3>2 DEF CallbacksInv, OperationsMatch, IsAsked
    <3>4. Id \in known
      <4>1. KnowsAfter(Message.fid, 0)
        BY <1>1, <3>1, <3>2 DEF CallbacksInv, FingersMatch
      <4> QED BY <4>1 DEF KnowsAfter, Silent, Knows, Id
    <3> DEFINE token == toToken(Message.hat)
    <3>5. told' = [op |-> "onAuthenticationSucceeded", of |-> Message, id |-> Id, token |-> token]
      BY <2>2 DEF onAuthenticationSucceeded
    <3>6. token.challenge = Signed(LONG_HALF, Message.hat.challenge)
      BY DEF toToken
    <3> HIDE DEF token
    <3> QED BY <3>3, <3>4, <3>5, <3>6
  <2>3. CASE ~onAuthenticationSucceeded
    <3>1. CASE Notify
      <4>1. told'.op # "onAuthenticationSucceeded"
        BY <2>3, <3>1 DEF Notify, onEnrollmentProgress, onEnrollmentsRemoved,
           onChallengeGenerated, onChallengeRevoked, onErrorOrAcquired,
           onAuthenticatorIdInvalidated
      <4> QED BY <4>1
    <3>2. CASE enrollImpl \/ authenticateImpl
      <4>1. told' = told \/ told' = [op |-> "onError", code |-> <<UNABLE_TO_PROCESS, 1>>]
        BY <3>2 DEF enrollImpl, authenticateImpl
      <4> QED BY <4>1
    <3>3. CASE ~Notify /\ ~(enrollImpl \/ authenticateImpl)
      <4>1. told' = told
        BY <1>1, <3>3 DEF Next, Request, Schedule, Worker, generateChallengeImpl,
           revokeChallengeImpl, enrollImplOverruns, removeEnrollmentsImpl, invalidateAuthenticatorIdImpl, Scan,
           Match, deviceVars
      <4> QED BY <4>1
    <3> QED BY <3>1, <3>2, <3>3
  <2> QED BY <2>2, <2>3
<1>2. CallbacksInv /\ [Next]_vars => [Own]_vars
  BY <1>1
<1> QED BY <1>2, CallbacksInvariance, PTL DEF Spec, AuthenticationIsOwn

=============================================================================
