--------------------------- MODULE HalSessionProofs ---------------------------
(***************************************************************************)
(* Proofs about HalSession: type correctness and the safety properties of  *)
(* sessions and their answers, for any number of sessions and requests,    *)
(* every set of operations and every size of the worker's queue.           *)
(***************************************************************************)
EXTENDS HalSession, TLAPS

\* The current session is the last one created, and the only one that can be open; the
\* device has refused the user of each session since the one it is set to.
CurrentIsLast ==
  /\ mSession = created
  /\ activeGroup <= created /\ (activeGroup + 1) .. created \subseteq refused
  /\ framework \in {None, mSession} /\ obituary \in {None, mSession}
  /\ framework # None => obituary = None
  /\ \A s \in Sessions : s < created => mIsClosed[s]

\* Where close() has run.
Closings ==
  /\ \A s \in Sessions : closes[s] \in {0, 1}
  /\ \A s \in Sessions : closes[s] = 1 => mIsClosed[s] /\ s <= created
  /\ framework # None => closes[framework] = 0

\* A session that is open without a framework is mourned, or nobody will mourn it.
OpenIsWatched ==
  mSession # None /\ framework = None /\ obituary = None /\ ~mIsClosed[mSession]
    => mSession \in orphans

\* A message on its way to a session is the first that session may get after close().
FirstStray ==
  /\ \A s \in Sessions : strays[s] \in {0, 1}
  /\ \A s \in Sessions : strays[s] = 1 => closes[s] = 1
  /\ message.stage = "dispatch" => mSession # None /\ strays[mSession] = 0

\* Each request that was made has an owner, and is where its phase says.
Places ==
  /\ \A r \in Requests : phase[r] = "unmade" <=> r > made
  /\ \A r \in Requests : phase[r] # "unmade" => owner[r] \in 1 .. created
  /\ \A i \in 1 .. Len(queue) : phase[queue[i]] = "queued"
  /\ \A i, j \in 1 .. Len(queue) : queue[i] = queue[j] => i = j
  /\ task # None => phase[task] = "starting"

\* Nothing has ended the request.
Open(r) == \A i \in 1 .. Len(answers[r]) : answers[r][i].what = "part"

\* One request of EndedAtMostOnce.
EndsOnce(r) ==
  \A i \in 1 .. Len(answers[r]) :
    IF answers[r][i].what = "part" THEN IsRemoval(r) ELSE i = Len(answers[r])

\* Callbacks end only a request whose phase says so, and not while its last message is on
\* its way; any other message belongs to a request the device still works on.
Silence ==
  /\ \A r \in Requests : EndsOnce(r)
  /\ \A r \in Requests : phase[r] # "ended" => Open(r)
  /\ \A r \in Requests : phase[r] = "unmade" => answers[r] = <<>>
  /\ message # NoMessage =>
       IF message.last THEN phase[message.req] = "ended" /\ Open(message.req)
                       ELSE phase[message.req] = "working"

SessionInv ==
  /\ TypeOK /\ CurrentIsLast /\ Closings /\ OpenIsWatched /\ FirstStray /\ Places /\ Silence
  /\ AbortsOnlyForOrphans

LEMMA SessionInit == Init => SessionInv
<1> SUFFICES ASSUME Init PROVE SessionInv
  OBVIOUS
<1>1. TypeOK
  <2>1. queue \in Seq(Requests) /\ Len(queue) <= MAX_WORKER_QUEUE_SIZE
    BY QueueAssumption DEF Init
  <2>2. created \in 0 .. MaxSessions /\ made \in 0 .. MaxRequests
    BY BoundsAssumption DEF Init
  <2>3. answers \in [Requests -> Seq(Answer)]
    <3>1. <<>> \in Seq(Answer)
      OBVIOUS
    <3> QED BY <3>1 DEF Init
  <2> QED BY <2>1, <2>2, <2>3 DEF Init, TypeOK, Phase, NoMessage
<1> USE BoundsAssumption, QueueAssumption DEF Init, Sessions, Requests, None
<1>2. CurrentIsLast /\ Closings /\ OpenIsWatched /\ FirstStray /\ AbortsOnlyForOrphans
  BY DEF CurrentIsLast, Closings, OpenIsWatched, FirstStray, NoMessage, AbortsOnlyForOrphans
<1>3. Places
  BY DEF Places
<1>4. Silence
  BY DEF Silence, EndsOnce, Open
<1> QED BY <1>1, <1>2, <1>3, <1>4 DEF SessionInv

-----------------------------------------------------------------------------
(* The binder thread.                                                        *)

LEMMA CreateSessionKeeps ==
  ASSUME SessionInv, CreateSession
  PROVE  SessionInv'
<1> USE BoundsAssumption DEF SessionInv, CreateSession, Sessions, None, requestVars, workerVars
<1>1. CASE OpenSessionExists
  <2>1. TypeOK'
    <3>1. /\ aborted' \in BOOLEAN
          /\ UNCHANGED <<mSession, mIsClosed, created, activeGroup, framework, obituary, queue, task,
                        made, op, owner, phase, cancelled, message, closes, orphans, refused,
                        answers, strays>>
      BY <1>1
    <3> HIDE DEF CreateSession, Sessions
    <3>2. TypeOK
      OBVIOUS
    <3> HIDE DEF SessionInv
    <3> QED BY <3>1, <3>2 DEF TypeOK
  <2>2. CurrentIsLast' /\ Closings' /\ OpenIsWatched' /\ FirstStray'
    BY <1>1 DEF CurrentIsLast, Closings, OpenIsWatched, FirstStray
  <2>3. Places' /\ Silence'
    BY <1>1 DEF Places, Silence, EndsOnce, Open, IsRemoval
  <2>4. AbortsOnlyForOrphans'
    BY <1>1 DEF OpenSessionExists, OpenIsWatched, AbortsOnlyForOrphans
  <2> QED BY <2>1, <2>2, <2>3, <2>4
<1>2. CASE ~OpenSessionExists
  <2>1. /\ created < MaxSessions /\ created' = created + 1 /\ mSession' = created + 1
        /\ framework' \in {None, created + 1}
        /\ \/ activeGroup' = created + 1 /\ UNCHANGED refused
           \/ refused' = refused \cup {created + 1} /\ UNCHANGED activeGroup
        /\ framework' = None => created + 1 \in orphans'
        /\ orphans' \in {orphans, orphans \cup {created + 1}}
        /\ created \in 0 .. MaxSessions /\ ~aborted /\ ~aborted' /\ obituary' = None
        /\ framework = None
        /\ UNCHANGED <<mIsClosed, closes, strays, message>>
    BY <1>2 DEF TypeOK, SetActiveGroup
  <2>2. TypeOK'
    <3>1. /\ created' \in 0 .. MaxSessions /\ mSession' \in Sessions
          /\ framework' \in Sessions \cup {None} /\ activeGroup' \in Sessions \cup {None}
          /\ obituary' \in Sessions \cup {None}
          /\ orphans' \subseteq Sessions /\ refused' \subseteq Sessions
      <4>1. /\ activeGroup \in Sessions \cup {None}
            /\ orphans \subseteq Sessions /\ refused \subseteq Sessions
        BY DEF TypeOK
      <4> HIDE DEF CreateSession, SessionInv
      <4>2. created + 1 \in 0 .. MaxSessions /\ created + 1 \in Sessions
        BY <2>1
      <4> QED BY <2>1, <4>1, <4>2
    <3>2. /\ aborted' = aborted
          /\ UNCHANGED <<mIsClosed, queue, task, made, op, owner, phase, cancelled, message, closes,
                        answers, strays>>
      BY <1>2
    <3>3. TypeOK
      OBVIOUS
    <3> HIDE DEF CreateSession, SessionInv, Sessions
    <3> QED BY <3>1, <3>2, <3>3 DEF TypeOK
  <2>3. CurrentIsLast'
    <3>1. ASSUME NEW s \in Sessions, s < created + 1 PROVE mIsClosed[s]
      BY <1>2, <2>1, <3>1 DEF CurrentIsLast, OpenSessionExists, TypeOK
    <3>2. activeGroup' <= created' /\ (activeGroup' + 1) .. created' \subseteq refused'
      BY <2>1 DEF CurrentIsLast, TypeOK
    <3> QED BY <2>1, <3>1, <3>2 DEF CurrentIsLast
  <2>4. closes[created + 1] = 0 /\ strays[created + 1] = 0
    BY <2>1 DEF Closings, FirstStray
  <2>5. Closings' /\ OpenIsWatched' /\ FirstStray' /\ AbortsOnlyForOrphans'
    BY <2>1, <2>4 DEF Closings, OpenIsWatched, FirstStray, AbortsOnlyForOrphans
  <2>6. Places'
    BY <2>1 DEF Places
  <2>7. Silence'
    BY DEF Silence, EndsOnce, Open, IsRemoval
  <2> QED BY <2>2, <2>3, <2>5, <2>6, <2>7
<1> QED BY <1>1, <1>2

LEMMA CloseSessionKeeps ==
  ASSUME SessionInv, Close \/ ClientDeath
  PROVE  SessionInv'
<1> USE DEF SessionInv, Sessions, None, requestVars, workerVars
<1>1. PICK s \in Sessions :
        /\ s = mSession /\ framework' = None /\ obituary' = None
        /\ \/ closes[s] = 0 /\ CloseSession(s)
           \/ mIsClosed[s] /\ UNCHANGED <<mIsClosed, closes>>
  <2>1. CASE Close
    BY <2>1 DEF Close, CurrentIsLast, Closings, TypeOK
  <2>2. CASE ClientDeath
    BY <2>2 DEF ClientDeath, CurrentIsLast, Closings, TypeOK
  <2> QED BY <2>1, <2>2
<1>2. UNCHANGED <<mSession, created, activeGroup, refused, aborted, orphans, requestVars,
                  workerVars, phase, message, answers, strays>>
  BY DEF Close, ClientDeath
<1>3. /\ mIsClosed' \in [Sessions -> BOOLEAN] /\ closes' \in [Sessions -> Nat]
      /\ mIsClosed'[s] /\ \A u \in Sessions : mIsClosed[u] => mIsClosed'[u]
      /\ \A u \in Sessions : u # s => closes'[u] = closes[u]
      /\ closes'[s] \in {0, 1} /\ closes'[s] >= closes[s]
  <2>1. closes \in [Sessions -> Nat] /\ mIsClosed \in [Sessions -> BOOLEAN]
    BY DEF TypeOK
  <2>2. CASE closes[s] = 0 /\ CloseSession(s)
    BY <2>1, <2>2 DEF CloseSession
  <2>3. CASE mIsClosed[s] /\ UNCHANGED <<mIsClosed, closes>>
    BY <2>1, <2>3 DEF Closings
  <2> QED BY <1>1, <2>2, <2>3
<1> HIDE DEF Sessions
<1>4. TypeOK'
  BY <1>1, <1>2, <1>3 DEF TypeOK
<1> USE DEF Sessions
<1>5. CurrentIsLast' /\ OpenIsWatched' /\ AbortsOnlyForOrphans'
  BY <1>1, <1>2, <1>3 DEF CurrentIsLast, OpenIsWatched, AbortsOnlyForOrphans
<1>6. Closings'
  <2>1. s <= created
    BY <1>1 DEF CurrentIsLast, TypeOK
  <2> QED BY <1>1, <1>2, <1>3, <2>1 DEF Closings
<1>7. FirstStray'
  BY <1>2, <1>3 DEF FirstStray, Closings
<1>8. Places' /\ Silence'
  BY <1>2 DEF Places, Silence, EndsOnce, Open, IsRemoval
<1> QED BY <1>4, <1>5, <1>6, <1>7, <1>8

LEMMA FrameworkDiesKeeps ==
  ASSUME SessionInv, FrameworkDies
  PROVE  SessionInv'
<1> USE DEF SessionInv, FrameworkDies, None, Sessions, requestVars, workerVars
<1>1. obituary' = mSession /\ mSession \in Sessions
  BY DEF CurrentIsLast, TypeOK
<1>2. TypeOK' /\ CurrentIsLast'
  BY <1>1 DEF TypeOK, CurrentIsLast
<1>3. Closings' /\ OpenIsWatched' /\ FirstStray' /\ AbortsOnlyForOrphans'
  BY <1>1 DEF Closings, OpenIsWatched, FirstStray, AbortsOnlyForOrphans
<1>4. Places' /\ Silence'
  BY DEF Places, Silence, EndsOnce, Open, IsRemoval
<1> QED BY <1>2, <1>3, <1>4

LEMMA CancelKeeps ==
  ASSUME SessionInv, NEW r \in Requests, Cancel(r)
  PROVE  SessionInv'
<1> USE DEF SessionInv, Cancel, binderVars, workerVars
<1>1. TypeOK'
  BY DEF TypeOK
<1>2. CurrentIsLast' /\ Closings' /\ OpenIsWatched' /\ FirstStray' /\ AbortsOnlyForOrphans'
  BY DEF CurrentIsLast, Closings, OpenIsWatched, FirstStray, AbortsOnlyForOrphans
<1>3. Places' /\ Silence'
  BY DEF Places, Silence, EndsOnce, Open, IsRemoval
<1> QED BY <1>1, <1>2, <1>3

\* What only the binder thread writes stays as it is in the steps of the others, and in a
\* request.
LEMMA OthersKeepSessions ==
  ASSUME SessionInv, UNCHANGED binderVars
  PROVE  CurrentIsLast' /\ OpenIsWatched' /\ AbortsOnlyForOrphans' /\ Closings'
BY DEF SessionInv, binderVars, CurrentIsLast, OpenIsWatched, AbortsOnlyForOrphans, Closings

LEMMA OwnerIsSession ==
  ASSUME SessionInv, NEW r \in Requests, phase[r] # "unmade"
  PROVE  owner[r] \in Sessions
<1>1. owner[r] \in 1 .. created
  BY DEF SessionInv, Places
<1>2. created \in 0 .. MaxSessions
  BY DEF SessionInv, TypeOK
<1> QED BY <1>1, <1>2, BoundsAssumption DEF Sessions

LEMMA RequestKeeps ==
  ASSUME SessionInv, Request
  PROVE  SessionInv'
<1> DEFINE r == made + 1
<1>1. PICK o \in Ops :
        /\ framework # None /\ made < MaxRequests /\ made' = r
        /\ op' = [op EXCEPT ![r] = o] /\ owner' = [owner EXCEPT ![r] = framework]
        /\ \/ QueueHasRoom /\ queue' = Append(queue, r) /\ phase' = [phase EXCEPT ![r] = "queued"]
           \/ UNCHANGED queue /\ phase' = [phase EXCEPT ![r] = "rejected"]
        /\ UNCHANGED <<binderVars, task, cancelled, message, answers, strays>>
  BY DEF Request
<1>2. r \in Requests /\ made \in 0 .. MaxRequests /\ phase[r] = "unmade"
  BY <1>1, BoundsAssumption DEF SessionInv, TypeOK, Requests, Places
<1>3. framework \in Sessions /\ framework = created
  BY <1>1 DEF SessionInv, TypeOK, CurrentIsLast
<1>4. /\ phase \in [Requests -> Phase] /\ phase' \in [Requests -> Phase]
      /\ phase'[r] \in {"queued", "rejected"}
      /\ \A q \in Requests : q # r => phase'[q] = phase[q]
  BY <1>1, <1>2 DEF SessionInv, TypeOK, Phase
<1>5. /\ queue' \in Seq(Requests) /\ Len(queue') <= MAX_WORKER_QUEUE_SIZE
      /\ \A i \in 1 .. Len(queue') :
            \/ i \in 1 .. Len(queue) /\ queue'[i] = queue[i]
            \/ i = Len(queue) + 1 /\ queue'[i] = r /\ phase'[r] = "queued"
  <2>1. queue \in Seq(Requests) /\ Len(queue) \in Nat /\ Len(queue) <= MAX_WORKER_QUEUE_SIZE
    BY DEF SessionInv, TypeOK
  <2>2. CASE UNCHANGED queue
    BY <2>1, <2>2
  <2>3. CASE QueueHasRoom /\ queue' = Append(queue, r) /\ phase' = [phase EXCEPT ![r] = "queued"]
    <3>1. /\ queue' \in Seq(Requests) /\ Len(queue') = Len(queue) + 1
          /\ \A i \in 1 .. Len(queue') :
               queue'[i] = IF i <= Len(queue) THEN queue[i] ELSE r
      BY <1>2, <2>1, <2>3
    <3>2. Len(queue') <= MAX_WORKER_QUEUE_SIZE
      BY <2>1, <2>3, <3>1, QueueAssumption DEF QueueHasRoom
    <3>3. phase'[r] = "queued"
      BY <1>2, <1>4, <2>3
    <3> QED BY <2>1, <3>1, <3>2, <3>3
  <2> QED BY <1>1, <2>2, <2>3
<1>6. TypeOK'
  <2>1. made' \in 0 .. MaxRequests
    BY <1>1, <1>2, BoundsAssumption DEF Requests
  <2>2. (/\ op \in [Requests -> Ops \cup {"none"}] /\ owner \in [Requests -> Sessions \cup {None}])'
    BY <1>1, <1>2, <1>3 DEF SessionInv, TypeOK
  <2> QED BY <1>1, <1>4, <1>5, <2>1, <2>2 DEF SessionInv, TypeOK, binderVars
<1>7. Places'
  <2>1. ASSUME NEW q \in Requests PROVE phase'[q] = "unmade" <=> q > made'
    BY <1>1, <1>2, <1>4 DEF SessionInv, Places, Requests
  <2>2. ASSUME NEW q \in Requests, phase'[q] # "unmade" PROVE owner'[q] \in 1 .. created'
    <3>1. owner \in [Requests -> Sessions \cup {None}]
      BY DEF SessionInv, TypeOK
    <3> QED BY <1>1, <1>2, <1>3, <1>4, <2>2, <3>1 DEF SessionInv, Places, binderVars, Sessions
  <2>3. ASSUME NEW i \in 1 .. Len(queue) PROVE queue[i] \in Requests /\ queue[i] # r
    BY <1>2 DEF SessionInv, TypeOK, Places
  <2>4. \A i \in 1 .. Len(queue') : phase'[queue'[i]] = "queued"
    BY <1>4, <1>5, <2>3 DEF SessionInv, Places
  <2>5. \A i, j \in 1 .. Len(queue') : queue'[i] = queue'[j] => i = j
    BY <1>5, <2>3 DEF SessionInv, Places
  <2>6. task' # None => phase'[task'] = "starting"
    BY <1>1, <1>2, <1>4 DEF SessionInv, Places, TypeOK
  <2> QED BY <2>1, <2>2, <2>4, <2>5, <2>6 DEF Places
<1>8. FirstStray'
  BY <1>1 DEF SessionInv, FirstStray, binderVars
<1>9. Silence'
  <2>1. ASSUME NEW q \in Requests PROVE EndsOnce(q)' /\ (Open(q) => Open(q)')
    <3>1. CASE q = r
      BY <1>1, <1>2, <3>1 DEF SessionInv, Silence, EndsOnce, Open
    <3>2. CASE q # r
      <4>1. op'[q] = op[q]
        BY <1>1, <3>2 DEF SessionInv, TypeOK
      <4> QED BY <1>1, <4>1 DEF SessionInv, Silence, EndsOnce, Open, IsRemoval
    <3> QED BY <3>1, <3>2
  <2>2. ASSUME NEW q \in Requests
        PROVE  /\ phase'[q] # "ended" => Open(q)'
               /\ phase'[q] = "unmade" => answers'[q] = <<>>
    BY <1>1, <1>2, <1>4, <2>1 DEF SessionInv, Silence
  <2>3. message' # NoMessage => message'.req # r /\ message'.req \in Requests
    BY <1>1, <1>2 DEF SessionInv, Silence, TypeOK, Message
  <2> QED BY <1>1, <1>4, <2>1, <2>2, <2>3 DEF SessionInv, Silence
<1> QED BY <1>1, <1>6, <1>7, <1>8, <1>9, OthersKeepSessions DEF SessionInv

-----------------------------------------------------------------------------
(* The worker.                                                               *)

\* A callback for a request that has not ended leaves it ended once, or still open.
LEMMA AnswerOpen ==
  ASSUME SessionInv, NEW r \in Requests, Open(r),
         NEW what \in {"CANCELED", "UNABLE_TO_PROCESS", "result", "part"},
         NEW s \in Sessions, what = "part" => IsRemoval(r),
         Answered(r, what, s), UNCHANGED op
  PROVE  /\ answers' \in [Requests -> Seq(Answer)]
         /\ EndsOnce(r)'
         /\ what = "part" => Open(r)'
         /\ \A q \in Requests : q # r => answers'[q] = answers[q]
<1> DEFINE a == [what |-> what, to |-> s]
<1>1. a \in Answer /\ a.what = what
  BY DEF Answer
<1> HIDE DEF a
<1>2. answers \in [Requests -> Seq(Answer)] /\ answers' = [answers EXCEPT ![r] = Append(@, a)]
  BY DEF SessionInv, TypeOK, Answered, a
<1>3. /\ answers' \in [Requests -> Seq(Answer)] /\ answers'[r] = Append(answers[r], a)
      /\ \A q \in Requests : q # r => answers'[q] = answers[q]
  <2>1. Append(answers[r], a) \in Seq(Answer)
    BY <1>1, <1>2
  <2> QED BY <1>2, <2>1
<1>4. /\ Len(answers[r]) \in Nat /\ Len(answers'[r]) = Len(answers[r]) + 1
      /\ \A i \in 1 .. Len(answers[r]) : answers'[r][i] = answers[r][i]
      /\ answers'[r][Len(answers[r]) + 1] = a
  <2>1. answers[r] \in Seq(Answer)
    BY <1>2
  <2> QED BY <1>1, <1>3, <2>1
<1>5. IsRemoval(r)' = IsRemoval(r)
  BY DEF IsRemoval
<1>6. ASSUME NEW i \in 1 .. Len(answers'[r])
      PROVE  \/ i \in 1 .. Len(answers[r]) /\ answers'[r][i].what = "part" /\ IsRemoval(r)
             \/ i = Len(answers'[r]) /\ answers'[r][i].what = what
  <2>1. \/ i \in 1 .. Len(answers[r])
        \/ i = Len(answers[r]) + 1
    BY <1>4
  <2> QED BY <1>1, <1>4, <2>1 DEF SessionInv, Silence, EndsOnce, Open
<1> QED BY <1>3, <1>5, <1>6 DEF EndsOnce, Open

LEMMA TakeTaskKeeps ==
  ASSUME SessionInv, TakeTask
  PROVE  SessionInv'
<1>1. /\ queue # <<>> /\ queue \in Seq(Requests) /\ queue' = Tail(queue) /\ task = None
      /\ UNCHANGED <<binderVars, requestVars, message, strays>>
  BY DEF SessionInv, TypeOK, TakeTask
<1>2. PICK r \in Requests : r = Head(queue)
  BY <1>1
<1>3. /\ Len(queue) >= 1 /\ r = queue[1] /\ r \in Requests /\ phase[r] = "queued"
      /\ queue' \in Seq(Requests) /\ Len(queue') = Len(queue) - 1
      /\ \A i \in 1 .. Len(queue') : queue'[i] = queue[i + 1]
  BY <1>1, <1>2 DEF SessionInv, Places
<1>4. owner[r] \in Sessions
  BY <1>3, OwnerIsSession
<1>5. /\ phase \in [Requests -> Phase] /\ phase' \in [Requests -> Phase]
      /\ \A q \in Requests : q # r => phase'[q] = phase[q]
      /\ \/ phase'[r] = "ended" /\ Answered(r, "CANCELED", owner[r]) /\ task' = None
         \/ phase'[r] = "starting" /\ UNCHANGED answers /\ task' = r
  <2>1. phase \in [Requests -> Phase]
    BY DEF SessionInv, TypeOK
  <2> QED BY <1>1, <1>2, <1>3, <2>1 DEF TakeTask, Phase
<1>6. /\ answers' \in [Requests -> Seq(Answer)]
      /\ EndsOnce(r)' /\ (phase'[r] # "ended" => Open(r)')
      /\ \A q \in Requests : q # r => answers'[q] = answers[q]
  <2>1. Open(r) /\ EndsOnce(r) /\ answers \in [Requests -> Seq(Answer)] /\ UNCHANGED op
    BY <1>1, <1>3 DEF SessionInv, Silence, TypeOK, requestVars
  <2>2. CASE Answered(r, "CANCELED", owner[r]) /\ phase'[r] = "ended"
    BY <1>3, <1>4, <2>1, <2>2, AnswerOpen
  <2>3. CASE UNCHANGED answers
    BY <2>1, <2>3 DEF EndsOnce, Open, IsRemoval
  <2> QED BY <1>5, <2>2, <2>3
<1>7. TypeOK'
  <2>1. (queue \in Seq(Requests) /\ Len(queue) <= MAX_WORKER_QUEUE_SIZE)'
    BY <1>3, QueueAssumption DEF SessionInv, TypeOK
  <2>2. task' \in Requests \cup {None}
    BY <1>3, <1>5
  <2> QED BY <1>1, <1>5, <1>6, <2>1, <2>2 DEF SessionInv, TypeOK, binderVars, requestVars
<1>8. Places'
  <2>1. \A q \in Requests : phase'[q] = "unmade" <=> q > made'
    BY <1>1, <1>3, <1>5 DEF SessionInv, Places, requestVars
  <2>2. \A q \in Requests : phase'[q] # "unmade" => owner'[q] \in 1 .. created'
    BY <1>1, <1>3, <1>5 DEF SessionInv, Places, requestVars, binderVars
  <2>3. ASSUME NEW i \in 1 .. Len(queue') PROVE queue'[i] \in Requests /\ queue'[i] # r
    BY <1>3 DEF SessionInv, Places
  <2>4. \A i \in 1 .. Len(queue') : phase'[queue'[i]] = "queued"
    BY <1>3, <1>5, <2>3 DEF SessionInv, Places
  <2>5. \A i, j \in 1 .. Len(queue') : queue'[i] = queue'[j] => i = j
    BY <1>3 DEF SessionInv, Places
  <2> QED BY <1>5, <2>1, <2>2, <2>4, <2>5 DEF Places
<1>9. FirstStray'
  BY <1>1 DEF SessionInv, FirstStray, binderVars
<1>10. Silence'
  <2>1. message' # NoMessage => message'.req # r /\ message'.req \in Requests
    BY <1>1, <1>3 DEF SessionInv, Silence, TypeOK, Message
  <2>2. ASSUME NEW q \in Requests, q # r
        PROVE  EndsOnce(q)' /\ (Open(q) => Open(q)')
    <3>1. answers'[q] = answers[q] /\ op' = op
      BY <1>1, <1>6, <2>2 DEF requestVars
    <3> QED BY <3>1 DEF SessionInv, Silence, EndsOnce, Open, IsRemoval
  <2>3. phase'[r] # "unmade"
    BY <1>5
  <2> QED BY <1>1, <1>5, <1>6, <2>1, <2>2, <2>3 DEF SessionInv, Silence
<1> QED BY <1>1, <1>7, <1>8, <1>9, <1>10, OthersKeepSessions DEF SessionInv

LEMMA RunTaskKeeps ==
  ASSUME SessionInv, RunTask
  PROVE  SessionInv'
<1>1. PICK r \in Requests :
      /\ r = task /\ phase[r] = "starting" /\ Open(r) /\ task' = None
      /\ UNCHANGED <<binderVars, requestVars, queue, message, strays>>
  BY DEF SessionInv, TypeOK, Places, Silence, RunTask, Start, Refuse, Forget, Finished
<1>2. owner[r] \in Sessions
  BY <1>1, OwnerIsSession
<1>3. /\ phase \in [Requests -> Phase] /\ phase' \in [Requests -> Phase]
      /\ phase'[r] \in {"working", "ended"}
      /\ \A q \in Requests : q # r => phase'[q] = phase[q]
      /\ \/ phase'[r] = "ended" /\ Answered(r, "UNABLE_TO_PROCESS", owner[r])
         \/ UNCHANGED answers
  <2>1. phase \in [Requests -> Phase]
    BY DEF SessionInv, TypeOK
  <2> QED BY <1>1, <2>1 DEF RunTask, Start, Refuse, Forget, Finished, Phase
<1>4. /\ answers' \in [Requests -> Seq(Answer)]
      /\ EndsOnce(r)' /\ (phase'[r] # "ended" => Open(r)')
      /\ \A q \in Requests : q # r => answers'[q] = answers[q]
  <2>1. EndsOnce(r) /\ answers \in [Requests -> Seq(Answer)] /\ UNCHANGED op
    BY <1>1 DEF SessionInv, Silence, TypeOK, requestVars
  <2>2. CASE phase'[r] = "ended" /\ Answered(r, "UNABLE_TO_PROCESS", owner[r])
    BY <1>1, <1>2, <2>1, <2>2, AnswerOpen
  <2>3. CASE UNCHANGED answers
    BY <1>1, <2>1, <2>3 DEF EndsOnce, Open, IsRemoval
  <2> QED BY <1>3, <2>2, <2>3
<1>5. TypeOK'
  BY <1>1, <1>3, <1>4 DEF SessionInv, TypeOK, binderVars, requestVars
<1>6. Places'
  <2>1. /\ \A q \in Requests : phase'[q] = "unmade" <=> q > made'
        /\ \A q \in Requests : phase'[q] # "unmade" => owner'[q] \in 1 .. created'
    BY <1>1, <1>3 DEF SessionInv, Places, requestVars, binderVars
  <2>2. ASSUME NEW i \in 1 .. Len(queue) PROVE queue[i] \in Requests /\ queue[i] # r
    BY <1>1 DEF SessionInv, TypeOK, Places
  <2> QED BY <1>1, <1>3, <2>1, <2>2 DEF SessionInv, Places
<1>7. FirstStray'
  BY <1>1 DEF SessionInv, FirstStray, binderVars
<1>8. Silence'
  <2>1. message' # NoMessage => message'.req # r /\ message'.req \in Requests
    BY <1>1 DEF SessionInv, Silence, TypeOK, Message
  <2>2. ASSUME NEW q \in Requests, q # r
        PROVE  EndsOnce(q)' /\ (Open(q) => Open(q)')
    BY <1>1, <1>4, <2>2 DEF SessionInv, Silence, EndsOnce, Open, IsRemoval, requestVars
  <2>3. phase'[r] # "unmade"
    BY <1>3
  <2> QED BY <1>1, <1>3, <1>4, <2>1, <2>2, <2>3 DEF SessionInv, Silence
<1> QED BY <1>1, <1>5, <1>6, <1>7, <1>8, OthersKeepSessions DEF SessionInv

-----------------------------------------------------------------------------
(* The vendor thread.                                                        *)

LEMMA SendKeeps ==
  ASSUME SessionInv, NEW r \in Requests, NEW last \in BOOLEAN, Send(r, last)
  PROVE  SessionInv'
<1>1. /\ phase[r] = "working" /\ Open(r)
      /\ message' = [req |-> r, last |-> last, stage |-> "check"]
      /\ UNCHANGED <<binderVars, requestVars, workerVars, answers, strays>>
  BY DEF SessionInv, Silence, Send
<1>2. /\ phase' \in [Requests -> Phase] /\ phase'[r] \in {"working", "ended"}
      /\ phase'[r] = IF last THEN "ended" ELSE "working"
      /\ \A q \in Requests : q # r => phase'[q] = phase[q]
  <2>1. phase \in [Requests -> Phase]
    BY DEF SessionInv, TypeOK
  <2>2. CASE last
    BY <2>1, <2>2 DEF Send, Phase
  <2>3. CASE ~last
    BY <1>1, <2>1, <2>3 DEF Send
  <2> QED BY <2>2, <2>3
<1>3. TypeOK'
  <2>1. message' \in Message
    BY <1>1 DEF Message
  <2> QED BY <1>1, <1>2, <2>1 DEF SessionInv, TypeOK, binderVars, requestVars, workerVars
<1>4. Places'
  <2>1. /\ \A q \in Requests : phase'[q] = "unmade" <=> q > made'
        /\ \A q \in Requests : phase'[q] # "unmade" => owner'[q] \in 1 .. created'
    BY <1>1, <1>2 DEF SessionInv, Places, requestVars, binderVars
  <2>2. ASSUME NEW i \in 1 .. Len(queue) PROVE queue[i] \in Requests /\ queue[i] # r
    BY <1>1 DEF SessionInv, TypeOK, Places
  <2>3. task' # None => task \in Requests /\ task # r /\ phase[task] = "starting"
    BY <1>1 DEF SessionInv, TypeOK, Places, workerVars
  <2> QED BY <1>1, <1>2, <2>1, <2>2, <2>3 DEF SessionInv, Places, workerVars
<1>5. FirstStray'
  BY <1>1 DEF SessionInv, FirstStray, binderVars
<1>6. Silence'
  <2>1. ASSUME NEW q \in Requests
        PROVE  EndsOnce(q)' /\ (Open(q) => Open(q)')
    BY <1>1 DEF SessionInv, Silence, EndsOnce, Open, IsRemoval, requestVars
  <2>2. /\ message'.req = r /\ message'.last = last
        /\ IF last THEN phase'[r] = "ended" /\ Open(r)' ELSE phase'[r] = "working"
    BY <1>1, <1>2, <2>1
  <2>3. ASSUME NEW q \in Requests
        PROVE  /\ phase'[q] # "ended" => Open(q)'
               /\ phase'[q] = "unmade" => answers'[q] = <<>>
    BY <1>1, <1>2, <2>1 DEF SessionInv, Silence
  <2> QED BY <2>1, <2>2, <2>3 DEF Silence
<1> QED BY <1>1, <1>3, <1>4, <1>5, <1>6, OthersKeepSessions DEF SessionInv

LEMMA CheckSessionKeeps ==
  ASSUME SessionInv, CheckSession
  PROVE  SessionInv'
<1>1. /\ message \in Message /\ message' \in Message \cup {NoMessage}
      /\ message' # NoMessage => message'.req = message.req /\ message'.last = message.last
      /\ message'.stage = "dispatch" => mSession # None /\ ~mIsClosed[mSession]
      /\ UNCHANGED <<binderVars, requestVars, workerVars, phase, answers, strays>>
  <2>1. message \in Message /\ UNCHANGED <<binderVars, requestVars, workerVars, phase, answers, strays>>
    BY DEF SessionInv, TypeOK, CheckSession, NoMessage
  <2>2. CASE SessionListens
    <3>1. message' = [message EXCEPT !.stage = "dispatch"]
      BY <2>2 DEF CheckSession
    <3>2. /\ message' \in Message
          /\ message'.req = message.req /\ message'.last = message.last
      BY <2>1, <3>1 DEF Message
    <3> QED BY <2>1, <2>2, <3>2 DEF SessionListens
  <2>3. CASE ~SessionListens
    <3>1. message' = NoMessage
      BY <2>3 DEF CheckSession
    <3> QED BY <2>1, <3>1 DEF NoMessage
  <2> QED BY <2>2, <2>3
<1>2. message # NoMessage
  BY DEF CheckSession, NoMessage
<1>3. TypeOK'
  BY <1>1 DEF SessionInv, TypeOK, binderVars, requestVars, workerVars
<1>4. Places'
  BY <1>1 DEF SessionInv, Places, binderVars, requestVars, workerVars
<1>5. FirstStray'
  <2>1. mSession \in Sessions \cup {None}
    BY DEF SessionInv, TypeOK
  <2> QED BY <1>1, <2>1 DEF SessionInv, FirstStray, Closings, binderVars
<1>6. Silence'
  <2>1. /\ answers' = answers /\ phase' = phase
        /\ \A q \in Requests : EndsOnce(q)' = EndsOnce(q) /\ Open(q)' = Open(q)
    BY <1>1 DEF EndsOnce, Open, IsRemoval, requestVars
  <2>2. message.req \in Requests
    BY <1>1 DEF Message
  <2> QED BY <1>1, <1>2, <2>1, <2>2 DEF SessionInv, Silence
<1> QED BY <1>1, <1>3, <1>4, <1>5, <1>6, OthersKeepSessions DEF SessionInv

LEMMA DispatchKeeps ==
  ASSUME SessionInv, Dispatch
  PROVE  SessionInv'
<1>1. PICK r \in Requests : r = message.req
  BY DEF SessionInv, TypeOK, Dispatch, Message, NoMessage
<1>2. /\ message \in Message /\ message # NoMessage /\ r = message.req
      /\ message' = NoMessage /\ mSession \in Sessions /\ strays[mSession] = 0
      /\ UNCHANGED <<binderVars, requestVars, workerVars, phase>>
  BY <1>1 DEF SessionInv, TypeOK, FirstStray, Dispatch, Message, NoMessage
<1>3. UNCHANGED op
  BY <1>2 DEF requestVars
<1>4. /\ answers' \in [Requests -> Seq(Answer)]
      /\ EndsOnce(r)' /\ (phase[r] # "ended" => Open(r)')
      /\ \A q \in Requests : q # r => answers'[q] = answers[q]
  <2>1. /\ EndsOnce(r) /\ Open(r) /\ answers \in [Requests -> Seq(Answer)]
        /\ message.last => phase[r] = "ended"
    BY <1>2 DEF SessionInv, Silence, TypeOK
  <2>2. CASE message.last
    <3>1. Answered(r, "result", mSession)
      BY <1>2, <2>2 DEF Dispatch
    <3> QED BY <1>2, <1>3, <2>1, <2>2, <3>1, AnswerOpen
  <2>3. CASE ~message.last /\ IsRemoval(r)
    <3>1. Answered(r, "part", mSession)
      BY <1>2, <2>3 DEF Dispatch
    <3> QED BY <1>2, <1>3, <2>1, <2>3, <3>1, AnswerOpen
  <2>4. CASE ~message.last /\ ~IsRemoval(r)
    <3>1. UNCHANGED answers
      BY <1>2, <2>4 DEF Dispatch
    <3> QED BY <1>3, <2>1, <3>1 DEF EndsOnce, Open, IsRemoval
  <2> QED BY <2>2, <2>3, <2>4
<1>5. /\ strays' \in [Sessions -> Nat] /\ strays'[mSession] \in {0, 1}
      /\ strays'[mSession] = 1 => closes[mSession] > 0
      /\ \A s \in Sessions : s # mSession => strays'[s] = strays[s]
  <2>1. strays \in [Sessions -> Nat]
    BY DEF SessionInv, TypeOK
  <2>2. CASE closes[mSession] > 0
    BY <1>2, <2>1, <2>2 DEF Dispatch
  <2>3. CASE ~(closes[mSession] > 0)
    BY <1>2, <2>1, <2>3 DEF Dispatch
  <2> QED BY <2>2, <2>3
<1>6. TypeOK'
  BY <1>2, <1>4, <1>5 DEF SessionInv, TypeOK, binderVars, requestVars, workerVars
<1>7. Places'
  BY <1>2 DEF SessionInv, Places, binderVars, requestVars, workerVars
<1>8. FirstStray'
  <2>1. closes[mSession] \in {0, 1} /\ closes' = closes
    BY <1>2 DEF SessionInv, Closings, binderVars
  <2> QED BY <1>2, <1>5, <2>1 DEF SessionInv, FirstStray, NoMessage
<1>9. Silence'
  <2>1. ASSUME NEW q \in Requests, q # r
        PROVE  EndsOnce(q)' /\ (Open(q) => Open(q)')
    BY <1>3, <1>4, <2>1 DEF SessionInv, Silence, EndsOnce, Open, IsRemoval
  <2>2. phase[r] # "unmade"
    BY <1>2 DEF SessionInv, Silence
  <2> QED BY <1>2, <1>4, <2>1, <2>2 DEF SessionInv, Silence
<1> QED BY <1>2, <1>6, <1>7, <1>8, <1>9, OthersKeepSessions DEF SessionInv

-----------------------------------------------------------------------------

LEMMA SessionNext == SessionInv /\ [Next]_vars => SessionInv'
<1> SUFFICES ASSUME SessionInv, [Next]_vars PROVE SessionInv'
  OBVIOUS
<1>1. CASE Binder
  BY <1>1, CreateSessionKeeps, CloseSessionKeeps, FrameworkDiesKeeps, RequestKeeps,
     CancelKeeps DEF Binder
<1>2. CASE Worker
  BY <1>2, TakeTaskKeeps, RunTaskKeeps DEF Worker
<1>3. CASE Vendor
  BY <1>3, SendKeeps, CheckSessionKeeps, DispatchKeeps DEF Vendor
<1>4. CASE UNCHANGED vars
  <2>1. UNCHANGED <<binderVars, requestVars, workerVars, phase, message, answers, strays>>
    BY <1>4 DEF vars
  <2>2. TypeOK'
    BY <2>1 DEF SessionInv, TypeOK, binderVars, requestVars, workerVars
  <2>3. Places' /\ FirstStray'
    BY <2>1 DEF SessionInv, Places, FirstStray, binderVars, requestVars, workerVars
  <2>4. Silence'
    BY <2>1 DEF SessionInv, Silence, EndsOnce, Open, IsRemoval, requestVars
  <2> QED BY <2>1, <2>2, <2>3, <2>4, OthersKeepSessions DEF SessionInv
<1> QED BY <1>1, <1>2, <1>3, <1>4 DEF Next

THEOREM SessionInvariance == Spec => []SessionInv
BY SessionInit, SessionNext, PTL DEF Spec

\* Sessions, queue, requests and messages keep to their types; in particular the queue of
\* the worker never holds more than it should.
THEOREM TypeCorrect == Spec => []TypeOK
<1>1. SessionInv => TypeOK
  BY DEF SessionInv
<1> QED BY <1>1, SessionInvariance, PTL

\* A request ends at most once, by its cancellation, its refusal or its last message, and
\* nothing follows; only a removal gets terminal callbacks before.
THEOREM EndedAtMostOnceHolds == Spec => []EndedAtMostOnce
<1>1. SessionInv => EndedAtMostOnce
  BY DEF SessionInv, Silence, EndsOnce, EndedAtMostOnce
<1> QED BY <1>1, SessionInvariance, PTL

\* After close() a session gets at most the one message that had passed the check of
\* Fingerprint::notify before.
THEOREM AtMostOneStrayHolds == Spec => []AtMostOneStray
<1>1. SessionInv => AtMostOneStray
  BY DEF SessionInv, FirstStray, AtMostOneStray
<1> QED BY <1>1, SessionInvariance, PTL

\* close() runs at most once for each session, though the death of its client may be
\* reported after the client closed it.
THEOREM ClosedAtMostOnceHolds == Spec => []ClosedAtMostOnce
<1>1. SessionInv => ClosedAtMostOnce
  BY DEF SessionInv, Closings, ClosedAtMostOnce
<1> QED BY <1>1, SessionInvariance, PTL

\* The CHECK of createSession fails only after a client whose death could not be watched.
THEOREM AbortsOnlyForOrphansHolds == Spec => []AbortsOnlyForOrphans
<1>1. SessionInv => AbortsOnlyForOrphans
  BY DEF SessionInv
<1> QED BY <1>1, SessionInvariance, PTL

\* An order of a session that is still open reaches the device while it is set to the
\* session's user, or to the last one before whose change of group it did not refuse.
THEOREM OpenSessionsOrdersAreDueHolds == Spec => OpenSessionsOrdersAreDue
<1> DEFINE Due(r) == Ordered(r) /\ ~mIsClosed[owner[r]]
                       => activeGroup <= owner[r] /\ (activeGroup + 1) .. owner[r] \subseteq refused
<1>1. SessionInv /\ [Next]_vars => [\A r \in Requests : Due(r)]_vars
  <2> SUFFICES ASSUME SessionInv, Next, NEW r \in Requests, Ordered(r), ~mIsClosed[owner[r]]
               PROVE  activeGroup <= owner[r] /\ (activeGroup + 1) .. owner[r] \subseteq refused
    OBVIOUS
  <2>1. phase[r] # "unmade"
    <3>1. phase \in [Requests -> Phase] /\ phase[r] # "working" /\ phase'[r] = "working"
      BY DEF SessionInv, TypeOK, Ordered
    <3> QED
      BY <3>1 DEF Next, Binder, Worker, Vendor, CreateSession, Close, FrameworkDies, ClientDeath,
         Request, Cancel, TakeTask, RunTask, Start, Refuse, Forget, Finished, Send,
         CheckSession, Dispatch, SessionInv, Places
  <2>2. owner[r] \in Sessions /\ owner[r] \in 1 .. created
    BY <2>1, OwnerIsSession DEF SessionInv, Places
  <2>3. created \in Nat
    BY DEF SessionInv, TypeOK
  <2>4. owner[r] = created
    BY <2>2, <2>3 DEF SessionInv, CurrentIsLast
  <2> QED BY <2>4 DEF SessionInv, CurrentIsLast
<1> QED BY <1>1, SessionInvariance, PTL DEF Spec, OpenSessionsOrdersAreDue

=============================================================================
