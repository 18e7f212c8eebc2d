------------------------------ MODULE HalSession ------------------------------
(***************************************************************************)
(* Sessions of the fingerprint HAL: Fingerprint::createSession and notify, *)
(* the operations of Session, the tasks they give to the worker, and the   *)
(* part of each FingerprintEngine operation that decides whether and by    *)
(* whom it is answered.                                                    *)
(*                                                                         *)
(* Three threads run this code: the only binder thread, the worker and the *)
(* thread on which the vendor library calls notify().  The framework, the  *)
(* vendor library and the queue of the worker are external.                *)
(***************************************************************************)
EXTENDS Naturals, Sequences

CONSTANTS MaxSessions,                \* sessions ever created (bound)
          MaxRequests,                \* requests ever made (bound)
          MaxParts,                   \* fingerprints removed one by one before the last
                                      \* of a removal (bound)
          Ops,                        \* the operations that are requested
          MAX_WORKER_QUEUE_SIZE,      \* 5 in the code
          DetectInteractionSupported  \* the detect_interaction property

Cancellable == {"enroll", "authenticate", "detectInteraction"}

\* Operations whose refusal by the device is reported with onError.
Reported == {"enroll", "authenticate", "enumerateEnrollments"}

\* Operations whose refusal by the device is at most written to the log.
Unreported == {"generateChallenge", "revokeChallenge", "removeEnrollments",
               "getAuthenticatorId", "invalidateAuthenticatorId"}

\* The device answers these when a finger is shown, the others by itself.
Interactive == {"enroll", "authenticate"}

ASSUME BoundsAssumption ==
  MaxSessions \in Nat /\ MaxRequests \in Nat /\ MaxParts \in Nat

ASSUME OpsAssumption == Ops \subseteq Cancellable \cup Reported \cup Unreported

ASSUME QueueAssumption == MAX_WORKER_QUEUE_SIZE \in Nat \ {0}

ASSUME DetectAssumption == DetectInteractionSupported \in BOOLEAN

Sessions == 1 .. MaxSessions
Requests == 1 .. MaxRequests

\* The null pointer, and the absence of a session, a request or a task.
None == 0

VARIABLES
  mSession,     \* Fingerprint::mSession
  mIsClosed,    \* per session; garbage until close()
  created,      \* sessions created so far
  activeGroup,  \* the session whose user the device is set to
  framework,    \* the session the framework uses
  obituary,     \* a session whose client died, until the binder thread hears
  queue,        \* the worker's queue of requests
  task,         \* the request the worker is about to hand to the engine
  made,         \* requests made so far
  op, owner, phase, cancelled,  \* per request
  message,      \* the message the vendor thread carries, or NoMessage
  aborted,      \* the CHECK in createSession has failed
  closes,       \* history: how often close() has run for each session
  orphans,      \* history: sessions of clients that were dead before linkToDeath
  refused,      \* history: sessions whose user the device refused to be set to
  answers,      \* history: the terminal callbacks for each request, in order, with
                \* their addressee
  strays        \* history: vendor messages a session got after close()

binderVars == <<mSession, mIsClosed, created, activeGroup, framework, obituary,
                aborted, closes, orphans, refused>>
requestVars == <<made, op, owner, cancelled>>
workerVars == <<queue, task>>
vars == <<binderVars, requestVars, workerVars, phase, message, answers, strays>>

Phase == {"unmade", "rejected", "queued", "starting", "working", "ended"}

NoMessage == [req |-> None, last |-> FALSE, stage |-> "none"]
Message == [req : Requests, last : BOOLEAN, stage : {"check", "dispatch"}]

\* A "part" is a terminal callback that is not the last.
Answer == [what : {"CANCELED", "UNABLE_TO_PROCESS", "result", "part"}, to : Sessions]

-----------------------------------------------------------------------------

Init ==
  /\ mSession = None
  /\ mIsClosed \in [Sessions -> BOOLEAN]
  /\ created = 0
  /\ activeGroup = None
  /\ framework = None
  /\ obituary = None
  /\ queue = <<>>
  /\ task = None
  /\ made = 0
  /\ op = [r \in Requests |-> "none"]
  /\ owner = [r \in Requests |-> None]
  /\ phase = [r \in Requests |-> "unmade"]
  /\ cancelled = [r \in Requests |-> FALSE]
  /\ message = NoMessage
  /\ aborted = FALSE
  /\ closes = [s \in Sessions |-> 0]
  /\ orphans = {}
  /\ refused = {}
  /\ answers = [r \in Requests |-> <<>>]
  /\ strays = [s \in Sessions |-> 0]

Answered(r, what, s) ==
  answers' = [answers EXCEPT ![r] = Append(@, [what |-> what, to |-> s])]

-----------------------------------------------------------------------------
(* The binder thread.                                                        *)

\* Mutant: the device is set to a user only once.
SetActiveGroupOnce(s) ==
  /\ activeGroup' = IF activeGroup = None THEN s ELSE activeGroup
  /\ UNCHANGED refused

\* FingerprintEngine::setActiveGroup(), for the user of session s, from the constructor of
\* Session.  A refusal is only logged: the session goes on with the device as it was.
SetActiveGroup(s) ==
  \/ activeGroup' = s /\ UNCHANGED refused
  \/ refused' = refused \cup {s} /\ UNCHANGED activeGroup

OpenSessionExists == mSession # None /\ ~mIsClosed[mSession]

\* The framework opens a session when it has none.  A CHECK ends the process when
\* the previous one is open.  linkToDeath() fails, unnoticed, when the client died
\* meanwhile: nothing will then be heard of that client.
CreateSession ==
  /\ ~aborted /\ framework = None /\ obituary = None
  /\ IF OpenSessionExists
       THEN /\ aborted' = TRUE
            /\ UNCHANGED <<mSession, created, activeGroup, framework, orphans, refused>>
       ELSE /\ created < MaxSessions
            /\ created' = created + 1
            /\ mSession' = created'
            /\ SetActiveGroup(created')
            /\ \/ framework' = created' /\ UNCHANGED orphans
               \/ orphans' = orphans \cup {created'} /\ UNCHANGED framework
            /\ UNCHANGED aborted
  /\ UNCHANGED <<mIsClosed, obituary, closes, requestVars, workerVars, phase,
                 message, answers, strays>>

\* Mutant: close() forgets to mark the session.
CloseSessionUnmarked(s) ==
  /\ closes' = [closes EXCEPT ![s] = @ + 1]
  /\ UNCHANGED mIsClosed

\* Session::close(): the mark, onSessionClosed, the end of the death recipient.
CloseSession(s) ==
  /\ mIsClosed' = [mIsClosed EXCEPT ![s] = TRUE]
  /\ closes' = [closes EXCEPT ![s] = @ + 1]

Close ==
  /\ ~aborted /\ framework # None
  /\ CloseSession(framework)
  /\ framework' = None
  /\ UNCHANGED <<mSession, created, activeGroup, refused, obituary, aborted, orphans,
                 requestVars, workerVars, phase, message, answers, strays>>

\* A client may die as its session is being closed: its death can still be reported.
FrameworkDies ==
  /\ ~aborted /\ obituary = None
  /\ \/ framework # None /\ obituary' = framework
     \/ framework = None /\ mSession # None /\ closes[mSession] > 0 /\ obituary' = mSession
  /\ framework' = None
  /\ UNCHANGED <<mSession, mIsClosed, created, activeGroup, refused, aborted, closes,
                 orphans, requestVars, workerVars, phase, message, answers, strays>>

\* Mutant: a reported death closes the session, closed or not.
ClientDeathUnchecked ==
  /\ ~aborted /\ obituary # None
  /\ CloseSession(obituary)
  /\ obituary' = None
  /\ UNCHANGED <<mSession, created, activeGroup, refused, framework, aborted, orphans,
                 requestVars, workerVars, phase, message, answers, strays>>

\* onClientDeath().
ClientDeath ==
  /\ ~aborted /\ obituary # None
  /\ IF mIsClosed[obituary] THEN UNCHANGED <<mIsClosed, closes>>
                            ELSE CloseSession(obituary)
  /\ obituary' = None
  /\ UNCHANGED <<mSession, created, activeGroup, refused, framework, aborted, orphans,
                 requestVars, workerVars, phase, message, answers, strays>>

\* Mutant: the queue takes one task more than it should.
QueueHasRoomForOneMore == Len(queue) <= MAX_WORKER_QUEUE_SIZE

QueueHasRoom == Len(queue) < MAX_WORKER_QUEUE_SIZE

\* The operations of Session differ, on this thread, only in what they schedule.
\* A full queue rejects the task; the caller gets ok() all the same.
Request ==
  \E o \in Ops :
    LET r == made + 1 IN
    /\ ~aborted /\ framework # None /\ made < MaxRequests
    /\ made' = r
    /\ op' = [op EXCEPT ![r] = o]
    /\ owner' = [owner EXCEPT ![r] = framework]
    /\ IF QueueHasRoom
         THEN queue' = Append(queue, r) /\ phase' = [phase EXCEPT ![r] = "queued"]
         ELSE UNCHANGED queue /\ phase' = [phase EXCEPT ![r] = "rejected"]
    /\ UNCHANGED <<binderVars, task, cancelled, message, answers, strays>>

\* ICancellationSignal::cancel() fulfils the promise of the request, no more.
Cancel(r) ==
  /\ ~aborted /\ framework # None /\ owner[r] = framework
  /\ op[r] \in Cancellable /\ ~cancelled[r]
  /\ cancelled' = [cancelled EXCEPT ![r] = TRUE]
  /\ UNCHANGED <<binderVars, made, op, owner, workerVars, phase, message, answers,
                 strays>>

-----------------------------------------------------------------------------
(* The worker thread.                                                        *)

\* Mutant: the task does not look at its cancellation signal.
ShouldCancelNever(r) == FALSE

ShouldCancel(r) == op[r] \in Cancellable /\ cancelled[r]

\* Mutant: a cancelled task is answered and then run nevertheless.
TakeTaskAnyway ==
  LET r == Head(queue) IN
  /\ ~aborted /\ task = None /\ queue # <<>>
  /\ queue' = Tail(queue)
  /\ IF ShouldCancel(r) THEN Answered(r, "CANCELED", owner[r]) ELSE UNCHANGED answers
  /\ task' = r
  /\ phase' = [phase EXCEPT ![r] = "starting"]
  /\ UNCHANGED <<binderVars, requestVars, message, strays>>

\* The worker takes the oldest task; a cancelled one is answered and done with.
TakeTask ==
  LET r == Head(queue) IN
  /\ ~aborted /\ task = None /\ queue # <<>>
  /\ queue' = Tail(queue)
  /\ IF ShouldCancel(r)
       THEN /\ Answered(r, "CANCELED", owner[r])
            /\ phase' = [phase EXCEPT ![r] = "ended"]
            /\ UNCHANGED task
       ELSE /\ task' = r
            /\ phase' = [phase EXCEPT ![r] = "starting"]
            /\ UNCHANGED answers
  /\ UNCHANGED <<binderVars, requestVars, message, strays>>

Finished(r) == task' = None /\ phase' = [phase EXCEPT ![r] = "ended"]

\* The device takes the order.  detectInteraction never gets to the device.
Start(r) ==
  /\ op[r] # "detectInteraction"
  /\ task' = None
  /\ phase' = [phase EXCEPT ![r] = "working"]
  /\ UNCHANGED answers

\* Mutant: an operation that the device refuses is left unanswered.
RefuseSilently(r) ==
  /\ op[r] \in Reported
  /\ Finished(r)
  /\ UNCHANGED answers

\* The device refuses, and the engine reports it; or interaction detection is off.
Refuse(r) ==
  /\ \/ op[r] \in Reported
     \/ op[r] = "detectInteraction" /\ ~DetectInteractionSupported
  /\ Finished(r)
  /\ Answered(r, "UNABLE_TO_PROCESS", owner[r])

\* The device refuses and nobody is told; or interaction detection is on, and the
\* engine has nothing to do for it.
Forget(r) ==
  /\ \/ op[r] \in Unreported
     \/ op[r] = "detectInteraction" /\ DetectInteractionSupported
  /\ Finished(r)
  /\ UNCHANGED answers

RunTask ==
  /\ ~aborted /\ task # None
  /\ Start(task) \/ Refuse(task) \/ Forget(task)
  /\ UNCHANGED <<binderVars, requestVars, queue, message, strays>>

-----------------------------------------------------------------------------
(* The vendor thread.  The device sends messages about what it works on, the  *)
(* last of them with the outcome; those of a removal each name one fingerprint *)
(* that is gone.                                                             *)

IsRemoval(r) == op[r] = "removeEnrollments"

Send(r, last) ==
  /\ ~aborted /\ message = NoMessage
  /\ phase[r] = "working"
  /\ ~last /\ IsRemoval(r) => Len(answers[r]) < MaxParts
  /\ message' = [req |-> r, last |-> last, stage |-> "check"]
  /\ phase' = IF last THEN [phase EXCEPT ![r] = "ended"] ELSE phase
  /\ UNCHANGED <<binderVars, requestVars, workerVars, answers, strays>>

\* Mutant: messages are passed on whether the session is closed or not.
SessionListensAlways == mSession # None

SessionListens == mSession # None /\ ~mIsClosed[mSession]

\* Fingerprint::notify() decides ...
CheckSession ==
  /\ ~aborted /\ message.stage = "check"
  /\ message' = IF SessionListens THEN [message EXCEPT !.stage = "dispatch"]
                                  ELSE NoMessage
  /\ UNCHANGED <<binderVars, requestVars, workerVars, phase, answers, strays>>

\* ... and then reads mSession again to call Session::notify() on it, which makes the
\* callback: a terminal one for the last message, and for each of a removal.  Nothing in a
\* message says which request it belongs to.
Dispatch ==
  /\ ~aborted /\ message.stage = "dispatch"
  /\ IF message.last \/ IsRemoval(message.req)
       THEN Answered(message.req, IF message.last THEN "result" ELSE "part", mSession)
       ELSE UNCHANGED answers
  /\ strays' = IF closes[mSession] > 0 THEN [strays EXCEPT ![mSession] = @ + 1]
                                          ELSE strays
  /\ message' = NoMessage
  /\ UNCHANGED <<binderVars, requestVars, workerVars, phase>>

-----------------------------------------------------------------------------

Binder ==
  \/ CreateSession \/ Close \/ FrameworkDies \/ ClientDeath \/ Request
  \/ \E r \in Requests : Cancel(r)

Worker == TakeTask \/ RunTask

Vendor ==
  \/ \E r \in Requests, last \in BOOLEAN : Send(r, last)
  \/ CheckSession
  \/ Dispatch

Next == Binder \/ Worker \/ Vendor

Spec == Init /\ [][Next]_vars

\* The worker and the vendor thread are scheduled, the binder thread hears of deaths,
\* and the device finishes what does not wait for a finger.
Fairness ==
  /\ WF_vars(Worker)
  /\ WF_vars(CheckSession \/ Dispatch)
  /\ WF_vars(ClientDeath)
  /\ \A r \in Requests :
       SF_vars(op[r] \notin Interactive /\ Send(r, TRUE))

FairSpec == Spec /\ Fairness

-----------------------------------------------------------------------------
(* Properties.                                                               *)

TypeOK ==
  /\ mSession \in Sessions \cup {None}
  /\ mIsClosed \in [Sessions -> BOOLEAN]
  /\ created \in 0 .. MaxSessions
  /\ activeGroup \in Sessions \cup {None}
  /\ framework \in Sessions \cup {None}
  /\ obituary \in Sessions \cup {None}
  /\ queue \in Seq(Requests) /\ Len(queue) <= MAX_WORKER_QUEUE_SIZE
  /\ task \in Requests \cup {None}
  /\ made \in 0 .. MaxRequests
  /\ op \in [Requests -> Ops \cup {"none"}]
  /\ owner \in [Requests -> Sessions \cup {None}]
  /\ phase \in [Requests -> Phase]
  /\ cancelled \in [Requests -> BOOLEAN]
  /\ message \in Message \cup {NoMessage}
  /\ aborted \in BOOLEAN
  /\ closes \in [Sessions -> Nat]
  /\ orphans \subseteq Sessions
  /\ refused \subseteq Sessions
  /\ answers \in [Requests -> Seq(Answer)]
  /\ strays \in [Sessions -> Nat]

\* A request ends at most once, whatever is cancelled, refused, closed or dies meanwhile:
\* nothing follows its CANCELED, its error or its last message, and no request but a
\* removal gets a terminal callback before.
EndedAtMostOnce ==
  \A r \in Requests : \A i \in 1 .. Len(answers[r]) :
    IF answers[r][i].what = "part" THEN IsRemoval(r) ELSE i = Len(answers[r])

\* The check of isClosed() in notify() and the call that follows it are not atomic:
\* one message may slip in after close(), a second one never does.
AtMostOneStray == \A s \in Sessions : strays[s] <= 1

\* The death recipient of a session is deleted at most once, by a client that closes its
\* session once, although the report of its death may cross with the close().
ClosedAtMostOnce == \A s \in Sessions : closes[s] <= 1

\* The CHECK of createSession ends the process only after a client that died before
\* its death could be watched; closed and mourned sessions never trip it.
AbortsOnlyForOrphans == aborted => mSession \in orphans

\* The device takes the order of r in this step.
Ordered(r) == phase[r] # "working" /\ phase'[r] = "working"

\* An order of a session that is still open reaches the device while it is set to the
\* user of that session or, where the device has refused that, to the last user before
\* that it accepted: never to a later one, and never to one that was replaced.
OpenSessionsOrdersAreDue ==
  [][ \A r \in Requests :
        Ordered(r) /\ ~mIsClosed[owner[r]]
          => activeGroup <= owner[r] /\ (activeGroup + 1) .. owner[r] \subseteq refused ]_vars

\* A request cancelled before the worker gets to it is answered CANCELED.
EarlyCancelIsHonoured ==
  \A r \in Requests :
    (phase[r] = "queued" /\ cancelled[r])
      ~> (aborted \/ \E i \in DOMAIN answers[r] : answers[r][i].what = "CANCELED")

\* The conditions under which the code can be expected to answer at all: the session
\* that asked is the current one and was open from the start.
StillListening(r) ==
  /\ framework # None /\ framework = mSession /\ owner[r] = mSession
  /\ ~mIsClosed[mSession]
  /\ ~aborted

AnsweredToOwner(r) ==
  \E i \in DOMAIN answers[r] : answers[r][i].what # "part" /\ answers[r][i].to = owner[r]

\* Every request the queue accepted is answered, if its refusal is reported and no
\* finger is needed and the session that made it stays open.
AcceptedIsAnswered ==
  \A r \in Requests :
    (phase[r] = "queued" /\ op[r] \in Reported \ Interactive)
      ~> (AnsweredToOwner(r) \/ ~StillListening(r))

-----------------------------------------------------------------------------
(* What the comments of the repository say, and the code does not do.        *)

\* fingerprint-xiaomi.h lists for every operation the callbacks that end it: each
\* request that is made gets one, while its session stays open.
EveryRequestEnds ==
  \A r \in Requests :
    (r <= made /\ op[r] \notin Interactive)
      ~> (AnsweredToOwner(r) \/ ~StillListening(r))

\* fingerprint-xiaomi.h: cancellation is followed by a CANCELED message, unless the
\* operation ends by itself first, and while its session stays open.
CancelIsHonoured ==
  \A r \in Requests :
    (cancelled[r] /\ phase[r] # "rejected") ~> (AnsweredToOwner(r) \/ ~StillListening(r))

\* fingerprint-xiaomi.h: what is asked of the device is for the user of the session that
\* asks; so an order that was still queued when its session was closed does not reach the
\* device once that is set to the user of a later session.
NoOrderForLaterUser ==
  [][ \A r \in Requests : Ordered(r) => activeGroup <= owner[r] ]_vars

=============================================================================
