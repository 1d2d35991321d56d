---------------------------- MODULE RenderBroker ----------------------------
(***************************************************************************)
(* The renderer broker (crates/vixen-ffi/src/renderer_broker.rs): one      *)
(* mutex around an outbound queue of requests and updates for the          *)
(* renderer, a map of requests that wait for an answer, and a queue of     *)
(* submissions from the renderer.  Every definition that touches that      *)
(* state is one critical section of the code; an answer taken from the map *)
(* is sent to its requester after the lock is given back.                  *)
(*                                                                         *)
(* A request asks a kind of question about a subject (a revision, a        *)
(* commit); an answer carries the subject it is about.                     *)
(***************************************************************************)
EXTENDS Integers, Sequences, SequencesExt, FiniteSets, Functions

CONSTANTS Requester,   \* threads that call request_cancellable
          Capacity,    \* RENDER_BROKER_QUEUE_CAPACITY
          Kind,        \* the kinds of question asked
          Subject, Update, Submission,
          MaxId        \* bound on the requests made

ASSUME BrokerAssumption ==
  /\ Capacity \in Nat \ {0} /\ MaxId \in Nat
  /\ Kind \subseteq {"layout", "hit", "text", "capture", "reset"}

VARIABLES closed, outbound, pending, submissions, next_request_id,
          expired,     \* requests whose deadline has passed
          sending,     \* answers taken from the map and not yet sent
          answer,      \* what lies in each requester's channel
          call         \* what each requester is doing

bvars == <<closed, outbound, pending, submissions, next_request_id, expired,
           sending, answer, call>>

Id == 1..MaxId
Question == [kind : Kind, of : Subject]
Cancelled == [kind |-> "cancelled"]
Failed == [kind |-> "failed"]
Answer == [kind : Kind, of : Subject] \cup {Cancelled, Failed}
Queued == [type : {"request"}, id : Id] \cup [type : {"update"}, u : Update]

Nobody == [at |-> "idle", id |-> 0]
Awaits(i, q) == [at |-> "waiting", id |-> i, q |-> q]
Waiting == {t \in Requester : call[t].at = "waiting"}

(* validate_for.  A capture and a reset are not checked for what they are  *)
(* about: a picture does not say which commit it shows.                    *)
ValidFor(q, r) ==
  \/ r.kind \in {"cancelled", "failed"}
  \/ r.kind = q.kind /\ (q.kind \in {"layout", "hit", "text"} => r.of = q.of)

----------------------------------------------------------------------------
AsRequest(i) == [type |-> "request", id |-> i]
AsUpdate(u) == [type |-> "update", u |-> u]

Updates(queue) == {k \in DOMAIN queue : queue[k].type = "update"}

(* Fault of the retain calls: the queued request stays. *)
QueueKept(queue, i) == queue

(* The retain calls.  A request is queued once (OutboundBounded), so there *)
(* is at most one message to remove.                                       *)
Unqueued(queue, i) == RemoveFirst(queue, AsRequest(i))

(* ensure_update_capacity. *)
UpdatesFit(queue, n) == Cardinality(Updates(queue)) + n <= Capacity

Drop(f, i) == Restrict(f, DOMAIN f \ {i})
Put(f, i, x) == [j \in DOMAIN f \cup {i} |-> IF j = i THEN x ELSE f[j]]
Empty == [i \in {} |-> 0]

----------------------------------------------------------------------------
(* Registration in request_cancellable: an identifier, then refused when   *)
(* the broker is closed or full, or registered and queued.                 *)
Register(t, q) ==
  /\ call[t] = Nobody /\ next_request_id <= MaxId
  /\ next_request_id' = next_request_id + 1
  /\ IF closed \/ Cardinality(DOMAIN pending) >= Capacity
     THEN UNCHANGED <<pending, outbound, call>>
     ELSE /\ pending' = Put(pending, next_request_id, q)
          /\ outbound' = Append(outbound, AsRequest(next_request_id))
          /\ call' = [call EXCEPT ![t] = Awaits(next_request_id, q)]
  /\ UNCHANGED <<closed, submissions, expired, sending, answer>>

(* The clock reaches a waiting request's deadline. *)
DeadlinePasses(t) ==
  /\ t \in Waiting /\ call[t].id \notin expired
  /\ expired' = expired \cup {call[t].id}
  /\ UNCHANGED <<closed, outbound, pending, submissions, next_request_id,
                 sending, answer, call>>

(* Fault of GiveUp: the request is left in the map. *)
LeavesPending(t) ==
  /\ call' = [call EXCEPT ![t] = Nobody]
  /\ outbound' = Unqueued(outbound, call[t].id)
  /\ answer' = Drop(answer, call[t].id)
  /\ expired' = expired \ {call[t].id}
  /\ UNCHANGED <<closed, pending, submissions, next_request_id, sending>>

(* remove_pending and return, whatever is in the channel. *)
GiveUp(t) ==
  /\ call' = [call EXCEPT ![t] = Nobody]
  /\ pending' = Drop(pending, call[t].id)
  /\ outbound' = Unqueued(outbound, call[t].id)
  /\ answer' = Drop(answer, call[t].id)
  /\ expired' = expired \ {call[t].id}
  /\ UNCHANGED <<closed, submissions, next_request_id, sending>>

(* The wait loop sees its cancellation, its deadline, or an answer.        *)
SeesCancellation(t) == t \in Waiting /\ GiveUp(t)

(* Fault: the deadline is looked at only once an answer has come. *)
DeadlineAfterAnswer(t) ==
  t \in Waiting /\ call[t].id \in expired \cap DOMAIN answer /\ GiveUp(t)

SeesDeadline(t) == t \in Waiting /\ call[t].id \in expired /\ GiveUp(t)

(* recv_timeout may still return an answer at the deadline itself. *)
Receives(t) ==
  /\ t \in Waiting /\ call[t].id \in DOMAIN answer
  /\ call' = [call EXCEPT ![t] = Nobody]
  /\ answer' = Drop(answer, call[t].id)
  /\ expired' = expired \ {call[t].id}
  /\ UNCHANGED <<closed, outbound, pending, submissions, next_request_id, sending>>

----------------------------------------------------------------------------
(* publish_updates: all or none. *)
Publish(us) ==
  /\ ~ closed /\ UpdatesFit(outbound, Len(us))
  /\ outbound' = outbound \o [k \in 1..Len(us) |-> AsUpdate(us[k])]
  /\ UNCHANGED <<closed, pending, submissions, next_request_id, expired,
                 sending, answer, call>>

(* What poll_message passes over: requests given up or past their deadline.*)
Dead(m) ==
  m.type = "request" /\ (m.id \notin DOMAIN pending \/ m.id \in expired)

FirstLive == CHOOSE k \in 1..Len(outbound) :
               ~ Dead(outbound[k]) /\ \A j \in 1..k-1 : Dead(outbound[j])

(* poll_message takes a live message, or empties a queue of dead ones. *)
Poll ==
  /\ outbound # <<>>
  /\ outbound' = IF \A k \in 1..Len(outbound) : Dead(outbound[k]) THEN <<>>
                 ELSE SubSeq(outbound, FirstLive + 1, Len(outbound))
  /\ UNCHANGED <<closed, pending, submissions, next_request_id, expired,
                 sending, answer, call>>

(* respond: refused after the deadline and when nobody waits; otherwise    *)
(* the request leaves the map and the queue.  An answer that does not fit  *)
(* reaches the requester as a failure.                                     *)
Respond(i, r) ==
  /\ i \in DOMAIN pending \ expired
  /\ pending' = Drop(pending, i)
  /\ outbound' = Unqueued(outbound, i)
  /\ sending' = sending \cup
       {[id |-> i, r |-> IF ValidFor(pending[i], r) THEN r ELSE Failed]}
  /\ UNCHANGED <<closed, submissions, next_request_id, expired, answer, call>>

(* cancel. *)
Cancel(i) ==
  /\ i \in DOMAIN pending
  /\ pending' = Drop(pending, i)
  /\ outbound' = Unqueued(outbound, i)
  /\ sending' = sending \cup {[id |-> i, r |-> Cancelled]}
  /\ UNCHANGED <<closed, submissions, next_request_id, expired, answer, call>>

(* The send of respond, cancel and shutdown, outside the lock; it fails    *)
(* when the requester has returned.                                        *)
Send(s) ==
  /\ s \in sending
  /\ sending' = sending \ {s}
  /\ answer' = IF \E t \in Waiting : call[t].id = s.id
               THEN Put(answer, s.id, s.r) ELSE answer
  /\ UNCHANGED <<closed, outbound, pending, submissions, next_request_id,
                 expired, call>>

----------------------------------------------------------------------------

(* submit. *)
Submit(s) ==
  /\ ~ closed /\ Len(submissions) < Capacity
  /\ submissions' = Append(submissions, s)
  /\ UNCHANGED <<closed, outbound, pending, next_request_id, expired, sending,
                 answer, call>>

(* consume_submission_with_updates of the submission that was peeked: it   *)
(* leaves the queue together with the updates it causes, or stays.         *)
Consume(us) ==
  /\ ~ closed /\ submissions # <<>> /\ UpdatesFit(outbound, Len(us))
  /\ submissions' = Tail(submissions)
  /\ outbound' = outbound \o [k \in 1..Len(us) |-> AsUpdate(us[k])]
  /\ UNCHANGED <<closed, pending, next_request_id, expired, sending, answer, call>>

(* shutdown: the queues are emptied, everyone who waits is answered.       *)
Shutdown ==
  /\ ~ closed /\ closed' = TRUE
  /\ outbound' = <<>> /\ submissions' = <<>> /\ pending' = Empty
  /\ sending' = sending \cup {[id |-> i, r |-> Cancelled] : i \in DOMAIN pending}
  /\ UNCHANGED <<next_request_id, expired, answer, call>>

----------------------------------------------------------------------------
BrokerInit ==
  /\ closed = FALSE /\ outbound = <<>> /\ pending = Empty /\ submissions = <<>>
  /\ next_request_id = 1 /\ expired = {} /\ sending = {} /\ answer = Empty
  /\ call = [t \in Requester |-> Nobody]

UpdateBatch == {<<>>} \cup {<<u>> : u \in Update} \cup {<<u, v>> : u, v \in Update}

BrokerNext ==
  \/ \E t \in Requester : \/ \E q \in Question : Register(t, q)
                          \/ DeadlinePasses(t)
                          \/ SeesCancellation(t)
                          \/ SeesDeadline(t)
                          \/ Receives(t)
  \/ \E us \in UpdateBatch : Publish(us) \/ Consume(us)
  \/ Poll
  \/ \E i \in Id : Cancel(i) \/ \E r \in Answer : Respond(i, r)
  \/ \E s \in sending : Send(s)
  \/ \E s \in Submission : Submit(s)
  \/ Shutdown

(* A requester's wait loop runs every 5 ms, and a thread that has taken an *)
(* answer from the map goes on to send it.  Nothing is assumed of the      *)
(* renderer or of the clock.                                               *)
BrokerFairness ==
  /\ \A t \in Requester : WF_bvars(SeesDeadline(t)) /\ WF_bvars(Receives(t))
  /\ \A i \in Id : WF_bvars(\E s \in sending : s.id = i /\ Send(s))

BrokerSpec == BrokerInit /\ [][BrokerNext]_bvars /\ BrokerFairness

----------------------------------------------------------------------------
(* Types of the broker's state, and its three bounds. *)
BrokerTypeOK ==
  /\ closed \in BOOLEAN
  /\ outbound \in Seq(Queued)
  /\ DOMAIN pending \subseteq Id /\ Range(pending) \subseteq Question
  /\ submissions \in Seq(Submission) /\ Len(submissions) <= Capacity
  /\ next_request_id \in 1..MaxId+1
  /\ expired \subseteq Id
  /\ \A s \in sending : s.id \in Id /\ s.r \in Answer
  /\ DOMAIN answer \subseteq Id /\ Range(answer) \subseteq Answer
  /\ \A t \in Requester : call[t] = Nobody \/ call[t] \in [at : {"waiting"}, id : Id, q : Question]

Promised == {s.id : s \in sending}

(* request_cancellable against respond, cancel, shutdown and remove_pending*)
(* on other threads: a request is in the map exactly while its requester   *)
(* waits and nobody has taken it, so a waiting requester is always owed    *)
(* exactly one answer and no request outlives its requester.               *)
OwedOneAnswer ==
  /\ \A i \in DOMAIN pending :
       /\ i \notin Promised /\ i \notin DOMAIN answer
       /\ \E t \in Waiting : call[t] = Awaits(i, pending[i])
  /\ \A t \in Waiting :
       \/ call[t].id \in DOMAIN pending
       \/ call[t].id \in Promised /\ call[t].id \notin DOMAIN answer
       \/ call[t].id \in DOMAIN answer /\ call[t].id \notin Promised

(* "exact response map": what lies in a requester's channel answers the    *)
(* question that requester asked, about the subject it asked about (only a *)
(* picture does not say), whoever put it there and whatever the renderer   *)
(* sent.                                                                   *)
AnswersFit ==
  \A t \in Waiting : call[t].id \in DOMAIN answer =>
    LET r == answer[call[t].id]
    IN \/ r \in {Cancelled, Failed}
       \/ /\ r.kind = call[t].q.kind
          /\ r.of # call[t].q.of => r.kind \in {"capture", "reset"}

(* outbound has no bound of its own: requests in it are limited by the map *)
(* and updates by ensure_update_capacity, through every retain, poll and   *)
(* shutdown.  No request is queued twice or after it has left the map.     *)
OutboundBounded ==
  /\ Len(outbound) <= 2 * Capacity
  /\ \A k \in DOMAIN outbound : outbound[k].type = "request" =>
       /\ outbound[k].id \in DOMAIN pending
       /\ \A j \in 1..k-1 : outbound[j] # outbound[k]

(* After shutdown nothing is queued, waiting or accepted any more. *)
ClosedIsEmpty ==
  closed => outbound = <<>> /\ submissions = <<>> /\ DOMAIN pending = {}

(* Whoever waits is released by shutdown, without help from the renderer   *)
(* or from any deadline, and by its own deadline, whatever races with it.  *)
(* (The requests are bounded, so that from some time on the only ones that *)
(* still wait are those nobody closed, answered or timed out.)             *)
WaitersReleased == <>[](\A t \in Waiting : ~closed /\ call[t].id \notin expired)

=============================================================================
