------------------------- MODULE RenderBrokerProofs -------------------------
(***************************************************************************)
(* The answers of the render broker, for any number of requesters, any     *)
(* capacity, questions and answers: who is owed one, and which one it is.  *)
(***************************************************************************)
EXTENDS RenderBroker, TLAPS

(* An answer that its requester can use for question q. *)
Fits(q, r) ==
  \/ r \in {Cancelled, Failed}
  \/ r.kind = q.kind /\ (r.of # q.of => r.kind \in {"capture", "reset"})

Call == {Nobody} \cup [at : {"waiting"}, id : Id, q : Question]

(* The shapes that BrokerTypeOK leaves open, and the order of identifiers. *)
Shapes ==
  /\ call \in [Requester -> Call]
  /\ sending \subseteq [id : Id, r : Answer]
  /\ DOMAIN pending \subseteq Id /\ \A i \in DOMAIN pending : pending[i] \in Question
  /\ \A i \in DOMAIN answer : answer[i] \in Answer
  /\ next_request_id \in Nat \ {0}
  /\ \A t \in Waiting : call[t].id < next_request_id
  /\ \A s \in sending : s.id < next_request_id

(* An identifier names one requester and one answer on its way to it.      *)
OwnIds ==
  /\ \A t, u \in Waiting : call[t].id = call[u].id => t = u
  /\ \A s, u \in sending : s.id = u.id => s = u
  /\ \A i \in DOMAIN answer : i \notin Promised /\ \E t \in Waiting : call[t].id = i

(* The answers on their way fit too. *)
SendingFits ==
  \A t \in Waiting : \A s \in sending : s.id = call[t].id => Fits(call[t].q, s.r)

AnswerInv == Shapes /\ OwnIds /\ SendingFits /\ OwedOneAnswer /\ AnswersFit

----------------------------------------------------------------------------
(* Facts about the operators of the model. *)
LEMMA AwaitsFields == \A i, q : Awaits(i, q).id = i /\ Awaits(i, q).q = q
BY DEF Awaits

(* An answer that validate_for accepts is one its requester can use. *)
LEMMA ValidFits ==
  ASSUME NEW q \in Question, NEW r \in Answer, ValidFor(q, r)
  PROVE  Fits(q, r)
BY BrokerAssumption DEF Question, Answer, ValidFor, Fits, Cancelled, Failed

(* A requester that waits does so for a question and an identifier. *)
LEMMA WaitingCall ==
  ASSUME call \in [Requester -> Call], NEW t \in Waiting
  PROVE  /\ t \in Requester /\ call[t].id \in Id /\ call[t].q \in Question
         /\ call[t] = Awaits(call[t].id, call[t].q)
BY DEF Waiting, Call, Nobody, Awaits

(* What a requester that begins or ends its wait does to the others. *)
LEMMA CallChanges ==
  ASSUME call \in [Requester -> Call], NEW t \in Requester, NEW i \in Id, NEW q \in Question
  PROVE  /\ call' = [call EXCEPT ![t] = Nobody] =>
              /\ call' \in [Requester -> Call] /\ Waiting' = Waiting \ {t}
              /\ \A u \in Requester \ {t} : call'[u] = call[u]
         /\ call' = [call EXCEPT ![t] = Awaits(i, q)] =>
              /\ call' \in [Requester -> Call] /\ Waiting' = Waiting \cup {t}
              /\ call'[t] = Awaits(i, q) /\ call'[t].id = i /\ call'[t].q = q
              /\ \A u \in Requester \ {t} : call'[u] = call[u]
<1>1. /\ Nobody \in Call /\ Nobody.at # "waiting"
      /\ Awaits(i, q) \in Call /\ Awaits(i, q).at = "waiting"
      /\ Awaits(i, q).id = i /\ Awaits(i, q).q = q
  BY DEF Call, Nobody, Awaits
<1>2. QED
  BY <1>1 DEF Waiting

----------------------------------------------------------------------------
(* What the invariant says, in the forms the steps use. *)
LEMMA AnswerFacts ==
  ASSUME AnswerInv
  PROVE  /\ \A t \in Waiting : call[t].id \in DOMAIN answer => Fits(call[t].q, answer[call[t].id])
         /\ \A t \in Waiting : /\ t \in Requester /\ call[t].id \in Id /\ call[t].q \in Question
                              /\ call[t].id < next_request_id
         /\ \A i \in DOMAIN pending :
              /\ \E t \in Waiting : call[t].id = i /\ call[t].q = pending[i]
              /\ i \in Id /\ pending[i] \in Question
         /\ next_request_id \in Nat \ {0} /\ \A i \in Id : i \in Nat
         /\ \A s \in sending : s.id \in Id /\ s.id \in Nat /\ s.id < next_request_id
<1>s. Shapes
  BY DEF AnswerInv
<1>w. OwedOneAnswer
  BY DEF AnswerInv
<1>a. \A t \in Waiting : call[t].id \in DOMAIN answer => Fits(call[t].q, answer[call[t].id])
  BY DEF AnswerInv, AnswersFit, Fits
<1>c. \A t \in Waiting : /\ t \in Requester /\ call[t].id \in Id /\ call[t].q \in Question
                         /\ call[t].id < next_request_id
  BY <1>s, WaitingCall DEF Shapes
<1>d. \A i \in DOMAIN pending :
        /\ \E t \in Waiting : call[t].id = i /\ call[t].q = pending[i]
        /\ i \in Id /\ pending[i] \in Question
  BY <1>s, <1>w, AwaitsFields DEF Shapes, OwedOneAnswer
<1>e. next_request_id \in Nat \ {0} /\ \A i \in Id : i \in Nat
  BY <1>s DEF Shapes, Id
<1>g. \A s \in sending : s.id \in Id /\ s.id \in Nat /\ s.id < next_request_id
  BY <1>s, <1>e DEF Shapes
<1>h. QED
  BY <1>a, <1>c, <1>d, <1>e, <1>g

(* The next state's AnswersFit, in the form the steps use. *)
LEMMA AnswersFitNext ==
  ASSUME \A t \in Waiting' : call'[t].id \in DOMAIN answer' =>
                               Fits(call'[t].q, answer'[call'[t].id])
  PROVE  AnswersFit'
BY DEF AnswersFit, Fits

(* A requester registers. *)
LEMMA AnswerRegister ==
  ASSUME AnswerInv, NEW t \in Requester, NEW q \in Question, Register(t, q)
  PROVE  AnswerInv'
<1>s. Shapes
  BY DEF AnswerInv
<1>o. OwnIds
  BY DEF AnswerInv
<1>f. SendingFits
  BY DEF AnswerInv
<1>w. OwedOneAnswer
  BY DEF AnswerInv
<1>a. \A u \in Waiting : call[u].id \in DOMAIN answer => Fits(call[u].q, answer[call[u].id])
  BY AnswerFacts
<1>c. \A u \in Waiting : /\ u \in Requester /\ call[u].id \in Id /\ call[u].q \in Question
                         /\ call[u].id < next_request_id
  BY AnswerFacts
<1>d. \A j \in DOMAIN pending :
        /\ \E u \in Waiting : call[u].id = j /\ call[u].q = pending[j]
        /\ j \in Id /\ pending[j] \in Question
  BY AnswerFacts
<1>e. next_request_id \in Nat \ {0} /\ \A j \in Id : j \in Nat
  BY AnswerFacts
<1>g. \A x \in sending : x.id \in Id /\ x.id \in Nat /\ x.id < next_request_id
  BY AnswerFacts
<1>0. UNCHANGED <<sending, answer>> /\ next_request_id' = next_request_id + 1
  BY DEF Register
<1>1. CASE UNCHANGED <<pending, outbound, call>>
  <2>1. Waiting' = Waiting /\ call' = call /\ pending' = pending /\ Promised' = Promised
    BY <1>0, <1>1 DEF Waiting, Promised
  <2>2. Shapes'
    <3>1. \A u \in Waiting' : call'[u].id < next_request_id'
      BY <1>c, <1>e, <1>0, <2>1
    <3>2. \A s \in sending' : s.id < next_request_id'
      BY <1>e, <1>g, <1>0
    <3>3. QED
      BY <1>s, <1>e, <1>0, <2>1, <3>1, <3>2 DEF Shapes
  <2>3. OwnIds' /\ SendingFits' /\ OwedOneAnswer'
    BY <1>o, <1>f, <1>w, <1>0, <2>1 DEF OwnIds, SendingFits, OwedOneAnswer
  <2>4. AnswersFit'
    BY <1>a, AnswersFitNext, <1>0, <2>1
  <2>5. QED
    BY <2>2, <2>3, <2>4 DEF AnswerInv
<1>2. CASE /\ pending' = Put(pending, next_request_id, q)
           /\ call' = [call EXCEPT ![t] = Awaits(next_request_id, q)]
  <2> DEFINE n == next_request_id
  <2>1. n \in Id /\ t \notin Waiting
    BY <1>e DEF Register, Id, Waiting, Nobody
  <2>2. /\ call' \in [Requester -> Call] /\ Waiting' = Waiting \cup {t}
        /\ call'[t] = Awaits(n, q) /\ call'[t].id = n /\ call'[t].q = q
        /\ \A u \in Requester \ {t} : call'[u] = call[u]
    BY <1>s, <1>2, <2>1, CallChanges DEF Shapes
  <2>3. /\ DOMAIN pending' = DOMAIN pending \cup {n} /\ pending'[n] = q
        /\ \A j \in DOMAIN pending \ {n} : pending'[j] = pending[j]
    <3>1. pending' = [j \in DOMAIN pending \cup {n} |-> IF j = n THEN q ELSE pending[j]]
      BY <1>2 DEF Put
    <3>2. QED
      BY <3>1
  <2>4. next_request_id' = n + 1 /\ n \in Nat
    BY <1>0, <1>e
  <2> HIDE DEF n
  <2>5. /\ \A u \in Waiting : call[u].id # n /\ u # t /\ call'[u] = call[u]
        /\ \A s \in sending : s.id # n
    BY <1>s, <1>c, <1>e, <2>1, <2>2 DEF n, Shapes
  <2>6. n \notin DOMAIN pending /\ n \notin DOMAIN answer
    BY <1>d, <1>o, <2>5 DEF OwnIds
  <2>7. Shapes'
    <3>1. \A u \in Waiting' : call'[u].id < next_request_id'
      BY <1>c, <1>e, <2>2, <2>4, <2>5 DEF n
    <3>2. \A s \in sending' : s.id < next_request_id'
      BY <1>e, <1>g, <1>0
    <3>3. QED
      BY <1>s, <1>d, <1>0, <2>1, <2>2, <2>3, <2>4, <3>1, <3>2 DEF Shapes
  <2>8. OwnIds'
    BY <1>o, <1>0, <2>2, <2>5 DEF OwnIds, Promised
  <2>9. SendingFits' /\ AnswersFit'
    BY <1>a, AnswersFitNext, <1>f, <1>0, <2>2, <2>5, <2>6 DEF SendingFits
  <2>10. OwedOneAnswer'
    BY <1>w, <1>0, <2>2, <2>3, <2>5, <2>6 DEF OwedOneAnswer, Promised
  <2>11. QED
    BY <2>7, <2>8, <2>9, <2>10 DEF AnswerInv
<1>3. QED
  BY <1>1, <1>2 DEF Register

(* Steps that leave requesters and answers alone. *)
LEMMA AnswerKept ==
  ASSUME AnswerInv, UNCHANGED <<pending, sending, answer, call, next_request_id>>
  PROVE  AnswerInv'
<1>s. Shapes
  BY DEF AnswerInv
<1>o. OwnIds
  BY DEF AnswerInv
<1>f. SendingFits
  BY DEF AnswerInv
<1>w. OwedOneAnswer
  BY DEF AnswerInv
<1>a. \A u \in Waiting : call[u].id \in DOMAIN answer => Fits(call[u].q, answer[call[u].id])
  BY AnswerFacts
<1>1. Waiting' = Waiting /\ Promised' = Promised
  BY DEF Waiting, Promised
<1>2. Shapes' /\ OwnIds' /\ SendingFits' /\ OwedOneAnswer'
  BY <1>s, <1>o, <1>f, <1>w, <1>1 DEF Shapes, OwnIds, SendingFits, OwedOneAnswer
<1>3. QED
  BY <1>a, AnswersFitNext, <1>1, <1>2 DEF AnswerInv

(* A requester returns: its request has left the map. *)
LEMMA AnswerLeaves ==
  ASSUME AnswerInv, NEW t \in Waiting, call' = [call EXCEPT ![t] = Nobody],
         answer' = Drop(answer, call[t].id),
         DOMAIN pending' = DOMAIN pending \ {call[t].id},
         \A j \in DOMAIN pending' : pending'[j] = pending[j],
         UNCHANGED <<sending, next_request_id>>
  PROVE  AnswerInv'
<1>s. Shapes
  BY DEF AnswerInv
<1>o. OwnIds
  BY DEF AnswerInv
<1>f. SendingFits
  BY DEF AnswerInv
<1>w. OwedOneAnswer
  BY DEF AnswerInv
<1>a. \A u \in Waiting : call[u].id \in DOMAIN answer => Fits(call[u].q, answer[call[u].id])
  BY AnswerFacts
<1>c. \A u \in Waiting : /\ u \in Requester /\ call[u].id \in Id /\ call[u].q \in Question
                         /\ call[u].id < next_request_id
  BY AnswerFacts
<1>d. \A j \in DOMAIN pending :
        /\ \E u \in Waiting : call[u].id = j /\ call[u].q = pending[j]
        /\ j \in Id /\ pending[j] \in Question
  BY AnswerFacts
<1>1. /\ call' \in [Requester -> Call] /\ Waiting' = Waiting \ {t}
      /\ \A u \in Requester \ {t} : call'[u] = call[u]
  BY <1>s, <1>c, CallChanges DEF Shapes
<1>2. /\ DOMAIN answer' = DOMAIN answer \ {call[t].id}
      /\ \A j \in DOMAIN answer' : answer'[j] = answer[j]
  <2>1. answer' = [j \in DOMAIN answer \ {call[t].id} |-> answer[j]]
    BY DEF Drop, Restrict
  <2>2. QED
    BY <2>1
<1>3. \A u \in Waiting' : u \in Waiting /\ call'[u] = call[u] /\ call[u].id # call[t].id
  BY <1>c, <1>o, <1>1 DEF OwnIds
<1>4. Shapes'
  BY <1>s, <1>d, <1>1, <1>2, <1>3 DEF Shapes
<1>5. OwnIds'
  BY <1>o, <1>c, <1>1, <1>2, <1>3 DEF OwnIds, Promised
<1>6. SendingFits' /\ AnswersFit'
  BY <1>a, AnswersFitNext, <1>f, <1>2, <1>3 DEF SendingFits
<1>7. \A i \in DOMAIN pending' : \E u \in Waiting' : call'[u] = Awaits(i, pending'[i])
  <2> SUFFICES ASSUME NEW i \in DOMAIN pending'
               PROVE  \E u \in Waiting' : call'[u] = Awaits(i, pending'[i])
    OBVIOUS
  <2>1. PICK u \in Waiting : call[u] = Awaits(i, pending[i])
    BY <1>w DEF OwedOneAnswer
  <2>2. u # t
    BY <2>1 DEF Awaits
  <2>3. QED
    BY <1>1, <1>3, <2>1, <2>2
<1>8. OwedOneAnswer'
  BY <1>w, <1>2, <1>3, <1>7 DEF OwedOneAnswer, Promised
<1>9. QED
  BY <1>4, <1>5, <1>6, <1>8 DEF AnswerInv

(* A request is taken from the map and its answer goes on its way. *)
LEMMA AnswerTaken ==
  ASSUME AnswerInv, NEW i \in DOMAIN pending, NEW r \in Answer, Fits(pending[i], r),
         pending' = Drop(pending, i),
         sending' = sending \cup {[id |-> i, r |-> r]},
         UNCHANGED <<answer, call, next_request_id>>
  PROVE  AnswerInv'
<1>s. Shapes
  BY DEF AnswerInv
<1>o. OwnIds
  BY DEF AnswerInv
<1>f. SendingFits
  BY DEF AnswerInv
<1>w. OwedOneAnswer
  BY DEF AnswerInv
<1>a. \A u \in Waiting : call[u].id \in DOMAIN answer => Fits(call[u].q, answer[call[u].id])
  BY AnswerFacts
<1>c. \A u \in Waiting : /\ u \in Requester /\ call[u].id \in Id /\ call[u].q \in Question
                         /\ call[u].id < next_request_id
  BY AnswerFacts
<1>d. \A j \in DOMAIN pending :
        /\ \E u \in Waiting : call[u].id = j /\ call[u].q = pending[j]
        /\ j \in Id /\ pending[j] \in Question
  BY AnswerFacts
<1>1. /\ DOMAIN pending' = DOMAIN pending \ {i}
      /\ \A j \in DOMAIN pending' : pending'[j] = pending[j]
  <2>1. pending' = [j \in DOMAIN pending \ {i} |-> pending[j]]
    BY DEF Drop, Restrict
  <2>2. QED
    BY <2>1
<1>2. PICK t \in Waiting : call[t].id = i /\ call[t].q = pending[i]
  BY <1>d
<1>3. Waiting' = Waiting /\ call' = call /\ answer' = answer
  BY DEF Waiting
<1>4. /\ \A s \in sending' : s \in sending \/ (s.id = i /\ s.r = r /\ s = [id |-> i, r |-> r])
      /\ \A s \in sending : s.id # i
  BY <1>w DEF OwedOneAnswer, Promised
<1>5. Promised' = Promised \cup {i}
  <2>1. [id |-> i, r |-> r] \in sending' /\ [id |-> i, r |-> r].id = i
    OBVIOUS
  <2>2. sending \subseteq sending'
    OBVIOUS
  <2>3. QED
    BY <1>4, <2>1, <2>2 DEF Promised
<1>6. Shapes'
  BY <1>s, <1>c, <1>d, <1>1, <1>2, <1>3, <1>4 DEF Shapes
<1>7. OwnIds'
  BY <1>o, <1>w, <1>3, <1>4, <1>5 DEF OwnIds, OwedOneAnswer
<1>8. SendingFits' /\ AnswersFit'
  BY <1>a, AnswersFitNext, <1>f, <1>o, <1>2, <1>3, <1>4 DEF SendingFits, OwnIds
<1>9. OwedOneAnswer'
  BY <1>w, <1>1, <1>3, <1>5 DEF OwedOneAnswer
<1>10. QED
  BY <1>6, <1>7, <1>8, <1>9 DEF AnswerInv

(* An answer reaches the channel, or nobody. *)
LEMMA AnswerSent ==
  ASSUME AnswerInv, NEW s \in sending, Send(s)
  PROVE  AnswerInv'
<1>s. Shapes
  BY DEF AnswerInv
<1>o. OwnIds
  BY DEF AnswerInv
<1>f. SendingFits
  BY DEF AnswerInv
<1>w. OwedOneAnswer
  BY DEF AnswerInv
<1>a. \A u \in Waiting : call[u].id \in DOMAIN answer => Fits(call[u].q, answer[call[u].id])
  BY AnswerFacts
<1>1. /\ sending' = sending \ {s} /\ UNCHANGED <<pending, call, next_request_id>>
      /\ Waiting' = Waiting
  BY DEF Send, Waiting
<1>2. Promised' = Promised \ {s.id} /\ s.id \in Promised /\ s.r \in Answer
  BY <1>s, <1>o, <1>1 DEF Promised, OwnIds, Shapes
<1>3. CASE answer' = answer /\ \A t \in Waiting : call[t].id # s.id
  <2>1. Shapes' /\ OwnIds'
    BY <1>s, <1>o, <1>1, <1>2, <1>3 DEF Shapes, OwnIds
  <2>2. SendingFits' /\ AnswersFit'
    BY <1>a, AnswersFitNext, <1>f, <1>1, <1>3 DEF SendingFits
  <2>3. OwedOneAnswer'
    BY <1>w, <1>1, <1>2, <1>3 DEF OwedOneAnswer
  <2>4. QED
    BY <2>1, <2>2, <2>3 DEF AnswerInv
<1>4. ASSUME NEW t \in Waiting, call[t].id = s.id, answer' = Put(answer, s.id, s.r)
      PROVE  AnswerInv'
  <2>1. /\ DOMAIN answer' = DOMAIN answer \cup {s.id} /\ answer'[s.id] = s.r
        /\ \A j \in DOMAIN answer \ {s.id} : answer'[j] = answer[j]
    <3>1. answer' = [j \in DOMAIN answer \cup {s.id} |-> IF j = s.id THEN s.r ELSE answer[j]]
      BY <1>4 DEF Put
    <3>2. QED
      BY <3>1
  <2>2. s.id \notin DOMAIN answer /\ s.id \notin DOMAIN pending
    BY <1>o, <1>w, <1>2 DEF OwnIds, OwedOneAnswer
  <2>3. Shapes'
    BY <1>s, <1>1, <1>2, <2>1, <2>2 DEF Shapes
  <2>4. OwnIds'
    BY <1>o, <1>1, <1>2, <1>4, <2>1 DEF OwnIds
  <2>5. SendingFits' /\ AnswersFit'
    BY <1>a, AnswersFitNext, <1>f, <1>1, <1>4, <2>1, <2>2 DEF SendingFits
  <2>6. OwedOneAnswer'
    BY <1>w, <1>1, <1>2, <2>1, <2>2 DEF OwedOneAnswer
  <2>7. QED
    BY <2>3, <2>4, <2>5, <2>6 DEF AnswerInv
<1>5. QED
  BY <1>3, <1>4 DEF Send

(* The shutdown answers everyone in the map. *)
LEMMA AnswerShutdown ==
  ASSUME AnswerInv, Shutdown
  PROVE  AnswerInv'
<1>s. Shapes
  BY DEF AnswerInv
<1>o. OwnIds
  BY DEF AnswerInv
<1>f. SendingFits
  BY DEF AnswerInv
<1>w. OwedOneAnswer
  BY DEF AnswerInv
<1>a. \A u \in Waiting : call[u].id \in DOMAIN answer => Fits(call[u].q, answer[call[u].id])
  BY AnswerFacts
<1>c. \A u \in Waiting : /\ u \in Requester /\ call[u].id \in Id /\ call[u].q \in Question
                         /\ call[u].id < next_request_id
  BY AnswerFacts
<1>d. \A j \in DOMAIN pending :
        /\ \E u \in Waiting : call[u].id = j /\ call[u].q = pending[j]
        /\ j \in Id /\ pending[j] \in Question
  BY AnswerFacts
<1>1. /\ DOMAIN pending' = {} /\ UNCHANGED <<answer, call, next_request_id>>
      /\ Waiting' = Waiting
  BY DEF Shutdown, Empty, Waiting
<1>2. sending' = sending \cup {[id |-> i, r |-> Cancelled] : i \in DOMAIN pending}
  BY DEF Shutdown
<1>3. \A s \in sending' :
        s \in sending \/ (s.id \in DOMAIN pending /\ s = [id |-> s.id, r |-> Cancelled])
  BY <1>2
<1>4. Promised' = Promised \cup DOMAIN pending
  <2>1. \A i \in DOMAIN pending : /\ [id |-> i, r |-> Cancelled] \in sending'
                                  /\ [id |-> i, r |-> Cancelled].id = i
    BY <1>2
  <2>2. sending \subseteq sending'
    BY <1>2
  <2>3. QED
    BY <1>3, <2>1, <2>2 DEF Promised
<1>5. Cancelled \in Answer /\ \A q : Fits(q, Cancelled)
  BY DEF Answer, Fits
<1>6. \A i \in DOMAIN pending : i \in Id /\ i < next_request_id /\ \A s \in sending : s.id # i
  BY <1>c, <1>d, <1>w DEF OwedOneAnswer, Promised
<1>7. Shapes'
  BY <1>s, <1>1, <1>3, <1>5, <1>6 DEF Shapes
<1>8. OwnIds'
  <2>1. \A s, u \in sending' : s.id = u.id => s = u
    BY <1>o, <1>3, <1>6 DEF OwnIds
  <2>2. QED
    BY <1>o, <1>w, <1>1, <1>4, <2>1 DEF OwnIds, OwedOneAnswer
<1>9. SendingFits' /\ AnswersFit'
  BY <1>a, AnswersFitNext, <1>f, <1>1, <1>3, <1>5 DEF SendingFits
<1>10. OwedOneAnswer'
  BY <1>w, <1>1, <1>4 DEF OwedOneAnswer
<1>11. QED
  BY <1>7, <1>8, <1>9, <1>10 DEF AnswerInv

(* The three ways out of the wait loop. *)
LEMMA AnswerReturns ==
  ASSUME AnswerInv, NEW t \in Requester, SeesCancellation(t) \/ SeesDeadline(t) \/ Receives(t)
  PROVE  AnswerInv'
<1>w. OwedOneAnswer
  BY DEF AnswerInv
<1>1. CASE t \in Waiting /\ GiveUp(t)
  <2>1. /\ DOMAIN pending' = DOMAIN pending \ {call[t].id}
        /\ \A j \in DOMAIN pending' : pending'[j] = pending[j]
    <3>1. pending' = [j \in DOMAIN pending \ {call[t].id} |-> pending[j]]
      BY <1>1 DEF GiveUp, Drop, Restrict
    <3>2. QED
      BY <3>1
  <2>2. QED
    BY AnswerLeaves, <1>1, <2>1 DEF GiveUp
<1>2. CASE Receives(t)
  <2>1. t \in Waiting /\ call[t].id \notin DOMAIN pending
    BY <1>w, <1>2 DEF Receives, OwedOneAnswer
  <2>2. QED
    BY AnswerLeaves, <1>2, <2>1 DEF Receives
<1>3. QED
  BY <1>1, <1>2 DEF SeesCancellation, SeesDeadline

(* The renderer answers, or a request is cancelled. *)
LEMMA AnswerGiven ==
  ASSUME AnswerInv, NEW i \in Id, Cancel(i) \/ \E r \in Answer : Respond(i, r)
  PROVE  AnswerInv'
<1>d. \A j \in DOMAIN pending :
        /\ \E u \in Waiting : call[u].id = j /\ call[u].q = pending[j]
        /\ j \in Id /\ pending[j] \in Question
  BY AnswerFacts
<1>1. Cancelled \in Answer /\ Failed \in Answer
      /\ \A q : Fits(q, Cancelled) /\ Fits(q, Failed)
  BY DEF Answer, Fits
<1>2. CASE Cancel(i)
  BY AnswerTaken, <1>1, <1>2 DEF Cancel
<1>3. ASSUME NEW r \in Answer, Respond(i, r) PROVE AnswerInv'
  <2>1. CASE ValidFor(pending[i], r)
    BY AnswerTaken, <1>d, <1>3, <2>1, ValidFits DEF Respond
  <2>2. CASE ~ ValidFor(pending[i], r)
    BY AnswerTaken, <1>1, <1>3, <2>2 DEF Respond
  <2>3. QED
    BY <2>1, <2>2
<1>4. QED
  BY <1>2, <1>3

(* Every step keeps the invariant of the answers. *)
LEMMA AnswerStep == AnswerInv /\ [BrokerNext]_bvars => AnswerInv'
<1> SUFFICES ASSUME AnswerInv, [BrokerNext]_bvars PROVE AnswerInv'
  OBVIOUS
<1>1. ASSUME NEW t \in Requester, DeadlinePasses(t) PROVE AnswerInv'
  BY AnswerKept, <1>1 DEF DeadlinePasses
<1>2. ASSUME NEW us \in UpdateBatch, Publish(us) \/ Consume(us) PROVE AnswerInv'
  BY AnswerKept, <1>2 DEF Publish, Consume
<1>3. CASE Poll
  BY AnswerKept, <1>3 DEF Poll
<1>4. ASSUME NEW s \in Submission, Submit(s) PROVE AnswerInv'
  BY AnswerKept, <1>4 DEF Submit
<1>5. CASE UNCHANGED bvars
  BY AnswerKept, <1>5 DEF bvars
<1>6. QED
  BY AnswerRegister, AnswerSent, AnswerShutdown, AnswerReturns, AnswerGiven,
     <1>1, <1>2, <1>3, <1>4, <1>5 DEF BrokerNext

(* The broker starts with nobody waiting. *)
LEMMA AnswerStart == BrokerInit => AnswerInv
<1> SUFFICES ASSUME BrokerInit PROVE AnswerInv
  OBVIOUS
<1>1. DOMAIN pending = {} /\ DOMAIN answer = {} /\ sending = {} /\ next_request_id = 1
  BY DEF BrokerInit, Empty
<1>2. call \in [Requester -> Call] /\ Waiting = {}
  BY DEF BrokerInit, Call, Waiting, Nobody
<1>3. Shapes
  BY <1>1, <1>2 DEF Shapes
<1>4. OwnIds /\ SendingFits /\ OwedOneAnswer /\ AnswersFit
  BY <1>1, <1>2 DEF OwnIds, SendingFits, OwedOneAnswer, AnswersFit
<1>5. QED
  BY <1>3, <1>4 DEF AnswerInv

(* The invariant of the answers holds throughout. *)
LEMMA AnswerAlways == BrokerSpec => []AnswerInv
BY AnswerStart, AnswerStep, PTL DEF BrokerSpec

----------------------------------------------------------------------------
(* However requesters, the renderer and the shutdown interleave, a waiting *)
(* requester is owed exactly one answer: its request is in the map, or the *)
(* answer is on its way, or it lies in the channel.  No request outlives   *)
(* its requester.                                                          *)
THEOREM OwedTheorem == BrokerSpec => []OwedOneAnswer
<1>1. AnswerInv => OwedOneAnswer
  BY DEF AnswerInv
<1>2. QED
  BY <1>1, AnswerAlways, PTL

(* What a requester receives answers the question it asked, about the      *)
(* subject it asked about.                                                 *)
THEOREM FitTheorem == BrokerSpec => []AnswersFit
<1>1. AnswerInv => AnswersFit
  BY DEF AnswerInv
<1>2. QED
  BY <1>1, AnswerAlways, PTL
=============================================================================
