---------------------- MODULE RenderBrokerQueueProofs -----------------------
(***************************************************************************)
(* The queues of the render broker, for any number of requesters and any   *)
(* capacity: their bounds, and what is left after the shutdown.            *)
(***************************************************************************)
EXTENDS RenderBrokerProofs, FiniteSetTheorems, WellFoundedInduction

(* A queue for the requests of a map with domain ids. *)
QueueFits(queue, ids) ==
  /\ queue \in Seq(Queued)
  /\ Cardinality(Updates(queue)) <= Capacity
  /\ \A k \in DOMAIN queue : queue[k].type = "request" =>
       queue[k].id \in ids /\ \A j \in 1..k-1 : queue[j] # queue[k]

(* The map, and the updates in the queue, are within the capacity. *)
QueueInv ==
  /\ IsFiniteSet(DOMAIN pending) /\ Cardinality(DOMAIN pending) <= Capacity
  /\ QueueFits(outbound, DOMAIN pending)
  /\ submissions \in Seq(Submission) /\ Len(submissions) <= Capacity
  /\ closed \in BOOLEAN /\ expired \subseteq Id /\ next_request_id \in 1..MaxId+1
  /\ ClosedIsEmpty

BrokerInv == AnswerInv /\ QueueInv

----------------------------------------------------------------------------
(* Every non-empty set of naturals has a least element. *)
LEMMA LeastNatural ==
  ASSUME NEW T \in SUBSET Nat, T # {}
  PROVE  \E m \in T : \A n \in T : m <= n
<1> DEFINE R == OpToRel(<, Nat)
<1>1. IsWellFoundedOn(R, Nat)
  BY NatLessThanWellFounded
<1>2. \A m, n \in Nat : n < m => <<n, m>> \in R
  BY DEF OpToRel
<1> HIDE DEF R
<1>3. PICK m \in T : \A n \in T : ~ (<<n, m>> \in R)
  BY <1>1, WFMin
<1>4. \A n \in T : ~ (n < m)
  BY <1>2, <1>3
<1>5. QED
  BY <1>4

(* The positions of the updates are a finite set. *)
LEMMA UpdatesFinite ==
  ASSUME NEW queue \in Seq(Queued)
  PROVE  IsFiniteSet(Updates(queue)) /\ Cardinality(Updates(queue)) \in Nat
<1>1. IsFiniteSet(1..Len(queue)) /\ Updates(queue) \in SUBSET (1..Len(queue))
  BY FS_Interval DEF Updates
<1>2. QED
  BY <1>1, FS_Subset, FS_CardinalityType

(* The size of a disjoint union. *)
LEMMA DisjointUnion ==
  ASSUME NEW S, IsFiniteSet(S), NEW T, IsFiniteSet(T), S \cap T = {}
  PROVE  Cardinality(S \cup T) = Cardinality(S) + Cardinality(T)
<1>1. Cardinality(S \cap T) = 0
  <2>1. Cardinality({}) = 0
    BY FS_EmptySet
  <2>2. QED
    BY <2>1
<1>2. Cardinality(S) \in Nat /\ Cardinality(T) \in Nat
  BY FS_CardinalityType
<1>3. Cardinality(S \cup T) = Cardinality(S) + Cardinality(T) - Cardinality(S \cap T)
  BY FS_Union
<1>4. QED
  BY <1>1, <1>2, <1>3

(* A queue whose messages stand, in the same order, in a queue that fits,  *)
(* fits too: e gives the old position of each message.                     *)
LEMMA ThinnedFits ==
  ASSUME NEW old, NEW new \in Seq(Queued), NEW ids, NEW left, QueueFits(old, ids),
         NEW e \in [DOMAIN new -> DOMAIN old],
         \A k \in DOMAIN new : new[k] = old[e[k]],
         \A j, k \in DOMAIN new : j < k => e[j] < e[k],
         \A k \in DOMAIN new : new[k].type = "request" /\ new[k].id \in ids => new[k].id \in left
  PROVE  QueueFits(new, left)
<1>1. /\ old \in Seq(Queued) /\ DOMAIN old = 1..Len(old) /\ Len(old) \in Nat
      /\ DOMAIN new = 1..Len(new) /\ Len(new) \in Nat
  BY DEF QueueFits
<1>2. Cardinality(Updates(new)) <= Cardinality(Updates(old))
  <2> DEFINE f == [k \in Updates(new) |-> e[k]]
  <2>1. \A j, k \in DOMAIN new : e[j] = e[k] => j = k
    <3> SUFFICES ASSUME NEW j \in DOMAIN new, NEW k \in DOMAIN new, e[j] = e[k] PROVE j = k
      OBVIOUS
    <3>1. j \in Nat /\ k \in Nat /\ e[j] \in Nat
      BY <1>1
    <3>2. QED
      BY <3>1
  <2>2. \A k \in Updates(new) : k \in DOMAIN new /\ e[k] \in Updates(old)
    BY DEF Updates
  <2>3. f \in Injection(Updates(new), Updates(old))
    BY <2>1, <2>2 DEF Injection, IsInjective
  <2>4. QED
    BY <1>1, <2>3, UpdatesFinite, FS_Injection
<1>3. Cardinality(Updates(new)) <= Capacity
  BY <1>1, <1>2, UpdatesFinite, BrokerAssumption DEF QueueFits
<1>4. ASSUME NEW k \in DOMAIN new, new[k].type = "request"
      PROVE  new[k].id \in left /\ \A j \in 1..k-1 : new[j] # new[k]
  <2>1. new[k] = old[e[k]] /\ e[k] \in DOMAIN old
    OBVIOUS
  <2>2. new[k].id \in ids /\ \A j \in 1..e[k]-1 : old[j] # new[k]
    BY <1>4, <2>1 DEF QueueFits
  <2>3. ASSUME NEW j \in 1..k-1 PROVE new[j] # new[k]
    <3>1. j \in DOMAIN new /\ j < k
      BY <1>1
    <3>2. e[j] < e[k] /\ e[j] \in 1..Len(old) /\ e[k] \in 1..Len(old) /\ new[j] = old[e[j]]
      BY <1>1, <3>1
    <3>3. e[j] \in 1..e[k]-1
      BY <1>1, <3>2
    <3>4. QED
      BY <2>2, <3>2, <3>3
  <2>4. QED
    BY <1>4, <2>2, <2>3
<1>5. QED
  BY <1>3, <1>4 DEF QueueFits

(* What is where once one message has been removed. *)
LEMMA RemoveAtPositions ==
  ASSUME NEW S, NEW s \in Seq(S), NEW i \in 1..Len(s)
  PROVE  /\ RemoveAt(s, i) \in Seq(S) /\ DOMAIN RemoveAt(s, i) = 1..Len(s)-1
         /\ \A j \in 1..i-1 : RemoveAt(s, i)[j] = s[j]
         /\ \A j \in i..Len(s)-1 : RemoveAt(s, i)[j] = s[j + 1]
<1> DEFINE a == SubSeq(s, 1, i - 1)
           b == SubSeq(s, i + 1, Len(s))
           r == RemoveAt(s, i)
<1>1. a \in Seq(S) /\ Len(a) = i - 1 /\ \A j \in 1..i-1 : a[j] = s[j]
  OBVIOUS
<1>2. b \in Seq(S) /\ Len(b) = Len(s) - i /\ \A j \in 1..Len(s)-i : b[j] = s[i + j]
  OBVIOUS
<1>3. r = a \o b
  BY DEF RemoveAt
<1> HIDE DEF a, b, r
<1>4. r \in Seq(S) /\ DOMAIN r = 1..Len(s)-1 /\ Len(s) \in Nat
  BY <1>1, <1>2, <1>3
<1>5. \A j \in 1..i-1 : r[j] = s[j]
  BY <1>1, <1>2, <1>3
<1>6. \A j \in i..Len(s)-1 : r[j] = s[j + 1]
  <2>1. TAKE j \in i..Len(s)-1
  <2>2. r[j] = b[j - (i - 1)]
    BY <1>1, <1>2, <1>3
  <2>3. QED
    BY <1>2, <2>2
<1>7. QED
  BY <1>4, <1>5, <1>6 DEF r

(* The retain calls leave a queue for the requests that are left. *)
LEMMA UnqueuedFits ==
  ASSUME NEW queue, NEW ids, QueueFits(queue, ids), NEW i
  PROVE  QueueFits(Unqueued(queue, i), ids \ {i})
<1> DEFINE m == AsRequest(i)
           n == Len(queue)
           new == Unqueued(queue, i)
<1>1. queue \in Seq(Queued) /\ DOMAIN queue = 1..n /\ n \in Nat
  BY DEF QueueFits
<1>2. m.type = "request" /\ m.id = i
  BY DEF AsRequest
<1>3. \A k \in DOMAIN queue : queue[k].type = "request" /\ queue[k].id = i => queue[k] = m
  BY <1>1 DEF Queued, AsRequest
<1> HIDE DEF m, new
<1>4. CASE ~ \E k \in 1..n : queue[k] = m
  <2>1. new = queue
    BY <1>4 DEF new, m, Unqueued, RemoveFirst
  <2>2. QED
    BY <1>1, <1>3, <1>4, <2>1 DEF new, QueueFits
<1>5. ASSUME NEW k \in 1..n, queue[k] = m PROVE QueueFits(new, ids \ {i})
  <2>1. \A j \in 1..n : queue[j] = m => j = k
    <3> SUFFICES ASSUME NEW j \in 1..n, queue[j] = m, j # k PROVE FALSE
      OBVIOUS
    <3>1. j \in 1..k-1 \/ k \in 1..j-1
      BY <1>1
    <3>2. QED
      BY <1>1, <1>2, <1>5, <3>1 DEF QueueFits
  <2>2. {j \in 1..n : queue[j] = m} = {k}
    BY <1>5, <2>1
  <2>3. Min({k}) = k
    BY DEF Min
  <2>4. new = RemoveAt(queue, k)
    BY <1>5, <2>2, <2>3 DEF new, m, Unqueued, RemoveFirst, SelectInSeq
  <2>5. /\ new \in Seq(Queued) /\ DOMAIN new = 1..n-1
        /\ \A j \in 1..k-1 : new[j] = queue[j]
        /\ \A j \in k..n-1 : new[j] = queue[j + 1]
    BY <1>1, <2>4, RemoveAtPositions
  <2> DEFINE e == [j \in DOMAIN new |-> IF j < k THEN j ELSE j + 1]
  <2>11. /\ e \in [DOMAIN new -> DOMAIN queue]
         /\ \A j \in DOMAIN new : new[j] = queue[e[j]] /\ e[j] # k
         /\ \A j, l \in DOMAIN new : j < l => e[j] < e[l]
    BY <1>1, <2>5
  <2> HIDE DEF e
  <2>12. \A j \in DOMAIN new : new[j].type = "request" /\ new[j].id \in ids => new[j].id \in ids \ {i}
    BY <1>1, <1>3, <2>1, <2>11
  <2>13. new \in Seq(Queued)
    BY <2>5
  <2>14. QED
    BY <2>11, <2>12, <2>13, ThinnedFits
<1>6. QED
  BY <1>4, <1>5 DEF new
(* poll_message takes away a prefix of the queue. *)
LEMMA RestFits ==
  ASSUME NEW queue, NEW ids, QueueFits(queue, ids), NEW n \in 0..Len(queue)
  PROVE  QueueFits(SubSeq(queue, n + 1, Len(queue)), ids)
<1> DEFINE new == SubSeq(queue, n + 1, Len(queue))
           e == [k \in DOMAIN new |-> n + k]
<1>1. queue \in Seq(Queued) /\ DOMAIN queue = 1..Len(queue) /\ Len(queue) \in Nat
  BY DEF QueueFits
<1>2. /\ new \in Seq(Queued) /\ DOMAIN new = 1..Len(queue)-n
      /\ \A k \in 1..Len(queue)-n : new[k] = queue[n + k]
  BY <1>1
<1> HIDE DEF new
<1>3. /\ e \in [DOMAIN new -> DOMAIN queue]
      /\ \A k \in DOMAIN new : new[k] = queue[e[k]]
      /\ \A j, k \in DOMAIN new : j < k => e[j] < e[k]
  BY <1>1, <1>2
<1> HIDE DEF e
<1>4. new \in Seq(Queued)
  BY <1>2
<1>5. QueueFits(new, ids)
  BY <1>3, <1>4, ThinnedFits
<1>6. QED
  BY <1>5 DEF new

(* An empty queue fits any map. *)
LEMMA EmptyFits == ASSUME NEW ids PROVE QueueFits(<<>>, ids)
<1>1. Updates(<<>>) = {} /\ <<>> \in Seq(Queued) /\ DOMAIN <<>> = {}
  BY DEF Updates
<1>2. QED
  BY <1>1, FS_EmptySet, BrokerAssumption DEF QueueFits

(* A request is queued when it is registered. *)
LEMMA RegisteredFits ==
  ASSUME NEW queue, NEW ids, QueueFits(queue, ids), NEW i \in Id, i \notin ids
  PROVE  QueueFits(Append(queue, AsRequest(i)), ids \cup {i})
<1> DEFINE m == AsRequest(i)
           n == Len(queue)
           new == Append(queue, m)
<1>1. queue \in Seq(Queued) /\ DOMAIN queue = 1..n /\ n \in Nat
  BY DEF QueueFits
<1>2. m \in Queued /\ m.type = "request" /\ m.id = i
  BY DEF AsRequest, Queued
<1> HIDE DEF m
<1>3. /\ new \in Seq(Queued) /\ DOMAIN new = 1..n+1 /\ new[n + 1] = m
      /\ \A k \in 1..n : new[k] = queue[k]
  BY <1>1, <1>2
<1> HIDE DEF new, n
<1>4. Updates(new) = Updates(queue)
  BY <1>1, <1>2, <1>3 DEF Updates
<1>5. \A k \in 1..n : queue[k] # m
  BY <1>1, <1>2 DEF QueueFits
<1>6. ASSUME NEW k \in DOMAIN new, new[k].type = "request"
      PROVE  new[k].id \in ids \cup {i} /\ \A j \in 1..k-1 : new[j] # new[k]
  <2>1. CASE k = n + 1
    BY <1>1, <1>2, <1>3, <1>5, <2>1
  <2>2. CASE k \in 1..n
    <3>1. queue[k].id \in ids /\ \A j \in 1..k-1 : queue[j] # queue[k]
      BY <1>1, <1>3, <1>6, <2>2 DEF QueueFits
    <3>2. \A j \in 1..k-1 : j \in 1..n
      BY <1>1, <2>2
    <3>3. QED
      BY <1>3, <2>2, <3>1, <3>2
  <2>3. QED
    BY <1>1, <1>3, <2>1, <2>2
<1>7. QED
  BY <1>3, <1>4, <1>6 DEF QueueFits, new, m

(* Updates are queued when they fit. *)
LEMMA PublishedFits ==
  ASSUME NEW queue, NEW ids, QueueFits(queue, ids),
         NEW us \in Seq(Update), UpdatesFit(queue, Len(us))
  PROVE  QueueFits(queue \o [k \in 1..Len(us) |-> AsUpdate(us[k])], ids)
<1> DEFINE n == Len(queue)
           c == Len(us)
           more == [k \in 1..c |-> AsUpdate(us[k])]
           new == queue \o more
<1>1. queue \in Seq(Queued) /\ DOMAIN queue = 1..n /\ n \in Nat /\ c \in Nat
  BY DEF QueueFits
<1>2. \A u \in Update : AsUpdate(u) \in Queued /\ AsUpdate(u).type = "update"
  BY DEF AsUpdate, Queued
<1>3. more \in Seq(Queued) /\ Len(more) = c /\ \A k \in 1..c : more[k].type = "update"
  BY <1>1, <1>2
<1> HIDE DEF more
<1>4. /\ new \in Seq(Queued) /\ DOMAIN new = 1..n+c
      /\ \A k \in 1..n : new[k] = queue[k]
      /\ \A k \in n+1..n+c : new[k] = more[k - n]
  BY <1>1, <1>3
<1> HIDE DEF new
<1>5. \A k \in n+1..n+c : new[k].type = "update"
  <2> SUFFICES ASSUME NEW k \in n+1..n+c PROVE new[k].type = "update"
    OBVIOUS
  <2>1. k - n \in 1..c
    BY <1>1
  <2>2. QED
    BY <1>3, <1>4, <2>1
<1> HIDE DEF n, c
<1>6. Updates(new) = Updates(queue) \cup (n+1..n+c)
  BY <1>1, <1>4, <1>5 DEF Updates
<1>7. /\ IsFiniteSet(n+1..n+c) /\ Cardinality(n+1..n+c) = c
      /\ Updates(queue) \cap (n+1..n+c) = {}
  <2>1. Updates(queue) \cap (n+1..n+c) = {}
    BY <1>1 DEF Updates
  <2>2. IsFiniteSet(n+1..n+c) /\ Cardinality(n+1..n+c) = IF n+1 > n+c THEN 0 ELSE (n+c)-(n+1)+1
    BY <1>1, FS_Interval
  <2>3. QED
    BY <1>1, <2>1, <2>2
<1>8. Cardinality(Updates(new)) = Cardinality(Updates(queue)) + c
  <2>1. IsFiniteSet(Updates(queue))
    BY <1>1, UpdatesFinite
  <2>2. Cardinality(Updates(queue) \cup (n+1..n+c)) = Cardinality(Updates(queue)) + Cardinality(n+1..n+c)
    BY <1>7, <2>1, DisjointUnion
  <2>3. QED
    BY <1>6, <1>7, <2>2
<1>9. ASSUME NEW k \in DOMAIN new, new[k].type = "request"
      PROVE  new[k].id \in ids /\ \A j \in 1..k-1 : new[j] # new[k]
  <2>1. k \in 1..n
    BY <1>1, <1>4, <1>5, <1>9
  <2>2. queue[k].id \in ids /\ \A j \in 1..k-1 : queue[j] # queue[k]
    BY <1>1, <1>4, <1>9, <2>1 DEF QueueFits
  <2>3. \A j \in 1..k-1 : j \in 1..n
    BY <1>1, <2>1
  <2>4. QED
    BY <1>4, <2>1, <2>2, <2>3
<1>10. QueueFits(new, ids)
  BY <1>4, <1>8, <1>9 DEF QueueFits, UpdatesFit, c
<1>11. QED
  BY <1>10 DEF new, more, c

(* A queue that fits is no longer than its two bounds together. *)
LEMMA LengthBound ==
  ASSUME NEW queue, NEW ids, QueueFits(queue, ids),
         IsFiniteSet(ids), Cardinality(ids) <= Capacity
  PROVE  Len(queue) <= 2 * Capacity
<1> DEFINE R == {k \in DOMAIN queue : queue[k].type = "request"}
           f == [k \in R |-> queue[k].id]
<1>1. queue \in Seq(Queued) /\ DOMAIN queue = 1..Len(queue) /\ Len(queue) \in Nat
  BY DEF QueueFits
<1>2. \A k \in R : k \in Nat /\ queue[k].id \in ids /\ queue[k] = AsRequest(queue[k].id)
  BY <1>1 DEF QueueFits, Queued, AsRequest
<1>3. \A j, k \in R : queue[j] = queue[k] => j = k
  <2> SUFFICES ASSUME NEW j \in R, NEW k \in R, queue[j] = queue[k], j # k PROVE FALSE
    OBVIOUS
  <2>1. j \in 1..k-1 \/ k \in 1..j-1
    BY <1>1
  <2>2. QED
    BY <2>1 DEF QueueFits
<1>4. f \in Injection(R, ids)
  <2>1. \A j, k \in R : f[j] = f[k] => j = k
    BY <1>2, <1>3
  <2>2. QED
    BY <1>2, <2>1 DEF Injection, IsInjective
<1>5. IsFiniteSet(R) /\ Cardinality(R) <= Cardinality(ids) /\ Cardinality(R) \in Nat
  BY <1>4, FS_Injection, FS_CardinalityType
<1>6. R \cup Updates(queue) = 1..Len(queue) /\ R \cap Updates(queue) = {}
  BY <1>1 DEF Updates, Queued
<1> HIDE DEF R
<1>7. Cardinality(1..Len(queue)) = Cardinality(R) + Cardinality(Updates(queue))
  <2>1. IsFiniteSet(Updates(queue))
    BY <1>1, UpdatesFinite
  <2>2. Cardinality(R \cup Updates(queue)) = Cardinality(R) + Cardinality(Updates(queue))
    BY <1>5, <1>6, <2>1, DisjointUnion
  <2>3. QED
    BY <1>6, <2>2
<1>8. Cardinality(1..Len(queue)) = Len(queue)
  <2>1. Cardinality(1..Len(queue)) = IF 1 > Len(queue) THEN 0 ELSE Len(queue) - 1 + 1
    BY <1>1, FS_Interval
  <2>2. QED
    BY <1>1, <2>1
<1>9. Cardinality(Updates(queue)) \in Nat /\ Cardinality(Updates(queue)) <= Capacity
  BY <1>1, UpdatesFinite DEF QueueFits
<1>10. Cardinality(ids) \in Nat
  BY FS_CardinalityType
<1>11. QED
  BY <1>1, <1>5, <1>7, <1>8, <1>9, <1>10, BrokerAssumption
(* poll_message finds a live message unless all are dead. *)
LEMMA FirstLiveExists ==
  ASSUME outbound \in Seq(Queued), NEW l \in 1..Len(outbound), ~ Dead(outbound[l])
  PROVE  FirstLive \in 1..Len(outbound)
<1> DEFINE T == {k \in 1..Len(outbound) : ~ Dead(outbound[k])}
<1>1. T \in SUBSET Nat /\ T # {} /\ Len(outbound) \in Nat
  OBVIOUS
<1>2. PICK m \in T : \A n \in T : m <= n
  BY <1>1, LeastNatural
<1>3. \A j \in 1..m-1 : Dead(outbound[j])
  BY <1>1, <1>2
<1>4. QED
  BY <1>2, <1>3 DEF FirstLive

----------------------------------------------------------------------------
(* Every step keeps the invariant of the queues. *)
LEMMA QueueStep == AnswerInv /\ QueueInv /\ [BrokerNext]_bvars => QueueInv'
<1> SUFFICES ASSUME AnswerInv, QueueInv, [BrokerNext]_bvars PROVE QueueInv'
  OBVIOUS
<1>m. IsFiniteSet(DOMAIN pending) /\ Cardinality(DOMAIN pending) <= Capacity
  BY DEF QueueInv
<1>q. QueueFits(outbound, DOMAIN pending)
  BY DEF QueueInv
<1>s. submissions \in Seq(Submission) /\ Len(submissions) <= Capacity
  BY DEF QueueInv
<1>v. closed \in BOOLEAN /\ expired \subseteq Id /\ next_request_id \in 1..MaxId+1
  BY DEF QueueInv
<1>c. ClosedIsEmpty
  BY DEF QueueInv
<1>k. Capacity \in Nat \ {0} /\ MaxId \in Nat
  BY BrokerAssumption
<1>n. Cardinality(DOMAIN pending) \in Nat
  BY <1>m, FS_CardinalityType
<1>w. \A t \in Waiting : call[t].id \in Id
  BY WaitingCall DEF AnswerInv, Shapes
<1>1. ASSUME NEW t \in Requester, NEW q \in Question, Register(t, q) PROVE QueueInv'
  <2>1. next_request_id' \in 1..MaxId+1 /\ UNCHANGED <<closed, submissions, expired>>
    BY <1>1, <1>k, <1>v DEF Register
  <2>2. CASE UNCHANGED <<pending, outbound>>
    BY <1>m, <1>q, <1>s, <1>v, <1>c, <2>1, <2>2 DEF QueueInv, ClosedIsEmpty
  <2>3. CASE /\ ~ closed /\ ~ (Cardinality(DOMAIN pending) >= Capacity)
             /\ pending' = Put(pending, next_request_id, q)
             /\ outbound' = Append(outbound, AsRequest(next_request_id))
    <3>1. DOMAIN pending' = DOMAIN pending \cup {next_request_id}
      BY <2>3 DEF Put
    <3>2. next_request_id \in Id
      BY <1>1, <1>k, <1>v DEF Register, Id
    <3>3. next_request_id \notin DOMAIN pending
      <4>1. \A u \in Waiting : call[u].id < next_request_id
        BY DEF AnswerInv, Shapes
      <4>2. \A i \in DOMAIN pending : \E u \in Waiting : call[u].id = i
        BY AwaitsFields DEF AnswerInv, OwedOneAnswer
      <4>3. QED
        BY <1>v, <4>1, <4>2
    <3>4. IsFiniteSet(DOMAIN pending') /\ Cardinality(DOMAIN pending') <= Capacity
      <4>1. /\ IsFiniteSet(DOMAIN pending \cup {next_request_id})
            /\ Cardinality(DOMAIN pending \cup {next_request_id}) = Cardinality(DOMAIN pending) + 1
        BY <1>m, <3>3, FS_AddElement
      <4>2. QED
        BY <1>k, <1>n, <2>3, <3>1, <4>1
    <3>5. QueueFits(outbound', DOMAIN pending')
      BY <1>q, <2>3, <3>1, <3>2, <3>3, RegisteredFits
    <3>6. QED
      BY <1>s, <1>v, <2>1, <2>3, <3>4, <3>5 DEF QueueInv, ClosedIsEmpty
  <2>4. QED
    BY <1>1, <2>2, <2>3 DEF Register
(* Steps that take one request out of the map and the queue. *)
<1>2. ASSUME NEW i, pending' = Drop(pending, i), outbound' = Unqueued(outbound, i),
             expired' \subseteq Id, UNCHANGED <<closed, submissions, next_request_id>>
      PROVE  QueueInv'
  <2>1. DOMAIN pending' = DOMAIN pending \ {i}
    BY <1>2 DEF Drop, Restrict
  <2>2. IsFiniteSet(DOMAIN pending') /\ Cardinality(DOMAIN pending') <= Capacity
    <3>1. DOMAIN pending' \in SUBSET DOMAIN pending
      BY <2>1
    <3>2. /\ IsFiniteSet(DOMAIN pending')
          /\ Cardinality(DOMAIN pending') <= Cardinality(DOMAIN pending)
          /\ Cardinality(DOMAIN pending') \in Nat
      BY <1>m, <3>1, FS_Subset, FS_CardinalityType
    <3>3. QED
      BY <1>m, <1>k, <1>n, <3>2
  <2>3. QueueFits(outbound', DOMAIN pending')
    BY <1>q, <1>2, <2>1, UnqueuedFits
  <2>4. closed => outbound' = <<>>
    <3> SUFFICES ASSUME outbound = <<>> PROVE outbound' = <<>>
      BY <1>c DEF ClosedIsEmpty
    <3>1. ~ \E k \in 1..Len(<<>>) : <<>>[k] = AsRequest(i)
      OBVIOUS
    <3>2. QED
      BY <1>2, <3>1 DEF Unqueued, RemoveFirst
  <2>5. QED
    BY <1>2, <1>s, <1>v, <1>c, <2>1, <2>2, <2>3, <2>4 DEF QueueInv, ClosedIsEmpty
(* Steps that leave the map and the queue alone. *)
<1>3. ASSUME UNCHANGED <<closed, pending, outbound, next_request_id>>, expired' \subseteq Id,
             submissions' \in Seq(Submission), Len(submissions') <= Capacity,
             closed => submissions' = <<>>
      PROVE  QueueInv'
  BY <1>3, <1>m, <1>q, <1>v, <1>c DEF QueueInv, ClosedIsEmpty
<1>4. ASSUME NEW us \in UpdateBatch, UpdatesFit(outbound, Len(us)), ~ closed,
             outbound' = outbound \o [k \in 1..Len(us) |-> AsUpdate(us[k])],
             submissions' \in Seq(Submission), Len(submissions') <= Capacity,
             UNCHANGED <<closed, pending, expired, next_request_id>>
      PROVE  QueueInv'
  <2>1. us \in Seq(Update)
    <3>1. CASE us = <<>>
      BY <3>1
    <3>2. CASE us \in {<<u>> : u \in Update}
      <4>1. PICK u \in Update : us = <<u>>
        BY <3>2
      <4>2. <<u>> \in Seq(Update)
        OBVIOUS
      <4>3. QED
        BY <4>1, <4>2
    <3>3. CASE us \in {<<u, v>> : u, v \in Update}
      <4>1. PICK u \in Update, v \in Update : us = <<u, v>>
        BY <3>3
      <4>2. <<u, v>> \in Seq(Update)
        OBVIOUS
      <4>3. QED
        BY <4>1, <4>2
    <3>4. QED
      BY <3>1, <3>2, <3>3 DEF UpdateBatch
  <2>2. QueueFits(outbound', DOMAIN pending)
    BY <1>q, <1>4, <2>1, PublishedFits
  <2>3. QED
    BY <1>4, <1>m, <1>v, <2>2 DEF QueueInv, ClosedIsEmpty
<1>5. ASSUME NEW t \in Requester, SeesCancellation(t) \/ SeesDeadline(t) \/ Receives(t)
      PROVE  QueueInv'
  <2>1. CASE GiveUp(t)
    BY <1>2, <1>v, <2>1 DEF GiveUp
  <2>2. CASE Receives(t)
    BY <1>3, <1>s, <1>v, <1>c, <2>2 DEF Receives, ClosedIsEmpty
  <2>3. QED
    BY <1>5, <2>1, <2>2 DEF SeesCancellation, SeesDeadline
<1>6. ASSUME NEW i \in Id, Cancel(i) \/ \E r \in Answer : Respond(i, r) PROVE QueueInv'
  BY <1>2, <1>6, <1>v DEF Cancel, Respond
<1>7. ASSUME NEW s \in sending, Send(s) PROVE QueueInv'
  BY <1>3, <1>7, <1>s, <1>v, <1>c DEF Send, ClosedIsEmpty
<1>8. ASSUME NEW s \in Submission, Submit(s) PROVE QueueInv'
  <2>1. /\ submissions' = Append(submissions, s) /\ ~ closed /\ Len(submissions) < Capacity
        /\ UNCHANGED <<closed, pending, outbound, next_request_id, expired>>
    BY <1>8 DEF Submit
  <2>2. submissions' \in Seq(Submission) /\ Len(submissions') <= Capacity
    BY <1>k, <1>s, <2>1
  <2>3. QED
    BY <1>3, <1>v, <2>1, <2>2
<1>9. ASSUME NEW us \in UpdateBatch, Publish(us) \/ Consume(us) PROVE QueueInv'
  <2>1. CASE Publish(us)
    BY <1>4, <1>s, <2>1 DEF Publish
  <2>2. CASE Consume(us)
    <3>1. /\ submissions' = Tail(submissions) /\ submissions # <<>>
          /\ UNCHANGED <<closed, pending, next_request_id, expired>>
      BY <2>2 DEF Consume
    <3>2. submissions' \in Seq(Submission) /\ Len(submissions') <= Capacity
      BY <1>k, <1>s, <3>1
    <3>3. QED
      BY <1>4, <2>2, <3>1, <3>2 DEF Consume
  <2>3. QED
    BY <1>9, <2>1, <2>2
<1>10. CASE Poll
  <2>1. /\ UNCHANGED <<closed, pending, submissions, next_request_id, expired>>
        /\ outbound # <<>>
    BY <1>10 DEF Poll
  <2>2. QueueFits(outbound', DOMAIN pending)
    <3>1. CASE \A k \in 1..Len(outbound) : Dead(outbound[k])
      <4>1. outbound' = <<>>
        BY <1>10, <3>1 DEF Poll
      <4>2. QED
        BY <4>1, EmptyFits
    <3>2. CASE ~ \A k \in 1..Len(outbound) : Dead(outbound[k])
      <4>1. outbound' = SubSeq(outbound, FirstLive + 1, Len(outbound))
        BY <1>10, <3>2 DEF Poll
      <4>2. FirstLive \in 1..Len(outbound) /\ Len(outbound) \in Nat
        BY <1>q, <3>2, FirstLiveExists DEF QueueFits
      <4>3. FirstLive \in 0..Len(outbound)
        BY <4>2
      <4>4. QED
        BY <1>q, <4>1, <4>3, RestFits
    <3>3. QED
      BY <3>1, <3>2
  <2>3. QED
    BY <1>m, <1>s, <1>v, <1>c, <2>1, <2>2 DEF QueueInv, ClosedIsEmpty
<1>11. CASE Shutdown
  <2>1. /\ closed' = TRUE /\ outbound' = <<>> /\ submissions' = <<>> /\ DOMAIN pending' = {}
        /\ UNCHANGED <<next_request_id, expired>>
    BY <1>11 DEF Shutdown, Empty
  <2>2. QueueFits(outbound', DOMAIN pending')
    BY <2>1, EmptyFits
  <2>3. IsFiniteSet(DOMAIN pending') /\ Cardinality(DOMAIN pending') = 0
    BY <2>1, FS_EmptySet
  <2>4. submissions' \in Seq(Submission) /\ Len(submissions') = 0
    BY <2>1
  <2>5. QED
    BY <1>k, <1>v, <2>1, <2>2, <2>3, <2>4 DEF QueueInv, ClosedIsEmpty
<1>12. QED
  <2>1. ASSUME NEW t \in Requester, DeadlinePasses(t) PROVE QueueInv'
    BY <1>3, <1>s, <1>v, <1>c, <1>w, <2>1 DEF DeadlinePasses, ClosedIsEmpty
  <2>2. CASE UNCHANGED bvars
    BY <1>3, <1>s, <1>v, <1>c, <2>2 DEF bvars, ClosedIsEmpty
  <2>3. QED
    BY <1>1, <1>5, <1>6, <1>7, <1>8, <1>9, <1>10, <1>11, <2>1, <2>2 DEF BrokerNext

(* The broker starts with empty queues. *)
LEMMA BrokerStart == BrokerInit => BrokerInv
<1> SUFFICES ASSUME BrokerInit PROVE BrokerInv
  OBVIOUS
<1>1. /\ DOMAIN pending = {} /\ next_request_id = 1 /\ outbound = <<>>
      /\ submissions = <<>> /\ expired = {} /\ closed = FALSE
  BY DEF BrokerInit, Empty
<1>3. AnswerInv
  BY AnswerStart
<1>4. QueueFits(outbound, DOMAIN pending)
  BY <1>1, EmptyFits
<1>5. IsFiniteSet(DOMAIN pending) /\ Cardinality(DOMAIN pending) = 0
  BY <1>1, FS_EmptySet
<1>6. submissions \in Seq(Submission) /\ Len(submissions) = 0
  BY <1>1
<1>7. QueueInv
  <2>1. next_request_id \in 1..MaxId+1 /\ Cardinality(DOMAIN pending) <= Capacity
        /\ Len(submissions) <= Capacity
    BY <1>1, <1>5, <1>6, BrokerAssumption
  <2>2. closed \in BOOLEAN /\ expired \subseteq Id /\ ClosedIsEmpty
    BY <1>1 DEF ClosedIsEmpty
  <2>3. QED
    BY <1>4, <1>5, <1>6, <2>1, <2>2 DEF QueueInv
<1>8. QED
  BY <1>3, <1>7 DEF BrokerInv

(* Both invariants hold throughout. *)
LEMMA BrokerAlways == BrokerSpec => []BrokerInv
<1>1. BrokerInv /\ [BrokerNext]_bvars => BrokerInv'
  BY AnswerStep, QueueStep DEF BrokerInv
<1>2. QED
  BY <1>1, BrokerStart, PTL DEF BrokerSpec

----------------------------------------------------------------------------
(* The outbound queue, which has no bound of its own, is never longer than *)
(* the two bounds together, and holds no request twice or after it has     *)
(* left the map.                                                           *)
THEOREM OutboundTheorem == BrokerSpec => []OutboundBounded
<1>1. BrokerInv => OutboundBounded
  <2> SUFFICES ASSUME BrokerInv PROVE OutboundBounded
    OBVIOUS
  <2>1. /\ QueueFits(outbound, DOMAIN pending)
        /\ IsFiniteSet(DOMAIN pending) /\ Cardinality(DOMAIN pending) <= Capacity
    BY DEF BrokerInv, QueueInv
  <2>2. Len(outbound) <= 2 * Capacity
    BY <2>1, LengthBound
  <2>3. QED
    BY <2>1, <2>2 DEF OutboundBounded, QueueFits
<1>2. QED
  BY <1>1, BrokerAlways, PTL

(* After the shutdown nothing is queued and nobody is in the map, whatever *)
(* was under way on other threads.                                         *)
THEOREM ClosedTheorem == BrokerSpec => []ClosedIsEmpty
<1>1. BrokerInv => ClosedIsEmpty
  BY DEF BrokerInv, QueueInv
<1>2. QED
  BY <1>1, BrokerAlways, PTL

(* The types of the broker's state, and the bound of the submissions. *)
THEOREM BrokerTypes == BrokerSpec => []BrokerTypeOK
<1>1. BrokerInv => BrokerTypeOK
  <2> SUFFICES ASSUME BrokerInv PROVE BrokerTypeOK
    OBVIOUS
  <2>1. Shapes /\ OwnIds /\ QueueInv
    BY DEF BrokerInv, AnswerInv
  <2>2. /\ closed \in BOOLEAN /\ outbound \in Seq(Queued) /\ expired \subseteq Id
        /\ submissions \in Seq(Submission) /\ Len(submissions) <= Capacity
        /\ next_request_id \in 1..MaxId+1
    BY <2>1 DEF QueueInv, QueueFits
  <2>3. \A t \in Requester : call[t] = Nobody \/ call[t] \in [at : {"waiting"}, id : Id, q : Question]
    BY <2>1 DEF Shapes, Call
  <2>4. DOMAIN answer \subseteq Id
    BY <2>1, WaitingCall DEF Shapes, OwnIds
  <2>5. Range(answer) \subseteq Answer /\ Range(pending) \subseteq Question
    BY <2>1 DEF Shapes, Range
  <2>6. \A s \in sending : s.id \in Id /\ s.r \in Answer
    BY <2>1 DEF Shapes
  <2>7. QED
    BY <2>1, <2>2, <2>3, <2>4, <2>5, <2>6 DEF BrokerTypeOK, Shapes
<1>2. QED
  BY <1>1, BrokerAlways, PTL
=============================================================================
