---------------------------- MODULE CookieJar ----------------------------
(* The cookie jar of vixen-net (cookie.rs): a vector of cookies, each with *)
(* the sequence number of its insertion, and the snapshots and deltas by   *)
(* which isolated loads work on a copy of it.  An identity stands for a    *)
(* (name, domain, path) triple and is numbered in the order of those       *)
(* triples; a cookie that is not live has expired.  Creation times and the *)
(* attributes that only decide which request a cookie goes with are left   *)
(* out: nothing here reads them.                                           *)
EXTENDS Naturals, Sequences, SequencesExt

CONSTANT MAX_COOKIES    \* entries a jar may hold

ASSUME CookieCapAssumption == MAX_COOKIES \in Nat \ {0}

EmptyJar == [cookies |-> <<>>, next |-> 0]

\* Vec::swap_remove: the last element takes the place of the removed one.
SwapRemove(s, i) == Front(IF i = Len(s) THEN s ELSE [s EXCEPT ![i] = Last(s)])

OldestAt(cookies) ==
    CHOOSE i \in DOMAIN cookies : \A j \in DOMAIN cookies : cookies[i].seq <= cookies[j].seq

\* A cookie with a known identity replaces the old one in its place and keeps
\* its sequence number; a new one evicts the oldest when the jar is full.
Upsert(jar, c) ==
    LET at   == {i \in DOMAIN jar.cookies : jar.cookies[i].id = c.id}
        kept == IF Len(jar.cookies) >= MAX_COOKIES
                THEN SwapRemove(jar.cookies, OldestAt(jar.cookies)) ELSE jar.cookies
        as(n) == [id |-> c.id, value |-> c.value, live |-> c.live, seq |-> n]
    IN  IF at # {}
        THEN LET i == CHOOSE i \in at : TRUE
             IN  [cookies |-> [jar.cookies EXCEPT ![i] = as(jar.cookies[i].seq)],
                  next |-> jar.next]
        ELSE [cookies |-> Append(kept, as(jar.next)), next |-> jar.next + 1]

\* The live cookies in the order of the vector, without sequence numbers.
Snapshots(jar) ==
    FoldLeft(LAMBDA s, c : IF c.live THEN Append(s, [id |-> c.id, value |-> c.value]) ELSE s,
             <<>>, jar.cookies)

FromSnapshots(snapshots) ==
    FoldLeft(LAMBDA jar, s : Upsert(jar, [id |-> s.id, value |-> s.value, live |-> TRUE]),
             EmptyJar, snapshots)

\* What a list of snapshots says of every identity; the later entry wins.
snapshots_by_identity(snapshots) ==
    {snapshots[i] : i \in {i \in DOMAIN snapshots :
        \A j \in DOMAIN snapshots : snapshots[j].id = snapshots[i].id => j <= i}}

Identities(holdings) == {h.id : h \in holdings}

delta_from_snapshots(jar, baseline) ==
    LET old == snapshots_by_identity(baseline)
        now == snapshots_by_identity(Snapshots(jar))
    IN  [upserts |-> now \ old, removals |-> Identities(old) \ Identities(now)]

apply_delta(jar, delta) ==
    LET retained == [cookies |-> SelectSeq(jar.cookies, LAMBDA c : c.id \notin delta.removals),
                     next |-> jar.next]
    IN  FoldLeft(LAMBDA j, s : Upsert(j, [id |-> s.id, value |-> s.value, live |-> TRUE]),
                 retained, SetToSortSeq(delta.upserts, LAMBDA a, b : a.id < b.id))

\* The live cookies of a jar, as a set.
Holdings(jar) == ToSet(Snapshots(jar))
==========================================================================
