-------------------------- MODULE CookieProfile --------------------------
(* The cookies of a profile and everything that changes them.  There are   *)
(* three copies: the jar of the browser core, one jar for the realm of     *)
(* every page runtime, and the profile store, partitioned by origin.       *)
(*   - A main-document load works on a snapshot of the core's jar, and the *)
(*     owner thread applies the difference when the load ends.             *)
(*   - A load of a page resource works on the core's and its runtime's     *)
(*     cookies, merges the store's partition of every origin it contacts,  *)
(*     and its difference is persisted in those partitions and applied to  *)
(*     the runtime's and the core's jar by the owner thread.               *)
(*   - A page's fetch() works on a whole copy, which replaces the jar of   *)
(*     its runtime and the partition of its origin, on a thread of its own.*)
(*   - document.cookie does the same on the owner thread.                  *)
(* The store commits every clear and every put by itself, so writers of a  *)
(* partition interleave between them.  Cookie values are stamps: every     *)
(* Set-Cookie or document.cookie write gets a number of its own.           *)
EXTENDS CookieJar

CONSTANTS
    Origin,      \* origins of the profile: each has a partition in the store
    Runtime,     \* page runtimes
    Identity,    \* cookie identities, a set of naturals
    NameOf,      \* identity -> the rank of its name, the key of a partition
    HostsOf,     \* identity -> the origins whose host the cookie matches
    MaxTasks,    \* bound: loads and fetches started in a behaviour
    MaxWrites,   \* bound: cookies set in a behaviour
    MaxResets    \* bound: clears and restarts

ASSUME ProfileAssumption ==
    /\ Identity \subseteq Nat
    /\ NameOf \in [Identity -> Nat]
    /\ HostsOf \in [Identity -> SUBSET Origin]

VARIABLES core_jar, rt, store, tasks, owner, writes, resets, deleted

Task == 1..MaxTasks

pvars == <<core_jar, rt, store, tasks, owner, writes, resets, deleted>>

New  == [kind |-> "new"]
Over == [kind |-> "over"]
Idle == [at |-> "idle"]

\* Tasks are numbered in the order they start.
Starts(t) == tasks[t] = New /\ \A u \in 1..(t - 1) : tasks[u] # New

\* cookies_for: a partition is read in the order of its keys.
StoreSnapshots(o) == SetToSortSeq(store[o], LAMBDA a, b : NameOf[a.id] < NameOf[b.id])

\* put_cookie: the key of a record is its origin and its name.
PutRow(partition, s) == {h \in partition : NameOf[h.id] # NameOf[s.id]} \cup {s}

MatchesHost(snapshots, o) == SelectSeq(snapshots, LAMBDA s : o \in HostsOf[s.id])

----------------------------------------------------------------------------
(* Main-document loads. *)

StartsNavigation(t) ==
    /\ Starts(t) /\ owner = Idle
    /\ LET base == Snapshots(core_jar)
       IN  tasks' = [tasks EXCEPT ![t] =
               [kind |-> "navigation", base |-> base, jar |-> FromSnapshots(base), own |-> {}]]
    /\ UNCHANGED <<core_jar, rt, store, owner, writes, resets, deleted>>


\* The difference is applied whether the load succeeded or failed.
NavigationLoaded(t) ==
    /\ tasks[t].kind = "navigation" /\ owner = Idle
    /\ core_jar' = apply_delta(core_jar, delta_from_snapshots(tasks[t].jar, tasks[t].base))
    /\ tasks' = [tasks EXCEPT ![t] = Over]
    /\ UNCHANGED <<rt, store, owner, writes, resets, deleted>>

----------------------------------------------------------------------------
(* Loads of stylesheets, images and scripts. *)

StartsResource(t, r) ==
    /\ Starts(t) /\ owner = Idle
    /\ LET base == Snapshots(core_jar) \o Snapshots(rt[r])
       IN  tasks' = [tasks EXCEPT ![t] =
               [kind |-> "resource", runtime |-> r, base |-> base, jar |-> FromSnapshots(base),
                hops |-> <<>>, own |-> {}]]
    /\ UNCHANGED <<core_jar, rt, store, owner, writes, resets, deleted>>

\* merge_profile_cookies: the store's cookies go over the baseline, the
\* load's own changes over both.
Merged(w, o) ==
    LET own  == delta_from_snapshots(w.jar, w.base)
        jar  == FromSnapshots(w.base \o StoreSnapshots(o))
    IN  [base |-> Snapshots(jar), jar |-> apply_delta(jar, own)]

\* One hop of a load that sends credentials (bound: one for every origin).
Contacts(t, o) ==
    /\ tasks[t].kind = "resource"
    /\ o \notin ToSet(tasks[t].hops)
    /\ LET w == tasks[t]
           m == Merged(w, o)
       IN  tasks' = [tasks EXCEPT ![t] =
               [kind |-> "resource", runtime |-> w.runtime, base |-> m.base, jar |-> m.jar,
                hops |-> Append(w.hops, o), own |-> w.own]]
    /\ UNCHANGED <<core_jar, rt, store, owner, writes, resets, deleted>>

\* The owner accepts the load and persists its difference, one partition
\* after the other.
ResourceLoaded(t) ==
    /\ tasks[t].kind = "resource" /\ owner = Idle
    /\ owner' = [at |-> "read", hops |-> tasks[t].hops, left |-> <<>>,
                 runtime |-> tasks[t].runtime, own |-> tasks[t].own,
                 delta |-> delta_from_snapshots(tasks[t].jar, tasks[t].base)]
    /\ tasks' = [tasks EXCEPT ![t] = Over]
    /\ UNCHANGED <<core_jar, rt, store, writes, resets, deleted>>

\* What the owner writes into a partition: the delta against what it holds now.
OwnerReads ==
    /\ owner.at = "read" /\ owner.hops # <<>>
    /\ LET o    == Head(owner.hops)
           kept == Snapshots(apply_delta(FromSnapshots(StoreSnapshots(o)), owner.delta))
       IN  owner' = [owner EXCEPT !.at = "clear", !.left = MatchesHost(kept, o)]
    /\ UNCHANGED <<core_jar, rt, store, tasks, writes, resets, deleted>>

\* All partitions are written: the runtime and the core follow.
OwnerApplies ==
    /\ owner.at = "read" /\ owner.hops = <<>>
    /\ rt' = [rt EXCEPT ![owner.runtime] = apply_delta(@, owner.delta)]
    /\ core_jar' = apply_delta(core_jar, owner.delta)
    /\ owner' = Idle
    /\ UNCHANGED <<store, tasks, writes, resets, deleted>>

\* A store error leaves the partitions written so far and applies nothing.
OwnerFails ==
    /\ owner # Idle
    /\ owner' = Idle
    /\ UNCHANGED <<core_jar, rt, store, tasks, writes, resets, deleted>>

----------------------------------------------------------------------------
(* persist_cookie_snapshots: a transaction that clears the partition, then *)
(* one for every cookie.                                                   *)

OwnerClears ==
    /\ owner.at = "clear"
    /\ store' = [store EXCEPT ![Head(owner.hops)] = {}]
    /\ owner' = [owner EXCEPT !.at = "put"]
    /\ UNCHANGED <<core_jar, rt, tasks, writes, resets, deleted>>

OwnerPuts ==
    /\ owner.at = "put"
    /\ IF owner.left # <<>>
       THEN /\ store' = [store EXCEPT ![Head(owner.hops)] = PutRow(@, Head(owner.left))]
            /\ owner' = [owner EXCEPT !.left = Tail(@)]
       ELSE /\ owner' = [owner EXCEPT !.at = "read", !.hops = Tail(@)]
            /\ UNCHANGED store
    /\ UNCHANGED <<core_jar, rt, tasks, writes, resets, deleted>>

----------------------------------------------------------------------------
(* fetch() and document.cookie. *)

\* load_cookie_jar: the runtime's cookies go over the store's.
PageJar(r, o) == FromSnapshots(StoreSnapshots(o) \o Snapshots(rt[r]))

Written(jar, id, live) == Upsert(jar, [id |-> id, value |-> writes + 1, live |-> live])

StartsFetch(t, r, o) ==
    /\ Starts(t)
    /\ tasks' = [tasks EXCEPT ![t] =
           [kind |-> "fetch", runtime |-> r, origin |-> o, jar |-> PageJar(r, o),
            at |-> "network", left |-> <<>>, own |-> {}]]
    /\ UNCHANGED <<core_jar, rt, store, owner, writes, resets, deleted>>

\* The fetch threads of one runtime commit one at a time: the gate is held
\* from the first to the last step.
GateFree(r) == \A t \in Task :
    tasks[t].kind = "fetch" /\ tasks[t].runtime = r => tasks[t].at = "network"

\* persist_cookie_jar: the copy replaces the runtime's jar, then the partition.
FetchCommits(t) ==
    /\ tasks[t].kind = "fetch" /\ tasks[t].at = "network"
    /\ GateFree(tasks[t].runtime)
    /\ LET kept == Snapshots(tasks[t].jar)
       IN  /\ rt' = [rt EXCEPT ![tasks[t].runtime] = FromSnapshots(kept)]
           /\ tasks' = [tasks EXCEPT ![t].at = "clear",
                                     ![t].left = MatchesHost(kept, tasks[t].origin)]
    /\ UNCHANGED <<core_jar, store, owner, writes, resets, deleted>>

FetchClears(t) ==
    /\ tasks[t].kind = "fetch" /\ tasks[t].at = "clear"
    /\ store' = [store EXCEPT ![tasks[t].origin] = {}]
    /\ tasks' = [tasks EXCEPT ![t].at = "put"]
    /\ UNCHANGED <<core_jar, rt, owner, writes, resets, deleted>>

FetchPuts(t) ==
    /\ tasks[t].kind = "fetch" /\ tasks[t].at = "put"
    /\ IF tasks[t].left # <<>>
       THEN /\ store' = [store EXCEPT ![tasks[t].origin] = PutRow(@, Head(tasks[t].left))]
            /\ tasks' = [tasks EXCEPT ![t].left = Tail(@)]
       ELSE /\ tasks' = [tasks EXCEPT ![t] = Over]
            /\ UNCHANGED store
    /\ UNCHANGED <<core_jar, rt, owner, writes, resets, deleted>>

DocumentCookieSet(r, o, id, live) ==
    /\ owner = Idle /\ writes < MaxWrites /\ o \in HostsOf[id]
    /\ LET kept == Snapshots(Written(PageJar(r, o), id, live))
       IN  /\ rt' = [rt EXCEPT ![r] = FromSnapshots(kept)]
           /\ owner' = [at |-> "clear", hops |-> <<o>>, left |-> MatchesHost(kept, o),
                        runtime |-> r, own |-> {}, delta |-> [upserts |-> {}, removals |-> {}]]
    /\ writes' = writes + 1
    /\ UNCHANGED <<core_jar, store, tasks, resets, deleted>>

----------------------------------------------------------------------------
(* The network, the end of a task, clear-data and restarts. *)

\* The origins whose answer a task may be receiving.
Answering(w) ==
    CASE w.kind = "navigation" -> Origin
      [] w.kind = "resource"   -> IF w.hops = <<>> THEN {} ELSE {Last(w.hops)}
      [] w.kind = "fetch"      -> IF w.at = "network" THEN {w.origin} ELSE {}
      [] OTHER                 -> {}

\* A response sets or, with a date in the past, deletes a cookie.
SetCookie(t, id, live) ==
    /\ writes < MaxWrites
    /\ Answering(tasks[t]) \cap HostsOf[id] # {}
    /\ tasks' = [tasks EXCEPT ![t].jar = Written(@, id, live), ![t].own = @ \cup {id}]
    /\ writes' = writes + 1
    /\ UNCHANGED <<core_jar, rt, store, owner, resets, deleted>>

\* Stop, supersede, close and failed checks drop a load; a fetch is cancelled
\* before its commit or not at all.
Dropped(t) ==
    /\ tasks[t].kind \in {"navigation", "resource", "fetch"}
    /\ tasks[t].kind = "fetch" => tasks[t].at = "network"
    /\ tasks' = [tasks EXCEPT ![t] = Over]
    /\ UNCHANGED <<core_jar, rt, store, owner, writes, resets, deleted>>

\* A new document gets a runtime with an empty jar.
ReplacesRuntime(r) ==
    /\ owner = Idle
    /\ \A t \in Task : tasks[t].kind \in {"resource", "fetch"} => tasks[t].runtime # r
    /\ rt' = [rt EXCEPT ![r] = EmptyJar]
    /\ UNCHANGED <<core_jar, store, tasks, owner, writes, resets, deleted>>

\* Every cookie the profile holds.
Profile == Holdings(core_jar) \cup UNION {Holdings(rt[r]) : r \in Runtime}
               \cup UNION {store[o] : o \in Origin}

ClearProfileData ==
    /\ owner = Idle /\ resets < MaxResets
    /\ core_jar' = EmptyJar
    /\ rt' = [r \in Runtime |-> EmptyJar]
    /\ store' = [o \in Origin |-> {}]
    /\ deleted' = deleted \cup Profile
    /\ resets' = resets + 1
    /\ UNCHANGED <<tasks, owner, writes>>

\* The process ends at any point and the profile is opened again.
Reopens ==
    /\ resets < MaxResets
    /\ core_jar' = EmptyJar
    /\ rt' = [r \in Runtime |-> EmptyJar]
    /\ tasks' = [t \in Task |-> IF tasks[t] = New THEN New ELSE Over]
    /\ owner' = Idle
    /\ resets' = resets + 1
    /\ UNCHANGED <<store, writes, deleted>>

----------------------------------------------------------------------------

ProfileInit ==
    /\ core_jar = EmptyJar
    /\ rt = [r \in Runtime |-> EmptyJar]
    /\ store = [o \in Origin |-> {}]
    /\ tasks = [t \in Task |-> New]
    /\ owner = Idle
    /\ writes = 0 /\ resets = 0 /\ deleted = {}

OwnerSteps == OwnerReads \/ OwnerApplies \/ OwnerFails \/ OwnerClears \/ OwnerPuts

ProfileNext ==
    \/ OwnerSteps
    \/ \E t \in Task :
          \/ StartsNavigation(t) \/ NavigationLoaded(t) \/ ResourceLoaded(t)
          \/ FetchCommits(t) \/ FetchClears(t) \/ FetchPuts(t) \/ Dropped(t)
          \/ \E r \in Runtime : StartsResource(t, r)
          \/ \E r \in Runtime, o \in Origin : StartsFetch(t, r, o)
          \/ \E o \in Origin : Contacts(t, o)
          \/ \E id \in Identity, live \in BOOLEAN : SetCookie(t, id, live)
    \/ \E r \in Runtime, o \in Origin, id \in Identity, live \in BOOLEAN :
          DocumentCookieSet(r, o, id, live)
    \/ \E r \in Runtime : ReplacesRuntime(r)
    \/ ClearProfileData \/ Reopens

ProfileSpec == ProfileInit /\ [][ProfileNext]_pvars

----------------------------------------------------------------------------

\* The identities at which the core's jar changes in a step.
CoreChange == Identities((Holdings(core_jar') \ Holdings(core_jar)) \cup (Holdings(core_jar) \ Holdings(core_jar')))


\* A cookie clear-data deleted never comes back into any copy of the profile:
\* "an active realm cannot repopulate deleted cookies" (the comment on
\* clear_profile_network_state, script.rs).
ClearedStaysCleared == Profile \cap deleted = {}
==========================================================================
