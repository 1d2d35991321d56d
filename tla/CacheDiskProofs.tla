-------------------------- MODULE CacheDiskProofs --------------------------
(***************************************************************************)
(* Theorems about the disk tier of the cache, for any number of keys,      *)
(* bodies and processes and any cap: the rows at rest are within the cap.  *)
(***************************************************************************)
EXTENDS CacheDisk, TLAPS

(* The places from which a process still sums the sizes before it rests. *)
Owing == {"down", "stat", "sweep", "cap", "select", "unlink", "delete"}

(* The inductive invariant: when the rows exceed the cap some process is   *)
(* still going to sum them.                                                *)
OneJobEach == job = [p \in Proc |-> job[p]]
CapInv == /\ OneJobEach
          /\ RowBytes <= DiskMax \/ \E p \in Proc : job[p].at \in Owing

(* Going on with a job changes the job of one process. *)
LEMMA GoLemma ==
  ASSUME OneJobEach, NEW p \in Proc, NEW j, Go(p, j)
  PROVE  /\ OneJobEach'
         /\ job'[p] = j
         /\ \A q \in Proc \ {p} : job'[q] = job[q]
  BY DEF Go, OneJobEach

(* A process that sums after its step keeps the invariant whatever the     *)
(* step did to the rows.                                                   *)
LEMMA OwesLemma ==
  ASSUME CapInv, NEW p \in Proc, NEW j, j.at \in Owing, Go(p, j)
  PROVE  CapInv'
  BY GoLemma DEF CapInv

(* A step that leaves the rows alone may only take a process out of Owing  *)
(* when the rows are within the cap.                                       *)
LEMMA RestsLemma ==
  ASSUME CapInv, NEW p \in Proc, NEW j, Go(p, j), row' = row,
         RowBytes <= DiskMax \/ job[p].at \notin Owing
  PROVE  CapInv'
<1>1. RowBytes' = RowBytes
  BY DEF RowBytes
<1>2. QED
  BY <1>1, GoLemma DEF CapInv

(* The step of one process keeps the invariant. *)
LEMMA CapStep ==
  ASSUME CapInv, "prepare" \notin Faults, NEW p \in Proc, Step(p)
  PROVE  CapInv'
<1>1. CASE Stat(p)
  <2>1. CASE job[p].todo = {}
    BY <1>1, <2>1, OwesLemma DEF Stat, Owing
  <2>2. CASE job[p].todo # {}
    <3>1. PICK k \in job[p].todo :
            Go(p, [at |-> "stat", todo |-> job[p].todo \ {k},
                   missing |-> job[p].missing \cup ({k} \ DOMAIN file)])
      BY <1>1, <2>2 DEF Stat
    <3>2. QED
      BY <3>1, OwesLemma DEF Owing
  <2>3. QED BY <2>1, <2>2
<1>2. CASE Sweep(p)
  <2>1. CASE job[p].missing = {}
    BY <1>2, <2>1, OwesLemma DEF Sweep, Enforce, Owing
  <2>2. CASE job[p].missing # {}
    <3>1. PICK k \in job[p].missing : Go(p, [at |-> "sweep", missing |-> job[p].missing \ {k}])
      BY <1>2, <2>2 DEF Sweep
    <3>2. QED
      BY <3>1, OwesLemma DEF Owing
  <2>3. QED BY <2>1, <2>2
<1>3. CASE CapCheck(p)
  <2>1. CASE RowBytes <= DiskMax /\ Finish(p)
    BY <1>3, <2>1, RestsLemma DEF CapCheck, Finish
  <2>2. CASE Go(p, [at |-> "select"])
    BY <2>2, OwesLemma DEF Owing
  <2>3. QED BY <1>3, <2>1, <2>2 DEF CapCheck
<1>4. CASE CapSelect(p)
  <2>1. CASE DOMAIN row = {} /\ Finish(p)
    <3>1. RowBytes <= DiskMax
      BY <2>1, DiskBoundAssumption DEF RowBytes, SumSizes
    <3>2. QED BY <1>4, <2>1, <3>1, RestsLemma DEF CapSelect, Finish
  <2>2. ASSUME NEW s, Go(p, [at |-> "unlink", victims |-> s]) PROVE CapInv'
    BY <2>2, OwesLemma DEF Owing
  <2>3. QED BY <1>4, <2>1, <2>2 DEF CapSelect
<1>5. CASE EvictBody(p)
  BY <1>5, OwesLemma DEF EvictBody, Owing
<1>6. CASE EvictRow(p) \/ EvictRowFails(p)
  <2>1. AfterVictim(p)
    BY <1>6 DEF EvictRow, EvictRowFails
  <2>2. QED BY <2>1, OwesLemma DEF AfterVictim, Enforce, Owing
<1>7. CASE StoreWritten(p)
  BY <1>7, RestsLemma DEF StoreWritten, At, Owing
<1>8. CASE StoreWriteFails(p)
  BY <1>8, RestsLemma DEF StoreWriteFails, Finish, At, Owing
<1>9. CASE StoreInsert(p)
  BY <1>9, OwesLemma DEF StoreInsert, Enforce, Owing
<1>10. CASE StoreInsertFails(p)
  BY <1>10, OwesLemma DEF StoreInsertFails, Enforce, Owing
<1>11. CASE LoadBody(p)
  <2>1. job[p].at \notin Owing /\ row' = row
    BY <1>11 DEF LoadBody, At, Owing
  <2>2. CASE job[p].key \in DOMAIN file
    BY <1>11, <2>1, <2>2, RestsLemma DEF LoadBody
  <2>3. CASE job[p].key \notin DOMAIN file
    BY <1>11, <2>1, <2>3, RestsLemma DEF LoadBody, Finish
  <2>4. QED BY <2>2, <2>3
<1>12. CASE LoadTouch(p)
  BY <1>12, RestsLemma DEF LoadTouch, Finish, At, Owing
<1>13. QED
  BY <1>1, <1>2, <1>3, <1>4, <1>5, <1>6, <1>7, <1>8, <1>9, <1>10, <1>11, <1>12 DEF Step

(* However many processes share the profile, and wherever they crash, are  *)
(* refused the lock or fail to write: once all of them are between         *)
(* operations the rows are within the cap (cache_enforce_disk_cap), as     *)
(* long as statements can be prepared.                                     *)
THEOREM CapTheorem ==
  ASSUME "prepare" \notin Faults
  PROVE  DiskSpec => []CapHolds
<1>1. DiskInit => CapInv
  BY ProcAssumption DEF DiskInit, CapInv, OneJobEach, Owing
<1>2. CapInv /\ [DiskNext]_dvars => CapInv'
  <2> SUFFICES ASSUME CapInv, [DiskNext]_dvars PROVE CapInv'
    OBVIOUS
  <2>1. CASE UNCHANGED dvars
    BY <2>1 DEF dvars, CapInv, OneJobEach, RowBytes
  <2>2. CASE DiskTick
    BY <2>2 DEF DiskTick, CapInv, OneJobEach, RowBytes
  <2>3. ASSUME NEW p \in Proc, Open(p) PROVE CapInv'
    BY <2>3, OwesLemma DEF Open, Enforce, Owing
  <2>4. ASSUME NEW p \in Proc, Close(p) PROVE CapInv'
    BY <2>4, OwesLemma DEF Close, Owing
  <2>5. ASSUME NEW p \in Proc, Crash(p) PROVE CapInv'
    BY <2>5, OwesLemma DEF Crash, Owing
  <2>6. ASSUME NEW p \in Proc, NEW k \in DiskKey, LoadRow(p, k) PROVE CapInv'
    BY <2>6, RestsLemma DEF LoadRow, At, Owing
  <2>7. ASSUME NEW p \in Proc, NEW k \in DiskKey, NEW b \in Body, StoreBegin(p, k, b)
        PROVE  CapInv'
    BY <2>7, RestsLemma DEF StoreBegin, At, Owing
  <2>8. QED
    BY <2>1, <2>2, <2>3, <2>4, <2>5, <2>6, <2>7, CapStep DEF DiskNext
<1>3. CapInv => CapHolds
  BY DEF CapInv, CapHolds, At, Owing
<1>4. QED
  BY <1>1, <1>2, <1>3, PTL DEF DiskSpec

----------------------------------------------------------------------------
(* A single process p, whose DELETEs and INSERTs succeed: what it knows of *)
(* the rows without a body file, step by step.                             *)
Bodiless == DOMAIN row \ DOMAIN file
Working == {"idle", "cap", "select", "unlink", "write", "insert", "read", "touch"}
BodiesInv(p) ==
  /\ OneJobEach
  /\ job[p].at = "stat" => Bodiless \subseteq job[p].todo \cup job[p].missing
  /\ job[p].at = "sweep" => Bodiless \subseteq job[p].missing
  /\ job[p].at = "delete" => Bodiless \subseteq {Head(job[p].victims)}
  /\ job[p].at \in Working => Bodiless = {}
  /\ job[p].at \in {"write", "insert"} => job[p].key \in DOMAIN file

(* The domains that the table and file operations leave. *)
LEMMA DomainLemma ==
  /\ \A f, k, v : DOMAIN With(f, k, v) = DOMAIN f \cup {k}
  /\ \A f, K : DOMAIN Without(f, K) = DOMAIN f \ K
  BY DEF With, Without, Restrict

(* Each step of the process keeps what it knows. *)
LEMMA BodiesStep ==
  ASSUME NEW p, Proc = {p}, Faults \cap {"busy", "prepare"} = {},
         BodiesInv(p), Step(p)
  PROVE  BodiesInv(p)'
<1> USE DEF BodiesInv, Bodiless, Working, OneJobEach, Go, At
<1>1. CASE Stat(p)
  <2>1. CASE job[p].todo = {}
    BY <1>1, <2>1 DEF Stat
  <2>2. CASE job[p].todo # {}
    <3>1. PICK k \in job[p].todo :
            job' = [job EXCEPT ![p] =
                      [at |-> "stat", todo |-> job[p].todo \ {k},
                       missing |-> job[p].missing \cup ({k} \ DOMAIN file)]]
      BY <1>1, <2>2 DEF Stat
    <3>2. QED BY <1>1, <3>1 DEF Stat
  <2>3. QED BY <2>1, <2>2
<1>2. CASE Sweep(p)
  <2>1. CASE job[p].missing = {}
    BY <1>2, <2>1 DEF Sweep, Enforce
  <2>2. CASE job[p].missing # {}
    <3>1. PICK k \in job[p].missing :
            /\ job' = [job EXCEPT ![p] = [at |-> "sweep", missing |-> job[p].missing \ {k}]]
            /\ DeleteRow(k)
      BY <1>2, <2>2 DEF Sweep
    <3>2. DOMAIN row' = DOMAIN row \ {k}
      BY <3>1, DomainLemma DEF DeleteRow
    <3>3. QED BY <1>2, <3>1, <3>2 DEF Sweep
  <2>3. QED BY <2>1, <2>2
<1>3. CASE CapCheck(p)
  BY <1>3 DEF CapCheck, Finish
<1>4. CASE CapSelect(p)
  BY <1>4 DEF CapSelect, Finish
<1>5. CASE EvictBody(p)
  <2>1. DOMAIN file' = DOMAIN file \ {Head(job[p].victims)}
    BY <1>5, DomainLemma DEF EvictBody
  <2>2. QED BY <1>5, <2>1 DEF EvictBody
<1>6. CASE EvictRow(p)
  <2>1. DOMAIN row' = DOMAIN row \ {Head(job[p].victims)}
    BY <1>6, DomainLemma DEF EvictRow, DeleteRow
  <2>2. QED BY <1>6, <2>1 DEF EvictRow, AfterVictim, Enforce
<1>7. CASE EvictRowFails(p)
  BY <1>7 DEF EvictRowFails
<1>8. CASE StoreWritten(p)
  <2>1. \/ file' = file
        \/ /\ job[p].key \in DOMAIN file
           /\ \E v : file' = With(file, job[p].key, v)
    BY <1>8, Zenon DEF StoreWritten
  <2>2. DOMAIN file' = DOMAIN file
    <3>1. CASE file' = file
      BY <3>1
    <3>2. ASSUME NEW v, job[p].key \in DOMAIN file, file' = With(file, job[p].key, v)
          PROVE  DOMAIN file' = DOMAIN file
      <4>1. DOMAIN file' = DOMAIN file \cup {job[p].key}
        BY <3>2, DomainLemma
      <4>2. QED BY <3>2, <4>1
    <3>3. QED BY <2>1, <3>1, <3>2, Zenon
  <2>3. job' = [job EXCEPT ![p] = [at |-> "insert", key |-> job[p].key,
                                   body |-> job[p].body, time |-> job[p].time]]
        /\ At(p, "write") /\ row' = row
    BY <1>8 DEF StoreWritten
  <2>4. QED BY <2>2, <2>3
<1>9. CASE StoreWriteFails(p)
  BY <1>9 DEF StoreWriteFails, Finish
<1>10. CASE StoreInsert(p)
  <2>1. DOMAIN row' = DOMAIN row \cup {job[p].key}
    BY <1>10, DomainLemma DEF StoreInsert
  <2>2. QED BY <1>10, <2>1 DEF StoreInsert, Enforce
<1>11. CASE StoreInsertFails(p)
  BY <1>11 DEF StoreInsertFails
<1>12. CASE LoadBody(p)
  BY <1>12 DEF LoadBody, Finish
<1>13. CASE LoadTouch(p)
  BY <1>13 DEF LoadTouch, Finish
<1>14. QED
  BY <1>1, <1>2, <1>3, <1>4, <1>5, <1>6, <1>7, <1>8, <1>9, <1>10, <1>11, <1>12, <1>13
     DEF Step

(* A single process between operations has a body file for every row,      *)
(* wherever it crashed or failed to write before: cache_open sweeps the    *)
(* rows whose file an interrupted eviction removed.                        *)
THEOREM BodiesTheorem ==
  ASSUME NEW CONSTANT p, Proc = {p}, Faults \cap {"busy", "prepare"} = {}
  PROVE  DiskSpec => []RowsHaveBodies
<1>1. DiskInit => BodiesInv(p)
  BY DEF DiskInit, BodiesInv, OneJobEach, Working, Bodiless
<1>2. BodiesInv(p) /\ [DiskNext]_dvars => BodiesInv(p)'
  <2> SUFFICES ASSUME BodiesInv(p), [DiskNext]_dvars PROVE BodiesInv(p)'
    OBVIOUS
  <2> USE DEF BodiesInv, Bodiless, Working, OneJobEach, Go, At
  <2>1. CASE UNCHANGED dvars
    BY <2>1 DEF dvars
  <2>2. CASE DiskTick
    BY <2>2 DEF DiskTick
  <2>3. CASE Open(p)
    BY <2>3 DEF Open, Enforce
  <2>4. CASE Close(p)
    BY <2>4 DEF Close
  <2>5. CASE Crash(p)
    BY <2>5 DEF Crash
  <2>6. ASSUME NEW k \in DiskKey, LoadRow(p, k) PROVE BodiesInv(p)'
    BY <2>6 DEF LoadRow
  <2>7. ASSUME NEW k \in DiskKey, NEW b \in Body, StoreBegin(p, k, b) PROVE BodiesInv(p)'
    <3>1. DOMAIN file' = DOMAIN file \cup {k}
      BY <2>7, DomainLemma DEF StoreBegin
    <3>2. QED BY <2>7, <3>1 DEF StoreBegin
  <2> HIDE DEF BodiesInv
  <2>8. QED
    BY <2>1, <2>2, <2>3, <2>4, <2>5, <2>6, <2>7, BodiesStep DEF DiskNext
<1>3. BodiesInv(p) => RowsHaveBodies
  BY DEF BodiesInv, RowsHaveBodies, Bodiless, Working, At
<1>4. QED
  BY <1>1, <1>2, <1>3, PTL DEF DiskSpec
=============================================================================
