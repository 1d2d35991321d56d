----------------------------- MODULE MCRestart -----------------------------
(* The two stores that outlive the process, checked one at a time in one   *)
(* run: a behaviour steps the store in focus and leaves the other where it *)
(* starts.                                                                 *)
(*   cache    the disk tier of the cache with one process that may crash;  *)
(*            three keys, bodies of one and two bytes.  The cap takes      *)
(*            exactly Batch bodies of the largest size, as 256 MB takes 8  *)
(*            bodies of the 32 MB a transfer allows.                       *)
(*   cookies  two origins, a host-only cookie and a domain cookie, two     *)
(*            loads, one reset.                                            *)
EXTENDS CacheDisk, CookieProfile

MCBody == {[size |-> n] : n \in 1..2}

CONSTANTS o1, o2

MCHostsOf == (1 :> {o1}) @@ (2 :> {o1, o2})
MCNameOf  == (1 :> 1) @@ (2 :> 2)

VARIABLE focus

RestartInit == focus \in {"cache", "cookies"} /\ DiskInit /\ ProfileInit

RestartNext ==
  /\ UNCHANGED focus
  /\ \/ focus = "cache" /\ DiskNext /\ UNCHANGED pvars
     \/ focus = "cookies" /\ ProfileNext /\ UNCHANGED dvars

RestartSpec == RestartInit /\ [][RestartNext]_<<focus, dvars, pvars>>
============================================================================
