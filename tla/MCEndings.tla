----------------------------- MODULE MCEndings -----------------------------
(* What must come to an end in the terminal browser, checked one component *)
(* at a time in one run: a behaviour steps the component in focus and      *)
(* leaves the other where it starts.                                       *)
(*   browser   two documents with a fragment, two images each, one slot    *)
(*             for transfers, one redirect, three pages built.             *)
(*   disk      three keys, bodies of one and two bytes, one process whose  *)
(*             writes, deletes and statements may fail.                    *)
EXTENDS Browser, CacheDisk

MCBody == {[size |-> n] : n \in 1..2}

VARIABLE focus

EndingsInit == focus \in {"browser", "disk"} /\ BrowserInit /\ DiskInit

EndingsNext ==
  /\ UNCHANGED focus
  /\ \/ focus = "browser" /\ BrowserNext /\ UNCHANGED dvars
     \/ focus = "disk" /\ DiskNext /\ UNCHANGED bvars

(* The fairness of BrowserFairSpec and DiskFairSpec, each for the          *)
(* behaviours that step its component.                                     *)
EndingsSpec ==
  /\ EndingsInit /\ [][EndingsNext]_<<focus, bvars, dvars>>
  /\ WF_bvars(focus = "browser" /\ PollBegin /\ UNCHANGED <<svars, owner>>)
  /\ WF_bvars(focus = "browser" /\ PollEnd /\ UNCHANGED <<svars, owner>>)
  /\ \A r \in Ref : SF_bvars(focus = "browser" /\ Harvest(r) /\ UNCHANGED <<svars, owner>>)
  /\ \A p \in Proc : /\ WF_dvars(focus = "disk" /\ Step(p))
                     /\ SF_dvars(focus = "disk" /\ EvictRow(p))
=============================================================================
