------------------------------ MODULE MCCopies ------------------------------
(* Two parts of the archived Rust browser in which copies of one state     *)
(* must agree, checked one at a time in one run: a behaviour steps the     *)
(* component in focus and leaves the other where it starts.                *)
(*   renderer  two documents, the first of which is edited once, two       *)
(*             commits, two broker requests, one command of the shell,     *)
(*             reset of the inspector or reveal, and a renderer that may   *)
(*             fail to stage an update, answer with an unusable commit or  *)
(*             miss the deadline: enough for a batch on a snapshot, a      *)
(*             snapshot of a second document over a commit of the first,   *)
(*             one recovery, and a commit out of date when it is drained.  *)
(*   history   two URLs of two origins, jobs of up to two actions, two     *)
(*             documents after the first.                                  *)
EXTENDS RenderSync, NavHistory

MCOriginOf == ("a" :> "A") @@ ("b" :> "B")

VARIABLE focus

CopiesInit ==
  /\ focus \in {"renderer", "history"}
  /\ SyncInit /\ NavInit

CopiesNext ==
  /\ UNCHANGED focus
  /\ \/ focus = "renderer" /\ SyncNext /\ UNCHANGED hvars
     \/ focus = "history" /\ NavNext /\ UNCHANGED svars

CopiesSpec == CopiesInit /\ [][CopiesNext]_<<focus, svars, hvars>>
=============================================================================
