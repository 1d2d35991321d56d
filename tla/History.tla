------------------------------ MODULE History ------------------------------
(***************************************************************************)
(* What a browsing history promises: a list of visited pages with a        *)
(* cursor, each page remembering the reading position at which it was      *)
(* left.  Visiting cuts off what lies ahead of the cursor; going back or   *)
(* forward moves the cursor by one and returns to the position left there. *)
(* The server may redirect, so a page may come back under another URL.     *)
(***************************************************************************)
EXTENDS Integers, Sequences

CONSTANTS Url, Offset

VARIABLES trail,    \* sequence of [url, pos]
          cursor,   \* the page shown; 0 before the first visit
          reading   \* where the reader is on the page shown

historyVars == <<trail, cursor, reading>>

(* The trail with the reading position of the page shown filled in. *)
Left == IF cursor = 0 THEN trail ELSE [trail EXCEPT ![cursor].pos = reading]

HistoryInit == /\ trail = <<>>
               /\ cursor = 0
               /\ reading \in Offset

Visit ==
  \E u \in Url :
    /\ trail' = Append(SubSeq(Left, 1, cursor), [url |-> u, pos |-> reading'])
    /\ cursor' = cursor + 1
    /\ reading' \in Offset

(* Show entry i again, at the position it was left, under the URL that     *)
(* the server gives it now.                                                *)
Return(i) ==
  \E u \in Url :
    /\ cursor' = i
    /\ reading' = Left[i].pos
    /\ trail' = [Left EXCEPT ![i].url = u]

Back == cursor > 1 /\ Return(cursor - 1)
Forward == cursor < Len(trail) /\ Return(cursor + 1)
Reload == cursor > 0 /\ Return(cursor)

Read == /\ reading' \in Offset
        /\ cursor' = cursor
        /\ trail' = IF cursor = 0 THEN trail
                    ELSE [trail EXCEPT ![cursor].pos = reading']

HistoryNext == Visit \/ Back \/ Forward \/ Reload \/ Read

HistorySpec == HistoryInit /\ [][HistoryNext]_historyVars
=============================================================================
