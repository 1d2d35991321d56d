------------------------------ MODULE MCHDate ------------------------------
(* Dates at the edges of the parser's rules: one and two digit days, years *)
(* whose last two digits could be a day, both ends of the two-digit        *)
(* window, a leap second.                                                  *)
EXTENDS HDate

MCTime == {[hh |-> 0, mm |-> 0, ss |-> 0], [hh |-> 23, mm |-> 59, ss |-> 60]}
=============================================================================
