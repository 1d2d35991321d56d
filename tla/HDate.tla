------------------------------- MODULE HDate -------------------------------
(***************************************************************************)
(* HTTP and cookie dates (src/src/hdate.odin): http_date_parse splits a    *)
(* date into tokens, takes day, month, year and time from them in whatever *)
(* order they come, and converts the civil date to days since 1970.        *)
(* A token is what the parser tells apart: a word, a month name, a time    *)
(* with colons, or a number with its count of digits.                      *)
(***************************************************************************)
EXTENDS Integers, Sequences

CONSTANTS Year, Day, Time    \* the dates written; Time holds [hh, mm, ss]

VARIABLES date,    \* the date meant: [y, m, d, t]
          toks,    \* the tokens still to read
          fields,  \* what has been read: [day, month, year, time]
          out      \* "reading", "rejected" or "parsed"

hvars == <<date, toks, fields, out>>

Unset == -1
NoTime == [hh |-> Unset, mm |-> Unset, ss |-> Unset]

(* The three forms a server may send, RFC 9110 section 5.6.7. *)
Word == [kind |-> "word"]
Num(n, digits) == [kind |-> "num", n |-> n, digits |-> digits]
Written(dt) ==
  LET mon == [kind |-> "month", n |-> dt.m]
      clock == [kind |-> "time", t |-> dt.t]
  IN {<<Word, Num(dt.d, 2), mon, Num(dt.y, 4), clock, Word>>,
      <<Word, Num(dt.d, 2), mon, Num(dt.y % 100, 2), clock, Word>>,
      <<Word, mon, Num(dt.d, IF dt.d < 10 THEN 1 ELSE 2), clock, Num(dt.y, 4)>>}

----------------------------------------------------------------------------
(* A number: the year if it has four digits or is no day, if a day is      *)
(* known already, else the day.                                            *)
TakeNumber(f, t) ==
  IF t.digits = 4 \/ t.n > 31 \/ (t.digits = 2 /\ f.year < 0 /\ f.day >= 0)
  THEN [f EXCEPT !.year = t.n]
  ELSE IF f.day < 0 THEN [f EXCEPT !.day = t.n]
  ELSE IF f.year < 0 THEN [f EXCEPT !.year = t.n]
  ELSE f

Take(f, t) ==
  CASE t.kind = "time" -> [f EXCEPT !.time = t.t]
    [] t.kind = "month" -> [f EXCEPT !.month = t.n]
    [] t.kind = "num" -> TakeNumber(f, t)
    [] OTHER -> f

(* Two digits of a year stand for 1970 to 2069. *)
FullYear(y) == IF y >= 0 /\ y < 100 THEN y + (IF y < 70 THEN 2000 ELSE 1900) ELSE y

(* Division of the source language: towards zero. *)
Quot(a, b) == IF a >= 0 THEN a \div b ELSE -((-a) \div b)

days_from_civil(y, m, d) ==
  LET yy == IF m <= 2 THEN y - 1 ELSE y
      era == Quot(IF yy >= 0 THEN yy ELSE yy - 399, 400)
      yoe == yy - era * 400
      doy == Quot(153 * (m + (IF m > 2 THEN 1 ELSE -11)) + 2, 5) + d - 1
      doe == yoe * 365 + Quot(yoe, 4) - Quot(yoe, 100) + doy
  IN era * 146097 + doe - 719468

Missing(f) == \/ f.day < 0 \/ f.month = 0 \/ f.year < 0
              \/ f.time.hh < 0 \/ f.time.mm < 0 \/ f.time.ss < 0
OutOfRange(f) == f.day > 31 \/ f.time.hh > 23 \/ f.time.mm > 59 \/ f.time.ss > 60

ReadToken ==
  /\ toks # <<>>
  /\ fields' = Take(fields, Head(toks))
  /\ toks' = Tail(toks)
  /\ UNCHANGED <<date, out>>

(* The end of the token loop. *)
Conclude ==
  /\ toks = <<>> /\ out = "reading"
  /\ fields' = [fields EXCEPT !.year = FullYear(@)]
  /\ out' = IF Missing(fields') \/ OutOfRange(fields') THEN "rejected" ELSE "parsed"
  /\ UNCHANGED <<date, toks>>

HDateInit ==
  /\ date \in [y : Year, m : 1..12, d : Day, t : Time]
  /\ toks \in Written(date)
  /\ fields = [day |-> Unset, month |-> 0, year |-> Unset, time |-> NoTime]
  /\ out = "reading"

HDateNext == ReadToken \/ Conclude

HDateSpec == HDateInit /\ [][HDateNext]_hvars

----------------------------------------------------------------------------
(* Days since 1 January 1970 by counting years and months. *)
IsLeap(y) == y % 4 = 0 /\ (y % 100 # 0 \/ y % 400 = 0)
LeapsBefore(y) == (y - 1) \div 4 - (y - 1) \div 100 + (y - 1) \div 400
DaysBefore(m) == <<0, 31, 59, 90, 120, 151, 181, 212, 243, 273, 304, 334>>[m]
UnixDays(y, m, d) ==
  365 * (y - 1970) + LeapsBefore(y) - LeapsBefore(1970)
    + DaysBefore(m) + (IF m > 2 /\ IsLeap(y) THEN 1 ELSE 0) + d - 1

(* The result counts from the start of 1970 ("-> unix seconds"). *)
CountsUnixDays ==
  out = "parsed" =>
    days_from_civil(fields.year, fields.month, fields.day)
      = UnixDays(date.y, date.m, date.d)
=============================================================================
