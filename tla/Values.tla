------------------------------- MODULE Values -------------------------------
(***************************************************************************)
(* How the page reads a published value and writes a figure: the readers   *)
(* of web/src/ui/types.ts and the figures of web/src/ui/format.ts.         *)
(*                                                                         *)
(* A published value is missing or null (Null), of a type or a form that   *)
(* cannot be read (Junk), or what it should be.  An instant is the time    *)
(* left until it, negative once it is past; a percentage is in thousandths *)
(* of a point, as fine as the rounding of a figure can tell apart.         *)
(***************************************************************************)
EXTENDS Integers

CONSTANTS Null, Junk

ASSUME ValuesAssumption == Null \notin Int /\ Junk \notin Int /\ Null # Junk

Point == 1000
Whole == 100 * Point

\* num, str and bool, and num(v) ?? 0.
Num(v)  == IF v \in Int THEN v ELSE Null
N0(v)   == IF v \in Int THEN v ELSE 0
Str(v)  == IF v = Junk THEN Null ELSE v
Bool(v) == IF v = Junk THEN Null ELSE v

IsRecord(o) == o \notin {Null, Junk}
Known(v) == v \in Int

\* periodStats: requests and their parts count as none when they are missing, a
\* span and an amount do not.
PeriodStats(o) ==
  IF ~IsRecord(o) THEN Null
  ELSE [hours    |-> Num(o.hours),
        record   |-> Num(o.record),
        observed |-> Num(o.observed),
        requests |-> N0(o.requests),
        usd      |-> Num(o.usd),
        priced   |-> N0(o.priced),
        unpriced |-> N0(o.unpriced),
        cached   |-> N0(o.cached)]

\* consumptionSample.
Sample(o) ==
  IF ~IsRecord(o) THEN Null
  ELSE [delta    |-> Num(o.delta),
        span     |-> Num(o.span),
        coverage |-> Num(o.coverage),
        rising   |-> o.basis = "observed-increase",
        gaps     |-> N0(o.gaps)]

\* historicalCapacity and windowAnalytics.
Historical(o) ==
  IF ~IsRecord(o) THEN Null
  ELSE [usd |-> Num(o.usd), remaining |-> Num(o.remaining)]

WindowAnalytics(o) ==
  IF ~IsRecord(o)
  THEN [status |-> Null, capacity |-> Null, remaining |-> Null, exhausts |-> Null,
        rate |-> Null, resetFirst |-> Null, prior |-> Null]
  ELSE [status     |-> Str(o.status),
        capacity   |-> Num(o.capacity),
        remaining  |-> Num(o.remaining),
        exhausts   |-> Str(o.exhausts),
        rate       |-> Num(o.rate),
        resetFirst |-> Bool(o.resetFirst),
        prior      |-> Historical(o.prior)]

\* refreshState and directQuota; lastKnown without windows is not one.
RefreshState(o) ==
  IF ~IsRecord(o) THEN [status |-> Null, next |-> Null]
  ELSE [status |-> Str(o.status), next |-> Str(o.next)]

DirectQuota(o) ==
  IF ~IsRecord(o) THEN [status |-> Null, next |-> Null, last |-> Null, evidence |-> << >>]
  ELSE [status |-> Str(o.status), next |-> Str(o.next), last |-> Str(o.last),
        evidence |-> IF IsRecord(o.evidence) THEN o.evidence ELSE << >>]

\* recommendationOf: what a total is made of is not read.
RecommendationOf(o) ==
  IF ~IsRecord(o) THEN [status |-> Null, need |-> Null]
  ELSE [status |-> Str(o.status), need |-> Num(o.need)]

\* quotaFigure: two decimals, but nothing that is not 0 reads as 0 and nothing
\* that is not 100 reads as 100.
Rounded(v) == IF v >= 0 THEN ((v + 5) \div 10) * 10 ELSE -(((5 - v) \div 10) * 10)

QuotaFigure(v) ==
  IF ~Known(v) THEN <<"unknown", 0>>
  ELSE IF v \in 1 .. 9 THEN <<"below", 10>>
  ELSE IF v \in -9 .. -1 THEN <<"above", -10>>
  ELSE IF v # Whole /\ Rounded(v) = Whole THEN <<IF v > Whole THEN "above" ELSE "below", Whole>>
  ELSE <<"is", Rounded(v)>>

\* quotaTrack: no bar for an unknown remainder; it is read aloud as it is written.
Track(v) == IF Known(v) THEN <<v, QuotaFigure(v)>> ELSE << >>

\* reset, countdown and until; and instantNote, which tells what is missing from
\* what cannot be read.
Reset(at) ==
  IF ~Known(at) THEN <<"not given", 0>>
  ELSE IF at <= 0 THEN <<"awaits a reading", 0>> ELSE <<"in", at>>
Until(at) == IF at > 0 THEN <<"in", at>> ELSE <<"already", 0>>
InstantNote(at) ==
  IF at = Null THEN <<"not given", 0>>
  ELSE IF at = Junk THEN <<"unreadable", 0>> ELSE <<"at", at>>
=============================================================================
