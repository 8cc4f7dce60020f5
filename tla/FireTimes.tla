------------------------------ MODULE FireTimes ------------------------------
(***************************************************************************)
(* nextFireTime (extension/background/scheduler.js:39-62): the next run of  *)
(* a schedule strictly after a moment.  The model computes it over and over *)
(* at moments that come as they like, as the scheduler does when it fires,  *)
(* changes or reconciles a schedule.                                       *)
(*                                                                         *)
(* Moments are natural numbers.  A daily or weekly schedule names a time of *)
(* the local clock; the local clock is set gap units forward (or back, when *)
(* negative) once, when it reads ShiftAt, and a local time becomes a moment *)
(* the way the Date constructor does it: with the offset from before the    *)
(* change when the clock skips or repeats that time.                       *)
(***************************************************************************)
EXTENDS Integers, FiniteSets, FiniteSetsExt

CONSTANTS DayLen, ShiftAt, Gaps, Horizon, Steps

\* What the constants are.
FireTimesAssumption ==
    /\ DayLen \in Nat \ {0} /\ ShiftAt \in Nat \ {0} /\ Gaps \subseteq Int
    /\ \A g \in Gaps : -DayLen < g /\ g < DayLen
    /\ Horizon \in Nat /\ Steps \subseteq Nat \ {0}

VARIABLES gap, spec, from, fire
vars == <<gap, spec, from, fire>>

-----------------------------------------------------------------------------
(* every                                                                   *)

EveryNext(anchor, step, now) ==
    IF anchor > now THEN anchor
    ELSE anchor + ((now - anchor) \div step + 1) * step

-----------------------------------------------------------------------------
(* daily and weekly                                                        *)

\* The moment at which the local clock reads t on day d.
Local(d, t) ==
    LET clock == d * DayLen + t
    IN  IF clock < ShiftAt + Max({gap, 0}) THEN clock ELSE clock - gap

\* The local date of a moment.
Day(now) == CHOOSE d \in 0 .. Horizon : Local(d, 0) <= now /\ now < Local(d + 1, 0)
Weekday(d) == d % 7

\* The days that are tried.
LookAhead == 0 .. 8

\* A time that is now would count as still to come.
CalendarNextMutant(t, days, now) ==
    LET hits == {add \in LookAhead :
                   /\ Local(Day(now) + add, t) >= now
                   /\ Weekday(Day(now) + add) \in days}
    IN  Local(Day(now) + Min(hits), t)

CalendarNext(t, days, now) ==
    LET hits == {add \in LookAhead :
                   /\ Local(Day(now) + add, t) > now
                   /\ Weekday(Day(now) + add) \in days}
    IN  Local(Day(now) + Min(hits), t)

-----------------------------------------------------------------------------
Specs ==
    [kind : {"every"}, anchor : 0 .. 2, step : Steps]
      \cup [kind : {"daily"}, t : 0 .. DayLen - 1, days : {0 .. 6}]
      \cup [kind : {"weekly"}, t : 0 .. DayLen - 1,
            days : {D \in SUBSET (0 .. 6) : D # {} /\ Cardinality(D) <= 2}]

NextFireTime(s, now) ==
    IF s.kind = "every" THEN EveryNext(s.anchor, s.step, now)
    ELSE CalendarNext(s.t, s.days, now)

Init ==
    /\ gap \in Gaps
    /\ spec \in Specs
    /\ from = 0
    /\ fire = NextFireTime(spec, 0)

\* computeNext at a later moment: some time before the run is due, when it is
\* due or a little later.
Compute ==
    \E now \in {from + 1, fire - 1, fire, fire + 1} :
        /\ from < now /\ now <= Horizon
        /\ from' = now
        /\ fire' = NextFireTime(spec, now)
        /\ UNCHANGED <<gap, spec>>

Next == Compute

Spec == Init /\ [][Next]_vars

-----------------------------------------------------------------------------
(* Properties.                                                             *)

\* The moments at which a schedule is due, by definition.
Slots(s) ==
    IF s.kind = "every"
    THEN {s.anchor + n * s.step : n \in 0 .. Horizon + 1}
    ELSE {Local(d, s.t) : d \in {d \in 0 .. Horizon + 9 : Weekday(d) \in s.days}}

\* The next run is the first slot after the moment it is computed at: no slot
\* is passed over and none is served twice, across the change of the clock too,
\* and computing it again before it is due does not move it.
FirstSlotAfter ==
    /\ fire > from
    /\ fire \in Slots(spec)
    /\ \A x \in Slots(spec) : x > from => fire <= x

=============================================================================
