----------------------------- MODULE ShiftRules -----------------------------
(***************************************************************************)
(* The rules of a shift, as the functions the code has for them: what a    *)
(* valid definition is, when its breaks may start and how a start is       *)
(* judged (shifts/domain/break-schedule.ts), which breaks become           *)
(* auto-skips (worktime/domain/owed.ts), and what a day is expected to be  *)
(* (worktime/domain/attendance.ts).                                        *)
(*                                                                         *)
(* A moment is a whole number; day d starts at d * DayLength.  The zone    *)
(* has no clock changes (the default, Asia/Kolkata, has none).             *)
(***************************************************************************)
EXTENDS Intervals, FiniteSets

CONSTANTS DayLength,    \* moments of a calendar day (1440 minutes)
          Kinds,        \* how many scheduled kinds there are, in their order
          NoBreak       \* a kind the shift does not have or has switched off

ASSUME DayLengthAssumption == DayLength \in Nat \ {0}

\* A definition: start, end, lead and ring (minutes before a break the agent
\* rings, and for how long) and, per kind, its start, length and window.
Enabled(def) == SelectSeq([k \in 1..Kinds |-> k], LAMBDA k : def.breaks[k] # NoBreak)

IsOvernight(def) == def.end <= def.start

EndOf(def) == IF IsOvernight(def) THEN def.end + DayLength ELSE def.end

\* A clock time of the shift, after the midnight its day began with.
ShiftMoment(def, m) ==
    IF IsOvernight(def) /\ m < def.start THEN m + DayLength ELSE m

-----------------------------------------------------------------------------

BreakProblems(def, k) ==
    LET b == def.breaks[k]
        s == ShiftMoment(def, b.start)
    IN (IF s < def.start \/ s + b.duration > EndOf(def) THEN {"outside the shift"} ELSE {})
       \cup (IF def.lead > b.before THEN {"rings before the window"} ELSE {})
       \cup (IF b.after < def.ring - def.lead THEN {"rings after the window"} ELSE {})

\* mutant: only the starts are compared, not the windows
PairProblems_StartsOnly(def, a, z) ==
    LET aStart == ShiftMoment(def, def.breaks[a].start)
        zStart == ShiftMoment(def, def.breaks[z].start)
    IN IF zStart <= aStart THEN {"out of order"} ELSE {}

PairProblems(def, a, z) ==
    LET aStart == ShiftMoment(def, def.breaks[a].start)
        zStart == ShiftMoment(def, def.breaks[z].start)
    IN IF zStart <= aStart THEN {"out of order"}
       ELSE IF aStart + def.breaks[a].after > zStart - def.breaks[z].before
            THEN {"windows overlap"} ELSE {}

Problems(def) ==
    (IF def.start = def.end THEN {"start is end"} ELSE {})
    \cup UNION {BreakProblems(def, Enabled(def)[i]) : i \in 1..Len(Enabled(def))}
    \cup UNION {PairProblems(def, Enabled(def)[i], Enabled(def)[i + 1]) :
                  i \in 1..Len(Enabled(def)) - 1}

IsValid(def) == Problems(def) = {}

-----------------------------------------------------------------------------
(* A day of the shift. *)

CalendarDayOf(now) == now \div DayLength

\* The hours after midnight of an overnight shift belong to the evening before.
ShiftDayOf(def, now) ==
    IF IsOvernight(def) /\ now % DayLength < EndOf(def) - DayLength
    THEN CalendarDayOf(now) - 1
    ELSE CalendarDayOf(now)

At(d, m) == d * DayLength + m

ShiftBounds(def, d) == Stretch(At(d, def.start), At(d, EndOf(def)))

SlotOf(def, k, d) ==
    LET b == def.breaks[k]
        s == At(d, ShiftMoment(def, b.start))
    IN [kind |-> k, duration |-> b.duration,
        start |-> s, end |-> s + b.duration,
        opens |-> s - b.before, closes |-> s + b.after,
        rings |-> s - def.lead, quiet |-> s - def.lead + def.ring]

BreakSlots(def, d) == [i \in 1..Len(Enabled(def)) |-> SlotOf(def, Enabled(def)[i], d)]

PhaseAt(slot, now) ==
    IF now < slot.opens THEN "UPCOMING"
    ELSE IF now >= slot.closes THEN "CLOSED"
    ELSE IF now < slot.rings THEN "EARLY"
    ELSE IF now < slot.quiet THEN "DUE"
    ELSE "LATE"

\* How a start is judged, and how many whole moments it is off.
ClassifyStart(slot, now) ==
    LET phase == PhaseAt(slot, now) IN
    CASE phase = "DUE" -> [timing |-> "ON_TIME", off |-> 0]
      [] phase = "EARLY" -> [timing |-> "EARLY", off |-> Larger(1, slot.start - now)]
      [] phase = "LATE" -> [timing |-> "LATE", off |-> Larger(1, now - slot.start)]
      [] OTHER -> [timing |-> "OUTSIDE_WINDOW",
                   off |-> Larger(now - slot.start, slot.start - now)]

-----------------------------------------------------------------------------
(* Auto-skips.  Sessions are stretches; an open one runs to now. *)

Owed(slot, sessions) ==
    \E i \in DOMAIN sessions : sessions[i].start <= slot.start /\ slot.start <= sessions[i].end

PlanAutoSkips(slots, recorded, sessions, now, endingDay) ==
    LET candidates == {i \in DOMAIN slots :
                         slots[i].kind \notin recorded /\ Owed(slots[i], sessions)}
    IN {[kind |-> slots[i].kind, at |-> slots[i].closes, atEndDay |-> FALSE] :
          i \in {j \in candidates : now >= slots[j].closes}}
       \cup
       {[kind |-> slots[i].kind, at |-> now, atEndDay |-> TRUE] :
          i \in {j \in candidates :
                   endingDay /\ now >= slots[j].opens /\ now < slots[j].closes}}

-----------------------------------------------------------------------------
(* What a day is expected to be. *)

ShiftLength(def) == LET l == def.end - def.start IN IF l <= 0 THEN l + DayLength ELSE l

ScheduledBreak(def) == Total(Enabled(def), LAMBDA k : Larger(0, def.breaks[k].duration))

TargetOf(def, buffer, isWorkingDay) ==
    IF isWorkingDay
    THEN Larger(0, ShiftLength(def) - (ScheduledBreak(def) + Larger(0, buffer)))
    ELSE 0

\* A past day's class; percentages are compared as products, so the boundaries
\* are exact.
DayClassOf(isPast, isWorkingDay, span, focus, expected, fullPct, halfPct) ==
    CASE ~isPast -> "IN_PROGRESS"
      [] isPast /\ ~isWorkingDay -> IF span > 0 THEN "EXTRA" ELSE "OFF"
      [] isPast /\ isWorkingDay /\ expected <= 0 -> IF focus > 0 THEN "FULL" ELSE "ABSENT"
      [] OTHER -> IF focus * 100 >= expected * fullPct THEN "FULL"
                  ELSE IF focus * 100 >= expected * halfPct THEN "HALF" ELSE "ABSENT"
=============================================================================
