----------------------------- MODULE MCDayFocus -----------------------------
(* Instances of DayFocus, in each behaviour one: days that are written row by row *)
(* and shift definitions that are judged; whole days of two sessions, which are   *)
(* looked at as they are; and pairs of lists for the sweeps.                      *)
EXTENDS DayFocus

CONSTANTS LastMoment,       \* bound: the end of the days that are looked at
          Cells             \* bound: unit cells the lists lie in

VARIABLES part, lists

Breaks_1 ==
    [start : {0, 1, 3, 5}, duration : {1}, before : 0..1, after : {0, 2}]

NightShifts ==
    [start : {4}, end : {1, 2, 5}, lead : 0..1, ring : 1..2,
     breaks : [1..Kinds -> Breaks_1 \cup {NoBreak}]]

\* A night shift, with one break of one moment before midnight.
TheShift ==
    [start |-> 4, end |-> 2, lead |-> 0, ring |-> 1,
     breaks |-> <<[start |-> 5, duration |-> 1, before |-> 0, after |-> 2], NoBreak>>]

TheShifts == {TheShift}
JudgedShifts == NightShifts \cup {TheShift}

-----------------------------------------------------------------------------
(* Whole days: one or two sessions, in them up to two breaks or meetings of an    *)
(* older client, which keeps no record of them, and a meeting that was logged.    *)

Stretches(from, to) ==
    {i \in [start : from..to, end : from..to] : i.start < i.end}

InOrder(list) == \A i \in 2..Len(list) : list[i - 1].end <= list[i].start

Sessions ==
    {list \in BoundedSeq([start : FirstTime..LastMoment, end : FirstTime..LastMoment,
                          replay : {FALSE}], 2) :
       InOrder(list) /\ \A i \in DOMAIN list : list[i].start < list[i].end}

During(sessions) ==
    {i \in Stretches(FirstTime, LastMoment) :
       \E s \in ToSet(sessions) : s.start <= i.start /\ i.end <= s.end}

OnDay(sessions) ==
    {list \in BoundedSeq({[type |-> type, start |-> i.start, end |-> i.end] :
                            type \in {"BREAK", "MEETING"}, i \in During(sessions)}, 2) :
       InOrder(list)}

Logged(sessions, presence) ==
    {<< >>} \cup {<<[mode |-> "PAST", status |-> "PENDING", start |-> i.start, end |-> i.end]>> :
                   i \in {j \in During(sessions) :
                           \A p \in ToSet(presence) : ~Overlaps(j, p)}}

Evenings ==
    UNION {UNION {{[NoDay EXCEPT !.sessions = s, !.presence = p, !.meetings = m] :
                     m \in Logged(s, p)} : p \in OnDay(s)} : s \in Sessions}

-----------------------------------------------------------------------------
(* Lists: any two stretches or points in any order, against every tidy list.      *)

Points == {i \in [start : 0..Cells, end : 0..Cells] : i.start <= i.end}
Loose == BoundedSeq(Points, 2)
Tidy == {list \in BoundedSeq(Stretches(0, Cells), Cells \div 2 + 1) : IsTidy(list, 0)}
NoLists == << << >>, << >> >>

-----------------------------------------------------------------------------

DaysInit ==
    \/ part = "written" /\ Init /\ lists = NoLists
    \/ /\ part = "looked at" /\ clock = LastMoment /\ shift = TheShift
       /\ day \in Evenings /\ lists = NoLists
    \/ /\ part = "lists" /\ clock = FirstTime /\ shift = TheShift /\ day = NoDay
       /\ lists \in (Loose \X Tidy) \cup (Tidy \X Loose)

DaysNext == part = "written" /\ Next /\ UNCHANGED <<part, lists>>

DaysSpec == DaysInit /\ [][DaysNext]_<<vars, part, lists>>

\* The interval sweeps compute what the set operations they stand for do, on every
\* pair of lists, sorted or not, overlapping, nested, touching or apart, of two and
\* of several stretches (intervals.ts; the focus engine and the reports build on them).
SweepsAreSets == \A gap \in 0..JoinGap : SweepsAgree(lists[1], lists[2], gap)
=============================================================================
