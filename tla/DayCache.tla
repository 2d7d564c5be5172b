------------------------------ MODULE DayCache ------------------------------
(***************************************************************************)
(* The caches of DayDataService (day-data.service.ts) against the samples   *)
(* they were read from.  The active seconds of a day (bucketHours) are kept *)
(* in memory: for good once the day is settled, and before that while the   *)
(* sessions and the person's sample version stand and for at most           *)
(* RECENT_TTL_MS.  The writers are POST /activity/report and End Day, which *)
(* stamp the duration of the latest sample and announce it after the write. *)
(*                                                                         *)
(* The sessions change as SessionLedger allows, which WorkDay implements    *)
(* (but for an automatic close taken back by a replayed action).            *)
(* One person, in one process (ecosystem.config.js), whose restart would    *)
(* only forget the caches.  A sample is its instant; idle samples add no     *)
(* active second and are left out, and a duration is there or not.           *)
(***************************************************************************)
EXTENDS SessionLedger, FiniteSetsExt

CONSTANTS
  Requests,        \* reports and End Days being served
  Readers,         \* views being built
  Viewed,          \* the days that views are built of
  DayOf,           \* the working day of a session that starts at an instant
  Lag,             \* LIVE_LAG_MS
  Ttl,             \* RECENT_TTL_MS
  Backlog,         \* ACTIVITY_BACKLOG_MS, and MAX_AGE_MS of a replayed action
  Margin,          \* the hour added to it in SETTLED_AFTER_MS
  MaxSamples,      \* bound: samples ever stored
  MaxReads         \* bound: views ever built

ASSUME CacheAssumption ==
  /\ DayOf \in [Times -> Days] /\ Viewed \subseteq Days /\ SessionIds \subseteq Nat
  /\ {Lag, Ttl, Backlog, Margin, MaxSamples, MaxReads} \subseteq Nat

\* A report or an End Day being served, and what it wrote so far.
Service == [pc : {"stamp", "create", "announce"}, ends : BOOLEAN, at : Times,
            backfilled : BOOLEAN, wrote : SUBSET Times]

ASSUME ServiceAssumption == None \notin Service

VARIABLES
  now,
  samples,         \* [Times -> "none", "open" or "stamped"]
  serving,         \* [Requests -> report or End Day, or None]
  version,         \* sampleVersions
  settled,         \* [Viewed -> active instants, or None]
  recent,          \* [Viewed -> entry, or None]
  reading,         \* [Readers -> view, or None]
  reads,           \* views built so far
  unannounced,     \* instants written live, or by a request that failed (history)
  changedLate      \* what changed after it had settled (history)

cacheVars == <<now, sessions, samples, serving, version, settled, recent, reading, reads,
               unannounced, changedLate>>

CacheInit ==
  /\ LedgerInit
  /\ now = 0 /\ samples = [t \in Times |-> "none"]
  /\ serving = [r \in Requests |-> None] /\ reading = [q \in Readers |-> None]
  /\ version = 0 /\ reads = 0
  /\ settled = [d \in Viewed |-> None] /\ recent = [d \in Viewed |-> None]
  /\ unannounced = {} /\ changedLate = {}

-----------------------------------------------------------------------------
(* What the queries read of a day *)

RowsOf(d) == {i \in Rows : sessions[i].date = d}

(* Their number and last change; what changes a closed row moves its end.    *)
Stamp(d) == [i \in RowsOf(d) |-> sessions[i]]

Closed(d) == RowsOf(d) # {} /\ RowsOf(d) \subseteq ClosedIds
Within(i, t) == sessions[i].start <= t /\ (sessions[i].end = None \/ t < sessions[i].end)

Final(d, t) == Closed(d) /\ \A i \in RowsOf(d) : sessions[i].end + Backlog + Margin < t

(* sessionDays, with SETTLED_AFTER_MS: may what is read be kept for good?    *)
SettledBy(d, t) == Final(d, t)

(* activeSecByHour: the stamped samples inside the day's sessions.           *)
ActiveIn(d) == {t \in Times : samples[t] = "stamped" /\ \E i \in RowsOf(d) : Within(i, t)}

Stored == {t \in Times : samples[t] # "none"}
Latest == CHOOSE t \in Stored : \A u \in Stored : u <= t

ChangesLate ==
  changedLate' = changedLate \cup
    {d \in Viewed : Final(d, now) /\ <<Stamp(d), ActiveIn(d)>>' # <<Stamp(d), ActiveIn(d)>>}

-----------------------------------------------------------------------------
(* The working day: sessions open and end now, or at the time of a replayed   *)
(* action (what opened them is not read here); an End Day goes on to stamp    *)
(* the last sample (EndDayUseCase.finish).                                    *)

InWindow(t) == t <= now /\ now <= t + Backlog

Starts(i) ==
  /\ \A j \in SessionIds \ Rows : i <= j   \* ids are random: the lowest stands for any
  /\ Opened(i)
  /\ LET s == sessions'[i] IN
       /\ s.date = DayOf[s.start] /\ InWindow(s.start)
       /\ s.source = "AGENT"
       /\ \A j \in Rows : sessions[j].end <= s.start
  /\ UNCHANGED <<now, samples, serving, version, settled, recent, reading, reads, unannounced>>
  /\ ChangesLate

Ends(r, i, t) ==
  /\ serving[r] = None /\ InWindow(t) /\ Ended(i, t)
  /\ serving' = [serving EXCEPT ![r] =
       [pc |-> "stamp", ends |-> TRUE, at |-> t, backfilled |-> FALSE, wrote |-> {}]]
  /\ UNCHANGED <<now, samples, version, settled, recent, reading, reads, unannounced>>
  /\ ChangesLate

AutoCloses(i, t) ==
  /\ AutoClosed(i, t) /\ t <= now /\ LatestEnd(sessions[i]) <= now
  /\ UNCHANGED <<now, samples, serving, version, settled, recent, reading, reads, unannounced>>
  /\ ChangesLate

-----------------------------------------------------------------------------
(* POST /activity/report *)

(* A stamp of a sample that is no longer live changes a day that may have    *)
(* closed; End Day announces every stamp.                                    *)
Backfills(r, prev) ==
  serving[r].backfilled \/ serving[r].ends \/ now > prev + Lag

Receive(r, t, late) ==
  /\ serving[r] = None /\ InWindow(t) /\ samples[t] = "none"
  /\ Cardinality(Stored) < MaxSamples
  /\ serving' = [serving EXCEPT ![r] =
       [pc |-> "stamp", ends |-> FALSE, at |-> t,
        backfilled |-> late \/ now > t + Lag, wrote |-> {}]]
  /\ UNCHANGED <<now, samples, version, settled, recent, reading, reads, unannounced>>

(* ReportActivityFlow: a sample the open session covers is live; one that    *)
(* falls in a closed session, or moves an automatic close, is history.       *)
Report(r, t) ==
  \/ /\ \E i \in OpenIds : sessions[i].start <= t
     /\ Receive(r, t, FALSE)
     /\ UNCHANGED <<sessions, changedLate>>
  \/ /\ \A i \in OpenIds : t < sessions[i].start
     /\ t < now /\ \E i \in ClosedIds : Within(i, t)
     /\ Receive(r, t, TRUE)
     /\ UNCHANGED <<sessions, changedLate>>
  \/ /\ \A i \in OpenIds : t < sessions[i].start
     /\ t < now /\ \E i \in ClosedIds : Extended(i, t)
     /\ Receive(r, t, TRUE)
     /\ ChangesLate

(* The latest sample is read and, when it is still open and older than this  *)
(* one, stamped.                                                             *)
StampLatest(r) ==
  /\ serving[r] # None /\ serving[r].pc = "stamp"
  /\ LET next == IF serving[r].ends THEN "announce" ELSE "create"
         due == Stored # {} /\ samples[Latest] = "open" /\ Latest < serving[r].at IN
       \/ /\ due
          /\ samples' = [samples EXCEPT ![Latest] = "stamped"]
          /\ serving' = [serving EXCEPT ![r].pc = next, ![r].wrote = {Latest},
                                        ![r].backfilled = Backfills(r, Latest)]
       \/ ~due /\ serving' = [serving EXCEPT ![r].pc = next] /\ UNCHANGED samples
  /\ UNCHANGED <<now, sessions, version, settled, recent, reading, reads, unannounced>>
  /\ ChangesLate

Create(r) ==
  /\ serving[r] # None /\ serving[r].pc = "create"
  /\ samples' = [samples EXCEPT ![serving[r].at] = IF @ = "none" THEN "open" ELSE @]
  /\ serving' = [serving EXCEPT ![r].pc = "announce", ![r].wrote = @ \cup {serving[r].at}]
  /\ UNCHANGED <<now, sessions, version, settled, recent, reading, reads, unannounced>>
  /\ ChangesLate

(* The event's subscriber counts the version up before publish returns.  A   *)
(* live report announces nothing: what it wrote lies within LIVE_LAG_MS.     *)
Announce(r) ==
  /\ serving[r] # None /\ serving[r].pc = "announce"
  /\ version' = IF serving[r].backfilled THEN version + 1 ELSE version
  /\ unannounced' = unannounced \cup
       {t \in serving[r].wrote : ~serving[r].backfilled /\ now <= t + Lag}
  /\ serving' = [serving EXCEPT ![r] = None]
  /\ UNCHANGED <<now, sessions, samples, settled, recent, reading, reads, changedLate>>

(* A query fails: what was written stays, and nothing is announced.          *)
Fails(r) ==
  /\ serving[r] # None
  /\ unannounced' = unannounced \cup serving[r].wrote
  /\ serving' = [serving EXCEPT ![r] = None]
  /\ UNCHANGED <<now, sessions, samples, version, settled, recent, reading, reads, changedLate>>

-----------------------------------------------------------------------------
(* A view of a day (bucketHours) *)

(* The sample version is read before anything else.                          *)
BeginView(q, d) ==
  /\ reading[q] = None /\ reads < MaxReads
  /\ reading' = [reading EXCEPT ![q] =
       [pc |-> "rows", of |-> d, version |-> version, stamp |-> None,
        settled |-> FALSE, active |-> {}]]
  /\ reads' = reads + 1
  /\ UNCHANGED <<now, sessions, samples, serving, version, settled, recent,
                 unannounced, changedLate>>

(* May an entry still be used?                                               *)
Fresh(e, stamp, ver, t) ==
  e # None /\ e.stamp = stamp /\ e.version = ver /\ t < e.storedAt + Ttl

Hit(v) ==
  IF SettledBy(v.of, now) THEN settled[v.of] # None
  ELSE Closed(v.of) /\ Fresh(recent[v.of], Stamp(v.of), v.version, now)

(* The sessions are read; what is cached is served and the view is done.     *)
ReadRows(q) ==
  /\ reading[q] # None /\ reading[q].pc = "rows"
  /\ LET v == reading[q] IN
       reading' = [reading EXCEPT ![q] =
         IF RowsOf(v.of) = {} \/ Hit(v) THEN None
         ELSE [v EXCEPT !.pc = "samples",
                        !.stamp = IF Closed(v.of) THEN Stamp(v.of) ELSE None,
                        !.settled = SettledBy(v.of, now)]]
  /\ UNCHANGED <<now, sessions, samples, serving, version, settled, recent, reads,
                 unannounced, changedLate>>

ReadSamples(q) ==
  /\ reading[q] # None /\ reading[q].pc = "samples"
  /\ reading' = [reading EXCEPT ![q].pc = "store", ![q].active = ActiveIn(reading[q].of)]
  /\ UNCHANGED <<now, sessions, samples, serving, version, settled, recent, reads,
                 unannounced, changedLate>>

\* mutant: an entry carries the version of the moment it is kept
KeptVersion_Now(v) == version

KeptVersion(v) == v.version

(* remember, rememberRecent: what was closed when its rows were read is kept. *)
Keep(q) ==
  /\ reading[q] # None /\ reading[q].pc = "store"
  /\ LET v == reading[q]
         entry == [active |-> v.active, stamp |-> v.stamp, version |-> KeptVersion(v),
                   storedAt |-> now] IN
       /\ settled' = IF v.settled THEN [settled EXCEPT ![v.of] = v.active] ELSE settled
       /\ recent' = IF v.settled THEN [recent EXCEPT ![v.of] = None]
                    ELSE IF v.stamp # None THEN [recent EXCEPT ![v.of] = entry]
                    ELSE recent
  /\ reading' = [reading EXCEPT ![q] = None]
  /\ UNCHANGED <<now, sessions, samples, serving, version, reads, unannounced,
                 changedLate>>

(* A tick is longer than a request or a view takes.                          *)
Pass ==
  /\ \A r \in Requests : serving[r] = None
  /\ \A q \in Readers : reading[q] = None
  /\ now < MaxTime /\ now' = now + 1
  /\ UNCHANGED <<sessions, samples, serving, version, settled, recent, reading, reads,
                 unannounced, changedLate>>

CacheNext ==
  \/ \E i \in SessionIds :
       \/ Starts(i)
       \/ \E t \in Times : AutoCloses(i, t) \/ \E r \in Requests : Ends(r, i, t)
  \/ \E r \in Requests :
       \/ \E t \in Times : Report(r, t)
       \/ StampLatest(r) \/ Create(r) \/ Announce(r) \/ Fails(r)
  \/ \E q \in Readers :
       \/ \E d \in Viewed : BeginView(q, d)
       \/ ReadRows(q) \/ ReadSamples(q) \/ Keep(q)
  \/ Pass

CacheSpec == CacheInit /\ [][CacheNext]_cacheVars

-----------------------------------------------------------------------------
(* Properties *)

Announcing == UNION {serving[r].wrote : r \in {x \in Requests : serving[x] # None}}

(* What the cache would serve now of a closed day is what the samples say,   *)
(* but for samples whose change is being announced and for those a live or a *)
(* failed request wrote: a view that was being built when a sample was       *)
(* written never leaves a stale answer behind ("a sample stored meanwhile    *)
(* makes this run's entries stale at once, never the other way round",       *)
(* bucketHours).                                                             *)
ServesTheSamples ==
  \A d \in Viewed :
    Closed(d) /\ Fresh(recent[d], Stamp(d), version, now) =>
      SymDiff(recent[d].active, ActiveIn(d)) \subseteq Announcing \cup unannounced

(* The hours of a settled day, kept for good, are those of its samples, but  *)
(* on a day that changed after it had settled (bucketHours; the week and the *)
(* hour of SETTLED_AFTER_MS).                                                *)
SettledHoursStand ==
  \A d \in Viewed \ changedLate :
    Final(d, now) /\ settled[d] # None => settled[d] = ActiveIn(d)

(* The hours a view is answered with, recent or settled (bucketHours).        *)
HoursStand == ServesTheSamples /\ SettledHoursStand
=============================================================================
