-------------------------------- MODULE Calendar --------------------------------
(***************************************************************************)
(* The market calendar and the evidence that lets an entry rely on it.     *)
(*                                                                         *)
(* Two lanes run the daily cross-check of the library's calendar against   *)
(* the broker's: the reconciliation, and the gateway before an entry whose *)
(* date is unverified.  A check is a row of events, started, fetched, then *)
(* completed or failed; only completed ones say anything, and the status   *)
(* of a date is derived from them on every question.  Stocks only; days    *)
(* are New York dates, and a day's two halves end at 13:00 and 16:00.      *)
(***************************************************************************)
EXTENDS Integers, FiniteSetsExt

CONSTANTS
    LastDay,        \* bound: the days are 1..LastDay
    Library,        \* [Days -> "none", "half" (closes at 13:00) or "full"]
    Brokers,        \* the calendars the broker may have
    Weekend,        \* days that are no weekdays
    CheckDays,      \* how far a check looks
    FreshSessions,  \* FRESH_SESSIONS
    Ahead,          \* the n of session_deadline
    Lanes,          \* "reconcile", "gateway"
    MaxPasses, MaxChanges, MaxCrashes   \* bounds

VARIABLES
    day, half,      \* now
    broker,         \* the calendar of the broker, [Days -> ...]
    changes, crashes,
    stamps,         \* how many times a lane has read its clock
    checks,         \* [1..n -> [now, day, events, reported, last]]
    lane,           \* [Lanes -> [at, check, now, day]]
    active,         \* ClockCalendarMonitor.active
    closedSince     \* it has seen the broker closed in a session, and how long

vars == <<day, half, broker, changes, crashes, stamps, checks, lane, active, closedSince>>
world == <<day, half, broker, changes, crashes>>
monitor == <<active, closedSince>>

Days == 1..LastDay
Hours == {"none", "half", "full"}

\* Nobody trades at a weekend.
CalendarAssumption ==
    /\ LastDay \in Nat \ {0} /\ CheckDays \in Nat /\ Ahead \in Nat \ {0} /\ FreshSessions \in Nat
    /\ Library \in [Days -> Hours] /\ Brokers \subseteq [Days -> Hours]
    /\ \A b \in Brokers, d \in Weekend : d \in Days => b[d] = "none"

Nothing == [at |-> "idle", check |-> 0, now |-> 0, day |-> 0]
Sessions(c) == {d \in Days : c[d] # "none"}
Open(c, d, h) == c[d] = "full" \/ (c[d] = "half" /\ h = 1)
Started == DOMAIN checks
Ended(c) == checks[c].events \cap {"completed", "failed"} # {}

-----------------------------------------------------------------------------
(* The status of a date.                                                     *)

\* A report covers the dates from its first to its last session.
Reported(c) == {d \in checks[c].day..checks[c].last : checks[c].reported[d] # "none"}
Covered(c) == IF Reported(c) = {} THEN {} ELSE Min(Reported(c))..Max(Reported(c))
Agrees(c, d) == checks[c].reported[d] = Library[d]

Fresh(c) ==
    /\ checks[c].day <= day
    /\ Cardinality({d \in Sessions(Library) : checks[c].day < d /\ d <= day}) <= FreshSessions

Rows(d) == {c \in Started : "completed" \in checks[c].events /\ d \in Covered(c)}
\* "latest" goes by the time the check began, then by the time of its rows.
Latest(d) == CHOOSE c \in Rows(d) : \A e \in Rows(d) : checks[e].now <= checks[c].now
Status(d) ==
    IF Rows(d) = {} THEN "unverified"
    ELSE IF ~Agrees(Latest(d), d) THEN "contested"
    ELSE IF \E c \in Rows(d) : Agrees(c, d) /\ Fresh(c) THEN "verified"
    ELSE "unverified"

CheckedToday(d) == \E c \in Started : "completed" \in checks[c].events /\ checks[c].day = d

\* session_deadline: instants are <<day, half>>, compared by 2 * day + half.
Close(c, d) == 2 * d + IF c[d] = "half" THEN 1 ELSE 2
Nth(S, n) == {d \in S : d > day /\ Cardinality({e \in S : day < e /\ e <= d}) = n}
Weekdays == Days \ Weekend
WeekdayBound == {2 * d + 2 : d \in Nth(Weekdays, Ahead)}
Deadline ==
    LET bound == CHOOSE b \in WeekdayBound : TRUE
        target == CHOOSE d \in Nth(Sessions(Library), Ahead) : TRUE
    IN  IF Nth(Sessions(Library), Ahead) = {} THEN bound
        ELSE IF \/ \A d \in day + 1..target : Status(d) = "verified"
                \/ Close(Library, target) <= bound
        THEN Close(Library, target)
        ELSE bound

-----------------------------------------------------------------------------
Init ==
    /\ day = 1 /\ half = 1 /\ broker \in Brokers /\ changes = 0 /\ crashes = 0
    /\ stamps = 0 /\ checks = [c \in {} |-> 0] /\ lane = [l \in Lanes |-> Nothing]
    /\ active = FALSE /\ closedSince = "no"

TimePasses ==
    /\ \/ half = 1 /\ half' = 2 /\ day' = day
       \/ half = 2 /\ half' = 1 /\ day' = day + 1 /\ day < LastDay
    /\ closedSince' = IF closedSince = "yes" THEN "long" ELSE closedSince
    /\ UNCHANGED <<broker, changes, crashes, stamps, checks, lane, active>>

BrokerChanges ==
    /\ changes < MaxChanges /\ changes' = changes + 1
    /\ broker' \in Brokers \ {broker}
    /\ UNCHANGED <<day, half, crashes, stamps, checks, lane, monitor>>

\* sync_market_session -> ClockCalendarMonitor.observe
Observe ==
    LET isOpen == Open(broker, day, half)
        inSession == Open(Library, day, half)
    IN
    /\ closedSince' = IF ~isOpen /\ inSession THEN IF closedSince = "no" THEN "yes" ELSE closedSince ELSE "no"
    /\ active' = ((isOpen /\ ~inSession) \/ closedSince' = "long")
    /\ UNCHANGED <<world, stamps, checks, lane>>

\* run_daily_checks: the time is read once, at its start.
Ask(l) ==
    /\ lane[l].at = "idle" /\ stamps < MaxPasses
    /\ l = "gateway" => Status(day) = "unverified" /\ ~CheckedToday(day)
    /\ stamps' = stamps + 1
    /\ lane' = [lane EXCEPT ![l] = [at |-> "asked", check |-> 0, now |-> stamps + 1, day |-> day]]
    /\ UNCHANGED <<world, checks, monitor>>

Append1(events, e) == events \cup {e}

\* close_interrupted closes any check begun more than ten minutes before;
\* whether ten minutes have passed is not told by the halves of a day.
Interrupt(l) ==
    /\ lane[l].at = "asked"
    /\ \E late \in SUBSET {c \in Started : ~Ended(c) /\ checks[c].now < lane[l].now} :
          checks' = [c \in Started |->
              IF c \in late THEN [checks[c] EXCEPT !.events = Append1(@, "failed")] ELSE checks[c]]
    /\ lane' = [lane EXCEPT ![l].at = "closed"]
    /\ UNCHANGED <<world, stamps, monitor>>

Start(l) ==
    /\ lane[l].at = "closed"
    /\ IF CheckedToday(lane[l].day)
       THEN lane' = [lane EXCEPT ![l] = Nothing] /\ UNCHANGED checks
       ELSE LET n == Cardinality(Started) + 1 IN
            /\ checks' = [c \in 1..n |-> IF c < n THEN checks[c] ELSE
                   [now |-> lane[l].now, day |-> lane[l].day, events |-> {"started"}, reported |-> Library, last |-> 0]]
            /\ lane' = [lane EXCEPT ![l].at = "fetching", ![l].check = n]
    /\ UNCHANGED <<world, stamps, monitor>>

\* get_calendar answers, perhaps not to the end of the range.
Fetch(l) ==
    LET c == lane[l].check IN
    /\ lane[l].at = "fetching"
    /\ \E last \in {lane[l].day, Min({lane[l].day + CheckDays, LastDay})} :
          checks' = [checks EXCEPT ![c].events = Append1(@, "fetched"), ![c].reported = broker, ![c].last = last]
    /\ lane' = [lane EXCEPT ![l].at = "comparing"]
    /\ UNCHANGED <<world, stamps, monitor>>

\* The trigger calendar_one_terminal_event aborts a second terminal event, and
\* with it the transaction; run_check raises.
EndWith(c, e) ==
    checks' = IF Ended(c) THEN checks ELSE [checks EXCEPT ![c].events = Append1(@, e)]
EndAnyway(c, e) == checks' = [checks EXCEPT ![c].events = Append1(@, e)]
End(c, e) == EndWith(c, e)

FetchFails(l) ==
    /\ lane[l].at = "fetching" /\ End(lane[l].check, "failed")
    /\ lane' = [lane EXCEPT ![l] = Nothing]
    /\ UNCHANGED <<world, stamps, monitor>>
Complete(l) ==
    /\ lane[l].at = "comparing" /\ End(lane[l].check, "completed")
    /\ lane' = [lane EXCEPT ![l] = Nothing]
    /\ UNCHANGED <<world, stamps, monitor>>

\* entry_window_open for a stock.
MayEnter == Status(day) = "verified" /\ ~active /\ Open(Library, day, half) /\ Open(broker, day, half)
Crash ==
    /\ crashes < MaxCrashes /\ crashes' = crashes + 1
    /\ lane' = [l \in Lanes |-> Nothing] /\ active' = FALSE /\ closedSince' = "no"
    /\ UNCHANGED <<day, half, broker, changes, stamps, checks>>

Next ==
    \/ TimePasses \/ BrokerChanges \/ Observe \/ Crash
    \/ \E l \in Lanes : Ask(l) \/ Interrupt(l) \/ Start(l) \/ Fetch(l) \/ FetchFails(l) \/ Complete(l)

Spec == Init /\ [][Next]_vars

-----------------------------------------------------------------------------
\* An entry stands on evidence: a check that ran to its end and was never
\* written off, that the broker answered at most three sessions ago, agreed on
\* the day, and no check begun after it contradicted it; whatever lanes overlap,
\* lag, are interrupted or crash.
Whole(c) == checks[c].events = {"started", "fetched", "completed"}
EntryIsBacked ==
    MayEnter => \E c \in Started :
        /\ Whole(c) /\ checks[c].reported[day] = Library[day]
        /\ Cardinality({d \in Sessions(Library) : checks[c].day < d /\ d <= day}) <= FreshSessions
        /\ \A e \in Started :
              Whole(e) /\ checks[e].now > checks[c].now /\ day \in Covered(e) => checks[e].reported[day] = Library[day]

\* A deadline counted while dates are in doubt is never after the close of the
\* n-th session the broker really holds, early closes it alone knows apart.
DeadlineNeverLate ==
    WeekdayBound # {} =>
        \A d \in Nth(Sessions(broker), Ahead) :
            \/ Deadline <= 2 * d + 2
            \/ \A e \in day + 1..d : Status(e) = "verified"

CalendarSound == EntryIsBacked /\ DeadlineNeverLate

\* "With no completed check for today yet ..., the daily check runs here first."
EntryChecksToday == MayEnter => CheckedToday(day)

\* The last answer of the broker decides, not the last question.
LastAnswerCounts ==
    \A c \in Started : 
        /\ "completed" \in checks[c].events /\ day \in Covered(c) /\ ~Agrees(c, day)
        /\ checks[c].reported = broker
        => Status(day) # "verified"

\* "a library session the broker omits ... is contested"
OmittedIsContested ==
    \A c \in Started :
        /\ "completed" \in checks[c].events /\ checks[c].day = day /\ Library[day] # "none"
        /\ checks[c].reported[day] = "none" /\ \A e \in Started : checks[e].now <= checks[c].now
        => Status(day) # "verified"
=============================================================================
