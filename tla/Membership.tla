------------------------------- MODULE Membership -------------------------------
(***************************************************************************)
(* Which activities of the broker account belong to a verification         *)
(* generation.                                                             *)
(*                                                                         *)
(* The broker lists its activities in the order of their ids, page by      *)
(* page; a row may post behind rows that are long there, also between two  *)
(* pages.  A pass reads the tail after the opening cursor and then the     *)
(* whole history, and classifies every row: of the opening population, in  *)
(* the generation, late but linked to one of its orders, after its seal,   *)
(* or unresolved, which latches the session.                               *)
(***************************************************************************)
EXTENDS Integers, FiniteSetsExt

CONSTANTS
    Ids,        \* activities, numbered in the order of their ids
    Ours,       \* those of orders of this database
    PageSize,
    LastTime    \* bound

MembershipAssumption ==
    /\ IsFiniteSet(Ids) /\ Ids \subseteq Nat \ {0} /\ Ours \subseteq Ids
    /\ PageSize \in Nat \ {0}

VARIABLES
    time,
    at,         \* [posted activities -> the time they carry]
    linked,     \* activities whose order or fill is stored here
    opening, closing,   \* the checkpoints: [at, rows], NoCheckpoint while there is none
    pass,       \* the pass: what it has read
    status,     \* [Ids -> how an activity was last classified]
    population, \* the rows of the latest membership record
    missed,     \* a population was accepted that lacks a row posted before it was read
    latched

vars == <<time, at, linked, opening, closing, pass, status, population, missed, latched>>
generation == <<opening, closing>>

Posted == DOMAIN at
NoCheckpoint == [at |-> 0, rows |-> {}]
Resting == [at |-> "rest", tail |-> {}, rows |-> {}, token |-> 0, begun |-> {}]
Eligible == {"in", "late"}
Resolved == Eligible \cup {"pre", "post"}
Last(rows) == IF rows = {} THEN 0 ELSE Max(rows)

-----------------------------------------------------------------------------
Init ==
    /\ time = 1 /\ at = [a \in {} |-> 0] /\ linked = {} /\ opening = NoCheckpoint /\ closing = NoCheckpoint
    /\ pass = Resting /\ status = [a \in Ids |-> "none"] /\ population = {} /\ missed = FALSE /\ latched = FALSE

Tick ==
    /\ time < LastTime /\ time' = time + 1
    /\ UNCHANGED <<at, linked, generation, pass, status, population, missed, latched>>

\* A row carries the time it happened, now or before; ids follow neither.
Post(a) ==
    /\ a \notin Posted /\ (a \in Ours => opening # NoCheckpoint)
    /\ \E t \in {time, time - 1} :
          /\ t > 0 /\ (a \in Ours => t >= opening.at)
          /\ at' = [x \in Posted \cup {a} |-> IF x = a THEN t ELSE at[x]]
    /\ UNCHANGED <<time, linked, generation, pass, status, population, missed, latched>>

\* The intent stores broker_order_id, or the fill is recorded.
Link(a) ==
    /\ a \in Ours \ linked /\ opening # NoCheckpoint /\ linked' = linked \cup {a}
    /\ UNCHANGED <<time, at, generation, pass, status, population, missed, latched>>

\* capture_checkpoint: nothing changed while it was read (Verification.tla).
Open ==
    /\ opening = NoCheckpoint /\ opening' = [at |-> time, rows |-> Posted]
    /\ UNCHANGED <<time, at, linked, closing, pass, status, population, missed, latched>>

-----------------------------------------------------------------------------
(* activity_population.                                                      *)

ReadTail ==
    /\ pass.at = "rest" /\ opening # NoCheckpoint
    /\ pass' = [at |-> "paging", rows |-> {}, token |-> 0, begun |-> Posted,
                tail |-> IF opening.rows = {} THEN {} ELSE {a \in Posted : a > Last(opening.rows)}]
    /\ UNCHANGED <<time, at, linked, generation, status, population, missed, latched>>

\* paginate_activities: the page after the token; a short page is the last one.
NextPage == {a \in Posted : a > pass.token /\ Cardinality({b \in Posted : pass.token < b /\ b <= a}) <= PageSize}
TerminalWhenFull == Cardinality(NextPage) <= PageSize
Terminal == Cardinality(NextPage) < PageSize

ReadPage ==
    /\ pass.at = "paging"
    /\ pass' = [pass EXCEPT !.rows = @ \cup NextPage, !.at = IF Terminal THEN "read" ELSE "paging",
                            !.token = IF Terminal THEN @ ELSE Max(NextPage)]
    /\ UNCHANGED <<time, at, linked, generation, status, population, missed, latched>>

\* _classify, with the time the population is observed at.
Sealed == closing # NoCheckpoint
ClassifyByTime(a, observed) ==
    CASE a \in opening.rows -> "pre"
      [] a \notin opening.rows /\ (at[a] > observed \/ at[a] < opening.at) -> "unresolved"
      [] OTHER -> IF Sealed /\ at[a] >= closing.at THEN "post"
                  ELSE IF a > Last(opening.rows) THEN "in"
                  ELSE IF a \in linked THEN "late" ELSE "unresolved"
Classify(a, observed) ==
    CASE a \in opening.rows -> "pre"
      [] a \notin opening.rows /\ (at[a] > observed \/ at[a] < opening.at) -> "unresolved"
      [] OTHER ->
        IF Sealed /\ a \notin closing.rows
        THEN IF a \in linked THEN "late"
             ELSE IF a > Last(closing.rows) /\ at[a] >= closing.at THEN "post" ELSE "unresolved"
        ELSE IF a > Last(opening.rows) THEN "in"
        ELSE IF a \in linked THEN "late" ELSE "unresolved"

\* classify_population in its transaction, require_resolved after it.
Accept ==
    LET class == [a \in pass.rows |-> Classify(a, time)] IN
    /\ pass.at = "read" /\ pass' = Resting
    /\ IF pass.tail \subseteq pass.rows
       THEN /\ status' = [a \in Ids |-> IF a \in pass.rows THEN class[a] ELSE status[a]]
            /\ population' = pass.rows
            /\ missed' = (missed \/ ~(pass.begun \subseteq pass.rows))
            /\ latched' = (latched \/ \E a \in pass.rows : class[a] = "unresolved")
       ELSE latched' = TRUE /\ UNCHANGED <<status, population, missed>>
    /\ UNCHANGED <<time, at, linked, generation>>

\* Any failure of the pass, an outage of the broker too, latches.
Fail ==
    /\ pass.at # "rest" /\ pass' = Resting /\ latched' = TRUE
    /\ UNCHANGED <<time, at, linked, generation, status, population, missed>>

\* The seal takes the population of the latest record; its time is later.  Every
\* own order is taken to be stored by then: a seal comes after the lanes drained.
Seal ==
    /\ opening # NoCheckpoint /\ ~Sealed /\ pass.at = "rest" /\ population # {} /\ Ours \subseteq linked
    /\ \A a \in population : status[a] \in Resolved
    /\ closing' = [at |-> time, rows |-> population]
    /\ UNCHANGED <<time, at, linked, opening, pass, status, population, missed, latched>>

Next ==
    \/ \E a \in Ids : Post(a) \/ Link(a)
    \/ Tick \/ Open \/ ReadTail \/ ReadPage \/ Accept \/ Fail \/ Seal

Spec == Init /\ [][Next]_vars

-----------------------------------------------------------------------------
\* A population that is accepted lacks nothing that was posted when its reading
\* began, however many rows post in front of the page token meanwhile; and what
\* counts to the generation happened in it, whatever id it came with.
PopulationIsComplete ==
    /\ ~missed
    /\ \A a \in Ids : status[a] \in Eligible => at[a] >= opening.at /\ a \notin opening.rows

\* Once an activity is counted, in or out, no later population, link or seal
\* counts it differently: its cash is never booked and then disowned.
ResolvedStays == \A a \in Ids : status[a] \in Resolved => status'[a] = status[a]
MembershipIsFinal ==
    [][ResolvedStays]_vars

\* The population of a generation: complete when it is read, and never recounted.
MembershipIsSound == []PopulationIsComplete /\ MembershipIsFinal

\* A sealed generation stays sealed while nothing of its own comes late.
SealHolds ==
    Sealed => \A a \in Ids \ Ours : status[a] # "unresolved"
=============================================================================
