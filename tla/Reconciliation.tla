--------------------------- MODULE Reconciliation ---------------------------
(***************************************************************************)
(* Fill reconciliation of one asset outside a verification generation:     *)
(* the lookback match, the durable fill cursor C and the rows of           *)
(* executions nothing accounts for (reconciliation/coordinator.py,         *)
(* unresolved.py), and the completeness pass that never trusts C           *)
(* (completeness.py).                                                      *)
(*                                                                         *)
(* The activities are fills younger than the database (an in-asset fee      *)
(* enters P1 like a fill and gets no row).                                  *)
(*                                                                         *)
(* An activity is known by its ID, and the broker's IDs sort by the time   *)
(* of the execution, so Ids are ticks of the clock.  The broker may book   *)
(* an activity later than its ID says, report it later still or never, and *)
(* let the positions lag behind it: all four orders are in the model.      *)
(* Each step of a pass is one broker read or one transaction; everything   *)
(* between two steps is a local of the pass and is lost with it.           *)
(***************************************************************************)
EXTENDS Integers, FiniteSets, FiniteSetsExt

CONSTANTS Ids,        \* the activities, 1..n
          Qty,        \* Qty[e]: the signed quantity of e
          Own,        \* fills of TradePulse's own orders
          Backdated,  \* activities the broker books after the time in their ID
          Alike,      \* <<e, f>>: same side, quantity and price, within 300 s
          Lookback,   \* fill_lookback, in ticks
          Overlap,    \* fill_overlap_days, in ticks
          Crypto,     \* the asset class: position drift of crypto does not latch
          Passes,     \* processes that may run a pass
          MaxNow,     \* bound of the clock
          MaxFaults   \* bound of failed calls, unproven pages, lapsed leases, crashes

ASSUME IdsAssumption == /\ Ids = 1..Cardinality(Ids) /\ IsFiniteSet(Ids)
                        /\ Qty \in [Ids -> Int]
                        /\ Own \cup Backdated \subseteq Ids /\ Alike \subseteq Ids \X Own
ASSUME BoundsAssumption == Lookback \in Nat /\ Overlap \in Nat /\ MaxNow \in Nat
                             /\ MaxFaults \in Nat /\ Crypto \in BOOLEAN

VARIABLES
  now,          \* the clock
  booked,       \* activities that have happened at the broker
  reported,     \* those the activities endpoint returns
  shown,        \* those the positions and account endpoints reflect
  linked,       \* own activities whose intent has stored its broker_order_id
  fills,        \* the fills table
  settled,      \* fills with their one cash entry
  quarantined,  \* the quarantine_executions table, with their cash entries
  unresolved,   \* the unresolved_broker_executions table
  outcomes,     \* the unresolved_execution_outcomes table
  records,      \* activities a 'fill' reconciliation record calls matched or corrected
  cursor,       \* the fill cursor C; NoCursor before the bootstrap
  baseline,     \* the latest proven baseline: its boundary ID and quantity
  p1,           \* the failures of the latest P1 record
  fullDone,     \* the full pass of the last close has been recorded
  running,      \* an order-capable runtime has started
  latched,      \* FINANCIAL_INTEGRITY_BLOCKED
  pass,         \* the locals of each pass
  faults,
  checked       \* history: activities a record_pass or a classification examined

world == <<now, booked, reported, shown>>
session == <<running, latched>>
books == <<linked, fills, settled, quarantined>>
ledger == <<unresolved, outcomes, cursor, checked>>
history == <<baseline, p1, fullDone>>
vars == <<world, books, ledger, records, history, session, pass, faults>>

Quantity(S) == MapThenSumSet(LAMBDA e : Qty[e], S)
Open == unresolved \ outcomes
Accounted == fills \cup quarantined
Fault == faults < MaxFaults /\ faults' = faults + 1

NoCursor == -1

(* Locals no step will read again are forgotten, so that passes compare equal. *)
Idle == [pc |-> "idle", todo |-> {}, seen |-> {}, used |-> {}, exactOnly |-> FALSE, acts |-> {},
         after |-> {}, cur |-> 0, reads |-> {}, since |-> {}, base |-> 0, full |-> FALSE]

Stages == {"idle", "window", "match", "after", "record", "latch_recorded", "outcomes", "complete",
           "classify", "latch_late", "prove", "latch_p1", "baseline"}
Failures == {"asset", "cash", "*"}

TypeOK ==
  /\ now \in 0..MaxNow /\ booked \subseteq Ids /\ reported \subseteq booked /\ shown \subseteq booked
  /\ linked \subseteq Own /\ fills \subseteq reported \cap linked /\ settled \subseteq fills
  /\ quarantined \subseteq reported \ Own
  /\ unresolved \subseteq reported /\ outcomes \subseteq reported /\ records \subseteq reported
  /\ cursor \in Ids \cup {0, NoCursor} /\ baseline \in [at : Ids \cup {0}, qty : Int]
  /\ p1 \subseteq Failures /\ fullDone \in BOOLEAN /\ running \in BOOLEAN /\ latched \in BOOLEAN
  /\ pass \in [Passes -> [pc : Stages, todo : SUBSET Ids, seen : SUBSET Own, used : SUBSET Own,
                          exactOnly : BOOLEAN, acts : SUBSET Ids, after : SUBSET Ids, cur : Ids \cup {0},
                          reads : SUBSET Ids, since : SUBSET Ids, base : Int, full : BOOLEAN]]
  /\ faults \in 0..MaxFaults /\ checked \subseteq reported

(* A database without a cursor on an account whose history is its opening   *)
(* deposit, activity 0.                                                     *)
Init ==
  /\ now = 0 /\ booked = {} /\ reported = {} /\ shown = {}
  /\ linked = {} /\ fills = {} /\ settled = {} /\ quarantined = {}
  /\ unresolved = {} /\ outcomes = {} /\ cursor = NoCursor /\ checked = {}
  /\ records = {} /\ baseline = [at |-> 0, qty |-> 0] /\ p1 = {} /\ fullDone = FALSE
  /\ running = FALSE /\ latched = FALSE /\ pass = [p \in Passes |-> Idle] /\ faults = 0

-----------------------------------------------------------------------------
(* The broker, and the gateway, settlement and the operator beside the pass. *)

(* No order-capable command starts before the cursor is bootstrapped. *)
Tick ==
  /\ now < MaxNow /\ now' = now + 1
  /\ now + 1 \in Own => running
  /\ booked' = booked \cup ((Ids \ Backdated) \cap {now + 1})
  /\ UNCHANGED <<reported, shown, books, ledger, records, history, session, pass, faults>>

BookLate(e) ==
  /\ e \in Backdated \ booked /\ e <= now
  /\ booked' = booked \cup {e}
  /\ UNCHANGED <<now, reported, shown, books, ledger, records, history, session, pass, faults>>

Report(e) ==
  /\ e \in booked \ reported
  /\ reported' = reported \cup {e}
  /\ UNCHANGED <<now, booked, shown, books, ledger, records, history, session, pass, faults>>

Show(e) ==
  /\ e \in booked \ shown
  /\ shown' = shown \cup {e}
  /\ UNCHANGED <<now, booked, reported, books, ledger, records, history, session, pass, faults>>

(* The gateway, or the sweep of stranded intents, stores the order's broker ID. *)
Link(e) ==
  /\ e \in (Own \cap booked) \ linked
  /\ linked' = linked \cup {e}
  /\ UNCHANGED <<world, fills, settled, quarantined, ledger, records, history, session, pass, faults>>

(* The gateway's poll loop attributes a reported fill of its own order. *)
Attribute(e) ==
  /\ e \in (linked \cap reported) \ fills
  /\ fills' = fills \cup {e}
  /\ UNCHANGED <<world, linked, settled, quarantined, ledger, records, history, session, pass, faults>>

Settle(e) ==
  /\ e \in fills \ settled
  /\ settled' = settled \cup {e}
  /\ UNCHANGED <<world, linked, fills, quarantined, ledger, records, history, session, pass, faults>>

(* `quarantine resolve`: one transaction writes the execution, its cash     *)
(* entry and, for an unresolved activity, its outcome.                      *)
QuarantineResolve(e) ==
  /\ e \in reported \ (Own \cup Accounted)
  /\ quarantined' = quarantined \cup {e}
  /\ outcomes' = outcomes \cup ({e} \cap unresolved)
  /\ UNCHANGED <<world, linked, fills, settled, unresolved, cursor, checked, records, history, session, pass, faults>>

(* `reconcile bootstrap-fill-cursor`, when the whole history read explains  *)
(* the positions and the cash; otherwise it refuses and writes nothing.     *)
Bootstrap ==
  LET known == reported \cap (fills \cup records)
      boundary == Max(reported \cup {0})
  IN /\ cursor = NoCursor /\ ~running
     /\ reported = shown
     /\ outcomes' = outcomes \cup known
     /\ unresolved' = unresolved \cup (reported \ known)
     /\ cursor' = boundary
     /\ checked' = reported
     /\ baseline' = [at |-> boundary, qty |-> Quantity(reported)]
     /\ UNCHANGED <<world, books, records, p1, fullDone, session, pass, faults>>

(* `run` starts, for the first time or after a crash: an open row latches   *)
(* before any lane can trade.                                               *)
StartRuntime ==
  /\ \A p \in Passes : pass[p].pc = "idle"
  /\ cursor # NoCursor
  /\ running' = TRUE /\ latched' = (latched \/ Open # {})
  /\ UNCHANGED <<world, books, ledger, records, history, pass, faults>>

(* Another weekday's 16:05 in New York. *)
NewDay ==
  /\ fullDone /\ fullDone' = FALSE
  /\ UNCHANGED <<world, books, ledger, records, baseline, p1, session, pass, faults>>

-----------------------------------------------------------------------------
(* One pass.  Go(p, l) is its next stage with locals l. *)

Go(p, stage, locals) == pass' = [pass EXCEPT ![p] = [locals EXCEPT !.pc = stage]]
At(p, stage) == pass[p].pc = stage
Leave(p) == pass' = [pass EXCEPT ![p] = Idle]

(* The reconcile command lease admits one pass at a time; a second one      *)
(* starts beside the first only when the lease has lapsed.                  *)
StartPass(p) ==
  /\ At(p, "idle")
  /\ IF \A q \in Passes : At(q, "idle") THEN UNCHANGED faults ELSE Fault
  /\ Go(p, "window", Idle)
  /\ UNCHANGED <<world, books, ledger, records, history, session>>

(* _reconcile_positions latches what the lots and the quarantine do not     *)
(* explain, and only blocks the asset for a long crypto position; then      *)
(* _reconcile_fills reads the lookback window and the local fills.          *)
ReadWindow(p) ==
  LET drift == Quantity(shown) # Quantity(settled \cup quarantined)
      window == {e \in reported : e >= now - Lookback}
  IN /\ At(p, "window")
     /\ latched' = (latched \/ (drift /\ (~Crypto \/ Quantity(shown) < 0)))
     /\ Go(p, IF window = {} THEN "after" ELSE "match",
           [Idle EXCEPT !.acts = window, !.todo = window, !.seen = fills, !.exactOnly = Open # {}])
     /\ UNCHANGED <<world, books, ledger, records, history, running, faults>>

(* The outcome of one activity of the window, in ID order. *)
Matched(l, e, f) == [l EXCEPT !.todo = @ \ {e}, !.used = @ \cup f]
AfterMatch(l) == IF l.todo = {} THEN "after" ELSE "match"

Exact(l, e) == e \in l.seen \ l.used
Heuristic(l, e) == IF l.exactOnly THEN {} ELSE {f \in l.seen \ l.used : <<e, f>> \in Alike}

MatchFill(p) ==
  LET l == pass[p]  e == Min(l.todo)
  IN /\ At(p, "match")
     /\ \E f \in IF Exact(l, e) THEN {e} ELSE Heuristic(l, e) :
          LET m == Matched(l, e, {f}) IN Go(p, AfterMatch(m), m)
     /\ records' = records \cup {e}
     /\ UNCHANGED <<world, books, ledger, history, session, faults>>

(* No local fill: a quarantine execution matches by its ID; the fill of a   *)
(* known intent is recovered through the one attribution path; anything     *)
(* else is a missed fill and latches.                                       *)
MatchElsewhere(p) ==
  LET l == pass[p]  e == Min(l.todo)  m == Matched(l, e, {})
      known == e \in quarantined  recovered == ~known /\ e \in linked
  IN /\ At(p, "match")
     /\ ~Exact(l, e) /\ Heuristic(l, e) = {}
     /\ records' = IF known \/ recovered THEN records \cup {e} ELSE records
     /\ fills' = IF recovered THEN fills \cup {e} ELSE fills
     /\ latched' = (latched \/ ~(known \/ recovered))
     /\ Go(p, AfterMatch(m), m)
     /\ UNCHANGED <<world, linked, settled, quarantined, ledger, history, running, faults>>

(* Nothing follows until C has been bootstrapped. *)
NotBootstrapped(p) ==
  /\ At(p, "after") /\ cursor = NoCursor
  /\ Leave(p)
  /\ UNCHANGED <<world, books, ledger, records, history, session, faults>>

(* C, and every FILL after it; an unproven page records nothing. *)
ReadAfter(p) ==
  /\ At(p, "after") /\ cursor # NoCursor
  /\ LET l == [pass[p] EXCEPT !.cur = cursor, !.after = {e \in reported : e > cursor},
                              !.seen = {}, !.used = {}, !.exactOnly = FALSE]
     IN \/ (Go(p, "record", l) /\ UNCHANGED faults)
        \/ (Go(p, "outcomes", l) /\ Fault)
  /\ UNCHANGED <<world, books, ledger, records, history, session>>

LastRead(l) == IF l.after = {} THEN cursor ELSE Max(l.after)

RecordPassHeuristic(p) ==
  LET l == pass[p]  new == l.after \ (Accounted \cup unresolved \cup records)
  IN /\ At(p, "record")
     /\ LastRead(l) >= cursor
     /\ unresolved' = unresolved \cup new
     /\ cursor' = LastRead(l)
     /\ checked' = checked \cup l.after
     /\ Go(p, IF new = {} THEN "outcomes" ELSE "latch_recorded", l)
     /\ UNCHANGED <<world, books, outcomes, records, history, session, faults>>

RecordPassUnfenced(p) ==
  LET l == pass[p]  new == l.after \ (Accounted \cup unresolved)
  IN /\ At(p, "record")
     /\ unresolved' = unresolved \cup new
     /\ cursor' = LastRead(l)
     /\ checked' = checked \cup l.after
     /\ Go(p, IF new = {} THEN "outcomes" ELSE "latch_recorded", l)
     /\ UNCHANGED <<world, books, outcomes, records, history, session, faults>>

(* record_pass: every unaccounted activity gets its row and C advances to   *)
(* the last of them, in one transaction that refuses to move C back.        *)
RecordPass(p) ==
  LET l == pass[p]  new == l.after \ (Accounted \cup unresolved)
  IN /\ At(p, "record")
     /\ LastRead(l) >= cursor
     /\ unresolved' = unresolved \cup new
     /\ cursor' = LastRead(l)
     /\ checked' = checked \cup l.after
     /\ Go(p, IF new = {} THEN "outcomes" ELSE "latch_recorded", l)
     /\ UNCHANGED <<world, books, outcomes, records, history, session, faults>>

(* FILL_CURSOR_REGRESSION ends the pass with nothing written. *)
RefuseRegression(p) ==
  /\ At(p, "record")
  /\ LastRead(pass[p]) < cursor
  /\ Leave(p)
  /\ UNCHANGED <<world, books, ledger, records, history, session, faults>>

LatchRecorded(p) ==
  /\ At(p, "latch_recorded")
  /\ latched' = TRUE
  /\ Go(p, "outcomes", pass[p])
  /\ UNCHANGED <<world, books, ledger, records, history, running, faults>>

(* write_outcome_if_proven for each open activity the pass has read: an     *)
(* exact Fill with its one cash entry, or a quarantine execution.           *)
WriteOutcomes(p) ==
  LET l == pass[p]
  IN /\ At(p, "outcomes")
     /\ outcomes' = outcomes \cup (Open \cap (l.acts \cup l.after) \cap (settled \cup quarantined))
     /\ Go(p, "complete", Idle)
     /\ UNCHANGED <<world, books, unresolved, cursor, checked, records, history, session, faults>>

ReadHistoryIncrementally(p) ==
  LET since == {e \in reported : e > baseline.at}
      overlap == {e \in reported : e >= cursor - Overlap}
  IN /\ At(p, "complete")
     /\ Go(p, "classify", [Idle EXCEPT !.full = ~fullDone, !.cur = cursor, !.base = baseline.qty,
                             !.reads = since \cup overlap, !.since = since])
     /\ UNCHANGED <<world, books, ledger, records, history, session, faults>>

(* completeness_pass reads everything once a day, and otherwise what        *)
(* follows the baseline and an overlap before C.                            *)
ReadHistory(p) ==
  LET since == {e \in reported : e > baseline.at}
      overlap == {e \in reported : e >= cursor - Overlap}
      full == ~fullDone
  IN /\ At(p, "complete")
     /\ Go(p, "classify", [Idle EXCEPT !.full = full, !.cur = cursor, !.base = baseline.qty,
                             !.reads = IF full THEN reported ELSE since \cup overlap,
                             !.since = IF full THEN {} ELSE since])
     /\ UNCHANGED <<world, books, ledger, records, history, session, faults>>

(* A page not proven complete makes every asset unproven; it never latches. *)
ReadUnproven(p) ==
  /\ At(p, "complete") /\ Fault
  /\ p1' = {"*"}
  /\ Leave(p)
  /\ UNCHANGED <<world, books, ledger, records, baseline, fullDone, session>>

ClassifyLateQuietly(p) ==
  LET l == pass[p]
      late == {e \in l.reads : e <= l.cur} \ (Accounted \cup outcomes \cup unresolved)
      legacy == late \cap records
  IN /\ At(p, "classify")
     /\ outcomes' = outcomes \cup legacy
     /\ unresolved' = unresolved \cup (late \ legacy)
     /\ checked' = checked \cup {e \in l.reads : e <= l.cur}
     /\ Go(p, "prove", l)
     /\ UNCHANGED <<world, books, cursor, records, history, session, faults>>

(* _classify_late: a FILL at or before C that nothing accounts for gets its *)
(* row, or the outcome legacy_reconciled if a record already calls it       *)
(* matched or corrected.                                                    *)
ClassifyLate(p) ==
  LET l == pass[p]
      late == {e \in l.reads : e <= l.cur} \ (Accounted \cup outcomes \cup unresolved)
      legacy == late \cap records
  IN /\ At(p, "classify")
     /\ outcomes' = outcomes \cup legacy
     /\ unresolved' = unresolved \cup (late \ legacy)
     /\ checked' = checked \cup {e \in l.reads : e <= l.cur}
     /\ Go(p, IF late \ legacy = {} THEN "prove" ELSE "latch_late", l)
     /\ UNCHANGED <<world, books, cursor, records, history, session, faults>>

LatchLate(p) ==
  /\ At(p, "latch_late")
  /\ latched' = TRUE
  /\ Go(p, "prove", pass[p])
  /\ UNCHANGED <<world, books, ledger, records, history, running, faults>>

P1FailuresOfActiveAssets(l) ==
  LET explained == IF l.full THEN Quantity(l.reads) ELSE l.base + Quantity(l.since)
  IN {f \in {"asset", "cash"} : \/ (f = "asset" /\ (l.full \/ l.since # {}) /\ explained # Quantity(shown))
                               \/ (f = "cash" /\ l.full /\ l.reads # shown)}

(* P1: what was read must explain the positions, and a full read the cash   *)
(* (no two different histories have the same cash effect here).             *)
P1Failures(l) ==
  LET explained == IF l.full THEN Quantity(l.reads) ELSE l.base + Quantity(l.since)
  IN {f \in {"asset", "cash"} : \/ (f = "asset" /\ explained # Quantity(shown))
                               \/ (f = "cash" /\ l.full /\ l.reads # shown)}

(* The stage after the P1 record: latch what failed twice running, or make  *)
(* a full clean pass the new baseline.                                      *)
AfterP1(l, failures) ==
  CASE failures \cap (p1 \ {"*"}) # {}                -> "latch_p1"
    [] l.full /\ failures = {} /\ l.reads # {}        -> "baseline"
    [] OTHER                                          -> "idle"

ProveP1(p) ==
  LET l == pass[p]  failures == P1Failures(l)  stage == AfterP1(l, failures)
  IN /\ At(p, "prove")
     /\ p1' = failures
     /\ fullDone' = (fullDone \/ l.full)
     /\ Go(p, stage, IF stage = "baseline" THEN [Idle EXCEPT !.reads = l.reads] ELSE Idle)
     /\ UNCHANGED <<world, books, ledger, records, baseline, session, faults>>

LatchP1(p) ==
  /\ At(p, "latch_p1")
  /\ latched' = TRUE
  /\ Leave(p)
  /\ UNCHANGED <<world, books, ledger, records, history, running, faults>>

(* create_once under the ID of the last activity: a second clean history    *)
(* that ends at the same activity leaves the first baseline in force.       *)
NewBaseline(p) ==
  LET boundary == Max(pass[p].reads)
  IN /\ At(p, "baseline")
     /\ baseline' = IF baseline.at = boundary THEN baseline
                    ELSE [at |-> boundary, qty |-> Quantity(pass[p].reads)]
     /\ Leave(p)
     /\ UNCHANGED <<world, books, ledger, records, p1, fullDone, session, faults>>

(* Any call of the pass fails, its process dies, or a lost lease stops it   *)
(* from starting new work: the pass is over and its locals are gone.        *)
Abort(p) ==
  /\ ~At(p, "idle") /\ Fault
  /\ Leave(p)
  /\ UNCHANGED <<world, books, ledger, records, history, session>>

PassStep(p) ==
  \/ StartPass(p) \/ ReadWindow(p) \/ MatchFill(p) \/ MatchElsewhere(p)
  \/ NotBootstrapped(p) \/ ReadAfter(p) \/ RecordPass(p) \/ RefuseRegression(p) \/ LatchRecorded(p) \/ WriteOutcomes(p)
  \/ ReadHistory(p) \/ ReadUnproven(p) \/ ClassifyLate(p) \/ LatchLate(p)
  \/ ProveP1(p) \/ LatchP1(p) \/ NewBaseline(p)

Activity(e) == BookLate(e) \/ Report(e) \/ Show(e) \/ Link(e) \/ Attribute(e) \/ Settle(e)

Next == \/ Tick \/ NewDay \/ Bootstrap \/ StartRuntime
        \/ \E e \in Ids : Activity(e) \/ QuarantineResolve(e)
        \/ \E p \in Passes : PassStep(p) \/ Abort(p)

Spec == Init /\ [][Next]_vars

(* The reconciliation lane runs every minute and days pass.  Nothing is     *)
(* assumed of the broker: it may never report or show what it has booked.   *)
FairSpec == Spec /\ WF_vars(NewDay) /\ WF_vars(Bootstrap) /\ \A p \in Passes : WF_vars(PassStep(p))

-----------------------------------------------------------------------------
(* K1 as the code keeps it: whatever a pass has examined at or before C is  *)
(* accounted for exactly, or has its durable row, or was closed by a match  *)
(* record.                                                                  *)
PassedIsAccounted ==
  \A e \in checked : e <= cursor => e \in Accounted \cup unresolved \cup (outcomes \cap records)

(* K1 as unresolved.py:5 states it: an exact match or a row, nothing else.  *)
K1 == \A e \in checked : e <= cursor => e \in Accounted \cup unresolved

(* I8: an open row latches a running account.  Until the recording pass reaches   *)
(* its latch the row is open and the account is not latched; only a call    *)
(* that fails in between can leave it so.                                   *)
OpenRowLatches ==
  running /\ Open # {} => \/ latched \/ faults > 0
                          \/ \E p \in Passes : pass[p].pc \in {"latch_recorded", "latch_late"}

(* C never moves back, whichever of two passes commits last. *)
CursorAdvances == [][cursor' >= cursor]_cursor

(* Nothing the broker reports stays unnoticed, wherever its ID falls. *)
NothingEscapes ==
  \A e \in Ids : (e \in reported /\ cursor # NoCursor) ~> (e \in Accounted \cup unresolved \cup outcomes)

(* A position the positions endpoint shows and no read ever explains        *)
(* latches the account, whatever baselines the full passes set meanwhile.   *)
HiddenIsLatched ==
  <>[](running /\ reported \subseteq shown /\ Quantity(reported) # Quantity(shown)) => <>latched

(* Nothing the account shows, by its activities or by its positions only,   *)
(* stays unnoticed.                                                         *)
AccountIsWatched == NothingEscapes /\ HiddenIsLatched

(* Late or not, once the broker reports and shows everything P1 holds again *)
(* (false: see NewBaseline).                                                *)
P1HoldsAgain ==
  <>[](reported = Ids /\ shown = Ids) => <>[]("asset" \notin p1)

(* A cash difference that persists latches (false: only the full pass of a  *)
(* day checks cash, and the incremental passes in between forget it).       *)
CashMismatchLatches == <>[](reported # shown) => <>latched
=============================================================================
