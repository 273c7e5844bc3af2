--------------------------- MODULE TradingSession ---------------------------
(***************************************************************************)
(* The trading session (tradepulse/risk/session.py, session_commands.py):  *)
(* the one row that says whether TradePulse may take risk, and everybody   *)
(* who writes it: operator commands, the two latches, the market sync.     *)
(*                                                                         *)
(* Every write goes through transition_session, which decides again on the *)
(* current row in its own transaction; what a command has read, asked of   *)
(* the broker or proved before that may be stale by then.                  *)
(***************************************************************************)
EXTENDS Naturals

CONSTANTS
    Operators,   \* processes running start, run --resume or reset-integrity
    Scanners,    \* scan lanes that synchronise the session with the market
    Lanes,       \* lanes that record financial evidence and latch the session
    Executions,  \* broker executions that local books may not account for
    Defects,     \* other evidence that both accounting_issues and the unlock
                 \* proof read: settlement verdicts, records that do not balance
    MaxFlips,    \* bound: openings and closings of the market
    MaxDeaths    \* bound: lanes that die between a record and its latch

ASSUME SessionAssumption ==
    /\ Executions \cap Defects = {}
    /\ {MaxFlips, MaxDeaths} \subseteq Nat

VARIABLES
    session,         \* the trading_sessions row: state and trading_active
    evidence,        \* how far each execution or defect has got
    proof,           \* operators whose unlock proof still has the digest of the tables
    op,              \* where each operator's command is
    lane,            \* lanes about to latch the session
    reading,         \* the broker clock as each scanner has read it
    riskEvaluation,  \* a kill-switch condition was found and is to be latched
    marketOpen, flips, deaths,
    unacknowledged   \* history: a kill switch fired and no reset-risk since

commands == <<proof, op>>
market   == <<marketOpen, flips>>
vars     == <<session, evidence, commands, lane, reading, riskEvaluation, market, deaths, unacknowledged>>

Evidence == Executions \cup Defects

\* SYSTEM_DEGRADED and BROKER_UNAVAILABLE are declared but never written.
States == {"DISABLED", "ACTIVE", "MARKET_CLOSED", "MANUALLY_STOPPED",
           "RISK_STOPPED", "FINANCIAL_INTEGRITY_BLOCKED"}
StartHardBlocked == {"RISK_STOPPED", "FINANCIAL_INTEGRITY_BLOCKED", "MARKET_CLOSED"}
StopPreserved == {"RISK_STOPPED", "FINANCIAL_INTEGRITY_BLOCKED"}
Resumable == {"ACTIVE", "MARKET_CLOSED"}

Row(state, active) == [state |-> state, active |-> active]
Blocked == session.state = "FINANCIAL_INTEGRITY_BLOCKED"

-----------------------------------------------------------------------------
(* Writes                                                                   *)

\* A write to one of _UNLOCK_TABLES changes the digest of every proof.
TouchesEvidence == proof' = {}

\* transition_session: the row is replaced as a whole (trading_sessions is one
\* of the tables the digest covers).
Transition(row) ==
    /\ session' = row
    /\ TouchesEvidence

NoTransition == UNCHANGED <<session, proof>>

Goto(o, label) == op' = [op EXCEPT ![o] = label]

-----------------------------------------------------------------------------
(* start, and run --resume, which calls it                                  *)

\* _should_activate: the supervised service goes on only with a session that
\* is on, and calls run_start for an ACTIVE one.
CheckResume(o) ==
    /\ op[o] = "idle" /\ session.state = "ACTIVE"
    /\ Goto(o, "resume")
    /\ UNCHANGED <<session, evidence, proof, lane, reading, riskEvaluation, market, deaths, unacknowledged>>

\* run_start up to the broker call: refuse or do nothing on the row as loaded.
LoadForStart(o) ==
    /\ op[o] \in {"idle", "resume"}
    /\ \/ /\ session.state \notin StartHardBlocked \cup {"ACTIVE"}
          /\ Goto(o, IF op[o] = "resume" THEN "resumeStart" ELSE "start")
       \/ /\ session.state \in StartHardBlocked \cup {"ACTIVE"}
          /\ op[o] = "resume" /\ Goto(o, "idle")
    /\ UNCHANGED <<session, evidence, proof, lane, reading, riskEvaluation, market, deaths, unacknowledged>>

Starting(o) == op[o] \in {"start", "resumeStart"}

\* get_account failed.
BrokerUnreachable(o) ==
    /\ Starting(o) /\ Goto(o, "idle")
    /\ UNCHANGED <<session, evidence, proof, lane, reading, riskEvaluation, market, deaths, unacknowledged>>

\* Mutant: the row is not looked at again after the broker call.
StartAsLoaded(o) ==
    /\ Starting(o)
    /\ Transition(Row("ACTIVE", TRUE))
    /\ Goto(o, "idle")
    /\ UNCHANGED <<evidence, lane, reading, riskEvaluation, market, deaths, unacknowledged>>

\* get_account answered: decide again, then activate.
Start(o) ==
    /\ Starting(o)
    /\ \/ session.state \in StartHardBlocked \cup {"ACTIVE"} /\ NoTransition
       \/ session.state \notin StartHardBlocked \cup {"ACTIVE"} /\ Transition(Row("ACTIVE", TRUE))
    /\ Goto(o, "idle")
    /\ UNCHANGED <<evidence, lane, reading, riskEvaluation, market, deaths, unacknowledged>>

\* run_stop: one transaction, never a downgrade of a safety block.
Stop ==
    /\ session.state \notin StopPreserved
    /\ session.active \/ session.state \notin {"DISABLED", "MANUALLY_STOPPED"}
    /\ Transition(Row("MANUALLY_STOPPED", FALSE))
    /\ UNCHANGED <<evidence, op, lane, reading, riskEvaluation, market, deaths, unacknowledged>>

\* run_reset_risk: acknowledges the kill switch.
ResetRisk ==
    /\ session.state = "RISK_STOPPED"
    /\ Transition(Row("MANUALLY_STOPPED", FALSE))
    /\ unacknowledged' = FALSE
    /\ UNCHANGED <<evidence, op, lane, reading, riskEvaluation, market, deaths>>

-----------------------------------------------------------------------------
(* reset-integrity: one early return after the other, then a commit that    *)
(* proves again.                                                            *)

\* The books do not account for an execution the broker reports.
Unaccounted == {e \in Executions : evidence[e] \in {"at_broker", "recorded"}}
\* unlock_proof's issues, and accounting_issues: what the tables themselves show.
KnownDefects == {d \in Defects : evidence[d] = "recorded"}

\* From one step of the command to the next, on what `passes` has read.
ResetStep(o, from, to, passes) ==
    /\ op[o] = from
    /\ Goto(o, IF passes THEN to ELSE "idle")
    /\ UNCHANGED <<session, evidence, proof, lane, reading, riskEvaluation, market, deaths, unacknowledged>>

LoadForReset(o) == Blocked /\ ResetStep(o, "idle", "unresolved", TRUE)

\* An unaccounted broker execution refuses the reset, at any age.
CheckUnresolved(o) ==
    ResetStep(o, "unresolved", "positions", \A e \in Executions : evidence[e] # "recorded")

\* The reset's own run_reconciliation, of which two reads decide: positions
\* against lots (accounting drift, missed fills), then accounting_issues.
\* What it latches is a no-op while the session is blocked.
ReconcilePositions(o) == ResetStep(o, "positions", "audit", Unaccounted = {})
ReconcileAccounting(o) == ResetStep(o, "audit", "prove", KnownDefects = {})

\* unlock_proof: issues and digest in one read transaction, before the broker
\* is observed.
Prove(o) ==
    /\ op[o] = "prove"
    /\ \/ KnownDefects # {} /\ Goto(o, "idle") /\ UNCHANGED proof
       \/ KnownDefects = {} /\ Goto(o, "value") /\ proof' = proof \cup {o}
    /\ UNCHANGED <<session, evidence, lane, reading, riskEvaluation, market, deaths, unacknowledged>>

\* observe_broker_valuation and marked_snapshot: cash, positions and equity of
\* the account against the books.
Value(o) == ResetStep(o, "value", "commit", Unaccounted = {})

\* The broker, the credentials, the quarantine gates, a hold or an open order
\* refuse at any step.
ResetRefused(o) ==
    /\ op[o] \in {"unresolved", "positions", "audit", "prove", "value"}
    /\ Goto(o, "idle")
    /\ UNCHANGED <<session, evidence, proof, lane, reading, riskEvaluation, market, deaths, unacknowledged>>

\* Mutant: the commit re-reads the issues but not the digest.
ResetIntegrityUndigested(o) ==
    /\ op[o] = "commit"
    /\ \/ Blocked /\ KnownDefects = {} /\ Transition(Row("MANUALLY_STOPPED", FALSE))
       \/ ~(Blocked /\ KnownDefects = {}) /\ NoTransition
    /\ Goto(o, "idle")
    /\ UNCHANGED <<evidence, lane, reading, riskEvaluation, market, deaths, unacknowledged>>

\* transition_session with require_unlock_proof: no issues now, and the digest
\* of the proof, or everything rolls back.
ResetIntegrity(o) ==
    LET proven == Blocked /\ KnownDefects = {} /\ o \in proof IN
    /\ op[o] = "commit"
    /\ \/ proven /\ Transition(Row("MANUALLY_STOPPED", FALSE))
       \/ ~proven /\ NoTransition
    /\ Goto(o, "idle")
    /\ UNCHANGED <<evidence, lane, reading, riskEvaluation, market, deaths, unacknowledged>>

-----------------------------------------------------------------------------
(* Financial evidence: recorded in one transaction, latched in another.      *)

\* An order of ours, or of anybody else on the account, executes.
BrokerExecutes(e) ==
    /\ evidence[e] = "none"
    /\ evidence' = [evidence EXCEPT ![e] = "at_broker"]
    /\ UNCHANGED <<session, commands, lane, reading, riskEvaluation, market, deaths, unacknowledged>>

\* A lane records what it found and goes on to its latch: record_pass (with
\* the cursor) and _classify_late (with its note) for executions; a verdict of
\* settlement or an accounting check that failed for defects.
Record(l, e) ==
    /\ l \notin lane
    /\ evidence[e] = IF e \in Executions THEN "at_broker" ELSE "none"
    /\ evidence' = [evidence EXCEPT ![e] = "recorded"]
    /\ lane' = lane \cup {l}
    /\ TouchesEvidence
    /\ UNCHANGED <<session, op, reading, riskEvaluation, market, deaths, unacknowledged>>

\* The execution is attributed with its cash entry, the defect repaired.
Settle(e) ==
    /\ evidence[e] = "recorded" \/ (e \in Executions /\ evidence[e] = "at_broker")
    /\ evidence' = [evidence EXCEPT ![e] = "settled"]
    /\ TouchesEvidence
    /\ UNCHANGED <<session, op, lane, reading, riskEvaluation, market, deaths, unacknowledged>>

\* A reconciliation pass, or the next start of the runtime, finds positions
\* that differ from the lots, defects or open unresolved executions.
Reconcile(l) ==
    /\ l \notin lane
    /\ Unaccounted \cup KnownDefects # {}
    /\ lane' = lane \cup {l}
    /\ UNCHANGED <<session, evidence, commands, reading, riskEvaluation, market, deaths, unacknowledged>>

\* Mutant: a risk stop is not escalated.
LatchFinancialIntegrityBlockUnlessStopped(l) ==
    /\ l \in lane
    /\ \/ session.state \in StopPreserved /\ NoTransition
       \/ session.state \notin StopPreserved /\ Transition(Row("FINANCIAL_INTEGRITY_BLOCKED", FALSE))
    /\ lane' = lane \ {l}
    /\ UNCHANGED <<evidence, op, reading, riskEvaluation, market, deaths, unacknowledged>>

\* latch_financial_integrity_block: idempotent, escalates every other state.
LatchFinancialIntegrityBlock(l) ==
    /\ l \in lane
    /\ \/ Blocked /\ NoTransition
       \/ ~Blocked /\ Transition(Row("FINANCIAL_INTEGRITY_BLOCKED", FALSE))
    /\ lane' = lane \ {l}
    /\ UNCHANGED <<evidence, op, reading, riskEvaluation, market, deaths, unacknowledged>>

\* The process of the lane dies between its record and its latch.
LaneDies(l) ==
    /\ l \in lane /\ deaths < MaxDeaths
    /\ lane' = lane \ {l}
    /\ deaths' = deaths + 1
    /\ UNCHANGED <<session, evidence, commands, reading, riskEvaluation, market, unacknowledged>>

-----------------------------------------------------------------------------
(* The kill switch                                                          *)

\* evaluate_risk on a requested entry: the account breaches a limit.
FindBreach ==
    /\ ~riskEvaluation /\ session.active
    /\ riskEvaluation' = TRUE
    /\ UNCHANGED <<session, evidence, commands, lane, reading, market, deaths, unacknowledged>>

\* latch_risk_stop: idempotent, never downgrades an integrity block.
LatchRiskStop ==
    /\ riskEvaluation
    /\ \/ session.state \in StopPreserved /\ NoTransition /\ UNCHANGED unacknowledged
       \/ /\ session.state \notin StopPreserved
          /\ Transition(Row("RISK_STOPPED", FALSE)) /\ unacknowledged' = TRUE
    /\ riskEvaluation' = FALSE
    /\ UNCHANGED <<evidence, op, lane, reading, market, deaths>>

-----------------------------------------------------------------------------
(* sync_market_session: the clock is read before the transaction.           *)

MarketFlips ==
    /\ flips < MaxFlips
    /\ flips' = flips + 1 /\ marketOpen' = ~marketOpen
    /\ UNCHANGED <<session, evidence, commands, lane, reading, riskEvaluation, deaths, unacknowledged>>

ReadClock(s) ==
    /\ reading[s] = "none" /\ session.state \in Resumable
    /\ reading' = [reading EXCEPT ![s] = IF marketOpen THEN "open" ELSE "closed"]
    /\ UNCHANGED <<session, evidence, commands, lane, riskEvaluation, market, deaths, unacknowledged>>

\* Mutant: the label follows the clock whatever the session has become.
SyncAsLoaded(s) ==
    /\ reading[s] # "none"
    /\ Transition(Row(IF reading[s] = "open" THEN "ACTIVE" ELSE "MARKET_CLOSED", TRUE))
    /\ reading' = [reading EXCEPT ![s] = "none"]
    /\ UNCHANGED <<evidence, op, lane, riskEvaluation, market, deaths, unacknowledged>>
\* Mutant: the label only ever closes.
SyncClosesOnly(s) ==
    /\ reading[s] # "none"
    /\ \/ /\ session.state = "ACTIVE" /\ reading[s] = "closed"
          /\ Transition(Row("MARKET_CLOSED", session.active))
       \/ /\ ~(session.state = "ACTIVE" /\ reading[s] = "closed")
          /\ NoTransition
    /\ reading' = [reading EXCEPT ![s] = "none"]
    /\ UNCHANGED <<evidence, op, lane, riskEvaluation, market, deaths, unacknowledged>>

\* Only between ACTIVE and MARKET_CLOSED, with trading_active kept.
SyncMarketSession(s) ==
    LET closes == session.state = "ACTIVE" /\ reading[s] = "closed"
        opens  == session.state = "MARKET_CLOSED" /\ reading[s] = "open" IN
    /\ reading[s] # "none"
    /\ \/ closes /\ Transition(Row("MARKET_CLOSED", session.active))
       \/ opens /\ Transition(Row("ACTIVE", session.active))
       \/ ~closes /\ ~opens /\ NoTransition
    /\ reading' = [reading EXCEPT ![s] = "none"]
    /\ UNCHANGED <<evidence, op, lane, riskEvaluation, market, deaths, unacknowledged>>

-----------------------------------------------------------------------------
Init ==
    /\ session = Row("DISABLED", FALSE)
    /\ evidence = [e \in Evidence |-> "none"]
    /\ proof = {}
    /\ op = [o \in Operators |-> "idle"]
    /\ lane = {}
    /\ reading = [s \in Scanners |-> "none"]
    /\ riskEvaluation = FALSE
    /\ marketOpen \in BOOLEAN
    /\ flips = 0
    /\ deaths = 0
    /\ unacknowledged = FALSE

StartCommand(o) == CheckResume(o) \/ LoadForStart(o) \/ BrokerUnreachable(o) \/ Start(o)

ResetCommand(o) ==
    \/ LoadForReset(o) \/ CheckUnresolved(o) \/ ReconcilePositions(o) \/ ReconcileAccounting(o)
    \/ Prove(o) \/ Value(o) \/ ResetRefused(o) \/ ResetIntegrity(o)

Lane(l) ==
    \/ \E e \in Evidence : Record(l, e)
    \/ Reconcile(l) \/ LatchFinancialIntegrityBlock(l) \/ LaneDies(l)

Next ==
    \/ \E o \in Operators : StartCommand(o) \/ ResetCommand(o)
    \/ Stop \/ ResetRisk
    \/ \E e \in Executions : BrokerExecutes(e)
    \/ \E e \in Evidence : Settle(e)
    \/ \E l \in Lanes : Lane(l)
    \/ FindBreach \/ LatchRiskStop \/ MarketFlips
    \/ \E s \in Scanners : ReadClock(s) \/ SyncMarketSession(s)

Spec == Init /\ [][Next]_vars

\* The reconcile lane runs every minute and a lane that recorded something
\* goes on to its latch; the scan lanes run as long as the session is on.
Fairness ==
    /\ \A l \in Lanes : WF_vars(Reconcile(l) \/ LatchFinancialIntegrityBlock(l))
    /\ \A s \in Scanners : WF_vars(ReadClock(s) \/ SyncMarketSession(s))

FairSpec == Spec /\ Fairness

-----------------------------------------------------------------------------
(* Properties                                                               *)

OpLabels == {"idle", "resume", "start", "resumeStart", "unresolved", "positions",
             "audit", "prove", "value", "commit"}

\* The type invariant, with the constraints of TradingSession.__post_init__:
\* trading_active exactly in the states that may take risk.
TypeOK ==
    /\ session \in [state : States, active : BOOLEAN]
    /\ session.active <=> session.state \in Resumable
    /\ evidence \in [Evidence -> {"none", "at_broker", "recorded", "settled"}]
    /\ proof \in SUBSET Operators
    /\ op \in [Operators -> OpLabels]
    /\ lane \in SUBSET Lanes
    /\ reading \in [Scanners -> {"none", "open", "closed"}]
    /\ riskEvaluation \in BOOLEAN
    /\ marketOpen \in BOOLEAN
    /\ flips \in Nat /\ deaths \in Nat
    /\ unacknowledged \in BOOLEAN

\* A safety block gives way only to its own reset command (or a risk stop to
\* the more severe integrity block), whatever start, stop or sync had read.
BlockStands ==
    /\ Blocked => session' = session \/ \E o \in Operators : op[o] = "commit" /\ op'[o] = "idle"
    /\ session.state = "RISK_STOPPED" =>
          \/ session' = session
          \/ session'.state = "FINANCIAL_INTEGRITY_BLOCKED"
          \/ ~session'.active /\ session'.state = "MANUALLY_STOPPED"
BlocksNeedTheirReset == [][BlockStands]_vars

\* No override erases unresolved financial evidence: at the moment an
\* integrity block is lifted no recorded defect or execution is open, however
\* long ago the command looked (the broker may have executed meanwhile).
ResetProves ==
    Blocked /\ session'.state # "FINANCIAL_INTEGRITY_BLOCKED" =>
        \A e \in Evidence : evidence[e] # "recorded"
ResetIsProven == [][ResetProves]_vars

\* Trading is turned on by run_start and nothing else: a scanner's stale clock
\* never revives a session that was stopped or latched meanwhile.
StartActivates ==
    ~session.active /\ session'.active => \E o \in Operators : Starting(o) /\ op'[o] = "idle"
OnlyStartActivates == [][StartActivates]_vars

\* No command or lane turns trading on behind a block's back.
SessionIsGuarded == BlocksNeedTheirReset /\ OnlyStartActivates

\* Recorded evidence stops trading in the end or is settled: no latch is lost
\* for good, whether the lane died or the session was stopped otherwise.
EvidenceLatches ==
    \A e \in Evidence : evidence[e] = "recorded" ~> (Blocked \/ evidence[e] # "recorded")

\* The ACTIVE / MARKET_CLOSED label follows a market that stops changing,
\* stale clock readings of several scanners notwithstanding.
LabelFollowsMarket ==
    /\ <>[]marketOpen => <>[](session.state # "MARKET_CLOSED")
    /\ <>[](~marketOpen) => []<>(session.state # "ACTIVE")

\* The session row catches up with the world: with recorded evidence and with
\* the market's clock, whichever process died or read them too early.
SessionCatchesUp == EvidenceLatches /\ LabelFollowsMarket

\* reset-risk is "the only way to clear RISK_STOPPED": no trading after a kill
\* switch until the operator has acknowledged it.
KillSwitchAcknowledged == unacknowledged => ~session.active

\* `run --resume` "never activates a session an operator stopped or a safety
\* latch halted".
ResumeNeverActivates ==
    [][~session.active /\ session'.active =>
          \A o \in Operators : ~(op[o] = "resumeStart" /\ op'[o] = "idle")]_vars
=============================================================================
