------------------------------- MODULE Quarantine -------------------------------
(***************************************************************************)
(* Quarantined inventory of one instrument: the short-exposure liability   *)
(* an oversell leaves, the unmanaged inventory a cover larger than the     *)
(* liabilities leaves, `quarantine resolve`, `adopt-legacy-lot`, and the   *)
(* release of the holds by `reset-integrity`.                              *)
(*                                                                         *)
(* Resolutions are FIFO.  A command reads the records, then asks the       *)
(* broker for corporate actions, then reads the records again in the       *)
(* transaction that writes everything.  The reset reads its gate, then     *)
(* reconciles and values, then takes its proof, then commits.  Settlement  *)
(* may be anywhere in between.                                             *)
(***************************************************************************)
EXTENDS Integers, FiniteSetsExt, Functions

CONSTANTS
    Sells,          \* fills that oversell, settled or booked by old code as a short lot
    Legacy,         \* those of them that are short lots of old code
    Executions,     \* what the broker executed for somebody else: covers and sales
    Commands,       \* `quarantine resolve`, each holding the account lease it read
    Excess, Size,   \* the oversold units; the units of an execution
    Buys,           \* the executions that buy
    At              \* when a sell or an execution happened: distinct numbers

None == "none"

QuarantineAssumption ==
    /\ IsFiniteSet(Sells) /\ IsFiniteSet(Executions) /\ Sells \cap Executions = {}
    /\ Legacy \subseteq Sells /\ Buys \subseteq Executions /\ None \notin Executions
    /\ Excess \in [Sells -> Nat \ {0}] /\ Size \in [Executions -> Nat \ {0}]
    /\ At \in [Sells \cup Executions -> Nat]
    /\ \A x, y \in Sells \cup Executions : At[x] = At[y] => x = y

VARIABLES
    stage,      \* [Sells -> settlement: "none", "lot" (liability), "latched", "held"]
    surplus,    \* [Executions -> units of unmanaged inventory it left]
    resolved,   \* [records \X executions -> units]
    used,       \* quarantine_executions, each with its cash entry
    corporate,  \* a corporate action names the instrument
    command,    \* [Commands -> the execution it read the records for, or None]
    blocked,    \* FINANCIAL_INTEGRITY_BLOCKED
    reset,      \* "idle", "gated", "proven"
    proof       \* what the reset's proof read

vars == <<stage, surplus, resolved, used, corporate, command, blocked, reset, proof>>
ledgers == <<surplus, resolved, used>>
resets == <<reset, proof>>

-----------------------------------------------------------------------------
Records == Sells \cup Executions

\* A liability exists from the lot stage on; inventory when a cover left some.
Quantity(r) ==
    IF r \in Sells THEN IF stage[r] = "none" THEN 0 ELSE Excess[r] ELSE surplus[r]
Resolved(r) == SumFunctionOnSet([a \in Executions |-> resolved[<<r, a>>]], Executions)
Open(r) == Quantity(r) - Resolved(r)

open_records == {r \in Records : Open(r) > 0}

Oldest(S) == CHOOSE r \in S : \A s \in S : At[r] <= At[s]
Units(S) == SumFunctionOnSet([r \in S |-> Open(r)], S)

\* min(remaining, record.quantity) for the records from the oldest on.
Covered(a, r) ==
    LET older == {s \in open_records : At[s] < At[r]} IN
    IF r \notin open_records \/ Units(older) >= Size[a] THEN 0
    ELSE Min({Open(r), Size[a] - Units(older)})
Left(a) == Max({0, Size[a] - Units(open_records)})

\* (a broken variant: an execution that was already used is used again)
PreflightAgain(a) ==
    /\ open_records # {}
    /\ \/ open_records \subseteq Sells /\ a \in Buys
       \/ open_records \subseteq Executions /\ a \notin Buys /\ Size[a] <= Units(open_records)
    /\ At[a] > At[Oldest(open_records)]

Preflight(a) ==
    /\ a \notin used
    /\ open_records # {}
    /\ \/ open_records \subseteq Sells /\ a \in Buys
       \/ open_records \subseteq Executions /\ a \notin Buys /\ Size[a] <= Units(open_records)
    /\ At[a] > At[Oldest(open_records)]

-----------------------------------------------------------------------------
Init ==
    /\ stage = [s \in Sells |-> "none"] /\ surplus = [a \in Executions |-> 0]
    /\ resolved = [p \in Records \X Executions |-> 0] /\ used = {}
    /\ corporate = FALSE /\ command = [c \in Commands |-> None]
    /\ blocked = (Legacy # {}) /\ reset = "idle" /\ proof = None

-----------------------------------------------------------------------------
(* Settlement of an oversell: _project_lot, then _project_liability_hold.    *)

ProjectLot(s) ==
    /\ s \notin Legacy /\ stage[s] = "none"
    /\ stage' = [stage EXCEPT ![s] = "lot"]
    /\ UNCHANGED <<ledgers, corporate, command, blocked, resets>>

LatchLiability(s) ==
    /\ stage[s] = "lot" /\ stage' = [stage EXCEPT ![s] = "latched"]
    /\ blocked' = TRUE
    /\ UNCHANGED <<ledgers, corporate, command, resets>>

HoldOrder(s) ==
    /\ stage[s] = "latched" /\ stage' = [stage EXCEPT ![s] = "held"]
    /\ UNCHANGED <<ledgers, corporate, command, blocked, resets>>

\* One transaction: liability, conversion and hold.  No latch: the lot has it.
AdoptLegacyLot(s) ==
    /\ s \in Legacy /\ stage[s] = "none"
    /\ stage' = [stage EXCEPT ![s] = "held"]
    /\ UNCHANGED <<ledgers, corporate, command, blocked, resets>>

\* latch_legacy_short_lots, at startup and on every pass.
Pass ==
    /\ (\E s \in Legacy : stage[s] = "none") \/ open_records # {}
    /\ ~blocked /\ blocked' = TRUE
    /\ UNCHANGED <<stage, ledgers, corporate, command, resets>>

-----------------------------------------------------------------------------
(* quarantine resolve.                                                       *)

BrokerActs == ~corporate /\ corporate' = TRUE
              /\ UNCHANGED <<stage, ledgers, command, blocked, resets>>

Read(c, a) ==
    /\ command[c] = None /\ Preflight(a) /\ ~corporate
    /\ command' = [command EXCEPT ![c] = a]
    /\ UNCHANGED <<stage, ledgers, corporate, blocked, resets>>

\* The transaction takes the execution from the records as they now are.
Resolve(a) ==
    /\ Preflight(a)
    /\ resolved' = [p \in Records \X Executions |->
           resolved[p] + IF p[2] = a THEN Covered(a, p[1]) ELSE 0]
    /\ surplus' = [surplus EXCEPT ![a] = Left(a)]
    /\ used' = used \cup {a}

Write(c) ==
    LET a == command[c] IN
    /\ a # None /\ command' = [command EXCEPT ![c] = None]
    /\ Resolve(a) \/ (~Preflight(a) /\ UNCHANGED ledgers)
    /\ UNCHANGED <<stage, corporate, blocked, resets>>

-----------------------------------------------------------------------------
(* reset-integrity: its gate, its proof, its transaction.                    *)

\* reset_gate_issues: the gate is read once, before anything else.
Gate ==
    /\ blocked /\ reset = "idle" /\ open_records = {}
    /\ reset' = "gated"
    /\ UNCHANGED <<stage, ledgers, corporate, command, blocked, proof>>

\* A SHORT_EXPOSURE hold is active until nothing of its instrument is open.
\* (a broken variant: the order's own liabilities alone)
ReleasedOwn == {s \in Sells : stage[s] = "held" /\ Open(s) = 0}
Released == IF open_records = {} THEN {s \in Sells : stage[s] = "held"} ELSE {}

\* unlock_proof: no settlement underway and no active hold.  The settlements,
\* the holds and, by its cash entry, every execution are in the digest.
Proven ==
    /\ \A s \in Sells : stage[s] \in {"none", "held", "released"}
    /\ {s \in Sells : stage[s] = "held"} \subseteq Released

Prove ==
    /\ reset = "gated" /\ UNCHANGED <<stage, ledgers, corporate, command, blocked>>
    /\ \/ Proven /\ reset' = "proven" /\ proof' = <<stage, used>>
       \/ ~Proven /\ reset' = "idle" /\ UNCHANGED proof

Commit ==
    /\ reset = "proven" /\ reset' = "idle" /\ proof' = None
    /\ \/ /\ Proven /\ proof = <<stage, used>> /\ blocked
          /\ blocked' = FALSE
          /\ stage' = [s \in Sells |-> IF s \in Released THEN "released" ELSE stage[s]]
       \/ ~(Proven /\ proof = <<stage, used>> /\ blocked) /\ UNCHANGED <<blocked, stage>>
    /\ UNCHANGED <<ledgers, corporate, command>>

-----------------------------------------------------------------------------
Next ==
    \/ \E s \in Sells : ProjectLot(s) \/ LatchLiability(s) \/ HoldOrder(s) \/ AdoptLegacyLot(s)
    \/ Pass \/ BrokerActs
    \/ \E c \in Commands : Write(c) \/ \E a \in Executions : Read(c, a)
    \/ Gate \/ Prove \/ Commit

Spec == Init /\ [][Next]_vars

-----------------------------------------------------------------------------
\* Every unit of a quarantine execution is in one resolution or in the surplus
\* it left, no record is resolved beyond its quantity, covers resolve
\* liabilities and sales resolve inventory (I5): two commands whose reads
\* overlap, FIFO splits and a surplus included.
QuarantineBalances ==
    /\ \A a \in Executions :
           SumFunctionOnSet([r \in Records |-> resolved[<<r, a>>]], Records) + surplus[a]
               = IF a \in used THEN Size[a] ELSE 0
    /\ \A r \in Records : Open(r) >= 0
    /\ \A r \in Records, a \in Executions : resolved[<<r, a>>] > 0 => (r \in Sells <=> a \in Buys)

\* The reset never clears the latch over open inventory, although its gate is
\* stale when it commits: a hold stays active for every open record of its
\* instrument, a surplus of a later cover included.
ResetFindsNothingOpen == blocked /\ ~blocked' => open_records = {}
ResetLeavesNothingOpen == [][ResetFindsNothingOpen]_vars

\* The quarantine's books balance and open inventory keeps trading stopped.
QuarantineIsExact == []QuarantineBalances /\ ResetLeavesNothingOpen

-----------------------------------------------------------------------------
(* What resolve does not promise.                                            *)

\* A record may be resolved by an execution older than the record: only the
\* oldest open record is compared with the execution.
ResolvedByLaterOnly ==
    \A r \in Records, a \in Executions : resolved[<<r, a>>] > 0 => At[a] > At[r]

\* An oversell that settles while a surplus is open mixes the signs: from then
\* on every execution is refused (QUARANTINE_MIXED_RECORDS).
NeverMixed == open_records \subseteq Sells \/ open_records \subseteq Executions
=============================================================================
