------------------------------ MODULE Verification ------------------------------
(***************************************************************************)
(* A verification generation (verification/service.py, integrity.py,       *)
(* opening.py, commands.py): how it is frozen and bound to its database,   *)
(* run under its lease, checked by anybody, and sealed.  Processes die     *)
(* between any two artifacts; the source, the broker's account and other   *)
(* processes change meanwhile.                                             *)
(*                                                                         *)
(* An artifact is published whole and never replaced (write_once), so what *)
(* matters is which there are.  The evidence database is the number of     *)
(* rows written; whether the evidence passes is open.                      *)
(***************************************************************************)
EXTENDS Integers, Sequences, FiniteSets

CONSTANTS
    Processes,
    Ordinary,    \* processes that run a command without a generation
    Lag,         \* whether the broker may report an activity after its position
    MaxRows,     \* bound: rows of evidence
    MaxFills,    \* bound: what happens in the account
    MaxEdits,    \* bound: changes of the source
    MaxCrashes,  \* bound: processes that die
    None

VerificationAssumption == None \notin Processes /\ None # "passed"

VARIABLES
    disk,        \* the artifacts of the generation
    bound,       \* verification_identity.generation_id is set
    checkpoint,  \* the opening checkpoint, and the source the manifest holds
    evidence,    \* what sealed-evidence.json holds
    rows,        \* the evidence database
    lock,        \* process.lock
    writer,      \* who holds the database's write transaction
    source,      \* the program's files and configuration
    broker,      \* the account: fills in positions, and in activities
    proc,        \* the processes
    edits, crashes

vars == <<disk, bound, checkpoint, evidence, rows, lock, writer, source, broker, proc, edits, crashes>>

Frozen == {"checkpoint", "manifest", "manifest-sha", "binding"}
Artifacts == Frozen \cup {"started", "started-sha", "sealed-evidence", "seal", "seal-sha", "invalid"}
Answers == {None, "passed", "unsealed", "failed", "reopened", "in-progress", "refused"}

Idle == [pc |-> "idle", command |-> None, source |-> 0, before |-> 0, positions |-> 0, next |-> None,
         valid |-> FALSE, snapshot |-> 0, condemned |-> FALSE, answer |-> None]

TypeOK ==
    /\ disk \subseteq Artifacts /\ bound \in BOOLEAN
    /\ checkpoint \in [population : Nat, positions : Nat, source : 0..1] /\ evidence \in Nat /\ rows \in Nat
    /\ lock \in Processes \cup {None} /\ writer \in Processes \cup {None}
    /\ \A p \in Processes : proc[p].answer \in Answers /\ proc[p].valid \in BOOLEAN

Init ==
    /\ disk = {} /\ bound = FALSE /\ checkpoint = [population |-> 0, positions |-> 0, source |-> 0] /\ evidence = 0
    /\ rows = 0 /\ lock = None /\ writer = None /\ source = 0 /\ broker = [positions |-> 0, activities |-> 0]
    /\ proc = [p \in Processes |-> Idle] /\ edits = 0 /\ crashes = 0

At(p, pc) == proc[p].pc = pc
Move(p, pc) == proc' = [proc EXCEPT ![p].pc = pc]
Answer(p, answer) == proc' = [proc EXCEPT ![p].pc = "done", ![p].answer = answer]
Publish(artifact) == disk' = disk \cup {artifact}
World == <<rows, source, broker, edits, crashes>>
Database == <<bound, checkpoint, evidence, writer>>

-----------------------------------------------------------------------------
(* Freezing.                                                               *)

Fresh == disk = {} /\ ~bound /\ rows = 0

BeginFreeze(p) ==
    /\ At(p, "idle") /\ p \notin Ordinary /\ Fresh
    /\ proc' = [proc EXCEPT ![p].pc = "before", ![p].command = "freeze", ![p].source = source]
    /\ UNCHANGED <<disk, lock, Database, World>>

(* capture_checkpoint: the positions between two reads of the activities.  *)
CaptureBefore(p) ==
    /\ At(p, "before")
    /\ proc' = [proc EXCEPT ![p].pc = "positions", ![p].before = broker.activities]
    /\ UNCHANGED <<disk, lock, Database, World>>

CapturePositions(p) ==
    /\ At(p, "positions")
    /\ proc' = [proc EXCEPT ![p].pc = "after", ![p].positions = broker.positions]
    /\ UNCHANGED <<disk, lock, Database, World>>

(* Mutant: the activities are read once.                                   *)
Unchecked(p) == TRUE

Bracketed(p) == broker.activities = proc[p].before

CaptureAfter(p) ==
    /\ At(p, "after")
    /\ IF Bracketed(p) THEN Move(p, "publish") ELSE Answer(p, "refused")
    /\ UNCHANGED <<disk, lock, Database, World>>

(* _publish_freeze: in one write transaction, all checks are made again.   *)
BeginPublish(p) ==
    /\ At(p, "publish") /\ writer = None
    /\ IF Fresh /\ source = proc[p].source
       THEN /\ writer' = p /\ Publish("checkpoint")
            /\ checkpoint' = [population |-> proc[p].before, positions |-> proc[p].positions, source |-> source]
            /\ proc' = [proc EXCEPT ![p].pc = "manifest"]
       ELSE Answer(p, "refused") /\ UNCHANGED <<writer, checkpoint, disk>>
    /\ UNCHANGED <<bound, evidence, lock, World>>

(* Mutant: the database is bound before its binding is published.          *)
PublishedBoundEarly(p) ==
    \/ At(p, "manifest") /\ Publish("manifest") /\ Move(p, "manifest-sha") /\ UNCHANGED bound
    \/ At(p, "manifest-sha") /\ Publish("manifest-sha") /\ Move(p, "binding") /\ bound' = TRUE
    \/ At(p, "binding") /\ Publish("binding") /\ Move(p, "bind") /\ UNCHANGED bound

Published(p) ==
    \/ At(p, "manifest") /\ Publish("manifest") /\ Move(p, "manifest-sha") /\ UNCHANGED bound
    \/ At(p, "manifest-sha") /\ Publish("manifest-sha") /\ Move(p, "binding") /\ UNCHANGED bound
    \/ At(p, "binding") /\ Publish("binding") /\ Move(p, "bind") /\ UNCHANGED bound

PublishFreeze(p) ==
    /\ Published(p)
    /\ UNCHANGED <<checkpoint, evidence, lock, writer, World>>

Bind(p) ==
    /\ At(p, "bind")
    /\ bound' = TRUE /\ writer' = None /\ Answer(p, None)
    /\ UNCHANGED <<disk, checkpoint, evidence, lock, World>>

-----------------------------------------------------------------------------
(* Verification.check, made in the course of every command: the verdict,   *)
(* and invalid.json when it is bad.                                        *)

(* Mutant: an earlier verdict is forgotten once the source is restored.    *)
BindingOnly == bound /\ Frozen \subseteq disk

(* load_opening_checkpoint, read_manifest.                                 *)
Loads == bound /\ Frozen \subseteq disk /\ "invalid" \notin disk

Check(p, next) == proc' = [proc EXCEPT ![p].pc = "check", ![p].next = next]

Judge(p) ==
    /\ At(p, "check")
    /\ LET valid == Loads /\ source = checkpoint.source IN
       proc' = [proc EXCEPT ![p].valid = valid, ![p].pc = IF valid THEN proc[p].next ELSE "invalidate"]
    /\ UNCHANGED <<disk, lock, Database, World>>

(* A changed source condemns a generation that has no seal; what does not  *)
(* load condemns it in any case, if there is a directory to write to.      *)
Invalidate(p) ==
    /\ At(p, "invalidate")
    /\ IF disk # {} /\ (~Loads \/ "seal" \notin disk) THEN Publish("invalid") ELSE UNCHANGED disk
    /\ Move(p, proc[p].next)
    /\ UNCHANGED <<lock, Database, World>>

-----------------------------------------------------------------------------
(* Commands of the generation: run and reconcile hold its lease, status    *)
(* takes it when it can, verify only checks.                               *)

Begin(p) ==
    /\ At(p, "idle") /\ p \notin Ordinary /\ disk # {}
    /\ \E command \in {"run", "reconcile", "status", "verify"} :
         proc' = [proc EXCEPT ![p] = [Idle EXCEPT !.pc = "check", !.command = command,
                                                  !.next = IF command = "verify" THEN "checked" ELSE "acquire",
                                                  !.condemned = "invalid" \in disk]]
    /\ UNCHANGED <<disk, lock, Database, World>>

(* What start() refuses, the lease in hand.                                *)
Refuses(p) ==
    \/ proc[p].command = "run" /\ "seal" \in disk
    \/ "sealed-evidence" \in disk /\ "seal" \notin disk
    \/ "started" \in disk /\ "started-sha" \notin disk

Acquire(p) ==
    /\ At(p, "acquire")
    /\ IF proc[p].valid /\ lock = None
       THEN IF proc[p].command # "status" /\ Refuses(p) THEN Answer(p, "refused") /\ UNCHANGED lock
            ELSE lock' = p /\ (IF proc[p].command = "status" THEN Check(p, "report") ELSE Move(p, "reconcile"))
       ELSE (IF proc[p].command = "status" THEN Check(p, "report") ELSE Answer(p, "refused")) /\ UNCHANGED lock
    /\ UNCHANGED <<disk, Database, World>>

Write == rows < MaxRows /\ writer = None /\ rows' = rows + 1
NoWrite == <<source, broker, edits, crashes>>

(* _run_reconcile: the whole of the command, or the start of a run.        *)
Reconcile(p) ==
    /\ At(p, "reconcile")
    /\ Write \/ UNCHANGED rows
    /\ Check(p, IF proc[p].command = "run" THEN "begin" ELSE "report")
    /\ UNCHANGED <<disk, lock, Database, NoWrite>>

(* runtime_started: a run that is refused still reports.                   *)
Start(p) ==
    /\ At(p, "begin")
    /\ CASE ~proc[p].valid -> Check(p, "report") /\ UNCHANGED disk
         [] proc[p].valid /\ "started" \in disk -> Move(p, "lanes") /\ UNCHANGED disk
         [] proc[p].valid /\ "started" \notin disk -> Publish("started") /\ Move(p, "started")
    /\ UNCHANGED <<lock, Database, World>>

StartDigest(p) ==
    /\ At(p, "started")
    /\ Publish("started-sha") /\ Move(p, "lanes")
    /\ UNCHANGED <<lock, Database, World>>

(* The lanes and, when they have drained, the last settle and reconcile.   *)
Trade(p) ==
    /\ At(p, "lanes") /\ Write
    /\ UNCHANGED <<disk, lock, Database, proc, NoWrite>>

Drain(p) ==
    /\ At(p, "lanes")
    /\ Check(p, "report")
    /\ UNCHANGED <<disk, lock, Database, World>>

-----------------------------------------------------------------------------
(* report.                                                                 *)

ReportSealed(p) ==
    /\ At(p, "report") /\ "seal" \in disk
    /\ Answer(p, CASE "seal-sha" \notin disk -> "refused"
                   [] "seal-sha" \in disk /\ rows # evidence -> "reopened"
                   [] "seal-sha" \in disk /\ rows = evidence -> IF proc[p].valid THEN "passed" ELSE "failed")
    /\ UNCHANGED <<disk, lock, Database, World>>

ReportOpen(p) ==
    /\ At(p, "report") /\ "seal" \notin disk
    /\ CASE ~proc[p].valid -> Answer(p, "failed")
         [] proc[p].valid /\ "sealed-evidence" \in disk -> Answer(p, "refused")
         [] proc[p].valid /\ "sealed-evidence" \notin disk /\ "started" \notin disk -> Answer(p, "in-progress")
         [] proc[p].valid /\ "sealed-evidence" \notin disk /\ "started" \in disk ->
                IF "started-sha" \in disk THEN proc' = [proc EXCEPT ![p].pc = "assess", ![p].snapshot = rows]
                ELSE Answer(p, "refused")
    /\ UNCHANGED <<disk, lock, Database, World>>

(* Mutant: whoever reports a pass seals it.                                *)
MaySealAnyway(p) == TRUE

(* report(seal=True) is for the holder of the lease.                       *)
MaySeal(p) == lock = p

Assess(p) ==
    /\ At(p, "assess")
    /\ Answer(p, "in-progress") \/ (IF MaySeal(p) THEN Check(p, "seal") ELSE Answer(p, "unsealed"))
    /\ UNCHANGED <<disk, lock, Database, World>>

SealEvidence(p) ==
    /\ At(p, "seal")
    /\ IF proc[p].valid /\ "sealed-evidence" \notin disk
       THEN Publish("sealed-evidence") /\ evidence' = proc[p].snapshot /\ Move(p, "sealing")
       ELSE Answer(p, "refused") /\ UNCHANGED <<disk, evidence>>
    /\ UNCHANGED <<lock, bound, checkpoint, writer, World>>

Seal(p) ==
    /\ At(p, "sealing") /\ Publish("seal") /\ Move(p, "sealed")
    /\ UNCHANGED <<lock, Database, World>>

SealDigest(p) ==
    /\ At(p, "sealed") /\ Publish("seal-sha") /\ Answer(p, "passed")
    /\ UNCHANGED <<lock, Database, World>>

End(p) ==
    /\ At(p, "done") \/ At(p, "checked")
    /\ proc' = [proc EXCEPT ![p] = Idle]
    /\ lock' = IF lock = p THEN None ELSE lock
    /\ UNCHANGED <<disk, Database, World>>

-----------------------------------------------------------------------------
(* The surroundings.                                                       *)

(* permit_command: without a generation, the database must be unbound; it  *)
(* is looked at once, and the command goes on.                             *)
Permit(p) ==
    /\ At(p, "idle") /\ p \in Ordinary /\ ~bound /\ disk = {}
    /\ Move(p, "permitted")
    /\ UNCHANGED <<disk, lock, Database, World>>

OrdinaryWrite(p) ==
    /\ At(p, "permitted") /\ Write
    /\ UNCHANGED <<disk, lock, Database, proc, NoWrite>>

(* A dead process frees its lease and its transaction.                     *)
Crash(p) ==
    /\ ~At(p, "idle") /\ crashes < MaxCrashes
    /\ crashes' = crashes + 1
    /\ proc' = [proc EXCEPT ![p] = Idle]
    /\ lock' = IF lock = p THEN None ELSE lock
    /\ writer' = IF writer = p THEN None ELSE writer
    /\ UNCHANGED <<disk, bound, checkpoint, evidence, rows, source, broker, edits>>

EditSource ==
    /\ edits < MaxEdits /\ edits' = edits + 1
    /\ source' = 1 - source
    /\ UNCHANGED <<disk, lock, Database, rows, broker, proc, crashes>>

(* The account matters until the generation is bound.                      *)
Fill ==
    /\ broker.positions < MaxFills /\ ~bound
    /\ broker' = [positions |-> broker.positions + 1,
                  activities |-> IF Lag THEN broker.activities ELSE broker.positions + 1]
    /\ UNCHANGED <<disk, lock, Database, rows, source, proc, edits, crashes>>

Report ==
    /\ broker.activities < broker.positions
    /\ broker' = [broker EXCEPT !.activities = broker.positions]
    /\ UNCHANGED <<disk, lock, Database, rows, source, proc, edits, crashes>>

Step(p) ==
    \/ BeginFreeze(p) \/ CaptureBefore(p) \/ CapturePositions(p) \/ CaptureAfter(p)
    \/ BeginPublish(p) \/ PublishFreeze(p) \/ Bind(p)
    \/ Begin(p) \/ Judge(p) \/ Invalidate(p) \/ Acquire(p) \/ Reconcile(p) \/ Start(p) \/ StartDigest(p)
    \/ Trade(p) \/ Drain(p) \/ ReportSealed(p) \/ ReportOpen(p) \/ Assess(p)
    \/ SealEvidence(p) \/ Seal(p) \/ SealDigest(p) \/ End(p)
    \/ Permit(p) \/ OrdinaryWrite(p) \/ Crash(p)

Next == \/ \E p \in Processes : Step(p)
        \/ EditSource \/ Fill \/ Report

Spec == Init /\ [][Next]_vars

-----------------------------------------------------------------------------
(* Properties                                                              *)

(* A database is bound only to a generation whose artifacts are complete,  *)
(* wherever the freeze stopped.                                            *)
BoundIsComplete == bound => Frozen \subseteq disk

(* The positions a generation opens with are those its activity history    *)
(* leads to: nothing that happened during the capture is lost or owned     *)
(* twice.                                                                  *)
OpeningIsExact == bound => checkpoint.positions = checkpoint.population

(* A generation that was found invalid never passes again, also when the   *)
(* source has been restored.                                               *)
InvalidIsFinal == \A p \in Processes : proc[p].condemned => proc[p].answer # "passed"

(* A seal holds all the evidence there is when it is published.            *)
SealTakesAll == ("seal" \notin disk /\ "seal" \in disk') => evidence = rows
SealIsWhole == [][SealTakesAll]_vars

(* Only a bound generation can be found invalid (false: it is checked      *)
(* while it is being frozen, and dead when it is bound).                   *)
NoVerdictBeforeBinding == [][("invalid" \notin disk /\ "invalid" \in disk') => bound]_vars

(* Evidence of a bound database comes from the holder of its lease (false  *)
(* with commands that were permitted before the freeze).                   *)
EvidenceIsOfficial == [][(bound /\ rows' # rows) => lock # None]_vars

(* A generation from its opening to its verdict, wherever a process died.  *)
GenerationIsSound == BoundIsComplete /\ OpeningIsExact /\ InvalidIsFinal
GenerationIsWhole == []GenerationIsSound /\ SealIsWhole
=============================================================================
