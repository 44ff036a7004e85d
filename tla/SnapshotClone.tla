---------------------------- MODULE SnapshotClone ----------------------------
(***************************************************************************)
(* The template database that twins are cloned from.  The refresher dumps  *)
(* production to a file, restores the file into a staging database and     *)
(* renames that over the template, all by one shell pipeline in the pod of *)
(* twin-postgres.  The refresher only awaits the pipeline: at the timeout, *)
(* or when its loop is stopped, the shell in the pod goes on, beside the   *)
(* pipeline of the next cycle, with the same staging name and dump file.   *)
(*                                                                         *)
(* The data of production is a version number, which is its clock as well. *)
(***************************************************************************)
EXTENDS Naturals

CONSTANTS
    Twins,
    Pipelines,   \* bound on the pipelines that run at once
    MaxRetries,  \* clone attempts
    MaxVersion,  \* bound on the writes of production
    Rounds       \* bound on how often a twin of the same name is cloned

ASSUME SnapshotAssumption ==
    /\ "none" \notin Pipelines
    /\ MaxRetries \in Nat \ {0} /\ MaxVersion \in Nat \ {0} /\ Rounds \in Nat \ {0}

VARIABLES
    prod,      \* version of the production data
    dump,      \* the dump file, and the pipeline that opened it last
    staging,   \* the databases snapshot_staging
    template,  \*   and snapshot_template
    pipe,      \* the pipelines in the pod
    awaited,   \* the pipeline that the refresher awaits, if it does
    recorded,  \* _last_snapshot_time, as the version of the snapshot it is of; 0 for None
    overlap,   \* a pipeline was started beside another
    twin,      \* what the clone call of each twin does
    tries,     \* its attempt
    round,     \* how often it was called
    asked,     \* what was recorded when it was
    db,        \* the database of each twin
    copy       \* what CREATE DATABASE is copying

refresher == <<dump, staging, pipe, awaited, recorded, overlap>>
cloner    == <<twin, tries, round, asked, db, copy>>
vars      == <<prod, template, refresher, cloner>>

NoOne == "none"

(* What a database or the file holds: all, a part, or nothing of a version *)
(* of production.                                                          *)
Missing  == [kind |-> "missing", of |-> 0]
Empty    == [kind |-> "empty", of |-> 0]
Torn(v)  == [kind |-> "torn", of |-> v]
Whole(v) == [kind |-> "whole", of |-> v]
Contents == {Missing, Empty} \cup {Torn(v) : v \in 1..MaxVersion}
                             \cup {Whole(v) : v \in 1..MaxVersion}

NoFile == [by |-> NoOne, holds |-> Missing]
Idle   == [step |-> "idle", read |-> NoFile]

Init ==
    /\ prod = 1 /\ dump = NoFile /\ staging = Missing /\ template = Missing
    /\ pipe = [p \in Pipelines |-> Idle]
    /\ awaited = NoOne /\ recorded = 0 /\ overlap = FALSE
    /\ twin = [t \in Twins |-> "idle"]
    /\ tries = [t \in Twins |-> 0]
    /\ round = [t \in Twins |-> 0]
    /\ asked = [t \in Twins |-> 0]
    /\ db = [t \in Twins |-> Missing]
    /\ copy = [t \in Twins |-> Missing]

ProdWrites ==
    /\ prod < MaxVersion /\ prod' = prod + 1
    /\ UNCHANGED <<template, refresher, cloner>>

(***************************************************************************)
(* The pipeline: commands joined by &&, so that each runs when the one     *)
(* before exited with 0.                                                   *)
(***************************************************************************)
Others(p) == Pipelines \ {p}

(* The psql that restores is the only one that stays connected to staging; *)
(* PostgreSQL neither drops nor renames a database in use.                 *)
StagingInUse == \E p \in Pipelines : pipe[p].step = "restoring"

Goto(p, from, to) == pipe[p].step = from /\ pipe' = [pipe EXCEPT ![p].step = to]

MakeStaging(p) ==
    /\ ~StagingInUse
    /\ Goto(p, "preparing", "opening")
    /\ staging' = Empty
    /\ UNCHANGED <<dump, template>>

(* > truncates the file.  A pg_dump that has it open writes on at its own  *)
(* offset.                                                                 *)
OpenDump(p) ==
    /\ Goto(p, "opening", "dumping")
    /\ dump' = [by |-> p, holds |-> Torn(prod)]
    /\ UNCHANGED <<staging, template>>

PgDump(p) ==
    /\ Goto(p, "dumping", "loading")
    /\ dump' = IF dump.by = p /\ \A q \in Others(p) : pipe[q].step # "dumping"
               THEN [dump EXCEPT !.holds.kind = "whole"] ELSE dump
    /\ UNCHANGED <<staging, template>>

(* pg_dump ... | psql: the restore does not wait for the dump.             *)
OpenStaging_Pipes(p) ==
    /\ pipe[p].step \in {"dumping", "loading"}
    /\ dump # NoFile /\ staging # Missing
    /\ pipe' = [pipe EXCEPT ![p] = [step |-> "restoring", read |-> dump]]
    /\ UNCHANGED <<dump, staging, template>>

OpenStaging(p) ==
    /\ pipe[p].step = "loading"
    /\ dump # NoFile /\ staging # Missing
    /\ pipe' = [pipe EXCEPT ![p] = [step |-> "restoring", read |-> dump]]
    /\ UNCHANGED <<dump, staging, template>>

(* The statements of the dump fail on tables that exist.  When the file    *)
(* was opened anew under the reader, it read parts of both.                *)
Restore(p) ==
    /\ staging = Empty
    /\ Goto(p, "restoring", "checking")
    /\ LET read == pipe[p].read
       IN  staging' = IF read = dump THEN read.holds ELSE Torn(read.holds.of)
    /\ UNCHANGED <<dump, template>>

(* SELECT 1 FROM items LIMIT 1 succeeds when the table is there, with or   *)
(* without rows: a torn restore may have it.                               *)
GuardQuery(p) ==
    /\ staging.kind \in {"torn", "whole"}
    /\ Goto(p, "checking", "dropping")
    /\ UNCHANGED <<dump, staging, template>>

(* DROP DATABASE waits for the CREATE DATABASE that copy the template.     *)
DropTemplate(p) ==
    /\ copy = [t \in Twins |-> Missing]
    /\ Goto(p, "dropping", "renaming")
    /\ template' = Missing
    /\ UNCHANGED <<dump, staging>>

RenameStaging(p) ==
    /\ staging # Missing /\ template = Missing /\ ~StagingInUse
    /\ Goto(p, "renaming", "removing")
    /\ template' = staging /\ staging' = Missing
    /\ UNCHANGED dump

(* The end of the pipeline, of which the refresher is told if it awaits    *)
(* it.  A refresh that failed is logged, and the next cycle comes.         *)
Ends(p, succeeded) ==
    /\ pipe' = [pipe EXCEPT ![p] = Idle]
    /\ recorded' = IF awaited = p /\ succeeded THEN pipe[p].read.holds.of ELSE recorded
    /\ awaited' = IF awaited = p THEN NoOne ELSE awaited
    /\ UNCHANGED <<prod, template, staging, overlap, cloner>>

RemoveDump(p) ==
    /\ pipe[p].step = "removing"
    /\ dump' = NoFile
    /\ Ends(p, TRUE)

(* A command fails for a reason above, or for one of its own.  (psql       *)
(* without ON_ERROR_STOP exits with 0.)                                    *)
CommandFails_Unseen(p) ==
    /\ pipe[p].step # "idle"
    /\ Ends(p, TRUE)
    /\ UNCHANGED dump

CommandFails(p) ==
    /\ pipe[p].step # "idle"
    /\ Ends(p, FALSE)
    /\ UNCHANGED dump

Command(p) ==
    \/ MakeStaging(p) \/ OpenDump(p) \/ PgDump(p) \/ OpenStaging(p)
    \/ Restore(p) \/ GuardQuery(p) \/ DropTemplate(p) \/ RenameStaging(p)

PipelineStep(p) ==
    \/ Command(p) /\ UNCHANGED <<prod, awaited, recorded, overlap, cloner>>
    \/ RemoveDump(p) \/ CommandFails(p)

(***************************************************************************)
(* The refresher.                                                          *)
(***************************************************************************)
StartRefresh ==
    /\ awaited = NoOne
    /\ \E p \in Pipelines :
        /\ Goto(p, "idle", "preparing")
        /\ awaited' = p
        /\ overlap' = (overlap \/ \E q \in Others(p) : pipe[q] # Idle)
    /\ UNCHANGED <<prod, template, dump, staging, recorded, cloner>>

(* The timeout of run_pipeline kills the local kubectl, stop() cancels the *)
(* call: the loop goes on, or is started again.                            *)
Abandon ==
    /\ awaited # NoOne /\ awaited' = NoOne
    /\ UNCHANGED <<prod, template, dump, staging, pipe, recorded, overlap, cloner>>

(***************************************************************************)
(* The cloner.                                                             *)
(***************************************************************************)
Twin(t, from, to) == twin[t] \in from /\ twin' = [twin EXCEPT ![t] = to]

TemplateExists(t) ==
    /\ round[t] < Rounds /\ round' = [round EXCEPT ![t] = @ + 1]
    /\ tries' = [tries EXCEPT ![t] = 1]
    /\ asked' = [asked EXCEPT ![t] = recorded]
    /\ Twin(t, {"idle"}, IF template = Missing THEN "failed" ELSE "creating")
    /\ UNCHANGED <<prod, template, refresher, db, copy>>

(* A copy of the same name that an earlier call left under way is waited   *)
(* for.  A database of that name is stamped anew and taken for the clone.  *)
(* A template that a swap has dropped is an error that is not retried.     *)
CreateDatabase(t) ==
    /\ copy[t] = Missing
    /\ IF db[t] # Missing
       THEN Twin(t, {"creating"}, "created") /\ UNCHANGED copy
       ELSE IF template = Missing
            THEN Twin(t, {"creating"}, "failed") /\ UNCHANGED copy
            ELSE /\ Twin(t, {"creating"}, "copying")
                 /\ copy' = [copy EXCEPT ![t] = template]
    /\ UNCHANGED <<prod, template, refresher, tries, round, asked, db>>

InUse(t) ==
    /\ copy[t] = Missing /\ db[t] = Missing /\ template # Missing
    /\ IF tries[t] < MaxRetries
       THEN Twin(t, {"creating"}, "creating") /\ tries' = [tries EXCEPT ![t] = @ + 1]
       ELSE Twin(t, {"creating"}, "failed") /\ UNCHANGED tries
    /\ UNCHANGED <<prod, template, refresher, round, asked, db, copy>>

(* When the COMMENT fails, or nobody waits any more, the database stays.   *)
CopyEnds(t, made, to) ==
    /\ copy[t] # Missing /\ copy' = [copy EXCEPT ![t] = Missing]
    /\ db' = IF made THEN [db EXCEPT ![t] = copy[t]] ELSE db
    /\ twin' = IF twin[t] = "copying" THEN [twin EXCEPT ![t] = to] ELSE twin
    /\ UNCHANGED <<prod, template, refresher, tries, round, asked>>

Copied(t) ==
    \/ CopyEnds(t, TRUE, "created")
    \/ \E made \in BOOLEAN : CopyEnds(t, made, "failed")

(* The timeout of run_sql, or of the fork.  The call goes on in the pod.   *)
GiveUp(t) ==
    /\ Twin(t, {"creating", "copying"}, "failed")
    /\ UNCHANGED <<prod, template, refresher, tries, round, asked, db, copy>>

(* Teardown, or the rollback of a fork that failed; it may fail as well.   *)
DropTwinDatabase(t) ==
    /\ Twin(t, {"created", "failed"}, "idle")
    /\ \/ db' = [db EXCEPT ![t] = Missing]
       \/ UNCHANGED db
    /\ tries' = [tries EXCEPT ![t] = 0] /\ asked' = [asked EXCEPT ![t] = 0]
    /\ UNCHANGED <<prod, template, refresher, round, copy>>

CloneStep(t) == CreateDatabase(t) \/ InUse(t) \/ Copied(t)

Next ==
    \/ ProdWrites \/ StartRefresh \/ Abandon
    \/ \E p \in Pipelines : PipelineStep(p)
    \/ \E t \in Twins : \/ TemplateExists(t) \/ CloneStep(t) \/ GiveUp(t) \/ DropTwinDatabase(t)

Spec == Init /\ [][Next]_vars

-----------------------------------------------------------------------------
(* Every variable has its type; the copies are of what the template may    *)
(* hold.                                                                   *)
TypeOK ==
    /\ prod \in 1..MaxVersion /\ recorded \in 0..MaxVersion
    /\ overlap \in BOOLEAN /\ awaited \in Pipelines \cup {NoOne}
    /\ staging \in Contents /\ template \in Contents
    /\ dump \in [by : Pipelines \cup {NoOne}, holds : Contents]
    /\ \A p \in Pipelines : pipe[p].read.holds \in Contents
    /\ tries \in [Twins -> 0..MaxRetries] /\ round \in [Twins -> 0..Rounds]
    /\ asked \in [Twins -> 0..MaxVersion]
    /\ db \in [Twins -> Contents] /\ copy \in [Twins -> Contents]
    /\ twin \in [Twins -> {"idle", "creating", "copying", "created", "failed"}]

(* A clone is a whole snapshot of production, unless a pipeline was        *)
(* started beside one that its refresher had given up: the restore into    *)
(* another name and the rename keep twins from seeing half of one.         *)
WholeUnlessOverlap ==
    TypeOK /\ (overlap \/ \A t \in Twins : db[t].kind \in {"missing", "whole"})

(* A clone is no older than the snapshot that was recorded when its fork   *)
(* asked for it, however the refresher swaps the template meanwhile; but   *)
(* a database that an earlier fork left under the name is taken as it is.  *)
FreshAsRecorded ==
    \A t \in Twins : twin[t] = "created" /\ round[t] = 1 /\ db[t].kind = "whole" => db[t].of >= asked[t]

=============================================================================
