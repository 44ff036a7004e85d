------------------------------- MODULE TwinProofs -------------------------------
(***************************************************************************)
(* What a twin is made of: the clone of the database (SnapshotClone), for  *)
(* any number of twins, pipelines, attempts and versions; and the fork of  *)
(* the workload (TwinFork), for any deadline.                              *)
(***************************************************************************)
EXTENDS SnapshotClone, TwinFork, TLAPS

(***************************************************************************)
(* The types of SnapshotClone and the soundness of the clones.             *)
(***************************************************************************)
Steps == {"idle", "preparing", "opening", "dumping", "loading", "restoring",
          "checking", "dropping", "renaming", "removing"}

\* What a dump file holds once it is open.
Snapshots == [kind : {"torn", "whole"}, of : 1..MaxVersion]

Files == [by : Pipelines \cup {NoOne}, holds : Contents]

Pipes == [step : Steps, read : Files]

\* Missing or empty, or all or a part of a version.
LEMMA ContentsAre == Contents = {Missing, Empty} \cup Snapshots
<1>1. ASSUME NEW v \in 1..MaxVersion
      PROVE  Torn(v) \in Snapshots /\ Whole(v) \in Snapshots
  BY DEF Torn, Whole, Snapshots
<1>2. ASSUME NEW c \in Snapshots
      PROVE  \E v \in 1..MaxVersion : c = Torn(v) \/ c = Whole(v)
  <2>1. c.of \in 1..MaxVersion /\ (c = Torn(c.of) \/ c = Whole(c.of))
    BY DEF Snapshots, Torn, Whole
  <2> QED
    BY <2>1
<1> QED
  BY <1>1, <1>2 DEF Contents

\* A version is a number, and 0 is none.
LEMMA VersionOf == \A c \in Contents : c.of \in 0..MaxVersion
  BY ContentsAre, SnapshotAssumption DEF Snapshots, Missing, Empty, SnapshotAssumption
-------------------------------------------------------------------------------
RefreshTypes ==
  /\ prod \in 1..MaxVersion /\ recorded \in 0..MaxVersion
  /\ overlap \in BOOLEAN /\ awaited \in Pipelines \cup {NoOne}
  /\ staging \in Contents /\ template \in Contents
  /\ dump \in Files /\ (dump = NoFile \/ dump.holds \in Snapshots)
  /\ pipe \in [Pipelines -> Pipes]
  /\ \A p \in Pipelines :
       /\ pipe[p].step = "idle" => pipe[p] = Idle
       /\ pipe[p].step = "restoring" => pipe[p].read.holds \in Snapshots

CloneTypes ==
  /\ tries \in [Twins -> 0..MaxRetries] /\ round \in [Twins -> 0..Rounds]
  /\ asked \in [Twins -> 0..MaxVersion]
  /\ db \in [Twins -> Contents] /\ copy \in [Twins -> Contents]
  /\ twin \in [Twins -> {"idle", "creating", "copying", "created", "failed"}]

\* All of a version, or nothing at all.
Unbroken(c) == c.kind \in {"missing", "whole"}

\* As long as no pipeline was started beside another there is one at most: the
\* file it opened is its own, and what it restored is what it dumped.
AloneInv ==
  /\ \A p, q \in Pipelines : pipe[p].step # "idle" /\ pipe[q].step # "idle" => p = q
  /\ \A p \in Pipelines :
       /\ pipe[p].step = "dumping" => dump.by = p
       /\ pipe[p].step = "loading" => Unbroken(dump.holds)
       /\ pipe[p].step = "restoring" => pipe[p].read = dump /\ Unbroken(dump.holds)
       /\ pipe[p].step \in {"checking", "dropping", "renaming"} => Unbroken(staging)

CopiesInv ==
  Unbroken(template) /\ \A t \in Twins : Unbroken(copy[t]) /\ Unbroken(db[t])

CloneInv ==
  /\ RefreshTypes /\ CloneTypes
  /\ overlap = FALSE => AloneInv /\ CopiesInv

\* Nothing has been dumped, restored or copied at first.
LEMMA CloneInvInit == Init => CloneInv
<1> SUFFICES ASSUME Init PROVE CloneInv
  OBVIOUS
<1>1. Missing \in Contents /\ NoFile \in Files /\ Idle \in Pipes /\ Idle.step = "idle"
  BY DEF Contents, NoFile, Files, Idle, Pipes, Steps
<1>2. Unbroken(Missing)
  BY DEF Unbroken, Missing
<1>3. RefreshTypes
  <2>1. 1 \in 1..MaxVersion /\ 0 \in 0..MaxVersion
    BY SnapshotAssumption DEF SnapshotAssumption
  <2>2. pipe \in [Pipelines -> Pipes] /\ \A p \in Pipelines : pipe[p] = Idle
    BY <1>1 DEF Init
  <2> QED
    BY <1>1, <2>1, <2>2 DEF Init, RefreshTypes
<1>4. CloneTypes
  BY <1>1, SnapshotAssumption DEF Init, CloneTypes, SnapshotAssumption
<1>5. AloneInv
  BY <1>1 DEF Init, AloneInv
<1>6. CopiesInv
  BY <1>2 DEF Init, CopiesInv
<1> QED
  BY <1>3, <1>4, <1>5, <1>6 DEF CloneInv

\* A command moves its own pipeline on and no other.
LEMMA GotoMoves ==
    ASSUME RefreshTypes, NEW p \in Pipelines, NEW from, NEW to \in Steps \ {"idle", "restoring"},
           Goto(p, from, to)
    PROVE  /\ pipe[p].step = from
           /\ pipe' \in [Pipelines -> Pipes]
           /\ pipe'[p].step = to /\ pipe'[p].read = pipe[p].read
           /\ \A q \in Pipelines : q # p => pipe'[q] = pipe[q]
           /\ \A q \in Pipelines :
                /\ pipe'[q].step = "idle" => pipe'[q] = Idle
                /\ pipe'[q].step = "restoring" => pipe'[q].read.holds \in Snapshots
<1>1. pipe \in [Pipelines -> Pipes] /\ pipe[p] \in Pipes
  BY DEF RefreshTypes
<1>2. pipe[p].step = from /\ pipe' = [pipe EXCEPT ![p].step = to]
  BY DEF Goto
<1>3. [pipe[p] EXCEPT !.step = to] \in Pipes
  BY <1>1 DEF Pipes
<1>4. pipe'[p] = [pipe[p] EXCEPT !.step = to] /\ \A q \in Pipelines : q # p => pipe'[q] = pipe[q]
  BY <1>1, <1>2
<1>5. pipe'[p].step = to /\ pipe'[p].read = pipe[p].read
  BY <1>1, <1>4 DEF Pipes
<1>6. pipe' \in [Pipelines -> Pipes]
  BY <1>1, <1>2, <1>3
<1> QED
  BY <1>2, <1>4, <1>5, <1>6 DEF RefreshTypes

\* The commands of a pipeline keep the types and, alone, restore what was
\* dumped and rename what was restored.
LEMMA CommandKeepsIt ==
    ASSUME RefreshTypes, NEW p \in Pipelines, Command(p),
           UNCHANGED <<prod, awaited, recorded, overlap, cloner>>
    PROVE  /\ RefreshTypes'
           /\ AloneInv /\ CopiesInv => AloneInv' /\ CopiesInv'
<1>1. /\ prod' = prod /\ awaited' = awaited /\ recorded' = recorded /\ overlap' = overlap
      /\ copy' = copy /\ db' = db
  BY DEF cloner
<1> USE ContentsAre
<1>2. CASE MakeStaging(p)
  <2>1. Goto(p, "preparing", "opening") /\ staging' = Empty /\ dump' = dump /\ template' = template
    BY <1>2 DEF MakeStaging
  <2>2. RefreshTypes'
    BY <1>1, <2>1, GotoMoves DEF RefreshTypes, Steps
  <2>3. AloneInv /\ CopiesInv => AloneInv' /\ CopiesInv'
    BY <1>1, <2>1, GotoMoves DEF AloneInv, CopiesInv, Unbroken, Steps
  <2> QED
    BY <2>2, <2>3
<1>3. CASE OpenDump(p)
  <2>1. /\ Goto(p, "opening", "dumping") /\ staging' = staging /\ template' = template
        /\ dump' = [by |-> p, holds |-> Torn(prod)]
    BY <1>3 DEF OpenDump
  <2>2. dump' \in Files /\ dump'.holds \in Snapshots /\ dump'.by = p
    BY <2>1 DEF RefreshTypes, Torn, Snapshots, Files
  <2>3. RefreshTypes'
    BY <1>1, <2>1, <2>2, GotoMoves DEF RefreshTypes, Steps
  <2>4. AloneInv /\ CopiesInv => AloneInv' /\ CopiesInv'
    BY <1>1, <2>1, <2>2, GotoMoves DEF AloneInv, CopiesInv, Unbroken, Steps
  <2> QED
    BY <2>3, <2>4
<1>4. CASE PgDump(p)
  <2>1. /\ Goto(p, "dumping", "loading") /\ staging' = staging /\ template' = template
        /\ dump' = IF dump.by = p /\ \A q \in Others(p) : pipe[q].step # "dumping"
                   THEN [dump EXCEPT !.holds.kind = "whole"] ELSE dump
    BY <1>4 DEF PgDump
  <2>2. ASSUME dump' # dump
        PROVE  dump' \in Files /\ (dump' = NoFile \/ dump'.holds \in Snapshots)
    <3>1. dump.by = p /\ dump' = [dump EXCEPT !.holds.kind = "whole"]
      BY <2>1, <2>2
    <3>2. dump.holds \in Snapshots /\ dump \in Files
      BY <3>1, SnapshotAssumption DEF RefreshTypes, NoFile, NoOne, SnapshotAssumption
    <3>3. [dump.holds EXCEPT !.kind = "whole"] \in Snapshots
      BY <3>2 DEF Snapshots
    <3>4. dump' \in Files /\ dump'.holds = [dump.holds EXCEPT !.kind = "whole"]
      BY <3>1, <3>2, <3>3 DEF Files
    <3> QED
      BY <3>3, <3>4
  <2>3. RefreshTypes'
    BY <1>1, <2>1, <2>2, GotoMoves DEF RefreshTypes, Steps
  <2>4. ASSUME AloneInv PROVE Unbroken(dump'.holds)
    BY <2>1, <2>4 DEF AloneInv, Others, Unbroken, RefreshTypes, Files, Snapshots, Goto
  <2>5. AloneInv /\ CopiesInv => AloneInv' /\ CopiesInv'
    BY <1>1, <2>1, <2>4, GotoMoves DEF AloneInv, CopiesInv, Unbroken, Steps
  <2> QED
    BY <2>3, <2>5
<1>5. CASE OpenStaging(p)
  <2>1. /\ pipe[p].step = "loading" /\ dump # NoFile
        /\ pipe' = [pipe EXCEPT ![p] = [step |-> "restoring", read |-> dump]]
        /\ dump' = dump /\ staging' = staging /\ template' = template
    BY <1>5 DEF OpenStaging
  <2>2. dump \in Files /\ dump.holds \in Snapshots /\ pipe \in [Pipelines -> Pipes]
    BY <2>1 DEF RefreshTypes
  <2>3. [step |-> "restoring", read |-> dump] \in Pipes
    BY <2>2 DEF Pipes, Steps
  <2>4. /\ pipe' \in [Pipelines -> Pipes]
        /\ pipe'[p].step = "restoring" /\ pipe'[p].read = dump
        /\ \A q \in Pipelines : q # p => pipe'[q] = pipe[q]
    BY <2>1, <2>2, <2>3
  <2>5. RefreshTypes'
    BY <1>1, <2>1, <2>2, <2>4 DEF RefreshTypes
  <2>6. AloneInv /\ CopiesInv => AloneInv' /\ CopiesInv'
    BY <1>1, <2>1, <2>4 DEF AloneInv, CopiesInv, Unbroken
  <2> QED
    BY <2>5, <2>6
<1>6. CASE Restore(p)
  <2>1. /\ Goto(p, "restoring", "checking") /\ dump' = dump /\ template' = template
        /\ staging' = IF pipe[p].read = dump THEN pipe[p].read.holds
                      ELSE Torn(pipe[p].read.holds.of)
    BY <1>6 DEF Restore
  <2>2. pipe[p].step = "restoring" /\ pipe[p].read.holds \in Snapshots
    BY <2>1, GotoMoves DEF RefreshTypes, Steps
  <2>3. staging' \in Contents
    BY <2>1, <2>2 DEF Snapshots, Torn
  <2>4. RefreshTypes'
    BY <1>1, <2>1, <2>3, GotoMoves DEF RefreshTypes, Steps
  <2>5. ASSUME AloneInv PROVE Unbroken(staging')
    BY <2>1, <2>2, <2>5 DEF AloneInv
  <2>6. AloneInv /\ CopiesInv => AloneInv' /\ CopiesInv'
    BY <1>1, <2>1, <2>5, GotoMoves DEF AloneInv, CopiesInv, Unbroken, Steps
  <2> QED
    BY <2>4, <2>6
<1>7. CASE GuardQuery(p)
  <2>1. /\ Goto(p, "checking", "dropping")
        /\ dump' = dump /\ staging' = staging /\ template' = template
    BY <1>7 DEF GuardQuery
  <2>2. RefreshTypes'
    BY <1>1, <2>1, GotoMoves DEF RefreshTypes, Steps
  <2>3. AloneInv /\ CopiesInv => AloneInv' /\ CopiesInv'
    BY <1>1, <2>1, GotoMoves DEF AloneInv, CopiesInv, Unbroken, Steps
  <2> QED
    BY <2>2, <2>3
<1>8. CASE DropTemplate(p)
  <2>1. /\ Goto(p, "dropping", "renaming") /\ template' = Missing
        /\ dump' = dump /\ staging' = staging
    BY <1>8 DEF DropTemplate
  <2>2. RefreshTypes'
    BY <1>1, <2>1, GotoMoves DEF RefreshTypes, Steps
  <2>3. AloneInv /\ CopiesInv => AloneInv' /\ CopiesInv'
    BY <1>1, <2>1, GotoMoves DEF AloneInv, CopiesInv, Unbroken, Steps, Missing
  <2> QED
    BY <2>2, <2>3
<1>9. CASE RenameStaging(p)
  <2>1. /\ Goto(p, "renaming", "removing") /\ template' = staging /\ staging' = Missing
        /\ dump' = dump
    BY <1>9 DEF RenameStaging
  <2>2. RefreshTypes'
    BY <1>1, <2>1, GotoMoves DEF RefreshTypes, Steps
  <2>3. AloneInv /\ CopiesInv => AloneInv' /\ CopiesInv'
    BY <1>1, <2>1, GotoMoves DEF AloneInv, CopiesInv, Unbroken, Steps
  <2> QED
    BY <2>2, <2>3
<1> QED
  BY <1>2, <1>3, <1>4, <1>5, <1>6, <1>7, <1>8, <1>9 DEF Command

\* The end of a pipeline, good or bad, leaves nothing of it but the databases.
LEMMA EndKeepsIt ==
    ASSUME CloneInv, NEW p \in Pipelines, RemoveDump(p) \/ CommandFails(p)
    PROVE  CloneInv'
<1>1. PICK b \in BOOLEAN : Ends(p, b) /\ (dump' = NoFile \/ dump' = dump)
                           /\ (dump' # dump => pipe[p].step = "removing")
  BY DEF RemoveDump, CommandFails
<1>2. /\ pipe' = [pipe EXCEPT ![p] = Idle]
      /\ recorded' \in {recorded, pipe[p].read.holds.of} /\ awaited' \in {awaited, NoOne}
      /\ prod' = prod /\ template' = template /\ staging' = staging /\ overlap' = overlap
      /\ UNCHANGED cloner
  BY <1>1 DEF Ends
<1>3. Idle \in Pipes /\ Idle.step = "idle" /\ NoFile \in Files
  BY ContentsAre DEF Idle, Pipes, Steps, NoFile, Files
<1>4. pipe \in [Pipelines -> Pipes] /\ pipe[p].read.holds.of \in 0..MaxVersion
  BY VersionOf DEF CloneInv, RefreshTypes, Pipes, Files
<1>5. pipe' \in [Pipelines -> Pipes] /\ pipe'[p] = Idle
      /\ \A q \in Pipelines : q # p => pipe'[q] = pipe[q]
  BY <1>2, <1>3, <1>4
<1>6. RefreshTypes'
  BY <1>1, <1>2, <1>3, <1>4, <1>5 DEF CloneInv, RefreshTypes
<1>7. CloneTypes'
  BY <1>2 DEF CloneInv, CloneTypes, cloner
<1>8. ASSUME overlap = FALSE, pipe[p].step # "idle"
      PROVE  AloneInv' /\ CopiesInv'
  <2>1. \A q \in Pipelines : pipe'[q].step = "idle"
    BY <1>3, <1>5, <1>8 DEF CloneInv, AloneInv
  <2> QED
    BY <1>2, <1>8, <2>1 DEF CloneInv, AloneInv, CopiesInv, Unbroken, cloner
<1>9. pipe[p].step # "idle"
  BY DEF RemoveDump, CommandFails
<1> QED
  BY <1>2, <1>6, <1>7, <1>8, <1>9 DEF CloneInv

\* A pipeline that starts beside another is noted.
LEMMA StartKeepsIt ==
    ASSUME CloneInv, StartRefresh
    PROVE  CloneInv'
<1>1. PICK p \in Pipelines :
        /\ Goto(p, "idle", "preparing") /\ awaited' = p
        /\ overlap' = (overlap \/ \E q \in Others(p) : pipe[q] # Idle)
  BY DEF StartRefresh
<1>2. UNCHANGED <<prod, template, dump, staging, recorded, cloner>>
  BY DEF StartRefresh
<1>3. overlap' \in BOOLEAN
  BY <1>1
<1>4. RefreshTypes /\ CloneTypes
  BY DEF CloneInv
<1>5. RefreshTypes'
  BY <1>1, <1>2, <1>3, <1>4, GotoMoves DEF RefreshTypes, Steps
<1>6. CloneTypes'
  BY <1>2, <1>4 DEF CloneTypes, cloner
<1>7. ASSUME overlap' = FALSE PROVE AloneInv' /\ CopiesInv'
  <2>1. overlap = FALSE /\ \A q \in Pipelines : q # p => pipe[q] = Idle
    BY <1>1, <1>4, <1>7 DEF Others, RefreshTypes
  <2>2. /\ \A q \in Pipelines : q # p => pipe'[q].step = "idle"
        /\ pipe'[p].step = "preparing"
    BY <1>1, <1>4, <2>1, GotoMoves DEF Steps, Idle
  <2> QED
    BY <1>2, <2>1, <2>2 DEF CloneInv, AloneInv, CopiesInv, Unbroken, cloner
<1> QED
  BY <1>5, <1>6, <1>7 DEF CloneInv

\* A twin copies the template as it stands, and its own database only then.
LEMMA CloneKeepsIt ==
    ASSUME CloneInv, NEW t \in Twins,
           TemplateExists(t) \/ CloneStep(t) \/ GiveUp(t) \/ DropTwinDatabase(t)
    PROVE  CloneInv'
<1>1. UNCHANGED <<prod, template, refresher>>
  BY DEF TemplateExists, CloneStep, CreateDatabase, InUse, Copied, CopyEnds, GiveUp, DropTwinDatabase
<1>2. RefreshTypes'
  BY <1>1 DEF CloneInv, RefreshTypes, refresher
<1>3. AloneInv => AloneInv'
  BY <1>1 DEF AloneInv, refresher, Unbroken
<1>4. overlap' = overlap /\ template' = template
  BY <1>1 DEF refresher
<1>5. /\ copy' = copy \/ \E c \in {template, Missing} : copy' = [copy EXCEPT ![t] = c]
      /\ db' = db \/ \E c \in {copy[t], Missing} : db' = [db EXCEPT ![t] = c]
  BY DEF TemplateExists, CloneStep, CreateDatabase, InUse, Copied, CopyEnds, GiveUp, DropTwinDatabase
<1>6. /\ template \in Contents /\ Missing \in Contents
      /\ db \in [Twins -> Contents] /\ copy \in [Twins -> Contents] /\ copy[t] \in Contents
  BY ContentsAre DEF CloneInv, RefreshTypes, CloneTypes
<1>7. copy' \in [Twins -> Contents] /\ db' \in [Twins -> Contents]
  BY <1>5, <1>6
<1>8. CopiesInv => CopiesInv'
  BY <1>4, <1>5, <1>6 DEF CopiesInv, Unbroken, Missing
<1>9. /\ tries' \in [Twins -> 0..MaxRetries] /\ round' \in [Twins -> 0..Rounds]
      /\ asked' \in [Twins -> 0..MaxVersion]
  <2>1. /\ tries \in [Twins -> 0..MaxRetries] /\ round \in [Twins -> 0..Rounds]
        /\ asked \in [Twins -> 0..MaxVersion] /\ recorded \in 0..MaxVersion
    BY DEF CloneInv, CloneTypes, RefreshTypes
  <2>2. CASE TemplateExists(t)
    <3>1. round[t] + 1 \in 0..Rounds /\ 1 \in 0..MaxRetries
      BY <2>1, <2>2, SnapshotAssumption DEF TemplateExists, SnapshotAssumption
    <3> QED
      BY <2>1, <2>2, <3>1 DEF TemplateExists
  <2>3. CASE InUse(t)
    <3>1. tries[t] < MaxRetries => tries[t] + 1 \in 0..MaxRetries
      BY <2>1, SnapshotAssumption DEF SnapshotAssumption
    <3> QED
      BY <2>1, <2>3, <3>1 DEF InUse
  <2>4. CASE DropTwinDatabase(t)
    BY <2>1, <2>4, SnapshotAssumption DEF DropTwinDatabase, SnapshotAssumption
  <2>5. CASE CreateDatabase(t) \/ Copied(t) \/ GiveUp(t)
    BY <2>1, <2>5 DEF CreateDatabase, Copied, CopyEnds, GiveUp
  <2> QED
    BY <2>2, <2>3, <2>4, <2>5 DEF CloneStep
<1>10. twin' \in [Twins -> {"idle", "creating", "copying", "created", "failed"}]
  <2>1. \/ twin' = twin
        \/ \E v \in {"idle", "creating", "copying", "created", "failed"} :
             twin' = [twin EXCEPT ![t] = v]
    BY DEF TemplateExists, CloneStep, CreateDatabase, InUse, Copied, CopyEnds, GiveUp,
       DropTwinDatabase, Twin
  <2> QED
    BY <2>1 DEF CloneInv, CloneTypes
<1> QED
  BY <1>2, <1>3, <1>4, <1>7, <1>8, <1>9, <1>10 DEF CloneInv, CloneTypes

\* Every step keeps the types and, without an overlap, the copies unbroken.
LEMMA CloneInvNext ==
    ASSUME CloneInv, [Next]_vars
    PROVE  CloneInv'
<1>1. CASE UNCHANGED vars
  BY <1>1 DEF vars, refresher, cloner, CloneInv, RefreshTypes, CloneTypes, AloneInv, CopiesInv, Unbroken
<1>2. CASE ProdWrites
  <2>1. prod' \in 1..MaxVersion /\ UNCHANGED <<template, refresher, cloner>>
    BY <1>2, SnapshotAssumption DEF ProdWrites, CloneInv, RefreshTypes, SnapshotAssumption
  <2> QED
    BY <2>1 DEF refresher, cloner, CloneInv, RefreshTypes, CloneTypes, AloneInv, CopiesInv, Unbroken
<1>3. CASE Abandon
  <2>1. awaited' = NoOne
        /\ UNCHANGED <<prod, template, dump, staging, pipe, recorded, overlap, cloner>>
    BY <1>3 DEF Abandon
  <2> QED
    BY <2>1 DEF cloner, CloneInv, RefreshTypes, CloneTypes, AloneInv, CopiesInv, Unbroken
<1>4. ASSUME NEW p \in Pipelines, PipelineStep(p)
      PROVE  CloneInv'
  <2>1. CASE Command(p) /\ UNCHANGED <<prod, awaited, recorded, overlap, cloner>>
    <3>1. RefreshTypes' /\ (AloneInv /\ CopiesInv => AloneInv' /\ CopiesInv')
      BY <2>1, CommandKeepsIt DEF CloneInv
    <3>2. CloneTypes' /\ overlap' = overlap
      BY <2>1 DEF CloneInv, CloneTypes, cloner
    <3> QED
      BY <3>1, <3>2 DEF CloneInv
  <2> QED
    BY <1>4, <2>1, EndKeepsIt DEF PipelineStep
<1> QED
  BY <1>1, <1>2, <1>3, <1>4, StartKeepsIt, CloneKeepsIt DEF Next
-------------------------------------------------------------------------------
(* A clone is a whole snapshot of production as long as no pipeline was    *)
(* started beside one that its refresher had given up (SnapshotRefresher,  *)
(* TwinDatabaseCloner), with any number of twins, pipelines and attempts.  *)
THEOREM ClonesAreWhole == Spec => []WholeUnlessOverlap
<1>1. Init => CloneInv
  BY CloneInvInit
<1>2. CloneInv /\ [Next]_vars => CloneInv'
  BY CloneInvNext
<1>3. CloneInv => WholeUnlessOverlap
  <2> SUFFICES ASSUME CloneInv PROVE WholeUnlessOverlap
    OBVIOUS
  <2>1. TypeOK
    BY DEF CloneInv, RefreshTypes, CloneTypes, TypeOK, Files, Pipes
  <2>2. overlap \/ \A t \in Twins : db[t].kind \in {"missing", "whole"}
    BY DEF CloneInv, RefreshTypes, CopiesInv, Unbroken
  <2> QED
    BY <2>1, <2>2 DEF WholeUnlessOverlap
<1> QED
  BY <1>1, <1>2, <1>3, PTL DEF Spec
-------------------------------------------------------------------------------
ReadingSteps == {"restoring", "checking", "dropping", "renaming", "removing"}

Restored == ReadingSteps \ {"restoring"}

\* Nothing that was read, restored or recorded is of a later version.
Newest(v) ==
  /\ recorded <= v /\ staging.of <= v /\ template.of <= v
  /\ \A p \in Pipelines : pipe[p].read.holds.of <= v

\* A dump file is of a version that production had when it was opened, after
\* everything that is read from it by now.
NewestInv ==
  /\ Newest(prod) /\ dump.holds.of <= prod
  /\ dump # NoFile => Newest(dump.holds.of)

\* A whole restore is of the newest dump there was: no pipeline that has
\* restored and may yet be recorded has read a later one.
RestoredInv ==
  /\ staging.kind = "whole" =>
        /\ recorded <= staging.of
        /\ \A p \in Pipelines : pipe[p].step \in Restored => pipe[p].read.holds.of <= staging.of
  /\ template.kind = "whole" =>
        /\ recorded <= template.of
        /\ \A p \in Pipelines : pipe[p].step = "removing" => pipe[p].read.holds.of <= template.of

\* The pipeline that is awaited reads what was dumped after the last record.
RecordInv ==
  \A p \in Pipelines :
    awaited = p /\ pipe[p].step \in ReadingSteps => recorded <= pipe[p].read.holds.of

\* What the first clone of a twin copies, or has copied, is no older than what
\* was recorded when it was called, however the call ended.
AskedInv ==
  \A t \in Twins :
    /\ asked[t] <= recorded
    /\ round[t] = 0 => twin[t] = "idle" /\ copy[t] = Missing /\ db[t] = Missing
    /\ round[t] <= 1 => /\ copy[t].kind = "whole" => asked[t] <= copy[t].of
                        /\ db[t].kind = "whole" => asked[t] <= db[t].of

FreshInv == CloneInv /\ NewestInv /\ RestoredInv /\ RecordInv /\ AskedInv

\* The versions that are compared are numbers.
LEMMA VersionsAreNumbers ==
    ASSUME CloneInv
    PROVE  /\ prod \in Nat /\ recorded \in Nat /\ staging.of \in Nat /\ template.of \in Nat
           /\ dump.holds.of \in Nat
           /\ \A p \in Pipelines : pipe[p].read.holds.of \in Nat
           /\ \A t \in Twins : asked[t] \in Nat /\ copy[t].of \in Nat /\ db[t].of \in Nat
<1>1. \A c \in Contents : c.of \in Nat
  BY VersionOf, SnapshotAssumption DEF SnapshotAssumption
<1>2. /\ staging \in Contents /\ template \in Contents /\ dump.holds \in Contents
      /\ \A p \in Pipelines : pipe[p].read.holds \in Contents
      /\ \A t \in Twins : copy[t] \in Contents /\ db[t] \in Contents
  BY DEF CloneInv, RefreshTypes, CloneTypes, Files, Pipes
<1>3. prod \in Nat /\ recorded \in Nat /\ \A t \in Twins : asked[t] \in Nat
  BY SnapshotAssumption DEF CloneInv, RefreshTypes, CloneTypes, SnapshotAssumption
<1> QED BY <1>1, <1>2, <1>3

\* Before anything was dumped everything is of version 0.
LEMMA FreshInvInit == Init => FreshInv
<1> SUFFICES ASSUME Init PROVE FreshInv
  OBVIOUS
<1> USE DEF Init
<1>1. CloneInv
  BY CloneInvInit
<1>2. /\ Missing.of = 0 /\ Missing.kind = "missing" /\ NoFile.holds = Missing
      /\ Idle.step = "idle" /\ Idle.read = NoFile
  BY DEF Missing, NoFile, Idle
<1>3. NewestInv
  BY <1>2 DEF NewestInv, Newest
<1>4. RestoredInv /\ RecordInv
  BY <1>2 DEF RestoredInv, RecordInv, ReadingSteps
<1>5. AskedInv
  <2>1. ASSUME NEW t \in Twins
        PROVE  /\ twin[t] = "idle" /\ asked[t] = 0 /\ recorded = 0
               /\ copy[t] = Missing /\ db[t] = Missing
    OBVIOUS
  <2>2. Missing.kind # "whole" /\ 0 <= 0
    BY <1>2
  <2> HIDE DEF Init
  <2> QED BY <2>1, <2>2 DEF AskedInv
<1> QED BY <1>1, <1>3, <1>4, <1>5 DEF FreshInv

\* A command of a pipeline dumps what production is now, restores what was
\* dumped, and renames what was restored: versions only become later.
LEMMA CommandKeepsOrder ==
    ASSUME FreshInv, NEW p \in Pipelines, Command(p),
           UNCHANGED <<prod, awaited, recorded, overlap, cloner>>
    PROVE  NewestInv' /\ RestoredInv' /\ RecordInv'
<1> USE DEF FreshInv
<1>1. prod' = prod /\ awaited' = awaited /\ recorded' = recorded
  OBVIOUS
<1>2. RefreshTypes
  BY DEF CloneInv
<1>3. /\ prod \in Nat /\ recorded \in Nat /\ staging.of \in Nat /\ template.of \in Nat
      /\ dump.holds.of \in Nat
      /\ \A q \in Pipelines : pipe[q].read.holds.of \in Nat
  BY VersionsAreNumbers
<1>4. /\ Missing.of = 0 /\ Empty.of = 0 /\ Missing.kind = "missing" /\ Empty.kind = "empty"
      /\ \A v : Torn(v).of = v /\ Torn(v).kind = "torn"
  BY DEF Missing, Empty, Torn
<1> USE DEF ReadingSteps, Restored
<1>5. CASE MakeStaging(p)
  <2>1. /\ Goto(p, "preparing", "opening") /\ staging' = Empty /\ dump' = dump
        /\ template' = template
    BY <1>5 DEF MakeStaging
  <2>2. /\ \A q \in Pipelines : pipe'[q].read = pipe[q].read
        /\ \A q \in Pipelines \ {p} : pipe'[q].step = pipe[q].step
        /\ pipe'[p].step = "opening"
    BY <1>2, <2>1, GotoMoves DEF Steps
  <2>3. NewestInv'
    BY <1>1, <1>3, <1>4, <2>1, <2>2 DEF NewestInv, Newest
  <2>4. RestoredInv' /\ RecordInv'
    BY <1>1, <1>4, <2>1, <2>2 DEF RestoredInv, RecordInv
  <2> QED BY <2>3, <2>4
<1>6. CASE OpenDump(p)
  <2>1. /\ Goto(p, "opening", "dumping") /\ staging' = staging /\ template' = template
        /\ dump'.holds = Torn(prod)
    BY <1>6 DEF OpenDump
  <2>2. /\ \A q \in Pipelines : pipe'[q].read = pipe[q].read
        /\ \A q \in Pipelines \ {p} : pipe'[q].step = pipe[q].step
        /\ pipe'[p].step = "dumping"
    BY <1>2, <2>1, GotoMoves DEF Steps
  <2>3. NewestInv'
    BY <1>1, <1>3, <1>4, <2>1, <2>2 DEF NewestInv, Newest
  <2>4. RestoredInv' /\ RecordInv'
    BY <1>1, <2>1, <2>2 DEF RestoredInv, RecordInv
  <2> QED BY <2>3, <2>4
<1>7. CASE PgDump(p)
  <2>1. /\ Goto(p, "dumping", "loading") /\ staging' = staging /\ template' = template
        /\ \/ dump' = dump
           \/ dump.by = p /\ dump' = [dump EXCEPT !.holds.kind = "whole"]
    BY <1>7 DEF PgDump
  <2>2. /\ \A q \in Pipelines : pipe'[q].read = pipe[q].read
        /\ \A q \in Pipelines \ {p} : pipe'[q].step = pipe[q].step
        /\ pipe'[p].step = "loading"
    BY <1>2, <2>1, GotoMoves DEF Steps
  <2>3. dump'.holds.of = dump.holds.of /\ (dump' # NoFile => dump # NoFile)
    <3>1. CASE dump.by = p /\ dump' = [dump EXCEPT !.holds.kind = "whole"]
      <4>1. dump # NoFile
        BY <3>1, SnapshotAssumption DEF NoFile, NoOne, SnapshotAssumption
      <4>2. dump \in Files /\ dump.holds \in Snapshots
        BY <1>2, <4>1 DEF RefreshTypes
      <4>3. dump'.holds = [dump.holds EXCEPT !.kind = "whole"]
        BY <3>1, <4>2 DEF Files
      <4> QED BY <4>1, <4>2, <4>3 DEF Snapshots
    <3> QED BY <2>1, <3>1
  <2>4. NewestInv'
    BY <1>1, <2>1, <2>2, <2>3 DEF NewestInv, Newest
  <2>5. RestoredInv' /\ RecordInv'
    BY <1>1, <2>1, <2>2 DEF RestoredInv, RecordInv
  <2> QED BY <2>4, <2>5
<1>8. CASE OpenStaging(p)
  <2>1. /\ pipe[p].step = "loading" /\ dump # NoFile
        /\ pipe' = [pipe EXCEPT ![p] = [step |-> "restoring", read |-> dump]]
        /\ dump' = dump /\ staging' = staging /\ template' = template
    BY <1>8 DEF OpenStaging
  <2>2. /\ pipe'[p].step = "restoring" /\ pipe'[p].read = dump
        /\ \A q \in Pipelines \ {p} : pipe'[q] = pipe[q]
    BY <1>2, <2>1 DEF RefreshTypes
  <2>3. Newest(dump.holds.of) /\ dump.holds.of <= prod
    BY <2>1 DEF NewestInv
  <2>4. NewestInv'
    BY <1>1, <1>3, <2>1, <2>2, <2>3 DEF NewestInv, Newest
  <2>5. RestoredInv' /\ RecordInv'
    BY <1>1, <2>1, <2>2, <2>3 DEF RestoredInv, RecordInv, Newest
  <2> QED BY <2>4, <2>5
<1>9. CASE Restore(p)
  <2>1. /\ Goto(p, "restoring", "checking") /\ dump' = dump /\ template' = template
        /\ staging' = IF pipe[p].read = dump THEN pipe[p].read.holds
                      ELSE Torn(pipe[p].read.holds.of)
    BY <1>9 DEF Restore
  <2>2. /\ \A q \in Pipelines : pipe'[q].read = pipe[q].read
        /\ \A q \in Pipelines \ {p} : pipe'[q].step = pipe[q].step
        /\ pipe'[p].step = "checking" /\ pipe[p].step = "restoring"
    BY <1>2, <2>1, GotoMoves DEF Steps
  <2>3. staging'.of = pipe[p].read.holds.of
    BY <1>4, <2>1
  <2>4. staging'.kind = "whole" => Newest(staging'.of)
    <3>1. SUFFICES ASSUME staging'.kind = "whole"
                   PROVE  Newest(staging'.of)
      OBVIOUS
    <3>2. pipe[p].read = dump
      BY <1>4, <2>1, <3>1
    <3>3. dump # NoFile
      <4>1. dump.holds \in Snapshots
        BY <1>2, <2>2, <3>2 DEF RefreshTypes
      <4>2. dump.holds.kind # "missing"
        BY <4>1 DEF Snapshots
      <4> QED BY <1>4, <4>2 DEF NoFile
    <3> QED BY <2>3, <3>2, <3>3 DEF NewestInv
  <2>5. NewestInv'
    BY <1>1, <1>3, <2>1, <2>2, <2>3 DEF NewestInv, Newest
  <2>6. RestoredInv' /\ RecordInv'
    BY <1>1, <2>1, <2>2, <2>4 DEF RestoredInv, RecordInv, Newest
  <2> QED BY <2>5, <2>6
<1>10. CASE GuardQuery(p)
  <2>1. /\ Goto(p, "checking", "dropping")
        /\ dump' = dump /\ staging' = staging /\ template' = template
    BY <1>10 DEF GuardQuery
  <2>2. /\ \A q \in Pipelines : pipe'[q].read = pipe[q].read
        /\ \A q \in Pipelines \ {p} : pipe'[q].step = pipe[q].step
        /\ pipe'[p].step = "dropping" /\ pipe[p].step = "checking"
    BY <1>2, <2>1, GotoMoves DEF Steps
  <2> QED BY <1>1, <2>1, <2>2 DEF NewestInv, Newest, RestoredInv, RecordInv
<1>11. CASE DropTemplate(p)
  <2>1. /\ Goto(p, "dropping", "renaming") /\ template' = Missing
        /\ dump' = dump /\ staging' = staging
    BY <1>11 DEF DropTemplate
  <2>2. /\ \A q \in Pipelines : pipe'[q].read = pipe[q].read
        /\ \A q \in Pipelines \ {p} : pipe'[q].step = pipe[q].step
        /\ pipe'[p].step = "renaming" /\ pipe[p].step = "dropping"
    BY <1>2, <2>1, GotoMoves DEF Steps
  <2> QED BY <1>1, <1>3, <1>4, <2>1, <2>2 DEF NewestInv, Newest, RestoredInv, RecordInv
<1>12. CASE RenameStaging(p)
  <2>1. /\ Goto(p, "renaming", "removing") /\ template' = staging /\ staging' = Missing
        /\ dump' = dump
    BY <1>12 DEF RenameStaging
  <2>2. /\ \A q \in Pipelines : pipe'[q].read = pipe[q].read
        /\ \A q \in Pipelines \ {p} : pipe'[q].step = pipe[q].step
        /\ pipe'[p].step = "removing" /\ pipe[p].step = "renaming"
    BY <1>2, <2>1, GotoMoves DEF Steps
  <2> QED BY <1>1, <1>3, <1>4, <2>1, <2>2 DEF NewestInv, Newest, RestoredInv, RecordInv
<1> QED
  BY <1>5, <1>6, <1>7, <1>8, <1>9, <1>10, <1>11, <1>12 DEF Command

\* What is recorded is the version the awaited pipeline read, no older than
\* the last record, and no later than what the template holds whole.
LEMMA EndKeepsOrder ==
    ASSUME FreshInv, NEW p \in Pipelines, RemoveDump(p) \/ CommandFails(p)
    PROVE  NewestInv' /\ RestoredInv' /\ RecordInv' /\ AskedInv'
<1> USE DEF FreshInv
<1>1. /\ prod \in Nat /\ recorded \in Nat /\ staging.of \in Nat /\ template.of \in Nat
      /\ dump.holds.of \in Nat
      /\ \A q \in Pipelines : pipe[q].read.holds.of \in Nat
      /\ \A t \in Twins : asked[t] \in Nat
  BY VersionsAreNumbers
<1>2. /\ pipe' = [pipe EXCEPT ![p] = Idle]
      /\ UNCHANGED <<prod, template, staging, overlap, cloner>>
      /\ awaited' = IF awaited = p THEN NoOne ELSE awaited
      /\ dump' = NoFile \/ dump' = dump
  BY DEF RemoveDump, CommandFails, Ends
<1>3. /\ pipe'[p] = Idle /\ Idle.step = "idle" /\ Idle.read.holds.of = 0 /\ NoFile.holds.of = 0
      /\ \A q \in Pipelines \ {p} : pipe'[q] = pipe[q]
  BY <1>2 DEF CloneInv, RefreshTypes, Idle, NoFile, Missing
<1>4. \/ recorded' = recorded
      \/ awaited = p /\ pipe[p].step = "removing" /\ recorded' = pipe[p].read.holds.of
  BY DEF RemoveDump, CommandFails, Ends
<1>5. recorded <= recorded' /\ recorded' \in Nat
  BY <1>1, <1>4 DEF RecordInv, ReadingSteps
<1>6. NewestInv'
  BY <1>1, <1>2, <1>3, <1>4 DEF NewestInv, Newest
<1>7. RestoredInv'
  BY <1>1, <1>2, <1>3, <1>4 DEF RestoredInv, ReadingSteps, Restored
<1>8. RecordInv'
  BY <1>2, <1>3, <1>4, SnapshotAssumption DEF RecordInv, ReadingSteps, NoOne, SnapshotAssumption
<1>9. AskedInv'
  BY <1>1, <1>2, <1>5 DEF AskedInv, cloner
<1> QED BY <1>6, <1>7, <1>8, <1>9

\* What a clone copies is no older than the record, which never goes back.
LEMMA CloneKeepsAsked ==
    ASSUME FreshInv, NEW t \in Twins,
           TemplateExists(t) \/ CloneStep(t) \/ GiveUp(t) \/ DropTwinDatabase(t)
    PROVE  AskedInv'
<1> USE DEF FreshInv
<1>1. recorded' = recorded /\ template' = template
  BY DEF TemplateExists, CloneStep, CreateDatabase, InUse, Copied, CopyEnds, GiveUp,
     DropTwinDatabase, refresher
<1>2. /\ recorded \in Nat /\ template.of \in Nat
      /\ \A u \in Twins : asked[u] \in Nat /\ copy[u].of \in Nat /\ db[u].of \in Nat
  BY VersionsAreNumbers
<1>3. /\ twin \in [Twins -> {"idle", "creating", "copying", "created", "failed"}]
      /\ round \in [Twins -> 0..Rounds] /\ asked \in [Twins -> 0..MaxVersion]
      /\ db \in [Twins -> Contents] /\ copy \in [Twins -> Contents]
  BY DEF CloneInv, CloneTypes
<1>4. Missing.kind = "missing" /\ round[t] \in Nat
  BY <1>3, SnapshotAssumption DEF Missing, SnapshotAssumption
<1>5. ASSUME NEW u \in Twins, u # t
      PROVE  /\ twin'[u] = twin[u] /\ round'[u] = round[u] /\ asked'[u] = asked[u]
             /\ db'[u] = db[u] /\ copy'[u] = copy[u]
  BY <1>3, <1>5 DEF TemplateExists, CloneStep, CreateDatabase, InUse, Copied, CopyEnds, GiveUp,
     DropTwinDatabase, Twin
<1>6. /\ asked[t] <= recorded
      /\ round[t] = 0 => twin[t] = "idle" /\ copy[t] = Missing /\ db[t] = Missing
      /\ round[t] <= 1 => /\ copy[t].kind = "whole" => asked[t] <= copy[t].of
                          /\ db[t].kind = "whole" => asked[t] <= db[t].of
  BY DEF AskedInv
<1> DEFINE Asked ==
      /\ asked'[t] <= recorded
      /\ round'[t] = 0 => twin'[t] = "idle" /\ copy'[t] = Missing /\ db'[t] = Missing
      /\ round'[t] <= 1 => /\ copy'[t].kind = "whole" => asked'[t] <= copy'[t].of
                           /\ db'[t].kind = "whole" => asked'[t] <= db'[t].of
<1>7. ASSUME TemplateExists(t) PROVE Asked
  <2>1. /\ round'[t] = round[t] + 1 /\ asked'[t] = recorded
        /\ copy'[t] = copy[t] /\ db'[t] = db[t]
    BY <1>3, <1>7 DEF TemplateExists
  <2> QED BY <1>2, <1>4, <1>6, <2>1
<1>8. ASSUME CreateDatabase(t) PROVE Asked
  <2>1. twin[t] = "creating" /\ round'[t] = round[t] /\ asked'[t] = asked[t] /\ db'[t] = db[t]
    BY <1>8 DEF CreateDatabase, Twin
  <2>2. copy'[t] \in {copy[t], template}
    BY <1>3, <1>8 DEF CreateDatabase
  <2>3. template.kind = "whole" => asked[t] <= template.of
    BY <1>2, <1>6 DEF RestoredInv
  <2> QED BY <1>6, <2>1, <2>2, <2>3
<1>9. ASSUME InUse(t) \/ GiveUp(t) PROVE Asked
  <2>1. /\ twin[t] # "idle" /\ round'[t] = round[t] /\ asked'[t] = asked[t] /\ db'[t] = db[t]
        /\ copy'[t] = copy[t]
    BY <1>9 DEF InUse, GiveUp, Twin
  <2> QED BY <1>6, <2>1
<1>10. ASSUME Copied(t) PROVE Asked
  <2>1. /\ copy[t] # Missing /\ round'[t] = round[t] /\ asked'[t] = asked[t]
        /\ copy'[t] = Missing /\ db'[t] \in {db[t], copy[t]}
    BY <1>3, <1>10 DEF Copied, CopyEnds
  <2> QED BY <1>4, <1>6, <2>1
<1>11. ASSUME DropTwinDatabase(t) PROVE Asked
  <2>1. /\ twin[t] # "idle" /\ round'[t] = round[t] /\ asked'[t] = 0 /\ copy'[t] = copy[t]
        /\ db'[t] \in {db[t], Missing}
    BY <1>3, <1>11 DEF DropTwinDatabase, Twin
  <2> QED BY <1>2, <1>4, <1>6, <2>1
<1>12. Asked
  BY <1>7, <1>8, <1>9, <1>10, <1>11 DEF CloneStep
<1> HIDE DEF Asked
<1>13. ASSUME NEW u \in Twins, u # t
       PROVE  /\ asked'[u] <= recorded'
              /\ round'[u] = 0 => twin'[u] = "idle" /\ copy'[u] = Missing /\ db'[u] = Missing
              /\ round'[u] <= 1 => /\ copy'[u].kind = "whole" => asked'[u] <= copy'[u].of
                                   /\ db'[u].kind = "whole" => asked'[u] <= db'[u].of
  BY <1>1, <1>5, <1>13 DEF AskedInv
<1> QED BY <1>1, <1>12, <1>13 DEF AskedInv, Asked

\* Every step keeps the versions in their order.
LEMMA FreshInvNext ==
    ASSUME FreshInv, [Next]_vars
    PROVE  FreshInv'
<1> USE DEF FreshInv
<1>1. CloneInv'
  BY CloneInvNext
<1>2. CASE UNCHANGED vars
  BY <1>1, <1>2 DEF vars, refresher, cloner, NewestInv, Newest, RestoredInv, RecordInv, AskedInv
<1>3. CASE ProdWrites
  <2>1. prod' = prod + 1 /\ UNCHANGED <<template, refresher, cloner>>
    BY <1>3 DEF ProdWrites
  <2>2. NewestInv'
    BY <2>1, VersionsAreNumbers DEF NewestInv, Newest, refresher
  <2> QED BY <1>1, <2>1, <2>2 DEF refresher, cloner, RestoredInv, RecordInv, AskedInv
<1>4. CASE Abandon
  <2>1. awaited' = NoOne
        /\ UNCHANGED <<prod, template, dump, staging, pipe, recorded, overlap, cloner>>
    BY <1>4 DEF Abandon
  <2>2. NoOne \notin Pipelines
    BY SnapshotAssumption DEF SnapshotAssumption, NoOne
  <2> QED BY <1>1, <2>1, <2>2 DEF cloner, NewestInv, Newest, RestoredInv, RecordInv, AskedInv
<1>5. CASE StartRefresh
  <2>1. PICK p \in Pipelines : Goto(p, "idle", "preparing") /\ awaited' = p
    BY <1>5 DEF StartRefresh
  <2>2. UNCHANGED <<prod, template, dump, staging, recorded, cloner>>
    BY <1>5 DEF StartRefresh
  <2>3. /\ pipe'[p].step = "preparing"
        /\ \A q \in Pipelines : pipe'[q].read = pipe[q].read
        /\ \A q \in Pipelines \ {p} : pipe'[q].step = pipe[q].step
    BY <2>1, GotoMoves DEF CloneInv, Steps
  <2>4. NewestInv' /\ RestoredInv'
    BY <2>2, <2>3 DEF NewestInv, Newest, RestoredInv, ReadingSteps, Restored
  <2>5. RecordInv'
    BY <2>1, <2>3 DEF RecordInv, ReadingSteps
  <2> QED BY <1>1, <2>2, <2>4, <2>5 DEF AskedInv, cloner
<1>6. ASSUME NEW p \in Pipelines, PipelineStep(p)
      PROVE  FreshInv'
  <2>1. CASE Command(p) /\ UNCHANGED <<prod, awaited, recorded, overlap, cloner>>
    <3>1. AskedInv'
      BY <2>1 DEF AskedInv, cloner
    <3> QED BY <1>1, <2>1, <3>1, CommandKeepsOrder
  <2> QED BY <1>1, <1>6, <2>1, EndKeepsOrder DEF PipelineStep
<1>7. ASSUME NEW t \in Twins,
             TemplateExists(t) \/ CloneStep(t) \/ GiveUp(t) \/ DropTwinDatabase(t)
      PROVE  FreshInv'
  <2>1. UNCHANGED <<prod, template, refresher>>
    BY <1>7 DEF TemplateExists, CloneStep, CreateDatabase, InUse, Copied, CopyEnds, GiveUp,
       DropTwinDatabase
  <2>2. NewestInv' /\ RestoredInv' /\ RecordInv'
    BY <2>1 DEF refresher, NewestInv, Newest, RestoredInv, RecordInv
  <2> QED BY <1>1, <1>7, <2>2, CloneKeepsAsked
<1> QED
  BY <1>1, <1>2, <1>3, <1>4, <1>5, <1>6, <1>7 DEF Next

(* The first clone made under a name is no older than the snapshot that    *)
(* was recorded when it was asked for (SnapshotRefresher.last_snapshot_time*)
(* and TwinDatabaseCloner), however many pipelines their refresher gave up *)
(* and whatever they still do to the template.                             *)
THEOREM ClonesAreFresh == Spec => []FreshAsRecorded
<1>1. FreshInv => FreshAsRecorded
  <2> SUFFICES ASSUME FreshInv, NEW t \in Twins, round[t] = 1, db[t].kind = "whole"
               PROVE  db[t].of >= asked[t]
    BY DEF FreshAsRecorded
  <2>1. db[t].of \in Nat /\ asked[t] \in Nat /\ asked[t] <= db[t].of
    BY VersionsAreNumbers DEF FreshInv, AskedInv
  <2> QED BY <2>1
<1> QED
  BY <1>1, FreshInvInit, FreshInvNext, PTL DEF Spec
-----------------------------------------------------------------------------
(***************************************************************************)
(* The safety of one fork: what image the twin gets, what its pods can     *)
(* reach, and when it is handed out.                                       *)
(***************************************************************************)
USE TwinForkAssumption

Pcs == {"read", "apply", "confirm", "wait", "ready", "failed"}

Forks == [pc : Pcs, step : 1..8, image : {0} \cup Revisions, adopted : BOOLEAN]

PodsOfSpace == [Templates -> {"none", "starting", "ready"}]

Spaces == [phase : {"absent", "active", "terminating"}, policy : BOOLEAN,
           template : {"none"} \cup Templates, pods : PodsOfSpace, counted : BOOLEAN]

Production == [component : Components, spec : Revisions, revision : Revisions,
               sets : SUBSET Revisions, replicas : {0, 1},
               pods : [Revisions -> {"none", "pending", "running"}]]

AllLists == {"deployments", "pods", "sets"}

ListedDeployments == [component : {"none"} \cup Components, spec : {0} \cup Revisions,
                      revision : {0} \cup Revisions, replicas : {0, 1}]

Lists == [read : SUBSET AllLists, dep : ListedDeployments,
          pods : SUBSET Revisions, sets : SUBSET Revisions]

Results == {"unread", "good", "bad"}

\* What the controllers of the cluster and a teardown of the namespace do.
ClusterStep ==
  \/ PodStarts \/ PodReplaced \/ StatusWritten \/ Deleted
  \/ \E t \in Templates : PodReady(t) \/ PodFails(t)

\* The bundle: the namespace alone comes first, the policy fourth and the
\* workloads last, if there are any.
LEMMA ManifestOrder ==
    /\ Len(Manifests) = IF Forked THEN 7 ELSE 5
    /\ Manifests[1] = "Namespace"
    /\ Manifests[4] = "NetworkPolicy"
    /\ \A k \in 2 .. Len(Manifests) : Manifests[k] # "Namespace"
    /\ \A k \in 1 .. Len(Manifests) : k < 7 => Manifests[k] # "Deployment"
    /\ Forked => Manifests[7] = "Deployment"
<1>1. CASE Forked
  <2>1. RenderServices = <<"Service">> /\ RenderDeployments = <<"Deployment">>
    BY <1>1 DEF RenderServices, RenderDeployments
  <2>2. /\ Len(Manifests) = 7
        /\ Manifests[1] = "Namespace"
        /\ Manifests[4] = "NetworkPolicy"
        /\ \A k \in {2, 3, 4, 5, 6, 7} : Manifests[k] # "Namespace"
        /\ \A k \in {1, 2, 3, 4, 5, 6} : Manifests[k] # "Deployment"
        /\ Manifests[7] = "Deployment"
    BY <2>1 DEF Manifests, RenderNamespace, RenderRbac, RenderNetworkPolicy, RenderConfigMaps
  <2>3. 2 .. 7 = {2, 3, 4, 5, 6, 7} /\ 1 .. 6 = {1, 2, 3, 4, 5, 6}
    OBVIOUS
  <2> QED BY <1>1, <2>2, <2>3
<1>2. CASE ~ Forked
  <2>1. RenderServices = <<>> /\ RenderDeployments = <<>>
    BY <1>2 DEF RenderServices, RenderDeployments
  <2>2. /\ Len(Manifests) = 5
        /\ Manifests[1] = "Namespace"
        /\ Manifests[4] = "NetworkPolicy"
        /\ \A k \in {2, 3, 4, 5} : Manifests[k] # "Namespace"
        /\ \A k \in {1, 2, 3, 4, 5} : Manifests[k] # "Deployment"
    BY <2>1 DEF Manifests, RenderNamespace, RenderRbac, RenderNetworkPolicy, RenderConfigMaps
  <2>3. 2 .. 5 = {2, 3, 4, 5} /\ 1 .. 5 = {1, 2, 3, 4, 5}
    OBVIOUS
  <2> QED BY <1>2, <2>2, <2>3
<1> QED BY <1>1, <1>2

\* What is rendered depends on what was read, and nothing else.
LEMMA RenderedStays ==
    ASSUME lists' = lists
    PROVE  Wanted' = Wanted /\ Len(Manifests)' = Len(Manifests)
  BY DEF Wanted, Forked, Manifests, RenderNamespace, RenderRbac, RenderNetworkPolicy,
     RenderConfigMaps, RenderServices, RenderDeployments

\* Once it has begun to apply, a fork reads production no more.
LEMMA ListsStay ==
    ASSUME [ForkNext]_twinVars, ~(SnapshotNext /\ ForkWaits)
    PROVE  deployment' = deployment /\ lists' = lists /\ steady' = steady
  BY DEF ForkNext, twinVars, prodVars, ForkStep, Render, Apply, ConfirmPolicy, NothingExpected,
     PollDeployments, PollPods, PollAgain, Judge, Refused, ApiError, PodStarts, PodReplaced,
     StatusWritten, Deleted, PodReady, PodFails, Cluster

-------------------------------------------------------------------------------
(***************************************************************************)
(* The snapshot.  While the spec's revision stays in service, the spec     *)
(* cannot change, so that each list, whenever it is taken, names the same  *)
(* revision, or no pod at all.                                             *)
(***************************************************************************)
SnapInv ==
  /\ deployment \in Production /\ lists \in Lists /\ steady \in BOOLEAN
  /\ deployment.revision \in deployment.sets
  /\ "deployments" \in lists.read => lists.dep.spec \in Revisions
  /\ steady =>
       /\ InService(deployment)
       /\ "deployments" \in lists.read =>
            lists.dep.spec = deployment.spec /\ lists.dep.revision = deployment.spec
       /\ "pods" \in lists.read => lists.pods = {} \/ deployment.spec \in lists.pods
       /\ "sets" \in lists.read => deployment.spec \in lists.sets

ImageInv ==
  /\ fork \in Forks
  /\ fork.pc = "read" => fork.image = 0 /\ fork.step = 1
  /\ fork.step <= Len(Manifests) + 1
  /\ fork.pc = "apply" => fork.step <= Len(Manifests)
  /\ fork.pc \notin {"read", "failed"} => fork.image # 0
  /\ fork.image # 0 => lists.read = AllLists /\ (steady => fork.image = lists.dep.spec)

\* Nothing has been read and no image is chosen when a fork begins.
LEMMA SnapInvInit == ForkInit => SnapInv /\ ImageInv
<1> SUFFICES ASSUME ForkInit PROVE SnapInv /\ ImageInv
  OBVIOUS
<1>1. PICK component \in Components, spec \in Revisions, replicas \in {0, 1} :
         deployment = RolledOut(component, spec, replicas)
  BY DEF ForkInit, SnapshotInit
<1>2. /\ deployment \in Production /\ deployment.revision \in deployment.sets
      /\ InService(deployment)
  <2>1. /\ deployment.component = component /\ deployment.spec = spec
        /\ deployment.revision = spec /\ deployment.sets = 1 .. spec
        /\ deployment.replicas = replicas
        /\ deployment.pods = [r \in Revisions |->
                IF r <= spec /\ replicas > 0 THEN "running" ELSE "none"]
    BY <1>1 DEF RolledOut
  <2>2. 1 .. spec \subseteq Revisions /\ spec \in 1 .. spec
    BY DEF Revisions
  <2>3. deployment \in Production
    BY <1>1, <2>2 DEF RolledOut, Production
  <2>4. InService(deployment)
    BY <2>1, <2>2 DEF InService, Revisions
  <2> QED BY <2>1, <2>2, <2>3, <2>4
<1>3. SnapInv
  BY <1>2 DEF ForkInit, SnapshotInit, SnapInv, Lists, ListedDeployments, AllLists
<1>4. ImageInv
  BY DEF ForkInit, ImageInv, Forks, Pcs
<1> QED BY <1>3, <1>4

\* A step of production or of its readers keeps what is known of the lists.
LEMMA SnapshotKeepsIt ==
    ASSUME SnapInv, SnapshotNext
    PROVE  SnapInv'
<1>1. ASSUME NEW p \in Production, Becomes(p), p.revision \in p.sets,
             steady /\ InService(p) => p.spec = deployment.spec
      PROVE  SnapInv'
  <2>1. /\ deployment' = p /\ lists' = lists
        /\ (steady' <=> (steady /\ InService(p))) /\ steady' \in BOOLEAN
    BY <1>1 DEF Becomes
  <2>2. InService(p) <=> InService(deployment)'
    BY <2>1 DEF InService
  <2> QED
    BY <1>1, <2>1, <2>2 DEF SnapInv
<1>2. /\ deployment \in Production /\ deployment.revision \in deployment.sets
      /\ (steady => InService(deployment))
  BY DEF SnapInv
<1>3. CASE Deploy
  <2>1. [deployment EXCEPT !.spec = 2] \in Production
    BY <1>2 DEF Production, Revisions
  <2>2. /\ [deployment EXCEPT !.spec = 2].spec = 2
        /\ [deployment EXCEPT !.spec = 2].revision = deployment.revision
    BY <1>2 DEF Production
  <2>3. steady => deployment.revision = 1
    BY <1>2, <1>3 DEF Deploy, InService
  <2>4. ~(steady /\ InService([deployment EXCEPT !.spec = 2]))
    BY <2>2, <2>3 DEF InService
  <2>5. [deployment EXCEPT !.spec = 2].revision \in [deployment EXCEPT !.spec = 2].sets
    BY <1>2 DEF Production
  <2> QED
    BY <1>1, <1>3, <2>1, <2>4, <2>5 DEF Deploy
<1>4. CASE Sync
  <2> DEFINE p == [deployment EXCEPT !.revision = deployment.spec, !.sets = @ \cup {deployment.spec}]
  <2>1. p \in Production /\ p.revision \in p.sets /\ p.spec = deployment.spec
    BY <1>2 DEF Production
  <2> QED
    BY <1>1, <1>4, <2>1 DEF Sync
<1>10. CASE Scale
  <2> DEFINE p == [deployment EXCEPT !.replicas = 1 - @]
  <2>1. p \in Production /\ p.revision \in p.sets /\ p.spec = deployment.spec
    BY <1>2 DEF Production
  <2> QED
    BY <1>1, <1>10, <2>1 DEF Scale
<1>5. ASSUME NEW r \in Revisions, PodCreated(r) \/ PodRuns(r) \/ PodLost(r) \/ PodRetired(r)
      PROVE  SnapInv'
  <2>1. PICK s \in {"none", "pending", "running"} : Becomes([deployment EXCEPT !.pods[r] = s])
    BY <1>5 DEF PodCreated, PodRuns, PodLost, PodRetired
  <2> DEFINE p == [deployment EXCEPT !.pods[r] = s]
  <2>2. p \in Production /\ p.revision \in p.sets /\ p.spec = deployment.spec
    BY <1>2 DEF Production
  <2> QED
    BY <1>1, <2>1, <2>2
<1>6. ASSUME UNCHANGED <<deployment, steady>>
      PROVE  InService(deployment)' <=> InService(deployment)
  BY <1>6 DEF InService
<1>7. CASE ReadDeployments
  BY <1>2, <1>6, <1>7 DEF ReadDeployments, SnapInv, Production, Lists, ListedDeployments, AllLists,
     InService
<1>8. CASE ReadPods
  BY <1>6, <1>8 DEF ReadPods, SnapInv, Production, Lists, AllLists, InService
<1>9. CASE ReadReplicaSets
  BY <1>2, <1>6, <1>9 DEF ReadReplicaSets, SnapInv, Production, Lists, AllLists, InService
<1> QED
  BY <1>3, <1>4, <1>5, <1>7, <1>8, <1>9, <1>10 DEF SnapshotNext

\* With all three lists read the image is of a known revision, and the spec's
\* if that was in service all the while.
LEMMA PinnedIsTheSpec ==
    ASSUME SnapInv, lists.read = AllLists
    PROVE  /\ PinnedImages \subseteq Revisions
           /\ steady => PinnedImages = {lists.dep.spec}
<1>1. lists.dep.spec \in Revisions /\ lists.pods \subseteq Revisions
  BY DEF SnapInv, AllLists, Lists
<1>2. PinnedImages \subseteq Revisions
  BY <1>1 DEF PinnedImages, Trusted
<1>3. ASSUME steady PROVE PinnedImages = {lists.dep.spec}
  <2>1. /\ lists.dep.revision = lists.dep.spec
        /\ lists.pods = {} \/ lists.dep.spec \in lists.pods
        /\ lists.dep.spec \in lists.sets
    BY <1>3 DEF SnapInv, AllLists
  <2>2. CurrentRevision = {lists.dep.spec}
    BY <2>1 DEF CurrentRevision
  <2>3. Trusted = IF lists.pods = {} THEN {} ELSE {lists.dep.spec}
    BY <2>1, <2>2 DEF Trusted
  <2> QED
    BY <2>3 DEF PinnedImages
<1> QED
  BY <1>2, <1>3

\* The image is chosen once, after the last list, and never again.
LEMMA ImageInvNext ==
    ASSUME SnapInv, ImageInv, [ForkNext]_twinVars
    PROVE  SnapInv' /\ ImageInv'
<1>1. CASE SnapshotNext /\ ForkWaits
  <2>1. fork.pc = "read" /\ fork' = fork /\ fork.image = 0
    BY <1>1 DEF ForkWaits, forkVars, ImageInv
  <2>2. SnapInv'
    BY <1>1, SnapshotKeepsIt
  <2> QED
    BY <2>1, <2>2 DEF ImageInv
<1>2. CASE ~(SnapshotNext /\ ForkWaits)
  <2>1. /\ deployment' = deployment /\ lists' = lists /\ steady' = steady
        /\ Len(Manifests)' = Len(Manifests) /\ Len(Manifests) \in {5, 7}
    BY <1>2, ListsStay, RenderedStays, ManifestOrder
  <2>2. SnapInv'
    BY <2>1 DEF SnapInv, InService
  <2>3. CASE Render
    <3>1. lists.read = AllLists
      BY <2>3 DEF Render, Reading, AllLists
    <3>2. PICK image \in PinnedImages : fork' = [fork EXCEPT !.pc = "apply", !.image = image]
      BY <2>3 DEF Render
    <3>3. image \in Revisions /\ (steady => image = lists.dep.spec)
      BY <3>1, <3>2, PinnedIsTheSpec
    <3>4. fork.pc = "read" /\ fork.step = 1 /\ fork \in Forks
      BY <2>3 DEF Render, ImageInv
    <3>5. /\ fork' \in Forks /\ fork'.pc = "apply" /\ fork'.step = 1 /\ fork'.image = image
      BY <3>2, <3>3, <3>4 DEF Forks, Pcs
    <3>6. fork'.image # 0
      BY <3>3, <3>5 DEF Revisions
    <3> QED
      BY <2>1, <2>2, <3>1, <3>3, <3>5, <3>6 DEF ImageInv
  <2>4. CASE Apply
    <3>1. fork.pc = "apply" /\ NextManifest /\ fork \in Forks /\ fork.step \in 1..Len(Manifests)
      BY <2>4 DEF Apply, ImageInv, Forks
    <3>2. /\ fork'.step = fork.step + 1 /\ fork'.image = fork.image
          /\ fork'.pc \in {"apply", "confirm"}
          /\ fork'.pc = "apply" => fork.step # Len(Manifests)
      BY <3>1 DEF NextManifest, Forks
    <3>3. PICK pc \in {"apply", "confirm"}, b \in BOOLEAN :
            fork' = [fork EXCEPT !.step = fork.step + 1, !.pc = pc, !.adopted = b]
      BY <3>1 DEF NextManifest
    <3>4. fork' \in Forks
      <4>1. fork.step + 1 \in 1..8
        BY <2>1, <3>1
      <4> QED
        BY <3>1, <3>3, <4>1 DEF Forks, Pcs
    <3> QED
      BY <2>1, <2>2, <3>1, <3>2, <3>4 DEF ImageInv
  <2>5. CASE UNCHANGED fork
    BY <2>1, <2>2, <2>5 DEF ImageInv
  <2>6. CASE ~Render /\ ~Apply /\ ~UNCHANGED fork
    <3>1. PICK pc \in {"wait", "ready", "failed"} :
             Pc(pc) /\ (pc = "failed" \/ fork.pc \in {"confirm", "wait"})
      BY <1>2, <2>6 DEF ForkNext, twinVars, ForkStep, ConfirmPolicy, NothingExpected,
         PollDeployments, PollPods, PollAgain, Judge, Polled, Refused, ApiError, PodStarts, PodReplaced,
         StatusWritten, Deleted, PodReady, PodFails, Cluster
    <3> QED
      BY <2>1, <2>2, <3>1 DEF Pc, ImageInv, Forks, Pcs
  <2> QED
    BY <2>3, <2>4, <2>5, <2>6
<1> QED
  BY <1>1, <1>2
-------------------------------------------------------------------------------
(***************************************************************************)
(* The namespace.  Only the first manifest makes it active, and then it is *)
(* empty or a whole one; the policy is there before the workloads.         *)
(***************************************************************************)
NoPodCounted(s) == s.pods = NoPods /\ s.counted = FALSE

SpaceInv ==
  /\ space \in Spaces
  /\ space.template = "none" => NoPodCounted(space)
  /\ space.phase = "absent" => space.template = "none"
  /\ space.phase = "active" /\ space.template # "none" => space.policy = TRUE
  /\ space.phase = "active" /\ fork.pc = "apply" /\ fork.step > 4 => space.policy = TRUE

\* What the cluster may make of the namespace in a step.
Later(s) ==
  /\ s \in Spaces
  /\ s.template \in {space.template, "none"}
  /\ s.template = "none" => NoPodCounted(s)
  /\ s.phase = "absent" => s.template = "none"
  /\ s.phase = "active" =>
       space.phase = "active" /\ s.template = space.template /\ s.policy = space.policy
  /\ space.pods["left"] = "none" /\ space.template # "left" => s.pods["left"] = "none"
  /\ s.counted = TRUE => space.counted = TRUE \/ \E t \in Templates : space.pods[t] = "ready"

\* Every step of the cluster makes of the namespace what Later allows.
LEMMA ClusterLater ==
    ASSUME SpaceInv, ClusterStep
    PROVE  \E s : Later(s) /\ Cluster(s)
<1> USE DEF SpaceInv
<1>1. ASSUME NEW t \in Templates, NEW v \in {"none", "starting", "ready"},
             space.template # "none", v = "none" \/ t # "left" \/ space.pods["left"] # "none"
                                        \/ space.template = "left"
      PROVE  Later([space EXCEPT !.pods[t] = v])
  <2> DEFINE s == [space EXCEPT !.pods[t] = v]
  <2>1. s \in Spaces /\ s.template = space.template /\ s.phase = space.phase
        /\ s.policy = space.policy /\ s.counted = space.counted
    BY DEF Spaces, PodsOfSpace
  <2>2. s.pods = [space.pods EXCEPT ![t] = v]
    BY DEF Spaces
  <2>3. t # "left" => s.pods["left"] = space.pods["left"]
    BY <2>2 DEF Spaces, PodsOfSpace, Templates
  <2>4. t = "left" => s.pods["left"] = v
    BY <2>2 DEF Spaces, PodsOfSpace, Templates
  <2> QED
    BY <1>1, <2>1, <2>3, <2>4 DEF Later
<1>2. ASSUME NEW t \in Templates, space.pods[t] # "none" PROVE space.template # "none"
  BY <1>2 DEF NoPodCounted, NoPods
<1>3. CASE PodStarts
  <2>1. space.template \in Templates
    BY <1>3 DEF PodStarts, Spaces
  <2> QED
    BY <1>1, <1>3, <2>1 DEF PodStarts
<1>4. ASSUME NEW t \in Templates, PodReady(t) \/ PodFails(t)
      PROVE  \E s : Later(s) /\ Cluster(s)
  BY <1>1, <1>2, <1>4 DEF PodReady, PodFails
<1>5. CASE PodReplaced
  BY <1>1, <1>5 DEF PodReplaced, Templates
<1>6. CASE StatusWritten
  <2>1. PICK c \in BOOLEAN : /\ Cluster([space EXCEPT !.counted = c])
                             /\ c <=> \E t \in Templates : space.pods[t] = "ready"
    BY <1>6 DEF StatusWritten
  <2> DEFINE s == [space EXCEPT !.counted = c]
  <2>2. s \in Spaces /\ s.template = space.template /\ s.phase = space.phase
        /\ s.policy = space.policy /\ s.counted = c /\ s.pods = space.pods
    BY DEF Spaces
  <2>3. Later(s)
    BY <1>6, <2>1, <2>2 DEF Later, StatusWritten
  <2> QED
    BY <2>1, <2>3
<1>7. CASE Deleted
  <2>1. Later([space EXCEPT !.phase = "terminating"])
    BY DEF Later, Spaces, NoPodCounted
  <2>2. CASE space.phase = "active"
    BY <1>7, <2>1, <2>2 DEF Deleted
  <2>3. ASSUME space.phase = "terminating"
        PROVE  /\ Later([space EXCEPT !.policy = FALSE])
               /\ Later([space EXCEPT !.template = "none", !.pods = NoPods, !.counted = FALSE])
               /\ space.template = "none" => Later([space EXCEPT !.phase = "absent"])
    <3>1. Later([space EXCEPT !.policy = FALSE])
      BY <2>3 DEF Later, Spaces, NoPodCounted
    <3>2. NoPods \in PodsOfSpace
      BY DEF NoPods, PodsOfSpace
    <3>3. Later([space EXCEPT !.template = "none", !.pods = NoPods, !.counted = FALSE])
      BY <2>3, <3>2 DEF Later, Spaces, NoPodCounted, NoPods, Templates
    <3>4. space.template = "none" => Later([space EXCEPT !.phase = "absent"])
      BY <2>3 DEF Later, Spaces, NoPodCounted
    <3> QED
      BY <3>1, <3>3, <3>4
  <2> QED
    BY <1>7, <2>2, <2>3 DEF Deleted
<1> QED
  BY <1>3, <1>4, <1>5, <1>6, <1>7 DEF ClusterStep

\* An own namespace: made by this fork, not taken over.
Own == fork.adopted = FALSE /\ (fork.step > 1 \/ space.phase = "absent")

OwnInv ==
  /\ poll \in [deps : Results, pods : Results] /\ elapsed \in 0..Timeout
  /\ fork.pc \in {"confirm", "wait", "ready"} => fork.step > 1
  /\ fork.pc \in {"read", "apply", "confirm"} => poll.deps = "unread"
  /\ Own => /\ space.template # "left" /\ space.pods["left"] = "none"
            /\ space.counted = TRUE => served
            /\ space.pods["rendered"] = "ready" => served
            /\ poll.deps = "good" => served \/ Wanted = 0
  /\ fork.pc = "ready" /\ fork.adopted = FALSE => served \/ Wanted = 0

\* A namespace is absent, or whole, when a fork begins.
LEMMA SpaceInvInit == ForkInit => SpaceInv /\ OwnInv
<1>1. NoPods \in PodsOfSpace /\ [NoPods EXCEPT !["left"] = "ready"] \in PodsOfSpace
  BY DEF NoPods, PodsOfSpace, Templates
<1>2. NoPods["left"] = "none" /\ NoPods["rendered"] = "none"
  BY DEF NoPods, Templates
<1>3. ForkInit => SpaceInv
  <2> SUFFICES ASSUME ForkInit PROVE SpaceInv
    OBVIOUS
  <2>1. fork.pc = "read" /\ space \in Spaces0
    BY DEF ForkInit
  <2>2. CASE space.phase = "absent"
    <3>1. space = [phase |-> "absent", policy |-> FALSE, template |-> "none",
                   pods |-> NoPods, counted |-> FALSE]
      BY <2>1, <2>2 DEF Spaces0
    <3> QED
      BY <1>1, <2>1, <3>1 DEF SpaceInv, Spaces, NoPodCounted
  <2>3. CASE space.phase # "absent"
    <3>1. space = [phase |-> "active", policy |-> TRUE, template |-> "left",
                   pods |-> [NoPods EXCEPT !["left"] = "ready"], counted |-> TRUE]
      BY <2>1, <2>3 DEF Spaces0
    <3> QED
      BY <1>1, <2>1, <3>1 DEF SpaceInv, Spaces, Templates
  <2> QED
    BY <2>2, <2>3
<1>4. ForkInit => OwnInv
  BY <1>2 DEF ForkInit, Spaces0, OwnInv, Own, Unpolled, Results
<1> QED
  BY <1>3, <1>4

\* The cluster uncovers no workload and counts no pod that was never ready.
LEMMA ClusterKeepsIt ==
    ASSUME ImageInv, SpaceInv, OwnInv, ClusterStep
    PROVE  SpaceInv' /\ OwnInv'
<1>1. PICK s : Later(s) /\ Cluster(s)
  BY ClusterLater
<1>2. /\ space' = s /\ fork' = fork /\ poll' = poll /\ elapsed' = elapsed
      /\ served' <=> (served \/ s.pods["rendered"] = "ready")
      /\ fork.pc \notin {"read", "ready", "failed"} /\ Wanted' = Wanted
  BY <1>1, RenderedStays DEF Cluster, prodVars
<1>3. SpaceInv'
  BY <1>1, <1>2 DEF SpaceInv, Later, NoPodCounted
<1>4. CASE Own
  <2>1. space.pods["left"] = "none" /\ space.template # "left"
    BY <1>4 DEF OwnInv
  <2>2. s.pods["left"] = "none" /\ s.template # "left"
    BY <1>1, <2>1 DEF Later
  <2>3. s.counted = TRUE => served
    BY <1>1, <1>4, <2>1 DEF Later, OwnInv, Templates
  <2> QED
    BY <1>2, <1>3, <1>4, <2>2, <2>3 DEF OwnInv
<1>5. CASE ~Own
  <2>1. CASE Own'
    <3>1. s.phase = "absent" /\ fork.step \in 1..8 /\ ~(fork.step > 1)
      BY <1>2, <1>5, <2>1 DEF Own, ImageInv, Forks
    <3>2. s.template = "none" /\ s.pods = NoPods /\ s.counted = FALSE
      BY <1>1, <3>1 DEF Later, NoPodCounted
    <3>3. fork.pc = "apply" /\ poll.deps = "unread"
      BY <1>2, <3>1 DEF OwnInv, ImageInv, Forks, Pcs
    <3>4. s.pods["left"] = "none" /\ s.pods["rendered"] = "none"
      BY <3>2 DEF NoPods, Templates
    <3> QED
      BY <1>2, <1>3, <3>2, <3>3, <3>4 DEF OwnInv
  <2>2. CASE ~Own'
    BY <1>2, <1>3, <2>2 DEF OwnInv
  <2> QED
    BY <2>1, <2>2
<1> QED
  BY <1>3, <1>4, <1>5

\* A manifest applied keeps the order of policy and workloads, and takes a
\* namespace over only with a note of it.
LEMMA ApplyKeepsIt ==
    ASSUME ImageInv, SpaceInv, OwnInv, Apply
    PROVE  SpaceInv' /\ OwnInv'
<1> DEFINE kind == Manifests[fork.step]
<1>1. /\ fork.pc = "apply" /\ fork.step \in 1..Len(Manifests) /\ fork \in Forks
      /\ poll' = poll /\ elapsed' = elapsed /\ served' = served
      /\ Wanted' = Wanted /\ Len(Manifests) \in {5, 7}
  BY RenderedStays, ManifestOrder DEF Apply, ImageInv, Forks, prodVars
<1>2. /\ fork'.step = fork.step + 1 /\ fork'.pc \in {"apply", "confirm"}
      /\ fork'.pc = "apply" => fork.step # 7
      /\ fork'.adopted = FALSE =>
           fork.adopted = FALSE /\ (fork.step = 1 => space.phase = "absent")
  <2>1. fork.step = 7 => fork.step = Len(Manifests)
    BY <1>1
  <2> QED BY <1>1, <2>1, ManifestOrder DEF Apply, NextManifest, Forks
<1>3. CASE fork.step = 1
  <2>1. /\ space'.phase = "active" \/ space' = space
        /\ space' = space \/ (space.phase = "absent" /\ space' = [space EXCEPT !.phase = "active"])
    BY <1>3, ManifestOrder DEF Apply
  <2>2. SpaceInv'
    BY <1>2, <1>3, <2>1 DEF SpaceInv, Spaces, NoPodCounted
  <2> QED
    BY <1>1, <1>2, <1>3, <2>1, <2>2 DEF OwnInv, Own, SpaceInv, Spaces
<1>4. CASE fork.step \in 2..6
  <2>1. /\ space.phase = "active"
        /\ space' = space \/ space' = [space EXCEPT !.policy = TRUE]
        /\ fork.step = 4 => space' = [space EXCEPT !.policy = TRUE]
    BY <1>1, <1>4, ManifestOrder DEF Apply
  <2>2. ASSUME space' = [space EXCEPT !.policy = TRUE]
        PROVE  SpaceInv'
    <3>1. space \in Spaces /\ [space EXCEPT !.policy = TRUE] \in Spaces
      BY DEF SpaceInv, Spaces
    <3>2. /\ space'.policy = TRUE /\ space'.template = space.template
          /\ space'.phase = space.phase /\ space'.pods = space.pods
          /\ space'.counted = space.counted
      BY <2>2, <3>1 DEF Spaces
    <3> QED
      BY <2>2, <3>1, <3>2 DEF SpaceInv, NoPodCounted
  <2>3. ASSUME space' = space, fork.step # 4
        PROVE  SpaceInv'
    <3>1. fork'.pc = "apply" /\ fork'.step > 4 => fork.step > 4
      BY <1>1, <1>2, <1>4, <2>3
    <3>2. space'.policy = space.policy /\ space'.phase = space.phase
          /\ space'.template = space.template /\ (NoPodCounted(space)' <=> NoPodCounted(space))
      BY <2>3 DEF NoPodCounted
    <3> QED
      BY <1>1, <2>3, <3>1, <3>2 DEF SpaceInv
  <2>4. SpaceInv'
    BY <2>1, <2>2, <2>3
  <2> QED
    BY <1>1, <1>2, <1>4, <2>1, <2>4 DEF OwnInv, Own, SpaceInv, Spaces
<1>5. CASE fork.step = 7
  <2>0. Forked
    BY <1>1, <1>5, ManifestOrder
  <2>1. space.phase = "active" /\ space' = [space EXCEPT !.template = "rendered"]
    BY <1>5, <2>0, ManifestOrder DEF Apply
  <2>2. SpaceInv'
    BY <1>1, <1>2, <1>5, <2>1 DEF SpaceInv, Spaces, NoPodCounted, Templates
  <2> QED
    BY <1>1, <1>2, <1>5, <2>1, <2>2 DEF OwnInv, Own, SpaceInv, Spaces
<1> QED
  <2>1. fork.step \in 1 .. Len(Manifests) /\ Len(Manifests) \in {5, 7}
    BY <1>1
  <2> HIDE DEF kind
  <2>2. fork.step = 1 \/ fork.step \in 2 .. 6 \/ fork.step = 7
    <3>1. \A n \in {5, 7}, k \in Nat : k \in 1 .. n => k = 1 \/ k \in 2 .. 6 \/ k = 7
      OBVIOUS
    <3>2. fork.step \in Nat
      BY <1>1 DEF Forks
    <3> QED BY <2>1, <3>1, <3>2
  <2> QED BY <1>3, <1>4, <1>5, <2>2

\* Every step keeps what is known of the namespace and of the polls.
LEMMA SpaceInvNext ==
    ASSUME ImageInv, SpaceInv, OwnInv, [ForkNext]_twinVars
    PROVE  SpaceInv' /\ OwnInv'
<1>1. CASE Apply
  BY <1>1, ApplyKeepsIt
<1>2. CASE ClusterStep
  BY <1>2, ClusterKeepsIt
<1>3. ASSUME space' = space, fork'.step = fork.step, fork'.adopted = fork.adopted,
             served' = served,
             fork'.pc # "apply" \/ fork.pc = "apply" \/ fork'.step = 1
      PROVE  SpaceInv'
  BY <1>3 DEF SpaceInv, NoPodCounted
<1>4. CASE (SnapshotNext /\ ForkWaits) \/ UNCHANGED twinVars
  <2>1. UNCHANGED forkVars
    BY <1>4 DEF ForkWaits, twinVars, forkVars
  <2>2. fork.pc = "read" \/ Wanted' = Wanted
    BY <1>4, RenderedStays DEF ForkWaits, twinVars, prodVars
  <2>3. fork.pc = "read" => poll.deps = "unread"
    BY DEF OwnInv
  <2> QED
    BY <2>1, <2>2, <2>3 DEF forkVars, SpaceInv, OwnInv, Own, NoPodCounted
<1>5. CASE Render
  <2>1. PICK image : fork' = [fork EXCEPT !.pc = "apply", !.image = image]
    BY <1>5 DEF Render
  <2>2. /\ fork'.pc = "apply" /\ fork'.step = fork.step /\ fork'.adopted = fork.adopted
        /\ fork.step = 1 /\ fork.pc = "read" /\ UNCHANGED <<space, poll, elapsed, served>>
        /\ Wanted' = Wanted
    BY <1>5, <2>1, RenderedStays DEF Render, ImageInv, Forks, prodVars
  <2> QED
    BY <1>3, <2>2 DEF OwnInv, Own
<1>6. ASSUME NEW pc \in {"wait", "ready", "failed"}, Pc(pc),
             UNCHANGED <<space, poll, elapsed, served>>, Wanted' = Wanted,
             pc # "failed" => fork.pc \in {"confirm", "wait"},
             pc = "ready" => fork.pc = "wait" /\ (poll.deps = "good" \/ Wanted = 0)
      PROVE  SpaceInv' /\ OwnInv'
  <2>1. fork'.pc = pc /\ fork'.step = fork.step /\ fork'.adopted = fork.adopted
    BY <1>6 DEF Pc, ImageInv, Forks
  <2>2. SpaceInv'
    BY <1>3, <1>6, <2>1
  <2>3. pc = "ready" /\ fork.adopted = FALSE => served \/ Wanted = 0
    BY <1>6 DEF OwnInv, Own
  <2> QED
    BY <1>6, <2>1, <2>2, <2>3 DEF OwnInv, Own
<1>7. CASE ConfirmPolicy \/ NothingExpected \/ Judge \/ Refused \/ ApiError
  <2>1. Wanted' = Wanted
    BY <1>7, RenderedStays DEF ConfirmPolicy, NothingExpected, Judge, Refused, ApiError, prodVars
  <2>2. NothingExpected => Wanted = 0
    BY DEF NothingExpected, Wanted
  <2> QED
    BY <1>6, <1>7, <2>1, <2>2 DEF ConfirmPolicy, NothingExpected, Judge, AllReady, Polled, Refused,
       ApiError
<1>8. CASE PollDeployments
  <2>1. PICK b \in {"good", "bad"} : /\ poll' = [poll EXCEPT !.deps = b]
                                     /\ b = "good" => space.counted = TRUE \/ Wanted = 0
    BY <1>8 DEF PollDeployments, Found, SpaceInv, Spaces
  <2>2. fork.pc = "wait" /\ UNCHANGED <<fork, space, elapsed, served>> /\ Wanted' = Wanted
    BY <1>8, RenderedStays DEF PollDeployments, prodVars
  <2> QED
    BY <1>3, <2>1, <2>2 DEF OwnInv, Own, Results
<1>9. CASE PollPods
  <2>1. PICK b \in {"good", "bad"} : poll' = [poll EXCEPT !.pods = b]
    BY <1>9 DEF PollPods, Found
  <2>2. UNCHANGED <<fork, space, elapsed, served>> /\ Wanted' = Wanted
    BY <1>9, RenderedStays DEF PollPods, prodVars
  <2> QED
    BY <1>3, <2>1, <2>2 DEF OwnInv, Own, Results
<1>10. CASE PollAgain
  <2>1. poll' = Unpolled /\ elapsed \in 0..Timeout /\ elapsed < Timeout /\ elapsed' = elapsed + 1
    BY <1>10 DEF PollAgain, OwnInv
  <2>2. UNCHANGED <<fork, space, served>> /\ Wanted' = Wanted
    BY <1>10, RenderedStays DEF PollAgain, prodVars
  <2> QED
    BY <1>3, <2>1, <2>2 DEF OwnInv, Own, Results, Unpolled, TwinForkAssumption
<1> QED
  BY <1>1, <1>2, <1>4, <1>5, <1>7, <1>8, <1>9, <1>10 DEF ForkNext, ForkStep, ClusterStep
-------------------------------------------------------------------------------
ForkInv == SnapInv /\ ImageInv /\ SpaceInv /\ OwnInv

(* What holds of every state of every fork, from which the three theorems  *)
(* follow.                                                                 *)
THEOREM ForkInvariant == ForkSpec => []ForkInv
<1>1. ForkInit => ForkInv
  BY SnapInvInit, SpaceInvInit DEF ForkInv
<1>2. ForkInv /\ [ForkNext]_twinVars => ForkInv'
  BY ImageInvNext, SpaceInvNext DEF ForkInv
<1> QED
  BY <1>1, <1>2, PTL DEF ForkSpec

(* The image of a twin is that of the spec of production, however the lists*)
(* fell, if that revision was in service all the while (read_workloads).   *)
THEOREM TwinGetsTheSpec == ForkSpec => []SnapshotOfTheSpec
<1>1. ForkInv => SnapshotOfTheSpec
  <2>1. ForkInv => ForkTypeOK
    BY ManifestOrder DEF ForkInv, ImageInv, SpaceInv, OwnInv, ForkTypeOK, Forks, Pcs, Spaces, PodsOfSpace
  <2> QED
    BY <2>1 DEF ForkInv, ImageInv, SnapshotOfTheSpec
<1> QED
  BY <1>1, ForkInvariant, PTL

(* K6: no pod of a twin that is not being deleted reaches production or the*)
(* internet (render, _apply_manifest).                                     *)
THEOREM TwinIsContained == ForkSpec => []Contained
<1>1. ASSUME ForkInv PROVE Contained
  <2> SUFFICES ASSUME space.phase = "active", NEW t \in Templates, space.pods[t] # "none"
               PROVE  Reachable \cap {"prod", "internet"} = {}
    BY DEF Contained
  <2>1. space.template # "none"
    BY <1>1 DEF ForkInv, SpaceInv, NoPodCounted, NoPods
  <2>2. space.policy = TRUE
    BY <1>1, <2>1 DEF ForkInv, SpaceInv
  <2> QED
    BY <2>2 DEF Reachable, Allowed
<1> QED
  BY <1>1, ForkInvariant, PTL

(* A twin in a namespace of its own has served before it is handed out, if *)
(* the workload it was forked from has replicas (_wait_for_readiness).     *)
THEOREM TwinHasServed == ForkSpec => []ServedIfWanted
<1>1. ASSUME ForkInv PROVE ServedIfWanted
  BY <1>1 DEF ForkInv, ImageInv, Forks, OwnInv, ServedIfWanted
<1> QED
  BY <1>1, ForkInvariant, PTL
=============================================================================
