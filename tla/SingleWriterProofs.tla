-------------------------- MODULE SingleWriterProofs --------------------------
(***************************************************************************)
(* Proofs about incidents that share production, for any number of them,   *)
(* any targets, any budget, window and clock bound.                        *)
(***************************************************************************)
EXTENDS SingleWriter, FiniteSetTheorems, WellFoundedInduction, TLAPS

(***************************************************************************)
(* The invariant follows a claim: who is past it has the row and has not   *)
(* finished, a finished run stays where it ended, and a patch was sent     *)
(* only by an incident that has its row and has left "claimed".            *)
(***************************************************************************)
Shape ==
    /\ pc \in [Incidents -> Stages]
    /\ DOMAIN preRow = Incidents
    /\ finalRow \in [Incidents -> {"none", "applied", "unapplied"}]
    /\ attempts \in [Incidents -> Nat]

ClaimOf(i) ==
    /\ pc[i] \in {"claimed", "applying", "settled"} => preRow[i] # NoRow
    /\ finalRow[i] # "none" => pc[i] = "ended"
    /\ preRow[i] = NoRow => attempts[i] = 0
    /\ pc[i] = "claimed" => attempts[i] = 0
    /\ attempts[i] <= 1

WriterInv == Shape /\ \A i \in Incidents : ClaimOf(i)

LEMMA RowIsNotNoRow ==
    ASSUME NEW a, NEW f
    PROVE  [at |-> a, facts |-> f] # NoRow
<1>1. "none" \in DOMAIN NoRow
  BY DEF NoRow
<1>2. "none" \notin DOMAIN [at |-> a, facts |-> f]
  OBVIOUS
<1> QED
  BY <1>1, <1>2

LEMMA WriterInvInit == Init => WriterInv
  BY DEF Init, WriterInv, Shape, ClaimOf, Stages

(* A step that moves one run and touches neither the table nor the patch.  *)
LEMMA MoveKeeps ==
    ASSUME WriterInv, NEW i \in Incidents, NEW to \in Stages,
           pc' = [pc EXCEPT ![i] = to],
           to \notin {"claimed", "applying", "settled"},
           pc[i] # "ended" \/ to = "ended",
           preRow' = preRow, finalRow' = finalRow, attempts' = attempts
    PROVE  WriterInv'
  BY DEF WriterInv, Shape, ClaimOf, NoRow

LEMMA WriterInvNext ==
    ASSUME WriterInv, [Next]_vars
    PROVE  WriterInv'
<1> USE DEF WriterInv
<1>1. CASE UNCHANGED vars \/ Tick \/ Ended
  <2>1. UNCHANGED <<pc, preRow, finalRow, attempts>>
    BY <1>1 DEF vars, Tick, Ended, storeVars, prodVars
  <2> QED
    BY <2>1 DEF Shape, ClaimOf, NoRow
<1>2. ASSUME NEW i \in Incidents,
             StartRun(i) \/ ReadActiveRuns(i) \/ CountMutations(i) \/ Verify(i)
             \/ Authorise(i) \/ Unwind(i) \/ EndUnrecorded(i) \/ Crash(i) \/ Rerun(i)
      PROVE  WriterInv'
  <2>1. /\ UNCHANGED <<preRow, finalRow, attempts>>
        /\ pc[i] # "ended"
        /\ \E to \in {"planned", "reading", "facts", "verified", "authorised",
                      "closing", "ended", "crashed"} : pc' = [pc EXCEPT ![i] = to]
    BY <1>2 DEF StartRun, ReadActiveRuns, CountMutations, Verify, Authorise, Unwind,
                EndUnrecorded, Crash, Rerun, Step, storeVars, prodVars
  <2> QED
    BY <2>1, MoveKeeps DEF Stages
<1>3. ASSUME NEW i \in Incidents, InsertPreActuation(i) PROVE WriterInv'
  <2>1. /\ UNCHANGED <<finalRow, attempts>>
        /\ pc[i] = "authorised" /\ preRow[i] = NoRow
        /\ preRow' = [preRow EXCEPT ![i] = [at |-> checkedAt[i], facts |-> facts[i]]]
        /\ \E to \in {"claimed", "closing"} : pc' = [pc EXCEPT ![i] = to]
    BY <1>3 DEF InsertPreActuation, Step, prodVars
  <2>2. [at |-> checkedAt[i], facts |-> facts[i]] # NoRow
    BY RowIsNotNoRow
  <2>3. Shape'
    BY <2>1 DEF Shape, Stages
  <2>4. ASSUME NEW j \in Incidents PROVE ClaimOf(j)'
    BY <2>1, <2>2 DEF Shape, ClaimOf, NoRow
  <2> QED
    BY <2>3, <2>4
<1>4. ASSUME NEW i \in Incidents, SendPatch(i) PROVE WriterInv'
  <2>1. /\ UNCHANGED <<preRow, finalRow>>
        /\ pc[i] = "claimed" /\ pc' = [pc EXCEPT ![i] = "applying"]
        /\ attempts' = attempts \/ attempts' = [attempts EXCEPT ![i] = @ + 1]
    BY <1>4 DEF SendPatch, Step, storeVars
  <2>2. attempts[i] = 0 /\ preRow[i] # NoRow
    BY <2>1 DEF ClaimOf
  <2>3. Shape'
    BY <2>1 DEF Shape, Stages
  <2>4. ASSUME NEW j \in Incidents PROVE ClaimOf(j)'
    BY <2>1, <2>2 DEF Shape, ClaimOf, NoRow
  <2> QED
    BY <2>3, <2>4
<1>5. ASSUME NEW i \in Incidents, Land(i) PROVE WriterInv'
  <2>1. UNCHANGED <<pc, preRow, finalRow, attempts>>
    BY <1>5 DEF Land, storeVars
  <2> QED
    BY <2>1 DEF Shape, ClaimOf, NoRow
<1>6. ASSUME NEW i \in Incidents, Settle(i) PROVE WriterInv'
  <2>1. /\ UNCHANGED <<preRow, finalRow, attempts>>
        /\ pc[i] = "applying" /\ pc' = [pc EXCEPT ![i] = "settled"]
    BY <1>6 DEF Settle, Step, storeVars, prodVars
  <2> QED
    BY <2>1 DEF Shape, ClaimOf, Stages, NoRow
<1>7. ASSUME NEW i \in Incidents, InsertFinal(i) PROVE WriterInv'
  <2>1. /\ UNCHANGED <<preRow, attempts>>
        /\ pc' = [pc EXCEPT ![i] = "ended"]
        /\ \E r \in {"applied", "unapplied"} : finalRow' = [finalRow EXCEPT ![i] = r]
    BY <1>7 DEF InsertFinal, Step, prodVars
  <2> QED
    BY <2>1 DEF Shape, ClaimOf, Stages, NoRow
<1> QED
  BY <1>1, <1>2, <1>3, <1>4, <1>5, <1>6, <1>7 DEF Next

THEOREM WriterInvariant == Spec => []WriterInv
  BY WriterInvInit, WriterInvNext, PTL DEF Spec

(* However often an incident's run dies and is run again, its plan is sent *)
(* to production at most once.                                             *)
THEOREM IncidentMutatesOnce == Spec => []MutatesOnce
<1>1. WriterInv => MutatesOnce
  BY DEF WriterInv, ClaimOf, MutatesOnce
<1> QED
  BY <1>1, WriterInvariant, PTL

(* A run at work on production is among the active runs of the store.      *)
THEOREM ClaimIsVisible == Spec => []ClaimVisible
<1>1. WriterInv => ClaimVisible
  BY DEF WriterInv, ClaimOf, ClaimVisible, ActiveRuns, Claims
<1> QED
  BY <1>1, WriterInvariant, PTL

-----------------------------------------------------------------------------
(***************************************************************************)
(* OverlapNeedsRace.  A claim that was in the table when the facts were    *)
(* read is among the active runs of those facts or its run has finished;   *)
(* the facts of whoever claims have passed K5; and they are the facts that *)
(* its row keeps.                                                          *)
(***************************************************************************)
FactsShape ==
    /\ now \in Times
    /\ checkedAt \in [Incidents -> Times]
    /\ facts \in [Incidents -> Facts]
    /\ preRow \in [Incidents -> PreRows \cup {NoRow}]
    /\ patch \in [Incidents -> {"none", "inflight", "landed"}]

Told(f, i) == \A j \in f.k5Table \ {i} : j \in f.active \/ finalRow[j] # "none"

Passed(f, i) == Targets[i] \cap InFlightTargets(f) = {}

FactsOf(i) ==
    /\ Told(facts[i], i)
    /\ pc[i] \in {"verified", "authorised"} => Passed(facts[i], i)
    /\ preRow[i] # NoRow => Told(preRow[i].facts, i) /\ Passed(preRow[i].facts, i)
    /\ patch[i] = "inflight" => preRow[i] # NoRow

RaceInv == FactsShape /\ \A i \in Incidents : FactsOf(i)

LEMMA NoFactsType == NoFacts \in Facts /\ \A i : Told(NoFacts, i)
<1>1. 0 \in Times
  BY ParametersAssumption DEF Times
<1> QED
  BY <1>1 DEF NoFacts, Facts, Told

LEMMA RaceInvInit == Init => RaceInv
<1> SUFFICES ASSUME Init PROVE RaceInv
  OBVIOUS
<1>1. now \in Times
  BY ParametersAssumption DEF Init, Times
<1>2. FactsShape
  BY <1>1, NoFactsType DEF Init, FactsShape
<1>3. ASSUME NEW i \in Incidents PROVE FactsOf(i)
  BY NoFactsType DEF Init, FactsOf
<1> QED
  BY <1>2, <1>3 DEF RaceInv

(* Final rows stay, so what a run was told stays true.                     *)
LEMMA FinalRowsStay ==
    ASSUME WriterInv, [Next]_vars
    PROVE  \A j \in Incidents : finalRow[j] # "none" => finalRow'[j] # "none"
<1>1. CASE UNCHANGED finalRow
  BY <1>1
<1>2. ASSUME NEW i \in Incidents, InsertFinal(i)
      PROVE  \A j \in Incidents : finalRow[j] # "none" => finalRow'[j] # "none"
  BY <1>2 DEF InsertFinal, WriterInv, Shape
<1> QED
  BY <1>1, <1>2
     DEF Next, StartRun, ReadActiveRuns, CountMutations, Verify, Authorise,
         InsertPreActuation, SendPatch, Land, Settle, Unwind, EndUnrecorded, Crash, Rerun,
         Tick, Ended, vars, storeVars

LEMMA CheckedAtType ==
    ASSUME RaceInv, [Next]_vars
    PROVE  checkedAt' \in [Incidents -> Times]
<1>1. checkedAt \in [Incidents -> Times] /\ now \in Times /\ 0 \in Times
  BY ParametersAssumption DEF RaceInv, FactsShape, Times
<1>2. \/ checkedAt' = checkedAt
      \/ \E i \in Incidents, t \in {now, 0} : checkedAt' = [checkedAt EXCEPT ![i] = t]
  BY DEF Next, StartRun, ReadActiveRuns, CountMutations, Verify, Authorise,
         InsertPreActuation, SendPatch, Land, Settle, Unwind, InsertFinal, EndUnrecorded,
         Crash, Rerun, Tick, Ended, vars, runVars, Forget
<1> QED
  BY <1>1, <1>2

(* A step of run i that leaves the table's claims and the patches alone,   *)
(* and leaves run i with facts that it was rightly told and, if verified,  *)
(* that passed.                                                            *)
LEMMA FactsMove ==
    ASSUME WriterInv, RaceInv, [Next]_vars, NEW i \in Incidents, NEW f \in Facts, NEW to,
           facts' = [facts EXCEPT ![i] = f], pc' = [pc EXCEPT ![i] = to],
           preRow' = preRow, patch' = patch, now' = now,
           checkedAt' \in [Incidents -> Times],
           Told(f, i)', to \in {"verified", "authorised"} => Passed(f, i)
    PROVE  RaceInv'
<1>1. FactsShape'
  BY DEF RaceInv, FactsShape
<1>2. ASSUME NEW j \in Incidents PROVE FactsOf(j)'
  <2>1. FactsOf(j)
    BY DEF RaceInv
  <2>2. Told(facts[j], j)' /\ (preRow[j] # NoRow => Told(preRow[j].facts, j)')
    <3>1. \A g \in Facts : Told(g, j) => Told(g, j)'
      BY FinalRowsStay DEF Told, Facts
    <3>2. facts'[j] = IF j = i THEN f ELSE facts[j]
      BY DEF RaceInv, FactsShape
    <3>3. facts[j] \in Facts /\ (preRow[j] # NoRow => preRow[j].facts \in Facts)
      BY DEF RaceInv, FactsShape, PreRows
    <3>4. Told(facts[j], j)'
      <4>1. CASE j = i
        BY <3>2, <4>1 DEF Told
      <4>2. CASE j # i
        BY <3>1, <3>2, <3>3, <2>1, <4>2 DEF FactsOf, Told
      <4> QED
        BY <4>1, <4>2
    <3>5. preRow[j] # NoRow => Told(preRow[j].facts, j)'
      BY <3>1, <3>3, <2>1 DEF FactsOf, Told
    <3> QED
      BY <3>4, <3>5
  <2>3. pc'[j] \in {"verified", "authorised"} => Passed(facts'[j], j)
    BY <2>1 DEF RaceInv, FactsShape, FactsOf, WriterInv, Shape
  <2> QED
    BY <2>1, <2>2, <2>3 DEF FactsOf, Told, Passed, InFlightTargets, NoRow
<1> QED
  BY <1>1, <1>2 DEF RaceInv

(* A step that leaves facts and table alone keeps what was told and passed.*)
LEMMA FactsStay ==
    ASSUME WriterInv, RaceInv, [Next]_vars, now' \in Times,
           checkedAt' \in [Incidents -> Times],
           facts' = facts, preRow' = preRow,
           patch' \in [Incidents -> {"none", "inflight", "landed"}],
           \A j \in Incidents :
              /\ pc'[j] \in {"verified", "authorised"} => Passed(facts[j], j)
              /\ patch'[j] = "inflight" => preRow[j] # NoRow
    PROVE  RaceInv'
<1>1. FactsShape'
  BY DEF RaceInv, FactsShape
<1>2. ASSUME NEW j \in Incidents PROVE FactsOf(j)'
  <2>1. FactsOf(j) /\ facts[j] \in Facts /\ (preRow[j] # NoRow => preRow[j].facts \in Facts)
    BY DEF RaceInv, FactsShape, PreRows
  <2>2. \A g \in Facts : Told(g, j) => Told(g, j)'
    BY FinalRowsStay DEF Told, Facts
  <2>3. Told(facts[j], j)' /\ (preRow[j] # NoRow => Told(preRow[j].facts, j)')
    BY <2>1, <2>2 DEF FactsOf, Told
  <2> QED
    BY <2>1, <2>3 DEF FactsOf, Told, Passed, InFlightTargets, NoRow
<1> QED
  BY <1>1, <1>2 DEF RaceInv

LEMMA RaceInvNext ==
    ASSUME WriterInv, RaceInv, [Next]_vars
    PROVE  RaceInv'
<1> USE DEF storeVars, prodVars, runVars
<1> checkedAt' \in [Incidents -> Times]
  BY CheckedAtType
<1>1. /\ now \in Times /\ facts \in [Incidents -> Facts]
      /\ patch \in [Incidents -> {"none", "inflight", "landed"}]
      /\ pc \in [Incidents -> Stages]
      /\ \A j \in Incidents :
            /\ pc[j] \in {"verified", "authorised"} => Passed(facts[j], j)
            /\ patch[j] = "inflight" => preRow[j] # NoRow
            /\ facts[j] \in Facts /\ Told(facts[j], j)
  BY DEF RaceInv, FactsShape, FactsOf, WriterInv, Shape
<1>2. CASE UNCHANGED vars \/ Tick \/ Ended
  <2>1. now' \in Times
    BY <1>1, <1>2, ParametersAssumption DEF vars, Tick, Ended, Times
  <2>2. UNCHANGED <<pc, facts, preRow, patch>>
    BY <1>2 DEF vars, Tick, Ended
  <2> QED
    BY <2>1, <2>2, <1>1, FactsStay
<1>3. ASSUME NEW i \in Incidents,
             StartRun(i) \/ Rerun(i) \/ EndUnrecorded(i) \/ Settle(i)
      PROVE  RaceInv'
  <2>1. /\ UNCHANGED <<now, facts, preRow, patch>>
        /\ \E to \in {"planned", "ended", "settled"} : pc' = [pc EXCEPT ![i] = to]
    BY <1>3 DEF StartRun, Rerun, EndUnrecorded, Settle, Step
  <2> QED
    BY <2>1, <1>1, FactsStay
<1>4. ASSUME NEW i \in Incidents, ReadActiveRuns(i) PROVE RaceInv'
  <2>1. PICK f : f = [NoFacts EXCEPT !.at = now, !.active = ActiveRuns \ {i},
                                     !.k5Table = Claims]
    OBVIOUS
  <2>2. f \in Facts /\ f.k5Table = Claims /\ f.active = ActiveRuns \ {i}
    BY <1>1, <2>1, NoFactsType DEF Facts, ActiveRuns, Claims
  <2>3. finalRow' = finalRow
    BY <1>4 DEF ReadActiveRuns
  <2>4. Told(f, i)'
    BY <2>2, <2>3 DEF Told, ActiveRuns
  <2>5. /\ facts' = [facts EXCEPT ![i] = f] /\ pc' = [pc EXCEPT ![i] = "reading"]
        /\ UNCHANGED <<now, preRow, patch>>
    BY <1>4, <2>1 DEF ReadActiveRuns, Step
  <2> QED
    BY <2>2, <2>4, <2>5, FactsMove
<1>5. ASSUME NEW i \in Incidents, CountMutations(i) PROVE RaceInv'
  <2>1. PICK counted \in SUBSET RowKeys : counted = MutationsSince(WindowStart(facts[i].at))
    <3>1. \A j \in Incidents : <<"pre", j>> \in RowKeys /\ <<"final", j>> \in RowKeys
      BY DEF RowKeys
    <3> QED
      BY <3>1 DEF MutationsSince, Claims
  <2>2. PICK claims \in SUBSET Incidents : claims = Claims
    BY DEF Claims
  <2>3. PICK f : f = [facts[i] EXCEPT !.counted = counted, !.k7Table = claims]
    OBVIOUS
  <2>4. f \in Facts /\ f.k5Table = facts[i].k5Table /\ f.active = facts[i].active
    <3>1. \A g \in Facts : LET h == [g EXCEPT !.counted = counted, !.k7Table = claims]
                           IN  h \in Facts /\ h.k5Table = g.k5Table /\ h.active = g.active
      BY DEF Facts
    <3> QED
      BY <1>1, <2>3, <3>1
  <2>5. finalRow' = finalRow
    BY <1>5 DEF CountMutations
  <2>6. Told(f, i)'
    BY <1>1, <2>4, <2>5 DEF Told
  <2>7. /\ facts' = [facts EXCEPT ![i] = f] /\ pc' = [pc EXCEPT ![i] = "facts"]
        /\ UNCHANGED <<now, preRow, patch>>
    BY <1>1, <1>5, <2>1, <2>2, <2>3 DEF CountMutations, Step
  <2> QED
    BY <2>4, <2>6, <2>7, FactsMove
<1>6. ASSUME NEW i \in Incidents, Verify(i) \/ Authorise(i) PROVE RaceInv'
  <2>1. /\ UNCHANGED <<now, facts, preRow, patch>> /\ Passed(facts[i], i)
        /\ \E to \in {"verified", "authorised"} : pc' = [pc EXCEPT ![i] = to]
    BY <1>1, <1>6 DEF Verify, Authorise, Step, K5SingleWriter, Passed
  <2> QED
    BY <2>1, <1>1, FactsStay
<1>7. ASSUME NEW i \in Incidents, Unwind(i) \/ Crash(i) \/ InsertFinal(i) PROVE RaceInv'
  <2>1. /\ facts' = [facts EXCEPT ![i] = NoFacts]
        /\ UNCHANGED <<now, preRow, patch>>
        /\ \E to \in {"closing", "crashed", "ended"} : pc' = [pc EXCEPT ![i] = to]
    BY <1>7 DEF Unwind, Crash, InsertFinal, Step, Forget
  <2>2. Told(NoFacts, i)'
    BY DEF Told, NoFacts
  <2> QED
    BY <2>1, <2>2, NoFactsType, FactsMove
<1>8. ASSUME NEW i \in Incidents, SendPatch(i) \/ Land(i) PROVE RaceInv'
  <2>1. /\ UNCHANGED <<now, facts, preRow>>
        /\ \/ pc' = pc
           \/ pc' = [pc EXCEPT ![i] = "applying"]
        /\ \/ patch' = patch
           \/ \E p \in {"landed", "none"} : patch' = [patch EXCEPT ![i] = p]
           \/ patch' = [patch EXCEPT ![i] = "inflight"] /\ pc[i] = "claimed"
    BY <1>8 DEF SendPatch, Land, Step
  <2>2. pc[i] = "claimed" => preRow[i] # NoRow
    BY DEF WriterInv, ClaimOf
  <2> QED
    BY <2>1, <2>2, <1>1, FactsStay
<1>9. ASSUME NEW i \in Incidents, InsertPreActuation(i) PROVE RaceInv'
  <2>1. PICK r : r = [at |-> checkedAt[i], facts |-> facts[i]]
    OBVIOUS
  <2>2. /\ preRow' = [preRow EXCEPT ![i] = r] /\ pc[i] = "authorised"
        /\ UNCHANGED <<now, finalRow, patch>>
        /\ \/ pc' = [pc EXCEPT ![i] = "claimed"] /\ facts' = facts
           \/ pc' = [pc EXCEPT ![i] = "closing"] /\ facts' = [facts EXCEPT ![i] = NoFacts]
    BY <1>9, <2>1 DEF InsertPreActuation, Step, Forget
  <2>3. r \in PreRows /\ r # NoRow /\ r.facts = facts[i]
    BY <1>1, <2>1, RowIsNotNoRow DEF PreRows, RaceInv, FactsShape
  <2>4. FactsShape'
    BY <2>2, <2>3, NoFactsType DEF RaceInv, FactsShape
  <2>5. ASSUME NEW j \in Incidents PROVE FactsOf(j)'
    <3>1. FactsOf(j)
      BY DEF RaceInv
    <3>2. facts'[j] \in {facts[j], NoFacts} /\ preRow'[j] = IF j = i THEN r ELSE preRow[j]
      BY <1>1, <2>2 DEF RaceInv, FactsShape
    <3>3. Told(facts[j], j)'
      BY <3>1, <3>2, <2>2, NoFactsType DEF FactsOf, Told, NoFacts
    <3>4. preRow'[j] # NoRow => Told(preRow[j].facts, j)' /\ Passed(preRow[j].facts, j)'
      <4>1. CASE j = i
        BY <4>1, <3>2, <2>2, <2>3, <1>1 DEF Told, Passed, InFlightTargets
      <4>2. CASE j # i
        BY <4>2, <3>1, <3>2, <2>2 DEF FactsOf, Told, Passed, InFlightTargets
      <4> QED
        BY <4>1, <4>2
    <3>5. pc'[j] \in {"verified", "authorised"} => Passed(facts[j], j)'
      BY <2>2, <1>1 DEF Passed, InFlightTargets
    <3>6. patch'[j] = "inflight" => preRow'[j] # NoRow
      BY <2>2, <2>3, <3>1, <3>2 DEF FactsOf
    <3> QED
      BY <3>3, <3>4, <3>5, <3>6 DEF FactsOf, NoRow
  <2> QED
    BY <2>4, <2>5 DEF RaceInv
<1> QED
  BY <1>2, <1>3, <1>4, <1>5, <1>6, <1>7, <1>8, <1>9 DEF Next

(* Two patches to one resource are in flight together only by the race or  *)
(* the abandonment that OverlapNeedsRace names.                            *)
THEOREM OverlapIsRaced == Spec => []OverlapNeedsRace
<1>1. RaceInv => OverlapNeedsRace
  <2> SUFFICES ASSUME RaceInv, NEW i \in Incidents, NEW j \in Incidents,
                      i # j, patch[i] = "inflight", patch[j] = "inflight",
                      Targets[i] \cap Targets[j] # {},
                      finalRow[i] = "none", finalRow[j] = "none"
               PROVE  /\ i \notin preRow[j].facts.k5Table
                      /\ j \notin preRow[i].facts.k5Table
    BY DEF OverlapNeedsRace
  <2>1. ASSUME NEW a \in Incidents, NEW b \in Incidents, a # b, finalRow[a] = "none",
               Told(preRow[b].facts, b), Passed(preRow[b].facts, b),
               Targets[a] \cap Targets[b] # {}
        PROVE  a \notin preRow[b].facts.k5Table
    BY <2>1 DEF Told, Passed, InFlightTargets
  <2>2. FactsOf(i) /\ FactsOf(j)
    BY DEF RaceInv
  <2> QED
    BY <2>1, <2>2 DEF FactsOf
<1> QED
  BY <1>1, RaceInvInit, RaceInvNext, WriterInvariant, PTL DEF Spec

-----------------------------------------------------------------------------
(***************************************************************************)
(* OverBudgetNeedsRace.  A claim that was in the table when the mutations  *)
(* were counted is among the counted ones, unless it is older than the     *)
(* window; and the tables are nested: whoever sees a claim sees also what  *)
(* that claim had seen.  So, without a race, one of the authorised has seen*)
(* all the others, has counted them, and had room for itself.              *)
(***************************************************************************)
Counts(f) ==
    \A j \in f.k7Table : preRow[j].at >= WindowStart(f.at) => <<"pre", j>> \in f.counted

Nested(f) ==
    f.k7Table \subseteq Claims /\ \A j \in f.k7Table : preRow[j].facts.k7Table \subseteq f.k7Table

Seen(f) == Counts(f) /\ Nested(f)

HasRoom(f) == Cardinality(f.counted) + 1 <= Budget

BudgetOf(i) ==
    /\ Seen(facts[i]) /\ facts[i].at <= now
    /\ pc[i] \in {"verified", "authorised"} => HasRoom(facts[i])
    /\ pc[i] = "authorised" => facts[i].at <= checkedAt[i]
    /\ preRow[i] # NoRow =>
          /\ Seen(preRow[i].facts) /\ HasRoom(preRow[i].facts)
          /\ preRow[i].facts.at <= preRow[i].at
          /\ i \notin preRow[i].facts.k7Table

BudgetInv ==
    /\ startedAt \in [Incidents -> Times] /\ evaluatedAt \in [Incidents -> Times]
    /\ \A i \in Incidents : BudgetOf(i)

LEMMA SeenNothing == Seen(NoFacts)
  BY DEF Seen, Counts, Nested, NoFacts

LEMMA BudgetInvInit == Init => BudgetInv
<1> SUFFICES ASSUME Init PROVE BudgetInv
  OBVIOUS
<1>1. 0 \in Times /\ 0 <= 0
  BY ParametersAssumption DEF Times
<1> QED
  BY <1>1, SeenNothing DEF Init, BudgetInv, BudgetOf, NoFacts

(* The table is append-only: a claim stays as it was inserted.             *)
LEMMA ClaimsStay ==
    ASSUME WriterInv, [Next]_vars
    PROVE  \A j \in Claims : j \in Claims' /\ preRow'[j] = preRow[j]
<1>1. CASE UNCHANGED preRow
  BY <1>1 DEF Claims, NoRow
<1>2. ASSUME NEW i \in Incidents, InsertPreActuation(i)
      PROVE  \A j \in Claims : j \in Claims' /\ preRow'[j] = preRow[j]
  <2>1. PICK r : preRow[i] = NoRow /\ preRow' = [preRow EXCEPT ![i] = r]
    BY <1>2 DEF InsertPreActuation
  <2> QED
    BY <2>1 DEF WriterInv, Shape, Claims, NoRow
<1> QED
  BY <1>1, <1>2
     DEF Next, StartRun, ReadActiveRuns, CountMutations, Verify, Authorise,
         SendPatch, Land, Settle, Unwind, InsertFinal, EndUnrecorded, Crash, Rerun,
         Tick, Ended, vars, storeVars

LEMMA SeenStays ==
    ASSUME WriterInv, [Next]_vars, NEW f, Seen(f)
    PROVE  Seen(f)'
<1>1. \A j \in f.k7Table : j \in Claims' /\ preRow'[j] = preRow[j]
  BY ClaimsStay DEF Seen, Nested
<1> QED
  BY <1>1 DEF Seen, Counts, Nested, WindowStart

(* A step that inserts no claim, and gives nobody new facts without what   *)
(* the table then holds.                                                   *)
LEMMA BudgetMove ==
    ASSUME WriterInv, RaceInv, BudgetInv, [Next]_vars, RaceInv',
           preRow' = preRow, now <= now',
           startedAt' \in [Incidents -> Times], evaluatedAt' \in [Incidents -> Times],
           \A j \in Incidents :
              /\ facts'[j] = facts[j] \/ (Seen(facts[j])' /\ facts'[j].at <= now')
              /\ pc'[j] \in {"verified", "authorised"} =>
                    facts'[j] = facts[j] /\ HasRoom(facts[j])
              /\ pc'[j] = "authorised" => facts[j].at <= checkedAt'[j]
    PROVE  BudgetInv'
<1> SUFFICES ASSUME NEW j \in Incidents PROVE BudgetOf(j)'
  BY DEF BudgetInv
<1>1. BudgetOf(j) /\ facts[j].at \in Nat /\ now \in Nat /\ now' \in Nat
  BY DEF BudgetInv, RaceInv, FactsShape, Facts, Times
<1>2. \A f : Seen(f) => Seen(f)'
  BY SeenStays
<1>3. Seen(facts[j])' /\ facts'[j].at <= now'
  <2>1. Seen(facts[j]) /\ facts[j].at <= now'
    BY <1>1 DEF BudgetOf
  <2>2. CASE facts'[j] = facts[j]
    <3>1. PICK f : f = facts[j]
      OBVIOUS
    <3>2. Seen(f)' /\ f = facts'[j]
      BY <1>2, <2>1, <2>2, <3>1
    <3> QED
      BY <2>1, <2>2, <3>2 DEF Seen, Counts, Nested
  <2> QED
    BY <2>2
<1>4. pc'[j] \in {"verified", "authorised"} => HasRoom(facts[j])'
  BY DEF HasRoom
<1>5. pc'[j] = "authorised" => facts'[j].at <= checkedAt'[j]
  OBVIOUS
<1>6. ASSUME preRow[j] # NoRow
      PROVE  Seen(preRow[j].facts)' /\ HasRoom(preRow[j].facts)'
  <2>1. PICK f : f = preRow[j].facts
    OBVIOUS
  <2>2. Seen(f)' /\ HasRoom(f) /\ f = preRow'[j].facts
    BY <1>1, <1>2, <1>6, <2>1 DEF BudgetOf
  <2> QED
    BY <2>2 DEF Seen, Counts, Nested, HasRoom
<1>7. preRow[j] # NoRow =>
          preRow[j].facts.at <= preRow[j].at /\ j \notin preRow[j].facts.k7Table
  BY <1>1 DEF BudgetOf
<1> QED
  BY <1>3, <1>4, <1>5, <1>6, <1>7 DEF BudgetOf, NoRow

LEMMA BudgetTypes ==
    ASSUME RaceInv, BudgetInv, [Next]_vars
    PROVE  startedAt' \in [Incidents -> Times] /\ evaluatedAt' \in [Incidents -> Times]
<1>1. now \in Times /\ 0 \in Times
  BY ParametersAssumption DEF RaceInv, FactsShape, Times
<1>2. /\ \/ startedAt' = startedAt
         \/ \E i \in Incidents : startedAt' = [startedAt EXCEPT ![i] = now]
      /\ \/ evaluatedAt' = evaluatedAt
         \/ \E i \in Incidents, t \in {now, 0} : evaluatedAt' = [evaluatedAt EXCEPT ![i] = t]
  BY DEF Next, StartRun, ReadActiveRuns, CountMutations, Verify, Authorise,
         InsertPreActuation, SendPatch, Land, Settle, Unwind, InsertFinal, EndUnrecorded,
         Crash, Rerun, Tick, Ended, vars, runVars, Forget
<1> QED
  BY <1>1, <1>2 DEF BudgetInv

LEMMA BudgetInvNext ==
    ASSUME WriterInv, RaceInv, BudgetInv, [Next]_vars
    PROVE  BudgetInv'
<1> USE DEF storeVars, prodVars, runVars
<1> DEFINE Room(j) ==
              /\ pc[j] \in {"verified", "authorised"} => HasRoom(facts[j])
              /\ pc[j] = "authorised" => facts[j].at <= checkedAt[j]
<1>1. RaceInv' /\ startedAt' \in [Incidents -> Times] /\ evaluatedAt' \in [Incidents -> Times]
  BY RaceInvNext, BudgetTypes
<1>2. /\ now \in Nat /\ facts \in [Incidents -> Facts] /\ checkedAt \in [Incidents -> Times]
      /\ pc \in [Incidents -> Stages] /\ preRow \in [Incidents -> PreRows \cup {NoRow}]
      /\ \A j \in Incidents : Room(j) /\ facts[j].at <= now
  BY DEF RaceInv, FactsShape, WriterInv, Shape, BudgetInv, BudgetOf, Times
<1> HIDE DEF Room
<1>3. CASE UNCHANGED vars \/ Tick \/ Ended
  <2>1. now <= now' /\ UNCHANGED <<pc, facts, checkedAt, preRow>>
    BY <1>2, <1>3 DEF vars, Tick, Ended
  <2> QED
    BY <2>1, <1>1, <1>2, BudgetMove DEF Room
<1>4. ASSUME NEW i \in Incidents,
             \/ StartRun(i) \/ Rerun(i) \/ EndUnrecorded(i) \/ Settle(i) \/ SendPatch(i)
             \/ Land(i) \/ Verify(i) \/ Authorise(i)
      PROVE  BudgetInv'
  <2>1. /\ now' = now /\ facts' = facts /\ preRow' = preRow /\ now <= now'
        /\ \/ pc' = pc /\ checkedAt' = checkedAt
           \/ /\ checkedAt' = checkedAt
              /\ \E to \in {"planned", "ended", "settled", "applying"} :
                    pc' = [pc EXCEPT ![i] = to]
           \/ /\ pc' = [pc EXCEPT ![i] = "verified"] /\ checkedAt' = checkedAt
              /\ HasRoom(facts[i])
           \/ /\ pc[i] = "verified" /\ pc' = [pc EXCEPT ![i] = "authorised"]
              /\ checkedAt' = [checkedAt EXCEPT ![i] = now]
    BY <1>2, <1>4 DEF StartRun, Rerun, EndUnrecorded, Settle, SendPatch, Land, Verify,
                      Authorise, Step, K7MutationBudget, HasRoom
  <2>2. \A j \in Incidents :
              /\ pc'[j] \in {"verified", "authorised"} => HasRoom(facts[j])
              /\ pc'[j] = "authorised" => facts[j].at <= checkedAt'[j]
    BY <2>1, <1>2 DEF Room
  <2> QED
    BY <2>1, <2>2, <1>1, BudgetMove
<1>5. ASSUME NEW i \in Incidents,
             \/ ReadActiveRuns(i) \/ CountMutations(i)
             \/ Unwind(i) \/ Crash(i) \/ InsertFinal(i)
      PROVE  BudgetInv'
  <2>1. /\ now' = now /\ preRow' = preRow /\ now <= now'
        /\ \A j \in Incidents \ {i} : facts'[j] = facts[j] /\ pc'[j] = pc[j]
                                       /\ checkedAt'[j] = checkedAt[j]
        /\ pc'[i] \notin {"verified", "authorised"}
    BY <1>2, <1>5 DEF ReadActiveRuns, CountMutations, Unwind, Crash, InsertFinal, Step, Forget
  <2>2. Seen(facts[i])' /\ facts'[i].at <= now'
    <3>1. CASE Unwind(i) \/ Crash(i) \/ InsertFinal(i)
      <4>1. facts'[i] = NoFacts
        BY <1>2, <3>1 DEF Unwind, Crash, InsertFinal, Forget
      <4> QED
        BY <4>1, <2>1, <1>2 DEF Seen, Counts, Nested, NoFacts
    <3>2. CASE ReadActiveRuns(i)
      <4>1. facts'[i].at = now /\ facts'[i].k7Table = {}
        BY <1>2, <3>2 DEF ReadActiveRuns, NoFacts
      <4> QED
        BY <4>1, <2>1, <1>2 DEF Seen, Counts, Nested
    <3>3. CASE CountMutations(i)
      <4>1. PICK f \in Facts : f = facts[i] /\ f.at <= now
        BY <1>2
      <4>2. facts' = [facts EXCEPT ![i] = [f EXCEPT !.counted = MutationsSince(WindowStart(f.at)),
                                                    !.k7Table = Claims]]
        BY <1>2, <3>3, <4>1 DEF CountMutations
      <4>3. /\ facts'[i].at = f.at /\ facts'[i].k7Table = Claims
            /\ facts'[i].counted = MutationsSince(WindowStart(f.at))
        BY <1>2, <4>1, <4>2 DEF Facts
      <4>4. \A j \in Claims : preRow[j].at >= WindowStart(f.at)
                                => <<"pre", j>> \in MutationsSince(WindowStart(f.at))
        BY DEF MutationsSince
      <4>5. \A j \in Claims : preRow[j].facts.k7Table \subseteq Claims
        BY DEF BudgetInv, BudgetOf, Seen, Nested, Claims
      <4>6. Claims' = Claims
        BY <2>1 DEF Claims, NoRow
      <4>7. Counts(facts[i])'
        BY <4>3, <4>4, <2>1 DEF Counts, WindowStart
      <4>8. Nested(facts[i])'
        BY <4>3, <4>5, <4>6, <2>1 DEF Nested
      <4> QED
        BY <4>1, <4>3, <4>7, <4>8, <2>1 DEF Seen
    <3> QED
      BY <1>5, <3>1, <3>2, <3>3
  <2>3. ASSUME NEW j \in Incidents
        PROVE  /\ facts'[j] = facts[j] \/ (Seen(facts[j])' /\ facts'[j].at <= now')
               /\ pc'[j] \in {"verified", "authorised"} =>
                     facts'[j] = facts[j] /\ HasRoom(facts[j])
               /\ pc'[j] = "authorised" => facts[j].at <= checkedAt'[j]
    <3>1. CASE j = i
      BY <2>1, <2>2, <3>1
    <3>2. CASE j # i
      BY <2>1, <1>2, <3>2 DEF Room
    <3> QED
      BY <3>1, <3>2
  <2> QED
    BY <2>1, <2>3, <1>1, BudgetMove
<1>6. ASSUME NEW i \in Incidents, InsertPreActuation(i) PROVE BudgetInv'
  <2>1. PICK f \in Facts : /\ f = facts[i] /\ Seen(f) /\ HasRoom(f) /\ f.at <= checkedAt[i]
                           /\ i \notin f.k7Table
    <3>1. pc[i] = "authorised" /\ preRow[i] = NoRow
      BY <1>6 DEF InsertPreActuation, Step
    <3>2. facts[i] \in Facts /\ Seen(facts[i]) /\ Room(i) /\ i \notin Claims
      BY <1>2, <3>1 DEF BudgetInv, BudgetOf, Claims
    <3> QED
      BY <3>1, <3>2 DEF Room, Seen, Nested
  <2>2. /\ preRow' = [preRow EXCEPT ![i] = [at |-> checkedAt[i], facts |-> f]]
        /\ UNCHANGED <<now, startedAt>>
        /\ pc'[i] \notin {"verified", "authorised"}
        /\ facts'[i] \in {f, NoFacts}
        /\ \A j \in Incidents \ {i} : facts'[j] = facts[j] /\ pc'[j] = pc[j]
                                       /\ checkedAt'[j] = checkedAt[j]
    BY <1>2, <1>6, <2>1 DEF InsertPreActuation, Step, Forget
  <2>3. \A g : Seen(g) => Seen(g)'
    BY SeenStays
  <2>4. ASSUME NEW j \in Incidents PROVE BudgetOf(j)'
    <3>1. BudgetOf(j) /\ f.at <= now /\ NoFacts.at <= now
      BY <1>2, <2>1 DEF BudgetInv, BudgetOf, NoFacts
    <3>2. PICK g : g = facts'[j]
      OBVIOUS
    <3>3. Seen(g) /\ g.at <= now
      BY <2>1, <2>2, <3>1, <3>2, SeenNothing DEF BudgetOf
    <3>4. Seen(facts[j])' /\ facts'[j].at <= now'
      BY <2>2, <2>3, <3>2, <3>3 DEF Seen, Counts, Nested
    <3>5. /\ pc'[j] \in {"verified", "authorised"} => HasRoom(facts[j])'
          /\ pc'[j] = "authorised" => facts'[j].at <= checkedAt'[j]
      BY <2>2, <3>1 DEF BudgetOf, HasRoom
    <3>6. ASSUME preRow'[j] # NoRow
          PROVE  /\ Seen(preRow[j].facts)' /\ HasRoom(preRow[j].facts)'
                 /\ preRow'[j].facts.at <= preRow'[j].at
                 /\ j \notin preRow'[j].facts.k7Table
      <4>1. PICK h : h = preRow'[j].facts
        OBVIOUS
      <4>2. Seen(h) /\ HasRoom(h) /\ h.at <= preRow'[j].at /\ j \notin h.k7Table
        <5>1. CASE j = i
          <6>1. preRow'[j].facts = f /\ preRow'[j].at = checkedAt[i]
            BY <1>2, <2>2, <5>1
          <6> QED
            BY <2>1, <4>1, <5>1, <6>1
        <5>2. CASE j # i
          <6>1. preRow'[j] = preRow[j]
            BY <1>2, <2>2, <5>2
          <6> QED
            BY <3>1, <3>6, <4>1, <6>1 DEF BudgetOf
        <5> QED
          BY <5>1, <5>2
      <4> QED
        BY <2>3, <4>1, <4>2 DEF Seen, Counts, Nested, HasRoom
    <3> QED
      BY <3>4, <3>5, <3>6 DEF BudgetOf, NoRow
  <2> QED
    BY <1>1, <2>4 DEF BudgetInv
<1> QED
  BY <1>3, <1>4, <1>5, <1>6 DEF Next

(* Of finitely many incidents with claims, one has seen the most.          *)
LEMMA OneHasSeenMost ==
    ASSUME NEW A, NEW S, IsFiniteSet(S), NEW seen, \A i \in A : seen[i] \in SUBSET S,
           A # {}
    PROVE  \E j \in A : \A i \in A : ~ (seen[j] \subseteq seen[i] /\ seen[j] # seen[i])
<1> DEFINE T == {Cardinality(S \ seen[i]) : i \in A}
<1>1. \A i \in A : IsFiniteSet(S \ seen[i]) /\ Cardinality(S \ seen[i]) \in Nat
  BY FS_Subset, FS_CardinalityType
<1>2. PICK n \in T : \A m \in T : ~ (<<m, n>> \in OpToRel(<, Nat))
  <2>1. T \subseteq Nat /\ T # {}
    BY <1>1
  <2> HIDE DEF T
  <2> QED
    BY <2>1, WFMin, NatLessThanWellFounded
<1>3. PICK j \in A : n = Cardinality(S \ seen[j])
  OBVIOUS
<1>4. ASSUME NEW i \in A, seen[j] \subseteq seen[i], seen[j] # seen[i] PROVE FALSE
  <2>1. S \ seen[i] \subseteq S \ seen[j] /\ S \ seen[i] # S \ seen[j]
    BY <1>4
  <2>2. Cardinality(S \ seen[i]) < Cardinality(S \ seen[j])
    BY <1>1, <2>1, FS_Subset
  <2>3. Cardinality(S \ seen[i]) \in T
    OBVIOUS
  <2> QED
    BY <1>1, <1>2, <1>3, <2>2, <2>3 DEF OpToRel
<1> QED
  BY <1>4

(* More mutations are authorised in a window than the budget allows only if*)
(* two of them were counted before either was claimed.                     *)
THEOREM OverBudgetIsRaced == Spec => []OverBudgetNeedsRace
<1>1. WriterInv /\ RaceInv /\ BudgetInv => OverBudgetNeedsRace
  <2> SUFFICES ASSUME WriterInv, RaceInv, BudgetInv PROVE OverBudgetNeedsRace
    OBVIOUS
  <2>1. TypeOK
    BY DEF TypeOK, WriterInv, Shape, RaceInv, FactsShape, BudgetInv
  <2>2. ASSUME NEW t \in Times,
               \A i, j \in AuthorisedIn(t) :
                  i # j => \/ i \in preRow[j].facts.k7Table
                           \/ j \in preRow[i].facts.k7Table
        PROVE  Cardinality(AuthorisedIn(t)) <= Budget
    <3> DEFINE A == AuthorisedIn(t)
               seen == [i \in A |-> preRow[i].facts.k7Table]
    <3>1. IsFiniteSet(A) /\ Cardinality(A) \in Nat
      BY FS_Subset, FS_CardinalityType, ParametersAssumption DEF AuthorisedIn
    <3>2. CASE A = {}
      BY <3>2, FS_EmptySet, ParametersAssumption
    <3>3. CASE A # {}
      <4>1. \A i \in A : /\ preRow[i] # NoRow /\ i \in Incidents /\ BudgetOf(i)
                         /\ preRow[i] \in PreRows /\ preRow[i].facts \in Facts
                         /\ preRow[i].at \in t .. (t + Window)
        BY DEF AuthorisedIn, WriterInv, Shape, ClaimOf, RaceInv, FactsShape, BudgetInv, PreRows
      <4>2. \A i \in A : seen[i] \in SUBSET Incidents
        BY <4>1 DEF Facts
      <4>3. PICK j \in A : \A i \in A : ~ (seen[j] \subseteq seen[i] /\ seen[j] # seen[i])
        <5> HIDE DEF A, seen
        <5> QED
          BY <3>3, <4>2, OneHasSeenMost, ParametersAssumption
      <4>4. \A i \in A \ {j} : i \in seen[j]
        <5> SUFFICES ASSUME NEW i \in A, i # j, j \in preRow[i].facts.k7Table PROVE FALSE
          BY <2>2
        <5>1. preRow[j].facts.k7Table \subseteq preRow[i].facts.k7Table
          BY <4>1 DEF BudgetOf, Seen, Nested
        <5>2. j \notin preRow[j].facts.k7Table
          BY <4>1 DEF BudgetOf
        <5> QED
          BY <4>3, <5>1, <5>2
      <4> DEFINE f == preRow[j].facts
      <4>5. WindowStart(f.at) <= t
        <5>1. f.at \in Nat /\ preRow[j].at \in Nat /\ f.at <= preRow[j].at
              /\ preRow[j].at <= t + Window /\ t \in Nat /\ Window \in Nat
          BY <4>1, ParametersAssumption DEF BudgetOf, Facts, PreRows, Times
        <5> QED
          BY <5>1 DEF WindowStart
      <4>6. \A i \in A \ {j} : <<"pre", i>> \in f.counted
        <5>1. WindowStart(f.at) \in Nat
          BY <4>1, ParametersAssumption DEF Facts, Times, WindowStart
        <5>2. \A i \in A : preRow[i].at >= WindowStart(f.at)
          BY <4>1, <4>5, <5>1 DEF Times
        <5> QED
          BY <4>1, <4>4, <5>2 DEF BudgetOf, Seen, Counts
      <4>7. IsFiniteSet(f.counted) /\ Cardinality(f.counted) \in Nat
        <5>1. IsFiniteSet({"pre", "final"})
          <6>1. IsFiniteSet({"pre"} \cup {"final"})
            BY FS_Singleton, FS_AddElement
          <6>2. {"pre", "final"} = {"pre"} \cup {"final"}
            OBVIOUS
          <6> QED
            BY <6>1, <6>2
        <5>2. IsFiniteSet(RowKeys)
          BY <5>1, FS_Product, ParametersAssumption DEF RowKeys
        <5>3. f.counted \in SUBSET RowKeys
          BY <4>1 DEF Facts
        <5> QED
          BY <5>2, <5>3, FS_Subset, FS_CardinalityType
      <4>8. Cardinality(A \ {j}) <= Cardinality(f.counted)
        <5> DEFINE key == [i \in A \ {j} |-> <<"pre", i>>]
        <5>1. key \in Injection(A \ {j}, f.counted)
          BY <4>6 DEF Injection, IsInjective
        <5> QED
          BY <4>7, <5>1, FS_Injection
      <4>9. Cardinality(A \ {j}) = Cardinality(A) - 1
        BY <3>1, FS_RemoveElement
      <4>10. Cardinality(f.counted) + 1 <= Budget
        BY <4>1 DEF BudgetOf, HasRoom
      <4> QED
        BY <3>1, <4>7, <4>8, <4>9, <4>10, ParametersAssumption
    <3> QED
      BY <3>2, <3>3
  <2>3. \A t \in Times : Cardinality(AuthorisedIn(t)) \in Nat /\ Budget \in Nat
    BY FS_Subset, FS_CardinalityType, ParametersAssumption DEF AuthorisedIn
  <2> QED
    BY <2>1, <2>2, <2>3 DEF OverBudgetNeedsRace
<1> QED
  BY <1>1, RaceInvInit, RaceInvNext, BudgetInvInit, BudgetInvNext, WriterInvariant, PTL DEF Spec
=============================================================================
