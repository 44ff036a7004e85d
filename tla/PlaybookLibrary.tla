--------------------------- MODULE PlaybookLibrary ---------------------------
(***************************************************************************)
(* How incidents use the playbook library and add to it (src/understudy/   *)
(* playbook, the nodes plan_candidates and record_run, the playbook store).*)
(* Incidents run concurrently in several processes on one table; nothing   *)
(* makes the signature unique, and the look-up by signature and the insert *)
(* that follows it are two transactions with a call of a language model in *)
(* between.  A signature text is a member of Signatures, a plan's action   *)
(* and parameters a member of Plans; a learned playbook is named by the    *)
(* run, or the command of the operator, that wrote it (new_playbook_id is  *)
(* fresh), a seeded one by its id in the seed file.                        *)
(***************************************************************************)
EXTENDS Integers, FiniteSets, FiniteSetsExt

CONSTANTS
  Runs,         \* the incidents, each with one run id
  Writes,       \* the operator's `ust playbook write` commands
  Signatures,
  Plans,
  Seeds,        \* playbook ids of the seed file
  TopK,         \* match_playbook's top_k
  MaxSeedings,  \* bound: how often the operator loads the seed file
  MaxCrashes,   \* bound: crashes in or after record_run
  NoPlaybook

ASSUME LibraryAssumption ==
  /\ Runs \cap Writes = {} /\ (Runs \cup Writes) \cap Seeds = {}
  /\ NoPlaybook \notin Runs \cup Writes \cup Seeds
  /\ TopK \in Nat \ {0} /\ MaxSeedings \in Nat /\ MaxCrashes \in Nat

VARIABLES
  library,   \* the table of playbooks: a function on the ids it holds
  run,       \* per run or command: where it is, its signature, the plan and
             \* its playbook, and the run id it writes as evidence
  rows,      \* the runs whose row is in the append-only table
  seen,      \* history: the learned playbooks at the run's look-up
  seedings, crashes

vars == <<library, run, rows, seen, seedings, crashes>>

Writers == Runs \cup Writes

Ids == Writers \cup Seeds

Playbooks == [sig : Signatures, plan : Plans, evidence : SUBSET Runs,
              successes : Nat, failures : Nat]

Candidates == [plan : Plans, book : Ids \cup {NoPlaybook}]

Init ==
  /\ library = << >>
  /\ run \in [Writers -> [pc : {"start"}, sig : Signatures, cands : {{}},
                          plan : {NoPlaybook}, book : {NoPlaybook}, names : {NoPlaybook},
                          resolved : {FALSE}]]
  /\ rows = {}
  /\ seen = [w \in Writers |-> {}]
  /\ seedings = 0 /\ crashes = 0

Goto(r, pc) == run' = [run EXCEPT ![r].pc = pc]
-----------------------------------------------------------------------------
(* Retrieval and the merge with the planner's plans.                       *)

\* What the nearest-neighbour search may return: at most TopK rows.  The index
\* is approximate (HNSW), so that a playbook of the very signature may be
\* missed, and playbooks of others are always near enough to be returned.
Nearest == {hits \in SUBSET DOMAIN library : Cardinality(hits) <= TopK}

\* What the confirming model may answer: an id, one it invents included, or
\* none.
Answers == Ids \cup {NoPlaybook}

\* It retains one playbook of the hits or none; another id is taken for none.
Confirm(hits, answer) == IF answer \in hits THEN answer ELSE NoPlaybook

\* match_playbook: without hits the model is not asked, and the answer is none.
Retrieved == {Confirm(hits, answer) : hits \in Nearest, answer \in Answers}

\* The planner's plan that equals the playbook's takes its origin; without one
\* the playbook's plan joins as an extra candidate.
Merge(proposed, book) ==
  IF book = NoPlaybook
  THEN {[plan |-> p, book |-> NoPlaybook] : p \in proposed}
  ELSE {[plan |-> p, book |-> IF p = library[book].plan THEN book ELSE NoPlaybook] :
          p \in proposed \cup {library[book].plan}}

\* plan_candidates.  The planner's plans are any non-empty set
\* (module Planner).
PlanCandidates(r) ==
  /\ run[r].pc = "start"
  /\ \E proposed \in SUBSET Plans \ {{}} :
       \E book \in Retrieved :
         run' = [run EXCEPT ![r].pc = "act", ![r].cands = Merge(proposed, book)]
  /\ UNCHANGED <<library, rows, seen, seedings, crashes>>

\* A PlaybookError of the embedding or of the confirmation: no playbook.
RetrievalFails(r) ==
  /\ run[r].pc = "start"
  /\ \E proposed \in SUBSET Plans \ {{}} :
       run' = [run EXCEPT ![r].pc = "act",
                          ![r].cands = Merge(proposed, NoPlaybook)]
  /\ UNCHANGED <<library, rows, seen, seedings, crashes>>

\* Any other error of the retrieval, a refused connection or a timeout of the
\* HTTP call among them, leaves the node, and the graph ends the incident.
RetrievalBreaks(r) ==
  /\ run[r].pc = "start"
  /\ Goto(r, "unplanned")
  /\ UNCHANGED <<library, rows, seen, seedings, crashes>>

\* The tournament, the kernel and the actuator: one candidate reaches
\* production and the incident is resolved or not.
Actuate(r) ==
  /\ run[r].pc = "act"
  /\ \E c \in run[r].cands, resolved \in BOOLEAN :
       run' = [run EXCEPT ![r].pc = "record", ![r].cands = {}, ![r].plan = c.plan,
                          ![r].book = c.book, ![r].names = r,
                          ![r].resolved = resolved]
  /\ UNCHANGED <<library, rows, seen, seedings, crashes>>

\* ust playbook write.  The operator gives a context, a plan that may name a
\* playbook, and a run id: nothing asks whether that run ended well, has
\* ended, or has written its playbook itself.
PlaybookWrite(w) ==
  /\ run[w].pc = "start"
  /\ \E plan \in Plans, book \in DOMAIN library \cup {NoPlaybook}, r \in Runs :
       run' = [run EXCEPT ![w].pc = "lookup", ![w].plan = plan, ![w].book = book,
                          ![w].names = r, ![w].resolved = TRUE]
  /\ UNCHANGED <<library, rows, seen, seedings, crashes>>
-----------------------------------------------------------------------------
(* record_run and write_playbook.                                          *)

\* A plausible bug: the row is written with an upsert, as the playbooks are.
RecordRow_Upserts(r) ==
  /\ run[r].pc = "record"
  /\ rows' = rows \cup {r}
  /\ Goto(r, IF run[r].resolved THEN "lookup"
             ELSE IF run[r].book # NoPlaybook THEN "blame" ELSE "done")
  /\ UNCHANGED <<library, seen, seedings, crashes>>

\* The row is inserted first; a second insert of the same run is refused and
\* the error leaves the node before the library is touched.
RecordRow(r) ==
  /\ run[r].pc = "record"
  /\ IF r \in rows
     THEN Goto(r, "broken") /\ UNCHANGED rows
     ELSE /\ rows' = rows \cup {r}
          /\ Goto(r, IF run[r].resolved THEN "lookup"
                     ELSE IF run[r].book # NoPlaybook THEN "blame" ELSE "done")
  /\ UNCHANGED <<library, seen, seedings, crashes>>

GetPlaybook(id) == {library[p] : p \in DOMAIN library \cap {id}}

WithSignature(sig) == {p \in DOMAIN library : library[p].sig = sig}

\* A plausible bug: only the playbook that the plan names is looked up.
LookUp_ByIdOnly(r) ==
  /\ run[r].pc = "lookup"
  /\ Goto(r, IF run[r].book \in DOMAIN library THEN "credit" ELSE "embed")
  /\ seen' = [seen EXCEPT ![r] = DOMAIN library \ Seeds]
  /\ UNCHANGED <<library, rows, seedings, crashes>>

\* get_playbook_by_signature: two rows with the text raise.  Without a row
\* the run falls to the playbook its plan came from, and then to a new one.
LookUp(r) ==
  /\ run[r].pc = "lookup"
  /\ LET found == WithSignature(run[r].sig)
     IN  CASE Cardinality(found) > 1 -> Goto(r, "broken")
           [] Cardinality(found) = 1 ->
                run' = [run EXCEPT ![r].pc = "credit",
                                   ![r].book = CHOOSE p \in found : TRUE]
           [] OTHER ->
                Goto(r, IF GetPlaybook(run[r].book) # {} THEN "credit" ELSE "embed")
  /\ seen' = [seen EXCEPT ![r] = DOMAIN library \ Seeds]
  /\ UNCHANGED <<library, rows, seedings, crashes>>

\* The embedding of a new playbook: a PlaybookEmbeddingError falls back to the
\* hash, any other error ends the node.  The command has no embedder.
Embed(r) ==
  /\ run[r].pc = "embed"
  /\ \/ Goto(r, "save")
     \/ r \in Runs /\ Goto(r, "broken")
  /\ UNCHANGED <<library, rows, seen, seedings, crashes>>

\* A plausible bug: the update sets every column of the insert.
Upserted_Resets(id, book) ==
  [p \in DOMAIN library \cup {id} |-> IF p = id THEN book ELSE library[p]]

\* save_playbook: an upsert by id that keeps the counters of a row it finds.
Upserted(id, book) ==
  [p \in DOMAIN library \cup {id} |->
     IF p # id THEN library[p]
     ELSE IF id \notin DOMAIN library THEN book
     ELSE [book EXCEPT !.successes = library[id].successes,
                       !.failures = library[id].failures]]

Save(r) ==
  /\ run[r].pc = "save"
  /\ library' = Upserted(r, [sig |-> run[r].sig, plan |-> run[r].plan,
                             evidence |-> {run[r].names}, successes |-> 1,
                             failures |-> 0])
  /\ Goto(r, "done")
  /\ UNCHANGED <<rows, seen, seedings, crashes>>

\* The counter always moves, the run id is appended unless it is there.
IncrementCounter(id, success, r) ==
  [library EXCEPT ![id].successes = IF success THEN @ + 1 ELSE @,
                  ![id].failures = IF success THEN @ ELSE @ + 1,
                  ![id].evidence = @ \cup {r}]

\* increment_success and increment_failure.
Credit(r) ==
  /\ run[r].pc = "credit"
  /\ library' = IncrementCounter(run[r].book, TRUE, run[r].names)
  /\ Goto(r, "done")
  /\ UNCHANGED <<rows, seen, seedings, crashes>>

Blame(r) ==
  /\ run[r].pc = "blame"
  /\ library' = IncrementCounter(run[r].book, FALSE, r)
  /\ Goto(r, "done")
  /\ UNCHANGED <<rows, seen, seedings, crashes>>

\* The process dies inside record_run, or after it and before the checkpoint
\* of the node: the resumed graph starts the node again.
Crash(r) ==
  /\ run[r].pc \in {"lookup", "credit", "embed", "save", "blame", "done"}
  /\ crashes < MaxCrashes /\ crashes' = crashes + 1
  /\ Goto(r, "record")
  /\ UNCHANGED <<library, rows, seen, seedings>>

\* ust playbook seed.
Seed(s) ==
  /\ seedings < MaxSeedings
  /\ seedings' = seedings + 1
  /\ \E sig \in Signatures, plan \in Plans :
       library' = Upserted(s, [sig |-> sig, plan |-> plan, evidence |-> {},
                               successes |-> 0, failures |-> 0])
  /\ UNCHANGED <<run, rows, seen, crashes>>

Next ==
  \/ \E r \in Runs :
       \/ PlanCandidates(r) \/ RetrievalFails(r) \/ RetrievalBreaks(r)
       \/ Actuate(r) \/ RecordRow(r) \/ Blame(r) \/ Crash(r)
  \/ \E w \in Writes : PlaybookWrite(w)
  \/ \E w \in Writers : LookUp(w) \/ Embed(w) \/ Save(w) \/ Credit(w)
  \/ \E s \in Seeds : Seed(s)

Spec == Init /\ [][Next]_vars
-----------------------------------------------------------------------------
(* Properties.                                                             *)

\* The variables keep their shapes, the library holds only ids that a run, a
\* command or the seed file gave, and who credits or blames a playbook finds it.
TypeOK ==
  /\ DOMAIN library \subseteq Ids /\ \A p \in DOMAIN library : library[p] \in Playbooks
  /\ \A w \in Writers :
       /\ run[w].cands \subseteq Candidates
       /\ run[w].pc \in {"credit", "blame"} => run[w].book \in DOMAIN library
  /\ rows \subseteq Runs /\ seen \in [Writers -> SUBSET Writers]
  /\ seedings \in 0..MaxSeedings /\ crashes \in 0..MaxCrashes

Resolved(r) == run[r].resolved

\* The commands of the operator that have written, the playbooks they wrote
\* to, and the runs they wrote for.
Written == {w \in Writes : run[w].pc = "done"}
TouchedByHand == {IF run[w].book = NoPlaybook THEN w ELSE run[w].book : w \in Written}
NamedByHand == {run[w].names : w \in Written}

\* The counters tell what happened (write_playbook, record_run, playbook_write):
\* a learned playbook has one success per resolved run in its evidence and one
\* failure per other, no run is evidence of two, and over the whole library,
\* seeded playbooks included, no run that ended well is counted twice, whatever
\* crashes and however the node is started again, and each that ran to its end
\* is counted.  (One that died between its row and its playbook write is not:
\* the row it left keeps the write from being tried again.)  Only a command of
\* the operator disturbs this, by one success each and in the playbook and for
\* the run it wrote: it counts a run that counts itself.
CountedOnce ==
  LET total == MapThenSumSet(LAMBDA p : library[p].successes, DOMAIN library)
      own   == total - Cardinality(Written)
  IN  /\ TypeOK
      /\ \A p \in DOMAIN library \ (Seeds \cup TouchedByHand) :
           /\ library[p].successes = Cardinality({r \in library[p].evidence : Resolved(r)})
           /\ library[p].failures = Cardinality({r \in library[p].evidence : ~ Resolved(r)})
      /\ \A p, q \in DOMAIN library :
           p # q => library[p].evidence \cap library[q].evidence \subseteq NamedByHand
      /\ own <= Cardinality({r \in rows : Resolved(r)})
      /\ own >= Cardinality({r \in rows : Resolved(r) /\ run[r].pc = "done"})

\* Two learned playbooks share a signature only if each was written by a run or
\* a command that looked before the other was in the library: the window between the
\* look-up and the insert is the only way to a signature that raises on every
\* later look-up (write_playbook, get_playbook_by_signature).
DuplicateNeedsRace ==
  \A p, q \in DOMAIN library \ Seeds :
    p # q /\ library[p].sig = library[q].sig => p \notin seen[q] /\ q \notin seen[p]

\* Nothing forgets: no step, the loading of a seed file again included, takes
\* a playbook away, lowers one of its counters, or takes a resolved run from
\* the evidence of a learned playbook (save_playbook's upsert).
NothingForgotten ==
  [][\A p \in DOMAIN library :
       /\ p \in DOMAIN library'
       /\ library'[p].successes >= library[p].successes
       /\ library'[p].failures >= library[p].failures
       /\ p \notin Seeds => library[p].evidence \subseteq library'[p].evidence]_vars

=============================================================================
