------------------------ MODULE PlaybookLibraryProofs ------------------------
(***************************************************************************)
(* What the playbook library keeps and tells, for any number of incidents, *)
(* commands, signatures and plans, and any crashes and seedings.           *)
(***************************************************************************)
EXTENDS PlaybookLibrary, FiniteSetTheorems, WellFoundedInduction, TLAPS

USE LibraryAssumption DEF LibraryAssumption

Stages == {"start", "act", "record", "lookup", "embed", "save", "credit", "blame", "done",
           "broken", "unplanned"}

OptBook == DOMAIN library \cup {NoPlaybook}

RunTypes ==
  [pc : Stages, sig : Signatures, cands : SUBSET Candidates, plan : Plans \cup {NoPlaybook},
   book : Ids \cup {NoPlaybook}, names : Writers \cup {NoPlaybook}, resolved : BOOLEAN]

(* Every plan and every candidate names a playbook of the library or none, *)
(* and whoever counts for one has found it there.                          *)
BooksOf(w) ==
  /\ run[w].book \in OptBook /\ \A c \in run[w].cands : c.book \in OptBook
  /\ run[w].pc \in {"credit", "blame"} => run[w].book \in DOMAIN library
  /\ run[w].pc \in {"record", "lookup", "embed", "save", "credit", "blame", "done"} =>
        run[w].plan \in Plans /\ run[w].names \in Runs
  /\ w \in Writes =>
        run[w].pc \in {"start", "lookup", "embed", "save", "credit", "done", "broken"}

BooksInv ==
  /\ IsFiniteSet(DOMAIN library)
  /\ run \in [Writers -> RunTypes] /\ \A w \in Writers : BooksOf(w)

(* A run looks up only after its row, and so only once; before it has      *)
(* saved a playbook there is none of its name.                             *)
OnceInv ==
  /\ \A r \in Runs : run[r].pc \in {"lookup", "embed", "save", "credit", "blame", "done"} => r \in rows
  /\ \A w \in Writers :
       run[w].pc \in {"start", "act", "unplanned", "lookup", "embed", "save"}
       \/ (run[w].pc = "record" /\ w \notin rows)
       => w \notin DOMAIN library

(* What a run saw at its look-up is still there, and had another signature *)
(* if the run went on to write a playbook of its own.                      *)
SeenInv ==
  \A q \in Writers :
    /\ seen[q] \subseteq DOMAIN library \ Seeds
    /\ q \in DOMAIN library => library[q].sig = run[q].sig
    /\ q \in DOMAIN library \/ run[q].pc \in {"embed", "save"} =>
         \A p \in seen[q] : library[p].sig # run[q].sig

LibraryInv == TypeOK /\ BooksInv /\ OnceInv /\ SeenInv
-----------------------------------------------------------------------------
(* The upsert and the increment keep what is there.                        *)
Typed(f) == \A p \in DOMAIN f : f[p] \in Playbooks

(* An upsert adds a playbook, or keeps the counters of the one that is     *)
(* there.                                                                  *)
LEMMA UpsertedIs ==
  ASSUME Typed(library), NEW id \in Ids, NEW book \in Playbooks
  PROVE  /\ DOMAIN Upserted(id, book) = DOMAIN library \cup {id}
         /\ \A p \in DOMAIN library \ {id} : Upserted(id, book)[p] = library[p]
         /\ id \notin DOMAIN library => Upserted(id, book)[id] = book
         /\ id \in DOMAIN library =>
               /\ Upserted(id, book)[id].successes = library[id].successes
               /\ Upserted(id, book)[id].failures = library[id].failures
         /\ Typed(Upserted(id, book))
<1> DEFINE new == Upserted(id, book)
<1>1. /\ DOMAIN new = DOMAIN library \cup {id}
      /\ \A p \in DOMAIN library \ {id} : new[p] = library[p]
      /\ id \notin DOMAIN library => new[id] = book
      /\ id \in DOMAIN library => new[id] = [book EXCEPT !.successes = library[id].successes,
                                                         !.failures = library[id].failures]
  BY DEF Upserted
<1> HIDE DEF new
<1>2. /\ new[id] \in Playbooks
      /\ id \in DOMAIN library =>
            new[id].successes = library[id].successes /\ new[id].failures = library[id].failures
  BY <1>1 DEF Typed, Playbooks
<1>3. /\ DOMAIN new = DOMAIN library \cup {id}
      /\ \A p \in DOMAIN library \ {id} : new[p] = library[p]
      /\ id \notin DOMAIN library => new[id] = book
  BY <1>1
<1>4. Typed(new)
  BY <1>2, <1>3 DEF Typed
<1> QED BY <1>2, <1>3, <1>4 DEF new

(* An increment moves one counter of one playbook and adds to its          *)
(* evidence.                                                               *)
LEMMA IncrementIs ==
  ASSUME Typed(library), NEW id \in DOMAIN library, NEW success \in BOOLEAN, NEW r \in Runs
  PROVE  LET new == IncrementCounter(id, success, r)
         IN  /\ DOMAIN new = DOMAIN library
             /\ \A p \in DOMAIN library \ {id} : new[p] = library[p]
             /\ new[id] \in Playbooks /\ new[id].sig = library[id].sig
             /\ new[id].evidence = library[id].evidence \cup {r}
             /\ success => /\ new[id].successes = library[id].successes + 1
                           /\ new[id].failures = library[id].failures
             /\ ~ success => /\ new[id].successes = library[id].successes
                             /\ new[id].failures = library[id].failures + 1
             /\ Typed(new)
<1> DEFINE new == IncrementCounter(id, success, r)
<1>1. /\ DOMAIN new = DOMAIN library
      /\ \A p \in DOMAIN library \ {id} : new[p] = library[p]
      /\ new[id] = [library[id] EXCEPT !.successes = IF success THEN @ + 1 ELSE @,
                                       !.failures = IF success THEN @ ELSE @ + 1,
                                       !.evidence = @ \cup {r}]
  BY DEF IncrementCounter
<1> HIDE DEF new
<1>2. library[id] \in Playbooks
  BY DEF Typed
<1>3. /\ new[id] \in Playbooks /\ new[id].sig = library[id].sig
      /\ new[id].evidence = library[id].evidence \cup {r}
      /\ success => /\ new[id].successes = library[id].successes + 1
                    /\ new[id].failures = library[id].failures
      /\ ~ success => /\ new[id].successes = library[id].successes
                      /\ new[id].failures = library[id].failures + 1
  <2> DEFINE old == library[id]
             val == new[id]
  <2>3. old \in Playbooks
    BY <1>2
  <2>4. /\ old.evidence \cup {r} \in SUBSET Runs
        /\ old.successes + 1 \in Nat /\ old.failures + 1 \in Nat
    BY <2>3 DEF Playbooks
  <2>1. CASE success
    <3>1. val = [old EXCEPT !.successes = @ + 1, !.evidence = @ \cup {r}]
      BY <1>1, <1>2, <2>1 DEF Playbooks
    <3> HIDE DEF old, val
    <3>2. val \in Playbooks
      BY <2>3, <2>4, <3>1 DEF Playbooks
    <3>3. /\ val.sig = old.sig /\ val.evidence = old.evidence \cup {r}
          /\ val.successes = old.successes + 1 /\ val.failures = old.failures
      BY <2>3, <3>1 DEF Playbooks
    <3> QED BY <2>1, <3>2, <3>3 DEF old, val
  <2>2. CASE ~ success
    <3>1. val = [old EXCEPT !.failures = @ + 1, !.evidence = @ \cup {r}]
      BY <1>1, <1>2, <2>2 DEF Playbooks
    <3> HIDE DEF old, val
    <3>2. val \in Playbooks
      BY <2>3, <2>4, <3>1 DEF Playbooks
    <3>3. /\ val.sig = old.sig /\ val.evidence = old.evidence \cup {r}
          /\ val.successes = old.successes /\ val.failures = old.failures + 1
      BY <2>3, <3>1 DEF Playbooks
    <3> QED BY <2>2, <3>2, <3>3 DEF old, val
  <2> QED BY <2>1, <2>2
<1>4. DOMAIN new = DOMAIN library /\ \A p \in DOMAIN library \ {id} : new[p] = library[p]
  BY <1>1
<1>5. Typed(new)
  BY <1>3, <1>4 DEF Typed
<1> QED BY <1>3, <1>4, <1>5 DEF new

(* What a step may do to the library.                                      *)
Grown ==
  /\ DOMAIN library \subseteq DOMAIN library'
  /\ DOMAIN library' \subseteq Ids /\ IsFiniteSet(DOMAIN library')
  /\ Typed(library')
  /\ \A p \in DOMAIN library :
       /\ library'[p].successes >= library[p].successes
       /\ library'[p].failures >= library[p].failures
       /\ p \notin Seeds =>
            library'[p].sig = library[p].sig /\ library[p].evidence \subseteq library'[p].evidence

(* Saving adds a playbook that was not there.                              *)
LEMMA SaveGrows ==
  ASSUME LibraryInv, NEW r \in Writers, Save(r)
  PROVE  /\ Grown
         /\ DOMAIN library' = DOMAIN library \cup {r}
         /\ library'[r].sig = run[r].sig
<1> DEFINE book == [sig |-> run[r].sig, plan |-> run[r].plan,
                    evidence |-> {run[r].names}, successes |-> 1, failures |-> 0]
<1>1. run[r] \in RunTypes /\ run[r].plan \in Plans /\ run[r].names \in Runs
  BY DEF LibraryInv, BooksInv, BooksOf, Save
<1>2. book \in Playbooks
  BY <1>1 DEF Playbooks, RunTypes
<1>3. r \in Ids /\ r \notin DOMAIN library
  BY DEF LibraryInv, OnceInv, Save, Ids
<1>4. library' = Upserted(r, book)
  BY DEF Save
<1> HIDE DEF book
<1>5. /\ DOMAIN library' = DOMAIN library \cup {r}
      /\ \A p \in DOMAIN library : library'[p] = library[p]
      /\ library'[r] = book
      /\ Typed(library')
  <2>1. Typed(library)
    BY DEF LibraryInv, TypeOK, Typed
  <2> QED BY <1>2, <1>3, <1>4, <2>1, UpsertedIs
<1>6. \A p \in DOMAIN library : library[p] \in Playbooks /\ p \in Ids
  BY DEF LibraryInv, TypeOK
<1>7. library'[r].sig = run[r].sig
  BY <1>5 DEF book
<1>8. IsFiniteSet(DOMAIN library')
  BY <1>5, FS_AddElement DEF LibraryInv, BooksInv
<1>9. Grown
  BY <1>3, <1>5, <1>6, <1>8 DEF Grown, Typed, Playbooks
<1> QED BY <1>5, <1>7, <1>9

(* Crediting or blaming takes nothing away.                                *)
LEMMA CountingGrows ==
  ASSUME LibraryInv, NEW id \in DOMAIN library, NEW success \in BOOLEAN, NEW r \in Runs,
         library' = IncrementCounter(id, success, r)
  PROVE  Grown /\ DOMAIN library' = DOMAIN library
<1>1. \A p \in DOMAIN library : library[p] \in Playbooks /\ p \in Ids
  BY DEF LibraryInv, TypeOK
<1>2. /\ DOMAIN library' = DOMAIN library
      /\ \A p \in DOMAIN library \ {id} : library'[p] = library[p]
      /\ library'[id].sig = library[id].sig
      /\ success => /\ library'[id].successes = library[id].successes + 1
                    /\ library'[id].failures = library[id].failures
      /\ ~ success => /\ library'[id].successes = library[id].successes
                      /\ library'[id].failures = library[id].failures + 1
      /\ library'[id].evidence = library[id].evidence \cup {r}
      /\ Typed(library')
  <2>1. Typed(library)
    BY <1>1 DEF Typed
  <2> QED BY <2>1, IncrementIs
<1>3. /\ library'[id].successes >= library[id].successes
      /\ library'[id].failures >= library[id].failures
  BY <1>1, <1>2 DEF Playbooks
<1> QED BY <1>1, <1>2, <1>3 DEF Grown, LibraryInv, BooksInv, Playbooks

(* Nor does loading the seed file again, of the counters.                  *)
LEMMA SeedGrows ==
  ASSUME LibraryInv, NEW s \in Seeds, Seed(s)
  PROVE  Grown /\ DOMAIN library' = DOMAIN library \cup {s}
<1>1. PICK sig \in Signatures, plan \in Plans :
        library' = Upserted(s, [sig |-> sig, plan |-> plan,
                                evidence |-> {}, successes |-> 0, failures |-> 0])
  BY DEF Seed
<1> DEFINE book == [sig |-> sig, plan |-> plan,
                    evidence |-> {}, successes |-> 0, failures |-> 0]
<1>2. book \in Playbooks /\ s \in Ids
  BY DEF Playbooks, Ids
<1>3. library' = Upserted(s, book)
  BY <1>1
<1> HIDE DEF book
<1>4. /\ DOMAIN library' = DOMAIN library \cup {s}
      /\ \A p \in DOMAIN library \ {s} : library'[p] = library[p]
      /\ s \in DOMAIN library =>
            /\ library'[s].successes = library[s].successes
            /\ library'[s].failures = library[s].failures
      /\ Typed(library')
  <2>1. Typed(library)
    BY DEF LibraryInv, TypeOK, Typed
  <2> QED BY <1>2, <1>3, <2>1, UpsertedIs
<1>5. \A p \in DOMAIN library : library[p] \in Playbooks /\ p \in Ids
  BY DEF LibraryInv, TypeOK
<1>6. IsFiniteSet(DOMAIN library')
  BY <1>4, FS_AddElement DEF LibraryInv, BooksInv
<1> QED BY <1>2, <1>4, <1>5, <1>6 DEF Grown, Typed, Playbooks

(* The library in any step.                                                *)
LEMMA LibraryGrows ==
  ASSUME LibraryInv, [Next]_vars
  PROVE  Grown
<1>1. CASE UNCHANGED library
  BY <1>1 DEF Grown, Typed, LibraryInv, BooksInv, TypeOK, Playbooks
<1>2. ASSUME NEW w \in Writers, Save(w)
      PROVE  Grown
  BY <1>2, SaveGrows
<1>3. ASSUME NEW w \in Writers, Credit(w)
      PROVE  Grown
  <2>1. run[w].book \in DOMAIN library /\ run[w].names \in Runs
    BY <1>3 DEF Credit, LibraryInv, BooksInv, BooksOf
  <2> QED BY <1>3, <2>1, CountingGrows DEF Credit
<1>4. ASSUME NEW r \in Runs, Blame(r)
      PROVE  Grown
  <2>1. run[r].book \in DOMAIN library
    BY <1>4 DEF Blame, LibraryInv, BooksInv, BooksOf, Writers
  <2> QED BY <1>4, <2>1, CountingGrows DEF Blame
<1>5. ASSUME NEW s \in Seeds, Seed(s)
      PROVE  Grown
  BY <1>5, SeedGrows
<1> QED
  BY <1>1, <1>2, <1>3, <1>4, <1>5
  DEF Next, vars, PlanCandidates, RetrievalFails, RetrievalBreaks, Actuate, RecordRow, Crash,
      PlaybookWrite, LookUp, Embed
-----------------------------------------------------------------------------
(* What a step does to the run that takes it.                              *)
Others(r) == run' \in [Writers -> RunTypes] /\ \A w \in Writers \ {r} : run'[w] = run[w]

(* A step that only moves on changes nothing else of its run.              *)
LEMMA GotoIs ==
  ASSUME BooksInv, NEW r \in Writers, NEW pc \in Stages, Goto(r, pc)
  PROVE  /\ Others(r) /\ run'[r].pc = pc /\ run'[r].sig = run[r].sig
         /\ run'[r].cands = run[r].cands /\ run'[r].plan = run[r].plan
         /\ run'[r].book = run[r].book /\ run'[r].names = run[r].names
         /\ run'[r].resolved = run[r].resolved
<1>1. run[r] \in RunTypes
  BY DEF BooksInv
<1>2. run'[r] = [run[r] EXCEPT !.pc = pc] /\ \A w \in Writers \ {r} : run'[w] = run[w]
  BY DEF Goto, BooksInv
<1>3. run'[r] \in RunTypes
  BY <1>1, <1>2 DEF RunTypes
<1>4. run' \in [Writers -> RunTypes]
  BY <1>3 DEF Goto, BooksInv
<1> QED BY <1>1, <1>2, <1>4 DEF Others, RunTypes

(* The ballot names only playbooks that were retrieved from the library.   *)
LEMMA PlanningIs ==
  ASSUME TypeOK, BooksInv, NEW r \in Runs, PlanCandidates(r) \/ RetrievalFails(r)
  PROVE  /\ Others(r) /\ run'[r].pc = "act" /\ run'[r].sig = run[r].sig
         /\ run'[r].book = run[r].book /\ \A c \in run'[r].cands : c.book \in OptBook
<1>1. r \in Writers /\ run[r] \in RunTypes
  BY DEF BooksInv, Writers
<1>2. PICK cands : /\ cands \subseteq Candidates /\ \A c \in cands : c.book \in OptBook
                   /\ run' = [run EXCEPT ![r].pc = "act", ![r].cands = cands]
  <2>1. ASSUME NEW proposed \in SUBSET Plans, NEW book \in OptBook
        PROVE  /\ Merge(proposed, book) \subseteq Candidates
               /\ \A c \in Merge(proposed, book) : c.book \in OptBook
    <3>1. OptBook \subseteq Ids \cup {NoPlaybook}
      BY DEF OptBook, TypeOK
    <3>2. book # NoPlaybook => library[book].plan \in Plans
      BY DEF OptBook, TypeOK, Playbooks
    <3>3. NoPlaybook \in OptBook
      BY DEF OptBook
    <3> QED BY <3>1, <3>2, <3>3 DEF Merge, Candidates
  <2>2. CASE PlanCandidates(r)
    <3>1. PICK proposed \in SUBSET Plans, book \in Retrieved :
            run' = [run EXCEPT ![r].pc = "act", ![r].cands = Merge(proposed, book)]
      BY <2>2 DEF PlanCandidates
    <3>2. book \in OptBook
      BY DEF Retrieved, Confirm, Nearest, OptBook
    <3> QED BY <2>1, <3>1, <3>2
  <2>3. CASE RetrievalFails(r)
    <3>1. PICK proposed \in SUBSET Plans :
            run' = [run EXCEPT ![r].pc = "act", ![r].cands = Merge(proposed, NoPlaybook)]
      BY <2>3 DEF RetrievalFails
    <3>2. NoPlaybook \in OptBook
      BY DEF OptBook
    <3> QED BY <2>1, <3>1, <3>2
  <2> QED BY <2>2, <2>3
<1>3. /\ run'[r] = [run[r] EXCEPT !.pc = "act", !.cands = cands]
      /\ \A w \in Writers \ {r} : run'[w] = run[w]
  BY <1>1, <1>2 DEF BooksInv
<1>4. run'[r] \in RunTypes
  <2>1. cands \in SUBSET Candidates /\ "act" \in Stages
    BY <1>2 DEF Stages
  <2> QED BY <1>1, <1>3, <2>1 DEF RunTypes
<1>5. run' \in [Writers -> RunTypes]
  BY <1>1, <1>2, <1>4 DEF BooksInv
<1>6. /\ run'[r].pc = "act" /\ run'[r].sig = run[r].sig
      /\ run'[r].book = run[r].book /\ run'[r].cands = cands
  BY <1>1, <1>3 DEF RunTypes
<1> QED BY <1>2, <1>3, <1>5, <1>6 DEF Others

(* What is executed is a candidate of the ballot.                          *)
LEMMA ActuateIs ==
  ASSUME TypeOK, BooksInv, NEW r \in Runs, Actuate(r)
  PROVE  /\ Others(r) /\ run'[r].pc = "record" /\ run'[r].sig = run[r].sig
         /\ run'[r].cands = {} /\ run'[r].plan \in Plans /\ run'[r].names = r
         /\ run'[r].book \in OptBook
<1>1. r \in Writers /\ run[r] \in RunTypes /\ BooksOf(r)
  BY DEF BooksInv, Writers
<1>2. PICK c \in run[r].cands, resolved \in BOOLEAN :
        run' = [run EXCEPT ![r].pc = "record", ![r].cands = {}, ![r].plan = c.plan,
                           ![r].book = c.book, ![r].names = r, ![r].resolved = resolved]
  BY DEF Actuate
<1>3. c.plan \in Plans /\ c.book \in OptBook /\ c.book \in Ids \cup {NoPlaybook}
  <2>1. c \in Candidates
    BY <1>1 DEF RunTypes
  <2> QED BY <1>1, <2>1 DEF BooksOf, Candidates
<1>4. /\ run'[r] = [run[r] EXCEPT !.pc = "record", !.cands = {}, !.plan = c.plan,
                                  !.book = c.book, !.names = r, !.resolved = resolved]
      /\ \A w \in Writers \ {r} : run'[w] = run[w]
  BY <1>1, <1>2 DEF BooksInv
<1>5. run'[r] \in RunTypes
  <2>1. {} \in SUBSET Candidates /\ "record" \in Stages
    BY DEF Stages
  <2> QED BY <1>1, <1>3, <1>4, <2>1 DEF RunTypes
<1>6. run' \in [Writers -> RunTypes]
  BY <1>1, <1>2, <1>5 DEF BooksInv
<1>7. /\ run'[r].pc = "record" /\ run'[r].sig = run[r].sig /\ run'[r].cands = {}
      /\ run'[r].plan = c.plan /\ run'[r].book = c.book /\ run'[r].names = r
  BY <1>1, <1>4 DEF RunTypes
<1> QED BY <1>3, <1>4, <1>6, <1>7 DEF Others

(* The operator names a playbook of the library or none.                   *)
LEMMA PlaybookWriteIs ==
  ASSUME TypeOK, BooksInv, NEW r \in Writes, PlaybookWrite(r)
  PROVE  /\ Others(r) /\ run'[r].pc = "lookup" /\ run'[r].sig = run[r].sig
         /\ run'[r].cands = run[r].cands /\ run'[r].plan \in Plans /\ run'[r].names \in Runs
         /\ run'[r].book \in OptBook
<1>1. r \in Writers /\ run[r] \in RunTypes
  BY DEF BooksInv, Writers
<1>2. PICK plan \in Plans, book \in OptBook, named \in Runs :
        run' = [run EXCEPT ![r].pc = "lookup", ![r].plan = plan, ![r].book = book,
                           ![r].names = named, ![r].resolved = TRUE]
  BY DEF PlaybookWrite, OptBook
<1>3. book \in Ids \cup {NoPlaybook} /\ named \in Writers
  BY DEF OptBook, TypeOK, Writers
<1>4. /\ run'[r] = [run[r] EXCEPT !.pc = "lookup", !.plan = plan, !.book = book,
                                  !.names = named, !.resolved = TRUE]
      /\ \A w \in Writers \ {r} : run'[w] = run[w]
  BY <1>1, <1>2 DEF BooksInv
<1>5. run'[r] \in RunTypes
  <2>1. "lookup" \in Stages
    BY DEF Stages
  <2> QED BY <1>1, <1>3, <1>4, <2>1 DEF RunTypes
<1>6. run' \in [Writers -> RunTypes]
  BY <1>1, <1>2, <1>5 DEF BooksInv
<1>7. /\ run'[r].pc = "lookup" /\ run'[r].sig = run[r].sig /\ run'[r].cands = run[r].cands
      /\ run'[r].plan = plan /\ run'[r].book = book /\ run'[r].names = named
  BY <1>1, <1>4 DEF RunTypes
<1> QED BY <1>4, <1>6, <1>7 DEF Others

(* The look-up finds one playbook of the signature, or falls to the one of *)
(* the plan, or to a new one if there is none.                             *)
LEMMA LookUpIs ==
  ASSUME TypeOK, BooksInv, NEW r \in Writers, LookUp(r)
  PROVE  /\ Others(r) /\ run'[r].pc \in {"broken", "credit", "embed"}
         /\ run'[r].sig = run[r].sig /\ run'[r].cands = run[r].cands
         /\ run'[r].plan = run[r].plan /\ run'[r].names = run[r].names
         /\ run'[r].resolved = run[r].resolved /\ run'[r].book \in OptBook
         /\ run'[r].pc = "credit" => run'[r].book \in DOMAIN library
         /\ run'[r].pc = "embed" => run'[r].book = NoPlaybook
         /\ run'[r].pc = "embed" => WithSignature(run[r].sig) = {}
<1> DEFINE found == WithSignature(run[r].sig)
<1>1. run[r] \in RunTypes /\ BooksOf(r) /\ {"broken", "credit", "embed"} \subseteq Stages
  BY DEF BooksInv, Stages
<1>2. CASE Cardinality(found) > 1
  <2>1. Goto(r, "broken")
    BY <1>2 DEF LookUp
  <2> QED BY <1>1, <2>1, GotoIs DEF BooksOf
<1>3. CASE Cardinality(found) = 1
  <2>1. PICK p \in found : run' = [run EXCEPT ![r].pc = "credit", ![r].book = p]
    <3>1. found # {}
      BY <1>3, FS_EmptySet
    <3>2. (CHOOSE p \in found : TRUE) \in found
      BY <3>1
    <3>3. run' = [run EXCEPT ![r].pc = "credit", ![r].book = CHOOSE p \in found : TRUE]
      BY <1>3 DEF LookUp
    <3> QED BY <3>2, <3>3
  <2>2. p \in DOMAIN library /\ p \in Ids /\ p \in OptBook
    BY DEF WithSignature, TypeOK, OptBook
  <2>3. /\ run'[r] = [run[r] EXCEPT !.pc = "credit", !.book = p]
        /\ \A w \in Writers \ {r} : run'[w] = run[w]
    BY <1>1, <2>1 DEF BooksInv
  <2>4. run'[r] \in RunTypes
    BY <1>1, <2>2, <2>3 DEF RunTypes
  <2>5. run' \in [Writers -> RunTypes]
    BY <1>1, <2>1, <2>4 DEF BooksInv
  <2>6. /\ run'[r].pc = "credit" /\ run'[r].sig = run[r].sig /\ run'[r].cands = run[r].cands
        /\ run'[r].plan = run[r].plan /\ run'[r].names = run[r].names /\ run'[r].book = p
        /\ run'[r].resolved = run[r].resolved
    BY <1>1, <2>3 DEF RunTypes
  <2> QED BY <2>2, <2>3, <2>5, <2>6 DEF Others
<1>4. CASE ~ (Cardinality(found) > 1) /\ Cardinality(found) # 1
  <2>1. Goto(r, IF GetPlaybook(run[r].book) # {} THEN "credit" ELSE "embed")
    BY <1>4 DEF LookUp
  <2>2. found = {}
    <3>1. found \subseteq DOMAIN library /\ IsFiniteSet(DOMAIN library)
      BY DEF WithSignature, BooksInv
    <3>2. IsFiniteSet(found)
      BY <3>1, FS_Subset
    <3>3. Cardinality(found) \in Nat
      BY <3>2, FS_CardinalityType
    <3>4. Cardinality(found) = 0
      BY <1>4, <3>3
    <3> QED BY <3>2, <3>4, FS_EmptySet
  <2>3. /\ GetPlaybook(run[r].book) # {} => run[r].book \in DOMAIN library
        /\ GetPlaybook(run[r].book) = {} => run[r].book = NoPlaybook
    BY <1>1 DEF GetPlaybook, BooksOf, OptBook
  <2> QED BY <1>1, <2>1, <2>2, <2>3, GotoIs DEF BooksOf
<1> QED BY <1>2, <1>3, <1>4

(* Embedding goes on or ends the node, and changes nothing else.           *)
LEMMA EmbedIs ==
  ASSUME TypeOK, BooksInv, NEW r \in Writers, Embed(r)
  PROVE  /\ Others(r) /\ run'[r].pc \in {"save", "broken"} /\ run'[r].sig = run[r].sig
         /\ run'[r].cands = run[r].cands /\ run'[r].plan = run[r].plan
         /\ run'[r].book = run[r].book /\ run'[r].names = run[r].names
         /\ run'[r].resolved = run[r].resolved
<1>1. {"save", "broken"} \subseteq Stages
  BY DEF Stages
<1>2. Goto(r, "save") \/ Goto(r, "broken")
  BY DEF Embed
<1> QED BY <1>1, <1>2, GotoIs
-----------------------------------------------------------------------------
(* Whatever a step does, what the other runs refer to stays.               *)
LEMMA BooksKept ==
  ASSUME BooksInv, Grown, NEW r \in Writers, Others(r), BooksOf(r)'
  PROVE  BooksInv'
<1>1. ASSUME NEW w \in Writers \ {r}
      PROVE  BooksOf(w)'
  <2>1. run'[w] = run[w] /\ BooksOf(w)
    BY DEF Others, BooksInv
  <2>2. DOMAIN library \subseteq DOMAIN library' /\ OptBook \subseteq OptBook'
    BY DEF Grown, OptBook
  <2> QED BY <2>1, <2>2 DEF BooksOf
<1> QED BY <1>1 DEF BooksInv, Others, Grown

(* Every step keeps BooksInv.                                              *)
LEMMA BooksNext ==
  ASSUME LibraryInv, [Next]_vars
  PROVE  BooksInv'
<1> USE DEF LibraryInv
<1>1. Grown
  BY LibraryGrows
<1>2. OptBook \subseteq OptBook' /\ DOMAIN library \subseteq DOMAIN library'
  BY <1>1 DEF Grown, OptBook
<1>3. \A w \in Writers : BooksOf(w)
  BY DEF BooksInv
<1>4. CASE UNCHANGED run
  <2>1. \A w \in Writers : BooksOf(w)'
    BY <1>2, <1>3, <1>4 DEF BooksOf
  <2> QED BY <1>1, <1>4, <2>1 DEF BooksInv, Grown
<1>5. ASSUME NEW r \in Runs, PlanCandidates(r) \/ RetrievalFails(r)
      PROVE  BooksInv'
  <2>1. BooksOf(r)'
    BY <1>2, <1>3, <1>5, PlanningIs DEF BooksOf, Writers
  <2> QED BY <1>1, <1>5, <2>1, PlanningIs, BooksKept DEF Writers
<1>6. ASSUME NEW r \in Runs, Actuate(r)
      PROVE  BooksInv'
  <2>1. BooksOf(r)'
    BY <1>2, <1>6, ActuateIs DEF BooksOf, Writers
  <2> QED BY <1>1, <1>6, <2>1, ActuateIs, BooksKept DEF Writers
<1>7. ASSUME NEW r \in Writes, PlaybookWrite(r)
      PROVE  BooksInv'
  <2>1. BooksOf(r)'
    BY <1>2, <1>3, <1>7, PlaybookWriteIs DEF BooksOf, Writers
  <2> QED BY <1>1, <1>7, <2>1, PlaybookWriteIs, BooksKept DEF Writers
<1>8. ASSUME NEW r \in Writers, LookUp(r)
      PROVE  BooksInv'
  <2>1. BooksOf(r)'
    BY <1>2, <1>3, <1>8, LookUpIs DEF BooksOf, LookUp
  <2> QED BY <1>1, <1>8, <2>1, LookUpIs, BooksKept
<1>9. ASSUME NEW r \in Writers, Embed(r)
      PROVE  BooksInv'
  <2>1. BooksOf(r)'
    BY <1>2, <1>3, <1>9, EmbedIs DEF BooksOf, Embed
  <2> QED BY <1>1, <1>9, <2>1, EmbedIs, BooksKept
<1>10. ASSUME NEW r \in Writers, NEW pc \in Stages, Goto(r, pc),
              pc \in {"credit", "blame"} => run[r].book \in DOMAIN library,
              pc \in {"record", "lookup", "embed", "save", "credit", "blame", "done"} =>
                 run[r].plan \in Plans /\ run[r].names \in Runs,
              r \in Writes => pc = "done"
       PROVE  BooksInv'
  <2>1. BooksOf(r)'
    BY <1>2, <1>3, <1>10, GotoIs DEF BooksOf
  <2> QED BY <1>1, <1>10, <2>1, GotoIs, BooksKept
<1>11. ASSUME NEW r \in Runs, RetrievalBreaks(r)
       PROVE  BooksInv'
  BY <1>10, <1>11 DEF RetrievalBreaks, Writers, Stages
<1>12. ASSUME NEW r \in Runs, RecordRow(r)
       PROVE  BooksInv'
  <2>1. PICK pc \in {"broken", "lookup", "blame", "done"} :
          Goto(r, pc) /\ (pc = "blame" => run[r].book # NoPlaybook)
    BY <1>12 DEF RecordRow
  <2>2. r \in Writers /\ pc \in Stages
    BY DEF Writers, Stages
  <2>3. /\ run[r].plan \in Plans /\ run[r].names \in Runs
        /\ pc \in {"credit", "blame"} => run[r].book \in DOMAIN library
    BY <1>3, <1>12, <2>1, <2>2 DEF RecordRow, BooksOf, OptBook
  <2> QED BY <1>10, <2>1, <2>2, <2>3
<1>13. ASSUME NEW r \in Runs, Blame(r) \/ Crash(r)
       PROVE  BooksInv'
  <2>1. r \in Writers /\ {"done", "record"} \subseteq Stages
    BY DEF Writers, Stages
  <2>2. run[r].plan \in Plans /\ run[r].names \in Runs
    BY <1>3, <1>13, <2>1 DEF Blame, Crash, BooksOf
  <2>3. Goto(r, "done") \/ Goto(r, "record")
    BY <1>13 DEF Blame, Crash
  <2> QED BY <1>10, <2>1, <2>2, <2>3
<1>14. ASSUME NEW r \in Writers, Save(r) \/ Credit(r)
       PROVE  BooksInv'
  <2>1. Goto(r, "done") /\ "done" \in Stages
    BY <1>14 DEF Save, Credit, Stages
  <2>2. run[r].plan \in Plans /\ run[r].names \in Runs
    BY <1>3, <1>14 DEF Save, Credit, BooksOf
  <2> QED BY <1>10, <2>1, <2>2
<1>15. ASSUME NEW s \in Seeds, Seed(s)
       PROVE  UNCHANGED run
  BY <1>15 DEF Seed
<1> QED
  BY <1>4, <1>5, <1>6, <1>7, <1>8, <1>9, <1>11, <1>12, <1>13, <1>14, <1>15 DEF Next, vars
-----------------------------------------------------------------------------
(* The ways a writer gets on in a step, in the order of the code.          *)
Stays(w) ==
  /\ run'[w].pc = run[w].pc /\ seen'[w] = seen[w]
  /\ w \in DOMAIN library' => w \in DOMAIN library

Proposes(w) ==
  /\ run[w].pc \in {"start", "act"} /\ seen'[w] = seen[w]
  /\ w \in DOMAIN library' => w \in DOMAIN library
  /\ \/ w \in Runs /\ run'[w].pc \in {"act", "unplanned", "record"}
     \/ w \in Writes /\ run'[w].pc = "lookup"

Records(w) ==
  /\ run[w].pc = "record" /\ w \in Runs /\ seen'[w] = seen[w]
  /\ w \in DOMAIN library' => w \in DOMAIN library
  /\ \/ w \in rows /\ run'[w].pc = "broken"
     \/ w \notin rows /\ w \in rows' /\ run'[w].pc \in {"lookup", "blame", "done"}

Looks(w) ==
  /\ run[w].pc = "lookup" /\ seen'[w] = DOMAIN library \ Seeds
  /\ w \in DOMAIN library' => w \in DOMAIN library
  /\ run'[w].pc \in {"broken", "credit", "embed"}
  /\ run'[w].pc = "embed" => WithSignature(run[w].sig) = {}

Embeds(w) ==
  /\ run[w].pc = "embed" /\ run'[w].pc \in {"save", "broken"} /\ seen'[w] = seen[w]
  /\ w \in DOMAIN library' => w \in DOMAIN library

Saves(w) ==
  /\ run[w].pc = "save" /\ run'[w].pc = "done" /\ seen'[w] = seen[w]
  /\ w \in DOMAIN library' /\ library'[w].sig = run[w].sig

Counts(w) ==
  /\ run[w].pc \in {"credit", "blame"} /\ run'[w].pc = "done" /\ seen'[w] = seen[w]
  /\ w \in DOMAIN library' => w \in DOMAIN library

Restarts(w) ==
  /\ w \in Runs /\ run[w].pc \in {"lookup", "embed", "save", "credit", "blame", "done"}
  /\ run'[w].pc = "record" /\ seen'[w] = seen[w]
  /\ w \in DOMAIN library' => w \in DOMAIN library

Moves(w) ==
  Stays(w) \/ Proposes(w) \/ Records(w) \/ Looks(w) \/ Embeds(w) \/ Saves(w) \/ Counts(w)
  \/ Restarts(w)

Progress ==
  /\ rows \subseteq rows'
  /\ \A w \in Writers : run'[w].sig = run[w].sig /\ Moves(w)

(* A step of one writer leaves the others where they are.                  *)
LEMMA OneMoves ==
  ASSUME NEW r \in Writers, Others(r), Moves(r), run'[r].sig = run[r].sig, rows \subseteq rows',
         \A w \in Writers \ {r} : seen'[w] = seen[w],
         DOMAIN library' \subseteq DOMAIN library \cup {r}
  PROVE  Progress
<1>1. ASSUME NEW w \in Writers \ {r}
      PROVE  run'[w].sig = run[w].sig /\ Stays(w)
  BY DEF Others, Stays
<1> QED BY <1>1 DEF Progress, Moves

(* Every step gets one writer on in one of these ways, or none.            *)
LEMMA Progresses ==
  ASSUME LibraryInv, [Next]_vars
  PROVE  Progress
<1> USE DEF LibraryInv
<1>1. \A w \in Writers : seen[w] = seen[w] /\ seen \in [Writers -> SUBSET Writers]
  BY DEF TypeOK
<1>2. CASE UNCHANGED <<library, run, rows, seen>>
  BY <1>2 DEF Progress, Moves, Stays
<1>3. ASSUME NEW r \in Runs, PlanCandidates(r) \/ RetrievalFails(r) \/ Actuate(r)
      PROVE  Progress
  <2>1. r \in Writers /\ UNCHANGED <<library, rows, seen>> /\ run[r].pc \in {"start", "act"}
    BY <1>3 DEF Writers, PlanCandidates, RetrievalFails, Actuate
  <2>2. Others(r) /\ run'[r].pc \in {"act", "record"} /\ run'[r].sig = run[r].sig
    BY <1>3, PlanningIs, ActuateIs
  <2>3. Proposes(r)
    BY <2>1, <2>2 DEF Proposes
  <2> QED BY <2>1, <2>2, <2>3, OneMoves DEF Moves
<1>4. ASSUME NEW r \in Runs, RetrievalBreaks(r)
      PROVE  Progress
  <2>1. /\ r \in Writers /\ UNCHANGED <<library, rows, seen>> /\ run[r].pc = "start"
        /\ "unplanned" \in Stages /\ Goto(r, "unplanned")
    BY <1>4 DEF Writers, Stages, RetrievalBreaks
  <2>2. Others(r) /\ run'[r].pc = "unplanned" /\ run'[r].sig = run[r].sig
    BY <2>1, GotoIs
  <2>3. Proposes(r)
    BY <2>1, <2>2 DEF Proposes
  <2> QED BY <2>1, <2>2, <2>3, OneMoves DEF Moves
<1>5. ASSUME NEW r \in Writes, PlaybookWrite(r)
      PROVE  Progress
  <2>1. r \in Writers /\ UNCHANGED <<library, rows, seen>> /\ run[r].pc = "start"
    BY <1>5 DEF Writers, PlaybookWrite
  <2>2. Others(r) /\ run'[r].pc = "lookup" /\ run'[r].sig = run[r].sig
    BY <1>5, PlaybookWriteIs
  <2>3. Proposes(r)
    BY <2>1, <2>2 DEF Proposes
  <2> QED BY <2>1, <2>2, <2>3, OneMoves DEF Moves
<1>6. ASSUME NEW r \in Runs, RecordRow(r)
      PROVE  Progress
  <2>1. r \in Writers /\ UNCHANGED <<library, seen>> /\ run[r].pc = "record"
    BY <1>6 DEF Writers, RecordRow
  <2>2. PICK pc \in {"broken", "lookup", "blame", "done"} :
          /\ Goto(r, pc) /\ rows \subseteq rows'
          /\ \/ r \in rows /\ pc = "broken"
             \/ r \notin rows /\ r \in rows' /\ pc # "broken"
    BY <1>6 DEF RecordRow
  <2>3. pc \in Stages
    BY DEF Stages
  <2>4. Others(r) /\ run'[r].pc = pc /\ run'[r].sig = run[r].sig
    BY <2>1, <2>2, <2>3, GotoIs
  <2>5. Records(r)
    BY <2>1, <2>2, <2>4 DEF Records
  <2> QED BY <2>1, <2>2, <2>4, <2>5, OneMoves DEF Moves
<1>7. ASSUME NEW r \in Writers, LookUp(r)
      PROVE  Progress
  <2>1. /\ UNCHANGED <<library, rows>> /\ run[r].pc = "lookup"
        /\ seen' = [seen EXCEPT ![r] = DOMAIN library \ Seeds]
    BY <1>7 DEF LookUp
  <2>2. /\ Others(r) /\ run'[r].pc \in {"broken", "credit", "embed"}
        /\ run'[r].sig = run[r].sig
        /\ run'[r].pc = "embed" => WithSignature(run[r].sig) = {}
    BY <1>7, LookUpIs
  <2>3. Looks(r) /\ \A w \in Writers \ {r} : seen'[w] = seen[w]
    BY <1>1, <2>1, <2>2 DEF Looks
  <2> QED BY <2>1, <2>2, <2>3, OneMoves DEF Moves
<1>8. ASSUME NEW r \in Writers, Embed(r)
      PROVE  Progress
  <2>1. UNCHANGED <<library, rows, seen>> /\ run[r].pc = "embed"
    BY <1>8 DEF Embed
  <2>2. Others(r) /\ run'[r].pc \in {"save", "broken"} /\ run'[r].sig = run[r].sig
    BY <1>8, EmbedIs
  <2>3. Embeds(r)
    BY <2>1, <2>2 DEF Embeds
  <2> QED BY <2>1, <2>2, <2>3, OneMoves DEF Moves
<1>9. ASSUME NEW r \in Writers, Save(r)
      PROVE  Progress
  <2>1. /\ UNCHANGED <<rows, seen>> /\ run[r].pc = "save" /\ Goto(r, "done")
        /\ "done" \in Stages
    BY <1>9 DEF Save, Stages
  <2>2. Others(r) /\ run'[r].pc = "done" /\ run'[r].sig = run[r].sig
    BY <2>1, GotoIs
  <2>3. DOMAIN library' = DOMAIN library \cup {r} /\ library'[r].sig = run[r].sig
    BY <1>9, SaveGrows
  <2>4. Saves(r)
    BY <2>1, <2>2, <2>3 DEF Saves
  <2> QED BY <2>1, <2>2, <2>3, <2>4, OneMoves DEF Moves
<1>10. ASSUME NEW r \in Writers, Credit(r) \/ (r \in Runs /\ Blame(r))
       PROVE  Progress
  <2>1. /\ UNCHANGED <<rows, seen>> /\ run[r].pc \in {"credit", "blame"} /\ Goto(r, "done")
        /\ "done" \in Stages
    BY <1>10 DEF Credit, Blame, Stages
  <2>2. Others(r) /\ run'[r].pc = "done" /\ run'[r].sig = run[r].sig
    BY <2>1, GotoIs
  <2>3. DOMAIN library' = DOMAIN library
    BY <1>10 DEF Credit, Blame, IncrementCounter
  <2>4. Counts(r)
    BY <2>1, <2>2, <2>3 DEF Counts
  <2> QED BY <2>1, <2>2, <2>3, <2>4, OneMoves DEF Moves
<1>11. ASSUME NEW r \in Runs, Crash(r)
       PROVE  Progress
  <2>1. /\ r \in Writers /\ UNCHANGED <<library, rows, seen>> /\ Goto(r, "record")
        /\ run[r].pc \in {"lookup", "embed", "save", "credit", "blame", "done"}
        /\ "record" \in Stages
    BY <1>11 DEF Writers, Crash, Stages
  <2>2. Others(r) /\ run'[r].pc = "record" /\ run'[r].sig = run[r].sig
    BY <2>1, GotoIs
  <2>3. Restarts(r)
    BY <2>1, <2>2 DEF Restarts
  <2> QED BY <2>1, <2>2, <2>3, OneMoves DEF Moves
<1>12. ASSUME NEW s \in Seeds, Seed(s)
       PROVE  Progress
  <2>1. UNCHANGED <<run, rows, seen>>
    BY <1>12 DEF Seed
  <2>2. DOMAIN library' = DOMAIN library \cup {s}
    BY <1>12, SeedGrows
  <2>3. \A w \in Writers : w # s
    BY DEF Writers
  <2> QED BY <2>1, <2>2, <2>3 DEF Progress, Moves, Stays
<1> QED
  BY <1>2, <1>3, <1>4, <1>5, <1>6, <1>7, <1>8, <1>9, <1>10, <1>11, <1>12
  DEF Next, vars, Writers
-----------------------------------------------------------------------------
(* A run that comes back after a crash finds its row, and so never looks   *)
(* up or saves twice.                                                      *)
LEMMA OnceNext ==
  ASSUME LibraryInv, [Next]_vars
  PROVE  OnceInv'
<1>1. OnceInv /\ Progress
  BY Progresses DEF LibraryInv
<1>2. Runs \subseteq Writers /\ Runs \cap Writes = {}
  BY DEF Writers
<1>3. ASSUME NEW r \in Runs,
             run'[r].pc \in {"lookup", "embed", "save", "credit", "blame", "done"}
      PROVE  r \in rows'
  BY <1>1, <1>2, <1>3 DEF OnceInv, Progress, Moves, Stays, Proposes, Records, Looks, Embeds,
                          Saves, Counts, Restarts
<1>4. ASSUME NEW w \in Writers,
             \/ run'[w].pc \in {"start", "act", "unplanned", "lookup", "embed", "save"}
             \/ run'[w].pc = "record" /\ w \notin rows'
      PROVE  w \notin DOMAIN library'
  BY <1>1, <1>2, <1>4 DEF OnceInv, Progress, Moves, Stays, Proposes, Records, Looks, Embeds,
                          Saves, Counts, Restarts
<1> QED BY <1>3, <1>4 DEF OnceInv

(* The look-up and the insert are apart, but signatures do not change.     *)
LEMMA SeenNext ==
  ASSUME LibraryInv, [Next]_vars
  PROVE  SeenInv'
<1>1. OnceInv /\ SeenInv /\ Progress /\ Grown
  BY Progresses, LibraryGrows DEF LibraryInv
<1> SUFFICES ASSUME NEW q \in Writers
             PROVE  /\ seen'[q] \subseteq DOMAIN library' \ Seeds
                    /\ q \in DOMAIN library' => library'[q].sig = run'[q].sig
                    /\ q \in DOMAIN library' \/ run'[q].pc \in {"embed", "save"} =>
                          \A p \in seen'[q] : library'[p].sig # run'[q].sig
  BY DEF SeenInv
<1>2. /\ \A p \in DOMAIN library \ Seeds : p \in DOMAIN library' /\ library'[p].sig = library[p].sig
      /\ q \notin Seeds /\ run'[q].sig = run[q].sig /\ Moves(q)
  BY <1>1 DEF Grown, Progress, Writers
<1>3. /\ seen[q] \subseteq DOMAIN library \ Seeds
      /\ q \in DOMAIN library => library[q].sig = run[q].sig
      /\ q \in DOMAIN library \/ run[q].pc \in {"embed", "save"} =>
            \A p \in seen[q] : library[p].sig # run[q].sig
      /\ run[q].pc = "lookup" => q \notin DOMAIN library
  BY <1>1 DEF SeenInv, OnceInv
<1>4. CASE Looks(q)
  <2>1. WithSignature(run[q].sig) = {} =>
          \A p \in DOMAIN library \ Seeds : library[p].sig # run[q].sig
    BY DEF WithSignature
  <2> QED BY <1>2, <1>3, <1>4, <2>1 DEF Looks
<1>5. CASE Saves(q)
  BY <1>2, <1>3, <1>5 DEF Saves
<1>6. CASE ~ Looks(q) /\ ~ Saves(q)
  <2>1. /\ seen'[q] = seen[q] /\ (q \in DOMAIN library' => q \in DOMAIN library)
        /\ run'[q].pc \in {"embed", "save"} => run[q].pc \in {"embed", "save"}
    BY <1>2, <1>6 DEF Moves, Stays, Proposes, Records, Embeds, Counts, Restarts
  <2> QED BY <1>2, <1>3, <2>1
<1> QED BY <1>4, <1>5, <1>6

(* The types are kept.                                                     *)
LEMMA TypesNext ==
  ASSUME LibraryInv, [Next]_vars
  PROVE  TypeOK'
<1>1. Grown /\ BooksInv'
  BY LibraryGrows, BooksNext
<1>2. DOMAIN library' \subseteq Ids /\ \A p \in DOMAIN library' : library'[p] \in Playbooks
  BY <1>1 DEF Grown, Typed
<1>3. \A w \in Writers :
        /\ run'[w].cands \subseteq Candidates
        /\ run'[w].pc \in {"credit", "blame"} => run'[w].book \in DOMAIN library'
  BY <1>1 DEF BooksInv, BooksOf, RunTypes
<1>4. rows' \subseteq Runs
  BY DEF LibraryInv, TypeOK, Next, vars, PlanCandidates, RetrievalFails, RetrievalBreaks,
         Actuate, RecordRow, Blame, Crash, PlaybookWrite, LookUp, Embed, Save, Credit, Seed
<1>5. seen' \in [Writers -> SUBSET Writers]
  <2>1. DOMAIN library \ Seeds \subseteq Writers
    BY DEF LibraryInv, TypeOK, Ids
  <2> QED
    BY <2>1 DEF LibraryInv, TypeOK, Next, vars, PlanCandidates, RetrievalFails,
                RetrievalBreaks, Actuate, RecordRow, Blame, Crash, PlaybookWrite, LookUp,
                Embed, Save, Credit, Seed
<1>6. /\ seedings' = seedings \/ (seedings < MaxSeedings /\ seedings' = seedings + 1)
      /\ crashes' = crashes \/ (crashes < MaxCrashes /\ crashes' = crashes + 1)
  BY DEF Next, vars, PlanCandidates, RetrievalFails, RetrievalBreaks, Actuate, RecordRow,
         Blame, Crash, PlaybookWrite, LookUp, Embed, Save, Credit, Seed
<1>7. seedings' \in 0..MaxSeedings /\ crashes' \in 0..MaxCrashes
  BY <1>6 DEF LibraryInv, TypeOK
<1> QED BY <1>2, <1>3, <1>4, <1>5, <1>7 DEF TypeOK

(* At the start the library is empty and nobody has looked.                *)
LEMMA LibraryInit == Init => LibraryInv
<1> SUFFICES ASSUME Init
             PROVE  LibraryInv
  OBVIOUS
<1>1. DOMAIN library = {}
  BY DEF Init
<1>2. run \in [Writers -> RunTypes]
  BY DEF Init, RunTypes, Stages
<1>3. \A w \in Writers : run[w].pc = "start" /\ run[w].cands = {} /\ run[w].book = NoPlaybook
  BY DEF Init
<1>4. BooksInv
  BY <1>1, <1>2, <1>3, FS_EmptySet DEF BooksInv, BooksOf, OptBook
<1>5. TypeOK
  <2>1. rows = {} /\ seen = [w \in Writers |-> {}] /\ seedings = 0 /\ crashes = 0
    BY DEF Init
  <2>2. seedings \in 0..MaxSeedings /\ crashes \in 0..MaxCrashes
    BY <2>1
  <2> QED BY <1>1, <1>3, <2>1, <2>2 DEF TypeOK
<1>6. OnceInv /\ SeenInv
  BY <1>1, <1>3 DEF Init, OnceInv, SeenInv, Writers
<1> QED BY <1>4, <1>5, <1>6 DEF LibraryInv

(* The invariant of the library holds in every reachable state.            *)
THEOREM LibraryInvHolds == Spec => []LibraryInv
<1>1. LibraryInv /\ [Next]_vars => LibraryInv'
  BY TypesNext, BooksNext, OnceNext, SeenNext DEF LibraryInv
<1> QED BY LibraryInit, <1>1, PTL DEF Spec

(* Two learned playbooks share a signature only if each was written by     *)
(* someone who looked before the other was in the library.                 *)
THEOREM DuplicatesAreRaced == Spec => []DuplicateNeedsRace
<1>1. LibraryInv => DuplicateNeedsRace
  <2> SUFFICES ASSUME LibraryInv, NEW p \in DOMAIN library \ Seeds,
                      NEW q \in DOMAIN library \ Seeds,
                      library[p].sig = library[q].sig
               PROVE  p \notin seen[q] /\ q \notin seen[p]
    BY DEF DuplicateNeedsRace
  <2>1. p \in Writers /\ q \in Writers
    BY DEF LibraryInv, TypeOK, Ids
  <2> QED BY <2>1 DEF LibraryInv, SeenInv
<1> QED BY LibraryInvHolds, <1>1, PTL

(* No step takes a playbook away, lowers one of its counters, or takes a   *)
(* run from the evidence of a learned one.                                 *)
THEOREM NothingIsForgotten == Spec => NothingForgotten
<1>1. LibraryInv /\ [Next]_vars =>
        [\A p \in DOMAIN library :
           /\ p \in DOMAIN library'
           /\ library'[p].successes >= library[p].successes
           /\ library'[p].failures >= library[p].failures
           /\ p \notin Seeds => library[p].evidence \subseteq library'[p].evidence]_vars
  BY LibraryGrows DEF Grown
<1> QED BY LibraryInvHolds, <1>1, PTL DEF Spec, NothingForgotten
-----------------------------------------------------------------------------
(***************************************************************************)
(* The sum of the successes is a fold, and the fold counts points: one for *)
(* each success of each playbook.                                          *)
(***************************************************************************)
Points(lib, S) == {q \in S \X (Nat \ {0}) : q[2] <= lib[q[1]].successes}

Picked(s) == CHOOSE x \in s : TRUE

Folds(iter, lib, S) ==
  iter = [s \in SUBSET S |->
            IF s = {} THEN 0 ELSE lib[Picked(s)].successes + iter[s \ {Picked(s)}]]

Counted(lib, S) == \A p \in S : lib[p].successes \in Nat

(* The points of one playbook more.                                        *)
LEMMA PointsOfOneMore ==
  ASSUME NEW lib, NEW S, Counted(lib, S), NEW x \in S, IsFiniteSet(Points(lib, S \ {x}))
  PROVE  /\ IsFiniteSet(Points(lib, S))
         /\ Cardinality(Points(lib, S)) = lib[x].successes + Cardinality(Points(lib, S \ {x}))
<1> DEFINE n == lib[x].successes
           mine == {q \in {x} \X (Nat \ {0}) : q[2] <= n}
           rest == Points(lib, S \ {x})
<1>1. n \in Nat
  BY DEF Counted
<1>2. IsFiniteSet(mine) /\ Cardinality(mine) = n
  <2> DEFINE f == [k \in 1..n |-> <<x, k>>]
  <2>1. f \in Bijection(1..n, mine)
    <3>1. ASSUME NEW k \in 1..n PROVE f[k] = <<x, k>> /\ <<x, k>> \in mine
      <4>1. k \in Nat \ {0} /\ k <= n
        BY <1>1
      <4>2. <<x, k>> \in {x} \X (Nat \ {0}) /\ <<x, k>>[2] = k
        BY <4>1
      <4> HIDE DEF n
      <4> QED BY <4>1, <4>2
    <3>2. \A k, l \in 1..n : <<x, k>> = <<x, l>> => k = l
      OBVIOUS
    <3>3. ASSUME NEW q \in mine PROVE q[2] \in 1..n /\ q = <<x, q[2]>>
      <4>1. q \in {x} \X (Nat \ {0}) /\ q[2] <= n
        OBVIOUS
      <4> HIDE DEF n, mine
      <4>2. q = <<x, q[2]>> /\ q[2] \in Nat \ {0}
        BY <4>1
      <4> QED BY <1>1, <4>1, <4>2
    <3>4. f = [k \in 1..n |-> f[k]]
      OBVIOUS
    <3> HIDE DEF mine, n
    <3>5. f \in [1..n -> mine]
      BY <3>1
    <3>6. \A k, l \in 1..n : f[k] = f[l] => k = l
      BY <3>1, <3>2
    <3>7. \A q \in mine : \E k \in 1..n : f[k] = q
      BY <3>1, <3>3
    <3>8. DOMAIN f = 1..n
      OBVIOUS
    <3> HIDE DEF f
    <3>9. f \in Injection(1..n, mine)
      BY <3>5, <3>6, <3>8 DEF Injection, IsInjective
    <3>10. f \in Surjection(1..n, mine)
      BY <3>5, <3>7 DEF Surjection
    <3> QED BY <3>9, <3>10 DEF Bijection
  <2>2. IsFiniteSet(1..n) /\ Cardinality(1..n) = n
    <3> HIDE DEF n, mine, f, rest
    <3>1. 1 \in Int /\ n \in Int /\ (1 > n => n = 0)
      BY <1>1
    <3>2. IsFiniteSet(1..n) /\ Cardinality(1..n) = IF 1 > n THEN 0 ELSE n - 1 + 1
      BY <3>1, FS_Interval
    <3> QED BY <3>1, <3>2
  <2>3. ExistsBijection(1..n, mine)
    BY <2>1 DEF ExistsBijection
  <2> HIDE DEF mine
  <2> QED BY <2>2, <2>3, FS_Bijection
<1>3. Points(lib, S) = mine \cup rest /\ mine \cap rest = {}
  BY DEF Points
<1> HIDE DEF mine, rest, n
<1>4. IsFiniteSet(rest)
  BY DEF rest
<1>5. /\ IsFiniteSet(mine \cup rest)
      /\ Cardinality(mine \cup rest) = Cardinality(mine) + Cardinality(rest)
  <2>1. Cardinality(mine \cap rest) = 0
    BY <1>3, FS_EmptySet
  <2>2. Cardinality(rest) \in Nat
    BY <1>4, FS_CardinalityType
  <2>3. /\ IsFiniteSet(mine \cup rest)
        /\ Cardinality(mine \cup rest)
              = Cardinality(mine) + Cardinality(rest) - Cardinality(mine \cap rest)
    BY <1>2, <1>4, FS_Union
  <2>4. Cardinality(mine) \in Nat
    BY <1>1, <1>2
  <2> QED BY ONLY <2>1, <2>2, <2>3, <2>4
<1> QED BY <1>2, <1>3, <1>5 DEF n, rest

(* A set of numbers that is not empty has a least element.                 *)
LEMMA HasLeast ==
  ASSUME NEW ks, ks \subseteq Nat, ks # {}
  PROVE  \E m \in ks : \A l \in ks : m <= l
<1> DEFINE Below == {pair \in Nat \X Nat : pair[1] < pair[2]}
<1>1. IsWellFoundedOn(Below, Nat)
  BY NatLessThanWellFounded DEF OpToRel
<1>2. \E m \in ks : \A l \in ks : <<l, m>> \notin Below
  <2> HIDE DEF Below
  <2> QED BY <1>1, WFMin
<1>3. PICK m \in ks : \A l \in ks : <<l, m>> \notin Below
  BY <1>2
<1>4. ASSUME NEW l \in ks
      PROVE  m <= l
  <2>1. ~ (l < m)
    BY <1>3 DEF Below
  <2> QED BY <2>1
<1> QED BY <1>4

(* Whatever folds the successes counts the points, of every subset.        *)
LEMMA FoldCountsPoints ==
  ASSUME NEW lib, NEW S, IsFiniteSet(S), Counted(lib, S), NEW iter
  PROVE  \A s \in SUBSET S :
           /\ IsFiniteSet(Points(lib, s))
           /\ Folds(iter, lib, S) => iter[s] = Cardinality(Points(lib, s))
<1> DEFINE Good(s) == /\ IsFiniteSet(Points(lib, s))
                      /\ Folds(iter, lib, S) => iter[s] = Cardinality(Points(lib, s))
           sizes == {k \in Nat : \E s \in SUBSET S : Cardinality(s) = k /\ ~ Good(s)}
<1>1. ASSUME sizes # {}
      PROVE  FALSE
  <2>1. PICK k \in sizes : \A l \in sizes : k <= l
    BY <1>1, HasLeast
  <2>2. PICK s \in SUBSET S : Cardinality(s) = k /\ ~ Good(s)
    BY <2>1
  <2>3. \A r \in SUBSET S : Cardinality(r) \in Nat /\ Cardinality(r) < k => Good(r)
    <3> HIDE DEF Good
    <3> QED BY <2>1
  <2>4. CASE s = {}
    <3>1. Points(lib, s) = {}
      BY <2>4 DEF Points
    <3>2. Folds(iter, lib, S) => iter[s] = 0
      BY <2>4 DEF Folds
    <3> QED BY <2>2, <3>1, <3>2, FS_EmptySet
  <2>5. CASE s # {}
    <3> DEFINE x == Picked(s)
               r == s \ {x}
    <3>1. x \in s
      BY <2>5 DEF Picked
    <3>2. IsFiniteSet(s) /\ r \in SUBSET S
      BY <2>2, FS_Subset
    <3>3. Cardinality(r) \in Nat /\ Cardinality(r) < k
      <4>1. IsFiniteSet(r) /\ Cardinality(r) = Cardinality(s) - 1
        BY <3>1, <3>2, FS_RemoveElement
      <4>2. Cardinality(r) \in Nat /\ Cardinality(s) \in Nat
        BY <3>2, <4>1, FS_CardinalityType
      <4> QED BY <2>2, <4>1, <4>2
    <3>4. Good(r)
      BY <2>3, <3>2, <3>3
    <3>5. Folds(iter, lib, S) => iter[s] = lib[x].successes + iter[r]
      <4> HIDE DEF Good
      <4> QED BY <2>2, <2>5 DEF Folds
    <3>6. Counted(lib, s)
      BY <2>2 DEF Counted
    <3> HIDE DEF x
    <3>7. Good(s)
      BY <3>1, <3>4, <3>5, <3>6, PointsOfOneMore
    <3> QED BY <2>2, <3>7
  <2> QED BY <2>4, <2>5
<1>2. ASSUME NEW s \in SUBSET S
      PROVE  Good(s)
  <2>1. Cardinality(s) \in Nat
    BY FS_Subset, FS_CardinalityType
  <2> HIDE DEF Good
  <2> QED BY <1>1, <2>1
<1> QED BY <1>2

(* The fold of the library's successes is the number of its points.        *)
LEMMA SuccessesArePoints ==
  ASSUME NEW lib, NEW S, IsFiniteSet(S), Counted(lib, S)
  PROVE  /\ IsFiniteSet(Points(lib, S))
         /\ MapThenSumSet(LAMBDA p : lib[p].successes, S) = Cardinality(Points(lib, S))
<1> DEFINE fold == CHOOSE iter : Folds(iter, lib, S)
           count == [s \in SUBSET S |-> Cardinality(Points(lib, s))]
<1>1. MapThenSumSet(LAMBDA p : lib[p].successes, S) = fold[S]
  BY DEF MapThenSumSet, MapThenFoldSet, Folds, Picked
<1>2. \A s \in SUBSET S : IsFiniteSet(Points(lib, s))
  BY FoldCountsPoints
<1>3. Folds(count, lib, S)
  <2>1. ASSUME NEW s \in SUBSET S
        PROVE  count[s] = IF s = {} THEN 0
                          ELSE lib[Picked(s)].successes + count[s \ {Picked(s)}]
    <3>1. CASE s = {}
      <4>1. Points(lib, s) = {}
        BY <3>1 DEF Points
      <4> QED BY <3>1, <4>1, FS_EmptySet
    <3>2. CASE s # {}
      <4> DEFINE x == Picked(s)
      <4>1. x \in s
        BY <3>2 DEF Picked
      <4>2. Counted(lib, s) /\ s \ {x} \in SUBSET S
        BY DEF Counted
      <4> HIDE DEF x
      <4>3. Cardinality(Points(lib, s)) = lib[x].successes + Cardinality(Points(lib, s \ {x}))
        BY <1>2, <4>1, <4>2, PointsOfOneMore
      <4>4. count[s] = Cardinality(Points(lib, s))
            /\ count[s \ {x}] = Cardinality(Points(lib, s \ {x}))
        BY <4>2
      <4> HIDE DEF count
      <4> QED BY <3>2, <4>3, <4>4 DEF x
    <3> QED BY <3>1, <3>2
  <2> QED BY <2>1 DEF Folds
<1>4. Folds(fold, lib, S)
  BY <1>3
<1> HIDE DEF fold
<1>5. S \in SUBSET S
  OBVIOUS
<1> QED BY <1>1, <1>4, <1>5, FoldCountsPoints
-----------------------------------------------------------------------------
(***************************************************************************)
(* Who is counted. A run that has counted is in no list of its own: it is  *)
(* done, or was started again and found its row, and the library holds its *)
(* id as evidence, as it does the ids the operator gave. So the invariant  *)
(* says that there is a set of runs the library counts, each once.         *)
(***************************************************************************)
Past == {"record", "lookup", "embed", "save", "credit", "blame", "done"}

OwnOf(r) ==
  /\ r \in Runs =>
       /\ run[r].pc \in Past => run[r].names = r
       /\ run[r].pc \in {"lookup", "embed", "save", "credit"} => run[r].resolved
       /\ run[r].pc = "blame" => ~ run[r].resolved
       /\ r \in rows => run[r].pc \in Past \cup {"broken"}
  /\ run[r].pc \in {"embed", "save"} => run[r].book = NoPlaybook

OwnInv == (\A w \in Writers : OwnOf(w)) /\ IsFiniteSet(rows) /\ IsFiniteSet(Written)

Total == Cardinality(Points(library, DOMAIN library))

CountedBy(C) ==
  /\ C \subseteq rows
  /\ \A r \in C : run[r].pc \in {"done", "record", "broken"}
  /\ \A r \in Runs : run[r].pc = "done" /\ Resolved(r) => r \in C
  /\ \A p \in DOMAIN library : library[p].evidence \subseteq C \cup NamedByHand
  /\ \A p \in DOMAIN library \ (Seeds \cup TouchedByHand) :
       /\ library[p].evidence \subseteq C
       /\ library[p].successes = Cardinality({r \in library[p].evidence : Resolved(r)})
       /\ library[p].failures = Cardinality({r \in library[p].evidence : ~ Resolved(r)})
  /\ \A p, q \in DOMAIN library :
       p # q => library[p].evidence \cap library[q].evidence \subseteq NamedByHand
  /\ Total = Cardinality(Written) + Cardinality({r \in C : Resolved(r)})

CountInv == LibraryInv /\ OwnInv /\ \E C : CountedBy(C)

(* What a command of the operator has done stays, and no other is done.    *)
LEMMA HandsStay ==
  ASSUME NEW r \in Writers, Others(r),
         r \in Runs \/ (run[r].pc # "done" /\ run'[r].pc # "done")
  PROVE  Written' = Written /\ TouchedByHand' = TouchedByHand /\ NamedByHand' = NamedByHand
<1>1. r \in Runs => r \notin Writes
  OBVIOUS
<1>2. Written' = Written
  BY <1>1 DEF Written, Others, Writers
<1>3. \A w \in Written : run'[w] = run[w]
  BY <1>1 DEF Written, Others, Writers
<1> QED BY <1>2, <1>3 DEF TouchedByHand, NamedByHand

(* A command that is done has touched a playbook and named a run.          *)
LEMMA HandCounts ==
  ASSUME NEW w \in Writes, Others(w), run[w].pc # "done", run'[w].pc = "done",
         NEW p, p = IF run'[w].book = NoPlaybook THEN w ELSE run'[w].book
  PROVE  /\ Written' = Written \cup {w} /\ w \notin Written
         /\ TouchedByHand' = TouchedByHand \cup {p}
         /\ NamedByHand' = NamedByHand \cup {run'[w].names}
<1>1. Written' = Written \cup {w} /\ w \notin Written
  BY DEF Written, Others, Writers
<1>2. ASSUME NEW v \in Written
      PROVE  run'[v] = run[v]
  BY <1>1 DEF Written, Others, Writers
<1>3. NamedByHand' = NamedByHand \cup {run'[w].names}
  <2>1. NamedByHand' = {run'[v].names : v \in Written \cup {w}}
    BY <1>1 DEF NamedByHand
  <2>2. NamedByHand = {run'[v].names : v \in Written}
    BY <1>2 DEF NamedByHand
  <2> QED BY <2>1, <2>2
<1>4. TouchedByHand' = TouchedByHand \cup {p}
  <2> DEFINE By(v) == IF run'[v].book = NoPlaybook THEN v ELSE run'[v].book
  <2>1. TouchedByHand' = {By(v) : v \in Written \cup {w}}
    BY <1>1 DEF TouchedByHand
  <2>2. TouchedByHand = {By(v) : v \in Written}
    BY <1>2 DEF TouchedByHand
  <2>3. p = By(w)
    OBVIOUS
  <2> HIDE DEF By
  <2> QED BY <2>1, <2>2, <2>3
<1> QED BY <1>1, <1>3, <1>4

(* A step that leaves the library alone.                                   *)
LEMMA CountsStay ==
  ASSUME NEW C, CountedBy(C), rows \subseteq rows', library' = library,
         Written' = Written, TouchedByHand' = TouchedByHand, NamedByHand' = NamedByHand,
         C \subseteq Runs,
         \A r \in C : run'[r].pc \in {"done", "record", "broken"}
                      /\ run'[r].resolved = run[r].resolved,
         \A r \in Runs : run'[r].pc = "done" /\ run'[r].resolved => r \in C
  PROVE  CountedBy(C)'
<1>1. {r \in C : run'[r].resolved} = {r \in C : Resolved(r)}
  BY DEF Resolved
<1>2. Total' = Total
  BY DEF Total, Points
<1>3. ASSUME NEW p \in DOMAIN library \ (Seeds \cup TouchedByHand)
      PROVE  /\ library[p].evidence \subseteq C
             /\ library[p].successes = Cardinality({r \in library[p].evidence : run'[r].resolved})
             /\ library[p].failures = Cardinality({r \in library[p].evidence : ~ run'[r].resolved})
  <2>1. library[p].evidence \subseteq C
    BY DEF CountedBy
  <2>2. /\ {r \in library[p].evidence : run'[r].resolved} = {r \in library[p].evidence : Resolved(r)}
        /\ {r \in library[p].evidence : ~ run'[r].resolved} = {r \in library[p].evidence : ~ Resolved(r)}
    BY <2>1 DEF Resolved
  <2> QED BY <2>1, <2>2 DEF CountedBy
<1> QED BY <1>1, <1>2, <1>3 DEF CountedBy, Resolved
-----------------------------------------------------------------------------
(* One success, or one failure, is counted for a playbook, old or new.     *)
Evidence(p) == IF p \in DOMAIN library THEN library[p].evidence ELSE {}
Successes(p) == IF p \in DOMAIN library THEN library[p].successes ELSE 0
Failures(p) == IF p \in DOMAIN library THEN library[p].failures ELSE 0

Event(p, x, success) ==
  /\ DOMAIN library' = DOMAIN library \cup {p}
  /\ \A q \in DOMAIN library \ {p} : library'[q] = library[q]
  /\ library'[p].evidence = Evidence(p) \cup {x}
  /\ library'[p].successes = IF success THEN Successes(p) + 1 ELSE Successes(p)
  /\ library'[p].failures = IF success THEN Failures(p) ELSE Failures(p) + 1

(* A success is one point more.                                            *)
LEMMA EventCounts ==
  ASSUME LibraryInv, NEW p, NEW x, NEW success \in BOOLEAN, Event(p, x, success)
  PROVE  Total \in Nat /\ Total' = IF success THEN Total + 1 ELSE Total
<1> DEFINE D == DOMAIN library
           old == Points(library, D)
           more == <<p, Successes(p) + 1>>
<1>1. /\ IsFiniteSet(D) /\ \A q \in D : library[q].successes \in Nat
      /\ Successes(p) \in Nat
  BY DEF LibraryInv, BooksInv, TypeOK, Playbooks, Successes
<1>2. IsFiniteSet(old) /\ Total \in Nat
  <2>1. IsFiniteSet(old)
    BY <1>1, SuccessesArePoints DEF Counted
  <2> QED BY <2>1, FS_CardinalityType DEF Total
<1>3. Points(library, D)' = {q \in (D \cup {p}) \X (Nat \ {0}) : q[2] <= library'[q[1]].successes}
  BY DEF Points, Event
<1>4. \A q \in D \ {p} : library'[q].successes = library[q].successes
  BY DEF Event
<1>5. ASSUME NEW k \in Nat \ {0}
      PROVE  <<p, k>> \in old <=> k <= Successes(p)
  BY <1>1 DEF Points, Successes
<1>6. CASE success
  <2>1. ASSUME NEW k \in Nat \ {0}
        PROVE  k <= library'[p].successes <=> <<p, k>> \in old \/ k = Successes(p) + 1
    BY <1>1, <1>5, <1>6 DEF Event
  <2>2. Points(library, D)' = old \cup {more}
    <3>1. ASSUME NEW q, NEW k \in Nat \ {0}
          PROVE  <<q, k>> \in Points(library, D)' <=> <<q, k>> \in old \cup {more}
      <4>1. CASE q = p
        BY <1>3, <2>1, <4>1
      <4>2. CASE q # p
        BY <1>3, <1>4, <4>2 DEF Points
      <4> QED BY <4>1, <4>2
    <3>2. /\ \A z \in Points(library, D)' : \E q, k : z = <<q, k>> /\ k \in Nat \ {0}
          /\ \A z \in old \cup {more} : \E q, k : z = <<q, k>> /\ k \in Nat \ {0}
      BY <1>1, <1>3 DEF Points
    <3> QED BY <3>1, <3>2
  <2>3. more \notin old
    BY <1>1, <1>5
  <2>4. Cardinality(old \cup {more}) = Cardinality(old) + 1
    BY <1>2, <2>3, FS_AddElement
  <2> QED BY <1>2, <1>6, <2>2, <2>4 DEF Total
<1>7. CASE ~ success
  <2>1. \A q \in D : library'[q].successes = library[q].successes
    BY <1>4, <1>7 DEF Event, Successes
  <2>2. p \notin D => library'[p].successes = 0
    BY <1>7 DEF Event, Successes
  <2>3. Points(library, D)' = old
    BY <1>3, <2>1, <2>2 DEF Points
  <2> QED BY <1>2, <1>7, <2>3 DEF Total
<1> QED BY <1>6, <1>7

(* An event of a run that has not counted: now it has.                     *)
LEMMA RunCounts ==
  ASSUME CountInv, NEW C, CountedBy(C), NEW r \in Runs, r \in rows, r \notin C,
         NEW success \in BOOLEAN, run[r].resolved = success,
         NEW p, Event(p, r, success), Others(r), run'[r].resolved = run[r].resolved,
         run'[r].pc = "done", rows' = rows
  PROVE  CountedBy(C \cup {r})'
<1> DEFINE K == C \cup {r}
<1>1. /\ Written' = Written /\ TouchedByHand' = TouchedByHand /\ NamedByHand' = NamedByHand
      /\ r \in Writers
  BY HandsStay DEF Writers
<1>2. /\ \A x \in Runs : run'[x].resolved = run[x].resolved
      /\ \A x \in Runs \ {r} : run'[x] = run[x]
  BY DEF Others, Writers
<1>3. C \subseteq Runs /\ K \subseteq Runs /\ rows \subseteq Runs /\ IsFiniteSet(rows)
  BY DEF CountInv, LibraryInv, TypeOK, CountedBy, OwnInv
<1>4. K \subseteq rows'
  BY DEF CountedBy
<1>5. \A x \in K : run'[x].pc \in {"done", "record", "broken"}
  BY <1>2, <1>3 DEF CountedBy
<1>6. \A x \in Runs : run'[x].pc = "done" /\ run'[x].resolved => x \in K
  BY <1>2 DEF CountedBy, Resolved
<1>7. \A q \in DOMAIN library : library[q].evidence \subseteq C \cup NamedByHand
  BY DEF CountedBy
<1>8. /\ \A q \in DOMAIN library' : library'[q].evidence \subseteq K \cup NamedByHand'
      /\ \A q, s \in DOMAIN library' :
            q # s => library'[q].evidence \cap library'[s].evidence \subseteq NamedByHand'
  <2>1. Evidence(p) \subseteq C \cup NamedByHand
    BY <1>7 DEF Evidence
  <2>2. \A q \in DOMAIN library \ {p} :
          Evidence(p) \cap library[q].evidence \subseteq NamedByHand
    BY DEF Evidence, CountedBy
  <2>3. \A q, s \in DOMAIN library :
          q # s => library[q].evidence \cap library[s].evidence \subseteq NamedByHand
    BY DEF CountedBy
  <2>4. \A q \in DOMAIN library' : q # p => q \in DOMAIN library /\ library'[q] = library[q]
    BY DEF Event
  <2>5. library'[p].evidence = Evidence(p) \cup {r}
    BY DEF Event
  <2> QED BY <1>1, <1>7, <2>1, <2>2, <2>3, <2>4, <2>5
<1>9. ASSUME NEW q \in DOMAIN library' \ (Seeds \cup TouchedByHand')
      PROVE  /\ library'[q].evidence \subseteq K
             /\ library'[q].successes = Cardinality({x \in library'[q].evidence : run'[x].resolved})
             /\ library'[q].failures = Cardinality({x \in library'[q].evidence : ~ run'[x].resolved})
  <2> DEFINE Good(e) == {x \in e : run[x].resolved}
             Bad(e) == {x \in e : ~ run[x].resolved}
  <2>1. CASE q # p
    <3>1. library'[q] = library[q] /\ q \in DOMAIN library \ (Seeds \cup TouchedByHand)
      BY <1>1, <2>1 DEF Event
    <3>2. /\ library[q].evidence \subseteq C
          /\ library[q].successes = Cardinality(Good(library[q].evidence))
          /\ library[q].failures = Cardinality(Bad(library[q].evidence))
      BY <3>1 DEF CountedBy, Resolved
    <3>3. /\ Good(library[q].evidence) = {x \in library[q].evidence : run'[x].resolved}
          /\ Bad(library[q].evidence) = {x \in library[q].evidence : ~ run'[x].resolved}
      BY <1>2, <1>3, <3>2
    <3> HIDE DEF Good, Bad
    <3> QED BY <3>1, <3>2, <3>3
  <2>2. CASE q = p
    <3> DEFINE e == Evidence(p)
    <3>1. e \subseteq C /\ Successes(p) = Cardinality(Good(e)) /\ Failures(p) = Cardinality(Bad(e))
      <4>1. CASE p \in DOMAIN library
        BY <1>1, <1>9, <2>2, <4>1 DEF CountedBy, Resolved, Evidence, Successes, Failures
      <4>2. CASE p \notin DOMAIN library
        BY <4>2, FS_EmptySet DEF Evidence, Successes, Failures
      <4> QED BY <4>1, <4>2
    <3>2. r \notin e /\ e \subseteq Runs /\ IsFiniteSet(e)
      <4>1. C \in SUBSET rows /\ IsFiniteSet(C)
        BY <1>3, FS_Subset DEF CountedBy
      <4> QED BY <1>3, <3>1, <4>1, FS_Subset
    <3>3. /\ IsFiniteSet(Good(e)) /\ IsFiniteSet(Bad(e))
      <4>1. Good(e) \in SUBSET e /\ Bad(e) \in SUBSET e
        OBVIOUS
      <4> HIDE DEF Good, Bad
      <4> QED BY <3>2, <4>1, FS_Subset
    <3>4. /\ library'[q].evidence = e \cup {r}
          /\ library'[q].successes = IF success THEN Successes(p) + 1 ELSE Successes(p)
          /\ library'[q].failures = IF success THEN Failures(p) ELSE Failures(p) + 1
      BY <2>2 DEF Event
    <3>5. /\ {x \in e \cup {r} : run'[x].resolved} = IF success THEN Good(e) \cup {r} ELSE Good(e)
          /\ {x \in e \cup {r} : ~ run'[x].resolved} = IF success THEN Bad(e) ELSE Bad(e) \cup {r}
      BY <1>2, <3>2
    <3>6. r \notin Good(e) /\ r \notin Bad(e)
      BY <3>2
    <3> HIDE DEF e, Good, Bad
    <3>7. /\ Cardinality(Good(e) \cup {r}) = Cardinality(Good(e)) + 1
          /\ Cardinality(Bad(e) \cup {r}) = Cardinality(Bad(e)) + 1
      BY <3>3, <3>6, FS_AddElement
    <3> QED BY <3>1, <3>4, <3>5, <3>7
  <2> QED BY <2>1, <2>2
<1>10. Total' = Cardinality(Written') + Cardinality({x \in K : run'[x].resolved})
  <2> DEFINE good == {x \in C : run[x].resolved}
  <2>1. Total = Cardinality(Written) + Cardinality(good)
    BY DEF CountedBy, Resolved
  <2>2. Total' = IF success THEN Total + 1 ELSE Total
    BY EventCounts DEF CountInv
  <2>3. {x \in K : run'[x].resolved} = IF success THEN good \cup {r} ELSE good
    BY <1>2, <1>3
  <2>4. IsFiniteSet(good) /\ r \notin good
    <3>1. good \in SUBSET rows
      BY DEF CountedBy
    <3> QED BY <1>3, <3>1, FS_Subset
  <2>5. Cardinality(good \cup {r}) = Cardinality(good) + 1 /\ Cardinality(good) \in Nat
    BY <2>4, FS_AddElement, FS_CardinalityType
  <2>6. Cardinality(Written) \in Nat
    BY FS_CardinalityType DEF CountInv, OwnInv
  <2> HIDE DEF good, K
  <2>7. CASE success
    <3>1. Total' = Cardinality(Written) + (Cardinality(good) + 1)
      BY ONLY <2>1, <2>2, <2>5, <2>6, <2>7
    <3> QED BY <1>1, <2>3, <2>5, <2>7, <3>1
  <2>8. CASE ~ success
    BY <1>1, <2>1, <2>2, <2>3, <2>8
  <2> QED BY <2>7, <2>8
<1> HIDE DEF K
<1>11. CountedBy(K)'
  BY <1>4, <1>5, <1>6, <1>8, <1>9, <1>10 DEF CountedBy, Resolved
<1> QED BY <1>11 DEF K

(* An event of the operator's: its playbook and its run are excepted.      *)
LEMMA HandEvent ==
  ASSUME CountInv, NEW C, CountedBy(C), NEW w \in Writes, NEW p, NEW x,
         Event(p, x, TRUE), Others(w), run[w].pc # "done", run'[w].pc = "done",
         run'[w].names = x, p = IF run'[w].book = NoPlaybook THEN w ELSE run'[w].book,
         rows' = rows
  PROVE  CountedBy(C)'
<1>1. /\ Written' = Written \cup {w} /\ w \notin Written
      /\ TouchedByHand' = TouchedByHand \cup {p}
      /\ NamedByHand' = NamedByHand \cup {x}
  BY HandCounts
<1>2. \A r \in Runs : run'[r] = run[r]
  BY DEF Others, Writers
<1>3. C \subseteq Runs /\ IsFiniteSet(rows)
  BY DEF CountInv, LibraryInv, TypeOK, CountedBy, OwnInv
<1>4. \A q \in DOMAIN library' : q # p => q \in DOMAIN library /\ library'[q] = library[q]
  BY DEF Event
<1>5. library'[p].evidence = Evidence(p) \cup {x}
  BY DEF Event
<1>6. /\ \A q \in DOMAIN library' : library'[q].evidence \subseteq C \cup NamedByHand'
      /\ \A q, s \in DOMAIN library' :
            q # s => library'[q].evidence \cap library'[s].evidence \subseteq NamedByHand'
  <2>1. Evidence(p) \subseteq C \cup NamedByHand
    BY DEF Evidence, CountedBy
  <2>2. \A q \in DOMAIN library \ {p} :
          Evidence(p) \cap library[q].evidence \subseteq NamedByHand
    BY DEF Evidence, CountedBy
  <2>3. /\ \A q, s \in DOMAIN library :
               q # s => library[q].evidence \cap library[s].evidence \subseteq NamedByHand
        /\ \A q \in DOMAIN library : library[q].evidence \subseteq C \cup NamedByHand
    BY DEF CountedBy
  <2> QED BY <1>1, <1>4, <1>5, <2>1, <2>2, <2>3
<1>7. ASSUME NEW q \in DOMAIN library' \ (Seeds \cup TouchedByHand')
      PROVE  /\ library'[q].evidence \subseteq C
             /\ library'[q].successes = Cardinality({r \in library'[q].evidence : run'[r].resolved})
             /\ library'[q].failures = Cardinality({r \in library'[q].evidence : ~ run'[r].resolved})
  <2>1. library'[q] = library[q] /\ q \in DOMAIN library \ (Seeds \cup TouchedByHand)
    BY <1>1, <1>4, <1>7
  <2>2. library[q].evidence \subseteq C
    BY <2>1 DEF CountedBy
  <2>3. /\ {r \in library[q].evidence : Resolved(r)} = {r \in library[q].evidence : run'[r].resolved}
        /\ {r \in library[q].evidence : ~ Resolved(r)} = {r \in library[q].evidence : ~ run'[r].resolved}
    BY <1>2, <1>3, <2>2 DEF Resolved
  <2> QED BY <2>1, <2>2, <2>3 DEF CountedBy
<1>8. Total' = Cardinality(Written') + Cardinality({r \in C : run'[r].resolved})
  <2>1. Total = Cardinality(Written) + Cardinality({r \in C : Resolved(r)}) /\ Total' = Total + 1
    BY EventCounts DEF CountedBy, CountInv
  <2>2. {r \in C : run'[r].resolved} = {r \in C : Resolved(r)}
    BY <1>2, <1>3 DEF Resolved
  <2>3. Cardinality(Written') = Cardinality(Written) + 1 /\ Cardinality(Written) \in Nat
    BY <1>1, FS_AddElement, FS_CardinalityType DEF CountInv, OwnInv
  <2>4. Cardinality({r \in C : Resolved(r)}) \in Nat
    <3>1. {r \in C : Resolved(r)} \in SUBSET rows
      BY DEF CountedBy
    <3> QED BY <1>3, <3>1, FS_Subset, FS_CardinalityType
  <2>5. Total' = Cardinality(Written') + Cardinality({r \in C : Resolved(r)})
    BY ONLY <2>1, <2>3, <2>4
  <2> QED BY <2>2, <2>5
<1> QED BY <1>2, <1>3, <1>6, <1>7, <1>8 DEF CountedBy, Resolved
-----------------------------------------------------------------------------
(* What a writer's step must see to, the others' part stays.               *)
LEMMA OwnKept ==
  ASSUME OwnInv, NEW r \in Writers, Others(r), OwnOf(r)', rows' \subseteq rows \cup {r}
  PROVE  OwnInv'
<1>1. ASSUME NEW w \in Writers \ {r}
      PROVE  OwnOf(w)'
  BY DEF OwnInv, OwnOf, Others
<1>2. IsFiniteSet(rows \cup {r}) /\ IsFiniteSet(Written \cup {r})
  BY FS_AddElement DEF OwnInv
<1>3. Written' \subseteq Written \cup {r}
  BY DEF Written, Others, Writers
<1> QED BY <1>1, <1>2, <1>3, FS_Subset DEF OwnInv

(* Every step keeps OwnInv: the resolution is settled before the row, and  *)
(* a started-again run whose row is there goes no further.                 *)
LEMMA OwnNext ==
  ASSUME LibraryInv, OwnInv, [Next]_vars
  PROVE  OwnInv'
<1> USE DEF LibraryInv
<1>1. \A w \in Writers : OwnOf(w)
  BY DEF OwnInv
<1>2. CASE UNCHANGED <<run, rows>>
  <2>1. \A w \in Writers : OwnOf(w)'
    BY <1>1, <1>2 DEF OwnOf
  <2>2. Written' = Written
    BY <1>2 DEF Written
  <2> QED BY <1>2, <2>1, <2>2 DEF OwnInv
<1>3. ASSUME NEW r \in Runs, PlanCandidates(r) \/ RetrievalFails(r)
      PROVE  OwnInv'
  <2>1. r \in Writers /\ rows' = rows /\ run[r].pc = "start"
    BY <1>3 DEF Writers, PlanCandidates, RetrievalFails
  <2>2. Others(r) /\ run'[r].pc = "act"
    BY <1>3, PlanningIs
  <2>3. OwnOf(r)'
    BY <1>1, <2>1, <2>2 DEF OwnOf, Past
  <2> QED BY <2>1, <2>2, <2>3, OwnKept
<1>4. ASSUME NEW r \in Runs, Actuate(r)
      PROVE  OwnInv'
  <2>1. r \in Writers /\ rows' = rows
    BY <1>4 DEF Writers, Actuate
  <2>2. Others(r) /\ run'[r].pc = "record" /\ run'[r].names = r
    BY <1>4, ActuateIs
  <2>3. OwnOf(r)'
    BY <2>2 DEF OwnOf, Past
  <2> QED BY <2>1, <2>2, <2>3, OwnKept
<1>5. ASSUME NEW r \in Writes, PlaybookWrite(r)
      PROVE  OwnInv'
  <2>1. r \in Writers /\ r \notin Runs /\ rows' = rows
    BY <1>5 DEF Writers, PlaybookWrite
  <2>2. Others(r) /\ run'[r].pc = "lookup"
    BY <1>5, PlaybookWriteIs
  <2>3. OwnOf(r)'
    BY <2>1, <2>2 DEF OwnOf
  <2> QED BY <2>1, <2>2, <2>3, OwnKept
<1>6. ASSUME NEW r \in Writers, LookUp(r)
      PROVE  OwnInv'
  <2>1. rows' = rows /\ run[r].pc = "lookup"
    BY <1>6 DEF LookUp
  <2>2. /\ Others(r) /\ run'[r].pc \in {"broken", "credit", "embed"}
        /\ run'[r].names = run[r].names /\ run'[r].resolved = run[r].resolved
        /\ run'[r].pc = "embed" => run'[r].book = NoPlaybook
    BY <1>6, LookUpIs
  <2>3. OwnOf(r)'
    BY <1>1, <2>1, <2>2 DEF OwnOf, Past
  <2> QED BY <2>1, <2>2, <2>3, OwnKept
<1>7. ASSUME NEW r \in Writers, Embed(r)
      PROVE  OwnInv'
  <2>1. rows' = rows /\ run[r].pc = "embed"
    BY <1>7 DEF Embed
  <2>2. /\ Others(r) /\ run'[r].pc \in {"save", "broken"} /\ run'[r].book = run[r].book
        /\ run'[r].names = run[r].names /\ run'[r].resolved = run[r].resolved
    BY <1>7, EmbedIs
  <2>3. OwnOf(r)'
    BY <1>1, <2>1, <2>2 DEF OwnOf, Past
  <2> QED BY <2>1, <2>2, <2>3, OwnKept
<1>8. ASSUME NEW r \in Writers, NEW pc \in {"unplanned", "record", "lookup", "blame", "done", "broken"},
             Goto(r, pc), rows' \subseteq rows \cup {r},
             r \in Runs /\ pc # "broken" /\ pc # "unplanned" => run[r].names = r,
             r \in Runs /\ pc = "lookup" => run[r].resolved,
             r \in Runs /\ pc = "blame" => ~ run[r].resolved,
             r \in Runs /\ pc = "unplanned" => r \notin rows'
      PROVE  OwnInv'
  <2>1. Others(r) /\ run'[r].pc = pc /\ run'[r].names = run[r].names
        /\ run'[r].resolved = run[r].resolved
    <3>1. pc \in Stages
      BY DEF Stages
    <3> QED BY <1>8, <3>1, GotoIs
  <2>2. OwnOf(r)'
    BY <1>8, <2>1 DEF OwnOf, Past
  <2> QED BY <1>8, <2>1, <2>2, OwnKept
<1>9. ASSUME NEW r \in Runs, RetrievalBreaks(r)
      PROVE  OwnInv'
  <2>1. r \in Writers /\ r \notin rows
    BY <1>1, <1>9 DEF RetrievalBreaks, OwnOf, Past, Writers
  <2> QED BY <1>8, <1>9, <2>1 DEF RetrievalBreaks
<1>10. ASSUME NEW r \in Runs, RecordRow(r)
       PROVE  OwnInv'
  <2>1. r \in Writers /\ run[r].names = r /\ rows' \subseteq rows \cup {r}
    BY <1>1, <1>10 DEF RecordRow, OwnOf, Past, Writers
  <2>2. PICK pc \in {"lookup", "blame", "done", "broken"} :
          /\ Goto(r, pc)
          /\ pc = "lookup" => run[r].resolved
          /\ pc = "blame" => ~ run[r].resolved
    BY <1>10 DEF RecordRow
  <2> QED BY <1>8, <2>1, <2>2
<1>11. ASSUME NEW r \in Runs, Blame(r) \/ Crash(r)
       PROVE  OwnInv'
  <2>1. r \in Writers /\ run[r].names = r /\ rows' = rows /\ \E pc \in {"record", "done"} : Goto(r, pc)
    BY <1>1, <1>11 DEF Blame, Crash, OwnOf, Past, Writers
  <2> QED BY <1>8, <2>1
<1>12. ASSUME NEW r \in Writers, Save(r) \/ Credit(r)
       PROVE  OwnInv'
  <2>1. (r \in Runs => run[r].names = r) /\ rows' = rows /\ Goto(r, "done")
    BY <1>1, <1>12 DEF Save, Credit, OwnOf, Past
  <2> QED BY <1>8, <2>1
<1> QED
  BY <1>2, <1>3, <1>4, <1>5, <1>6, <1>7, <1>9, <1>10, <1>11, <1>12
  DEF Next, vars, Seed
-----------------------------------------------------------------------------
(* A step of a writer that leaves the library alone, and counts nobody.    *)
LEMMA QuietStep ==
  ASSUME CountInv, NEW C, CountedBy(C), NEW r \in Writers, Others(r),
         library' = library, rows \subseteq rows',
         r \in Writes => run[r].pc # "done" /\ run'[r].pc # "done",
         r \in C => /\ run'[r].pc \in {"done", "record", "broken"}
                    /\ run'[r].resolved = run[r].resolved,
         run'[r].pc = "done" /\ run'[r].resolved => r \in C
  PROVE  CountedBy(C)'
<1>1. Written' = Written /\ TouchedByHand' = TouchedByHand /\ NamedByHand' = NamedByHand
  BY HandsStay DEF Writers
<1>2. C \subseteq Runs
  BY DEF CountInv, LibraryInv, TypeOK, CountedBy
<1>3. \A x \in C : run'[x].pc \in {"done", "record", "broken"}
                   /\ run'[x].resolved = run[x].resolved
  BY <1>2 DEF Others, Writers, CountedBy
<1>4. \A x \in Runs : run'[x].pc = "done" /\ run'[x].resolved => x \in C
  BY DEF Others, Writers, CountedBy, Resolved
<1> QED BY <1>1, <1>2, <1>3, <1>4, CountsStay

(* A new playbook starts with one success.                                 *)
LEMMA SaveIsEvent ==
  ASSUME LibraryInv, NEW r \in Writers, Save(r)
  PROVE  Event(r, run[r].names, TRUE)
<1> DEFINE book == [sig |-> run[r].sig, plan |-> run[r].plan,
                    evidence |-> {run[r].names}, successes |-> 1, failures |-> 0]
<1>1. run[r] \in RunTypes /\ run[r].plan \in Plans /\ run[r].names \in Runs
  BY DEF LibraryInv, BooksInv, BooksOf, Save
<1>2. book \in Playbooks
  BY <1>1 DEF Playbooks, RunTypes
<1>3. r \in Ids /\ r \notin DOMAIN library
  BY DEF LibraryInv, OnceInv, Save, Ids
<1>4. library' = Upserted(r, book)
  BY DEF Save
<1>5. book.evidence = {run[r].names} /\ book.successes = 1 /\ book.failures = 0
  OBVIOUS
<1> HIDE DEF book
<1>6. Typed(library)
  BY DEF LibraryInv, TypeOK, Typed
<1>7. /\ DOMAIN library' = DOMAIN library \cup {r}
      /\ \A p \in DOMAIN library \ {r} : library'[p] = library[p]
      /\ library'[r] = book
  BY <1>2, <1>3, <1>4, <1>6, UpsertedIs
<1>8. Evidence(r) = {} /\ Successes(r) = 0 /\ Failures(r) = 0
  BY <1>3 DEF Evidence, Successes, Failures
<1> QED BY <1>5, <1>7, <1>8 DEF Event

(* Crediting and blaming count one for a playbook that is there.           *)
LEMMA IncrementIsEvent ==
  ASSUME LibraryInv, NEW id \in DOMAIN library, NEW success \in BOOLEAN, NEW x \in Runs,
         library' = IncrementCounter(id, success, x)
  PROVE  Event(id, x, success)
<1>1. Typed(library)
  BY DEF LibraryInv, TypeOK, Typed
<1>2. /\ DOMAIN library' = DOMAIN library
      /\ \A p \in DOMAIN library \ {id} : library'[p] = library[p]
      /\ library'[id].evidence = library[id].evidence \cup {x}
      /\ success => /\ library'[id].successes = library[id].successes + 1
                    /\ library'[id].failures = library[id].failures
      /\ ~ success => /\ library'[id].successes = library[id].successes
                      /\ library'[id].failures = library[id].failures + 1
  BY <1>1, IncrementIs
<1>3. /\ Evidence(id) = library[id].evidence /\ Successes(id) = library[id].successes
      /\ Failures(id) = library[id].failures
  BY DEF Evidence, Successes, Failures
<1> QED BY <1>2, <1>3 DEF Event

(* A seeded playbook has no evidence, and loading it moves no counter.     *)
LEMMA SeedCounts ==
  ASSUME LibraryInv, NEW C, CountedBy(C), NEW s \in Seeds, Seed(s)
  PROVE  CountedBy(C)'
<1>1. PICK sig \in Signatures, plan \in Plans :
        library' = Upserted(s, [sig |-> sig, plan |-> plan,
                                evidence |-> {}, successes |-> 0, failures |-> 0])
  BY DEF Seed
<1>2. /\ DOMAIN library' = DOMAIN library \cup {s}
      /\ \A p \in DOMAIN library \ {s} : library'[p] = library[p]
      /\ library'[s].evidence = {}
      /\ s \in DOMAIN library => library'[s].successes = library[s].successes
      /\ s \notin DOMAIN library => library'[s].successes = 0
  <2>1. CASE s \in DOMAIN library
    BY <1>1, <2>1 DEF Upserted
  <2>2. CASE s \notin DOMAIN library
    BY <1>1, <2>2 DEF Upserted
  <2> QED BY <2>1, <2>2
<1>3. /\ Written' = Written /\ TouchedByHand' = TouchedByHand /\ NamedByHand' = NamedByHand
      /\ run' = run /\ rows' = rows
  BY DEF Seed, Written, TouchedByHand, NamedByHand
<1>4. Points(library, DOMAIN library)' = Points(library, DOMAIN library)
  <2>1. \A p \in DOMAIN library : library'[p].successes = library[p].successes
    BY <1>2
  <2>2. \A k \in Nat \ {0} : ~ (k <= 0)
    OBVIOUS
  <2>3. Points(library, DOMAIN library)'
           = {q \in (DOMAIN library \cup {s}) \X (Nat \ {0}) : q[2] <= library'[q[1]].successes}
    BY <1>2 DEF Points
  <2>4. ASSUME NEW p, NEW k \in Nat \ {0}
        PROVE  <<p, k>> \in Points(library, DOMAIN library)'
                  <=> <<p, k>> \in Points(library, DOMAIN library)
    BY <1>2, <2>1, <2>2, <2>3 DEF Points
  <2>5. /\ \A z \in Points(library, DOMAIN library)' : \E q, k : z = <<q, k>> /\ k \in Nat \ {0}
        /\ \A z \in Points(library, DOMAIN library) : \E q, k : z = <<q, k>> /\ k \in Nat \ {0}
    BY <2>3 DEF Points
  <2> QED BY <2>4, <2>5
<1>5. Total' = Total
  BY <1>4 DEF Total
<1>6. {r \in C : Resolved(r)}' = {r \in C : Resolved(r)}
  BY <1>3 DEF Resolved
<1>7. \A p \in DOMAIN library' :
        /\ library'[p].evidence \subseteq C \cup NamedByHand
        /\ \A q \in DOMAIN library' :
              p # q => library'[p].evidence \cap library'[q].evidence \subseteq NamedByHand
  <2>1. \A p \in DOMAIN library' :
          \/ library'[p].evidence = {}
          \/ p \in DOMAIN library /\ library'[p] = library[p]
    BY <1>2
  <2> QED BY <2>1 DEF CountedBy
<1>8. \A p \in DOMAIN library' \ (Seeds \cup TouchedByHand) :
        p \in DOMAIN library \ (Seeds \cup TouchedByHand) /\ library'[p] = library[p]
  BY <1>2
<1>9. \A p \in DOMAIN library' \ (Seeds \cup TouchedByHand) :
        /\ library'[p].evidence \subseteq C
        /\ library'[p].successes = Cardinality({r \in library'[p].evidence : Resolved(r)'})
        /\ library'[p].failures = Cardinality({r \in library'[p].evidence : ~ Resolved(r)'})
  BY <1>3, <1>8 DEF CountedBy, Resolved
<1> QED BY <1>3, <1>5, <1>6, <1>7, <1>9 DEF CountedBy, Resolved
-----------------------------------------------------------------------------
(* Every step leaves a set of runs that the library counts, each once.     *)
LEMMA CountNext ==
  ASSUME CountInv, [Next]_vars
  PROVE  CountInv'
<1> SUFFICES \E C : CountedBy(C)'
  BY TypesNext, BooksNext, OnceNext, SeenNext, OwnNext DEF CountInv, LibraryInv
<1>1. PICK C : CountedBy(C)
  BY DEF CountInv
<1>2. /\ C \subseteq rows
      /\ \A x \in C : run[x].pc \in {"done", "record", "broken"}
      /\ \A x \in Runs : run[x].pc = "done" /\ run[x].resolved => x \in C
  BY <1>1 DEF CountedBy, Resolved
<1>3. /\ LibraryInv /\ OwnInv /\ TypeOK /\ BooksInv /\ OnceInv
      /\ \A w \in Writers : OwnOf(w) /\ BooksOf(w)
      /\ \A r \in Runs : r \in Writers /\ r \notin Writes
  BY DEF CountInv, OwnInv, LibraryInv, BooksInv, Writers
<1>4. CASE UNCHANGED <<library, run, rows>>
  <2>1. Written' = Written /\ TouchedByHand' = TouchedByHand /\ NamedByHand' = NamedByHand
    BY <1>4 DEF Written, TouchedByHand, NamedByHand
  <2>2. C \subseteq Runs
    BY <1>2, <1>3 DEF TypeOK
  <2>3. CountedBy(C)'
    BY <1>1, <1>2, <1>4, <2>1, <2>2, CountsStay
  <2> QED BY <2>3
<1>5. ASSUME NEW r \in Runs, PlanCandidates(r) \/ RetrievalFails(r) \/ Actuate(r)
      PROVE  CountedBy(C)'
  <2>1. UNCHANGED <<library, rows>> /\ run[r].pc \in {"start", "act"}
    BY <1>5 DEF PlanCandidates, RetrievalFails, Actuate
  <2>2. Others(r) /\ run'[r].pc \in {"act", "record"}
    BY <1>3, <1>5, PlanningIs, ActuateIs
  <2> QED BY <1>1, <1>2, <1>3, <2>1, <2>2, QuietStep
<1>6. ASSUME NEW r \in Runs, RetrievalBreaks(r)
      PROVE  CountedBy(C)'
  <2>1. /\ UNCHANGED <<library, rows>> /\ run[r].pc = "start" /\ Goto(r, "unplanned")
        /\ "unplanned" \in Stages
    BY <1>6 DEF RetrievalBreaks, Stages
  <2>2. Others(r) /\ run'[r].pc = "unplanned"
    BY <1>3, <2>1, GotoIs
  <2> QED BY <1>1, <1>2, <1>3, <2>1, <2>2, QuietStep
<1>7. ASSUME NEW r \in Writes, PlaybookWrite(r)
      PROVE  CountedBy(C)'
  <2>1. UNCHANGED <<library, rows>> /\ run[r].pc = "start" /\ r \in Writers /\ r \notin C
    BY <1>2, <1>3, <1>7 DEF PlaybookWrite, Writers, TypeOK
  <2>2. Others(r) /\ run'[r].pc = "lookup"
    BY <1>3, <1>7, PlaybookWriteIs
  <2> QED BY <1>1, <2>1, <2>2, QuietStep
<1>8. ASSUME NEW r \in Runs, RecordRow(r)
      PROVE  CountedBy(C)'
  <2>1. library' = library /\ run[r].pc = "record" /\ rows \subseteq rows'
    BY <1>8 DEF RecordRow
  <2>2. PICK pc \in Stages :
          /\ Goto(r, pc)
          /\ r \in rows => pc = "broken"
          /\ pc = "done" => ~ run[r].resolved
    BY <1>8 DEF RecordRow, Stages
  <2>3. Others(r) /\ run'[r].pc = pc /\ run'[r].resolved = run[r].resolved
    BY <1>3, <2>2, GotoIs
  <2> QED BY <1>1, <1>2, <1>3, <2>1, <2>2, <2>3, QuietStep
<1>9. ASSUME NEW r \in Writers, LookUp(r)
      PROVE  CountedBy(C)'
  <2>1. UNCHANGED <<library, rows>> /\ run[r].pc = "lookup" /\ r \notin C
    BY <1>2, <1>9 DEF LookUp
  <2>2. Others(r) /\ run'[r].pc \in {"broken", "credit", "embed"}
    BY <1>3, <1>9, LookUpIs
  <2> QED BY <1>1, <2>1, <2>2, QuietStep
<1>10. ASSUME NEW r \in Writers, Embed(r)
       PROVE  CountedBy(C)'
  <2>1. UNCHANGED <<library, rows>> /\ run[r].pc = "embed" /\ r \notin C
    BY <1>2, <1>10 DEF Embed
  <2>2. Others(r) /\ run'[r].pc \in {"save", "broken"}
    BY <1>3, <1>10, EmbedIs
  <2> QED BY <1>1, <2>1, <2>2, QuietStep
<1>11. ASSUME NEW r \in Runs, Crash(r)
       PROVE  CountedBy(C)'
  <2>1. /\ UNCHANGED <<library, rows>> /\ Goto(r, "record") /\ "record" \in Stages
    BY <1>11 DEF Crash, Stages
  <2>2. Others(r) /\ run'[r].pc = "record" /\ run'[r].resolved = run[r].resolved
    BY <1>3, <2>1, GotoIs
  <2> QED BY <1>1, <1>3, <2>1, <2>2, QuietStep
<1>12. ASSUME NEW r \in Writers, Save(r) \/ Credit(r) \/ (r \in Runs /\ Blame(r))
       PROVE  /\ Others(r) /\ run'[r].pc = "done" /\ rows' = rows
              /\ run'[r].book = run[r].book /\ run'[r].names = run[r].names
              /\ run'[r].resolved = run[r].resolved
              /\ run[r].pc \in {"save", "credit", "blame"} /\ run[r].names \in Runs
  <2>1. /\ rows' = rows /\ Goto(r, "done") /\ "done" \in Stages
        /\ run[r].pc \in {"save", "credit", "blame"}
    BY <1>12 DEF Save, Credit, Blame, Stages
  <2>2. run[r].names \in Runs
    BY <1>3, <2>1 DEF BooksOf
  <2> QED BY <1>3, <2>1, <2>2, GotoIs
<1>13. ASSUME NEW r \in Runs, NEW success \in BOOLEAN, NEW p, Event(p, r, success),
              Save(r) \/ Credit(r) \/ Blame(r), run[r].resolved = success
       PROVE  \E D : CountedBy(D)'
  <2>1. /\ Others(r) /\ run'[r].pc = "done" /\ rows' = rows
        /\ run'[r].resolved = run[r].resolved
        /\ run[r].pc \in {"save", "credit", "blame"}
    BY <1>3, <1>12, <1>13
  <2>2. r \in rows /\ r \notin C
    BY <1>2, <1>3, <2>1 DEF OnceInv
  <2>3. CountedBy(C \cup {r})'
    BY <1>1, <1>13, <2>1, <2>2, RunCounts
  <2> QED BY <2>3
<1>14. ASSUME NEW r \in Runs, Save(r)
       PROVE  \E D : CountedBy(D)'
  <2>1. run[r].names = r /\ run[r].resolved = TRUE
    <3>1. run[r].names = r /\ run[r].resolved
      BY <1>3, <1>14 DEF Save, OwnOf, Past
    <3>2. run[r].resolved \in BOOLEAN
      BY <1>3 DEF BooksInv, RunTypes
    <3> QED BY <3>1, <3>2
  <2>2. Event(r, r, TRUE)
    BY <1>3, <1>14, <2>1, SaveIsEvent
  <2> QED BY <1>13, <1>14, <2>1, <2>2
<1>15. ASSUME NEW r \in Runs, Credit(r)
       PROVE  \E D : CountedBy(D)'
  <2>1. run[r].names = r /\ run[r].resolved = TRUE
    <3>1. run[r].names = r /\ run[r].resolved
      BY <1>3, <1>15 DEF Credit, OwnOf, Past
    <3>2. run[r].resolved \in BOOLEAN
      BY <1>3 DEF BooksInv, RunTypes
    <3> QED BY <3>1, <3>2
  <2>2. Event(run[r].book, r, TRUE)
    BY <1>3, <1>15, <2>1, IncrementIsEvent DEF Credit, BooksOf
  <2> QED BY <1>13, <1>15, <2>1, <2>2
<1>16. ASSUME NEW r \in Runs, Blame(r)
       PROVE  \E D : CountedBy(D)'
  <2>1. run[r].resolved = FALSE
    <3>1. ~ run[r].resolved
      BY <1>3, <1>16 DEF Blame, OwnOf
    <3>2. run[r].resolved \in BOOLEAN
      BY <1>3 DEF BooksInv, RunTypes
    <3> QED BY <3>1, <3>2
  <2>2. Event(run[r].book, r, FALSE)
    BY <1>3, <1>16, IncrementIsEvent DEF Blame, BooksOf
  <2> QED BY <1>13, <1>16, <2>1, <2>2
<1>17. ASSUME NEW w \in Writes, Save(w)
       PROVE  CountedBy(C)'
  <2>1. w \in Writers /\ run[w].book = NoPlaybook /\ run[w].pc = "save"
    BY <1>3, <1>17 DEF Save, OwnOf, Writers
  <2>2. Event(w, run[w].names, TRUE)
    BY <1>3, <1>17, <2>1, SaveIsEvent
  <2> QED BY <1>1, <1>12, <1>17, <2>1, <2>2, HandEvent
<1>18. ASSUME NEW w \in Writes, Credit(w)
       PROVE  CountedBy(C)'
  <2>1. w \in Writers /\ run[w].pc = "credit" /\ run[w].book \in DOMAIN library
        /\ run[w].names \in Runs
    BY <1>3, <1>18 DEF Credit, BooksOf, Writers
  <2>2. Event(run[w].book, run[w].names, TRUE)
    BY <1>3, <1>18, <2>1, IncrementIsEvent DEF Credit
  <2>3. run[w].book # NoPlaybook
    BY <1>3, <2>1 DEF TypeOK, Ids, Writers
  <2> QED BY <1>1, <1>12, <1>18, <2>1, <2>2, <2>3, HandEvent
<1>19. ASSUME NEW s \in Seeds, Seed(s)
       PROVE  CountedBy(C)'
  BY <1>1, <1>3, <1>19, SeedCounts
<1>20. ASSUME CountedBy(C)'
       PROVE  \E D : CountedBy(D)'
  BY <1>20
<1> QED
  BY <1>4, <1>5, <1>6, <1>7, <1>8, <1>9, <1>10, <1>11, <1>14, <1>15, <1>16, <1>17, <1>18,
     <1>19, <1>20
  DEF Next, vars, Writers

(* At the start nobody is counted.                                         *)
LEMMA CountInit == Init => CountInv
<1> SUFFICES ASSUME Init
             PROVE  CountInv
  OBVIOUS
<1>1. DOMAIN library = {} /\ rows = {} /\ \A w \in Writers : run[w].pc = "start"
  <2>1. DOMAIN library = {}
    BY DEF Init
  <2>2. rows = {} /\ \A w \in Writers : run[w].pc = "start"
    BY DEF Init
  <2> QED BY <2>1, <2>2
<1>2. Written = {} /\ NamedByHand = {} /\ TouchedByHand = {}
  BY <1>1 DEF Written, NamedByHand, TouchedByHand, Writers
<1>3. OwnInv
  BY <1>1, <1>2, FS_EmptySet DEF OwnInv, OwnOf, Past
<1>4. Total = 0
  <2>1. Points(library, DOMAIN library) = {}
    BY <1>1 DEF Points
  <2> QED BY <2>1, FS_EmptySet DEF Total
<1>5. CountedBy({})
  <2>1. {r \in {} : Resolved(r)} = {}
    OBVIOUS
  <2>2. \A r \in Runs : run[r].pc # "done"
    BY <1>1 DEF Writers
  <2> QED BY <1>1, <1>2, <1>4, <2>1, <2>2, FS_EmptySet DEF CountedBy
<1> QED BY <1>3, <1>5, LibraryInit DEF CountInv

(* The counters tell what happened: one success for each resolved run, one *)
(* failure for each other, no run twice, whatever crashes.                 *)
THEOREM EachIsCountedOnce == Spec => []CountedOnce
<1>1. CountInv /\ [Next]_vars => CountInv'
  BY CountNext
<1>2. CountInv => CountedOnce
  <2> SUFFICES ASSUME CountInv
               PROVE  CountedOnce
    OBVIOUS
  <2>1. PICK C : CountedBy(C)
    BY DEF CountInv
  <2> DEFINE total == MapThenSumSet(LAMBDA p : library[p].successes, DOMAIN library)
             own == total - Cardinality(Written)
             good == {r \in C : Resolved(r)}
             all == {r \in rows : Resolved(r)}
             finished == {r \in rows : Resolved(r) /\ run[r].pc = "done"}
  <2>2. TypeOK /\ IsFiniteSet(DOMAIN library) /\ IsFiniteSet(rows) /\ IsFiniteSet(Written)
    BY DEF CountInv, LibraryInv, BooksInv, OwnInv
  <2>3. total = Total
    <3>1. Counted(library, DOMAIN library)
      BY <2>2 DEF Counted, TypeOK, Playbooks
    <3> QED BY <2>2, <3>1, SuccessesArePoints DEF Total
  <2>4. Total = Cardinality(Written) + Cardinality(good)
    BY <2>1 DEF CountedBy
  <2>5. /\ IsFiniteSet(all) /\ good \in SUBSET all /\ finished \in SUBSET good
        /\ IsFiniteSet(good)
    <3>1. all \in SUBSET rows /\ good \in SUBSET all /\ finished \in SUBSET good
      BY <2>1, <2>2 DEF CountedBy, TypeOK
    <3> HIDE DEF all, good, finished
    <3> QED BY <2>2, <3>1, FS_Subset
  <2> HIDE DEF all, good, finished, total
  <2>6. /\ Cardinality(good) <= Cardinality(all) /\ Cardinality(finished) <= Cardinality(good)
        /\ Cardinality(good) \in Nat /\ Cardinality(Written) \in Nat
    BY <2>2, <2>5, FS_Subset, FS_CardinalityType
  <2>7. own = Cardinality(good)
    BY <2>3, <2>4, <2>6
  <2> HIDE DEF own
  <2>8. own <= Cardinality(all) /\ own >= Cardinality(finished)
    <3>1. Cardinality(finished) \in Nat /\ Cardinality(all) \in Nat
      BY <2>5, FS_Subset, FS_CardinalityType
    <3> QED BY ONLY <2>6, <2>7, <3>1
  <2>9. \A p \in DOMAIN library \ (Seeds \cup TouchedByHand) :
          /\ library[p].successes = Cardinality({r \in library[p].evidence : Resolved(r)})
          /\ library[p].failures = Cardinality({r \in library[p].evidence : ~ Resolved(r)})
    BY <2>1 DEF CountedBy
  <2>10. \A p, q \in DOMAIN library :
           p # q => library[p].evidence \cap library[q].evidence \subseteq NamedByHand
    BY <2>1 DEF CountedBy
  <2> QED BY <2>2, <2>8, <2>9, <2>10 DEF CountedOnce, own, total, all, finished
<1> QED BY CountInit, <1>1, <1>2, PTL DEF Spec
=============================================================================
