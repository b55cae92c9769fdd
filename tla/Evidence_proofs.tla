-------------------------- MODULE Evidence_proofs ---------------------------
(***************************************************************************)
(* Proofs about evidence: how the entries of feeds are collected and       *)
(* become it, and the claims that are linked to it.                        *)
(***************************************************************************)
EXTENDS Collection, Claims, FiniteSetTheorems, SequenceTheorems, WellFoundedInduction, TLAPS

-----------------------------------------------------------------------------
(***************************************************************************)
(* The collection of entries for every set of feeds, sources and jobs,     *)
(* every page, interval and old database.                                  *)
(***************************************************************************)

ItemRow ==
  [source : Source \cup {Nil}, state : {"none", "pending", "processed", "considered"}, mentions : 0..1]

Stage == {"idle", "ingest", "collect", "analyse", "cluster", "backfill", "done"}

Task ==
  [stage : Stage, todo : SUBSET Source, rows : {Nil} \cup Source \cup [Source -> Row \cup {Nil}],
   list : SUBSET Entry, page : SUBSET Entry, brought : SUBSET Entry, failed : SUBSET (Stage \cup {"source"})]

\* The types of what collection and analysis read and write; an item has the
\* mentions of at most one analysis.
CollectionTyped ==
  /\ published \in [Feed -> Nat] /\ \A f \in Feed : published[f] <= MaxEntry[f]
  /\ source \in [Source -> Row \cup {Nil}]
  /\ items \in [Entry -> ItemRow]
  /\ evidence \subseteq Entry
  /\ job \in [Job -> Task]
  /\ editing \in {Nil} \cup [source : Source, row : Row, edit : Edits]

\* Nobody needs an entry again: it is stored, cannot be, or the old program
\* had it.
Kept(e) ==
  \/ e \in Bad \/ items[e].state # "none"
  \/ \E old \in DOMAIN Legacy.sources : /\ Legacy.sources[old].feed = e[1]
                                        /\ Legacy.sources[old].cursor # Nil
                                        /\ e[2] <= Legacy.sources[old].cursor[2]

\* A cursor that may be written to any row: of the entries up to it the feed
\* serves none any more that is needed.
Sound(c) ==
  \A e \in Entry : e[1] = c[1] /\ e[2] <= c[2] => e[2] <= published[c[1]] - PerPage \/ Kept(e)

SourcesAreSound == \A s \in Source : source[s] # Nil /\ source[s].cursor # Nil => Sound(source[s].cursor)

\* What a job has loaded may be old, and is sound.
LoadedAreSound ==
  \A j \in Job : job[j].stage = "collect" =>
    /\ job[j].rows \in [Source -> Row \cup {Nil}]
    /\ \A s \in job[j].todo :
         job[j].rows[s] # Nil /\ (job[j].rows[s].cursor # Nil => Sound(job[j].rows[s].cursor))

\* A job has sources to do that are registered, a request edits one.
WorkIsRegistered ==
  /\ \A j \in Job : job[j].todo \subseteq Registered
  /\ editing # Nil => source[editing.source] # Nil

CollectionIInv == CollectionTyped /\ SourcesAreSound /\ LoadedAreSound /\ WorkIsRegistered

-----------------------------------------------------------------------------
(* Entries, pages and cursors. *)

\* An entry is the k-th of its feed.
LEMMA EntryIs ==
  ASSUME NEW e \in Entry
  PROVE  e[1] \in Feed /\ e[2] \in Nat /\ e[2] >= 1 /\ e[2] <= MaxEntry[e[1]] /\ e = <<e[1], e[2]>>
  <1>1. PICK f \in Feed : e \in {f} \X (1..MaxEntry[f])
    BY DEF Entry
  <1>2. e[1] = f /\ e[2] \in 1..MaxEntry[f] /\ e = <<e[1], e[2]>>
    BY <1>1
  <1>3. MaxEntry[f] \in Nat
    BY CollectionNumbers
  <1>. QED
    BY <1>2, <1>3

LEMMA EntryOf ==
  ASSUME NEW f \in Feed, NEW k \in Nat, 1 <= k, k <= MaxEntry[f]
  PROVE  <<f, k>> \in Entry
  <1>1. MaxEntry[f] \in Nat
    BY CollectionNumbers
  <1>2. <<f, k>> \in {f} \X (1..MaxEntry[f])
    BY <1>1
  <1>. QED
    BY <1>2 DEF Entry

\* A feed serves the last entries it published.
LEMMA PageIs ==
  ASSUME CollectionTyped, NEW f \in Feed
  PROVE  /\ Page(f) \subseteq Entry
         /\ \A e \in Entry : e \in Page(f) <=> e[1] = f /\ e[2] <= published[f] /\ e[2] > published[f] - PerPage
  <1>1. published[f] \in Nat /\ MaxEntry[f] \in Nat /\ published[f] <= MaxEntry[f] /\ PerPage \in Nat
    BY CollectionNumbers DEF CollectionTyped
  <1>2. Page(f) \subseteq Entry
    <2>. SUFFICES ASSUME NEW e \in Page(f)
                  PROVE  e \in Entry
      OBVIOUS
    <2>1. PICK k \in 1..published[f] : e = <<f, k>>
      BY DEF Page
    <2>. QED
      BY <2>1, <1>1, EntryOf
  <1>3. ASSUME NEW e \in Entry
        PROVE  e \in Page(f) <=> e[1] = f /\ e[2] <= published[f] /\ e[2] > published[f] - PerPage
    <2>1. e[2] \in Nat /\ e[2] >= 1 /\ e = <<e[1], e[2]>>
      BY EntryIs
    <2>2. CASE e \in Page(f)
      BY <2>1, <2>2, <1>1 DEF Page
    <2>3. ASSUME e[1] = f, e[2] <= published[f], e[2] > published[f] - PerPage
          PROVE  e \in Page(f)
      <3>1. e[2] \in {n \in 1..published[f] : n > published[f] - PerPage}
        BY <2>1, <2>3, <1>1
      <3>. QED
        BY <3>1, <2>1, <2>3 DEF Page
    <2>. QED
      BY <2>2, <2>3
  <1>. QED
    BY <1>2, <1>3

\* What was sound once stays so: a feed only publishes, an item only comes.
LEMMA SoundStays ==
  ASSUME CollectionTyped, CollectionTyped',
         \A f \in Feed : published[f] <= published'[f],
         \A e \in Entry : items'[e].state = "none" => items[e].state = "none",
         NEW c, Sound(c)
  PROVE  Sound(c)'
  <1>. SUFFICES ASSUME NEW e \in Entry, e[1] = c[1], e[2] <= c[2]
                PROVE  e[2] <= published'[c[1]] - PerPage \/ Kept(e)'
    BY DEF Sound
  <1>1. e[2] <= published[c[1]] - PerPage \/ Kept(e)
    BY DEF Sound
  <1>2. c[1] \in Feed /\ e[2] \in Nat
    BY EntryIs
  <1>3. CASE e[2] <= published[c[1]] - PerPage
    <2>1. published[c[1]] \in Nat /\ published'[c[1]] \in Nat /\ PerPage \in Nat
      BY <1>2, CollectionNumbers DEF CollectionTyped
    <2>2. published[c[1]] <= published'[c[1]]
      BY <1>2
    <2>. QED
      BY <1>2, <1>3, <2>1, <2>2
  <1>4. CASE Kept(e)
    BY <1>4 DEF Kept
  <1>. QED
    BY <1>1, <1>3, <1>4

-----------------------------------------------------------------------------
(* What a step must do to keep the invariant. *)

\* Feeds and items only grow, a row stays registered, a cursor that is new is
\* sound, a job works on what it loaded or on the rows of now.
LEMMA StepKeeps ==
  ASSUME CollectionIInv, CollectionTyped',
         \A f \in Feed : published[f] <= published'[f],
         \A e \in Entry : items'[e].state = "none" => items[e].state = "none",
         \A s \in Source : source[s] # Nil => source'[s] # Nil,
         \A c \in Entry : \A s \in Source :
           source'[s] # Nil /\ source'[s].cursor = c => (source[s] # Nil /\ source[s].cursor = c) \/ Sound(c)',
         \A j \in Job : job'[j].todo \subseteq Registered,
         \A j \in Job : job'[j].stage = "collect" =>
           \/ job[j].stage = "collect" /\ job'[j].rows = job[j].rows /\ job'[j].todo \subseteq job[j].todo
           \/ job'[j].rows = source,
         editing' # Nil => editing' = editing \/ source[editing'.source] # Nil
  PROVE  CollectionIInv'
  <1>1. CollectionTyped /\ SourcesAreSound /\ LoadedAreSound /\ WorkIsRegistered
    BY DEF CollectionIInv
  <1>2. \A c : Sound(c) => Sound(c)'
    BY <1>1, SoundStays
  <1>3. SourcesAreSound'
    <2>. SUFFICES ASSUME NEW s \in Source, source'[s] # Nil, source'[s].cursor # Nil
                  PROVE  \A c : c = source'[s].cursor => Sound(c)'
      BY DEF SourcesAreSound, Sound, Kept
    <2>. TAKE c
    <2>. HAVE c = source'[s].cursor
    <2>1. source'[s] \in Row
      BY DEF CollectionTyped
    <2>2. c \in Entry
      BY <2>1 DEF Row
    <2>3. CASE source[s] # Nil /\ source[s].cursor = c
      BY <1>1, <1>2, <2>3 DEF SourcesAreSound
    <2>. QED
      BY <2>2, <2>3
  <1>4. LoadedAreSound'
    <2>. SUFFICES ASSUME NEW j \in Job, job'[j].stage = "collect"
                  PROVE  /\ job'[j].rows \in [Source -> Row \cup {Nil}]
                         /\ \A s \in job'[j].todo :
                              /\ job'[j].rows[s] # Nil
                              /\ \A c : c # Nil /\ c = job'[j].rows[s].cursor => Sound(c)'
      BY DEF LoadedAreSound, Sound, Kept
    <2>1. CASE job[j].stage = "collect" /\ job'[j].rows = job[j].rows /\ job'[j].todo \subseteq job[j].todo
      <3>1. job[j].todo \subseteq Source
        BY <1>1 DEF CollectionTyped, Task
      <3>. QED
        BY <1>1, <1>2, <2>1, <3>1 DEF LoadedAreSound
    <2>2. CASE job'[j].rows = source
      <3>1. source \in [Source -> Row \cup {Nil}]
        BY <1>1 DEF CollectionTyped
      <3>2. \A s \in job'[j].todo : s \in Source /\ source[s] # Nil
        BY <2>2 DEF Registered
      <3>. QED
        BY <1>1, <1>2, <2>2, <3>1, <3>2 DEF SourcesAreSound
    <2>. QED
      BY <2>1, <2>2
  <1>5. WorkIsRegistered'
    <2>1. ASSUME editing' # Nil
          PROVE  source'[editing'.source] # Nil
      <3>1. editing'.source \in Source
        BY <2>1 DEF CollectionTyped
      <3>2. source[editing'.source] # Nil
        BY <1>1, <2>1 DEF WorkIsRegistered
      <3>. QED
        BY <3>1, <3>2
    <2>2. Registered \subseteq Registered'
      BY DEF Registered
    <2>3. \A j \in Job : job'[j].todo \subseteq Registered'
      BY <2>2
    <2>. QED
      BY <2>1, <2>3 DEF WorkIsRegistered
  <1>. QED
    BY <1>3, <1>4, <1>5 DEF CollectionIInv

\* A step that writes no row and gives a job its next work.
LEMMA JobStepKeeps ==
  ASSUME CollectionIInv, NEW j \in Job, NEW w \in Task, job' = [job EXCEPT ![j] = w],
         UNCHANGED <<published, source, editing>>, evidence' \subseteq Entry, items' \in [Entry -> ItemRow],
         \A e \in Entry : items'[e].state = "none" => items[e].state = "none",
         w.todo \subseteq Registered,
         w.stage = "collect" =>
           (job[j].stage = "collect" /\ w.rows = job[j].rows /\ w.todo \subseteq job[j].todo) \/ w.rows = source
  PROVE  CollectionIInv'
  <1>1. CollectionTyped
    BY DEF CollectionIInv
  <1>2. job' \in [Job -> Task]
    BY <1>1 DEF CollectionTyped
  <1>3. CollectionTyped'
    BY <1>1, <1>2 DEF CollectionTyped
  <1>4. /\ \A i \in Job : job'[i].todo \subseteq Registered
        /\ \A i \in Job : job'[i].stage = "collect" =>
             \/ job[i].stage = "collect" /\ job'[i].rows = job[i].rows /\ job'[i].todo \subseteq job[i].todo
             \/ job'[i].rows = source
    <2>1. \A i \in Job : job'[i] = IF i = j THEN w ELSE job[i]
      BY <1>1 DEF CollectionTyped
    <2>2. \A i \in Job : job[i].todo \subseteq Registered
      BY DEF CollectionIInv, WorkIsRegistered
    <2>. QED
      BY <2>1, <2>2
  <1>5. \A f \in Feed : published[f] <= published'[f]
    BY <1>1 DEF CollectionTyped
  <1>. QED
    BY <1>3, <1>4, <1>5, StepKeeps

\* A job that is idle, and one that enters a stage.
LEMMA IdleIsATask == Idle \in Task /\ Idle.stage = "idle" /\ Idle.todo = {}
  BY DEF Idle, Task, Stage

LEMMA EnteringIs ==
  ASSUME CollectionTyped, NEW stage \in Stage, NEW w \in Task, NEW looping
  PROVE  /\ Entering(stage, w, looping) \in Task
         /\ Entering(stage, w, looping).stage = stage
         /\ Entering(stage, w, looping).todo \subseteq Registered
         /\ stage = "collect" => Entering(stage, w, looping).rows = source
  <1>. DEFINE todo == CASE stage = "ingest" -> PluginSources
                         [] stage = "collect" -> IF settings.collection THEN DueRows(looping) ELSE {}
                         [] OTHER -> {}
              rows == IF stage = "collect" THEN source ELSE Nil
              list == IF stage = "analyse" THEN {e \in Entry : items[e].state = "pending"} ELSE {}
  <1>1. todo \subseteq Registered /\ Registered \subseteq Source
    BY DEF PluginSources, DueRows, Registered
  <1>2. rows \in {Nil} \cup Source \cup [Source -> Row \cup {Nil}]
    BY DEF CollectionTyped
  <1>3. list \subseteq Entry
    OBVIOUS
  <1>4. Entering(stage, w, looping) =
          [w EXCEPT !.stage = stage, !.todo = todo, !.rows = rows, !.list = list, !.page = {}]
    BY DEF Entering
  <1>5. stage = "collect" => rows = source
    OBVIOUS
  <1>. HIDE DEF todo, rows, list
  <1>. DEFINE r == [w EXCEPT !.stage = stage, !.todo = todo, !.rows = rows, !.list = list, !.page = {}]
  <1>6. r \in Task /\ r.stage = stage /\ r.rows = rows /\ r.todo = todo
    BY <1>1, <1>2, <1>3 DEF Task
  <1>. QED
    BY <1>1, <1>4, <1>5, <1>6

LEMMA OnwardIs ==
  ASSUME CollectionTyped, NEW j \in Job
  PROVE  /\ Onward(j) \in Task /\ Onward(j).todo \subseteq Registered
         /\ Onward(j).stage = "collect" => Onward(j).rows = source
  <1>1. job[j] \in Task
    BY DEF CollectionTyped
  <1>2. Following(job[j].stage) \in Stage
    BY DEF Following, Stage
  <1>3. Onward(j) \in {Entering(Following(job[j].stage), job[j], TRUE), Entering("cluster", job[j], FALSE), Idle}
    BY DEF Onward
  <1>4. "cluster" \in Stage
    BY DEF Stage
  <1>5. CASE Onward(j) = Entering(Following(job[j].stage), job[j], TRUE)
    <2>1. PICK st \in Stage : st = Following(job[j].stage)
      BY <1>2
    <2>2. Entering(st, job[j], TRUE) \in Task
          /\ Entering(st, job[j], TRUE).todo \subseteq Registered
          /\ (st = "collect" => Entering(st, job[j], TRUE).rows = source)
          /\ Entering(st, job[j], TRUE).stage = st
      BY <1>1, EnteringIs
    <2>3. Onward(j) = Entering(st, job[j], TRUE)
      BY <1>5, <2>1
    <2>. QED
      BY <2>2, <2>3
  <1>6. CASE Onward(j) = Entering("cluster", job[j], FALSE)
    <2>1. Entering("cluster", job[j], FALSE) \in Task /\ Entering("cluster", job[j], FALSE).todo \subseteq Registered
      BY <1>1, <1>4, EnteringIs
    <2>2. Entering("cluster", job[j], FALSE).stage = "cluster"
      BY <1>1, <1>4, EnteringIs
    <2>. QED
      BY <1>6, <2>1, <2>2
  <1>7. CASE Onward(j) = Idle
    BY <1>7, IdleIsATask
  <1>. QED
    BY <1>3, <1>5, <1>6, <1>7

-----------------------------------------------------------------------------
(* The steps of a job that store nothing. *)

LEMMA OnwardKeeps ==
  ASSUME CollectionIInv, NEW j \in Job, NEW S \in SUBSET (Stage \cup {"source"}),
         \/ job' = [job EXCEPT ![j] = Onward(j)]
         \/ job' = [job EXCEPT ![j] = [Onward(j) EXCEPT !.failed = @ \cup S]],
         UNCHANGED <<published, source, editing>>, evidence' \subseteq Entry, items' \in [Entry -> ItemRow],
         \A e \in Entry : items'[e].state = "none" => items[e].state = "none"
  PROVE  CollectionIInv'
  <1>1. CollectionTyped
    BY DEF CollectionIInv
  <1>2. PICK o \in Task : o = Onward(j) /\ o.todo \subseteq Registered /\ (o.stage = "collect" => o.rows = source)
    BY <1>1, OnwardIs
  <1>3. CASE job' = [job EXCEPT ![j] = o]
    BY <1>2, <1>3, JobStepKeeps
  <1>4. CASE job' = [job EXCEPT ![j] = [o EXCEPT !.failed = @ \cup S]]
    <2>1. PICK q \in Task : q = [o EXCEPT !.failed = @ \cup S]
      BY DEF Task
    <2>2. q.stage = o.stage /\ q.rows = o.rows /\ q.todo = o.todo
      BY <2>1 DEF Task
    <2>. QED
      BY <1>2, <1>4, <2>1, <2>2, JobStepKeeps
  <1>. QED
    BY <1>2, <1>3, <1>4

LEMMA IdleKeeps ==
  ASSUME CollectionIInv, NEW j \in Job, job' = [job EXCEPT ![j] = Idle], UNCHANGED <<published, source, items, evidence, editing>>
  PROVE  CollectionIInv'
  <1>1. items \in [Entry -> ItemRow] /\ evidence \subseteq Entry
    BY DEF CollectionIInv, CollectionTyped
  <1>2. Idle \in Task /\ Idle.stage # "collect" /\ Idle.todo = {}
    BY IdleIsATask
  <1>. QED
    BY <1>1, <1>2, JobStepKeeps

LEMMA BeginKeeps ==
  ASSUME CollectionIInv, NEW j \in Job, Begin(j)
  PROVE  CollectionIInv'
  <1>1. CollectionTyped /\ items \in [Entry -> ItemRow] /\ evidence \subseteq Entry
    BY DEF CollectionIInv, CollectionTyped
  <1>2. PICK q \in Task : q = Entering("ingest", Idle, TRUE) /\ q.stage = "ingest" /\ q.todo \subseteq Registered
    BY <1>1, IdleIsATask, EnteringIs DEF Stage
  <1>3. /\ job' = [job EXCEPT ![j] = q]
        /\ UNCHANGED <<published, source, editing>> /\ items' = items /\ evidence' = evidence
    BY <1>2 DEF Begin, stored
  <1>. QED
    BY <1>1, <1>2, <1>3, JobStepKeeps

LEMMA NextStageKeeps ==
  ASSUME CollectionIInv, NEW j \in Job, NextStage(j)
  PROVE  CollectionIInv'
  <1>1. items \in [Entry -> ItemRow] /\ evidence \subseteq Entry
    BY DEF CollectionIInv, CollectionTyped
  <1>2. /\ job' = [job EXCEPT ![j] = Onward(j)]
        /\ UNCHANGED <<published, source, editing>> /\ items' = items /\ evidence' = evidence
    BY DEF NextStage, stored
  <1>3. {} \in SUBSET (Stage \cup {"source"})
    OBVIOUS
  <1>. QED
    BY <1>1, <1>2, <1>3, OnwardKeeps

LEMMA StageFailsKeeps ==
  ASSUME CollectionIInv, NEW j \in Job, StageFails(j)
  PROVE  CollectionIInv'
  <1>1. items \in [Entry -> ItemRow] /\ evidence \subseteq Entry /\ job[j] \in Task
    BY DEF CollectionIInv, CollectionTyped
  <1>2. UNCHANGED <<published, source, editing>> /\ items' = items /\ evidence' = evidence
    BY DEF StageFails, stored
  <1>3. {job[j].stage} \in SUBSET (Stage \cup {"source"})
    BY <1>1 DEF Task
  <1>4. \/ job' = [job EXCEPT ![j] = [Onward(j) EXCEPT !.failed = @ \cup {job[j].stage}]]
        \/ job' = [job EXCEPT ![j] = Idle]
    BY DEF StageFails
  <1>5. CASE job' = [job EXCEPT ![j] = [Onward(j) EXCEPT !.failed = @ \cup {job[j].stage}]]
    <2>1. PICK S \in SUBSET (Stage \cup {"source"}) : S = {job[j].stage}
      BY <1>3
    <2>. QED
      BY <1>1, <1>2, <1>5, <2>1, OnwardKeeps
  <1>6. CASE job' = [job EXCEPT ![j] = Idle]
    BY <1>2, <1>6, IdleKeeps
  <1>. QED
    BY <1>4, <1>5, <1>6

LEMMA IngestReadKeeps ==
  ASSUME CollectionIInv, NEW j \in Job, IngestRead(j)
  PROVE  CollectionIInv'
  <1>1. CollectionTyped /\ items \in [Entry -> ItemRow] /\ evidence \subseteq Entry /\ job[j] \in Task
    BY DEF CollectionIInv, CollectionTyped
  <1>2. UNCHANGED <<published, source, editing>> /\ items' = items /\ evidence' = evidence /\ job[j].stage = "ingest"
    BY DEF IngestRead, stored
  <1>3. PICK s \in job[j].todo : job' = [job EXCEPT ![j] = Opened(job[j], s, Page(source[s].feed) \ evidence)]
    BY DEF IngestRead
  <1>4. s \in Source /\ source[s] # Nil /\ job[j].todo \subseteq Registered
    BY DEF CollectionIInv, WorkIsRegistered, Registered
  <1>5. source[s] \in Row
    BY <1>1, <1>4 DEF CollectionTyped
  <1>6. source[s].feed \in Feed
    BY <1>5 DEF Row
  <1>7. PICK p \in SUBSET Entry : p = Page(source[s].feed) \ evidence
    BY <1>1, <1>6, PageIs
  <1>8. PICK q \in Task : q = Opened(job[j], s, p)
    BY <1>1, <1>4 DEF Task, Opened
  <1>9. q.stage = job[j].stage /\ q.todo \subseteq job[j].todo
    BY <1>1, <1>8 DEF Task, Opened
  <1>. QED
    BY <1>1, <1>2, <1>3, <1>4, <1>7, <1>8, <1>9, JobStepKeeps

LEMMA IngestWriteKeeps ==
  ASSUME CollectionIInv, NEW j \in Job, IngestWrite(j)
  PROVE  CollectionIInv'
  <1>1. CollectionTyped /\ items \in [Entry -> ItemRow] /\ evidence \subseteq Entry /\ job[j] \in Task
    BY DEF CollectionIInv, CollectionTyped
  <1>2. UNCHANGED <<published, source, editing>> /\ items' = items /\ job[j].stage = "ingest"
    BY DEF IngestWrite
  <1>3. PICK new \in SUBSET job[j].page :
          evidence' = evidence \cup new /\ job' = [job EXCEPT ![j] = Ingested(job[j], new)]
    <2>. DEFINE first == CHOOSE e \in job[j].page : \A d \in job[j].page : e[2] <= d[2]
                new == IF first \notin evidence THEN job[j].page \ evidence ELSE {}
    <2>1. evidence' = evidence \cup new /\ job' = [job EXCEPT ![j] = Ingested(job[j], new)]
      BY Zenon DEF IngestWrite
    <2>2. new \in SUBSET job[j].page
      OBVIOUS
    <2>. QED
      BY <2>1, <2>2
  <1>4. new \subseteq Entry
    BY <1>1 DEF Task
  <1>5. PICK q \in Task : q = Ingested(job[j], new)
    BY <1>1, <1>4 DEF Task, Ingested
  <1>6. q.stage = job[j].stage /\ q.todo \subseteq job[j].todo
    BY <1>1, <1>5 DEF Task, Ingested
  <1>7. evidence' \subseteq Entry /\ job[j].todo \subseteq Registered
    BY <1>1, <1>3, <1>4 DEF CollectionIInv, WorkIsRegistered
  <1>. QED
    BY <1>1, <1>2, <1>3, <1>5, <1>6, <1>7, JobStepKeeps

LEMMA CollectCommandKeeps ==
  ASSUME CollectionIInv, NEW j \in Job, NEW todo \in SUBSET Registered, CollectCommand(j, todo)
  PROVE  CollectionIInv'
  <1>1. CollectionTyped /\ items \in [Entry -> ItemRow] /\ evidence \subseteq Entry /\ source \in [Source -> Row \cup {Nil}]
    BY DEF CollectionIInv, CollectionTyped
  <1>2. /\ UNCHANGED <<published, source, editing>> /\ items' = items /\ evidence' = evidence
        /\ job' = [job EXCEPT ![j] = [Idle EXCEPT !.stage = "collect", !.todo = todo, !.rows = source]]
    BY DEF CollectCommand, stored
  <1>3. todo \subseteq Source
    BY DEF Registered
  <1>4. PICK q \in Task : q = [Idle EXCEPT !.stage = "collect", !.todo = todo, !.rows = source]
    BY <1>1, <1>3 DEF Task, Idle, Stage
  <1>5. q.rows = source /\ q.todo = todo
    BY <1>4 DEF Idle
  <1>. QED
    BY <1>1, <1>2, <1>4, <1>5, JobStepKeeps

LEMMA IngestCommandKeeps ==
  ASSUME CollectionIInv, NEW j \in Job, IngestCommand(j)
  PROVE  CollectionIInv'
  <1>1. CollectionTyped /\ items \in [Entry -> ItemRow] /\ evidence \subseteq Entry
    BY DEF CollectionIInv, CollectionTyped
  <1>2. UNCHANGED <<published, source, editing>> /\ items' = items /\ evidence' = evidence
    BY DEF IngestCommand, stored
  <1>3. PICK s \in PluginSources : job' = [job EXCEPT ![j] = [Idle EXCEPT !.stage = "ingest", !.todo = {s}]]
    BY DEF IngestCommand
  <1>4. s \in Source
    BY DEF PluginSources, Registered
  <1>5. PICK q \in Task : q = [Idle EXCEPT !.stage = "ingest", !.todo = {s}]
    BY <1>4 DEF Task, Idle, Stage
  <1>6. q.stage = "ingest" /\ q.todo = {s} /\ s \in Registered
    BY <1>5 DEF Idle, PluginSources
  <1>. QED
    BY <1>1, <1>2, <1>3, <1>5, <1>6, JobStepKeeps

LEMMA AnalyseCommandKeeps ==
  ASSUME CollectionIInv, NEW j \in Job, AnalyseCommand(j)
  PROVE  CollectionIInv'
  <1>1. CollectionTyped /\ items \in [Entry -> ItemRow] /\ evidence \subseteq Entry
    BY DEF CollectionIInv, CollectionTyped
  <1>2. PICK q \in Task : q = Entering("analyse", Idle, FALSE) /\ q.stage = "analyse" /\ q.todo \subseteq Registered
    BY <1>1, IdleIsATask, EnteringIs DEF Stage
  <1>3. /\ job' = [job EXCEPT ![j] = q]
        /\ UNCHANGED <<published, source, editing>> /\ items' = items /\ evidence' = evidence
    BY <1>2 DEF AnalyseCommand, stored
  <1>. QED
    BY <1>1, <1>2, <1>3, JobStepKeeps

-----------------------------------------------------------------------------
(* Analysis: an item that is stored stays so, and is analysed once. *)

LEMMA AnalysedItemIs ==
  ASSUME NEW i \in ItemRow
  PROVE  AnalysedItem(i, 1) \in ItemRow /\ (AnalysedItem(i, 1).state = "none" => i.state = "none")
  <1>1. PICK st \in {"none", "pending", "processed", "considered"} :
          st = (IF i.state = "pending" THEN "processed" ELSE i.state)
    BY DEF ItemRow
  <1>2. PICK r \in ItemRow : r = [i EXCEPT !.state = st]
    BY DEF ItemRow
  <1>3. PICK q \in ItemRow : q = [r EXCEPT !.mentions = 1]
    <2>1. 1 \in 0..1
      OBVIOUS
    <2>. QED
      BY <2>1 DEF ItemRow
  <1>4. q = AnalysedItem(i, 1)
    <2>1. AnalysedItem(i, 1) = [i EXCEPT !.state = st, !.mentions = 1]
      BY <1>1 DEF AnalysedItem
    <2>. QED
      BY <1>2, <1>3, <2>1 DEF ItemRow
  <1>5. q.state = st
    BY <1>2, <1>3 DEF ItemRow
  <1>. QED
    BY <1>1, <1>4, <1>5

LEMMA AnalyseKeeps ==
  ASSUME CollectionIInv, NEW j \in Job, Analyse(j)
  PROVE  CollectionIInv'
  <1>1. CollectionTyped /\ items \in [Entry -> ItemRow] /\ evidence \subseteq Entry
    BY DEF CollectionIInv, CollectionTyped
  <1>2. UNCHANGED <<published, source, editing>> /\ evidence' = evidence
    BY DEF Analyse
  <1>3. items' \in [Entry -> ItemRow] /\ \A e \in Entry : items'[e].state = "none" => items[e].state = "none"
    <2>1. CASE Refused(job[j].list)
      <3>1. items' = items
        BY <2>1 DEF Analyse
      <3>. QED
        BY <1>1, <3>1
    <2>2. CASE ~Refused(job[j].list)
      <3>1. items' = Analysed(job[j].list)
        BY <2>2 DEF Analyse
      <3>2. \A e \in Entry : items'[e] \in ItemRow /\ (items'[e].state = "none" => items[e].state = "none")
        <4>. TAKE e \in Entry
        <4>1. PICK i \in ItemRow : i = items[e]
          BY <1>1
        <4>2. CASE e \notin job[j].list
          BY <3>1, <4>1, <4>2 DEF Analysed
        <4>3. CASE e \in job[j].list
          <5>1. ~(i.mentions > 0)
            BY <2>2, <4>1, <4>3 DEF Refused
          <5>2. i.mentions = 0
            BY <5>1 DEF ItemRow
          <5>3. items'[e] = AnalysedItem(i, 1)
            BY <3>1, <4>1, <4>3, <5>2 DEF Analysed
          <5>. QED
            BY <4>1, <5>3, AnalysedItemIs
        <4>. QED
          BY <4>2, <4>3
      <3>3. items' = [e \in Entry |-> items'[e]]
        BY <3>1 DEF Analysed
      <3>. QED
        BY <3>2, <3>3
    <2>. QED
      BY <2>1, <2>2
  <1>4. \/ job' = [job EXCEPT ![j] = Onward(j)]
        \/ job' = [job EXCEPT ![j] = [Onward(j) EXCEPT !.failed = @ \cup {"analyse"}]]
    BY Zenon DEF Analyse
  <1>5. PICK S \in SUBSET (Stage \cup {"source"}) : S = {"analyse"}
    BY DEF Stage
  <1>. QED
    BY <1>1, <1>2, <1>3, <1>4, <1>5, OnwardKeeps

LEMMA ClusterKeeps ==
  ASSUME CollectionIInv, NEW j \in Job, Cluster(j)
  PROVE  CollectionIInv'
  <1>1. CollectionTyped /\ items \in [Entry -> ItemRow] /\ evidence \subseteq Entry
    BY DEF CollectionIInv, CollectionTyped
  <1>2. UNCHANGED <<published, source, editing>> /\ evidence' = evidence /\ job' = [job EXCEPT ![j] = Onward(j)]
    BY DEF Cluster
  <1>3. items' = [e \in Entry |-> IF items[e].state = "processed" THEN [items[e] EXCEPT !.state = "considered"] ELSE items[e]]
    BY DEF Cluster
  <1>4. \A e \in Entry : items'[e] \in ItemRow /\ (items'[e].state = "none" => items[e].state = "none")
    <2>. TAKE e \in Entry
    <2>1. PICK i \in ItemRow : i = items[e]
      BY <1>1
    <2>2. items'[e] = IF i.state = "processed" THEN [i EXCEPT !.state = "considered"] ELSE i
      BY <1>3, <2>1
    <2>. QED
      BY <2>1, <2>2 DEF ItemRow
  <1>5. items' \in [Entry -> ItemRow]
    <2>1. items' = [e \in Entry |-> items'[e]]
      BY <1>3
    <2>. QED
      BY <1>4, <2>1
  <1>6. {} \in SUBSET (Stage \cup {"source"})
    OBVIOUS
  <1>. QED
    BY <1>1, <1>2, <1>4, <1>5, <1>6, OnwardKeeps

LEMMA BackfillKeeps ==
  ASSUME CollectionIInv, NEW j \in Job, Backfill(j)
  PROVE  CollectionIInv'
  <1>1. items \in [Entry -> ItemRow] /\ evidence \subseteq Entry
    BY DEF CollectionIInv, CollectionTyped
  <1>2. /\ job' = [job EXCEPT ![j] = Onward(j)]
        /\ UNCHANGED <<published, source, editing>> /\ items' = items /\ evidence' = evidence
    BY DEF Backfill
  <1>3. {} \in SUBSET (Stage \cup {"source"})
    OBVIOUS
  <1>. QED
    BY <1>1, <1>2, <1>3, OnwardKeeps

\* A step of no job.
LEMMA OtherStepKeeps ==
  ASSUME CollectionIInv, UNCHANGED <<job, evidence>>, published' \in [Feed -> Nat],
         \A f \in Feed : published[f] <= published'[f] /\ published'[f] <= MaxEntry[f],
         source' \in [Source -> Row \cup {Nil}],
         items' \in [Entry -> ItemRow],
         editing' \in {Nil} \cup [source : Source, row : Row, edit : Edits],
         \A e \in Entry : items'[e].state = "none" => items[e].state = "none",
         \A s \in Source : source[s] # Nil => source'[s] # Nil,
         \A c \in Entry : \A s \in Source :
           source'[s] # Nil /\ source'[s].cursor = c => (source[s] # Nil /\ source[s].cursor = c) \/ Sound(c)',
         editing' # Nil => editing' = editing \/ source[editing'.source] # Nil
  PROVE  CollectionIInv'
  <1>1. CollectionTyped'
    BY DEF CollectionIInv, CollectionTyped
  <1>2. \A j \in Job : job'[j].todo \subseteq Registered
    BY DEF CollectionIInv, WorkIsRegistered
  <1>. QED
    BY <1>1, <1>2, StepKeeps

LEMMA ReprocessKeeps ==
  ASSUME CollectionIInv, Reprocess
  PROVE  CollectionIInv'
  <1>1. CollectionTyped
    BY DEF CollectionIInv
  <1>2. items' = [e \in Entry |-> IF items[e].state = "none" THEN items[e] ELSE AnalysedItem(items[e], 1)]
    BY DEF Reprocess
  <1>3. \A e \in Entry : items'[e] \in ItemRow /\ (items'[e].state = "none" => items[e].state = "none")
    <2>. TAKE e \in Entry
    <2>1. PICK i \in ItemRow : i = items[e]
      BY <1>1 DEF CollectionTyped
    <2>2. items'[e] = IF i.state = "none" THEN i ELSE AnalysedItem(i, 1)
      BY <1>2, <2>1
    <2>. QED
      BY <2>1, <2>2, AnalysedItemIs
  <1>4. items' \in [Entry -> ItemRow]
    <2>1. items' = [e \in Entry |-> items'[e]]
      BY <1>2
    <2>. QED
      BY <1>3, <2>1
  <1>5. UNCHANGED <<published, source, job, editing, evidence>>
    BY DEF Reprocess
  <1>6. \A f \in Feed : published[f] <= published'[f] /\ published'[f] <= MaxEntry[f]
    BY <1>1, <1>5 DEF CollectionTyped
  <1>. QED
    BY <1>1, <1>3, <1>4, <1>5, <1>6, OtherStepKeeps DEF CollectionTyped

LEMMA QuietKeeps ==
  ASSUME CollectionIInv, UNCHANGED <<published, source, items, evidence, job, editing>>
  PROVE  CollectionIInv'
  <1>1. CollectionTyped
    BY DEF CollectionIInv
  <1>2. \A f \in Feed : published[f] <= published'[f] /\ published'[f] <= MaxEntry[f]
    BY <1>1 DEF CollectionTyped
  <1>. QED
    BY <1>1, <1>2, OtherStepKeeps DEF CollectionTyped

-----------------------------------------------------------------------------
(* Feeds, time and edits. *)

LEMMA PublishKeeps ==
  ASSUME CollectionIInv, NEW f \in Feed, Publish(f)
  PROVE  CollectionIInv'
  <1>1. CollectionTyped
    BY DEF CollectionIInv
  <1>2. /\ UNCHANGED <<source, items, evidence, job, editing>>
        /\ published[f] < MaxEntry[f] /\ published' = [published EXCEPT ![f] = @ + 1]
    BY DEF Publish, stored
  <1>3. published' \in [Feed -> Nat]
    BY <1>1, <1>2 DEF CollectionTyped
  <1>4. \A g \in Feed : published[g] <= published'[g] /\ published'[g] <= MaxEntry[g]
    <2>1. \A g \in Feed : published[g] \in Nat /\ published[g] <= MaxEntry[g]
      BY <1>1 DEF CollectionTyped
    <2>2. \A g \in Feed : MaxEntry[g] \in Nat /\ published'[g] = IF g = f THEN published[g] + 1 ELSE published[g]
      BY <1>1, <1>2, CollectionNumbers DEF CollectionTyped
    <2>. QED
      BY <1>2, <2>1, <2>2
  <1>. QED
    BY <1>1, <1>2, <1>3, <1>4, OtherStepKeeps DEF CollectionTyped

LEMMA TickKeeps ==
  ASSUME CollectionIInv, Tick
  PROVE  CollectionIInv'
  <1>1. CollectionTyped
    BY DEF CollectionIInv
  <1>2. /\ UNCHANGED <<published, items, evidence, job, editing>>
        /\ source' = [s \in Source |-> IF source[s] = Nil THEN Nil ELSE [source[s] EXCEPT !.age = Older(s)]]
    BY DEF Tick, stored
  <1>3. \A s \in Source : /\ source'[s] \in Row \cup {Nil} /\ (source[s] # Nil => source'[s] # Nil)
                          /\ source'[s] # Nil => source[s] # Nil /\ source'[s].cursor = source[s].cursor
    <2>. TAKE s \in Source
    <2>1. CASE source[s] = Nil
      BY <1>2, <2>1
    <2>2. CASE source[s] # Nil
      <3>1. PICK r \in Row : r = source[s]
        BY <1>1, <2>2 DEF CollectionTyped
      <3>2. Older(s) \in Int
        BY <3>1 DEF Older, Row
      <3>3. source'[s] = [r EXCEPT !.age = Older(s)]
        BY <1>2, <2>2, <3>1
      <3>4. [r EXCEPT !.age = Older(s)] \in Row
        BY <3>2 DEF Row
      <3>5. [r EXCEPT !.age = Older(s)].cursor = r.cursor
        BY DEF Row
      <3>6. Nil \notin Row
        BY CollectionRows
      <3>. QED
        BY <2>2, <3>1, <3>3, <3>4, <3>5, <3>6
    <2>. QED
      BY <2>1, <2>2
  <1>4. source' \in [Source -> Row \cup {Nil}]
    BY <1>2, <1>3
  <1>5. \A g \in Feed : published[g] <= published'[g] /\ published'[g] <= MaxEntry[g]
    BY <1>1, <1>2 DEF CollectionTyped
  <1>. QED
    BY <1>1, <1>2, <1>3, <1>4, <1>5, OtherStepKeeps DEF CollectionTyped

LEMMA UpdateReadKeeps ==
  ASSUME CollectionIInv, UpdateRead
  PROVE  CollectionIInv'
  <1>1. CollectionTyped
    BY DEF CollectionIInv
  <1>2. UNCHANGED <<published, source, items, evidence, job>>
    BY DEF UpdateRead, stored
  <1>3. PICK s \in Registered, edit \in Edits : editing' = [source |-> s, row |-> source[s], edit |-> edit]
    BY DEF UpdateRead
  <1>4. s \in Source /\ source[s] # Nil
    BY DEF Registered
  <1>5. source[s] \in Row
    BY <1>1, <1>4 DEF CollectionTyped
  <1>6. editing' \in [source : Source, row : Row, edit : Edits]
    BY <1>3, <1>4, <1>5
  <1>7. source[editing'.source] # Nil
    BY <1>3, <1>4
  <1>8. \A f \in Feed : published[f] <= published'[f] /\ published'[f] <= MaxEntry[f]
    BY <1>1, <1>2 DEF CollectionTyped
  <1>. QED
    BY <1>1, <1>2, <1>6, <1>7, <1>8, OtherStepKeeps DEF CollectionTyped

\* An edit of a row leaves its cursor or resets it.
LEMMA EditedIs ==
  ASSUME NEW row \in Row, NEW loaded \in Row, NEW edit \in Edits
  PROVE  Edited(row, loaded, edit) \in Row /\ Edited(row, loaded, edit).cursor \in {Nil, row.cursor}
  <1>. DEFINE moved == edit.feed # loaded.feed
  <1>0. edit \in [feed : Feed, enabled : BOOLEAN, polling : BOOLEAN] /\ None \in Int
    BY CollectionRows, CollectionNumbers
  <1>1. PICK feed \in Feed : feed = Flushed(row.feed, loaded.feed, edit.feed)
    BY <1>0 DEF Flushed, Row
  <1>2. PICK enabled \in BOOLEAN : enabled = Flushed(row.enabled, loaded.enabled, edit.enabled)
    BY <1>0 DEF Flushed, Row
  <1>3. PICK polling \in BOOLEAN : polling = Flushed(row.polling, loaded.polling, edit.polling /\ edit.enabled)
    BY <1>0 DEF Flushed, Row
  <1>4. PICK cursor \in {Nil, row.cursor} : cursor = IF moved THEN Flushed(row.cursor, loaded.cursor, Nil) ELSE row.cursor
    BY DEF Flushed
  <1>5. PICK age \in Int : age = IF moved THEN Flushed(row.age, loaded.age, None) ELSE row.age
    BY <1>0 DEF Flushed, Row
  <1>6. PICK error \in BOOLEAN : error = IF moved THEN Flushed(row.error, loaded.error, FALSE) ELSE row.error
    BY DEF Flushed, Row
  <1>7. cursor \in Entry \cup {Nil}
    BY DEF Row
  <1>. DEFINE r == [row EXCEPT !.feed = feed, !.enabled = enabled, !.polling = polling,
                               !.cursor = cursor, !.age = age, !.error = error]
  <1>8. Edited(row, loaded, edit) = r
    BY <1>1, <1>2, <1>3, <1>4, <1>5, <1>6 DEF Edited
  <1>9. r \in Row /\ r.cursor = cursor
    BY <1>7 DEF Row
  <1>. QED
    BY <1>8, <1>9

LEMMA UpdateWriteKeeps ==
  ASSUME CollectionIInv, UpdateWrite
  PROVE  CollectionIInv'
  <1>1. CollectionTyped
    BY DEF CollectionIInv
  <1>2. /\ UNCHANGED <<published, items, evidence, job>> /\ editing # Nil /\ editing' = Nil
        /\ source' = [source EXCEPT ![editing.source] = Edited(@, editing.row, editing.edit)]
    BY DEF UpdateWrite, stored
  <1>3. editing \in [source : Source, row : Row, edit : Edits]
    BY <1>1, <1>2 DEF CollectionTyped
  <1>4. PICK s \in Source : s = editing.source /\ source[s] # Nil
    BY <1>2, <1>3 DEF CollectionIInv, WorkIsRegistered
  <1>5. source[s] \in Row
    BY <1>1, <1>4 DEF CollectionTyped
  <1>6. PICK r \in Row : r = Edited(source[s], editing.row, editing.edit) /\ r.cursor \in {Nil, source[s].cursor}
    BY <1>3, <1>5, EditedIs
  <1>7. source' = [source EXCEPT ![s] = r]
    BY <1>2, <1>4, <1>6
  <1>8. source' \in [Source -> Row \cup {Nil}] /\ \A t \in Source : source[t] # Nil => source'[t] # Nil
    BY <1>1, <1>7, CollectionRows DEF CollectionTyped
  <1>9. \A c \in Entry : \A t \in Source :
          source'[t] # Nil /\ source'[t].cursor = c => source[t] # Nil /\ source[t].cursor = c
    <2>. TAKE c \in Entry
    <2>. TAKE t \in Source
    <2>1. CASE t = s
      BY <1>1, <1>4, <1>6, <1>7, <2>1, CollectionRows DEF CollectionTyped
    <2>2. CASE t # s
      BY <1>1, <1>7, <2>2 DEF CollectionTyped
    <2>. QED
      BY <2>1, <2>2
  <1>10. \A f \in Feed : published[f] <= published'[f] /\ published'[f] <= MaxEntry[f]
    BY <1>1, <1>2 DEF CollectionTyped
  <1>. QED
    BY <1>1, <1>2, <1>8, <1>9, <1>10, OtherStepKeeps DEF CollectionTyped

-----------------------------------------------------------------------------
(* The run of a source. *)

\* A page that is not empty has a newest entry.
LEMMA NewestIs ==
  ASSUME CollectionTyped, NEW f \in Feed, NEW E \in SUBSET Page(f), E # {}
  PROVE  NewestOf(E) \in E /\ \A e \in E : e[2] <= NewestOf(E)[2]
  <1>1. \A e \in E : e \in Entry /\ e[2] \in Nat /\ e[2] <= published[f] /\ published[f] - e[2] \in Nat
    <2>. TAKE e \in E
    <2>1. e \in Entry /\ e[2] <= published[f]
      BY PageIs
    <2>2. e[2] \in Nat /\ published[f] \in Nat
      BY <2>1, EntryIs DEF CollectionTyped
    <2>. QED
      BY <2>1, <2>2
  <1>. DEFINE D == {published[f] - e[2] : e \in E}
              less == {p \in Nat \X Nat : p[1] < p[2]}
  <1>2. IsWellFoundedOn(less, Nat)
    BY NatLessThanWellFounded DEF OpToRel
  <1>3. D \in SUBSET Nat /\ D # {}
    BY <1>1
  <1>4. PICK d \in D : \A x \in D : ~(<<x, d>> \in less)
    <2>. HIDE DEF less, D
    <2>. QED
      BY <1>2, <1>3, WFMin
  <1>5. \A x \in D : d <= x
    <2>. TAKE x \in D
    <2>1. <<x, d>> \in Nat \X Nat /\ ~(<<x, d>> \in less)
      BY <1>3, <1>4
    <2>2. <<x, d>>[1] = x /\ <<x, d>>[2] = d
      OBVIOUS
    <2>3. ~(x < d)
      BY <2>1, <2>2
    <2>. QED
      BY <2>1, <2>3
  <1>6. PICK m \in E : d = published[f] - m[2]
    OBVIOUS
  <1>7. \A e \in E : e[2] <= m[2]
    <2>. TAKE e \in E
    <2>1. published[f] - m[2] <= published[f] - e[2]
      BY <1>5, <1>6
    <2>2. published[f] \in Nat /\ m[2] \in Nat /\ e[2] \in Nat
      BY <1>1 DEF CollectionTyped
    <2>. QED
      BY <2>1, <2>2
  <1>. QED
    BY <1>7 DEF NewestOf

\* What lies below the cursor a provider returns, it returns, or is not needed.
LEMMA FetchedIs ==
  ASSUME CollectionTyped, NEW s \in Source, NEW row \in Row, row.cursor # Nil => Sound(row.cursor), NEW got \in Fetched(s, row)
  PROVE  /\ got.entries \subseteq Page(row.feed)
         /\ got.next # row.cursor =>
              /\ got.next \in Entry /\ got.next[1] = row.feed /\ got.next[2] <= published[row.feed]
              /\ \A e \in Page(row.feed) : e[2] <= got.next[2] => e \in got.entries \/ Kept(e)
  <1>. DEFINE f == row.feed
              c == row.cursor
  <1>1. f \in Feed /\ c \in Entry \cup {Nil}
    BY DEF Row
  <1>2. published[f] \in Nat /\ PerPage \in Nat /\ published[f] <= MaxEntry[f] /\ MaxEntry[f] \in Nat
    BY <1>1, CollectionNumbers DEF CollectionTyped
  <1>3. \A e \in Page(f) : /\ e \in Entry /\ e[1] = f /\ e[2] \in Nat /\ e[2] <= published[f]
                           /\ e[2] > published[f] - PerPage
    BY <1>1, PageIs, EntryIs
  <1>4. Above(f, c) \subseteq Page(f)
    BY DEF Above
  \* What the walk down from the newest leaves out the cursor answers for.
  <1>5. ASSUME NEW e \in Page(f), e \notin Above(f, c)
        PROVE  Kept(e)
    <2>1. c \in Page(f) /\ ~(e[2] > c[2])
      BY <1>5 DEF Above
    <2>2. c # Nil /\ e[1] = c[1] /\ e[2] <= c[2] /\ e \in Entry
      BY <1>3, <2>1, CollectionRows
    <2>3. e[2] <= published[c[1]] - PerPage \/ Kept(e)
      BY <2>2 DEF Sound
    <2>4. ~(e[2] <= published[c[1]] - PerPage)
      BY <1>2, <1>3, <2>1
    <2>. QED
      BY <2>3, <2>4
  <1>6. CASE got = FromRss(row)
    <2>1. got.entries = Above(f, c) /\ got.next = (IF published[f] > 0 THEN <<f, published[f]>> ELSE c)
      BY <1>6 DEF FromRss
    <2>2. CASE published[f] > 0
      <3>1. got.next = <<f, published[f]>> /\ <<f, published[f]>> \in Entry
        BY <1>1, <1>2, <2>1, <2>2, EntryOf
      <3>2. got.next[1] = f /\ got.next[2] = published[f]
        BY <3>1
      <3>. QED
        BY <1>2, <1>4, <1>5, <2>1, <3>1, <3>2
    <2>3. CASE ~(published[f] > 0)
      BY <1>4, <2>1, <2>3
    <2>. QED
      BY <2>2, <2>3
  <1>7. CASE got \in FromX(row)
    <2>1. PICK E \in {Above(f, c), Page(f) \ {c}} :
            got = [entries |-> E, next |-> IF E = {} THEN c ELSE NewestOf(E)]
      BY <1>7 DEF FromX
    <2>2. got.entries = E /\ got.next = (IF E = {} THEN c ELSE NewestOf(E)) /\ E \subseteq Page(f)
      BY <1>4, <2>1
    <2>3. CASE E = {}
      BY <2>2, <2>3
    <2>4. CASE E # {}
      <3>1. got.next \in E /\ got.next \in Page(f)
        BY <1>1, <2>2, <2>4, NewestIs
      <3>2. ASSUME NEW e \in Page(f), e \notin E
            PROVE  Kept(e)
        <4>1. CASE E = Above(f, c)
          BY <1>5, <3>2, <4>1
        <4>2. CASE E = Page(f) \ {c}
          <5>1. e = c /\ c # Nil /\ c \in Entry /\ c[2] \in Nat
            BY <1>3, <3>2, <4>2, CollectionRows
          <5>2. e[2] <= published[c[1]] - PerPage \/ Kept(e)
            BY <5>1 DEF Sound
          <5>3. e[1] = f /\ ~(e[2] <= published[f] - PerPage)
            BY <1>2, <1>3
          <5>. QED
            BY <5>1, <5>2, <5>3
        <4>. QED
          BY <4>1, <4>2
      <3>. QED
        BY <1>3, <2>2, <3>1, <3>2
    <2>. QED
      BY <2>2, <2>3, <2>4
  <1>8. got = FromRss(row) \/ got \in FromX(row)
    BY DEF Fetched
  <1>. QED
    BY <1>6, <1>7, <1>8

\* The row a run writes.
LEMMA PolledRowIs ==
  ASSUME NEW row \in Row, NEW loaded \in Row, NEW ok \in BOOLEAN, NEW next \in Entry \cup {Nil}
  PROVE  /\ PolledRow(row, loaded, ok, next) \in Row
         /\ PolledRow(row, loaded, ok, next).cursor \in {row.cursor, next}
         /\ ~ok \/ next = loaded.cursor => PolledRow(row, loaded, ok, next).cursor = row.cursor
  <1>1. CASE ok
    <2>1. PICK c \in {row.cursor, next} : c = Flushed(row.cursor, loaded.cursor, next)
      BY DEF Flushed
    <2>2. PICK e \in BOOLEAN : e = Flushed(row.error, loaded.error, FALSE)
      BY DEF Flushed, Row
    <2>3. PolledRow(row, loaded, ok, next) = [row EXCEPT !.cursor = c, !.age = 0, !.error = e]
      BY <1>1, <2>1, <2>2 DEF PolledRow
    <2>4. c \in Entry \cup {Nil}
      BY DEF Row
    <2>5. /\ [row EXCEPT !.cursor = c, !.age = 0, !.error = e] \in Row
          /\ [row EXCEPT !.cursor = c, !.age = 0, !.error = e].cursor = c
      <3>1. PICK q1 \in Row : q1 = [row EXCEPT !.cursor = c]
        BY <2>4 DEF Row
      <3>2. PICK q2 \in Row : q2 = [q1 EXCEPT !.age = 0]
        <4>1. PICK n \in Int : n = 0
          OBVIOUS
        <4>2. [q1 EXCEPT !.age = n] \in Row
          BY DEF Row
        <4>. QED
          BY <4>1, <4>2
      <3>3. PICK q3 \in Row : q3 = [q2 EXCEPT !.error = e]
        BY DEF Row
      <3>4. q3 = [row EXCEPT !.cursor = c, !.age = 0, !.error = e]
        BY <3>1, <3>2, <3>3 DEF Row
      <3>5. q3.cursor = c
        BY <3>1, <3>2, <3>3 DEF Row
      <3>. QED
        BY <3>4, <3>5
    <2>6. next = loaded.cursor => c = row.cursor
      BY <2>1 DEF Flushed
    <2>. QED
      BY <1>1, <2>3, <2>5, <2>6
  <1>2. CASE ~ok
    <2>1. PolledRow(row, loaded, ok, next) = [row EXCEPT !.error = TRUE]
      BY <1>2 DEF PolledRow
    <2>2. [row EXCEPT !.error = TRUE] \in Row /\ [row EXCEPT !.error = TRUE].cursor = row.cursor
      BY DEF Row
    <2>. QED
      BY <2>1, <2>2
  <1>. QED
    BY <1>1, <1>2

\* A run that is good stores what it fetched, and moves the cursor over it; one
\* that fails leaves items and cursor.
LEMMA CollectKeeps ==
  ASSUME CollectionIInv, NEW j \in Job, Collect(j)
  PROVE  CollectionIInv'
  <1>1. CollectionTyped /\ job[j] \in Task
    BY DEF CollectionIInv, CollectionTyped
  <1>2. job[j].stage = "collect" /\ UNCHANGED <<published, evidence, editing>>
    BY DEF Collect
  <1>3. PICK s \in job[j].todo : CollectSource(j, s, job[j].rows[s])
    BY DEF Collect
  <1>4. /\ s \in Source /\ source[s] # Nil /\ job[j].todo \subseteq Registered
        /\ job[j].rows \in [Source -> Row \cup {Nil}] /\ job[j].rows[s] # Nil
        /\ job[j].rows[s].cursor # Nil => Sound(job[j].rows[s].cursor)
    BY <1>2 DEF CollectionIInv, WorkIsRegistered, LoadedAreSound, Registered
  <1>5. source[s] \in Row
    BY <1>1, <1>4 DEF CollectionTyped
  <1>6. PICK row \in Row : row = job[j].rows[s]
    BY <1>4
  <1>7. PICK got \in Fetched(s, row), ok \in BOOLEAN :
          /\ source' = [source EXCEPT ![s] = PolledRow(@, row, ok, got.next)]
          /\ \/ /\ ok /\ job' = [job EXCEPT ![j] = Collected(job[j], s, Keepable(got.entries))]
                /\ items' = [e \in Entry |-> IF e \in Keepable(got.entries)
                               THEN [source |-> s, state |-> "pending", mentions |-> 0] ELSE items[e]]
             \/ ~ok /\ items' = items /\ job' = [job EXCEPT ![j] = NotCollected(job[j], s)]
    BY <1>3, <1>6 DEF CollectSource
  <1>8. /\ got.entries \subseteq Page(row.feed)
        /\ got.next # row.cursor =>
             /\ got.next \in Entry /\ got.next[1] = row.feed /\ got.next[2] <= published[row.feed]
             /\ \A e \in Page(row.feed) : e[2] <= got.next[2] => e \in got.entries \/ Kept(e)
    BY <1>1, <1>4, <1>6, FetchedIs
  <1>9. PICK next \in Entry \cup {Nil} : next = got.next
    BY <1>8 DEF Row
  <1>10. row.feed \in Feed
    BY DEF Row
  <1>11. got.entries \subseteq Entry
    BY <1>1, <1>8, <1>10, PageIs
  <1>12. PICK w \in Row : w = PolledRow(source[s], row, ok, next)
    BY <1>5, PolledRowIs
  <1>13. w.cursor \in {source[s].cursor, next} /\ (~ok \/ next = row.cursor => w.cursor = source[s].cursor)
    BY <1>5, <1>12, PolledRowIs
  <1>14. source' = [source EXCEPT ![s] = w]
    BY <1>7, <1>9, <1>12
  <1>15. source' \in [Source -> Row \cup {Nil}] /\ \A t \in Source : source[t] # Nil => source'[t] # Nil
    BY <1>1, <1>14, CollectionRows DEF CollectionTyped
  <1>16. items' \in [Entry -> ItemRow] /\ \A e \in Entry : items'[e].state = "none" => items[e].state = "none"
    <2>1. [source |-> s, state |-> "pending", mentions |-> 0] \in ItemRow
      <3>1. 0 \in 0..1
        OBVIOUS
      <3>. QED
        BY <1>4, <3>1 DEF ItemRow
    <2>2. items \in [Entry -> ItemRow]
      BY <1>1 DEF CollectionTyped
    <2>. QED
      BY <1>7, <2>1, <2>2
  <1>17. PICK new \in SUBSET Entry : new = Keepable(got.entries)
    BY <1>11 DEF Keepable, Normalised
  <1>18. PICK q \in Task : /\ job' = [job EXCEPT ![j] = q]
                           /\ q.stage = job[j].stage /\ q.rows = job[j].rows /\ q.todo \subseteq job[j].todo
    <2>1. Collected(job[j], s, new) \in Task /\ NotCollected(job[j], s) \in Task
      BY <1>1 DEF Task, Collected, NotCollected
    <2>2. \A q \in {Collected(job[j], s, new), NotCollected(job[j], s)} :
            q.stage = job[j].stage /\ q.rows = job[j].rows /\ q.todo \subseteq job[j].todo
      BY <1>1 DEF Task, Collected, NotCollected
    <2>. QED
      BY <1>7, <1>17, <2>1, <2>2
  <1>19. CollectionTyped'
    BY <1>1, <1>2, <1>15, <1>16, <1>18 DEF CollectionTyped
  \* The new cursor.
  <1>20. \A c \in Entry : \A t \in Source :
          source'[t] # Nil /\ source'[t].cursor = c => (source[t] # Nil /\ source[t].cursor = c) \/ Sound(c)'
    <2>. SUFFICES ASSUME NEW c \in Entry, NEW t \in Source, source'[t] # Nil, source'[t].cursor = c,
                         ~(source[t] # Nil /\ source[t].cursor = c)
                  PROVE  Sound(c)'
      OBVIOUS
    <2>1. t = s
      BY <1>1, <1>14 DEF CollectionTyped
    <2>2. c = w.cursor
      BY <1>1, <1>4, <1>14, <2>1 DEF CollectionTyped
    <2>3. ok /\ next # row.cursor /\ c = next
      BY <1>4, <1>13, <2>1, <2>2
    <2>4. /\ c[1] = row.feed /\ c[2] <= published[row.feed]
          /\ \A e \in Page(row.feed) : e[2] <= c[2] => e \in got.entries \/ Kept(e)
      BY <1>8, <1>9, <2>3
    <2>. SUFFICES ASSUME NEW e \in Entry, e[1] = c[1], e[2] <= c[2]
                  PROVE  e[2] <= published'[c[1]] - PerPage \/ Kept(e)'
      BY DEF Sound
    <2>5. e[2] \in Nat /\ c[2] \in Nat /\ published[row.feed] \in Nat /\ PerPage \in Nat
      BY <1>1, <1>10, EntryIs, CollectionNumbers DEF CollectionTyped
    <2>6. CASE e \notin Page(row.feed)
      <3>1. ~(e[2] > published[row.feed] - PerPage)
        BY <1>1, <1>10, <2>4, <2>5, <2>6, PageIs
      <3>. QED
        BY <1>2, <2>4, <2>5, <3>1
    <2>7. CASE Kept(e)
      BY <1>16, <2>7 DEF Kept
    <2>8. CASE e \in got.entries
      <3>1. CASE e \in Bad
        BY <3>1 DEF Kept
      <3>2. CASE e \notin Bad
        <4>1. items[e].state = "none" => e \in Keepable(got.entries)
          BY <2>8, <3>2 DEF Keepable, Normalised
        <4>2. items'[e].state # "none"
          <5>1. CASE items[e].state # "none"
            BY <1>16, <5>1
          <5>2. CASE items[e].state = "none"
            <6>1. items'[e] = [source |-> s, state |-> "pending", mentions |-> 0]
              BY <1>7, <2>3, <4>1, <5>2
            <6>. QED
              BY <6>1
          <5>. QED
            BY <5>1, <5>2
        <4>. QED
          BY <4>2 DEF Kept
      <3>. QED
        BY <3>1, <3>2
    <2>. QED
      BY <2>4, <2>6, <2>7, <2>8
  <1>21. \A i \in Job : /\ job'[i].todo \subseteq Registered
                        /\ job'[i].stage = "collect" =>
                             /\ job[i].stage = "collect" /\ job'[i].rows = job[i].rows
                             /\ job'[i].todo \subseteq job[i].todo
    <2>1. \A i \in Job : job'[i] = IF i = j THEN q ELSE job[i]
      BY <1>1, <1>18 DEF CollectionTyped
    <2>2. \A i \in Job : job[i].todo \subseteq Registered
      BY DEF CollectionIInv, WorkIsRegistered
    <2>. QED
      BY <1>2, <1>18, <2>1, <2>2
  <1>22. \A f \in Feed : published[f] <= published'[f]
    BY <1>1, <1>2 DEF CollectionTyped
  <1>. QED
    BY <1>2, <1>15, <1>16, <1>19, <1>20, <1>21, <1>22, StepKeeps

-----------------------------------------------------------------------------
(* The import of the old database. *)

LEMMA ImportKeeps ==
  ASSUME CollectionIInv, NEW asked, Import(asked)
  PROVE  CollectionIInv'
  <1>1. CollectionTyped
    BY DEF CollectionIInv
  <1>. DEFINE chosen == Selected(asked)
              created == {old \in DOMAIN Legacy.sources : Created(old) /\ "sources" \in chosen}
              posts == IF "posts" \in chosen THEN ImportedPosts ELSE {}
              Slot(s) == \E old \in created : Legacy.sources[old].slot = s
  <1>2. /\ \A old \in created : source[Legacy.sources[old].slot] = Nil
        /\ source' = [s \in Source |-> IF Slot(s)
             THEN ImportedSource(CHOOSE old \in created : Legacy.sources[old].slot = s) ELSE source[s]]
        /\ items' = [e \in Entry |-> IF e \in posts
             THEN [source |-> SourceFor(Legacy.posts[e]), state |-> "pending", mentions |-> 0] ELSE items[e]]
        /\ UNCHANGED <<published, evidence, job, editing>>
    BY DEF Import
  <1>3. created \subseteq DOMAIN Legacy.sources
    OBVIOUS
  <1>4. posts \subseteq ImportedPosts
    OBVIOUS
  <1>. HIDE DEF created, posts
  <1>5. \A s \in Source : Slot(s) =>
          \E old \in created : Legacy.sources[old].slot = s /\ source'[s] = ImportedSource(old)
    BY <1>2
  <1>. HIDE DEF Slot
  <1>6. \A old \in created : ImportedSource(old) \in Row /\ ImportedSource(old).cursor = Legacy.sources[old].cursor
    <2>. TAKE old \in created
    <2>1. /\ Legacy.sources[old].feed \in Feed
          /\ Legacy.sources[old].cursor \in {Nil} \cup {e \in Entry : e[1] = Legacy.sources[old].feed}
      BY <1>3, LegacySources
    <2>2. Legacy.sources[old].cursor \in Entry \cup {Nil} /\ None \in Int
      BY <2>1, CollectionNumbers
    <2>. QED
      BY <2>1, <2>2 DEF ImportedSource, Row
  <1>7. \A s \in Source : source'[s] \in Row \cup {Nil}
    <2>1. \A s \in Source : ~Slot(s) => source'[s] = source[s]
      BY <1>2
    <2>. QED
      BY <1>1, <1>5, <1>6, <2>1 DEF CollectionTyped
  <1>8. source' \in [Source -> Row \cup {Nil}]
    <2>1. source' = [s \in Source |-> source'[s]]
      BY <1>2
    <2>. QED
      BY <1>7, <2>1
  <1>9. \A s \in Source : source[s] # Nil => source'[s] = source[s]
    <2>1. \A s \in Source : source[s] # Nil => ~Slot(s)
      BY <1>2 DEF Slot
    <2>. QED
      BY <1>2, <2>1
  <1>10. \A e \in Entry : items'[e] \in ItemRow /\ (items'[e].state = "none" => items[e].state = "none")
    <2>. TAKE e \in Entry
    <2>1. CASE e \notin posts
      BY <1>1, <1>2, <2>1 DEF CollectionTyped
    <2>2. CASE e \in posts
      <3>1. Legacy.posts[e] \in DOMAIN Legacy.sources
        BY <1>4, <2>2 DEF ImportedPosts
      <3>2. PICK old \in DOMAIN Legacy.sources : old = Legacy.posts[e]
        BY <3>1
      <3>3. SourceFor(old) \in Source
        <4>1. Legacy.sources[old].slot \in Source
          BY LegacySources
        <4>2. Matching(old) \subseteq Source
          BY DEF Matching, Registered
        <4>. QED
          BY <4>1, <4>2 DEF SourceFor, Created
      <3>4. items'[e] = [source |-> SourceFor(old), state |-> "pending", mentions |-> 0]
        BY <1>2, <2>2, <3>2
      <3>5. 0 \in 0..1
        OBVIOUS
      <3>6. items'[e] \in ItemRow
        BY <3>3, <3>4, <3>5 DEF ItemRow
      <3>7. items'[e].state = "pending"
        BY <3>4
      <3>. QED
        BY <3>6, <3>7
    <2>. QED
      BY <2>1, <2>2
  <1>11. items' \in [Entry -> ItemRow]
    <2>1. items' = [e \in Entry |-> items'[e]]
      BY <1>2
    <2>. QED
      BY <1>10, <2>1
  \* Up to the cursor of a source it creates the old program had everything.
  <1>12. \A c \in Entry : \A s \in Source :
          source'[s] # Nil /\ source'[s].cursor = c => (source[s] # Nil /\ source[s].cursor = c) \/ Sound(c)'
    <2>. SUFFICES ASSUME NEW c \in Entry, NEW s \in Source, source'[s] # Nil, source'[s].cursor = c,
                         ~(source[s] # Nil /\ source[s].cursor = c)
                  PROVE  Sound(c)'
      OBVIOUS
    <2>1. Slot(s)
      BY <1>2, <1>9
    <2>2. PICK old \in created : source'[s] = ImportedSource(old)
      BY <1>5, <2>1
    <2>3. old \in DOMAIN Legacy.sources /\ Legacy.sources[old].cursor = c
      BY <1>3, <1>6, <2>2
    <2>4. c # Nil /\ c[1] = Legacy.sources[old].feed
      BY <2>3, LegacySources, CollectionRows
    <2>. QED
      BY <2>3, <2>4 DEF Sound, Kept
  <1>13. \A f \in Feed : published[f] <= published'[f] /\ published'[f] <= MaxEntry[f]
    BY <1>1, <1>2 DEF CollectionTyped
  <1>14. \A s \in Source : source[s] # Nil => source'[s] # Nil
    BY <1>9
  <1>. QED
    BY <1>1, <1>2, <1>8, <1>10, <1>11, <1>12, <1>13, <1>14, OtherStepKeeps DEF CollectionTyped

-----------------------------------------------------------------------------
(* The theorems. *)

LEMMA CollectionInitIInv == Init => CollectionIInv
  <1>. SUFFICES ASSUME Init
                PROVE  CollectionIInv
    OBVIOUS
  <1>1. CollectionTyped
    <2>1. items \in [Entry -> ItemRow]
      <3>1. 0 \in 0..1
        OBVIOUS
      <3>2. NoItem \in ItemRow
        BY <3>1 DEF NoItem, ItemRow
      <3>. QED
        BY <3>2 DEF Init
    <2>2. job \in [Job -> Task]
      BY IdleIsATask DEF Init
    <2>. QED
      BY <2>1, <2>2, CollectionNumbers, CollectionRows DEF Init, CollectionTyped
  <1>2. SourcesAreSound
    BY CollectionRows DEF Init, SourcesAreSound
  <1>3. LoadedAreSound /\ WorkIsRegistered
    BY IdleIsATask DEF Init, LoadedAreSound, WorkIsRegistered
  <1>. QED
    BY <1>1, <1>2, <1>3 DEF CollectionIInv

LEMMA CollectionNextIInv == CollectionIInv /\ [Next]_vars => CollectionIInv'
  <1>. SUFFICES ASSUME CollectionIInv, [Next]_vars
                PROVE  CollectionIInv'
    OBVIOUS
  <1>1. CASE UNCHANGED vars
    BY <1>1, QuietKeeps DEF vars, stored
  <1>2. CASE Tick
    BY <1>2, TickKeeps
  <1>3. CASE UpdateWrite
    BY <1>3, UpdateWriteKeeps
  <1>4. ASSUME NEW f \in Feed, Publish(f)
        PROVE  CollectionIInv'
    BY <1>4, PublishKeeps
  <1>5. CASE SettingsUpdate
    BY <1>5, QuietKeeps DEF SettingsUpdate, stored
  <1>6. CASE UpdateRead
    BY <1>6, UpdateReadKeeps
  <1>7. CASE Reprocess
    BY <1>7, ReprocessKeeps
  <1>8. CASE ImportCommand \/ ImportRequest
    <2>1. PICK asked \in Categories : Import(asked)
      BY <1>8 DEF ImportCommand, ImportRequest
    <2>. QED
      BY <2>1, ImportKeeps
  <1>9. ASSUME NEW j \in Job, CollectDue(j) \/ CollectOne(j) \/ CollectRequest(j)
        PROVE  CollectionIInv'
    <2>1. DueRows(FALSE) \in SUBSET Registered /\ \A s \in Registered : {s} \in SUBSET Registered
      BY DEF DueRows
    <2>. QED
      BY <1>9, <2>1, CollectCommandKeeps DEF CollectDue, CollectOne, CollectRequest
  <1>10. ASSUME NEW j \in Job, IngestCommand(j) \/ AnalyseCommand(j)
         PROVE  CollectionIInv'
    BY <1>10, IngestCommandKeeps, AnalyseCommandKeeps
  <1>11. ASSUME NEW j \in Job, Work(j)
         PROVE  CollectionIInv'
    <2>1. CASE Begin(j) \/ NextStage(j)
      BY <2>1, BeginKeeps, NextStageKeeps
    <2>2. CASE Finish(j)
      BY <2>2, IdleKeeps DEF Finish, stored
    <2>3. CASE IngestRead(j) \/ IngestWrite(j) \/ Collect(j)
      BY <2>3, IngestReadKeeps, IngestWriteKeeps, CollectKeeps
    <2>4. CASE Analyse(j) \/ Cluster(j) \/ Backfill(j)
      BY <2>4, AnalyseKeeps, ClusterKeeps, BackfillKeeps
    <2>. QED
      BY <1>11, <2>1, <2>2, <2>3, <2>4 DEF Work
  <1>12. ASSUME NEW j \in Job, StageFails(j)
         PROVE  CollectionIInv'
    BY <1>12, StageFailsKeeps
  <1>13. ASSUME NEW j \in Job, Crash(j)
         PROVE  CollectionIInv'
    BY <1>13, IdleKeeps DEF Crash, stored
  <1>. QED
    BY <1>1, <1>2, <1>3, <1>4, <1>5, <1>6, <1>7, <1>8, <1>9, <1>10, <1>11, <1>12, <1>13 DEF Next, Request

LEMMA CollectionSpecIInv == Spec => []CollectionIInv
  <1>. QED
    BY CollectionInitIInv, CollectionNextIInv, PTL DEF Spec

\* However jobs, requests and imports interleave, no cursor lies above an entry
\* that its feed still serves and nobody stored: collection loses nothing but
\* what it cannot normalise and what the old program had.
THEOREM CollectionSkipsNothing == Spec => []NothingSkipped
  <1>1. CollectionIInv => NothingSkipped
    <2>. SUFFICES ASSUME CollectionIInv, NEW s \in Registered, source[s].cursor \in Page(source[s].feed),
                         NEW e \in Page(source[s].feed), e[2] <= source[s].cursor[2]
                  PROVE  \/ e \in Bad \/ items[e].state # "none"
                         \/ \E old \in DOMAIN Legacy.sources : /\ Legacy.sources[old].feed = source[s].feed
                                                               /\ Legacy.sources[old].cursor # Nil
                                                               /\ e[2] <= Legacy.sources[old].cursor[2]
      BY DEF NothingSkipped
    <2>1. CollectionTyped /\ s \in Source /\ source[s] # Nil
      BY DEF CollectionIInv, Registered
    <2>2. source[s] \in Row
      BY <2>1 DEF CollectionTyped
    <2>3. source[s].feed \in Feed
      BY <2>2 DEF Row
    <2>4. /\ e \in Entry /\ e[1] = source[s].feed /\ e[2] > published[source[s].feed] - PerPage
          /\ source[s].cursor \in Entry /\ source[s].cursor[1] = source[s].feed
      BY <2>1, <2>3, PageIs
    <2>5. Sound(source[s].cursor)
      BY <2>1, <2>4, CollectionRows DEF CollectionIInv, SourcesAreSound
    <2>6. e[2] <= published[source[s].feed] - PerPage \/ Kept(e)
      BY <2>4, <2>5 DEF Sound
    <2>7. e[2] \in Nat /\ published[source[s].feed] \in Nat /\ PerPage \in Nat
      BY <2>1, <2>3, <2>4, EntryIs, CollectionNumbers DEF CollectionTyped
    <2>8. Kept(e)
      BY <2>4, <2>6, <2>7
    <2>. QED
      BY <2>4, <2>8 DEF Kept
  <1>. QED
    BY <1>1, CollectionSpecIInv, PTL

\* However many jobs and requests listed an item as pending, it has the
\* mentions of one analysis: the constraint on its labels refuses the others.
THEOREM ItemsAreAnalysedOnce == Spec => []AnalysedOnce
  <1>1. CollectionIInv => AnalysedOnce
    BY DEF CollectionIInv, CollectionTyped, ItemRow, AnalysedOnce
  <1>. QED
    BY <1>1, CollectionSpecIInv, PTL

-----------------------------------------------------------------------------
(***************************************************************************)
(* The confidence of claims and the way of a suggestion to a link, for     *)
(* every set of evidence, sources, stances and concurrent requests.        *)
(***************************************************************************)

\* Every body a claim is made of.
Written ==
  Statements \cup {FirstClaims[k] : k \in DOMAIN FirstClaims} \cup {[b EXCEPT !.spec = x] : b \in Statements, x \in Specs}

\* What linked evidence may say, and the confidences that may come of it.
Record == [stance : Stances, trust : 0..100]
Score == {5000} \cup {ComputeConfidence(r) : r \in UNION {[E -> Record] : E \in SUBSET Ev}}

ClaimRow ==
  [statement : {b.statement : b \in Written}, subject : {b.subject : b \in Written}, spec : {b.spec : b \in Written},
   status : Verdicts \cup {"open"}, confidence : Score]

EventRow ==
  [type : {"created", "linked", "updated", "unlinked", "status", "check_passed", "contradiction"}, confidence : Score]

Query ==
  [op : {"link", "accept", "update", "unlink", "resolve", "reject"}, claim : Nat, evidence : Ev \cup {Unset},
   choice : Stances \cup Verdicts \cup {Unset}, loaded : ClaimRow, stance : Stances \cup {Unset}, length : Nat]

\* The types of what requests about claims read and write; a claim, its links
\* and its timeline have the same id.
ClaimsTyped ==
  /\ trust \in [Sources -> 0..100]
  /\ claims \in Seq(ClaimRow)
  /\ links \in Seq([Ev -> Stances \cup {Unset}]) /\ Len(links) = Len(claims)
  /\ timeline \in Seq(Seq(EventRow)) /\ Len(timeline) = Len(claims)
  /\ suggestions \in [Pairs -> {Unset, "pending", "accepted", "rejected"}]
  /\ request \in [Worker -> Query \cup {Unset}]

\* What a request chose fits its operation, and its claim exists.
Asked(q) ==
  /\ q.claim \in DOMAIN claims
  /\ q.op \in {"link", "accept", "update"} => q.evidence \in Ev /\ q.choice \in Stances
  /\ q.op = "unlink" => q.evidence \in Ev
  /\ q.op = "resolve" => q.choice \in Verdicts

\* A request has what it loaded, unless its claim has had events since.
Fresh(q) ==
  /\ q.length <= Len(timeline[q.claim])
  /\ q.length = Len(timeline[q.claim]) =>
       /\ q.loaded = claims[q.claim]
       /\ q.evidence # Unset => q.stance = links[q.claim][q.evidence]

Requests == \A w \in Worker : request[w] # Unset => Asked(request[w]) /\ Fresh(request[w])

ClaimsIInv == ClaimsTyped /\ Requests /\ ConfidenceIsCurrent

-----------------------------------------------------------------------------
(* Confidence and the rows of a claim. *)

LEMMA ConfidenceIs ==
  ASSUME ClaimsTyped, NEW stances \in [Ev -> Stances \cup {Unset}]
  PROVE  Confidence(stances) \in Score
  <1>. DEFINE E == {d \in Ev : stances[d] # Unset}
  <1>1. \A e \in Ev : trust[SourceOf[e]] \in 0..100
    BY DEF ClaimsTyped, Sources
  <1>2. \A e \in E : [stance |-> stances[e], trust |-> trust[SourceOf[e]]] \in Record
    BY <1>1 DEF Record
  <1>3. StanceRecords(stances, trust) \in [E -> Record]
    BY <1>2 DEF StanceRecords
  <1>4. E \in SUBSET Ev
    OBVIOUS
  <1>. HIDE DEF E
  <1>. QED
    BY <1>3, <1>4 DEF Score, Confidence

\* Without evidence a claim has the confidence it was made with.
LEMMA NothingLinked ==
  ASSUME NEW trusts
  PROVE  ComputeConfidence(StanceRecords(NoLinks, trusts)) = 5000
  <1>1. DOMAIN StanceRecords(NoLinks, trusts) = {}
    BY DEF StanceRecords, NoLinks
  <1>. QED
    BY <1>1 DEF ComputeConfidence

LEMMA OpenedIs ==
  ASSUME NEW body \in Written
  PROVE  AsOpened(body) \in ClaimRow /\ AsOpened(body).confidence = 5000
  BY DEF AsOpened, ClaimRow, Score

LEMMA NoLinksIs == NoLinks \in [Ev -> Stances \cup {Unset}]
  BY DEF NoLinks

-----------------------------------------------------------------------------
(* What a step must do to keep the invariant. *)

\* Rows, links and timelines stay, suggestions change and requests end.
LEMMA LedgerStays ==
  ASSUME ClaimsIInv, UNCHANGED <<trust, claims, links, timeline, overlapped, repriced>>,
         suggestions' \in [Pairs -> {Unset, "pending", "accepted", "rejected"}],
         request' \in [Worker -> Query \cup {Unset}],
         \A w \in Worker : request'[w] # Unset => request'[w] = request[w] \/ (Asked(request'[w]) /\ Fresh(request'[w]))
  PROVE  ClaimsIInv'
  <1>1. ClaimsTyped'
    BY DEF ClaimsIInv, ClaimsTyped
  <1>2. Requests'
    <2>. SUFFICES ASSUME NEW w \in Worker, request'[w] # Unset
                  PROVE  \A q : q = request'[w] => Asked(q)' /\ Fresh(q)'
      BY DEF Requests, Asked, Fresh
    <2>1. Asked(request'[w]) /\ Fresh(request'[w])
      BY DEF ClaimsIInv, Requests
    <2>. QED
      BY <2>1 DEF Asked, Fresh
  <1>3. ConfidenceIsCurrent'
    BY DEF ClaimsIInv, ConfidenceIsCurrent, Confidence
  <1>. QED
    BY <1>1, <1>2, <1>3 DEF ClaimsIInv

\* A request ends with an event of its claim: whatever other requests have
\* loaded of it is old then.
LEMMA EventKeeps ==
  ASSUME ClaimsIInv, NEW w \in Worker, request' = [request EXCEPT ![w] = Unset],
         NEW c \in DOMAIN claims, NEW row \in ClaimRow, NEW stances \in [Ev -> Stances \cup {Unset}], NEW event \in EventRow,
         claims' = [claims EXCEPT ![c] = row], links' = [links EXCEPT ![c] = stances],
         timeline' = [timeline EXCEPT ![c] = Append(@, event)],
         suggestions' \in [Pairs -> {Unset, "pending", "accepted", "rejected"}],
         UNCHANGED trust, overlapped \subseteq overlapped', repriced \ {c} \subseteq repriced',
         c \notin overlapped' \cup repriced' => row.confidence = Confidence(stances)
  PROVE  ClaimsIInv'
  <1>1. ClaimsTyped /\ Requests /\ ConfidenceIsCurrent
    BY DEF ClaimsIInv
  <1>2. /\ claims \in Seq(ClaimRow) /\ links \in Seq([Ev -> Stances \cup {Unset}]) /\ timeline \in Seq(Seq(EventRow))
        /\ c \in 1..Len(claims) /\ Len(links) = Len(claims) /\ Len(timeline) = Len(claims)
    BY <1>1 DEF ClaimsTyped
  <1>3. /\ claims' \in Seq(ClaimRow) /\ Len(claims') = Len(claims)
        /\ \A d \in 1..Len(claims) : claims'[d] = IF d = c THEN row ELSE claims[d]
    BY <1>2
  <1>4. /\ links' \in Seq([Ev -> Stances \cup {Unset}]) /\ Len(links') = Len(links)
        /\ \A d \in 1..Len(claims) : links'[d] = IF d = c THEN stances ELSE links[d]
    BY <1>2
  <1>5. /\ timeline' \in Seq(Seq(EventRow)) /\ Len(timeline') = Len(timeline)
        /\ \A d \in 1..Len(claims) : d # c => timeline'[d] = timeline[d]
        /\ Len(timeline'[c]) = Len(timeline[c]) + 1 /\ Len(timeline[c]) \in Nat
    <2>1. timeline[c] \in Seq(EventRow)
      BY <1>2
    <2>2. PICK t \in Seq(EventRow) : t = Append(timeline[c], event) /\ Len(t) = Len(timeline[c]) + 1
      <3>1. Append(timeline[c], event) \in Seq(EventRow) /\ Len(Append(timeline[c], event)) = Len(timeline[c]) + 1
        BY <2>1, AppendProperties
      <3>. QED
        BY <3>1
    <2>3. timeline' = [timeline EXCEPT ![c] = t]
      BY <2>2
    <2>. QED
      BY <1>2, <2>1, <2>2, <2>3
  <1>6. request' \in [Worker -> Query \cup {Unset}] /\ \A v \in Worker : request'[v] # Unset => request'[v] = request[v]
    BY <1>1 DEF ClaimsTyped
  <1>7. ClaimsTyped'
    BY <1>1, <1>2, <1>3, <1>4, <1>5, <1>6 DEF ClaimsTyped
  <1>8. Requests'
    <2>. SUFFICES ASSUME NEW v \in Worker, request'[v] # Unset
                  PROVE  \A q : q = request[v] => Asked(q)' /\ Fresh(q)'
      BY <1>6 DEF Requests, Asked, Fresh
    <2>. TAKE q
    <2>. HAVE q = request[v]
    <2>1. Asked(q) /\ Fresh(q) /\ q \in Query
      BY <1>1, <1>6 DEF Requests, ClaimsTyped
    <2>2. q.claim \in 1..Len(claims) /\ q.length \in Nat
      BY <1>2, <2>1 DEF Asked, Query
    <2>3. Asked(q)'
      BY <1>2, <1>3, <2>1, <2>2 DEF Asked
    <2>4. Fresh(q)'
      BY <1>3, <1>4, <1>5, <2>1, <2>2 DEF Fresh
    <2>. QED
      BY <2>3, <2>4
  <1>9. ConfidenceIsCurrent'
    <2>. SUFFICES ASSUME NEW d \in DOMAIN claims', d \notin overlapped' \cup repriced'
                  PROVE  claims'[d].confidence = ComputeConfidence(StanceRecords(links'[d], trust'))
      BY DEF ConfidenceIsCurrent, Confidence
    <2>1. d \in 1..Len(claims)
      BY <1>2, <1>3
    <2>2. CASE d = c
      BY <1>3, <1>4, <2>1, <2>2 DEF Confidence
    <2>3. CASE d # c
      <3>1. d \in DOMAIN claims \ (overlapped \cup repriced)
        BY <1>2, <2>1, <2>3
      <3>. QED
        BY <1>1, <1>3, <1>4, <2>1, <2>3, <3>1 DEF ConfidenceIsCurrent, Confidence
    <2>. QED
      BY <2>2, <2>3
  <1>. QED
    BY <1>7, <1>8, <1>9 DEF ClaimsIInv

\* A claim that is new.
LEMMA NewClaimKeeps ==
  ASSUME ClaimsIInv, NEW body \in Written, NEW stances \in [Ev -> Stances \cup {Unset}], NEW events \in Seq(EventRow),
         NewClaim(body, stances, events)
  PROVE  ClaimsIInv'
  <1>1. ClaimsTyped /\ Requests /\ ConfidenceIsCurrent
    BY DEF ClaimsIInv
  <1>2. /\ claims \in Seq(ClaimRow) /\ links \in Seq([Ev -> Stances \cup {Unset}]) /\ timeline \in Seq(Seq(EventRow))
        /\ Len(links) = Len(claims) /\ Len(timeline) = Len(claims) /\ Len(claims) \in Nat
    BY <1>1 DEF ClaimsTyped
  <1>3. PICK row \in ClaimRow : row = [AsOpened(body) EXCEPT !.confidence = Confidence(stances)]
                                /\ row.confidence = Confidence(stances)
    <2>1. PICK o \in ClaimRow : o = AsOpened(body)
      BY OpenedIs
    <2>2. PICK score \in Score : score = Confidence(stances)
      BY <1>1, ConfidenceIs
    <2>3. [o EXCEPT !.confidence = score] \in ClaimRow /\ [o EXCEPT !.confidence = score].confidence = score
      BY DEF ClaimRow
    <2>. QED
      BY <2>1, <2>2, <2>3
  <1>4. PICK t \in Seq(EventRow) : t = CLAIM_CREATED \o events
    <2>1. [type |-> "created", confidence |-> 5000] \in EventRow
      BY DEF EventRow, Score
    <2>2. CLAIM_CREATED \in Seq(EventRow)
      BY <2>1 DEF CLAIM_CREATED
    <2>3. CLAIM_CREATED \o events \in Seq(EventRow)
      BY <2>2, ConcatProperties
    <2>. QED
      BY <2>3
  <1>5. /\ claims' = Append(claims, row) /\ links' = Append(links, stances) /\ timeline' = Append(timeline, t)
        /\ UNCHANGED <<trust, suggestions, request, overlapped, repriced>>
    BY <1>3, <1>4 DEF NewClaim, history
  <1>6. /\ claims' \in Seq(ClaimRow) /\ links' \in Seq([Ev -> Stances \cup {Unset}]) /\ timeline' \in Seq(Seq(EventRow))
        /\ Len(claims') = Len(claims) + 1 /\ Len(links') = Len(claims) + 1 /\ Len(timeline') = Len(claims) + 1
        /\ claims'[Len(claims) + 1] = row /\ links'[Len(claims) + 1] = stances
        /\ \A d \in 1..Len(claims) : claims'[d] = claims[d] /\ links'[d] = links[d] /\ timeline'[d] = timeline[d]
    BY <1>2, <1>5
  <1>7. ClaimsTyped'
    BY <1>1, <1>5, <1>6 DEF ClaimsTyped
  <1>8. Requests'
    <2>. SUFFICES ASSUME NEW v \in Worker, request[v] # Unset
                  PROVE  \A q : q = request[v] => Asked(q)' /\ Fresh(q)'
      BY <1>5 DEF Requests, Asked, Fresh
    <2>. TAKE q
    <2>. HAVE q = request[v]
    <2>1. Asked(q) /\ Fresh(q)
      BY <1>1 DEF Requests
    <2>2. q.claim \in 1..Len(claims)
      BY <1>2, <2>1 DEF Asked
    <2>3. Asked(q)'
      BY <1>2, <1>6, <2>1, <2>2 DEF Asked
    <2>4. Fresh(q)'
      BY <1>6, <2>1, <2>2 DEF Fresh
    <2>. QED
      BY <2>3, <2>4
  <1>9. ConfidenceIsCurrent'
    <2>. SUFFICES ASSUME NEW d \in DOMAIN claims', d \notin overlapped' \cup repriced'
                  PROVE  claims'[d].confidence = ComputeConfidence(StanceRecords(links'[d], trust'))
      BY DEF ConfidenceIsCurrent, Confidence
    <2>1. d \in 1..Len(claims) \/ d = Len(claims) + 1
      BY <1>2, <1>6
    <2>2. CASE d = Len(claims) + 1
      BY <1>3, <1>5, <1>6, <2>2 DEF Confidence
    <2>3. CASE d \in 1..Len(claims)
      <3>1. d \in DOMAIN claims \ (overlapped \cup repriced)
        BY <1>2, <1>5, <2>3
      <3>. QED
        BY <1>1, <1>5, <1>6, <2>3, <3>1 DEF ConfidenceIsCurrent, Confidence
    <2>. QED
      BY <2>1, <2>2, <2>3
  <1>. QED
    BY <1>7, <1>8, <1>9 DEF ClaimsIInv

\* A trust that changes: claims it counts in are left aside.
LEMMA UpdateSourceKeeps ==
  ASSUME ClaimsIInv, UpdateSource
  PROVE  ClaimsIInv'
  <1>1. ClaimsTyped /\ Requests /\ ConfidenceIsCurrent
    BY DEF ClaimsIInv
  <1>2. PICK s \in Sources, t \in Trusts :
          /\ trust' = [trust EXCEPT ![s] = t]
          /\ repriced' = repriced \cup {c \in DOMAIN claims : \E e \in Ev : links[c][e] # Unset /\ SourceOf[e] = s}
    BY DEF UpdateSource
  <1>3. UNCHANGED <<claims, links, timeline, suggestions, request, overlapped>>
    BY DEF UpdateSource, ledger
  <1>4. trust' \in [Sources -> 0..100]
    BY <1>1, <1>2, ClaimsNumbers DEF ClaimsTyped
  <1>5. ClaimsTyped'
    BY <1>1, <1>3, <1>4 DEF ClaimsTyped
  <1>6. Requests'
    BY <1>1, <1>3 DEF Requests, Asked, Fresh
  <1>7. ConfidenceIsCurrent'
    <2>. SUFFICES ASSUME NEW c \in DOMAIN claims, c \notin overlapped \cup repriced'
                  PROVE  claims[c].confidence = ComputeConfidence(StanceRecords(links[c], trust'))
      BY <1>3 DEF ConfidenceIsCurrent, Confidence
    <2>1. \A e \in Ev : links[c][e] # Unset => trust'[SourceOf[e]] = trust[SourceOf[e]]
      <3>. SUFFICES ASSUME NEW e \in Ev, links[c][e] # Unset
                    PROVE  trust'[SourceOf[e]] = trust[SourceOf[e]]
        OBVIOUS
      <3>1. SourceOf[e] # s
        BY <1>2
      <3>. QED
        BY <1>1, <1>2, <3>1 DEF ClaimsTyped, Sources
    <2>2. StanceRecords(links[c], trust') = StanceRecords(links[c], trust)
      BY <2>1 DEF StanceRecords
    <2>3. c \notin repriced
      BY <1>2
    <2>. QED
      BY <1>1, <2>2, <2>3 DEF ConfidenceIsCurrent, Confidence
  <1>. QED
    BY <1>5, <1>6, <1>7 DEF ClaimsIInv

-----------------------------------------------------------------------------
(* Requests. *)

LEMMA AskKeeps ==
  ASSUME ClaimsIInv, NEW w \in Worker, NEW op \in {"link", "accept", "update", "unlink", "resolve", "reject"},
         NEW c \in DOMAIN claims, NEW e \in Ev \cup {Unset}, NEW choice \in Stances \cup Verdicts \cup {Unset},
         op \in {"link", "accept", "update"} => e \in Ev /\ choice \in Stances,
         op = "unlink" => e \in Ev, op = "resolve" => choice \in Verdicts,
         Ask(w, op, c, e, choice)
  PROVE  ClaimsIInv'
  <1>1. /\ claims \in Seq(ClaimRow) /\ links \in Seq([Ev -> Stances \cup {Unset}]) /\ timeline \in Seq(Seq(EventRow))
        /\ c \in 1..Len(claims) /\ Len(links) = Len(claims) /\ Len(timeline) = Len(claims) /\ Len(claims) \in Nat
    BY DEF ClaimsIInv, ClaimsTyped
  <1>. DEFINE q == [op |-> op, claim |-> c, evidence |-> e, choice |-> choice, loaded |-> claims[c],
                    stance |-> IF e = Unset THEN Unset ELSE links[c][e], length |-> Len(timeline[c])]
  <1>2. request' = [request EXCEPT ![w] = q] /\ UNCHANGED <<trust, claims, links, timeline, suggestions, overlapped, repriced>>
    BY DEF Ask, ledger, history
  <1>3. claims[c] \in ClaimRow /\ c \in Nat
    BY <1>1
  <1>4. Len(timeline[c]) \in Nat
    <2>1. timeline[c] \in Seq(EventRow)
      BY <1>1
    <2>. QED
      BY <2>1
  <1>5. (IF e = Unset THEN Unset ELSE links[c][e]) \in Stances \cup {Unset}
    <2>1. links[c] \in [Ev -> Stances \cup {Unset}]
      BY <1>1
    <2>. QED
      BY <2>1
  <1>6. q \in Query
    BY <1>3, <1>4, <1>5 DEF Query
  <1>7. Asked(q) /\ Fresh(q)
    <2>1. Asked(q)
      BY DEF Asked
    <2>2. Fresh(q)
      BY <1>4 DEF Fresh
    <2>. QED
      BY <2>1, <2>2
  <1>. HIDE DEF q
  <1>8. request \in [Worker -> Query \cup {Unset}]
    BY DEF ClaimsIInv, ClaimsTyped
  <1>9. /\ request' \in [Worker -> Query \cup {Unset}]
        /\ \A v \in Worker : request'[v] # Unset => request'[v] = request[v] \/ (Asked(request'[v]) /\ Fresh(request'[v]))
    <2>1. \A v \in Worker : request'[v] = IF v = w THEN q ELSE request[v]
      BY <1>2, <1>8
    <2>2. \A v \in Worker : request'[v] = q \/ request'[v] = request[v]
      BY <2>1
    <2>. QED
      BY <1>2, <1>6, <1>7, <1>8, <2>2
  <1>. QED
    BY <1>2, <1>9, LedgerStays DEF ClaimsIInv, ClaimsTyped

LEMMA DemandKeeps ==
  ASSUME ClaimsIInv, NEW w \in Worker, Demand(w)
  PROVE  ClaimsIInv'
  <1>1. CASE LinkEvidence(w) \/ LinkCommand(w)
    <2>1. PICK c \in DOMAIN claims, stance \in Stances, e \in Ev : Ask(w, "link", c, e, stance)
      BY <1>1 DEF LinkEvidence, LinkCommand
    <2>. QED
      BY <2>1, AskKeeps
  <1>2. CASE UpdateClaimEvidence(w)
    <2>1. PICK c \in DOMAIN claims, stance \in Stances, e \in Ev : Ask(w, "update", c, e, stance)
      BY <1>2 DEF UpdateClaimEvidence, Linked
    <2>. QED
      BY <2>1, AskKeeps
  <1>3. CASE UnlinkClaimEvidence(w)
    <2>1. PICK c \in DOMAIN claims, e \in Ev : Ask(w, "unlink", c, e, Unset)
      BY <1>3 DEF UnlinkClaimEvidence, Linked
    <2>. QED
      BY <2>1, AskKeeps
  <1>4. CASE ResolveClaim(w) \/ ResolveCommand(w)
    <2>1. PICK c \in DOMAIN claims, status \in Verdicts : Ask(w, "resolve", c, Unset, status)
      BY <1>4 DEF ResolveClaim, ResolveCommand
    <2>. QED
      BY <2>1, AskKeeps
  <1>5. CASE AcceptSuggestion(w) \/ AcceptCommand(w)
    <2>1. PICK c \in DOMAIN claims, stance \in Stances, e \in Ev : Ask(w, "accept", c, e, stance)
      BY <1>5 DEF AcceptSuggestion, AcceptCommand
    <2>. QED
      BY <2>1, AskKeeps
  <1>6. CASE RejectSuggestion(w) \/ RejectCommand(w)
    <2>1. PICK c \in DOMAIN claims, e \in Ev : Ask(w, "reject", c, e, Unset)
      BY <1>6 DEF RejectSuggestion, RejectCommand
    <2>. QED
      BY <2>1, AskKeeps
  <1>. QED
    BY <1>1, <1>2, <1>3, <1>4, <1>5, <1>6 DEF Demand

\* What a request that ends has at hand.
LEMMA RequestIs ==
  ASSUME ClaimsIInv, NEW w \in Worker, request[w] # Unset
  PROVE  /\ ClaimsTyped /\ request[w] \in Query /\ Asked(request[w]) /\ Fresh(request[w])
         /\ request[w].claim \in DOMAIN claims /\ claims[request[w].claim] \in ClaimRow
         /\ links[request[w].claim] \in [Ev -> Stances \cup {Unset}]
         /\ Len(timeline[request[w].claim]) \in Nat /\ request[w].length \in Nat
  <1>1. ClaimsTyped /\ request[w] \in Query /\ Asked(request[w]) /\ Fresh(request[w])
    BY DEF ClaimsIInv, ClaimsTyped, Requests
  <1>2. request[w].claim \in DOMAIN claims /\ request[w].length \in Nat
    BY <1>1 DEF Asked, Query
  <1>3. PICK c \in DOMAIN claims : c = request[w].claim
    BY <1>2
  <1>4. /\ claims \in Seq(ClaimRow) /\ links \in Seq([Ev -> Stances \cup {Unset}]) /\ timeline \in Seq(Seq(EventRow))
        /\ c \in 1..Len(claims) /\ Len(links) = Len(claims) /\ Len(timeline) = Len(claims)
    BY <1>1 DEF ClaimsTyped
  <1>5. timeline[c] \in Seq(EventRow) /\ claims[c] \in ClaimRow /\ links[c] \in [Ev -> Stances \cup {Unset}]
    BY <1>4
  <1>6. Len(timeline[c]) \in Nat
    BY <1>5
  <1>. QED
    BY <1>1, <1>2, <1>3, <1>5, <1>6

\* The confidence of new stances is recorded; if it was not written because
\* the request had loaded the same, it is that of the claim, or the request
\* overlapped another.
LEMMA RecordedKeeps ==
  ASSUME ClaimsIInv, NEW w \in Worker, request[w] # Unset, request' = [request EXCEPT ![w] = Unset],
         NEW stances \in [Ev -> Stances \cup {Unset}], NEW written \in [Ev -> Stances \cup {Unset}],
         NEW type \in {"linked", "updated", "unlinked"},
         links' = [links EXCEPT ![request[w].claim] = written],
         Len(timeline[request[w].claim]) = request[w].length => written = stances,
         Recorded(request[w], Confidence(stances), type),
         suggestions' \in [Pairs -> {Unset, "pending", "accepted", "rejected"}], UNCHANGED trust
  PROVE  ClaimsIInv'
  <1>1. PICK q \in Query : /\ q = request[w] /\ ClaimsTyped /\ Fresh(q) /\ claims[q.claim] \in ClaimRow /\ q.length \in Nat
                           /\ Len(timeline[q.claim]) \in Nat
    BY RequestIs
  <1>2. PICK c \in DOMAIN claims : c = q.claim
    BY <1>1, RequestIs
  <1>3. PICK score \in Score : score = Confidence(stances)
    BY <1>1, ConfidenceIs
  <1>. DEFINE next == IF score = q.loaded.confidence THEN claims[c].confidence ELSE score
  <1>4. /\ claims' = [claims EXCEPT ![c].confidence = next]
        /\ timeline' = [timeline EXCEPT ![c] = Append(@, [type |-> type, confidence |-> score])]
        /\ overlapped' = overlapped \cup (IF Len(timeline[c]) # q.length THEN {c} ELSE {})
        /\ repriced' = repriced \ {c}
    BY <1>1, <1>2, <1>3 DEF Recorded
  <1>5. next \in Score
    BY <1>1, <1>2 DEF ClaimRow
  <1>6. PICK row \in ClaimRow : row = [claims[c] EXCEPT !.confidence = next] /\ row.confidence = next
    <2>1. PICK n \in Score : n = next
      BY <1>5
    <2>2. PICK old \in ClaimRow : old = claims[c]
      BY <1>1, <1>2
    <2>3. [old EXCEPT !.confidence = n] \in ClaimRow /\ [old EXCEPT !.confidence = n].confidence = n
      BY DEF ClaimRow
    <2>. QED
      BY <2>1, <2>2, <2>3
  <1>7. claims' = [claims EXCEPT ![c] = row]
    BY <1>4, <1>6
  <1>8. [type |-> type, confidence |-> score] \in EventRow
    BY DEF EventRow
  <1>9. ASSUME c \notin overlapped'
        PROVE  row.confidence = Confidence(written)
    <2>1. Len(timeline[c]) = q.length
      BY <1>4, <1>9
    <2>2. q.loaded = claims[c] /\ written = stances
      BY <1>1, <1>2, <2>1 DEF Fresh
    <2>. QED
      BY <1>3, <1>6, <2>2
  <1>10. overlapped \subseteq overlapped' /\ repriced \ {c} \subseteq repriced'
    BY <1>4
  <1>11. links' = [links EXCEPT ![c] = written]
    BY <1>1, <1>2
  <1>. HIDE DEF next
  <1>. QED
    BY <1>4, <1>7, <1>8, <1>9, <1>10, <1>11, EventKeeps

\* A request that changes nothing of its claim.
LEMMA AnsweredKeeps ==
  ASSUME ClaimsIInv, NEW w \in Worker, request' = [request EXCEPT ![w] = Unset],
         suggestions' \in [Pairs -> {Unset, "pending", "accepted", "rejected"}],
         UNCHANGED <<trust, claims, links, timeline, overlapped, repriced>>
  PROVE  ClaimsIInv'
  <1>1. request \in [Worker -> Query \cup {Unset}]
    BY DEF ClaimsIInv, ClaimsTyped
  <1>2. request' \in [Worker -> Query \cup {Unset}] /\ \A v \in Worker : request'[v] # Unset => request'[v] = request[v]
    BY <1>1
  <1>. QED
    BY <1>2, LedgerStays

LEMMA WriteLinkKeeps ==
  ASSUME ClaimsIInv, NEW w \in Worker, request[w] # Unset, request' = [request EXCEPT ![w] = Unset], UNCHANGED trust,
         request[w].op \in {"link", "accept"}, WriteLink(request[w])
  PROVE  ClaimsIInv'
  <1>1. PICK q \in Query : /\ q = request[w] /\ ClaimsTyped /\ Asked(q) /\ q.claim \in DOMAIN claims
                           /\ links[q.claim] \in [Ev -> Stances \cup {Unset}]
    BY RequestIs
  <1>2. q.evidence \in Ev /\ q.choice \in Stances
    BY <1>1 DEF Asked
  <1>. DEFINE stances == [links[q.claim] EXCEPT ![q.evidence] = q.choice]
  <1>3. stances \in [Ev -> Stances \cup {Unset}]
    BY <1>1, <1>2
  <1>4. CASE ~Insertable(q)
    <2>1. UNCHANGED <<claims, links, timeline, suggestions, overlapped, repriced>>
      BY <1>1, <1>4 DEF WriteLink, ledger, history
    <2>. QED
      BY <1>1, <2>1, AnsweredKeeps DEF ClaimsTyped
  <1>5. CASE Insertable(q)
    <2>1. /\ links' = [links EXCEPT ![q.claim] = stances] /\ Recorded(q, Confidence(stances), "linked")
          /\ suggestions' = Judged(q)
      BY <1>1, <1>5 DEF WriteLink
    <2>2. suggestions' \in [Pairs -> {Unset, "pending", "accepted", "rejected"}]
      BY <1>1, <2>1 DEF Judged, ClaimsTyped
    <2>. HIDE DEF stances
    <2>. QED
      BY <1>1, <1>3, <2>1, <2>2, RecordedKeeps
  <1>. QED
    BY <1>4, <1>5

LEMMA WriteUpdateKeeps ==
  ASSUME ClaimsIInv, NEW w \in Worker, request[w] # Unset, request' = [request EXCEPT ![w] = Unset], UNCHANGED trust,
         request[w].op = "update", WriteUpdate(request[w])
  PROVE  ClaimsIInv'
  <1>1. PICK q \in Query : /\ q = request[w] /\ ClaimsTyped /\ Asked(q) /\ Fresh(q) /\ q.claim \in DOMAIN claims
                           /\ links[q.claim] \in [Ev -> Stances \cup {Unset}]
    BY RequestIs
  <1>2. q.evidence \in Ev /\ q.choice \in Stances /\ q.evidence # Unset
    BY <1>1, ClaimsNumbers DEF Asked
  <1>. DEFINE gone == links[q.claim][q.evidence] = Unset
              stances == IF gone THEN links[q.claim] ELSE [links[q.claim] EXCEPT ![q.evidence] = q.choice]
              written == IF q.choice = q.stance THEN links[q.claim] ELSE stances
  <1>3. stances \in [Ev -> Stances \cup {Unset}] /\ written \in [Ev -> Stances \cup {Unset}]
    BY <1>1, <1>2
  <1>4. CASE gone /\ q.choice # q.stance
    <2>1. UNCHANGED <<claims, links, timeline, suggestions, overlapped, repriced>>
      BY <1>1, <1>4 DEF WriteUpdate, ledger, history
    <2>. QED
      BY <1>1, <2>1, AnsweredKeeps DEF ClaimsTyped
  <1>5. CASE ~(gone /\ q.choice # q.stance)
    <2>1. /\ links' = (IF q.choice = q.stance THEN links ELSE [links EXCEPT ![q.claim] = stances])
          /\ Recorded(q, Confidence(stances), "updated") /\ UNCHANGED suggestions
      BY <1>1, <1>5 DEF WriteUpdate
    <2>2. links' = [links EXCEPT ![q.claim] = written]
      <3>1. CASE q.choice = q.stance
        <4>1. links \in Seq([Ev -> Stances \cup {Unset}]) /\ written = links[q.claim]
          BY <1>1, <3>1 DEF ClaimsTyped
        <4>2. [links EXCEPT ![q.claim] = links[q.claim]] = links
          BY <4>1
        <4>. QED
          BY <2>1, <3>1, <4>1, <4>2
      <3>2. CASE q.choice # q.stance
        BY <2>1, <3>2
      <3>. QED
        BY <3>1, <3>2
    \* A stance that is the loaded one is the stored one, when nothing came in between.
    <2>3. ASSUME Len(timeline[q.claim]) = q.length
          PROVE  written = stances
      <3>1. q.stance = links[q.claim][q.evidence]
        BY <1>1, <1>2, <2>3 DEF Fresh
      <3>2. CASE q.choice = q.stance
        <4>1. [links[q.claim] EXCEPT ![q.evidence] = q.choice] = links[q.claim]
          BY <1>1, <3>1, <3>2
        <4>. QED
          BY <3>2, <4>1
      <3>3. CASE q.choice # q.stance
        BY <3>3
      <3>. QED
        BY <3>2, <3>3
    <2>4. suggestions' \in [Pairs -> {Unset, "pending", "accepted", "rejected"}]
      BY <1>1, <2>1 DEF ClaimsTyped
    <2>. HIDE DEF stances, written
    <2>. QED
      BY <1>1, <1>3, <2>1, <2>2, <2>3, <2>4, RecordedKeeps
  <1>. QED
    BY <1>4, <1>5

LEMMA WriteUnlinkKeeps ==
  ASSUME ClaimsIInv, NEW w \in Worker, request[w] # Unset, request' = [request EXCEPT ![w] = Unset], UNCHANGED trust,
         request[w].op = "unlink", WriteUnlink(request[w])
  PROVE  ClaimsIInv'
  <1>1. PICK q \in Query : /\ q = request[w] /\ ClaimsTyped /\ Asked(q) /\ q.claim \in DOMAIN claims
                           /\ links[q.claim] \in [Ev -> Stances \cup {Unset}]
    BY RequestIs
  <1>2. q.evidence \in Ev
    BY <1>1 DEF Asked
  <1>3. PICK stances \in [Ev -> Stances \cup {Unset}] : stances = Unlinked(q.claim, q.evidence)
    BY <1>1, <1>2 DEF Unlinked
  <1>4. links' = [links EXCEPT ![q.claim] = stances]
    BY <1>1, <1>3 DEF WriteUnlink, Unlinked
  <1>5. Recorded(q, Confidence(stances), "unlinked") /\ suggestions' \in [Pairs -> {Unset, "pending", "accepted", "rejected"}]
    BY <1>1, <1>3 DEF WriteUnlink, ClaimsTyped
  <1>. QED
    BY <1>1, <1>4, <1>5, RecordedKeeps

LEMMA WriteVerdictKeeps ==
  ASSUME ClaimsIInv, NEW w \in Worker, request[w] # Unset, request' = [request EXCEPT ![w] = Unset], UNCHANGED trust,
         request[w].op = "resolve", WriteVerdict(request[w])
  PROVE  ClaimsIInv'
  <1>1. PICK q \in Query : /\ q = request[w] /\ ClaimsTyped /\ Asked(q) /\ q.claim \in DOMAIN claims
                           /\ claims[q.claim] \in ClaimRow /\ links[q.claim] \in [Ev -> Stances \cup {Unset}]
    BY RequestIs
  <1>2. PICK c \in DOMAIN claims : c = q.claim
    BY <1>1
  <1>3. q.choice \in Verdicts /\ q.loaded \in ClaimRow
    BY <1>1 DEF Asked, Query
  <1>. DEFINE next == IF q.choice = q.loaded.status THEN claims[c].status ELSE q.choice
  <1>4. /\ claims' = [claims EXCEPT ![c].status = next]
        /\ timeline' = [timeline EXCEPT ![c] = Append(@, [type |-> "status", confidence |-> q.loaded.confidence])]
        /\ overlapped \subseteq overlapped' /\ UNCHANGED <<links, suggestions, repriced>>
    BY <1>1, <1>2 DEF WriteVerdict
  <1>5. PICK row \in ClaimRow : row = [claims[c] EXCEPT !.status = next] /\ row.confidence = claims[c].confidence
    <2>1. PICK n \in Verdicts \cup {"open"} : n = next
      BY <1>1, <1>2, <1>3 DEF ClaimRow
    <2>2. PICK old \in ClaimRow : old = claims[c]
      BY <1>1, <1>2
    <2>3. [old EXCEPT !.status = n] \in ClaimRow /\ [old EXCEPT !.status = n].confidence = old.confidence
      BY DEF ClaimRow
    <2>. QED
      BY <2>1, <2>2, <2>3
  <1>6. claims' = [claims EXCEPT ![c] = row]
    BY <1>4, <1>5
  <1>. HIDE DEF next
  <1>7. [type |-> "status", confidence |-> q.loaded.confidence] \in EventRow
    BY <1>3 DEF EventRow, ClaimRow
  <1>8. PICK stances \in [Ev -> Stances \cup {Unset}] : stances = links[c]
    BY <1>1, <1>2
  <1>9. links' = [links EXCEPT ![c] = stances]
    <2>1. links \in Seq([Ev -> Stances \cup {Unset}])
      BY <1>1 DEF ClaimsTyped
    <2>. QED
      BY <1>4, <1>8, <2>1
  <1>10. c \notin overlapped' \cup repriced' => row.confidence = Confidence(stances)
    BY <1>4, <1>5, <1>8 DEF ClaimsIInv, ConfidenceIsCurrent
  <1>11. suggestions' \in [Pairs -> {Unset, "pending", "accepted", "rejected"}] /\ repriced \ {c} \subseteq repriced'
    BY <1>1, <1>4 DEF ClaimsTyped
  <1>. QED
    BY <1>4, <1>6, <1>7, <1>9, <1>10, <1>11, EventKeeps

LEMMA WriteKeeps ==
  ASSUME ClaimsIInv, NEW w \in Worker, Write(w)
  PROVE  ClaimsIInv'
  <1>1. request[w] # Unset /\ request' = [request EXCEPT ![w] = Unset] /\ UNCHANGED trust
    BY DEF Write
  <1>2. CASE request[w].op \in {"link", "accept"} /\ WriteLink(request[w])
    BY <1>1, <1>2, WriteLinkKeeps
  <1>3. CASE request[w].op = "update" /\ WriteUpdate(request[w])
    BY <1>1, <1>3, WriteUpdateKeeps
  <1>4. CASE request[w].op = "unlink" /\ WriteUnlink(request[w])
    BY <1>1, <1>4, WriteUnlinkKeeps
  <1>5. CASE request[w].op = "resolve" /\ WriteVerdict(request[w])
    BY <1>1, <1>5, WriteVerdictKeeps
  <1>6. CASE request[w].op = "reject" /\ WriteRejection(request[w])
    <2>1. UNCHANGED <<claims, links, timeline, overlapped, repriced>>
      BY <1>6 DEF WriteRejection, history
    <2>2. suggestions' \in [Pairs -> {Unset, "pending", "accepted", "rejected"}]
      BY <1>6 DEF WriteRejection, ClaimsIInv, ClaimsTyped
    <2>. QED
      BY <1>1, <2>1, <2>2, AnsweredKeeps
  <1>. QED
    BY <1>2, <1>3, <1>4, <1>5, <1>6 DEF Write

-----------------------------------------------------------------------------
(* The editor. *)

LEMMA EditKeeps ==
  ASSUME ClaimsIInv, Edit
  PROVE  ClaimsIInv'
  <1>1. ASSUME UNCHANGED <<trust, claims, links, timeline, overlapped, repriced, request>>,
               suggestions' \in [Pairs -> {Unset, "pending", "accepted", "rejected"}]
        PROVE  ClaimsIInv'
    BY <1>1, LedgerStays DEF ClaimsIInv, ClaimsTyped
  <1>2. CASE CreateEntity \/ EntityAdd \/ UpdateEntity \/ EntityRelate \/ ResolveMention \/ DisposeMention
    <2>1. UNCHANGED <<trust, ledger, request, history>>
      BY <1>2 DEF CreateEntity, EntityAdd, UpdateEntity, EntityRelate, ResolveMention, DisposeMention
    <2>. QED
      BY <1>1, <2>1 DEF ledger, history, ClaimsIInv, ClaimsTyped
  <1>3. CASE CreateClaim \/ ClaimCreate
    <2>1. PICK body \in Statements : NewClaim(body, NoLinks, <<>>)
      BY <1>3 DEF CreateClaim, ClaimCreate
    <2>2. body \in Written /\ <<>> \in Seq(EventRow)
      BY DEF Written
    <2>. QED
      BY <2>1, <2>2, NoLinksIs, NewClaimKeeps
  <1>4. CASE ClaimOfReport
    <2>1. PICK body \in Statements, e \in Ev, stance \in Stances :
            NewClaim(body, [NoLinks EXCEPT ![e] = stance],
                     <<[type |-> "linked", confidence |-> Confidence([NoLinks EXCEPT ![e] = stance])]>>)
      BY <1>4 DEF ClaimOfReport
    <2>2. PICK stances \in [Ev -> Stances \cup {Unset}] : stances = [NoLinks EXCEPT ![e] = stance]
      BY NoLinksIs
    <2>3. Confidence(stances) \in Score
      BY ConfidenceIs DEF ClaimsIInv
    <2>4. PICK event \in EventRow : event = [type |-> "linked", confidence |-> Confidence(stances)]
      BY <2>3 DEF EventRow
    <2>5. body \in Written /\ <<event>> \in Seq(EventRow)
      BY DEF Written
    <2>6. NewClaim(body, stances, <<event>>)
      BY <2>1, <2>2, <2>4
    <2>. QED
      BY <2>5, <2>6, NewClaimKeeps
  <1>5. CASE CreateMemorySpec
    <2>1. PICK body \in Statements, given \in Specs : Checked(body, given)
      BY <1>5 DEF CreateMemorySpec
    <2>2. PICK kind \in {"check_passed", "contradiction"} :
            NewClaim([body EXCEPT !.spec = given], NoLinks, <<[type |-> kind, confidence |-> 5000]>>)
      BY <2>1 DEF Checked
    <2>3. 5000 \in Score
      BY DEF Score
    <2>4. kind \in {"created", "linked", "updated", "unlinked", "status", "check_passed", "contradiction"}
      OBVIOUS
    <2>5. [type |-> kind, confidence |-> 5000] \in EventRow
      BY <2>4, <2>3 DEF EventRow
    <2>6. PICK event \in EventRow : event = [type |-> kind, confidence |-> 5000]
      BY <2>5
    <2>7. [body EXCEPT !.spec = given] \in {[b EXCEPT !.spec = x] : b \in Statements, x \in Specs}
      OBVIOUS
    <2>8. [body EXCEPT !.spec = given] \in Written
      BY <2>7 DEF Written
    <2>9. PICK written \in Written : written = [body EXCEPT !.spec = given]
      BY <2>8
    <2>10. <<event>> \in Seq(EventRow)
      OBVIOUS
    <2>11. PICK events \in Seq(EventRow) : events = <<event>>
      BY <2>10
    <2>12. NewClaim(written, NoLinks, events)
      BY <2>2, <2>6, <2>9, <2>11
    <2>. QED
      BY <2>12, NoLinksIs, NewClaimKeeps
  <1>6. CASE UpdateSource
    BY <1>6, UpdateSourceKeeps
  <1>7. CASE RunSuggestions \/ SuggestRun
    <2>1. PICK E : suggestions' = Scanned(E)
      BY <1>7 DEF RunSuggestions, SuggestRun
    <2>2. suggestions' \in [Pairs -> {Unset, "pending", "accepted", "rejected"}]
      BY <2>1 DEF Scanned, ClaimsIInv, ClaimsTyped
    <2>3. UNCHANGED <<trust, claims, links, timeline, overlapped, repriced, request>>
      BY <1>7 DEF RunSuggestions, SuggestRun, history
    <2>. QED
      BY <1>1, <2>2, <2>3
  <1>. QED
    BY <1>2, <1>3, <1>4, <1>5, <1>6, <1>7 DEF Edit

-----------------------------------------------------------------------------
(* The theorems. *)

LEMMA ClaimsInitIInv == ClaimsInit => ClaimsIInv
  <1>. SUFFICES ASSUME ClaimsInit
                PROVE  ClaimsIInv
    OBVIOUS
  <1>1. PICK n \in 0..MaxClaims : DOMAIN FirstClaims = 1..n
    BY ClaimsNumbers
  <1>2. n \in Nat
    BY <1>1, ClaimsNumbers
  <1>3. \A c \in 1..n : AsOpened(FirstClaims[c]) \in ClaimRow /\ AsOpened(FirstClaims[c]).confidence = 5000
    BY <1>1, OpenedIs DEF Written
  <1>4. claims = [c \in 1..n |-> AsOpened(FirstClaims[c])] /\ claims \in Seq(ClaimRow) /\ Len(claims) = n
    <2>1. claims = [c \in 1..n |-> AsOpened(FirstClaims[c])]
      BY <1>1 DEF ClaimsInit
    <2>2. claims \in Seq(ClaimRow)
      BY <1>2, <1>3, <2>1
    <2>. QED
      BY <1>2, <2>1, <2>2
  <1>5. links = [c \in 1..n |-> NoLinks] /\ links \in Seq([Ev -> Stances \cup {Unset}]) /\ Len(links) = n
    <2>1. links = [c \in 1..n |-> NoLinks]
      BY <1>1 DEF ClaimsInit
    <2>2. links \in Seq([Ev -> Stances \cup {Unset}])
      BY <1>2, <2>1, NoLinksIs
    <2>. QED
      BY <1>2, <2>1, <2>2
  <1>6. timeline \in Seq(Seq(EventRow)) /\ Len(timeline) = n
    <2>1. [type |-> "created", confidence |-> 5000] \in EventRow
      BY DEF EventRow, Score
    <2>2. CLAIM_CREATED \in Seq(EventRow)
      BY <2>1 DEF CLAIM_CREATED
    <2>3. timeline = [c \in 1..n |-> CLAIM_CREATED]
      BY <1>1 DEF ClaimsInit
    <2>4. timeline \in Seq(Seq(EventRow))
      BY <1>2, <2>2, <2>3
    <2>. QED
      BY <1>2, <2>3, <2>4
  <1>7. trust \in [Sources -> 0..100]
    BY DEF ClaimsInit
  <1>8. ClaimsTyped
    BY <1>4, <1>5, <1>6, <1>7 DEF ClaimsInit, ClaimsTyped
  <1>9. Requests
    BY DEF ClaimsInit, Requests
  <1>10. ConfidenceIsCurrent
    BY <1>2, <1>3, <1>4, <1>5, NothingLinked DEF ConfidenceIsCurrent, Confidence
  <1>. QED
    BY <1>8, <1>9, <1>10 DEF ClaimsIInv

LEMMA ClaimsNextIInv == ClaimsIInv /\ [ClaimsNext]_claimsVars => ClaimsIInv'
  <1>. SUFFICES ASSUME ClaimsIInv, [ClaimsNext]_claimsVars
                PROVE  ClaimsIInv'
    OBVIOUS
  <1>1. CASE UNCHANGED claimsVars
    BY <1>1, LedgerStays DEF claimsVars, ledger, history, ClaimsIInv, ClaimsTyped
  <1>2. CASE Edit
    BY <1>2, EditKeeps
  <1>3. ASSUME NEW w \in Worker, Demand(w) \/ Write(w)
        PROVE  ClaimsIInv'
    BY <1>3, DemandKeeps, WriteKeeps
  <1>. QED
    BY <1>1, <1>2, <1>3 DEF ClaimsNext

LEMMA ClaimsSpecIInv == ClaimsSpec => []ClaimsIInv
  <1>. QED
    BY ClaimsInitIInv, ClaimsNextIInv, PTL DEF ClaimsSpec

\* However requests about claims interleave, a session that does not write the
\* confidence because it had loaded the same never leaves a claim with another
\* than its evidence has, but for requests that overlapped on it or a trust
\* that changed since.
THEOREM ConfidenceIsOfEvidence == ClaimsSpec => []ConfidenceIsCurrent
  <1>1. ClaimsIInv => ConfidenceIsCurrent
    BY DEF ClaimsIInv
  <1>. QED
    BY <1>1, ClaimsSpecIInv, PTL

\* A suggestion becomes accepted only in the step that makes its link, and of
\* evidence that had none: concurrent acceptances and links never replace the
\* stance of each other.
THEOREM SuggestionsAreAcceptedOnce == ClaimsSpec => AcceptedOnce
  <1>. DEFINE A == \A p \in Pairs : suggestions[p] # "accepted" /\ suggestions[p]' = "accepted" =>
                     links[p[1]][p[2]] = Unset /\ links[p[1]][p[2]]' # Unset
  <1>1. ClaimsIInv /\ [ClaimsNext]_claimsVars => A
    <2>. SUFFICES ASSUME ClaimsIInv, [ClaimsNext]_claimsVars, NEW p \in Pairs, suggestions[p] # "accepted", suggestions'[p] = "accepted"
                  PROVE  links[p[1]][p[2]] = Unset /\ links'[p[1]][p[2]] # Unset
      OBVIOUS
    <2>1. suggestions \in [Pairs -> {Unset, "pending", "accepted", "rejected"}]
      BY DEF ClaimsIInv, ClaimsTyped
    <2>2. ~UNCHANGED suggestions
      OBVIOUS
    <2>3. ~Edit
      <3>1. ASSUME NEW E, suggestions' = Scanned(E)
            PROVE  FALSE
        <4>1. suggestions'[p] \in {"pending", suggestions[p]}
          BY <3>1 DEF Scanned
        <4>. QED
          BY <4>1
      <3>2. ~(CreateEntity \/ EntityAdd \/ UpdateEntity \/ EntityRelate \/ ResolveMention \/ DisposeMention)
        BY <2>2 DEF CreateEntity, EntityAdd, UpdateEntity, EntityRelate, ResolveMention, DisposeMention, ledger
      <3>3. \A body, stances, events : ~NewClaim(body, stances, events)
        BY <2>2 DEF NewClaim
      <3>4. ~(CreateClaim \/ ClaimCreate \/ ClaimOfReport \/ CreateMemorySpec)
        <4>1. ~(CreateClaim \/ ClaimCreate)
          BY <3>3, Zenon DEF CreateClaim, ClaimCreate
        <4>2. ~ClaimOfReport
          BY <3>3, Zenon DEF ClaimOfReport
        <4>3. ~CreateMemorySpec
          <5>1. \A body, spec : ~Checked(body, spec)
            <6>. SUFFICES ASSUME NEW body, NEW spec PROVE ~Checked(body, spec)
              OBVIOUS
            <6>. DEFINE written == [body EXCEPT !.spec = spec]
                        events == <<[type |-> IF Buildable(spec) THEN "check_passed" ELSE "contradiction",
                                     confidence |-> 5000]>>
            <6>1. Checked(body, spec) = NewClaim(written, NoLinks, events)
              BY DEF Checked
            <6>. HIDE DEF written, events
            <6>. QED
              BY <6>1, <3>3
          <5>. QED
            BY <5>1 DEF CreateMemorySpec
        <4>. QED
          BY <4>1, <4>2, <4>3
      <3>5. ~UpdateSource
        BY <2>2 DEF UpdateSource, ledger
      <3>6. ~(RunSuggestions \/ SuggestRun)
        BY <3>1 DEF RunSuggestions, SuggestRun
      <3>. QED
        BY <3>2, <3>4, <3>5, <3>6 DEF Edit
    <2>4. \A w \in Worker : ~Demand(w)
      BY <2>2 DEF Demand, LinkEvidence, LinkCommand, UpdateClaimEvidence, UnlinkClaimEvidence, ResolveClaim,
           AcceptSuggestion, RejectSuggestion, ResolveCommand, AcceptCommand, RejectCommand, Ask, ledger
    <2>5. PICK w \in Worker : Write(w)
      BY <2>2, <2>3, <2>4 DEF ClaimsNext, claimsVars, ledger
    <2>6. PICK q \in Query : /\ q = request[w] /\ ClaimsTyped /\ Asked(q) /\ q.claim \in DOMAIN claims
                             /\ links[q.claim] \in [Ev -> Stances \cup {Unset}]
      BY <2>5, RequestIs DEF Write
    <2>7. ~(q.op = "reject" /\ WriteRejection(q))
      BY <2>1, <2>6 DEF WriteRejection
    <2>8. q.op \in {"link", "accept"} /\ WriteLink(q)
      BY <2>2, <2>5, <2>6, <2>7 DEF Write, WriteUpdate, WriteUnlink, WriteVerdict, ledger
    <2>9. Insertable(q) /\ suggestions' = Judged(q)
          /\ links' = [links EXCEPT ![q.claim] = [links[q.claim] EXCEPT ![q.evidence] = q.choice]]
      BY <2>2, <2>8 DEF WriteLink, ledger
    <2>10. p = <<q.claim, q.evidence>>
      BY <2>1, <2>9 DEF Judged
    <2>11. q.evidence \in Ev /\ q.choice \in Stances
      BY <2>6, <2>8 DEF Asked
    <2>12. links[q.claim][q.evidence] = Unset
      BY <2>9 DEF Insertable
    <2>13. links'[q.claim][q.evidence] = q.choice
      <3>1. links \in Seq([Ev -> Stances \cup {Unset}]) /\ q.claim \in DOMAIN links
        BY <2>6 DEF ClaimsTyped
      <3>. QED
        BY <2>6, <2>9, <2>11, <3>1
    <2>. QED
      BY <2>10, <2>11, <2>12, <2>13, ClaimsNumbers
  <1>. QED
    BY <1>1, ClaimsSpecIInv, PTL DEF ClaimsSpec, AcceptedOnce

-----------------------------------------------------------------------------
(* What the timeline of a claim adds up to. *)

\* The evidence that stances link, and the events of a type in a timeline.
Of(stances) == {e \in Ev : stances[e] # Unset}
Times(s, type) == {k \in DOMAIN s : s[k].type = type}

\* The timeline s tells of these links, and of this confidence last.
Balanced(stances, s, confidence) ==
  /\ Cardinality(Of(stances)) = Cardinality(Times(s, "linked")) - Cardinality(Times(s, "unlinked"))
  /\ Last(s).confidence = confidence

\* A request that is to unlink has found a link.
FoundTheirLinks == \A w \in Worker : request[w] # Unset /\ request[w].op = "unlink" => request[w].stance # Unset

\* An unlink that nobody overlapped removes the link it found: without that
\* the sum would not be kept.
Accounts == TimelineAddsUp /\ FoundTheirLinks

LEMMA AddsUp == TimelineAddsUp <=> \A c \in DOMAIN claims \ overlapped : Balanced(links[c], timeline[c], claims[c].confidence)
  BY DEF TimelineAddsUp, Linked, Happened, Balanced, Of, Times

\* One more event of a timeline, one more link of a claim.
LEMMA TimesOfOneMore ==
  ASSUME NEW s \in Seq(EventRow), NEW x \in EventRow, NEW type
  PROVE  /\ IsFiniteSet(Times(s, type)) /\ Cardinality(Times(s, type)) \in Nat
         /\ Cardinality(Times(Append(s, x), type)) = Cardinality(Times(s, type)) + (IF x.type = type THEN 1 ELSE 0)
         /\ Last(Append(s, x)) = x
  <1>1. DOMAIN s = 1..Len(s) /\ Len(s) \in Nat
    BY LenProperties
  <1>2. /\ Append(s, x) \in Seq(EventRow) /\ Len(Append(s, x)) = Len(s) + 1
        /\ \A k \in 1..Len(s) : Append(s, x)[k] = s[k]
        /\ Append(s, x)[Len(s) + 1] = x
    BY AppendProperties
  <1>3. DOMAIN Append(s, x) = 1..(Len(s) + 1)
    BY <1>2, LenProperties
  <1>4. IsFiniteSet(Times(s, type)) /\ Cardinality(Times(s, type)) \in Nat
    <2>1. IsFiniteSet(1..Len(s)) /\ Times(s, type) \in SUBSET (1..Len(s))
      BY <1>1, FS_Interval DEF Times
    <2>. QED
      BY <2>1, FS_Subset, FS_CardinalityType
  <1>5. Last(Append(s, x)) = x
    BY <1>2 DEF Last
  <1>6. CASE x.type = type
    <2>1. Times(Append(s, x), type) = Times(s, type) \cup {Len(s) + 1} /\ Len(s) + 1 \notin Times(s, type)
      BY <1>1, <1>2, <1>3, <1>6 DEF Times
    <2>. QED
      BY <1>4, <1>5, <1>6, <2>1, FS_AddElement
  <1>7. CASE x.type # type
    <2>1. Times(Append(s, x), type) = Times(s, type)
      BY <1>1, <1>2, <1>3, <1>7 DEF Times
    <2>. QED
      BY <1>4, <1>5, <1>7, <2>1
  <1>. QED
    BY <1>6, <1>7

LEMMA OfOneMore ==
  ASSUME NEW stances \in [Ev -> Stances \cup {Unset}], NEW e \in Ev, NEW x \in Stances
  PROVE  /\ Cardinality(Of(stances)) \in Nat
         /\ Cardinality(Of([stances EXCEPT ![e] = x])) = Cardinality(Of(stances)) + (IF stances[e] = Unset THEN 1 ELSE 0)
         /\ Cardinality(Of([stances EXCEPT ![e] = Unset])) = Cardinality(Of(stances)) - (IF stances[e] = Unset THEN 0 ELSE 1)
  <1>1. IsFiniteSet(Of(stances)) /\ Cardinality(Of(stances)) \in Nat
    <2>1. Of(stances) \in SUBSET Ev
      BY DEF Of
    <2>. QED
      BY <2>1, ClaimsNumbers, FS_Subset, FS_CardinalityType
  <1>2. x # Unset
    BY ClaimsNumbers
  <1>3. Of([stances EXCEPT ![e] = x]) = Of(stances) \cup {e}
    BY <1>2 DEF Of
  <1>4. Of([stances EXCEPT ![e] = Unset]) = Of(stances) \ {e}
    BY DEF Of
  <1>5. e \in Of(stances) <=> stances[e] # Unset
    BY DEF Of
  <1>6. Cardinality(Of(stances) \cup {e}) = IF e \in Of(stances) THEN Cardinality(Of(stances)) ELSE Cardinality(Of(stances)) + 1
    BY <1>1, FS_AddElement
  <1>7. Cardinality(Of(stances) \ {e}) = IF e \in Of(stances) THEN Cardinality(Of(stances)) - 1 ELSE Cardinality(Of(stances))
    BY <1>1, FS_RemoveElement
  <1>8. Cardinality(Of([stances EXCEPT ![e] = x])) = Cardinality(Of(stances)) + (IF stances[e] = Unset THEN 1 ELSE 0)
    <2>1. CASE stances[e] = Unset
      BY <1>3, <1>5, <1>6, <2>1
    <2>2. CASE stances[e] # Unset
      <3>1. Cardinality(Of([stances EXCEPT ![e] = x])) = Cardinality(Of(stances))
        BY <1>3, <1>5, <1>6, <2>2
      <3>2. Cardinality(Of(stances)) = Cardinality(Of(stances)) + 0
        BY <1>1
      <3>. QED
        BY <2>2, <3>1, <3>2
    <2>. QED
      BY <2>1, <2>2
  <1>9. Cardinality(Of([stances EXCEPT ![e] = Unset])) = Cardinality(Of(stances)) - (IF stances[e] = Unset THEN 0 ELSE 1)
    <2>1. CASE stances[e] = Unset
      <3>1. Cardinality(Of([stances EXCEPT ![e] = Unset])) = Cardinality(Of(stances))
        BY <1>4, <1>5, <1>7, <2>1
      <3>2. Cardinality(Of(stances)) = Cardinality(Of(stances)) - 0
        BY <1>1
      <3>. QED
        BY <2>1, <3>1, <3>2
    <2>2. CASE stances[e] # Unset
      BY <1>4, <1>5, <1>7, <2>2
    <2>. QED
      BY <2>1, <2>2
  <1>. QED
    BY <1>1, <1>8, <1>9

\* An event that is written.
LEMMA EventIs ==
  ASSUME NEW type \in {"created", "linked", "updated", "unlinked", "status", "check_passed", "contradiction"},
         NEW score \in Score
  PROVE  \E event \in EventRow : event = [type |-> type, confidence |-> score] /\ event.type = type /\ event.confidence = score
  <1>1. [type |-> type, confidence |-> score] \in EventRow
    BY DEF EventRow
  <1>2. [type |-> type, confidence |-> score].type = type /\ [type |-> type, confidence |-> score].confidence = score
    OBVIOUS
  <1>. QED
    BY <1>1, <1>2

\* A timeline that has only begun.
LEMMA CreatedIs ==
  /\ CLAIM_CREATED \in Seq(EventRow) /\ Len(CLAIM_CREATED) = 1 /\ Last(CLAIM_CREATED).confidence = 5000
  /\ Cardinality(Times(CLAIM_CREATED, "linked")) = 0 /\ Cardinality(Times(CLAIM_CREATED, "unlinked")) = 0
  <1>1. [type |-> "created", confidence |-> 5000] \in EventRow
    BY DEF EventRow, Score
  <1>2. CLAIM_CREATED \in Seq(EventRow) /\ Len(CLAIM_CREATED) = 1 /\ DOMAIN CLAIM_CREATED = 1..1
        /\ CLAIM_CREATED[1] = [type |-> "created", confidence |-> 5000]
    BY <1>1 DEF CLAIM_CREATED
  <1>3. Last(CLAIM_CREATED).confidence = 5000
    BY <1>2 DEF Last
  <1>4. Times(CLAIM_CREATED, "linked") = {} /\ Times(CLAIM_CREATED, "unlinked") = {}
    BY <1>2 DEF Times
  <1>5. Cardinality({}) = 0
    BY FS_EmptySet
  <1>6. Cardinality(Times(CLAIM_CREATED, "linked")) = 0 /\ Cardinality(Times(CLAIM_CREATED, "unlinked")) = 0
    BY <1>4, <1>5
  <1>. QED
    BY <1>2, <1>3, <1>6

\* Each request in turn.
LEMMA LedgerAddsUp ==
  ASSUME TimelineAddsUp, UNCHANGED <<claims, links, timeline, overlapped>>
  PROVE  TimelineAddsUp'
  BY DEF TimelineAddsUp, Linked, Happened

\* An event of a claim that counts what it does to the links and says the
\* confidence that comes of it.
LEMMA EventAddsUp ==
  ASSUME ClaimsIInv, TimelineAddsUp,
         NEW c \in DOMAIN claims, NEW row \in ClaimRow, NEW stances \in [Ev -> Stances \cup {Unset}], NEW event \in EventRow,
         claims' = [claims EXCEPT ![c] = row], links' = [links EXCEPT ![c] = stances],
         timeline' = [timeline EXCEPT ![c] = Append(@, event)], overlapped \subseteq overlapped',
         c \notin overlapped' =>
           /\ event.confidence = row.confidence
           /\ Cardinality(Of(stances)) = Cardinality(Of(links[c])) + (IF event.type = "linked" THEN 1 ELSE 0)
                                                                 - (IF event.type = "unlinked" THEN 1 ELSE 0)
  PROVE  TimelineAddsUp'
  <1>1. /\ claims \in Seq(ClaimRow) /\ links \in Seq([Ev -> Stances \cup {Unset}]) /\ timeline \in Seq(Seq(EventRow))
        /\ c \in 1..Len(claims) /\ Len(links) = Len(claims) /\ Len(timeline) = Len(claims)
    BY DEF ClaimsIInv, ClaimsTyped
  <1>2. PICK s \in Seq(EventRow) : s = timeline[c]
    BY <1>1
  <1>3. PICK t \in Seq(EventRow) : t = Append(s, event)
    BY AppendProperties
  <1>4. timeline' = [timeline EXCEPT ![c] = t]
    BY <1>2, <1>3
  <1>5. \A d \in DOMAIN claims' : /\ d \in DOMAIN claims
                                  /\ claims'[d] = IF d = c THEN row ELSE claims[d]
                                  /\ links'[d] = IF d = c THEN stances ELSE links[d]
                                  /\ timeline'[d] = IF d = c THEN t ELSE timeline[d]
    <2>1. Len(claims') = Len(claims) /\ claims' \in Seq(ClaimRow) /\ \A d \in 1..Len(claims) : claims'[d] = IF d = c THEN row ELSE claims[d]
      BY <1>1
    <2>2. \A d \in 1..Len(claims) : links'[d] = IF d = c THEN stances ELSE links[d]
      BY <1>1
    <2>3. \A d \in 1..Len(claims) : timeline'[d] = IF d = c THEN t ELSE timeline[d]
      <3>1. DOMAIN timeline = 1..Len(claims)
        BY <1>1
      <3>. QED
        BY <1>4, <3>1
    <2>4. DOMAIN claims' = 1..Len(claims) /\ DOMAIN claims = 1..Len(claims)
      BY <1>1, <2>1
    <2>. QED
      BY <2>1, <2>2, <2>3, <2>4
  <1>6. \A d \in DOMAIN claims \ overlapped : Balanced(links[d], timeline[d], claims[d].confidence)
    BY AddsUp
  <1>7. ASSUME c \notin overlapped'
        PROVE  Balanced(stances, t, row.confidence)
    <2>1. Balanced(links[c], s, claims[c].confidence)
      BY <1>2, <1>6, <1>7
    <2>2. links[c] \in [Ev -> Stances \cup {Unset}]
      BY <1>1
    <2>3. Cardinality(Of(links[c])) \in Nat
      <3>1. Of(links[c]) \in SUBSET Ev
        BY DEF Of
      <3>. QED
        BY <3>1, ClaimsNumbers, FS_Subset, FS_CardinalityType
    <2>4. /\ Cardinality(Times(s, "linked")) \in Nat /\ Cardinality(Times(s, "unlinked")) \in Nat
          /\ Cardinality(Times(t, "linked")) = Cardinality(Times(s, "linked")) + (IF event.type = "linked" THEN 1 ELSE 0)
          /\ Cardinality(Times(t, "unlinked")) = Cardinality(Times(s, "unlinked")) + (IF event.type = "unlinked" THEN 1 ELSE 0)
          /\ Last(t) = event
      BY <1>3, TimesOfOneMore
    <2>5. Cardinality(Of(links[c])) = Cardinality(Times(s, "linked")) - Cardinality(Times(s, "unlinked"))
      BY <2>1 DEF Balanced
    <2>6. Cardinality(Of(stances)) = Cardinality(Times(t, "linked")) - Cardinality(Times(t, "unlinked"))
      BY <1>7, <2>3, <2>4, <2>5
    <2>. QED
      BY <1>7, <2>4, <2>6 DEF Balanced
  <1>8. ASSUME NEW d \in DOMAIN claims' \ overlapped'
        PROVE  Balanced(links'[d], timeline'[d], claims'[d].confidence)
    <2>1. CASE d = c
      BY <1>5, <1>7, <1>8, <2>1
    <2>2. CASE d # c
      <3>1. d \in DOMAIN claims \ overlapped
        BY <1>5, <1>8
      <3>. QED
        BY <1>5, <1>6, <1>8, <2>2, <3>1
    <2>. QED
      BY <2>1, <2>2
  <1>. QED
    BY <1>8 DEF TimelineAddsUp, Linked, Happened, Balanced, Of, Times

\* A claim that is new begins with a timeline of its links.
LEMMA NewClaimAddsUp ==
  ASSUME ClaimsIInv, TimelineAddsUp, NEW body \in Written, NEW stances \in [Ev -> Stances \cup {Unset}],
         NEW events \in Seq(EventRow), NewClaim(body, stances, events),
         Balanced(stances, CLAIM_CREATED \o events, Confidence(stances))
  PROVE  TimelineAddsUp'
  <1>1. /\ claims \in Seq(ClaimRow) /\ links \in Seq([Ev -> Stances \cup {Unset}]) /\ timeline \in Seq(Seq(EventRow))
        /\ Len(links) = Len(claims) /\ Len(timeline) = Len(claims) /\ Len(claims) \in Nat /\ ClaimsTyped
    BY DEF ClaimsIInv, ClaimsTyped
  <1>2. PICK row \in ClaimRow : row = [AsOpened(body) EXCEPT !.confidence = Confidence(stances)]
                                /\ row.confidence = Confidence(stances)
    <2>1. PICK o \in ClaimRow : o = AsOpened(body)
      BY OpenedIs
    <2>2. PICK score \in Score : score = Confidence(stances)
      BY <1>1, ConfidenceIs
    <2>3. [o EXCEPT !.confidence = score] \in ClaimRow /\ [o EXCEPT !.confidence = score].confidence = score
      BY DEF ClaimRow
    <2>. QED
      BY <2>1, <2>2, <2>3
  <1>3. PICK t \in Seq(EventRow) : t = CLAIM_CREATED \o events
    <2>1. CLAIM_CREATED \in Seq(EventRow)
      BY CreatedIs
    <2>2. CLAIM_CREATED \o events \in Seq(EventRow)
      BY <2>1, ConcatProperties
    <2>. QED
      BY <2>2
  <1>4. claims' = Append(claims, row) /\ links' = Append(links, stances) /\ timeline' = Append(timeline, t) /\ overlapped' = overlapped
    BY <1>2, <1>3 DEF NewClaim, history
  <1>5. /\ DOMAIN claims' = 1..(Len(claims) + 1) /\ DOMAIN claims = 1..Len(claims)
        /\ claims'[Len(claims) + 1] = row /\ links'[Len(claims) + 1] = stances /\ timeline'[Len(claims) + 1] = t
        /\ \A d \in 1..Len(claims) : claims'[d] = claims[d] /\ links'[d] = links[d] /\ timeline'[d] = timeline[d]
    BY <1>1, <1>4
  <1>6. \A d \in DOMAIN claims \ overlapped : Balanced(links[d], timeline[d], claims[d].confidence)
    BY AddsUp
  <1>7. ASSUME NEW d \in DOMAIN claims' \ overlapped'
        PROVE  Balanced(links'[d], timeline'[d], claims'[d].confidence)
    <2>1. CASE d = Len(claims) + 1
      BY <1>2, <1>3, <1>5, <2>1
    <2>2. CASE d \in 1..Len(claims)
      BY <1>4, <1>5, <1>6, <1>7, <2>2
    <2>. QED
      BY <1>1, <1>5, <2>1, <2>2
  <1>. QED
    BY <1>7 DEF TimelineAddsUp, Linked, Happened, Balanced, Of, Times

\* What was recorded of new stances counts them, unless the request overlapped
\* another.
LEMMA RecordedAddsUp ==
  ASSUME ClaimsIInv, TimelineAddsUp, NEW w \in Worker, request[w] # Unset,
         NEW stances \in [Ev -> Stances \cup {Unset}], NEW written \in [Ev -> Stances \cup {Unset}],
         NEW type \in {"linked", "updated", "unlinked"},
         links' = [links EXCEPT ![request[w].claim] = written],
         Recorded(request[w], Confidence(stances), type),
         Len(timeline[request[w].claim]) = request[w].length =>
           Cardinality(Of(written)) = Cardinality(Of(links[request[w].claim])) + (IF type = "linked" THEN 1 ELSE 0)
                                                                            - (IF type = "unlinked" THEN 1 ELSE 0)
  PROVE  TimelineAddsUp'
  <1>1. PICK q \in Query : /\ q = request[w] /\ ClaimsTyped /\ Fresh(q) /\ claims[q.claim] \in ClaimRow /\ q.length \in Nat
                           /\ Len(timeline[q.claim]) \in Nat
    BY RequestIs
  <1>2. PICK c \in DOMAIN claims : c = q.claim
    BY <1>1, RequestIs
  <1>3. PICK score \in Score : score = Confidence(stances)
    BY <1>1, ConfidenceIs
  <1>. DEFINE next == IF score = q.loaded.confidence THEN claims[c].confidence ELSE score
  <1>4. /\ claims' = [claims EXCEPT ![c].confidence = next]
        /\ timeline' = [timeline EXCEPT ![c] = Append(@, [type |-> type, confidence |-> score])]
        /\ overlapped' = overlapped \cup (IF Len(timeline[c]) # q.length THEN {c} ELSE {})
    BY <1>1, <1>2, <1>3 DEF Recorded
  <1>5. next \in Score
    BY <1>1, <1>2 DEF ClaimRow
  <1>. HIDE DEF next
  <1>6. PICK row \in ClaimRow : row = [claims[c] EXCEPT !.confidence = next] /\ row.confidence = next
    <2>1. PICK n \in Score : n = next
      BY <1>5
    <2>2. PICK old \in ClaimRow : old = claims[c]
      BY <1>1, <1>2
    <2>3. [old EXCEPT !.confidence = n] \in ClaimRow /\ [old EXCEPT !.confidence = n].confidence = n
      BY DEF ClaimRow
    <2>. QED
      BY <2>1, <2>2, <2>3
  <1>7. claims' = [claims EXCEPT ![c] = row]
    BY <1>4, <1>6
  <1>8. PICK event \in EventRow : event = [type |-> type, confidence |-> score] /\ event.type = type /\ event.confidence = score
    BY EventIs
  <1>9. ASSUME c \notin overlapped'
        PROVE  /\ event.confidence = row.confidence
               /\ Cardinality(Of(written)) = Cardinality(Of(links[c])) + (IF event.type = "linked" THEN 1 ELSE 0)
                                                                      - (IF event.type = "unlinked" THEN 1 ELSE 0)
    <2>1. Len(timeline[c]) = q.length
      BY <1>4, <1>9
    <2>2. q.loaded = claims[c]
      BY <1>1, <1>2, <2>1 DEF Fresh
    <2>3. event.confidence = row.confidence
      BY <1>6, <1>8, <2>2 DEF next
    <2>. QED
      BY <1>1, <1>2, <1>8, <2>1, <2>3
  <1>10. links' = [links EXCEPT ![c] = written] /\ timeline' = [timeline EXCEPT ![c] = Append(@, event)] /\ overlapped \subseteq overlapped'
    BY <1>1, <1>2, <1>4, <1>8
  <1>. QED
    BY <1>7, <1>9, <1>10, EventAddsUp

LEMMA WriteLinkAddsUp ==
  ASSUME ClaimsIInv, TimelineAddsUp, NEW w \in Worker, request[w] # Unset,
         request[w].op \in {"link", "accept"}, WriteLink(request[w])
  PROVE  TimelineAddsUp'
  <1>1. PICK q \in Query : /\ q = request[w] /\ ClaimsTyped /\ Asked(q) /\ q.claim \in DOMAIN claims
                           /\ links[q.claim] \in [Ev -> Stances \cup {Unset}]
    BY RequestIs
  <1>2. q.evidence \in Ev /\ q.choice \in Stances
    BY <1>1 DEF Asked
  <1>3. PICK stances \in [Ev -> Stances \cup {Unset}] : stances = [links[q.claim] EXCEPT ![q.evidence] = q.choice]
    BY <1>1, <1>2
  <1>4. CASE ~Insertable(q)
    BY <1>1, <1>4, LedgerAddsUp DEF WriteLink, ledger, history
  <1>5. CASE Insertable(q)
    <2>1. links' = [links EXCEPT ![q.claim] = stances] /\ Recorded(q, Confidence(stances), "linked")
      BY <1>1, <1>3, <1>5 DEF WriteLink
    <2>2. Cardinality(Of(stances)) = Cardinality(Of(links[q.claim])) + 1
      BY <1>1, <1>2, <1>3, <1>5, OfOneMore DEF Insertable
    <2>3. Cardinality(Of(links[q.claim])) \in Nat
      BY <1>1, <1>2, OfOneMore
    <2>4. Cardinality(Of(stances)) = Cardinality(Of(links[q.claim])) + (IF "linked" = "linked" THEN 1 ELSE 0)
                                                                    - (IF "linked" = "unlinked" THEN 1 ELSE 0)
      BY <2>2, <2>3
    <2>. QED
      BY <1>1, <2>1, <2>4, RecordedAddsUp
  <1>. QED
    BY <1>4, <1>5

\* An update of a link that is gone fails, or its request overlapped another.
LEMMA WriteUpdateAddsUp ==
  ASSUME ClaimsIInv, TimelineAddsUp, NEW w \in Worker, request[w] # Unset,
         request[w].op = "update", WriteUpdate(request[w])
  PROVE  TimelineAddsUp'
  <1>1. PICK q \in Query : /\ q = request[w] /\ ClaimsTyped /\ Asked(q) /\ Fresh(q) /\ q.claim \in DOMAIN claims
                           /\ links[q.claim] \in [Ev -> Stances \cup {Unset}]
    BY RequestIs
  <1>2. q.evidence \in Ev /\ q.choice \in Stances /\ q.evidence # Unset /\ q.choice # Unset
    BY <1>1, ClaimsNumbers DEF Asked
  <1>. DEFINE gone == links[q.claim][q.evidence] = Unset
              stances == IF gone THEN links[q.claim] ELSE [links[q.claim] EXCEPT ![q.evidence] = q.choice]
              written == IF q.choice = q.stance THEN links[q.claim] ELSE stances
  <1>3. stances \in [Ev -> Stances \cup {Unset}] /\ written \in [Ev -> Stances \cup {Unset}]
    BY <1>1, <1>2
  <1>4. CASE gone /\ q.choice # q.stance
    BY <1>1, <1>4, LedgerAddsUp DEF WriteUpdate, ledger, history
  <1>5. CASE ~(gone /\ q.choice # q.stance)
    <2>1. /\ links' = (IF q.choice = q.stance THEN links ELSE [links EXCEPT ![q.claim] = stances])
          /\ Recorded(q, Confidence(stances), "updated")
      BY <1>1, <1>5 DEF WriteUpdate
    <2>2. links' = [links EXCEPT ![q.claim] = written]
      <3>1. CASE q.choice = q.stance
        <4>1. links \in Seq([Ev -> Stances \cup {Unset}]) /\ written = links[q.claim]
          BY <1>1, <3>1 DEF ClaimsTyped
        <4>2. [links EXCEPT ![q.claim] = links[q.claim]] = links
          BY <4>1
        <4>. QED
          BY <2>1, <3>1, <4>1, <4>2
      <3>2. CASE q.choice # q.stance
        BY <2>1, <3>2
      <3>. QED
        BY <3>1, <3>2
    <2>3. Cardinality(Of(written)) = Cardinality(Of(links[q.claim])) /\ Cardinality(Of(written)) \in Nat
      <3>1. Cardinality(Of(links[q.claim])) \in Nat
        BY <1>1, <1>2, OfOneMore
      <3>2. CASE written = links[q.claim]
        BY <3>1, <3>2
      <3>3. CASE written # links[q.claim]
        <4>1. written = [links[q.claim] EXCEPT ![q.evidence] = q.choice] /\ links[q.claim][q.evidence] # Unset
          BY <3>3
        <4>2. Cardinality(Of([links[q.claim] EXCEPT ![q.evidence] = q.choice])) = Cardinality(Of(links[q.claim])) + 0
          BY <1>1, <1>2, <4>1, OfOneMore
        <4>. QED
          BY <3>1, <4>1, <4>2
      <3>. QED
        BY <3>2, <3>3
    <2>. HIDE DEF stances, written
    <2>4. Cardinality(Of(written)) = Cardinality(Of(links[q.claim])) + (IF "updated" = "linked" THEN 1 ELSE 0)
                                                                    - (IF "updated" = "unlinked" THEN 1 ELSE 0)
      BY <2>3
    <2>. QED
      BY <1>1, <1>3, <2>1, <2>2, <2>4, RecordedAddsUp
  <1>. QED
    BY <1>4, <1>5

\* Who unlinks what is gone found it linked, so that others came in between.
LEMMA WriteUnlinkAddsUp ==
  ASSUME ClaimsIInv, TimelineAddsUp, FoundTheirLinks, NEW w \in Worker, request[w] # Unset,
         request[w].op = "unlink", WriteUnlink(request[w])
  PROVE  TimelineAddsUp'
  <1>1. PICK q \in Query : /\ q = request[w] /\ ClaimsTyped /\ Asked(q) /\ Fresh(q) /\ q.claim \in DOMAIN claims
                           /\ links[q.claim] \in [Ev -> Stances \cup {Unset}]
    BY RequestIs
  <1>2. q.evidence \in Ev /\ q.evidence # Unset /\ q.stance # Unset /\ q.stance \in Stances
    BY <1>1, ClaimsNumbers DEF Asked, FoundTheirLinks, Query
  <1>3. PICK stances \in [Ev -> Stances \cup {Unset}] :
          stances = Unlinked(q.claim, q.evidence) /\ stances = [links[q.claim] EXCEPT ![q.evidence] = Unset]
    BY <1>1, <1>2 DEF Unlinked
  <1>4. links' = [links EXCEPT ![q.claim] = stances]
    BY <1>1, <1>3 DEF WriteUnlink
  <1>5. Recorded(q, Confidence(stances), "unlinked")
    BY <1>1, <1>3 DEF WriteUnlink
  <1>6. ASSUME Len(timeline[q.claim]) = q.length
        PROVE  Cardinality(Of(stances)) = Cardinality(Of(links[q.claim])) + (IF "unlinked" = "linked" THEN 1 ELSE 0)
                                                                          - (IF "unlinked" = "unlinked" THEN 1 ELSE 0)
    <2>1. links[q.claim][q.evidence] # Unset
      BY <1>1, <1>2, <1>6 DEF Fresh
    <2>2. /\ Cardinality(Of(links[q.claim])) \in Nat
          /\ Cardinality(Of(stances)) = Cardinality(Of(links[q.claim])) - 1
      BY <1>1, <1>2, <1>3, <2>1, OfOneMore
    <2>. QED
      BY <2>2
  <1>. QED
    BY <1>1, <1>4, <1>5, <1>6, RecordedAddsUp

\* A verdict repeats the confidence its request has loaded.
LEMMA WriteVerdictAddsUp ==
  ASSUME ClaimsIInv, TimelineAddsUp, NEW w \in Worker, request[w] # Unset,
         request[w].op = "resolve", WriteVerdict(request[w])
  PROVE  TimelineAddsUp'
  <1>1. PICK q \in Query : /\ q = request[w] /\ ClaimsTyped /\ Asked(q) /\ Fresh(q) /\ q.claim \in DOMAIN claims
                           /\ claims[q.claim] \in ClaimRow /\ links[q.claim] \in [Ev -> Stances \cup {Unset}]
    BY RequestIs
  <1>2. PICK c \in DOMAIN claims : c = q.claim
    BY <1>1
  <1>3. q.choice \in Verdicts /\ q.loaded \in ClaimRow
    BY <1>1 DEF Asked, Query
  <1>. DEFINE next == IF q.choice = q.loaded.status THEN claims[c].status ELSE q.choice
  <1>4. /\ claims' = [claims EXCEPT ![c].status = next]
        /\ timeline' = [timeline EXCEPT ![c] = Append(@, [type |-> "status", confidence |-> q.loaded.confidence])]
        /\ overlapped' = overlapped \cup (IF Len(timeline[c]) # q.length THEN {c} ELSE {}) /\ UNCHANGED links
    BY <1>1, <1>2 DEF WriteVerdict
  <1>5. PICK row \in ClaimRow : row = [claims[c] EXCEPT !.status = next] /\ row.confidence = claims[c].confidence
    <2>1. PICK n \in Verdicts \cup {"open"} : n = next
      BY <1>1, <1>2, <1>3 DEF ClaimRow
    <2>2. PICK old \in ClaimRow : old = claims[c]
      BY <1>1, <1>2
    <2>3. [old EXCEPT !.status = n] \in ClaimRow /\ [old EXCEPT !.status = n].confidence = old.confidence
      BY DEF ClaimRow
    <2>. QED
      BY <2>1, <2>2, <2>3
  <1>6. claims' = [claims EXCEPT ![c] = row]
    BY <1>4, <1>5
  <1>. HIDE DEF next
  <1>7. PICK event \in EventRow : event = [type |-> "status", confidence |-> q.loaded.confidence] /\ event.type = "status"
                                  /\ event.confidence = q.loaded.confidence
    <2>1. PICK score \in Score : score = q.loaded.confidence
      BY <1>3 DEF ClaimRow
    <2>. QED
      BY <2>1, EventIs
  <1>8. PICK stances \in [Ev -> Stances \cup {Unset}] : stances = links[c]
    BY <1>1, <1>2
  <1>9. links' = [links EXCEPT ![c] = stances]
    <2>1. links \in Seq([Ev -> Stances \cup {Unset}])
      BY <1>1 DEF ClaimsTyped
    <2>. QED
      BY <1>4, <1>8, <2>1
  <1>10. ASSUME c \notin overlapped'
         PROVE  event.confidence = row.confidence
    <2>1. q.loaded = claims[c]
      BY <1>1, <1>2, <1>4, <1>10 DEF Fresh
    <2>. QED
      BY <1>5, <1>7, <2>1
  <1>11. Cardinality(Of(stances)) = Cardinality(Of(links[c])) + (IF event.type = "linked" THEN 1 ELSE 0)
                                                              - (IF event.type = "unlinked" THEN 1 ELSE 0)
    <2>1. Of(stances) \in SUBSET Ev
      BY DEF Of
    <2>2. Cardinality(Of(stances)) \in Nat
      BY <2>1, ClaimsNumbers, FS_Subset, FS_CardinalityType
    <2>. QED
      BY <1>7, <1>8, <2>2
  <1>12. timeline' = [timeline EXCEPT ![c] = Append(@, event)] /\ overlapped \subseteq overlapped'
    BY <1>4, <1>7
  <1>. QED
    BY <1>6, <1>9, <1>10, <1>11, <1>12, EventAddsUp

LEMMA WriteAddsUp ==
  ASSUME ClaimsIInv, Accounts, NEW w \in Worker, Write(w)
  PROVE  Accounts'
  <1>1. request[w] # Unset /\ request' = [request EXCEPT ![w] = Unset]
    BY DEF Write
  <1>2. TimelineAddsUp /\ FoundTheirLinks
    BY DEF Accounts
  <1>3. TimelineAddsUp'
    <2>1. CASE request[w].op \in {"link", "accept"} /\ WriteLink(request[w])
      BY <1>1, <1>2, <2>1, WriteLinkAddsUp
    <2>2. CASE request[w].op = "update" /\ WriteUpdate(request[w])
      BY <1>1, <1>2, <2>2, WriteUpdateAddsUp
    <2>3. CASE request[w].op = "unlink" /\ WriteUnlink(request[w])
      BY <1>1, <1>2, <2>3, WriteUnlinkAddsUp
    <2>4. CASE request[w].op = "resolve" /\ WriteVerdict(request[w])
      BY <1>1, <1>2, <2>4, WriteVerdictAddsUp
    <2>5. CASE request[w].op = "reject" /\ WriteRejection(request[w])
      BY <1>2, <2>5, LedgerAddsUp DEF WriteRejection, history
    <2>. QED
      BY <2>1, <2>2, <2>3, <2>4, <2>5 DEF Write
  <1>4. FoundTheirLinks'
    <2>1. request \in [Worker -> Query \cup {Unset}]
      BY DEF ClaimsIInv, ClaimsTyped
    <2>. QED
      BY <1>1, <1>2, <2>1 DEF FoundTheirLinks
  <1>. QED
    BY <1>3, <1>4 DEF Accounts

LEMMA DemandAddsUp ==
  ASSUME ClaimsIInv, Accounts, NEW w \in Worker, Demand(w)
  PROVE  Accounts'
  <1>1. ASSUME NEW op, NEW c, NEW e, NEW choice, Ask(w, op, c, e, choice),
               op = "unlink" => c \in DOMAIN claims /\ e \in Linked(c)
        PROVE  Accounts'
    <2>1. UNCHANGED <<claims, links, timeline, overlapped>>
      BY <1>1 DEF Ask, ledger, history
    <2>2. TimelineAddsUp'
      BY <2>1, LedgerAddsUp DEF Accounts
    <2>. DEFINE q == [op |-> op, claim |-> c, evidence |-> e, choice |-> choice, loaded |-> claims[c],
                      stance |-> IF e = Unset THEN Unset ELSE links[c][e], length |-> Len(timeline[c])]
    <2>3. request' = [request EXCEPT ![w] = q]
      BY <1>1 DEF Ask
    <2>4. q.op = "unlink" => q.stance # Unset
      BY <1>1, ClaimsNumbers DEF Linked
    <2>. HIDE DEF q
    <2>5. FoundTheirLinks'
      <3>1. request \in [Worker -> Query \cup {Unset}]
        BY DEF ClaimsIInv, ClaimsTyped
      <3>2. \A v \in Worker : request'[v] = q \/ request'[v] = request[v]
        BY <2>3, <3>1
      <3>. QED
        BY <2>4, <3>2 DEF Accounts, FoundTheirLinks
    <2>. QED
      BY <2>2, <2>5 DEF Accounts
  <1>2. CASE LinkEvidence(w) \/ LinkCommand(w)
    <2>1. PICK c \in DOMAIN claims, stance \in Stances, e \in Ev : Ask(w, "link", c, e, stance)
      BY <1>2 DEF LinkEvidence, LinkCommand
    <2>. QED
      BY <1>1, <2>1
  <1>3. CASE UpdateClaimEvidence(w)
    <2>1. PICK c \in DOMAIN claims, stance \in Stances : \E e \in Linked(c) : Ask(w, "update", c, e, stance)
      BY <1>3 DEF UpdateClaimEvidence
    <2>. QED
      BY <1>1, <2>1
  <1>4. CASE UnlinkClaimEvidence(w)
    <2>1. PICK c \in DOMAIN claims : \E e \in Linked(c) : Ask(w, "unlink", c, e, Unset)
      BY <1>4 DEF UnlinkClaimEvidence
    <2>2. PICK e \in Linked(c) : Ask(w, "unlink", c, e, Unset)
      BY <2>1
    <2>. QED
      BY <1>1, <2>2
  <1>5. CASE ResolveClaim(w) \/ ResolveCommand(w)
    <2>1. PICK c \in DOMAIN claims, status \in Verdicts : Ask(w, "resolve", c, Unset, status)
      BY <1>5 DEF ResolveClaim, ResolveCommand
    <2>. QED
      BY <1>1, <2>1
  <1>6. CASE AcceptSuggestion(w) \/ AcceptCommand(w)
    <2>1. PICK c \in DOMAIN claims, stance \in Stances, e \in Ev : Ask(w, "accept", c, e, stance)
      BY <1>6 DEF AcceptSuggestion, AcceptCommand
    <2>. QED
      BY <1>1, <2>1
  <1>7. CASE RejectSuggestion(w) \/ RejectCommand(w)
    <2>1. PICK c \in DOMAIN claims, e \in Ev : Ask(w, "reject", c, e, Unset)
      BY <1>7 DEF RejectSuggestion, RejectCommand
    <2>. QED
      BY <1>1, <2>1
  <1>. QED
    BY <1>2, <1>3, <1>4, <1>5, <1>6, <1>7 DEF Demand

LEMMA EditAddsUp ==
  ASSUME ClaimsIInv, Accounts, Edit
  PROVE  Accounts'
  <1>1. TimelineAddsUp /\ FoundTheirLinks
    BY DEF Accounts
  <1>2. ASSUME request' = request, TimelineAddsUp' PROVE Accounts'
    BY <1>1, <1>2 DEF Accounts, FoundTheirLinks
  <1>3. ASSUME UNCHANGED <<claims, links, timeline, overlapped, request>> PROVE Accounts'
    BY <1>1, <1>2, <1>3, LedgerAddsUp
  <1>4. /\ Times(<<>>, "linked") = {} /\ Times(<<>>, "unlinked") = {}
        /\ Cardinality(Of(NoLinks)) = 0 /\ Confidence(NoLinks) = 5000
    BY FS_EmptySet, NothingLinked DEF Times, Of, NoLinks, Confidence
  <1>5. Balanced(NoLinks, CLAIM_CREATED, 5000)
    BY <1>4, CreatedIs DEF Balanced
  <1>6. ASSUME NEW event \in EventRow
        PROVE  /\ CLAIM_CREATED \o <<event>> = Append(CLAIM_CREATED, event) /\ <<event>> \in Seq(EventRow)
               /\ Last(CLAIM_CREATED \o <<event>>) = event
               /\ Cardinality(Times(CLAIM_CREATED \o <<event>>, "linked")) = IF event.type = "linked" THEN 1 ELSE 0
               /\ Cardinality(Times(CLAIM_CREATED \o <<event>>, "unlinked")) = IF event.type = "unlinked" THEN 1 ELSE 0
    <2>1. CLAIM_CREATED \o <<event>> = Append(CLAIM_CREATED, event)
      BY CreatedIs
    <2>2. /\ Cardinality(Times(Append(CLAIM_CREATED, event), "linked")) = 0 + (IF event.type = "linked" THEN 1 ELSE 0)
          /\ Cardinality(Times(Append(CLAIM_CREATED, event), "unlinked")) = 0 + (IF event.type = "unlinked" THEN 1 ELSE 0)
          /\ Last(Append(CLAIM_CREATED, event)) = event
      BY CreatedIs, TimesOfOneMore
    <2>3. <<event>> \in Seq(EventRow)
      OBVIOUS
    <2>4. \A n \in {"linked", "unlinked"} : 0 + (IF event.type = n THEN 1 ELSE 0) = IF event.type = n THEN 1 ELSE 0
      OBVIOUS
    <2>5. /\ Cardinality(Times(Append(CLAIM_CREATED, event), "linked")) = IF event.type = "linked" THEN 1 ELSE 0
          /\ Cardinality(Times(Append(CLAIM_CREATED, event), "unlinked")) = IF event.type = "unlinked" THEN 1 ELSE 0
      BY <2>2, <2>4
    <2>. QED
      BY <2>1, <2>2, <2>3, <2>5
  <1>7. CASE CreateEntity \/ EntityAdd \/ UpdateEntity \/ EntityRelate \/ ResolveMention \/ DisposeMention
    <2>1. UNCHANGED <<ledger, request, history>>
      BY <1>7 DEF CreateEntity, EntityAdd, UpdateEntity, EntityRelate, ResolveMention, DisposeMention
    <2>. QED
      BY <1>3, <2>1 DEF ledger, history
  <1>8. CASE CreateClaim \/ ClaimCreate
    <2>1. PICK body \in Statements : NewClaim(body, NoLinks, <<>>)
      BY <1>8 DEF CreateClaim, ClaimCreate
    <2>2. body \in Written /\ <<>> \in Seq(EventRow) /\ CLAIM_CREATED \o <<>> = CLAIM_CREATED
      BY CreatedIs DEF Written
    <2>3. Balanced(NoLinks, CLAIM_CREATED \o <<>>, Confidence(NoLinks))
      BY <1>4, <1>5, <2>2
    <2>4. \E written \in Written : written = body
      BY <2>2
    <2>5. TimelineAddsUp'
      BY <1>1, <2>1, <2>2, <2>3, <2>4, NoLinksIs, NewClaimAddsUp
    <2>. QED
      BY <1>2, <2>1, <2>5 DEF NewClaim
  <1>9. CASE ClaimOfReport
    <2>1. PICK body \in Statements, e \in Ev, stance \in Stances :
            NewClaim(body, [NoLinks EXCEPT ![e] = stance],
                     <<[type |-> "linked", confidence |-> Confidence([NoLinks EXCEPT ![e] = stance])]>>)
      BY <1>9 DEF ClaimOfReport
    <2>2. PICK stances \in [Ev -> Stances \cup {Unset}] : stances = [NoLinks EXCEPT ![e] = stance]
      BY NoLinksIs
    <2>3. PICK score \in Score : score = Confidence(stances)
      BY ConfidenceIs DEF ClaimsIInv
    <2>4. PICK event \in EventRow : event = [type |-> "linked", confidence |-> score] /\ event.type = "linked" /\ event.confidence = score
      BY EventIs
    <2>5. NewClaim(body, stances, <<event>>) /\ body \in Written
      BY <2>1, <2>2, <2>3, <2>4 DEF Written
    <2>6. Cardinality(Of(stances)) = 0 + 1
      <3>1. NoLinks[e] = Unset
        BY DEF NoLinks
      <3>2. Cardinality(Of([NoLinks EXCEPT ![e] = stance])) = Cardinality(Of(NoLinks)) + 1
        BY <3>1, NoLinksIs, OfOneMore
      <3>. QED
        BY <1>4, <2>2, <3>2
    <2>7. Balanced(stances, CLAIM_CREATED \o <<event>>, Confidence(stances))
      BY <1>6, <2>3, <2>4, <2>6 DEF Balanced
    <2>8. TimelineAddsUp'
      BY <1>1, <1>6, <2>5, <2>7, NewClaimAddsUp
    <2>. QED
      BY <1>2, <2>5, <2>8 DEF NewClaim
  <1>10. CASE CreateMemorySpec
    <2>1. PICK body \in Statements, given \in Specs : Checked(body, given)
      BY <1>10 DEF CreateMemorySpec
    <2>2. PICK kind \in {"check_passed", "contradiction"} :
            NewClaim([body EXCEPT !.spec = given], NoLinks, <<[type |-> kind, confidence |-> 5000]>>)
      BY <2>1 DEF Checked
    <2>3. 5000 \in Score
      BY DEF Score
    <2>4. kind \in {"created", "linked", "updated", "unlinked", "status", "check_passed", "contradiction"}
      OBVIOUS
    <2>5. [type |-> kind, confidence |-> 5000] \in EventRow
      BY <2>4, <2>3 DEF EventRow
    <2>6. PICK event \in EventRow : event = [type |-> kind, confidence |-> 5000]
      BY <2>5
    <2>7. [body EXCEPT !.spec = given] \in {[b EXCEPT !.spec = x] : b \in Statements, x \in Specs}
      OBVIOUS
    <2>8. PICK written \in Written : written = [body EXCEPT !.spec = given]
      BY <2>7 DEF Written
    <2>9. NewClaim(written, NoLinks, <<event>>)
      BY <2>2, <2>6, <2>8
    <2>10. event.type \notin {"linked", "unlinked"} /\ event.confidence = 5000
      BY <2>6
    <2>11. Cardinality(Times(CLAIM_CREATED \o <<event>>, "linked")) = 0 /\ Cardinality(Times(CLAIM_CREATED \o <<event>>, "unlinked")) = 0
      BY <1>6, <2>10
    <2>12. Balanced(NoLinks, CLAIM_CREATED \o <<event>>, Confidence(NoLinks))
      BY <1>4, <1>6, <2>10, <2>11 DEF Balanced
    <2>13. TimelineAddsUp'
      BY <1>1, <1>6, <2>9, <2>12, NoLinksIs, NewClaimAddsUp
    <2>. QED
      BY <1>2, <2>9, <2>13 DEF NewClaim
  <1>11. CASE UpdateSource
    BY <1>3, <1>11 DEF UpdateSource, ledger
  <1>12. CASE RunSuggestions \/ SuggestRun
    BY <1>3, <1>12 DEF RunSuggestions, SuggestRun, history
  <1>. QED
    BY <1>7, <1>8, <1>9, <1>10, <1>11, <1>12 DEF Edit

LEMMA ClaimsSpecAccounts == ClaimsSpec => []Accounts
  <1>1. ClaimsInit => Accounts
    <2>. SUFFICES ASSUME ClaimsInit PROVE Accounts
      OBVIOUS
    <2>1. FoundTheirLinks
      BY DEF ClaimsInit, FoundTheirLinks
    <2>2. ASSUME NEW c \in DOMAIN claims
          PROVE  Balanced(links[c], timeline[c], claims[c].confidence)
      <3>1. c \in DOMAIN FirstClaims /\ links[c] = NoLinks /\ timeline[c] = CLAIM_CREATED /\ claims[c] = AsOpened(FirstClaims[c])
        BY <2>2 DEF ClaimsInit
      <3>2. claims[c].confidence = 5000
        BY <3>1 DEF AsOpened
      <3>3. Cardinality(Of(NoLinks)) = 0
        BY FS_EmptySet DEF Of, NoLinks
      <3>. QED
        BY <3>1, <3>2, <3>3, CreatedIs DEF Balanced
    <2>. QED
      BY <2>1, <2>2, AddsUp DEF Accounts
  <1>2. ClaimsIInv /\ Accounts /\ [ClaimsNext]_claimsVars => Accounts'
    <2>. SUFFICES ASSUME ClaimsIInv, Accounts, [ClaimsNext]_claimsVars PROVE Accounts'
      OBVIOUS
    <2>1. CASE UNCHANGED claimsVars
      BY <2>1, LedgerAddsUp DEF Accounts, FoundTheirLinks, claimsVars, ledger, history
    <2>2. CASE Edit
      BY <2>2, EditAddsUp
    <2>3. ASSUME NEW w \in Worker, Demand(w) \/ Write(w)
          PROVE  Accounts'
      BY <2>3, DemandAddsUp, WriteAddsUp
    <2>. QED
      BY <2>1, <2>2, <2>3 DEF ClaimsNext
  <1>. QED
    BY <1>1, <1>2, ClaimsSpecIInv, PTL DEF ClaimsSpec

\* The timeline of a claim tells how it came to what it is: the links it was
\* given and lost are those it has, and its last event says its confidence,
\* unless two requests about it overlapped.
THEOREM TimelineIsComplete == ClaimsSpec => []TimelineAddsUp
  <1>1. Accounts => TimelineAddsUp
    BY DEF Accounts
  <1>. QED
    BY <1>1, ClaimsSpecAccounts, PTL

-----------------------------------------------------------------------------
(* The track record of a source. *)

\* No claim goes away, and one that is new has no verdict yet.
NewAreOpen ==
  /\ DOMAIN claims \subseteq DOMAIN claims'
  /\ \A c \in DOMAIN claims' \ DOMAIN claims : claims'[c].status = "open"

LEMMA NewClaimIsOpen ==
  ASSUME ClaimsIInv, NEW body, NEW stances, NEW events, NewClaim(body, stances, events)
  PROVE  NewAreOpen
  <1>1. claims \in Seq(ClaimRow) /\ Len(claims) \in Nat
    BY DEF ClaimsIInv, ClaimsTyped
  <1>. DEFINE score == Confidence(stances)
              row == [AsOpened(body) EXCEPT !.confidence = score]
  <1>2. claims' = Append(claims, row)
    BY DEF NewClaim
  <1>3. row.status = "open"
    <2>. HIDE DEF score
    <2>. QED
      BY DEF AsOpened
  <1>. HIDE DEF row, score
  <1>4. DOMAIN claims = 1..Len(claims) /\ DOMAIN claims' = 1..(Len(claims) + 1) /\ claims'[Len(claims) + 1] = row
    BY <1>1, <1>2
  <1>5. DOMAIN claims' \ DOMAIN claims = {Len(claims) + 1}
    BY <1>1, <1>4
  <1>. QED
    BY <1>1, <1>3, <1>4, <1>5 DEF NewAreOpen

LEMMA ClaimsGrow ==
  ASSUME ClaimsIInv, [ClaimsNext]_claimsVars
  PROVE  NewAreOpen
  <1>1. ASSUME DOMAIN claims' = DOMAIN claims PROVE NewAreOpen
    BY <1>1 DEF NewAreOpen
  <1>2. CASE UNCHANGED claims
    BY <1>1, <1>2
  <1>3. CASE Edit
    <2>1. CASE CreateEntity \/ EntityAdd \/ UpdateEntity \/ EntityRelate \/ ResolveMention \/ DisposeMention
      BY <1>2, <2>1 DEF CreateEntity, EntityAdd, UpdateEntity, EntityRelate, ResolveMention, DisposeMention, ledger
    <2>2. CASE CreateClaim \/ ClaimCreate
      BY <2>2, NewClaimIsOpen DEF CreateClaim, ClaimCreate
    <2>3. CASE ClaimOfReport
      BY <2>3, NewClaimIsOpen DEF ClaimOfReport
    <2>4. CASE CreateMemorySpec
      BY <2>4, NewClaimIsOpen DEF CreateMemorySpec, Checked
    <2>5. CASE UpdateSource \/ RunSuggestions \/ SuggestRun
      BY <1>2, <2>5 DEF UpdateSource, RunSuggestions, SuggestRun, ledger
    <2>. QED
      BY <1>3, <2>1, <2>2, <2>3, <2>4, <2>5 DEF Edit
  <1>4. ASSUME NEW w \in Worker, Demand(w)
        PROVE  NewAreOpen
    <2>1. \A op, c, e, choice : Ask(w, op, c, e, choice) => UNCHANGED claims
      BY DEF Ask, ledger
    <2>2. CASE LinkEvidence(w) \/ LinkCommand(w)
      BY <1>2, <2>1, <2>2 DEF LinkEvidence, LinkCommand
    <2>3. CASE UpdateClaimEvidence(w) \/ UnlinkClaimEvidence(w)
      BY <1>2, <2>1, <2>3 DEF UpdateClaimEvidence, UnlinkClaimEvidence
    <2>4. CASE ResolveClaim(w) \/ ResolveCommand(w)
      BY <1>2, <2>1, <2>4 DEF ResolveClaim, ResolveCommand
    <2>5. CASE AcceptSuggestion(w) \/ AcceptCommand(w)
      BY <1>2, <2>1, <2>5 DEF AcceptSuggestion, AcceptCommand
    <2>6. CASE RejectSuggestion(w) \/ RejectCommand(w)
      BY <1>2, <2>1, <2>6 DEF RejectSuggestion, RejectCommand
    <2>. QED
      BY <1>4, <2>2, <2>3, <2>4, <2>5, <2>6 DEF Demand
  <1>5. ASSUME NEW w \in Worker, Write(w)
        PROVE  NewAreOpen
    <2>1. \A q, score, type : Recorded(q, score, type) => NewAreOpen
      BY <1>1 DEF Recorded
    <2>2. \A q : WriteLink(q) => NewAreOpen
      BY <1>2, <2>1 DEF WriteLink, ledger
    <2>3. \A q : WriteUpdate(q) => NewAreOpen
      BY <1>2, <2>1 DEF WriteUpdate, ledger
    <2>4. \A q : WriteUnlink(q) => NewAreOpen
      BY <2>1 DEF WriteUnlink
    <2>5. \A q : WriteVerdict(q) => NewAreOpen
      BY <1>1 DEF WriteVerdict
    <2>6. \A q : WriteRejection(q) => NewAreOpen
      BY <1>2 DEF WriteRejection
    <2>. QED
      BY <1>5, <2>2, <2>3, <2>4, <2>5, <2>6 DEF Write
  <1>. QED
    BY <1>2, <1>3, <1>4, <1>5 DEF ClaimsNext, claimsVars, ledger

\* The accuracy that a source is shown with is that of its votes on settled
\* claims: no scan, request or new claim changes it but a verdict, or a link
\* of a claim that has one.
THEOREM TrackRecordFollowsVerdicts == ClaimsSpec => TrackRecordIsEarned
  <1>. DEFINE A == \A s \in Sources : Report(s).overall' # Report(s).overall =>
                     \E c \in DOMAIN claims : \/ claims[c].status' # claims[c].status
                                             \/ (claims[c].status # "open" /\ links[c]' # links[c])
  <1>1. ClaimsIInv /\ [ClaimsNext]_claimsVars => A
    <2>. SUFFICES ASSUME ClaimsIInv, [ClaimsNext]_claimsVars, NEW s \in Sources,
                         \A c \in DOMAIN claims : /\ claims'[c].status = claims[c].status
                                                  /\ claims[c].status # "open" => links'[c] = links[c]
                  PROVE  Report(s).overall' = Report(s).overall
      OBVIOUS
    <2>1. NewAreOpen
      BY ClaimsGrow
    <2>2. \A c \in DOMAIN claims' : claims'[c].status \in Settled =>
            c \in DOMAIN claims /\ claims'[c].status = claims[c].status /\ links'[c] = links[c]
      BY <2>1 DEF NewAreOpen, Settled
    <2>3. \A c \in DOMAIN claims : claims[c].status \in Settled =>
            c \in DOMAIN claims' /\ claims'[c].status = claims[c].status /\ links'[c] = links[c]
      BY <2>1 DEF NewAreOpen, Settled
    <2>4. Votes(s)' = Votes(s)
      BY <2>2, <2>3 DEF Votes
    <2>5. \A p \in Votes(s) : Correct(p)' <=> Correct(p)
      BY <2>3 DEF Votes, Correct
    <2>6. {p \in Votes(s) : Correct(p)}' = {p \in Votes(s) : Correct(p)}
      BY <2>4, <2>5
    <2>7. Bucket(Votes(s))' = Bucket(Votes(s))
      BY <2>4, <2>6 DEF Bucket
    <2>. QED
      BY <2>7 DEF Report
  <1>. QED
    BY <1>1, ClaimsSpecIInv, PTL DEF ClaimsSpec, TrackRecordIsEarned
=============================================================================
