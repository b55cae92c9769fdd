------------------------------ MODULE Collection ----------------------------
(***************************************************************************)
(* How entries of feeds become signal items or evidence: the cycle of the  *)
(* pipeline (pipeline/service.py), the collection service and its          *)
(* providers (signals/collection.py, signals/providers), the plugins       *)
(* (ingestion), the analysis of items and the import of a legacy database. *)
(*                                                                         *)
(* A feed lists its entries newest first and serves the last PerPage of    *)
(* them; entry <<f, k>> is the k-th of feed f and stands for its id and    *)
(* its content.  Jobs (the cycle, the commands and the requests that       *)
(* collect) interleave.  A job reads rows without a lock and holds the     *)
(* write lock from its first write to its commit, the fetch of a source    *)
(* included: so one source is one step, made with the row read before, of  *)
(* which it writes only the attributes it changed.                         *)
(*                                                                         *)
(* Time is an age: ticks since the last success, up to Interval, and ticks *)
(* since the loop started, up to Delay.                                    *)
(***************************************************************************)
EXTENDS Integers, FiniteSets

CONSTANTS
  Feed, Source, Job,
  Provider,   \* of each source: "manual" (the plugins), "rss" or "x"
  Start,      \* the row of each source at first; Nil, not registered
  Loop,       \* the jobs that are cycles, again and again
  PerPage,    \* max_items, or what max_scrolls reach
  FirstEntries, MaxEntry, \* of each feed: how many entries it has at first, and in the end
  Bad,        \* entries that normalize raises on
  Pictured,   \* entries with media
  Interval,   \* ticks between polls of a source
  Delay,      \* stagger of the first poll of each source
  Legacy,     \* the old database: sources, posts, runs, handles
  Categories, \* what an import may be asked for
  Edits,      \* what a source may be edited to: feed, enabled, polling
  Nil, None,  \* no value; -1, never
  MaxOperator, MaxFaults

Entry == UNION {{f} \X (1..MaxEntry[f]) : f \in Feed}
Row == [feed : Feed, cursor : Entry \cup {Nil}, enabled : BOOLEAN, polling : BOOLEAN,
        age : Int, error : BOOLEAN]

ASSUME CollectionNumbers ==
  /\ {PerPage, MaxOperator, MaxFaults} \subseteq Nat /\ PerPage > 0
  /\ MaxEntry \in [Feed -> Nat] /\ FirstEntries \in [Feed -> Nat]
  /\ \A f \in Feed : FirstEntries[f] <= MaxEntry[f]
  /\ Interval \in [Source -> Nat] /\ Delay \in [Source -> Nat] /\ None = -1
ASSUME CollectionRows ==
  /\ Provider \in [Source -> {"manual", "rss", "x"}]
  /\ Start \in [Source -> Row \cup {Nil}]
  /\ \A s \in Source : Start[s] # Nil => Start[s].cursor = Nil  \* nothing is collected yet
  /\ Edits \subseteq [feed : Feed, enabled : BOOLEAN, polling : BOOLEAN]
  /\ Bad \subseteq Entry /\ Pictured \subseteq Entry /\ Loop \subseteq Job /\ Nil \notin Entry \cup Row
\* The old program stopped somewhere in the feed of the source.
ASSUME LegacySources ==
  \A old \in DOMAIN Legacy.sources :
    LET row == Legacy.sources[old]
    IN row.feed \in Feed /\ row.slot \in Source /\ row.cursor \in {Nil} \cup {e \in Entry : e[1] = row.feed}

VARIABLES
  published, \* how many entries each feed has published
  source,    \* the rows of sources
  items,     \* the signal items, by entry
  media,     \* entries whose media are stored
  evidence,  \* entries the plugins stored as evidence
  told,      \* those of them that the editorial discovery processed
  imported,  \* how often each run of the old database is stored; handles
  settings,  \* collection_enabled, x_provider_enabled
  job,       \* what each job is doing
  editing,   \* the request that edits a source: the row it read
  up,        \* ticks since the loop started
  faults, operated

stored == <<items, media, evidence, told, imported>>
limits == <<faults, operated>>
vars == <<published, source, stored, settings, job, editing, up, limits>>

NoItem == [source |-> Nil, state |-> "none", mentions |-> 0]
Idle == [stage |-> "idle", todo |-> {}, rows |-> Nil, list |-> {}, page |-> {}, brought |-> {}, failed |-> {}]

Init ==
  /\ published = FirstEntries
  /\ source = Start
  /\ items = [e \in Entry |-> NoItem] /\ media = {} /\ evidence = {} /\ told = {}
  /\ imported = [runs |-> [r \in DOMAIN Legacy.runs |-> 0], handles |-> {}]
  /\ settings = [collection |-> TRUE, x |-> FALSE]
  /\ job = [j \in Job |-> Idle] /\ editing = Nil /\ up = 0
  /\ faults = 0 /\ operated = 0

Operator == operated < MaxOperator /\ operated' = operated + 1 /\ UNCHANGED faults
Fault == faults < MaxFaults /\ faults' = faults + 1 /\ UNCHANGED operated
Registered == {s \in Source : source[s] # Nil}
SetMax(S) == CHOOSE k \in S : \A m \in S : m <= k

-----------------------------------------------------------------------------
(* Feeds and time *)

Publish(f) ==
  /\ published[f] < MaxEntry[f]
  /\ published' = [published EXCEPT ![f] = @ + 1]
  /\ UNCHANGED <<source, stored, settings, job, editing, up, limits>>

Older(s) == IF source[s].age = None \/ source[s].age >= Interval[s] THEN source[s].age ELSE source[s].age + 1
LongDelay == SetMax({0} \cup {Delay[s] : s \in Source})

Tick ==
  /\ source' = [s \in Source |-> IF source[s] = Nil THEN Nil ELSE [source[s] EXCEPT !.age = Older(s)]]
  /\ up' = IF up < LongDelay THEN up + 1 ELSE up
  /\ <<source', up'>> # <<source, up>>
  /\ UNCHANGED <<published, stored, settings, job, editing, limits>>

Page(f) == {<<f, k>> : k \in {n \in 1..published[f] : n > published[f] - PerPage}}
NewestOf(E) == IF E = {} THEN Nil ELSE CHOOSE e \in E : \A d \in E : d[2] <= e[2]

-----------------------------------------------------------------------------
(* Providers *)

\* RSSProvider.collect and ReplayProvider.collect: from the newest down to the
\* entry of the cursor; all of the page when it is not there.
Above(f, cursor) ==
  IF cursor \in Page(f) THEN {e \in Page(f) : e[2] > cursor[2]} ELSE Page(f)

\* Its next cursor is the top of the feed.
FromRss(row) ==
  [entries |-> Above(row.feed, row.cursor),
   next |-> IF published[row.feed] > 0 THEN <<row.feed, published[row.feed]>> ELSE row.cursor]

\* collect_profile takes what is below the cursor in the same payload as well,
\* the fallback all that is not the cursor; the next is the greatest of it.
FromX(row) ==
  {[entries |-> E, next |-> IF E = {} THEN row.cursor ELSE NewestOf(E)] :
     E \in {Above(row.feed, row.cursor), Page(row.feed) \ {row.cursor}}}

Fetched(s, row) == IF Provider[s] = "x" THEN FromX(row) ELSE {FromRss(row)}

\* normalize raises, or makes a signal of the entry.
Normalised(E) == E \ Bad

\* _provider_for: x needs its own permission, and no provider is "manual".
Available(s) == Provider[s] = "rss" \/ (Provider[s] = "x" /\ settings.x)

-----------------------------------------------------------------------------
(* The collection service *)

\* What a session writes of an attribute it loaded: only what it changed.
Flushed(stored_value, loaded, new) == IF new = loaded THEN stored_value ELSE new

\* Mutant of Due: a source without a success has no date to compare.
DueSinceSuccess(s, looping) == source[s].age # None /\ source[s].age >= Interval[s]

\* _is_due: the interval of the source, or, before its first success, the
\* stagger of a loop.
Due(s, looping) ==
  LET row == source[s] IN
  IF row.age = None THEN looping => up >= Delay[s] ELSE row.age >= Interval[s]

\* collect_due_sources reads the rows first.
DueRows(looping) ==
  {s \in Registered : source[s].enabled /\ source[s].polling /\ Due(s, looping)}

\* Mutant of PolledRow: a run that fails has moved the cursor already.
PolledRowEarly(row, loaded, ok, next) ==
  [row EXCEPT !.cursor = Flushed(@, loaded.cursor, next), !.age = IF ok THEN 0 ELSE @, !.error = ~ok]

\* collect_source, the end of a run: cursor and success of a good one, the
\* error of one that failed (_fail).
PolledRow(row, loaded, ok, next) ==
  IF ok THEN [row EXCEPT !.cursor = Flushed(@, loaded.cursor, next), !.age = 0,
                         !.error = Flushed(@, loaded.error, FALSE)]
  ELSE [row EXCEPT !.error = TRUE]

Keepable(E) == {e \in Normalised(E) : items[e].state = "none"}

Collected(work, s, new) == [work EXCEPT !.todo = @ \ {s}, !.brought = @ \cup new]
NotCollected(work, s) == [work EXCEPT !.todo = @ \ {s}, !.failed = @ \cup {"source"}]

\* collect_source of source s by job j, with the row it loaded.
CollectSource(j, s, row) ==
  \/ /\ Available(s)
     /\ \E got \in Fetched(s, row) :
          LET new == Keepable(got.entries) IN
          /\ items' = [e \in Entry |-> IF e \in new THEN [source |-> s, state |-> "pending", mentions |-> 0] ELSE items[e]]
          /\ media' = media \cup (new \cap Pictured)
          /\ source' = [source EXCEPT ![s] = PolledRow(@, row, TRUE, got.next)]
          /\ job' = [job EXCEPT ![j] = Collected(job[j], s, new)]
     /\ UNCHANGED limits
  \/ /\ IF Available(s) THEN Fault ELSE UNCHANGED limits
     /\ \E got \in Fetched(s, row) : source' = [source EXCEPT ![s] = PolledRow(@, row, FALSE, got.next)]
     /\ job' = [job EXCEPT ![j] = NotCollected(job[j], s)]
     /\ UNCHANGED <<items, media>>

Collect(j) ==
  /\ job[j].stage = "collect"
  /\ \E s \in job[j].todo : CollectSource(j, s, job[j].rows[s])
  /\ UNCHANGED <<published, evidence, told, imported, settings, editing, up>>

-----------------------------------------------------------------------------
(* The cycle: PipelineService.run_once *)

\* The stages this module follows, in the order of run_once; what scoring,
\* promotion, discovery and notification do in between is modelled elsewhere.
Following(stage) ==
  CASE stage = "ingest" -> "collect" [] stage = "collect" -> "analyse" [] stage = "analyse" -> "cluster"
    [] stage = "cluster" -> "backfill" [] OTHER -> "done"

\* _rss_sources_to_poll: the sources of the plugins, and no other.
PluginSources == {s \in Registered : Provider[s] = "manual"}

\* A stage starts: its list is read.
Entering(stage, work, looping) ==
  [work EXCEPT !.stage = stage,
     !.todo = CASE stage = "ingest" -> PluginSources
                [] stage = "collect" -> IF settings.collection THEN DueRows(looping) ELSE {}
                [] OTHER -> {},
     !.rows = IF stage = "collect" THEN source ELSE Nil,
     !.list = IF stage = "analyse" THEN {e \in Entry : items[e].state = "pending"} ELSE {},
     !.page = {}]

Begin(j) ==
  /\ job[j].stage = "idle" /\ j \in Loop
  /\ job' = [job EXCEPT ![j] = Entering("ingest", Idle, TRUE)]
  /\ UNCHANGED <<published, source, stored, settings, editing, up, limits>>

\* A stage is over: radar_cluster clusters what it analysed.
Onward(j) ==
  IF j \in Loop THEN Entering(Following(job[j].stage), job[j], TRUE)
  ELSE IF job[j].stage = "analyse" THEN Entering("cluster", job[j], FALSE) ELSE Idle

NextStage(j) ==
  /\ job[j].stage \in {"ingest", "collect"} /\ job[j].todo = {}
  /\ job' = [job EXCEPT ![j] = Onward(j)]
  /\ UNCHANGED <<published, source, stored, settings, editing, up, limits>>

\* A stage raises, or waits for the write lock too long: rollback, the next.
StageFails(j) ==
  /\ job[j].stage \notin {"idle", "done"} /\ Fault
  /\ job' = [job EXCEPT ![j] =
               IF j \in Loop THEN [Onward(j) EXCEPT !.failed = @ \cup {job[j].stage}] ELSE Idle]
  /\ UNCHANGED <<published, source, stored, settings, editing, up>>

Finish(j) ==
  /\ job[j].stage = "done"
  /\ job' = [job EXCEPT ![j] = Idle]
  /\ UNCHANGED <<published, source, stored, settings, editing, up, limits>>

\* The process ends between two commits.
Crash(j) ==
  /\ job[j].stage # "idle" /\ Fault
  /\ job' = [job EXCEPT ![j] = Idle]
  /\ UNCHANGED <<published, source, stored, settings, editing, up>>

\* IngestionService.run up to the first write: fetch, and look up the first
\* content that is not stored.
Opened(work, s, page) ==
  IF page = {} THEN [work EXCEPT !.todo = @ \ {s}] ELSE [work EXCEPT !.page = page, !.rows = s]

IngestRead(j) ==
  /\ job[j].stage = "ingest" /\ job[j].page = {}
  /\ \E s \in job[j].todo :
       job' = [job EXCEPT ![j] = Opened(job[j], s, Page(source[s].feed) \ evidence)]
  /\ UNCHANGED <<published, source, stored, settings, editing, up, limits>>

\* Then the rest, under the lock.  Of content that came in between the insert
\* is refused, and with it the session: the source fails.  An entry whose
\* editorial discovery raises stays evidence.
Ingested(work, new) ==
  [work EXCEPT !.todo = @ \ {work.rows}, !.page = {}, !.rows = Nil, !.brought = @ \cup new]

IngestWrite(j) ==
  /\ job[j].stage = "ingest" /\ job[j].page # {}
  /\ \E untold \in SUBSET job[j].page :
       LET first == CHOOSE e \in job[j].page : \A d \in job[j].page : e[2] <= d[2]
           ok == first \notin evidence
           new == IF ok THEN job[j].page \ evidence ELSE {}
       IN /\ untold \subseteq new /\ Cardinality(untold) <= 1
          /\ IF untold # {} THEN Fault ELSE UNCHANGED limits
          /\ evidence' = evidence \cup new /\ told' = told \cup (new \ untold)
          /\ job' = [job EXCEPT ![j] = Ingested(job[j], new)]
  /\ UNCHANGED <<published, source, items, media, imported, settings, editing, up>>

\* analyze_signal_item for the entries of a list: their mentions are added,
\* their labels must be new.
AnalysedItem(item, mentions) ==
  [item EXCEPT !.state = IF @ = "pending" THEN "processed" ELSE @, !.mentions = mentions]
Analysed(E) ==
  [e \in Entry |-> IF e \in E THEN AnalysedItem(items[e], items[e].mentions + 1) ELSE items[e]]

\* Mutant of Refused: no constraint on the labels of an item.
RefusedNever(E) == FALSE

\* uq_signal_labels_item_label: every analysis finds a label of the item, at
\* least Off Topic, and finds it again.
Refused(E) == \E e \in E : items[e].mentions > 0

\* analyze_unprocessed: the items listed before.  When one was analysed
\* meanwhile, the list is rolled back.
Analyse(j) ==
  /\ job[j].stage = "analyse"
  /\ LET refused == Refused(job[j].list) IN
       /\ items' = IF refused THEN items ELSE Analysed(job[j].list)
       /\ job' = [job EXCEPT ![j] = IF refused THEN [Onward(j) EXCEPT !.failed = @ \cup {"analyse"}] ELSE Onward(j)]
  /\ UNCHANGED <<published, source, media, evidence, told, imported, settings, editing, up, limits>>

\* cluster_unclustered_items considers what is analysed (module Radar).
Cluster(j) ==
  /\ job[j].stage = "cluster"
  /\ items' = [e \in Entry |-> IF items[e].state = "processed" THEN [items[e] EXCEPT !.state = "considered"] ELSE items[e]]
  /\ job' = [job EXCEPT ![j] = Onward(j)]
  /\ UNCHANGED <<published, source, media, evidence, told, imported, settings, editing, up, limits>>

\* EditorialDiscoveryService.backfill: evidence of no story.
Backfill(j) ==
  /\ job[j].stage = "backfill"
  /\ told' = evidence
  /\ job' = [job EXCEPT ![j] = Onward(j)]
  /\ UNCHANGED <<published, source, items, media, evidence, imported, settings, editing, up, limits>>

-----------------------------------------------------------------------------
(* Requests and commands *)

\* radar_collect and radar_source_collect: due sources whatever the settings,
\* or one, due or not.
CollectCommand(j, todo) ==
  /\ Operator /\ j \notin Loop /\ job[j].stage = "idle" /\ todo # {}
  /\ job' = [job EXCEPT ![j] = [Idle EXCEPT !.stage = "collect", !.todo = todo, !.rows = source]]
  /\ UNCHANGED <<published, source, stored, settings, editing, up>>

CollectDue(j) == CollectCommand(j, DueRows(FALSE))
CollectOne(j) == \E s \in Registered : CollectCommand(j, {s})

\* POST /api/radar/sources/{id}/collect asks for an enabled source.
CollectRequest(j) == \E s \in Registered : source[s].enabled /\ CollectCommand(j, {s})

\* ingest_rss, ingest_pci_ids
IngestCommand(j) ==
  /\ Operator /\ j \notin Loop /\ job[j].stage = "idle"
  /\ \E s \in PluginSources : job' = [job EXCEPT ![j] = [Idle EXCEPT !.stage = "ingest", !.todo = {s}]]
  /\ UNCHANGED <<published, source, stored, settings, editing, up>>

\* radar_cluster, and radar_reprocess of pending items, list them and analyse.
AnalyseCommand(j) ==
  /\ Operator /\ j \notin Loop /\ job[j].stage = "idle"
  /\ job' = [job EXCEPT ![j] = Entering("analyse", Idle, FALSE)]
  /\ UNCHANGED <<published, source, stored, settings, editing, up>>

\* reprocess_stale_items: what was found before is deleted first.
Reprocess ==
  /\ Operator
  /\ items' = [e \in Entry |-> IF items[e].state = "none" THEN items[e] ELSE AnalysedItem(items[e], 1)]
  /\ UNCHANGED <<published, source, media, evidence, told, imported, settings, job, editing, up>>

\* radar_settings_update
SettingsUpdate ==
  /\ Operator
  /\ settings' \in [collection : BOOLEAN, x : BOOLEAN] \ {settings}
  /\ UNCHANGED <<published, source, stored, job, editing, up>>

\* find_source_by_feed_url: a feed has one source.
Taken(feed, s) == \E t \in Registered \ {s} : source[t].feed = feed

\* radar_source_update loads the row, and writes what it changed of it.
UpdateRead ==
  /\ Operator /\ editing = Nil
  /\ \E s \in {t \in Registered : Provider[t] # "manual"}, edit \in Edits :
       /\ ~Taken(edit.feed, s)
       /\ editing' = [source |-> s, row |-> source[s], edit |-> edit]
  /\ UNCHANGED <<published, source, stored, settings, job, up>>

\* SourceManagementService.update: another identity starts over.
Edited(row, loaded, edit) ==
  LET moved == edit.feed # loaded.feed IN
  [row EXCEPT !.feed = Flushed(@, loaded.feed, edit.feed),
              !.enabled = Flushed(@, loaded.enabled, edit.enabled),
              !.polling = Flushed(@, loaded.polling, edit.polling /\ edit.enabled),
              !.cursor = IF moved THEN Flushed(@, loaded.cursor, Nil) ELSE @,
              !.age = IF moved THEN Flushed(@, loaded.age, None) ELSE @,
              !.error = IF moved THEN Flushed(@, loaded.error, FALSE) ELSE @]

UpdateWrite ==
  /\ editing # Nil
  /\ source' = [source EXCEPT ![editing.source] = Edited(@, editing.row, editing.edit)]
  /\ editing' = Nil
  /\ UNCHANGED <<published, stored, settings, job, up, limits>>

-----------------------------------------------------------------------------
(* The import of a legacy database *)

\* _selected: media need posts, posts need sources.
Selected(asked) ==
  asked \cup (IF "media" \in asked THEN {"posts"} ELSE {})
        \cup (IF {"media", "posts"} \cap asked # {} THEN {"sources"} ELSE {})

\* _source_for_row
Matching(old) == {s \in Registered : source[s].feed = Legacy.sources[old].feed}

\* _plan_sources: a row that has no source yet gets one, not polled, with the
\* cursor where the old program stopped.
Created(old) == Matching(old) = {}
ImportedSource(old) ==
  LET row == Legacy.sources[old] IN
  [feed |-> row.feed, cursor |-> row.cursor, enabled |-> TRUE, polling |-> FALSE, age |-> None, error |-> FALSE]
SourceFor(old) == IF Created(old) THEN Legacy.sources[old].slot ELSE CHOOSE s \in Matching(old) : TRUE

\* _plan_posts: those that are not stored, of sources that are known.
ImportedPosts == {e \in DOMAIN Legacy.posts : Legacy.posts[e] \in DOMAIN Legacy.sources /\ items[e].state = "none"}

\* _plan_media: of the posts that are mapped, stored before or not.
ImportedMedia == {e \in DOMAIN Legacy.posts : Legacy.posts[e] \in DOMAIN Legacy.sources} \cap Pictured

\* _plan_runs: a run is looked up by its source, if that has a row.
ImportedRuns(withSources) ==
  [r \in DOMAIN Legacy.runs |->
     LET old == Legacy.runs[r]
         known == old \in DOMAIN Legacy.sources /\ (withSources \/ ~Created(old))
     IN IF known /\ imported.runs[r] > 0 THEN imported.runs[r] ELSE imported.runs[r] + 1]

\* LegacyRadarImporter.apply, one transaction.
Import(asked) ==
  LET chosen == Selected(asked)
      created == {old \in DOMAIN Legacy.sources : Created(old) /\ "sources" \in chosen}
      posts == IF "posts" \in chosen THEN ImportedPosts ELSE {}
  IN /\ \A old \in created : source[Legacy.sources[old].slot] = Nil
     /\ \A e \in DOMAIN Legacy.posts : e[2] <= published[e[1]]
     /\ source' = [s \in Source |->
          IF \E old \in created : Legacy.sources[old].slot = s
          THEN ImportedSource(CHOOSE old \in created : Legacy.sources[old].slot = s) ELSE source[s]]
     /\ items' = [e \in Entry |-> IF e \in posts
                    THEN [source |-> SourceFor(Legacy.posts[e]), state |-> "pending", mentions |-> 0] ELSE items[e]]
     /\ media' = IF "media" \in chosen THEN media \cup ImportedMedia ELSE media
     /\ imported' = [runs |-> IF "provider_runs" \in chosen THEN ImportedRuns("sources" \in chosen) ELSE imported.runs,
                     handles |-> IF "source_suggestions" \in chosen THEN Legacy.handles ELSE imported.handles]
     /\ UNCHANGED <<published, evidence, told, settings, job, editing, up>>

\* radar_import --apply and POST /api/radar/import/apply
ImportCommand == Operator /\ \E asked \in Categories : Import(asked)
ImportRequest == ImportCommand

-----------------------------------------------------------------------------
Work(j) ==
  \/ Begin(j) \/ NextStage(j) \/ Finish(j)
  \/ IngestRead(j) \/ IngestWrite(j) \/ Collect(j)
  \/ Analyse(j) \/ Cluster(j) \/ Backfill(j)

Request ==
  \/ SettingsUpdate \/ UpdateRead \/ Reprocess \/ ImportCommand \/ ImportRequest
  \/ \E j \in Job : CollectDue(j) \/ CollectOne(j) \/ CollectRequest(j) \/ IngestCommand(j) \/ AnalyseCommand(j)

Next ==
  \/ Tick \/ Request \/ UpdateWrite
  \/ \E f \in Feed : Publish(f)
  \/ \E j \in Job : Work(j) \/ StageFails(j) \/ Crash(j)

Spec == Init /\ [][Next]_vars
FairSpec == Spec /\ WF_vars(Tick) /\ \A j \in Job : WF_vars(Work(j))

-----------------------------------------------------------------------------
(* Properties *)

\* The types: every item names the source that brought it, and only items that
\* were analysed have mentions.
TypeOK ==
  /\ published \in [Feed -> Nat] /\ \A f \in Feed : published[f] <= MaxEntry[f]
  /\ source \in [Source -> Row \cup {Nil}]
  /\ \A e \in Entry :
       /\ items[e].state \in {"none", "pending", "processed", "considered"}
       /\ items[e].source \in Source \cup {Nil} /\ items[e].mentions \in Nat
  /\ media \subseteq Entry /\ evidence \subseteq Entry /\ told \subseteq evidence
  /\ settings \in [collection : BOOLEAN, x : BOOLEAN]
  /\ \A j \in Job :
       /\ job[j].stage \in {"idle", "ingest", "collect", "analyse", "cluster", "backfill", "done"}
       /\ job[j].todo \subseteq Source /\ job[j].list \cup job[j].page \subseteq Entry
  /\ up \in 0..LongDelay /\ faults \in 0..MaxFaults /\ operated \in 0..MaxOperator

\* "Advances Source.cursor only after a successful commit": whatever a feed
\* still serves below the cursor of its source is stored, unless it cannot be
\* normalised or the program the source was imported from had it.
NothingSkipped ==
  \A s \in Registered :
    LET row == source[s] IN
    row.cursor \in Page(row.feed) =>
      \A e \in Page(row.feed) :
        e[2] <= row.cursor[2] => e \in Bad \/ items[e].state # "none"
                                 \/ \E old \in DOMAIN Legacy.sources : /\ Legacy.sources[old].feed = row.feed
                                                                       /\ Legacy.sources[old].cursor # Nil
                                                                       /\ e[2] <= Legacy.sources[old].cursor[2]

\* A cycle takes what it brought in to the end, unless a stage it needs
\* failed: items are considered, evidence has been through the inbox.
CycleDelivers ==
  \A j \in Loop : job[j].stage = "done" =>
    \A e \in job[j].brought :
      /\ e \in evidence => e \in told \/ "backfill" \in job[j].failed
      /\ items[e].state \in {"pending", "processed"} => {"analyse", "cluster"} \cap job[j].failed # {}

\* An entry on the page of a polled source that no analysis has considered.
Awaited(e) ==
  /\ e \notin Bad \cup evidence /\ items[e].state # "considered" /\ e \in Page(e[1])
  /\ \E s \in Registered : /\ source[s].feed = e[1] /\ source[s].enabled /\ source[s].polling
                            /\ settings.collection /\ Available(s)

\* No entry is awaited for ever: it is considered in the end, or it falls off
\* the page first, or its source is no longer polled.
EveryEntryConsidered == \A e \in Entry : Awaited(e) ~> ~Awaited(e)

\* "Transactional, idempotent import" (legacy_import.py:1): what an import
\* stores it stores once.  Does not hold: the runs of a source that is not
\* imported are added by every import.
ImportIsIdempotent == \A r \in DOMAIN Legacy.runs : imported.runs[r] <= 1

\* "Nothing is duplicated": however many jobs and requests analyse an item they
\* all listed as pending, it has the mentions of one analysis.
AnalysedOnce == \A e \in Entry : items[e].mentions <= 1
=============================================================================
