# Formal models of OEM Radar and Semi Intel

TLA+ modules, TLC configurations and TLAPS proofs about the program in this
repository. Paths are relative to the repository root. The program is two
halves in one repository, each with its own SQLite database:

* **OEM Radar** (`src/oem_radar`): a crawler that is started by a timer, reads
  vendor catalogues, stores immutable snapshots, diffs them into change events
  and posts the loud ones to Discord through an outbox table.
* **Semi Intel** (`semi_intel`): an editorial desk (web application and command
  lines) with an operational scheduler that runs the pipeline, digests, backups
  and deliveries of signals collected from feeds.

## 1. Inventory

### OEM Radar

| Part | State | Operations | Hard behaviour | What makes it correct |
|---|---|---|---|---|
| run lock, `core/run_lock.py` | the lock file, its payload | acquire, reclaim of a dead pid, release | create, write, probe and unlink are separate system calls; processes die between them | two runs never overlap; a live lock is not removed; a dead one is reclaimed |
| crawl, `core/runner.py`, `core/pipeline.py`, `core/diff.py` | `crawler_runs`, `snapshots`, `change_events`, `components` | run_all, run_source, append, record_event, learn | every write commits alone; runs are killed, drains raise, catalogues collapse | a change is lost only to a fault or to a taken key, and a launch never to a key; the first crawl is quiet, twins launch once, a collapsed catalogue never counts |
| outbox, `providers/discord`, `notifications` table | status and attempts of each key, `stories` | enqueue, demote, suppress, drain | a post whose reply is lost, HTTP 429, operator and drain at once | no loss, no duplicate without a lost acknowledgement, no row starves |
| story detection, `core/story.py` | none (reads evidence) | detect | the story is saved and announced in separate commits | a demoted alert is announced by its story |
| feedback, `core/feedback*.py`, the review request of the dashboard | `alert_reviews` and its history, `rule_suggestions` | upsert review, analyse, decide, simulate | reviews and suggestions are read in one step and written in another | the history explains the review, decisions outlive analyses, a simulation judges what the pattern was found in |
| fetcher, `core/fetch.py` | two files per cached URL | get with retries and politeness | body and metadata are written apart | a cached body belongs to its validators |
| engines, hardware names, HTML, configuration | none | parsing, canonicalisation, pages | string processing | outside of the models |

### Semi Intel

| Part | State | Operations | Hard behaviour | What makes it correct |
|---|---|---|---|---|
| scheduler, `operations/scheduler.py` | leases, job runs | cycle, run-now, retry, reconcile | leases expire under running jobs, workers die, time is read once per cycle | a job runs once at a time, a due job runs, a lease has a run |
| qualification, `operations/qualification.py` | epochs, events | prepare, record_terminal, gate | upgrades under running workers, evidence dated back | the gate opens only on scheduled success of the installed material |
| collection and ingestion, `signals/collection.py`, `signals/providers`, `ingestion`, `pipeline/service.py` | sources with cursors, items, evidence, run rows | collect, ingest, analyse, run_once | rows read before a fetch and written after it, one stage fails and the others go on, edits meanwhile | nothing falls behind a cursor, no item is analysed twice, every entry is considered |
| source life cycle, `signals/source_lifecycle.py`, `source_discovery.py`, `source_management.py` | admission, baseline, suggestions | register, admit, suggest, decide, edit | items seen before the baseline, re-admission, scans after a decision | no flood of old items, decisions stay |
| candidates, `signals/clustering.py`, `independence.py`, `scoring.py`, `aging.py`, `candidate_*.py`, `promotion.py` | candidates, groups, audit rows | cluster, score, age, review, promote | clustering and promotion loops work on rows loaded earlier, beside the operator | copies count once, the hourly budget holds for each promotion loop under way, a dismissal stays |
| editorial desk, `editorial/service.py` | topics, stories, matches | edit topics, backfill, match | evidence from promotion, merge and backfill in any order; ids that return | evidence is told and counted once, and reaches the inbox |
| discovery enrichment, `discovery/service.py` | runs and results per story, decisions about sites | search, decide, recover | budget and decisions are read before the write lock | the budget, and no decision undone |
| notifications, `notifications/service.py`, `digest.py` | event states, notifications, digests, incidents | generate, digest, activate, settings, retention | two authorities keep watermarks in the same rows; thresholds and sources change between generations | each transition announced once, silent baselines stay silent |
| deliveries, `notifications/delivery.py`, `operations/webhook.py`, `windows_desktop.py` | attempts, delivery states | deliver_pending | no lock between runs, one commit at the end, lost answers, quiet hours and caps | a duplicate has an excuse, the shown state is true, everything settles |
| claims, contradictions, entities, graph, `repository`, `claim_engine`, `contradiction_engine`, `entities`, `graph` | links, confidence, timeline, suggestions, entities and relations | link, unlink, resolve, accept, edit, traverse | requests that read, compute and write in sessions of their own | the confidence is that of the links, a suggestion makes one link |
| backup, `operations/backup.py` | files, and their records inside the copied database | create, verify, prune, restore, rehearse | a restore replaces the table that describes it, under open connections | the live database is sound, directory and table agree, nothing replaced is lost |
| reports, web, command lines, migrations, packaging | none of their own | handlers that call the services | – | – |

### Interactions

`cmd_run` takes the run lock, `run_all` crawls each source, `run_source` appends
a snapshot and passes its events to the notifier, which puts them into the
outbox; after each source and at the end the outbox is drained, and between the
two the story step demotes alerts. The operator's `outbox --suppress-pending`
is another process on the same table, and so is the dashboard, which reviews
what the crawl recorded.

On the other side a task scheduler starts `automation cycle`, which takes one
lease per job type, binds the run to a qualification epoch, executes a service
and releases the lease; the web application and the command line run the same
jobs at any time, and reconcile stale rows. The pipeline job is the cycle of
`pipeline/service.py`: plugins and sources bring entries in, analysis and
clustering turn items into candidates, automatic promotion and the backfill turn
candidates and evidence into stories, discovery searches for more coverage,
alerts are generated from what changed, and what is generated is delivered.
All of them are sessions on one SQLite file: readers never wait, the first write
of a session takes the write lock and keeps it until the commit, and what a
session decided on before that write may have changed. That is where nearly all
of the hazards below come from.

Neither half imports the other; `legacy_import.py` copies old data, and
`runtime_bridge.py` reports version and health of Semi Intel to a host.

## 2. Modules

| Module | Models | State and actions |
|---|---|---|
| `RunLock` | `core/run_lock.py`, `cmd_run` | One variable for the file at the lock path (named by its creator), one for the payloads; `at` of each process. One action per system call. `evicted` is a history variable. |
| `AlertLedger` | abstract specification | What the outbox promises about one alert. |
| `Outbox` | `providers/discord`, the `notifications` and `stories` tables, the story step of `run_all`, `cmd_outbox` | `status` and `attempts` of each dedup key; the run's place, row in hand, reply and batch. One action per commit or webhook call. |
| `Crawl` | `run_all`, `run_source`, `diff`, the snapshot and event tables, for one source | Site, archive, events with their dedup keys, components, and the run over the products. One action per commit. |
| `Feedback` | `core/feedback*.py`, the reviews and suggestions of the store, the review request, `feedback analyze` and `simulate` | The review and the history of each alert, the table of suggestions, and what each process holds between its read and its write. |
| `Scheduler` | `operations/scheduler.py` with `operations/qualification.py` | Leases, RUNNING rows, epochs and evidence; one record per worker. One action per transaction; time is `Expire` and `BecomeDue`. |
| `Collection` | `pipeline/service.py`, `signals/collection.py`, `signals/providers`, `ingestion`, the listing of items in `signals/analysis.py`, `legacy_import.py`, the editing of sources | Feeds that publish, sources with their cursors, items, evidence, and a record per job with the rows it loaded. One action per source or stage. |
| `Editorial` | `editorial/service.py` | The operators by which evidence joins or makes a story; used by `Radar` and `Desk`. |
| `Radar` | `signals/analysis.py`, `clustering.py`, `independence.py`, `scoring.py`, `aging.py`, `candidate_state.py`, `candidate_qc.py`, `promotion.py`, `suggestions.py`, `source_discovery.py` | Items, candidates with members, groups and scores, suggestions, stories, and the rows that the clustering run, the promotion loops and a review hold. |
| `Desk` | `editorial/service.py`, `discovery/service.py` | Topics with the ids of their table, evidence, stories, results and decisions about sites; the committed state and the view of the job that has the write lock. |
| `Alerts` | `notifications/service.py`, `digest.py`, `signals/source_lifecycle.py`, `promotion.py` as far as it keeps a watermark | Items, candidates, event states, notifications with their dedup keys, incidents, digests and settings. Every request is one step. |
| `Delivery` | `notifications/delivery.py`, `operations/webhook.py`, `windows_desktop.py` | `db` is what is committed, `tx` the view of the run with the write lock; a record per run. One action per decision, message, record and commit. |
| `Claims` | `repository/repositories.py`, `claim_engine`, `contradiction_engine`, `entities`, `graph`, `source_intelligence`, `services/confidence.py` | Links, confidence and timeline of the claims, suggestions, entities and relations; a request about a claim loads in one step and writes in another. |
| `Backup` | `operations/backup.py`, the leases and connections around it | The live database, the files with their copies of it, and what each process is doing. |
| `MC...` | instances for TLC | constant values that a cfg cannot write |
| `OemRadar_proofs` (`RunLock`, `Crawl`, `Feedback`), `Notices_proofs` (`Outbox`, `Alerts`), `Evidence_proofs` (`Collection`, `Claims`), `Scheduler_proofs`, `Backup_proofs`, `Delivery_proofs`, `Radar_proofs`, `Desk_proofs` | theorems about the modules in brackets, or the one the module is named for | see section 5 |

`Outbox` refines `AlertLedger` (`Ledger == INSTANCE AlertLedger WITH ...`): a
row that a drain has already read counts as due even after the operator
suppressed it, which is what the code does. `Crawl` contains the filling side
of the outbox (which rows are put, and how), `Outbox` its later life; a joint
module would multiply two state spaces that meet in one insert. In the same way
`Collection` ends where items are considered and `Radar` begins with items that
are, `Alerts` makes notifications and `Delivery` carries them, and the stories
of `Radar` and `Desk` are made by the same operators of `Editorial`.

Definitions that begin with "Mutant of" in their comment are plausible mistakes
in the code, kept beside the definition they would replace: substituting one
makes the property named in `PROJECT.json` fail.

### What each model abstracts

* **RunLock.** A pid is a process; a reused pid is the same name starting
  again. `--no-lock`, dry runs and the contents of the payload other than the
  pid are left out. `Mortal` are the processes that may be killed.
* **Outbox.** One run at a time works on the table, as the run lock intends;
  the drain's order of rows is open (the code goes by id). What a story
  correlates is a constant; it may fire once any of its evidence has a row. A
  reply may be lost after delivery. Bounds: `MaxLimited` 429 replies,
  `MaxFaults` kills, raising drains and missing webhooks.
* **Crawl.** A content is a pair of the fields whose events carry values
  (`spec`) and those whose events carry none (`art`); hashing covers both. An
  event is a change of one listing from one content to another; its dedup key is
  what `DedupKey` leaves of it, and several events may share one. SKU, coarse
  model key and tier of a listing are fixed. `resolve_prior` looks at one listing
  of the coarse key, the one seen last; which that is, is left open, so
  `last_seen_at` has no variable. The site changes between runs only, at most
  `MaxChanges` times. Several sources in one run, `min_interval`, validation
  failures and the texts of events are left out.
* **Feedback.** Rates are compared as fractions (the code rounds the
  simulation's to four places first). Notes, names and times are left out. The
  detectors of removals and documents and the comparison of image URLs are left
  out, since no crawl records what they look at. One maintainer decides; the
  status function of the store has no caller in the program but its Python API.
  `overlapped` is a history variable.
* **Scheduler.** A row is kept as long as a lease or a worker refers to it;
  statuses after RUNNING, heartbeat stamps, summaries and the retry bookkeeping
  that nothing acts on are history. A cycle decides which jobs are due by the
  time of its start, and gives it to `acquire` and to the evidence of a skipped
  job; `expiredSince`, `finishedSince` and `era` stand for the comparisons
  with that time. Reconciliation is one step. The material of a worker is the
  one installed when it started: a web application is restarted with an upgrade.
  Settings are on and do not change. `LeaseManager.refresh` is never called by
  the program and has no action.
* **Collection.** An entry stands for its id and its content; which entries
  cannot be normalised (`Bad`) or are shown with pictures is fixed. Time is the
  age of a success and of a loop. A fetch and the writes of one source are one
  step, since the write lock is held through it; a failure of the fetch, of an
  entry, of a stage and the end of the process are choices. Bounds:
  `MaxOperator` requests, `MaxFaults` faults, `MaxEntry` entries of each feed.
* **Radar.** A candidate is named by the item that seeded it; texts, links,
  similarity and names mentioned are constants of the items. The weights of the
  attention score are one each. There is one clustering run at a time; the
  promotion loops of `Promoter` may overlap, since the commands take no lease.
  `automatic.most` is a history variable: how many loops were under way at once
  in each hour. `now` counts hours up to `MaxNow`; `MaxOperator` bounds the
  operator.
* **Desk.** What a topic names and what is alike are constants of the texts.
  A search's provider answers with any of the texts that match. Runs that are
  skipped leave no row in the model. `Hour = 0` makes one unit of time longer
  than the hour of the budget.
* **Alerts.** One topic per candidate; the recovery of a provider is a kind of
  the same type as its failure; the limits of the sections of a digest, its
  candidate section and the list of notifications are left out. Bounds:
  `MaxWorld` things that happen in the world, `MaxDay` days, `MaxOperator`
  requests that change settings.
* **Delivery.** Attempts of a target on a channel are their number, how many
  are DELIVERED, and the status and retry time of the latest. Time is what it
  does: `Elapse`, `Age`, `QuietBegins` and `QuietEnds`. `Installation` gives the
  runs that may overlap, the channels and the targets of each initial state.
  `MaxEvents` bounds operator acts and faults together.
* **Claims.** Only requests about a claim are split into a load and a write;
  scans and requests about entities decide nothing that others decide anew. Notes
  are left out. Relations are a list of rows, as the query returns them: several
  may join the same entities, and the traversal goes through them row by row,
  breadth first. A link made anew has the id of the old one. Trust is in
  hundredths, confidence in ten-thousandths, so that no rounding is lost.
* **Backup.** A write is a number, a database the set of writes it holds with
  its own table of backups and its leases. Preview and confirmation look twice;
  the second look is modelled. A database is `sound` (`PRAGMA integrity_check`)
  and `complete` (it has its core tables): `verify_file` asks for both, the look
  of a restore at its temporary copy for the first only. A file without bytes is
  sound and not complete. `verify` looks at the file in one step and writes the
  row in another. `Scheduled` are the jobs that the scheduler runs. A dashboard
  that starts upgrades the schema of what it finds. Checksums of the manifest are written and never
  compared by the program. The rehearsal changes nothing.

## 3. Runs

| Run | Instance | Shows |
|---|---|---|
| `run_lock` | 3 processes, one of them mortal; 9 816 states | what the lock does give: among holders nobody evicted at most one, and a stale lock is reclaimed |
| `outbox` | 2 alerts, 1 story on both, 1 retry, one 429, one fault; 405 685 states | duplicates need a lost acknowledgement, finished rows stay, pending rows settle, and the table implements `AlertLedger` |
| `crawl` | 4 listings: two with one SKU, two of one model, one variant; 3 contents, two of which differ by the image; 2 site changes, 1 fault; 168 455 states | a change without a row was cut off by a fault or found its key taken, which never happens to a launch; a quiet baseline, one launch per product that the lookup can identify, the archive catches up |
| `feedback` | 2 processes, 3 alerts, 2 reviews, 2 decisions; 288 556 states | the history of a review explains it unless requests overlapped, decisions stand, the simulation of a pattern covers its support |
| `scheduler` | 1 job type, a cycle and an operator, 2 materials, 1 upgrade, 1 fault; 129 154 states | one runner until a lease expires, the gate is earned, a due job runs |
| `collection` | 2 feeds of sources and one of a plugin, a cycle and a command, one edit, one fault, a legacy database; 268 576 states | nothing is skipped behind a cursor, items are analysed once, every entry is considered |
| `radar` | 3 items of 2 authors, one a repetition, 2 names mentioned, 1 topic, 2 promotion loops at once, 2 hours, promotion only in the first hour of a candidate, 1 operator act; 1 420 044 states | stories count evidence once, the budget holds for each of the loops at once, copies neither resurface nor refresh a candidate |
| `desk` | 2 captured articles and 1 that a search finds, 2 topics, an editor, the pipeline and a request, one fault; 93 918 states | the search budget is exceeded by no more than the other jobs, a blocked site stays out, evidence reaches the inbox |
| `alerts` | 1 candidate, an ordinary and an experimental source, 3 events, 2 days; about 1.1 million states | the baseline of an experimental source stays silent, two authorities keep separate watermarks, crossings and outages are announced once |
| `delivery` | two overlapping runs and one note; one run, two channels and one note; one run, a note and a digest; one run and two notes, of which one is selected, on either channel; one event; 138 363 states | a duplicate has a fault or an overlap as its excuse, the state shown is true, the cap holds, a notification settles unless as many older settled ones as are selected stand before it |
| `claims` | 2 requests, 2 pieces of evidence, 2 claims, 5 entities whose relations have parallel edges, a loop and a cycle, 3 edits; 24 636 states | the confidence is that of the links, an accepted suggestion makes its link once, related entities are those within the distance |
| `backup` | 2 processes, the backup job, 3 files of which 1 is kept, 1 write, 1 fault (a death, a damaged or an emptied file); 4 201 325 states | the database is never a damaged copy, nor one without tables unless a file was emptied between verification and copy, directory and table agree, a restore loses nothing it replaced |

Properties that are in the modules and not in a run hold on the same instances
(add them to the cfg): `TypeOK` of every module but `AlertLedger` (in `RunLock`, `Outbox`,
`Feedback` and `Claims` it bears the name of the module), `EvictionStartsWithReclaim` and
`EvictedNeverRemoves` (RunLock), `GivesUpLate` and `OnlyWantedIsPosted` (Outbox),
`NothingInvented` and `BaselineNeverCollapses` (Crawl), `LeaseProtectsRun` and
`LateFinishKeepsLease` (Scheduler), `DecisionsSurviveScans` (Radar),
`CycleDelivers` (Collection), `MatchesAreLive` (Desk), `TimelineAddsUp` and
`TrackRecordIsEarned` (Claims). They are theorems (section 5), except for
`MatchesAreLive`, `CycleDelivers` and the types of `Alerts`, `Collection`,
`Desk` and `Claims`. `CycleDelivers` is a matter of the instance: it is true of
feeds that either plugins read or sources poll, and not for every value of the
constants.

**Why the bounds are enough.** The lock needs three parties for its worst case
(a dead holder and two reclaimers); one of them is allowed to die so that the
others can show progress. The outbox needs two alerts for a story to replace
and a retry limit of one to see a row both retried and given up; one 429 and
one fault reach every order of the two with a retry. The crawl needs a pair
with one SKU, a pair with one coarse key and a listing of another tier, for the
lookup to find, miss and refuse a twin, and with three of them on the site for
the catalogue threshold (one of three collapses, one of two does not); two
changes let a content go and come back. The
scheduler's leases are per type and types meet only in a cycle's list, so one
type with two workers, three rows (a lease nobody runs any more and two
workers) and one upgrade gives every interleaving of a takeover with a late
finish.

The races of the desk are between two sessions: one reads, the other commits,
the first writes. Two workers, or one job beside an operator, and one more event
(a fault or an act) reach all of these, and the mutants show that each
property is at stake within the bounds. What must be larger is larger: three
items, so that one can join two others; three entries of feeds with a page of
two, so that one falls off; three backups with room for one, so that the safety
backup competes with the others; five entities, so that one is reached over two
and over three relations, which depth-first order gets wrong; two promotion
loops, so that both read a budget that neither has spent; two days, so that a digest has a window and
retention an age. The run of `Backup` schedules the backup
job only; with the pipeline as well (`Scheduled = {"backup", "pipeline"}`,
16 733 476 states) the same properties hold. In the delivery overlapping runs
are looked at with one target, and two targets with one run: the cap is per channel, and a second
target in an overlap repeats the first.

**Fairness.** Every assumption is about the environment that drives the code.
Timers keep starting runs and cycles (`Start`, `Begin`, `StartRun`,
`StartCycle`, the loop of `Collection`, `Backfill`), a started process takes its
next step because every request and webhook call has a timeout and every loop is
finite (`Work`, `Step`), leases expire, retries fall due, quiet hours end and
jobs become due because time passes. Nothing is assumed of operators, of
vendors, or of a killed process. The lock needs strong fairness for a probe that
keeps coming out undetermined and an unlink that keeps being refused, which are
transient errors of the operating system; `Backfill` and the deliveries' `Begin`
need it because another job or the operator's switch can disable them again and
again. The safety runs of `Alerts`, `Radar`, `Claims`, `Backup` and `Feedback`
assume none.

## 4. Disagreements between code and documents

Each of the following is stated as a property beside the others, with "does not
hold" or "broken by" in its comment. Adding its name to the cfg of its module
(with the values in brackets) makes TLC print the behaviour.

* `MutualExclusion` (RunLock): two runs that found the
  same dead holder both crawl, since the second unlinks the lock the first has
  just created. `run_lock.py:3`: "Prevents two concurrent `oem-radar run`
  processes".
* `DemotedIsAnnounced` (Outbox): a run that dies between `save_story` and
  `outbox_put` leaves demoted alerts that no story announces.
  `docs/ARCHITECTURE.md:21`: "Nothing is lost".
* `LatestIsObserved` (Crawl): a content that returns never becomes the latest
  snapshot again (`INSERT OR IGNORE`). `docs/ARCHITECTURE.md:51`: "If the hash
  differs, a new immutable snapshot row is appended".
* `ChangeReachesOutbox` (Crawl; one fault): a kill between `append` and
  `outbox_put` loses the notification for good. `docs/ARCHITECTURE.md:20`: "its
  own transaction".
* `EveryChangeHasItsRow` (Crawl; no fault): events of images and descriptions
  have dedup keys without a value, and values come back, so a second change
  finds its key taken by the row of the first, which may be a suppressed one.
  `docs/ARCHITECTURE.md:21`: "Nothing is lost".
* `VariantLaunchedOnce` (Crawl; `ModelKey <- MCMixedKey`, no fault): the lookup takes the
  one listing of the coarse key that was seen last, and finds nothing if that is
  a variant of another tier, so the second name of a known product is launched.
  `providers/sqlite/__init__.py:279` has only differing tiers kept apart.
* `OnlyExpiredIsTaken` (Scheduler): the second of two takers of an expired lease
  deletes the fresh lease of the first by its reused row id.
  `OPERATOR_GUIDE.md:373`.
* `MaterialOpensEpoch` (Scheduler; two upgrades): upgrade and rollback; the
  material cannot open an epoch again and its jobs end in an IntegrityError.
  `docs/QUALIFICATION_PROVENANCE.md:18`.
* `NeverTwice` (Delivery): two overlapping runs both look, both send, each
  commits at its end. `HANDOFF.md:2137`: "Successful delivery is not
  duplicated".
* `EveryNoteHasItsTurn` (Delivery): the desktop selects the oldest 50 whether or
  not they are delivered, the webhook keeps those it gave up or was refused;
  when these fill the window, later ones are never selected.
  `OPERATOR_GUIDE.md:336`: "important and urgent eligible alerts are sent to the
  desktop".
* `DeferredIsRetried` (Delivery): every deferral writes an attempt, so a
  notification deferred as often as attempts are allowed is never sent.
  `HANDOFF.md:1967`: "the post-quiet-hours retry delivers once".
* `BudgetIsShared` (Radar): a promotion loop of a command reads what is left of
  the budget while the pipeline's has not committed; together they exceed it.
  `cli.py:1340`: "honors the same settings/budget as the scheduled pipeline
  path".
* `DismissedUntilRestored` (Radar): a promotion loop or a clustering run that
  loaded a candidate before it was dismissed promotes it or makes it active.
  `candidate_state.py:41`: "remains dismissed unless manually restored".
* `ImportIsIdempotent` (Collection; two operator acts): runs of a source that the import does not
  know are added again by every import. `legacy_import.py:1`: "Transactional,
  idempotent import".
* `TopicsAreTheEditors` (Desk): evidence of no story seeds the topics of the
  program again after they were deleted. `README.md:88`: "topics are ordinary
  editable database rows".
* `LeakersDoNotOutscore` (Claims): five posts of one source outscore two sources.
  `services/confidence.py:17` says they cannot.
* `RestoreRefusesJobs` (Backup): leases are counted before the safety backup; a
  job that begins after it works on the database that is replaced.
  `README.md:616`: "refuses active jobs".
* `LiveIsWhole` (Backup): a file that is emptied after the restore has verified
  it passes the integrity check of the copy, and replaces the database; the
  dashboard builds empty tables at its next start. `README.md:617`: "validates
  the input".
* `PrunedIsFinal` (Backup; no fault): `verify` looks at the file, a prune
  deletes it and writes PRUNED, then `verify` writes VERIFIED over it: the table
  has a verified backup whose file is gone (`backup.py:203-215`).
* `RejectedIsNotRevived` (Feedback; two bodies of noise, each with one churn
  reason): the reason of an image pattern follows the reviews and is part of its
  fingerprint, so a rejected rule is proposed again under another reason.
  `feedback_analyze.py:498`: "do not revive automatically".
* `DuplicatesRepeat` (Feedback): any noise of one collector and type is proposed
  for suppression as duplicates. `feedback_analyze.py:254`: "Need repeated
  product keys".

Met while reading, without a property:

* `pipeline.py:101` calls a degraded run distinct from a healthy one, but it
  becomes the baseline of the next comparison.
* `providers/discord/__init__.py:206` says a 429 burns no attempt, but
  `outbox_mark` increments the attempts of every reply; `GivesUpLate` states
  what is left of the promise.
* `cli.py:248` tells the operator that suppressed rows are not sent; a drain
  that has read them sends them (`FinishedStaysFinished` excludes rows in hand).
* The 429 branch matches the digits anywhere in the error text.
* `pipeline.py:213` (duplicate listing) cannot be reached after `resolve_prior`.
* A changed port list, series or model stores a snapshot that no event mentions.
* A vendor that really shrinks below the threshold is refused for ever, and an
  empty lock file has to be removed by hand.
* A job that outlasts its lease is run a second time: `refresh` exists and is
  not called. `ExclusiveUntilExpiry` claims no more than the code does, and
  `LateFinishKeepsLease` that the overtaken run does no further harm.
* A second first review of an alert breaks the unique `alert_id` and is answered
  with 500; overlapping corrections leave a history whose entries do not follow
  one another; of two analyses that insert the same suggestion, the second loses
  the rest of its own. A suggestion whose evidence has gone stays PROPOSED with
  its old numbers. The image test of the simulation ends in `or True`.
  `docs/FEEDBACK_SYSTEM.md` says there is no command for suggestions yet.
* After an activation the numbers of crossings begin again, and a crossing
  whose key is taken by a notification from before is lost; the activation also
  erases the watermark of the promotion. `CrossingsCounted` allows for one more
  announcement per activation, never for the lost one.
* Retention deletes read notifications while their promotion or suggestion is
  still there: the next generation emits them again (`OPERATOR_GUIDE.md` calls
  re-running the generation safe).
* An incident stays open when recoveries are switched off; a partial body of a
  saved view resets the filters it leaves out; `PARTIAL` is never set.
* A source is fetched under the write lock, so others may wait longer than the
  busy timeout; entries that cannot be normalised are passed by the cursor and
  never tried again; more new entries than a page holds fall off; a pinned entry
  breaks the order newest first; the cursor of X may move backwards.
* `RUNNING` discovery runs are never committed, so `recover_stale_runs` finds
  nothing and a crash loses the account of the requests made; failed searches are
  not counted.
* `notifications deliver` and the web restore of a candidate have no guard on its
  state; a manual promotion during the loop adds a second promotion event;
  overlapping corrections of a verdict lose one (`candidate_qc.py:160` says
  "Race-safe").
* Two requests that change one link at once may leave the confidence of the
  earlier links (`ConfidenceIsCurrent` excepts them); a changed trust never
  recomputes a confidence; a pair that was accepted and unlinked is never
  suggested again; evidence linked after the verdict counts as a correct vote.
* The table of backups is inside the copied database: a restore forgets its
  safety backup, and brings back the lease and the RUNNING row of the job that
  made the copy, which refuses further restores until a backup job has run.
  Failed records count among those kept; with a retention of one a failed backup
  evicts the last verified one. The confirmed prune recomputes its list after the
  prompt. Checksums are never compared. On POSIX processes keep writing to the
  replaced file; on Windows the replacement fails while it is open.
  `OPERATOR_GUIDE.md:310` says there is no restore command.

## 5. Theorems

TLAPS proves the safety properties of all twelve modules that have a run, but
`GraphIsDistance`, for every value of the constants; TLC checks the same
formulas on the instances above. Assumptions are the named `ASSUME`s of the
modules: types of the constants, that `Nil`-like values are fresh, and

* for `Delivery` that there are finitely many targets and that the webhook is
  one of the channels;
* for `Alerts`, `Collection` and `Radar` that an absent time or watermark (-1)
  comes before every other, and for `Radar` that an item is a repetition only
  of an earlier one;
* for `Collection` that no row has a cursor before anything is collected, and
  that the old program stopped somewhere in the feed of the source
  (`CollectionRows`, `LegacySources`);
* for `Desk` that there are finitely many jobs (`DeskJobs`), for `Radar`
  finitely many promotion loops (`PromoterAssumption`), and for `Claims` finitely
  many pieces of evidence (`ClaimsNumbers`): all are counted.

* **RunLock** (`OemRadar_proofs`). `LockIInv` adds to the types that an unevicted
  holder owns the file at the lock path and that an evicted one does not
  (`EvictedLostTheFile`); without the second half an evicted holder could meet
  a file of its own at release. `MutexUntilEviction` gives mutual exclusion as
  long as no eviction happened, the strongest form that is true.
* **Outbox** (`Notices_proofs`). `OutboxIInv` accounts for deliveries and
  attempts of each row by the place of the run (`Deliveries`, `Attempts`), for
  what is in hand (`Hand`, `HandIsUnfinished`) and for wanted keys.
  `OutboxImplementsLedger` is the refinement theorem for the safety part.
* **Crawl** (`OemRadar_proofs`). `CrawlIInv` follows an event from the appended
  snapshot through `change_events` to the outbox (`Reporting`, `Flow`,
  `Witnesses`), where a fault or the row of another event with its key ends it
  and must not end a launch; one launch per pair of twins, which are the
  listings that the lookup of a single prior identifies whatever was seen last;
  the quiet of the baseline including the drain that may turn an ok run into a failed one, and that a catalogue
  being processed was not refused.
* **Scheduler.** `IInv` ties rows to workers (`RowsApart`), leases to rows
  (`LeaseProtectsRun`), found leases to past expiries (`FoundLapsed`), busy
  workers to leases (`BusyHoldsLease`) and evidence to epochs
  (`HealthyIsEarned`). `BusyHoldsLease` needs `FoundLapsed`: a worker that may
  delete a lease has seen one of that type expire.
* **Backup.** `IInv` follows the number of a file from the copy to its row. No
  database, live or copied, has a row of a file that is still being made
  (`NoRowYet`): a restored copy cannot know a later file, which is why
  `DirectoryIsLedger` survives the replacement of the table. What a prune holds
  was recorded and is gone (`HeldIsGone`). `LiveIsSound` follows the two looks
  of a restore: what it copies from had its tables when it was verified and
  keeps them unless it was emptied (`FromIsWhole`; no restore copies from a file
  that was not copied to yet, which has no tables, `Unwritten`), and what the
  second look lets pass is `Passable`. `RestoreKeepsReplaced` needs `SafetyKept`:
  every recorded copy made since a restore began contains what it will replace,
  and the newest row since then has its file; retention, which keeps the newest
  rows, may take the safety backup itself, but then a later copy holds the same.
  A late `verify` may bring a PRUNED row back; `NewestKept` counts PRUNED rows as
  rows, so that one brought back is older than the newest one and takes no place.
* **Feedback** (`OemRadar_proofs`, `FeedbackIInv`). A request that has an alert
  in hand alone still holds the review there is (`InHandAlone`), a review never
  goes away (`ReviewStays`), and an analysis refreshes what it found open
  (`RefreshesOpen`). What a simulation counts is a matter of sets:
  `SimulationsCoverSupport` follows from lemmas about the alerts of a pattern
  and the signal among them, without induction over runs.
* **Delivery.** A message is accounted for from the answer of the adapter to the
  commit, by the run that will record it, by the uncommitted state, then by the
  table (`SentIsAccounted`, `TxIsAhead`). What a run decided stays true until
  it records it (`HandIsOpen`) since a second run with the target in hand makes
  it excused (`OneHand`) or the channel crowded (`OneRun`). The cap needs that
  a run about to add a delivery has left room for it (`RoomIsLeft`), and that
  what it believes to be older than an hour is (`AgedIsDelivered`).
* **Alerts** (`Notices_proofs`, `AlertsIInv`). `RoomToAnnounce` counts a
  candidate that deserves attention and was not yet found to as one
  announcement that may still come; evaluations, which consume a crossing only
  if somebody could hear it, keep made + pending <= rises + activations.
  `EndedBySuccess` puts a success behind every incident that is over, and no
  streak of failures reaches across it (`StreakIsBounded`). `SoakIsRefused`
  keeps an item that was collected before the admission of its source before
  the watermark of every later admission, through changes of identity as well
  (`clear_collection_identity_watermarks` keeps the contract); with
  `WatermarksAreSeparate`, which says that what an evaluation compares with is
  the evaluation before it, it gives `SoakIsSilent`.
* **Collection** (`Evidence_proofs`, `CollectionIInv`). A cursor is `Sound` when
  every entry up to it has fallen off the page of its feed or is `Kept`:
  stored, impossible to normalise, or left to the old program. Pages and stored
  items only move on, so that a sound cursor stays sound however old the row is
  that holds it. This is why the rows a job loaded may be written back late,
  after another job, an edit or an import (`LoadedAreSound`), and
  `NothingSkipped` is still true. `AnalysedOnce` follows step by step: analysis
  takes an item by its committed state, however many lists it is on.
* **Claims** (`Evidence_proofs`, `ClaimsIInv`). A request has what it loaded
  unless its claim had events since (`Fresh`): whoever changes a claim or its
  links also appends to its timeline, and the length of that tells whether two
  requests overlapped. With `ConfidenceIsCurrent` this is inductive.
  `TimelineAddsUp` needs besides that an unlink has found a link when it was
  loaded (`FoundTheirLinks`): with `Fresh`, an unlink that nobody overlapped
  removes one. `TrackRecordFollowsVerdicts` rests on new claims being open
  (`NewAreOpen`), an open claim counting for no source.
* **Radar.** `CoverageCounted` says of the stories that no evidence is in two and
  that coverage is the number of a story's evidence; the operators of
  `Editorial` are shown to preserve both (`Book`). That a promoted candidate
  stays in a story needs that stories take nothing back (`Keeps`). The budget
  needs that what a run has left is set aside for it when it begins: promotions
  of the hour and what the loops under way have left are together within the
  budget for each of the loops there were at once (`SpentIsKnown`). That only an
  item nobody links to resurfaces a candidate or
  makes it current needs that candidates are seeded by a member
  (`SeedIsMember`), that the item the clustering run has in hand is of no
  candidate (`FoundIsFree`), and that items are collected in order
  (`CollectedInOrder`). `SourceDecisionsStand` goes through every step: besides
  the operator only the scans and the mining of links, in promotions and
  backfill, write suggestions, and both keep the status of a row that has one.
* **Desk.** A job counts the searches, then waits for the write lock, then
  searches. `Within` counts both sides at once: the searches made, in the view
  of the job that has the lock, and the jobs that have judged and not yet
  searched are together within the limit and one for every job but the first.
  It is inductive with `Ahead` (what the holder has written is within the
  limit, or one search), `Fits` (it judged its next search on all it has
  written) and `Held` (its view extends what is committed). `Respects` keeps
  the decisions about sites in that view.

Each invariant was model-checked before it was proved, on the instance of its
module's run (`Delivery` with two events instead of one: 1 174 685 states).

What is TLC's alone:

* liveness (`StaleLockReclaimed`, `PendingSettles`, `CatchesUp`, `DueJobRuns`,
  `EveryEntryConsidered`, `EvidenceReachesInbox`, `EveryNoteSettles`) and
  whatever is about ENABLED: out of reach of the prover;
* `GraphIsDistance`, which says what a traversal computes: that needs induction
  over its depth, and the library's theorems on induction take an operator as
  their parameter, which none of the provers instantiates;
* the disagreements of section 4, which are violations;
* `CycleDelivers`, which depends on the constants, and `MatchesAreLive`;
* the types of `Alerts`, `Collection`, `Desk` and `Claims`: their proofs state
  and prove types of their own (`Shape`, `CollectionTyped`, `Typed`,
  `ClaimsTyped`), of the variables the properties are about.

## 6. Plan

The modules above cover what the program does with state that several actors
share. Next, in this order:

1. A composition of `Scheduler` with `Backup` (leases against the replacement of
   the file), and of `Crawl` with `Outbox` through an abstract outbox.
2. The cache of the fetcher (body and metadata are two files) as a small module.

### Not modelled

* The engines, hardware names, the fetcher's politeness, parsing and
  canonicalisation: string processing and I/O without state shared by steps.
* Health, quality, trends, diagnostics, the analytics of the feedback, lists,
  details and pages: reports computed from queries. The summary of the feedback
  counts in three reads, so that figures of different moments may meet in it.
* The intelligence engines of the radar (`signals/claims.py`,
  `confidence_engine.py`, `editorial_value_engine.py`, `origin_graph.py`) and
  the story scores: figures derived for display, which decide nothing.
* `merge_candidates`, which nothing calls, and the rehearsal of a restore, which
  writes nothing that stays.
* Migrations, the schema guard, packaging, start-up and the registration of the
  Windows task: one-shot steps outside the running system.
