------------------------------- MODULE Crawl --------------------------------
(***************************************************************************)
(* One source of OEM Radar through its runs: run_all (core/runner.py),     *)
(* run_source (core/pipeline.py), diff (core/diff.py) and the tables they  *)
(* write (providers/sqlite).                                               *)
(*                                                                         *)
(* A run discovers the catalogue, judges its health against the last ok    *)
(* run, and then compares product after product with its stored snapshot:  *)
(* an unchanged one is touched, a changed one is appended, its events are  *)
(* recorded and put in the outbox and its components learned.  Each of     *)
(* these writes is a commit of its own, so a run can stop between any two. *)
(*                                                                         *)
(* A content is what the content hash covers, split by how diff treats it: *)
(* the spec stands for the fields whose events carry the old and the new   *)
(* value (components, specs, configurations, prices) and names the         *)
(* component that may be unseen; the art stands for the fields whose       *)
(* events carry no value (images, description).  The hash also covers the  *)
(* listing's URL, so contents of two listings never hash alike.  Fields    *)
(* that no event mentions (ports, series, model) are left out: a change of *)
(* one of them stores a snapshot and nothing else.  A product that fails   *)
(* validation is not trackable and not a listing here.                     *)
(*                                                                         *)
(* The site is read once per run, at discovery, as engines with inline     *)
(* payloads do.  Products are processed in any order.  The vendor SKU and  *)
(* the model name of a listing are taken as fixed.                         *)
(***************************************************************************)
EXTENDS Naturals, FiniteSets

CONSTANTS
  Listing,     \* the product keys of the source
  Sku,         \* the vendor SKU of a listing, Nil without one
  ModelKey,    \* the coarse key of its model name (model_key)
  Tier,        \* the tier words of its model name (_TIER_WORDS)
  Specs,       \* the values of the fields diffed with values
  Arts,        \* the values of the fields diffed without
  Content,     \* the contents a vendor may show, pairs of both
  Nil,         \* not on the site, not stored, no value
  Seeds,       \* the components known from the start
  Loud,        \* the kinds of event whose severity reaches the threshold
  InitialSite, \* the site before the first run
  BaselineQuiet, \* baseline_quiet of radar.yaml
  ZeroIsFailure, \* unexpected_zero_is_failure of radar.yaml
  MinPercent,  \* minimum_fraction_of_previous_catalog, in percent
  MaxChanges,  \* bound: changes of the site
  MaxFaults    \* bound: kills, errors and partial catalogues

Kind == {"new", "spec", "art"}

\* A change of a listing, named by the contents it lies between.
NewEvent(l, c) == [listing |-> l, kind |-> "new", from |-> Nil, to |-> c]
ChangeEvent(l, k, b, c) == [listing |-> l, kind |-> k, from |-> b, to |-> c]

Event ==
  {NewEvent(l, c) : l \in Listing, c \in Content}
    \cup {ChangeEvent(l, k, b, c) :
            l \in Listing, k \in {"spec", "art"}, b \in Content, c \in Content}

\* dedup_key: of the contents only the values that the event carries.
DedupKey(e) ==
  [listing |-> e.listing, kind |-> e.kind,
   old |-> IF e.kind = "spec" THEN e.from.spec ELSE Nil,
   new |-> IF e.kind = "spec" THEN e.to.spec ELSE Nil]

ASSUME ValueAssumption ==
  /\ Content \subseteq [spec : Specs, art : Arts]
  /\ Nil \notin Content \cup Specs \cup Listing \cup Event \cup Nat
  /\ Seeds \subseteq Specs
  /\ Loud \subseteq Kind
  /\ InitialSite \in [Listing -> Content \cup {Nil}]
  /\ IsFiniteSet(Listing)
ASSUME IdentityAssumption ==
  DOMAIN Sku = Listing /\ DOMAIN ModelKey = Listing /\ DOMAIN Tier = Listing
ASSUME SettingAssumption ==
  /\ BaselineQuiet \in BOOLEAN /\ ZeroIsFailure \in BOOLEAN
  /\ MinPercent \in Nat
  /\ MaxChanges \in Nat /\ MaxFaults \in Nat

VARIABLES
  site,      \* what the vendor shows under each listing
  snapshots, \* the contents stored for each listing
  latest,    \* the newest of them (the highest snapshot id)
  recorded,  \* the events in change_events
  rows,      \* the events with a row of their own in notifications
  pending,   \* the ones whose row was put as pending, the others suppressed
  known,     \* the components table
  lastOk,    \* products discovered by the last ok run, Nil without one
  pc,        \* where the run is; "idle" between runs
  baseline,  \* whether this run is the source's first
  seen,      \* the contents discovered and not yet processed
  found,     \* how many products were discovered
  cur,       \* the listing being processed
  news,      \* its events that are not recorded yet
  hand,      \* the event recorded last, while it has no row
  priorOk,   \* lastOk before this run was recorded as ok
  owed,      \* history: the events of all appended snapshots
  lost,      \* history: those a fault kept out of the outbox
  changes,   \* number of site changes so far
  faults     \* number of faults so far

world == <<site, changes>>
archive == <<snapshots, latest>>
outbox == <<recorded, rows, pending>>
run == <<pc, baseline, seen, found, cur, news, hand, priorOk>>
vars == <<world, archive, outbox, known, lastOk, run, owed, lost, faults>>

TypeOK ==
  /\ site \in [Listing -> Content \cup {Nil}]
  /\ snapshots \in [Listing -> SUBSET Content]
  /\ latest \in [Listing -> Content \cup {Nil}]
  /\ recorded \in SUBSET Event
  /\ rows \in SUBSET Event
  /\ pending \in SUBSET rows
  /\ known \in SUBSET Specs
  /\ lastOk \in Nat \cup {Nil}
  /\ pc \in {"idle", "discover", "products", "report", "drain"}
  /\ baseline \in BOOLEAN
  /\ seen \in [Listing -> Content \cup {Nil}]
  /\ found \in Nat
  /\ cur \in Listing \cup {Nil}
  /\ news \in SUBSET Event
  /\ hand \in Event \cup {Nil}
  /\ priorOk \in Nat \cup {Nil}
  /\ owed \in SUBSET Event
  /\ lost \in SUBSET Event
  /\ changes \in Nat
  /\ faults \in Nat

Nothing == [l \in Listing |-> Nil]

Init ==
  /\ site = InitialSite
  /\ snapshots = [l \in Listing |-> {}]
  /\ latest = Nothing
  /\ recorded = {}
  /\ rows = {}
  /\ pending = {}
  /\ known = Seeds
  /\ lastOk = Nil
  /\ pc = "idle"
  /\ baseline = FALSE
  /\ seen = Nothing
  /\ found = 0
  /\ cur = Nil
  /\ news = {}
  /\ hand = Nil
  /\ priorOk = Nil
  /\ owed = {}
  /\ lost = {}
  /\ changes = 0
  /\ faults = 0

\* The vendor adds, edits or removes a product; bounded by MaxChanges.
SiteChanges(l, c) ==
  /\ pc = "idle"
  /\ changes < MaxChanges
  /\ c # site[l]
  /\ site' = [site EXCEPT ![l] = c]
  /\ changes' = changes + 1
  /\ UNCHANGED <<archive, outbox, known, lastOk, run, owed, lost, faults>>

Fault ==
  /\ faults < MaxFaults
  /\ faults' = faults + 1

-----------------------------------------------------------------------------
(* run_all: one run of the source *)

\* The run of the source ends; its working state is gone.
Stop ==
  /\ pc' = "idle"
  /\ baseline' = FALSE
  /\ seen' = Nothing
  /\ found' = 0
  /\ cur' = Nil
  /\ news' = {}
  /\ hand' = Nil
  /\ priorOk' = Nil

\* Mutant of Baseline: any run of the source counts, finished or not.
BaselineUntilStored == BaselineQuiet /\ latest = Nothing

\* has_completed_run: the source has no run with status ok.
Baseline == BaselineQuiet /\ lastOk = Nil

StartRun ==
  /\ pc = "idle"
  /\ pc' = "discover"
  /\ baseline' = Baseline
  /\ UNCHANGED <<world, archive, outbox, known, lastOk, seen, found, cur, news,
                 hand, priorOk, owed, lost, faults>>

\* The catalogue is empty, or a small part of the last one.
Collapsed(n) ==
  \/ n = 0 /\ ZeroIsFailure /\ lastOk # 0
  \/ n > 0 /\ lastOk \notin {0, Nil} /\ n * 100 < MinPercent * lastOk

OnSite == {l \in Listing : site[l] # Nil}

\* The discovered listings: all on the site, or part of them when pages fail.
Discover(refs) ==
  /\ pc = "discover"
  /\ \/ refs = OnSite /\ UNCHANGED faults
     \/ refs \in SUBSET OnSite \ {OnSite} /\ Fault
  /\ IF Collapsed(Cardinality(refs))
     THEN Stop
     ELSE /\ pc' = "products"
          /\ seen' = [l \in Listing |-> IF l \in refs THEN site[l] ELSE Nil]
          /\ found' = Cardinality(refs)
          /\ UNCHANGED <<baseline, cur, news, hand, priorOk>>
  /\ UNCHANGED <<world, archive, outbox, known, lastOk, owed, lost>>

\* All products done: the run is ok, also when the catalogue shrank enough for
\* a warning (health "degraded").
FinishOk ==
  /\ pc = "products"
  /\ seen = Nothing
  /\ pc' = "drain"
  /\ lastOk' = found
  /\ priorOk' = lastOk
  /\ UNCHANGED <<world, archive, outbox, known, baseline, seen, found, cur, news,
                 hand, owed, lost, faults>>

Drained ==
  /\ pc = "drain"
  /\ Stop
  /\ UNCHANGED <<world, archive, outbox, known, lastOk, owed, lost, faults>>

-----------------------------------------------------------------------------
(* run_source: one product *)

\* Mutant of OfSku: the SKU is looked up under the coarse key only.
OfSkuNarrow(l) ==
  {m \in {k \in Listing : latest[k] # Nil} \ {l} :
     Sku[m] # Nil /\ Sku[m] = Sku[l] /\ ModelKey[m] = ModelKey[l]}

Stored == {l \in Listing : latest[l] # Nil}

\* The other stored listings that carry the SKU, and those of the coarse key.
OfSku(l) == {m \in Stored \ {l} : Sku[m] # Nil /\ Sku[m] = Sku[l]}
OfKey(l) == {m \in Stored : ModelKey[m] = ModelKey[l]}

\* _same_product: the model names do not differ by a tier word.
SameProduct(l, m) == Tier[l] = Tier[m]

\* resolve_prior: the listing's own snapshot, else that of one listing with its
\* SKU, else that of one listing with its coarse key, unless just that one is of
\* another tier.  The one is the last seen, which may be any of them.
Priors(l) ==
  IF latest[l] # Nil THEN {latest[l]}
  ELSE IF OfSku(l) # {} THEN {latest[m] : m \in OfSku(l)}
  ELSE IF OfKey(l) = {} THEN {Nil}
  ELSE {IF SameProduct(l, m) THEN latest[m] ELSE Nil : m \in OfKey(l)}

Diff(l, before, c) ==
  IF before = Nil THEN {NewEvent(l, c)}
  ELSE {ChangeEvent(l, k, before, c) :
          k \in {j \in {"spec", "art"} :
                   IF j = "spec" THEN before.spec # c.spec ELSE before.art # c.art}}

\* Mutant of SameHash: the hash leaves the images and the description out.
SameSpecHash(l) == latest[l] # Nil /\ seen[l].spec = latest[l].spec

\* The content hash of what was discovered is that of the latest snapshot.
SameHash(l) == seen[l] = latest[l]

\* touch: only last_seen_at advances.
Unchanged(l) ==
  /\ pc = "products"
  /\ seen[l] # Nil
  /\ SameHash(l)
  /\ seen' = [seen EXCEPT ![l] = Nil]
  /\ UNCHANGED <<world, archive, outbox, known, lastOk, pc, baseline, found, cur,
                 news, hand, priorOk, owed, lost, faults>>

\* INSERT OR IGNORE into a table whose rows are unique per listing and hash: a
\* content that was stored before does not become the latest again.
Store(l, c) ==
  /\ snapshots' = [snapshots EXCEPT ![l] = @ \cup {c}]
  /\ latest' = IF c \in snapshots[l] THEN latest ELSE [latest EXCEPT ![l] = c]

AppendSnapshot(l) ==
  /\ pc = "products"
  /\ seen[l] # Nil
  /\ ~SameHash(l)
  /\ Store(l, seen[l])
  /\ \E before \in Priors(l) : news' = Diff(l, before, seen[l])
  /\ owed' = owed \cup news'
  /\ cur' = l
  /\ pc' = "report"
  /\ UNCHANGED <<world, outbox, known, lastOk, baseline, seen, found, hand, priorOk,
                 lost, faults>>

\* record_event: an insert of its own in change_events.
Record(e) ==
  /\ pc = "report"
  /\ hand = Nil
  /\ e \in news
  /\ recorded' = recorded \cup {e}
  /\ news' = news \ {e}
  /\ hand' = e
  /\ UNCHANGED <<world, archive, rows, pending, known, lastOk, pc, baseline, seen, found, cur,
                 priorOk, owed, lost, faults>>

\* Worth a ping: not on the source's first crawl, not below the threshold.
Notifies(e) == ~baseline /\ e.kind \in Loud

\* The event's key has a row, of this event or of another.
HasRow(e) == \E r \in rows : DedupKey(r) = DedupKey(e)

\* outbox_put: a key that has a row keeps it.
Put ==
  /\ hand # Nil
  /\ rows' = IF HasRow(hand) THEN rows ELSE rows \cup {hand}
  /\ pending' = IF ~HasRow(hand) /\ Notifies(hand) THEN pending \cup {hand}
                                                    ELSE pending
  /\ hand' = Nil
  /\ UNCHANGED <<world, archive, recorded, known, lastOk, pc, baseline, seen, found,
                 cur, news, priorOk, owed, lost, faults>>

\* The loop over the products goes on.
NextProduct ==
  /\ pc' = "products"
  /\ seen' = [seen EXCEPT ![cur] = Nil]
  /\ cur' = Nil
  /\ news' = {}
  /\ hand' = Nil
  /\ UNCHANGED <<baseline, found, priorOk>>

\* Mutant of Reported: the enqueue loop ends with the first event.
ReportedOne == pc = "report" /\ hand = Nil

\* All events of the product have been enqueued.
Reported == pc = "report" /\ hand = Nil /\ news = {}

LearnComponents ==
  /\ Reported
  /\ known' = known \cup {seen[cur].spec}
  /\ NextProduct
  /\ UNCHANGED <<world, archive, outbox, lastOk, owed, lost, faults>>

-----------------------------------------------------------------------------
(* Faults *)

\* The events of the current product that will not get a row any more.
Forgotten == news \cup ({hand} \ {Nil})

\* The product cannot be fetched, parsed or validated; the loop goes on.
ReadFails(l) ==
  /\ pc = "products"
  /\ seen[l] # Nil
  /\ Fault
  /\ seen' = [seen EXCEPT ![l] = Nil]
  /\ UNCHANGED <<world, archive, outbox, known, lastOk, pc, baseline, found, cur,
                 news, hand, priorOk, owed, lost>>

\* A write after the append raises; the loop goes on with the next product.
ProductFails ==
  /\ pc = "report"
  /\ Fault
  /\ NextProduct
  /\ lost' = lost \cup Forgotten
  /\ UNCHANGED <<world, archive, outbox, known, lastOk, owed>>

\* The run is killed, or discovery raises: it never becomes ok.
Crash ==
  /\ pc # "idle"
  /\ Fault
  /\ Stop
  /\ lost' = lost \cup Forgotten
  /\ UNCHANGED <<world, archive, outbox, known, lastOk, owed>>

\* The drain raises: run_all marks the run, recorded as ok by now, as failed.
DrainFails ==
  /\ pc = "drain"
  /\ Fault
  /\ lastOk' = priorOk
  /\ Stop
  /\ UNCHANGED <<world, archive, outbox, known, owed, lost>>

-----------------------------------------------------------------------------

Process ==
  \/ \E l \in Listing : Unchanged(l) \/ AppendSnapshot(l)
  \/ \E e \in news : Record(e)
  \/ Put
  \/ LearnComponents

Work ==
  \/ StartRun
  \/ \E refs \in SUBSET Listing : Discover(refs)
  \/ Process
  \/ FinishOk
  \/ Drained

Environment ==
  \/ \E l \in Listing, c \in Content \cup {Nil} : SiteChanges(l, c)
  \/ \E l \in Listing : ReadFails(l)
  \/ ProductFails
  \/ Crash
  \/ DrainFails

Next == Work \/ Environment

Spec == Init /\ [][Next]_vars

\* Runs keep being started (the interval of the source elapses), and a started
\* run goes on: requests have timeouts and the loops are finite.
FairSpec == Spec /\ WF_vars(Work)

-----------------------------------------------------------------------------
(* Safety *)

\* Every event of a product that was compared has an outbox row of its own, is
\* being reported, was lost to a fault between the append and the put, or found
\* its dedup key taken by the row of another event.  The last, which needs no
\* fault, happens to changes of known products only: a launch is never
\* swallowed (the event loop of run_source, dedup_key, enqueue).
NoSilentChange ==
  \A e \in owed :
    \/ e \in rows \cup Forgotten \cup lost
    \/ e.kind # "new" /\ HasRow(e)

\* Nothing is pending before the source has an ok run, however many runs were
\* killed, failed or were refused on the way there (baseline_quiet in run_all,
\* has_completed_run, enqueue).
BaselineIsQuiet ==
  BaselineQuiet /\ pending # {} => lastOk # Nil

\* A row is about a recorded event and a stored content, and a component known
\* beyond the seeds occurs in a stored content: a crash leaves facts without
\* alerts, never alerts without facts (the order append, record, put, learn).
NothingInvented ==
  /\ \A e \in rows : e \in recorded /\ e.to \in snapshots[e.listing]
  /\ \A x \in known \ Seeds : \E l \in Listing : \E c \in snapshots[l] : c.spec = x

Launched(l) == \E e \in recorded : e.listing = l /\ e.kind = "new"

\* Listings that resolve_prior can tell to be one product, whatever was seen
\* last: one SKU, or one coarse key that no other tier shares.
Twins(l, m) ==
  \/ Sku[l] # Nil /\ Sku[l] = Sku[m]
  \/ /\ ModelKey[l] = ModelKey[m]
     /\ \A k \in Listing : ModelKey[k] = ModelKey[l] => SameProduct(l, k)

\* Of two such listings at most one is announced as new, whichever is stored
\* first and whatever fails in between (resolve_prior, diff).
LaunchAnnouncedOnce ==
  \A l, m \in Listing : l # m /\ Twins(l, m) => ~(Launched(l) /\ Launched(m))

\* The catalogue size that later runs are judged by never collapses in one
\* step: an ok run found at least MinPercent of what the one before it found,
\* or nothing where an empty catalogue is allowed, and a failed drain brings
\* back the older size (the health check of run_source, run_finished).
BaselineNeverCollapses ==
  [][lastOk' # lastOk =>
       \/ pc = "drain" /\ lastOk' = priorOk
       \/ lastOk \in {0, Nil}
       \/ lastOk' = 0 /\ ~ZeroIsFailure
       \/ lastOk' * 100 >= MinPercent * lastOk]_vars

(* Liveness *)

\* The site as it is now is not refused as a collapsed catalogue.
Acceptable == ~Collapsed(Cardinality(OnSite))

\* Catch-up: a content that stays on the site ends up in the listing's history,
\* unless the catalogue as a whole is refused (run_all, run_source, append).
CatchesUp ==
  \A l \in Listing, c \in Content :
    site[l] = c ~> (site[l] # c \/ c \in snapshots[l] \/ ~Acceptable)

\* docs/ARCHITECTURE.md:51 (ADR-4), "If the hash differs, a new immutable
\* snapshot row is appended": a content that stays on the site becomes the
\* latest snapshot.  Broken by a content that returns: the insert is ignored.
LatestIsObserved ==
  \A l \in Listing, c \in Content :
    site[l] = c ~> (site[l] # c \/ c = latest[l] \/ ~Acceptable)

\* docs/ARCHITECTURE.md:20, "each source's crawl, snapshot, diff, notify is its
\* own transaction": the events of a stored snapshot get outbox rows sooner or
\* later.  Broken by a run that stops between append and outbox_put: the next
\* run finds the listing unchanged.
ChangeReachesOutbox ==
  \A e \in Event : e \in owed ~> HasRow(e)

\* docs/ARCHITECTURE.md:21, "Nothing is lost": every change has a row of its own
\* unless a fault cut it off.  Broken without any: a later change of the images,
\* or one between the same values, finds its key taken, be it by a row that was
\* suppressed on the first crawl.
EveryChangeHasItsRow ==
  owed \subseteq rows \cup Forgotten \cup lost

\* The comment in resolve_prior (providers/sqlite/__init__.py:279) has only
\* differing tiers kept apart: of two listings with one coarse key and one tier
\* at most one is announced.  Broken when a listing of another tier was seen
\* last: it is the only one looked at.
VariantLaunchedOnce ==
  \A l, m \in Listing :
    l # m /\ ModelKey[l] = ModelKey[m] /\ SameProduct(l, m)
      => ~(Launched(l) /\ Launched(m))
=============================================================================
