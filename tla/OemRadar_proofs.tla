-------------------------- MODULE OemRadar_proofs ---------------------------
(***************************************************************************)
(* Proofs about three parts of OEM Radar that share no state: the run      *)
(* lock, the crawl of a source that it protects, and the reviews,          *)
(* suggestions and simulations of its alerts.                              *)
(***************************************************************************)
EXTENDS RunLock, Crawl, Feedback, FiniteSetTheorems, TLAPS

-----------------------------------------------------------------------------
(***************************************************************************)
(* The safety of the run lock for every set of pids.  The invariant that   *)
(* carries it ties the file at the lock path to the holders: a holder      *)
(* whose file nobody unlinked still owns the file at the lock path, and an *)
(* evicted one does not.                                                   *)
(***************************************************************************)

EvictedLostTheFile ==
  \A p \in evicted : p \in Holding /\ lockFile # p

LockIInv == LockTypeOK /\ SoleUnevictedHolder /\ EvictedLostTheFile

-----------------------------------------------------------------------------

LEMMA LockInitIInv == LockInit => LockIInv
BY NoFileAssumption DEF LockInit, LockIInv, LockTypeOK, SoleUnevictedHolder,
   EvictedLostTheFile, Holding, Label

\* A process that leaves without touching the lock path keeps the invariant.
LEMMA LeaveKeepsIInv ==
  ASSUME LockIInv, NEW p \in Proc, Leave(p)
  PROVE  LockIInv'
BY DEF LockIInv, LockTypeOK, SoleUnevictedHolder, EvictedLostTheFile, Holding, Label,
   Leave, Goto

\* A successful create: the path was free, so no unevicted holder existed.
LEMMA CreateKeepsIInv ==
  ASSUME LockIInv, NEW p \in Proc, at[p] \in {"create", "recreate"}, CreateFile(p)
  PROVE  LockIInv'
BY NoFileAssumption DEF LockIInv, LockTypeOK, SoleUnevictedHolder, EvictedLostTheFile,
   Holding, Label, CreateFile, Goto

\* An unlink evicts the holder that owned the file, whoever performs it.
LEMMA UnlinkKeepsIInv ==
  ASSUME LockIInv, NEW p \in Proc, Unlink(p),
         \/ at[p] = "unlink" /\ Goto(p, "recreate")
         \/ at[p] = "remove" /\ Goto(p, "off")
  PROVE  LockIInv'
BY NoFileAssumption DEF LockIInv, LockTypeOK, SoleUnevictedHolder, EvictedLostTheFile,
   Holding, Label, Unlink, Goto

LEMMA LockNextIInv == LockIInv /\ [LockNext]_lockVars => LockIInv'
<1> SUFFICES ASSUME LockIInv, [LockNext]_lockVars PROVE LockIInv'
  OBVIOUS
<1> USE DEF LockIInv, LockTypeOK, SoleUnevictedHolder, EvictedLostTheFile, Holding,
            Label, Goto
<1>1. ASSUME NEW p \in Proc, Start(p) PROVE LockIInv'
  BY <1>1 DEF Start
<1>2. ASSUME NEW p \in Proc, Acquire(p) PROVE LockIInv'
  <2>1. CASE Create(p) \/ Recreate(p)
    BY <2>1, CreateKeepsIInv DEF Create, Recreate
  <2>2. CASE FindExisting(p)
    BY <2>2 DEF FindExisting
  <2>3. CASE WritePayload(p)
    BY <2>3 DEF WritePayload
  <2>4. CASE InspectReadable(p)
    BY <2>4 DEF InspectReadable
  <2>5. CASE ProbeDead(p)
    BY <2>5 DEF ProbeDead
  <2>6. CASE UnlinkStale(p)
    BY <2>6, UnlinkKeepsIInv DEF UnlinkStale
  <2>7. CASE \/ InspectUnreadable(p) \/ ProbeRefuses(p)
             \/ UnlinkFails(p) \/ RecreateRace(p)
    BY <2>7, LeaveKeepsIInv
       DEF InspectUnreadable, ProbeRefuses, UnlinkFails, RecreateRace
  <2>8. QED
    BY <1>2, <2>1, <2>2, <2>3, <2>4, <2>5, <2>6, <2>7 DEF Acquire
<1>3. ASSUME NEW p \in Proc, Release(p) PROVE LockIInv'
  <2>1. CASE FinishCrawl(p)
    BY <2>1 DEF FinishCrawl
  <2>2. CASE CheckOwn(p)
    BY <2>2 DEF CheckOwn
  <2>3. CASE CheckOther(p)
    BY <2>3, LeaveKeepsIInv DEF CheckOther
  <2>4. CASE Remove(p)
    BY <2>4, UnlinkKeepsIInv DEF Remove
  <2>5. QED
    BY <1>3, <2>1, <2>2, <2>3, <2>4 DEF Release
<1>4. ASSUME NEW p \in Proc, Killed(p) PROVE LockIInv'
  BY <1>4, LeaveKeepsIInv DEF Killed
<1>5. CASE UNCHANGED lockVars
  BY <1>5 DEF lockVars
<1>6. QED
  BY <1>1, <1>2, <1>3, <1>4, <1>5 DEF LockNext

LEMMA LockSpecIInv == LockSpec => []LockIInv
BY LockInitIInv, LockNextIInv, PTL DEF LockSpec

-----------------------------------------------------------------------------

\* Every variable keeps its type, whatever the processes do.
THEOREM LockTypeCorrect == LockSpec => []LockTypeOK
<1>1. LockIInv => LockTypeOK
  BY DEF LockIInv
<1>2. QED
  BY <1>1, LockSpecIInv, PTL

\* Among the holders whose file nobody unlinked, at most one exists, and it
\* owns the file at the lock path.
THEOREM ExclusionWithoutEviction == LockSpec => []SoleUnevictedHolder
<1>1. LockIInv => SoleUnevictedHolder
  BY DEF LockIInv
<1>2. QED
  BY <1>1, LockSpecIInv, PTL

\* As long as no reclaim evicted a live holder, two crawls never overlap.
THEOREM MutexUntilEviction == LockSpec => [](evicted = {} => MutualExclusion)
<1>1. LockIInv => (evicted = {} => MutualExclusion)
  BY DEF LockIInv, SoleUnevictedHolder, MutualExclusion, Holding, Crawling
<1>2. QED
  BY <1>1, LockSpecIInv, PTL

\* The first eviction of a live holder is the unlink of a reclaim: a release
\* removes a file of another process only after its own file was taken.
THEOREM ReclaimEvictsFirst == LockSpec => EvictionStartsWithReclaim
<1> DEFINE Step == (evicted = {} /\ evicted' # {})
                     => \E p \in Proc : at[p] = "unlink" /\ at'[p] = "recreate"
<1>1. LockIInv /\ [LockNext]_lockVars => [Step]_lockVars
  <2> SUFFICES ASSUME LockIInv, LockNext, evicted = {}, evicted' # {}
               PROVE  \E p \in Proc : at[p] = "unlink" /\ at'[p] = "recreate"
    OBVIOUS
  <2> USE DEF LockIInv, LockTypeOK
  <2>1. PICK p \in Proc : Start(p) \/ Acquire(p) \/ Release(p) \/ Killed(p)
    BY DEF LockNext
  <2>2. ~Leave(p)
    BY DEF Leave
  <2>3. ~Remove(p)
    BY DEF Remove, Unlink, SoleUnevictedHolder, Holding, Goto
  <2>4. UnlinkStale(p)
    BY <2>1, <2>2, <2>3
       DEF Start, Acquire, Release, Killed, Create, Recreate, CreateFile,
           FindExisting, WritePayload, InspectReadable, InspectUnreadable,
           ProbeDead, ProbeRefuses, UnlinkFails, RecreateRace, FinishCrawl,
           CheckOwn, CheckOther
  <2>5. QED
    BY <2>4 DEF UnlinkStale, Goto
<1>2. QED
  BY <1>1, LockSpecIInv, PTL DEF LockSpec, EvictionStartsWithReclaim

\* A holder that was evicted before it checked the file at its release does
\* not remove the file of the process that replaced it.
THEOREM EvictedReleaseIsHarmless == LockSpec => EvictedNeverRemoves
<1> DEFINE Step == \A p \in evicted : at[p] = "check" => at'[p] # "remove"
<1>1. LockIInv /\ [LockNext]_lockVars => [Step]_lockVars
  <2> SUFFICES ASSUME LockIInv, LockNext, NEW q \in evicted, at[q] = "check"
               PROVE  at'[q] # "remove"
    OBVIOUS
  <2> USE DEF LockIInv, LockTypeOK
  <2>1. q \in Proc /\ lockFile # q
    BY DEF EvictedLostTheFile
  <2>2. PICK p \in Proc : Start(p) \/ Acquire(p) \/ Release(p) \/ Killed(p)
    BY DEF LockNext
  <2>3. CASE p # q
    BY <2>1, <2>2, <2>3
       DEF Start, Acquire, Release, Killed, Create, Recreate, CreateFile,
           FindExisting, WritePayload, InspectReadable, InspectUnreadable,
           ProbeDead, ProbeRefuses, UnlinkStale, UnlinkFails, RecreateRace,
           FinishCrawl, CheckOwn, CheckOther, Remove, Leave, Goto
  <2>4. CASE p = q
    BY <2>1, <2>2, <2>4
       DEF Start, Acquire, Release, Killed, Create, Recreate, CreateFile,
           FindExisting, WritePayload, InspectReadable, InspectUnreadable,
           ProbeDead, ProbeRefuses, UnlinkStale, UnlinkFails, RecreateRace,
           FinishCrawl, CheckOwn, CheckOther, Remove, Leave, Goto
  <2>5. QED
    BY <2>3, <2>4
<1>2. QED
  BY <1>1, LockSpecIInv, PTL DEF LockSpec, EvictedNeverRemoves

-----------------------------------------------------------------------------
(***************************************************************************)
(* The safety of the crawl of a source, for every set of listings and      *)
(* contents, every threshold and every number of site changes and faults.  *)
(***************************************************************************)

\* Only a product that is being reported has events in hand.
Reporting ==
  IF pc = "report"
  THEN /\ cur \in Listing
       /\ seen[cur] \in snapshots[cur]
  ELSE news = {} /\ hand = Nil

\* A listing has a latest snapshot exactly when it has one at all.
Archived ==
  \A l \in Listing :
    /\ latest[l] = Nil <=> snapshots[l] = {}
    /\ latest[l] # Nil => latest[l] \in snapshots[l]

\* Events flow from appended snapshots through change_events to the outbox.
Flow ==
  /\ news \subseteq owed
  /\ hand # Nil => hand \in recorded
  /\ rows \subseteq recorded
  /\ recorded \subseteq owed

\* What an event says is in the archive.
Witnessed(e) == e.to \in snapshots[e.listing]

Witnesses ==
  /\ \A e \in owed : Witnessed(e)
  /\ \A x \in known \ Seeds : \E l \in Listing : \E c \in snapshots[l] : c.spec = x

IsLaunch(e, l) == e.listing = l /\ e.kind = "new"

\* A listing is new at most once, and not when a twin of it was.
OneLaunch ==
  /\ \A l \in Listing : \A e, f \in owed : IsLaunch(e, l) /\ IsLaunch(f, l) => e = f
  /\ \A l, m \in Listing : l # m /\ Twins(l, m) =>
       \A e, f \in owed : ~(IsLaunch(e, l) /\ IsLaunch(f, m))

\* Until its first ok run a source is crawled in baseline mode; that run only
\* counts once its drain is over.
Quiet ==
  BaselineQuiet =>
    /\ lastOk = Nil /\ pc \in {"products", "report", "discover"} => baseline
    /\ lastOk = Nil => pending = {}
    /\ pc = "drain" /\ priorOk = Nil => pending = {}

\* A catalogue that is being processed was not refused.
Healthy == pc \in {"products", "report"} => ~Collapsed(found)

CrawlIInv ==
  /\ TypeOK
  /\ Reporting
  /\ Archived
  /\ Flow
  /\ Witnesses
  /\ OneLaunch
  /\ Quiet
  /\ Healthy
  /\ NoSilentChange

USE DEF world, archive, outbox, run

-----------------------------------------------------------------------------
(* The operators the actions are built from *)

\* Every event of a diff is about the listing and its content; only a product
\* without a prior is new.
LEMMA DiffSays ==
  ASSUME NEW l \in Listing, NEW before \in Content \cup {Nil}, NEW c \in Content,
         NEW e \in Diff(l, before, c)
  PROVE  /\ e \in Event
         /\ e.listing = l
         /\ e.to = c
         /\ e.kind = "new" => before = Nil /\ e = NewEvent(l, c)
<1>1. CASE before = Nil
  BY <1>1 DEF Diff, NewEvent, Event
<1>2. CASE before # Nil
  <2>1. PICK k \in {"spec", "art"} : e = ChangeEvent(l, k, before, c)
    BY <1>2 DEF Diff
  <2>2. QED
    BY <1>2, <2>1 DEF ChangeEvent, Event
<1>3. QED
  BY <1>1, <1>2

LEMMA TwinsIsSymmetric ==
  ASSUME NEW l \in Listing, NEW m \in Listing, Twins(l, m)
  PROVE  Twins(m, l)
BY DEF Twins, SameProduct

\* A prior is a stored content, and a listing has one if a twin of it is stored.
LEMMA PriorsAre ==
  ASSUME TypeOK, NEW l \in Listing, NEW before \in Priors(l)
  PROVE  /\ before \in Content \cup {Nil}
         /\ before = Nil =>
              /\ latest[l] = Nil
              /\ \A m \in Listing : l # m /\ Twins(l, m) => latest[m] = Nil
<1>1. before \in Content \cup {Nil}
  BY DEF Priors, OfSku, OfKey, Stored, TypeOK
<1>2. ASSUME before = Nil
      PROVE  /\ latest[l] = Nil
             /\ \A m \in Listing : l # m /\ Twins(l, m) => latest[m] = Nil
  <2>1. latest[l] = Nil /\ OfSku(l) = {}
    BY <1>2 DEF Priors, OfSku, Stored
  <2>2. ASSUME NEW m \in Listing, l # m, Twins(l, m), latest[m] # Nil
        PROVE  FALSE
    <3>1. m \in Stored
      BY <2>2 DEF Stored
    <3>2. /\ ModelKey[l] = ModelKey[m]
          /\ \A k \in Listing : ModelKey[k] = ModelKey[l] => SameProduct(l, k)
      BY <2>1, <2>2, <3>1 DEF Twins, OfSku
    <3>3. m \in OfKey(l)
      BY <3>1, <3>2 DEF OfKey
    <3>4. PICK k \in OfKey(l) : before = IF SameProduct(l, k) THEN latest[k] ELSE Nil
      BY <2>1, <3>3 DEF Priors
    <3>5. SameProduct(l, k) /\ latest[k] # Nil
      BY <3>2, <3>4 DEF OfKey, Stored
    <3>6. QED
      BY <1>2, <3>4, <3>5
  <2>3. QED
    BY <2>1, <2>2
<1>3. QED
  BY <1>1, <1>2

LEMMA FoundIsNat == \A refs \in SUBSET Listing : Cardinality(refs) \in Nat
BY ValueAssumption, FS_Subset, FS_CardinalityType

LEMMA CrawlInitIInv == Init => CrawlIInv
<1> SUFFICES ASSUME Init PROVE CrawlIInv
  OBVIOUS
<1> USE DEF Init
<1>1. TypeOK
  BY ValueAssumption DEF TypeOK, Nothing
<1>2. Reporting /\ Archived
  BY DEF Reporting, Archived, Nothing
<1>3. Flow /\ Witnesses /\ OneLaunch
  BY DEF Flow, Witnesses, OneLaunch
<1>4. Quiet /\ Healthy /\ NoSilentChange
  BY DEF Quiet, Healthy, NoSilentChange
<1>5. QED
  BY <1>1, <1>2, <1>3, <1>4 DEF CrawlIInv

-----------------------------------------------------------------------------
(* The steps *)

\* The end of a run, for whatever reason; a failed drain takes the ok back.
LEMMA StopKeepsIInv ==
  ASSUME CrawlIInv, Stop, UNCHANGED <<world, archive, outbox, known, owed>>,
         faults' \in Nat,
         lost' = lost \cup Forgotten,
         lastOk' = lastOk \/ (pc = "drain" /\ lastOk' = priorOk)
  PROVE  CrawlIInv'
<1> USE DEF CrawlIInv, Stop
<1>1. TypeOK'
  BY ValueAssumption DEF TypeOK, Nothing, Forgotten
<1>2. Reporting' /\ Archived' /\ Flow' /\ Witnesses' /\ OneLaunch' /\ Healthy'
  BY DEF Reporting, Archived, Flow, Witnesses, Witnessed, OneLaunch, Healthy
<1>3. Quiet'
  BY DEF Quiet
<1>4. NoSilentChange'
  BY DEF NoSilentChange, HasRow, Forgotten
<1>5. QED
  BY <1>1, <1>2, <1>3, <1>4

LEMMA SiteKeepsIInv ==
  ASSUME CrawlIInv, NEW l \in Listing, NEW c \in Content \cup {Nil}, SiteChanges(l, c)
  PROVE  CrawlIInv'
BY DEF SiteChanges, CrawlIInv, TypeOK, Reporting, Archived, Flow, Witnesses, Witnessed,
       OneLaunch, Quiet, Healthy, Collapsed, NoSilentChange, HasRow, Forgotten

LEMMA StartKeepsIInv == CrawlIInv /\ StartRun => CrawlIInv'
<1> SUFFICES ASSUME CrawlIInv, StartRun PROVE CrawlIInv'
  OBVIOUS
<1> USE DEF CrawlIInv, StartRun
<1>1. TypeOK'
  BY SettingAssumption DEF TypeOK, Baseline
<1>2. Quiet'
  BY DEF Quiet, Baseline
<1>3. QED
  BY <1>1, <1>2
     DEF Reporting, Archived, Flow, Witnesses, Witnessed, OneLaunch, Healthy,
         NoSilentChange, HasRow, Forgotten

LEMMA DiscoverKeepsIInv ==
  ASSUME CrawlIInv, NEW refs \in SUBSET Listing, Discover(refs)
  PROVE  CrawlIInv'
<1> USE DEF CrawlIInv, Discover
<1>0. Cardinality(refs) \in Nat /\ faults' \in Nat
  BY FoundIsNat DEF Fault, TypeOK
<1>1. CASE Collapsed(Cardinality(refs))
  <2>1. Stop /\ lost' = lost \cup Forgotten
    BY <1>1 DEF Reporting, Forgotten
  <2>2. QED
    BY <1>0, <2>1, StopKeepsIInv
<1>2. CASE ~Collapsed(Cardinality(refs))
  <2>1. TypeOK'
    BY <1>0, <1>2 DEF TypeOK
  <2>2. Healthy'
    BY <1>2 DEF Healthy, Collapsed
  <2>3. Quiet'
    BY <1>2 DEF Quiet
  <2>4. QED
    BY <1>2, <2>1, <2>2, <2>3
       DEF Reporting, Archived, Flow, Witnesses, Witnessed, OneLaunch,
           NoSilentChange, HasRow, Forgotten
<1>3. QED
  BY <1>1, <1>2

LEMMA FinishKeepsIInv == CrawlIInv /\ FinishOk => CrawlIInv'
<1> SUFFICES ASSUME CrawlIInv, FinishOk PROVE CrawlIInv'
  OBVIOUS
<1> USE DEF CrawlIInv, FinishOk
<1>1. TypeOK'
  BY DEF TypeOK
<1>2. Quiet'
  BY ValueAssumption DEF Quiet, TypeOK
<1>3. QED
  BY <1>1, <1>2
     DEF Reporting, Archived, Flow, Witnesses, Witnessed, OneLaunch, Healthy,
         NoSilentChange, HasRow, Forgotten

LEMMA SkipKeepsIInv ==
  ASSUME CrawlIInv, NEW l \in Listing, Unchanged(l) \/ ReadFails(l)
  PROVE  CrawlIInv'
BY DEF Unchanged, ReadFails, Fault, CrawlIInv, TypeOK, Reporting, Archived, Flow,
       Witnesses, Witnessed, OneLaunch, Quiet, Healthy, Collapsed, NoSilentChange,
       HasRow, Forgotten

LEMMA AppendKeepsIInv ==
  ASSUME CrawlIInv, NEW l \in Listing, AppendSnapshot(l)
  PROVE  CrawlIInv'
<1> USE DEF CrawlIInv, AppendSnapshot
<1>1. PICK before \in Priors(l) : news' = Diff(l, before, seen[l])
  OBVIOUS
<1>2. before \in Content \cup {Nil} /\ seen[l] \in Content
  BY PriorsAre DEF TypeOK
<1>3. \A e \in news' :
        /\ e \in Event
        /\ e.listing = l
        /\ e.to = seen[l]
        /\ e.kind = "new" => before = Nil /\ e = NewEvent(l, seen[l])
  BY <1>1, <1>2, DiffSays
<1>4. news = {} /\ hand = Nil
  BY DEF Reporting
<1>5. /\ \A m \in Listing : snapshots[m] \subseteq snapshots'[m]
      /\ seen[l] \in snapshots'[l]
  BY DEF Store, TypeOK
<1>6. TypeOK'
  BY <1>2, <1>3, <1>4 DEF TypeOK, Store
<1>7. Archived'
  BY <1>2, ValueAssumption DEF Archived, Store, TypeOK
<1>8. Reporting' /\ Flow'
  BY <1>4, <1>5 DEF Reporting, Flow
<1>9. Witnesses'
  <2>1. \A e \in owed : Witnessed(e)'
    <3> SUFFICES ASSUME NEW e \in owed PROVE Witnessed(e)'
      OBVIOUS
    <3>1. e.listing \in Listing
      BY DEF TypeOK, Event, NewEvent, ChangeEvent
    <3>2. QED
      BY <1>5, <3>1 DEF Witnesses, Witnessed
  <2>2. \A e \in news' : Witnessed(e)'
    BY <1>3, <1>5 DEF Witnessed
  <2>3. QED
    BY <1>5, <2>1, <2>2 DEF Witnesses
<1>10. OneLaunch'
  <2>1. \A k \in Listing : \A e \in owed : IsLaunch(e, k) => latest[k] # Nil
    BY DEF Witnesses, Witnessed, Archived, IsLaunch
  <2>2. \A k \in Listing : \A e \in news' : IsLaunch(e, k) =>
          /\ k = l /\ e = NewEvent(l, seen[l]) /\ latest[l] = Nil
          /\ \A j \in Listing : l # j /\ Twins(l, j) => latest[j] = Nil
    BY <1>3, PriorsAre DEF IsLaunch
  <2>3. ASSUME NEW k \in Listing, NEW e \in owed', NEW f \in owed',
               IsLaunch(e, k), IsLaunch(f, k)
        PROVE  e = f
    BY <2>1, <2>2, <2>3 DEF OneLaunch
  <2>4. ASSUME NEW m \in Listing, NEW n \in Listing, m # n, Twins(m, n),
               NEW e \in owed', NEW f \in owed', IsLaunch(e, m), IsLaunch(f, n)
        PROVE  FALSE
    <3>1. Twins(n, m)
      BY <2>4, TwinsIsSymmetric
    <3>2. ~(e \in owed /\ f \in owed)
      BY <2>4 DEF OneLaunch
    <3>3. QED
      BY <2>1, <2>2, <2>4, <3>1, <3>2
  <2>5. QED
    BY <2>3, <2>4 DEF OneLaunch, Twins, SameProduct, IsLaunch
<1>11. Quiet' /\ Healthy'
  BY DEF Quiet, Healthy, Collapsed
<1>12. NoSilentChange'
  BY <1>4 DEF NoSilentChange, HasRow, Forgotten
<1>13. QED
  BY <1>6, <1>7, <1>8, <1>9, <1>10, <1>11, <1>12

LEMMA RecordKeepsIInv ==
  ASSUME CrawlIInv, NEW e \in Event, Record(e)
  PROVE  CrawlIInv'
<1> USE DEF CrawlIInv, Record
<1>1. e # Nil
  BY ValueAssumption
<1>2. TypeOK'
  BY DEF TypeOK
<1>3. Flow' /\ NoSilentChange'
  BY <1>1 DEF Flow, NoSilentChange, HasRow, Forgotten
<1>4. QED
  BY <1>2, <1>3
     DEF Reporting, Archived, Witnesses, Witnessed, OneLaunch, Quiet, Healthy, Collapsed

LEMMA CrawlPutKeepsIInv == CrawlIInv /\ Put => CrawlIInv'
<1> SUFFICES ASSUME CrawlIInv, Put PROVE CrawlIInv'
  OBVIOUS
<1> USE DEF CrawlIInv, Put
<1>1. hand \in Event /\ pc = "report"
  BY DEF TypeOK, Reporting
<1>2. TypeOK'
  BY <1>1 DEF TypeOK
<1>3. Flow' /\ Reporting'
  BY <1>1 DEF Flow, Reporting
<1>5. NoSilentChange'
  <2>1. \A e \in owed : HasRow(e) => HasRow(e)'
    BY DEF HasRow
  <2>2. hand \in owed /\ (HasRow(hand) \/ hand \in rows')
    BY DEF Flow
  <2>3. ASSUME hand.kind = "new", HasRow(hand)
        PROVE  hand \in rows
    <3>1. PICK r \in rows : DedupKey(r) = DedupKey(hand)
      BY <2>3 DEF HasRow
    <3>2. r.listing = hand.listing /\ r.kind = "new" /\ r \in owed
      BY <2>3, <3>1 DEF DedupKey, Flow
    <3>3. hand.listing \in Listing
      BY <1>1 DEF Event, NewEvent, ChangeEvent
    <3>4. r = hand
      BY <2>2, <2>3, <3>2, <3>3 DEF OneLaunch, IsLaunch
    <3>5. QED
      BY <3>1, <3>4
  <2>4. \A e \in owed : e # hand /\ e \in Forgotten => e \in Forgotten'
    BY DEF Forgotten
  <2>5. QED
    BY <2>1, <2>2, <2>3, <2>4 DEF NoSilentChange
<1>4. Quiet'
  BY <1>1 DEF Quiet, Notifies
<1>6. QED
  BY <1>2, <1>3, <1>4, <1>5
     DEF Archived, Witnesses, Witnessed, OneLaunch, Healthy, Collapsed

\* The loop leaves a product, all reported or not.
LEMMA NextProductKeepsIInv ==
  ASSUME CrawlIInv, pc = "report", NextProduct,
         UNCHANGED <<world, archive, outbox, lastOk, owed>>,
         known' = known \/ known' = known \cup {seen[cur].spec},
         lost' = lost \cup Forgotten, faults' \in Nat
  PROVE  CrawlIInv'
<1> USE DEF CrawlIInv, NextProduct
<1>1. cur \in Listing /\ seen[cur] \in snapshots[cur] /\ snapshots[cur] \subseteq Content
  BY DEF Reporting, TypeOK
<1>2. seen[cur].spec \in Specs
  BY <1>1, ValueAssumption
<1>3. TypeOK'
  BY <1>2, ValueAssumption DEF TypeOK, Forgotten
<1>4. Witnesses'
  BY <1>1 DEF Witnesses, Witnessed
<1>5. NoSilentChange' /\ Reporting' /\ Flow'
  BY DEF NoSilentChange, HasRow, Forgotten, Reporting, Flow
<1>6. QED
  BY <1>3, <1>4, <1>5 DEF Archived, OneLaunch, Quiet, Healthy, Collapsed

LEMMA CrawlNextIInv == CrawlIInv /\ [Next]_vars => CrawlIInv'
<1> SUFFICES ASSUME CrawlIInv, [Next]_vars PROVE CrawlIInv'
  OBVIOUS
<1>0. faults \in Nat /\ (Fault => faults' \in Nat)
  BY DEF CrawlIInv, TypeOK, Fault
<1>1. CASE Crash \/ DrainFails \/ Drained
  <2>1. pc = "drain" => Forgotten = {}
    BY DEF CrawlIInv, Reporting, Forgotten
  <2>2. QED
    BY <1>0, <1>1, <2>1, StopKeepsIInv DEF Crash, DrainFails, Drained
<1>2. CASE LearnComponents
  <2>1. Forgotten = {}
    BY <1>2 DEF LearnComponents, Reported, Forgotten
  <2>2. QED
    BY <1>0, <1>2, <2>1, NextProductKeepsIInv DEF LearnComponents, Reported
<1>3. CASE ProductFails
  BY <1>0, <1>3, NextProductKeepsIInv DEF ProductFails
<1>4. CASE UNCHANGED vars
  BY <1>4
     DEF vars, CrawlIInv, TypeOK, Reporting, Archived, Flow, Witnesses, Witnessed, OneLaunch,
         Quiet, Healthy, Collapsed, NoSilentChange, HasRow, Forgotten
<1>5. CASE \E e \in news : Record(e)
  BY <1>5, RecordKeepsIInv DEF CrawlIInv, TypeOK
<1>6. QED
  BY <1>1, <1>2, <1>3, <1>4, <1>5, SiteKeepsIInv, StartKeepsIInv, DiscoverKeepsIInv,
     FinishKeepsIInv, SkipKeepsIInv, AppendKeepsIInv, CrawlPutKeepsIInv
     DEF Next, Work, Process, Environment

LEMMA CrawlSpecIInv == Spec => []CrawlIInv
BY CrawlInitIInv, CrawlNextIInv, PTL DEF Spec

-----------------------------------------------------------------------------

\* Every variable keeps its type.
THEOREM CrawlTypeCorrect == Spec => []TypeOK
<1>1. CrawlIInv => TypeOK
  BY DEF CrawlIInv
<1>2. QED
  BY <1>1, CrawlSpecIInv, PTL

\* A change without an outbox row of its own is being reported, was cut off by a
\* fault, or found its dedup key taken, which never happens to a launch.
THEOREM NoChangeIsSilent == Spec => []NoSilentChange
<1>1. CrawlIInv => NoSilentChange
  BY DEF CrawlIInv
<1>2. QED
  BY <1>1, CrawlSpecIInv, PTL

\* Nothing is put as pending before the source has an ok run.
THEOREM FirstCrawlIsQuiet == Spec => []BaselineIsQuiet
<1>1. CrawlIInv => BaselineIsQuiet
  BY DEF CrawlIInv, Quiet, BaselineIsQuiet
<1>2. QED
  BY <1>1, CrawlSpecIInv, PTL

\* Every outbox row and every learned component has its evidence in the
\* archive.
THEOREM AlertsHaveEvidence == Spec => []NothingInvented
<1>1. CrawlIInv => NothingInvented
  BY DEF CrawlIInv, Flow, Witnesses, Witnessed, NothingInvented
<1>2. QED
  BY <1>1, CrawlSpecIInv, PTL

\* Two listings of one SKU, or of one coarse key that no other tier shares, are
\* never both announced as new.
THEOREM OneLaunchPerProduct == Spec => []LaunchAnnouncedOnce
<1>1. CrawlIInv => LaunchAnnouncedOnce
  BY DEF CrawlIInv, Flow, OneLaunch, IsLaunch, Launched, LaunchAnnouncedOnce
<1>2. QED
  BY <1>1, CrawlSpecIInv, PTL

\* The size a catalogue is judged by does not collapse in one ok run.
THEOREM BaselineKeepsItsSize == Spec => BaselineNeverCollapses
<1> DEFINE Step == lastOk' # lastOk =>
                     \/ pc = "drain" /\ lastOk' = priorOk
                     \/ lastOk \in {0, Nil}
                     \/ lastOk' = 0 /\ ~ZeroIsFailure
                     \/ lastOk' * 100 >= MinPercent * lastOk
<1>1. CrawlIInv /\ [Next]_vars => [Step]_vars
  <2> SUFFICES ASSUME CrawlIInv, Next, lastOk' # lastOk PROVE Step
    OBVIOUS
  <2>1. FinishOk \/ DrainFails
    BY DEF Next, Work, Process, Environment, StartRun, Discover, Unchanged, AppendSnapshot,
           Record, Put, LearnComponents, Drained, SiteChanges, ReadFails,
           ProductFails, Crash
  <2>2. CASE DrainFails
    BY <2>2 DEF DrainFails
  <2>3. CASE FinishOk
    <3>1. ~Collapsed(found) /\ lastOk' = found
      BY <2>3 DEF FinishOk, CrawlIInv, Healthy
    <3>2. found \in Nat /\ lastOk \in Nat \cup {Nil} /\ MinPercent \in Nat
      BY SettingAssumption DEF CrawlIInv, TypeOK
    <3>3. found = 0 => ~ZeroIsFailure \/ lastOk = 0
      BY <3>1 DEF Collapsed
    <3>4. found > 0 => lastOk \in {0, Nil} \/ ~(found * 100 < MinPercent * lastOk)
      BY <3>1 DEF Collapsed
    <3>5. lastOk \in Nat =>
            (~(found * 100 < MinPercent * lastOk) => found * 100 >= MinPercent * lastOk)
      BY <3>2
    <3>6. QED
      BY <3>1, <3>2, <3>3, <3>4, <3>5
  <2>4. QED
    BY <2>1, <2>2, <2>3
<1>2. QED
  BY <1>1, CrawlSpecIInv, PTL DEF Spec, BaselineNeverCollapses

-----------------------------------------------------------------------------
(***************************************************************************)
(* The reviews, suggestions and simulations of OEM Radar for every number  *)
(* of alerts, requests and commands.  What the history says of the reviews *)
(* needs to know what a request has in hand between its two steps: the     *)
(* review it has looked up, which is still the one there is unless another *)
(* request had the alert in hand too.                                      *)
(***************************************************************************)

Reviewing(w, a) == work[w].pc = "review" /\ work[w].alert = a

\* A review that was there does not go away.
ReviewStays == \A w \in Worker, a \in Alert : Reviewing(w, a) /\ work[w].was # None => review[a] # None

\* Who has an alert in hand alone has its review in hand.
InHandAlone ==
  \A w \in Worker, a \in Alert : Reviewing(w, a) /\ a \notin overlapped =>
    /\ work[w].was = review[a]
    /\ \A u \in Worker : Reviewing(u, a) => u = w

\* An analysis refreshes a suggestion that is there, and that it has found
\* neither rejected nor reverted.
RefreshesOpen ==
  \A w \in Worker : work[w].pc = "update" =>
    table[work[w].current.key] # None /\ work[w].seen \notin {"REJECTED", "REVERTED"}

FeedbackIInv == FeedbackTypeOK /\ HistoryTellsReviews /\ ReviewStays /\ InHandAlone /\ RefreshesOpen

-----------------------------------------------------------------------------
(* The patterns *)

\* Alerts, and what is counted of them, are finitely many.
LEMMA CountsAreNumbers == ASSUME NEW S \in SUBSET Alert PROVE IsFiniteSet(S) /\ Cardinality(S) \in Nat
<1>1. IsFiniteSet(Alert)
  BY FeedbackNumbers, FS_Interval DEF Alert
<1>2. QED
  BY <1>1, FS_Subset, FS_CardinalityType

LEMMA DistIsEvidence == ASSUME NEW S \in SUBSET Alert PROVE Dist(S) \in Evidence
<1>1. \A o \in Outcome : With(S, o) \in SUBSET Alert
  BY DEF With
<1>2. \A o \in Outcome : Cardinality(With(S, o)) \in Nat
  BY <1>1, CountsAreNumbers
<1>3. QED
  BY <1>2 DEF Dist, Evidence

\* A pattern is one of the three, of a collector and a type, and rests on
\* reviewed alerts that its own rule matches.
LEMMA PatternsMatch ==
  ASSUME NEW S \in SUBSET Alert, NEW p \in Found(S)
  PROVE  /\ p.key \in Key
         /\ p.support \subseteq Reviewed(S)
         /\ \A a \in p.support : Matches(p.key, a)
<1>1. PICK c \in Collectors, t \in Types :
        LET G == Of(Reviewed(S), c, t)
        IN p \in {Pattern("suppress_exact_duplicate", "DUPLICATE_ALERT", c, t, Duplicates(G)),
                  Pattern("normalize_image_url", Primary(Churned(G)), c, t, Churned(G)),
                  Pattern("minimum_price_change_percent", "MINOR_PRICE_FLUCTUATION", c, t, Minor(G))}
  BY DEF Found
<1> DEFINE G == Of(Reviewed(S), c, t)
<1>2. /\ G \subseteq Reviewed(S)
      /\ \A a \in G : Trait[a].collector = c /\ Trait[a].type = t
  BY DEF Of
<1>3. Primary(Churned(G)) \in Churn
  BY DEF Primary, Churn
<1>4. CASE p = Pattern("suppress_exact_duplicate", "DUPLICATE_ALERT", c, t, Duplicates(G))
  <2>1. Duplicates(G) \subseteq G
    BY DEF Duplicates, Citing, With
  <2>2. p.key \in Key
    BY <1>4 DEF Pattern, Key, Rule, Reason, ReasonsOf
  <2>3. QED
    BY <1>2, <1>4, <2>1, <2>2 DEF Pattern, Matches
<1>5. CASE p = Pattern("normalize_image_url", Primary(Churned(G)), c, t, Churned(G))
  <2>1. Churned(G) \subseteq G /\ \A a \in Churned(G) : Trait[a].type = "images_changed"
    BY DEF Churned, Citing
  <2>2. p.key \in Key
    BY <1>3, <1>5 DEF Pattern, Key, Rule, Reason, ReasonsOf
  <2>3. QED
    BY <1>2, <1>5, <2>1, <2>2 DEF Pattern, Matches
<1>6. CASE p = Pattern("minimum_price_change_percent", "MINOR_PRICE_FLUCTUATION", c, t, Minor(G))
  <2>1. Minor(G) \subseteq G /\ \A a \in Minor(G) : Trait[a].type = "price_changed" /\ Trait[a].minor
    BY DEF Minor
  <2>2. p.key \in Key
    BY <1>6 DEF Pattern, Key, Rule, Reason, ReasonsOf
  <2>3. QED
    BY <1>2, <1>6, <2>1, <2>2 DEF Pattern, Matches
<1>7. QED
  BY <1>1, <1>4, <1>5, <1>6

LEMMA CandidatesAreTyped ==
  ASSUME NEW S \in SUBSET Alert
  PROVE  {[key |-> p.key, evidence |-> Dist(p.support)] : p \in Found(S)} \in SUBSET Candidate
<1>1. ASSUME NEW p \in Found(S) PROVE [key |-> p.key, evidence |-> Dist(p.support)] \in Candidate
  <2>1. p.key \in Key /\ p.support \in SUBSET Alert
    BY PatternsMatch DEF Reviewed
  <2>2. QED
    BY <2>1, DistIsEvidence DEF Candidate
<1>2. QED
  BY <1>1

-----------------------------------------------------------------------------
(* What a request or a command has in hand *)

LEMMA WorkIsTyped ==
  ASSUME FeedbackTypeOK, NEW w \in Worker
  PROVE  /\ work[w].pc = "review" =>
              work[w].alert \in Alert /\ work[w].was \in Review \cup {None} /\ work[w].body \in Review
         /\ work[w].pc = "select" => work[w].todo \in SUBSET Candidate
         /\ work[w].pc \in {"insert", "update"} =>
              /\ work[w].todo \in SUBSET Candidate /\ work[w].current \in Candidate
              /\ work[w].seen \in Status \cup {None}
BY DEF FeedbackTypeOK, Task

\* A request or a command goes on, and the others do what they did.
LEMMA WorkGoesOn ==
  ASSUME FeedbackTypeOK, NEW w \in Worker, NEW next \in Task, work' = [work EXCEPT ![w] = next]
  PROVE  work' \in [Worker -> Task] /\ work'[w] = next /\ \A u \in Worker \ {w} : work'[u] = work[u]
BY DEF FeedbackTypeOK

\* No alert is taken in hand, and nothing is refreshed that was not looked up.
LEMMA NothingInHand ==
  ASSUME FeedbackIInv, NEW w \in Worker, NEW next \in Task, next.pc \in {"idle", "select", "insert"},
         work' = [work EXCEPT ![w] = next],
         UNCHANGED <<arrived, review, history, reviews, decisions, overlapped>>,
         table' \in [Key -> Suggestion \cup {None}], \A k \in Key : table[k] # None => table'[k] # None
  PROVE  FeedbackIInv'
<1>1. work' \in [Worker -> Task] /\ work'[w] = next /\ \A u \in Worker \ {w} : work'[u] = work[u]
  BY WorkGoesOn DEF FeedbackIInv
<1>2. FeedbackTypeOK'
  BY <1>1 DEF FeedbackIInv, FeedbackTypeOK
<1>3. HistoryTellsReviews'
  BY DEF FeedbackIInv, HistoryTellsReviews
<1>4. ReviewStays' /\ InHandAlone'
  BY <1>1 DEF FeedbackIInv, ReviewStays, InHandAlone, Reviewing
<1>5. RefreshesOpen'
  <2>1. \A u \in Worker : work[u].pc = "update" => work[u].current.key \in Key
    BY WorkIsTyped DEF FeedbackIInv, Candidate
  <2>2. QED
    BY <1>1, <2>1 DEF FeedbackIInv, RefreshesOpen
<1>6. QED
  BY <1>2, <1>3, <1>4, <1>5 DEF FeedbackIInv

LEMMA IdleIsWork == Idle \in Task /\ Idle.pc = "idle"
BY DEF Idle, Task

LEMMA RestIsWork == ASSUME NEW todo \in SUBSET Candidate PROVE Rest(todo) \in Task /\ Rest(todo).pc \in {"idle", "select"}
BY DEF Rest, Idle, Task

-----------------------------------------------------------------------------
(* The steps *)

LEMMA FeedbackInitIInv == FeedbackInit => FeedbackIInv
<1> SUFFICES ASSUME FeedbackInit PROVE FeedbackIInv
  OBVIOUS
<1>1. FeedbackTypeOK
  BY IdleIsWork, FeedbackNumbers DEF FeedbackInit, FeedbackTypeOK
<1>2. HistoryTellsReviews
  BY DEF FeedbackInit, HistoryTellsReviews
<1>3. ReviewStays /\ InHandAlone /\ RefreshesOpen
  BY DEF FeedbackInit, ReviewStays, InHandAlone, RefreshesOpen, Reviewing, Idle
<1>4. QED
  BY <1>1, <1>2, <1>3 DEF FeedbackIInv

LEMMA RecordEventStep == ASSUME FeedbackIInv, RecordEvent PROVE FeedbackIInv'
<1>1. FeedbackTypeOK'
  BY FeedbackNumbers DEF RecordEvent, FeedbackIInv, FeedbackTypeOK
<1>2. QED
  BY <1>1 DEF RecordEvent, FeedbackIInv, HistoryTellsReviews, ReviewStays, InHandAlone, RefreshesOpen, Reviewing

LEMMA LookUpStep == ASSUME FeedbackIInv, NEW w \in Worker, NEW a \in Alert, NEW body \in Bodies, LookUp(w, a, body) PROVE FeedbackIInv'
<1> DEFINE next == [pc |-> "review", alert |-> a, was |-> review[a], body |-> body]
<1>1. next \in Task
  BY FeedbackInputs DEF Task, FeedbackIInv, FeedbackTypeOK
<1>2. work' \in [Worker -> Task] /\ work'[w] = next /\ \A u \in Worker \ {w} : work'[u] = work[u]
  BY <1>1, WorkGoesOn DEF FeedbackIInv, LookUp
<1>3. UNCHANGED <<arrived, review, history, table, decisions>> /\ reviews' = reviews + 1 /\ work[w].pc = "idle"
  BY DEF LookUp
<1>4. /\ overlapped' \subseteq overlapped \cup {a} /\ overlapped \subseteq overlapped'
      /\ a \notin overlapped' => \A u \in Worker \ {w} : ~Reviewing(u, a)
  BY DEF LookUp, Reviewing
<1>5. FeedbackTypeOK'
  BY <1>2, <1>3, <1>4 DEF FeedbackIInv, FeedbackTypeOK
<1>6. HistoryTellsReviews'
  BY <1>3, <1>4 DEF FeedbackIInv, HistoryTellsReviews
<1>7. ReviewStays' /\ InHandAlone'
  BY <1>2, <1>3, <1>4 DEF FeedbackIInv, ReviewStays, InHandAlone, Reviewing
<1>8. RefreshesOpen'
  BY <1>2, <1>3 DEF FeedbackIInv, RefreshesOpen
<1>9. QED
  BY <1>5, <1>6, <1>7, <1>8 DEF FeedbackIInv

LEMMA UpsertStep == ASSUME FeedbackIInv, NEW w \in Worker, Upsert(w) PROVE FeedbackIInv'
<1> DEFINE a == work[w].alert
           body == work[w].body
<1>1. /\ work[w].pc = "review" /\ a \in Alert /\ work[w].was \in Review \cup {None} /\ body \in Review
      /\ body # None
  BY WorkIsTyped, FeedbackInputs DEF Upsert, FeedbackIInv
<1>2. /\ work' = [work EXCEPT ![w] = Idle]
      /\ UNCHANGED <<arrived, table, reviews, decisions, overlapped>>
  BY DEF Upsert
<1>3. CASE work[w].was = None /\ review[a] # None
  <2>1. UNCHANGED <<review, history>>
    BY <1>3 DEF Upsert
  <2>2. QED
    BY <1>2, <2>1, IdleIsWork, NothingInHand DEF FeedbackIInv, FeedbackTypeOK
<1>4. CASE ~(work[w].was = None /\ review[a] # None)
  <2>1. work' \in [Worker -> Task] /\ work'[w] = Idle /\ \A u \in Worker \ {w} : work'[u] = work[u]
    BY <1>2, IdleIsWork, WorkGoesOn DEF FeedbackIInv
  <2>2. review' = [review EXCEPT ![a] = body] /\ history' = [history EXCEPT ![a] = Append(history[a], Logged(w))]
    BY <1>4 DEF Upsert
  <2>3. Logged(w) \in Entry /\ Logged(w).was = work[w].was /\ Logged(w).now = body
    BY <1>1 DEF Logged, Entry
  <2>4. PICK e \in Entry : e = Logged(w) /\ e.was = work[w].was /\ e.now = body
    BY <2>3
  <2>5. /\ review \in [Alert -> Review \cup {None}] /\ history \in [Alert -> Seq(Entry)] /\ history[a] \in Seq(Entry)
    BY <1>1 DEF FeedbackIInv, FeedbackTypeOK
  <2>6. FeedbackTypeOK'
    BY <1>1, <1>2, <2>1, <2>2, <2>4, <2>5 DEF FeedbackIInv, FeedbackTypeOK
  <2>7. /\ review'[a] = body /\ history'[a] = Append(history[a], e)
        /\ \A b \in Alert \ {a} : review'[b] = review[b] /\ history'[b] = history[b]
    BY <1>1, <2>2, <2>4, <2>5
  <2>8. e.was = None <=> history[a] = << >>
    <3>1. e.was # None => review[a] # None
      BY <1>1, <2>4 DEF FeedbackIInv, ReviewStays, Reviewing
    <3>2. QED
      BY <3>1, <1>1, <1>4, <2>4 DEF FeedbackIInv, HistoryTellsReviews
  <2>9. a \notin overlapped => e.was = review[a]
    BY <1>1, <2>4 DEF FeedbackIInv, InHandAlone, Reviewing
  <2>10. HistoryTellsReviews'
    <3> SUFFICES ASSUME NEW b \in Alert
                 PROVE  LET h == history'[b]
                        IN /\ h = << >> <=> review'[b] = None
                           /\ h # << >> => h[1].was = None /\ h[Len(h)].now = review'[b]
                           /\ b \notin overlapped => \A i \in 2..Len(h) : h[i].was = h[i - 1].now
      BY <1>2 DEF HistoryTellsReviews
    <3>1. CASE b # a
      BY <3>1, <2>7 DEF FeedbackIInv, HistoryTellsReviews
    <3>2. CASE b = a
      <4> DEFINE h == history[a]
      <4>1. /\ h = << >> <=> review[a] = None
            /\ h # << >> => h[1].was = None /\ h[Len(h)].now = review[a]
            /\ a \notin overlapped => \A i \in 2..Len(h) : h[i].was = h[i - 1].now
        BY <1>1 DEF FeedbackIInv, HistoryTellsReviews
      <4>2. PICK g \in Seq(Entry) : g = history'[a] /\ g = Append(h, e)
        <5>1. Append(h, e) \in Seq(Entry)
          BY <2>5
        <5>2. QED
          BY <5>1, <2>7
      <4> HIDE DEF h
      <4>3. /\ Len(g) = Len(h) + 1 /\ g[Len(g)] = e /\ \A i \in 1..Len(h) : g[i] = h[i]
            /\ Len(h) \in Nat /\ (h = << >> <=> Len(h) = 0)
        BY <4>2, <2>5 DEF h
      <4>4. g # << >> /\ g[1].was = None /\ g[Len(g)].now = body
        BY <4>1, <4>3, <2>4, <2>8 DEF h
      <4>5. ASSUME a \notin overlapped, NEW i \in 2..Len(g) PROVE g[i].was = g[i - 1].now
        <5>1. CASE i = Len(g)
          BY <5>1, <4>1, <4>3, <4>5, <2>8, <2>9 DEF h
        <5>2. CASE i # Len(g)
          <6>1. i \in 2..Len(h) /\ i \in 1..Len(h) /\ i - 1 \in 1..Len(h)
            BY <5>2, <4>3
          <6>2. QED
            BY <6>1, <4>1, <4>3, <4>5
        <5>3. QED
          BY <5>1, <5>2
      <4>6. QED
        BY <3>2, <1>1, <2>7, <4>2, <4>4, <4>5
    <3>3. QED
      BY <3>1, <3>2
  <2>11. ReviewStays' /\ InHandAlone'
    BY <1>1, <1>2, <2>1, <2>7 DEF FeedbackIInv, ReviewStays, InHandAlone, Reviewing, Idle
  <2>12. RefreshesOpen'
    BY <1>2, <2>1 DEF FeedbackIInv, RefreshesOpen, Idle
  <2>13. QED
    BY <2>6, <2>10, <2>11, <2>12 DEF FeedbackIInv
<1>5. QED
  BY <1>3, <1>4

LEMMA AnalyzeStep == ASSUME FeedbackIInv, NEW w \in Worker, NEW S \in Scopes, Analyze(w, S) PROVE FeedbackIInv'
<1> DEFINE todo == {[key |-> p.key, evidence |-> Dist(p.support)] : p \in Found(Existing(S))}
           next == [pc |-> "select", todo |-> todo]
<1>1. Existing(S) \in SUBSET Alert
  BY FeedbackInputs DEF Existing
<1>2. todo \in SUBSET Candidate
  BY <1>1, CandidatesAreTyped
<1> HIDE DEF todo
<1>3. next \in Task /\ next.pc = "select"
  BY <1>2 DEF Task
<1>4. work' = [work EXCEPT ![w] = next]
  BY DEF Analyze, todo
<1> HIDE DEF next
<1>5. QED
  BY <1>3, <1>4, NothingInHand DEF Analyze, FeedbackIInv, FeedbackTypeOK

LEMMA SelectStep == ASSUME FeedbackIInv, NEW w \in Worker, NEW c \in work[w].todo, Select(w, c) PROVE FeedbackIInv'
<1> DEFINE todo == work[w].todo \ {c}
           row == table[c.key]
<1>1. work[w].pc = "select" /\ todo \in SUBSET Candidate /\ c \in Candidate /\ row \in Suggestion \cup {None}
  BY WorkIsTyped DEF Select, FeedbackIInv, FeedbackTypeOK, Candidate
<1>2. UNCHANGED <<arrived, review, history, table, reviews, decisions, overlapped>>
  BY DEF Select
<1>3. CASE row = None
  <2> DEFINE next == [pc |-> "insert", todo |-> todo, current |-> c, seen |-> None]
  <2>1. next \in Task /\ next.pc = "insert"
    BY <1>1 DEF Task
  <2>2. work' = [work EXCEPT ![w] = next]
    BY <1>3 DEF Select
  <2> HIDE DEF next
  <2>3. QED
    BY <1>2, <2>1, <2>2, NothingInHand DEF FeedbackIInv, FeedbackTypeOK
<1>4. CASE row # None /\ ~Refreshes(row.status)
  <2>1. work' = [work EXCEPT ![w] = Rest(todo)]
    BY <1>4 DEF Select
  <2>2. Rest(todo) \in Task /\ Rest(todo).pc \in {"idle", "select"}
    BY <1>1, RestIsWork
  <2>3. QED
    BY <1>2, <2>1, <2>2, NothingInHand DEF FeedbackIInv, FeedbackTypeOK
<1>5. CASE row # None /\ Refreshes(row.status)
  <2> DEFINE next == [pc |-> "update", todo |-> todo, current |-> c, seen |-> row.status]
  <2>1. row.status \in Status
    BY <1>1, <1>5 DEF Suggestion
  <2>2. next \in Task /\ next.pc = "update" /\ next.current = c /\ next.seen \notin {"REJECTED", "REVERTED"}
    BY <1>1, <1>5, <2>1 DEF Task, Refreshes
  <2>3. work' = [work EXCEPT ![w] = next]
    BY <1>5 DEF Select
  <2> HIDE DEF next
  <2>4. work' \in [Worker -> Task] /\ work'[w] = next /\ \A u \in Worker \ {w} : work'[u] = work[u]
    BY <2>2, <2>3, WorkGoesOn DEF FeedbackIInv
  <2>5. FeedbackTypeOK' /\ HistoryTellsReviews'
    BY <1>2, <2>4 DEF FeedbackIInv, FeedbackTypeOK, HistoryTellsReviews
  <2>6. ReviewStays' /\ InHandAlone'
    BY <1>2, <2>2, <2>4 DEF FeedbackIInv, ReviewStays, InHandAlone, Reviewing
  <2>7. RefreshesOpen'
    BY <1>2, <1>5, <2>2, <2>4 DEF FeedbackIInv, RefreshesOpen
  <2>8. QED
    BY <2>5, <2>6, <2>7 DEF FeedbackIInv
<1>6. QED
  BY <1>3, <1>4, <1>5

LEMMA InsertStep == ASSUME FeedbackIInv, NEW w \in Worker, Insert(w) PROVE FeedbackIInv'
<1> DEFINE c == work[w].current
           new == [status |-> "PROPOSED", evidence |-> c.evidence]
<1>1. c \in Candidate /\ c.key \in Key /\ c.evidence \in Evidence /\ work[w].todo \in SUBSET Candidate
  BY WorkIsTyped DEF Insert, FeedbackIInv, Candidate
<1>2. UNCHANGED <<arrived, review, history, reviews, decisions, overlapped>>
  BY DEF Insert
<1>3. CASE table[c.key] = None
  <2>1. new \in Suggestion /\ new # None
    BY <1>1, NoneAssumption DEF Suggestion, Status
  <2>2. table' = [table EXCEPT ![c.key] = new]
    BY <1>3 DEF Insert
  <2>3. table' \in [Key -> Suggestion \cup {None}] /\ \A k \in Key : table[k] # None => table'[k] # None
    BY <1>1, <2>1, <2>2 DEF FeedbackIInv, FeedbackTypeOK
  <2>4. work' = [work EXCEPT ![w] = Rest(work[w].todo)]
    BY <1>3 DEF Insert
  <2>5. QED
    BY <1>1, <1>2, <2>3, <2>4, RestIsWork, NothingInHand
<1>4. CASE table[c.key] # None
  BY <1>2, <1>4, IdleIsWork, NothingInHand DEF Insert, FeedbackIInv, FeedbackTypeOK
<1>5. QED
  BY <1>3, <1>4

\* The row that is refreshed is there, and keeps its status.
LEMMA UpdatedRow ==
  ASSUME FeedbackIInv, NEW w \in Worker, Update(w)
  PROVE  /\ table' \in [Key -> Suggestion \cup {None}]
         /\ work[w].current.key \in Key /\ table[work[w].current.key] \in Suggestion
         /\ table'[work[w].current.key] \in Suggestion
         /\ table'[work[w].current.key].status = table[work[w].current.key].status
         /\ \A k \in Key \ {work[w].current.key} : table'[k] = table[k]
<1>1. PICK c \in Candidate : c = work[w].current /\ c.key \in Key /\ c.evidence \in Evidence
  BY WorkIsTyped DEF Update, FeedbackIInv, Candidate
<1>2. PICK row \in Suggestion : row = table[c.key]
  BY <1>1 DEF Update, FeedbackIInv, RefreshesOpen, FeedbackTypeOK
<1>3. [row EXCEPT !.evidence = c.evidence] \in Suggestion
  BY <1>1 DEF Suggestion
<1>4. PICK new \in Suggestion : new = [row EXCEPT !.evidence = c.evidence]
  BY <1>3
<1>5. new.status = row.status
  BY <1>4 DEF Suggestion
<1>6. table' = [table EXCEPT ![c.key] = new]
  BY <1>1, <1>2, <1>4 DEF Update
<1>7. QED
  BY <1>1, <1>2, <1>5, <1>6 DEF FeedbackIInv, FeedbackTypeOK

LEMMA UpdateStep == ASSUME FeedbackIInv, NEW w \in Worker, Update(w) PROVE FeedbackIInv'
<1>1. \A k \in Key : table[k] # None => table'[k] # None
  BY UpdatedRow, NoneAssumption
<1>2. Rest(work[w].todo) \in Task /\ Rest(work[w].todo).pc \in {"idle", "select"}
  BY WorkIsTyped, RestIsWork DEF Update, FeedbackIInv
<1>3. QED
  BY <1>1, <1>2, UpdatedRow, NothingInHand DEF Update

\* The row of a decision is there, and keeps its evidence.
LEMMA DecidedRow ==
  ASSUME FeedbackIInv, NEW k \in Key, NEW status \in Status, Decide(k, status)
  PROVE  /\ table' \in [Key -> Suggestion \cup {None}]
         /\ table'[k] \in Suggestion /\ table'[k].status = status /\ table'[k].evidence = table[k].evidence
         /\ \A j \in Key \ {k} : table'[j] = table[j]
<1>1. PICK row \in Suggestion : row = table[k]
  BY DEF Decide, FeedbackIInv, FeedbackTypeOK
<1>2. [row EXCEPT !.status = status] \in Suggestion
  BY DEF Suggestion
<1>3. PICK new \in Suggestion : new = [row EXCEPT !.status = status]
  BY <1>2
<1>4. new.status = status /\ new.evidence = row.evidence
  BY <1>3 DEF Suggestion
<1>5. table' = [table EXCEPT ![k] = new]
  BY <1>1, <1>3 DEF Decide
<1>6. QED
  BY <1>1, <1>4, <1>5 DEF FeedbackIInv, FeedbackTypeOK

\* Rows of the table come and change, and nothing else does.
LEMMA TableGoesOn ==
  ASSUME FeedbackIInv, UNCHANGED <<arrived, review, history, work, reviews, overlapped>>, decisions' = decisions + 1,
         table' \in [Key -> Suggestion \cup {None}], \A k \in Key : table[k] # None => table'[k] # None
  PROVE  FeedbackIInv'
<1>1. FeedbackTypeOK' /\ HistoryTellsReviews'
  BY DEF FeedbackIInv, FeedbackTypeOK, HistoryTellsReviews
<1>2. ReviewStays' /\ InHandAlone'
  BY DEF FeedbackIInv, ReviewStays, InHandAlone, Reviewing
<1>3. \A u \in Worker : work[u].pc = "update" => work[u].current.key \in Key
  BY WorkIsTyped DEF FeedbackIInv, Candidate
<1>4. RefreshesOpen'
  BY <1>3 DEF FeedbackIInv, RefreshesOpen
<1>5. QED
  BY <1>1, <1>2, <1>4 DEF FeedbackIInv

LEMMA DecideStep == ASSUME FeedbackIInv, NEW k \in Key, NEW status \in Status, Decide(k, status) PROVE FeedbackIInv'
<1>1. \A j \in Key : table[j] # None => table'[j] # None
  BY DecidedRow, NoneAssumption
<1>2. QED
  BY <1>1, DecidedRow, TableGoesOn DEF Decide

LEMMA SuggestStep == ASSUME FeedbackIInv, NEW k \in Manual, NEW status \in Status, Suggest(k, status) PROVE FeedbackIInv'
<1> DEFINE new == [status |-> status, evidence |-> Dist({})]
<1>1. k \in Key
  BY ManualInputs
<1>2. new \in Suggestion /\ new # None
  BY DistIsEvidence, NoneAssumption DEF Suggestion
<1>3. table' = [table EXCEPT ![k] = new]
  BY DEF Suggest
<1> HIDE DEF new
<1>4. table' \in [Key -> Suggestion \cup {None}] /\ \A j \in Key : table[j] # None => table'[j] # None
  BY <1>1, <1>2, <1>3 DEF FeedbackIInv, FeedbackTypeOK
<1>5. QED
  BY <1>4, TableGoesOn DEF Suggest

\* A transition ends in a status.
LEMMA LegalIsStatus == \A s \in Status : Legal(s) \subseteq Status
BY DEF Legal, Status

LEMMA FeedbackNextIInv == FeedbackIInv /\ [FeedbackNext]_feedbackVars => FeedbackIInv'
<1> SUFFICES ASSUME FeedbackIInv, [FeedbackNext]_feedbackVars PROVE FeedbackIInv'
  OBVIOUS
<1>1. CASE RecordEvent
  BY <1>1, RecordEventStep
<1>2. ASSUME NEW w \in Worker, NEW a \in Alert, NEW b \in Bodies, LookUp(w, a, b) PROVE FeedbackIInv'
  BY <1>2, LookUpStep
<1>3. ASSUME NEW w \in Worker, Upsert(w) PROVE FeedbackIInv'
  BY <1>3, UpsertStep
<1>4. ASSUME NEW w \in Worker, NEW S \in Scopes, Analyze(w, S) PROVE FeedbackIInv'
  BY <1>4, AnalyzeStep
<1>5. ASSUME NEW w \in Worker, NEW c \in work[w].todo, Select(w, c) PROVE FeedbackIInv'
  BY <1>5, SelectStep
<1>6. ASSUME NEW w \in Worker, Insert(w) \/ Update(w) PROVE FeedbackIInv'
  BY <1>6, InsertStep, UpdateStep
<1>7. ASSUME NEW w \in Worker, GiveUp(w) PROVE FeedbackIInv'
  BY <1>7, IdleIsWork, NothingInHand DEF GiveUp, FeedbackIInv, FeedbackTypeOK
<1>8. ASSUME NEW k \in Key, table[k] # None, NEW s \in Legal(table[k].status), Decide(k, s) PROVE FeedbackIInv'
  <2>1. s \in Status
    BY <1>8, LegalIsStatus DEF FeedbackIInv, FeedbackTypeOK, Suggestion
  <2>2. QED
    BY <1>8, <2>1, DecideStep
<1>9. ASSUME NEW k \in Manual, NEW s \in Status, Suggest(k, s) PROVE FeedbackIInv'
  BY <1>9, SuggestStep
<1>10. CASE UNCHANGED feedbackVars
  BY <1>10 DEF feedbackVars, FeedbackIInv, FeedbackTypeOK, HistoryTellsReviews, ReviewStays, InHandAlone, RefreshesOpen, Reviewing
<1>11. QED
  BY <1>1, <1>2, <1>3, <1>4, <1>5, <1>6, <1>7, <1>8, <1>9, <1>10 DEF FeedbackNext

LEMMA FeedbackSpecIInv == FeedbackSpec => []FeedbackIInv
BY FeedbackInitIInv, FeedbackNextIInv, PTL DEF FeedbackSpec

-----------------------------------------------------------------------------

\* Reviews, histories, suggestions and what is in hand keep their types.
THEOREM FeedbackTypeCorrect == FeedbackSpec => []FeedbackTypeOK
<1>1. FeedbackIInv => FeedbackTypeOK
  BY DEF FeedbackIInv
<1>2. QED
  BY <1>1, FeedbackSpecIInv, PTL

\* The history of an alert ends with its review, begins with none, and has no
\* gap unless two requests had the alert in hand at once.
THEOREM HistoryIsComplete == FeedbackSpec => []HistoryTellsReviews
<1>1. FeedbackIInv => HistoryTellsReviews
  BY DEF FeedbackIInv
<1>2. QED
  BY <1>1, FeedbackSpecIInv, PTL

\* The alerts a scope has are finitely many, and more alerts have more signal.
LEMMA SignalGrows ==
  ASSUME NEW S \in SUBSET Alert, NEW T \in SUBSET S
  PROVE  Signal(Dist(T)) \in Nat /\ Signal(Dist(S)) \in Nat /\ Signal(Dist(T)) <= Signal(Dist(S))
<1>1. ASSUME NEW o \in Outcome
      PROVE  /\ Cardinality(With(T, o)) \in Nat /\ Cardinality(With(S, o)) \in Nat
             /\ Cardinality(With(T, o)) <= Cardinality(With(S, o))
  <2>1. With(S, o) \in SUBSET Alert /\ With(T, o) \in SUBSET With(S, o)
    BY DEF With
  <2>2. IsFiniteSet(With(S, o)) /\ Cardinality(With(S, o)) \in Nat
    BY <2>1, CountsAreNumbers
  <2>3. Cardinality(With(T, o)) \in Nat
    BY <2>1, CountsAreNumbers
  <2>4. QED
    BY <2>1, <2>2, <2>3, FS_Subset
<1>2. QED
  BY <1>1 DEF Signal, Dist, Outcome

\* Every alert that supports a pattern is one that its simulation counts, so a
\* simulation that calls the pattern safe has counted their signal.
LEMMA SupportIsSimulated == SimulationCoversSupport
<1> SUFFICES ASSUME NEW S \in Scopes, NEW p \in Found(Existing(S))
             PROVE  /\ p.support \subseteq Matched(p.key, S)
                    /\ Assessment(p.key, S) = "SAFE_CANDIDATE" =>
                         100 * Signal(Dist(p.support)) <= MaxLoss * Cardinality(Reviewed(Matched(p.key, S)))
  BY DEF SimulationCoversSupport
<1> DEFINE all == Reviewed(Matched(p.key, S))
<1>1. Existing(S) \in SUBSET Alert
  BY FeedbackInputs DEF Existing
<1>2. /\ p.support \subseteq Reviewed(Existing(S))
      /\ \A a \in p.support : Matches(p.key, a)
  BY <1>1, PatternsMatch
<1>3. p.support \subseteq Matched(p.key, S)
  BY <1>2 DEF Matched, Reviewed
<1>4. p.support \in SUBSET all /\ all \in SUBSET Alert
  BY <1>1, <1>2, <1>3 DEF Matched, Reviewed
<1>5. Cardinality(all) \in Nat
  BY <1>4, CountsAreNumbers
<1>6. /\ Signal(Dist(p.support)) \in Nat /\ Signal(Dist(all)) \in Nat
      /\ Signal(Dist(p.support)) <= Signal(Dist(all))
  BY <1>4, SignalGrows
<1>7. ASSUME Assessment(p.key, S) = "SAFE_CANDIDATE" PROVE ~(100 * Signal(Dist(all)) > MaxLoss * Cardinality(all))
  BY <1>7 DEF Assessment
<1>8. QED
  BY <1>3, <1>5, <1>6, <1>7, FeedbackNumbers

THEOREM SimulationsCoverSupport == FeedbackSpec => []SimulationCoversSupport
BY SupportIsSimulated, PTL

\* An analysis proposes and refreshes and never decides: no interleaving of
\* analyses with decisions changes a status but along the legal transitions, or
\* the numbers of a decided suggestion but from a look before the decision.
THEOREM AnalysesNeverDecide == FeedbackSpec => DecisionsStand
<1> DEFINE Stands ==
      \A k \in Key :
        table[k] # None /\ table'[k] # table[k] =>
          /\ table'[k] # None
          /\ \/ /\ table'[k].status \in Legal(table[k].status)
                /\ table'[k].evidence = table[k].evidence
             \/ /\ table'[k].status = table[k].status
                /\ \/ table[k].status \notin {"REJECTED", "REVERTED"}
                   \/ \E w \in Worker :
                        /\ work[w].pc = "update" /\ work[w].current.key = k
                        /\ work[w].seen \notin {"REJECTED", "REVERTED"}
<1>1. FeedbackIInv /\ [FeedbackNext]_feedbackVars => [Stands]_feedbackVars
  <2> SUFFICES ASSUME FeedbackIInv, FeedbackNext PROVE Stands
    OBVIOUS
  <2>1. CASE table' = table
    BY <2>1
  <2>2. ASSUME NEW w \in Worker, Insert(w) PROVE Stands
    <3>1. work[w].current.key \in Key
      BY <2>2, WorkIsTyped DEF Insert, FeedbackIInv, Candidate
    <3>2. CASE table[work[w].current.key] = None
      <4>1. \A k \in Key \ {work[w].current.key} : table'[k] = table[k]
        BY <2>2, <3>1, <3>2 DEF Insert, FeedbackIInv, FeedbackTypeOK
      <4>2. QED
        BY <3>2, <4>1
    <3>3. CASE table[work[w].current.key] # None
      BY <2>2, <3>3 DEF Insert
    <3>4. QED
      BY <3>2, <3>3
  <2>3. ASSUME NEW w \in Worker, Update(w) PROVE Stands
    <3>1. work[w].pc = "update" /\ work[w].seen \notin {"REJECTED", "REVERTED"}
      BY <2>3 DEF Update, FeedbackIInv, RefreshesOpen
    <3>2. QED
      BY <2>3, <3>1, UpdatedRow, NoneAssumption
  <2>4. ASSUME NEW k \in Key, table[k] # None, NEW s \in Legal(table[k].status), Decide(k, s) PROVE Stands
    <3>1. s \in Status
      BY <2>4, LegalIsStatus DEF FeedbackIInv, FeedbackTypeOK, Suggestion
    <3>2. QED
      BY <2>4, <3>1, DecidedRow, NoneAssumption
  <2>5. ASSUME NEW k \in Manual, NEW s \in Status, Suggest(k, s) PROVE Stands
    BY <2>5, ManualInputs DEF Suggest, FeedbackIInv, FeedbackTypeOK
  <2>6. QED
    BY <2>1, <2>2, <2>3, <2>4, <2>5 DEF FeedbackNext, RecordEvent, LookUp, Upsert, Analyze, Select, GiveUp
<1>2. QED
  BY <1>1, FeedbackSpecIInv, PTL DEF FeedbackSpec, DecisionsStand

=============================================================================
