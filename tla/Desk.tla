-------------------------------- MODULE Desk --------------------------------
(***************************************************************************)
(* The editorial desk: the topics an editor manages, the stories that the  *)
(* evidence about them makes (editorial/service.py), and the search for    *)
(* more coverage of a story (discovery/service.py) by the pipeline, the    *)
(* commands and the requests, with the sites it suggests.                  *)
(*                                                                         *)
(* A text is an article: evidence once it is captured, before that what a  *)
(* search may find.  Topics have the ids the table gives them: one more    *)
(* than the greatest in use, so the id of the last one is given out again  *)
(* when it is deleted.                                                     *)
(*                                                                         *)
(* A search writes its run before it asks the provider, and its caller     *)
(* commits after the last story: from the first write to the commit the    *)
(* job has the write lock, and what it writes is in its own view.  What it *)
(* decides before that write it decides on rows others still change.       *)
(***************************************************************************)
EXTENDS Editorial

CONSTANTS
  Words,       \* terms that each text names
  Site,        \* the domain that published each text
  Plain,       \* texts whose headline has fewer than three words of its own
  Seeds,       \* names of the topics that come with the program, in order
  Bodies,      \* what a request says of a topic: name, terms, on, priority
  Captured,    \* texts that come in as evidence
  Job,         \* the jobs that search: Pipeline, and requests or commands
  Pipeline,
  Minimum,     \* minimum_interest_score, in thousandths
  MaxAge, Cooldown, MaxCycles, CyclesPerHour, RequestsPerHour, Cache, Week,
  Hour,        \* an hour, in units of time: 0 when the unit is longer
  MaxTopics, MaxNow, MaxOperator, MaxFaults, \* bounds
  Nil

ASSUME DeskNumbers ==
  /\ {Minimum, MaxAge, Cooldown, MaxCycles, CyclesPerHour, RequestsPerHour, Cache, Hour,
      MaxTopics, MaxNow, MaxOperator, MaxFaults} \subseteq Nat /\ Week \in Nat \ {0}
  /\ Pipeline \in Job /\ Captured \subseteq Text

ASSUME DeskJobs == IsFiniteSet(Job) /\ Nil \notin Job \cup {"blocked"}

VARIABLES
  now,
  topics,      \* the row of each topic id
  evidence,    \* what was captured, in the order of its ids: text and time
  stories,     \* as in Editorial; rating, when each was made and its score
  rating,
  suggestions, \* of a site: status, appearances, stories
  registered,  \* sites that are sources
  settings,    \* enabled, automatic
  runs,        \* the searches made, in the order of their ids
  results,     \* what they found
  job,         \* the search each job is making
  lock,        \* the job with the write lock
  faults, operated

inbox == <<evidence, stories, rating>>
searched == <<suggestions, runs, results>>
limits == <<faults, operated>>
vars == <<now, topics, inbox, searched, registered, settings, job, lock, limits>>

Id == 1..MaxTopics
Domain == {Site[t] : t \in Text} \cup UNION {Cites[t] : t \in Text}
Least(a, b) == IF a < b THEN a ELSE b
Most(S) == CHOOSE k \in S : \A m \in S : m <= k

Idle == [stage |-> "idle", queue |-> {}, automatic |-> FALSE, since |-> 0, story |-> 0, plans |-> {}, view |-> Nil]

Init ==
  /\ now = 0 /\ topics = [i \in Id |-> Nil]
  /\ evidence = <<>> /\ stories = <<>> /\ rating = <<>>
  /\ suggestions = [d \in Domain |-> Nil] /\ registered = {}
  /\ settings = [enabled |-> TRUE, automatic |-> FALSE]
  /\ runs = <<>> /\ results = {}
  /\ job = [j \in Job |-> Idle] /\ lock = Nil
  /\ faults = 0 /\ operated = 0

Operator == operated < MaxOperator /\ operated' = operated + 1 /\ UNCHANGED faults
Fault == faults < MaxFaults /\ faults' = faults + 1 /\ UNCHANGED operated

-----------------------------------------------------------------------------
(* Topics *)

Live(ts) == {i \in Id : ts[i] # Nil}
Enabled(ts) == {i \in Live(ts) : ts[i].on}
Named(ts, t) == {i \in Live(ts) : ts[i].terms \cap Words[t] # {}}
LastId(ts) == Most({0} \cup Live(ts))

\* TopicService.seed: the topics of the program that no row has the name of.
SeedRow(name) == [name |-> name, terms |-> {name}, on |-> TRUE, priority |-> 5]
Seeded(ts) ==
  LET missing == SelectSeq(Seeds, LAMBDA s : \A i \in Live(ts) : ts[i].name # s)
  IN [i \in Id |-> IF i - LastId(ts) \in DOMAIN missing THEN SeedRow(missing[i - LastId(ts)]) ELSE ts[i]]

\* Startup of the web application.
SeedAtStart ==
  /\ Len(Seeds) + LastId(topics) <= MaxTopics /\ lock = Nil
  /\ topics' = Seeded(topics)
  /\ UNCHANGED <<now, inbox, searched, registered, settings, job, lock, limits>>

\* validate_unique
Unclaimed(body, but) == \A i \in Live(topics) \ but : topics[i].terms \cap (body.terms \cup {body.name}) = {}

TopicCreate ==
  /\ Operator /\ lock = Nil /\ LastId(topics) < MaxTopics
  /\ \E body \in Bodies : Unclaimed(body, {}) /\ topics' = [topics EXCEPT ![LastId(topics) + 1] = body]
  /\ UNCHANGED <<now, inbox, searched, registered, settings, job, lock>>

TopicUpdate ==
  /\ Operator /\ lock = Nil
  /\ \E i \in Live(topics), body \in Bodies : Unclaimed(body, {i}) /\ topics' = [topics EXCEPT ![i] = body]
  /\ UNCHANGED <<now, inbox, searched, registered, settings, job, lock>>

\* delete_topic: the matches of stories go with the row.
WithoutTopic(ss, i) == [n \in DOMAIN ss |-> [ss[n] EXCEPT !.topics = @ \ {i}]]

TopicDelete ==
  /\ Operator /\ lock = Nil
  /\ \E i \in Live(topics) :
       /\ topics' = [topics EXCEPT ![i] = Nil]
       /\ stories' = WithoutTopic(stories, i)
  /\ UNCHANGED <<now, evidence, rating, searched, registered, settings, job, lock>>

-----------------------------------------------------------------------------
(* Evidence and stories *)

\* _score, in thousandths, when the story changes.
Score(story, ts) ==
  LET priorities == {0} \cup {ts[i].priority : i \in story.topics}
      age == now - story.latest
  IN Least(1000,
       Least(450, 35 * Most(priorities) + 40 * Least(Cardinality(story.topics), 3))
       + (IF age < Week THEN (250 * (Week - age)) \div Week ELSE 0)
       + Least(150, 50 * (story.coverage - 1)) + 50
       + Least(50, 10 * Cardinality(UNION {Cites[t] : t \in story.evidence})))

\* process_evidence of one piece of evidence.
Processed(desk, piece, ts) ==
  LET Rated(new, n) ==
        [stories |-> new,
         rating |-> [m \in DOMAIN new |->
           IF m # n THEN desk.rating[m]
           ELSE [born |-> IF n \in DOMAIN desk.stories THEN desk.rating[n].born ELSE piece.at,
                 interest |-> Score(new[n], ts)]]]
  IN CHOOSE after \in {IF new = desk.stories THEN desk ELSE Rated(new, StoryOf(new, piece.text)) :
                         new \in {Process(desk.stories, piece.text, Named(ts, piece.text) \cap Enabled(ts), piece.at)}} : TRUE

\* Mutant of Backlog: only evidence that came in since the last story.
BacklogRecent(pieces, ts) ==
  LET f[k \in 0..Len(pieces)] ==
        IF k = 0 THEN [stories |-> stories, rating |-> rating]
        ELSE IF k <= Len(stories) THEN f[k - 1] ELSE Processed(f[k - 1], pieces[k], ts)
  IN f[Len(pieces)]

\* backfill: all of it, in the order of the ids.
Backlog(pieces, ts) ==
  LET f[k \in 0..Len(pieces)] ==
        IF k = 0 THEN [stories |-> stories, rating |-> rating]
        ELSE CHOOSE d \in {Processed(e, pieces[k], ts) : e \in {f[k - 1]}} : TRUE
  IN f[Len(pieces)]

\* _refresh_source_suggestions: the sites that the evidence links to.
WithLeads(pieces) ==
  LET cited == Cited({pieces[k].text : k \in DOMAIN pieces}, registered) IN
  [d \in Domain |-> IF d \in cited /\ suggestions[d] = Nil
                    THEN [status |-> "pending", appearances |-> 0, stories |-> 0] ELSE suggestions[d]]

\* What process_evidence and backfill leave, with the topics it seeds first.
TakeIn(pieces) ==
  /\ \/ \A k \in DOMAIN pieces : StoryOf(stories, pieces[k].text) # 0
     \/ LastId(Seeded(topics)) <= MaxTopics
  /\ LET idle == \A k \in DOMAIN pieces : StoryOf(stories, pieces[k].text) # 0 IN
     \E ts \in {IF idle THEN topics ELSE Seeded(topics)} : \E desk \in {Backlog(pieces, ts)} :
       /\ topics' = ts /\ stories' = desk.stories /\ rating' = desk.rating
       /\ suggestions' = IF idle THEN suggestions ELSE WithLeads(pieces)
  /\ UNCHANGED <<runs, results>>

Capture(t) ==
  /\ t \in Captured /\ \A k \in DOMAIN evidence : evidence[k].text # t
  /\ evidence' = Append(evidence, [text |-> t, at |-> now])

\* _ingest_one of the plugins, and POST /api/evidence
CreateEvidence ==
  /\ lock = Nil
  /\ \E t \in Text : Capture(t) /\ TakeIn(<<[text |-> t, at |-> now]>>)
  /\ UNCHANGED <<now, registered, settings, job, lock, limits>>

\* evidence_add does not process what it stores.
EvidenceCommand ==
  /\ Operator /\ lock = Nil /\ \E t \in Text : Capture(t)
  /\ UNCHANGED <<now, topics, stories, rating, searched, registered, settings, job, lock>>

Backfill ==
  /\ lock = Nil /\ TakeIn(evidence)
  /\ UNCHANGED <<now, evidence, registered, settings, job, lock, limits>>

\* POST /api/editorial/backfill and the command
BackfillRequest ==
  /\ Operator /\ lock = Nil /\ TakeIn(evidence)
  /\ UNCHANGED <<now, evidence, registered, settings, job, lock>>
BackfillCommand == BackfillRequest

\* GET /api/editorial/stories
Inbox(state, topic) ==
  {n \in DOMAIN stories : /\ state = "unseen" => ~stories[n].seen
                          /\ topic # Nil => topic \in stories[n].topics}

SetSeen ==
  /\ Operator /\ lock = Nil
  /\ \E shown \in {Inbox("unseen", i) : i \in Id \cup {Nil}}, seen \in BOOLEAN :
       stories' = [n \in DOMAIN stories |-> IF n \notin shown THEN stories[n]
                     ELSE [stories[n] EXCEPT !.seen = seen, !.fresh = IF seen THEN 0 ELSE @]]
  /\ UNCHANGED <<now, topics, evidence, rating, searched, registered, settings, job, lock>>

-----------------------------------------------------------------------------
(* Targeted discovery *)

NewRun(n, status, requests, since) == [story |-> n, status |-> status, requests |-> requests, started |-> since]

\* Mutant of Counted: a search that failed is free.
CountedDone == {"completed", "partial"}

\* What the hourly budget counts.
Counted == {"completed", "partial", "failed"}

Started(v, since) == {r \in DOMAIN v.runs : v.runs[r].started >= since - Hour}
CyclesUsed(v, since) == Cardinality({r \in Started(v, since) : v.runs[r].status \in Counted})
RequestsUsed(v, since) ==
  LET f[k \in 0..Len(v.runs)] ==
        IF k = 0 THEN 0 ELSE f[k - 1] + (IF k \in Started(v, since) THEN v.runs[k].requests ELSE 0)
  IN f[Len(v.runs)]
Completed(v, n) == {r \in DOMAIN v.runs : v.runs[r].story = n /\ v.runs[r].status \in {"completed", "partial"}}

\* eligibility
Eligible(v, n, since, automatic) ==
  /\ settings.enabled /\ automatic => settings.automatic
  /\ rating[n].interest >= Minimum
  /\ since - rating[n].born <= MaxAge
  /\ stories[n].headline \notin Plain
  /\ Cardinality(Completed(v, n)) < MaxCycles
  /\ \A r \in Completed(v, n) : since >= v.runs[r].started + Cooldown
  /\ CyclesUsed(v, since) < CyclesPerHour
  /\ RequestsUsed(v, since) < RequestsPerHour

\* build_queries: the phrase of the headline, and a topic of the story.
Plans(n) ==
  (IF stories[n].headline \in Plain THEN {} ELSE {<<"phrase", stories[n].headline>>})
  \cup (IF stories[n].topics = {} THEN {} ELSE {<<"topic", CHOOSE i \in stories[n].topics : TRUE>>})

\* GoogleNewsRSSProvider.search
Found(q) ==
  IF q[1] = "phrase" THEN {t \in Text : <<t, q[2]>> \in Alike}
  ELSE IF topics[q[2]] = Nil THEN {} ELSE {t \in Text : topics[q[2]].terms \cap Words[t] # {}}

NewResult(r, n, q, t, accepted, since) ==
  [run |-> r, story |-> n, query |-> q, text |-> t, accepted |-> accepted, seen |-> since]

\* What the results of earlier searches for q still answer.
Cached(v, q, since) == {x.text : x \in {y \in v.results : y.query = q /\ y.seen >= since - Cache}}

Status(v, d) == IF v.suggestions[d] = Nil THEN Nil ELSE v.suggestions[d].status

\* Mutant of Accepts: the list of blocked sites is not asked.
AcceptsBlocked(v, n, t) ==
  /\ \A k \in DOMAIN evidence : evidence[k].text # t
  /\ <<t, stories[n].headline>> \in Alike
  /\ Named(topics, t) \cap stories[n].topics # {}

\* _score_result: not of a blocked site, not evidence already, similar to the
\* headline and about a topic of the story.
Accepts(v, n, t) ==
  /\ Status(v, Site[t]) # "blocked"
  /\ \A k \in DOMAIN evidence : evidence[k].text # t
  /\ <<t, stories[n].headline>> \in Alike
  /\ Named(topics, t) \cap stories[n].topics # {}

\* _suggest_source for the sites of what a run accepted; the new rows are
\* counted, and one more.
Suggested(v, rows) ==
  LET accepted(d) == {x \in rows : x.accepted /\ Site[x.text] = d}
      brought(d) == \E x \in accepted(d) : x.run = Len(v.runs) + 1
  IN [d \in Domain |->
       IF ~brought(d) \/ d \in registered \/ Status(v, d) \in {"blocked", "added"} THEN v.suggestions[d]
       ELSE LET old == IF v.suggestions[d] = Nil THEN [status |-> "pending", appearances |-> 0, stories |-> 0]
                       ELSE v.suggestions[d]
            IN [old EXCEPT !.appearances = Most({@, Cardinality(accepted(d)) + 1}),
                           !.stories = Most({@, Cardinality({x.story : x \in accepted(d)})})]]

\* run_story from its first write on: the queries, answered from the cache or
\* by the provider, which fails for some of them.
Searched(v, n, plans, fails, since) ==
  LET r == Len(v.runs) + 1
      asked == {q \in plans : Cached(v, q, since) = {}}
      answer == [q \in plans |-> IF q \in fails THEN {} ELSE IF q \in asked THEN Found(q) ELSE Cached(v, q, since)]
      first == [t \in UNION {answer[q] : q \in plans} |->
                  IF \E q \in plans : q[1] = "phrase" /\ t \in answer[q]
                  THEN CHOOSE q \in plans : q[1] = "phrase" ELSE CHOOSE q \in plans : q[1] = "topic"]
      rows == {NewResult(r, n, first[t], t, Accepts(v, n, t), since) : t \in DOMAIN first}
      status == IF fails = {} THEN "completed" ELSE IF \E x \in rows : x.accepted THEN "partial" ELSE "failed"
  IN [runs |-> Append(v.runs, NewRun(n, status, Cardinality(asked \ fails), since)),
      results |-> v.results \cup rows,
      suggestions |-> Suggested(v, v.results \cup rows)]

Committed == [runs |-> runs, results |-> results, suggestions |-> suggestions]
View(j) == IF lock = j THEN job[j].view ELSE Committed

\* run_eligible takes the stories by their score (its limit is the hourly
\* budget, which eligibility asks for each), run_story the one asked for.
Best(S) == CHOOSE n \in S : \A m \in S : rating[m].interest < rating[n].interest \/ (rating[m].interest = rating[n].interest /\ n <= m)

Begin(j, queue, automatic) ==
  /\ job[j].stage = "idle" /\ queue # {}
  /\ job' = [job EXCEPT ![j] = [Idle EXCEPT !.stage = "judge", !.queue = queue, !.automatic = automatic, !.since = now]]
  /\ UNCHANGED <<now, topics, inbox, searched, registered, settings, lock>>

\* The stage of the pipeline
RunEligible == Begin(Pipeline, DOMAIN stories, TRUE) /\ UNCHANGED limits

\* discovery run (and backfill), POST /api/editorial/stories/{id}/discover
DiscoverCommand(j) == Operator /\ j # Pipeline /\ Begin(j, DOMAIN stories, FALSE)
DiscoverRequest(j) == Operator /\ j # Pipeline /\ \E n \in DOMAIN stories : Begin(j, {n}, FALSE)

\* What a job knows of a story it judged, and after its search for it.
Judged(q, n, plans) ==
  [q EXCEPT !.queue = @ \ {n}, !.story = n, !.plans = plans, !.stage = IF plans = {} THEN "judge" ELSE "search"]
Answered(q, view) == [q EXCEPT !.stage = "judge", !.view = view]

\* eligibility and build_queries, of the rows as they are.  The run of status
\* skipped that run_story then writes counts for nothing and is left out.
Judge(j) ==
  /\ job[j].stage = "judge" /\ job[j].queue # {}
  /\ LET n == Best(job[j].queue)
         plans == IF Eligible(View(j), n, job[j].since, job[j].automatic) THEN Plans(n) ELSE {}
     IN job' = [job EXCEPT ![j] = Judged(@, n, plans)]
  /\ UNCHANGED <<now, topics, inbox, searched, registered, settings, lock, limits>>

Search(j) ==
  /\ job[j].stage = "search" /\ lock \in {Nil, j}
  /\ \E fails \in SUBSET job[j].plans :
       LET q == job[j] IN
       /\ \A p \in fails : Cached(View(j), p, q.since) = {}
       /\ IF fails = {} THEN UNCHANGED limits ELSE Fault
       /\ \E view \in {Searched(View(j), q.story, q.plans, fails, q.since)} :
            job' = [job EXCEPT ![j] = Answered(@, view)]
  /\ lock' = j
  /\ UNCHANGED <<now, topics, inbox, searched, registered, settings>>

Commit(j) ==
  /\ job[j].stage = "judge" /\ job[j].queue = {}
  /\ IF lock = j THEN /\ runs' = job[j].view.runs /\ results' = job[j].view.results
                      /\ suggestions' = job[j].view.suggestions
     ELSE UNCHANGED searched
  /\ lock' = IF lock = j THEN Nil ELSE lock
  /\ job' = [job EXCEPT ![j] = Idle]
  /\ UNCHANGED <<now, topics, inbox, registered, settings, limits>>

\* The process ends, or the stage raises and is rolled back.
Abort(j) ==
  /\ job[j].stage # "idle" /\ Fault
  /\ lock' = IF lock = j THEN Nil ELSE lock
  /\ job' = [job EXCEPT ![j] = Idle]
  /\ UNCHANGED <<now, topics, inbox, searched, registered, settings>>

SettingsUpdate ==
  /\ Operator /\ lock = Nil
  /\ settings' \in [enabled : BOOLEAN, automatic : BOOLEAN] \ {settings}
  /\ UNCHANGED <<now, topics, inbox, searched, registered, job, lock>>

SetStatus(d, status) ==
  suggestions' = [suggestions EXCEPT ![d] =
    IF @ = Nil THEN [status |-> status, appearances |-> 0, stories |-> 0] ELSE [@ EXCEPT !.status = status]]

\* POST /api/discovery/block-domain
BlockDomain ==
  /\ Operator /\ lock = Nil /\ \E d \in Domain : SetStatus(d, "blocked")
  /\ UNCHANGED <<now, topics, inbox, runs, results, registered, settings, job, lock>>

\* POST /api/discovery/results/{id}/promote
PromoteResult ==
  /\ Operator /\ lock = Nil
  /\ \E x \in results : Status(Committed, Site[x.text]) # "blocked" /\ SetStatus(Site[x.text], "pending")
  /\ UNCHANGED <<now, topics, inbox, runs, results, registered, settings, job, lock>>

\* POST /api/source-suggestions/{id}/add
AddSuggestedSource ==
  /\ Operator /\ lock = Nil
  /\ \E d \in Domain \ registered :
       suggestions[d] # Nil /\ SetStatus(d, "added") /\ registered' = registered \cup {d}
  /\ UNCHANGED <<now, topics, inbox, runs, results, settings, job, lock>>

Tick ==
  /\ now < MaxNow /\ now' = now + 1
  /\ UNCHANGED <<topics, inbox, searched, registered, settings, job, lock, limits>>

-----------------------------------------------------------------------------
Work(j) == Judge(j) \/ Search(j) \/ Commit(j)

Request ==
  \/ TopicCreate \/ TopicUpdate \/ TopicDelete \/ EvidenceCommand
  \/ BackfillRequest \/ BackfillCommand \/ SetSeen
  \/ SettingsUpdate \/ BlockDomain \/ PromoteResult \/ AddSuggestedSource
  \/ \E j \in Job : DiscoverCommand(j) \/ DiscoverRequest(j)

Next ==
  \/ Tick \/ SeedAtStart \/ CreateEvidence \/ Backfill \/ RunEligible \/ Request
  \/ \E j \in Job : Work(j) \/ Abort(j)

Spec == Init /\ [][Next]_vars
FairSpec == Spec /\ SF_vars(Backfill) /\ \A j \in Job : WF_vars(Work(j))

-----------------------------------------------------------------------------
(* Properties *)

\* The types: topics that stories match have ids of the table, a run is of a
\* story, and the job with the lock is one that searches.
TypeOK ==
  /\ now \in 0..MaxNow
  /\ \A i \in Live(topics) : topics[i].on \in BOOLEAN
  /\ \A k \in DOMAIN evidence : evidence[k].text \in Text /\ evidence[k].at \in 0..now
  /\ DOMAIN rating = DOMAIN stories
  /\ \A n \in DOMAIN stories : stories[n].evidence \subseteq Text /\ stories[n].topics \subseteq Id
  /\ \A d \in Domain : Status(Committed, d) \in {Nil, "pending", "added", "ignored", "blocked"}
  /\ registered \subseteq Domain
  /\ settings \in [enabled : BOOLEAN, automatic : BOOLEAN]
  /\ \A r \in DOMAIN runs : runs[r].story \in DOMAIN stories /\ runs[r].status \in Counted
  /\ \A x \in results : x.run \in DOMAIN runs /\ x.text \in Text
  /\ \A j \in Job : job[j].stage \in {"idle", "judge", "search"} /\ job[j].queue \subseteq DOMAIN stories
  /\ lock \in Job \cup {Nil}
  /\ faults \in 0..MaxFaults /\ operated \in 0..MaxOperator

\* "bounded targeted discovery": the searches started within an hour exceed
\* the hourly budget by no more than one for every other job that judged a
\* story before it; the cycles of a story exceed their number likewise.
BudgetHolds ==
  /\ Cardinality(Started(Committed, now)) <= CyclesPerHour + Cardinality(Job) - 1
  /\ \A n \in DOMAIN stories : Cardinality(Completed(Committed, n)) <= MaxCycles + Cardinality(Job) - 1

\* A search accepts nothing of a site that is blocked when it commits, and
\* takes no decision about a site back.
BlockedStaysOut ==
  [][\A d \in Domain :
       /\ Status(Committed, d) = "blocked" /\ operated' = operated => Status(Committed, d)' = "blocked"
       /\ Status(Committed, d) = "blocked" => \A x \in results' \ results : Site[x.text] = d => ~x.accepted]_vars

\* A story is matched with topics that are there.
MatchesAreLive == \A n \in DOMAIN stories : stories[n].topics \subseteq Live(topics)

\* "Also processes evidence that predates the editorial inbox": evidence that
\* names a topic which stays enabled comes into a story, also when the topic
\* is newer than the evidence.
Untold(k) == k \in DOMAIN evidence /\ StoryOf(stories, evidence[k].text) = 0
              /\ Named(topics, evidence[k].text) \cap Enabled(topics) # {}
EvidenceReachesInbox == \A k \in 1..Cardinality(Captured) : Untold(k) ~> ~Untold(k)

\* "topics are ordinary editable database rows: add, edit, disable, or
\* delete": a topic that was deleted or renamed comes back only by a request.
\* Does not hold: evidence of no story seeds the topics of the program again.
TopicsAreTheEditors ==
  [][\A i \in Id : topics[i] # topics'[i] => operated' # operated \/ evidence = <<>>]_vars
=============================================================================
