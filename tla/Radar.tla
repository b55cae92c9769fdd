-------------------------------- MODULE Radar -------------------------------
(***************************************************************************)
(* The candidates of the signal radar: collected items are analysed        *)
(* (signals/analysis.py), clustered (clustering.py) into candidates whose  *)
(* items are grouped by independence (independence.py), scored             *)
(* (scoring.py), put away, reviewed (candidate_qc.py) or promoted into     *)
(* stories (promotion.py) by the operator or by the automatic stage, and   *)
(* mined for sources to suggest (suggestions.py, source_discovery.py).     *)
(*                                                                         *)
(* Three jobs read rows and write them later, while the operator works:    *)
(* the clustering run, which looks a candidate up and attaches to it; the  *)
(* automatic promotion, which loads all active candidates and promotes     *)
(* them one by one, a commit (and a network search) each; and a review,    *)
(* which looks for an earlier verdict before it writes.  Every other       *)
(* request is one step.  The promotion runs in the pipeline job, in the    *)
(* pipeline commands and in a command of its own, without a lease: several *)
(* may be at it at once.                                                   *)
(*                                                                         *)
(* A candidate is named by the item that seeded it, which determines its   *)
(* fingerprint.  now counts hours: one unit is the window of the budget.   *)
(***************************************************************************)
EXTENDS Editorial

CONSTANTS
  Items,       \* how many signal items are collected, numbered in that order
  Trait,       \* of each: author, url, parent, credits, artifact, text, names
  Name,        \* sources that may be suggested
  Kind,        \* of each: "domain", "subreddit", "github" or "handle"
  Topic,       \* monitored topics; all are enabled
  About,       \* topics that each text names
  Broad,       \* the umbrella topics, which attach nothing by themselves
  Imported,    \* the texts that the plugins may bring as well
  Promoter,    \* the jobs and commands that run the automatic promotion
  Reviewer,    \* requests that review a candidate
  Verdict,     \* dispositions of a review
  MinMentions, \* mentions before a source is suggested
  MaxScore, Threshold,  \* scores are 0..MaxScore; the minimum to promote
  AttachAge,   \* hours after which a candidate takes no more items
  StaleAge,    \* hours after which it turns stale
  CurrentAge,  \* hours a candidate is listed as current
  MaxAge,      \* hours after its first item it may still be promoted
  Budget,      \* hourly_promotion_budget
  Nil, None,   \* no value (0 for an item); -1, a time that is not set
  MaxNow, MaxOperator  \* bounds: hours, requests of the operator and imports

Item == 1..Items

ASSUME ItemAssumption ==
  \A i \in Item : /\ Trait[i].text \in Text /\ Trait[i].names \subseteq Name
                  /\ Trait[i].parent \in 0..i - 1
ASSUME PromoterAssumption == IsFiniteSet(Promoter)
ASSUME TopicAssumption == About \in [Text -> SUBSET Topic]
ASSUME RadarNumbers ==
  /\ {Items, MinMentions, MaxScore, Threshold, AttachAge, StaleAge, CurrentAge, MaxAge, Budget, MaxNow, MaxOperator}
       \subseteq Nat
  /\ None = -1

VARIABLES
  items,      \* processing_state of each item, "none" before it is collected
  posted,     \* posted_at
  candidate,  \* the candidates
  evidence,   \* the contents of evidence, with the item each originates from
  stories,    \* the editorial stories
  events,     \* the audit trail of promotions
  clustering, \* the clustering run: what it found
  automatic,  \* the automatic promotion: whether it is enabled, its runs, and
              \* (history) the most of them there were at once in each hour
  reviews,    \* verdict on each candidate
  reviewing,  \* what each review request has read
  suggestion, \* the suggested sources
  registry,   \* those registered as sources
  reputation, \* reputation of each source, by author
  now,
  operated    \* requests of the operator and imports so far

signals == <<items, posted, candidate, clustering>>
editor == <<evidence, stories, events>>
sources == <<suggestion, registry, reputation>>
review == <<reviews, reviewing>>
vars == <<signals, editor, automatic, sources, review, now, operated>>

Author == {Trait[i].author : i \in Item}
States == {"none", "active", "stale", "dismissed", "snoozed", "promoted"}

Candidate ==
  [state : States, members : SUBSET Item, first : Int, latest : Int,
   seen : Int, until : Int, score : 0..MaxScore, story : Nat]

NoCandidate ==
  [state |-> "none", members |-> {}, first |-> 0, latest |-> 0,
   seen |-> None, until |-> None, score |-> 0, story |-> 0]

Suggestion ==
  [status : {"none", "pending", "added", "ignored", "blocked"}, appearances : Nat, feed : BOOLEAN]

NoReputation == [accepted |-> 0, rejected |-> 0, originated |-> 0, override |-> Nil]

\* The automatic promotion is off, or an operator had enabled it.
Init ==
  /\ items = [i \in Item |-> "none"] /\ posted = [i \in Item |-> 0]
  /\ candidate = [c \in Item |-> NoCandidate]
  /\ evidence = [t \in {} |-> Nil] /\ stories = <<>> /\ events = <<>>
  /\ clustering = Nil
  /\ automatic \in {[on |-> on, runs |-> [p \in Promoter |-> Nil],
                      most |-> [hour \in 0..MaxNow |-> 0]] : on \in BOOLEAN}
  /\ reviews = [c \in Item |-> Nil] /\ reviewing = [r \in Reviewer |-> Nil]
  /\ suggestion = [n \in Name |-> [status |-> "none", appearances |-> 0, feed |-> FALSE]]
  /\ registry = {} /\ reputation = [a \in Author |-> NoReputation]
  /\ now = 0 /\ operated = 0

Operator == operated < MaxOperator /\ operated' = operated + 1
Max2(a, b) == IF a >= b THEN a ELSE b

-----------------------------------------------------------------------------
(* Items and their analysis *)

\* An item is collected (module Collection), or imported.
Arrive(i) ==
  /\ items[i] = "none" /\ \A j \in 1..i - 1 : items[j] # "none"
  /\ items' = [items EXCEPT ![i] = "pending"]
  /\ posted' = [posted EXCEPT ![i] = now]
  /\ UNCHANGED <<candidate, clustering, editor, automatic, sources, review, now, operated>>

\* analyze_unprocessed
Analyze ==
  /\ \E i \in Item : items[i] = "pending"
  /\ items' = [i \in Item |-> IF items[i] = "pending" THEN "processed" ELSE items[i]]
  /\ UNCHANGED <<posted, candidate, clustering, editor, automatic, sources, review, now, operated>>

\* What analysis finds in an item: the topics its text names, and an
\* artifact (a pci id, a benchmark) among its mentions.
TopicsOf(S) == UNION {About[Trait[i].text] : i \in S}
Artifact(i) == Trait[i].artifact

Members == UNION {candidate[c].members : c \in Item}

-----------------------------------------------------------------------------
(* Independence *)

\* What group_items unites: url, author, lineage, attribution.
Linked(i, j) ==
  LET a == Trait[i] b == Trait[j]
  IN \/ i = j \/ a.url = b.url \/ a.author = b.author
     \/ a.parent = j \/ b.parent = i
     \/ b.author \in a.credits \/ a.author \in b.credits

\* The union-find: the least set around an item that Linked does not leave.
GroupOf(i, S) ==
  {j \in S : \A X \in SUBSET S :
     (i \in X /\ \A m \in X, n \in S : Linked(m, n) => n \in X) => j \in X}

\* recompute_independence_groups, for every set of members at once (a set of
\* pairs, which TLC computes once).
Grouping == {<<S, {GroupOf(i, S) : i \in S}>> : S \in SUBSET Item}
Groups(S) == (CHOOSE g \in Grouping : g[1] = S)[2]

\* The origin of a group: its earliest item.
Origin(G) == CHOOSE i \in G : \A j \in G : i <= j

-----------------------------------------------------------------------------
(* Clustering *)

\* Mutant of ATTACHABLE_STATES: evidence joins what was put away.
AttachableAll == States \ {"none"}

ATTACHABLE_STATES == {"active", "stale"}

\* _lineage_parent_candidate
LineageParent(i) ==
  {c \in Item : Trait[i].parent \in candidate[c].members /\ candidate[c].state \in ATTACHABLE_STATES}

\* _is_candidate_worthy
Worthy(i) ==
  TopicsOf({i}) # {} \/ Artifact(i) # Nil \/ LineageParent(i) # {}

\* _score_attachment reaches ATTACH_THRESHOLD: a specific topic or an artifact.
Reaches(i, c) ==
  \/ (TopicsOf({i}) \cap TopicsOf(candidate[c].members)) \ Broad # {}
  \/ Artifact(i) # Nil /\ \E j \in candidate[c].members : Artifact(j) = Artifact(i)

\* _find_best_candidate, among those that tie.
Best(i) ==
  {c \in Item : /\ candidate[c].state \in ATTACHABLE_STATES
                /\ TopicsOf({i}) = {} \/ TopicsOf({i}) \cap TopicsOf(candidate[c].members) # {}
                /\ candidate[c].latest >= posted[i] - AttachAge
                /\ Reaches(i, c)}

\* cluster_unclustered_items up to the first write: the earliest processed
\* item of no candidate, and the candidate it belongs to.
ClusterFind(i) ==
  /\ clustering = Nil
  /\ items[i] = "processed" /\ i \notin Members /\ Worthy(i)
  /\ \A j \in 1..i - 1 : items[j] = "processed" /\ Worthy(j) => j \in Members
  /\ \E c \in IF LineageParent(i) # {} THEN LineageParent(i)
              ELSE IF Best(i) # {} THEN Best(i) ELSE {0} :
       clustering' = [item |-> i, target |-> c, row |-> IF c = 0 THEN NoCandidate ELSE candidate[c]]
  /\ UNCHANGED <<items, posted, candidate, editor, automatic, sources, review, now, operated>>

\* Mutant of Attached: any new item resurfaces a candidate that was seen.
AttachedLoud(row, loaded, i) ==
  [row EXCEPT !.state = IF loaded.state = "stale" THEN "active" ELSE @,
              !.members = @ \cup {i},
              !.latest = Max2(@, posted[i]),
              !.seen = None]

\* _attach: a stale candidate wakes up, one that was seen resurfaces if the
\* item is a group of its own.  State and seen_at are those loaded before.
Attached(row, loaded, i) ==
  [row EXCEPT !.state = IF loaded.state = "stale" THEN "active" ELSE @,
              !.members = @ \cup {i},
              !.latest = Max2(@, posted[i]),
              !.seen = IF loaded.seen # None /\ {i} \in Groups(row.members \cup {i})
                       THEN None ELSE @]

\* _create_candidate
Created(i) ==
  Attached([NoCandidate EXCEPT !.state = "active", !.first = posted[i], !.latest = posted[i]],
           NoCandidate, i)

ClusterWrite ==
  LET f == clustering IN
  /\ f # Nil
  /\ candidate' = IF f.target = 0 THEN [candidate EXCEPT ![f.item] = Created(f.item)]
                  ELSE [candidate EXCEPT ![f.target] = Attached(@, f.row, f.item)]
  /\ clustering' = Nil
  /\ UNCHANGED <<items, posted, editor, automatic, sources, review, now, operated>>

-----------------------------------------------------------------------------
(* Scores and the passage of time *)

\* compute_attention_score, every weight and penalty being one.
Score(row) ==
  LET n == Cardinality(Groups(row.members))
      raw == (IF TopicsOf(row.members) # {} THEN 1 ELSE 0)
             + (IF n >= 2 THEN 2 ELSE 1)                                     \* diversity
             + (IF \E i \in row.members : Artifact(i) # Nil THEN 1 ELSE 0)
             - (IF Cardinality(row.members) >= 3 /\ n = 1 THEN 1 ELSE 0)     \* syndication
             - (IF now - row.latest > StaleAge THEN 1 ELSE 0)
             - (IF row.seen # None /\ row.latest <= row.seen THEN 1 ELSE 0)
  IN IF raw < 0 THEN 0 ELSE IF raw > MaxScore THEN MaxScore ELSE raw

\* rescore_active_candidates
Rescore ==
  /\ candidate' = [c \in Item |-> IF candidate[c].state = "active"
                                  THEN [candidate[c] EXCEPT !.score = Score(candidate[c])]
                                  ELSE candidate[c]]
  /\ UNCHANGED <<items, posted, clustering, editor, automatic, sources, review, now, operated>>

\* wake_snoozed and mark_stale_candidates, one stage of the pipeline.
Maintain ==
  LET woken(row) == IF row.state = "snoozed" /\ row.until <= now
                    THEN [row EXCEPT !.state = "active", !.until = None] ELSE row
      aged(row) == IF row.state = "active" /\ now - row.latest > StaleAge
                   THEN [row EXCEPT !.state = "stale"] ELSE row
  IN /\ candidate' = [c \in Item |-> aged(woken(candidate[c]))]
     /\ UNCHANGED <<items, posted, clustering, editor, automatic, sources, review, now, operated>>

\* The promotions that are under way.
Running == {p \in Promoter : automatic.runs[p] # Nil}

Tick ==
  /\ now < MaxNow /\ now' = now + 1
  /\ automatic' = [automatic EXCEPT !.most[now + 1] = Cardinality(Running)]
  /\ UNCHANGED <<signals, editor, sources, review, operated>>

-----------------------------------------------------------------------------
(* Promotion *)

\* evidence_for_signal_item: by content; evidence that came another way takes
\* the item as its origin.
WithEvidence(ev, S) ==
  LET texts == {Trait[i].text : i \in S}
      origin(t) == CHOOSE i \in S : Trait[i].text = t
  IN [t \in DOMAIN ev \cup texts |->
        IF t \in DOMAIN ev /\ (ev[t] # Nil \/ t \notin texts) THEN ev[t] ELSE origin(t)]

First(S) == Origin(S)

\* What promote_candidate does to the stories; story is the one the operator
\* chose to merge into, or 0.
Told(c, story) ==
  LET S == candidate[c].members
      t == Trait[First(S)].text
      p == Process(stories, t, About[t], now)
      started == IF story # 0 THEN stories
                 ELSE IF StoryOf(p, t) # 0 THEN p
                 ELSE Append(p, NewStory(t, {}, now))
      n == IF story # 0 THEN story ELSE StoryOf(started, t)
      told == Attach(started, n, {Trait[i].text : i \in S}, now)
  IN [stories |-> [told EXCEPT ![n].topics = @ \cup TopicsOf(S)], story |-> n]

\* _refresh_source_suggestions of the editorial service: never the status of
\* a suggestion there is.
Mined(processed) ==
  [n \in Name |->
     IF Kind[n] = "domain" /\ n \in Cited(processed, registry)
     THEN [suggestion[n] EXCEPT !.status = IF @ = "none" THEN "pending" ELSE @,
                                !.appearances = Max2(@, 1)]
     ELSE suggestion[n]]

\* promote_candidate and merge_candidate_into_story up to their commit, with
\* the row as it was loaded.
PromoteLoaded(c, row, story, auto) ==
  IF row.story # 0 THEN UNCHANGED <<candidate, editor, suggestion>>
  ELSE LET told == Told(c, story)
           first == Trait[First(candidate[c].members)].text
       IN /\ evidence' = WithEvidence(evidence, candidate[c].members)
          /\ stories' = told.stories
          /\ candidate' = [candidate EXCEPT ![c].state = "promoted", ![c].story = told.story]
          /\ events' = Append(events, [candidate |-> c, story |-> told.story,
                                       automatic |-> auto, at |-> now])
          /\ suggestion' = IF story # 0 \/ StoryOf(stories, first) # 0 THEN suggestion
                           ELSE Mined({first})

\* radar_candidate_promote_route: whatever the state of the candidate.
Promote(c, story) ==
  /\ Operator
  /\ candidate[c].state # "none" /\ story \in 0..Len(stories)
  /\ PromoteLoaded(c, candidate[c], story, FALSE)
  /\ UNCHANGED <<items, posted, clustering, automatic, registry, reputation, review, now>>

PromotionsInLastHour == Cardinality({e \in DOMAIN events : events[e].automatic /\ events[e].at >= now})

\* Mutant of BudgetRemaining: every run has the whole budget.
BudgetEach == Budget

BudgetRemaining == Max2(Budget - PromotionsInLastHour, 0)

\* run_automatic_promotion: settings, budget and all active candidates are
\* read at the start.
AutoBegin(p) ==
  /\ automatic.on /\ automatic.runs[p] = Nil /\ BudgetRemaining > 0
  /\ LET active == {c \in Item : candidate[c].state = "active"} IN
       /\ active # {}
       /\ automatic' = [automatic EXCEPT
            !.runs[p] = [left |-> BudgetRemaining, rows |-> [c \in active |-> candidate[c]]],
            !.most[now] = Max2(@, Cardinality(Running) + 1)]
  /\ UNCHANGED <<signals, editor, sources, review, now, operated>>

\* check_automatic_eligibility; the authority of the sources is in Alerts.
Eligible(row) ==
  /\ row.state = "active" /\ row.score >= Threshold
  /\ TopicsOf(row.members) # {}
  /\ now - row.first <= MaxAge

\* Its loop visits the candidates by score, until the budget is spent.
AutoVisit(p) ==
  LET run == automatic.runs[p] IN
  /\ run # Nil
  /\ \E c \in DOMAIN run.rows :
       /\ \A d \in DOMAIN run.rows : run.rows[c].score >= run.rows[d].score
       /\ LET promotes == Eligible(run.rows[c])
              left == IF promotes THEN run.left - 1 ELSE run.left
              rest == DOMAIN run.rows \ {c}
          IN /\ IF promotes THEN PromoteLoaded(c, run.rows[c], 0, TRUE)
                ELSE UNCHANGED <<candidate, editor, suggestion>>
             /\ automatic' = [automatic EXCEPT !.runs[p] =
                  IF rest = {} \/ left = 0 THEN Nil
                  ELSE [left |-> left, rows |-> [d \in rest |-> run.rows[d]]]]
  /\ UNCHANGED <<items, posted, clustering, registry, reputation, review, now, operated>>

\* The process dies between two promotions.
AutoCrash(p) ==
  /\ automatic.runs[p] # Nil
  /\ automatic' = [automatic EXCEPT !.runs[p] = Nil]
  /\ UNCHANGED <<signals, editor, sources, review, now, operated>>

-----------------------------------------------------------------------------
(* The operator and the candidates *)

\* Mutant of Current: the latest copy counts as activity.
CurrentByCopy(c) ==
  \E G \in Groups(candidate[c].members) : \E i \in G : now - posted[i] <= CurrentAge

\* CandidateAgingService: the activity of a group is its earliest report.
Current(c) ==
  \E G \in Groups(candidate[c].members) : now - posted[Origin(G)] <= CurrentAge

\* What GET /api/radar/candidates lists for a state ("unseen", "all" or one)
\* and an age.
Listed(state, age) ==
  {c \in Item :
     /\ CASE state = "all" -> candidate[c].state # "none"
           [] state = "unseen" -> candidate[c].state = "active" /\ candidate[c].seen = None
           [] OTHER -> candidate[c].state = state
     /\ CASE age = "all" -> TRUE [] age = "current" -> Current(c) [] OTHER -> ~Current(c)}

\* _base_unreviewed_query: the review queue.
ReviewQueue == {c \in Listed("active", "all") : reviews[c] = Nil}

Put(c, row) ==
  /\ Operator
  /\ candidate' = [candidate EXCEPT ![c] = row]
  /\ UNCHANGED <<items, posted, clustering, editor, automatic, sources, review, now>>

\* radar_candidates_seen
Seen(c) ==
  /\ c \in Listed("all", "all")
  /\ Put(c, [candidate[c] EXCEPT !.seen = IF @ = None THEN now ELSE None])

\* dismiss
Dismiss(c) == c \in Listed("all", "all") /\ Put(c, [candidate[c] EXCEPT !.state = "dismissed"])

\* restore, which asks for no state.
Restore(c) ==
  /\ c \in Listed("all", "all")
  /\ Put(c, [candidate[c] EXCEPT !.state = "active", !.until = None])

\* snooze
Snooze(c) ==
  /\ c \in Listed("all", "all")
  /\ Put(c, [candidate[c] EXCEPT !.state = "snoozed", !.until = now + 1])

\* The commands of the radar that do the same: candidate-seen,
\* candidate-dismiss.
SeenCommand(c) == Seen(c)
DismissCommand(c) == Dismiss(c)

\* radar_item_to_evidence, and radar_candidate_create_claim for the evidence
\* it makes.
ItemToEvidence(i) ==
  /\ Operator /\ items[i] # "none"
  /\ evidence' = WithEvidence(evidence, {i})
  /\ UNCHANGED <<signals, stories, events, automatic, sources, review, now>>

\* Evidence of the same content comes through the plugins, without an origin
\* (counted with the requests of the operator, which bounds it).
Ingest(t) ==
  /\ Operator /\ t \in Imported \ DOMAIN evidence
  /\ evidence' = [u \in DOMAIN evidence \cup {t} |-> IF u = t THEN Nil ELSE evidence[u]]
  /\ UNCHANGED <<signals, stories, events, automatic, sources, review, now>>

\* EditorialDiscoveryService.backfill, for one piece of evidence.
Backfill(t) ==
  /\ t \in DOMAIN evidence /\ StoryOf(stories, t) = 0
  /\ stories' = Process(stories, t, About[t], now)
  /\ suggestion' = Mined({t})
  /\ UNCHANGED <<signals, evidence, events, automatic, registry, reputation, review, now, operated>>

\* radar_settings_update, for the automatic promotion.
SettingsUpdate ==
  /\ Operator
  /\ automatic' = [automatic EXCEPT !.on = ~@]
  /\ UNCHANGED <<signals, editor, sources, review, now>>

-----------------------------------------------------------------------------
(* Reviews *)

\* submit_candidate_review looks for an earlier verdict.
ReviewRead(r, c) ==
  /\ Operator /\ reviewing[r] = Nil
  /\ c \in ReviewQueue \/ reviews[c] # Nil
  /\ \E v \in Verdict : reviewing' = [reviewing EXCEPT ![r] = [candidate |-> c, verdict |-> v, found |-> reviews[c]]]
  /\ UNCHANGED <<signals, editor, automatic, sources, reviews, now>>

\* A verdict on file is corrected, what it was goes into its history.
Corrected(found, v) ==
  IF found.verdict = v THEN found
  ELSE [verdict |-> v, history |-> Append(found.history, found.verdict), corrected |-> TRUE]

\* The row is unique: of two first verdicts the later finds the insert
\* refused, reads again and corrects.
ReviewWrite(r) ==
  LET w == reviewing[r] IN
  /\ w # Nil
  /\ reviews' = [reviews EXCEPT ![w.candidate] =
       IF w.found # Nil THEN Corrected(w.found, w.verdict)
       ELSE IF @ # Nil THEN Corrected(@, w.verdict)
       ELSE [verdict |-> w.verdict, history |-> <<>>, corrected |-> FALSE]]
  /\ reviewing' = [reviewing EXCEPT ![r] = Nil]
  /\ UNCHANGED <<signals, editor, automatic, sources, now, operated>>

-----------------------------------------------------------------------------
(* Suggested sources *)

Mentions(n) == Cardinality({i \in Item : items[i] # "none" /\ n \in Trait[i].names})

\* _upsert_domain_suggestion and the like in the other generators.
Upserted(row, count, feed) ==
  [status |-> IF row.status = "none" THEN "pending" ELSE row.status,
   appearances |-> count, feed |-> row.feed \/ feed]

\* What a generator finds: sources mentioned often enough, except domains and
\* names that are registered.
Found(kind) ==
  {n \in Name : /\ Kind[n] = kind /\ Mentions(n) >= MinMentions
                /\ kind \in {"domain", "handle"} => n \notin registry}

\* discover_domain_candidates, discover_subreddit_candidates,
\* discover_github_candidates, refresh_handle_suggestions: the last two
\* platforms try the feed of a new suggestion.
Scanned(kinds, valid) ==
  [n \in Name |->
     IF \E k \in kinds : n \in Found(k)
     THEN Upserted(suggestion[n], Mentions(n),
                   Kind[n] \in {"subreddit", "github"} /\ suggestion[n].status = "none" /\ n \in valid)
     ELSE suggestion[n]]

Scan(kinds) ==
  /\ \E valid \in SUBSET {n \in Name : Kind[n] \in {"subreddit", "github"} \cap kinds} :
       suggestion' = Scanned(kinds, valid)
  /\ UNCHANGED <<signals, editor, automatic, registry, reputation, review, now>>

\* The stage of the pipeline.
RefreshHandles == Scan({"handle"}) /\ UNCHANGED operated

\* run_source_discovery: a commit per generator, one that fails undoes only
\* itself.
RunSourceDiscovery ==
  /\ Operator
  /\ \E failed \in SUBSET {Kind[n] : n \in Name} : Scan({Kind[n] : n \in Name} \ failed)

\* review_source_suggestion and radar_source_suggestion_review: any decision
\* on any suggestion.
Decide(n, status) ==
  /\ Operator /\ suggestion[n].status # "none"
  /\ suggestion' = [suggestion EXCEPT ![n].status = status]
  /\ registry' = registry
  /\ UNCHANGED <<signals, editor, automatic, reputation, review, now>>

\* accept_source_suggestion, add_suggested_source: the source is registered
\* once.
Accept(n) ==
  /\ Operator /\ suggestion[n].status # "none"
  /\ suggestion' = [suggestion EXCEPT ![n].status = "added"]
  /\ registry' = registry \cup {n}
  /\ UNCHANGED <<signals, editor, automatic, reputation, review, now>>

\* discover_source_feed: the feed of the site, or of the platform, if it
\* answers.
DiscoverFeed(n) ==
  /\ Operator /\ suggestion[n].status # "none" /\ Kind[n] # "handle"
  /\ suggestion' = [suggestion EXCEPT ![n].feed = TRUE]
  /\ UNCHANGED <<signals, editor, automatic, registry, reputation, review, now>>

\* radar_sources_add
AddSource(n) ==
  /\ Operator /\ n \notin registry
  /\ registry' = registry \cup {n}
  /\ UNCHANGED <<signals, editor, automatic, suggestion, reputation, review, now>>

\* recompute_source_reputation: from the states and groups as they are; the
\* operator's override stays.
Recomputed(a) ==
  LET of == {i \in Item : items[i] # "none" /\ Trait[i].author = a}
      origin == {p \in Item \X SUBSET Item :
                   p[2] \in Groups(candidate[p[1]].members) /\ Origin(p[2]) \in of}
      count(state) == Cardinality({p \in origin : candidate[p[1]].state = state})
  IN [reputation[a] EXCEPT !.accepted = count("promoted"), !.rejected = count("dismissed"),
                           !.originated = Cardinality(origin)]

RecomputeReputations ==
  /\ Operator
  /\ reputation' = [a \in Author |-> Recomputed(a)]
  /\ UNCHANGED <<signals, editor, automatic, suggestion, registry, review, now>>

\* radar_source_reputation_override
Override(a) ==
  /\ Operator
  /\ reputation' = [reputation EXCEPT ![a].override = IF @ = Nil THEN 1 ELSE Nil]
  /\ UNCHANGED <<signals, editor, automatic, suggestion, registry, review, now>>

-----------------------------------------------------------------------------
OfCandidate(c) ==
  \/ Seen(c) \/ Dismiss(c) \/ Restore(c) \/ Snooze(c)
  \/ SeenCommand(c) \/ DismissCommand(c)
  \/ \E story \in 0..Len(stories) : Promote(c, story)
  \/ \E r \in Reviewer : ReviewRead(r, c)

OfSource ==
  \/ RunSourceDiscovery \/ RecomputeReputations \/ \E a \in Author : Override(a)
  \/ \E n \in Name : \/ \E s \in {"pending", "ignored", "blocked"} : Decide(n, s)
                     \/ Accept(n) \/ DiscoverFeed(n) \/ AddSource(n)

Next ==
  \/ \E i \in Item : Arrive(i) \/ ClusterFind(i) \/ OfCandidate(i) \/ ItemToEvidence(i)
  \/ Analyze \/ ClusterWrite \/ Rescore \/ Maintain \/ RefreshHandles \/ Tick
  \/ \E p \in Promoter : AutoBegin(p) \/ AutoVisit(p) \/ AutoCrash(p)
  \/ SettingsUpdate
  \/ \E t \in Text : Ingest(t) \/ Backfill(t)
  \/ \E r \in Reviewer : ReviewWrite(r)
  \/ OfSource

Spec == Init /\ [][Next]_vars

-----------------------------------------------------------------------------
(* Properties *)

TypeOK ==
  /\ items \in [Item -> {"none", "pending", "processed"}]
  /\ posted \in [Item -> 0..MaxNow]
  /\ candidate \in [Item -> Candidate]
  /\ DOMAIN evidence \subseteq Text
  /\ suggestion \in [Name -> Suggestion] /\ registry \subseteq Name
  /\ now \in 0..MaxNow /\ operated \in 0..MaxOperator

\* Evidence is told in one story, whichever way it comes there (promotion,
\* merge, backfill); the coverage a story shows counts it once; and what a
\* candidate was promoted with is in a story, whatever topics it names.
CoverageCounted ==
  /\ \A t \in Text : Cardinality(StoriesOf(stories, t)) <= 1
  /\ \A e \in DOMAIN events : StoryOf(stories, Trait[events[e].candidate].text) # 0
  /\ \A n \in DOMAIN stories : stories[n].coverage = Cardinality(stories[n].evidence)

Promoted(E, hour) == {e \in DOMAIN E : E[e].automatic /\ E[e].at = hour}

\* Automatic promotions keep within the hourly budget, over all runs, as long as
\* these come one after another; each further run that is under way at once adds
\* at most one budget more, since it reads what is left before the others commit
\* (run_automatic_promotion, the commands that call it without a lease).
BudgetHolds ==
  \A hour \in 0..MaxNow :
    Cardinality(Promoted(events, hour)) <= Budget * automatic.most[hour]

\* "An operator's ignore/block decision is never silently reversed by a later
\* scan": no scan, promotion or backfill asks again.
DecisionsSurviveScans ==
  [][\A n \in Name : suggestion[n].status \in {"ignored", "blocked", "added"} /\ operated' = operated
                       => suggestion'[n].status = suggestion[n].status]_vars

\* A candidate the operator has seen comes back only by the operator, or by
\* an item that no member links to.
ResurfacesIndependently ==
  [][\A c \in Item :
       candidate[c].seen # None /\ candidate'[c].seen = None /\ operated' = operated
         => \E i \in candidate'[c].members \ candidate[c].members :
              \A j \in candidate[c].members : ~Linked(i, j)]_vars

\* A copy, however late, does not make an old candidate current again: only
\* a report that no member links to does.
CopiesStayOld ==
  [][\A c \in Item :
       candidate[c].members # {} /\ ~Current(c) /\ Current(c)'
         => \E i \in candidate'[c].members \ candidate[c].members :
              \A j \in candidate[c].members : ~Linked(i, j)]_vars

\* "Remains dismissed unless manually restored" (candidate_state.py:41).  Does
\* not hold: the loop of the automatic promotion and a clustering run go on with
\* a candidate they loaded before it was dismissed.
DismissedUntilRestored ==
  [][\A c \in Item : candidate[c].state = "dismissed" /\ operated' = operated
                       => candidate'[c].state = "dismissed"]_vars

\* "honors the same settings/budget as the scheduled pipeline path" (cli.py:1340)
\* of the command that promotes on demand.  Does not hold: run beside the
\* pipeline it reads the same remaining budget.
BudgetIsShared ==
  \A hour \in 0..MaxNow : Cardinality(Promoted(events, hour)) <= Budget
=============================================================================
