------------------------------- MODULE Alerts -------------------------------
(***************************************************************************)
(* The notifications of the intelligence desk (notifications/service.py):  *)
(* what the radar, the collection runs and the suggestions become when     *)
(* alerts are generated, under the admission of experimental sources       *)
(* (signals/source_lifecycle.py) and beside the automatic promotion        *)
(* (signals/promotion.py), which keeps a watermark of its own in the same  *)
(* rows; with the digests, the retention, the settings and the presets.    *)
(*                                                                         *)
(* An alert is a transition.  What was seen before is in the event states  *)
(* of a candidate (table notification_event_states), what was said before  *)
(* in the unique dedup keys of the notifications.  Every request commits   *)
(* once, so that it is one step; the delivery of what is generated is in   *)
(* module Delivery.                                                        *)
(*                                                                         *)
(* Items are numbered in the order of their collection, which serves as    *)
(* their collected_at: a watermark is the number of items collected at its *)
(* time, None (-1) when it is absent.  Days are the windows of the digest, *)
(* of topic activity and of retention.  Scores are small numbers; every    *)
(* candidate has a topic.                                                  *)
(***************************************************************************)
EXTENDS Integers, FiniteSets, Sequences, TLC

CONSTANTS
  Candidate,       \* the candidates of the radar
  Source,          \* the sources of signals
  Pilot,           \* the sources registered as experimental
  MaxScore,        \* attention scores are 0..MaxScore
  Increase,        \* settings.minimum_score_increase
  PromotionScore,  \* minimum_attention_score of the promotion settings
  MaxAge,          \* days a candidate may be promoted after its first item
  TopicMinimum,    \* settings.topic_activity_minimum_candidates
  Retention,       \* settings.retention_days
  Preset,          \* the presets: a function from names to their values
  Bodies,          \* settings the operator may put
  Muting,          \* types of events the operator mutes or not
  None, Nil,       \* an absent watermark, an absent value
  MaxDay,          \* bounds: days, events of the world
  MaxWorld,        \* and of the operator
  MaxOperator

ASSUME SourceAssumption == Pilot \subseteq Source
ASSUME ScaleAssumption ==
  /\ MaxScore \in Nat /\ Increase \in Nat \ {0} /\ PromotionScore \in Nat
  /\ MaxAge \in Nat /\ TopicMinimum \in Nat \ {0} /\ Retention \in Nat /\ None = -1
  /\ {MaxDay, MaxWorld, MaxOperator} \subseteq Nat

VARIABLES
  source,     \* admission of each source
  items,      \* the signal items, with source and candidate
  candidate,  \* the candidates as the radar left them
  promotion,  \* the promotion event of each candidate
  runs,       \* outcome of the collection runs of each source
  suggestion, \* one suggested source
  settings,   \* notification settings
  activation, \* runs and day before the last activation, and how many there were
  states,     \* event states of each candidate
  notes,      \* the notifications
  incidents,  \* the latest incident of each source
  digests,    \* the digests by window
  day,
  evaluated,  \* history: items of a candidate when alerts were last generated
  weighed,    \* history: items of a candidate when promotion last passed it
  soak,       \* history: items collected from a source that was not admitted
  rises,      \* history: how often a candidate came to deserve attention
  made,       \* history: how many high-attention alerts it got
  acts        \* events of the world and of the operator so far

world == <<source, items, candidate, promotion, runs, suggestion>>
book == <<states, notes, incidents>>
control == <<settings, activation>>
history == <<evaluated, weighed, soak, rises, made>>
vars == <<world, control, book, digests, day, history, acts>>

CandidateTypes == {"high", "score", "corroboration", "ready"}
Types == CandidateTypes \cup {"promoted", "suggestion", "provider", "topic"}
Optional(S) == S \cup {Nil}

Admission ==
  [muted : BOOLEAN, contract : BOOLEAN,    \* delivery_admission_required, for life
   baseline : Int, admitted : Int,         \* watermarks
   fresh : BOOLEAN]                        \* no successful collection yet

CandidateRow ==
  [state : {"none", "active", "stale", "away", "promoted"}, score : 0..MaxScore,
   groups : Nat, recent : BOOLEAN,         \* observed since the activation
   born : Nat, day : Nat]                  \* days of its first and latest item

EventState ==
  [rows : {"none", "ready", "all"},        \* which rows there are
   high : BOOLEAN, highs : Nat,            \* last value and sequence
   base : Nat, increases : Nat,
   groups : Nat,
   ready : BOOLEAN, readies : Nat,
   heard : Optional(SUBSET Nat),           \* watermark of the notifications
   promo : Optional(SUBSET Nat)]           \* watermark of the promotion

Note ==
  [key : (Types \cup {"test"}) \X (Candidate \cup Source \cup {Nil}) \X Int \X Nat, \* dedup_key
   event : Nat, made : Nat, muted : BOOLEAN, read : BOOLEAN, dismissed : BOOLEAN]

Unknown ==
  [rows |-> "none", high |-> FALSE, highs |-> 0, base |-> 0, increases |-> 0, groups |-> 0,
   ready |-> FALSE, readies |-> 0, heard |-> Nil, promo |-> Nil]

NoIncident == [open |-> FALSE, start |-> 0, latest |-> 0, number |-> 0]

Default ==
  Preset["balanced"] @@
  [on |-> TRUE, recovery |-> TRUE, enabled |-> Types,
   mutedTypes |-> {}, mutedTopic |-> FALSE, preset |-> "balanced"]

\* register_reddit_hardware: muted, experimental, under the contract.
Init ==
  /\ source = [s \in Source |-> [muted |-> s \in Pilot, contract |-> s \in Pilot,
                                 baseline |-> None, admitted |-> None, fresh |-> TRUE]]
  /\ items = <<>>
  /\ candidate = [c \in Candidate |-> [state |-> "none", score |-> 0, groups |-> 0,
                                       recent |-> FALSE, born |-> 0, day |-> 0]]
  /\ promotion = [c \in Candidate |-> [by |-> Nil, day |-> 0, recent |-> FALSE]]
  /\ runs = [s \in Source |-> <<>>]
  /\ suggestion = "none"
  /\ settings = Default
  /\ activation = [day |-> 0, runs |-> [s \in Source |-> 0], times |-> 0]
  /\ states = [c \in Candidate |-> Unknown]
  /\ notes = {} /\ incidents = [s \in Source |-> NoIncident]
  /\ digests = [w \in {} |-> {}]
  /\ day = 0
  /\ evaluated = [c \in Candidate |-> Nil] /\ weighed = evaluated
  /\ soak = {} /\ rises = [c \in Candidate |-> 0] /\ made = rises
  /\ acts = [world |-> 0, operator |-> 0]

Count(kind, max) == acts[kind] < max /\ acts' = [acts EXCEPT ![kind] = @ + 1]
World == Count("world", MaxWorld)
Operator == Count("operator", MaxOperator)

-----------------------------------------------------------------------------
(* Admission (signals/source_lifecycle.py) *)

\* candidate_member_rows
Members(c) == {i \in DOMAIN items : items[i].candidate = c}

Controlled(s) == source[s].contract \/ source[s].muted

DeliveryBlocked(s) == source[s].muted \/ (source[s].contract /\ source[s].admitted = None)

\* Mutant of Admitted: once a source is admitted, all its items are.
AdmittedWithAll(i) ==
  LET s == source[items[i].source]
  IN ~s.muted /\ i > s.baseline /\ (s.contract => s.admitted # None)

\* item_is_delivery_admitted: collected after the baseline and after the
\* admission, which a source under the contract needs.
Admitted(i) ==
  LET s == source[items[i].source]
  IN /\ ~s.muted
     /\ i > s.baseline /\ i > s.admitted
     /\ s.contract => s.admitted # None

\* candidate_has_admitted_novelty
EverAdmitted(c) == Members(c) = {} \/ \E i \in Members(c) : Admitted(i)

\* candidate_transition_has_admitted_material: what joined since the
\* watermark of this authority must hold something admitted.
Authorised(c, seen) ==
  LET controlled == {i \in Members(c) : Controlled(items[i].source)}
  IN \/ controlled = {}
     \/ \E i \in (IF seen = Nil THEN controlled ELSE Members(c) \ seen) : Admitted(i)

\* Mutant of WriteSeen: both authorities keep their watermark under one key.
WriteSeenShared(st, key, ids) == [st EXCEPT !.heard = ids, !.promo = ids]
\* write_candidate_seen_item_ids: each authority has a key of its own.
WriteSeen(st, key, ids) ==
  IF key = "heard" THEN [st EXCEPT !.heard = ids] ELSE [st EXCEPT !.promo = ids]

-----------------------------------------------------------------------------
(* Transitions of a candidate (_candidate_events) *)

Heard(c) == Authorised(c, states[c].heard)
Audible(c) == candidate[c].recent /\ Heard(c)
Takes(type) == type \in settings.enabled

High(c) ==
  /\ candidate[c].state = "active"
  /\ candidate[c].score >= settings.threshold
  /\ candidate[c].groups >= settings.groups

\* _promotion_ready
Ready(c) ==
  /\ candidate[c].state = "active"
  /\ candidate[c].score >= PromotionScore
  /\ candidate[c].groups >= 1
  /\ day - candidate[c].born <= MaxAge

Increased(c) ==
  /\ states[c].rows = "all" /\ candidate[c].state = "active" /\ Takes("score")
  /\ candidate[c].score - states[c].base >= Increase

Crosses(c, type) ==
  LET st == states[c]
  IN /\ Takes(type) /\ Audible(c)
     /\ CASE type = "high" -> High(c) /\ ~st.high
          [] type = "score" -> Increased(c)
          [] type = "corroboration" -> /\ st.rows = "all" /\ candidate[c].state = "active"
                                       /\ st.groups > 0 /\ candidate[c].groups > st.groups
          [] type = "ready" -> Ready(c) /\ ~st.ready

CandidateKey(c, type) ==
  CASE type = "high" -> <<type, c, settings.threshold, states[c].highs + 1>>
    [] type = "score" -> <<type, c, 0, states[c].increases + 1>>
    [] type = "corroboration" -> <<type, c, candidate[c].groups, 0>>
    [] type = "ready" -> <<type, c, 0, states[c].readies + 1>>

Step(c, type) == IF Crosses(c, type) THEN 1 ELSE 0

\* Mutant of Baselines: a crossing that nobody could hear is not kept.
BaselinesForgetful(c) ==
  [rows |-> "all", high |-> FALSE, highs |-> states[c].highs + Step(c, "high"),
   base |-> candidate[c].score, increases |-> states[c].increases + Step(c, "score"),
   groups |-> candidate[c].groups,
   ready |-> Ready(c), readies |-> states[c].readies + Step(c, "ready"),
   heard |-> states[c].heard, promo |-> states[c].promo]

\* The event states after the evaluation.  A crossing made of material that is
\* not admitted is not consumed; one from before the activation is.
Baselines(c) ==
  LET st == states[c]
      settled == Heard(c) \/ ~candidate[c].recent
  IN [rows |-> "all",
      high |-> IF settled THEN High(c) ELSE st.high,
      highs |-> st.highs + Step(c, "high"),
      base |-> IF st.rows # "all" \/ Increased(c) \/ candidate[c].score < st.base
               THEN candidate[c].score ELSE st.base,
      increases |-> st.increases + Step(c, "score"),
      groups |-> candidate[c].groups,
      ready |-> IF settled THEN Ready(c) ELSE st.ready,
      readies |-> st.readies + Step(c, "ready"),
      heard |-> st.heard, promo |-> st.promo]

Known == {c \in Candidate : candidate[c].state # "none"}

CandidateEvents ==
  {[key |-> CandidateKey(p[1], p[2]), event |-> day,
    muted |-> p[2] \in settings.mutedTypes \/ settings.mutedTopic] :
     p \in {x \in Known \X CandidateTypes : Crosses(x[1], x[2])}}

-----------------------------------------------------------------------------
(* The other events of a generation *)

Event(type, subject, n, at, muted) ==
  {[key |-> <<type, subject, n, 0>>, event |-> at,
    muted |-> muted \/ type \in settings.mutedTypes]}

\* _promotion_events: all of them since the activation, again and again.
PromotionEvents ==
  UNION {Event("promoted", c, 0, promotion[c].day, FALSE) :
           c \in {x \in Candidate :
                    /\ Takes("promoted") /\ promotion[x].recent
                    /\ IF promotion[x].by = "automatic" THEN Heard(x) ELSE EverAdmitted(x)}}

SourceSuggestionEvents ==
  IF Takes("suggestion") /\ suggestion = "recent" THEN Event("suggestion", Nil, 0, day, FALSE)
  ELSE {}

\* Runs since the activation, and how many of the latest ones failed.
Latest(s) == Len(runs[s])
Streak(s) ==
  Cardinality({k \in activation.runs[s]+1 .. Latest(s) :
                 \A j \in k..Latest(s) : runs[s][j] = "failed"})

Watched(s) == Takes("provider") /\ Latest(s) > activation.runs[s]

\* Mutant of Recovers: any run after the failures ends the incident.
RecoversAnyhow(s) == Watched(s) /\ incidents[s].open /\ settings.recovery /\ Latest(s) > incidents[s].latest
Recovers(s) ==
  /\ Watched(s) /\ runs[s][Latest(s)] = "ok"
  /\ incidents[s].open /\ Latest(s) > incidents[s].start
  /\ settings.recovery

Persists(s) == Watched(s) /\ Streak(s) >= settings.failures
Breaks(s) == Persists(s) /\ ~incidents[s].open

ProviderEvents ==
  (UNION {Event("provider", s, 2 * incidents[s].number + 1, day, DeliveryBlocked(s)) :
            s \in {x \in Source : Breaks(x)}})
  \cup (UNION {Event("provider", s, 2 * incidents[s].number, day, DeliveryBlocked(s)) :
                 s \in {x \in Source : Recovers(x)}})

\* One open incident of a source at a time; a longer streak only updates it.
ProviderIncidents ==
  [s \in Source |->
     IF Recovers(s) THEN [incidents[s] EXCEPT !.open = FALSE]
     ELSE IF Breaks(s)
       THEN [open |-> TRUE, start |-> Latest(s) - Streak(s) + 1, latest |-> Latest(s),
             number |-> incidents[s].number + 1]
     ELSE IF Persists(s) THEN [incidents[s] EXCEPT !.latest = Latest(s)]
     ELSE incidents[s]]

\* _topic_events: the window begins a day ago, or with the activation.
TopicEvents ==
  LET start == IF day - 1 > activation.day THEN day - 1 ELSE activation.day
      active == {c \in Candidate : /\ candidate[c].state = "active" /\ candidate[c].recent
                                   /\ candidate[c].day >= start}
  IN IF Takes("topic") /\ Cardinality(active) >= TopicMinimum
     THEN Event("topic", Nil, start, day, settings.mutedTopic) ELSE {}

\* Mutant of Emitted: the dedup key is not looked up.
EmittedAlways(events) ==
  {[key |-> e.key, event |-> e.event, made |-> day, muted |-> e.muted,
    read |-> FALSE, dismissed |-> FALSE] : e \in events}

\* _emit: a notification with the key exists, or is made.
Emitted(events) ==
  {[key |-> e.key, event |-> e.event, made |-> day, muted |-> e.muted,
    read |-> FALSE, dismissed |-> FALSE] :
     e \in {x \in events : \A n \in notes : n.key # x.key}}

Events ==
  CandidateEvents \cup PromotionEvents \cup SourceSuggestionEvents \cup ProviderEvents \cup TopicEvents

\* What a generation leaves for the next one to compare with.
Baselined ==
  /\ states' = [c \in Candidate |->
                  IF c \in Known THEN WriteSeen(Baselines(c), "heard", Members(c)) ELSE states[c]]
  /\ incidents' = ProviderIncidents
  /\ evaluated' = [c \in Candidate |-> IF c \in Known THEN Members(c) ELSE evaluated[c]]
  /\ made' = [c \in Candidate |->
       made[c] + Cardinality({n \in Emitted(CandidateEvents) : n.key[1] = "high" /\ n.key[2] = c})]

\* generate
Generated ==
  IF ~settings.on THEN UNCHANGED <<book, evaluated, made>>
  ELSE notes' = notes \cup Emitted(Events) /\ Baselined

-----------------------------------------------------------------------------
(* The radar and its sources, as far as the alerts observe them *)

\* How often a candidate came to deserve attention, counted at every step
\* that can change it.
Tally == rises' = [c \in Candidate |-> rises[c] + IF ~High(c) /\ High(c)' THEN 1 ELSE 0]

\* stamp_first_success_baseline, before last_success_at is set.
Stamped(a, controlled, n) ==
  [a EXCEPT !.fresh = FALSE, !.baseline = IF @ = None /\ a.fresh /\ controlled THEN n ELSE @]
Succeeded(s, n) == [source EXCEPT ![s] = Stamped(@, Controlled(s), n)]

\* A collection run that brings an item, which is clustered into a candidate
\* and scored; only an active or a stale candidate takes it.
Collect(s, c, score, groups) ==
  /\ World
  /\ candidate[c].state \in {"none", "active", "stale"}
  /\ groups \in {candidate[c].groups, candidate[c].groups + 1} \ {0}
  /\ items' = Append(items, [source |-> s, candidate |-> c])
  /\ source' = Succeeded(s, Len(items'))
  /\ runs' = [runs EXCEPT ![s] = Append(@, "ok")]
  /\ candidate' = [candidate EXCEPT ![c] =
        [state |-> "active", score |-> score, groups |-> groups, recent |-> TRUE,
         born |-> IF @.state = "none" THEN day ELSE @.born, day |-> day]]
  /\ soak' = IF source[s].contract /\ DeliveryBlocked(s) THEN soak \cup {Len(items')} ELSE soak
  /\ UNCHANGED <<promotion, suggestion, control, book, digests, day, evaluated, weighed, made>>
  /\ Tally

\* A collection run that brings nothing, or fails.
CollectNothing(s, outcome) ==
  /\ World
  /\ runs' = [runs EXCEPT ![s] = Append(@, outcome)]
  /\ source' = IF outcome = "ok" THEN Succeeded(s, Len(items)) ELSE source
  /\ UNCHANGED <<items, candidate, promotion, suggestion, control, book, digests, day, history>>

\* The radar rescores a candidate, or moves it (stale, dismissed or snoozed
\* and back).  restore takes back a promoted one as well.
Radar(c, score, state) ==
  /\ World
  /\ candidate[c].state # "none"
  /\ \/ state = candidate[c].state /\ state # "promoted"
     \/ candidate[c].state = "active" /\ state \in {"stale", "away"} /\ score = candidate[c].score
     \/ state = "active" /\ score = candidate[c].score
  /\ candidate' = [candidate EXCEPT ![c] = [@ EXCEPT !.score = score, !.state = state]]
  /\ candidate' # candidate
  /\ UNCHANGED <<source, items, promotion, runs, suggestion, control, book, digests, day,
                 evaluated, weighed, soak, made>>
  /\ Tally

\* promote_candidate, of a candidate that was not promoted before.
Promoted(set, by) ==
  LET fresh == {c \in set : promotion[c].by = Nil}
  IN /\ candidate' = [c \in Candidate |->
           IF c \in fresh THEN [candidate[c] EXCEPT !.state = "promoted"] ELSE candidate[c]]
     /\ promotion' = [c \in Candidate |->
           IF c \in fresh THEN [by |-> by, day |-> day, recent |-> TRUE] ELSE promotion[c]]

PromoteByHand(c) ==
  /\ Operator /\ candidate[c].state # "none"
  /\ Promoted({c}, "human")
  /\ UNCHANGED <<source, items, runs, suggestion, control, book, digests, day, history>>

\* check_automatic_eligibility: the promotion has a watermark of its own.
Eligible(c) == Ready(c) /\ Authorised(c, states[c].promo)

\* run_automatic_promotion: what it passes over is marked as seen; the budget
\* ends it early, in the order of the scores.
RunAutomaticPromotion(considered) ==
  LET active == {c \in Candidate : candidate[c].state = "active"}
      passed == {c \in considered : ~Eligible(c)}
  IN /\ considered # {} /\ considered \subseteq active
     /\ \A c \in considered, d \in active \ considered : candidate[c].score >= candidate[d].score
     /\ considered # active => passed # considered
     /\ Promoted(considered \ passed, "automatic")
     /\ states' = [c \in Candidate |->
          IF c \in passed
          THEN WriteSeen([states[c] EXCEPT !.rows = IF @ = "none" THEN "ready" ELSE @],
                         "promo", Members(c))
          ELSE states[c]]
     /\ weighed' = [c \in Candidate |-> IF c \in passed THEN Members(c) ELSE weighed[c]]
     /\ UNCHANGED <<source, items, runs, suggestion, control, notes, incidents, digests, day,
                    evaluated, soak, rises, made, acts>>

\* admit_source_for_delivery: the stamp of an earlier admission is kept.
LetThrough(a, n) ==
  [a EXCEPT !.muted = FALSE, !.contract = TRUE, !.admitted = IF @ = None THEN n ELSE @]

Admit(s) ==
  /\ Operator
  /\ source' = [source EXCEPT ![s] = LetThrough(@, Len(items))]
  /\ source' # source
  /\ UNCHANGED <<items, candidate, promotion, runs, suggestion, control, book, digests, day, history>>

\* SourceManagementService.update, when the provider key changes:
\* clear_collection_identity_watermarks keeps the contract.
ChangeIdentity(s) ==
  /\ Operator
  /\ source' = [source EXCEPT ![s] =
       [@ EXCEPT !.baseline = None, !.admitted = None, !.fresh = TRUE]]
  /\ source' # source
  /\ UNCHANGED <<items, candidate, promotion, runs, suggestion, control, book, digests, day, history>>

\* A source is suggested and seen again, or the operator answers.
Suggest(status) ==
  /\ Operator
  /\ status # suggestion
  /\ suggestion' = status
  /\ UNCHANGED <<source, items, candidate, promotion, runs, control, book, digests, day, history>>

NextDay ==
  /\ World
  /\ day < MaxDay /\ day' = day + 1
  /\ UNCHANGED <<world, control, book, digests, history>>

-----------------------------------------------------------------------------
(* The alerts: requests, commands and the last stage of the pipeline *)

\* notifications_generate and the command: one commit, then the desktop.
Generate ==
  /\ Generated
  /\ UNCHANGED <<world, control, digests, day, weighed, soak, rises, acts>>

GenerateCommand == Generate

\* DigestService.generate, with what the notifications will be after the
\* request: the window is the last whole day, its digest is made once.
DigestOf(ns) ==
  {n.key : n \in {x \in ns : x.event = day - 1 /\ ~x.dismissed /\ ~x.muted
                             /\ x.key[1] \notin {"high", "score", "test"}}}

Digested(ns, refresh) ==
  digests' = IF day - 1 \in DOMAIN digests /\ ~refresh THEN digests
             ELSE (day - 1 :> DigestOf(ns)) @@ digests

\* The digest request, also with the alerts generated first (generate_manual).
Digest(mode) ==
  /\ IF mode = "generate" THEN Generated ELSE UNCHANGED <<book, evaluated, made>>
  /\ Digested(notes', mode # "once")
  /\ UNCHANGED <<world, control, day, weighed, soak, rises, acts>>

DigestCommand == Digest("once")

\* cleanup_retention: what was read or dismissed goes after its days.
Kept(ns) == {n \in ns : n.made >= day - Retention \/ ~(n.read \/ n.dismissed)}

Cleanup ==
  /\ notes' = Kept(notes)
  /\ UNCHANGED <<world, control, states, incidents, digests, day, history, acts>>

\* PipelineService.run_once, its last stage: alerts, digest and retention
\* before one commit.
PipelineAlerts ==
  \E made1 \in {IF settings.on THEN notes \cup Emitted(Events) ELSE notes} :
    /\ notes' = Kept(made1)
    /\ IF settings.digest THEN Digested(made1, FALSE) ELSE UNCHANGED digests
    /\ IF settings.on THEN Baselined ELSE UNCHANGED <<states, incidents, evaluated, made>>
    /\ UNCHANGED <<world, control, day, weighed, soak, rises, acts>>

\* reset_activation: every event state goes, the watermark of the promotion
\* with them; what was observed before is history.
Activated ==
  /\ activation' = [day |-> day, runs |-> [s \in Source |-> Latest(s)],
                     times |-> activation.times + 1]
  /\ states' = [c \in Candidate |-> Unknown]
  /\ candidate' = [c \in Candidate |-> [candidate[c] EXCEPT !.recent = FALSE]]
  /\ promotion' = [c \in Candidate |-> [promotion[c] EXCEPT !.recent = FALSE]]
  /\ suggestion' = IF suggestion = "recent" THEN "old" ELSE suggestion
  /\ evaluated' = [c \in Candidate |-> Nil]
  /\ weighed' = [c \in Candidate |-> Nil]

Activate ==
  /\ Operator
  /\ Activated
  /\ UNCHANGED <<source, items, runs, settings, notes, incidents, digests, day, soak, rises, made>>

Set(new) ==
  /\ Operator
  /\ settings' = new
  /\ settings' # settings
  /\ UNCHANGED <<world, activation, book, digests, day, evaluated, weighed, soak, made>>
  /\ Tally

\* notification_settings_put: what the operator writes is no preset.
PutSettings(body) == Set([preset |-> "custom"] @@ body @@ settings)

\* The command sets single values, and may activate as well.
CommandSettings(body, reactivate) ==
  /\ Operator
  /\ settings' = [preset |-> "custom"] @@ body @@ settings
  /\ settings' # settings \/ reactivate
  /\ IF reactivate THEN Activated
     ELSE UNCHANGED <<candidate, promotion, suggestion, activation, states, evaluated, weighed>>
  /\ UNCHANGED <<source, items, runs, notes, incidents, digests, day, soak, made>>
  /\ Tally

\* apply_preset: its values only, muting is left alone.
ApplyPreset(p) == Set([preset |-> p] @@ Preset[p] @@ settings)

PresetCommand(p) == ApplyPreset(p)

\* set_event_muted, set_topic_muted
MuteEvent(type) ==
  Set([settings EXCEPT !.mutedTypes = IF type \in @ THEN @ \ {type} ELSE @ \cup {type}])

MuteTopic == Set([settings EXCEPT !.mutedTopic = ~@])

\* set_read, dismiss and restore: one of them
Mark(n, read, dismissed) ==
  /\ notes' = (notes \ {n}) \cup {[n EXCEPT !.read = read, !.dismissed = dismissed]}
  /\ (n.read = read) # (n.dismissed = dismissed)
  /\ Operator
  /\ UNCHANGED <<world, control, states, incidents, digests, day, history>>

MarkCommand(n, read, dismissed) == Mark(n, read, dismissed)

\* create_test_notification: its key is the time.
Test ==
  /\ Operator
  /\ notes' = notes \cup Emitted(Event("test", Nil, acts.operator, day, FALSE))
  /\ UNCHANGED <<world, control, states, incidents, digests, day, history>>

TestCommand == Test

-----------------------------------------------------------------------------
Next ==
  \/ \E s \in Source, c \in Candidate, score \in 0..MaxScore, g \in 1..MaxWorld : Collect(s, c, score, g)
  \/ \E s \in Source, outcome \in {"ok", "failed"} : CollectNothing(s, outcome)
  \/ \E c \in Candidate, score \in 0..MaxScore, state \in {"active", "stale", "away"} :
        Radar(c, score, state)
  \/ \E c \in Candidate : PromoteByHand(c)
  \/ \E considered \in SUBSET Candidate : RunAutomaticPromotion(considered)
  \/ \E s \in Source : Admit(s) \/ ChangeIdentity(s)
  \/ \E status \in {"none", "recent"} : Suggest(status)
  \/ NextDay
  \/ Generate \/ Cleanup \/ PipelineAlerts
  \/ GenerateCommand \/ DigestCommand
  \/ \E mode \in {"refresh", "generate"} : Digest(mode)
  \/ Activate
  \/ \E body \in Bodies : PutSettings(body)
  \/ \E body \in Bodies, reactivate \in BOOLEAN : CommandSettings(body, reactivate)
  \/ \E p \in DOMAIN Preset : ApplyPreset(p) \/ PresetCommand(p)
  \/ \E type \in Muting : MuteEvent(type)
  \/ MuteTopic
  \/ \E n \in notes, read, dismissed \in BOOLEAN :
        Mark(n, read, dismissed) \/ MarkCommand(n, read, dismissed)
  \/ Test \/ TestCommand

Spec == Init /\ [][Next]_vars

-----------------------------------------------------------------------------
(* Properties *)

TypeOK ==
  /\ source \in [Source -> Admission]
  /\ candidate \in [Candidate -> CandidateRow]
  /\ \A s \in Source : \A k \in DOMAIN runs[s] : runs[s][k] \in {"ok", "failed"}
  /\ \A c \in Candidate : /\ states[c].rows \in {"none", "ready", "all"}
                          /\ {states[c].heard, states[c].promo} \subseteq Optional(SUBSET DOMAIN items)
  /\ notes \subseteq Note
  /\ \A w \in DOMAIN digests : w < day

\* Items collected while an experimental source was not admitted never cause an
\* alert of a candidate, whatever is admitted, rescored or renamed later: the
\* alert needs an item since the last evaluation that was collected otherwise
\* (admit_source_for_delivery: "without replaying historical novelty").
SoakIsSilent ==
  [][\A n \in notes' :
       n.key[1] \in CandidateTypes /\ (\A m \in notes : m.key # n.key) =>
         LET members == Members(n.key[2])
             known == IF evaluated[n.key[2]] = Nil THEN {} ELSE evaluated[n.key[2]]
         IN \/ \A i \in members : ~Controlled(items[i].source)
            \/ members \ (known \cup soak) # {}]_vars

\* Each authority judges a candidate by what joined since its own evaluation,
\* although both keep their watermark in the same rows and either may run
\* first or create them (write_candidate_seen_item_ids).
WatermarksAreSeparate ==
  \A c \in Candidate : states[c].heard = evaluated[c] /\ states[c].promo = weighed[c]

\* A candidate is announced as of high attention once for every time it came
\* to be so, however often alerts are generated; an activation, which forgets
\* the event states, can account for one more.
CrossingsCounted ==
  \A c \in Candidate : made[c] <= rises[c] + activation.times

\* One outage is one incident: a second incident of a source is opened only
\* for failures after a successful run (_provider_events).
OutageIsOneIncident ==
  [][\A s \in Source :
       incidents[s].number > 0 /\ incidents'[s].number > incidents[s].number =>
         \E j \in incidents[s].start .. incidents'[s].start : runs[s][j] = "ok"]_vars
=============================================================================
