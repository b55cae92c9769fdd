------------------------------ MODULE Feedback ------------------------------
(***************************************************************************)
(* The review of OEM Radar's alerts and what is learned from it: reviews   *)
(* and their history (providers/sqlite, dashboard), the analysis that      *)
(* turns reviewed noise into suggested rules (core/feedback_analyze), the  *)
(* decisions about these (core/feedback), and the simulation of a rule     *)
(* (core/feedback_simulate).                                               *)
(*                                                                         *)
(* The dashboard serves every request in a thread with a connection of its *)
(* own and the commands are processes.  A SELECT outside a transaction     *)
(* keeps nothing locked, so a review and each suggestion of an analysis    *)
(* are looked up in one step and written, as one transaction, in a later   *)
(* one.                                                                    *)
(*                                                                         *)
(* Rates are compared as fractions: the simulation rounds them to four     *)
(* places first, which only samples of thousands can tell.  Notes, names   *)
(* and times are left out.                                                 *)
(***************************************************************************)
EXTENDS Integers, FiniteSets, Sequences

CONSTANTS
  Alerts,      \* number of events the crawls record
  Trait,       \* of each: collector, type, product, and whether a price moved little
  Scopes,      \* the alerts that the options of a command select
  Bodies,      \* what a reviewer posts: outcome, reasons
  Manual,      \* suggestions written by hand: collector, type, reason
  Worker,      \* requests and commands that run at the same time
  MinSamples,  \* feedback.minimum_samples_for_suggestion
  MinNoise,    \* feedback.minimum_noise_ratio, in percent
  MaxLoss,     \* feedback.maximum_signal_loss_ratio, in percent
  MinCoverage, \* min_review_coverage, in percent (50)
  MaxReviews, MaxDecisions, \* bounds: reviews, decisions about suggestions
  None         \* no review, no suggestion

Alert == 1..Alerts

Outcome == {"HIT", "INTERESTING", "NOISE", "BUG"}
Churn == {"CDN_URL_CHURN", "ROUTINE_IMAGE_CHANGE", "MARKETING_ASSET_REFRESH"}
Reason == Churn \cup {"DUPLICATE_ALERT", "MINOR_PRICE_FLUCTUATION"}
Status == {"PROPOSED", "ACCEPTED", "REJECTED", "IMPLEMENTED", "REVERTED"}
Rule == {"suppress_exact_duplicate", "normalize_image_url", "minimum_price_change_percent"}

Review == [outcome : Outcome, reasons : SUBSET Reason]

ASSUME FeedbackNumbers ==
  /\ Alerts \in Nat /\ MinSamples \in Nat \ {0}
  /\ MinNoise \in 0..100 /\ MaxLoss \in 0..100 /\ MinCoverage \in 0..100
  /\ MaxReviews \in Nat /\ MaxDecisions \in Nat
ASSUME FeedbackInputs ==
  /\ DOMAIN Trait = Alert
  /\ Scopes \subseteq SUBSET Alert
  /\ Bodies \subseteq Review
  /\ None \notin Review

Collectors == {Trait[a].collector : a \in Alert}
Types == {Trait[a].type : a \in Alert}

\* The reason each rule may have; a suggestion written by hand has any.
ReasonsOf(rule) ==
  CASE rule = "suppress_exact_duplicate" -> {"DUPLICATE_ALERT"}
    [] rule = "normalize_image_url" -> Churn
    [] rule = "minimum_price_change_percent" -> {"MINOR_PRICE_FLUCTUATION"}
    [] rule = "manual" -> Reason

\* What the fingerprint of a suggestion is made of; one written by hand has
\* none, and no rule that could be simulated.
Key ==
  {k \in [rule : Rule \cup {"manual"}, collector : Collectors, type : Types, reason : Reason] :
     k.reason \in ReasonsOf(k.rule)}

ASSUME ManualInputs == Manual \subseteq {k \in Key : k.rule = "manual"}

VARIABLES
  arrived,    \* how many alerts there are
  review,     \* alert_reviews: the current review of each alert
  history,    \* alert_review_history of each alert
  table,      \* rule_suggestions
  work,       \* what each request and command is doing
  reviews,    \* number of reviews begun
  decisions,  \* number of decisions so far
  overlapped  \* history: alerts that two requests had in hand at once

feedbackVars == <<arrived, review, history, table, work, reviews, decisions, overlapped>>

Entry == [was : Review \cup {None}, now : Review]
Evidence == [Outcome -> Nat]
Suggestion == [status : Status, evidence : Evidence]
Candidate == [key : Key, evidence : Evidence]

ASSUME NoneAssumption == None \notin Suggestion

Idle == [pc |-> "idle"]

Task ==
  [pc : {"idle"}]
  \cup [pc : {"review"}, alert : Alert, was : Review \cup {None}, body : Review]
  \cup [pc : {"select"}, todo : SUBSET Candidate]
  \cup [pc : {"insert", "update"}, todo : SUBSET Candidate, current : Candidate,
        seen : Status \cup {None}]

FeedbackTypeOK ==
  /\ arrived \in 0..Alerts
  /\ review \in [Alert -> Review \cup {None}]
  /\ history \in [Alert -> Seq(Entry)]
  /\ table \in [Key -> Suggestion \cup {None}]
  /\ work \in [Worker -> Task]
  /\ reviews \in Nat /\ decisions \in Nat
  /\ overlapped \subseteq Alert

FeedbackInit ==
  /\ arrived = 0
  /\ review = [a \in Alert |-> None]
  /\ history = [a \in Alert |-> << >>]
  /\ table = [k \in Key |-> None]
  /\ work = [w \in Worker |-> Idle]
  /\ reviews = 0 /\ decisions = 0
  /\ overlapped = {}

-----------------------------------------------------------------------------
(* Reviews *)

\* A crawl records a change.
RecordEvent ==
  /\ arrived < Alerts
  /\ arrived' = arrived + 1
  /\ UNCHANGED <<review, history, table, work, reviews, decisions, overlapped>>

\* POST /api/alerts/a/review, past the checks of the body: upsert_review finds
\* the event and reads the review there is.
LookUp(w, a, body) ==
  /\ work[w].pc = "idle"
  /\ a <= arrived
  /\ reviews < MaxReviews
  /\ work' = [work EXCEPT ![w] = [pc |-> "review", alert |-> a, was |-> review[a], body |-> body]]
  /\ reviews' = reviews + 1
  /\ overlapped' = overlapped \cup
       {b \in {a} : \E u \in Worker \ {w} : work[u].pc = "review" /\ work[u].alert = b}
  /\ UNCHANGED <<arrived, review, history, table, decisions>>

\* Mutant of Logged: the review is read again for the history.
LoggedAgain(w) == [was |-> review[work[w].alert], now |-> review[work[w].alert]]

Logged(w) == [was |-> work[w].was, now |-> work[w].body]

\* The insert of a second first review breaks the unique alert_id: the request
\* answers 500, and nothing is written.
Upsert(w) ==
  /\ work[w].pc = "review"
  /\ LET a == work[w].alert
     IN IF work[w].was = None /\ review[a] # None
        THEN UNCHANGED <<review, history>>
        ELSE /\ review' = [review EXCEPT ![a] = work[w].body]
             /\ history' = [history EXCEPT ![a] = Append(@, Logged(w))]
  /\ work' = [work EXCEPT ![w] = Idle]
  /\ UNCHANGED <<arrived, table, reviews, decisions, overlapped>>

-----------------------------------------------------------------------------
(* The detectors.  The ones for removals and documents are left out, and the *)
(* comparison of image URLs: no crawl records a removal, the hashes of a     *)
(* document, or the URLs of the images.                                      *)

Reviewed(S) == {a \in S : review[a] # None}
With(S, o) == {a \in S : review[a].outcome = o}
Citing(S, reasons) == {a \in S : review[a].reasons \cap reasons # {}}
Of(S, c, t) == {a \in S : Trait[a].collector = c /\ Trait[a].type = t}

Dist(S) == [o \in Outcome |-> Cardinality(With(S, o))]
Signal(dist) == dist["HIT"] + dist["INTERESTING"]

\* Enough alerts, enough of them noise.
Noisy(S) ==
  /\ Cardinality(S) >= MinSamples
  /\ 100 * Cardinality(With(S, "NOISE")) >= MinNoise * Cardinality(S)

Pattern(rule, reason, c, t, S) ==
  [key |-> [rule |-> rule, collector |-> c, type |-> t, reason |-> reason],
   support |-> S]

\* Those called duplicates or, where there are none, all the noise.
Duplicates(S) ==
  IF Citing(S, {"DUPLICATE_ALERT"}) # {} THEN Citing(S, {"DUPLICATE_ALERT"}) ELSE With(S, "NOISE")

\* The first of the three reasons that any of the alerts has.
Primary(S) ==
  IF Citing(S, {"CDN_URL_CHURN"}) # {} THEN "CDN_URL_CHURN"
  ELSE IF Citing(S, {"ROUTINE_IMAGE_CHANGE"}) # {} THEN "ROUTINE_IMAGE_CHANGE"
  ELSE "MARKETING_ASSET_REFRESH"

\* Mutant of Minor: the magnitude is not looked at.
MinorAny(S) == {a \in S : Trait[a].type = "price_changed"}

Churned(S) == {a \in Citing(S, Churn) : Trait[a].type = "images_changed"}
Minor(S) == {a \in S : Trait[a].type = "price_changed" /\ Trait[a].minor}

\* analyze_reviews over a scope: the patterns the detectors find.
Found(S) ==
  {p \in UNION {
     LET G == Of(Reviewed(S), c, t)
     IN {Pattern("suppress_exact_duplicate", "DUPLICATE_ALERT", c, t, Duplicates(G)),
         Pattern("normalize_image_url", Primary(Churned(G)), c, t, Churned(G)),
         Pattern("minimum_price_change_percent", "MINOR_PRICE_FLUCTUATION", c, t, Minor(G))}
     : c \in Collectors, t \in Types} : Noisy(p.support)}

Existing(S) == S \cap 1..arrived

-----------------------------------------------------------------------------
(* An analysis *)

\* The rows are read at once; then each suggestion is looked up and written.
Analyze(w, S) ==
  /\ work[w].pc = "idle"
  /\ Found(Existing(S)) # {}
  /\ work' = [work EXCEPT ![w] =
       [pc |-> "select",
        todo |-> {[key |-> p.key, evidence |-> Dist(p.support)] : p \in Found(Existing(S))}]]
  /\ UNCHANGED <<arrived, review, history, table, reviews, decisions, overlapped>>

\* The analysis is through with one suggestion.
Rest(todo) == IF todo = {} THEN Idle ELSE [pc |-> "select", todo |-> todo]

\* Mutant of Refreshes: a rejected suggestion is refreshed as well.
RefreshesAll(status) == TRUE

Refreshes(status) == status \notin {"REJECTED", "REVERTED"}

\* persist_candidates: the suggestion with this fingerprint, in the order of
\* the detectors.
Before(r, s) ==
  \/ r = "suppress_exact_duplicate" /\ s # r
  \/ r = "normalize_image_url" /\ s = "minimum_price_change_percent"

Select(w, c) ==
  /\ work[w].pc = "select"
  /\ c \in work[w].todo
  /\ ~ \E d \in work[w].todo : Before(d.key.rule, c.key.rule)
  /\ LET todo == work[w].todo \ {c}
         row == table[c.key]
         next(pc, seen) == [pc |-> pc, todo |-> todo, current |-> c, seen |-> seen]
     IN work' = [work EXCEPT ![w] =
          IF row = None THEN next("insert", None)
          ELSE IF Refreshes(row.status) THEN next("update", row.status)
          ELSE Rest(todo)]
  /\ UNCHANGED <<arrived, review, history, table, reviews, decisions, overlapped>>

\* A suggestion inserted in the meantime breaks the unique fingerprint, and
\* the rest of the analysis is lost.
Insert(w) ==
  /\ work[w].pc = "insert"
  /\ LET c == work[w].current
     IN IF table[c.key] = None
        THEN /\ table' = [table EXCEPT ![c.key] = [status |-> "PROPOSED", evidence |-> c.evidence]]
             /\ work' = [work EXCEPT ![w] = Rest(work[w].todo)]
        ELSE /\ work' = [work EXCEPT ![w] = Idle]
             /\ UNCHANGED table
  /\ UNCHANGED <<arrived, review, history, reviews, decisions, overlapped>>

Update(w) ==
  /\ work[w].pc = "update"
  /\ table' = [table EXCEPT ![work[w].current.key].evidence = work[w].current.evidence]
  /\ work' = [work EXCEPT ![w] = Rest(work[w].todo)]
  /\ UNCHANGED <<arrived, review, history, reviews, decisions, overlapped>>

\* The process is killed, or the database stays locked for too long.
GiveUp(w) ==
  /\ work[w].pc # "idle"
  /\ work' = [work EXCEPT ![w] = Idle]
  /\ UNCHANGED <<arrived, review, history, table, reviews, decisions, overlapped>>

-----------------------------------------------------------------------------
(* Decisions, by one maintainer *)

\* LEGAL_STATUS_TRANSITIONS, and the status there is.
Legal(status) ==
  {status} \cup
  CASE status = "PROPOSED" -> {"ACCEPTED", "REJECTED"}
    [] status = "ACCEPTED" -> {"IMPLEMENTED", "REJECTED"}
    [] status = "IMPLEMENTED" -> {"REVERTED"}
    [] status = "REVERTED" -> {"ACCEPTED"}
    [] status = "REJECTED" -> {}

Decide(k, status) ==
  /\ decisions < MaxDecisions
  /\ table[k] # None /\ status \in Legal(table[k].status)
  /\ table' = [table EXCEPT ![k].status = status]
  /\ decisions' = decisions + 1
  /\ UNCHANGED <<arrived, review, history, work, reviews, overlapped>>

\* insert_rule_suggestion: the caller gives the status too.
Suggest(k, status) ==
  /\ decisions < MaxDecisions
  /\ table[k] = None
  /\ table' = [table EXCEPT ![k] = [status |-> status, evidence |-> Dist({})]]
  /\ decisions' = decisions + 1
  /\ UNCHANGED <<arrived, review, history, work, reviews, overlapped>>

-----------------------------------------------------------------------------
(* The simulation of a rule over a scope *)

\* _match_rule: the collector, the type, and what the rule asks for.  The test
\* of image URLs ends in "or True".
Matches(k, a) ==
  /\ Trait[a].collector = k.collector /\ Trait[a].type = k.type
  /\ \/ k.rule = "suppress_exact_duplicate"
     \/ k.rule = "normalize_image_url" /\ Trait[a].type = "images_changed"
     \/ k.rule = "minimum_price_change_percent" /\ Trait[a].type = "price_changed" /\ Trait[a].minor

Matched(k, S) == {a \in Existing(S) : Matches(k, a)}

Assessment(k, S) ==
  LET all == Matched(k, S)
      dist == Dist(Reviewed(all))
      n == Cardinality(Reviewed(all))
  IN IF n < MinSamples \/ 100 * n < MinCoverage * Cardinality(all) THEN "INSUFFICIENT_EVIDENCE"
     ELSE IF 100 * Signal(dist) > MaxLoss * n THEN "RISKY"
     ELSE "SAFE_CANDIDATE"

-----------------------------------------------------------------------------
FeedbackNext ==
  \/ RecordEvent
  \/ \E w \in Worker :
       \/ \E a \in Alert, b \in Bodies : LookUp(w, a, b)
       \/ Upsert(w)
       \/ \E S \in Scopes : Analyze(w, S)
       \/ work[w].pc = "select" /\ \E c \in work[w].todo : Select(w, c)
       \/ Insert(w) \/ Update(w) \/ GiveUp(w)
  \/ \E k \in Key : table[k] # None /\ \E s \in Legal(table[k].status) : Decide(k, s)
  \/ \E k \in Manual, s \in Status : Suggest(k, s)

FeedbackSpec == FeedbackInit /\ [][FeedbackNext]_feedbackVars

-----------------------------------------------------------------------------
(* Properties *)

\* The history of an alert tells how its review came about: it begins with an
\* alert that had none, ends with the review there is, and every entry starts
\* from what the one before it left, unless two requests had the alert in
\* hand at once (upsert_review reads the review before it writes).
HistoryTellsReviews ==
  \A a \in Alert :
    LET h == history[a]
    IN /\ h = << >> <=> review[a] = None
       /\ h # << >> => h[1].was = None /\ h[Len(h)].now = review[a]
       /\ a \notin overlapped => \A i \in 2..Len(h) : h[i].was = h[i - 1].now

\* An analysis proposes and refreshes; it never decides.  The status of a
\* suggestion changes along the legal transitions only, together with nothing
\* else, and the numbers of a rejected or reverted one stay, except under an
\* analysis that had looked at it before that decision.
DecisionsStand ==
  [][\A k \in Key :
       table[k] # None /\ table'[k] # table[k] =>
         /\ table'[k] # None
         /\ \/ /\ table'[k].status \in Legal(table[k].status)
               /\ table'[k].evidence = table[k].evidence
            \/ /\ table'[k].status = table[k].status
               /\ \/ table[k].status \notin {"REJECTED", "REVERTED"}
                  \/ \E w \in Worker :
                       /\ work[w].pc = "update" /\ work[w].current.key = k
                       /\ work[w].seen \notin {"REJECTED", "REVERTED"}]_feedbackVars

\* What a suggestion rests on is what its simulation is about: the simulation
\* of a pattern, over the alerts it was found in, counts every alert that
\* supports it, so it never has too small a sample, and what it calls safe
\* has no more signal than the limit among all the reviewed alerts it affects.
SimulationCoversSupport ==
  \A S \in Scopes : \A p \in Found(Existing(S)) :
    /\ p.support \subseteq Matched(p.key, S)
    /\ Assessment(p.key, S) = "SAFE_CANDIDATE" =>
         100 * Signal(Dist(p.support)) <= MaxLoss * Cardinality(Reviewed(Matched(p.key, S)))

-----------------------------------------------------------------------------
(* Do not hold *)

\* "Existing REJECTED/REVERTED -> do not revive automatically"
\* (persist_candidates): the reason of an image pattern is part of its
\* fingerprint and follows the reviews, so a rejected rule comes back with
\* another reason.
RejectedIsNotRevived ==
  [][\A j, k \in Key :
       (/\ j.rule = k.rule /\ j.collector = k.collector /\ j.type = k.type
        /\ table[j] # None /\ table[k] = None)
       => (table[j].status = "REJECTED" => table'[k] = None)]_feedbackVars

\* "Need repeated product keys" (detect_duplicate_alerts): the condition is
\* joined to the sample size with "and", so any noise of one collector and
\* type is proposed for suppression as duplicates.
DuplicatesRepeat ==
  \A S \in Scopes : \A p \in Found(Existing(S)) :
    p.key.rule = "suppress_exact_duplicate" =>
      \E a, b \in p.support : a # b /\ Trait[a].product = Trait[b].product
=============================================================================
