------------------------------- MODULE Claims -------------------------------
(***************************************************************************)
(* The claims an editor follows: the evidence linked to them with a        *)
(* stance, the confidence computed from it, their timeline and verdict     *)
(* (repository, services/confidence.py), the links the matcher suggests    *)
(* (claim_engine), the entities they are about and the graph of these      *)
(* (entities, graph), and the track record of the sources that follows     *)
(* from the verdicts (source_intelligence).                                *)
(*                                                                         *)
(* A request reads its rows first and takes the write lock with its first  *)
(* write; its session keeps the values it has loaded, and writes a column  *)
(* only when the value differs from the loaded one.  A request about a     *)
(* claim is therefore two steps, Load and one that writes.  The others are *)
(* one step each: what they decide on is not decided anew by others.       *)
(*                                                                         *)
(* Trust is in hundredths, confidence in ten-thousandths.  Notes are left  *)
(* out; every writer is taken to leave them as they are.                   *)
(***************************************************************************)
EXTENDS Integers, FiniteSets, Sequences, SequencesExt

CONSTANTS
  Ev,          \* pieces of evidence
  SourceOf,    \* who published each
  Naming,      \* the phrases each piece of evidence contains
  Overlapping, \* pairs <<statement, evidence>> that share half of their words
  Norm,        \* the normalised form of each phrase
  Short,       \* phrases of fewer than three characters
  Mention,     \* phrases extracted from signals, waiting for an entity
  Said,        \* the phrase of each mention
  Holders,     \* the candidates that the signal of each mention is in
  FirstEntities, FirstRelations, FirstClaims, \* what the database holds
  Bodies,      \* what a request says of an entity: name, aliases, type
  Relations,   \* relations an editor adds: from, to, type
  Statements,  \* claims made: statement, subject, spec
  Specs,       \* memory configurations claimed: bus width, density, total
  Stances, Verdicts, Trusts, \* what the editor chooses from
  Worker,      \* requests that run at the same time
  MaxClaims, MaxEntities, MaxEdits, \* bounds
  Unset

Sources == {SourceOf[e] : e \in Ev}

ASSUME ClaimsNumbers ==
  /\ MaxClaims \in Nat /\ MaxEntities \in Nat /\ MaxEdits \in Nat /\ IsFiniteSet(Ev)
  /\ Trusts \subseteq 0..100
  /\ Stances \subseteq {"supports", "weakens", "contradicts"} /\ Unset \notin Ev \cup Stances
  /\ Verdicts \subseteq {"open", "confirmed", "debunked", "retracted"}
  /\ \E n \in 0..MaxClaims : DOMAIN FirstClaims = 1..n  \* a sequence

VARIABLES
  entities,    \* name, aliases, type, in the order of their ids
  relations,   \* from, to, type
  mentions,    \* of each mention: status, entity
  tagged,      \* pairs <<candidate, entity>>
  trust,       \* of each source
  claims,      \* statement, subject, spec, status, confidence
  links,       \* of each claim: the stance of each piece of evidence, or Unset
  timeline,    \* of each claim: type, confidence
  suggestions, \* of each pair <<claim, evidence>>: status, or Unset
  request,     \* what each request has loaded
  overlapped,  \* claims written by a request that had loaded an older state
  repriced,    \* claims whose evidence changed in trust since it was counted
  edits

graph == <<entities, relations, mentions, tagged>>
ledger == <<claims, links, timeline, suggestions>>
history == <<overlapped, repriced>>
claimsVars == <<graph, trust, ledger, request, history, edits>>

Pairs == (1..MaxClaims) \X Ev
NoLinks == [e \in Ev |-> Unset]
CLAIM_CREATED == <<[type |-> "created", confidence |-> 5000]>>

AsOpened(body) == [statement |-> body.statement, subject |-> body.subject, spec |-> body.spec, status |-> "open", confidence |-> 5000]

ClaimsInit ==
  /\ entities = FirstEntities /\ relations = FirstRelations
  /\ mentions = [m \in Mention |-> [status |-> "candidate", entity |-> Unset]] /\ tagged = {}
  /\ trust = [s \in Sources |-> 50]
  /\ claims = [c \in DOMAIN FirstClaims |-> AsOpened(FirstClaims[c])]
  /\ links = [c \in DOMAIN FirstClaims |-> NoLinks]
  /\ timeline = [c \in DOMAIN FirstClaims |-> CLAIM_CREATED]
  /\ suggestions = [p \in Pairs |-> Unset]
  /\ request = [w \in Worker |-> Unset]
  /\ overlapped = {} /\ repriced = {} /\ edits = 0

ByOperator == edits < MaxEdits /\ edits' = edits + 1

-----------------------------------------------------------------------------
(* Entities *)

Phrases(entity) == {entity.name} \cup entity.aliases
Spelled(entity) == {Norm[p] : p \in Phrases(entity)}

\* _find_equivalent_entity: the first of them, or 0.
Equivalent(phrase) ==
  LET same == {n \in DOMAIN entities : Norm[phrase] \in Spelled(entities[n])}
  IN IF same = {} THEN 0 ELSE CHOOSE n \in same : \A m \in same : n <= m

\* _clean_aliases: one spelling of each, and none of the name.
Cleaned(body) ==
  [body EXCEPT !.aliases = {CHOOSE a \in body.aliases : Norm[a] = k :
                              k \in {Norm[a] : a \in body.aliases} \ {Norm[body.name]}}]

\* The column is unique.
NameFree(name, but) == \A n \in DOMAIN entities \ but : entities[n].name # name

Appended(body) ==
  /\ Len(entities) < MaxEntities /\ NameFree(body.name, {}) /\ entities' = Append(entities, body)

\* POST /api/entities; the command compares names only, and cleans nothing.
CreateEntity ==
  /\ ByOperator /\ \E body \in Bodies : Equivalent(body.name) = 0 /\ Appended(Cleaned(body))
  /\ UNCHANGED <<relations, mentions, tagged, trust, ledger, request, history>>
EntityAdd ==
  /\ ByOperator /\ \E body \in Bodies : Appended(body)
  /\ UNCHANGED <<relations, mentions, tagged, trust, ledger, request, history>>

Updated(n, body) ==
  /\ Equivalent(body.name) \in {0, n} /\ NameFree(body.name, {n})
  /\ entities' = [entities EXCEPT ![n] = Cleaned(body)]

UpdateEntity ==
  /\ ByOperator /\ \E n \in DOMAIN entities, body \in Bodies : Updated(n, body)
  /\ UNCHANGED <<relations, mentions, tagged, trust, ledger, request, history>>

EntityRelate ==
  /\ ByOperator
  /\ \E r \in Relations \ {relations[k] : k \in DOMAIN relations} :
       {r.from, r.to} \subseteq DOMAIN entities /\ relations' = Append(relations, r)
  /\ UNCHANGED <<entities, mentions, tagged, trust, ledger, request, history>>

\* _matching_candidate_mentions
Waiting(phrase) == {m \in Mention : mentions[m].status = "candidate" /\ Norm[Said[m]] = Norm[phrase]}

\* mention_proposals
Proposals == {Said[m] : m \in {n \in Mention : mentions[n].status = "candidate"}}

\* _sync_candidate_entities: of the candidates the signals are in.
Tagged(ms, n) == tagged \cup ((UNION {Holders[m] : m \in ms}) \X {n})

\* resolve_group
Resolved(ms, n) ==
  /\ mentions' = [m \in Mention |-> IF m \in ms THEN [status |-> "resolved", entity |-> n] ELSE mentions[m]]
  /\ tagged' = Tagged(ms, n)
WithAlias(entity, phrase) ==
  IF Norm[phrase] \in Spelled(entity) THEN entity ELSE [entity EXCEPT !.aliases = @ \cup {phrase}]

ResolveMention ==
  /\ ByOperator
  /\ \E phrase \in Proposals, alias \in BOOLEAN :
       LET ms == Waiting(phrase)
           Named(entity) == IF alias THEN WithAlias(entity, phrase) ELSE entity
       IN \/ \E n \in DOMAIN entities :
               entities' = [entities EXCEPT ![n] = Named(@)] /\ Resolved(ms, n)
          \/ \E body \in Bodies :
               /\ Equivalent(body.name) = 0 /\ Appended(Named(Cleaned(body)))
               /\ Resolved(ms, Len(entities) + 1)
  /\ UNCHANGED <<relations, trust, ledger, request, history>>

\* reject_group
Rejected(ms, status) ==
  mentions' = [m \in Mention |-> IF m \in ms THEN [mentions[m] EXCEPT !.status = status] ELSE mentions[m]]

DisposeMention ==
  /\ ByOperator /\ \E phrase \in Proposals, status \in {"rejected", "ignored"} : Rejected(Waiting(phrase), status)
  /\ UNCHANGED <<entities, relations, tagged, trust, ledger, request, history>>

-----------------------------------------------------------------------------
(* The graph *)

\* What related_entities makes of a relation, for the entity it is at: the
\* other end is found, unless it was, over an earlier relation of the list too.
Followed(s, r, at) ==
  LET n == IF r.from = at.entity THEN r.to ELSE r.from
  IN IF at.entity \notin {r.from, r.to} \/ n \in s.visited THEN s
     ELSE [visited |-> s.visited \cup {n}, found |-> Append(s.found, [entity |-> n, depth |-> at.depth + 1])]

Beside(at, visited) ==
  LET over[k \in 0..Len(relations)] ==
        IF k = 0 THEN [visited |-> visited, found |-> <<>>] ELSE Followed(over[k - 1], relations[k], at)
  IN over[Len(relations)]

\* Mutant of Queued: the last found is visited first.
QueuedFirst(queue, found) == found \o queue

Queued(queue, found) == queue \o found

\* One turn of its loop.
Visit(s, depth) ==
  IF s.queue = <<>> THEN s
  ELSE LET at == Head(s.queue)
           beside == Beside(at, s.visited)
       IN IF at.depth >= depth THEN [s EXCEPT !.queue = Tail(@)]
          ELSE [queue |-> Queued(Tail(s.queue), beside.found), visited |-> beside.visited,
                results |-> s.results \o beside.found]

RelatedEntities(n, depth) ==
  LET loop[k \in 0..Len(entities)] ==
        IF k = 0 THEN [queue |-> <<[entity |-> n, depth |-> 0]>>, visited |-> {n}, results |-> <<>>]
        ELSE Visit(loop[k - 1], depth)
  IN loop[Len(entities)].results

\* _company_for_entity
Company(n) ==
  LET makers == {relations[k].to : k \in {j \in DOMAIN relations :
                   relations[j].from = n /\ relations[j].type = "manufactured_by"}}
      maker == CHOOSE m \in makers : TRUE
  IN IF n \notin DOMAIN entities THEN Unset
     ELSE IF entities[n].type = "company" THEN n
     ELSE IF makers # {} /\ entities[maker].type = "company" THEN maker ELSE Unset

-----------------------------------------------------------------------------
(* Claims *)

\* What the votes of stance records add up to.
Scored(records) ==
  LET by(stance) == {e \in DOMAIN records : records[e].stance = stance}
      weight(E) == FoldSet(LAMBDA e, sum : sum + records[e].trust, 0, E)
      backers == Cardinality({SourceOf[e] : e \in by("supports")})
      score == 5000 + 15 * weight(by("supports")) - 10 * weight(by("weakens")) - 25 * weight(by("contradicts"))
               + (IF backers > 1 THEN Min({500 * (backers - 1), 2000}) ELSE 0)
  IN Max({200, Min({9800, score})})

\* compute_confidence
ComputeConfidence(records) == IF DOMAIN records = {} THEN 5000 ELSE Scored(records)

\* Of each piece of evidence that is linked, with the trust in its source.
StanceRecords(stances, trusts) ==
  [e \in {d \in Ev : stances[d] # Unset} |-> [stance |-> stances[e], trust |-> trusts[SourceOf[e]]]]
Confidence(stances) == ComputeConfidence(StanceRecords(stances, trust))

NewClaim(body, stances, events) ==
  /\ Len(claims) < MaxClaims
  /\ claims' = Append(claims, [AsOpened(body) EXCEPT !.confidence = Confidence(stances)])
  /\ links' = Append(links, stances) /\ timeline' = Append(timeline, CLAIM_CREATED \o events)
  /\ UNCHANGED <<graph, trust, suggestions, request, history>>

\* POST /api/claims; the command does not look for the subject.
CreateClaim ==
  /\ ByOperator
  /\ \E body \in Statements : body.subject \in DOMAIN entities \cup {Unset} /\ NewClaim(body, NoLinks, <<>>)
ClaimCreate == ByOperator /\ \E body \in Statements : NewClaim(body, NoLinks, <<>>)

\* POST /api/radar/candidates/{id}/claims: with the evidence of a report.
ClaimOfReport ==
  /\ ByOperator
  /\ \E body \in Statements, e \in Ev, stance \in Stances :
       LET stances == [NoLinks EXCEPT ![e] = stance] IN
       /\ body.subject \in DOMAIN entities \cup {Unset}
       /\ NewClaim(body, stances, <<[type |-> "linked", confidence |-> Confidence(stances)]>>)

\* check_memory_configuration: density in gigabits, total in eighths of a GB.
Buildable(spec) ==
  /\ spec.bus > 0 /\ spec.bus % 32 = 0 /\ spec.density > 0
  /\ spec.total \in {(spec.bus \div 32) * spec.density, 2 * (spec.bus \div 32) * spec.density}

\* MemorySpecClaimService.create: the check is an event of the claim.
Checked(body, spec) ==
  NewClaim([body EXCEPT !.spec = spec], NoLinks,
           <<[type |-> IF Buildable(spec) THEN "check_passed" ELSE "contradiction", confidence |-> 5000]>>)
CreateMemorySpec == ByOperator /\ \E body \in Statements, spec \in Specs : Checked(body, spec)

\* Source.trust_weight changes; no claim is computed again.
UpdateSource ==
  /\ ByOperator
  /\ \E s \in Sources, t \in Trusts :
       /\ t # trust[s] /\ trust' = [trust EXCEPT ![s] = t]
       /\ repriced' = repriced \cup {c \in DOMAIN claims : \E e \in Ev : links[c][e] # Unset /\ SourceOf[e] = s}
  /\ UNCHANGED <<graph, ledger, request, overlapped>>

-----------------------------------------------------------------------------
(* Requests about a claim *)

Ask(w, op, c, e, choice) ==
  /\ ByOperator /\ request[w] = Unset
  /\ request' = [request EXCEPT ![w] =
       [op |-> op, claim |-> c, evidence |-> e, choice |-> choice, loaded |-> claims[c],
        stance |-> IF e = Unset THEN Unset ELSE links[c][e], length |-> Len(timeline[c])]]
  /\ UNCHANGED <<graph, trust, ledger, history>>

Linked(c) == {e \in Ev : links[c][e] # Unset}

LinkEvidence(w) ==
  \E c \in DOMAIN claims, stance \in Stances : \E e \in Ev \ Linked(c) : Ask(w, "link", c, e, stance)
\* The command does not look for the link.
LinkCommand(w) ==
  \E c \in DOMAIN claims, e \in Ev, stance \in Stances : Ask(w, "link", c, e, stance)
UpdateClaimEvidence(w) ==
  \E c \in DOMAIN claims, stance \in Stances : \E e \in Linked(c) : Ask(w, "update", c, e, stance)
UnlinkClaimEvidence(w) ==
  \E c \in DOMAIN claims : \E e \in Linked(c) : Ask(w, "unlink", c, e, Unset)
ResolveClaim(w) ==
  \E c \in DOMAIN claims, status \in Verdicts : Ask(w, "resolve", c, Unset, status)
AcceptSuggestion(w) ==
  \E c \in DOMAIN claims, stance \in Stances : \E e \in Ev \ Linked(c) :
    suggestions[<<c, e>>] = "pending" /\ Ask(w, "accept", c, e, stance)
RejectSuggestion(w) ==
  \E c \in DOMAIN claims, e \in Ev :
    suggestions[<<c, e>>] = "pending" /\ Ask(w, "reject", c, e, Unset)

\* The commands ask the same.
ResolveCommand(w) == ResolveClaim(w)
AcceptCommand(w) == AcceptSuggestion(w)
RejectCommand(w) == RejectSuggestion(w)

\* The confidence is written when it differs from the one that was loaded.
Recorded(q, confidence, type) ==
  /\ claims' = [claims EXCEPT ![q.claim].confidence = IF confidence = q.loaded.confidence THEN @ ELSE confidence]
  /\ timeline' = [timeline EXCEPT ![q.claim] = Append(@, [type |-> type, confidence |-> confidence])]
  /\ overlapped' = overlapped \cup (IF Len(timeline[q.claim]) # q.length THEN {q.claim} ELSE {})
  /\ repriced' = repriced \ {q.claim}

\* Mutant of Insertable: no constraint on the pair.
InsertableTwice(q) == TRUE

\* uq on (claim_id, evidence_id): otherwise the request fails.
Insertable(q) == links[q.claim][q.evidence] = Unset

\* Mutant of Unlinked: the confidence is computed before the row is gone.
UnlinkedLate(c, e) == links[c]

\* What is left when the delete is flushed.
Unlinked(c, e) == [links[c] EXCEPT ![e] = Unset]

\* SuggestionRepository.accept: the link, then the suggestion.
Judged(q) ==
  IF q.op = "accept" THEN [suggestions EXCEPT ![<<q.claim, q.evidence>>] = "accepted"] ELSE suggestions

WriteLink(q) ==
  LET stances == [links[q.claim] EXCEPT ![q.evidence] = q.choice] IN
  IF ~Insertable(q) THEN UNCHANGED <<ledger, history>>
  ELSE /\ links' = [links EXCEPT ![q.claim] = stances]
       /\ Recorded(q, Confidence(stances), "linked")
       /\ suggestions' = Judged(q)

\* The session counts the link with the stance it was given, also when that
\* is the one it had loaded and nothing is written.  A changed stance of a
\* link that is gone fails.
WriteUpdate(q) ==
  LET gone == links[q.claim][q.evidence] = Unset
      stances == IF gone THEN links[q.claim] ELSE [links[q.claim] EXCEPT ![q.evidence] = q.choice]
  IN IF gone /\ q.choice # q.stance THEN UNCHANGED <<ledger, history>>
     ELSE /\ links' = IF q.choice = q.stance THEN links ELSE [links EXCEPT ![q.claim] = stances]
          /\ Recorded(q, Confidence(stances), "updated")
          /\ UNCHANGED suggestions

\* Deleting what is gone is only a warning.
WriteUnlink(q) ==
  /\ links' = [links EXCEPT ![q.claim][q.evidence] = Unset]
  /\ Recorded(q, Confidence(Unlinked(q.claim, q.evidence)), "unlinked")
  /\ UNCHANGED suggestions

WriteVerdict(q) ==
  /\ claims' = [claims EXCEPT ![q.claim].status = IF q.choice = q.loaded.status THEN @ ELSE q.choice]
  /\ timeline' = [timeline EXCEPT ![q.claim] = Append(@, [type |-> "status", confidence |-> q.loaded.confidence])]
  /\ overlapped' = overlapped \cup (IF Len(timeline[q.claim]) # q.length THEN {q.claim} ELSE {})
  /\ UNCHANGED <<links, suggestions, repriced>>

WriteRejection(q) ==
  /\ suggestions' = [suggestions EXCEPT ![<<q.claim, q.evidence>>] = "rejected"]
  /\ UNCHANGED <<claims, links, timeline, history>>

Write(w) ==
  /\ request[w] # Unset
  /\ LET q == request[w] IN
       \/ q.op \in {"link", "accept"} /\ WriteLink(q)
       \/ q.op = "update" /\ WriteUpdate(q)
       \/ q.op = "unlink" /\ WriteUnlink(q)
       \/ q.op = "resolve" /\ WriteVerdict(q)
       \/ q.op = "reject" /\ WriteRejection(q)
  /\ request' = [request EXCEPT ![w] = Unset]
  /\ UNCHANGED <<graph, trust, edits>>

-----------------------------------------------------------------------------
(* Suggestions *)

\* find_entity_mentions
MentionedIn(e) == {n \in DOMAIN entities : (Phrases(entities[n]) \ Short) \cap Naming[e] # {}}

\* score_claim reaches MIN_SUGGESTION_SCORE: by the subject, or by the words.
Relevant(c, e) == claims[c].subject \in MentionedIn(e) \/ <<claims[c].statement, e>> \in Overlapping

\* SuggestionService.run, of some or all of the evidence.
Scanned(E) ==
  [p \in Pairs |->
    IF /\ p[1] \in DOMAIN claims /\ claims[p[1]].status = "open"
       /\ p[2] \in E \ Linked(p[1]) /\ suggestions[p] = Unset /\ Relevant(p[1], p[2])
    THEN "pending" ELSE suggestions[p]]

RunSuggestions ==
  /\ ByOperator /\ suggestions' = Scanned(Ev)
  /\ UNCHANGED <<graph, trust, claims, links, timeline, request, history>>
SuggestRun ==
  /\ ByOperator /\ \E E \in SUBSET Ev : suggestions' = Scanned(IF E = {} THEN Ev ELSE E)
  /\ UNCHANGED <<graph, trust, claims, links, timeline, request, history>>

-----------------------------------------------------------------------------
(* Track records *)

\* build_report: the verdicts that judge a vote.
Settled == {"confirmed", "debunked"}

Votes(s) == {p \in Pairs : /\ p[1] \in DOMAIN claims /\ SourceOf[p[2]] = s
                           /\ claims[p[1]].status \in Settled
                           /\ links[p[1]][p[2]] \in {"supports", "contradicts"}}
Correct(p) == <<links[p[1]][p[2]], claims[p[1]].status>> \in {<<"supports", "confirmed">>, <<"contradicts", "debunked">>}
Bucket(votes) == [total |-> Cardinality(votes), correct |-> Cardinality({p \in votes : Correct(p)})]

Report(s) ==
  [overall |-> Bucket(Votes(s)),
   by_company |-> [n \in {Company(claims[p[1]].subject) : p \in Votes(s)} \ {Unset} |->
                     Bucket({p \in Votes(s) : Company(claims[p[1]].subject) = n})]]

-----------------------------------------------------------------------------
Edit ==
  \/ CreateEntity \/ EntityAdd \/ UpdateEntity \/ EntityRelate \/ ResolveMention \/ DisposeMention
  \/ CreateClaim \/ ClaimCreate \/ ClaimOfReport \/ CreateMemorySpec \/ UpdateSource \/ RunSuggestions \/ SuggestRun

Demand(w) ==
  \/ LinkEvidence(w) \/ LinkCommand(w) \/ UpdateClaimEvidence(w) \/ UnlinkClaimEvidence(w)
  \/ ResolveClaim(w) \/ AcceptSuggestion(w) \/ RejectSuggestion(w)
  \/ ResolveCommand(w) \/ AcceptCommand(w) \/ RejectCommand(w)

ClaimsNext == Edit \/ \E w \in Worker : Demand(w) \/ Write(w)

ClaimsSpec == ClaimsInit /\ [][ClaimsNext]_claimsVars

-----------------------------------------------------------------------------
(* Properties *)

\* The types: claims, links and timeline have the same ids, and relations and
\* tags are of entities that exist.
ClaimsTypeOK ==
  /\ \A k \in DOMAIN relations : {relations[k].from, relations[k].to} \subseteq DOMAIN entities
  /\ \A m \in Mention :
       /\ mentions[m].status \in {"candidate", "resolved", "rejected", "ignored"}
       /\ mentions[m].entity \in DOMAIN entities \cup {Unset}
  /\ \A t \in tagged : t[2] \in DOMAIN entities
  /\ trust \in [Sources -> 0..100]
  /\ DOMAIN links = DOMAIN claims /\ DOMAIN timeline = DOMAIN claims
  /\ \A c \in DOMAIN claims :
       /\ claims[c].status \in {"open", "confirmed", "debunked", "retracted"}
       /\ claims[c].confidence \in 200..9800 /\ links[c] \in [Ev -> Stances \cup {Unset}]
  /\ suggestions \in [Pairs -> {Unset, "pending", "accepted", "rejected"}]
  /\ \A w \in Worker : request[w] # Unset => request[w].claim \in DOMAIN claims
  /\ overlapped \cup repriced \subseteq DOMAIN claims /\ edits \in 0..MaxEdits

\* "linking evidence recomputes confidence": the confidence of a claim is that
\* of the evidence linked to it, unless two requests about it overlapped or
\* the trust in a source has changed since.
ConfidenceIsCurrent ==
  \A c \in DOMAIN claims \ (overlapped \cup repriced) : claims[c].confidence = Confidence(links[c])

\* "every state change is both scored and recorded": the timeline of a claim
\* accounts for its links and ends with its confidence, unless two requests
\* about it overlapped.
Happened(c, type) == Cardinality({k \in DOMAIN timeline[c] : timeline[c][k].type = type})
TimelineAddsUp ==
  \A c \in DOMAIN claims \ overlapped :
    /\ Cardinality(Linked(c)) = Happened(c, "linked") - Happened(c, "unlinked")
    /\ Last(timeline[c]).confidence = claims[c].confidence

\* "The only path from a suggestion to a real link": what is accepted made its
\* link then, and no stance that an editor had chosen is replaced by it.
AcceptedOnce ==
  [][\A p \in Pairs : suggestions[p] # "accepted" /\ suggestions[p]' = "accepted" =>
       links[p[1]][p[2]] = Unset /\ links[p[1]][p[2]]' # Unset]_claimsVars

\* Breadth-first traversal, "edges treated as undirected": related entities
\* are those within the depth, each once, at its distance, however many
\* relations there are between two entities and ways from one to another.
Adjacent(m, n) == \E k \in DOMAIN relations : {relations[k].from, relations[k].to} = {m, n}
Within(n, k) ==
  LET w[j \in 0..k] ==
        IF j = 0 THEN {n}
        ELSE LET nearer == w[j - 1]
             IN nearer \cup {m \in DOMAIN entities : \E o \in nearer : Adjacent(m, o)}
  IN w[k]
GraphIsDistance ==
  \A n \in DOMAIN entities, depth \in 1..3 :
    LET found == RelatedEntities(n, depth) IN
    /\ IsInjective(found)
    /\ \A k \in 1..depth :
         {found[i].entity : i \in {j \in DOMAIN found : found[j].depth = k}} = Within(n, k) \ Within(n, k - 1)

\* "The accuracy of a source" follows verdicts: it changes only with the
\* verdict on a claim, or with a link of a claim that has one.
TrackRecordIsEarned ==
  [][\A s \in Sources : Report(s).overall' # Report(s).overall =>
       \E c \in DOMAIN claims : \/ claims[c].status' # claims[c].status
                               \/ (claims[c].status # "open" /\ links[c]' # links[c])]_claimsVars

\* "five posts from one leaker can't outscore two independent ones".
\* Does not hold: they do, with any trust above 11 hundredths.
LeakersDoNotOutscore ==
  \A t \in Trusts : 5000 + 15 * 5 * t <= 5000 + 15 * 2 * t + 500
=============================================================================
