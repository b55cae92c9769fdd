------------------------------ MODULE Editorial -----------------------------
(***************************************************************************)
(* How evidence becomes stories (editorial/service.py): the operators that *)
(* module Radar uses when it promotes a candidate and module Desk when it  *)
(* backfills the inbox.  A piece of evidence is named by its content, by   *)
(* which the table deduplicates it (content_hash).  The stories are a      *)
(* sequence, in the order of their ids; 0 is no story.                     *)
(***************************************************************************)
EXTENDS Integers, FiniteSets, Sequences

CONSTANTS
  Text,    \* contents of evidence
  Alike,   \* pairs of texts whose titles are similar (ratio at least 0.72)
  Cites,   \* the domains each text links to, noise and its own left out
  Window   \* days a story stays open for more coverage

\* The evidence of a story: what process_evidence looks up first.
StoriesOf(stories, t) == {n \in DOMAIN stories : t \in stories[n].evidence}
StoryOf(stories, t) ==
  IF StoriesOf(stories, t) = {} THEN 0 ELSE CHOOSE n \in StoriesOf(stories, t) : TRUE

\* _find_cluster: a recent story of one of these topics, with a similar
\* headline, the latest of them first.
FindCluster(stories, t, topics, today) ==
  LET open == {n \in DOMAIN stories : /\ stories[n].latest >= today - Window
                                      /\ stories[n].topics \cap topics # {}
                                      /\ <<t, stories[n].headline>> \in Alike}
  IN IF open = {} THEN 0
     ELSE CHOOSE n \in open : \A m \in open : stories[n].latest >= stories[m].latest

NewStory(t, topics, today) ==
  [headline |-> t, evidence |-> {t}, topics |-> topics, coverage |-> 1, fresh |-> 0,
   seen |-> FALSE, latest |-> today]

\* More evidence in a story: coverage, what is new since it was seen.
Covered(story, T, today) ==
  [story EXCEPT !.evidence = @ \cup T,
                !.coverage = @ + Cardinality(T),
                !.fresh = IF story.seen THEN @ + Cardinality(T) ELSE @,
                !.latest = IF T = {} \/ @ >= today THEN @ ELSE today]

\* One more report joins a story, and the topics it names.
Joined(story, t, topics, today) == [Covered(story, {t}, today) EXCEPT !.topics = @ \cup topics]

\* process_evidence, of a text that these enabled topics match: evidence that
\* has a story keeps it, evidence of no topic gets none.
Process(stories, t, topics, today) ==
  LET n == FindCluster(stories, t, topics, today) IN
  IF StoryOf(stories, t) # 0 \/ topics = {} THEN stories
  ELSE IF n = 0 THEN Append(stories, NewStory(t, topics, today))
  ELSE [stories EXCEPT ![n] = Joined(@, t, topics, today)]

\* Mutant of Attach: what another story tells is told again.
AttachAll(stories, n, T, today) ==
  [stories EXCEPT ![n] = Covered(@, T, today)]

\* _attach_evidence_to_known_story, for several pieces of evidence: one that
\* is in a story stays there.
Attach(stories, n, T, today) ==
  [stories EXCEPT ![n] = Covered(@, {t \in T : StoryOf(stories, t) = 0}, today)]

\* _refresh_source_suggestions: the domains cited by the evidence processed,
\* of those no source is registered for.
Cited(processed, registered) ==
  UNION {Cites[t] : t \in processed} \ registered
=============================================================================
