------------------------------- MODULE MCRadar ------------------------------
(* A small instance of Radar: two items of one topic by two authors, and a  *)
(* third that repeats the first; a site they cite, a name they mention; and  *)
(* two promotions, which may be under way at once.                          *)
EXTENDS Radar, TLC

CONSTANTS x1, x2, topic, site, name, ann, bob, u1, u2, p1, p2

MCTrait ==
  1 :> [author |-> ann, url |-> u1, parent |-> 0, credits |-> {}, artifact |-> Nil,
         text |-> x1, names |-> {name}]
  @@ 2 :> [author |-> bob, url |-> u2, parent |-> 0, credits |-> {}, artifact |-> Nil,
            text |-> x2, names |-> {}]
  @@ 3 :> [author |-> bob, url |-> u1, parent |-> 1, credits |-> {}, artifact |-> Nil,
            text |-> x1, names |-> {name}]
MCAbout == x1 :> {topic} @@ x2 :> {topic}
MCCites == x1 :> {site} @@ x2 :> {}
MCKind == site :> "domain" @@ name :> "handle"
MCAlike == {}
MCNone == -1
MCAlikePromoters == Permutations({p1, p2})
=============================================================================
