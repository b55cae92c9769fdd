----------------------------- MODULE MCFeedback -----------------------------
(* An instance of Feedback for TLC. *)
EXTENDS Feedback, TLC

CONSTANTS w1, w2

Symmetry == Permutations(Worker)

Made(type, product, minor) ==
  [collector |-> "shop", type |-> type, product |-> product, minor |-> minor]

MCTrait ==
  <<Made("images_changed", "p", FALSE), Made("price_changed", "p", TRUE),
    Made("price_changed", "q", FALSE)>>

MCBodies ==
  {[outcome |-> "NOISE", reasons |-> {"CDN_URL_CHURN", "DUPLICATE_ALERT"}],
   [outcome |-> "HIT", reasons |-> {}]}

MCScopes == {1..3}

MCManual ==
  {[rule |-> "manual", collector |-> "shop", type |-> "price_changed",
    reason |-> "MINOR_PRICE_FLUCTUATION"]}
=============================================================================
