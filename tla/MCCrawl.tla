------------------------------ MODULE MCCrawl -------------------------------
(* Four listings.  l1 and l2 carry one SKU under two model names; l3 shares    *)
(* the model of l1; l4 is a variant of l2, of another tier.  Only l1 is on the *)
(* site at first.  With the default threshold one listing of three is a        *)
(* collapsed catalogue, one of two is not.  The third content follows the      *)
(* second with another image: its key is taken.                                *)
EXTENDS Crawl

CONSTANTS l1, l2, l3, l4, x, y, p, q, r, base, pro

MCListing == {l1, l2, l3, l4}
MCSku == [l \in MCListing |-> IF l \in {l1, l2} THEN x ELSE Nil]
MCModelKey == [l \in MCListing |-> IF l \in {l1, l3} THEN p ELSE q]
\* For VariantLaunchedOnce: the variant shares the key of l1 and l3.
MCMixedKey == [l \in MCListing |-> IF l = l2 THEN q ELSE p]

MCTier == [l \in MCListing |-> IF l = l4 THEN pro ELSE base]
MCContent == {[spec |-> x, art |-> p], [spec |-> x, art |-> q], [spec |-> y, art |-> r]}
MCSite == [l \in MCListing |-> IF l = l1 THEN [spec |-> x, art |-> p] ELSE Nil]
=============================================================================
