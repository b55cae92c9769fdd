----------------------------- MODULE MCDelivery -----------------------------
(* Instances of Delivery for TLC. *)
EXTENDS Delivery

CONSTANTS w1, w2

\* Two runs of the webhook at once, about one notification; and one run after
\* another, of both channels about it, of the webhook about a digest too, or of
\* either channel about two notifications, of which one is selected.
MCInstallation ==
  {[runs |-> Worker, channels |-> {"webhook"}, targets |-> {1}],
   [runs |-> {w1}, channels |-> Channel, targets |-> {1}],
   [runs |-> {w1}, channels |-> {"webhook"}, targets |-> {1, 3}],
   [runs |-> {w1}, channels |-> {"webhook"}, targets |-> {1, 2}],
   [runs |-> {w1}, channels |-> {"windows_desktop"}, targets |-> {1, 2}]}
=============================================================================
