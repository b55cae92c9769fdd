------------------------------ MODULE MCOutbox ------------------------------
(* Two alerts, one story that correlates both.                              *)
EXTENDS Outbox

CONSTANTS a1, a2, s1

MCAlert == {a1, a2}
MCStory == {s1}
MCEvidence == [s \in MCStory |-> MCAlert]
=============================================================================
