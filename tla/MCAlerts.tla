------------------------------ MODULE MCAlerts ------------------------------
(* A small instance of Alerts. *)
EXTENDS Alerts

MCPreset ==
  [balanced |-> [threshold |-> 1, groups |-> 1, failures |-> 1, digest |-> FALSE],
   quiet |-> [threshold |-> 1, groups |-> 2, failures |-> 2, digest |-> TRUE]]

MCBodies == {[recovery |-> FALSE]}

MCNone == -1
=============================================================================
