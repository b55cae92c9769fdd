---------------------------- MODULE AlertLedger ----------------------------
(***************************************************************************)
(* What the notification outbox of OEM Radar promises about one alert,     *)
(* with no database, no run and no webhook in sight.  An alert that was    *)
(* never due is never posted; a due alert may be posted, more than once    *)
(* when acknowledgements get lost, until it is acknowledged or dropped;    *)
(* and then it is never posted again.                                      *)
(***************************************************************************)
EXTENDS Naturals

CONSTANT Alert

VARIABLES
  state,  \* what became of each alert
  posts   \* how often each alert was delivered to the channel

Init ==
  /\ state = [a \in Alert |-> "quiet"]
  /\ posts = [a \in Alert |-> 0]

\* The alert is worth a notification.
Admit(a) ==
  /\ state[a] = "quiet"
  /\ state' = [state EXCEPT ![a] = "due"]
  /\ UNCHANGED posts

\* The alert reaches the channel; the sender does not know it yet.
Post(a) ==
  /\ state[a] = "due"
  /\ posts' = [posts EXCEPT ![a] = @ + 1]
  /\ UNCHANGED state

\* The sender records that the alert was delivered.
Acknowledge(a) ==
  /\ state[a] = "due"
  /\ posts[a] > 0
  /\ state' = [state EXCEPT ![a] = "acknowledged"]
  /\ UNCHANGED posts

\* Alerts withdrawn by the operator, replaced by a story or given up.
Drop(S) ==
  /\ S \subseteq {a \in Alert : state[a] = "due"}
  /\ state' = [a \in Alert |-> IF a \in S THEN "dropped" ELSE state[a]]
  /\ UNCHANGED posts

Next ==
  \/ \E a \in Alert : Admit(a) \/ Post(a) \/ Acknowledge(a)
  \/ \E S \in SUBSET Alert : Drop(S)

Spec == Init /\ [][Next]_<<state, posts>>
=============================================================================
