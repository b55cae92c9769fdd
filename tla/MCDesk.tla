------------------------------- MODULE MCDesk -------------------------------
(* A small instance of Desk: two articles that are captured and one that    *)
(* only a search finds, about one topic of the program and one of the       *)
(* editor.                                                                  *)
EXTENDS Desk, TLC

CONSTANTS t1, t2, t3, rdna, zen, near, far, web, request

MCWords == t1 :> {rdna} @@ t2 :> {zen} @@ t3 :> {rdna}
MCSite == t1 :> near @@ t2 :> near @@ t3 :> far
MCAlike == {<<t, t>> : t \in Text} \cup {<<t1, t3>>, <<t3, t1>>}
MCCites == t1 :> {} @@ t2 :> {far} @@ t3 :> {}
MCSeeds == <<rdna>>
MCBodies == {[name |-> zen, terms |-> {zen}, on |-> TRUE, priority |-> 10]}
=============================================================================
