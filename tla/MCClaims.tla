------------------------------ MODULE MCClaims ------------------------------
(* A small instance of Claims: two sources with a piece of evidence each, a   *)
(* claim about a product, a graph of entities with several ways between them, *)
(* and two requests at a time.                                                *)
EXTENDS Claims, TLC

CONSTANTS e1, e2, blog, forum, rtx, RTX, nv, zen, arc, ada, m1, m2

MCSourceOf == e1 :> blog @@ e2 :> forum
MCNaming == e1 :> {rtx} @@ e2 :> {nv}
MCOverlapping == {<<"ships", e2>>}
MCNorm == rtx :> "rtx" @@ RTX :> "rtx" @@ nv :> "nv" @@ zen :> "zen" @@ arc :> "arc" @@ ada :> "ada"
MCSaid == m1 :> RTX @@ m2 :> zen
MCHolders == m1 :> {1} @@ m2 :> {1, 2}
Entity(name, aliases, type) == [name |-> name, aliases |-> aliases, type |-> type]
MCFirstEntities == <<Entity(rtx, {}, "product"), Entity(nv, {}, "company"), Entity(zen, {}, "product"),
                     Entity(arc, {}, "product")>>
MCBodies == {Entity(ada, {rtx, RTX, nv}, "product")}
Relation(from, to, type) == [from |-> from, to |-> to, type |-> type]
\* Two relations of the same entities, a loop; with a fifth entity they close
\* to a cycle of five, in which an entity is reached over two and over three.
MCFirstRelations ==
  <<Relation(1, 2, "manufactured_by"), Relation(1, 2, "competes_with"), Relation(3, 2, "competes_with"),
    Relation(3, 3, "successor_of"), Relation(1, 4, "successor_of")>>
MCRelations == {Relation(5, 3, "successor_of"), Relation(4, 5, "competes_with"), Relation(2, 4, "manufactured_by")}
Statement(statement, subject) == [statement |-> statement, subject |-> subject, spec |-> Unset]
MCFirstClaims == <<Statement("ships", 1)>>
MCStatements == {Statement("slips", 5)}
Config(bus, density, total) == [bus |-> bus, density |-> density, total |-> total]
MCSpecs == {Config(384, 16, 384), Config(384, 16, 128)}
Symmetry == Permutations(Worker)
=============================================================================
