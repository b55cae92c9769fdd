---------------------------- MODULE MCCollection ----------------------------
(* A small instance of Collection: a feed of the plugins, a feed that is    *)
(* polled, and an old database that knows the second and one more.          *)
EXTENDS Collection, TLC

CONSTANTS plugged, polled, other, p, wire, n, cycle, command, past, run1, run2, who

MCProvider == p :> "manual" @@ wire :> "rss" @@ n :> "x"
FirstRow(f, polling) ==
  [feed |-> f, cursor |-> Nil, enabled |-> TRUE, polling |-> polling, age |-> None, error |-> FALSE]
MCStart == p :> FirstRow(plugged, FALSE) @@ wire :> FirstRow(polled, TRUE) @@ n :> Nil
MCBad == {<<polled, 2>>}
MCMaxEntry == [f \in Feed |-> IF f = polled THEN 3 ELSE 1]
MCFirstEntries == [f \in Feed |-> IF f = plugged THEN 0 ELSE 1]
MCPictured == {<<polled, 1>>}
MCInterval == [s \in Source |-> 1]
MCDelay == [s \in Source |-> IF s = wire THEN 1 ELSE 0]
MCLegacy ==
  [sources |-> past :> [feed |-> other, cursor |-> <<other, 1>>, slot |-> n],
   posts |-> <<other, 1>> :> past, runs |-> run1 :> past @@ run2 :> Nil, handles |-> {who}]
MCEdits == {[feed |-> other, enabled |-> TRUE, polling |-> TRUE]}
MCNone == -1
MCCategories == {{"media"}, {"provider_runs", "source_suggestions"}}
=============================================================================
