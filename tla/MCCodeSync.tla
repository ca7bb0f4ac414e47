---------------------------- MODULE MCCodeSync ----------------------------
(* A small instance of CodeSync: one project with commits to come and one  *)
(* without.                                                                *)
EXTENDS CodeSync

CONSTANTS app, web, f1, g1

MCBoth      == <<app, web>>
MCProjectOf == [f \in Files |-> IF f = g1 THEN web ELSE app]
MCCommits   == [p \in Projects |-> IF p = app THEN 3 ELSE 1]
MCVersions  == [f \in Files |-> IF f = g1 THEN 1 ELSE 2]
=============================================================================
