----------------------------- MODULE MCMigration -----------------------------
(* Small instances of Migration for TLC.                                   *)
EXTENDS Migration, TLC

CONSTANTS first, second, fork, edited, gap, empty

F(n, title, text) == [number |-> n, title |-> title, text |-> text]

\* The first release and its successor, which adds two steps.
FirstFiles == {F(1, "a", "x")}
SecondFiles == FirstFiles \cup {F(2, "a", "x"), F(3, "a", "x")}

\* A branch with another second step, a build that edits the released first
\* step, one with a gap in its numbers and one with an empty file.
AllShipped ==
  (first :> FirstFiles) @@ (second :> SecondFiles)
  @@ (fork :> FirstFiles \cup {F(2, "b", "x")})
  @@ (edited :> {F(1, "a", "y"), F(2, "a", "x")})
  @@ (gap :> FirstFiles \cup {F(3, "a", "x")})
  @@ (empty :> FirstFiles \cup {F(2, "a", Blank)})
=============================================================================
