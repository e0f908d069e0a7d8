----------------------------- MODULE MCSettings -----------------------------
(* Instances of Settings for TLC: what the catalogue may say of the key, and *)
(* how much happens to it.                                                   *)
EXTENDS Settings

Guarded == [remote |-> TRUE, arm |-> TRUE]
Plain == [remote |-> TRUE, arm |-> FALSE]
ViewOnly == [remote |-> FALSE, arm |-> FALSE]
Case(d, b, c, e, k, n) ==
  [defn |-> d, backend |-> b, changes |-> c, edits |-> e, backups |-> k, drops |-> n]

\* Backups and lost connections multiply: they are taken one at a time, and two
\* overlapping changes with a lost connection on the simulated device, which
\* refuses nothing.
SettingScenarios ==
  {Case(Plain, "real", 2, FALSE, FALSE, 0), Case(Plain, "simulated", 2, FALSE, FALSE, 1),
   Case(Plain, "real", 1, FALSE, FALSE, 1), Case(Plain, "simulated", 1, FALSE, TRUE, 0),
   Case(Guarded, "real", 2, TRUE, FALSE, 0), Case(Guarded, "real", 1, TRUE, FALSE, 1),
   Case(Guarded, "real", 1, TRUE, TRUE, 0), Case(ViewOnly, "real", 1, TRUE, TRUE, 0)}
RestoredGuarded == {Case(Guarded, "real", 1, FALSE, TRUE, 0)}
=============================================================================
