----------------------------- MODULE MCJournal -----------------------------
(***************************************************************************)
(* Journal for TLC: the command lines of each run, and their bounds.       *)
(***************************************************************************)
EXTENDS Journal

SingleFile == [rotateAfter |-> 0, aged |-> FALSE, budget |-> 0, signing |-> FALSE,
               maxEvents |-> 3, maxBoots |-> 3, maxCrashes |-> 2]
Signed == [SingleFile EXCEPT !.signing = TRUE]
Rotated == [SingleFile EXCEPT !.rotateAfter = 3]
Pruned == [SingleFile EXCEPT !.rotateAfter = 2, !.budget = 4, !.maxEvents = 6,
                             !.maxBoots = 1, !.maxCrashes = 1]

Unlimited == {SingleFile, Signed, Rotated, [Rotated EXCEPT !.aged = TRUE]}
Retaining == {Pruned, [Pruned EXCEPT !.budget = 3],
              [Pruned EXCEPT !.aged = TRUE, !.signing = TRUE]}
AllOptions == Unlimited \cup Retaining

\* One kill in the middle of a line; a restart behind a pruned series.
OnlySingleFile == {[SingleFile EXCEPT !.maxEvents = 4, !.maxBoots = 2, !.maxCrashes = 1]}
OnlyPruned == {[Pruned EXCEPT !.maxBoots = 2, !.maxCrashes = 0],
               [Pruned EXCEPT !.maxBoots = 2, !.maxCrashes = 0, !.budget = 3]}
=============================================================================
