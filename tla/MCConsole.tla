----------------------------- MODULE MCConsole -----------------------------
(* Two conversations and two folders: the instance of module Console that TLC checks. *)
EXTENDS Console

CONSTANTS a, b

MCThreads == {1, 2}
MCTexts == {a, b}
\* The bounds of the instance are not reached all at once.
MCBudget == clicks + keys <= MaxClicks /\ clicks + faults + keys + arrivals <= MaxClicks + 2 /\ 2 * keys + arrivals <= 4

MCSymmetry == Permutations(MCTexts)
=============================================================================
