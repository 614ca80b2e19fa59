--------------------------- MODULE MCReminderCases ---------------------------
(***************************************************************************)
(* Small instances of ReminderCases.                                       *)
(***************************************************************************)
EXTENDS ReminderCases, TLC

Symmetry == Permutations(Requests) \cup Permutations(Channels)
=============================================================================
