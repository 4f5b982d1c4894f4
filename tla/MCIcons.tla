------------------------------ MODULE MCIcons -------------------------------
(***************************************************************************)
(* Small instances of Icons for TLC.                                       *)
(***************************************************************************)
EXTENDS Icons, TLC

FirstVersions == {1}
Symmetry == Permutations(Workers) \cup Permutations(Consumers)
              \cup Permutations(Owners) \cup Permutations(Files)
              \cup Permutations(Names)
=============================================================================
