------------------------- MODULE MCDescriptorBuild -------------------------
(* DescriptorBuild with interchangeable processes and units, followed until *)
(* the lock of a live build is removed: nothing is promised after that.     *)
EXTENDS DescriptorBuild, TLC

Symmetry == Permutations(Procs) \cup Permutations(Units)
KeptApart == ~stolen
=============================================================================
