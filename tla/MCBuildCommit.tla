--------------------------- MODULE MCBuildCommit ---------------------------
(* BuildCommit with three outputs, the first and the last on one path.     *)
EXTENDS BuildCommit

CONSTANTS index, util

TwoPaths == {index, util}
FirstIsLast == <<index, util, index>>
=============================================================================
