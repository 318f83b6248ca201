--------------------------- MODULE MCStoreInstall ---------------------------
(* StoreInstall with two tarballs, the first with a file the second lacks.  *)
EXTENDS StoreInstall, TLC

CONSTANTS first, second, main, extra

TwoTarballs == {first, second}
TwoFiles == {main, extra}
OneFileLess == (first :> TwoFiles) @@ (second :> {main})
=============================================================================
