--------------------------- MODULE MCInstallation ---------------------------
(* Two command lines at once over two versions of the package.             *)
EXTENDS Installation, TLC

Symmetry == Permutations(Runs)
=============================================================================
