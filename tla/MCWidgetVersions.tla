--------------------------- MODULE MCWidgetVersions ---------------------------
(* WidgetVersions on small instances.                                      *)
EXTENDS WidgetVersions, TLC

Symmetry == Permutations(Versions) \cup Permutations(Configs) \cup Permutations(Admins)
===============================================================================
