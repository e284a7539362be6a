--------------------------- MODULE MCConfigStore ----------------------------
(* Model checking of ConfigStore: three keys in two namespaces.            *)
EXTENDS ConfigStore, TLC

MCKeys == {<<1, 1>>, <<1, 2>>, <<2, 1>>}

MCSymmetry == Permutations(Contents) \cup Permutations(Descriptions)
=============================================================================
