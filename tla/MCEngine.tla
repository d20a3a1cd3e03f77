-------------------------------- MODULE MCEngine --------------------------------
(* Model-checking instances of Engine, with one caller (the platform's main    *)
(* thread) or with two.                                                        *)
EXTENDS Engine

CONSTANTS c1, c2

OneCaller == {c1}
TwoCallers == {c1, c2}

BothLeafs == {"pt", "main"}
MainLeaf == {"main"}
NoLeaf == {}
=================================================================================
