--------------------------- MODULE MCJobEventBus ---------------------------
(***************************************************************************)
(* Instances of JobEventBus for TLC: the constants are model values that    *)
(* the .cfg files name.                                                    *)
(***************************************************************************)
EXTENDS JobEventBus, TLC
=============================================================================
