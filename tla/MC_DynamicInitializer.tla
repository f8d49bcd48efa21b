--------------------- MODULE MC_DynamicInitializer ---------------------
(* Model-checking instance of DynamicInitializer: two goroutines calling  *)
(* Init, a store that is empty or holds a valid, an invalid or a nil      *)
(* placement and may change twice.                                        *)
EXTENDS DynamicInitializer, MC_Placements

MCServices == {Spread, MissingOne, NilService}
MCMaxUpdates == 2
=============================================================================
