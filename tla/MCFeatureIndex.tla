--------------------------- MODULE MCFeatureIndex ---------------------------
(***************************************************************************)
(* FeatureIndex over two lists and three vectors, one of which has a NaN   *)
(* and no list; batches with it first, last and absent.                    *)
(***************************************************************************)
EXTENDS FeatureIndex, TLC

CONSTANTS a, b, nan

MCVectors == {a, b, nan}
MCKey     == a :> 0 @@ b :> 1 @@ nan :> -1
MCBatches == {<<a, b>>, <<nan, a>>, <<b, nan>>}
=============================================================================
