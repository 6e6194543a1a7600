---------------------- MODULE MCPrefetchingDataLayer ----------------------
(***************************************************************************)
(* The prefetching layer on small instances: fewer buffers than Forwards,  *)
(* so that every buffer is reused, and a batch size that does not divide   *)
(* the number of lines, so that the list wraps around inside a batch.      *)
(***************************************************************************)
EXTENDS PrefetchingDataLayer
=============================================================================
