---------------------------- MODULE MCClustering ----------------------------
(***************************************************************************)
(* Three centroids for two threads, so that the slices differ; three       *)
(* points, where n - k is zero, sampled down from four or not, and four;   *)
(* two calls with one redo or one with two, builds with and without        *)
(* asserts.                                                                *)
(***************************************************************************)
EXTENDS Clustering
=============================================================================
