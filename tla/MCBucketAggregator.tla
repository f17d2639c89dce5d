------------------------- MODULE MCBucketAggregator -------------------------
(***************************************************************************)
(* Small instances of BucketAggregator: a bucket of two seconds, so that a *)
(* flush can fall inside one, and an expiry of three, so that a counter    *)
(* outlives the bucket after its own and then falls silent.                *)
(***************************************************************************)
EXTENDS BucketAggregator
=============================================================================
