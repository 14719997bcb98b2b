---------------------------- MODULE MCTokenBucket ----------------------------
(* Small instance of TokenBucket.                                            *)
EXTENDS TokenBucket
=============================================================================
