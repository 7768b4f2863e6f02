----------------------------- MODULE MCApiAuth -----------------------------
(* Two requests in flight over a cache that misses up to two rotations.    *)
EXTENDS ApiAuth
=============================================================================
