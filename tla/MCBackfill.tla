----------------------------- MODULE MCBackfill -----------------------------
(* Backfill for TLC.  FetchReturns is a liveness property: no symmetry.    *)
EXTENDS Backfill
=============================================================================
