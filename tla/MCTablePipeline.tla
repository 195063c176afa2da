--------------------------- MODULE MCTablePipeline ---------------------------
(* TablePipeline for TLC.                                                  *)
EXTENDS TablePipeline
=============================================================================
