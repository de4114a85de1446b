--------------------------- MODULE MCSearchIngestion ---------------------------
(***************************************************************************)
(* Instances of SearchIngestion.                                           *)
(***************************************************************************)
EXTENDS SearchIngestion
==============================================================================
