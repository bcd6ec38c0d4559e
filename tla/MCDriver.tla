-------------------------------- MODULE MCDriver --------------------------------
(***************************************************************************)
(* Histories of three texts, each compiled any number of times, with files *)
(* of two lines.                                                           *)
(***************************************************************************)
EXTENDS Driver
================================================================================
