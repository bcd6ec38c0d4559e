----------------------------- MODULE MCLexComments -----------------------------
(***************************************************************************)
(* The scanner on every text of up to MaxLength characters.                *)
(***************************************************************************)
EXTENDS LexComments
================================================================================
