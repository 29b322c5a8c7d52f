------------------------------ MODULE MCWords ------------------------------
(***************************************************************************)
(* WordImpl for TLC, on the ranges of MCVerify.                            *)
(***************************************************************************)
EXTENDS MCVerify, WordImpl
=============================================================================
