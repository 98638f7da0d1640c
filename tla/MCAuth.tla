------------------------------- MODULE MCAuth -------------------------------
(***************************************************************************)
(* Two threads that register users with one of two emails, or log in.      *)
(***************************************************************************)
EXTENDS AuthService
=============================================================================
