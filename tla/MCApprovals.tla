---------------------------- MODULE MCApprovals ----------------------------
(***************************************************************************)
(* The approval store on a small instance: two approvals, two threads that *)
(* decide them, two users.  The values are in the .cfg files.              *)
(***************************************************************************)
EXTENDS Approvals
=============================================================================
