---------------------------- MODULE MCMacSession ----------------------------
(***************************************************************************)
(* Instances of MacSession.                                                *)
(***************************************************************************)
EXTENDS MacSession
=============================================================================
