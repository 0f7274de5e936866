--------------------------- MODULE MCRecoverSession ---------------------------
(***************************************************************************)
(* Model checking RecoverSession.                                          *)
(***************************************************************************)
EXTENDS RecoverSession
=============================================================================
