------------------------------ MODULE MCAiSession ------------------------------
(***************************************************************************)
(* Model checking of AiSession: the .cfg files give every constant.        *)
(***************************************************************************)
EXTENDS AiSession
=============================================================================
