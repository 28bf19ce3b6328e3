-------------------------- MODULE MCServerLifecycle --------------------------
(***************************************************************************)
(* A small instance of ServerLifecycle: clients are interchangeable, and   *)
(* meet only in the listener.                                              *)
(***************************************************************************)
EXTENDS ServerLifecycle
=============================================================================
