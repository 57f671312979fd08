---------------------------- MODULE MCAcpSession ----------------------------
(***************************************************************************)
(* A small instance of AcpSession for TLC.                                 *)
(***************************************************************************)
EXTENDS AcpSession
=============================================================================
