-------------------------- MODULE MCSerialSession --------------------------
(***************************************************************************)
(* Three cases on one VM, so that two of them follow an answered one; the  *)
(* agent dies once and the kernel writes one line, at any moment.          *)
(***************************************************************************)
EXTENDS SerialSession
=============================================================================
