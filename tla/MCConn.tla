------------------------------- MODULE MCConn -------------------------------
(***************************************************************************)
(* Conn on small instances; the configurations choose the constants.       *)
(***************************************************************************)
EXTENDS Conn
=============================================================================
