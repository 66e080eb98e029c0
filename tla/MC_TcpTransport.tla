--------------------------- MODULE MC_TcpTransport ---------------------------
(* Model-checking instance of TcpTransport.                                 *)
EXTENDS TcpTransport
=============================================================================
