---------------------------- MODULE MCProxyConn -----------------------------
(***************************************************************************)
(* Instance of ProxyConn for TLC.                                          *)
(***************************************************************************)
EXTENDS ProxyConn
=============================================================================
