-------------------------------- MODULE MCDns --------------------------------
(***************************************************************************)
(* The forwarder alone, for what a comment says of its breaker.            *)
(***************************************************************************)
EXTENDS DnsForwarder, TLC
=============================================================================
