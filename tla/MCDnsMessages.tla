---------------------------- MODULE MCDnsMessages ----------------------------
(***************************************************************************)
(* Names of one and of two labels, and the root itself.                    *)
(***************************************************************************)
EXTENDS DnsMessages, TLC

MCLabels == {<<0>>, <<1, 97, 0>>, <<1, 97, 2, 98, 99, 0>>}
=============================================================================
