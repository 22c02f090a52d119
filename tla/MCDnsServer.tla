---------------------------- MODULE MCDnsServer ----------------------------
(* Small instances of DnsServer.                                            *)
EXTENDS DnsServer

CONSTANTS web, google

(* web is a container of the network *)
Asked == {<<web, "A">>, <<web, "MX">>, <<google, "A">>}
=============================================================================
