--------------------------- MODULE MCHostLookup ---------------------------
(* Model-checking instance of HostLookup: octets 1, 2 and 12 give nine    *)
(* addresses, several of which contain others ("1.1" in "1.12", "2.1" in  *)
(* "12.1"), and server lists of up to two servers.                        *)
EXTENDS HostLookup

MCOctets == {<<"1">>, <<"2">>, <<"1", "2">>}
=============================================================================
