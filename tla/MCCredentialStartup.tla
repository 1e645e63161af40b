------------------------- MODULE MCCredentialStartup --------------------------
(* A TLC instance of CredentialStartup.                                    *)
EXTENDS CredentialStartup

CONSTANTS c1, c2, a1, a2

TwoClients == {c1, c2}
TwoAddresses == {a1, a2}
==============================================================================
