------------------------- MODULE MCTenantIntegrations -------------------------
(* Small instances of TenantIntegrations for TLC: the .cfg gives the numbers  *)
(* of requests, codes and tokens.                                            *)
EXTENDS TenantIntegrations

=============================================================================
