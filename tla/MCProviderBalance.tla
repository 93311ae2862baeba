--------------------------- MODULE MCProviderBalance ---------------------------
(***************************************************************************)
(* TLC instances of ProviderBalance: MCProviderBalance_provider.cfg.       *)
(***************************************************************************)
EXTENDS ProviderBalance
=============================================================================
