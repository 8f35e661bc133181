---------------------------- MODULE MCOAuthGrants ----------------------------
(* Two principals and two clients, the first given to the first before the  *)
(* upgrade.                                                                 *)
EXTENDS OAuthGrants, TLC

CONSTANTS laptop, phone, ada, ben, none

MCClients == {laptop, phone}
MCPrincipals == {ada, ben}
MCLegacyOwner == laptop :> ada @@ phone :> none

=============================================================================
