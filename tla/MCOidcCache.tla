----------------------------- MODULE MCOidcCache -----------------------------
(* OidcCache with a key set that is rotated once.                             *)
EXTENDS OidcCache, TLC

MCMaxVersion == "metadata" :> 1 @@ "keys" :> 2
=============================================================================
