-------------------------- MODULE MCDomainBlocks --------------------------
(* One remote account and one domain, one request at a time.                 *)
EXTENDS DomainBlocks, TLC

CONSTANTS r1, host, x

OneHost == host :> {x}
===========================================================================
