----------------------------- MODULE MCAssetTrust -----------------------------
(* One field with a route and a pattern, one collection, and a preview. The *)
(* second release has changed every file but the route of the collection.   *)
EXTENDS AssetTrust

CONSTANTS route, pattern, clock, preview

MCPinned == [r \in 1..2 |-> [p \in Parts |-> IF p = clock THEN 1 ELSE r]]
MCSessionFields == <<<<route, pattern>>>>
MCCollects == <<clock>>
=============================================================================
