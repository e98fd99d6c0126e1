---------------------------- MODULE MCBridgeBot ----------------------------
(* BridgeBot with few conversations and a handful of updates.              *)
EXTENDS BridgeBot
=============================================================================
