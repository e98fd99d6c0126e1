-------------------------- MODULE MCWebGateway --------------------------
(* Two uploads and others compete for two names; one forwarded request.    *)
EXTENDS WebGateway
===========================================================================
