------------------------ MODULE MCEventSubscription ------------------------
(* EventSubscription with the delays of the code, in seconds.              *)
EXTENDS EventSubscription
=============================================================================
