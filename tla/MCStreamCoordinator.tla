------------------------ MODULE MCStreamCoordinator ------------------------
(* Two conversations; the first one's session writes two messages, and the *)
(* other conversation only gets notices.                                   *)
EXTENDS StreamCoordinator

MCPayload == {<<[rich |-> TRUE, text |-> "a"]>>}
MCPlain == [p \in MCPayload |-> <<[p[1] EXCEPT !.rich = FALSE]>>]
MCSessionOf == [k \in Key |-> "ses"]
MCConvOf == [sess \in Session |-> "c1"]
MCMode == {[draft |-> FALSE, throttled |-> TRUE]}
===========================================================================
