------------------------ MODULE MCResponseStreamer ------------------------
(* Two messages of one session; a short text, a long one in two rich parts *)
(* that takes three plain ones, and a text that has no native form.        *)
EXTENDS ResponseStreamer

rich(t) == [rich |-> TRUE, text |-> t]
plain(t) == [rich |-> FALSE, text |-> t]

short == <<rich("a")>>
long == <<rich("a"), rich("bc")>>
bare == <<plain("d")>>

MCPayload == {short, long, bare}
MCPlain == (short :> <<plain("a")>>)
             @@ (long :> <<plain("a"), plain("b"), plain("c")>>)
             @@ (bare :> bare)
(* The default configuration, and drafts with no throttle.                 *)
MCMode == {[draft |-> FALSE, throttled |-> TRUE],
           [draft |-> TRUE, throttled |-> FALSE]}
MCSessionOf == [k \in Key |-> "ses"]
===========================================================================
