------------------------------- MODULE MCFade -------------------------------
(* Cards for Fade. *)
EXTENDS Fade

\* Adlib; a Sound Blaster with a mixer; a Pro AudioSpectrum.
MCCards == {<<FALSE, FALSE>>, <<TRUE, FALSE>>, <<TRUE, TRUE>>}

\* What the rest of a behaviour cannot tell apart: the variables of a fade are
\* set anew before the next one, and what a channel was sent does not matter
\* until it is sent again, when it is about to be or old already.
LiveFade == IF fadeTask = Null /\ at # "schedule" THEN Null ELSE fade
Known(s) == [c \in Channel \ (crossed \cup todo) |-> s[c]]
LiveView == <<device, total, chan, user, mixer, Known(sent), Known(told), song, LiveFade,
              fadeTask, listed, dispatched, call, crossed>>
=============================================================================
