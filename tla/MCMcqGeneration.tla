-------------------------- MODULE MCMcqGeneration --------------------------
(* McqGeneration for TLC: one request for one PDF, one or two slots, and the *)
(* three passes of generateQuestionsWithFallback.                           *)
EXTENDS McqGeneration, TLC

CONSTANTS pdf, g1, s1, s2

FromIt == (g1 :> pdf)

FallbackRetries == <<1, 0, 0>>
FallbackCalls   == <<4, 2, 1, 0>>

(* This run asks how much is called and stored, not of which text: one cut. *)
OneCut          == <<12000, 12000, 12000>>

(* Two passes without retries leave TLC the room for a second slot, and for  *)
(* tests that are told apart by the pass they come from.                    *)
TwoPasses      == <<0, 0>>
TwoPassesChars == <<12000, 8000>>
TwoPassesCalls == <<2, 1, 0>>
=============================================================================
