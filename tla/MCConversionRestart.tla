------------------------- MODULE MCConversionRestart -------------------------
(* Instance of the restarted conversion service for TLC. *)
EXTENDS ConversionRestart, TLC

CONSTANTS s1, s2, c1

OnePair == c1 :> <<s1, s2>>
=============================================================================
