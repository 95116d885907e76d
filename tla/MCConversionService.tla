------------------------- MODULE MCConversionService -------------------------
(***************************************************************************)
(* Instances of ConversionService for TLC.                                 *)
(***************************************************************************)
EXTENDS ConversionService, SequencesExt

CONSTANTS s1, s2, c1, c2

(* What the correlation service publishes: one sweep id per message.       *)
SingleIds == c1 :> <<s1>> @@ c2 :> <<s2>>

(* What the consumer accepts as well: a correlation of two sweeps.         *)
OnePair == c1 :> <<s1, s2>>

(* Without is what popping the indices one by one, largest first, leaves.  *)
ASSUME WithoutIsPop ==
    \A n \in 0..4 : \A I \in SUBSET (1..n) :
        LET list == [i \in 1..n |-> 10 * i]
        IN  Without(list, I) =
              FoldRight(LAMBDA i, l : RemoveAt(l, i), SetToSortSeq(I, <), list)
=============================================================================
