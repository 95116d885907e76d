--------------------------- MODULE MCCumulativeShift ---------------------------
(* An instance of the cumulative shift for TLC, and the bounded checks of the *)
(* calculations around it.                                                    *)
EXTENDS CumulativeShift, SensorGrid, PeakWindow

\* Leftover values far from any shift at every other point; zeros after a NaN; zeros
\* after a number that absorbs shifts, an infinity and a number that rounds them.
Leftovers ==
    {[x \in Points |-> IF x % 2 = 0 THEN 8 ELSE 2],
     [x \in Points |-> IF x = 0 THEN NaN ELSE 0],
     [x \in Points |-> CASE x = 0 -> 112 [] x = 1 -> INF [] x = 2 -> 28 [] OTHER -> 0]}

\* Below the threshold and at it; outside the fibres always at it.
SmallOrLarge == [x \in Points |-> IF x < RH_FINAL THEN {2, 4} ELSE {4}]

-----------------------------------------------------------------------------
(* Peaks: every place in an axis of up to 14 entries, windows up to 5.     *)
ASSUME PeaksChecked ==
    \A n \in 2..14, w \in 1..5 : w < n =>
        \A peak \in 0..n - 1 :
            WindowAround(peak, w, n) /\ WindowWhole(peak, w, n) /\ EnoughPoints(peak, w, n)

(* Points: two fibres of the same length on either side of each other.     *)
FibreAt(first, length) == [min |-> first, max |-> first + length]
TwoSensors == <<<<0, 20>>, <<21, 60>>>>
ASSUME PointsChecked ==
    \A length \in 4..9, gap \in 1..3, x \in 0..2, folded \in BOOLEAN :
        LET near == FibreAt(3, length)
            far == FibreAt(3 + length + gap, length)
        IN  /\ PairsMatch(near, far, x, folded, TwoSensors)
            /\ PairsMatch(far, near, x, folded, TwoSensors)
            /\ WindowsInside(near, far, x, folded, TwoSensors)
            /\ WindowsInside(far, near, x, folded, TwoSensors)

(* The one call of the conversion service.                                 *)
ASSUME CallChecked ==
    LET temperature == [min |-> 1743, max |-> 1929]
        humidity == [min |-> 1556, max |-> 1742]
        sensors == <<<<1000, 2000>>, <<2100, 3100>>>>
    IN  PairsMatch(temperature, humidity, 0, TRUE, sensors)
        /\ WindowsInside(temperature, humidity, 0, TRUE, sensors)

ASSUME CalculationChecked ==
    \A t \in {-2, 1, 3}, rh \in {1, 2}, cross \in {-1, 2}, x \in 0..2,
       dT, dRH \in {<<1, 0>>, <<-1, 1>>, <<2, -1>>} :
        LET slopes == [t |-> t, rh |-> rh, cross |-> cross]
            near == FibreAt(3, 7)
            far == FibreAt(12, 7)
        IN  /\ CalculationInverts(near, far, x, TwoSensors, slopes, dT, dRH)
            /\ CalculationInverts(far, near, x, TwoSensors, slopes, dT, dRH)

(* An axis of the stored laser sweep, from 20 to 30 by 0.02, fits arrays of *)
(* 501 samples: entry for entry, with its 0 where the correlation has it.   *)
ASSUME AxisChecked ==
    /\ AxisLength(2000, 3000, 2) = CorrelationLength(501)
    /\ AxisZero(2000, 3000, 2) = CorrelationZero(501)
=============================================================================
