------------------------------ MODULE PeakWindow ------------------------------
(***************************************************************************)
(* The window around the peak of a cross-correlation through which the     *)
(* correlation service lays a parabola: smooth_polynomial_peak_finding,    *)
(* with the axis that frequency_axis_laser makes for it.                   *)
(*                                                                         *)
(* Only the places of the points matter here, not their values.  A slice   *)
(* of Python counts a negative beginning from the end.                     *)
(***************************************************************************)
EXTENDS Integers, FiniteSets

Smaller(a, b) == IF a < b THEN a ELSE b
Larger(a, b) == IF a < b THEN b ELSE a

\* Indices of a[first:stop] for an array of n entries, stop >= 0.
PySlice(first, stop, n) ==
    (IF first < 0 THEN Larger(n + first, 0) ELSE first)..Smaller(stop, n) - 1

Left(peak, w, n) == Cardinality(PySlice(peak - w, peak + 1, n))
Right(peak, w, n) == Cardinality(PySlice(peak, peak + w + 1, n))
Fits(peak, w, n) == w <= Left(peak, w, n) /\ w <= Right(peak, w, n)

\* The loop takes the first of smooth_window - 1, ..., 0 that fits.
Window(peak, smooth_window, n) ==
    IF Fits(peak, smooth_window, n) THEN smooth_window
    ELSE CHOOSE w \in 0..smooth_window - 1 :
            /\ Fits(peak, w, n)
            /\ \A v \in w + 1..smooth_window - 1 : ~Fits(peak, v, n)

\* The points the parabola is laid through; none if the window is empty.
Fitted(peak, smooth_window, n) ==
    LET w == Window(peak, smooth_window, n)
    IN  IF w = 0 THEN {} ELSE PySlice(peak - w, peak + w + 1, n)

\* Entries of the axis for a sweep of the laser, in a unit that makes the step a whole
\* number: the steps up and down, with 0 in the middle.
SweepSteps(initial, final, step) == (final + step - initial + step - 1) \div step
AxisLength(initial, final, step) == 2 * SweepSteps(initial, final, step) - 1
AxisZero(initial, final, step) == SweepSteps(initial, final, step) - 1
\* np.correlate(..., "full") of two arrays of n samples, and its entry for no shift.
CorrelationLength(n) == 2 * n - 1
CorrelationZero(n) == n - 1

-----------------------------------------------------------------------------
\* The peak is one of the points; they lie symmetrically around it, except that the last
\* one is missing if it would be the first beyond the end.
WindowAround(peak, smooth_window, n) ==
    LET w == Window(peak, smooth_window, n)
        points == Fitted(peak, smooth_window, n)
    IN  w > 0 => \/ points = peak - w..peak + w
                 \/ peak + w = n /\ points = peak - w..n - 1

\* Away from the ends the whole window is used.
WindowWhole(peak, smooth_window, n) ==
    peak \in smooth_window..n - 1 - smooth_window =>
        Window(peak, smooth_window, n) = smooth_window

\* A parabola needs three points: there are as many, unless the peak is the first entry,
\* which is taken as it is, or the last one, which gets a parabola through two.
EnoughPoints(peak, smooth_window, n) ==
    Cardinality(Fitted(peak, smooth_window, n)) < 3 =>
        \/ peak = 0 /\ Fitted(peak, smooth_window, n) = {}
        \/ peak = n - 1 /\ Fitted(peak, smooth_window, n) = {n - 2, n - 1}
=============================================================================
