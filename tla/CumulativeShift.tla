---------------------------- MODULE CumulativeShift ----------------------------
(***************************************************************************)
(* The cumulative frequency shift of the correlation service: for every    *)
(* message the rows of the array are computed again from the shifts        *)
(* between all neighbouring sweeps held so far, one row per pair.  A row   *)
(* is the shift added to the row before it; then, within the two fibres,   *)
(* a step of at least the threshold is replaced by the mean step of the    *)
(* nearest ordinary points.  The array comes from np.empty, and the first  *)
(* row is compared with the row at index -1: the last one, not yet written *)
(* unless it is the first row itself.                                      *)
(*                                                                         *)
(* Frequencies are integers in a unit that makes every mean exact, and the *)
(* array is of np.float32: numbers up to EXACT are exact, larger ones are  *)
(* multiples of a grain that grows with them, and above all of these is an *)
(* infinity.  Memory that was never written may hold any of them, or NaN.  *)
(* Rows are numbered from 1, points from 0.                                *)
(***************************************************************************)
EXTENDS Integers, Sequences, FiniteSets, FiniteSetsExt, Functions

CONSTANTS
    POINTS,               \* points along the fibre
    T_INITIAL, T_FINAL,   \* the temperature fibre, its end excluded
    RH_INITIAL, RH_FINAL, \* the humidity fibre, likewise
    THRESHOLD,
    LARGEST,              \* no shift, and no threshold, is larger than this
    NEIGHBOURS,           \* ordinary points a mean is taken of: 4
    Shifts,               \* frequency shifts between two sweeps, for each point
    Memories,             \* what the memory of a row that is not written yet may hold
    EXACT,                \* the largest number up to which every integer is a float32
    GRAINS,               \* distances between neighbouring floats beyond that
    NaN,
    INF,                  \* an infinity of either sign
    MAX_PAIRS             \* bound: pairs of neighbouring sweeps

Points == 0..POINTS - 1
Numbers == Int \cup {NaN, INF}
Rows == [Points -> Numbers]

ASSUME FibresAssumption ==
    /\ POINTS \in Nat
    /\ RH_FINAL \in 0..POINTS
    /\ RH_INITIAL \in 0..RH_FINAL
    /\ T_FINAL \in 0..RH_INITIAL
    /\ T_INITIAL \in 0..T_FINAL
ASSUME ShiftsAssumption ==
    /\ Shifts \in [Points -> SUBSET (-LARGEST..LARGEST)]
    /\ Memories \subseteq Rows
    /\ NaN \notin Int /\ INF \notin Int /\ NaN # INF
ASSUME FloatsAssumption ==
    /\ EXACT \in Nat /\ GRAINS \subseteq Nat \ {0}
    /\ LARGEST \in 0..EXACT /\ THRESHOLD <= LARGEST
ASSUME BoundsAssumption ==
    THRESHOLD \in Nat \ {0} /\ NEIGHBOURS \in Nat \ {0} /\ MAX_PAIRS \in Nat

VARIABLES
    shifts,     \* shifts of each pair of neighbouring sweeps
    memory,     \* the last row of the new array, until it is written
    rows,       \* the rows of the array written so far
    published   \* the array of the message before

vars == <<shifts, memory, rows, published>>

-----------------------------------------------------------------------------
(* simple_time_analysis, substitute_outliers, error_detect_and_replace.    *)

(* Mutant of Fibre: the end is included.                                   *)
FibreInclusive(initial, final) == initial..final

Fibre(initial, final) == initial..final - 1

TFibre == Fibre(T_INITIAL, T_FINAL)
RHFibre == Fibre(RH_INITIAL, RH_FINAL)

Size(n) == IF n < 0 THEN -n ELSE n

\* What is stored of a number: the nearest float.
Rounded(n) ==
    LET grains == {g \in GRAINS : Size(n) <= g * EXACT}
        grain == Min(grains)
    IN  IF Size(n) <= EXACT THEN n
        ELSE IF grains = {} THEN INF
        ELSE grain * ((2 * n + grain) \div (2 * grain))

\* A shift, or a mean of shifts, added to a value and stored; and a difference of two
\* values, which is neither stored nor rounded.
Plus(a, b) ==
    IF NaN \in {a, b} THEN NaN ELSE IF INF \in {a, b} THEN INF ELSE Rounded(a + b)
Minus(a, b) ==
    IF NaN \in {a, b} \/ (a = INF /\ b = INF) THEN NaN
    ELSE IF INF \in {a, b} THEN INF ELSE a - b

\* The comparison with the threshold; one with NaN is false.
AtLeast(variation, limit) ==
    variation # NaN /\ (variation = INF \/ Size(variation) >= limit)

(* Mutant of Outlying: a variation of the threshold itself passes.         *)
OutlyingAbove(before, row, x) == AtLeast(Minus(row[x], before[x]), THRESHOLD + 1)

Outlying(before, row, x) == AtLeast(Minus(row[x], before[x]), THRESHOLD)

\* Ties are broken by argsort, the same way for the same ordinary points.
Nearest(x, ordinary) ==
    LET count == IF Cardinality(ordinary) < NEIGHBOURS THEN Cardinality(ordinary) ELSE NEIGHBOURS
    IN  CHOOSE near \in kSubset(count, ordinary) :
            \A y \in near, z \in ordinary \ near : Size(y - x) <= Size(z - x)

MeanStep(before, row, near) ==
    LET steps == [y \in near |-> Minus(row[y], before[y])]
    IN  IF \E y \in near : steps[y] = NaN THEN NaN
        ELSE SumFunction(steps) \div Cardinality(near)

Substituted(fibre, before, row) ==
    LET outliers == {x \in fibre : Outlying(before, row, x)}
        ordinary == fibre \ outliers
    IN  [x \in Points |-> IF x \in outliers /\ ordinary # {}
                          THEN Plus(before[x], MeanStep(before, row, Nearest(x, ordinary)))
                          ELSE row[x]]

\* The fibres share no point, so that the second call finds its points as they were.
Corrected(before, row) == Substituted(RHFibre, before, Substituted(TFibre, before, row))

-----------------------------------------------------------------------------
(* moving_cumulative_calculation and its caller.                           *)

\* The peaks of the cross-correlation of two sweeps, point by point.
PairShifts == {shift \in [Points -> UNION {Shifts[x] : x \in Points}] :
                   \A x \in Points : shift[x] \in Shifts[x]}

Init ==
    /\ shifts = <<>>
    /\ memory \in Memories
    /\ rows = <<>>
    /\ published = <<>>

\* A further sweep: one more pair, and a new array.
NewSweep ==
    /\ Len(rows) = Len(shifts)
    /\ Len(shifts) < MAX_PAIRS
    /\ \E shift \in PairShifts : shifts' = Append(shifts, shift)
    /\ memory' \in Memories
    /\ rows' = <<>>
    /\ published' = rows

time == Len(rows) + 1

Accumulated == [x \in Points |-> IF time = 1 THEN shifts[1][x]
                                 ELSE Plus(shifts[time][x], rows[time - 1][x])]

(* Mutant of Before: the first row is always compared with unwritten memory. *)
BeforeUnwritten == IF time > 1 THEN rows[time - 1] ELSE memory

(* Mutant of Before: every row is compared with the last one of the array.  *)
BeforeLast == IF Len(shifts) = 1 THEN Accumulated ELSE memory

\* What a row is compared with: for the first one, the last row of the array.
Before ==
    IF time > 1 THEN rows[time - 1]
    ELSE IF Len(shifts) = 1 THEN Accumulated ELSE memory

Advance ==
    /\ Len(rows) < Len(shifts)
    /\ rows' = Append(rows, Corrected(Before, Accumulated))
    /\ UNCHANGED <<shifts, memory, published>>

Next == NewSweep \/ Advance

Spec == Init /\ [][Next]_vars

-----------------------------------------------------------------------------
(* Properties.                                                             *)

\* Rows are rows of the array, and each message carries one row per pair.
TypeOK ==
    /\ shifts \in Seq(PairShifts)
    /\ memory \in Memories
    /\ rows \in Seq(Rows)
    /\ published \in Seq(Rows)
    /\ Len(rows) <= Len(shifts)
    /\ Len(shifts) <= MAX_PAIRS
    /\ shifts # <<>> => Len(published) = Len(shifts) - 1

Total(t, x) == SumFunction([i \in 1..t |-> shifts[i][x]])

\* A number so large that not even a shift can be added to it without rounding.
Absorbs(v) == v # NaN /\ (v = INF \/ Size(v) > EXACT - LARGEST)

\* Steps below the threshold.
Small == 1 - THRESHOLD..THRESHOLD - 1

\* Outside the fibres a row is the sum of the shifts so far, for as long as the sums are
\* exact floats, whatever the memory held: the correction reaches no other point
\* (`maths.py`, lines 427-437 and 440-487).
OutsideExact ==
    \A t \in 1..Len(rows) : \A x \in Points :
        \/ T_INITIAL <= x /\ x < T_FINAL
        \/ RH_INITIAL <= x /\ x < RH_FINAL
        \/ \E i \in 1..t : Size(Total(i, x)) > EXACT
        \/ rows[t][x] = Total(t, x)

\* From the second row on, a fibre with a point that takes up a small shift keeps no step
\* of the threshold or more, except at points too large for the mean to be added exactly:
\* the mean of ordinary steps is an ordinary step (lines 464-485).
RepairedSmooth ==
    \A t \in 2..Len(rows) : \A fibre \in {TFibre, RHFibre} :
        (\E y \in fibre : Size(shifts[t][y]) < THRESHOLD /\ ~Absorbs(rows[t - 1][y])) =>
            \A x \in fibre :
                \/ Absorbs(rows[t - 1][x])
                \/ ~AtLeast(Minus(rows[t][x], rows[t - 1][x]), THRESHOLD)

\* The first row differs from the first shifts only at points of a fibre where they are
\* far from what the unwritten memory held, never in the first message, and then it is
\* what the memory held and less than the threshold, as far as a float can tell, or NaN
\* if the memory held one (lines 409-421).
SpoiltOnlyByMemory ==
    rows # <<>> =>
        \A x \in Points : rows[1][x] # shifts[1][x] =>
            /\ Len(shifts) > 1
            /\ x \in TFibre \cup RHFibre
            /\ Outlying(memory, shifts[1], x)
            /\ IF rows[1][x] = NaN THEN \E y \in Points : memory[y] = NaN
               ELSE \E step \in Small : rows[1][x] = Plus(memory[x], step)

Hidden(row, fibre) == {y \in fibre : row[y] = NaN}
Absorbing(row, fibre) == {y \in fibre : Absorbs(row[y])}

\* From the second row on, a message repeats the steps of the message before, unless what
\* the memory of one of them held hides the step (NaN), absorbs it (a number so large that
\* the shift is rounded), or makes other points ordinary than before, and so other points
\* the nearest to an outlier (lines 402-423, 440-487).
StepsRepeated ==
    \A t \in 2..Len(rows) : t <= Len(published) =>
        \A x \in Points :
            LET step == Minus(rows[t][x], rows[t - 1][x])
                old == Minus(published[t][x], published[t - 1][x])
            IN  \/ NaN \in {step, old}
                \/ step = old
                \/ Absorbs(rows[t - 1][x]) \/ Absorbs(published[t - 1][x])
                \/ \E fibre \in {TFibre, RHFibre} :
                      /\ x \in fibre /\ Size(shifts[t][x]) >= THRESHOLD
                      /\ \/ Hidden(rows[t - 1], fibre) # Hidden(published[t - 1], fibre)
                         \/ Absorbing(rows[t - 1], fibre) # {}
                         \/ Absorbing(published[t - 1], fibre) # {}
=============================================================================
