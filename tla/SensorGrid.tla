------------------------------ MODULE SensorGrid ------------------------------
(***************************************************************************)
(* The points of the two fibres that the conversion service evaluates, the *)
(* sensor that stands for each, and what is computed there: points_fibers  *)
(* and temperature_humidity_calculation.                                   *)
(*                                                                         *)
(* One fibre leads: its points are laid out first, and those of the other  *)
(* one start as far from its beginning as the last of the leader is from   *)
(* the end.  If the fibre is folded back (check_reversed) the others come  *)
(* in reverse, so that the points of a pair lie side by side.  Shifts and  *)
(* slopes are integers in units that make the divisions exact.             *)
(***************************************************************************)
EXTENDS Integers, Sequences, SequencesExt, FiniteSetsExt

\* range(first, stop, step)
PyRange(first, stop, step) ==
    [i \in 1..(IF stop <= first THEN 0 ELSE (stop - first + step - 1) \div step)
        |-> first + (i - 1) * step]

Step(x_average) == IF x_average # 0 THEN 2 * x_average ELSE 1

Leading(fibre, x_average) ==
    PyRange(fibre.min + x_average, fibre.max - x_average + 1, Step(x_average))

Following(fibre, leader, leading, x_average) ==
    PyRange(fibre.min + (leader.max - Last(leading)), fibre.max - x_average + 1,
            Step(x_average))

\* The humidity fibre leads only if it comes first in a folded fibre.
HumidityLeads(temperature, humidity, check_reversed) ==
    check_reversed /\ humidity.min < temperature.min
Folded(temperature, humidity, check_reversed) ==
    check_reversed /\ humidity.min # temperature.min

\* The first sensor whose range holds the point, in the order of the dictionary; the
\* code raises an IndexError if there is none.
SensorOf(point, sensors) ==
    CHOOSE i \in DOMAIN sensors :
        /\ sensors[i][1] <= point /\ point <= sensors[i][2]
        /\ \A j \in 1..i - 1 : ~(sensors[j][1] <= point /\ point <= sensors[j][2])
Sensors(points, sensors) == [i \in DOMAIN points |-> SensorOf(points[i], sensors)]

PointsFibers(temperature, humidity, x_average, check_reversed, sensors) ==
    LET first == HumidityLeads(temperature, humidity, check_reversed)
        folded == Folded(temperature, humidity, check_reversed)
        leader == IF first THEN humidity ELSE temperature
        other == IF first THEN temperature ELSE humidity
        leading == Leading(leader, x_average)
        following == Following(other, leader, leading, x_average)
        others == IF folded THEN Reverse(following) ELSE following
        pointsT == IF first THEN others ELSE leading
        pointsRH == IF first THEN leading ELSE others
    IN  [temperature |-> pointsT,
         humidity |-> pointsRH,
         temperatureSensor |-> Sensors(IF folded THEN leading ELSE pointsT, sensors),
         humiditySensor |-> Sensors(IF folded THEN leading ELSE pointsRH, sensors)]

-----------------------------------------------------------------------------
\* The mean shift of the window around a point.
ShiftAt(shifts, point, distance_average) ==
    MapThenSumSet(LAMBDA x : shifts[x],
                  point - distance_average..point + distance_average)
        \div (2 * distance_average + 1)

\* The temperature and the humidity at each pair of points; slopes are [t, rh, cross] for
\* slope_temperature, slope_humidity, slope_temperature_fiber_rh, and electrical_data[i]
\* is what the sensors measure of the one and of the other.
Calculation(shifts, electrical_data, distance_average, slopes, points) ==
    [i \in DOMAIN points.temperature |->
        LET shiftT == ShiftAt(shifts, points.temperature[i], distance_average)
            shiftRH == ShiftAt(shifts, points.humidity[i], distance_average)
        IN  <<(shiftT \div slopes.t) + electrical_data[1][points.temperatureSensor[i]],
              ((shiftRH - ((slopes.cross * shiftT) \div slopes.t)) \div slopes.rh)
                  + electrical_data[2][points.humiditySensor[i]]>>]

-----------------------------------------------------------------------------
(* What the points are for, as predicates over their arguments.            *)

\* The points of a pair are as far from the place where the two fibres meet, or, when
\* the fibre is not folded, as far from the two beginnings, once the margin of the other
\* fibre is added.
PairsMatch(temperature, humidity, x_average, check_reversed, sensors) ==
    LET p == PointsFibers(temperature, humidity, x_average, check_reversed, sensors)
        first == HumidityLeads(temperature, humidity, check_reversed)
    IN  /\ Len(p.temperature) = Len(p.humidity)
        /\ \A i \in DOMAIN p.temperature :
              IF ~Folded(temperature, humidity, check_reversed)
              THEN p.temperature[i] - p.temperature[1] = p.humidity[i] - p.humidity[1]
              ELSE IF first
              THEN p.temperature[i] - temperature.min = humidity.max - p.humidity[i]
              ELSE p.humidity[i] - humidity.min = temperature.max - p.temperature[i]

\* No window reaches over an end of its fibre.
WindowsInside(temperature, humidity, x_average, check_reversed, sensors) ==
    LET p == PointsFibers(temperature, humidity, x_average, check_reversed, sensors)
        Inside(x, fibre) == fibre.min <= x - x_average /\ x + x_average <= fibre.max
    IN  /\ \A i \in DOMAIN p.temperature : Inside(p.temperature[i], temperature)
        /\ \A i \in DOMAIN p.humidity : Inside(p.humidity[i], humidity)

\* A folded fibre is exposed to a temperature dT(k) and a humidity dRH(k) at a distance k
\* from the fold, each a straight line within a window, and shifts by
\*   t * dT  in the one half and  rh * dRH + cross * dT  in the other.
\* What the calculation returns for a pair of points is what both were exposed to.
Line(line, k) == line[1] + line[2] * k
CalculationInverts(temperature, humidity, x_average, sensors, slopes, dT, dRH) ==
    LET p == PointsFibers(temperature, humidity, x_average, TRUE, sensors)
        Fold(x) == IF HumidityLeads(temperature, humidity, TRUE)
                   THEN IF x >= temperature.min THEN x - temperature.min ELSE humidity.max - x
                   ELSE IF x >= humidity.min THEN x - humidity.min ELSE temperature.max - x
        shifts == [x \in temperature.min..temperature.max \cup humidity.min..humidity.max |->
                      IF x \in temperature.min..temperature.max
                      THEN slopes.t * Line(dT, Fold(x))
                      ELSE slopes.rh * Line(dRH, Fold(x)) + slopes.cross * Line(dT, Fold(x))]
        elec == <<[j \in DOMAIN sensors |-> 20 + j], [j \in DOMAIN sensors |-> 50 + j]>>
        result == Calculation(shifts, elec, x_average, slopes, p)
    IN  \A i \in DOMAIN result :
            result[i] = <<Line(dT, Fold(p.temperature[i])) + elec[1][p.temperatureSensor[i]],
                          Line(dRH, Fold(p.humidity[i])) + elec[2][p.humiditySensor[i]]>>
=============================================================================
