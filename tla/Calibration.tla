------------------------------ MODULE Calibration ------------------------------
(***************************************************************************)
(* coords.rs, calibrate.rs and the clusters of pixel.rs, along one axis:   *)
(* where a position is, how far clicks are measured to be off, and the     *)
(* correction.  An offset is a fraction [sum, over], for it is a mean.     *)
(***************************************************************************)
EXTENDS Integers, Sequences, FiniteSetsExt

CONSTANTS
    Width,      \* of the desktop
    MaxU16,     \* 65535, scaled down with the desktop
    Apart       \* the distance under which two markers count as the same one

ASSUME WidthAssumption == Width \in Nat \ {0} /\ MaxU16 \in Nat /\ Width <= MaxU16
ASSUME ApartAssumption == Apart \in Nat

\* A cast to u16 saturates at both ends.
U16(x) == IF x < 0 THEN 0 ELSE IF x > MaxU16 THEN MaxU16 ELSE x

Pixel(n)   == [form |-> "pixel", n |-> n]
Percent(n) == [form |-> "percent", n |-> n]
Place(p)   == [form |-> p, n |-> 0]

\* A coordinate is parsed as a u16; one that does not fit is an error.
Resolvable(pos) == pos.form = "pixel" => pos.n \in 0..MaxU16

\* The named places keep five hundredths of the width from the edge.
ResolvePosition(pos) ==
    LET margin == (Width * 5) \div 100
    IN  CASE pos.form = "pixel"   -> pos.n
          [] pos.form = "percent" -> U16((Width * pos.n) \div 100)
          [] pos.form = "center"  -> Width \div 2
          [] pos.form = "first"   -> margin
          [] pos.form = "last"    -> Width - margin

NoOffset == [sum |-> 0, over |-> 1]

\* Round (half away from zero) what is left of x, nothing below zero.
CalibratePosition(x, offset) ==
    LET num == x * offset.over - offset.sum
    IN  IF num < 0 THEN 0
        ELSE U16((2 * num + offset.over) \div (2 * offset.over))

-------------------------------------------------------------------------------
\* The middles of the cells of a grid of `cols`.
GridTargets(cols) ==
    [c \in 1..cols |-> (Width * (2 * c - 1)) \div (2 * cols)]

Near(a, b) == a - b < Apart /\ b - a < Apart

MutNewClusters(spots, baseline) == spots

\* The clusters that are near none of the baseline, which was looked at once,
\* before the first click: the markers of all clicks since.
NewClusters(spots, baseline) == {s \in spots : \A b \in baseline : ~Near(s, b)}

\* What a click at `target` is measured to have hit: find_new_cluster takes the
\* first in the order of find_clusters, by falling area and then as the scan comes
\* upon them, and all markers of the page are of one size.  A marker that is not
\* found counts as a click that is not off at all.
Measured(target, spots, baseline) ==
    LET new == NewClusters(spots, baseline)
    IN  IF new = {} THEN target ELSE Min(new)

MutErrors(points) ==
    LET sum[n \in 0..Len(points)] ==
          IF n = 0 THEN 0 ELSE sum[n - 1] + (points[n].target - points[n].actual)
    IN  sum

\* The running sums of the errors.
Errors(points) ==
    LET sum[n \in 0..Len(points)] ==
          IF n = 0 THEN 0 ELSE sum[n - 1] + (points[n].actual - points[n].target)
    IN  sum

\* compute_correction: the mean of the errors.
ComputeCorrection(points) ==
    IF points = <<>> THEN NoOffset
    ELSE [sum |-> Errors(points)[Len(points)], over |-> Len(points)]
===============================================================================
