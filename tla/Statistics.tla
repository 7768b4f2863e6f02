----------------------------- MODULE Statistics ----------------------------
(***************************************************************************)
(* Means and standard deviations of a short sequence of integers, in       *)
(* integers: of Len(s) numbers the sum is Len(s) times the mean, and       *)
(* Spread is Len(s) squared times the population's variance, or Len(s) *   *)
(* (Len(s) - 1) times the sample's.                                        *)
(***************************************************************************)
EXTENDS Integers, Sequences, Functions

Sum(s) == SumFunction(s)
Squares(s) == [i \in DOMAIN s |-> s[i] * s[i]]
Spread(s) == Len(s) * Sum(Squares(s)) - Sum(s) * Sum(s)

\* The last n elements.
Recent(s, n) == SubSeq(s, Len(s) - n + 1, Len(s))

\* deque(maxlen=n).append(v)
Push(s, v, n) == IF Len(s) < n THEN Append(s, v) ELSE Append(Recent(s, n - 1), v)
=============================================================================
