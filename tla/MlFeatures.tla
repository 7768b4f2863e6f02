----------------------------- MODULE MlFeatures ----------------------------
(***************************************************************************)
(* The features of a congestion model as ml-retrain computes them for a    *)
(* training row (retrain.py) and as the prediction service computes them   *)
(* for a request (prediction_service/main.py).  A room's occupancy is a    *)
(* sequence of slots; a request carries the slots before the present one   *)
(* and the present one as avg, as the frontend's predictions page sends    *)
(* them.                                                                   *)
(*                                                                         *)
(* Features that both take from the calendar are one value, the activity;  *)
(* a mean is kept as a sum and a standard deviation as a squared spread    *)
(* and its divisor, so that no rounding tells them apart.                  *)
(***************************************************************************)
EXTENDS Statistics, SequencesExt

CONSTANTS
    Lags,     \* LAGS_NEEDED, positive
    Windows,  \* ROLLING_WINDOWS, from 2 to the longest lag
    Levels,   \* occupancies
    MaxSlots, \* bound: slots of the room
    MaxSteps  \* bound: steps of a forecast

Activities == {"lecture_day", "normal"}
Needed == CHOOSE n \in Lags : \A m \in Lags : m <= n

VARIABLES
    past,     \* the room's slots, the present one last
    activity, \* what goes on today
    row,      \* features of the last request, the slot they are for
    points    \* the forecast answered to it

vars == <<past, activity, row, points>>

\* Lags and rolling figures over the slots `before' the one at hand.
Lagged(before) == [n \in Lags |-> before[Len(before) - n + 1]]
RollMean(before) == [w \in Windows |-> Sum(Recent(before, w))]
Deviation(spread, n) == IF spread = 0 THEN <<0, 1>> ELSE <<spread, n>>
RollStd(before, lost) ==
    [w \in Windows |-> Deviation(Spread(Recent(before, w)), w - lost)]

\* _build_congestion_dataset: the row of slot t, with the activity's one-hot
\* and pandas' standard deviation of a sample.
TrainingRow(slots, act, t) ==
    LET before == SubSeq(slots, 1, t - 1) IN
    [activity |-> act, lag |-> Lagged(before), mean |-> RollMean(before),
     std |-> RollStd(before, 1)]

\* A short history is filled up in front with its mean or, if empty, with avg.
Padded(history, avg) ==
    IF Len(history) >= Needed THEN history
    ELSE LET fill == IF history = <<>> THEN avg ELSE Sum(history) \div Len(history)
         IN [i \in 1..(Needed - Len(history)) |-> fill] \o history

\* build_congestion_features: no activity, numpy's standard deviation of a
\* population.
ServedRow(history, avg) ==
    LET h == Padded(history, avg) IN
    [activity |-> "none", lag |-> Lagged(h), mean |-> RollMean(h),
     std |-> RollStd(h, 0)]

NoRow == [kind |-> "none"]
Init == past = <<>> /\ activity \in Activities /\ row = NoRow /\ points = <<>>

-----------------------------------------------------------------------------
Slot ==
    /\ Len(past) < MaxSlots
    /\ \E v \in Levels : past' = Append(past, v)
    /\ activity' \in Activities
    /\ row' = NoRow /\ points' = <<>>

\* predict_congestion
Predict ==
    /\ past # <<>>
    /\ row' = [kind |-> "single", slot |-> Len(past),
               features |-> ServedRow(Front(past), past[Len(past)])]
    /\ points' = <<>>
    /\ UNCHANGED <<past, activity>>

\* predict_congestion_series: each answer, at least 0, joins the history; an
\* exception of the model ends the forecast early.  avg is used only if there
\* is no history.
PredictSeries ==
    /\ past # <<>>
    /\ LET h == IF Len(past) = 1 THEN [i \in 1..Needed |-> past[1]] ELSE Front(past)
       IN row' = [kind |-> "series", slot |-> Len(past) + 1,
                  features |-> ServedRow(h, h[Len(h)])]
    /\ \E n \in 0..MaxSteps : points' \in [1..n -> Levels]
    /\ UNCHANGED <<past, activity>>

Next == Slot \/ Predict \/ PredictSeries
Spec == Init /\ [][Next]_vars

-----------------------------------------------------------------------------
\* retrain.py:10 "Feature engineering matches
\* services/ml-prediction/prediction_service/main.py:build_congestion_features":
\* with enough history a request for a slot is answered from the features that
\* the slot's training row has.
FeaturesMatch ==
    row # NoRow /\ row.slot > Needed =>
        row.features = TrainingRow(past, activity, row.slot)
=============================================================================
