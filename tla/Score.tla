--------------------------------- MODULE Score ---------------------------------
(***************************************************************************)
(* The arithmetic of TopologyFit's score                                   *)
(* (pkg/plugin/topologyfit/evaluate.go): features are percentages and the  *)
(* score is their weighted mean.  Integers are int64 in the code; the      *)
(* largest product, 100 times a count of device pairs, is far below 2^63.  *)
(***************************************************************************)
EXTENDS Integers

\* framework.MinNodeScore and framework.MaxNodeScore.
MinNodeScore == 0
MaxNodeScore == 100

percentage(numerator, denominator) ==
  IF numerator <= 0 \/ denominator <= 0 THEN 0
  ELSE IF (numerator * 100) \div denominator > 100 THEN 100
  ELSE (numerator * 100) \div denominator

weightedSum(features, weights) ==
  features.locality * weights.locality + features.fabric * weights.fabric
    + features.fragmentation * weights.fragmentation + features.headroom * weights.headroom

\* The weighted mean before it is clamped.
weightedMean(features, weights) == weightedSum(features, weights) \div 100

weightedScore(features, weights) ==
  IF weightedMean(features, weights) < MinNodeScore THEN MinNodeScore
  ELSE IF weightedMean(features, weights) > MaxNodeScore THEN MaxNodeScore
  ELSE weightedMean(features, weights)

\* The condition validatePolicy puts on the weights.
ValidWeights(weights) ==
  /\ weights.locality >= 0 /\ weights.fabric >= 0
  /\ weights.fragmentation >= 0 /\ weights.headroom >= 0
  /\ weights.locality + weights.fabric + weights.fragmentation + weights.headroom = 100
===============================================================================
