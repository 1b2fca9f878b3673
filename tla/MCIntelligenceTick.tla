------------------------- MODULE MCIntelligenceTick -------------------------
EXTENDS IntelligenceTick, TLC
CONSTANTS w1, w2, w3, mer, fatigue, a, b
MCW == {w1, w2, w3}
MCAlerts == <<mer, fatigue>>
MCWatched == {<<w1, 1>>, <<w1, 2>>}
MCCadence == w1 :> 1 @@ w2 :> 2 @@ w3 :> 1
MCSig == {a, b}
FairSpec == Spec /\ WF_vars(TickStep) /\ WF_vars(HourPasses)
=============================================================================
