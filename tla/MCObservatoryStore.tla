------------------------- MODULE MCObservatoryStore -------------------------
EXTENDS ObservatoryStore

OneBody == {"location"}
NothingLeft == [b \in OneBody |-> {}]
=============================================================================
