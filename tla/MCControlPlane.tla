--------------------------- MODULE MCControlPlane ---------------------------
EXTENDS ControlPlane

Setting(s, r, m) == [strategy |-> s, risk |-> r, markets |-> m]

\* A version that changes everything, and one only a later release knows.
MCDefault  == Setting("s1", "r1", "m1")
MCKnown    == {MCDefault, Setting("s2", "r2", "m2")}
MCSettings == MCKnown \cup {Setting("s3", "r1", "m1")}

=============================================================================
