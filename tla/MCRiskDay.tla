----------------------------- MODULE MCRiskDay -----------------------------
EXTENDS RiskDay

\* A loss of one unit in ten is over the limit.
MCEquities == {9, 10}

=============================================================================
