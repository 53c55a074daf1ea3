----------------------------- MODULE MCAgentLoop -----------------------------
EXTENDS AgentLoop

CONSTANTS t1, t2, th1, c1, c2

TwoTurns   == {t1, t2}
OneThread  == {th1}
TwoCallIds == {c1, c2}
NoneOrTwo  == {<<>>, <<c1, c2>>}
=============================================================================
