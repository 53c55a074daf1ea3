------------------------------ MODULE MCToolIndex ------------------------------
EXTENDS ToolIndex, TLC

CONSTANTS t1, t2, s1, s2, tool, other, shell, padded

TwoTurns   == {t1, t2}
TwoServers == <<s1, s2>>
AllNames   == {tool, other, shell, padded}
Padded     == {padded}

Symmetry == Permutations(Turns)
=============================================================================
