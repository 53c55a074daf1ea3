----------------------------- MODULE MCThreadPages -----------------------------
EXTENDS ThreadPages

CONSTANTS s1, s2

TwoSaves == {s1, s2}
=============================================================================
