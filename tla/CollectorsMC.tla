----------------------------- MODULE CollectorsMC -----------------------------
\* Values for the constants of Collectors in the TLC configurations.
EXTENDS Collectors

CONSTANTS r1, r2, r3

ThreeResources == {r1, r2, r3}
TheThird == {r3}
NoResources == {}
=============================================================================
