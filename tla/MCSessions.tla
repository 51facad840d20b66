----------------------------- MODULE MCSessions -----------------------------
\* One customer, one or two browsers, up to two calls at a time.
EXTENDS Sessions, TLC

CONSTANTS s1, s2, w1, w2

OneSlot == {s1}
TwoSlots == {s1, s2}
TwoBrowsers == {w1, w2}
OneBrowser == {w1}

SameParties == Permutations(Slots) \cup Permutations(Browsers)
=============================================================================
