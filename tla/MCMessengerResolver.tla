------------------------ MODULE MCMessengerResolver ------------------------
EXTENDS MessengerResolver, TLC

CONSTANTS r0, r1, s1, s2, i1, i2, n1, a1, f1, f2

MCResolvers == {r0, r1}
=============================================================================
