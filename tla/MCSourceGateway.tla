--------------------------- MODULE MCSourceGateway ---------------------------
EXTENDS SourceGateway, TLC

CONSTANTS p1, p2, p3, k1

MCProcs == {p1, p2}
MCThree == {p1, p2, p3}
MCForced == {p3}
MCNone == {}
MCKey == {k1}
MCFinal == {TRUE}
MCFinals == BOOLEAN
Symmetry == Permutations({p1, p2})
=============================================================================
