--------------------------- MODULE MCApiGateway ---------------------------
EXTENDS ApiGateway, TLC

CONSTANTS t1, t2, k1

MCTokens == {t1, t2}
MCKeys == {k1}
MCTokenKey == [t \in MCTokens |-> k1]
=============================================================================
