------------------------ MODULE MCConversationCache ------------------------
EXTENDS ConversationCache, TLC

CONSTANTS o1, c1, c2, g1

MCConvs == {c1, c2}
=============================================================================
