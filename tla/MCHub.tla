------------------------------- MODULE MCHub -------------------------------
(* Small instances of Hub for TLC.  Users and connection ids are model    *)
(* values and interchangeable; platforms are not (only iOS is a push       *)
(* terminal).                                                              *)
EXTENDS Hub, TLC

CONSTANTS u1, u2, iOS, Web, c1, c2, c3

MCUsers == {u1, u2}
MCPlatforms == {iOS, Web}
MCPushTerminal == {iOS}
MCConns1 == {c1}
MCConns2 == {c1, c2}
MCConns3 == {c1, c2, c3}

MCSymmetry2 == Permutations(MCUsers) \cup Permutations(MCConns2)
MCSymmetry3 == Permutations(MCUsers) \cup Permutations(MCConns3)
=============================================================================
