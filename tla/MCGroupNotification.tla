------------------------ MODULE MCGroupNotification ------------------------
EXTENDS GroupNotification, TLC

CONSTANTS u1, u2, u3

MCUsers == {u1, u2, u3}
MCAppAdmins == {u3}
=============================================================================
