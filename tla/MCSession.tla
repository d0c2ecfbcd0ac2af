----------------------------- MODULE MCSession ------------------------------
EXTENDS Session
CONSTANTS u1, u2
MCUser == {u1, u2}
MCTab == {"dashboard", "system"}
MCFetching == {"dashboard"}
MCCore == <<"servers">>
MCSide == <<>>
MCOwn == [t \in MCTab |-> IF t = "system" THEN <<"images">> ELSE <<>>]
MCRelayed == {"images"}
=============================================================================
