--------------------------- MODULE MCRegistration ---------------------------
EXTENDS Registration

CONSTANTS s1, s2

MCUserRequests == {<<"delete", s2>>, <<"update", s2>>}
=============================================================================
