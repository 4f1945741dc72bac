----------------------------- MODULE MCChannel -----------------------------
EXTENDS Channel

\* An error without and two with an entry in the map, the one behind its end, and one beyond.
SomeErrors == {-4, -6, -8, -61, -100}
=============================================================================
