---------------------------- MODULE MCRunCreation ----------------------------
EXTENDS RunCreation

CONSTANTS a, b, c, d, same, other

\* d asks for something else under the same key.
Requests == [k \in Caller |-> IF k = d THEN other ELSE same]
=============================================================================
