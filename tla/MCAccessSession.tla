--------------------------- MODULE MCAccessSession ---------------------------
\* A model-checking instance of the access session.  Liveness is checked in the
\* same run, so that the model values are not declared interchangeable.
EXTENDS AccessSession

CONSTANTS s1, s2, o1
=============================================================================
