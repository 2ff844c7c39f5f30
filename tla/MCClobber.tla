----------------------------- MODULE MCClobber ------------------------------
\* Model checking running every function of MCShapes on its analysis.
EXTENDS Clobber, MCShapes
=============================================================================
