--------------------------- MODULE MCCancellation ---------------------------
\* Model checking of Cancellation: programs that meet no hazard, and one or two
\* of each.
EXTENDS Cancellation

AllPrograms == {{}, {"setcancel"}, {"setcancel", "setinside"}, {"barelock"},
                {"relock", "joinlocked"}}
=============================================================================
