----------------------------- MODULE MCProcess -----------------------------
\* Model checking of Process: every combination of the hazards.
EXTENDS Process

AllPrograms == SUBSET Hazards
=============================================================================
