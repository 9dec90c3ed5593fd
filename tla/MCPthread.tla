----------------------------- MODULE MCPthread -----------------------------
\* Model checking of Pthread.
EXTENDS Pthread

Program(base, cancels, hazards) ==
  [base |-> base, cancels |-> cancels, hazards |-> hazards]

\* Thread and Jthread used with care, the other behaviors, and programs that
\* meet the hazards.
AllPrograms ==
  { Program("terminate", FALSE, {"destroyempty"}),
    Program("detach", FALSE, {"destroyempty"}),
    Program("join", TRUE, {}),
    Program("nothing", FALSE, {"destroyempty", "overwrite", "equalassign"}),
    Program("join", FALSE, {"destroyempty", "overwrite", "equalassign"}),
    Program("join", TRUE, Hazards) }

\* Thread, with a move assignment to a handle that names a thread.
ThreadPrograms == {Program("terminate", FALSE, {"destroyempty", "overwrite"})}
=============================================================================
