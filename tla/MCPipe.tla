------------------------------- MODULE MCPipe -------------------------------
\* Model checking of Pipe.  The pipes are interchangeable, in the invariants and
\* in the steps Owns speaks of, and there is no liveness property.
EXTENDS Pipe, TLC

Symmetry == Permutations(Pipes)

\* Programs without hazards, that assign pipes to themselves, that use stale
\* slots.
AllPrograms == {{}, {"selfmove"}, {"openinit", "throwassign", "proxyclose"}}

\* Programs in which an openinit() may fail.
OpenInitPrograms == {{"openinit"}}
=============================================================================
