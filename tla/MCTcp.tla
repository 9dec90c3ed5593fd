------------------------------- MODULE MCTcp -------------------------------
\* Model checking of Tcp.  Threads and servers are interchangeable.
EXTENDS Tcp, TLC

Symmetry ==
  Permutations(Threads) \cup Permutations(Servers)

AllPrograms == {{}, {"short"}, {"reconnect"}, {"aborted", "unreachable"}}

ShortPrograms == {{"short"}}
=============================================================================
