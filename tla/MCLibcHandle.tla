---------------------------- MODULE MCLibcHandle ----------------------------
\* Model checking of LibcHandle.  The handles are interchangeable, in the
\* invariants and in the steps Owns speaks of, and there is no liveness property.
EXTENDS LibcHandle, TLC

Symmetry == Permutations(Handles)

\* Ports whose bytes differ, and are equal.
PortSample == {<<31, 144>>, <<1, 1>>}
NodeSample == <<192, 168, 0, 1>>
KindSample == {"Directory", "AddressInfo"}

AllPrograms ==
  {{}, {"reclose"}, {"sharefd"}, {"failtake"}, {"selfmove"},
   {"unlisted", "iterfree"}}
=============================================================================
