---------------------------- MODULE MCEventLoop ----------------------------
\* Model checking of EventLoop.
EXTENDS EventLoop

\* Programs without hazards, with one loop or with two that share one-shot
\* entries, and programs that meet each of the hazards.
AllPrograms ==
  {{"timed", "signals"}, {"timed", "handler", "signals"}, {"nonblock", "oneshot", "timed"},
   {"shared"}, {"crossclose", "nonblock"}, {"crossclose", "handler", "signals"},
   {"zero", "signals"}, {"reset"}, {"reset", "handler"}}
=============================================================================
