------------------------ MODULE MCClosingDescriptor ------------------------
\* Model checking of ClosingDescriptor; the values are in the cfg.
EXTENDS ClosingDescriptor
=============================================================================
