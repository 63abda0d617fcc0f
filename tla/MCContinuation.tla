--------------------------- MODULE MCContinuation ---------------------------
\* A retained conflict by itself, to follow a rewrite of its manifest that fails.
EXTENDS Continuation

=============================================================================
