-------------------------- MODULE MCOutboundQueue --------------------------
EXTENDS OutboundQueue, TLC

\* Requests and workers are interchangeable; used by the runs without liveness.
Symmetry == Permutations(Requests) \cup Permutations(Workers)
=============================================================================
