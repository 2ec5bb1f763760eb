----------------------------- MODULE MCSyncLoop -----------------------------
EXTENDS SyncLoop, TLC
CONSTANTS r1, r2

\* with one event per time line, the membership of r1 is state, and in r2 the event
\* that has to be decrypted may be left out; the receipt of r2 is dispatched after the
\* message that follows it
Placed == <<r1, r1, r2, r2, r2>>
Kinded == <<"membership", "own", "encrypted", "receipt", "message">>
=============================================================================
