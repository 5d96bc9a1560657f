------------------------- MODULE MCQuarantineSystem -------------------------
EXTENDS QuarantineSystem

\* Regions the pool handed out before the run: units 1..7 of the pool.
MCInitialHeld == {Region(1, 1), Region(2, 2), Region(4, 3)}

=============================================================================
