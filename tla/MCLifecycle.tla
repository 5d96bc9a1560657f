----------------------------- MODULE MCLifecycle -----------------------------
EXTENDS Lifecycle

\* An environment with no REZZAN_* variable set, and changes of it.
Defaults == [stats |-> Unset, disabled |-> Unset, nonce |-> Unset,
             quarantine |-> Unset, pool |-> Unset, flags |-> Unset]

\* Defaults; statistics with 64-bit tokens and a 4 GiB (2^28-unit) quarantine;
\* REZZAN_DISABLED=1 (a bad nonce size is then never parsed); and five
\* environments rezzan_init rejects: a pool of one page (256 units, below
\* the minimum), a pool of 2064 units (above the minimum, not a whole
\* number of pages), a nonce size of 7, a junk REZZAN_DEBUG and a junk
\* REZZAN_STATS.
MCEnvs == {Defaults,
           [Defaults EXCEPT !.stats = 1, !.nonce = 64, !.quarantine = 2^28],
           [Defaults EXCEPT !.disabled = 1, !.nonce = Bad],
           [Defaults EXCEPT !.pool = 256],
           [Defaults EXCEPT !.pool = 2064],
           [Defaults EXCEPT !.nonce = 7],
           [Defaults EXCEPT !.flags = Bad],
           [Defaults EXCEPT !.stats = Bad]}

\* REZZAN_DISABLED=1 alone.
MCEnvsDisabled == {[Defaults EXCEPT !.disabled = 1]}

\* A library constructor allocating and freeing before rezzan_init.
MCPreInitAlloc == {"malloc", "free", "realloc", "usable"}

=============================================================================
