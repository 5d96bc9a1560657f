------------------------- MODULE QuarantineAbstract -------------------------
(***************************************************************************)
(* What the quarantine promises the allocator (spec section 4.4): it holds *)
(* exactly the regions freed and not yet reused; a request either gets     *)
(* nothing, or the tail of one held region whose size suffices, the head   *)
(* staying quarantined.  No region is ever lost or handed out twice.       *)
(*                                                                         *)
(* held:    regions the program owns (allocated, not yet freed)           *)
(* pending: regions in quarantine                                          *)
(* A region is a record [ptr128, size128] in pool units.                   *)
(***************************************************************************)
EXTENDS Naturals

CONSTANTS
    InitialHeld,    \* the regions the program owns at the start
    SizeBound       \* no request exceeds this many units

VARIABLES held, pending

avars == <<held, pending>>

Region(p, s) == [ptr128 |-> p, size128 |-> s]

\* free(): the region moves from the program to the quarantine.
AFree(r) ==
    /\ r \in held
    /\ held'    = held \ {r}
    /\ pending' = pending \cup {r}

\* quarantine_malloc(s) succeeds: the tail s units of a pending region of
\* at least s units go to the program, the rest stays quarantined.
ATake(s) ==
    \E r \in pending :
        /\ s \in 1 .. r.size128
        /\ pending' = (pending \ {r}) \cup
                        (IF r.size128 > s
                         THEN {Region(r.ptr128, r.size128 - s)} ELSE {})
        /\ held'    = held \cup {Region(r.ptr128 + r.size128 - s, s)}

ANext == \/ \E r \in held : AFree(r)
         \/ \E s \in 1 .. SizeBound : ATake(s)

AInit == held = InitialHeld /\ pending = {}

ASpec == AInit /\ [][ANext]_avars

=============================================================================
