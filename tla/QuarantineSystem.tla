-------------------------- MODULE QuarantineSystem --------------------------
(***************************************************************************)
(* The quarantine as the allocator drives it, under malloc_mutex:          *)
(* rezzan_free() inserts the region of the object it frees, and           *)
(* rezzan_malloc() asks quarantine_malloc() for a region whenever         *)
(* quarantine_usage exceeds quarantine_size, falling back to the pool     *)
(* (outside this module) on NULL.  held is the set of regions the program *)
(* owns; it starts as InitialHeld, regions the pool handed out earlier.   *)
(***************************************************************************)
EXTENDS Quarantine

CONSTANTS
    InitialHeld,      \* disjoint regions [ptr128, size128] owned at start
    Requests,         \* request sizes, in units, that malloc may ask for
    QuarantineSize    \* quarantine_size, in units

VARIABLES q, held, status

vars == <<q, held, status>>

Init == q = QInit /\ held = InitialHeld /\ status = "running"

\* rezzan_free, lines 744-746: insert (ptr128 - pool, size128) under the
\* lock.  An exhausted node pool aborts the process.
Free(r) ==
    LET q2 == QuarantineInsert(q, r.ptr128, r.size128)
    IN  /\ status = "running"
        /\ r \in held
        /\ held' = held \ {r}
        /\ q' = q2.q
        /\ status' = IF q2.abort THEN "abort" ELSE status

\* rezzan_malloc, lines 603-605: the quarantine is tried only while its
\* usage exceeds quarantine_size; a NULL result leaves it unchanged.
Malloc(s) ==
    LET res == QuarantineMalloc(q, s)
    IN  /\ status = "running"
        /\ q.usage > QuarantineSize
        /\ CASE res.ub        -> status' = "ub" /\ UNCHANGED <<q, held>>
             [] res.ptr = Nil  -> UNCHANGED vars
             [] OTHER          -> /\ q' = res.q
                                  /\ held' = held \cup {Region(res.ptr, s)}
                                  /\ UNCHANGED status

Next == \/ \E r \in held : Free(r)
        \/ \E s \in Requests : Malloc(s)

Spec == Init /\ [][Next]_vars

-----------------------------------------------------------------------------
TypeOK ==
    /\ q.nodes \in [NodeIds -> [ptr128 : Nat, size128 : Nat, next : NodeRef]]
    /\ q.front \in [Classes -> NodeRef] /\ q.back \in [Classes -> NodeRef]
    /\ q.free \in NodeRef /\ q.ptr \in 0 .. NodePoolSize
    /\ q.usage \in Nat
    /\ status \in {"running", "abort", "ub"}

\* No memory is both owned by the program and quarantined, or owned
\* twice: the units of the held and quarantined regions are disjoint.
\* Breaking it takes a region handed out twice by quarantine_malloc.
NoOverlap ==
    LET rs == held \cup QRegions(q)
    IN  \A r1, r2 \in rs : r1 # r2 => Units(r1) \cap Units(r2) = {}

\* A free() whose node pool is exhausted is dropped silently, leaving the
\* memory unreused (spec sections 4.4 and 7): rezzan_free never aborts in
\* quarantine_insert.
FreeNeverAborts == status # "abort"

\* The nodes on the node freelist, following next from quarantine_free.
FreeNodes(qs) == IF qs.free = Nil THEN {} ELSE Closure(qs, {qs.free})

\* A node is on a class list or on the node freelist, never on both
\* (spec section 3): quarantine_node_alloc never hands out a listed node.
FreelistDisjoint == FreeNodes(q) \cap Listed(q) = {}

\* The quarantine implements its abstract specification: every freed region
\* is reusable, and quarantine_malloc hands out only quarantined memory.
QA == INSTANCE QuarantineAbstract WITH pending <- QRegions(q),
                                      SizeBound <- 8
QuarantineRefinement == QA!ASpec

=============================================================================
