----------------------------- MODULE Quarantine -----------------------------
(***************************************************************************)
(* The size-classed quarantine of rezzan_runtime.c: the FreeNode pool with *)
(* its node freelist, the array of per-class lists (front/back), and the   *)
(* usage counter.  Every operation is written as an operator from the      *)
(* quarantine state q to a record holding the new state and the result,   *)
(* so that the allocator can run it inside the step that holds            *)
(* malloc_mutex.                                                           *)
(*                                                                         *)
(* q.nodes[n] is the FreeNode n of quarantine_pool (ptr128, size128, next) *)
(* q.front, q.back  the Entry array quarantine[NumClasses]                 *)
(* q.free           quarantine_free      q.ptr   quarantine_ptr            *)
(* q.mmap           quarantine_mmap      q.usage quarantine_usage          *)
(***************************************************************************)
EXTENDS Naturals, FiniteSets

CONSTANTS
    NumClasses,     \* length of quarantine[] (20 in the code)
    Limit,          \* LIMIT of the first-fit walk (8 in the code)
    NodePoolSize,   \* quarantine_pool_size, in FreeNodes
    NodeMmapChunk,  \* QUARANTINE_MMAP_SIZE, in FreeNodes
    Nil             \* NULL

ASSUME NumClasses \in Nat \ {0, 1} /\ Limit \in Nat \ {0}
ASSUME NodePoolSize \in Nat \ {0} /\ NodeMmapChunk \in Nat \ {0}

NodeIds  == 0 .. NodePoolSize - 1
NodeRef  == NodeIds \cup {Nil}
Classes  == 0 .. NumClasses - 1

\* A FreeNode as mmap hands it out: all fields zero, next == NULL.
ZeroNode == [ptr128 |-> 0, size128 |-> 0, next |-> Nil]

\* State right after rezzan_init: one chunk of node memory committed.
QInit == [nodes |-> [n \in NodeIds |-> ZeroNode],
          front |-> [i \in Classes |-> Nil],
          back  |-> [i \in Classes |-> Nil],
          free  |-> Nil, ptr |-> 0, mmap |-> NodeMmapChunk, usage |-> 0]

\* 64 - __builtin_clzll(s): the number of significant bits of s > 0.
RECURSIVE BitLen(_)
BitLen(s) == IF s = 0 THEN 0 ELSE 1 + BitLen(s \div 2)

\* quarantine_index: bit length of size128, clamped to the last class.
QuarantineIndex(size128) ==
    IF size128 = 0 THEN 0
    ELSE IF BitLen(size128) >= NumClasses THEN NumClasses - 1
    ELSE BitLen(size128)

\* Variants of quarantine_node_alloc with one slip: the capacity test
\* written quarantine_ptr > quarantine_pool_size; the freelist head not
\* advanced after taking its node.
QuarantineNodeAllocOffByOne(q) ==
    IF q.free # Nil
    THEN [q |-> [q EXCEPT !.free = q.nodes[q.free].next], node |-> q.free,
          abort |-> FALSE]
    ELSE LET mmap == IF q.ptr >= q.mmap THEN q.mmap + NodeMmapChunk
                                        ELSE q.mmap
         IN  IF q.ptr > NodePoolSize
             THEN [q |-> [q EXCEPT !.mmap = mmap], node |-> Nil,
                   abort |-> TRUE]
             ELSE [q |-> [q EXCEPT !.mmap = mmap, !.ptr = q.ptr + 1],
                   node |-> q.ptr, abort |-> FALSE]

QuarantineNodeAllocNoPop(q) ==
    IF q.free # Nil
    THEN [q |-> q, node |-> q.free, abort |-> FALSE]
    ELSE LET mmap == IF q.ptr >= q.mmap THEN q.mmap + NodeMmapChunk
                                        ELSE q.mmap
         IN  IF q.ptr >= NodePoolSize
             THEN [q |-> [q EXCEPT !.mmap = mmap], node |-> Nil,
                   abort |-> TRUE]
             ELSE [q |-> [q EXCEPT !.mmap = mmap, !.ptr = q.ptr + 1],
                   node |-> q.ptr, abort |-> FALSE]

\* quarantine_node_alloc: pop the node freelist, else bump quarantine_ptr,
\* committing another chunk first when quarantine_ptr reached
\* quarantine_mmap.  An exhausted node pool ends in error() (ud2): the
\* result has abort = TRUE.
QuarantineNodeAlloc(q) ==
    IF q.free # Nil
    THEN [q |-> [q EXCEPT !.free = q.nodes[q.free].next], node |-> q.free,
          abort |-> FALSE]
    ELSE LET mmap == IF q.ptr >= q.mmap THEN q.mmap + NodeMmapChunk
                                        ELSE q.mmap
         IN  IF q.ptr >= NodePoolSize
             THEN [q |-> [q EXCEPT !.mmap = mmap], node |-> Nil,
                   abort |-> TRUE]
             ELSE [q |-> [q EXCEPT !.mmap = mmap, !.ptr = q.ptr + 1],
                   node |-> q.ptr, abort |-> FALSE]

\* quarantine_insert(ptr128, size128): append a fresh node at the back of
\* its class list.  Result: [q, abort], abort when the node pool is out.
QuarantineInsert(q, ptr128, size128) ==
    LET a == QuarantineNodeAlloc(q)
        n == a.node
        i == QuarantineIndex(size128)
        q1 == [a.q EXCEPT !.nodes[n] = [ptr128 |-> ptr128,
                                          size128 |-> size128, next |-> Nil]]
        q2 == IF q1.back[i] = Nil
              THEN [q1 EXCEPT !.front[i] = n, !.back[i] = n]
              ELSE [q1 EXCEPT !.nodes[q1.back[i]].next = n, !.back[i] = n]
    IN  IF a.abort THEN [q |-> a.q, abort |-> TRUE]
        ELSE [q |-> [q2 EXCEPT !.usage = @ + size128], abort |-> FALSE]

\* The first loop of quarantine_malloc: walk list i from its front for at
\* most Limit nodes, stopping at the first node with size128 >= s.
RECURSIVE FirstFit(_, _, _, _, _)
FirstFit(q, s, node, prev, j) ==
    IF node # Nil /\ j < Limit /\ q.nodes[node].size128 < s
    THEN FirstFit(q, s, q.nodes[node].next, node, j + 1)
    ELSE [node |-> node, prev |-> prev]

\* The second loop: the first larger class whose front node fits.  When
\* none fits, the loop leaves node = quarantine[NumClasses-1].front and
\* i = NumClasses (one past the array).
Escalate(q, s, i) ==
    LET fits == {k \in i + 1 .. NumClasses - 1 :
                    q.front[k] # Nil /\ q.nodes[q.front[k]].size128 >= s}
        k    == CHOOSE k \in fits : \A k2 \in fits : k <= k2
    IN  IF fits # {} THEN [node |-> q.front[k], i |-> k]
        ELSE [node |-> IF i + 1 <= NumClasses - 1
                       THEN q.front[NumClasses - 1] ELSE Nil,
              i    |-> NumClasses]

\* Variant of Detach with one slip: prev->next = node instead of
\* node->next, which leaves the node on its list.
DetachKeep(q, i, node, prev) ==
    IF prev # Nil
    THEN [q EXCEPT !.nodes[prev].next = node]
    ELSE IF q.front[i] # q.back[i]
    THEN [q EXCEPT !.front[i] = q.nodes[node].next]
    ELSE [q EXCEPT !.front[i] = Nil, !.back[i] = Nil]

\* Unlink node from list i (prev is its predecessor or Nil).
Detach(q, i, node, prev) ==
    IF prev # Nil
    THEN [q EXCEPT !.nodes[prev].next = q.nodes[node].next]
    ELSE IF q.front[i] # q.back[i]
    THEN [q EXCEPT !.front[i] = q.nodes[node].next]
    ELSE [q EXCEPT !.front[i] = Nil, !.back[i] = Nil]

\* The head of a split node goes back to the FRONT of its new class list.
PushFront(q, j, node) ==
    IF q.front[j] # Nil
    THEN [q EXCEPT !.nodes[node].next = q.front[j], !.front[j] = node]
    ELSE [q EXCEPT !.front[j] = node, !.back[j] = node]

\* quarantine_malloc(s): result [q, ptr, ub] with ptr the pool-relative
\* unit offset of the returned memory, or Nil for NULL; ub when the code
\* would index quarantine[NumClasses] (undefined behaviour).
QuarantineMalloc(q, s) ==
    LET i0   == QuarantineIndex(s)
        ff   == FirstFit(q, s, q.front[i0], Nil, 0)
        fit  == ff.node # Nil /\ q.nodes[ff.node].size128 >= s
        esc  == Escalate(q, s, i0)
        node == IF fit THEN ff.node ELSE esc.node
        prev == IF fit THEN ff.prev ELSE Nil
        i    == IF fit THEN i0 ELSE esc.i
        n    == q.nodes[node]
        q1   == [Detach(q, i, node, prev) EXCEPT !.usage = @ - s]
        diff == n.size128 - s
    IN  CASE node = Nil        -> [q |-> q, ptr |-> Nil, ub |-> FALSE]
          [] i >= NumClasses   -> [q |-> q, ptr |-> Nil, ub |-> TRUE]
          [] n.size128 = s     ->
                [q   |-> [q1 EXCEPT !.nodes[node].next = q1.free,
                                    !.free = node],
                 ptr |-> n.ptr128, ub |-> FALSE]
          [] OTHER             ->
                [q   |-> PushFront([q1 EXCEPT !.nodes[node].size128 = diff,
                                              !.nodes[node].next = Nil],
                                   QuarantineIndex(diff), node),
                 ptr |-> n.ptr128 + diff, ub |-> FALSE]

-----------------------------------------------------------------------------
(* Views of the quarantine state used by the properties.                 *)
\* The nodes reachable from S by following next.
RECURSIVE Closure(_, _)
Closure(qs, S) ==
    LET S2 == (S \cup {qs.nodes[n].next : n \in S}) \ {Nil}
    IN  IF S2 = S THEN S ELSE Closure(qs, S2)

\* The nodes reachable from the front of some class list.
Listed(qs) == Closure(qs, {qs.front[i] : i \in Classes} \ {Nil})

Region(p, s) == [ptr128 |-> p, size128 |-> s]

\* The regions [ptr128, size128] the listed nodes describe.
QRegions(qs) == {Region(qs.nodes[n].ptr128, qs.nodes[n].size128) :
                    n \in Listed(qs)}

\* The pool units of region r.
Units(r) == r.ptr128 .. r.ptr128 + r.size128 - 1

=============================================================================
