------------------------------ MODULE Allocator ------------------------------
(***************************************************************************)
(* The allocator facade of rezzan_runtime.c with the heap pool, the        *)
(* quarantine and the pool's words, shared by several program threads.   *)
(*                                                                         *)
(* malloc_mutex guards pool_ptr, pool_mmap and the quarantine.  The code   *)
(* does nothing but compute inside its two critical sections (the middle   *)
(* of rezzan_malloc, and quarantine_insert in rezzan_free), so each is one *)
(* atomic step here and the mutex needs no variable.  Everything outside   *)
(* the lock is split where another thread can observe the difference.    *)
(*                                                                         *)
(* Addresses are pool-relative: a unit index u (16 bytes) is word 2u and   *)
(* byte 16u.  The state starts right after rezzan_init with the program    *)
(* enabled (REZZAN_DISABLED unset) and REZZAN_CHECKS off.                 *)
(***************************************************************************)
EXTENDS Quarantine, Token, FiniteSets

CONSTANTS
    Threads,         \* program threads calling into the allocator
    PoolUnits,       \* pool_size, in units
    PoolMmapUnits,   \* POOL_MMAP_SIZE, in units
    PageUnits,       \* PAGE_SIZE / sizeof(Unit)
    QuarantineSize,  \* quarantine_size, in units
    Sizes,           \* byte sizes the program passes to malloc
    ReallocSizes,    \* byte sizes the program passes to realloc
    CallocArgs,      \* [nmemb, size] pairs the program passes to calloc
    Accesses,        \* [off, n]: ranges, relative to an object, checked
    BuggyFrees       \* may the program free pointers it does not own?

ASSUME PageWords = 2 * PageUnits
ASSUME PoolUnits % PageUnits = 0 /\ PoolMmapUnits % PageUnits = 0
ASSUME Sizes \subseteq Nat /\ ReallocSizes \subseteq Sizes \ {0}
ASSUME CallocArgs \subseteq [nmemb : Nat, size : Nat]

VARIABLES
    mem,        \* word index -> word: the pool's memory
    poolPtr,    \* pool_ptr
    poolMmap,   \* pool_mmap
    q,          \* the quarantine (module Quarantine)
    pc,         \* per-thread program counter
    loc,        \* per-thread locals of the call in progress
    objs,       \* ghost: objects malloc returned and free was not called on
    status      \* [kind, legal]: "running", or why the process stopped and
                \* (ghost) whether the operation that stopped it was legal

vars == <<mem, poolPtr, poolMmap, q, pc, loc, objs, status>>

PoolWords == 0 .. 2 * PoolUnits - 1

NoLocals == [ptr |-> 0, size |-> 0, size128 |-> 0, fromQ |-> FALSE,
             i |-> 0, legal |-> TRUE, inWords |-> TRUE, old |-> 0, oldSize |-> 0]

\* rezzan_init, lines 403-438: fresh zero pages, unit 0 poisoned as the
\* underflow sentinel, pool_ptr = 1, one POOL_MMAP_SIZE chunk committed.
Init ==
    /\ mem = [w \in PoolWords |-> IF w < 2 THEN Poison(0) ELSE ZeroWord]
    /\ poolPtr = 1
    /\ poolMmap = PoolMmapUnits
    /\ q = QInit
    /\ pc = [t \in Threads |-> "idle"]
    /\ loc = [t \in Threads |-> NoLocals]
    /\ objs = {}
    /\ status = [kind |-> "running", legal |-> TRUE]

Running == status.kind = "running"

Stop(kind, legal) == status' = [kind |-> kind, legal |-> legal]

\* rezzan_malloc is entered from the program, or from rezzan_realloc
\* (line 777) with the new size.
MallocEntry(t, size) ==
    \/ pc[t] = "idle"
    \/ pc[t] = "realloc_malloc" /\ size = loc[t].size

\* Where rezzan_malloc returns to: the program, which now owns the object,
\* or rezzan_realloc's copy.
MallocReturn(t) ==
    IF loc[t].old # 0
    THEN /\ pc' = [pc EXCEPT ![t] = "realloc_copy"]
         /\ UNCHANGED <<loc, objs>>
    ELSE /\ pc' = [pc EXCEPT ![t] = "idle"]
         /\ loc' = [loc EXCEPT ![t] = NoLocals]
         /\ objs' = objs \cup {[base |-> loc[t].ptr, size |-> loc[t].size]}

\* The walk of rezzan_realloc and malloc_usable_size: the number of
\* unpoisoned words from word w up to the first poisoned one.
RECURSIVE CountUnpoisoned(_, _)
CountUnpoisoned(m, w) ==
    IF w \notin DOMAIN m \/ IsPoisoned(m[w]) THEN 0 ELSE 1 + CountUnpoisoned(m, w + 1)

-----------------------------------------------------------------------------
(* Variant of pool_malloc with one slip: the cap of pool_mmap at          *)
(* pool_size left out.                                                    *)
PoolMallocNoCap(s) ==
    LET newPtr == poolPtr + s
        m0     == newPtr + PoolMmapUnits
        m1     == IF m0 % PageUnits # 0 THEN m0 + PageUnits - (m0 % PageUnits)
                  ELSE m0
    IN  IF newPtr > PoolUnits THEN [ptr |-> Nil, ptrNext |-> poolPtr,
                                    mmap |-> poolMmap]
        ELSE [ptr |-> poolPtr, ptrNext |-> newPtr,
              mmap |-> IF newPtr > poolMmap THEN m1 ELSE poolMmap]

(* pool_malloc(size128): bump pool_ptr, first committing pages up to      *)
(* pool_ptr + size128 + POOL_MMAP_SIZE, page-rounded and capped at        *)
(* pool_size.  ptr = Nil when the pool is out of space (ENOMEM).          *)
PoolMalloc(s) ==
    LET newPtr == poolPtr + s
        m0     == newPtr + PoolMmapUnits
        m1     == IF m0 % PageUnits # 0 THEN m0 + PageUnits - (m0 % PageUnits)
                  ELSE m0
        mmap   == IF newPtr > poolMmap
                  THEN IF m1 > PoolUnits THEN PoolUnits ELSE m1
                  ELSE poolMmap
    IN  IF newPtr > PoolUnits THEN [ptr |-> Nil, ptrNext |-> poolPtr,
                                    mmap |-> poolMmap]
        ELSE [ptr |-> poolPtr, ptrNext |-> newPtr, mmap |-> mmap]

\* Variant of the locked part of rezzan_malloc with one slip: the last
\* token is not poisoned before the unlock.
MallocLockedNoLastPoison(t, size) ==
    LET sz     == IF size = 0 THEN 1 ELSE size
        s      == Size128(sz)
        tryQ   == q.usage > QuarantineSize
        qr     == QuarantineMalloc(q, s)
        fromQ  == tryQ /\ qr.ptr # Nil
        pr     == PoolMalloc(s)
        ptr    == IF fromQ THEN qr.ptr ELSE pr.ptr
    IN  /\ Running /\ MallocEntry(t, size)
        /\ IF tryQ /\ qr.ub
           THEN Stop("ub", TRUE) /\ UNCHANGED <<mem, poolPtr, poolMmap, q, pc, loc>>
           ELSE IF ptr = Nil
           THEN Stop("oom", TRUE) /\ UNCHANGED <<mem, poolPtr, poolMmap, q, pc, loc>>
           ELSE /\ q' = IF fromQ THEN qr.q ELSE q
                /\ poolPtr'  = IF fromQ THEN poolPtr ELSE pr.ptrNext
                /\ poolMmap' = IF fromQ THEN poolMmap ELSE pr.mmap
                /\ pc' = [pc EXCEPT ![t] = "malloc_unlocked"]
                /\ loc' = [loc EXCEPT ![t].ptr = ptr, ![t].size = sz,
                                      ![t].size128 = s, ![t].fromQ = fromQ]
                /\ UNCHANGED <<mem, status>>
        /\ UNCHANGED objs

\* rezzan_malloc, lines 586-616: size the object (0 counts as 1), and under the lock take
\* memory from the quarantine when its usage exceeds quarantine_size, else
\* (or on NULL) from the pool; poison the object's last token before the
\* unlock.  No memory at all ends in error() (ud2).
MallocLocked(t, size) ==
    LET sz     == IF size = 0 THEN 1 ELSE size
        s      == Size128(sz)
        tryQ   == q.usage > QuarantineSize
        qr     == QuarantineMalloc(q, s)
        fromQ  == tryQ /\ qr.ptr # Nil
        pr     == PoolMalloc(s)
        ptr    == IF fromQ THEN qr.ptr ELSE pr.ptr
        last   == 2 * (ptr + s) - 1
    IN  /\ Running /\ MallocEntry(t, size)
        /\ IF tryQ /\ qr.ub
           THEN Stop("ub", TRUE) /\ UNCHANGED <<mem, poolPtr, poolMmap, q, pc, loc>>
           ELSE IF ptr = Nil
           THEN Stop("oom", TRUE) /\ UNCHANGED <<mem, poolPtr, poolMmap, q, pc, loc>>
           ELSE /\ q' = IF fromQ THEN qr.q ELSE q
                /\ poolPtr'  = IF fromQ THEN poolPtr ELSE pr.ptrNext
                /\ poolMmap' = IF fromQ THEN poolMmap ELSE pr.mmap
                /\ mem' = [mem EXCEPT ![last] = Poison(sz)]
                /\ pc' = [pc EXCEPT ![t] = "malloc_unlocked"]
                /\ loc' = [loc EXCEPT ![t].ptr = ptr, ![t].size = sz,
                                      ![t].size128 = s, ![t].fromQ = fromQ]
                /\ UNCHANGED status
        /\ UNCHANGED objs

\* Variants of the unlocked part of rezzan_malloc, each with one slip:
\* size64 = size / 8 not rounded up, so a partial last user word keeps
\* its token; the redzone loop compares end64 + 1 > end8, which also
\* poisons the partial last user word.
MallocUnlockedZeroFloor(t) ==
    LET l     == loc[t]
        base  == 2 * l.ptr
        zeroW == {base + k : k \in 0 .. (l.size \div TokenBytes) - 1}
        redW  == {base + k : k \in UserWords(l.size) .. 2 * l.size128 - 2}
    IN  /\ Running /\ pc[t] = "malloc_unlocked"
        /\ mem' = [w \in PoolWords |->
                      CASE w \in redW                -> Poison(l.size)
                        [] w \in zeroW /\ l.fromQ    -> ZeroWord
                        [] OTHER                     -> mem[w]]
        /\ MallocReturn(t)
        /\ UNCHANGED <<poolPtr, poolMmap, q, status>>

\* rezzan_malloc, lines 618-677: after the unlock, zero the user words of
\* memory reused from the quarantine (fresh pool pages are already zero),
\* then poison the redzone from the second-to-last token down to the first
\* word wholly past the user bytes, and return ptr.
MallocUnlocked(t) ==
    LET l     == loc[t]
        base  == 2 * l.ptr
        zeroW == {base + k : k \in 0 .. UserWords(l.size) - 1}
        redW  == {base + k : k \in UserWords(l.size) .. 2 * l.size128 - 2}
    IN  /\ Running /\ pc[t] = "malloc_unlocked"
        /\ mem' = [w \in PoolWords |->
                      CASE w \in redW                -> Poison(l.size)
                        [] w \in zeroW /\ l.fromQ    -> ZeroWord
                        [] OTHER                     -> mem[w]]
        /\ MallocReturn(t)
        /\ UNCHANGED <<poolPtr, poolMmap, q, status>>

\* rezzan_calloc, lines 794-806: rezzan_malloc(nmemb * size), relying on
\* malloc's zeroing (the REZZAN_CHECKS loop that re-reads the bytes is
\* off).  The product is not checked for overflow.
Calloc(t, a) == MallocLocked(t, a.nmemb * a.size)

-----------------------------------------------------------------------------
\* The pointers a program passes to free: the bases of its objects, and,
\* when it is buggy, any unit the pool handed out so far except those of
\* an allocation still in progress (no pointer to them exists yet).
FreeTargets ==
    IF BuggyFrees
    THEN (1 .. poolPtr - 1) \
            UNION {Units(Region(loc[t].ptr, loc[t].size128)) :
                      t \in {t2 \in Threads : pc[t2] \in {"malloc_unlocked", "realloc_copy"}}}
    ELSE {o.base : o \in objs}

IsObjectBase(u) == \E o \in objs : o.base = u

\* rezzan_free is entered from the program, or from rezzan_realloc
\* (line 787) with the old pointer, whose ownership realloc recorded.
FreeEntry(t, u) ==
    \/ pc[t] = "idle"
    \/ pc[t] = "realloc_free" /\ u = loc[t].old

FreeLegal(t, u) == IF pc[t] = "realloc_free" THEN loc[t].legal ELSE IsObjectBase(u)

\* Variant of the checks of rezzan_free with one slip: the base-marker
\* test of ptr64 - 1 left out.
FreeCheckNoBase(t, u) ==
    LET w == 2 * u
    IN  /\ Running /\ FreeEntry(t, u)
        /\ IF IsPoisoned(mem[w])
           THEN /\ Stop("bad_free", FreeLegal(t, u))
                /\ UNCHANGED <<pc, loc, objs>>
           ELSE /\ pc' = [pc EXCEPT ![t] = "free_walk"]
                /\ loc' = [loc EXCEPT ![t] = [NoLocals EXCEPT !.ptr = u,
                                                !.legal = FreeLegal(t, u)]]
                /\ objs' = {o \in objs : o.base # u}
                /\ UNCHANGED status
        /\ UNCHANGED <<mem, poolPtr, poolMmap, q>>

\* rezzan_free, lines 707-734: an already poisoned word at ptr is a double
\* (or bad) free, an unpoisoned word before it is not an object base; both
\* end in error() (ud2).  legal records whether the program owned ptr.
FreeCheck(t, u) ==
    LET w == 2 * u
    IN  /\ Running /\ FreeEntry(t, u)
        /\ IF IsPoisoned(mem[w]) \/ ~IsPoisoned(mem[w - 1])
           THEN /\ Stop("bad_free", FreeLegal(t, u))
                /\ UNCHANGED <<pc, loc, objs>>
           ELSE /\ pc' = [pc EXCEPT ![t] = "free_walk"]
                /\ loc' = [loc EXCEPT ![t] = [NoLocals EXCEPT !.ptr = u,
                                                !.legal = FreeLegal(t, u)]]
                /\ objs' = {o \in objs : o.base # u}
                /\ UNCHANGED status
        /\ UNCHANGED <<mem, poolPtr, poolMmap, q>>

\* Variant of the walk with one slip: the token count i + 1 taken as the
\* size in units instead of halved.
FreeWalkTokens(t) ==
    LET l == loc[t]
        w == 2 * l.ptr + l.i
    IN  /\ Running /\ pc[t] = "free_walk"
        /\ IF ~IsPoisoned(mem[w])
           THEN /\ mem' = [mem EXCEPT ![w] = Poison(0)]
                /\ loc' = [loc EXCEPT ![t].i = @ + 1]
                /\ UNCHANGED pc
           ELSE /\ loc' = [loc EXCEPT ![t].size128 = l.i + 1]
                /\ pc' = [pc EXCEPT ![t] = "free_insert"]
                /\ UNCHANGED mem
        /\ UNCHANGED <<poolPtr, poolMmap, q, objs, status>>

\* rezzan_free, lines 736-742: one iteration of the walk poisoning the
\* object word by word up to its right redzone; at the first poisoned word
\* the object size is i + 1 tokens, rounded up to whole units.
FreeWalk(t) ==
    LET l == loc[t]
        w == 2 * l.ptr + l.i
    IN  /\ Running /\ pc[t] = "free_walk"
        /\ IF ~IsPoisoned(mem[w])
           THEN /\ mem' = [mem EXCEPT ![w] = Poison(0)]
                /\ loc' = [loc EXCEPT ![t].i = @ + 1]
                /\ UNCHANGED pc
           ELSE /\ loc' = [loc EXCEPT ![t].size128 = (l.i + 2) \div 2]
                /\ pc' = [pc EXCEPT ![t] = "free_insert"]
                /\ UNCHANGED mem
        /\ UNCHANGED <<poolPtr, poolMmap, q, objs, status>>

\* rezzan_free, lines 744-746: quarantine_insert under the lock; an
\* exhausted FreeNode pool ends in error() (ud2).
FreeInsert(t) ==
    LET l  == loc[t]
        qi == QuarantineInsert(q, l.ptr, l.size128)
    IN  /\ Running /\ pc[t] = "free_insert"
        /\ q' = qi.q
        /\ IF qi.abort THEN Stop("node_pool", TRUE) ELSE UNCHANGED status
        /\ pc' = [pc EXCEPT ![t] = "idle"]
        /\ loc' = [loc EXCEPT ![t] = NoLocals]
        /\ UNCHANGED <<mem, poolPtr, poolMmap, objs>>

-----------------------------------------------------------------------------
\* rezzan_realloc, lines 752-775, for a unit-aligned pool pointer u (NULL
\* is malloc, a misaligned pointer is an error, a foreign one goes to
\* libc): count the words up to the first poisoned one, without the lock,
\* then call rezzan_malloc(size).  The program gives up u.
ReallocWalk(t, u, size) ==
    LET legal == IsObjectBase(u)
        osize == IF legal THEN (CHOOSE o \in objs : o.base = u).size ELSE 0
    IN  /\ Running /\ pc[t] = "idle"
        /\ pc' = [pc EXCEPT ![t] = "realloc_malloc"]
        /\ loc' = [loc EXCEPT ![t] = [NoLocals EXCEPT !.old = u, !.oldSize = osize,
                       !.i = CountUnpoisoned(mem, 2 * u), !.size = size, !.legal = legal]]
        /\ objs' = {o \in objs : o.base # u}
        /\ UNCHANGED <<mem, poolPtr, poolMmap, q, status>>

\* Variant of the copy with one slip: copy_size = old_size, without the
\* minimum with new_size.
ReallocCopyNoMin(t) ==
    LET l    == loc[t]
        copy == TokenBytes * l.i
    IN  /\ Running /\ pc[t] = "realloc_copy"
        /\ mem' = [w \in PoolWords |->
                      IF w \in 2 * l.ptr .. 2 * l.ptr + (copy + TokenBytes - 1) \div TokenBytes - 1
                      THEN LET k == w - 2 * l.ptr
                           IN  IF TokenBytes * (k + 1) <= copy THEN mem[2 * l.old + k]
                               ELSE ZeroWord
                      ELSE mem[w]]
        /\ loc' = [loc EXCEPT ![t].inWords =
                       copy <= TokenBytes * UserWords(l.oldSize)
                       /\ copy <= TokenBytes * UserWords(l.size)]
        /\ pc' = [pc EXCEPT ![t] = "realloc_free"]
        /\ objs' = objs \cup {[base |-> l.ptr, size |-> l.size]}
        /\ UNCHANGED <<poolPtr, poolMmap, q, status>>

\* rezzan_realloc, lines 773-787: copy min(old_size, size) bytes, old_size
\* being the counted words times 8, from the old to the new object with a
\* plain byte loop, then rezzan_free(old_ptr).  The new object is the
\* program's from here on: realloc touches only the old one after this.  A word copied whole keeps
\* what it held (a token stays a token); a word copied in part is data.
\* inWords (ghost) records whether the copy stayed inside the user words
\* of both objects.
ReallocCopy(t) ==
    LET l    == loc[t]
        copy == IF TokenBytes * l.i < l.size THEN TokenBytes * l.i ELSE l.size
    IN  /\ Running /\ pc[t] = "realloc_copy"
        /\ mem' = [w \in PoolWords |->
                      IF w \in 2 * l.ptr .. 2 * l.ptr + (copy + TokenBytes - 1) \div TokenBytes - 1
                      THEN LET k == w - 2 * l.ptr
                           IN  IF TokenBytes * (k + 1) <= copy THEN mem[2 * l.old + k]
                               ELSE ZeroWord
                      ELSE mem[w]]
        /\ loc' = [loc EXCEPT ![t].inWords =
                       copy <= TokenBytes * UserWords(l.oldSize)
                       /\ copy <= TokenBytes * UserWords(l.size)]
        /\ pc' = [pc EXCEPT ![t] = "realloc_free"]
        /\ objs' = objs \cup {[base |-> l.ptr, size |-> l.size]}
        /\ UNCHANGED <<poolPtr, poolMmap, q, status>>

\* Variant of malloc_usable_size with one slip: the poisoned word that
\* ends the walk is counted too.
UsableSizePastToken(t, o) ==
    /\ Running /\ pc[t] = "idle"
    /\ o \in objs
    /\ pc' = [pc EXCEPT ![t] = "usable"]
    /\ loc' = [loc EXCEPT ![t] = [NoLocals EXCEPT !.ptr = o.base, !.size = o.size,
                                    !.i = TokenBytes * (CountUnpoisoned(mem, 2 * o.base) + 1)]]
    /\ UNCHANGED <<mem, poolPtr, poolMmap, q, objs, status>>

\* malloc_usable_size, lines 1057-1078, for a pool pointer: the number of
\* words up to the first poisoned one, times 8.
UsableSize(t, o) ==
    /\ Running /\ pc[t] = "idle"
    /\ o \in objs
    /\ pc' = [pc EXCEPT ![t] = "usable"]
    /\ loc' = [loc EXCEPT ![t] = [NoLocals EXCEPT !.ptr = o.base, !.size = o.size,
                                    !.i = TokenBytes * CountUnpoisoned(mem, 2 * o.base)]]
    /\ UNCHANGED <<mem, poolPtr, poolMmap, q, objs, status>>

\* The return of malloc_usable_size to the program.
UsableReturn(t) ==
    /\ Running /\ pc[t] = "usable"
    /\ pc' = [pc EXCEPT ![t] = "idle"]
    /\ loc' = [loc EXCEPT ![t] = NoLocals]
    /\ UNCHANGED <<mem, poolPtr, poolMmap, q, objs, status>>

-----------------------------------------------------------------------------
\* A range of acc.n bytes at byte acc.off of object o lies within its
\* size bytes (InBounds), or at least within its user words (InWords).
InBounds(o, acc) == acc.off >= 0 /\ acc.off + acc.n <= o.size

InWords(o, acc) ==
    acc.off >= 0 /\ acc.off + acc.n <= TokenBytes * UserWords(o.size)

\* memcpy / memmove / snprintf, lines 815-823: check_poisoned on the range
\* before any byte moves; a hit ends in ud2.
CheckedAccess(t, o, acc) ==
    LET a == UnitBytes * o.base + acc.off
    IN  /\ Running /\ pc[t] = "idle"
        /\ o \in objs
        /\ IF CheckPoisoned(mem, a, acc.n)
           THEN /\ Stop("bad_access", InBounds(o, acc))
                /\ UNCHANGED <<pc, loc>>
           ELSE /\ pc' = [pc EXCEPT ![t] = "copy"]
                /\ loc' = [loc EXCEPT ![t].legal = InBounds(o, acc),
                                      ![t].inWords = InWords(o, acc)]
                /\ UNCHANGED status
        /\ UNCHANGED <<mem, poolPtr, poolMmap, q, objs>>

\* The byte loop of memcpy (data is abstracted: no word changes).
Copy(t) ==
    /\ Running /\ pc[t] = "copy"
    /\ pc' = [pc EXCEPT ![t] = "idle"]
    /\ loc' = [loc EXCEPT ![t] = NoLocals]
    /\ UNCHANGED <<mem, poolPtr, poolMmap, q, objs, status>>

Next ==
    \E t \in Threads :
        \/ \E size \in Sizes : MallocLocked(t, size)
        \/ \E a \in CallocArgs : Calloc(t, a)
        \/ MallocUnlocked(t)
        \/ \E u \in (FreeTargets \cup {loc[t].old}) \ {0} : FreeCheck(t, u)
        \/ FreeWalk(t)
        \/ FreeInsert(t)
        \/ \E o \in objs, acc \in Accesses : CheckedAccess(t, o, acc)
        \/ Copy(t)
        \/ \E u \in FreeTargets, size \in ReallocSizes : ReallocWalk(t, u, size)
        \/ ReallocCopy(t)
        \/ \E o \in objs : UsableSize(t, o)
        \/ UsableReturn(t)

Spec == Init /\ [][Next]_vars

-----------------------------------------------------------------------------
(* Properties                                                              *)

\* The regions in use: live objects, objects between the two halves of
\* malloc, and the quarantined regions.
ObjRegion(o) == Region(o.base, Size128(o.size))
InFlight == {Region(loc[t].ptr, loc[t].size128) :
                t \in {t2 \in Threads : pc[t2] \in {"malloc_unlocked", "realloc_copy"}}}
                \cup {Region(loc[t].old, Size128(loc[t].oldSize)) :
                        t \in {t2 \in Threads : loc[t2].old # 0 /\ loc[t2].legal}}
InUse == {ObjRegion(o) : o \in objs} \cup InFlight \cup QRegions(q)

TypeOK ==
    /\ mem \in [PoolWords -> Words]
    /\ poolPtr \in 1 .. PoolUnits /\ poolMmap \in 1 .. PoolUnits
    /\ pc \in [Threads -> {"idle", "malloc_unlocked", "free_walk",
                            "free_insert", "copy", "realloc_malloc",
                            "realloc_copy", "realloc_free", "usable"}]
    /\ \A o \in objs : o.base \in 1 .. PoolUnits - 1 /\ o.size \in Nat \ {0}
    /\ status.kind \in {"running", "bad_free", "bad_access", "oom", "ub",
                         "node_pool"}

\* Every live object has the layout the REZZAN_CHECKS self-checks of
\* rezzan_malloc demand (lines 646-674), whatever other threads did since:
\* the word before it poisoned, its user words not, every word of its
\* redzone poisoned, the 61-bit boundary of the redzone equal to size % 8.
LayoutOK ==
    \A o \in objs :
        LET b == 2 * o.base
            u == UserWords(o.size)
        IN  /\ IsPoisoned(mem[b - 1])
            /\ \A k \in 0 .. u - 1 : ~IsPoisoned(mem[b + k])
            /\ \A k \in u .. 2 * Size128(o.size) - 1 :
                    IsPoisoned(mem[b + k]) /\ mem[b + k] = Poison(o.size)

\* No unit is in two places at once: live objects, objects being
\* allocated and quarantined regions are pairwise disjoint, and all lie in
\* the part of the pool handed out ([1, pool_ptr)) and committed.
RegionsDisjoint ==
    /\ \A r1, r2 \in InUse : r1 # r2 => Units(r1) \cap Units(r2) = {}
    /\ \A r \in InUse : Units(r) \subseteq 1 .. poolPtr - 1
    /\ poolPtr <= poolMmap

\* Every quarantined unit is fully poisoned (spec section 3), so that a
\* dangling access or free of it is caught.
QuarantinePoisoned ==
    \A r \in QRegions(q) : \A w \in 2 * r.ptr128 .. 2 * (r.ptr128 + r.size128) - 1 :
        IsPoisoned(mem[w])

\* A correct operation is never reported: the process stops on a bad free
\* or a bad access only when the program really did something wrong.
NoFalseAlarm ==
    status.kind \in {"bad_free", "bad_access"} => ~status.legal

\* free() of a pointer that is not the base of a live object never gets
\* past its checks (spec section 8, property 6).
DetectsBadFree ==
    \A t \in Threads : pc[t] \in {"free_walk", "free_insert"} => loc[t].legal

\* A range check lets through no range that reaches past the object's last
\* user word (spec section 8, properties 3 and 7): whatever the mode, a
\* redzone word is never read or written through memcpy/memmove.
DetectsOverflow ==
    \A t \in Threads : pc[t] = "copy" => loc[t].inWords

\* In 61-bit mode the check is byte-precise: no range reaching past the
\* object's size bytes gets through (spec section 8, property 4, and
\* scenario A).
DetectsByteOverflow ==
    \A t \in Threads : pc[t] = "copy" => loc[t].legal

\* realloc copies only bytes of the old object's user words into the new
\* object's user words: the token walk stops at the first redzone word, and
\* the copy is cut to the new size (spec section 8, property 10; this
\* settles section 9, question 3, for a correct program: the copy never
\* reads the redzone, whatever other threads do meanwhile).
ReallocCopyInside ==
    \A t \in Threads : pc[t] = "realloc_free" /\ loc[t].legal => loc[t].inWords

\* malloc_usable_size of a live object is a multiple of 8 that is at least
\* its size and below size128 * 16 (spec section 8, property 8), while
\* other threads allocate, free and reuse around it.
UsableSizeOK ==
    \A t \in Threads : pc[t] = "usable" =>
        /\ loc[t].i % TokenBytes = 0
        /\ loc[t].size <= loc[t].i
        /\ loc[t].i < UnitBytes * Size128(loc[t].size)

=============================================================================
