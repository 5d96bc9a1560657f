------------------------------ MODULE Lifecycle ------------------------------
(***************************************************************************)
(* Configuration and lifecycle of rezzan_runtime.c: the constructor        *)
(* rezzan_init (get_config, the checks of the options, the nonce page and  *)
(* the two pools), the destructor rezzan_fini, and how every entry point   *)
(* dispatches on what rezzan_init left behind: malloc, free, realloc and   *)
(* calloc on option_enabled, free, realloc and malloc_usable_size on the   *)
(* pool range, and the interceptors (memcpy, str*, ...) on nonce_size      *)
(* through is_poisoned.  A library constructor that runs before           *)
(* rezzan_init may already call into the runtime, so calls happen in      *)
(* phase "preinit" (those in PreInitCalls) as well as in phase "running". *)
(* Everything runs on the main thread, one call at a time; the heap pool  *)
(* itself is abstracted to a bump pointer of units (see Allocator).        *)
(***************************************************************************)
EXTENDS Integers, FiniteSets

CONSTANTS
    Unset,          \* getenv returns NULL
    Bad,            \* a value strtoull rejects (junk, or out of range)
    Envs,           \* the environments the process may start with
    Ptrs,           \* pointers the program obtains from malloc
    PreInitCalls,   \* the calls made before rezzan_init runs
    MaxPoolPtr      \* model bound on pool_ptr (the pool itself is far larger)

Calls == {"malloc", "free", "realloc", "usable", "memcpy"}

ASSUME /\ Unset # Bad /\ PreInitCalls \subseteq Calls /\ MaxPoolPtr \in Nat
       /\ Envs \subseteq [stats : {Unset, Bad, 0, 1}, disabled : {Unset, Bad, 0, 1},
                          nonce : {Unset, Bad} \cup Nat,
                          quarantine : {Unset, Bad} \cup Nat,
                          pool : {Unset, Bad} \cup Nat, flags : {Unset, Bad}]

\* REZZAN_QUARANTINE_SIZE and REZZAN_POOL_SIZE are byte counts; the model
\* takes them in 16-byte units (sizeof(Unit)), which rezzan_init divides
\* them by anyway, so that 2^31 bytes stays within TLC's integers.
PageUnits       == 4096 \div 16      \* PAGE_SIZE
PoolMmapUnits   == 2^15 \div 16      \* POOL_MMAP_SIZE
QuarantineUnits == 2^28 \div 16      \* QUARANTINE_SIZE, 256 MiB
PoolUnits       == 2^27              \* POOL_SIZE, 2 GiB
NodePoolMin     == 2^20              \* QUARANTINE_POOL_SIZE_MIN

\* get_config(name, _default): the default when the variable is unset,
\* otherwise the parsed number (a Bad value makes it call error()).
GetConfig(v, default) == IF v = Unset THEN default ELSE v

\* The static initialisers of the option and pool variables.
NoOptions == [inited |-> FALSE, enabled |-> FALSE, stats |-> FALSE,
              nonceSize |-> 0, quarantineSize |-> 0, poolSize |-> 0,
              qpoolSize |-> 0, mapped |-> {}]

VARIABLES env, phase, opt, poolPtr, owner, unit, last

vars == <<env, phase, opt, poolPtr, owner, unit, last>>

None == "none"

Init == /\ env \in Envs
        /\ phase = "preinit"
        /\ opt = NoOptions
        /\ poolPtr = 0
        /\ owner = [p \in Ptrs |-> None]
        /\ unit = [p \in Ptrs |-> 0]
        /\ last = [op |-> None, owner |-> None, via |-> None, outcome |-> None]

Callable(c) == \/ phase = "running"
               \/ phase = "preinit" /\ c \in PreInitCalls

Record(c, o, v, r) == last' = [op |-> c, owner |-> o, via |-> v, outcome |-> r]

\* error(): the message, then ud2; the process is gone.
Abort(c) == /\ phase' = "aborted"
            /\ Record(c, None, None, "ud2")
            /\ UNCHANGED <<env, opt, poolPtr, owner, unit>>

(***************************************************************************)
(* rezzan_init, lines 341-438, all under malloc_mutex.  The stats and     *)
(* disabled options are read first; a disabled runtime only marks itself *)
(* initialised.  Otherwise every option is parsed and checked, then the  *)
(* nonce page and the first chunks of both pools are mapped, unit 0 is   *)
(* poisoned and pool_ptr becomes 1.  A second call returns at once.      *)
(***************************************************************************)
EarlyParseError == env.stats = Bad \/ env.disabled = Bad

Disabled == GetConfig(env.disabled, 0) # 0

\* The variant of the checks without the switch on nonce_size.
ConfigErrorNoNonce ==
    LET pool == GetConfig(env.pool, PoolUnits)
    IN  \/ env.nonce = Bad
        \/ env.quarantine = Bad \/ env.pool = Bad
        \/ pool < PoolMmapUnits \/ pool % PageUnits # 0
        \/ env.flags = Bad

ConfigError ==
    LET nonce == GetConfig(env.nonce, 61)
        pool  == GetConfig(env.pool, PoolUnits)
    IN  \/ env.nonce = Bad \/ nonce \notin {61, 64}
        \/ env.quarantine = Bad \/ env.pool = Bad
        \/ pool < PoolMmapUnits \/ pool % PageUnits # 0
        \/ env.flags = Bad

\* Lines 350-438: what rezzan_init does once past its option_inited test.
InitOptions ==
    /\ IF EarlyParseError \/ (~Disabled /\ ConfigError)
       THEN Abort("init")
       ELSE LET q == GetConfig(env.quarantine, QuarantineUnits)
            IN  /\ opt' = IF Disabled
                          THEN [NoOptions EXCEPT !.inited = TRUE,
                                  !.stats = GetConfig(env.stats, 0) # 0]
                          ELSE [inited |-> TRUE, enabled |-> TRUE,
                                stats |-> GetConfig(env.stats, 0) # 0,
                                nonceSize |-> GetConfig(env.nonce, 61),
                                quarantineSize |-> q,
                                poolSize |-> GetConfig(env.pool, PoolUnits),
                                qpoolSize |-> IF 2 * q < NodePoolMin
                                              THEN NodePoolMin ELSE 2 * q,
                                mapped |-> {"nonce", "pool", "qpool"}]
                /\ poolPtr' = IF Disabled THEN poolPtr ELSE 1
                /\ phase' = "running"
                /\ Record("init", None, None, "ok")
                /\ UNCHANGED <<env, owner, unit>>

RezzanInit == phase \in {"preinit", "running"} /\ ~opt.inited /\ InitOptions

(***************************************************************************)
(* The entry points.  A pointer is owned by libc or by the pool; a pool   *)
(* pointer addresses unit[p] of the pool.                                 *)
(***************************************************************************)

\* The range test of rezzan_free, rezzan_realloc and malloc_usable_size:
\* pool <= ptr128 < pool + pool_size.  Before rezzan_init, and when it is
\* disabled, pool is NULL and pool_size 0, so nothing is in range.
InPool(p) == owner[p] = "pool" /\ unit[p] < opt.poolSize

\* Which allocator free and realloc hand p to: __libc_* while disabled
\* (or not yet initialised), then the range test.  The variant drops the
\* range test.
RouteNoRange(p) == IF ~opt.enabled THEN "libc" ELSE "pool"

Route(p) == IF ~opt.enabled THEN "libc"
            ELSE IF InPool(p) THEN "pool" ELSE "libc"

\* rezzan_malloc, lines 584-585 (and rezzan_calloc, lines 796-797):
\* __libc_malloc until the runtime is enabled, otherwise a fresh region
\* from the pool bump pointer.
Malloc(p) ==
    /\ Callable("malloc") /\ owner[p] = None
    /\ opt.enabled => poolPtr < MaxPoolPtr
    /\ IF opt.enabled
       THEN /\ owner' = [owner EXCEPT ![p] = "pool"]
            /\ unit' = [unit EXCEPT ![p] = poolPtr]
            /\ poolPtr' = poolPtr + 1
            /\ Record("malloc", "pool", "pool", "ok")
       ELSE /\ owner' = [owner EXCEPT ![p] = "libc"]
            /\ Record("malloc", "libc", "libc", "ok")
            /\ UNCHANGED <<unit, poolPtr>>
    /\ UNCHANGED <<env, phase, opt>>

\* rezzan_free, lines 707-722: NULL returns, a disabled runtime or a
\* pointer outside the pool goes to __libc_free, the rest to the quarantine.
Free(p) ==
    /\ Callable("free") /\ owner[p] # None
    /\ owner' = [owner EXCEPT ![p] = None]
    /\ Record("free", owner[p], Route(p), "ok")
    /\ UNCHANGED <<env, phase, opt, poolPtr, unit>>

\* rezzan_realloc, lines 754-766 and 777-787: __libc_realloc, or a new
\* pool region (rezzan_malloc) after which the old one is freed.
Realloc(p) ==
    /\ Callable("realloc") /\ owner[p] # None
    /\ Route(p) = "pool" => poolPtr < MaxPoolPtr
    /\ IF Route(p) = "pool"
       THEN /\ unit' = [unit EXCEPT ![p] = poolPtr]
            /\ poolPtr' = poolPtr + 1
       ELSE UNCHANGED <<unit, poolPtr>>
    /\ Record("realloc", owner[p], Route(p), "ok")
    /\ UNCHANGED <<env, phase, opt, owner>>

\* malloc_usable_size, lines 1056-1071: the range test alone.
Usable(p) ==
    /\ Callable("usable") /\ owner[p] # None
    /\ Record("usable", owner[p], IF InPool(p) THEN "pool" ELSE "libc", "ok")
    /\ UNCHANGED <<env, phase, opt, poolPtr, owner, unit>>

\* is_poisoned, lines 278-287, on a word that holds no token: a switch on
\* nonce_size with no default.  For any other nonce_size control falls off
\* the end of the function and the result is undefined: false, true (ud2
\* in check_poisoned), or, when the compiler took the switch as exhaustive,
\* a read of the nonce at 0x10000, unmapped unless rezzan_init mapped it.
IsPoisonedOutcomes ==
    IF opt.nonceSize \in {61, 64} THEN {"ok"}
    ELSE {"ok", "ud2"} \cup (IF "nonce" \in opt.mapped THEN {} ELSE {"segv"})

\* memcpy (and every check_poisoned user), lines 815-823, on a buffer the
\* program owns: check_poisoned tests the words of the range; a range of no
\* whole word tests none.
Memcpy ==
    /\ Callable("memcpy")
    /\ \E words \in {0, 1} :
         \E r \in (IF words = 0 THEN {"ok"} ELSE IsPoisonedOutcomes) :
           /\ phase' = IF r = "ok" THEN phase ELSE "aborted"
           /\ Record("memcpy", None, None, r)
    /\ UNCHANGED <<env, opt, poolPtr, owner, unit>>

\* rezzan_fini, lines 445-458: statistics on stdout if REZZAN_STATS was
\* set; the process then exits.
RezzanFini ==
    /\ phase = "running"
    /\ phase' = "exited"
    /\ Record("fini", None, None, IF opt.stats THEN "stats" ELSE "ok")
    /\ UNCHANGED <<env, opt, poolPtr, owner, unit>>

Next == \/ RezzanInit
        \/ \E p \in Ptrs : Malloc(p) \/ Free(p) \/ Realloc(p) \/ Usable(p)
        \/ Memcpy
        \/ RezzanFini

Spec == Init /\ [][Next]_vars

-----------------------------------------------------------------------------
TypeOK ==
    /\ env \in Envs
    /\ phase \in {"preinit", "running", "aborted", "exited"}
    /\ opt.inited \in BOOLEAN /\ opt.enabled \in BOOLEAN /\ opt.stats \in BOOLEAN
    /\ opt.nonceSize \in {0, 61, 64}
    /\ {opt.quarantineSize, opt.poolSize, opt.qpoolSize} \subseteq Nat
    /\ opt.mapped \subseteq {"nonce", "pool", "qpool"}
    /\ owner \in [Ptrs -> {None, "libc", "pool"}]
    /\ unit \in [Ptrs -> Nat] /\ poolPtr \in Nat

\* Every free, realloc and malloc_usable_size reaches the allocator that
\* made the pointer, including a pointer __libc_malloc returned before
\* rezzan_init enabled the runtime: rezzan_free's range test must send it
\* to __libc_free even though option_enabled has changed since.
FreedByOwner ==
    last.op \in {"free", "realloc", "usable"} => last.via = last.owner

\* An interceptor called on memory the program owns returns (spec 4.7:
\* a disabled runtime short-circuits all interceptors): memcpy, strlen
\* and the others never trap or fault through check_poisoned.
InterceptorsReturn == last.op = "memcpy" => last.outcome = "ok"

====
