# TLA+ models of the ReZZan runtime

These modules model `src/rezzan_runtime.c`, the ReZZan heap-memory-error
detector, and check it with TLC.

## The system

ReZZan replaces `malloc`/`free` and the memory-touching libc routines
(`memcpy`, `memmove`, `str*`, `snprintf`, `printf`). Its parts:

| Part | Code | State |
|---|---|---|
| Token primitives | `union Token`, inline asm `rezzan_set/test_token61/64`, `poison`, `zero`, `is_poisoned` | one 8-byte word; a *token* is a word derived from the nonce. In 61-bit mode its low 3 bits hold `size % 8` (the *boundary*). |
| Poison-window check | `check_poisoned` | none (it reads the pool) |
| Heap pool | `pool_malloc` | `pool_ptr`, `pool_mmap`: bump pointer and committed prefix, in 16-byte units |
| Quarantine | `quarantine_node_alloc`, `quarantine_insert`, `quarantine_index`, `quarantine_malloc` | FreeNode pool (`quarantine_ptr`, `quarantine_mmap`), node freelist `quarantine_free`, `quarantine[20]` lists (front/back), `quarantine_usage` |
| Allocator facade | `rezzan_malloc`, `rezzan_free`, `rezzan_realloc`, `rezzan_calloc`, `malloc_usable_size` | the above, plus the tokens in the pool |
| Interception | `memcpy`, `memmove`, `strlen`, `strnlen`, `str*cpy/cat`, wide variants, `snprintf`, `printf` | none |
| Lifecycle | `rezzan_init`, `get_config`, `rezzan_fini`, and the `option_enabled` / pool-range dispatch of every entry point | `option_*`, `nonce_size`, `pool_size`, `quarantine_size`, `quarantine_pool_size`, the nonce page and the pools' first mappings |

**How the parts interact**
- `malloc` takes `malloc_mutex`.
  - Under the lock it takes memory from the quarantine when `quarantine_usage > quarantine_size`, and otherwise (or when the quarantine has nothing) from the pool.
  - Still under the lock, it poisons the object's last token.
  - After the unlock it zeroes the user words of reused memory and poisons the rest of the right redzone.
- `free` works in two phases.
  - Without the lock it checks that `ptr` is not poisoned and that the word before `ptr` is: the *base marker*, which is the previous object's last token.
  - Also without the lock, it walks forward poisoning words until it meets the redzone, which gives it the size.
  - Then, under the lock, it inserts the region into the quarantine.
- The interceptors call `check_poisoned` on the ranges they will touch, without the lock, and then copy.
- Every failure executes `ud2`, which raises SIGILL.
- `rezzan_init` runs as a constructor. Library constructors that run before it already reach `malloc` and `free`, which go to `__libc_*` while `option_enabled` is false; after init, `free`, `realloc` and `malloc_usable_size` tell libc pointers from pool pointers by the pool's address range. The interceptors never test `option_enabled`: they reach `is_poisoned`, which switches on `nonce_size`.

**Hard behaviours**
- Threads interleave in the unlocked halves of `malloc` and `free`.
- The quarantine lists are intrusive, and nodes are recycled.
- Splits are reinserted at the front of another class.
- `check_poisoned` has a byte-precise tail test and skips it at page starts.
- Resources run out: the pool and the node pool.

## Modules

| Module | Models |
|---|---|
| `Token` | Words as records `[p, b]`: poisoned, boundary. `Poison`, `ZeroWord`, `IsPoisoned` and `CheckPoisoned` translate the token routines and `check_poisoned` branch for branch, including the page-start skip. `Size128` and `UserWords` are `rezzan_malloc`'s unit arithmetic. |
| `Quarantine` | The quarantine state as a record `q`: nodes, front, back, free, ptr, mmap, usage. Each operation is a pure operator from `q` to a result record, so that a caller can run it inside one locked step. `QuarantineMalloc` is composed of `FirstFit` (the LIMIT-bounded first loop), `Escalate` (the class loop, including its exit with `i = NumClasses`), `Detach` and `PushFront`. |
| `QuarantineAbstract` | What the quarantine promises: a set `pending` of freed regions. A free adds a region. A take hands out the tail of some pending region and keeps its head pending. |
| `QuarantineSystem` | The quarantine driven by `free` (`Free`, lines 744-746) and by the quarantine half of `malloc` (`Malloc`, lines 601-607). Variable `held` is the set of regions the program owns. It is refined to `QuarantineAbstract` with `pending <- QRegions(q)`, the regions reachable from the lists. |
| `Allocator` | The facade for a set of `Threads`: the pool's words `mem`, `pool_ptr`, `pool_mmap`, the quarantine `q`, and per-thread `pc`/`loc`. Details follow the table. |
| `StringOps` | The string, wide-string and formatted-output interceptors at byte level, for one thread: objects laid out in a mapped pool, each word a record `[p, b, z]` where `z` is the set of its zero bytes. Details follow the table. |
| `Lifecycle` | The process from its first call to exit, on the main thread: `env` (the REZZAN_* variables, fixed at start), `phase` (preinit, running, aborted, exited), `opt` (what `rezzan_init` set), `poolPtr`, and for each pointer its `owner` (libc or pool) and `unit`. Details follow the table. |
| `SizeArith` | `check_poisoned`'s length arithmetic at the width of `int` and `size_t` (scaled to 6 and 12 bits), with the conversions and wrap-around of the C code. |
| `MCQuarantineSystem`, `MCAllocator`, `MCStringOps`, `MCLifecycle` | The model values and constant definitions for TLC. |

**How `Allocator` maps to the code**
- The two critical sections are atomic steps, so the mutex needs no variable:
  - `MallocLocked` is lines 599-616. It includes the last-token poison and the `error()` on out-of-memory.
  - `FreeInsert` is lines 744-746.
- Work outside the lock is split where another thread can see a difference:
  - `MallocUnlocked`: zeroing and redzone (lines 618-677);
  - `Calloc` (lines 794-806) is `MallocLocked` of `nmemb * size`; `MallocLocked` turns size 0 into 1 as the code does (line 587);
  - `FreeCheck`: the two tests (lines 727-734);
  - `FreeWalk`: one word of the poisoning walk per step (lines 736-742);
  - `CheckedAccess` and `Copy`: memcpy/memmove;
  - `ReallocWalk` (lines 752-775) counts the unpoisoned words of the old object in one step, then calls malloc through `MallocEntry`; `ReallocCopy` (lines 776-789) copies `min(8 * i, size)` bytes and calls free through `FreeEntry`, so realloc runs the same malloc and free steps as the program's own calls;
  - `UsableSize` (lines 1057-1078) counts the unpoisoned words of an object and `UsableReturn` returns.
- `objs` is ghost state: the live objects. `status` records why the process stopped. A ghost flag `legal` says whether the operation that stopped it, or passed a check, was legal for the program.
- User data is abstracted to a zero word. `free` poisons every word, so no data value is ever needed. A data word equal to the token has probability 2^-61 and is left out.

**How `Lifecycle` maps to the code**
- `GetConfig` is `get_config` (lines 321-336): the default when unset, else the value; an unparsable value (`Bad`) makes `rezzan_init` call `error()`.
- `RezzanInit` is the `option_inited` test (lines 341-349) followed by `InitOptions` (lines 350-438). `EarlyParseError` and `Disabled` are the first two reads (lines 350-358): a disabled runtime only sets `option_inited` and `option_stats`. `ConfigError` is the nonce-size switch and the two pool-size checks (lines 359-383) plus the parses of the debug, checks and populate flags. Otherwise the nonce page and both pools are mapped, `quarantine_pool_size = max(2 * quarantine_size, 2^20)`, unit 0 is poisoned and `pool_ptr` becomes 1. Sizes are taken in 16-byte units, which the code divides both byte counts by, so that 2^31 stays within TLC's integers.
- `Malloc` is the `option_enabled` test of `rezzan_malloc` and `rezzan_calloc` (lines 584-585, 796-797). `Free`, `Realloc` and `Usable` are the tests of lines 707-722, 754-766 and 1056-1071; `Route` and `InPool` are the shared decision (the pool range is empty while `pool` is NULL). The pool itself is a bump pointer here: `Allocator` models it in full.
- `Memcpy` stands for every `check_poisoned` user (lines 815-823). `IsPoisonedOutcomes` is `is_poisoned` (lines 278-287) on a word of the program's own memory: false when `nonce_size` is 61 or 64; otherwise control falls off the switch, which is undefined, so the model lets it be false, true (then `ud2`) or a read of the unmapped nonce page (`segv`), the results a compiler can produce.
- `RezzanFini` is `rezzan_fini` (lines 445-458); its statistics are output only.

**How `StringOps` maps to the code**
- Each interceptor is a pure operator from memory to an outcome `[stop, mem, ret, rOut, wOut]`: how it stopped (returned, `bad_access` from `ud2`, or `segv` past the mapped pool), the memory after it, the return value, and whether it read or wrote outside the object's user words. `Then` chains two calls the way the C code nests them.
- `Memcpy` (lines 815-825) is both `check_poisoned` calls and then the forward byte loop (`CopiedZeros`, recursive, so overlapping ranges behave as the loop does). `StrlenR` (lines 850-920) tests only the first word and then scans for a zero byte (`ScanZero`), as the SWAR loop does. `StrnlenR`, `StrcpyR`, `StrcatR`, `StrncpyR` (with the uninstrumented libc `memset`) and `StrncatR` (with its plain terminator store) follow lines 923-964. `WcscpyR` is the unchecked `__wcslen` scan for an aligned 4-byte zero (`ScanWZero`, lines 971-985) followed by `memcpy` of `4 * (len + 1)` bytes (lines 966-990). `SnprintfR` is `snprintf(d, n, "%s", s)`: `check_poisoned(d, n)`, then libc's `vsnprintf`, which reads all of `s` and writes `min(len, n - 1)` bytes and a NUL (lines 992-1003). `PrintfR` is `printf` with one `%s` and `REZZAN_PRINTF=1`: `strlen`, then `check_poisoned(s, n)` (lines 1006-1040).
- A store keeps a token only when it writes zeros over the token's own zero bytes (`TokenZeroBytes`); any other store destroys it.
- `Legal` is the C meaning of each call on the strings as they are in memory, so that a stop can be judged. Its lengths (`CLen`, `WLen`) are set definitions, independent of the scans the code uses, so a slip in a scan cannot change what counts as legal. For `snprintf`, `n` is taken as the size of the buffer, as C's contract has it.

## Runs

| Run | cfg | Expect | Shows |
|---|---|---|---|
| qs_safety | MCQuarantineSystem.cfg | pass | Across all interleavings of frees and quarantine reuses, no unit is held twice or both held and quarantined (`NoOverlap`), and no node is on both a list and the freelist (`FreelistDisjoint`). |
| qs_refinement | MCQuarantineRefinement.cfg | violation | The quarantine does not refine `QuarantineAbstract`: a freed region disappears (finding 1). |
| qs_nodepool | MCQuarantineNodePool.cfg | violation | `free` aborts on node-pool exhaustion instead of dropping the region (finding 2). |
| alloc_conc61 | MCAllocator.cfg | pass | Two threads of a correct program run malloc, calloc, free, realloc, malloc_usable_size and checked copies, with quarantine reuse, pool growth and its cap. Every object keeps its layout (`LayoutOK`); regions in use are disjoint and inside `[1, pool_ptr)` (`RegionsDisjoint`); quarantined units stay poisoned (`QuarantinePoisoned`); no legal operation is reported (`NoFalseAlarm`); realloc copies only inside the user words of both objects (`ReallocCopyInside`); `malloc_usable_size` returns a multiple of 8 between the size and the end of the object's units (`UsableSizeOK`). |
| alloc_detect61 | MCAllocatorDetect61.cfg | pass | A program that frees any unit of the pool in 61-bit mode, with objects of malloc and a 1-byte object of `calloc(0, 13)`, has every bad or double free caught, and every range past the last user word caught, and nothing legal is reported. |
| alloc_wordend61 | MCAllocatorWordEnd.cfg | violation | A 1-byte overflow ending on a word boundary passes (finding 4). |
| alloc_realloc_freed | MCAllocatorReallocFreed.cfg | violation | realloc of a freed pointer quarantines the object it returns (finding 5). |
| sizearith_checklen | SizeArith.cfg | violation | `check_len` wraps: a range of `2^32` bytes or more tests too few words, and one near `2^31` gives a negative length that the loop scans as a huge `size_t` (finding 6). |
| str_checked | MCStringOps.cfg | pass | strlen, strnlen, strcpy, strcat, wcscpy, snprintf and printf on terminated and unterminated strings never stop a legal call (`NoFalseAlarm`), and a legal call that returns has read and written only the user words of its objects (`LegalStaysInside`): the scans, including strlen's word-at-a-time loop stop inside the strings. The only legal `wcscpy` these objects allow copies an empty wide string, so `__wcslen`'s aligned-zero test is not exercised on a longer one (see Bounds). |
| str_strncpy_fit | MCStringOpsStrncpyFit.cfg | violation | A legal strncpy stops the process (finding 7). |
| str_strncat_nul | MCStringOpsStrncatNul.cfg | violation | strncat's terminator store overwrites a redzone token unreported (finding 8). |
| lifecycle | MCLifecycle.cfg | pass | Over eight environments (defaults; stats with 64-bit tokens and a 4 GiB quarantine; disabled; a one-page pool, a pool that is not a whole number of pages, nonce size 7, a junk flag and a junk `REZZAN_STATS`, all rejected), with a library constructor calling `malloc`, `free`, `realloc` and `malloc_usable_size` before `rezzan_init`: every free, realloc and `malloc_usable_size` reaches the allocator that made the pointer (`FreedByOwner`), including a libc pointer freed after the runtime was enabled. |

Each property of a passing run has a mutant in `PROJECT.json`: an operator that differs from the code by one plausible slip, defined just before the definition it replaces. Under the run's cfg, TLC finds the property violated for every mutant.

## Findings

1. **The back pointer is stale after an unlink through `prev`** (lines 502-503). `quarantine[i].back` is not updated, so the next insert appends to a node that is off the list: the region leaks, usage still counts it, and list and freelist links cross. In states reached this way a too-small node can head the last class, and the escalation loop (lines 493-504) can exit with `i == 20`, reading past `quarantine[]`.
2. **Node-pool exhaustion aborts** (line 163). The spec (4.4, 7) says the free is dropped silently; the NULL check at line 686 is dead.
3. **Racing double free** (line 727). The free checks run unlocked before the poisoning walk. `MCAllocatorRaceFree.cfg` (two threads, bad frees) makes TLC violate `DetectsBadFree` in a few steps; it is kept beside the runs rather than among them, which hold one configuration per question.
4. **Byte precision lost at a word end** (line 306). The boundary test runs only when `end_delta != 0`; after `malloc(7)` a read of byte 7 passes.
5. **realloc of a freed pointer** (line 777). No poison test; malloc can return the old region itself, which the final free then quarantines.
6. **`int check_len`** (line 297). A range of `2^32` bytes or more truncates the length, so too few words are tested and the copy runs unchecked. A range near `2^31` bytes makes `check_len` negative; the compare `i < check_len` (line 304) converts it to a huge `size_t`, so the loop scans far past the range (at 6/12-bit widths, `n` = 18 with front 7 gives 4092 words for a 4-word range) until a token gives a false report or unmapped memory faults.
7. **strncpy copies n + 1 bytes** (line 952) when the source has no NUL among its first n bytes, so a legal call ends in SIGILL.
8. **strncat's terminator is a plain store** (line 961), made before memcpy's check; an off-by-one strncat destroys the redzone token silently.

**Other gaps seen while modelling, kept as hazards in `PROJECT.json`**
- `is_poisoned` has no default case (line 280). With `REZZAN_DISABLED=1`, `nonce_size` stays 0, so every `memcpy`, `str*` and `snprintf` runs into undefined behaviour, although spec 4.7 says a disabled runtime short-circuits the interceptors; the same holds for calls made before `rezzan_init`. `InterceptorsReturn` states the spec's promise, and `MCLifecycleDisabled.cfg` makes TLC violate it in two steps (init disabled, then a memcpy that traps).
- `REZZAN_QUARANTINE_SIZE` is never bounded (line 416): above 2 GiB the FreeNode pool may grow over the 4 GiB gap into the heap pool, and `REZZAN_POOL_SIZE` has no upper bound, so pools beyond 2^32 units truncate `FreeNode`'s 32-bit offsets (line 689).
- The page-start skip of the tail test (line 309) misses a 1-byte overflow when the redzone starts a page; spec 4.2 allows it, spec 8 property 4 does not.
- `rezzan_malloc` aborts when the pool is exhausted (line 609); spec 7 says ENOMEM is returned.
- `size + sizeof(Token)` wraps near `SIZE_MAX` (line 591), and `calloc` multiplies without an overflow check (line 800).
- strncpy's padding uses libc `memset`, which nothing checks (line 951); strcat's and strlen's scans run through redzones unchecked (lines 943, 893) when a string is unterminated.

## Bounds and why they suffice

**Quarantine**
- There are 3 classes; the code has 20. One class holds sizes 0-1, one holds 2-3, and one holds 4 and more. That is enough for the first loop, escalation, splits into a lower class and the clamp of the last class.
- `Limit` = 1 (the code's `LIMIT` is 8), so that the first loop can stop before a fitting node and leave it to escalation.
- The node pool is smaller than the code's, so that it can run out.

**Allocator**
- The pool has 4 units and pages of 2 units. That gives growth and its cap.
- Sizes are 5 and 13 in the concurrent run (a partial last word; one and two units), so realloc both grows and shrinks; 7 in the word-end run. The single-thread detect run uses 5, 7, 13 and 24; 24 has a user word in its second unit, so an interior free passes the first check. Realloc sizes are empty in the detect and race runs, because realloc of a freed pointer is its own finding (5) and run.
- The accesses are: the whole of a 5-byte object, the byte after it, byte 13, and the byte before the base. Together they cover legal, byte-overflow, word-overflow and underflow.

**StringOps**
- Two objects of 8 and 5 bytes (a whole word and a partial one) followed by one trailing unit, inside one page, with every string length from 0 up to the object's size minus one, or up to its size (no NUL inside the object) when `Unterminated` holds; n in {3, 5, 8, 12} is below, at and above both sizes. A wide string of one `wchar_t` needs 8 bytes and a destination of 8 bytes other than its source, which this layout does not have, so the legal `wcscpy` copies only an empty wide string; layouts with a second object of 9 or 12 bytes take two units for it and do not finish within the five-minute limit.
- `TokenZeroBytes` = {} makes every store onto a token destroy it. Only an illegal call stores onto a token, so this choice matters only in `str_strncat_nul`, where it is the worst case the finding describes; `str_checked` never exercises it.

**Lifecycle**
- Two pointers and `MaxPoolPtr` = 5 give a pre-init libc pointer beside pool pointers, a realloc that moves a pool object, and reuse of a pointer after free; eight environments reach every branch of `rezzan_init`: each rejection, including both pool-size checks (a one-page pool fails the minimum at line 380, a pool of 2064 units passes it and fails the page test at line 383), the disabled path and two accepted configurations. A run has at most nine steps, which is enough for an allocation before init, init, allocations on both sides, a realloc, frees and exit.

**SizeArith**
- `int` of 6 bits and `size_t` of 12 keep the ratio that makes the C conversions wrap; every length below `SIZE_MAX - 8` and every front offset are checked.

## Fairness and deadlock

Only safety is checked, and no fairness is assumed. No call of the code waits for anything but `malloc_mutex`, and both sections it guards are finite computations modelled as single steps; every call of the facade is a bounded sequence of steps, each enabled whenever the process runs. That every call returns is therefore a property of the code's structure that no slip in its computations could break, and it is not stated as a temporal property. A process that executes `ud2` has stopped for good, and StringOps stops at the first error, so `CHECK_DEADLOCK FALSE` is set in every cfg; in `Lifecycle` the process also stops for good when `rezzan_fini` has run at exit. The code has no waits other than the mutex, whose sections are atomic steps here.

## Not modelled

- **`calloc`'s product overflow**: sizes are small integers without a width in `Allocator`, so the wrap of `nmemb * size` is listed as a hazard.
- **`printf` and `snprintf` formats other than one `%s`**: the `printf` loop acts on `%s` only, and `snprintf`'s check covers `n` whatever the format, so other conversions change only what libc writes inside the checked range.
- **`strncat` in the passing string run**: its appends multiply the memory contents beyond what a run can explore in minutes; it is checked alone in `str_strncat_nul`.
- **A program racing its own copies with free**: `Copy` in `Allocator` carries no data, so a copy writing into a region another thread has just quarantined is listed as a hazard, not checked.
- The nonce's random value (getrandom) and the text `rezzan_fini` prints are data and output; `Lifecycle` keeps which pages are mapped and whether statistics are printed.
- The `getrandom` wrapper and the libc/C++ aliases are system-call and symbol glue with no state.
- **Threads before or during `rezzan_init`**: `option_enabled` is set (line 352) before the pools exist, and the interceptors read it and `nonce_size` without the lock; a thread running then would see a half-built runtime. Constructors run on the main thread before `main`, so `Lifecycle` keeps to one thread.
