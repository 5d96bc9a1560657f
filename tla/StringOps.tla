------------------------------ MODULE StringOps ------------------------------
(***************************************************************************)
(* The string interceptors of rezzan_runtime.c (strlen, strnlen, strcpy,   *)
(* strcat, strncpy, strncat, wcscpy, snprintf and printf's %s check) and  *)
(* the memcpy and libc memset they are built from, run by a program on    *)
(* objects the allocator has laid out.                                    *)
(*                                                                         *)
(* Strings need the bytes the allocator model abstracts away, so a word   *)
(* here is a record [p, b, z]: p and b as in module Token, and z the set  *)
(* of its byte positions (0..7) that hold a zero byte.  A token's zero    *)
(* bytes are those of the nonce (TokenZeroBytes); in 61-bit mode byte 0   *)
(* also carries the boundary.  The mapped memory is the committed prefix  *)
(* of the pool (one page here); the words past it are unmapped, and a     *)
(* load or store there is SIGSEGV.  Each call runs as one step: the       *)
(* program is single-threaded here, the interleavings are in Allocator.   *)
(***************************************************************************)
EXTENDS Token, Sequences, FiniteSetsExt

CONSTANTS
    ObjSizes,        \* sequence: byte sizes of the objects, in pool order
    TrailUnits,      \* committed units after the last object
    TokenZeroBytes,  \* byte positions at which the token holds a zero byte
    Ns,              \* n / maxlen arguments the program passes
    Ops,             \* the interceptors the program calls
    Unterminated     \* may a string fill its whole object without a NUL?

ASSUME TokenZeroBytes \subseteq 0 .. 7 /\ TokenZeroBytes # 0 .. 7

VARIABLES
    mem,     \* word index -> word: the committed pool
    last,    \* ghost: the last call that returned, and what it touched
    status   \* [kind, legal]: "running", or why the process stopped

vars == <<mem, last, status>>

Objs == 1 .. Len(ObjSizes)
Size(o) == ObjSizes[o]

\* pool_malloc hands out consecutive regions from unit 1 on.
Base(o) == 1 + MapThenSumSet(LAMBDA j : Size128(ObjSizes[j]), 1 .. o - 1)
NumWords == 2 * (Base(Len(ObjSizes) + 1) + TrailUnits)
MemBytes == TokenBytes * NumWords

Addr(o) == UnitBytes * Base(o)                       \* byte address
UserEnd(o) == Addr(o) + TokenBytes * UserWords(Size(o))

\* Bytes a through a + k - 1 lie in the user words of object o.
WithinWords(o, a, k) == k = 0 \/ (Addr(o) <= a /\ a + k <= UserEnd(o))

Data(z) == [p |-> FALSE, b |-> 0, z |-> z]

TokenZeros(b) ==
    IF NonceSize = 61 /\ b # 0 THEN TokenZeroBytes \ {0} ELSE TokenZeroBytes

\* poison(ptr64, size) with the nonce's bytes.
Tok(size) == LET t == Poison(size) IN [p |-> t.p, b |-> t.b, z |-> TokenZeros(t.b)]

\* A word past the committed pool: never tested as poisoned, since
\* check_poisoned never gets past a poisoned word below it (the
\* unmapped words follow all mapped ones).
Unmapped == Data({})

\* The layout after rezzan_init and one malloc per object, with the
\* program's string in each object: lens[o] non-NUL bytes, then zeros
\* (malloc zeroes the user words; the slack after size stays zero).
Layout(lens) ==
    [w \in 0 .. NumWords - 1 |->
        IF w < 2 THEN Tok(0)
        ELSE IF \E o \in Objs : 2 * Base(o) <= w /\ w < 2 * (Base(o) + Size128(Size(o)))
        THEN LET o == CHOOSE o \in Objs :
                         2 * Base(o) <= w /\ w < 2 * (Base(o) + Size128(Size(o)))
             IN  IF TokenBytes * w < UserEnd(o)
                 THEN Data({j \in 0 .. 7 : TokenBytes * w + j - Addr(o) >= lens[o]})
                 ELSE Tok(Size(o))
        ELSE Data(0 .. 7)]

Init ==
    /\ \E lens \in [Objs -> 0 .. 2 * UnitBytes] :
           /\ \A o \in Objs : lens[o] <= IF Unterminated THEN Size(o) ELSE Size(o) - 1
           /\ mem = Layout(lens)
    /\ last = [op |-> "none", rOut |-> FALSE, wOut |-> FALSE, legal |-> TRUE]
    /\ status = [kind |-> "running", legal |-> TRUE]

-----------------------------------------------------------------------------
(* Bytes                                                                   *)

IsZero(m, a) == (a % TokenBytes) \in m[a \div TokenBytes].z

Ext(m) == [w \in 0 .. 3 * NumWords |-> IF w < NumWords THEN m[w] ELSE Unmapped]

MinOf(x, y) == IF x < y THEN x ELSE y

\* Every byte of [a, a + k) is mapped.
Mapped(a, k) == a + k <= MemBytes

\* Variant of the scan with one slip: it returns the index one past the
\* first zero byte.
RECURSIVE ScanZeroPastNul(_, _, _)
ScanZeroPastNul(m, a, lim) ==
    IF a = lim THEN lim
    ELSE IF a >= MemBytes THEN -1
    ELSE IF IsZero(m, a) THEN a + 1
    ELSE ScanZeroPastNul(m, a + 1, lim)

\* The first zero byte in [a, lim), or lim; -1 when the scan reaches the
\* end of the mapped memory first (a load that faults).
RECURSIVE ScanZero(_, _, _)
ScanZero(m, a, lim) ==
    IF a = lim THEN lim
    ELSE IF a >= MemBytes THEN -1
    ELSE IF IsZero(m, a) THEN a
    ELSE ScanZero(m, a + 1, lim)

\* __wcslen, lines 971-985: the first 4-byte wchar_t at a, a + 4, ... that
\* is all zero bytes (the unrolled loop tests the same wchar_ts in the
\* same order); -1 when a load reaches the end of the mapped memory.
RECURSIVE ScanWZero(_, _)
ScanWZero(m, a) ==
    IF ~Mapped(a, 4) THEN -1
    ELSE IF \A j \in 0 .. 3 : IsZero(m, a + j) THEN a
    ELSE ScanWZero(m, a + 4)

\* Store with the byte positions of a word counted 0 .. 8.
StoreOffByOne(m, S, Z) ==
    [w \in DOMAIN m |->
        LET pos == {j \in 0 .. TokenBytes : TokenBytes * w + j \in S}
            zs  == {j \in pos : TokenBytes * w + j \in Z}
            nb  == IF 0 \in zs THEN 0 ELSE m[w].b
        IN  IF pos = {} THEN m[w]
            ELSE IF m[w].p /\ pos = zs /\ zs \subseteq TokenZeroBytes
            THEN [m[w] EXCEPT !.b = nb, !.z = TokenZeros(nb)]
            ELSE Data((m[w].z \ pos) \cup zs)]

\* Store bytes: every byte of S is written, those of Z with zero, the
\* others with a nonzero value.  A token survives only zero stores into
\* its own zero bytes (a zero store to byte 0 of a 61-bit token clears
\* its boundary); any other store makes it a data word.
Store(m, S, Z) ==
    [w \in DOMAIN m |->
        LET pos == {j \in 0 .. 7 : TokenBytes * w + j \in S}
            zs  == {j \in pos : TokenBytes * w + j \in Z}
            nb  == IF 0 \in zs THEN 0 ELSE m[w].b
        IN  IF pos = {} THEN m[w]
            ELSE IF m[w].p /\ pos = zs /\ zs \subseteq TokenZeroBytes
            THEN [m[w] EXCEPT !.b = nb, !.z = TokenZeros(nb)]
            ELSE Data((m[w].z \ pos) \cup zs)]

\* The byte loop dst8[i] = src8[i], i = 0 .. k-1: the bytes of [d, d+k)
\* that end up zero, each copied after the earlier ones were stored.
RECURSIVE CopiedZeros(_, _, _, _)
CopiedZeros(m, d, s, k) ==
    IF k = 0 THEN {}
    ELSE LET prev == CopiedZeros(m, d, s, k - 1)
             src  == s + k - 1
             zero == IF d <= src /\ src < d + k - 1 THEN src - s + d \in prev
                     ELSE IsZero(m, src)
         IN  IF zero THEN prev \cup {d + k - 1} ELSE prev

-----------------------------------------------------------------------------
(* The interceptors as pure operators from memory to an outcome record:   *)
(* stop ("none", "bad_access" or "segv"), the memory after the call, the  *)
(* return value, and whether it read (rOut) or wrote (wOut) outside the    *)
(* user words of the object its pointer argument points into.            *)

None == "none"

Outcome(stop, m, ret, rOut, wOut) ==
    [stop |-> stop, mem |-> m, ret |-> ret, rOut |-> rOut, wOut |-> wOut]

\* memcpy, lines 815-825: check_poisoned(dst, n), check_poisoned(src, n),
\* then the byte loop.
Memcpy(m, od, d, os, s, k) ==
    IF CheckPoisoned(Ext(m), d, k) \/ CheckPoisoned(Ext(m), s, k)
    THEN Outcome("bad_access", m, 0, FALSE, FALSE)
    ELSE IF ~Mapped(d, k) \/ ~Mapped(s, k) THEN Outcome("segv", m, 0, FALSE, FALSE)
    ELSE Outcome(None, Store(m, d .. d + k - 1, CopiedZeros(m, d, s, k)), d,
                 ~WithinWords(os, s, k), ~WithinWords(od, d, k))

\* libc memset(p, 0, k): not intercepted, so nothing is checked.
Memset0(m, o, a, k) ==
    IF ~Mapped(a, k) THEN Outcome("segv", m, 0, FALSE, FALSE)
    ELSE Outcome(None, Store(m, a .. a + k - 1, a .. a + k - 1), a,
                 FALSE, ~WithinWords(o, a, k))

\* strlen, lines 850-921: the first word is tested, then the byte loop and
\* the SWAR word loop look for the first zero byte without testing tokens.
StrlenR(m, o, a) ==
    LET e == ScanZero(m, a, MemBytes + 1)
    IN  IF IsPoisoned(m[a \div TokenBytes]) THEN Outcome("bad_access", m, 0, FALSE, FALSE)
        ELSE IF e < 0 THEN Outcome("segv", m, 0, FALSE, FALSE)
        ELSE Outcome(None, m, e - a, ~WithinWords(o, a, e - a + 1), FALSE)

\* strnlen, lines 923-934: the same first-word test, then a byte loop
\* bounded by maxlen.
StrnlenR(m, o, a, n) ==
    LET e == ScanZero(m, a, a + n)
    IN  IF IsPoisoned(m[a \div TokenBytes]) THEN Outcome("bad_access", m, 0, FALSE, FALSE)
        ELSE IF e < 0 THEN Outcome("segv", m, 0, FALSE, FALSE)
        ELSE Outcome(None, m, e - a,
                     ~WithinWords(o, a, IF e < a + n THEN e - a + 1 ELSE n), FALSE)

\* Run the second step only if the first returned; rOut/wOut accumulate.
Then(r1, r2) ==
    IF r1.stop # None THEN r1
    ELSE [r2 EXCEPT !.rOut = r1.rOut \/ r2.rOut, !.wOut = r1.wOut \/ r2.wOut]

\* strcpy, lines 936-939: memcpy(dest, src, strlen(src) + 1).
StrcpyR(m, od, d, os, s) ==
    LET l == StrlenR(m, os, s)
    IN  Then(l, Memcpy(m, od, d, os, s, l.ret + 1))

\* strcat, lines 941-945: strcpy(dest + strlen(dest), src).
StrcatR(m, od, d, os, s) ==
    LET l == StrlenR(m, od, d)
    IN  Then(l, StrcpyR(m, od, d + l.ret, os, s))

\* strncpy, lines 947-953: size = strnlen(s2, n); if size != n, libc
\* memset(s1 + size, 0, n - size); then memcpy(s1, s2, size + 1).
StrncpyR(m, od, d, os, s, n) ==
    LET l  == StrnlenR(m, os, s, n)
        z  == IF l.ret # n THEN Memset0(m, od, d + l.ret, n - l.ret)
              ELSE Outcome(None, m, 0, FALSE, FALSE)
        lz == Then(l, z)
    IN  Then(lz, Memcpy(lz.mem, od, d, os, s, l.ret + 1))

\* Variant of strncat with one slip: the terminator stored at s1[ss + 1].
StrncatNulOffByOne(m, od, d, os, s, n) ==
    LET l   == StrlenR(m, od, d)
        e   == d + l.ret
        ss  == StrnlenR(m, os, s, n)
        lss == Then(l, ss)
        nul == Then(lss, Memset0(m, od, e + ss.ret + 1, 1))
    IN  Then(nul, Memcpy(nul.mem, od, e, os, s, ss.ret))

\* strncat, lines 955-964: s1 += strlen(s1); ss = strnlen(s2, n);
\* s1[ss] = '\0' (a plain store); memcpy(s1, s2, ss).
StrncatR(m, od, d, os, s, n) ==
    LET l   == StrlenR(m, od, d)
        e   == d + l.ret
        ss  == StrnlenR(m, os, s, n)
        lss == Then(l, ss)
        nul == Then(lss, Memset0(m, od, e + ss.ret, 1))
    IN  Then(nul, Memcpy(nul.mem, od, e, os, s, ss.ret))

\* wcscpy, lines 987-990: __wmemcpy(dest, src, __wcslen(src) + 1), and
\* __wmemcpy (lines 966-969) is memcpy of 4 * (len + 1) bytes; the length scan itself is unchecked.
WcscpyR(m, od, d, os, s) ==
    LET e == ScanWZero(m, s)
    IN  IF e < 0 THEN Outcome("segv", m, 0, FALSE, FALSE)
        ELSE Then(Outcome(None, m, 0, ~WithinWords(os, s, e - s + 4), FALSE),
                  Memcpy(m, od, d, os, s, e - s + 4))

\* snprintf(dst, n, "%s", src), lines 992-1003: check_poisoned(dst, n),
\* then libc's vsnprintf reads all of src and writes min(len, n - 1) of
\* its bytes and a NUL.
SnprintfR(m, od, d, os, s, n) ==
    LET e == ScanZero(m, s, MemBytes + 1)
        k == MinOf(e - s, n - 1)
    IN  IF CheckPoisoned(Ext(m), d, n) THEN Outcome("bad_access", m, 0, FALSE, FALSE)
        ELSE IF e < 0 \/ ~Mapped(d, k + 1) THEN Outcome("segv", m, 0, FALSE, FALSE)
        ELSE IF n = 0 THEN Outcome(None, m, e - s, ~WithinWords(os, s, e - s + 1), FALSE)
        ELSE Outcome(None, Store(m, d .. d + k, {d + k}), e - s,
                     ~WithinWords(os, s, e - s + 1), ~WithinWords(od, d, k + 1))

\* printf(format, src) with one %s and REZZAN_PRINTF=1, lines 1006-1039:
\* n = strlen(src), check_poisoned(src, n), then vfprintf, which reads
\* the same bytes strlen did.
PrintfR(m, os, s) ==
    LET l == StrlenR(m, os, s)
    IN  Then(l, IF CheckPoisoned(Ext(m), s, l.ret)
                THEN Outcome("bad_access", m, 0, FALSE, FALSE)
                ELSE Outcome(None, m, l.ret, FALSE, FALSE))

-----------------------------------------------------------------------------
(* Legality for the program (ghost): the C semantics of each call on the *)
(* strings as they are in memory before it.                               *)

\* Length of the string at object o within its size bytes (Size(o) when
\* no NUL is there).
CLen(m, o) ==
    LET zs == {a \in Addr(o) .. Addr(o) + Size(o) - 1 : IsZero(m, a)}
    IN  IF zs = {} THEN Size(o) ELSE Min(zs) - Addr(o)

\* Length in wchar_ts of the wide string at object o, or -1 when no
\* wide NUL lies within its size bytes.
WLen(m, o) ==
    LET ks == {k \in 0 .. Size(o) \div 4 - 1 :
                  \A j \in 0 .. 3 : IsZero(m, Addr(o) + 4 * k + j)}
    IN  IF ks = {} THEN -1 ELSE Min(ks)

Legal(m, op, d, s, n) ==
    LET ld == CLen(m, d)
        ls == CLen(m, s)
        wl == WLen(m, s)
    IN  CASE op = "strlen"  -> ls < Size(s)
          [] op = "strnlen" -> MinOf(n, ls + 1) <= Size(s)
          [] op = "strcpy"  -> ls < Size(s) /\ ls + 1 <= Size(d)
          [] op = "strcat"  -> ld < Size(d) /\ ls < Size(s) /\ ld + ls + 1 <= Size(d)
          [] op = "strncpy" -> n <= Size(d) /\ MinOf(n, ls + 1) <= Size(s)
          [] op = "strncat" -> /\ ld < Size(d) /\ MinOf(n, ls + 1) <= Size(s)
                               /\ ld + MinOf(n, ls) + 1 <= Size(d)
          [] op = "wcscpy"   -> wl >= 0 /\ 4 * (wl + 1) <= Size(d)
          [] op = "snprintf" -> n <= Size(d) /\ ls < Size(s)
          [] op = "printf"   -> ls < Size(s)

Result(op, d, s, n) ==
    LET od == d
        os == s
    IN  CASE op = "strlen"  -> StrlenR(mem, os, Addr(s))
          [] op = "strnlen" -> StrnlenR(mem, os, Addr(s), n)
          [] op = "strcpy"  -> StrcpyR(mem, od, Addr(d), os, Addr(s))
          [] op = "strcat"  -> StrcatR(mem, od, Addr(d), os, Addr(s))
          [] op = "strncpy" -> StrncpyR(mem, od, Addr(d), os, Addr(s), n)
          [] op = "strncat" -> StrncatR(mem, od, Addr(d), os, Addr(s), n)
          [] op = "wcscpy"   -> WcscpyR(mem, od, Addr(d), os, Addr(s))
          [] op = "snprintf" -> SnprintfR(mem, od, Addr(d), os, Addr(s), n)
          [] op = "printf"   -> PrintfR(mem, os, Addr(s))

\* The program calls op on a destination object d and a source object s.
Call(op, d, s, n) ==
    LET r == Result(op, d, s, n)
    IN  /\ status.kind = "running"
        /\ op \in Ops
        /\ mem' = r.mem
        /\ IF r.stop = None
           THEN /\ last' = [op |-> op, rOut |-> r.rOut, wOut |-> r.wOut,
                              legal |-> Legal(mem, op, d, s, n)]
                /\ UNCHANGED status
           ELSE /\ status' = [kind |-> r.stop, legal |-> Legal(mem, op, d, s, n)]
                /\ UNCHANGED last

Next ==
    \E op \in Ops, d, s \in Objs, n \in Ns :
        /\ d # s
        /\ Call(op, d, s, n)

Spec == Init /\ [][Next]_vars

-----------------------------------------------------------------------------
(* Properties                                                              *)

TypeOK ==
    /\ mem \in [0 .. NumWords - 1 -> [p : BOOLEAN, b : 0 .. 7, z : SUBSET (0 .. 7)]]
    /\ last.op \in Ops \cup {"none"}
    /\ status.kind \in {"running", "bad_access", "segv"}

\* A correct call is never reported: the process stops in an interceptor
\* (ud2, or a fault) only when the call breaks the C semantics of its
\* arguments (spec section 8: no false positives on valid programs).
NoFalseAlarm ==
    status.kind \in {"bad_access", "segv"} => ~status.legal

\* An interceptor that returns has stored only into the user words of its
\* destination object: every store past them, into a redzone token or a
\* neighbouring object, ends in ud2 first (spec 4.6: the routines check
\* every range they will write).
WritesInside == ~last.wOut

\* A legal call that returns has read and written only the user words of
\* its two objects: the lengths strlen, strnlen and __wcslen compute, and
\* the ranges the composed calls hand to memcpy, the unchecked memset,
\* the terminator store and libc's vsnprintf, stay inside the strings
\* whatever the nonce bytes and the slack after them hold.
LegalStaysInside == last.legal => ~last.rOut /\ ~last.wOut

=============================================================================
