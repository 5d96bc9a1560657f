------------------------------- MODULE Token -------------------------------
(***************************************************************************)
(* The in-band poison tokens of rezzan_runtime.c and the range check built *)
(* on them.  A word of the pool is a record [p, b]: p says whether it      *)
(* tests as poisoned (holds the token derived from the nonce), b is the    *)
(* boundary field of a 61-bit token (its low 3 bits).  User data is        *)
(* abstracted to a zero word: the model never needs a data value, because  *)
(* free() overwrites every user word with a token, so no data survives     *)
(* into a reuse.  A data word that happens to equal the token has          *)
(* probability 2^-61 and is left out.                                      *)
(***************************************************************************)
EXTENDS Integers

CONSTANTS
    NonceSize,   \* nonce_size: 61 (byte precise) or 64 (word granular)
    PageWords    \* PAGE_SIZE / sizeof(Token)

ASSUME NonceSize \in {61, 64} /\ PageWords \in Nat \ {0}

TokenBytes == 8     \* sizeof(Token)
UnitBytes  == 16    \* sizeof(Unit)

\* size128 of rezzan_malloc: size + one token, rounded up to whole units.
Size128(size) == (size + TokenBytes + UnitBytes - 1) \div UnitBytes

\* Words holding user bytes: ceil(size / 8), the words rezzan_malloc zeroes.
UserWords(size) == (size + TokenBytes - 1) \div TokenBytes

Words == [p : BOOLEAN, b : 0 .. 7]

ZeroWord == [p |-> FALSE, b |-> 0]

\* poison(ptr64, size): rezzan_set_token61 with boundary size % 8, or
\* rezzan_set_token64 (whose low bits carry no meaning).
Poison(size) ==
    [p |-> TRUE, b |-> IF NonceSize = 61 THEN size % TokenBytes ELSE 0]

\* is_poisoned(ptr64): rezzan_test_token61 / rezzan_test_token64.
IsPoisoned(w) == w.p

\* Variants of check_poisoned, each with one slip: the tail compare
\* boundary <= end_delta; check_len not rounded up to a whole word when
\* the range ends inside one.
CheckPoisonedLe(mem, a, n) ==
    LET front == a % TokenBytes
        len   == n + front
        w0    == (a - front) \div TokenBytes
        ed    == len % TokenBytes
        nw    == (len + (IF ed # 0 THEN TokenBytes ELSE 0)) \div TokenBytes
    IN  \/ \E i \in 0 .. nw - 1 : IsPoisoned(mem[w0 + i])
        \/ /\ ed # 0 /\ NonceSize = 61 /\ (w0 + nw) % PageWords # 0
           /\ IsPoisoned(mem[w0 + nw])
           /\ mem[w0 + nw].b # 0 /\ mem[w0 + nw].b <= ed

CheckPoisonedNoRound(mem, a, n) ==
    LET front == a % TokenBytes
        len   == n + front
        w0    == (a - front) \div TokenBytes
        ed    == len % TokenBytes
        nw    == len \div TokenBytes
    IN  \/ \E i \in 0 .. nw - 1 : IsPoisoned(mem[w0 + i])
        \/ /\ ed # 0 /\ NonceSize = 61 /\ (w0 + nw) % PageWords # 0
           /\ IsPoisoned(mem[w0 + nw])
           /\ mem[w0 + nw].b # 0 /\ mem[w0 + nw].b < ed

\* check_poisoned(ptr, n) over memory mem (word index -> word), for the
\* pool-relative byte address a: TRUE when it executes ud2.  Every word the
\* range covers is tested; in 61-bit mode, a range ending inside a word
\* also tests the next word's boundary, unless that word starts a page.
CheckPoisoned(mem, a, n) ==
    LET frontDelta == a % TokenBytes
        checkLen   == n + frontDelta
        w0         == (a - frontDelta) \div TokenBytes
        endDelta   == checkLen % TokenBytes
        nwords     == (checkLen + (IF endDelta # 0 THEN TokenBytes ELSE 0))
                        \div TokenBytes
        tail       == w0 + nwords
    IN  \/ \E i \in 0 .. nwords - 1 : IsPoisoned(mem[w0 + i])
        \/ /\ endDelta # 0 /\ NonceSize = 61
           /\ tail % PageWords # 0
           /\ IsPoisoned(mem[tail])
           /\ mem[tail].b # 0 /\ mem[tail].b < endDelta

=============================================================================
