------------------------------ MODULE SizeArith ------------------------------
(***************************************************************************)
(* The length arithmetic of check_poisoned at the width of its types:     *)
(* size_t is unsigned of SizeBits bits, int is signed of IntBits bits      *)
(* (64 and 32 on x86-64; scaled down here, keeping size_t wider than int). *)
(* CheckedWords computes what the code computes, conversions and           *)
(* wrap-around included, so that it can be compared with the number of    *)
(* words the range really touches.                                        *)
(***************************************************************************)
EXTENDS Integers

CONSTANTS
    SizeBits,   \* width of size_t
    IntBits     \* width of int

ASSUME SizeBits \in Nat /\ IntBits \in Nat /\ 3 < IntBits /\ IntBits < SizeBits

SizeMax == 2^SizeBits          \* values of size_t are 0 .. SizeMax - 1

\* Unsigned arithmetic in size_t wraps modulo 2^SizeBits.
ToSize(x) == x % SizeMax

\* Conversion to int (implementation-defined; gcc keeps the low IntBits
\* bits as two's complement).  A signed overflow of int arithmetic is
\* undefined; gcc emits a plain IntBits-bit add, which wraps the same way.
ToInt(x) ==
    LET r == x % 2^IntBits
    IN  IF r >= 2^(IntBits - 1) THEN r - 2^IntBits ELSE r

TokenSize == 8     \* sizeof(Token)

\* check_poisoned, lines 295-306: the number of words the loop tests for a
\* range of n bytes starting front_delta bytes into a word.  check_len is
\* an int; end_delta and the division convert it to size_t, the result of
\* the division is stored back into the int, and the loop bound compares
\* it with a size_t counter.
CheckedWords(n, front) ==
    LET len0 == ToInt(ToSize(n + front))
        ed   == ToSize(len0) % TokenSize
        len1 == IF ed # 0 THEN ToInt(len0 + TokenSize) ELSE len0
        len2 == ToInt(ToSize(len1) \div TokenSize)
    IN  ToSize(len2)

-----------------------------------------------------------------------------
(* One call of check_poisoned per behaviour: every length n that leaves   *)
(* room for a word below SIZE_MAX, and every front_delta.                 *)

VARIABLE call

Calls == [n : 0 .. SizeMax - TokenSize, front : 0 .. TokenSize - 1]

Init == call \in Calls

Next == UNCHANGED call

Spec == Init /\ [][Next]_call

\* check_poisoned tests every word the range [p, p + n) touches: the words
\* of n + front_delta bytes rounded up to a whole word (spec 4.2).
CheckCoversRange ==
    CheckedWords(call.n, call.front) = (call.n + call.front + TokenSize - 1) \div TokenSize

=============================================================================
