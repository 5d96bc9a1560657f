---------------------------- MODULE MCAllocator ----------------------------
EXTENDS Allocator

CONSTANTS t1, t2

\* Ranges checked on an object: its first 5 bytes (all of a 5-byte object),
\* the byte after a 5-byte object (scenario A of the spec), the byte after a
\* 7-byte and after a 13-byte object, and the byte just below the object.
MCAccesses == {[off |-> 0, n |-> 5], [off |-> 5, n |-> 1], [off |-> 7, n |-> 1],
               [off |-> 13, n |-> 1], [off |-> -1, n |-> 1]}

\* calloc(1, 5), the same object as malloc(5), for the concurrent run;
\* calloc(0, 13), a zero product that malloc turns into a 1-byte object.
MCCallocArgs == {[nmemb |-> 1, size |-> 5]}
MCCallocZero == {[nmemb |-> 0, size |-> 13]}

=============================================================================
