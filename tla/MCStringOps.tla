---------------------------- MODULE MCStringOps ----------------------------
EXTENDS StringOps

\* Two objects: 8 bytes (its redzone token follows the last user byte
\* directly) and 5 bytes (three bytes of slack in its last user word).
MCObjSizes == <<8, 5>>

=============================================================================
