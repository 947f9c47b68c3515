----------------------------- MODULE MCTransfer -----------------------------
(* Instances of Transfer for TLC: every GET of a file of at most MaxSize bytes. *)
EXTENDS Transfer

CONSTANT MaxSize

Whole == {[offset |-> 0, length |-> s, size |-> s, is_range |-> FALSE] : s \in 0..MaxSize}

Ranges ==
    {[offset |-> r[1], length |-> r[2] - r[1] + 1, size |-> r[3], is_range |-> TRUE] :
        r \in {t \in (0..MaxSize) \X (0..MaxSize) \X (0..MaxSize) : t[1] <= t[2] /\ t[2] < t[3]}}

AllRequests == Whole \cup Ranges

\* Buffered reads in chunks of 2; O_DIRECT with two blocks per chunk, and with a
\* chunk size that is not a multiple of the block.
SomeConfigs ==
    {[chunk_size |-> 2, direct_io |-> FALSE], [chunk_size |-> 4, direct_io |-> TRUE],
     [chunk_size |-> 3, direct_io |-> TRUE]}

DirectConfig == {[chunk_size |-> 4, direct_io |-> TRUE]}
=============================================================================
