------------------------------ MODULE RangeGet ------------------------------
(***************************************************************************)
(* What a GET of the gateway promises its client, whatever goes wrong:     *)
(* bytes of the requested range land in the client's buffer at their own   *)
(* place, in any order; then there is one answer, after which nothing      *)
(* lands any more, and a success names the number of bytes that landed.    *)
(* The detailed GET of Transfer implements this.                           *)
(***************************************************************************)
EXTENDS Integers, FiniteSets

CONSTANTS Requests, Empty

VARIABLES
    req,      \* offset, length, is_range of the GET
    remote,   \* the client's buffer
    status,   \* HTTP status, 0 before the answer
    bytes     \* x-amz-rdma-bytes-transferred of a success

Landed == {i \in DOMAIN remote : remote[i] # Empty}

Init ==
    /\ req \in Requests
    /\ remote = [i \in 0..(req.length - 1) |-> Empty]
    /\ status = 0
    /\ bytes = 0

Land(i) ==
    /\ status = 0
    /\ remote[i] = Empty
    /\ remote' = [remote EXCEPT ![i] = req.offset + i]
    /\ UNCHANGED <<req, status, bytes>>

Succeed ==
    /\ status = 0
    /\ status' = IF req.is_range THEN 206 ELSE 200
    /\ bytes' = Cardinality(Landed)
    /\ UNCHANGED <<req, remote>>

Fail ==
    /\ status = 0
    /\ status' = 500
    /\ UNCHANGED <<req, remote, bytes>>

Next == (\E i \in DOMAIN remote : Land(i)) \/ Succeed \/ Fail

Spec == Init /\ [][Next]_<<req, remote, status, bytes>>
=============================================================================
