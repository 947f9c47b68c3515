------------------------------ MODULE MCServer ------------------------------
(* Instances of Server for TLC. *)
EXTENDS Server

Get(p, t, r) == [method |-> "GET", valid_path |-> TRUE, path |-> p, token |-> t, range |-> r]

\* One request of each kind: rejected method, bad path, HEAD, missing and bad
\* token, and a range that is inside the larger of the files only.
SomeRequests ==
    UNION {{[Get(p, "ok", <<>>) EXCEPT !.method = "PUT"],
            [Get(p, "ok", <<>>) EXCEPT !.valid_path = FALSE],
            [Get(p, "none", <<>>) EXCEPT !.method = "HEAD"],
            Get(p, "none", <<>>), Get(p, "bad", <<>>), Get(p, "ok", <<1, 2>>)} : p \in Paths}
=============================================================================
