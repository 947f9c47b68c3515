----------------------------- MODULE MCRawHttp ------------------------------
(* RawHttp against peers with small heads and bodies. *)
EXTENDS RawHttp

\* Heads below, at and above the cap; bodies up to one octet above the cap, sent
\* in part, as declared, or with an octet too many; every framing and ending.
SomePeers ==
    {p \in [head : 1..(MaxHead + 1), malformed : BOOLEAN, te : {"none", "chunked", "other"},
            cl : {<<>>, <<0>>, <<1>>, <<MaxBody>>, <<MaxBody + 1>>, <<1, 1>>, <<1, 2>>, <<Malformed>>},
            sent : 0..(MaxHead + MaxBody + 2), end : {"close", "reset", "stall"}] :
        /\ p.malformed => p.te = "none" /\ p.cl = <<>>
        /\ p.te # "none" => p.cl \in {<<>>, <<1>>}}
=============================================================================
