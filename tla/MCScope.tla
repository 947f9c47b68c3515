------------------------------ MODULE MCScope ------------------------------
(* Scope campaigns on a small address space. *)
EXTENDS ScopeCampaign

CONSTANT Sizes  \* bound on --xfer, --guard and the size of the object

Usual == [exp |-> "b0", xfer |-> 2, guard |-> 1, arena_bytes |-> 0, concurrent |-> 0,
          expect_sha |-> "object", trustworthy |-> TRUE, object |-> 2]

One(x, a) == [plan |-> <<x>>, able |-> a]

\* Every size on a product that supports all.
All == {"interior", "cross", "double", "slice"}
SizeCampaigns ==
    {One([Usual EXCEPT !.exp = e, !.xfer = x, !.guard = g, !.arena_bytes = a, !.object = Sizes], All) :
        e \in Cases, x \in 1..Sizes, g \in 1..Sizes, a \in SizeT}

\* One case on a product that may do anything.
OpenCampaigns ==
    {One([Usual EXCEPT !.exp = e], Any) : e \in Cases}
    \cup {One([Usual EXCEPT !.exp = e, !.xfer = x, !.expect_sha = s, !.trustworthy = t], Any) :
            e \in {"b0", "i0", "si", "m"}, x \in {2, 3}, s \in {"none", "object", "poison", "other"}, t \in BOOLEAN}
    \cup {One([Usual EXCEPT !.exp = "si", !.concurrent = 2], Any)}

\* The campaign of the runbook on a product of known abilities.
RunbookCampaigns ==
    {[plan |-> [i \in 1..6 |-> [Usual EXCEPT !.exp = <<"b0", "i0", "s0", "si", "r", "p">>[i]]], able |-> a] :
        a \in {{}, {"interior"}, {"cross", "double"}, {"interior", "cross"},
               {"interior", "double"}, {"interior", "slice"}, {"interior", "double", "slice"}}}

AllCampaigns == SizeCampaigns \cup OpenCampaigns \cup RunbookCampaigns
=============================================================================
