--------------------------- MODULE ScopeCampaign ---------------------------
(***************************************************************************)
(* A campaign of scope probes, one process after the other, and the        *)
(* outcome that probe/tools/map_scope_outcome.py derives from their        *)
(* verdicts.  A process may die at any point without a result.             *)
(***************************************************************************)
EXTENDS ScopeProbe, Sequences

CONSTANT Campaigns  \* records: the plan, a sequence of Options, and able

\* Where the product's abilities are known, so is the object: nobody gives the digest
\* of another one.
ASSUME CampaignAssumption ==
    \A c \in Campaigns :
        /\ c.plan \in Seq(Options) /\ c.plan # <<>>
        /\ c.able # Any => \A i \in 1..Len(c.plan) : c.plan[i].expect_sha # "other"

VARIABLES
    plan,      \* the cases still to run, the current one first
    verdicts,  \* case -> the verdict of its last result event
    outcome    \* of the mapping

campaignVars == <<vars, plan, verdicts, outcome>>

Begin(x) ==
    /\ o' = Start(x).o /\ pc' = Start(x).pc /\ mem' = Start(x).mem
    /\ registered' = Start(x).registered /\ token' = Start(x).token
    /\ got' = Start(x).got /\ svs' = Start(x).svs /\ verdict' = Start(x).verdict
    /\ pending' = Start(x).pending /\ landed' = Start(x).landed /\ fault' = Start(x).fault

Init ==
    \E c \in Campaigns : LET s == Start(c.plan[1]) IN
        /\ plan = c.plan /\ able = c.able
        /\ verdicts = [k \in Cases |-> None] /\ outcome = None
        /\ o = s.o /\ pc = s.pc /\ mem = s.mem /\ registered = s.registered /\ token = s.token
        /\ got = s.got /\ svs = s.svs /\ verdict = s.verdict
        /\ pending = s.pending /\ landed = s.landed /\ fault = s.fault

Probe == ProbeNext /\ outcome = None /\ UNCHANGED <<plan, verdicts, outcome>>

-----------------------------------------------------------------------------
(* The mapping. *)

\* Mutant: an environment error counts as a clean failure.
NonDecisiveButEnv == {"INCONCLUSIVE", None}

NonDecisive == {"INCONCLUSIVE", "ENV_ERROR", None}

decide(v) ==
    IF v["b0"] # "PASS" THEN "INCONCLUSIVE"
    ELSE IF v["si"] = "PASS" THEN "1"
    ELSE IF v["r"] = "PASS" THEN "2"
    ELSE IF v["p"] = "PASS" THEN "3"
    ELSE IF \E k \in {"i0", "s0", "si", "r", "p"} : v[k] \in NonDecisive THEN "INCONCLUSIVE"
    ELSE "STOP"

\* The next case, or the mapping of the collected verdicts v.
GoOn(v) ==
    /\ verdicts' = v
    /\ IF Len(plan) > 1
       THEN Begin(plan[2]) /\ plan' = Tail(plan) /\ UNCHANGED <<able, outcome>>
       ELSE outcome' = decide(v) /\ UNCHANGED <<vars, plan>>

CaseOver == pc = "done" /\ outcome = None /\ GoOn([verdicts EXCEPT ![o.exp] = verdict])

\* The process dies: a failed CUDA call, a crash of the SDK, a signal.
Dies == pc # "done" /\ outcome = None /\ GoOn(verdicts)

Next == Probe \/ CaseOver \/ Dies

Spec == Init /\ [][Next]_campaignVars

-----------------------------------------------------------------------------
(* Properties. *)

Supported(k) == Needs(k) \subseteq able

\* For a product of known abilities, whatever cases die or stay undecided: outcomes
\* 1, 2 and 3 name a shape that the product supports, STOP is reached only when it
\* supports none, and a campaign of decisive verdicts finds the best one.
OutcomeRight ==
    outcome # None /\ able # Any =>
        LET Best == IF Supported("si") THEN "1" ELSE IF Supported("r") THEN "2"
                    ELSE IF Supported("p") THEN "3" ELSE "STOP"
        IN  /\ outcome = "1" => Supported("si")
            /\ outcome = "2" => Supported("r")
            /\ outcome = "3" => Supported("p")
            /\ outcome = "STOP" => Best = "STOP"
            /\ (\A k \in {"b0", "i0", "s0", "si", "r", "p"} : verdicts[k] \in {"PASS", "FAIL"})
                 => outcome = Best

\* The header of map_scope_outcome.py: STOP means that only b0 works and every other
\* candidate failed.
StopMeansOnlyB0 ==
    outcome = "STOP" => \A k \in {"i0", "s0", "si", "r", "p"} : verdicts[k] = "FAIL"
=============================================================================
