------------------------- MODULE AtMostOnceCommand -------------------------
(***************************************************************************)
(* What the execution journal promises about one mutating tool command,    *)
(* whatever executors, leases and tokens do underneath: the domain         *)
(* mutation happens at most once, a verdict is given at most once and      *)
(* never revised, and the verdict "succeeded" is only given to a mutation  *)
(* that happened.  Any other verdict, "failed" included, leaves room for a *)
(* mutation that lands late: the journal records what the executor saw of  *)
(* the dispatch, and a lost connection is seen as a failure.  The promise  *)
(* is the one written in the header of sensei-agent-core/src/journal.rs    *)
(* and kept by CommandJournal.                                             *)
(***************************************************************************)
EXTENDS Naturals

CONSTANT Keys

VARIABLES
    effect,     \* effect[k]: how often the mutation of command k took effect
    verdict     \* verdict[k]: what the journal says about command k

absVars == <<effect, verdict>>

Verdicts == {"open", "succeeded", "failed", "ambiguous"}

Init ==
    /\ effect = [k \in Keys |-> 0]
    /\ verdict = [k \in Keys |-> "open"]

\* The mutation takes effect: once, whatever was said of it meanwhile.
Apply(k) ==
    /\ effect[k] = 0
    /\ effect' = [effect EXCEPT ![k] = 1]
    /\ UNCHANGED verdict

\* The command gets its one verdict.
Settle(k, v) ==
    /\ verdict[k] = "open"
    /\ v = "succeeded" => effect[k] = 1
    /\ verdict' = [verdict EXCEPT ![k] = v]
    /\ UNCHANGED effect

Next ==
    \E k \in Keys :
        \/ Apply(k)
        \/ \E v \in Verdicts \ {"open"} : Settle(k, v)

Spec == Init /\ [][Next]_absVars
=============================================================================
