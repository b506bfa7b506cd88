--------------------------- MODULE KeyedExecution ---------------------------
(***************************************************************************)
(* What the Idempotency-Key middleware promises about the requests that    *)
(* carry one key: whoever finds the key free takes it and executes, alone; *)
(* a claim that nobody answered for is kept; only an answer of 5xx or the  *)
(* end of the TTL frees the key; everybody else is refused, or gets the    *)
(* answer that was stored.  A claim whose answer was lost may have been     *)
(* taken by a request that never executes; it is kept like any other.      *)
(***************************************************************************)
EXTENDS Naturals

CONSTANTS Requests, Nobody

VARIABLES
    key, by,    \* "free", "held" or "done", and whose answer is stored
    phase,      \* of each request
    status, answer, heard,
    effected    \* requests whose mutation committed in this TTL window

vars == <<key, by, phase, status, answer, heard, effected>>
answers == <<answer, heard>>

Init ==
    /\ key = "free" /\ by = Nobody
    /\ phase = [r \in Requests |-> "asked"]
    /\ status = [r \in Requests |-> "none"]
    /\ answer = [r \in Requests |-> "none"] /\ heard = [r \in Requests |-> Nobody]
    /\ effected = {}

Begin(r) ==
    /\ phase[r] = "asked" /\ key = "free"
    /\ key' = "held"
    /\ phase' = [phase EXCEPT ![r] = "running"]
    /\ UNCHANGED <<by, status, answers, effected>>

HandlerCommits(r) ==
    /\ phase[r] = "running"
    /\ phase' = [phase EXCEPT ![r] = "ran"]
    /\ effected' = effected \union {r}
    /\ \E s \in {"2xx", "5xx"} : status' = [status EXCEPT ![r] = s]
    /\ UNCHANGED <<key, by, answers>>

HandlerRefuses(r) ==
    /\ phase[r] = "running"
    /\ phase' = [phase EXCEPT ![r] = "ran"]
    /\ \E s \in {"4xx", "5xx"} : status' = [status EXCEPT ![r] = s]
    /\ UNCHANGED <<key, by, answers, effected>>

Return(r, a, q) ==
    /\ phase' = [phase EXCEPT ![r] = "done"]
    /\ answer' = [answer EXCEPT ![r] = a]
    /\ heard' = [heard EXCEPT ![r] = q]

\* The answer is stored, or frees the key; or that fails and the claim stays.
End(r) ==
    /\ phase[r] = "ran"
    /\ \/ Return(r, "own", r) \/ Return(r, "lost", Nobody)
    /\ \/ status[r] = "5xx" /\ key' = "free" /\ by' = Nobody
       \/ status[r] # "5xx" /\ key' = "done" /\ by' = r
       \/ UNCHANGED <<key, by>>
    /\ UNCHANGED <<status, effected>>

Replay(r) ==
    /\ phase[r] = "asked" /\ key = "done"
    /\ Return(r, "replay", by)
    /\ UNCHANGED <<key, by, status, effected>>

\* A claim that was sent and not answered took the key, or did not.
ClaimUnheard == key' \in {key} \union (IF key = "free" THEN {"held"} ELSE {})

\* 409, 422 or 503.
Refuse(r) ==
    /\ phase[r] = "asked"
    /\ Return(r, "refused", Nobody)
    /\ ClaimUnheard
    /\ UNCHANGED <<by, status, effected>>

\* The request is dropped; what it had sent may still commit.
Lose(r) ==
    /\ Return(r, "lost", Nobody)
    /\ \/ phase[r] = "asked" /\ ClaimUnheard /\ UNCHANGED effected
       \/ phase[r] = "running" /\ effected' \in {effected, effected \union {r}} /\ UNCHANGED key
    /\ UNCHANGED <<by, status>>

\* The TTL ends and nobody is executing.
Lapse ==
    /\ key # "free" /\ \A r \in Requests : phase[r] \notin {"running", "ran"}
    /\ key' = "free" /\ by' = Nobody
    /\ effected' = {}
    /\ UNCHANGED <<phase, status, answers>>

Step(r) ==
    \/ Begin(r) \/ HandlerCommits(r) \/ HandlerRefuses(r) \/ End(r)
    \/ Replay(r) \/ Refuse(r) \/ Lose(r)

Next == Lapse \/ \E r \in Requests : Step(r)

Spec == Init /\ [][Next]_vars

(* Within a TTL window the mutation happens at most once, unless it was
   answered 5xx. *)
OneEffectPerWindow ==
    \A r, q \in effected : status[r] # "5xx" /\ status[q] # "5xx" => r = q
=============================================================================
