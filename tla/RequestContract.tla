-------------------------- MODULE RequestContract --------------------------
(***************************************************************************)
(* What the master promises about a call of POST /infer, without a word on *)
(* queues, workers or retries: an accepted request gets at most one        *)
(* outcome, a result or an error, and the caller is told once, by the      *)
(* outcome if there is one and by an empty result if its wait ended first. *)
(*                                                                         *)
(* The one exception is a request the health monitor has taken away from a *)
(* silent worker: its old call may still answer, so it may get further     *)
(* outcomes.  Such a request is without an outcome when that first happens.*)
(***************************************************************************)
CONSTANT Requests

VARIABLES
    told,         \* request -> what its caller has been told
    results,      \* the requests that have a result
    errors,       \* the requests that have an error
    recovered     \* the requests taken away from a silent worker

contractVars == <<told, results, errors, recovered>>

Init ==
    /\ told = [r \in Requests |-> "new"]
    /\ results = {}
    /\ errors = {}
    /\ recovered = {}

Open(r) ==
    /\ told[r] \notin {"new", "refused"}
    /\ r \notin results \cup errors \/ r \in recovered

Submit(r) ==
    /\ told[r] = "new"
    /\ \E answer \in {"waiting", "refused"} : told' = [told EXCEPT ![r] = answer]
    /\ UNCHANGED <<results, errors, recovered>>

Succeed(r) ==
    /\ Open(r)
    /\ results' = results \cup {r}
    /\ UNCHANGED <<told, errors, recovered>>

GiveUp(r) ==
    /\ Open(r)
    /\ errors' = errors \cup {r}
    /\ UNCHANGED <<told, results, recovered>>

Recover(r) ==
    /\ Open(r)
    /\ recovered' = recovered \cup {r}
    /\ UNCHANGED <<told, results, errors>>

Tell(r) ==
    /\ told[r] = "waiting"
    /\ told' = [told EXCEPT ![r] = IF r \in errors THEN "error"
                                   ELSE IF r \in results THEN "result"
                                   ELSE "empty"]
    /\ UNCHANGED <<results, errors, recovered>>

Next ==
    \E r \in Requests :
        Submit(r) \/ Succeed(r) \/ GiveUp(r) \/ Recover(r) \/ Tell(r)

Spec == Init /\ [][Next]_contractVars
=============================================================================
