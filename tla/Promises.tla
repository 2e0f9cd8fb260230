------------------------------ MODULE Promises ------------------------------
(***************************************************************************)
(* What Client.request() promises: a promise settles at most once, it       *)
(* resolves only with an answer that somebody gave to that very request,    *)
(* and it may be rejected at any time.  Nothing says that it settles: that  *)
(* is a liveness property of Requests.                                      *)
(***************************************************************************)
CONSTANT Tokens     \* requests, by the token of their reply subject

VARIABLES
    promise,        \* none (not requested), pending, resolved, rejected
    answered        \* requests that somebody has answered

vars == <<promise, answered>>

Init == promise = [t \in Tokens |-> "none"] /\ answered = {}

\* A call either leaves a promise pending or rejects it there and then.
Ask ==
    /\ \E t \in Tokens, p \in {"pending", "rejected"} :
        /\ promise[t] = "none"
        /\ promise' = [promise EXCEPT ![t] = p]
    /\ UNCHANGED answered

\* Anybody may answer to the subject of a request: late, again, or unasked.
Answer ==
    /\ \E t \in Tokens : answered' = answered \cup {t}
    /\ UNCHANGED promise

Resolve ==
    /\ \E t \in answered :
        /\ promise[t] = "pending"
        /\ promise' = [promise EXCEPT ![t] = "resolved"]
    /\ UNCHANGED answered

Reject ==
    /\ \E t \in Tokens :
        /\ promise[t] = "pending"
        /\ promise' = [promise EXCEPT ![t] = "rejected"]
    /\ UNCHANGED answered

Next == Ask \/ Answer \/ Resolve \/ Reject

Spec == Init /\ [][Next]_vars
=============================================================================
