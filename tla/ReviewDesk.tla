----------------------------- MODULE ReviewDesk -----------------------------
(***************************************************************************)
(* What the review endpoints promise HR, with no locks and no sessions of  *)
(* the database: a decision is one atomic step.  It is taken only if the   *)
(* review still has the version the page showed and is still open; a       *)
(* review issues its certificates in the step that approves it; recognizing*)
(* a document again closes reviews and opens a new one.                    *)
(***************************************************************************)
EXTENDS Naturals

CONSTANTS Reviews, Sessions, Ops

VARIABLES
    desk,       \* each review: not there yet, open or closed
    version,    \* its version, shown to HR and sent back with the decision
    certified,  \* how often its certificates were issued
    request     \* the decision each session waits for

vars == <<desk, version, certified, request>>

NoRequest == [op |-> "none", review |-> "no review", version |-> 0]

Init ==
    /\ desk = [r \in Reviews |-> "none"]
    /\ version = [r \in Reviews |-> 0]
    /\ certified = [r \in Reviews |-> 0]
    /\ request = [s \in Sessions |-> NoRequest]

\* HR sends a decision on the review as the page shows it.
Ask(s, r, op) ==
    /\ request[s] = NoRequest
    /\ desk[r] # "none"
    /\ request' = [request EXCEPT ![s] =
                       [op |-> op, review |-> r, version |-> version[r]]]
    /\ UNCHANGED <<desk, version, certified>>

\* The decision takes effect, on exactly the version HR saw.
Decide(s) ==
    /\ request[s] # NoRequest
    /\ LET r == request[s].review IN
         /\ desk[r] = "open"
         /\ version[r] = request[s].version
         /\ version' = [version EXCEPT ![r] = @ + 1]
         /\ IF request[s].op = "NEEDS_INFO"
            THEN UNCHANGED desk
            ELSE desk' = [desk EXCEPT ![r] = "closed"]
         /\ IF request[s].op = "approve"
            THEN certified' = [certified EXCEPT ![r] = @ + 1]
            ELSE UNCHANGED certified
    /\ request' = [request EXCEPT ![s] = NoRequest]

\* The decision is refused or lost, and changes nothing.
Refuse(s) ==
    /\ request[s] # NoRequest
    /\ request' = [request EXCEPT ![s] = NoRequest]
    /\ UNCHANGED <<desk, version, certified>>

\* A recognition replaces some reviews by a new one.
Replace(replaced, new) ==
    /\ desk[new] = "none" /\ new \notin replaced
    /\ \A r \in replaced : desk[r] # "none"
    /\ desk' = [r \in Reviews |-> IF r \in replaced THEN "closed"
                                  ELSE IF r = new THEN "open" ELSE desk[r]]
    /\ version' = [r \in Reviews |-> IF r \in replaced THEN version[r] + 1 ELSE version[r]]
    /\ UNCHANGED <<certified, request>>

Next ==
    \/ \E s \in Sessions : \/ \E r \in Reviews, op \in Ops : Ask(s, r, op)
                           \/ Decide(s) \/ Refuse(s)
    \/ \E replaced \in SUBSET Reviews, new \in Reviews : Replace(replaced, new)

Spec == Init /\ [][Next]_vars
=============================================================================
