-------------------------- MODULE OrderedSubmission -------------------------
(***************************************************************************)
(* What a transfer's user may expect of the submission of a plan, said     *)
(* without buffers, signatures or waits: the transactions go out one after *)
(* the other in the generator's order, each of them once; where the chain  *)
(* is waited for, nothing goes out before every earlier transaction whose  *)
(* order matters has been executed; a call that returns has had the whole  *)
(* plan executed that far and returns all the hashes.                      *)
(***************************************************************************)
EXTENDS Integers, Sequences

CONSTANT Plans    \* the transactions a generator may yield

VARIABLES
    plan,      \* the transactions, "parallel" or "ordered"
    strict,    \* the chain is waited for
    network,   \* what has been broadcast
    executed,  \* what the chain has executed, successfully or not
    outcome,   \* of the call
    hashes     \* what the call returned

vars == <<plan, strict, network, executed, outcome, hashes>>

(* Everything up to the n-th whose order matters has been executed.        *)
InSequence(n) ==
    strict => \A i \in 1..n : plan[i] = "ordered" => i \in executed

Init ==
    /\ plan \in Plans
    /\ strict \in BOOLEAN
    /\ network = <<>>
    /\ executed = {}
    /\ outcome = "pending"
    /\ hashes = <<>>

(* The next transaction reaches the network; the call may end there, its   *)
(* answer lost.                                                            *)
Submit ==
    /\ outcome = "pending"
    /\ Len(network) < Len(plan)
    /\ InSequence(Len(network))
    /\ network' = Append(network, Len(network) + 1)
    /\ outcome' \in {"pending", "rejected"}
    /\ UNCHANGED <<plan, strict, executed, hashes>>

Execute(i) ==
    /\ i \in 1..Len(network) \ executed
    /\ executed' = executed \union {i}
    /\ UNCHANGED <<plan, strict, network, outcome, hashes>>

Return ==
    /\ outcome = "pending"
    /\ Len(network) = Len(plan)
    /\ InSequence(Len(plan))
    /\ outcome' = "returned"
    /\ hashes' = network
    /\ UNCHANGED <<plan, strict, network, executed>>

Reject ==
    /\ outcome = "pending"
    /\ outcome' = "rejected"
    /\ UNCHANGED <<plan, strict, network, executed, hashes>>

Next == Submit \/ Return \/ Reject \/ \E i \in 1..Len(plan) : Execute(i)

Spec == Init /\ [][Next]_vars
=============================================================================
