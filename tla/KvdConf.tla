------------------------------- MODULE KvdConf -------------------------------
(***************************************************************************)
(* What applying configuration changes promises, as spec.md states it      *)
(* (ConfState, "Lifecycles" and "Conf changes"): every node starts from    *)
(* the configured peers and learners, and the host applies the committed  *)
(* entries of its log in order.  Applying a ConfChange entry              *)
(*   - AddNode id: makes id a voter (a learner id is promoted);            *)
(*   - AddLearnerNode id: makes id a learner, unless it is already a voter *)
(*     (a voter is never turned back into a learner);                      *)
(*   - RemoveNode id: drops id from the voters and from the learners.      *)
(* A restarted process starts again from the configured membership with an *)
(* applied index no larger than the one it had.  Voters and learners stay  *)
(* disjoint.                                                               *)
(***************************************************************************)
EXTENDS Naturals

CONSTANTS
    Node,          \* node ids
    Voters0,       \* configured peers
    Learners0,     \* configured learners
    InitLog,       \* the log of each node: entries [type, cc |-> [type, node]]
    InitCommit,    \* the committed index of each node
    InitApplied    \* the applied index each node starts with

VARIABLES
    voters,        \* voters[n]: the voter ids node n holds
    learners,      \* learners[n]: the learner ids node n holds
    applied        \* applied[n]: the last entry node n has applied

vars == <<voters, learners, applied>>

Init ==
    /\ voters = [n \in Node |-> Voters0]
    /\ learners = [n \in Node |-> Learners0]
    /\ applied = InitApplied

AddNode(n, id) ==
    /\ voters' = [voters EXCEPT ![n] = @ \cup {id}]
    /\ learners' = [learners EXCEPT ![n] = @ \ {id}]

AddLearnerNode(n, id) ==
    /\ learners' = [learners EXCEPT ![n] =
                      IF id \in voters[n] THEN @ ELSE @ \cup {id}]
    /\ UNCHANGED voters

RemoveNode(n, id) ==
    /\ voters' = [voters EXCEPT ![n] = @ \ {id}]
    /\ learners' = [learners EXCEPT ![n] = @ \ {id}]

(* Node n applies its next committed entry.                                *)
Apply(n) ==
    LET e == InitLog[n][applied[n] + 1] IN
    /\ applied[n] < InitCommit[n]
    /\ applied' = [applied EXCEPT ![n] = @ + 1]
    /\ \/ e.type # "ConfChange" /\ UNCHANGED <<voters, learners>>
       \/ e.type = "ConfChange" /\ e.cc.type = "AddNode"
                                /\ AddNode(n, e.cc.node)
       \/ e.type = "ConfChange" /\ e.cc.type = "AddLearnerNode"
                                /\ AddLearnerNode(n, e.cc.node)
       \/ e.type = "ConfChange" /\ e.cc.type = "RemoveNode"
                                /\ RemoveNode(n, e.cc.node)

(* Node n's process restarts from the configured membership.               *)
Restart(n) ==
    /\ voters' = [voters EXCEPT ![n] = Voters0]
    /\ learners' = [learners EXCEPT ![n] = Learners0]
    /\ \E a \in 0 .. applied[n] : applied' = [applied EXCEPT ![n] = a]

Next == \E n \in Node : Apply(n) \/ Restart(n)

Spec == Init /\ [][Next]_vars

(* A node never holds an id both as a voter and as a learner.              *)
Disjoint == \A n \in Node : voters[n] \cap learners[n] = {}

=============================================================================
