----------------------------- MODULE MC_KvdRaft -----------------------------
(***************************************************************************)
(* Small kvd clusters for TLC.                                             *)
(*                                                                         *)
(* Join: node 1 is the only configured peer; node 2 joins through the log. *)
(* Both storages hold a ConfChange adding 2 as a learner and one promoting *)
(* it to voter; node 1 also holds one that tries to turn voter 1 into a    *)
(* learner, which add_node_or_learner ignores.                             *)
(*                                                                         *)
(* Restart: see below.                                                     *)
(***************************************************************************)
EXTENDS KvdRaft, TLC

AddLearner(i) == [term |-> 1, type |-> "ConfChange",
                  cc |-> [type |-> "AddLearnerNode", node |-> i]]
AddVoter(i) == [term |-> 1, type |-> "ConfChange",
                cc |-> [type |-> "AddNode", node |-> i]]

JoinNode == {1, 2}
JoinVoters0 == {1}
JoinLog == (1 :> <<AddLearner(2), AddVoter(2), AddLearner(1)>>)
           @@ (2 :> <<AddLearner(2), AddVoter(2)>>)
JoinTerm == [n \in JoinNode |-> 1]
JoinVote == [n \in JoinNode |-> 1]
JoinCommit == (1 :> 3) @@ (2 :> 2)
JoinApplied == [n \in JoinNode |-> 0]

(* Restart: two configured peers; node 1 holds a normal entry and a       *)
(* redundant AddNode for 2; node 2 has voted in term 2 but holds no entry, *)
(* so its vote requests would carry term 0.                                *)
Normal == [term |-> 1, type |-> "Normal",
           cc |-> [type |-> "RemoveNode", node |-> 1]]
RestartNode == {1, 2}
RestartLog == (1 :> <<Normal, AddVoter(2)>>) @@ (2 :> <<>>)
RestartTerm == [n \in RestartNode |-> 2]
RestartVote == [n \in RestartNode |-> 1]
RestartCommit == (1 :> 2) @@ (2 :> 0)
RestartApplied == [n \in RestartNode |-> 0]

(* Fresh: three configured peers started on empty storage.                *)
FreshNode == {1, 2, 3}
FreshLog == [n \in FreshNode |-> <<>>]
FreshZero == [n \in FreshNode |-> 0]

(* Learner: peers 1 and 2 and learner 3, all holding one entry of term 1.  *)
LearnerNode == {1, 2, 3}
LearnerLog == [n \in LearnerNode |-> <<Normal>>]
LearnerTerm == [n \in LearnerNode |-> 1]
LearnerZero == [n \in LearnerNode |-> 0]

(* Remove: two configured peers; both logs hold one committed ConfChange  *)
(* that removes node 2.                                                    *)
RemoveVoter(i) == [term |-> 1, type |-> "ConfChange",
                   cc |-> [type |-> "RemoveNode", node |-> i]]
RemoveLog == [n \in RestartNode |-> <<RemoveVoter(2)>>]
RemoveTerm == [n \in RestartNode |-> 1]
RemoveCommit == [n \in RestartNode |-> 1]
=============================================================================
