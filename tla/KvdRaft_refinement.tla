-------------------------- MODULE KvdRaft_refinement --------------------------
(***************************************************************************)
(* The membership that prs_ / learner_prs_ hold refines the conf-change    *)
(* semantics of module KvdConf (the property ImplementsConf), for every    *)
(* value of the constants, provided no committed entry is a RemoveNode:    *)
(* Raft::remove_node is a stub, and run remove_stub shows the refinement   *)
(* failing on the first such entry.                                        *)
(***************************************************************************)
EXTENDS KvdRaft_proofs

(* No node's storage holds a committed RemoveNode ConfChange.              *)
NoRemoveNode ==
    \A n \in Node : \A i \in 1 .. InitCommit[n] :
        InitLog[n][i].type = "ConfChange" => InitLog[n][i].cc.type # "RemoveNode"

(* Nothing in this code changes a node's log or committed index.           *)
LogStatic == log = InitLog /\ committed = InitCommit

LEMMA LogStaticInvariant == Spec => []LogStatic
<1>1. Init => LogStatic
  BY DEF Init, LogStatic
<1>2. LogStatic /\ [Next]_vars => LogStatic'
  BY DEF LogStatic, Next, vars, TickElapse, TickTimeout, Campaign, Advance,
         Ready, Receive, Restart
<1>. QED  BY <1>1, <1>2, PTL DEF Spec

-----------------------------------------------------------------------------
(* What add_node_or_learner does to the sets of ids prs_ and learner_prs_ *)
(* hold: AddNode makes id a voter and no learner, AddLearnerNode makes it *)
(* a learner unless it is a voter, and no other node's maps change.       *)
LEMMA AddNodeDomains ==
    ASSUME IInv, NEW n \in Node, NEW id \in Node, NEW learner \in BOOLEAN,
           add_node_or_learner(n, id, learner)
    PROVE  /\ \A m \in Node \ {n} : /\ DOMAIN prs'[m] = DOMAIN prs[m]
                                    /\ DOMAIN learner_prs'[m] = DOMAIN learner_prs[m]
           /\ ~learner => /\ DOMAIN prs'[n] = DOMAIN prs[n] \cup {id}
                          /\ DOMAIN learner_prs'[n] = DOMAIN learner_prs[n] \ {id}
           /\ learner => /\ DOMAIN prs'[n] = DOMAIN prs[n]
                         /\ DOMAIN learner_prs'[n] =
                              IF id \in DOMAIN prs[n]
                              THEN DOMAIN learner_prs[n]
                              ELSE DOMAIN learner_prs[n] \cup {id}
<1>. USE DEF IInv
<1>. DEFINE D == DOMAIN prs[n]
            L == DOMAIN learner_prs[n]
<1>. USE DEF D, L
<1>0. /\ DOMAIN prs = Node /\ DOMAIN learner_prs = Node
      /\ D \cap L = {}
      /\ \A i \in L : learner_prs[n][i].is_learner
  BY DEF TypeOK, ProgressMapOK, MembershipConsistent
<1>1. CASE /\ id \notin D \cup L
           /\ set_progress(n, id, 0, last_index(n) + 1, learner)
  <2>1. CASE learner
    <3>1. /\ \E p : learner_prs' = [learner_prs EXCEPT ![n] = MapPut(learner_prs[n], id, p)]
          /\ prs' = prs
      BY <1>1, <2>1 DEF set_progress
    <3>. QED  BY <1>0, <1>1, <2>1, <3>1 DEF MapPut
  <2>2. CASE ~learner
    <3>1. /\ learner_prs' = [learner_prs EXCEPT ![n] = MapErase(learner_prs[n], id)]
          /\ \E p : prs' = [prs EXCEPT ![n] = MapPut(prs[n], id, p)]
      BY <1>1, <2>2 DEF set_progress
    <3>. QED  BY <1>0, <1>1, <2>2, <3>1 DEF MapPut, MapErase
  <2>. QED  BY <2>1, <2>2
<1>2. CASE /\ id \in D \cup L
           /\ learner \/ ~get_progress(n, id).is_learner
           /\ UNCHANGED <<prs, learner_prs, is_learner>>
  <2>1. ~learner => id \in D /\ id \notin L
    BY <1>0, <1>2 DEF get_progress
  <2>. QED  BY <1>2, <2>1
<1>3. CASE /\ id \in D \cup L
           /\ ~learner /\ get_progress(n, id).is_learner
           /\ promote_learner(n, id)
  <2>1. id \in L /\ id \notin D
    BY <1>3 DEF MembershipConsistent, get_progress
  <2>2. /\ learner_prs' = [learner_prs EXCEPT ![n] = MapErase(learner_prs[n], id)]
        /\ \E p : prs' = [prs EXCEPT ![n] = MapPut(prs[n], id, p)]
    BY <1>3 DEF promote_learner
  <2>. QED  BY <1>0, <1>3, <2>1, <2>2 DEF MapPut, MapErase
<1>. QED  BY <1>1, <1>2, <1>3 DEF add_node_or_learner

-----------------------------------------------------------------------------
(* The refinement.  V and LL name the mapped voters and learners.          *)

V == [k \in Node |-> DOMAIN prs[k]]
LL == [k \in Node |-> DOMAIN learner_prs[k]]

(* The constructor's membership is the configured one.                     *)
LEMMA InitRefines == Init => Conf!Init
<1>. SUFFICES ASSUME Init PROVE Conf!Init
  OBVIOUS
<1>1. V = [k \in Node |-> Voters0] /\ LL = [k \in Node |-> Learners0]
  BY InitPrsFlags DEF Init, V, LL
<1>. QED  BY <1>1 DEF Init, Conf!Init, V, LL

(* A step of the host that applies an entry is a step Apply of KvdConf.    *)
LEMMA AdvanceRefines ==
    ASSUME NoRemoveNode, IInv, LogStatic, NEW n \in Node, Advance(n)
    PROVE  Conf!Apply(n)
<1>. USE DEF IInv
<1>. DEFINE e == InitLog[n][applied[n] + 1]
            id == e.cc.node
<1>0. /\ applied[n] \in Nat /\ applied[n] < InitCommit[n]
      /\ log[n][applied[n] + 1] = e
      /\ applied' = [applied EXCEPT ![n] = @ + 1]
      /\ apply_entry(n, e)
  BY DEF Advance, LogStatic, TypeOK
<1>1. e \in Entry /\ id \in Node
  <2>1. applied[n] + 1 \in 1 .. Len(InitLog[n])
    BY <1>0, StorageAssumption
  <2>2. InitLog[n] \in Seq(Entry)
    BY StorageAssumption
  <2>3. e \in Entry
    BY <2>1, <2>2
  <2>. QED  BY <2>3 DEF Entry, ConfChange
<1>f. DOMAIN prs = Node /\ DOMAIN learner_prs = Node
  BY DEF TypeOK, ProgressMapOK
<1>2. CASE e.type # "ConfChange"
  <2>1. UNCHANGED <<prs, learner_prs>>
    BY <1>0, <1>2 DEF apply_entry, remove_node
  <2>. QED  BY <1>0, <1>2, <2>1 DEF Conf!Apply
<1>3. CASE e.type = "ConfChange" /\ e.cc.type = "AddNode"
  <2>1. add_node_or_learner(n, id, FALSE)
    BY <1>0, <1>3 DEF apply_entry
  <2>2. ProgressMapOK(prs') /\ ProgressMapOK(learner_prs')
    BY <1>1, <2>1, AddNodeInv
  <2>3. /\ \A m \in Node \ {n} : /\ DOMAIN prs'[m] = DOMAIN prs[m]
                                 /\ DOMAIN learner_prs'[m] = DOMAIN learner_prs[m]
        /\ DOMAIN prs'[n] = DOMAIN prs[n] \cup {id}
        /\ DOMAIN learner_prs'[n] = DOMAIN learner_prs[n] \ {id}
    BY <1>1, <2>1, AddNodeDomains
  <2>4. Conf!AddNode(n, id)
    BY <1>f, <2>3 DEF Conf!AddNode
  <2>. QED  BY <1>0, <1>3, <2>4 DEF Conf!Apply
<1>4. CASE e.type = "ConfChange" /\ e.cc.type = "AddLearnerNode"
  <2>1. add_node_or_learner(n, id, TRUE)
    BY <1>0, <1>4 DEF apply_entry
  <2>3. /\ \A m \in Node \ {n} : /\ DOMAIN prs'[m] = DOMAIN prs[m]
                                 /\ DOMAIN learner_prs'[m] = DOMAIN learner_prs[m]
        /\ DOMAIN prs'[n] = DOMAIN prs[n]
        /\ DOMAIN learner_prs'[n] = IF id \in DOMAIN prs[n]
                                    THEN DOMAIN learner_prs[n]
                                    ELSE DOMAIN learner_prs[n] \cup {id}
    BY <1>1, <2>1, AddNodeDomains
  <2>4. Conf!AddLearnerNode(n, id)
    BY <1>f, <2>3 DEF Conf!AddLearnerNode
  <2>. QED  BY <1>0, <1>4, <2>4 DEF Conf!Apply
<1>5. CASE e.type = "ConfChange" /\ e.cc.type = "RemoveNode"
  <2>1. applied[n] + 1 \in 1 .. InitCommit[n]
    BY <1>0, StorageAssumption
  <2>. QED  BY <1>5, <2>1 DEF NoRemoveNode
<1>. QED  BY <1>1, <1>2, <1>3, <1>4, <1>5 DEF Entry, ConfChange, ConfChangeType

(* A restart is a step Restart of KvdConf.                                 *)
LEMMA RestartRefines ==
    ASSUME IInv, NEW n \in Node, Restart(n)
    PROVE  Conf!Restart(n)
<1>. USE DEF IInv
<1>1. /\ \A m \in Node \ {n} : prs'[m] = prs[m] /\ learner_prs'[m] = learner_prs[m]
      /\ DOMAIN prs'[n] = Voters0 /\ DOMAIN learner_prs'[n] = Learners0
      /\ DOMAIN prs' = Node /\ DOMAIN learner_prs' = Node
  BY InitPrsFlags DEF Restart, TypeOK, ProgressMapOK
<1>. QED  BY <1>1 DEF Restart, Conf!Restart

(* Every other step leaves the membership and the applied index alone.     *)
LEMMA NextRefines ==
    ASSUME NoRemoveNode, IInv, LogStatic, [Next]_vars
    PROVE  [Conf!Next]_Conf!vars
<1>1. CASE \E n \in Node : Advance(n)
  BY <1>1, AdvanceRefines DEF Conf!Next
<1>2. CASE \E n \in Node : Restart(n)
  BY <1>2, RestartRefines DEF Conf!Next
<1>3. CASE UNCHANGED <<prs, learner_prs, applied>>
  BY <1>3 DEF Conf!vars
<1>. QED
  BY <1>1, <1>2, <1>3 DEF Next, vars, TickElapse, TickTimeout, Campaign,
                          Ready, Receive

(* When no committed entry removes a node, the voters and learners every   *)
(* node holds in prs_ / learner_prs_ change exactly as KvdConf says:       *)
(* add_node_or_learner implements AddNode and AddLearnerNode (a voter is   *)
(* never demoted, a learner is promoted, a redundant change is ignored),   *)
(* no other handler touches the maps, and the constructor restarts from    *)
(* the configuration.                                                      *)
THEOREM ConfRefinement == NoRemoveNode => (Spec => ImplementsConf)
<1>. SUFFICES ASSUME NoRemoveNode PROVE Spec => Conf!Spec
  BY DEF ImplementsConf
<1>1. Spec => [](IInv /\ LogStatic)
  BY IInvariant, LogStaticInvariant, PTL
<1>2. IInv /\ LogStatic /\ [Next]_vars => [Conf!Next]_Conf!vars
  BY NextRefines
<1>. QED  BY <1>1, <1>2, InitRefines, PTL DEF Spec, Conf!Spec

=============================================================================
