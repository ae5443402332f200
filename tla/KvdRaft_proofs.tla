---------------------------- MODULE KvdRaft_proofs ----------------------------
(***************************************************************************)
(* Proofs about the KvdRaft model that hold for every value of the        *)
(* constants: type correctness, and the consistency of the membership     *)
(* maps prs_ / learner_prs_ / is_learner_ that add_node_or_learner and    *)
(* the constructor maintain.                                              *)
(***************************************************************************)
EXTENDS KvdRaft, TLAPS

-----------------------------------------------------------------------------
(* Lemmas on the progress maps.                                            *)

(* Replacing the map of one node by another map over node ids keeps a     *)
(* ProgressMapOK value ProgressMapOK.                                     *)
LEMMA ProgressMapUpdate ==
    ASSUME NEW p, ProgressMapOK(p), NEW n \in Node,
           NEW D \in SUBSET Node, NEW f \in [D -> Progress]
    PROVE  ProgressMapOK([p EXCEPT ![n] = f])
BY DEF ProgressMapOK

(* The progress reset of Raft::reset yields Progress records.             *)
LEMMA ResetProgressType ==
    ASSUME NEW n, NEW D, NEW f \in [D -> Progress], NEW last \in Nat
    PROVE  reset_progress(n, f, last) \in [D -> Progress]
BY DEF reset_progress, Progress

LEMMA InitPrsType ==
    ASSUME NEW n \in Node, NEW last \in Nat
    PROVE  /\ InitVoterPrs(n, last) \in [Voters0 -> Progress]
           /\ InitLearnerPrs(n, last) \in [Learners0 -> Progress]
<1>1. [i \in Voters0 |-> NewProgress(1, FALSE)] \in [Voters0 -> Progress]
  BY DEF NewProgress, Progress
<1>2. [i \in Learners0 |-> NewProgress(1, TRUE)] \in [Learners0 -> Progress]
  BY DEF NewProgress, Progress
<1>. QED  BY <1>1, <1>2, ResetProgressType DEF InitVoterPrs, InitLearnerPrs

(* The maps the constructor builds hold voters flagged as voters and       *)
(* learners flagged as learners: reset keeps each Progress's flag.         *)
LEMMA InitPrsFlags ==
    ASSUME NEW n, NEW last
    PROVE  /\ DOMAIN InitVoterPrs(n, last) = Voters0
           /\ DOMAIN InitLearnerPrs(n, last) = Learners0
           /\ \A i \in Voters0 : ~InitVoterPrs(n, last)[i].is_learner
           /\ \A i \in Learners0 : InitLearnerPrs(n, last)[i].is_learner
BY DEF InitVoterPrs, InitLearnerPrs, reset_progress, NewProgress

-----------------------------------------------------------------------------
(* Type correctness.                                                       *)

LEMMA InitTypeOK == Init => TypeOK
<1>. SUFFICES ASSUME Init PROVE TypeOK
  OBVIOUS
<1>1. \A n \in Node : Len(InitLog[n]) \in Nat
  BY StorageAssumption
<1>2. ProgressMapOK(prs)
  BY <1>1, InitPrsType, ConfigAssumption DEF Init, ProgressMapOK
<1>3. ProgressMapOK(learner_prs)
  BY <1>1, InitPrsType, ConfigAssumption DEF Init, ProgressMapOK
<1>4. votes \in [Node -> [Node -> VoteRecord]]
  BY DEF Init, NoVotes, VoteRecord
<1>. QED
  BY <1>2, <1>3, <1>4, StorageAssumption, TickAssumption
  DEF Init, TypeOK, RaftState, None

(* The log queries of RaftLog return naturals on a well-typed log.         *)
LEMMA LogQueryType ==
    ASSUME TypeOK, NEW n \in Node
    PROVE  last_index(n) \in Nat /\ last_term(n) \in Nat
<1>1. log[n] \in Seq(Entry)
  BY DEF TypeOK
<1>2. Len(log[n]) # 0 => log[n][Len(log[n])] \in Entry
  BY <1>1
<1>3. \A e \in Entry : e.term \in Nat
  BY DEF Entry
<1>. QED  BY <1>1, <1>2, <1>3 DEF last_index, last_term

(* step_hup (and the campaign it runs) keeps votes_, msgs_ and the abort  *)
(* flag well typed.                                                       *)
LEMMA StepHupType ==
    ASSUME TypeOK, NEW n \in Node, step_hup(n)
    PROVE  /\ votes' \in [Node -> [Node -> VoteRecord]]
           /\ msgs' \in [Node -> SUBSET Message]
           /\ aborted' \in [Node -> BOOLEAN]
<1>1. poll(n) \in [Node -> VoteRecord]
  BY DEF TypeOK, poll, VoteRecord
<1>2. vote_requests(n) \subseteq Message
  <2>1. last_index(n) \in Nat /\ last_term(n) \in Nat
    BY LogQueryType
  <2>2. DOMAIN prs[n] \subseteq Node
    BY DEF TypeOK, ProgressMapOK
  <2>. QED  BY <2>1, <2>2 DEF vote_requests, Message, VoteMsgType
<1>3. CASE pending_conf(n) /\ UNCHANGED <<votes, msgs, aborted>>
  BY <1>3 DEF TypeOK
<1>4. CASE campaign(n)
  BY <1>1, <1>2, <1>4 DEF campaign, TypeOK
<1>. QED  BY <1>3, <1>4 DEF step_hup

(* The inductive invariant: TypeOK alone is not inductive, because the     *)
(* promotion branch of add_node_or_learner reads the learner Progress of  *)
(* an id whose get_progress() is a learner, and only MembershipConsistent *)
(* says that such a Progress is in learner_prs_.                          *)
IInv == TypeOK /\ MembershipConsistent

(* add_node_or_learner keeps the membership maps well typed and           *)
(* consistent.                                                            *)
LEMMA AddNodeInv ==
    ASSUME IInv, NEW n \in Node, NEW id \in Node, NEW learner \in BOOLEAN,
           add_node_or_learner(n, id, learner)
    PROVE  /\ ProgressMapOK(prs') /\ ProgressMapOK(learner_prs')
           /\ is_learner' \in [Node -> BOOLEAN]
           /\ MembershipConsistent'
<1>. USE DEF IInv
<1>. DEFINE D == DOMAIN prs[n]
            L == DOMAIN learner_prs[n]
<1>. USE DEF D, L
<1>0. /\ D \subseteq Node /\ prs[n] \in [D -> Progress]
      /\ L \subseteq Node /\ learner_prs[n] \in [L -> Progress]
      /\ DOMAIN prs = Node /\ DOMAIN learner_prs = Node
      /\ is_learner \in [Node -> BOOLEAN]
  BY DEF TypeOK, ProgressMapOK
<1>m. /\ D \cap L = {}
      /\ \A i \in D : ~prs[n][i].is_learner
      /\ \A i \in L : learner_prs[n][i].is_learner
      /\ is_learner[n] <=> n \in L
  BY DEF MembershipConsistent
<1>1. CASE /\ id \notin D \cup L
           /\ set_progress(n, id, 0, last_index(n) + 1, learner)
           /\ is_learner' = IF id = n THEN [is_learner EXCEPT ![n] = learner]
                                      ELSE is_learner
  <2>. DEFINE p == [match |-> 0, next |-> last_index(n) + 1,
                    is_learner |-> learner, recent_active |-> TRUE]
  <2>. USE DEF p
  <2>1. p \in Progress
    BY LogQueryType DEF Progress
  <2>2. CASE learner
    <3>1. /\ learner_prs' = [learner_prs EXCEPT ![n] = MapPut(learner_prs[n], id, p)]
          /\ prs' = prs
      BY <1>1, <2>2 DEF set_progress
    <3>2. /\ MapPut(learner_prs[n], id, p) \in [L \cup {id} -> Progress]
          /\ DOMAIN MapPut(learner_prs[n], id, p) = L \cup {id}
          /\ MapPut(learner_prs[n], id, p)[id] = p
          /\ \A i \in L \ {id} : MapPut(learner_prs[n], id, p)[i] = learner_prs[n][i]
      BY <1>0, <2>1 DEF MapPut
    <3>3. ProgressMapOK(learner_prs')
      BY <1>0, <3>1, <3>2, ProgressMapUpdate DEF TypeOK
    <3>4. is_learner' \in [Node -> BOOLEAN]
      BY <1>1, <2>2 DEF TypeOK
    <3>5. \A m \in Node \ {n} : /\ prs'[m] = prs[m]
                                /\ learner_prs'[m] = learner_prs[m]
                                /\ is_learner'[m] = is_learner[m]
      BY <1>1, <3>1 DEF TypeOK, ProgressMapOK
    <3>6. /\ prs'[n] = prs[n]
          /\ learner_prs'[n] = MapPut(learner_prs[n], id, p)
          /\ is_learner'[n] = IF id = n THEN TRUE ELSE is_learner[n]
      BY <1>0, <1>1, <2>2, <3>1
    <3>7. /\ DOMAIN prs'[n] \cap DOMAIN learner_prs'[n] = {}
          /\ \A i \in DOMAIN prs'[n] : ~prs'[n][i].is_learner
          /\ \A i \in DOMAIN learner_prs'[n] : learner_prs'[n][i].is_learner
          /\ is_learner'[n] <=> n \in DOMAIN learner_prs'[n]
      <4>1. DOMAIN prs'[n] \cap DOMAIN learner_prs'[n] = {}
        BY <1>1, <1>m, <3>2, <3>6
      <4>2. \A i \in DOMAIN prs'[n] : ~prs'[n][i].is_learner
        BY <1>m, <3>6
      <4>3. \A i \in DOMAIN learner_prs'[n] : learner_prs'[n][i].is_learner
        <5>1. p.is_learner
          BY <2>2
        <5>. QED  BY <1>m, <3>2, <3>6, <5>1
      <4>4. is_learner'[n] <=> n \in DOMAIN learner_prs'[n]
        BY <1>m, <3>2, <3>6
      <4>. QED  BY <4>1, <4>2, <4>3, <4>4
    <3>8. ProgressMapOK(prs')
      BY <3>1 DEF TypeOK
    <3>9. MembershipConsistent'
      BY <3>5, <3>7 DEF MembershipConsistent
    <3>. QED
      BY <3>3, <3>4, <3>8, <3>9
  <2>3. CASE ~learner
    <3>1. /\ learner_prs' = [learner_prs EXCEPT ![n] = MapErase(learner_prs[n], id)]
          /\ prs' = [prs EXCEPT ![n] = MapPut(prs[n], id, p)]
      BY <1>1, <2>3 DEF set_progress
    <3>2. /\ MapPut(prs[n], id, p) \in [D \cup {id} -> Progress]
          /\ DOMAIN MapPut(prs[n], id, p) = D \cup {id}
          /\ MapPut(prs[n], id, p)[id] = p
          /\ \A i \in D \ {id} : MapPut(prs[n], id, p)[i] = prs[n][i]
      BY <1>0, <2>1 DEF MapPut
    <3>3. /\ MapErase(learner_prs[n], id) \in [L \ {id} -> Progress]
          /\ DOMAIN MapErase(learner_prs[n], id) = L \ {id}
          /\ \A i \in L \ {id} : MapErase(learner_prs[n], id)[i] = learner_prs[n][i]
      BY <1>0 DEF MapErase
    <3>4. ProgressMapOK(prs') /\ ProgressMapOK(learner_prs')
      BY <1>0, <3>1, <3>2, <3>3, ProgressMapUpdate DEF TypeOK
    <3>5. is_learner' \in [Node -> BOOLEAN]
      BY <1>1, <2>3 DEF TypeOK
    <3>6. \A m \in Node \ {n} : /\ prs'[m] = prs[m]
                                /\ learner_prs'[m] = learner_prs[m]
                                /\ is_learner'[m] = is_learner[m]
      BY <1>1, <3>1 DEF TypeOK, ProgressMapOK
    <3>8. /\ prs'[n] = MapPut(prs[n], id, p)
          /\ learner_prs'[n] = MapErase(learner_prs[n], id)
          /\ is_learner'[n] = IF id = n THEN FALSE ELSE is_learner[n]
      BY <1>0, <1>1, <2>3, <3>1
    <3>7. /\ DOMAIN prs'[n] \cap DOMAIN learner_prs'[n] = {}
          /\ \A i \in DOMAIN prs'[n] : ~prs'[n][i].is_learner
          /\ \A i \in DOMAIN learner_prs'[n] : learner_prs'[n][i].is_learner
          /\ is_learner'[n] <=> n \in DOMAIN learner_prs'[n]
      <4>1. DOMAIN prs'[n] \cap DOMAIN learner_prs'[n] = {}
        BY <1>1, <1>m, <3>2, <3>3, <3>8
      <4>2. \A i \in DOMAIN prs'[n] : ~prs'[n][i].is_learner
        <5>1. ~p.is_learner
          BY <2>3
        <5>. QED  BY <1>m, <3>2, <3>8, <5>1
      <4>3. \A i \in DOMAIN learner_prs'[n] : learner_prs'[n][i].is_learner
        BY <1>m, <3>3, <3>8
      <4>4. is_learner'[n] <=> n \in DOMAIN learner_prs'[n]
        BY <1>m, <3>3, <3>8
      <4>. QED  BY <4>1, <4>2, <4>3, <4>4
    <3>. QED
      BY <3>4, <3>5, <3>6, <3>7 DEF MembershipConsistent
  <2>. QED  BY <2>2, <2>3
<1>2. CASE /\ id \in D \cup L
           /\ UNCHANGED <<prs, learner_prs, is_learner>>
  BY <1>2 DEF TypeOK, MembershipConsistent
<1>3. CASE /\ id \in D \cup L
           /\ ~learner /\ get_progress(n, id).is_learner
           /\ promote_learner(n, id)
           /\ is_learner' = IF id = n THEN [is_learner EXCEPT ![n] = FALSE]
                                      ELSE is_learner
  <2>1. id \in L /\ id \notin D
    BY <1>3 DEF MembershipConsistent, get_progress
  <2>. DEFINE p == [learner_prs[n][id] EXCEPT !.is_learner = FALSE,
                                               !.recent_active = TRUE]
  <2>. USE DEF p
  <2>2. p \in Progress /\ ~p.is_learner
    BY <1>0, <2>1 DEF Progress
  <2>3. /\ learner_prs' = [learner_prs EXCEPT ![n] = MapErase(learner_prs[n], id)]
        /\ prs' = [prs EXCEPT ![n] = MapPut(prs[n], id, p)]
    BY <1>3 DEF promote_learner
  <2>4. /\ MapPut(prs[n], id, p) \in [D \cup {id} -> Progress]
        /\ DOMAIN MapPut(prs[n], id, p) = D \cup {id}
        /\ MapPut(prs[n], id, p)[id] = p
        /\ \A i \in D \ {id} : MapPut(prs[n], id, p)[i] = prs[n][i]
    BY <1>0, <2>2 DEF MapPut
  <2>5. /\ MapErase(learner_prs[n], id) \in [L \ {id} -> Progress]
        /\ DOMAIN MapErase(learner_prs[n], id) = L \ {id}
        /\ \A i \in L \ {id} : MapErase(learner_prs[n], id)[i] = learner_prs[n][i]
    BY <1>0 DEF MapErase
  <2>6. ProgressMapOK(prs') /\ ProgressMapOK(learner_prs')
    BY <1>0, <2>3, <2>4, <2>5, ProgressMapUpdate DEF TypeOK
  <2>7. is_learner' \in [Node -> BOOLEAN]
    BY <1>3 DEF TypeOK
  <2>8. \A m \in Node \ {n} : /\ prs'[m] = prs[m]
                              /\ learner_prs'[m] = learner_prs[m]
                              /\ is_learner'[m] = is_learner[m]
    BY <1>3, <2>3 DEF TypeOK, ProgressMapOK
  <2>10. /\ prs'[n] = MapPut(prs[n], id, p)
         /\ learner_prs'[n] = MapErase(learner_prs[n], id)
         /\ is_learner'[n] = IF id = n THEN FALSE ELSE is_learner[n]
    BY <1>0, <1>3, <2>3
  <2>9. /\ DOMAIN prs'[n] \cap DOMAIN learner_prs'[n] = {}
        /\ \A i \in DOMAIN prs'[n] : ~prs'[n][i].is_learner
        /\ \A i \in DOMAIN learner_prs'[n] : learner_prs'[n][i].is_learner
        /\ is_learner'[n] <=> n \in DOMAIN learner_prs'[n]
    <3>1. DOMAIN prs'[n] \cap DOMAIN learner_prs'[n] = {}
      BY <1>m, <2>1, <2>4, <2>5, <2>10
    <3>2. \A i \in DOMAIN prs'[n] : ~prs'[n][i].is_learner
      <4>. SUFFICES ASSUME NEW i \in DOMAIN prs'[n] PROVE ~prs'[n][i].is_learner
        OBVIOUS
      <4>1. CASE i = id
        BY <2>2, <2>4, <2>10, <4>1
      <4>2. CASE i # id
        BY <1>m, <2>4, <2>10, <4>2
      <4>. QED  BY <4>1, <4>2
    <3>3. \A i \in DOMAIN learner_prs'[n] : learner_prs'[n][i].is_learner
      BY <1>m, <2>5, <2>10
    <3>4. is_learner'[n] <=> n \in DOMAIN learner_prs'[n]
      BY <1>m, <2>1, <2>5, <2>10
    <3>. QED  BY <3>1, <3>2, <3>3, <3>4
  <2>. QED
    BY <2>6, <2>7, <2>8, <2>9 DEF MembershipConsistent
<1>. QED  BY <1>1, <1>2, <1>3 DEF add_node_or_learner

(* A step that leaves the three membership variables alone keeps them     *)
(* consistent.                                                             *)
LEMMA MembershipFrame ==
    ASSUME MembershipConsistent, UNCHANGED <<prs, learner_prs, is_learner>>
    PROVE  MembershipConsistent'
BY DEF MembershipConsistent

(* Every step of the model keeps IInv.                                     *)
LEMMA NextIInv == IInv /\ [Next]_vars => IInv'
<1>. SUFFICES ASSUME IInv, [Next]_vars PROVE IInv'
  OBVIOUS
<1>. USE DEF IInv
<1>1. ASSUME NEW n \in Node, TickElapse(n) PROVE IInv'
  <2>1. election_elapsed[n] + 1 <= MaxElapsed
    <3>1. CASE promotable(n)
      BY <1>1, <3>1, TickAssumption
      DEF TickElapse, past_election_timeout, TypeOK, TimeoutRange
    <3>2. CASE ~promotable(n)
      BY <1>1, <3>2, TickAssumption DEF TickElapse, TypeOK
    <3>. QED  BY <3>1, <3>2
  <2>2. TypeOK'
    BY <1>1, <2>1 DEF TickElapse, TypeOK
  <2>. QED  BY <1>1, <2>2, MembershipFrame DEF TickElapse
<1>2. ASSUME NEW n \in Node, TickTimeout(n) PROVE IInv'
  <2>1. /\ votes' \in [Node -> [Node -> VoteRecord]]
        /\ msgs' \in [Node -> SUBSET Message]
        /\ aborted' \in [Node -> BOOLEAN]
    BY <1>2, StepHupType DEF TickTimeout
  <2>3. election_elapsed' \in [Node -> 0 .. MaxElapsed]
    BY <1>2, TickAssumption DEF TickTimeout, TypeOK
  <2>2. TypeOK'
    BY <1>2, <2>1, <2>3 DEF TickTimeout, TypeOK
  <2>. QED  BY <1>2, <2>2, MembershipFrame DEF TickTimeout
<1>3. ASSUME NEW n \in Node, Campaign(n) PROVE IInv'
  <2>1. /\ votes' \in [Node -> [Node -> VoteRecord]]
        /\ msgs' \in [Node -> SUBSET Message]
        /\ aborted' \in [Node -> BOOLEAN]
    BY <1>3, StepHupType DEF Campaign
  <2>2. TypeOK'
    BY <1>3, <2>1 DEF Campaign, TypeOK
  <2>. QED  BY <1>3, <2>2, MembershipFrame DEF Campaign
<1>4. ASSUME NEW n \in Node, Advance(n) PROVE IInv'
  <2>. DEFINE e == log[n][applied[n] + 1]
  <2>1. e \in Entry
    BY <1>4 DEF Advance, TypeOK
  <2>2. /\ ProgressMapOK(prs') /\ ProgressMapOK(learner_prs')
        /\ is_learner' \in [Node -> BOOLEAN]
        /\ MembershipConsistent'
    <3>1. CASE e.type = "ConfChange" /\ e.cc.type \in {"AddNode", "AddLearnerNode"}
      <4>1. add_node_or_learner(n, e.cc.node, e.cc.type = "AddLearnerNode")
        BY <1>4, <3>1 DEF Advance, apply_entry
      <4>2. e.cc.node \in Node
        BY <2>1 DEF Entry, ConfChange
      <4>. QED  BY <4>1, <4>2, AddNodeInv
    <3>2. CASE ~(e.type = "ConfChange" /\ e.cc.type \in {"AddNode", "AddLearnerNode"})
      <4>1. UNCHANGED <<prs, learner_prs, is_learner>>
        BY <1>4, <3>2 DEF Advance, apply_entry, remove_node
      <4>. QED  BY <4>1, MembershipFrame DEF TypeOK
    <3>. QED  BY <3>1, <3>2
  <2>3. /\ applied' \in [Node -> Nat]
        /\ \A i \in Node : applied'[i] <= committed'[i]
    BY <1>4 DEF Advance, TypeOK
  <2>4. TypeOK'
    BY <1>4, <2>2, <2>3 DEF Advance, TypeOK
  <2>. QED  BY <2>2, <2>4
<1>5. ASSUME NEW n \in Node, Ready(n) PROVE IInv'
  <2>1. TypeOK'
    BY <1>5 DEF Ready, TypeOK
  <2>. QED  BY <1>5, <2>1, MembershipFrame DEF Ready
<1>6. ASSUME NEW m \in net, Receive(m) PROVE IInv'
  <2>1. TypeOK'
    BY <1>6 DEF Receive, TypeOK
  <2>. QED  BY <1>6, <2>1, MembershipFrame DEF Receive
<1>7. ASSUME NEW n \in Node, Restart(n) PROVE IInv'
  <2>1. last_index(n) \in Nat
    BY LogQueryType
  <2>2. /\ ProgressMapOK(prs') /\ ProgressMapOK(learner_prs')
    BY <1>7, <2>1, InitPrsType, ConfigAssumption, ProgressMapUpdate
    DEF Restart, TypeOK
  <2>3. MembershipConsistent'
    <3>1. \A m \in Node \ {n} : /\ prs'[m] = prs[m]
                                /\ learner_prs'[m] = learner_prs[m]
                                /\ is_learner'[m] = is_learner[m]
      BY <1>7 DEF Restart, TypeOK, ProgressMapOK
    <3>2. /\ prs'[n] = InitVoterPrs(n, last_index(n))
          /\ learner_prs'[n] = InitLearnerPrs(n, last_index(n))
          /\ is_learner'[n] = (n \in Learners0)
      BY <1>7 DEF Restart, TypeOK, ProgressMapOK
    <3>3. /\ DOMAIN prs'[n] \cap DOMAIN learner_prs'[n] = {}
          /\ \A i \in DOMAIN prs'[n] : ~prs'[n][i].is_learner
          /\ \A i \in DOMAIN learner_prs'[n] : learner_prs'[n][i].is_learner
          /\ is_learner'[n] <=> n \in DOMAIN learner_prs'[n]
      BY <3>2, InitPrsFlags, ConfigAssumption
    <3>. QED  BY <3>1, <3>3 DEF MembershipConsistent
  <2>4. /\ applied' \in [Node -> Nat]
        /\ \A i \in Node : applied'[i] <= committed'[i]
    BY <1>7 DEF Restart, TypeOK
  <2>5. randomized_election_timeout' \in [Node -> TimeoutRange]
    BY <1>7 DEF Restart, TypeOK
  <2>6. votes' \in [Node -> [Node -> VoteRecord]]
    BY <1>7 DEF Restart, TypeOK, NoVotes, VoteRecord
  <2>7. restarts' \in 0 .. MaxRestarts
    BY <1>7, TickAssumption DEF Restart, TypeOK
  <2>8. /\ state' \in [Node -> RaftState] /\ lead' \in [Node -> Node \cup {None}]
        /\ election_elapsed' \in [Node -> 0 .. MaxElapsed]
        /\ is_learner' \in [Node -> BOOLEAN]
        /\ msgs' \in [Node -> SUBSET Message]
        /\ aborted' \in [Node -> BOOLEAN]
    BY <1>7, TickAssumption DEF Restart, TypeOK, RaftState, None
  <2>9. TypeOK'
    BY <1>7, <2>2, <2>4, <2>5, <2>6, <2>7, <2>8 DEF Restart, TypeOK
  <2>. QED  BY <2>3, <2>9
<1>8. CASE UNCHANGED vars
  BY <1>8 DEF vars, TypeOK, MembershipConsistent, ProgressMapOK
<1>. QED  BY <1>1, <1>2, <1>3, <1>4, <1>5, <1>6, <1>7, <1>8 DEF Next

LEMMA InitIInv == Init => IInv
<1>. SUFFICES ASSUME Init PROVE IInv
  OBVIOUS
<1>1. TypeOK
  BY InitTypeOK
<1>2. MembershipConsistent
  BY InitPrsFlags, ConfigAssumption DEF Init, MembershipConsistent
<1>. QED  BY <1>1, <1>2 DEF IInv

(* Type correctness of every variable the model keeps for the Raft object, *)
(* through ticks, elections, add_node_or_learner and restarts.             *)
THEOREM TypeCorrect == Spec => []TypeOK
<1>1. IInv => TypeOK
  BY DEF IInv
<1>. QED  BY InitIInv, NextIInv, <1>1, PTL DEF Spec

(* add_node_or_learner and the constructor keep the membership consistent: *)
(* prs_ and learner_prs_ are disjoint, each Progress's is_learner flag     *)
(* says which map holds it, and is_learner_ says whether the node holds    *)
(* itself as a learner.                                                    *)
THEOREM MembershipInvariant == Spec => []MembershipConsistent
<1>1. IInv => MembershipConsistent
  BY DEF IInv
<1>. QED  BY InitIInv, NextIInv, <1>1, PTL DEF Spec

-----------------------------------------------------------------------------
(* IInv holds in every reachable state (used by the refinement proof).    *)
LEMMA IInvariant == Spec => []IInv
BY InitIInv, NextIInv, PTL DEF Spec

=============================================================================
