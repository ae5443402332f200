--------------------------- MODULE KvdRaft_progress ---------------------------
(***************************************************************************)
(* ProgressWithinLog for every value of the constants: no Progress that    *)
(* Raft::reset, set_progress or the learner promotion of                   *)
(* add_node_or_learner builds, and no restart, lets next run past          *)
(* last_index + 1, match past next, or credits a peer with a match.        *)
(***************************************************************************)
EXTENDS KvdRaft_proofs

(* One node's progress map f respects the bounds, for a log of length last.*)
ProgOK(n, f, last) ==
    \A i \in DOMAIN f :
        /\ f[i].match <= f[i].next
        /\ f[i].next <= last + 1
        /\ i # n => f[i].match = 0

(* Both maps of every node respect the bounds.  This is stronger than     *)
(* ProgressWithinLog, which only looks at the Progress get_progress finds: *)
(* a learner Progress that a voter entry hides still has to be bounded,    *)
(* because the promotion moves it into prs_.                               *)
PInv ==
    \A n \in Node : /\ ProgOK(n, prs[n], Len(log[n]))
                   /\ ProgOK(n, learner_prs[n], Len(log[n]))

-----------------------------------------------------------------------------
(* Lemmas on the operators that build progress maps.                       *)

(* Raft::reset gives node n match = next = last and every peer match 0.   *)
LEMMA ResetProgOK ==
    ASSUME NEW n, NEW D, NEW f \in [D -> Progress], NEW last \in Nat
    PROVE  ProgOK(n, reset_progress(n, f, last), last)
BY DEF ProgOK, reset_progress

(* Inserting a bounded Progress keeps a map bounded.                      *)
LEMMA MapPutProgOK ==
    ASSUME NEW n, NEW f, NEW last, ProgOK(n, f, last), NEW k, NEW v,
           v.match <= v.next, v.next <= last + 1, k # n => v.match = 0
    PROVE  ProgOK(n, MapPut(f, k, v), last)
BY DEF ProgOK, MapPut

(* Erasing an entry keeps a map bounded.                                  *)
LEMMA MapEraseProgOK ==
    ASSUME NEW n, NEW f, NEW last, ProgOK(n, f, last), NEW k
    PROVE  ProgOK(n, MapErase(f, k), last)
BY DEF ProgOK, MapErase

-----------------------------------------------------------------------------
(* add_node_or_learner keeps node n's maps bounded: a new Progress has    *)
(* match 0 and next = last_index + 1, and a promoted learner keeps its    *)
(* match and next.                                                        *)
LEMMA AddNodeProgOK ==
    ASSUME IInv, PInv, NEW n \in Node, NEW id, NEW learner \in BOOLEAN,
           add_node_or_learner(n, id, learner)
    PROVE  /\ ProgOK(n, prs'[n], Len(log[n]))
           /\ ProgOK(n, learner_prs'[n], Len(log[n]))
<1>. USE DEF IInv
<1>. DEFINE D == DOMAIN prs[n]
            L == DOMAIN learner_prs[n]
            last == Len(log[n])
<1>0. /\ last \in Nat
      /\ ProgOK(n, prs[n], last) /\ ProgOK(n, learner_prs[n], last)
      /\ DOMAIN prs = Node /\ DOMAIN learner_prs = Node
      /\ learner_prs[n] \in [L -> Progress]
  BY DEF TypeOK, ProgressMapOK, PInv
<1>1. CASE /\ id \notin D \cup L
           /\ set_progress(n, id, 0, last_index(n) + 1, learner)
  <2>. DEFINE p == [match |-> 0, next |-> last + 1, is_learner |-> learner,
                    recent_active |-> TRUE]
  <2>1. p.match <= p.next /\ p.next <= last + 1 /\ p.match = 0
    BY <1>0
  <2>2. CASE learner
    <3>1. /\ learner_prs' = [learner_prs EXCEPT ![n] = MapPut(@, id, p)]
          /\ prs' = prs
      BY <1>1, <2>2 DEF set_progress, last_index
    <3>2. ProgOK(n, MapPut(learner_prs[n], id, p), last)
      BY <1>0, <2>1, MapPutProgOK
    <3>. QED  BY <1>0, <3>1, <3>2
  <2>3. CASE ~learner
    <3>1. /\ learner_prs' = [learner_prs EXCEPT ![n] = MapErase(@, id)]
          /\ prs' = [prs EXCEPT ![n] = MapPut(@, id, p)]
      BY <1>1, <2>3 DEF set_progress, last_index
    <3>2. ProgOK(n, MapPut(prs[n], id, p), last)
      BY <1>0, <2>1, MapPutProgOK
    <3>3. ProgOK(n, MapErase(learner_prs[n], id), last)
      BY <1>0, MapEraseProgOK
    <3>. QED  BY <1>0, <3>1, <3>2, <3>3
  <2>. QED  BY <2>2, <2>3
<1>2. CASE UNCHANGED <<prs, learner_prs, is_learner>>
  BY <1>0, <1>2
<1>3. CASE /\ id \in D \cup L
           /\ ~learner /\ get_progress(n, id).is_learner
           /\ promote_learner(n, id)
  <2>1. id \in L
    BY <1>3 DEF MembershipConsistent, get_progress
  <2>. DEFINE q == learner_prs[n][id]
              p == [q EXCEPT !.is_learner = FALSE, !.recent_active = TRUE]
  <2>2. q \in Progress
    BY <1>0, <2>1
  <2>3. p.match = q.match /\ p.next = q.next
    BY <2>2 DEF Progress
  <2>4. p.match <= p.next /\ p.next <= last + 1 /\ (id # n => p.match = 0)
    BY <1>0, <2>1, <2>3 DEF ProgOK
  <2>5. /\ learner_prs' = [learner_prs EXCEPT ![n] = MapErase(@, id)]
        /\ prs' = [prs EXCEPT ![n] = MapPut(@, id, p)]
    BY <1>3 DEF promote_learner
  <2>6. ProgOK(n, MapPut(prs[n], id, p), last)
    BY <1>0, <2>4, MapPutProgOK
  <2>7. ProgOK(n, MapErase(learner_prs[n], id), last)
    BY <1>0, MapEraseProgOK
  <2>. QED  BY <1>0, <2>5, <2>6, <2>7
<1>. QED  BY <1>1, <1>2, <1>3 DEF add_node_or_learner

(* A step that changes neither progress map nor the log keeps PInv.        *)
LEMMA PInvFrame ==
    ASSUME PInv, UNCHANGED <<prs, learner_prs, log>>
    PROVE  PInv'
BY DEF PInv

LEMMA InitPInv == Init => PInv
<1>. SUFFICES ASSUME Init, NEW n \in Node
              PROVE  /\ ProgOK(n, prs[n], Len(log[n]))
                     /\ ProgOK(n, learner_prs[n], Len(log[n]))
  BY DEF PInv
<1>1. Len(log[n]) \in Nat /\ log[n] = InitLog[n]
  BY StorageAssumption DEF Init
<1>2. /\ [i \in Voters0 |-> NewProgress(1, FALSE)] \in [Voters0 -> Progress]
      /\ [i \in Learners0 |-> NewProgress(1, TRUE)] \in [Learners0 -> Progress]
  BY DEF NewProgress, Progress
<1>. QED  BY <1>1, <1>2, ResetProgOK DEF Init, InitVoterPrs, InitLearnerPrs

(* Every step keeps PInv: the log never changes, Advance may run           *)
(* add_node_or_learner on one node, and Restart rebuilds one node's maps.  *)
LEMMA NextPInv == IInv /\ PInv /\ [Next]_vars => PInv'
<1>. SUFFICES ASSUME IInv, PInv, [Next]_vars PROVE PInv'
  OBVIOUS
<1>1. ASSUME NEW n \in Node, Advance(n) PROVE PInv'
  <2>. DEFINE e == log[n][applied[n] + 1]
  <2>1. CASE e.type = "ConfChange" /\ e.cc.type \in {"AddNode", "AddLearnerNode"}
    <3>1. add_node_or_learner(n, e.cc.node, e.cc.type = "AddLearnerNode")
      BY <1>1, <2>1 DEF Advance, apply_entry
    <3>2. /\ ProgOK(n, prs'[n], Len(log[n]))
          /\ ProgOK(n, learner_prs'[n], Len(log[n]))
      BY <3>1, AddNodeProgOK
    <3>3. \A m \in Node \ {n} : prs'[m] = prs[m] /\ learner_prs'[m] = learner_prs[m]
      BY <3>1 DEF add_node_or_learner, set_progress, promote_learner,
                  IInv, TypeOK, ProgressMapOK
    <3>. QED  BY <1>1, <3>2, <3>3 DEF Advance, PInv
  <2>2. CASE ~(e.type = "ConfChange" /\ e.cc.type \in {"AddNode", "AddLearnerNode"})
    <3>1. UNCHANGED <<prs, learner_prs, log>>
      BY <1>1, <2>2 DEF Advance, apply_entry, remove_node
    <3>. QED  BY <3>1, PInvFrame
  <2>. QED  BY <2>1, <2>2
<1>2. ASSUME NEW n \in Node, Restart(n) PROVE PInv'
  <2>1. Len(log[n]) \in Nat
    BY DEF IInv, TypeOK
  <2>2. /\ prs'[n] = InitVoterPrs(n, Len(log[n]))
        /\ learner_prs'[n] = InitLearnerPrs(n, Len(log[n]))
        /\ \A m \in Node \ {n} : prs'[m] = prs[m] /\ learner_prs'[m] = learner_prs[m]
        /\ log' = log
    BY <1>2 DEF Restart, last_index, IInv, TypeOK, ProgressMapOK
  <2>3. /\ [i \in Voters0 |-> NewProgress(1, FALSE)] \in [Voters0 -> Progress]
        /\ [i \in Learners0 |-> NewProgress(1, TRUE)] \in [Learners0 -> Progress]
    BY DEF NewProgress, Progress
  <2>4. /\ ProgOK(n, InitVoterPrs(n, Len(log[n])), Len(log[n]))
        /\ ProgOK(n, InitLearnerPrs(n, Len(log[n])), Len(log[n]))
    BY <2>1, <2>3, ResetProgOK DEF InitVoterPrs, InitLearnerPrs
  <2>. QED  BY <2>2, <2>4 DEF PInv
<1>3. CASE UNCHANGED <<prs, learner_prs, log>>
  BY <1>3, PInvFrame
<1>. QED
  BY <1>1, <1>2, <1>3 DEF Next, vars, TickElapse, TickTimeout, Campaign,
                          Ready, Receive

(* PInv bounds the Progress get_progress returns, from whichever map.     *)
LEMMA PInvProgress == PInv => ProgressWithinLog
BY DEF PInv, ProgOK, ProgressWithinLog, get_progress, last_index

(* Every Progress a node holds, through resets, add_node_or_learner,       *)
(* learner promotions and restarts, has match <= next <= last_index + 1,   *)
(* and only the node's own Progress may have a non-zero match.             *)
THEOREM ProgressWithinLogHolds == Spec => []ProgressWithinLog
<1>1. Spec => [](IInv /\ PInv)
  <2>1. Init => IInv /\ PInv
    BY InitIInv, InitPInv
  <2>2. IInv /\ PInv /\ [Next]_vars => IInv' /\ PInv'
    BY NextIInv, NextPInv
  <2>. QED  BY <2>1, <2>2, PTL DEF Spec
<1>. QED  BY <1>1, PInvProgress, PTL

=============================================================================
