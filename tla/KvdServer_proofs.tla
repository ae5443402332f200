--------------------------- MODULE KvdServer_proofs ---------------------------
(***************************************************************************)
(* PeersByPosition for every cluster argument and every id: main's add_peer*)
(* loop registers exactly the other cluster members, each under its       *)
(* 1-based position, whatever signals interrupt it; and a signal handled  *)
(* once main has stored transport_ stops the transport.                    *)
(***************************************************************************)
EXTENDS KvdServer, FiniteSetTheorems, TLAPS

(* Every field boost::split can return for a configured cluster argument.  *)
Addr == UNION {{Split(c)[k] : k \in DOMAIN Split(c)} : c \in Clusters}

(* Split returns a sequence of such fields: the cuts are a finite set      *)
(* containing 0, so there is at least one field.                           *)
LEMMA SplitIsSeq ==
    ASSUME NEW c \in Clusters
    PROVE  Split(c) \in Seq(Addr)
<1>1. Len(c) \in Nat
  BY ServerAssumption
<1>2. IsFiniteSet(Cuts(c)) /\ Cuts(c) # {}
  <2>1. Cuts(c) \subseteq 0 .. Len(c) + 1
    BY <1>1 DEF Cuts
  <2>2. IsFiniteSet(0 .. Len(c) + 1)
    BY <1>1, FS_Interval
  <2>. QED  BY <2>1, <2>2, FS_Subset DEF Cuts
<1>3. Cardinality(Cuts(c)) - 1 \in Nat
  BY <1>2, FS_CardinalityType, FS_EmptySet
<1>. DEFINE N == Cardinality(Cuts(c)) - 1
<1>4. Split(c) = [k \in 1 .. N |-> Split(c)[k]]
  BY DEF Split
<1>5. \A k \in 1 .. N : Split(c)[k] \in Addr
  <2>. SUFFICES ASSUME NEW k \in 1 .. N PROVE Split(c)[k] \in Addr
    OBVIOUS
  <2>1. k \in DOMAIN Split(c)
    BY <1>4
  <2>. QED  BY <2>1 DEF Addr
<1>6. Split(c) \in [1 .. N -> Addr]
  BY <1>4, <1>5, Zenon
<1>. QED  BY <1>3, <1>6

-----------------------------------------------------------------------------
(* The inductive invariant: before the loop nothing is registered; during *)
(* it the transport holds positions 1 .. i other than the node's own id;  *)
(* after it i has reached the end of the list.                            *)
TypeOK ==
    /\ id_ \in Nat
    /\ cluster \in Clusters
    /\ peers_ \in Seq(Addr)
    /\ pc \in {"construct", "exited", "transport", "assign", "peers", "done"}
    /\ i \in Nat

LoopInv ==
    /\ pc \in {"construct", "exited", "transport", "assign"} =>
           i = 0 /\ tpeers = <<>>
    /\ pc \in {"peers", "done"} =>
           /\ i <= Len(peers_)
           /\ tpeers = [j \in (1 .. i) \ {id_} |-> peers_[j]]
    /\ pc = "done" => i = Len(peers_)

IInv == TypeOK /\ LoopInv

LEMMA InitIInv == Init => IInv
BY ServerAssumption DEF Init, IInv, TypeOK, LoopInv

(* One iteration of the loop extends the registered prefix by position    *)
(* i + 1, unless that is the node's own id.                                *)
LEMMA AddPeerIInv == IInv /\ AddPeer => IInv'
<1>. SUFFICES ASSUME IInv, AddPeer PROVE IInv'
  OBVIOUS
<1>1. /\ pc = "peers" /\ i \in Nat /\ i < Len(peers_) /\ id_ \in Nat
      /\ peers_ \in Seq(Addr)
      /\ tpeers = [j \in (1 .. i) \ {id_} |-> peers_[j]]
  BY DEF IInv, TypeOK, LoopInv, AddPeer
<1>2. CASE i + 1 = id_
  <2>1. (1 .. i + 1) \ {id_} = (1 .. i) \ {id_}
    BY <1>1, <1>2
  <2>. QED  BY <1>1, <1>2, <2>1 DEF AddPeer, IInv, TypeOK, LoopInv
<1>3. CASE i + 1 # id_
  <2>1. DOMAIN tpeers \cup {i + 1} = (1 .. i + 1) \ {id_}
    BY <1>1, <1>3
  <2>2. tpeers' = [j \in (1 .. i + 1) \ {id_} |-> peers_[j]]
    BY <1>1, <1>3, <2>1 DEF AddPeer
  <2>3. /\ i' = i + 1 /\ i + 1 <= Len(peers_)
        /\ UNCHANGED <<id_, cluster, peers_, pc>>
    BY <1>1 DEF AddPeer
  <2>. QED  BY <1>1, <2>2, <2>3 DEF IInv, TypeOK, LoopInv
<1>. QED  BY <1>2, <1>3

LEMMA NextIInv == IInv /\ [Next]_vars => IInv'
<1>. SUFFICES ASSUME IInv, [Next]_vars PROVE IInv'
  OBVIOUS
<1>1. CASE Construct
  BY <1>1, SplitIsSeq DEF Construct, IInv, TypeOK, LoopInv
<1>2. CASE StartTransport
  BY <1>2 DEF StartTransport, IInv, TypeOK, LoopInv
<1>3. CASE Assign
  <2>1. [j \in (1 .. 0) \ {id_} |-> peers_[j]] = <<>>
    OBVIOUS
  <2>. QED  BY <1>3, <2>1 DEF Assign, IInv, TypeOK, LoopInv
<1>4. CASE AddPeer
  BY <1>4, AddPeerIInv
<1>5. CASE Schedule
  BY <1>5 DEF Schedule, IInv, TypeOK, LoopInv
<1>6. CASE OnSignal
  BY <1>6 DEF OnSignal, stop, IInv, TypeOK, LoopInv
<1>7. CASE UNCHANGED vars
  BY <1>7 DEF vars, IInv, TypeOK, LoopInv
<1>. QED  BY <1>1, <1>2, <1>3, <1>4, <1>5, <1>6, <1>7 DEF Next

(* Once main has returned, the transport holds every other cluster member  *)
(* under its 1-based position in the cluster list and not the node itself: *)
(* main's loop index i is the peer id minus one, and on_signal, which may  *)
(* run between any two steps, never touches the registered peers.         *)
THEOREM PeersByPositionHolds == Spec => []PeersByPosition
<1>1. IInv => PeersByPosition
  BY DEF IInv, LoopInv, PeersByPosition
<1>. QED  BY <1>1, InitIInv, NextIInv, PTL DEF Spec
-----------------------------------------------------------------------------
(* What the transport is at each point of main: none before line 68,       *)
(* running but not yet in transport_ between lines 71 and 72, and from     *)
(* line 72 on running exactly while transport_ is set.  The middle case is *)
(* the window in which stop() cannot reach the transport.                  *)
TransportInv ==
    /\ pc \in {"construct", "exited", "transport"} =>
           transport = "none" /\ ~transport_
    /\ pc = "assign" => transport = "running" /\ ~transport_
    /\ pc \in {"peers", "done"} =>
           /\ transport \in {"running", "stopped"}
           /\ transport_ = (transport = "running")

LEMMA InitTransportInv == Init => TransportInv
BY DEF Init, TransportInv

LEMMA NextTransportInv == TypeOK /\ TransportInv /\ [Next]_vars => TransportInv'
<1>. SUFFICES ASSUME TypeOK, TransportInv, [Next]_vars PROVE TransportInv'
  OBVIOUS
<1>1. CASE Construct
  BY <1>1 DEF Construct, TransportInv
<1>2. CASE StartTransport
  BY <1>2 DEF StartTransport, TransportInv
<1>3. CASE Assign
  BY <1>3 DEF Assign, TransportInv
<1>4. CASE AddPeer
  BY <1>4 DEF AddPeer, TransportInv
<1>5. CASE Schedule
  BY <1>5 DEF Schedule, TransportInv
<1>6. CASE OnSignal
  <2>1. CASE transport_
    BY <1>6, <2>1 DEF OnSignal, stop, TransportInv, TypeOK
  <2>2. CASE ~transport_
    BY <1>6, <2>2 DEF OnSignal, stop, TransportInv, TypeOK
  <2>. QED  BY <2>1, <2>2
<1>7. CASE UNCHANGED vars
  BY <1>7 DEF vars, TransportInv
<1>. QED  BY <1>1, <1>2, <1>3, <1>4, <1>5, <1>6, <1>7 DEF Next

(* on_signal once main has stored the transport in transport_ (line 72)   *)
(* stops it: stop() finds transport_ set exactly while the transport runs, *)
(* and an earlier signal that came inside the window left transport_ to be *)
(* set by line 72 with the transport still running.                        *)
THEOREM SignalAfterAssignStopsHolds == Spec => SignalAfterAssignStops
<1>1. Spec => [](IInv /\ TransportInv)
  BY InitIInv, NextIInv, InitTransportInv, NextTransportInv, PTL DEF Spec, IInv
<1>2. IInv /\ TransportInv /\ [Next]_vars
        => [OnSignal /\ pc = "peers" => transport' = "stopped"]_vars
  <2>. SUFFICES ASSUME TransportInv, OnSignal, pc = "peers"
                PROVE  transport' = "stopped"
    OBVIOUS
  <2>1. transport = "running" => transport_
    BY DEF TransportInv
  <2>. QED  BY <2>1 DEF OnSignal, stop, TransportInv
<1>. QED  BY <1>1, <1>2, PTL DEF SignalAfterAssignStops, Spec

=============================================================================
