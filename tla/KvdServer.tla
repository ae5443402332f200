------------------------------ MODULE KvdServer ------------------------------
(***************************************************************************)
(* The kvd server process of src/kvd/KvdServer.cpp: KvdServer::main builds *)
(* the server from the --cluster list (constructor), creates and starts    *)
(* the AsioTransport, stores it in transport_, registers one transport     *)
(* peer per other cluster member and schedules.  The signal handler        *)
(* on_signal may run between any two of these steps and calls stop() on   *)
(* the global g_node once it is set.                                       *)
(*                                                                         *)
(* The cluster argument is a sequence of characters drawn from Char, with  *)
(* Comma the separator; boost::split is modelled by what it computes.      *)
(* The transport (not in src/) is abstracted to whether it runs and which  *)
(* peers it was given.                                                     *)
(***************************************************************************)
EXTENDS Naturals, Sequences, FiniteSets

CONSTANTS
    Char,      \* the characters a cluster argument is made of
    Comma,     \* the separator ',' (a member of Char)
    Clusters,  \* the --cluster arguments the host may pass
    Ids        \* the --id arguments the host may pass (uint64_t)

ASSUME ServerAssumption ==
    /\ Comma \in Char
    /\ Clusters \subseteq Seq(Char)
    /\ Ids \subseteq Nat

VARIABLES
    id_,        \* KvdServer::id_
    cluster,    \* the cluster argument of main
    peers_,     \* KvdServer::peers_
    pc,         \* how far main has got
    g_node,     \* the global g_node is set
    transport,  \* the AsioTransport object: "none", "running" or "stopped"
    transport_, \* KvdServer::transport_ is non-null
    tpeers,     \* the peers added to the transport: id -> address
    i,          \* the index of main's add_peer loop
    io_stopped  \* io_service_.stop() has run

vars == <<id_, cluster, peers_, pc, g_node, transport, transport_, tpeers,
          i, io_stopped>>

-----------------------------------------------------------------------------
(* boost::split(peers_, cluster, is_any_of(",")) without token compression:*)
(* the fields between consecutive separators, empty fields included; an    *)
(* empty input gives one empty field.                                      *)
(* The cuts are the separator positions with 0 and Len(s) + 1 around     *)
(* them; field k lies between the k-th and the (k+1)-th cut.               *)
Cuts(s) == {0, Len(s) + 1} \cup {k \in 1 .. Len(s) : s[k] = Comma}

CutAt(s, m) ==
    CHOOSE c \in Cuts(s) : Cardinality({d \in Cuts(s) : d < c}) = m - 1

Split(s) ==
    [k \in 1 .. Cardinality(Cuts(s)) - 1 |->
        SubSeq(s, CutAt(s, k) + 1, CutAt(s, k + 1) - 1)]

Init ==
    /\ id_ \in Ids
    /\ cluster \in Clusters
    /\ peers_ = <<>>
    /\ pc = "construct"
    /\ g_node = FALSE
    /\ transport = "none"
    /\ transport_ = FALSE
    /\ tpeers = <<>>
    /\ i = 0
    /\ io_stopped = FALSE

(* g_node = make_shared<KvdServer>(id, cluster, port): the constructor     *)
(* splits the cluster list and exits the process when it is empty.         *)
Construct ==
    /\ pc = "construct"
    /\ peers_' = Split(cluster)
    /\ IF Split(cluster) = <<>>
       THEN pc' = "exited" /\ UNCHANGED g_node
       ELSE pc' = "transport" /\ g_node' = TRUE
    /\ UNCHANGED <<id_, cluster, transport, transport_, tpeers, i, io_stopped>>

(* new AsioTransport(g_node, id_) and ptr->start().                        *)
StartTransport ==
    /\ pc = "transport"
    /\ pc' = "assign"
    /\ transport' = "running"
    /\ UNCHANGED <<id_, cluster, peers_, g_node, transport_, tpeers, i,
                   io_stopped>>

(* g_node->transport_ = ptr.                                               *)
Assign ==
    /\ pc = "assign"
    /\ pc' = "peers"
    /\ transport_' = TRUE
    /\ UNCHANGED <<id_, cluster, peers_, g_node, transport, tpeers, i,
                   io_stopped>>

(* A plausible slip in main's loop: the peer id is the 0-based index.       *)
(* Detected by PeersByPosition.                                             *)
AddPeer_zero_based ==
    /\ pc = "peers"
    /\ i < Len(peers_)
    /\ tpeers' = IF i = id_ THEN tpeers
                            ELSE [j \in DOMAIN tpeers \cup {i} |->
                                    IF j = i THEN peers_[i + 1] ELSE tpeers[j]]
    /\ i' = i + 1
    /\ UNCHANGED <<id_, cluster, peers_, pc, g_node, transport, transport_,
                   io_stopped>>

(* One iteration of main's loop: peer = i + 1 is skipped when it is the    *)
(* node's own id, and otherwise added with the address at position i.      *)
(* The loop uses the local ptr, not transport_.                            *)
AddPeer ==
    /\ pc = "peers"
    /\ i < Len(peers_)
    /\ tpeers' = IF i + 1 = id_ THEN tpeers
                                ELSE [j \in DOMAIN tpeers \cup {i + 1} |->
                                        IF j = i + 1 THEN peers_[i + 1]
                                                     ELSE tpeers[j]]
    /\ i' = i + 1
    /\ UNCHANGED <<id_, cluster, peers_, pc, g_node, transport, transport_,
                   io_stopped>>

(* After the loop: g_node->schedule() (empty), sleep(3), return.           *)
Schedule ==
    /\ pc = "peers"
    /\ i = Len(peers_)
    /\ pc' = "done"
    /\ UNCHANGED <<id_, cluster, peers_, g_node, transport, transport_,
                   tpeers, i, io_stopped>>

(* A plausible slip in stop(): transport_ is reset without calling        *)
(* transport_->stop().  Detected by SignalAfterAssignStops.                 *)
stop_no_transport_stop ==
    /\ IF transport_
       THEN transport_' = FALSE /\ UNCHANGED transport
       ELSE UNCHANGED <<transport, transport_>>
    /\ io_stopped' = TRUE

(* KvdServer::stop(): stop and clear transport_ when it is set, then stop  *)
(* io_service_.                                                            *)
stop ==
    /\ IF transport_
       THEN transport' = "stopped" /\ transport_' = FALSE
       ELSE UNCHANGED <<transport, transport_>>
    /\ io_stopped' = TRUE

(* on_signal, while main runs: stop() on g_node once it is set.            *)
OnSignal ==
    /\ pc \notin {"done", "exited"}
    /\ g_node
    /\ stop
    /\ UNCHANGED <<id_, cluster, peers_, pc, g_node, tpeers, i>>

Next ==
    \/ Construct \/ StartTransport \/ Assign \/ AddPeer \/ Schedule
    \/ OnSignal

Spec == Init /\ [][Next]_vars

-----------------------------------------------------------------------------
(* Properties.                                                             *)

(* Once main has returned, the transport knows every other cluster member  *)
(* under its 1-based position in the cluster list, with the address        *)
(* written there, and does not know the node itself, whatever signals     *)
(* arrived while the loop ran.                                             *)
PeersByPosition ==
    pc = "done" =>
        tpeers = [j \in (1 .. Len(peers_)) \ {id_} |-> peers_[j]]

(* stop() shuts the server down: once it has run, no transport of the      *)
(* server is running.                                                      *)
StopStopsTransport == io_stopped => transport # "running"

(* The race of StopStopsTransport is confined to the window before line  *)
(* 72: a signal handled once main has stored transport_ always leaves the  *)
(* transport stopped, whatever signals came before it.                     *)
SignalAfterAssignStops ==
    [][OnSignal /\ pc = "peers" => transport' = "stopped"]_vars

(* The constructor rejects an empty cluster argument ("invalid args").     *)
EmptyClusterRejected ==
    pc \notin {"construct", "exited"} => cluster # <<>>

=============================================================================
