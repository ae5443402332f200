------------------------------- MODULE KvdRaft -------------------------------
(***************************************************************************)
(* A cluster of kvd Raft nodes as src/kvd/raft/Raft.cpp implements them.   *)
(*                                                                         *)
(* Each node is one Raft object driven by its host: the host ticks it,     *)
(* may step a local MsgHup into it (RawNode::campaign), applies committed  *)
(* entries (calling add_node_or_learner for ConfChange entries), drains    *)
(* its outbound buffer msgs_ into the network (Ready), delivers peer       *)
(* messages to it (step) and may restart the process, which rebuilds the   *)
(* Raft object from storage.                                               *)
(*                                                                         *)
(* The functions Raft.cpp leaves as stubs (become_candidate,               *)
(* become_pre_candidate, become_leader, step_follower, step_candidate,     *)
(* step_leader, remove_node, maybe_commit, ...) change nothing, and the    *)
(* model lets them change nothing.  The log of a node is abstracted to the *)
(* sequence of its entries (RaftLog and MemoryStorage are not in src/).    *)
(***************************************************************************)
EXTENDS Naturals, Sequences, FiniteSets

CONSTANTS
    Node,          \* node ids (uint64_t, 0 is "no node")
    Voters0,       \* Config.peers, the same on every node
    Learners0,     \* Config.learners
    PreVote,       \* Config.pre_vote
    ElectionTick,  \* Config.election_tick
    InitLog,       \* the entries each node's storage holds when it starts
    InitTerm,      \* HardState.term in storage
    InitVote,      \* HardState.vote in storage
    InitCommit,    \* HardState.commit in storage
    InitApplied,   \* Config.applied the host starts each node with
    MaxElapsed,    \* bound on the election_elapsed_ of a node that is not promotable
    MaxRestarts    \* bound on the number of process restarts

None == 0

RaftState == {"Follower", "PreCandidate", "Candidate", "Leader"}
EntryType == {"Normal", "ConfChange"}
ConfChangeType == {"AddNode", "AddLearnerNode", "RemoveNode"}
ConfChange == [type : ConfChangeType, node : Node]
Entry == [term : Nat, type : EntryType, cc : ConfChange]
VoteMsgType == {"MsgVote", "MsgPreVote"}
Message == [type : VoteMsgType, from : Node, to : Node,
            term : Nat, index : Nat, log_term : Nat]
Progress == [match : Nat, next : Nat, is_learner : BOOLEAN,
             recent_active : BOOLEAN]
VoteRecord == {"none", "granted", "rejected"}
TimeoutRange == ElectionTick .. 2 * ElectionTick

ASSUME NodeAssumption == Node \subseteq Nat \ {0} /\ Node # {}
\* The constructor aborts when a node is both a peer and a learner (line 77).
ASSUME ConfigAssumption ==
    /\ Voters0 \subseteq Node /\ Learners0 \subseteq Node
    /\ Voters0 \cap Learners0 = {}
ASSUME TickAssumption ==
    /\ ElectionTick \in Nat \ {0}
    /\ MaxElapsed \in Nat /\ MaxElapsed >= 2 * ElectionTick
    /\ MaxRestarts \in Nat
ASSUME PreVoteAssumption == PreVote \in BOOLEAN
\* Storage is not corrupted: load_state aborts unless commit <= last_index.
ASSUME StorageAssumption ==
    /\ InitLog \in [Node -> Seq(Entry)]
    /\ InitTerm \in [Node -> Nat]
    /\ InitVote \in [Node -> Node \cup {None}]
    /\ InitCommit \in [Node -> Nat]
    /\ \A n \in Node : InitCommit[n] <= Len(InitLog[n])
    /\ InitApplied \in [Node -> Nat]
    /\ \A n \in Node : InitApplied[n] <= InitCommit[n]

VARIABLES
    term, vote, state, lead,           \* term_, vote_, state_, lead_
    election_elapsed,                  \* election_elapsed_
    randomized_election_timeout,       \* randomized_election_timeout_
    votes,                             \* votes_: granted / rejected / absent
    prs, learner_prs,                  \* prs_, learner_prs_: id -> Progress
    is_learner,                        \* is_learner_
    log, committed, applied,           \* raft_log_
    msgs,                              \* msgs_, drained by the host's Ready
    net,                               \* messages the transport carries
    aborted,                           \* the process died in LOG_FATAL
    restarts                           \* restarts so far (bounded)

vars == <<term, vote, state, lead, election_elapsed,
          randomized_election_timeout, votes, prs, learner_prs, is_learner,
          log, committed, applied, msgs, net, aborted, restarts>>

-----------------------------------------------------------------------------
(* Helpers on partial functions (std::unordered_map).                      *)

MapPut(f, k, v) == [i \in DOMAIN f \cup {k} |-> IF i = k THEN v ELSE f[i]]
MapErase(f, k) == [i \in DOMAIN f \ {k} |-> f[i]]

(* RaftLog queries (RaftLog is not in src/: RaftLog::last_index and        *)
(* RaftLog::last_term over a log starting at index 1).                     *)
last_index(n) == Len(log[n])
last_term(n) == IF Len(log[n]) = 0 THEN 0 ELSE log[n][Len(log[n])].term

promotable(n) == n \in DOMAIN prs[n]

quorum(n) == Cardinality(DOMAIN prs[n]) \div 2 + 1

get_progress(n, id) ==
    IF id \in DOMAIN prs[n] THEN prs[n][id] ELSE learner_prs[n][id]

NewProgress(next, learner) ==
    [match |-> 0, next |-> next, is_learner |-> learner, recent_active |-> FALSE]

(* A plausible slip in Raft::reset: every Progress, not only the node's    *)
(* own, gets match = last_index.  Detected by ProgressWithinLog.            *)
reset_progress_all_match(n, f, last) ==
    [i \in DOMAIN f |-> [match |-> last, next |-> last,
                         is_learner |-> f[i].is_learner,
                         recent_active |-> FALSE]]

(* The progress reset of Raft::reset: a fresh Progress with next set to    *)
(* last_index, the learner flag kept, and match = last_index for self.     *)
reset_progress(n, f, last) ==
    [i \in DOMAIN f |-> [match |-> IF i = n THEN last ELSE 0,
                         next |-> last,
                         is_learner |-> f[i].is_learner,
                         recent_active |-> FALSE]]

(* num_of_pending_conf over the slice (applied, committed] of Raft::step.  *)
pending_conf(n) ==
    /\ \E i \in applied[n] + 1 .. committed[n] : log[n][i].type = "ConfChange"
    /\ committed[n] > applied[n]

-----------------------------------------------------------------------------
(* Construction: Raft::Raft followed by become_follower(term_, 0).         *)

InitVoterPrs(n, last) ==
    reset_progress(n, [i \in Voters0 |-> NewProgress(1, FALSE)], last)
InitLearnerPrs(n, last) ==
    reset_progress(n, [i \in Learners0 |-> NewProgress(1, TRUE)], last)
NoVotes == [i \in Node |-> "none"]

Init ==
    /\ log = InitLog
    /\ committed = InitCommit
    /\ applied = InitApplied
    /\ term = InitTerm
    /\ vote = InitVote
    /\ state = [n \in Node |-> "Follower"]
    /\ lead = [n \in Node |-> None]
    /\ election_elapsed = [n \in Node |-> 0]
    /\ randomized_election_timeout \in [Node -> TimeoutRange]
    /\ votes = [n \in Node |-> NoVotes]
    /\ prs = [n \in Node |-> InitVoterPrs(n, Len(InitLog[n]))]
    /\ learner_prs = [n \in Node |-> InitLearnerPrs(n, Len(InitLog[n]))]
    /\ is_learner = [n \in Node |-> n \in Learners0]
    /\ msgs = [n \in Node |-> {}]
    /\ net = {}
    /\ aborted = [n \in Node |-> FALSE]
    /\ restarts = 0

-----------------------------------------------------------------------------
(* Elections.                                                              *)

(* A plausible slip in poll(): the find test is inverted, so the self vote  *)
(* is never inserted.  Detected by VoterEventuallyCampaigns.                *)
poll_inverted(n) ==
    IF votes[n][n] = "none" THEN votes[n]
                            ELSE [votes[n] EXCEPT ![n] = "granted"]

(* poll(id_, type, true) records the node's own vote unless one is there.  *)
poll(n) ==
    IF votes[n][n] = "none" THEN [votes[n] EXCEPT ![n] = "granted"]
                            ELSE votes[n]

granted(v) == Cardinality({i \in Node : v[i] = "granted"})

(* The requests campaign() builds: msg->term is first set to the campaign  *)
(* term and then overwritten with raft_log_->last_term(); log_term is      *)
(* never set.                                                              *)
vote_requests(n) ==
    {[type |-> IF PreVote THEN "MsgPreVote" ELSE "MsgVote",
      from |-> n, to |-> p,
      term |-> last_term(n), index |-> last_index(n), log_term |-> 0] :
        p \in DOMAIN prs[n] \ {n}}

(* campaign(): become_pre_candidate / become_candidate are stubs.  If the  *)
(* self vote reaches the quorum the node "wins" (the pre-vote round        *)
(* recurses into campaign(kCampaignElection), which polls again and calls  *)
(* the stub become_leader); otherwise every request goes through send(),   *)
(* which aborts the process on a vote request whose term is 0.             *)
campaign(n) ==
    LET v == poll(n) IN
    /\ votes' = [votes EXCEPT ![n] = v]
    /\ \/ /\ quorum(n) = granted(v)
          /\ UNCHANGED <<msgs, aborted>>
       \/ /\ quorum(n) # granted(v)
          /\ \E m \in vote_requests(n) : m.term = 0
          /\ aborted' = [aborted EXCEPT ![n] = TRUE]
          /\ UNCHANGED msgs
       \/ /\ quorum(n) # granted(v)
          /\ \A m \in vote_requests(n) : m.term # 0
          /\ msgs' = [msgs EXCEPT ![n] = @ \cup vote_requests(n)]
          /\ UNCHANGED aborted

(* Raft::step on a local MsgHup.  Its term is 0, so the term filter at the *)
(* top of step() lets it through whatever term_ is.  A leader would ignore *)
(* it, but no node is ever a leader: become_leader is a stub.              *)
step_hup(n) ==
    /\ state[n] # "Leader"
    /\ \/ /\ pending_conf(n)
          /\ UNCHANGED <<votes, msgs, aborted>>
       \/ /\ ~pending_conf(n)
          /\ campaign(n)

past_election_timeout(n) ==
    election_elapsed[n] + 1 >= randomized_election_timeout[n]

(* Raft::tick: tick_ is only ever bound by become_follower, to             *)
(* tick_election.  A tick that does not reach the timeout only counts.     *)
TickElapse(n) ==
    /\ ~aborted[n]
    /\ promotable(n) \/ election_elapsed[n] < MaxElapsed
    /\ ~(promotable(n) /\ past_election_timeout(n))
    /\ election_elapsed' = [election_elapsed EXCEPT ![n] = @ + 1]
    /\ UNCHANGED <<term, vote, state, lead, randomized_election_timeout,
                   votes, prs, learner_prs, is_learner, log, committed,
                   applied, msgs, net, aborted, restarts>>

(* A plausible slip in tick_election(): the counter is not reset when the  *)
(* timeout fires.  Detected by TypeOK (election_elapsed_ grows unbounded).  *)
TickTimeout_no_reset(n) ==
    /\ ~aborted[n]
    /\ promotable(n) /\ past_election_timeout(n)
    /\ election_elapsed' = [election_elapsed EXCEPT ![n] = @ + 1]
    /\ step_hup(n)
    /\ UNCHANGED <<term, vote, state, lead, randomized_election_timeout,
                   prs, learner_prs, is_learner, log, committed, applied,
                   net, restarts>>

(* tick_election reaching the timeout: reset the counter, step MsgHup.     *)
TickTimeout(n) ==
    /\ ~aborted[n]
    /\ promotable(n) /\ past_election_timeout(n)
    /\ election_elapsed' = [election_elapsed EXCEPT ![n] = 0]
    /\ step_hup(n)
    /\ UNCHANGED <<term, vote, state, lead, randomized_election_timeout,
                   prs, learner_prs, is_learner, log, committed, applied,
                   net, restarts>>

(* The host's RawNode::campaign: step(MsgHup) without a tick.              *)
Campaign(n) ==
    /\ ~aborted[n]
    /\ step_hup(n)
    /\ UNCHANGED <<term, vote, state, lead, election_elapsed,
                   randomized_election_timeout, prs, learner_prs, is_learner,
                   log, committed, applied, net, restarts>>

-----------------------------------------------------------------------------
(* Membership.                                                             *)

(* set_progress(id, match, next, is_learner) for an id with no progress,   *)
(* followed by get_progress(id)->recent_active = true.  A voter is first   *)
(* erased from learner_prs_; a learner may not already be a voter (the     *)
(* code aborts then, which add_node_or_learner never lets happen).         *)
set_progress(n, id, match, next, learner) ==
    LET p == [match |-> match, next |-> next, is_learner |-> learner,
              recent_active |-> TRUE]
    IN  IF learner
        THEN /\ learner_prs' = [learner_prs EXCEPT ![n] = MapPut(@, id, p)]
             /\ UNCHANGED prs
        ELSE /\ learner_prs' = [learner_prs EXCEPT ![n] = MapErase(@, id)]
             /\ prs' = [prs EXCEPT ![n] = MapPut(@, id, p)]

(* A plausible slip in add_node_or_learner(): the promoted learner is put   *)
(* into prs_ but not erased from learner_prs_.  Detected by                 *)
(* MembershipConsistent.                                                    *)
promote_learner_keep(n, id) ==
    LET p == [learner_prs[n][id] EXCEPT !.is_learner = FALSE,
                                        !.recent_active = TRUE]
    IN  /\ UNCHANGED learner_prs
        /\ prs' = [prs EXCEPT ![n] = MapPut(@, id, p)]

(* The learner-to-voter change: the learner's Progress object moves from   *)
(* learner_prs_ to prs_ with is_learner cleared (and recent_active set).   *)
promote_learner(n, id) ==
    LET p == [learner_prs[n][id] EXCEPT !.is_learner = FALSE,
                                        !.recent_active = TRUE]
    IN  /\ learner_prs' = [learner_prs EXCEPT ![n] = MapErase(@, id)]
        /\ prs' = [prs EXCEPT ![n] = MapPut(@, id, p)]

(* Raft::add_node_or_learner(id, is_learner) on node n.                    *)
add_node_or_learner(n, id, learner) ==
    \/ /\ id \notin DOMAIN prs[n] \cup DOMAIN learner_prs[n]
       /\ set_progress(n, id, 0, last_index(n) + 1, learner)
       /\ is_learner' = IF id = n THEN [is_learner EXCEPT ![n] = learner]
                                  ELSE is_learner
    \/ /\ id \in DOMAIN prs[n] \cup DOMAIN learner_prs[n]
       /\ learner \/ ~get_progress(n, id).is_learner
       /\ UNCHANGED <<prs, learner_prs, is_learner>>
    \/ /\ id \in DOMAIN prs[n] \cup DOMAIN learner_prs[n]
       /\ ~learner /\ get_progress(n, id).is_learner
       /\ promote_learner(n, id)
       /\ is_learner' = IF id = n THEN [is_learner EXCEPT ![n] = FALSE]
                                  ELSE is_learner

(* Raft::remove_node(id) is a stub that only logs "no impl yet".           *)
remove_node(n, id) == UNCHANGED <<prs, learner_prs, is_learner>>

(* A plausible slip in apply_entry: the learner flag is taken from the     *)
(* wrong ConfChange type, so AddNode adds a learner and AddLearnerNode a   *)
(* voter.  Detected by ImplementsConf.                                     *)
apply_entry_flag_swapped(n, e) ==
    IF e.type = "ConfChange" /\ e.cc.type \in {"AddNode", "AddLearnerNode"}
    THEN add_node_or_learner(n, e.cc.node, e.cc.type = "AddNode")
    ELSE UNCHANGED <<prs, learner_prs, is_learner>>

(* The host applies the next committed entry and advances applied          *)
(* (RawNode::apply_conf_change and advance are not in src/).  AddNode and  *)
(* AddLearnerNode reach add_node_or_learner, RemoveNode reaches            *)
(* remove_node.                                                            *)
apply_entry(n, e) ==
    IF e.type = "ConfChange" /\ e.cc.type \in {"AddNode", "AddLearnerNode"}
    THEN add_node_or_learner(n, e.cc.node, e.cc.type = "AddLearnerNode")
    ELSE IF e.type = "ConfChange" /\ e.cc.type = "RemoveNode"
    THEN remove_node(n, e.cc.node)
    ELSE UNCHANGED <<prs, learner_prs, is_learner>>

Advance(n) ==
    /\ ~aborted[n]
    /\ applied[n] < committed[n]
    /\ apply_entry(n, log[n][applied[n] + 1])
    /\ applied' = [applied EXCEPT ![n] = @ + 1]
    /\ UNCHANGED <<term, vote, state, lead, election_elapsed,
                   randomized_election_timeout, votes, log, committed,
                   msgs, net, aborted, restarts>>

-----------------------------------------------------------------------------
(* Transport and process lifecycle.                                        *)

(* The host drains msgs_ (Ready) and hands the messages to the transport.  *)
Ready(n) ==
    /\ ~aborted[n]
    /\ msgs[n] # {}
    /\ net' = net \cup msgs[n]
    /\ msgs' = [msgs EXCEPT ![n] = {}]
    /\ UNCHANGED <<term, vote, state, lead, election_elapsed,
                   randomized_election_timeout, votes, prs, learner_prs,
                   is_learner, log, committed, applied, aborted, restarts>>

(* The transport delivers m, or loses it.  Raft::step returns at once for  *)
(* a message of the node's own term, and otherwise hands it to step_,      *)
(* which is always the stub step_follower: the receiver does not change.   *)
Receive(m) ==
    /\ m \in net
    /\ net' = net \ {m}
    /\ UNCHANGED <<term, vote, state, lead, election_elapsed,
                   randomized_election_timeout, votes, prs, learner_prs,
                   is_learner, log, committed, applied, msgs, aborted,
                   restarts>>

(* The process of node n dies (by LOG_FATAL or a crash) and is started     *)
(* again: Raft::Raft runs on the same storage, whose log and HardState     *)
(* nothing in this code changes, with the host's applied index.            *)
Restart(n) ==
    /\ restarts < MaxRestarts
    /\ restarts' = restarts + 1
    /\ \E a \in 0 .. applied[n], r \in TimeoutRange :
          /\ applied' = [applied EXCEPT ![n] = a]
          /\ randomized_election_timeout' =
                [randomized_election_timeout EXCEPT ![n] = r]
    /\ state' = [state EXCEPT ![n] = "Follower"]
    /\ lead' = [lead EXCEPT ![n] = None]
    /\ election_elapsed' = [election_elapsed EXCEPT ![n] = 0]
    /\ votes' = [votes EXCEPT ![n] = NoVotes]
    /\ prs' = [prs EXCEPT ![n] = InitVoterPrs(n, last_index(n))]
    /\ learner_prs' = [learner_prs EXCEPT ![n] = InitLearnerPrs(n, last_index(n))]
    /\ is_learner' = [is_learner EXCEPT ![n] = n \in Learners0]
    /\ msgs' = [msgs EXCEPT ![n] = {}]
    /\ aborted' = [aborted EXCEPT ![n] = FALSE]
    /\ UNCHANGED <<term, vote, log, committed, net>>

-----------------------------------------------------------------------------
Next ==
    \/ \E n \in Node :
          \/ TickElapse(n) \/ TickTimeout(n) \/ Campaign(n)
          \/ Advance(n) \/ Ready(n) \/ Restart(n)
    \/ \E m \in net : Receive(m)

(* The host ticks on a timer and applies what is committed on every Ready  *)
(* cycle; crashes and restarts are not forced.                             *)
Fairness ==
    \A n \in Node :
        /\ WF_vars(TickElapse(n) \/ TickTimeout(n))
        /\ WF_vars(Advance(n))

Spec == Init /\ [][Next]_vars
FairSpec == Spec /\ Fairness

-----------------------------------------------------------------------------
(* Properties.                                                             *)

(* prs_ / learner_prs_ of every node: a map from some node ids to Progress. *)
ProgressMapOK(p) ==
    /\ DOMAIN p = Node
    /\ \A n \in Node : /\ DOMAIN p[n] \subseteq Node
                      /\ p[n] \in [DOMAIN p[n] -> Progress]

(* Every variable holds a value of its type; applied <= committed <=       *)
(* last_index, as RaftLog keeps them.                                      *)
TypeOK ==
    /\ term \in [Node -> Nat]
    /\ vote \in [Node -> Node \cup {None}]
    /\ state \in [Node -> RaftState]
    /\ lead \in [Node -> Node \cup {None}]
    /\ election_elapsed \in [Node -> 0 .. MaxElapsed]
    /\ randomized_election_timeout \in [Node -> TimeoutRange]
    /\ votes \in [Node -> [Node -> VoteRecord]]
    /\ ProgressMapOK(prs) /\ ProgressMapOK(learner_prs)
    /\ is_learner \in [Node -> BOOLEAN]
    /\ log \in [Node -> Seq(Entry)]
    /\ committed \in [Node -> Nat]
    /\ applied \in [Node -> Nat]
    /\ \A n \in Node : applied[n] <= committed[n] /\ committed[n] <= Len(log[n])
    /\ msgs \in [Node -> SUBSET Message]
    /\ net \subseteq Message
    /\ aborted \in [Node -> BOOLEAN]
    /\ restarts \in 0 .. MaxRestarts

(* Membership stays consistent through every add_node_or_learner and       *)
(* restart: no id is both in prs_ and in learner_prs_, the is_learner flag *)
(* of each Progress says which map holds it, and is_learner_ is true       *)
(* exactly when the node holds itself as a learner.                        *)
MembershipConsistent ==
    \A n \in Node :
        /\ DOMAIN prs[n] \cap DOMAIN learner_prs[n] = {}
        /\ \A i \in DOMAIN prs[n] : ~prs[n][i].is_learner
        /\ \A i \in DOMAIN learner_prs[n] : learner_prs[n][i].is_learner
        /\ is_learner[n] <=> n \in DOMAIN learner_prs[n]

(* Every live voter eventually campaigns: its election timer fires and the *)
(* pending-ConfChange check does not block it forever, because the host    *)
(* applies what is committed.                                              *)
VoterEventuallyCampaigns ==
    \A n \in Node :
        (promotable(n) /\ ~aborted[n]) ~>
            (votes[n][n] = "granted" \/ aborted[n] \/ ~promotable(n))

(* Spec section 6: a vote request carries the term being campaigned for    *)
(* (term_ for MsgVote, term_ + 1 for MsgPreVote) and log_term = last_term. *)
VoteRequestCarriesCampaignTerm ==
    \A m \in net \cup UNION {msgs[n] : n \in Node} :
        /\ m.term = IF m.type = "MsgPreVote" THEN term[m.from] + 1
                                             ELSE term[m.from]
        /\ m.log_term = last_term(m.from)

(* The core aborts the process only for corrupted storage (spec section 7):*)
(* no node dies in the LOG_FATAL of send().                                *)
NeverAborts == \A n \in Node : ~aborted[n]

(* Learners are non-voting peers: every vote request comes from a node     *)
(* that holds itself as a voter.                                           *)
OnlyVotersSolicitVotes ==
    \A m \in net \cup UNION {msgs[n] : n \in Node} : promotable(m.from)

(* The membership a node holds, read off prs_ and learner_prs_, behaves as *)
(* spec.md's conf-change semantics (module KvdConf) say: it starts from    *)
(* Config.peers / Config.learners, changes only when the host applies a    *)
(* committed ConfChange entry, exactly as that entry says, and restarts    *)
(* from the configuration.                                                 *)
Conf == INSTANCE KvdConf WITH
            voters <- [n \in Node |-> DOMAIN prs[n]],
            learners <- [n \in Node |-> DOMAIN learner_prs[n]]

ImplementsConf == Conf!Spec

(* No Progress runs ahead of what the node knows: next is at most one past *)
(* its last index, match is at most next, and no peer other than the node  *)
(* itself is credited with a match, since no append response is ever       *)
(* handled.  Raft::reset, set_progress, the learner promotion and restarts *)
(* must each keep this.                                                    *)
ProgressWithinLog ==
    \A n \in Node : \A i \in DOMAIN prs[n] \cup DOMAIN learner_prs[n] :
        LET p == get_progress(n, i) IN
        /\ p.match <= p.next
        /\ p.next <= last_index(n) + 1
        /\ i # n => p.match = 0

(* Spec section 3: a Progress always has match < next.                     *)
ProgressMatchBelowNext ==
    \A n \in Node : \A i \in DOMAIN prs[n] \cup DOMAIN learner_prs[n] :
        get_progress(n, i).match < get_progress(n, i).next

=============================================================================
