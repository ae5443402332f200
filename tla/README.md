# TLA+ verification of kvd's Raft core

This directory models the Raft implementation in `src/kvd/raft/Raft.cpp`
(with `Raft.h`) and the server process in `src/kvd/KvdServer.cpp`. It
checks the models with TLC, and proves the Raft model's main invariants
and its refinement of an abstract membership specification with TLAPS.

## 1. The system

kvd is a Raft-based key-value server, ported from etcd's raft. The
repository contains:

| Part | Source | State | Operations in src/ |
|------|--------|-------|--------------------|
| Raft core | `Raft.cpp`, `Raft.h` | `term_`, `vote_`, `state_`, `lead_`, `election_elapsed_`, `randomized_election_timeout_`, `votes_`, `prs_`, `learner_prs_`, `is_learner_`, `msgs_`, `raft_log_` | constructor plus `load_state`; `become_follower`/`reset`; `tick`/`tick_election`; `step` (term filter, MsgHup); `campaign`, `poll`, `send`; `add_node_or_learner`, `set_progress`, `get_progress`, `del_progress`; queries |
| Membership | `Raft.cpp` | `prs_`, `learner_prs_`, `is_learner_` | `add_node_or_learner`, `set_progress`; `remove_node` is a stub |
| RaftLog / Unstable | `Unstable.h` (declarations only) | entries, `committed`, `applied`, unstable offset | none implemented in src/ |
| Progress / Inflights | outside src/ | `match`, `next`, flow state | only created and reset by the core |
| RawNode host loop | outside src/ | — | campaign, Ready, Advance, apply_conf_change |
| KvdServer process | `KvdServer.cpp` | `peers_`, `transport_`, the global `g_node`, `io_service_` | constructor (split `--cluster`, check), `main` (start transport, add peers), `stop`, `on_signal`; `schedule`, `process`, `report_*` are empty |
| KvServer | `KvServer.h` | — | declarations only |

Most of the role logic is an empty stub in `Raft.cpp`. This includes
`become_candidate`, `become_pre_candidate`, `become_leader`,
`step_follower`, `step_candidate`, `step_leader`, `handle_*`,
`maybe_commit`, `append_entry`, `bcast_heartbeat` and `tick_heartbeat`.
So what a node can do today is small:

- count election ticks;
- on a timeout or a host request, step a local `MsgHup`;
- refuse to campaign while a committed ConfChange is unapplied;
- record its own vote and build vote requests, which `send()` checks;
- change membership when the host applies ConfChange entries;
- be rebuilt from storage after a restart.

How the parts interact: the host ticks the Raft object and may call
campaign. It drains `msgs_` into the transport, applies committed entries
(calling `add_node_or_learner` for ConfChange entries) and can restart
the process. Peers' messages come back through `step()`.

### What is hard here

- **Vote-request construction and `send()`'s term check.** The term goes
  through two assignments, and `send()` may `LOG_FATAL`. Only a multi-node
  campaign reaches this path.
- **The pending-ConfChange check in `step()`.** It depends on `committed`
  and `applied`, which the host advances. Restarts can roll `applied`
  back.
- **Learner promotion.** It moves a Progress object between two maps and
  flips `is_learner_`. Sequences of learner/voter entries and redundant
  re-applications must keep the maps consistent.
- **Liveness.** A voter whose timer fires during a pending ConfChange
  gives up silently. It must still campaign eventually.
- **Signals during start-up.** `on_signal` may call `stop()` between any
  two statements of `KvdServer::main`, which sets `g_node` before the
  transport exists and stores the transport only after starting it.

### What makes each part correct

- **Membership:**
  - `prs_` and `learner_prs_` are disjoint;
  - each Progress's `is_learner` matches the map that holds it;
  - `is_learner_` says whether self is a learner.
- **Elections:**
  - every live voter eventually campaigns, although its timer gives up
    while committed ConfChange entries are unapplied;
  - vote requests carry the campaign term and the last log term (spec §6);
  - only voters solicit votes;
  - the process does not abort on a well-formed log (spec §7).
- **Progress:** `match < next` (spec §3). What the code keeps instead:
  `match <= next <= last_index + 1`, and only the node's own Progress
  has a non-zero match. The last part holds only because no append
  response is ever handled (the role step functions are stubs).
- **Conf changes:** the voters and learners a node holds change only when
  it applies a committed ConfChange, and exactly as the entry says
  (module `KvdConf`, from spec.md's ConfState and "Conf changes").
- **Server:** the transport learns every other member under its position
  in `--cluster`; `stop()` leaves no transport running (and, which does
  hold, a signal once `transport_` is set stops it); an empty
  `--cluster` is rejected.

## 2. Modules

| Module | Contents |
|--------|----------|
| `KvdRaft.tla` | The cluster of Raft nodes and their hosts (see below). |
| `MC_KvdRaft.tla` | Scenario constants for TLC: logs, hard states and applied indices of each node. |
| `MC_KvdRaft_*.cfg` | One config per run. |
| `KvdRaft_proofs.tla` | TLAPS proofs of `TypeOK` and `MembershipConsistent`. |
| `KvdConf.tla` | Abstract specification of conf-change application: per node, a voter set, a learner set and an applied index. |
| `KvdRaft_progress.tla` | TLAPS proof of `ProgressWithinLog`. |
| `KvdRaft_refinement.tla` | TLAPS proof that KvdRaft implements KvdConf when no committed entry is a RemoveNode. |
| `KvdServer.tla` | The server process: constructor, `main`, `stop` and `on_signal`. |
| `MC_KvdServer.tla`, `MC_KvdServer_*.cfg` | All short `--cluster` arguments and ids for TLC. |
| `KvdServer_proofs.tla` | TLAPS proofs of `PeersByPosition` and `SignalAfterAssignStops` for every cluster argument and id. |

### How KvdRaft corresponds to the code

Variables are functions over `Node`. The names follow the code (`term`
is `term_`, `prs` is `prs_`, and so on). `msgs[n]` is `msgs_`, `net` is
the transport, and `aborted[n]` means the process died in `LOG_FATAL`.

Actions:

- **`Init`**: `Raft::Raft` followed by `load_state` and
  `become_follower(term_, 0)`, which runs `reset`.
- **`TickElapse` / `TickTimeout`**: `tick_election`, which increments the
  counter and on timeout resets it and steps `MsgHup`.
- **`Campaign`**: the host steps `MsgHup` without a tick.
- **`step_hup`**: `step()` on `MsgHup`, with the pending-ConfChange check
  that calls `num_of_pending_conf` over `(applied, committed]`.
- **`campaign`**: `campaign()`, `poll()` and `send()`. The
  single-member win, the abort, and the queued requests are three
  disjuncts.
- **`Advance`**: the host applies the next committed entry.
  `apply_entry` reaches `add_node_or_learner` (three outcomes, including
  `promote_learner`) and `set_progress`, or the stub `remove_node`.
- **`Ready`**: the host drains `msgs_` into the network.
- **`Receive`**: delivery or loss. `step()` either returns at the term
  filter or calls the stub `step_follower`, so the receiver does not
  change.
- **`Restart`**: the process is rebuilt by the constructor. Log and hard
  state stay as they were, since nothing in src/ writes them. The host
  passes an `applied` index that may lag the one it had reached.

The refinement mapping to `KvdConf` (`Conf == INSTANCE KvdConf WITH ...`
in `KvdRaft.tla`) reads the voters of node n as `DOMAIN prs[n]` and the
learners as `DOMAIN learner_prs[n]`; `applied` maps to itself. `Advance`
maps to `Apply`, `Restart` to `Restart`, every other action to a stutter.
The property `ImplementsConf` is `Conf!Spec`. `KvdConf.Restart` resets
the membership to the configuration, as the constructor does when storage
holds no ConfState. So the refinement says nothing about the membership a
node has after a restart beyond that: whether applied ConfChange entries
survive a restart is not checked (see section 7).

Data is abstracted:

- A log entry is `[term, type, cc]`.
- A message keeps only `type`, `from`, `to`, `term`, `index` and
  `log_term`.
- A Progress keeps `match`, `next`, `is_learner` and `recent_active`.

### How KvdServer corresponds to the code

`pc` is how far `KvdServer::main` has got. `g_node`, `transport_` and
`io_stopped` say whether the global is set, the member is non-null and
`io_service_.stop()` has run; `transport` is the AsioTransport object's
state (none, running, stopped) and `tpeers` the peers given to it.
Actions: `Construct` (constructor: `boost::split`, the `peers_.empty()`
exit, then `g_node` is set), `StartTransport` (lines 68-71), `Assign`
(line 72), `AddPeer` (one loop iteration, lines 74-80), `Schedule` (the
empty `schedule()`, then return), and `OnSignal` (`on_signal` calling
`stop()`). The cluster argument is a sequence of characters; `Split`
computes what `boost::split` with `is_any_of(",")` and no token
compression returns, empty fields included. `on_signal` is not
registered anywhere under src/; it is a signal handler by name and
signature, so the model lets it run at any point while `main` runs.

## 3. Runs

| Run | Config | Expect | Checks |
|-----|--------|--------|--------|
| `join` | `MC_KvdRaft_join.cfg` | pass | `TypeOK`, `ProgressWithinLog`, `MembershipConsistent`, `VoterEventuallyCampaigns`, `ImplementsConf` |
| `restart` | `MC_KvdRaft_restart.cfg` | pass | `VoterEventuallyCampaigns` |
| `fresh_abort` | `MC_KvdRaft_fresh.cfg` | violation | `NeverAborts` |
| `vote_term` | `MC_KvdRaft_voteterm.cfg` | violation | `VoteRequestCarriesCampaignTerm` |
| `learner_campaign` | `MC_KvdRaft_learner.cfg` | violation | `OnlyVotersSolicitVotes` |
| `progress_next` | `MC_KvdRaft_progress.cfg` | violation | `ProgressMatchBelowNext` |
| `remove_stub` | `MC_KvdRaft_remove.cfg` | violation | `ImplementsConf` |
| `server_peers` | `MC_KvdServer_peers.cfg` | pass | `PeersByPosition`, `SignalAfterAssignStops` |
| `server_stop` | `MC_KvdServer_stop.cfg` | violation | `StopStopsTransport` |
| `server_empty_cluster` | `MC_KvdServer_empty.cfg` | violation | `EmptyClusterRejected` |

### `join`

Node 1 starts as the only voter. It has committed, unapplied entries
`AddLearner(2)`, `AddVoter(2)` and `AddLearner(1)`. The last one is a
voter-to-learner request, which the code ignores. Node 2 starts as a
non-member holding `AddLearner(2)` and `AddVoter(2)`, so it joins as a
learner and is then promoted, itself included.

The run covers ticks, host campaigns, the single-member "win", and two
restarts that roll `applied` back and re-arm the pending check.

Results: 79,380 distinct states. Every action and every disjunct except
the abort fires. The membership also refines `KvdConf` here: the join,
the ignored voter-to-learner request, the self promotion and the restarts
that reset membership are all steps of the abstract specification.

### `restart`

Two pre-vote peers. Node 1 holds a normal entry and a redundant
`AddNode(2)`. Node 2 has voted in term 2 but holds no entry, so its
campaign dies in `send()`. Restarts revive it.

This run fires the abort disjunct and the non-ConfChange branch of
`apply_entry`. It asks one question: does every live voter still
eventually campaign when one peer keeps dying in `send()` and restarts
roll `applied` back over the redundant `AddNode(2)`, so that the pending
check blocks the timer again?

### Violation runs

Each reproduces a disagreement between the code and the spec. They are
listed in `PROJECT.json` "findings".

- **`fresh_abort`**: the spec's three-voter election on empty logs. The
  first campaign kills the process: `campaign()` line 203 overwrites the
  term with `last_term() = 0`, and `send()` line 319 aborts. The term
  sought would be 0 as well: `become_candidate` and
  `become_pre_candidate` are stubs, so `term_` is never raised from the
  0 of a fresh storage.
- **`vote_term`**: a pre-vote request carries the last log term instead
  of `term_+1`, and `log_term` 0.
- **`learner_campaign`**: a learner's host calls campaign, and `step()`
  never checks `promotable()`, so vote requests go out.
- **`progress_next`**: `reset()` line 587 sets `next = last_index`. This
  breaks `match < next` for self in the initial state.
- **`remove_stub`**: both nodes hold a committed `RemoveNode(2)`.
  Applying it leaves 2 in `prs_`, since `remove_node` is a stub, while
  `KvdConf` removes it.
- **`server_stop`**: a signal after `g_node` is set and before
  `transport_ = ptr` stops `io_service_` but not the transport, which
  `main` has started or then starts.
- **`server_empty_cluster`**: an empty `--cluster` passes the
  constructor, because `boost::split` returns one empty field.

### `server_peers`

Every `--cluster` of up to three characters over `a` and `,` (15
arguments, with empty fields in several positions) and every id from 0
to 3 (inside, at the end of and past the list, and the id 0), with
signals at every point of `main`: 1,044 distinct states. Final states
have no successor because `main` returns, so deadlock is not checked.
`SignalAfterAssignStops` checks that a signal handled once `main` has
stored `transport_` (line 72) stops the transport, also after an earlier
signal inside the window that `server_stop` shows. It covers only the
half of that hazard after line 72; the window itself is `server_stop`.

### Bounds

- **`MaxElapsed = 4 = 2 * ElectionTick`.** It only caps the counter of a
  node that is not promotable, whose ticks change nothing else. A
  promotable node resets at its randomized timeout of at most 4.
- **`MaxRestarts = 2`.** Enough to crash, roll back `applied`, and crash
  again after re-applying.
- **`ElectionTick = 2`.** The timeout takes both values 2..4, so timers
  fire at different ticks.
- **Cluster sizes.** Two nodes are enough for the membership and restart
  questions. Three are needed where quorum must exceed the self vote
  (`fresh_abort`, `learner_campaign`).

### Mutants

Every property of a passing run is shown sensitive to a plausible slip in
the code. Each mutant is defined next to the definition it replaces:

| Mutant | Slip | Caught by |
|--------|------|-----------|
| `TickTimeout_no_reset` | counter not reset on timeout | `TypeOK` |
| `promote_learner_keep` | promoted learner left in `learner_prs_` | `MembershipConsistent` |
| `poll_inverted` | `poll()` never inserts the self vote (inverted find test) | `VoterEventuallyCampaigns` |
| `apply_entry_flag_swapped` | learner flag taken from the wrong ConfChange type | `ImplementsConf` |
| `AddPeer_zero_based` (in `KvdServer.tla`) | peer id is the 0-based index | `PeersByPosition` |
| `reset_progress_all_match` | `reset()` gives every Progress match = last_index | `ProgressWithinLog` |
| `stop_no_transport_stop` (in `KvdServer.tla`) | `stop()` clears `transport_` without stopping it | `SignalAfterAssignStops` |

## 4. Fairness

`FairSpec` assumes weak fairness of each node's tick (`TickElapse ∨
TickTimeout`) and of `Advance`. The host drives `tick()` from a periodic
timer and applies committed entries on every Ready cycle. Host campaigns,
restarts, message delivery and Ready are not fair: nothing in the code
forces them. The server model has no liveness property and no fairness.

## 5. Proofs

### Raft (`KvdRaft_proofs.tla`)

`TypeCorrect` (`Spec => []TypeOK`) and `MembershipInvariant`
(`Spec => []MembershipConsistent`) hold for all values of the constants
allowed by the ASSUMEs:

- nodes are non-zero ids;
- peers and learners are disjoint;
- `ElectionTick > 0` and `MaxElapsed >= 2 * ElectionTick`;
- storage is not corrupt (`applied <= commit <= last_index`).

`TypeOK` is not inductive on its own. The promotion branch of
`add_node_or_learner` reads the Progress of an id whose `get_progress()`
says learner, from `learner_prs_`. Only `MembershipConsistent` guarantees
that such a Progress is there and not in `prs_`. So the proof uses
`IInv == TypeOK /\ MembershipConsistent`, which TLC also checks in `join`.

The proof steps:

- `InitIInv` proves `Init => IInv`.
- `NextIInv` proves `IInv /\ [Next]_vars => IInv'`, with one step per
  action.
- Lemmas:
  - `AddNodeInv` covers the three outcomes of `add_node_or_learner`.
  - `StepHupType` covers campaign.
  - `MembershipFrame` covers steps that leave membership alone.
  - `InitPrsType` and `InitPrsFlags` cover the maps the constructor
    builds.
  - `ProgressMapUpdate` covers updating one node's map.
  - `LogQueryType` covers the log queries.

### Progress bounds (`KvdRaft_progress.tla`)

`ProgressWithinLogHolds` proves `Spec => []ProgressWithinLog`. The
property reads only the Progress that `get_progress` finds, so it is not
inductive. A learner Progress hidden behind a voter entry with the same
id would escape it, and a promotion would then move that Progress into
`prs_`. The inductive invariant `PInv` therefore bounds both maps of
every node (`ProgOK`). TLC checks `PInv` on `join` before
the proof uses it. The proof has three lemmas about the map operators:
`reset_progress` builds a bounded map, and `MapPut` of a bounded
Progress and `MapErase` keep a map bounded. From these lemmas,
`AddNodeProgOK` handles the three outcomes of `add_node_or_learner`. A
new Progress has match 0 and next = last_index + 1. A promoted learner
keeps its match and next, and `MembershipConsistent` puts it in
`learner_prs_`. `Restart` rebuilds the maps with `reset_progress`, and
no action changes the log.

### Refinement (`KvdRaft_refinement.tla`)

`ConfRefinement` proves `NoRemoveNode => (Spec => ImplementsConf)` for
every value of the constants: if no committed entry of any node is a
RemoveNode, the membership held in `prs_`/`learner_prs_` implements
`KvdConf`. The hypothesis is needed, because `remove_node` is a stub
(run `remove_stub`). The argument follows the usual layout:

- `InitRefines`: the constructor's maps have domains `Voters0` and
  `Learners0`.
- `NextRefines`: under `IInv` and `LogStatic` (the log and commit index
  never change, lemma `LogStaticInvariant`), `Advance` is `Apply`,
  `Restart` is `Restart` and every other action leaves `prs`,
  `learner_prs` and `applied` alone.
- `AdvanceRefines` needs `MembershipConsistent`: when an AddNode names
  an id already present and not flagged learner, that id must be in
  `prs_` and not in `learner_prs_`, so the abstract `AddNode` changes
  nothing either. `AddNodeDomains` states what each outcome of
  `add_node_or_learner` does to the two domains.

### Server (`KvdServer_proofs.tla`)

`PeersByPositionHolds` proves `Spec => []PeersByPosition` from
`ServerAssumption` (the separator is a character, the cluster arguments
are character sequences, and the ids are naturals). So the add_peer loop
is correct for clusters of any length, and not only for the three
characters that `server_peers` enumerates. The inductive invariant
`IInv` holds the loop invariant. Before the loop, `i = 0` and nothing is
registered. While the loop runs, `i` is at most the length of `peers_`
and the transport holds exactly positions `1..i` other than `id_`. When
`main` has returned, `i` equals that length. `OnSignal` never touches
these variables. Lemma `SplitIsSeq` shows that `boost::split`'s result
is a sequence: the cut set is a finite subset of `0..Len+1` and contains
0. What each field contains is not needed. `KvdServer` therefore writes
`Split` with `CHOOSE` over `Cardinality`, rather than with the
recursive `SetToSortSeq`. It writes the map insertion as an explicit
function, rather than TLC's `@@`, which the provers cannot expand.

`SignalAfterAssignStopsHolds` proves the action property
`SignalAfterAssignStops`. It rests on `TransportInv`, which TLC checks on
`server_peers`. The invariant says what the transport is at each point
of `main`:

- before line 68 there is none and `transport_` is null;
- between lines 71 and 72 it runs while `transport_` is still null;
- from line 72 on, `transport_` is set exactly while it runs.

The middle case is the window that `server_stop` exploits. The last
case makes `stop()` reach a running transport whenever `pc = "peers"`.

Liveness (`VoterEventuallyCampaigns`) is only model-checked. TLAPS cannot
reason about liveness under fairness or about ENABLED.

## 6. Not modelled, and why

- **Role behaviours.** Leader replication, vote handling, commit and
  heartbeats are stubs in src/ and would be invented, not translated.
- **RaftLog/Unstable internals, MemoryStorage, Progress flow control and
  ReadOnly.** They are not in src/ and no src/ code drives them.
- **The transport.** It is I/O and not in src/. In KvdRaft the network is
  an unordered, lossy message set; in KvdServer the transport is a
  running/stopped flag and its peer map.
- **KvdServer's destructor, `process`, `is_id_removed` and `report_*`.**
  The destructor runs only when the last reference to `g_node` is
  dropped, which depends on AsioTransport (not in src/). The others are
  empty stubs that only the transport would call.
- **KvServer.** `KvServer.h` only declares functions; none has a body
  under src/.
- **`learner_nodes()`.** Its iterator comparison is undefined behaviour,
  in a read-only query.
- **The upper end of the election-timeout jitter.** The model allows
  `2*election_tick`, as the assert at line 639 does. The generator is not
  in src/.

## 7. Plan for later work

1. RaftLog with the unstable buffer and the Ready/Advance persistence
   cycle (`stable_to` with its term check, `truncate_and_append`), and a
   refinement to an abstract append-only log, once the spec-modelled
   share of the map allows.
2. More properties about restarts and membership, for example that
   applied ConfChange entries survive restarts through the storage
   ConfState (the constructor's `cs.nodes` branch).
