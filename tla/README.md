# TLA+ verification of the ne_multi_core dataplane

`ne_multi_core` is a Linux daemon that bonds several WAN links. It receives
Ethernet frames on LAN interfaces with AF_XDP, encrypts them according to
policies read from PostgreSQL, spreads flows over the WAN interfaces, and does
the reverse in the other direction. Configuration changes arrive as PostgreSQL
notifications and are applied while traffic flows. The hard part of the code is
not the ciphers but concurrency: receive, transmit, worker and main threads share frames, rings,
flags and the configuration, mostly without locks.

Paths below are relative to the repository root (`src/main.c` of the table in
`PROJECT.json` is `main.c`, `src/src/core/x.c` is `src/core/x.c`).

## 1. Inventory

| Component | State | Operations | Interacts with | Hard behaviour | Modules |
|---|---|---|---|---|---|
| Packet rings, `struct ne_ring` (`core/interface.c`) | free-running `uint32_t` head and tail, `buf`, push and pop spinlocks | `ne_ring_try_push`, `ne_ring_try_pop`, `ne_ring_count` | every pair of dataplane threads | unlocked count, wrap-around, two loads of one count | `NeRing`, `BoundedFifo` |
| Frame pool and AF_XDP queues (`core/interface.c`) | pool stack, fill, receive, transmit and completion rings | refill, recv, release, `tx_drain_queue`, `drain_cq_queue`, alloc, free | NIC, receive and transmit threads, workers | double free, leak, silent drop by `pool_push`, failing reservation | `FramePipeline` |
| Dataplane threads (`core/forwarder.c`, `dataplane_*.c`) | batches and jobs in local arrays | receive, dispatch, crypto worker, transmit | rings, pool, WAN selection, crypto runtime | two-part packets, release after dispatch, a full ring | `FramePipeline` |
| WAN selection, drains, weights (`core/forwarder_wan.c`, `flow_table.c`) | slots, `wan_stopped`, drain records, effective windows, flow entries | pick, drain start, tick, finish, flush | workers, reload, incremental attach | positions in the configuration against slots of the dataplane; flush against late pushes | `WanSlots`, `WanPicks`, `FlowTable`, `FramePipeline` (flush, room) |
| Reload hand-shake (`core/forwarder_reload.c`, `main.c`) | request fields, `pending`, `done`, two configuration slots | queue, apply if pending, shutdown | main thread and worker 0 | deadline against late completion, stop during a wait, failure half way | `Reload`, `AtomicReload` |
| Incremental attach and detach (`core/profile_iface_xdp.c`) | interface slots of the pair | add, remove, delta, rollback | reload, WAN selection | partial failure, positional mapping | `WanSlots`, `ConfigDiff`, `Reload` |
| Change classification (`main.c`) | none (predicates on two configurations) | what kind of reload a change needs | daemon, reload | two lists of predicates that must agree | `ConfigDiff` |
| Daemon and forwarder life cycle (`main.c`, `core/forwarder.c`) | active ids, `has_thread`, running flags, active slot | notification, load, delete, start, restart, stop, signal | PostgreSQL, forwarder thread | stop against start, failure after a set was changed, lost notifications | `Daemon` |
| Crypto runtime (`core/forwarder_crypto_runtime.c`) | policy contexts, ready flags, previous policies, grace deadline | rebuild, encrypt, decrypt, tick | all workers | rebuilt in place under readers | `CryptoRuntime`, `DbConfig`, `Wire` |
| Fragmentation (`core/fragment.c`) | 16-bit ids, reassembly tables per layer | split, join, collect | workers, no lock | reordered or lost halves, id reuse, collection of a table another worker fills | `Fragment` |
| Key exchange (`crypto/pqc_handshake.c`, `pqc_l2_handshake.c`) | role, learnt MAC address, input ring, key of a policy | discover, offer, answer, retry, store | peer over the WAN, crypto runtime | lost, late and crossed messages, one's own frames heard, a restart | `Pqc` |
| Traffic keys (`crypto/traffic_crypto.c`) | keys of a context | when a context takes a new key | crypto runtime, key exchange | a context taken over from the tables before | `CryptoRuntime`, `Wire` |
| Packet transformations (`crypto/packet_crypto.c`, `crypto_layer*.c`, `crypto_dispatch.c`) | none | encrypt, cut, decrypt, join | workers | lengths at the limits of a frame, padding, a wrong key | `Wire` |
| Configuration from PostgreSQL (`db/*.c`) | connection | load, give wire ids, validate, merge, choose a policy | daemon, crypto runtime | ids that clash, outage taken for absence | `DbConfig`; outcome and failure in `Daemon` |
| MAC tables, CPU map, diagnostics, XDP programs, scripts | small tables | lookup | dataplane | none modelled | none |

`PROJECT.json` lists the same components with their status, and under
`hazards` the places where this code can go wrong in a way a test hardly
reaches, each with the properties that would catch it going wrong, or why none does.

## 2. The modules and the code

### NeRing, BoundedFifo
`NeRing` has one action per access to a shared word of `ne_ring_try_push`,
`ne_ring_try_pop` and `ne_ring_count`; `head`, `tail`, `buf`, `pushLock` and
`popLock` are the fields of `struct ne_ring`, `h`, `t`, `item` the local
variables of each thread. Counters wrap at `Modulus` (2^32 in the code) and the
slot is `counter % Cap`. `mpscPop` chooses the role of the ring: several
producers and one consumer without pop lock, or one producer and several
consumers under it. The code's acquire and release orderings justify the
sequentially consistent reading of the steps: a slot is written before the head
that publishes it is stored. `BoundedFifo` is the abstract promise (one atomic
push or pop, or a refusal when full or empty); `NeRing` implements it
(`IsFifo`), the refinement mapping reads the queue out of the slots between
tail and head.

### FramePipeline
The variable `held` maps every place where a frame can be (pool, fill, receive,
transmit, completion ring, rings between threads, the local arrays of each
thread) to the sequence of frames there. The actions are the steps of the
threads of the code:

| Thread | Actions |
|---|---|
| `local_rx_thread`, `wan_rx_thread` | `RefillFq`, `Recv`, `Dispatch`, `DispatchDrop`, `Release` |
| NIC and kernel (external) | `NicReceive`, `NicTransmit` |
| `local_tx_thread`, `wan_tx_thread` | `DrainCq`, `TxStart`, `TxPop`, `TxSubmit` |
| `crypto_worker_thread` | `TakeLocal`, `TakeWan`, `ChooseWan`, `PushWan`, `PushLocal`, `SplitAlloc`, `SplitPushHead`, `SplitPushTail`, `Drop` |
| worker 0, `wan_drain_finish_slot` | `FlushStart`, `FlushPop`, `FlushNext` |

A ring operation is one step here because `NeRing` shows it takes effect at one
instant. A move of several frames between a place only one thread touches and
the pool is one step: the code does it under the pool lock. The contents of a
packet are abstracted to what decides its way: the worker its hash names, whether
it is dropped, sent whole or sent in two parts. Each interface has one hardware
queue; a thread that serves several loops over them.

### Reload, AtomicReload
Main thread and worker 0 step by step: each access to `pending`, `done` and the
request fields is an action, because only the main thread's side holds the
mutex. `slot`, `active` are `rt->cfg_slots` and `rt->active_slot`; `fwdCfg` and
`built` say which configuration the dataplane reads and which one its crypto
runtime was built from. `tainted` is a history variable: a reload was withdrawn by its deadline
while the worker had it, or its rebuild failed, after `fwd->cfg` was switched.
The code has no rollback for those two cases; the properties say that they are
the only way out of agreement. `AtomicReload` is the abstract promise: a request is
applied at one instant between its invocation and its answer, at most once, and
the answer says whether it was; a stop, a restart of the dataplane and `tainted` end
the promise (`broken`). `Reload` implements it (`IsAtomic`): the version that runs is
the one the crypto runtime was built from, and the step that applies is `Rebuild`.

### ConfigDiff
The predicates of `main.c` (`lan_wan_db_unchanged`, `config_db_unchanged`,
`runtime_tuning_only_change`, the add, remove, delta and drain tests) as
operators on a pair of configurations, with `Path`, the branch
`apply_active_configs` takes, and `AfterFailure`, whether the old dataplane is
kept or restarted. `local_db_equal` is modelled as the code has it (see 5).

### Daemon
Extends `ConfigDiff`. The main thread handles one notification at a time
(`Take`, `Load`, `Delete`, `Build`, `Reload...`, `Stop`, `Join`, `Start`,
`Leave`); the forwarder thread runs the tests of the running flag in
`forwarder_init` and `forwarder_run` one by one; database, notifications,
connection and signals are the environment. `db` and `cfg` map profiles to
rows; a row stands for the profile as stored first, with another policy, or
with other window sizes. `build_merged_config` reads all profiles in one step.
How a reload is carried out is module `Reload`; here it succeeds or fails.

### WanSlots
Extends `ConfigDiff`, whose `Path` decides the mode of each reload. `cfg` is
`fwd->cfg`, a sequence of WAN rows each owned by a profile and either in the
dataplane or not; the slot variables are `pair.wans[].ifname`, `wan_live`,
`xdp_wan_on`, `wan_cfg_idx`, `wan_stopped`, `wan_drains`, `wan_count` and
`wan_active_dp_count`, and `ring` says whether the rings towards a slot were set
up. `todo` are the rows still to visit, the lowest first. Worker 0 carries a reload out step by step: `Request`, then per mode
`DetachRow`/`DetachDone`, `AttachRow`/`AttachFails` (with the rollback; the count
becomes the one that fits the open slots, `Reconciled`), `StartDrains`, then `Publish` (`fwd->cfg = cfg`) and
`Finish` (`fwd_wan_reset_on_init`). `Clock` and `DrainExpires` are the five
seconds of a drain and the tick that ends it. The slots a packet of a profile may
be sent to are the operator `Picks`, evaluated in every state, because workers
pick at any moment (one pick taken apart into its steps is `WanPicks`); the flow
table and the weights decide among them and are left open. Three history variables name the cases the code does not handle:
`disturbed` (a reload that changed rows anywhere but at the end of the list),
`misnamed` (a drain recorded for another interface than the slot's, after
`wan_cfg_idx` went stale) and `before` (the slots when the reload began).

### WanPicks
Extends `WanSlots` by one packet on a worker other than 0, whose steps read what
worker 0 changes without a lock: `ChooseRow` (`fwd_wan_pick_for_local` up to the flow
table: a row of the pool), `FindSlot` (the position of that row in the configuration of
that later moment, or the slot in which it tapers off), `TestSlot` (below `wan_count`, not stopped, and
the alternatives of `pick_least_loaded_wan`), `PushOrDrop` (`dataplane_process_local`
after the encryption). `overtaken` is a history variable: a reload of the packet's own
profile was under way meanwhile. The packet is followed while `~disturbed`; after that
`WanSlots` states nothing of positions either. The loop that builds the pool, and the
one that compares the alternatives, read one state each.

### Fragment
One profile and one of its tables: `layer` says which. `Split` is
`frag_split_and_encrypt` of that layer on the sending peer; `wire` are the halves
on their way, which are lost (never put on the wire), repeated, and arrive in any
order. The worker that joins goes through `Arrive` (find the entry:
`Acquire` is the set of entries the half may take, empty when the L2 table is full,
the place of the id in the other tables; and `frag_prepare_entry`), `Store`,
`Emit` (the test of both flags), `Copy` and `Deliver` (the reset).
`CollectOwn` is the collection of a table by the worker that fills it. For L4 it
is another worker: `fwd_crypto_frag_gc_worker_tick` lets all but worker 0 collect
the L4 table, and only worker 0 fills it, since `dp_crypto_pick_wan_worker`
gives it every frame without an L2 marker. That collection reads the clock once
(`GcStart`) and goes through the entries (`GcSkip`, `GcFinds`, `GcClear`), and
each of its steps may fall between any two of worker 0. A half is the packet it
came from and its index; times are relative, their difference wraps as unsigned
64-bit integers do. Three history variables name what the code does not handle:
`reused`, `raced`, `holed` (section 5).

### FlowTable
One profile. `Pool` is what `fwd_wan_build_profile_pool` returns: rows of the
configuration with blended weights, then the rows of the configuration before
that taper off. `entry`, `age` are `struct flow_entry` of each flow;
`Seen` and `NewFlow` are `flow_table_get_wan_profile` (the WAN left when it is no
longer offered, the bytes counted in 32 bits, the rotation when the share of the
window is used up), `NoMemory` its refused `malloc`, `OnlyWan` the shortcut of
`fwd_wan_pick_for_local` for a pool of one. `NoTable` is the pick per packet: a packet
without a flow has no policy and is dropped before it is reached, so it serves packets of
flows while the profile has no table (`ready`), that is between `fwd->cfg = cfg` and
`fwd_crypto_ensure_profile_slots` (`GetTable`), or as long as that finds no place. Its
sequence is one for all profiles: others without a table draw from it too
(`OtherDraws`), and a table set up for another starts it again (`OtherTable`).
`GcStart` and `GcVisit`
are `flow_table_gc_slice`, whose clock is read once before any lock. `Reload`
is what a reload leaves of weights and drains, in the three ways
`apply_active_configs` carries it out, and `Tick` a second. The weighted choice
(`WrrSlot`) and the shares (`Limit`) are operators. `flow_table_get_wan` is dead
code and left out. Names that `WanSlots` has too begin with flow (`FlowInit`,
`FlowNext`, ...), so that the proofs can extend both.

### DbConfig, Wire
Operators only. `DbConfig`: `LoadProfile` is `fetch_config_from_db` with the ids of
the policies (`AllocWireId`, `IdForKey`), `ConfigLoadFromDb` adds `config_validate`,
`BuildMergedConfig` is the merge of the active profiles with its refusals, and
`PickPolicy` is `pick_profile_policy`. `Wire`: for each layer and method the
frames a packet becomes (`Frames`: as it came, whole, or two halves, with the
lengths of frame and IP header), what the receiver stores and makes of them
(`Received`), and what a frame decrypted with some key and method yields
(`Decryptions`). A CTR frame has no tag, and at L2 its receiver checks TTL and protocol
of a whole packet instead, also with the right key: what it does not accept is lost
(`L2Opened`, `Refused`). A packet is its lengths and whether it would pass that check
(`accepted`); no bytes are modelled.

### CryptoRuntime
Extends both. `tab` are `active_policies`, `policy_crypto_ctx`,
`policy_crypto_ready` and the indexes, `prev` their copy, `grace` and `left` the
period in which it serves. Worker 0 rebuilds in the order of the code: `Publish`
(`fwd->cfg`), the slots of the profiles (`NoSlot` when there is none), `Snapshot`,
`Clear`, `NoBase` or `Base`, then per policy `IndexSlot` and `FillSlot` (context taken over,
new or missing), `Finish`. Between these steps another worker encrypts a packet
(`Pick`, `Encrypt`) or decrypts a frame (`Receive`, the expiry in two steps, `Look`,
`Decrypt`), and a key exchange ends (`Exchange`, what `Pqc` promises). A context
or policy written between two steps of that worker makes the packet `torn`: it may
come out in any way. `MCCrypto` builds its five configurations with
`BuildMergedConfig`, so the ids come from `AllocWireId` in every check.

### Pqc
One policy on two gateways. `Start` is a process with its two threads; the worker
goes through `Begin` (the role from the mode or, over layer 3, from the addresses),
in bridge mode `Probe`, `HearAck`, `ProbeAgain`, then `Offer`, `TakeAnswer`,
`OfferAgain` as initiator or `TakeOffer`, `StoreKey` as responder, and `GiveUp` without
keys or socket. `HearProbe` and `Hear` are the dispatcher, which feeds the bounded
ring of the policy. Messages in `wire` are taken in any order; `LoseAnswer` loses
one. `Tap` says that raw `ETH_P_ALL` sockets hear what their own host sends, as on Linux.
A signature is perfect and a secret is named by who made it, so that `Shared` and
`Rejected` say who can have it.

## 3. The runs

All runs finish within three minutes with two TLC workers; the largest has 2.4 million states.

| Run | Question | Bounds |
|---|---|---|
| `NeRing` | Is the ring a FIFO queue in both roles, and can the only producer trust its unlocked count? | 2 producers, 2 consumers, 2 items, 4 slots, counters modulo 8 |
| `Frame_core` | Does any interleaving duplicate, lose or strand a frame, or use room that was not there? | 3 frames in the pool, 1 LAN, 1 WAN, 2 workers, kernel rings of 1, thread rings of 2, batch 1, one drain |
| `Frame_liveness` | Does every frame come back to the pool, and do reservations succeed? | 2 frames, 1 worker, kernel rings of 2, thread rings of 4, batch 2 |
| `Reload` | Do main thread and dataplane agree after every reload, is a slot in use never rewritten, is every request answered, and is a reload one step to its caller (`AtomicReload`)? | 3 versions: two reloads after the first configuration |
| `Daemon` | One forwarder at a time, configured for the active profiles, every handling ends, a signal ends the process; over all pairs of configurations, plugging and unplugging is incremental, and a failure of it never a restart | 2 profiles, 2 edits, 1 notification on its way; pairs over 2 LANs, 2 WANs with two settings and the dataplane flag, a policy, two profiles |
| `Daemon_restart` | Does a full restart serve traffic? (violated) | the same |
| `WanSlots` | Do packets go to open WANs of their profile through reloads and drains, also those picked in several steps with reloads between; does a failed attach leave nothing behind? | one packet, 3 WANs, one of which may be outside the dataplane, 2 profiles, 3 slots, 2 reloads, drains of one tick |
| `WanSlots_added` | Can a WAN added by a reload transmit? (violated) | the same |
| `Fragment` | Does what is joined belong together, do halves meet, and when is a young half given up? | 3 packets, one of which may have left a half waiting, 3 ids, 2 entries, timeout 1, 3 clock values, 1 repeated half |
| `FlowTable` | Does every packet get an offered WAN, does a flow stay for its share and no longer, is a fresh flow kept? | 1 flow, 3 WANs in ten configurations, weights 1 and 2, packets of 1 and 3, window 6, words of 16 values, 2 reloads, with a table at first or without, a collection of up to 1 s, 4 numbers of the shared sequence |
| `Crypto` | Does a packet get the key of its policy, is what is under way decrypted at every moment of a reload, do old keys end, do ids name keys, do frames fit and packets come back with their length? | 5 configurations (moved, changed, missing, shared keys; ids too large; PQC; two profiles; none), 2 reloads, grace of 1 tick, 2 flows, 6 packets, one of a protocol the L2 receiver refuses |
| `Pqc` | Do both gateways hold the same key, of an answer, in opposite roles, and does an exchange complete? | all modes, layer 3 and bridge, taps, 1 restart, rings of 1 |

Why these bounds are enough for the cases that matter. In `NeRing` counters wrap
several times and the ring fills, with two threads on the shared side. In
`Frame_core` rings of two fill, so that `SplitPushHead` races with the transmit
thread, and three frames are one more than a split takes; the same
properties are proved for all sizes (section 4). `Frame_liveness` has
`Batch < RingCap`, as in the code (`NE_BATCH_SIZE` 64, rings of thousands):
with smaller rings `fwd_wan_has_tx_room` could never accept a packet.
`Reload` needs two reloads for a completion of the first to be taken for the
second; a third adds no new pair. `Daemon` needs one edit per profile, or two
of one, to reach every branch of `apply_active_configs` that is reachable.
`WanSlots` starts from every configuration of up to three rows and goes on to
every other: the first reload brings slots and rows out of step, the second
works on them; three slots are few enough for an attach to find none left
and enough for a hole in the middle; one packet is enough for `PushesServe`, since
packets do not change the slots. `Fragment` has two entries for three ids, so
that two ids share a place, L2 probing goes on to the next entry and finds the
table full, and the clock goes on far enough for a half to be collected and for
the clock to pass the value a collection has read. One collecting worker stands
for the five: each only clears entries, under the same test. In `FlowTable`, two reloads bring the
flow's row to another WAN and back, and a window and a packet fit in a word,
as in the code. In `Crypto` the
second reload begins within the grace period of the first or after it, and each
configuration differs from every other in what a context may be taken over by;
packets are the padded minimum, a short one with and without a protocol the L2 receiver
accepts, two around the limit of a cut, and the longest frame, and the same bounds on lengths are proved for all. In `Pqc` one
restart, on either side and at any moment, makes an old answer meet a new offer.
In `WanSlots`, profiles, and the two WANs that are always
in the dataplane, are interchangeable (symmetry), and so are the packets of
`Fragment` and the frames of `Frame_core`.

Deadlock is checked in nine of the runs: their modules let a process that has ended
stutter explicitly (`Stopped`, `Gone`, `Quiet`, `Silent`). It is not checked in `Pqc`,
where both workers end by design, nor in `Crypto` and `FlowTable`, which may stop at
their bounds.

Fairness. The dataplane threads are loops without a blocking call, so what
stays possible is done (weak fairness); a worker tries both of its rings, and a
transmit thread its completions and every worker's ring, in each turn, so what
is possible again and again is done (strong fairness on `TakeLocal`, `TakeWan`,
`TxStart`, `TxSubmit`, `DrainCq`). The NIC transmits what it is given; no
fairness is assumed of packets arriving. In `Reload` the deadline of the wait is
absolute, so a thread that is woken again and again still times out (strong
fairness on `TimeOut`); signals, spurious wake-ups and notifications are never
forced. In `Daemon` both threads are scheduled and nothing else.
In `Pqc` the threads poll, so each step they can take is taken (weak fairness);
starts, restarts, losses and giving up are never forced, and since offers are repeated
no fairness of the line is needed but that what is on it is read.

Every property has a mutant in `PROJECT.json`: a change of one definition, as a
plausible bug would make it, that violates the property under the run's own
configuration. The mutated forms stand next to the definitions they replace,
marked "Mutant".

## 4. The proofs

Eight modules hold proofs. Every safety property that a passing run checks, every
invariant and every action property, is a theorem for all values of the constants;
only liveness is not. All have the same plan: an inductive invariant (`IInv`, or `Inv`
in `FramePipeline_proofs`), checked by TLC first, with one lemma per action; then the
theorems, each of which follows from it. None of the properties is inductive by itself; what was missing is
named below. The assumptions are those the modules state, and TLC evaluates
them in every run.

`FramePipeline_proofs`, under `PipelineAssumption` (sizes are
positive, LAN and WAN interfaces differ, the fallback slot is a WAN) and
`LayoutAssumption` (`ne_pair_open` puts each frame once into the pool or a
fill queue, which it does not fill up): `[]TypeOK`, `[]SingleOwner`,
`[]NoFrameLost`, `[]HandsMatchStep`, `[]RoomLasts`, `[]ReserveNeverFails`. `Inv` is
the conjunction of the six: that nothing is lost needs the pool to have room for
every frame given back, which follows from `SingleOwner` by counting (`PoolFits`);
that a batch fits in the transmit ring needs the register `txWant` to bound the jobs
(`TxRoom`), which needs the hands of the thread to match its step (`TxHands`); that
room once seen lasts needs that only the worker itself pushes to its ring
(`RoomLastsKept`).

`NeRing_proofs`, under `RingAssumption` (a positive capacity that divides the
modulus of the counters) and `FreeAssumption`: `[]TypeOK`, `[]RoomHonoured`, and
`Implements`, the refinement of `BoundedFifo`. `IInv` = `TypeOK` and `Sides` (who may
push, pop and count in each role), `Locks` (a lock is held by the one thread
between taking and freeing it), `Counters` (the ring never holds more than `Cap`, and
what a thread has read of the other side's counter is at most out of date in its
favour), `Contents` (what a thread has written or read is the slot's item). The
refinement shows that each step maps to one step of the queue (the store of a counter
is the push or pop, the comparison a refusal) or to none (`StepMaps`); lemmas on modular arithmetic
(`DistFacts`, `SlotWraps`, `SlotsDiffer`) carry the wrap-around.

`Reload_proofs`, under `VersionAssumption`: `[]TypeOK`, `[]AppliedIsApplied`,
`[]IdleAgrees`, `RewritesFreeSlot`, and `Implements`, the refinement of
`AtomicReload`. `IInv` = `TypeOK` and `HandShake` (what `pending`
and `done` say of the steps of both threads), `WorkerSays`, `MainSays` (which slot the
dataplane reads at each step of either), `SuccessLasts` (a success read by the main
thread stays true until it has switched). The refinement also needs `Newest` (the slot that
is not active holds a newer version while a request is under way); it has one
lemma for each step that is seen from outside: `NotifyAsks`, `RebuildApplies`,
`AppliedCommits`, `KeptRefuses`; `ApplyCfg`, which switches `fwd->cfg` first, is not one.

`Daemon_proofs` extends `MCDaemon`, where the two properties about decisions stand, and
so holds for any `Configs`: `[]TypeOK`, `[]ActiveIdsMatch`, `OneForwarder`,
`[]PlugAndUnplugNeverRestarts`, `[]FailedIncrementalIsKept`. The last two follow from
`PlugIsIncremental` and `FailureKeeps`, which speak of any two configurations and of no
state. `IInv` = `ThreadKnown`
(what `has_thread` says), `IdsFollow` (how the active ids differ from
the configuration at each step of a notification), `ReadIsFor` (what the configuration
just built is for).

`Fragment_proofs`, under `FragmentAssumption` and `NoneAssumption`: `[]TypeOK`,
`[]JoinsMatch`, `YoungOnlyByRace`, `[]HalvesMeet`. `IInv` = `TypeOK` and `Clocked`
(time stamps are not in the future), `GcSaw` (what the collector found old is old, or
came after it read the clock), `WasSplit`, `Sound` (a waiting half has the id of its
packet, an id in use names one packet, and what the worker has in hand). `Meeting`
adds, for `HalvesMeet`: `Placed` (L3 and L4: an id waits at its own place),
`Labelled`, `Alone` (L2: one entry for an id) and `NoHole`.

`WanSlots_proofs`, under `SlotsAssumption`: `[]TypeOK`, `[]OneSlotPerWan`,
`FailedAddRestores`, `[]StoppedIsDetached`, `[]PicksServe`, and of the packet of
`WanPicks` `[]PushesServe`. `IInv` = `TypeOK`,
`OneSlotPerWan` and `Phases` (which phases a mode goes through), `Tight` (`wan_count` is
one more than the last open slot unless a reload is attaching or detaching),
`AddedLast` and `AsBefore` (the slots attached last are the highest, and without
them all is as before), `DrainNames` and `StoppedOff` (drains are of the
interface in the slot, and what is stopped does not receive, but for `misnamed`).
For `PicksServe` comes `Positions`: as long as reloads append rows or cut off the last
ones, the n-th dataplane row has the n-th slot, at rest (`AllServe`), for the
rows that stay while interfaces are attached or detached (`Underway`), and with the new
configuration before it is reported (`Applied`). It rests on lemmas on the position of
a row, the number of dataplane rows before it, in a sequence of rows that is extended or
cut off. `PushesServe` is about several states: what a packet holds stays true through
the steps of a reload of another profile (`Held`, `Holds`; `StepHolds` for its own
steps, `NextHolds` for those of worker 0), because such a reload leaves the packet's rows and their
positions (`RowsStay`, `PositionsStep`), so the slot found from the row is the one that
serves it (`OwnSlot`, `OwnServe`).

The same module has the proofs about `FlowTable`, under `FlowAssumption` and
`ConfigsAssumption` (weights and packets are positive, a window and a packet fit in the
32 bits of the count, the rows of a profile are of different interfaces):
`[]FlowTypeOK`, `[]PickIsOffered`, `StaysAreShares` and `FreshFlowKept`. `FlowGood` = `FlowTypeOK`, `PickIsOffered` and `BlendFits`
(while weights are blended, those before belong to as many rows), `OneDrain` (a row tapers
off once), `EmptyAtFirst` (without a table there are no entries, so the number of rows a
table has limits for is not set under one) and `Shares`: the count of a flow on a WAN with a limit stays below the
window, which is why it never wraps there, and is what the flow has sent since it came.
`BlendFits` and `OneDrain` make the pool a sequence of different rows with positive weights
(`PoolTyped`), from which a choice is always a row of the pool (`SlotIs`, `Choices`), and a
limit at least 1 and at most the window (`LimitIs`).

`CryptoRuntime_proofs`, under `DbConfigAssumption` and `CryptoAssumption` (actions
and methods the parser lets through, no key stored for a PQC policy, a grace period of
at least a tick, packets the kernel hands over as IPv4): `[]TypeOK`,
`[]SentUnderItsPolicy`, `[]Served`, `[]KeysInForce`, `[]IdsNameKeys`, `[]FramesFit`,
`[]Restored`. `IInv` says
that both tables are `Good` (a ready slot is filled, and its context has the key of
its policy), that a reload has kept good tables to take over from (`ReloadOK`), what the
other worker's packet may rely on (`JobExplained`), and the clock. For `Served`, two
more: `Rebuilding` (which of the tables and their copy is complete at each step of a
reload) and `Serving` (the first attempt of a packet under way is with a policy of its
method and key). `IdsNameKeys` is a theorem for all
configurations that `build_merged_config` makes of a database, of any rows and in any order of
profiles (`OneKeyPerId`, whose hypothesis `FromDatabase` says so of `Configs`; those of the
run are made that way): after each row a key given an id has no other, a PQC row has an id no key
has (`LoadOK`), and a merge keeps the policies of each profile as they were loaded
(`FromRows`). Those on lengths are
theorems about `Wire` for all well-formed packets (`FramesBound`, `WholeComesBack`,
`HalvesComeBack`); two of the exceptions have a converse: a second L2 half under 20
bytes is refused (`ShortHalfIsLost`), and so is a whole L2 packet under CTR whose TTL
or protocol `verify_ipv4_after_decrypt` does not accept (`RefusedIsLost`).

`Pqc_proofs`, under `GatewaysAssumption` and `BoundsAssumption`: `[]TypeOK`,
`[]KeysAgree`, `[]RolesComplement`, `[]KeyWasAnswered`. `IInv` = `TypeOK` and
`MailIsSent` (what is on the line or in a ring was sent by a process of the peer),
`WorkerSteps`, `KeysExplained` (where a key came from, and what the peer
has done or will do with it), `RolesResolved`.

Data that grow with a constant need induction: the sums of weights, the rows in order, the
rows of a database read one after the other. The induction theorems of the library take
an operator, which the provers cannot instantiate; instead `Induct` derives from the
well-foundedness of the natural numbers (`LeastNat`) that a set of numbers with 0 and the
successor of each member has all of them, and each use names its set. For that, what the code
does in a loop is a recursive function over the length (`Acc`, `LoadPolicies`,
`BuildMergedConfig`), whose existence is proved first (`SumsExist`, `MergesExist`), and rows in order are a
chosen function from positions to rows (`ByRow`, `InOrder`), which `RowsSort` and its like show to exist:
the folds and sorting of the community modules are recursive operators to the prover,
and stay where nothing is proved about their result (`AppendUnique`, of interfaces).

Only model-checked: liveness (`FramesReturn`, `RequestAnswered`, `HandlerReturns`,
`StopHonoured`, `ExchangeCompletes`), which is beyond the prover.

## 5. What the models found

Two statements of the repository do not hold of the code; each is a run that TLC
ends with a counterexample.
- `Daemon_restart`: `forwarder_stop` clears the running flag and
  `forwarder_init` returns an error while it is clear, so the thread of a full
  restart ends at once while the daemon reports success.
- `WanSlots_added`: `attach_profile_wan_rows` opens a WAN but never calls
  `ne_ring_init` for its rings, which only `forwarder_init` does; their capacity
  is 0, `fwd_wan_has_tx_room` is always false, and the added WAN never carries a
  packet, although the reload is reported as applied.

Cases the models reach or their definitions show, without a run of their own:
- Frames. A worker that chose a WAN before its drain ended pushes a packet after
  the flush, and the frame stays in a ring nobody serves (`PushWan` after `FlushNext`).
- Reloads. A delta whose attach fails has already detached interfaces when
  `main.c:627` reports "running dataplane unchanged". `local_db_equal` in
  `main.c` lacks `== 0`, so two equal LAN tables compare as different
  (`LocalDbEqual`): a policy change alone is a full restart; and since
  `config_db_unchanged` is never true, a repeated notification without any change
  reloads the tuning, and the retry for a transaction not yet visible is never reached.
- WAN slots. `detach_profile_wan_rows` skips a WAN when its old index appears among
  the new rows, so removing the first of two WANs detaches nothing; holes in the
  slots are not reused, so a series of replacements ends in attaches that fail with
  few WANs open; a second reload within the five seconds of a drain forgets it,
  and the WAN is never stopped (`Reset`).
- Flows. `ft->wan_count` is set once, so a flow on a row a reload added has no
  limit and never rotates; a reload that renumbers rows carries the byte count of a
  flow to another WAN; a refused `malloc` returns row 0, offered or not;
  `forwarder_wan.c:207` logs "existing flows migrate, no new flows", but new flows are
  hashed onto draining WANs as well; the unsigned age of a flow seen after the slice read
  the clock is huge, and the flow is collected (`FreshFlowKept` names the case).
  `g_pkt_wrr_seq` is one for all profiles: two without a table, with two WANs of equal
  weight each, whose packets alternate see only even or only odd numbers, and each sends
  them all on one WAN. So no share over the picks of a profile is stated, only
  that each is of an offered WAN. The branch of `fwd_wan_pick_for_local` for packets
  without a flow is never taken: `pick_profile_policy` finds them no policy.
- Fragments. The collection of the L4 table by another worker compares its old
  `now` with a newer time stamp in the same way, and the fresh half is cleared
  (`YoungOnlyByRace` states exactly that case).
- Crypto tables. Whole L2 frames are not recognised between `Clear` and `IndexSlot`,
  so the grace period `main_diag.c:265` announces does not cover them; at L3 and
  L4 the previous tables come second, after an attempt that has already spoiled the packet
  when it fails, so they serve only while the current slot is not ready. A worker
  that chose its policy between `Publish` and `Clear` encrypts with the old context
  under the new id. Ids are given out per profile and may be the same in two
  (the code warns of it).
- Protocols. With CTR the L2 receiver drops whole packets with a TTL of 0 or a protocol
  other than ICMP, IGMP, TCP, UDP, GRE, ESP, AH, ICMPv6, OSPF and SCTP
  (`crypto_layer2.c:270`): the sender encrypts PIM, EIGRP, VRRP or 6in4 all the same, and
  they never arrive, unless they are cut in two, whose receiver has no such check.
- Lengths. A second L2 half under 20 bytes is refused by the receiver, so such a
  packet never arrives; `crypto_layer4_fixup_packet` makes the padding of a short
  frame payload; L4 PQC counts its tag twice in the IP header on the wire; the test for a
  cut leaves that tag out, so whole L4 PQC frames are up to 1508 bytes; a plain
  packet that has the mark of an L3 half in its thirteenth byte is sent as it came.
- Key exchange. A gateway hears its own probes, so two dynamic gateways may both become
  responders, and a fixed initiator may offer to itself for ever. The answer goes to the MAC
  address learnt last and is never repeated: if it is lost, the responder reports
  success alone. After a restart the worker of the other side is gone
  (`thread_started` is never reset), and an offer of the previous process still in the ring
  leaves the two with different keys. All answers are fragments of message id 123, so
  those of two policies mix. Policies that a reload adds are bound, but no worker is
  started for them. Until its exchange is over, a PQC context holds the zero key.

Named exceptions. Where the code does not handle a case, a history variable names
it, and the property holds but for it:
`forwarder_init` overwrites a stop request made after its last test
(`overwritten` in `Daemon`); a delete whose reload fails leaves the profile in
(`unloadFailed`); a reload that was withdrawn or failed after `fwd->cfg` was
switched is not rolled back (`tainted` in `Reload`); after a reload that changes
rows in the middle, positions and slots disagree (`disturbed` in `WanSlots`), and a
drain is then recorded under another interface (`misnamed`). In `Fragment` the
16-bit ids, one counter for all workers, layers and profiles, come round while a
half with the id waits, and two packets are joined (`reused`); the collecting worker
clears the entry worker 0 has in hand, which is then joined empty or from two
packets (`raced`); an L2 entry freed between the place of an id and its waiting half
takes the other half, and the two never meet (`holed`). In `FlowTable` a row became
another WAN (`moved`). In `CryptoRuntime` a reload failed after it published
(`failed`), a grace period was ended by the expiry of the one before (`cut`), and a
packet met a context while it was written (`torn`); `Restorable` and `Refused` name the
packets whose protocol or length the receiver does not take. In `WanPicks` a reload of the packet's own
profile was under way (`overtaken`): its WAN may be detached before the push. In `Pqc` an answer was lost or went
elsewhere, a role was not found out, a process restarted or a worker gave up (`spoiled`).

## 6. Abstractions and what is not modelled

Bytes, ciphers, key schedules and the lattice arithmetic of the exchange are data:
what matters is who has a key and what a wrong one yields. VLAN tags, which only L4
looks at, are left out of `Wire`. Logging and statistics are left out. XDP programs
and the kernel are external steps; one hardware queue per interface stands for several.
Memory orderings weaker than the code's acquire and release pairs, and crashes of
the process other than the restart in `Pqc`, are not modelled: nothing persists but the
database. Queries, their parsing and the connection to PostgreSQL are left out, their
results and failures are not; the LAN rows of an incremental attach follow
the WAN rows with fewer cases and appear only as a cause of failure. In `FlowTable`
the buckets and their locks are one table whose operations are single steps, and the freeing of
a table another worker may still use is not followed. `Pqc` follows one policy, and a
message arrives whole or not at all. Not modelled at all: MAC learning and hardware
addresses (lookup tables), the CPU map and diagnostics (static), XDP programs,
scripts and schema.

## 7. Plan

Done, in order of importance: `BoundedFifo`, `NeRing`, `FramePipeline`, `AtomicReload`, `Reload`,
`ConfigDiff`, `Daemon`, `WanSlots`, `WanPicks`, `Fragment`, `CryptoRuntime` with `DbConfig` and
`Wire`, `Pqc`, `FlowTable`; the proofs of section 4.

Left: several policies in
`Pqc`, with the fragments of their messages; the LAN rows in `WanSlots`; VLAN tags in `Wire`.
