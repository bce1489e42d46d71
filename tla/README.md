# Formal model of the SRTLA output plugin

TLA+ specifications of the parts of the plugin in which several threads, a
network or a long history of user actions decide whether the code is right.
The modules are checked with TLC on small instances (`MC*.tla`, `*.cfg`) and
the safety properties are proved with TLAPS for every value of the constants
(`*Proofs.tla`).  `PROJECT.json` maps each definition to the lines it models and
lists runs, mutants, hazards, findings and theorems.

    tlc -workers 2 -config MCMediaQueue.cfg MCMediaQueue
    tlapm MediaQueueProofs.tla

Paths below are relative to `src/`.

## 1. Inventory of the system

OBS delivers encoded packets to the output; the output muxes them to MPEG-TS,
queues the datagrams and sends them through an SRT session.  The session's UDP
traffic goes, through a libsrt transport hook, into a Rust engine that bonds
several network adapters (SRTLA).  A dock lets the user start and stop, select
adapters and set bitrates; an ABR worker adapts the encoder's bitrate.

| Component | State | Operations | Threads |
|---|---|---|---|
| Media path, `plugin/srtla-output.cpp`, `mpegts-avformat-sink.cpp`, `output-capture-lifecycle.hpp` | `queue`, `queue_bytes`, `drop_until_keyframe`, `needs_muxer_reset`, `running`, `worker_stop` | start, stop, encoded packet, enqueue, send loop, `on_session_status` | control, encoder, worker, connector |
| SRT session, `plugin/srt-session.cpp` | socket handle, `stop`, `connected_`, status | `start`, `stop`, `wait_connected`, `send_ts`, connector loop | control, connector, worker |
| Link administration, `plugin/srtla-dock.cpp`, `engine/src/lib.rs`, `third_party/srtla_send/src/embedded.rs` | four copies of each link's on/off flag, control channel, statistics document | click, adapter refresh, statistics read-back, the runner's select arms | UI, ABR worker, runner |
| Bitrate control, `engine/src/abr.rs`, `engine/src/lib.rs`, `plugin/srtla-output.cpp` | mode, manual value, maximum, controller state, encoder bitrate, remembered original | start, stop, fatal stop, the two dock controls, the ABR iteration | UI, ABR worker |
| MPEG-TS muxer, `plugin/mpegts-avformat-sink.cpp` | format context, AVIO buffer, `pending_`, `healthy_` | `write`, `flush`, `reset`, destructor, the AVIO callback | encoder, UI |
| Lifecycle and fatal errors, `plugin/srtla-output.cpp`, `srtla-dock.cpp`, `srtla-module.cpp`, `engine/src/lib.rs` | `running`, `fatal_signal_queued`, `last_error`, references to the output object, `running_` of the dock | create, start, failed start, stop, destroy, fatal task, engine submit | UI, encoder, ABR worker, connector, libsrt |
| Profile and settings, `plugin/srtla-dock.cpp`, `srtla-output.cpp`, `srtla-websocket.cpp`, `passphrase-store.cpp` | four copies of the settings: profile file, widgets, `settings_`, output | load, save, migrate, start, stop, profile change, restart, edits, websocket requests | UI |
| Engine queues, `engine/src/lib.rs` | two bounded datagram queues | submit, receive | several |
| Dock presentation, network monitors, statistics JSON | widgets, history | presentation and conversion | UI |
| Vendored `srtla-core`, libsrt | sequence tracking, registration, SRT protocol | - | - |

**Interactions.**  The session calls the output back (`on_session_status`) and
mirrors its state into the engine.  The worker calls the session.  The ABR worker
samples the session, calls the engine and writes the encoder.  The dock calls the
output and the engine; websocket requests are executed on the dock's thread.
Fatal errors of the encoder callback, the ABR worker and the connector become
tasks of the UI thread, which stops the output.  The
engine sends commands to its runner over a bounded channel and reads the runner's
state back from a document the runner publishes once a second.

**What is hard.**  Four threads on one queue, some flags of which are set outside
its lock; a stop that joins threads which may be waiting for each other; a socket
handle closed from two threads; reports mirrored to a second component in a
second step; a popped datagram or a computed bitrate that is used after the world
has changed; four copies of one flag kept in step over an asynchronous channel
with a stale read-back; restarts that inherit state; tasks that outlive the run
that queued them; widgets whose handlers run while a profile is being loaded.

**What correct means.**

- Media path: the byte count is exact, the queue is bounded, after a
  hole the stream resumes with a keyframe, stale media is discarded, stop ends.
- Session: each socket is closed exactly once, media moves to a new connection
  only after `Reconnecting` was reported, `Stopped` is final, no failure
  of the network makes an established stream give up.
- Links: nothing is enabled that the user did not check, uplinks obey the
  runner's configuration, a click has effect, the last link stays.
- Muxer: the datagrams are the transport stream, and a new stream starts clean.
- Lifecycle: a fatal error stops the run it belongs to, completely, and no other;
  nothing refers to a deleted object.
- Settings: the output runs with the selected profile, whatever was edited,
  refused, migrated or left over; no secret is lost or leaked to another profile.
- Bitrate: limits hold, manual mode is not disturbed, the encoder is given back as
  it was found, the bitrate falls when the session or every link is down.

## 2. The modules

One action is one region that no other thread can interfere with: a section of a
mutex, an access to an atomic, a library call.  Where a function takes a lock
twice, or writes an atomic after releasing it, it is several actions.

| Module | Models | Instances |
|---|---|---|
| `MediaQueue` | the media path | `MCMediaQueue` |
| `TsMuxer` | the muxer | `MCTsMuxer` |
| `SessionContract` | what the session promises to the media path | (instanced by the next and by `MediaQueue`) |
| `SrtSession` | the session | `MCSrtSession` |
| `OutputLifecycle` | output objects, start, stop, fatal errors | `MCOutputLifecycle` |
| `LinkAdmin` | the four copies of the link flags | `MCLinkAdmin` |
| `BitrateControl` | the encoder's bitrate and the control law | `MCBitrateControl` |
| `DockProfile` | the four copies of the settings | `MCDockProfile` |
| `MediaQueueProofs`, `TsMuxerProofs`, `SrtSessionProofs`, `OutputLifecycleProofs`, `LinkAdminProofs`, `BitrateControlProofs`, `DockProfileProofs` | theorems | - |

### Composition: SessionContract

`SessionContract` has one variable, the session as the output can see it: off,
up, lost, in the Reconnecting callback, waiting.  `MediaQueue` instances it with
its own `sess`, and its connector actions are the contract's: they are
conjunctions of a contract step and what the output's callback does in it.
`SrtSession` implements it: `Visible` maps its state to the contract's, and the
run `session` checks `Contract!Spec` as a property (`KeepsContract`).  What
`MediaQueue` assumes of a send that began before a loss (`MaySucceed`) is the
invariant `SendsWhenAllowed`.

### MediaQueue

`ctl` is the control thread, `encPc` the encoder callback, `wkPc` the worker,
`sess` the connector's view.  `StartSession`, `StartQueue`, `StartRun`,
`StartFail` are the regions of `srtla_output_start` (its catch path is
`StopBegin` ... `StopFinish`: it runs the same teardown).  `EncodedPacket`,
`ApplyReset`, `EmitDatagram`, `Enqueue` follow one packet through
`srtla_output_encoded_packet`: the test of `needs_muxer_reset` and its exchange
are two steps, because two threads set it in between.  A packet
yields any number of datagrams; those emitted while it is being written carry its
keyframe flag, the one `flush` emits does not.  A reset may discard bytes that the
muxer still holds, which leaves a hole in `seq`.  `ReconnectingClear` and
`ReconnectingMark` are the locked and the unlocked half of the status
callback, `FailureClear` and `FailureMark` those of a failed send.

Abstractions: a datagram has a size, a keyframe flag, a presentation time and
history fields (`seq` position in the muxer's output, `off` accepted bytes before
it, `epoch` reconnects before it, `opens`).  `opener` says what will open the next
section of the muxer's output and is noted in the section's first datagram: a
keyframe that applied the reset (`key`), a delta that passed the test of
`needs_muxer_reset` before the flag was set and then took the reset (`stolen`), or
the first packet of a run.  The keyframe flag is the tag `enqueue_datagram` sees;
whose bytes libavformat has put under it is not distinguished.  Audio packets are
covered by the keyframe flag taking any value.  Time is the number of packets;
presentation times run ahead by at most `Reorder`.

### SrtSession

`pc` walks the connector's loop: resolve, create, publish the handle, test
`stop`, options, connect, handshake, monitor, lost, close, back-off.  `set_status`
is two steps: the status and the output's callback, then (`Mirror`) the engine.
`CloseSocket` and `CloseCurrentSocket` keep the code's order, claim the handle and
then close it.  `CallBegin` is the test of `connected_` in `send_ts` and
`sample_stats`, `Send` and `SampleStats` their locked halves.  `TransportBegin` and
`TransportEnd` bracket a transport callback of libsrt, which uses `Impl`;
`srt_close` waits for it.  libsrt is external: `Establish`, `Break`, `SrtClose`.  `StartFails` covers
rejected settings (`stop` not set) and a thread that cannot be created (`stop`
set).  A `Fatal` that the connector reports because `stop()` closed its socket
during the options is a behaviour of the code and of the model; it is harmless, as `Stopped`
follows.

### TsMuxer

A unit is the smallest piece of transport stream.  `Mux` is the whole of `write`:
the context if there is none, then the packet, which libavformat may hold back
to interleave the streams (`Released`) and makes one to `MaxUnits` units of
each (`Muxed`), and a callback with any part of the AVIO buffer.  `ok = FALSE` is a write error in the middle of it.  `Reject` is a packet
that is refused while the sink stays healthy, `StartFails` a context that cannot
be set up.  `Flush` follows every successful write, as in the encoder callback.
`Reset` destroys the context silently; the destructor (`Restart`) writes a trailer,
which the output drops because `running` is false by then.  `Full`, `Rest` and
`Partial` are `emit_datagrams`.

### OutputLifecycle

`ui` is the UI thread inside a start or a stop; between two of its steps the
three threads of the `host`, the object whose engine and session are active,
may act.  `Toggle` is the dock's `toggleOutput` up to the call of
`obs_output_start`; `StartRefused` ... `StartDone` are the regions of
`srtla_output_start`, `StartUndo` and `UndoFinish` its catch.  `StopOutput`,
`StopSignal`, `StopFinish` are `srtla_output_stop` for any reason (button,
request, profile change, another output that needs the encoder), `RunTask` is
`signal_fatal_output_on_ui`.  `queue_fatal_output` is three steps of each
thread: the test of `running`, `Claim`, `Post` or `PostFails`.  The connector
reports to the output first and to the engine second (`EngineTold`), as
`set_status` does.  `Submit` leaves in `lastError` what a submission leaves there.
An encoder without dynamic bitrate, and which adapter fails, make no difference
here; `runner` becoming false stands for a runner that has ended.

### LinkAdmin

`selected` (dock), `cfg`/`cfgOn` (engine), `rLinks`/`rOn` (runner) and
`conns`/`connOn` (uplinks) are the four copies; `control` is the channel and
`published` the document.  `Toggle` is the whole of `srtla_engine_set_link_enabled`
with what the dock does about its answer; `RefreshAdapters` is the dock's
timer; `SyncRunnerStats` is the read-back; `HandleSetLink`, `HandleUpdateLinks` and
`Housekeeping` are arms of the runner's select loop.  Creating a connection may
fail or time out for any subset of the new ones.  Each adapter has one address.

### BitrateControl

`ui` is the UI thread: `"cap"` and `"set"` are the places inside
`bitrate_mutex` where it calls the engine.  `AbrWake`, `ApplyAbr`, `WriteEncoder`
are an iteration of the ABR worker: the target is computed before the mutex is
taken.  `Adjust` is the control law of `abr.rs`.  Bitrates are whole
kb/s; the engine's bit/s values are multiples of 1000, so its divisions are
exact here.  The four congestion tests, which compare floating-point averages,
have any outcome; the pacing intervals are the two flags `incDue` and `decDue`
that `TimePasses` may set.  Sampling the session and storing the sample are one
step, which leaves out a worker that stalls for more than a second between the two.
After a fatal stop the dock still believes the output is running, as in the code;
`own` then counts a manual bitrate set in that state as the encoder's own.

### DockProfile

Texts are model values; `Unusable` are those whose length libsrt refuses.  A
profile's URL is its query, with the fields that `parse_legacy_url` finds.
`Loaded` is what `loadProfile` puts into the widgets, including what the
`textChanged` handler does to `secret_error_` meanwhile (`SecretErrorAfter`);
`Migrated` is its end, where an old URL is replaced.  `StartOutput` saves the
profile, assembles `settings_`, creates or updates the output (`Normalized`,
`Configured`) and starts it.  `Restart` is the end or a crash of OBS: only the
profile files survive.  `Answers` and `MaxAnswers` are the answers that the two
bitrate functions of the output can give; each handler of the dock and each
websocket request treats a refusal in its own way.  Profiles are found in one of
five forms (`MCFound`): saved by this version, old with everything in the URL,
the same with a passphrase that cannot be saved, DPAPI, and DPAPI with a URL.
A query value that is present but empty differs from one that is absent (`Absent`):
it overwrites the field.  One of the old forms has an empty stream id.  Latencies
are those that the dock saves, within the range to which create and update clamp them,
so that the clamp changes nothing.  Host, key length and encoder choice follow the
same path as latency and are left out.

## 3. What is checked

| Run | Properties | What it shows |
|---|---|---|
| `queue` | `TypeOK`, `QueueLedger`, `QueueBounded` | The byte count is exact through two starts, an outage, overflow, failed sends, and a stop that meets every thread anywhere.  It would not be if `end()` did not wait for the encoder callback, since start does not reset `queue_bytes`.  The byte limit is strict; the duration limit holds up to the encoder's reordering distance, because the code compares with the oldest datagram only. |
| `queue_stream` | `NoSplice`, `StaleAtMostOne`, `StopCompletes` | A datagram that does not continue the one sent before it is tagged as keyframe or opens a section that a keyframe began.  Two exceptions of the code are named in the property: a section opened by a delta that took the reset, and what follows a rejected packet.  Also: of the media queued before a reconnect at most the one datagram in the worker's hand is sent after it; `srtla_output_stop` ends. |
| `muxer` | `TypeOK`, `StreamIntact`, `NewContextOnly`, `NothingStuck` | Whatever libavformat holds back or calls back with, no unit is lost, repeated or reordered within a context, nothing of an old context follows a reset or a restart, and nothing waits for the next packet. |
| `session` | `TypeOK`, `ClosedOnce`, `NoSocketLeak`, `ReconnectsIndefinitely`, `SendsWhenAllowed`, `CallbacksEnd`, `ToldBeforeResume`, `StoppedIsFinal`, `KeepsContract`, `StopReturns` | Socket ownership, reports and callbacks with `stop()` at every point of the connector's loop; `stop()` joins the connector wherever it is; the connector gives up only when it is stopped or cannot create or set up a local socket; the session implements `SessionContract`. |
| `lifecycle` | `TypeOK`, `NothingSurvives`, `NoDangling`, `OwnErrorOnly`, `FatalErrorStops` | Errors of three threads against starts, failed starts, stops and late tasks: between two UI events engine, session and threads exist only for a running output; no task or thread refers to a deleted object; a task stops no other run than its own (excepted is an object started again when every start since the task was queued had failed); a dead session or runner stops the output even if its report was dropped or its error overwritten. |
| `links` | `TypeOK`, `NewLinksOptIn`, `AdminStateApplied` | Clicks, plugging, timers, restarts in any order never enable an unchecked adapter, and every connection carries its link's flag. |
| `bitrate` | `TypeOK`, `ManualHolds`, `RestoredWhenStopped`, `CapIsRepaired`, `FallsToMinimum` | The worker's late writes never disturb manual mode and never follow the restoration of the encoder's bitrate; an encoder above a lowered maximum is brought down by a later round, and a lost session, or the loss of every link, brings it to the minimum. |
| `profile` | `TypeOK`, `RunsItsProfile`, `LinksAreScoped`, `ControlsAgree`, `NormalizingKeepsSecrets`, `MigrationKeepsFields` | Edits, requests, refusals, starts, profile changes and crashes in any order: an existing output has the selected profile's credentials, check marks do not leak between profiles, widgets, `settings_` and output agree, no mixture of passphrase fields loses or exposes one, and the fields of a migrated URL are stored with the migration (not those of a profile whose only passphrase is a DPAPI value: the code drops them from the profile and keeps them in the widgets). |

Four runs expect a violation; each shows that the code does not do what the
repository says of it.

| Run | Property | Statement | What happens |
|---|---|---|---|
| `fresh_tables` | `ResumeWithFreshTables` | `README.md:34-36` "MPEG-TS resumes with fresh tables at the next keyframe" | A report between two datagrams of one keyframe: the second one, also tagged as keyframe, ends the drop phase without tables. |
| `last_link` | `LastLinkStays` | `README.md:25-26` "the last enabled link cannot be disabled" | A statistics document older than a click reverts the engine's flag, and the next adapter refresh sends the reverted flag to the runner.  The guards count enabled links in copies that may be stale, and `UpdateLinks` has no guard. |
| `active_means_running` | `ActiveMeansRunning` | `README.md:58`, `:74-75` on `SetOutputActive` and its answer | The fatal task stops the output without telling the dock; `running_` stays set, and a request to start is answered with success although nothing runs. |
| `dpapi` | `DpapiIsPreserved` | `plugin/srtla-output.cpp:262-264` "deliberately rejected rather than guessed at or silently discarded" | On a change of profile, emptying the passphrase field runs its handler, which resets `secret_error_`; the next save overwrites the DPAPI value. |

### Bounds

`MaxPackets`, `MaxDatagrams`, `MaxReconnects`, `MaxRuns`, `MaxSections`,
`MaxSockets`, `MaxSessions`, `MaxObjects`, `MaxToggles`, `MaxPlugs`, `MaxStarts`,
`MaxChanges` and `MaxEdits` cap counters in guards.  They are chosen so that the cases the properties speak of happen:

- queue: two starts, because the count survives a restart; a limit that two
  datagrams fill; sizes 1 and 2; an outage; presentation times one step ahead and
  a duration limit of one.  Splices need a hole and what follows it: three packets,
  three datagrams and an outage, in a run of its own.
- muxer: datagrams of two units, packets of one to three (`MaxUnits`), audio and
  video, five packets (interleaving holds some back), three contexts.
- lifecycle: two objects and three starts, so that a start fails and is repeated on
  the same object, and a task of one run meets the next.
- profile: two profiles, each found in any of the five forms, and three edits or
  requests: enough to change a field, be refused, and change another.
- session: two sessions and four sockets, so that a session reconnects more than
  once and another one follows.
- links: two adapters (one may be the last), a channel of two messages (it fills),
  three clicks, two plug events, two starts.
- bitrate: maxima below and above the original, manual values at the minimum and
  above every maximum, two changes (a switch of mode and a new maximum in one run).

That actions are reached, and that the properties depend on the code, is shown by
the mutants of `PROJECT.json`: each is a plausible slip (a join left out, a
guard dropped, a size counted twice) that breaks its property under the run's own
configuration.  Deadlock is checked for `DockProfile`, whose user can always do
something; elsewhere it is not, as with the counters used up and the output
stopped nothing is left to do.

### Fairness

Only what the scheduler owes a thread that can go on: a stop, a callback, a worker
iteration, the connector's loop, a UI operation that has begun, a queued UI task.
Library calls return; waits with a time limit end.  Nothing is assumed of the
user, the network, the muxer's output or the congestion tests.  In
`BitrateControl` weak fairness suffices for the worker to get `bitrate_mutex`
because the number of changes of the controls is bounded.  In `SrtSession`
`srt_close` waits for a transport callback that returns within 10 ms but may begin
again: strong fairness of the two closes says that the close gets its turn, which
`CChannel::close` guarantees: it admits no new callback before it waits.  In `OutputLifecycle` strong fairness
of `Post` says that memory for a task is not refused for ever, and weak fairness of
`Submit` that an open session keeps sending (libsrt has keep-alives).

## 4. What is proved

The theorems hold for every value of the constants under the assumptions named
in the modules, which say that bounds are naturals and that sizes and scales are
not zero (`MediaQueueAssumption`, `MuxerAssumption`, `SrtSessionAssumption`,
`LifecycleAssumption`, `LinkAdminAssumption`, `BitrateAssumption`, where also
every maximum is at least the minimum), and what kind of values texts, latencies
and bitrates are (`ProfileAssumption`; its last conjunct says that a null pointer
is not an object).  The bounds on packets, starts, sockets and so on are
constants too: nothing depends on how large they are.

Each module proves that its inductive invariant holds initially and that every
action keeps it, one lemma per conjunct or per group of actions; the theorems
follow.  The invariants were checked with TLC before.

- **`MediaQueueProofs`**: `TypeCorrect`, `LedgerCorrect`, `BoundCorrect`,
  `StaleCorrect`, from `IInv`.  `QueueLedger` is not inductive: a restart clears
  the deque and not the count, so `Phases` says that a stopped output has an
  empty queue and nobody left to fill it.  `QueueBounded` needs `Ordered`:
  presentation times follow the decode clock to within `Reorder`.
  `StaleAtMostOne` needs `Current`: what is queued was queued after the last
  report, and a stale datagram in hand is the first one sent after it.
  `QueueLedger` states the sum of the sizes by the offsets of the datagrams in
  the accepted byte stream, which avoids an induction over the queue.
  `SpliceCorrect` (`NoSplice`) rests on `IInv` and `Continuous`, which follows the
  stream from the muxer over the queue and the worker's hand to the session: each
  datagram follows its predecessor, and where a place was lost there is a drop
  phase, a failed send not yet cleared, a muxer that is broken or about to
  be reset, or a next datagram that will open a section after a reset.  This is where the order of the two flags in the failure path and
  in the status callback matters.
- **`SrtSessionProofs`**: `SessionTypeCorrect`, `ClosedOnceCorrect`,
  `NoLeakCorrect`, `ReconnectCorrect`, `CallbacksEndCorrect`, `SendsCorrect`,
  `StoppedCorrect`, `ToldCorrect`, and the refinement `ContractCorrect`, from
  `SInv`.  `Phases` relates the control thread and the connector; `Sockets` says
  that the only open socket is the connector's, published or about to be;
  `Reports` what the flags and the status say of the place of the connector;
  `Told` that a connection that carried media is not left without a report unless
  the session is ending.  With it every step maps to a step of `SessionContract`
  or leaves `Visible` alone.  `ReconnectCorrect` is an action property: it says
  where `Fatal` may come from (the creation and set-up of a socket, also when an
  established stream reconnects, or a failed start) and that nothing else but
  `stop()` ends the connector.  Together with `MediaQueueProofs`, which uses the
  session only through the contract, this closes the composition.
- **`OutputLifecycleProofs`**: `LifecycleTypeCorrect`, `SurvivesCorrect`,
  `DanglingCorrect`, `OwnErrorCorrect`, from `OInv`.  `NoDangling` needs the exact
  count (`RefsCounted`): the references of an object are the dock's, the pending
  tasks' and the running task's.  `PendingPost` and `PendingRun` count the tasks of
  an object when one is queued or taken.  `Phases` says what exists in which phase
  of a start or stop, `Causes` that a task for the dock's object comes from this
  start or from one since which every start failed (`FailedSince`); `OwnErrorOnly`
  makes the same exception, because `start` keeps its object when it fails.
- **`LinkAdminProofs`**: `LinkTypeCorrect`, `OptInCorrect`, `AdminStateCorrect`,
  from `LInv`.  The properties are inductive only with what is in flight: every
  message enables only links it configures, and the check boxes are approved (a
  start copies them).
- **`BitrateControlProofs`**: `BitrateTypeCorrect`, `ManualCorrect`,
  `RestoreCorrect`, from `BInv`.  Restoration needs to know that
  outside a run there is no worker (`Quiet`), that the original is remembered
  during one (`Remembered`), and where the UI thread can be (`Stages`).
- **`DockProfileProofs`**: `ProfileTypeCorrect`, `LinksCorrect`,
  `RunsItsProfileCorrect`, `ControlsCorrect`, from `DInv`, their conjunction: the
  properties support each other and need nothing else.  `SecretsCorrect`
  (`NormalizingKeepsSecrets`) follows from lemmas on `Normalized`
  (`NormalizedFields`, and `NormalizedTwice`: repeating it changes nothing).
  `MigrationCorrect` is the action property `MigrationKeepsFields`, with its
  exception for profiles that only have a DPAPI passphrase.
- **`TsMuxerProofs`**: `MuxerTypeCorrect`, `StreamCorrect`, `NewContextCorrect`,
  `NothingStuckCorrect`, from `MInv`.  `Buffered` says that `pending_` and the AVIO
  buffer are the last units of the context, `Joined` that what was sent ends where
  they begin.  `FullFacts`, `RestFacts` and `FlushFacts` are about `emit_datagrams`: the
  full datagrams, the partial one and the rest are the buffer, cut at multiples of
  the datagram size.  `Emission` and `Delivery` append such datagrams to an intact
  stream.

Only model-checked: the liveness properties `StopCompletes`, `StopReturns`,
`FatalErrorStops`, `CapIsRepaired` and `FallsToMinimum`, because fairness and
`ENABLED` are beyond the prover, and the four runs that expect a violation.
Hazards without a property (`PROJECT.json`): a delta's bytes under a keyframe's tag,
the copies of the link flags after a full control channel, and a request that meets
an unloading module; each says why.
No proof needs an induction over data, which is out of reach as well: sums and
streams are stated by offsets and neighbours instead of recursively.

## 5. Not modelled

- Floating-point averages and thresholds of `abr.rs`: any outcome instead.
- Contents and order of the engine's datagram queues; only the errors that a
  submission leaves are modelled.
- libavformat and the container syntax; libsrt; `srtla-core` (vendored, with its
  own tests): external events or left out.
- The hand-over of a websocket request from its thread to the dock, and the
  registration of the requests: whether a request can meet an unloading module
  depends on obs-websocket, which is not in the repository.
- The choice of encoders in `toggleOutput` and the references its early returns
  release or keep; endpoint parsing and URL decoding.
- Adapter table, history, sparklines, status texts, statistics JSON, adapter
  enumeration: presentation, conversion or operating system calls without
  concurrent state.

## 6. Plan

Done, in order of importance: `MediaQueue`, `SrtSession`, `LinkAdmin`,
`BitrateControl` with their first proofs; then `SessionContract` and the
refinement, `OutputLifecycle`, `TsMuxer`, `DockProfile`; then the proofs of
section 4, which cover every safety property and action property of the passing
runs.  What remains:

1. Proofs that say more than a run's property: the maximum in force and the
   steps of the control law (`BitrateControl`); that a click reaches the uplinks
   unless a later one or a restart overtakes it (`LinkAdmin`).
2. Finer modelling: the ABR sample taken before and stored after a session
   change; receive and the order of the engine's queues.
