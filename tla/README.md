# ClimateNode: a TLA+ model of the gateway, its peer and their protocols

ClimateNode is two Zephyr firmwares. The *gateway* (node 1) has a sensor, a CAN
bus and an Ethernet port; it speaks MQTT for itself and, over a second session,
for the *peer* (node 2), which has a sensor and the CAN bus only. Everything
that is hard to get right lies between them: three threads of the gateway that
share latest-wins channels, a semaphore and a pool of four buffers; command
round trips over a lossy bus with a timeout; a heartbeat that decides what a
retained topic says; two MQTT sessions in one poll loop; and duplicate
suppression under QoS 1.

This directory holds the modules that describe these parts, the configurations
with which TLC checks them, and proofs of what holds for every value of the
constants. All file references are to the repository's sources.

## 1. The system

### Components

| Component | Source | State | Operations |
|---|---|---|---|
| Gateway main(): MQTT sessions | `gateway/src/main.cpp:355-870` | per session: `state`, `connected`, `connect_failed`, `backoff_ms`, `retry_at`, `connack_due`, the client with its will | `session_connect`, `session_serving`, `session_drop`, `mqtt_evt_handler`, `next_deadline_ms`, the poll loop |
| Gateway main(): bus to broker and back | `gateway/src/main.cpp` | four eventfds | `forward_to_peer`, `publish_relayed`, `publish_relayed_status`, `publish_pending_telemetry`, `handle_incoming_publish` |
| Relay: command round trip | `gateway/src/relay.cpp`, `relay.h` | `ack_received`, `relay_cmd_sub`'s FIFO, `chan_relay_ack`, `chan_relay_telemetry` | `tx_thread`, the receiving half of `rx_thread`, `publish_up`, `handle_relayed`, `send_synthetic_ack` |
| Relay: peer liveness | `gateway/src/relay.cpp`, `relay.h` | `heartbeat_q`, `struct liveness`, `chan_relay_status` | `heartbeat_isr`, `drain_heartbeats`, `liveness_step`, `publish_status` |
| Command handling | `shared/commands.cpp` (both nodes) | `have_last_command`, `last_command_sequence` | `handle_command`, `apply_command`, `forward_to_sensor` |
| Sensor thread | `gateway/src/sensor.cpp`, `peer-node/src/sensor.cpp` | `period_ms`, `last_sample`, `sensor_cmd_sub`'s FIFO | `sensor_thread`, `read_scd40` |
| Peer main(): heartbeat sender, link state | `peer-node/src/main.cpp` | `beats_in_flight`, `last_beat_error`, `link_up`, `tx_retry_at`, the backoff, `next_beat`, `telemetry_pending` | `send_heartbeat`, `heartbeat_sent`, `note_link`, `handle_incoming`, the loop |
| CAN address map, heartbeat layout | `shared/can_link.h` | none | identifiers computed from node ids |
| Protocol encoding | `shared/protocol.cpp` | none | protobuf in and out |
| Host tools | `host/` | none | a command-line client and a printer |

### How they interact

- **Shared state.** `rx_thread`, `tx_thread` and `main()` meet on zbus channels.
  A publication locks the channel, *overwrites its value, and only then* needs a
  buffer to notify anybody (`docs/zbus-design.md:37`); a publication to a
  message subscriber needs a second buffer for the copy that waits in the FIFO.
  All of it comes from one pool: four buffers on the gateway
  (`gateway/prj.conf:116`), two on the peer (`peer-node/prj.conf:62`).
- **Wake-ups.** A listener writes an eventfd; `main()` has it in its poll set
  only while the session it belongs to is served. Reading the eventfd clears the
  counter, then the channel is read: what is read may be newer than what was
  signalled.
- **Messages.** Commands go MQTT → `main()` → `chan_relay_command` → `tx_thread`
  → ISO-TP → peer; Acks and readings come back ISO-TP → `rx_thread` → channel →
  eventfd → `main()` → MQTT. Heartbeats are raw CAN frames an interrupt queues.
- **Time.** `kAckWaitMs` bounds the wait for an Ack, `kHeartbeatTimeoutMs` the
  silence of a peer, `kConnackTimeoutMs` the wait for a CONNACK, the backoff the
  time between connection attempts.

### What is hard, and what would make it correct

| Component | Hard behaviour | Correct means |
|---|---|---|
| Round trip | late Acks, a full pool, an Ack overwritten on its channel, a session that is down | every command is answered, once, truthfully; a wait ends by its own Ack; nobody waits for ever |
| Liveness | granularity of the poll, a queue that drops the newest frame, a restart with a stale retained topic, a failed announcement | no false alarm within the tolerated gap; a dead peer noticed in bounded time; the retained topic follows the decision |
| Sessions | a TCP connection that is gone unnoticed, three places of a pass that drop a session, wills, blocking connects, deadlines against a stale `now` | retained status correct for any subscriber; attempts spaced by the backoff; one session cannot starve the other |
| Commands | QoS 1 redelivery, a refused command that is repeated, a restart | at most one execution; an OK is true; no accepted command lost or overtaken |
| Sensor thread | commands that re-base the cadence | intervals and triggers are neither collapsed nor overtaken; the period is kept |
| Peer main() | an interrupt that races the loop on `beats_in_flight`; failures of heartbeats that push telemetry's backoff; a stall of the loop; a reading published between the semaphore and the channel | the count is right; beats keep their pace; a dead bus and a healthy gateway are each noticed in bounded time |
| Address map, heartbeat layout | two contexts on one identifier, a state or a word that does not survive the eight bytes | each frame has one listener; unpacking undoes packing |

`PROJECT.json` lists each hazard at its line, with the properties that cover it.

## 2. Modules

| Module | Models | Read with |
|---|---|---|
| `Relay` | the command round trip: tx_thread, rx_thread, the peer's answer, `main()`'s forwarding and publishing | `gateway/src/relay.cpp`, `main.cpp` |
| `MCRelay` | `Relay` for TLC, and `EagerSpec`, a scheduling in which `main()` is as prompt as its priority | |
| `RoundTrip` | what the relay promises of a command, without threads, channels or buffers; `Relay` implements it | `gateway/src/relay.h` |
| `RelayProofs` | types, and that only the truth is published | |
| `RelayPromptProofs` | what holds under the premise of `kAckWaitMs`: serial round trips, answers, the refinement of `RoundTrip` | |
| `PeerLiveness`, `PeerLivenessProofs` | from the heartbeat frame to the retained `node/2/status`; all of its safety properties proved | `gateway/src/relay.cpp`, `relay.h`, `main.cpp` |
| `Commands`, `CommandsProofs` | `handle_command()`, the channel to the sensor thread and the sensor thread's loop in time; all of its properties proved | `shared/commands.cpp`, `shared/app_channels.h`, both `sensor.cpp` |
| `Sessions`, `SessionsProofs` | both MQTT sessions in `main()`'s loop, the network, the broker and its wills; all of its safety properties proved | `gateway/src/main.cpp` |
| `PeerLink`, `PeerLinkProofs` | the peer's loop, the interrupt and the sensor thread that meet it, and its view of the link; all of its safety properties proved | `peer-node/src/main.cpp` |
| `Presence`, `PresenceProofs` | both nodes: `PeerLink` and `PeerLiveness` on one bus and one clock, from the link to what a subscriber reads; theorems, no run | `peer-node/src/main.cpp`, `gateway/src/relay.cpp`, `shared/can_link.h` |
| `CanLink`, `CanLinkProofs` | identifiers, filters, frames, the heartbeat's bytes: definitions and theorems, no state | `shared/can_link.h` |

`PROJECT.json` ("map") gives for each definition the lines it stands for.
Variables and operators carry the source's names where TLA+ allows it
(`ack_received`, `evt_fd`, `last_seen_ms`, `have_last_command`, `SessionServing`
for `session_serving()`). An operator whose name ends in `_Something` and whose
comment begins with "Fault:" is a variant with a plausible bug. No specification
uses it; putting one in the place of the definition it follows shows that the
property named with it in `PROJECT.json` really depends on that definition.

### Relay

A command is its sequence number; an Ack is `[chan, seq, by]`: which command, and
*who says so*, the peer, the relay (`send_synthetic_ack`) or `main()` ("relay
busy"). The author is what the properties tell apart, and neither the text nor
the encoding.

- `pc["tx"]`: `wait_msg` → `send` → `ack_wait` → `wait_msg`, or via `lock` and
  `notify` when tx_thread answers itself. `pc["rx"]`: `recv` → `lock` → `notify`
  → (`give` →) `recv`. The steps of a publication are `PubWrite`,
  `PubLockTimeout`, `PubNotify` and `PubNoSlot`: the value is overwritten in the
  first and signalled in the third, so that a failure between the two is visible.
- `lock` is the mutex of each channel; `SlotsUsed` counts the pool. A
  publication to a listener has its buffer back at once, so only the queue of
  `relay_cmd_sub` and `main()`'s own half-finished publication hold any. The gateway's own sensor commands share
  the pool; a smaller `PoolSlots` stands for a pool they have taken from.
- `main_pc` is `boot` until the eventfds exist (they are −1 before, and the
  listener then writes nothing).
- `down` and `up` are the bus. A peer that executes may still fail to answer
  (`PeerAnswers`), and a send that reports failure may have delivered
  (`TxSendFails`).
- Time is abstract: a timed wait may end whenever what it waits for is not
  there. `Prompt = TRUE` is a premise of two parts: the wait for an Ack ends only
  when no answer is on its way, which is what the comment on `kAckWaitMs` expects
  (`relay.cpp:65-67`), and a command whose send was reported failed has not
  reached the peer, as tx_thread takes for granted when it answers for it
  (`relay.cpp:351-357`). The code enforces neither; without `Prompt` both happen,
  and `relay_late` shows what follows. What is said "under the premise" below
  does not cover the hazards of the late Ack and of the second verdict: it says
  what holds where they do not arise.
- `isotp_send()` is one step (`TxSend`, `TxSendFails`), so it is *assumed to end*.
  On a bus where nobody acknowledges, the controller repeats the only or first
  frame of a transfer for ever (`docs/can-bringup.md:173-175`), and
  `isotp_send()` blocks until the transfer is over (`:142`). That the ISO-TP
  library gives it up by a timeout of its own (the `ISOTP_N_TIMEOUT_A` and `_BS` the code expects,
  `peer-node/src/main.cpp:216-224`) is an assumption about the library that
  nothing under `src/` confirms. `CommandsDrain` rests on it; the safety
  properties do not.
- `MainReadTimeout` lets `main()` fail to get a channel's lock any time it is
  held. The code waits for it first; the model allows more than the code does.

Left out: a payload with an unknown type or a wrong length is logged and changes
nothing.

### PeerLiveness

Time is a number of ticks; `rx_due` is when `rx_thread` returns from its present
wait, and a tick (`Clock`) does not overrun it. The peer is `beating`, `foreign`
(a layout this gateway cannot decode) or `silent`. A beating peer's beats are at
most `MaxGap` apart, which is how lost beats are modelled: `Tick` waits for the
next one, and `Presence` shows that the peer's loop never lets it wait. There is
no bound on how close they are: after a stall the peer's loop sends the beats it
missed in a burst. `last_seen_ms` is taken at the drain, as in the code. `RxStep`
is `drain_heartbeats` and `liveness_step`; `RxAnnounce` is `publish_status`,
whose notification may fail after the value was written. `MainReadFd`, `MainRead`
and `MainPublish` are the three steps of `publish_relayed_status`; the read may
fail, and the signal it was for is then spent (`missed`, as after a failed
notification); `MainServes`
is what `session_serving` announces. `Reboot` is a restart: RAM is lost, the
broker's retained topic is not, and neither is the peer.

The depth of the queue is justified in the code by the length of one iteration
(`relay.cpp:104-107`); here that is the assumption `Poll + 2 * PubWait <
QueueDepth`. It is needed for frames that do not decode, of which at most one
comes a tick (`last_foreign`): they may not fill the queue before the first beat.
Bursts of beats may overflow it; the proofs show that a full queue then holds a
beat, so that dropping the newest loses nothing.

### Presence

Both halves of the heartbeat's way, instantiated as they are and joined at the
bus. `Tick` moves both clocks; `BeatArrives` is the frame leaving the peer's
mailbox (`heartbeat_sent`) and entering the gateway's queue (`heartbeat_isr`) at
once; `BusChanges` and `PeerRestarts` silence the peer for the gateway; the other
actions are either node's own. Two things the halves leave open are settled here:
the gateway's clock no longer waits for a beat, and a peer beats exactly when the
bus acknowledges it. The latter is the code's: there are two nodes, so the bus
acknowledges while the gateway's controller runs, and `rx_thread` starts it and
sets the filter for heartbeats one after the other (`relay.cpp:241-257`).
`link_since` is a history variable.

There is no run of `Presence`: its states are the product of the two halves',
3.8 and 0.8 million on the bounds below. Its properties are proved, from what is
proved of either half.

### RoundTrip

The abstract specification of the round trip, in six variables: how many
commands were decided on, those waiting, the one in hand, those executed, those
given up, and what the host has been told. `Relay` implements it when no Ack is
late, under the mapping at the end of `Relay`'s properties: a command counts as
decided once `main()` is through with it (`Decided`), is in hand from the send
to the end of the wait (`InTurn`), and the host is told what is on the wire
(`Verdicts`). An Ack that is published twice is one verdict; the same command
answered by another author is a second one, which `RoundTrip` does not allow.

### Commands

The host sends `NCmds` commands with increasing sequences; the command at the
head of the stream may be delivered again before the next one is. That is QoS 1
redelivery and also the host that repeats a command after reading its Ack. A
payload that decodes to no command is `malformed`: it is answered, with sequence
0, and is not remembered. `HandleCommand` is the whole of `handle_command()`:
duplicate test, application, and the sequence recorded *whatever* the
application returned. `forward_to_sensor` has its three outcomes: the validator
refuses (`-ENOMSG`), the pool has no room, or the command waits in
`sensor_cmd_sub`.

The sensor thread is `sample` → `check` → `wait`, in ticks. `age` is the time
since `last_sample`; `left` is the timeout of the wait in progress, computed in
`check` and *not* adjusted when a command comes, which is why the code goes back
to `check`. A tick passes only while the thread waits: what it does between two
waits takes less than one.

### PeerLink

The peer's `main()` is one thread, and each place where something can come
between two of its steps is a value of `pc`. `send_heartbeat` has four:
`can_send()` (`can_send`), the increment of `beats_in_flight` (`count`), and the
two reads the verdict is made of (`error`, `verdict`). The driver's interrupt
`HeartbeatSent` may come at any of them, also before the increment: the count is
then −1 for a step. `take` and `read` are the semaphore and the channel, with
the sensor thread's `Publish` in between. `answer` and `telemetry` are transfers
that are failing: they take up to `SendTimeout`, during which nobody beats. That
a transfer ends by then also where nobody acknowledges its first frame
(`TransferFails`) is the assumption about the ISO-TP library made for `Relay`.
A command can be received on such a bus too: one that was queued before the bus
went (`RecvCommand`), and its Ack is then the first transfer to fail.

Deadlines are times left: `due` is `next_beat − now` and goes negative while
the loop is held up, by two failing transfers at most; `retry_in` is what is
left until `tx_retry_at`. `bus` is what is at the other end: frames are
acknowledged, or not (`alone`), or the controller is `off`; `responding` is
whether the gateway takes part in transfers, which it may fail to do on a bus
that acknowledges. `hb_state` tells which reading the heartbeat's state is of. `Restart` starts the
peer anew, from any place of the loop and whatever is in the mailboxes.
The history variables measure spells for the properties: how long the bus has
acknowledged without a beat (`silence`), the gateway has been healthy (`calm`),
the loop has had a reason to take the bus for dead (`unheard`).

`zbus_chan_read()`'s 50 ms are not used up here: the only other user of the
channel's lock is a publication of the sensor thread, which does not wait while
it holds it. What the peer does with a command is `Commands`, and what its answer
means to the gateway is `Relay`.

What the model shows of this loop, besides the properties:

- After a stall the missed beats go out in a burst, and the second of it finds
  the first still in its mailbox: on a healthy bus it is answered `-EBUSY` and
  the link reads as failing until the next beat.
- An interrupt between the two reads of the verdict joins an old error to a new
  count, or a count that has just dropped to an error read before: one verdict
  may be "up" on a dead bus. `DeadIsNoticed` therefore counts from the last such
  interrupt.
- The first beat after a spell in which none completed has no error to report,
  and reads as "up".

### CanLink

Pure definitions: the identifiers as functions of a node id, the set of
acceptance filters each end installs with the context each belongs to, the set
of frames each end sends with the context it is meant for, and the heartbeat's
bytes. There is nothing to run; the theorems are about every peer the map can
express (the build has one, `kPeerNodeId = 2`) and every value of the fields.

### Sessions

One pass of `main()` is `connect` → `poll` → `input` → `handle` → `publish`, each
for one session after the other (`turn`). `sock` is what TCP knows: `open`,
`broken` (the connection is gone and nobody knows), `reset` (the next call
fails). `pipe` is what the broker has yet to process, with `cut` for the end of
a connection that said no DISCONNECT; the broker answers a `cut` with the will.
A status can also fail to be announced without anyone noticing, in four ways:
`publish_status()` writes the channel and then finds no buffer to signal with
(`relay.cpp:151-154`, in `Produce`); `publish_relayed_status()` has cleared the
eventfd and cannot read the channel (`main.cpp:631-634`, in `Publish`);
`session_serving()` cannot read it; or its publication fails, and the result is
not looked at (`main.cpp:701-706`, both in `MissStatus`). `missed` is history: it
says that the last attempt for a session went this way, and is taken back by the
next one that does not. `Lossy` is the set of sessions to which it may happen; a
failure of a publication that makes the library close the connection is
`NetworkBreaks`.
`Crash` takes the gateway's power between any two steps.

Deadlines are kept relative to `now`, the variable of `main()` that is read at
the top of a pass. `lag` is how long `mqtt_connect()` has blocked since then:
a deadline set from a fresh `k_uptime_get()` during the pass is `lag` further
away, and the timeout of `zsock_poll()` is computed without it.

Not here: SUBSCRIBE and PINGREQ, packet ids, and the failure path of
`zsock_poll()` itself. The first three change no state of a session that stays
up; the last ends a pass early.

## 3. What TLC checks

| Run | Question | Distinct states |
|---|---|---|
| `relay_any` | late Acks, a pool of two, sessions that break: is what is published true, does every command drain, is every signal fetched? | 173,490 |
| `relay_prompt` | no late Ack, a pool with room: is one command in flight, does each wait end by its own Ack, one verdict each, everyone answered; does the relay implement `RoundTrip`? | 84,244 |
| `peer_liveness` | from beats to the retained topic, with restarts, bursts, dropped frames, failed announcements | 3,784,319 |
| `commands` | at most once, last interval wins, triggers kept, an OK is true, the cadence | 148,633 |
| `sessions` | one session, connections and announcements that fail without limit, one power cut: wills, retained status, backoff | 343,861 |
| `sessions_pair` | two sessions: wills apart, neither held up beyond its deadlines, and the node's own comes back while the peer's keeps failing | 840,396 |
| `peer_link` | the peer's loop against its interrupt, the sensor thread and a bus that comes and goes | 779,654 |

Five more runs (`relay_coalesce`, `relay_late`, `relay_pool`, `commands_retry`,
`sessions_stale`) each look for the counterexample of one sentence of the
repository; section 6 has them.

### The properties

- `AcksAreTruthful`: on the wire, an Ack in the peer's name answers a command the
  peer took up, one in the relay's name a command tx_thread gave up on, "relay
  busy" one that never entered the relay; no channel is published before it was
  written. It holds in spite of channels overwritten between signal and read.
- `RoundTripsSerialised`, `ReleasedByOwnAck`, `OneVerdict`, `RoundTripAnswered`:
  what `relay.cpp` says of round trips, under the premise. `KeepsRoundTrips`:
  `Relay` implements `RoundTrip`, which says in one formula what the four say
  in parts, and the order besides.
- `CommandsDrain`: tx_thread, rx_thread and main() wait for each other in a
  circle (`main()` for a buffer a queued command holds, `tx_thread` for
  `rx_thread`'s give, `rx_thread` for a lock). No wait is without an end.
  `SignalsFetched`: an eventfd signalled while the session was down is found
  when it is served.
- `OfflineAfterSilence`, `DecisionInTime`, `HealthyIsOnline`, `DeadIsOffline`:
  what the decision is worth. `RetainedFollowsChannel`: what a subscriber sees of
  it. The exception `missed` is real: a change is
  announced once, and when that fails nothing repeats it.
- `AtMostOnce`, `LastIntervalWins`, `TriggersNotCollapsed`, `OkMeansDone`: what
  becomes of a command between its arrival and the sensor thread's queue.
  `IntervalHonoured`: a shortened interval is not waited out at the old length.
  `SamplesNotSqueezed`: a sample no trigger asked for comes a whole period after
  the one before it, however triggers re-based the cadence.
- `CountsInFlight`: whichever of the increment and the interrupt comes first,
  the count is that of the beats on their way. `CadenceKept`: beats are due on
  the grid of whole periods since boot. `BeatsKeepComing`: two beats are never
  further apart than `MaxGap = Period + 2 * SendTimeout` on a bus that
  acknowledges. That is 3 s of the gateway's 3.5 s, and is the `MaxGap` that
  `PeerLiveness` assumes, and `Presence` makes a theorem of: a gateway that is there but takes part
  in no transfer does not cost the peer its liveness. It leaves no room for a
  beat lost on the way.
- `DeadIsNoticed`, `HealthyIsNoticed`: the verdict of a beat is about the beat
  *before*, and still the link is right: a dead bus is noticed when the second
  beat is due at the latest, `MaxGap` after the first, and a healthy gateway after
  `NoticeTime = Period + SendTimeout`. `HeartbeatDecides`: on a bus known to be dead no reading is ever
  tried (section 6). `ReadingTakenInTime`, `HeartbeatTellsSensor`: what a reading
  is worth to the heartbeat, in spite of the two steps in which it is fetched;
  the exception `missed`, a reading of which the pool let nobody be told, is
  listed as a hazard. `ReadingsReturn`: once the gateway is back for good,
  readings get through again.
- `StatusIsCurrent`: once the broker has processed everything, the retained
  status of a served session is the one it stands for, whatever wills and
  reconnections came before, unless the last attempt to announce it failed
  unnoticed. That exception (`missed`) is as real as the one of
  `RetainedFollowsChannel`: the session then keeps a stale status until the next
  change or reconnection. `DeadIsAnnounced`: a node without a connection is
  not retained as online, also after a power cut, unless its session said
  DISCONNECT: `session_drop()` says it on a session it means to
  re-establish, which discards the will (`main.cpp:648-650`). That exception is
  listed as a hazard. `PublishedWhileServing`: nothing is published before the
  CONNACK or after the drop, although `revents` is older than both.
  `RetriesAreSpaced`: attempts are `BackoffMin * 2^k` apart, up to the cap.
  `RetriesAreTimely` is the other side: what a session may be held up by is
  `mqtt_connect()`, its own and the other's, and since `zsock_poll()` sleeps past
  deadlines by as much as that (section 6), for two passes' worth and no more.
  `OwnSessionReturns`: liveness of the node's own session.

### The bounds, and why they suffice

- `NCmds` 2–3 commands: every property of the round trip is about one command
  and the one before it (a late Ack meets the *next* wait); three let the queue
  hold one while another is in flight. `relay_pool` needs five to fill the real
  pool of four. `NReadings = 1` is one foreign publication competing with an Ack.
- `PoolSlots = 2` in `relay_any` makes the pool run out with one command queued;
  5 in `relay_prompt` is what three commands need at most (`GivenAfterPosted`
  and the like need a pool that is not full). The violations use the real 4.
- `PeerLiveness`: `Timeout = 4`, `Poll = 1`, `PubWait = 0`, `MaxGap = 2`,
  `MaxTime = 8`: the clock goes twice around the timeout, with a restart at any
  tick. `QueueDepth = 2` is the least the assumption allows, so that the queue
  overflows. `PubWait = 0` makes a publication take no tick; the proofs leave it
  free.
- `Commands`: intervals `{1, 2, 4}` against the range 2..4: one below it, both
  ends inside. `PoolSlots = 3` lets two commands wait, and refuses the third (one needs
  two slots while it is published, and keeps one while it waits).
  `MaxDups = 1` repeats any one command, `MaxBoots = 1` restarts once.
- `PeerLink`: a tick is half a second. `Period = 2`, `SendTimeout = 2`
  (`ISOTP_BS_TIMEOUT`), `BackoffMin = 4` and `Mailboxes = 3` are the code's own
  values; `BackoffMax = 8` instead of 60 keeps one doubling and the cap. `Calm =
  7` is one more than `MaxGap`, the longest spell a property asks about. No
  clock is bounded: every time is relative, or stops at its bound. Half a second
  is enough to put a change of the bus inside a transfer and inside a wait.
- `Sessions`: `BackoffMax = 4` is two doublings and the cap; `Flaky` sessions
  fail without limit, so only the pair bounds the faults of the other session
  (`MaxFaults = 1`), which is what makes "once its faults are over" meaningful.
  `MaxBlock = 1` is a connect that blocks for a tick, enough to make `now`
  stale. `MaxPipe` bounds how far the broker lags when a pass goes on: 2 in the
  run with one session, where the order of late packets and wills matters; 0
  with two. `Lossy` is the peer in the first, which checks `StatusIsCurrent`, and
  empty in the second: wills, deadlines and the return of the node's own session
  do not depend on what a status says, and the proofs leave `Lossy` free.

`CHECK_DEADLOCK FALSE` appears in the `Relay_*` configurations, where the host
sends finitely many commands, and in `PeerLiveness`, where the clock stops at its
bound; `commands`, `peer_link` and the session runs are checked for deadlock.

### Fairness, and why the code justifies it

- `Relay`: weak fairness of each thread, of the peer and of `main()`. Zephyr
  schedules every ready thread, no thread spins, and each wait in the three
  threads has a timeout (100 ms, 50 ms, `kAckWaitMs`) or ends when a message
  comes, but for `isotp_send()`, of which it is assumed (section 2); `main()` returns from `zsock_poll()` when an eventfd is signalled. No
  fairness for readings, sessions or the host: they need never come.
- `Sessions`: weak fairness of `main()`, of the clock, of the broker and of
  TCP's own retransmission timeout. None for the producers, for failures or for
  their absence.
- `PeerLink`: weak fairness of the loop, which never waits longer than until the
  next beat, and of the sensor thread's publication, which comes every sample
  period (without it `dropped` would stand because there is no reading, not
  because none gets through). Weak fairness of the completion of an acknowledged
  frame. Strong fairness of the tick: time passes although the tick is disabled
  whenever the loop is at work, and the loop is at work again and again. None for
  the bus: `ReadingsReturn` has it as its premise.

## 4. What is proved

TLAPS checks the proofs for every value of the constants, without TLC's bounds.

| Theorem | States | Assumes |
|---|---|---|
| `RelayProofs!TypeCorrect` | `TypeOK` | `ConstantsAssumption` |
| `RelayProofs!OnlyTruthIsPublished` | `AcksAreTruthful` | `ConstantsAssumption` |
| `RelayPromptProofs!RoundTripsAreSerial` | `RoundTripsSerialised` | and `Prompt` |
| `RelayPromptProofs!ReleasedByItsAck` | `ReleasedByOwnAck` | and `Prompt` |
| `RelayPromptProofs!OneVerdictEach` | `OneVerdict` | and `Prompt` |
| `RelayPromptProofs!PoolAnswersEach` | `RoundTripAnswered` | and `Prompt`, `NCmds <= PoolSlots` |
| `RelayPromptProofs!AnsweredWhenPaced` | `RoundTripAnswered` and `GivenAfterPosted`, while no more commands are outstanding than the pool has buffers | and `Prompt` |
| `RelayPromptProofs!RelayKeepsRoundTrips` | `KeepsRoundTrips` | and `Prompt` |
| `PeerLivenessProofs!TypeCorrect` | `TypeOK` | `TimingAssumption` |
| `PeerLivenessProofs!OfflineDecidedInTime` | `DecisionInTime` | `TimingAssumption` |
| `PeerLivenessProofs!DeadPeerIsOffline` | `DeadIsOffline` | `TimingAssumption` |
| `PeerLivenessProofs!OfflineOnlyAfterSilence` | `OfflineAfterSilence` | `TimingAssumption` |
| `PeerLivenessProofs!ChannelHoldsState` | `ChannelFollowsState` | `TimingAssumption` |
| `PeerLivenessProofs!RetainedIsCurrent` | `RetainedFollowsChannel` | `TimingAssumption` |
| `PeerLivenessProofs!HealthyPeerIsOnline` | `HealthyIsOnline` | and `MaxGap < Timeout` |
| `PeerLivenessProofs!LostBeatsTolerated` | `NoFalseAlarm` | and `MaxGap < Timeout` |
| `CommandsProofs!TypeCorrect` | `TypeOK` | `CommandsAssumption` |
| `CommandsProofs!ExecutedAtMostOnce` | `AtMostOnce` | `CommandsAssumption` |
| `CommandsProofs!OkIsTrue` | `OkMeansDone` | `CommandsAssumption` |
| `CommandsProofs!LastIntervalIsKept` | `LastIntervalWins` | `CommandsAssumption` |
| `CommandsProofs!TriggersAreKept` | `TriggersNotCollapsed` | `CommandsAssumption` |
| `CommandsProofs!IntervalIsHonoured` | `IntervalHonoured` | `CommandsAssumption` |
| `CommandsProofs!CadenceIsKept` | `SamplesNotSqueezed` | `CommandsAssumption` |
| `SessionsProofs!SessionsWellTyped` | `TypeOK` | `SessionsAssumption` |
| `SessionsProofs!PublishesOnlyWhileServing` | `PublishedWhileServing` | `SessionsAssumption` |
| `SessionsProofs!RetainsTheCurrentStatus` | `StatusIsCurrent` | `SessionsAssumption` |
| `SessionsProofs!TheDeadAreAnnounced` | `DeadIsAnnounced` | `SessionsAssumption` |
| `SessionsProofs!RetriesKeepTheirDistance` | `RetriesAreSpaced` | `SessionsAssumption` |
| `SessionsProofs!SessionsAreNotHeldUp` | `RetriesAreTimely` | `SessionsAssumption` |
| `PeerLinkProofs!TypeCorrect` | `TypeOK` | `PeerLinkAssumption` |
| `PeerLinkProofs!BeatsAreCounted` | `CountsInFlight` | `PeerLinkAssumption` |
| `PeerLinkProofs!CadenceIsKept` | `CadenceKept` | `PeerLinkAssumption` |
| `PeerLinkProofs!BeatsComeInTime` | `BeatsKeepComing` | `PeerLinkAssumption` |
| `PeerLinkProofs!ReadingsAreTaken` | `ReadingTakenInTime` | `PeerLinkAssumption` |
| `PeerLinkProofs!HeartbeatTellsTheLast` | `HeartbeatTellsSensor` | `PeerLinkAssumption` |
| `PeerLinkProofs!DeadBusIsNoticed` | `DeadIsNoticed` | `PeerLinkAssumption` |
| `PeerLinkProofs!DeadBusKeepsTelemetryBack` | `HeartbeatDecides` | and `Period + SendTimeout <= BackoffMin` |
| `PeerLinkProofs!HealthyGatewayIsNoticed` | `HealthyIsNoticed` | and `Period <= SendTimeout` |
| `PresenceProofs!PeerKeepsItsPace` | `KeepsPeerLiveness`: both nodes together implement `PeerLiveness` | `PeerLinkAssumption` |
| `PresenceProofs!TheLinkIsSeen` | `LinkIsSeen` | and `TimingAssumption`, `MaxGap < Timeout` |
| `PresenceProofs!ThePartingIsSeen` | `PartingIsSeen` | and `TimingAssumption`, `MaxGap < Timeout` |
| `PresenceProofs!TheLinkKeepsThePeerOnline` | `LinkKeepsOnline` | and `TimingAssumption`, `MaxGap < Timeout` |
| `PresenceProofs!TheTopicTellsTheLink` | `TopicTellsLink` | and `TimingAssumption`, `MaxGap < Timeout` |
| `CanLinkProofs!OneListenerEach` | no identifier is filtered on twice | nothing |
| `CanLinkProofs!EveryFrameIsHeardOnce` | each frame reaches its context and no other | nothing |
| `CanLinkProofs!HeartbeatsGoFirst` | heartbeats win the bus | nothing |
| `CanLinkProofs!UnpackUndoesPack` | packed heartbeats are read back whole | nothing |
| `CanLinkProofs!PackUndoesUnpack` | an understood frame is the one packed, but for the reserved byte | nothing |

The arguments:

- *Only the truth is published.* `AcksAreTruthful` speaks of `wire`, and a
  message gets there through four places (`up`, `msg`, `chan`, `main_msg`).
  `AuthorInv` says of each of them that its Acks are true; `WrittenInv` that an
  eventfd is signalled only for a channel that was written; `RefusedInv` that a
  command answered "relay busy" is in no queue and on no bus. Together with the
  types (`TypeInv`, where `ThreadInv` ties each thread's place to what it has in
  hand) they are inductive.
- *Round trips are serial.* `SerialInv`: while tx_thread waits, its command is in
  exactly one of four places (`Phase`: the bus down, the bus up, rx_thread's
  hands, or gone), and in none when it does not wait. Lemma `NothingLeft` is
  where the premise enters: a wait that ends by timeout leaves nothing behind.
  `VerdictInv` adds that a command the relay gave up on is answered by nobody
  else.
- *Answers.* An Ack is posted if its publication finds the channel's lock and a
  buffer. `LockInv`: a channel is locked by the thread that is between its write
  and its notification, and `SerialInv` excludes the other thread from the Ack's
  channel meanwhile. `SignalInv`: what is given, or about to be, stands for an Ack
  that was signalled. Buffers are held by queued commands and by `main()`; one is
  free for the Ack as long as no more commands are outstanding than there are
  buffers (`Paced`), because the command the Ack is for has given its own back.
  `AnsweredWhenPaced` has that as a premise on the behaviour; `CountInv`, which
  counts commands by their sequence, makes it a consequence of `NCmds <=
  PoolSlots`. `relay_pool` shows what happens beyond.
- *Liveness decisions.* `WaitInv` bounds `rx_due`; `QueueInv` says of a queue
  without a beat that its frames came one a tick, from which lemma `RoomForABeat`
  concludes that under `TimingAssumption` the first beat finds room, and
  `BeatIsSeen` that the next drain sees it, however many more are dropped.
  `EvidenceInv` relates `last_seen_ms`, `last_good` and what is queued.
  `BeatingInv` does the same for a healthy peer, for a gap below the timeout.
  `MainInv` says what `main()` knows of the channel in each of its three steps,
  which is what `RetainedFollowsChannel` needs to be inductive.
- `LostBeatsTolerated` is the true form of a sentence that fails as written
  (section 6): a gap *below* the timeout is tolerated. Beats a second apart and
  a timeout of 3.5 s tolerate two lost beats, and not three.
- *Both nodes.* Each step of `Presence` is one of `PeerLink` or none
  (`PeerSteps`), so that `BeatsKeepComing` holds. `JoinInv` relates the two halves'
  clocks: while the peer beats, its silence is the age of the last beat heard, so
  that a tick of the peer's clock is one the gateway's may take (`GatewaySteps`,
  which is the refinement `PeerKeepsItsPace`). What is proved of either half
  then holds of the whole, and `JoinInv` turns it into statements about the bus:
  `mode_since` and `last_good` are where they should be with respect to
  `link_since`. The premise `MaxGap < Timeout` is `kHeartbeatPeriodMs` and two
  times `ISOTP_BS_TIMEOUT` against `kHeartbeatTimeoutMs`: 3 s and 3.5 s.
- *The relay keeps round trips.* `TakenInv` adds to the serial and the verdict
  invariant that a command on its way down has not been executed, and that a
  given semaphore means it has. With these each action of `Relay` is a step of
  `RoundTrip` or none (`TxImplements` and its companions, one per thread):
  forwarding accepts or refuses, `TxTakeCommand` begins, the peer executes, the
  end of the wait completes or gives up, and a publication tells. TLC sees no
  `Refuse` in `relay_prompt`, whose pool has room; the theorem is for every pool.
- *Commands.* `TypeInv` has the types, what the queue may hold (`QueueInv`: only
  commands in range, with an effect) and what time does (`ClockInv`: `age` and
  `left` add up to the period while the thread waits). `StreamInv` says that
  the stream delivers in order; `ExecutedInv` that a command with an effect lies
  behind the head of the stream, or is the head and then the remembered one, so
  that the duplicate test catches every repetition; `AnsweredInv` that a
  remembered head has been answered, which is what makes an OK to its repeat
  true.
- *Sessions.* What the broker is told depends on what is still on its way to it,
  and that is cut short, delayed or discarded in many ways. `PipeInv` says of
  each session's pipe: while the connection is open its last part is a CONNECT or
  statuses only; when it is not, it ends with an end; between two CONNECTs lies
  an end; a session that has heard its CONNACK is one the broker has up, with
  nothing but statuses to come. The lemmas (`GoodConnects`, `GoodEnds` and their
  like) say that each thing that can happen to a pipe preserves this, so that
  the actions cite them instead of arguing over sequences. `CurrentInv` adds what
  the last status in the pipe says, unless it was missed, and `DeadStep` what is retained when a
  connection ends.
- *Retries.* `SpacedInv`: the backoff is the one that so many failures ask for,
  and what a session has been left alone plus what is left of its deadline is at
  least that, on a clock (`now + lag`) that goes on while `mqtt_connect()` blocks.
  `Doubled` is a recursive function, which the prover knows nothing of until it is
  shown to exist: `SetInduction` (a set of numbers with 0 and with the successor of
  each of its members holds all) gives the first n doublings for each n, and
  from them `DoublingIs`. `TimelyInv` is the bound from above: what has passed and
  what is left add up to no more than the limit, or the deadline has come and
  `main()` is yet to look at the session in this pass (`Awaits`); `EveryoneHasATurn`
  says that no session is passed over.
- *The peer's loop.* `TypeInv` is `TypeOK` with `CountsInFlight`, the backoff's
  range and `DueInv`, how late a beat can be at each place of the loop: on time
  when the wait ends, less what is left of a transfer during one, and at most two
  transfers late at the top. `GapInv` follows the silence along the same
  places, `PendingInv` the reading. `DeadInv` says what is known of a dead bus at
  each of the steps between `can_send()` and the verdict: a beat that stays in
  its mailbox, or an error that is there to be read. `RetryInv`: once noticed, the
  time until the retry is longer than the time until the next beat, by the first
  backoff less a period; that this outlasts the Ack of a command queued before the
  bus went needs the backoff to cover a period and a failing transfer (2 s, and
  1 s each). `HealthyInv` is
  its counterpart for a healthy gateway; that `NoticeTime` is enough needs a failing transfer
  to take no less than a period (both are 1 s): otherwise a beat may not fall
  into the calm. `CadenceKept` rests on four lemmas about remainders, since the
  period is no constant number for the prover.
- *The address map.* Ranges: each kind of identifier has four of its own. *The
  heartbeat:* a 32-bit number is what four shifts by eight bits reduce to 0, and
  such a number is the sum of its bytes.

Only model-checked: `CommandsDrain`, `SignalsFetched`, `OwnSessionReturns` and
`ReadingsReturn`: liveness under fairness is beyond the prover, as is ENABLED.
Every safety property of a passing run is a theorem. The library's induction
theorems take an operator as a parameter and cannot be cited; where a proof needs
induction over numbers (`SetInduction`) it is derived from the well-foundedness of
`<`, which the library states of a set. The modules with proofs have no RECURSIVE
operator.

## 5. What is not modelled

- **Protocol encoding**: stateless, and covered by `tests/protocol`. An Ack is a
  triple here, and a payload that does not decode is `malformed`.
- **`read_scd40`, `read_bme280`, drivers, network bring-up**: pure I/O; a reading
  is a number, or the news that there is one.
- **Byte-level input** of `handle_incoming_publish` (draining of a payload that
  is too large), packet ids, SUBSCRIBE, PINGREQ and the failure path of
  `zsock_poll()`.
- **Host tools, tests, scripts**: no part of the firmware. The host is the
  environment of `Commands`, and tests are read as statements.

## 6. Where the code and its words disagree

Each line has a run that shows it and an entry under "findings".

| Run | The repository says | The model shows |
|---|---|---|
| `relay_late` | the reset of the semaphore means "a late ack cannot satisfy the *next* command's wait" (`relay.cpp:342-344`) | an Ack that arrives after the reset does |
| `relay_pool` | the semaphore is given "only after the ack is on its way upward" (`relay.cpp:181-183`) | with the pool full the publication fails, is logged, and the give follows |
| `relay_coalesce` | "at most one is ever outstanding and latest-wins cannot collapse a set of one" (`relay.h:99-103`) | round trips go on while the peer session is down, and two Acks collapse |
| `commands_retry` | suppression "makes a repeat idempotent", so the host's retry is safe (`docs/mqtt-design.md:57`) | the repeat of a command that was answered FAILED is answered OK and never executed |
| `sessions_stale` | `next_deadline_ms()` is "the nearest deadline across every session" (`main.cpp:712`) | its `now` is older than the connects of the same pass, and the poll sleeps past the deadline by as long as they blocked |

Others were met while modelling or proving and have no run of their own:

- "3.5 tolerates three lost beats without a false alarm" (`can_link.h:188-189`).
  Three lost beats leave 4 s between two beats; `LostBeatsTolerated` is the form
  that holds, and `DeadIsOffline` what bounds the other side.
- "the backoff starts at 1 s" (`docs/mqtt-design.md:70`, `main.cpp:72`).
  `session_drop()` doubles before the delay is used, so that the first wait after
  a failed attempt is 2 s; 1 s is only ever waited after a session that was
  served.
- "telemetry backing off 2 s → 30 s while the heartbeat keeps trying"
  (`docs/can-bringup.md:272`, `peer-node/src/main.cpp:500-506`). On a dead bus
  each failing beat, one a second, doubles the backoff and sets `tx_retry_at`
  anew, at least 2 s ahead: once the outage is noticed, telemetry is not tried at
  growing intervals, it is never tried (`HeartbeatDecides`). On a bus where only the gateway's ISO-TP is
  gone, each good beat resets the backoff, which never exceeds 2 s.
- "we never have more than one outstanding" (`gateway/src/main.cpp:445-446`). One
  pass may publish an Ack and a status at QoS 1 without awaiting a PUBACK. The
  ids still differ, as they come from a counter.

## 7. Plan

Done: `Relay` with `RoundTrip`, `PeerLiveness`, `Commands`, `Sessions`,
`PeerLink`, `Presence`, `CanLink`, each with its proofs. Left, in the order of
what matters most:

1. Payload handling of `main()`: the draining of a payload that is too large, and
   `next_message_id` at its wrap with an Ack and a status in flight.
2. The failure path of `zsock_poll()` and keepalive deadlines in `Sessions`.
3. What remains true where a sentence of section 6 fails: without `Prompt`, how
   far round trips can overlap.
