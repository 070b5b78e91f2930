---------------------------- MODULE PeerLiveness ----------------------------
(***************************************************************************)
(* From the peer's heartbeat to the retained topic node/2/status:          *)
(* heartbeat_isr, drain_heartbeats, liveness_step, publish_status and the  *)
(* loop of rx_thread (gateway/src/relay.cpp, relay.h), then                *)
(* publish_relayed_status and the announcement session_serving makes       *)
(* (gateway/src/main.cpp).                                                 *)
(*                                                                         *)
(* Time is counted in ticks.  A tick never overruns a deadline the code    *)
(* sets itself: rx_thread comes back from isotp_recv() and from a          *)
(* publication in time.  last_seen_ms is taken when the queue is drained,  *)
(* not when the beat arrived.                                              *)
(***************************************************************************)
EXTENDS Naturals, Sequences

CONSTANTS
    Timeout,     \* kHeartbeatTimeoutMs
    Poll,        \* kRecvPollMs
    PubWait,     \* the 50 ms a publication may take
    MaxGap,      \* the longest time between two beats of a healthy peer
    QueueDepth,  \* the depth of heartbeat_q
    MaxTime      \* bound: the clock stops here

\* The queue holds the frames of one iteration of rx_thread
\* (relay.cpp:104-107).
ASSUME TimingAssumption ==
    /\ Timeout \in Nat \ {0}
    /\ Poll \in Nat /\ PubWait \in Nat
    /\ MaxGap \in Nat /\ MaxTime \in Nat
    /\ QueueDepth \in Nat
    /\ Poll + 2 * PubWait < QueueDepth

VARIABLES
    now,
    mode,        \* the peer: "beating", "foreign" (a layout the gateway cannot
                 \* parse) or "silent"
    mode_since,  \* when it became so
    last_foreign, \* when its last undecodable frame arrived
    last_good,   \* when its last decodable one did
    heartbeat_q, \* the queue: a frame decodes ("beat") or not ("foreign")
    rx_pc, rx_due,          \* rx_thread, and when its present wait ends
    state, last_seen_ms,    \* struct liveness
    chan,        \* the value of chan_relay_status
    evt_fd,      \* whether relay_status_evt_fd is signalled
    main_pc, main_status, serving,  \* main(), and the status it is relaying
    retained,    \* the broker's retained node/2/status
    booted,      \* history: when rx_thread started
    missed       \* history: an announcement failed, and none of the value chan
                 \* holds has succeeded since

peerVars == <<mode, mode_since, last_foreign, last_good>>
mainVars == <<main_pc, main_status, serving, retained>>
vars == <<now, peerVars, heartbeat_q, rx_pc, rx_due, state, last_seen_ms,
          chan, evt_fd, mainVars, booted, missed>>

\* One iteration of rx_thread up to liveness_step(): the wait in isotp_recv(),
\* and the publication of what it returned.
Loop == Poll + PubWait

Init ==
    /\ now = 0
    /\ mode = "silent" /\ mode_since = 0
    /\ last_foreign = 0 /\ last_good = 0
    /\ heartbeat_q = <<>>
    /\ rx_pc = "recv" /\ rx_due = Loop
    /\ state = "unknown" /\ last_seen_ms = 0
    /\ chan = "none" /\ evt_fd = FALSE
    /\ main_pc = "loop" /\ main_status = "none" /\ serving = FALSE
    /\ retained = "none"
    /\ booted = 0 /\ missed = FALSE

-----------------------------------------------------------------------------
(* The clock and the peer *)

Clock ==
    /\ now < MaxTime
    /\ now < rx_due
    /\ now' = now + 1
    /\ UNCHANGED <<booted, peerVars, heartbeat_q, rx_pc, rx_due, state, last_seen_ms,
                   chan, evt_fd, mainVars, missed>>

\* A healthy peer's next beat does not keep the clock waiting.
Tick == Clock /\ (mode = "beating" => now < last_good + MaxGap)

\* The peer dies, or is given another firmware, each of which takes a tick.
PeerChanges ==
    /\ mode = "foreign" => now > last_foreign
    /\ \E m \in {"foreign", "silent"} \ {mode} : mode' = m
    /\ mode_since' = now
    /\ UNCHANGED <<booted, now, last_foreign, last_good, heartbeat_q, rx_pc, rx_due,
                   state, last_seen_ms, chan, evt_fd, mainVars, missed>>

\* A full queue drops the newest frame.
Enqueue(frame) ==
    IF Len(heartbeat_q) < QueueDepth THEN Append(heartbeat_q, frame)
    ELSE heartbeat_q

\* heartbeat_isr().  Beats come in bursts after a stall of the peer's loop; frames
\* of another layout come at most once a tick.  The first beat of a peer that boots
\* makes it "beating".
Beat ==
    /\ \/ /\ mode = "foreign" /\ now > last_foreign
          /\ last_foreign' = now
          /\ heartbeat_q' = Enqueue("foreign")
          /\ UNCHANGED <<mode, mode_since, last_good>>
       \/ /\ mode \in {"beating", "silent"}
          /\ heartbeat_q' = Enqueue("beat")
          /\ last_good' = now
          /\ mode' = "beating"
          /\ mode_since' = IF mode = "beating" THEN mode_since ELSE now
          /\ UNCHANGED last_foreign
    /\ UNCHANGED <<booted, now, rx_pc, rx_due, state, last_seen_ms, chan, evt_fd,
                   mainVars, missed>>

-----------------------------------------------------------------------------
(* rx_thread *)

\* drain_heartbeats(): was there at least one valid beat?
\* Fault: an undecodable frame counts as a sign of life.
FrameSeen_Any == heartbeat_q # <<>>
FrameSeen == \E i \in 1 .. Len(heartbeat_q) : heartbeat_q[i] = "beat"

\* Fault: last_seen_ms is left alone while the state stays PEER_ONLINE.
LastSeen_OnChange ==
    IF FrameSeen /\ state # "online" THEN now ELSE last_seen_ms
LastSeen == IF FrameSeen THEN now ELSE last_seen_ms

\* Fault: the timeout is compared with > instead of >=.
Expired_Late == now - last_seen_ms > Timeout
Expired == now - last_seen_ms >= Timeout

\* liveness_step()
NextState ==
    CASE FrameSeen -> "online"
      [] ~FrameSeen /\ Expired -> "offline"
      [] OTHER -> state

\* Fault: every step is announced, whether or not it changed the state.
Announces_Always == TRUE
Announces == NextState # state

RxStep ==
    /\ rx_pc = "recv"
    /\ last_seen_ms' = LastSeen
    /\ state' = NextState
    /\ heartbeat_q' = <<>>
    /\ IF Announces THEN rx_pc' = "announce" /\ rx_due' = now + PubWait
       ELSE rx_pc' = "recv" /\ rx_due' = now + Loop
    /\ UNCHANGED <<booted, now, peerVars, chan, evt_fd, mainVars, missed>>

\* publish_status(): the channel's value is replaced, and main() is signalled
\* unless no pool slot came free.  (main() holds the channel's lock for a copy
\* only, so the lock itself is always to be had here; main() may fail to get it
\* while a publication holds it that waits for a slot.)
RxAnnounce ==
    /\ rx_pc = "announce"
    /\ chan' = state
    /\ \/ evt_fd' = TRUE /\ UNCHANGED missed
       \/ missed' = TRUE /\ UNCHANGED evt_fd
    /\ rx_pc' = "recv"
    /\ rx_due' = now + Loop
    /\ UNCHANGED <<booted, now, peerVars, heartbeat_q, state, last_seen_ms, mainVars>>

\* The time liveness is measured from at first.
\* Fault: zero, instead of the moment rx_thread starts listening.
FirstSeen_Zero == 0
FirstSeen == now

\* The gateway restarts: RAM is lost, the retained topic is not.
Reboot ==
    /\ state' = "unknown" /\ last_seen_ms' = FirstSeen
    /\ heartbeat_q' = <<>>
    /\ rx_pc' = "recv" /\ rx_due' = now + Loop
    /\ chan' = "none" /\ evt_fd' = FALSE
    /\ main_pc' = "loop" /\ main_status' = "none" /\ serving' = FALSE
    /\ booted' = now /\ missed' = FALSE
    /\ UNCHANGED <<now, peerVars, retained>>

-----------------------------------------------------------------------------
(* main() *)

\* The announcement of session_serving(): nothing for PEER_UNKNOWN (node_id is
\* still 0), and its result is not looked at.
\* Fault: the session announces the peer online as it does its own node.
Belief_Online == "online"
Belief == chan

MainServes ==
    /\ main_pc = "loop" /\ ~serving
    /\ serving' = TRUE
    /\ IF chan = "none" THEN UNCHANGED <<retained, missed>>
       ELSE \/ retained' = Belief /\ missed' = FALSE
            \/ missed' = TRUE /\ UNCHANGED retained
    /\ UNCHANGED <<booted, now, peerVars, heartbeat_q, rx_pc, rx_due, state,
                   last_seen_ms, chan, evt_fd, main_pc, main_status>>

\* publish_relayed_status(): the eventfd is read and cleared ...
MainReadFd ==
    /\ main_pc = "loop" /\ serving
    /\ evt_fd
    /\ evt_fd' = FALSE
    /\ main_pc' = "read"
    /\ UNCHANGED <<booted, now, peerVars, heartbeat_q, rx_pc, rx_due, state,
                   last_seen_ms, chan, main_status, serving, retained, missed>>

\* ... the channel is read, which by now may hold a newer value; if that takes
\* longer than 50 ms the signal is spent for nothing ...
MainRead ==
    /\ main_pc = "read"
    /\ \/ main_status' = chan /\ main_pc' = "publish" /\ UNCHANGED missed
       \/ missed' = TRUE /\ main_pc' = "loop" /\ UNCHANGED main_status
    /\ UNCHANGED <<booted, now, peerVars, heartbeat_q, rx_pc, rx_due, state,
                   last_seen_ms, chan, evt_fd, serving, retained>>

\* ... and the value is published, retained, or the session dropped.
MainPublish ==
    /\ main_pc = "publish"
    /\ main_pc' = "loop"
    /\ \/ /\ retained' = main_status
          /\ missed' = (missed /\ main_status # chan)
          /\ UNCHANGED serving
       \/ serving' = FALSE /\ UNCHANGED <<retained, missed>>
    /\ UNCHANGED <<booted, now, peerVars, heartbeat_q, rx_pc, rx_due, state,
                   last_seen_ms, chan, evt_fd, main_status>>

MainDrops ==
    /\ main_pc = "loop" /\ serving
    /\ serving' = FALSE
    /\ UNCHANGED <<booted, now, peerVars, heartbeat_q, rx_pc, rx_due, state,
                   last_seen_ms, chan, evt_fd, main_pc, main_status, retained,
                   missed>>

-----------------------------------------------------------------------------
Next ==
    \/ Tick \/ PeerChanges \/ Beat
    \/ RxStep \/ RxAnnounce
    \/ MainServes \/ MainReadFd \/ MainRead \/ MainPublish \/ MainDrops
    \/ Reboot

Spec == Init /\ [][Next]_vars

-----------------------------------------------------------------------------
(* Safety *)

Flags == {evt_fd, serving, missed}

TypeOK ==
    /\ now \in 0 .. MaxTime
    /\ mode \in {"beating", "foreign", "silent"}
    /\ mode_since \in 0 .. now
    /\ last_foreign \in 0 .. now
    /\ last_good \in 0 .. now
    /\ heartbeat_q \in Seq({"beat", "foreign"})
    /\ Len(heartbeat_q) <= QueueDepth
    /\ rx_pc \in {"recv", "announce"}
    /\ rx_due \in Nat
    /\ state \in {"unknown", "online", "offline"}
    /\ rx_pc = "announce" => state # "unknown"
    /\ last_seen_ms \in 0 .. now
    /\ chan \in {"none", "online", "offline"}
    /\ main_pc \in {"loop", "read", "publish"}
    /\ main_status \in {"none", "online", "offline"}
    /\ retained \in {"none", "online", "offline"}
    /\ booted \in 0 .. now
    /\ Flags \subseteq BOOLEAN

\* relay.h:131-136 and relay.cpp:276-278: the peer is declared offline only
\* after a full timeout without a decodable beat, during all of which the
\* gateway listened; whatever the queue dropped.
OfflineAfterSilence ==
    [][state # "offline" /\ state' = "offline"
       => now - last_good >= Timeout /\ now - booted >= Timeout]_vars

\* relay.cpp:60-62: the poll interval bounds how late the decision can be.
\* While the peer is not declared offline, the last evidence is younger than
\* the timeout and one iteration of rx_thread.
DecisionInTime ==
    state = "offline" \/ now - last_seen_ms < Timeout + Loop + PubWait

\* can_link.h:187-189 and the test test_three_lost_beats_are_tolerated: beats
\* that go missing, MaxGap apart at most, do not read as a dead node.
NoFalseAlarm ==
    [][state = "online" /\ state' = "offline" => mode # "beating"]_vars

\* A peer that has been beating for longer than one iteration of rx_thread is
\* online, if the gateway has run as long, and long enough to hear a beat ...
HealthyIsOnline ==
    /\ mode = "beating"
    /\ now - mode_since > Loop + PubWait
    /\ now - booted > MaxGap + Loop + PubWait
    => state = "online"

\* ... and one that has sent no decodable beat for a timeout and two iterations
\* is not believed online.
DeadIsOffline ==
    now - last_good > Timeout + 2 * (Loop + PubWait) => state # "online"

\* chan_relay_status holds what rx_thread decided last, and nothing as long as
\* it has decided nothing; so a session that starts announces that or keeps
\* silent (main.cpp:692-697).
ChannelFollowsState ==
    rx_pc = "recv" => chan = IF state = "unknown" THEN "none" ELSE state

\* With the session up and no signal outstanding, the retained topic is the
\* channel's value: no order of signalling, reading, dropping and resuming the
\* session leaves an old status behind, unless an announcement failed.
RetainedFollowsChannel ==
    serving /\ ~evt_fd /\ main_pc = "loop" /\ ~missed /\ chan # "none"
    => retained = chan
=============================================================================
