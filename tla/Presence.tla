------------------------------ MODULE Presence ------------------------------
(***************************************************************************)
(* Both nodes: the peer's loop (PeerLink), the bus, and the gateway's path *)
(* from a heartbeat to the retained topic (PeerLiveness).                  *)
(*                                                                         *)
(* The gateway's half assumes that a healthy peer's beats are at most      *)
(* MaxGap apart, and its clock waits for them.  Here the clock waits for   *)
(* nobody, a beat arrives when the peer's loop, its backlog and the bus    *)
(* let it, and the assumption is a theorem.  So are the properties that    *)
(* take both nodes: from the bus to what a subscriber reads.               *)
(*                                                                         *)
(* The bus acknowledges exactly while the gateway listens: rx_thread       *)
(* starts the controller and sets the filter for heartbeats one after the  *)
(* other, and there is no third node.                                      *)
(***************************************************************************)
EXTENDS Integers, Sequences

CONSTANTS
    Period, SendTimeout, BackoffMin, BackoffMax, Mailboxes, Calm,
    Timeout, Poll, PubWait, QueueDepth, MaxTime

VARIABLES
    bus, responding, mail, pc, due, left, beats_in_flight, last_beat_error, err,
    link_up, tx_backoff_ms, retry_in, telemetry_pending, hb_state, phase,
    silence, calm, unheard, waiting, dropped,
    now, mode, mode_since, last_foreign, last_good, heartbeat_q, rx_pc, rx_due,
    state, last_seen_ms, chan, evt_fd, main_pc, main_status, serving, retained,
    booted, missed,
    link_since   \* history: since when the peer's loop has been running on a bus
                 \* that acknowledges, or the bus has not acknowledged

\* The longest time between two beats, by BeatsKeepComing.
MaxGap == Period + 2 * SendTimeout

Peer    == INSTANCE PeerLinkProofs
Gateway == INSTANCE PeerLivenessProofs

peerVars ==
    <<bus, responding, mail, pc, due, left, beats_in_flight, last_beat_error, err,
      link_up, tx_backoff_ms, retry_in, telemetry_pending, hb_state, phase,
      silence, calm, unheard, waiting, dropped>>
gatewayVars ==
    <<now, mode, mode_since, last_foreign, last_good, heartbeat_q, rx_pc, rx_due,
      state, last_seen_ms, chan, evt_fd, main_pc, main_status, serving, retained,
      booted, missed>>
vars == <<peerVars, gatewayVars, link_since>>

Acked == bus = "acked"

Init == Peer!Init /\ Gateway!Init /\ link_since = 0

-----------------------------------------------------------------------------
\* One clock for both nodes.
Tick ==
    /\ Peer!Tick
    /\ Gateway!Clock
    /\ UNCHANGED link_since

\* A heartbeat leaves its mailbox when it is acknowledged: heartbeat_sent() runs
\* on the peer, and heartbeat_isr() on the gateway.
BeatArrives ==
    /\ Peer!HeartbeatSent("OK")
    /\ Gateway!Beat
    /\ UNCHANGED link_since

\* The gateway hears no more of a peer that leaves the bus, or starts anew.
FallsSilent ==
    IF mode = "beating" THEN Gateway!PeerChanges /\ mode' = "silent"
    ELSE UNCHANGED gatewayVars

BusChanges ==
    /\ Peer!BusChanges
    /\ IF Acked /\ bus' # "acked" THEN FallsSilent ELSE UNCHANGED gatewayVars
    /\ link_since' = IF Acked = (bus' = "acked") THEN link_since ELSE now

PeerRestarts ==
    /\ Peer!Restart
    /\ FallsSilent
    /\ link_since' = IF Acked THEN now ELSE link_since

\* What each node does by itself.
PeerRuns ==
    /\ \/ Peer!Loop \/ Peer!Publish \/ Peer!PublishFails
       \/ Peer!HeartbeatSent("EIO")
    /\ UNCHANGED <<gatewayVars, link_since>>

GatewayRuns ==
    /\ \/ Gateway!RxStep \/ Gateway!RxAnnounce
       \/ Gateway!MainServes \/ Gateway!MainReadFd \/ Gateway!MainRead
       \/ Gateway!MainPublish \/ Gateway!MainDrops
       \/ Gateway!Reboot
    /\ UNCHANGED <<peerVars, link_since>>

Next ==
    \/ Tick \/ BeatArrives \/ BusChanges \/ PeerRestarts
    \/ PeerRuns \/ GatewayRuns

Spec == Init /\ [][Next]_vars

-----------------------------------------------------------------------------
(* Properties *)

Round == Poll + 2 * PubWait

\* can_link.h:188-195: what the gateway assumes of a healthy peer is what the
\* peer's loop does.
KeepsPeerLiveness == Gateway!Spec

\* A peer that has been on an acknowledging bus for a gap and a round of
\* rx_thread is online, whatever becomes of commands, readings and transfers.
LinkIsSeen ==
    /\ Acked
    /\ now - link_since > MaxGap + Round
    /\ now - booted > MaxGap + Round
    => state = "online"

\* One that has been off the bus for a timeout and two rounds is not.
PartingIsSeen ==
    ~Acked /\ now - link_since > Timeout + 2 * Round => state # "online"

\* relay.h:131-136: no false alarm while the link lasts.
LinkKeepsOnline ==
    [][state = "online" /\ state' = "offline"
       => ~Acked \/ now - link_since <= MaxGap]_vars

\* What a subscriber reads is how things are on the bus, when main() has done
\* what there is to do, none of it failed, and the gateway has run as long.
Settled ==
    /\ rx_pc = "recv" /\ main_pc = "loop" /\ serving /\ ~evt_fd /\ ~missed
    /\ now - booted > Timeout + 2 * Round
    /\ now - link_since > Timeout + 2 * Round

TopicTellsLink ==
    Settled => retained = IF Acked THEN "online" ELSE "offline"
=============================================================================
