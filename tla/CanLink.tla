------------------------------- MODULE CanLink -------------------------------
(***************************************************************************)
(* What the two ends of the CAN bus agree on (shared/can_link.h): which    *)
(* identifier names which message, who filters on it, and the eight bytes  *)
(* of a heartbeat.  Pure definitions; CanLinkProofs has what they promise. *)
(***************************************************************************)
EXTENDS Integers

kGatewayNodeId == 1
kFirstPeerNodeId == 2
kMaxPeerNodeId == kFirstPeerNodeId + 3

Peers == kFirstPeerNodeId .. kMaxPeerNodeId

\* A std_id is 11 bits wide, and the lower one wins the bus.
StdIds == 0 .. 2047

heartbeat_id(p) == 1792 + p                                   \* 0x700
isotp_id_to_peer(p) == 2016 + (p - kFirstPeerNodeId)          \* 0x7E0
isotp_fc_id_to_gateway(p) == 2020 + (p - kFirstPeerNodeId)    \* 0x7E4
isotp_id_to_gateway(p) == 2024 + (p - kFirstPeerNodeId)       \* 0x7E8
isotp_fc_id_to_peer(p) == 2028 + (p - kFirstPeerNodeId)       \* 0x7EC

\* The acceptance filters: what the gateway installs for each peer, and each
\* peer for itself: the address of isotp_bind(), the flow control isotp_send()
\* waits for, and the heartbeat.
Filter(node, context, peer, id) ==
    [node |-> node, context |-> context, peer |-> peer, id |-> id]

GatewayFilters(p) ==
    {Filter(kGatewayNodeId, "heartbeat", p, heartbeat_id(p)),
     Filter(kGatewayNodeId, "bind", p, isotp_id_to_gateway(p)),
     Filter(kGatewayNodeId, "send", p, isotp_fc_id_to_gateway(p))}
PeerFilters(p) ==
    {Filter(p, "bind", p, isotp_id_to_peer(p)),
     Filter(p, "send", p, isotp_fc_id_to_peer(p))}
Filters == UNION {GatewayFilters(p) \cup PeerFilters(p) : p \in Peers}

\* The frames on the bus: who sends them, and the context at the other end
\* they are meant for.
Frame(from, node, context, peer, id) ==
    [from |-> from, to |-> Filter(node, context, peer, id)]

GatewayFrames(p) ==
    {Frame(kGatewayNodeId, p, "bind", p, isotp_id_to_peer(p)),      \* tx_addr
     Frame(kGatewayNodeId, p, "send", p, isotp_fc_id_to_peer(p))}   \* tx_fc_addr
PeerFrames(p) ==
    {Frame(p, kGatewayNodeId, "heartbeat", p, heartbeat_id(p)),
     Frame(p, kGatewayNodeId, "bind", p, isotp_id_to_gateway(p)),
     Frame(p, kGatewayNodeId, "send", p, isotp_fc_id_to_gateway(p))}
Frames == UNION {GatewayFrames(p) \cup PeerFrames(p) : p \in Peers}

-----------------------------------------------------------------------------
(* The heartbeat frame *)

Byte == 0 .. 255

\* >> 8, and the numbers of 32 bits: nothing is left of them after four times.
shift8(n) == n \div 256
Word32 == {n \in Nat : shift8(shift8(shift8(shift8(n)))) = 0}

kHeartbeatLayoutVersion == 1
kHeartbeatLen == 8

\* enum heartbeat_state: BOOT, WARMING_UP, OK, SENSOR_ERROR
HeartbeatStates == 0 .. 3

Heartbeat == [state : HeartbeatStates, uptime_s : Word32, sequence_low : Byte]

\* The frame's bytes are counted from 0.
heartbeat_pack(hb) ==
    [i \in 0 .. kHeartbeatLen - 1 |->
        CASE i = 0 -> kHeartbeatLayoutVersion
          [] i = 1 -> hb.state
          [] i = 2 -> hb.uptime_s % 256
          [] i = 3 -> shift8(hb.uptime_s) % 256
          [] i = 4 -> shift8(shift8(hb.uptime_s)) % 256
          [] i = 5 -> shift8(shift8(shift8(hb.uptime_s))) % 256
          [] i = 6 -> hb.sequence_low
          [] OTHER -> 255]

\* The first two ifs of heartbeat_unpack(): a frame of this layout.
Understood(in, len) ==
    /\ len = kHeartbeatLen /\ in[0] = kHeartbeatLayoutVersion
    /\ in[1] \in HeartbeatStates

\* Four bytes, shifted and or-ed together.
word32(a, b, c, d) == a + 256 * (b + 256 * (c + 256 * d))

heartbeat_unpack(in) ==
    [state |-> in[1],
     uptime_s |-> word32(in[2], in[3], in[4], in[5]),
     sequence_low |-> in[6]]
=============================================================================
