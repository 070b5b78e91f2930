---------------------------- MODULE CanLinkProofs ----------------------------
(***************************************************************************)
(* What can_link.h promises both ends of the bus: the load-bearing         *)
(* properties of the address map its header names, for every peer the map  *)
(* can express, and the layout of the heartbeat for every value it holds.  *)
(***************************************************************************)
EXTENDS CanLink, TLAPS

\* Every identifier is one of 11 bits.
LEMMA IdsAreStandard ==
    ASSUME NEW f \in Filters
    PROVE  f.id \in StdIds
BY DEF Filters, GatewayFilters, PeerFilters, Filter, Peers, StdIds,
       kGatewayNodeId, kFirstPeerNodeId, kMaxPeerNodeId, heartbeat_id,
       isotp_id_to_peer, isotp_fc_id_to_gateway, isotp_id_to_gateway,
       isotp_fc_id_to_peer

\* What a filter's identifier says: its context, its direction and its peer.
Ranges(f) ==
    \/ /\ f.context = "heartbeat" /\ f.node = kGatewayNodeId
       /\ f.id = 1792 + f.peer
    \/ f.context = "bind" /\ f.node = f.peer /\ f.id = 2014 + f.peer
    \/ f.context = "send" /\ f.node = kGatewayNodeId /\ f.id = 2018 + f.peer
    \/ f.context = "bind" /\ f.node = kGatewayNodeId /\ f.id = 2022 + f.peer
    \/ f.context = "send" /\ f.node = f.peer /\ f.id = 2026 + f.peer

LEMMA FilterRanges ==
    ASSUME NEW f \in Filters
    PROVE  /\ f.peer \in 2 .. 5 /\ Ranges(f)
           /\ f = Filter(f.node, f.context, f.peer, f.id)
<1>1. PICK p \in Peers : f \in GatewayFilters(p) \cup PeerFilters(p)
  BY DEF Filters
<1>2. p \in 2 .. 5
  BY DEF Peers, kFirstPeerNodeId, kMaxPeerNodeId
<1>3. CASE f \in GatewayFilters(p)
  BY <1>2, <1>3 DEF GatewayFilters, Filter, Ranges, heartbeat_id,
     isotp_id_to_gateway, isotp_fc_id_to_gateway, kFirstPeerNodeId
<1>4. CASE f \in PeerFilters(p)
  BY <1>2, <1>4 DEF PeerFilters, Filter, Ranges, isotp_id_to_peer,
     isotp_fc_id_to_peer, kFirstPeerNodeId
<1>5. QED
  BY <1>1, <1>3, <1>4

\* "No two contexts on a node share an identifier" (can_link.h:20-22), for the
\* whole bus: no identifier is filtered on twice, on one node or on two.
THEOREM OneListenerEach ==
    \A f, g \in Filters : f.id = g.id => f = g
<1> SUFFICES ASSUME NEW f \in Filters, NEW g \in Filters, f.id = g.id
             PROVE  f = g
  OBVIOUS
<1>1. /\ f.peer \in 2 .. 5 /\ Ranges(f)
      /\ g.peer \in 2 .. 5 /\ Ranges(g)
  BY FilterRanges
<1>2. f.peer = g.peer /\ f.context = g.context /\ f.node = g.node
  BY <1>1 DEF Ranges
<1>3. QED
  BY <1>2, FilterRanges

\* Every frame either end sends is filtered on by the node it is meant for, in
\* the context it is meant for, and by nothing else: the four addresses of
\* relay.cpp and of the peer's main.cpp are each other's mirror.
THEOREM EveryFrameIsHeardOnce ==
    \A m \in Frames :
        /\ m.to \in Filters /\ m.to.node # m.from
        /\ \A f \in Filters : f.id = m.to.id => f = m.to
<1> SUFFICES ASSUME NEW m \in Frames
             PROVE  m.to \in Filters /\ m.to.node # m.from
  BY OneListenerEach
<1>1. PICK p \in Peers : m \in GatewayFrames(p) \cup PeerFrames(p)
  BY DEF Frames
<1>2. m.to \in GatewayFilters(p) \cup PeerFilters(p)
  BY <1>1 DEF GatewayFrames, PeerFrames, Frame, GatewayFilters, PeerFilters
<1>3. m.to.node # m.from
  BY <1>1 DEF GatewayFrames, PeerFrames, Frame, Filter, Peers, kGatewayNodeId,
              kFirstPeerNodeId, kMaxPeerNodeId
<1>4. QED
  BY <1>2, <1>3 DEF Filters

\* "The heartbeat sorts below the ISO-TP ranges" (can_link.h:22-23): no segmented
\* transfer, of any peer, is ahead of a heartbeat on the bus.
THEOREM HeartbeatsGoFirst ==
    \A f, g \in Filters :
        f.context = "heartbeat" /\ g.context # "heartbeat" => f.id < g.id
BY FilterRanges DEF Ranges

-----------------------------------------------------------------------------
(* The heartbeat frame *)

LEMMA LowByte ==
    ASSUME NEW n \in Nat
    PROVE  n % 256 \in Byte /\ shift8(n) \in Nat /\ n = (n % 256) + 256 * shift8(n)
BY DEF Byte, shift8

\* A 32-bit number is the sum of its bytes.
LEMMA SumOfBytes ==
    ASSUME NEW u \in Word32
    PROVE  LET b == shift8(u)
               c == shift8(shift8(u))
               d == shift8(shift8(shift8(u)))
           IN  u = word32(u % 256, b % 256, c % 256, d % 256)
<1> DEFINE b == shift8(u)
           c == shift8(b)
           d == shift8(c)
<1>1. u \in Nat /\ shift8(d) = 0
  BY DEF Word32
<1>2. b \in Nat /\ u = (u % 256) + 256 * b
  BY <1>1, LowByte
<1>3. c \in Nat /\ b = (b % 256) + 256 * c
  BY <1>2, LowByte
<1>4. d \in Nat /\ c = (c % 256) + 256 * d
  BY <1>3, LowByte
<1>5. d = d % 256
  BY <1>1, <1>4, LowByte
<1>6. QED
  BY <1>2, <1>3, <1>4, <1>5 DEF word32

LEMMA TopBytes ==
    ASSUME NEW a \in Byte, NEW n \in Nat, NEW x, x = a + 256 * n
    PROVE  x \in Nat /\ x % 256 = a /\ shift8(x) = n
BY DEF Byte, shift8

LEMMA TopByte ==
    ASSUME NEW c \in Byte, NEW d \in Byte, NEW x, x = c + 256 * d
    PROVE  x \in Nat /\ x % 256 = c /\ shift8(x) = d
BY DEF Byte, shift8

LEMMA BytesOfSum ==
    ASSUME NEW a \in Byte, NEW b \in Byte, NEW c \in Byte, NEW d \in Byte,
           NEW u, u = word32(a, b, c, d)
    PROVE  /\ u \in Word32
           /\ u % 256 = a /\ shift8(u) % 256 = b
           /\ shift8(shift8(u)) % 256 = c
           /\ shift8(shift8(shift8(u))) % 256 = d
<1> DEFINE w == c + 256 * d
           v == b + 256 * w
<1>0. w = c + 256 * d /\ v = b + 256 * w /\ u = a + 256 * v
  BY DEF word32
<1>1. d \in Nat /\ d % 256 = d /\ shift8(d) = 0
  BY DEF Byte, shift8
<1> HIDE DEF v, w
<1>2. w \in Nat /\ w % 256 = c /\ shift8(w) = d
  BY <1>0, TopByte
<1>3. v \in Nat /\ v % 256 = b /\ shift8(v) = w
  BY <1>0, <1>2, TopBytes
<1>4. u \in Nat /\ u % 256 = a /\ shift8(u) = v
  BY <1>0, <1>3, TopBytes
<1>5. u \in Word32
  BY <1>1, <1>2, <1>3, <1>4 DEF Word32
<1>6. /\ u % 256 = a /\ shift8(u) % 256 = b /\ shift8(shift8(u)) % 256 = c
      /\ shift8(shift8(shift8(u))) % 256 = d
  BY <1>1, <1>2, <1>3, <1>4
<1>7. QED
  BY <1>5, <1>6

LEMMA PackedBytes ==
    ASSUME NEW hb \in Heartbeat
    PROVE  LET out == heartbeat_pack(hb)
           IN  /\ out[0] = 1 /\ out[1] = hb.state
               /\ out[2] = hb.uptime_s % 256
               /\ out[3] = shift8(hb.uptime_s) % 256
               /\ out[4] = shift8(shift8(hb.uptime_s)) % 256
               /\ out[5] = shift8(shift8(shift8(hb.uptime_s))) % 256
               /\ out[6] = hb.sequence_low /\ out[7] = 255
BY DEF heartbeat_pack, kHeartbeatLen, kHeartbeatLayoutVersion

\* What one end packs the other understands and reads back whole: every state,
\* every 32-bit uptime, every sequence.
THEOREM UnpackUndoesPack ==
    \A hb \in Heartbeat :
        /\ Understood(heartbeat_pack(hb), kHeartbeatLen)
        /\ heartbeat_unpack(heartbeat_pack(hb)) = hb
<1> SUFFICES ASSUME NEW hb \in Heartbeat
             PROVE  /\ Understood(heartbeat_pack(hb), kHeartbeatLen)
                    /\ heartbeat_unpack(heartbeat_pack(hb)) = hb
  OBVIOUS
<1> DEFINE out == heartbeat_pack(hb)
<1>1. /\ out[0] = 1 /\ out[1] = hb.state
      /\ out[2] = hb.uptime_s % 256
      /\ out[3] = shift8(hb.uptime_s) % 256
      /\ out[4] = shift8(shift8(hb.uptime_s)) % 256
      /\ out[5] = shift8(shift8(shift8(hb.uptime_s))) % 256
      /\ out[6] = hb.sequence_low
  BY PackedBytes
<1>2. /\ hb.state \in HeartbeatStates /\ hb.uptime_s \in Word32
      /\ hb = [state |-> hb.state, uptime_s |-> hb.uptime_s,
               sequence_low |-> hb.sequence_low]
  BY DEF Heartbeat
<1> HIDE DEF out
<1>3. Understood(out, kHeartbeatLen)
  BY <1>1, <1>2 DEF Understood, kHeartbeatLayoutVersion
<1>4. hb.uptime_s = word32(out[2], out[3], out[4], out[5])
  BY <1>1, <1>2, SumOfBytes
<1>5. heartbeat_unpack(out) = hb
  BY <1>1, <1>2, <1>4 DEF heartbeat_unpack
<1>6. QED
  BY <1>3, <1>5 DEF out

\* A frame that is understood is read for what it says: it is the frame its
\* sender packed, but for the reserved byte.
THEOREM PackUndoesUnpack ==
    \A in \in [0 .. kHeartbeatLen - 1 -> Byte] :
        Understood(in, kHeartbeatLen) =>
            /\ heartbeat_unpack(in) \in Heartbeat
            /\ \A i \in 0 .. 6 : heartbeat_pack(heartbeat_unpack(in))[i] = in[i]
<1> SUFFICES ASSUME NEW in \in [0 .. kHeartbeatLen - 1 -> Byte],
                    Understood(in, kHeartbeatLen)
             PROVE  /\ heartbeat_unpack(in) \in Heartbeat
                    /\ \A i \in 0 .. 6 :
                         heartbeat_pack(heartbeat_unpack(in))[i] = in[i]
  OBVIOUS
<1> DEFINE hb == heartbeat_unpack(in)
           u == word32(in[2], in[3], in[4], in[5])
<1>1. /\ in[2] \in Byte /\ in[3] \in Byte /\ in[4] \in Byte /\ in[5] \in Byte
      /\ in[6] \in Byte /\ in[0] = 1 /\ in[1] \in HeartbeatStates
  BY DEF kHeartbeatLen, Understood, kHeartbeatLayoutVersion
<1>2. hb = [state |-> in[1], uptime_s |-> u, sequence_low |-> in[6]]
  BY DEF heartbeat_unpack
<1> HIDE DEF u, hb
<1>3. /\ u \in Word32 /\ u % 256 = in[2] /\ shift8(u) % 256 = in[3]
      /\ shift8(shift8(u)) % 256 = in[4]
      /\ shift8(shift8(shift8(u))) % 256 = in[5]
  BY <1>1, BytesOfSum DEF u
<1>4. hb \in Heartbeat
  BY <1>1, <1>2, <1>3 DEF Heartbeat
<1>5. /\ hb.state = in[1] /\ hb.uptime_s = u /\ hb.sequence_low = in[6]
  BY <1>2
<1>6. \A i \in 0 .. 6 : heartbeat_pack(hb)[i] = in[i]
  <2>1. \A i \in 0 .. 6 : i \in {0, 1, 2, 3, 4, 5, 6}
    OBVIOUS
  <2>2. QED
    BY <1>1, <1>3, <1>4, <1>5, <2>1, PackedBytes
<1>7. QED
  BY <1>4, <1>6 DEF hb
=============================================================================
