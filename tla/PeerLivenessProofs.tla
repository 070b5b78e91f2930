------------------------- MODULE PeerLivenessProofs -------------------------
(***************************************************************************)
(* Theorems about PeerLiveness, for every timeout, poll interval, length   *)
(* of a publication and queue depth.                                       *)
(*                                                                         *)
(* The argument runs over rx_due, the moment by which rx_thread has        *)
(* returned to its loop: it ties the clock to the last drain of the queue, *)
(* and through the queue to the last beat.                                 *)
(***************************************************************************)
EXTENDS PeerLiveness, TLAPS

\* What may pass from one drain of the queue to the next.
Round == Loop + PubWait

\* What of a round may pass before rx_thread moves on from where it is.
Rest == IF rx_pc = "recv" THEN Round ELSE PubWait

\* rx_thread's present wait.
WaitInv ==
    /\ now <= rx_due
    /\ rx_pc = "recv" => rx_due <= now + Loop
    /\ rx_pc = "announce" => rx_due <= now + PubWait

\* Without a decodable beat among them, at most one frame a tick has arrived
\* since the last drain; a peer that is not of another layout has sent none in
\* this tick.
QueueInv ==
    FrameSeen
    \/ /\ Len(heartbeat_q) + (IF last_foreign = now THEN 0 ELSE 1) + (rx_due - now)
             <= 1 + Rest
       /\ mode # "foreign" => heartbeat_q = <<>> \/ last_foreign < now

\* What last_seen_ms says of the beats, and the state of last_seen_ms.
EvidenceInv ==
    /\ booted <= last_seen_ms
    /\ state = "unknown" => last_seen_ms = booted
    /\ FrameSeen \/ last_good <= last_seen_ms
    /\ FrameSeen => rx_due <= last_good + Rest
    /\ state = "online" => last_seen_ms <= last_good + Round
    /\ state # "offline" => rx_due < last_seen_ms + Timeout + Rest

\* What main() knows of the channel.
MainInv ==
    /\ evt_fd => chan # "none"
    /\ main_pc # "loop" => serving /\ chan # "none"
    /\ main_pc = "publish" /\ ~evt_fd /\ ~missed => main_status = chan

\* A healthy peer's state, for a MaxGap below the timeout.
BeatingInv ==
    mode = "beating" =>
        /\ now <= last_good + MaxGap
        /\ state # "online" /\ ~FrameSeen => last_good <= booted
        /\ state # "online" =>
              IF rx_pc = "recv" THEN \/ rx_due <= booted + MaxGap + Round
                                     \/ rx_due <= mode_since + Round
              ELSE rx_due <= mode_since + PubWait

-----------------------------------------------------------------------------
(* Types *)

LEMMA LoopType == Loop \in Nat /\ Round \in Nat
  BY TimingAssumption DEF TimingAssumption, Loop, Round

\* The queue never outgrows its depth, and holds frames only.
LEMMA QueueType ==
    ASSUME NEW f \in {"beat", "foreign"}, TypeOK
    PROVE  /\ Enqueue(f) \in Seq({"beat", "foreign"})
           /\ Len(Enqueue(f)) <= QueueDepth
  BY TimingAssumption DEF TimingAssumption, TypeOK, Enqueue

\* liveness_step() never goes back to PEER_UNKNOWN.
LEMMA NextStateType ==
    ASSUME TypeOK
    PROVE  /\ NextState \in {"unknown", "online", "offline"}
           /\ NextState # state => NextState # "unknown"
<1>1. CASE FrameSeen
  BY <1>1 DEF NextState
<1>2. CASE ~FrameSeen /\ Expired
  BY <1>2 DEF NextState
<1>3. CASE ~FrameSeen /\ ~Expired
  BY <1>3 DEF NextState, TypeOK
<1>4. QED
  BY <1>1, <1>2, <1>3

LEMMA FlagsType ==
    ASSUME TypeOK, [Next]_vars
    PROVE  Flags' \subseteq BOOLEAN
<1> USE DEF TypeOK, Flags, peerVars, mainVars
<1>1. CASE Tick \/ PeerChanges \/ Beat \/ RxStep
  BY <1>1 DEF Tick, Clock, PeerChanges, Beat, RxStep
<1>2. CASE RxAnnounce \/ Reboot
  BY <1>2, Zenon DEF RxAnnounce, Reboot
<1>3. CASE MainServes \/ MainReadFd \/ MainRead
  BY <1>3, Zenon DEF MainServes, MainReadFd, MainRead
<1>4. CASE MainPublish \/ MainDrops
  BY <1>4, Zenon DEF MainPublish, MainDrops
<1>5. CASE UNCHANGED vars
  BY <1>5 DEF vars
<1>6. QED
  BY <1>1, <1>2, <1>3, <1>4, <1>5 DEF Next

\* The type invariant: in particular no time the model records lies in the
\* future, and the queue of heartbeat_isr() keeps to its depth.
THEOREM TypeCorrect == Spec => []TypeOK
<1>1. Init => TypeOK
  <2>1. Init => Flags \subseteq BOOLEAN
    BY Zenon DEF Init, Flags
  <2>2. QED
    BY <2>1, TimingAssumption, LoopType DEF TimingAssumption, Init, TypeOK
<1>2. TypeOK /\ [Next]_vars => TypeOK'
  <2> SUFFICES ASSUME TypeOK, [Next]_vars PROVE TypeOK'
    OBVIOUS
  <2> USE TimingAssumption, LoopType, FlagsType DEF TimingAssumption, TypeOK, peerVars, mainVars
  <2>1. CASE Tick
    BY <2>1 DEF Tick, Clock
  <2>2. CASE PeerChanges
    BY <2>2 DEF PeerChanges
  <2>3. CASE Beat
    BY <2>3, QueueType DEF Beat
  <2>4. CASE RxStep
    BY <2>4, NextStateType DEF RxStep, LastSeen, Announces
  <2>5. CASE RxAnnounce
    BY <2>5 DEF RxAnnounce
  <2>6. CASE MainServes
    BY <2>6 DEF MainServes, Belief
  <2>7. CASE MainReadFd
    BY <2>7 DEF MainReadFd
  <2>8. CASE MainRead
    BY <2>8 DEF MainRead
  <2>9. CASE MainPublish
    BY <2>9 DEF MainPublish
  <2>10. CASE MainDrops
    BY <2>10 DEF MainDrops
  <2>11. CASE Reboot
    BY <2>11 DEF Reboot, FirstSeen
  <2>12. CASE UNCHANGED vars
    BY <2>12 DEF vars
  <2>13. QED
    BY <2>1, <2>2, <2>3, <2>4, <2>5, <2>6, <2>7, <2>8, <2>9, <2>10, <2>11,
       <2>12 DEF Next
<1>3. QED
  BY <1>1, <1>2, PTL DEF Spec

-----------------------------------------------------------------------------
(* rx_thread *)

RxInv == WaitInv /\ QueueInv /\ EvidenceInv /\ ChannelFollowsState

LEMMA QueueKept ==
    ASSUME heartbeat_q' = heartbeat_q PROVE FrameSeen' <=> FrameSeen
  BY DEF FrameSeen

LEMMA QueueDrained ==
    ASSUME heartbeat_q' = <<>> PROVE ~FrameSeen' /\ Len(heartbeat_q') = 0
  BY DEF FrameSeen

\* A frame that finds room is one more in the queue.
LEMMA QueueGrows ==
    ASSUME TypeOK, Len(heartbeat_q) < QueueDepth,
           NEW f \in {"beat", "foreign"}, heartbeat_q' = Enqueue(f)
    PROVE  /\ Len(heartbeat_q') = Len(heartbeat_q) + 1
           /\ FrameSeen' <=> FrameSeen \/ f = "beat"
<1>1. /\ heartbeat_q \in Seq({"beat", "foreign"})
      /\ heartbeat_q' = Append(heartbeat_q, f)
  BY DEF Enqueue, TypeOK
<1>2. Len(heartbeat_q') = Len(heartbeat_q) + 1
  BY <1>1
<1>3. \A i \in 1 .. Len(heartbeat_q) : heartbeat_q'[i] = heartbeat_q[i]
  BY <1>1
<1>4. heartbeat_q'[Len(heartbeat_q')] = f
  BY <1>1
<1>5. Len(heartbeat_q) \in Nat
  BY <1>1
<1>6. QED
  BY <1>2, <1>3, <1>4, <1>5 DEF FrameSeen

\* Until a decodable beat is in the queue, it has room for one whenever a frame
\* arrives ...
LEMMA RoomForABeat ==
    ASSUME TypeOK, WaitInv, QueueInv, ~FrameSeen,
           mode = "foreign" => last_foreign < now
    PROVE  Len(heartbeat_q) < QueueDepth
<1>1. Len(heartbeat_q) \in Nat /\ Len(<<>>) = 0
  BY DEF TypeOK
<1>2. CASE heartbeat_q = <<>>
  BY <1>1, <1>2, TimingAssumption DEF TimingAssumption
<1>3. CASE last_foreign < now
  BY <1>1, <1>3, TimingAssumption
  DEF TimingAssumption, TypeOK, WaitInv, QueueInv, Rest, Round, Loop
<1>4. QED
  BY <1>2, <1>3 DEF QueueInv

\* ... so that heartbeat_isr() may drop a beat, but never the only one.
LEMMA BeatIsSeen ==
    ASSUME TypeOK, WaitInv, QueueInv, mode # "foreign",
           heartbeat_q' = Enqueue("beat")
    PROVE  FrameSeen'
<1>1. CASE Len(heartbeat_q) < QueueDepth
  BY <1>1, QueueGrows
<1>2. CASE ~(Len(heartbeat_q) < QueueDepth)
  <2>1. FrameSeen
    BY <1>2, RoomForABeat
  <2>2. heartbeat_q' = heartbeat_q
    BY <1>2 DEF Enqueue
  <2>3. QED
    BY <2>1, <2>2, QueueKept
<1>3. QED
  BY <1>1, <1>2

LEMMA RxInvStep ==
    ASSUME TypeOK, TypeOK', RxInv, [Next]_vars
    PROVE  RxInv'
<1> USE TimingAssumption DEF TimingAssumption, RxInv, TypeOK, peerVars, mainVars
<1>l. Len(heartbeat_q) \in Nat /\ Loop \in Nat /\ Round \in Nat /\ PubWait \in Nat
  BY LoopType
<1>1. CASE Tick
  <2>1. FrameSeen' <=> FrameSeen
    BY <1>1, QueueKept DEF Tick, Clock
  <2>2. WaitInv' /\ QueueInv'
    BY <1>1, <2>1, <1>l DEF Tick, Clock, WaitInv, QueueInv, Rest
  <2>3. EvidenceInv'
    BY <1>1, <2>1 DEF Tick, Clock, EvidenceInv, Rest
  <2>4. ChannelFollowsState'
    BY <1>1 DEF Tick, Clock, ChannelFollowsState
  <2>5. QED
    BY <2>2, <2>3, <2>4
<1>2. CASE Beat
  <2>1. UNCHANGED <<booted, now, rx_pc, rx_due, state, last_seen_ms, chan>>
    BY <1>2 DEF Beat
  <2>2. WaitInv' /\ ChannelFollowsState'
    BY <2>1 DEF WaitInv, ChannelFollowsState
  <2>3. CASE mode = "foreign"
    <3>1. /\ heartbeat_q' = Enqueue("foreign") /\ mode' = "foreign"
          /\ last_foreign < now /\ last_foreign' = now /\ last_good' = last_good
      BY <1>2, <2>3 DEF Beat
    <3>2. CASE Len(heartbeat_q) < QueueDepth
      <4>1. Len(heartbeat_q') = Len(heartbeat_q) + 1 /\ (FrameSeen' <=> FrameSeen)
        BY <3>1, <3>2, QueueGrows
      <4>2. QueueInv'
        BY <2>1, <3>1, <4>1, <1>l DEF QueueInv, Rest
      <4>3. EvidenceInv'
        BY <2>1, <3>1, <4>1 DEF EvidenceInv, Rest
      <4>4. QED
        BY <2>2, <4>2, <4>3
    <3>3. CASE ~(Len(heartbeat_q) < QueueDepth)
      <4>1. FrameSeen /\ heartbeat_q' = heartbeat_q
        BY <3>1, <3>3, RoomForABeat DEF Enqueue
      <4>2. FrameSeen'
        BY <4>1, QueueKept
      <4>3. EvidenceInv'
        BY <2>1, <3>1, <4>1, <4>2 DEF EvidenceInv, Rest
      <4>4. QED
        BY <2>2, <4>2, <4>3 DEF QueueInv
    <3>4. QED
      BY <3>2, <3>3
  <2>4. CASE mode # "foreign"
    <3>1. heartbeat_q' = Enqueue("beat") /\ last_good' = now
      BY <1>2, <2>4 DEF Beat
    <3>2. FrameSeen'
      BY <2>4, <3>1, BeatIsSeen
    <3>3. EvidenceInv'
      BY <2>1, <3>1, <3>2, <1>l DEF EvidenceInv, WaitInv, Rest, Round, Loop
    <3>4. QED
      BY <2>2, <3>2, <3>3 DEF QueueInv
  <2>5. QED
    BY <2>3, <2>4
<1>3. CASE RxStep
  <2>1. ~FrameSeen' /\ Len(heartbeat_q') = 0
    BY <1>3, QueueDrained DEF RxStep
  <2>2. /\ rx_pc = "recv"
        /\ UNCHANGED <<booted, now, last_foreign, last_good, chan>>
        /\ last_seen_ms' = LastSeen /\ state' = NextState
        /\ \/ /\ NextState # state
              /\ rx_pc' = "announce" /\ rx_due' = now + PubWait
           \/ /\ NextState = state
              /\ rx_pc' = "recv" /\ rx_due' = now + Loop
    BY <1>3 DEF RxStep, Announces
  <2>3. WaitInv' /\ QueueInv'
    <3>1. now' = now /\ now >= 0
      BY <2>2
    <3>2. CASE rx_pc' = "announce" /\ rx_due' = now + PubWait
      BY <3>1, <3>2, <2>1, <1>l DEF WaitInv, QueueInv, Rest
    <3>3. CASE rx_pc' = "recv" /\ rx_due' = now + Loop
      BY <3>1, <3>3, <2>1, <1>l DEF WaitInv, QueueInv, Rest, Round
    <3>4. QED
      BY <3>2, <3>3, <2>2
  <2>4. CASE FrameSeen
    <3>1. last_seen_ms' = now /\ state' = "online"
      BY <2>2, <2>4 DEF LastSeen, NextState
    <3>2. EvidenceInv'
      BY <2>1, <2>2, <2>4, <3>1, <1>l DEF EvidenceInv, WaitInv, Rest, Round
    <3>3. QED
      BY <2>2, <2>3, <3>1, <3>2 DEF ChannelFollowsState
  <2>5. CASE ~FrameSeen /\ Expired
    <3>1. last_seen_ms' = last_seen_ms /\ state' = "offline"
      BY <2>2, <2>5 DEF LastSeen, NextState
    <3>2. EvidenceInv'
      BY <2>1, <2>2, <2>5, <3>1, <1>l DEF EvidenceInv
    <3>3. QED
      BY <2>2, <2>3, <3>1, <3>2 DEF ChannelFollowsState
  <2>6. CASE ~FrameSeen /\ ~Expired
    <3>1. last_seen_ms' = last_seen_ms /\ NextState = state
      BY <2>2, <2>6 DEF LastSeen, NextState
    <3>2. now - last_seen_ms < Timeout
      BY <2>6 DEF Expired
    <3>3. EvidenceInv'
      BY <2>1, <2>2, <2>6, <3>1, <3>2, <1>l DEF EvidenceInv, Rest, Round
    <3>4. QED
      BY <2>2, <2>3, <3>1, <3>3 DEF ChannelFollowsState
  <2>7. QED
    BY <2>4, <2>5, <2>6
<1>4. CASE RxAnnounce
  <2>1. FrameSeen' <=> FrameSeen
    BY <1>4, QueueKept DEF RxAnnounce
  <2>2. /\ rx_pc = "announce" /\ rx_pc' = "recv" /\ rx_due' = now + Loop
        /\ chan' = state
        /\ UNCHANGED <<booted, now, mode, last_foreign, last_good, heartbeat_q, state,
                       last_seen_ms>>
    BY <1>4 DEF RxAnnounce
  <2>3. WaitInv' /\ QueueInv'
    BY <2>1, <2>2, <1>l DEF WaitInv, QueueInv, Rest, Round
  <2>4. EvidenceInv'
    BY <2>1, <2>2, <1>l DEF EvidenceInv, WaitInv, Rest, Round
  <2>5. ChannelFollowsState'
    BY <2>2 DEF ChannelFollowsState
  <2>6. QED
    BY <2>3, <2>4, <2>5
<1>5. CASE Reboot
  <2>1. ~FrameSeen' /\ Len(heartbeat_q') = 0
    BY <1>5, QueueDrained DEF Reboot
  <2>2. WaitInv' /\ QueueInv'
    BY <1>5, <2>1, <1>l DEF Reboot, WaitInv, QueueInv, Rest, Round
  <2>3. EvidenceInv'
    BY <1>5, <2>1, <1>l DEF Reboot, FirstSeen, EvidenceInv, Rest, Round
  <2>4. ChannelFollowsState'
    BY <1>5 DEF Reboot, ChannelFollowsState
  <2>5. QED
    BY <2>2, <2>3, <2>4
<1>6. CASE UNCHANGED <<now, mode, last_foreign, last_good, heartbeat_q, rx_pc, rx_due,
                       state, last_seen_ms, chan, booted>>
  BY <1>6, QueueKept
  DEF WaitInv, QueueInv, EvidenceInv, ChannelFollowsState, Rest
<1>7. CASE PeerChanges
  <2>1. /\ FrameSeen' <=> FrameSeen
        /\ UNCHANGED <<now, last_foreign, last_good, heartbeat_q, rx_pc, rx_due,
                       state, last_seen_ms, chan, booted>>
        /\ mode = "foreign" => last_foreign < now
    BY <1>7, QueueKept DEF PeerChanges
  <2>2. QueueInv'
    BY <2>1 DEF QueueInv, Rest
  <2>3. QED
    BY <2>1, <2>2 DEF WaitInv, EvidenceInv, ChannelFollowsState, Rest
<1>8. QED
  <2>1. CASE MainServes \/ MainReadFd \/ MainRead
             \/ MainPublish \/ MainDrops \/ UNCHANGED vars
    BY <1>6, <2>1 DEF MainServes, MainReadFd, MainRead, MainPublish,
       MainDrops, vars
  <2>2. QED
    BY <1>1, <1>2, <1>3, <1>4, <1>5, <1>7, <2>1 DEF Next

LEMMA RxInvariant == Spec => [](TypeOK /\ RxInv)
<1>1. Init => RxInv
  <2>1. Init => ~FrameSeen /\ Len(heartbeat_q) = 0
    BY DEF Init, FrameSeen
  <2>2. QED
    BY <2>1, TimingAssumption, LoopType
    DEF TimingAssumption, Init, RxInv, WaitInv, QueueInv, EvidenceInv,
        ChannelFollowsState, Rest, Round
<1>2. TypeOK /\ TypeOK' /\ RxInv /\ [Next]_vars => RxInv'
  BY RxInvStep
<1>3. QED
  BY <1>1, <1>2, TypeCorrect, PTL DEF Spec

\* Unless it has said "offline", the relay has heard a beat, or has only begun to
\* listen, less than a timeout and one round ago.
THEOREM OfflineDecidedInTime == Spec => []DecisionInTime
<1>1. TypeOK /\ RxInv => DecisionInTime
  BY TimingAssumption, LoopType
  DEF TimingAssumption, TypeOK, RxInv, WaitInv, EvidenceInv, DecisionInTime,
      Rest, Round
<1>2. QED
  BY <1>1, RxInvariant, PTL

\* PEER_UNKNOWN does not outlast a timeout and one round.
LEMMA UnknownIsBrief == Spec => [](state = "unknown" => now - booted < Timeout + Round)
<1>1. TypeOK /\ RxInv => (state = "unknown" => now - booted < Timeout + Round)
  BY TimingAssumption, LoopType
  DEF TimingAssumption, TypeOK, RxInv, WaitInv, EvidenceInv, Rest, Round
<1>2. QED
  BY <1>1, RxInvariant, PTL

\* A peer whose last decodable beat is older than a timeout and two rounds is
\* not believed online, however the beats met the polls.
THEOREM DeadPeerIsOffline == Spec => []DeadIsOffline
<1>1. TypeOK /\ RxInv => DeadIsOffline
  BY TimingAssumption, LoopType
  DEF TimingAssumption, TypeOK, RxInv, WaitInv, EvidenceInv, DeadIsOffline,
      Rest, Round
<1>2. QED
  BY <1>1, RxInvariant, PTL

\* chan_relay_status holds rx_thread's last decision whenever rx_thread listens.
THEOREM ChannelHoldsState == Spec => []ChannelFollowsState
<1>1. RxInv => ChannelFollowsState
  BY DEF RxInv
<1>2. QED
  BY <1>1, RxInvariant, PTL

\* The step to PEER_OFFLINE is taken only after a timeout without a decodable
\* beat, counted from a moment at which the gateway was listening.
THEOREM OfflineOnlyAfterSilence == Spec => OfflineAfterSilence
<1>1. TypeOK /\ RxInv /\ [Next]_vars
      => [state # "offline" /\ state' = "offline"
          => now - last_good >= Timeout /\ now - booted >= Timeout]_vars
  <2> SUFFICES ASSUME TypeOK, RxInv, [Next]_vars,
                      state # "offline", state' = "offline"
               PROVE  now - last_good >= Timeout /\ now - booted >= Timeout
    OBVIOUS
  <2>1. RxStep
    BY DEF Next, vars, Tick, Clock, PeerChanges, Beat, RxAnnounce, MainServes,
       MainReadFd, MainRead, MainPublish, MainDrops, Reboot
  <2>2. ~FrameSeen /\ Expired
    BY <2>1 DEF RxStep, NextState
  <2>3. QED
    BY <2>2, TimingAssumption
    DEF TimingAssumption, TypeOK, RxInv, EvidenceInv, Expired
<1>2. QED
  BY <1>1, RxInvariant, PTL DEF Spec, OfflineAfterSilence

-----------------------------------------------------------------------------
(* main() and the retained topic *)

RelayInv == MainInv /\ RetainedFollowsChannel

LEMMA RelayInvStep ==
    ASSUME TypeOK, RelayInv, [Next]_vars
    PROVE  RelayInv'
<1> USE DEF RelayInv, MainInv, RetainedFollowsChannel, mainVars
<1>1. CASE UNCHANGED <<chan, evt_fd, mainVars, missed>>
  BY <1>1
<1>2. CASE RxAnnounce
  <2>1. state # "none" /\ chan' = state /\ UNCHANGED mainVars
    BY <1>2 DEF RxAnnounce, TypeOK
  <2>2. CASE evt_fd' = TRUE
    BY <2>1, <2>2, Zenon
  <2>3. CASE missed' = TRUE /\ evt_fd' = evt_fd
    BY <2>1, <2>3, Zenon
  <2>4. QED
    BY <1>2, <2>2, <2>3 DEF RxAnnounce
<1>3. CASE MainServes
  BY <1>3, Zenon DEF MainServes, Belief
<1>4. CASE MainReadFd
  BY <1>4, Zenon DEF MainReadFd
<1>5. CASE MainRead
  BY <1>5, Zenon DEF MainRead
<1>6. CASE MainPublish
  BY <1>6, Zenon DEF MainPublish
<1>7. CASE MainDrops
  BY <1>7, Zenon DEF MainDrops
<1>8. CASE Reboot
  BY <1>8, Zenon DEF Reboot
<1>9. QED
  <2>1. CASE Tick \/ PeerChanges \/ Beat \/ RxStep \/ UNCHANGED vars
    BY <1>1, <2>1 DEF Tick, Clock, PeerChanges, Beat, RxStep, vars
  <2>2. QED
    BY <1>2, <1>3, <1>4, <1>5, <1>6, <1>7, <1>8, <2>1 DEF Next

\* With the peer session up and no signal outstanding, the retained topic says
\* what chan_relay_status holds, unless an announcement failed.
THEOREM RetainedIsCurrent == Spec => []RetainedFollowsChannel
<1>1. Init => RelayInv
  BY Zenon DEF Init, RelayInv, MainInv, RetainedFollowsChannel
<1>2. TypeOK /\ RelayInv /\ [Next]_vars => RelayInv'
  BY RelayInvStep
<1>3. RelayInv => RetainedFollowsChannel
  BY DEF RelayInv
<1>4. QED
  BY <1>1, <1>2, <1>3, TypeCorrect, PTL DEF Spec

-----------------------------------------------------------------------------
(* A healthy peer *)

\* While the peer beats, rx_thread never takes the step to PEER_OFFLINE.
LEMMA BeatingNotOffline ==
    ASSUME MaxGap < Timeout, TypeOK, RxInv, BeatingInv,
           mode = "beating", ~FrameSeen
    PROVE  ~Expired
  BY TimingAssumption
  DEF TimingAssumption, TypeOK, RxInv, EvidenceInv, BeatingInv, Expired

LEMMA BeatingInvStep ==
    ASSUME MaxGap < Timeout, TypeOK, TypeOK', RxInv, BeatingInv, [Next]_vars
    PROVE  BeatingInv'
<1> USE TimingAssumption DEF TimingAssumption, TypeOK, peerVars, mainVars
<1>l. Loop \in Nat /\ Round \in Nat /\ PubWait \in Nat /\ Round = Loop + PubWait
  BY LoopType DEF Round
<1> SUFFICES ASSUME mode' = "beating" PROVE BeatingInv'
  BY DEF BeatingInv
<1>1. CASE Tick
  <2>1. FrameSeen' <=> FrameSeen
    BY <1>1, QueueKept DEF Tick, Clock
  <2>2. QED
    BY <1>1, <2>1 DEF Tick, Clock, BeatingInv
<1>2. CASE PeerChanges
  BY <1>2 DEF PeerChanges
<1>3. CASE Beat
  <2>1. heartbeat_q' = Enqueue("beat")
    BY <1>3 DEF Beat
  <2>2. FrameSeen'
    BY <1>3, <2>1, BeatIsSeen DEF Beat, RxInv
  <2>3. CASE mode = "beating"
    BY <1>3, <2>2, <2>3, <1>l DEF Beat, BeatingInv
  <2>4. CASE mode = "silent"
    BY <1>3, <2>2, <2>4, <1>l DEF Beat, BeatingInv, RxInv, WaitInv
  <2>5. QED
    BY <1>3, <2>3, <2>4 DEF Beat
<1>4. CASE RxStep
  <2>1. /\ rx_pc = "recv" /\ mode = "beating"
        /\ UNCHANGED <<booted, now, mode, mode_since, last_good>>
        /\ state' = NextState
        /\ rx_due' = now + PubWait \/ rx_due' = now + Loop
    BY <1>4 DEF RxStep
  <2>2. CASE FrameSeen
    <3>1. state' = "online"
      BY <2>1, <2>2 DEF NextState
    <3>2. QED
      BY <2>1, <3>1 DEF BeatingInv
  <2>3. CASE ~FrameSeen
    <3>1. ~Expired
      BY <2>1, <2>3, BeatingNotOffline
    <3>2. NextState = state
      BY <2>3, <3>1 DEF NextState
    <3>3. state' = state /\ rx_pc' = "recv"
      BY <1>4, <3>2 DEF RxStep, Announces
    <3>4. QED
      BY <2>1, <2>3, <3>3, <1>l DEF BeatingInv
  <2>4. QED
    BY <2>2, <2>3
<1>5. CASE RxAnnounce
  <2>1. FrameSeen' <=> FrameSeen
    BY <1>5, QueueKept DEF RxAnnounce
  <2>2. QED
    BY <1>5, <2>1, <1>l DEF RxAnnounce, BeatingInv, RxInv, WaitInv
<1>6. CASE Reboot
  BY <1>6, <1>l DEF Reboot, BeatingInv
<1>7. CASE UNCHANGED <<now, mode, mode_since, last_good, heartbeat_q, rx_pc,
                       rx_due, state, booted>>
  BY <1>7, QueueKept DEF BeatingInv
<1>8. QED
  <2>1. CASE MainServes \/ MainReadFd \/ MainRead \/ MainPublish
             \/ MainDrops \/ UNCHANGED vars
    BY <1>7, <2>1 DEF MainServes, MainReadFd, MainRead, MainPublish,
       MainDrops, vars
  <2>2. QED
    BY <1>1, <1>2, <1>3, <1>4, <1>5, <1>6, <2>1 DEF Next

LEMMA BeatingInvariant ==
    ASSUME MaxGap < Timeout
    PROVE  Spec => [](TypeOK /\ RxInv /\ BeatingInv)
<1>1. Init => BeatingInv
  BY DEF Init, BeatingInv
<1>2. TypeOK /\ TypeOK' /\ RxInv /\ BeatingInv /\ [Next]_vars => BeatingInv'
  BY BeatingInvStep
<1>3. QED
  BY <1>1, <1>2, RxInvariant, PTL DEF Spec

\* A peer whose beats are less than a timeout apart is online as soon as it has
\* been beating for one round, and the gateway listening for a gap and a round.
THEOREM HealthyPeerIsOnline ==
    ASSUME MaxGap < Timeout
    PROVE  Spec => []HealthyIsOnline
<1>1. TypeOK /\ RxInv /\ BeatingInv => HealthyIsOnline
  BY TimingAssumption, LoopType
  DEF TimingAssumption, TypeOK, RxInv, WaitInv, BeatingInv, HealthyIsOnline,
      Round
<1>2. QED
  BY <1>1, BeatingInvariant, PTL

\* Beats that go missing raise no alarm as long as those that arrive are less
\* than a timeout apart: with a beat a second and a timeout of 3.5 s, two in a
\* row may.
THEOREM LostBeatsTolerated ==
    ASSUME MaxGap < Timeout
    PROVE  Spec => NoFalseAlarm
<1>1. TypeOK /\ RxInv /\ BeatingInv /\ [Next]_vars
      => [state = "online" /\ state' = "offline" => mode # "beating"]_vars
  <2> SUFFICES ASSUME TypeOK, RxInv, BeatingInv, [Next]_vars,
                      state = "online", state' = "offline", mode = "beating"
               PROVE  FALSE
    OBVIOUS
  <2>1. RxStep
    BY DEF Next, vars, Tick, Clock, PeerChanges, Beat, RxAnnounce, MainServes,
       MainReadFd, MainRead, MainPublish, MainDrops, Reboot
  <2>2. ~FrameSeen /\ Expired
    BY <2>1 DEF RxStep, NextState
  <2>3. QED
    BY <2>2, BeatingNotOffline
<1>2. QED
  BY <1>1, BeatingInvariant, PTL DEF Spec, NoFalseAlarm
=============================================================================
