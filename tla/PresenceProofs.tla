--------------------------- MODULE PresenceProofs ---------------------------
(***************************************************************************)
(* What the two nodes guarantee together, for every period, timeout, poll  *)
(* interval and queue depth, as long as the longest gap between two beats  *)
(* of the peer's loop is below the gateway's timeout: 3 s and 3.5 s.       *)
(*                                                                         *)
(* JoinInv ties the two clocks together: the peer's silence is the age of  *)
(* the last beat the gateway heard.  With it each step of both is a step   *)
(* of the gateway's half as PeerLiveness has it, clock included, and the   *)
(* theorems about either half hold of the whole.                           *)
(***************************************************************************)
EXTENDS Presence, TLAPS

JoinInv ==
    /\ now \in Nat /\ last_good \in Nat /\ link_since \in Nat /\ silence \in Nat
    /\ mode_since \in Nat
    /\ link_since <= now /\ last_good <= now
    /\ mode \in {"beating", "silent"}
    /\ mode = "beating" =>
         Acked /\ last_good + silence = now /\ mode_since <= link_since + MaxGap
    /\ mode = "silent" /\ Acked => silence = now - link_since
    /\ ~Acked => last_good <= link_since

-----------------------------------------------------------------------------
(* The peer's half *)

LEMMA PeerSteps == [Next]_vars => [Peer!Next]_(Peer!vars)
<1> SUFFICES ASSUME [Next]_vars PROVE Peer!Next \/ UNCHANGED Peer!vars
  OBVIOUS
<1>1. UNCHANGED peerVars => UNCHANGED Peer!vars
  BY DEF peerVars, Peer!vars, Peer!busVars, Peer!beatVars, Peer!linkVars,
         Peer!dataVars, Peer!histVars
<1>2. CASE Tick \/ BusChanges \/ PeerRestarts
  BY <1>2 DEF Tick, BusChanges, PeerRestarts, Peer!Next
<1>3. CASE BeatArrives
  BY <1>3 DEF BeatArrives, Peer!Next
<1>4. CASE PeerRuns
  BY <1>4 DEF PeerRuns, Peer!Next
<1>5. CASE GatewayRuns
  BY <1>1, <1>5 DEF GatewayRuns
<1>6. CASE UNCHANGED vars
  BY <1>1, <1>6 DEF vars
<1>7. QED
  BY <1>2, <1>3, <1>4, <1>5, <1>6 DEF Next

LEMMA PeerHalf == Spec => Peer!Spec
<1>1. Init => Peer!Init
  BY DEF Init
<1>2. QED
  BY <1>1, PeerSteps, PTL DEF Spec, Peer!Spec

\* Beats come in time here as they do in PeerLink.
LEMMA BeatsKeepComing ==
    ASSUME Peer!PeerLinkAssumption
    PROVE  Spec => [](Peer!BeatsKeepComing)
BY PeerHalf, Peer!BeatsComeInTime, PTL

-----------------------------------------------------------------------------
(* The gateway's half *)

\* What the last beat, the silence and the link have to do with each other.
LEMMA JoinStep ==
    ASSUME Peer!PeerLinkAssumption, JoinInv, Peer!BeatsKeepComing, [Next]_vars
    PROVE  JoinInv'
<1> USE DEF JoinInv, Acked
<1>l. MaxGap \in Nat /\ silence <= MaxGap
  BY DEF Peer!PeerLinkAssumption, MaxGap, Peer!BeatsKeepComing, Peer!MaxGap
<1>1. CASE Tick
  BY <1>1 DEF Tick, Peer!Tick, Peer!Acked, Peer!busVars, Gateway!Clock,
              Gateway!peerVars
<1>2. CASE BeatArrives
  <2>1. Acked /\ bus' = bus /\ silence' = 0
    BY <1>2 DEF BeatArrives, Peer!HeartbeatSent, Peer!Acked
  <2>2. /\ mode' = "beating" /\ last_good' = now
        /\ mode_since' = IF mode = "beating" THEN mode_since ELSE now
        /\ now' = now /\ link_since' = link_since
    BY <1>2 DEF BeatArrives, Gateway!Beat
  <2>3. QED
    BY <2>1, <2>2, <1>l
<1>3. ASSUME FallsSilent
      PROVE  /\ mode' = "silent" /\ mode_since' \in {mode_since, now}
             /\ now' = now /\ last_good' = last_good
  BY <1>3 DEF FallsSilent, Gateway!PeerChanges, gatewayVars
<1>4. CASE BusChanges
  <2>1. /\ silence' = IF Acked /\ bus' = "acked" THEN silence ELSE 0
        /\ link_since' = IF Acked = (bus' = "acked") THEN link_since ELSE now
    BY <1>4 DEF BusChanges, Peer!BusChanges, Peer!Acked
  <2>2. CASE Acked /\ bus' # "acked"
    BY <1>3, <1>4, <2>1, <2>2 DEF BusChanges
  <2>3. CASE ~(Acked /\ bus' # "acked")
    <3>1. UNCHANGED gatewayVars
      BY <1>4, <2>3 DEF BusChanges
    <3>2. QED
      BY <2>1, <2>3, <3>1 DEF gatewayVars
  <2>4. QED
    BY <2>2, <2>3
<1>5. CASE PeerRestarts
  <2>1. /\ silence' = 0 /\ (Acked' <=> Acked)
        /\ link_since' = IF Acked THEN now ELSE link_since
    BY <1>5 DEF PeerRestarts, Peer!Restart
  <2>2. QED
    BY <1>3, <1>5, <2>1 DEF PeerRestarts
<1>6. CASE PeerRuns
  <2>1. UNCHANGED gatewayVars /\ link_since' = link_since /\ bus' = bus
        /\ \/ silence' = silence
           \/ silence' = 0 /\ ~Acked
    BY <1>6 DEF PeerRuns, Peer!Loop, Peer!busVars, Peer!histVars, Peer!Acked,
       Peer!BeatDue, Peer!BusOff, Peer!Wait, Peer!CanSend, Peer!CanSendFails,
       Peer!CountBeat, Peer!ReadError, Peer!BeatVerdict, Peer!RecvTimeout,
       Peer!RecvCommand, Peer!Answered, Peer!NoReading, Peer!TakeReading,
       Peer!ReadAndSend, Peer!ReadAndStall, Peer!ReadAndSkip,
       Peer!TelemetrySent, Peer!TelemetryFails, Peer!Publish,
       Peer!PublishFails, Peer!HeartbeatSent
  <2>2. QED
    BY <2>1 DEF gatewayVars
<1>7. CASE GatewayRuns
  <2>1. /\ UNCHANGED peerVars /\ link_since' = link_since
        /\ UNCHANGED <<now, mode, mode_since, last_good>>
    BY <1>7 DEF GatewayRuns, Gateway!peerVars, Gateway!RxStep,
       Gateway!RxAnnounce, Gateway!MainServes, Gateway!MainReadFd,
       Gateway!MainRead, Gateway!MainPublish, Gateway!MainDrops,
       Gateway!Reboot
  <2>2. QED
    BY <2>1 DEF peerVars
<1>8. CASE UNCHANGED vars
  BY <1>8 DEF vars, peerVars, gatewayVars
<1>9. QED
  BY <1>1, <1>2, <1>4, <1>5, <1>6, <1>7, <1>8 DEF Next

LEMMA JoinAlways ==
    ASSUME Peer!PeerLinkAssumption
    PROVE  Spec => [](JoinInv /\ Peer!BeatsKeepComing)
<1>1. Init => JoinInv
  BY DEF Init, Peer!Init, Gateway!Init, JoinInv, Acked
<1>2. JoinInv /\ Peer!BeatsKeepComing /\ [Next]_vars => JoinInv'
  BY JoinStep
<1>3. QED
  BY <1>1, <1>2, BeatsKeepComing, PTL DEF Spec

\* The clock never has to wait for a beat: the next one is there in time.
LEMMA GatewaySteps ==
    ASSUME Peer!PeerLinkAssumption, JoinInv, Peer!BeatsKeepComing', [Next]_vars
    PROVE  [Gateway!Next]_(Gateway!vars)
<1>1. UNCHANGED gatewayVars => UNCHANGED Gateway!vars
  BY DEF gatewayVars, Gateway!vars, Gateway!peerVars, Gateway!mainVars
<1>2. CASE Tick
  <2>1. mode = "beating" => now < last_good + MaxGap
    <3> SUFFICES ASSUME mode = "beating" PROVE now < last_good + MaxGap
      OBVIOUS
    <3>1. Acked /\ last_good + silence = now /\ silence \in Nat /\ last_good \in Nat
      BY DEF JoinInv
    <3>2. silence' = silence + 1
      BY <1>2, <3>1 DEF Tick, Peer!Tick, Peer!Acked, Acked
    <3>3. silence' <= MaxGap /\ MaxGap \in Nat
      BY DEF Peer!PeerLinkAssumption, MaxGap, Peer!BeatsKeepComing, Peer!MaxGap
    <3>4. QED
      BY <3>1, <3>2, <3>3
  <2>2. Gateway!Tick
    BY <1>2, <2>1 DEF Tick, Gateway!Tick
  <2>3. QED
    BY <2>2 DEF Gateway!Next
<1>3. CASE BeatArrives
  BY <1>3 DEF BeatArrives, Gateway!Next
<1>4. FallsSilent => Gateway!Next \/ UNCHANGED Gateway!vars
  BY <1>1 DEF FallsSilent, Gateway!Next
<1>5. CASE BusChanges \/ PeerRestarts
  BY <1>1, <1>4, <1>5 DEF BusChanges, PeerRestarts
<1>6. CASE PeerRuns
  BY <1>1, <1>6 DEF PeerRuns
<1>7. CASE GatewayRuns
  BY <1>7 DEF GatewayRuns, Gateway!Next
<1>8. CASE UNCHANGED vars
  BY <1>1, <1>8 DEF vars
<1>9. QED
  BY <1>2, <1>3, <1>5, <1>6, <1>7, <1>8 DEF Next

\* can_link.h:188-195: with the peer's loop at the other end of the bus, the
\* gateway's half behaves as PeerLiveness says, which has the gap between two
\* beats as an assumption.
THEOREM PeerKeepsItsPace ==
    ASSUME Peer!PeerLinkAssumption
    PROVE  Spec => KeepsPeerLiveness
<1>1. Init => Gateway!Init
  BY DEF Init
<1>2. JoinInv /\ Peer!BeatsKeepComing' /\ [Next]_vars => [Gateway!Next]_(Gateway!vars)
  BY GatewaySteps
<1>3. QED
  BY <1>1, <1>2, JoinAlways, PTL DEF Spec, KeepsPeerLiveness, Gateway!Spec

-----------------------------------------------------------------------------
(* From the bus to the retained topic *)

\* The constants the build has: the peer's own, the gateway's, and a timeout
\* beyond the longest gap.
Timing ==
    Peer!PeerLinkAssumption /\ Gateway!TimingAssumption /\ MaxGap < Timeout

LEMMA Numbers ==
    ASSUME Timing
    PROVE  /\ MaxGap \in Nat /\ Round \in Nat /\ Timeout \in Nat
           /\ Gateway!Round = Round /\ Gateway!Loop + PubWait = Round
BY DEF Timing, Peer!PeerLinkAssumption, Gateway!TimingAssumption, MaxGap, Round,
       Gateway!Round, Gateway!Loop

\* What is proved of either half, and of what joins them.
Known ==
    /\ JoinInv /\ Peer!BeatsKeepComing /\ Gateway!TypeOK
    /\ Gateway!HealthyIsOnline /\ Gateway!DeadIsOffline
    /\ Gateway!ChannelFollowsState /\ Gateway!RetainedFollowsChannel
    /\ state = "unknown" => now - booted < Timeout + Round

LEMMA GatewayHalf ==
    ASSUME Timing
    PROVE  Spec => [](Known) /\ Gateway!NoFalseAlarm
<1>1. Peer!PeerLinkAssumption /\ Gateway!TimingAssumption /\ MaxGap < Timeout
  BY DEF Timing
<1>2. Spec => Gateway!Spec
  BY <1>1, PeerKeepsItsPace DEF KeepsPeerLiveness
<1>3. Spec => [](JoinInv /\ Peer!BeatsKeepComing)
  BY <1>1, JoinAlways
<1>4. Gateway!Spec => [](Gateway!TypeOK)
  BY <1>1, Gateway!TypeCorrect
<1>5. Gateway!Spec => [](Gateway!HealthyIsOnline)
  BY <1>1, Gateway!HealthyPeerIsOnline
<1>6. Gateway!Spec => [](Gateway!DeadIsOffline)
  BY <1>1, Gateway!DeadPeerIsOffline
<1>7. Gateway!Spec => [](Gateway!ChannelFollowsState)
  BY <1>1, Gateway!ChannelHoldsState
<1>8. Gateway!Spec => [](Gateway!RetainedFollowsChannel)
  BY <1>1, Gateway!RetainedIsCurrent
<1>9. Gateway!Spec => [](state = "unknown" => now - booted < Timeout + Gateway!Round)
  BY <1>1, Gateway!UnknownIsBrief
<1>10. (state = "unknown" => now - booted < Timeout + Gateway!Round)
         => (state = "unknown" => now - booted < Timeout + Round)
  BY Numbers
<1>11. Gateway!Spec => Gateway!NoFalseAlarm
  BY <1>1, Gateway!LostBeatsTolerated
<1>12. QED
  BY <1>2, <1>3, <1>4, <1>5, <1>6, <1>7, <1>8, <1>9,
     <1>10, <1>11, PTL DEF Known

LEMMA SeenWhenLinked ==
    ASSUME Timing, Known
    PROVE  LinkIsSeen
<1> SUFFICES ASSUME Acked, now - link_since > MaxGap + Round,
                    now - booted > MaxGap + Round
             PROVE  state = "online"
  BY DEF LinkIsSeen
<1>1. silence <= MaxGap
  BY DEF Known, Peer!BeatsKeepComing, Peer!MaxGap, MaxGap
<1>2. mode = "beating" /\ mode_since <= link_since + MaxGap
  BY <1>1, Numbers DEF Known, JoinInv
<1>3. now - mode_since > Round /\ booted \in Nat
  BY <1>2, Numbers DEF Known, JoinInv, Gateway!TypeOK
<1>4. /\ now - mode_since > Gateway!Loop + PubWait
      /\ now - booted > MaxGap + Gateway!Loop + PubWait
  BY <1>3, Numbers DEF Timing, Gateway!TimingAssumption, Gateway!Loop, Round
<1>5. QED
  BY <1>2, <1>4 DEF Known, Gateway!HealthyIsOnline

LEMMA SeenWhenParted ==
    ASSUME Timing, Known
    PROVE  PartingIsSeen
<1> SUFFICES ASSUME ~Acked, now - link_since > Timeout + 2 * Round
             PROVE  state # "online"
  BY DEF PartingIsSeen
<1>1. last_good <= link_since /\ now - last_good > Timeout + 2 * Round
  BY Numbers DEF Known, JoinInv
<1>2. now - last_good > Timeout + 2 * (Gateway!Loop + PubWait)
  BY <1>1, Numbers DEF Timing, Gateway!TimingAssumption, Gateway!Loop, Round
<1>3. QED
  BY <1>2 DEF Known, Gateway!DeadIsOffline

\* A peer that has been on an acknowledging bus for a gap and a round of
\* rx_thread is online, whatever becomes of commands, readings and transfers.
THEOREM TheLinkIsSeen ==
    ASSUME Timing
    PROVE  Spec => []LinkIsSeen
<1>1. Known => LinkIsSeen
  BY SeenWhenLinked
<1>2. QED
  BY <1>1, GatewayHalf, PTL

\* One that has been off the bus for a timeout and two rounds is not believed
\* online.
THEOREM ThePartingIsSeen ==
    ASSUME Timing
    PROVE  Spec => []PartingIsSeen
<1>1. Known => PartingIsSeen
  BY SeenWhenParted
<1>2. QED
  BY <1>1, GatewayHalf, PTL

\* relay.h:131-136: once the first beat after a change of the link is through,
\* the gateway raises no false alarm for as long as the link lasts.
THEOREM TheLinkKeepsThePeerOnline ==
    ASSUME Timing
    PROVE  Spec => LinkKeepsOnline
<1>1. Known /\ [Next]_vars
        /\ [state = "online" /\ state' = "offline" => mode # "beating"]_(Gateway!vars)
      => [state = "online" /\ state' = "offline"
          => ~Acked \/ now - link_since <= MaxGap]_vars
  <2> SUFFICES ASSUME Known, state = "online", state' = "offline", Acked,
                      [state = "online" /\ state' = "offline"
                         => mode # "beating"]_(Gateway!vars)
               PROVE  now - link_since <= MaxGap
    OBVIOUS
  <2>1. mode # "beating"
    BY DEF Gateway!vars
  <2>2. silence = now - link_since
    BY <2>1 DEF Known, JoinInv
  <2>3. QED
    BY <2>2 DEF Known, Peer!BeatsKeepComing, Peer!MaxGap, MaxGap
<1>2. Spec => [](Known) /\ Gateway!NoFalseAlarm
  BY GatewayHalf
<1>3. QED
  BY <1>1, <1>2, PTL DEF Spec, LinkKeepsOnline, Gateway!NoFalseAlarm

\* What a subscriber reads in node/2/status is how things are on the bus, once
\* the link and the gateway have been as they are for a timeout and two rounds,
\* main() has done what there is to do, and no announcement failed.
THEOREM TheTopicTellsTheLink ==
    ASSUME Timing
    PROVE  Spec => []TopicTellsLink
<1>1. Known => TopicTellsLink
  <2> SUFFICES ASSUME Known, Settled
               PROVE  retained = IF Acked THEN "online" ELSE "offline"
    BY DEF TopicTellsLink
  <2>1. /\ now - link_since > Timeout + 2 * Round
        /\ now - booted > Timeout + 2 * Round
        /\ now \in Nat /\ link_since \in Nat /\ booted \in Nat
    BY DEF Settled, Known, JoinInv, Gateway!TypeOK
  <2>2. state # "unknown"
    BY <2>1, Numbers DEF Known
  <2>3. chan = state /\ state \in {"online", "offline"}
    BY <2>2 DEF Known, Settled, Gateway!ChannelFollowsState, Gateway!TypeOK
  <2>4. retained = state
    BY <2>3 DEF Known, Settled, Gateway!RetainedFollowsChannel
  <2>5. CASE Acked
    <3>1. now - link_since > MaxGap + Round /\ now - booted > MaxGap + Round
      BY <2>1, Numbers DEF Timing
    <3>2. state = "online"
      BY <2>5, <3>1, SeenWhenLinked DEF LinkIsSeen
    <3>3. QED
      BY <2>4, <2>5, <3>2
  <2>6. CASE ~Acked
    <3>1. state # "online"
      BY <2>1, <2>6, SeenWhenParted DEF PartingIsSeen
    <3>2. QED
      BY <2>3, <2>4, <2>6, <3>1
  <2>7. QED
    BY <2>5, <2>6
<1>2. QED
  BY <1>1, GatewayHalf, PTL
=============================================================================
