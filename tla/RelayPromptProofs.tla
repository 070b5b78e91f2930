------------------------- MODULE RelayPromptProofs -------------------------
(***************************************************************************)
(* What the relay guarantees when the premise of kAckWaitMs holds          *)
(* (relay.cpp:65-67): no Ack arrives after tx_thread has stopped waiting   *)
(* for it.  The runs that set Prompt to FALSE show that these theorems     *)
(* need it.                                                                *)
(***************************************************************************)
EXTENDS RelayProofs

-----------------------------------------------------------------------------
(* One command at a time *)

Idle == down = <<>> /\ up = <<>> /\ ~InHand

\* While tx_thread waits, its command is in one of four places.
Phase ==
    \/ Idle
    \/ down = <<cmd>> /\ up = <<>> /\ ~InHand
    \/ down = <<>> /\ up = <<cmd>> /\ ~InHand
    \/ down = <<>> /\ up = <<>> /\ InHand /\ msg["rx"] = AckOf(cmd, "peer")

SerialInv ==
    /\ pc["tx"] # "ack_wait" => Idle
    /\ pc["tx"] = "ack_wait" => Phase
    /\ pc["tx"] = "ack_wait" /\ ack_received = 1 => Idle /\ giver = cmd
    /\ pc["tx"] = "send" => ack_received = 0

\* Under the premise a wait that ends leaves nothing of its command behind.
LEMMA NothingLeft ==
    ASSUME Prompt, SerialInv, TxTimeout
    PROVE  Idle
<1>1. ~OnItsWay(cmd)
  BY Zenon DEF TxTimeout, WaitEnds
<1>2. Phase
  BY DEF TxTimeout, SerialInv
<1>3. down # <<cmd>>
  BY <1>1 DEF OnItsWay
<1>4. up # <<cmd>>
  BY <1>1 DEF OnItsWay
<1>5. ~(InHand /\ msg["rx"] = AckOf(cmd, "peer"))
  BY <1>1 DEF OnItsWay, InHand
<1>6. QED
  BY <1>2, <1>3, <1>4, <1>5 DEF Phase

LEMMA SerialStep ==
    ASSUME Prompt, TypeInv, TypeInv', SerialInv, [Next]_vars
    PROVE  SerialInv'
<1> USE DEF TypeInv, TypeOK, ThreadInv, Threads, rxVars, txVars, busVars, mainVars
<1>1. CASE TxTakeCommand
  BY <1>1 DEF TxTakeCommand, SerialInv, Idle, InHand
<1>2. CASE TxSend
  <2>1. Idle /\ ack_received = 0 /\ down' = <<cmd>>
    BY <1>2 DEF TxSend, SerialInv, Idle
  <2>2. QED
    BY <1>2, <2>1 DEF TxSend, AfterSend, SerialInv, Phase, Idle, InHand
<1>3. CASE TxSendFails
  <2>1. down' = down
    BY <1>3, Zenon DEF TxSendFails
  <2>2. QED
    BY <1>3, <2>1 DEF TxSendFails, AnswerForPeer, SerialInv, Idle, InHand
<1>4. CASE TxAcked
  BY <1>4 DEF TxAcked, SerialInv, Idle, InHand
<1>5. CASE TxTimeout
  <2>1. Idle
    BY <1>5, NothingLeft
  <2>2. QED
    BY <1>5, <2>1 DEF TxTimeout, AnswerForPeer, SerialInv, Idle, InHand
<1>6. CASE PublishUp("tx")
  <2>1. /\ pc["tx"] \in {"lock", "notify"} /\ pc'["tx"] \in {"notify", "wait_msg"}
        /\ pc'["rx"] = pc["rx"]
        /\ UNCHANGED <<msg, down, up>>
    BY <1>6 DEF PublishUp, PubWrite, PubLockTimeout, PubNotify, PubNoSlot, After
  <2>2. QED
    BY <2>1 DEF SerialInv, Idle, InHand
<1>7. CASE PublishUp("rx")
  <2>1. /\ pc["rx"] # "recv" /\ pc'["tx"] = pc["tx"]
        /\ pc'["rx"] = "recv" => msg["rx"].chan # "ack"
        /\ UNCHANGED <<msg, down, up, cmd, ack_received, giver>>
    BY <1>7 DEF PublishUp, PubWrite, PubLockTimeout, PubNotify, PubNoSlot, After
  <2>2. InHand' = InHand
    BY <2>1 DEF InHand
  <2>3. QED
    BY <2>1, <2>2 DEF SerialInv, Phase, Idle
<1>8. CASE RxRecvAck
  <2>1. pc["rx"] = "recv" /\ up # <<>>
    BY <1>8 DEF RxRecvAck
  <2>2. /\ pc["tx"] = "ack_wait" /\ ack_received # 1
        /\ down = <<>> /\ up = <<cmd>>
    BY <2>1 DEF SerialInv, Phase, Idle, InHand
  <2>3. up' = <<>> /\ msg'["rx"] = AckOf(cmd, "peer") /\ pc'["rx"] = "lock"
    BY <1>8, <2>2 DEF RxRecvAck
  <2>4. QED
    BY <1>8, <2>2, <2>3, AckFacts DEF RxRecvAck, SerialInv, Phase, InHand
<1>9. CASE RxRecvTelemetry
  <2>1. PICK n : msg' = [msg EXCEPT !["rx"] = ReadingOf(n)]
    BY <1>9 DEF RxRecvTelemetry
  <2>2. msg'["rx"].chan = "telemetry" /\ pc["rx"] = "recv"
    BY <1>9, <2>1 DEF RxRecvTelemetry, ReadingOf
  <2>3. ~InHand /\ ~InHand'
    BY <2>2 DEF InHand
  <2>4. QED
    BY <1>9, <2>3 DEF RxRecvTelemetry, SerialInv, Phase, Idle
<1>10. CASE RxGive
  <2>1. InHand
    BY <1>10, UpwardFacts DEF RxGive, InHand
  <2>2. /\ pc["tx"] = "ack_wait" /\ ack_received # 1
        /\ down = <<>> /\ up = <<>> /\ msg["rx"] = AckOf(cmd, "peer")
    BY <2>1 DEF SerialInv, Phase, Idle
  <2>3. giver' = cmd /\ ~InHand'
    BY <1>10, <2>2, AckFacts DEF RxGive, InHand
  <2>4. QED
    BY <1>10, <2>2, <2>3 DEF RxGive, SerialInv, Phase, Idle
<1>11. CASE PeerAnswers
  <2>1. /\ pc["tx"] = "ack_wait" /\ ack_received # 1
        /\ down = <<cmd>> /\ up = <<>> /\ ~InHand
    BY <1>11 DEF PeerAnswers, SerialInv, Phase, Idle
  <2>2. down' = <<>> /\ (up' = <<cmd>> \/ up' = <<>>)
    BY <1>11, <2>1 DEF PeerAnswers
  <2>3. QED
    BY <1>11, <2>1, <2>2 DEF PeerAnswers, SerialInv, Phase, Idle, InHand
<1>12. CASE Main \/ MainSession \/ UNCHANGED vars
  <2>1. UNCHANGED <<pc, msg, cmd, ack_received, down, up, giver>>
    BY <1>12
    DEF Main, MainBoot, MainForward, MainEnqueue, MainBusy,
        MainReadFd, MainRead, MainReadTimeout, MainPublish, MainPublishFails,
        MainSession, vars
  <2>2. QED
    BY <2>1 DEF SerialInv, Phase, Idle, InHand
<1>13. QED
  BY <1>1, <1>2, <1>3, <1>4, <1>5, <1>6, <1>7, <1>8, <1>9, <1>10, <1>11,
     <1>12 DEF Next, Tx, Rx

LEMMA SerialInvariant ==
    ASSUME Prompt
    PROVE  Spec => [](TruthInv /\ SerialInv)
<1>1. Init => SerialInv
  BY DEF Init, SerialInv, Idle, InHand, Threads
<1>2. TruthInv /\ TruthInv' /\ SerialInv /\ [Next]_vars => SerialInv'
  BY SerialStep DEF TruthInv
<1>3. QED
  BY <1>1, <1>2, TruthInvariant, PTL DEF Spec

\* Round trips are serialised: between two of them nothing of a command is left
\* on the bus or with rx_thread.
THEOREM RoundTripsAreSerial ==
    ASSUME Prompt
    PROVE  Spec => []RoundTripsSerialised
<1>1. TruthInv /\ SerialInv => RoundTripsSerialised
  <2> SUFFICES ASSUME TruthInv, SerialInv PROVE RoundTripsSerialised
    OBVIOUS
  <2>1. CASE Idle
    BY <2>1 DEF Idle, RoundTripsSerialised
  <2>2. CASE ~Idle
    <3>1. pc["tx"] = "ack_wait" /\ Phase
      BY <2>2 DEF SerialInv
    <3>2. Len(down) + Len(up) <= 1
      <4>1. \/ down = <<>> /\ up = <<>>
            \/ down = <<cmd>> /\ up = <<>>
            \/ down = <<>> /\ up = <<cmd>>
        BY <3>1 DEF Phase, Idle
      <4>2. Len(<<>>) = 0 /\ Len(<<cmd>>) = 1
        OBVIOUS
      <4>3. QED
        BY <4>1, <4>2
    <3>3. InHand => down = <<>> /\ up = <<>>
      BY <3>1 DEF Phase, Idle
    <3>4. QED
      BY <3>1, <3>2, <3>3 DEF RoundTripsSerialised
  <2>3. QED
    BY <2>1, <2>2
<1>2. QED
  BY <1>1, SerialInvariant, PTL

\* The semaphore releases tx_thread for the Ack of its own command.
THEOREM ReleasedByItsAck ==
    ASSUME Prompt
    PROVE  Spec => ReleasedByOwnAck
<1>1. TruthInv /\ SerialInv /\ [Next]_vars
      => [pc["tx"] = "ack_wait" /\ pc'["tx"] = "wait_msg" => giver = cmd]_vars
  <2> SUFFICES ASSUME TruthInv, SerialInv, [Next]_vars,
                      pc["tx"] = "ack_wait", pc'["tx"] = "wait_msg"
               PROVE  giver = cmd
    OBVIOUS
  <2>1. ack_received = 1
    BY DEF Next, vars, Tx, TxTakeCommand, TxSend, TxSendFails, TxAcked,
       TxTimeout, AnswerForPeer, PublishUp, PubWrite, PubLockTimeout,
       PubNotify, PubNoSlot, Rx, RxRecvAck, RxRecvTelemetry, RxGive,
       PeerAnswers, Main, MainBoot, MainForward, MainEnqueue, MainBusy,
       MainReadFd, MainRead, MainReadTimeout, MainPublish,
       MainPublishFails, MainSession, TruthInv, TypeInv, TypeOK, Threads
  <2>2. QED
    BY <2>1 DEF SerialInv
<1>2. QED
  BY <1>1, SerialInvariant, PTL DEF Spec, ReleasedByOwnAck

-----------------------------------------------------------------------------
(* One verdict on each command *)

Distinct(s) == \A i, j \in 1 .. Len(s) : s[i] = s[j] => i = j

LEMMA DistinctAppend ==
    ASSUME NEW S, NEW s \in Seq(S), NEW x \in S, Distinct(s), x \notin Elems(s)
    PROVE  Distinct(Append(s, x))
<1>1. /\ Len(s) \in Nat /\ Len(Append(s, x)) = Len(s) + 1
      /\ Append(s, x)[Len(s) + 1] = x
      /\ \A i \in 1 .. Len(s) : Append(s, x)[i] = s[i] /\ s[i] # x
  BY DEF Elems
<1>2. QED
  BY <1>1 DEF Distinct

LEMMA DistinctTail ==
    ASSUME NEW S, NEW s \in Seq(S), Distinct(s), s # <<>>
    PROVE  Distinct(Tail(s)) /\ Head(s) \notin Elems(Tail(s))
<1>1. /\ Len(s) \in Nat /\ Len(s) > 0 /\ Len(Tail(s)) = Len(s) - 1
      /\ Head(s) = s[1]
      /\ \A i \in 1 .. Len(Tail(s)) : Tail(s)[i] = s[i + 1]
  OBVIOUS
<1>2. QED
  BY <1>1 DEF Distinct, Elems

\* Every message in the gateway or with the broker.
Told == Said \cup wire

\* A command tx_thread gave up on was never answered by the peer, and while
\* tx_thread waits without an Ack none has gone past rx_thread.
VerdictInv ==
    /\ Distinct(cmd_q)
    /\ \A c \in Elems(cmd_q) : c \notin executed \cup gave_up \cup {cmd}
    /\ pc["tx"] = "send" => cmd \notin executed \cup gave_up
    /\ pc["tx"] = "ack_wait" => cmd \notin gave_up
    /\ \A m \in Told : m \in Acks /\ m.by = "peer" => m.seq \notin gave_up
    /\ pc["tx"] = "ack_wait" /\ ack_received = 0 /\ ~InHand
          => AckOf(cmd, "peer") \notin Told

LEMMA AckIs ==
    ASSUME NEW m \in Acks PROVE m = AckOf(m.seq, m.by)
  BY DEF Acks, AckOf

\* Steps that leave the commands alone and tell nothing new in the peer's name.
LEMMA VerdictKept ==
    ASSUME TypeInv', VerdictInv, UNCHANGED <<cmd, cmd_q, executed, gave_up>>,
           pc'["tx"] \in {"send", "ack_wait"} => pc'["tx"] = pc["tx"],
           pc'["tx"] = "ack_wait" /\ ack_received' = 0 /\ ~InHand'
              => ack_received = 0 /\ ~InHand,
           \A m \in Told' : m \in Told \/ m \notin Acks \/ m.by # "peer"
    PROVE  VerdictInv'
<1>1. ASSUME pc'["tx"] = "ack_wait", ack_received' = 0, ~InHand'
      PROVE  AckOf(cmd, "peer") \notin Told'
  <2>1. cmd \in Commands
    BY <1>1 DEF TypeInv, ThreadInv
  <2>2. AckOf(cmd, "peer") \in Acks /\ AckOf(cmd, "peer").by = "peer"
    BY <2>1, AckFacts
  <2>3. AckOf(cmd, "peer") \notin Told
    BY <1>1 DEF VerdictInv
  <2>4. QED
    BY <2>2, <2>3
<1>2. \A m \in Told' : m \in Acks /\ m.by = "peer" => m.seq \notin gave_up
  BY DEF VerdictInv
<1>3. QED
  BY <1>1, <1>2 DEF VerdictInv

\* tx_thread answers a command itself: the peer has not, and will not.
LEMMA VerdictGivenUp ==
    ASSUME TypeInv, VerdictInv, AnswerForPeer, pc["tx"] # "wait_msg",
           UNCHANGED <<cmd, cmd_q, executed, rxVars, busVars, mainVars>>,
           AckOf(cmd, "peer") \notin Told
    PROVE  VerdictInv'
<1>1. /\ gave_up' = gave_up \cup {cmd} /\ pc'["tx"] = "lock"
      /\ msg' = [msg EXCEPT !["tx"] = AckOf(cmd, "relay")]
  BY DEF AnswerForPeer, SyntheticAck, TypeInv, TypeOK, Threads
<1>2. Told' \subseteq Told \cup {AckOf(cmd, "relay")}
  BY <1>1 DEF Told, Said, busVars, mainVars, TypeInv, TypeOK, Threads
<1>3. ASSUME NEW m \in Told', m \in Acks, m.by = "peer"
      PROVE  m.seq \notin gave_up'
  <2>1. m \in Told
    BY <1>2, <1>3, AckFacts
  <2>2. m.seq # cmd
    BY <1>3, <2>1, AckIs
  <2>3. QED
    BY <1>1, <1>3, <2>1, <2>2 DEF VerdictInv
<1>4. \A c \in Elems(cmd_q) : c \notin executed \cup gave_up' \cup {cmd}
  BY <1>1 DEF VerdictInv
<1>5. QED
  BY <1>1, <1>3, <1>4 DEF VerdictInv

LEMMA VerdictStep ==
    ASSUME Prompt, TruthInv, TruthInv', SerialInv, VerdictInv, [Next]_vars
    PROVE  VerdictInv'
<1> USE DEF TruthInv, rxVars, txVars, busVars, mainVars
<1>t. /\ DOMAIN msg = Threads /\ DOMAIN chan = Chans /\ DOMAIN pc = Threads
      /\ "rx" \in Threads /\ "tx" \in Threads
      /\ cmd_q \in Seq(Commands)
      /\ pc["tx"] # "wait_msg" => cmd \in Commands
      /\ ack_received \in {0, 1}
  BY DEF TypeInv, TypeOK, ThreadInv, Threads
\* The peer has answered no command it has not taken up.
<1>n. \A c \in Commands : AckOf(c, "peer") \in Told => c \in executed
  BY AckFacts DEF Told, AuthorInv, Authored
<1>1. CASE TxTakeCommand
  <2>1. /\ Head(cmd_q) \in Elems(cmd_q)
        /\ Elems(Tail(cmd_q)) \subseteq Elems(cmd_q)
        /\ Distinct(Tail(cmd_q)) /\ Head(cmd_q) \notin Elems(Tail(cmd_q))
    BY <1>1, <1>t, ElemsTail, DistinctTail DEF TxTakeCommand, VerdictInv
  <2>2. Told' = Told /\ pc'["tx"] = "send"
    BY <1>1, <1>t DEF TxTakeCommand, Told, Said
  <2>3. QED
    BY <1>1, <2>1, <2>2 DEF TxTakeCommand, VerdictInv
<1>2. CASE TxSend
  <2>1. cmd \notin executed /\ cmd \notin gave_up /\ cmd \in Commands
    BY <1>2, <1>t DEF TxSend, VerdictInv
  <2>2. Told' = Told /\ pc'["tx"] = "ack_wait"
    BY <1>2, <1>t DEF TxSend, AfterSend, Told, Said
  <2>3. AckOf(cmd, "peer") \notin Told'
    BY <2>1, <2>2, <1>n
  <2>4. QED
    BY <1>2, <2>1, <2>2, <2>3 DEF TxSend, VerdictInv
<1>3. CASE TxSendFails
  <2>1. AckOf(cmd, "peer") \notin Told
    BY <1>3, <1>n, <1>t DEF TxSendFails, VerdictInv
  <2>2. QED
    BY <1>3, <2>1, VerdictGivenUp DEF TxSendFails
<1>4. CASE TxAcked
  <2>1. Told' = Told /\ pc'["tx"] = "wait_msg"
    BY <1>4, <1>t DEF TxAcked, Told, Said
  <2>2. QED
    BY <1>4, <2>1, VerdictKept DEF TxAcked
<1>5. CASE TxTimeout
  <2>1. ~InHand
    BY <1>5, NothingLeft DEF Idle
  <2>2. AckOf(cmd, "peer") \notin Told
    BY <1>5, <2>1 DEF TxTimeout, VerdictInv
  <2>3. QED
    BY <1>5, <2>2, VerdictGivenUp DEF TxTimeout
<1>6. ASSUME NEW t \in Threads, PublishUp(t) PROVE VerdictInv'
  <2>1. /\ pc[t] \in {"lock", "notify"}
        /\ pc' = [pc EXCEPT ![t] = "notify"] \/ pc' = [pc EXCEPT ![t] = After(t)]
        /\ UNCHANGED <<msg, cmd, cmd_q, executed, gave_up, ack_received, wire,
                       main_msg>>
        /\ \/ chan' = chan
           \/ chan' = [chan EXCEPT ![msg[t].chan] = msg[t]]
    BY <1>6 DEF PublishUp, PubWrite, PubLockTimeout, PubNotify, PubNoSlot
  <2>2. Told' \subseteq Told
    BY <2>1, <1>t DEF Told, Said
  <2>3. InHand' = InHand
    BY <2>1, <1>t DEF InHand, After, Threads
  <2>4. pc'["tx"] \in {"send", "ack_wait"} => pc'["tx"] = pc["tx"]
    BY <2>1, <1>t DEF After, Threads
  <2>5. pc'["tx"] = "ack_wait" => pc["tx"] = "ack_wait"
    BY <2>4
  <2>6. QED
    BY <2>1, <2>2, <2>3, <2>4, VerdictKept
<1>7. CASE RxRecvAck
  <2>1. /\ pc["rx"] = "recv" /\ up # <<>>
    BY <1>7 DEF RxRecvAck
  <2>2. pc["tx"] = "ack_wait" /\ up = <<cmd>>
    BY <2>1 DEF SerialInv, Phase, Idle, InHand
  <2>3. /\ msg' = [msg EXCEPT !["rx"] = AckOf(cmd, "peer")]
        /\ pc' = [pc EXCEPT !["rx"] = "lock"]
        /\ UNCHANGED <<txVars, busVars, mainVars, cmd_q, executed>>
    BY <1>7, <2>2 DEF RxRecvAck
  <2>4. Told' \subseteq Told \cup {AckOf(cmd, "peer")}
    BY <2>3, <1>t DEF Told, Said
  <2>5. InHand' /\ pc'["tx"] = "ack_wait"
    BY <2>2, <2>3, <1>t, AckFacts DEF InHand
  <2>6. \A m \in Told' : m \in Acks /\ m.by = "peer" => m.seq \notin gave_up
    BY <2>2, <2>4, AckFacts DEF VerdictInv
  <2>7. QED
    BY <2>2, <2>3, <2>5, <2>6 DEF VerdictInv
<1>8. CASE RxRecvTelemetry
  <2>1. PICK n : msg' = [msg EXCEPT !["rx"] = ReadingOf(n)]
    BY <1>8 DEF RxRecvTelemetry
  <2>2. Told' \subseteq Told \cup {ReadingOf(n)} /\ ReadingOf(n) \notin Acks
    BY <1>8, <2>1, <1>t, UpwardFacts DEF RxRecvTelemetry, Told, Said, ReadingOf
  <2>3. ~InHand /\ pc'["tx"] = pc["tx"]
    BY <1>8, <1>t DEF RxRecvTelemetry, InHand, Threads
  <2>4. QED
    BY <1>8, <2>2, <2>3, VerdictKept DEF RxRecvTelemetry
<1>9. CASE RxGive
  <2>1. Told' = Told /\ pc'["tx"] = pc["tx"] /\ ack_received' = 1
    BY <1>9, <1>t DEF RxGive, Given, Told, Said, Threads
  <2>2. QED
    BY <1>9, <2>1, VerdictKept DEF RxGive
<1>10. CASE PeerAnswers
  <2>1. pc["tx"] = "ack_wait" /\ down = <<cmd>>
    BY <1>10 DEF PeerAnswers, SerialInv, Phase, Idle
  <2>2. executed' = executed \cup {cmd}
    BY <1>10, <2>1 DEF PeerAnswers
  <2>3. Told' = Told /\ InHand' = InHand
    BY <1>10 DEF PeerAnswers, Told, Said, InHand
  <2>4. QED
    BY <1>10, <2>1, <2>2, <2>3 DEF PeerAnswers, VerdictInv
<1>11. CASE MainEnqueue
  <2>1. offered \in Commands /\ offered \notin Entered
    BY <1>11 DEF MainEnqueue, TypeInv, ThreadInv, RefusedInv
  <2>2. /\ Distinct(cmd_q')
        /\ Elems(cmd_q') = Elems(cmd_q) \cup {offered}
    BY <1>11, <2>1, <1>t, ElemsAppend, DistinctAppend
    DEF MainEnqueue, Entered, VerdictInv
  <2>3. Told' = Told /\ InHand' = InHand
    BY <1>11 DEF MainEnqueue, OnEnqueued, Told, Said, InHand
  <2>4. QED
    BY <1>11, <2>1, <2>2, <2>3 DEF MainEnqueue, Entered, VerdictInv
<1>12. CASE MainBusy
  <2>1. \A m \in wire' : m \in wire \/ m.by = "main"
    BY <1>12, AckFacts DEF MainBusy, AnswerBusy
  <2>2. /\ Said' = Said /\ InHand' = InHand
        /\ UNCHANGED <<cmd, cmd_q, executed, gave_up, pc, ack_received>>
    BY <1>12 DEF MainBusy, Said, InHand
  <2>3. \A m \in Told' : m \in Told \/ m.by # "peer"
    BY <2>1, <2>2 DEF Told
  <2>4. QED
    BY <2>2, <2>3, VerdictKept
<1>13. CASE MainRead \/ MainPublish
  <2>1. Told' \subseteq Told
    BY <1>13 DEF MainRead, MainPublish, Told, Said, TypeInv, TypeOK
  <2>2. /\ InHand' = InHand
        /\ UNCHANGED <<cmd, cmd_q, executed, gave_up, pc, ack_received>>
    BY <1>13 DEF MainRead, MainPublish, InHand
  <2>3. QED
    BY <2>1, <2>2, VerdictKept
<1>14. CASE \/ MainBoot \/ MainForward \/ MainReadTimeout \/ MainPublishFails
            \/ \E ch \in Chans : MainReadFd(ch)
            \/ MainSession \/ UNCHANGED vars
  <2>1. /\ Told' = Told /\ InHand' = InHand
        /\ UNCHANGED <<cmd, cmd_q, executed, gave_up, pc, ack_received>>
    BY <1>14
    DEF MainBoot, MainForward, MainReadTimeout, MainPublishFails, MainReadFd,
        MainSession, vars, Told, Said, InHand
  <2>2. QED
    BY <2>1, VerdictKept
<1>15. QED
  BY <1>1, <1>2, <1>3, <1>4, <1>5, <1>6, <1>7, <1>8, <1>9, <1>10, <1>11,
     <1>12, <1>13, <1>14, <1>t DEF Next, Tx, Rx, Main

LEMMA VerdictInvariant ==
    ASSUME Prompt
    PROVE  Spec => [](TruthInv /\ VerdictInv)
<1>1. Init => VerdictInv
  <2>1. Init => Told = {Zero} /\ Zero \notin Acks
    BY UpwardFacts DEF Init, Told, Said, Threads, Chans
  <2>2. QED
    BY <2>1, ElemsEmpty DEF Init, VerdictInv, Distinct, Threads
<1>2. TruthInv /\ TruthInv' /\ SerialInv /\ VerdictInv /\ [Next]_vars
      => VerdictInv'
  BY VerdictStep
<1>3. QED
  BY <1>1, <1>2, SerialInvariant, PTL DEF Spec

\* No two verdicts of different authors on one command reach the broker: the
\* gateway answers for the peer only where the peer has not and will not.
THEOREM OneVerdictEach ==
    ASSUME Prompt
    PROVE  Spec => []OneVerdict
<1>1. TruthInv /\ VerdictInv => OneVerdict
  <2> SUFFICES ASSUME TruthInv, VerdictInv,
                      NEW a \in wire, NEW b \in wire,
                      a.chan = "ack", b.chan = "ack", a.seq = b.seq
               PROVE  a.by = b.by
    BY DEF OneVerdict
  <2>1. ASSUME NEW m \in wire, m.chan = "ack"
        PROVE  /\ m.by = "peer"  => m.seq \in executed /\ m.seq \notin gave_up
               /\ m.by = "relay" => m.seq \in gave_up
               /\ m.by = "main"  => m.seq \notin executed \cup gave_up
               /\ m.by \in {"peer", "relay", "main"}
    <3>1. m \in Upward
      BY DEF TruthInv, TypeInv, TypeOK, WrittenInv
    <3>2. m \in Acks /\ m.by \in {"peer", "relay", "main"}
      BY <3>1, <2>1, UpwardFacts DEF Acks, AckOf
    <3>3. Authored(m) /\ (m.by = "peer" => m.seq \notin gave_up)
      BY <3>2 DEF TruthInv, AuthorInv, VerdictInv, Told
    <3>4. m.by = "main" => m.seq \notin executed \cup gave_up
      BY <3>2 DEF TruthInv, RefusedInv, Entered
    <3>5. QED
      BY <3>2, <3>3, <3>4 DEF Authored
  <2>2. QED
    BY <2>1
<1>2. QED
  BY <1>1, VerdictInvariant, PTL

-----------------------------------------------------------------------------
(* Every command is answered *)

\* The commands main() has taken from the host and tx_thread has not finished.
Outstanding == SlotsUsed + (IF pc["tx"] = "wait_msg" THEN 0 ELSE 1)

\* The host has no more commands outstanding than the pool has buffers.
Paced == Outstanding <= PoolSlots

\* A channel is locked by the thread that is about to notify its observers.
LockInv ==
    \A ch \in Chans, t \in Threads :
        lock[ch] = t => pc[t] = "notify" /\ msg[t].chan = ch

\* What tx_thread publishes is its own answer; a semaphore that was given, or is
\* about to be, stands for an Ack that was signalled.
SignalInv ==
    /\ pc["tx"] \in {"lock", "notify"} => msg["tx"] = AckOf(cmd, "relay")
    /\ pc["rx"] = "give" => msg["rx"] \in posted
    /\ pc["tx"] = "ack_wait" /\ ack_received = 1 => AckOf(cmd, "peer") \in posted

LEMMA LockStep ==
    ASSUME TypeInv, LockInv, [Next]_vars
    PROVE  LockInv'
<1> USE DEF rxVars, txVars, busVars, mainVars
<1>t. /\ DOMAIN pc = Threads /\ DOMAIN msg = Threads /\ DOMAIN lock = Chans
      /\ Threads = {"rx", "tx"} /\ "free" \notin Threads
  BY DEF TypeInv, TypeOK, Threads
<1>1. ASSUME NEW t \in Threads, PublishUp(t) PROVE LockInv'
  <2>1. CASE PubWrite(t)
    <3>1. /\ lock' = [lock EXCEPT ![msg[t].chan] = t] /\ msg' = msg
          /\ pc' = [pc EXCEPT ![t] = "notify"]
      BY <2>1 DEF PubWrite
    <3>2. QED
      BY <3>1, <1>t DEF LockInv
  <2>2. CASE PubLockTimeout(t)
    <3>1. /\ lock' = lock /\ msg' = msg /\ pc[t] = "lock"
          /\ pc' = [pc EXCEPT ![t] = After(t)]
      BY <2>2 DEF PubLockTimeout
    <3>2. QED
      BY <3>1, <1>t DEF LockInv
  <2>3. CASE PubNotify(t) \/ PubNoSlot(t)
    <3>1. /\ lock' = [lock EXCEPT ![msg[t].chan] = "free"] /\ msg' = msg
          /\ pc' = [pc EXCEPT ![t] = After(t)]
      BY <2>3 DEF PubNotify, PubNoSlot
    <3>2. QED
      BY <3>1, <1>t DEF LockInv
  <2>4. QED
    BY <1>1, <2>1, <2>2, <2>3 DEF PublishUp
<1>2. CASE UNCHANGED lock /\ \E t \in Threads :
              /\ pc[t] # "notify"
              /\ \A u \in Threads \ {t} : pc'[u] = pc[u] /\ msg'[u] = msg[u]
  BY <1>2 DEF LockInv
<1>3. CASE TxTakeCommand \/ TxSend \/ TxSendFails \/ TxAcked \/ TxTimeout
  <2>1. /\ pc["tx"] # "notify" /\ pc'["rx"] = pc["rx"] /\ msg'["rx"] = msg["rx"]
        /\ lock' = lock
    BY <1>3, <1>t
    DEF TxTakeCommand, TxSend, TxSendFails, TxAcked, TxTimeout, AnswerForPeer
  <2>2. QED
    BY <2>1, <1>2, <1>t
<1>4. CASE RxRecvAck \/ RxRecvTelemetry \/ RxGive
  <2>1. /\ pc["rx"] # "notify" /\ pc'["tx"] = pc["tx"] /\ msg'["tx"] = msg["tx"]
        /\ lock' = lock
    BY <1>4, <1>t DEF RxRecvAck, RxRecvTelemetry, RxGive
  <2>2. QED
    BY <2>1, <1>2, <1>t
<1>5. CASE PeerAnswers \/ Main \/ MainSession \/ UNCHANGED vars
  <2>1. UNCHANGED <<pc, msg, lock>>
    BY <1>5
    DEF PeerAnswers, Main, MainBoot, MainForward, MainEnqueue, MainBusy,
        MainReadFd, MainRead, MainReadTimeout, MainPublish, MainPublishFails,
        MainSession, vars
  <2>2. QED
    BY <2>1 DEF LockInv
<1>6. QED
  BY <1>1, <1>3, <1>4, <1>5, <1>t DEF Next, Tx, Rx

\* A synthetic Ack finds its channel free: rx_thread has no Ack in hand.
LEMMA AckChannelFree ==
    ASSUME TypeInv, SerialInv, LockInv, SignalInv, pc["tx"] = "lock"
    PROVE  lock[msg["tx"].chan] = "free"
<1>1. msg["tx"].chan = "ack" /\ ~InHand
  BY AckFacts DEF SignalInv, SerialInv, Idle
<1>2. lock["ack"] \notin Threads
  BY <1>1 DEF LockInv, InHand, Threads, Chans
<1>3. lock["ack"] \in Threads \cup {"free"}
  BY DEF TypeInv, TypeOK, Chans
<1>4. QED
  BY <1>1, <1>2, <1>3

\* An Ack finds a buffer: its own command has left the queue.
LEMMA AckFindsASlot ==
    ASSUME TypeInv, SerialInv, Paced, NEW t \in Threads, pc[t] = "notify",
           msg[t].chan = "ack"
    PROVE  SlotFree
<1>1. pc["tx"] # "wait_msg"
  BY DEF SerialInv, Idle, InHand, Threads
<1>2. SlotsUsed \in Nat /\ PoolSlots \in Nat
  BY ConstantsAssumption DEF ConstantsAssumption, TypeInv, TypeOK, SlotsUsed
<1>3. QED
  BY <1>1, <1>2 DEF Paced, Outstanding, SlotFree

LEMMA SignalStep ==
    ASSUME Prompt, TypeInv, SerialInv, LockInv, SignalInv, Paced, [Next]_vars
    PROVE  SignalInv'
<1> USE DEF rxVars, txVars, busVars, mainVars
<1>t. /\ DOMAIN pc = Threads /\ DOMAIN msg = Threads
      /\ Threads = {"rx", "tx"} /\ ack_received \in {0, 1}
  BY DEF TypeInv, TypeOK, Threads
<1>1. CASE TxTakeCommand \/ TxAcked
  BY <1>1, <1>t DEF TxTakeCommand, TxAcked, SignalInv
<1>2. CASE TxSend
  BY <1>2, <1>t DEF TxSend, AfterSend, SerialInv, SignalInv
<1>3. CASE TxSendFails \/ TxTimeout
  <2>1. /\ msg' = [msg EXCEPT !["tx"] = AckOf(cmd, "relay")]
        /\ pc' = [pc EXCEPT !["tx"] = "lock"]
        /\ UNCHANGED <<cmd, posted>>
    BY <1>3 DEF TxSendFails, TxTimeout, AnswerForPeer, SyntheticAck
  <2>2. QED
    BY <2>1, <1>t DEF SignalInv
<1>4. CASE PublishUp("tx")
  <2>1. /\ pc["tx"] \in {"lock", "notify"} /\ pc'["tx"] \in {"notify", "wait_msg"}
        /\ pc'["rx"] = pc["rx"] /\ posted \subseteq posted'
        /\ UNCHANGED <<msg, cmd>>
    BY <1>4, <1>t
    DEF PublishUp, PubWrite, PubLockTimeout, PubNotify, PubNoSlot, After
  <2>2. QED
    BY <2>1 DEF SignalInv
<1>5. CASE PublishUp("rx")
  <2>0. pc'["tx"] = pc["tx"] /\ UNCHANGED <<msg, cmd, ack_received>>
    BY <1>5, <1>t DEF PublishUp, PubWrite, PubLockTimeout, PubNotify, PubNoSlot
  <2>1. CASE PubWrite("rx")
    BY <2>0, <2>1, <1>t DEF PubWrite, SignalInv
  <2>2. CASE PubLockTimeout("rx")
    <3>1. msg["rx"].chan # "ack"
      <4> SUFFICES ASSUME msg["rx"].chan = "ack" PROVE FALSE
        OBVIOUS
      <4>1. pc["tx"] = "ack_wait" /\ pc["rx"] = "lock" /\ lock["ack"] # "free"
        BY <2>2 DEF PubLockTimeout, SerialInv, Idle, InHand
      <4>2. lock["ack"] \in Threads
        BY <4>1 DEF TypeInv, TypeOK, Chans
      <4>3. QED
        BY <4>1, <4>2, <1>t DEF LockInv, Chans
    <3>2. pc'["rx"] = "recv" /\ posted' = posted
      BY <2>2, <3>1, <1>t DEF PubLockTimeout, After
    <3>3. QED
      BY <2>0, <3>2 DEF SignalInv
  <2>3. CASE PubNotify("rx")
    <3>1. CASE msg["rx"].chan = "ack"
      BY <2>0, <2>3, <3>1, <1>t DEF PubNotify, SignalInv
    <3>2. CASE msg["rx"].chan # "ack"
      BY <2>0, <2>3, <3>2, <1>t DEF PubNotify, After, SignalInv
    <3>3. QED
      BY <3>1, <3>2
  <2>4. CASE PubNoSlot("rx")
    <3>1. msg["rx"].chan # "ack"
      BY <2>4, <1>t, AckFindsASlot DEF PubNoSlot
    <3>2. pc'["rx"] = "recv" /\ posted' = posted
      BY <2>4, <3>1, <1>t DEF PubNoSlot, After
    <3>3. QED
      BY <2>0, <3>2 DEF SignalInv
  <2>5. QED
    BY <1>5, <2>1, <2>2, <2>3, <2>4 DEF PublishUp
<1>6. CASE RxRecvAck \/ RxRecvTelemetry
  <2>1. /\ pc'["rx"] = "lock" /\ pc'["tx"] = pc["tx"] /\ msg'["tx"] = msg["tx"]
        /\ UNCHANGED <<cmd, ack_received, posted>>
    BY <1>6, <1>t DEF RxRecvAck, RxRecvTelemetry
  <2>2. QED
    BY <2>1 DEF SignalInv
<1>7. CASE RxGive
  <2>1. InHand
    BY <1>7, UpwardFacts DEF RxGive, InHand, TypeInv, ThreadInv
  <2>2. msg["rx"] = AckOf(cmd, "peer")
    BY <2>1 DEF SerialInv, Phase, Idle
  <2>3. /\ pc'["rx"] = "recv" /\ pc'["tx"] = pc["tx"]
        /\ UNCHANGED <<msg, cmd, posted>> /\ msg["rx"] \in posted
    BY <1>7, <1>t DEF RxGive, SignalInv
  <2>4. QED
    BY <2>2, <2>3 DEF SignalInv
<1>8. CASE PeerAnswers \/ Main \/ MainSession \/ UNCHANGED vars
  <2>1. UNCHANGED <<pc, msg, cmd, ack_received, posted>>
    BY <1>8
    DEF PeerAnswers, Main, MainBoot, MainForward, MainEnqueue, MainBusy,
        MainReadFd, MainRead, MainReadTimeout, MainPublish, MainPublishFails,
        MainSession, vars
  <2>2. QED
    BY <2>1 DEF SignalInv
<1>9. QED
  BY <1>1, <1>2, <1>3, <1>4, <1>5, <1>6, <1>7, <1>8 DEF Next, Tx, Rx

AnswerInv == TruthInv /\ SerialInv /\ LockInv /\ SignalInv

LEMMA AnswerInvariant ==
    ASSUME Prompt
    PROVE  Spec /\ []Paced => []AnswerInv
<1>1. Init => LockInv /\ SignalInv
  BY DEF Init, LockInv, SignalInv, Threads, Chans
<1>2. TruthInv /\ LockInv /\ [Next]_vars => LockInv'
  BY LockStep DEF TruthInv
<1>3. TruthInv /\ SerialInv /\ LockInv /\ SignalInv /\ Paced /\ [Next]_vars
      => SignalInv'
  BY SignalStep DEF TruthInv
<1>4. QED
  BY <1>1, <1>2, <1>3, SerialInvariant, PTL DEF Spec, AnswerInv

\* The end of a round trip: by the peer's Ack, or by a synthetic one.
LEMMA EndsAnswered ==
    ASSUME AnswerInv, Paced, [Next]_vars, pc["tx"] # "wait_msg",
           pc'["tx"] = "wait_msg"
    PROVE  \E a \in posted' : a.seq = cmd
<1> USE DEF rxVars, txVars, busVars, mainVars
<1>t. /\ DOMAIN pc = Threads /\ Threads = {"rx", "tx"} /\ TypeInv
  BY DEF AnswerInv, TruthInv, TypeInv, TypeOK, Threads
<1>1. TxAcked \/ PublishUp("tx")
  BY <1>t
  DEF Next, vars, Tx, TxTakeCommand, TxSend, AfterSend, TxSendFails, TxTimeout,
      AnswerForPeer, Rx, RxRecvAck, RxRecvTelemetry, RxGive, PublishUp,
      PubWrite, PubLockTimeout, PubNotify, PubNoSlot, PeerAnswers, Main,
      MainBoot, MainForward, MainEnqueue, MainBusy, MainReadFd, MainRead,
      MainReadTimeout, MainPublish, MainPublishFails, MainSession
<1>2. CASE TxAcked
  <2>1. AckOf(cmd, "peer") \in posted'
    BY <1>2 DEF TxAcked, AnswerInv, SignalInv
  <2>2. QED
    BY <2>1, AckFacts
<1>3. CASE PublishUp("tx")
  <2>1. msg["tx"] = AckOf(cmd, "relay") /\ msg["tx"].chan = "ack"
    BY <1>3, AckFacts
    DEF AnswerInv, SignalInv, PublishUp, PubWrite, PubLockTimeout, PubNotify,
        PubNoSlot
  <2>2. ~PubWrite("tx")
    BY <1>t DEF PubWrite
  <2>3. ~PubLockTimeout("tx")
    BY <1>t, AckChannelFree DEF PubLockTimeout, AnswerInv
  <2>4. ~PubNoSlot("tx")
    BY <1>t, <2>1, AckFindsASlot DEF PubNoSlot, AnswerInv
  <2>5. AckOf(cmd, "relay") \in posted'
    BY <1>3, <2>1, <2>2, <2>3, <2>4 DEF PublishUp, PubNotify
  <2>6. QED
    BY <2>5, AckFacts
<1>4. QED
  BY <1>1, <1>2, <1>3

\* A host that has no more commands outstanding than the pool has buffers gets
\* each of them answered, and the semaphore stands for an Ack that is on its way
\* (relay.cpp:181-183, 302-308): nothing of this depends on where the three
\* threads are preempted.
THEOREM AnsweredWhenPaced ==
    ASSUME Prompt
    PROVE  Spec /\ []Paced => RoundTripAnswered /\ GivenAfterPosted
<1>1. AnswerInv /\ Paced /\ [Next]_vars
      => [pc["tx"] # "wait_msg" /\ pc'["tx"] = "wait_msg"
          => \E a \in posted' : a.seq = cmd]_vars
  BY EndsAnswered
<1>2. AnswerInv /\ [Next]_vars
      => [pc["rx"] = "give" /\ pc'["rx"] = "recv" => msg["rx"] \in posted]_vars
  BY DEF AnswerInv, SignalInv
<1>3. QED
  BY <1>1, <1>2, AnswerInvariant, PTL DEF Spec, RoundTripAnswered, GivenAfterPosted

\* The commands that wait come after the one in hand, in order.
CountInv ==
    /\ cmd + Len(cmd_q) <= Decided
    /\ \A i \in 1 .. Len(cmd_q) : cmd_q[i] + (Len(cmd_q) - i) <= Decided

LEMMA CountStep ==
    ASSUME TypeInv, CountInv, [Next]_vars
    PROVE  CountInv'
<1> USE DEF rxVars, txVars, busVars, mainVars
<1>t. /\ offered \in Nat /\ cmd \in Nat /\ cmd_q \in Seq(Commands)
      /\ Len(cmd_q) \in Nat /\ \A i \in 1 .. Len(cmd_q) : cmd_q[i] \in Nat
      /\ main_pc = "forward" => offered \in Commands
      /\ Decided \in Nat /\ Commands \subseteq Nat
  BY ConstantsAssumption
  DEF ConstantsAssumption, TypeInv, TypeOK, ThreadInv, Decided, Commands
<1>1. CASE TxTakeCommand
  <2>1. /\ cmd' = cmd_q[1] /\ Len(cmd_q) > 0 /\ Len(cmd_q') = Len(cmd_q) - 1
        /\ \A i \in 1 .. Len(cmd_q) - 1 : cmd_q'[i] = cmd_q[i + 1]
        /\ Decided' = Decided
    BY <1>1, <1>t DEF TxTakeCommand, Decided
  <2>2. cmd' + Len(cmd_q') <= Decided'
    BY <2>1, <1>t DEF CountInv
  <2>3. ASSUME NEW i \in 1 .. Len(cmd_q')
        PROVE  cmd_q'[i] + (Len(cmd_q') - i) <= Decided'
    <3>1. i + 1 \in 1 .. Len(cmd_q) /\ cmd_q'[i] = cmd_q[i + 1]
      BY <2>1, <1>t
    <3>2. cmd_q[i + 1] + (Len(cmd_q) - (i + 1)) <= Decided
      BY <3>1 DEF CountInv
    <3>3. QED
      BY <2>1, <3>1, <3>2, <1>t
  <2>4. QED
    BY <2>2, <2>3 DEF CountInv
<1>2. CASE MainEnqueue
  <2>1. /\ Decided = offered - 1 /\ Decided' = offered /\ cmd' = cmd
        /\ Len(cmd_q') = Len(cmd_q) + 1 /\ cmd_q'[Len(cmd_q) + 1] = offered
        /\ \A i \in 1 .. Len(cmd_q) : cmd_q'[i] = cmd_q[i]
    BY <1>2, <1>t DEF MainEnqueue, Decided
  <2>2. ASSUME NEW i \in 1 .. Len(cmd_q')
        PROVE  cmd_q'[i] + (Len(cmd_q') - i) <= Decided'
    <3>1. CASE i \in 1 .. Len(cmd_q)
      <4>1. cmd_q[i] + (Len(cmd_q) - i) <= Decided
        BY <3>1 DEF CountInv
      <4>2. QED
        BY <2>1, <3>1, <4>1, <1>t
    <3>2. CASE i = Len(cmd_q) + 1
      BY <2>1, <3>2, <1>t
    <3>3. QED
      BY <2>1, <3>1, <3>2, <1>t
  <2>3. cmd' + Len(cmd_q') <= Decided'
    BY <2>1, <1>t DEF CountInv
  <2>4. QED
    BY <2>2, <2>3 DEF CountInv
<1>3. CASE UNCHANGED <<cmd, cmd_q>> /\ Decided' \in Nat /\ Decided' >= Decided
  BY <1>3, <1>t DEF CountInv
<1>4. CASE MainBusy
  BY <1>3, <1>4, <1>t DEF MainBusy, Decided
<1>5. CASE MainForward
  BY <1>3, <1>5, <1>t DEF MainForward, Decided
<1>6. CASE Rx \/ TxSend \/ TxSendFails \/ TxAcked \/ TxTimeout \/ PublishUp("tx")
           \/ PeerAnswers \/ MainSession \/ UNCHANGED vars
  <2>1. UNCHANGED <<cmd, cmd_q, offered, main_pc>>
    BY <1>6
    DEF Rx, RxRecvAck, RxRecvTelemetry, RxGive, TxSend, TxSendFails, TxAcked,
        TxTimeout, AnswerForPeer, PublishUp, PubWrite, PubLockTimeout,
        PubNotify, PubNoSlot, PeerAnswers, MainSession, vars
  <2>2. QED
    BY <2>1, <1>3, <1>t DEF Decided
<1>7. CASE \/ MainBoot \/ MainRead \/ MainReadTimeout \/ MainPublish
           \/ MainPublishFails \/ \E ch \in Chans : MainReadFd(ch)
  <2>1. Decided' = Decided /\ UNCHANGED <<cmd, cmd_q>>
    BY <1>7
    DEF MainBoot, MainRead, MainReadTimeout, MainPublish, MainPublishFails,
        MainReadFd, Decided
  <2>2. QED
    BY <2>1, <1>3, <1>t
<1>8. QED
  BY <1>1, <1>2, <1>4, <1>5, <1>6, <1>7 DEF Next, Tx, Main

LEMMA CountPaces ==
    ASSUME TypeInv, CountInv, NCmds <= PoolSlots
    PROVE  Paced
<1>1. /\ offered \in 0 .. NCmds /\ cmd \in Nat /\ Len(cmd_q) \in Nat
      /\ NCmds \in Nat /\ PoolSlots \in Nat
      /\ pc["tx"] # "wait_msg" => cmd >= 1
  BY ConstantsAssumption
  DEF ConstantsAssumption, TypeInv, TypeOK, ThreadInv, Commands
<1>2. cmd + SlotsUsed <= offered
  BY <1>1 DEF CountInv, Decided, SlotsUsed
<1>3. SlotsUsed \in Nat
  BY <1>1 DEF SlotsUsed
<1>4. QED
  BY <1>1, <1>2, <1>3 DEF Paced, Outstanding

\* In particular, as many commands as there are buffers need no pacing at all.
THEOREM PoolAnswersEach ==
    ASSUME Prompt, NCmds <= PoolSlots
    PROVE  Spec => RoundTripAnswered
<1>1. Init => CountInv
  BY DEF Init, CountInv, Decided
<1>2. TruthInv /\ CountInv /\ [Next]_vars => CountInv'
  BY CountStep DEF TruthInv
<1>3. TruthInv /\ CountInv => Paced
  BY CountPaces DEF TruthInv
<1>4. QED
  BY <1>1, <1>2, <1>3, TruthInvariant, AnsweredWhenPaced, PTL DEF Spec

-----------------------------------------------------------------------------
(* The promise of RoundTrip *)

\* While its command is on its way down, the peer has not taken it up; once the
\* semaphore is given, it has.
TakenInv ==
    /\ pc["tx"] = "ack_wait" /\ down # <<>> => cmd \notin executed
    /\ pc["tx"] = "ack_wait" /\ ack_received = 1 => cmd \in executed

LEMMA TakenKept ==
    ASSUME TakenInv, pc'["tx"] = pc["tx"], UNCHANGED <<cmd, down, executed, ack_received>>
    PROVE  TakenInv'
  BY DEF TakenInv

LEMMA TakenStep ==
    ASSUME TruthInv, SerialInv, VerdictInv, TakenInv, [Next]_vars
    PROVE  TakenInv'
<1> USE DEF rxVars, txVars, busVars, mainVars
<1>t. /\ DOMAIN pc = Threads /\ "rx" \in Threads /\ "tx" \in Threads
      /\ ack_received \in {0, 1}
  BY DEF TruthInv, TypeInv, TypeOK, Threads
<1>1. CASE TxTakeCommand
  BY <1>1, <1>t DEF TxTakeCommand, TakenInv
<1>2. CASE TxSend
  <2>1. cmd \notin executed /\ ack_received = 0
    BY <1>2 DEF TxSend, VerdictInv, SerialInv
  <2>2. QED
    BY <1>2, <2>1 DEF TxSend, TakenInv
<1>3. CASE TxSendFails \/ TxTimeout
  BY <1>3, <1>t DEF TxSendFails, TxTimeout, AnswerForPeer, TakenInv
<1>4. CASE TxAcked
  BY <1>4, <1>t DEF TxAcked, TakenInv
<1>5. CASE PublishUp("tx")
  <2>1. pc'["tx"] # "ack_wait"
    BY <1>5, <1>t DEF PublishUp, PubWrite, PubLockTimeout, PubNotify, PubNoSlot, After
  <2>2. QED
    BY <2>1 DEF TakenInv
<1>6. CASE PublishUp("rx") \/ RxRecvAck \/ RxRecvTelemetry
  <2>1. pc'["tx"] = pc["tx"] /\ UNCHANGED <<cmd, down, executed, ack_received>>
    BY <1>6, <1>t
    DEF PublishUp, PubWrite, PubLockTimeout, PubNotify, PubNoSlot, RxRecvAck,
        RxRecvTelemetry
  <2>2. QED
    BY <2>1, TakenKept
<1>7. CASE RxGive
  <2>1. InHand
    BY <1>7, UpwardFacts DEF RxGive, InHand, TruthInv, TypeInv, ThreadInv
  <2>2. msg["rx"] = AckOf(cmd, "peer") /\ pc["tx"] = "ack_wait"
    BY <2>1 DEF SerialInv, Phase, Idle
  <2>3. cmd \in Commands
    BY <2>2 DEF TruthInv, TypeInv, ThreadInv
  <2>4. cmd \in executed
    BY <2>2, <2>3, <1>t, AckFacts DEF TruthInv, AuthorInv, Authored, Said
  <2>5. UNCHANGED <<cmd, executed, down>>
    BY <1>7 DEF RxGive
  <2>6. down = <<>>
    BY <2>1 DEF SerialInv, Phase, Idle
  <2>7. QED
    BY <2>4, <2>5, <2>6 DEF TakenInv
<1>8. CASE PeerAnswers
  <2>1. pc["tx"] = "ack_wait" /\ down = <<cmd>> /\ ack_received # 1
    BY <1>8 DEF PeerAnswers, SerialInv, Phase, Idle
  <2>2. down' = <<>> /\ cmd \in executed' /\ cmd' = cmd
    BY <1>8, <2>1 DEF PeerAnswers
  <2>3. QED
    BY <2>2 DEF TakenInv
<1>9. CASE Main \/ MainSession \/ UNCHANGED vars
  <2>1. UNCHANGED <<pc, cmd, down, executed, ack_received>>
    BY <1>9
    DEF Main, MainBoot, MainForward, MainEnqueue, MainBusy, MainReadFd,
        MainRead, MainReadTimeout, MainPublish, MainPublishFails, MainSession,
        vars
  <2>2. QED
    BY <2>1, TakenKept
<1>10. QED
  BY <1>1, <1>2, <1>3, <1>4, <1>5, <1>6, <1>7, <1>8, <1>9 DEF Next, Tx, Rx

RefinementInv == TruthInv /\ SerialInv /\ VerdictInv /\ TakenInv

LEMMA RefinementInvariant ==
    ASSUME Prompt
    PROVE  Spec => []RefinementInv
<1>1. Init => TakenInv
  BY DEF Init, TakenInv, Threads
<1>2. TruthInv /\ SerialInv /\ VerdictInv /\ TakenInv /\ [Next]_vars => TakenInv'
  BY TakenStep
<1>3. QED
  BY <1>1, <1>2, SerialInvariant, VerdictInvariant, PTL DEF Spec, RefinementInv

-----------------------------------------------------------------------------
(* The mapping *)

\* Where tx_thread is decides what is in hand.
LEMMA InTurnKept ==
    ASSUME pc'["tx"] = pc["tx"], cmd' = cmd
    PROVE  InTurn' = InTurn
  BY DEF InTurn

\* A step that tells the host nothing and decides on no command.
LEMMA Stutters ==
    ASSUME UNCHANGED <<Decided, cmd_q, InTurn, executed, gave_up, wire>>
    PROVE  UNCHANGED RT!vars
  BY DEF RT!vars, Verdicts

LEMMA TxImplements ==
    ASSUME Prompt, RefinementInv, Tx
    PROVE  [RT!Next]_(RT!vars)
<1> USE DEF rxVars, txVars, busVars, mainVars
<1>t. /\ DOMAIN pc = Threads /\ "rx" \in Threads /\ "tx" \in Threads
      /\ pc["tx"] # "wait_msg" => cmd \in Commands
      /\ ack_received \in {0, 1}
  BY DEF RefinementInv, TruthInv, TypeInv, TypeOK, ThreadInv, Threads
<1>z. \A c \in Commands : c # 0
  BY DEF Commands
<1>1. CASE TxTakeCommand
  <2>1. InTurn = 0 /\ InTurn' = Head(cmd_q)
    BY <1>1, <1>t DEF TxTakeCommand, InTurn
  <2>2. UNCHANGED <<Decided, executed, gave_up, Verdicts>>
    BY <1>1 DEF TxTakeCommand, Decided, Verdicts
  <2>3. RT!Begin
    BY <1>1, <2>1, <2>2 DEF TxTakeCommand, RT!Begin
  <2>4. QED
    BY <2>3 DEF RT!Next
<1>2. CASE TxSend
  <2>1. InTurn' = InTurn
    BY <1>2, <1>t DEF TxSend, AfterSend, InTurn
  <2>2. UNCHANGED <<Decided, cmd_q, executed, gave_up, wire>>
    BY <1>2 DEF TxSend, Decided
  <2>3. QED
    BY <2>1, <2>2, Stutters
<1>3. CASE TxAcked
  <2>1. InTurn = cmd /\ InTurn' = 0 /\ cmd \in executed
    BY <1>3, <1>t DEF TxAcked, InTurn, RefinementInv, TakenInv
  <2>2. UNCHANGED <<Decided, cmd_q, executed, gave_up, Verdicts>>
    BY <1>3 DEF TxAcked, Decided, Verdicts
  <2>3. RT!Complete
    BY <2>1, <2>2 DEF RT!Complete
  <2>4. QED
    BY <2>3 DEF RT!Next
<1>4. CASE TxSendFails \/ TxTimeout
  <2>1. InTurn = cmd /\ InTurn' = 0 /\ cmd # 0
    BY <1>4, <1>t, <1>z DEF TxSendFails, TxTimeout, AnswerForPeer, InTurn
  <2>2. /\ gave_up' = gave_up \cup {cmd}
        /\ UNCHANGED <<Decided, cmd_q, executed, Verdicts>>
    BY <1>4 DEF TxSendFails, TxTimeout, AnswerForPeer, Decided, Verdicts
  <2>3. AckOf(cmd, "peer") \notin wire
    <3>1. CASE TxSendFails
      <4>1. cmd \notin executed /\ cmd \in Commands
        BY <3>1, <1>t DEF TxSendFails, RefinementInv, VerdictInv
      <4>2. QED
        BY <4>1, AckFacts DEF RefinementInv, TruthInv, AuthorInv, Authored
    <3>2. CASE TxTimeout
      <4>1. Idle
        BY <3>2, NothingLeft DEF RefinementInv
      <4>2. AckOf(cmd, "peer") \notin Told
        BY <3>2, <4>1 DEF TxTimeout, RefinementInv, VerdictInv, Idle
      <4>3. QED
        BY <4>2 DEF Told
    <3>3. QED
      BY <1>4, <3>1, <3>2
  <2>4. <<cmd, "peer">> \notin Verdicts
    <3> SUFFICES ASSUME NEW m \in wire, m.chan = "ack", m.seq = cmd, m.by = "peer"
                 PROVE  FALSE
      BY DEF Verdicts
    <3>1. m \in Acks
      BY UpwardFacts DEF RefinementInv, TruthInv, TypeInv, TypeOK, WrittenInv
    <3>2. QED
      BY <2>3, <3>1, AckIs
  <2>5. RT!GiveUp
    BY <2>1, <2>2, <2>4 DEF RT!GiveUp
  <2>6. QED
    BY <2>5 DEF RT!Next
<1>5. CASE PublishUp("tx")
  <2>1. pc["tx"] \notin {"send", "ack_wait"} /\ pc'["tx"] \notin {"send", "ack_wait"}
    BY <1>5, <1>t DEF PublishUp, PubWrite, PubLockTimeout, PubNotify, PubNoSlot, After
  <2>2. UNCHANGED <<Decided, cmd_q, executed, gave_up, wire>>
    BY <1>5 DEF PublishUp, PubWrite, PubLockTimeout, PubNotify, PubNoSlot, Decided
  <2>3. InTurn' = InTurn
    BY <2>1 DEF InTurn
  <2>4. QED
    BY <2>2, <2>3, Stutters
<1>6. QED
  BY <1>1, <1>2, <1>3, <1>4, <1>5 DEF Tx

LEMMA RxImplements ==
    ASSUME RefinementInv, Rx
    PROVE  UNCHANGED RT!vars
<1> USE DEF rxVars, txVars, busVars, mainVars
<1>t. DOMAIN pc = Threads /\ "tx" \in Threads
  BY DEF RefinementInv, TruthInv, TypeInv, TypeOK, Threads
<1>1. pc'["tx"] = pc["tx"]
  BY <1>t
  DEF Rx, RxRecvAck, RxRecvTelemetry, RxGive, PublishUp, PubWrite,
      PubLockTimeout, PubNotify, PubNoSlot
<1>2. UNCHANGED <<Decided, cmd, cmd_q, executed, gave_up, wire>>
  BY DEF Rx, RxRecvAck, RxRecvTelemetry, RxGive, PublishUp, PubWrite,
         PubLockTimeout, PubNotify, PubNoSlot, Decided
<1>3. QED
  BY <1>1, <1>2, InTurnKept, Stutters

LEMMA PeerImplements ==
    ASSUME RefinementInv, PeerAnswers
    PROVE  RT!Execute
<1> USE DEF rxVars, txVars, busVars, mainVars
<1>1. pc["tx"] = "ack_wait" /\ down = <<cmd>>
  BY DEF PeerAnswers, RefinementInv, SerialInv, Phase, Idle
<1>2. cmd \in Commands /\ cmd \notin executed
  BY <1>1 DEF RefinementInv, TakenInv, TruthInv, TypeInv, ThreadInv
<1>3. InTurn = cmd /\ InTurn' = InTurn /\ cmd # 0
  BY <1>1, <1>2 DEF PeerAnswers, InTurn, Commands
<1>4. executed' = executed \cup {cmd}
  BY <1>1 DEF PeerAnswers
<1>5. UNCHANGED <<Decided, cmd_q, gave_up, Verdicts>>
  BY DEF PeerAnswers, Decided, Verdicts
<1>6. QED
  BY <1>2, <1>3, <1>4, <1>5 DEF RT!Execute

LEMMA MainImplements ==
    ASSUME RefinementInv, Main \/ MainSession
    PROVE  [RT!Next]_(RT!vars)
<1> USE DEF rxVars, txVars, busVars, mainVars
<1>t. /\ offered \in Nat /\ NCmds \in Nat
      /\ main_pc = "forward" => offered \in 1 .. NCmds
  BY ConstantsAssumption
  DEF ConstantsAssumption, RefinementInv, TruthInv, TypeInv, TypeOK, ThreadInv, Commands
<1>k. UNCHANGED <<pc, cmd, executed, gave_up>>
  BY DEF Main, MainBoot, MainForward, MainEnqueue, MainBusy, MainReadFd,
         MainRead, MainReadTimeout, MainPublish, MainPublishFails, MainSession
<1>i. InTurn' = InTurn
  BY <1>k, InTurnKept
<1>1. CASE MainForward
  <2>1. Decided' = Decided /\ UNCHANGED <<cmd_q, wire>>
    BY <1>1, <1>t DEF MainForward, Decided
  <2>2. QED
    BY <2>1, <1>k, <1>i, Stutters
<1>2. CASE MainEnqueue
  <2>1. /\ Decided < NCmds /\ Decided' = Decided + 1 /\ offered = Decided + 1
        /\ cmd_q' = Append(cmd_q, offered) /\ UNCHANGED Verdicts
    BY <1>2, <1>t DEF MainEnqueue, OnEnqueued, Decided, Verdicts
  <2>2. RT!Accept
    BY <2>1, <1>k, <1>i DEF RT!Accept
  <2>3. QED
    BY <2>2 DEF RT!Next
<1>3. CASE MainBusy
  <2>1. /\ Decided < NCmds /\ Decided' = Decided + 1 /\ offered = Decided + 1
        /\ UNCHANGED cmd_q
    BY <1>3, <1>t DEF MainBusy, Decided
  <2>2. wire' = wire \/ wire' = wire \cup {AckOf(offered, "main")}
    BY <1>3 DEF MainBusy, AnswerBusy
  <2>3. Verdicts' \in {Verdicts, Verdicts \cup {<<offered, "main">>}}
    BY <2>2, AckFacts DEF Verdicts
  <2>4. RT!Refuse
    BY <2>1, <2>3, <1>k, <1>i DEF RT!Refuse
  <2>5. QED
    BY <2>4 DEF RT!Next
<1>4. CASE MainPublish
  <2>1. UNCHANGED <<Decided, cmd_q>> /\ wire' = wire \cup {main_msg}
    BY <1>4 DEF MainPublish, Decided
  <2>2. CASE main_msg.chan # "ack"
    <3>1. Verdicts' = Verdicts
      BY <2>1, <2>2 DEF Verdicts
    <3>2. QED
      BY <2>1, <3>1, <1>k, <1>i DEF RT!vars
  <2>3. CASE main_msg.chan = "ack"
    <3>1. main_msg \in Acks
      BY <1>4, <2>3, UpwardFacts
      DEF MainPublish, RefinementInv, TruthInv, TypeInv, TypeOK, WrittenInv
    <3>2. main_msg \in Said /\ main_msg \in Told
      BY DEF Said, Told
    <3>3. /\ main_msg.seq \in Commands /\ main_msg.by \in {"peer", "relay"}
          /\ main_msg.by = "peer"  => main_msg.seq \in executed \ gave_up
          /\ main_msg.by = "relay" => main_msg.seq \in gave_up
      BY <3>1, <3>2, AckFacts
      DEF RefinementInv, TruthInv, AuthorInv, Authored, VerdictInv, Acks
    <3>4. Verdicts' = Verdicts \cup {<<main_msg.seq, main_msg.by>>}
      BY <2>1, <2>3 DEF Verdicts
    <3>5. RT!TellPeers(main_msg.seq) \/ RT!TellOwn(main_msg.seq)
      BY <2>1, <3>3, <3>4, <1>k, <1>i DEF RT!TellPeers, RT!TellOwn
    <3>6. QED
      BY <3>3, <3>5 DEF RT!Next, Commands
  <2>4. QED
    BY <2>2, <2>3
<1>5. CASE \/ MainBoot \/ MainRead \/ MainReadTimeout \/ MainPublishFails
           \/ \E ch \in Chans : MainReadFd(ch)
           \/ MainSession
  <2>1. UNCHANGED <<Decided, cmd_q, wire>>
    BY <1>5
    DEF MainBoot, MainRead, MainReadTimeout, MainPublishFails, MainReadFd,
        MainSession, Decided
  <2>2. QED
    BY <2>1, <1>k, <1>i, Stutters
<1>6. QED
  BY <1>1, <1>2, <1>3, <1>4, <1>5 DEF Main

\* The relay keeps the promise of RoundTrip: under the premise of kAckWaitMs its
\* threads, channels and buffers cannot be told from one orderly queue of
\* commands, each of which ends executed or given up, and truly reported.
THEOREM RelayKeepsRoundTrips ==
    ASSUME Prompt
    PROVE  Spec => KeepsRoundTrips
<1>1. Init => RT!Init
  <2>1. Init => Verdicts = {}
    BY DEF Init, Verdicts
  <2>2. QED
    BY <2>1 DEF Init, RT!Init, Decided, InTurn, Threads
<1>2. RefinementInv /\ [Next]_vars => [RT!Next]_(RT!vars)
  <2> SUFFICES ASSUME RefinementInv, [Next]_vars PROVE [RT!Next]_(RT!vars)
    OBVIOUS
  <2>1. CASE UNCHANGED vars
    <3>1. UNCHANGED <<Decided, cmd_q, InTurn, executed, gave_up, wire>>
      BY <2>1 DEF vars, txVars, mainVars, Decided, InTurn
    <3>2. QED
      BY <3>1, Stutters
  <2>2. CASE PeerAnswers
    BY <2>2, PeerImplements DEF RT!Next
  <2>3. QED
    BY <2>1, <2>2, TxImplements, RxImplements, MainImplements DEF Next
<1>3. QED
  BY <1>1, <1>2, RefinementInvariant, PTL DEF Spec, KeepsRoundTrips, RT!Spec
=============================================================================
