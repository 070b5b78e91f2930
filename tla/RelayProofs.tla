---------------------------- MODULE RelayProofs ----------------------------
(***************************************************************************)
(* Theorems about Relay, for any number of commands and readings and any   *)
(* size of the buffer pool.                                                *)
(***************************************************************************)
EXTENDS Relay, TLAPS

-----------------------------------------------------------------------------
(* Sequences and messages *)

Elems(s) == {s[i] : i \in 1 .. Len(s)}

LEMMA ElemsEmpty == Elems(<<>>) = {}
  BY DEF Elems

LEMMA ElemsAppend ==
    ASSUME NEW S, NEW s \in Seq(S), NEW x \in S
    PROVE  /\ Append(s, x) \in Seq(S)
           /\ Elems(Append(s, x)) = Elems(s) \cup {x}
           /\ Len(Append(s, x)) = Len(s) + 1
<1>1. /\ Append(s, x) \in Seq(S) /\ Len(Append(s, x)) = Len(s) + 1
      /\ Len(s) \in Nat
  OBVIOUS
<1>2. \A i \in 1 .. Len(s) : Append(s, x)[i] = s[i]
  OBVIOUS
<1>3. Append(s, x)[Len(s) + 1] = x
  OBVIOUS
<1>4. 1 .. (Len(s) + 1) = (1 .. Len(s)) \cup {Len(s) + 1}
  BY <1>1
<1>5. QED
  BY <1>1, <1>2, <1>3, <1>4 DEF Elems

LEMMA ElemsTail ==
    ASSUME NEW S, NEW s \in Seq(S), s # <<>>
    PROVE  /\ Head(s) \in S /\ Head(s) \in Elems(s)
           /\ Tail(s) \in Seq(S)
           /\ Elems(Tail(s)) \subseteq Elems(s)
           /\ Len(s) > 0 /\ Len(Tail(s)) = Len(s) - 1
<1>1. Len(s) \in Nat /\ Len(s) > 0 /\ Head(s) = s[1] /\ s[1] \in S
  OBVIOUS
<1>2. Tail(s) \in Seq(S) /\ Len(Tail(s)) = Len(s) - 1
  BY <1>1
<1>3. \A i \in 1 .. Len(Tail(s)) : Tail(s)[i] = s[i + 1] /\ i + 1 \in 1 .. Len(s)
  BY <1>1, <1>2
<1>4. QED
  BY <1>1, <1>2, <1>3 DEF Elems

LEMMA ElemsType ==
    ASSUME NEW S, NEW s \in Seq(S)
    PROVE  Elems(s) \subseteq S /\ Len(s) \in Nat
  BY DEF Elems

\* A message knows its channel; an Ack answers a command.
LEMMA UpwardFacts ==
    /\ Zero \notin Upward
    /\ \A m \in Upward : m.chan \in Chans /\ m.seq \in Nat
    /\ \A m \in Upward : m.chan = "ack" => m \in Acks
    /\ \A m \in Acks : m.chan = "ack" /\ m.seq \in Commands
    /\ \A m \in Readings : m.chan = "telemetry"
    /\ Acks \subseteq Upward
<1>1. \A m \in Acks : m.chan = "ack" /\ m.seq \in Commands
  BY DEF Acks, AckOf
<1>2. \A m \in Readings : m.chan = "telemetry" /\ m.seq \in 1 .. NReadings
  BY DEF Readings, ReadingOf
<1>3. Commands \subseteq Nat /\ 1 .. NReadings \subseteq Nat
  BY DEF Commands
<1>4. Zero.chan = "none"
  BY DEF Zero
<1>5. QED
  BY <1>1, <1>2, <1>3, <1>4 DEF Upward, Chans

LEMMA AckFacts ==
    ASSUME NEW c, NEW a
    PROVE  /\ AckOf(c, a).chan = "ack" /\ AckOf(c, a).seq = c
           /\ AckOf(c, a).by = a
           /\ c \in Commands /\ a \in {"peer", "relay", "main"}
              => AckOf(c, a) \in Acks
  BY DEF AckOf, Acks

-----------------------------------------------------------------------------
(* Types *)

\* Where each thread can be, and what it then has in its hands.
ThreadInv ==
    /\ pc["rx"] \in {"recv", "lock", "notify", "give"}
    /\ pc["tx"] \in {"wait_msg", "send", "ack_wait", "lock", "notify"}
    /\ \A t \in Threads : pc[t] \in {"lock", "notify"} => msg[t] \in Upward
    /\ pc["rx"] = "give" => msg["rx"] \in Acks
    /\ pc["tx"] # "wait_msg" => cmd \in Commands
    /\ main_pc = "forward" => offered \in Commands

TypeInv == TypeOK /\ ThreadInv

LEMMA ServingType ==
    ASSUME serving \in BOOLEAN, Next
    PROVE  serving' \in BOOLEAN
<1> USE DEF mainVars
<1>1. CASE serving' = serving
  BY <1>1
<1>2. CASE MainPublishFails
  BY <1>2, Zenon DEF MainPublishFails
<1>3. CASE MainSession
  BY <1>3, Zenon DEF MainSession
<1>4. QED
  BY <1>1, <1>2, <1>3
  DEF Next, Tx, Rx, Main, PublishUp, TxTakeCommand, TxSend, TxSendFails,
      TxAcked, TxTimeout, PubWrite, PubLockTimeout, PubNotify, PubNoSlot,
      RxRecvAck, RxRecvTelemetry, RxGive, PeerAnswers, MainBoot, MainForward,
      MainEnqueue, MainBusy, MainReadFd, MainRead,
      MainReadTimeout, MainPublish

\* A publication over, rx_thread gives or listens and tx_thread waits.
LEMMA AfterType ==
    ASSUME TypeInv, NEW t \in Threads, pc[t] \in {"lock", "notify"},
           pc' = [pc EXCEPT ![t] = After(t)], msg' = msg, cmd' = cmd,
           UNCHANGED mainVars
    PROVE  pc' \in [Threads -> {"recv", "wait_msg", "send", "ack_wait", "lock",
                               "notify", "give"}] /\ ThreadInv'
<1>1. CASE t = "tx"
  BY <1>1 DEF TypeInv, TypeOK, ThreadInv, After, Threads, mainVars
<1>2. CASE t = "rx"
  <2>1. CASE msg["rx"].chan = "ack"
    BY <1>2, <2>1, UpwardFacts DEF TypeInv, TypeOK, ThreadInv, After, Threads, mainVars
  <2>2. CASE msg["rx"].chan # "ack"
    BY <1>2, <2>2 DEF TypeInv, TypeOK, ThreadInv, After, Threads, mainVars
  <2>3. QED
    BY <2>1, <2>2
<1>3. QED
  BY <1>1, <1>2 DEF Threads

LEMMA AnswerType ==
    ASSUME TypeInv, pc["tx"] # "wait_msg", AnswerForPeer, cmd' = cmd,
           UNCHANGED mainVars
    PROVE  /\ pc' \in [Threads -> {"recv", "wait_msg", "send", "ack_wait",
                                  "lock", "notify", "give"}]
           /\ msg' \in [Threads -> Upward \cup {Zero}]
           /\ gave_up' \subseteq Commands
           /\ ThreadInv'
<1>1. AckOf(cmd, "relay") \in Acks /\ cmd \in Commands
  BY AckFacts DEF TypeInv, ThreadInv
<1>2. QED
  BY <1>1, UpwardFacts
  DEF TypeInv, TypeOK, ThreadInv, AnswerForPeer, SyntheticAck, Threads,
      mainVars

LEMMA AnswerBusyType ==
    ASSUME wire \subseteq Upward \cup {Zero}, NEW c \in Commands, AnswerBusy(c)
    PROVE  wire' \subseteq Upward \cup {Zero}
  BY AckFacts, UpwardFacts DEF AnswerBusy

LEMMA TypeStep ==
    ASSUME TypeInv, [Next]_vars
    PROVE  TypeInv'
<1> USE DEF TypeInv, TypeOK, ThreadInv, Threads, rxVars, txVars, busVars, mainVars
<1>s. serving' \in BOOLEAN
  BY ServingType DEF vars
<1>c. Commands = 1 .. NCmds /\ NCmds \in Nat /\ NReadings \in Nat
  BY ConstantsAssumption DEF ConstantsAssumption, Commands
<1>1. CASE TxTakeCommand
  <2>1. Head(cmd_q) \in Commands /\ Tail(cmd_q) \in Seq(Commands)
    BY <1>1, ElemsTail DEF TxTakeCommand
  <2>2. QED
    BY <1>1, <1>s, <1>c, <2>1 DEF TxTakeCommand
<1>2. CASE TxSend
  <2>1. Append(down, cmd) \in Seq(Commands)
    BY <1>2, ElemsAppend DEF TxSend
  <2>2. QED
    BY <1>2, <1>s, <2>1 DEF TxSend, AfterSend
<1>3. CASE TxSendFails
  <2>1. Append(down, cmd) \in Seq(Commands)
    BY <1>3, ElemsAppend DEF TxSendFails
  <2>2. down' \in {down, Append(down, cmd)}
    BY <1>3 DEF TxSendFails
  <2>3. QED
    BY <1>3, <1>s, <2>1, <2>2, AnswerType DEF TxSendFails
<1>4. CASE TxAcked
  BY <1>4, <1>s DEF TxAcked
<1>5. CASE TxTimeout
  BY <1>5, <1>s, AnswerType DEF TxTimeout
<1>6. ASSUME NEW t \in Threads, PublishUp(t) PROVE TypeInv'
  <2>1. CASE PubWrite(t)
    <3>1. msg[t] \in Upward /\ msg[t].chan \in Chans
      BY <2>1, UpwardFacts DEF PubWrite
    <3>2. QED
      BY <2>1, <3>1, <1>s DEF PubWrite
  <2>2. CASE PubLockTimeout(t)
    BY <2>2, <1>s, AfterType DEF PubLockTimeout
  <2>3. CASE PubNotify(t)
    <3>1. msg[t] \in Upward /\ msg[t].chan \in Chans
      BY <2>3, UpwardFacts DEF PubNotify
    <3>2. posted' \subseteq Acks
      BY <2>3, <3>1, UpwardFacts DEF PubNotify
    <3>3. evt_fd' \in [Chans -> Nat] /\ lock' \in [Chans -> Threads \cup {"free"}]
      BY <2>3, <3>1 DEF PubNotify
    <3>4. QED
      BY <2>3, <3>2, <3>3, <1>s, AfterType DEF PubNotify
  <2>4. CASE PubNoSlot(t)
    <3>1. msg[t] \in Upward /\ msg[t].chan \in Chans
      BY <2>4, UpwardFacts DEF PubNoSlot
    <3>2. lock' \in [Chans -> Threads \cup {"free"}]
      BY <2>4, <3>1 DEF PubNoSlot
    <3>3. QED
      BY <2>4, <3>2, <1>s, AfterType DEF PubNoSlot
  <2>5. QED
    BY <1>6, <2>1, <2>2, <2>3, <2>4 DEF PublishUp
<1>7. CASE RxRecvAck
  <2>1. Head(up) \in Commands /\ Tail(up) \in Seq(Commands)
    BY <1>7, ElemsTail DEF RxRecvAck
  <2>2. AckOf(Head(up), "peer") \in Upward
    BY <2>1, AckFacts, UpwardFacts
  <2>3. QED
    BY <1>7, <1>s, <2>1, <2>2 DEF RxRecvAck
<1>8. CASE RxRecvTelemetry
  <2>1. PICK n \in (heard + 1) .. NReadings :
           heard' = n /\ msg' = [msg EXCEPT !["rx"] = ReadingOf(n)]
    BY <1>8 DEF RxRecvTelemetry
  <2>2. n \in 1 .. NReadings
    BY <1>c
  <2>3. ReadingOf(n) \in Upward /\ heard' \in 0 .. NReadings
    BY <2>1, <2>2 DEF Upward, Readings
  <2>4. QED
    BY <1>8, <1>s, <2>1, <2>3 DEF RxRecvTelemetry
<1>9. CASE RxGive
  <2>1. giver' \in Nat
    BY <1>9, UpwardFacts DEF RxGive
  <2>2. QED
    BY <1>9, <1>s, <2>1 DEF RxGive, Given
<1>10. CASE PeerAnswers
  <2>1. Head(down) \in Commands /\ Tail(down) \in Seq(Commands)
    BY <1>10, ElemsTail DEF PeerAnswers
  <2>2. Append(up, Head(down)) \in Seq(Commands)
    BY <2>1, ElemsAppend
  <2>3. /\ down' \in Seq(Commands) /\ up' \in Seq(Commands)
        /\ executed' \subseteq Commands
    BY <1>10, <2>1, <2>2 DEF PeerAnswers
  <2>4. UNCHANGED <<offered, cmd_q, pc, msg, cmd, ack_received, heard, chan, lock,
                    evt_fd, main_pc, main_chan, main_msg, giver, gave_up, posted,
                    wire>>
    BY <1>10 DEF PeerAnswers
  <2>5. QED
    BY <1>s, <2>3, <2>4
<1>11. CASE MainBoot
  BY <1>11, <1>s DEF MainBoot
<1>12. CASE MainForward
  BY <1>12, <1>s, <1>c DEF MainForward
<1>13. CASE MainEnqueue
  <2>1. cmd_q' \in Seq(Commands)
    BY <1>13 DEF MainEnqueue
  <2>2. QED
    BY <1>13, <1>s, <2>1 DEF MainEnqueue, OnEnqueued
<1>14. CASE MainBusy
  BY <1>14, <1>s, AnswerBusyType DEF MainBusy
<1>15. ASSUME NEW ch \in Chans, MainReadFd(ch) PROVE TypeInv'
  BY <1>15, <1>s DEF MainReadFd
<1>16. CASE MainRead
  BY <1>16, <1>s DEF MainRead
<1>17. CASE MainReadTimeout
  BY <1>17, <1>s DEF MainReadTimeout
<1>18. CASE MainPublish
  BY <1>18, <1>s DEF MainPublish
<1>19. CASE MainPublishFails
  BY <1>19, <1>s DEF MainPublishFails
<1>20. CASE MainSession
  BY <1>20, <1>s DEF MainSession
<1>21. CASE UNCHANGED vars
  BY <1>21 DEF vars
<1>22. QED
  BY <1>1, <1>2, <1>3, <1>4, <1>5, <1>6, <1>7, <1>8, <1>9, <1>10, <1>11,
     <1>12, <1>13, <1>14, <1>15, <1>16, <1>17, <1>18, <1>19, <1>20, <1>21
  DEF Next, Tx, Rx, Main

\* The type invariant of the round trip: in particular the semaphore keeps to
\* its limit of 1, and what travels is a command, an Ack or a reading.
THEOREM TypeCorrect == Spec => []TypeOK
<1>1. Init => TypeInv
  <2>1. Init => serving \in BOOLEAN
    BY Zenon DEF Init
  <2>2. QED
    BY <2>1, ConstantsAssumption
    DEF ConstantsAssumption, Init, TypeInv, TypeOK, ThreadInv, Threads, Chans
<1>2. TypeInv /\ [Next]_vars => TypeInv'
  BY TypeStep
<1>3. TypeInv => TypeOK
  BY DEF TypeInv
<1>4. QED
  BY <1>1, <1>2, <1>3, PTL DEF Spec

-----------------------------------------------------------------------------
(* No channel is read before it has been written *)

WrittenInv ==
    /\ \A ch \in Chans : evt_fd[ch] > 0 => chan[ch] # Zero
    /\ \A t \in Threads : pc[t] = "notify" => chan[msg[t].chan] # Zero
    /\ main_pc = "read" => chan[main_chan] # Zero
    /\ main_pc = "publish" => main_msg # Zero
    /\ Zero \notin wire

\* A channel once written stays written.
LEMMA WrittenStays ==
    ASSUME TypeInv, WrittenInv, NEW t \in Threads, PubWrite(t)
    PROVE  /\ \A ch \in Chans : chan[ch] # Zero => chan'[ch] # Zero
           /\ chan'[msg[t].chan] # Zero
<1>1. msg[t] \in Upward /\ msg[t].chan \in Chans
  BY UpwardFacts DEF PubWrite, TypeInv, ThreadInv
<1>2. QED
  BY <1>1, UpwardFacts DEF PubWrite, TypeInv, TypeOK

\* Steps that touch neither the channels nor what is read from them.
LEMMA WrittenKept ==
    ASSUME WrittenInv, UNCHANGED <<evt_fd, chan, msg, main_chan, main_msg, wire>>,
           \A t \in Threads : pc'[t] = "notify" => pc[t] = "notify",
           main_pc' \in {"read", "publish"} => main_pc' = main_pc
    PROVE  WrittenInv'
  BY DEF WrittenInv

LEMMA WrittenStep ==
    ASSUME TypeInv, TypeInv', WrittenInv, [Next]_vars
    PROVE  WrittenInv'
<1> USE DEF TypeInv, TypeOK, ThreadInv, WrittenInv, Threads, rxVars, txVars,
            busVars, mainVars
<1>z. \A c, a : AckOf(c, a) # Zero
  BY DEF AckOf, Zero
<1>m. \A t \in Threads : msg[t] \in Upward => msg[t].chan \in Chans
  BY UpwardFacts
<1>1. ASSUME NEW t \in Threads, PublishUp(t) PROVE WrittenInv'
  <2>1. CASE PubWrite(t)
    BY <2>1, <1>m, WrittenStays DEF PubWrite
  <2>2. CASE PubLockTimeout(t)
    BY <2>2, AfterType DEF PubLockTimeout, After
  <2>3. CASE PubNotify(t)
    <3>1. msg[t].chan \in Chans /\ chan[msg[t].chan] # Zero
      BY <2>3, <1>m DEF PubNotify
    <3>2. \A ch \in Chans : evt_fd'[ch] > 0 => chan'[ch] # Zero
      BY <2>3, <3>1 DEF PubNotify
    <3>3. QED
      BY <2>3, <3>2 DEF PubNotify, After
  <2>4. CASE PubNoSlot(t)
    BY <2>4 DEF PubNoSlot, After
  <2>5. QED
    BY <1>1, <2>1, <2>2, <2>3, <2>4 DEF PublishUp
<1>2. CASE TxTakeCommand \/ TxSend \/ TxAcked
  BY <1>2 DEF TxTakeCommand, TxSend, TxAcked, AfterSend
<1>3. CASE TxSendFails \/ TxTimeout
  BY <1>3 DEF TxSendFails, TxTimeout, AnswerForPeer
<1>4. CASE RxRecvAck \/ RxRecvTelemetry \/ RxGive
  BY <1>4 DEF RxRecvAck, RxRecvTelemetry, RxGive
<1>5. CASE PeerAnswers \/ MainBoot \/ MainForward \/ MainSession
  <2>1. /\ UNCHANGED <<evt_fd, chan, msg, main_chan, main_msg, wire, pc>>
        /\ main_pc' \in {"read", "publish"} => main_pc' = main_pc
    BY <1>5 DEF PeerAnswers, MainBoot, MainForward, MainSession
  <2>2. QED
    BY <2>1, WrittenKept
<1>6. CASE MainEnqueue \/ MainBusy
  BY <1>6, <1>z
  DEF MainEnqueue, MainBusy, OnEnqueued, AnswerBusy
<1>7. ASSUME NEW ch \in Chans, MainReadFd(ch) PROVE WrittenInv'
  BY <1>7 DEF MainReadFd, Readable
<1>8. CASE MainRead \/ MainReadTimeout
  BY <1>8 DEF MainRead, MainReadTimeout
<1>9. CASE MainPublish \/ MainPublishFails
  BY <1>9 DEF MainPublish, MainPublishFails
<1>10. CASE UNCHANGED vars
  BY <1>10 DEF vars
<1>11. QED
  BY <1>1, <1>2, <1>3, <1>4, <1>5, <1>6, <1>7, <1>8, <1>9, <1>10
  DEF Next, Tx, Rx, Main

-----------------------------------------------------------------------------
(* Every Ack is authored by whom it names *)

\* The messages the gateway holds, and the commands that entered the relay.
Said    == {msg[t] : t \in Threads} \cup {chan[ch] : ch \in Chans} \cup {main_msg}
Entered == {cmd} \cup Elems(cmd_q) \cup Elems(down) \cup executed \cup gave_up

Authored(m) ==
    m \in Acks => /\ m.by = "peer" => m.seq \in executed
                  /\ m.by = "relay" => m.seq \in gave_up

AuthorInv ==
    /\ Elems(up) \subseteq executed
    /\ \A m \in Said : Authored(m) /\ (m \in Acks => m.by # "main")
    /\ \A m \in wire : Authored(m)

\* A command main() refused never enters the relay.
RefusedInv ==
    /\ \A c \in Entered : c <= offered /\ (main_pc = "forward" => c # offered)
    /\ \A m \in wire : m \in Acks /\ m.by = "main" =>
          /\ m.seq \notin Entered
          /\ m.seq <= offered
          /\ main_pc = "forward" => m.seq # offered

\* Steps that say nothing new.
LEMMA AuthorKept ==
    ASSUME AuthorInv, Elems(up') \subseteq executed',
           executed \subseteq executed', gave_up \subseteq gave_up',
           Said' \subseteq Said,
           \A m \in wire' : m \in wire \/ m \in Said \/ m.by = "main"
    PROVE  AuthorInv'
  BY DEF AuthorInv, Authored, Acks

LEMMA AuthorStep ==
    ASSUME TypeInv, TypeInv', AuthorInv, [Next]_vars
    PROVE  AuthorInv'
<1> USE DEF rxVars, txVars, busVars, mainVars
<1>t. /\ DOMAIN msg = Threads /\ DOMAIN chan = Chans /\ Elems(up) \subseteq executed
      /\ up \in Seq(Commands) /\ down \in Seq(Commands)
  BY DEF TypeInv, TypeOK, AuthorInv
<1>1. ASSUME NEW t \in Threads, PublishUp(t) PROVE AuthorInv'
  <2>1. CASE PubWrite(t)
    <3>1. msg[t] \in Upward /\ msg[t].chan \in Chans
      BY <2>1, UpwardFacts DEF PubWrite, TypeInv, ThreadInv
    <3>2. Said' \subseteq Said
      BY <2>1, <3>1, <1>t DEF PubWrite, Said
    <3>3. QED
      BY <2>1, <3>2, <1>t, AuthorKept DEF PubWrite
  <2>2. CASE PubLockTimeout(t) \/ PubNotify(t) \/ PubNoSlot(t)
    <3>1. Said' = Said
      BY <2>2 DEF PubLockTimeout, PubNotify, PubNoSlot, Said
    <3>2. QED
      BY <2>2, <3>1, <1>t, AuthorKept DEF PubLockTimeout, PubNotify, PubNoSlot
  <2>3. QED
    BY <1>1, <2>1, <2>2 DEF PublishUp
<1>2. CASE TxTakeCommand \/ TxSend \/ TxAcked \/ RxGive
  <2>1. Said' = Said
    BY <1>2 DEF TxTakeCommand, TxSend, TxAcked, RxGive, Said
  <2>2. QED
    BY <1>2, <2>1, <1>t, AuthorKept DEF TxTakeCommand, TxSend, TxAcked, RxGive
<1>3. CASE TxSendFails \/ TxTimeout
  <2>1. /\ AnswerForPeer
        /\ UNCHANGED <<rxVars, busVars, mainVars, executed>>
    BY <1>3 DEF TxSendFails, TxTimeout
  <2>2. /\ gave_up' = gave_up \cup {cmd}
        /\ msg' = [msg EXCEPT !["tx"] = AckOf(cmd, "relay")]
    BY <2>1 DEF AnswerForPeer, SyntheticAck
  <2>3. Said' \subseteq Said \cup {AckOf(cmd, "relay")}
    BY <2>1, <2>2, <1>t DEF Said
  <2>4. QED
    BY <2>1, <2>2, <2>3, AckFacts DEF AuthorInv, Authored
<1>4. CASE RxRecvAck
  <2>1. Head(up) \in Elems(up) /\ Elems(Tail(up)) \subseteq Elems(up)
    BY <1>4, <1>t, ElemsTail DEF RxRecvAck
  <2>2. Said' \subseteq Said \cup {AckOf(Head(up), "peer")}
    BY <1>4, <1>t DEF RxRecvAck, Said
  <2>3. QED
    BY <1>4, <2>1, <2>2, AckFacts DEF RxRecvAck, AuthorInv, Authored
<1>5. CASE RxRecvTelemetry
  <2>1. PICK n \in (heard + 1) .. NReadings :
           msg' = [msg EXCEPT !["rx"] = ReadingOf(n)]
    BY <1>5 DEF RxRecvTelemetry
  <2>2. ReadingOf(n) \notin Acks
    BY UpwardFacts DEF ReadingOf
  <2>3. Said' \subseteq Said \cup {ReadingOf(n)}
    BY <1>5, <2>1, <1>t DEF RxRecvTelemetry, Said
  <2>4. QED
    BY <1>5, <2>2, <2>3 DEF RxRecvTelemetry, AuthorInv, Authored
<1>6. CASE PeerAnswers
  <2>1. Head(down) \in Commands
    BY <1>6, <1>t, ElemsTail DEF PeerAnswers
  <2>2. Elems(up') \subseteq executed'
    BY <1>6, <2>1, <1>t, ElemsAppend DEF PeerAnswers
  <2>3. Said' = Said
    BY <1>6 DEF PeerAnswers, Said
  <2>4. QED
    BY <1>6, <2>2, <2>3, AuthorKept DEF PeerAnswers
<1>7. CASE MainEnqueue \/ MainBusy
  <2>1. Said' = Said /\ UNCHANGED <<up, executed, gave_up>>
    BY <1>7 DEF MainEnqueue, MainBusy, Said
  <2>2. \A m \in wire' : m \in wire \/ m.by = "main"
    BY <1>7, AckFacts
    DEF MainEnqueue, MainBusy, OnEnqueued, AnswerBusy
  <2>3. QED
    BY <2>1, <2>2, <1>t, AuthorKept
<1>8. CASE MainRead
  <2>1. Said' \subseteq Said
    BY <1>8 DEF MainRead, Said, TypeInv, TypeOK
  <2>2. QED
    BY <1>8, <2>1, <1>t, AuthorKept DEF MainRead
<1>9. CASE MainPublish
  <2>1. Said' = Said /\ main_msg \in Said
    BY <1>9 DEF MainPublish, Said
  <2>2. QED
    BY <1>9, <2>1, <1>t, AuthorKept DEF MainPublish
<1>10. ASSUME NEW ch \in Chans, MainReadFd(ch) PROVE AuthorInv'
  <2>1. Said' = Said
    BY <1>10 DEF MainReadFd, Said
  <2>2. QED
    BY <1>10, <2>1, <1>t, AuthorKept DEF MainReadFd
<1>11. CASE MainBoot \/ MainForward \/ MainReadTimeout \/ MainPublishFails
            \/ MainSession \/ UNCHANGED vars
  <2>1. /\ Said' = Said
        /\ UNCHANGED <<up, executed, gave_up, wire>>
    BY <1>11 DEF MainBoot, MainForward, MainReadTimeout, MainPublishFails,
       MainSession, vars, Said
  <2>2. QED
    BY <2>1, <1>t, AuthorKept
<1>12. QED
  BY <1>1, <1>2, <1>3, <1>4, <1>5, <1>6, <1>7, <1>8, <1>9, <1>10, <1>11
  DEF Next, Tx, Rx, Main, Threads

\* Steps by which no command enters and none is refused.
LEMMA RefusedKept ==
    ASSUME RefusedInv, AuthorInv, Entered' \subseteq Entered,
           offered' = offered, main_pc' = "forward" => main_pc = "forward",
           wire' \subseteq wire \cup {main_msg}
    PROVE  RefusedInv'
  BY DEF RefusedInv, AuthorInv, Said

LEMMA RefusedStep ==
    ASSUME TypeInv, TypeInv', AuthorInv, RefusedInv, [Next]_vars
    PROVE  RefusedInv'
<1> USE DEF rxVars, txVars, busVars, mainVars
<1>t. /\ cmd_q \in Seq(Commands) /\ down \in Seq(Commands)
      /\ offered \in Nat
      /\ pc["tx"] # "wait_msg" => cmd \in Commands
  BY ConstantsAssumption DEF ConstantsAssumption, TypeInv, TypeOK, ThreadInv
<1>e. Entered \subseteq Nat
  <2>1. Elems(cmd_q) \subseteq Commands /\ Elems(down) \subseteq Commands
    BY <1>t, ElemsType
  <2>2. executed \subseteq Commands /\ gave_up \subseteq Commands
    BY DEF TypeInv, TypeOK
  <2>3. cmd \in 0 .. NCmds
    BY DEF TypeInv, TypeOK
  <2>4. Commands \subseteq Nat /\ 0 .. NCmds \subseteq Nat
    BY DEF Commands
  <2>5. QED
    BY <2>1, <2>2, <2>3, <2>4 DEF Entered
<1>1. CASE TxTakeCommand
  <2>1. Head(cmd_q) \in Elems(cmd_q) /\ Elems(Tail(cmd_q)) \subseteq Elems(cmd_q)
    BY <1>1, <1>t, ElemsTail DEF TxTakeCommand
  <2>2. Entered' \subseteq Entered
    BY <1>1, <2>1 DEF TxTakeCommand, Entered
  <2>3. QED
    BY <1>1, <2>2, RefusedKept DEF TxTakeCommand
<1>2. CASE TxSend \/ TxSendFails \/ TxTimeout
  <2>1. /\ pc["tx"] # "wait_msg" /\ cmd' = cmd /\ cmd_q' = cmd_q
        /\ UNCHANGED <<mainVars, executed>>
        /\ gave_up' \subseteq gave_up \cup {cmd}
        /\ down' = down \/ down' = Append(down, cmd)
    BY <1>2 DEF TxSend, TxSendFails, TxTimeout, AnswerForPeer
  <2>2. Elems(Append(down, cmd)) = Elems(down) \cup {cmd}
    BY <2>1, <1>t, ElemsAppend
  <2>3. Entered' \subseteq Entered
    BY <2>1, <2>2 DEF Entered
  <2>4. QED
    BY <2>1, <2>3, RefusedKept
<1>3. CASE PeerAnswers
  <2>1. Head(down) \in Elems(down) /\ Elems(Tail(down)) \subseteq Elems(down)
    BY <1>3, <1>t, ElemsTail DEF PeerAnswers
  <2>2. Entered' \subseteq Entered
    BY <1>3, <2>1 DEF PeerAnswers, Entered
  <2>3. QED
    BY <1>3, <2>2, RefusedKept DEF PeerAnswers
<1>4. CASE MainForward
  <2>1. Entered' = Entered /\ wire' = wire /\ offered' = offered + 1
    BY <1>4 DEF MainForward, Entered
  <2>2. \A m \in wire : m \in Acks => m.seq \in Nat
    BY UpwardFacts
  <2>3. QED
    BY <2>1, <2>2, <1>t, <1>e DEF RefusedInv
<1>5. CASE MainEnqueue
  <2>1. offered \in Commands
    BY <1>5 DEF MainEnqueue, TypeInv, ThreadInv
  <2>2. Elems(cmd_q') = Elems(cmd_q) \cup {offered}
    BY <1>5, <2>1, <1>t, ElemsAppend DEF MainEnqueue
  <2>3. Entered' = Entered \cup {offered} /\ wire' = wire
    BY <1>5, <2>2 DEF MainEnqueue, OnEnqueued, Entered
  <2>4. QED
    BY <1>5, <2>3, <1>t DEF MainEnqueue, RefusedInv
<1>6. CASE MainBusy
  <2>1. Entered' = Entered /\ offered' = offered /\ offered \notin Entered
    BY <1>6 DEF MainBusy, Entered, RefusedInv
  <2>2. wire' \subseteq wire \cup {AckOf(offered, "main")}
    BY <1>6 DEF MainBusy, AnswerBusy
  <2>3. QED
    BY <1>6, <2>1, <2>2, <1>t, AckFacts DEF MainBusy, RefusedInv
<1>7. CASE \/ TxAcked \/ Rx \/ PublishUp("tx") \/ MainBoot
           \/ \E ch \in Chans : MainReadFd(ch)
           \/ MainRead \/ MainReadTimeout \/ MainPublish \/ MainPublishFails
           \/ MainSession \/ UNCHANGED vars
  <2>1. /\ Entered' = Entered /\ offered' = offered
        /\ wire' \subseteq wire \cup {main_msg}
        /\ main_pc' = "forward" => main_pc = "forward"
    BY <1>7
    DEF TxAcked, Rx, RxRecvAck, RxRecvTelemetry, RxGive, PublishUp, PubWrite,
        PubLockTimeout, PubNotify, PubNoSlot, MainBoot, MainReadFd, MainRead,
        MainReadTimeout, MainPublish, MainPublishFails, MainSession, vars,
        Entered
  <2>2. QED
    BY <2>1, RefusedKept
<1>8. QED
  BY <1>1, <1>2, <1>3, <1>4, <1>5, <1>6, <1>7 DEF Next, Tx, Main

TruthInv == TypeInv /\ WrittenInv /\ AuthorInv /\ RefusedInv

LEMMA TruthInvariant == Spec => []TruthInv
<1>1. Init => TypeInv
  <2>1. Init => serving \in BOOLEAN
    BY Zenon DEF Init
  <2>2. QED
    BY <2>1, ConstantsAssumption
    DEF ConstantsAssumption, Init, TypeInv, TypeOK, ThreadInv, Threads, Chans
<1>2. Init => WrittenInv /\ AuthorInv /\ RefusedInv
  <2>1. Init => Said = {Zero} /\ Entered = {0} /\ Elems(up) = {}
    BY ElemsEmpty DEF Init, Said, Entered, Threads, Chans
  <2>2. Zero \notin Acks
    BY UpwardFacts
  <2>3. QED
    BY <2>1, <2>2
    DEF Init, WrittenInv, AuthorInv, Authored, RefusedInv, Threads
<1>3. TruthInv /\ [Next]_vars => TruthInv'
  BY TypeStep, WrittenStep, AuthorStep, RefusedStep DEF TruthInv
<1>4. QED
  BY <1>1, <1>2, <1>3, PTL DEF Spec, TruthInv

\* What the gateway publishes about a command is true: the peer took it up, or
\* the relay gave up on it, or it never entered the relay; and no channel is
\* relayed before its first publication.
THEOREM OnlyTruthIsPublished == Spec => []AcksAreTruthful
<1>1. TruthInv => AcksAreTruthful
  <2> SUFFICES ASSUME TruthInv PROVE AcksAreTruthful
    OBVIOUS
  <2>1. Zero \notin wire
    BY DEF TruthInv, WrittenInv
  <2>2. ASSUME NEW m \in wire, m.chan = "ack"
        PROVE  CASE m.by = "peer"  -> m.seq \in executed
                 [] m.by = "relay" -> m.seq \in gave_up
                 [] m.by = "main"  -> m.seq \notin executed \cup gave_up
    <3>1. m \in Acks /\ m.by \in {"peer", "relay", "main"}
      <4>1. m \in Upward
        BY <2>1, <2>2 DEF TruthInv, TypeInv, TypeOK
      <4>2. QED
        BY <4>1, <2>2, UpwardFacts DEF Acks, AckOf
    <3>2. Authored(m)
      BY DEF TruthInv, AuthorInv
    <3>3. m.by = "main" => m.seq \notin executed \cup gave_up
      BY <3>1 DEF TruthInv, RefusedInv, Entered
    <3>4. QED
      BY <3>1, <3>2, <3>3 DEF Authored
  <2>3. QED
    BY <2>1, <2>2 DEF AcksAreTruthful
<1>2. QED
  BY <1>1, TruthInvariant, PTL
=============================================================================
