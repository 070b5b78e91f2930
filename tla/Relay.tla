------------------------------- MODULE Relay -------------------------------
(***************************************************************************)
(* The gateway's command round trip: gateway/src/relay.cpp together with   *)
(* the part of gateway/src/main.cpp that feeds it (forward_to_peer) and    *)
(* that empties it (publish_relayed).                                      *)
(*                                                                         *)
(* Three threads share the state.  main() takes commands off the MQTT      *)
(* socket and puts them on chan_relay_command; tx_thread sends them over   *)
(* ISO-TP one at a time and waits for the peer's Ack on a semaphore;       *)
(* rx_thread receives the peer's Acks and readings and publishes them on   *)
(* two latest-wins channels, each with an eventfd that wakes main().  A    *)
(* thread can be preempted between any two of the steps below.             *)
(*                                                                         *)
(* Time is abstract: a timed wait may give up whenever what it waits for   *)
(* is not there.  Prompt = TRUE assumes what the code expects but cannot   *)
(* enforce: tx_thread's wait for an Ack ends only when no answer is on its *)
(* way (the comment on kAckWaitMs, relay.cpp:65-67), and a command whose   *)
(* send was reported failed has not reached the peer (relay.cpp:351-357    *)
(* answers for the peer there).                                            *)
(*                                                                         *)
(* isotp_send() is one step, so it is assumed to end, also where nobody    *)
(* acknowledges its frames.  docs/can-bringup.md:173-175 says that the     *)
(* controller repeats such a frame for ever: that the transfer is given up *)
(* all the same is left to the ISO-TP library's own timeouts.              *)
(***************************************************************************)
EXTENDS Naturals, Sequences

CONSTANTS
    NCmds,      \* the host's commands are 1..NCmds; a command is its sequence
    NReadings,  \* the peer's readings are 1..NReadings
    PoolSlots,  \* CONFIG_ZBUS_MSG_SUBSCRIBER_NET_BUF_POOL_SIZE
    Prompt      \* whether no Ack comes after kAckWaitMs, nor after a send that
                \* was reported failed

ASSUME ConstantsAssumption ==
    /\ NCmds \in Nat
    /\ NReadings \in Nat
    /\ PoolSlots \in Nat
    /\ Prompt \in BOOLEAN

VARIABLES
    offered,       \* how many commands main() has read from the MQTT socket
    cmd_q,         \* the FIFO of relay_cmd_sub
    pc,            \* where rx_thread and tx_thread are
    msg,           \* what each of them is publishing upward
    cmd,           \* tx_thread's command
    ack_received,  \* the semaphore
    down, up,      \* commands and Acks travelling over ISO-TP
    heard,         \* the last reading rx_thread received
    chan,          \* the value each upward channel holds
    lock,          \* which publisher holds each channel's lock
    evt_fd,        \* the counter of each channel's eventfd
    main_pc, main_chan, main_msg,  \* main(), and what it is relaying
    serving,       \* the peer session is SESSION_SERVING
    \* The rest is history, read by properties only:
    giver,         \* the command whose Ack last gave the semaphore
    executed,      \* the commands the peer has taken up
    gave_up,       \* the commands tx_thread answered itself
    posted,        \* the Acks signalled on chan_relay_ack
    wire           \* what main() has published to the broker

rxVars   == <<heard, up>>
txVars   == <<cmd, gave_up>>
busVars  == <<chan, lock, evt_fd, posted>>
mainVars == <<main_pc, main_chan, main_msg, serving, offered, wire>>
vars == <<rxVars, txVars, busVars, mainVars, cmd_q, pc, msg, ack_received,
          down, giver, executed>>

Commands == 1 .. NCmds
Threads  == {"rx", "tx"}
Chans    == {"ack", "telemetry"}

\* An Ack says which command it answers and who authored it: the peer, the
\* relay (send_synthetic_ack) or main ("relay busy").
AckOf(c, author) == [chan |-> "ack", seq |-> c, by |-> author]
ReadingOf(n)     == [chan |-> "telemetry", seq |-> n, by |-> "peer"]

Acks     == {AckOf(c, a) : c \in Commands, a \in {"peer", "relay", "main"}}
Readings == {ReadingOf(n) : n \in 1 .. NReadings}
Upward   == Acks \cup Readings

\* What a channel holds before its first publish, ZBUS_MSG_INIT(0).
Zero == [chan |-> "none", seq |-> 0, by |-> "none"]

Init ==
    /\ offered = 0
    /\ cmd_q = <<>>
    /\ pc = [t \in Threads |-> IF t = "rx" THEN "recv" ELSE "wait_msg"]
    /\ msg = [t \in Threads |-> Zero]
    /\ cmd = 0
    /\ ack_received = 0
    /\ down = <<>> /\ up = <<>>
    /\ heard = 0
    /\ chan = [ch \in Chans |-> Zero]
    /\ lock = [ch \in Chans |-> "free"]
    /\ evt_fd = [ch \in Chans |-> 0]
    /\ main_pc = "boot" /\ main_chan = "ack" /\ main_msg = Zero
    /\ serving = FALSE
    /\ giver = 0
    /\ executed = {} /\ gave_up = {} /\ posted = {} /\ wire = {}

-----------------------------------------------------------------------------
(* The buffer pool.  Every zbus_chan_pub() borrows a slot for the length of *)
(* the call, and each message waiting for a message subscriber keeps one.   *)

SlotsUsed == Len(cmd_q) + (IF main_pc = "forward" THEN 1 ELSE 0)
SlotFree  == SlotsUsed < PoolSlots

-----------------------------------------------------------------------------
(* publish_up(): zbus_chan_pub() with a timeout of 50 ms.                   *)
\* Where thread t goes on once its publication is over, whatever came of it.
\* Fault: the give stands after the switch instead of in its ACK case.
After_GiveAlways(t) == IF t = "tx" THEN "wait_msg" ELSE "give"
After(t) ==
    CASE t = "tx" -> "wait_msg"
      [] t = "rx" /\ msg[t].chan = "ack" -> "give"
      [] OTHER -> "recv"

\* The channel is locked and its value overwritten.
PubWrite(t) ==
    /\ pc[t] = "lock"
    /\ lock[msg[t].chan] = "free"
    /\ lock' = [lock EXCEPT ![msg[t].chan] = t]
    /\ chan' = [chan EXCEPT ![msg[t].chan] = msg[t]]
    /\ pc' = [pc EXCEPT ![t] = "notify"]
    /\ UNCHANGED <<rxVars, txVars, mainVars, evt_fd, posted, cmd_q, msg,
                   ack_received, down, giver, executed>>

\* The lock was not to be had: nothing is written, and the failure is logged.
PubLockTimeout(t) ==
    /\ pc[t] = "lock"
    /\ lock[msg[t].chan] # "free"
    /\ pc' = [pc EXCEPT ![t] = After(t)]
    /\ UNCHANGED <<rxVars, txVars, busVars, mainVars, cmd_q, msg,
                   ack_received, down, giver, executed>>

\* A slot is free: the listener signals the eventfd, which exists once main()
\* has created it, and the lock is released.
PubNotify(t) ==
    /\ pc[t] = "notify"
    /\ SlotFree
    /\ lock' = [lock EXCEPT ![msg[t].chan] = "free"]
    /\ evt_fd' = IF main_pc = "boot" THEN evt_fd
                 ELSE [evt_fd EXCEPT ![msg[t].chan] = @ + 1]
    /\ posted' = IF msg[t].chan = "ack" THEN posted \cup {msg[t]} ELSE posted
    /\ pc' = [pc EXCEPT ![t] = After(t)]
    /\ UNCHANGED <<rxVars, txVars, mainVars, chan, cmd_q, msg, ack_received,
                   down, giver, executed>>

\* The pool stayed empty: the value is in the channel and nobody was told.
PubNoSlot(t) ==
    /\ pc[t] = "notify"
    /\ ~SlotFree
    /\ lock' = [lock EXCEPT ![msg[t].chan] = "free"]
    /\ pc' = [pc EXCEPT ![t] = After(t)]
    /\ UNCHANGED <<rxVars, txVars, mainVars, chan, evt_fd, posted, cmd_q, msg,
                   ack_received, down, giver, executed>>

PublishUp(t) ==
    PubWrite(t) \/ PubLockTimeout(t) \/ PubNotify(t) \/ PubNoSlot(t)

-----------------------------------------------------------------------------
(* tx_thread *)

\* zbus_sub_wait_msg() returns a command and the semaphore is reset.
TxTakeCommand ==
    /\ pc["tx"] = "wait_msg"
    /\ cmd_q # <<>>
    /\ cmd' = Head(cmd_q)
    /\ cmd_q' = Tail(cmd_q)
    /\ ack_received' = 0
    /\ pc' = [pc EXCEPT !["tx"] = "send"]
    /\ UNCHANGED <<rxVars, busVars, mainVars, msg, down, giver, executed,
                   gave_up>>

\* Fault: the wait for the Ack is left out after a successful send.
AfterSend_NoWait == "wait_msg"
AfterSend == "ack_wait"

\* isotp_send() succeeds.
TxSend ==
    /\ pc["tx"] = "send"
    /\ down' = Append(down, cmd)
    /\ pc' = [pc EXCEPT !["tx"] = AfterSend]
    /\ UNCHANGED <<rxVars, txVars, busVars, mainVars, cmd_q, msg,
                   ack_received, giver, executed>>

\* Fault: the answer names the command read last, not the one that failed.
SyntheticAck_Last == AckOf(offered, "relay")
SyntheticAck == AckOf(cmd, "relay")

\* Fault: tx_thread logs the failure and answers nothing.
AnswerForPeer_Silent ==
    /\ gave_up' = gave_up \cup {cmd}
    /\ pc' = [pc EXCEPT !["tx"] = "wait_msg"]
    /\ UNCHANGED msg

\* send_synthetic_ack(): tx_thread answers its command itself.
AnswerForPeer ==
    /\ msg' = [msg EXCEPT !["tx"] = SyntheticAck]
    /\ gave_up' = gave_up \cup {cmd}
    /\ pc' = [pc EXCEPT !["tx"] = "lock"]

\* isotp_send() fails: "no route to node over CAN".  Whether the peer got the
\* command all the same is not known to the sender; under Prompt it has not.
TxSendFails ==
    /\ pc["tx"] = "send"
    /\ AnswerForPeer
    /\ \/ UNCHANGED down
       \/ ~Prompt /\ down' = Append(down, cmd)
    /\ UNCHANGED <<rxVars, busVars, mainVars, cmd_q, cmd, ack_received, giver,
                   executed>>

\* k_sem_take() succeeds.
TxAcked ==
    /\ pc["tx"] = "ack_wait"
    /\ ack_received = 1
    /\ ack_received' = 0
    /\ pc' = [pc EXCEPT !["tx"] = "wait_msg"]
    /\ UNCHANGED <<rxVars, txVars, busVars, mainVars, cmd_q, msg, down, giver,
                   executed>>

\* The round trip of command c has not ended: c or its Ack is on its way.
OnItsWay(c) ==
    \/ \E i \in 1 .. Len(down) : down[i] = c
    \/ \E i \in 1 .. Len(up) : up[i] = c
    \/ /\ pc["rx"] # "recv"
       /\ msg["rx"] = AckOf(c, "peer")

\* When k_sem_take() may fail for want of an Ack.
\* Fault: the wait is K_FOREVER.
WaitEnds_Never == FALSE
WaitEnds == Prompt => ~OnItsWay(cmd)

\* kAckWaitMs passes: "no response over CAN".
TxTimeout ==
    /\ pc["tx"] = "ack_wait"
    /\ ack_received = 0
    /\ WaitEnds
    /\ AnswerForPeer
    /\ UNCHANGED <<rxVars, busVars, mainVars, cmd_q, cmd, ack_received, down,
                   giver, executed>>

Tx == TxTakeCommand \/ TxSend \/ TxSendFails \/ TxAcked \/ TxTimeout
      \/ PublishUp("tx")

-----------------------------------------------------------------------------
(* rx_thread: handle_relayed() routes on the payload's type *)

RxRecvAck ==
    /\ pc["rx"] = "recv"
    /\ up # <<>>
    /\ msg' = [msg EXCEPT !["rx"] = AckOf(Head(up), "peer")]
    /\ up' = Tail(up)
    /\ pc' = [pc EXCEPT !["rx"] = "lock"]
    /\ UNCHANGED <<txVars, busVars, mainVars, cmd_q, ack_received, down,
                   heard, giver, executed>>

\* Readings arrive in the order they were taken; some are lost on the bus.
RxRecvTelemetry ==
    /\ pc["rx"] = "recv"
    /\ \E n \in (heard + 1) .. NReadings :
          /\ heard' = n
          /\ msg' = [msg EXCEPT !["rx"] = ReadingOf(n)]
    /\ pc' = [pc EXCEPT !["rx"] = "lock"]
    /\ UNCHANGED <<txVars, busVars, mainVars, cmd_q, ack_received, down, up,
                   giver, executed>>

\* The semaphore's limit is 1: a give that finds it full changes nothing.
\* Fault: it counts every give.
Given_Counting == ack_received + 1
Given == 1

\* k_sem_give(), whether or not the publication succeeded.
RxGive ==
    /\ pc["rx"] = "give"
    /\ ack_received' = Given
    /\ giver' = IF ack_received = 0 THEN msg["rx"].seq ELSE giver
    /\ pc' = [pc EXCEPT !["rx"] = "recv"]
    /\ UNCHANGED <<rxVars, txVars, busVars, mainVars, cmd_q, msg, down,
                   executed>>

Rx == RxRecvAck \/ RxRecvTelemetry \/ RxGive \/ PublishUp("rx")

-----------------------------------------------------------------------------
(* The peer: handle_incoming() in peer-node/src/main.cpp acts on one        *)
(* command at a time and sends one Ack, whose fate it does not look at.     *)

PeerAnswers ==
    /\ down # <<>>
    /\ executed' = executed \cup {Head(down)}
    /\ down' = Tail(down)
    /\ \/ up' = Append(up, Head(down))
       \/ UNCHANGED up
    /\ UNCHANGED <<txVars, busVars, mainVars, cmd_q, pc, msg, ack_received,
                   heard, giver>>

-----------------------------------------------------------------------------
(* main() *)

MainBoot ==
    /\ main_pc = "boot"
    /\ main_pc' = "loop"
    /\ UNCHANGED <<rxVars, txVars, busVars, main_chan, main_msg, serving,
                   offered, wire, cmd_q, pc, msg, ack_received, down, giver,
                   executed>>

\* forward_to_peer(): the publication borrows its own slot first.  There always
\* is one: main() alone adds to the queue, and never without a second slot.
MainForward ==
    /\ main_pc = "loop" /\ serving
    /\ offered < NCmds
    /\ SlotFree
    /\ offered' = offered + 1
    /\ main_pc' = "forward"
    /\ UNCHANGED <<rxVars, txVars, busVars, main_chan, main_msg, serving,
                   wire, cmd_q, pc, msg, ack_received, down, giver, executed>>

\* publish_ack() with "relay busy", best effort.
AnswerBusy(c) == wire' = wire \cup {AckOf(c, "main")} \/ UNCHANGED wire

\* What main() answers when the publication succeeded.
\* Fault: the test of rc is inverted.
OnEnqueued_Busy == AnswerBusy(offered)
OnEnqueued == UNCHANGED wire

\* It takes a second one for the copy relay_cmd_sub receives.
MainEnqueue ==
    /\ main_pc = "forward"
    /\ SlotFree
    /\ cmd_q' = Append(cmd_q, offered)
    /\ main_pc' = "loop"
    /\ OnEnqueued
    /\ UNCHANGED <<rxVars, txVars, busVars, main_chan, main_msg, serving,
                   offered, pc, msg, ack_received, down, giver, executed>>

\* No second slot came free within 100 ms.
MainBusy ==
    /\ main_pc = "forward"
    /\ ~SlotFree
    /\ AnswerBusy(offered)
    /\ main_pc' = "loop"
    /\ UNCHANGED <<rxVars, txVars, busVars, main_chan, main_msg, serving,
                   offered, cmd_q, pc, msg, ack_received, down, giver,
                   executed>>

\* The eventfds in the poll set that have been signalled.
\* Fault: the Acks' eventfd is left out of the poll set.
Readable_NoAcks == {ch \in Chans \ {"ack"} : evt_fd[ch] > 0}
Readable == {ch \in Chans : evt_fd[ch] > 0}

\* publish_relayed(): reading the eventfd clears its counter ...
MainReadFd(ch) ==
    /\ main_pc = "loop" /\ serving
    /\ ch \in Readable
    /\ evt_fd' = [evt_fd EXCEPT ![ch] = 0]
    /\ main_chan' = ch
    /\ main_pc' = "read"
    /\ UNCHANGED <<rxVars, txVars, chan, lock, posted, main_msg, serving,
                   offered, wire, cmd_q, pc, msg, ack_received, down, giver,
                   executed>>

\* ... zbus_chan_read() takes whatever the channel holds by now ...
MainRead ==
    /\ main_pc = "read"
    /\ lock[main_chan] = "free"
    /\ main_msg' = chan[main_chan]
    /\ main_pc' = "publish"
    /\ UNCHANGED <<rxVars, txVars, busVars, main_chan, serving, offered, wire,
                   cmd_q, pc, msg, ack_received, down, giver, executed>>

MainReadTimeout ==
    /\ main_pc = "read"
    /\ lock[main_chan] # "free"
    /\ main_pc' = "loop"
    /\ UNCHANGED <<rxVars, txVars, busVars, main_chan, main_msg, serving,
                   offered, wire, cmd_q, pc, msg, ack_received, down, giver,
                   executed>>

\* ... and it is published to the broker, or the session is dropped.
MainPublish ==
    /\ main_pc = "publish"
    /\ wire' = wire \cup {main_msg}
    /\ main_pc' = "loop"
    /\ UNCHANGED <<rxVars, txVars, busVars, main_chan, main_msg, serving,
                   offered, cmd_q, pc, msg, ack_received, down, giver,
                   executed>>

MainPublishFails ==
    /\ main_pc = "publish"
    /\ serving' = FALSE
    /\ main_pc' = "loop"
    /\ UNCHANGED <<rxVars, txVars, busVars, main_chan, main_msg, offered,
                   wire, cmd_q, pc, msg, ack_received, down, giver, executed>>

\* The peer session's connection comes and goes for reasons of its own.
MainSession ==
    /\ main_pc = "loop"
    /\ serving' = ~serving
    /\ UNCHANGED <<rxVars, txVars, busVars, main_pc, main_chan, main_msg,
                   offered, wire, cmd_q, pc, msg, ack_received, down, giver,
                   executed>>

Main == \/ MainBoot \/ MainForward \/ MainEnqueue \/ MainBusy
        \/ \E ch \in Chans : MainReadFd(ch)
        \/ MainRead \/ MainReadTimeout \/ MainPublish \/ MainPublishFails

-----------------------------------------------------------------------------
Next == Tx \/ Rx \/ PeerAnswers \/ Main \/ MainSession

Spec == Init /\ [][Next]_vars

\* Each thread runs when it can (Zephyr schedules every ready thread, the timed
\* waits above end, and isotp_send() returns, which is assumed of it), the peer
\* serves its bus, and readings or sessions need never come.
Fairness == /\ WF_vars(Tx)
            /\ WF_vars(Rx)
            /\ WF_vars(PeerAnswers)
            /\ WF_vars(Main)

FairSpec == Spec /\ Fairness

-----------------------------------------------------------------------------
(* Safety *)

TypeOK ==
    /\ offered \in 0 .. NCmds
    /\ cmd_q \in Seq(Commands)
    /\ pc \in [Threads -> {"recv", "wait_msg", "send", "ack_wait", "lock",
                           "notify", "give"}]
    /\ msg \in [Threads -> Upward \cup {Zero}]
    /\ cmd \in 0 .. NCmds
    /\ ack_received \in {0, 1}
    /\ down \in Seq(Commands)
    /\ up \in Seq(Commands)
    /\ heard \in 0 .. NReadings
    /\ chan \in [Chans -> Upward \cup {Zero}]
    /\ lock \in [Chans -> Threads \cup {"free"}]
    /\ evt_fd \in [Chans -> Nat]
    /\ main_pc \in {"boot", "loop", "forward", "read", "publish"}
    /\ main_chan \in Chans
    /\ main_msg \in Upward \cup {Zero}
    /\ serving \in BOOLEAN
    /\ giver \in Nat
    /\ executed \subseteq Commands
    /\ gave_up \subseteq Commands
    /\ posted \subseteq Acks
    /\ wire \subseteq Upward \cup {Zero}

\* What reaches the broker is true: an Ack in the peer's name answers a command
\* the peer took up, one in the relay's name a command tx_thread gave up on,
\* "relay busy" a command that never entered the relay, and the zero message a
\* channel is initialised with is never published (main() reads a channel only
\* after its eventfd, which is what relay.h and main.cpp:180-183 rely on).
AcksAreTruthful ==
    /\ Zero \notin wire
    /\ \A m \in wire : m.chan = "ack" =>
          CASE m.by = "peer"  -> m.seq \in executed
            [] m.by = "relay" -> m.seq \in gave_up
            [] m.by = "main"  -> m.seq \notin executed \cup gave_up

\* relay.h:99-104 and relay.cpp:110-113: at most one Ack is outstanding on
\* chan_relay_ack, so that latest-wins cannot collapse two.
AckChannelHoldsOne == evt_fd["ack"] <= 1

\* relay.cpp:342-344: the wait for a command's Ack is not satisfied by the Ack
\* of an earlier command.
ReleasedByOwnAck ==
    [][pc["tx"] = "ack_wait" /\ pc'["tx"] = "wait_msg" => giver = cmd]_vars

\* relay.cpp:181-183: when the semaphore is given, the Ack tx_thread waits for
\* is on its way upward.
GivenAfterPosted ==
    [][pc["rx"] = "give" /\ pc'["rx"] = "recv" => msg["rx"] \in posted]_vars

\* relay.cpp:347-350: round trips are serialised.  Between the end of one and
\* the next send, nothing of a command is left on the bus or in rx_thread.
InHand == pc["rx"] # "recv" /\ msg["rx"].chan = "ack"

RoundTripsSerialised ==
    /\ Len(down) + Len(up) <= 1
    /\ InHand => down = <<>> /\ up = <<>>
    /\ pc["tx"] \in {"wait_msg", "send"} => down = <<>> /\ up = <<>> /\ ~InHand

\* The host never reads two verdicts on one command: the peer's and the
\* gateway's, or the relay's and main's.
OneVerdict ==
    \A a, b \in wire : a.chan = "ack" /\ b.chan = "ack" /\ a.seq = b.seq
                       => a.by = b.by

\* relay.cpp:302-308: once tx_thread is done with a command, an Ack for it has
\* been signalled to main(), the peer's own or a synthetic one.
RoundTripAnswered ==
    [][pc["tx"] # "wait_msg" /\ pc'["tx"] = "wait_msg"
       => \E a \in posted' : a.seq = cmd]_vars

\* What relay.h:86-104 promises, without the threads: a command is decided on
\* when main() has finished with it, and in hand from the send to the end of the
\* wait.
Decided  == IF main_pc = "forward" THEN offered - 1 ELSE offered
InTurn   == IF pc["tx"] \in {"send", "ack_wait"} THEN cmd ELSE 0
Verdicts == {<<m.seq, m.by>> : m \in {a \in wire : a.chan = "ack"}}

RT == INSTANCE RoundTrip WITH
          seen <- Decided, waiting <- cmd_q, current <- InTurn, told <- Verdicts

\* The relay works commands off in order, one at a time, each at most once and
\* to its end, and gives none up that the host was told is done.
KeepsRoundTrips == RT!Spec

-----------------------------------------------------------------------------
(* Liveness *)

\* Whatever the bus and the broker do, tx_thread works off every command it
\* was given: no wait of one thread on another is without an end, if isotp_send()
\* itself has one.
CommandsDrain == []<>(pc["tx"] = "wait_msg" /\ cmd_q = <<>>)

\* While the peer session stays up, whatever was signalled is fetched.
SignalsFetched ==
    <>[]serving => []<>(\A ch \in Chans : evt_fd[ch] = 0)
=============================================================================
