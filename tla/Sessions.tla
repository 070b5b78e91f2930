------------------------------ MODULE Sessions ------------------------------
(***************************************************************************)
(* The two MQTT sessions of the gateway and the loop of main() that drives *)
(* them (gateway/src/main.cpp), against a broker that holds a will for     *)
(* each connection and a network that may break one without saying so.     *)
(*                                                                         *)
(* One pass of main() is: start what is due ("connect"), zsock_poll()      *)
(* ("poll"), then read the sockets ("input"), look after each session      *)
(* ("handle") and publish what was signalled ("publish"), each for one     *)
(* session after the other.  Time passes in zsock_poll() and in            *)
(* mqtt_connect(), which blocks.  Deadlines are kept as the ticks left at  *)
(* `now`, which main() reads before the sessions connect and again when    *)
(* zsock_poll() returns.                                                   *)
(*                                                                         *)
(* Not here: the relay's telemetry and Acks (Relay), the SUBSCRIBE and the *)
(* PINGREQ, which change no state of a session that stays up.              *)
(***************************************************************************)
EXTENDS Naturals, SequencesExt

CONSTANTS
    Sessions,        \* the sessions there are: "own", "peer"
    BackoffMin,      \* kBackoffMinMs
    BackoffMax,      \* kBackoffMaxMs
    ConnackTimeout,  \* kConnackTimeoutMs
    Flaky,           \* the sessions whose connections fail without limit
    Lossy,           \* the sessions of which something published may go unnoticed
    MaxFaults,       \* bound: failures of the other sessions
    MaxCrashes,      \* bound: power cuts of the gateway
    MaxBlock,        \* bound: ticks mqtt_connect() blocks in one pass
    MaxPipe          \* bound: how many packets the broker may be behind when a pass
                     \* goes on from zsock_poll()

\* sessions[]: main() looks at its own session first.
Order == IF Sessions = {"own", "peer"} THEN <<"own", "peer">>
         ELSE <<CHOOSE s \in Sessions : TRUE>>

ASSUME SessionsAssumption ==
    /\ Sessions # {} /\ Sessions \subseteq {"own", "peer"}
    /\ BackoffMin \in Nat \ {0}
    /\ BackoffMax \in Nat /\ BackoffMin <= BackoffMax
    /\ ConnackTimeout \in Nat
    /\ Flaky \subseteq Sessions /\ Lossy \subseteq Sessions
    /\ {MaxFaults, MaxCrashes, MaxBlock, MaxPipe} \subseteq Nat

VARIABLES
    up,         \* the gateway has power
    pc, turn,   \* the phase of main()'s pass, and the session it looks at
    lag,        \* the ticks mqtt_connect() blocked since `now` was read
    ready, fired,  \* revents: the sockets, and the eventfds of each session
    \* struct node_session
    state, connected, connect_failed, backoff,
    due,        \* retry_at - now (IDLE) or connack_due - now (CONNECTING)
    \* one TCP connection per session, and the broker
    sock,       \* "closed", "open", "broken" (nobody knows yet) or "reset"
    answer,     \* what the broker sent and main() has not read
    pipe,       \* what the broker has not processed; "cut": the end of a
                \* connection that said no DISCONNECT
    broker,     \* whether the broker has a connection of this client
    retained,   \* the retained status of each node
    \* the producers
    belief,     \* what chan_relay_status holds about the peer
    signalled,  \* eventfds: telemetry of the node, status of the peer
    produced,   \* the producer has published in this tick
    faults, crashes,
    \* history
    since,      \* ticks since a session that is not served was given up, or was
                \* tried, up to Forever; at first as if it had been given up a
                \* backoff ago
    fails,      \* attempts in a row without CONNACK, until BackoffMax is due
    farewell,   \* the broker's last connection ended with DISCONNECT
    missed      \* an announcement of a session's status failed unnoticed, and none
                \* has succeeded since

loopVars == <<pc, turn, lag, ready, fired>>
sessionVars == <<state, connected, connect_failed, backoff, due, since, fails>>
netVars == <<sock, answer, pipe>>
brokerVars == <<broker, retained, farewell>>
producerVars == <<belief, signalled, produced, missed>>
faultVars == <<up, faults, crashes>>
vars == <<loopVars, sessionVars, netVars, brokerVars, producerVars, faultVars>>

\* Longer than any deadline is ever away.
Forever == BackoffMax + ConnackTimeout + 2 * MaxBlock + 1
Ends == {"cut", "disconnect"}
Statuses == {"online", "offline"}
Packets == {"connect"} \cup Statuses \cup Ends

Least(a, b) == IF a < b THEN a ELSE b
Monus(a, b) == IF a < b THEN 0 ELSE a - b

All(value) == [s \in Sessions |-> value]

\* What a power cut leaves of the gateway, and what it starts with.
Fresh ==
    /\ pc' = "connect" /\ turn' = 1 /\ lag' = 0
    /\ ready' = {} /\ fired' = {}
    /\ state' = All("IDLE") /\ connected' = All(FALSE)
    /\ connect_failed' = All(FALSE) /\ backoff' = All(BackoffMin)
    /\ due' = All(0) /\ since' = All(BackoffMin) /\ fails' = All(0)
    /\ belief' = "none" /\ signalled' = All(FALSE) /\ produced' = {}
    /\ missed' = All(FALSE)
    /\ sock' = All("closed") /\ answer' = All("none")

Init ==
    /\ up = TRUE
    /\ pc = "connect" /\ turn = 1 /\ lag = 0
    /\ ready = {} /\ fired = {}
    /\ state = All("IDLE") /\ connected = All(FALSE)
    /\ connect_failed = All(FALSE) /\ backoff = All(BackoffMin)
    /\ due = All(0) /\ since = All(BackoffMin) /\ fails = All(0)
    /\ sock = All("closed") /\ answer = All("none") /\ pipe = All(<<>>)
    /\ broker = All("none") /\ retained = All("none")
    /\ belief = "none" /\ signalled = All(FALSE) /\ produced = {}
    /\ missed = All(FALSE)
    /\ faults = 0 /\ crashes = 0 /\ farewell = All(FALSE)

-----------------------------------------------------------------------------
(* The session of a node *)

Current == Order[turn]

\* On to the next session, or to the next phase.
Advance(next) ==
    IF turn < Len(Order) THEN turn' = turn + 1 /\ pc' = pc
    ELSE turn' = 1 /\ pc' = next

Fault(s) ==
    \/ s \in Flaky /\ UNCHANGED faults
    \/ s \notin Flaky /\ faults < MaxFaults /\ faults' = faults + 1

Send(s, packet) == pipe' = [pipe EXCEPT ![s] = Append(@, packet)]

\* Fault: a session that never connected is retried at the same pace.
BackoffAfter_Flat(s, reached) == BackoffMin
\* Fault: the doubling has no cap.
BackoffAfter_Uncapped(s, reached) == IF reached THEN BackoffMin ELSE 2 * backoff[s]
BackoffAfter(s, reached) ==
    IF reached THEN BackoffMin ELSE Least(2 * backoff[s], BackoffMax)

\* How long a session that failed k times in a row is left alone.
Doubled[k \in Nat] == IF k = 0 THEN BackoffMin ELSE 2 * Doubled[k - 1]

\* session_drop(): DISCONNECT on a served session, mqtt_abort() on one that
\* waits for its CONNACK; neither reaches the broker once the connection is gone.
Drop(s, reached) ==
    /\ backoff' = [backoff EXCEPT ![s] = BackoffAfter(s, reached)]
    /\ state' = [state EXCEPT ![s] = "IDLE"]
    /\ connected' = [connected EXCEPT ![s] = FALSE]
    /\ due' = [due EXCEPT ![s] = BackoffAfter(s, reached) + lag]
    /\ IF sock[s] # "open" THEN UNCHANGED pipe
       ELSE Send(s, IF state[s] = "SERVING" THEN "disconnect" ELSE "cut")
    /\ sock' = [sock EXCEPT ![s] = "closed"]
    /\ answer' = [answer EXCEPT ![s] = "none"]
    /\ since' = [since EXCEPT ![s] = 0]
    /\ fails' = [fails EXCEPT ![s] = IF reached THEN 0
                                     ELSE IF Doubled[@] < BackoffMax THEN @ + 1
                                     ELSE @]

\* The status a session announces: the node's own, or the relay's belief.
Status(s) == IF s = "own" THEN "online" ELSE belief

\* Fault: the peer's session says "online" whatever the relay believes.
WriteStatus_Online(s) ==
    /\ IF sock[s] = "open" THEN Send(s, "online") ELSE UNCHANGED pipe
    /\ missed' = [missed EXCEPT ![s] = FALSE]
\* publish() of a status on an open connection; on one that broke unnoticed
\* it is lost.
WriteStatus(s) ==
    /\ IF Status(s) # "none" /\ sock[s] = "open" THEN Send(s, Status(s))
       ELSE UNCHANGED pipe
    /\ missed' = [missed EXCEPT ![s] = FALSE]

\* Nothing is published, and the session goes on: the channel could not be read
\* within 50 ms, or the publish of session_serving() failed, whose result is not
\* looked at.  (A write error for which the library closes the connection is
\* NetworkBreaks.)
MissStatus(s) ==
    /\ s \in Lossy
    /\ UNCHANGED pipe
    /\ missed' = [missed EXCEPT ![s] = TRUE]

\* Attempting(s): main() is about to call session_connect() for s.
Attempting(s) ==
    up /\ pc = "connect" /\ Current = s /\ state[s] = "IDLE" /\ due[s] = 0

\* session_connect(): mqtt_connect() fails, or CONNECT is on its way.
SessionConnect ==
    /\ Attempting(Current)
    /\ connect_failed' = [connect_failed EXCEPT ![Current] = FALSE]
    /\ \/ /\ Fault(Current)
          /\ Drop(Current, FALSE)
       \/ /\ Send(Current, "connect")
          /\ sock' = [sock EXCEPT ![Current] = "open"]
          /\ state' = [state EXCEPT ![Current] = "CONNECTING"]
          /\ connected' = [connected EXCEPT ![Current] = FALSE]
          /\ due' = [due EXCEPT ![Current] = ConnackTimeout + lag]
          /\ since' = [since EXCEPT ![Current] = 0]
          /\ UNCHANGED <<answer, backoff, fails, faults>>
    /\ Advance("poll")
    /\ UNCHANGED <<up, crashes, lag, ready, fired, brokerVars,
                   producerVars>>

NotDueYet ==
    /\ up /\ pc = "connect" /\ ~Attempting(Current)
    /\ Advance("poll")
    /\ UNCHANGED <<lag, ready, fired, sessionVars, netVars,
                   brokerVars, producerVars, faultVars>>

-----------------------------------------------------------------------------
(* zsock_poll() *)

\* next_deadline_ms(now)
\* Fault: a session that waits for its retry has no deadline.
Deadlines_NoIdle == {due[s] : s \in {t \in Sessions : state[t] = "CONNECTING"}}
Deadlines == {due[s] : s \in {t \in Sessions : state[t] # "SERVING"}}

\* What is left of the timeout.
PollLeft == IF Deadlines = {} THEN Forever ELSE Min(Deadlines)

BrokerKeepsUp == \A s \in Sessions : Len(pipe[s]) <= MaxPipe

\* An IDLE session holds no socket; a reset one, and one with an answer to
\* read, are readable.
Readable == {s \in Sessions : /\ state[s] # "IDLE"
                              /\ sock[s] = "reset" \/ answer[s] # "none"}

\* An eventfd is in the poll set only while its session is served.
Watched == {s \in Sessions : state[s] = "SERVING" /\ signalled[s]}

PollReturns ==
    /\ up /\ pc = "poll" /\ BrokerKeepsUp
    /\ PollLeft = 0 \/ Readable # {} \/ Watched # {}
    /\ ready' = Readable /\ fired' = Watched
    /\ pc' = "input" /\ lag' = 0
    /\ due' = [s \in Sessions |-> Monus(due[s], lag)]
    /\ UNCHANGED <<turn, state, connected, connect_failed, backoff, since,
                   fails, netVars, brokerVars, producerVars, faultVars>>

\* Time passes while main() is blocked in zsock_poll() or mqtt_connect().
Tick ==
    /\ up /\ BrokerKeepsUp
    /\ \/ /\ pc = "poll" /\ PollLeft > 0
          /\ Readable = {} /\ Watched = {}
          /\ due' = [s \in Sessions |-> Monus(due[s], 1)]
          /\ UNCHANGED lag
       \/ /\ Attempting(Current) /\ lag < MaxBlock
          /\ lag' = lag + 1
          /\ UNCHANGED due
    /\ since' = [s \in Sessions |-> IF state[s] = "SERVING" THEN since[s]
                                     ELSE Least(since[s] + 1, Forever)]
    /\ produced' = {}
    /\ UNCHANGED <<pc, turn, ready, fired, state, connected, connect_failed,
                   backoff, fails, netVars, brokerVars, belief, signalled,
                   missed, faultVars>>

-----------------------------------------------------------------------------
(* The rest of the pass *)

\* mqtt_input() and mqtt_evt_handler(), for a socket that was readable.
Input ==
    /\ up /\ pc = "input"
    /\ IF Current \notin ready
       THEN UNCHANGED <<sessionVars, netVars>>
       ELSE \/ /\ sock[Current] = "reset"
               /\ Drop(Current, state[Current] = "SERVING")
               /\ UNCHANGED connect_failed
            \/ /\ sock[Current] # "reset"
               /\ connected' = [connected EXCEPT
                     ![Current] = @ \/ answer[Current] = "connack"]
               /\ connect_failed' = [connect_failed EXCEPT
                     ![Current] = @ \/ answer[Current] = "refused"]
               /\ answer' = [answer EXCEPT ![Current] = "none"]
               /\ UNCHANGED <<state, backoff, due, since, fails, sock, pipe>>
    /\ ready' = ready \ {Current}
    /\ Advance("handle")
    /\ UNCHANGED <<lag, fired, brokerVars, producerVars, faultVars>>

\* session_serving(): announced or not, the session is served.  A write on a
\* connection that was reset disconnects.
SessionServing(s) ==
    /\ state' = [state EXCEPT ![s] = "SERVING"]
    /\ backoff' = [backoff EXCEPT ![s] = BackoffMin]
    /\ due' = [due EXCEPT ![s] = 0]
    /\ connected' = [connected EXCEPT ![s] = sock[s] # "reset"]
    /\ fails' = [fails EXCEPT ![s] = 0]
    /\ since' = [since EXCEPT ![s] = 0]
    /\ WriteStatus(s) \/ MissStatus(s)
    /\ UNCHANGED <<sock, answer>>

\* Fault: a session is served unless its CONNECT was refused.
Accepted_NotRefused(s) == ~connect_failed[s]
Accepted(s) == connected[s]

Handle ==
    /\ up /\ pc = "handle"
    /\ \/ /\ state[Current] = "CONNECTING" /\ Accepted(Current)
          /\ SessionServing(Current)
       \/ /\ state[Current] = "CONNECTING" /\ ~Accepted(Current)
          /\ connect_failed[Current] \/ due[Current] = 0
          /\ Drop(Current, FALSE) /\ UNCHANGED missed
       \/ /\ state[Current] = "SERVING"
          /\ ~connected[Current] \/ sock[Current] = "reset"
          /\ Drop(Current, TRUE) /\ UNCHANGED missed
       \/ /\ \/ state[Current] = "IDLE"
             \/ /\ state[Current] = "CONNECTING" /\ ~Accepted(Current)
                /\ ~connect_failed[Current] /\ due[Current] > 0
             \/ state[Current] = "SERVING" /\ connected[Current]
          /\ UNCHANGED <<state, connected, backoff, due, since, fails, netVars,
                         missed>>
    /\ Advance("publish")
    /\ UNCHANGED <<lag, ready, fired, connect_failed, brokerVars, belief,
                   signalled, produced, faultVars>>

\* publish_pending_telemetry() of the node, publish_relayed_status() of the
\* peer.  The eventfd is cleared before the channel is read, which may fail, and
\* before the publish, which drops the session when it does.
Publish ==
    /\ up /\ pc = "publish"
    /\ IF Current \notin fired \/ state[Current] # "SERVING"
       THEN UNCHANGED <<signalled, missed, state, connected, backoff, due, since,
                        fails, netVars, faults>>
       ELSE /\ signalled' = [signalled EXCEPT ![Current] = FALSE]
            /\ \/ /\ \/ /\ Current = "peer"
                        /\ \/ sock[Current] # "reset" /\ WriteStatus(Current)
                           \/ MissStatus(Current)
                     \/ /\ Current = "own"
                        /\ UNCHANGED <<pipe, missed>>
                  /\ UNCHANGED <<state, connected, backoff, due, since, fails,
                                 sock, answer, faults>>
               \/ /\ IF sock[Current] = "reset" THEN UNCHANGED faults
                     ELSE Fault(Current)
                  /\ Drop(Current, TRUE)
                  /\ UNCHANGED missed
    /\ fired' = fired \ {Current}
    /\ Advance("connect")
    /\ UNCHANGED <<lag, ready, connect_failed, brokerVars,
                   belief, produced, up, crashes>>

Main == \/ SessionConnect \/ NotDueYet \/ PollReturns
        \/ Input \/ Handle \/ Publish

-----------------------------------------------------------------------------
(* The producers, the broker, the network and the power *)

\* The sensor has a reading, or the relay changed its mind about the peer
\* (publish_status()).  The channel is written first; then main() is signalled,
\* unless the pool has no slot for it, and then nobody is told.
Produce(s) ==
    /\ up /\ s \notin produced
    /\ produced' = produced \cup {s}
    /\ IF s = "own" THEN UNCHANGED belief
       ELSE \E b \in Statuses \ {belief} : belief' = b
    /\ \/ /\ signalled' = [signalled EXCEPT ![s] = TRUE]
          /\ UNCHANGED missed
       \/ /\ s \in Lossy
          /\ IF s = "own" THEN UNCHANGED missed
             ELSE missed' = [missed EXCEPT ![s] = TRUE]
          /\ UNCHANGED signalled
    /\ UNCHANGED <<loopVars, sessionVars, netVars, brokerVars, faultVars>>

\* client_setup(): the topic of a session's will.
\* Fault: one will structure for all sessions.
WillTopic_Shared(s) == "own"
WillTopic(s) == s

\* The broker answers the connection it came from, if that is still there.
Answer(s, a) ==
    answer' = [answer EXCEPT ![s] =
                 IF sock[s] = "open" /\ state[s] = "CONNECTING"
                    /\ \A i \in 2 .. Len(pipe[s]) : pipe[s][i] \notin Ends
                 THEN a ELSE @]

BrokerTakes(s) ==
    /\ pipe[s] # <<>>
    /\ pipe' = [pipe EXCEPT ![s] = Tail(@)]
    /\ \/ /\ Head(pipe[s]) = "connect"
          /\ broker' = [broker EXCEPT ![s] = "up"]
          /\ Answer(s, "connack")
          /\ UNCHANGED <<retained, farewell, faults>>
       \/ /\ Head(pipe[s]) = "connect" /\ Fault(s)
          /\ Answer(s, "refused")
          /\ UNCHANGED brokerVars
       \/ /\ Head(pipe[s]) \in Statuses
          /\ retained' = [retained EXCEPT ![s] = Head(pipe[s])]
          /\ UNCHANGED <<broker, farewell, answer, faults>>
       \/ /\ Head(pipe[s]) = "disconnect"
          /\ broker' = [broker EXCEPT ![s] = "none"]
          /\ farewell' = [farewell EXCEPT ![s] = TRUE]
          /\ UNCHANGED <<retained, answer, faults>>
       \/ /\ Head(pipe[s]) = "cut" /\ broker[s] = "up"
          /\ retained' = [retained EXCEPT ![WillTopic(s)] = "offline"]
          /\ broker' = [broker EXCEPT ![s] = "none"]
          /\ farewell' = [farewell EXCEPT ![s] = FALSE]
          /\ UNCHANGED <<answer, faults>>
       \/ /\ Head(pipe[s]) = "cut" /\ broker[s] = "none"
          /\ UNCHANGED <<answer, faults, brokerVars>>
    /\ UNCHANGED <<loopVars, sessionVars, sock, producerVars, up, crashes>>

\* What the broker may still get of a connection that ends without a word:
\* any part of what it has not taken, then the end.
CutShort(packets) ==
    {Append(SubSeq(packets, 1, k), "cut") :
        k \in {n \in 0 .. Len(packets) :
                 \A i \in n + 1 .. Len(packets) : packets[i] \notin Ends}}

NetworkBreaks(s) ==
    /\ sock[s] = "open"
    /\ Fault(s)
    /\ sock' = [sock EXCEPT ![s] = "broken"]
    /\ \E packets \in CutShort(pipe[s]) : pipe' = [pipe EXCEPT ![s] = packets]
    /\ UNCHANGED <<answer, loopVars, sessionVars, brokerVars, producerVars, up,
                   crashes>>

TcpGivesUp(s) ==
    /\ sock[s] = "broken"
    /\ sock' = [sock EXCEPT ![s] = "reset"]
    /\ UNCHANGED <<answer, pipe, loopVars, sessionVars, brokerVars,
                   producerVars, faultVars>>

Crash ==
    /\ up /\ crashes < MaxCrashes
    /\ up' = FALSE /\ crashes' = crashes + 1
    /\ Fresh
    /\ \E rest \in [Sessions -> UNION {CutShort(pipe[s]) : s \in Sessions}
                                  \cup {pipe[s] : s \in Sessions}] :
         /\ \A s \in Sessions : IF sock[s] = "open" THEN rest[s] \in CutShort(pipe[s])
                                ELSE rest[s] = pipe[s]
         /\ pipe' = rest
    /\ UNCHANGED <<faults, brokerVars>>

Restart ==
    /\ ~up /\ BrokerKeepsUp
    /\ up' = TRUE
    /\ UNCHANGED <<faults, crashes, loopVars, sessionVars, netVars, brokerVars,
                   producerVars>>

Next ==
    \/ Main \/ Tick \/ Crash \/ Restart
    \/ \E s \in Sessions : \/ Produce(s) \/ BrokerTakes(s)
                           \/ NetworkBreaks(s) \/ TcpGivesUp(s)

\* main() is never kept from running, the clock from ticking, the broker from
\* taking what arrived; TCP gives up a connection; power comes back.
Fairness ==
    /\ WF_vars(Main) /\ WF_vars(Tick) /\ WF_vars(Restart)
    /\ \A s \in Sessions : WF_vars(BrokerTakes(s)) /\ WF_vars(TcpGivesUp(s))

Spec == Init /\ [][Next]_vars
FairSpec == Spec /\ Fairness

-----------------------------------------------------------------------------
(* Properties *)

\* Types, and: a session in SESSION_IDLE holds no socket and is not connected
\* (main.cpp:83-84), and every deadline is within its bound.
TypeOK ==
    /\ up \in BOOLEAN
    /\ pc \in {"connect", "poll", "input", "handle", "publish"}
    /\ turn \in 1 .. Len(Order) /\ lag \in 0 .. MaxBlock
    /\ ready \subseteq Sessions /\ fired \subseteq Sessions
    /\ state \in [Sessions -> {"IDLE", "CONNECTING", "SERVING"}]
    /\ connected \in [Sessions -> BOOLEAN]
    /\ connect_failed \in [Sessions -> BOOLEAN]
    /\ backoff \in [Sessions -> BackoffMin .. BackoffMax]
    /\ due \in [Sessions -> Nat]
    /\ sock \in [Sessions -> {"closed", "open", "broken", "reset"}]
    /\ answer \in [Sessions -> {"none", "connack", "refused"}]
    /\ pipe \in [Sessions -> Seq(Packets)]
    /\ broker \in [Sessions -> {"none", "up"}]
    /\ retained \in [Sessions -> {"none"} \cup Statuses]
    /\ belief \in {"none"} \cup Statuses
    /\ signalled \in [Sessions -> BOOLEAN]
    /\ farewell \in [Sessions -> BOOLEAN]
    /\ missed \in [Sessions -> BOOLEAN]
    /\ \A s \in Sessions :
         /\ state[s] = "IDLE" <=> sock[s] = "closed"
         /\ state[s] = "IDLE" => ~connected[s] /\ answer[s] = "none"
         /\ Monus(due[s], lag) <= IF state[s] = "IDLE" THEN backoff[s] ELSE ConnackTimeout

\* A status reaches the broker only on a connection it has accepted: nothing
\* is published before the CONNACK or after the session was dropped
\* (main.cpp:88, 917-919).
PublishedWhileServing ==
    \A s \in Sessions : \A i \in 1 .. Len(pipe[s]) :
        pipe[s][i] \in Statuses =>
            /\ broker[s] = "up"
            /\ \A j \in 1 .. i : pipe[s][j] \in Statuses

\* Once the broker has taken everything, the retained status of a session that
\* is served is the one it stands for: "online" for the gateway, what the
\* relay believes for the peer, whatever wills and reconnections came before,
\* unless the last attempt to announce it failed unnoticed (relay.cpp:151-154,
\* main.cpp:631-634, 701-706).
StatusIsCurrent ==
    \A s \in Sessions :
        /\ state[s] = "SERVING" /\ sock[s] = "open" /\ pipe[s] = <<>>
        /\ Status(s) # "none" /\ (s = "peer" => ~signalled[s]) /\ ~missed[s]
        => broker[s] = "up" /\ retained[s] = Status(s)

\* A node the broker has no connection for is not retained as "online", also
\* when it is the gateway that died under both; unless the session said
\* DISCONNECT (main.cpp:648-650, mqtt-design.md:65).
DeadIsAnnounced ==
    \A s \in Sessions : broker[s] = "none" /\ ~farewell[s] => retained[s] # "online"

\* After k attempts in a row that brought no CONNACK a session is left alone
\* for kBackoffMinMs * 2^k, up to kBackoffMaxMs; one that was served and then
\* dropped, for kBackoffMinMs.
RetriesAreSpaced ==
    \A s \in Sessions :
        Attempting(s) => since[s] >= Least(Doubled[fails[s]], BackoffMax)

\* A session that was given up is tried again after its backoff, and one that
\* was tried is given up after kConnackTimeoutMs, but for what mqtt_connect()
\* blocks: one that is down holds up the other for so long and no longer
\* (main.cpp:800-802).
RetriesAreTimely ==
    up => \A s \in Sessions :
            /\ state[s] = "IDLE" => since[s] <= backoff[s] + 2 * MaxBlock
            /\ state[s] = "CONNECTING" => since[s] <= ConnackTimeout + MaxBlock

\* The node's own session comes back for good once its faults are over, also
\* when the peer's keeps failing: a session that is down does not stop the
\* other (main.cpp:800-802).
OwnSessionReturns == "own" \in Sessions \ Flaky => <>[](state["own"] = "SERVING")

\* zsock_poll() waits for "the nearest deadline across every session"
\* (main.cpp:712), never beyond it.
PollEndsAtDeadline ==
    up /\ pc = "poll" =>
        \A s \in Sessions : state[s] # "SERVING" => PollLeft <= Monus(due[s], lag)
=============================================================================
