------------------------------ MODULE PeerLink ------------------------------
(***************************************************************************)
(* The peer's main loop (peer-node/src/main.cpp): the heartbeat it sends   *)
(* every kHeartbeatPeriodMs, the commands it receives and answers in       *)
(* between, the readings it forwards, and its idea of whether the gateway  *)
(* can be reached.                                                         *)
(*                                                                         *)
(* The loop is one thread.  It is interrupted by heartbeat_sent(), which   *)
(* the CAN driver calls when a frame has left its mailbox, and by the      *)
(* sensor thread, which publishes readings.  Only isotp_recv() and a       *)
(* failing isotp_send() take time that matters here.                       *)
(*                                                                         *)
(* Deadlines are kept as the time left until them, in ticks.               *)
(***************************************************************************)
EXTENDS Integers

CONSTANTS
    Period,      \* kHeartbeatPeriodMs
    SendTimeout, \* what a failing isotp_send() takes: ISOTP_BS_TIMEOUT
    BackoffMin, BackoffMax,  \* kTxBackoffMinMs, kTxBackoffMaxMs
    Mailboxes,   \* the controller's transmit mailboxes
    Calm         \* bound: how long a spell of the bus is measured

ASSUME PeerLinkAssumption ==
    /\ Period \in Nat \ {0}
    /\ SendTimeout \in Nat \ {0}
    /\ BackoffMin \in Nat \ {0} /\ BackoffMax \in Nat
    /\ BackoffMin <= BackoffMax
    /\ Mailboxes \in Nat \ {0}
    /\ Calm \in Nat

VARIABLES
    \* The bus and what is at its other end:
    bus,          \* frames are acknowledged; they are not; we are bus-off
    responding,   \* the gateway answers our ISO-TP transfers
    mail,         \* heartbeats in the controller's mailboxes
    \* The loop:
    pc,
    due,          \* next_beat - now
    left,         \* what is left of a failing isotp_send()
    beats_in_flight, last_beat_error,
    err,          \* send_heartbeat()'s verdict while it is being formed
    link_up, tx_backoff_ms,
    retry_in,     \* tx_retry_at - now, or 0 once that is over
    telemetry_pending,
    hb_state,     \* tells what the channel's reading says ("current"), or an
                  \* earlier one: of which main() was told ("stale"), or not
    \* History, read by properties only:
    phase,        \* the time since boot, modulo Period
    silence,      \* how long an acknowledging bus has seen no beat of ours
    calm,         \* how long the gateway has been healthy, up to Calm
    unheard,      \* how long the loop has had a reason to take the bus for dead,
                  \* up to Calm; -1 if it has none
    waiting,      \* how long the pending reading has been pending
    dropped       \* the last reading taken was not delivered

busVars  == <<bus, responding, mail>>
beatVars == <<beats_in_flight, last_beat_error, err>>
linkVars == <<link_up, tx_backoff_ms, retry_in>>
dataVars == <<telemetry_pending, hb_state, waiting>>
histVars == <<phase, silence, calm, unheard, dropped>>
vars == <<busVars, pc, due, left, beatVars, linkVars, dataVars, histVars>>

Acked   == bus = "acked"
Healthy == Acked /\ responding

Init ==
    /\ bus \in {"acked", "alone"} /\ responding \in BOOLEAN /\ mail = 0
    /\ pc = "top" /\ due = 0 /\ left = 0
    /\ beats_in_flight = 0 /\ last_beat_error = "OK" /\ err = "OK"
    /\ link_up = TRUE /\ tx_backoff_ms = 0 /\ retry_in = 0
    /\ telemetry_pending = 0 /\ hb_state = "current"
    /\ phase = 0 /\ silence = 0 /\ calm = 0 /\ unheard = -1 /\ waiting = 0
    /\ dropped = FALSE

-----------------------------------------------------------------------------
(* note_link() *)

NoteOk ==
    /\ link_up' = TRUE
    /\ tx_backoff_ms' = 0
    /\ UNCHANGED retry_in

\* Fault: the cap is forgotten.
Doubled_Uncapped(ms) == 2 * ms
Doubled(ms) == IF 2 * ms < BackoffMax THEN 2 * ms ELSE BackoffMax
NoteFailure ==
    /\ link_up' = FALSE
    /\ tx_backoff_ms' = IF tx_backoff_ms = 0 THEN BackoffMin
                        ELSE Doubled(tx_backoff_ms)
    /\ retry_in' = tx_backoff_ms'

NoteLink(ok) == (ok /\ NoteOk) \/ (~ok /\ NoteFailure)

\* Fault: the heartbeat is backed off like telemetry.
bus_transmittable_BackedOff == bus # "off" /\ (link_up \/ retry_in = 0)
bus_transmittable == bus # "off"

-----------------------------------------------------------------------------
(* send_heartbeat() *)

\* The top of the loop: a beat is due, and it is sent or skipped ...
BeatDue ==
    /\ pc = "top" /\ due <= 0
    /\ bus_transmittable
    /\ pc' = "can_send"
    /\ UNCHANGED <<busVars, due, left, beatVars, linkVars, dataVars, histVars>>

\* next_beat += kHeartbeatPeriodMs
\* Fault: the schedule is re-based on the time the beat was sent.
NextBeat_FromNow == Period
NextBeat == due + Period

BusOff ==
    /\ pc = "top" /\ due <= 0
    /\ ~bus_transmittable
    /\ NoteLink(FALSE)
    /\ due' = NextBeat
    /\ UNCHANGED <<busVars, pc, left, beatVars, dataVars, histVars>>

\* ... or none is, and the loop waits.
Wait ==
    /\ pc = "top" /\ due > 0
    /\ pc' = "recv"
    /\ UNCHANGED <<busVars, due, left, beatVars, linkVars, dataVars, histVars>>

\* can_send() with K_NO_WAIT: the frame takes a mailbox ...
CanSend ==
    /\ pc = "can_send"
    /\ bus # "off" /\ mail < Mailboxes
    /\ mail' = mail + 1
    /\ err' = "OK"
    /\ pc' = "count"
    /\ unheard' = IF bus = "alone" /\ unheard = -1 THEN 0 ELSE unheard
    /\ UNCHANGED <<bus, responding, due, left, beats_in_flight,
                   last_beat_error, linkVars, dataVars, phase, silence, calm,
                   dropped>>

\* ... or fails: -ENETUNREACH, or -EAGAIN when no mailbox is free.  Frames of
\* failed ISO-TP transfers may occupy the others as long as nobody acknowledges.
CanSendFails ==
    /\ pc = "can_send"
    /\ \/ bus = "off" /\ err' = "ENETUNREACH"
       \/ bus = "alone" /\ err' = "EAGAIN"
       \/ mail = Mailboxes /\ err' = "EAGAIN"
    /\ pc' = "count"
    /\ UNCHANGED <<busVars, due, left, beats_in_flight, last_beat_error,
                   linkVars, dataVars, histVars>>

\* Fault: a beat is counted whatever became of it.
Accepted_Always == TRUE
Accepted == err = "OK"

\* atomic_inc(), if the frame was accepted: the interrupt may have come first.
CountBeat ==
    /\ pc = "count"
    /\ beats_in_flight' = IF Accepted THEN beats_in_flight + 1 ELSE beats_in_flight
    /\ pc' = "error"
    /\ UNCHANGED <<busVars, due, left, last_beat_error, err, linkVars,
                   dataVars, histVars>>

\* The first atomic_get(): the error of the last beat that completed ...
ReadError ==
    /\ pc = "error"
    /\ err' = IF err = "OK" THEN last_beat_error ELSE err
    /\ pc' = "verdict"
    /\ UNCHANGED <<busVars, due, left, beats_in_flight, last_beat_error,
                   linkVars, dataVars, histVars>>

\* Fault: beats in flight are not looked at.
Congested_Never == FALSE
Congested == beats_in_flight > 1

\* ... and the second: -EBUSY while an earlier beat has not completed.
BeatVerdict ==
    /\ pc = "verdict"
    /\ NoteLink(err = "OK" /\ ~Congested)
    /\ due' = NextBeat
    /\ err' = "OK"
    /\ pc' = "top"
    /\ UNCHANGED <<busVars, left, beats_in_flight, last_beat_error, dataVars,
                   histVars>>

\* Fault: the callback records errors only.
Completed_KeepsError(error) == IF error = "OK" THEN last_beat_error ELSE error
Completed(error) == error

\* heartbeat_sent(), in the driver's interrupt: a frame that nobody
\* acknowledges stays in its mailbox, or is given up with an error.
HeartbeatSent(error) ==
    /\ mail > 0
    /\ Acked <=> error = "OK"
    /\ mail' = mail - 1
    /\ beats_in_flight' = beats_in_flight - 1
    /\ last_beat_error' = Completed(error)
    /\ silence' = 0
    /\ unheard' = IF pc = "verdict" /\ ~Acked THEN 0 ELSE unheard
    /\ UNCHANGED <<bus, responding, pc, due, left, err, linkVars, dataVars,
                   phase, calm, dropped>>

-----------------------------------------------------------------------------
(* The wait, and what follows it *)

\* isotp_recv() returns for want of a command.
RecvTimeout ==
    /\ pc = "recv" /\ due = 0
    /\ pc' = "take"
    /\ UNCHANGED <<busVars, due, left, beatVars, linkVars, dataVars, histVars>>

\* handle_incoming(): the Ack of a command is sent, and what becomes of it is
\* not looked at.  A payload that is not a command has no answer, nor has an
\* isotp_recv() that failed.  A command may have been queued before the bus went:
\* it is there when the wait begins, and taken up before the wait is over.
RecvCommand ==
    /\ pc = "recv"
    /\ \/ pc' = "take" /\ UNCHANGED left
       \/ /\ ~Healthy
          /\ Acked \/ due > 0
          /\ pc' = "answer" /\ left' = SendTimeout
    /\ UNCHANGED <<busVars, due, beatVars, linkVars, dataVars, histVars>>

\* A transfer ends well as soon as the gateway takes part in it, and fails when
\* its time is up, or at once on a controller that has gone off the bus.  That
\* it fails in time is an assumption about the ISO-TP library where nobody
\* acknowledges even the first frame: the controller alone would repeat the
\* frame for ever (docs/can-bringup.md:173).
TransferOk    == Healthy
TransferFails == left = 0 \/ bus = "off"

Answered ==
    /\ pc = "answer"
    /\ TransferOk \/ TransferFails
    /\ pc' = "take"
    /\ left' = 0
    /\ UNCHANGED <<busVars, due, beatVars, linkVars, dataVars, histVars>>

\* k_sem_take() with K_NO_WAIT finds nothing ...
\* Fault: the reading is looked for only when the wait was not ended by a beat.
NothingPending_OnCommand == telemetry_pending = 0 \/ due <= 0
NothingPending == telemetry_pending = 0
NoReading ==
    /\ pc = "take"
    /\ NothingPending
    /\ pc' = "top"
    /\ UNCHANGED <<busVars, due, left, beatVars, linkVars, dataVars, histVars>>

\* ... or a reading, which is read from the channel a step later: it may be a
\* newer one by then.
TakeReading ==
    /\ pc = "take"
    /\ ~NothingPending
    /\ telemetry_pending' = 0 /\ waiting' = 0
    /\ pc' = "read"
    /\ UNCHANGED <<busVars, due, left, beatVars, linkVars, hb_state,
                   histVars>>

\* Fault: tx_retry_at is not looked at.
Allowed_Always == bus_transmittable
Allowed == bus_transmittable /\ (link_up \/ retry_in = 0)

\* Fault: the state of the sensor is noted only when the reading is sent.
HbState_OnSend == IF Allowed THEN "current" ELSE hb_state
HbState == "current"

\* The heartbeat's state follows the reading, and the reading is sent: the
\* gateway takes it, ...
ReadAndSend ==
    /\ pc = "read"
    /\ hb_state' = HbState
    /\ Allowed /\ TransferOk
    /\ NoteLink(TRUE)
    /\ dropped' = FALSE
    /\ pc' = "top"
    /\ UNCHANGED <<busVars, due, left, beatVars, telemetry_pending,
                   waiting, phase, silence, calm, unheard>>

\* ... or does not answer, ...
ReadAndStall ==
    /\ pc = "read"
    /\ hb_state' = HbState
    /\ Allowed /\ ~TransferOk
    /\ left' = SendTimeout
    /\ pc' = "telemetry"
    /\ UNCHANGED <<busVars, due, beatVars, linkVars, telemetry_pending,
                   waiting, histVars>>

\* ... or it is not sent at all.
ReadAndSkip ==
    /\ pc = "read"
    /\ hb_state' = HbState
    /\ ~Allowed
    /\ dropped' = TRUE
    /\ pc' = "top"
    /\ UNCHANGED <<busVars, due, left, beatVars, linkVars, telemetry_pending,
                   waiting, phase, silence, calm, unheard>>

TelemetrySent ==
    /\ pc = "telemetry" /\ TransferOk
    /\ NoteLink(TRUE)
    /\ dropped' = FALSE
    /\ pc' = "top" /\ left' = 0
    /\ UNCHANGED <<busVars, due, beatVars, dataVars, phase, silence, calm, unheard>>

TelemetryFails ==
    /\ pc = "telemetry" /\ TransferFails
    /\ NoteLink(FALSE)
    /\ dropped' = TRUE
    /\ pc' = "top" /\ left' = 0
    /\ UNCHANGED <<busVars, due, beatVars, dataVars, phase, silence, calm, unheard>>

Loop ==
    \/ BeatDue \/ BusOff \/ Wait
    \/ CanSend \/ CanSendFails \/ CountBeat \/ ReadError \/ BeatVerdict
    \/ RecvTimeout \/ RecvCommand \/ Answered
    \/ NoReading \/ TakeReading
    \/ ReadAndSend \/ ReadAndStall \/ ReadAndSkip
    \/ TelemetrySent \/ TelemetryFails

-----------------------------------------------------------------------------
(* What happens to the loop *)

\* The sensor thread publishes, and on_telemetry() gives the semaphore, whose
\* limit is 1.
Publish ==
    /\ hb_state' = "stale"
    /\ telemetry_pending' = 1
    /\ UNCHANGED <<busVars, pc, due, left, beatVars, linkVars, waiting,
                   histVars>>

\* The sensor thread's publication needs one of the two buffers of the pool.  While
\* handle_incoming() waits for the second buffer of a command, with a command
\* queued, there is none: the reading is in the channel and nobody is told.
PublishFails ==
    /\ pc = "recv"
    /\ hb_state' = IF telemetry_pending = 1 THEN "stale" ELSE "missed"
    /\ UNCHANGED <<busVars, pc, due, left, beatVars, linkVars,
                   telemetry_pending, waiting, histVars>>

\* Somebody who acknowledges joins the bus or leaves it; a controller whose
\* errors add up goes bus-off and comes back by itself; the gateway's ISO-TP
\* comes and goes.
BusChanges ==
    /\ \/ bus' \in {"acked", "alone", "off"} \ {bus} /\ UNCHANGED responding
       \/ responding' = ~responding /\ UNCHANGED bus
    /\ bus = "acked" => bus' # "off"
    /\ calm' = 0
    /\ unheard' = IF Acked' THEN -1 ELSE unheard
    /\ silence' = IF Acked' /\ Acked THEN silence ELSE 0
    /\ UNCHANGED <<mail, pc, due, left, beatVars, linkVars, dataVars, phase,
                   dropped>>

\* The peer restarts: RAM is lost, and the controller is set up anew.
Restart ==
    /\ bus' = (IF bus = "off" THEN "alone" ELSE bus) /\ mail' = 0
    /\ pc' = "top" /\ due' = 0 /\ left' = 0
    /\ beats_in_flight' = 0 /\ last_beat_error' = "OK" /\ err' = "OK"
    /\ link_up' = TRUE /\ tx_backoff_ms' = 0 /\ retry_in' = 0
    /\ telemetry_pending' = 0 /\ hb_state' = "current"
    /\ phase' = 0 /\ silence' = 0 /\ calm' = 0 /\ unheard' = -1 /\ waiting' = 0
    /\ dropped' = FALSE
    /\ UNCHANGED responding

Down(n) == IF n > 0 THEN n - 1 ELSE 0
UpTo(bound, n) == IF n < bound THEN n + 1 ELSE bound

\* A frame that is acknowledged leaves within a tick.
Tick ==
    /\ \/ pc = "recv" /\ due > 0 /\ UNCHANGED left
       \/ pc \in {"answer", "telemetry"} /\ left > 0 /\ left' = left - 1
    /\ Acked => mail = 0
    /\ due' = due - 1
    /\ retry_in' = Down(retry_in)
    /\ phase' = (phase + 1) % Period
    /\ silence' = IF Acked THEN silence + 1 ELSE 0
    /\ calm' = IF Healthy THEN UpTo(Calm, calm) ELSE 0
    /\ unheard' = IF unheard = -1 THEN -1 ELSE UpTo(Calm, unheard)
    /\ waiting' = IF telemetry_pending = 1 THEN waiting + 1 ELSE 0
    /\ UNCHANGED <<busVars, pc, beatVars, link_up, tx_backoff_ms,
                   telemetry_pending, hb_state, dropped>>

Next ==
    \/ Loop \/ Publish \/ PublishFails \/ BusChanges \/ Restart \/ Tick
    \/ \E error \in {"OK", "EIO"} : HeartbeatSent(error)

Spec == Init /\ [][Next]_vars

\* The thread runs, time passes, acknowledged frames leave their mailboxes, and
\* the sensor thread publishes a reading every sample period.
FairSpec ==
    /\ Spec
    /\ WF_vars(Loop) /\ SF_vars(Tick) /\ WF_vars(Publish)
    /\ WF_vars(HeartbeatSent("OK"))

-----------------------------------------------------------------------------
(* Properties *)

Errors == {"OK", "EAGAIN", "ENETUNREACH", "EIO"}
Sending == {"can_send", "count", "error", "verdict"}

TypeOK ==
    /\ bus \in {"acked", "alone", "off"} /\ responding \in BOOLEAN
    /\ mail \in 0 .. Mailboxes
    /\ pc \in {"top", "recv", "answer", "take", "read", "telemetry"} \cup Sending
    /\ due \in -2 * SendTimeout .. Period
    /\ left \in 0 .. SendTimeout
    /\ beats_in_flight \in -1 .. Mailboxes
    /\ last_beat_error \in {"OK", "EIO"} /\ err \in Errors
    /\ link_up \in BOOLEAN
    /\ tx_backoff_ms \in 0 .. BackoffMax /\ retry_in \in 0 .. BackoffMax
    /\ telemetry_pending \in {0, 1}
    /\ hb_state \in {"current", "stale", "missed"}
    /\ phase \in 0 .. Period - 1 /\ silence \in Nat /\ calm \in 0 .. Calm
    /\ unheard \in -1 .. Calm
    /\ waiting \in Nat /\ dropped \in BOOLEAN

\* main.cpp:255-268: whichever of atomic_inc() and heartbeat_sent() comes first,
\* beats_in_flight is the number of beats that have not completed.
CountsInFlight ==
    mail = beats_in_flight + (IF pc = "count" /\ err = "OK" THEN 1 ELSE 0)

\* main.cpp:440-442: however long an iteration took, beats are due on the grid
\* of whole periods since boot.
CadenceKept == (phase + due) % Period = 0

\* can_link.h:188-195: the gateway takes a gap of 3.5 periods for a dead peer.  On
\* a bus that acknowledges, beats are at most this far apart, whether or not the
\* gateway answers anything else.
MaxGap == Period + 2 * SendTimeout
BeatsKeepComing == silence <= MaxGap

\* main.cpp:310-315: a bus on which nothing is acknowledged is noticed with the
\* second beat, and stays noticed.
DeadIsNoticed == unheard > MaxGap => ~link_up

NoticeTime == Period + SendTimeout

\* note_link(): a gateway that answers is taken for reachable again, although
\* each verdict belongs to the beat before.
HealthyIsNoticed == calm > NoticeTime => link_up

\* main.cpp:156-158 and 507-508 let telemetry be tried again after a while.  On a
\* dead bus that time never comes: a beat goes first, and puts it off once more.
HeartbeatDecides ==
    unheard > MaxGap /\ pc = "read" => ~Allowed

\* main.cpp:20-22: a reading waits for main() at most until the next beat, and
\* for the transfers that hold the loop up.
ReadingTakenInTime == waiting <= MaxGap

\* main.cpp:468-474: the heartbeat tells what the last reading said, whether or
\* not that reading could be transmitted.  A reading of which main() was not told
\* is the exception, until the next one.
HeartbeatTellsSensor ==
    telemetry_pending = 0 /\ pc # "read" => hb_state # "stale"

\* main.cpp:119-121: an absent gateway is a normal condition.  Once it is back
\* for good, readings get through again.
ReadingsReturn == <>[]Healthy => <>[]~dropped
=============================================================================
