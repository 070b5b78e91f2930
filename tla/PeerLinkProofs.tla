--------------------------- MODULE PeerLinkProofs ---------------------------
(***************************************************************************)
(* What the peer's loop guarantees, for every period, transfer timeout,    *)
(* backoff range and number of mailboxes.                                  *)
(***************************************************************************)
EXTENDS PeerLink, TLAPS

-----------------------------------------------------------------------------
(* Types, counts and the time an iteration takes *)

\* note_link() starts the backoff at kTxBackoffMinMs.
BackoffInv == tx_backoff_ms # 0 => tx_backoff_ms >= BackoffMin

\* How late the next beat may be: at most two failing transfers, the Ack of a
\* command and a reading, come between two looks at the clock.
DueInv ==
    /\ pc = "recv" => due >= 0
    /\ pc \in Sending => due <= 0
    /\ pc = "answer" => due >= left - SendTimeout
    /\ pc \in {"take", "read"} => due >= -SendTimeout
    /\ pc = "telemetry" => due >= left - 2 * SendTimeout

TypeInv == TypeOK /\ CountsInFlight /\ BackoffInv /\ DueInv

LEMMA Constants ==
    /\ Period \in Nat /\ Period > 0 /\ SendTimeout \in Nat /\ SendTimeout > 0
    /\ BackoffMin \in Nat /\ BackoffMin > 0
    /\ BackoffMax \in Nat /\ BackoffMin <= BackoffMax
    /\ Mailboxes \in Nat /\ Mailboxes > 0 /\ Calm \in Nat
BY PeerLinkAssumption DEF PeerLinkAssumption

\* What is left of a period, of any length.
LEMMA Remainder ==
    ASSUME NEW n \in Int, NEW d \in Nat, d > 0
    PROVE  /\ n % d \in 0 .. d - 1
           /\ \E q \in Int : n = d * q + (n % d)
<1>1. n % d \in 0 .. d - 1
  OBVIOUS
<1>2. n \div d \in Int /\ n = d * (n \div d) + (n % d)
  OBVIOUS
<1>3. QED
  BY <1>1, <1>2

LEMMA SameRemainder ==
    ASSUME NEW n \in Int, NEW d \in Nat, d > 0, NEW q \in Int, NEW r \in 0 .. d - 1,
           n = d * q + r
    PROVE  n % d = r
<1>1. PICK p \in Int : n = d * p + (n % d)
  BY Remainder
<1>2. n % d \in 0 .. d - 1
  BY Remainder
<1>3. d * (q - p) = (n % d) - r
  <2>1. d * (q - p) = d * q - d * p
    OBVIOUS
  <2>2. d * q \in Int /\ d * p \in Int
    OBVIOUS
  <2>3. QED
    BY <1>1, <1>2, <2>1, <2>2
<1>4. q - p < 1
  <2> SUFFICES ASSUME q - p >= 1 PROVE FALSE
    OBVIOUS
  <2>1. d * (q - p) >= d
    OBVIOUS
  <2>2. QED
    BY <2>1, <1>2, <1>3
<1>5. q - p > -1
  <2> SUFFICES ASSUME q - p <= -1 PROVE FALSE
    OBVIOUS
  <2>1. d * (q - p) <= -d
    OBVIOUS
  <2>2. QED
    BY <2>1, <1>2, <1>3
<1>6. q = p
  BY <1>4, <1>5
<1>7. QED
  BY <1>1, <1>2, <1>6

\* The two steps of the grid: a beat moves the schedule on, a tick both clocks.
LEMMA NextOnGrid ==
    ASSUME NEW n \in Int, NEW d \in Nat, d > 0, n % d = 0
    PROVE  (n + d) % d = 0 /\ (n - d) % d = 0
<1>1. PICK q \in Int : n = d * q + (n % d)
  BY Remainder
<1>2. n + d = d * (q + 1) + 0 /\ n - d = d * (q - 1) + 0
  <2>1. d * (q + 1) = d * q + d /\ d * (q - 1) = d * q - d /\ d * q \in Int
    OBVIOUS
  <2>2. QED
    BY <1>1, <2>1
<1>3. 0 \in 0 .. d - 1 /\ q + 1 \in Int /\ q - 1 \in Int /\ n + d \in Int /\ n - d \in Int
  OBVIOUS
<1>4. QED
  BY <1>2, <1>3, SameRemainder

LEMMA PhaseMoves ==
    ASSUME NEW d \in Nat, d > 0, NEW p \in 0 .. d - 1
    PROVE  \/ p + 1 < d /\ (p + 1) % d = p + 1
           \/ p + 1 = d /\ (p + 1) % d = 0
<1>1. CASE p + 1 < d
  <2>1. p + 1 = d * 0 + (p + 1) /\ p + 1 \in 0 .. d - 1
    BY <1>1
  <2>2. QED
    BY <1>1, <2>1, SameRemainder
<1>2. CASE p + 1 = d
  <2>1. p + 1 = d * 1 + 0 /\ 0 \in 0 .. d - 1
    BY <1>2
  <2>2. QED
    BY <1>2, <2>1, SameRemainder
<1>3. QED
  BY <1>1, <1>2

-----------------------------------------------------------------------------
(* Types *)

\* note_link() stays within the backoff's bounds.
LEMMA Noted ==
    ASSUME TypeInv, NEW ok \in BOOLEAN, NoteLink(ok)
    PROVE  /\ link_up' = ok
           /\ tx_backoff_ms' \in 0 .. BackoffMax /\ BackoffInv'
           /\ retry_in' \in 0 .. BackoffMax
           /\ ~ok => retry_in' >= BackoffMin
           /\ ok => retry_in' = retry_in
<1>1. /\ tx_backoff_ms \in 0 .. BackoffMax /\ retry_in \in 0 .. BackoffMax
      /\ BackoffInv
  BY DEF TypeInv, TypeOK
<1>2. CASE ok
  BY <1>1, <1>2, Constants DEF NoteLink, NoteOk, BackoffInv
<1>3. CASE ~ok
  <2>1. /\ link_up' = FALSE /\ retry_in' = tx_backoff_ms'
        /\ tx_backoff_ms' = IF tx_backoff_ms = 0 THEN BackoffMin
                            ELSE Doubled(tx_backoff_ms)
    BY <1>3 DEF NoteLink, NoteFailure
  <2>2. tx_backoff_ms' \in BackoffMin .. BackoffMax
    BY <1>1, <2>1, Constants DEF Doubled, BackoffInv
  <2>3. BackoffInv' /\ tx_backoff_ms' \in 0 .. BackoffMax
        /\ retry_in' \in 0 .. BackoffMax /\ retry_in' >= BackoffMin
    BY <2>1, <2>2, Constants DEF BackoffInv
  <2>4. link_up' = ok
    BY <1>3, <2>1
  <2>5. QED
    BY <1>3, <2>3, <2>4
<1>4. QED
  BY <1>2, <1>3

LEMMA Capped ==
    ASSUME NEW b \in Nat, NEW n \in Nat, n <= b
    PROVE  UpTo(b, n) \in 0 .. b /\ UpTo(b, n) <= n + 1
BY DEF UpTo

LEMMA Lowered ==
    ASSUME NEW n \in Nat
    PROVE  Down(n) \in Nat /\ Down(n) <= n /\ Down(n) >= n - 1
BY DEF Down

LEMMA TypeStart ==
    ASSUME Init
    PROVE  TypeInv
<1>1. TypeOK
  <2>1. /\ 0 \in -2 * SendTimeout .. Period /\ 0 \in 0 .. SendTimeout
        /\ 0 \in -1 .. Mailboxes /\ 0 \in 0 .. Mailboxes /\ 0 \in 0 .. BackoffMax
        /\ 0 \in 0 .. Period - 1 /\ 0 \in 0 .. Calm /\ -1 \in -1 .. Calm
    BY Constants
  <2>2. QED
    BY <2>1 DEF Init, TypeOK, Errors, Sending
<1>2. CountsInFlight /\ BackoffInv /\ DueInv
  BY Constants DEF Init, CountsInFlight, BackoffInv, DueInv, Sending
<1>3. QED
  BY <1>1, <1>2 DEF TypeInv

LEMMA TypeStep ==
    ASSUME TypeInv, [Next]_vars
    PROVE  TypeInv'
<1> USE Constants DEF TypeInv, TypeOK, CountsInFlight, DueInv, Sending, Errors,
                      busVars, beatVars, linkVars, dataVars, histVars
<1>1. CASE BeatDue \/ Wait \/ RecvTimeout \/ NoReading
  BY <1>1 DEF BeatDue, Wait, RecvTimeout, NoReading, BackoffInv
<1>2. CASE CanSend \/ CanSendFails
  BY <1>2 DEF CanSend, CanSendFails, BackoffInv
<1>3. CASE CountBeat \/ ReadError
  BY <1>3 DEF CountBeat, Accepted, ReadError, BackoffInv
<1>4. CASE BusOff \/ BeatVerdict
  <2>1. PICK ok \in BOOLEAN : NoteLink(ok)
    BY <1>4 DEF BusOff, BeatVerdict
  <2>2. /\ link_up' \in BOOLEAN
        /\ tx_backoff_ms' \in 0 .. BackoffMax /\ BackoffInv'
        /\ retry_in' \in 0 .. BackoffMax
    BY <2>1, Noted
  <2>3. CASE BusOff
    <3>1. TypeOK'
      BY <2>2, <2>3 DEF BusOff, NextBeat
    <3>2. CountsInFlight' /\ DueInv'
      BY <2>3 DEF BusOff, NextBeat
    <3>3. QED
      BY <2>2, <3>1, <3>2
  <2>4. CASE BeatVerdict
    <3>1. TypeOK'
      BY <2>2, <2>4 DEF BeatVerdict, NextBeat
    <3>2. CountsInFlight' /\ DueInv'
      BY <2>4 DEF BeatVerdict, NextBeat
    <3>3. QED
      BY <2>2, <3>1, <3>2
  <2>5. QED
    BY <1>4, <2>3, <2>4
<1>5. CASE RecvCommand \/ Answered \/ TakeReading \/ ReadAndStall \/ ReadAndSkip
  <2>1. CASE RecvCommand \/ Answered
    BY <2>1 DEF RecvCommand, Answered, BackoffInv
  <2>2. CASE TakeReading
    BY <2>2 DEF TakeReading, BackoffInv
  <2>3. CASE ReadAndStall
    BY <2>3 DEF ReadAndStall, HbState, BackoffInv
  <2>4. CASE ReadAndSkip
    BY <2>4 DEF ReadAndSkip, HbState, BackoffInv
  <2>5. QED
    BY <1>5, <2>1, <2>2, <2>3, <2>4
<1>6. CASE ReadAndSend \/ TelemetrySent \/ TelemetryFails
  <2>1. PICK ok \in BOOLEAN : NoteLink(ok)
    BY <1>6 DEF ReadAndSend, TelemetrySent, TelemetryFails
  <2>2. /\ link_up' \in BOOLEAN
        /\ tx_backoff_ms' \in 0 .. BackoffMax /\ BackoffInv'
        /\ retry_in' \in 0 .. BackoffMax
    BY <2>1, Noted
  <2>3. CASE ReadAndSend
    BY <2>2, <2>3 DEF ReadAndSend, HbState
  <2>4. CASE TelemetrySent
    <3>1. pc' = "top" /\ left' = 0 /\ left' \in 0 .. SendTimeout
      BY <2>4 DEF TelemetrySent
    <3>2. TypeOK'
      BY <2>2, <2>4, <3>1 DEF TelemetrySent
    <3>3. QED
      BY <2>2, <2>4, <3>2 DEF TelemetrySent
  <2>5. CASE TelemetryFails
    <3>1. pc' = "top" /\ left' = 0 /\ left' \in 0 .. SendTimeout
      BY <2>5 DEF TelemetryFails
    <3>2. TypeOK'
      BY <2>2, <2>5, <3>1 DEF TelemetryFails
    <3>3. QED
      BY <2>2, <2>5, <3>2 DEF TelemetryFails
  <2>6. QED
    BY <1>6, <2>3, <2>4, <2>5
<1>7. CASE Publish \/ PublishFails
  BY <1>7 DEF Publish, PublishFails, BackoffInv
<1>8. ASSUME NEW error \in {"OK", "EIO"}, HeartbeatSent(error)
      PROVE  TypeInv'
  BY <1>8 DEF HeartbeatSent, Completed, BackoffInv
<1>9. CASE BusChanges
  <2>1. bus' \in {"acked", "alone", "off"} /\ responding' \in BOOLEAN
    BY <1>9 DEF BusChanges
  <2>2. silence' \in Nat /\ calm' \in 0 .. Calm /\ unheard' \in -1 .. Calm
    BY <1>9 DEF BusChanges
  <2>3. QED
    BY <1>9, <2>1, <2>2 DEF BusChanges, BackoffInv
<1>10. CASE Tick
  <2>1. phase' \in 0 .. Period - 1
    BY <1>10, Remainder DEF Tick
  <2>2. calm' \in 0 .. Calm /\ unheard' \in -1 .. Calm
    <3>1. UpTo(Calm, calm) \in 0 .. Calm
      BY DEF UpTo
    <3>2. unheard # -1 => UpTo(Calm, unheard) \in 0 .. Calm
      BY DEF UpTo
    <3>3. calm' = UpTo(Calm, calm) \/ calm' = 0
      BY <1>10 DEF Tick
    <3>4. \/ unheard = -1 /\ unheard' = -1
          \/ unheard # -1 /\ unheard' = UpTo(Calm, unheard)
      BY <1>10 DEF Tick
    <3>5. QED
      BY <3>1, <3>2, <3>3, <3>4
  <2>3. retry_in' \in 0 .. BackoffMax
    BY <1>10, Lowered DEF Tick
  <2>4. /\ silence' \in Nat /\ waiting' \in Nat
        /\ due' \in -2 * SendTimeout .. Period /\ left' \in 0 .. SendTimeout
    BY <1>10 DEF Tick
  <2>5. TypeOK'
    BY <1>10, <2>1, <2>2, <2>3, <2>4 DEF Tick
  <2>6. CountsInFlight' /\ BackoffInv'
    BY <1>10 DEF Tick, BackoffInv
  <2>7. DueInv'
    <3>1. due' = due - 1 /\ pc' = pc
      BY <1>10 DEF Tick
    <3>2. CASE pc = "recv" /\ due > 0
      BY <3>1, <3>2
    <3>3. CASE pc \in {"answer", "telemetry"} /\ left' = left - 1
      BY <3>1, <3>3
    <3>4. QED
      BY <1>10, <3>2, <3>3 DEF Tick
  <2>8. QED
    BY <2>5, <2>6, <2>7
<1>11. CASE UNCHANGED vars
  BY <1>11 DEF vars, BackoffInv
<1>12. CASE Restart
  <2>1. bus' \in {"acked", "alone", "off"} /\ responding' \in BOOLEAN
    BY <1>12 DEF Restart
  <2>2. /\ 0 \in -2 * SendTimeout .. Period /\ 0 \in 0 .. SendTimeout
        /\ 0 \in -1 .. Mailboxes /\ 0 \in 0 .. Mailboxes /\ 0 \in 0 .. BackoffMax
        /\ 0 \in 0 .. Period - 1 /\ 0 \in 0 .. Calm /\ -1 \in -1 .. Calm
    OBVIOUS
  <2>3. TypeOK'
    BY <1>12, <2>1, <2>2 DEF Restart
  <2>4. CountsInFlight' /\ BackoffInv' /\ DueInv'
    BY <1>12 DEF Restart, BackoffInv
  <2>5. QED
    BY <2>3, <2>4
<1>13. QED
  BY <1>1, <1>2, <1>3, <1>4, <1>5, <1>6, <1>7, <1>8, <1>9, <1>10, <1>11, <1>12
     DEF Next, Loop

LEMMA TypeAlways == Spec => []TypeInv
<1>1. Init => TypeInv
  BY TypeStart
<1>2. TypeInv /\ [Next]_vars => TypeInv'
  BY TypeStep
<1>3. QED
  BY <1>1, <1>2, PTL DEF Spec

\* Types of the peer's loop, whatever the bus does.
THEOREM TypeCorrect == Spec => []TypeOK
BY TypeAlways, PTL DEF TypeInv

\* main.cpp:255-268: beats_in_flight is the number of beats that have not
\* completed, whether the interrupt or atomic_inc() comes first.
THEOREM BeatsAreCounted == Spec => []CountsInFlight
BY TypeAlways, PTL DEF TypeInv

\* The numbers among the types.
LEMMA Ranges ==
    ASSUME TypeInv
    PROVE  /\ mail \in Nat /\ mail <= Mailboxes
           /\ due \in Int /\ due <= Period /\ due >= -2 * SendTimeout
           /\ left \in Nat /\ left <= SendTimeout
           /\ silence \in Nat /\ calm \in Nat /\ waiting \in Nat
           /\ unheard \in Int /\ unheard >= -1
           /\ retry_in \in Nat /\ phase \in 0 .. Period - 1
           /\ beats_in_flight \in Int /\ DueInv
           /\ link_up \in BOOLEAN /\ responding \in BOOLEAN
           /\ telemetry_pending \in {0, 1}
           /\ last_beat_error \in {"OK", "EIO"}
BY Constants DEF TypeInv, TypeOK

-----------------------------------------------------------------------------
(* The schedule *)

\* Time and the schedule move by ticks and by whole periods, or start anew.
LEMMA ScheduleMoves ==
    ASSUME [Next]_vars
    PROVE  \/ phase' = phase /\ due' \in {due, due + Period}
           \/ phase' = (phase + 1) % Period /\ due' = due - 1
           \/ phase' = 0 /\ due' = 0
BY DEF Next, Loop, vars, busVars, beatVars, linkVars, dataVars, histVars,
       BeatDue, BusOff, Wait, CanSend, CanSendFails, CountBeat, ReadError,
       BeatVerdict, NextBeat, RecvTimeout, RecvCommand, Answered, NoReading,
       TakeReading, ReadAndSend, ReadAndStall, ReadAndSkip, TelemetrySent,
       TelemetryFails, Publish, PublishFails, BusChanges, Restart, Tick,
       HeartbeatSent

\* Boot is on the grid.
LEMMA NothingLeft == 0 % Period = 0
<1>1. 0 = Period * 0 + 0 /\ 0 \in 0 .. Period - 1
  BY Constants
<1>2. QED
  BY <1>1, Constants, SameRemainder

LEMMA CadenceStep ==
    ASSUME TypeInv, CadenceKept, [Next]_vars
    PROVE  CadenceKept'
<1> USE Constants DEF CadenceKept
<1>1. /\ phase + due \in Int /\ (phase + due) % Period = 0
      /\ phase \in 0 .. Period - 1 /\ due \in Int
  BY Ranges
<1>2. /\ ((phase + due) + Period) % Period = 0
      /\ ((phase + due) - Period) % Period = 0
  BY <1>1, NextOnGrid
<1>3. CASE phase' = phase /\ due' = due
  BY <1>1, <1>3
<1>4. CASE phase' = phase /\ due' = due + Period
  <2>1. phase' + due' = (phase + due) + Period
    BY <1>1, <1>4
  <2>2. QED
    BY <1>2, <2>1
<1>5. CASE phase' = (phase + 1) % Period /\ due' = due - 1
  <2>1. CASE phase' = phase + 1
    <3>1. phase' + due' = phase + due
      BY <1>1, <1>5, <2>1
    <3>2. QED
      BY <1>1, <3>1
  <2>2. CASE phase + 1 = Period /\ phase' = 0
    <3>1. phase' + due' = (phase + due) - Period
      BY <1>1, <1>5, <2>2
    <3>2. QED
      BY <1>2, <3>1
  <2>3. QED
    BY <1>1, <1>5, <2>1, <2>2, PhaseMoves
<1>6. CASE phase' = 0 /\ due' = 0
  BY <1>6, NothingLeft
<1>7. QED
  BY <1>3, <1>4, <1>5, <1>6, ScheduleMoves

\* main.cpp:440-442: beats stay due on the grid of whole periods since boot,
\* however long an iteration takes.
THEOREM CadenceIsKept == Spec => []CadenceKept
<1>1. Init => CadenceKept
  BY NothingLeft DEF Init, CadenceKept
<1>2. TypeInv /\ CadenceKept /\ [Next]_vars => CadenceKept'
  BY CadenceStep
<1>3. QED
  BY <1>1, <1>2, TypeAlways, PTL DEF Spec

-----------------------------------------------------------------------------
(* What the gateway sees of the beats *)

Formed == {"count", "error", "verdict"}

\* On a bus that acknowledges, the silence and the wait for the next beat make
\* a period; while a beat is being sent there is none.
GapInv ==
    /\ ~Acked => silence = 0
    /\ mail = 0 /\ pc \notin Formed => silence <= Period - due
    /\ mail = 0 /\ pc \in Formed => silence = 0

LEMMA GapStep ==
    ASSUME TypeInv, GapInv, BeatsKeepComing, [Next]_vars
    PROVE  GapInv' /\ BeatsKeepComing'
<1> USE Constants, Ranges DEF GapInv, BeatsKeepComing, MaxGap, Formed, Acked,
        busVars, beatVars, linkVars, dataVars, histVars
<1>1. CASE BeatDue \/ Wait \/ RecvTimeout \/ NoReading
  BY <1>1 DEF BeatDue, Wait, RecvTimeout, NoReading
<1>2. CASE CanSend \/ CanSendFails
  BY <1>2 DEF CanSend, CanSendFails
<1>3. CASE CountBeat \/ ReadError
  BY <1>3 DEF CountBeat, ReadError
<1>4. CASE BusOff
  BY <1>4 DEF BusOff, bus_transmittable, NextBeat, DueInv
<1>5. CASE BeatVerdict
  BY <1>5 DEF BeatVerdict, NextBeat, DueInv, Sending
<1>6. CASE RecvCommand \/ Answered \/ TakeReading
  BY <1>6 DEF RecvCommand, Answered, TakeReading
<1>7. CASE ReadAndSend \/ ReadAndStall \/ ReadAndSkip
  BY <1>7 DEF ReadAndSend, ReadAndStall, ReadAndSkip
<1>8. CASE TelemetrySent \/ TelemetryFails
  BY <1>8 DEF TelemetrySent, TelemetryFails
<1>9. CASE Publish \/ PublishFails
  BY <1>9 DEF Publish, PublishFails
<1>10. ASSUME NEW error \in {"OK", "EIO"}, HeartbeatSent(error)
       PROVE  GapInv' /\ BeatsKeepComing'
  BY <1>10 DEF HeartbeatSent
<1>11. CASE BusChanges
  BY <1>11 DEF BusChanges
<1>12. CASE Tick
  <2>1. /\ pc \notin Formed /\ pc' = pc /\ bus' = bus /\ mail' = mail
        /\ due' = due - 1 /\ due' >= -2 * SendTimeout
    BY <1>12, TypeStep DEF Tick, DueInv
  <2>2. CASE Acked
    BY <1>12, <2>1, <2>2 DEF Tick
  <2>3. CASE ~Acked
    BY <1>12, <2>1, <2>3 DEF Tick
  <2>4. QED
    BY <2>2, <2>3
<1>13. CASE UNCHANGED vars
  BY <1>13 DEF vars
<1>14. CASE Restart
  BY <1>14 DEF Restart
<1>15. QED
  BY <1>1, <1>2, <1>3, <1>4, <1>5, <1>6, <1>7, <1>8, <1>9, <1>10, <1>11,
     <1>12, <1>13, <1>14 DEF Next, Loop

\* can_link.h:188-195: on a bus that acknowledges, beats are at most a period
\* and two failing transfers apart.
THEOREM BeatsComeInTime == Spec => []BeatsKeepComing
<1>1. Init => GapInv /\ BeatsKeepComing
  BY Constants DEF Init, GapInv, BeatsKeepComing, MaxGap, Formed
<1>2. TypeInv /\ GapInv /\ BeatsKeepComing /\ [Next]_vars
         => GapInv' /\ BeatsKeepComing'
  BY GapStep
<1>3. QED
  BY <1>1, <1>2, TypeAlways, PTL DEF Spec

-----------------------------------------------------------------------------
(* Readings *)

\* How long a reading may have been pending, by the place of the loop: at
\* "take" it is taken, and a newer one starts to wait.
PendingInv ==
    /\ telemetry_pending = 0 => waiting = 0
    /\ pc = "telemetry" => waiting <= SendTimeout - left
    /\ pc = "top" \/ pc \in Sending => waiting <= SendTimeout
    /\ pc = "recv" => waiting <= SendTimeout + Period - due
    /\ pc = "answer" => waiting <= 2 * SendTimeout + Period - left
    /\ pc = "take" => waiting <= 2 * SendTimeout + Period
    /\ pc = "read" => waiting = 0

LEMMA PendingStep ==
    ASSUME TypeInv, PendingInv, [Next]_vars
    PROVE  PendingInv'
<1> USE Constants, Ranges DEF PendingInv, Sending, busVars, beatVars, linkVars,
        dataVars, histVars
<1>1. CASE BeatDue \/ Wait
  BY <1>1 DEF BeatDue, Wait
<1>2. CASE CanSend \/ CanSendFails \/ CountBeat \/ ReadError
  BY <1>2 DEF CanSend, CanSendFails, CountBeat, ReadError
<1>3. CASE BusOff \/ BeatVerdict
  BY <1>3 DEF BusOff, BeatVerdict
<1>4. CASE RecvTimeout
  BY <1>4 DEF RecvTimeout
<1>5. CASE RecvCommand
  BY <1>5 DEF RecvCommand, DueInv
<1>6. CASE Answered
  BY <1>6 DEF Answered
<1>7. CASE NoReading
  BY <1>7 DEF NoReading, NothingPending
<1>8. CASE TakeReading
  BY <1>8 DEF TakeReading
<1>9. CASE ReadAndSend \/ ReadAndStall \/ ReadAndSkip
  <2>1. /\ pc = "read" /\ waiting' = waiting
        /\ telemetry_pending' = telemetry_pending
        /\ pc' = "top" \/ (pc' = "telemetry" /\ left' = SendTimeout)
    BY <1>9 DEF ReadAndSend, ReadAndStall, ReadAndSkip
  <2>2. QED
    BY <2>1
<1>10. CASE TelemetrySent \/ TelemetryFails
  <2>1. /\ pc = "telemetry" /\ pc' = "top" /\ waiting' = waiting
        /\ telemetry_pending' = telemetry_pending
    BY <1>10 DEF TelemetrySent, TelemetryFails
  <2>2. QED
    BY <2>1
<1>11. CASE Publish \/ PublishFails
  BY <1>11 DEF Publish, PublishFails
<1>12. ASSUME NEW error \in {"OK", "EIO"}, HeartbeatSent(error)
       PROVE  PendingInv'
  BY <1>12 DEF HeartbeatSent
<1>13. CASE BusChanges
  BY <1>13 DEF BusChanges
<1>14. CASE Tick
  BY <1>14 DEF Tick
<1>15. CASE UNCHANGED vars
  BY <1>15 DEF vars
<1>16. CASE Restart
  BY <1>16 DEF Restart
<1>17. QED
  BY <1>1, <1>2, <1>3, <1>4, <1>5, <1>6, <1>7, <1>8, <1>9, <1>10, <1>11,
     <1>12, <1>13, <1>14, <1>15, <1>16 DEF Next, Loop

\* main.cpp:20-22: a reading waits at most for a period and two failing
\* transfers.
THEOREM ReadingsAreTaken == Spec => []ReadingTakenInTime
<1>1. Init => PendingInv
  BY Constants DEF Init, PendingInv, Sending
<1>2. TypeInv /\ PendingInv /\ [Next]_vars => PendingInv'
  BY PendingStep
<1>3. TypeInv /\ PendingInv => ReadingTakenInTime
  <2> SUFFICES ASSUME TypeInv, PendingInv PROVE ReadingTakenInTime
    OBVIOUS
  <2>1. pc \in {"top", "recv", "answer", "take", "read", "telemetry"} \cup Sending
    BY DEF TypeInv, TypeOK
  <2>2. QED
    BY <2>1, Ranges, Constants DEF PendingInv, ReadingTakenInTime, MaxGap, DueInv
<1>4. QED
  BY <1>1, <1>2, <1>3, TypeAlways, PTL DEF Spec

\* main.cpp:468-474: with no reading pending, the heartbeat tells what the last
\* one said, unless main() was never told of it.
THEOREM HeartbeatTellsTheLast == Spec => []HeartbeatTellsSensor
<1>1. Init => HeartbeatTellsSensor
  BY DEF Init, HeartbeatTellsSensor
<1>2. HeartbeatTellsSensor /\ [Next]_vars => HeartbeatTellsSensor'
  <2> SUFFICES ASSUME HeartbeatTellsSensor, [Next]_vars
               PROVE  HeartbeatTellsSensor'
    OBVIOUS
  <2> USE DEF HeartbeatTellsSensor, busVars, beatVars, linkVars, dataVars,
              histVars
  <2>1. CASE UNCHANGED vars
    BY <2>1 DEF vars
  <2>2. CASE ReadAndSend \/ ReadAndStall \/ ReadAndSkip
    BY <2>2 DEF ReadAndSend, ReadAndStall, ReadAndSkip, HbState
  <2>3. CASE Publish \/ PublishFails
    BY <2>3 DEF Publish, PublishFails
  <2>4. CASE BeatDue \/ BusOff \/ Wait \/ CanSend \/ CanSendFails \/ CountBeat
             \/ ReadError \/ BeatVerdict
    BY <2>4 DEF BeatDue, BusOff, Wait, CanSend, CanSendFails, CountBeat,
       ReadError, BeatVerdict
  <2>5. CASE RecvTimeout \/ RecvCommand \/ Answered \/ NoReading \/ TakeReading
             \/ TelemetrySent \/ TelemetryFails
    BY <2>5 DEF RecvTimeout, RecvCommand, Answered, NoReading, TakeReading,
       TelemetrySent, TelemetryFails
  <2>6. CASE BusChanges \/ Restart \/ Tick
             \/ \E error \in {"OK", "EIO"} : HeartbeatSent(error)
    BY <2>6 DEF BusChanges, Restart, Tick, HeartbeatSent
  <2>7. QED
    BY <2>1, <2>2, <2>3, <2>4, <2>5, <2>6 DEF Next, Loop
<1>3. QED
  BY <1>1, <1>2, PTL DEF Spec

-----------------------------------------------------------------------------
(* A dead bus *)

\* Once a beat has not been acknowledged, something tells: a beat that stays in
\* its mailbox, or the error it ended with.  Only the verdict on that beat
\* itself may still be a good one, and then the next beat is this far away.  The
\* Ack of a command that was queued may be tried before it.
DeadInv ==
    /\ unheard # -1 =>
         /\ ~Acked
         /\ mail > 0 \/ last_beat_error # "OK"
         /\ pc = "answer" => due > left - SendTimeout
         /\ pc \in {"take", "read"} => due > -SendTimeout
    /\ unheard > 0 /\ err = "OK" =>
         /\ pc \in {"count", "error"} => last_beat_error # "OK" \/ mail >= 2
         /\ pc = "verdict" => mail >= 2
    /\ unheard >= 0 /\ link_up => unheard <= Period - due

LEMMA DeadStep ==
    ASSUME TypeInv, DeadInv, [Next]_vars
    PROVE  DeadInv'
<1> USE Constants, Ranges DEF DeadInv, DueInv, Sending, Acked, Healthy,
        busVars, beatVars, linkVars, dataVars, histVars
<1>1. CASE BeatDue \/ Wait \/ RecvTimeout \/ NoReading
  BY <1>1 DEF BeatDue, Wait, RecvTimeout, NoReading
<1>2. CASE CanSend
  <2>1. /\ pc = "can_send" /\ pc' = "count" /\ err' = "OK" /\ mail' = mail + 1
        /\ bus' = bus /\ last_beat_error' = last_beat_error /\ due' = due
        /\ link_up' = link_up
        /\ unheard' = IF bus = "alone" /\ unheard = -1 THEN 0 ELSE unheard
    BY <1>2 DEF CanSend
  <2>2. CASE bus = "alone" /\ unheard = -1
    BY <2>1, <2>2
  <2>3. CASE ~(bus = "alone" /\ unheard = -1)
    <3>1. unheard' = unheard
      BY <2>1, <2>3
    <3>2. QED
      BY <2>1, <3>1
  <2>4. QED
    BY <2>2, <2>3
<1>3. CASE CanSendFails \/ CountBeat
  BY <1>3 DEF CanSendFails, CountBeat
<1>4. CASE ReadError
  BY <1>4 DEF ReadError
<1>5. CASE BusOff
  <2>1. link_up' = FALSE
    BY <1>5, Noted DEF BusOff
  <2>2. QED
    BY <1>5, <2>1 DEF BusOff
<1>6. CASE BeatVerdict
  <2>1. pc' = "top" /\ pc = "verdict"
    BY <1>6 DEF BeatVerdict
  <2>2. CASE err = "OK" /\ ~Congested
    <3>1. mail < 2
      BY <2>1, <2>2 DEF Congested, TypeInv, CountsInFlight
    <3>2. unheard <= 0
      BY <2>1, <2>2, <3>1
    <3>3. due' = due + Period /\ due <= 0
      BY <1>6, <2>1 DEF BeatVerdict, NextBeat
    <3>4. QED
      BY <1>6, <2>1, <3>2, <3>3 DEF BeatVerdict
  <2>3. CASE ~(err = "OK" /\ ~Congested)
    <3>1. link_up' = FALSE
      BY <1>6, <2>3 DEF BeatVerdict, NoteLink, NoteFailure
    <3>2. QED
      BY <1>6, <3>1 DEF BeatVerdict
  <2>4. QED
    BY <2>2, <2>3
<1>7. CASE RecvCommand \/ Answered
  BY <1>7 DEF RecvCommand, Answered
<1>8. CASE TakeReading \/ ReadAndStall \/ ReadAndSkip
  BY <1>8 DEF TakeReading, ReadAndStall, ReadAndSkip
<1>9. CASE ReadAndSend \/ TelemetrySent
  <2>1. unheard = -1 /\ unheard' = -1
    BY <1>9 DEF ReadAndSend, TelemetrySent, TransferOk
  <2>2. QED
    BY <2>1
<1>10. CASE TelemetryFails
  <2>1. link_up' = FALSE
    BY <1>10 DEF TelemetryFails, NoteLink, NoteFailure
  <2>2. QED
    BY <1>10, <2>1 DEF TelemetryFails
<1>11. CASE Publish \/ PublishFails
  BY <1>11 DEF Publish, PublishFails
<1>12. ASSUME NEW error \in {"OK", "EIO"}, HeartbeatSent(error)
       PROVE  DeadInv'
  <2>1. /\ mail' = mail - 1 /\ bus' = bus /\ pc' = pc /\ due' = due
        /\ left' = left /\ err' = err /\ link_up' = link_up
        /\ last_beat_error' = error /\ (~Acked => error # "OK")
        /\ unheard' = IF pc = "verdict" /\ ~Acked THEN 0 ELSE unheard
    BY <1>12 DEF HeartbeatSent, Completed
  <2>2. CASE pc = "verdict" /\ ~Acked
    BY <2>1, <2>2
  <2>3. CASE ~(pc = "verdict" /\ ~Acked)
    <3>1. unheard' = unheard
      BY <2>1, <2>3
    <3>2. QED
      BY <2>1, <2>3, <3>1
  <2>4. QED
    BY <2>2, <2>3
<1>13. CASE BusChanges
  <2>1. /\ mail' = mail /\ pc' = pc /\ due' = due /\ left' = left
        /\ err' = err /\ link_up' = link_up
        /\ last_beat_error' = last_beat_error
        /\ unheard' = IF Acked' THEN -1 ELSE unheard
    BY <1>13 DEF BusChanges
  <2>2. CASE Acked'
    <3>1. unheard' = -1
      BY <2>1, <2>2
    <3>2. QED
      BY <3>1
  <2>3. CASE ~Acked'
    <3>1. unheard' = unheard
      BY <2>1, <2>3
    <3>2. QED
      BY <2>1, <2>3, <3>1
  <2>4. QED
    BY <2>2, <2>3
<1>14. CASE Tick
  <2>1. \/ unheard = -1 /\ unheard' = -1
        \/ unheard # -1 /\ unheard' \in Nat /\ unheard' <= unheard + 1
    BY <1>14 DEF Tick, UpTo
  <2>2. QED
    BY <1>14, <2>1 DEF Tick, DueInv
<1>15. CASE UNCHANGED vars
  BY <1>15 DEF vars
<1>16. CASE Restart
  BY <1>16 DEF Restart
<1>17. QED
  BY <1>1, <1>2, <1>3, <1>4, <1>5, <1>6, <1>7, <1>8, <1>9, <1>10, <1>11,
     <1>12, <1>13, <1>14, <1>15, <1>16 DEF Next, Loop

LEMMA DeadAlways == Spec => [](TypeInv /\ DeadInv)
<1>1. Init => DeadInv
  BY Constants DEF Init, DeadInv, Sending
<1>2. TypeInv /\ DeadInv /\ [Next]_vars => DeadInv'
  BY DeadStep
<1>3. QED
  BY <1>1, <1>2, TypeAlways, PTL DEF Spec

LEMMA DeadIsDown ==
    ASSUME TypeInv, DeadInv
    PROVE  DeadIsNoticed
BY Ranges, Constants DEF DeadInv, DeadIsNoticed, MaxGap

\* main.cpp:310-315: a bus on which nothing is acknowledged is noticed with the
\* second beat, and stays noticed, wherever the interrupt comes in between.
THEOREM DeadBusIsNoticed == Spec => []DeadIsNoticed
BY DeadAlways, DeadIsDown, PTL

\* Each failing beat puts the retry off by the whole backoff, which has at most a
\* period to run down before the next beat.
RetryInv ==
    unheard # -1 /\ ~link_up /\ pc \notin Sending =>
        retry_in >= BackoffMin - Period + due

LEMMA LateEnough ==
    ASSUME NEW b \in Nat, NEW p \in Nat, NEW d \in Int, NEW r \in Nat,
           r >= b, d <= p
    PROVE  r >= b - p + d
OBVIOUS

LEMMA RetryStep ==
    ASSUME TypeInv, DeadInv, RetryInv, [Next]_vars
    PROVE  RetryInv'
<1> USE Constants, Ranges DEF RetryInv, Sending, busVars, beatVars, linkVars,
        dataVars, histVars
<1>1. CASE BeatDue \/ Wait \/ RecvTimeout \/ NoReading
  BY <1>1 DEF BeatDue, Wait, RecvTimeout, NoReading
<1>2. CASE CanSend \/ CanSendFails \/ CountBeat \/ ReadError
  BY <1>2 DEF CanSend, CanSendFails, CountBeat, ReadError
<1>3. CASE BusOff \/ BeatVerdict \/ TelemetryFails
  <2>1. PICK ok \in BOOLEAN : NoteLink(ok)
    BY <1>3 DEF BusOff, BeatVerdict, TelemetryFails
  <2>2. link_up' = ok /\ (~ok => retry_in' >= BackoffMin) /\ retry_in' \in Nat
    BY <2>1, Noted
  <2>3. due' \in Int /\ due' <= Period
    BY TypeStep DEF TypeInv, TypeOK
  <2>4. CASE ok
    BY <2>2, <2>4
  <2>5. CASE ~ok
    <3>1. retry_in' >= BackoffMin /\ retry_in' \in Nat
      BY <2>2, <2>5
    <3>2. retry_in' >= BackoffMin - Period + due'
      BY <2>3, <3>1, LateEnough
    <3>3. QED
      BY <3>2
  <2>6. QED
    BY <2>4, <2>5
<1>4. CASE ReadAndSend \/ TelemetrySent
  <2>1. link_up' = TRUE
    BY <1>4 DEF ReadAndSend, TelemetrySent, NoteLink, NoteOk
  <2>2. QED
    BY <2>1
<1>5. CASE RecvCommand \/ Answered \/ TakeReading \/ ReadAndStall \/ ReadAndSkip
  BY <1>5 DEF RecvCommand, Answered, TakeReading, ReadAndStall, ReadAndSkip
<1>6. CASE Publish \/ PublishFails
  BY <1>6 DEF Publish, PublishFails
<1>7. ASSUME NEW error \in {"OK", "EIO"}, HeartbeatSent(error)
      PROVE  RetryInv'
  BY <1>7 DEF HeartbeatSent
<1>8. CASE BusChanges
  BY <1>8 DEF BusChanges
<1>9. CASE Tick
  BY <1>9 DEF Tick, Down
<1>10. CASE UNCHANGED vars
  BY <1>10 DEF vars
<1>11. CASE Restart
  BY <1>11 DEF Restart
<1>12. QED
  BY <1>1, <1>2, <1>3, <1>4, <1>5, <1>6, <1>7, <1>8, <1>9, <1>10, <1>11
     DEF Next, Loop

\* main.cpp:156-158, 507-508: on a dead bus telemetry is never tried again.  The
\* first backoff, 2 s, is as long as the heartbeat's period and one failing Ack
\* together, and every later one is longer.
THEOREM DeadBusKeepsTelemetryBack ==
    ASSUME Period + SendTimeout <= BackoffMin
    PROVE  Spec => []HeartbeatDecides
<1>1. Init => RetryInv
  BY DEF Init, RetryInv
<1>2. TypeInv /\ DeadInv /\ RetryInv /\ [Next]_vars => RetryInv'
  BY RetryStep
<1>3. TypeInv /\ DeadInv /\ RetryInv => HeartbeatDecides
  <2> SUFFICES ASSUME TypeInv, DeadInv, RetryInv, unheard > MaxGap, pc = "read"
               PROVE  ~Allowed
    BY DEF HeartbeatDecides
  <2>1. ~link_up /\ unheard # -1
    BY DeadIsDown, Ranges, Constants DEF DeadIsNoticed, MaxGap
  <2>2. due > -SendTimeout /\ due \in Int
    BY <2>1, Ranges DEF DeadInv
  <2>3. retry_in > 0
    BY <2>1, <2>2, Ranges, Constants DEF RetryInv, Sending
  <2>4. QED
    BY <2>1, <2>3 DEF Allowed
<1>4. QED
  BY <1>1, <1>2, <1>3, DeadAlways, PTL DEF Spec

-----------------------------------------------------------------------------
(* A healthy gateway *)

\* The first beat after the gateway came back is judged by the error of the beat
\* before, and beats that were missed meanwhile are judged together; after that
\* a beat finds its predecessor completed.
HealthyInv ==
    /\ calm > 0 => Healthy
    /\ pc \in {"answer", "telemetry"} => calm <= SendTimeout - left
    /\ calm > SendTimeout => due >= 0
    /\ last_beat_error # "OK" /\ mail = 0 /\ pc \notin Formed =>
         calm <= Period - due /\ (due <= 0 => calm <= SendTimeout)
    /\ last_beat_error # "OK" /\ mail = 0 /\ pc \in Formed => calm = 0
    /\ calm > SendTimeout /\ due <= 0 /\ pc \notin Formed => mail = 0
    /\ calm > SendTimeout /\ pc \in Formed =>
         last_beat_error = "OK" /\ mail <= 1 /\ err = "OK"
    /\ ~link_up => IF pc \in Sending THEN calm <= SendTimeout + Period
                   ELSE calm <= SendTimeout + Period - due

LEMMA HealthyStep ==
    ASSUME Period <= SendTimeout, TypeInv, HealthyInv, [Next]_vars
    PROVE  HealthyInv'
<1> USE Constants, Ranges DEF HealthyInv, Sending, Formed, Acked, Healthy,
        busVars, beatVars, linkVars, dataVars, histVars
<1>1. CASE BeatDue \/ Wait \/ RecvTimeout \/ NoReading
  BY <1>1 DEF BeatDue, Wait, RecvTimeout, NoReading
<1>2. CASE CanSend
  <2>1. CASE calm > SendTimeout
    <3>1. mail = 0 /\ last_beat_error = "OK" /\ due = 0
      BY <1>2, <2>1 DEF CanSend, DueInv
    <3>2. QED
      BY <1>2, <2>1, <3>1 DEF CanSend
  <2>2. CASE calm <= SendTimeout
    BY <1>2, <2>2 DEF CanSend
  <2>3. QED
    BY <2>1, <2>2
<1>3. CASE CanSendFails
  <2>1. calm > SendTimeout => FALSE
    BY <1>3 DEF CanSendFails, DueInv
  <2>2. mail = 0 => calm = 0
    BY <1>3 DEF CanSendFails
  <2>3. QED
    BY <1>3, <2>1, <2>2 DEF CanSendFails
<1>4. CASE CountBeat \/ ReadError
  BY <1>4 DEF CountBeat, ReadError
<1>5. CASE BusOff
  <2>1. calm = 0
    BY <1>5 DEF BusOff, bus_transmittable
  <2>2. due' \in Int /\ due' <= Period
    BY TypeStep DEF TypeInv, TypeOK
  <2>3. QED
    BY <1>5, <2>1, <2>2 DEF BusOff
<1>6. CASE BeatVerdict
  <2>1. /\ pc = "verdict" /\ pc' = "top" /\ due' = due + Period /\ calm' = calm
        /\ mail' = mail /\ bus' = bus /\ responding' = responding
        /\ last_beat_error' = last_beat_error
        /\ due <= 0 /\ due' \in Int /\ due' <= Period
    BY <1>6, TypeStep DEF BeatVerdict, NextBeat, DueInv
  <2>2. CASE calm > SendTimeout
    <3>1. err = "OK" /\ ~Congested
      BY <2>1, <2>2 DEF Congested, TypeInv, CountsInFlight
    <3>2. link_up' = TRUE
      BY <1>6, <3>1 DEF BeatVerdict, NoteLink, NoteOk
    <3>3. QED
      BY <2>1, <2>2, <3>2
  <2>3. CASE calm <= SendTimeout
    BY <2>1, <2>3
  <2>4. QED
    BY <2>2, <2>3
<1>7. CASE RecvCommand \/ Answered
  BY <1>7 DEF RecvCommand, Answered
<1>8. CASE TakeReading \/ ReadAndStall \/ ReadAndSkip
  BY <1>8 DEF TakeReading, ReadAndStall, ReadAndSkip, TransferOk
<1>9. CASE ReadAndSend \/ TelemetrySent
  <2>1. link_up' = TRUE
    BY <1>9 DEF ReadAndSend, TelemetrySent, NoteLink, NoteOk
  <2>2. QED
    BY <1>9, <2>1 DEF ReadAndSend, TelemetrySent
<1>10. CASE TelemetryFails
  BY <1>10 DEF TelemetryFails
<1>11. CASE Publish \/ PublishFails
  BY <1>11 DEF Publish, PublishFails
<1>12. ASSUME NEW error \in {"OK", "EIO"}, HeartbeatSent(error)
       PROVE  HealthyInv'
  <2>1. /\ mail > 0 /\ mail' = mail - 1 /\ bus' = bus /\ pc' = pc /\ due' = due
        /\ left' = left /\ err' = err /\ link_up' = link_up /\ calm' = calm
        /\ responding' = responding
        /\ last_beat_error' = error /\ (Acked <=> error = "OK")
    BY <1>12 DEF HeartbeatSent, Completed
  <2>2. CASE error = "OK"
    BY <2>1, <2>2
  <2>3. CASE error # "OK"
    <3>1. calm = 0
      BY <2>1, <2>3
    <3>2. QED
      BY <2>1, <2>3, <3>1
  <2>4. QED
    BY <2>2, <2>3
<1>13. CASE BusChanges
  <2>1. /\ calm' = 0 /\ pc' = pc /\ due' = due /\ left' = left
        /\ mail' = mail /\ last_beat_error' = last_beat_error
    BY <1>13 DEF BusChanges
  <2>2. QED
    BY <2>1
<1>14. CASE Tick
  <2>1. /\ pc \in {"recv", "answer", "telemetry"} /\ pc' = pc
        /\ due' = due - 1 /\ mail' = mail /\ bus' = bus
        /\ responding' = responding /\ link_up' = link_up
        /\ last_beat_error' = last_beat_error
        /\ pc = "recv" => due > 0
        /\ pc # "recv" => left > 0 /\ left' = left - 1
    BY <1>14 DEF Tick
  <2>2. \/ calm' = 0
        \/ /\ Healthy /\ mail = 0
           /\ calm' \in Nat /\ calm' <= calm + 1
    BY <1>14 DEF Tick, UpTo
  <2>3. CASE calm' = 0
    BY <2>1, <2>3
  <2>4. CASE Healthy /\ mail = 0 /\ calm' \in Nat /\ calm' <= calm + 1
    BY <2>1, <2>4
  <2>5. QED
    BY <2>2, <2>3, <2>4
<1>15. CASE UNCHANGED vars
  BY <1>15 DEF vars
<1>16. CASE Restart
  BY <1>16 DEF Restart
<1>17. QED
  BY <1>1, <1>2, <1>3, <1>4, <1>5, <1>6, <1>7, <1>8, <1>9, <1>10, <1>11,
     <1>12, <1>13, <1>14, <1>15, <1>16 DEF Next, Loop

\* note_link(): a gateway that answers is taken for reachable again, if a
\* failing transfer is not over before the next beat is due: kHeartbeatPeriodMs
\* and ISOTP_BS_TIMEOUT are the same second.
THEOREM HealthyGatewayIsNoticed ==
    ASSUME Period <= SendTimeout
    PROVE  Spec => []HealthyIsNoticed
<1>1. Init => HealthyInv
  BY Constants DEF Init, HealthyInv, Sending, Formed
<1>2. TypeInv /\ HealthyInv /\ [Next]_vars => HealthyInv'
  BY HealthyStep
<1>3. TypeInv /\ HealthyInv => HealthyIsNoticed
  BY Ranges, Constants DEF HealthyInv, HealthyIsNoticed, NoticeTime
<1>4. QED
  BY <1>1, <1>2, <1>3, TypeAlways, PTL DEF Spec
=============================================================================
