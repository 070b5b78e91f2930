--------------------------- MODULE CommandsProofs ---------------------------
(***************************************************************************)
(* What a node guarantees about commands and about its samples, for any    *)
(* number of commands, redeliveries and restarts, any pool and any bounds  *)
(* of the sample period.                                                   *)
(***************************************************************************)
EXTENDS Commands, FiniteSetTheorems, TLAPS

Statuses == {"OK", "INVALID_ARGUMENT", "FAILED", "UNSUPPORTED", "MALFORMED"}

-----------------------------------------------------------------------------
(* Sequences *)

LEMMA Popped ==
    ASSUME NEW S, NEW q \in Seq(S), q # <<>>
    PROVE  /\ Head(q) = q[1] /\ Head(q) \in S /\ 1 \in DOMAIN q
           /\ Tail(q) \in Seq(S) /\ Len(Tail(q)) = Len(q) - 1
           /\ DOMAIN Tail(q) = 1 .. Len(q) - 1
           /\ \A i \in 1 .. Len(q) - 1 : Tail(q)[i] = q[i + 1]
OBVIOUS

LEMMA NoneQueued ==
    ASSUME NEW S
    PROVE  /\ <<>> \in Seq(S) /\ Len(<<>>) = 0
           /\ \A i \in DOMAIN <<>> : FALSE
OBVIOUS

LEMMA Pushed ==
    ASSUME NEW S, NEW q \in Seq(S), NEW c \in S
    PROVE  /\ Append(q, c) \in Seq(S) /\ Len(Append(q, c)) = Len(q) + 1
           /\ DOMAIN Append(q, c) = 1 .. Len(q) + 1
           /\ \A i \in 1 .. Len(q) : Append(q, c)[i] = q[i]
           /\ Append(q, c)[Len(q) + 1] = c
OBVIOUS

-----------------------------------------------------------------------------
(* Types, and what the queue and the clock are worth *)

QueueInv ==
    \A i \in DOMAIN cmd_q :
        /\ HasEffect(cmd_q[i])
        /\ IsSet(cmd_q[i]) => cmd_q[i].ms \in MinPeriod .. MaxPeriod

\* The wait ends when the period does, and history and code agree on when that
\* is: every sample re-bases the cadence.
ClockInv ==
    /\ since = age
    /\ pc = "wait" => age + left = period_ms

TypeInv ==
    /\ TypeOK /\ QueueInv /\ ClockInv
    /\ verdicts \subseteq Command \X Statuses

LEMMA TypeStart ==
    ASSUME Init
    PROVE  TypeInv
<1> USE CommandsAssumption DEF CommandsAssumption, Init
<1>1. cmd_q \in Seq(Command) /\ stream \in Seq(Command) /\ QueueInv
  BY NoneQueued DEF QueueInv
<1>2. effects \in [Sequences32 -> Nat] /\ verdicts \subseteq Command \X Statuses
  BY Zenon, 0 \in Nat
<1>3. /\ sent \in 0 .. NCmds /\ dups \in 0 .. MaxDups /\ boots \in 0 .. MaxBoots
      /\ period_ms \in MinPeriod .. MaxPeriod /\ last_set \in MinPeriod .. MaxPeriod
      /\ age \in 0 .. MaxPeriod
  OBVIOUS
<1>4. QED
  BY <1>1, <1>2, <1>3 DEF TypeInv, TypeOK, ClockInv

LEMMA Enqueued ==
    ASSUME TypeInv, NEW c \in Command, InRange(c), HasEffect(c), RoomInPool,
           Accept(c)
    PROVE  /\ cmd_q' \in Seq(Command) /\ Len(cmd_q') < PoolSlots
           /\ QueueInv'
           /\ effects' \in [Sequences32 -> Nat]
           /\ last_set' \in MinPeriod .. MaxPeriod /\ triggers' \in Nat
<1>1. /\ cmd_q' \in Seq(Command) /\ Len(cmd_q') = Len(cmd_q) + 1
      /\ DOMAIN cmd_q' = 1 .. Len(cmd_q) + 1
      /\ \A i \in 1 .. Len(cmd_q) : cmd_q'[i] = cmd_q[i]
      /\ cmd_q'[Len(cmd_q) + 1] = c
  BY Pushed DEF TypeInv, TypeOK, Accept, Queued
<1>2. Len(cmd_q) \in Nat /\ DOMAIN cmd_q = 1 .. Len(cmd_q)
  BY DEF TypeInv, TypeOK
<1>3. QueueInv'
  <2>1. \A i \in 1 .. Len(cmd_q) + 1 : i \in 1 .. Len(cmd_q) \/ i = Len(cmd_q) + 1
    BY <1>2
  <2>2. IsSet(c) => c.ms \in MinPeriod .. MaxPeriod
    BY CommandsAssumption DEF CommandsAssumption, InRange, IsSet, Command
  <2>3. QED
    BY <1>1, <1>2, <2>1, <2>2 DEF TypeInv, QueueInv, HasEffect, IsSet, IsTrigger
<1>4. Len(cmd_q') < PoolSlots
  BY <1>1, <1>2, CommandsAssumption DEF CommandsAssumption, RoomInPool
<1>5. effects' \in [Sequences32 -> Nat]
  <2>1. effects \in [Sequences32 -> Nat] /\ c.seq \in Sequences32
    BY DEF TypeInv, TypeOK, Command
  <2>2. effects' = [effects EXCEPT ![c.seq] = @ + 1] /\ effects[c.seq] + 1 \in Nat
    BY <2>1 DEF Accept
  <2>3. QED
    BY <2>1, <2>2
<1>6. last_set' \in MinPeriod .. MaxPeriod /\ triggers' \in Nat
  <2>1. CASE IsSet(c)
    BY <2>1, CommandsAssumption
    DEF CommandsAssumption, TypeInv, TypeOK, Accept, InRange, Command, IsSet
  <2>2. CASE ~IsSet(c)
    BY <2>2 DEF TypeInv, TypeOK, Accept, IsSet
  <2>3. QED
    BY <2>1, <2>2
<1>7. QED
  BY <1>1, <1>3, <1>4, <1>5, <1>6

\* What handling a command leaves behind, whichever of its outcomes it has.
LEMMA HandledTypes ==
    ASSUME TypeInv, HandleCommand
    PROVE  /\ stream # <<>> /\ Head(stream) \in Command
           /\ \E st \in Statuses : verdicts' = verdicts \cup {<<Head(stream), st>>}
           /\ \/ NoEffect
              \/ /\ cmd_q' \in Seq(Command) /\ Len(cmd_q') < PoolSlots
                 /\ QueueInv'
                 /\ effects' \in [Sequences32 -> Nat]
                 /\ last_set' \in MinPeriod .. MaxPeriod /\ triggers' \in Nat
           /\ have_last_command' \in BOOLEAN
           /\ last_command_sequence' \in Sequences32 \cup {0}
<1> DEFINE c == Head(stream)
<1>1. stream # <<>> /\ c \in Command
  BY Popped DEF TypeInv, TypeOK, HandleCommand
<1>2. c.seq \in Sequences32
  BY <1>1 DEF Command
<1>3. CASE Malformed(c)
  BY <1>1, <1>3 DEF Malformed, Verdict, Statuses, TypeInv, TypeOK
<1>4. CASE /\ Duplicate(c) /\ Verdict(c, "OK") /\ NoEffect
           /\ UNCHANGED <<have_last_command, last_command_sequence>>
  BY <1>1, <1>4 DEF Verdict, Statuses, TypeInv, TypeOK
<1>5. CASE /\ ~Duplicate(c) /\ ApplyCommand(c)
           /\ have_last_command' = TRUE /\ last_command_sequence' = c.seq
  <2>1. CASE NoEffect /\ \E st \in Statuses : Verdict(c, st)
    BY <1>1, <1>2, <1>5, <2>1 DEF Verdict
  <2>2. CASE InRange(c) /\ RoomInPool /\ Accept(c) /\ Verdict(c, "OK") /\ HasEffect(c)
    BY <1>1, <1>2, <1>5, <2>2, Enqueued DEF Verdict, Statuses
  <2>3. QED
    BY <1>5, <2>1, <2>2 DEF ApplyCommand, ForwardToSensor, Statuses, HasEffect,
       IsSet, IsTrigger
<1>6. QED
  BY <1>3, <1>4, <1>5 DEF HandleCommand

LEMMA TypeStep ==
    ASSUME TypeInv, [Next]_vars
    PROVE  TypeInv'
<1> USE CommandsAssumption DEF CommandsAssumption, acceptVars
<1>1. CASE HostSends
  <2>1. PICK p \in Payloads :
          stream' = Append(stream, [seq |-> sent, kind |-> p.kind, ms |-> p.ms])
    BY <1>1 DEF HostSends
  <2>2. [seq |-> sent, kind |-> p.kind, ms |-> p.ms] \in Command
    <3>1. p.kind \in Kinds \cup {"set_interval"} /\ p.ms \in Nat
      BY DEF Payloads
    <3>2. sent \in Sequences32
      BY <1>1 DEF HostSends, Sequences32, TypeInv, TypeOK
    <3>3. QED
      BY <3>1, <3>2 DEF Command
  <2>3. stream \in Seq(Command)
    BY DEF TypeInv, TypeOK
  <2>4. stream' \in Seq(Command)
    BY <2>1, <2>2, <2>3, Pushed
  <2>5. sent' \in 0 .. NCmds
    BY <1>1 DEF HostSends, TypeInv, TypeOK
  <2>6. QED
    BY <1>1, <2>4, <2>5 DEF HostSends, nodeVars, sensorVars, timeVars, TypeInv, TypeOK,
       QueueInv, ClockInv
<1>2. CASE Reboot
  <2>1. cmd_q' \in Seq(Command) /\ QueueInv'
    BY <1>2, NoneQueued DEF Reboot, QueueInv
  <2>2. effects' \in [Sequences32 -> Nat] /\ verdicts' \subseteq Command \X Statuses
    BY <1>2, Zenon, 0 \in Nat DEF Reboot
  <2>3. boots' \in 0 .. MaxBoots /\ DefaultPeriod \in MinPeriod .. MaxPeriod
        /\ 0 \in 0 .. MaxPeriod
    BY <1>2 DEF Reboot, TypeInv, TypeOK
  <2>4. QED
    BY <1>2, <2>1, <2>2, <2>3 DEF Reboot, TypeInv, TypeOK, ClockInv
<1>3. CASE HandleCommand
  <2>1. /\ stream' \in Seq(Command) /\ dups' \in 0 .. MaxDups
        /\ UNCHANGED <<sent, boots, sensorVars>>
    <3>1. /\ stream' \in {stream, Tail(stream)}
          /\ dups' = dups \/ (dups' = dups + 1 /\ dups < MaxDups)
      BY <1>3 DEF HandleCommand
    <3>2. stream # <<>> /\ UNCHANGED <<sent, boots, sensorVars>>
      BY <1>3 DEF HandleCommand
    <3>3. QED
      <4>1. stream \in Seq(Command) /\ dups \in 0 .. MaxDups
        BY DEF TypeInv, TypeOK
      <4>2. Tail(stream) \in Seq(Command)
        BY <3>2, <4>1
      <4>3. dups' \in 0 .. MaxDups
        BY <3>1, <4>1
      <4>4. stream' \in Seq(Command)
        BY <3>1, <4>1, <4>2
      <4>5. QED
        BY <3>2, <4>3, <4>4
  <2>2. verdicts' \subseteq Command \X Statuses
    BY <1>3, HandledTypes DEF TypeInv
  <2>3. TypeOK' /\ QueueInv'
    BY <1>3, <2>1, HandledTypes
    DEF NoEffect, TypeInv, TypeOK, QueueInv, sensorVars, timeVars
  <2>4. ClockInv'
    BY <2>1 DEF ClockInv, TypeInv, sensorVars, timeVars
  <2>5. QED
    BY <2>2, <2>3, <2>4 DEF TypeInv
<1>4. CASE SensorSamples
  BY <1>4 DEF SensorSamples, Rebased, hostVars, nodeVars, TypeInv, TypeOK,
     QueueInv, ClockInv
<1>5. CASE SensorChecks
  BY <1>5 DEF SensorChecks, Left, hostVars, nodeVars, TypeInv, TypeOK, QueueInv,
     ClockInv
<1>6. CASE SensorPeriodElapses
  BY <1>6 DEF SensorPeriodElapses, hostVars, nodeVars, timeVars, TypeInv, TypeOK,
     QueueInv, ClockInv
<1>7. CASE SensorCommand
  <2>1. /\ Head(cmd_q) = cmd_q[1] /\ 1 \in DOMAIN cmd_q
        /\ cmd_q' \in Seq(Command) /\ Len(cmd_q') = Len(cmd_q) - 1
        /\ DOMAIN cmd_q' = 1 .. Len(cmd_q) - 1
        /\ \A i \in 1 .. Len(cmd_q) - 1 : cmd_q'[i] = cmd_q[i + 1]
    BY <1>7, Popped DEF SensorCommand, TypeInv, TypeOK
  <2>2. Len(cmd_q) \in Nat /\ DOMAIN cmd_q = 1 .. Len(cmd_q)
    BY DEF TypeInv, TypeOK
  <2>3. QueueInv'
    <3>1. \A i \in 1 .. Len(cmd_q) - 1 : i + 1 \in 1 .. Len(cmd_q)
      BY <2>2
    <3>2. QED
      BY <2>1, <2>2, <3>1 DEF QueueInv, TypeInv
  <2>4. period_ms' \in MinPeriod .. MaxPeriod /\ triggered' \in Nat
    BY <1>7, <2>1 DEF SensorCommand, TypeInv, TypeOK, QueueInv, IsSet
  <2>5. Len(cmd_q') < PoolSlots
    BY <2>1, <2>2 DEF TypeInv, TypeOK
  <2>6. QED
    BY <1>7, <2>1, <2>3, <2>4, <2>5
    DEF SensorCommand, hostVars, nodeVars, timeVars, TypeInv, TypeOK, ClockInv
<1>8. CASE Tick
  BY <1>8 DEF Tick, hostVars, nodeVars, TypeInv, TypeOK, QueueInv, ClockInv
<1>9. CASE UNCHANGED vars
  BY <1>9 DEF vars, hostVars, nodeVars, sensorVars, timeVars, TypeInv, TypeOK,
     QueueInv, ClockInv
<1>10. QED
  BY <1>1, <1>2, <1>3, <1>4, <1>5, <1>6, <1>7, <1>8, <1>9 DEF Next

\* Types of commands, queues, counts and the clock.
THEOREM TypeCorrect == Spec => []TypeOK
<1>1. Init => TypeInv
  BY TypeStart
<1>2. TypeInv /\ [Next]_vars => TypeInv'
  BY TypeStep
<1>3. TypeInv => TypeOK
  BY DEF TypeInv
<1>4. QED
  BY <1>1, <1>2, <1>3, PTL DEF Spec

-----------------------------------------------------------------------------
(* Duplicate suppression *)

\* The sequence of the command the host's stream delivers next.
Due == sent - Len(stream)

\* The stream delivers in order.
StreamInv ==
    /\ Len(stream) <= sent
    /\ \A i \in DOMAIN stream : stream[i].seq = Due + i - 1

\* What has been executed lies behind, or is the command at the head, which is
\* then the one that is remembered.
ExecutedInv ==
    \A s \in Sequences32 :
        /\ effects[s] <= 1
        /\ effects[s] > 0 =>
              \/ s < Due
              \/ s = Due /\ have_last_command /\ last_command_sequence = s

\* If the command at the head is the one that is remembered, it was answered.
AnsweredInv ==
    have_last_command =>
        \/ last_command_sequence < Due
        \/ /\ last_command_sequence = Due /\ stream # <<>>
           /\ \/ ~HasEffect(Head(stream))
              \/ \E st \in {"OK", "FAILED", "INVALID_ARGUMENT"} :
                    <<Head(stream), st>> \in verdicts

DedupInv == StreamInv /\ ExecutedInv /\ AnsweredInv /\ OkMeansDone

LEMMA StreamStep ==
    ASSUME TypeInv, StreamInv, [Next]_vars
    PROVE  /\ StreamInv'
           /\ \/ Due' = Due
              \/ HandleCommand /\ stream' = Tail(stream) /\ Due' = Due + 1
           /\ ~HandleCommand => Due' = Due
           /\ stream # <<>> => Due \in Sequences32 /\ Head(stream).seq = Due
           /\ stream # <<>> /\ Due' = Due => stream' # <<>> /\ Head(stream') = Head(stream)
<1>1. /\ Len(stream) \in Nat /\ sent \in Nat /\ NCmds \in Nat /\ Due \in Int
      /\ DOMAIN stream = 1 .. Len(stream) /\ stream \in Seq(Command)
      /\ stream = <<>> <=> Len(stream) = 0
  BY CommandsAssumption DEF CommandsAssumption, Due, TypeInv, TypeOK
<1>2. stream # <<>> => /\ Due \in Sequences32 /\ Head(stream).seq = Due
                       /\ Head(stream) = stream[1]
  <2>1. stream # <<>> => Head(stream) = stream[1] /\ 1 \in DOMAIN stream
    BY <1>1
  <2>2. sent <= NCmds
    BY <1>1 DEF TypeInv, TypeOK
  <2>3. stream # <<>> => stream[1].seq = Due
    BY <1>1, <2>1 DEF StreamInv
  <2>4. stream # <<>> => Due \in 0 .. NCmds - 1
    BY <1>1, <2>2 DEF StreamInv, Due
  <2>5. QED
    BY <2>1, <2>3, <2>4 DEF Sequences32
<1>3. CASE HostSends
  <2>1. PICK c : stream' = Append(stream, c) /\ c.seq = sent
    BY <1>3 DEF HostSends
  <2>2. /\ Len(stream') = Len(stream) + 1 /\ sent' = sent + 1
        /\ DOMAIN stream' = 1 .. Len(stream) + 1
        /\ \A i \in 1 .. Len(stream) : stream'[i] = stream[i]
        /\ stream'[Len(stream) + 1] = c
    BY <1>1, <1>3, <2>1 DEF HostSends
  <2>3. Due' = Due
    BY <1>1, <2>2 DEF Due
  <2>4. StreamInv'
    <3>1. \A i \in 1 .. Len(stream) + 1 : i \in 1 .. Len(stream) \/ i = Len(stream) + 1
      BY <1>1
    <3>2. stream'[Len(stream) + 1].seq = Due + (Len(stream) + 1) - 1
      BY <1>1, <2>1, <2>2 DEF Due
    <3>3. \A i \in 1 .. Len(stream) : stream'[i].seq = Due + i - 1
      BY <1>1, <2>2 DEF StreamInv
    <3>4. \A i \in DOMAIN stream' : stream'[i].seq = Due' + i - 1
      BY <2>2, <2>3, <3>1, <3>2, <3>3
    <3>5. Len(stream') <= sent'
      BY <1>1, <2>2 DEF StreamInv
    <3>6. QED
      BY <3>4, <3>5 DEF StreamInv
  <2>5. stream # <<>> => stream' # <<>> /\ Head(stream') = Head(stream)
    BY <1>1, <2>1
  <2>6. ~HandleCommand
    BY <1>3 DEF HandleCommand, HostSends
  <2>7. QED
    BY <1>2, <2>3, <2>4, <2>5, <2>6
<1>4. CASE HandleCommand /\ stream' = Tail(stream)
  <2>1. /\ stream # <<>> /\ sent' = sent /\ Len(stream') = Len(stream) - 1
        /\ DOMAIN stream' = 1 .. Len(stream) - 1
        /\ \A i \in 1 .. Len(stream) - 1 : stream'[i] = stream[i + 1]
    BY <1>1, <1>4, Popped DEF HandleCommand
  <2>2. Due' = Due + 1
    BY <1>1, <2>1 DEF Due
  <2>3. StreamInv'
    <3>1. \A i \in 1 .. Len(stream) - 1 : i + 1 \in DOMAIN stream
      BY <1>1
    <3>2. \A i \in 1 .. Len(stream) - 1 : stream[i + 1].seq = Due + (i + 1) - 1
      BY <1>1, <3>1 DEF StreamInv
    <3>3. \A i \in DOMAIN stream' : stream'[i].seq = Due' + i - 1
      BY <1>1, <2>1, <2>2, <3>2
    <3>4. Len(stream') <= sent'
      BY <1>1, <2>1 DEF StreamInv
    <3>5. QED
      BY <3>3, <3>4 DEF StreamInv
  <2>4. QED
    BY <1>1, <1>2, <1>4, <2>2, <2>3
<1>5. CASE UNCHANGED <<stream, sent>>
  <2>1. Due' = Due /\ StreamInv'
    BY <1>5 DEF Due, StreamInv
  <2>2. QED
    BY <1>2, <1>5, <2>1
<1>6. HostSends \/ (HandleCommand /\ stream' = Tail(stream)) \/ UNCHANGED <<stream, sent>>
  BY DEF Next, HandleCommand, Reboot, SensorSamples, SensorChecks,
     SensorPeriodElapses, SensorCommand, Tick, vars, hostVars
<1>7. QED
  BY <1>3, <1>4, <1>5, <1>6

\* The outcomes of handling a command, as far as the verdict and the effect go.
LEMMA Outcomes ==
    ASSUME TypeInv, StreamInv, HandleCommand
    PROVE  \E st \in Statuses :
              /\ verdicts' = verdicts \cup {<<Head(stream), st>>}
              /\ \/ /\ st # "OK" /\ UNCHANGED effects
                    /\ UNCHANGED <<have_last_command, last_command_sequence>>
                 \/ /\ st = "OK" /\ Duplicate(Head(stream)) /\ UNCHANGED effects
                    /\ UNCHANGED <<have_last_command, last_command_sequence>>
                 \/ /\ ~Duplicate(Head(stream))
                    /\ have_last_command' = TRUE
                    /\ last_command_sequence' = Head(stream).seq
                    /\ \/ UNCHANGED effects /\ st \in {"FAILED", "INVALID_ARGUMENT"}
                       \/ UNCHANGED effects /\ ~HasEffect(Head(stream))
                       \/ /\ st = "OK"
                          /\ effects' = [effects EXCEPT ![Head(stream).seq] = @ + 1]
<1> DEFINE c == Head(stream)
<1>1. CASE Malformed(c)
  BY <1>1 DEF Malformed, Verdict, Statuses, NoEffect
<1>2. CASE /\ Duplicate(c) /\ Verdict(c, "OK") /\ NoEffect
           /\ UNCHANGED <<have_last_command, last_command_sequence>>
  BY <1>2 DEF Verdict, Statuses, NoEffect
<1>3. CASE /\ ~Duplicate(c) /\ ApplyCommand(c)
           /\ have_last_command' = TRUE /\ last_command_sequence' = c.seq
  <2>1. CASE NoEffect /\ \E st \in {"FAILED", "INVALID_ARGUMENT"} : Verdict(c, st)
    BY <1>3, <2>1 DEF Verdict, Statuses, NoEffect
  <2>2. CASE Accept(c) /\ Verdict(c, "OK")
    BY <1>3, <2>2 DEF Verdict, Statuses, Accept
  <2>3. CASE NoEffect /\ ~HasEffect(c) /\ \E st \in Statuses : Verdict(c, st)
    BY <1>3, <2>3 DEF Verdict, Statuses, NoEffect
  <2>4. QED
    BY <1>3, <2>1, <2>2, <2>3
    DEF ApplyCommand, ForwardToSensor, Statuses, HasEffect, IsSet, IsTrigger
<1>4. QED
  BY <1>1, <1>2, <1>3 DEF HandleCommand

LEMMA HandledOnce ==
    ASSUME TypeInv, DedupInv, HandleCommand
    PROVE  ExecutedInv' /\ AnsweredInv' /\ OkMeansDone'
<1> DEFINE c == Head(stream)
<1>1. /\ stream # <<>> /\ c.seq = Due /\ Due \in Sequences32 /\ Due \in Int
      /\ Due' = Due \/ Due' = Due + 1
      /\ Due' = Due => stream' # <<>> /\ Head(stream') = c
  <2>1. stream # <<>>
    BY DEF HandleCommand
  <2>2. \A s \in Sequences32 : s \in Int
    BY CommandsAssumption DEF CommandsAssumption, Sequences32
  <2>3. QED
    BY <2>1, <2>2, StreamStep DEF DedupInv, Next
<1>2. /\ effects \in [Sequences32 -> Nat] /\ verdicts \subseteq Command \X Statuses
      /\ \A s \in Sequences32 : s \in Int
      /\ have_last_command \in BOOLEAN /\ last_command_sequence \in Int
  BY CommandsAssumption DEF CommandsAssumption, TypeInv, TypeOK, Sequences32
<1>3. PICK st \in Statuses :
        /\ verdicts' = verdicts \cup {<<c, st>>}
        /\ \/ /\ st # "OK" /\ UNCHANGED effects
              /\ UNCHANGED <<have_last_command, last_command_sequence>>
           \/ /\ st = "OK" /\ Duplicate(c) /\ UNCHANGED effects
              /\ UNCHANGED <<have_last_command, last_command_sequence>>
           \/ /\ ~Duplicate(c)
              /\ have_last_command' = TRUE /\ last_command_sequence' = c.seq
              /\ \/ UNCHANGED effects /\ st \in {"FAILED", "INVALID_ARGUMENT"}
                 \/ UNCHANGED effects /\ ~HasEffect(c)
                 \/ st = "OK" /\ effects' = [effects EXCEPT ![c.seq] = @ + 1]
  BY Outcomes DEF DedupInv
<1>4. ~Duplicate(c) => effects[Due] = 0
  BY <1>1, <1>2 DEF DedupInv, ExecutedInv, Duplicate
<1>5. ExecutedInv'
  <2>1. CASE UNCHANGED effects /\ UNCHANGED <<have_last_command, last_command_sequence>>
    BY <1>1, <1>2, <2>1 DEF DedupInv, ExecutedInv
  <2>2. CASE UNCHANGED effects /\ ~Duplicate(c)
    BY <1>1, <1>2, <1>4, <2>2 DEF DedupInv, ExecutedInv, Duplicate
  <2>3. CASE /\ ~Duplicate(c) /\ effects' = [effects EXCEPT ![c.seq] = @ + 1]
             /\ have_last_command' = TRUE /\ last_command_sequence' = c.seq
    <3>1. \A s \in Sequences32 : effects'[s] = IF s = Due THEN 1 ELSE effects[s]
      BY <1>1, <1>2, <1>4, <2>3
    <3>2. QED
      BY <1>1, <1>2, <2>3, <3>1 DEF DedupInv, ExecutedInv, Duplicate
  <2>4. QED
    BY <1>3, <2>1, <2>2, <2>3
<1>6. AnsweredInv'
  <2>1. CASE UNCHANGED <<have_last_command, last_command_sequence>>
    BY <1>1, <1>2, <1>3, <2>1 DEF DedupInv, AnsweredInv
  <2>2. CASE /\ have_last_command' = TRUE /\ last_command_sequence' = c.seq
             /\ \/ ~HasEffect(c)
                \/ st \in {"OK", "FAILED", "INVALID_ARGUMENT"}
    BY <1>1, <1>2, <1>3, <2>2 DEF AnsweredInv
  <2>3. QED
    BY <1>3, <2>1, <2>2
<1>7. OkMeansDone'
  <2>1. \A s \in Sequences32 : effects[s] = 1 => effects'[s] = 1
    BY <1>1, <1>2, <1>3, <1>4
  <2>2. \A v \in verdicts : v[1].seq \in Sequences32
    BY <1>2 DEF Command
  <2>3. ASSUME NEW v \in verdicts', v[2] = "OK", HasEffect(v[1])
        PROVE  \/ effects'[v[1].seq] = 1
               \/ \E w \in verdicts' : w[1] = v[1] /\ w[2] \in {"FAILED", "INVALID_ARGUMENT"}
    <3>1. CASE v \in verdicts
      BY <1>3, <2>1, <2>2, <2>3, <3>1 DEF DedupInv, OkMeansDone
    <3>2. CASE v = <<c, st>> /\ Duplicate(c)
      <4>1. PICK st0 \in {"OK", "FAILED", "INVALID_ARGUMENT"} : <<c, st0>> \in verdicts
        BY <1>1, <1>2, <2>3, <3>2 DEF DedupInv, AnsweredInv, Duplicate
      <4>2. CASE st0 = "OK"
        <5>1. v \in verdicts
          BY <2>3, <3>2, <4>1, <4>2
        <5>2. QED
          BY <3>1, <5>1
      <4>3. CASE st0 # "OK"
        BY <1>3, <3>2, <4>1, <4>3
      <4>4. QED
        BY <4>2, <4>3
    <3>3. CASE v = <<c, st>> /\ ~Duplicate(c)
      <4>1. st = "OK" /\ HasEffect(c)
        BY <2>3, <3>3
      <4>2. effects' = [effects EXCEPT ![c.seq] = @ + 1]
        BY <1>3, <3>3, <4>1
      <4>3. QED
        BY <1>1, <1>2, <1>4, <3>3, <4>2
    <3>4. QED
      BY <1>3, <3>1, <3>2, <3>3
  <2>4. QED
    BY <2>3 DEF OkMeansDone, HasEffect, IsSet, IsTrigger
<1>8. QED
  BY <1>5, <1>6, <1>7

LEMMA DedupStep ==
    ASSUME TypeInv, DedupInv, [Next]_vars
    PROVE  DedupInv'
<1>1. StreamInv'
  BY StreamStep DEF DedupInv
<1>2. CASE HandleCommand
  BY <1>1, <1>2, HandledOnce DEF DedupInv
<1>3. CASE Reboot
  <2>1. \A s \in Sequences32 : effects'[s] = 0
    BY <1>3 DEF Reboot
  <2>2. have_last_command' = FALSE /\ verdicts' = {}
    BY <1>3 DEF Reboot
  <2>3. QED
    BY <1>1, <2>1, <2>2 DEF DedupInv, ExecutedInv, AnsweredInv, OkMeansDone
<1>4. CASE ~HandleCommand /\ UNCHANGED nodeVars
  <2>1. Due' = Due /\ (stream # <<>> => stream' # <<>> /\ Head(stream') = Head(stream))
    BY <1>4, StreamStep DEF DedupInv
  <2>2. ExecutedInv' /\ AnsweredInv' /\ OkMeansDone'
    BY <1>4, <2>1 DEF nodeVars, DedupInv, ExecutedInv, AnsweredInv, OkMeansDone
  <2>3. QED
    BY <1>1, <2>2 DEF DedupInv
<1>5. HandleCommand \/ Reboot \/ UNCHANGED nodeVars
  BY DEF Next, HostSends, SensorSamples, SensorChecks, SensorPeriodElapses,
     SensorCommand, Tick, vars
<1>6. QED
  BY <1>2, <1>3, <1>4, <1>5

LEMMA DedupStart ==
    ASSUME Init
    PROVE  DedupInv
<1>1. StreamInv
  BY NoneQueued DEF Init, StreamInv
<1>2. ExecutedInv /\ AnsweredInv /\ OkMeansDone
  BY DEF Init, ExecutedInv, AnsweredInv, OkMeansDone
<1>3. QED
  BY <1>1, <1>2 DEF DedupInv

LEMMA Deduplicated == Spec => [](TypeInv /\ DedupInv)
<1>1. Init => TypeInv /\ DedupInv
  BY TypeStart, DedupStart
<1>2. TypeInv /\ DedupInv /\ [Next]_vars => (TypeInv /\ DedupInv)'
  BY TypeStep, DedupStep
<1>3. QED
  BY <1>1, <1>2, PTL DEF Spec

\* handle_command(): however often a command is delivered, it takes effect once in
\* a life of the node.
THEOREM ExecutedAtMostOnce == Spec => []AtMostOnce
<1>1. TypeInv /\ DedupInv => AtMostOnce
  BY DEF DedupInv, ExecutedInv, AtMostOnce
<1>2. QED
  BY <1>1, Deduplicated, PTL

\* handle_command(): an OK answers a command that has taken effect, or one that
\* was refused before.
THEOREM OkIsTrue == Spec => []OkMeansDone
<1>1. TypeInv /\ DedupInv => OkMeansDone
  BY DEF DedupInv
<1>2. QED
  BY <1>1, Deduplicated, PTL

-----------------------------------------------------------------------------
(* The sensor's queue *)

QueuedTriggers == {i \in DOMAIN cmd_q : IsTrigger(cmd_q[i])}

\* Handling a command adds it at the end of the queue, or leaves the queue alone.
LEMMA QueueGrows ==
    ASSUME TypeInv, HandleCommand
    PROVE  \/ UNCHANGED <<cmd_q, acceptVars>>
           \/ /\ DOMAIN cmd_q' = 1 .. Len(cmd_q) + 1
              /\ \A i \in 1 .. Len(cmd_q) : cmd_q'[i] = cmd_q[i]
              /\ LET c == cmd_q'[Len(cmd_q) + 1]
                 IN  \/ IsSet(c) /\ last_set' = c.ms /\ triggers' = triggers
                     \/ IsTrigger(c) /\ last_set' = last_set /\ triggers' = triggers + 1
<1> DEFINE c == Head(stream)
<1>1. c \in Command /\ cmd_q \in Seq(Command)
  BY Popped DEF HandleCommand, TypeInv, TypeOK
<1>2. NoEffect \/ (Accept(c) /\ HasEffect(c))
  BY DEF HandleCommand, Malformed, ApplyCommand, ForwardToSensor, HasEffect, IsSet,
     IsTrigger
<1>3. CASE NoEffect
  BY <1>3 DEF NoEffect, acceptVars
<1>4. CASE Accept(c) /\ HasEffect(c)
  <2>1. /\ DOMAIN cmd_q' = 1 .. Len(cmd_q) + 1
        /\ \A i \in 1 .. Len(cmd_q) : cmd_q'[i] = cmd_q[i]
        /\ cmd_q'[Len(cmd_q) + 1] = c
    BY <1>1, <1>4, Pushed DEF Accept, Queued
  <2>2. \/ IsSet(c) /\ last_set' = c.ms /\ triggers' = triggers
        \/ IsTrigger(c) /\ last_set' = last_set /\ triggers' = triggers + 1
    BY <1>4 DEF Accept, HasEffect, IsSet, IsTrigger
  <2>3. QED
    BY <2>1, <2>2
<1>5. QED
  BY <1>2, <1>3, <1>4

\* The sensor thread takes the first command.
LEMMA QueueShrinks ==
    ASSUME TypeInv, SensorCommand
    PROVE  /\ 1 \in DOMAIN cmd_q /\ DOMAIN cmd_q' = 1 .. Len(cmd_q) - 1
           /\ \A i \in 1 .. Len(cmd_q) - 1 : cmd_q'[i] = cmd_q[i + 1]
           /\ UNCHANGED acceptVars
           /\ \/ /\ IsSet(cmd_q[1]) /\ ~IsTrigger(cmd_q[1])
                 /\ period_ms' = cmd_q[1].ms /\ triggered' = triggered
              \/ /\ IsTrigger(cmd_q[1]) /\ ~IsSet(cmd_q[1])
                 /\ period_ms' = period_ms /\ triggered' = triggered + 1
<1>1. cmd_q \in Seq(Command) /\ cmd_q # <<>> /\ cmd_q' = Tail(cmd_q)
  BY DEF TypeInv, TypeOK, SensorCommand
<1>2. /\ Head(cmd_q) = cmd_q[1] /\ 1 \in DOMAIN cmd_q
      /\ DOMAIN cmd_q' = 1 .. Len(cmd_q) - 1
      /\ \A i \in 1 .. Len(cmd_q) - 1 : cmd_q'[i] = cmd_q[i + 1]
  BY <1>1, Popped
<1>3. QED
  BY <1>2 DEF SensorCommand, IsSet, IsTrigger

\* Every other step leaves the queue and the counts alone, or forgets all.
LEMMA QueueRests ==
    ASSUME [Next]_vars
    PROVE  \/ HandleCommand \/ SensorCommand \/ Reboot
           \/ UNCHANGED <<cmd_q, acceptVars, period_ms, triggered>>
BY DEF Next, HostSends, SensorSamples, SensorChecks, SensorPeriodElapses, Tick,
   vars, sensorVars, acceptVars

LEMMA LastWinsStep ==
    ASSUME TypeInv, LastIntervalWins, [Next]_vars
    PROVE  LastIntervalWins'
<1>1. Len(cmd_q) \in Nat /\ DOMAIN cmd_q = 1 .. Len(cmd_q)
  BY DEF TypeInv, TypeOK
<1>2. CASE HandleCommand
  <2>1. CASE UNCHANGED <<cmd_q, acceptVars>>
    BY <1>2, <2>1 DEF LastIntervalWins, HandleCommand, sensorVars, acceptVars
  <2> DEFINE n == Len(cmd_q) + 1
             c == cmd_q'[n]
  <2>2. CASE /\ DOMAIN cmd_q' = 1 .. n
             /\ \A i \in 1 .. Len(cmd_q) : cmd_q'[i] = cmd_q[i]
             /\ IsSet(c) /\ last_set' = c.ms
    <3>1. n \in DOMAIN cmd_q' /\ \A j \in DOMAIN cmd_q' : j <= n
      BY <1>1, <2>2
    <3>2. QED
      BY <2>2, <3>1 DEF LastIntervalWins
  <2>3. CASE /\ DOMAIN cmd_q' = 1 .. n
             /\ \A i \in 1 .. Len(cmd_q) : cmd_q'[i] = cmd_q[i]
             /\ IsTrigger(c) /\ last_set' = last_set
    <3>1. ~IsSet(c) /\ period_ms' = period_ms
      BY <1>2, <2>3 DEF IsSet, IsTrigger, HandleCommand, sensorVars
    <3>2. \A i \in DOMAIN cmd_q' : i \in DOMAIN cmd_q \/ i = n
      BY <1>1, <2>3
    <3>3. \A i \in DOMAIN cmd_q : i \in DOMAIN cmd_q' /\ cmd_q'[i] = cmd_q[i]
      BY <1>1, <2>3
    <3>4. QED
      BY <2>3, <3>1, <3>2, <3>3 DEF LastIntervalWins
  <2>4. QED
    BY <1>2, <2>1, <2>2, <2>3, QueueGrows
<1>3. CASE SensorCommand
  <2>1. \A i \in DOMAIN cmd_q' : i + 1 \in DOMAIN cmd_q /\ cmd_q'[i] = cmd_q[i + 1]
    BY <1>1, <1>3, QueueShrinks
  <2>2. \A i \in DOMAIN cmd_q : i # 1 => i - 1 \in DOMAIN cmd_q' /\ cmd_q'[i - 1] = cmd_q[i]
    BY <1>1, <1>3, QueueShrinks
  <2>3. last_set' = last_set /\ 1 \in DOMAIN cmd_q
    BY <1>3, QueueShrinks DEF acceptVars
  <2>4. CASE last_set = period_ms /\ \A i \in DOMAIN cmd_q : ~IsSet(cmd_q[i])
    BY <1>3, <2>1, <2>3, <2>4, QueueShrinks DEF LastIntervalWins
  <2>5. ASSUME NEW i \in DOMAIN cmd_q, IsSet(cmd_q[i]), last_set = cmd_q[i].ms,
               \A j \in DOMAIN cmd_q : IsSet(cmd_q[j]) => j <= i
        PROVE  LastIntervalWins'
    <3>1. CASE i = 1
      <4>1. period_ms' = last_set
        BY <1>3, <2>5, <3>1, QueueShrinks
      <4>2. \A j \in DOMAIN cmd_q' : ~IsSet(cmd_q'[j])
        BY <1>1, <1>3, <2>1, <2>5, <3>1, QueueShrinks
      <4>3. QED
        BY <2>3, <4>1, <4>2 DEF LastIntervalWins
    <3>2. CASE i # 1
      <4>1. i - 1 \in DOMAIN cmd_q' /\ cmd_q'[i - 1] = cmd_q[i]
        BY <2>2, <3>2
      <4>2. \A j \in DOMAIN cmd_q' : IsSet(cmd_q'[j]) => j <= i - 1
        <5>1. \A j \in DOMAIN cmd_q' : j \in Int
          BY <1>3, <1>1, QueueShrinks
        <5>2. QED
          BY <1>1, <2>1, <2>5, <5>1
      <4>3. QED
        BY <2>3, <2>5, <4>1, <4>2 DEF LastIntervalWins
    <3>3. QED
      BY <3>1, <3>2
  <2>6. QED
    BY <2>4, <2>5 DEF LastIntervalWins
<1>4. CASE Reboot
  BY <1>4, NoneQueued DEF Reboot, LastIntervalWins
<1>5. CASE UNCHANGED <<cmd_q, acceptVars, period_ms, triggered>>
  BY <1>5 DEF LastIntervalWins, acceptVars
<1>6. QED
  BY <1>2, <1>3, <1>4, <1>5, QueueRests

LEMMA TriggersFinite ==
    ASSUME TypeInv
    PROVE  IsFiniteSet(QueuedTriggers) /\ Cardinality(QueuedTriggers) \in Nat
<1>1. DOMAIN cmd_q = 1 .. Len(cmd_q) /\ Len(cmd_q) \in Int
  BY DEF TypeInv, TypeOK
<1>2. IsFiniteSet(1 .. Len(cmd_q))
  BY <1>1, FS_Interval
<1>3. IsFiniteSet(QueuedTriggers)
  BY <1>1, <1>2, FS_Subset DEF QueuedTriggers
<1>4. QED
  BY <1>3, FS_CardinalityType

LEMMA TriggersStep ==
    ASSUME TypeInv, TriggersNotCollapsed, [Next]_vars
    PROVE  TriggersNotCollapsed'
<1>1. /\ Len(cmd_q) \in Nat /\ DOMAIN cmd_q = 1 .. Len(cmd_q)
      /\ triggers \in Nat /\ triggered \in Nat
  BY DEF TypeInv, TypeOK
<1>2. triggers = triggered + Cardinality(QueuedTriggers)
  BY DEF TriggersNotCollapsed, QueuedTriggers
<1>3. SUFFICES triggers' = triggered' + Cardinality(QueuedTriggers')
  BY DEF TriggersNotCollapsed, QueuedTriggers
<1>4. CASE HandleCommand
  <2>0. triggered' = triggered
    BY <1>4 DEF HandleCommand, sensorVars
  <2>1. CASE UNCHANGED <<cmd_q, acceptVars>>
    BY <1>2, <2>0, <2>1 DEF QueuedTriggers, acceptVars
  <2> DEFINE n == Len(cmd_q) + 1
             c == cmd_q'[n]
  <2>2. CASE /\ DOMAIN cmd_q' = 1 .. n
             /\ \A i \in 1 .. Len(cmd_q) : cmd_q'[i] = cmd_q[i]
             /\ IsSet(c) /\ triggers' = triggers
    <3>1. QueuedTriggers' = QueuedTriggers
      BY <1>1, <2>2 DEF QueuedTriggers, IsSet, IsTrigger
    <3>2. QED
      BY <1>2, <2>0, <2>2, <3>1
  <2>3. CASE /\ DOMAIN cmd_q' = 1 .. n
             /\ \A i \in 1 .. Len(cmd_q) : cmd_q'[i] = cmd_q[i]
             /\ IsTrigger(c) /\ triggers' = triggers + 1
    <3>1. QueuedTriggers' = QueuedTriggers \cup {n} /\ n \notin QueuedTriggers
      BY <1>1, <2>3 DEF QueuedTriggers
    <3>2. Cardinality(QueuedTriggers') = Cardinality(QueuedTriggers) + 1
      BY <3>1, TriggersFinite, FS_AddElement
    <3>3. QED
      BY <1>1, <1>2, <2>0, <2>3, <3>2, TriggersFinite
  <2>4. QED
    BY <1>4, <2>1, <2>2, <2>3, QueueGrows DEF acceptVars
<1>5. CASE SensorCommand
  <2> DEFINE rest == QueuedTriggers \ {1}
             shift == [i \in rest |-> i - 1]
  <2>1. \A i : i \in QueuedTriggers' <=> i + 1 \in rest /\ i \in Int
    BY <1>1, <1>5, QueueShrinks DEF QueuedTriggers
  <2>2. shift \in Bijection(rest, QueuedTriggers')
    <3>1. \A i \in rest : i \in Int /\ i - 1 \in QueuedTriggers'
      BY <1>1, <2>1 DEF QueuedTriggers
    <3>2. \A i \in QueuedTriggers' : i + 1 \in rest /\ shift[i + 1] = i
      BY <2>1
    <3>3. QED
      BY <3>1, <3>2 DEF Bijection, Injection, Surjection, IsInjective
  <2>3. ExistsBijection(rest, QueuedTriggers')
    BY <2>2 DEF ExistsBijection
  <2>4. /\ IsFiniteSet(rest)
        /\ Cardinality(rest) = IF 1 \in QueuedTriggers THEN Cardinality(QueuedTriggers) - 1
                               ELSE Cardinality(QueuedTriggers)
    BY TriggersFinite, FS_RemoveElement
  <2>5. Cardinality(QueuedTriggers') = Cardinality(rest)
    BY <2>3, <2>4, FS_Bijection
  <2>6. 1 \in QueuedTriggers <=> IsTrigger(cmd_q[1])
    BY <1>5, QueueShrinks DEF QueuedTriggers
  <2>7. QED
    BY <1>1, <1>2, <1>5, <2>4, <2>5, <2>6, QueueShrinks, TriggersFinite DEF acceptVars
<1>6. CASE Reboot
  <2>1. QueuedTriggers' = {}
    BY <1>6, NoneQueued DEF Reboot, QueuedTriggers
  <2>2. QED
    BY <1>6, <2>1, FS_EmptySet DEF Reboot
<1>7. CASE UNCHANGED <<cmd_q, acceptVars, period_ms, triggered>>
  BY <1>2, <1>7 DEF QueuedTriggers, acceptVars
<1>8. QED
  BY <1>4, <1>5, <1>6, <1>7, QueueRests

LEMMA QueueStart ==
    ASSUME Init
    PROVE  LastIntervalWins /\ TriggersNotCollapsed
<1>1. \A i \in DOMAIN cmd_q : FALSE
  BY NoneQueued DEF Init
<1>2. {i \in DOMAIN cmd_q : IsTrigger(cmd_q[i])} = {}
  BY <1>1
<1>3. QED
  BY <1>1, <1>2, FS_EmptySet DEF Init, LastIntervalWins, TriggersNotCollapsed

LEMMA QueueKept == Spec => [](TypeInv /\ LastIntervalWins /\ TriggersNotCollapsed)
<1>1. Init => TypeInv /\ LastIntervalWins /\ TriggersNotCollapsed
  BY TypeStart, QueueStart
<1>2. TypeInv /\ LastIntervalWins /\ TriggersNotCollapsed /\ [Next]_vars
        => (TypeInv /\ LastIntervalWins /\ TriggersNotCollapsed)'
  BY TypeStep, LastWinsStep, TriggersStep
<1>3. QED
  BY <1>1, <1>2, PTL DEF Spec

\* No accepted set_interval is lost or overtaken by an earlier one.
THEOREM LastIntervalIsKept == Spec => []LastIntervalWins
BY QueueKept, PTL

\* Accepted triggers and the samples taken for them are equally many, but for
\* those that wait in the queue.
THEOREM TriggersAreKept == Spec => []TriggersNotCollapsed
BY QueueKept, PTL

-----------------------------------------------------------------------------
(* The cadence *)

\* No wait goes on beyond the interval that was acknowledged last.
THEOREM IntervalIsHonoured == Spec => []IntervalHonoured
<1>1. TypeInv /\ LastIntervalWins => IntervalHonoured
  <2> SUFFICES ASSUME TypeInv, LastIntervalWins, pc = "wait", cmd_q = <<>>
               PROVE  since <= last_set
    BY DEF IntervalHonoured
  <2>1. since + left = period_ms /\ since \in Nat /\ left \in Nat
    BY CommandsAssumption DEF CommandsAssumption, TypeInv, TypeOK, ClockInv
  <2>2. last_set = period_ms
    BY NoneQueued DEF LastIntervalWins
  <2>3. QED
    BY <2>1, <2>2
<1>2. QED
  BY <1>1, QueueKept, PTL

\* A sample that no trigger asked for is a whole period after the one before.
THEOREM CadenceIsKept == Spec => SamplesNotSqueezed
<1>1. TypeInv /\ [Next]_vars
        => [pc # "sample" /\ pc' = "sample" /\ triggered' = triggered
              => boots' # boots \/ since >= period_ms]_vars
  <2> SUFFICES ASSUME TypeInv, [Next]_vars, pc # "sample", pc' = "sample",
                      triggered' = triggered, boots' = boots
               PROVE  since >= period_ms
    OBVIOUS
  <2>1. /\ age \in Int /\ left \in Int /\ period_ms \in Int /\ since = age
        /\ pc = "wait" => age + left = period_ms
        /\ triggered \in Nat /\ boots \in Nat
    BY CommandsAssumption DEF CommandsAssumption, TypeInv, TypeOK, ClockInv
  <2>2. CASE SensorChecks
    BY <2>1, <2>2 DEF SensorChecks, Left
  <2>3. CASE SensorPeriodElapses
    BY <2>1, <2>3 DEF SensorPeriodElapses
  <2>4. QED
    BY <2>1, <2>2, <2>3
    DEF Next, HostSends, Reboot, HandleCommand, SensorSamples, SensorCommand, Tick,
        vars, sensorVars
<1>2. Spec => []TypeInv
  BY Deduplicated, PTL
<1>3. QED
  BY <1>1, <1>2, PTL DEF Spec, SamplesNotSqueezed
=============================================================================
