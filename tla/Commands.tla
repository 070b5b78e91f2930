------------------------------ MODULE Commands ------------------------------
(***************************************************************************)
(* What a node does with a command: handle_command() with its duplicate    *)
(* suppression (shared/commands.cpp), the validated channel to the sensor  *)
(* thread (shared/app_channels.h) and the sensor thread's loop             *)
(* (gateway/src/sensor.cpp; peer-node/src/sensor.cpp has the same one).    *)
(* The same file is compiled into both nodes.                              *)
(*                                                                         *)
(* Delivery is QoS 1: the command at the head of the host's stream may be  *)
(* delivered again any number of times, up to MaxDups in all, before the   *)
(* next one is; the host that repeats a command after reading its Ack is   *)
(* the same thing.                                                         *)
(*                                                                         *)
(* Time passes in ticks, and only while the sensor thread waits: what it   *)
(* does between two waits takes less than a tick.                          *)
(***************************************************************************)
EXTENDS Integers, Sequences, FiniteSets

CONSTANTS
    NCmds,      \* the host's commands carry the sequences 0 .. NCmds - 1
    MaxDups,    \* bound: deliveries beyond the first
    MaxBoots,   \* bound: restarts of the node
    Intervals,  \* the intervals a set_interval may ask for
    MinPeriod, MaxPeriod, DefaultPeriod,  \* SAMPLE_PERIOD_*_MS
    PoolSlots   \* CONFIG_ZBUS_MSG_SUBSCRIBER_NET_BUF_POOL_SIZE

ASSUME CommandsAssumption ==
    /\ NCmds \in Nat /\ MaxDups \in Nat /\ MaxBoots \in Nat
    /\ PoolSlots \in Nat
    /\ Intervals \subseteq Nat
    /\ MinPeriod \in Nat \ {0} /\ MaxPeriod \in Nat
    /\ DefaultPeriod \in MinPeriod .. MaxPeriod

VARIABLES
    sent, stream, dups, boots,  \* the host and the broker; the bounds
    have_last_command, last_command_sequence,
    cmd_q,      \* the FIFO of sensor_cmd_sub
    \* The sensor thread:
    pc,         \* "sample", "check" or "wait"
    period_ms,
    age,        \* now - last_sample
    left,       \* what is left of the timeout of zbus_sub_wait_msg()
    \* History, since the node booted:
    verdicts,   \* the Acks given: <<command, status>>
    effects,    \* how often each sequence reached the sensor's queue
    last_set,   \* the interval accepted last
    triggers, triggered,  \* triggers accepted, and samples taken for them
    since       \* how long ago the last sample was taken

hostVars == <<sent, stream, dups, boots>>
nodeVars == <<have_last_command, last_command_sequence, verdicts, effects>>
acceptVars == <<last_set, triggers>>
timeVars == <<age, left, since>>
sensorVars == <<pc, period_ms, triggered, timeVars>>
vars == <<hostVars, nodeVars, cmd_q, acceptVars, sensorVars>>

Sequences32 == 0 .. NCmds - 1

\* The oneof of node.proto: only set_interval carries data.  What decode_command()
\* refuses is "malformed": too large, or no Command.
Kinds == {"trigger_measurement", "get_device_info", "other", "malformed"}
Payloads == {[kind |-> k, ms |-> 0] : k \in Kinds}
            \cup {[kind |-> "set_interval", ms |-> i] : i \in Intervals}

Init ==
    /\ sent = 0 /\ stream = <<>> /\ dups = 0 /\ boots = 0
    /\ have_last_command = FALSE /\ last_command_sequence = 0
    /\ cmd_q = <<>> /\ pc = "sample" /\ period_ms = DefaultPeriod
    /\ verdicts = {} /\ effects = [s \in Sequences32 |-> 0]
    /\ last_set = DefaultPeriod /\ triggers = 0 /\ triggered = 0
    /\ age = 0 /\ left = 0 /\ since = 0

-----------------------------------------------------------------------------
(* The host and the node's restarts *)

HostSends ==
    /\ sent < NCmds
    /\ \E p \in Payloads :
          stream' = Append(stream, [seq |-> sent, kind |-> p.kind, ms |-> p.ms])
    /\ sent' = sent + 1
    /\ UNCHANGED <<dups, boots, nodeVars, cmd_q, acceptVars, sensorVars>>

\* Everything the node knows is in RAM.
Reboot ==
    /\ boots < MaxBoots
    /\ boots' = boots + 1
    /\ have_last_command' = FALSE /\ last_command_sequence' = 0
    /\ cmd_q' = <<>> /\ pc' = "sample" /\ period_ms' = DefaultPeriod
    /\ verdicts' = {} /\ effects' = [s \in Sequences32 |-> 0]
    /\ last_set' = DefaultPeriod /\ triggers' = 0 /\ triggered' = 0
    /\ age' = 0 /\ left' = 0 /\ since' = 0
    /\ UNCHANGED <<sent, stream, dups>>

-----------------------------------------------------------------------------
(* zbus_chan_pub() on chan_sensor_cmd *)

\* sensor_cmd_in_range()
\* Fault: the lower bound is not compared.
InRange_UpperOnly(c) == c.kind = "set_interval" => c.ms <= MaxPeriod
InRange(c) ==
    c.kind = "set_interval" => MinPeriod <= c.ms /\ c.ms <= MaxPeriod

\* One slot for the publication and one for the copy the subscriber keeps.
RoomInPool == Len(cmd_q) + 2 <= PoolSlots

\* Fault: the newest command is taken first.
Queued_Lifo(c) == <<c>> \o cmd_q
\* Fault: only the newest command waits, as on a latest-wins channel.
Queued_Latest(c) == <<c>>
Queued(c) == Append(cmd_q, c)

\* A command is accepted: it waits for the sensor thread.
Accept(c) ==
    /\ cmd_q' = Queued(c)
    /\ effects' = [effects EXCEPT ![c.seq] = @ + 1]
    /\ IF c.kind = "set_interval" THEN last_set' = c.ms /\ UNCHANGED triggers
       ELSE triggers' = triggers + 1 /\ UNCHANGED last_set

Verdict(c, status) == verdicts' = verdicts \cup {<<c, status>>}
NoEffect == UNCHANGED <<cmd_q, effects, last_set, triggers>>

\* forward_to_sensor(): -ENOMSG, 0, and any other result.
ForwardToSensor(c) ==
    \/ ~InRange(c) /\ NoEffect /\ Verdict(c, "INVALID_ARGUMENT")
    \/ InRange(c) /\ RoomInPool /\ Accept(c) /\ Verdict(c, "OK")
    \/ InRange(c) /\ ~RoomInPool /\ NoEffect /\ Verdict(c, "FAILED")

\* apply_command()
ApplyCommand(c) ==
    \/ c.kind \in {"set_interval", "trigger_measurement"} /\ ForwardToSensor(c)
    \/ c.kind = "get_device_info" /\ NoEffect /\ Verdict(c, "OK")
    \/ c.kind = "other" /\ NoEffect /\ Verdict(c, "UNSUPPORTED")

\* Fault: sequence 0 stands for "no command yet".
Duplicate_NoFlag(c) == c.seq = last_command_sequence
\* Fault: duplicates are executed.
Duplicate_Never(c) == FALSE
Duplicate(c) == have_last_command /\ c.seq = last_command_sequence

\* The caller decodes the payload first: what is no command has no sequence, and
\* is answered with 0.
Malformed(c) ==
    /\ c.kind = "malformed"
    /\ Verdict(c, "MALFORMED")
    /\ NoEffect
    /\ UNCHANGED <<have_last_command, last_command_sequence>>

\* handle_command() for the command at the head of the stream, which stays
\* there if it is to be delivered once more.
HandleCommand ==
    /\ stream # <<>>
    /\ LET c == Head(stream)
       IN  \/ Malformed(c)
           \/ /\ c.kind # "malformed" /\ Duplicate(c)
              /\ Verdict(c, "OK")
              /\ NoEffect
              /\ UNCHANGED <<have_last_command, last_command_sequence>>
           \/ /\ c.kind # "malformed" /\ ~Duplicate(c)
              /\ ApplyCommand(c)
              /\ have_last_command' = TRUE
              /\ last_command_sequence' = c.seq
    /\ \/ stream' = Tail(stream) /\ UNCHANGED dups
       \/ dups < MaxDups /\ dups' = dups + 1 /\ UNCHANGED stream
    /\ UNCHANGED <<sent, boots, sensorVars>>

-----------------------------------------------------------------------------
(* sensor_thread *)

\* Fault: the samples keep to a grid of whole periods.
Rebased_OnGrid == age % period_ms
Rebased == 0

\* The reading is taken and published, and last_sample is now.
SensorSamples ==
    /\ pc = "sample"
    /\ age' = Rebased /\ since' = 0
    /\ pc' = "check"
    /\ UNCHANGED <<hostVars, nodeVars, cmd_q, acceptVars, period_ms, triggered,
                   left>>

\* left = (last_sample + period_ms) - now
\* Fault: the wait goes on with what was left of it.
Left_Rest == IF age = 0 THEN period_ms ELSE left
Left == period_ms - age

\* The period is over, or the thread waits for what is left of it.
SensorChecks ==
    /\ pc = "check"
    /\ IF Left <= 0 THEN pc' = "sample" /\ UNCHANGED left
       ELSE pc' = "wait" /\ left' = Left
    /\ UNCHANGED <<hostVars, nodeVars, cmd_q, acceptVars, period_ms, triggered,
                   age, since>>

\* zbus_sub_wait_msg() times out ...
SensorPeriodElapses ==
    /\ pc = "wait" /\ left = 0
    /\ pc' = "sample"
    /\ UNCHANGED <<hostVars, nodeVars, cmd_q, acceptVars, period_ms, triggered,
                   timeVars>>

\* ... or returns a command.
SensorCommand ==
    /\ pc = "wait"
    /\ cmd_q # <<>>
    /\ cmd_q' = Tail(cmd_q)
    /\ \/ /\ Head(cmd_q).kind = "set_interval"
          /\ period_ms' = Head(cmd_q).ms
          /\ pc' = "check"
          /\ UNCHANGED triggered
       \/ /\ Head(cmd_q).kind = "trigger_measurement"
          /\ triggered' = triggered + 1
          /\ pc' = "sample"
          /\ UNCHANGED period_ms
    /\ UNCHANGED <<hostVars, nodeVars, acceptVars, timeVars>>

Tick ==
    /\ pc = "wait" /\ cmd_q = <<>> /\ left > 0
    /\ left' = left - 1 /\ age' = age + 1 /\ since' = since + 1
    /\ UNCHANGED <<hostVars, nodeVars, cmd_q, acceptVars, pc, period_ms,
                   triggered>>

-----------------------------------------------------------------------------
Next == \/ HostSends \/ Reboot \/ HandleCommand
        \/ SensorSamples \/ SensorChecks \/ SensorPeriodElapses
        \/ SensorCommand \/ Tick

Spec == Init /\ [][Next]_vars

-----------------------------------------------------------------------------
(* Properties *)

IsSet(c)     == c.kind = "set_interval"
IsTrigger(c) == c.kind = "trigger_measurement"
HasEffect(c) == IsSet(c) \/ IsTrigger(c)

Command == [seq : Sequences32, kind : Kinds \cup {"set_interval"}, ms : Nat]

TypeOK ==
    /\ sent \in 0 .. NCmds
    /\ stream \in Seq(Command) /\ cmd_q \in Seq(Command)
    /\ dups \in 0 .. MaxDups /\ boots \in 0 .. MaxBoots
    /\ have_last_command \in BOOLEAN
    /\ last_command_sequence \in Sequences32 \cup {0}
    /\ Len(cmd_q) < PoolSlots \/ cmd_q = <<>>
    /\ pc \in {"sample", "check", "wait"}
    /\ period_ms \in MinPeriod .. MaxPeriod
    /\ last_set \in MinPeriod .. MaxPeriod
    /\ effects \in [Sequences32 -> Nat]
    /\ triggers \in Nat /\ triggered \in Nat
    /\ age \in 0 .. MaxPeriod /\ left \in 0 .. MaxPeriod /\ since \in 0 .. MaxPeriod

\* commands.cpp:18-20: a redelivered command is not executed twice, in one life
\* of the node.
AtMostOnce == \A s \in Sequences32 : effects[s] <= 1

\* sensor.cpp:169-172 and 234-237: no accepted interval is lost or overtaken.
\* Once the sensor thread has emptied its queue, the period is the interval the
\* node acknowledged last.
LastIntervalWins ==
    \/ /\ last_set = period_ms
       /\ \A i \in DOMAIN cmd_q : ~IsSet(cmd_q[i])
    \/ \E i \in DOMAIN cmd_q :
          /\ IsSet(cmd_q[i]) /\ last_set = cmd_q[i].ms
          /\ \A j \in DOMAIN cmd_q : IsSet(cmd_q[j]) => j <= i

\* Every accepted trigger gets a sample of its own: none is collapsed with
\* another one, or with a set_interval.
TriggersNotCollapsed ==
    triggers = triggered + Cardinality({i \in DOMAIN cmd_q : IsTrigger(cmd_q[i])})

\* sensor.cpp:200-203: a shortened interval takes effect at once.  Whatever the
\* wait in progress was begun with, no sample is further away than the interval
\* the node acknowledged last.
IntervalHonoured == pc = "wait" /\ cmd_q = <<>> => since <= last_set

\* sensor.cpp:155-156: a trigger shifts the following samples rather than
\* squeezing one in.  A sample nobody asked for comes a whole period after the
\* one before it.
SamplesNotSqueezed ==
    [][pc # "sample" /\ pc' = "sample" /\ triggered' = triggered
        => boots' # boots \/ since >= period_ms]_vars

\* An OK is true: the command it answers has reached the sensor's queue, unless
\* the node had refused the command before and takes this for a repeat.
OkMeansDone ==
    \A v \in verdicts : v[2] = "OK" /\ HasEffect(v[1])
        => \/ effects[v[1].seq] = 1
           \/ \E w \in verdicts : w[1] = v[1] /\ w[2] \in {"FAILED", "INVALID_ARGUMENT"}

\* mqtt-design.md:57: the host owns the retry, and duplicate suppression makes a
\* repeat safe.  A command that failed and is answered OK when it is repeated
\* has taken effect.
RetryIsSafe ==
    \A v, w \in verdicts : v[1] = w[1] /\ v[2] = "FAILED" /\ w[2] = "OK"
        => effects[v[1].seq] = 1
=============================================================================
