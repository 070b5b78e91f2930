----------------------------- MODULE RoundTrip -----------------------------
(***************************************************************************)
(* What the gateway's relay promises of a command (gateway/src/relay.h:    *)
(* 86-104), without threads, channels, semaphores or buffers.              *)
(*                                                                         *)
(* Commands are seen in the order of their numbers, and each is accepted   *)
(* or refused.  Accepted ones are worked off one at a time, in that order. *)
(* The command in hand is executed at most once; its turn ends when it has *)
(* been executed or when the relay gives it up, and the relay gives up     *)
(* none on which the host has the peer's word.  The host may be told a     *)
(* verdict more than once, or never, but it is told the truth:             *)
(* <<c, "peer">> if c was executed and not given up, <<c, "relay">> if it  *)
(* was given up, <<c, "main">> if it was refused.                          *)
(*                                                                         *)
(* Relay implements this when no Ack comes late.                           *)
(***************************************************************************)
EXTENDS Naturals, Sequences

CONSTANT NCmds  \* the commands are 1..NCmds

VARIABLES
    seen,      \* how many commands have been accepted or refused
    waiting,   \* those that were accepted and not begun
    current,   \* the one in hand, or 0
    executed,  \* those the peer has taken up
    gave_up,   \* those the relay gave up
    told       \* the verdicts the host has been told

vars == <<seen, waiting, current, executed, gave_up, told>>

Init ==
    /\ seen = 0 /\ waiting = <<>> /\ current = 0
    /\ executed = {} /\ gave_up = {} /\ told = {}

Accept ==
    /\ seen < NCmds
    /\ seen' = seen + 1
    /\ waiting' = Append(waiting, seen + 1)
    /\ UNCHANGED <<current, executed, gave_up, told>>

Refuse ==
    /\ seen < NCmds
    /\ seen' = seen + 1
    /\ told' \in {told, told \cup {<<seen + 1, "main">>}}
    /\ UNCHANGED <<waiting, current, executed, gave_up>>

Begin ==
    /\ current = 0
    /\ waiting # <<>>
    /\ current' = Head(waiting)
    /\ waiting' = Tail(waiting)
    /\ UNCHANGED <<seen, executed, gave_up, told>>

Execute ==
    /\ current # 0
    /\ current \notin executed
    /\ executed' = executed \cup {current}
    /\ UNCHANGED <<seen, waiting, current, gave_up, told>>

Complete ==
    /\ current \in executed
    /\ current' = 0
    /\ UNCHANGED <<seen, waiting, executed, gave_up, told>>

GiveUp ==
    /\ current # 0
    /\ <<current, "peer">> \notin told
    /\ gave_up' = gave_up \cup {current}
    /\ current' = 0
    /\ UNCHANGED <<seen, waiting, executed, told>>

TellPeers(c) ==
    /\ c \in executed \ gave_up
    /\ told' = told \cup {<<c, "peer">>}
    /\ UNCHANGED <<seen, waiting, current, executed, gave_up>>

TellOwn(c) ==
    /\ c \in gave_up
    /\ told' = told \cup {<<c, "relay">>}
    /\ UNCHANGED <<seen, waiting, current, executed, gave_up>>

Next ==
    \/ Accept \/ Refuse \/ Begin \/ Execute \/ Complete \/ GiveUp
    \/ \E c \in 1 .. NCmds : TellPeers(c) \/ TellOwn(c)

Spec == Init /\ [][Next]_vars
=============================================================================
