--------------------------- MODULE SessionsProofs ---------------------------
(***************************************************************************)
(* What the broker is told about the nodes, for any pace of the retries,   *)
(* any number of faults and power cuts of the gateway, and a broker that   *)
(* may be any number of packets behind.                                    *)
(***************************************************************************)
EXTENDS Sessions, SequenceTheorems, WellFoundedInduction, TLAPS

-----------------------------------------------------------------------------
(* What a connection carries *)

\* Nothing but statuses.
Spoken(q) == \A i \in 1 .. Len(q) : q[i] \in Statuses

\* Between two connections lies the end of the first.
Separate(q) ==
    \A i, j \in 1 .. Len(q) :
        i < j /\ q[i] = "connect" /\ q[j] = "connect" =>
            \E k \in i .. j : q[k] \in Ends

\* What the broker has still to take from a session: `open` when the session
\* has a connection nobody cut, `heard` when it had, or is about to read, its
\* CONNACK, `known` when the broker has a connection of this client.
Good(q, open, heard, known) ==
    /\ q \in Seq(Packets)
    /\ open => Spoken(q) \/ (q # <<>> /\ q[Len(q)] = "connect")
    /\ ~open => q = <<>> \/ q[Len(q)] \in Ends
    /\ Separate(q)
    /\ open /\ heard => known /\ Spoken(q)
    /\ \A i \in 1 .. Len(q) :
         q[i] \in Statuses => known /\ \A j \in 1 .. i : q[j] \in Statuses

LEMMA Nothing ==
    ASSUME NEW open \in BOOLEAN, NEW heard \in BOOLEAN, NEW known \in BOOLEAN, open /\ heard => known
    PROVE  Good(<<>>, open, heard, known)
<1> DEFINE q == <<>>
<1>1. q \in Seq(Packets) /\ Len(q) = 0 /\ q = <<>>
  OBVIOUS
<1> HIDE DEF q
<1>2. \A i \in 1 .. Len(q) : FALSE
  BY <1>1
<1>3. Spoken(q) /\ Separate(q)
  BY <1>2 DEF Spoken, Separate
<1>4. QED
  BY <1>1, <1>2, <1>3 DEF Good, q

LEMMA Added ==
    ASSUME NEW q \in Seq(Packets), NEW p \in Packets
    PROVE  /\ Append(q, p) \in Seq(Packets) /\ Append(q, p) # <<>>
           /\ Len(Append(q, p)) = Len(q) + 1 /\ Len(q) \in Nat
           /\ \A i \in 1 .. Len(q) : Append(q, p)[i] = q[i]
           /\ Append(q, p)[Len(q) + 1] = p
OBVIOUS

LEMMA Kinds ==
    /\ "connect" \in Packets /\ "connect" \notin Ends \cup Statuses
    /\ Ends \subseteq Packets /\ Statuses \subseteq Packets
    /\ Ends \cap Statuses = {}
    /\ "cut" \in Ends /\ "disconnect" \in Ends
    /\ "online" \in Statuses /\ "offline" \in Statuses
BY DEF Packets, Ends, Statuses

LEMMA GoodConnects ==
    ASSUME NEW q, NEW open \in BOOLEAN, NEW heard \in BOOLEAN, NEW known \in BOOLEAN,
           Good(q, open, heard, known), ~open
    PROVE  Good(Append(q, "connect"), TRUE, FALSE, known)
<1> DEFINE r == Append(q, "connect")
<1>1. /\ q \in Seq(Packets) /\ r \in Seq(Packets) /\ r # <<>>
      /\ Len(r) = Len(q) + 1 /\ Len(q) \in Nat
      /\ \A i \in 1 .. Len(q) : r[i] = q[i]
      /\ r[Len(q) + 1] = "connect"
  BY Kinds, Added DEF Good
<1>2. Separate(r)
  <2> SUFFICES ASSUME NEW i \in 1 .. Len(r), NEW j \in 1 .. Len(r),
                      i < j, r[i] = "connect", r[j] = "connect"
               PROVE  \E k \in i .. j : r[k] \in Ends
    BY DEF Separate
  <2>1. CASE j \in 1 .. Len(q)
    <3>1. i \in 1 .. Len(q) /\ q[i] = "connect" /\ q[j] = "connect"
      BY <1>1, <2>1
    <3>2. PICK k \in i .. j : q[k] \in Ends
      BY <2>1, <3>1 DEF Good, Separate
    <3>3. QED
      BY <1>1, <2>1, <3>1, <3>2
  <2>2. CASE j = Len(q) + 1
    <3>1. Len(q) \in i .. j /\ Len(q) \in 1 .. Len(q) /\ q # <<>>
      BY <1>1, <2>2
    <3>2. QED
      BY <1>1, <3>1 DEF Good
  <2>3. QED
    BY <1>1, <2>1, <2>2
<1>3. \A i \in 1 .. Len(r) : r[i] \in Statuses =>
          known /\ \A j \in 1 .. i : r[j] \in Statuses
  BY <1>1, Kinds DEF Good
<1>4. QED
  BY <1>1, <1>2, <1>3 DEF Good

\* Any part of what was sent, then the end of the connection.
LEMMA GoodEnds ==
    ASSUME NEW q, NEW open \in BOOLEAN, NEW heard \in BOOLEAN, NEW known \in BOOLEAN, NEW after \in BOOLEAN,
           Good(q, open, heard, known), NEW k \in 0 .. Len(q), NEW p \in Ends
    PROVE  Good(Append(SubSeq(q, 1, k), p), FALSE, after, known)
<1> DEFINE h == SubSeq(q, 1, k)
           r == Append(h, p)
<1>1. /\ q \in Seq(Packets) /\ Len(q) \in Nat /\ h \in Seq(Packets)
      /\ Len(h) = k /\ k \in Nat
      /\ \A i \in 1 .. k : h[i] = q[i] /\ i \in 1 .. Len(q)
  BY DEF Good
<1>2. /\ r \in Seq(Packets) /\ r # <<>> /\ Len(r) = k + 1
      /\ \A i \in 1 .. k : r[i] = q[i] /\ i \in 1 .. Len(q)
      /\ r[k + 1] = p
  <2>1. p \in Packets
    BY Kinds
  <2>2. /\ r \in Seq(Packets) /\ r # <<>> /\ Len(r) = Len(h) + 1
        /\ \A i \in 1 .. Len(h) : r[i] = h[i]
        /\ r[Len(h) + 1] = p
    BY <1>1, <2>1, Added
  <2>3. QED
    BY <1>1, <2>2
<1> HIDE DEF h, r
<1>3. Separate(r)
  <2> SUFFICES ASSUME NEW i \in 1 .. Len(r), NEW j \in 1 .. Len(r),
                      i < j, r[i] = "connect", r[j] = "connect"
               PROVE  \E l \in i .. j : r[l] \in Ends
    BY DEF Separate
  <2>1. i \in 1 .. k /\ j \in 1 .. k
    BY <1>1, <1>2, Kinds
  <2>2. PICK l \in i .. j : q[l] \in Ends
    BY <1>2, <2>1 DEF Good, Separate
  <2>3. QED
    BY <1>1, <1>2, <2>1, <2>2
<1>4. ASSUME NEW i \in 1 .. Len(r), r[i] \in Statuses
      PROVE  known /\ \A j \in 1 .. i : r[j] \in Statuses
  <2>1. i \in 1 .. k /\ q[i] \in Statuses
    BY <1>1, <1>2, <1>4, Kinds
  <2>2. known /\ \A j \in 1 .. i : q[j] \in Statuses
    BY <1>2, <2>1 DEF Good
  <2>3. QED
    BY <1>1, <1>2, <2>1, <2>2
<1>5. r # <<>> /\ r[Len(r)] \in Ends
  BY <1>1, <1>2
<1>6. QED
  BY <1>2, <1>3, <1>4, <1>5 DEF Good, r, h

LEMMA GoodCloses ==
    ASSUME NEW q, NEW open \in BOOLEAN, NEW heard \in BOOLEAN, NEW known \in BOOLEAN, NEW after \in BOOLEAN,
           Good(q, open, heard, known), NEW p \in Ends
    PROVE  Good(Append(q, p), FALSE, after, known)
<1>1. q \in Seq(Packets) /\ Len(q) \in 0 .. Len(q) /\ SubSeq(q, 1, Len(q)) = q
  BY DEF Good
<1>2. QED
  BY <1>1, GoodEnds

LEMMA GoodCut ==
    ASSUME NEW q, NEW open \in BOOLEAN, NEW heard \in BOOLEAN, NEW known \in BOOLEAN, NEW after \in BOOLEAN,
           Good(q, open, heard, known), NEW r \in CutShort(q)
    PROVE  Good(r, FALSE, after, known)
<1>1. PICK k \in 0 .. Len(q) : r = Append(SubSeq(q, 1, k), "cut")
  BY DEF CutShort
<1>2. "cut" \in Ends
  BY Kinds
<1>3. Good(Append(SubSeq(q, 1, k), "cut"), FALSE, after, known)
  BY <1>2, GoodEnds
<1>4. QED
  BY <1>1, <1>3

\* A status goes out only where nothing else is under way.
LEMMA GoodSpeaks ==
    ASSUME NEW q, NEW known \in BOOLEAN, NEW heard \in BOOLEAN,
           NEW after \in BOOLEAN,
           Good(q, TRUE, heard, known), heard, NEW p \in Statuses
    PROVE  Good(Append(q, p), TRUE, after, known)
<1> DEFINE r == Append(q, p)
<1>1. /\ q \in Seq(Packets) /\ r \in Seq(Packets) /\ r # <<>>
      /\ Len(r) = Len(q) + 1 /\ Len(q) \in Nat
      /\ \A i \in 1 .. Len(q) : r[i] = q[i]
      /\ r[Len(q) + 1] = p
  BY Kinds, Added DEF Good
<1> HIDE DEF r
<1>2. known /\ Spoken(q)
  BY DEF Good
<1>3. Spoken(r)
  BY <1>1, <1>2 DEF Spoken
<1>4. Separate(r)
  BY <1>3, Kinds DEF Spoken, Separate
<1>5. \A i \in 1 .. Len(r) : known /\ \A j \in 1 .. i : r[j] \in Statuses
  BY <1>1, <1>2, <1>3 DEF Spoken
<1>6. QED
  BY <1>1, <1>2, <1>3, <1>4, <1>5 DEF Good, r

LEMMA GoodForgets ==
    ASSUME NEW q, NEW open \in BOOLEAN, NEW heard \in BOOLEAN,
           NEW known \in BOOLEAN, NEW after \in BOOLEAN,
           Good(q, open, heard, known), open /\ after => heard
    PROVE  Good(q, open, after, known)
BY DEF Good

LEMMA Taken ==
    ASSUME NEW q \in Seq(Packets), q # <<>>
    PROVE  /\ Tail(q) \in Seq(Packets) /\ Head(q) = q[1] /\ Len(q) \in Nat \ {0}
           /\ Len(Tail(q)) = Len(q) - 1
           /\ \A i \in 1 .. Len(q) - 1 : Tail(q)[i] = q[i + 1]
OBVIOUS

\* The broker takes one packet.
LEMMA GoodTakes ==
    ASSUME NEW q, NEW open \in BOOLEAN, NEW heard \in BOOLEAN,
           NEW known \in BOOLEAN, NEW after \in BOOLEAN, NEW knows \in BOOLEAN,
           Good(q, open, heard, known), q # <<>>,
           Head(q) \in Statuses => (after = heard /\ knows = known),
           Head(q) \in Ends => after = heard,
           Head(q) = "connect" /\ open /\ after =>
               heard \/ (knows /\ \A i \in 2 .. Len(q) : q[i] \notin Ends)
    PROVE  Good(Tail(q), open, after, knows)
<1> DEFINE r == Tail(q)
<1>1. /\ q \in Seq(Packets) /\ r \in Seq(Packets) /\ Head(q) = q[1]
      /\ Len(q) \in Nat \ {0} /\ Len(r) = Len(q) - 1
      /\ \A i \in 1 .. Len(r) : r[i] = q[i + 1] /\ i + 1 \in 1 .. Len(q)
      /\ q[1] \in Packets
  <2>1. q \in Seq(Packets)
    BY DEF Good
  <2>2. /\ r \in Seq(Packets) /\ Head(q) = q[1] /\ Len(q) \in Nat \ {0}
        /\ Len(r) = Len(q) - 1
        /\ \A i \in 1 .. Len(q) - 1 : r[i] = q[i + 1]
    BY <2>1, Taken
  <2>3. QED
    BY <2>1, <2>2
<1> HIDE DEF r
<1>2. Separate(r)
  <2> SUFFICES ASSUME NEW i \in 1 .. Len(r), NEW j \in 1 .. Len(r),
                      i < j, r[i] = "connect", r[j] = "connect"
               PROVE  \E k \in i .. j : r[k] \in Ends
    BY DEF Separate
  <2>0. /\ i + 1 \in 1 .. Len(q) /\ j + 1 \in 1 .. Len(q) /\ i + 1 < j + 1
        /\ q[i + 1] = "connect" /\ q[j + 1] = "connect"
    BY <1>1
  <2>1. PICK k \in i + 1 .. j + 1 : q[k] \in Ends
    BY <2>0 DEF Good, Separate
  <2>2. k - 1 \in i .. j /\ k - 1 \in 1 .. Len(r) /\ r[k - 1] = q[k]
    BY <1>1, <2>1
  <2>3. QED
    BY <2>1, <2>2
<1>3. r # <<>> => r[Len(r)] = q[Len(q)]
  BY <1>1
<1>4. open => Spoken(r) \/ (r # <<>> /\ r[Len(r)] = "connect")
  BY <1>1, <1>3 DEF Good, Spoken
<1>5. ~open => r = <<>> \/ r[Len(r)] \in Ends
  BY <1>3 DEF Good
<1>6. open /\ after => knows /\ Spoken(r)
  <2> SUFFICES ASSUME open, after PROVE knows /\ Spoken(r)
    OBVIOUS
  <2>1. CASE heard
    <3>1. known /\ Spoken(q) /\ q[1] \in Statuses
      BY <1>1, <2>1 DEF Good, Spoken
    <3>2. QED
      BY <1>1, <3>1 DEF Spoken
  <2>2. CASE ~heard
    <3>1. /\ Head(q) = "connect" /\ knows
          /\ \A i \in 2 .. Len(q) : q[i] \notin Ends
      BY <1>1, <2>2, Kinds DEF Packets
    <3>2. q[Len(q)] = "connect"
      BY <1>1, <3>1, Kinds DEF Good, Spoken
    <3>3. Len(q) = 1
      <4> SUFFICES ASSUME Len(q) # 1 PROVE FALSE
        OBVIOUS
      <4>1. 1 \in 1 .. Len(q) /\ Len(q) \in 1 .. Len(q) /\ 1 < Len(q)
        BY <1>1
      <4>2. PICK k \in 1 .. Len(q) : q[k] \in Ends
        BY <1>1, <3>1, <3>2, <4>1 DEF Good, Separate
      <4>3. QED
        BY <1>1, <3>1, <4>2, Kinds
    <3>4. QED
      BY <1>1, <3>1, <3>3 DEF Spoken
  <2>3. QED
    BY <2>1, <2>2
<1>7. ASSUME NEW i \in 1 .. Len(r), r[i] \in Statuses
      PROVE  knows /\ \A j \in 1 .. i : r[j] \in Statuses
  <2>1. i + 1 \in 1 .. Len(q) /\ q[i + 1] \in Statuses
    BY <1>1, <1>7
  <2>2. known /\ \A j \in 1 .. i + 1 : q[j] \in Statuses
    BY <2>1 DEF Good
  <2>3. Head(q) \in Statuses /\ knows
    <3>1. 1 \in 1 .. i + 1
      BY <1>1
    <3>2. Head(q) \in Statuses
      BY <1>1, <2>2, <3>1
    <3>3. QED
      BY <2>2, <3>2
  <2>4. ASSUME NEW j \in 1 .. i PROVE r[j] \in Statuses
    BY <1>1, <2>2
  <2>5. QED
    BY <2>3, <2>4
<1>8. QED
  BY <1>1, <1>2, <1>4, <1>5, <1>6, <1>7 DEF Good, r

-----------------------------------------------------------------------------
(* Types *)

LEMMA TurnIsASession ==
    ASSUME turn \in 1 .. Len(Order)
    PROVE  Current \in Sessions
<1>1. CASE Sessions = {"own", "peer"}
  BY <1>1 DEF Current, Order
<1>2. CASE Sessions # {"own", "peer"}
  <2>1. Order = <<CHOOSE s \in Sessions : TRUE>> /\ Len(Order) = 1
    BY <1>2 DEF Order
  <2>2. (CHOOSE s \in Sessions : TRUE) \in Sessions
    BY SessionsAssumption DEF SessionsAssumption
  <2>3. QED
    BY <2>1, <2>2 DEF Current
<1>3. QED
  BY <1>1, <1>2

LEMMA OrderIsNotEmpty == Len(Order) \in Nat \ {0}
<1>1. CASE Sessions = {"own", "peer"}
  BY <1>1 DEF Order
<1>2. CASE Sessions # {"own", "peer"}
  BY <1>2 DEF Order
<1>3. QED
  BY <1>1, <1>2

LEMMA Advances ==
    ASSUME turn \in 1 .. Len(Order), NEW next, Advance(next)
    PROVE  turn' \in 1 .. Len(Order) /\ pc' \in {pc, next}
BY OrderIsNotEmpty DEF Advance

LoopTypes ==
    /\ pc \in {"connect", "poll", "input", "handle", "publish"}
    /\ turn \in 1 .. Len(Order) /\ lag \in 0 .. MaxBlock
    /\ ready \subseteq Sessions /\ fired \subseteq Sessions

\* An idle session holds no socket, and a deadline is within its bound.
Linked(s) ==
    /\ state[s] = "IDLE" <=> sock[s] = "closed"
    /\ state[s] = "IDLE" => ~connected[s] /\ answer[s] = "none"
    /\ Monus(due[s], lag) <= IF state[s] = "IDLE" THEN backoff[s] ELSE ConnackTimeout

SessionTypes ==
    /\ state \in [Sessions -> {"IDLE", "CONNECTING", "SERVING"}]
    /\ connected \in [Sessions -> BOOLEAN]
    /\ connect_failed \in [Sessions -> BOOLEAN]
    /\ backoff \in [Sessions -> BackoffMin .. BackoffMax]
    /\ due \in [Sessions -> Nat]
    /\ sock \in [Sessions -> {"closed", "open", "broken", "reset"}]
    /\ answer \in [Sessions -> {"none", "connack", "refused"}]
    /\ \A s \in Sessions : Linked(s)

PipeTypes == pipe \in [Sessions -> Seq(Packets)]

OtherTypes ==
    /\ up \in BOOLEAN
    /\ broker \in [Sessions -> {"none", "up"}]
    /\ retained \in [Sessions -> {"none"} \cup Statuses]
    /\ belief \in {"none"} \cup Statuses
    /\ signalled \in [Sessions -> BOOLEAN]
    /\ farewell \in [Sessions -> BOOLEAN]
    /\ missed \in [Sessions -> BOOLEAN]

LEMMA TypeParts ==
    /\ TypeOK <=> (LoopTypes /\ SessionTypes /\ PipeTypes /\ OtherTypes)
    /\ TypeOK' <=> (LoopTypes' /\ SessionTypes' /\ PipeTypes' /\ OtherTypes')
BY DEF TypeOK, LoopTypes, SessionTypes, PipeTypes, OtherTypes, Linked

LEMMA Constants ==
    /\ BackoffMin \in Nat \ {0} /\ BackoffMax \in Nat /\ BackoffMin <= BackoffMax
    /\ ConnackTimeout \in Nat /\ MaxBlock \in Nat
    /\ Sessions \subseteq {"own", "peer"}
BY SessionsAssumption DEF SessionsAssumption

LEMMA SendTypes ==
    ASSUME PipeTypes, NEW s \in Sessions, NEW p \in Packets, Send(s, p)
    PROVE  PipeTypes' /\ pipe'[s] = Append(pipe[s], p)
           /\ \A t \in Sessions \ {s} : pipe'[t] = pipe[t]
<1>1. pipe[s] \in Seq(Packets) /\ Append(pipe[s], p) \in Seq(Packets)
  BY DEF PipeTypes
<1>2. QED
  BY <1>1 DEF PipeTypes, Send

\* Dropping a session leaves it idle, with a deadline of its backoff.
LEMMA DropTypes ==
    ASSUME TypeOK, NEW s \in Sessions, NEW reached \in BOOLEAN,
           Drop(s, reached), lag' = lag,
           connect_failed' \in [Sessions -> BOOLEAN]
    PROVE  SessionTypes' /\ PipeTypes'
<1> DEFINE b == BackoffAfter(s, reached)
<1>1. b \in BackoffMin .. BackoffMax
  BY Constants DEF TypeOK, BackoffAfter, Least
<1>2. lag \in Nat /\ BackoffMin \in Nat /\ BackoffMax \in Nat
  BY Constants DEF TypeOK
<1>3. /\ backoff' \in [Sessions -> BackoffMin .. BackoffMax]
      /\ due' \in [Sessions -> Nat]
      /\ backoff'[s] = b /\ due'[s] = b + lag
      /\ \A t \in Sessions \ {s} : backoff'[t] = backoff[t] /\ due'[t] = due[t]
  BY <1>1, <1>2 DEF TypeOK, Drop
<1>4. /\ state' \in [Sessions -> {"IDLE", "CONNECTING", "SERVING"}]
      /\ sock' \in [Sessions -> {"closed", "open", "broken", "reset"}]
      /\ answer' \in [Sessions -> {"none", "connack", "refused"}]
      /\ state'[s] = "IDLE" /\ sock'[s] = "closed" /\ answer'[s] = "none"
      /\ \A t \in Sessions \ {s} : /\ state'[t] = state[t] /\ sock'[t] = sock[t]
                                   /\ answer'[t] = answer[t]
  BY DEF TypeOK, Drop
<1>5. /\ connected' \in [Sessions -> BOOLEAN] /\ connected'[s] = FALSE
      /\ \A t \in Sessions \ {s} : connected'[t] = connected[t]
  BY DEF TypeOK, Drop
<1>6. Monus(due'[s], lag') <= backoff'[s]
  BY <1>1, <1>2, <1>3 DEF Monus
<1>7. SessionTypes'
  <2>1. ASSUME NEW t \in Sessions
        PROVE  Linked(t)'
    <3>1. Linked(t)
      BY DEF TypeOK, Linked
    <3>2. QED
      BY <1>3, <1>4, <1>5, <1>6, <3>1 DEF Linked
  <2>2. QED
    BY <1>3, <1>4, <1>5, <2>1 DEF SessionTypes
<1>8. PipeTypes'
  BY SendTypes, Kinds DEF TypeOK, PipeTypes, Drop
<1>9. QED
  BY <1>7, <1>8

LEMMA WriteTypes ==
    ASSUME TypeOK, NEW s \in Sessions, WriteStatus(s) \/ MissStatus(s)
    PROVE  PipeTypes' /\ missed' \in [Sessions -> BOOLEAN]
<1>1. Status(s) # "none" => Status(s) \in Packets
  BY Kinds DEF Status, TypeOK
<1>2. PipeTypes'
  BY <1>1, SendTypes DEF TypeOK, PipeTypes, WriteStatus, MissStatus
<1>3. missed' \in [Sessions -> BOOLEAN]
  BY DEF TypeOK, WriteStatus, MissStatus
<1>4. QED
  BY <1>2, <1>3

\* A session that changes by itself leaves the deadline within its bound.
LEMMA ConnectTypes ==
    ASSUME TypeOK, SessionConnect
    PROVE  TypeOK'
<1>1. Current \in Sessions
  BY TurnIsASession DEF TypeOK
<1>2. LoopTypes'
  BY Advances DEF TypeOK, SessionConnect, LoopTypes
<1>3. OtherTypes'
  BY DEF TypeOK, SessionConnect, OtherTypes, brokerVars, producerVars
<1>4. connect_failed' \in [Sessions -> BOOLEAN] /\ lag' = lag
  BY DEF TypeOK, SessionConnect
<1>5. CASE Drop(Current, FALSE)
  BY <1>1, <1>2, <1>3, <1>4, <1>5, DropTypes, TypeParts
<1>6. CASE /\ Send(Current, "connect")
           /\ sock' = [sock EXCEPT ![Current] = "open"]
           /\ state' = [state EXCEPT ![Current] = "CONNECTING"]
           /\ connected' = [connected EXCEPT ![Current] = FALSE]
           /\ due' = [due EXCEPT ![Current] = ConnackTimeout + lag]
           /\ UNCHANGED <<answer, backoff, fails, faults>>
  <2>1. PipeTypes'
    BY <1>1, <1>6, Kinds, SendTypes, TypeParts
  <2>2. lag \in Nat /\ ConnackTimeout \in Nat /\ ConnackTimeout + lag \in Nat
    BY Constants DEF TypeOK
  <2>3. /\ sock' \in [Sessions -> {"closed", "open", "broken", "reset"}]
        /\ state' \in [Sessions -> {"IDLE", "CONNECTING", "SERVING"}]
        /\ connected' \in [Sessions -> BOOLEAN]
        /\ backoff' \in [Sessions -> BackoffMin .. BackoffMax]
        /\ answer' \in [Sessions -> {"none", "connack", "refused"}]
    BY <1>6 DEF TypeOK
  <2>6. due' \in [Sessions -> Nat]
    <3>1. due \in [Sessions -> Nat]
      BY DEF TypeOK
    <3>2. QED
      BY <1>6, <2>2, <3>1
  <2>4. ASSUME NEW t \in Sessions
        PROVE  Linked(t)'
    <3>1. Linked(t)
      BY DEF TypeOK, Linked
    <3>2. CASE t = Current
      BY <1>4, <1>6, <2>2, <3>2 DEF TypeOK, Linked, Monus
    <3>3. CASE t # Current
      BY <1>4, <1>6, <3>1, <3>3 DEF TypeOK, Linked
    <3>4. QED
      BY <3>2, <3>3
  <2>5. QED
    BY <1>2, <1>3, <1>4, <2>1, <2>3, <2>4, <2>6, TypeParts DEF SessionTypes
<1>7. QED
  BY <1>5, <1>6 DEF SessionConnect

LEMMA PollTypes ==
    ASSUME TypeOK, PollReturns
    PROVE  TypeOK'
<1>1. LoopTypes'
  BY Constants DEF TypeOK, PollReturns, LoopTypes, Readable, Watched
<1>2. PipeTypes' /\ OtherTypes'
  BY DEF TypeOK, PollReturns, PipeTypes, OtherTypes, netVars, brokerVars,
         producerVars, faultVars
<1>3. SessionTypes'
  <2>1. lag \in Nat /\ lag' = 0
    BY Constants DEF TypeOK, PollReturns
  <2>2. /\ due' \in [Sessions -> Nat]
        /\ \A t \in Sessions : due'[t] = Monus(due[t], lag)
    BY <2>1 DEF TypeOK, PollReturns, Monus
  <2>3. ASSUME NEW t \in Sessions
        PROVE  Linked(t)'
    <3>1. Linked(t) /\ due[t] \in Nat
      BY DEF TypeOK, Linked
    <3>2. Monus(due[t], lag) = Monus(due'[t], lag')
      BY <2>1, <2>2, <3>1 DEF Monus
    <3>3. QED
      BY <3>1, <3>2 DEF Linked, PollReturns, netVars
  <2>4. QED
    BY <2>2, <2>3 DEF TypeOK, SessionTypes, PollReturns, netVars
<1>4. QED
  BY <1>1, <1>2, <1>3, TypeParts

LEMMA TickTypes ==
    ASSUME TypeOK, Tick
    PROVE  TypeOK'
<1>1. lag \in Nat /\ lag' \in Nat /\ lag <= lag' /\ lag' \in 0 .. MaxBlock
  BY Constants DEF TypeOK, Tick
<1>2. LoopTypes' /\ PipeTypes' /\ OtherTypes'
  BY <1>1 DEF TypeOK, Tick, LoopTypes, PipeTypes, OtherTypes, netVars,
              brokerVars, faultVars
<1>3. /\ due' \in [Sessions -> Nat]
      /\ \A t \in Sessions : due'[t] <= due[t]
  <2>1. CASE due' = [s \in Sessions |-> Monus(due[s], 1)]
    BY <2>1 DEF TypeOK, Monus
  <2>2. CASE due' = due
    BY <2>2 DEF TypeOK
  <2>3. QED
    BY <2>1, <2>2 DEF Tick
<1>4. ASSUME NEW t \in Sessions
      PROVE  Linked(t)'
  <2>1. Linked(t) /\ due[t] \in Nat /\ due'[t] \in Nat /\ due'[t] <= due[t]
    BY <1>3 DEF TypeOK, Linked
  <2>2. \A n \in Int : Monus(due[t], lag) <= n => Monus(due'[t], lag') <= n
    BY <1>1, <2>1 DEF Monus
  <2>3. backoff[t] \in Int /\ ConnackTimeout \in Int
    BY Constants DEF TypeOK
  <2>4. QED
    BY <2>1, <2>2, <2>3 DEF Linked, Tick, netVars
<1>5. SessionTypes'
  BY <1>3, <1>4 DEF TypeOK, SessionTypes, Tick, netVars
<1>6. QED
  BY <1>2, <1>5, TypeParts

LEMMA InputTypes ==
    ASSUME TypeOK, Input
    PROVE  TypeOK'
<1>1. Current \in Sessions
  BY TurnIsASession DEF TypeOK
<1>2. LoopTypes'
  BY Advances DEF TypeOK, Input, LoopTypes
<1>3. OtherTypes' /\ lag' = lag
  BY DEF TypeOK, Input, OtherTypes, brokerVars, producerVars, faultVars
<1>4. CASE Current \notin ready
  BY <1>2, <1>3, <1>4, TypeParts
  DEF Input, SessionTypes, Linked, PipeTypes, sessionVars, netVars
<1>5. CASE /\ Drop(Current, state[Current] = "SERVING")
           /\ UNCHANGED connect_failed
  <2>1. connect_failed' \in [Sessions -> BOOLEAN]
    BY <1>5 DEF TypeOK
  <2>2. (state[Current] = "SERVING") \in BOOLEAN
    OBVIOUS
  <2>3. QED
    BY <1>1, <1>2, <1>3, <1>5, <2>1, <2>2, DropTypes, TypeParts
<1>6. CASE /\ Current \in ready /\ sock[Current] # "reset"
           /\ connected' = [connected EXCEPT
                 ![Current] = @ \/ answer[Current] = "connack"]
           /\ connect_failed' = [connect_failed EXCEPT
                 ![Current] = @ \/ answer[Current] = "refused"]
           /\ answer' = [answer EXCEPT ![Current] = "none"]
           /\ UNCHANGED <<state, backoff, due, since, fails, sock, pipe>>
  <2>1. /\ connected' \in [Sessions -> BOOLEAN]
        /\ \A t \in Sessions : connected'[t] => connected[t] \/ answer[t] = "connack"
    BY <1>6 DEF TypeOK
  <2>2. connect_failed' \in [Sessions -> BOOLEAN]
    BY <1>6 DEF TypeOK
  <2>3. /\ answer' \in [Sessions -> {"none", "connack", "refused"}]
        /\ \A t \in Sessions : answer'[t] \in {"none", answer[t]}
    BY <1>6 DEF TypeOK
  <2>4. ASSUME NEW t \in Sessions
        PROVE  Linked(t)'
    <3>1. Linked(t)
      BY DEF TypeOK, Linked
    <3>2. QED
      BY <1>3, <1>6, <2>1, <2>3, <3>1 DEF Linked
  <2>5. SessionTypes' /\ PipeTypes'
    BY <1>6, <2>1, <2>2, <2>3, <2>4 DEF TypeOK, SessionTypes, PipeTypes
  <2>6. QED
    BY <1>2, <1>3, <2>5, TypeParts
<1>7. QED
  BY <1>4, <1>5, <1>6 DEF Input

LEMMA HandleTypes ==
    ASSUME TypeOK, Handle
    PROVE  TypeOK'
<1>1. Current \in Sessions
  BY TurnIsASession DEF TypeOK
<1>2. LoopTypes'
  BY Advances DEF TypeOK, Handle, LoopTypes
<1>3. OtherTypes' /\ lag' = lag /\ connect_failed' = connect_failed
  <2>1. missed' \in [Sessions -> BOOLEAN]
    <3>1. CASE WriteStatus(Current) \/ MissStatus(Current)
      BY <1>1, <3>1, WriteTypes
    <3>2. CASE missed' = missed
      BY <3>2 DEF TypeOK
    <3>3. QED
      BY <3>1, <3>2 DEF Handle, SessionServing
  <2>2. QED
    BY <2>1 DEF TypeOK, Handle, OtherTypes, brokerVars, faultVars
<1>4. connect_failed' \in [Sessions -> BOOLEAN]
  BY <1>3 DEF TypeOK
<1>5. CASE state[Current] = "CONNECTING" /\ SessionServing(Current)
  <2>1. PipeTypes'
    BY <1>1, <1>5, WriteTypes DEF SessionServing
  <2>2. /\ state' \in [Sessions -> {"IDLE", "CONNECTING", "SERVING"}]
        /\ backoff' \in [Sessions -> BackoffMin .. BackoffMax]
        /\ due' \in [Sessions -> Nat]
        /\ sock' = sock /\ answer' = answer
    <3>1. /\ state' = [state EXCEPT ![Current] = "SERVING"]
          /\ backoff' = [backoff EXCEPT ![Current] = BackoffMin]
          /\ due' = [due EXCEPT ![Current] = 0]
          /\ sock' = sock /\ answer' = answer
      BY <1>5 DEF SessionServing
    <3>2. BackoffMin \in BackoffMin .. BackoffMax
      BY Constants
    <3>3. QED
      BY <3>1, <3>2 DEF TypeOK
  <2>6. connected' \in [Sessions -> BOOLEAN]
    <3>1. connected' = [connected EXCEPT ![Current] = sock[Current] # "reset"]
      BY <1>5 DEF SessionServing
    <3>2. (sock[Current] # "reset") \in BOOLEAN /\ connected \in [Sessions -> BOOLEAN]
      BY DEF TypeOK
    <3>3. QED
      BY <3>1, <3>2, Zenon
  <2>3. ASSUME NEW t \in Sessions
        PROVE  Linked(t)'
    <3>1. Linked(t)
      BY DEF TypeOK, Linked
    <3>2. CASE t = Current
      <4>1. lag \in Nat /\ ConnackTimeout \in Nat
        BY Constants DEF TypeOK
      <4>2. state'[t] = "SERVING" /\ due'[t] = 0
        BY <1>5, <3>2 DEF TypeOK, SessionServing
      <4>3. QED
        BY <1>3, <1>5, <2>2, <3>1, <3>2, <4>1, <4>2 DEF Linked, Monus
    <3>3. CASE t # Current
      BY <1>3, <1>5, <3>1, <3>3 DEF TypeOK, Linked, SessionServing
    <3>4. QED
      BY <3>2, <3>3
  <2>4. SessionTypes'
    BY <1>4, <2>2, <2>3, <2>6 DEF TypeOK, SessionTypes
  <2>5. QED
    BY <1>2, <1>3, <2>1, <2>4, TypeParts
<1>6. CASE \E reached \in BOOLEAN : Drop(Current, reached)
  BY <1>1, <1>2, <1>3, <1>4, <1>6, DropTypes, TypeParts
<1>7. CASE UNCHANGED <<state, connected, backoff, due, since, fails, netVars>>
  BY <1>2, <1>3, <1>7, TypeParts DEF SessionTypes, Linked, PipeTypes, netVars
<1>8. QED
  BY <1>5, <1>6, <1>7 DEF Handle

LEMMA PublishTypes ==
    ASSUME TypeOK, Publish
    PROVE  TypeOK'
<1>1. Current \in Sessions
  BY TurnIsASession DEF TypeOK
<1>2. LoopTypes'
  BY Advances DEF TypeOK, Publish, LoopTypes
<1>3. /\ lag' = lag /\ connect_failed' = connect_failed
      /\ up' \in BOOLEAN /\ belief' = belief
  BY DEF TypeOK, Publish
<1>4. signalled' \in [Sessions -> BOOLEAN]
  BY DEF TypeOK, Publish
<1>5. OtherTypes'
  <2>1. missed' \in [Sessions -> BOOLEAN]
    <3>1. CASE WriteStatus(Current) \/ MissStatus(Current)
      BY <1>1, <3>1, WriteTypes
    <3>2. CASE missed' = missed
      BY <3>2 DEF TypeOK
    <3>3. QED
      BY <3>1, <3>2 DEF Publish
  <2>2. QED
    BY <1>3, <1>4, <2>1 DEF TypeOK, Publish, OtherTypes, brokerVars
<1>6. connect_failed' \in [Sessions -> BOOLEAN]
  BY <1>3 DEF TypeOK
<1>7. CASE Drop(Current, TRUE)
  BY <1>1, <1>2, <1>3, <1>5, <1>6, <1>7, DropTypes, TypeParts
<1>8. CASE /\ WriteStatus(Current) \/ MissStatus(Current) \/ UNCHANGED pipe
           /\ UNCHANGED <<state, connected, backoff, due, since, fails,
                          sock, answer>>
  <2>1. PipeTypes'
    BY <1>1, <1>8, WriteTypes DEF TypeOK, PipeTypes
  <2>2. SessionTypes'
    BY <1>3, <1>8, TypeParts DEF SessionTypes, Linked
  <2>3. QED
    BY <1>2, <1>5, <2>1, <2>2, TypeParts
<1>9. QED
  BY <1>7, <1>8 DEF Publish, netVars

LEMMA BrokerWrites ==
    ASSUME TypeOK, NEW s \in Sessions, BrokerTakes(s)
    PROVE  /\ broker' = broker \/ \E b \in {"none", "up"} :
                                   broker' = [broker EXCEPT ![s] = b]
           /\ retained' = retained \/ \E v \in Statuses :
                                       retained' = [retained EXCEPT ![s] = v]
           /\ farewell' = farewell \/ \E f \in BOOLEAN :
                                       farewell' = [farewell EXCEPT ![s] = f]
<1>1. broker' = broker \/ \E b \in {"none", "up"} : broker' = [broker EXCEPT ![s] = b]
  BY DEF BrokerTakes, brokerVars
<1>2. retained' = retained \/ \E v \in Statuses : retained' = [retained EXCEPT ![s] = v]
  BY Kinds DEF BrokerTakes, brokerVars, WillTopic
<1>3. farewell' = farewell \/ \E f \in BOOLEAN : farewell' = [farewell EXCEPT ![s] = f]
  BY DEF BrokerTakes, brokerVars
<1>4. QED
  BY <1>1, <1>2, <1>3

LEMMA TakesTypes ==
    ASSUME TypeOK, NEW s \in Sessions, BrokerTakes(s)
    PROVE  TypeOK'
<1>1. pipe[s] \in Seq(Packets) /\ pipe[s] # <<>>
  BY DEF TypeOK, BrokerTakes
<1>2. Tail(pipe[s]) \in Seq(Packets) /\ Head(pipe[s]) \in Packets
  BY <1>1
<1>3. PipeTypes'
  BY <1>2 DEF TypeOK, PipeTypes, BrokerTakes
<1>4. LoopTypes'
  BY TypeParts DEF LoopTypes, BrokerTakes, loopVars
<1>5. OtherTypes'
  <2>1. UNCHANGED <<up, belief, signalled, missed>>
    BY DEF BrokerTakes, producerVars
  <2> OtherTypes
    BY TypeParts
  <2>2. broker' \in [Sessions -> {"none", "up"}]
    BY BrokerWrites DEF OtherTypes
  <2>3. retained' \in [Sessions -> {"none"} \cup Statuses]
    <3>1. retained \in [Sessions -> {"none"} \cup Statuses]
      BY DEF OtherTypes
    <3>2. CASE retained' = retained
      BY <3>1, <3>2
    <3>3. CASE \E v \in Statuses : retained' = [retained EXCEPT ![s] = v]
      BY <3>1, <3>3
    <3>4. QED
      BY <3>2, <3>3, BrokerWrites
  <2>4. farewell' \in [Sessions -> BOOLEAN]
    BY BrokerWrites DEF OtherTypes
  <2>5. QED
    BY <2>1, <2>2, <2>3, <2>4 DEF TypeOK, OtherTypes
<1>6. /\ answer' \in [Sessions -> {"none", "connack", "refused"}]
      /\ \A t \in Sessions : state[t] = "IDLE" => answer'[t] = answer[t]
  BY DEF TypeOK, BrokerTakes, Answer
<1>7. SessionTypes'
  BY <1>6, TypeParts DEF SessionTypes, Linked, BrokerTakes, loopVars, sessionVars
<1>8. QED
  BY <1>3, <1>4, <1>5, <1>7, TypeParts

LEMMA CutTypes ==
    ASSUME NEW q \in Seq(Packets), NEW r \in CutShort(q)
    PROVE  r \in Seq(Packets)
<1>1. PICK k \in 0 .. Len(q) : r = Append(SubSeq(q, 1, k), "cut")
  BY DEF CutShort
<1>2. SubSeq(q, 1, k) \in Seq(Packets)
  OBVIOUS
<1>3. QED
  BY <1>1, <1>2, Added, Kinds

LEMMA NetworkTypes ==
    ASSUME TypeOK, NEW s \in Sessions, NetworkBreaks(s) \/ TcpGivesUp(s)
    PROVE  TypeOK'
<1>1. PipeTypes'
  <2>1. CASE pipe' = pipe
    BY <2>1 DEF TypeOK, PipeTypes
  <2>2. CASE \E packets \in CutShort(pipe[s]) :
               pipe' = [pipe EXCEPT ![s] = packets]
    <3>1. PICK packets \in CutShort(pipe[s]) :
               pipe' = [pipe EXCEPT ![s] = packets]
      BY <2>2
    <3>2. packets \in Seq(Packets)
      BY CutTypes DEF TypeOK
    <3>3. QED
      BY <3>1, <3>2 DEF TypeOK, PipeTypes
  <2>3. QED
    BY <2>1, <2>2 DEF NetworkBreaks, TcpGivesUp
<1>2. LoopTypes' /\ OtherTypes'
  BY DEF TypeOK, LoopTypes, OtherTypes, NetworkBreaks, TcpGivesUp, loopVars,
         brokerVars, producerVars, faultVars
<1>3. /\ sock' \in [Sessions -> {"closed", "open", "broken", "reset"}]
      /\ \A t \in Sessions : sock'[t] = "closed" <=> sock[t] = "closed"
  BY DEF TypeOK, NetworkBreaks, TcpGivesUp
<1>4. SessionTypes'
  BY <1>3, TypeParts DEF SessionTypes, Linked, NetworkBreaks, TcpGivesUp,
     loopVars, sessionVars
<1>5. QED
  BY <1>1, <1>2, <1>4, TypeParts

LEMMA CrashTypes ==
    ASSUME TypeOK, Crash
    PROVE  TypeOK'
<1>1. /\ state' = All("IDLE") /\ connected' = All(FALSE)
      /\ connect_failed' = All(FALSE) /\ backoff' = All(BackoffMin)
      /\ due' = All(0) /\ sock' = All("closed") /\ answer' = All("none")
      /\ lag' = 0 /\ signalled' = All(FALSE) /\ missed' = All(FALSE)
  BY DEF Crash, Fresh
<1>2. LoopTypes'
  BY Constants, OrderIsNotEmpty DEF Crash, Fresh, LoopTypes
<1>3. OtherTypes'
  <2>1. up' = FALSE /\ belief' = "none" /\ UNCHANGED <<broker, retained, farewell>>
    BY DEF Crash, Fresh, brokerVars
  <2>2. signalled' \in [Sessions -> BOOLEAN] /\ missed' \in [Sessions -> BOOLEAN]
    BY <1>1 DEF All
  <2>3. QED
    BY <2>1, <2>2 DEF TypeOK, OtherTypes
<1>4. PipeTypes'
  <2>1. PICK rest \in [Sessions -> UNION {CutShort(pipe[s]) : s \in Sessions}
                                  \cup {pipe[s] : s \in Sessions}] :
           /\ \A s \in Sessions :
                IF sock[s] = "open" THEN rest[s] \in CutShort(pipe[s])
                ELSE rest[s] = pipe[s]
           /\ pipe' = rest
    BY DEF Crash
  <2>2. \A s \in Sessions : rest[s] \in Seq(Packets)
    BY <2>1, CutTypes DEF TypeOK
  <2>3. QED
    BY <2>1, <2>2 DEF PipeTypes
<1>5. SessionTypes'
  BY <1>1, Constants DEF SessionTypes, Linked, All, Monus
<1>6. QED
  BY <1>2, <1>3, <1>4, <1>5, TypeParts

LEMMA TypeStart ==
    ASSUME Init
    PROVE  TypeOK
<1>1. <<>> \in Seq(Packets)
  OBVIOUS
<1>2. PipeTypes /\ OtherTypes
  BY <1>1 DEF Init, PipeTypes, OtherTypes, All
<1>3. LoopTypes
  BY Constants, OrderIsNotEmpty DEF Init, LoopTypes
<1>4. SessionTypes
  BY Constants DEF Init, SessionTypes, Linked, All, Monus
<1>5. QED
  BY <1>2, <1>3, <1>4, TypeParts

LEMMA TypeStep ==
    ASSUME TypeOK, [Next]_vars
    PROVE  TypeOK'
<1>1. CASE SessionConnect
  BY <1>1, ConnectTypes
<1>2. CASE NotDueYet
  <2>1. LoopTypes'
    BY <1>2, Advances DEF TypeOK, NotDueYet, LoopTypes
  <2>2. lag' = lag
    BY <1>2 DEF NotDueYet
  <2>3. QED
    BY <1>2, <2>1, <2>2, TypeParts
    DEF NotDueYet, SessionTypes, Linked, PipeTypes, OtherTypes, sessionVars,
        netVars, brokerVars, producerVars, faultVars
<1>3. CASE PollReturns
  BY <1>3, PollTypes
<1>4. CASE Input
  BY <1>4, InputTypes
<1>5. CASE Handle
  BY <1>5, HandleTypes
<1>6. CASE Publish
  BY <1>6, PublishTypes
<1>7. CASE Tick
  BY <1>7, TickTypes
<1>8. CASE Crash
  BY <1>8, CrashTypes
<1>9. CASE Restart
  BY <1>9, TypeParts
  DEF Restart, LoopTypes, SessionTypes, Linked, PipeTypes, OtherTypes, loopVars,
      sessionVars, netVars, brokerVars, producerVars
<1>10. ASSUME NEW s \in Sessions, Produce(s)
       PROVE  TypeOK'
  BY <1>10, TypeParts
  DEF Produce, LoopTypes, SessionTypes, Linked, PipeTypes, OtherTypes, loopVars,
      sessionVars, netVars, brokerVars, faultVars
<1>11. ASSUME NEW s \in Sessions, BrokerTakes(s)
       PROVE  TypeOK'
  BY <1>11, TakesTypes
<1>12. ASSUME NEW s \in Sessions, NetworkBreaks(s) \/ TcpGivesUp(s)
       PROVE  TypeOK'
  BY <1>12, NetworkTypes
<1>13. CASE UNCHANGED vars
  BY <1>13, TypeParts
  DEF vars, LoopTypes, SessionTypes, Linked, PipeTypes, OtherTypes, loopVars,
      sessionVars, netVars, brokerVars, producerVars, faultVars
<1>14. QED
  BY <1>1, <1>2, <1>3, <1>4, <1>5, <1>6, <1>7, <1>8, <1>9, <1>10, <1>11, <1>12,
     <1>13 DEF Next, Main

\* Every run of the sessions is well typed, and keeps its deadlines in bounds.
THEOREM SessionsWellTyped == Spec => []TypeOK
<1>1. QED
  BY TypeStart, TypeStep, PTL DEF Spec

-----------------------------------------------------------------------------
(* What the broker has still to take *)

\* The session had its CONNACK, or has it to read.
Heard(s) == connected[s] \/ state[s] = "SERVING" \/ answer[s] = "connack"

Orderly(s) == Good(pipe[s], sock[s] = "open", Heard(s), broker[s] = "up")

PipeInv == \A s \in Sessions : Orderly(s)

LEMMA HeardIsBoolean ==
    ASSUME TypeOK, NEW s \in Sessions
    PROVE  Heard(s) \in BOOLEAN
BY DEF TypeOK, Heard

\* A session nobody touches, or that hears nothing new.
LEMMA OrderlyStays ==
    ASSUME TypeOK, TypeOK', NEW s \in Sessions, Orderly(s),
           pipe'[s] = pipe[s], broker'[s] = broker[s],
           (sock'[s] = "open") = (sock[s] = "open"),
           sock[s] = "open" /\ Heard(s)' => Heard(s)
    PROVE  Orderly(s)'
<1> DEFINE h == Heard(s)
           g == Heard(s)'
<1>1. h \in BOOLEAN /\ g \in BOOLEAN
  BY DEF TypeOK, Heard
<1>2. Good(pipe[s], sock[s] = "open", h, broker[s] = "up")
  BY DEF Orderly
<1>3. sock[s] = "open" /\ g => h
  OBVIOUS
<1> HIDE DEF h, g
<1>4. Good(pipe[s], sock[s] = "open", g, broker[s] = "up")
  BY <1>1, <1>2, <1>3, GoodForgets
<1>5. Good(pipe'[s], sock'[s] = "open", g, broker'[s] = "up")
  BY <1>4
<1>6. QED
  BY <1>5 DEF Orderly, g

\* The connection ends: p follows part of what was sent, or nothing does.
LEMMA OrderlyEnds ==
    ASSUME TypeOK, TypeOK', NEW s \in Sessions, Orderly(s),
           broker'[s] = broker[s], sock'[s] # "open",
           \/ sock[s] # "open" /\ pipe'[s] = pipe[s]
           \/ \E p \in Ends : pipe'[s] = Append(pipe[s], p)
           \/ pipe'[s] \in CutShort(pipe[s])
    PROVE  Orderly(s)'
<1> DEFINE o == sock[s] = "open"
           h == Heard(s)
           k == broker[s] = "up"
           g == Heard(s)'
<1>1. o \in BOOLEAN /\ h \in BOOLEAN /\ k \in BOOLEAN /\ g \in BOOLEAN
  BY DEF TypeOK, Heard
<1>2. Good(pipe[s], o, h, k)
  BY DEF Orderly
<1>3. \/ ~o /\ pipe'[s] = pipe[s]
      \/ \E p \in Ends : pipe'[s] = Append(pipe[s], p)
      \/ pipe'[s] \in CutShort(pipe[s])
  OBVIOUS
<1>4. (sock'[s] = "open") = FALSE /\ (broker'[s] = "up") = k
  OBVIOUS
<1> HIDE DEF o, h, k, g
<1>5. Good(pipe'[s], FALSE, g, k)
  <2>1. CASE ~o /\ pipe'[s] = pipe[s]
    <3>1. o = FALSE
      BY <1>1, <2>1
    <3>2. Good(pipe[s], FALSE, h, k)
      BY <1>2, <3>1
    <3>3. QED
      BY <1>1, <2>1, <3>2, GoodForgets
  <2>2. CASE \E p \in Ends : pipe'[s] = Append(pipe[s], p)
    BY <1>1, <1>2, <2>2, GoodCloses
  <2>3. CASE pipe'[s] \in CutShort(pipe[s])
    BY <1>1, <1>2, <2>3, GoodCut
  <2>4. QED
    BY <1>3, <2>1, <2>2, <2>3
<1>6. Good(pipe'[s], sock'[s] = "open", Heard(s)', broker'[s] = "up")
  BY <1>4, <1>5 DEF g
<1>7. QED
  BY <1>6 DEF Orderly

LEMMA DropOrderly ==
    ASSUME TypeOK, TypeOK', PipeInv, NEW s \in Sessions,
           NEW reached \in BOOLEAN, Drop(s, reached), broker' = broker
    PROVE  PipeInv'
<1>1. Orderly(s)'
  <2>1. sock'[s] # "open"
    BY DEF TypeOK, Drop
  <2>2. \/ sock[s] # "open" /\ pipe'[s] = pipe[s]
        \/ \E p \in Ends : pipe'[s] = Append(pipe[s], p)
    BY Kinds DEF TypeOK, Drop, Send
  <2>3. QED
    BY <2>1, <2>2, OrderlyEnds DEF PipeInv
<1>2. ASSUME NEW t \in Sessions, t # s
      PROVE  Orderly(t)'
  <2>1. /\ sock'[t] = sock[t] /\ state'[t] = state[t]
        /\ connected'[t] = connected[t] /\ answer'[t] = answer[t]
    BY <1>2 DEF TypeOK, Drop
  <2>2. pipe \in [Sessions -> Seq(Packets)]
    BY DEF TypeOK
  <2>3. pipe'[t] = pipe[t]
    BY <1>2, <2>2 DEF Drop, Send
  <2>4. QED
    BY <2>1, <2>3, OrderlyStays DEF PipeInv, Heard
<1>3. QED
  BY <1>1, <1>2 DEF PipeInv

\* Only a session that was accepted writes a status.
LEMMA WriteOrderly ==
    ASSUME TypeOK, TypeOK', PipeInv, NEW s \in Sessions,
           WriteStatus(s) \/ MissStatus(s), sock[s] = "open" => Heard(s),
           sock' = sock, answer' = answer, broker' = broker,
           \A t \in Sessions \ {s} : /\ state'[t] = state[t]
                                     /\ connected'[t] = connected[t]
    PROVE  PipeInv'
<1>1. Orderly(s)'
  <2>1. CASE pipe' = pipe
    BY <2>1, OrderlyStays DEF PipeInv
  <2>2. CASE Status(s) # "none" /\ sock[s] = "open" /\ Send(s, Status(s))
    <3> DEFINE h == Heard(s)
               k == broker[s] = "up"
               g == Heard(s)'
    <3>1. h \in BOOLEAN /\ k \in BOOLEAN /\ g \in BOOLEAN /\ h
      BY <2>2 DEF TypeOK, Heard
    <3>2. (sock[s] = "open") = TRUE /\ (broker'[s] = "up") = k
      BY <2>2
    <3>3. Good(pipe[s], TRUE, h, k)
      BY <3>2 DEF PipeInv, Orderly
    <3>4. Status(s) \in Statuses /\ pipe'[s] = Append(pipe[s], Status(s))
      BY <2>2, Kinds DEF TypeOK, Status, Send
    <3> HIDE DEF h, k, g
    <3>5. Good(pipe'[s], TRUE, g, k)
      BY <3>1, <3>3, <3>4, GoodSpeaks
    <3>6. Good(pipe'[s], sock'[s] = "open", Heard(s)', broker'[s] = "up")
      BY <3>2, <3>5 DEF g
    <3>7. QED
      BY <3>6 DEF Orderly
  <2>3. QED
    BY <2>1, <2>2 DEF WriteStatus, MissStatus
<1>2. ASSUME NEW t \in Sessions, t # s
      PROVE  Orderly(t)'
  <2>1. pipe'[t] = pipe[t]
    <3>1. pipe \in [Sessions -> Seq(Packets)]
      BY DEF TypeOK
    <3>2. QED
      BY <1>2, <3>1 DEF WriteStatus, MissStatus, Send
  <2>2. QED
    BY <1>2, <2>1, OrderlyStays DEF PipeInv, Heard
<1>3. QED
  BY <1>1, <1>2 DEF PipeInv

LEMMA ConnectOrderly ==
    ASSUME TypeOK, TypeOK', PipeInv, SessionConnect
    PROVE  PipeInv'
<1>1. PICK s \in Sessions : s = Current
  BY TurnIsASession DEF TypeOK
<1>2. broker' = broker /\ state[s] = "IDLE"
  BY <1>1 DEF SessionConnect, Attempting, brokerVars
<1>3. CASE Drop(s, FALSE)
  BY <1>2, <1>3, DropOrderly
<1>4. CASE /\ Send(s, "connect")
           /\ sock' = [sock EXCEPT ![s] = "open"]
           /\ state' = [state EXCEPT ![s] = "CONNECTING"]
           /\ connected' = [connected EXCEPT ![s] = FALSE]
           /\ answer' = answer
  <2>1. /\ sock[s] = "closed" /\ answer[s] = "none"
        /\ sock'[s] = "open" /\ pipe'[s] = Append(pipe[s], "connect")
        /\ ~Heard(s)'
    <3>1. sock[s] = "closed" /\ answer[s] = "none"
      BY <1>2 DEF TypeOK
    <3>2. sock'[s] = "open" /\ state'[s] = "CONNECTING" /\ connected'[s] = FALSE
      BY <1>4 DEF TypeOK
    <3>3. pipe'[s] = Append(pipe[s], "connect")
      BY <1>4 DEF TypeOK, Send
    <3>4. QED
      BY <1>4, <3>1, <3>2, <3>3 DEF Heard
  <2>2. Orderly(s)'
    <3> DEFINE h == Heard(s)
               k == broker[s] = "up"
    <3>1. h \in BOOLEAN /\ k \in BOOLEAN
      BY HeardIsBoolean
    <3>2. /\ (sock[s] = "open") = FALSE /\ (sock'[s] = "open") = TRUE
          /\ (broker'[s] = "up") = k
      BY <1>2, <2>1
    <3>3. Good(pipe[s], FALSE, h, k)
      BY <3>2 DEF PipeInv, Orderly
    <3>4. Heard(s)' = FALSE
      BY <2>1, <2>1 DEF TypeOK, Heard
    <3> HIDE DEF h, k
    <3>5. Good(pipe'[s], TRUE, FALSE, k)
      BY <2>1, <3>1, <3>3, GoodConnects
    <3>6. Good(pipe'[s], sock'[s] = "open", Heard(s)', broker'[s] = "up")
      BY <3>2, <3>4, <3>5
    <3>7. QED
      BY <3>6 DEF Orderly
  <2>3. ASSUME NEW t \in Sessions, t # s
        PROVE  Orderly(t)'
    <3>1. /\ pipe'[t] = pipe[t] /\ sock'[t] = sock[t] /\ state'[t] = state[t]
          /\ connected'[t] = connected[t] /\ answer'[t] = answer[t]
      BY <1>4, <2>3 DEF TypeOK, Send
    <3>2. QED
      BY <1>2, <3>1, OrderlyStays DEF PipeInv, Heard
  <2>4. QED
    BY <2>2, <2>3 DEF PipeInv
<1>5. QED
  BY <1>1, <1>3, <1>4 DEF SessionConnect

LEMMA InputOrderly ==
    ASSUME TypeOK, TypeOK', PipeInv, Input
    PROVE  PipeInv'
<1>1. PICK s \in Sessions : s = Current
  BY TurnIsASession DEF TypeOK
<1>2. broker' = broker
  BY DEF Input, brokerVars
<1>3. CASE UNCHANGED <<sessionVars, netVars>>
  BY <1>2, <1>3, OrderlyStays DEF PipeInv, Heard, sessionVars, netVars
<1>4. CASE Drop(s, state[s] = "SERVING")
  BY <1>2, <1>4, DropOrderly, (state[s] = "SERVING") \in BOOLEAN
<1>5. CASE /\ connected' = [connected EXCEPT ![s] = @ \/ answer[s] = "connack"]
           /\ answer' = [answer EXCEPT ![s] = "none"]
           /\ UNCHANGED <<state, sock, pipe>>
  <2>1. ASSUME NEW t \in Sessions, Heard(t)'
        PROVE  Heard(t)
    BY <1>5, <2>1 DEF TypeOK, Heard
  <2>2. QED
    BY <1>2, <1>5, <2>1, OrderlyStays DEF PipeInv
<1>6. QED
  BY <1>1, <1>3, <1>4, <1>5 DEF Input

LEMMA HandleOrderly ==
    ASSUME TypeOK, TypeOK', PipeInv, Handle
    PROVE  PipeInv'
<1>1. PICK s \in Sessions : s = Current
  BY TurnIsASession DEF TypeOK
<1>2. broker' = broker
  BY DEF Handle, brokerVars
<1>3. CASE state[s] = "CONNECTING" /\ Accepted(s) /\ SessionServing(s)
  <2>1. /\ WriteStatus(s) \/ MissStatus(s)
        /\ Heard(s) /\ sock' = sock /\ answer' = answer
        /\ \A t \in Sessions \ {s} : /\ state'[t] = state[t]
                                     /\ connected'[t] = connected[t]
    BY <1>3 DEF TypeOK, SessionServing, Accepted, Heard
  <2>2. QED
    BY <1>2, <2>1, WriteOrderly
<1>4. CASE \E reached \in BOOLEAN : Drop(s, reached)
  BY <1>2, <1>4, DropOrderly
<1>5. CASE UNCHANGED <<state, connected, netVars>>
  BY <1>2, <1>5, OrderlyStays DEF PipeInv, Heard, netVars
<1>6. QED
  BY <1>1, <1>3, <1>4, <1>5 DEF Handle

LEMMA PublishOrderly ==
    ASSUME TypeOK, TypeOK', PipeInv, Publish
    PROVE  PipeInv'
<1>1. PICK s \in Sessions : s = Current
  BY TurnIsASession DEF TypeOK
<1>2. broker' = broker
  BY DEF Publish, brokerVars
<1>3. CASE UNCHANGED <<state, connected, sock, answer, pipe>>
  BY <1>2, <1>3, OrderlyStays DEF PipeInv, Heard
<1>4. CASE /\ state[s] = "SERVING"
           /\ WriteStatus(s) \/ MissStatus(s)
           /\ UNCHANGED <<state, connected, sock, answer>>
  BY <1>2, <1>4, WriteOrderly DEF Heard
<1>5. CASE Drop(s, TRUE)
  BY <1>2, <1>5, DropOrderly
<1>6. QED
  BY <1>1, <1>3, <1>4, <1>5 DEF Publish, netVars

\* Only a session that waits for it is told "connack", and only when nothing
\* ends the connection it came in on.
LEMMA TakesOrderly ==
    ASSUME TypeOK, TypeOK', PipeInv, NEW s \in Sessions, BrokerTakes(s)
    PROVE  PipeInv'
<1>1. /\ pipe[s] # <<>> /\ pipe'[s] = Tail(pipe[s]) /\ Head(pipe[s]) \in Packets
      /\ sock' = sock /\ state' = state /\ connected' = connected
  <2>1. pipe[s] \in Seq(Packets) /\ pipe[s] # <<>>
    BY DEF TypeOK, BrokerTakes
  <2>2. Head(pipe[s]) \in Packets
    BY <2>1
  <2>3. QED
    BY <2>1, <2>2 DEF TypeOK, BrokerTakes, sessionVars
<1>2. ASSUME NEW t \in Sessions, t # s
      PROVE  Orderly(t)'
  <2>1. pipe'[t] = pipe[t] /\ broker'[t] = broker[t] /\ answer'[t] = answer[t]
    <3>0. /\ pipe \in [Sessions -> Seq(Packets)]
          /\ answer \in [Sessions -> {"none", "connack", "refused"}]
          /\ pipe' = [pipe EXCEPT ![s] = Tail(@)]
      BY DEF TypeOK, BrokerTakes
    <3>1. pipe'[t] = pipe[t]
      BY <1>2, <3>0
    <3>2. broker'[t] = broker[t]
      <4>1. broker \in [Sessions -> {"none", "up"}]
        BY DEF TypeOK
      <4>2. CASE broker' = broker
        BY <4>2
      <4>3. CASE \E b \in {"none", "up"} : broker' = [broker EXCEPT ![s] = b]
        BY <1>2, <4>1, <4>3
      <4>4. QED
        BY <4>2, <4>3, BrokerWrites
    <3>3. answer' = answer \/ \E a \in {"connack", "refused"} : Answer(s, a)
      BY DEF BrokerTakes
    <3>4. answer'[t] = answer[t]
      BY <1>2, <3>0, <3>3 DEF Answer
    <3>5. QED
      BY <3>1, <3>2, <3>4
  <2>2. QED
    BY <1>1, <2>1, OrderlyStays DEF PipeInv, Heard
<1>3. Orderly(s)'
  <2> DEFINE o == sock[s] = "open"
             h == Heard(s)
             k == broker[s] = "up"
             g == Heard(s)'
             n == broker'[s] = "up"
  <2>1. /\ o \in BOOLEAN /\ h \in BOOLEAN /\ k \in BOOLEAN /\ g \in BOOLEAN
        /\ n \in BOOLEAN
    BY DEF TypeOK, Heard
  <2>2. Good(pipe[s], o, h, k)
    BY DEF PipeInv, Orderly
  <2>3. Head(pipe[s]) \in Statuses => (g = h /\ n = k)
    <3>1. Head(pipe[s]) \in Statuses => UNCHANGED <<broker, answer>>
      BY Kinds DEF BrokerTakes
    <3>2. QED
      BY <1>1, <3>1 DEF Heard
  <2>4. Head(pipe[s]) \in Ends => g = h
    <3>1. Head(pipe[s]) \in Ends => answer' = answer
      BY Kinds DEF BrokerTakes
    <3>2. QED
      BY <1>1, <3>1 DEF Heard
  <2>5. Head(pipe[s]) = "connect" /\ o /\ g =>
            h \/ (n /\ \A i \in 2 .. Len(pipe[s]) : pipe[s][i] \notin Ends)
    <3> SUFFICES ASSUME Head(pipe[s]) = "connect", g, ~h
                 PROVE  n /\ \A i \in 2 .. Len(pipe[s]) : pipe[s][i] \notin Ends
      OBVIOUS
    <3>1. answer'[s] = "connack" /\ answer[s] # "connack"
      BY <1>1 DEF Heard
    <3>2. \/ Answer(s, "connack") /\ broker' = [broker EXCEPT ![s] = "up"]
          \/ Answer(s, "refused")
      BY Kinds DEF BrokerTakes
    <3>3. ~Answer(s, "refused")
      BY <3>1 DEF Answer, TypeOK
    <3>4. \A i \in 2 .. Len(pipe[s]) : pipe[s][i] \notin Ends
      BY <3>1, <3>2, <3>3 DEF Answer, TypeOK
    <3>5. QED
      BY <3>2, <3>3, <3>4 DEF TypeOK
  <2> HIDE DEF o, h, k, g, n
  <2>6. Good(Tail(pipe[s]), o, g, n)
    BY <1>1, <2>1, <2>2, <2>3, <2>4, <2>5, GoodTakes
  <2>7. Good(pipe'[s], sock'[s] = "open", Heard(s)', broker'[s] = "up")
    BY <1>1, <2>6 DEF o, g, n
  <2>8. QED
    BY <2>7 DEF Orderly
<1>4. QED
  BY <1>2, <1>3 DEF PipeInv

LEMMA BreaksOrderly ==
    ASSUME TypeOK, TypeOK', PipeInv, NEW s \in Sessions, NetworkBreaks(s)
    PROVE  PipeInv'
<1>1. Orderly(s)'
  <2>1. broker' = broker /\ sock'[s] = "broken" /\ pipe'[s] \in CutShort(pipe[s])
    BY DEF TypeOK, NetworkBreaks, brokerVars
  <2>2. QED
    BY <2>1, OrderlyEnds DEF PipeInv
<1>2. ASSUME NEW t \in Sessions, t # s
      PROVE  Orderly(t)'
  <2>1. /\ pipe'[t] = pipe[t] /\ sock'[t] = sock[t] /\ state' = state
        /\ connected' = connected /\ answer' = answer /\ broker' = broker
    BY <1>2 DEF TypeOK, NetworkBreaks, sessionVars, brokerVars
  <2>2. QED
    BY <2>1, OrderlyStays DEF PipeInv, Heard
<1>3. QED
  BY <1>1, <1>2 DEF PipeInv

LEMMA CrashOrderly ==
    ASSUME TypeOK, TypeOK', PipeInv, Crash
    PROVE  PipeInv'
<1>1. broker' = broker /\ \A s \in Sessions : sock'[s] = "closed"
  BY DEF Crash, Fresh, All, brokerVars
<1>2. \A s \in Sessions : IF sock[s] = "open" THEN pipe'[s] \in CutShort(pipe[s])
                          ELSE pipe'[s] = pipe[s]
  BY DEF Crash
<1>3. QED
  BY <1>1, <1>2, OrderlyEnds DEF PipeInv

LEMMA PipeStart ==
    ASSUME Init
    PROVE  PipeInv
<1> SUFFICES ASSUME NEW s \in Sessions PROVE Orderly(s)
  BY DEF PipeInv
<1>1. /\ (sock[s] = "open") = FALSE /\ (broker[s] = "up") = FALSE
      /\ pipe[s] = <<>> /\ Heard(s) = FALSE
  BY DEF Init, All, Heard
<1>2. Good(<<>>, FALSE, FALSE, FALSE)
  BY Nothing
<1>3. QED
  BY <1>1, <1>2 DEF Orderly

LEMMA PipeStep ==
    ASSUME TypeOK, TypeOK', PipeInv, [Next]_vars
    PROVE  PipeInv'
<1>1. CASE SessionConnect
  BY <1>1, ConnectOrderly
<1>2. CASE UNCHANGED <<state, connected, netVars, broker>>
  BY <1>2, OrderlyStays DEF PipeInv, Heard, netVars
<1>3. CASE NotDueYet \/ PollReturns \/ Tick \/ Restart \/ UNCHANGED vars
  BY <1>2, <1>3 DEF NotDueYet, PollReturns, Tick, Restart, vars, sessionVars,
                    brokerVars
<1>4. CASE Input
  BY <1>4, InputOrderly
<1>5. CASE Handle
  BY <1>5, HandleOrderly
<1>6. CASE Publish
  BY <1>6, PublishOrderly
<1>7. CASE Crash
  BY <1>7, CrashOrderly
<1>8. ASSUME NEW s \in Sessions, Produce(s)
      PROVE  PipeInv'
  BY <1>2, <1>8 DEF Produce, sessionVars, brokerVars
<1>9. ASSUME NEW s \in Sessions, BrokerTakes(s)
      PROVE  PipeInv'
  BY <1>9, TakesOrderly
<1>10. ASSUME NEW s \in Sessions, NetworkBreaks(s)
       PROVE  PipeInv'
  BY <1>10, BreaksOrderly
<1>11. ASSUME NEW s \in Sessions, TcpGivesUp(s)
       PROVE  PipeInv'
  <2>1. /\ \A t \in Sessions : (sock'[t] = "open") = (sock[t] = "open")
        /\ UNCHANGED <<pipe, broker, state, connected, answer>>
    BY <1>11 DEF TypeOK, TcpGivesUp, sessionVars, brokerVars
  <2>2. QED
    BY <2>1, OrderlyStays DEF PipeInv, Heard
<1>12. QED
  BY <1>1, <1>3, <1>4, <1>5, <1>6, <1>7, <1>8, <1>9, <1>10, <1>11 DEF Next, Main

LEMMA PipeAlways == Spec => [](TypeOK /\ PipeInv)
<1>1. Init => TypeOK /\ PipeInv
  BY TypeStart, PipeStart
<1>2. TypeOK /\ PipeInv /\ [Next]_vars => (TypeOK /\ PipeInv)'
  BY TypeStep, PipeStep
<1>3. QED
  BY <1>1, <1>2, PTL DEF Spec

LEMMA OrderlyPublishes == PipeInv => PublishedWhileServing
BY DEF PipeInv, Orderly, Good, PublishedWhileServing

\* Whatever is lost, cut short or late, no status reaches the broker outside a
\* connection it accepted: the guard of publish() on the served session
\* (main.cpp:88, 917-919) is enough.
THEOREM PublishesOnlyWhileServing == Spec => []PublishedWhileServing
<1>1. QED
  BY PipeAlways, OrderlyPublishes, PTL

-----------------------------------------------------------------------------
(* What the broker keeps *)

\* The last thing a served session said, or what the broker keeps of it, is the
\* status it stands for, unless it failed to say that and nobody noticed.
Announced(s) ==
    /\ state[s] = "SERVING" /\ sock[s] = "open" /\ Status(s) # "none"
    /\ s = "peer" => ~signalled[s]
    /\ ~missed[s]
    => IF pipe[s] = <<>> THEN retained[s] = Status(s)
       ELSE pipe[s][Len(pipe[s])] = Status(s)

CurrentInv == \A s \in Sessions : Announced(s)

\* Nothing of what Announced speaks of changes.
LEMMA AnnouncedStays ==
    ASSUME NEW s \in Sessions, Announced(s),
           state'[s] = "SERVING" /\ sock'[s] = "open" =>
               /\ state[s] = "SERVING" /\ sock[s] = "open"
               /\ Status(s)' = Status(s)
               /\ signalled'[s] = signalled[s] \/ signalled'[s] \/ s # "peer"
               /\ missed'[s] = missed[s] \/ missed'[s]
               /\ pipe'[s] = pipe[s] /\ retained'[s] = retained[s]
    PROVE  Announced(s)'
BY DEF Announced

\* A status was written, unless there is none, or that failed unnoticed.
LEMMA AnnouncedWrites ==
    ASSUME TypeOK, NEW s \in Sessions, WriteStatus(s) \/ MissStatus(s),
           belief' = belief, sock' = sock
    PROVE  Announced(s)'
<1>1. Status(s)' = Status(s)
  BY DEF Status
<1>2. CASE WriteStatus(s) /\ Status(s) # "none" /\ sock[s] = "open"
  <2>1. Status(s) \in Packets /\ pipe[s] \in Seq(Packets)
    BY <1>2, Kinds DEF TypeOK, Status
  <2>2. pipe'[s] = Append(pipe[s], Status(s))
    BY <1>2 DEF TypeOK, WriteStatus, Send
  <2>3. pipe'[s] # <<>> /\ pipe'[s][Len(pipe'[s])] = Status(s)
    BY <2>1, <2>2, Added
  <2>4. QED
    BY <1>1, <2>3 DEF Announced
<1>3. CASE ~(Status(s) # "none" /\ sock[s] = "open")
  BY <1>1, <1>3 DEF Announced
<1>4. CASE MissStatus(s)
  BY <1>4 DEF TypeOK, MissStatus, Announced
<1>5. QED
  BY <1>2, <1>3, <1>4

LEMMA LastStaysLast ==
    ASSUME NEW q \in Seq(Packets), q # <<>>
    PROVE  /\ Len(q) = 1 => Tail(q) = <<>>
           /\ Len(q) # 1 => Tail(q) # <<>> /\ Tail(q)[Len(Tail(q))] = q[Len(q)]
<1> DEFINE r == Tail(q)
           n == Len(q)
<1>1. /\ r \in Seq(Packets) /\ n \in Nat \ {0} /\ Len(r) = n - 1
      /\ \A i \in 1 .. n - 1 : r[i] = q[i + 1]
  BY Taken
<1>2. Len(r) = 0 <=> r = <<>>
  <2>1. r # <<>> => Len(r) \in Nat \ {0}
    BY <1>1, EmptySeq
  <2> HIDE DEF r
  <2>2. r = <<>> => Len(r) = 0
    BY EmptySeq
  <2>3. QED
    BY <2>1, <2>2
<1> HIDE DEF r, n
<1>3. CASE n = 1
  BY <1>1, <1>2, <1>3 DEF r, n
<1>4. CASE n # 1
  <2>1. Len(r) # 0 /\ r[n - 1] = q[n]
    BY <1>1, <1>4
  <2>2. QED
    BY <1>1, <1>2, <1>4, <2>1 DEF r, n
<1>5. QED
  BY <1>3, <1>4

LEMMA AnnouncedTakes ==
    ASSUME TypeOK, PipeInv, NEW s \in Sessions, Announced(s), BrokerTakes(s)
    PROVE  Announced(s)'
<1> DEFINE q == pipe[s]
<1>1. /\ UNCHANGED <<state, sock, belief, signalled, missed>>
      /\ pipe'[s] = Tail(q) /\ q # <<>> /\ q \in Seq(Packets)
  BY DEF TypeOK, BrokerTakes, sessionVars, producerVars
<1>2. CASE state[s] = "SERVING" /\ sock[s] = "open"
  <2>1. Spoken(q)
    BY <1>2 DEF PipeInv, Orderly, Good, Heard
  <2>2. /\ Head(q) = q[1] /\ Tail(q) \in Seq(Packets) /\ Len(q) \in Nat \ {0}
        /\ Len(Tail(q)) = Len(q) - 1
        /\ \A i \in 1 .. Len(q) - 1 : Tail(q)[i] = q[i + 1]
    BY <1>1, Taken
  <2>3. Head(q) \in Statuses
    BY <2>1, <2>2 DEF Spoken
  <2>4. retained'[s] = q[1]
    BY <2>2, <2>3, Kinds DEF TypeOK, BrokerTakes
  <2>5. CASE Len(q) = 1
    <3>1. pipe'[s] = <<>> /\ q[Len(q)] = q[1]
      BY <1>1, <2>5, LastStaysLast
    <3>2. Status(s)' = Status(s) /\ retained'[s] = q[Len(q)]
      BY <1>1, <2>4, <3>1 DEF Status
    <3>3. QED
      BY <1>1, <3>1, <3>2 DEF Announced
  <2>6. CASE Len(q) # 1
    <3>1. pipe'[s] # <<>> /\ pipe'[s][Len(pipe'[s])] = q[Len(q)]
      BY <1>1, <2>6, LastStaysLast
    <3>2. Status(s)' = Status(s)
      BY <1>1 DEF Status
    <3>3. QED
      BY <1>1, <3>1, <3>2 DEF Announced
  <2>7. QED
    BY <2>5, <2>6
<1>3. CASE ~(state[s] = "SERVING" /\ sock[s] = "open")
  BY <1>1, <1>3 DEF Announced
<1>4. QED
  BY <1>2, <1>3

LEMMA DropAnnounced ==
    ASSUME TypeOK, CurrentInv, NEW s \in Sessions, NEW reached \in BOOLEAN,
           Drop(s, reached), belief' = belief, retained' = retained,
           missed' = missed,
           \A t \in Sessions \ {s} : signalled'[t] = signalled[t]
    PROVE  CurrentInv'
<1>1. Announced(s)'
  BY DEF TypeOK, Drop, Announced
<1>2. ASSUME NEW t \in Sessions, t # s
      PROVE  Announced(t)'
  <2>1. /\ pipe'[t] = pipe[t] /\ sock'[t] = sock[t] /\ state'[t] = state[t]
        /\ signalled'[t] = signalled[t] /\ Status(t)' = Status(t)
    BY <1>2 DEF TypeOK, Drop, Send, Status
  <2>2. QED
    BY <2>1, AnnouncedStays DEF CurrentInv
<1>3. QED
  BY <1>1, <1>2 DEF CurrentInv

LEMMA WriteAnnounced ==
    ASSUME TypeOK, CurrentInv, NEW s \in Sessions, WriteStatus(s) \/ MissStatus(s),
           belief' = belief, retained' = retained, sock' = sock,
           \A t \in Sessions \ {s} : /\ signalled'[t] = signalled[t]
                                     /\ state'[t] = state[t]
    PROVE  CurrentInv'
<1>1. Announced(s)'
  BY AnnouncedWrites
<1>2. ASSUME NEW t \in Sessions, t # s
      PROVE  Announced(t)'
  <2>1. pipe'[t] = pipe[t] /\ missed'[t] = missed[t] /\ Status(t)' = Status(t)
    BY <1>2 DEF TypeOK, WriteStatus, MissStatus, Send, Status
  <2>2. QED
    BY <1>2, <2>1, AnnouncedStays DEF CurrentInv
<1>3. QED
  BY <1>1, <1>2 DEF CurrentInv

\* What the eventfd of the peer's session signalled is written in the same step
\* that forgets the signal, or counts as missed, or the session is dropped.
LEMMA PublishAnnounced ==
    ASSUME TypeOK, CurrentInv, Publish
    PROVE  CurrentInv'
<1>1. PICK s \in Sessions : s = Current
  BY TurnIsASession DEF TypeOK
<1>2. belief' = belief /\ retained' = retained
  BY DEF Publish, brokerVars
<1>3. \A t \in Sessions \ {s} : signalled'[t] = signalled[t]
  BY <1>1 DEF TypeOK, Publish
<1>4. CASE UNCHANGED <<signalled, missed, state, sock, pipe>>
  BY <1>2, <1>4, AnnouncedStays DEF CurrentInv, Status
<1>5. CASE /\ s = "peer"
           /\ WriteStatus(s) \/ MissStatus(s)
           /\ UNCHANGED <<state, sock>>
  BY <1>2, <1>3, <1>5, WriteAnnounced
<1>6. CASE s # "peer" /\ UNCHANGED <<state, sock, pipe, missed>>
  BY <1>2, <1>3, <1>6, AnnouncedStays DEF CurrentInv, Status
<1>7. CASE Drop(s, TRUE) /\ missed' = missed
  BY <1>2, <1>3, <1>7, DropAnnounced
<1>8. QED
  BY <1>1, <1>4, <1>5, <1>6, <1>7 DEF Publish, netVars

LEMMA CurrentStart ==
    ASSUME Init
    PROVE  CurrentInv
BY DEF Init, All, CurrentInv, Announced

LEMMA CurrentStep ==
    ASSUME TypeOK, PipeInv, CurrentInv, [Next]_vars
    PROVE  CurrentInv'
<1>1. CASE SessionConnect
  <2>1. PICK s \in Sessions : s = Current
    BY TurnIsASession DEF TypeOK
  <2>2. UNCHANGED <<belief, retained, signalled, missed>>
    BY <1>1 DEF SessionConnect, brokerVars, producerVars
  <2>3. CASE Drop(s, FALSE)
    BY <2>2, <2>3, DropAnnounced
  <2>4. CASE /\ Send(s, "connect")
             /\ sock' = [sock EXCEPT ![s] = "open"]
             /\ state' = [state EXCEPT ![s] = "CONNECTING"]
    <3>1. state'[s] # "SERVING"
      BY <2>4 DEF TypeOK
    <3>2. \A t \in Sessions \ {s} : /\ pipe'[t] = pipe[t] /\ sock'[t] = sock[t]
                                    /\ state'[t] = state[t]
      BY <2>4 DEF TypeOK, Send
    <3>3. QED
      BY <2>2, <3>1, <3>2, AnnouncedStays DEF CurrentInv, Status
  <2>5. QED
    BY <1>1, <2>1, <2>3, <2>4 DEF SessionConnect
<1>2. CASE UNCHANGED <<state, netVars, belief, signalled, missed, retained>>
  BY <1>2, AnnouncedStays DEF CurrentInv, Status, netVars
<1>3. CASE NotDueYet \/ PollReturns \/ Tick \/ Restart \/ UNCHANGED vars
  BY <1>2, <1>3 DEF NotDueYet, PollReturns, Tick, Restart, vars, sessionVars,
                    brokerVars, producerVars
<1>4. CASE Input
  <2>1. PICK s \in Sessions : s = Current
    BY TurnIsASession DEF TypeOK
  <2>2. UNCHANGED <<belief, retained, signalled, missed>>
    BY <1>4 DEF Input, brokerVars, producerVars
  <2>3. CASE Drop(s, state[s] = "SERVING")
    BY <2>2, <2>3, DropAnnounced, (state[s] = "SERVING") \in BOOLEAN
  <2>4. CASE UNCHANGED <<state, sock, pipe>>
    BY <2>2, <2>4, AnnouncedStays DEF CurrentInv, Status
  <2>5. QED
    BY <1>4, <2>1, <2>3, <2>4 DEF Input, sessionVars, netVars
<1>5. CASE Handle
  <2>1. PICK s \in Sessions : s = Current
    BY TurnIsASession DEF TypeOK
  <2>2. UNCHANGED <<belief, retained, signalled>>
    BY <1>5 DEF Handle, brokerVars
  <2>3. CASE (\E reached \in BOOLEAN : Drop(s, reached)) /\ missed' = missed
    BY <2>2, <2>3, DropAnnounced
  <2>4. CASE UNCHANGED <<state, sock, pipe, missed>>
    BY <2>2, <2>4, AnnouncedStays DEF CurrentInv, Status
  <2>5. CASE SessionServing(s)
    <3>1. /\ WriteStatus(s) \/ MissStatus(s)
          /\ sock' = sock
          /\ \A t \in Sessions \ {s} : state'[t] = state[t]
      BY <2>5 DEF TypeOK, SessionServing
    <3>2. QED
      BY <2>2, <3>1, WriteAnnounced
  <2>6. QED
    BY <1>5, <2>1, <2>3, <2>4, <2>5 DEF Handle, netVars
<1>6. CASE Publish
  BY <1>6, PublishAnnounced
<1>7. CASE Crash
  BY <1>7 DEF Crash, Fresh, All, CurrentInv, Announced
<1>8. ASSUME NEW s \in Sessions, Produce(s)
      PROVE  CurrentInv'
  <2>1. UNCHANGED <<state, sock, pipe, retained>>
    BY <1>8 DEF Produce, sessionVars, netVars, brokerVars
  <2>2. CASE s = "own"
    <3>1. /\ belief' = belief /\ missed' = missed
          /\ \A t \in Sessions \ {s} : signalled'[t] = signalled[t]
      BY <1>8, <2>2 DEF TypeOK, Produce
    <3>2. QED
      BY <2>1, <2>2, <3>1, AnnouncedStays DEF CurrentInv, Status
  <2>3. CASE s # "own"
    <3>1. /\ s = "peer"
          /\ signalled'[s] \/ missed'[s]
          /\ \A t \in Sessions \ {s} : t = "own" /\ missed'[t] = missed[t]
      BY <1>8, <2>3, Constants DEF TypeOK, Produce
    <3>2. Announced(s)'
      BY <3>1 DEF Announced
    <3>3. ASSUME NEW t \in Sessions, t # s
          PROVE  Announced(t)'
      <4>1. t = "own" /\ t # "peer" /\ Status(t)' = Status(t)
        BY <3>1, <3>3 DEF Status
      <4>2. QED
        BY <2>1, <3>1, <3>3, <4>1, AnnouncedStays DEF CurrentInv
    <3>4. QED
      BY <3>2, <3>3 DEF CurrentInv
  <2>4. QED
    BY <2>2, <2>3
<1>9. ASSUME NEW s \in Sessions, BrokerTakes(s)
      PROVE  CurrentInv'
  <2>1. ASSUME NEW t \in Sessions, t # s
        PROVE  Announced(t)'
    <3>1. pipe'[t] = pipe[t] /\ retained'[t] = retained[t]
      BY <1>9, <2>1 DEF TypeOK, BrokerTakes, WillTopic, brokerVars
    <3>2. UNCHANGED <<state, sock, belief, signalled, missed>>
      BY <1>9 DEF BrokerTakes, sessionVars, producerVars
    <3>3. QED
      BY <3>1, <3>2, AnnouncedStays DEF CurrentInv, Status
  <2>2. QED
    BY <1>9, <2>1, AnnouncedTakes DEF CurrentInv
<1>10. ASSUME NEW s \in Sessions, NetworkBreaks(s)
       PROVE  CurrentInv'
  <2>1. UNCHANGED <<state, belief, signalled, missed, retained>>
    BY <1>10 DEF NetworkBreaks, sessionVars, brokerVars, producerVars
  <2>2. sock'[s] = "broken" /\ \A t \in Sessions \ {s} :
            pipe'[t] = pipe[t] /\ sock'[t] = sock[t]
    BY <1>10 DEF TypeOK, NetworkBreaks
  <2>3. QED
    BY <2>1, <2>2, AnnouncedStays DEF CurrentInv, Status
<1>11. ASSUME NEW s \in Sessions, TcpGivesUp(s)
       PROVE  CurrentInv'
  <2>1. UNCHANGED <<state, belief, signalled, missed, retained, pipe>>
    BY <1>11 DEF TcpGivesUp, sessionVars, brokerVars, producerVars
  <2>2. sock'[s] = "reset" /\ \A t \in Sessions \ {s} : sock'[t] = sock[t]
    BY <1>11 DEF TypeOK, TcpGivesUp
  <2>3. QED
    BY <2>1, <2>2, AnnouncedStays DEF CurrentInv, Status
<1>12. QED
  BY <1>1, <1>3, <1>4, <1>5, <1>6, <1>7, <1>8, <1>9, <1>10, <1>11 DEF Next, Main

LEMMA CurrentIsCurrent == PipeInv /\ CurrentInv => StatusIsCurrent
BY DEF PipeInv, CurrentInv, Announced, Orderly, Good, Heard, StatusIsCurrent

\* Once the broker has taken everything, it keeps of a served node the status
\* the session stands for, whatever wills and reconnections came before, unless
\* the last attempt to announce it failed unnoticed (publish_status(),
\* session_serving(), publish_relayed_status()).
THEOREM RetainsTheCurrentStatus == Spec => []StatusIsCurrent
<1>1. Init => TypeOK /\ PipeInv /\ CurrentInv
  BY TypeStart, PipeStart, CurrentStart
<1>2. TypeOK /\ PipeInv /\ CurrentInv /\ [Next]_vars => (TypeOK /\ PipeInv /\ CurrentInv)'
  BY TypeStep, PipeStep, CurrentStep
<1>3. QED
  BY <1>1, <1>2, CurrentIsCurrent, PTL DEF Spec

LEMMA DeadStep ==
    ASSUME TypeOK, PublishedWhileServing, DeadIsAnnounced, [Next]_vars
    PROVE  DeadIsAnnounced'
<1>1. CASE UNCHANGED brokerVars
  BY <1>1 DEF DeadIsAnnounced, brokerVars
<1>2. ASSUME NEW s \in Sessions, BrokerTakes(s), ~UNCHANGED brokerVars
      PROVE  DeadIsAnnounced'
  <2>1. /\ Head(pipe[s]) = pipe[s][1] /\ 1 \in 1 .. Len(pipe[s])
        /\ "online" # "offline"
    BY <1>2 DEF TypeOK, BrokerTakes
  <2>2. CASE /\ broker' = [broker EXCEPT ![s] = "up"]
             /\ UNCHANGED <<retained, farewell>>
    BY <2>2 DEF TypeOK, DeadIsAnnounced
  <2>3. CASE /\ Head(pipe[s]) \in Statuses
             /\ retained' = [retained EXCEPT ![s] = Head(pipe[s])]
             /\ UNCHANGED <<broker, farewell>>
    <3>1. broker[s] = "up"
      BY <2>1, <2>3 DEF PublishedWhileServing
    <3>2. QED
      BY <2>3, <3>1 DEF TypeOK, DeadIsAnnounced
  <2>4. CASE /\ broker' = [broker EXCEPT ![s] = "none"]
             /\ farewell' = [farewell EXCEPT ![s] = TRUE]
             /\ UNCHANGED retained
    BY <2>4 DEF TypeOK, DeadIsAnnounced
  <2>5. CASE /\ retained' = [retained EXCEPT ![WillTopic(s)] = "offline"]
             /\ broker' = [broker EXCEPT ![s] = "none"]
             /\ farewell' = [farewell EXCEPT ![s] = FALSE]
    BY <2>1, <2>5 DEF TypeOK, DeadIsAnnounced, WillTopic
  <2>6. QED
    BY <1>2, <2>2, <2>3, <2>4, <2>5 DEF BrokerTakes, brokerVars
<1>3. CASE \E s \in Sessions : Produce(s) \/ NetworkBreaks(s) \/ TcpGivesUp(s)
  BY <1>1, <1>3 DEF Produce, NetworkBreaks, TcpGivesUp
<1>4. CASE Main
  BY <1>1, <1>4 DEF Main, SessionConnect, NotDueYet, PollReturns, Input, Handle,
                    Publish
<1>5. CASE Tick \/ Crash \/ Restart \/ UNCHANGED vars
  BY <1>1, <1>5 DEF Tick, Crash, Restart, vars
<1>6. QED
  BY <1>1, <1>2, <1>3, <1>4, <1>5 DEF Next

\* The will speaks for a connection that ends without DISCONNECT, on the topic
\* of its own node, also when the gateway dies under both (client_setup()).
THEOREM TheDeadAreAnnounced == Spec => []DeadIsAnnounced
<1>1. Init => DeadIsAnnounced
  BY DEF Init, All, DeadIsAnnounced
<1>2. QED
  BY <1>1, SessionsWellTyped, PublishesOnlyWhileServing, DeadStep, PTL DEF Spec

-----------------------------------------------------------------------------
(* How often a session is tried *)

\* A set of naturals has a least one.
LEMMA LeastOf == ASSUME NEW T, T \subseteq Nat, T # {}
                 PROVE  \E x \in T : \A y \in T : x <= y
<1> DEFINE R == OpToRel(<, Nat)
<1>1. IsWellFoundedOn(R, Nat)
  BY NatLessThanWellFounded
<1>2. R = {ss \in Nat \X Nat : ss[1] < ss[2]}
  BY DEF OpToRel
<1>3. PICK x \in T : \A y \in T : <<y, x>> \notin R
  <2> HIDE DEF R
  <2>1. QED
    BY <1>1, WFMin
<1>4. \A y \in T : ~ (y < x)
  BY <1>2, <1>3
<1>5. QED
  BY <1>4

\* A set that holds 0, and n + 1 with n, holds every natural.
LEMMA SetInduction ==
    ASSUME NEW S, 0 \in S, \A n \in Nat : n \in S => n + 1 \in S
    PROVE  Nat \subseteq S
<1> SUFFICES ASSUME Nat \ S # {} PROVE FALSE
  OBVIOUS
<1>1. PICK x \in Nat \ S : \A y \in Nat \ S : x <= y
  BY LeastOf
<1>2. x - 1 \in Nat /\ x - 1 \in S
  BY <1>1
<1>3. QED
  BY <1>1, <1>2

\* The first n doublings.
Doublings(n) ==
    {f \in [0 .. n -> Nat] : f[0] = BackoffMin /\ \A i \in 1 .. n : f[i] = 2 * f[i - 1]}

LEMMA DoublingsExtend ==
    ASSUME NEW n \in Nat, NEW f \in Doublings(n)
    PROVE  Doublings(n + 1) # {}
<1> DEFINE g == [i \in 0 .. n + 1 |-> IF i = n + 1 THEN 2 * f[n] ELSE f[i]]
<1>1. /\ f \in [0 .. n -> Nat] /\ f[0] = BackoffMin
      /\ \A i \in 1 .. n : f[i] = 2 * f[i - 1]
  BY DEF Doublings
<1>2. f[n] \in Nat
  BY <1>1
<1>3. g \in [0 .. n + 1 -> Nat]
  BY <1>1, <1>2
<1>4. g[0] = BackoffMin
  BY <1>1
<1>5. ASSUME NEW i \in 1 .. n + 1 PROVE g[i] = 2 * g[i - 1]
  <2>1. CASE i = n + 1
    <3>1. i \in 0 .. n + 1 /\ i - 1 \in 0 .. n + 1 /\ i - 1 # n + 1 /\ i - 1 = n
      BY <2>1
    <3>2. QED
      BY <2>1, <3>1
  <2>2. CASE i # n + 1
    <3>1. i \in 1 .. n /\ i \in 0 .. n + 1 /\ i - 1 \in 0 .. n + 1 /\ i - 1 # n + 1
      BY <2>2
    <3>2. QED
      BY <1>1, <2>2, <3>1
  <2>3. QED
    BY <2>1, <2>2
<1> HIDE DEF g
<1>6. g \in Doublings(n + 1)
  BY <1>3, <1>4, <1>5 DEF Doublings
<1>7. QED
  BY <1>6

LEMMA DoublingsExist == \A n \in Nat : Doublings(n) # {}
<1> DEFINE S == {n \in Nat : Doublings(n) # {}}
<1>1. 0 \in S
  <2> DEFINE f == [i \in 0 .. 0 |-> BackoffMin]
  <2>1. f \in [0 .. 0 -> Nat] /\ f[0] = BackoffMin
    BY Constants
  <2>2. 1 .. 0 = {}
    OBVIOUS
  <2> HIDE DEF f
  <2>3. f \in Doublings(0)
    BY <2>1, <2>2 DEF Doublings
  <2>4. QED
    BY <2>3
<1>2. ASSUME NEW n \in Nat, n \in S PROVE n + 1 \in S
  <2>1. PICK f \in Doublings(n) : TRUE
    BY <1>2
  <2>2. Doublings(n + 1) # {} /\ n + 1 \in Nat
    BY <2>1, DoublingsExtend
  <2>3. QED
    BY <2>2
<1> HIDE DEF S
<1>3. Nat \subseteq S
  BY <1>1, <1>2, SetInduction
<1>4. QED
  BY <1>3 DEF S

LEMMA DoublingsAgree ==
    ASSUME NEW m \in Nat, NEW n \in Nat, NEW f \in Doublings(m), NEW g \in Doublings(n),
           NEW k \in Nat, k <= m, k <= n
    PROVE  f[k] = g[k]
<1> DEFINE S == {i \in Nat : i <= m /\ i <= n => f[i] = g[i]}
<1>1. 0 \in S
  BY DEF Doublings
<1>2. ASSUME NEW i \in Nat, i \in S PROVE i + 1 \in S
  <2> SUFFICES ASSUME i + 1 <= m, i + 1 <= n PROVE f[i + 1] = g[i + 1]
    OBVIOUS
  <2>1. f[i] = g[i] /\ i + 1 \in 1 .. m /\ i + 1 \in 1 .. n /\ (i + 1) - 1 = i
    BY <1>2
  <2>2. f[i + 1] = 2 * f[(i + 1) - 1] /\ g[i + 1] = 2 * g[(i + 1) - 1]
    BY <2>1 DEF Doublings
  <2>3. QED
    BY <2>1, <2>2
<1> HIDE DEF S
<1>3. Nat \subseteq S
  BY <1>1, <1>2, SetInduction
<1>4. QED
  BY <1>3 DEF S

\* Doubled is what it says: the recursion has a solution.
LEMMA DoublingIs ==
    /\ Doubled \in [Nat -> Nat] /\ Doubled[0] = BackoffMin
    /\ \A k \in Nat : Doubled[k + 1] = 2 * Doubled[k]
<1> DEFINE F(n) == CHOOSE f \in Doublings(n) : TRUE
           D == [k \in Nat |-> F(k)[k]]
           Is(d) == d = [k \in Nat |-> IF k = 0 THEN BackoffMin ELSE 2 * d[k - 1]]
<1>1. \A n \in Nat : F(n) \in Doublings(n)
  BY DoublingsExist
<1> HIDE DEF F
<1>2. \A n \in Nat : F(n)[n] \in Nat
  BY <1>1 DEF Doublings
<1>3. F(0)[0] = BackoffMin
  BY <1>1 DEF Doublings
<1>4. ASSUME NEW n \in Nat, n # 0 PROVE F(n)[n] = 2 * F(n - 1)[n - 1]
  <2>1. n \in 1 .. n /\ n - 1 \in Nat /\ n - 1 <= n /\ n - 1 <= n - 1
    BY <1>4
  <2>2. F(n) \in Doublings(n) /\ F(n - 1) \in Doublings(n - 1)
    BY <1>1, <2>1
  <2>3. F(n)[n] = 2 * F(n)[n - 1]
    BY <2>1, <2>2 DEF Doublings
  <2>4. F(n)[n - 1] = F(n - 1)[n - 1]
    BY <2>1, <2>2, DoublingsAgree
  <2>5. QED
    BY <2>3, <2>4
<1>5. Is(D)
  <2>1. ASSUME NEW k \in Nat PROVE D[k] = IF k = 0 THEN BackoffMin ELSE 2 * D[k - 1]
    <3>1. k # 0 => k - 1 \in Nat
      OBVIOUS
    <3>2. QED
      BY <1>3, <1>4, <3>1
  <2>2. QED
    BY <2>1
<1> HIDE DEF D
<1>6. Doubled = CHOOSE d : Is(d)
  BY DEF Doubled
<1>7. Is(Doubled)
  BY <1>5, <1>6
<1>8. \A k \in Nat : Doubled[k] = IF k = 0 THEN BackoffMin ELSE 2 * Doubled[k - 1]
  BY <1>7
<1>9. Doubled[0] = BackoffMin /\ \A k \in Nat : Doubled[k + 1] = 2 * Doubled[k]
  <2>1. ASSUME NEW k \in Nat PROVE Doubled[k + 1] = 2 * Doubled[k]
    <3>1. k + 1 \in Nat /\ k + 1 # 0 /\ (k + 1) - 1 = k
      OBVIOUS
    <3>2. QED
      BY <1>8, <3>1
  <2>2. QED
    BY <1>8, <2>1
<1>10. \A k \in Nat : Doubled[k] \in Nat
  <2> DEFINE S == {k \in Nat : Doubled[k] \in Nat}
  <2>1. 0 \in S /\ \A k \in Nat : k \in S => k + 1 \in S
    BY <1>9, Constants
  <2> HIDE DEF S
  <2>2. Nat \subseteq S
    BY <2>1, SetInduction
  <2>3. QED
    BY <2>2 DEF S
<1>11. DOMAIN Doubled = Nat /\ Doubled = [k \in Nat |-> Doubled[k]]
  BY <1>7
<1>12. QED
  BY <1>9, <1>10, <1>11

\* The backoff is the one the failed attempts ask for, and an idle session has
\* been left alone for what is not still to come of it.
Spaced(s) ==
    /\ backoff[s] = Least(Doubled[fails[s]], BackoffMax)
    /\ state[s] = "IDLE" => since[s] + Monus(due[s], lag) >= backoff[s]

SpacedInv ==
    /\ since \in [Sessions -> 0 .. Forever] /\ fails \in [Sessions -> Nat]
    /\ \A s \in Sessions : Spaced(s)

\* A first attempt waits kBackoffMinMs.
LEMMA FirstBackoff == Least(Doubled[0], BackoffMax) = BackoffMin
BY Constants, DoublingIs DEF Least

\* session_drop() counts the failure and doubles the backoff, or has both
\* start over.
LEMMA DropSpaced ==
    ASSUME TypeOK, SpacedInv, NEW s \in Sessions, NEW reached \in BOOLEAN,
           Drop(s, reached), lag' = lag
    PROVE  SpacedInv'
<1> DEFINE k == fails[s]
           n == IF reached THEN 0 ELSE IF Doubled[k] < BackoffMax THEN k + 1 ELSE k
<1>1. /\ lag \in Nat /\ due \in [Sessions -> Nat] /\ k \in Nat /\ n \in Nat
      /\ Doubled[k] \in Nat /\ Doubled[n] \in Nat
      /\ backoff \in [Sessions -> BackoffMin .. BackoffMax]
      /\ state \in [Sessions -> {"IDLE", "CONNECTING", "SERVING"}]
      /\ since \in [Sessions -> 0 .. Forever] /\ fails \in [Sessions -> Nat]
      /\ Forever \in Nat
  <2>1. k \in Nat /\ n \in Nat
    BY DEF SpacedInv
  <2>2. Doubled[k] \in Nat /\ Doubled[n] \in Nat
    BY <2>1, DoublingIs
  <2>3. QED
    BY <2>1, <2>2, Constants DEF TypeOK, SpacedInv, Forever
<1>2. BackoffAfter(s, reached) = Least(Doubled[n], BackoffMax)
  <2>1. CASE reached
    BY <2>1, FirstBackoff DEF BackoffAfter
  <2>2. CASE ~reached /\ Doubled[k] < BackoffMax
    <3>1. backoff[s] = Doubled[k] /\ Doubled[n] = 2 * Doubled[k]
      BY <1>1, <2>2, DoublingIs DEF SpacedInv, Spaced, Least
    <3>2. QED
      BY <2>2, <3>1 DEF BackoffAfter
  <2>3. CASE ~reached /\ ~(Doubled[k] < BackoffMax)
    <3>1. backoff[s] = BackoffMax /\ n = k
      BY <1>1, <2>3 DEF SpacedInv, Spaced, Least
    <3>2. QED
      BY <1>1, <2>3, <3>1, Constants DEF BackoffAfter, Least
  <2>4. QED
    BY <2>1, <2>2, <2>3
<1>3. /\ fails' = [fails EXCEPT ![s] = n]
      /\ since' = [since EXCEPT ![s] = 0]
      /\ backoff' = [backoff EXCEPT ![s] = BackoffAfter(s, reached)]
      /\ due' = [due EXCEPT ![s] = BackoffAfter(s, reached) + lag]
      /\ state' = [state EXCEPT ![s] = "IDLE"]
  BY DEF Drop
<1>4. BackoffAfter(s, reached) \in Nat
  BY <1>1, <1>2, Constants DEF Least
<1> HIDE DEF n, k
<1>5. since' \in [Sessions -> 0 .. Forever] /\ fails' \in [Sessions -> Nat]
  BY <1>1, <1>3, Constants
<1>6. ASSUME NEW t \in Sessions PROVE Spaced(t)'
  <2>1. CASE t = s
    <3>1. /\ fails'[t] = n /\ since'[t] = 0
          /\ backoff'[t] = BackoffAfter(s, reached)
          /\ due'[t] = BackoffAfter(s, reached) + lag
      BY <1>1, <1>3, <2>1
    <3>2. Monus(due'[t], lag') = backoff'[t]
      BY <1>1, <1>4, <3>1 DEF Monus
    <3>3. QED
      BY <1>2, <1>4, <3>1, <3>2 DEF Spaced
  <2>2. CASE t # s
    <3>1. /\ fails'[t] = fails[t] /\ since'[t] = since[t] /\ state'[t] = state[t]
          /\ backoff'[t] = backoff[t] /\ due'[t] = due[t]
      BY <1>1, <1>3, <2>2
    <3>2. QED
      BY <3>1 DEF SpacedInv, Spaced
  <2>3. QED
    BY <2>1, <2>2
<1>7. QED
  BY <1>5, <1>6 DEF SpacedInv

LEMMA SpacedStays ==
    ASSUME SpacedInv, UNCHANGED <<lag, state, backoff, due, since, fails>>
    PROVE  SpacedInv'
BY DEF SpacedInv, Spaced

\* Time that passes is taken off the deadline and added to what a session was
\* left alone.
LEMMA TickSpaced ==
    ASSUME TypeOK, SpacedInv, Tick
    PROVE  SpacedInv'
<1>1. /\ lag \in Nat /\ due \in [Sessions -> Nat]
      /\ since \in [Sessions -> 0 .. Forever]
      /\ backoff \in [Sessions -> BackoffMin .. BackoffMax]
      /\ UNCHANGED <<state, backoff, fails>>
      /\ since' = [s \in Sessions |-> IF state[s] = "SERVING" THEN since[s]
                                       ELSE Least(since[s] + 1, Forever)]
      /\ Forever \in Nat /\ BackoffMax <= Forever
  BY Constants DEF TypeOK, SpacedInv, Tick, Forever
<1>2. ASSUME NEW s \in Sessions
      PROVE  /\ since'[s] \in 0 .. Forever
             /\ state[s] # "SERVING" =>
                  \/ since'[s] = since[s] + 1
                  \/ since'[s] = Forever /\ backoff[s] <= since'[s]
  BY <1>1, Constants DEF Least
<1>3. since' \in [Sessions -> 0 .. Forever] /\ fails' \in [Sessions -> Nat]
  BY <1>1, <1>2 DEF SpacedInv
<1>4. ASSUME NEW s \in Sessions
      PROVE  /\ Monus(due'[s], lag') \in Nat
             /\ Monus(due'[s], lag') + 1 >= Monus(due[s], lag)
  <2>1. CASE due' = [t \in Sessions |-> Monus(due[t], 1)] /\ lag' = lag
    BY <1>1, <2>1 DEF Monus
  <2>2. CASE due' = due /\ lag' = lag + 1
    BY <1>1, <2>2 DEF Monus
  <2>3. QED
    BY <2>1, <2>2 DEF Tick
<1>5. ASSUME NEW s \in Sessions PROVE Spaced(s)'
  <2>1. /\ Spaced(s) /\ Monus(due[s], lag) \in Nat
        /\ since[s] \in Nat /\ since'[s] \in Nat /\ backoff[s] \in Nat
    BY <1>1, <1>3, Constants DEF SpacedInv, Monus
  <2>2. state[s] = "IDLE" => since'[s] + Monus(due'[s], lag') >= backoff[s]
    BY <1>2, <1>4, <2>1 DEF Spaced
  <2>3. QED
    BY <1>1, <2>1, <2>2 DEF Spaced
<1>6. QED
  BY <1>3, <1>5 DEF SpacedInv

LEMMA PollSpaced ==
    ASSUME TypeOK, SpacedInv, PollReturns
    PROVE  SpacedInv'
<1>1. /\ lag \in Nat /\ lag' = 0 /\ due \in [Sessions -> Nat]
      /\ due' = [s \in Sessions |-> Monus(due[s], lag)]
      /\ UNCHANGED <<state, backoff, since, fails>>
  BY Constants DEF TypeOK, PollReturns
<1>2. \A s \in Sessions : Monus(due'[s], lag') = Monus(due[s], lag)
  BY <1>1 DEF Monus
<1>3. QED
  BY <1>1, <1>2 DEF SpacedInv, Spaced

\* A session that is not left alone has nothing to wait for.
LEMMA LiveSpaced ==
    ASSUME TypeOK, SpacedInv, NEW s \in Sessions, lag' = lag,
           since' = [since EXCEPT ![s] = 0],
           state'[s] # "IDLE", state \in [Sessions -> {"IDLE", "CONNECTING", "SERVING"}],
           \A t \in Sessions \ {s} : state'[t] = state[t] /\ due'[t] = due[t],
           \/ UNCHANGED <<backoff, fails>>
           \/ /\ backoff' = [backoff EXCEPT ![s] = BackoffMin]
              /\ fails' = [fails EXCEPT ![s] = 0]
    PROVE  SpacedInv'
<1>1. /\ backoff \in [Sessions -> BackoffMin .. BackoffMax]
      /\ fails \in [Sessions -> Nat] /\ since \in [Sessions -> 0 .. Forever]
      /\ Forever \in Nat
  BY Constants DEF TypeOK, SpacedInv, Forever
<1>2. /\ fails' \in [Sessions -> Nat] /\ since' \in [Sessions -> 0 .. Forever]
      /\ \A t \in Sessions \ {s} : since'[t] = since[t]
  BY <1>1
<1>3. ASSUME NEW t \in Sessions PROVE Spaced(t)'
  <2>1. CASE t # s
    <3>1. /\ fails'[t] = fails[t] /\ backoff'[t] = backoff[t]
          /\ due'[t] = due[t] /\ state'[t] = state[t] /\ Spaced(t)
          /\ since'[t] = since[t]
      BY <1>1, <1>2, <2>1 DEF SpacedInv
    <3>2. QED
      BY <3>1 DEF Spaced
  <2>2. CASE t = s
    <3>1. \/ fails'[t] = fails[t] /\ backoff'[t] = backoff[t] /\ Spaced(t)
          \/ fails'[t] = 0 /\ backoff'[t] = BackoffMin
      BY <1>1, <2>2 DEF SpacedInv
    <3>2. QED
      BY <2>2, <3>1, FirstBackoff DEF Spaced
  <2>3. QED
    BY <2>1, <2>2
<1>4. QED
  BY <1>2, <1>3 DEF SpacedInv

LEMMA FreshSpaced ==
    ASSUME Fresh
    PROVE  SpacedInv'
<1>1. /\ since' = [s \in Sessions |-> BackoffMin]
      /\ fails' = [s \in Sessions |-> 0] /\ due' = [s \in Sessions |-> 0]
      /\ backoff' = [s \in Sessions |-> BackoffMin] /\ lag' = 0
  BY DEF Fresh, All
<1>2. QED
  BY <1>1, Constants, FirstBackoff DEF SpacedInv, Spaced, Monus, Forever

LEMMA SpacedStart ==
    ASSUME Init
    PROVE  SpacedInv
<1>1. /\ since = [s \in Sessions |-> BackoffMin]
      /\ fails = [s \in Sessions |-> 0] /\ due = [s \in Sessions |-> 0]
      /\ backoff = [s \in Sessions |-> BackoffMin] /\ lag = 0
  BY DEF Init, All
<1>2. QED
  BY <1>1, Constants, FirstBackoff DEF SpacedInv, Spaced, Monus, Forever

LEMMA SpacedStep ==
    ASSUME TypeOK, SpacedInv, [Next]_vars
    PROVE  SpacedInv'
<1>1. Current \in Sessions
  BY TurnIsASession DEF TypeOK
<1>2. state \in [Sessions -> {"IDLE", "CONNECTING", "SERVING"}]
  BY DEF TypeOK
<1>3. CASE UNCHANGED <<lag, state, backoff, due, since, fails>>
  BY <1>3, SpacedStays
<1>4. CASE NotDueYet \/ Restart \/ UNCHANGED vars
  BY <1>3, <1>4 DEF NotDueYet, Restart, vars, loopVars, sessionVars
<1>5. CASE SessionConnect
  <2>1. CASE Drop(Current, FALSE)
    BY <1>1, <1>5, <2>1, DropSpaced DEF SessionConnect
  <2>2. CASE /\ state' = [state EXCEPT ![Current] = "CONNECTING"]
             /\ due' = [due EXCEPT ![Current] = ConnackTimeout + lag]
             /\ since' = [since EXCEPT ![Current] = 0]
             /\ UNCHANGED <<backoff, fails, lag>>
    <3>1. /\ state'[Current] # "IDLE"
          /\ \A t \in Sessions \ {Current} : state'[t] = state[t] /\ due'[t] = due[t]
      BY <1>1, <2>2 DEF TypeOK
    <3>2. QED
      BY <1>1, <1>2, <2>2, <3>1, LiveSpaced
  <2>3. QED
    BY <1>5, <2>1, <2>2 DEF SessionConnect
<1>6. CASE PollReturns
  BY <1>6, PollSpaced
<1>7. CASE Tick
  BY <1>7, TickSpaced
<1>8. CASE Input
  <2>1. (state[Current] = "SERVING") \in BOOLEAN
    OBVIOUS
  <2>2. CASE Drop(Current, state[Current] = "SERVING")
    BY <1>1, <1>8, <2>1, <2>2, DropSpaced DEF Input
  <2>3. QED
    BY <1>3, <1>8, <2>2 DEF Input, sessionVars
<1>9. CASE Handle
  <2>1. CASE SessionServing(Current)
    <3>1. /\ state' = [state EXCEPT ![Current] = "SERVING"]
          /\ due' = [due EXCEPT ![Current] = 0]
          /\ backoff' = [backoff EXCEPT ![Current] = BackoffMin]
          /\ fails' = [fails EXCEPT ![Current] = 0]
          /\ since' = [since EXCEPT ![Current] = 0] /\ lag' = lag
      BY <1>9, <2>1 DEF SessionServing, Handle
    <3>2. /\ state'[Current] # "IDLE"
          /\ \A t \in Sessions \ {Current} : state'[t] = state[t] /\ due'[t] = due[t]
      BY <1>1, <3>1 DEF TypeOK
    <3>3. QED
      BY <1>1, <1>2, <3>1, <3>2, LiveSpaced
  <2>2. CASE \E reached \in BOOLEAN : Drop(Current, reached)
    BY <1>1, <1>9, <2>2, DropSpaced DEF Handle
  <2>3. QED
    BY <1>3, <1>9, <2>1, <2>2 DEF Handle
<1>10. CASE Publish
  <2>1. CASE Drop(Current, TRUE)
    BY <1>1, <1>10, <2>1, DropSpaced DEF Publish
  <2>2. QED
    BY <1>3, <1>10, <2>1 DEF Publish
<1>11. CASE Crash
  BY <1>11, FreshSpaced DEF Crash
<1>12. ASSUME NEW s \in Sessions,
              Produce(s) \/ BrokerTakes(s) \/ NetworkBreaks(s) \/ TcpGivesUp(s)
       PROVE  SpacedInv'
  BY <1>3, <1>12 DEF Produce, BrokerTakes, NetworkBreaks, TcpGivesUp, loopVars,
                     sessionVars
<1>13. QED
  BY <1>4, <1>5, <1>6, <1>7, <1>8, <1>9, <1>10, <1>11, <1>12 DEF Next, Main

LEMMA SpacedIsSpaced ==
    ASSUME TypeOK, SpacedInv
    PROVE  RetriesAreSpaced
<1> SUFFICES ASSUME NEW s \in Sessions, Attempting(s)
             PROVE  since[s] >= Least(Doubled[fails[s]], BackoffMax)
  BY DEF RetriesAreSpaced
<1>1. /\ state[s] = "IDLE" /\ due[s] = 0 /\ lag \in Nat
      /\ since[s] \in Nat /\ Spaced(s)
  BY Constants DEF Attempting, TypeOK, SpacedInv, Forever
<1>2. Monus(due[s], lag) = 0
  BY <1>1 DEF Monus
<1>3. QED
  BY <1>1, <1>2 DEF Spaced

\* A session that failed k times in a row is left alone for kBackoffMinMs * 2^k,
\* up to kBackoffMaxMs, however long the other one blocked the loop in
\* mqtt_connect() meanwhile (session_drop(), main.cpp:642-662).
THEOREM RetriesKeepTheirDistance == Spec => []RetriesAreSpaced
<1>1. Init => TypeOK /\ SpacedInv
  BY TypeStart, SpacedStart
<1>2. TypeOK /\ SpacedInv /\ [Next]_vars => (TypeOK /\ SpacedInv)'
  BY TypeStep, SpacedStep
<1>3. TypeOK /\ SpacedInv => RetriesAreSpaced
  BY SpacedIsSpaced
<1>4. QED
  BY <1>1, <1>2, <1>3, PTL DEF Spec

-----------------------------------------------------------------------------
(* How long a session is held up *)

\* Whether s has had its turn in this phase of the pass, and whether main() is
\* yet to look at its deadline if that has come.
Turned(s) == \E i \in 1 .. turn - 1 : Order[i] = s
Awaits(s) ==
    \/ state[s] = "IDLE" /\ pc # "poll" /\ (pc = "connect" => ~Turned(s))
    \/ state[s] = "CONNECTING" /\ (pc = "input" \/ (pc = "handle" /\ ~Turned(s)))

\* A deadline is as far off as it was set, counted on the clock of the pass; one
\* that main() has slept past is looked at in the pass that follows.
Limit(s) == IF state[s] = "IDLE" THEN backoff[s] ELSE ConnackTimeout
Timely(s) ==
    state[s] # "SERVING" =>
        \/ since[s] + due[s] <= Limit(s) + lag
        \/ due[s] = 0 /\ since[s] <= Limit(s) + MaxBlock + lag /\ Awaits(s)

\* After zsock_poll() `now` is the time it is.
LagInv == pc \in {"input", "handle", "publish"} => lag = 0

TimelyInv == LagInv /\ \A s \in Sessions : Timely(s)

\* In the last turn each session has had its own, or has it.
LEMMA EveryoneHasATurn ==
    ASSUME turn = Len(Order), NEW s \in Sessions
    PROVE  s = Current \/ Turned(s)
<1>1. CASE Sessions = {"own", "peer"}
  <2>1. Order = <<"own", "peer">> /\ Len(Order) = 2 /\ turn = 2
    BY <1>1 DEF Order
  <2>2. Current = "peer" /\ 1 \in 1 .. turn - 1 /\ Order[1] = "own"
    BY <2>1 DEF Current
  <2>3. QED
    BY <1>1, <2>2 DEF Turned
<1>2. CASE Sessions # {"own", "peer"}
  <2>1. Order = <<CHOOSE t \in Sessions : TRUE>> /\ Len(Order) = 1 /\ turn = 1
    BY <1>2 DEF Order
  <2>2. Current = CHOOSE t \in Sessions : TRUE
    BY <2>1 DEF Current
  <2>3. Sessions = {s}
    BY <1>2, Constants
  <2>4. QED
    BY <2>2, <2>3
<1>3. QED
  BY <1>1, <1>2

LEMMA Turns ==
    ASSUME turn \in 1 .. Len(Order), NEW next, Advance(next), NEW s \in Sessions
    PROVE  \/ pc' = pc /\ (Turned(s)' <=> Turned(s) \/ s = Current)
           \/ pc' = next /\ ~Turned(s)' /\ (s = Current \/ Turned(s))
<1>1. Len(Order) \in Nat /\ turn \in Nat
  BY OrderIsNotEmpty
<1>2. CASE turn < Len(Order)
  <2>1. pc' = pc /\ turn' = turn + 1
    BY <1>2 DEF Advance
  <2>2. 1 .. turn' - 1 = (1 .. turn - 1) \cup {turn}
    BY <1>1, <2>1
  <2>3. QED
    BY <2>1, <2>2 DEF Turned, Current
<1>3. CASE ~(turn < Len(Order))
  <2>1. pc' = next /\ turn' = 1 /\ turn = Len(Order)
    BY <1>1, <1>3 DEF Advance
  <2>2. 1 .. turn' - 1 = {}
    BY <2>1
  <2>3. QED
    BY <2>1, <2>2, EveryoneHasATurn DEF Turned
<1>4. QED
  BY <1>2, <1>3

\* The numbers the proofs below count with.
LEMMA Ticks ==
    ASSUME TypeOK, SpacedInv, NEW s \in Sessions
    PROVE  /\ since[s] \in Nat /\ due[s] \in Nat /\ backoff[s] \in Nat
           /\ lag \in Nat /\ lag <= MaxBlock /\ MaxBlock \in Nat
           /\ ConnackTimeout \in Nat /\ Limit(s) \in Nat
           /\ state[s] \in {"IDLE", "CONNECTING", "SERVING"}
<1>1. Forever \in Nat
  BY Constants DEF Forever
<1>2. QED
  BY <1>1, Constants DEF TypeOK, SpacedInv, Limit

\* A session that nothing happens to stays timely, unless its turn has passed.
LEMMA TimelyStays ==
    ASSUME NEW s \in Sessions, Timely(s), lag' = lag,
           state'[s] = state[s], backoff'[s] = backoff[s],
           due'[s] = due[s], since'[s] = since[s],
           due[s] = 0 /\ Awaits(s) => Awaits(s)'
    PROVE  Timely(s)'
BY DEF Timely, Limit

\* A session that is given up starts its backoff.
LEMMA DropTimely ==
    ASSUME TypeOK, SpacedInv, NEW s \in Sessions, NEW reached \in BOOLEAN,
           Drop(s, reached), lag' = lag
    PROVE  /\ Timely(s)'
           /\ \A t \in Sessions \ {s} :
                /\ state'[t] = state[t] /\ backoff'[t] = backoff[t]
                /\ due'[t] = due[t] /\ since'[t] = since[t]
<1>1. /\ state'[s] = "IDLE" /\ backoff'[s] = BackoffAfter(s, reached)
      /\ due'[s] = BackoffAfter(s, reached) + lag /\ since'[s] = 0
      /\ \A t \in Sessions \ {s} :
           /\ state'[t] = state[t] /\ backoff'[t] = backoff[t]
           /\ due'[t] = due[t] /\ since'[t] = since[t]
  BY DEF Drop, TypeOK, SpacedInv
<1>2. BackoffAfter(s, reached) \in Nat /\ lag \in Nat
  BY Ticks, Constants DEF BackoffAfter, Least
<1>3. since'[s] + due'[s] <= Limit(s)' + lag'
  BY <1>1, <1>2 DEF Limit
<1>4. QED
  BY <1>1, <1>3 DEF Timely

\* Until zsock_poll() a session that is due is not passed over.
LEMMA ConnectTimely ==
    ASSUME TypeOK, SpacedInv, TimelyInv, SessionConnect \/ NotDueYet
    PROVE  TimelyInv'
<1>1. /\ Current \in Sessions /\ turn \in 1 .. Len(Order)
      /\ pc = "connect" /\ Advance("poll") /\ up /\ lag' = lag
  BY TurnIsASession DEF TypeOK, SessionConnect, NotDueYet, Attempting
<1>2. pc' \in {"connect", "poll"} /\ LagInv'
  BY <1>1, Advances DEF LagInv
<1>3. ASSUME NEW t \in Sessions, t # Current \/ ~Attempting(Current),
             state'[t] = state[t], backoff'[t] = backoff[t],
             due'[t] = due[t], since'[t] = since[t]
      PROVE  Timely(t)'
  <2>1. due[t] = 0 /\ Awaits(t) => state[t] = "IDLE" /\ ~Turned(t) /\ t # Current
    BY <1>1, <1>3 DEF Awaits, Attempting
  <2>2. due[t] = 0 /\ Awaits(t) => pc' = "connect" /\ ~Turned(t)'
    BY <1>1, <2>1, Turns
  <2>3. due[t] = 0 /\ Awaits(t) => Awaits(t)'
    BY <1>3, <2>1, <2>2 DEF Awaits
  <2>4. QED
    BY <1>1, <1>3, <2>3, TimelyStays DEF TimelyInv
<1>4. CASE NotDueYet
  <2>1. ~Attempting(Current) /\ UNCHANGED <<state, backoff, due, since>>
    BY <1>4 DEF NotDueYet, sessionVars
  <2>2. QED
    BY <1>2, <1>3, <2>1 DEF TimelyInv
<1>5. CASE SessionConnect /\ Drop(Current, FALSE)
  BY <1>1, <1>2, <1>3, <1>5, DropTimely DEF TimelyInv
<1>6. CASE SessionConnect /\ ~Drop(Current, FALSE)
  <2>1. /\ state' = [state EXCEPT ![Current] = "CONNECTING"]
        /\ due' = [due EXCEPT ![Current] = ConnackTimeout + lag]
        /\ since' = [since EXCEPT ![Current] = 0]
        /\ backoff' = backoff
    BY <1>6 DEF SessionConnect
  <2>2. /\ state'[Current] = "CONNECTING" /\ due'[Current] = ConnackTimeout + lag
        /\ since'[Current] = 0
        /\ \A t \in Sessions \ {Current} :
             state'[t] = state[t] /\ due'[t] = due[t] /\ since'[t] = since[t]
    BY <1>1, <2>1 DEF TypeOK, SpacedInv
  <2>3. ASSUME NEW t \in Sessions, t = Current PROVE Timely(t)'
    <3>1. /\ state'[t] = "CONNECTING" /\ due'[t] = ConnackTimeout + lag
          /\ since'[t] = 0
      BY <2>2, <2>3
    <3>2. since'[t] + due'[t] <= Limit(t)' + lag'
      BY <1>1, <3>1, Ticks DEF Limit
    <3>3. QED
      BY <3>2 DEF Timely
  <2>4. QED
    BY <1>2, <1>3, <2>1, <2>2, <2>3 DEF TimelyInv
<1>7. QED
  BY <1>4, <1>5, <1>6

\* zsock_poll() does not sleep past a deadline as `now` has it, so that the true
\* one is passed by no more than mqtt_connect() blocked.
LEMMA PollTimely ==
    ASSUME TypeOK, SpacedInv, TimelyInv, PollReturns
    PROVE  TimelyInv'
<1>1. /\ pc = "poll" /\ pc' = "input" /\ lag' = 0
      /\ due \in [Sessions -> Nat]
      /\ due' = [s \in Sessions |-> Monus(due[s], lag)]
      /\ UNCHANGED <<state, backoff, since>>
  BY DEF PollReturns, TypeOK
<1>2. ASSUME NEW s \in Sessions PROVE Timely(s)'
  <2> SUFFICES ASSUME state[s] # "SERVING" PROVE Timely(s)'
    BY <1>1 DEF Timely
  <2>1. since[s] + due[s] <= Limit(s) + lag
    BY <1>1 DEF TimelyInv, Timely, Awaits
  <2>2. Limit(s)' = Limit(s) /\ due'[s] = Monus(due[s], lag)
    BY <1>1 DEF Limit
  <2>3. CASE lag <= due[s]
    <3>1. since'[s] + due'[s] <= Limit(s)' + lag'
      BY <1>1, <2>1, <2>2, <2>3, Ticks DEF Monus
    <3>2. QED
      BY <3>1 DEF Timely
  <2>4. CASE due[s] < lag
    <3>1. due'[s] = 0 /\ since'[s] <= Limit(s)' + MaxBlock + lag'
      BY <1>1, <2>1, <2>2, <2>4, Ticks DEF Monus
    <3>2. Awaits(s)'
      BY <1>1, Ticks DEF Awaits
    <3>3. QED
      BY <3>1, <3>2 DEF Timely
  <2>5. QED
    BY <2>3, <2>4, Ticks
<1>3. QED
  BY <1>1, <1>2 DEF TimelyInv, LagInv

\* What is left of the timeout is no more than the nearest deadline.
LEMMA NearestDeadline ==
    ASSUME TypeOK, NEW s \in Sessions, state[s] # "SERVING"
    PROVE  PollLeft \in Nat /\ PollLeft <= due[s]
<1>1. Deadlines \subseteq Nat /\ due[s] \in Deadlines
  BY DEF Deadlines, TypeOK
<1>2. PICK x \in Deadlines : \A y \in Deadlines : x <= y
  BY <1>1, LeastOf
<1>3. Min(Deadlines) \in Deadlines /\ \A y \in Deadlines : Min(Deadlines) <= y
  BY <1>2 DEF Min
<1>4. QED
  BY <1>1, <1>3 DEF PollLeft

LEMMA TickTimely ==
    ASSUME TypeOK, SpacedInv, TimelyInv, Tick
    PROVE  TimelyInv'
<1>1. /\ pc' = pc /\ turn' = turn /\ state' = state /\ backoff' = backoff
      /\ pc \in {"poll", "connect"}
      /\ due \in [Sessions -> Nat]
      /\ since' = [s \in Sessions |-> IF state[s] = "SERVING" THEN since[s]
                                       ELSE Least(since[s] + 1, Forever)]
  BY DEF Tick, TypeOK, Attempting
<1>2. ASSUME NEW s \in Sessions PROVE Timely(s)'
  <2> SUFFICES ASSUME state[s] # "SERVING" PROVE Timely(s)'
    BY <1>1 DEF Timely
  <2>1. /\ Limit(s)' = Limit(s) /\ (Awaits(s)' <=> Awaits(s))
        /\ since'[s] <= since[s] + 1 /\ since'[s] \in Nat
    <3>1. since'[s] = Least(since[s] + 1, Forever) /\ Forever \in Nat
      BY <1>1, Constants DEF Forever
    <3>2. since'[s] <= since[s] + 1 /\ since'[s] \in Nat
      BY <3>1, Ticks DEF Least
    <3>3. QED
      BY <1>1, <3>2 DEF Limit, Awaits, Turned
  <2>2. CASE pc = "poll"
    <3>1. PollLeft > 0 /\ lag' = lag /\ due'[s] = Monus(due[s], 1)
      BY <1>1, <2>2 DEF Tick, Attempting
    <3>2. PollLeft \in Nat /\ PollLeft <= due[s]
      BY NearestDeadline
    <3>4. due'[s] = due[s] - 1
      BY <3>1, <3>2, Ticks DEF Monus
    <3>5. since[s] + due[s] <= Limit(s) + lag
      BY <2>2 DEF TimelyInv, Timely, Awaits
    <3>6. since'[s] + due'[s] <= Limit(s)' + lag'
      BY <2>1, <3>1, <3>4, <3>5, Ticks
    <3>7. QED
      BY <3>6 DEF Timely
  <2>3. CASE pc = "connect"
    <3>1. lag' = lag + 1 /\ due'[s] = due[s]
      BY <2>3 DEF Tick
    <3>2. CASE since[s] + due[s] <= Limit(s) + lag
      <4>1. since'[s] + due'[s] <= Limit(s)' + lag'
        BY <2>1, <3>1, <3>2, Ticks
      <4>2. QED
        BY <4>1 DEF Timely
    <3>3. CASE due[s] = 0 /\ since[s] <= Limit(s) + MaxBlock + lag /\ Awaits(s)
      <4>1. due'[s] = 0 /\ since'[s] <= Limit(s)' + MaxBlock + lag'
        BY <2>1, <3>1, <3>3, Ticks
      <4>2. QED
        BY <2>1, <3>3, <4>1 DEF Timely
    <3>4. QED
      BY <3>2, <3>3 DEF TimelyInv, Timely
  <2>4. QED
    BY <1>1, <2>2, <2>3
<1>3. QED
  BY <1>1, <1>2 DEF TimelyInv, LagInv

\* After it each session is looked at once, in its turn.
LEMMA InputTimely ==
    ASSUME TypeOK, SpacedInv, TimelyInv, Input \/ Handle \/ Publish
    PROVE  TimelyInv'
<1>1. /\ Current \in Sessions /\ turn \in 1 .. Len(Order) /\ lag' = lag /\ lag = 0
      /\ \/ pc = "input" /\ Advance("handle")
         \/ pc = "handle" /\ Advance("publish")
         \/ pc = "publish" /\ Advance("connect")
  BY TurnIsASession DEF TypeOK, Input, Handle, Publish, TimelyInv, LagInv
<1>2. LagInv'
  BY <1>1 DEF LagInv
<1>3. ASSUME NEW t \in Sessions,
             state'[t] = state[t], backoff'[t] = backoff[t],
             due'[t] = due[t], since'[t] = since[t],
             t = Current /\ pc = "handle" /\ state[t] = "CONNECTING" => due[t] > 0
      PROVE  Timely(t)'
  <2>1. due[t] = 0 /\ Awaits(t) => Awaits(t)'
    <3> SUFFICES ASSUME due[t] = 0, Awaits(t) PROVE Awaits(t)'
      OBVIOUS
    <3>1. CASE pc = "input"
      <4>1. pc' = "input" \/ (pc' = "handle" /\ ~Turned(t)')
        BY <1>1, <3>1, Turns
      <4>2. QED
        BY <1>3, <4>1 DEF Awaits
    <3>2. CASE pc = "handle"
      <4>1. state[t] = "CONNECTING" => t # Current /\ ~Turned(t)
        BY <1>3, <3>2 DEF Awaits
      <4>2. \/ pc' = "handle" /\ (Turned(t)' <=> Turned(t) \/ t = Current)
            \/ pc' = "publish" /\ (t = Current \/ Turned(t))
        BY <1>1, <3>2, Turns
      <4>3. QED
        BY <1>3, <4>1, <4>2 DEF Awaits
    <3>3. CASE pc = "publish"
      <4>1. pc' = "publish" \/ (pc' = "connect" /\ ~Turned(t)')
        BY <1>1, <3>3, Turns
      <4>2. QED
        BY <1>3, <3>3, <4>1 DEF Awaits
    <3>4. QED
      BY <1>1, <3>1, <3>2, <3>3
  <2>2. QED
    BY <1>1, <1>3, <2>1, TimelyStays DEF TimelyInv
<1>4. CASE \E reached \in BOOLEAN : Drop(Current, reached)
  <2>1. PICK reached \in BOOLEAN : Drop(Current, reached)
    BY <1>4
  <2>2. ASSUME NEW t \in Sessions PROVE Timely(t)'
    <3>1. CASE t = Current
      BY <1>1, <2>1, <3>1, DropTimely
    <3>2. CASE t # Current
      <4>1. /\ state'[t] = state[t] /\ backoff'[t] = backoff[t]
            /\ due'[t] = due[t] /\ since'[t] = since[t]
        BY <1>1, <2>1, <3>2, DropTimely
      <4>2. QED
        BY <1>3, <3>2, <4>1
    <3>3. QED
      BY <3>1, <3>2
  <2>3. QED
    BY <1>2, <2>2 DEF TimelyInv
<1>5. CASE Handle /\ SessionServing(Current)
  <2>1. /\ state' = [state EXCEPT ![Current] = "SERVING"]
        /\ due' = [due EXCEPT ![Current] = 0]
        /\ backoff' = [backoff EXCEPT ![Current] = BackoffMin]
        /\ since' = [since EXCEPT ![Current] = 0]
    BY <1>5 DEF SessionServing
  <2>2. ASSUME NEW t \in Sessions PROVE Timely(t)'
    <3>1. CASE t = Current
      <4>1. state'[t] = "SERVING"
        BY <2>1, <3>1 DEF TypeOK
      <4>2. QED
        BY <4>1 DEF Timely
    <3>2. CASE t # Current
      <4>1. /\ state'[t] = state[t] /\ backoff'[t] = backoff[t]
            /\ due'[t] = due[t] /\ since'[t] = since[t]
        BY <2>1, <3>2 DEF TypeOK, SpacedInv
      <4>2. QED
        BY <1>3, <3>2, <4>1
    <3>3. QED
      BY <3>1, <3>2
  <2>3. QED
    BY <1>2, <2>2 DEF TimelyInv
<1>6. CASE /\ UNCHANGED <<state, backoff, due, since>>
           /\ pc = "handle" /\ state[Current] = "CONNECTING" => due[Current] > 0
  <2>1. \A t \in Sessions : Timely(t)'
    BY <1>3, <1>6
  <2>2. QED
    BY <1>2, <2>1 DEF TimelyInv
<1>7. CASE Input
  <2>1. \/ UNCHANGED <<state, backoff, due, since>>
        \/ Drop(Current, state[Current] = "SERVING")
    BY <1>7 DEF Input, sessionVars
  <2>2. pc = "input" /\ (state[Current] = "SERVING") \in BOOLEAN
    BY <1>7 DEF Input
  <2>3. QED
    BY <1>4, <1>6, <2>1, <2>2
<1>8. CASE Handle
  <2>1. \/ SessionServing(Current)
        \/ \E reached \in BOOLEAN : Drop(Current, reached)
        \/ /\ UNCHANGED <<state, backoff, due, since>>
           /\ state[Current] = "CONNECTING" => due[Current] > 0
    BY <1>8 DEF Handle
  <2>2. QED
    BY <1>4, <1>5, <1>6, <1>8, <2>1
<1>9. CASE Publish
  <2>1. \/ UNCHANGED <<state, backoff, due, since>>
        \/ Drop(Current, TRUE)
    BY <1>9 DEF Publish
  <2>2. pc = "publish"
    BY <1>9 DEF Publish
  <2>3. QED
    BY <1>4, <1>6, <2>1, <2>2
<1>10. QED
  BY <1>7, <1>8, <1>9

LEMMA TimelyStart ==
    ASSUME Init
    PROVE  TimelyInv
<1>1. /\ since = [s \in Sessions |-> BackoffMin] /\ due = [s \in Sessions |-> 0]
      /\ backoff = [s \in Sessions |-> BackoffMin]
      /\ state = [s \in Sessions |-> "IDLE"] /\ lag = 0
  BY DEF Init, All
<1>2. QED
  BY <1>1, Constants DEF TimelyInv, LagInv, Timely, Limit

LEMMA FreshTimely ==
    ASSUME Fresh
    PROVE  TimelyInv'
<1>1. /\ since' = [s \in Sessions |-> BackoffMin] /\ due' = [s \in Sessions |-> 0]
      /\ backoff' = [s \in Sessions |-> BackoffMin]
      /\ state' = [s \in Sessions |-> "IDLE"] /\ lag' = 0
  BY DEF Fresh, All
<1>2. QED
  BY <1>1, Constants DEF TimelyInv, LagInv, Timely, Limit

LEMMA TimelyStep ==
    ASSUME TypeOK, SpacedInv, TimelyInv, [Next]_vars
    PROVE  TimelyInv'
<1>1. CASE UNCHANGED <<pc, turn, lag, state, backoff, due, since>>
  BY <1>1 DEF TimelyInv, LagInv, Timely, Limit, Awaits, Turned
<1>2. CASE Restart \/ UNCHANGED vars
  BY <1>1, <1>2 DEF Restart, vars, loopVars, sessionVars
<1>3. CASE Main
  BY <1>3, ConnectTimely, PollTimely, InputTimely DEF Main
<1>4. CASE Tick
  BY <1>4, TickTimely
<1>5. CASE Crash
  BY <1>5, FreshTimely DEF Crash
<1>6. ASSUME NEW s \in Sessions,
             Produce(s) \/ BrokerTakes(s) \/ NetworkBreaks(s) \/ TcpGivesUp(s)
      PROVE  TimelyInv'
  BY <1>1, <1>6 DEF Produce, BrokerTakes, NetworkBreaks, TcpGivesUp, loopVars,
                    sessionVars
<1>7. QED
  BY <1>2, <1>3, <1>4, <1>5, <1>6 DEF Next

LEMMA TimelyIsTimely ==
    ASSUME TypeOK, SpacedInv, TimelyInv
    PROVE  RetriesAreTimely
<1>1. ASSUME NEW s \in Sessions, state[s] = "IDLE"
      PROVE  since[s] <= backoff[s] + 2 * MaxBlock
  <2>1. \/ since[s] + due[s] <= Limit(s) + lag
        \/ since[s] <= Limit(s) + MaxBlock + lag
    BY <1>1 DEF TimelyInv, Timely
  <2>2. Limit(s) = backoff[s]
    BY <1>1 DEF Limit
  <2>3. QED
    BY <2>1, <2>2, Ticks
<1>2. ASSUME NEW s \in Sessions, state[s] = "CONNECTING"
      PROVE  since[s] <= ConnackTimeout + MaxBlock
  <2>1. \/ since[s] + due[s] <= Limit(s) + lag
        \/ since[s] <= Limit(s) + MaxBlock + lag /\ lag = 0
    BY <1>2 DEF TimelyInv, LagInv, Timely, Awaits
  <2>2. Limit(s) = ConnackTimeout
    BY <1>2 DEF Limit
  <2>3. QED
    BY <2>1, <2>2, Ticks
<1>3. QED
  BY <1>1, <1>2 DEF RetriesAreTimely

\* "A session that is down does not stop the others" (main.cpp:800-802): whatever
\* becomes of either, a session that was given up is tried again within its
\* backoff and two passes' mqtt_connect()s, and one without a CONNACK is given up
\* within kConnackTimeoutMs and one pass's.
THEOREM SessionsAreNotHeldUp == Spec => []RetriesAreTimely
<1>1. Init => TypeOK /\ SpacedInv /\ TimelyInv
  BY TypeStart, SpacedStart, TimelyStart
<1>2. TypeOK /\ SpacedInv /\ TimelyInv /\ [Next]_vars
        => (TypeOK /\ SpacedInv /\ TimelyInv)'
  BY TypeStep, SpacedStep, TimelyStep
<1>3. TypeOK /\ SpacedInv /\ TimelyInv => RetriesAreTimely
  BY TimelyIsTimely
<1>4. QED
  BY <1>1, <1>2, <1>3, PTL DEF Spec
=============================================================================
