------------------------------- MODULE BusProofs -------------------------------
(***************************************************************************)
(* Proofs about PlantBus for every set of devices, every number of ticks,  *)
(* connections and requests, and every size of step.                       *)
(*                                                                         *)
(* What one device and its connections look like is said by predicates of  *)
(* the values of that device alone (Link, Told, Sorted, Counted): an       *)
(* action moves one device, or gives every device one message more.        *)
(***************************************************************************)
EXTENDS PlantBus, TLAPS

-----------------------------------------------------------------------------
(* Sequences of messages.                                                  *)

LEMMA AppendFacts ==
    ASSUME NEW S, NEW q \in Seq(S), NEW m \in S
    PROVE  /\ Append(q, m) \in Seq(S)
           /\ Len(Append(q, m)) = Len(q) + 1
           /\ Len(q) \in Nat
           /\ DOMAIN q = 1 .. Len(q)
           /\ DOMAIN Append(q, m) = 1 .. Len(q) + 1
           /\ Append(q, m)[Len(q) + 1] = m
           /\ \A i \in 1 .. Len(q) : Append(q, m)[i] = q[i]
           /\ Append(q, m) # <<>>
OBVIOUS

LEMMA TailFacts ==
    ASSUME NEW S, NEW q \in Seq(S), q # <<>>
    PROVE  /\ Tail(q) \in Seq(S)
           /\ Head(q) \in S
           /\ Head(q) = q[1]
           /\ Len(q) \in Nat \ {0}
           /\ DOMAIN q = 1 .. Len(q)
           /\ Len(Tail(q)) = Len(q) - 1
           /\ DOMAIN Tail(q) = 1 .. Len(q) - 1
           /\ \A i \in 1 .. Len(q) - 1 : Tail(q)[i] = q[i + 1]
OBVIOUS

LEMMA CutFacts ==
    ASSUME NEW S, NEW q \in Seq(S), NEW n \in 0 .. Len(q)
    PROVE  /\ SubSeq(q, 1, n) \in Seq(S)
           /\ Len(q) \in Nat
           /\ DOMAIN q = 1 .. Len(q)
           /\ Len(SubSeq(q, 1, n)) = n
           /\ DOMAIN SubSeq(q, 1, n) = 1 .. n
           /\ \A i \in 1 .. n : SubSeq(q, 1, n)[i] = q[i]
OBVIOUS

LEMMA EmptyFacts ==
    ASSUME NEW S
    PROVE  <<>> \in Seq(S) /\ Len(<<>>) = 0 /\ DOMAIN <<>> = {}
OBVIOUS

LEMMA EmptyLine ==
    ASSUME NEW S, NEW q \in Seq(S), Len(q) = 0
    PROVE  q = <<>>
OBVIOUS

LEMMA MessageTypes ==
    /\ Hello \in Messages /\ Hello.type = "HELLO"
    /\ \A p \in BOOLEAN : /\ Pausing(p) \in Messages
                          /\ Pausing(p).type \in {"PAUSE", "RESUME"}
                          /\ (Pausing(p).type = "PAUSE") <=> p
    /\ \A n : Tick(n).type = "TICK" /\ Tick(n).tick = n /\ Done(n).type = "TICK_DONE" /\ Done(n).tick = n
    /\ \A n \in 1 .. MaxTick : Tick(n) \in Messages /\ Done(n) \in Messages
BY DEF Messages, Hello, Pausing, Tick, Done

LEMMA WelcomeType ==
    ASSUME paused \in BOOLEAN
    PROVE  Welcome \in Messages /\ Welcome.type = "WELCOME" /\ Welcome.paused = paused
BY DEF Messages, Welcome

-----------------------------------------------------------------------------
(* The connections of one device: only the newest is in use, a HELLO that  *)
(* has not been read is the first message of a connection newer than the   *)
(* registered one, and whatever else waits to be read is of that one.      *)

Link(reg, cn, last, ob) ==
    /\ cn \in {0, last} /\ reg <= last
    /\ \A e \in Connections : e > last => ob[e] = <<>>
    /\ \A e \in Connections, i \in Nat :
           i \in DOMAIN ob[e] /\ ob[e][i].type = "HELLO" => i = 1 /\ e > reg
    /\ \A e \in Connections : e # reg /\ ob[e] # <<>> => ob[e][1].type = "HELLO"
    /\ cn # 0 /\ cn # reg => ob[cn] # <<>>

Lines == [Connections -> Seq(Messages)]

\* What _handle_conn leaves of the lines of a device when it reads a HELLO.
Registered(ob, reg, c) ==
    [e \in Connections |-> IF e = reg THEN <<>> ELSE IF e = c THEN Tail(ob[e]) ELSE ob[e]]

\* What reading, connecting, breaking and sending leave of them.
Popped(ob, c)      == [ob EXCEPT ![c] = Tail(@)]
Opened(ob, c)      == [ob EXCEPT ![c] = <<Hello>>]
Cut(ob, c, n)      == [ob EXCEPT ![c] = SubSeq(@, 1, n)]
Extended(ob, c, m) == [ob EXCEPT ![c] = Append(@, m)]

LEMMA MaxConnNat == MaxConn \in Nat /\ Connections = 1 .. MaxConn
BY BusAssumption DEF BusAssumption, Connections

LEMMA LinkRegister ==
    ASSUME NEW ob \in Lines, NEW reg \in 0 .. MaxConn, NEW cn, NEW last \in 0 .. MaxConn,
           NEW c \in Connections, Link(reg, cn, last, ob),
           ob[c] # <<>>, ob[c][1].type = "HELLO",
           \A e \in 1 .. c - 1 : \A i \in DOMAIN ob[e] : ob[e][i].type # "HELLO"
    PROVE  /\ Link(c, cn, last, Registered(ob, reg, c))
           /\ c > reg
           /\ Registered(ob, reg, c) \in Lines
<1> DEFINE new == Registered(ob, reg, c)
<1>1. \A e \in Connections : ob[e] \in Seq(Messages)
  BY DEF Lines
<1>2. DOMAIN ob[c] = 1 .. Len(ob[c]) /\ Len(ob[c]) \in Nat \ {0}
  BY <1>1, TailFacts
<1>3. c > reg /\ c <= last /\ c \in Nat /\ reg \in Nat /\ last \in Nat
  BY <1>2, MaxConnNat DEF Link
<1>4. /\ new[reg] = <<>> \/ reg \notin Connections
      /\ new[c] = Tail(ob[c])
      /\ \A e \in Connections : e # reg /\ e # c => new[e] = ob[e]
      /\ \A e \in Connections : e = reg => new[e] = <<>>
  BY <1>3 DEF Registered
<1>5. new \in Lines
  <2>1. Tail(ob[c]) \in Seq(Messages)
    BY <1>1, TailFacts
  <2>2. \A e \in Connections :
          (IF e = reg THEN <<>> ELSE IF e = c THEN Tail(ob[e]) ELSE ob[e]) \in Seq(Messages)
    BY <1>1, <2>1, EmptyFacts
  <2> QED
    BY <2>2 DEF Registered, Lines
<1>6. \A e \in Connections : e > last => new[e] = <<>>
  BY <1>3, <1>4, MaxConnNat DEF Link
<1>7. ASSUME NEW e \in Connections, NEW i \in Nat, i \in DOMAIN new[e], new[e][i].type = "HELLO"
      PROVE  i = 1 /\ e > c
  <2>1. e # reg
    BY <1>4, <1>7, EmptyFacts
  <2>2. e # c
    <3> SUFFICES ASSUME e = c PROVE FALSE
      OBVIOUS
    <3>1. i \in 1 .. Len(ob[c]) - 1 /\ new[c][i] = ob[c][i + 1]
      BY <1>1, <1>4, <1>7, TailFacts
    <3>2. i + 1 \in DOMAIN ob[c] /\ i + 1 \in Nat /\ ob[c][i + 1].type = "HELLO"
      BY <1>2, <1>7, <3>1
    <3>3. i + 1 = 1
      BY <3>2 DEF Link
    <3> QED
      BY <3>1, <3>3
  <2>3. new[e] = ob[e]
    BY <1>4, <2>1, <2>2
  <2>4. i = 1
    BY <1>7, <2>3 DEF Link
  <2>5. ~(e < c)
    BY <1>7, <2>3, MaxConnNat, <1>3
  <2> QED
    BY <2>2, <2>4, <2>5, MaxConnNat, <1>3
<1>8. \A e \in Connections : e # c /\ new[e] # <<>> => new[e][1].type = "HELLO"
  BY <1>4 DEF Link
<1>9. cn # 0 /\ cn # c => new[cn] # <<>>
  <2> SUFFICES ASSUME cn # 0, cn # c PROVE new[cn] # <<>>
    OBVIOUS
  <2>1. cn = last /\ cn > c /\ cn \in Connections
    BY <1>3, MaxConnNat DEF Link
  <2>2. cn # reg
    BY <1>3, <2>1
  <2> QED
    BY <1>4, <2>1, <2>2 DEF Link
<1> HIDE DEF new
<1>10. Link(c, cn, last, new)
  BY <1>3, <1>6, <1>7, <1>8, <1>9 DEF Link
<1> QED
  BY <1>3, <1>5, <1>10 DEF new

(* An answer that is read comes on the registered connection.              *)
LEMMA LinkAnswer ==
    ASSUME NEW ob \in Lines, NEW reg \in 0 .. MaxConn, NEW cn, NEW last \in 0 .. MaxConn,
           NEW c \in Connections, Link(reg, cn, last, ob),
           ob[c] # <<>>, ob[c][1].type # "HELLO"
    PROVE  /\ Link(reg, cn, last, Popped(ob, c))
           /\ c = reg
           /\ Popped(ob, c) \in Lines
<1> DEFINE new == Popped(ob, c)
<1>1. ob[c] \in Seq(Messages) /\ Tail(ob[c]) \in Seq(Messages)
  BY TailFacts DEF Lines
<1>2. new \in Lines /\ new[c] = Tail(ob[c]) /\ \A e \in Connections : e # c => new[e] = ob[e]
  BY <1>1 DEF Lines, Popped
<1>3. c = reg /\ c <= last /\ c \in Nat
  BY MaxConnNat DEF Link
<1>4. ASSUME NEW e \in Connections, NEW i \in Nat, i \in DOMAIN new[e], new[e][i].type = "HELLO"
      PROVE  i = 1 /\ e > reg
  <2>1. CASE e # c
    BY <1>2, <1>4, <2>1 DEF Link
  <2>2. CASE e = c
    <3>1. /\ DOMAIN ob[c] = 1 .. Len(ob[c]) /\ Len(ob[c]) \in Nat
          /\ DOMAIN Tail(ob[c]) = 1 .. Len(ob[c]) - 1
          /\ \A j \in 1 .. Len(ob[c]) - 1 : Tail(ob[c])[j] = ob[c][j + 1]
      BY <1>1, TailFacts
    <3>2. i \in 1 .. Len(ob[c]) - 1 /\ ob[c][i + 1].type = "HELLO"
      BY <1>2, <1>4, <2>2, <3>1
    <3>3. i + 1 \in DOMAIN ob[c] /\ i + 1 \in Nat
      BY <3>1, <3>2
    <3>4. c > reg
      BY <3>2, <3>3 DEF Link
    <3> QED
      BY <1>3, <3>4
  <2> QED
    BY <2>1, <2>2
<1>5. \A e \in Connections : e > last => new[e] = <<>>
  BY <1>2, <1>3, MaxConnNat DEF Link
<1>6. \A e \in Connections : e # reg /\ new[e] # <<>> => new[e][1].type = "HELLO"
  BY <1>2, <1>3 DEF Link
<1>7. cn # 0 /\ cn # reg => new[cn] # <<>>
  <2>1. cn # 0 => cn \in Connections
    BY MaxConnNat DEF Link
  <2> QED
    BY <1>2, <1>3, <2>1 DEF Link
<1> HIDE DEF new
<1>8. Link(reg, cn, last, new)
  BY <1>4, <1>5, <1>6, <1>7 DEF Link
<1> QED
  BY <1>2, <1>3, <1>8 DEF new

LEMMA LinkForget ==
    ASSUME NEW ob \in Lines, NEW reg \in 0 .. MaxConn, NEW cn, NEW last \in 0 .. MaxConn,
           NEW c \in Connections, Link(reg, cn, last, ob), ob[c] = <<>>, cn # c
    PROVE  Link(IF reg = c THEN 0 ELSE reg, cn, last, ob)
<1>1. CASE reg # c
  BY <1>1
<1>2. CASE reg = c
  <2>1. \A e \in Connections : e > 0
    BY MaxConnNat
  <2>2. last >= 0
    OBVIOUS
  <2>3. \A e \in Connections : e # 0 /\ ob[e] # <<>> => ob[e][1].type = "HELLO"
    BY <1>2 DEF Link
  <2>4. cn # 0 => ob[cn] # <<>>
    BY <1>2 DEF Link
  <2> QED
    BY <1>2, <2>1, <2>2, <2>3, <2>4 DEF Link
<1> QED
  BY <1>1, <1>2

LEMMA LinkConnect ==
    ASSUME NEW ob \in Lines, NEW reg \in 0 .. MaxConn, NEW last \in 0 .. MaxConn,
           Link(reg, 0, last, ob), last < MaxConn
    PROVE  /\ Link(reg, last + 1, last + 1, Opened(ob, last + 1))
           /\ Opened(ob, last + 1) \in Lines
<1> DEFINE new == Opened(ob, last + 1)
<1>1. last + 1 \in Connections /\ last \in Nat /\ reg \in Nat
  BY MaxConnNat
<1>2. <<Hello>> \in Seq(Messages) /\ DOMAIN <<Hello>> = {1} /\ <<Hello>>[1] = Hello /\ <<Hello>> # <<>>
  BY MessageTypes
<1>3. new \in Lines /\ new[last + 1] = <<Hello>> /\ \A e \in Connections : e # last + 1 => new[e] = ob[e]
  BY <1>1, <1>2 DEF Lines, Opened
<1>4. reg <= last /\ last + 1 > reg
  BY <1>1 DEF Link
<1>5. ASSUME NEW e \in Connections, NEW i \in Nat, i \in DOMAIN new[e], new[e][i].type = "HELLO"
      PROVE  i = 1 /\ e > reg
  BY <1>2, <1>3, <1>4, <1>5 DEF Link
<1>6. \A e \in Connections : e > last + 1 => new[e] = <<>>
  BY <1>1, <1>3, MaxConnNat DEF Link
<1>7. \A e \in Connections : e # reg /\ new[e] # <<>> => new[e][1].type = "HELLO"
  BY <1>2, <1>3, MessageTypes DEF Link
<1> HIDE DEF new
<1>8. Link(reg, last + 1, last + 1, new)
  BY <1>1, <1>2, <1>3, <1>4, <1>5, <1>6, <1>7 DEF Link
<1> QED
  BY <1>3, <1>8 DEF new

LEMMA LinkDisconnect ==
    ASSUME NEW ob \in Lines, NEW reg \in 0 .. MaxConn, NEW cn \in Connections,
           NEW last \in 0 .. MaxConn, Link(reg, cn, last, ob), NEW n \in 0 .. Len(ob[cn])
    PROVE  /\ Link(reg, 0, last, Cut(ob, cn, n))
           /\ Cut(ob, cn, n) \in Lines
<1> DEFINE new == Cut(ob, cn, n)
<1>1. ob[cn] \in Seq(Messages)
  BY DEF Lines
<1>2. /\ SubSeq(ob[cn], 1, n) \in Seq(Messages) /\ DOMAIN SubSeq(ob[cn], 1, n) = 1 .. n
      /\ Len(SubSeq(ob[cn], 1, n)) = n
      /\ DOMAIN ob[cn] = 1 .. Len(ob[cn]) /\ Len(ob[cn]) \in Nat
      /\ \A i \in 1 .. n : SubSeq(ob[cn], 1, n)[i] = ob[cn][i]
  BY <1>1, CutFacts
<1>3. new \in Lines /\ new[cn] = SubSeq(ob[cn], 1, n) /\ \A e \in Connections : e # cn => new[e] = ob[e]
  BY <1>2 DEF Lines, Cut
<1>4. cn = last /\ cn \in Nat \ {0} /\ reg <= last
  BY MaxConnNat DEF Link
<1>5. ASSUME NEW e \in Connections, NEW i \in Nat, i \in DOMAIN new[e], new[e][i].type = "HELLO"
      PROVE  i = 1 /\ e > reg
  <2>1. i \in DOMAIN ob[e] /\ new[e][i] = ob[e][i]
    BY <1>2, <1>3, <1>5
  <2> QED
    BY <1>5, <2>1 DEF Link
<1>6. \A e \in Connections : e > last => new[e] = <<>>
  BY <1>3, <1>4, MaxConnNat DEF Link
<1>7. ASSUME NEW e \in Connections, e # reg, new[e] # <<>> PROVE new[e][1].type = "HELLO"
  <2>1. CASE e # cn
    BY <1>3, <1>7, <2>1 DEF Link
  <2>2. CASE e = cn
    <3>1. n # 0
      BY <1>2, <1>3, <1>7, <2>2, EmptyFacts
    <3>2. ob[cn] # <<>> /\ new[cn][1] = ob[cn][1]
      BY <1>2, <1>3, <3>1, EmptyFacts
    <3> QED
      BY <1>7, <2>2, <3>2 DEF Link
  <2> QED
    BY <2>1, <2>2
<1> HIDE DEF new
<1>8. Link(reg, 0, last, new)
  BY <1>4, <1>5, <1>6, <1>7 DEF Link
<1> QED
  BY <1>3, <1>8 DEF new

(* An answer goes out on today's connection.                               *)
LEMMA LinkHandle ==
    ASSUME NEW ob \in Lines, NEW reg \in 0 .. MaxConn, NEW cn \in Connections,
           NEW last \in 0 .. MaxConn, Link(reg, cn, last, ob),
           NEW m \in Messages, m.type # "HELLO"
    PROVE  /\ Link(reg, cn, last, Extended(ob, cn, m))
           /\ Extended(ob, cn, m) \in Lines
<1> DEFINE new == Extended(ob, cn, m)
<1>1. ob[cn] \in Seq(Messages)
  BY DEF Lines
<1> DEFINE k == Len(ob[cn])
<1>2. /\ Append(ob[cn], m) \in Seq(Messages) /\ k \in Nat
      /\ DOMAIN ob[cn] = 1 .. k
      /\ DOMAIN Append(ob[cn], m) = 1 .. k + 1
      /\ Append(ob[cn], m)[k + 1] = m
      /\ \A i \in 1 .. k : Append(ob[cn], m)[i] = ob[cn][i]
      /\ Append(ob[cn], m) # <<>>
  BY <1>1, AppendFacts
<1>3. /\ new \in Lines /\ new[cn] = Append(ob[cn], m)
      /\ \A e \in Connections : e # cn => new[e] = ob[e]
  BY <1>2 DEF Lines, Extended
<1>4. cn = last /\ cn \in Nat \ {0} /\ reg <= last
  BY MaxConnNat DEF Link
<1> HIDE DEF k
<1>5. ASSUME NEW e \in Connections, NEW i \in Nat, i \in DOMAIN new[e], new[e][i].type = "HELLO"
      PROVE  i = 1 /\ e > reg
  <2>1. i \in DOMAIN ob[e] /\ new[e][i] = ob[e][i]
    BY <1>2, <1>3, <1>5
  <2> QED
    BY <1>5, <2>1 DEF Link
<1>6. \A e \in Connections : e > last => new[e] = <<>>
  BY <1>3, <1>4, MaxConnNat DEF Link
<1>7. ASSUME NEW e \in Connections, e # reg, new[e] # <<>> PROVE new[e][1].type = "HELLO"
  <2>1. CASE e # cn
    BY <1>3, <1>7, <2>1 DEF Link
  <2>2. CASE e = cn
    <3>1. ob[cn] # <<>>
      BY <1>4, <1>7, <2>2 DEF Link
    <3>2. k # 0
      BY <1>1, <3>1 DEF k
    <3>3. new[cn][1] = ob[cn][1]
      BY <1>2, <1>3, <3>2
    <3> QED
      BY <1>7, <2>2, <3>1, <3>3 DEF Link
  <2> QED
    BY <2>1, <2>2
<1> HIDE DEF new
<1>8. Link(reg, cn, last, new)
  BY <1>2, <1>3, <1>4, <1>5, <1>6, <1>7 DEF Link
<1> QED
  BY <1>3, <1>8 DEF new

LEMMA MessageCases ==
    ASSUME NEW m \in Messages
    PROVE  /\ m.type \in {"TICK", "TICK_DONE"} => m.tick \in 1 .. MaxTick
           /\ m.type = "WELCOME" => m.paused \in BOOLEAN
           /\ m.type = "HELLO" => m = Hello
BY DEF Messages, Hello, Pausing, Tick, Done

-----------------------------------------------------------------------------
(* Types, and the connections of every device.                             *)

LinkInv ==
    /\ TypeOK
    /\ \A d \in Devices : Link(registered[d], conn[d], lastConn[d], outbox[d])

LEMMA BusTypes ==
    /\ MaxTick \in Nat /\ MaxConn \in Nat /\ 0 \in 0 .. MaxConn
    /\ StepSizes \subseteq Nat \ {0}
BY BusAssumption DEF BusAssumption

LEMMA LinkStart == Init => LinkInv
<1> SUFFICES ASSUME Init PROVE LinkInv
  OBVIOUS
<1>1. <<>> \in Seq(Messages) /\ DOMAIN <<>> = {}
  BY EmptyFacts
<1>2. TypeOK
  <2>1. inbox \in [Devices -> Seq(Messages)]
    BY <1>1 DEF Init
  <2>2. outbox \in [Devices -> [Connections -> Seq(Messages)]]
    BY <1>1 DEF Init
  <2>3. /\ tick \in 0 .. MaxTick /\ -1 \in -1 .. MaxTick
        /\ 0 \in StepSizes \cup {0} /\ budget \in 0 .. 0
    BY BusTypes DEF Init
  <2>4. signal \in [Devices -> -1 .. MaxTick]
    BY <2>3 DEF Init
  <2>5. /\ waiter \in [expected : SUBSET Devices, received : SUBSET Devices]
        /\ loop \in {"top", "waiting", "tail"} /\ paused \in BOOLEAN
    BY DEF Init, NoWaiter
  <2>6. /\ registered \in [Devices -> 0 .. MaxConn] /\ conn \in [Devices -> 0 .. MaxConn]
        /\ lastConn \in [Devices -> 0 .. MaxConn] /\ heardPaused \in [Devices -> BOOLEAN]
        /\ clogged \in BOOLEAN
    BY BusTypes DEF Init
  <2> QED
    BY <2>1, <2>2, <2>3, <2>4, <2>5, <2>6 DEF TypeOK
<1>3. ASSUME NEW d \in Devices PROVE Link(registered[d], conn[d], lastConn[d], outbox[d])
  <2>1. registered[d] = 0 /\ conn[d] = 0 /\ lastConn[d] = 0 /\ outbox[d] = [c \in Connections |-> <<>>]
    BY DEF Init
  <2>2. \A e \in Connections : outbox[d][e] = <<>>
    BY <2>1
  <2> QED
    BY <1>1, <2>1, <2>2 DEF Link
<1> QED
  BY <1>2, <1>3 DEF LinkInv

LEMMA SentTyped ==
    ASSUME TypeOK, NEW m \in Messages
    PROVE  /\ Sent(m) \in [Devices -> Seq(Messages)]
           /\ \A d \in Devices : Sent(m)[d] = IF d \in Reachable THEN Append(inbox[d], m) ELSE inbox[d]
<1>1. \A d \in Devices : inbox[d] \in Seq(Messages) /\ Append(inbox[d], m) \in Seq(Messages)
  BY AppendFacts DEF TypeOK
<1> QED
  BY <1>1 DEF Sent

(* The tick loop and the requests leave the connections alone.             *)
LoopOrRequest == Loop \/ Pause \/ Resume \/ \E n \in StepSizes : Step(n)

LEMMA LoopLinked == LinkInv /\ LoopOrRequest => LinkInv'
<1> SUFFICES ASSUME LinkInv, LoopOrRequest PROVE LinkInv'
  OBVIOUS
<1> USE BusTypes
<1>1. TypeOK
  BY DEF LinkInv
<1>2. UNCHANGED <<registered, conn, lastConn, outbox, signal, heardPaused, clogged>>
  BY DEF LoopOrRequest, Loop, StartTick, FinishTick, TickTimeout, LoopTail, Pause, Resume, Step,
         Request, deviceVars
<1>3. \A p \in BOOLEAN : Sent(Pausing(p)) \in [Devices -> Seq(Messages)]
  BY <1>1, SentTyped, MessageTypes
<1>4. /\ tick \in 0 .. MaxTick /\ paused \in BOOLEAN /\ loop \in {"top", "waiting", "tail"}
      /\ waiter \in [expected : SUBSET Devices, received : SUBSET Devices]
      /\ inbox \in [Devices -> Seq(Messages)]
  BY <1>1 DEF TypeOK
<1>5. PICK n \in StepSizes \cup {0} : budget \in 0 .. n
  BY <1>1 DEF TypeOK
<1>6. 0 \in StepSizes \cup {0} /\ n \in Nat /\ 0 \in 0 .. 0
  BY <1>5
<1>7. /\ tick' \in 0 .. MaxTick /\ paused' \in BOOLEAN /\ loop' \in {"top", "waiting", "tail"}
      /\ waiter' \in [expected : SUBSET Devices, received : SUBSET Devices]
      /\ inbox' \in [Devices -> Seq(Messages)]
      /\ \E k \in StepSizes \cup {0} : budget' \in 0 .. k
  <2>1. CASE StartTick
    <3>1. tick' = tick + 1 /\ tick' \in 1 .. MaxTick
      BY <1>4, <2>1 DEF StartTick
    <3>2. inbox' = Sent(Tick(tick')) /\ Tick(tick') \in Messages
      BY <2>1, <3>1, MessageTypes DEF StartTick
    <3>3. inbox' \in [Devices -> Seq(Messages)]
      BY <1>1, <3>2, SentTyped
    <3>4. /\ loop' \in {"top", "waiting", "tail"}
          /\ waiter' \in [expected : SUBSET Devices, received : SUBSET Devices]
          /\ paused' = paused /\ budget' = budget
      BY <2>1 DEF StartTick, Participants
    <3> QED
      BY <1>4, <1>5, <3>1, <3>3, <3>4
  <2>2. CASE FinishTick \/ TickTimeout
    <3>1. /\ UNCHANGED <<tick, paused, budget, inbox>> /\ loop' = "tail" /\ waiter' = NoWaiter
      BY <2>2 DEF FinishTick, TickTimeout
    <3> QED
      BY <1>4, <1>5, <3>1 DEF NoWaiter
  <2>3. CASE LoopTail
    <3>1. /\ tick' = tick /\ waiter' = waiter /\ loop' = "top"
          /\ paused' \in BOOLEAN /\ inbox' \in [Devices -> Seq(Messages)]
      BY <1>3, <1>4, <2>3 DEF LoopTail
    <3>2. budget' \in {0, budget - 1} /\ (budget' = budget - 1 => budget > 0 \/ budget' = 0)
      BY <1>5, <1>6, <2>3 DEF LoopTail
    <3>3. budget' \in 0 .. n
      BY <1>5, <1>6, <3>2
    <3> QED
      BY <1>4, <1>5, <3>1, <3>3
  <2>4. CASE Pause \/ Resume
    <3>1. /\ tick' = tick /\ waiter' = waiter /\ loop' = loop /\ budget' = 0
          /\ paused' \in BOOLEAN /\ inbox' \in [Devices -> Seq(Messages)]
      BY <1>3, <2>4 DEF Pause, Resume, Request
    <3> QED
      BY <1>4, <1>6, <3>1
  <2>5. CASE \E k \in StepSizes : Step(k)
    <3>1. PICK k \in StepSizes : Step(k)
      BY <2>5
    <3>2. /\ tick' = tick /\ waiter' = waiter /\ loop' = loop /\ budget' = k
          /\ paused' \in BOOLEAN /\ inbox' \in [Devices -> Seq(Messages)]
      BY <1>3, <1>4, <3>1 DEF Step, Request
    <3>3. k \in Nat /\ k \in 0 .. k
      BY <3>1
    <3> QED
      BY <1>4, <3>1, <3>2, <3>3
  <2> QED
    BY <2>1, <2>2, <2>3, <2>4, <2>5 DEF LoopOrRequest, Loop
<1>8. TypeOK'
  BY <1>1, <1>2, <1>7 DEF TypeOK
<1> QED
  BY <1>2, <1>8 DEF LinkInv

(* What an action does to the lines of device d and to no other device.    *)
LEMMA ElsewhereLinked ==
    ASSUME LinkInv, NEW d \in Devices,
           \A x \in Devices : x # d => /\ registered'[x] = registered[x] /\ conn'[x] = conn[x]
                                       /\ lastConn'[x] = lastConn[x] /\ outbox'[x] = outbox[x],
           Link(registered'[d], conn'[d], lastConn'[d], outbox'[d])
    PROVE  \A x \in Devices : Link(registered'[x], conn'[x], lastConn'[x], outbox'[x])
<1> SUFFICES ASSUME NEW x \in Devices
             PROVE  Link(registered'[x], conn'[x], lastConn'[x], outbox'[x])
  OBVIOUS
<1>1. CASE x = d
  BY <1>1
<1>2. CASE x # d
  <2>1. Link(registered[x], conn[x], lastConn[x], outbox[x])
    BY DEF LinkInv
  <2> QED
    BY <1>2, <2>1
<1> QED
  BY <1>1, <1>2

(* What is known of a device before a step.                                *)
LEMMA LinkFacts ==
    ASSUME LinkInv, NEW d \in Devices
    PROVE  /\ outbox[d] \in Lines /\ inbox[d] \in Seq(Messages)
           /\ registered[d] \in 0 .. MaxConn /\ conn[d] \in 0 .. MaxConn
           /\ lastConn[d] \in 0 .. MaxConn
           /\ Link(registered[d], conn[d], lastConn[d], outbox[d])
           /\ outbox \in [Devices -> Lines] /\ inbox \in [Devices -> Seq(Messages)]
           /\ registered \in [Devices -> 0 .. MaxConn] /\ conn \in [Devices -> 0 .. MaxConn]
           /\ lastConn \in [Devices -> 0 .. MaxConn]
BY DEF LinkInv, TypeOK, Lines

LEMMA RegisterLinked ==
    ASSUME LinkInv, NEW d \in Devices, NEW c \in Connections, Receive(d, c),
           Head(outbox[d][c]).type = "HELLO"
    PROVE  /\ LinkInv'
           /\ c > registered[d]
           /\ registered' = [registered EXCEPT ![d] = c]
           /\ outbox' = [outbox EXCEPT ![d] = Registered(outbox[d], registered[d], c)]
           /\ inbox' = [inbox EXCEPT ![d] = IF conn[d] = c THEN Append(@, Welcome) ELSE @]
           /\ \A e \in 1 .. c - 1 : \A i \in DOMAIN outbox[d][e] : outbox[d][e][i].type # "HELLO"
<1>1. /\ outbox[d] \in Lines /\ inbox[d] \in Seq(Messages)
      /\ registered[d] \in 0 .. MaxConn /\ lastConn[d] \in 0 .. MaxConn
      /\ Link(registered[d], conn[d], lastConn[d], outbox[d])
      /\ outbox \in [Devices -> Lines] /\ inbox \in [Devices -> Seq(Messages)]
      /\ registered \in [Devices -> 0 .. MaxConn]
  BY LinkFacts
<1>2. outbox[d][c] # <<>> /\ outbox[d][c] \in Seq(Messages) /\ EarlierHellosRead(d, c) /\ Register(d, c)
      /\ UNCHANGED <<tick, paused, budget, loop, step, conn, lastConn, heardPaused, requests, clogged>>
  BY <1>1 DEF Receive, Lines, deviceVars
<1>3. outbox[d][c][1].type = "HELLO" /\ outbox[d][c][1] = Head(outbox[d][c])
  BY <1>2, TailFacts
<1>4. ASSUME NEW e \in 1 .. c - 1, NEW i \in DOMAIN outbox[d][e]
      PROVE  outbox[d][e][i].type # "HELLO"
  <2>1. Hello \notin Range(outbox[d][e])
    BY <1>2 DEF EarlierHellosRead
  <2>2. outbox[d][e][i] # Hello
    BY <2>1 DEF Range
  <2>3. e \in Connections
    BY MaxConnNat
  <2>4. outbox[d][e] \in Seq(Messages)
    BY <1>1, <2>3 DEF Lines
  <2>5. outbox[d][e][i] \in Messages
    BY <2>4
  <2> QED
    BY <2>2, <2>5, MessageCases
<1>5. /\ Link(c, conn[d], lastConn[d], Registered(outbox[d], registered[d], c))
      /\ c > registered[d]
      /\ Registered(outbox[d], registered[d], c) \in Lines
  BY <1>1, <1>2, <1>3, <1>4, LinkRegister
<1>6. outbox' = [outbox EXCEPT ![d] = Registered(outbox[d], registered[d], c)]
  BY <1>2 DEF Register, Registered
<1>7. /\ registered' = [registered EXCEPT ![d] = c]
      /\ inbox' = [inbox EXCEPT ![d] = IF conn[d] = c THEN Append(@, Welcome) ELSE @]
      /\ UNCHANGED <<signal, waiter>>
  BY <1>2 DEF Register
<1>8. Welcome \in Messages
  BY WelcomeType DEF LinkInv, TypeOK
<1>9. (IF conn[d] = c THEN Append(inbox[d], Welcome) ELSE inbox[d]) \in Seq(Messages)
  BY <1>1, <1>8, AppendFacts
<1>10. outbox' \in [Devices -> Lines] /\ outbox'[d] = Registered(outbox[d], registered[d], c)
       /\ \A x \in Devices : x # d => outbox'[x] = outbox[x]
  BY <1>1, <1>5, <1>6
<1>11. inbox' \in [Devices -> Seq(Messages)]
  BY <1>1, <1>7, <1>9
<1>12. c \in 0 .. MaxConn
  BY MaxConnNat
<1>13. registered' \in [Devices -> 0 .. MaxConn] /\ registered'[d] = c
       /\ \A x \in Devices : x # d => registered'[x] = registered[x]
  BY <1>1, <1>7, <1>12
<1>14. TypeOK'
  BY <1>2, <1>7, <1>10, <1>11, <1>13 DEF LinkInv, TypeOK, Lines
<1>15. \A x \in Devices : Link(registered'[x], conn'[x], lastConn'[x], outbox'[x])
  BY <1>2, <1>5, <1>10, <1>13, ElsewhereLinked
<1> QED
  BY <1>4, <1>5, <1>6, <1>7, <1>14, <1>15 DEF LinkInv

LEMMA AnswerLinked ==
    ASSUME LinkInv, NEW d \in Devices, NEW c \in Connections, Receive(d, c),
           Head(outbox[d][c]).type # "HELLO"
    PROVE  /\ LinkInv'
           /\ c = registered[d]
           /\ outbox[d][c] # <<>>
           /\ outbox[d][c][1].type = "TICK_DONE"
           /\ OnTickDone(d, c, outbox[d][c][1].tick)
           /\ outbox' = [outbox EXCEPT ![d] = Popped(outbox[d], c)]
           /\ UNCHANGED <<tick, loop, registered, conn, inbox>>
<1>1. /\ outbox[d] \in Lines /\ registered[d] \in 0 .. MaxConn /\ lastConn[d] \in 0 .. MaxConn
      /\ Link(registered[d], conn[d], lastConn[d], outbox[d])
      /\ outbox \in [Devices -> Lines]
  BY LinkFacts
<1>2. /\ outbox[d][c] # <<>> /\ outbox[d][c] \in Seq(Messages)
      /\ Head(outbox[d][c]).type = "TICK_DONE" /\ OnTickDone(d, c, Head(outbox[d][c]).tick)
      /\ UNCHANGED <<tick, paused, budget, loop, step, conn, lastConn, heardPaused, requests, clogged>>
  BY <1>1 DEF Receive, Lines, deviceVars
<1>3. outbox[d][c][1] = Head(outbox[d][c]) /\ Head(outbox[d][c]) \in Messages
  BY <1>2, TailFacts
<1> DEFINE new == Popped(outbox[d], c)
<1>4. Link(registered[d], conn[d], lastConn[d], new) /\ c = registered[d] /\ new \in Lines
  <2>1. outbox[d][c][1].type # "HELLO"
    BY <1>2, <1>3
  <2> QED
    BY <1>1, <1>2, <2>1, LinkAnswer
<1>5. outbox' = [outbox EXCEPT ![d] = new] /\ UNCHANGED <<registered, inbox>>
  BY <1>2 DEF OnTickDone, Popped
<1>6. Head(outbox[d][c]).tick \in -1 .. MaxTick
  BY <1>2, <1>3, MessageCases, BusTypes
<1>7. /\ signal' \in [Devices -> -1 .. MaxTick]
      /\ waiter' \in [expected : SUBSET Devices, received : SUBSET Devices]
  BY <1>2, <1>6 DEF OnTickDone, LinkInv, TypeOK
<1> HIDE DEF new
<1>8. outbox' \in [Devices -> Lines] /\ outbox'[d] = new
      /\ \A x \in Devices : x # d => outbox'[x] = outbox[x]
  BY <1>1, <1>4, <1>5
<1>9. TypeOK'
  BY <1>2, <1>5, <1>7, <1>8 DEF LinkInv, TypeOK, Lines
<1>10. \A x \in Devices : Link(registered'[x], conn'[x], lastConn'[x], outbox'[x])
  BY <1>2, <1>4, <1>5, <1>8, ElsewhereLinked
<1> QED
  BY <1>2, <1>3, <1>4, <1>5, <1>9, <1>10 DEF LinkInv, new

LEMMA EndLinked ==
    ASSUME LinkInv, NEW d \in Devices, NEW c \in Connections, ConnectionEnds(d, c)
    PROVE  /\ LinkInv'
           /\ outbox[d][c] = <<>> /\ conn[d] # c
           /\ registered' = [registered EXCEPT ![d] = IF @ = c THEN 0 ELSE @]
           /\ UNCHANGED <<busVars, signal, deviceVars, inbox, outbox, requests, clogged>>
<1>1. /\ outbox[d] \in Lines /\ registered[d] \in 0 .. MaxConn /\ lastConn[d] \in 0 .. MaxConn
      /\ Link(registered[d], conn[d], lastConn[d], outbox[d])
      /\ registered \in [Devices -> 0 .. MaxConn]
  BY LinkFacts
<1>2. /\ outbox[d][c] = <<>> /\ conn[d] # c
      /\ registered' = [registered EXCEPT ![d] = IF @ = c THEN 0 ELSE @]
      /\ UNCHANGED <<busVars, signal, deviceVars, inbox, outbox, requests, clogged>>
  BY DEF ConnectionEnds, Forget
<1>3. Link(IF registered[d] = c THEN 0 ELSE registered[d], conn[d], lastConn[d], outbox[d])
  BY <1>1, <1>2, LinkForget
<1>4. /\ registered'[d] = IF registered[d] = c THEN 0 ELSE registered[d]
      /\ registered' \in [Devices -> 0 .. MaxConn]
      /\ \A x \in Devices : x # d => registered'[x] = registered[x]
  BY <1>1, <1>2, BusTypes
<1>5. TypeOK'
  BY <1>2, <1>4 DEF LinkInv, TypeOK, busVars, deviceVars
<1>6. \A x \in Devices : Link(registered'[x], conn'[x], lastConn'[x], outbox'[x])
  BY <1>2, <1>3, <1>4, ElsewhereLinked DEF deviceVars
<1> QED
  BY <1>2, <1>5, <1>6 DEF LinkInv

LEMMA ConnectLinked ==
    ASSUME LinkInv, NEW d \in Devices, Connect(d)
    PROVE  /\ LinkInv'
           /\ conn' = [conn EXCEPT ![d] = lastConn[d] + 1]
           /\ lastConn[d] + 1 > registered[d]
           /\ lastConn[d] + 1 \in Connections
           /\ outbox' = [outbox EXCEPT ![d] = Opened(outbox[d], lastConn[d] + 1)]
           /\ UNCHANGED <<busVars, registered, signal, heardPaused, inbox, requests, clogged>>
<1>1. /\ outbox[d] \in Lines /\ registered[d] \in 0 .. MaxConn /\ lastConn[d] \in 0 .. MaxConn
      /\ Link(registered[d], conn[d], lastConn[d], outbox[d])
      /\ outbox \in [Devices -> Lines] /\ conn \in [Devices -> 0 .. MaxConn]
      /\ lastConn \in [Devices -> 0 .. MaxConn]
  BY LinkFacts
<1>2. conn[d] = 0 /\ lastConn[d] < MaxConn
  BY DEF Connect
<1> DEFINE k == lastConn[d] + 1
<1>3. k \in Connections /\ k \in 0 .. MaxConn /\ k > registered[d]
  BY <1>1, <1>2, MaxConnNat DEF Link
<1>4. /\ Link(registered[d], k, k, Opened(outbox[d], k)) /\ Opened(outbox[d], k) \in Lines
  <2>1. Link(registered[d], 0, lastConn[d], outbox[d])
    BY <1>1, <1>2
  <2> QED
    BY <1>1, <1>2, <2>1, LinkConnect
<1>5. /\ conn' = [conn EXCEPT ![d] = k] /\ lastConn' = [lastConn EXCEPT ![d] = k]
      /\ UNCHANGED <<busVars, registered, signal, heardPaused, inbox, requests, clogged>>
  BY DEF Connect
<1>6. lastConn'[d] = k
  BY <1>1, <1>5
<1>7. outbox' = [outbox EXCEPT ![d] = Opened(outbox[d], k)]
  BY <1>6 DEF Connect, Opened
<1> HIDE DEF k
<1>8. /\ conn' \in [Devices -> 0 .. MaxConn] /\ lastConn' \in [Devices -> 0 .. MaxConn]
      /\ outbox' \in [Devices -> Lines]
      /\ conn'[d] = k /\ outbox'[d] = Opened(outbox[d], k)
      /\ \A x \in Devices : x # d => /\ conn'[x] = conn[x] /\ lastConn'[x] = lastConn[x]
                                     /\ outbox'[x] = outbox[x]
  BY <1>1, <1>3, <1>4, <1>5, <1>7
<1>9. TypeOK'
  BY <1>5, <1>8 DEF LinkInv, TypeOK, busVars, Lines
<1>10. \A x \in Devices : Link(registered'[x], conn'[x], lastConn'[x], outbox'[x])
  BY <1>4, <1>5, <1>6, <1>8, ElsewhereLinked
<1> QED
  BY <1>3, <1>5, <1>7, <1>9, <1>10 DEF LinkInv, k

LEMMA DisconnectLinked ==
    ASSUME LinkInv, NEW d \in Devices, NEW keep \in 0 .. Len(inbox[d]), NEW sent \in Nat,
           Disconnect(d, keep, sent)
    PROVE  /\ LinkInv'
           /\ conn[d] \in Connections
           /\ sent \in 0 .. Len(outbox[d][conn[d]])
           /\ conn' = [conn EXCEPT ![d] = 0]
           /\ inbox' = [inbox EXCEPT ![d] = SubSeq(@, 1, keep)]
           /\ outbox' = [outbox EXCEPT ![d] = Cut(outbox[d], conn[d], sent)]
           /\ UNCHANGED <<busVars, registered, signal, lastConn, heardPaused, requests, clogged>>
<1>1. /\ outbox[d] \in Lines /\ inbox[d] \in Seq(Messages)
      /\ registered[d] \in 0 .. MaxConn /\ lastConn[d] \in 0 .. MaxConn
      /\ conn[d] \in 0 .. MaxConn
      /\ Link(registered[d], conn[d], lastConn[d], outbox[d])
      /\ outbox \in [Devices -> Lines] /\ conn \in [Devices -> 0 .. MaxConn]
      /\ inbox \in [Devices -> Seq(Messages)]
  BY LinkFacts
<1>2. /\ conn[d] # 0 /\ sent <= Len(outbox[d][conn[d]])
      /\ conn' = [conn EXCEPT ![d] = 0]
      /\ inbox' = [inbox EXCEPT ![d] = SubSeq(@, 1, keep)]
      /\ outbox' = [outbox EXCEPT ![d] = Cut(outbox[d], conn[d], sent)]
      /\ UNCHANGED <<busVars, registered, signal, lastConn, heardPaused, requests, clogged>>
  BY DEF Disconnect, Cut
<1>3. conn[d] \in Connections
  BY <1>1, <1>2, MaxConnNat
<1>4. sent \in 0 .. Len(outbox[d][conn[d]])
  <2>1. outbox[d][conn[d]] \in Seq(Messages)
    BY <1>1, <1>3 DEF Lines
  <2> QED
    BY <1>2, <2>1
<1>5. /\ Link(registered[d], 0, lastConn[d], Cut(outbox[d], conn[d], sent))
      /\ Cut(outbox[d], conn[d], sent) \in Lines
  BY <1>1, <1>3, <1>4, LinkDisconnect
<1>6. SubSeq(inbox[d], 1, keep) \in Seq(Messages)
  BY <1>1, CutFacts
<1>7. /\ conn' \in [Devices -> 0 .. MaxConn] /\ outbox' \in [Devices -> Lines]
      /\ inbox' \in [Devices -> Seq(Messages)]
      /\ conn'[d] = 0 /\ outbox'[d] = Cut(outbox[d], conn[d], sent)
      /\ \A x \in Devices : x # d => conn'[x] = conn[x] /\ outbox'[x] = outbox[x]
  BY <1>1, <1>2, <1>5, <1>6, BusTypes
<1>8. TypeOK'
  BY <1>2, <1>7 DEF LinkInv, TypeOK, busVars, Lines
<1>9. \A x \in Devices : Link(registered'[x], conn'[x], lastConn'[x], outbox'[x])
  BY <1>2, <1>5, <1>7, ElsewhereLinked
<1> QED
  BY <1>2, <1>3, <1>4, <1>8, <1>9 DEF LinkInv

LEMMA HandleLinked ==
    ASSUME LinkInv, NEW d \in Devices, Handle(d)
    PROVE  /\ LinkInv'
           /\ inbox[d] # <<>> /\ inbox' = [inbox EXCEPT ![d] = Tail(@)]
           /\ heardPaused' = [heardPaused EXCEPT ![d] =
                    CASE Head(inbox[d]).type = "PAUSE"   -> TRUE
                      [] Head(inbox[d]).type = "WELCOME" -> Head(inbox[d]).paused
                      [] OTHER                           -> FALSE]
           /\ \/ outbox' = outbox
              \/ /\ Head(inbox[d]).type = "TICK" /\ conn[d] \in Connections
                 /\ outbox' = [outbox EXCEPT ![d] =
                                  Extended(outbox[d], conn[d], Done(Head(inbox[d]).tick))]
           /\ UNCHANGED <<busVars, registered, signal, conn, lastConn, requests, clogged>>
<1>1. /\ outbox[d] \in Lines /\ inbox[d] \in Seq(Messages)
      /\ registered[d] \in 0 .. MaxConn /\ lastConn[d] \in 0 .. MaxConn
      /\ conn[d] \in 0 .. MaxConn
      /\ Link(registered[d], conn[d], lastConn[d], outbox[d])
      /\ outbox \in [Devices -> Lines] /\ inbox \in [Devices -> Seq(Messages)]
  BY LinkFacts
<1> DEFINE message == Head(inbox[d])
           answer  == Done(message.tick)
<1>2. /\ inbox[d] # <<>> /\ inbox' = [inbox EXCEPT ![d] = Tail(@)]
      /\ heardPaused' = [heardPaused EXCEPT ![d] =
                    CASE message.type = "PAUSE"   -> TRUE
                      [] message.type = "WELCOME" -> message.paused
                      [] OTHER                    -> FALSE]
      /\ UNCHANGED <<busVars, registered, signal, conn, lastConn, requests, clogged>>
  BY DEF Handle
<1>3. outbox' = outbox \/ (message.type = "TICK" /\ conn[d] # 0
                           /\ outbox' = [outbox EXCEPT ![d] = Extended(outbox[d], conn[d], answer)])
  BY DEF Handle, Extended
<1>4. message \in Messages /\ Tail(inbox[d]) \in Seq(Messages)
  BY <1>1, <1>2, TailFacts
<1>5. heardPaused' \in [Devices -> BOOLEAN]
  <2>1. message.type = "WELCOME" => message.paused \in BOOLEAN
    BY <1>4, MessageCases
  <2>2. (CASE message.type = "PAUSE"   -> TRUE
           [] message.type = "WELCOME" -> message.paused
           [] OTHER                    -> FALSE) \in BOOLEAN
    BY <2>1
  <2>3. heardPaused \in [Devices -> BOOLEAN]
    BY DEF LinkInv, TypeOK
  <2> HIDE DEF message
  <2> QED
    BY <1>2, <2>2, <2>3
<1>6. inbox' \in [Devices -> Seq(Messages)]
  BY <1>1, <1>2, <1>4
<1>7. CASE outbox' = outbox
  <2>1. TypeOK'
    BY <1>2, <1>5, <1>6, <1>7 DEF LinkInv, TypeOK, busVars
  <2>2. \A x \in Devices : Link(registered'[x], conn'[x], lastConn'[x], outbox'[x])
    BY <1>2, <1>7 DEF LinkInv
  <2> QED
    BY <1>2, <1>7, <2>1, <2>2 DEF LinkInv
<1>8. CASE /\ message.type = "TICK" /\ conn[d] # 0
           /\ outbox' = [outbox EXCEPT ![d] = Extended(outbox[d], conn[d], answer)]
  <2>1. answer \in Messages /\ answer.type # "HELLO"
    BY <1>4, <1>8, MessageCases, MessageTypes
  <2>2. conn[d] \in Connections
    BY <1>1, <1>8, MaxConnNat
  <2> HIDE DEF answer
  <2>3. /\ Link(registered[d], conn[d], lastConn[d], Extended(outbox[d], conn[d], answer))
        /\ Extended(outbox[d], conn[d], answer) \in Lines
    BY <1>1, <2>1, <2>2, LinkHandle
  <2>4. /\ outbox' \in [Devices -> Lines] /\ outbox'[d] = Extended(outbox[d], conn[d], answer)
        /\ \A x \in Devices : x # d => outbox'[x] = outbox[x]
    BY <1>1, <1>8, <2>3
  <2>5. TypeOK'
    BY <1>2, <1>5, <1>6, <2>4 DEF LinkInv, TypeOK, busVars, Lines
  <2>6. \A x \in Devices : Link(registered'[x], conn'[x], lastConn'[x], outbox'[x])
    BY <1>2, <2>3, <2>4, ElsewhereLinked
  <2> QED
    BY <1>2, <1>8, <2>2, <2>5, <2>6 DEF LinkInv, answer
<1> QED
  BY <1>3, <1>7, <1>8

-----------------------------------------------------------------------------
(* A step that at most clogs a connection or frees it.                     *)
Aside == UNCHANGED plantVars /\ (clogged \in BOOLEAN => clogged' \in BOOLEAN)

(* Every step is one of these.                                             *)
LEMMA StepCases ==
    ASSUME LinkInv, [Next]_vars
    PROVE  \/ Aside
           \/ LoopOrRequest
           \/ \E d \in Devices, c \in Connections :
                 \/ Receive(d, c) /\ Head(outbox[d][c]).type = "HELLO"
                 \/ Receive(d, c) /\ Head(outbox[d][c]).type # "HELLO"
                 \/ ConnectionEnds(d, c)
           \/ \E d \in Devices : Connect(d) \/ Handle(d)
           \/ \E d \in Devices : \E keep \in 0 .. Len(inbox[d]), sent \in Nat : Disconnect(d, keep, sent)
<1>1. CASE \E d \in Devices : \E keep \in 0 .. Len(inbox[d]) : \E sent \in 0 .. 2 : Disconnect(d, keep, sent)
  <2>1. \A sent \in 0 .. 2 : sent \in Nat
    OBVIOUS
  <2> QED
    BY <1>1, <2>1
<1>2. CASE \E d \in Devices, c \in Connections : Receive(d, c) \/ ConnectionEnds(d, c)
  BY <1>2
<1>3. UNCHANGED vars \/ Congestion => Aside
  BY DEF Congestion, vars, Aside
<1> QED
  BY <1>1, <1>2, <1>3, Zenon DEF Next, LoopOrRequest, Loop

LEMMA LinkInductive == LinkInv /\ [Next]_vars => LinkInv'
<1> SUFFICES ASSUME LinkInv, [Next]_vars PROVE LinkInv'
  OBVIOUS
<1>1. CASE Aside
  BY <1>1 DEF Aside, plantVars, busVars, deviceVars, LinkInv, TypeOK, Link
<1>2. CASE LoopOrRequest
  BY <1>2, LoopLinked
<1>3. CASE \E d \in Devices, c \in Connections :
                 \/ Receive(d, c) /\ Head(outbox[d][c]).type = "HELLO"
                 \/ Receive(d, c) /\ Head(outbox[d][c]).type # "HELLO"
                 \/ ConnectionEnds(d, c)
  BY <1>3, RegisterLinked, AnswerLinked, EndLinked
<1>4. CASE \E d \in Devices : Connect(d) \/ Handle(d)
  BY <1>4, ConnectLinked, HandleLinked
<1>5. CASE \E d \in Devices : \E keep \in 0 .. Len(inbox[d]), sent \in Nat : Disconnect(d, keep, sent)
  BY <1>5, DisconnectLinked
<1> QED
  BY <1>1, <1>2, <1>3, <1>4, <1>5, StepCases

(***************************************************************************)
(* Every message in flight, connection and counter of bus.py has its type, *)
(* for any number of devices, ticks and connections.                       *)
(***************************************************************************)
THEOREM BusTyped == Spec => []TypeOK
<1>1. LinkInv => TypeOK
  BY DEF LinkInv
<1> QED
  BY <1>1, LinkStart, LinkInductive, PTL DEF Spec

LEMMA ReconnectionStep ==
    ASSUME LinkInv, [Next]_vars, NEW d \in Devices,
           conn[d] # 0, registered[d] = conn[d], conn'[d] = conn[d]
    PROVE  registered'[d] = conn[d]
<1>1. /\ registered \in [Devices -> 0 .. MaxConn] /\ lastConn[d] \in 0 .. MaxConn
      /\ registered[d] \in 0 .. MaxConn
      /\ Link(registered[d], conn[d], lastConn[d], outbox[d])
  BY LinkFacts
<1>2. CASE registered' = registered
  BY <1>2
<1>3. Aside \/ LoopOrRequest => registered' = registered
  BY DEF Aside, plantVars, LoopOrRequest, Loop, StartTick, FinishTick, TickTimeout, LoopTail, Pause, Resume,
         Step, Request
<1>4. ASSUME NEW x \in Devices, NEW c \in Connections, Receive(x, c), Head(outbox[x][c]).type = "HELLO"
      PROVE  registered'[d] = conn[d]
  <2>1. c > registered[x] /\ registered' = [registered EXCEPT ![x] = c] /\ outbox[x][c] # <<>>
    BY <1>4, RegisterLinked DEF Receive
  <2>2. x # d
    <3> SUFFICES ASSUME x = d PROVE FALSE
      OBVIOUS
    <3>1. c > lastConn[d]
      BY <1>1, <2>1, MaxConnNat DEF Link
    <3> QED
      BY <1>1, <2>1, <3>1 DEF Link
  <2> QED
    BY <1>1, <2>1, <2>2
<1>5. ASSUME NEW x \in Devices, NEW c \in Connections, Receive(x, c), Head(outbox[x][c]).type # "HELLO"
      PROVE  registered' = registered
  BY <1>5, AnswerLinked
<1>6. ASSUME NEW x \in Devices, NEW c \in Connections, ConnectionEnds(x, c)
      PROVE  registered'[d] = conn[d]
  BY <1>1, <1>6, EndLinked
<1>7. ASSUME NEW x \in Devices, Connect(x) \/ Handle(x) PROVE registered' = registered
  BY <1>7, ConnectLinked, HandleLinked
<1>8. ASSUME NEW x \in Devices, NEW keep \in 0 .. Len(inbox[x]), NEW sent \in Nat,
             Disconnect(x, keep, sent)
      PROVE  registered' = registered
  BY <1>8, DisconnectLinked
<1> QED
  BY <1>2, <1>3, <1>4, <1>5, <1>6, <1>7, <1>8, StepCases

(***************************************************************************)
(* A device that has connected again is not unregistered by the end of an  *)
(* old connection of its own (bus.py, the finally of _handle_conn).        *)
(***************************************************************************)
THEOREM ReconnectionKept == Spec => ReconnectionSurvives
<1>1. LinkInv /\ [Next]_vars =>
        [\A d \in Devices : conn[d] # 0 /\ registered[d] = conn[d] /\ conn'[d] = conn[d]
                            => registered'[d] = conn[d]]_vars
  BY ReconnectionStep
<1> QED
  BY <1>1, LinkStart, LinkInductive, PTL DEF Spec, ReconnectionSurvives

-----------------------------------------------------------------------------
(* The pause.  What a device will believe is said by the last message on   *)
(* its way to it; that one tells a registered device what the bus thinks.  *)
(* A step that is under way is not paused.                                 *)

Believes(m) == CASE m.type = "PAUSE"   -> TRUE
                 [] m.type = "WELCOME" -> m.paused
                 [] OTHER              -> FALSE

Told(p, heard, ib) ==
    IF ib = <<>> THEN heard = p ELSE Believes(ib[Len(ib)]) = p

OnLine(reg, cn) == reg # 0 /\ reg = cn

PauseInv ==
    /\ LinkInv
    /\ budget > 0 => ~paused
    /\ \A d \in Devices : OnLine(registered[d], conn[d]) => Told(paused, heardPaused[d], inbox[d])

LEMMA BelievesCases ==
    /\ \A p \in BOOLEAN : Believes(Pausing(p)) = p
    /\ \A n : Believes(Tick(n)) = FALSE
    /\ paused \in BOOLEAN => Believes(Welcome) = paused
BY DEF Believes, Pausing, Tick, Welcome

LEMMA ToldAppend ==
    ASSUME NEW q \in Seq(Messages), NEW m \in Messages, NEW p, NEW heard, Believes(m) = p
    PROVE  Told(p, heard, Append(q, m))
<1>1. Append(q, m) # <<>> /\ Len(Append(q, m)) = Len(q) + 1 /\ Append(q, m)[Len(q) + 1] = m
  BY AppendFacts
<1> QED
  BY <1>1 DEF Told

LEMMA ToldTail ==
    ASSUME NEW q \in Seq(Messages), q # <<>>, NEW p, NEW heard, Told(p, heard, q)
    PROVE  Told(p, Believes(Head(q)), Tail(q))
<1>1. /\ Head(q) = q[1] /\ Len(q) \in Nat \ {0} /\ Tail(q) \in Seq(Messages)
      /\ Len(Tail(q)) = Len(q) - 1
      /\ \A i \in 1 .. Len(q) - 1 : Tail(q)[i] = q[i + 1]
  BY TailFacts
<1>2. Believes(q[Len(q)]) = p
  BY DEF Told
<1>3. CASE Len(q) = 1
  <2>1. Tail(q) = <<>>
    <3>1. Len(Tail(q)) = 0
      BY <1>1, <1>3
    <3> HIDE DEF Told
    <3> QED
      BY <1>1, <3>1, EmptyLine
  <2>2. Believes(Head(q)) = p
    BY <1>1, <1>2, <1>3
  <2> QED
    BY <2>1, <2>2 DEF Told
<1>4. CASE Len(q) # 1
  <2>1. Len(q) - 1 \in 1 .. Len(q) - 1 /\ (Len(q) - 1) + 1 = Len(q)
    BY <1>1, <1>4
  <2>2. Tail(q)[Len(Tail(q))] = q[Len(q)]
    BY <1>1, <2>1
  <2>3. Tail(q) # <<>>
    BY <1>1, <1>4
  <2> QED
    BY <1>2, <2>2, <2>3 DEF Told
<1> QED
  BY <1>3, <1>4

LEMMA TellAll ==
    ASSUME LinkInv, NEW m \in Messages, NEW d \in Devices, OnLine(registered[d], conn[d])
    PROVE  Told(Believes(m), heardPaused[d], Sent(m)[d])
<1>1. d \in Reachable
  BY DEF OnLine, Reachable, Participants
<1>2. Sent(m)[d] = Append(inbox[d], m)
  BY <1>1, SentTyped DEF LinkInv
<1>3. inbox[d] \in Seq(Messages)
  BY LinkFacts
<1> QED
  BY <1>2, <1>3, ToldAppend

LEMMA LoopTold == PauseInv /\ LoopOrRequest => PauseInv'
<1> SUFFICES ASSUME PauseInv, LoopOrRequest PROVE PauseInv'
  OBVIOUS
<1>1. LinkInv /\ LinkInv' /\ paused \in BOOLEAN /\ tick \in Nat /\ budget \in Nat
  <2>1. LinkInv /\ LinkInv'
    BY LoopLinked DEF PauseInv
  <2>2. PICK n \in StepSizes \cup {0} : budget \in 0 .. n
    BY <2>1 DEF LinkInv, TypeOK
  <2>3. budget \in Nat
    BY <2>2, BusTypes
  <2>4. paused \in BOOLEAN /\ tick \in 0 .. MaxTick
    BY <2>1 DEF LinkInv, TypeOK
  <2> QED
    BY <2>1, <2>3, <2>4, BusTypes
<1>2. UNCHANGED <<registered, conn, heardPaused>>
  BY DEF LoopOrRequest, Loop, StartTick, FinishTick, TickTimeout, LoopTail, Pause, Resume, Step,
         Request, deviceVars
<1>3. \/ UNCHANGED <<inbox, paused>>
      \/ \E p \in BOOLEAN : inbox' = Sent(Pausing(p)) /\ paused' = p
      \/ ~paused /\ ~paused' /\ StartTick
  <2>1. CASE StartTick
    BY <1>1, <2>1 DEF StartTick, PauseInv
  <2>2. CASE FinishTick \/ TickTimeout
    BY <2>2 DEF FinishTick, TickTimeout
  <2>3. CASE LoopTail
    BY <2>3 DEF LoopTail
  <2>4. CASE Pause \/ Resume
    BY <2>4 DEF Pause, Resume
  <2>5. CASE \E n \in StepSizes : Step(n)
    BY <1>1, <2>5 DEF Step
  <2> QED
    BY <2>1, <2>2, <2>3, <2>4, <2>5 DEF LoopOrRequest, Loop
<1>4. budget' > 0 => ~paused'
  <2>0. budget > 0 => ~paused
    BY DEF PauseInv
  <2>1. CASE StartTick \/ FinishTick \/ TickTimeout
    <3>1. UNCHANGED <<budget, paused>>
      BY <2>1 DEF StartTick, FinishTick, TickTimeout
    <3> QED
      BY <2>0, <3>1
  <2>2. CASE LoopTail
    <3>1. budget' = 0 \/ (budget > 0 /\ paused' = paused)
      BY <1>1, <2>2 DEF LoopTail
    <3> QED
      BY <2>0, <3>1
  <2>3. CASE Pause \/ Resume \/ \E n \in StepSizes : Step(n)
    <3>1. budget' = 0 \/ paused' = FALSE
      BY <2>3 DEF Pause, Resume, Step
    <3> QED
      BY <3>1
  <2> QED
    BY <2>1, <2>2, <2>3, Zenon DEF LoopOrRequest, Loop
<1>5. ASSUME NEW d \in Devices, OnLine(registered[d], conn[d])
      PROVE  Told(paused', heardPaused[d], inbox'[d])
  <2>1. CASE UNCHANGED <<inbox, paused>>
    BY <1>5, <2>1 DEF PauseInv
  <2>2. ASSUME NEW p \in BOOLEAN, inbox' = Sent(Pausing(p)), paused' = p
        PROVE  Told(paused', heardPaused[d], inbox'[d])
    BY <1>1, <1>5, <2>2, TellAll, MessageTypes, BelievesCases
  <2>3. CASE ~paused /\ ~paused' /\ StartTick
    <3>1. tick + 1 \in 1 .. MaxTick /\ inbox' = Sent(Tick(tick + 1)) /\ paused' = FALSE
      BY <1>1, <2>3, BusTypes DEF StartTick
    <3>2. Tick(tick + 1) \in Messages /\ Believes(Tick(tick + 1)) = FALSE
      BY <3>1, MessageTypes, BelievesCases
    <3> QED
      BY <1>1, <1>5, <3>1, <3>2, TellAll
  <2> QED
    BY <1>3, <2>1, <2>2, <2>3
<1> QED
  BY <1>1, <1>2, <1>4, <1>5 DEF PauseInv

(* A step of one device.                                                   *)
LEMMA DeviceTold ==
    ASSUME PauseInv, LinkInv', UNCHANGED <<budget, paused>>, NEW d \in Devices,
           \A x \in Devices : x # d => /\ registered'[x] = registered[x] /\ conn'[x] = conn[x]
                                       /\ heardPaused'[x] = heardPaused[x] /\ inbox'[x] = inbox[x],
           OnLine(registered'[d], conn'[d]) => Told(paused, heardPaused'[d], inbox'[d])
    PROVE  PauseInv'
<1>1. ASSUME NEW x \in Devices, OnLine(registered'[x], conn'[x])
      PROVE  Told(paused, heardPaused'[x], inbox'[x])
  <2>1. CASE x = d
    BY <1>1, <2>1
  <2>2. CASE x # d
    BY <1>1, <2>2 DEF PauseInv
  <2> QED
    BY <2>1, <2>2
<1> QED
  BY <1>1 DEF PauseInv

LEMMA PauseInductive == PauseInv /\ [Next]_vars => PauseInv'
<1> SUFFICES ASSUME PauseInv, [Next]_vars PROVE PauseInv'
  OBVIOUS
<1>1. LinkInv /\ LinkInv'
  BY LinkInductive DEF PauseInv
<1>2. /\ registered \in [Devices -> 0 .. MaxConn] /\ conn \in [Devices -> 0 .. MaxConn]
      /\ lastConn \in [Devices -> 0 .. MaxConn]
      /\ heardPaused \in [Devices -> BOOLEAN] /\ inbox \in [Devices -> Seq(Messages)]
      /\ paused \in BOOLEAN
  BY <1>1 DEF LinkInv, TypeOK
<1>3. CASE Aside
  BY <1>1, <1>3 DEF Aside, plantVars, busVars, deviceVars, PauseInv
<1>4. CASE LoopOrRequest
  BY <1>4, LoopTold
<1>5. ASSUME NEW d \in Devices, NEW c \in Connections, Receive(d, c), Head(outbox[d][c]).type = "HELLO"
      PROVE  PauseInv'
  <2>1. /\ registered' = [registered EXCEPT ![d] = c]
        /\ inbox' = [inbox EXCEPT ![d] = IF conn[d] = c THEN Append(@, Welcome) ELSE @]
        /\ UNCHANGED <<budget, paused, conn, heardPaused>>
    BY <1>1, <1>5, RegisterLinked DEF Receive, deviceVars
  <2>2. conn[d] = c => inbox'[d] = Append(inbox[d], Welcome)
    BY <1>2, <2>1
  <2>3. conn[d] = c => Told(paused, heardPaused[d], inbox'[d])
    BY <1>2, <2>2, ToldAppend, WelcomeType, BelievesCases
  <2>4. registered'[d] = c
    BY <1>2, <2>1
  <2>5. OnLine(registered'[d], conn'[d]) => Told(paused, heardPaused'[d], inbox'[d])
    BY <2>1, <2>3, <2>4 DEF OnLine
  <2>6. \A x \in Devices : x # d => registered'[x] = registered[x] /\ inbox'[x] = inbox[x]
    BY <1>2, <2>1
  <2> QED
    BY <1>1, <2>1, <2>5, <2>6, DeviceTold
<1>6. ASSUME NEW d \in Devices, NEW c \in Connections, Receive(d, c), Head(outbox[d][c]).type # "HELLO"
      PROVE  PauseInv'
  <2>1. UNCHANGED <<budget, paused, registered, conn, inbox, heardPaused>>
    BY <1>1, <1>6, AnswerLinked DEF Receive, deviceVars
  <2> QED
    BY <1>1, <2>1 DEF PauseInv
<1>7. ASSUME NEW d \in Devices, NEW c \in Connections, ConnectionEnds(d, c) PROVE PauseInv'
  <2>1. /\ conn[d] # c /\ registered' = [registered EXCEPT ![d] = IF @ = c THEN 0 ELSE @]
        /\ UNCHANGED <<budget, paused, conn, inbox, heardPaused>>
    BY <1>1, <1>7, EndLinked DEF busVars, deviceVars
  <2>2. registered'[d] \in {0, registered[d]} /\ \A x \in Devices : x # d => registered'[x] = registered[x]
    BY <1>2, <2>1
  <2>3. OnLine(registered'[d], conn'[d]) => Told(paused, heardPaused'[d], inbox'[d])
    BY <2>1, <2>2 DEF OnLine, PauseInv
  <2> QED
    BY <1>1, <2>1, <2>2, <2>3, DeviceTold
<1>8. ASSUME NEW d \in Devices, Connect(d) PROVE PauseInv'
  <2>1. /\ conn' = [conn EXCEPT ![d] = lastConn[d] + 1] /\ lastConn[d] + 1 > registered[d]
        /\ UNCHANGED <<budget, paused, registered, inbox, heardPaused>>
    BY <1>1, <1>8, ConnectLinked DEF busVars
  <2>2. conn'[d] = lastConn[d] + 1 /\ \A x \in Devices : x # d => conn'[x] = conn[x]
    BY <1>2, <2>1
  <2>3. ~OnLine(registered'[d], conn'[d])
    BY <1>2, <2>1, <2>2 DEF OnLine
  <2> QED
    BY <1>1, <2>1, <2>2, <2>3, DeviceTold
<1>9. ASSUME NEW d \in Devices, Handle(d) PROVE PauseInv'
  <2>1. /\ inbox[d] # <<>> /\ inbox' = [inbox EXCEPT ![d] = Tail(@)]
        /\ heardPaused' = [heardPaused EXCEPT ![d] = Believes(Head(inbox[d]))]
        /\ UNCHANGED <<budget, paused, registered, conn>>
    BY <1>1, <1>9, HandleLinked DEF busVars, Believes
  <2>2. /\ inbox'[d] = Tail(inbox[d]) /\ heardPaused'[d] = Believes(Head(inbox[d]))
        /\ \A x \in Devices : x # d => inbox'[x] = inbox[x] /\ heardPaused'[x] = heardPaused[x]
    BY <1>2, <2>1
  <2>3. OnLine(registered'[d], conn'[d]) => Told(paused, heardPaused'[d], inbox'[d])
    BY <1>2, <2>1, <2>2, ToldTail DEF PauseInv
  <2> QED
    BY <1>1, <2>1, <2>2, <2>3, DeviceTold
<1>10. ASSUME NEW d \in Devices, NEW keep \in 0 .. Len(inbox[d]), NEW sent \in Nat,
              Disconnect(d, keep, sent)
       PROVE  PauseInv'
  <2>1. /\ conn' = [conn EXCEPT ![d] = 0] /\ inbox' = [inbox EXCEPT ![d] = SubSeq(@, 1, keep)]
        /\ UNCHANGED <<budget, paused, registered, heardPaused>>
    BY <1>1, <1>10, DisconnectLinked DEF busVars
  <2>2. conn'[d] = 0 /\ \A x \in Devices : x # d => conn'[x] = conn[x] /\ inbox'[x] = inbox[x]
    BY <1>2, <2>1
  <2>3. ~OnLine(registered'[d], conn'[d])
    BY <2>2 DEF OnLine
  <2> QED
    BY <1>1, <2>1, <2>2, <2>3, DeviceTold
<1> QED
  BY <1>1, <1>3, <1>4, <1>5, <1>6, <1>7, <1>8, <1>9, <1>10, StepCases

(***************************************************************************)
(* Whatever pauses, resumes, steps, broken and renewed connections race, a *)
(* registered device that has read everything believes of the pause what   *)
(* the bus believes (pause, resume, step and the answer to HELLO in        *)
(* bus.py, _handle_message of the device).                                 *)
(***************************************************************************)
THEOREM PauseKept == Spec => []NoSplitPause
<1>1. Init => PauseInv
  BY LinkStart DEF Init, PauseInv, OnLine
<1>2. PauseInv => NoSplitPause
  BY DEF PauseInv, NoSplitPause, Reachable, Participants, OnLine, Told
<1> QED
  BY <1>1, <1>2, PauseInductive, PTL DEF Spec

-----------------------------------------------------------------------------
(* The numbers of the ticks.  Along the way from the bus to the device and *)
(* back, through all its connections, they never go down and never exceed  *)
(* the tick of the bus (Sorted).  Once a device counts as having answered, *)
(* nothing older than this tick is left on that way (Counted).             *)

Asks(ib, i)       == i \in DOMAIN ib /\ ib[i].type = "TICK"
Answers(ob, e, i) == i \in DOMAIN ob[e] /\ ob[e][i].type = "TICK_DONE"

Sorted(t, ob, ib) ==
    /\ \A i \in Nat : Asks(ib, i) => ib[i].tick <= t
    /\ \A i, j \in Nat : Asks(ib, i) /\ Asks(ib, j) /\ i <= j => ib[i].tick <= ib[j].tick
    /\ \A e \in Connections, i \in Nat : Answers(ob, e, i) => ob[e][i].tick <= t
    /\ \A e \in Connections, i, j \in Nat :
           Answers(ob, e, i) /\ Asks(ib, j) => ob[e][i].tick <= ib[j].tick
    /\ \A e, f \in Connections, i, j \in Nat :
           Answers(ob, e, i) /\ Answers(ob, f, j) /\ (e < f \/ (e = f /\ i <= j))
           => ob[e][i].tick <= ob[f][j].tick

Counted(t, sg, ob, ib) ==
    /\ sg = t
    /\ \A i \in Nat : Asks(ib, i) => ib[i].tick >= t
    /\ \A e \in Connections, i \in Nat : Answers(ob, e, i) => ob[e][i].tick >= t

\* Every number in the new lines stood in the old ones, sh[e] or s places further back.
LeftOf(ob, ib, nob, nib, sh, s) ==
    /\ \A e \in Connections, i \in Nat :
           Answers(nob, e, i) => Answers(ob, e, i + sh[e]) /\ nob[e][i] = ob[e][i + sh[e]]
    /\ \A i \in Nat : Asks(nib, i) => Asks(ib, i + s) /\ nib[i] = ib[i + s]

LEMMA FewerNumbers ==
    ASSUME NEW t \in Nat, NEW ob, NEW ib, NEW nob, NEW nib, Sorted(t, ob, ib),
           NEW sh \in [Connections -> Nat], NEW s \in Nat, LeftOf(ob, ib, nob, nib, sh, s)
    PROVE  /\ Sorted(t, nob, nib)
           /\ \A sg : Counted(t, sg, ob, ib) => Counted(t, sg, nob, nib)
<1> USE DEF LeftOf
<1>1. \A i \in Nat : i + s \in Nat /\ \A e \in Connections : i + sh[e] \in Nat
  OBVIOUS
<1>2. ASSUME NEW i \in Nat, Asks(nib, i) PROVE nib[i].tick <= t
  BY <1>1, <1>2 DEF Sorted
<1>3. ASSUME NEW i \in Nat, NEW j \in Nat, Asks(nib, i), Asks(nib, j), i <= j
      PROVE  nib[i].tick <= nib[j].tick
  <2>1. i + s <= j + s
    BY <1>3
  <2> QED
    BY <1>1, <1>3, <2>1 DEF Sorted
<1>4. ASSUME NEW e \in Connections, NEW i \in Nat, Answers(nob, e, i) PROVE nob[e][i].tick <= t
  BY <1>1, <1>4 DEF Sorted
<1>5. ASSUME NEW e \in Connections, NEW i \in Nat, NEW j \in Nat, Answers(nob, e, i), Asks(nib, j)
      PROVE  nob[e][i].tick <= nib[j].tick
  BY <1>1, <1>5 DEF Sorted
<1>6. ASSUME NEW e \in Connections, NEW f \in Connections, NEW i \in Nat, NEW j \in Nat,
             Answers(nob, e, i), Answers(nob, f, j), e < f \/ (e = f /\ i <= j)
      PROVE  nob[e][i].tick <= nob[f][j].tick
  <2>1. e < f \/ (e = f /\ i + sh[e] <= j + sh[f])
    BY <1>6
  <2>2. Answers(ob, e, i + sh[e]) /\ Answers(ob, f, j + sh[f])
    BY <1>6
  <2>3. ob[e][i + sh[e]].tick <= ob[f][j + sh[f]].tick
    BY <1>1, <2>1, <2>2 DEF Sorted
  <2> QED
    BY <1>6, <2>3
<1>7. ASSUME NEW sg, Counted(t, sg, ob, ib) PROVE Counted(t, sg, nob, nib)
  BY <1>1, <1>7 DEF Counted
<1> QED
  BY <1>2, <1>3, <1>4, <1>5, <1>6, <1>7 DEF Sorted

Nowhere == [e \in Connections |-> 0]

LEMMA NewTick ==
    ASSUME NEW t \in Nat, NEW ob \in Lines, NEW ib \in Seq(Messages), Sorted(t, ob, ib)
    PROVE  /\ Sorted(t + 1, ob, ib)
           /\ t + 1 \in 1 .. MaxTick => Sorted(t + 1, ob, Append(ib, Tick(t + 1)))
<1>1. \A i \in Nat : Asks(ib, i) => ib[i].tick \in Nat
  BY MessageCases, BusTypes DEF Asks
<1>2. \A e \in Connections, i \in Nat : Answers(ob, e, i) => ob[e][i].tick \in Nat
  <2> SUFFICES ASSUME NEW e \in Connections, NEW i \in Nat, Answers(ob, e, i)
               PROVE  ob[e][i].tick \in Nat
    OBVIOUS
  <2>1. ob[e] \in Seq(Messages)
    BY DEF Lines
  <2>2. ob[e][i] \in Messages
    BY <2>1 DEF Answers
  <2> QED
    BY <2>2, MessageCases, BusTypes DEF Answers
<1>3. Sorted(t + 1, ob, ib)
  BY <1>1, <1>2 DEF Sorted
<1>4. ASSUME t + 1 \in 1 .. MaxTick PROVE Sorted(t + 1, ob, Append(ib, Tick(t + 1)))
  <2> DEFINE nib == Append(ib, Tick(t + 1))
             k   == Len(ib)
  <2>1. /\ k \in Nat /\ DOMAIN ib = 1 .. k /\ DOMAIN nib = 1 .. k + 1
        /\ nib[k + 1] = Tick(t + 1)
        /\ \A i \in 1 .. k : nib[i] = ib[i]
    BY <1>4, AppendFacts, MessageTypes
  <2> HIDE DEF nib, k
  <2>2. \A i \in Nat : Asks(nib, i) => (i = k + 1 /\ nib[i].tick = t + 1)
                                       \/ (i <= k /\ Asks(ib, i) /\ nib[i] = ib[i])
    BY <2>1, MessageTypes DEF Asks
  <2>3. \A i \in Nat : Asks(nib, i) => nib[i].tick <= t + 1
    BY <1>1, <2>2 DEF Sorted
  <2>4. ASSUME NEW i \in Nat, NEW j \in Nat, Asks(nib, i), Asks(nib, j), i <= j
        PROVE  nib[i].tick <= nib[j].tick
    <3>1. CASE j = k + 1
      BY <2>1, <2>2, <2>3, <2>4, <3>1
    <3>2. CASE j # k + 1
      BY <2>1, <2>2, <2>4, <3>2 DEF Sorted
    <3> QED
      BY <3>1, <3>2
  <2>5. ASSUME NEW e \in Connections, NEW i \in Nat, NEW j \in Nat, Answers(ob, e, i), Asks(nib, j)
        PROVE  ob[e][i].tick <= nib[j].tick
    <3>1. ob[e][i].tick <= t + 1
      BY <1>3, <2>5 DEF Sorted
    <3> QED
      BY <2>2, <2>5, <3>1 DEF Sorted
  <2>6. Sorted(t + 1, ob, nib)
    BY <1>3, <2>3, <2>4, <2>5 DEF Sorted
  <2> QED
    BY <2>6 DEF nib
<1> QED
  BY <1>3, <1>4

\* A message that is no TICK, on its way to the device.
LEMMA OtherMessage ==
    ASSUME NEW t \in Nat, NEW ob, NEW ib \in Seq(Messages), NEW m \in Messages, m.type # "TICK",
           Sorted(t, ob, ib)
    PROVE  /\ Sorted(t, ob, Append(ib, m))
           /\ \A sg : Counted(t, sg, ob, ib) => Counted(t, sg, ob, Append(ib, m))
<1> DEFINE nib == Append(ib, m)
<1>1. /\ Len(ib) \in Nat /\ DOMAIN ib = 1 .. Len(ib) /\ DOMAIN nib = 1 .. Len(ib) + 1
      /\ nib[Len(ib) + 1] = m /\ \A i \in 1 .. Len(ib) : nib[i] = ib[i]
  BY AppendFacts
<1> HIDE DEF nib
<1>2. \A i \in Nat : Asks(nib, i) => Asks(ib, i + 0) /\ nib[i] = ib[i + 0]
  BY <1>1 DEF Asks
<1>3. 0 \in Nat /\ Nowhere \in [Connections -> Nat] /\ \A e \in Connections : Nowhere[e] = 0
  BY DEF Nowhere
<1>4. \A e \in Connections, i \in Nat :
        Answers(ob, e, i) => Answers(ob, e, i + Nowhere[e]) /\ ob[e][i] = ob[e][i + Nowhere[e]]
  BY <1>3
<1>5. LeftOf(ob, ib, ob, nib, Nowhere, 0)
  BY <1>2, <1>4 DEF LeftOf
<1>6. Sorted(t, ob, nib) /\ \A sg : Counted(t, sg, ob, ib) => Counted(t, sg, ob, nib)
  BY <1>2, <1>3, <1>4, FewerNumbers, <1>5
<1> QED
  BY <1>6 DEF nib

\* The bus reads a HELLO: one line is dropped, another loses its first message.
LEMMA SortedRegister ==
    ASSUME NEW t \in Nat, NEW ob \in Lines, NEW ib, Sorted(t, ob, ib),
           NEW reg, NEW c \in Connections, ob[c] # <<>>
    PROVE  LET nob == Registered(ob, reg, c)
           IN  Sorted(t, nob, ib) /\ \A sg : Counted(t, sg, ob, ib) => Counted(t, sg, nob, ib)
<1> DEFINE nob == Registered(ob, reg, c)
           sh  == [e \in Connections |-> IF e = c THEN 1 ELSE 0]
<1>1. /\ Len(ob[c]) \in Nat /\ DOMAIN ob[c] = 1 .. Len(ob[c])
      /\ DOMAIN Tail(ob[c]) = 1 .. Len(ob[c]) - 1
      /\ \A i \in 1 .. Len(ob[c]) - 1 : Tail(ob[c])[i] = ob[c][i + 1]
  BY TailFacts DEF Lines
<1>2. /\ nob[c] \in {<<>>, Tail(ob[c])}
      /\ \A e \in Connections : e # c => nob[e] \in {<<>>, ob[e]}
  BY DEF Registered
<1>3. sh \in [Connections -> Nat] /\ sh[c] = 1 /\ \A e \in Connections : e # c => sh[e] = 0
  OBVIOUS
<1> HIDE DEF nob, sh
<1>4. ASSUME NEW e \in Connections, NEW i \in Nat, Answers(nob, e, i)
      PROVE  Answers(ob, e, i + sh[e]) /\ nob[e][i] = ob[e][i + sh[e]]
  <2>1. nob[e] # <<>> /\ i \in DOMAIN nob[e] /\ nob[e][i].type = "TICK_DONE"
    BY <1>4, EmptyFacts DEF Answers
  <2>2. CASE e = c
    <3>1. nob[c] = Tail(ob[c])
      BY <1>2, <2>1, <2>2
    <3> QED
      BY <1>1, <1>3, <2>1, <2>2, <3>1 DEF Answers
  <2>3. CASE e # c
    BY <1>2, <1>3, <2>1, <2>3 DEF Answers
  <2> QED
    BY <2>2, <2>3
<1>5. 0 \in Nat /\ \A i \in Nat : Asks(ib, i) => Asks(ib, i + 0) /\ ib[i] = ib[i + 0]
  OBVIOUS
<1>6. LeftOf(ob, ib, nob, ib, sh, 0)
  BY <1>4, <1>5 DEF LeftOf
<1>7. Sorted(t, nob, ib) /\ \A sg : Counted(t, sg, ob, ib) => Counted(t, sg, nob, ib)
  BY <1>3, <1>4, <1>5, FewerNumbers, <1>6
<1> QED
  BY <1>7 DEF nob

LEMMA SortedPopped ==
    ASSUME NEW t \in Nat, NEW ob \in Lines, NEW ib, Sorted(t, ob, ib),
           NEW c \in Connections, ob[c] # <<>>
    PROVE  LET nob == Popped(ob, c)
           IN  Sorted(t, nob, ib) /\ \A sg : Counted(t, sg, ob, ib) => Counted(t, sg, nob, ib)
<1>1. \A e \in Connections : e # MaxConn + 1
  BY MaxConnNat
<1>2. DOMAIN ob = Connections
  BY DEF Lines
<1>3. Popped(ob, c) = Registered(ob, MaxConn + 1, c)
  BY <1>1, <1>2 DEF Popped, Registered
<1> QED
  BY <1>3, SortedRegister, Zenon

\* The lines and the inbox lose their ends, or a HELLO opens a line.
LEMMA SortedCut ==
    ASSUME NEW t \in Nat, NEW ob \in Lines, NEW ib \in Seq(Messages), Sorted(t, ob, ib),
           NEW c \in Connections, NEW n \in 0 .. Len(ob[c]), NEW keep \in 0 .. Len(ib)
    PROVE  LET nob == Cut(ob, c, n)
               nib == SubSeq(ib, 1, keep)
           IN  Sorted(t, nob, nib) /\ \A sg : Counted(t, sg, ob, ib) => Counted(t, sg, nob, nib)
<1> DEFINE nob == Cut(ob, c, n)
           nib == SubSeq(ib, 1, keep)
<1>1. /\ Len(ob[c]) \in Nat /\ DOMAIN ob[c] = 1 .. Len(ob[c])
      /\ DOMAIN SubSeq(ob[c], 1, n) = 1 .. n
      /\ \A i \in 1 .. n : SubSeq(ob[c], 1, n)[i] = ob[c][i]
  BY CutFacts DEF Lines
<1>2. nob[c] = SubSeq(ob[c], 1, n) /\ \A e \in Connections : e # c => nob[e] = ob[e]
  BY DEF Cut, Lines
<1>3. /\ Len(ib) \in Nat /\ DOMAIN ib = 1 .. Len(ib) /\ DOMAIN nib = 1 .. keep
      /\ \A i \in 1 .. keep : nib[i] = ib[i]
  BY CutFacts
<1>4. 0 \in Nat /\ Nowhere \in [Connections -> Nat] /\ \A e \in Connections : Nowhere[e] = 0
  BY DEF Nowhere
<1> HIDE DEF nob, nib
<1>5. ASSUME NEW e \in Connections, NEW i \in Nat, Answers(nob, e, i)
      PROVE  Answers(ob, e, i + Nowhere[e]) /\ nob[e][i] = ob[e][i + Nowhere[e]]
  BY <1>1, <1>2, <1>4, <1>5 DEF Answers
<1>6. \A i \in Nat : Asks(nib, i) => Asks(ib, i + 0) /\ nib[i] = ib[i + 0]
  BY <1>3 DEF Asks
<1>7. LeftOf(ob, ib, nob, nib, Nowhere, 0)
  BY <1>5, <1>6 DEF LeftOf
<1>8. Sorted(t, nob, nib) /\ \A sg : Counted(t, sg, ob, ib) => Counted(t, sg, nob, nib)
  BY <1>4, <1>5, <1>6, FewerNumbers, <1>7
<1> QED
  BY <1>8 DEF nob, nib

LEMMA SortedOpened ==
    ASSUME NEW t \in Nat, NEW ob \in Lines, NEW ib, Sorted(t, ob, ib), NEW c \in Connections
    PROVE  LET nob == Opened(ob, c)
           IN  Sorted(t, nob, ib) /\ \A sg : Counted(t, sg, ob, ib) => Counted(t, sg, nob, ib)
<1> DEFINE nob == Opened(ob, c)
<1>1. DOMAIN <<Hello>> = {1} /\ <<Hello>>[1].type # "TICK_DONE"
  BY MessageTypes
<1>2. nob[c] = <<Hello>> /\ \A e \in Connections : e # c => nob[e] = ob[e]
  BY DEF Opened, Lines
<1>3. 0 \in Nat /\ Nowhere \in [Connections -> Nat] /\ \A e \in Connections : Nowhere[e] = 0
  BY DEF Nowhere
<1> HIDE DEF nob
<1>4. ASSUME NEW e \in Connections, NEW i \in Nat, Answers(nob, e, i)
      PROVE  Answers(ob, e, i + Nowhere[e]) /\ nob[e][i] = ob[e][i + Nowhere[e]]
  BY <1>1, <1>2, <1>3, <1>4 DEF Answers
<1>5. \A i \in Nat : Asks(ib, i) => Asks(ib, i + 0) /\ ib[i] = ib[i + 0]
  OBVIOUS
<1>6. LeftOf(ob, ib, nob, ib, Nowhere, 0)
  BY <1>4, <1>5 DEF LeftOf
<1>7. Sorted(t, nob, ib) /\ \A sg : Counted(t, sg, ob, ib) => Counted(t, sg, nob, ib)
  BY <1>3, <1>4, <1>5, FewerNumbers, <1>6
<1> QED
  BY <1>7 DEF nob

\* The device takes the next message.
LEMMA SortedTaken ==
    ASSUME NEW t \in Nat, NEW ob, NEW ib \in Seq(Messages), ib # <<>>, Sorted(t, ob, ib)
    PROVE  /\ Sorted(t, ob, Tail(ib))
           /\ \A sg : Counted(t, sg, ob, ib) => Counted(t, sg, ob, Tail(ib))
<1> DEFINE nib == Tail(ib)
<1>1. /\ Len(ib) \in Nat /\ DOMAIN ib = 1 .. Len(ib) /\ DOMAIN nib = 1 .. Len(ib) - 1
      /\ \A i \in 1 .. Len(ib) - 1 : nib[i] = ib[i + 1]
  BY TailFacts
<1> HIDE DEF nib
<1>2. 1 \in Nat /\ \A i \in Nat : Asks(nib, i) => Asks(ib, i + 1) /\ nib[i] = ib[i + 1]
  BY <1>1 DEF Asks
<1>3. Nowhere \in [Connections -> Nat] /\ \A e \in Connections : Nowhere[e] = 0
  BY DEF Nowhere
<1>4. \A e \in Connections, i \in Nat :
        Answers(ob, e, i) => Answers(ob, e, i + Nowhere[e]) /\ ob[e][i] = ob[e][i + Nowhere[e]]
  BY <1>3
<1>5. LeftOf(ob, ib, ob, nib, Nowhere, 1)
  BY <1>2, <1>4 DEF LeftOf
<1>6. Sorted(t, ob, nib) /\ \A sg : Counted(t, sg, ob, ib) => Counted(t, sg, ob, nib)
  BY <1>2, <1>3, <1>4, FewerNumbers, <1>5
<1> QED
  BY <1>6 DEF nib

\* The device takes a TICK and answers it at the end of its newest line.
LEMMA SortedAnswered ==
    ASSUME NEW t \in Nat, NEW ob \in Lines, NEW ib \in Seq(Messages), ib # <<>>,
           Head(ib).type = "TICK", Sorted(t, ob, ib),
           NEW cn \in Connections, \A e \in Connections : e > cn => ob[e] = <<>>
    PROVE  LET nob == Extended(ob, cn, Done(Head(ib).tick))
           IN  /\ Sorted(t, nob, Tail(ib))
               /\ \A sg : Counted(t, sg, ob, ib) => Counted(t, sg, nob, Tail(ib))
<1> DEFINE m   == Head(ib).tick
           nob == Extended(ob, cn, Done(m))
           nib == Tail(ib)
           k   == Len(ob[cn])
<1>1. /\ Len(ib) \in Nat \ {0} /\ DOMAIN ib = 1 .. Len(ib) /\ DOMAIN nib = 1 .. Len(ib) - 1
      /\ Head(ib) \in Messages /\ Head(ib) = ib[1]
      /\ \A i \in 1 .. Len(ib) - 1 : nib[i] = ib[i + 1]
  BY TailFacts
<1>2. /\ Asks(ib, 1) /\ ib[1].tick = m /\ m \in 1 .. MaxTick
      /\ Done(m) \in Messages /\ Done(m).type = "TICK_DONE" /\ Done(m).tick = m
  BY <1>1, MessageCases, MessageTypes DEF Asks
<1>3. /\ k \in Nat /\ DOMAIN ob[cn] = 1 .. k /\ DOMAIN Append(ob[cn], Done(m)) = 1 .. k + 1
      /\ Append(ob[cn], Done(m))[k + 1] = Done(m)
      /\ \A i \in 1 .. k : Append(ob[cn], Done(m))[i] = ob[cn][i]
  BY <1>2, AppendFacts DEF Lines
<1>4. nob[cn] = Append(ob[cn], Done(m)) /\ \A e \in Connections : e # cn => nob[e] = ob[e]
  BY DEF Extended, Lines
<1>5. \A i \in Nat : Asks(nib, i) => Asks(ib, i + 1) /\ nib[i] = ib[i + 1]
  BY <1>1 DEF Asks
<1> HIDE DEF m, nob, nib, k
<1>6. \A e \in Connections, i \in Nat : Answers(nob, e, i) =>
          \/ e = cn /\ i = k + 1 /\ nob[e][i].tick = m
          \/ (e = cn => i <= k) /\ Answers(ob, e, i) /\ nob[e][i] = ob[e][i]
  <2> SUFFICES ASSUME NEW e \in Connections, NEW i \in Nat, Answers(nob, e, i)
               PROVE  \/ e = cn /\ i = k + 1 /\ nob[e][i].tick = m
                      \/ (e = cn => i <= k) /\ Answers(ob, e, i) /\ nob[e][i] = ob[e][i]
    OBVIOUS
  <2>1. CASE e # cn
    BY <1>4, <2>1 DEF Answers
  <2>2. CASE e = cn
    <3>1. i \in 1 .. k + 1 /\ nob[e][i].type = "TICK_DONE"
      BY <1>3, <1>4, <2>2 DEF Answers
    <3>2. CASE i = k + 1
      BY <1>2, <1>3, <1>4, <2>2, <3>2
    <3>3. CASE i \in 1 .. k
      <4>1. nob[cn][i] = ob[cn][i] /\ i \in DOMAIN ob[cn]
        BY <1>3, <1>4, <3>3
      <4> QED
        BY <2>2, <3>1, <3>3, <4>1 DEF Answers
    <3> QED
      BY <1>3, <3>1, <3>2, <3>3
  <2> QED
    BY <2>1, <2>2
<1>7. \A e \in Connections, i \in Nat : Answers(ob, e, i) => e <= cn /\ ob[e][i].tick <= m
  <2> SUFFICES ASSUME NEW e \in Connections, NEW i \in Nat, Answers(ob, e, i)
               PROVE  e <= cn /\ ob[e][i].tick <= m
    OBVIOUS
  <2>1. ob[e] # <<>>
    BY EmptyFacts DEF Answers
  <2>2. ob[e][i].tick <= m
    BY <1>2 DEF Sorted
  <2> QED
    BY <2>1, <2>2, MaxConnNat
<1>8. Sorted(t, ob, nib) /\ \A sg : Counted(t, sg, ob, ib) => Counted(t, sg, ob, nib)
  BY SortedTaken DEF nib
<1>9. m <= t /\ \A j \in Nat : Asks(nib, j) => m <= nib[j].tick
  <2>1. \A j \in Nat : 1 <= j + 1 /\ j + 1 \in Nat /\ 1 \in Nat
    OBVIOUS
  <2> QED
    BY <1>2, <1>5, <2>1 DEF Sorted
<1>10. ASSUME NEW e \in Connections, NEW i \in Nat, Answers(nob, e, i)
       PROVE  nob[e][i].tick <= t
  BY <1>6, <1>8, <1>9, <1>10 DEF Sorted
<1>11. ASSUME NEW e \in Connections, NEW i \in Nat, NEW j \in Nat, Answers(nob, e, i), Asks(nib, j)
       PROVE  nob[e][i].tick <= nib[j].tick
  BY <1>6, <1>8, <1>9, <1>11 DEF Sorted
<1>12. ASSUME NEW e \in Connections, NEW f \in Connections, NEW i \in Nat, NEW j \in Nat,
              Answers(nob, e, i), Answers(nob, f, j), e < f \/ (e = f /\ i <= j)
       PROVE  nob[e][i].tick <= nob[f][j].tick
  <2>1. CASE f = cn /\ j = k + 1
    <3>1. nob[f][j].tick = m
      BY <1>3, <1>6, <1>12, <2>1
    <3>2. nob[e][i].tick <= m
      BY <1>2, <1>6, <1>7, <1>12
    <3> QED
      BY <3>1, <3>2
  <2>2. CASE ~(f = cn /\ j = k + 1)
    <3>1. Answers(ob, f, j) /\ nob[f][j] = ob[f][j] /\ (f = cn => j <= k) /\ f <= cn
      BY <1>6, <1>7, <1>12, <2>2
    <3>2. ~(e = cn /\ i = k + 1)
      BY <1>3, <1>12, <3>1, MaxConnNat
    <3>3. Answers(ob, e, i) /\ nob[e][i] = ob[e][i]
      BY <1>6, <1>12, <3>2
    <3> QED
      BY <1>8, <1>12, <3>1, <3>3 DEF Sorted
  <2> QED
    BY <2>1, <2>2
<1>13. Sorted(t, nob, nib)
  BY <1>8, <1>10, <1>11, <1>12 DEF Sorted
<1>14. ASSUME NEW sg, Counted(t, sg, ob, ib) PROVE Counted(t, sg, nob, nib)
  <2>1. m >= t
    BY <1>2, <1>14 DEF Counted
  <2>2. Counted(t, sg, ob, nib)
    BY <1>8, <1>14
  <2> QED
    BY <1>6, <2>1, <2>2 DEF Counted
<1> QED
  BY <1>13, <1>14 DEF m, nob, nib

\* The bus reads an answer.
LEMMA AnswerRead ==
    ASSUME NEW t \in Nat, NEW ob \in Lines, NEW ib \in Seq(Messages), Sorted(t, ob, ib),
           NEW c \in Connections, NEW cn, NEW last, Link(c, cn, last, ob),
           ob[c] # <<>>, ob[c][1].type = "TICK_DONE"
    PROVE  /\ ob[c][1].tick = t => Counted(t, t, Popped(ob, c), ib)
           /\ \A sg : Counted(t, sg, ob, ib) => ob[c][1].tick = t
<1> DEFINE nob == Popped(ob, c)
           n   == ob[c][1].tick
<1>1. /\ ob[c] \in Seq(Messages) /\ Len(ob[c]) \in Nat \ {0} /\ DOMAIN ob[c] = 1 .. Len(ob[c])
      /\ DOMAIN Tail(ob[c]) = 1 .. Len(ob[c]) - 1
      /\ \A i \in 1 .. Len(ob[c]) - 1 : Tail(ob[c])[i] = ob[c][i + 1]
  BY TailFacts DEF Lines
<1>2. nob[c] = Tail(ob[c]) /\ \A e \in Connections : e # c => nob[e] = ob[e]
  BY DEF Popped, Lines
<1>3. Answers(ob, c, 1) /\ 1 \in Nat /\ n \in Nat
  <2>1. ob[c][1] \in Messages /\ 1 \in DOMAIN ob[c]
    BY <1>1
  <2> QED
    BY <2>1, MessageCases, BusTypes DEF Answers
<1> HIDE DEF nob, n
<1>4. n <= t
  BY <1>3 DEF Sorted, n
<1>5. ASSUME NEW e \in Connections, NEW i \in Nat, Answers(nob, e, i) PROVE n <= nob[e][i].tick
  <2>1. CASE e = c
    <3>1. Answers(ob, c, i + 1) /\ nob[c][i] = ob[c][i + 1] /\ 1 <= i + 1 /\ i + 1 \in Nat
      <4>1. i \in 1 .. Len(ob[c]) - 1 /\ nob[c][i].type = "TICK_DONE"
        BY <1>1, <1>2, <1>5, <2>1 DEF Answers
      <4>2. nob[c][i] = ob[c][i + 1] /\ i + 1 \in 1 .. Len(ob[c])
        BY <1>1, <1>2, <4>1
      <4> QED
        BY <1>1, <4>1, <4>2 DEF Answers
    <3> QED
      BY <1>3, <2>1, <3>1 DEF Sorted, n
  <2>2. CASE e # c
    <3>1. Answers(ob, e, i) /\ nob[e] = ob[e]
      BY <1>2, <1>5, <2>2 DEF Answers
    <3>2. ob[e] # <<>>
      BY <3>1, EmptyFacts DEF Answers
    <3>3. ob[e][1].type = "HELLO"
      BY <2>2, <3>2 DEF Link
    <3>4. ob[e] \in Seq(Messages)
      BY DEF Lines
    <3>5. 1 \in DOMAIN ob[e] /\ 1 \in Nat
      BY <3>2, <3>4, TailFacts
    <3>6. e > c
      BY <3>3, <3>5 DEF Link
    <3> QED
      BY <1>3, <3>1, <3>6, MaxConnNat DEF Sorted, n
  <2> QED
    BY <2>1, <2>2
<1>6. \A j \in Nat : Asks(ib, j) => n <= ib[j].tick
  BY <1>3 DEF Sorted, n
<1>7. n = t => Counted(t, t, nob, ib)
  BY <1>5, <1>6 DEF Counted
<1>8. ASSUME NEW sg, Counted(t, sg, ob, ib) PROVE n = t
  <2>1. n >= t
    BY <1>3, <1>8 DEF Counted, n
  <2> QED
    BY <1>3, <1>4, <2>1
<1> QED
  BY <1>7, <1>8 DEF nob, n

-----------------------------------------------------------------------------
(* The answers.                                                            *)

AnswerInv ==
    /\ LinkInv
    /\ \A d \in Devices :
          /\ Sorted(tick, outbox[d], inbox[d])
          /\ loop = "waiting" /\ d \in waiter.received
             => Counted(tick, signal[d], outbox[d], inbox[d])

LEMMA SentOne ==
    ASSUME LinkInv, NEW m \in Messages, NEW d \in Devices
    PROVE  Sent(m)[d] \in {inbox[d], Append(inbox[d], m)}
BY SentTyped DEF LinkInv

LEMMA LoopNumbered == AnswerInv /\ LoopOrRequest => AnswerInv'
<1> SUFFICES ASSUME AnswerInv, LoopOrRequest PROVE AnswerInv'
  OBVIOUS
<1>1. /\ LinkInv /\ LinkInv' /\ paused \in BOOLEAN /\ tick \in Nat
      /\ waiter \in [expected : SUBSET Devices, received : SUBSET Devices]
  <2>1. LinkInv /\ LinkInv'
    BY LoopLinked DEF AnswerInv
  <2>2. /\ tick \in 0 .. MaxTick /\ paused \in BOOLEAN
        /\ waiter \in [expected : SUBSET Devices, received : SUBSET Devices]
    BY <2>1 DEF LinkInv, TypeOK
  <2> QED
    BY <2>1, <2>2, BusTypes
<1>2. ASSUME NEW d \in Devices
      PROVE  outbox[d] \in Lines /\ inbox[d] \in Seq(Messages) /\ Sorted(tick, outbox[d], inbox[d])
  BY <1>1, LinkFacts DEF AnswerInv
<1>3. CASE StartTick
  <2>1. /\ tick' = tick + 1 /\ tick + 1 \in 1 .. MaxTick /\ inbox' = Sent(Tick(tick + 1))
        /\ waiter'.received = {} /\ outbox' = outbox
    BY <1>1, <1>3, BusTypes DEF StartTick
  <2>2. ASSUME NEW d \in Devices PROVE Sorted(tick', outbox'[d], inbox'[d])
    <3>1. inbox'[d] \in {inbox[d], Append(inbox[d], Tick(tick + 1))}
      BY <1>1, <2>1, SentOne, MessageTypes
    <3>2. Sorted(tick + 1, outbox[d], inbox[d]) /\ Sorted(tick + 1, outbox[d], Append(inbox[d], Tick(tick + 1)))
      BY <1>1, <1>2, <2>1, NewTick
    <3>3. CASE inbox'[d] = inbox[d]
      BY <2>1, <3>2, <3>3
    <3>4. CASE inbox'[d] = Append(inbox[d], Tick(tick + 1))
      BY <2>1, <3>2, <3>4
    <3> QED
      BY <3>1, <3>3, <3>4
  <2> QED
    BY <1>1, <2>1, <2>2 DEF AnswerInv
<1>4. CASE FinishTick \/ TickTimeout
  BY <1>1, <1>2, <1>4 DEF FinishTick, TickTimeout, AnswerInv
<1>5. CASE LoopTail \/ Pause \/ Resume \/ \E n \in StepSizes : Step(n)
  <2>1. /\ UNCHANGED <<tick, waiter, outbox, signal>> /\ loop' \in {loop, "top"}
        /\ inbox' = inbox \/ \E p \in BOOLEAN : inbox' = Sent(Pausing(p))
    BY <1>5 DEF LoopTail, Pause, Resume, Step, Request
  <2>2. ASSUME NEW d \in Devices
        PROVE  /\ Sorted(tick, outbox[d], inbox'[d])
               /\ \A sg : Counted(tick, sg, outbox[d], inbox[d])
                          => Counted(tick, sg, outbox[d], inbox'[d])
    <3>1. CASE inbox'[d] = inbox[d]
      BY <1>2, <3>1
    <3>2. ASSUME NEW p \in BOOLEAN, inbox'[d] = Append(inbox[d], Pausing(p))
          PROVE  /\ Sorted(tick, outbox[d], inbox'[d])
                 /\ \A sg : Counted(tick, sg, outbox[d], inbox[d])
                            => Counted(tick, sg, outbox[d], inbox'[d])
      <4>1. Pausing(p) \in Messages /\ Pausing(p).type # "TICK"
        BY MessageTypes
      <4> DEFINE m == Pausing(p)
      <4> HIDE DEF m
      <4>2. /\ Sorted(tick, outbox[d], Append(inbox[d], m))
            /\ \A sg : Counted(tick, sg, outbox[d], inbox[d])
                       => Counted(tick, sg, outbox[d], Append(inbox[d], m))
        BY <1>1, <1>2, <4>1, OtherMessage DEF m
      <4> QED
        BY <3>2, <4>2 DEF m
    <3>3. inbox'[d] = inbox[d] \/ \E p \in BOOLEAN : inbox'[d] = Append(inbox[d], Pausing(p))
      BY <1>1, <2>1, SentOne, MessageTypes
    <3> QED
      BY <3>1, <3>2, <3>3
  <2> QED
    BY <1>1, <2>1, <2>2 DEF AnswerInv
<1> QED
  BY <1>3, <1>4, <1>5 DEF LoopOrRequest, Loop

(* A step of one device.                                                   *)
LEMMA DeviceNumbered ==
    ASSUME AnswerInv, LinkInv', UNCHANGED <<tick, loop>>, NEW d \in Devices,
           \A x \in Devices : x # d => /\ outbox'[x] = outbox[x] /\ inbox'[x] = inbox[x]
                                       /\ signal'[x] = signal[x]
                                       /\ x \in waiter'.received => x \in waiter.received,
           Sorted(tick, outbox'[d], inbox'[d]),
           loop = "waiting" /\ d \in waiter'.received
           => Counted(tick, signal'[d], outbox'[d], inbox'[d])
    PROVE  AnswerInv'
<1>1. ASSUME NEW x \in Devices
      PROVE  /\ Sorted(tick, outbox'[x], inbox'[x])
             /\ loop = "waiting" /\ x \in waiter'.received
                => Counted(tick, signal'[x], outbox'[x], inbox'[x])
  <2>1. CASE x = d
    BY <2>1
  <2>2. CASE x # d
    BY <2>2 DEF AnswerInv
  <2> QED
    BY <2>1, <2>2
<1> QED
  BY <1>1 DEF AnswerInv

\* The same, of a step that counts nobody and brings in no outputs.
LEMMA DeviceKept ==
    ASSUME AnswerInv, LinkInv', UNCHANGED <<tick, loop, signal, waiter>>, NEW d \in Devices,
           \A x \in Devices : x # d => outbox'[x] = outbox[x] /\ inbox'[x] = inbox[x],
           Sorted(tick, outbox'[d], inbox'[d]),
           \A sg : Counted(tick, sg, outbox[d], inbox[d]) => Counted(tick, sg, outbox'[d], inbox'[d])
    PROVE  AnswerInv'
BY DeviceNumbered DEF AnswerInv

LEMMA AnswerInductive == AnswerInv /\ [Next]_vars => AnswerInv'
<1> SUFFICES ASSUME AnswerInv, [Next]_vars PROVE AnswerInv'
  OBVIOUS
<1>1. LinkInv /\ LinkInv'
  BY LinkInductive DEF AnswerInv
<1>2. /\ outbox \in [Devices -> Lines] /\ inbox \in [Devices -> Seq(Messages)]
      /\ signal \in [Devices -> -1 .. MaxTick] /\ tick \in Nat
      /\ waiter \in [expected : SUBSET Devices, received : SUBSET Devices]
      /\ paused \in BOOLEAN
  BY <1>1, BusTypes DEF LinkInv, TypeOK, Lines
<1>3. ASSUME NEW d \in Devices
      PROVE  /\ outbox[d] \in Lines /\ inbox[d] \in Seq(Messages)
             /\ Sorted(tick, outbox[d], inbox[d])
             /\ Link(registered[d], conn[d], lastConn[d], outbox[d])
             /\ loop = "waiting" /\ d \in waiter.received
                => Counted(tick, signal[d], outbox[d], inbox[d])
  BY <1>1, LinkFacts DEF AnswerInv
<1>4. CASE Aside
  BY <1>1, <1>4 DEF Aside, plantVars, busVars, deviceVars, AnswerInv
<1>5. CASE LoopOrRequest
  BY <1>5, LoopNumbered
<1>6. ASSUME NEW d \in Devices, NEW c \in Connections, Receive(d, c), Head(outbox[d][c]).type = "HELLO"
      PROVE  AnswerInv'
  <2> DEFINE nob == Registered(outbox[d], registered[d], c)
  <2>1. /\ outbox' = [outbox EXCEPT ![d] = nob]
        /\ inbox' = [inbox EXCEPT ![d] = IF conn[d] = c THEN Append(@, Welcome) ELSE @]
        /\ outbox[d][c] # <<>>
        /\ UNCHANGED <<tick, loop, signal, waiter>>
    BY <1>1, <1>6, RegisterLinked DEF Receive, Register
  <2>2. Sorted(tick, nob, inbox[d])
        /\ \A sg : Counted(tick, sg, outbox[d], inbox[d]) => Counted(tick, sg, nob, inbox[d])
    BY <1>2, <1>3, <2>1, SortedRegister
  <2> HIDE DEF nob
  <2>3. /\ outbox'[d] = nob /\ inbox'[d] \in {inbox[d], Append(inbox[d], Welcome)}
        /\ \A x \in Devices : x # d => outbox'[x] = outbox[x] /\ inbox'[x] = inbox[x]
    BY <1>2, <2>1
  <2>4. Welcome \in Messages /\ Welcome.type # "TICK"
    BY <1>2, WelcomeType
  <2>5. Sorted(tick, nob, Append(inbox[d], Welcome))
        /\ \A sg : Counted(tick, sg, nob, inbox[d]) => Counted(tick, sg, nob, Append(inbox[d], Welcome))
    BY <1>2, <1>3, <2>2, <2>4, OtherMessage
  <2>6. Sorted(tick, outbox'[d], inbox'[d])
        /\ \A sg : Counted(tick, sg, outbox[d], inbox[d]) => Counted(tick, sg, outbox'[d], inbox'[d])
    <3>1. CASE inbox'[d] = inbox[d]
      BY <2>2, <2>3, <3>1
    <3>2. CASE inbox'[d] = Append(inbox[d], Welcome)
      BY <2>2, <2>3, <2>5, <3>2
    <3> QED
      BY <2>3, <3>1, <3>2
  <2> QED
    BY <1>1, <2>1, <2>3, <2>6, DeviceKept
<1>7. ASSUME NEW d \in Devices, NEW c \in Connections, Receive(d, c), Head(outbox[d][c]).type # "HELLO"
      PROVE  AnswerInv'
  <2> DEFINE n   == outbox[d][c][1].tick
             nob == Popped(outbox[d], c)
  <2>1. /\ c = registered[d] /\ outbox[d][c] # <<>> /\ outbox[d][c][1].type = "TICK_DONE"
        /\ OnTickDone(d, c, n)
        /\ outbox' = [outbox EXCEPT ![d] = nob] /\ UNCHANGED <<tick, loop, inbox>>
    BY <1>1, <1>7, AnswerLinked
  <2>2. Sorted(tick, nob, inbox[d])
        /\ \A sg : Counted(tick, sg, outbox[d], inbox[d]) => Counted(tick, sg, nob, inbox[d])
    BY <1>2, <1>3, <2>1, SortedPopped
  <2>3. Link(c, conn[d], lastConn[d], outbox[d])
    BY <1>3, <2>1
  <2>4. /\ n = tick => Counted(tick, tick, nob, inbox[d])
        /\ \A sg : Counted(tick, sg, outbox[d], inbox[d]) => n = tick
    BY <1>2, <1>3, <2>1, <2>3, AnswerRead
  <2> HIDE DEF n, nob
  <2>5. /\ outbox'[d] = nob /\ signal'[d] = n
        /\ \A x \in Devices : x # d => outbox'[x] = outbox[x] /\ signal'[x] = signal[x]
        /\ waiter' = (IF loop = "waiting" /\ n = tick /\ d \in waiter.expected
                      THEN [waiter EXCEPT !.received = @ \cup {d}] ELSE waiter)
    BY <1>2, <2>1 DEF OnTickDone
  <2>6. \/ waiter'.received = waiter.received
        \/ n = tick /\ waiter'.received = waiter.received \cup {d}
    BY <1>2, <2>5
  <2>7. ASSUME loop = "waiting", d \in waiter'.received
        PROVE  Counted(tick, signal'[d], outbox'[d], inbox'[d])
    <3>1. n = tick
      BY <1>3, <2>4, <2>6, <2>7
    <3> QED
      BY <2>1, <2>4, <2>5, <3>1
  <2>8. Sorted(tick, outbox'[d], inbox'[d])
    BY <2>1, <2>2, <2>5
  <2> QED
    BY <1>1, <2>1, <2>5, <2>6, <2>7, <2>8, DeviceNumbered
<1>8. ASSUME NEW d \in Devices, NEW c \in Connections, ConnectionEnds(d, c) PROVE AnswerInv'
  <2>1. UNCHANGED <<tick, loop, waiter, signal, inbox, outbox>>
    BY <1>1, <1>8, EndLinked DEF busVars
  <2> QED
    BY <1>1, <2>1 DEF AnswerInv
<1>9. ASSUME NEW d \in Devices, Connect(d) PROVE AnswerInv'
  <2> DEFINE k   == lastConn[d] + 1
             nob == Opened(outbox[d], k)
  <2>1. /\ k \in Connections /\ outbox' = [outbox EXCEPT ![d] = nob]
        /\ UNCHANGED <<tick, loop, waiter, signal, inbox>>
    BY <1>1, <1>9, ConnectLinked DEF busVars
  <2> HIDE DEF k
  <2>2. Sorted(tick, nob, inbox[d])
        /\ \A sg : Counted(tick, sg, outbox[d], inbox[d]) => Counted(tick, sg, nob, inbox[d])
    BY <1>2, <1>3, <2>1, SortedOpened
  <2> HIDE DEF nob
  <2>3. outbox'[d] = nob /\ \A x \in Devices : x # d => outbox'[x] = outbox[x]
    BY <1>2, <2>1
  <2> QED
    BY <1>1, <2>1, <2>2, <2>3, DeviceKept
<1>10. ASSUME NEW d \in Devices, Handle(d) PROVE AnswerInv'
  <2> DEFINE nob == Extended(outbox[d], conn[d], Done(Head(inbox[d]).tick))
  <2>1. /\ inbox[d] # <<>> /\ inbox' = [inbox EXCEPT ![d] = Tail(@)]
        /\ \/ outbox' = outbox
           \/ /\ Head(inbox[d]).type = "TICK" /\ conn[d] \in Connections
              /\ outbox' = [outbox EXCEPT ![d] = nob]
        /\ UNCHANGED <<tick, loop, waiter, signal>>
    BY <1>1, <1>10, HandleLinked DEF busVars
  <2>2. inbox'[d] = Tail(inbox[d]) /\ \A x \in Devices : x # d => inbox'[x] = inbox[x]
    BY <1>2, <2>1
  <2>3. CASE outbox' = outbox
    <3>1. Sorted(tick, outbox[d], Tail(inbox[d]))
          /\ \A sg : Counted(tick, sg, outbox[d], inbox[d]) => Counted(tick, sg, outbox[d], Tail(inbox[d]))
      BY <1>2, <1>3, <2>1, SortedTaken
    <3> QED
      BY <1>1, <2>1, <2>2, <2>3, <3>1, DeviceKept
  <2>4. CASE /\ Head(inbox[d]).type = "TICK" /\ conn[d] \in Connections
             /\ outbox' = [outbox EXCEPT ![d] = nob]
    <3>1. \A e \in Connections : e > conn[d] => outbox[d][e] = <<>>
      BY <1>3, <2>4, MaxConnNat DEF Link
    <3>2. Sorted(tick, nob, Tail(inbox[d]))
          /\ \A sg : Counted(tick, sg, outbox[d], inbox[d]) => Counted(tick, sg, nob, Tail(inbox[d]))
      BY <1>2, <1>3, <2>1, <2>4, <3>1, SortedAnswered
    <3> HIDE DEF nob
    <3>3. outbox'[d] = nob /\ \A x \in Devices : x # d => outbox'[x] = outbox[x]
      BY <1>2, <2>4
    <3> QED
      BY <1>1, <2>1, <2>2, <3>2, <3>3, DeviceKept
  <2> QED
    BY <2>1, <2>3, <2>4
<1>11. ASSUME NEW d \in Devices, NEW keep \in 0 .. Len(inbox[d]), NEW sent \in Nat,
              Disconnect(d, keep, sent)
       PROVE  AnswerInv'
  <2> DEFINE nob == Cut(outbox[d], conn[d], sent)
             nib == SubSeq(inbox[d], 1, keep)
  <2>1. /\ conn[d] \in Connections /\ sent \in 0 .. Len(outbox[d][conn[d]])
        /\ inbox' = [inbox EXCEPT ![d] = nib] /\ outbox' = [outbox EXCEPT ![d] = nob]
        /\ UNCHANGED <<tick, loop, waiter, signal>>
    BY <1>1, <1>11, DisconnectLinked DEF busVars
  <2>2. Sorted(tick, nob, nib)
        /\ \A sg : Counted(tick, sg, outbox[d], inbox[d]) => Counted(tick, sg, nob, nib)
    BY <1>2, <1>3, <2>1, SortedCut
  <2> HIDE DEF nob, nib
  <2>3. /\ outbox'[d] = nob /\ inbox'[d] = nib
        /\ \A x \in Devices : x # d => outbox'[x] = outbox[x] /\ inbox'[x] = inbox[x]
    BY <1>2, <2>1
  <2> QED
    BY <1>1, <2>1, <2>2, <2>3, DeviceKept
<1> QED
  BY <1>1, <1>4, <1>5, <1>6, <1>7, <1>8, <1>9, <1>10, <1>11, StepCases

(***************************************************************************)
(* A device that counts as having answered the tick has brought in its     *)
(* outputs of that very tick: through broken and renewed connections, late *)
(* answers and timeouts, _on_tick_done never takes one for another.        *)
(***************************************************************************)
THEOREM AnswersOfThisTick == Spec => []AnswersAreOfThisTick
<1>1. Init => AnswerInv
  <2> SUFFICES ASSUME Init PROVE AnswerInv
    OBVIOUS
  <2>1. DOMAIN <<>> = {}
    BY EmptyFacts
  <2>2. ASSUME NEW d \in Devices PROVE Sorted(tick, outbox[d], inbox[d])
    <3>1. inbox[d] = <<>> /\ \A e \in Connections : outbox[d][e] = <<>>
      BY DEF Init
    <3> QED
      BY <2>1, <3>1 DEF Sorted, Asks, Answers
  <2>3. waiter.received = {} /\ LinkInv
    BY LinkStart DEF Init, NoWaiter
  <2> QED
    BY <2>2, <2>3 DEF AnswerInv
<1>2. AnswerInv => AnswersAreOfThisTick
  BY DEF AnswerInv, LinkInv, TypeOK, AnswersAreOfThisTick, Counted
<1> QED
  BY <1>1, <1>2, AnswerInductive, PTL DEF Spec
===============================================================================
