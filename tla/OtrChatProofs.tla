--------------------------- MODULE OtrChatProofs ----------------------------
(* Theorems about OtrChat, for any bounds: its types, that the two ends of a *)
(* conversation implement PrivateChannel, and that they agree when quiet.    *)
EXTENDS OtrChat, TLAPS

LEMMA PeerFacts ==
    ASSUME NEW p \in Parties
    PROVE  Peer[p] \in Parties /\ Peer[p] # p /\ Peer[Peer[p]] = p
BY ChatAssumption

LEMMA BoundFacts ==
    MaxHalves \in Nat /\ MaxTicks \in Nat /\ MaxStarts \in Nat /\ MaxEvents \in Nat
BY ChatAssumption

\* What the parts of a D-H number, a key, a tick and a message can be.
LEMMA HalfFields ==
    ASSUME NEW h \in Half
    PROVE  h.by \in Parties /\ h.n \in 1..MaxHalves /\ h # NONE
BY NoneAssumption DEF Half

LEMMA KeyParts ==
    ASSUME NEW k \in Key
    PROVE  k[1] \in Half /\ k[2] \in Half /\ k # NOKEY /\ k = <<k[1], k[2]>>
BY NoneAssumption DEF Key, NOKEY

LEMMA TickFields ==
    ASSUME NEW t \in Tick
    PROVE  /\ t.op \in {"start", "end", "send", "recv"}
           /\ t.op = "send" => t.text \in 1..MaxEvents
           /\ t.op = "recv" => t.msg \in Message
BY DEF Tick

LEMMA MessageFields ==
    ASSUME NEW m \in Message
    PROVE  /\ m.type \in {"query", "error", "plain", "dhcommit", "dhkey",
                          "revealsig", "sig", "data", "bye"}
           /\ m.key[1] \in Half \cup {NONE} /\ m.key[2] \in Half \cup {NONE}
           /\ m.key = <<m.key[1], m.key[2]>>
           /\ m.text \in 0..MaxEvents
BY DEF Message

LEMMA MessageMade ==
    ASSUME NEW type \in {"query", "error", "plain", "dhcommit", "dhkey",
                         "revealsig", "sig", "data", "bye"},
           NEW a \in Half \cup {NONE}, NEW b \in Half \cup {NONE},
           NEW n \in 0..MaxEvents
    PROVE  Msg(type, <<a, b>>, n) \in Message
BY DEF Msg, Message

LEMMA MessageParts ==
    ASSUME NEW type, NEW k, NEW n
    PROVE  Msg(type, k, n).type = type /\ Msg(type, k, n).key = k /\ Msg(type, k, n).text = n
BY DEF Msg

-----------------------------------------------------------------------------
(* What is on its way, and in which order. *)

\* What is on its way to a party, in the order it will be run: its queued
\* ticks t, then what the network n has for it.
LineOf(t, n) == 1..(Len(t) + Len(n))

InLine(t, n, i, m) ==
    IF i <= Len(t) THEN t[i].op = "recv" /\ t[i].msg = m ELSE n[i - Len(t)] = m

OnLine(t, n, m) == \E i \in LineOf(t, n) : InLine(t, n, i, m)

Before(t, n, x, y) ==
    \E i, j \in LineOf(t, n) : i < j /\ InLine(t, n, i, x) /\ InLine(t, n, j, y)

LEMMA LineDeliver ==
    ASSUME NEW t \in Seq(Tick), NEW n \in Seq(Message), n # <<>>,
           NEW r \in Tick, r.op = "recv", r.msg = Head(n)
    PROVE  /\ \A m : OnLine(Append(t, r), Tail(n), m) <=> OnLine(t, n, m)
           /\ \A x, y : Before(Append(t, r), Tail(n), x, y) <=> Before(t, n, x, y)
<1>. DEFINE u == Append(t, r)
<1>1. Len(u) = Len(t) + 1 /\ Len(Tail(n)) = Len(n) - 1 /\ Len(t) \in Nat /\ Len(n) \in Nat \ {0}
  OBVIOUS
<1>2. LineOf(u, Tail(n)) = LineOf(t, n)
  BY <1>1 DEF LineOf
<1>3. ASSUME NEW i \in LineOf(t, n), NEW m
      PROVE  InLine(u, Tail(n), i, m) <=> InLine(t, n, i, m)
  <2>1. i \in Nat /\ 1 <= i /\ i <= Len(t) + Len(n)
    BY <1>1, <1>3 DEF LineOf
  <2>2. CASE i <= Len(t)
    <3>1. u[i] = t[i]
      BY <1>1, <2>1, <2>2
    <3> QED BY <1>1, <2>1, <2>2, <3>1 DEF InLine
  <2>3. CASE i = Len(t) + 1
    <3>1. u[i].op = "recv" /\ u[i].msg = Head(n) /\ n[1] = Head(n)
      BY <1>1, <2>3
    <3>2. i - Len(t) = 1 /\ i <= Len(u) /\ ~ i <= Len(t)
      BY <1>1, <2>3
    <3> QED BY <3>1, <3>2 DEF InLine
  <2>4. CASE i > Len(t) + 1
    <3>1. Tail(n)[i - Len(u)] = n[i - Len(t)]
      <4>1. i - Len(u) \in 1..Len(Tail(n)) /\ (i - Len(u)) + 1 = i - Len(t)
        BY <1>1, <2>1, <2>4
      <4> QED BY <4>1
    <3>2. ~ i <= Len(u) /\ ~ i <= Len(t)
      BY <1>1, <2>1, <2>4
    <3> QED BY <3>1, <3>2 DEF InLine
  <2> QED BY <1>1, <2>1, <2>2, <2>3, <2>4
<1> QED BY <1>2, <1>3 DEF OnLine, Before

LEMMA LineQueue ==
    ASSUME NEW t \in Seq(Tick), NEW n \in Seq(Message), NEW u \in Tick, u.op # "recv"
    PROVE  /\ \A m : OnLine(Append(t, u), n, m) <=> OnLine(t, n, m)
           /\ \A x, y : Before(Append(t, u), n, x, y) => Before(t, n, x, y)
<1>. DEFINE a == Append(t, u)
            Old(i) == IF i <= Len(t) THEN i ELSE i - 1
<1>1. Len(a) = Len(t) + 1 /\ Len(t) \in Nat /\ Len(n) \in Nat /\ a[Len(t) + 1] = u
      /\ \A i \in 1..Len(t) : a[i] = t[i]
  OBVIOUS
<1>2. ASSUME NEW i \in LineOf(a, n), NEW m, InLine(a, n, i, m)
      PROVE  Old(i) \in LineOf(t, n) /\ InLine(t, n, Old(i), m) /\ i # Len(t) + 1
  <2>1. i \in Nat /\ 1 <= i /\ i <= Len(t) + 1 + Len(n)
    BY <1>1, <1>2 DEF LineOf
  <2>2. i # Len(t) + 1
    BY <1>1, <1>2, <2>1 DEF InLine
  <2>3. CASE i <= Len(t)
    <3>1. a[i] = t[i] /\ i <= Len(a) /\ Old(i) = i
      BY <1>1, <2>1, <2>3
    <3> QED BY <1>1, <1>2, <2>1, <2>2, <2>3, <3>1 DEF InLine, LineOf
  <2>4. CASE i > Len(t)
    <3>1. i - Len(a) = Old(i) - Len(t) /\ ~ i <= Len(a) /\ ~ Old(i) <= Len(t)
          /\ Old(i) \in LineOf(t, n)
      BY <1>1, <2>1, <2>2, <2>4 DEF LineOf
    <3> QED BY <1>2, <2>2, <3>1 DEF InLine
  <2> QED BY <1>1, <2>1, <2>3, <2>4
<1>3. ASSUME NEW i \in LineOf(t, n), NEW m, InLine(t, n, i, m)
      PROVE  \E j \in LineOf(a, n) : InLine(a, n, j, m)
  <2>1. i \in Nat /\ 1 <= i /\ i <= Len(t) + Len(n)
    BY <1>1, <1>3 DEF LineOf
  <2>2. CASE i <= Len(t)
    <3>1. a[i] = t[i] /\ i <= Len(a) /\ i \in LineOf(a, n)
      BY <1>1, <2>1, <2>2 DEF LineOf
    <3> QED BY <1>3, <2>2, <3>1 DEF InLine
  <2>3. CASE i > Len(t)
    <3>1. (i + 1) - Len(a) = i - Len(t) /\ ~ (i + 1) <= Len(a) /\ ~ i <= Len(t)
          /\ i + 1 \in LineOf(a, n)
      BY <1>1, <2>1, <2>3 DEF LineOf
    <3> QED BY <1>3, <3>1 DEF InLine
  <2> QED BY <1>1, <2>1, <2>2, <2>3
<1>4. \A i, j \in LineOf(a, n) : i < j /\ i # Len(t) + 1 /\ j # Len(t) + 1 => Old(i) < Old(j)
  BY <1>1 DEF LineOf
<1>5. \A m : OnLine(a, n, m) <=> OnLine(t, n, m)
  BY <1>2, <1>3 DEF OnLine
<1>6. \A x, y : Before(a, n, x, y) => Before(t, n, x, y)
  BY <1>2, <1>4 DEF Before
<1> QED BY <1>5, <1>6

LEMMA LineTake ==
    ASSUME NEW t \in Seq(Tick), NEW n \in Seq(Message), t # <<>>
    PROVE  /\ \A m : OnLine(Tail(t), n, m) =>
                OnLine(t, n, m) /\ (t[1].op = "recv" => Before(t, n, t[1].msg, m))
           /\ \A m : OnLine(t, n, m) =>
                OnLine(Tail(t), n, m) \/ (t[1].op = "recv" /\ m = t[1].msg)
           /\ t[1].op = "recv" => OnLine(t, n, t[1].msg)
           /\ \A x, y : Before(Tail(t), n, x, y) => Before(t, n, x, y)
<1>. DEFINE a == Tail(t)
<1>1. Len(a) = Len(t) - 1 /\ Len(t) \in Nat \ {0} /\ Len(n) \in Nat
      /\ \A i \in 1..Len(a) : a[i] = t[i + 1]
  OBVIOUS
<1>2. ASSUME NEW i \in LineOf(a, n), NEW m
      PROVE  i + 1 \in LineOf(t, n) /\ (InLine(a, n, i, m) <=> InLine(t, n, i + 1, m))
  <2>1. i \in Nat /\ 1 <= i /\ i + 1 \in LineOf(t, n)
    BY <1>1, <1>2 DEF LineOf
  <2>2. CASE i <= Len(a)
    <3>1. a[i] = t[i + 1] /\ i + 1 <= Len(t)
      BY <1>1, <2>1, <2>2
    <3> QED BY <2>1, <2>2, <3>1 DEF InLine
  <2>3. CASE i > Len(a)
    <3>1. i - Len(a) = (i + 1) - Len(t) /\ ~ i <= Len(a) /\ ~ (i + 1) <= Len(t)
      BY <1>1, <2>1, <2>3
    <3> QED BY <2>1, <3>1 DEF InLine
  <2> QED BY <1>1, <2>1, <2>2, <2>3
<1>3. ASSUME NEW i \in LineOf(t, n), i # 1
      PROVE  i - 1 \in LineOf(a, n) /\ (i - 1) + 1 = i
  BY <1>1, <1>3 DEF LineOf
<1>4. 1 \in LineOf(t, n) /\ \A m : InLine(t, n, 1, m) <=> t[1].op = "recv" /\ m = t[1].msg
  <2>1. 1 \in LineOf(t, n) /\ 1 <= Len(t)
    BY <1>1 DEF LineOf
  <2> QED BY <2>1 DEF InLine
<1>5. \A i \in LineOf(a, n) : 1 < i + 1
  BY <1>1 DEF LineOf
<1>6. \A m : OnLine(a, n, m) =>
         OnLine(t, n, m) /\ (t[1].op = "recv" => Before(t, n, t[1].msg, m))
  BY <1>2, <1>4, <1>5 DEF OnLine, Before
<1>7. \A m : OnLine(t, n, m) => OnLine(a, n, m) \/ (t[1].op = "recv" /\ m = t[1].msg)
  BY <1>2, <1>3, <1>4 DEF OnLine
<1>8. t[1].op = "recv" => OnLine(t, n, t[1].msg)
  BY <1>4 DEF OnLine
<1>9. \A x, y : Before(a, n, x, y) => Before(t, n, x, y)
  <2> SUFFICES ASSUME NEW x, NEW y, Before(a, n, x, y) PROVE Before(t, n, x, y)
    OBVIOUS
  <2>1. PICK i \in LineOf(a, n), j \in LineOf(a, n) :
               i < j /\ InLine(a, n, i, x) /\ InLine(a, n, j, y)
    BY DEF Before
  <2>2. i + 1 < j + 1
    BY <2>1, <1>1 DEF LineOf
  <2> QED BY <1>2, <2>1, <2>2 DEF Before
<1> QED BY <1>6, <1>7, <1>8, <1>9

LEMMA LineInject ==
    ASSUME NEW t \in Seq(Tick), NEW n \in Seq(Message), NEW m \in Message
    PROVE  /\ \A x : OnLine(t, Append(n, m), x) <=> OnLine(t, n, x) \/ x = m
           /\ \A x, y : Before(t, Append(n, m), x, y) =>
                OnLine(t, n, x) /\ (Before(t, n, x, y) \/ y = m)
<1>. DEFINE a == Append(n, m)
            last == Len(t) + Len(n) + 1
<1>1. Len(a) = Len(n) + 1 /\ Len(t) \in Nat /\ Len(n) \in Nat
      /\ a[Len(n) + 1] = m /\ \A i \in 1..Len(n) : a[i] = n[i]
  OBVIOUS
<1>2. ASSUME NEW i \in LineOf(t, n), NEW x
      PROVE  i \in LineOf(t, a) /\ i < last /\ (InLine(t, a, i, x) <=> InLine(t, n, i, x))
  <2>1. i \in Nat /\ 1 <= i /\ i <= Len(t) + Len(n) /\ i \in LineOf(t, a) /\ i < last
    BY <1>1, <1>2 DEF LineOf
  <2>2. ~ i <= Len(t) => a[i - Len(t)] = n[i - Len(t)]
    <3> SUFFICES ASSUME ~ i <= Len(t) PROVE i - Len(t) \in 1..Len(n)
      BY <1>1
    <3> QED BY <1>1, <2>1
  <2> QED BY <2>1, <2>2 DEF InLine
<1>3. last \in LineOf(t, a) /\ \A x : InLine(t, a, last, x) <=> x = m
  <2>1. last \in LineOf(t, a) /\ ~ last <= Len(t) /\ last - Len(t) = Len(n) + 1
    BY <1>1 DEF LineOf
  <2> QED BY <1>1, <2>1 DEF InLine
<1>4. \A i \in LineOf(t, a) : i \in LineOf(t, n) \/ i = last
  BY <1>1 DEF LineOf
<1>5. \A i \in LineOf(t, a) : ~ last < i
  BY <1>1 DEF LineOf
<1>. HIDE DEF a, last
<1>6. \A x : OnLine(t, a, x) <=> OnLine(t, n, x) \/ x = m
  BY <1>2, <1>3, <1>4 DEF OnLine
<1>7. \A x, y : Before(t, a, x, y) => OnLine(t, n, x) /\ (Before(t, n, x, y) \/ y = m)
  <2> SUFFICES ASSUME NEW x, NEW y, Before(t, a, x, y)
               PROVE  OnLine(t, n, x) /\ (Before(t, n, x, y) \/ y = m)
    OBVIOUS
  <2>1. PICK i \in LineOf(t, a), j \in LineOf(t, a) :
               i < j /\ InLine(t, a, i, x) /\ InLine(t, a, j, y)
    BY DEF Before
  <2>2. i \in LineOf(t, n)
    BY <1>4, <1>5, <2>1
  <2> QED BY <1>2, <1>3, <1>4, <2>1, <2>2 DEF OnLine, Before
<1> QED BY <1>6, <1>7 DEF a

LEMMA LineLose ==
    ASSUME NEW t \in Seq(Tick), NEW n \in Seq(Message), n # <<>>
    PROVE  /\ \A m : OnLine(t, Tail(n), m) => OnLine(t, n, m)
           /\ \A m : OnLine(t, n, m) => OnLine(t, Tail(n), m) \/ m = Head(n)
           /\ OnLine(t, n, Head(n))
           /\ \A x, y : Before(t, Tail(n), x, y) => Before(t, n, x, y)
           /\ \A m : OnLine(t, Tail(n), m) => Before(t, n, m, Head(n)) \/ Before(t, n, Head(n), m)
<1>. DEFINE a == Tail(n)
            Old(i) == IF i <= Len(t) THEN i ELSE i + 1
<1>1. Len(a) = Len(n) - 1 /\ Len(t) \in Nat /\ Len(n) \in Nat \ {0} /\ n[1] = Head(n)
      /\ \A i \in 1..Len(a) : a[i] = n[i + 1]
  OBVIOUS
<1>2. ASSUME NEW i \in LineOf(t, a), NEW m
      PROVE  Old(i) \in LineOf(t, n) /\ (InLine(t, a, i, m) <=> InLine(t, n, Old(i), m))
  <2>1. i \in Nat /\ 1 <= i /\ i <= Len(t) + Len(n) - 1 /\ Old(i) \in LineOf(t, n)
    BY <1>1, <1>2 DEF LineOf
  <2>2. CASE i <= Len(t)
    BY <2>1, <2>2 DEF InLine
  <2>3. CASE i > Len(t)
    <3>1. a[i - Len(t)] = n[Old(i) - Len(t)]
      <4>1. i - Len(t) \in 1..Len(a) /\ (i - Len(t)) + 1 = Old(i) - Len(t)
        BY <1>1, <2>1, <2>3
      <4> QED BY <1>1, <4>1
    <3>2. ~ i <= Len(t) /\ ~ Old(i) <= Len(t)
      BY <1>1, <2>1, <2>3
    <3> QED BY <2>1, <3>1, <3>2 DEF InLine
  <2> QED BY <1>1, <2>1, <2>2, <2>3
<1>3. \A i \in LineOf(t, n) : i = Len(t) + 1 \/ \E j \in LineOf(t, a) : i = Old(j)
  <2> SUFFICES ASSUME NEW i \in LineOf(t, n), i # Len(t) + 1
               PROVE  \E j \in LineOf(t, a) : i = Old(j)
    OBVIOUS
  <2>1. CASE i <= Len(t)
    BY <1>1, <2>1 DEF LineOf
  <2>2. CASE i > Len(t)
    <3>1. i - 1 \in LineOf(t, a) /\ i = Old(i - 1)
      BY <1>1, <2>2 DEF LineOf
    <3> QED BY <3>1
  <2> QED BY <1>1, <2>1, <2>2 DEF LineOf
<1>4. Len(t) + 1 \in LineOf(t, n) /\ \A m : InLine(t, n, Len(t) + 1, m) <=> m = Head(n)
  <2>1. Len(t) + 1 \in LineOf(t, n) /\ ~ Len(t) + 1 <= Len(t) /\ Len(t) + 1 - Len(t) = 1
    BY <1>1 DEF LineOf
  <2> QED BY <1>1, <2>1 DEF InLine
<1>5. \A i, j \in LineOf(t, a) : i < j => Old(i) < Old(j)
  BY <1>1 DEF LineOf
<1>10. \A i \in LineOf(t, a) : Old(i) < Len(t) + 1 \/ Len(t) + 1 < Old(i)
  BY <1>1 DEF LineOf
<1>. HIDE DEF a, Old
<1>6. \A m : OnLine(t, a, m) => OnLine(t, n, m)
  BY <1>2 DEF OnLine
<1>7. \A m : OnLine(t, n, m) => OnLine(t, a, m) \/ m = Head(n)
  BY <1>2, <1>3, <1>4 DEF OnLine
<1>8. OnLine(t, n, Head(n))
  BY <1>4 DEF OnLine
<1>9. \A x, y : Before(t, a, x, y) => Before(t, n, x, y)
  BY <1>2, <1>5 DEF Before
<1>11. \A m : OnLine(t, a, m) => Before(t, n, m, Head(n)) \/ Before(t, n, Head(n), m)
  BY <1>2, <1>4, <1>10 DEF OnLine, Before
<1> QED BY <1>6, <1>7, <1>8, <1>9, <1>11 DEF a

-----------------------------------------------------------------------------
(* The types. *)

\* Each text is one of the events counted.
SaidCounted == \A p \in Parties : said[p] <= used.events

Types == TypeOK /\ SaidCounted

\* The parts of TypeOK that only an exchange changes.
ContextsTyped ==
    /\ known \in [Parties -> BOOLEAN]
    /\ commit \in [Parties -> Half \cup {NONE}]
    /\ auth \in [Parties -> [state : {"NONE", "REVEALSIG", "SIG"}, key : Key \cup {NOKEY}]]
    /\ msgstate \in [Parties -> {"PLAINTEXT", "ENCRYPTED", "FINISHED"}]
    /\ key \in [Parties -> Key \cup {NOKEY}]
    /\ fresh \in [Parties -> 0..MaxHalves]
    /\ held \in [Parties -> SUBSET Key]

LEMMA InitTypes == Init => Types
<1>. SUFFICES ASSUME Init PROVE Types
  OBVIOUS
<1>1. 0 \in 0..MaxHalves /\ 0 \in 0..MaxEvents /\ 0 \in 0..MaxStarts
  BY BoundFacts
<1>2. <<>> \in Seq(Tick) /\ <<>> \in Seq(Message) /\ <<>> \in Seq(1..MaxEvents)
  OBVIOUS
<1>3. ContextsTyped
  BY <1>1 DEF Init, ContextsTyped, Idle
<1>4. Broken \in [call : {"none", "start", "end"}, keys : [Parties -> Key \cup {NOKEY}]]
  BY DEF Broken
<1>5. SaidCounted
  <2> SUFFICES ASSUME NEW p \in Parties PROVE said[p] <= used.events
    BY DEF SaidCounted
  <2>1. used.events = 0 /\ said[p] = 0
    BY DEF Init
  <2> QED BY <2>1
<1> QED BY <1>1, <1>2, <1>3, <1>4, <1>5 DEF Init, Types, TypeOK, ContextsTyped

\* The tick that is run, and those behind it.
LEMMA QueueHead ==
    ASSUME TypeOK, NEW p \in Parties, ticks[p] # <<>>
    PROVE  /\ ticks[p] \in Seq(Tick) /\ Len(ticks[p]) \in Nat \ {0}
           /\ Head(ticks[p]) \in Tick /\ Head(ticks[p]) = ticks[p][1]
           /\ Tail(ticks[p]) \in Seq(Tick)
BY DEF TypeOK

LEMMA NetHead ==
    ASSUME TypeOK, NEW p \in Parties, net[p] # <<>>
    PROVE  /\ net[p] \in Seq(Message) /\ Len(net[p]) \in Nat \ {0}
           /\ Head(net[p]) \in Message /\ Head(net[p]) = net[p][1]
           /\ Tail(net[p]) \in Seq(Message)
BY DEF TypeOK

LEMMA EnqueueTyped ==
    ASSUME TypeOK, NEW p \in Parties, NEW t \in Tick, Enqueue(p, t)
    PROVE  ticks' \in [Parties -> Seq(Tick)]
<1>1. Append(ticks[p], t) \in Seq(Tick)
  BY DEF TypeOK
<1> QED BY <1>1 DEF Enqueue, TypeOK

LEMMA NextTickTyped ==
    ASSUME TypeOK, NEW p \in Parties, NEW op, NextTick(p, op)
    PROVE  ticks' \in [Parties -> Seq(Tick)]
<1>1. Tail(ticks[p]) \in Seq(Tick)
  BY QueueHead DEF NextTick
<1> QED BY <1>1 DEF NextTick, TypeOK

LEMMA InjectTyped ==
    ASSUME TypeOK, NEW p \in Parties, NEW m \in Message, Inject(p, m)
    PROVE  net' \in [Parties -> Seq(Message)]
<1>1. Append(net[Peer[p]], m) \in Seq(Message)
  BY PeerFacts DEF TypeOK
<1> QED BY <1>1 DEF Inject, TypeOK

LEMMA BestTyped ==
    ASSUME NEW p \in Parties, NEW c \in Best(p)
    PROVE  c \in {"MASTER", "CHILD"}
BY DEF Best

\* The history of what is called when.
LEMMA HistoryTyped ==
    ASSUME Types, NEW call \in {"start", "end"}
    PROVE  /\ [call |-> call, keys |-> key] \in
                [call : {"none", "start", "end"}, keys : [Parties -> Key \cup {NOKEY}]]
           /\ Broken \in [call : {"none", "start", "end"}, keys : [Parties -> Key \cup {NOKEY}]]
BY DEF Types, TypeOK, Broken

LEMMA StartTypes ==
    ASSUME Types, NEW p \in Parties, Start(p)
    PROVE  Types'
<1>1. [op |-> "start"] \in Tick
  BY DEF Tick
<1>2. ticks' \in [Parties -> Seq(Tick)]
  BY <1>1, EnqueueTyped DEF Start, Types
<1>3. used' \in [starts : 0..MaxStarts, events : 0..MaxEvents, intact : BOOLEAN]
  <2>1. used.starts + 1 \in 0..MaxStarts
    BY BoundFacts DEF Start, Types, TypeOK
  <2>2. (used.intact /\ Peaceful) \in BOOLEAN
    OBVIOUS
  <2>3. used \in [starts : 0..MaxStarts, events : 0..MaxEvents, intact : BOOLEAN]
    BY DEF Types, TypeOK
  <2>4. used' = [used EXCEPT !.starts = @ + 1, !.intact = @ /\ Peaceful]
    BY DEF Start
  <2> QED BY <2>1, <2>2, <2>3, <2>4
<1>4. used'.events = used.events
  BY DEF Start, Types, TypeOK
<1>5. peace' \in [call : {"none", "start", "end"}, keys : [Parties -> Key \cup {NOKEY}]]
  BY HistoryTyped DEF Start
<1>6. UNCHANGED <<net, ptr, contextVars, proc, said, heard>>
  BY DEF Start, Enqueue
<1> QED BY <1>2, <1>3, <1>4, <1>5, <1>6 DEF Types, TypeOK, SaidCounted, contextVars

LEMMA SendTypes ==
    ASSUME Types, NEW p \in Parties, Send(p)
    PROVE  Types'
<1>1. said[p] \in 0..MaxEvents /\ said[p] <= used.events /\ used.events \in 0..MaxEvents
  BY DEF Types, TypeOK, SaidCounted
<1>2. used.events < MaxEvents /\ said' = [said EXCEPT ![p] = @ + 1]
  BY DEF Send
<1>3. said'[p] = said[p] + 1 /\ said'[p] \in 1..MaxEvents /\ said' \in [Parties -> 0..MaxEvents]
  BY <1>1, <1>2, BoundFacts DEF Types, TypeOK
<1>4. used' \in [starts : 0..MaxStarts, events : 0..MaxEvents, intact : BOOLEAN]
      /\ used'.events = used.events + 1
  <2>1. used.events + 1 \in 0..MaxEvents
    BY <1>1, <1>2, BoundFacts
  <2> QED BY <2>1 DEF Send, Types, TypeOK
<1>5. SaidCounted'
  <2>1. \A q \in Parties : said[q] \in Nat /\ said[q] <= used.events /\ used.events \in Nat
    BY BoundFacts DEF Types, TypeOK, SaidCounted
  <2>2. \A q \in Parties \ {p} : said'[q] = said[q]
    BY <1>2 DEF Types, TypeOK
  <2> QED BY <1>1, <1>3, <1>4, <2>1, <2>2 DEF SaidCounted
<1>6. [op |-> "send", text |-> said'[p]] \in Tick
  BY <1>3 DEF Tick
<1>7. ticks' \in [Parties -> Seq(Tick)]
  BY <1>6, EnqueueTyped DEF Send, Types
<1>8. UNCHANGED <<net, ptr, contextVars, proc, heard, peace>>
  BY DEF Send, Enqueue
<1> QED BY <1>3, <1>4, <1>5, <1>7, <1>8 DEF Types, TypeOK, contextVars

LEMMA EndTypes ==
    ASSUME Types, NEW p \in Parties, End(p)
    PROVE  Types'
<1>1. [op |-> "end"] \in Tick
  BY DEF Tick
<1>2. ticks' \in [Parties -> Seq(Tick)]
  BY <1>1, EnqueueTyped DEF End, Types
<1>3. used' \in [starts : 0..MaxStarts, events : 0..MaxEvents, intact : BOOLEAN]
      /\ used'.events = used.events + 1 /\ used.events \in Nat
  <2>1. used.events + 1 \in 0..MaxEvents
    BY BoundFacts DEF End, Types, TypeOK
  <2>2. used \in [starts : 0..MaxStarts, events : 0..MaxEvents, intact : BOOLEAN]
    BY DEF Types, TypeOK
  <2>3. used' = [used EXCEPT !.events = @ + 1, !.intact = FALSE]
    BY DEF End
  <2>4. used' \in [starts : 0..MaxStarts, events : 0..MaxEvents, intact : BOOLEAN]
    BY <2>1, <2>2, <2>3
  <2>5. used'.events = used.events + 1
    BY <2>2, <2>3
  <2> QED BY <2>2, <2>4, <2>5, BoundFacts
<1>4. peace' \in [call : {"none", "start", "end"}, keys : [Parties -> Key \cup {NOKEY}]]
  BY HistoryTyped DEF End
<1>5. UNCHANGED <<net, ptr, contextVars, proc, said, heard>>
  BY DEF End, Enqueue
<1>6. SaidCounted'
  <2> SUFFICES ASSUME NEW q \in Parties PROVE said'[q] <= used'.events
    BY DEF SaidCounted
  <2>1. said[q] \in Nat /\ said[q] <= used.events /\ said' = said
    BY <1>5 DEF Types, TypeOK, SaidCounted
  <2> QED BY <1>3, <2>1
<1> QED BY <1>2, <1>3, <1>4, <1>5, <1>6 DEF Types, TypeOK, contextVars

LEMMA DeliverTypes ==
    ASSUME Types, NEW p \in Parties, Deliver(p)
    PROVE  Types'
<1>1. Head(net[p]) \in Message /\ Tail(net[p]) \in Seq(Message)
  BY NetHead DEF Deliver, Types
<1>2. [op |-> "recv", msg |-> Head(net[p])] \in Tick
  BY <1>1 DEF Tick
<1>3. Append(ticks[p], [op |-> "recv", msg |-> Head(net[p])]) \in Seq(Tick)
  BY <1>2 DEF Types, TypeOK
<1>4. ticks' \in [Parties -> Seq(Tick)] /\ net' \in [Parties -> Seq(Message)]
  BY <1>1, <1>3 DEF Deliver, Types, TypeOK
<1>5. UNCHANGED <<ptr, contextVars, proc, said, heard, peace, used>>
  BY DEF Deliver
<1> QED BY <1>4, <1>5 DEF Types, TypeOK, SaidCounted, contextVars

LEMMA FaultTyped ==
    ASSUME Types, Fault, said' = said
    PROVE  /\ used' \in [starts : 0..MaxStarts, events : 0..MaxEvents, intact : BOOLEAN]
           /\ peace' \in [call : {"none", "start", "end"}, keys : [Parties -> Key \cup {NOKEY}]]
           /\ SaidCounted'
<1>1. used' \in [starts : 0..MaxStarts, events : 0..MaxEvents, intact : BOOLEAN]
      /\ used'.events = used.events + 1 /\ used.events \in Nat
  <2>1. used.events + 1 \in 0..MaxEvents
    BY BoundFacts DEF Fault, Types, TypeOK
  <2>2. used \in [starts : 0..MaxStarts, events : 0..MaxEvents, intact : BOOLEAN]
    BY DEF Types, TypeOK
  <2>3. used' = [used EXCEPT !.events = @ + 1, !.intact = FALSE]
    BY DEF Fault
  <2>4. used' \in [starts : 0..MaxStarts, events : 0..MaxEvents, intact : BOOLEAN]
    BY <2>1, <2>2, <2>3
  <2>5. used'.events = used.events + 1
    BY <2>2, <2>3
  <2> QED BY <2>2, <2>4, <2>5, BoundFacts
<1>2. SaidCounted'
  <2> SUFFICES ASSUME NEW q \in Parties PROVE said'[q] <= used'.events
    BY DEF SaidCounted
  <2>1. said[q] \in Nat /\ said[q] <= used.events
    BY DEF Types, TypeOK, SaidCounted
  <2> QED BY <1>1, <2>1
<1> QED BY <1>1, <1>2, HistoryTyped DEF Fault

LEMMA LoseTypes ==
    ASSUME Types, NEW p \in Parties, Lose(p)
    PROVE  Types'
<1>1. Tail(net[p]) \in Seq(Message)
  BY NetHead DEF Lose, Types
<1>2. net' \in [Parties -> Seq(Message)]
  BY <1>1 DEF Lose, Types, TypeOK
<1>3. UNCHANGED <<ticks, ptr, contextVars, proc, said, heard>> /\ Fault
  BY DEF Lose
<1> QED BY <1>2, <1>3, FaultTyped DEF Types, TypeOK, contextVars

LEMMA RestartTypes ==
    ASSUME Types, NEW p \in Parties, Restart(p)
    PROVE  Types'
<1>1. <<>> \in Seq(Tick) /\ <<>> \in Seq(Message)
  OBVIOUS
<1>2. /\ ticks' \in [Parties -> Seq(Tick)] /\ net' \in [Parties -> Seq(Message)]
      /\ ptr' \in [Parties -> {"MASTER", "CHILD", "NULL"}]
      /\ proc' \in [Parties -> {"running", "corrupt"}]
  BY <1>1 DEF Restart, Types, TypeOK
<1>3. ContextsTyped'
  BY DEF Restart, Types, TypeOK, ContextsTyped, Idle
<1>4. UNCHANGED <<said, heard>> /\ Fault
  BY DEF Restart
<1> QED BY <1>2, <1>3, <1>4, FaultTyped DEF Types, TypeOK, ContextsTyped

\* A tick types what it changes: the queues, the pointer and the contexts.
LEMMA TickTypes ==
    ASSUME Types, NEW p \in Parties, NEW op, NextTick(p, op),
           \/ UNCHANGED net
           \/ \E m \in Message : Inject(p, m),
           ptr' \in [Parties -> {"MASTER", "CHILD", "NULL"}],
           ContextsTyped', heard' \in [Parties -> Seq(1..MaxEvents)]
    PROVE  Types'
<1>1. ticks' \in [Parties -> Seq(Tick)]
  BY NextTickTyped DEF Types
<1>2. net' \in [Parties -> Seq(Message)]
  BY InjectTyped DEF Types, TypeOK
<1>3. UNCHANGED <<proc, said, peace, used>>
  BY DEF NextTick
<1> QED BY <1>1, <1>2, <1>3 DEF Types, TypeOK, SaidCounted, ContextsTyped

LEMMA PtrTyped ==
    ASSUME Types, NEW p \in Parties, NEW c \in {"MASTER", "CHILD", "NULL"}
    PROVE  [ptr EXCEPT ![p] = c] \in [Parties -> {"MASTER", "CHILD", "NULL"}]
BY DEF Types, TypeOK

LEMMA RunSendingTypes ==
    ASSUME Types, NEW p \in Parties, RunStart(p) \/ RunSend(p)
    PROVE  Types'
<1>1. ptr' \in [Parties -> {"MASTER", "CHILD", "NULL"}]
  BY BestTyped, PtrTyped DEF RunStart, RunSend
<1>2. ContextsTyped' /\ heard' \in [Parties -> Seq(1..MaxEvents)]
  BY DEF RunStart, RunSend, Types, TypeOK, ContextsTyped, contextVars
<1>3. Msg("query", NOKEY, 0) \in Message /\ Msg("plain", NOKEY, 0) \in Message
  BY MessageMade, BoundFacts DEF NOKEY
<1>4. CASE RunStart(p)
  BY <1>1, <1>2, <1>3, <1>4, TickTypes DEF RunStart
<1>5. CASE RunSend(p)
  <2>1. Head(ticks[p]) \in Tick /\ Head(ticks[p]).text \in 1..MaxEvents
    BY <1>5, QueueHead, TickFields DEF RunSend, NextTick, Types
  <2>2. key[p][1] \in Half \cup {NONE} /\ key[p][2] \in Half \cup {NONE}
        /\ key[p] = <<key[p][1], key[p][2]>>
    <3>1. key[p] \in Key \cup {NOKEY}
      BY DEF Types, TypeOK
    <3> QED BY <3>1, KeyParts DEF NOKEY
  <2>3. Msg("data", key[p], Head(ticks[p]).text) \in Message
    BY <2>1, <2>2, MessageMade, BoundFacts
  <2>4. \E m \in Message : Inject(p, m)
    BY <1>3, <1>5, <2>3 DEF RunSend
  <2> QED BY <1>1, <1>2, <1>5, <2>4, TickTypes DEF RunSend
<1> QED BY <1>4, <1>5

LEMMA RunEndTypes ==
    ASSUME Types, NEW p \in Parties, RunEnd(p)
    PROVE  Types'
<1>1. ptr' \in [Parties -> {"MASTER", "CHILD", "NULL"}]
      /\ heard' \in [Parties -> Seq(1..MaxEvents)]
  BY DEF RunEnd, Types, TypeOK
<1>2. ContextsTyped'
  <2>1. CASE ptr[p] = "CHILD"
    <3>1. /\ msgstate' = [msgstate EXCEPT ![p] = "PLAINTEXT"]
          /\ key' = [key EXCEPT ![p] = NOKEY]
          /\ auth' = [auth EXCEPT ![p] = Idle]
          /\ UNCHANGED <<known, commit, fresh, held>>
      BY <2>1 DEF RunEnd
    <3> QED BY <3>1 DEF Types, TypeOK, ContextsTyped, Idle
  <2>2. CASE ptr[p] = "MASTER"
    BY <2>2 DEF RunEnd, Types, TypeOK, ContextsTyped
  <2> QED BY <2>1, <2>2 DEF RunEnd
<1>3. Msg("bye", key[p], 0) \in Message
  <2>1. key[p] \in Key \cup {NOKEY}
    BY DEF Types, TypeOK
  <2>2. key[p][1] \in Half \cup {NONE} /\ key[p][2] \in Half \cup {NONE}
        /\ key[p] = <<key[p][1], key[p][2]>>
    BY <2>1, KeyParts DEF NOKEY
  <2> QED BY <2>2, MessageMade, BoundFacts
<1>4. UNCHANGED net \/ \E m \in Message : Inject(p, m)
  BY <1>3 DEF RunEnd
<1> QED BY <1>1, <1>2, <1>4, TickTypes DEF RunEnd

\* The message a tick of recv() is about.
LEMMA Received ==
    ASSUME Types, NEW p \in Parties, RunRecv(p)
    PROVE  /\ ticks[p] # <<>> /\ Head(ticks[p]).op = "recv"
           /\ Head(ticks[p]).msg \in Message
BY QueueHead, TickFields DEF RunRecv, NextTick, Types

LEMMA NewHalfMade ==
    ASSUME Types, NEW p \in Parties, MakeHalf(p)
    PROVE  /\ NewHalf(p) \in Half /\ NewHalf(p).by = p /\ NewHalf(p).n = fresh[p] + 1
           /\ fresh' \in [Parties -> 0..MaxHalves]
           /\ fresh[p] \in Nat /\ fresh' = [fresh EXCEPT ![p] = fresh[p] + 1]
<1>1. fresh[p] \in 0..MaxHalves /\ fresh[p] < MaxHalves /\ fresh' = [fresh EXCEPT ![p] = @ + 1]
  BY DEF MakeHalf, Types, TypeOK
<1>2. fresh[p] + 1 \in 1..MaxHalves /\ fresh[p] \in Nat
  BY <1>1, BoundFacts
<1> QED BY <1>1, <1>2 DEF NewHalf, Half, Types, TypeOK

LEMMA RecvQueryTypes ==
    ASSUME Types, NEW p \in Parties, NEW m \in Message, NextTick(p, "recv"), ReceiveQuery(p, m)
    PROVE  Types'
<1>1. NewHalf(p) \in Half /\ fresh' \in [Parties -> 0..MaxHalves]
  BY NewHalfMade DEF ReceiveQuery
<1>2. ContextsTyped' /\ heard' \in [Parties -> Seq(1..MaxEvents)]
  BY <1>1 DEF ReceiveQuery, Types, TypeOK, ContextsTyped
<1>3. Msg("dhcommit", <<NewHalf(p), NONE>>, 0) \in Message
  BY <1>1, MessageMade, BoundFacts
<1>4. \E n \in Message : Inject(p, n)
  BY <1>3 DEF ReceiveQuery
<1> QED BY <1>2, <1>4, PtrTyped, TickTypes DEF ReceiveQuery, Points

-----------------------------------------------------------------------------
(* What the types of an exchange rest on: whose numbers the keys are made of. *)

Ahead(p, x, y) == Before(ticks[p], net[p], x, y)

LEMMA LineMembers ==
    ASSUME NEW t \in Seq(Tick), NEW n \in Seq(Message), NEW m
    PROVE  OnLine(t, n, m) <=>
             \/ \E k \in DOMAIN n : n[k] = m
             \/ \E k \in DOMAIN t : t[k].op = "recv" /\ t[k].msg = m
<1>1. Len(t) \in Nat /\ Len(n) \in Nat
  OBVIOUS
<1>2. DOMAIN t = 1..Len(t) /\ DOMAIN n = 1..Len(n)
  OBVIOUS
<1>3. ASSUME NEW k \in 1..Len(n), n[k] = m PROVE OnLine(t, n, m)
  <2>1. /\ Len(t) + k \in LineOf(t, n) /\ ~ Len(t) + k <= Len(t)
        /\ (Len(t) + k) - Len(t) = k
    BY <1>1, <1>3 DEF LineOf
  <2> QED BY <1>3, <2>1 DEF OnLine, InLine
<1>4. ASSUME NEW k \in 1..Len(t), t[k].op = "recv", t[k].msg = m PROVE OnLine(t, n, m)
  <2>1. k \in LineOf(t, n) /\ k <= Len(t)
    BY <1>1, <1>4 DEF LineOf
  <2> QED BY <1>4, <2>1 DEF OnLine, InLine
<1>5. ASSUME NEW i \in LineOf(t, n), InLine(t, n, i, m)
      PROVE  \/ \E k \in 1..Len(n) : n[k] = m
             \/ \E k \in 1..Len(t) : t[k].op = "recv" /\ t[k].msg = m
  <2>1. CASE i <= Len(t)
    <3>1. i \in 1..Len(t)
      BY <1>1, <2>1 DEF LineOf
    <3> QED BY <1>5, <2>1, <3>1 DEF InLine
  <2>2. CASE ~ i <= Len(t)
    <3>1. i - Len(t) \in 1..Len(n)
      BY <1>1, <2>2 DEF LineOf
    <3> QED BY <1>5, <2>2, <3>1 DEF InLine
  <2> QED BY <2>1, <2>2
<1> QED BY <1>2, <1>3, <1>4, <1>5 DEF OnLine

LEMMA ArrivingLine ==
    ASSUME TypeOK, NEW p \in Parties, NEW m
    PROVE  m \in Arriving(p) <=> OnLine(ticks[p], net[p], m)
<1>1. ticks[p] \in Seq(Tick) /\ net[p] \in Seq(Message)
  BY DEF TypeOK
<1>2. m \in Arriving(p) <=>
             \/ \E k \in DOMAIN net[p] : net[p][k] = m
             \/ \E k \in DOMAIN ticks[p] : ticks[p][k].op = "recv" /\ ticks[p][k].msg = m
  BY DEF Arriving
<1> QED BY <1>1, <1>2, LineMembers

LEMMA ArrivingTyped ==
    ASSUME TypeOK, NEW p \in Parties
    PROVE  Arriving(p) \subseteq Message
<1>1. ticks[p] \in Seq(Tick) /\ net[p] \in Seq(Message)
  BY DEF TypeOK
<1>2. \A k \in DOMAIN ticks[p] : ticks[p][k] \in Tick
  BY <1>1
<1>3. \A k \in DOMAIN net[p] : net[p][k] \in Message
  BY <1>1
<1> QED BY <1>2, <1>3, TickFields DEF Arriving

\* Key k was committed to by the other end of p and answered by p.
Fits(k, p) == k \in Key /\ k[1].by = Peer[p] /\ k[2].by = p

\* Each end has its own number in every key, at the place of its part in the
\* exchange, and what it sends of a key is its own number.
KeysFit == \A p \in Parties :
    /\ commit[p] # NONE => commit[p].by = p
    /\ auth[p].state = "REVEALSIG" => Fits(auth[p].key, p)
    /\ auth[p].state = "SIG" => Fits(auth[p].key, Peer[p])
    /\ msgstate[p] = "ENCRYPTED" => key[p] \in held[p]
    /\ \A k \in held[p] : Fits(k, p) \/ Fits(k, Peer[p])
    /\ \A m \in Arriving(p) :
         /\ m.type = "dhcommit" => m.key[1] \in Half /\ m.key[1].by = Peer[p]
         /\ m.type = "dhkey" => m.key[2] \in Half /\ m.key[2].by = Peer[p]

LEMMA ReceivedArrives ==
    ASSUME Types, NEW p \in Parties, NextTick(p, "recv")
    PROVE  Head(ticks[p]).msg \in Arriving(p) /\ Head(ticks[p]).msg \in Message
<1>1. ticks[p] # <<>> /\ Head(ticks[p]).op = "recv"
  BY DEF NextTick
<1>2. 1 \in DOMAIN ticks[p] /\ Head(ticks[p]) = ticks[p][1]
  BY <1>1, QueueHead DEF Types
<1> QED BY <1>1, <1>2, ArrivingTyped DEF Arriving, Types

\* The numbers an exchange brings together make a key.
LEMMA ExchangeKeys ==
    ASSUME Types, KeysFit, NEW p \in Parties, NEW m \in Arriving(p)
    PROVE  /\ m \in Message
           /\ auth[p].state \in {"NONE", "REVEALSIG", "SIG"} /\ auth[p].key \in Key \cup {NOKEY}
           /\ auth[p].state # "NONE" => auth[p].key \in Key
           /\ m.type = "dhcommit" => m.key[1] \in Half
           /\ m.type = "dhkey" => m.key[2] \in Half
           /\ commit[p] \in Half \cup {NONE}
<1>1. auth[p] \in [state : {"NONE", "REVEALSIG", "SIG"}, key : Key \cup {NOKEY}]
  BY DEF Types, TypeOK
<1>2. auth[p].state # "NONE" => auth[p].key \in Key
  BY <1>1 DEF KeysFit, Fits
<1> QED BY <1>1, <1>2, ArrivingTyped DEF Types, TypeOK, KeysFit

LEMMA RecvCommitTypes ==
    ASSUME Types, KeysFit, NEW p \in Parties, NEW m \in Arriving(p),
           NextTick(p, "recv"), ReceiveCommit(p, m)
    PROVE  Types'
<1>1. m.key[1] \in Half
  BY ExchangeKeys DEF ReceiveCommit
<1>2. /\ known' \in [Parties -> BOOLEAN] /\ ptr' = [ptr EXCEPT ![p] = "CHILD"]
      /\ UNCHANGED <<commit, msgstate, key, held, heard>>
  BY DEF ReceiveCommit, Points, Types, TypeOK
<1>3. /\ auth' \in [Parties -> [state : {"NONE", "REVEALSIG", "SIG"}, key : Key \cup {NOKEY}]]
      /\ auth'[p].key[2] \in Half
      /\ fresh' \in [Parties -> 0..MaxHalves]
  <2>1. auth \in [Parties -> [state : {"NONE", "REVEALSIG", "SIG"}, key : Key \cup {NOKEY}]]
    BY DEF Types, TypeOK
  <2>2. CASE auth[p].state = "REVEALSIG" /\ UNCHANGED fresh
                /\ auth' = [auth EXCEPT ![p].key = <<m.key[1], @[2]>>]
    <3>1. auth[p].key[2] \in Half
      BY <2>2, ExchangeKeys, KeyParts
    <3>2. <<m.key[1], auth[p].key[2]>> \in Key
      BY <1>1, <3>1 DEF Key
    <3>3. auth'[p].key = <<m.key[1], auth[p].key[2]>>
      BY <2>1, <2>2
    <3>4. auth' \in [Parties -> [state : {"NONE", "REVEALSIG", "SIG"}, key : Key \cup {NOKEY}]]
      BY <2>1, <2>2, <3>2
    <3> QED BY <2>2, <3>1, <3>3, <3>4 DEF Types, TypeOK
  <2>3. CASE MakeHalf(p) /\ auth' = [auth EXCEPT ![p] = [state |-> "REVEALSIG",
                                         key |-> <<m.key[1], NewHalf(p)>>]]
    <3>1. NewHalf(p) \in Half /\ fresh' \in [Parties -> 0..MaxHalves]
      BY <2>3, NewHalfMade
    <3>2. <<m.key[1], NewHalf(p)>> \in Key
      BY <1>1, <3>1 DEF Key
    <3>3. auth'[p].key = <<m.key[1], NewHalf(p)>>
      BY <2>1, <2>3
    <3>4. auth' \in [Parties -> [state : {"NONE", "REVEALSIG", "SIG"}, key : Key \cup {NOKEY}]]
      BY <2>1, <2>3, <3>2
    <3> QED BY <3>1, <3>3, <3>4
  <2> QED BY <2>2, <2>3 DEF ReceiveCommit
<1>4. ContextsTyped' /\ heard' \in [Parties -> Seq(1..MaxEvents)]
  BY <1>2, <1>3 DEF Types, TypeOK, ContextsTyped
<1>5. Msg("dhkey", <<NONE, auth'[p].key[2]>>, 0) \in Message
  BY <1>3, MessageMade, BoundFacts
<1>6. \E n \in Message : Inject(p, n)
  BY <1>5 DEF ReceiveCommit
<1> QED BY <1>2, <1>4, <1>6, PtrTyped, TickTypes

LEMMA RecvKeyTypes ==
    ASSUME Types, KeysFit, NEW p \in Parties, NEW m \in Arriving(p),
           NextTick(p, "recv"), ReceiveKey(p, m)
    PROVE  Types'
<1>1. m.key[2] \in Half
  BY ExchangeKeys DEF ReceiveKey
<1>2. /\ known' \in [Parties -> BOOLEAN] /\ ptr' = [ptr EXCEPT ![p] = "CHILD"]
      /\ UNCHANGED <<commit, msgstate, key, fresh, held, heard>>
  BY DEF ReceiveKey, Points, Types, TypeOK
<1>3. auth \in [Parties -> [state : {"NONE", "REVEALSIG", "SIG"}, key : Key \cup {NOKEY}]]
  BY DEF Types, TypeOK
<1>4. CASE /\ commit[p] # NONE
           /\ auth' = [auth EXCEPT ![p] = [state |-> "SIG", key |-> <<commit[p], m.key[2]>>]]
           /\ Inject(p, Msg("revealsig", auth'[p].key, 0))
  <2>1. commit[p] \in Half
    BY <1>4, ExchangeKeys
  <2>2. <<commit[p], m.key[2]>> \in Key
    BY <1>1, <2>1 DEF Key
  <2>3. auth' \in [Parties -> [state : {"NONE", "REVEALSIG", "SIG"}, key : Key \cup {NOKEY}]]
    BY <1>3, <1>4, <2>2
  <2>4. auth'[p].key = <<commit[p], m.key[2]>>
    BY <1>3, <1>4
  <2>5. Msg("revealsig", auth'[p].key, 0) \in Message
    BY <1>1, <2>1, <2>4, MessageMade, BoundFacts
  <2>6. ContextsTyped' /\ heard' \in [Parties -> Seq(1..MaxEvents)]
    BY <1>2, <2>3 DEF Types, TypeOK, ContextsTyped
  <2> QED BY <1>2, <1>4, <2>5, <2>6, PtrTyped, TickTypes
<1>5. CASE /\ UNCHANGED auth
           /\ \/ auth[p].state = "SIG" /\ Inject(p, Msg("revealsig", auth[p].key, 0))
              \/ UNCHANGED net
  <2>1. auth[p].state = "SIG" => Msg("revealsig", auth[p].key, 0) \in Message
    <3> SUFFICES ASSUME auth[p].state = "SIG" PROVE Msg("revealsig", auth[p].key, 0) \in Message
      OBVIOUS
    <3>1. auth[p].key \in Key
      BY ExchangeKeys
    <3>2. auth[p].key[1] \in Half /\ auth[p].key[2] \in Half
          /\ auth[p].key = <<auth[p].key[1], auth[p].key[2]>>
      BY <3>1, KeyParts
    <3>3. 0 \in 0..MaxEvents
      BY BoundFacts
    <3>4. Msg("revealsig", <<auth[p].key[1], auth[p].key[2]>>, 0) \in Message
      BY <3>2, <3>3, MessageMade
    <3> QED BY <3>2, <3>4
  <2>2. ContextsTyped' /\ heard' \in [Parties -> Seq(1..MaxEvents)]
    BY <1>2, <1>3, <1>5 DEF Types, TypeOK, ContextsTyped
  <2> QED BY <1>2, <1>5, <2>1, <2>2, PtrTyped, TickTypes
<1> QED BY <1>4, <1>5 DEF ReceiveKey

LEMMA RecvClosingTypes ==
    ASSUME Types, KeysFit, NEW p \in Parties, NEW m \in Arriving(p),
           NextTick(p, "recv"), ReceiveClosing(p, m)
    PROVE  Types'
<1>1. auth \in [Parties -> [state : {"NONE", "REVEALSIG", "SIG"}, key : Key \cup {NOKEY}]]
      /\ Idle \in [state : {"NONE", "REVEALSIG", "SIG"}, key : Key \cup {NOKEY}]
  BY DEF Types, TypeOK, Idle
<1>2. auth[p] = [state |-> Awaited(m), key |-> m.key] /\ Awaited(m) # "NONE"
  BY DEF ReceiveClosing, Awaited
<1>3. m.key \in Key
  <2>1. auth[p].state # "NONE" /\ auth[p].key = m.key
    BY <1>2
  <2> QED BY <2>1, ExchangeKeys
<1>4. ptr' = [ptr EXCEPT ![p] = "CHILD"] /\ UNCHANGED <<known, commit, fresh, heard>>
  BY DEF ReceiveClosing, Points
<1>5. held' \in [Parties -> SUBSET Key]
  <2>1. held' = [held EXCEPT ![p] = @ \cup {m.key}] /\ held \in [Parties -> SUBSET Key]
    BY DEF ReceiveClosing, Types, TypeOK
  <2>2. held[p] \cup {m.key} \in SUBSET Key
    BY <1>3, <2>1
  <2> QED BY <2>1, <2>2
<1>6. ContextsTyped' /\ heard' \in [Parties -> Seq(1..MaxEvents)]
  BY <1>1, <1>3, <1>4, <1>5 DEF ReceiveClosing, Types, TypeOK, ContextsTyped
<1>7. Msg("sig", m.key, 0) \in Message
  <2>1. m.key[1] \in Half /\ m.key[2] \in Half /\ m.key = <<m.key[1], m.key[2]>>
    BY <1>3, KeyParts
  <2> QED BY <2>1, MessageMade, BoundFacts
<1>8. UNCHANGED net \/ \E n \in Message : Inject(p, n)
  BY <1>7 DEF ReceiveClosing
<1> QED BY <1>4, <1>6, <1>8, PtrTyped, TickTypes

LEMMA RecvDataTypes ==
    ASSUME Types, NEW p \in Parties, NEW m \in Message,
           NextTick(p, "recv"), ReceiveData(p, m),
           m.text # 0
    PROVE  Types'
<1>1. m.text \in 1..MaxEvents
  BY MessageFields, BoundFacts
<1>2. Append(heard[p], m.text) \in Seq(1..MaxEvents)
  BY <1>1 DEF Types, TypeOK
<1>3. heard' \in [Parties -> Seq(1..MaxEvents)]
  BY <1>2 DEF ReceiveData, Types, TypeOK
<1>4. ContextsTyped'
  BY DEF ReceiveData, contextVars, Types, TypeOK, ContextsTyped
<1> QED BY <1>3, <1>4, PtrTyped, TickTypes DEF ReceiveData, Points

LEMMA RecvByeTypes ==
    ASSUME Types, NEW p \in Parties, NEW m \in Message,
           NextTick(p, "recv"), ReceiveBye(p, m)
    PROVE  Types'
<1>1. Idle \in [state : {"NONE", "REVEALSIG", "SIG"}, key : Key \cup {NOKEY}]
  BY DEF Idle
<1>2. ContextsTyped' /\ heard' \in [Parties -> Seq(1..MaxEvents)]
  BY <1>1 DEF ReceiveBye, Types, TypeOK, ContextsTyped
<1> QED BY <1>2, PtrTyped, TickTypes DEF ReceiveBye, Points

\* The messages that change no more than the pointer.
LEMMA RecvOtherTypes ==
    ASSUME Types, NEW p \in Parties, NEW m \in Message, NextTick(p, "recv"),
           \/ ReceiveError(p, m)
           \/ ReceivePlain(p, m)
           \/ ReceiveBadClosing(p, m)
           \/ ReceiveUnknown(p, m)
           \/ ReceiveUnreadable(p, m)
    PROVE  Types'
<1>1. ContextsTyped' /\ heard' \in [Parties -> Seq(1..MaxEvents)]
  <2>1. UNCHANGED <<commit, auth, msgstate, key, fresh, held, heard>>
    BY DEF ReceiveError, ReceivePlain, ReceiveBadClosing, ReceiveUnknown, ReceiveUnreadable,
           contextVars
  <2>2. UNCHANGED known \/ known' = [known EXCEPT ![p] = TRUE]
    BY DEF ReceiveError, ReceivePlain, ReceiveBadClosing, ReceiveUnknown, ReceiveUnreadable,
           contextVars
  <2> QED BY <2>1, <2>2 DEF Types, TypeOK, ContextsTyped
<1>2. ptr' \in [Parties -> {"MASTER", "CHILD", "NULL"}]
  BY PtrTyped DEF ReceiveError, ReceivePlain, ReceiveBadClosing, ReceiveUnknown,
                  ReceiveUnreadable, Points
<1>3. Msg("query", NOKEY, 0) \in Message /\ Msg("error", NOKEY, 0) \in Message
  BY MessageMade, BoundFacts DEF NOKEY
<1>4. UNCHANGED net \/ \E n \in Message : Inject(p, n)
  BY <1>3 DEF ReceiveError, ReceivePlain, ReceiveBadClosing, ReceiveUnknown, ReceiveUnreadable
<1> QED BY <1>1, <1>2, <1>4, TickTypes

LEMMA CorruptTypes ==
    ASSUME Types, NEW p \in Parties, TickCorrupts(p)
    PROVE  Types'
BY DEF TickCorrupts, contextVars, Types, TypeOK, SaidCounted

LEMMA PollTypes ==
    ASSUME Types, NEW p \in Parties, Poll(p)
    PROVE  Types'
<1>1. commit' \in [Parties -> Half \cup {NONE}]
  BY DEF Poll, Types, TypeOK
<1> QED BY <1>1 DEF Poll, Types, TypeOK, SaidCounted

LEMMA ReceiveTypes ==
    ASSUME Types, KeysFit, NEW p \in Parties, RunRecv(p),
           \A m \in Arriving(p) : m.type = "data" => m.text # 0
    PROVE  Types'
<1>. DEFINE m == Head(ticks[p]).msg
<1>1. m \in Arriving(p) /\ m \in Message /\ NextTick(p, "recv") /\ Receive(p, m)
  BY ReceivedArrives DEF RunRecv
<1>. HIDE DEF m
<1>2. CASE ReceiveQuery(p, m)
  BY <1>1, <1>2, RecvQueryTypes
<1>3. CASE ReceiveCommit(p, m)
  BY <1>1, <1>3, RecvCommitTypes
<1>4. CASE ReceiveKey(p, m)
  BY <1>1, <1>4, RecvKeyTypes
<1>5. CASE ReceiveClosing(p, m)
  BY <1>1, <1>5, RecvClosingTypes
<1>6. CASE ReceiveData(p, m)
  <2>1. m.text # 0
    BY <1>1, <1>6 DEF ReceiveData
  <2> QED BY <1>1, <1>6, <2>1, RecvDataTypes
<1>7. CASE ReceiveBye(p, m)
  BY <1>1, <1>7, RecvByeTypes
<1>8. CASE \/ ReceiveError(p, m)
           \/ ReceivePlain(p, m)
           \/ ReceiveBadClosing(p, m)
           \/ ReceiveUnknown(p, m)
           \/ ReceiveUnreadable(p, m)
  BY <1>1, <1>8, RecvOtherTypes
<1> QED BY <1>1, <1>2, <1>3, <1>4, <1>5, <1>6, <1>7, <1>8 DEF Receive

LEMMA StepTypes ==
    ASSUME Types, KeysFit, NEW p \in Parties,
           \A m \in Arriving(p) : m.type = "data" => m.text # 0,
           \/ Start(p) \/ Send(p) \/ End(p)
           \/ Deliver(p) \/ Lose(p) \/ Restart(p)
           \/ RunTick(p) \/ Poll(p)
    PROVE  Types'
BY StartTypes, SendTypes, EndTypes, DeliverTypes, LoseTypes, RestartTypes, PollTypes,
   RunSendingTypes, RunEndTypes, ReceiveTypes, CorruptTypes DEF RunTick

-----------------------------------------------------------------------------
(* What a step does to what is on its way. *)

\* The messages S join the line to the other end of p, and of that to p none
\* but R go; the order stays.
Flow(p, S, R) == \A q \in Parties :
    /\ Arriving(q)' \subseteq Arriving(q) \cup (IF q = Peer[p] THEN S ELSE {})
    /\ Arriving(q) \subseteq Arriving(q)' \cup (IF q = p THEN R ELSE {})
    /\ q = Peer[p] => S \subseteq Arriving(q)'
    /\ \A x, y : Ahead(q, x, y)' =>
         x \in Arriving(q) /\ (Ahead(q, x, y) \/ (q = Peer[p] /\ y \in S))

\* A tick injects the messages S, one or none.
Adds(p, S) ==
    \/ S = {} /\ UNCHANGED net
    \/ \E m \in Message : S = {m} /\ Inject(p, m)

LEMMA ArrivingNext ==
    ASSUME TypeOK', NEW p \in Parties, NEW m
    PROVE  m \in Arriving(p)' <=> OnLine(ticks'[p], net'[p], m)
<1>1. ticks'[p] \in Seq(Tick) /\ net'[p] \in Seq(Message)
  BY DEF TypeOK
<1>2. m \in Arriving(p)' <=>
             \/ \E k \in DOMAIN net'[p] : net'[p][k] = m
             \/ \E k \in DOMAIN ticks'[p] : ticks'[p][k].op = "recv" /\ ticks'[p][k].msg = m
  BY DEF Arriving
<1> QED BY <1>1, <1>2, LineMembers

LEMMA BeforeOnLine ==
    ASSUME NEW t, NEW n, NEW x, NEW y, Before(t, n, x, y)
    PROVE  OnLine(t, n, x) /\ OnLine(t, n, y)
BY DEF Before, OnLine

\* Flow, from what happens to each line.
LEMMA FlowOf ==
    ASSUME TypeOK, TypeOK', NEW p \in Parties, NEW S, NEW R,
           \A q \in Parties : 
             /\ \A x : OnLine(ticks'[q], net'[q], x) =>
                  OnLine(ticks[q], net[q], x) \/ (q = Peer[p] /\ x \in S)
             /\ \A x : OnLine(ticks[q], net[q], x) =>
                  OnLine(ticks'[q], net'[q], x) \/ (q = p /\ x \in R)
             /\ \A x \in S : q = Peer[p] => OnLine(ticks'[q], net'[q], x)
             /\ \A x, y : Before(ticks'[q], net'[q], x, y) =>
                  /\ OnLine(ticks[q], net[q], x)
                  /\ Before(ticks[q], net[q], x, y) \/ (q = Peer[p] /\ y \in S)
    PROVE  Flow(p, S, R)
<1> SUFFICES ASSUME NEW q \in Parties
             PROVE  /\ Arriving(q)' \subseteq Arriving(q) \cup (IF q = Peer[p] THEN S ELSE {})
                    /\ Arriving(q) \subseteq Arriving(q)' \cup (IF q = p THEN R ELSE {})
                    /\ q = Peer[p] => S \subseteq Arriving(q)'
                    /\ \A x, y : Ahead(q, x, y)' =>
                         x \in Arriving(q) /\ (Ahead(q, x, y) \/ (q = Peer[p] /\ y \in S))
  BY DEF Flow
<1>1. \A x : x \in Arriving(q) <=> OnLine(ticks[q], net[q], x)
  BY ArrivingLine
<1>2. \A x : x \in Arriving(q)' <=> OnLine(ticks'[q], net'[q], x)
  BY ArrivingNext
<1>3. \A x, y : Ahead(q, x, y)' <=> Before(ticks'[q], net'[q], x, y)
  BY DEF Ahead
<1>4. \A x, y : Ahead(q, x, y) <=> Before(ticks[q], net[q], x, y)
  BY DEF Ahead
<1> QED BY <1>1, <1>2, <1>3, <1>4

LEMMA FlowStill ==
    ASSUME Types, Types', NEW p \in Parties, UNCHANGED <<ticks, net>>
    PROVE  Flow(p, {}, {})
<1>1. \A q \in Parties : ticks'[q] = ticks[q] /\ net'[q] = net[q]
  OBVIOUS
<1> QED BY <1>1, FlowOf, BeforeOnLine DEF Types

LEMMA FlowEnqueue ==
    ASSUME Types, Types', NEW p \in Parties, NEW t \in Tick, t.op # "recv", Enqueue(p, t)
    PROVE  Flow(p, {}, {})
<1>1. ticks[p] \in Seq(Tick) /\ net[p] \in Seq(Message)
  BY DEF Types, TypeOK
<1>2. ticks'[p] = Append(ticks[p], t) /\ net' = net
  BY DEF Enqueue, Types, TypeOK
<1>3. \A q \in Parties \ {p} : ticks'[q] = ticks[q]
  BY DEF Enqueue, Types, TypeOK
<1>4. /\ \A x : OnLine(ticks'[p], net'[p], x) <=> OnLine(ticks[p], net[p], x)
      /\ \A x, y : Before(ticks'[p], net'[p], x, y) => Before(ticks[p], net[p], x, y)
  BY <1>1, <1>2, LineQueue
<1> QED BY <1>2, <1>3, <1>4, FlowOf, BeforeOnLine DEF Types

LEMMA FlowDeliver ==
    ASSUME Types, Types', NEW p \in Parties, Deliver(p)
    PROVE  Flow(p, {}, {})
<1>1. ticks[p] \in Seq(Tick) /\ net[p] \in Seq(Message) /\ ticks'[p] \in Seq(Tick) /\ net[p] # <<>>
  BY DEF Types, TypeOK, Deliver
<1>. DEFINE r == [op |-> "recv", msg |-> Head(net[p])]
<1>2. ticks'[p] = Append(ticks[p], r) /\ net'[p] = Tail(net[p])
      /\ r \in Tick /\ r.op = "recv" /\ r.msg = Head(net[p])
  BY NetHead DEF Deliver, Types, TypeOK, Tick
<1>. HIDE DEF r
<1>3. \A q \in Parties \ {p} : ticks'[q] = ticks[q] /\ net'[q] = net[q]
  BY DEF Deliver, Types, TypeOK
<1>4. /\ \A x : OnLine(ticks'[p], net'[p], x) <=> OnLine(ticks[p], net[p], x)
      /\ \A x, y : Before(ticks'[p], net'[p], x, y) <=> Before(ticks[p], net[p], x, y)
  BY <1>1, <1>2, LineDeliver
<1> QED BY <1>3, <1>4, FlowOf, BeforeOnLine DEF Types

LEMMA FlowLose ==
    ASSUME Types, Types', NEW p \in Parties, Lose(p)
    PROVE  /\ Flow(p, {}, {Head(net[p])})
           /\ Head(net[p]) \in Arriving(p)
           /\ \A x \in Arriving(p)' : Ahead(p, x, Head(net[p])) \/ Ahead(p, Head(net[p]), x)
<1>1. ticks[p] \in Seq(Tick) /\ net[p] \in Seq(Message) /\ net[p] # <<>>
  BY DEF Types, TypeOK, Lose
<1>2. ticks'[p] = ticks[p] /\ net'[p] = Tail(net[p])
  BY DEF Lose, Types, TypeOK
<1>3. \A q \in Parties \ {p} : ticks'[q] = ticks[q] /\ net'[q] = net[q]
  BY DEF Lose, Types, TypeOK
<1>4. /\ \A m : OnLine(ticks'[p], net'[p], m) => OnLine(ticks[p], net[p], m)
      /\ \A m : OnLine(ticks[p], net[p], m) => OnLine(ticks'[p], net'[p], m) \/ m = Head(net[p])
      /\ OnLine(ticks[p], net[p], Head(net[p]))
      /\ \A x, y : Before(ticks'[p], net'[p], x, y) => Before(ticks[p], net[p], x, y)
      /\ \A m : OnLine(ticks'[p], net'[p], m) =>
           \/ Before(ticks[p], net[p], m, Head(net[p]))
           \/ Before(ticks[p], net[p], Head(net[p]), m)
  BY <1>1, <1>2, LineLose
<1>5. Flow(p, {}, {Head(net[p])})
  BY <1>3, <1>4, FlowOf, BeforeOnLine DEF Types
<1> QED BY <1>4, <1>5, ArrivingLine, ArrivingNext DEF Types, Ahead

LEMMA FlowRestart ==
    ASSUME Types, Types', NEW p \in Parties, Restart(p)
    PROVE  Flow(p, {}, Arriving(p)) /\ Arriving(p)' = {} /\ ticks'[p] = <<>>
<1>1. ticks'[p] = <<>> /\ net'[p] = <<>>
  BY DEF Restart, Types, TypeOK
<1>2. \A q \in Parties \ {p} : ticks'[q] = ticks[q] /\ net'[q] = net[q]
  BY DEF Restart, Types, TypeOK
<1>3. LineOf(ticks'[p], net'[p]) = {}
  BY <1>1 DEF LineOf
<1>4. \A x : ~ OnLine(ticks'[p], net'[p], x)
  BY <1>3 DEF OnLine
<1>5. \A x, y : ~ Before(ticks'[p], net'[p], x, y)
  BY <1>3 DEF Before
<1>6. Flow(p, {}, Arriving(p))
  BY <1>2, <1>4, <1>5, FlowOf, BeforeOnLine, ArrivingLine DEF Types
<1>7. Arriving(p)' = {}
  BY <1>1 DEF Arriving
<1> QED BY <1>1, <1>6, <1>7

LEMMA QueuesTyped ==
    ASSUME Types
    PROVE  ticks \in [Parties -> Seq(Tick)] /\ net \in [Parties -> Seq(Message)]
BY DEF Types, TypeOK

\* The line of p after a tick, and that of its other end.
LEMMA FlowTick ==
    ASSUME Types, Types', NEW p \in Parties, NEW op, NEW S,
           NextTick(p, op), Adds(p, S)
    PROVE  /\ Flow(p, S, IF op = "recv" THEN {Head(ticks[p]).msg} ELSE {})
           /\ op = "recv" => \A x \in Arriving(p)' : Ahead(p, Head(ticks[p]).msg, x)
<1>. DEFINE m == Head(ticks[p]).msg
            o == Peer[p]
<1>1. /\ o \in Parties /\ o # p
      /\ ticks[p] \in Seq(Tick) /\ net[p] \in Seq(Message) /\ ticks[p] # <<>>
      /\ ticks[o] \in Seq(Tick) /\ net[o] \in Seq(Message)
  BY PeerFacts, QueuesTyped DEF NextTick
<1>2. Head(ticks[p]) = ticks[p][1] /\ ticks[p][1].op = op
  BY <1>1 DEF NextTick
<1>3. ticks'[p] = Tail(ticks[p]) /\ \A q \in Parties \ {p} : ticks'[q] = ticks[q]
  BY DEF NextTick, Types, TypeOK
<1>4. \A q \in Parties \ {o} : net'[q] = net[q]
  <2>1. CASE UNCHANGED net
    BY <2>1
  <2>2. ASSUME NEW n, Inject(p, n) PROVE <1>4
    BY <2>2, QueuesTyped DEF Inject
  <2> QED BY <2>1, <2>2 DEF Adds
<1>5. /\ \A x : OnLine(ticks'[p], net'[p], x) =>
            OnLine(ticks[p], net[p], x) /\ (op = "recv" => Before(ticks[p], net[p], m, x))
      /\ \A x : OnLine(ticks[p], net[p], x) =>
            OnLine(ticks'[p], net'[p], x) \/ (op = "recv" /\ x = m)
      /\ \A x, y : Before(ticks'[p], net'[p], x, y) => Before(ticks[p], net[p], x, y)
  <2>1. net'[p] = net[p]
    BY <1>1, <1>4
  <2> QED BY <1>1, <1>2, <1>3, <2>1, LineTake
<1>6. /\ \A x : OnLine(ticks'[o], net'[o], x) <=> OnLine(ticks[o], net[o], x) \/ x \in S
      /\ \A x, y : Before(ticks'[o], net'[o], x, y) =>
           OnLine(ticks[o], net[o], x) /\ (Before(ticks[o], net[o], x, y) \/ y \in S)
  <2>1. CASE S = {} /\ UNCHANGED net
    BY <1>1, <1>3, <2>1, BeforeOnLine
  <2>2. ASSUME NEW n \in Message, S = {n}, Inject(p, n)
        PROVE  <1>6
    <3>1. net'[o] = Append(net[o], n) /\ ticks'[o] = ticks[o]
      BY <1>1, <1>3, <2>2, QueuesTyped DEF Inject
    <3> QED BY <1>1, <2>2, <3>1, LineInject
  <2> QED BY <2>1, <2>2 DEF Adds
<1>7. \A q \in Parties \ {p, o} : ticks'[q] = ticks[q] /\ net'[q] = net[q]
  BY <1>3, <1>4
<1>8. Flow(p, S, IF op = "recv" THEN {m} ELSE {})
  <2>1. ASSUME NEW q \in Parties
        PROVE /\ \A x : OnLine(ticks'[q], net'[q], x) =>
                  OnLine(ticks[q], net[q], x) \/ (q = Peer[p] /\ x \in S)
              /\ \A x : OnLine(ticks[q], net[q], x) =>
                  OnLine(ticks'[q], net'[q], x) \/ (q = p /\ op = "recv" /\ x = m)
              /\ \A x \in S : q = Peer[p] => OnLine(ticks'[q], net'[q], x)
              /\ \A x, y : Before(ticks'[q], net'[q], x, y) =>
                  /\ OnLine(ticks[q], net[q], x)
                  /\ Before(ticks[q], net[q], x, y) \/ (q = Peer[p] /\ y \in S)
    <3>1. CASE q = p
      BY <1>1, <1>5, <3>1, BeforeOnLine
    <3>2. CASE q = o
      BY <1>1, <1>6, <3>2
    <3>3. CASE q # p /\ q # o
      BY <1>7, <3>3, BeforeOnLine
    <3> QED BY <3>1, <3>2, <3>3
  <2> QED BY <2>1, FlowOf DEF Types
<1>9. op = "recv" => \A x \in Arriving(p)' : Ahead(p, m, x)
  BY <1>5, ArrivingNext DEF Ahead, Types
<1> QED BY <1>8, <1>9

-----------------------------------------------------------------------------
(* The keys. *)

IsMade(h) == h.n <= fresh[h.by]

\* A number that is answered with has been made.
Made == \A p \in Parties :
    /\ \A k \in held[p] : IsMade(k[2])
    /\ auth[p].state # "NONE" => IsMade(auth[p].key[2])
    /\ \A m \in Arriving(p) : m.type = "dhkey" => IsMade(m.key[2])

NotHeld(h, p) == \A k \in held[p] : k[2] # h

\* An exchange under way, and one that may still get under way, has an answer
\* that is in no key so far: that is why each key is new to who takes it into use.
Unused == \A p \in Parties :
    /\ auth[p].state # "NONE" => NotHeld(auth[p].key[2], p)
    /\ \A m \in Arriving(p) : m.type = "dhkey" => NotHeld(m.key[2], p)
    /\ \A x, y \in Arriving(p) :
         Ahead(p, x, y) /\ x.type = "sig" /\ y.type = "dhkey" => x.key[2] # y.key[2]

\* Who committed itself takes a key into use after who answered.
Shared == \A p \in Parties :
    /\ \A k \in held[p] : Fits(k, Peer[p]) => k \in held[Peer[p]]
    /\ \A m \in Arriving(p) : m.type = "sig" => m.key \in held[Peer[p]]

KeyInv == KeysFit /\ Made /\ Unused /\ Shared

\* A step that takes no exchange further: what it changes it gives up.
Eases(S) ==
    /\ UNCHANGED <<fresh, held>>
    /\ \A q \in Parties :
         /\ commit'[q] \in {commit[q], NONE}
         /\ auth'[q] \in {auth[q], Idle}
         /\ msgstate'[q] = "ENCRYPTED" => msgstate[q] = "ENCRYPTED" /\ key'[q] = key[q]
         /\ key'[q] \in {key[q], NOKEY}
    /\ \A m \in S : m.type \in {"query", "error", "plain", "data", "bye"}

LEMMA EasedKeys ==
    ASSUME KeyInv, NEW p \in Parties, NEW S, NEW R, Flow(p, S, R), Eases(S)
    PROVE  KeyInv'
<1>1. fresh' = fresh /\ held' = held
  BY DEF Eases
<1>2. \A q \in Parties : \A m \in Arriving(q)' :
        m.type \in {"dhcommit", "dhkey", "sig"} => m \in Arriving(q)
  BY DEF Flow, Eases
<1>3. \A q \in Parties : auth'[q].state # "NONE" => auth'[q] = auth[q]
  BY DEF Eases, Idle
<1>4. KeysFit'
  <2> SUFFICES ASSUME NEW q \in Parties
               PROVE  /\ commit'[q] # NONE => commit'[q].by = q
                      /\ auth'[q].state = "REVEALSIG" => Fits(auth'[q].key, q)
                      /\ auth'[q].state = "SIG" => Fits(auth'[q].key, Peer[q])
                      /\ msgstate'[q] = "ENCRYPTED" => key'[q] \in held'[q]
                      /\ \A k \in held'[q] : Fits(k, q) \/ Fits(k, Peer[q])
                      /\ \A m \in Arriving(q)' :
                           /\ m.type = "dhcommit" => m.key[1] \in Half /\ m.key[1].by = Peer[q]
                           /\ m.type = "dhkey" => m.key[2] \in Half /\ m.key[2].by = Peer[q]
    BY DEF KeysFit, Fits
  <2>1. commit'[q] # NONE => commit'[q].by = q
    BY DEF Eases, KeyInv, KeysFit
  <2>2. msgstate'[q] = "ENCRYPTED" => key'[q] \in held'[q]
    BY <1>1 DEF Eases, KeyInv, KeysFit
  <2> QED BY <1>1, <1>2, <1>3, <2>1, <2>2 DEF KeyInv, KeysFit
<1>5. Made'
  BY <1>1, <1>2, <1>3 DEF KeyInv, Made, IsMade
<1>6. Unused'
  <2> SUFFICES ASSUME NEW q \in Parties
               PROVE  /\ auth'[q].state # "NONE" => NotHeld(auth[q].key[2], q)'
                      /\ \A m \in Arriving(q)' : m.type = "dhkey" => NotHeld(m.key[2], q)'
                      /\ \A x, y \in Arriving(q)' :
                           Ahead(q, x, y)' /\ x.type = "sig" /\ y.type = "dhkey" =>
                             x.key[2] # y.key[2]
    BY DEF Unused, NotHeld
  <2>1. \A x, y \in Arriving(q)' :
           Ahead(q, x, y)' /\ y.type = "dhkey" =>
             x \in Arriving(q) /\ y \in Arriving(q) /\ Ahead(q, x, y)
    BY DEF Flow, Eases
  <2> QED BY <1>1, <1>2, <1>3, <2>1 DEF KeyInv, Unused, NotHeld
<1>7. Shared'
  BY <1>1, <1>2 DEF KeyInv, Shared, Fits
<1> QED BY <1>4, <1>5, <1>6, <1>7 DEF KeyInv

\* What a tick of recv() does to the lines.
LEMMA ReceiveFlow ==
    ASSUME Types, Types', NEW p \in Parties, NEW m, m = Head(ticks[p]).msg,
           NextTick(p, "recv"), NEW S, Adds(p, S)
    PROVE  /\ Flow(p, S, {m})
           /\ m \in Arriving(p) /\ m \in Message
           /\ \A x \in Arriving(p)' : x \in Arriving(p) /\ Ahead(p, m, x)
<1>1. Flow(p, S, {m}) /\ \A x \in Arriving(p)' : Ahead(p, m, x)
  BY FlowTick
<1>2. Arriving(p)' \subseteq Arriving(p)
  BY <1>1, PeerFacts DEF Flow
<1> QED BY <1>1, <1>2, ReceivedArrives

\* The exchange of the child context is about a key.
LEMMA AuthKey ==
    ASSUME Types, KeyInv, NEW p \in Parties
    PROVE  /\ auth[p].state \in {"NONE", "REVEALSIG", "SIG"}
           /\ auth[p].state # "NONE" =>
                /\ auth[p].key \in Key /\ auth[p].key[1] \in Half /\ auth[p].key[2] \in Half
                /\ auth[p].key = <<auth[p].key[1], auth[p].key[2]>>
<1>1. auth[p] \in [state : {"NONE", "REVEALSIG", "SIG"}, key : Key \cup {NOKEY}]
  BY DEF Types, TypeOK
<1>2. auth[p].state # "NONE" => auth[p].key \in Key
  BY <1>1 DEF KeyInv, KeysFit, Fits
<1> QED BY <1>1, <1>2, KeyParts

LEMMA MadeGrows ==
    ASSUME Types, NEW p \in Parties, fresh' = [fresh EXCEPT ![p] = fresh[p] + 1],
           NEW h \in Half, IsMade(h)
    PROVE  IsMade(h)'
<1>1. h.by \in Parties /\ h.n \in 1..MaxHalves
  BY HalfFields
<1>2. fresh[h.by] \in 0..MaxHalves
  BY <1>1 DEF Types, TypeOK
<1>3. fresh'[h.by] = IF h.by = p THEN fresh[h.by] + 1 ELSE fresh[h.by]
  BY <1>1 DEF Types, TypeOK
<1>4. h.n <= fresh[h.by]
  BY DEF IsMade
<1>5. h.n <= fresh'[h.by]
  BY <1>1, <1>2, <1>3, <1>4, BoundFacts
<1> QED BY <1>5 DEF IsMade

LEMMA AddsOne ==
    ASSUME NEW p \in Parties, NEW m \in Message, Inject(p, m)
    PROVE  Adds(p, {m})
BY DEF Adds

LEMMA QueryKeys ==
    ASSUME Types, Types', KeyInv, NEW p \in Parties, NEW m, m = Head(ticks[p]).msg,
           NextTick(p, "recv"), ReceiveQuery(p, m)
    PROVE  KeyInv'
<1>. DEFINE n == Msg("dhcommit", <<NewHalf(p), NONE>>, 0)
<1>1. /\ NewHalf(p) \in Half /\ NewHalf(p).by = p
      /\ fresh[p] \in Nat /\ fresh' = [fresh EXCEPT ![p] = fresh[p] + 1]
  BY NewHalfMade DEF ReceiveQuery
<1>2. n \in Message /\ n.type = "dhcommit" /\ n.key[1] = NewHalf(p)
  BY <1>1, MessageMade, MessageParts, BoundFacts
<1>3. Flow(p, {n}, {m})
  BY <1>2, AddsOne, ReceiveFlow DEF ReceiveQuery
<1>4. commit' = [commit EXCEPT ![p] = NewHalf(p)] /\ UNCHANGED <<auth, msgstate, key, held>>
  BY DEF ReceiveQuery
<1>5. \A q \in Parties : \A x \in Arriving(q)' :
        x \in Arriving(q) \/ (q = Peer[p] /\ x = n)
  BY <1>3 DEF Flow
<1>6. \A q \in Parties : \A x \in Arriving(q)' :
        x.type \in {"dhkey", "sig"} => x \in Arriving(q)
  BY <1>2, <1>5
<1>. HIDE DEF n
<1>7. KeysFit'
  <2>1. \A q \in Parties : commit'[q] # NONE => commit'[q].by = q
    <3>1. \A q \in Parties : commit[q] # NONE => commit[q].by = q
      BY DEF KeyInv, KeysFit
    <3>2. commit \in [Parties -> Half \cup {NONE}]
      BY DEF Types, TypeOK
    <3> QED BY <1>1, <1>4, <3>1, <3>2
  <2>2. \A q \in Parties : \A x \in Arriving(q)' :
           /\ x.type = "dhcommit" => x.key[1] \in Half /\ x.key[1].by = Peer[q]
           /\ x.type = "dhkey" => x.key[2] \in Half /\ x.key[2].by = Peer[q]
    BY <1>1, <1>2, <1>5, PeerFacts DEF KeyInv, KeysFit
  <2> QED BY <1>4, <2>1, <2>2 DEF KeyInv, KeysFit, Fits
<1>8. Made'
  <2>1. \A q \in Parties : \A k \in held'[q] : IsMade(k[2])'
    BY <1>1, <1>4, MadeGrows, KeyParts DEF KeyInv, Made, Types, TypeOK
  <2>2. \A q \in Parties : auth'[q].state # "NONE" => IsMade(auth[q].key[2])'
    <3> SUFFICES ASSUME NEW q \in Parties, auth[q].state # "NONE"
                 PROVE  IsMade(auth[q].key[2])'
      BY <1>4
    <3>1. auth[q].key[2] \in Half /\ IsMade(auth[q].key[2])
      BY AuthKey DEF KeyInv, Made
    <3>2. auth'[q].key[2] = auth[q].key[2]
      BY <1>4
    <3> QED BY <1>1, <3>1, <3>2, MadeGrows DEF IsMade
  <2>3. \A q \in Parties : \A x \in Arriving(q)' : x.type = "dhkey" => IsMade(x.key[2])'
    BY <1>1, <1>6, MadeGrows DEF KeyInv, KeysFit, Made
  <2> QED BY <2>1, <2>2, <2>3 DEF Made, IsMade
<1>9. Unused'
  <2> SUFFICES ASSUME NEW q \in Parties
               PROVE  /\ auth'[q].state # "NONE" => NotHeld(auth[q].key[2], q)'
                      /\ \A x \in Arriving(q)' : x.type = "dhkey" => NotHeld(x.key[2], q)'
                      /\ \A x, y \in Arriving(q)' :
                           Ahead(q, x, y)' /\ x.type = "sig" /\ y.type = "dhkey" =>
                             x.key[2] # y.key[2]
    BY DEF Unused, NotHeld
  <2>1. \A x, y \in Arriving(q)' :
           Ahead(q, x, y)' /\ y.type = "dhkey" =>
             x \in Arriving(q) /\ y \in Arriving(q) /\ Ahead(q, x, y)
    BY <1>2, <1>3, <1>6 DEF Flow
  <2> QED BY <1>4, <1>6, <2>1 DEF KeyInv, Unused, NotHeld
<1>10. Shared'
  BY <1>4, <1>6 DEF KeyInv, Shared, Fits
<1> QED BY <1>7, <1>8, <1>9, <1>10 DEF KeyInv

\* The answer to a commitment: a number of one's own that is in no key yet.
LEMMA CommitAnswer ==
    ASSUME Types, KeyInv, NEW p \in Parties, NEW m \in Arriving(p), ReceiveCommit(p, m)
    PROVE  \E h \in Half :
             /\ h.by = p /\ NotHeld(h, p)
             /\ auth' = [auth EXCEPT ![p] = [state |-> "REVEALSIG", key |-> <<m.key[1], h>>]]
             /\ Inject(p, Msg("dhkey", <<NONE, h>>, 0))
             /\ h.n <= fresh'[p]
             /\ UNCHANGED fresh \/ fresh' = [fresh EXCEPT ![p] = fresh[p] + 1]
<1>1. auth \in [Parties -> [state : {"NONE", "REVEALSIG", "SIG"}, key : Key \cup {NOKEY}]]
  BY DEF Types, TypeOK
<1>2. CASE /\ auth[p].state = "REVEALSIG"
           /\ auth' = [auth EXCEPT ![p].key = <<m.key[1], @[2]>>]
           /\ UNCHANGED fresh
  <2>. DEFINE h == auth[p].key[2]
  <2>1. h \in Half /\ h.by = p /\ NotHeld(h, p) /\ h.n <= fresh[p]
    BY <1>2, AuthKey DEF KeyInv, KeysFit, Fits, Unused, Made, IsMade
  <2>2. auth' = [auth EXCEPT ![p] = [state |-> "REVEALSIG", key |-> <<m.key[1], h>>]]
    <3>1. auth[p] = [state |-> "REVEALSIG", key |-> auth[p].key]
      BY <1>1, <1>2
    <3>2. [auth[p] EXCEPT !.key = <<m.key[1], @[2]>>]
             = [state |-> "REVEALSIG", key |-> <<m.key[1], h>>]
      BY <3>1
    <3>3. auth' = [auth EXCEPT ![p] = [auth[p] EXCEPT !.key = <<m.key[1], @[2]>>]]
      BY <1>2
    <3> QED BY <3>2, <3>3
  <2>3. auth'[p].key[2] = h
    BY <1>1, <2>2
  <2>4. Inject(p, Msg("dhkey", <<NONE, h>>, 0))
    BY <2>3 DEF ReceiveCommit
  <2> QED BY <1>2, <2>1, <2>2, <2>4
<1>3. CASE /\ MakeHalf(p)
           /\ auth' = [auth EXCEPT ![p] = [state |-> "REVEALSIG",
                                          key |-> <<m.key[1], NewHalf(p)>>]]
  <2>. DEFINE h == NewHalf(p)
  <2>1. /\ h \in Half /\ h.by = p /\ h.n = fresh[p] + 1 /\ fresh[p] \in Nat
        /\ fresh' = [fresh EXCEPT ![p] = fresh[p] + 1]
    BY <1>3, NewHalfMade
  <2>2. h.n <= fresh'[p]
    BY <2>1 DEF Types, TypeOK
  <2>3. NotHeld(h, p)
    <3> SUFFICES ASSUME NEW k \in held[p], k[2] = h PROVE FALSE
      BY DEF NotHeld
    <3>1. h.n <= fresh[p]
      BY <2>1 DEF KeyInv, Made, IsMade
    <3> QED BY <2>1, <3>1
  <2>4. auth'[p].key[2] = h
    BY <1>1, <1>3
  <2>5. Inject(p, Msg("dhkey", <<NONE, h>>, 0))
    BY <2>4 DEF ReceiveCommit
  <2> QED BY <1>3, <2>1, <2>2, <2>3, <2>5
<1> QED BY <1>2, <1>3 DEF ReceiveCommit

\* What one end has not used, the other one has not.
LEMMA NeitherHeld ==
    ASSUME KeyInv, NEW p \in Parties, NEW h \in Half, h.by = p, NotHeld(h, p)
    PROVE  NotHeld(h, Peer[p])
<1> SUFFICES ASSUME NEW k \in held[Peer[p]], k[2] = h PROVE FALSE
  BY DEF NotHeld
<1>1. Fits(k, p)
  BY PeerFacts DEF KeyInv, KeysFit, Fits
<1>2. k \in held[p]
  BY <1>1, PeerFacts DEF KeyInv, Shared
<1> QED BY <1>2 DEF NotHeld

LEMMA CommitKeys ==
    ASSUME Types, Types', KeyInv, NEW p \in Parties, NEW m, m = Head(ticks[p]).msg,
           NextTick(p, "recv"), ReceiveCommit(p, m)
    PROVE  KeyInv'
<1>1. m \in Arriving(p)
  BY ReceivedArrives
<1>2. PICK h \in Half :
             /\ h.by = p /\ NotHeld(h, p)
             /\ auth' = [auth EXCEPT ![p] = [state |-> "REVEALSIG", key |-> <<m.key[1], h>>]]
             /\ Inject(p, Msg("dhkey", <<NONE, h>>, 0))
             /\ h.n <= fresh'[p]
             /\ UNCHANGED fresh \/ fresh' = [fresh EXCEPT ![p] = fresh[p] + 1]
  BY <1>1, CommitAnswer
<1>. DEFINE n == Msg("dhkey", <<NONE, h>>, 0)
<1>3. n \in Message /\ n.type = "dhkey" /\ n.key[2] = h
  BY MessageMade, MessageParts, BoundFacts
<1>4. Flow(p, {n}, {m})
  BY <1>2, <1>3, AddsOne, ReceiveFlow
<1>. HIDE DEF n
<1>5. UNCHANGED <<commit, msgstate, key, held>> /\ m.type = "dhcommit"
  BY DEF ReceiveCommit
<1>6. \A q \in Parties : \A x \in Arriving(q)' :
        x \in Arriving(q) \/ (q = Peer[p] /\ x = n)
  BY <1>4 DEF Flow
<1>7. \A q \in Parties : \A x \in Arriving(q)' :
        x.type \in {"dhcommit", "sig"} => x \in Arriving(q)
  BY <1>3, <1>6
<1>8. m.key[1] \in Half /\ m.key[1].by = Peer[p]
  BY <1>1, <1>5 DEF KeyInv, KeysFit
<1>9. /\ auth'[p].state = "REVEALSIG" /\ auth'[p].key = <<m.key[1], h>>
      /\ \A q \in Parties \ {p} : auth'[q] = auth[q]
  BY <1>2 DEF Types, TypeOK
<1>10. \A g \in Half : IsMade(g) => IsMade(g)'
  BY <1>2, MadeGrows DEF IsMade
<1>11. KeysFit'
  <2>1. \A q \in Parties : /\ auth'[q].state = "REVEALSIG" => Fits(auth'[q].key, q)
                           /\ auth'[q].state = "SIG" => Fits(auth'[q].key, Peer[q])
    <3>1. Fits(auth'[p].key, p)
      BY <1>2, <1>8, <1>9 DEF Fits, Key
    <3> QED BY <1>9, <3>1 DEF KeyInv, KeysFit
  <2>2. \A q \in Parties : \A x \in Arriving(q)' :
           /\ x.type = "dhcommit" => x.key[1] \in Half /\ x.key[1].by = Peer[q]
           /\ x.type = "dhkey" => x.key[2] \in Half /\ x.key[2].by = Peer[q]
    BY <1>2, <1>3, <1>6, PeerFacts DEF KeyInv, KeysFit
  <2> QED BY <1>5, <2>1, <2>2 DEF KeyInv, KeysFit, Fits
<1>12. Made'
  <2>1. \A q \in Parties : \A k \in held'[q] : IsMade(k[2])'
    BY <1>5, <1>10, KeyParts DEF KeyInv, Made, Types, TypeOK
  <2>2. IsMade(h)'
    BY <1>2 DEF IsMade
  <2>3. \A q \in Parties : auth'[q].state # "NONE" => IsMade(auth[q].key[2])'
    <3> SUFFICES ASSUME NEW q \in Parties, auth'[q].state # "NONE"
                 PROVE  IsMade(auth[q].key[2])'
      OBVIOUS
    <3>1. CASE q = p
      BY <1>9, <2>2, <3>1 DEF IsMade
    <3>2. CASE q # p
      <4>1. auth'[q] = auth[q] /\ auth[q].key[2] \in Half /\ IsMade(auth[q].key[2])
        BY <1>9, <3>2, AuthKey DEF KeyInv, Made
      <4> QED BY <1>10, <4>1 DEF IsMade
    <3> QED BY <3>1, <3>2
  <2>4. \A q \in Parties : \A x \in Arriving(q)' : x.type = "dhkey" => IsMade(x.key[2])'
    <3> SUFFICES ASSUME NEW q \in Parties, NEW x \in Arriving(q)', x.type = "dhkey"
                 PROVE  IsMade(x.key[2])'
      OBVIOUS
    <3>1. CASE x \in Arriving(q)
      BY <1>10, <3>1 DEF KeyInv, KeysFit, Made
    <3>2. CASE x = n
      BY <1>3, <2>2, <3>2 DEF IsMade
    <3> QED BY <1>6, <3>1, <3>2
  <2> QED BY <2>1, <2>3, <2>4 DEF Made, IsMade
<1>13. Unused'
  <2>1. NotHeld(h, Peer[p])
    BY <1>2, NeitherHeld
  <2>2. ASSUME NEW q \in Parties
        PROVE  auth'[q].state # "NONE" => NotHeld(auth[q].key[2], q)'
    BY <1>2, <1>5, <1>9 DEF KeyInv, Unused, NotHeld
  <2>3. ASSUME NEW q \in Parties, NEW x \in Arriving(q)', x.type = "dhkey"
        PROVE  NotHeld(x.key[2], q)'
    BY <1>3, <1>5, <1>6, <2>1, <2>3 DEF KeyInv, Unused, NotHeld
  <2>4. ASSUME NEW q \in Parties, NEW x \in Arriving(q)', NEW y \in Arriving(q)',
               Ahead(q, x, y)', x.type = "sig", y.type = "dhkey"
        PROVE  x.key[2] # y.key[2]
    <3>1. x \in Arriving(q) /\ (Ahead(q, x, y) \/ (q = Peer[p] /\ y = n))
      BY <1>4, <2>4 DEF Flow
    <3>2. CASE q = Peer[p] /\ y = n
      <4>1. x.key \in held[p]
        BY <2>4, <3>1, <3>2, PeerFacts DEF KeyInv, Shared
      <4> QED BY <1>2, <1>3, <3>2, <4>1 DEF NotHeld
    <3>3. CASE Ahead(q, x, y) /\ y \in Arriving(q)
      BY <2>4, <3>1, <3>3 DEF KeyInv, Unused
    <3> QED BY <1>6, <3>1, <3>2, <3>3, ArrivingLine, BeforeOnLine DEF Ahead, Types
  <2> QED BY <2>2, <2>3, <2>4 DEF Unused, NotHeld
<1>14. Shared'
  BY <1>5, <1>7 DEF KeyInv, Shared, Fits
<1> QED BY <1>11, <1>12, <1>13, <1>14 DEF KeyInv

\* The answer to a commitment, when it arrives: the exchange it belongs to goes
\* on, or is what it was.
LEMMA KeyAnswer ==
    ASSUME Types, KeyInv, NEW p \in Parties, NEW m \in Arriving(p), ReceiveKey(p, m)
    PROVE  /\ \E S : Adds(p, S) /\ \A n \in S : n.type = "revealsig"
           /\ \/ UNCHANGED auth
              \/ /\ commit[p] \in Half
                 /\ auth' = [auth EXCEPT ![p] = [state |-> "SIG", key |-> <<commit[p], m.key[2]>>]]
<1>1. m.key[2] \in Half /\ commit[p] \in Half \cup {NONE}
  BY DEF ReceiveKey, KeyInv, KeysFit, Types, TypeOK
<1>2. ASSUME NEW k \in Key, Inject(p, Msg("revealsig", k, 0))
      PROVE  \E S : Adds(p, S) /\ \A n \in S : n.type = "revealsig"
  <2>. DEFINE n == Msg("revealsig", k, 0)
  <2>1. k[1] \in Half /\ k[2] \in Half /\ k = <<k[1], k[2]>>
    BY KeyParts
  <2>2. n \in Message /\ n.type = "revealsig"
    BY <2>1, MessageMade, MessageParts, BoundFacts
  <2>. HIDE DEF n
  <2>3. Adds(p, {n})
    BY <1>2, <2>2, AddsOne DEF n
  <2> QED BY <2>2, <2>3
<1>3. CASE /\ commit[p] # NONE
           /\ auth' = [auth EXCEPT ![p] = [state |-> "SIG", key |-> <<commit[p], m.key[2]>>]]
           /\ Inject(p, Msg("revealsig", auth'[p].key, 0))
  <2>1. commit[p] \in Half
    BY <1>1, <1>3
  <2>2. auth'[p].key = <<commit[p], m.key[2]>>
    BY <1>3 DEF Types, TypeOK
  <2>3. auth'[p].key \in Key
    BY <1>1, <2>1, <2>2 DEF Key
  <2> QED BY <1>2, <1>3, <2>1, <2>3
<1>4. CASE /\ UNCHANGED auth
           /\ \/ auth[p].state = "SIG" /\ Inject(p, Msg("revealsig", auth[p].key, 0))
              \/ UNCHANGED net
  <2>1. CASE auth[p].state = "SIG" /\ Inject(p, Msg("revealsig", auth[p].key, 0))
    BY <1>2, <1>4, <2>1, AuthKey
  <2>2. CASE UNCHANGED net
    <3>1. Adds(p, {})
      BY <2>2 DEF Adds
    <3> QED BY <1>4, <3>1
  <2> QED BY <1>4, <2>1, <2>2
<1> QED BY <1>3, <1>4 DEF ReceiveKey

LEMMA KeyKeys ==
    ASSUME Types, Types', KeyInv, NEW p \in Parties, NEW m, m = Head(ticks[p]).msg,
           NextTick(p, "recv"), ReceiveKey(p, m)
    PROVE  KeyInv'
<1>1. m \in Arriving(p) /\ m.type = "dhkey"
  BY ReceivedArrives DEF ReceiveKey
<1>2. PICK S : Adds(p, S) /\ \A n \in S : n.type = "revealsig"
  BY <1>1, KeyAnswer
<1>3. Flow(p, S, {m})
  BY <1>2, ReceiveFlow
<1>4. UNCHANGED <<commit, msgstate, key, fresh, held>>
  BY DEF ReceiveKey
<1>5. \A q \in Parties : \A x \in Arriving(q)' :
        x.type \in {"dhcommit", "dhkey", "sig"} => x \in Arriving(q)
  BY <1>2, <1>3 DEF Flow
<1>6. m.key[2] \in Half /\ m.key[2].by = Peer[p] /\ IsMade(m.key[2]) /\ NotHeld(m.key[2], p)
  BY <1>1 DEF KeyInv, KeysFit, Made, Unused
<1>7. \A q \in Parties :
        \/ auth'[q] = auth[q]
        \/ /\ q = p /\ commit[p] \in Half
           /\ auth'[q].state = "SIG" /\ auth'[q].key = <<commit[p], m.key[2]>>
  <2>1. CASE UNCHANGED auth
    BY <2>1
  <2>2. CASE /\ commit[p] \in Half
             /\ auth' = [auth EXCEPT ![p] = [state |-> "SIG", key |-> <<commit[p], m.key[2]>>]]
    <3>1. DOMAIN auth = Parties
      BY DEF Types, TypeOK
    <3> QED BY <2>2, <3>1
  <2> QED BY <1>1, <2>1, <2>2, KeyAnswer
<1>8. KeysFit'
  <2>1. ASSUME NEW q \in Parties
        PROVE  /\ auth'[q].state = "REVEALSIG" => Fits(auth'[q].key, q)
               /\ auth'[q].state = "SIG" => Fits(auth'[q].key, Peer[q])
    <3>1. CASE auth'[q] = auth[q]
      BY <3>1 DEF KeyInv, KeysFit
    <3>2. CASE /\ q = p /\ commit[p] \in Half
               /\ auth'[q].state = "SIG" /\ auth'[q].key = <<commit[p], m.key[2]>>
      <4>1. commit[p].by = p
        BY <3>2, HalfFields DEF KeyInv, KeysFit
      <4>2. <<commit[p], m.key[2]>> \in Key
        BY <1>6, <3>2 DEF Key
      <4>3. Fits(<<commit[p], m.key[2]>>, Peer[p])
        BY <1>6, <4>1, <4>2, PeerFacts DEF Fits
      <4> QED BY <3>2, <4>3
    <3> QED BY <1>7, <3>1, <3>2
  <2> QED BY <1>4, <1>5, <2>1 DEF KeyInv, KeysFit, Fits
<1>9. Made'
  <2>1. ASSUME NEW q \in Parties PROVE auth'[q].state # "NONE" => IsMade(auth[q].key[2])'
    <3>1. CASE auth'[q] = auth[q]
      BY <1>4, <3>1 DEF KeyInv, Made, IsMade
    <3>2. CASE auth'[q].key = <<commit[p], m.key[2]>>
      <4>1. auth'[q].key[2] = m.key[2]
        BY <3>2
      <4>2. IsMade(m.key[2])'
        BY <1>4, <1>6 DEF IsMade
      <4> QED BY <4>1, <4>2
    <3> QED BY <1>7, <3>1, <3>2
  <2> QED BY <1>4, <1>5, <2>1 DEF KeyInv, Made, IsMade
<1>10. Unused'
  <2>1. ASSUME NEW q \in Parties PROVE auth'[q].state # "NONE" => NotHeld(auth[q].key[2], q)'
    BY <1>4, <1>6, <1>7 DEF KeyInv, Unused, NotHeld
  <2>2. ASSUME NEW q \in Parties, NEW x \in Arriving(q)', NEW y \in Arriving(q)',
               Ahead(q, x, y)', x.type = "sig", y.type = "dhkey"
        PROVE  x.key[2] # y.key[2]
    <3>1. Ahead(q, x, y) /\ x \in Arriving(q) /\ y \in Arriving(q)
      BY <1>2, <1>3, <1>5, <2>2 DEF Flow
    <3> QED BY <2>2, <3>1 DEF KeyInv, Unused
  <2> QED BY <1>4, <1>5, <2>1, <2>2 DEF KeyInv, Unused, NotHeld
<1>11. Shared'
  BY <1>4, <1>5 DEF KeyInv, Shared, Fits
<1> QED BY <1>8, <1>9, <1>10, <1>11 DEF KeyInv

\* The key a closing message brings into use: its place in the exchange, and
\* that neither the end that uses it nor what still arrives there has it.
LEMMA ClosingKey ==
    ASSUME Types, KeyInv, NEW p \in Parties, NEW m \in Arriving(p), ReceiveClosing(p, m)
    PROVE  /\ m.key \in Key /\ m.key \notin held[p]
           /\ IsMade(m.key[2])
           /\ \/ m.type = "revealsig" /\ Fits(m.key, p)
              \/ m.type = "sig" /\ Fits(m.key, Peer[p]) /\ m.key \in held[Peer[p]]
<1>1. auth[p] = [state |-> Awaited(m), key |-> m.key] /\ Awaited(m) # "NONE"
  BY DEF ReceiveClosing, Awaited
<1>2. auth[p].state # "NONE" /\ auth[p].key = m.key /\ auth[p].state = Awaited(m)
  BY <1>1
<1>3. m.key \in Key /\ NotHeld(m.key[2], p) /\ IsMade(m.key[2])
  BY <1>2, AuthKey DEF KeyInv, Unused, Made
<1>4. CASE m.type = "revealsig"
  BY <1>2, <1>3, <1>4 DEF Awaited, KeyInv, KeysFit, NotHeld
<1>5. CASE m.type = "sig"
  BY <1>2, <1>3, <1>5 DEF Awaited, KeyInv, KeysFit, Shared, NotHeld
<1> QED BY <1>4, <1>5 DEF ReceiveClosing

LEMMA ClosingAnswer ==
    ASSUME Types, KeyInv, NEW p \in Parties, NEW m \in Arriving(p), ReceiveClosing(p, m)
    PROVE  \E S : Adds(p, S) /\ \A n \in S : n.type = "sig" /\ n.key = m.key
<1>. DEFINE n == Msg("sig", m.key, 0)
<1>1. m.key[1] \in Half /\ m.key[2] \in Half /\ m.key = <<m.key[1], m.key[2]>>
  BY ClosingKey, KeyParts
<1>2. n \in Message /\ n.type = "sig" /\ n.key = m.key
  <2>1. Msg("sig", <<m.key[1], m.key[2]>>, 0) \in Message
    BY <1>1, MessageMade, BoundFacts
  <2> QED BY <1>1, <2>1, MessageParts
<1>3. CASE Inject(p, n)
  <2>. HIDE DEF n
  <2>1. Adds(p, {n})
    BY <1>2, <1>3, AddsOne
  <2> QED BY <1>2, <2>1
<1>4. CASE UNCHANGED net
  <2>1. Adds(p, {})
    BY <1>4 DEF Adds
  <2> QED BY <2>1
<1> QED BY <1>3, <1>4 DEF ReceiveClosing

LEMMA ClosingKeys ==
    ASSUME Types, Types', KeyInv, NEW p \in Parties, NEW m, m = Head(ticks[p]).msg,
           NextTick(p, "recv"), ReceiveClosing(p, m)
    PROVE  KeyInv'
<1>1. m \in Arriving(p)
  BY ReceivedArrives
<1>2. PICK S : Adds(p, S) /\ \A n \in S : n.type = "sig" /\ n.key = m.key
  BY <1>1, ClosingAnswer
<1>3. Flow(p, S, {m}) /\ \A x \in Arriving(p)' : x \in Arriving(p) /\ Ahead(p, m, x)
  BY <1>2, ReceiveFlow
<1>4. UNCHANGED <<commit, fresh>>
  BY DEF ReceiveClosing
<1>5. /\ m.key \in Key /\ m.key \notin held[p] /\ IsMade(m.key[2])
      /\ \/ m.type = "revealsig" /\ Fits(m.key, p)
         \/ m.type = "sig" /\ Fits(m.key, Peer[p]) /\ m.key \in held[Peer[p]]
  BY <1>1, ClosingKey
<1>6. /\ auth'[p].state = "NONE" /\ key'[p] = m.key /\ held'[p] = held[p] \cup {m.key}
      /\ \A q \in Parties \ {p} : /\ auth'[q] = auth[q] /\ key'[q] = key[q]
                                  /\ held'[q] = held[q] /\ msgstate'[q] = msgstate[q]
  BY DEF ReceiveClosing, Types, TypeOK, Idle
<1>7. \A q \in Parties : \A x \in Arriving(q)' :
        x \in Arriving(q) \/ (q = Peer[p] /\ x.type = "sig" /\ x.key = m.key)
  BY <1>2, <1>3 DEF Flow
<1>8. KeysFit'
  <2>1. ASSUME NEW q \in Parties
        PROVE  /\ msgstate'[q] = "ENCRYPTED" => key'[q] \in held'[q]
               /\ \A k \in held'[q] : Fits(k, q) \/ Fits(k, Peer[q])
    BY <1>5, <1>6 DEF KeyInv, KeysFit
  <2> QED BY <1>4, <1>6, <1>7, <2>1 DEF KeyInv, KeysFit, Fits
<1>9. Made'
  <2>1. ASSUME NEW q \in Parties, NEW k \in held'[q] PROVE IsMade(k[2])'
    <3>1. k \in held[q] \/ k = m.key
      BY <1>6
    <3> QED BY <1>4, <1>5, <3>1 DEF KeyInv, Made, IsMade
  <2>2. ASSUME NEW q \in Parties, auth'[q].state # "NONE" PROVE IsMade(auth[q].key[2])'
    <3>1. auth'[q] = auth[q]
      BY <1>6, <2>2
    <3> QED BY <1>4, <2>2, <3>1 DEF KeyInv, Made, IsMade
  <2>3. ASSUME NEW q \in Parties, NEW x \in Arriving(q)', x.type = "dhkey"
        PROVE  IsMade(x.key[2])'
    <3>1. x \in Arriving(q)
      BY <1>7, <2>3
    <3> QED BY <1>4, <2>3, <3>1 DEF KeyInv, Made, IsMade
  <2> QED BY <2>1, <2>2, <2>3 DEF Made
<1>10. Unused'
  <2>1. ASSUME NEW q \in Parties PROVE auth'[q].state # "NONE" => NotHeld(auth[q].key[2], q)'
    BY <1>6 DEF KeyInv, Unused, NotHeld
  <2>2. ASSUME NEW x \in Arriving(p)', x.type = "dhkey"
        PROVE  NotHeld(x.key[2], p)'
    <3>1. x \in Arriving(p) /\ Ahead(p, m, x)
      BY <1>3, <2>2
    <3>2. x.key[2].by = Peer[p] /\ NotHeld(x.key[2], p)
      BY <2>2, <3>1 DEF KeyInv, KeysFit, Unused
    <3>3. m.key[2] # x.key[2]
      <4>1. CASE m.type = "revealsig"
        BY <1>5, <3>2, <4>1, PeerFacts DEF Fits
      <4>2. CASE m.type = "sig"
        BY <1>1, <2>2, <3>1, <4>2 DEF KeyInv, Unused
      <4> QED BY <1>5, <4>1, <4>2
    <3> QED BY <1>6, <3>2, <3>3 DEF NotHeld
  <2>3. ASSUME NEW q \in Parties, NEW x \in Arriving(q)', x.type = "dhkey"
        PROVE  NotHeld(x.key[2], q)'
    BY <1>6, <1>7, <2>2, <2>3 DEF KeyInv, Unused, NotHeld
  <2>4. ASSUME NEW q \in Parties, NEW x \in Arriving(q)', NEW y \in Arriving(q)',
               Ahead(q, x, y)', x.type = "sig", y.type = "dhkey"
        PROVE  x.key[2] # y.key[2]
    <3>1. Ahead(q, x, y) /\ x \in Arriving(q) /\ y \in Arriving(q)
      BY <1>2, <1>3, <1>7, <2>4 DEF Flow
    <3> QED BY <2>4, <3>1 DEF KeyInv, Unused
  <2> QED BY <2>1, <2>3, <2>4 DEF Unused, NotHeld
<1>11. Shared'
  <2>1. ASSUME NEW q \in Parties, NEW k \in held'[q], Fits(k, Peer[q])
        PROVE  k \in held'[Peer[q]]
    <3>1. k \in held[q] \/ (q = p /\ k = m.key)
      BY <1>6
    <3>2. CASE k \in held[q]
      <4>1. k \in held[Peer[q]]
        BY <2>1, <3>2 DEF KeyInv, Shared
      <4> QED BY <1>6, <4>1, PeerFacts
    <3>3. CASE q = p /\ k = m.key
      <4>1. ~Fits(m.key, p)
        BY <2>1, <3>3, PeerFacts DEF Fits
      <4> QED BY <1>5, <1>6, <3>3, <4>1, PeerFacts
    <3> QED BY <3>1, <3>2, <3>3
  <2>2. ASSUME NEW q \in Parties, NEW x \in Arriving(q)', x.type = "sig"
        PROVE  x.key \in held'[Peer[q]]
    BY <1>6, <1>7, <2>2, PeerFacts DEF KeyInv, Shared
  <2> QED BY <2>1, <2>2 DEF Shared, Fits
<1> QED BY <1>8, <1>9, <1>10, <1>11 DEF KeyInv

-----------------------------------------------------------------------------
(* The texts that wait in a queue. *)

SendsOf(t) == {t[k].text : k \in {j \in DOMAIN t : t[j].op = "send"}}

\* Texts wait in the order they were handed over, and none behind an end().
Orderly(t) == \A k \in DOMAIN t : t[k].op = "send" =>
    \A j \in 1..(k - 1) : t[j].op # "end" /\ (t[j].op = "send" => t[j].text < t[k].text)

LEMMA SendsAppend ==
    ASSUME NEW t \in Seq(Tick), NEW u \in Tick
    PROVE  /\ SendsOf(Append(t, u))
                = SendsOf(t) \cup (IF u.op = "send" THEN {u.text} ELSE {})
           /\ Orderly(t) /\ (u.op = "send" => /\ \A k \in DOMAIN t : t[k].op # "end"
                                              /\ \A n \in SendsOf(t) : n < u.text)
                => Orderly(Append(t, u))
<1>. DEFINE a == Append(t, u)
<1>1. /\ Len(t) \in Nat /\ DOMAIN t = 1..Len(t) /\ DOMAIN a = 1..(Len(t) + 1)
      /\ a[Len(t) + 1] = u /\ \A k \in 1..Len(t) : a[k] = t[k]
  OBVIOUS
<1>. HIDE DEF a
<1>2. \A k \in DOMAIN a : k = Len(t) + 1 \/ k \in DOMAIN t
  BY <1>1
<1>3. \A k \in DOMAIN t : k \in DOMAIN a
  BY <1>1
<1>4. Len(t) + 1 \in DOMAIN a
  BY <1>1
<1>5. SendsOf(a) = SendsOf(t) \cup (IF u.op = "send" THEN {u.text} ELSE {})
  BY <1>1, <1>2, <1>3, <1>4 DEF SendsOf
<1>6. ASSUME Orderly(t),
             u.op = "send" => /\ \A k \in DOMAIN t : t[k].op # "end"
                              /\ \A n \in SendsOf(t) : n < u.text,
             NEW k \in DOMAIN a, a[k].op = "send", NEW j \in 1..(k - 1)
      PROVE  a[j].op # "end" /\ (a[j].op = "send" => a[j].text < a[k].text)
  <2>1. j \in DOMAIN t /\ a[j] = t[j]
    BY <1>1, <1>6
  <2>2. CASE k = Len(t) + 1
    BY <1>1, <1>6, <2>1, <2>2 DEF SendsOf
  <2>3. CASE k \in DOMAIN t
    BY <1>1, <1>6, <2>1, <2>3 DEF Orderly
  <2> QED BY <1>2, <2>2, <2>3
<1> QED BY <1>5, <1>6 DEF Orderly, a

LEMMA SendsTake ==
    ASSUME NEW t \in Seq(Tick), t # <<>>, Orderly(t)
    PROVE  /\ Orderly(Tail(t))
           /\ SendsOf(Tail(t)) = SendsOf(t) \ (IF t[1].op = "send" THEN {t[1].text} ELSE {})
           /\ t[1].op = "send" => /\ t[1].text \in SendsOf(t)
                                  /\ \A n \in SendsOf(Tail(t)) : t[1].text < n
           /\ t[1].op = "end" => SendsOf(t) = {}
<1>. DEFINE a == Tail(t)
<1>1. /\ Len(t) \in Nat \ {0} /\ DOMAIN t = 1..Len(t) /\ DOMAIN a = 1..(Len(t) - 1)
      /\ \A k \in 1..(Len(t) - 1) : a[k] = t[k + 1]
  OBVIOUS
<1>2. \A k \in DOMAIN t : t[k] \in Tick
  BY <1>1
<1>. HIDE DEF a
<1>3. \A k \in DOMAIN a : k + 1 \in DOMAIN t /\ a[k] = t[k + 1]
  BY <1>1
<1>4. \A k \in DOMAIN t : k = 1 \/ (k - 1 \in DOMAIN a /\ a[k - 1] = t[k] /\ 1 \in 1..(k - 1))
  BY <1>1
<1>5. 1 \in DOMAIN t
  BY <1>1
<1>6. ASSUME NEW k \in DOMAIN a, a[k].op = "send", NEW j \in 1..(k - 1)
      PROVE  a[j].op # "end" /\ (a[j].op = "send" => a[j].text < a[k].text)
  <2>1. j \in DOMAIN a /\ j + 1 \in 1..((k + 1) - 1)
    BY <1>1, <1>6
  <2> QED BY <1>3, <1>6, <2>1 DEF Orderly
<1>7. \A n \in SendsOf(a) : n \in SendsOf(t) /\ (t[1].op = "send" => t[1].text < n)
  <2> SUFFICES ASSUME NEW k \in DOMAIN a, a[k].op = "send"
               PROVE  /\ a[k].text \in SendsOf(t)
                      /\ t[1].op = "send" => t[1].text < a[k].text
    BY DEF SendsOf
  <2>1. k + 1 \in DOMAIN t /\ a[k] = t[k + 1] /\ 1 \in 1..((k + 1) - 1)
    BY <1>1, <1>3
  <2> QED BY <2>1 DEF SendsOf, Orderly
<1>8. \A n \in SendsOf(t) : n \in SendsOf(a) \/ (t[1].op = "send" /\ n = t[1].text)
  BY <1>4 DEF SendsOf
<1>9. t[1].op = "send" => t[1].text \in SendsOf(t) /\ t[1].text \in Nat
  BY <1>2, <1>5, TickFields, BoundFacts DEF SendsOf
<1>10. SendsOf(a) = SendsOf(t) \ (IF t[1].op = "send" THEN {t[1].text} ELSE {})
  <2>1. t[1].op = "send" => t[1].text \notin SendsOf(a)
    BY <1>7, <1>9
  <2> QED BY <1>7, <1>8, <2>1
<1>11. t[1].op = "end" => SendsOf(t) = {}
  <2> SUFFICES ASSUME t[1].op = "end", NEW k \in DOMAIN t, t[k].op = "send" PROVE FALSE
    BY DEF SendsOf
  <2>1. k # 1
    OBVIOUS
  <2> QED BY <1>4, <2>1 DEF Orderly
<1> QED BY <1>6, <1>7, <1>9, <1>10, <1>11 DEF Orderly, a

LEMMA TextsAre == \A p \in Parties : Texts(p) = SendsOf(ticks[p]) /\ Texts(p)' = SendsOf(ticks'[p])
BY DEF Texts, SendsOf

LEMMA TextsTyped ==
    ASSUME Types, NEW p \in Parties
    PROVE  Texts(p) \subseteq 1..MaxEvents
<1>1. ticks[p] \in Seq(Tick)
  BY DEF Types, TypeOK
<1>2. \A k \in DOMAIN ticks[p] : ticks[p][k] \in Tick
  BY <1>1
<1> QED BY <1>2, TickFields DEF Texts

\* Text that waits to be sent was handed over in a conversation that is not
\* over before it is sent.
SendsLast == \A p \in Parties :
    /\ Orderly(ticks[p])
    /\ \A n \in Texts(p) : n <= said[p] /\ msgstate[p] # "PLAINTEXT"

\* What was heard comes before what arrives, and that before what waits.
TextsOrdered == \A p \in Parties :
    /\ \A j \in DOMAIN heard[p] :
         /\ heard[p][j] <= said[Peer[p]]
         /\ \A n \in Texts(Peer[p]) : heard[p][j] < n
         /\ \A m \in Arriving(p) : m.type = "data" => heard[p][j] < m.text
    /\ \A m \in Arriving(p) : m.type = "data" =>
         /\ 0 < m.text /\ m.text <= said[Peer[p]]
         /\ \A n \in Texts(Peer[p]) : m.text < n
    /\ \A x, y \in Arriving(p) :
         Ahead(p, x, y) /\ x.type = "data" /\ y.type = "data" => x.text < y.text

\* The end of a conversation is told once, by an end that has left it.
ByesOnce == \A p \in Parties :
    /\ \A m \in Arriving(p) : m.type = "bye" =>
         m.text = 0 /\ m.key \in held[Peer[p]] /\ m.key # key[Peer[p]]
    /\ \A x, y \in Arriving(p) :
         Ahead(p, x, y) /\ x.type = "bye" /\ y.type = "bye" => x.key # y.key

\* The queues keep their order and are given no text.
Settled == \A q \in Parties : Orderly(ticks'[q]) /\ Texts(q)' \subseteq Texts(q)

\* A step that says and hears nothing, and ends no conversation too early.
Calm(S) ==
    /\ UNCHANGED <<said, heard>>
    /\ Settled
    /\ \A q \in Parties : msgstate'[q] = "PLAINTEXT" => msgstate[q] = "PLAINTEXT" \/ Texts(q)' = {}
    /\ \A m \in S : m.type # "data"

\* A step that tells of no end, and takes no key into use again.
Onward(S) ==
    /\ \A q \in Parties : held[q] \subseteq held'[q] /\ (key'[q] = key[q] \/ key'[q] \notin held[q])
    /\ \A m \in S : m.type # "bye"

LEMMA SettledStill ==
    ASSUME Types, SendsLast, UNCHANGED ticks
    PROVE  Settled
BY TextsAre DEF Settled, SendsLast

LEMMA SettledEnqueue ==
    ASSUME Types, SendsLast, NEW p \in Parties, NEW t \in Tick, t.op # "send",
           ticks' = [ticks EXCEPT ![p] = Append(ticks[p], t)]
    PROVE  Settled /\ \A q \in Parties : Texts(q)' = Texts(q)
<1>1. ticks[p] \in Seq(Tick) /\ ticks'[p] = Append(ticks[p], t)
      /\ \A q \in Parties \ {p} : ticks'[q] = ticks[q]
  BY DEF Types, TypeOK
<1>2. Orderly(ticks'[p]) /\ SendsOf(ticks'[p]) = SendsOf(ticks[p])
  BY <1>1, SendsAppend DEF SendsLast
<1> QED BY <1>1, <1>2, TextsAre DEF Settled, SendsLast

LEMMA SettledTick ==
    ASSUME Types, SendsLast, NEW p \in Parties, NEW op, NextTick(p, op)
    PROVE  /\ Settled
           /\ op # "send" => \A q \in Parties : Texts(q)' = Texts(q)
           /\ op = "send" => /\ Head(ticks[p]).text \in Texts(p)
                             /\ Texts(p)' = Texts(p) \ {Head(ticks[p]).text}
                             /\ \A n \in Texts(p)' : Head(ticks[p]).text < n
                             /\ \A q \in Parties \ {p} : Texts(q)' = Texts(q)
           /\ op = "end" => Texts(p) = {}
<1>1. /\ ticks[p] \in Seq(Tick) /\ ticks[p] # <<>> /\ ticks'[p] = Tail(ticks[p])
      /\ \A q \in Parties \ {p} : ticks'[q] = ticks[q]
      /\ Head(ticks[p]) = ticks[p][1] /\ ticks[p][1].op = op
  BY QueueHead DEF Types, TypeOK, NextTick
<1>2. Orderly(ticks[p])
  BY DEF SendsLast
<1>3. /\ Orderly(ticks'[p])
      /\ SendsOf(ticks'[p])
           = SendsOf(ticks[p]) \ (IF op = "send" THEN {Head(ticks[p]).text} ELSE {})
      /\ op = "send" => /\ Head(ticks[p]).text \in SendsOf(ticks[p])
                        /\ \A n \in SendsOf(ticks'[p]) : Head(ticks[p]).text < n
      /\ op = "end" => SendsOf(ticks[p]) = {}
  BY <1>1, <1>2, SendsTake
<1>4. \A q \in Parties \ {p} : Orderly(ticks'[q]) /\ Texts(q)' = Texts(q)
  BY <1>1, TextsAre DEF SendsLast
<1>5. Texts(p) = SendsOf(ticks[p]) /\ Texts(p)' = SendsOf(ticks'[p])
  BY TextsAre
<1> QED BY <1>3, <1>4, <1>5 DEF Settled

LEMMA SettledRestart ==
    ASSUME Types, SendsLast, NEW p \in Parties, Restart(p)
    PROVE  Settled /\ Texts(p)' = {}
<1>1. ticks'[p] = <<>> /\ \A q \in Parties \ {p} : ticks'[q] = ticks[q]
  BY DEF Restart, Types, TypeOK
<1>2. Orderly(ticks'[p]) /\ SendsOf(ticks'[p]) = {}
  BY <1>1 DEF Orderly, SendsOf
<1> QED BY <1>1, <1>2, TextsAre DEF Settled, SendsLast

LEMMA CalmTexts ==
    ASSUME SendsLast, TextsOrdered, NEW p \in Parties, NEW S, NEW R, Flow(p, S, R), Calm(S)
    PROVE  SendsLast' /\ TextsOrdered'
<1>1. \A q \in Parties : Texts(q)' \subseteq Texts(q)
  BY DEF Calm, Settled
<1>2. \A q \in Parties : \A m \in Arriving(q)' : m.type = "data" => m \in Arriving(q)
  BY DEF Flow, Calm
<1>3. said' = said /\ heard' = heard
  BY DEF Calm
<1>4. SendsLast'
  <2> SUFFICES ASSUME NEW q \in Parties
               PROVE  /\ Orderly(ticks'[q])
                      /\ \A n \in Texts(q)' : n <= said'[q] /\ msgstate'[q] # "PLAINTEXT"
    BY DEF SendsLast, Orderly
  <2> QED BY <1>1, <1>3 DEF SendsLast, Calm, Settled
<1>5. ASSUME NEW q \in Parties, NEW x \in Arriving(q)', NEW y \in Arriving(q)',
             Ahead(q, x, y)', x.type = "data", y.type = "data"
      PROVE  x.text < y.text
  <2>1. x \in Arriving(q) /\ y \in Arriving(q) /\ Ahead(q, x, y)
    BY <1>2, <1>5 DEF Flow, Calm
  <2> QED BY <1>5, <2>1 DEF TextsOrdered
<1>6. TextsOrdered'
  BY <1>1, <1>2, <1>3, <1>5, PeerFacts DEF TextsOrdered
<1> QED BY <1>4, <1>6

LEMMA OnwardByes ==
    ASSUME ByesOnce, NEW p \in Parties, NEW S, NEW R, Flow(p, S, R), Onward(S)
    PROVE  ByesOnce'
<1>1. \A q \in Parties : \A m \in Arriving(q)' : m.type = "bye" => m \in Arriving(q)
  BY DEF Flow, Onward
<1>2. ASSUME NEW q \in Parties, NEW m \in Arriving(q)', m.type = "bye"
      PROVE  m.text = 0 /\ m.key \in held'[Peer[q]] /\ m.key # key'[Peer[q]]
  <2>1. m.text = 0 /\ m.key \in held[Peer[q]] /\ m.key # key[Peer[q]]
    BY <1>1, <1>2 DEF ByesOnce
  <2> QED BY <2>1, PeerFacts DEF Onward
<1>3. ASSUME NEW q \in Parties, NEW x \in Arriving(q)', NEW y \in Arriving(q)',
             Ahead(q, x, y)', x.type = "bye", y.type = "bye"
      PROVE  x.key # y.key
  <2>1. x \in Arriving(q) /\ y \in Arriving(q) /\ Ahead(q, x, y)
    BY <1>1, <1>3 DEF Flow, Onward
  <2> QED BY <1>3, <2>1 DEF ByesOnce
<1> QED BY <1>2, <1>3 DEF ByesOnce

-----------------------------------------------------------------------------
(* The invariant, and the steps that keep it. *)

Order == SendsLast /\ TextsOrdered /\ ByesOnce

Inv == Types /\ KeyInv /\ Order

LEMMA NoKeyHeld ==
    ASSUME Types, NEW p \in Parties
    PROVE  NOKEY \notin held[p]
BY KeyParts DEF Types, TypeOK

LEMMA EasedOrder ==
    ASSUME Inv, NEW p \in Parties, NEW S, NEW R, Flow(p, S, R), Eases(S), Calm(S),
           \A m \in S : m.type # "bye"
    PROVE  KeyInv' /\ Order'
<1>1. Onward(S)
  BY NoKeyHeld DEF Onward, Eases, Inv
<1> QED BY <1>1, EasedKeys, CalmTexts, OnwardByes DEF Inv, Order

\* A step that leaves the exchanges and the texts alone.
LEMMA PlainStep ==
    ASSUME Inv, NEW p \in Parties, NEW S, NEW R, Flow(p, S, R), Settled,
           UNCHANGED <<commit, auth, msgstate, key, fresh, held, said, heard>>,
           \A m \in S : m.type \in {"query", "error", "plain"}
    PROVE  KeyInv' /\ Order'
<1>1. Eases(S) /\ Calm(S) /\ \A m \in S : m.type # "bye"
  BY DEF Eases, Calm
<1> QED BY <1>1, EasedOrder

LEMMA StartStep ==
    ASSUME Inv, Types', NEW p \in Parties, Start(p) \/ End(p)
    PROVE  Inv' /\ Flow(p, {}, {}) /\ \A q \in Parties : Texts(q)' = Texts(q)
<1>1. PICK t \in Tick : t.op \in {"start", "end"} /\ Enqueue(p, t)
  BY DEF Start, End, Tick
<1>2. Flow(p, {}, {})
  BY <1>1, FlowEnqueue DEF Inv
<1>3. Settled /\ \A q \in Parties : Texts(q)' = Texts(q)
  BY <1>1, SettledEnqueue DEF Inv, Order, Enqueue
<1>4. UNCHANGED <<commit, auth, msgstate, key, fresh, held, said, heard>>
  BY DEF Start, End, Enqueue, contextVars
<1> QED BY <1>2, <1>3, <1>4, PlainStep DEF Inv

LEMMA DeliverStep ==
    ASSUME Inv, Types', NEW p \in Parties, Deliver(p)
    PROVE  Inv' /\ Flow(p, {}, {}) /\ \A q \in Parties : Texts(q)' = Texts(q)
<1>. DEFINE r == [op |-> "recv", msg |-> Head(net[p])]
<1>1. r \in Tick /\ r.op # "send"
  BY NetHead DEF Deliver, Inv, Types, Tick
<1>2. ticks' = [ticks EXCEPT ![p] = Append(ticks[p], r)]
  BY DEF Deliver
<1>. HIDE DEF r
<1>3. Settled /\ \A q \in Parties : Texts(q)' = Texts(q)
  BY <1>1, <1>2, SettledEnqueue DEF Inv, Order
<1>4. UNCHANGED <<commit, auth, msgstate, key, fresh, held, said, heard>>
  BY DEF Deliver, contextVars
<1>5. Flow(p, {}, {})
  BY FlowDeliver DEF Inv
<1> QED BY <1>3, <1>4, <1>5, PlainStep DEF Inv

LEMMA LoseStep ==
    ASSUME Inv, Types', NEW p \in Parties, Lose(p)
    PROVE  /\ Inv' /\ Flow(p, {}, {Head(net[p])}) /\ Head(net[p]) \in Arriving(p)
           /\ \A q \in Parties : Texts(q)' = Texts(q)
           /\ \A x \in Arriving(p)' : Ahead(p, x, Head(net[p])) \/ Ahead(p, Head(net[p]), x)
<1>1. /\ Flow(p, {}, {Head(net[p])}) /\ Head(net[p]) \in Arriving(p)
      /\ \A x \in Arriving(p)' : Ahead(p, x, Head(net[p])) \/ Ahead(p, Head(net[p]), x)
  BY FlowLose DEF Inv
<1>2. UNCHANGED <<ticks, commit, auth, msgstate, key, fresh, held, said, heard>>
  BY DEF Lose, contextVars
<1>3. Settled /\ \A q \in Parties : Texts(q)' = Texts(q)
  BY <1>2, SettledStill, TextsAre DEF Inv, Order
<1> QED BY <1>1, <1>2, <1>3, PlainStep DEF Inv

LEMMA CorruptStep ==
    ASSUME Inv, Types', NEW p \in Parties, TickCorrupts(p)
    PROVE  Inv' /\ Flow(p, {}, {}) /\ \A q \in Parties : Texts(q)' = Texts(q)
<1>1. UNCHANGED <<ticks, net, commit, auth, msgstate, key, fresh, held, said, heard>>
  BY DEF TickCorrupts, contextVars
<1>2. Flow(p, {}, {})
  BY <1>1, FlowStill DEF Inv
<1>3. Settled /\ \A q \in Parties : Texts(q)' = Texts(q)
  BY <1>1, SettledStill, TextsAre DEF Inv, Order
<1> QED BY <1>1, <1>2, <1>3, PlainStep DEF Inv

LEMMA PollStep ==
    ASSUME Inv, Types', NEW p \in Parties, Poll(p)
    PROVE  Inv' /\ Flow(p, {}, {}) /\ \A q \in Parties : Texts(q)' = Texts(q)
<1>1. UNCHANGED <<ticks, net, auth, msgstate, key, fresh, held, said, heard>>
  BY DEF Poll
<1>2. Flow(p, {}, {})
  BY <1>1, FlowStill DEF Inv
<1>3. Settled /\ \A q \in Parties : Texts(q)' = Texts(q)
  BY <1>1, SettledStill, TextsAre DEF Inv, Order
<1>4. \A q \in Parties : commit'[q] \in {commit[q], NONE}
  BY DEF Poll, Inv, Types, TypeOK
<1>5. Eases({}) /\ Calm({})
  BY <1>1, <1>3, <1>4 DEF Eases, Calm
<1> QED BY <1>2, <1>3, <1>5, EasedOrder DEF Inv

LEMMA RestartStep ==
    ASSUME Inv, Types', NEW p \in Parties, Restart(p)
    PROVE  /\ Inv' /\ Flow(p, {}, Arriving(p)) /\ Arriving(p)' = {}
           /\ Texts(p)' = {} /\ \A q \in Parties \ {p} : Texts(q)' = Texts(q)
<1>1. Flow(p, {}, Arriving(p)) /\ Arriving(p)' = {}
  BY FlowRestart DEF Inv
<1>2. UNCHANGED <<fresh, held, said, heard>>
  BY DEF Restart
<1>3. Settled /\ Texts(p)' = {}
  BY SettledRestart DEF Inv, Order
<1>4. \A q \in Parties \ {p} : /\ commit'[q] = commit[q] /\ auth'[q] = auth[q]
                               /\ msgstate'[q] = msgstate[q] /\ key'[q] = key[q]
                               /\ ticks'[q] = ticks[q]
  BY DEF Restart, Inv, Types, TypeOK
<1>5. commit'[p] = NONE /\ auth'[p] = Idle /\ msgstate'[p] = "PLAINTEXT" /\ key'[p] = NOKEY
  BY DEF Restart, Inv, Types, TypeOK
<1>6. Eases({})
  BY <1>2, <1>4, <1>5 DEF Eases
<1>7. Calm({})
  BY <1>2, <1>3, <1>4 DEF Calm
<1>8. \A q \in Parties \ {p} : Texts(q)' = Texts(q)
  BY <1>4, TextsAre
<1> QED BY <1>1, <1>3, <1>6, <1>7, <1>8, EasedOrder DEF Inv

\* A text that is handed over comes after all that was said before.
LEMMA SendStep ==
    ASSUME Inv, Types', NEW p \in Parties, Send(p)
    PROVE  /\ Inv' /\ Flow(p, {}, {})
           /\ Texts(p)' = Texts(p) \cup {said'[p]} /\ \A q \in Parties \ {p} : Texts(q)' = Texts(q)
<1>. DEFINE n == said[p] + 1
            t == [op |-> "send", text |-> n]
<1>1. /\ said[p] \in Nat /\ said'[p] = n /\ \A q \in Parties \ {p} : said'[q] = said[q]
      /\ n \in 1..MaxEvents
  <2>1. /\ said[p] \in 0..MaxEvents /\ said' = [said EXCEPT ![p] = @ + 1]
        /\ said' \in [Parties -> 0..MaxEvents]
    BY DEF Send, Inv, Types, TypeOK
  <2>2. said'[p] = said[p] + 1 /\ said'[p] \in 0..MaxEvents
    BY <2>1 DEF Inv, Types, TypeOK
  <2> QED BY <2>1, <2>2, BoundFacts DEF Inv, Types, TypeOK
<1>2. t \in Tick /\ t.op = "send" /\ t.text = n
  BY <1>1 DEF Tick
<1>3. Enqueue(p, t)
  BY <1>1 DEF Send
<1>. HIDE DEF t
<1>4. Flow(p, {}, {})
  BY <1>2, <1>3, FlowEnqueue DEF Inv
<1>5. /\ ticks[p] \in Seq(Tick) /\ ticks'[p] = Append(ticks[p], t)
      /\ \A q \in Parties \ {p} : ticks'[q] = ticks[q]
  BY <1>3 DEF Enqueue, Inv, Types, TypeOK
<1>6. /\ Orderly(ticks[p]) /\ \A k \in Texts(p) : k \in Nat /\ k <= said[p]
      /\ \A k \in DOMAIN ticks[p] : ticks[p][k].op # "end"
  BY TextsTyped, BoundFacts DEF Inv, Order, SendsLast, Send, EndPending
<1>7. \A k \in SendsOf(ticks[p]) : k < t.text
  BY <1>1, <1>2, <1>6, TextsAre
<1>8. Orderly(ticks'[p]) /\ SendsOf(ticks'[p]) = SendsOf(ticks[p]) \cup {n}
  BY <1>2, <1>5, <1>6, <1>7, SendsAppend
<1>9. /\ Texts(p)' = Texts(p) \cup {n}
      /\ \A q \in Parties \ {p} : Texts(q)' = Texts(q) /\ Orderly(ticks'[q])
  BY <1>5, <1>8, TextsAre DEF Inv, Order, SendsLast
<1>10. UNCHANGED <<commit, auth, msgstate, key, fresh, held, heard>>
  BY <1>3 DEF Enqueue, contextVars
<1>11. SendsLast'
  <2> SUFFICES ASSUME NEW q \in Parties
               PROVE  /\ Orderly(ticks'[q])
                      /\ \A k \in Texts(q)' : k <= said'[q] /\ msgstate'[q] # "PLAINTEXT"
    BY DEF SendsLast, Orderly
  <2>1. CASE q = p
    <3>1. msgstate[p] = "ENCRYPTED"
      BY DEF Send, IsEncrypted
    <3>2. \A k \in Texts(p)' : k <= n
      BY <1>1, <1>6, <1>9
    <3> QED BY <1>1, <1>8, <1>10, <2>1, <3>1, <3>2
  <2>2. CASE q # p
    BY <1>1, <1>9, <1>10, <2>2 DEF Inv, Order, SendsLast
  <2> QED BY <2>1, <2>2
<1>12. TextsOrdered'
  <2>1. \A q \in Parties : Arriving(q)' \subseteq Arriving(q)
    BY <1>4 DEF Flow
  <2>2. ASSUME NEW q \in Parties, NEW k \in Nat, k <= said[Peer[q]],
               \A i \in Texts(Peer[q]) : k < i
        PROVE  k <= said'[Peer[q]] /\ \A i \in Texts(Peer[q])' : k < i
    <3>1. CASE Peer[q] = p
      <4>1. k <= said'[p] /\ k < n
        BY <1>1, <2>2, <3>1
      <4> QED BY <1>9, <2>2, <3>1, <4>1
    <3>2. CASE Peer[q] # p
      BY <1>1, <1>9, <2>2, <3>2, PeerFacts
    <3> QED BY <3>1, <3>2
  <2>3. ASSUME NEW q \in Parties, NEW j \in DOMAIN heard'[q]
        PROVE  /\ heard'[q][j] <= said'[Peer[q]]
               /\ \A i \in Texts(Peer[q])' : heard'[q][j] < i
               /\ \A m \in Arriving(q)' : m.type = "data" => heard'[q][j] < m.text
    <3>1. heard'[q] = heard[q] /\ heard[q][j] \in Nat
      <4>1. heard[q] \in Seq(1..MaxEvents) /\ heard' = heard
        BY <1>10 DEF Inv, Types, TypeOK
      <4> QED BY <2>3, <4>1, BoundFacts
    <3> QED BY <2>1, <2>2, <2>3, <3>1 DEF Inv, Order, TextsOrdered
  <2>4. ASSUME NEW q \in Parties, NEW m \in Arriving(q)', m.type = "data"
        PROVE  0 < m.text /\ m.text <= said'[Peer[q]] /\ \A i \in Texts(Peer[q])' : m.text < i
    <3>1. m \in Arriving(q) /\ m.text \in Nat
      BY <2>1, <2>4, ArrivingTyped, MessageFields, BoundFacts DEF Inv, Types
    <3> QED BY <2>2, <2>4, <3>1 DEF Inv, Order, TextsOrdered
  <2>5. ASSUME NEW q \in Parties, NEW x \in Arriving(q)', NEW y \in Arriving(q)',
               Ahead(q, x, y)', x.type = "data", y.type = "data"
        PROVE  x.text < y.text
    BY <1>4, <2>1, <2>5 DEF Inv, Order, TextsOrdered, Flow
  <2> QED BY <2>3, <2>4, <2>5 DEF TextsOrdered
<1>13. Onward({}) /\ Eases({})
  BY <1>10 DEF Onward, Eases
<1>14. KeyInv' /\ ByesOnce'
  BY <1>4, <1>13, EasedKeys, OnwardByes DEF Inv, Order
<1> QED BY <1>1, <1>4, <1>9, <1>11, <1>12, <1>14 DEF Inv, Order

LEMMA AddsNone ==
    ASSUME NEW p \in Parties, UNCHANGED net
    PROVE  Adds(p, {})
BY DEF Adds

LEMMA RunStartStep ==
    ASSUME Inv, Types', NEW p \in Parties, RunStart(p)
    PROVE  /\ Inv' /\ \A q \in Parties : Texts(q)' = Texts(q)
           /\ \E S : Flow(p, S, {}) /\ \A m \in S : m.type = "query"
<1>. DEFINE m == Msg("query", NOKEY, 0)
<1>1. m \in Message /\ m.type = "query"
  BY MessageMade, MessageParts, BoundFacts DEF NOKEY
<1>2. Flow(p, {m}, {})
  BY <1>1, AddsOne, FlowTick DEF RunStart, Inv
<1>. HIDE DEF m
<1>3. Settled /\ \A q \in Parties : Texts(q)' = Texts(q)
  BY SettledTick DEF RunStart, Inv, Order
<1>4. UNCHANGED <<commit, auth, msgstate, key, fresh, held, said, heard>>
  BY DEF RunStart, NextTick, contextVars
<1>5. \A n \in {m} : n.type \in {"query", "error", "plain"}
  BY <1>1
<1>6. KeyInv' /\ Order'
  BY <1>2, <1>3, <1>4, <1>5, PlainStep
<1>7. \E S : Flow(p, S, {}) /\ \A n \in S : n.type = "query"
  BY <1>1, <1>2
<1> QED BY <1>3, <1>6, <1>7 DEF Inv

\* The text that leaves comes after all that left before.
LEMMA RunSendStep ==
    ASSUME Inv, Types', NEW p \in Parties, RunSend(p)
    PROVE  /\ Inv'
           /\ Head(ticks[p]).text \in Texts(p)
           /\ Texts(p)' = Texts(p) \ {Head(ticks[p]).text}
           /\ \A k \in Texts(p)' : Head(ticks[p]).text < k
           /\ \A q \in Parties \ {p} : Texts(q)' = Texts(q)
           /\ \/ /\ msgstate[p] = "ENCRYPTED"
                 /\ Flow(p, {Msg("data", key[p], Head(ticks[p]).text)}, {})
              \/ /\ msgstate[p] = "FINISHED"
                 /\ \E S : Flow(p, S, {}) /\ \A m \in S : m.type = "plain"
<1>. DEFINE n == Head(ticks[p]).text
            d == Msg("data", key[p], n)
            e == Msg("plain", NOKEY, 0)
<1>1. /\ Settled
      /\ n \in Texts(p) /\ Texts(p)' = Texts(p) \ {n} /\ \A k \in Texts(p)' : n < k
      /\ \A q \in Parties \ {p} : Texts(q)' = Texts(q)
  BY SettledTick DEF RunSend, Inv, Order
<1>2. msgstate[p] \in {"ENCRYPTED", "FINISHED"} /\ n <= said[p] /\ n \in 1..MaxEvents
  BY <1>1, TextsTyped DEF Inv, Order, SendsLast, Types, TypeOK
<1>3. UNCHANGED <<commit, auth, msgstate, key, fresh, held, said, heard>>
  BY DEF RunSend, NextTick, contextVars
<1>4. CASE msgstate[p] = "ENCRYPTED"
  <2>1. d \in Message /\ d.type = "data" /\ d.text = n
    <3>1. key[p][1] \in Half /\ key[p][2] \in Half /\ key[p] = <<key[p][1], key[p][2]>>
      BY <1>4, KeyParts DEF Inv, KeyInv, KeysFit, Types, TypeOK
    <3>2. Msg("data", <<key[p][1], key[p][2]>>, n) \in Message
      BY <1>2, <3>1, MessageMade, BoundFacts
    <3> QED BY <3>1, <3>2, MessageParts
  <2>2. Flow(p, {d}, {})
    BY <1>4, <2>1, AddsOne, FlowTick DEF RunSend, Inv
  <2>. HIDE DEF d, n
  <2>3. \A q \in Parties : \A m \in Arriving(q)' : m \in Arriving(q) \/ (q = Peer[p] /\ m = d)
    BY <2>2 DEF Flow
  <2>4. Eases({d}) /\ Onward({d})
    BY <1>3, <2>1 DEF Eases, Onward
  <2>5. KeyInv' /\ ByesOnce'
    BY <2>2, <2>4, EasedKeys, OnwardByes DEF Inv, Order
  <2>6. SendsLast'
    <3> SUFFICES ASSUME NEW q \in Parties
                 PROVE  /\ Orderly(ticks'[q])
                        /\ \A k \in Texts(q)' : k <= said'[q] /\ msgstate'[q] # "PLAINTEXT"
      BY DEF SendsLast, Orderly
    <3> QED BY <1>1, <1>3 DEF Inv, Order, SendsLast, Settled
  <2>7. TextsOrdered'
    <3>1. ASSUME NEW q \in Parties, NEW j \in DOMAIN heard'[q]
          PROVE  /\ heard'[q][j] <= said'[Peer[q]]
                 /\ \A i \in Texts(Peer[q])' : heard'[q][j] < i
                 /\ \A m \in Arriving(q)' : m.type = "data" => heard'[q][j] < m.text
      <4>1. /\ heard[q][j] <= said[Peer[q]]
            /\ \A i \in Texts(Peer[q]) : heard[q][j] < i
            /\ \A m \in Arriving(q) : m.type = "data" => heard[q][j] < m.text
        BY <1>3, <3>1 DEF Inv, Order, TextsOrdered
      <4>2. \A i \in Texts(Peer[q])' : i \in Texts(Peer[q])
        BY <1>1, PeerFacts
      <4>3. q = Peer[p] => heard[q][j] < d.text
        BY <1>1, <2>1, <4>1, PeerFacts
      <4> QED BY <1>3, <2>3, <4>1, <4>2, <4>3
    <3>2. ASSUME NEW q \in Parties, NEW m \in Arriving(q)', m.type = "data"
          PROVE  0 < m.text /\ m.text <= said'[Peer[q]] /\ \A i \in Texts(Peer[q])' : m.text < i
      <4>1. CASE m \in Arriving(q)
        BY <1>1, <1>3, <3>2, <4>1, PeerFacts DEF Inv, Order, TextsOrdered
      <4>2. CASE q = Peer[p] /\ m = d
        <5>1. 0 < n
          BY <1>2, BoundFacts
        <5> QED BY <1>1, <1>2, <1>3, <2>1, <4>2, <5>1, PeerFacts
      <4> QED BY <2>3, <4>1, <4>2
    <3>3. ASSUME NEW q \in Parties, NEW x \in Arriving(q)', NEW y \in Arriving(q)',
                 Ahead(q, x, y)', x.type = "data", y.type = "data"
          PROVE  x.text < y.text
      <4>1. x \in Arriving(q) /\ (Ahead(q, x, y) \/ (q = Peer[p] /\ y = d))
        BY <2>2, <3>3 DEF Flow
      <4>2. CASE q = Peer[p] /\ y = d
        BY <1>1, <2>1, <3>3, <4>1, <4>2, PeerFacts DEF Inv, Order, TextsOrdered
      <4>3. CASE Ahead(q, x, y)
        <5>1. y \in Arriving(q)
          BY <4>3, ArrivingLine, BeforeOnLine DEF Ahead, Inv, Types
        <5> QED BY <3>3, <4>1, <4>3, <5>1 DEF Inv, Order, TextsOrdered
      <4> QED BY <4>1, <4>2, <4>3
    <3> QED BY <3>1, <3>2, <3>3 DEF TextsOrdered
  <2> QED BY <1>1, <1>4, <2>2, <2>5, <2>6, <2>7 DEF Inv, Order, d, n
<1>5. CASE msgstate[p] = "FINISHED"
  <2>1. e \in Message /\ e.type = "plain"
    BY MessageMade, MessageParts, BoundFacts DEF NOKEY
  <2>2. Flow(p, {e}, {})
    BY <1>5, <2>1, AddsOne, FlowTick DEF RunSend, Inv
  <2>. HIDE DEF e, n
  <2>3. KeyInv' /\ Order'
    BY <1>1, <1>3, <2>1, <2>2, PlainStep
  <2>4. \E S : Flow(p, S, {}) /\ \A m \in S : m.type = "plain"
    BY <2>1, <2>2
  <2> QED BY <1>1, <1>5, <2>3, <2>4 DEF Inv, n
<1> QED BY <1>2, <1>4, <1>5

\* The end of a conversation that is private is told, and the others are not.
LEMMA RunEndStep ==
    ASSUME Inv, Types', NEW p \in Parties, RunEnd(p)
    PROVE  /\ Inv' /\ \A q \in Parties : Texts(q)' = Texts(q)
           /\ IF ptr[p] = "CHILD" /\ msgstate[p] = "ENCRYPTED"
              THEN Flow(p, {Msg("bye", key[p], 0)}, {}) ELSE Flow(p, {}, {})
<1>. DEFINE d == Msg("bye", key[p], 0)
<1>1. NextTick(p, "end") /\ UNCHANGED <<fresh, held, heard, said>>
  BY DEF RunEnd, NextTick
<1>2. Settled /\ (\A q \in Parties : Texts(q)' = Texts(q)) /\ Texts(p) = {}
  BY <1>1, SettledTick DEF Inv, Order
<1>3. CASE ptr[p] = "CHILD"
  <2>1. /\ msgstate'[p] = "PLAINTEXT" /\ key'[p] = NOKEY /\ auth'[p] = Idle
        /\ \A q \in Parties \ {p} : /\ auth'[q] = auth[q] /\ msgstate'[q] = msgstate[q]
                                    /\ key'[q] = key[q]
        /\ UNCHANGED commit
    BY <1>3 DEF RunEnd, Inv, Types, TypeOK
  <2>2. Calm({}) /\ Eases({})
    BY <1>1, <1>2, <2>1 DEF Calm, Eases
  <2>3. CASE msgstate[p] = "ENCRYPTED"
    <3>1. d \in Message /\ d.type = "bye" /\ d.text = 0 /\ d.key = key[p] /\ key[p] \in held[p]
      <4>1. key[p] \in held[p] /\ key[p][1] \in Half /\ key[p][2] \in Half
            /\ key[p] = <<key[p][1], key[p][2]>>
        BY <2>3, KeyParts DEF Inv, KeyInv, KeysFit, Types, TypeOK
      <4>2. Msg("bye", <<key[p][1], key[p][2]>>, 0) \in Message
        BY <4>1, MessageMade, BoundFacts
      <4> QED BY <4>1, <4>2, MessageParts
    <3>2. Flow(p, {d}, {})
      BY <1>1, <1>3, <2>3, <3>1, AddsOne, FlowTick DEF RunEnd, Inv
    <3>. HIDE DEF d
    <3>3. Calm({d}) /\ Eases({d})
      BY <2>2, <3>1 DEF Calm, Eases
    <3>4. KeyInv' /\ SendsLast' /\ TextsOrdered'
      BY <3>2, <3>3, EasedKeys, CalmTexts DEF Inv, Order
    <3>5. ByesOnce'
      <4>1. \A q \in Parties : \A m \in Arriving(q)' : m \in Arriving(q) \/ (q = Peer[p] /\ m = d)
        BY <3>2 DEF Flow
      <4>2. ASSUME NEW q \in Parties, NEW m \in Arriving(q)', m.type = "bye"
            PROVE  m.text = 0 /\ m.key \in held'[Peer[q]] /\ m.key # key'[Peer[q]]
        <5>1. CASE m \in Arriving(q)
          BY <1>1, <2>1, <4>2, <5>1, PeerFacts, NoKeyHeld DEF Inv, Order, ByesOnce
        <5>2. CASE q = Peer[p] /\ m = d
          BY <1>1, <2>1, <3>1, <5>2, PeerFacts, NoKeyHeld DEF Inv
        <5> QED BY <4>1, <5>1, <5>2
      <4>3. ASSUME NEW q \in Parties, NEW x \in Arriving(q)', NEW y \in Arriving(q)',
                   Ahead(q, x, y)', x.type = "bye", y.type = "bye"
            PROVE  x.key # y.key
        <5>1. x \in Arriving(q) /\ (Ahead(q, x, y) \/ (q = Peer[p] /\ y = d))
          BY <3>2, <4>3 DEF Flow
        <5>2. CASE q = Peer[p] /\ y = d
          BY <3>1, <4>3, <5>1, <5>2, PeerFacts DEF Inv, Order, ByesOnce
        <5>3. CASE Ahead(q, x, y)
          <6>1. y \in Arriving(q)
            BY <5>3, ArrivingLine, BeforeOnLine DEF Ahead, Inv, Types
          <6> QED BY <4>3, <5>1, <5>3, <6>1 DEF Inv, Order, ByesOnce
        <5> QED BY <5>1, <5>2, <5>3
      <4> QED BY <4>2, <4>3 DEF ByesOnce
    <3> QED BY <1>2, <1>3, <2>3, <3>2, <3>4, <3>5 DEF Inv, Order, d
  <2>4. CASE msgstate[p] # "ENCRYPTED"
    <3>1. Flow(p, {}, {})
      BY <1>1, <1>3, <2>4, AddsNone, FlowTick DEF RunEnd, Inv
    <3> QED BY <1>2, <2>2, <2>4, <3>1, EasedOrder DEF Inv
  <2> QED BY <2>3, <2>4
<1>4. CASE ptr[p] = "MASTER"
  <2>1. UNCHANGED <<net, auth, msgstate, key>> /\ commit' = [commit EXCEPT ![p] = NONE]
    BY <1>4 DEF RunEnd
  <2>2. Flow(p, {}, {})
    BY <1>1, <2>1, AddsNone, FlowTick DEF Inv
  <2>3. Calm({}) /\ Eases({})
    BY <1>1, <1>2, <2>1 DEF Calm, Eases, Inv, Types, TypeOK
  <2> QED BY <1>2, <1>4, <2>2, <2>3, EasedOrder DEF Inv
<1> QED BY <1>3, <1>4 DEF RunEnd

LEMMA ExchangeAdds ==
    ASSUME Inv, NEW p \in Parties, NEW m \in Arriving(p),
           ReceiveQuery(p, m) \/ ReceiveCommit(p, m) \/ ReceiveKey(p, m) \/ ReceiveClosing(p, m)
    PROVE  \E S : Adds(p, S) /\ \A n \in S : n.type \in {"dhcommit", "dhkey", "revealsig", "sig"}
<1>1. CASE ReceiveQuery(p, m)
  <2>. DEFINE n == Msg("dhcommit", <<NewHalf(p), NONE>>, 0)
  <2>1. NewHalf(p) \in Half
    BY <1>1, NewHalfMade DEF ReceiveQuery, Inv
  <2>2. n \in Message /\ n.type = "dhcommit" /\ Inject(p, n)
    BY <1>1, <2>1, MessageMade, MessageParts, BoundFacts DEF ReceiveQuery
  <2>. HIDE DEF n
  <2>3. Adds(p, {n})
    BY <2>2, AddsOne
  <2> QED BY <2>2, <2>3
<1>2. CASE ReceiveCommit(p, m)
  <2>1. PICK h \in Half : Inject(p, Msg("dhkey", <<NONE, h>>, 0))
    BY <1>2, CommitAnswer DEF Inv
  <2>. DEFINE n == Msg("dhkey", <<NONE, h>>, 0)
  <2>2. n \in Message /\ n.type = "dhkey"
    BY MessageMade, MessageParts, BoundFacts
  <2>. HIDE DEF n
  <2>3. Adds(p, {n})
    BY <2>1, <2>2, AddsOne DEF n
  <2> QED BY <2>2, <2>3
<1>3. CASE ReceiveKey(p, m)
  <2>1. PICK S : Adds(p, S) /\ \A n \in S : n.type = "revealsig"
    BY <1>3, KeyAnswer DEF Inv
  <2> QED BY <2>1
<1>4. CASE ReceiveClosing(p, m)
  <2>1. PICK S : Adds(p, S) /\ \A n \in S : n.type = "sig"
    BY <1>4, ClosingAnswer DEF Inv
  <2> QED BY <2>1
<1> QED BY <1>1, <1>2, <1>3, <1>4

LEMMA OtherAdds ==
    ASSUME NEW p \in Parties, NEW m,
           \/ ReceiveError(p, m)
           \/ ReceivePlain(p, m)
           \/ ReceiveBadClosing(p, m)
           \/ ReceiveUnknown(p, m)
           \/ ReceiveBye(p, m)
           \/ ReceiveUnreadable(p, m)
    PROVE  \E S : Adds(p, S) /\ \A n \in S : n.type \in {"query", "error"}
<1>. DEFINE a == Msg("query", NOKEY, 0)
            b == Msg("error", NOKEY, 0)
<1>1. a \in Message /\ b \in Message /\ a.type = "query" /\ b.type = "error"
  BY MessageMade, MessageParts, BoundFacts DEF NOKEY
<1>2. UNCHANGED net \/ Inject(p, a) \/ Inject(p, b)
  BY DEF ReceiveError, ReceivePlain, ReceiveBadClosing, ReceiveUnknown, ReceiveBye,
         ReceiveUnreadable
<1>. HIDE DEF a, b
<1>3. CASE UNCHANGED net
  BY <1>3, AddsNone
<1>4. CASE Inject(p, a)
  <2>1. Adds(p, {a})
    BY <1>1, <1>4, AddsOne
  <2> QED BY <1>1, <2>1
<1>5. CASE Inject(p, b)
  <2>1. Adds(p, {b})
    BY <1>1, <1>5, AddsOne
  <2> QED BY <1>1, <2>1
<1> QED BY <1>2, <1>3, <1>4, <1>5

LEMMA ExchangeStep ==
    ASSUME Inv, Types', NEW p \in Parties, NEW m, m = Head(ticks[p]).msg, NextTick(p, "recv"),
           ReceiveQuery(p, m) \/ ReceiveCommit(p, m) \/ ReceiveKey(p, m) \/ ReceiveClosing(p, m)
    PROVE  /\ Inv' /\ \A q \in Parties : Texts(q)' = Texts(q)
           /\ \E S : Flow(p, S, {m}) /\ \A n \in S : n.type \notin {"data", "bye"}
           /\ m \in Arriving(p) /\ m.type \notin {"data", "bye"}
<1>1. m \in Arriving(p) /\ m.type \notin {"data", "bye"}
  BY ReceivedArrives DEF ReceiveQuery, ReceiveCommit, ReceiveKey, ReceiveClosing, Inv
<1>2. PICK S : Adds(p, S) /\ \A n \in S : n.type \in {"dhcommit", "dhkey", "revealsig", "sig"}
  BY <1>1, ExchangeAdds
<1>3. Flow(p, S, {m})
  BY <1>2, ReceiveFlow DEF Inv
<1>4. Settled /\ \A q \in Parties : Texts(q)' = Texts(q)
  BY SettledTick DEF Inv, Order
<1>5. KeyInv'
  BY QueryKeys, CommitKeys, KeyKeys, ClosingKeys DEF Inv
<1>6. CASE ReceiveQuery(p, m) \/ ReceiveCommit(p, m) \/ ReceiveKey(p, m)
  <2>1. UNCHANGED <<msgstate, key, held, heard, said>>
    BY <1>6 DEF ReceiveQuery, ReceiveCommit, ReceiveKey, NextTick
  <2>2. Calm(S) /\ Onward(S)
    BY <1>2, <1>4, <2>1 DEF Calm, Onward
  <2> QED BY <1>1, <1>2, <1>3, <1>4, <1>5, <2>2, CalmTexts, OnwardByes DEF Inv, Order
<1>7. CASE ReceiveClosing(p, m)
  <2>1. UNCHANGED <<heard, said>>
    BY <1>7 DEF ReceiveClosing, NextTick
  <2>2. /\ msgstate'[p] = "ENCRYPTED" /\ key'[p] = m.key /\ held[p] \subseteq held'[p]
        /\ \A q \in Parties \ {p} : /\ msgstate'[q] = msgstate[q] /\ key'[q] = key[q]
                                    /\ held'[q] = held[q]
    BY <1>7 DEF ReceiveClosing, Inv, Types, TypeOK
  <2>3. m.key \notin held[p]
    BY <1>1, <1>7, ClosingKey DEF Inv
  <2>4. Calm(S)
    BY <1>2, <1>4, <2>1, <2>2 DEF Calm
  <2>5. Onward(S)
    BY <1>2, <2>2, <2>3 DEF Onward
  <2> QED BY <1>1, <1>2, <1>3, <1>4, <1>5, <2>4, <2>5, CalmTexts, OnwardByes DEF Inv, Order
<1> QED BY <1>6, <1>7

LEMMA OtherStep ==
    ASSUME Inv, Types', NEW p \in Parties, NEW m, m = Head(ticks[p]).msg, NextTick(p, "recv"),
           \/ ReceiveError(p, m)
           \/ ReceivePlain(p, m)
           \/ ReceiveBadClosing(p, m)
           \/ ReceiveUnknown(p, m)
           \/ ReceiveBye(p, m)
           \/ ReceiveUnreadable(p, m)
    PROVE  /\ Inv' /\ \A q \in Parties : Texts(q)' = Texts(q)
           /\ \E S : Flow(p, S, {m}) /\ \A n \in S : n.type \notin {"data", "bye"}
           /\ m \in Arriving(p) /\ \A x \in Arriving(p)' : Ahead(p, m, x)
<1>1. PICK S : Adds(p, S) /\ \A n \in S : n.type \in {"query", "error"}
  BY OtherAdds
<1>2. Flow(p, S, {m}) /\ m \in Arriving(p) /\ \A x \in Arriving(p)' : Ahead(p, m, x)
  BY <1>1, ReceiveFlow DEF Inv
<1>3. Settled /\ \A q \in Parties : Texts(q)' = Texts(q)
  BY SettledTick DEF Inv, Order
<1>4. CASE ReceiveBye(p, m)
  <2>1. UNCHANGED <<commit, fresh, held, heard, said>>
    BY <1>4 DEF ReceiveBye, NextTick
  <2>2. /\ msgstate'[p] = "FINISHED" /\ key'[p] = NOKEY /\ auth'[p] = Idle
        /\ \A q \in Parties \ {p} : /\ msgstate'[q] = msgstate[q] /\ key'[q] = key[q]
                                    /\ auth'[q] = auth[q]
    BY <1>4 DEF ReceiveBye, Inv, Types, TypeOK
  <2>3. Eases(S) /\ Calm(S)
    BY <1>1, <1>3, <2>1, <2>2 DEF Eases, Calm
  <2> QED BY <1>1, <1>2, <1>3, <2>3, EasedOrder DEF Inv
<1>5. CASE UNCHANGED <<commit, auth, msgstate, key, fresh, held, said, heard>>
  BY <1>1, <1>2, <1>3, <1>5, PlainStep DEF Inv
<1> QED BY <1>4, <1>5 DEF ReceiveError, ReceivePlain, ReceiveBadClosing, ReceiveUnknown,
             ReceiveUnreadable, NextTick, contextVars

LEMMA DataStep ==
    ASSUME Inv, Types', NEW p \in Parties, NEW m, m = Head(ticks[p]).msg, NextTick(p, "recv"),
           ReceiveData(p, m)
    PROVE  /\ Inv' /\ \A q \in Parties : Texts(q)' = Texts(q)
           /\ Flow(p, {}, {m})
           /\ m \in Arriving(p) /\ \A x \in Arriving(p)' : Ahead(p, m, x)
<1>1. /\ Flow(p, {}, {m}) /\ m \in Arriving(p)
      /\ \A x \in Arriving(p)' : x \in Arriving(p) /\ Ahead(p, m, x)
  BY AddsNone, ReceiveFlow DEF ReceiveData, Inv
<1>2. Settled /\ \A q \in Parties : Texts(q)' = Texts(q)
  BY SettledTick DEF Inv, Order
<1>3. UNCHANGED <<commit, auth, msgstate, key, fresh, held, said>> /\ m.type = "data"
  BY DEF ReceiveData, NextTick, contextVars
<1>4. /\ heard[p] \in Seq(1..MaxEvents) /\ heard'[p] = Append(heard[p], m.text)
      /\ \A q \in Parties \ {p} : heard'[q] = heard[q]
  BY DEF ReceiveData, Inv, Types, TypeOK
<1>5. Eases({}) /\ Onward({})
  BY <1>3 DEF Eases, Onward
<1>6. KeyInv' /\ ByesOnce'
  BY <1>1, <1>5, EasedKeys, OnwardByes DEF Inv, Order
<1>7. SendsLast'
  <2> SUFFICES ASSUME NEW q \in Parties
               PROVE  /\ Orderly(ticks'[q])
                      /\ \A k \in Texts(q)' : k <= said'[q] /\ msgstate'[q] # "PLAINTEXT"
    BY DEF SendsLast, Orderly
  <2> QED BY <1>2, <1>3 DEF Inv, Order, SendsLast, Settled
<1>8. TextsOrdered'
  <2>1. \A q \in Parties : Arriving(q)' \subseteq Arriving(q)
    BY <1>1 DEF Flow
  <2>2. ASSUME NEW q \in Parties, NEW j \in DOMAIN heard'[q]
        PROVE  /\ heard'[q][j] <= said'[Peer[q]]
               /\ \A i \in Texts(Peer[q])' : heard'[q][j] < i
               /\ \A x \in Arriving(q)' : x.type = "data" => heard'[q][j] < x.text
    <3>1. CASE heard'[q][j] = m.text /\ q = p
      BY <1>1, <1>2, <1>3, <3>1, PeerFacts DEF Inv, Order, TextsOrdered
    <3>2. CASE j \in DOMAIN heard[q] /\ heard'[q][j] = heard[q][j]
      BY <1>2, <1>3, <2>1, <3>2, PeerFacts DEF Inv, Order, TextsOrdered
    <3>3. q = p => j = Len(heard[p]) + 1 \/ j \in DOMAIN heard[p]
      BY <1>4, <2>2
    <3>4. q = p /\ j = Len(heard[p]) + 1 => heard'[q][j] = m.text
      BY <1>4
    <3>5. q = p /\ j \in DOMAIN heard[p] => heard'[q][j] = heard[q][j]
      BY <1>4
    <3> QED BY <1>4, <2>2, <3>1, <3>2, <3>3, <3>4, <3>5
  <2>3. ASSUME NEW q \in Parties, NEW x \in Arriving(q)', x.type = "data"
        PROVE  0 < x.text /\ x.text <= said'[Peer[q]] /\ \A i \in Texts(Peer[q])' : x.text < i
    BY <1>2, <1>3, <2>1, <2>3, PeerFacts DEF Inv, Order, TextsOrdered
  <2>4. ASSUME NEW q \in Parties, NEW x \in Arriving(q)', NEW y \in Arriving(q)',
               Ahead(q, x, y)', x.type = "data", y.type = "data"
        PROVE  x.text < y.text
    BY <1>1, <2>1, <2>4 DEF Inv, Order, TextsOrdered, Flow
  <2> QED BY <2>2, <2>3, <2>4 DEF TextsOrdered
<1> QED BY <1>1, <1>2, <1>6, <1>7, <1>8 DEF Inv, Order

-----------------------------------------------------------------------------
(* The invariance, and the types. *)

LEMMA InitInv == Init => Inv
<1>. SUFFICES ASSUME Init PROVE Inv
  OBVIOUS
<1>1. \A p \in Parties : /\ ticks[p] = <<>> /\ net[p] = <<>> /\ held[p] = {} /\ heard[p] = <<>>
                         /\ auth[p].state = "NONE" /\ commit[p] = NONE
                         /\ msgstate[p] = "PLAINTEXT"
  BY DEF Init, Idle
<1>2. ASSUME NEW p \in Parties
      PROVE  Arriving(p) = {} /\ Texts(p) = {} /\ Orderly(ticks[p])
  <2>1. DOMAIN ticks[p] = {} /\ DOMAIN net[p] = {}
    BY <1>1
  <2> QED BY <2>1 DEF Arriving, Texts, Orderly
<1>3. KeyInv
  BY <1>1, <1>2 DEF KeyInv, KeysFit, Made, Unused, Shared
<1>4. Order
  BY <1>1, <1>2 DEF Order, SendsLast, TextsOrdered, ByesOnce
<1> QED BY <1>3, <1>4, InitTypes DEF Inv

LEMMA RecvStep ==
    ASSUME Inv, Types', NEW p \in Parties, RunRecv(p)
    PROVE  Inv'
<1>. DEFINE m == Head(ticks[p]).msg
<1>1. NextTick(p, "recv") /\ Receive(p, m)
  BY DEF RunRecv
<1>. HIDE DEF m
<1>2. CASE ReceiveQuery(p, m) \/ ReceiveCommit(p, m) \/ ReceiveKey(p, m) \/ ReceiveClosing(p, m)
  BY <1>1, <1>2, ExchangeStep DEF m
<1>3. CASE ReceiveData(p, m)
  BY <1>1, <1>3, DataStep DEF m
<1>4. CASE \/ ReceiveError(p, m)
           \/ ReceivePlain(p, m)
           \/ ReceiveBadClosing(p, m)
           \/ ReceiveUnknown(p, m)
           \/ ReceiveBye(p, m)
           \/ ReceiveUnreadable(p, m)
  BY <1>1, <1>4, OtherStep DEF m
<1> QED BY <1>1, <1>2, <1>3, <1>4 DEF Receive

LEMMA NextInv == Inv /\ [Next]_vars => Inv'
<1>. SUFFICES ASSUME Inv, [Next]_vars PROVE Inv'
  OBVIOUS
<1>1. ASSUME NEW p \in Parties,
             \/ Start(p) \/ Send(p) \/ End(p)
             \/ Deliver(p) \/ Lose(p) \/ Restart(p)
             \/ RunTick(p) \/ Poll(p)
      PROVE  Inv'
  <2>1. \A m \in Arriving(p) : m.type = "data" => m.text # 0
    BY DEF Inv, Order, TextsOrdered
  <2>2. Types'
    BY <1>1, <2>1, StepTypes DEF Inv, KeyInv
  <2> QED BY <1>1, <2>2, StartStep, SendStep, DeliverStep, LoseStep, RestartStep, PollStep,
             RunStartStep, RunSendStep, RunEndStep, RecvStep, CorruptStep DEF RunTick
<1>2. CASE UNCHANGED vars
  <2>. USE <1>2 DEF vars, contextVars
  <2>1. Types'
    BY DEF Inv, Types, TypeOK, SaidCounted
  <2>2. KeyInv'
    BY DEF Inv, KeyInv, KeysFit, Made, IsMade, Unused, NotHeld, Shared, Fits, Arriving, Ahead
  <2>3. Order'
    BY DEF Inv, Order, SendsLast, TextsOrdered, ByesOnce, Texts, Arriving, Ahead, Orderly
  <2> QED BY <2>1, <2>2, <2>3 DEF Inv
<1> QED BY <1>1, <1>2 DEF Next

\* The invariant the other theorems rest on holds in every state.
THEOREM InvHolds == Spec => []Inv
<1>1. Inv /\ [Next]_vars => Inv'
  BY NextInv
<1> QED BY <1>1, InitInv, PTL DEF Spec

\* Every variable keeps its type: no key, message or tick is ever other than
\* those the code makes, and no count passes its bound.
THEOREM TypeCorrect == Spec => []TypeOK
<1>1. Inv => TypeOK
  BY DEF Inv, Types
<1> QED BY <1>1, InvHolds, PTL

-----------------------------------------------------------------------------
(* The two ends implement the channel. *)

Item(m) == [key |-> m.key, text |-> m.text]

ChannelNext == [Channel!Next]_(Channel!vars)

LEMMA SealedIs ==
    \A p \in Parties :
      /\ \A i : i \in Sealed(p) <=> \E m \in Arriving(p) : m.type \in {"data", "bye"} /\ i = Item(m)
      /\ \A i : i \in Sealed(p)' <=>
                \E m \in Arriving(p)' : m.type \in {"data", "bye"} /\ i = Item(m)
BY DEF Sealed, Item

\* What is not encrypted does not show.
LEMMA SealedSame ==
    ASSUME NEW p \in Parties, NEW S, NEW R, Flow(p, S, R),
           \A m \in S \cup R : m.type \notin {"data", "bye"},
           NEW q \in Parties
    PROVE  Sealed(q)' = Sealed(q)
<1>1. \A m : m.type \in {"data", "bye"} => (m \in Arriving(q)' <=> m \in Arriving(q))
  BY DEF Flow
<1> QED BY <1>1, SealedIs

\* A message that goes takes its item with it.
LEMMA SealedGoes ==
    ASSUME Inv, NEW p \in Parties, NEW S, NEW m, Flow(p, S, {m}),
           \A n \in S : n.type \notin {"data", "bye"},
           m \in Arriving(p), m.type \in {"data", "bye"},
           \A x \in Arriving(p)' : Ahead(p, x, m) \/ Ahead(p, m, x)
    PROVE  /\ Item(m) \in Sealed(p) /\ Sealed(p)' = Sealed(p) \ {Item(m)}
           /\ \A q \in Parties \ {p} : Sealed(q)' = Sealed(q)
<1>1. \A x \in Arriving(p)' : x \in Arriving(p)
  BY PeerFacts DEF Flow
<1>2. \A x \in Arriving(p) : x \in Arriving(p)' \/ x = m
  BY DEF Flow
<1>3. ASSUME NEW x \in Arriving(p)', x.type \in {"data", "bye"}
      PROVE  Item(x) # Item(m)
  <2>1. x \in Arriving(p) /\ (Ahead(p, x, m) \/ Ahead(p, m, x))
    BY <1>1
  <2>2. x.text \in Nat /\ m.text \in Nat
    BY <2>1, ArrivingTyped, MessageFields, BoundFacts DEF Inv, Types
  <2>3. x.text # m.text \/ x.key # m.key
    BY <1>3, <2>1, <2>2 DEF Inv, Order, TextsOrdered, ByesOnce
  <2> QED BY <2>3 DEF Item
<1>4. Item(m) \in Sealed(p)
  BY SealedIs
<1>5. \A i : i \in Sealed(p)' <=> i \in Sealed(p) /\ i # Item(m)
  BY <1>1, <1>2, <1>3, SealedIs
<1>6. ASSUME NEW q \in Parties \ {p} PROVE Sealed(q)' = Sealed(q)
  <2>1. \A n : n.type \in {"data", "bye"} => (n \in Arriving(q)' <=> n \in Arriving(q))
    BY DEF Flow
  <2>2. \A i : i \in Sealed(q)' <=> i \in Sealed(q)
    BY <2>1, SealedIs
  <2> QED BY <2>2
<1> QED BY <1>4, <1>5, <1>6

\* A message that leaves takes its item to the other end.
LEMMA SealedComes ==
    ASSUME NEW p \in Parties, NEW m, Flow(p, {m}, {}), m.type \in {"data", "bye"}
    PROVE  /\ Sealed(Peer[p])' = Sealed(Peer[p]) \cup {Item(m)}
           /\ \A q \in Parties \ {Peer[p]} : Sealed(q)' = Sealed(q)
<1>1. \A n : n \in Arriving(Peer[p])' <=> n \in Arriving(Peer[p]) \/ n = m
  BY PeerFacts DEF Flow
<1>2. \A i : i \in Sealed(Peer[p])' <=> i \in Sealed(Peer[p]) \/ i = Item(m)
  BY <1>1, PeerFacts, SealedIs
<1>3. ASSUME NEW q \in Parties \ {Peer[p]} PROVE Sealed(q)' = Sealed(q)
  <2>1. Arriving(q)' = Arriving(q)
    BY DEF Flow
  <2>2. \A i : i \in Sealed(q)' <=> i \in Sealed(q)
    BY <2>1, SealedIs
  <2> QED BY <2>2
<1> QED BY <1>2, <1>3

\* A step that shows nothing of itself.
LEMMA Stutters ==
    ASSUME UNCHANGED <<msgstate, key, held, said, heard>>,
           \A q \in Parties : Texts(q)' = Texts(q) /\ Sealed(q)' = Sealed(q)
    PROVE  ChannelNext
BY DEF ChannelNext, Channel!vars

LEMMA SayImplemented ==
    ASSUME Inv, Inv', NEW p \in Parties, Send(p)
    PROVE  ChannelNext
<1>1. /\ Texts(p)' = Texts(p) \cup {said'[p]}
      /\ \A q \in Parties : q # p => Texts(q)' = Texts(q)
      /\ \A q \in Parties : Sealed(q)' = Sealed(q)
  BY SendStep, SealedSame DEF Inv
<1>2. UNCHANGED <<msgstate, key, held, heard>> /\ msgstate[p] = "ENCRYPTED"
      /\ said' = [said EXCEPT ![p] = @ + 1]
  BY DEF Send, Enqueue, contextVars, IsEncrypted
<1>3. Channel!Say(p)
  <2>1. [q \in Parties |-> Texts(q)]'
          = [[q \in Parties |-> Texts(q)] EXCEPT ![p] = @ \cup {said'[p]}]
    BY <1>1
  <2>2. [q \in Parties |-> Sealed(q)]' = [q \in Parties |-> Sealed(q)]
    BY <1>1
  <2> QED BY <1>2, <2>1, <2>2 DEF Channel!Say
<1> QED BY <1>3 DEF ChannelNext, Channel!Next, Channel!Step

LEMMA SendImplemented ==
    ASSUME Inv, Inv', NEW p \in Parties, RunSend(p)
    PROVE  ChannelNext
<1>. DEFINE n == Head(ticks[p]).text
            d == Msg("data", key[p], n)
<1>1. /\ n \in Texts(p) /\ Texts(p)' = Texts(p) \ {n} /\ \A k \in Texts(p)' : n < k
      /\ \A q \in Parties \ {p} : Texts(q)' = Texts(q)
      /\ \/ msgstate[p] = "ENCRYPTED" /\ Flow(p, {d}, {})
         \/ /\ msgstate[p] = "FINISHED"
            /\ \E S : Flow(p, S, {}) /\ \A m \in S : m.type = "plain"
  BY RunSendStep DEF Inv
<1>2. UNCHANGED <<msgstate, key, held, said, heard>>
  BY DEF RunSend, NextTick, contextVars
<1>3. d.type = "data" /\ Item(d) = [key |-> key[p], text |-> n]
  BY MessageParts DEF Item
<1>. HIDE DEF n, d
<1>4. \A k \in Texts(p) : n <= k
  <2>1. n \in Nat
    BY <1>1, TextsTyped, BoundFacts DEF Inv
  <2> QED BY <1>1, <2>1, TextsTyped, BoundFacts DEF Inv
<1>5. [q \in Parties |-> Texts(q)]' = [[q \in Parties |-> Texts(q)] EXCEPT ![p] = @ \ {n}]
  BY <1>1
<1>6. [q \in Parties |-> Texts(q)][p] = Texts(p)
  OBVIOUS
<1>7. CASE msgstate[p] = "ENCRYPTED" /\ Flow(p, {d}, {})
  <2>1. /\ Sealed(Peer[p])' = Sealed(Peer[p]) \cup {[key |-> key[p], text |-> n]}
        /\ \A q \in Parties \ {Peer[p]} : Sealed(q)' = Sealed(q)
    BY <1>3, <1>7, SealedComes
  <2>2. [q \in Parties |-> Sealed(q)]'
          = [[q \in Parties |-> Sealed(q)]
               EXCEPT ![Peer[p]] = @ \cup {[key |-> key[p], text |-> n]}]
    BY <2>1
  <2>3. Channel!Send(p, n)
    BY <1>1, <1>2, <1>4, <1>5, <1>6, <1>7, <2>2 DEF Channel!Send
  <2> QED BY <1>1, <1>6, <2>3 DEF ChannelNext, Channel!Next, Channel!Step
<1>8. CASE /\ msgstate[p] = "FINISHED"
           /\ \E S : Flow(p, S, {}) /\ \A m \in S : m.type = "plain"
  <2>1. \A q \in Parties : Sealed(q)' = Sealed(q)
    BY <1>8, SealedSame
  <2>2. [q \in Parties |-> Sealed(q)]' = [q \in Parties |-> Sealed(q)]
    BY <2>1
  <2>3. Channel!Send(p, n)
    BY <1>1, <1>2, <1>4, <1>5, <1>6, <1>8, <2>2 DEF Channel!Send
  <2> QED BY <1>1, <1>6, <2>3 DEF ChannelNext, Channel!Next, Channel!Step
<1> QED BY <1>1, <1>7, <1>8

LEMMA EndImplemented ==
    ASSUME Inv, Inv', NEW p \in Parties, RunEnd(p)
    PROVE  ChannelNext
<1>. DEFINE d == Msg("bye", key[p], 0)
<1>1. /\ \A q \in Parties : Texts(q)' = Texts(q)
      /\ IF ptr[p] = "CHILD" /\ msgstate[p] = "ENCRYPTED"
         THEN Flow(p, {d}, {}) ELSE Flow(p, {}, {})
  BY RunEndStep DEF Inv
<1>2. UNCHANGED <<held, said, heard>>
  BY DEF RunEnd, NextTick
<1>3. d.type = "bye" /\ Item(d) = [key |-> key[p], text |-> 0]
  BY MessageParts DEF Item
<1>. HIDE DEF d
<1>4. [q \in Parties |-> Texts(q)]' = [q \in Parties |-> Texts(q)]
  BY <1>1
<1>5. CASE ptr[p] = "CHILD"
  <2>1. /\ msgstate' = [msgstate EXCEPT ![p] = "PLAINTEXT"]
        /\ key' = [key EXCEPT ![p] = NOKEY]
    BY <1>5 DEF RunEnd
  <2>2. CASE msgstate[p] = "ENCRYPTED"
    <3>1. /\ Sealed(Peer[p])' = Sealed(Peer[p]) \cup {[key |-> key[p], text |-> 0]}
          /\ \A q \in Parties \ {Peer[p]} : Sealed(q)' = Sealed(q)
      BY <1>1, <1>3, <1>5, <2>2, SealedComes
    <3>2. [q \in Parties |-> Sealed(q)]'
           = [[q \in Parties |-> Sealed(q)]
                EXCEPT ![Peer[p]] = @ \cup {[key |-> key[p], text |-> 0]}]
      BY <3>1
    <3>3. Channel!End(p)
      BY <1>2, <1>4, <2>1, <2>2, <3>2 DEF Channel!End, Channel!BYE
    <3> QED BY <3>3 DEF ChannelNext, Channel!Next, Channel!Step
  <2>3. CASE msgstate[p] # "ENCRYPTED"
    <3>1. \A q \in Parties : Sealed(q)' = Sealed(q)
      BY <1>1, <2>3, SealedSame
    <3>2. [q \in Parties |-> Sealed(q)]' = [q \in Parties |-> Sealed(q)]
      BY <3>1
    <3>3. Channel!End(p)
      BY <1>2, <1>4, <2>1, <2>3, <3>2 DEF Channel!End
    <3> QED BY <3>3 DEF ChannelNext, Channel!Next, Channel!Step
  <2> QED BY <2>2, <2>3
<1>6. CASE ptr[p] = "MASTER"
  <2>1. UNCHANGED <<msgstate, key>>
    BY <1>6 DEF RunEnd
  <2>2. \A q \in Parties : Sealed(q)' = Sealed(q)
    BY <1>1, <1>6, SealedSame
  <2> QED BY <1>1, <1>2, <2>1, <2>2, Stutters
<1> QED BY <1>5, <1>6 DEF RunEnd

\* A message that goes and does nothing else, or is nothing the channel knows.
LEMMA LossImplemented ==
    ASSUME Inv, NEW p \in Parties, NEW S, NEW m, Flow(p, S, {m}),
           \A n \in S : n.type \notin {"data", "bye"},
           m \in Arriving(p),
           \A x \in Arriving(p)' : Ahead(p, x, m) \/ Ahead(p, m, x),
           UNCHANGED <<msgstate, key, held, said, heard>>,
           \A q \in Parties : Texts(q)' = Texts(q)
    PROVE  ChannelNext
<1>1. CASE m.type \in {"data", "bye"}
  <2>1. /\ Item(m) \in Sealed(p) /\ Sealed(p)' = Sealed(p) \ {Item(m)}
        /\ \A q \in Parties \ {p} : Sealed(q)' = Sealed(q)
    BY <1>1, SealedGoes
  <2>2. [q \in Parties |-> Sealed(q)]' = [[q \in Parties |-> Sealed(q)] EXCEPT ![p] = @ \ {Item(m)}]
    BY <2>1
  <2>3. [q \in Parties |-> Texts(q)]' = [q \in Parties |-> Texts(q)]
    OBVIOUS
  <2>4. Item(m) \in [q \in Parties |-> Sealed(q)][p]
    BY <2>1
  <2>5. Channel!Lose(p, Item(m))
    BY <2>2, <2>3, <2>4 DEF Channel!Lose
  <2> QED BY <2>4, <2>5 DEF ChannelNext, Channel!Next, Channel!Step
<1>2. CASE m.type \notin {"data", "bye"}
  <2>1. \A q \in Parties : Sealed(q)' = Sealed(q)
    BY <1>2, SealedSame
  <2> QED BY <2>1, Stutters
<1> QED BY <1>1, <1>2

LEMMA HearImplemented ==
    ASSUME Inv, Inv', NEW p \in Parties, NEW m, m = Head(ticks[p]).msg, NextTick(p, "recv"),
           ReceiveData(p, m)
    PROVE  ChannelNext
<1>1. /\ \A q \in Parties : Texts(q)' = Texts(q)
      /\ Flow(p, {}, {m})
      /\ m \in Arriving(p) /\ \A x \in Arriving(p)' : Ahead(p, m, x)
      /\ m.type = "data" /\ key[p] = m.key
  BY DataStep DEF Inv, ReceiveData
<1>2. /\ Item(m) \in Sealed(p) /\ Sealed(p)' = Sealed(p) \ {Item(m)}
      /\ \A q \in Parties \ {p} : Sealed(q)' = Sealed(q)
  BY <1>1, SealedGoes
<1>3. [q \in Parties |-> Sealed(q)]' = [[q \in Parties |-> Sealed(q)] EXCEPT ![p] = @ \ {Item(m)}]
  BY <1>2
<1>4. [q \in Parties |-> Texts(q)]' = [q \in Parties |-> Texts(q)]
  BY <1>1
<1>5. Item(m) \in [q \in Parties |-> Sealed(q)][p] /\ Item(m).text = m.text /\ Item(m).key = m.key
  BY <1>2 DEF Item
<1>6. m.text # 0 /\ \A j \in DOMAIN heard[p] : heard[p][j] < m.text
  BY <1>1 DEF Inv, Order, TextsOrdered
<1>7. UNCHANGED <<msgstate, key, held, said>> /\ heard' = [heard EXCEPT ![p] = Append(@, m.text)]
  BY DEF ReceiveData, NextTick, contextVars
<1>8. Channel!Hear(p, Item(m))
  BY <1>1, <1>3, <1>4, <1>5, <1>6, <1>7 DEF Channel!Hear, Channel!BYE
<1> QED BY <1>5, <1>8 DEF ChannelNext, Channel!Next, Channel!Step

LEMMA HearByeImplemented ==
    ASSUME Inv, Inv', NEW p \in Parties, NEW m, m = Head(ticks[p]).msg, NextTick(p, "recv"),
           ReceiveBye(p, m)
    PROVE  ChannelNext
<1>1. PICK S : Flow(p, S, {m}) /\ \A n \in S : n.type \notin {"data", "bye"}
  BY OtherStep DEF Inv
<1>2. /\ \A q \in Parties : Texts(q)' = Texts(q)
      /\ m \in Arriving(p) /\ \A x \in Arriving(p)' : Ahead(p, m, x)
      /\ m.type = "bye" /\ key[p] = m.key
  BY OtherStep DEF Inv, ReceiveBye
<1>3. /\ Item(m) \in Sealed(p) /\ Sealed(p)' = Sealed(p) \ {Item(m)}
      /\ \A q \in Parties \ {p} : Sealed(q)' = Sealed(q)
  BY <1>1, <1>2, SealedGoes
<1>4. [q \in Parties |-> Sealed(q)]' = [[q \in Parties |-> Sealed(q)] EXCEPT ![p] = @ \ {Item(m)}]
  BY <1>3
<1>5. [q \in Parties |-> Texts(q)]' = [q \in Parties |-> Texts(q)]
  BY <1>2
<1>6. /\ Item(m) \in [q \in Parties |-> Sealed(q)][p]
      /\ Item(m).text = 0 /\ Item(m).key = m.key
  BY <1>2, <1>3 DEF Item, Inv, Order, ByesOnce
<1>7. /\ UNCHANGED <<held, said, heard>>
      /\ msgstate' = [msgstate EXCEPT ![p] = "FINISHED"] /\ key' = [key EXCEPT ![p] = NOKEY]
  BY DEF ReceiveBye, NextTick
<1>8. Channel!HearBye(p, Item(m))
  BY <1>2, <1>4, <1>5, <1>6, <1>7 DEF Channel!HearBye, Channel!BYE
<1> QED BY <1>6, <1>8 DEF ChannelNext, Channel!Next, Channel!Step

LEMMA ForgetImplemented ==
    ASSUME Inv, Inv', NEW p \in Parties, Restart(p)
    PROVE  ChannelNext
<1>1. /\ Flow(p, {}, Arriving(p)) /\ Arriving(p)' = {}
      /\ Texts(p)' = {} /\ \A q \in Parties \ {p} : Texts(q)' = Texts(q)
  BY RestartStep DEF Inv
<1>2. Sealed(p)' = {}
  BY <1>1 DEF Sealed
<1>3. ASSUME NEW q \in Parties \ {p} PROVE Sealed(q)' = Sealed(q)
  <2>1. Arriving(q)' = Arriving(q)
    BY <1>1 DEF Flow
  <2>2. \A i : i \in Sealed(q)' <=> i \in Sealed(q)
    BY <2>1, SealedIs
  <2> QED BY <2>2
<1>4. /\ [q \in Parties |-> Sealed(q)]' = [[q \in Parties |-> Sealed(q)] EXCEPT ![p] = {}]
      /\ [q \in Parties |-> Texts(q)]' = [[q \in Parties |-> Texts(q)] EXCEPT ![p] = {}]
  BY <1>1, <1>2, <1>3
<1>5. Channel!Forget(p)
  BY <1>4 DEF Channel!Forget, Restart
<1> QED BY <1>5 DEF ChannelNext, Channel!Next, Channel!Step

\* Who answered a commitment is private first, and who made it follows.
LEMMA UseImplemented ==
    ASSUME Inv, Inv', NEW p \in Parties, NEW m, m = Head(ticks[p]).msg, NextTick(p, "recv"),
           ReceiveClosing(p, m)
    PROVE  ChannelNext
<1>1. /\ \A q \in Parties : Texts(q)' = Texts(q)
      /\ \E S : Flow(p, S, {m}) /\ \A n \in S : n.type \notin {"data", "bye"}
      /\ m \in Arriving(p) /\ m.type \notin {"data", "bye"}
  BY ExchangeStep DEF Inv
<1>2. \A q \in Parties : Sealed(q)' = Sealed(q)
  BY <1>1, SealedSame
<1>3. /\ [q \in Parties |-> Sealed(q)]' = [q \in Parties |-> Sealed(q)]
      /\ [q \in Parties |-> Texts(q)]' = [q \in Parties |-> Texts(q)]
  BY <1>1, <1>2
<1>4. /\ m.key \in Key /\ m.key \notin held[p]
      /\ \/ Fits(m.key, p)
         \/ Fits(m.key, Peer[p]) /\ m.key \in held[Peer[p]]
  BY <1>1, ClosingKey DEF Inv
<1>5. Channel!Use(p, m.key)
  BY <1>3, <1>4 DEF Channel!Use, ReceiveClosing, NextTick
<1>6. Channel!Answer(p, m.key) \/ Channel!Join(p, m.key)
  BY <1>4, <1>5, PeerFacts DEF Channel!Answer, Channel!Join, Fits
<1>7. m.key \in held'[p]
  BY DEF ReceiveClosing, Inv, Types, TypeOK
<1> QED BY <1>6, <1>7 DEF ChannelNext, Channel!Next, Channel!Step

LEMMA RecvImplemented ==
    ASSUME Inv, Inv', NEW p \in Parties, RunRecv(p)
    PROVE  ChannelNext
<1>. DEFINE m == Head(ticks[p]).msg
<1>1. NextTick(p, "recv") /\ Receive(p, m)
  BY DEF RunRecv
<1>. HIDE DEF m
<1>2. CASE ReceiveQuery(p, m) \/ ReceiveCommit(p, m) \/ ReceiveKey(p, m)
  <2>1. /\ \A q \in Parties : Texts(q)' = Texts(q)
        /\ \E S : Flow(p, S, {m}) /\ \A n \in S : n.type \notin {"data", "bye"}
        /\ m.type \notin {"data", "bye"}
    BY <1>1, <1>2, ExchangeStep DEF Inv, m
  <2>2. \A q \in Parties : Sealed(q)' = Sealed(q)
    BY <2>1, SealedSame
  <2>3. UNCHANGED <<msgstate, key, held, said, heard>>
    BY <1>1, <1>2 DEF ReceiveQuery, ReceiveCommit, ReceiveKey, NextTick
  <2> QED BY <2>1, <2>2, <2>3, Stutters
<1>3. CASE \/ ReceiveError(p, m)
           \/ ReceivePlain(p, m)
           \/ ReceiveBadClosing(p, m)
           \/ ReceiveUnknown(p, m)
           \/ ReceiveUnreadable(p, m)
  <2>1. /\ \A q \in Parties : Texts(q)' = Texts(q)
        /\ \E S : Flow(p, S, {m}) /\ \A n \in S : n.type \notin {"data", "bye"}
        /\ m \in Arriving(p) /\ \A x \in Arriving(p)' : Ahead(p, m, x)
    BY <1>1, <1>3, OtherStep DEF Inv, m
  <2>2. UNCHANGED <<msgstate, key, held, said, heard>>
    BY <1>1, <1>3 DEF ReceiveError, ReceivePlain, ReceiveBadClosing, ReceiveUnknown,
                      ReceiveUnreadable, NextTick, contextVars
  <2> QED BY <2>1, <2>2, LossImplemented
<1>4. CASE ReceiveClosing(p, m)
  BY <1>1, <1>4, UseImplemented DEF m
<1>5. CASE ReceiveData(p, m)
  BY <1>1, <1>5, HearImplemented DEF m
<1>6. CASE ReceiveBye(p, m)
  BY <1>1, <1>6, HearByeImplemented DEF m
<1> QED BY <1>1, <1>2, <1>3, <1>4, <1>5, <1>6 DEF Receive

LEMMA QuietImplemented ==
    ASSUME Inv, Inv', NEW p \in Parties,
           \/ Start(p) \/ End(p) \/ Deliver(p) \/ Lose(p)
           \/ RunStart(p) \/ TickCorrupts(p) \/ Poll(p)
    PROVE  ChannelNext
<1>1. UNCHANGED <<msgstate, key, held, said, heard>>
  BY DEF Start, End, Enqueue, Deliver, Lose, RunStart, NextTick, TickCorrupts, Poll, contextVars
<1>2. CASE Lose(p)
  <2>1. /\ Flow(p, {}, {Head(net[p])}) /\ Head(net[p]) \in Arriving(p)
        /\ \A q \in Parties : Texts(q)' = Texts(q)
        /\ \A x \in Arriving(p)' : Ahead(p, x, Head(net[p])) \/ Ahead(p, Head(net[p]), x)
    BY <1>2, LoseStep DEF Inv
  <2> QED BY <1>1, <2>1, LossImplemented
<1>3. CASE Start(p) \/ End(p) \/ Deliver(p) \/ RunStart(p) \/ TickCorrupts(p) \/ Poll(p)
  <2>1. /\ \A q \in Parties : Texts(q)' = Texts(q)
        /\ \E S : Flow(p, S, {}) /\ \A n \in S : n.type = "query"
    <3>1. CASE RunStart(p)
      BY <3>1, RunStartStep DEF Inv
    <3>2. CASE Start(p) \/ End(p) \/ Deliver(p) \/ TickCorrupts(p) \/ Poll(p)
      <4>1. Flow(p, {}, {}) /\ \A q \in Parties : Texts(q)' = Texts(q)
        BY <3>2, StartStep, DeliverStep, CorruptStep, PollStep DEF Inv
      <4> QED BY <4>1
    <3> QED BY <1>3, <3>1, <3>2
  <2>2. \A q \in Parties : Sealed(q)' = Sealed(q)
    BY <2>1, SealedSame
  <2> QED BY <1>1, <2>1, <2>2, Stutters
<1> QED BY <1>2, <1>3

LEMMA ChannelInit == Init => Channel!Init
<1>. SUFFICES ASSUME Init PROVE Channel!Init
  OBVIOUS
<1>1. ASSUME NEW p \in Parties PROVE Texts(p) = {} /\ Sealed(p) = {}
  <2>1. DOMAIN ticks[p] = {} /\ DOMAIN net[p] = {}
    BY DEF Init
  <2> QED BY <2>1 DEF Arriving, Texts, Sealed
<1> QED BY <1>1 DEF Channel!Init, Init

LEMMA ChannelStep == Inv /\ Inv' /\ [Next]_vars => ChannelNext
<1>. SUFFICES ASSUME Inv, Inv', [Next]_vars PROVE ChannelNext
  OBVIOUS
<1>1. ASSUME NEW p \in Parties,
             \/ Start(p) \/ Send(p) \/ End(p)
             \/ Deliver(p) \/ Lose(p) \/ Restart(p)
             \/ RunTick(p) \/ Poll(p)
      PROVE  ChannelNext
  BY <1>1, SayImplemented, SendImplemented, EndImplemented, ForgetImplemented, RecvImplemented,
     QuietImplemented DEF RunTick
<1>2. CASE UNCHANGED vars
  <2>1. \A q \in Parties : Texts(q)' = Texts(q) /\ Sealed(q)' = Sealed(q)
    BY <1>2 DEF vars, Texts, Sealed, Arriving
  <2> QED BY <1>2, <2>1, Stutters DEF vars, contextVars
<1> QED BY <1>1, <1>2 DEF Next

\* The two ends implement the channel, whatever exchanges cross, messages get
\* lost and processes start again: a key is in use at one end only after the
\* other end had its part in it, a text is heard under the key it was sent
\* under, in order and once, and a conversation is finished by its other end.
THEOREM ChannelImplemented == Spec => IsPrivateChannel
<1>1. Inv /\ Inv' /\ [Next]_vars => [Channel!Next]_(Channel!vars)
  BY ChannelStep DEF ChannelNext
<1>2. Init => Channel!Init
  BY ChannelInit
<1> QED BY <1>1, <1>2, InvHolds, PTL DEF Spec, IsPrivateChannel, Channel!Spec

-----------------------------------------------------------------------------
(* Exchanges while nothing is lost, nobody goes and every start() is made in  *)
(* peace: one at a time, each with a party c that commits itself and a party *)
(* r that answers.                                                           *)

Has(q, types) == \E m \in Arriving(q) : m.type \in types

Only(q, types) == \A m \in Arriving(q) : m.type \in types

\* No message of these types comes to q behind one of those.
NotBehind(q, first, later) ==
    \A x, y \in Arriving(q) : Ahead(q, x, y) /\ x.type \in first => y.type \notin later

Starting(p) == \E k \in DOMAIN ticks[p] : ticks[p][k].op = "start"

\* What an earlier exchange has left on the line to p.
Stale(p, m) == m.type = "revealsig" \/ (m.type = "data" /\ m.key # key[p])

\* Text on the line to p is under the key of p.
Readable(p) == \A m \in Arriving(p) : m.type = "data" => m.key = key[p]

Committing(c) == Msg("dhcommit", <<commit[c], NONE>>, 0)

\* The last commitment of c is the last on the line, or the one that r answers.
LastCommit(r, c) ==
    IF Has(r, {"dhcommit"})
    THEN /\ Committing(c) \in Arriving(r)
         /\ \A y \in Arriving(r) : Ahead(r, Committing(c), y) => y.type # "dhcommit"
    ELSE auth[r].state # "NONE" => auth[r].key[1] = commit[c]

\* Both have the same key, or none; what r has been told is unreadable makes it
\* ask for another, and c commits itself once it has read what was left before.
Asking(r, c) ==
    /\ auth[r].state = "NONE" /\ auth[c].state = "NONE" /\ key[r] = key[c]
    /\ Only(r, {"error", "plain", "dhcommit", "data"})
    /\ Only(c, {"query", "plain", "revealsig", "data"})
    /\ Readable(r)
    /\ Has(r, {"dhcommit"}) => commit[c] # NONE /\ \A m \in Arriving(c) : ~Stale(c, m)
    /\ LastCommit(r, c)
    /\ NotBehind(r, {"dhcommit"}, {"error"})
    /\ \A x, y \in Arriving(c) : Ahead(c, x, y) /\ x.type = "query" => ~Stale(c, y)
    /\ ~Starting(c)
    /\ Starting(r) => /\ ~Has(r, {"error", "dhcommit"}) /\ ~Has(c, {"query"})
                      /\ \A m \in Arriving(c) : ~Stale(c, m)

\* r has answered a commitment, and its number is on the way.
Answered(r, c) ==
    /\ auth[r].state = "REVEALSIG" /\ auth[c].state = "NONE" /\ key[r] = key[c]
    /\ Only(r, {"plain", "dhcommit", "data"})
    /\ Only(c, {"query", "plain", "dhkey", "data"})
    /\ Readable(r) /\ Readable(c)
    /\ commit[c] # NONE
    /\ LastCommit(r, c)
    /\ Has(c, {"dhkey"})
    /\ \A m \in Arriving(c) : m.type = "dhkey" => m.key[2] = auth[r].key[2]
    /\ NotBehind(c, {"dhkey"}, {"query"})
    /\ ~Starting(r) /\ ~Starting(c)

\* c has revealed its number; r will have read every commitment by then.
Revealed(r, c) ==
    /\ auth[r].state = "REVEALSIG" /\ auth[c].state = "SIG" /\ key[r] = key[c]
    /\ auth[c].key = <<commit[c], auth[r].key[2]>>
    /\ Only(r, {"plain", "dhcommit", "revealsig", "data"})
    /\ Only(c, {"plain", "dhkey", "data"})
    /\ Readable(r) /\ Readable(c)
    /\ commit[c] # NONE
    /\ LastCommit(r, c)
    /\ Has(r, {"revealsig"})
    /\ \A m \in Arriving(r) : m.type = "revealsig" => m.key = auth[c].key
    /\ \A m \in Arriving(c) : m.type = "dhkey" => m.key[2] = auth[r].key[2]
    /\ NotBehind(r, {"revealsig"}, {"dhcommit"})
    /\ ~Starting(r) /\ ~Starting(c)

\* r uses the new key, and c will once it reads the signature.
Switched(r, c) ==
    /\ auth[r].state = "NONE" /\ auth[c].state = "SIG" /\ auth[c].key = key[r]
    /\ key[r] \in Key /\ commit[c] = key[r][1]
    /\ Only(r, {"plain", "revealsig", "data"})
    /\ Only(c, {"plain", "dhkey", "sig", "error", "data"})
    /\ Has(c, {"sig"})
    /\ \A m \in Arriving(c) : /\ m.type = "sig" => m.key = key[r]
                              /\ m.type = "dhkey" => m.key[2] = key[r][2]
    /\ NotBehind(c, {"sig"}, {"sig", "dhkey"})
    /\ NotBehind(c, {"error"}, {"sig"})
    /\ \A x, y \in Arriving(c) : Ahead(c, x, y) =>
         /\ x.type = "data" /\ y.type = "sig" => x.key = key[c]
         /\ x.type = "sig" /\ y.type = "data" => y.key = key[r]
    /\ ~Starting(r) /\ ~Starting(c)

Round(r, c) == Asking(r, c) \/ Answered(r, c) \/ Revealed(r, c) \/ Switched(r, c)

View(k) == IF k = NOKEY THEN "PLAINTEXT" ELSE "ENCRYPTED"

\* What waits in a queue begins with start(), or has none.
InTurn(t) == \A k \in DOMAIN t : t[k].op # "end" /\ (t[k].op = "start" => k = 1)

\* Nobody has ended a conversation; who takes part in an exchange has a context
\* for it; commitments are of numbers already made.
Kept == \A p \in Parties :
    /\ msgstate[p] = View(key[p])
    /\ auth[p].state # "NONE" => known[p]
    /\ \A m \in Arriving(p) : m.type = "dhcommit" => IsMade(m.key[1])
    /\ InTurn(ticks[p])

Rounds == used.intact => Kept /\ \E r \in Parties : Round(r, Peer[r])

-----------------------------------------------------------------------------
(* The steps of an exchange. *)

LEMMA TwoParties ==
    ASSUME NEW r \in Parties, NEW p \in Parties
    PROVE  p = r \/ p = Peer[r]
BY ChatAssumption

\* The line to p loses its first message m.
Took(p, m) ==
    /\ m \in Arriving(p) /\ Arriving(p)' \subseteq Arriving(p)
    /\ Arriving(p) \subseteq Arriving(p)' \cup {m}
    /\ \A x \in Arriving(p)' : Ahead(p, m, x)
    /\ \A x, y : Ahead(p, x, y)' => Ahead(p, x, y)
    /\ ~Starting(p)'

\* The messages S join the line to o.
Gained(o, S) ==
    /\ Arriving(o)' = Arriving(o) \cup S
    /\ \A x, y : Ahead(o, x, y)' => x \in Arriving(o) /\ (Ahead(o, x, y) \/ y \in S)
    /\ Starting(o)' => Starting(o)

\* The line to q loses no more than R.
Shrinks(q, R) ==
    /\ Arriving(q)' \subseteq Arriving(q)
    /\ Arriving(q) \subseteq Arriving(q)' \cup R
    /\ \A x, y : Ahead(q, x, y)' => Ahead(q, x, y)
    /\ Starting(q)' => Starting(q)

Same(q) == auth'[q] = auth[q] /\ key'[q] = key[q] /\ commit'[q] = commit[q]

\* The last commitment stays where it is when no other comes or goes.
LEMMA LastCommitStays ==
    ASSUME NEW r, NEW c, LastCommit(r, c), commit'[c] = commit[c],
           auth'[r].state # "NONE" => auth[r].state # "NONE" /\ auth'[r].key[1] = auth[r].key[1],
           \A x : x.type = "dhcommit" => (x \in Arriving(r)' <=> x \in Arriving(r)),
           \A x, y : Ahead(r, x, y)' /\ y.type = "dhcommit" => Ahead(r, x, y)
    PROVE  LastCommit(r, c)'
<1>1. Committing(c)' = Committing(c) /\ Committing(c).type = "dhcommit"
  BY MessageParts DEF Committing
<1>2. Has(r, {"dhcommit"})' <=> Has(r, {"dhcommit"})
  BY DEF Has
<1>3. CASE Has(r, {"dhcommit"})
  <2>1. Committing(c) \in Arriving(r)'
    BY <1>1, <1>3 DEF LastCommit
  <2>2. \A y \in Arriving(r)' : Ahead(r, Committing(c), y)' => y.type # "dhcommit"
    <3> SUFFICES ASSUME NEW y \in Arriving(r)', Ahead(r, Committing(c), y)', y.type = "dhcommit"
                 PROVE  FALSE
      OBVIOUS
    <3>1. Ahead(r, Committing(c), y) /\ y \in Arriving(r)
      BY <1>1
    <3> QED BY <1>3, <3>1 DEF LastCommit
  <2> QED BY <1>1, <1>2, <1>3, <2>1, <2>2 DEF LastCommit
<1>4. CASE ~Has(r, {"dhcommit"})
  BY <1>2, <1>4 DEF LastCommit
<1> QED BY <1>3, <1>4

\* The answer to a commitment is one to the last, unless that still arrives.
LEMMA LastCommitTaken ==
    ASSUME NEW r, NEW c, NEW m, LastCommit(r, c), commit'[c] = commit[c],
           Took(r, m), m.type = "dhcommit", auth'[r].key[1] = m.key[1]
    PROVE  LastCommit(r, c)'
<1>1. Committing(c)' = Committing(c) /\ Committing(c).type = "dhcommit"
      /\ Committing(c).key[1] = commit[c]
  BY MessageParts DEF Committing
<1>2. Has(r, {"dhcommit"})
  BY DEF Has, Took
<1>3. /\ Committing(c) \in Arriving(r)
      /\ \A y \in Arriving(r) : Ahead(r, Committing(c), y) => y.type # "dhcommit"
  BY <1>2 DEF LastCommit
<1>4. CASE Has(r, {"dhcommit"})'
  <2>1. PICK z \in Arriving(r)' : z.type = "dhcommit"
    BY <1>4 DEF Has
  <2>2. Committing(c) # m
    BY <1>3, <2>1 DEF Took
  <2>3. Committing(c) \in Arriving(r)'
    BY <1>3, <2>2 DEF Took
  <2>4. \A y \in Arriving(r)' : Ahead(r, Committing(c), y)' => y.type # "dhcommit"
    <3> SUFFICES ASSUME NEW y \in Arriving(r)', Ahead(r, Committing(c), y)'
                 PROVE  y.type # "dhcommit"
      OBVIOUS
    <3>1. Ahead(r, Committing(c), y)
      BY <1>1 DEF Took
    <3> QED BY <1>3, <3>1 DEF Took
  <2> QED BY <1>1, <1>4, <2>3, <2>4 DEF LastCommit
<1>5. CASE ~Has(r, {"dhcommit"})'
  <2>1. Committing(c) \notin Arriving(r)'
    BY <1>1, <1>5 DEF Has
  <2>2. Committing(c) = m
    BY <1>3, <2>1 DEF Took
  <2> QED BY <1>1, <1>5, <2>2 DEF LastCommit
<1> QED BY <1>4, <1>5

\* A new commitment is the last.
LEMMA LastCommitNew ==
    ASSUME NEW r, NEW c, NEW n, n \notin Arriving(r), Gained(r, {n}),
           n = Msg("dhcommit", <<commit'[c], NONE>>, 0)
    PROVE  LastCommit(r, c)'
<1>1. Committing(c)' = n /\ n.type = "dhcommit"
  BY MessageParts DEF Committing
<1>2. n \in Arriving(r)'
  BY DEF Gained
<1>3. \A y \in Arriving(r)' : ~Ahead(r, n, y)'
  BY DEF Gained
<1>4. Has(r, {"dhcommit"})'
  BY <1>1, <1>2 DEF Has
<1>5. \A y \in Arriving(r)' : ~Ahead(r, Committing(c), y)'
  BY <1>1, <1>3
<1> QED BY <1>1, <1>2, <1>4, <1>5 DEF LastCommit

\* Plain text, data and closing messages that are ignored take nothing along.
LEMMA RoundShrinks ==
    ASSUME NEW r, NEW c, NEW R, Round(r, c), Shrinks(r, R), Shrinks(c, R), Same(r), Same(c),
           \A x \in R : x.type \in {"plain", "data", "revealsig"},
           Revealed(r, c) => \A x \in R : x.type # "revealsig"
    PROVE  Round(r, c)'
<1>1. LastCommit(r, c) => LastCommit(r, c)'
  <2>1. \A x : x.type = "dhcommit" => (x \in Arriving(r)' <=> x \in Arriving(r))
    BY DEF Shrinks
  <2> QED BY <2>1, LastCommitStays DEF Shrinks, Same
<1>2. CASE Asking(r, c)
  <2>1. Only(r, {"error", "plain", "dhcommit", "data"})'
        /\ Only(c, {"query", "plain", "revealsig", "data"})'
    BY <1>2 DEF Asking, Only, Shrinks
  <2>2. Readable(r)' /\ NotBehind(r, {"dhcommit"}, {"error"})' /\ ~Starting(c)'
    BY <1>2 DEF Asking, Readable, NotBehind, Shrinks, Same
  <2>3. \A x \in Arriving(c)' : Stale(c, x)' => Stale(c, x) /\ x \in Arriving(c)
    BY DEF Stale, Shrinks, Same
  <2>4. Has(r, {"dhcommit"})' => commit'[c] # NONE /\ \A x \in Arriving(c)' : ~Stale(c, x)'
    BY <1>2, <2>3 DEF Asking, Has, Shrinks, Same
  <2>5. \A x, y \in Arriving(c)' : Ahead(c, x, y)' /\ x.type = "query" => ~Stale(c, y)'
    BY <1>2, <2>3 DEF Asking, Shrinks
  <2>6. Starting(r)' => /\ ~Has(r, {"error", "dhcommit"})' /\ ~Has(c, {"query"})'
                        /\ \A x \in Arriving(c)' : ~Stale(c, x)'
    BY <1>2, <2>3 DEF Asking, Has, Shrinks
  <2>7. auth'[r].state = "NONE" /\ auth'[c].state = "NONE" /\ key'[r] = key'[c]
    BY <1>2 DEF Asking, Same
  <2>8. LastCommit(r, c)'
    BY <1>1, <1>2 DEF Asking
  <2> QED BY <2>1, <2>2, <2>4, <2>5, <2>6, <2>7, <2>8 DEF Round, Asking
<1>3. CASE Answered(r, c)
  <2>1. Only(r, {"plain", "dhcommit", "data"})' /\ Only(c, {"query", "plain", "dhkey", "data"})'
    BY <1>3 DEF Answered, Only, Shrinks
  <2>2. Readable(r)' /\ Readable(c)' /\ NotBehind(c, {"dhkey"}, {"query"})'
        /\ ~Starting(c)' /\ ~Starting(r)'
    BY <1>3 DEF Answered, Readable, NotBehind, Shrinks, Same
  <2>3. Has(c, {"dhkey"})'
    BY <1>3 DEF Answered, Has, Shrinks
  <2>4. \A x \in Arriving(c)' : x.type = "dhkey" => x.key[2] = auth'[r].key[2]
    BY <1>3 DEF Answered, Shrinks, Same
  <2>5. auth'[r].state = "REVEALSIG" /\ auth'[c].state = "NONE" /\ key'[r] = key'[c]
        /\ commit'[c] # NONE
    BY <1>3 DEF Answered, Same
  <2>6. LastCommit(r, c)'
    BY <1>1, <1>3 DEF Answered
  <2> QED BY <2>1, <2>2, <2>3, <2>4, <2>5, <2>6 DEF Round, Answered
<1>4. CASE Revealed(r, c)
  <2>1. Only(r, {"plain", "dhcommit", "revealsig", "data"})' /\ Only(c, {"plain", "dhkey", "data"})'
    BY <1>4 DEF Revealed, Only, Shrinks
  <2>2. Readable(r)' /\ Readable(c)' /\ NotBehind(r, {"revealsig"}, {"dhcommit"})'
        /\ ~Starting(c)' /\ ~Starting(r)'
    BY <1>4 DEF Revealed, Readable, NotBehind, Shrinks, Same
  <2>3. Has(r, {"revealsig"})'
    BY <1>4 DEF Revealed, Has, Shrinks
  <2>4. /\ \A x \in Arriving(c)' : x.type = "dhkey" => x.key[2] = auth'[r].key[2]
        /\ \A x \in Arriving(r)' : x.type = "revealsig" => x.key = auth'[c].key
    BY <1>4 DEF Revealed, Shrinks, Same
  <2>5. /\ auth'[r].state = "REVEALSIG" /\ auth'[c].state = "SIG" /\ key'[r] = key'[c]
        /\ commit'[c] # NONE /\ auth'[c].key = <<commit'[c], auth'[r].key[2]>>
    BY <1>4 DEF Revealed, Same
  <2>6. LastCommit(r, c)'
    BY <1>1, <1>4 DEF Revealed
  <2> QED BY <2>1, <2>2, <2>3, <2>4, <2>5, <2>6 DEF Round, Revealed
<1>5. CASE Switched(r, c)
  <2>1. Only(r, {"plain", "revealsig", "data"})'
        /\ Only(c, {"plain", "dhkey", "sig", "error", "data"})'
    BY <1>5 DEF Switched, Only, Shrinks
  <2>2. NotBehind(c, {"sig"}, {"sig", "dhkey"})' /\ NotBehind(c, {"error"}, {"sig"})'
        /\ ~Starting(c)' /\ ~Starting(r)'
    BY <1>5 DEF Switched, NotBehind, Shrinks
  <2>3. Has(c, {"sig"})'
    BY <1>5 DEF Switched, Has, Shrinks
  <2>4. \A x \in Arriving(c)' : /\ x.type = "sig" => x.key = key'[r]
                                /\ x.type = "dhkey" => x.key[2] = key'[r][2]
    BY <1>5 DEF Switched, Shrinks, Same
  <2>5. \A x, y \in Arriving(c)' : Ahead(c, x, y)' =>
          /\ x.type = "data" /\ y.type = "sig" => x.key = key'[c]
          /\ x.type = "sig" /\ y.type = "data" => y.key = key'[r]
    BY <1>5 DEF Switched, Shrinks, Same
  <2>6. /\ auth'[r].state = "NONE" /\ auth'[c].state = "SIG" /\ auth'[c].key = key'[r]
        /\ key'[r] \in Key /\ commit'[c] = key'[r][1]
    BY <1>5 DEF Switched, Same
  <2> QED BY <2>1, <2>2, <2>3, <2>4, <2>5, <2>6 DEF Round, Switched
<1> QED BY <1>2, <1>3, <1>4, <1>5 DEF Round

\* So does text that is sent, in either direction.
LEMMA RoundSays ==
    ASSUME NEW r, NEW c, Round(r, c), NEW p \in {r, c}, NEW o \in {r, c}, o # p, NEW n,
           Gained(p, {}), Gained(o, {n}), Same(r), Same(c),
           n.type = "plain" \/ (n.type = "data" /\ n.key = key[p])
    PROVE  Round(r, c)'
<1>1. LastCommit(r, c) => LastCommit(r, c)'
  <2>1. \A x : x.type = "dhcommit" => (x \in Arriving(r)' <=> x \in Arriving(r))
    BY DEF Gained
  <2>2. \A x, y : Ahead(r, x, y)' /\ y.type = "dhcommit" => Ahead(r, x, y)
    BY DEF Gained
  <2> QED BY <2>1, <2>2, LastCommitStays DEF Same
<1>2. \A q \in {r, c} : /\ \A x \in Arriving(q)' : x \in Arriving(q) \/ (x = n /\ q = o)
                        /\ \A x, y : Ahead(q, x, y)' =>
                             x \in Arriving(q) /\ (Ahead(q, x, y) \/ (y = n /\ q = o))
                        /\ Arriving(q) \subseteq Arriving(q)'
                        /\ Starting(q)' => Starting(q)
  BY DEF Gained
<1>3. CASE Asking(r, c)
  <2>1. Only(r, {"error", "plain", "dhcommit", "data"})'
        /\ Only(c, {"query", "plain", "revealsig", "data"})'
    BY <1>2, <1>3 DEF Asking, Only
  <2>2. Readable(r)'
    BY <1>2, <1>3 DEF Asking, Readable, Same
  <2>3. NotBehind(r, {"dhcommit"}, {"error"})'
    BY <1>2, <1>3 DEF Asking, NotBehind
  <2>4. \A x \in Arriving(c)' : Stale(c, x)' => Stale(c, x) /\ x \in Arriving(c) /\ x # n
    BY <1>2, <1>3 DEF Stale, Same, Asking
  <2>5. Has(r, {"dhcommit"})' => commit'[c] # NONE /\ \A x \in Arriving(c)' : ~Stale(c, x)'
    BY <1>2, <1>3, <2>4 DEF Asking, Has, Same
  <2>6. \A x, y \in Arriving(c)' : Ahead(c, x, y)' /\ x.type = "query" => ~Stale(c, y)'
    BY <1>2, <1>3, <2>4 DEF Asking
  <2>7. Starting(r)' => /\ ~Has(r, {"error", "dhcommit"})' /\ ~Has(c, {"query"})'
                        /\ \A x \in Arriving(c)' : ~Stale(c, x)'
    BY <1>2, <1>3, <2>4 DEF Asking, Has
  <2>8. auth'[r].state = "NONE" /\ auth'[c].state = "NONE" /\ key'[r] = key'[c] /\ ~Starting(c)'
    BY <1>2, <1>3 DEF Asking, Same
  <2>9. LastCommit(r, c)'
    BY <1>1, <1>3 DEF Asking
  <2> QED BY <2>1, <2>2, <2>3, <2>5, <2>6, <2>7, <2>8, <2>9 DEF Round, Asking
<1>4. CASE Answered(r, c)
  <2>1. Only(r, {"plain", "dhcommit", "data"})' /\ Only(c, {"query", "plain", "dhkey", "data"})'
    BY <1>2, <1>4 DEF Answered, Only
  <2>2. Readable(r)' /\ Readable(c)'
    BY <1>2, <1>4 DEF Answered, Readable, Same
  <2>3. NotBehind(c, {"dhkey"}, {"query"})' /\ ~Starting(c)' /\ ~Starting(r)'
    BY <1>2, <1>4 DEF Answered, NotBehind
  <2>4. Has(c, {"dhkey"})'
    BY <1>2, <1>4 DEF Answered, Has
  <2>5. \A x \in Arriving(c)' : x.type = "dhkey" => x.key[2] = auth'[r].key[2]
    BY <1>2, <1>4 DEF Answered, Same
  <2>6. auth'[r].state = "REVEALSIG" /\ auth'[c].state = "NONE" /\ key'[r] = key'[c]
        /\ commit'[c] # NONE
    BY <1>4 DEF Answered, Same
  <2>7. LastCommit(r, c)'
    BY <1>1, <1>4 DEF Answered
  <2> QED BY <2>1, <2>2, <2>3, <2>4, <2>5, <2>6, <2>7 DEF Round, Answered
<1>5. CASE Revealed(r, c)
  <2>1. Only(r, {"plain", "dhcommit", "revealsig", "data"})' /\ Only(c, {"plain", "dhkey", "data"})'
    BY <1>2, <1>5 DEF Revealed, Only
  <2>2. Readable(r)' /\ Readable(c)'
    BY <1>2, <1>5 DEF Revealed, Readable, Same
  <2>3. NotBehind(r, {"revealsig"}, {"dhcommit"})' /\ ~Starting(c)' /\ ~Starting(r)'
    BY <1>2, <1>5 DEF Revealed, NotBehind
  <2>4. Has(r, {"revealsig"})'
    BY <1>2, <1>5 DEF Revealed, Has
  <2>5. /\ \A x \in Arriving(c)' : x.type = "dhkey" => x.key[2] = auth'[r].key[2]
        /\ \A x \in Arriving(r)' : x.type = "revealsig" => x.key = auth'[c].key
    BY <1>2, <1>5 DEF Revealed, Same
  <2>6. /\ auth'[r].state = "REVEALSIG" /\ auth'[c].state = "SIG" /\ key'[r] = key'[c]
        /\ commit'[c] # NONE /\ auth'[c].key = <<commit'[c], auth'[r].key[2]>>
    BY <1>5 DEF Revealed, Same
  <2>7. LastCommit(r, c)'
    BY <1>1, <1>5 DEF Revealed
  <2> QED BY <2>1, <2>2, <2>3, <2>4, <2>5, <2>6, <2>7 DEF Round, Revealed
<1>6. CASE Switched(r, c)
  <2>1. Only(r, {"plain", "revealsig", "data"})'
        /\ Only(c, {"plain", "dhkey", "sig", "error", "data"})'
    BY <1>2, <1>6 DEF Switched, Only
  <2>2. NotBehind(c, {"sig"}, {"sig", "dhkey"})' /\ NotBehind(c, {"error"}, {"sig"})'
        /\ ~Starting(c)' /\ ~Starting(r)'
    BY <1>2, <1>6 DEF Switched, NotBehind
  <2>3. Has(c, {"sig"})'
    BY <1>2, <1>6 DEF Switched, Has
  <2>4. \A x \in Arriving(c)' : /\ x.type = "sig" => x.key = key'[r]
                                /\ x.type = "dhkey" => x.key[2] = key'[r][2]
    BY <1>2, <1>6 DEF Switched, Same
  <2>5. o = c /\ n.type = "data" => n.key = key[r]
    OBVIOUS
  <2>6. \A x, y \in Arriving(c)' : Ahead(c, x, y)' =>
          /\ x.type = "data" /\ y.type = "sig" => x.key = key'[c]
          /\ x.type = "sig" /\ y.type = "data" => y.key = key'[r]
    BY <1>2, <1>6, <2>5 DEF Switched, Same
  <2>7. /\ auth'[r].state = "NONE" /\ auth'[c].state = "SIG" /\ auth'[c].key = key'[r]
        /\ key'[r] \in Key /\ commit'[c] = key'[r][1]
    BY <1>6 DEF Switched, Same
  <2> QED BY <2>1, <2>2, <2>3, <2>4, <2>6, <2>7 DEF Round, Switched
<1> QED BY <1>3, <1>4, <1>5, <1>6 DEF Round

\* What is left behind m is of the other types.
LEMMA TookFirst ==
    ASSUME NEW q, NEW m, Took(q, m)
    PROVE  \A x \in Arriving(q)' : x \in Arriving(q) /\ Ahead(q, m, x)
BY DEF Took

\* r asks again for what it could not read.
LEMMA AskingError ==
    ASSUME NEW r, NEW c, NEW m, NEW n, Asking(r, c), Took(r, m), Gained(c, {n}),
           m.type = "error", n.type = "query", Same(r), Same(c)
    PROVE  Asking(r, c)'
<1>1. LastCommit(r, c)'
  <2>1. \A x : x.type = "dhcommit" => (x \in Arriving(r)' <=> x \in Arriving(r))
    BY DEF Took
  <2> QED BY <2>1, LastCommitStays DEF Took, Same, Asking
<1>2. Only(r, {"error", "plain", "dhcommit", "data"})'
      /\ Only(c, {"query", "plain", "revealsig", "data"})'
  BY DEF Asking, Only, Took, Gained
<1>3. Readable(r)' /\ NotBehind(r, {"dhcommit"}, {"error"})'
  BY DEF Asking, Readable, NotBehind, Took, Same
<1>4. \A x \in Arriving(c)' : Stale(c, x)' => Stale(c, x) /\ x \in Arriving(c) /\ x # n
  BY DEF Stale, Gained, Same
<1>5. Has(r, {"dhcommit"})' => commit'[c] # NONE /\ \A x \in Arriving(c)' : ~Stale(c, x)'
  BY <1>4 DEF Asking, Has, Took, Same
<1>6. \A x, y \in Arriving(c)' : Ahead(c, x, y)' /\ x.type = "query" => ~Stale(c, y)'
  BY <1>4 DEF Asking, Gained
<1>7. ~Starting(r)' /\ ~Starting(c)'
  BY DEF Asking, Took, Gained
<1> QED BY <1>1, <1>2, <1>3, <1>5, <1>6, <1>7 DEF Asking, Same

\* c cannot read what r sent before the key was replaced, and tells it.
LEMMA AskingStale ==
    ASSUME NEW r, NEW c, NEW m, NEW n, Asking(r, c), Took(c, m), Gained(r, {n}),
           Stale(c, m), n.type = "error", Same(r), Same(c)
    PROVE  Asking(r, c)'
<1>1. ~Has(r, {"dhcommit"}) /\ ~Starting(r)
  BY DEF Asking, Took
<1>2. ~Has(r, {"dhcommit"})'
  BY <1>1 DEF Has, Gained
<1>3. LastCommit(r, c)'
  BY <1>2 DEF LastCommit, Asking, Same
<1>4. Only(r, {"error", "plain", "dhcommit", "data"})'
      /\ Only(c, {"query", "plain", "revealsig", "data"})'
  BY DEF Asking, Only, Took, Gained
<1>5. Readable(r)'
  BY DEF Asking, Readable, Gained, Same
<1>6. NotBehind(r, {"dhcommit"}, {"error"})'
  BY <1>2 DEF NotBehind, Has
<1>7. \A x \in Arriving(c)' : Stale(c, x)' => Stale(c, x) /\ x \in Arriving(c)
  BY DEF Stale, Took, Same
<1>8. \A x, y \in Arriving(c)' : Ahead(c, x, y)' /\ x.type = "query" => ~Stale(c, y)'
  BY <1>7 DEF Asking, Took
<1>9. ~Starting(r)' /\ ~Starting(c)'
  BY <1>1 DEF Asking, Took, Gained
<1> QED BY <1>2, <1>3, <1>4, <1>5, <1>6, <1>8, <1>9 DEF Asking, Same

\* c commits itself, in answer to a query: behind one it finds nothing stale.
LEMMA AskingQuery ==
    ASSUME NEW r, NEW c, NEW m, NEW n, Asking(r, c), Took(c, m), Gained(r, {n}),
           m.type = "query", n = Msg("dhcommit", <<commit'[c], NONE>>, 0), n \notin Arriving(r),
           commit'[c] # NONE, Same(r), auth'[c] = auth[c], key'[c] = key[c]
    PROVE  Asking(r, c)'
<1>1. LastCommit(r, c)' /\ n.type = "dhcommit"
  BY LastCommitNew, MessageParts
<1>2. Only(r, {"error", "plain", "dhcommit", "data"})'
      /\ Only(c, {"query", "plain", "revealsig", "data"})'
  BY <1>1 DEF Asking, Only, Took, Gained
<1>3. Readable(r)' /\ NotBehind(r, {"dhcommit"}, {"error"})'
  BY <1>1 DEF Asking, Readable, NotBehind, Gained, Same
<1>4. \A x \in Arriving(c)' : ~Stale(c, x)'
  BY DEF Asking, Took, Stale
<1>5. ~Starting(r)' /\ ~Starting(c)'
  BY DEF Asking, Took, Gained, Has
<1> QED BY <1>1, <1>2, <1>3, <1>4, <1>5 DEF Asking, Same

\* r answers the commitment: what it could not read is behind it by then.
LEMMA AskingCommit ==
    ASSUME NEW r, NEW c, NEW m, NEW n, NEW h, Asking(r, c), Took(r, m), Gained(c, {n}),
           m.type = "dhcommit", n.type = "dhkey", n.key[2] = h,
           auth'[r].state = "REVEALSIG", auth'[r].key = <<m.key[1], h>>,
           key'[r] = key[r], commit'[r] = commit[r], Same(c)
    PROVE  Answered(r, c)'
<1>1. LastCommit(r, c)'
  BY LastCommitTaken DEF Asking, Same
<1>2. Has(r, {"dhcommit"})
  BY DEF Has, Took
<1>3. commit[c] # NONE /\ \A x \in Arriving(c) : ~Stale(c, x)
  BY <1>2 DEF Asking
<1>4. Only(r, {"plain", "dhcommit", "data"})'
  BY DEF Asking, Only, Took, NotBehind
<1>5. Only(c, {"query", "plain", "dhkey", "data"})'
  BY <1>3 DEF Asking, Only, Gained, Stale
<1>6. Readable(r)'
  BY DEF Asking, Readable, Took
<1>7. Readable(c)'
  BY <1>3 DEF Readable, Gained, Stale, Same
<1>8. \A x \in Arriving(c) : x.type # "dhkey"
  BY DEF Asking, Only
<1>9. Has(c, {"dhkey"})' /\ \A x \in Arriving(c)' : x.type = "dhkey" => x.key[2] = h
  BY <1>8 DEF Has, Gained
<1>10. NotBehind(c, {"dhkey"}, {"query"})'
  BY <1>8 DEF NotBehind, Gained
<1>11. ~Starting(r)' /\ ~Starting(c)'
  BY DEF Asking, Took, Gained
<1> QED BY <1>1, <1>3, <1>4, <1>5, <1>6, <1>7, <1>9, <1>10, <1>11 DEF Asking, Answered, Same

\* It answers another one with the same number.
LEMMA AnsweredCommit ==
    ASSUME NEW r, NEW c, NEW m, NEW n, NEW h, Answered(r, c), Took(r, m), Gained(c, {n}),
           m.type = "dhcommit", n.type = "dhkey", n.key[2] = h, h = auth[r].key[2],
           auth'[r].state = "REVEALSIG", auth'[r].key = <<m.key[1], h>>,
           key'[r] = key[r], commit'[r] = commit[r], Same(c)
    PROVE  Answered(r, c)'
<1>1. LastCommit(r, c)'
  BY LastCommitTaken DEF Answered, Same
<1>2. Only(r, {"plain", "dhcommit", "data"})' /\ Only(c, {"query", "plain", "dhkey", "data"})'
  BY DEF Answered, Only, Took, Gained
<1>3. Readable(r)' /\ Readable(c)'
  BY DEF Answered, Readable, Took, Gained, Same
<1>4. Has(c, {"dhkey"})' /\ \A x \in Arriving(c)' : x.type = "dhkey" => x.key[2] = h
  BY DEF Answered, Has, Gained
<1>5. NotBehind(c, {"dhkey"}, {"query"})'
  BY DEF Answered, NotBehind, Gained
<1>6. ~Starting(r)' /\ ~Starting(c)'
  BY DEF Answered, Took, Gained
<1> QED BY <1>1, <1>2, <1>3, <1>4, <1>5, <1>6 DEF Answered, Same

\* c commits itself anew while the answer to an earlier commitment arrives.
LEMMA AnsweredQuery ==
    ASSUME NEW r, NEW c, NEW m, NEW n, Answered(r, c), Took(c, m), Gained(r, {n}),
           m.type = "query", n = Msg("dhcommit", <<commit'[c], NONE>>, 0), n \notin Arriving(r),
           commit'[c] # NONE, Same(r), auth'[c] = auth[c], key'[c] = key[c]
    PROVE  Answered(r, c)'
<1>1. LastCommit(r, c)' /\ n.type = "dhcommit"
  BY LastCommitNew, MessageParts
<1>2. Only(r, {"plain", "dhcommit", "data"})' /\ Only(c, {"query", "plain", "dhkey", "data"})'
  BY <1>1 DEF Answered, Only, Took, Gained
<1>3. Readable(r)' /\ Readable(c)'
  BY <1>1 DEF Answered, Readable, Took, Gained, Same
<1>4. Has(c, {"dhkey"})' /\ \A x \in Arriving(c)' : x.type = "dhkey" => x.key[2] = auth'[r].key[2]
  BY DEF Answered, Has, Took, Same
<1>5. NotBehind(c, {"dhkey"}, {"query"})'
  BY DEF Answered, NotBehind, Took
<1>6. ~Starting(r)' /\ ~Starting(c)'
  BY DEF Answered, Took, Gained
<1> QED BY <1>1, <1>2, <1>3, <1>4, <1>5, <1>6 DEF Answered, Same

\* c has the answer and reveals its number, behind all its commitments.
LEMMA AnsweredKey ==
    ASSUME NEW r, NEW c, NEW m, NEW n, Answered(r, c), Took(c, m), Gained(r, {n}),
           m.type = "dhkey", n.type = "revealsig", n.key = auth'[c].key,
           auth'[c].state = "SIG", auth'[c].key = <<commit[c], m.key[2]>>,
           key'[c] = key[c], commit'[c] = commit[c], Same(r)
    PROVE  Revealed(r, c)'
<1>1. LastCommit(r, c)'
  <2>1. \A x : x.type = "dhcommit" => (x \in Arriving(r)' <=> x \in Arriving(r))
    BY DEF Gained
  <2>2. \A x, y : Ahead(r, x, y)' /\ y.type = "dhcommit" => Ahead(r, x, y)
    BY DEF Gained
  <2> QED BY <2>1, <2>2, LastCommitStays DEF Same, Answered
<1>2. m.key[2] = auth[r].key[2]
  BY DEF Answered, Took
<1>3. Only(r, {"plain", "dhcommit", "revealsig", "data"})'
  BY DEF Answered, Only, Gained
<1>4. Only(c, {"plain", "dhkey", "data"})'
  BY DEF Answered, Only, Took, NotBehind
<1>5. Readable(r)' /\ Readable(c)'
  BY DEF Answered, Readable, Took, Gained, Same
<1>6. \A x \in Arriving(r) : x.type # "revealsig"
  BY DEF Answered, Only
<1>7. Has(r, {"revealsig"})' /\ \A x \in Arriving(r)' : x.type = "revealsig" => x.key = auth'[c].key
  BY <1>6 DEF Has, Gained
<1>8. \A x \in Arriving(c)' : x.type = "dhkey" => x.key[2] = auth'[r].key[2]
  BY DEF Answered, Took, Same
<1>9. NotBehind(r, {"revealsig"}, {"dhcommit"})'
  BY <1>6 DEF NotBehind, Gained
<1>10. ~Starting(r)' /\ ~Starting(c)'
  BY DEF Answered, Took, Gained
<1> QED BY <1>1, <1>2, <1>3, <1>4, <1>5, <1>7, <1>8, <1>9, <1>10 DEF Answered, Revealed, Same

\* r answers a commitment that was still on its way.
LEMMA RevealedCommit ==
    ASSUME NEW r, NEW c, NEW m, NEW n, NEW h, Revealed(r, c), Took(r, m), Gained(c, {n}),
           m.type = "dhcommit", n.type = "dhkey", n.key[2] = h, h = auth[r].key[2],
           auth'[r].state = "REVEALSIG", auth'[r].key = <<m.key[1], h>>,
           key'[r] = key[r], commit'[r] = commit[r], Same(c)
    PROVE  Revealed(r, c)'
<1>1. LastCommit(r, c)'
  BY LastCommitTaken DEF Revealed, Same
<1>2. Only(r, {"plain", "dhcommit", "revealsig", "data"})' /\ Only(c, {"plain", "dhkey", "data"})'
  BY DEF Revealed, Only, Took, Gained
<1>3. Readable(r)' /\ Readable(c)'
  BY DEF Revealed, Readable, Took, Gained, Same
<1>4. Has(r, {"revealsig"})' /\ \A x \in Arriving(r)' : x.type = "revealsig" => x.key = auth'[c].key
  BY DEF Revealed, Has, Took, Same
<1>5. \A x \in Arriving(c)' : x.type = "dhkey" => x.key[2] = h
  BY DEF Revealed, Gained
<1>6. NotBehind(r, {"revealsig"}, {"dhcommit"})'
  BY DEF Revealed, NotBehind, Took
<1>7. ~Starting(r)' /\ ~Starting(c)'
  BY DEF Revealed, Took, Gained
<1> QED BY <1>1, <1>2, <1>3, <1>4, <1>5, <1>6, <1>7 DEF Revealed, Same

\* c has the same answer once more.
LEMMA RevealedKey ==
    ASSUME NEW r, NEW c, NEW m, NEW n, Revealed(r, c), Took(c, m), Gained(r, {n}),
           m.type = "dhkey", n.type = "revealsig", n.key = auth'[c].key,
           auth'[c].state = "SIG", auth'[c].key = <<commit[c], m.key[2]>>,
           key'[c] = key[c], commit'[c] = commit[c], Same(r)
    PROVE  Revealed(r, c)'
<1>1. LastCommit(r, c)'
  <2>1. \A x : x.type = "dhcommit" => (x \in Arriving(r)' <=> x \in Arriving(r))
    BY DEF Gained
  <2>2. \A x, y : Ahead(r, x, y)' /\ y.type = "dhcommit" => Ahead(r, x, y)
    BY DEF Gained
  <2> QED BY <2>1, <2>2, LastCommitStays DEF Same, Revealed
<1>2. m.key[2] = auth[r].key[2] /\ auth'[c].key = auth[c].key
  BY DEF Revealed, Took
<1>3. Only(r, {"plain", "dhcommit", "revealsig", "data"})' /\ Only(c, {"plain", "dhkey", "data"})'
  BY DEF Revealed, Only, Took, Gained
<1>4. Readable(r)' /\ Readable(c)'
  BY DEF Revealed, Readable, Took, Gained, Same
<1>5. Has(r, {"revealsig"})' /\ \A x \in Arriving(r)' : x.type = "revealsig" => x.key = auth'[c].key
  BY <1>2 DEF Revealed, Has, Gained
<1>6. \A x \in Arriving(c)' : x.type = "dhkey" => x.key[2] = auth'[r].key[2]
  BY DEF Revealed, Took, Same
<1>7. NotBehind(r, {"revealsig"}, {"dhcommit"})'
  BY DEF Revealed, NotBehind, Gained
<1>8. ~Starting(r)' /\ ~Starting(c)'
  BY DEF Revealed, Took, Gained
<1> QED BY <1>1, <1>2, <1>3, <1>4, <1>5, <1>6, <1>7, <1>8 DEF Revealed, Same

\* r has read every commitment when the number is revealed: it is the last one.
LEMMA RevealedFits ==
    ASSUME NEW r, NEW c, NEW m, Revealed(r, c), Took(r, m), m.type = "revealsig",
           auth[r].key = <<auth[r].key[1], auth[r].key[2]>>
    PROVE  /\ auth[r].key = m.key /\ auth[c].key = m.key /\ m.key[1] = commit[c]
           /\ \A x \in Arriving(r)' : x.type # "dhcommit"
<1>1. \A x \in Arriving(r)' : x.type # "dhcommit"
  BY DEF Revealed, Took, NotBehind
<1>2. ~Has(r, {"dhcommit"})
  BY <1>1 DEF Has, Took
<1>3. auth[r].key[1] = commit[c]
  BY <1>2 DEF Revealed, LastCommit
<1>4. m.key = auth[c].key /\ auth[c].key = <<commit[c], auth[r].key[2]>>
  BY DEF Revealed, Took
<1> QED BY <1>1, <1>3, <1>4

\* r takes the key into use and signs it.
LEMMA RevealedClosing ==
    ASSUME NEW r, NEW c, NEW m, NEW n, Revealed(r, c), Took(r, m), Gained(c, {n}),
           m.type = "revealsig", n.type = "sig", n.key = m.key, m.key \in Key,
           auth[r].key = m.key, auth[c].key = m.key, m.key[1] = commit[c],
           \A x \in Arriving(r)' : x.type # "dhcommit",
           auth'[r].state = "NONE", key'[r] = m.key, Same(c)
    PROVE  Switched(r, c)'
<1>1. Only(r, {"plain", "revealsig", "data"})'
  BY DEF Revealed, Only, Took
<1>2. Only(c, {"plain", "dhkey", "sig", "error", "data"})'
  BY DEF Revealed, Only, Gained
<1>3. \A x \in Arriving(c) : x.type # "sig" /\ x.type # "error"
  BY DEF Revealed, Only
<1>4. Has(c, {"sig"})'
  BY DEF Has, Gained
<1>5. \A x \in Arriving(c)' : /\ x.type = "sig" => x.key = key'[r]
                              /\ x.type = "dhkey" => x.key[2] = key'[r][2]
  BY <1>3 DEF Revealed, Gained
<1>6. NotBehind(c, {"sig"}, {"sig", "dhkey"})' /\ NotBehind(c, {"error"}, {"sig"})'
  BY <1>3 DEF NotBehind, Gained
<1>7. \A x, y \in Arriving(c)' : Ahead(c, x, y)' =>
        /\ x.type = "data" /\ y.type = "sig" => x.key = key'[c]
        /\ x.type = "sig" /\ y.type = "data" => y.key = key'[r]
  BY <1>3 DEF Revealed, Readable, Gained, Same
<1>8. ~Starting(r)' /\ ~Starting(c)'
  BY DEF Revealed, Took, Gained
<1> QED BY <1>1, <1>2, <1>4, <1>5, <1>6, <1>7, <1>8 DEF Revealed, Switched, Same

\* r cannot read what c sends before it has the signature, and tells it.
LEMMA SwitchedUnreadable ==
    ASSUME NEW r, NEW c, NEW m, NEW n, Switched(r, c), Took(r, m), Gained(c, {n}),
           m.type = "data", n.type = "error", Same(r), Same(c)
    PROVE  Switched(r, c)'
<1>1. Only(r, {"plain", "revealsig", "data"})'
      /\ Only(c, {"plain", "dhkey", "sig", "error", "data"})'
  BY DEF Switched, Only, Took, Gained
<1>2. Has(c, {"sig"})'
  BY DEF Switched, Has, Gained
<1>3. \A x \in Arriving(c)' : /\ x.type = "sig" => x.key = key'[r]
                              /\ x.type = "dhkey" => x.key[2] = key'[r][2]
  BY DEF Switched, Gained, Same
<1>4. NotBehind(c, {"sig"}, {"sig", "dhkey"})' /\ NotBehind(c, {"error"}, {"sig"})'
  BY DEF Switched, NotBehind, Gained
<1>5. \A x, y \in Arriving(c)' : Ahead(c, x, y)' =>
        /\ x.type = "data" /\ y.type = "sig" => x.key = key'[c]
        /\ x.type = "sig" /\ y.type = "data" => y.key = key'[r]
  BY DEF Switched, Gained, Same
<1>6. ~Starting(r)' /\ ~Starting(c)'
  BY DEF Switched, Took, Gained
<1> QED BY <1>1, <1>2, <1>3, <1>4, <1>5, <1>6 DEF Switched, Same

\* c has the same answer once more.
LEMMA SwitchedKey ==
    ASSUME NEW r, NEW c, NEW m, NEW n, Switched(r, c), Took(c, m), Gained(r, {n}),
           m.type = "dhkey", n.type = "revealsig", key[r] = <<key[r][1], key[r][2]>>,
           auth'[c].state = "SIG", auth'[c].key = <<commit[c], m.key[2]>>,
           key'[c] = key[c], commit'[c] = commit[c], Same(r)
    PROVE  Switched(r, c)'
<1>1. m.key[2] = key[r][2] /\ auth'[c].key = key[r]
  BY DEF Switched, Took
<1>2. Only(r, {"plain", "revealsig", "data"})'
      /\ Only(c, {"plain", "dhkey", "sig", "error", "data"})'
  BY DEF Switched, Only, Took, Gained
<1>3. Has(c, {"sig"})'
  BY DEF Switched, Has, Took
<1>4. \A x \in Arriving(c)' : /\ x.type = "sig" => x.key = key'[r]
                              /\ x.type = "dhkey" => x.key[2] = key'[r][2]
  BY DEF Switched, Took, Same
<1>5. NotBehind(c, {"sig"}, {"sig", "dhkey"})' /\ NotBehind(c, {"error"}, {"sig"})'
  BY DEF Switched, NotBehind, Took
<1>6. \A x, y \in Arriving(c)' : Ahead(c, x, y)' =>
        /\ x.type = "data" /\ y.type = "sig" => x.key = key'[c]
        /\ x.type = "sig" /\ y.type = "data" => y.key = key'[r]
  BY DEF Switched, Took, Same
<1>7. ~Starting(r)' /\ ~Starting(c)'
  BY DEF Switched, Took, Gained
<1> QED BY <1>1, <1>2, <1>3, <1>4, <1>5, <1>6, <1>7 DEF Switched, Same

\* The signature comes before what else c could not take: errors, and text that
\* it has no key for.
LEMMA SwitchedReads ==
    ASSUME NEW r, NEW c, NEW m, Switched(r, c), Took(c, m)
    PROVE  m.type # "error" /\ (m.type = "data" => m.key = key[c])
<1>1. PICK x \in Arriving(c) : x.type = "sig"
  BY DEF Switched, Has
<1>2. m.type # "sig" => Ahead(c, m, x) /\ m \in Arriving(c)
  BY <1>1 DEF Took
<1> QED BY <1>1, <1>2 DEF Switched, NotBehind

\* c takes the key into use: its turn to answer, should there be anything yet
\* to come.
LEMMA SwitchedClosing ==
    ASSUME NEW r, NEW c, NEW m, Switched(r, c), Took(c, m), Gained(r, {}),
           m.type = "sig", auth'[c].state = "NONE", key'[c] = m.key, Same(r)
    PROVE  Asking(c, r)'
<1>1. m.key = key[r] /\ m \in Arriving(c)
  BY DEF Switched, Took
<1>2. \A x \in Arriving(c)' : x \in Arriving(c) /\ Ahead(c, m, x)
  BY TookFirst
<1>3. \A x \in Arriving(c)' : x.type \in {"plain", "error", "data"}
  BY <1>1, <1>2 DEF Switched, Only, NotBehind
<1>4. Readable(c)'
  BY <1>1, <1>2 DEF Switched, Readable
<1>5. ~Has(c, {"dhcommit"})'
  BY <1>3 DEF Has
<1>6. \A x \in Arriving(r)' : x.type \in {"plain", "revealsig", "data"}
  BY DEF Switched, Only, Gained
<1>7. ~Starting(r)' /\ ~Starting(c)'
  BY DEF Switched, Took, Gained
<1>8. LastCommit(c, r)'
  BY <1>5 DEF LastCommit
<1>9. auth'[r].state = "NONE" /\ key'[r] = key'[c]
  BY <1>1 DEF Switched, Same
<1> QED BY <1>3, <1>4, <1>5, <1>6, <1>7, <1>8, <1>9 DEF Asking, Only, NotBehind

-----------------------------------------------------------------------------
(* The steps of the model, in an exchange. *)

LEMMA RoundTypes ==
    ASSUME NEW r, NEW c, Round(r, c)
    PROVE  /\ \A m \in Arriving(r) :
                /\ m.type \in {"error", "plain", "dhcommit", "revealsig", "data"}
                /\ m.type = "error" => Asking(r, c)
                /\ m.type = "dhcommit" => Asking(r, c) \/ Answered(r, c) \/ Revealed(r, c)
                /\ m.type = "revealsig" => Revealed(r, c) \/ Switched(r, c)
           /\ \A m \in Arriving(c) :
                /\ m.type \in {"query", "error", "plain", "dhkey", "revealsig", "sig", "data"}
                /\ m.type = "query" => Asking(r, c) \/ Answered(r, c)
                /\ m.type = "error" => Switched(r, c)
                /\ m.type = "dhkey" => Answered(r, c) \/ Revealed(r, c) \/ Switched(r, c)
                /\ m.type = "revealsig" => Asking(r, c)
                /\ m.type = "sig" => Switched(r, c)
<1>1. CASE Asking(r, c)
  BY <1>1 DEF Asking, Only
<1>2. CASE Answered(r, c)
  BY <1>2 DEF Answered, Only
<1>3. CASE Revealed(r, c)
  BY <1>3 DEF Revealed, Only
<1>4. CASE Switched(r, c)
  BY <1>4 DEF Switched, Only
<1> QED BY <1>1, <1>2, <1>3, <1>4 DEF Round

\* The queue that a tick is taken from has no start() left.
LEMMA TickInTurn ==
    ASSUME Types, Kept, NEW p \in Parties, NEW op, NextTick(p, op)
    PROVE  /\ op # "end" /\ ~Starting(p)'
           /\ \A q \in Parties : InTurn(ticks'[q])
           /\ \A q \in Parties \ {p} : ticks'[q] = ticks[q]
<1>1. /\ ticks[p] \in Seq(Tick) /\ ticks[p] # <<>> /\ ticks'[p] = Tail(ticks[p])
      /\ \A q \in Parties \ {p} : ticks'[q] = ticks[q]
      /\ ticks[p][1].op = op
  BY QueueHead DEF Types, TypeOK, NextTick
<1>2. InTurn(ticks[p])
  BY DEF Kept
<1>3. 1 \in DOMAIN ticks[p]
      /\ \A k \in DOMAIN ticks'[p] : /\ k + 1 \in DOMAIN ticks[p] /\ k + 1 # 1
                                     /\ ticks'[p][k] = ticks[p][k + 1]
  BY <1>1
<1>4. \A k \in DOMAIN ticks'[p] : ticks'[p][k].op # "end" /\ ticks'[p][k].op # "start"
  BY <1>2, <1>3 DEF InTurn
<1>5. op # "end"
  BY <1>1, <1>2, <1>3 DEF InTurn
<1>6. ~Starting(p)' /\ InTurn(ticks'[p])
  BY <1>4 DEF Starting, InTurn
<1>7. \A q \in Parties \ {p} : InTurn(ticks'[q])
  BY <1>1 DEF Kept
<1> QED BY <1>1, <1>5, <1>6, <1>7

LEMMA RecvLines ==
    ASSUME Inv, Types', Kept, NEW p \in Parties, NEW m, m = Head(ticks[p]).msg,
           NextTick(p, "recv"), NEW S, Adds(p, S)
    PROVE  /\ Took(p, m) /\ Gained(Peer[p], S) /\ m \in Message /\ Flow(p, S, {m})
           /\ \A q \in Parties : InTurn(ticks'[q])
<1>1. /\ Flow(p, S, {m}) /\ m \in Arriving(p) /\ m \in Message
      /\ \A x \in Arriving(p)' : x \in Arriving(p) /\ Ahead(p, m, x)
  BY ReceiveFlow DEF Inv
<1>2. ~Starting(p)' /\ ticks'[Peer[p]] = ticks[Peer[p]] /\ \A q \in Parties : InTurn(ticks'[q])
  BY TickInTurn, PeerFacts DEF Inv
<1>3. Took(p, m)
  BY <1>1, <1>2, PeerFacts DEF Flow, Took
<1>4. Gained(Peer[p], S)
  BY <1>1, <1>2, PeerFacts DEF Flow, Gained, Starting
<1> QED BY <1>1, <1>2, <1>3, <1>4

\* What every step of an exchange keeps.
LEMMA KeptStep ==
    ASSUME Inv, Kept, NEW p \in Parties, NEW S, NEW R, Flow(p, S, R),
           \A q \in Parties : InTurn(ticks'[q]),
           \A q \in Parties : msgstate'[q] = View(key'[q]),
           \A q \in Parties : auth'[q].state # "NONE" => known'[q],
           UNCHANGED fresh \/ fresh' = [fresh EXCEPT ![p] = fresh[p] + 1],
           \A n \in S : n.type = "dhcommit" => n.key[1].n <= fresh'[n.key[1].by]
    PROVE  Kept'
<1>1. ASSUME NEW q \in Parties, NEW m \in Arriving(q)', m.type = "dhcommit"
      PROVE  IsMade(m.key[1])'
  <2>1. CASE m \in Arriving(q)
    <3>1. m.key[1] \in Half /\ IsMade(m.key[1])
      BY <1>1, <2>1 DEF Inv, KeyInv, KeysFit, Kept
    <3>2. CASE UNCHANGED fresh
      BY <3>1, <3>2 DEF IsMade
    <3>3. CASE fresh' = [fresh EXCEPT ![p] = fresh[p] + 1]
      BY <3>1, <3>3, MadeGrows DEF Inv
    <3> QED BY <3>2, <3>3
  <2>2. CASE m \in S
    BY <1>1, <2>2 DEF IsMade
  <2> QED BY <2>1, <2>2 DEF Flow
<1> QED BY <1>1 DEF Kept, View, InTurn

\* The roles in an exchange, for who takes a step.
LEMMA Roles ==
    ASSUME NEW r \in Parties, NEW p \in Parties
    PROVE  \/ p = r /\ Peer[p] = Peer[r]
           \/ p = Peer[r] /\ Peer[p] = r /\ p # r
BY TwoParties, PeerFacts

LEMMA RecvIgnored ==
    ASSUME Inv, Types', Kept, NEW r \in Parties, Round(r, Peer[r]), NEW p \in Parties,
           NEW m, m = Head(ticks[p]).msg, NextTick(p, "recv"), UNCHANGED net,
           UNCHANGED <<commit, auth, msgstate, key, fresh>>,
           \A q \in Parties : known[q] => known'[q],
           m.type \in {"plain", "data", "revealsig"},
           m.type = "revealsig" => ~Revealed(r, Peer[r])
    PROVE  Kept' /\ Round(r, Peer[r])'
<1>. DEFINE c == Peer[r]
<1>1. /\ Took(p, m) /\ Gained(Peer[p], {}) /\ Flow(p, {}, {m})
      /\ \A q \in Parties : InTurn(ticks'[q])
  BY AddsNone, RecvLines
<1>2. Shrinks(r, {m}) /\ Shrinks(c, {m})
  BY <1>1, Roles DEF Took, Gained, Shrinks
<1>3. Same(r) /\ Same(c)
  BY DEF Same
<1>. HIDE DEF c
<1>4. Round(r, c)'
  BY <1>2, <1>3, RoundShrinks DEF c
<1>5. Kept'
  BY <1>1, KeptStep DEF Kept
<1> QED BY <1>4, <1>5 DEF c

LEMMA RoundQuery ==
    ASSUME Inv, Types', Kept, NEW r \in Parties, Round(r, Peer[r]), NEW p \in Parties,
           NEW m, m = Head(ticks[p]).msg, NextTick(p, "recv"), ReceiveQuery(p, m)
    PROVE  Kept' /\ Round(r, Peer[r])'
<1>1. PICK h \in Half :
        /\ h = NewHalf(p) /\ h.by = p /\ h.n = fresh[p] + 1 /\ h # NONE
        /\ fresh[p] \in Nat /\ fresh' = [fresh EXCEPT ![p] = fresh[p] + 1]
  BY NewHalfMade, HalfFields DEF ReceiveQuery, Inv
<1>. DEFINE c == Peer[r]
            n == Msg("dhcommit", <<h, NONE>>, 0)
<1>2. n \in Message /\ n.type = "dhcommit" /\ n.key[1] = h
  BY <1>1, MessageMade, MessageParts, BoundFacts
<1>3. /\ Took(p, m) /\ Gained(Peer[p], {n})
      /\ Flow(p, {n}, {m}) /\ \A q \in Parties : InTurn(ticks'[q])
  BY <1>1, <1>2, AddsOne, RecvLines DEF ReceiveQuery
<1>4. /\ m.type = "query" /\ commit' = [commit EXCEPT ![p] = h]
      /\ UNCHANGED <<known, auth, msgstate, key>>
  BY <1>1 DEF ReceiveQuery
<1>5. commit'[p] = h /\ \A q \in Parties \ {p} : commit'[q] = commit[q]
  BY <1>4 DEF Inv, Types, TypeOK
<1>6. IsMade(h)' /\ ~IsMade(h)
  <2>1. fresh'[p] = fresh[p] + 1
    BY <1>1 DEF Inv, Types, TypeOK
  <2> QED BY <1>1, <2>1 DEF IsMade
<1>7. n \notin Arriving(Peer[p])
  BY <1>2, <1>6, PeerFacts DEF Kept
<1>8. n = Msg("dhcommit", <<commit'[p], NONE>>, 0)
  BY <1>5
<1>9. Kept'
  <2>1. \A x \in {n} : x.type = "dhcommit" => x.key[1].n <= fresh'[x.key[1].by]
    BY <1>2, <1>6 DEF IsMade
  <2>2. \A q \in Parties : msgstate'[q] = View(key'[q]) /\ (auth'[q].state # "NONE" => known'[q])
    BY <1>4 DEF Kept
  <2>. HIDE DEF n
  <2>3. \E S, R : /\ Flow(p, S, R)
                  /\ \A x \in S : x.type = "dhcommit" => x.key[1].n <= fresh'[x.key[1].by]
    BY <1>3, <2>1
  <2>4. \A q \in Parties : InTurn(ticks'[q])
    BY <1>3
  <2>5. fresh' = [fresh EXCEPT ![p] = fresh[p] + 1]
    BY <1>1
  <2> QED BY <2>2, <2>3, <2>4, <2>5, KeptStep
<1>. HIDE DEF n
<1>10. p = c /\ Peer[p] = r /\ p # r
  BY <1>3, <1>4, Roles, RoundTypes DEF Took
<1>11. Same(r) /\ auth'[c] = auth[c] /\ key'[c] = key[c] /\ commit'[c] # NONE
  BY <1>1, <1>4, <1>5, <1>10 DEF Same
<1>12. /\ Took(c, m) /\ Gained(r, {n}) /\ n \notin Arriving(r)
       /\ n = Msg("dhcommit", <<commit'[c], NONE>>, 0)
  BY <1>3, <1>7, <1>8, <1>10
<1>. HIDE DEF c
<1>13. CASE Asking(r, c)
  BY <1>4, <1>9, <1>11, <1>12, <1>13, AskingQuery DEF c, Round
<1>14. CASE Answered(r, c)
  BY <1>4, <1>9, <1>11, <1>12, <1>14, AnsweredQuery DEF c, Round
<1>15. Asking(r, c) \/ Answered(r, c)
  BY <1>4, <1>12, RoundTypes DEF Took, c
<1> QED BY <1>13, <1>14, <1>15

LEMMA RoundError ==
    ASSUME Inv, Types', Kept, NEW r \in Parties, Round(r, Peer[r]), NEW p \in Parties,
           NEW m, m = Head(ticks[p]).msg, NextTick(p, "recv"), ReceiveError(p, m)
    PROVE  Kept' /\ Round(r, Peer[r])'
<1>. DEFINE c == Peer[r]
            n == Msg("query", NOKEY, 0)
<1>1. n \in Message /\ n.type = "query"
  BY MessageMade, MessageParts, BoundFacts DEF NOKEY
<1>2. /\ Took(p, m) /\ Gained(Peer[p], {n})
      /\ Flow(p, {n}, {m}) /\ \A q \in Parties : InTurn(ticks'[q])
  BY <1>1, AddsOne, RecvLines DEF ReceiveError
<1>3. m.type = "error" /\ UNCHANGED <<known, commit, auth, msgstate, key, fresh>>
  BY DEF ReceiveError, contextVars
<1>. HIDE DEF n
<1>4. Kept'
  BY <1>1, <1>2, <1>3, KeptStep DEF Kept
<1>5. Same(r) /\ Same(c)
  BY <1>3 DEF Same
<1>. HIDE DEF c
<1>6. CASE p = r
  <2>1. Asking(r, c) /\ Took(r, m) /\ Gained(c, {n})
    BY <1>2, <1>3, <1>6, RoundTypes DEF Took, c
  <2>2. Asking(r, c)'
    BY <1>1, <1>3, <1>5, <2>1, AskingError
  <2> QED BY <1>4, <2>2 DEF Round, c
<1>7. CASE p = c
  <2>1. Switched(r, c)
    BY <1>2, <1>3, <1>7, RoundTypes DEF Took, c
  <2> QED BY <1>2, <1>3, <1>7, <2>1, SwitchedReads
<1> QED BY <1>6, <1>7, TwoParties DEF c

LEMMA RoundCommit ==
    ASSUME Inv, Types', Kept, NEW r \in Parties, Round(r, Peer[r]), NEW p \in Parties,
           NEW m, m = Head(ticks[p]).msg, NextTick(p, "recv"), ReceiveCommit(p, m)
    PROVE  Kept' /\ Round(r, Peer[r])'
<1>. DEFINE c == Peer[r]
<1>1. m \in Arriving(p) /\ m.type = "dhcommit"
  BY ReceivedArrives DEF Inv, ReceiveCommit
<1>2. PICK h \in Half :
             /\ h.by = p /\ NotHeld(h, p)
             /\ auth' = [auth EXCEPT ![p] = [state |-> "REVEALSIG", key |-> <<m.key[1], h>>]]
             /\ Inject(p, Msg("dhkey", <<NONE, h>>, 0))
             /\ h.n <= fresh'[p]
             /\ UNCHANGED fresh \/ fresh' = [fresh EXCEPT ![p] = fresh[p] + 1]
  BY <1>1, CommitAnswer DEF Inv
<1>. DEFINE n == Msg("dhkey", <<NONE, h>>, 0)
<1>3. n \in Message /\ n.type = "dhkey" /\ n.key[2] = h
  BY MessageMade, MessageParts, BoundFacts
<1>4. /\ Took(p, m) /\ Gained(Peer[p], {n})
      /\ Flow(p, {n}, {m}) /\ \A q \in Parties : InTurn(ticks'[q])
  BY <1>2, <1>3, AddsOne, RecvLines
<1>. HIDE DEF n
<1>5. /\ auth'[p].state = "REVEALSIG" /\ auth'[p].key = <<m.key[1], h>>
      /\ \A q \in Parties \ {p} : auth'[q] = auth[q]
      /\ known'[p] /\ \A q \in Parties \ {p} : known'[q] = known[q]
      /\ UNCHANGED <<commit, msgstate, key>>
  BY <1>2 DEF ReceiveCommit, Inv, Types, TypeOK
<1>6. Kept'
  BY <1>2, <1>3, <1>4, <1>5, KeptStep DEF Kept
<1>7. p = r /\ c # r /\ c \in Parties
  BY <1>1, Roles, RoundTypes, PeerFacts
<1>8. Same(c) /\ key'[r] = key[r] /\ commit'[r] = commit[r]
  BY <1>5, <1>7 DEF Same
<1>9. auth[r].state = "REVEALSIG" => h = auth[r].key[2]
  <2> SUFFICES ASSUME auth[p].state = "REVEALSIG" PROVE h = auth[p].key[2]
    BY <1>7
  <2>1. auth' = [auth EXCEPT ![p].key = <<m.key[1], @[2]>>]
    BY DEF ReceiveCommit
  <2>2. auth'[p].key = <<m.key[1], auth[p].key[2]>>
    BY <2>1 DEF Inv, Types, TypeOK
  <2> QED BY <1>5, <2>2
<1>10. /\ Took(r, m) /\ Gained(c, {n})
       /\ auth'[r].state = "REVEALSIG" /\ auth'[r].key = <<m.key[1], h>>
  BY <1>4, <1>5, <1>7
<1>. HIDE DEF c
<1>11. CASE Asking(r, c)
  <2>1. Answered(r, c)'
    BY <1>1, <1>3, <1>8, <1>10, <1>11, AskingCommit
  <2> QED BY <1>6, <2>1 DEF Round, c
<1>12. CASE Answered(r, c)
  <2>1. h = auth[r].key[2]
    BY <1>9, <1>12 DEF Answered
  <2>2. Answered(r, c)'
    BY <1>1, <1>3, <1>8, <1>10, <1>12, <2>1, AnsweredCommit
  <2> QED BY <1>6, <2>2 DEF Round, c
<1>13. CASE Revealed(r, c)
  <2>1. h = auth[r].key[2]
    BY <1>9, <1>13 DEF Revealed
  <2>2. Revealed(r, c)'
    BY <1>1, <1>3, <1>8, <1>10, <1>13, <2>1, RevealedCommit
  <2> QED BY <1>6, <2>2 DEF Round, c
<1>14. Asking(r, c) \/ Answered(r, c) \/ Revealed(r, c)
  BY <1>1, <1>7, RoundTypes DEF c
<1> QED BY <1>11, <1>12, <1>13, <1>14

LEMMA RoundKey ==
    ASSUME Inv, Types', Kept, NEW r \in Parties, Round(r, Peer[r]), NEW p \in Parties,
           NEW m, m = Head(ticks[p]).msg, NextTick(p, "recv"), ReceiveKey(p, m)
    PROVE  Kept' /\ Round(r, Peer[r])'
<1>. DEFINE c == Peer[r]
<1>1. m \in Arriving(p) /\ m.type = "dhkey"
  BY ReceivedArrives DEF Inv, ReceiveKey
<1>2. p = c /\ Peer[p] = r /\ p # r
  BY <1>1, Roles, RoundTypes
<1>3. Answered(r, c) \/ Revealed(r, c) \/ Switched(r, c)
  BY <1>1, <1>2, RoundTypes
<1>4. commit[c] # NONE
  <2>1. CASE Answered(r, c) \/ Revealed(r, c)
    BY <2>1 DEF Answered, Revealed
  <2>2. CASE Switched(r, c)
    BY <2>2, KeyParts, HalfFields DEF Switched
  <2> QED BY <1>3, <2>1, <2>2
<1>5. PICK k \in Key :
        /\ k = <<commit[c], m.key[2]>>
        /\ auth' = [auth EXCEPT ![c] = [state |-> "SIG", key |-> k]]
        /\ Inject(p, Msg("revealsig", auth'[c].key, 0))
  <2>1. m.key[2] \in Half
    BY <1>1 DEF Inv, KeyInv, KeysFit
  <2>3. commit[p] \in Half \cup {NONE}
    BY DEF Inv, Types, TypeOK
  <2>2. <<commit[c], m.key[2]>> \in Key
    BY <1>2, <1>4, <2>1, <2>3 DEF Key
  <2> QED BY <1>2, <1>4, <2>2 DEF ReceiveKey
<1>6. /\ auth'[c].state = "SIG" /\ auth'[c].key = k /\ auth'[r] = auth[r]
      /\ known'[c] /\ \A q \in Parties \ {c} : known'[q] = known[q] /\ auth'[q] = auth[q]
      /\ UNCHANGED <<commit, msgstate, key, fresh>>
  <2>1. known' = [known EXCEPT ![c] = TRUE] /\ UNCHANGED <<commit, msgstate, key, fresh>>
    BY <1>2 DEF ReceiveKey
  <2>2. c \in Parties /\ r # c /\ DOMAIN known = Parties /\ DOMAIN auth = Parties
    BY PeerFacts DEF Inv, Types, TypeOK
  <2>. HIDE DEF c
  <2>3. known'[c] /\ \A q \in Parties \ {c} : known'[q] = known[q]
    BY <2>1, <2>2 DEF Inv, Types, TypeOK
  <2>4. auth'[c] = [state |-> "SIG", key |-> k] /\ \A q \in Parties \ {c} : auth'[q] = auth[q]
    BY <1>5, <2>2
  <2> QED BY <2>1, <2>2, <2>3, <2>4
<1>. DEFINE n == Msg("revealsig", k, 0)
<1>7. n \in Message /\ n.type = "revealsig" /\ n.key = k /\ Inject(p, n)
  <2>1. Msg("revealsig", <<k[1], k[2]>>, 0) \in Message
    BY KeyParts, MessageMade, BoundFacts
  <2>2. k = <<k[1], k[2]>>
    BY KeyParts
  <2>3. n \in Message
    BY <2>1, <2>2
  <2>4. Inject(p, n)
    BY <1>5, <1>6
  <2> QED BY <2>3, <2>4, MessageParts
<1>. HIDE DEF n
<1>8. Took(c, m) /\ Gained(r, {n}) /\ Flow(c, {n}, {m}) /\ \A q \in Parties : InTurn(ticks'[q])
  <2>1. Adds(p, {n})
    BY <1>7, AddsOne
  <2> QED BY <1>2, <2>1, RecvLines
<1>9. Kept'
  BY <1>2, <1>6, <1>7, <1>8, KeptStep DEF Kept
<1>10. Same(r) /\ key'[c] = key[c] /\ commit'[c] = commit[c]
  BY <1>6 DEF Same
<1>11. n.key = auth'[c].key /\ auth'[c].key = <<commit[c], m.key[2]>>
  BY <1>5, <1>6, <1>7
<1>. HIDE DEF c
<1>12. CASE Answered(r, c)
  <2>1. Revealed(r, c)'
    BY <1>1, <1>6, <1>7, <1>8, <1>10, <1>11, <1>12, AnsweredKey
  <2> QED BY <1>9, <2>1 DEF Round, c
<1>13. CASE Revealed(r, c)
  <2>1. Revealed(r, c)'
    BY <1>1, <1>6, <1>7, <1>8, <1>10, <1>11, <1>13, RevealedKey
  <2> QED BY <1>9, <2>1 DEF Round, c
<1>14. CASE Switched(r, c)
  <2>1. key[r] = <<key[r][1], key[r][2]>>
    BY <1>14, KeyParts DEF Switched
  <2>2. Switched(r, c)'
    BY <1>1, <1>6, <1>7, <1>8, <1>10, <1>11, <1>14, <2>1, SwitchedKey
  <2> QED BY <1>9, <2>2 DEF Round, c
<1> QED BY <1>3, <1>12, <1>13, <1>14

\* A closing message is read by who waits for it, and only then.
LEMMA ClosingFits ==
    ASSUME Inv, Types', Kept, NEW r \in Parties, Round(r, Peer[r]), NEW p \in Parties,
           NEW m, m = Head(ticks[p]).msg, NextTick(p, "recv"), Took(p, m),
           m.type \in {"revealsig", "sig"}
    PROVE  \/ /\ p = r /\ m.type = "revealsig" /\ Revealed(r, Peer[r])
              /\ auth[p] = [state |-> Awaited(m), key |-> m.key] /\ known[p]
              /\ auth[Peer[r]].key = m.key /\ m.key[1] = commit[Peer[r]]
              /\ \A x \in Arriving(r)' : x.type # "dhcommit"
           \/ /\ p = Peer[r] /\ m.type = "sig" /\ Switched(r, Peer[r])
              /\ auth[p] = [state |-> Awaited(m), key |-> m.key] /\ known[p]
           \/ /\ m.type = "revealsig" /\ ~Revealed(r, Peer[r])
              /\ auth[p] # [state |-> Awaited(m), key |-> m.key]
<1>. DEFINE c == Peer[r]
<1>1. m \in Arriving(p) /\ c \in Parties /\ c # r
  BY PeerFacts DEF Took
<1>2. \A q \in Parties : /\ auth[q] = [state |-> auth[q].state, key |-> auth[q].key]
                         /\ auth[q].state # "NONE" =>
                              known[q] /\ auth[q].key = <<auth[q].key[1], auth[q].key[2]>>
  BY AuthKey DEF Inv, Types, TypeOK, Kept
<1>3. ASSUME p = r, m.type = "revealsig", Revealed(r, c)
      PROVE  /\ auth[p] = [state |-> Awaited(m), key |-> m.key] /\ known[p]
             /\ auth[c].key = m.key /\ m.key[1] = commit[c]
             /\ \A x \in Arriving(r)' : x.type # "dhcommit"
  <2>1. auth[r].state = "REVEALSIG"
    BY <1>3 DEF Revealed
  <2>2. /\ auth[r].key = m.key /\ auth[c].key = m.key /\ m.key[1] = commit[c]
        /\ \A x \in Arriving(r)' : x.type # "dhcommit"
    <3>1. Took(r, m) /\ Revealed(r, c) /\ m.type = "revealsig"
      BY <1>3
    <3>2. auth[r].key = <<auth[r].key[1], auth[r].key[2]>>
      BY <1>2, <2>1
    <3>. HIDE DEF c
    <3> QED BY <3>1, <3>2, RevealedFits
  <2> QED BY <1>2, <1>3, <2>1, <2>2 DEF Awaited
<1>4. ASSUME p = c, m.type = "sig", Switched(r, c)
      PROVE  auth[p] = [state |-> Awaited(m), key |-> m.key] /\ known[p]
  <2>1. auth[c].state = "SIG" /\ auth[c].key = m.key
    BY <1>1, <1>4 DEF Switched
  <2> QED BY <1>1, <1>2, <1>4, <2>1 DEF Awaited
<1>5. ASSUME m.type = "revealsig", auth[p].state = "NONE"
      PROVE  auth[p] # [state |-> Awaited(m), key |-> m.key]
  BY <1>5 DEF Awaited
<1>6. CASE p = r
  <2>1. m.type = "revealsig" /\ (Revealed(r, c) \/ Switched(r, c))
    BY <1>1, <1>6, RoundTypes
  <2>2. Switched(r, c) => auth[r].state = "NONE" /\ ~Revealed(r, c)
    BY DEF Switched, Revealed
  <2> QED BY <1>3, <1>5, <1>6, <2>1, <2>2
<1>7. CASE p = c
  <2>1. \/ m.type = "revealsig" /\ Asking(r, c)
        \/ m.type = "sig" /\ Switched(r, c)
    BY <1>1, <1>7, RoundTypes
  <2>2. Asking(r, c) => auth[c].state = "NONE" /\ ~Revealed(r, c)
    BY DEF Asking, Revealed
  <2> QED BY <1>4, <1>5, <1>7, <2>1, <2>2
<1> QED BY <1>6, <1>7, TwoParties

LEMMA RoundClosing ==
    ASSUME Inv, Types', Kept, NEW r \in Parties, Round(r, Peer[r]), NEW p \in Parties,
           NEW m, m = Head(ticks[p]).msg, NextTick(p, "recv"), ReceiveClosing(p, m)
    PROVE  Kept' /\ \E q \in Parties : Round(q, Peer[q])'
<1>. DEFINE c == Peer[r]
            n == Msg("sig", m.key, 0)
<1>1. m \in Arriving(p)
  BY ReceivedArrives DEF Inv
<1>2. m.key \in Key
  BY <1>1, ClosingKey DEF Inv
<1>3. n \in Message /\ n.type = "sig" /\ n.key = m.key
  <2>1. Msg("sig", <<m.key[1], m.key[2]>>, 0) \in Message
    BY <1>2, KeyParts, MessageMade, BoundFacts
  <2>2. n \in Message
    BY <1>2, <2>1, KeyParts
  <2> QED BY <2>2, MessageParts
<1>4. /\ auth'[p].state = "NONE" /\ key'[p] = m.key /\ msgstate'[p] = "ENCRYPTED"
      /\ \A q \in Parties \ {p} : /\ auth'[q] = auth[q] /\ key'[q] = key[q]
                                  /\ msgstate'[q] = msgstate[q]
      /\ UNCHANGED <<commit, known, fresh>>
  BY DEF ReceiveClosing, Inv, Types, TypeOK, Idle
<1>5. m.type \in {"revealsig", "sig"} /\ auth[p] = [state |-> Awaited(m), key |-> m.key]
      /\ (m.type = "revealsig" => Inject(p, n)) /\ (m.type = "sig" => UNCHANGED net)
  BY DEF ReceiveClosing
<1>. HIDE DEF n
<1>6. PICK S : Adds(p, S) /\ (m.type = "revealsig" => S = {n}) /\ (m.type = "sig" => S = {})
               /\ \A x \in S : x.type = "sig"
  <2>1. CASE m.type = "revealsig"
    <3>1. Adds(p, {n})
      BY <1>3, <1>5, <2>1, AddsOne
    <3> QED BY <1>3, <2>1, <3>1
  <2>2. CASE m.type = "sig"
    <3>1. Adds(p, {})
      BY <1>5, <2>2, AddsNone
    <3> QED BY <2>2, <3>1
  <2> QED BY <1>5, <2>1, <2>2
<1>7. Took(p, m) /\ Gained(Peer[p], S) /\ Flow(p, S, {m}) /\ \A q \in Parties : InTurn(ticks'[q])
  BY <1>6, RecvLines
<1>8. Kept'
  <2>1. \A q \in Parties : msgstate'[q] = View(key'[q])
    BY <1>2, <1>4, KeyParts DEF Kept, View
  <2>2. \A q \in Parties : auth'[q].state # "NONE" => known'[q]
    BY <1>4 DEF Kept
  <2> QED BY <1>4, <1>6, <1>7, <2>1, <2>2, KeptStep
<1>9. \/ /\ p = r /\ m.type = "revealsig" /\ Revealed(r, c)
         /\ auth[c].key = m.key /\ m.key[1] = commit[c]
         /\ \A x \in Arriving(r)' : x.type # "dhcommit"
      \/ p = c /\ m.type = "sig" /\ Switched(r, c)
  BY <1>5, <1>7, ClosingFits
<1>10. c \in Parties /\ c # r /\ Peer[c] = r
  BY PeerFacts
<1>. HIDE DEF c
<1>11. CASE /\ p = r /\ m.type = "revealsig" /\ Revealed(r, c)
            /\ auth[c].key = m.key /\ m.key[1] = commit[c]
            /\ \A x \in Arriving(r)' : x.type # "dhcommit"
  <2>1. Same(c)
    BY <1>4, <1>10, <1>11 DEF Same
  <2>2. Took(r, m) /\ Gained(c, {n}) /\ auth[r].key = m.key
        /\ auth'[r].state = "NONE" /\ key'[r] = m.key
    <3>1. S = {n} /\ Peer[p] = c /\ p = r
      BY <1>6, <1>11 DEF c
    <3>2. auth[r].key = m.key
      BY <1>5, <1>11
    <3> QED BY <1>4, <1>7, <3>1, <3>2
  <2>3. Switched(r, c)'
    BY <1>2, <1>3, <1>11, <2>1, <2>2, RevealedClosing
  <2> QED BY <1>8, <2>3 DEF Round, c
<1>12. CASE p = c /\ m.type = "sig" /\ Switched(r, c)
  <2>1. Same(r)
    BY <1>4, <1>10, <1>12 DEF Same
  <2>2. Took(c, m) /\ Gained(r, {}) /\ auth'[c].state = "NONE" /\ key'[c] = m.key
    BY <1>4, <1>6, <1>7, <1>10, <1>12
  <2>3. Asking(c, r)'
    BY <1>12, <2>1, <2>2, SwitchedClosing
  <2>4. Round(c, Peer[c])'
    BY <1>10, <2>3 DEF Round
  <2> QED BY <1>8, <1>10, <2>4
<1> QED BY <1>9, <1>11, <1>12

LEMMA RoundUnreadable ==
    ASSUME Inv, Types', Kept, NEW r \in Parties, Round(r, Peer[r]), NEW p \in Parties,
           NEW m, m = Head(ticks[p]).msg, NextTick(p, "recv"), ReceiveUnreadable(p, m)
    PROVE  Kept' /\ Round(r, Peer[r])'
<1>. DEFINE c == Peer[r]
            n == Msg("error", NOKEY, 0)
<1>1. m \in Arriving(p) /\ m.type \in {"data", "bye"} /\ key[p] # m.key
  BY ReceivedArrives DEF ReceiveUnreadable, Inv
<1>2. m.type = "data"
  BY <1>1, RoundTypes, TwoParties
<1>3. UNCHANGED <<known, commit, auth, msgstate, key, fresh>>
  BY DEF ReceiveUnreadable, contextVars
<1>4. n \in Message /\ n.type = "error"
  BY MessageMade, MessageParts, BoundFacts DEF NOKEY
<1>5. UNCHANGED net \/ Inject(p, n)
  BY DEF ReceiveUnreadable
<1>. HIDE DEF n
<1>6. CASE UNCHANGED net
  BY <1>2, <1>3, <1>6, RecvIgnored
<1>7. CASE Inject(p, n)
  <2>1. Took(p, m) /\ Gained(Peer[p], {n}) /\ Flow(p, {n}, {m})
        /\ \A q \in Parties : InTurn(ticks'[q])
    BY <1>4, <1>7, AddsOne, RecvLines
  <2>2. Kept'
    BY <1>3, <1>4, <2>1, KeptStep DEF Kept
  <2>3. Same(r) /\ Same(c)
    BY <1>3 DEF Same
  <2>4. CASE p = r
    <3>1. Took(r, m) /\ Gained(c, {n})
      BY <2>1, <2>4
    <3>2. Switched(r, c)
      BY <1>1, <1>2, <2>4 DEF Round, Asking, Answered, Revealed, Readable
    <3>. HIDE DEF c
    <3>3. Switched(r, c)'
      BY <1>2, <1>4, <2>3, <3>1, <3>2, SwitchedUnreadable
    <3> QED BY <2>2, <3>3 DEF Round, c
  <2>5. CASE p = c
    <3>1. Took(c, m) /\ Gained(r, {n})
      BY <2>1, <2>5, PeerFacts
    <3>. HIDE DEF c
    <3>2. ~Switched(r, c)
      BY <1>1, <1>2, <2>5, <3>1, SwitchedReads
    <3>3. Asking(r, c)
      BY <1>1, <1>2, <2>5, <3>2 DEF Round, Answered, Revealed, Readable, c
    <3>4. Stale(c, m)
      BY <1>1, <1>2, <2>5 DEF Stale
    <3>5. Asking(r, c)'
      BY <1>4, <2>3, <3>1, <3>3, <3>4, AskingStale
    <3> QED BY <2>2, <3>5 DEF Round, c
  <2> QED BY <2>4, <2>5, TwoParties
<1> QED BY <1>5, <1>6, <1>7

\* What changes nothing: text, and what comes at the wrong time.
LEMMA RoundOther ==
    ASSUME Inv, Types', Kept, NEW r \in Parties, Round(r, Peer[r]), NEW p \in Parties,
           NEW m, m = Head(ticks[p]).msg, NextTick(p, "recv"),
           \/ ReceivePlain(p, m)
           \/ ReceiveBadClosing(p, m)
           \/ ReceiveUnknown(p, m)
           \/ ReceiveData(p, m)
    PROVE  Kept' /\ Round(r, Peer[r])'
<1>1. m \in Arriving(p)
  BY ReceivedArrives DEF Inv
<1>2. UNCHANGED <<net, commit, auth, msgstate, key, fresh>>
  BY DEF ReceivePlain, ReceiveBadClosing, ReceiveUnknown, ReceiveData, contextVars
<1>3. \A q \in Parties : known[q] => known'[q]
  <2>1. known' = known \/ known' = [known EXCEPT ![p] = TRUE]
    BY DEF ReceivePlain, ReceiveBadClosing, ReceiveUnknown, ReceiveData, contextVars
  <2>2. CASE known' = known
    BY <2>2
  <2>3. CASE known' = [known EXCEPT ![p] = TRUE]
    <3>1. DOMAIN known = Parties
      BY DEF Inv, Types, TypeOK
    <3>2. known'[p] /\ \A q \in Parties \ {p} : known'[q] = known[q]
      BY <2>3, <3>1
    <3> QED BY <3>2
  <2> QED BY <2>1, <2>2, <2>3
<1>4. Took(p, m)
  BY <1>2, AddsNone, RecvLines
<1>5. /\ m.type \in {"plain", "data", "revealsig", "sig", "bye"}
      /\ m.type \in {"revealsig", "sig"} =>
           ~known[p] \/ auth[p] # [state |-> Awaited(m), key |-> m.key]
  BY DEF ReceivePlain, ReceiveBadClosing, ReceiveUnknown, ReceiveData
<1>6. m.type # "bye"
  BY <1>1, RoundTypes, TwoParties
<1>7. m.type \in {"revealsig", "sig"} => m.type = "revealsig" /\ ~Revealed(r, Peer[r])
  BY <1>4, <1>5, ClosingFits
<1> QED BY <1>2, <1>3, <1>5, <1>6, <1>7, RecvIgnored

LEMMA RoundRecv ==
    ASSUME Inv, Types', Kept, NEW r \in Parties, Round(r, Peer[r]), NEW p \in Parties, RunRecv(p)
    PROVE  Kept' /\ \E q \in Parties : Round(q, Peer[q])'
<1>. DEFINE m == Head(ticks[p]).msg
<1>1. NextTick(p, "recv") /\ Receive(p, m) /\ m \in Arriving(p)
  BY ReceivedArrives DEF RunRecv, Inv
<1>2. ~ReceiveBye(p, m)
  BY <1>1, RoundTypes, TwoParties DEF ReceiveBye
<1>. HIDE DEF m
<1>3. CASE ReceiveQuery(p, m)
  BY <1>1, <1>3, RoundQuery DEF m
<1>4. CASE ReceiveError(p, m)
  BY <1>1, <1>4, RoundError DEF m
<1>5. CASE ReceiveCommit(p, m)
  BY <1>1, <1>5, RoundCommit DEF m
<1>6. CASE ReceiveKey(p, m)
  BY <1>1, <1>6, RoundKey DEF m
<1>7. CASE ReceiveClosing(p, m)
  BY <1>1, <1>7, RoundClosing DEF m
<1>8. CASE ReceiveUnreadable(p, m)
  BY <1>1, <1>8, RoundUnreadable DEF m
<1>9. CASE \/ ReceivePlain(p, m)
           \/ ReceiveBadClosing(p, m)
           \/ ReceiveUnknown(p, m)
           \/ ReceiveData(p, m)
  BY <1>1, <1>9, RoundOther DEF m
<1> QED BY <1>1, <1>2, <1>3, <1>4, <1>5, <1>6, <1>7, <1>8, <1>9 DEF Receive

-----------------------------------------------------------------------------
(* The steps that receive nothing. *)

LEMMA RoundRunStart ==
    ASSUME Inv, Types', Kept, NEW r \in Parties, Round(r, Peer[r]), NEW p \in Parties, RunStart(p)
    PROVE  Kept' /\ Round(r, Peer[r])'
<1>. DEFINE c == Peer[r]
            n == Msg("query", NOKEY, 0)
<1>1. n \in Message /\ n.type = "query"
  BY MessageMade, MessageParts, BoundFacts DEF NOKEY
<1>2. Flow(p, {n}, {})
  BY <1>1, AddsOne, FlowTick DEF RunStart, Inv
<1>. HIDE DEF n
<1>3. /\ NextTick(p, "start") /\ UNCHANGED <<known, commit, auth, msgstate, key, fresh>>
      /\ ticks[p] # <<>> /\ Head(ticks[p]).op = "start"
  BY DEF RunStart, NextTick, contextVars
<1>4. /\ ~Starting(p)' /\ \A q \in Parties : InTurn(ticks'[q])
      /\ \A q \in Parties \ {p} : ticks'[q] = ticks[q]
  BY <1>3, TickInTurn DEF Inv
<1>5. Starting(p)
  <2>1. 1 \in DOMAIN ticks[p] /\ ticks[p][1].op = "start"
    BY <1>3, QueueHead DEF Inv, Types
  <2> QED BY <2>1 DEF Starting
<1>6. p = r /\ Asking(r, c) /\ c \in Parties /\ c # r
  BY <1>5, TwoParties, PeerFacts DEF Round, Asking, Answered, Revealed, Switched
<1>7. Kept'
  BY <1>1, <1>2, <1>3, <1>4, KeptStep DEF Kept
<1>8. Gained(r, {}) /\ Gained(c, {n}) /\ ~Starting(r)'
  <2>1. ticks'[c] = ticks[c]
    BY <1>4, <1>6
  <2> QED BY <1>2, <1>4, <1>6, <2>1 DEF Flow, Gained, Starting
<1>9. Same(r) /\ Same(c)
  BY <1>3 DEF Same
<1>10. \A x \in Arriving(c) : ~Stale(c, x)
  BY <1>5, <1>6 DEF Asking
<1>11. ~Has(r, {"error", "dhcommit"})
  BY <1>5, <1>6 DEF Asking
<1>. HIDE DEF c
<1>12. Asking(r, c)'
  <2>1. \A x \in Arriving(c)' : ~Stale(c, x)'
    BY <1>1, <1>8, <1>9, <1>10 DEF Gained, Stale, Same
  <2>2. ~Has(r, {"dhcommit"})'
    BY <1>8, <1>11 DEF Gained, Has
  <2>3. Only(r, {"error", "plain", "dhcommit", "data"})'
        /\ Only(c, {"query", "plain", "revealsig", "data"})'
    BY <1>1, <1>6, <1>8 DEF Asking, Only, Gained
  <2>4. Readable(r)'
    BY <1>6, <1>8, <1>9 DEF Asking, Readable, Gained, Same
  <2>5. NotBehind(r, {"dhcommit"}, {"error"})' /\ LastCommit(r, c)'
    BY <1>6, <1>9, <2>2 DEF NotBehind, Has, LastCommit, Asking, Same
  <2>6. ~Starting(r)' /\ ~Starting(c)'
    BY <1>6, <1>8 DEF Asking, Gained
  <2> QED BY <1>6, <1>9, <2>1, <2>2, <2>3, <2>4, <2>5, <2>6 DEF Asking, Same
<1> QED BY <1>7, <1>12 DEF Round, c

LEMMA RoundRunSend ==
    ASSUME Inv, Types', Kept, NEW r \in Parties, Round(r, Peer[r]), NEW p \in Parties, RunSend(p)
    PROVE  Kept' /\ Round(r, Peer[r])'
<1>. DEFINE c == Peer[r]
            o == Peer[p]
<1>1. /\ NextTick(p, "send") /\ UNCHANGED <<known, commit, auth, msgstate, key, fresh>>
  BY DEF RunSend, NextTick, contextVars
<1>2. /\ ~Starting(p)' /\ \A q \in Parties : InTurn(ticks'[q])
      /\ \A q \in Parties \ {p} : ticks'[q] = ticks[q]
  BY <1>1, TickInTurn DEF Inv
<1>3. PICK n \in Message :
        /\ Inject(p, n)
        /\ n.type = "plain" \/ (n.type = "data" /\ n.key = key[p])
  <2>. DEFINE d == Msg("data", key[p], Head(ticks[p]).text)
              e == Msg("plain", NOKEY, 0)
  <2>1. e \in Message /\ e.type = "plain"
    BY MessageMade, MessageParts, BoundFacts DEF NOKEY
  <2>2. msgstate[p] = "ENCRYPTED" => d \in Message /\ d.type = "data" /\ d.key = key[p]
    <3> SUFFICES ASSUME msgstate[p] = "ENCRYPTED"
                 PROVE  d \in Message /\ d.type = "data" /\ d.key = key[p]
      OBVIOUS
    <3>1. key[p][1] \in Half /\ key[p][2] \in Half /\ key[p] = <<key[p][1], key[p][2]>>
      BY KeyParts DEF Inv, KeyInv, KeysFit, Types, TypeOK
    <3>2. Head(ticks[p]).text \in 0..MaxEvents
      BY <1>1, QueueHead, TickFields, BoundFacts DEF NextTick, Inv, Types
    <3>3. Msg("data", <<key[p][1], key[p][2]>>, Head(ticks[p]).text) \in Message
      BY <3>1, <3>2, MessageMade
    <3> QED BY <3>1, <3>3, MessageParts
  <2>3. Inject(p, IF msgstate[p] = "ENCRYPTED" THEN d ELSE e)
    BY DEF RunSend
  <2>. HIDE DEF d, e
  <2> QED BY <2>1, <2>2, <2>3
<1>4. Flow(p, {n}, {})
  BY <1>1, <1>3, AddsOne, FlowTick DEF Inv
<1>5. Kept'
  BY <1>1, <1>2, <1>3, <1>4, KeptStep DEF Kept
<1>6. Gained(p, {}) /\ Gained(o, {n}) /\ p \in {r, c} /\ o \in {r, c} /\ o # p
  <2>1. o # p /\ o \in Parties /\ p \in {r, c} /\ o \in {r, c}
    BY TwoParties, PeerFacts
  <2>2. ticks'[o] = ticks[o]
    BY <1>2, <2>1
  <2> QED BY <1>2, <1>4, <2>1, <2>2 DEF Flow, Gained, Starting
<1>7. Same(r) /\ Same(c)
  BY <1>1 DEF Same
<1>. HIDE DEF c, o
<1>8. Round(r, c)'
  BY <1>3, <1>6, <1>7, RoundSays DEF c
<1> QED BY <1>5, <1>8 DEF c

\* Nothing on the lines and nothing waiting: an exchange is over.
LEMMA QuietLines ==
    ASSUME Types, Quiet, NEW p \in Parties
    PROVE  Arriving(p) = {} /\ ~Starting(p)
<1>1. DOMAIN ticks[p] = {} /\ DOMAIN net[p] = {}
  BY DEF Quiet
<1> QED BY <1>1 DEF Arriving, Starting

LEMMA QuietAsking ==
    ASSUME Types, Quiet, NEW r \in Parties, NEW c \in Parties, Round(r, c)
    PROVE  auth[r].state = "NONE" /\ auth[c].state = "NONE" /\ key[r] = key[c]
<1>1. ~Answered(r, c) /\ ~Revealed(r, c) /\ ~Switched(r, c)
  BY QuietLines DEF Answered, Revealed, Switched, Has
<1> QED BY <1>1 DEF Round, Asking

\* Then either can take either part in the next.
LEMMA AskingEmpty ==
    ASSUME NEW r, NEW c, Arriving(r)' = {}, Arriving(c)' = {}, ~Starting(c)',
           auth'[r].state = "NONE", auth'[c].state = "NONE", key'[r] = key'[c]
    PROVE  Asking(r, c)'
<1>1. /\ Only(r, {"error", "plain", "dhcommit", "data"})'
      /\ Only(c, {"query", "plain", "revealsig", "data"})'
      /\ Readable(r)' /\ NotBehind(r, {"dhcommit"}, {"error"})'
  BY DEF Only, Readable, NotBehind
<1>2. ~Has(r, {"dhcommit"})' /\ ~Has(r, {"error", "dhcommit"})' /\ ~Has(c, {"query"})'
  BY DEF Has
<1>3. LastCommit(r, c)'
  BY <1>2 DEF LastCommit
<1> QED BY <1>1, <1>2, <1>3 DEF Asking

LEMMA RoundStart ==
    ASSUME Inv, Types', Kept, NEW r \in Parties, Round(r, Peer[r]), NEW p \in Parties, Start(p),
           used'.intact
    PROVE  Kept' /\ Round(p, Peer[p])'
<1>. DEFINE o == Peer[p]
            t == [op |-> "start"]
<1>1. Quiet
  <2>1. used' = [used EXCEPT !.starts = @ + 1, !.intact = @ /\ Peaceful]
    BY DEF Start
  <2>2. used \in [starts : 0..MaxStarts, events : 0..MaxEvents, intact : BOOLEAN]
    BY DEF Inv, Types, TypeOK
  <2>3. used'.intact = (used.intact /\ Peaceful)
    BY <2>1, <2>2
  <2> QED BY <2>3 DEF Peaceful
<1>2. t \in Tick /\ t.op = "start" /\ Enqueue(p, t)
  BY DEF Start, Tick
<1>. HIDE DEF t
<1>3. Flow(p, {}, {})
  BY <1>2, FlowEnqueue DEF Inv
<1>4. /\ UNCHANGED <<known, commit, auth, msgstate, key, fresh>>
      /\ ticks'[p] = <<t>> /\ \A q \in Parties \ {p} : ticks'[q] = <<>>
  <2>1. UNCHANGED <<known, commit, auth, msgstate, key, fresh>>
    BY <1>2 DEF Enqueue, contextVars
  <2>2. ticks' = [ticks EXCEPT ![p] = Append(@, t)] /\ DOMAIN ticks = Parties
    BY <1>2 DEF Enqueue, Inv, Types, TypeOK
  <2>3. \A q \in Parties : ticks[q] = <<>>
    BY <1>1 DEF Quiet
  <2>4. ticks'[p] = Append(<<>>, t)
    BY <2>2, <2>3
  <2>5. ticks'[p] = <<t>>
    BY <2>4
  <2>6. \A q \in Parties \ {p} : ticks'[q] = <<>>
    BY <2>2, <2>3
  <2> QED BY <2>1, <2>5, <2>6
<1>5. \A q \in Parties : InTurn(ticks'[q])
  <2>1. InTurn(ticks'[p])
    BY <1>2, <1>4 DEF InTurn
  <2>2. \A q \in Parties \ {p} : InTurn(ticks'[q])
    BY <1>4 DEF InTurn
  <2> QED BY <2>1, <2>2
<1>6. Kept'
  BY <1>3, <1>4, <1>5, KeptStep DEF Kept
<1>7. o \in Parties /\ o # p
  BY PeerFacts
<1>8. Arriving(p)' = {} /\ Arriving(o)' = {}
  BY <1>1, <1>3, <1>7, QuietLines DEF Flow, Inv
<1>9. ~Starting(o)'
  BY <1>4, <1>7 DEF Starting
<1>10. auth[p].state = "NONE" /\ auth[o].state = "NONE" /\ key[p] = key[o]
  BY <1>1, Roles, QuietAsking, PeerFacts DEF Inv
<1>. HIDE DEF o
<1>11. Asking(p, o)'
  BY <1>4, <1>8, <1>9, <1>10, AskingEmpty
<1> QED BY <1>6, <1>11 DEF Round, o

\* Texts that are handed over, messages that are delivered, and a tick that is
\* not run leave the lines as they are.
LEMMA RoundStill ==
    ASSUME Inv, Types', Kept, NEW r \in Parties, Round(r, Peer[r]), NEW p \in Parties,
           Send(p) \/ Deliver(p) \/ TickCorrupts(p)
    PROVE  Kept' /\ Round(r, Peer[r])'
<1>1. /\ UNCHANGED <<known, commit, auth, msgstate, key, fresh>>
      /\ Flow(p, {}, {})
      /\ ticks' = ticks \/ \E t \in Tick : /\ t.op \in {"send", "recv"}
                                           /\ ticks' = [ticks EXCEPT ![p] = Append(@, t)]
  <2>1. CASE Send(p)
    <3>1. said'[p] \in 1..MaxEvents
      <4>1. said[p] \in 0..MaxEvents /\ said[p] <= used.events /\ used.events \in 0..MaxEvents
        BY DEF Inv, Types, TypeOK, SaidCounted
      <4>2. used.events < MaxEvents /\ said'[p] = said[p] + 1
        BY <2>1 DEF Send, Inv, Types, TypeOK
      <4> QED BY <4>1, <4>2, BoundFacts
    <3>. DEFINE t == [op |-> "send", text |-> said'[p]]
    <3>2. t \in Tick /\ t.op = "send" /\ Enqueue(p, t)
      BY <2>1, <3>1 DEF Send, Tick
    <3>. HIDE DEF t
    <3>3. Flow(p, {}, {})
      BY <3>2, FlowEnqueue DEF Inv
    <3> QED BY <3>2, <3>3 DEF Enqueue, contextVars
  <2>2. CASE Deliver(p)
    <3>. DEFINE t == [op |-> "recv", msg |-> Head(net[p])]
    <3>1. t \in Tick /\ t.op = "recv"
      BY <2>2, NetHead DEF Deliver, Inv, Types, Tick
    <3>2. ticks' = [ticks EXCEPT ![p] = Append(@, t)]
      BY <2>2 DEF Deliver
    <3>. HIDE DEF t
    <3>3. Flow(p, {}, {})
      BY <2>2, FlowDeliver DEF Inv
    <3> QED BY <2>2, <3>1, <3>2, <3>3 DEF Deliver, contextVars
  <2>3. CASE TickCorrupts(p)
    <3>1. UNCHANGED <<ticks, net, known, commit, auth, msgstate, key, fresh>>
      BY <2>3 DEF TickCorrupts, contextVars
    <3>2. Flow(p, {}, {})
      BY <3>1, FlowStill DEF Inv
    <3> QED BY <3>1, <3>2
  <2> QED BY <2>1, <2>2, <2>3
<1>2. \A q \in Parties : InTurn(ticks'[q]) /\ (Starting(q)' => Starting(q))
  <2>1. CASE ticks' = ticks
    BY <2>1 DEF Kept, Starting
  <2>2. ASSUME NEW t \in Tick, t.op \in {"send", "recv"},
               ticks' = [ticks EXCEPT ![p] = Append(@, t)]
        PROVE  \A q \in Parties : InTurn(ticks'[q]) /\ (Starting(q)' => Starting(q))
    <3>1. /\ ticks[p] \in Seq(Tick) /\ ticks'[p] = Append(ticks[p], t)
          /\ \A q \in Parties \ {p} : ticks'[q] = ticks[q]
      BY <2>2 DEF Inv, Types, TypeOK
    <3>2. \A k \in DOMAIN ticks'[p] : \/ k \in DOMAIN ticks[p] /\ ticks'[p][k] = ticks[p][k]
                                      \/ ticks'[p][k] = t
      BY <3>1
    <3>3. InTurn(ticks'[p])
      BY <2>2, <3>2 DEF Kept, InTurn
    <3>4. Starting(p)' => Starting(p)
      BY <2>2, <3>2 DEF Starting
    <3>5. \A q \in Parties \ {p} : InTurn(ticks'[q]) /\ (Starting(q)' => Starting(q))
      BY <3>1 DEF Kept, Starting
    <3> QED BY <3>3, <3>4, <3>5
  <2> QED BY <1>1, <2>1, <2>2
<1>3. Kept'
  BY <1>1, <1>2, KeptStep DEF Kept
<1>4. \A q \in Parties : Shrinks(q, {}) /\ Same(q)
  BY <1>1, <1>2 DEF Flow, Shrinks, Same
<1>5. Peer[r] \in Parties
  BY PeerFacts
<1>6. Round(r, Peer[r])'
  BY <1>4, <1>5, RoundShrinks
<1> QED BY <1>3, <1>6

LEMMA RoundPoll ==
    ASSUME Inv, Types', Kept, NEW r \in Parties, Round(r, Peer[r]), NEW p \in Parties, Poll(p)
    PROVE  Kept' /\ Round(r, Peer[r])'
<1>. DEFINE c == Peer[r]
<1>1. UNCHANGED <<ticks, net, known, auth, msgstate, key, fresh>> /\ Quiet
  BY DEF Poll
<1>2. Flow(p, {}, {})
  BY <1>1, FlowStill DEF Inv
<1>3. Kept'
  BY <1>1, <1>2, KeptStep DEF Kept
<1>4. c \in Parties
  BY PeerFacts
<1>5. Arriving(r)' = {} /\ Arriving(c)' = {} /\ ~Starting(c)'
  <2>1. Arriving(r) = {} /\ Arriving(c) = {} /\ ~Starting(c)
    BY <1>1, <1>4, QuietLines DEF Inv
  <2>2. \A q \in Parties : Arriving(q)' = Arriving(q)
    BY <1>1 DEF Arriving
  <2>3. Starting(c)' <=> Starting(c)
    BY <1>1 DEF Starting
  <2> QED BY <1>4, <2>1, <2>2, <2>3
<1>6. auth[r].state = "NONE" /\ auth[c].state = "NONE" /\ key[r] = key[c]
  BY <1>1, <1>4, QuietAsking DEF Inv
<1>. HIDE DEF c
<1>7. Asking(r, c)'
  BY <1>1, <1>5, <1>6, AskingEmpty
<1> QED BY <1>3, <1>7 DEF Round, c

LEMMA InitRounds == Init => Rounds
<1>. SUFFICES ASSUME Init PROVE Rounds
  OBVIOUS
<1>1. \A p \in Parties : /\ ticks[p] = <<>> /\ net[p] = <<>> /\ auth[p].state = "NONE"
                         /\ msgstate[p] = "PLAINTEXT" /\ key[p] = NOKEY
  BY DEF Init, Idle
<1>2. ASSUME NEW p \in Parties PROVE Arriving(p) = {} /\ ~Starting(p) /\ InTurn(ticks[p])
  <2>1. DOMAIN ticks[p] = {} /\ DOMAIN net[p] = {}
    BY <1>1
  <2> QED BY <2>1 DEF Arriving, Starting, InTurn
<1>3. Kept
  BY <1>1, <1>2 DEF Kept, View
<1>4. PICK r \in Parties : TRUE
  BY ChatAssumption
<1>5. Peer[r] \in Parties
  BY PeerFacts
<1>6. Asking(r, Peer[r])
  BY <1>1, <1>2, <1>5 DEF Asking, Only, Has, Readable, LastCommit, NotBehind
<1> QED BY <1>3, <1>6 DEF Rounds, Round

LEMMA StepRounds ==
    ASSUME Inv, Rounds, Types', NEW p \in Parties,
           \/ Start(p) \/ Send(p) \/ End(p)
           \/ Deliver(p) \/ Lose(p) \/ Restart(p)
           \/ RunTick(p) \/ Poll(p)
    PROVE  Rounds'
<1>. SUFFICES ASSUME used'.intact PROVE Kept' /\ \E r \in Parties : Round(r, Peer[r])'
  BY DEF Rounds
<1>1. used \in [starts : 0..MaxStarts, events : 0..MaxEvents, intact : BOOLEAN]
  BY DEF Inv, Types, TypeOK
<1>2. ~End(p) /\ ~Lose(p) /\ ~Restart(p)
  BY <1>1 DEF End, Lose, Restart, Fault
<1>3. used.intact
  <2>1. CASE Start(p)
    BY <1>1, <2>1 DEF Start
  <2>2. CASE Send(p)
    BY <1>1, <2>2 DEF Send
  <2>3. CASE Deliver(p) \/ RunTick(p) \/ Poll(p)
    BY <2>3 DEF Deliver, RunTick, RunStart, RunSend, RunEnd, RunRecv, TickCorrupts, NextTick, Poll
  <2> QED BY <1>2, <2>1, <2>2, <2>3
<1>4. Kept /\ \E r \in Parties : Round(r, Peer[r])
  BY <1>3 DEF Rounds
<1>5. PICK r \in Parties : Round(r, Peer[r])
  BY <1>4
<1>6. ~RunEnd(p)
  BY <1>4, TickInTurn DEF RunEnd, Inv
<1>7. CASE Start(p)
  BY <1>4, <1>5, <1>7, RoundStart
<1>8. CASE Send(p) \/ Deliver(p) \/ TickCorrupts(p)
  BY <1>4, <1>5, <1>8, RoundStill
<1>9. CASE RunStart(p)
  BY <1>4, <1>5, <1>9, RoundRunStart
<1>10. CASE RunSend(p)
  BY <1>4, <1>5, <1>10, RoundRunSend
<1>11. CASE RunRecv(p)
  BY <1>4, <1>5, <1>11, RoundRecv
<1>12. CASE Poll(p)
  BY <1>4, <1>5, <1>12, RoundPoll
<1> QED BY <1>2, <1>6, <1>7, <1>8, <1>9, <1>10, <1>11, <1>12 DEF RunTick

LEMMA NextRounds == Inv /\ Inv' /\ Rounds /\ [Next]_vars => Rounds'
<1>. SUFFICES ASSUME Inv, Inv', Rounds, [Next]_vars PROVE Rounds'
  OBVIOUS
<1>1. CASE Next
  BY <1>1, StepRounds DEF Next, Inv
<1>2. CASE UNCHANGED vars
  <2>. SUFFICES ASSUME used'.intact PROVE Kept' /\ \E r \in Parties : Round(r, Peer[r])'
    BY DEF Rounds
  <2>1. UNCHANGED <<ticks, net, known, commit, auth, msgstate, key, fresh, used>>
    BY <1>2 DEF vars, contextVars
  <2>2. Kept /\ \E r \in Parties : Round(r, Peer[r])
    BY <2>1 DEF Rounds
  <2>3. PICK r \in Parties : Round(r, Peer[r])
    BY <2>2
  <2>4. PICK p \in Parties : TRUE
    BY <2>3
  <2>5. Flow(p, {}, {})
    BY <2>1, FlowStill DEF Inv
  <2>6. \A q \in Parties : InTurn(ticks'[q]) /\ (Starting(q)' => Starting(q))
    BY <2>1, <2>2 DEF Kept, Starting
  <2>7. Kept'
    BY <2>1, <2>2, <2>5, <2>6, KeptStep DEF Kept
  <2>8. \A q \in Parties : Shrinks(q, {}) /\ Same(q)
    BY <2>1, <2>5, <2>6 DEF Flow, Shrinks, Same
  <2>9. Round(r, Peer[r])'
    BY <2>3, <2>8, PeerFacts, RoundShrinks
  <2> QED BY <2>7, <2>9
<1> QED BY <1>1, <1>2

\* While nothing is lost and nobody goes, there is one exchange at a time.
THEOREM RoundsHold == Spec => []Rounds
<1>1. Inv /\ Inv' /\ Rounds /\ [Next]_vars => Rounds'
  BY NextRounds
<1> QED BY <1>1, InvHolds, InitRounds, PTL DEF Spec

\* With nothing lost, nobody gone and every start() made in peace, the two
\* conversations end up private with one key, or neither is private: however
\* often a key is replaced, and whatever is said meanwhile.
THEOREM AgreementHolds == Spec => []AgreeWhenQuiet
<1>1. Inv /\ Rounds => AgreeWhenQuiet
  <2>. SUFFICES ASSUME Inv, Rounds, Quiet, used.intact
                PROVE  Together \/ \A p \in Parties : msgstate[p] # "ENCRYPTED"
    BY DEF AgreeWhenQuiet
  <2>1. PICK r \in Parties : Round(r, Peer[r])
    BY DEF Rounds
  <2>2. key[r] = key[Peer[r]]
    BY <2>1, QuietAsking, PeerFacts DEF Inv
  <2>3. \A p \in Parties : key[p] = key[r] /\ key[p] = key[Peer[p]]
    BY <2>2, Roles
  <2>4. \A p \in Parties : msgstate[p] = View(key[r])
    BY <2>3 DEF Rounds, Kept
  <2>5. CASE key[r] = NOKEY
    BY <2>4, <2>5 DEF View
  <2>6. CASE key[r] # NOKEY
    BY <2>3, <2>4, <2>6 DEF View, Together
  <2> QED BY <2>5, <2>6
<1> QED BY <1>1, InvHolds, RoundsHold, PTL

=============================================================================
