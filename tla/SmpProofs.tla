----------------------------- MODULE SmpProofs ------------------------------
(* Theorems about Smp, for any secrets and any number of calls.              *)
EXTENDS Smp, TLAPS

\* What the parts of a queued tick can be.
LEMMA TickFields ==
    ASSUME NEW t \in Tick
    PROVE  /\ t.op \in {"init", "respond", "abort", "owed", "end", "recv"}
           /\ t.op \in {"init", "respond"} => t.id \in Id /\ t.sec \in Secrets
           /\ t.op = "recv" => t.msg \in Message
BY DEF Tick

LEMMA PeerFacts ==
    ASSUME NEW p \in Parties
    PROVE  Peer[p] \in Parties /\ Peer[p] # p /\ Peer[Peer[p]] = p
BY SmpAssumption

\* The first tick of a queue that is not empty, and the rest of the queue.
LEMMA QueueHead ==
    ASSUME TypeOK, NEW p \in Parties, ticks[p] # <<>>
    PROVE  Head(ticks[p]) \in Tick /\ Tail(ticks[p]) \in Seq(Tick)
BY DEF TypeOK

LEMMA QueueTyped ==
    ASSUME TypeOK, NEW p \in Parties, NEW t \in Tick, Queue(p, t)
    PROVE  /\ calls' \in 0..MaxCalls
           /\ ticks' \in [Parties -> Seq(Tick)]
           /\ UNCHANGED <<net, enc, sm, proc, done, lost>>
BY SmpAssumption DEF Queue, TypeOK

LEMMA DoneTyped ==
    ASSUME TypeOK, NEW p \in Parties, ticks[p] # <<>>, Done(p)
    PROVE  ticks' \in [Parties -> Seq(Tick)]
<1>1. Tail(ticks[p]) \in Seq(Tick)
  BY QueueHead
<1> QED BY <1>1 DEF Done, TypeOK

LEMMA ErrorTyped ==
    ASSUME TypeOK, NEW p \in Parties, ticks[p] # <<>>, Error(p)
    PROVE  /\ ticks' \in [Parties -> Seq(Tick)]
           /\ mine' \in [Parties -> Id \cup {NONE}]
<1>1. Tail(ticks[p]) \in Seq(Tick) /\ [op |-> "owed"] \in Tick
  BY QueueHead DEF Tick
<1>2. Append(Tail(ticks[p]), [op |-> "owed"]) \in Seq(Tick)
  BY <1>1
<1> QED BY <1>2 DEF Error, TypeOK

LEMMA SendTyped ==
    ASSUME TypeOK, NEW p \in Parties, NEW m \in Message, Send(p, m)
    PROVE  net' \in [Parties -> Seq(Message)]
<1>1. Append(net[Peer[p]], m) \in Seq(Message)
  BY PeerFacts DEF TypeOK
<1> QED BY <1>1 DEF Send, TypeOK

LEMMA MsgTyped ==
    /\ \A type \in {"smp1", "smp2", "smp3", "smp4"}, run \in Id,
         resp \in Id \cup {NONE}, sec \in Secrets \cup {NONE} :
         Msg(type, run, resp, sec) \in Message
    /\ \A type \in {"abort", "bye"} : Msg(type, NONE, NONE, NONE) \in Message
BY DEF Msg, Message

\* What the parts of a message can be.
LEMMA MessageFields ==
    ASSUME NEW m \in Message
    PROVE  /\ m.type \in {"smp1", "smp2", "smp3", "smp4", "abort", "bye"}
           /\ m.type \in {"smp1", "smp2", "smp3", "smp4"} => m.run \in Id
           /\ m.resp \in Id \cup {NONE}
           /\ m.sec \in Secrets \cup {NONE}
BY DEF Message

\* The SMP states before the first run of a conversation, and those after.
Fresh == [next : {1}, ready : {FALSE}, run : {NONE}, resp : {NONE}, sec : {NONE}]

Started == [next : 1..4, ready : {TRUE}, run : Id,
            resp : Id \cup {NONE}, sec : Secrets \cup {NONE}]

\* What the parts of an SMP state can be.
LEMMA FreshFields ==
    ASSUME NEW s \in Fresh
    PROVE  /\ s.next = 1 /\ s.ready = FALSE
           /\ s.run = NONE /\ s.resp = NONE /\ s.sec = NONE
BY DEF Fresh

LEMMA StartedFields ==
    ASSUME NEW s \in Started
    PROVE  /\ s.next \in 1..4 /\ s.ready = TRUE /\ s.run \in Id
           /\ s.resp \in Id \cup {NONE} /\ s.sec \in Secrets \cup {NONE}
BY DEF Started

LEMMA SmKinds ==
    ASSUME NEW s \in SmState
    PROVE  /\ s \in Fresh \cup Started
           /\ s.next # 1 => s \in Started
           /\ s.ready => s \in Started
<1>1. s \in Fresh \cup Started
  BY DEF SmState, Fresh, Started
<1> QED BY <1>1, FreshFields

LEMMA SmFields ==
    ASSUME NEW s \in SmState
    PROVE  /\ s.next \in 1..4
           /\ s.run \in Id \cup {NONE}
           /\ s.resp \in Id \cup {NONE}
           /\ s.sec \in Secrets \cup {NONE}
<1>1. CASE s \in Fresh
  <2>1. s.next = 1 /\ s.run = NONE /\ s.resp = NONE /\ s.sec = NONE
    BY <1>1, FreshFields
  <2> QED BY <2>1
<1>2. CASE s \in Started
  BY <1>2, StartedFields
<1> QED BY <1>1, <1>2, SmKinds

\* Which of the parts are changed.
LEMMA SmNext ==
    ASSUME NEW s \in SmState
    PROVE  /\ \A r : [s EXCEPT !.ready = TRUE, !.run = r, !.resp = NONE].next = s.next
           /\ \A n, r, c : [s EXCEPT !.next = n, !.resp = r, !.sec = c].next = n
           /\ [s EXCEPT !.next = 1].next = 1 /\ [s EXCEPT !.next = 1].run = s.run
BY DEF SmState

\* What they can become.
LEMMA StartedEdit ==
    ASSUME NEW s \in Started, NEW n \in 1..4, NEW r \in Id \cup {NONE},
           NEW c \in Secrets \cup {NONE}
    PROVE  /\ [s EXCEPT !.next = n, !.resp = r] \in SmState
           /\ [s EXCEPT !.next = n, !.resp = r, !.sec = c] \in SmState
<1>1. /\ [s EXCEPT !.next = n, !.resp = r] \in Started
      /\ [s EXCEPT !.next = n, !.resp = r, !.sec = c] \in Started
  BY DEF Started
<1> QED BY <1>1 DEF SmState, Started

LEMMA SmEdit ==
    ASSUME NEW s \in SmState
    PROVE  /\ Idle \in SmState
           /\ [s EXCEPT !.next = 1] \in SmState
           /\ \A r \in Id : [s EXCEPT !.ready = TRUE, !.run = r, !.resp = NONE] \in SmState
<1>1. Idle \in SmState
  BY DEF Idle, SmState
<1>2. [s EXCEPT !.next = 1] \in SmState
  <2>1. CASE s \in Fresh
    <3>1. [s EXCEPT !.next = 1] \in Fresh
      BY <2>1 DEF Fresh
    <3> QED BY <3>1 DEF Fresh, SmState
  <2>2. CASE s \in Started
    <3>1. [s EXCEPT !.next = 1] \in Started
      BY <2>2, 1 \in 1..4 DEF Started
    <3> QED BY <3>1 DEF Started, SmState
  <2> QED BY <2>1, <2>2, SmKinds
<1>3. ASSUME NEW r \in Id
      PROVE  [s EXCEPT !.ready = TRUE, !.run = r, !.resp = NONE] \in SmState
  <2> DEFINE e == [s EXCEPT !.ready = TRUE, !.run = r, !.resp = NONE]
  <2>1. e \in [next : 1..4, ready : {TRUE}, run : Id, resp : {NONE}, sec : Secrets \cup {NONE}]
    <3>1. CASE s \in Fresh
      <4>1. e \in [next : {1}, ready : {TRUE}, run : Id, resp : {NONE}, sec : {NONE}]
        BY <3>1 DEF Fresh
      <4> HIDE DEF e
      <4>2. {1} \subseteq 1..4 /\ {NONE} \subseteq Secrets \cup {NONE}
        OBVIOUS
      <4> QED BY <4>1, <4>2
    <3>2. CASE s \in Started
      BY <3>2 DEF Started
    <3> QED BY <3>1, <3>2, SmKinds
  <2> HIDE DEF e
  <2>2. e \in Started
    BY <2>1 DEF Started
  <2>3. e \in SmState
    BY <2>2 DEF Started, SmState
  <2> QED BY <2>3 DEF e
<1> QED BY <1>1, <1>2, <1>3

LEMMA InitTypeOK == Init => TypeOK
<1> SUFFICES ASSUME Init PROVE TypeOK
  OBVIOUS
<1>1. ticks \in [Parties -> Seq(Tick)] /\ net \in [Parties -> Seq(Message)]
  BY DEF Init
<1>2. sm \in [Parties -> SmState]
  BY DEF Init, Idle, SmState
<1>3. calls \in 0..MaxCalls
  BY SmpAssumption DEF Init
<1> QED BY <1>1, <1>2, <1>3 DEF Init, TypeOK

\* A method of the application queues a closure, which is not an owed abort.
LEMMA CallTick ==
    ASSUME TypeOK, NEW p \in Parties, Application(p)
    PROVE  \E t \in Tick : /\ t.op \in {"init", "respond", "abort", "end"}
                          /\ Queue(p, t)
<1>1. \A s \in Secrets, n \in 0..MaxCalls : n < MaxCalls =>
        /\ [op |-> "init", id |-> n + 1, sec |-> s] \in Tick
        /\ [op |-> "respond", id |-> n + 1, sec |-> s] \in Tick
  BY SmpAssumption DEF Tick, Id
<1>2. [op |-> "abort"] \in Tick /\ [op |-> "end"] \in Tick
  BY DEF Tick
<1>3. CASE SmpStart(p)
  <2>1. PICK s \in Secrets : Queue(p, [op |-> "init", id |-> calls + 1, sec |-> s])
    BY <1>3 DEF SmpStart
  <2>2. [op |-> "init", id |-> calls + 1, sec |-> s] \in Tick
    BY <1>1, <2>1 DEF Queue, TypeOK
  <2> QED BY <2>1, <2>2
<1>4. CASE SmpRespond(p)
  <2>1. PICK s \in Secrets : Queue(p, [op |-> "respond", id |-> calls + 1, sec |-> s])
    BY <1>4 DEF SmpRespond
  <2>2. [op |-> "respond", id |-> calls + 1, sec |-> s] \in Tick
    BY <1>1, <2>1 DEF Queue, TypeOK
  <2> QED BY <2>1, <2>2
<1>5. CASE SmpAbort(p) \/ End(p)
  BY <1>2, <1>5 DEF SmpAbort, End
<1> QED BY <1>3, <1>4, <1>5 DEF Application

LEMMA ApplicationTypeOK ==
    ASSUME TypeOK, NEW p \in Parties, Application(p)
    PROVE  TypeOK'
<1>1. asked' \in [Parties -> BOOLEAN] /\ UNCHANGED mine
  BY DEF Application, SmpStart, SmpRespond, SmpAbort, End, TypeOK
<1>2. PICK t \in Tick : Queue(p, t)
  BY CallTick
<1>3. /\ calls' \in 0..MaxCalls
      /\ ticks' \in [Parties -> Seq(Tick)]
      /\ UNCHANGED <<net, enc, sm, proc, done, lost>>
  BY <1>2, QueueTyped
<1> QED BY <1>1, <1>3 DEF TypeOK

\* The closures of the methods.
LEMMA RunTypeOK ==
    ASSUME TypeOK, NEW p \in Parties,
           RunInit(p) \/ RunRespond(p) \/ RunAbort(p) \/ RunEnd(p)
    PROVE  TypeOK'
<1> DEFINE t == Head(ticks[p])
<1>1. ticks[p] # <<>> /\ Done(p)
  BY DEF RunInit, RunRespond, RunAbort, RunEnd, Run
<1>2. ticks' \in [Parties -> Seq(Tick)] /\ t \in Tick
  BY <1>1, DoneTyped, QueueHead
<1>3. t.op \in {"init", "respond"} => t.id \in Id /\ t.sec \in Secrets
  BY <1>2, TickFields
<1>4. sm \in [Parties -> SmState] /\ sm[p] \in SmState
  BY DEF TypeOK
<1> HIDE DEF t
<1>5. CASE RunInit(p)
  <2>1. t.id \in Id /\ t.sec \in Secrets
    BY <1>3, <1>5 DEF RunInit, Run, t
  <2>2. \/ UNCHANGED <<sm, net, mine>>
        \/ /\ sm' = [sm EXCEPT ![p] = [next |-> 2, ready |-> TRUE, run |-> t.id,
                                       resp |-> NONE, sec |-> t.sec]]
           /\ Send(p, Msg("smp1", t.id, NONE, NONE))
           /\ mine' = [mine EXCEPT ![p] = IF AbortOwed(p) THEN NONE ELSE t.id]
    BY <1>5 DEF RunInit, t
  <2>3. [next |-> 2, ready |-> TRUE, run |-> t.id, resp |-> NONE, sec |-> t.sec] \in SmState
    BY <2>1 DEF SmState
  <2>4. Msg("smp1", t.id, NONE, NONE) \in Message
    BY <2>1, MsgTyped
  <2>5. sm' \in [Parties -> SmState]
    BY <1>4, <2>2, <2>3
  <2>6. net' \in [Parties -> Seq(Message)]
    BY <2>2, <2>4, SendTyped DEF TypeOK
  <2>7. mine' \in [Parties -> Id \cup {NONE}]
    BY <2>1, <2>2 DEF TypeOK
  <2> QED BY <1>2, <1>5, <2>5, <2>6, <2>7 DEF RunInit, TypeOK
<1>6. CASE RunRespond(p)
  <2>1. t.id \in Id /\ t.sec \in Secrets
    BY <1>3, <1>6 DEF RunRespond, Run, t
  <2>2. /\ \/ UNCHANGED <<sm, net>>
           \/ /\ sm[p].ready
              /\ sm' = [sm EXCEPT ![p].next = 3, ![p].resp = t.id, ![p].sec = t.sec]
              /\ Send(p, Msg("smp2", sm[p].run, t.id, t.sec))
        /\ proc' \in {"running", "corrupt"}
    BY <1>6 DEF RunRespond, TypeOK, t
  <2>3. sm[p].ready => Msg("smp2", sm[p].run, t.id, t.sec) \in Message
    BY <1>4, <2>1, MsgTyped, SmKinds, StartedFields
  <2>4. net' \in [Parties -> Seq(Message)]
    BY <2>2, <2>3, SendTyped DEF TypeOK
  <2>5. ASSUME sm[p].ready
        PROVE  [sm[p] EXCEPT !.next = 3, !.resp = t.id, !.sec = t.sec] \in SmState
    <3>1. sm[p] \in Started
      BY <1>4, <2>5, SmKinds
    <3>2. 3 \in 1..4 /\ t.id \in Id \cup {NONE} /\ t.sec \in Secrets \cup {NONE}
      BY <2>1
    <3> QED BY <3>1, <3>2, StartedEdit
  <2>6. sm' \in [Parties -> SmState]
    BY <1>4, <2>2, <2>5
  <2> QED BY <1>2, <1>6, <2>2, <2>4, <2>6 DEF RunRespond, TypeOK
<1>7. CASE RunAbort(p)
  <2>1. sm' \in [Parties -> SmState]
    BY <1>4, <1>7, SmEdit DEF RunAbort
  <2>2. net' \in [Parties -> Seq(Message)]
    BY <1>7, MsgTyped, SendTyped DEF RunAbort, TypeOK
  <2>3. mine' \in [Parties -> Id \cup {NONE}]
    BY <1>7 DEF RunAbort, TypeOK
  <2> QED BY <1>2, <1>7, <2>1, <2>2, <2>3 DEF RunAbort, TypeOK
<1>8. CASE RunEnd(p)
  <2>1. sm' \in [Parties -> SmState]
    BY <1>4, <1>8, SmEdit DEF RunEnd
  <2>2. net' \in [Parties -> Seq(Message)]
    BY <1>8, MsgTyped, SendTyped DEF RunEnd, TypeOK
  <2> QED BY <1>2, <1>8, <2>1, <2>2 DEF RunEnd, TypeOK
<1> QED BY <1>5, <1>6, <1>7, <1>8

\* The events of recv().
LEMMA ReceiveTypeOK ==
    ASSUME TypeOK, NEW p \in Parties,
           \/ ReceiveUnread(p) \/ ReceiveBye(p) \/ ReceiveRequest(p)
           \/ ReceiveUnexpected(p) \/ ReceiveCheated(p) \/ ReceiveResponse(p)
           \/ ReceiveProof(p) \/ ReceiveEnd(p) \/ ReceiveAbort(p)
    PROVE  TypeOK'
<1> DEFINE m == Received(p)
<1>1. ticks[p] # <<>> /\ Head(ticks[p]).op = "recv"
  BY DEF ReceiveUnread, ReceiveBye, ReceiveRequest, ReceiveUnexpected, ReceiveCheated,
         ReceiveResponse, ReceiveProof, ReceiveEnd, ReceiveAbort, Receiving, Run
<1>2. m \in Message
  BY <1>1, QueueHead, TickFields DEF Received
<1>3. /\ m.type \in {"smp1", "smp2", "smp3", "smp4"} => m.run \in Id
      /\ m.resp \in Id \cup {NONE}
  BY <1>2, MessageFields
<1>4. sm \in [Parties -> SmState] /\ sm[p] \in SmState
  BY DEF TypeOK
<1>5. sm[p].sec \in Secrets \cup {NONE}
  BY <1>4, SmFields
<1>6. Done(p) => ticks' \in [Parties -> Seq(Tick)]
  BY <1>1, DoneTyped
<1>7. Error(p) => /\ ticks' \in [Parties -> Seq(Tick)]
                  /\ mine' \in [Parties -> Id \cup {NONE}]
  BY <1>1, ErrorTyped
<1>8. sm' = [sm EXCEPT ![p].next = 1] => sm' \in [Parties -> SmState]
  BY <1>4, SmEdit
<1>9. \A r \in Id : \A same :
        Outcome(p, r, same) => /\ Done(p)
                               /\ mine' \in [Parties -> Id \cup {NONE}]
                               /\ done' \in [Parties -> SUBSET Id]
  BY DEF Outcome, TypeOK
<1>m. ASSUME NEW types, Receiving(p, types)
      PROVE  m.type \in types /\ UNCHANGED <<calls, proc, lost>>
  BY <1>m DEF Receiving, Received
<1> HIDE DEF m
<1>10. CASE ReceiveUnread(p)
  BY <1>6, <1>10 DEF ReceiveUnread, Receiving, TypeOK
<1>11. CASE ReceiveBye(p)
  <2>1. sm' \in [Parties -> SmState]
    BY <1>4, <1>11, SmEdit DEF ReceiveBye
  <2> QED BY <1>6, <1>11, <2>1 DEF ReceiveBye, Receiving, TypeOK
<1>12. CASE ReceiveRequest(p)
  <2>1. m.run \in Id
    BY <1>3, <1>12 DEF ReceiveRequest, Receiving, m, Received
  <2>2. [sm[p] EXCEPT !.ready = TRUE, !.run = m.run, !.resp = NONE] \in SmState
    BY <1>4, <2>1, SmEdit
  <2>3. sm' = [sm EXCEPT ![p] = [sm[p] EXCEPT !.ready = TRUE, !.run = m.run, !.resp = NONE]]
    BY <1>12 DEF ReceiveRequest, m
  <2>4. sm' \in [Parties -> SmState]
    BY <1>4, <2>2, <2>3
  <2> QED BY <1>6, <1>12, <2>4 DEF ReceiveRequest, Receiving, TypeOK
<1>13. CASE ReceiveUnexpected(p)
  BY <1>7, <1>13 DEF ReceiveUnexpected, Receiving, TypeOK
<1>14. CASE ReceiveCheated(p)
  BY <1>7, <1>8, <1>14 DEF ReceiveCheated, Receiving, TypeOK
<1>15. CASE ReceiveResponse(p)
  <2>1. m.run \in Id
    BY <1>3, <1>15 DEF ReceiveResponse, Receiving, m, Received
  <2>2. /\ sm[p].next = 2
        /\ sm' = [sm EXCEPT ![p] = [sm[p] EXCEPT !.next = 4, !.resp = m.resp]]
        /\ Send(p, Msg("smp3", m.run, m.resp, sm[p].sec))
        /\ Done(p) /\ UNCHANGED <<calls, enc, asked, proc, mine, done, lost>>
    BY <1>15 DEF ReceiveResponse, InProgress, Receiving, m
  <2>3. [sm[p] EXCEPT !.next = 4, !.resp = m.resp] \in SmState
    <3>1. sm[p] \in Started
      BY <1>4, <2>2, SmKinds
    <3>2. 4 \in 1..4 /\ m.resp \in Id \cup {NONE}
      BY <1>3
    <3> QED BY <1>5, <3>1, <3>2, StartedEdit
  <2>4. sm' \in [Parties -> SmState]
    BY <1>4, <2>2, <2>3
  <2>5. net' \in [Parties -> Seq(Message)]
    BY <1>3, <1>5, <2>1, <2>2, MsgTyped, SendTyped
  <2> QED BY <1>6, <2>2, <2>4, <2>5 DEF TypeOK
<1>16. CASE ReceiveProof(p)
  <2>1. m.run \in Id
    BY <1>3, <1>16 DEF ReceiveProof, Receiving, m, Received
  <2>2. /\ sm' = [sm EXCEPT ![p].next = 1]
        /\ Send(p, Msg("smp4", m.run, m.resp, sm[p].sec))
        /\ Outcome(p, m.run, m.sec = sm[p].sec)
        /\ UNCHANGED <<calls, enc, asked, proc, lost>>
    BY <1>16 DEF ReceiveProof, Receiving, m
  <2>3. net' \in [Parties -> Seq(Message)]
    BY <1>3, <1>5, <2>1, <2>2, MsgTyped, SendTyped
  <2> QED BY <1>6, <1>8, <1>9, <2>1, <2>2, <2>3 DEF TypeOK
<1>17. CASE ReceiveEnd(p)
  <2>1. m.run \in Id
    BY <1>3, <1>17 DEF ReceiveEnd, Receiving, m, Received
  <2>2. /\ sm' = [sm EXCEPT ![p].next = 1]
        /\ Outcome(p, m.run, m.sec = sm[p].sec)
        /\ UNCHANGED <<calls, net, enc, asked, proc, lost>>
    BY <1>17 DEF ReceiveEnd, Receiving, m
  <2> QED BY <1>6, <1>8, <1>9, <2>1, <2>2 DEF TypeOK
<1>18. CASE ReceiveAbort(p)
  BY <1>6, <1>8, <1>18 DEF ReceiveAbort, Receiving, TypeOK
<1> QED
  BY <1>10, <1>11, <1>12, <1>13, <1>14, <1>15, <1>16, <1>17, <1>18

\* The network.
LEMMA NetworkTypeOK ==
    ASSUME TypeOK, NEW p \in Parties, Deliver(p) \/ Lose(p)
    PROVE  TypeOK'
<1>1. net[p] # <<>>
  BY DEF Deliver, Lose
<1>2. Head(net[p]) \in Message /\ Tail(net[p]) \in Seq(Message)
  BY <1>1 DEF TypeOK
<1>3. net' \in [Parties -> Seq(Message)]
  BY <1>2 DEF Deliver, Lose, TypeOK
<1>4. [op |-> "recv", msg |-> Head(net[p])] \in Tick
  BY <1>2 DEF Tick
<1>5. Append(ticks[p], [op |-> "recv", msg |-> Head(net[p])]) \in Seq(Tick)
  BY <1>4 DEF TypeOK
<1>6. ticks' \in [Parties -> Seq(Tick)]
  BY <1>5 DEF Deliver, Lose, TypeOK
<1> QED BY <1>3, <1>6 DEF Deliver, Lose, TypeOK

LEMMA NextTypeOK == TypeOK /\ [Next]_vars => TypeOK'
<1> SUFFICES ASSUME TypeOK, [Next]_vars PROVE TypeOK'
  OBVIOUS
<1>1. CASE Next
  <2> PICK p \in Parties : Application(p) \/ RunTick(p) \/ Deliver(p) \/ Lose(p)
    BY <1>1 DEF Next
  <2> QED BY ApplicationTypeOK, RunTypeOK, ReceiveTypeOK, NetworkTypeOK DEF RunTick
<1>2. CASE UNCHANGED vars
  BY <1>2 DEF vars, TypeOK
<1> QED BY <1>1, <1>2

\* TypeOK, for any number of calls and any secrets: what is queued, what is on
\* its way and the SMP states have the shapes that are declared, and no closure
\* hands a secret to libotr that is not one.
THEOREM TypeCorrect == Spec => []TypeOK
BY InitTypeOK, NextTypeOK, PTL DEF Spec

-----------------------------------------------------------------------------

\* While an abort is owed, the run it will end is nobody's.
Owing == \A p \in Parties : AbortOwed(p) => mine[p] = NONE

\* Only the handler of an error adds to the aborts a party owes.
LEMMA OwedBefore ==
    ASSUME TypeOK, TypeOK', NEW p \in Parties,
           \/ ticks' = ticks
           \/ \E q \in Parties : ticks[q] # <<>> /\ Done(q)
           \/ \E q \in Parties, t \in Tick :
                t.op # "owed" /\ ticks' = [ticks EXCEPT ![q] = Append(@, t)],
           AbortOwed(p)'
    PROVE  AbortOwed(p)
<1>1. ticks[p] \in Seq(Tick) /\ ticks'[p] \in Seq(Tick)
  BY DEF TypeOK
<1>2. CASE ticks'[p] = ticks[p]
  BY <1>2 DEF AbortOwed
<1>3. CASE ticks[p] # <<>> /\ ticks'[p] = Tail(ticks[p])
  <2>1. PICK k \in DOMAIN ticks'[p] : ticks'[p][k].op = "owed"
    BY DEF AbortOwed
  <2>2. k + 1 \in DOMAIN ticks[p] /\ ticks'[p][k] = ticks[p][k + 1]
    BY <1>1, <1>3, <2>1
  <2> QED BY <2>1, <2>2 DEF AbortOwed
<1>4. ASSUME NEW t \in Tick, t.op # "owed", ticks'[p] = Append(ticks[p], t)
      PROVE  AbortOwed(p)
  <2>1. PICK k \in DOMAIN ticks'[p] : ticks'[p][k].op = "owed"
    BY DEF AbortOwed
  <2>2. k \in DOMAIN ticks[p] /\ ticks'[p][k] = ticks[p][k]
    BY <1>1, <1>4, <2>1
  <2> QED BY <2>1, <2>2 DEF AbortOwed
<1>5. \/ ticks'[p] = ticks[p]
      \/ ticks[p] # <<>> /\ ticks'[p] = Tail(ticks[p])
      \/ \E t \in Tick : t.op # "owed" /\ ticks'[p] = Append(ticks[p], t)
  <2>1. CASE ticks' = ticks
    BY <2>1
  <2>2. CASE \E q \in Parties : ticks[q] # <<>> /\ Done(q)
    BY <2>2 DEF Done, TypeOK
  <2>3. CASE \E q \in Parties, t \in Tick :
               t.op # "owed" /\ ticks' = [ticks EXCEPT ![q] = Append(@, t)]
    BY <2>3 DEF TypeOK
  <2> QED BY <2>1, <2>2, <2>3
<1> QED BY <1>2, <1>3, <1>4, <1>5

\* What a step does to the run that a party has started: it goes on, with the
\* SMP state busy, or it is over and is told so.
Told == Owing /\ ToldWhenOver

\* A step that does not owe an abort keeps Told if each party's run goes on
\* with its SMP state not idle, or begins with none owed, or is no more.
LEMMA ToldKept ==
    ASSUME TypeOK, TypeOK', Told,
           \/ ticks' = ticks
           \/ \E q \in Parties : ticks[q] # <<>> /\ Done(q)
           \/ \E q \in Parties, t \in Tick :
                t.op # "owed" /\ ticks' = [ticks EXCEPT ![q] = Append(@, t)],
           \A p \in Parties :
             \/ mine'[p] = NONE
             \/ mine'[p] = mine[p] /\ (sm'[p].next = sm[p].next \/ sm'[p].next # 1)
             \/ ~AbortOwed(p) /\ sm'[p].next # 1
    PROVE  Told'
<1>1. Owing'
  <2> SUFFICES ASSUME NEW p \in Parties, AbortOwed(p)' PROVE mine'[p] = NONE
    BY DEF Owing
  <2>1. AbortOwed(p)
    BY OwedBefore
  <2> QED BY <2>1 DEF Told, Owing
<1>2. ToldWhenOver'
  BY DEF Told, ToldWhenOver
<1> QED BY <1>1, <1>2 DEF Told

\* The handler of an error tells, and owes.
LEMMA ToldError ==
    ASSUME TypeOK, TypeOK', Told, NEW p \in Parties, ticks[p] # <<>>, Error(p),
           \A q \in Parties : q # p => sm'[q] = sm[q]
    PROVE  Told'
<1>1. mine'[p] = NONE /\ \A q \in Parties : q # p => mine'[q] = mine[q] /\ ticks'[q] = ticks[q]
  BY DEF Error, TypeOK
<1> QED BY <1>1 DEF Told, Owing, ToldWhenOver, AbortOwed

LEMMA NextTold ==
    ASSUME TypeOK, TypeOK', Told, [Next]_vars
    PROVE  Told'
<1>1. CASE UNCHANGED vars
  BY <1>1, ToldKept DEF vars
<1>2. ASSUME NEW p \in Parties, Application(p)
      PROVE  Told'
  <2>1. UNCHANGED <<sm, mine>>
    BY <1>2 DEF Application, SmpStart, SmpRespond, SmpAbort, End, Queue
  <2>2. \E t \in Tick : t.op # "owed" /\ ticks' = [ticks EXCEPT ![p] = Append(@, t)]
    BY <1>2, CallTick DEF Queue
  <2> QED BY <2>1, <2>2, ToldKept
<1>3. ASSUME NEW p \in Parties, RunInit(p) \/ RunRespond(p) \/ RunAbort(p) \/ RunEnd(p)
      PROVE  Told'
  <2>1. ticks[p] # <<>> /\ Done(p)
    BY <1>3 DEF RunInit, RunRespond, RunAbort, RunEnd, Run
  <2>2. \A q \in Parties : q # p => mine'[q] = mine[q] /\ sm'[q] = sm[q]
    BY <1>3 DEF RunInit, RunRespond, RunAbort, RunEnd, TypeOK
  <2>3. CASE RunInit(p)
    <3>1. CASE CanStart(p)
      <4>1. sm'[p].next = 2 /\ (mine'[p] = NONE \/ ~AbortOwed(p))
        BY <2>3, <3>1 DEF RunInit, TypeOK
      <4> QED BY <2>1, <2>2, <4>1, ToldKept
    <3>2. CASE ~CanStart(p)
      BY <2>1, <2>3, <3>2, ToldKept DEF RunInit
    <3> QED BY <3>1, <3>2
  <2>4. CASE RunRespond(p)
    <3>1. sm[p] \in SmState
      BY DEF TypeOK
    <3> DEFINE t == Head(ticks[p])
    <3>2. mine' = mine
      BY <2>4 DEF RunRespond
    <3>3. CASE UNCHANGED sm
      BY <2>1, <2>2, <3>2, <3>3, ToldKept
    <3>4. CASE sm' = [sm EXCEPT ![p].next = 3, ![p].resp = t.id, ![p].sec = t.sec]
      <4> HIDE DEF t
      <4>1. sm'[p] = [sm[p] EXCEPT !.next = 3, !.resp = t.id, !.sec = t.sec]
        BY <3>4 DEF TypeOK
      <4>2. sm'[p].next = 3
        BY <3>1, <4>1, SmNext
      <4> QED BY <2>1, <2>2, <3>2, <4>2, ToldKept
    <3> QED BY <2>4, <3>3, <3>4 DEF RunRespond
  <2>5. CASE RunAbort(p)
    <3>1. Head(ticks[p]).op = "owed" => AbortOwed(p)
      <4>1. 1 \in DOMAIN ticks[p] /\ Head(ticks[p]) = ticks[p][1]
        BY <2>1 DEF TypeOK
      <4> QED BY <4>1 DEF AbortOwed
    <3>2. mine'[p] = NONE
      BY <2>5, <3>1 DEF RunAbort, Run, Told, Owing, TypeOK
    <3> QED BY <2>1, <2>2, <3>2, ToldKept
  <2>6. CASE RunEnd(p)
    <3>1. mine'[p] = NONE
      BY <2>6 DEF RunEnd, TypeOK
    <3> QED BY <2>1, <2>2, <3>1, ToldKept
  <2> QED BY <1>3, <2>3, <2>4, <2>5, <2>6
<1>4. ASSUME NEW p \in Parties, ReceiveUnexpected(p) \/ ReceiveCheated(p)
      PROVE  Told'
  <2>1. ticks[p] # <<>> /\ Error(p)
    BY <1>4 DEF ReceiveUnexpected, ReceiveCheated, Receiving, Run
  <2>2. \A q \in Parties : q # p => sm'[q] = sm[q]
    BY <1>4 DEF ReceiveUnexpected, ReceiveCheated, TypeOK
  <2> QED BY <2>1, <2>2, ToldError
<1>5. ASSUME NEW p \in Parties,
             \/ ReceiveUnread(p) \/ ReceiveBye(p) \/ ReceiveRequest(p) \/ ReceiveResponse(p)
             \/ ReceiveProof(p) \/ ReceiveEnd(p) \/ ReceiveAbort(p)
      PROVE  Told'
  <2>1. ticks[p] # <<>> /\ Done(p)
    BY <1>5 DEF ReceiveUnread, ReceiveBye, ReceiveRequest, ReceiveResponse, ReceiveProof,
                ReceiveEnd, ReceiveAbort, Receiving, Run, InProgress, Outcome
  <2>2. \A q \in Parties : q # p => mine'[q] = mine[q] /\ sm'[q] = sm[q]
    BY <1>5 DEF ReceiveUnread, ReceiveBye, ReceiveRequest, ReceiveResponse, ReceiveProof,
                ReceiveEnd, ReceiveAbort, InProgress, Outcome, TypeOK
  <2>3. CASE ReceiveUnread(p) \/ ReceiveRequest(p)
    <3>1. sm[p] \in SmState
      BY DEF TypeOK
    <3>2. mine'[p] = mine[p]
      BY <2>3 DEF ReceiveUnread, ReceiveRequest
    <3>3. CASE ReceiveRequest(p)
      <4> DEFINE r == Received(p).run
      <4>1. sm' = [sm EXCEPT ![p].ready = TRUE, ![p].run = r, ![p].resp = NONE]
        BY <3>3 DEF ReceiveRequest
      <4> HIDE DEF r
      <4>2. sm'[p] = [sm[p] EXCEPT !.ready = TRUE, !.run = r, !.resp = NONE]
        BY <4>1 DEF TypeOK
      <4>3. sm'[p].next = sm[p].next
        BY <3>1, <4>2, SmNext
      <4> QED BY <2>1, <2>2, <3>2, <4>3, ToldKept
    <3>4. CASE ReceiveUnread(p)
      BY <2>1, <2>2, <3>2, <3>4, ToldKept DEF ReceiveUnread
    <3> QED BY <2>3, <3>3, <3>4
  <2>4. CASE ReceiveResponse(p)
    <3>1. mine'[p] = mine[p] /\ sm'[p].next = 4
      BY <2>4, SmFields DEF ReceiveResponse, InProgress, TypeOK
    <3> QED BY <2>1, <2>2, <3>1, ToldKept
  <2>5. CASE ReceiveBye(p) \/ ReceiveProof(p) \/ ReceiveEnd(p) \/ ReceiveAbort(p)
    <3>1. mine'[p] = NONE
      BY <2>5 DEF ReceiveBye, ReceiveProof, ReceiveEnd, ReceiveAbort, Outcome, TypeOK
    <3> QED BY <2>1, <2>2, <3>1, ToldKept
  <2> QED BY <1>5, <2>3, <2>4, <2>5
<1>6. ASSUME NEW p \in Parties, Deliver(p) \/ Lose(p)
      PROVE  Told'
  <2>1. UNCHANGED <<sm, mine>>
    BY <1>6 DEF Deliver, Lose
  <2>2. CASE Deliver(p)
    <3>1. [op |-> "recv", msg |-> Head(net[p])] \in Tick
      BY <2>2 DEF Deliver, TypeOK, Tick
    <3>2. ticks' = [ticks EXCEPT ![p] = Append(@, [op |-> "recv", msg |-> Head(net[p])])]
      BY <2>2 DEF Deliver
    <3> QED BY <2>1, <3>1, <3>2, ToldKept
  <2>3. CASE Lose(p)
    BY <2>1, <2>3, ToldKept DEF Lose
  <2> QED BY <1>6, <2>2, <2>3
<1> QED BY <1>1, <1>2, <1>3, <1>4, <1>5, <1>6 DEF Next, RunTick

\* ToldWhenOver, for any number of calls and any secrets: whoever has started a
\* run of SMP and finds the state idle has had an event about it, in whatever
\* order closures, messages, errors and the aborts they owe come.
THEOREM ToldOnceOver == Spec => []ToldWhenOver
<1>1. Init => Told
  BY DEF Init, Told, Owing, ToldWhenOver
<1>2. TypeOK /\ TypeOK' /\ Told /\ [Next]_vars => Told'
  BY NextTold
<1>3. Told => ToldWhenOver
  BY DEF Told
<1> QED BY <1>1, <1>2, <1>3, TypeCorrect, PTL DEF Spec

-----------------------------------------------------------------------------
(* What is in a queue, and what comes last of its kind. *)

Within(s, T) == \E k \in DOMAIN s : s[k] \in T

LastIn(s, T, R) == \E k \in DOMAIN s : s[k] \in T /\ \A j \in DOMAIN s : j > k => s[j] \notin R

LEMMA WithinTail ==
    ASSUME NEW S, NEW s \in Seq(S), s # <<>>, NEW T
    PROVE  Within(s, T) <=> Head(s) \in T \/ Within(Tail(s), T)
<1>1. /\ DOMAIN s = 1..Len(s) /\ DOMAIN Tail(s) = 1..(Len(s) - 1)
      /\ Len(s) \in Nat /\ Len(s) >= 1 /\ Head(s) = s[1]
      /\ \A k \in 1..(Len(s) - 1) : Tail(s)[k] = s[k + 1]
  OBVIOUS
<1>2. ASSUME NEW k \in DOMAIN s, s[k] \in T PROVE Head(s) \in T \/ Within(Tail(s), T)
  <2>1. k = 1 \/ (k - 1 \in 1..(Len(s) - 1) /\ Tail(s)[k - 1] = s[k])
    BY <1>1
  <2>. QED BY <1>1, <1>2, <2>1 DEF Within
<1>3. ASSUME NEW k \in DOMAIN Tail(s), Tail(s)[k] \in T PROVE Within(s, T)
  <2>1. k + 1 \in DOMAIN s /\ s[k + 1] \in T
    BY <1>1, <1>3
  <2>. QED BY <2>1 DEF Within
<1>4. Head(s) \in T => Within(s, T)
  BY <1>1 DEF Within
<1>. QED BY <1>2, <1>3, <1>4 DEF Within

LEMMA WithinAppend ==
    ASSUME NEW S, NEW s \in Seq(S), NEW e \in S, NEW T
    PROVE  Within(Append(s, e), T) <=> Within(s, T) \/ e \in T
<1>1. /\ DOMAIN s = 1..Len(s) /\ DOMAIN Append(s, e) = 1..(Len(s) + 1) /\ Len(s) \in Nat
      /\ Append(s, e)[Len(s) + 1] = e
      /\ \A k \in 1..Len(s) : Append(s, e)[k] = s[k]
  OBVIOUS
<1>2. \A k \in 1..(Len(s) + 1) : k \in 1..Len(s) \/ k = Len(s) + 1
  BY <1>1
<1>3. Len(s) + 1 \in 1..(Len(s) + 1) /\ \A k \in 1..Len(s) : k \in 1..(Len(s) + 1)
  BY <1>1
<1>. QED BY <1>1, <1>2, <1>3 DEF Within

LEMMA LastInTail ==
    ASSUME NEW S, NEW s \in Seq(S), s # <<>>, NEW T, NEW R, LastIn(s, T, R)
    PROVE  LastIn(Tail(s), T, R) \/ (Head(s) \in T /\ ~Within(Tail(s), R))
<1>1. /\ DOMAIN s = 1..Len(s) /\ DOMAIN Tail(s) = 1..(Len(s) - 1)
      /\ Len(s) \in Nat /\ Len(s) >= 1 /\ Head(s) = s[1]
      /\ \A k \in 1..(Len(s) - 1) : Tail(s)[k] = s[k + 1]
  OBVIOUS
<1>2. PICK k \in DOMAIN s : s[k] \in T /\ \A j \in DOMAIN s : j > k => s[j] \notin R
  BY DEF LastIn
<1>3. \A j \in DOMAIN Tail(s) : j + 1 \in DOMAIN s /\ Tail(s)[j] = s[j + 1]
  BY <1>1
<1>4. CASE k = 1
  <2>1. \A j \in DOMAIN Tail(s) : j + 1 > k
    BY <1>1, <1>4
  <2>. QED BY <1>1, <1>2, <1>3, <1>4, <2>1 DEF Within
<1>5. CASE k # 1
  <2>1. k - 1 \in DOMAIN Tail(s) /\ Tail(s)[k - 1] = s[k]
    BY <1>1, <1>5
  <2>2. \A j \in DOMAIN Tail(s) : j > k - 1 => j + 1 > k
    BY <1>1
  <2>. QED BY <1>2, <1>3, <2>1, <2>2 DEF LastIn
<1>. QED BY <1>4, <1>5

LEMMA LastInAppend ==
    ASSUME NEW S, NEW s \in Seq(S), NEW e \in S, NEW T, NEW R
    PROVE  /\ e \in T => LastIn(Append(s, e), T, R)
           /\ LastIn(s, T, R) /\ e \notin R => LastIn(Append(s, e), T, R)
<1>1. /\ DOMAIN s = 1..Len(s) /\ DOMAIN Append(s, e) = 1..(Len(s) + 1) /\ Len(s) \in Nat
      /\ Append(s, e)[Len(s) + 1] = e
      /\ \A k \in 1..Len(s) : Append(s, e)[k] = s[k]
  OBVIOUS
<1>2. ASSUME e \in T PROVE LastIn(Append(s, e), T, R)
  <2>1. /\ Len(s) + 1 \in DOMAIN Append(s, e)
        /\ \A j \in DOMAIN Append(s, e) : ~(j > Len(s) + 1)
    BY <1>1
  <2>. QED BY <1>1, <1>2, <2>1 DEF LastIn
<1>3. ASSUME LastIn(s, T, R), e \notin R PROVE LastIn(Append(s, e), T, R)
  <2>1. PICK k \in DOMAIN s : s[k] \in T /\ \A j \in DOMAIN s : j > k => s[j] \notin R
    BY <1>3 DEF LastIn
  <2>2. \A j \in DOMAIN Append(s, e) : j \in DOMAIN s \/ j = Len(s) + 1
    BY <1>1
  <2>3. \A j \in DOMAIN s : j \in DOMAIN Append(s, e) /\ Append(s, e)[j] = s[j]
    BY <1>1
  <2>4. \A j \in DOMAIN Append(s, e) : j > k => Append(s, e)[j] \notin R
    BY <1>1, <1>3, <2>1, <2>2, <2>3
  <2>. QED BY <2>1, <2>3, <2>4 DEF LastIn
<1>. QED BY <1>2, <1>3

-----------------------------------------------------------------------------
(* What is on its way to a party, in the network or in its own queue. *)

MessageTypes == {"smp1", "smp2", "smp3", "smp4", "abort", "bye"}

Carrying(types) == {m \in Message : m.type \in types}

Recvs(types) == {t \in Tick : t.op = "recv" /\ t.msg.type \in types}

RecvOf(m) == {t \in Tick : t.op = "recv" /\ t.msg = m}

Coming(p, types) == Within(net[p], Carrying(types)) \/ Within(ticks[p], Recvs(types))

\* The message m is the last of them.
Latest(p, m) ==
    \/ LastIn(net[p], {m}, Message)
    \/ net[p] = <<>> /\ LastIn(ticks[p], RecvOf(m), Recvs(MessageTypes))

Doing(ops) == {t \in Tick : t.op \in ops}

Queued(p, ops) == Within(ticks[p], Doing(ops))

\* The step of a closure of p, and of a method p calls.
Pops(p) == ticks[p] # <<>> /\ (Done(p) \/ Error(p))

Pushes(p, t) == net' = net /\ ticks' = [ticks EXCEPT ![p] = Append(@, t)]

LEMMA OwedFacts ==
    ASSUME NEW t, t = [op |-> "owed"]
    PROVE  t \in Tick /\ t.op = "owed" /\ \A types : t \notin Recvs(types)
    BY DEF Tick, Recvs

LEMMA PopTicks ==
    ASSUME TypeOK, NEW x \in Parties, Pops(x), NEW q \in Parties
    PROVE  /\ \A T : Within(ticks[q], T) /\ ~(q = x /\ Head(ticks[x]) \in T)
                       => Within(ticks'[q], T)
           /\ \A types : Within(ticks'[q], Recvs(types)) => Within(ticks[q], Recvs(types))
           /\ \A m : LastIn(ticks[q], RecvOf(m), Recvs(MessageTypes)) =>
                \/ LastIn(ticks'[q], RecvOf(m), Recvs(MessageTypes))
                \/ /\ q = x /\ Head(ticks[x]) \in RecvOf(m)
                   /\ ~Within(ticks'[q], Recvs(MessageTypes))
<1>. DEFINE owed == [op |-> "owed"]
            s == ticks[x]
<1>1. s \in Seq(Tick) /\ s # <<>> /\ Tail(s) \in Seq(Tick)
  BY QueueHead DEF TypeOK, Pops
<1>2. CASE q # x
  <2>1. ticks'[q] = ticks[q]
    BY <1>2 DEF Pops, Done, Error, TypeOK
  <2>. QED BY <1>2, <2>1
<1>3. CASE q = x /\ Done(x)
  <2>1. ticks'[q] = Tail(s)
    BY <1>3 DEF Done, TypeOK
  <2>2. \A T : Within(s, T) <=> Head(s) \in T \/ Within(Tail(s), T)
    BY <1>1, WithinTail
  <2>3. \A T, R : LastIn(s, T, R) => LastIn(Tail(s), T, R) \/ (Head(s) \in T /\ ~Within(Tail(s), R))
    BY <1>1, LastInTail
  <2>. QED BY <1>3, <2>1, <2>2, <2>3
<1>4. CASE q = x /\ Error(x)
  <2>1. ticks'[q] = Append(Tail(s), owed)
    BY <1>4 DEF Error, TypeOK
  <2>2. owed \in Tick /\ \A types : owed \notin Recvs(types)
    BY OwedFacts
  <2>. HIDE DEF owed
  <2>3. \A T : Within(s, T) <=> Head(s) \in T \/ Within(Tail(s), T)
    BY <1>1, WithinTail
  <2>4. ASSUME NEW T PROVE Within(ticks'[q], T) <=> Within(Tail(s), T) \/ owed \in T
    <3>1. Tail(s) \in Seq(Tick) /\ owed \in Tick
      BY <1>1, <2>2
    <3>2. Within(Append(Tail(s), owed), T) <=> Within(Tail(s), T) \/ owed \in T
      BY ONLY <3>1, WithinAppend
    <3>. QED BY <2>1, <3>2
  <2>5. \A T, R : LastIn(s, T, R) => LastIn(Tail(s), T, R) \/ (Head(s) \in T /\ ~Within(Tail(s), R))
    BY <1>1, LastInTail
  <2>6. ASSUME NEW T, NEW R
        PROVE  LastIn(Tail(s), T, R) /\ owed \notin R => LastIn(ticks'[q], T, R)
    <3>1. Tail(s) \in Seq(Tick) /\ owed \in Tick
      BY <1>1, <2>2
    <3>2. LastIn(Tail(s), T, R) /\ owed \notin R => LastIn(Append(Tail(s), owed), T, R)
      BY ONLY <3>1, LastInAppend
    <3>. QED BY <2>1, <3>2
  <2>. QED BY <1>4, <2>2, <2>3, <2>4, <2>5, <2>6
<1>. QED BY <1>2, <1>3, <1>4 DEF Pops

\* What a closure leaves where it was, when it sends nothing to q.
LEMMA PopFlow ==
    ASSUME TypeOK, NEW x \in Parties, Pops(x), NEW q \in Parties, net'[q] = net[q]
    PROVE  /\ \A types : Coming(q, types) /\ ~(q = x /\ Head(ticks[x]) \in Recvs(types))
                           => Coming(q, types)'
           /\ \A types : Coming(q, types)' => Coming(q, types)
           /\ \A ops : Queued(q, ops) /\ ~(q = x /\ Head(ticks[x]) \in Doing(ops))
                           => Queued(q, ops)'
           /\ \A m : Latest(q, m) =>
                \/ Latest(q, m)'
                \/ q = x /\ Head(ticks[x]) \in RecvOf(m) /\ ~Coming(q, MessageTypes)'
<1>1. \A types : Coming(q, types) /\ ~(q = x /\ Head(ticks[x]) \in Recvs(types))
                   => Coming(q, types)'
  BY PopTicks DEF Coming
<1>2. \A types : Coming(q, types)' => Coming(q, types)
  BY PopTicks DEF Coming
<1>3. \A ops : Queued(q, ops) /\ ~(q = x /\ Head(ticks[x]) \in Doing(ops)) => Queued(q, ops)'
  BY PopTicks DEF Queued
<1>4. ASSUME NEW m, Latest(q, m)
      PROVE  \/ Latest(q, m)'
             \/ q = x /\ Head(ticks[x]) \in RecvOf(m) /\ ~Coming(q, MessageTypes)'
  <2>1. CASE LastIn(net[q], {m}, Message)
    BY <2>1 DEF Latest
  <2>2. CASE net[q] = <<>> /\ LastIn(ticks[q], RecvOf(m), Recvs(MessageTypes))
    <3>1. ~Within(net'[q], Carrying(MessageTypes))
      BY <2>2 DEF Within
    <3>. QED BY <2>2, <3>1, PopTicks DEF Latest, Coming
  <2>. QED BY <1>4, <2>1, <2>2 DEF Latest
<1>. QED BY <1>1, <1>2, <1>3, <1>4

\* What it sends is on its way, behind everything else.
LEMMA SendFlow ==
    ASSUME TypeOK, NEW x \in Parties, NEW m \in Message, Send(x, m)
    PROVE  /\ \A types : m.type \in types => Coming(Peer[x], types)'
           /\ Latest(Peer[x], m)'
           /\ \A q \in Parties \ {Peer[x]} : net'[q] = net[q]
<1>1. Peer[x] \in Parties /\ net[Peer[x]] \in Seq(Message)
  BY PeerFacts DEF TypeOK
<1>2. net'[Peer[x]] = Append(net[Peer[x]], m) /\ \A q \in Parties \ {Peer[x]} : net'[q] = net[q]
  BY <1>1 DEF Send, TypeOK
<1>3. \A types : m.type \in types => Within(net'[Peer[x]], Carrying(types))
  <2>1. \A T : m \in T => Within(net'[Peer[x]], T)
    BY <1>1, <1>2, WithinAppend
  <2>. QED BY <2>1 DEF Carrying
<1>4. LastIn(net'[Peer[x]], {m}, Message)
  BY <1>1, <1>2, LastInAppend
<1>. QED BY <1>2, <1>3, <1>4 DEF Coming, Latest

LEMMA PushFlow ==
    ASSUME TypeOK, NEW x \in Parties, NEW t \in Tick, t.op # "recv", Pushes(x, t),
           NEW q \in Parties
    PROVE  /\ \A types : Coming(q, types) <=> Coming(q, types)'
           /\ \A ops : Queued(q, ops) => Queued(q, ops)'
           /\ \A ops : q = x /\ t.op \in ops => Queued(q, ops)'
           /\ \A m : Latest(q, m) => Latest(q, m)'
<1>1. ticks[x] \in Seq(Tick) /\ \A types : t \notin Recvs(types)
  BY DEF TypeOK, Recvs
<1>2. net' = net
  BY DEF Pushes
<1>3. CASE q # x
  <2>1. ticks'[q] = ticks[q]
    BY <1>3 DEF Pushes, TypeOK
  <2>. QED BY <1>2, <1>3, <2>1 DEF Coming, Queued, Latest
<1>4. CASE q = x
  <2>1. ticks'[q] = Append(ticks[x], t)
    BY <1>4 DEF Pushes, TypeOK
  <2>2. \A T : Within(ticks'[q], T) <=> Within(ticks[q], T) \/ t \in T
    BY <1>1, <1>4, <2>1, WithinAppend
  <2>3. \A T, R : LastIn(ticks[q], T, R) /\ t \notin R => LastIn(ticks'[q], T, R)
    BY <1>1, <1>4, <2>1, LastInAppend
  <2>4. \A types : Coming(q, types) <=> Coming(q, types)'
    BY <1>1, <1>2, <2>2 DEF Coming
  <2>5. \A ops : Queued(q, ops)' <=> Queued(q, ops) \/ t.op \in ops
    BY <2>2 DEF Queued, Doing
  <2>6. \A m : Latest(q, m) => Latest(q, m)'
    BY <1>1, <1>2, <2>3 DEF Latest
  <2>. QED BY <2>4, <2>5, <2>6
<1>. QED BY <1>3, <1>4

LEMMA DeliverFlow ==
    ASSUME TypeOK, NEW x \in Parties, Deliver(x), NEW q \in Parties
    PROVE  /\ \A types : Coming(q, types) <=> Coming(q, types)'
           /\ \A ops : Queued(q, ops) => Queued(q, ops)'
           /\ \A m : Latest(q, m) => Latest(q, m)'
<1>. DEFINE m1 == Head(net[x])
            t == [op |-> "recv", msg |-> m1]
<1>1. /\ net[x] \in Seq(Message) /\ net[x] # <<>> /\ ticks[x] \in Seq(Tick)
      /\ net' = [net EXCEPT ![x] = Tail(@)] /\ ticks' = [ticks EXCEPT ![x] = Append(@, t)]
  BY DEF Deliver, TypeOK
<1>2. m1 \in Message
  BY <1>1
<1>3. t \in Tick /\ t.op = "recv" /\ t.msg = m1
  BY <1>2 DEF Tick
<1>4. m1.type \in MessageTypes
  BY <1>2, MessageFields DEF MessageTypes
<1>. HIDE DEF t
<1>5. CASE q # x
  <2>1. ticks'[q] = ticks[q] /\ net'[q] = net[q]
    BY <1>1, <1>5 DEF TypeOK
  <2>. QED BY <1>5, <2>1 DEF Coming, Queued, Latest
<1>6. CASE q = x
  <2>1. ticks'[q] = Append(ticks[q], t) /\ net'[q] = Tail(net[q])
    BY <1>1, <1>6 DEF TypeOK
  <2>2. \A T : Within(ticks'[q], T) <=> Within(ticks[q], T) \/ t \in T
    BY <1>1, <1>3, <1>6, <2>1, WithinAppend
  <2>3. \A T : Within(net[q], T) <=> m1 \in T \/ Within(net'[q], T)
    BY <1>1, <1>6, <2>1, WithinTail
  <2>4. \A types : m1 \in Carrying(types) <=> t \in Recvs(types)
    BY <1>2, <1>3 DEF Carrying, Recvs
  <2>5. \A types : Coming(q, types) <=> Coming(q, types)'
    BY <2>2, <2>3, <2>4 DEF Coming
  <2>6. \A ops : Queued(q, ops) => Queued(q, ops)'
    BY <2>2 DEF Queued
  <2>7. ASSUME NEW m, Latest(q, m) PROVE Latest(q, m)'
    <3>1. LastIn(net[q], {m}, Message)
      BY <1>1, <1>6, <2>7 DEF Latest
    <3>2. LastIn(net'[q], {m}, Message) \/ (m1 \in {m} /\ ~Within(net'[q], Message))
      BY <1>1, <1>6, <2>1, <3>1, LastInTail
    <3>3. CASE LastIn(net'[q], {m}, Message)
      BY <3>3 DEF Latest
    <3>4. CASE m1 = m /\ ~Within(net'[q], Message)
      <4>1. Tail(net[x]) \in Seq(Message)
        BY <1>1
      <4>2. net'[q] = <<>>
        BY <1>6, <2>1, <3>4, <4>1 DEF Within
      <4>3. t \in RecvOf(m)
        BY <1>3, <3>4 DEF RecvOf
      <4>4. LastIn(ticks'[q], RecvOf(m), Recvs(MessageTypes))
        BY <1>1, <1>3, <1>6, <2>1, <4>3, LastInAppend
      <4>. QED BY <4>2, <4>4 DEF Latest
    <3>. QED BY <3>2, <3>3, <3>4
  <2>. QED BY <2>5, <2>6, <2>7
<1>. QED BY <1>5, <1>6

LEMMA ErrorFlow ==
    ASSUME TypeOK, NEW x \in Parties, ticks[x] # <<>>, Error(x)
    PROVE  \A ops : "owed" \in ops => Queued(x, ops)'
<1>. DEFINE owed == [op |-> "owed"]
<1>1. Tail(ticks[x]) \in Seq(Tick)
  BY QueueHead DEF TypeOK
<1>2. ticks'[x] = Append(Tail(ticks[x]), owed)
  BY DEF Error, TypeOK
<1>3. owed \in Tick /\ owed.op = "owed"
  BY OwedFacts
<1>. HIDE DEF owed
<1>4. ASSUME NEW T, owed \in T PROVE Within(ticks'[x], T)
  <2>1. Within(Append(Tail(ticks[x]), owed), T) <=> Within(Tail(ticks[x]), T) \/ owed \in T
    BY <1>1, <1>3, WithinAppend
  <2>. QED BY <1>2, <1>4, <2>1
<1>. QED BY <1>3, <1>4 DEF Queued, Doing

\* A closure that sends a message.
LEMMA PopSendFlow ==
    ASSUME TypeOK, NEW x \in Parties, Pops(x), NEW m \in Message, Send(x, m),
           NEW q \in Parties
    PROVE  /\ \A types : Coming(q, types) /\ ~(q = x /\ Head(ticks[x]) \in Recvs(types))
                           => Coming(q, types)'
           /\ \A types : Coming(q, types)' =>
                Coming(q, types) \/ (q = Peer[x] /\ m.type \in types)
           /\ \A ops : Queued(q, ops) /\ ~(q = x /\ Head(ticks[x]) \in Doing(ops))
                           => Queued(q, ops)'
<1>1. CASE q # Peer[x]
  <2>1. net'[q] = net[q]
    BY <1>1, SendFlow
  <2>. QED BY <2>1, PopFlow
<1>2. CASE q = Peer[x]
  <2>1. q \in Parties /\ q # x /\ net[q] \in Seq(Message)
    BY <1>2, PeerFacts DEF TypeOK
  <2>2. net'[q] = Append(net[q], m) /\ ticks'[q] = ticks[q]
    BY <1>2, <2>1 DEF Send, Pops, Done, Error, TypeOK
  <2>3. \A T : Within(net'[q], T) <=> Within(net[q], T) \/ m \in T
    BY <2>1, <2>2, WithinAppend
  <2>4. \A types : m \in Carrying(types) => m.type \in types
    BY DEF Carrying
  <2>. QED BY <1>2, <2>2, <2>3, <2>4 DEF Coming, Queued
<1>. QED BY <1>1, <1>2

LEMMA LoseFlow ==
    ASSUME TypeOK, NEW x \in Parties, Lose(x), NEW q \in Parties
    PROVE  \A types : Coming(q, types)' => Coming(q, types)
<1>1. /\ net[x] \in Seq(Message) /\ net[x] # <<>>
      /\ net' = [net EXCEPT ![x] = Tail(@)] /\ ticks' = ticks
  BY DEF Lose, TypeOK
<1>2. CASE q # x
  BY <1>1, <1>2 DEF Coming, TypeOK
<1>3. CASE q = x
  <2>1. net'[q] = Tail(net[q])
    BY <1>1, <1>3 DEF TypeOK
  <2>2. \A T : Within(net'[q], T) => Within(net[q], T)
    BY <1>1, <1>3, <2>1, WithinTail
  <2>. QED BY <1>1, <2>2 DEF Coming
<1>. QED BY <1>2, <1>3

-----------------------------------------------------------------------------
(* A party that has left the conversation has said so.                      *)

\* A party that has left the conversation runs nothing.
LeftIdle == \A p \in Parties : ~enc[p] => sm[p] = Idle

\* Who said goodbye has left.
ByeLeft == \A p \in Parties : Coming(p, {"bye"}) => ~enc[Peer[p]]

\* Who is still in a conversation that the peer has left will be told so.
LeftBye == ~lost => \A p \in Parties : enc[p] /\ ~enc[Peer[p]] => Coming(p, {"bye"})

Left == LeftIdle /\ ByeLeft /\ LeftBye

\* A closure that is no end of the conversation.
LEMMA LeftPop ==
    ASSUME TypeOK, Left, NEW x \in Parties, Pops(x), UNCHANGED <<enc, lost>>,
           Head(ticks[x]) \notin Recvs({"bye"}) \/ ~enc[x],
           net' = net \/ \E m \in Message : m.type # "bye" /\ Send(x, m),
           \A q \in Parties \ {x} : sm'[q] = sm[q],
           ~enc[x] => sm'[x] = Idle
    PROVE  Left'
<1>1. ASSUME NEW q \in Parties
      PROVE  /\ Coming(q, {"bye"}) /\ (q = x => enc[x]) => Coming(q, {"bye"})'
             /\ Coming(q, {"bye"})' => Coming(q, {"bye"})
  <2>1. CASE net' = net
    BY <2>1, PopFlow
  <2>2. ASSUME NEW m \in Message, m.type # "bye", Send(x, m)
        PROVE  /\ Coming(q, {"bye"}) /\ (q = x => enc[x]) => Coming(q, {"bye"})'
               /\ Coming(q, {"bye"})' => Coming(q, {"bye"})
    BY <2>2, PopSendFlow
  <2>. QED BY <2>1, <2>2
<1>2. LeftIdle'
  BY DEF Left, LeftIdle
<1>3. ByeLeft'
  BY <1>1 DEF Left, ByeLeft
<1>4. LeftBye'
  BY <1>1 DEF Left, LeftBye
<1>. QED BY <1>2, <1>3, <1>4 DEF Left

LEMMA LeftQueues ==
    ASSUME TypeOK, Left, NEW x \in Parties, Application(x) \/ Deliver(x) \/ Lose(x)
    PROVE  Left'
<1>1. UNCHANGED <<enc, sm>>
  BY DEF Application, SmpStart, SmpRespond, SmpAbort, End, Queue, Deliver, Lose
<1>2. LeftIdle'
  BY <1>1 DEF Left, LeftIdle
<1>3. CASE Lose(x)
  <2>1. lost' = TRUE
    BY <1>3 DEF Lose
  <2>2. \A q \in Parties : Coming(q, {"bye"})' => Coming(q, {"bye"})
    BY <1>3, LoseFlow
  <2>. QED BY <1>1, <1>2, <2>1, <2>2 DEF Left, ByeLeft, LeftBye
<1>4. CASE Application(x) \/ Deliver(x)
  <2>1. lost' = lost
    BY <1>4 DEF Application, SmpStart, SmpRespond, SmpAbort, End, Queue, Deliver
  <2>2. \A q \in Parties : Coming(q, {"bye"}) <=> Coming(q, {"bye"})'
    <3>1. CASE Deliver(x)
      BY <3>1, DeliverFlow
    <3>2. CASE Application(x)
      <4>1. PICK t \in Tick : t.op \in {"init", "respond", "abort", "end"} /\ Queue(x, t)
        BY <3>2, CallTick
      <4>2. Pushes(x, t) /\ t.op # "recv"
        BY <4>1 DEF Queue, Pushes
      <4>. QED BY <4>2, PushFlow
    <3>. QED BY <1>4, <3>1, <3>2
  <2>. QED BY <1>1, <1>2, <2>1, <2>2 DEF Left, ByeLeft, LeftBye
<1>. QED BY <1>3, <1>4

\* What a closure sends, and to what it is the answer.
LEMMA RunSends ==
    ASSUME TypeOK, NEW x \in Parties
    PROVE  /\ RunInit(x) => \/ UNCHANGED <<sm, net>>
                            \/ \E r \in Id, s \in Secrets :
                                 /\ Send(x, Msg("smp1", r, NONE, NONE))
                                 /\ sm'[x] = [next |-> 2, ready |-> TRUE, run |-> r,
                                              resp |-> NONE, sec |-> s]
           /\ RunRespond(x) /\ enc[x] /\ proc' = proc =>
                \E m \in Message : m.type = "smp2" /\ Send(x, m)
           /\ RunAbort(x) /\ enc[x] => \E m \in Message : m.type = "abort" /\ Send(x, m)
           /\ RunEnd(x) /\ enc[x] => \E m \in Message : m.type = "bye" /\ Send(x, m)
<1>1. sm[x] \in SmState
  BY DEF TypeOK
<1>2. ASSUME NEW ops, Run(x, ops) PROVE Head(ticks[x]) \in Tick
  BY <1>2, QueueHead DEF Run
<1>3. ASSUME RunInit(x), ~UNCHANGED <<sm, net>>
      PROVE  \E r \in Id, s \in Secrets :
               /\ Send(x, Msg("smp1", r, NONE, NONE))
               /\ sm'[x] = [next |-> 2, ready |-> TRUE, run |-> r, resp |-> NONE, sec |-> s]
  <2>. DEFINE t == Head(ticks[x])
  <2>1. t.id \in Id /\ t.sec \in Secrets
    BY <1>2, <1>3, TickFields DEF RunInit, Run
  <2>2. /\ sm' = [sm EXCEPT ![x] = [next |-> 2, ready |-> TRUE,
                                    run |-> t.id, resp |-> NONE, sec |-> t.sec]]
        /\ Send(x, Msg("smp1", t.id, NONE, NONE))
    BY <1>3 DEF RunInit
  <2>. HIDE DEF t
  <2>3. sm'[x] = [next |-> 2, ready |-> TRUE, run |-> t.id, resp |-> NONE, sec |-> t.sec]
    BY <2>2 DEF TypeOK
  <2>. QED BY <2>1, <2>2, <2>3
<1>4. ASSUME RunRespond(x), enc[x], proc' = proc
      PROVE  \E m \in Message : m.type = "smp2" /\ Send(x, m)
  <2>. DEFINE t == Head(ticks[x])
  <2>1. t.id \in Id /\ t.sec \in Secrets
    BY <1>2, <1>4, TickFields DEF RunRespond, Run
  <2>2. sm[x].ready /\ Send(x, Msg("smp2", sm[x].run, t.id, t.sec))
    <3>1. proc = "running"
      BY <1>4 DEF RunRespond, Run
    <3>. QED BY <1>4, <3>1 DEF RunRespond
  <2>3. sm[x].run \in Id
    BY <1>1, <2>2, SmKinds, StartedFields
  <2>. HIDE DEF t
  <2>4. Msg("smp2", sm[x].run, t.id, t.sec) \in Message
    BY <2>1, <2>3, MsgTyped
  <2>5. Msg("smp2", sm[x].run, t.id, t.sec).type = "smp2"
    BY DEF Msg
  <2>. QED BY <2>2, <2>4, <2>5
<1>5. \A type \in {"abort", "bye"} :
        Msg(type, NONE, NONE, NONE) \in Message /\ Msg(type, NONE, NONE, NONE).type = type
  BY MsgTyped DEF Msg
<1>6. RunAbort(x) /\ enc[x] => \E m \in Message : m.type = "abort" /\ Send(x, m)
  BY <1>5 DEF RunAbort
<1>7. RunEnd(x) /\ enc[x] => \E m \in Message : m.type = "bye" /\ Send(x, m)
  BY <1>5 DEF RunEnd
<1>. QED BY <1>3, <1>4, <1>6, <1>7

LEMMA ReceiveSends ==
    ASSUME TypeOK, NEW x \in Parties
    PROVE  /\ ReceiveResponse(x) => \E m \in Message : m.type = "smp3" /\ Send(x, m)
           /\ ReceiveProof(x) => \E m \in Message : m.type = "smp4" /\ Send(x, m)
<1>1. sm[x].sec \in Secrets \cup {NONE}
  BY SmFields DEF TypeOK
<1>2. ASSUME NEW types, Receiving(x, types)
      PROVE  Received(x) \in Message /\ Received(x).type \in types
  <2>1. Head(ticks[x]) \in Tick /\ Head(ticks[x]).op = "recv"
    BY <1>2, QueueHead DEF Receiving, Run
  <2>. QED BY <1>2, <2>1, TickFields DEF Receiving, Received
<1>3. ASSUME ReceiveResponse(x) PROVE \E m \in Message : m.type = "smp3" /\ Send(x, m)
  <2>1. Received(x).run \in Id /\ Received(x).resp \in Id \cup {NONE}
    BY <1>2, <1>3, MessageFields DEF ReceiveResponse
  <2>2. Msg("smp3", Received(x).run, Received(x).resp, sm[x].sec) \in Message
    BY <1>1, <2>1, MsgTyped
  <2>3. Msg("smp3", Received(x).run, Received(x).resp, sm[x].sec).type = "smp3"
    BY DEF Msg
  <2>. QED BY <1>3, <2>2, <2>3 DEF ReceiveResponse
<1>4. ASSUME ReceiveProof(x) PROVE \E m \in Message : m.type = "smp4" /\ Send(x, m)
  <2>1. Received(x).run \in Id /\ Received(x).resp \in Id \cup {NONE}
    BY <1>2, <1>4, MessageFields DEF ReceiveProof
  <2>2. Msg("smp4", Received(x).run, Received(x).resp, sm[x].sec) \in Message
    BY <1>1, <2>1, MsgTyped
  <2>3. Msg("smp4", Received(x).run, Received(x).resp, sm[x].sec).type = "smp4"
    BY DEF Msg
  <2>. QED BY <1>4, <2>2, <2>3 DEF ReceiveProof
<1>. QED BY <1>3, <1>4

\* A tick of its own takes itself from the queue of its party, and touches the
\* state of no other.
LEMMA RunPops ==
    ASSUME TypeOK, NEW x \in Parties, RunTick(x)
    PROVE  /\ Pops(x) /\ lost' = lost /\ proc = "running"
           /\ \A q \in Parties \ {x} : sm'[q] = sm[q] /\ asked'[q] = asked[q] /\ enc'[q] = enc[q]
           /\ ~enc[x] /\ sm[x] = Idle => sm'[x] = Idle
           /\ ~(RunEnd(x) \/ ReceiveBye(x)) => enc' = enc
           /\ ~(RunInit(x) \/ RunRespond(x) \/ RunAbort(x) \/ RunEnd(x)
                \/ ReceiveResponse(x) \/ ReceiveProof(x)) => net' = net
<1>1. CASE RunInit(x)
  BY <1>1 DEF RunInit, Run, Pops, CanStart, TypeOK
<1>2. CASE RunRespond(x)
  BY <1>2 DEF RunRespond, Run, Pops, TypeOK
<1>3. CASE RunAbort(x)
  <2>1. sm'[x] = [sm[x] EXCEPT !.next = 1] /\ \A q \in Parties \ {x} : sm'[q] = sm[q]
    BY <1>3 DEF RunAbort, TypeOK
  <2>2. [Idle EXCEPT !.next = 1] = Idle
    <3>1. Idle \in Fresh /\ [Idle EXCEPT !.next = 1] \in Fresh
      BY DEF Idle, Fresh
    <3>2. ASSUME NEW s \in Fresh PROVE s = Idle
      <4>1. s = [next |-> s.next, ready |-> s.ready, run |-> s.run,
                 resp |-> s.resp, sec |-> s.sec]
        BY DEF Fresh
      <4>. QED BY <4>1, FreshFields DEF Idle
    <3>. QED BY <3>1, <3>2
  <2>3. Pops(x) /\ lost' = lost /\ proc = "running" /\ enc' = enc /\ asked' = asked
    BY <1>3 DEF RunAbort, Run, Pops
  <2>. QED BY <1>3, <2>1, <2>2, <2>3
<1>4. CASE RunEnd(x)
  BY <1>4 DEF RunEnd, Run, Pops, TypeOK
<1>5. CASE ReceiveUnread(x) \/ ReceiveBye(x)
  BY <1>5 DEF ReceiveUnread, ReceiveBye, Receiving, Run, Pops, TypeOK
<1>6. CASE ReceiveRequest(x)
  BY <1>6 DEF ReceiveRequest, Receiving, Run, Pops, TypeOK
<1>7. CASE ReceiveUnexpected(x) \/ ReceiveCheated(x)
  BY <1>7 DEF ReceiveUnexpected, ReceiveCheated, Receiving, Run, Pops, TypeOK
<1>8. CASE ReceiveResponse(x)
  BY <1>8 DEF ReceiveResponse, Receiving, Run, Pops, InProgress, TypeOK
<1>9. CASE ReceiveProof(x) \/ ReceiveEnd(x)
  BY <1>9 DEF ReceiveProof, ReceiveEnd, Receiving, Run, Pops, Outcome, TypeOK
<1>10. CASE ReceiveAbort(x)
  BY <1>10 DEF ReceiveAbort, Receiving, Run, Pops, TypeOK
<1>. QED BY <1>1, <1>2, <1>3, <1>4, <1>5, <1>6, <1>7, <1>8, <1>9, <1>10 DEF RunTick

\* Which tick it is.
LEMMA HeadOf ==
    ASSUME TypeOK, NEW x \in Parties, RunTick(x)
    PROVE  LET t == Head(ticks[x]) IN
             /\ t \in Tick
             /\ RunInit(x) => t.op = "init"
             /\ RunRespond(x) => t.op = "respond"
             /\ RunAbort(x) => t.op \in {"abort", "owed"}
             /\ RunEnd(x) => t.op = "end"
             /\ ~(RunInit(x) \/ RunRespond(x) \/ RunAbort(x) \/ RunEnd(x))
                  => t.op = "recv" /\ Received(x) = t.msg
             /\ ReceiveBye(x) => t.op = "recv" /\ t.msg.type = "bye"
             /\ ReceiveRequest(x) => t.op = "recv" /\ t.msg.type = "smp1"
             /\ ReceiveUnexpected(x) \/ ReceiveCheated(x) \/ ReceiveResponse(x) \/ ReceiveProof(x)
                  => t.op = "recv" /\ t.msg.type \in {"smp1", "smp2", "smp3", "smp4"}
             /\ ReceiveEnd(x) => t.op = "recv" /\ t.msg.type = "smp4"
             /\ ReceiveAbort(x) => t.op = "recv" /\ t.msg.type = "abort"
<1>1. Head(ticks[x]) \in Tick
  BY RunPops, QueueHead DEF Pops
<1>. QED
  BY <1>1 DEF RunTick, RunInit, RunRespond, RunAbort, RunEnd, ReceiveUnread, ReceiveBye,
     ReceiveRequest, ReceiveUnexpected, ReceiveCheated, ReceiveResponse, ReceiveProof,
     ReceiveEnd, ReceiveAbort, Receiving, Run, Received

LEMMA LeftTick ==
    ASSUME TypeOK, Left, NEW x \in Parties, RunTick(x)
    PROVE  Left'
<1>1. /\ Pops(x) /\ lost' = lost
      /\ \A q \in Parties \ {x} : sm'[q] = sm[q] /\ asked'[q] = asked[q] /\ enc'[q] = enc[q]
      /\ ~enc[x] => sm'[x] = Idle
  BY RunPops DEF Left, LeftIdle
<1>2. Head(ticks[x]) \in Tick
  BY HeadOf
<1>3. CASE RunEnd(x)
  <2>1. enc'[x] = FALSE /\ sm'[x] = Idle
    BY <1>3 DEF RunEnd, TypeOK
  <2>2. \A types : Head(ticks[x]) \notin Recvs(types)
    BY <1>3, HeadOf DEF Recvs
  <2>3. LeftIdle'
    BY <1>1, <2>1 DEF Left, LeftIdle
  <2>4. CASE enc[x]
    <3>1. PICK m \in Message : m.type = "bye" /\ Send(x, m)
      BY <1>3, <2>4, RunSends
    <3>2. \A q \in Parties : /\ Coming(q, {"bye"}) => Coming(q, {"bye"})'
                             /\ Coming(q, {"bye"})' => Coming(q, {"bye"}) \/ q = Peer[x]
      BY <1>1, <2>2, <3>1, PopSendFlow
    <3>3. Coming(Peer[x], {"bye"})'
      BY <3>1, SendFlow
    <3>4. ByeLeft'
      <4>. SUFFICES ASSUME NEW q \in Parties, Coming(q, {"bye"})' PROVE ~enc'[Peer[q]]
        BY DEF ByeLeft
      <4>1. CASE Peer[q] = x
        BY <2>1, <4>1
      <4>2. CASE Peer[q] # x
        <5>1. q # Peer[x] /\ Peer[q] \in Parties \ {x}
          BY <4>2, PeerFacts
        <5>. QED BY <1>1, <3>2, <5>1 DEF Left, ByeLeft
      <4>. QED BY <4>1, <4>2
    <3>5. LeftBye'
      <4>. SUFFICES ASSUME ~lost', NEW q \in Parties, enc'[q], ~enc'[Peer[q]]
                    PROVE  Coming(q, {"bye"})'
        BY DEF LeftBye
      <4>1. CASE Peer[q] = x
        BY <3>3, <4>1, PeerFacts
      <4>2. CASE Peer[q] # x
        <5>1. q # x /\ Peer[q] \in Parties \ {x}
          BY <2>1, <4>2, PeerFacts
        <5>. QED BY <1>1, <3>2, <5>1 DEF Left, LeftBye
      <4>. QED BY <4>1, <4>2
    <3>. QED BY <2>3, <3>4, <3>5 DEF Left
  <2>5. CASE ~enc[x]
    <3>1. net' = net /\ enc' = enc
      BY <1>1, <1>3, <2>1, <2>5 DEF RunEnd, TypeOK
    <3>. QED BY <1>1, <2>2, <3>1, LeftPop
  <2>. QED BY <2>4, <2>5
<1>4. CASE ReceiveBye(x)
  <2>1. enc'[x] = FALSE /\ sm'[x] = Idle
    BY <1>4 DEF ReceiveBye, TypeOK
  <2>2. net' = net
    BY <1>4 DEF ReceiveBye
  <2>3. Head(ticks[x]) \in Recvs({"bye"})
    BY <1>2, <1>4, HeadOf DEF Recvs
  <2>4. ~enc[Peer[x]]
    <3>1. Within(ticks[x], Recvs({"bye"}))
      <4>1. ticks[x] \in Seq(Tick) /\ ticks[x] # <<>>
        BY <1>1 DEF Pops, TypeOK
      <4>. QED BY <2>3, <4>1, WithinTail
    <3>. QED BY <3>1 DEF Left, ByeLeft, Coming
  <2>5. \A q \in Parties : /\ Coming(q, {"bye"}) /\ q # x => Coming(q, {"bye"})'
                           /\ Coming(q, {"bye"})' => Coming(q, {"bye"})
    BY <1>1, <2>2, PopFlow
  <2>6. LeftIdle'
    BY <1>1, <2>1 DEF Left, LeftIdle
  <2>7. ByeLeft'
    <3>. SUFFICES ASSUME NEW q \in Parties, Coming(q, {"bye"})' PROVE ~enc'[Peer[q]]
      BY DEF ByeLeft
    <3>1. ~enc[Peer[q]] /\ Peer[q] \in Parties
      BY <2>5, PeerFacts DEF Left, ByeLeft
    <3>. QED BY <1>1, <2>1, <3>1
  <2>8. LeftBye'
    <3>. SUFFICES ASSUME ~lost', NEW q \in Parties, enc'[q], ~enc'[Peer[q]]
                  PROVE  Coming(q, {"bye"})'
      BY DEF LeftBye
    <3>1. q # x /\ enc[q] /\ Peer[q] # x
      <4>1. q # x
        BY <2>1
      <4>2. enc[q]
        BY <1>1, <4>1
      <4>. QED BY <2>4, <4>1, <4>2, PeerFacts
    <3>2. ~enc[Peer[q]]
      BY <1>1, <3>1, PeerFacts
    <3>. QED BY <1>1, <2>5, <3>1, <3>2 DEF Left, LeftBye
  <2>. QED BY <2>6, <2>7, <2>8 DEF Left
<1>5. CASE ~(RunEnd(x) \/ ReceiveBye(x))
  <2>1. enc' = enc
    BY <1>5, RunPops
  <2>2. Head(ticks[x]) \notin Recvs({"bye"}) \/ ~enc[x]
    <3>1. CASE ReceiveUnread(x)
      BY <3>1 DEF ReceiveUnread
    <3>2. CASE ~ReceiveUnread(x)
      <4>1. Head(ticks[x]).op # "recv" \/ Head(ticks[x]).msg.type # "bye"
        BY <1>5, <3>2, HeadOf DEF RunTick
      <4>. QED BY <4>1 DEF Recvs
    <3>. QED BY <3>1, <3>2
  <2>3. net' = net \/ \E m \in Message : m.type # "bye" /\ Send(x, m)
    <3>1. CASE RunInit(x)
      <4>1. \A r \in Id : Msg("smp1", r, NONE, NONE) \in Message
                          /\ Msg("smp1", r, NONE, NONE).type # "bye"
        BY MsgTyped DEF Msg
      <4>. QED BY <3>1, <4>1, RunSends
    <3>2. CASE RunRespond(x)
      <4>1. CASE enc[x] /\ proc' = proc
        BY <3>2, <4>1, RunSends
      <4>2. CASE ~(enc[x] /\ proc' = proc)
        BY <3>2, <4>2 DEF RunRespond
      <4>. QED BY <4>1, <4>2
    <3>3. CASE RunAbort(x)
      BY <3>3, RunSends DEF RunAbort
    <3>4. CASE ReceiveResponse(x) \/ ReceiveProof(x)
      BY <3>4, ReceiveSends
    <3>. QED BY <1>5, <3>1, <3>2, <3>3, <3>4, RunPops
  <2>. QED BY <1>1, <2>1, <2>2, <2>3, LeftPop
<1>. QED BY <1>3, <1>4, <1>5

-----------------------------------------------------------------------------
(* A party that waits has something that ends its wait or goes on with it: *)
(* a message on its way to it, an abort or an answer in one of the queues, *)
(* a message of its own the peer has to answer, or its request, which the  *)
(* peer's user has before him with nothing behind it.                      *)

\* p has sent its smp1, nothing answers it, and the peer's user is asked for the secret of that run.
Asked(p) ==
    /\ sm[p].next = 2 /\ ~Coming(Peer[p], MessageTypes)
    /\ asked[Peer[p]] /\ sm[Peer[p]].next = 1 /\ sm[Peer[p]].run = sm[p].run

Request(p) == Msg("smp1", sm[p].run, NONE, NONE)

\* The closures that end a run.
Stops == {"abort", "owed", "end"}

\* Why p does not wait in vain: a message is coming to it, or a closure that ends its run is queued;
\* the peer has a closure queued that will send to it, or p's own message is on its way to the peer;
\* or the peer's user is asked.
Stirred(p) ==
    \/ Coming(p, MessageTypes)
    \/ Queued(p, Stops)
    \/ Queued(Peer[p], Stops \cup {"respond"})
    \/ Coming(Peer[p], {"smp2", "smp3"})
    \/ sm[p].next = 2 /\ Latest(Peer[p], Request(p))
    \/ Asked(p)

\* Whoever waits has something to wait for.
Stir == ~lost /\ proc = "running" => \A p \in Parties : sm[p].next # 1 => Stirred(p)

LEMMA SmAfterEdit ==
    ASSUME TypeOK, NEW x \in Parties
    PROVE  /\ RunAbort(x) \/ ReceiveCheated(x) \/ ReceiveProof(x) \/ ReceiveEnd(x)
              \/ ReceiveAbort(x) => sm'[x].next = 1 /\ sm'[x].run = sm[x].run
           /\ RunEnd(x) \/ ReceiveBye(x) => sm'[x].next = 1
           /\ ReceiveRequest(x) => /\ sm'[x].next = 1 /\ sm'[x].run = Received(x).run
                                   /\ asked'[x]
<1>1. sm[x] \in SmState
  BY DEF TypeOK
<1>2. [sm[x] EXCEPT !.next = 1].next = 1 /\ [sm[x] EXCEPT !.next = 1].run = sm[x].run
  BY <1>1, SmNext
<1>3. RunAbort(x) \/ ReceiveCheated(x) \/ ReceiveProof(x) \/ ReceiveEnd(x) \/ ReceiveAbort(x)
        => sm'[x] = [sm[x] EXCEPT !.next = 1]
  BY DEF RunAbort, ReceiveCheated, ReceiveProof, ReceiveEnd, ReceiveAbort, TypeOK
<1>4. RunEnd(x) \/ ReceiveBye(x) => sm'[x].next = 1
  BY DEF RunEnd, ReceiveBye, TypeOK, Idle
<1>5. ASSUME ReceiveRequest(x)
      PROVE  sm'[x].next = 1 /\ sm'[x].run = Received(x).run /\ asked'[x]
  <2>1. /\ sm'[x] = [sm[x] EXCEPT !.ready = TRUE, !.run = Received(x).run, !.resp = NONE]
        /\ sm[x].next = 1 /\ asked'[x]
    BY <1>5 DEF ReceiveRequest, TypeOK
  <2>. QED BY <1>1, <2>1 DEF SmState
<1>. QED BY <1>2, <1>3, <1>4, <1>5

\* A step of the party that waits.
LEMMA SelfStir ==
    ASSUME TypeOK, Left, Stir, NEW p \in Parties, RunTick(p),
           ~lost', proc' = "running", sm'[p].next # 1
    PROVE  Stirred(p)'
<1>1. /\ Pops(p) /\ ~lost /\ proc = "running" /\ Peer[p] \in Parties /\ Peer[p] # p
      /\ \A q \in Parties \ {p} : sm'[q] = sm[q] /\ asked'[q] = asked[q] /\ enc'[q] = enc[q]
  BY RunPops, PeerFacts
<1>2. ~enc[p] => sm[p].next = 1 /\ sm'[p].next = 1
  <2>1. ~enc[p] => sm[p] = Idle /\ sm'[p] = Idle
    BY RunPops DEF Left, LeftIdle
  <2>. QED BY <2>1 DEF Idle
<1>3. enc[p]
  BY <1>2
<1>4. CASE RunInit(p)
  <2>1. CASE UNCHANGED <<sm, net>>
    <3>1. Stirred(p)
      BY <1>1, <2>1 DEF Stir
    <3>2. Head(ticks[p]).op = "init" /\ asked' = asked
      BY <1>4, HeadOf DEF RunInit
    <3>3. /\ \A types : Head(ticks[p]) \notin Recvs(types)
          /\ Head(ticks[p]) \notin Doing(Stops)
          /\ Head(ticks[p]) \notin RecvOf(Request(p))
      BY <3>2 DEF Recvs, Doing, Stops, RecvOf
    <3>4. Coming(p, MessageTypes) => Coming(p, MessageTypes)'
      BY <1>1, <2>1, <3>3, PopFlow
    <3>5. Queued(p, Stops) => Queued(p, Stops)'
      BY <1>1, <2>1, <3>3, PopFlow
    <3>6. /\ Queued(Peer[p], Stops \cup {"respond"}) => Queued(Peer[p], Stops \cup {"respond"})'
          /\ \A types : Coming(Peer[p], types) <=> Coming(Peer[p], types)'
          /\ \A m : Latest(Peer[p], m) => Latest(Peer[p], m)'
      BY <1>1, <2>1, PopFlow
    <3>. QED BY <2>1, <3>1, <3>2, <3>4, <3>5, <3>6 DEF Stirred, Asked, Request
  <2>2. CASE ~UNCHANGED <<sm, net>>
    <3>1. PICK r \in Id, s \in Secrets :
            /\ Send(p, Msg("smp1", r, NONE, NONE))
            /\ sm'[p] = [next |-> 2, ready |-> TRUE, run |-> r, resp |-> NONE, sec |-> s]
      BY <1>4, <2>2, RunSends
    <3>2. Msg("smp1", r, NONE, NONE) \in Message
      BY MsgTyped
    <3>3. Latest(Peer[p], Msg("smp1", r, NONE, NONE))'
      BY <3>1, <3>2, SendFlow
    <3>4. sm'[p].next = 2 /\ Request(p)' = Msg("smp1", r, NONE, NONE)
      BY <3>1 DEF Request
    <3>. QED BY <3>3, <3>4 DEF Stirred
  <2>. QED BY <2>1, <2>2
<1>5. CASE RunRespond(p)
  <2>1. \E m \in Message : m.type = "smp2" /\ Send(p, m)
    BY <1>1, <1>3, <1>5, RunSends
  <2>2. Coming(Peer[p], {"smp2", "smp3"})'
    BY <2>1, SendFlow
  <2>. QED BY <2>2 DEF Stirred
<1>6. CASE ReceiveResponse(p)
  <2>1. Coming(Peer[p], {"smp2", "smp3"})'
    BY <1>6, ReceiveSends, SendFlow
  <2>. QED BY <2>1 DEF Stirred
<1>7. CASE ReceiveUnexpected(p)
  <2>1. Queued(p, Stops)'
    BY <1>1, <1>7, ErrorFlow DEF ReceiveUnexpected, Pops, Stops
  <2>. QED BY <2>1 DEF Stirred
<1>8. CASE ReceiveUnread(p)
  BY <1>3, <1>8 DEF ReceiveUnread
<1>. QED BY <1>4, <1>5, <1>6, <1>7, <1>8, SmAfterEdit DEF RunTick

\* A step of its peer that leaves everything where it was, or the peer asked.
LEMMA PeerKeeps ==
    ASSUME TypeOK, NEW p \in Parties, NEW q \in Parties, q = Peer[p], Stirred(p),
           Pops(q), net' = net, sm'[p] = sm[p],
           Head(ticks[q]) \notin Doing(Stops \cup {"respond"}),
           Head(ticks[q]) \notin Recvs({"smp2", "smp3"}),
           \/ asked'[q] = asked[q] /\ sm'[q] = sm[q]
           \/ Head(ticks[q]) \in Recvs(MessageTypes),
           Head(ticks[q]) \in RecvOf(Request(p)) =>
             asked'[q] /\ sm'[q].next = 1 /\ sm'[q].run = sm[p].run
    PROVE  Stirred(p)'
<1>1. p # q
  BY PeerFacts
<1>2. Coming(p, MessageTypes) => Coming(p, MessageTypes)'
  BY <1>1, PopFlow
<1>3. Queued(p, Stops) => Queued(p, Stops)'
  BY <1>1, PopFlow
<1>4. Queued(q, Stops \cup {"respond"}) => Queued(q, Stops \cup {"respond"})'
  BY PopFlow
<1>5. Coming(q, {"smp2", "smp3"}) => Coming(q, {"smp2", "smp3"})'
  BY PopFlow
<1>6. Request(p)' = Request(p)
  BY DEF Request
<1>7. ASSUME sm[p].next = 2, Latest(q, Request(p))
      PROVE  Latest(q, Request(p))' \/ Asked(p)'
  <2>1. \/ Latest(q, Request(p))'
        \/ Head(ticks[q]) \in RecvOf(Request(p)) /\ ~Coming(q, MessageTypes)'
    BY <1>6, <1>7, PopFlow
  <2>. QED BY <1>7, <2>1 DEF Asked
<1>8. ASSUME Asked(p) PROVE Asked(p)'
  <2>1. Head(ticks[q]) \notin Recvs(MessageTypes)
    <3>1. ticks[q] \in Seq(Tick) /\ ticks[q] # <<>>
      BY DEF Pops, TypeOK
    <3>2. Head(ticks[q]) \in Recvs(MessageTypes) => Within(ticks[q], Recvs(MessageTypes))
      BY <3>1, WithinTail
    <3>. QED BY <1>8, <3>2 DEF Asked, Coming
  <2>2. ~Coming(q, MessageTypes)'
    <3>1. Coming(q, MessageTypes)' => Coming(q, MessageTypes)
      BY PopFlow
    <3>. QED BY <1>8, <3>1 DEF Asked
  <2>. QED BY <1>8, <2>1, <2>2 DEF Asked
<1>. QED BY <1>2, <1>3, <1>4, <1>5, <1>7, <1>8 DEF Stirred

\* A step of its peer.
LEMMA PeerStir ==
    ASSUME TypeOK, Left, Stir, NEW p \in Parties, NEW q \in Parties, q = Peer[p], RunTick(q),
           ~lost', proc' = "running", sm'[p].next # 1
    PROVE  Stirred(p)'
<1>1. /\ Pops(q) /\ ~lost /\ proc = "running" /\ Peer[q] = p /\ p # q
      /\ sm'[p] = sm[p] /\ enc'[p] = enc[p] /\ sm[p].next # 1
  <2>1. Peer[q] = p /\ p # q
    BY PeerFacts
  <2>. QED BY <2>1, RunPops
<1>2. Stirred(p)
  BY <1>1 DEF Stir
<1>3. enc[p]
  BY <1>1 DEF Left, LeftIdle, Idle
<1>4. ASSUME NEW m \in Message, Send(q, m) PROVE Stirred(p)'
  <2>1. m.type \in MessageTypes
    BY MessageFields DEF MessageTypes
  <2>2. Coming(p, MessageTypes)'
    BY <1>1, <1>4, <2>1, SendFlow
  <2>. QED BY <2>2 DEF Stirred
<1>5. Head(ticks[q]) \in Tick
  BY HeadOf
<1>6. CASE ~enc[q]
  <2>1. net' = net
    BY <1>6, RunPops DEF RunInit, CanStart, RunRespond, RunAbort, RunEnd, ReceiveResponse,
       ReceiveProof
  <2>2. Coming(p, {"bye"})
    BY <1>1, <1>3, <1>6 DEF Left, LeftBye
  <2>3. Coming(p, {"bye"})'
    BY <1>1, <2>1, <2>2, PopFlow
  <2>4. Coming(p, MessageTypes)'
    BY <2>3 DEF Coming, Within, Carrying, Recvs, MessageTypes
  <2>. QED BY <2>4 DEF Stirred
<1>7. CASE enc[q]
  <2>1. CASE RunInit(q)
    <3>1. CASE UNCHANGED <<sm, net>>
      <4>1. Head(ticks[q]).op = "init" /\ asked' = asked
        BY <2>1, HeadOf DEF RunInit
      <4>2. /\ \A types : Head(ticks[q]) \notin Recvs(types)
            /\ Head(ticks[q]) \notin Doing(Stops \cup {"respond"})
            /\ Head(ticks[q]) \notin RecvOf(Request(p))
        BY <4>1 DEF Recvs, Doing, Stops, RecvOf
      <4>. QED BY <1>1, <1>2, <3>1, <4>1, <4>2, PeerKeeps
    <3>2. CASE ~UNCHANGED <<sm, net>>
      BY <1>4, <2>1, <3>2, RunSends, MsgTyped
    <3>. QED BY <3>1, <3>2
  <2>2. CASE RunRespond(q)
    BY <1>1, <1>4, <1>7, <2>2, RunSends
  <2>3. CASE RunAbort(q) \/ RunEnd(q)
    BY <1>4, <1>7, <2>3, RunSends
  <2>4. CASE ReceiveResponse(q) \/ ReceiveProof(q)
    BY <1>4, <2>4, ReceiveSends
  <2>5. CASE ReceiveUnread(q)
    BY <1>7, <2>5 DEF ReceiveUnread
  <2>6. CASE ReceiveBye(q)
    <3>1. Head(ticks[q]) \in Recvs({"bye"})
      BY <1>5, <2>6, HeadOf DEF Recvs
    <3>2. Within(ticks[q], Recvs({"bye"}))
      <4>1. ticks[q] \in Seq(Tick) /\ ticks[q] # <<>>
        BY <1>1 DEF Pops, TypeOK
      <4>. QED BY <3>1, <4>1, WithinTail
    <3>. QED BY <1>1, <1>3, <3>2 DEF Left, ByeLeft, Coming
  <2>7. CASE ReceiveUnexpected(q) \/ ReceiveCheated(q)
    <3>1. Queued(q, Stops \cup {"respond"})'
      BY <1>1, <2>7, ErrorFlow DEF ReceiveUnexpected, ReceiveCheated, Pops, Stops
    <3>. QED BY <3>1 DEF Stirred
  <2>8. CASE ReceiveRequest(q) \/ ReceiveEnd(q) \/ ReceiveAbort(q)
    <3>1. /\ Head(ticks[q]).op = "recv" /\ Head(ticks[q]).msg.type \in {"smp1", "smp4", "abort"}
          /\ net' = net
      BY <2>8, HeadOf DEF ReceiveRequest, ReceiveEnd, ReceiveAbort
    <3>2. /\ Head(ticks[q]) \notin Doing(Stops \cup {"respond"})
          /\ Head(ticks[q]) \notin Recvs({"smp2", "smp3"})
          /\ Head(ticks[q]) \in Recvs(MessageTypes)
      BY <1>5, <3>1 DEF Doing, Stops, Recvs, MessageTypes
    <3>3. ASSUME Head(ticks[q]) \in RecvOf(Request(p))
          PROVE  asked'[q] /\ sm'[q].next = 1 /\ sm'[q].run = sm[p].run
      <4>1. Head(ticks[q]).msg = Request(p)
        BY <3>3 DEF RecvOf
      <4>2. Request(p).type = "smp1" /\ Request(p).run = sm[p].run
        BY DEF Request, Msg
      <4>3. ReceiveRequest(q)
        BY <2>8, <4>1, <4>2, HeadOf
      <4>4. Received(q) = Request(p)
        BY <4>1 DEF Received
      <4>. QED BY <4>2, <4>3, <4>4, SmAfterEdit
    <3>. QED BY <1>1, <1>2, <3>1, <3>2, <3>3, PeerKeeps
  <2>. QED BY <2>1, <2>2, <2>3, <2>4, <2>5, <2>6, <2>7, <2>8 DEF RunTick
<1>. QED BY <1>6, <1>7

\* A step of anybody else.
LEMMA OtherStir ==
    ASSUME TypeOK, Stir, NEW p \in Parties, NEW x \in Parties, x # p, x # Peer[p], RunTick(x),
           ~lost', proc' = "running", sm'[p].next # 1
    PROVE  Stirred(p)'
<1>1. Peer[p] \in Parties /\ Peer[x] # p /\ Peer[x] # Peer[p]
  BY PeerFacts
<1>2. Pops(x) /\ ~lost /\ proc = "running"
  BY RunPops
<1>3. sm'[p] = sm[p] /\ sm'[Peer[p]] = sm[Peer[p]] /\ asked'[Peer[p]] = asked[Peer[p]]
  BY <1>1, RunPops
<1>4. Stirred(p)
  BY <1>2, <1>3 DEF Stir
<1>5. net'[p] = net[p] /\ net'[Peer[p]] = net[Peer[p]]
  <2>1. net' = net \/ \E m : Send(x, m)
    BY RunPops DEF RunInit, RunRespond, RunAbort, RunEnd, ReceiveResponse, ReceiveProof
  <2>. QED BY <1>1, <2>1 DEF Send, TypeOK
<1>6. ticks'[p] = ticks[p] /\ ticks'[Peer[p]] = ticks[Peer[p]]
  BY <1>1, <1>2 DEF Pops, Done, Error, TypeOK
<1>. QED BY <1>3, <1>4, <1>5, <1>6 DEF Stirred, Asked, Request, Coming, Queued, Latest

\* A call of a method, or a message delivered.
LEMMA CallStir ==
    ASSUME TypeOK, Stir, NEW p \in Parties, NEW x \in Parties, Application(x) \/ Deliver(x),
           ~lost', proc' = "running", sm'[p].next # 1
    PROVE  Stirred(p)'
<1>. DEFINE q == Peer[p]
<1>1. q \in Parties
  BY PeerFacts
<1>2. sm' = sm /\ lost' = lost /\ proc' = proc
  BY DEF Application, SmpStart, SmpRespond, SmpAbort, End, Queue, Deliver
<1>3. Stirred(p)
  BY <1>2 DEF Stir
<1>. HIDE DEF q
<1>4. CASE Deliver(x)
  <2>1. asked' = asked
    BY <1>4 DEF Deliver
  <2>2. /\ \A types : Coming(p, types) <=> Coming(p, types)'
        /\ \A types : Coming(q, types) <=> Coming(q, types)'
        /\ \A ops : Queued(p, ops) => Queued(p, ops)'
        /\ \A ops : Queued(q, ops) => Queued(q, ops)'
        /\ \A m : Latest(q, m) => Latest(q, m)'
    BY <1>1, <1>4, DeliverFlow
  <2>. QED BY <1>2, <1>3, <2>1, <2>2 DEF Stirred, Asked, Request, q
<1>5. CASE Application(x)
  <2>1. PICK t \in Tick : t.op \in {"init", "respond", "abort", "end"} /\ Queue(x, t)
    BY <1>5, CallTick
  <2>2. Pushes(x, t) /\ t.op # "recv"
    BY <2>1 DEF Queue, Pushes
  <2>3. /\ \A types : Coming(p, types) <=> Coming(p, types)'
        /\ \A types : Coming(q, types) <=> Coming(q, types)'
        /\ \A ops : Queued(p, ops) => Queued(p, ops)'
        /\ \A ops : Queued(q, ops) => Queued(q, ops)'
        /\ \A m : Latest(q, m) => Latest(q, m)'
    BY <1>1, <2>2, PushFlow
  <2>4. CASE asked'[q] = asked[q]
    BY <1>2, <1>3, <2>3, <2>4 DEF Stirred, Asked, Request, q
  <2>5. CASE asked'[q] # asked[q]
    <3>1. x = q /\ (SmpRespond(x) \/ SmpAbort(x) \/ End(x))
      BY <1>1, <1>5, <2>5 DEF Application, SmpStart, SmpRespond, SmpAbort, End, TypeOK
    <3>2. \E u \in Tick : u.op \in Stops \cup {"respond"} /\ Pushes(x, u)
      <4>1. \A s \in Secrets, n \in 0..MaxCalls : n < MaxCalls =>
              [op |-> "respond", id |-> n + 1, sec |-> s] \in Tick
        BY SmpAssumption DEF Tick, Id
      <4>2. [op |-> "abort"] \in Tick /\ [op |-> "end"] \in Tick
        BY DEF Tick
      <4>3. CASE SmpRespond(x)
        <5>1. PICK s \in Secrets : Queue(x, [op |-> "respond", id |-> calls + 1, sec |-> s])
          BY <4>3 DEF SmpRespond
        <5>2. [op |-> "respond", id |-> calls + 1, sec |-> s] \in Tick
          BY <4>1, <5>1 DEF Queue, TypeOK
        <5>3. Pushes(x, [op |-> "respond", id |-> calls + 1, sec |-> s])
          BY <5>1 DEF Queue, Pushes
        <5>. QED BY <5>2, <5>3
      <4>4. CASE SmpAbort(x)
        <5>1. Pushes(x, [op |-> "abort"])
          BY <4>4 DEF SmpAbort, Queue, Pushes
        <5>. QED BY <4>2, <5>1 DEF Stops
      <4>5. CASE End(x)
        <5>1. Pushes(x, [op |-> "end"])
          BY <4>5 DEF End, Queue, Pushes
        <5>. QED BY <4>2, <5>1 DEF Stops
      <4>. QED BY <3>1, <4>3, <4>4, <4>5
    <3>3. PICK u \in Tick : u.op \in Stops \cup {"respond"} /\ Pushes(x, u)
      BY <3>2
    <3>4. u.op # "recv"
      BY <3>3 DEF Stops
    <3>5. Queued(q, Stops \cup {"respond"})'
      BY <1>1, <3>1, <3>3, <3>4, PushFlow
    <3>. QED BY <3>5 DEF Stirred, q
  <2>. QED BY <2>4, <2>5
<1>. QED BY <1>4, <1>5

-----------------------------------------------------------------------------

\* When everything is quiet, all that can be left is the request.
LEMMA StirQuiet == TypeOK /\ Stir => NoStall
<1>. SUFFICES ASSUME TypeOK, Stir, Quiet, ~lost, proc = "running",
                     NEW p \in Parties, sm[p].next # 1
              PROVE  /\ sm[p].next = 2
                     /\ asked[Peer[p]]
                     /\ sm[Peer[p]].next = 1
                     /\ sm[Peer[p]].run = sm[p].run
  BY DEF NoStall
<1>1. Stirred(p) /\ Peer[p] \in Parties
  BY PeerFacts DEF Stir
<1>2. \A q \in Parties : \A types, ops, m :
        ~Coming(q, types) /\ ~Queued(q, ops) /\ ~Latest(q, m)
  BY DEF Quiet, Coming, Queued, Latest, Within, LastIn
<1>. QED BY <1>1, <1>2 DEF Stirred, Asked

LEMMA StirStep == TypeOK /\ Left /\ Stir /\ [Next]_vars => Left' /\ Stir'
<1>. SUFFICES ASSUME TypeOK, Left, Stir, [Next]_vars PROVE Left' /\ Stir'
  OBVIOUS
<1>1. CASE UNCHANGED vars
  BY <1>1 DEF vars, Left, LeftIdle, ByeLeft, LeftBye, Stir, Stirred, Asked, Request, Coming,
     Queued, Latest
<1>2. ASSUME NEW x \in Parties, Application(x) \/ RunTick(x) \/ Deliver(x) \/ Lose(x)
      PROVE  Left' /\ Stir'
  <2>1. Left'
    BY <1>2, LeftTick, LeftQueues
  <2>2. ASSUME ~lost', proc' = "running", NEW p \in Parties, sm'[p].next # 1
        PROVE  Stirred(p)'
    <3>1. CASE RunTick(x)
      <4>1. CASE x = p
        BY <2>2, <3>1, <4>1, SelfStir
      <4>2. CASE x = Peer[p]
        BY <2>2, <3>1, <4>2, PeerStir
      <4>3. CASE x # p /\ x # Peer[p]
        BY <2>2, <3>1, <4>3, OtherStir
      <4>. QED BY <4>1, <4>2, <4>3
    <3>2. CASE Application(x) \/ Deliver(x)
      BY <2>2, <3>2, CallStir
    <3>3. CASE Lose(x)
      BY <2>2, <3>3 DEF Lose
    <3>. QED BY <1>2, <3>1, <3>2, <3>3
  <2>3. Stir'
    BY <2>2 DEF Stir
  <2>. QED BY <2>1, <2>3
<1>. QED BY <1>1, <1>2 DEF Next

\* When nothing is queued, nothing is on its way and nothing was lost, a party in the middle of a
\* run waits at most for the user of the other side, who has been asked for the secret of that
\* very run (the smpRequest event of Session.js) and has not answered.
THEOREM NobodyStalls == Spec => []NoStall
<1>1. Init => Left /\ Stir
  <2>. SUFFICES ASSUME Init PROVE Left /\ Stir
    OBVIOUS
  <2>1. \A p \in Parties : enc[p] /\ sm[p] = Idle /\ net[p] = <<>> /\ ticks[p] = <<>>
    BY DEF Init
  <2>2. \A p \in Parties : \A types : ~Coming(p, types)
    BY <2>1 DEF Coming, Within
  <2>3. Left
    BY <2>1, <2>2, PeerFacts DEF Left, LeftIdle, ByeLeft, LeftBye
  <2>4. Stir
    BY <2>1 DEF Stir, Idle
  <2>. QED BY <2>3, <2>4
<1>. QED BY <1>1, StirStep, StirQuiet, TypeCorrect, PTL DEF Spec

-----------------------------------------------------------------------------
(* That the two sides agree. *)

\* The message m is on its way to p: the network has it, or a tick of p.
OnWay(m, p) ==
    \/ \E k \in DOMAIN net[p] : net[p][k] = m
    \/ \E k \in DOMAIN ticks[p] : ticks[p][k].op = "recv" /\ ticks[p][k].msg = m

\* A run that has begun has left its number somewhere.
Used(r) ==
    \E q \in Parties :
      \/ \E m \in Message : OnWay(m, q) /\ m.run = r
      \/ sm[q].run = r
      \/ mine[q] = r
      \/ r \in done[q]

InitAt(p, k, r) ==
    k \in DOMAIN ticks[p] /\ ticks[p][k].op = "init" /\ ticks[p][k].id = r

\* Only what has been called is used; and a start that is still queued is
\* queued once, and its run not begun.
UsedCalled == \A r \in Id : Used(r) => r <= calls

QueuedOnce == \A p, q \in Parties, r \in Id : \A j, k \in Nat :
            InitAt(p, j, r) /\ InitAt(q, k, r) => p = q /\ j = k

QueuedUnused == \A p \in Parties, r \in Id : \A k \in Nat :
            InitAt(p, k, r) => r <= calls /\ ~Used(r)

\* Before its answer to SMP2, an initiator's proof is not on its way, nor is
\* what can only follow it.
Waits ==
    \A p \in Parties : sm[p].next = 2 =>
      /\ \A m \in Message : OnWay(m, Peer[p]) /\ m.type = "smp3" => m.run # sm[p].run
      /\ \A m \in Message : OnWay(m, p) /\ m.type = "smp4" => m.run # sm[p].run

\* After it, the proof on its way is of the initiator's own secret, and an end
\* made from an equal one comes from a responder that has reported the run.
Shown ==
    \A p \in Parties : sm[p].next = 4 =>
      /\ \A m \in Message :
           OnWay(m, Peer[p]) /\ m.type = "smp3" /\ m.run = sm[p].run => m.sec = sm[p].sec
      /\ \A m \in Message :
           OnWay(m, p) /\ m.type = "smp4" /\ m.run = sm[p].run /\ m.sec = sm[p].sec =>
             m.run \in done[Peer[p]]

\* A run that a party has started is one that the peer cannot prove to it.
Own ==
    \A p \in Parties : mine[p] # NONE =>
      /\ mine[p] \notin done[p]
      /\ \A m \in Message : OnWay(m, p) /\ m.type = "smp3" => m.run # mine[p]
      /\ sm[Peer[p]].next = 2 => sm[Peer[p]].run # mine[p]

Agree == UsedCalled /\ QueuedOnce /\ QueuedUnused /\ Waits /\ Shown /\ Own

-----------------------------------------------------------------------------
(* What a step does to the queues. *)

LEMMA TailElement ==
    ASSUME NEW S, NEW s \in Seq(S), s # <<>>, NEW k \in DOMAIN Tail(s)
    PROVE  k \in Nat /\ k + 1 \in DOMAIN s /\ Tail(s)[k] = s[k + 1]
OBVIOUS

LEMMA AppendElement ==
    ASSUME NEW S, NEW s \in Seq(S), NEW e \in S, NEW k \in DOMAIN Append(s, e)
    PROVE  k \in Nat /\ ((k \in DOMAIN s /\ Append(s, e)[k] = s[k]) \/ Append(s, e)[k] = e)
OBVIOUS

\* A closure that runs takes only itself from the queue, one that is queued
\* adds only itself.
LEMMA TicksAfterDone ==
    ASSUME TypeOK, NEW p \in Parties, ticks[p] # <<>>, Done(p),
           NEW q \in Parties, NEW k \in DOMAIN ticks'[q]
    PROVE  \E j \in DOMAIN ticks[q] :
             ticks'[q][k] = ticks[q][j] /\ j = IF q = p THEN k + 1 ELSE k
<1>1. ticks[p] \in Seq(Tick)
  BY DEF TypeOK
<1>2. ticks' = [ticks EXCEPT ![p] = Tail(@)]
  BY DEF Done
<1>3. CASE q = p
  <2>1. ticks'[q] = Tail(ticks[p])
    BY <1>2, <1>3 DEF TypeOK
  <2> QED BY <1>1, <1>3, <2>1, TailElement
<1>4. CASE q # p
  BY <1>2, <1>4 DEF TypeOK
<1> QED BY <1>3, <1>4

LEMMA TicksAfterAppend ==
    ASSUME TypeOK, NEW p \in Parties, NEW t \in Tick,
           ticks' = [ticks EXCEPT ![p] = Append(@, t)],
           NEW q \in Parties, NEW k \in DOMAIN ticks'[q]
    PROVE  \/ k \in DOMAIN ticks[q] /\ ticks'[q][k] = ticks[q][k]
           \/ q = p /\ ticks'[q][k] = t
<1>1. ticks[p] \in Seq(Tick)
  BY DEF TypeOK
<1>2. CASE q = p
  <2>1. ticks'[q] = Append(ticks[p], t)
    BY <1>2 DEF TypeOK
  <2> QED BY <1>1, <1>2, <2>1, AppendElement
<1>3. CASE q # p
  BY <1>3 DEF TypeOK
<1> QED BY <1>2, <1>3

LEMMA TicksAfterError ==
    ASSUME TypeOK, NEW p \in Parties, ticks[p] # <<>>, Error(p),
           NEW q \in Parties, NEW k \in DOMAIN ticks'[q]
    PROVE  \/ \E j \in DOMAIN ticks[q] :
                ticks'[q][k] = ticks[q][j] /\ j = IF q = p THEN k + 1 ELSE k
           \/ ticks'[q][k] = [op |-> "owed"]
<1>1. ticks[p] \in Seq(Tick) /\ Tail(ticks[p]) \in Seq(Tick) /\ [op |-> "owed"] \in Tick
  BY QueueHead DEF TypeOK, Tick
<1>2. ticks' = [ticks EXCEPT ![p] = Append(Tail(@), [op |-> "owed"])]
  BY DEF Error
<1>3. CASE q = p
  <2>1. ticks'[q] = Append(Tail(ticks[p]), [op |-> "owed"])
    BY <1>2, <1>3 DEF TypeOK
  <2>2. \/ k \in DOMAIN Tail(ticks[p]) /\ ticks'[q][k] = Tail(ticks[p])[k]
        \/ ticks'[q][k] = [op |-> "owed"]
    BY <1>1, <2>1, AppendElement
  <2> QED BY <1>1, <1>3, <2>2, TailElement
<1>4. CASE q # p
  BY <1>2, <1>4 DEF TypeOK
<1> QED BY <1>3, <1>4

\* What has been received was on its way.
LEMMA ReceivedOnWay ==
    ASSUME TypeOK, NEW p \in Parties, NEW types, Receiving(p, types)
    PROVE  /\ ticks[p] # <<>>
           /\ Received(p) \in Message /\ Received(p).type \in types
           /\ OnWay(Received(p), p)
<1>1. ticks[p] # <<>> /\ Head(ticks[p]).op = "recv" /\ Received(p).type \in types
  BY DEF Receiving, Run, Received
<1>2. 1 \in DOMAIN ticks[p] /\ Head(ticks[p]) = ticks[p][1] /\ Head(ticks[p]) \in Tick
  BY <1>1 DEF TypeOK
<1> QED BY <1>1, <1>2, TickFields DEF OnWay, Received

\* The ways on which nothing is added to what is on its way to q: in its queue,
\* and in the network.
LEMMA WayKept ==
    ASSUME TypeOK, NEW p \in Parties, NEW q \in Parties, NEW x \in Message,
           \/ ticks' = ticks
           \/ ticks[p] # <<>> /\ (Done(p) \/ Error(p))
           \/ \E t \in Tick : t.op # "recv" /\ ticks' = [ticks EXCEPT ![p] = Append(@, t)],
           OnWay(x, q)'
    PROVE  OnWay(x, q) \/ \E k \in DOMAIN net'[q] : net'[q][k] = x
<1> SUFFICES ASSUME NEW k \in DOMAIN ticks'[q],
                    ticks'[q][k].op = "recv", ticks'[q][k].msg = x
             PROVE  OnWay(x, q)
  BY DEF OnWay
<1>1. CASE ticks' = ticks
  BY <1>1 DEF OnWay
<1>2. CASE ticks[p] # <<>> /\ Done(p)
  BY <1>2, TicksAfterDone DEF OnWay
<1>3. CASE ticks[p] # <<>> /\ Error(p)
  <2>1. ticks'[q][k] # [op |-> "owed"]
    OBVIOUS
  <2> QED BY <1>3, <2>1, TicksAfterError DEF OnWay
<1>4. ASSUME NEW t \in Tick, t.op # "recv", ticks' = [ticks EXCEPT ![p] = Append(@, t)]
      PROVE  OnWay(x, q)
  BY <1>4, TicksAfterAppend DEF OnWay
<1> QED BY <1>1, <1>2, <1>3, <1>4

LEMMA WaySend ==
    ASSUME TypeOK, NEW p \in Parties, NEW q \in Parties, NEW x \in Message,
           ticks[p] # <<>>, Done(p),
           NEW m \in Message, Send(p, m),
           OnWay(x, q)'
    PROVE  OnWay(x, q) \/ (q = Peer[p] /\ x = m)
<1> SUFFICES ASSUME NEW k \in DOMAIN net'[q], net'[q][k] = x
             PROVE  OnWay(x, q) \/ (q = Peer[p] /\ x = m)
  BY WayKept
<1>1. Peer[p] \in Parties /\ net[Peer[p]] \in Seq(Message)
  BY PeerFacts DEF TypeOK
<1>2. CASE q = Peer[p]
  <2>1. net'[q] = Append(net[q], m)
    BY <1>1, <1>2 DEF Send, TypeOK
  <2> QED BY <1>1, <1>2, <2>1, AppendElement DEF OnWay
<1>3. CASE q # Peer[p]
  BY <1>1, <1>3 DEF Send, OnWay, TypeOK
<1> QED BY <1>2, <1>3

LEMMA WayNetwork ==
    ASSUME TypeOK, NEW p \in Parties, NEW q \in Parties, NEW x \in Message,
           Deliver(p) \/ Lose(p), OnWay(x, q)'
    PROVE  OnWay(x, q)
<1>1. /\ net[p] # <<>> /\ net[p] \in Seq(Message)
      /\ net' = [net EXCEPT ![p] = Tail(@)]
  BY DEF Deliver, Lose, TypeOK
<1>2. ASSUME NEW k \in DOMAIN net'[q], net'[q][k] = x PROVE OnWay(x, q)
  <2>1. CASE q = p
    <3>1. net'[q] = Tail(net[p])
      BY <1>1, <2>1 DEF TypeOK
    <3> QED BY <1>1, <1>2, <2>1, <3>1, TailElement DEF OnWay
  <2>2. CASE q # p
    BY <1>1, <1>2, <2>2 DEF OnWay, TypeOK
  <2> QED BY <2>1, <2>2
<1>3. ASSUME NEW k \in DOMAIN ticks'[q], ticks'[q][k].op = "recv", ticks'[q][k].msg = x
      PROVE  OnWay(x, q)
  <2>1. CASE Lose(p)
    BY <1>3, <2>1 DEF Lose, OnWay
  <2>2. CASE Deliver(p)
    <3> DEFINE t == [op |-> "recv", msg |-> Head(net[p])]
    <3>1. Head(net[p]) \in Message /\ 1 \in DOMAIN net[p] /\ net[p][1] = Head(net[p])
      BY <1>1
    <3>2. t \in Tick /\ t.msg = Head(net[p]) /\ ticks' = [ticks EXCEPT ![p] = Append(@, t)]
      BY <2>2, <3>1 DEF Deliver, Tick
    <3> HIDE DEF t
    <3> QED BY <1>3, <3>1, <3>2, TicksAfterAppend DEF OnWay
  <2> QED BY <2>1, <2>2
<1> QED BY <1>2, <1>3 DEF OnWay

\* The starts that are queued stay where they are, or move up by one with the
\* rest of the queue.
LEMMA InitsMove ==
    ASSUME TypeOK, NEW p \in Parties,
           \/ ticks' = ticks
           \/ ticks[p] # <<>> /\ (Done(p) \/ Error(p))
           \/ \E t \in Tick : t.op # "init" /\ ticks' = [ticks EXCEPT ![p] = Append(@, t)]
    PROVE  \E d \in 0..1 :
             /\ Done(p) /\ ticks[p] # <<>> => d = 1
             /\ \A q \in Parties, r \in Id : \A k \in Nat :
                  InitAt(q, k, r)' => InitAt(q, IF q = p THEN k + d ELSE k, r)
<1>1. \A q \in Parties : DOMAIN ticks[q] \subseteq Nat
  BY DEF TypeOK
<1>2. CASE ticks[p] # <<>> /\ Done(p)
  <2>1. ASSUME NEW q \in Parties, NEW r \in Id, NEW k \in Nat, InitAt(q, k, r)'
        PROVE  InitAt(q, IF q = p THEN k + 1 ELSE k, r)
    BY <1>2, <2>1, TicksAfterDone DEF InitAt
  <2> QED BY <2>1
<1>3. CASE ticks[p] # <<>> /\ Error(p) /\ ~Done(p)
  <2>1. ASSUME NEW q \in Parties, NEW r \in Id, NEW k \in Nat, InitAt(q, k, r)'
        PROVE  InitAt(q, IF q = p THEN k + 1 ELSE k, r)
    <3>1. ticks'[q][k] # [op |-> "owed"] /\ k \in DOMAIN ticks'[q]
      BY <2>1 DEF InitAt
    <3> QED BY <1>3, <2>1, <3>1, TicksAfterError DEF InitAt
  <2> QED BY <1>3, <2>1
<1>4. CASE ticks' = ticks /\ ~(Done(p) /\ ticks[p] # <<>>)
  <2>1. ASSUME NEW q \in Parties, NEW r \in Id, NEW k \in Nat, InitAt(q, k, r)'
        PROVE  InitAt(q, IF q = p THEN k + 0 ELSE k, r)
    BY <1>4, <2>1 DEF InitAt
  <2> QED BY <1>4, <2>1
<1>5. ASSUME NEW t \in Tick, t.op # "init", ticks' = [ticks EXCEPT ![p] = Append(@, t)],
             ~(Done(p) /\ ticks[p] # <<>>)
      PROVE  \A q \in Parties, r \in Id : \A k \in Nat :
               InitAt(q, k, r)' => InitAt(q, IF q = p THEN k + 0 ELSE k, r)
  BY <1>5, TicksAfterAppend DEF InitAt
<1> QED BY <1>2, <1>3, <1>4, <1>5

\* UsedCalled, QueuedOnce and QueuedUnused are kept by a step that uses no other run and does
\* not queue a start.
LEMMA FreshKept ==
    ASSUME TypeOK, TypeOK', UsedCalled, QueuedOnce, QueuedUnused, NEW p \in Parties,
           \/ ticks' = ticks
           \/ ticks[p] # <<>> /\ (Done(p) \/ Error(p))
           \/ \E t \in Tick : t.op # "init" /\ ticks' = [ticks EXCEPT ![p] = Append(@, t)],
           calls' \in Nat, calls \leq calls',
           \A r \in Id : Used(r)' => Used(r)
    PROVE  UsedCalled' /\ QueuedOnce' /\ QueuedUnused'
<1>1. PICK d \in 0..1 :
        \A q \in Parties, r \in Id : \A k \in Nat :
          InitAt(q, k, r)' => InitAt(q, IF q = p THEN k + d ELSE k, r)
  BY InitsMove
<1>2. calls \in Nat /\ \A r \in Id : r \in Nat
  BY SmpAssumption DEF TypeOK, Id
<1>3. UsedCalled'
  BY <1>2 DEF UsedCalled
<1>4. QueuedOnce'
  <2> SUFFICES ASSUME NEW a \in Parties, NEW b \in Parties, NEW r \in Id,
                      NEW j \in Nat, NEW k \in Nat, InitAt(a, j, r)', InitAt(b, k, r)'
               PROVE  a = b /\ j = k
    BY DEF QueuedOnce
  <2>1. /\ InitAt(a, IF a = p THEN j + d ELSE j, r)
        /\ InitAt(b, IF b = p THEN k + d ELSE k, r)
    BY <1>1
  <2>2. a = b /\ (IF a = p THEN j + d ELSE j) = (IF b = p THEN k + d ELSE k)
    BY <2>1 DEF QueuedOnce
  <2> QED BY <2>2
<1>5. QueuedUnused'
  <2> SUFFICES ASSUME NEW q \in Parties, NEW r \in Id, NEW k \in Nat, InitAt(q, k, r)'
               PROVE  r <= calls' /\ ~Used(r)'
    BY DEF QueuedUnused
  <2>1. InitAt(q, IF q = p THEN k + d ELSE k, r)
    BY <1>1
  <2>2. r <= calls /\ ~Used(r)
    BY <2>1 DEF QueuedUnused
  <2> QED BY <1>2, <2>2
<1> QED BY <1>3, <1>4, <1>5

-----------------------------------------------------------------------------

\* An SMP4 that a step sends to q: its run is not one q waits for an answer in,
\* and if it bears q's secret the sender has reported the run.
FineEnd(m, q) ==
    sm[q].run = m.run =>
      /\ sm[q].next # 2
      /\ sm[q].next = 4 /\ m.sec = sm[q].sec => m.run \in done'[Peer[q]]

\* Every step but a start and the answer to SMP2 goes so.
Goes ==
    /\ \A q \in Parties, m \in Message : OnWay(m, q)' =>
         \/ OnWay(m, q)
         \/ /\ m.type # "smp3"
            /\ m.run = NONE \/ Used(m.run)
            /\ m.type = "smp4" => FineEnd(m, q)
    /\ \A q \in Parties :
         /\ sm'[q].run = NONE \/ Used(sm'[q].run)
         /\ sm'[q].next \in {2, 4} =>
              sm'[q].next = sm[q].next /\ sm'[q].run = sm[q].run /\ sm'[q].sec = sm[q].sec
         /\ done[q] \subseteq done'[q]
         /\ \A r \in done'[q] : Used(r)
         /\ mine'[q] = NONE \/ (mine'[q] = mine[q] /\ done'[q] = done[q])

LEMMA GoesUsed ==
    ASSUME TypeOK, TypeOK', Goes, NEW r \in Id, Used(r)'
    PROVE  Used(r)
<1>1. r # NONE
  BY SmpAssumption DEF Id
<1>2. PICK q \in Parties :
        \/ \E m \in Message : OnWay(m, q)' /\ m.run = r
        \/ sm'[q].run = r
        \/ mine'[q] = r
        \/ r \in done'[q]
  BY DEF Used
<1>3. ASSUME NEW m \in Message, OnWay(m, q)', m.run = r PROVE Used(r)
  BY <1>1, <1>3 DEF Goes, Used
<1>4. CASE mine'[q] = r
  BY <1>1, <1>4 DEF Goes, Used
<1> QED BY <1>1, <1>2, <1>3, <1>4 DEF Goes

LEMMA GoesAgree ==
    ASSUME TypeOK, TypeOK', Waits, Shown, Own, Goes
    PROVE  Waits' /\ Shown' /\ Own'
<1>0. \A p \in Parties : Peer[p] \in Parties /\ Peer[Peer[p]] = p
  BY PeerFacts
<1>1. Waits'
  <2> SUFFICES ASSUME NEW p \in Parties, sm'[p].next = 2, NEW m \in Message
               PROVE  /\ OnWay(m, Peer[p])' /\ m.type = "smp3" => m.run # sm'[p].run
                      /\ OnWay(m, p)' /\ m.type = "smp4" => m.run # sm'[p].run
    BY DEF Waits
  <2>1. sm[p].next = 2 /\ sm[p].run = sm'[p].run
    BY DEF Goes
  <2>2. ASSUME OnWay(m, Peer[p])', m.type = "smp3" PROVE m.run # sm'[p].run
    BY <1>0, <2>1, <2>2 DEF Goes, Waits
  <2>3. ASSUME OnWay(m, p)', m.type = "smp4" PROVE m.run # sm'[p].run
    BY <2>1, <2>3 DEF Goes, Waits, FineEnd
  <2> QED BY <2>2, <2>3
<1>2. Shown'
  <2> SUFFICES ASSUME NEW p \in Parties, sm'[p].next = 4, NEW m \in Message,
                      m.run = sm'[p].run
               PROVE  /\ OnWay(m, Peer[p])' /\ m.type = "smp3" => m.sec = sm'[p].sec
                      /\ OnWay(m, p)' /\ m.type = "smp4" /\ m.sec = sm'[p].sec =>
                           m.run \in done'[Peer[p]]
    BY DEF Shown
  <2>1. sm[p].next = 4 /\ sm[p].run = sm'[p].run /\ sm[p].sec = sm'[p].sec
    BY DEF Goes
  <2>2. ASSUME OnWay(m, Peer[p])', m.type = "smp3" PROVE m.sec = sm'[p].sec
    BY <1>0, <2>1, <2>2 DEF Goes, Shown
  <2>3. ASSUME OnWay(m, p)', m.type = "smp4", m.sec = sm'[p].sec
        PROVE  m.run \in done'[Peer[p]]
    <3>1. CASE OnWay(m, p)
      <4>1. m.run \in done[Peer[p]]
        BY <2>1, <2>3, <3>1 DEF Shown
      <4> QED BY <1>0, <4>1 DEF Goes
    <3>2. CASE ~OnWay(m, p)
      <4>1. FineEnd(m, p)
        BY <2>3, <3>2 DEF Goes
      <4> QED BY <2>1, <2>3, <4>1 DEF FineEnd
    <3> QED BY <3>1, <3>2
  <2> QED BY <2>2, <2>3
<1>3. Own'
  <2> SUFFICES ASSUME NEW p \in Parties, mine'[p] # NONE
               PROVE  /\ mine'[p] \notin done'[p]
                      /\ \A m \in Message : OnWay(m, p)' /\ m.type = "smp3" => m.run # mine'[p]
                      /\ sm'[Peer[p]].next = 2 => sm'[Peer[p]].run # mine'[p]
    BY DEF Own
  <2>1. mine'[p] = mine[p] /\ done'[p] = done[p]
    BY DEF Goes
  <2>2. ASSUME NEW m \in Message, OnWay(m, p)', m.type = "smp3" PROVE m.run # mine'[p]
    BY <2>1, <2>2 DEF Goes, Own
  <2>3. sm'[Peer[p]].next = 2 => sm'[Peer[p]].run # mine'[p]
    BY <1>0, <2>1 DEF Goes, Own
  <2> QED BY <2>1, <2>2, <2>3 DEF Own
<1> QED BY <1>1, <1>2, <1>3

\* A step is that of one party: what the others have stays, and what it sends
\* and keeps is used.
LEMMA GoesLocal ==
    ASSUME TypeOK, NEW p \in Parties,
           \A q \in Parties : q # p => sm'[q] = sm[q] /\ mine'[q] = mine[q] /\ done'[q] = done[q],
           sm'[p].run \in {NONE, sm[p].run} \/ Used(sm'[p].run),
           sm'[p].next \notin {2, 4} \/ sm'[p] = sm[p],
           \/ done'[p] = done[p]
           \/ \E r : Used(r) /\ done'[p] = done[p] \cup {r},
           mine'[p] = NONE \/ (mine'[p] = mine[p] /\ done'[p] = done[p]),
           \A q \in Parties, m \in Message : OnWay(m, q)' =>
             \/ OnWay(m, q)
             \/ /\ m.type # "smp3"
                /\ m.run = NONE \/ Used(m.run)
                /\ m.type = "smp4" => FineEnd(m, q)
    PROVE  Goes
<1>1. \A q \in Parties : Used(sm[q].run) /\ \A r \in done[q] : Used(r)
  BY DEF Used
<1>2. ASSUME NEW q \in Parties
      PROVE  /\ sm'[q].run = NONE \/ Used(sm'[q].run)
             /\ sm'[q].next \in {2, 4} =>
                  sm'[q].next = sm[q].next /\ sm'[q].run = sm[q].run /\ sm'[q].sec = sm[q].sec
             /\ done[q] \subseteq done'[q]
             /\ \A r \in done'[q] : Used(r)
             /\ mine'[q] = NONE \/ (mine'[q] = mine[q] /\ done'[q] = done[q])
  BY <1>1
<1> QED BY <1>2 DEF Goes

LEMMA ApplicationGoes ==
    ASSUME TypeOK, NEW p \in Parties, Application(p)
    PROVE  Goes
<1>1. UNCHANGED <<net, sm, mine, done>>
  BY DEF Application, SmpStart, SmpRespond, SmpAbort, End, Queue
<1>2. \E t \in Tick : t.op # "recv" /\ ticks' = [ticks EXCEPT ![p] = Append(@, t)]
  <2>1. PICK t \in Tick : t.op \in {"init", "respond", "abort", "end"} /\ Queue(p, t)
    BY CallTick
  <2> QED BY <2>1 DEF Queue
<1>3. \A q \in Parties, m \in Message : OnWay(m, q)' => OnWay(m, q)
  BY <1>1, <1>2, WayKept DEF OnWay
<1> QED BY <1>1, <1>3, GoesLocal

\* A closure that sends nothing.
LEMMA SilentWay ==
    ASSUME TypeOK, NEW p \in Parties, ticks[p] # <<>>, Done(p) \/ Error(p), UNCHANGED net
    PROVE  \A q \in Parties, m \in Message : OnWay(m, q)' => OnWay(m, q)
BY WayKept DEF OnWay

LEMMA RunGoes ==
    ASSUME TypeOK, TypeOK', NEW p \in Parties, RunRespond(p) \/ RunAbort(p) \/ RunEnd(p)
    PROVE  Goes
<1>1. ticks[p] # <<>> /\ Done(p) /\ UNCHANGED done
  BY DEF RunRespond, RunAbort, RunEnd, Run
<1>2. \A q \in Parties : q # p => mine'[q] = mine[q] /\ sm'[q] = sm[q]
  BY DEF RunRespond, RunAbort, RunEnd, TypeOK
<1>3. sm[p] \in SmState
  BY DEF TypeOK
<1>4. UNCHANGED net => \A q \in Parties, m \in Message : OnWay(m, q)' => OnWay(m, q)
  BY <1>1, SilentWay
<1>5. CASE RunRespond(p)
  <2>1. mine' = mine
    BY <1>5 DEF RunRespond
  <2>2. CASE UNCHANGED <<sm, net>>
    BY <1>1, <1>4, <2>1, <2>2, GoesLocal
  <2>3. CASE ~UNCHANGED <<sm, net>>
    <3> DEFINE t == Head(ticks[p])
    <3>1. /\ sm[p].ready
          /\ sm' = [sm EXCEPT ![p].next = 3, ![p].resp = t.id, ![p].sec = t.sec]
          /\ Send(p, Msg("smp2", sm[p].run, t.id, t.sec))
      BY <1>5, <2>3 DEF RunRespond
    <3>2. t.id \in Id /\ t.sec \in Secrets
      BY <1>1, <1>5, QueueHead, TickFields DEF RunRespond, Run
    <3> HIDE DEF t
    <3>3. sm'[p] = [sm[p] EXCEPT !.next = 3, !.resp = t.id, !.sec = t.sec]
      BY <3>1 DEF TypeOK
    <3>4. sm'[p].next = 3 /\ sm'[p].run = sm[p].run
      BY <1>3, <3>3 DEF SmState
    <3>5. sm[p].run \in Id
      BY <1>3, <3>1, SmKinds, StartedFields
    <3>6. PICK m \in Message : m = Msg("smp2", sm[p].run, t.id, t.sec)
      BY <3>2, <3>5, MsgTyped
    <3>7. m.type = "smp2" /\ m.run = sm[p].run
      BY <3>6 DEF Msg
    <3>8. \A q \in Parties, x \in Message : OnWay(x, q)' => OnWay(x, q) \/ x = m
      BY <1>1, <3>1, <3>6, WaySend
    <3>9. Used(m.run)
      BY <3>7 DEF Used
    <3> QED BY <1>1, <1>2, <2>1, <3>4, <3>7, <3>8, <3>9, GoesLocal
  <2> QED BY <2>2, <2>3
<1>6. CASE RunAbort(p) \/ RunEnd(p)
  <2>1. sm'[p].next = 1 /\ sm'[p].run \in {NONE, sm[p].run}
    <3>1. sm'[p] = Idle \/ sm'[p] = [sm[p] EXCEPT !.next = 1]
      BY <1>6 DEF RunAbort, RunEnd, TypeOK
    <3>2. Idle.next = 1 /\ Idle.run = NONE
      BY DEF Idle
    <3> QED BY <1>3, <3>1, <3>2, SmNext
  <2>2. mine'[p] = NONE \/ mine'[p] = mine[p]
    BY <1>6 DEF RunAbort, RunEnd, TypeOK
  <2>3. \/ UNCHANGED net
        \/ \E type \in {"abort", "bye"} : Send(p, Msg(type, NONE, NONE, NONE))
    BY <1>6 DEF RunAbort, RunEnd
  <2>4. CASE UNCHANGED net
    BY <1>1, <1>2, <1>4, <2>1, <2>2, <2>4, GoesLocal
  <2>5. ASSUME NEW type \in {"abort", "bye"}, Send(p, Msg(type, NONE, NONE, NONE))
        PROVE  Goes
    <3>1. PICK m \in Message : m = Msg(type, NONE, NONE, NONE)
      BY MsgTyped
    <3>2. m.type \notin {"smp3", "smp4"} /\ m.run = NONE
      BY <3>1 DEF Msg
    <3>3. \A q \in Parties, x \in Message : OnWay(x, q)' => OnWay(x, q) \/ x = m
      BY <1>1, <2>5, <3>1, WaySend
    <3> QED BY <1>1, <1>2, <2>1, <2>2, <3>2, <3>3, GoesLocal
  <2> QED BY <2>3, <2>4, <2>5
<1> QED BY <1>5, <1>6

\* A message that is received and answered with nothing.
LEMMA ReceiveGoes ==
    ASSUME TypeOK, TypeOK', NEW p \in Parties,
           \/ ReceiveUnread(p) \/ ReceiveBye(p) \/ ReceiveRequest(p) \/ ReceiveUnexpected(p)
           \/ ReceiveCheated(p) \/ ReceiveEnd(p) \/ ReceiveAbort(p)
    PROVE  Goes
<1>1. PICK m \in Message : m = Received(p) /\ OnWay(m, p) /\ ticks[p] # <<>>
  BY ReceivedOnWay DEF ReceiveUnread, ReceiveBye, ReceiveRequest, ReceiveUnexpected,
     ReceiveCheated, ReceiveEnd, ReceiveAbort
<1>2. Used(m.run)
  BY <1>1 DEF Used
<1>3. (Done(p) \/ Error(p)) /\ UNCHANGED net
  BY DEF ReceiveUnread, ReceiveBye, ReceiveRequest, ReceiveUnexpected,
     ReceiveCheated, ReceiveEnd, ReceiveAbort, Outcome
<1>4. \A q \in Parties, x \in Message : OnWay(x, q)' => OnWay(x, q)
  BY <1>1, <1>3, SilentWay
<1>5. \A q \in Parties : q # p => mine'[q] = mine[q] /\ sm'[q] = sm[q] /\ done'[q] = done[q]
  <2>1. CASE ReceiveEnd(p)
    BY <2>1 DEF ReceiveEnd, Outcome, TypeOK
  <2>2. CASE ReceiveUnexpected(p) \/ ReceiveCheated(p)
    BY <2>2 DEF ReceiveUnexpected, ReceiveCheated, Error, TypeOK
  <2>3. CASE ReceiveUnread(p) \/ ReceiveBye(p) \/ ReceiveRequest(p) \/ ReceiveAbort(p)
    BY <2>3 DEF ReceiveUnread, ReceiveBye, ReceiveRequest, ReceiveAbort, TypeOK
  <2> QED BY <2>1, <2>2, <2>3
<1>6. sm[p] \in SmState
  BY DEF TypeOK
<1>7. CASE ReceiveUnread(p) \/ ReceiveUnexpected(p)
  <2>1. sm' = sm /\ done' = done /\ (mine'[p] = NONE \/ mine'[p] = mine[p])
    BY <1>7 DEF ReceiveUnread, ReceiveUnexpected, Error, TypeOK
  <2> QED BY <1>4, <1>5, <2>1, GoesLocal
<1>8. CASE ReceiveRequest(p)
  <2>1. mine' = mine /\ done' = done
    BY <1>8 DEF ReceiveRequest
  <2>2. sm'[p] = [sm[p] EXCEPT !.ready = TRUE, !.run = m.run, !.resp = NONE] /\ sm[p].next = 1
    BY <1>1, <1>8 DEF ReceiveRequest, TypeOK
  <2>3. sm'[p].next = 1 /\ sm'[p].run = m.run
    BY <1>6, <2>2 DEF SmState
  <2> QED BY <1>2, <1>4, <1>5, <2>1, <2>3, GoesLocal
<1>9. CASE ReceiveBye(p) \/ ReceiveCheated(p) \/ ReceiveEnd(p) \/ ReceiveAbort(p)
  <2>1. sm'[p] = Idle \/ sm'[p] = [sm[p] EXCEPT !.next = 1]
    BY <1>9 DEF ReceiveBye, ReceiveCheated, ReceiveEnd, ReceiveAbort, TypeOK
  <2>2. sm'[p].next = 1 /\ sm'[p].run \in {NONE, sm[p].run}
    <3>1. Idle.next = 1 /\ Idle.run = NONE
      BY DEF Idle
    <3> QED BY <1>6, <2>1, <3>1, SmNext
  <2>3. mine'[p] = NONE
    BY <1>9 DEF ReceiveBye, ReceiveCheated, ReceiveEnd, ReceiveAbort, Outcome, Error, TypeOK
  <2>4. done'[p] = done[p] \/ done'[p] = done[p] \cup {m.run}
    BY <1>1, <1>9 DEF ReceiveBye, ReceiveCheated, ReceiveEnd, ReceiveAbort, Outcome, Error, TypeOK
  <2> QED BY <1>2, <1>4, <1>5, <2>2, <2>3, <2>4, GoesLocal
<1> QED BY <1>7, <1>8, <1>9

\* The responder's end is a fine one: the initiator waits for no answer, because
\* its proof was on its way, and that proof was of its own secret.
LEMMA ProofGoes ==
    ASSUME TypeOK, TypeOK', Waits, Shown, NEW p \in Parties, ReceiveProof(p)
    PROVE  Goes
<1>1. PICK m \in Message : /\ m = Received(p) /\ OnWay(m, p) /\ ticks[p] # <<>>
                           /\ m.type = "smp3"
  BY ReceivedOnWay DEF ReceiveProof
<1>2. Used(m.run)
  BY <1>1 DEF Used
<1>3. sm[p] \in SmState /\ sm[p].sec \in Secrets \cup {NONE}
  BY SmFields DEF TypeOK
<1>4. PICK e \in Message : e = Msg("smp4", m.run, m.resp, sm[p].sec)
  BY <1>1, <1>3, MessageFields, MsgTyped
<1>5. e.type = "smp4" /\ e.run = m.run /\ e.sec = sm[p].sec
  BY <1>4 DEF Msg
<1>6. /\ sm' = [sm EXCEPT ![p].next = 1]
      /\ Send(p, e) /\ Done(p)
      /\ mine' = [mine EXCEPT ![p] = NONE]
      /\ done' = IF m.sec = sm[p].sec THEN [done EXCEPT ![p] = @ \cup {m.run}] ELSE done
  BY <1>1, <1>4 DEF ReceiveProof, Outcome
<1>7. \A q \in Parties, x \in Message : OnWay(x, q)' => OnWay(x, q) \/ (q = Peer[p] /\ x = e)
  BY <1>1, <1>6, WaySend
<1>8. FineEnd(e, Peer[p])
  <2>1. Peer[p] \in Parties /\ Peer[Peer[p]] = p
    BY PeerFacts
  <2> DEFINE i == Peer[p]
  <2> SUFFICES ASSUME sm[i].run = e.run
               PROVE  /\ sm[i].next # 2
                      /\ sm[i].next = 4 /\ e.sec = sm[i].sec => e.run \in done'[p]
    BY <2>1 DEF FineEnd
  <2>2. sm[i].next # 2
    BY <1>1, <1>5, <2>1 DEF Waits
  <2>3. ASSUME sm[i].next = 4, e.sec = sm[i].sec PROVE e.run \in done'[p]
    <3>1. m.sec = sm[i].sec
      BY <1>1, <1>5, <2>1, <2>3 DEF Shown
    <3> QED BY <1>5, <1>6, <2>3, <3>1 DEF TypeOK
  <2> QED BY <2>2, <2>3
<1>9. \A q \in Parties : q # p => mine'[q] = mine[q] /\ sm'[q] = sm[q] /\ done'[q] = done[q]
  BY <1>6 DEF TypeOK
<1>10. sm'[p] = [sm[p] EXCEPT !.next = 1] /\ mine'[p] = NONE
  BY <1>6 DEF TypeOK
<1>11. sm'[p].next = 1 /\ sm'[p].run = sm[p].run
  BY <1>3, <1>10 DEF SmState
<1>12. done'[p] = done[p] \/ done'[p] = done[p] \cup {m.run}
  BY <1>6 DEF TypeOK
<1>13. \A q \in Parties, x \in Message : OnWay(x, q)' =>
         \/ OnWay(x, q)
         \/ x.type # "smp3" /\ Used(x.run) /\ FineEnd(x, q)
  BY <1>2, <1>5, <1>7, <1>8
<1>14. \A q \in Parties, x \in Message : OnWay(x, q)' =>
         \/ OnWay(x, q)
         \/ /\ x.type # "smp3"
            /\ x.run = NONE \/ Used(x.run)
            /\ x.type = "smp4" => FineEnd(x, q)
  BY <1>13
<1>15. \/ done'[p] = done[p]
       \/ \E r : Used(r) /\ done'[p] = done[p] \cup {r}
  BY <1>2, <1>12
<1>16. /\ sm'[p].run \in {NONE, sm[p].run} \/ Used(sm'[p].run)
       /\ sm'[p].next \notin {2, 4} \/ sm'[p] = sm[p]
       /\ mine'[p] = NONE
  BY <1>10, <1>11
<1> QED BY <1>9, <1>14, <1>15, <1>16, GoesLocal

LEMMA NetworkGoes ==
    ASSUME TypeOK, NEW p \in Parties, Deliver(p) \/ Lose(p)
    PROVE  Goes
<1>1. UNCHANGED <<sm, mine, done>>
  BY DEF Deliver, Lose
<1>2. \A q \in Parties, m \in Message : OnWay(m, q)' => OnWay(m, q)
  BY WayNetwork
<1> QED BY <1>1, <1>2, GoesLocal

-----------------------------------------------------------------------------

\* A run that begins was queued, so that nothing bears its number yet.
LEMMA StartAgree ==
    ASSUME TypeOK, TypeOK', Agree, NEW p \in Parties, RunInit(p), CanStart(p)
    PROVE  Agree'
<1>1. ticks[p] # <<>> /\ Done(p) /\ Head(ticks[p]).op = "init"
  BY DEF RunInit, Run
<1>2. PICK r \in Id, s \in Secrets :
        /\ sm' = [sm EXCEPT ![p] = [next |-> 2, ready |-> TRUE,
                                    run |-> r, resp |-> NONE, sec |-> s]]
        /\ Send(p, Msg("smp1", r, NONE, NONE))
        /\ mine' = [mine EXCEPT ![p] = IF AbortOwed(p) THEN NONE ELSE r]
        /\ InitAt(p, 1, r)
  <2>1. Head(ticks[p]).id \in Id /\ Head(ticks[p]).sec \in Secrets
    BY <1>1, QueueHead, TickFields
  <2>2. InitAt(p, 1, Head(ticks[p]).id)
    BY <1>1 DEF InitAt, TypeOK
  <2> QED BY <2>1, <2>2 DEF RunInit
<1>3. UNCHANGED <<calls, done>>
  BY DEF RunInit
<1>4. r <= calls /\ ~Used(r) /\ r # NONE
  BY <1>2, SmpAssumption DEF Agree, QueuedUnused, Id
<1>5. PICK m \in Message : m = Msg("smp1", r, NONE, NONE)
  BY MsgTyped
<1>6. m.type = "smp1" /\ m.run = r
  BY <1>5 DEF Msg
<1>7. \A q \in Parties, x \in Message : OnWay(x, q)' => OnWay(x, q) \/ x = m
  BY <1>1, <1>2, <1>5, WaySend
<1>8. \A q \in Parties, x \in Message : OnWay(x, q) => x.run # r
  BY <1>4 DEF Used
<1>9. sm'[p].next = 2 /\ sm'[p].run = r /\ mine'[p] \in {NONE, r}
  BY <1>2 DEF TypeOK
<1>10. \A q \in Parties : q # p => sm'[q] = sm[q] /\ mine'[q] = mine[q]
  BY <1>2 DEF TypeOK
<1>11. \A q \in Parties : sm[q].run # r /\ mine[q] # r /\ r \notin done[q]
  BY <1>4 DEF Used
<1>12. \A q \in Parties : Peer[q] \in Parties /\ Peer[q] # q /\ Peer[Peer[q]] = q
  BY PeerFacts
<1>13. ASSUME NEW n \in Id, Used(n)' PROVE Used(n) \/ n = r
  BY <1>3, <1>4, <1>6, <1>7, <1>9, <1>10, <1>13, SmpAssumption DEF Used, Id
<1>14. UsedCalled'
  BY <1>3, <1>4, <1>13 DEF Agree, UsedCalled
<1>15. QueuedOnce' /\ QueuedUnused'
  <2>1. \A q \in Parties, n \in Id : \A k \in Nat :
          InitAt(q, k, n)' => InitAt(q, IF q = p THEN k + 1 ELSE k, n)
    <3>1. PICK d \in 0..1 :
            /\ Done(p) /\ ticks[p] # <<>> => d = 1
            /\ \A q \in Parties, n \in Id : \A k \in Nat :
                 InitAt(q, k, n)' => InitAt(q, IF q = p THEN k + d ELSE k, n)
      BY <1>1, InitsMove
    <3> QED BY <1>1, <3>1
  <2>2. ASSUME NEW a \in Parties, NEW b \in Parties, NEW n \in Id,
               NEW j \in Nat, NEW k \in Nat, InitAt(a, j, n)', InitAt(b, k, n)'
        PROVE  a = b /\ j = k
    <3>1. /\ InitAt(a, IF a = p THEN j + 1 ELSE j, n)
          /\ InitAt(b, IF b = p THEN k + 1 ELSE k, n)
      BY <2>1, <2>2
    <3>2. a = b /\ (IF a = p THEN j + 1 ELSE j) = (IF b = p THEN k + 1 ELSE k)
      BY <3>1 DEF Agree, QueuedOnce
    <3> QED BY <3>2
  <2>3. ASSUME NEW q \in Parties, NEW n \in Id, NEW k \in Nat, InitAt(q, k, n)'
        PROVE  n <= calls' /\ ~Used(n)'
    <3>1. InitAt(q, IF q = p THEN k + 1 ELSE k, n)
      BY <2>1, <2>3
    <3>2. n <= calls /\ ~Used(n)
      BY <3>1 DEF Agree, QueuedUnused
    <3>3. k # 0
      BY <2>3 DEF InitAt, TypeOK
    <3>4. n # r
      BY <1>2, <3>1, <3>3 DEF Agree, QueuedOnce
    <3> QED BY <1>3, <1>13, <3>2, <3>4
  <2> QED BY <2>2, <2>3 DEF QueuedOnce, QueuedUnused
<1>16. Waits'
  <2> SUFFICES ASSUME NEW q \in Parties, sm'[q].next = 2, NEW x \in Message
               PROVE  /\ OnWay(x, Peer[q])' /\ x.type = "smp3" => x.run # sm'[q].run
                      /\ OnWay(x, q)' /\ x.type = "smp4" => x.run # sm'[q].run
    BY DEF Waits
  <2>1. x.type \in {"smp3", "smp4"} =>
          /\ OnWay(x, q)' => OnWay(x, q)
          /\ OnWay(x, Peer[q])' => OnWay(x, Peer[q])
    BY <1>6, <1>7, <1>12
  <2>2. CASE q = p
    BY <1>8, <1>9, <1>12, <2>1, <2>2
  <2>3. CASE q # p
    BY <1>10, <2>1, <2>3 DEF Agree, Waits
  <2> QED BY <2>2, <2>3
<1>17. Shown'
  <2> SUFFICES ASSUME NEW q \in Parties, sm'[q].next = 4, NEW x \in Message,
                      x.run = sm'[q].run
               PROVE  /\ OnWay(x, Peer[q])' /\ x.type = "smp3" => x.sec = sm'[q].sec
                      /\ OnWay(x, q)' /\ x.type = "smp4" /\ x.sec = sm'[q].sec =>
                           x.run \in done'[Peer[q]]
    BY DEF Shown
  <2>1. x.type \in {"smp3", "smp4"} =>
          /\ OnWay(x, q)' => OnWay(x, q)
          /\ OnWay(x, Peer[q])' => OnWay(x, Peer[q])
    BY <1>6, <1>7, <1>12
  <2>2. q # p /\ sm'[q] = sm[q]
    BY <1>9, <1>10
  <2> QED BY <1>3, <2>1, <2>2 DEF Agree, Shown
<1>18. Own'
  <2> SUFFICES ASSUME NEW q \in Parties, mine'[q] # NONE
               PROVE  /\ mine'[q] \notin done'[q]
                      /\ \A x \in Message : OnWay(x, q)' /\ x.type = "smp3" => x.run # mine'[q]
                      /\ sm'[Peer[q]].next = 2 => sm'[Peer[q]].run # mine'[q]
    BY DEF Own
  <2>1. CASE q = p
    BY <1>3, <1>6, <1>7, <1>8, <1>9, <1>10, <1>11, <1>12, <2>1
  <2>2. CASE q # p
    <3>1. mine'[q] = mine[q] /\ mine[q] # r
      BY <1>10, <1>11, <2>2
    <3>2. sm'[Peer[q]].next = 2 => sm'[Peer[q]].run # mine'[q]
      BY <1>9, <1>10, <1>12, <3>1 DEF Agree, Own
    <3> QED BY <1>3, <1>6, <1>7, <3>1, <3>2 DEF Agree, Own
  <2> QED BY <2>1, <2>2
<1> QED BY <1>14, <1>15, <1>16, <1>17, <1>18 DEF Agree

\* The initiator's proof is the only one of its run.
LEMMA ResponseAgree ==
    ASSUME TypeOK, TypeOK', Agree, NEW p \in Parties, ReceiveResponse(p)
    PROVE  /\ Waits' /\ Shown' /\ Own'
           /\ \A r \in Id : Used(r)' => Used(r)
<1>1. PICK m \in Message : m = Received(p) /\ OnWay(m, p) /\ ticks[p] # <<>> /\ m.type = "smp2"
  BY ReceivedOnWay DEF ReceiveResponse
<1>2. /\ sm[p].next = 2 /\ m.run = sm[p].run
      /\ sm' = [sm EXCEPT ![p] = [sm[p] EXCEPT !.next = 4, !.resp = m.resp]]
      /\ Send(p, Msg("smp3", m.run, m.resp, sm[p].sec))
      /\ Done(p) /\ UNCHANGED <<mine, done>>
  BY <1>1 DEF ReceiveResponse, InProgress, Verifies
<1>3. sm[p] \in SmState /\ sm[p].sec \in Secrets \cup {NONE}
  BY SmFields DEF TypeOK
<1>4. PICK e \in Message : e = Msg("smp3", m.run, m.resp, sm[p].sec)
  BY <1>1, <1>3, MessageFields, MsgTyped
<1>5. e.type = "smp3" /\ e.run = sm[p].run /\ e.sec = sm[p].sec
  BY <1>2, <1>4 DEF Msg
<1>6. \A q \in Parties, x \in Message : OnWay(x, q)' => OnWay(x, q) \/ (q = Peer[p] /\ x = e)
  BY <1>1, <1>2, <1>4, WaySend
<1>7. sm'[p].next = 4 /\ sm'[p].run = sm[p].run /\ sm'[p].sec = sm[p].sec
  <2>1. sm'[p] = [sm[p] EXCEPT !.next = 4, !.resp = m.resp]
    BY <1>2 DEF TypeOK
  <2> QED BY <1>3, <2>1 DEF SmState
<1>8. \A q \in Parties : q # p => sm'[q] = sm[q]
  BY <1>2 DEF TypeOK
<1>9. \A q \in Parties : Peer[q] \in Parties /\ Peer[q] # q /\ Peer[Peer[q]] = q
  BY PeerFacts
<1>10. Waits'
  BY <1>5, <1>6, <1>7, <1>8, <1>9 DEF Agree, Waits
<1>11. Shown'
  <2> SUFFICES ASSUME NEW q \in Parties, sm'[q].next = 4, NEW x \in Message,
                      x.run = sm'[q].run
               PROVE  /\ OnWay(x, Peer[q])' /\ x.type = "smp3" => x.sec = sm'[q].sec
                      /\ OnWay(x, q)' /\ x.type = "smp4" /\ x.sec = sm'[q].sec =>
                           x.run \in done'[Peer[q]]
    BY DEF Shown
  <2>1. CASE q = p
    BY <1>2, <1>5, <1>6, <1>7, <1>9, <2>1 DEF Agree, Waits
  <2>2. CASE q # p
    BY <1>2, <1>5, <1>6, <1>8, <1>9, <2>2 DEF Agree, Shown
  <2> QED BY <2>1, <2>2
<1>12. Own'
  <2> SUFFICES ASSUME NEW q \in Parties, mine'[q] # NONE
               PROVE  /\ mine'[q] \notin done'[q]
                      /\ \A x \in Message : OnWay(x, q)' /\ x.type = "smp3" => x.run # mine'[q]
                      /\ sm'[Peer[q]].next = 2 => sm'[Peer[q]].run # mine'[q]
    BY DEF Own
  <2>1. mine'[q] = mine[q] /\ done'[q] = done[q]
    BY <1>2
  <2>2. sm'[Peer[q]].next = 2 => sm'[Peer[q]].run # mine'[q]
    BY <1>7, <1>8, <1>9, <2>1 DEF Agree, Own
  <2>3. ASSUME NEW x \in Message, OnWay(x, q)', x.type = "smp3" PROVE x.run # mine'[q]
    <3>1. CASE OnWay(x, q)
      BY <2>1, <2>3, <3>1 DEF Agree, Own
    <3>2. CASE q = Peer[p] /\ x = e
      BY <1>2, <1>5, <1>9, <2>1, <3>2 DEF Agree, Own
    <3> QED BY <1>6, <2>3, <3>1, <3>2
  <2> QED BY <2>1, <2>2, <2>3 DEF Agree, Own
<1>13. ASSUME NEW r \in Id, Used(r)' PROVE Used(r)
  BY <1>2, <1>5, <1>6, <1>7, <1>8, <1>13 DEF Used
<1> QED BY <1>10, <1>11, <1>12, <1>13

\* A call is queued under a number that nothing bears yet.
LEMMA CallAgree ==
    ASSUME TypeOK, TypeOK', Agree, NEW p \in Parties, Application(p)
    PROVE  Agree'
<1>1. Goes
  BY ApplicationGoes
<1>2. \A r \in Id : Used(r)' => Used(r)
  BY <1>1, GoesUsed
<1>3. PICK t \in Tick : Queue(p, t) /\ (t.op # "init" \/ t.id = calls + 1)
  <2>1. CASE SmpStart(p)
    <3>1. PICK s \in Secrets : Queue(p, [op |-> "init", id |-> calls + 1, sec |-> s])
      BY <2>1 DEF SmpStart
    <3>2. [op |-> "init", id |-> calls + 1, sec |-> s] \in Tick
      BY <3>1, SmpAssumption DEF Queue, TypeOK, Tick, Id
    <3> QED BY <3>1, <3>2
  <2>2. CASE SmpRespond(p)
    <3>1. PICK s \in Secrets : Queue(p, [op |-> "respond", id |-> calls + 1, sec |-> s])
      BY <2>2 DEF SmpRespond
    <3>2. [op |-> "respond", id |-> calls + 1, sec |-> s] \in Tick
      BY <3>1, SmpAssumption DEF Queue, TypeOK, Tick, Id
    <3> QED BY <3>1, <3>2
  <2>3. CASE SmpAbort(p) \/ End(p)
    <3>1. [op |-> "abort"] \in Tick /\ [op |-> "end"] \in Tick
      BY DEF Tick
    <3> QED BY <2>3, <3>1 DEF SmpAbort, End
  <2> QED BY <2>1, <2>2, <2>3 DEF Application
<1>4. /\ calls \in Nat /\ calls' \in Nat /\ calls' = calls + 1
      /\ ticks' = [ticks EXCEPT ![p] = Append(@, t)]
      /\ \A r \in Id : r \in Nat
  BY <1>3, SmpAssumption DEF Queue, TypeOK, Id
<1>5. UsedCalled' /\ QueuedOnce' /\ QueuedUnused'
  <2>1. CASE t.op # "init"
    <3>1. \E u \in Tick : u.op # "init" /\ ticks' = [ticks EXCEPT ![p] = Append(@, u)]
      BY <1>4, <2>1
    <3>2. calls' \in Nat /\ calls \leq calls'
      BY <1>4
    <3> QED BY <1>2, <3>1, <3>2, FreshKept DEF Agree
  <2>2. CASE t.op = "init"
    <3>1. ASSUME NEW q \in Parties, NEW r \in Id, NEW k \in Nat, InitAt(q, k, r)'
          PROVE  InitAt(q, k, r) \/ (q = p /\ r = calls + 1 /\ k = Len(ticks[p]) + 1)
      <4>1. ticks[q] \in Seq(Tick) /\ ticks[p] \in Seq(Tick)
        BY DEF TypeOK
      <4>2. CASE q = p
        <5>1. ticks'[q] = Append(ticks[p], t)
          BY <1>4, <4>2 DEF TypeOK
        <5>2. k \in DOMAIN ticks'[q] /\ ticks'[q][k].op = "init" /\ ticks'[q][k].id = r
          BY <3>1 DEF InitAt
        <5> QED BY <1>3, <2>2, <4>1, <4>2, <5>1, <5>2 DEF InitAt
      <4>3. CASE q # p
        BY <1>4, <3>1, <4>3 DEF InitAt, TypeOK
      <4> QED BY <4>2, <4>3
    <3>2. \A q \in Parties, k \in Nat : ~InitAt(q, k, calls + 1)
      BY <1>4, SmpAssumption DEF Agree, QueuedUnused, Id, InitAt, Queue, TypeOK
    <3>3. UsedCalled'
      BY <1>2, <1>4 DEF Agree, UsedCalled
    <3>4. QueuedOnce'
      <4> SUFFICES ASSUME NEW a \in Parties, NEW b \in Parties, NEW r \in Id,
                          NEW j \in Nat, NEW k \in Nat, InitAt(a, j, r)', InitAt(b, k, r)'
                   PROVE  a = b /\ j = k
        BY DEF QueuedOnce
      <4> QED BY <3>1, <3>2 DEF Agree, QueuedOnce
    <3>5. QueuedUnused'
      <4> SUFFICES ASSUME NEW q \in Parties, NEW r \in Id, NEW k \in Nat, InitAt(q, k, r)'
                   PROVE  r <= calls' /\ ~Used(r)'
        BY DEF QueuedUnused
      <4>1. CASE InitAt(q, k, r)
        BY <1>2, <1>4, <4>1 DEF Agree, QueuedUnused
      <4>2. CASE r = calls + 1
        BY <1>2, <1>4, <4>2 DEF Agree, UsedCalled
      <4> QED BY <3>1, <4>1, <4>2
    <3> QED BY <3>3, <3>4, <3>5
  <2> QED BY <2>1, <2>2
<1> QED BY <1>1, <1>5, GoesAgree DEF Agree

-----------------------------------------------------------------------------

\* A step that goes so, and queues no start.
LEMMA GoesKeeps ==
    ASSUME TypeOK, TypeOK', Agree, NEW p \in Parties, Goes, UNCHANGED calls,
           \/ ticks' = ticks
           \/ ticks[p] # <<>> /\ (Done(p) \/ Error(p))
           \/ \E t \in Tick : t.op # "init" /\ ticks' = [ticks EXCEPT ![p] = Append(@, t)]
    PROVE  Agree'
<1>1. calls \in Nat /\ calls' \in Nat /\ calls \leq calls'
  BY SmpAssumption DEF TypeOK
<1>2. \A r \in Id : Used(r)' => Used(r)
  BY GoesUsed
<1>3. UsedCalled' /\ QueuedOnce' /\ QueuedUnused'
  BY <1>1, <1>2, FreshKept DEF Agree
<1> QED BY <1>3, GoesAgree DEF Agree

LEMMA NextAgree ==
    ASSUME TypeOK, TypeOK', Agree, [Next]_vars
    PROVE  Agree'
<1>1. CASE UNCHANGED vars
  <2>1. \A q \in Parties : \A m : OnWay(m, q)' <=> OnWay(m, q)
    BY <1>1 DEF vars, OnWay
  <2>2. \A r : Used(r)' <=> Used(r)
    BY <1>1, <2>1 DEF vars, Used
  <2>3. \A q \in Parties : \A k, r : InitAt(q, k, r)' <=> InitAt(q, k, r)
    BY <1>1 DEF vars, InitAt
  <2> QED
    BY <1>1, <2>1, <2>2, <2>3, PeerFacts
    DEF vars, Agree, UsedCalled, QueuedOnce, QueuedUnused, Waits, Shown, Own
<1>2. ASSUME NEW p \in Parties, RunInit(p) PROVE Agree'
  <2>1. CASE CanStart(p)
    BY <1>2, <2>1, StartAgree
  <2>2. CASE ~CanStart(p)
    <3>1. ticks[p] # <<>> /\ Done(p) /\ UNCHANGED <<calls, net, sm, mine, done>>
      BY <1>2, <2>2 DEF RunInit, Run
    <3>2. Goes
      BY <3>1, SilentWay, GoesLocal
    <3> QED BY <3>1, <3>2, GoesKeeps
  <2> QED BY <2>1, <2>2
<1>3. ASSUME NEW p \in Parties, RunRespond(p) \/ RunAbort(p) \/ RunEnd(p) PROVE Agree'
  <2>1. ticks[p] # <<>> /\ Done(p) /\ UNCHANGED calls
    BY <1>3 DEF RunRespond, RunAbort, RunEnd, Run
  <2> QED BY <1>3, <2>1, RunGoes, GoesKeeps
<1>4. ASSUME NEW p \in Parties,
             \/ ReceiveUnread(p) \/ ReceiveBye(p) \/ ReceiveRequest(p) \/ ReceiveUnexpected(p)
             \/ ReceiveCheated(p) \/ ReceiveEnd(p) \/ ReceiveAbort(p)
      PROVE  Agree'
  <2>1. ticks[p] # <<>> /\ (Done(p) \/ Error(p)) /\ UNCHANGED calls
    BY <1>4 DEF ReceiveUnread, ReceiveBye, ReceiveRequest, ReceiveUnexpected,
       ReceiveCheated, ReceiveEnd, ReceiveAbort, Outcome, Receiving, Run
  <2> QED BY <1>4, <2>1, ReceiveGoes, GoesKeeps
<1>5. ASSUME NEW p \in Parties, ReceiveProof(p) PROVE Agree'
  <2>1. ticks[p] # <<>> /\ Done(p) /\ UNCHANGED calls
    BY <1>5 DEF ReceiveProof, Outcome, Receiving, Run
  <2>2. Goes
    BY <1>5, ProofGoes DEF Agree
  <2> QED BY <2>1, <2>2, GoesKeeps
<1>6. ASSUME NEW p \in Parties, ReceiveResponse(p) PROVE Agree'
  <2>1. ticks[p] # <<>> /\ Done(p) /\ UNCHANGED calls
    BY <1>6 DEF ReceiveResponse, InProgress, Receiving, Run
  <2>2. Waits' /\ Shown' /\ Own' /\ \A r \in Id : Used(r)' => Used(r)
    BY <1>6, ResponseAgree
  <2>3. calls \in Nat /\ calls' \in Nat /\ calls \leq calls'
    BY <2>1, SmpAssumption DEF TypeOK
  <2>4. UsedCalled' /\ QueuedOnce' /\ QueuedUnused'
    BY <2>1, <2>2, <2>3, FreshKept DEF Agree
  <2> QED BY <2>2, <2>4 DEF Agree
<1>7. ASSUME NEW p \in Parties, Deliver(p) \/ Lose(p) PROVE Agree'
  <2>1. Goes /\ UNCHANGED calls
    BY <1>7, NetworkGoes DEF Deliver, Lose
  <2>2. CASE Deliver(p)
    <3>1. [op |-> "recv", msg |-> Head(net[p])] \in Tick
      BY <2>2 DEF Deliver, TypeOK, Tick
    <3>2. ticks' = [ticks EXCEPT ![p] = Append(@, [op |-> "recv", msg |-> Head(net[p])])]
      BY <2>2 DEF Deliver
    <3> QED BY <2>1, <3>1, <3>2, GoesKeeps
  <2>3. CASE Lose(p)
    BY <2>1, <2>3, GoesKeeps DEF Lose
  <2> QED BY <1>7, <2>2, <2>3
<1> QED BY <1>1, <1>2, <1>3, <1>4, <1>5, <1>6, <1>7, CallAgree DEF Next, RunTick

\* What a step reports complete to the party that started it.
LEMMA CompleteStep ==
    ASSUME TypeOK, Agree, [Next]_vars, NEW p \in Parties, NEW r \in Id,
           r = mine[p], r \in done'[p]
    PROVE  r \in done'[Peer[p]]
<1>1. r \notin done[p] /\ r # NONE
  BY SmpAssumption DEF Agree, Own, Id
<1>2. Next
  BY <1>1 DEF vars
<1>3. PICK q \in Parties : ReceiveProof(q) \/ ReceiveEnd(q)
  <2>1. ~UNCHANGED done
    BY <1>1
  <2>2. PICK q \in Parties : RunTick(q)
    BY <1>2, <2>1 DEF Next, Application, SmpStart, SmpRespond, SmpAbort, End, Queue, Deliver, Lose
  <2>3. ~(\/ RunInit(q) \/ RunRespond(q) \/ RunAbort(q) \/ RunEnd(q)
          \/ ReceiveUnread(q) \/ ReceiveBye(q))
    BY <2>1 DEF RunInit, RunRespond, RunAbort, RunEnd, ReceiveUnread, ReceiveBye
  <2>4. ~(\/ ReceiveRequest(q) \/ ReceiveUnexpected(q) \/ ReceiveCheated(q) \/ ReceiveResponse(q)
          \/ ReceiveAbort(q))
    BY <2>1 DEF ReceiveRequest, ReceiveUnexpected, ReceiveCheated, ReceiveResponse, InProgress,
       ReceiveAbort
  <2> QED BY <2>2, <2>3, <2>4 DEF RunTick
<1>4. PICK m \in Message : m = Received(q) /\ OnWay(m, q) /\ m.type \in {"smp3", "smp4"}
  BY <1>3, ReceivedOnWay DEF ReceiveProof, ReceiveEnd
<1>5. Outcome(q, m.run, m.sec = sm[q].sec) /\ m.run = sm[q].run
  BY <1>3, <1>4 DEF ReceiveProof, ReceiveEnd, Verifies
<1>6. q = p /\ m.run = r /\ m.sec = sm[p].sec /\ \A o \in Parties : o # p => done'[o] = done[o]
  BY <1>1, <1>5 DEF Outcome, TypeOK
<1>7. CASE ReceiveProof(q)
  <2>1. m.type = "smp3"
    BY <1>4, <1>7 DEF ReceiveProof, Receiving, Received
  <2> QED BY <1>1, <1>4, <1>6, <2>1 DEF Agree, Own
<1>8. CASE ReceiveEnd(q)
  <2>1. m.type = "smp4" /\ sm[p].next = 4
    BY <1>4, <1>6, <1>8 DEF ReceiveEnd, Receiving, Received
  <2>2. r \in done[Peer[p]]
    BY <1>4, <1>5, <1>6, <2>1 DEF Agree, Shown
  <2> QED BY <1>6, <2>2, PeerFacts
<1> QED BY <1>3, <1>7, <1>8

\* CompleteAgrees, for any number of calls and any secrets: an application that
\* is told that a run it started is complete is so only after the peer has found
\* the secrets equal and reported that very run, whatever runs, answers, aborts,
\* ends and losses came before.
THEOREM CompleteTogether == Spec => CompleteAgrees
<1>1. Init => Agree
  <2> SUFFICES ASSUME Init PROVE Agree
    OBVIOUS
  <2>1. \A r \in Id : r # NONE
    BY SmpAssumption DEF Id
  <2>2. \A q \in Parties : /\ DOMAIN ticks[q] = {} /\ DOMAIN net[q] = {}
                           /\ sm[q].next = 1 /\ sm[q].run = NONE
                           /\ mine[q] = NONE /\ done[q] = {}
    BY DEF Init, Idle
  <2>3. \A r \in Id : ~Used(r)
    BY <2>1, <2>2 DEF Used, OnWay
  <2> QED BY <2>2, <2>3 DEF Agree, UsedCalled, QueuedOnce, QueuedUnused, InitAt, Waits, Shown, Own
<1>2. TypeOK /\ TypeOK' /\ Agree /\ [Next]_vars => Agree'
  BY NextAgree
<1>3. TypeOK /\ Agree /\ [Next]_vars =>
        \A p \in Parties, r \in Id :
          (r = mine[p] /\ r \in done'[p]) => r \in done'[Peer[p]]
  BY CompleteStep
<1> QED BY <1>1, <1>2, <1>3, TypeCorrect, PTL DEF Spec, CompleteAgrees

=============================================================================
