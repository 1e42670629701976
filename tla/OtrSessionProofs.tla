-------------------------- MODULE OtrSessionProofs --------------------------
(* Theorems about OtrSession, for any sessions, clients, policies and wire.  *)
EXTENDS OtrSession, TLAPS

USE DEF Contexts, MsgState, Used

\* What the parts of a queued tick can be.
LEMMA TickFields ==
    ASSUME NEW t \in Tick
    PROVE  /\ t.op \in {"send", "recv", "end"}
           /\ t.ses \in Sessions
           /\ t.op = "send" => t.instag \in Instances \cup {BEST} /\ t.body \in Text \cup {"query"}
           /\ t.op = "recv" => t.msg \in Incoming
BY DEF Tick

\* Where a message can come from.
LEMMA IncomingFields ==
    ASSUME NEW m \in Incoming
    PROVE  /\ m.from \in Contexts
           /\ m.type \notin {"query", "plain", "tagged", "error", "stray"} => m.from \in Instances
BY DEF Incoming

\* What a session reads through its context pointer is a state or garbage.
LEMMA StateAtTyped ==
    ASSUME NEW p, NEW states \in [Contexts -> MsgState]
    PROVE  StateAt(p, states) \in MsgState \cup {"garbage"}
BY DEF StateAt

\* The first tick of a queue that is not empty, and the rest of the queue.
LEMMA QueueHead ==
    ASSUME TypeOK, ticks # <<>>
    PROVE  Head(ticks) \in Tick /\ Tail(ticks) \in Seq(Tick)
BY DEF TypeOK

\* Events of the three forms a tick emits are well typed.
LEMMA EventTyped ==
    ASSUME NEW s \in Sessions, msgstate' \in [Contexts -> MsgState],
           NEW ev \in {"inject_message", "message", "gone_secure", "still_secure",
                       "msg_event", "disconnect", "plaintext"},
           NEW text \in Text \cup {"none", "clear", "decrypted"}
    PROVE  Event_(s, ev, text) \in Event /\ EventAfter(s, ev, text) \in Event
<1>1. StateAt(ptr[s], msgstate') \in MsgState \cup {"garbage"}
  BY StateAtTyped
<1>2. StateAt(ptr'[s], msgstate') \in MsgState \cup {"garbage"}
  BY StateAtTyped
<1> QED BY <1>1, <1>2 DEF Event_, EventAfter, Event

\* Emitting well typed events keeps the variables Emit changes well typed.
LEMMA EmitTyped ==
    ASSUME NEW s \in Sessions, NEW evs \in Seq(Event), Emit(s, evs),
           status \in [Sessions -> {"new", "open", "destroyed"}],
           proc \in {"running", "crashed", "corrupt"}
    PROVE  /\ emitted' \in Seq(Event)
           /\ status' \in [Sessions -> {"new", "open", "destroyed"}]
           /\ proc' \in {"running", "crashed", "corrupt"}
<1>1. CASE emitted' = evs /\ UNCHANGED <<status, proc>>
  BY <1>1
<1>2. ASSUME NEW k \in DOMAIN evs, emitted' = SubSeq(evs, 1, k),
             status' = [status EXCEPT ![s] = "destroyed"], proc' \in {"running", "crashed"}
      PROVE  /\ emitted' \in Seq(Event)
             /\ status' \in [Sessions -> {"new", "open", "destroyed"}]
             /\ proc' \in {"running", "crashed", "corrupt"}
  <2>1. k \in 1 .. Len(evs)
    OBVIOUS
  <2>2. SubSeq(evs, 1, k) \in Seq(Event)
    BY <2>1
  <2> QED BY <1>2, <2>2
<1> QED BY <1>1, <1>2 DEF Emit

\* Events that carry no text sent as private, unless an end() exposed it.
SafeEvent == {e \in Event : e.ev = "inject_message" => e.text \notin {"private", "behind"}}

LEMMA EventSafe ==
    ASSUME NEW s \in Sessions, msgstate' \in [Contexts -> MsgState],
           NEW ev \in {"inject_message", "message", "gone_secure", "still_secure",
                       "msg_event", "disconnect", "plaintext"},
           NEW text \in {"none", "open", "exposed", "clear", "decrypted"}
    PROVE  Event_(s, ev, text) \in SafeEvent /\ EventAfter(s, ev, text) \in SafeEvent
<1>1. Event_(s, ev, text) \in Event /\ EventAfter(s, ev, text) \in Event
  BY EventTyped DEF Text
<1>2. /\ Event_(s, ev, text).text \notin {"private", "behind"}
      /\ EventAfter(s, ev, text).text \notin {"private", "behind"}
  BY DEF Event_, EventAfter
<1> QED BY <1>1, <1>2 DEF SafeEvent

LEMMA EmitSafe ==
    ASSUME NEW s, NEW evs \in Seq(SafeEvent), Emit(s, evs)
    PROVE  NoLeak'
<1>1. \A k \in DOMAIN evs : evs[k] \in SafeEvent
  OBVIOUS
<1>2. CASE emitted' = evs
  BY <1>1, <1>2 DEF NoLeak, SafeEvent
<1>3. ASSUME NEW k \in DOMAIN evs, emitted' = SubSeq(evs, 1, k) PROVE NoLeak'
  <2>1. k \in 1 .. Len(evs)
    OBVIOUS
  <2>2. \A j \in DOMAIN SubSeq(evs, 1, k) : j \in DOMAIN evs /\ SubSeq(evs, 1, k)[j] = evs[j]
    BY <2>1
  <2> QED BY <1>1, <1>3, <2>2 DEF NoLeak, SafeEvent
<1> QED BY <1>2, <1>3 DEF Emit

-----------------------------------------------------------------------------
(* Type correctness. *)

LEMMA InitTypeOK == Init => TypeOK
<1> SUFFICES ASSUME Init PROVE TypeOK
  OBVIOUS
<1>1. ticks \in Seq(Tick) /\ emitted \in Seq(Event)
  BY DEF Init
<1>2. /\ status \in [Sessions -> {"new", "open", "destroyed"}]
      /\ timer \in [Sessions -> BOOLEAN]
      /\ ptr \in [Sessions -> Contexts \cup {NULL, FREED}]
  BY DEF Init
<1>3. /\ msgstate \in [Contexts -> MsgState]
      /\ auth \in [Contexts -> {"NONE", "DHKEY", "REVEALSIG", "SIG"}]
      /\ offer \in [Contexts -> {"OTHER", "SENT", "REJECTED"}]
      /\ held \in [Contexts -> Text \cup {"none"}]
  BY DEF Init
<1> QED BY <1>1, <1>2, <1>3 DEF Init, TypeOK

\* The methods the application calls.
LEMMA ApplicationTypeOK ==
    ASSUME TypeOK, NEW s \in Sessions, Application(s)
    PROVE  TypeOK'
<1>1. CASE Open(s)
  <2>1. PICK flags \in Policies[s] : policy' = [policy EXCEPT ![s] = flags]
    BY <1>1 DEF Open
  <2>2. flags \in SUBSET Flags
    BY <2>1, ConstantsAssumption
  <2>3. policy' \in [Sessions -> SUBSET Flags]
    BY <2>1, <2>2 DEF TypeOK
  <2> QED BY <1>1, <2>3 DEF TypeOK, Open, contextVars
<1>2. ASSUME NEW t \in Tick, Enqueue(t) PROVE TypeOK'
  BY <1>2 DEF TypeOK, Enqueue, contextVars, sessionVars
<1>3. ASSUME NEW instag \in Instances \cup {BEST}, NEW body \in Body, Send(s, instag, body)
      PROVE  TypeOK'
  <2>1. PICK text \in Text \cup {"query"} :
          Enqueue([op |-> "send", ses |-> s, instag |-> instag, body |-> text])
    BY <1>3 DEF Send, Body, Text
  <2>2. [op |-> "send", ses |-> s, instag |-> instag, body |-> text] \in Tick
    BY <2>1 DEF Tick
  <2> QED BY <1>2, <2>1, <2>2
<1>4. ASSUME NEW m \in Wire, Recv(s, m) PROVE TypeOK'
  <2>1. [op |-> "recv", ses |-> s, msg |-> m] \in Tick
    BY ConstantsAssumption DEF Tick
  <2> QED BY <1>2, <1>4, <2>1 DEF Recv
<1>5. CASE End(s)
  <2>1. [op |-> "end", ses |-> s] \in Tick
    BY DEF Tick
  <2> QED BY <1>2, <1>5, <2>1 DEF End
<1>6. CASE Destroy(s)
  BY <1>6 DEF TypeOK, Destroy, contextVars
<1> QED BY <1>1, <1>3, <1>4, <1>5, <1>6 DEF Application

LEMMA DeleteContactTypeOK == ASSUME TypeOK, DeleteContact PROVE TypeOK'
<1>1. ptr' \in [Sessions -> Contexts \cup {NULL, FREED}]
  BY DEF TypeOK, DeleteContact
<1>2. /\ auth' \in [Contexts -> {"NONE", "DHKEY", "REVEALSIG", "SIG"}]
      /\ offer' \in [Contexts -> {"OTHER", "SENT", "REJECTED"}]
      /\ held' \in [Contexts -> Text \cup {"none"}]
  BY DEF DeleteContact
<1>3. emitted' \in Seq(Event) /\ known' \in SUBSET Instances
  BY DEF DeleteContact
<1>4. heard' \in BOOLEAN
  BY DEF DeleteContact
<1> QED BY <1>1, <1>2, <1>3, <1>4 DEF TypeOK, DeleteContact

LEMMA PollTypeOK == ASSUME NEW s \in Sessions PROVE TypeOK /\ Poll(s) => TypeOK'
BY DEF TypeOK, Poll, sessionVars

\* The ticks that fail.
LEMMA FailureTypeOK == ASSUME TypeOK, TickThrows \/ TickCorrupts PROVE TypeOK'
<1>1. /\ ticks # <<>>
      /\ ticks' = Tail(ticks)
      /\ emitted' = <<>>
      /\ proc' \in {"running", "crashed", "corrupt"}
      /\ UNCHANGED <<sessionVars, contextVars>>
  BY DEF TickThrows, TickCorrupts
<1>2. ticks' \in Seq(Tick) /\ emitted' \in Seq(Event)
  BY <1>1, QueueHead
<1> QED BY <1>1, <1>2 DEF TypeOK, sessionVars, contextVars

\* What a tick that sends leaves.
LEMMA RunSendTypeOK == ASSUME TypeOK, RunSend PROVE TypeOK'
<1> DEFINE t == Head(ticks)
           s == t.ses
<1>1. t \in Tick /\ Tail(ticks) \in Seq(Tick)
  BY QueueHead DEF RunSend, NextTick, Due
<1>2. s \in Sessions /\ t.instag \in Instances \cup {BEST} /\ t.body \in Text \cup {"query"}
  BY <1>1, TickFields DEF RunSend, NextTick, Due
<1>3. PICK c \in Target(t.instag) :
        /\ known' = known \cup ({c} \cap Instances)
        /\ Used(s, c)
        /\ MessageSending(s, c, t.body)
  BY DEF RunSend
<1>4. c \in Contexts
  BY <1>2 DEF Target, Best, Candidates, TypeOK
<1>5. msgstate' \in [Contexts -> MsgState]
  BY DEF RunSend, TypeOK
<1> HIDE DEF t, s
<1>6. \A ev \in {"inject_message", "msg_event"}, text \in Text \cup {"none"} :
        Event_(s, ev, text) \in Event
  BY <1>2, <1>5, EventTyped
<1>7. Inject(s, "none") \in Event /\ (t.body # "query" => Inject(s, t.body) \in Event)
  BY <1>2, <1>6 DEF Inject
<1>8. /\ emitted' \in Seq(Event)
      /\ status' \in [Sessions -> {"new", "open", "destroyed"}]
      /\ proc' \in {"running", "crashed", "corrupt"}
  <2>1. \/ Emit(s, <<>>)
        \/ Emit(s, <<Inject(s, "none")>>)
        \/ Emit(s, <<Event_(s, "msg_event", "none"), Inject(s, "none")>>)
        \/ t.body # "query" /\ Emit(s, <<Inject(s, t.body)>>)
    BY <1>3 DEF MessageSending
  <2>2. /\ <<>> \in Seq(Event)
        /\ <<Inject(s, "none")>> \in Seq(Event)
        /\ <<Event_(s, "msg_event", "none"), Inject(s, "none")>> \in Seq(Event)
        /\ t.body # "query" => <<Inject(s, t.body)>> \in Seq(Event)
    BY <1>6, <1>7
  <2>3. ASSUME NEW evs \in Seq(Event), Emit(s, evs)
        PROVE  /\ emitted' \in Seq(Event)
               /\ status' \in [Sessions -> {"new", "open", "destroyed"}]
               /\ proc' \in {"running", "crashed", "corrupt"}
    BY <1>2, <2>3, EmitTyped DEF TypeOK
  <2> QED BY <2>1, <2>2, <2>3
<1>9. /\ offer' \in [Contexts -> {"OTHER", "SENT", "REJECTED"}]
      /\ held' \in [Contexts -> Text \cup {"none"}]
  <2>1. /\ \/ offer' = offer
           \/ offer' = [offer EXCEPT ![c] = "SENT"]
        /\ \/ held' = held
           \/ held' = [held EXCEPT ![c] = "none"]
           \/ held' = [held EXCEPT ![c] = t.body] /\ t.body \in Text
    BY <1>2, <1>3 DEF MessageSending
  <2>2. offer' \in [Contexts -> {"OTHER", "SENT", "REJECTED"}]
    BY <2>1 DEF TypeOK
  <2>3. held' \in [Contexts -> Text \cup {"none"}]
    BY <2>1 DEF TypeOK
  <2> QED BY <2>2, <2>3
<1> QED
  BY <1>1, <1>2, <1>3, <1>4, <1>5, <1>8, <1>9 DEF TypeOK, RunSend, NextTick, Due, t, s

\* What the handling of an incoming message may leave in the variables it
\* changes.
ContextTyped ==
    /\ ptr' \in [Sessions -> Contexts \cup {NULL, FREED}]
    /\ known' \in SUBSET Instances
    /\ msgstate' \in [Contexts -> MsgState]
    /\ auth' \in [Contexts -> {"NONE", "DHKEY", "REVEALSIG", "SIG"}]
    /\ offer' \in [Contexts -> {"OTHER", "SENT", "REJECTED"}]
    /\ held' \in [Contexts -> Text \cup {"none"}]

OutcomeTyped ==
    /\ emitted' \in Seq(Event)
    /\ status' \in [Sessions -> {"new", "open", "destroyed"}]
    /\ proc' \in {"running", "crashed", "corrupt"}

LEMMA OfferedTyped ==
    ASSUME TypeOK, NEW s, NEW m
    PROVE  Offered(s, m) \in [Contexts -> {"OTHER", "SENT", "REJECTED"}]
BY DEF TypeOK, Offered

LEMMA HeldByTyped ==
    ASSUME TypeOK, NEW i \in Instances
    PROVE  HeldBy(i) \in [Contexts -> Text \cup {"none"}]
BY DEF TypeOK, HeldBy

\* Every handler keeps the contexts well typed.
LEMMA ContextsReceiving ==
    ASSUME TypeOK, NEW s \in Sessions, NEW m \in Incoming, MessageReceiving(s, m)
    PROVE  ContextTyped
<1> USE DEF ContextTyped
<1>1. /\ m.from \in Contexts
      /\ m.type \notin {"query", "plain", "tagged", "error", "stray"} => m.from \in Instances
  BY IncomingFields
<1>2. Offered(s, m) \in [Contexts -> {"OTHER", "SENT", "REJECTED"}]
  BY OfferedTyped
<1>3. m.from \in Instances => HeldBy(m.from) \in [Contexts -> Text \cup {"none"}]
  BY HeldByTyped
<1>4. CASE ReceiveNever(s, m)
  BY <1>4 DEF ReceiveNever, TypeOK, contextVars
<1>5. CASE ReceiveIgnored(s, m)
  BY <1>2, <1>5 DEF ReceiveIgnored, TypeOK
<1>6. CASE ReceiveUnknown(s, m)
  BY <1>1, <1>2, <1>3, <1>6 DEF ReceiveUnknown, TypeOK
<1>7. CASE ReceiveQuery(s, m)
  BY <1>2, <1>7 DEF ReceiveQuery, TypeOK
<1>8. CASE ReceiveError(s, m)
  BY <1>2, <1>8 DEF ReceiveError, TypeOK
<1>9. CASE ReceiveText(s, m)
  BY <1>2, <1>9 DEF ReceiveText, TypeOK
<1>10. CASE ReceiveOpening(s, m)
  <2>1. auth' \in [Contexts -> {"NONE", "DHKEY", "REVEALSIG", "SIG"}]
    BY <1>1, <1>10 DEF ReceiveOpening, TypeOK
  <2> QED BY <1>1, <1>2, <1>3, <1>10, <2>1 DEF ReceiveOpening, TypeOK
<1>11. CASE ReceiveBadClosing(s, m)
  BY <1>1, <1>2, <1>11 DEF ReceiveBadClosing, TypeOK
<1>12. CASE ReceiveClosing(s, m)
  <2>1. held' \in [Contexts -> Text \cup {"none"}]
    BY <1>12 DEF ReceiveClosing, TypeOK
  <2> QED BY <1>1, <1>2, <1>12, <2>1 DEF ReceiveClosing, TypeOK
<1>13. CASE ReceiveUnreadable(s, m)
  BY <1>1, <1>2, <1>13 DEF ReceiveUnreadable, TypeOK
<1>14. CASE ReceiveData(s, m)
  BY <1>1, <1>2, <1>14 DEF ReceiveData, TypeOK
<1>15. CASE ReceiveBye(s, m)
  BY <1>1, <1>2, <1>15 DEF ReceiveBye, TypeOK
<1> QED
  BY <1>4, <1>5, <1>6, <1>7, <1>8, <1>9, <1>10, <1>11, <1>12, <1>13, <1>14, <1>15
     DEF MessageReceiving

\* Every handler emits well typed events, and none with a text sent as private.
LEMMA EventsReceiving ==
    ASSUME TypeOK, NEW s \in Sessions, NEW m, MessageReceiving(s, m),
           msgstate' \in [Contexts -> MsgState]
    PROVE  OutcomeTyped /\ NoLeak'
<1>1. ASSUME NEW evs \in Seq(SafeEvent), Emit(s, evs) PROVE OutcomeTyped /\ NoLeak'
  <2>1. evs \in Seq(Event)
    BY DEF SafeEvent
  <2> QED BY <1>1, <2>1, EmitTyped, EmitSafe DEF TypeOK, OutcomeTyped
<1>2. /\ Event_(s, "msg_event", "none") \in SafeEvent
      /\ Event_(s, "gone_secure", "none") \in SafeEvent
      /\ Event_(s, "still_secure", "none") \in SafeEvent
      /\ EventAfter(s, "message", "clear") \in SafeEvent
      /\ EventAfter(s, "message", "decrypted") \in SafeEvent
      /\ EventAfter(s, "disconnect", "none") \in SafeEvent
  BY EventSafe
<1>3. Inject(s, "none") \in SafeEvent
  BY EventSafe DEF Inject
<1>4. <<>> \in Seq(SafeEvent) /\ \A e \in SafeEvent : <<e>> \in Seq(SafeEvent)
  OBVIOUS
<1>5. \A e, f \in SafeEvent : <<e, f>> \in Seq(SafeEvent)
  OBVIOUS
<1>6. \A e, f \in Seq(SafeEvent) : e \o f \in Seq(SafeEvent)
  OBVIOUS
<1>7. CASE ReceiveNever(s, m)
  BY <1>1, <1>2, <1>4, <1>7 DEF ReceiveNever
<1>8. CASE ReceiveIgnored(s, m)
  BY <1>1, <1>2, <1>4, <1>8 DEF ReceiveIgnored
<1>9. CASE ReceiveUnknown(s, m)
  BY <1>1, <1>4, <1>9 DEF ReceiveUnknown
<1>10. CASE ReceiveQuery(s, m)
  BY <1>1, <1>3, <1>4, <1>10 DEF ReceiveQuery
<1>11. CASE ReceiveError(s, m)
  BY <1>1, <1>2, <1>3, <1>4, <1>5, <1>11 DEF ReceiveError
<1>12. CASE ReceiveText(s, m)
  BY <1>1, <1>2, <1>3, <1>4, <1>6, <1>12 DEF ReceiveText
<1>13. CASE ReceiveOpening(s, m)
  BY <1>1, <1>3, <1>4, <1>13 DEF ReceiveOpening
<1>14. CASE ReceiveBadClosing(s, m)
  BY <1>1, <1>2, <1>4, <1>14 DEF ReceiveBadClosing
<1>15. CASE ReceiveClosing(s, m)
  BY <1>1, <1>2, <1>3, <1>4, <1>6, <1>15 DEF ReceiveClosing
<1>16. CASE ReceiveUnreadable(s, m)
  BY <1>1, <1>2, <1>3, <1>4, <1>6, <1>16 DEF ReceiveUnreadable
<1>17. CASE ReceiveData(s, m)
  BY <1>1, <1>2, <1>4, <1>17 DEF ReceiveData
<1>18. CASE ReceiveBye(s, m)
  BY <1>1, <1>2, <1>5, <1>18 DEF ReceiveBye
<1> QED
  BY <1>7, <1>8, <1>9, <1>10, <1>11, <1>12, <1>13, <1>14, <1>15, <1>16, <1>17, <1>18
     DEF MessageReceiving

LEMMA RunRecvTypeOK == ASSUME TypeOK, RunRecv PROVE TypeOK'
<1> DEFINE t == Head(ticks)
           s == t.ses
<1>1. t \in Tick /\ Tail(ticks) \in Seq(Tick)
  BY QueueHead DEF RunRecv, NextTick, Due
<1>2. s \in Sessions /\ t.msg \in Incoming
  BY <1>1, TickFields DEF RunRecv, NextTick, Due
<1>3. MessageReceiving(s, t.msg)
  BY DEF RunRecv
<1> HIDE DEF t, s
<1>4. ContextTyped
  BY <1>2, <1>3, ContextsReceiving
<1>5. OutcomeTyped
  BY <1>2, <1>3, <1>4, EventsReceiving DEF ContextTyped
<1>6. ticks' \in Seq(Tick)
  BY <1>1 DEF RunRecv, NextTick, Due, t
<1>7. timer' = [timer EXCEPT ![s] = @ /\ status'[s] = "open"]
  BY DEF RunRecv, s, t
<1>8. timer' \in [Sessions -> BOOLEAN]
  BY <1>7 DEF TypeOK
<1>9. heard' \in BOOLEAN /\ policy' = policy
  BY DEF RunRecv
<1> QED BY <1>4, <1>5, <1>6, <1>8, <1>9 DEF TypeOK, ContextTyped, OutcomeTyped

\* Bringing the history of a queued tick up to date leaves a tick.
LEMMA AfterEndTyped ==
    ASSUME NEW c, NEW t \in Tick
    PROVE  AfterEnd(c, t) \in Tick
<1>1. CASE t.op = "send" /\ t.body = "behind" /\ PutBack(c, t)
  <2>1. t \in [op : {"send"}, ses : Sessions, instag : Instances \cup {BEST},
               body : Text \cup {"query"}]
    BY <1>1 DEF Tick
  <2> QED BY <1>1, <2>1 DEF AfterEnd, Tick, Text
<1>2. CASE ~(t.op = "send" /\ t.body = "behind" /\ PutBack(c, t))
  BY <1>2 DEF AfterEnd
<1> QED BY <1>1, <1>2

LEMMA RunEndTypeOK == ASSUME TypeOK, RunEnd PROVE TypeOK'
<1> DEFINE t == Head(ticks)
           s == t.ses
           c == ptr[s]
<1>1. t \in Tick /\ ticks' \in Seq(Tick)
  <2>1. \A k \in 1 .. Len(ticks) - 1 : AfterEnd(c, ticks[k + 1]) \in Tick
    BY AfterEndTyped DEF TypeOK
  <2>2. ticks' = [k \in 1 .. Len(ticks) - 1 |-> AfterEnd(c, ticks[k + 1])] /\ ticks # <<>>
    BY DEF RunEnd, Due
  <2>3. Len(ticks) - 1 \in Nat
    BY <2>2 DEF TypeOK
  <2>4. ticks' \in Seq(Tick)
    BY <2>1, <2>2, <2>3
  <2> QED BY <2>2, <2>4, QueueHead
<1>2. s \in Sessions
  BY <1>1, TickFields
<1>3. /\ timer' = [timer EXCEPT ![s] = FALSE]
      /\ UNCHANGED <<policy, ptr, known, heard, offer>>
  BY DEF RunEnd
<1>4. timer' \in [Sessions -> BOOLEAN]
  BY <1>3 DEF TypeOK
<1>5. /\ msgstate' \in [Contexts -> MsgState]
      /\ auth' \in [Contexts -> {"NONE", "DHKEY", "REVEALSIG", "SIG"}]
      /\ held' \in [Contexts -> Text \cup {"none"}]
  <2>1. \/ /\ msgstate' = [msgstate EXCEPT ![c] = "PLAINTEXT"]
           /\ auth' = [auth EXCEPT ![c] = "NONE"]
           /\ held' = [held EXCEPT ![c] = "none"]
        \/ UNCHANGED <<msgstate, auth, held>>
    BY DEF RunEnd
  <2> HIDE DEF c
  <2>2. msgstate' \in [Contexts -> MsgState]
    BY <2>1 DEF TypeOK
  <2>3. auth' \in [Contexts -> {"NONE", "DHKEY", "REVEALSIG", "SIG"}]
    BY <2>1 DEF TypeOK
  <2>4. held' \in [Contexts -> Text \cup {"none"}]
    BY <2>1 DEF TypeOK
  <2> QED BY <2>2, <2>3, <2>4
<1>6. \E online \in BOOLEAN :
        \/ Emit(s, (IF msgstate[c] = "ENCRYPTED" /\ online
                    THEN <<Inject(s, "none")>> ELSE <<>>) \o <<Event_(s, "plaintext", "none")>>)
        \/ Emit(s, <<Event_(s, "plaintext", "none")>>)
  BY DEF RunEnd
<1> HIDE DEF t, s, c
<1>7. ASSUME NEW evs \in Seq(Event), Emit(s, evs) PROVE OutcomeTyped
  BY <1>2, <1>7, EmitTyped DEF TypeOK, OutcomeTyped
<1>8. Inject(s, "none") \in Event /\ Event_(s, "plaintext", "none") \in Event
  BY <1>2, <1>5, EventTyped DEF Inject
<1>9. /\ <<>> \o <<Event_(s, "plaintext", "none")>> \in Seq(Event)
      /\ <<Inject(s, "none")>> \o <<Event_(s, "plaintext", "none")>> \in Seq(Event)
      /\ <<Event_(s, "plaintext", "none")>> \in Seq(Event)
  BY <1>8
<1>10. OutcomeTyped
  BY <1>6, <1>7, <1>9
<1> QED BY <1>1, <1>3, <1>4, <1>5, <1>10 DEF TypeOK, OutcomeTyped

LEMMA StutterTypeOK == TypeOK /\ UNCHANGED vars => TypeOK'
BY DEF TypeOK, vars

LEMMA NextTypeOK == TypeOK /\ [Next]_vars => TypeOK'
<1> SUFFICES ASSUME TypeOK, [Next]_vars PROVE TypeOK'
  OBVIOUS
<1>1. CASE UNCHANGED vars
  BY <1>1, StutterTypeOK
<1>2. ASSUME NEW s \in Sessions, Application(s) PROVE TypeOK'
  BY <1>2, ApplicationTypeOK
<1>3. ASSUME NEW s \in Sessions, Poll(s) PROVE TypeOK'
  BY <1>3, PollTypeOK
<1>4. CASE DeleteContact
  BY <1>4, DeleteContactTypeOK
<1>5. CASE EventLoop
  BY <1>5, RunSendTypeOK, RunRecvTypeOK, RunEndTypeOK, FailureTypeOK DEF EventLoop
<1> QED BY <1>1, <1>2, <1>3, <1>4, <1>5 DEF Next

\* Every reachable state is well typed: in particular session.context is only
\* ever a context of the contact, the null pointer or a freed one, and no
\* event carries anything but what Event lists.
THEOREM TypeCorrect == Spec => []TypeOK
BY InitTypeOK, NextTypeOK, PTL DEF Spec

-----------------------------------------------------------------------------
(* Text sent as private goes out in clear only behind an end() that ended  *)
(* the conversation it was for.                                            *)
(*                                                                         *)
(* NoLeak speaks of the step in which the text is sent, several steps after *)
(* the isEncrypted() it relies on.  What holds in between: the context the *)
(* text is for, or some context when it is for the best one, is not in     *)
(* plaintext, and either no end() queued before the text can take it back  *)
(* there, or the text is known to be behind one.                           *)

Private(t) == t.op = "send" /\ t.body = "private"

\* A text that must not go out in clear.
Guarded(t) == t.op = "send" /\ t.body \in {"private", "behind"}

Secure(i) == i \in known /\ msgstate[i] # "PLAINTEXT"

Reaches(t) == IF t.instag = BEST THEN \E i \in known : Secure(i) ELSE Secure(t.instag)

OnlyChildrenSecure ==
    /\ msgstate[MASTER] = "PLAINTEXT"
    /\ \A i \in Instances : msgstate[i] # "PLAINTEXT" => i \in known

PrivateReaches ==
    \A k \in DOMAIN ticks : Guarded(ticks[k]) => Reaches(ticks[k])

NoEndBefore ==
    \A j, k \in DOMAIN ticks : j < k /\ Private(ticks[k]) => ticks[j].op # "end"

LeakInv == TypeOK /\ OnlyChildrenSecure /\ PrivateReaches /\ NoEndBefore /\ NoLeak

\* Running the first tick moves the others one place up.
LEMMA QueueTail ==
    ASSUME TypeOK, ticks # <<>>, ticks' = Tail(ticks)
    PROVE  \A k \in DOMAIN ticks' : k + 1 \in DOMAIN ticks /\ ticks'[k] = ticks[k + 1]
BY DEF TypeOK

\* The first tick is in the queue, before every other.
LEMMA QueueFirst ==
    ASSUME TypeOK, ticks # <<>>
    PROVE  1 \in DOMAIN ticks /\ ticks[1] = Head(ticks)
BY DEF TypeOK

\* A step that runs the first tick, forgets no context and takes none back to
\* plaintext keeps what is known of the queue.
LEMMA QueueKept ==
    ASSUME TypeOK, PrivateReaches, NoEndBefore, ticks # <<>>, ticks' = Tail(ticks),
           known \subseteq known',
           \A i \in known : msgstate[i] # "PLAINTEXT" => msgstate'[i] # "PLAINTEXT"
    PROVE  PrivateReaches' /\ NoEndBefore'
<1>1. \A k \in DOMAIN ticks' : k + 1 \in DOMAIN ticks /\ ticks'[k] = ticks[k + 1]
  BY QueueTail
<1>2. \A i : Secure(i) => Secure(i)'
  BY DEF Secure
<1>3. \A t : Reaches(t) => Reaches(t)'
  BY <1>2 DEF Reaches
<1>4. PrivateReaches'
  BY <1>1, <1>3 DEF PrivateReaches, Guarded
<1>5. DOMAIN ticks' \subseteq Nat
  BY DEF TypeOK
<1>6. NoEndBefore'
  <2> SUFFICES ASSUME NEW j \in DOMAIN ticks', NEW k \in DOMAIN ticks', j < k, Private(ticks'[k])
               PROVE  ticks'[j].op # "end"
    BY DEF NoEndBefore, Private
  <2>1. j + 1 < k + 1
    BY <1>5
  <2> QED BY <1>1, <2>1 DEF NoEndBefore
<1> QED BY <1>4, <1>6

LEMMA InitLeak == Init => LeakInv
BY InitTypeOK
   DEF LeakInv, Init, OnlyChildrenSecure, PrivateReaches, NoEndBefore, NoLeak

\* What Enqueue keeps of the queue, and what it must know of the new tick.
LEMMA EnqueueLeak ==
    ASSUME LeakInv, TypeOK', NEW t, Enqueue(t),
           Guarded(t) => Reaches(t),
           Private(t) => \A k \in DOMAIN ticks : ticks[k].op # "end"
    PROVE  LeakInv'
<1>1. UNCHANGED <<known, msgstate>> /\ emitted' = <<>>
  BY DEF Enqueue, contextVars
<1>2. \A k \in DOMAIN ticks' :
        \/ k \in DOMAIN ticks /\ ticks'[k] = ticks[k]
        \/ k = Len(ticks) + 1 /\ ticks'[k] = t
  BY DEF Enqueue, LeakInv, TypeOK
<1>3. DOMAIN ticks = 1 .. Len(ticks) /\ Len(ticks) \in Nat
  BY DEF LeakInv, TypeOK
<1>4. \A u : Reaches(u) => Reaches(u)'
  BY <1>1 DEF Reaches, Secure
<1>5. PrivateReaches'
  BY <1>2, <1>4 DEF LeakInv, PrivateReaches, Guarded
<1>6. NoEndBefore'
  <2> SUFFICES ASSUME NEW j \in DOMAIN ticks', NEW k \in DOMAIN ticks', j < k, Private(ticks'[k])
               PROVE  ticks'[j].op # "end"
    BY DEF NoEndBefore, Private
  <2>1. j \in DOMAIN ticks /\ ticks'[j] = ticks[j]
    BY <1>2, <1>3
  <2> QED BY <1>2, <2>1 DEF LeakInv, NoEndBefore
<1>7. OnlyChildrenSecure' /\ NoLeak'
  BY <1>1 DEF LeakInv, OnlyChildrenSecure, NoLeak
<1> QED BY <1>5, <1>6, <1>7 DEF LeakInv

\* A step that leaves the queue and the contexts alone and emits nothing.
LEMMA QuietLeak ==
    ASSUME LeakInv, TypeOK', UNCHANGED <<ticks, known, msgstate>>,
           emitted' = <<>> \/ emitted' = emitted
    PROVE  LeakInv'
BY DEF LeakInv, OnlyChildrenSecure, PrivateReaches, NoEndBefore, NoLeak, Private,
       Guarded, Reaches, Secure

\* The application marks a text private for a context that is encrypted, and
\* after no end() that is still queued.
LEMMA ApplicationLeak ==
    ASSUME LeakInv, TypeOK', NEW s \in Sessions, Application(s)
    PROVE  LeakInv'
<1>1. CASE Open(s)
  BY <1>1, QuietLeak DEF Open, contextVars
<1>2. ASSUME NEW instag \in Instances \cup {BEST}, NEW body \in Body, Send(s, instag, body)
      PROVE  LeakInv'
  <2> DEFINE text == IF body = "private" /\ EndPending THEN "behind" ELSE body
             t == [op |-> "send", ses |-> s, instag |-> instag, body |-> text]
  <2>1. ASSUME body = "private" PROVE Reaches(t)
    <3>1. IsEncrypted(s) /\ instag \in {BEST, ptr[s]}
      BY <1>2, <2>1 DEF Send
    <3>2. ptr[s] \in Contexts /\ msgstate[ptr[s]] = "ENCRYPTED"
      BY <3>1 DEF IsEncrypted, StateAt
    <3>3. ptr[s] \in Instances /\ Secure(ptr[s])
      BY <3>2 DEF LeakInv, OnlyChildrenSecure, Secure
    <3> QED BY <3>1, <3>3 DEF Reaches, Secure
  <2>2. Enqueue(t)
    BY <1>2 DEF Send
  <2>3. Guarded(t) => body = "private"
    BY DEF Guarded, Body
  <2>4. Private(t) => \A k \in DOMAIN ticks : ticks[k].op # "end"
    BY DEF Private, EndPending
  <2> HIDE DEF t
  <2> QED BY <2>1, <2>2, <2>3, <2>4, EnqueueLeak
<1>3. ASSUME NEW m \in Wire, Recv(s, m) PROVE LeakInv'
  <2>1. /\ ~Private([op |-> "recv", ses |-> s, msg |-> m])
        /\ ~Guarded([op |-> "recv", ses |-> s, msg |-> m])
    BY DEF Private, Guarded
  <2> QED BY <1>3, <2>1, EnqueueLeak DEF Recv
<1>4. CASE End(s)
  <2>1. /\ ~Private([op |-> "end", ses |-> s])
        /\ ~Guarded([op |-> "end", ses |-> s])
    BY DEF Private, Guarded
  <2> QED BY <1>4, <2>1, EnqueueLeak DEF End
<1>5. CASE Destroy(s)
  BY <1>5, QuietLeak DEF Destroy, contextVars
<1> QED BY <1>1, <1>2, <1>3, <1>4, <1>5 DEF Application

\* The contexts can only be deleted when no text is queued that must not leak.
LEMMA DeleteContactLeak ==
    ASSUME LeakInv, TypeOK', DeleteContact
    PROVE  LeakInv'
<1>1. \A c \in Contexts : msgstate[c] = "PLAINTEXT"
  BY DEF DeleteContact
<1>2. \A k \in DOMAIN ticks : ~Guarded(ticks[k])
  <2> SUFFICES ASSUME NEW k \in DOMAIN ticks, Guarded(ticks[k]) PROVE FALSE
    OBVIOUS
  <2>1. PICK i \in known : Secure(i)
    BY DEF LeakInv, PrivateReaches, Reaches, Secure
  <2> QED BY <1>1, <2>1 DEF Secure, LeakInv, TypeOK
<1>3. UNCHANGED <<ticks, msgstate>> /\ emitted' = <<>>
  BY DEF DeleteContact
<1>4. OnlyChildrenSecure' /\ NoLeak'
  BY <1>1, <1>3 DEF OnlyChildrenSecure, NoLeak
<1>5. PrivateReaches' /\ NoEndBefore'
  BY <1>2, <1>3 DEF PrivateReaches, NoEndBefore, Private, Guarded
<1> QED BY <1>4, <1>5 DEF LeakInv

\* The ticks that fail emit nothing and touch no context.
LEMMA FailureLeak ==
    ASSUME LeakInv, TypeOK', TickThrows \/ TickCorrupts
    PROVE  LeakInv'
<1>1. /\ ticks # <<>>
      /\ ticks' = Tail(ticks)
      /\ emitted' = <<>>
      /\ UNCHANGED <<known, msgstate>>
  BY DEF TickThrows, TickCorrupts, contextVars
<1>2. PrivateReaches' /\ NoEndBefore'
  BY <1>1, QueueKept DEF LeakInv
<1>3. OnlyChildrenSecure' /\ NoLeak'
  BY <1>1 DEF LeakInv, OnlyChildrenSecure, NoLeak
<1> QED BY <1>2, <1>3 DEF LeakInv

\* A text sent as private finds its context out of plaintext, and is sent
\* encrypted or not at all.
LEMMA RunSendLeak ==
    ASSUME LeakInv, TypeOK', RunSend
    PROVE  LeakInv'
<1> DEFINE t == Head(ticks)
           s == t.ses
<1>1. ticks # <<>> /\ ticks' = Tail(ticks) /\ t.op = "send" /\ UNCHANGED msgstate
  BY DEF RunSend, NextTick, Due
<1>2. t \in Tick
  BY <1>1, QueueHead DEF LeakInv
<1>3. s \in Sessions /\ t.instag \in Instances \cup {BEST} /\ t.body \in Text \cup {"query"}
  BY <1>1, <1>2, TickFields
<1>4. PICK c \in Target(t.instag) :
        known' = known \cup ({c} \cap Instances) /\ MessageSending(s, c, t.body)
  BY DEF RunSend
<1>5. t.body \in {"private", "behind"} => Reaches(t)
  BY <1>1, QueueFirst DEF LeakInv, PrivateReaches, Guarded
<1> HIDE DEF s, t
<1>6. t.body \in {"private", "behind"} => msgstate[c] # "PLAINTEXT"
  <2> SUFFICES ASSUME t.body \in {"private", "behind"} PROVE msgstate[c] # "PLAINTEXT"
    OBVIOUS
  <2>1. CASE t.instag = BEST
    <3>1. PICK i \in known : msgstate[i] # "PLAINTEXT"
      BY <1>5, <2>1 DEF Reaches, Secure
    <3>2. c \in Best
      BY <1>4, <2>1 DEF Target
    <3>3. i \in Candidates /\ c \in Candidates /\ Rank[msgstate[i]] <= Rank[msgstate[c]]
      BY <3>2 DEF Best, Candidates
    <3>4. msgstate[i] \in MsgState
      BY DEF LeakInv, TypeOK
    <3> QED BY <3>1, <3>3, <3>4 DEF Rank
  <2>2. CASE t.instag # BEST
    BY <1>4, <1>5, <2>2 DEF Target, Reaches, Secure
  <2> QED BY <2>1, <2>2
<1>7. msgstate' \in [Contexts -> MsgState]
  BY DEF TypeOK
<1>8. /\ Inject(s, "none") \in SafeEvent
      /\ Event_(s, "msg_event", "none") \in SafeEvent
      /\ t.body \in {"open", "exposed"} => Inject(s, t.body) \in SafeEvent
  BY <1>3, <1>7, EventSafe DEF Inject
<1>9. NoLeak'
  <2>1. \/ Emit(s, <<>>)
        \/ Emit(s, <<Inject(s, "none")>>)
        \/ Emit(s, <<Event_(s, "msg_event", "none"), Inject(s, "none")>>)
        \/ t.body \in {"open", "exposed"} /\ Emit(s, <<Inject(s, t.body)>>)
    BY <1>3, <1>4, <1>6 DEF MessageSending, Text
  <2>2. /\ <<>> \in Seq(SafeEvent)
        /\ <<Inject(s, "none")>> \in Seq(SafeEvent)
        /\ <<Event_(s, "msg_event", "none"), Inject(s, "none")>> \in Seq(SafeEvent)
        /\ t.body \in {"open", "exposed"} => <<Inject(s, t.body)>> \in Seq(SafeEvent)
    BY <1>8
  <2> QED BY <2>1, <2>2, EmitSafe
<1>10. PrivateReaches' /\ NoEndBefore'
  BY <1>1, <1>4, QueueKept DEF LeakInv
<1>11. OnlyChildrenSecure'
  BY <1>1, <1>4 DEF LeakInv, OnlyChildrenSecure
<1> QED BY <1>9, <1>10, <1>11 DEF LeakInv

\* No incoming message takes a context back to plaintext, or makes the master
\* context secure.
LEMMA ReceivingKeeps ==
    ASSUME TypeOK, NEW s, NEW m \in Incoming, MessageReceiving(s, m)
    PROVE  /\ known \subseteq known'
           /\ \A c \in Contexts : msgstate[c] # "PLAINTEXT" => msgstate'[c] # "PLAINTEXT"
           /\ \A c \in Contexts :
                msgstate'[c] # msgstate[c] => c \in Instances /\ c \in known
<1>1. m.type \in {"revealsig", "sig", "bye"} => m.from \in Instances
  BY IncomingFields
<1>2. CASE ReceiveClosing(s, m)
  BY <1>1, <1>2 DEF ReceiveClosing, TypeOK
<1>3. CASE ReceiveBye(s, m)
  BY <1>1, <1>3 DEF ReceiveBye, TypeOK
<1>4. CASE ~ReceiveClosing(s, m) /\ ~ReceiveBye(s, m)
  <2>1. UNCHANGED msgstate /\ known \subseteq known'
    BY <1>4 DEF MessageReceiving, ReceiveNever, ReceiveIgnored, ReceiveUnknown, ReceiveQuery,
                ReceiveError, ReceiveText, ReceiveOpening, ReceiveBadClosing,
                ReceiveUnreadable, ReceiveData, contextVars
  <2> QED BY <2>1
<1> QED BY <1>2, <1>3, <1>4

LEMMA RunRecvLeak ==
    ASSUME LeakInv, TypeOK', RunRecv
    PROVE  LeakInv'
<1> DEFINE t == Head(ticks)
           s == t.ses
<1>1. ticks # <<>> /\ ticks' = Tail(ticks) /\ t.op = "recv" /\ MessageReceiving(s, t.msg)
  BY DEF RunRecv, NextTick, Due
<1>2. s \in Sessions /\ t.msg \in Incoming
  BY <1>1, QueueHead, TickFields DEF LeakInv
<1> HIDE DEF s, t
<1>3. /\ known \subseteq known'
      /\ \A c \in Contexts : msgstate[c] # "PLAINTEXT" => msgstate'[c] # "PLAINTEXT"
      /\ \A c \in Contexts : msgstate'[c] # msgstate[c] => c \in Instances /\ c \in known
  BY <1>1, <1>2, ReceivingKeeps DEF LeakInv
<1>4. NoLeak'
  BY <1>1, <1>2, EventsReceiving DEF LeakInv, TypeOK
<1>5. PrivateReaches' /\ NoEndBefore'
  <2>1. \A i \in known : msgstate[i] # "PLAINTEXT" => msgstate'[i] # "PLAINTEXT"
    BY <1>3 DEF LeakInv, TypeOK
  <2> QED BY <1>1, <1>3, <2>1, QueueKept DEF LeakInv
<1>6. OnlyChildrenSecure'
  BY <1>3, ConstantsAssumption DEF LeakInv, OnlyChildrenSecure
<1> QED BY <1>4, <1>5, <1>6 DEF LeakInv

\* end() does take a context back to plaintext.  No text sent as private is
\* queued behind it but those known to be, and of these the ones it exposes
\* are known from then on.
LEMMA RunEndLeak ==
    ASSUME LeakInv, TypeOK', RunEnd
    PROVE  LeakInv'
<1> DEFINE t == Head(ticks)
           s == t.ses
           c == ptr[s]
<1>1. /\ ticks # <<>>
      /\ ticks' = [k \in 1 .. Len(ticks) - 1 |-> AfterEnd(c, ticks[k + 1])]
      /\ t.op = "end"
      /\ UNCHANGED known
  BY DEF RunEnd, Due
<1>2. s \in Sessions
  BY <1>1, QueueHead, TickFields DEF LeakInv
<1>3. \/ c \in Contexts /\ msgstate' = [msgstate EXCEPT ![c] = "PLAINTEXT"]
      \/ c \notin Contexts /\ UNCHANGED msgstate
  BY ConstantsAssumption DEF RunEnd
<1>4. \E online \in BOOLEAN :
        \/ Emit(s, (IF msgstate[c] = "ENCRYPTED" /\ online
                    THEN <<Inject(s, "none")>> ELSE <<>>) \o <<Event_(s, "plaintext", "none")>>)
        \/ Emit(s, <<Event_(s, "plaintext", "none")>>)
  BY DEF RunEnd
<1> HIDE DEF c
<1>5. ASSUME NEW k \in DOMAIN ticks', NEW u, u = ticks'[k], Guarded(u)
      PROVE  ~Private(u) /\ Reaches(u)'
  <2>1. PICK j \in DOMAIN ticks : 1 < j /\ u = AfterEnd(c, ticks[j])
    <3>1. k \in 1 .. Len(ticks) - 1 /\ Len(ticks) \in Nat
      BY <1>1 DEF LeakInv, TypeOK
    <3>2. k + 1 \in DOMAIN ticks /\ 1 < k + 1
      BY <3>1 DEF LeakInv, TypeOK
    <3> QED BY <1>1, <1>5, <3>1, <3>2
  <2>2. 1 \in DOMAIN ticks /\ ticks[1].op = "end"
    BY <1>1, QueueFirst DEF LeakInv
  <2>3. ~Private(ticks[j])
    BY <2>1, <2>2 DEF LeakInv, NoEndBefore
  <2>4. ticks[j] \in Tick
    BY DEF LeakInv, TypeOK
  <2>5. u = ticks[j] /\ ~PutBack(c, ticks[j])
    <3>1. CASE ticks[j].op = "send" /\ ticks[j].body = "behind" /\ PutBack(c, ticks[j])
      <4>1. ticks[j] \in [op : {"send"}, ses : Sessions, instag : Instances \cup {BEST},
                          body : Text \cup {"query"}]
        BY <2>4, <3>1 DEF Tick
      <4>2. u.body = "exposed"
        BY <2>1, <3>1, <4>1 DEF AfterEnd
      <4> QED BY <1>5, <4>2 DEF Guarded
    <3>2. CASE ~(ticks[j].op = "send" /\ ticks[j].body = "behind" /\ PutBack(c, ticks[j]))
      BY <1>5, <2>1, <2>3, <3>2 DEF AfterEnd, Guarded, Private
    <3> QED BY <3>1, <3>2
  <2>6. Reaches(u)
    BY <1>5, <2>5 DEF LeakInv, PrivateReaches
  <2>7. CASE c \notin Contexts \/ msgstate[c] = "PLAINTEXT"
    <3>1. msgstate' = msgstate
      BY <1>3, <2>7 DEF LeakInv, TypeOK
    <3> QED BY <1>1, <2>3, <2>5, <2>6, <3>1 DEF Reaches, Secure
  <2>8. CASE u.instag = BEST /\ \E i \in known \ {c} : msgstate[i] # "PLAINTEXT"
    <3>1. PICK i \in known \ {c} : msgstate[i] # "PLAINTEXT"
      BY <2>8
    <3>2. i \in known' /\ msgstate'[i] # "PLAINTEXT"
      BY <1>1, <1>3, <3>1 DEF LeakInv, TypeOK
    <3> QED BY <2>3, <2>5, <2>8, <3>2 DEF Reaches, Secure
  <2>9. CASE u.instag # BEST /\ u.instag # c
    <3>1. u.instag \in known /\ msgstate[u.instag] # "PLAINTEXT"
      BY <2>6, <2>9 DEF Reaches, Secure
    <3>2. msgstate'[u.instag] # "PLAINTEXT"
      BY <1>3, <2>9, <3>1 DEF LeakInv, TypeOK
    <3> QED BY <1>1, <2>3, <2>5, <2>9, <3>1, <3>2 DEF Reaches, Secure
  <2> QED BY <2>5, <2>7, <2>8, <2>9 DEF PutBack
<1> HIDE DEF t, s
<1>6. NoLeak'
  <2>1. Inject(s, "none") \in SafeEvent /\ Event_(s, "plaintext", "none") \in SafeEvent
    BY <1>2, EventSafe DEF Inject, TypeOK
  <2>2. /\ <<>> \o <<Event_(s, "plaintext", "none")>> \in Seq(SafeEvent)
        /\ <<Inject(s, "none")>> \o <<Event_(s, "plaintext", "none")>> \in Seq(SafeEvent)
        /\ <<Event_(s, "plaintext", "none")>> \in Seq(SafeEvent)
    BY <2>1
  <2> QED BY <1>4, <2>2, EmitSafe
<1>7. PrivateReaches' /\ NoEndBefore'
  <2>1. \A u : Private(u) => Guarded(u)
    BY DEF Private, Guarded
  <2>2. PrivateReaches'
    BY <1>5 DEF PrivateReaches, Guarded
  <2>3. NoEndBefore'
    BY <1>5, <2>1 DEF NoEndBefore, Private
  <2> QED BY <2>2, <2>3
<1>8. OnlyChildrenSecure'
  BY <1>1, <1>3 DEF LeakInv, OnlyChildrenSecure, TypeOK
<1> QED BY <1>6, <1>7, <1>8 DEF LeakInv

LEMMA NextLeak == LeakInv /\ [Next]_vars => LeakInv'
<1> SUFFICES ASSUME LeakInv, [Next]_vars PROVE LeakInv'
  OBVIOUS
<1>1. TypeOK'
  BY NextTypeOK DEF LeakInv
<1>2. CASE UNCHANGED vars
  BY <1>1, <1>2, QuietLeak DEF vars
<1>3. ASSUME NEW s \in Sessions, Application(s) PROVE LeakInv'
  BY <1>1, <1>3, ApplicationLeak
<1>4. ASSUME NEW s \in Sessions, Poll(s) PROVE LeakInv'
  BY <1>1, <1>4, QuietLeak DEF Poll
<1>5. CASE DeleteContact
  BY <1>1, <1>5, DeleteContactLeak
<1>6. CASE EventLoop
  BY <1>1, <1>6, RunSendLeak, RunRecvLeak, RunEndLeak, FailureLeak DEF EventLoop
<1> QED BY <1>2, <1>3, <1>4, <1>5, <1>6 DEF Next

\* Whatever runs between isEncrypted() and the tick of the send() it led to,
\* for any number of sessions, clients and queued ticks and any policies, the
\* text reaches inject_message in clear only if an end() that was queued before
\* it, of any session, put the conversation it was for back to plaintext.
THEOREM NothingLeaks == Spec => []NoLeak
<1>1. LeakInv => NoLeak
  BY DEF LeakInv
<1> QED BY <1>1, InitLeak, NextLeak, PTL DEF Spec

-----------------------------------------------------------------------------
(* What a listener is told is true when it is told. *)

EventsTrue ==
    /\ PrivacyFlag
    /\ DisconnectMeansFinished
    /\ GoneSecureSettles
    /\ EncryptionRequired

\* Events that say what is true in the state the step leads to.
TrueEvent ==
    {e \in Event :
       /\ e.ev = "message" => (e.state = "ENCRYPTED" <=> e.text = "decrypted")
       /\ e.ev = "disconnect" => e.state = "FINISHED"
       /\ e.ev = "gone_secure" => StateAt(ptr'[e.ses], msgstate') = "ENCRYPTED"
       /\ e.ev = "inject_message" /\ "REQUIRE_ENCRYPTION" \in policy'[e.ses]
          => e.text = "none"}

\* Whether a listener destroys the session on the way or not, what is emitted
\* is some of the events there were to emit.
LEMMA EmitSome ==
    ASSUME NEW s, NEW S, NEW evs \in Seq(S), Emit(s, evs)
    PROVE  \A k \in DOMAIN emitted' : emitted'[k] \in S
<1>1. \A k \in DOMAIN evs : evs[k] \in S
  OBVIOUS
<1>2. ASSUME NEW k \in DOMAIN evs, emitted' = SubSeq(evs, 1, k)
      PROVE  \A j \in DOMAIN emitted' : emitted'[j] \in S
  <2>1. k \in 1 .. Len(evs)
    OBVIOUS
  <2>2. \A j \in DOMAIN SubSeq(evs, 1, k) : j \in DOMAIN evs /\ SubSeq(evs, 1, k)[j] = evs[j]
    BY <2>1
  <2> QED BY <1>1, <1>2, <2>2
<1> QED BY <1>1, <1>2 DEF Emit

LEMMA EmitTrue ==
    ASSUME NEW s, NEW evs \in Seq(TrueEvent), Emit(s, evs)
    PROVE  EventsTrue'
<1>1. \A k \in DOMAIN emitted' : emitted'[k] \in TrueEvent
  BY EmitSome
<1> QED
  BY <1>1 DEF EventsTrue, PrivacyFlag, DisconnectMeansFinished, GoneSecureSettles,
              EncryptionRequired, TrueEvent, IsEncrypted

\* The events a listener cannot be misled by.
LEMMA PlainEvents ==
    ASSUME NEW s \in Sessions, msgstate' \in [Contexts -> MsgState]
    PROVE  /\ Event_(s, "msg_event", "none") \in TrueEvent
           /\ Event_(s, "still_secure", "none") \in TrueEvent
           /\ Event_(s, "plaintext", "none") \in TrueEvent
           /\ Inject(s, "none") \in TrueEvent
<1>1. /\ Event_(s, "msg_event", "none") \in Event
      /\ Event_(s, "still_secure", "none") \in Event
      /\ Event_(s, "plaintext", "none") \in Event
      /\ Event_(s, "inject_message", "none") \in Event
  BY EventTyped
<1> QED BY <1>1 DEF TrueEvent, Event_, Inject

\* Sequences of such events.
LEMMA TrueSequences ==
    /\ <<>> \in Seq(TrueEvent)
    /\ \A e \in TrueEvent : <<e>> \in Seq(TrueEvent)
    /\ \A e, f \in TrueEvent : <<e, f>> \in Seq(TrueEvent)
    /\ \A e, f \in Seq(TrueEvent) : e \o f \in Seq(TrueEvent)
<1>1. <<>> \in Seq(TrueEvent) /\ \A e \in TrueEvent : <<e>> \in Seq(TrueEvent)
  OBVIOUS
<1>2. \A e, f \in TrueEvent : <<e, f>> \in Seq(TrueEvent)
  OBVIOUS
<1>3. \A e, f \in Seq(TrueEvent) : e \o f \in Seq(TrueEvent)
  OBVIOUS
<1> QED BY <1>1, <1>2, <1>3

\* Every handler of an incoming message.  Text in the clear is delivered with
\* the session on the master context, or on none; decrypted text with the
\* session on the context it was decrypted in.
LEMMA ReceivingTrue ==
    ASSUME LeakInv, TypeOK', NEW s \in Sessions, NEW m \in Incoming,
           MessageReceiving(s, m)
    PROVE  EventsTrue'
<1>1. msgstate' \in [Contexts -> MsgState] /\ ptr \in [Sessions -> Contexts \cup {NULL, FREED}]
  BY DEF LeakInv, TypeOK
<1>2. /\ Event_(s, "msg_event", "none") \in TrueEvent
      /\ Event_(s, "still_secure", "none") \in TrueEvent
      /\ Inject(s, "none") \in TrueEvent
  BY <1>1, PlainEvents
<1>3. /\ EventAfter(s, "message", "clear") \in Event
      /\ EventAfter(s, "message", "decrypted") \in Event
      /\ EventAfter(s, "disconnect", "none") \in Event
      /\ Event_(s, "gone_secure", "none") \in Event
  BY <1>1, EventTyped
<1>4. m.type \in {"revealsig", "sig", "data", "bye"} => m.from \in Contexts
  BY IncomingFields
<1>5. CASE ReceiveNever(s, m)
  <2>1. StateAt(ptr'[s], msgstate') = "garbage"
    BY <1>1, <1>5, ConstantsAssumption DEF ReceiveNever, StateAt
  <2>2. EventAfter(s, "message", "clear") \in TrueEvent
    BY <1>3, <2>1 DEF EventAfter, TrueEvent
  <2> QED BY <1>5, <2>2, EmitTrue, TrueSequences DEF ReceiveNever
<1>6. CASE ReceiveIgnored(s, m)
  BY <1>2, <1>6, EmitTrue, TrueSequences DEF ReceiveIgnored
<1>7. CASE ReceiveUnknown(s, m)
  BY <1>7, EmitTrue, TrueSequences DEF ReceiveUnknown
<1>8. CASE ReceiveQuery(s, m)
  BY <1>2, <1>8, EmitTrue, TrueSequences DEF ReceiveQuery
<1>9. CASE ReceiveError(s, m)
  BY <1>2, <1>9, EmitTrue, TrueSequences DEF ReceiveError
<1>10. CASE ReceiveText(s, m)
  <2>1. StateAt(ptr'[s], msgstate') = "PLAINTEXT"
    BY <1>1, <1>10 DEF ReceiveText, StateAt, LeakInv, OnlyChildrenSecure
  <2>2. EventAfter(s, "message", "clear") \in TrueEvent
    BY <1>3, <2>1 DEF EventAfter, TrueEvent
  <2> QED BY <1>2, <1>10, <2>2, EmitTrue, TrueSequences DEF ReceiveText
<1>11. CASE ReceiveOpening(s, m)
  BY <1>2, <1>11, EmitTrue, TrueSequences DEF ReceiveOpening
<1>12. CASE ReceiveBadClosing(s, m)
  BY <1>2, <1>12, EmitTrue, TrueSequences DEF ReceiveBadClosing
<1>13. CASE ReceiveClosing(s, m)
  <2>1. StateAt(ptr'[s], msgstate') = "ENCRYPTED"
    BY <1>1, <1>4, <1>13 DEF ReceiveClosing, StateAt, LeakInv, TypeOK
  <2>2. Event_(s, "gone_secure", "none") \in TrueEvent
    BY <1>3, <2>1 DEF Event_, TrueEvent
  <2> QED BY <1>2, <1>13, <2>2, EmitTrue, TrueSequences DEF ReceiveClosing
<1>14. CASE ReceiveUnreadable(s, m)
  BY <1>2, <1>14, EmitTrue, TrueSequences DEF ReceiveUnreadable
<1>15. CASE ReceiveData(s, m)
  <2>1. StateAt(ptr'[s], msgstate') = "ENCRYPTED"
    BY <1>1, <1>4, <1>15 DEF ReceiveData, StateAt
  <2>2. EventAfter(s, "message", "decrypted") \in TrueEvent
    BY <1>3, <2>1 DEF EventAfter, TrueEvent
  <2> QED BY <1>15, <2>2, EmitTrue, TrueSequences DEF ReceiveData
<1>16. CASE ReceiveBye(s, m)
  <2>1. StateAt(ptr'[s], msgstate') = "FINISHED"
    BY <1>1, <1>4, <1>16 DEF ReceiveBye, StateAt, LeakInv, TypeOK
  <2>2. EventAfter(s, "disconnect", "none") \in TrueEvent
    BY <1>3, <2>1 DEF EventAfter, TrueEvent
  <2> QED BY <1>2, <1>16, <2>2, EmitTrue, TrueSequences DEF ReceiveBye
<1> QED
  BY <1>5, <1>6, <1>7, <1>8, <1>9, <1>10, <1>11, <1>12, <1>13, <1>14, <1>15, <1>16
     DEF MessageReceiving

LEMMA RunRecvTrue ==
    ASSUME LeakInv, TypeOK', RunRecv
    PROVE  EventsTrue'
<1>1. Head(ticks) \in Tick /\ Head(ticks).op = "recv"
  BY QueueHead DEF RunRecv, NextTick, Due, LeakInv
<1>2. Head(ticks).ses \in Sessions /\ Head(ticks).msg \in Incoming
  BY <1>1, TickFields
<1> QED BY <1>2, ReceivingTrue DEF RunRecv

\* Application text leaves in clear only if the policy does not require
\* encryption.
LEMMA RunSendTrue ==
    ASSUME LeakInv, TypeOK', RunSend
    PROVE  EventsTrue'
<1> DEFINE t == Head(ticks)
           s == t.ses
<1>1. t \in Tick /\ t.op = "send"
  BY QueueHead DEF RunSend, NextTick, Due, LeakInv
<1>2. s \in Sessions /\ t.body \in Text \cup {"query"}
  BY <1>1, TickFields
<1>3. PICK c \in Target(t.instag) : MessageSending(s, c, t.body)
  BY DEF RunSend
<1>4. policy' = policy /\ msgstate' \in [Contexts -> MsgState]
  BY DEF RunSend, TypeOK
<1> HIDE DEF t, s
<1>5. Event_(s, "msg_event", "none") \in TrueEvent /\ Inject(s, "none") \in TrueEvent
  BY <1>2, <1>4, PlainEvents
<1>6. ASSUME ~Has(s, "REQUIRE_ENCRYPTION"), t.body # "query"
      PROVE  Inject(s, t.body) \in TrueEvent
  <2>1. Inject(s, t.body) \in Event
    BY <1>2, <1>4, <1>6, EventTyped DEF Inject
  <2>2. "REQUIRE_ENCRYPTION" \notin policy'[s]
    BY <1>4, <1>6 DEF Has
  <2> QED BY <2>1, <2>2 DEF TrueEvent, Inject, Event_
<1> QED BY <1>3, <1>5, <1>6, EmitTrue, TrueSequences DEF MessageSending

LEMMA RunEndTrue ==
    ASSUME LeakInv, TypeOK', RunEnd
    PROVE  EventsTrue'
<1> DEFINE s == Head(ticks).ses
<1>1. s \in Sessions
  BY QueueHead, TickFields DEF RunEnd, Due, LeakInv
<1>2. Event_(s, "plaintext", "none") \in TrueEvent /\ Inject(s, "none") \in TrueEvent
  BY <1>1, PlainEvents DEF TypeOK
<1>3. \E online \in BOOLEAN :
        \/ Emit(s, (IF msgstate[ptr[s]] = "ENCRYPTED" /\ online
                    THEN <<Inject(s, "none")>> ELSE <<>>) \o <<Event_(s, "plaintext", "none")>>)
        \/ Emit(s, <<Event_(s, "plaintext", "none")>>)
  BY DEF RunEnd
<1> HIDE DEF s
<1> QED BY <1>2, <1>3, EmitTrue, TrueSequences

\* Every other step emits nothing, or is a stutter.
LEMMA SilentTrue ==
    ASSUME EventsTrue, emitted' = <<>> \/ UNCHANGED vars
    PROVE  EventsTrue'
<1>1. CASE emitted' = <<>>
  BY <1>1 DEF EventsTrue, PrivacyFlag, DisconnectMeansFinished, GoneSecureSettles,
              EncryptionRequired
<1>2. CASE UNCHANGED vars
  BY <1>2 DEF vars, EventsTrue, PrivacyFlag, DisconnectMeansFinished, GoneSecureSettles,
              EncryptionRequired, IsEncrypted
<1> QED BY <1>1, <1>2

LEMMA NextTrue == LeakInv /\ EventsTrue /\ [Next]_vars => EventsTrue'
<1> SUFFICES ASSUME LeakInv, EventsTrue, [Next]_vars PROVE EventsTrue'
  OBVIOUS
<1>1. TypeOK'
  BY NextTypeOK DEF LeakInv
<1>2. CASE RunSend \/ RunRecv \/ RunEnd
  BY <1>1, <1>2, RunSendTrue, RunRecvTrue, RunEndTrue
<1>3. ASSUME NEW s \in Sessions, Application(s) \/ Poll(s) PROVE emitted' = <<>>
  BY <1>3 DEF Application, Poll, Open, Send, Recv, End, Destroy, Enqueue
<1>4. CASE DeleteContact \/ TickThrows \/ TickCorrupts
  BY <1>4, SilentTrue DEF DeleteContact, TickThrows, TickCorrupts
<1>5. CASE UNCHANGED vars
  BY <1>5, SilentTrue
<1> QED BY <1>2, <1>3, <1>4, <1>5, SilentTrue DEF Next, EventLoop

LEMMA InitTrue == Init => EventsTrue
BY DEF Init, EventsTrue, PrivacyFlag, DisconnectMeansFinished, GoneSecureSettles,
       EncryptionRequired

LEMMA EventsAreTrue == Spec => []EventsTrue
BY InitLeak, NextLeak, InitTrue, NextTrue, PTL DEF Spec

-----------------------------------------------------------------------------

\* A "message" event is marked private exactly when its text was decrypted,
\* with any number of sessions and clients moving the contexts meanwhile.
THEOREM PrivateMeansDecrypted == Spec => []PrivacyFlag
<1>1. EventsTrue => PrivacyFlag
  BY DEF EventsTrue
<1> QED BY <1>1, EventsAreTrue, PTL

\* A listener of "disconnect" finds the session in the Finished state.
THEOREM DisconnectIsFinished == Spec => []DisconnectMeansFinished
<1>1. EventsTrue => DisconnectMeansFinished
  BY DEF EventsTrue
<1> QED BY <1>1, EventsAreTrue, PTL

\* Once the tick of gone_secure is over, the session that reported it is
\* private, unless a listener destroyed it.
THEOREM SecureWhenSettled == Spec => []GoneSecureSettles
<1>1. EventsTrue => GoneSecureSettles
  BY DEF EventsTrue
<1> QED BY <1>1, EventsAreTrue, PTL

\* A session whose policy requires encryption injects no text in clear,
\* whatever other sessions with other policies do to the contexts they share.
THEOREM RequiredIsEncrypted == Spec => []EncryptionRequired
<1>1. EventsTrue => EncryptionRequired
  BY DEF EventsTrue
<1> QED BY <1>1, EventsAreTrue, PTL

=============================================================================
