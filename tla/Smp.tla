--------------------------------- MODULE Smp ---------------------------------
(***************************************************************************)
(* SMP authentication between the Session objects of two parties in one    *)
(* private conversation: smpStart, smpStartQuestion, smpRespond, smpAbort  *)
(* and the "smp" events of lib/Session.js, initSMP, respondSMP and         *)
(* abortSMP of lib/bindings/message.js, handle_smp_event of                *)
(* src/library_otr.js and can_start_smp of src/jsapi.c.                    *)
(*                                                                         *)
(* Each method queues a closure with process.nextTick, and so does the     *)
(* handler of an SMP error: the abort it owes runs behind whatever had     *)
(* been queued before it.  What an application injects reaches the peer,   *)
(* in order, unless the network loses it.                                  *)
(*                                                                         *)
(* The cryptography is libotr's and external: a message names the run      *)
(* (the SMP1 it descends from) and the response it was computed from, and  *)
(* verifies only against the state that has the same ones.                 *)
(***************************************************************************)
EXTENDS Naturals, Sequences

CONSTANTS
    Parties,    \* the two parties
    Peer,       \* Peer[p]: the other one
    Secrets,    \* what a user may enter
    NONE,       \* no run, no response, no secret
    MaxCalls    \* bound: methods called, on either side

ASSUME SmpAssumption ==
    /\ Peer \in [Parties -> Parties]
    /\ \A p \in Parties : Peer[p] # p /\ Peer[Peer[p]] = p
    /\ MaxCalls \in Nat
    /\ NONE \notin Secrets /\ NONE \notin Nat

\* A call is named by its number; a run by the call that started it, and a
\* response by the call that made it.
Id == 1..MaxCalls

Message == [type : {"smp1", "smp2", "smp3", "smp4"}, run : Id,
            resp : Id \cup {NONE}, sec : Secrets \cup {NONE}]
             \cup [type : {"abort", "bye"}, run : {NONE}, resp : {NONE}, sec : {NONE}]

Tick == [op : {"init", "respond"}, id : Id, sec : Secrets]
          \cup [op : {"abort", "owed", "end"}]
          \cup [op : {"recv"}, msg : Message]

VARIABLES
    calls,    \* how many methods have been called
    ticks,    \* ticks[p]: the closures p has queued
    net,      \* net[p]: the messages on their way to p
    enc,      \* enc[p]: the context of p is encrypted
    sm,       \* sm[p]: the SMP state of that context
    asked,    \* asked[p]: a "request" waits for the user's answer
    proc,     \* the processes: "running", or "corrupt" after undefined behaviour
    mine,     \* history: mine[p] is the run p has started and not seen the end of,
              \* but none if an abort owed for an earlier error will end it
    done,     \* history: done[p] are the runs p has reported complete
    lost      \* history: a message has been lost

vars == <<calls, ticks, net, enc, sm, asked, proc, mine, done, lost>>

\* next is nextExpected: 1 to 4, for the message awaited.  ready: the
\* numbers of the state exist, it has been in a run since the conversation
\* began.
Idle == [next |-> 1, ready |-> FALSE, run |-> NONE, resp |-> NONE, sec |-> NONE]

SmState == [next : {1}, ready : {FALSE}, run : {NONE}, resp : {NONE}, sec : {NONE}]
             \cup [next : 1..4, ready : {TRUE}, run : Id,
                   resp : Id \cup {NONE}, sec : Secrets \cup {NONE}]

TypeOK ==
    /\ calls \in 0..MaxCalls
    /\ ticks \in [Parties -> Seq(Tick)]
    /\ net \in [Parties -> Seq(Message)]
    /\ enc \in [Parties -> BOOLEAN]
    /\ sm \in [Parties -> SmState]
    /\ asked \in [Parties -> BOOLEAN]
    /\ proc \in {"running", "corrupt"}
    /\ mine \in [Parties -> Id \cup {NONE}]
    /\ done \in [Parties -> SUBSET Id]
    /\ lost \in BOOLEAN

Init ==
    /\ calls = 0
    /\ ticks = [p \in Parties |-> <<>>]
    /\ net = [p \in Parties |-> <<>>]
    /\ enc = [p \in Parties |-> TRUE]
    /\ sm = [p \in Parties |-> Idle]
    /\ asked = [p \in Parties |-> FALSE]
    /\ proc = "running"
    /\ mine = [p \in Parties |-> NONE]
    /\ done = [p \in Parties |-> {}]
    /\ lost = FALSE

-----------------------------------------------------------------------------
(* The methods the application calls. *)

Queue(p, t) ==
    /\ proc = "running"
    /\ calls < MaxCalls
    /\ calls' = calls + 1
    /\ ticks' = [ticks EXCEPT ![p] = Append(@, t)]
    /\ UNCHANGED <<net, enc, sm, proc, done, lost>>

\* smpStart(), or smpStartQuestion(), which differ in what is displayed to
\* the peer; with a secret, without one they throw.
SmpStart(p) ==
    /\ \E s \in Secrets : Queue(p, [op |-> "init", id |-> calls + 1, sec |-> s])
    /\ UNCHANGED <<asked, mine>>

\* Mutated: the secret is not checked.
SmpRespondBlank(p) ==
    /\ \E s \in Secrets \cup {NONE} :
         Queue(p, [op |-> "respond", id |-> calls + 1, sec |-> s])
    /\ asked' = [asked EXCEPT ![p] = FALSE]
    /\ UNCHANGED mine

\* smpRespond(): by an answer to a "request", or for no reason at all.
SmpRespond(p) ==
    /\ \E s \in Secrets : Queue(p, [op |-> "respond", id |-> calls + 1, sec |-> s])
    /\ asked' = [asked EXCEPT ![p] = FALSE]
    /\ UNCHANGED mine

SmpAbort(p) ==
    /\ Queue(p, [op |-> "abort"])
    /\ asked' = [asked EXCEPT ![p] = FALSE]
    /\ UNCHANGED mine

\* end(), for what it does to a run of SMP.
End(p) ==
    /\ Queue(p, [op |-> "end"])
    /\ asked' = [asked EXCEPT ![p] = FALSE]
    /\ UNCHANGED mine

-----------------------------------------------------------------------------
(* The closures. *)

Msg(type, run, resp, sec) == [type |-> type, run |-> run, resp |-> resp, sec |-> sec]

\* inject_message, and the application sends it.
Send(p, m) == net' = [net EXCEPT ![Peer[p]] = Append(@, m)]

Run(p, ops) ==
    /\ proc = "running"
    /\ ticks[p] # <<>>
    /\ Head(ticks[p]).op \in ops

Done(p) == ticks' = [ticks EXCEPT ![p] = Tail(@)]

\* can_start_smp, and libotr's own check of the context.
CanStart(p) == enc[p] /\ sm[p].next = 1

AbortOwed(p) == \E k \in DOMAIN ticks[p] : ticks[p][k].op = "owed"

RunInit(p) ==
    /\ Run(p, {"init"})
    /\ Done(p)
    /\ UNCHANGED <<calls, enc, asked, proc, done, lost>>
    /\ LET t == Head(ticks[p]) IN
         IF CanStart(p)
         THEN /\ sm' = [sm EXCEPT ![p] = [next |-> 2, ready |-> TRUE,
                                          run |-> t.id, resp |-> NONE, sec |-> t.sec]]
              /\ Send(p, Msg("smp1", t.id, NONE, NONE))
              /\ mine' = [mine EXCEPT ![p] = IF AbortOwed(p) THEN NONE ELSE t.id]
         ELSE UNCHANGED <<sm, net, mine>>

\* respondSMP has no check of its own.  If the state has never been in a run
\* libotr computes with numbers that are not there.
RunRespond(p) ==
    /\ Run(p, {"respond"})
    /\ Done(p)
    /\ UNCHANGED <<calls, enc, asked, mine, done, lost>>
    /\ LET t == Head(ticks[p]) IN
         IF enc[p] /\ sm[p].ready
         THEN /\ sm' = [sm EXCEPT ![p].next = 3, ![p].resp = t.id, ![p].sec = t.sec]
              /\ Send(p, Msg("smp2", sm[p].run, t.id, t.sec))
              /\ UNCHANGED proc
         ELSE /\ proc' = IF enc[p] THEN "corrupt" ELSE proc
              /\ UNCHANGED <<sm, net>>

\* The closure of smpAbort(), called by the application or by the handler of
\* an error.  The application knows that its own call ends the run.
RunAbort(p) ==
    /\ Run(p, {"abort", "owed"})
    /\ Done(p)
    /\ sm' = [sm EXCEPT ![p].next = 1]
    /\ IF enc[p] THEN Send(p, Msg("abort", NONE, NONE, NONE)) ELSE UNCHANGED net
    /\ mine' = IF Head(ticks[p]).op = "abort" THEN [mine EXCEPT ![p] = NONE] ELSE mine
    /\ UNCHANGED <<calls, enc, asked, proc, done, lost>>

RunEnd(p) ==
    /\ Run(p, {"end"})
    /\ Done(p)
    /\ enc' = [enc EXCEPT ![p] = FALSE]
    /\ sm' = [sm EXCEPT ![p] = Idle]
    /\ IF enc[p] THEN Send(p, Msg("bye", NONE, NONE, NONE)) ELSE UNCHANGED net
    /\ mine' = [mine EXCEPT ![p] = NONE]
    /\ UNCHANGED <<calls, asked, proc, done, lost>>

-----------------------------------------------------------------------------
(* The closure of recv().  Each case is one of the SMP events of libotr. *)

Receiving(p, types) ==
    /\ Run(p, {"recv"})
    /\ Head(ticks[p]).msg.type \in types
    /\ UNCHANGED <<calls, proc, lost>>

Received(p) == Head(ticks[p]).msg

\* Mutated: the handler reports the error and does not abort.
ErrorOnly(p) ==
    /\ Done(p)
    /\ mine' = [mine EXCEPT ![p] = NONE]

\* smp_error: smpAbort() goes to the end of the queue, then "failed".
Error(p) ==
    /\ ticks' = [ticks EXCEPT ![p] = Append(Tail(@), [op |-> "owed"])]
    /\ mine' = [mine EXCEPT ![p] = NONE]

\* Mutated: "complete" is reported while the run is still in progress.
ProgressCompletes(p, r) ==
    /\ Done(p)
    /\ mine' = [mine EXCEPT ![p] = NONE]
    /\ done' = [done EXCEPT ![p] = @ \cup {r}]

\* SMPEVENT_IN_PROGRESS is not passed on.
InProgress(p, r) == Done(p) /\ UNCHANGED <<mine, done>>

\* smp_complete or smp_failed, for the run r.
Outcome(p, r, same) ==
    /\ Done(p)
    /\ mine' = [mine EXCEPT ![p] = NONE]
    /\ done' = IF same THEN [done EXCEPT ![p] = @ \cup {r}] ELSE done

\* Data in a conversation that is not private is not read.
ReceiveUnread(p) ==
    /\ Receiving(p, {"smp1", "smp2", "smp3", "smp4", "abort", "bye"})
    /\ ~enc[p]
    /\ Done(p)
    /\ UNCHANGED <<net, enc, sm, asked, mine, done>>

\* The peer has ended the conversation.
ReceiveBye(p) ==
    /\ Receiving(p, {"bye"})
    /\ enc[p]
    /\ enc' = [enc EXCEPT ![p] = FALSE]
    /\ sm' = [sm EXCEPT ![p] = Idle]
    /\ mine' = [mine EXCEPT ![p] = NONE]
    /\ asked' = [asked EXCEPT ![p] = FALSE]
    /\ Done(p)
    /\ UNCHANGED <<net, done>>

\* External: SMP1 while idle: "request".
ReceiveRequest(p) ==
    /\ Receiving(p, {"smp1"})
    /\ enc[p] /\ sm[p].next = 1
    /\ sm' = [sm EXCEPT ![p].ready = TRUE,
                        ![p].run = Received(p).run, ![p].resp = NONE]
    /\ asked' = [asked EXCEPT ![p] = TRUE]
    /\ Done(p)
    /\ UNCHANGED <<net, enc, mine, done>>

Awaited(m) ==
    IF m.type = "smp2" THEN 2 ELSE IF m.type = "smp3" THEN 3
    ELSE IF m.type = "smp4" THEN 4 ELSE 1

\* External: a message that is not the one awaited is an error, and does not
\* change the state.
ReceiveUnexpected(p) ==
    /\ Receiving(p, {"smp1", "smp2", "smp3", "smp4"})
    /\ enc[p] /\ sm[p].next # Awaited(Received(p))
    /\ Error(p)
    /\ UNCHANGED <<net, enc, sm, asked, done>>

Verifies(p, m) ==
    /\ m.run = sm[p].run
    /\ m.type = "smp2" \/ m.resp = sm[p].resp

\* External: nor is one that does not verify, and that resets the state.
ReceiveCheated(p) ==
    /\ Receiving(p, {"smp2", "smp3", "smp4"})
    /\ LET m == Received(p) IN
         enc[p] /\ sm[p].next = Awaited(m) /\ ~Verifies(p, m)
    /\ sm' = [sm EXCEPT ![p].next = 1]
    /\ Error(p)
    /\ UNCHANGED <<net, enc, asked, done>>

\* External: the initiator goes on.
ReceiveResponse(p) ==
    /\ Receiving(p, {"smp2"})
    /\ LET m == Received(p) IN
         /\ enc[p] /\ sm[p].next = 2 /\ Verifies(p, m)
         /\ sm' = [sm EXCEPT ![p].next = 4, ![p].resp = m.resp]
         /\ Send(p, Msg("smp3", m.run, m.resp, sm[p].sec))
         /\ InProgress(p, m.run)
    /\ UNCHANGED <<enc, asked>>

\* External: the responder compares, tells the initiator and is done.
ReceiveProof(p) ==
    /\ Receiving(p, {"smp3"})
    /\ LET m == Received(p)
           same == m.sec = sm[p].sec
       IN /\ enc[p] /\ sm[p].next = 3 /\ Verifies(p, m)
          /\ Send(p, Msg("smp4", m.run, m.resp, sm[p].sec))
          /\ Outcome(p, m.run, same)
    /\ sm' = [sm EXCEPT ![p].next = 1]
    /\ UNCHANGED <<enc, asked>>

\* External: the initiator compares and is done.
ReceiveEnd(p) ==
    /\ Receiving(p, {"smp4"})
    /\ LET m == Received(p)
           same == m.sec = sm[p].sec
       IN /\ enc[p] /\ sm[p].next = 4 /\ Verifies(p, m)
          /\ Outcome(p, m.run, same)
    /\ sm' = [sm EXCEPT ![p].next = 1]
    /\ UNCHANGED <<net, enc, asked>>

\* Mutated: that the peer has aborted is not reported.
ReceiveAbortSilent(p) ==
    /\ Receiving(p, {"abort"})
    /\ enc[p]
    /\ sm' = [sm EXCEPT ![p].next = 1]
    /\ asked' = [asked EXCEPT ![p] = FALSE]
    /\ Done(p)
    /\ UNCHANGED <<net, enc, mine, done>>

\* The peer has aborted: "aborted".
ReceiveAbort(p) ==
    /\ Receiving(p, {"abort"})
    /\ enc[p]
    /\ sm' = [sm EXCEPT ![p].next = 1]
    /\ asked' = [asked EXCEPT ![p] = FALSE]
    /\ mine' = [mine EXCEPT ![p] = NONE]
    /\ Done(p)
    /\ UNCHANGED <<net, enc, done>>

RunTick(p) ==
    \/ RunInit(p)
    \/ RunRespond(p)
    \/ RunAbort(p)
    \/ RunEnd(p)
    \/ ReceiveUnread(p)
    \/ ReceiveBye(p)
    \/ ReceiveRequest(p)
    \/ ReceiveUnexpected(p)
    \/ ReceiveCheated(p)
    \/ ReceiveResponse(p)
    \/ ReceiveProof(p)
    \/ ReceiveEnd(p)
    \/ ReceiveAbort(p)

-----------------------------------------------------------------------------
(* The network, external: it hands the next message to recv(). *)

Deliver(p) ==
    /\ proc = "running"
    /\ net[p] # <<>>
    /\ net' = [net EXCEPT ![p] = Tail(@)]
    /\ ticks' = [ticks EXCEPT ![p] = Append(@, [op |-> "recv", msg |-> Head(net[p])])]
    /\ UNCHANGED <<calls, enc, sm, asked, proc, mine, done, lost>>

Lose(p) ==
    /\ net[p] # <<>>
    /\ net' = [net EXCEPT ![p] = Tail(@)]
    /\ lost' = TRUE
    /\ UNCHANGED <<calls, ticks, enc, sm, asked, proc, mine, done>>

Application(p) == SmpStart(p) \/ SmpRespond(p) \/ SmpAbort(p) \/ End(p)

Next ==
    \E p \in Parties : Application(p) \/ RunTick(p) \/ Deliver(p) \/ Lose(p)

Spec == Init /\ [][Next]_vars

\* The event loop runs every closure that is queued, and the connection of
\* the two applications delivers what is sent.
FairSpec ==
    Spec /\ \A p \in Parties : WF_vars(RunTick(p)) /\ WF_vars(Deliver(p))

-----------------------------------------------------------------------------

\* The party that started a run reports it complete only after the other one
\* has, however runs, aborts and answers cross.
CompleteAgrees ==
    [][\A p \in Parties, r \in Id :
         (r = mine[p] /\ r \in done'[p]) => r \in done'[Peer[p]]]_vars

\* A party whose SMP state is idle again has been told, by an "smp" event or
\* a "disconnect", what became of the run it started, if it has not itself
\* given it up.  The one exception, in mine, is a run started between an error
\* and the abort queued for it, which that abort ends without an event.
ToldWhenOver == \A p \in Parties : mine[p] # NONE => sm[p].next # 1

\* When nothing is queued, nothing on its way and nothing was lost, nobody
\* waits for a message that cannot come: the initiator waits at most for the
\* user of the other side, who has been asked and has not answered.
Quiet == \A p \in Parties : ticks[p] = <<>> /\ net[p] = <<>>

NoStall ==
    (Quiet /\ ~lost /\ proc = "running") =>
      \A p \in Parties :
        sm[p].next # 1 =>
          /\ sm[p].next = 2
          /\ asked[Peer[p]]
          /\ sm[Peer[p]].next = 1
          /\ sm[Peer[p]].run = sm[p].run

\* If users answer what they are asked and no message is lost, every run that
\* starts is over some time, so that another can be started.
Answered == \A p \in Parties : [](asked[p] => <>(~asked[p]))

EveryRunEnds ==
    (Answered /\ []~lost) =>
      \A p \in Parties : sm[p].next # 1 ~> (sm[p].next = 1 \/ proc = "corrupt")

=============================================================================
