------------------------------ MODULE OtrChat -------------------------------
(***************************************************************************)
(* Two users, each with one Session on the other, joined by a network: a   *)
(* process each, as examples/net_alice.js and net_bob.js, with the         *)
(* "inject_message" of one handed to recv() of the other.                  *)
(*                                                                         *)
(* OtrSession has one end against anything the network may deliver; here   *)
(* the messages are those the other end sent, so that keys can be compared *)
(* and an exchange followed to its end.  Default policy, instance tags     *)
(* that are kept over a restart, and applications that use send() for text *)
(* only while isEncrypted() is true and no end() is pending.               *)
(***************************************************************************)
EXTENDS Naturals, Sequences

CONSTANTS
    Parties,       \* the two users
    Peer,          \* Peer[p]: the other one
    NONE,          \* no D-H number
    MaxHalves,     \* bound on the D-H numbers each party makes
    MaxTicks,      \* bound on the ticks a party has queued
    MaxStarts,     \* bound on the calls of start()
    MaxEvents      \* bound on texts, end() calls, losses and restarts together

ASSUME ChatAssumption ==
    /\ Peer \in [Parties -> Parties]
    /\ \A p \in Parties : Peer[p] # p /\ Peer[Peer[p]] = p
    /\ \E p \in Parties : Parties = {p, Peer[p]}
    /\ \A n \in {MaxHalves, MaxTicks, MaxStarts, MaxEvents} : n \in Nat

\* A D-H number and who made it; a key is the number of the party that sent
\* the commitment and that of the party that answered it.
Half == [by : Parties, n : 1..MaxHalves]
Key == Half \X Half
NOKEY == <<NONE, NONE>>

ASSUME NoneAssumption == NONE \notin Half

VARIABLES
    ticks,     \* ticks[p]: the nextTick queue of p
    net,       \* net[p]: the messages on their way to p
    ptr,       \* ptr[p]: session.context, as in OtrSession
    known,     \* p has a child context for its contact
    commit,    \* commit[p]: the number committed on the master context, or NONE
    auth,      \* auth[p]: what the key exchange of the child context waits for
    msgstate,  \* msgstate[p] of the child context
    key,       \* key[p] of the child context
    proc,      \* proc[p]: "running", or "corrupt" as in OtrSession
    fresh,     \* fresh[p]: how many D-H numbers p has made
    held,      \* held[p]: the keys p has used (history)
    said,      \* said[p]: how many texts were handed to send() (history)
    heard,     \* heard[p]: the texts of the decrypted messages (history)
    peace,     \* the last call, if made in peace, and the keys then (history)
    used       \* how much of MaxStarts and MaxEvents is used, and on what

contextVars == <<known, commit, auth, msgstate, key, fresh, held>>
vars == <<ticks, net, ptr, contextVars, proc, said, heard, peace, used>>

Message == [type : {"query", "error", "plain", "dhcommit", "dhkey", "revealsig",
                    "sig", "data", "bye"},
            key : (Half \cup {NONE}) \X (Half \cup {NONE}),
            text : 0..MaxEvents]

Tick == [op : {"start", "end"}] \cup [op : {"send"}, text : 1..MaxEvents]
          \cup [op : {"recv"}, msg : Message]

TypeOK ==
    /\ ticks \in [Parties -> Seq(Tick)]
    /\ net \in [Parties -> Seq(Message)]
    /\ ptr \in [Parties -> {"MASTER", "CHILD", "NULL"}]
    /\ known \in [Parties -> BOOLEAN]
    /\ commit \in [Parties -> Half \cup {NONE}]
    /\ auth \in [Parties -> [state : {"NONE", "REVEALSIG", "SIG"}, key : Key \cup {NOKEY}]]
    /\ msgstate \in [Parties -> {"PLAINTEXT", "ENCRYPTED", "FINISHED"}]
    /\ key \in [Parties -> Key \cup {NOKEY}]
    /\ proc \in [Parties -> {"running", "corrupt"}]
    /\ fresh \in [Parties -> 0..MaxHalves]
    /\ held \in [Parties -> SUBSET Key]
    /\ said \in [Parties -> 0..MaxEvents]
    /\ heard \in [Parties -> Seq(1..MaxEvents)]
    /\ peace \in [call : {"none", "start", "end"}, keys : [Parties -> Key \cup {NOKEY}]]
    /\ used \in [starts : 0..MaxStarts, events : 0..MaxEvents, intact : BOOLEAN]

Broken == [call |-> "none", keys |-> [p \in Parties |-> NOKEY]]

Idle == [state |-> "NONE", key |-> NOKEY]

Init ==
    /\ ticks = [p \in Parties |-> <<>>]
    /\ net = [p \in Parties |-> <<>>]
    /\ ptr = [p \in Parties |-> "MASTER"]
    /\ known = [p \in Parties |-> FALSE]
    /\ commit = [p \in Parties |-> NONE]
    /\ auth = [p \in Parties |-> Idle]
    /\ msgstate = [p \in Parties |-> "PLAINTEXT"]
    /\ key = [p \in Parties |-> NOKEY]
    /\ proc = [p \in Parties |-> "running"]
    /\ fresh = [p \in Parties |-> 0]
    /\ held = [p \in Parties |-> {}]
    /\ said = [p \in Parties |-> 0]
    /\ heard = [p \in Parties |-> <<>>]
    /\ peace = Broken
    /\ used = [starts |-> 0, events |-> 0, intact |-> TRUE]

-----------------------------------------------------------------------------
(* What the properties speak of. *)

IsEncrypted(p) == ptr[p] = "CHILD" /\ msgstate[p] = "ENCRYPTED"

\* Nothing is queued and nothing is on its way.
Quiet == \A p \in Parties : ticks[p] = <<>> /\ net[p] = <<>>

\* Both conversations are private, with one key.
Together ==
    \A p \in Parties : msgstate[p] = "ENCRYPTED" /\ key[p] = key[Peer[p]]

\* Nothing else is going on that an exchange or a disconnect could race.
Peaceful == Quiet /\ \A p \in Parties : proc[p] = "running" /\ ptr[p] # "NULL"

-----------------------------------------------------------------------------
(* The Session methods. *)

\* Mutated: a closure overtakes those already queued.
EnqueueFirst(p, t) ==
    /\ proc[p] = "running"
    /\ Len(ticks[p]) < MaxTicks
    /\ ticks' = [ticks EXCEPT ![p] = <<t>> \o @]
    /\ UNCHANGED <<net, ptr, contextVars, proc, heard>>

\* nextTick() by one of these methods.
Enqueue(p, t) ==
    /\ proc[p] = "running"
    /\ Len(ticks[p]) < MaxTicks
    /\ ticks' = [ticks EXCEPT ![p] = Append(@, t)]
    /\ UNCHANGED <<net, ptr, contextVars, proc, heard>>

\* start(): send("?OTR?").
Start(p) ==
    /\ used.starts < MaxStarts
    /\ used' = [used EXCEPT !.starts = @ + 1, !.intact = @ /\ Peaceful]
    /\ peace' = IF Peaceful THEN [call |-> "start", keys |-> key] ELSE Broken
    /\ Enqueue(p, [op |-> "start"])
    /\ UNCHANGED said

EndPending(p) == \E k \in DOMAIN ticks[p] : ticks[p][k].op = "end"

\* send(), of a text for the private conversation.  The application sends none
\* after calling end(); OtrSession has what becomes of such a text.
Send(p) ==
    /\ used.events < MaxEvents
    /\ used' = [used EXCEPT !.events = @ + 1]
    /\ IsEncrypted(p)
    /\ ~EndPending(p)
    /\ said' = [said EXCEPT ![p] = @ + 1]
    /\ Enqueue(p, [op |-> "send", text |-> said'[p]])
    /\ UNCHANGED peace

End(p) ==
    /\ used.events < MaxEvents
    /\ used' = [used EXCEPT !.events = @ + 1, !.intact = FALSE]
    /\ peace' = IF Peaceful /\ Together /\ IsEncrypted(p)
                THEN [call |-> "end", keys |-> key] ELSE Broken
    /\ Enqueue(p, [op |-> "end"])
    /\ UNCHANGED said

-----------------------------------------------------------------------------
(* The network, and the processes. *)

Msg(type, k, text) == [type |-> type, key |-> k, text |-> text]

\* Mutated: the transport keeps only the last message it was given.
InjectLast(p, m) == net' = [net EXCEPT ![Peer[p]] = <<m>>]

\* "inject_message", and the listener that hands it to the network.
Inject(p, m) == net' = [net EXCEPT ![Peer[p]] = Append(@, m)]

\* recv() of what has arrived.
Deliver(p) ==
    /\ proc[p] = "running"
    /\ net[p] # <<>>
    /\ Len(ticks[p]) < MaxTicks
    /\ net' = [net EXCEPT ![p] = Tail(@)]
    /\ ticks' = [ticks EXCEPT ![p] = Append(@, [op |-> "recv", msg |-> Head(net[p])])]
    /\ UNCHANGED <<ptr, contextVars, proc, said, heard, peace, used>>

Fault ==
    /\ used.events < MaxEvents
    /\ used' = [used EXCEPT !.events = @ + 1, !.intact = FALSE]
    /\ peace' = Broken

\* The network loses a message.
Lose(p) ==
    /\ Fault
    /\ net[p] # <<>>
    /\ net' = [net EXCEPT ![p] = Tail(@)]
    /\ UNCHANGED <<ticks, ptr, contextVars, proc, said, heard>>

\* The process of p is started again: its contexts are gone, and so is what
\* was on its way to it.
Restart(p) ==
    /\ Fault
    /\ ticks' = [ticks EXCEPT ![p] = <<>>]
    /\ net' = [net EXCEPT ![p] = <<>>]
    /\ ptr' = [ptr EXCEPT ![p] = "MASTER"]
    /\ known' = [known EXCEPT ![p] = FALSE]
    /\ commit' = [commit EXCEPT ![p] = NONE]
    /\ auth' = [auth EXCEPT ![p] = Idle]
    /\ msgstate' = [msgstate EXCEPT ![p] = "PLAINTEXT"]
    /\ key' = [key EXCEPT ![p] = NOKEY]
    /\ proc' = [proc EXCEPT ![p] = "running"]
    /\ UNCHANGED <<fresh, held, said, heard>>

-----------------------------------------------------------------------------
(* The ticks of send() and end(). *)

\* The next tick of p, when the names can be read through its context.
NextTick(p, op) ==
    /\ proc[p] = "running"
    /\ ticks[p] # <<>>
    /\ Head(ticks[p]).op = op
    /\ ptr[p] # "NULL"
    /\ ticks' = [ticks EXCEPT ![p] = Tail(@)]
    /\ UNCHANGED <<proc, said, peace, used>>

\* External: the context that OTRL_INSTAG_BEST stands for.  Which of two in
\* plaintext received last is not modelled.
Best(p) ==
    IF ~known[p] THEN {"MASTER"}
    ELSE IF msgstate[p] = "PLAINTEXT" THEN {"MASTER", "CHILD"} ELSE {"CHILD"}

\* Mutated: start() does nothing in a conversation that is private.
RunStartOnce(p) ==
    /\ NextTick(p, "start")
    /\ \E c \in Best(p) : ptr' = [ptr EXCEPT ![p] = c]
    /\ IF msgstate[p] = "ENCRYPTED" THEN UNCHANGED net
                                    ELSE Inject(p, Msg("query", NOKEY, 0))
    /\ UNCHANGED <<contextVars, heard>>

\* A query is sent as it is, whatever the state of the conversation.
RunStart(p) ==
    /\ NextTick(p, "start")
    /\ \E c \in Best(p) : ptr' = [ptr EXCEPT ![p] = c]
    /\ Inject(p, Msg("query", NOKEY, 0))
    /\ UNCHANGED <<contextVars, heard>>

\* Text is encrypted; once the contact has ended the conversation, libotr
\* sends an empty message in its place.
RunSend(p) ==
    /\ NextTick(p, "send")
    /\ \E c \in Best(p) : ptr' = [ptr EXCEPT ![p] = c]
    /\ Inject(p, IF msgstate[p] = "ENCRYPTED"
                 THEN Msg("data", key[p], Head(ticks[p]).text)
                 ELSE Msg("plain", NOKEY, 0))
    /\ UNCHANGED <<contextVars, heard>>

\* Mutated: end() has libotr clear its state and tells the contact nothing.
RunEndSilently(p) ==
    /\ NextTick(p, "end")
    /\ msgstate' = [msgstate EXCEPT ![p] = "PLAINTEXT"]
    /\ key' = [key EXCEPT ![p] = NOKEY]
    /\ auth' = [auth EXCEPT ![p] = Idle]
    /\ UNCHANGED <<net, ptr, known, commit, fresh, held, heard>>

\* end() is about the context the session points to.
RunEnd(p) ==
    /\ NextTick(p, "end")
    /\ UNCHANGED <<ptr, known, fresh, held, heard>>
    /\ \/ /\ ptr[p] = "CHILD"
          /\ IF msgstate[p] = "ENCRYPTED" THEN Inject(p, Msg("bye", key[p], 0))
                                          ELSE UNCHANGED net
          /\ msgstate' = [msgstate EXCEPT ![p] = "PLAINTEXT"]
          /\ key' = [key EXCEPT ![p] = NOKEY]
          /\ auth' = [auth EXCEPT ![p] = Idle]
          /\ UNCHANGED commit
       \/ /\ ptr[p] = "MASTER"
          /\ commit' = [commit EXCEPT ![p] = NONE]
          /\ UNCHANGED <<net, auth, msgstate, key>>

\* A tick through the null context, as in OtrSession.
TickCorrupts(p) ==
    /\ proc[p] = "running"
    /\ ticks[p] # <<>>
    /\ ptr[p] = "NULL"
    /\ proc' = [proc EXCEPT ![p] = "corrupt"]
    /\ UNCHANGED <<ticks, net, ptr, contextVars, said, heard, peace, used>>

\* The poll gives up a commitment that has waited for a minute, which is
\* longer than anything is on its way.
Poll(p) ==
    /\ proc[p] = "running"
    /\ Quiet
    /\ commit[p] # NONE
    /\ commit' = [commit EXCEPT ![p] = NONE]
    /\ UNCHANGED <<ticks, net, ptr, known, auth, msgstate, key, fresh, held, proc,
                   said, heard, peace, used>>

-----------------------------------------------------------------------------
(* The ticks of recv(): what libotr does with each message. *)

\* Mutated: the number is taken before it is made.
NewHalfEarly(p) == [by |-> p, n |-> fresh[p]]

\* A D-H number nobody has used.
NewHalf(p) == [by |-> p, n |-> fresh[p] + 1]

MakeHalf(p) ==
    /\ fresh[p] < MaxHalves
    /\ fresh' = [fresh EXCEPT ![p] = @ + 1]

Points(p, c) == ptr' = [ptr EXCEPT ![p] = c]

\* External: a query is answered with a commitment, kept on the master
\* context; the exchange that may be under way on the child context stays.
ReceiveQuery(p, m) ==
    /\ m.type = "query"
    /\ MakeHalf(p)
    /\ commit' = [commit EXCEPT ![p] = NewHalf(p)]
    /\ Points(p, "MASTER")
    /\ Inject(p, Msg("dhcommit", <<NewHalf(p), NONE>>, 0))
    /\ UNCHANGED <<known, auth, msgstate, key, held, heard>>

\* External: an error message is answered with a query.
ReceiveError(p, m) ==
    /\ m.type = "error"
    /\ Points(p, "MASTER")
    /\ Inject(p, Msg("query", NOKEY, 0))
    /\ UNCHANGED <<contextVars, heard>>

ReceivePlain(p, m) ==
    /\ m.type = "plain"
    /\ Points(p, "MASTER")
    /\ UNCHANGED <<net, contextVars, heard>>

\* External: a commitment is answered with a D-H number: that of the answer
\* already given, while it waits for the next message.
ReceiveCommit(p, m) ==
    /\ m.type = "dhcommit"
    /\ known' = [known EXCEPT ![p] = TRUE]
    /\ Points(p, "CHILD")
    /\ \/ /\ auth[p].state = "REVEALSIG"
          /\ auth' = [auth EXCEPT ![p].key = <<m.key[1], @[2]>>]
          /\ UNCHANGED fresh
       \/ /\ auth[p].state # "REVEALSIG"
          /\ MakeHalf(p)
          /\ auth' = [auth EXCEPT ![p] = [state |-> "REVEALSIG",
                                          key |-> <<m.key[1], NewHalf(p)>>]]
    /\ Inject(p, Msg("dhkey", <<NONE, auth'[p].key[2]>>, 0))
    /\ UNCHANGED <<commit, msgstate, key, held, heard>>

\* External: the answer to a commitment.  The number committed on the master
\* context replaces what the child context was doing; without one, only the
\* answer already received is answered again.
ReceiveKey(p, m) ==
    /\ m.type = "dhkey"
    /\ known' = [known EXCEPT ![p] = TRUE]
    /\ Points(p, "CHILD")
    /\ \/ /\ commit[p] # NONE
          /\ auth' = [auth EXCEPT ![p] = [state |-> "SIG", key |-> <<commit[p], m.key[2]>>]]
          /\ Inject(p, Msg("revealsig", auth'[p].key, 0))
       \/ /\ commit[p] = NONE
          /\ UNCHANGED auth
          /\ IF auth[p].state = "SIG" /\ auth[p].key[2] = m.key[2]
             THEN Inject(p, Msg("revealsig", auth[p].key, 0))
             ELSE UNCHANGED net
    /\ UNCHANGED <<commit, msgstate, key, fresh, held, heard>>

Awaited(m) == IF m.type = "sig" THEN "SIG" ELSE "REVEALSIG"

\* External: a closing message that is awaited and fits the exchange.
ReceiveClosing(p, m) ==
    /\ m.type \in {"revealsig", "sig"}
    /\ known[p]
    /\ auth[p] = [state |-> Awaited(m), key |-> m.key]
    /\ auth' = [auth EXCEPT ![p] = Idle]
    /\ msgstate' = [msgstate EXCEPT ![p] = "ENCRYPTED"]
    /\ key' = [key EXCEPT ![p] = m.key]
    /\ held' = [held EXCEPT ![p] = @ \cup {m.key}]
    /\ Points(p, "CHILD")
    /\ IF m.type = "revealsig" THEN Inject(p, Msg("sig", m.key, 0)) ELSE UNCHANGED net
    /\ UNCHANGED <<known, commit, fresh, heard>>

\* External: any other one is ignored.
ReceiveBadClosing(p, m) ==
    /\ m.type \in {"revealsig", "sig"}
    /\ known[p]
    /\ auth[p] # [state |-> Awaited(m), key |-> m.key]
    /\ Points(p, "CHILD")
    /\ UNCHANGED <<net, contextVars, heard>>

\* External: from a contact whose client has no context yet, only the opening
\* messages are accepted.
ReceiveUnknown(p, m) ==
    /\ m.type \in {"revealsig", "sig", "data", "bye"}
    /\ ~known[p]
    /\ known' = [known EXCEPT ![p] = TRUE]
    /\ Points(p, "NULL")
    /\ UNCHANGED <<net, commit, auth, msgstate, key, fresh, held, heard>>

\* The "message" event of a text that decrypts.
ReceiveData(p, m) ==
    /\ m.type = "data"
    /\ known[p]
    /\ key[p] = m.key
    /\ heard' = [heard EXCEPT ![p] = Append(@, m.text)]
    /\ Points(p, "CHILD")
    /\ UNCHANGED <<net, contextVars>>

\* The "disconnect" event, with the conversation finished.
ReceiveBye(p, m) ==
    /\ m.type = "bye"
    /\ known[p]
    /\ key[p] = m.key
    /\ msgstate' = [msgstate EXCEPT ![p] = "FINISHED"]
    /\ key' = [key EXCEPT ![p] = NOKEY]
    /\ auth' = [auth EXCEPT ![p] = Idle]
    /\ Points(p, "CHILD")
    /\ UNCHANGED <<net, known, commit, fresh, held, heard>>

\* External: what does not decrypt.  A private conversation answers with an
\* error, except that the end of a conversation is marked to be ignored then.
ReceiveUnreadable(p, m) ==
    /\ m.type \in {"data", "bye"}
    /\ known[p]
    /\ key[p] # m.key
    /\ Points(p, "CHILD")
    /\ IF m.type = "data" /\ msgstate[p] = "ENCRYPTED"
       THEN Inject(p, Msg("error", NOKEY, 0))
       ELSE UNCHANGED net
    /\ UNCHANGED <<contextVars, heard>>

Receive(p, m) ==
    \/ ReceiveQuery(p, m)
    \/ ReceiveError(p, m)
    \/ ReceivePlain(p, m)
    \/ ReceiveCommit(p, m)
    \/ ReceiveKey(p, m)
    \/ ReceiveClosing(p, m)
    \/ ReceiveBadClosing(p, m)
    \/ ReceiveUnknown(p, m)
    \/ ReceiveData(p, m)
    \/ ReceiveBye(p, m)
    \/ ReceiveUnreadable(p, m)

RunRecv(p) ==
    /\ NextTick(p, "recv")
    /\ Receive(p, Head(ticks[p]).msg)

-----------------------------------------------------------------------------

RunTick(p) == RunStart(p) \/ RunSend(p) \/ RunEnd(p) \/ RunRecv(p) \/ TickCorrupts(p)

Next == \E p \in Parties :
    \/ Start(p) \/ Send(p) \/ End(p)
    \/ Deliver(p) \/ Lose(p) \/ Restart(p)
    \/ RunTick(p) \/ Poll(p)

Spec == Init /\ [][Next]_vars

\* Node runs what is queued, and the network delivers what it does not lose.
FairSpec == Spec /\ \A p \in Parties : WF_vars(RunTick(p)) /\ WF_vars(Deliver(p))

-----------------------------------------------------------------------------
(* Correctness. *)

\* What the two conversations promise, with everything else hidden.
Texts(p) == {ticks[p][k].text : k \in {j \in DOMAIN ticks[p] : ticks[p][j].op = "send"}}

Arriving(p) ==
    {net[p][k] : k \in DOMAIN net[p]}
      \cup {ticks[p][k].msg : k \in {j \in DOMAIN ticks[p] : ticks[p][j].op = "recv"}}

Sealed(p) ==
    {[key |-> m.key, text |-> m.text] :
       m \in {n \in Arriving(p) : n.type \in {"data", "bye"}}}

Channel == INSTANCE PrivateChannel
             WITH view <- msgstate,
                  out <- [p \in Parties |-> Texts(p)],
                  air <- [p \in Parties |-> Sealed(p)]

\* The parties agree on a key before either uses it, texts are read in order,
\* once, under the key they were sent under, and a conversation is finished
\* by the party at its other end: whatever exchanges cross, messages get lost
\* and processes start again.
IsPrivateChannel == Channel!Spec

\* With nothing lost, nobody gone and every start() made in peace, when all is
\* quiet either both conversations are private with one key or none is, whatever
\* is said while a key is replaced: the texts that arrive under the wrong one,
\* the errors that answer them and the exchanges these set off.
AgreeWhenQuiet ==
    Quiet /\ used.intact =>
      \/ Together
      \/ \A p \in Parties : msgstate[p] # "ENCRYPTED"

\* A start() made in peace makes both conversations private with a new key,
\* whatever went before: stale commitments, exchanges that stalled, a
\* conversation ended on one side only, a restart.
StartConnects ==
    peace.call = "start" ~> \/ Together /\ key # peace.keys
                            \/ peace.call # "start"
                            \/ \E p \in Parties : proc[p] = "corrupt"

\* An end() made in peace leaves nobody private.
EndTells ==
    peace.call = "end" ~> \/ \A p \in Parties : msgstate[p] # "ENCRYPTED"
                          \/ peace.call # "end"

=============================================================================
