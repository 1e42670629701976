----------------------------- MODULE OtrSession -----------------------------
(***************************************************************************)
(* The Session objects that one account has open on one contact:           *)
(* lib/Session.js and lib/bindings/message.js, on top of the libotr        *)
(* contexts they drive.                                                    *)
(*                                                                         *)
(* Every Session method that talks to libotr only queues a closure with    *)
(* process.nextTick; the closures ("ticks") run later, one at a time and   *)
(* in the order they were queued.  A tick calls libotr, which calls the    *)
(* session back (the events of lib/Session.js:44-206) and reports, through *)
(* contextp, the context it used; the binding stores that pointer in       *)
(* session.context.  Contexts belong to the user, not to the session: all  *)
(* sessions with the contact share them.  There is one master context and  *)
(* one child context per instance (client) of the contact.                 *)
(*                                                                         *)
(* libotr itself is external: the operators marked so say what the calls   *)
(* made here do to the state this code can observe.  Instance-tagged       *)
(* (version 3) conversations only, so the master context stays plaintext.  *)
(***************************************************************************)
EXTENDS Naturals, Sequences

CONSTANTS
    Sessions,   \* Session objects (Contact.openSession)
    Instances,  \* instance tags of the contact's clients
    Policies,   \* Policies[s]: what the policy parameter of session s may be
    Wire,       \* what the network may hand to recv()
    MASTER,     \* the master context of the contact
    NULL,       \* the null pointer
    FREED,      \* a pointer to a context libotr has freed
    BEST,       \* OTRL_INSTAG_BEST, the default instag of send()
    MaxTicks    \* bound on the number of queued ticks

Contexts == Instances \cup {MASTER}

Flags == {"ALLOW", "REQUIRE_ENCRYPTION", "SEND_WHITESPACE_TAG",
          "WHITESPACE_START_AKE", "ERROR_START_AKE"}

\* What can be passed to recv().  "fragment" is a fragment that does not yet
\* complete a message, "stray" a message for another client of this account,
\* "bye" the message libotr sends to end a conversation.
Incoming == [type : {"query", "plain", "tagged", "error", "stray"}, from : {MASTER}]
              \cup [type : {"fragment", "dhcommit", "dhkey", "revealsig",
                            "sig", "data", "bye"}, from : Instances]

ASSUME ConstantsAssumption ==
    /\ Policies \in [Sessions -> SUBSET SUBSET Flags]
    /\ Wire \subseteq Incoming
    /\ MASTER \notin Instances
    /\ BEST \notin Contexts
    /\ NULL \notin Contexts /\ FREED \notin Contexts /\ NULL # FREED
    /\ MaxTicks \in Nat

VARIABLES
    ticks,     \* the nextTick queue
    status,    \* status[s]: "new", "open" or "destroyed"
    policy,    \* policy[s]: the flags set in the policy parameter of s
    timer,     \* timer[s]: message_poll_interval is armed
    ptr,       \* ptr[s]: session.context._pointer
    known,     \* the instances libotr has a child context for
    heard,     \* the master context has received a message
    msgstate,  \* msgstate[c] of every context
    auth,      \* auth[c]: what the key exchange of c waits for
    offer,     \* offer[c]: otr_offer, as far as whitespace tags go
    held,      \* held[c]: text kept until the conversation is encrypted
    proc,      \* the JavaScript process: "running", "crashed" or "corrupt"
    emitted    \* the events the last step emitted, in order

contextVars == <<known, heard, msgstate, auth, offer, held>>
sessionVars == <<status, policy, timer, ptr>>
vars == <<ticks, status, policy, timer, ptr, known, heard, msgstate, auth, offer, held,
          proc, emitted>>

\* What the application hands to send().  "private" is text it sends because
\* isEncrypted() has just told it the conversation is private, see Send.
Body == {"query", "open", "private"}

\* The texts a queue or a context can hold.  History, for the properties: a
\* private text queued while an end() was queued already is "behind" it, and
\* "exposed" once that end() has put the conversation it was for back to
\* plaintext.  The code treats them all alike.
Text == {"open", "private", "behind", "exposed"}

Tick == [op : {"send"}, ses : Sessions, instag : Instances \cup {BEST},
         body : Text \cup {"query"}]
          \cup [op : {"recv"}, ses : Sessions, msg : Incoming]
          \cup [op : {"end"}, ses : Sessions]

MsgState == {"PLAINTEXT", "ENCRYPTED", "FINISHED"}

\* An event, with the application text it carries in clear, or how a delivered
\* text came ("clear", "decrypted"), and what session.context.msgstate() tells
\* the listener while it runs.
Event == [ses : Sessions,
          ev : {"inject_message", "message", "gone_secure", "still_secure",
                "msg_event", "disconnect", "plaintext"},
          text : Text \cup {"none", "clear", "decrypted"},
          state : MsgState \cup {"garbage"}]

TypeOK ==
    /\ ticks \in Seq(Tick)
    /\ status \in [Sessions -> {"new", "open", "destroyed"}]
    /\ policy \in [Sessions -> SUBSET Flags]
    /\ timer \in [Sessions -> BOOLEAN]
    /\ ptr \in [Sessions -> Contexts \cup {NULL, FREED}]
    /\ known \in SUBSET Instances
    /\ heard \in BOOLEAN
    /\ msgstate \in [Contexts -> MsgState]
    /\ auth \in [Contexts -> {"NONE", "DHKEY", "REVEALSIG", "SIG"}]
    /\ offer \in [Contexts -> {"OTHER", "SENT", "REJECTED"}]
    /\ held \in [Contexts -> Text \cup {"none"}]
    /\ proc \in {"running", "crashed", "corrupt"}
    /\ emitted \in Seq(Event)

Init ==
    /\ ticks = <<>>
    /\ status = [s \in Sessions |-> "new"]
    /\ policy = [s \in Sessions |-> {}]
    /\ timer = [s \in Sessions |-> FALSE]
    /\ ptr = [s \in Sessions |-> MASTER]
    /\ known = {}
    /\ heard = FALSE
    /\ msgstate = [c \in Contexts |-> "PLAINTEXT"]
    /\ auth = [c \in Contexts |-> "NONE"]
    /\ offer = [c \in Contexts |-> "OTHER"]
    /\ held = [c \in Contexts |-> "none"]
    /\ proc = "running"
    /\ emitted = <<>>

-----------------------------------------------------------------------------
(* What a session can read of its context. *)

\* msgstate() of a context pointer.  Through the null pointer it reads a
\* constant of the static data that is none of the three states.
StateAt(p, states) == IF p \in Contexts THEN states[p] ELSE "garbage"

IsEncrypted(s) == status[s] = "open" /\ StateAt(ptr[s], msgstate) = "ENCRYPTED"

EndPending == \E k \in DOMAIN ticks : ticks[k].op = "end"

-----------------------------------------------------------------------------
(* The Session and Contact methods the application calls. *)

\* Mutated: the closure overtakes those already queued.
EnqueueFirst(t) ==
    /\ proc = "running"
    /\ Len(ticks) < MaxTicks
    /\ ticks' = <<t>> \o ticks
    /\ emitted' = <<>>
    /\ UNCHANGED <<sessionVars, contextVars, proc>>

\* nextTick(): one of these methods has queued its closure.
Enqueue(t) ==
    /\ proc = "running"
    /\ Len(ticks) < MaxTicks
    /\ ticks' = Append(ticks, t)
    /\ emitted' = <<>>
    /\ UNCHANGED <<sessionVars, contextVars, proc>>

\* new Session(parameters): find or add the master context, arm the poll
\* timer.
Open(s) ==
    /\ proc = "running"
    /\ status[s] = "new"
    /\ status' = [status EXCEPT ![s] = "open"]
    /\ \E flags \in Policies[s] : policy' = [policy EXCEPT ![s] = flags]
    /\ timer' = [timer EXCEPT ![s] = TRUE]
    /\ ptr' = [ptr EXCEPT ![s] = MASTER]
    /\ emitted' = <<>>
    /\ UNCHANGED <<ticks, contextVars, proc>>

\* send(message, instag).  The application takes a text for private when
\* isEncrypted() is true at the call and the text goes to the instance that
\* answer is about or to the best one.  An end() that is queued, of this
\* session or another, changes neither that answer nor what send() does.
Send(s, instag, body) ==
    /\ status[s] # "new"
    /\ body = "private" => IsEncrypted(s) /\ instag \in {BEST, ptr[s]}
    /\ LET text == IF body = "private" /\ EndPending THEN "behind" ELSE body IN
         Enqueue([op |-> "send", ses |-> s, instag |-> instag, body |-> text])

Start(s) == Send(s, BEST, "query")

Recv(s, m) ==
    /\ status[s] # "new"
    /\ Enqueue([op |-> "recv", ses |-> s, msg |-> m])

\* Mutated: end() calls libotr at once, not in a tick.
EndAtOnce(s) ==
    /\ proc = "running"
    /\ status[s] = "open"
    /\ ptr[s] \in Contexts
    /\ msgstate' = [msgstate EXCEPT ![ptr[s]] = "PLAINTEXT"]
    /\ timer' = [timer EXCEPT ![s] = FALSE]
    /\ emitted' = <<>>
    /\ UNCHANGED <<ticks, status, policy, ptr, known, heard, auth, offer, held, proc>>

End(s) ==
    /\ status[s] # "new"
    /\ Enqueue([op |-> "end", ses |-> s])

\* destroy() is synchronous; the ticks already queued stay queued.
Destroy(s) ==
    /\ proc = "running"
    /\ status[s] = "open"
    /\ status' = [status EXCEPT ![s] = "destroyed"]
    /\ timer' = [timer EXCEPT ![s] = FALSE]
    /\ emitted' = <<>>
    /\ UNCHANGED <<ticks, policy, ptr, contextVars, proc>>

\* Contact.delete() is synchronous too.  libotr refuses while a context of
\* the contact is not plaintext; otherwise every one of them is freed, and
\* the sessions that point to one are not told.
DeleteContact ==
    /\ proc = "running"
    /\ \A c \in Contexts : msgstate[c] = "PLAINTEXT"
    /\ known' = {}
    /\ heard' = FALSE
    /\ auth' = [c \in Contexts |-> "NONE"]
    /\ offer' = [c \in Contexts |-> "OTHER"]
    /\ held' = [c \in Contexts |-> "none"]
    /\ ptr' = [s \in Sessions |->
                 IF ptr[s] \in Contexts /\ status[s] = "open" THEN FREED ELSE ptr[s]]
    /\ emitted' = <<>>
    /\ UNCHANGED <<ticks, status, policy, timer, msgstate, proc>>

-----------------------------------------------------------------------------
(* Running a tick: the callbacks, and the ways a tick can fail. *)

\* Mutated: session.context is left alone.
UsedNever(s, c) == UNCHANGED ptr

\* Mutated: a null context does not replace the one the session has.
UsedUnlessNull(s, c) == ptr' = IF c = NULL THEN ptr ELSE [ptr EXCEPT ![s] = c]

\* Mutated: the address of the result is taken for the result.
UsedAddress(s, c) == ptr' = [ptr EXCEPT ![s] = <<c>>]

\* Once a libotr call has returned, session.context is the context it used.
Used(s, c) == ptr' = [ptr EXCEPT ![s] = c]

\* An event emitted from inside a libotr call: session.context is not updated
\* before the call returns.
Event_(s, ev, text) ==
    [ses |-> s, ev |-> ev, text |-> text, state |-> StateAt(ptr[s], msgstate')]

\* An event emitted after the binding has updated session.context.
EventAfter(s, ev, text) ==
    [ses |-> s, ev |-> ev, text |-> text, state |-> StateAt(ptr'[s], msgstate')]

Inject(s, text) == Event_(s, "inject_message", text)

\* Emit evs in order.  A listener may call destroy(): the listeners are gone
\* for the rest of the tick, and using session.context after that throws,
\* which ends the process unless something catches it.
Emit(s, evs) ==
    \/ /\ emitted' = evs
       /\ UNCHANGED <<status, proc>>
    \/ \E k \in DOMAIN evs :
         /\ emitted' = SubSeq(evs, 1, k)
         /\ status' = [status EXCEPT ![s] = "destroyed"]
         /\ proc' \in {"running", "crashed"}

Due(op) ==
    /\ proc = "running"
    /\ ticks # <<>>
    /\ Head(ticks).op = op

NextTick(op) == Due(op) /\ ticks' = Tail(ticks)

\* The closure can read the account and contact names through its context.
Usable(s) == status[s] = "open" /\ ptr[s] # NULL

\* A tick of a destroyed session: session.ops and session.context are gone.
TickThrows ==
    /\ proc = "running"
    /\ ticks # <<>>
    /\ status[Head(ticks).ses] = "destroyed"
    /\ ticks' = Tail(ticks)
    /\ emitted' = <<>>
    /\ proc' \in {"running", "crashed"}
    /\ UNCHANGED <<sessionVars, contextVars>>

\* A tick that reads the names through a null or freed context.  From the
\* null pointer the compiled code scans the whole address space for a string
\* and overruns the heap with it; freed memory may still hold the names.
TickCorrupts ==
    /\ proc = "running"
    /\ ticks # <<>>
    /\ status[Head(ticks).ses] = "open"
    /\ ptr[Head(ticks).ses] \in {NULL, FREED}
    /\ ticks' = Tail(ticks)
    /\ emitted' = <<>>
    /\ proc' = "corrupt"
    /\ UNCHANGED <<sessionVars, contextVars>>

-----------------------------------------------------------------------------
(* messageSending. *)

\* Mutated: the policy callback answers the default whatever the parameters.
HasByDefault(s, flag) == flag # "REQUIRE_ENCRYPTION"

\* The policy callback: the parameter of the session, else the default.
Has(s, flag) == flag \in policy[s]

Rank == [PLAINTEXT |-> 0, FINISHED |-> 1, ENCRYPTED |-> 2]

\* External: the contexts OTRL_INSTAG_BEST can stand for: the most secure,
\* and of those the one that received last, the later in libotr's list when
\* that is the same second.  The master context comes first in the list.
Candidates == IF known = {} \/ heard THEN known \cup {MASTER} ELSE known

Best == {c \in Candidates :
           \A d \in Candidates : Rank[msgstate[d]] <= Rank[msgstate[c]]}

\* instag || 1: no instag given means the best context.
Target(instag) == IF instag = BEST THEN Best ELSE {instag}

\* External: otrl_message_sending on context c.  When it leaves no message
\* to send, nothing is injected.
MessageSending(s, c, body) ==
    \/ /\ \/ ~Has(s, "ALLOW")
          \/ /\ body # "query"
             /\ msgstate[c] = "PLAINTEXT"
             /\ ~Has(s, "REQUIRE_ENCRYPTION")
             /\ ~Has(s, "SEND_WHITESPACE_TAG") \/ offer[c] = "REJECTED"
       /\ Emit(s, <<>>)
       /\ UNCHANGED <<offer, held>>
    \/ /\ Has(s, "ALLOW") /\ body = "query"
       /\ offer' = [offer EXCEPT ![c] = "SENT"]
       /\ Emit(s, <<Inject(s, "none")>>)
       /\ UNCHANGED held
    \/ /\ Has(s, "ALLOW") /\ body # "query" /\ msgstate[c] = "ENCRYPTED"
       /\ held' = [held EXCEPT ![c] = "none"]
       /\ Emit(s, <<Inject(s, "none")>>)
       /\ UNCHANGED offer
    \/ /\ Has(s, "ALLOW") /\ body # "query" /\ msgstate[c] = "FINISHED"
       /\ Emit(s, <<Event_(s, "msg_event", "none"), Inject(s, "none")>>)
       /\ UNCHANGED <<offer, held>>
    \/ /\ Has(s, "ALLOW") /\ body # "query" /\ msgstate[c] = "PLAINTEXT"
       /\ Has(s, "REQUIRE_ENCRYPTION")
       /\ held' = [held EXCEPT ![c] = body]
       /\ offer' = [offer EXCEPT ![c] = "SENT"]
       /\ Emit(s, <<Event_(s, "msg_event", "none"), Inject(s, "none")>>)
    \/ /\ Has(s, "ALLOW") /\ body # "query" /\ msgstate[c] = "PLAINTEXT"
       /\ ~Has(s, "REQUIRE_ENCRYPTION")
       /\ Has(s, "SEND_WHITESPACE_TAG") /\ offer[c] # "REJECTED"
       /\ offer' = [offer EXCEPT ![c] = "SENT"]
       /\ Emit(s, <<Inject(s, body)>>)
       /\ UNCHANGED held

\* The closure of send(): frag_policy is always SEND_ALL, so libotr injects
\* what there is to send and messageSending never returns anything.
RunSend ==
    /\ NextTick("send")
    /\ LET s == Head(ticks).ses IN
         /\ Usable(s)
         /\ UNCHANGED <<policy, heard, msgstate, auth>>
         /\ \E c \in Target(Head(ticks).instag) :
              /\ known' = known \cup ({c} \cap Instances)
              /\ Used(s, c)
              /\ MessageSending(s, c, Head(ticks).body)
         /\ timer' = [timer EXCEPT ![s] = @ /\ status'[s] = "open"]

-----------------------------------------------------------------------------
(* messageReceiving. *)

\* External: with whitespace tags allowed, libotr notes on the master context
\* whether the contact answers in OTR or in plain text.
Offered(s, m) ==
    IF ~Has(s, "SEND_WHITESPACE_TAG") THEN offer
    ELSE [offer EXCEPT ![MASTER] = IF m.type # "plain" THEN "OTHER"
                                   ELSE IF @ = "SENT" THEN "REJECTED" ELSE @]

\* External: text kept on the master context moves to a new child context.
HeldBy(i) ==
    IF i \in known THEN held
    ELSE [held EXCEPT ![i] = held[MASTER], ![MASTER] = "none"]

\* External: no conversation is possible under the policy, so the text is
\* handed back as it came and contextp is not set.
ReceiveNever(s, m) ==
    /\ ~Has(s, "ALLOW")
    /\ Used(s, NULL)
    /\ UNCHANGED contextVars
    /\ Emit(s, <<EventAfter(s, "message", "clear")>>)

\* External: an incomplete fragment and a message for another client are
\* ignored before contextp is set.
ReceiveIgnored(s, m) ==
    /\ m.type \in {"fragment", "stray"}
    /\ known' = known \cup ({m.from} \cap Instances)
    /\ offer' = IF m.type = "stray" THEN Offered(s, m) ELSE offer
    /\ Used(s, NULL)
    /\ UNCHANGED <<msgstate, auth, held>>
    /\ Emit(s, IF m.type = "stray" THEN <<Event_(s, "msg_event", "none")>> ELSE <<>>)

\* External: so is a message other than a key exchange opening from an
\* instance that has no context yet; the context is created all the same.
ReceiveUnknown(s, m) ==
    /\ m.type \in {"revealsig", "sig", "data", "bye"}
    /\ m.from \notin known
    /\ known' = known \cup {m.from}
    /\ offer' = Offered(s, m)
    /\ held' = HeldBy(m.from)
    /\ Used(s, NULL)
    /\ UNCHANGED <<msgstate, auth>>
    /\ Emit(s, <<>>)

\* External: a query starts a key exchange on the master context.
ReceiveQuery(s, m) ==
    /\ m.type = "query"
    /\ auth' = [auth EXCEPT ![MASTER] = "DHKEY"]
    /\ offer' = Offered(s, m)
    /\ Used(s, MASTER)
    /\ UNCHANGED <<known, msgstate, held>>
    /\ Emit(s, <<Inject(s, "none")>>)

\* External: an OTR error message.
ReceiveError(s, m) ==
    /\ m.type = "error"
    /\ offer' = Offered(s, m)
    /\ Used(s, MASTER)
    /\ UNCHANGED <<known, msgstate, auth, held>>
    /\ Emit(s, IF Has(s, "ERROR_START_AKE")
               THEN <<Inject(s, "none"), Event_(s, "msg_event", "none")>>
               ELSE <<Event_(s, "msg_event", "none")>>)

\* External: unencrypted text, possibly tagged.  It is delivered only while
\* no context of the contact is secure and encryption is not required.
ReceiveText(s, m) ==
    /\ m.type \in {"plain", "tagged"}
    /\ offer' = Offered(s, m)
    /\ Used(s, MASTER)
    /\ UNCHANGED <<known, msgstate, held>>
    /\ LET starts == m.type = "tagged" /\ Has(s, "WHITESPACE_START_AKE")
           refused == \/ \E i \in known : msgstate[i] # "PLAINTEXT"
                      \/ Has(s, "REQUIRE_ENCRYPTION")
       IN /\ auth' = IF starts THEN [auth EXCEPT ![MASTER] = "DHKEY"] ELSE auth
          /\ Emit(s, (IF starts THEN <<Inject(s, "none")>> ELSE <<>>)
                       \o (IF refused THEN <<Event_(s, "msg_event", "none")>>
                                      ELSE <<EventAfter(s, "message", "clear")>>))

\* External: the opening messages of a key exchange.  A D-H key answers the
\* commitment of the master context, or repeats the one already answered.
ReceiveOpening(s, m) ==
    /\ m.type \in {"dhcommit", "dhkey"}
    /\ known' = known \cup {m.from}
    /\ held' = HeldBy(m.from)
    /\ offer' = Offered(s, m)
    /\ Used(s, m.from)
    /\ UNCHANGED msgstate
    /\ \/ /\ m.type = "dhcommit"
          /\ auth' = [auth EXCEPT ![m.from] = "REVEALSIG"]
          /\ Emit(s, <<Inject(s, "none")>>)
       \/ /\ m.type = "dhkey"
          /\ auth[MASTER] = "DHKEY" \/ auth[m.from] = "SIG"
          /\ auth' = [auth EXCEPT ![m.from] = "SIG"]
          /\ Emit(s, <<Inject(s, "none")>>)
       \/ /\ m.type = "dhkey"
          /\ auth[MASTER] # "DHKEY"
          /\ UNCHANGED auth
          /\ Emit(s, <<>>)

\* External: a closing message of a key exchange that is not awaited, or
\* that does not verify.
ReceiveBadClosing(s, m) ==
    /\ m.type \in {"revealsig", "sig"}
    /\ m.from \in known
    /\ offer' = Offered(s, m)
    /\ Used(s, m.from)
    /\ UNCHANGED <<known, msgstate, auth, held>>
    /\ \/ /\ auth[m.from] = IF m.type = "sig" THEN "SIG" ELSE "REVEALSIG"
          /\ Emit(s, <<Event_(s, "msg_event", "none")>>)
       \/ /\ auth[m.from] # IF m.type = "sig" THEN "SIG" ELSE "REVEALSIG"
          /\ Emit(s, <<>>)

\* External: one that completes the exchange.  Text that was held is sent,
\* encrypted, unless it has been held for more than a minute.
ReceiveClosing(s, m) ==
    /\ m.type \in {"revealsig", "sig"}
    /\ m.from \in known
    /\ auth[m.from] = IF m.type = "sig" THEN "SIG" ELSE "REVEALSIG"
    /\ auth' = [auth EXCEPT ![m.from] = "NONE"]
    /\ msgstate' = [msgstate EXCEPT ![m.from] = "ENCRYPTED"]
    /\ offer' = Offered(s, m)
    /\ Used(s, m.from)
    /\ UNCHANGED known
    /\ \E again \in {held[m.from] # "none", FALSE} :
         /\ held' = IF again THEN [held EXCEPT ![m.from] = "none"] ELSE held
         /\ \E ev \in {"gone_secure"} \cup
                        (IF msgstate[m.from] = "ENCRYPTED" THEN {"still_secure"} ELSE {}) :
              Emit(s, <<Event_(s, ev, "none")>>
                        \o (IF m.type = "revealsig" THEN <<Inject(s, "none")>> ELSE <<>>)
                        \o (IF again THEN <<Inject(s, "none")>> ELSE <<>>))

\* External: data in a conversation that is not private, or that does not
\* decrypt.  Both are answered with an event, the second also on the wire.
ReceiveUnreadable(s, m) ==
    /\ m.type \in {"data", "bye"}
    /\ m.from \in known
    /\ offer' = Offered(s, m)
    /\ Used(s, m.from)
    /\ UNCHANGED <<known, msgstate, auth, held>>
    /\ Emit(s, IF m.type = "bye" THEN <<>>
               ELSE <<Event_(s, "msg_event", "none")>>
                      \o (IF msgstate[m.from] = "ENCRYPTED" THEN <<Inject(s, "none")>>
                                                            ELSE <<>>))

\* Data that decrypts is delivered with isEncrypted() as it is then.
ReceiveData(s, m) ==
    /\ m.type = "data"
    /\ m.from \in known
    /\ msgstate[m.from] = "ENCRYPTED"
    /\ offer' = Offered(s, m)
    /\ Used(s, m.from)
    /\ UNCHANGED <<known, msgstate, auth, held>>
    /\ Emit(s, <<EventAfter(s, "message", "decrypted")>>)

\* Mutated: "disconnect" is reported before session.context is updated.
ReceiveByeEarly(s, m) ==
    /\ m.type = "bye"
    /\ m.from \in known
    /\ msgstate[m.from] = "ENCRYPTED"
    /\ msgstate' = [msgstate EXCEPT ![m.from] = "FINISHED"]
    /\ auth' = [auth EXCEPT ![m.from] = "NONE"]
    /\ held' = [held EXCEPT ![m.from] = "none"]
    /\ offer' = Offered(s, m)
    /\ Used(s, m.from)
    /\ UNCHANGED known
    /\ Emit(s, <<Event_(s, "msg_event", "none"), Event_(s, "disconnect", "none")>>)

\* The end of the conversation: libotr finishes the context, and the binding
\* finds the DISCONNECTED record and reports it.
ReceiveBye(s, m) ==
    /\ m.type = "bye"
    /\ m.from \in known
    /\ msgstate[m.from] = "ENCRYPTED"
    /\ msgstate' = [msgstate EXCEPT ![m.from] = "FINISHED"]
    /\ auth' = [auth EXCEPT ![m.from] = "NONE"]
    /\ held' = [held EXCEPT ![m.from] = "none"]
    /\ offer' = Offered(s, m)
    /\ Used(s, m.from)
    /\ UNCHANGED known
    /\ Emit(s, <<Event_(s, "msg_event", "none"), EventAfter(s, "disconnect", "none")>>)

MessageReceiving(s, m) ==
    \/ ReceiveNever(s, m)
    \/ /\ Has(s, "ALLOW")
       /\ \/ ReceiveIgnored(s, m)
          \/ ReceiveUnknown(s, m)
          \/ ReceiveQuery(s, m)
          \/ ReceiveError(s, m)
          \/ ReceiveText(s, m)
          \/ ReceiveOpening(s, m)
          \/ ReceiveBadClosing(s, m)
          \/ ReceiveClosing(s, m)
          \/ ReceiveUnreadable(s, m)
          \/ ReceiveData(s, m)
          \/ ReceiveBye(s, m)

\* The closure of recv().
RunRecv ==
    /\ NextTick("recv")
    /\ LET s == Head(ticks).ses IN
         /\ Usable(s)
         /\ MessageReceiving(s, Head(ticks).msg)
         /\ UNCHANGED policy
         /\ heard' = (heard \/ ptr'[s] = MASTER)
         /\ timer' = [timer EXCEPT ![s] = @ /\ status'[s] = "open"]

-----------------------------------------------------------------------------
(* end() and the poll timer. *)

\* Ending c puts the conversation the text of t is for back to plaintext: c
\* is that conversation, or the last that was not.
PutBack(c, t) ==
    /\ c \in Contexts
    /\ msgstate[c] # "PLAINTEXT"
    /\ IF t.instag = BEST THEN \A i \in known \ {c} : msgstate[i] = "PLAINTEXT"
                          ELSE t.instag = c

\* A queued tick once end() has run on c, with its history brought up to date.
AfterEnd(c, t) ==
    IF t.op = "send" /\ t.body = "behind" /\ PutBack(c, t)
    THEN [t EXCEPT !.body = "exposed"] ELSE t

\* The closure of end(): stop the poll timer for good, have libotr end the
\* conversation of the context the session points to, whatever other contexts
\* of the contact are doing, and report "plaintext" in any case.
RunEnd ==
    /\ Due("end")
    /\ LET s == Head(ticks).ses
           c == ptr[s]
       IN /\ Usable(s)
          /\ ticks' = [k \in 1 .. Len(ticks) - 1 |-> AfterEnd(c, ticks[k + 1])]
          /\ timer' = [timer EXCEPT ![s] = FALSE]
          /\ UNCHANGED <<policy, ptr, known, heard, offer>>
          /\ \/ /\ c \in Contexts
                /\ msgstate' = [msgstate EXCEPT ![c] = "PLAINTEXT"]
                /\ auth' = [auth EXCEPT ![c] = "NONE"]
                /\ held' = [held EXCEPT ![c] = "none"]
                /\ \E online \in BOOLEAN :
                     Emit(s, (IF msgstate[c] = "ENCRYPTED" /\ online
                              THEN <<Inject(s, "none")>> ELSE <<>>)
                             \o <<Event_(s, "plaintext", "none")>>)
             \/ /\ c = FREED
                /\ UNCHANGED <<msgstate, auth, held>>
                /\ Emit(s, <<Event_(s, "plaintext", "none")>>)

\* The interval callback: libotr gives up a commitment that has waited for
\* its answer for more than a minute.  Elapsed time is not modelled.
Poll(s) ==
    /\ proc = "running"
    /\ timer[s]
    /\ auth[MASTER] = "DHKEY"
    /\ auth' = [auth EXCEPT ![MASTER] = "NONE"]
    /\ emitted' = <<>>
    /\ UNCHANGED <<ticks, sessionVars, known, heard, msgstate, offer, held, proc>>

-----------------------------------------------------------------------------

Application(s) ==
    \/ Open(s)
    \/ \E instag \in Instances \cup {BEST}, body \in Body : Send(s, instag, body)
    \/ \E m \in Wire : Recv(s, m)
    \/ End(s)
    \/ Destroy(s)

EventLoop ==
    \/ RunSend
    \/ RunRecv
    \/ RunEnd
    \/ TickThrows
    \/ TickCorrupts

Next ==
    \/ \E s \in Sessions : Application(s) \/ Poll(s)
    \/ DeleteContact
    \/ EventLoop

Spec == Init /\ [][Next]_vars

-----------------------------------------------------------------------------
(* Safety. *)

\* Text that was handed to send() because isEncrypted() said so goes out in
\* clear in one case only: an end() queued before it, by this session or by
\* another, has put the conversation it was for back to plaintext in between
\* (Session.js:278; the text is then "exposed").  Nothing else that runs
\* between the call and its tick lets it out: an end() queued after it, the
\* contact ending the conversation, a plain message or a query that moves
\* session.context to the master context, another instance.
NoLeak ==
    \A k \in DOMAIN emitted :
      emitted[k].ev = "inject_message" => emitted[k].text \notin {"private", "behind"}

\* A "message" event says private exactly when its text was decrypted, though
\* the flag is read from session.context after the call that received it.
PrivacyFlag ==
    \A k \in DOMAIN emitted :
      emitted[k].ev = "message" =>
        (emitted[k].state = "ENCRYPTED" <=> emitted[k].text = "decrypted")

\* "disconnect" is reported with the session in the Finished state.
DisconnectMeansFinished ==
    \A k \in DOMAIN emitted :
      emitted[k].ev = "disconnect" => emitted[k].state = "FINISHED"

\* When the tick in which the conversation became private is over, the
\* session says so.
GoneSecureSettles ==
    \A k \in DOMAIN emitted :
      /\ emitted[k].ev = "gone_secure"
      /\ status[emitted[k].ses] = "open"
      => IsEncrypted(emitted[k].ses)

\* A session that requires encryption injects no application text in clear,
\* the text it was given before the conversation was private included.
EncryptionRequired ==
    \A k \in DOMAIN emitted :
      /\ emitted[k].ev = "inject_message"
      /\ "REQUIRE_ENCRYPTION" \in policy[emitted[k].ses]
      => emitted[k].text = "none"

-----------------------------------------------------------------------------
(* What the documentation says of a session, and the code does not keep.    *)

\* "update the channel with the active context used" (message.js:113): a
\* session in use always has a context to point to.  An incomplete fragment
\* leaves it with the null pointer, and the next tick reads through it.
ContextKept == \A s \in Sessions : status[s] = "open" => ptr[s] # NULL

\* "Ends an OTR conversation and returns to plaintext" (Session.js:269): with
\* "plaintext" reported, the only session with the contact has none left.
EndReachesPlaintext ==
    \A k \in DOMAIN emitted :
      emitted[k].ev = "plaintext" => \A i \in Instances : msgstate[i] # "ENCRYPTED"

=============================================================================
