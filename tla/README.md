# A TLA+ verification of otr4-em

otr4-em wraps libotr 4.1.1, compiled to JavaScript with emscripten, in a JavaScript API for
Off-the-Record messaging. This directory holds TLA+ models of the part of it that is its own: the
objects of `lib/`, their bindings in `lib/bindings/`, the C glue in `src/jsapi.c`, the callbacks
in `src/library_otr.js`, and the big-number arithmetic of `lib/bigint.js` that replaces
libgcrypt's. TLC checks them on small instances; TLAPS proves some of the results for every
instance. Paths are relative to the root of the repository.

## The system

| part | source | state it keeps | operations | what makes it correct |
| --- | --- | --- | --- | --- |
| Session | `lib/Session.js`, `lib/bindings/message.js` | `context` (a pointer to a libotr context), `ops`, the poll timer, closures queued with `nextTick` | `start`, `send`, `recv`, `end`, `destroy`, getters, events | private text never leaves in clear; flags and events say what is true when they are read |
| SMP authentication | the `smp*` methods, `handle_smp_event` in `src/library_otr.js`, `can_start_smp` in `src/jsapi.c` | the SMP state of a context, queued closures | start, respond, abort | each side learns how its run ended; runs end; "complete" is not premature |
| Contexts, contacts | `lib/Contact.js`, `lib/bindings/context.js` | one master context and one child per client of the contact, shared by all sessions | `openSession`, `delete`, `fingerprints` | no session uses a context that is gone; both ends agree on the state of a conversation |
| Keys | `lib/User.js`, `lib/Account.js`, `lib/bindings/userstate.js`, `privkey.js`, `src/jsapi.c` | a linked list of keys in memory, the virtual file, the real file, a string | generate, import, delete, load, save | the places agree; accounts do not disturb each other; what was saved comes back |
| Instance tags | the same, `lib/bindings/instag.js` | the list of tags, in memory and in two files | `generateInstag`, `instag`, load, save, `deleteVfsFiles` | the newest tag is found, and survives |
| Virtual files | `lib/bindings/vfs.js` | emscripten's file system | import, export, make, read, delete | one step of several can fail |
| Fingerprints | `lib/bindings/fingerprint.js`, `lib/User.js`, `src/jsapi.c` | a list of fingerprints per contact, with their trust; the virtual file and a copy of it | `trust`, `untrust`, `delete`, write all, write trusted, load, save; a key exchange and an SMP run change them too | trust is earned; what libotr learns reaches the file; what was saved comes back |
| Callbacks | `MessageAppOps` in `message.js`, `src/library_otr.js` | a table from a number to an object | `ops_event` | an event reaches the session that made the call |
| Big numbers | `lib/bigint.js`, `src/library_gcrypt.js` | scratch arrays | `powMod`, `inverseMod`, `mont_`, `divide_` | the results are right |

How they interact. A Session method only queues a closure; the closures ("ticks") run later, one
at a time, in order. A tick calls libotr, which calls back into the session through the callback
table: `inject_message`, `gone_secure`, `msg_event` and so on. The binding then stores the context
libotr reports to have used in `session.context`. Contexts belong to the user, not to a session.
Key and tag operations change libotr's user state and rewrite a virtual file in the same call; the
application moves files between the virtual and the real file system.

What is hard. There are no threads, yet the order of ticks matters everywhere: `isEncrypted()` is
asked now and `send()` runs later, behind whatever was queued; an incoming message of any kind
moves `session.context`; two sessions end each other's conversations; `destroy()` and
`Contact.delete()` act at once while ticks are pending; the abort that an SMP error requires is
itself queued. Files are replaced before they are parsed and emptied before they are written. The
arithmetic relies on element widths, array lengths and signs. `PROJECT.json` lists each of these
hazards with its line.

## Modules

| module | models | its variables in the code |
| --- | --- | --- |
| `OtrSession` | the sessions an account has open on one contact, against anything the network may deliver | `ticks`: the `nextTick` queue; `ptr`: `session.context._pointer`; `policy`: the policy parameter; `timer`: `message_poll_interval`; `known`, `heard`, `msgstate`, `auth`, `offer`, `held`: libotr's contexts; `emitted`: the events of the last step; a queued text carries, as history, how `isEncrypted()` and a queued `end()` stood when it was sent (`Text`) |
| `OtrChat` | two users with a session each, the two ends of one conversation, joined by a network | `ticks`, `ptr` as above, of both; `net`: what `inject_message` handed to the transport; `known`, `commit`, `auth`, `msgstate`, `key`: libotr's contexts, with the D-H keys; `held`, `said`, `heard`, `peace` are history, `fresh` and `used` count what is bounded |
| `PrivateChannel` | what a conversation promises, without its messages; `OtrChat` implements it | none |
| `Smp` | SMP between two parties | `ticks`, `net`; `sm`: the SMP state; `asked`: a "request" waits for the user; `mine`, `done`, `lost` are history |
| `KeyStore` | the keys of a user | `mem`: user state; `vfs`, `disk`: the files; `copy`: `keysToString()`; `returned`, `spoiled`, `saved` are history |
| `PrivKeyList` | the same keys as the nodes of libotr's list, changed by the assignments of `jsapi.c`; extends `KeyStore` | `list`: the `next`, `tous` and contents of each node |
| `Instags` | the instance tags of a user | `mem` (a list, as in libotr), `vfs`, `disk`; `given`, `last`, `saved`, `savedBy` are history |
| `Fingerprints` | the fingerprints of the contacts of a user, and their trust | `trust`, `order`: the lists; `active`: `context->active_fingerprint`; `vfs`: the virtual file; `disk`: the application's copy; `keyring`: the keys a contact has; `loose`, `spoiled`, `saved`, `granted`, `strayed` are history |
| `BigInt` | the functions of `bigint.js`, on arrays of elements | none |
| `Gcrypt` | `powm`, `mulpowm` and `invm` of `library_gcrypt.js`, one step per iteration | `reg`: the arrays of the loop; `powers`: what `mulpowm` has collected |
| `OtrSessionProofs`, `OtrChatProofs`, `SmpProofs`, `KeyStoreProofs`, `InstagsProofs`, `FingerprintsProofs`, `GcryptProofs` | theorems | |
| `NumberInduction` | induction over natural numbers, for the proofs | |
| `MC...` | values for the constants | |

One action is one method call, one tick or one iteration. In `OtrSession`, `Open`, `Send`,
`Start`, `Recv`, `End`, `Destroy` and `DeleteContact` are what the application calls; `RunSend`,
`RunRecv` and `RunEnd` are the closures, from the call into libotr to the last event; `TickThrows`
and `TickCorrupts` are closures that fail because the session was destroyed or its context pointer
is null or freed; `Poll` is the interval. A listener may call `destroy()`, in the middle of a tick
too (`Emit`). In `Smp`, `RunInit`, `RunRespond`, `RunAbort` and `RunEnd` are the closures, and each
`Receive...` one SMP event; `Error` queues the abort of `smp_error` at the end of the queue, as the
handler does. In `Fingerprints`, `GoSecure` and `SmpEnds` are what libotr does at the end of a key
exchange and of an SMP run, with the `write_fingerprints` event and the listener that writes the
file, as in `examples/index.js`; the other actions are methods of `User`, `Contact` and
`Fingerprint`. `DeletePrint` and `DeleteContact` free prints under conversations that point to
them (`loose`), and a print that is made later, by `GoSecure` or by reading a file, may take the
freed place, for any contact (`Reuse`): `active` is therefore a pointer to a print of some contact.

`OtrChat` composes two ends. Its `Start`, `Send`, `End`, `RunStart`, `RunSend` and `RunEnd` are
those of `OtrSession` with one session, the default policy and one client, and its `Receive...`
actions say what libotr answers to each message of the other end, so that keys can be compared.
`Deliver` hands what has arrived to `recv()`; `Lose` drops it; `Restart` starts a process again
with empty contexts. `Poll` gives up a commitment when all is quiet: libotr does so after a
minute, longer than anything is on its way.

The refinement. `PrivateChannel` has the state of each end, the keys it used, the texts waiting to
be sent, those on their way and those read. `OtrChat` is mapped to it by

    Channel == INSTANCE PrivateChannel
                 WITH view <- msgstate,
                      out  <- [p \in Parties |-> Texts(p)],
                      air  <- [p \in Parties |-> Sealed(p)]

where `Texts` are the queued texts and `Sealed` the encrypted messages in the network and in the
ticks of `recv()`. `key`, `held`, `said` and `heard` stand for themselves. Commitments, the four
messages of the exchange, queries, errors and pointers are hidden; a step on them is a stutter,
except the two that end an exchange: `Answer` of the party that answered the commitment, then
`Join` of the party that made it, with a key the other one has used. `PrivKeyList` needs no
mapping: it takes each step of `KeyStore` and the assignments on the nodes at once, and
`ListIsStore` says that the list then holds the keys `mem` does.

libotr and libgcrypt are external: the operators marked so say what the calls made here do to the
state this code can observe. They were settled against the generated code in `build/`. Only
conversations with instance tags (protocol version 3) are modelled, so that the master context
stays in plaintext.

Undefined behaviour is a choice. Reading a name through a null or freed context, or responding to
an SMP run that never was, sets `proc` to "corrupt", after which nothing is claimed; a freed
context may also still read as it did (`RunEnd`). A `TypeError` thrown in the event loop ends the
process or does not (`proc` "crashed" or "running").

`BigInt` keeps elements, carries, array lengths and signs, since that is where such code goes
wrong. `c >> bpe` wraps at `2*bpe + 2` bits, which is 32 for the `bpe` of 15. Scratch arrays are
not variables: each is overwritten whole before it is read. Strings of digits are sequences, in
base 2 for the elements of 3 bits, as they are in base 16 for elements of 15.

## Runs

| run | what it shows | bounds |
| --- | --- | --- |
| `session_one` | `NoLeak`, `PrivacyFlag`, `DisconnectMeansFinished`, `GoneSecureSettles` and the types, for one session against every incoming message; the only `end()` is its own | 1 client, 2 queued ticks |
| `session_mixed` | `NoLeak`, `PrivacyFlag` and `EncryptionRequired` for two sessions that share contexts under different policies, and end each other's conversation, texts being queued behind that `end()` | 2 sessions, 1 client, 2 ticks |
| `session_context_kept` | fails: a fragment leaves `session.context` null | as `session_one` |
| `session_end` | fails: `end()` after a plain message leaves the conversation running | as `session_one` |
| `chat_all` | `IsPrivateChannel` (the refinement), `AgreeWhenQuiet`, `StartConnects`, `EndTells` and the types, with losses and restarts | 5 D-H numbers a party, 2 ticks, 2 starts, 3 texts, `end()` calls, losses and restarts together |
| `smp_all` | `CompleteAgrees`, `ToldWhenOver`, `NoStall`, `EveryRunEnds` and the types over a lossy network | 3 calls, 2 secrets |
| `keystore_all` | `InStep`, `OthersKept`, `Recovers`, `ListIsStore` and the types, through failures and restarts | 3 accounts of one name, 2 keys |
| `keystore_delete` | fails: `deleteKey()` after a failed import leaves the key in the file | 2 protocols, 2 keys |
| `instags_all` | `Newest`, `GivenWritten`, `SingleSurvives` and the types | 2 accounts, 4 tags generated, 6 in a list |
| `fingerprints_all` | `TrustEarned`, `InStep`, `ActiveListed`, `Recovers` and the types, the memory of deleted prints being used again | 1 contact with 2 keys, or 2 contacts with the same key |
| `fingerprints_trusted` | fails: `writeTrustedFingerprints()` writes a print nobody trusted | the same |
| `gcrypt_all` | the loop invariants `MontgomeryPrefix` and `Bezout`, the answers (`PowersRight`, `ProductRight`, `InverseRight`) and progress (`Shrinks`) | elements of 3 bits, numbers of up to 4 elements, among them some whose inverse is not reduced |

Why the bounds are enough. Two queued ticks are one between a call and its own tick, which is what
every ordering hazard of a session needs; a third repeats it. One client already has a
conversation the session does not point to (the master context); a second gives `send()` a choice
of targets, and the proofs cover any number of them. In `OtrChat` two starts are two that cross,
or one that fails and one that must put it right; each exchange takes a D-H number of each party,
and nobody ever needs a sixth (with a bound of 6 the states are the same), so that this bound
stops nothing; three events are a loss, a restart or an `end()` around a text,
or three texts in a row. Two keys tell an old from a new one; three accounts of one name are what
is compared, and the least with which cutting a list after a middle node loses one. The run looks
at applications that keep their keys in a file or in a string, not in both (`OneWayToKeep`).
Four tags are two generations by each account, or three by one of them, and a list of six is one
of three that a load puts in front of another. Three SMP calls are two
crossing starts with an answer or an abort; SMP states know one run only. One contact
with two keys has a list whose order matters, two contacts with one key are what might be confused.
Elements of 3 bits give carries, borrows, corrected quotient digits and numbers of several
elements, and the width of the shift is tight there: one bit less and `PowersRight` fails.

`NoLeak` does not say that private text never leaves in clear: that is false. A text sent while an
`end()` is queued is sent like any other, and leaves in clear when the `end()` has put its
conversation back to plaintext (see below). The history in `Text` tells such a text apart from its
being queued ("behind") until that `end()` runs ("exposed"); only an exposed one may leave in clear.

Deadlock is not checked in the runs of `OtrSession`, `OtrChat`, `Smp` and `Gcrypt`: a crashed
process, users who have made all the calls allowed and a call that has returned really stop.

Fairness. `Smp` and `OtrChat` assume that the event loop runs every queued closure (`RunTick`) and
that the network goes on delivering what it has not lost (`Deliver`), as the TCP connection of
`examples/` does: weak fairness of both, for each party. Nothing makes anybody call a method,
nothing makes the network lose anything or stop losing, and the poll need not fire. The liveness
properties state their other premises themselves. `EveryRunEnds`: users answer what they are asked
(`Answered`), and no message was lost. `StartConnects` and `EndTells`: the call was made in peace,
with nothing queued and nothing on its way, and no later call, loss or restart interferes
(`peace`). All other properties are safety properties and assume no fairness. `Shrinks` replaces
the termination of `inverseMod_` by its reason: `u + v` decreases.

## Proofs

`OtrSessionProofs`, for any sessions, clients, policies, incoming messages and queue bound:

- `TypeCorrect`: the types, one lemma per action. What an event can be is proved for the three
  forms of event (`EventTyped`) and carried through `Emit` (`EmitTyped`).
- `NothingLeaks`: `NoLeak`. It is not inductive: that a queued private text will not leave in clear
  depends on what happens before its tick runs. `LeakInv` adds three facts. `OnlyChildrenSecure`:
  the master context is in plaintext. `PrivateReaches`: for every queued text that is private or
  behind an `end()` there is a context it can go to, never back in plaintext. `NoEndBefore`: no
  `end()`, of any session, is queued in front of a private one. A disconnect only moves a context to
  finished, where libotr refuses to send. `end()` is the only way back to plaintext: a private text
  is in front of it in the queue, and one behind it is either exposed when it runs, or has another
  context to go to.
- `PrivateMeansDecrypted` (`PrivacyFlag`), `DisconnectIsFinished`, `SecureWhenSettled`
  (`GoneSecureSettles`) and `RequiredIsEncrypted` (`EncryptionRequired`): what the events of a step
  say. Each step is shown to emit only members of `TrueEvent`, events that are right in the state
  it leads to; a listener that destroys the session in the middle of a tick (`Emit`) takes away the
  later events and the pointer, and adds none.

`OtrChatProofs`, for any bounds:

- `TypeCorrect`: the types. They are inductive with `SaidCounted`: no text is numbered above those
  said, since a step counts what it queues.
- `ChannelImplemented`: `IsPrivateChannel`, the refinement. Each step of `OtrChat` is shown to be
  one of `PrivateChannel` under the mapping, or a stutter, and this needs `Inv`, whose parts are
  there for these reasons. `KeysFit` (each end has its own number in every key, at the place of
  its part in the exchange) and `Shared` (who committed itself takes a key into use after who
  answered has) let `Join` find the key it joins with. `Made` and `Unused` (the number that is
  answered with has been made, and is in no key so far) let `Answer` take a key nobody had.
  `SendsLast`, `TextsOrdered` and `ByesOnce` (no `end()` is queued before a text; what was heard
  comes before what arrives, and that before what waits; a goodbye is sent once under a key) let a
  text leave `out`, reach `air` and be read in the order of the abstract channel, which has no
  queue.
  What a step takes from a line and adds to it is stated once (`Flow`), and each action cites it.
- `AgreementHolds`: `AgreeWhenQuiet`. It is far from inductive: it speaks only of quiet states, and
  an exchange passes through many that are not. `RoundsHold` says that, while nothing is lost,
  nobody goes and every `start()` is made in peace, there is one exchange at a time, between a party
  `c` that commits itself and a party `r` that answers, in one of four phases. `Asking`: both have
  the same key; queries, errors and commitments are on their way. `Answered`: `r` waits, and its
  number is on its way to `c`. `Revealed`: `c` waits too, under the key that `r` will compute, and
  what it revealed is on its way, behind every commitment. `Switched`: `r` uses the new key, `c` the
  old one, and the signature is on its way to `c`. The phases say what may be on each line and in
  which order (`NotBehind`), since an exchange may be started again while it runs: a text that `r`
  sends under the new key reaches `c` after the signature, but one that `c` sends under the old key
  may reach `r` too late, whose error makes `c` ask again, so that a second exchange begins behind
  the first. `LastCommit` (the last commitment of `c` is the one `r` answers, or will) is what makes
  the two keys equal. `Asking` is the only phase in which both lines can be empty.

`SmpProofs`, for any secrets and any number of calls:

- `TypeCorrect`: the types, those of queued closures, messages and SMP states included.
- `ToldOnceOver`: `ToldWhenOver`. The step that may break it is an abort owed for an error, which
  runs behind whatever was queued. `Told` adds `Owing`: while an abort is owed, the party has no
  run of its own that goes on. A run that starts in that time is one the abort will end, without an
  event; `ToldWhenOver` leaves such runs out (`mine`), and the findings below name them.
- `CompleteTogether`: `CompleteAgrees`, an action property. `Agree` follows a run through the
  messages. A start is queued once, and its run not begun (`UsedCalled`, `QueuedOnce`,
  `QueuedUnused`), so that no two runs are confused; before its answer to the second message the
  initiator's proof is not on its way (`Waits`); after it, the proof on its way is of its own
  secret, and an end made from an equal one comes from a responder that has reported the run
  (`Shown`); a run one has started is not one the peer can prove to one (`Own`).
- `NobodyStalls`: `NoStall`. `Stir` names what each waiting party is waiting for while something
  still moves: a message coming to it, a queued closure that ends its run, a closure of the peer
  that will send to it, its own first message as the latest on its way to the peer, or the peer's
  user who is asked. Every step that takes one of these away leaves another. The goodbyes need
  `Left`: who has left runs nothing, who said goodbye has left, and who is still there has the
  goodbye coming. When all is quiet only the user who is asked is left of `Stir`.

`FingerprintsProofs`, for any contacts, prints and keys:

- `TypeCorrect`: the types, among them that no list has a print twice, through cutting, filtering
  and appending.
- `ActiveIsListed` (`ActiveListed`): a conversation points to a print of its own contact that is in
  the list, unless its print was deleted under it (`loose`); that needs every deletion to find all
  the conversations that point to what it frees, those of other contacts included.
- `TrustIsEarned` (`TrustEarned`), inductive with the types and `ActiveListed`: every way a trust
  travels (writing, cutting, merging) makes none, and an authentication trusts the print of its
  conversation, but for a loose one, whose pointer may be to any (`strayed`).
- `FileInStep` and `TrustRecovered` (`InStep` and `Recovers`), from
  `FileInv == InStep /\ SavedReads`, where `SavedReads` says that the copy reads as what was saved.

`KeyStoreProofs`, for any accounts and keys:

- `TypeCorrect`; `FileInStep`, that is `InStep`; `SavedKeysRecovered`, that is `Recovers`, from
  `StoreInv == InStep /\ SavedReads`, where `SavedReads` says that the real file reads as what was
  saved; `AccountsIsolated`, that is `OthersKept`, an action property from the same types.
- `ListRefinesStore` and `ListHoldsKeys` (`ListIsStore`): the behaviours of `PrivKeyList` are those
  of `KeyStore`, and the keys found by walking `next` from the root are those `mem` has. The
  invariant `Is` says that the nodes in use form a chain without repetition, with `tous` the inverse
  of `next`, one node for each key. Taking out a node, putting one in front and reading a file into
  an empty list keep it; there are fewer keys than nodes, so that `malloc` finds one. What the walk
  and the search of `jsapi.c` return is computed along the chain, by induction on its length.

`InstagsProofs`, for any accounts and bounds:

- `TypeCorrect`, `NewestHolds` (`Newest`), `GivenWrittenHolds` (`GivenWritten`) and
  `SingleSurvivesHolds` (`SingleSurvives`), from one invariant. `FileAnswers`: the virtual file has
  for every account the tag memory finds, or none after a load onto tags in memory; a load turns the
  file round in memory, so this is about files with one tag for an account. `SavedFound`: the real
  file answers in that way for the tags that memory found when it was saved whole.

`GcryptProofs`, for any word size, base and calls:

- What an array stands for. `Value` is related to sums of columns, which may be negative or larger
  than an element. `RippleRight`: the loop that carries yields the sum of its columns but for a
  multiple of what the array cannot hold, if a column and the carry into it fit the signed word
  that `>>` keeps. Adding, subtracting and multiplying by an element keep within that word for
  every `bpe`. From it come `add_` and `sub_` in two's complement, `multInt_`, `addInt_`,
  `halve_` (`HalveRight`), `divInt_` (`DivIntRight`) and `greater` (`GreaterRight`). The functions of
  `BigInt` are recursive functions; each lemma is an induction along the elements.
- `MpiToArray`, `ArrayToMpi` and `RoundTrip`: the strings in which numbers are exchanged, the size
  `str2bigInt` gives an array included.
- `BezoutHolds`, `ShrinksHolds` and `InverseIsRight` (`Bezout`, `Shrinks`, `InverseRight`), and
  `InverseTyped`, which is `TypeOK` for inverses only, from the invariant `IInv`. That `u` and `v`
  are the combinations the registers say is not inductive: the registers are arrays of fixed
  length, and each halving of an odd combination first adds the modulus to one factor and subtracts
  the number from the other. `Pair` adds how far the factors can get. There is a number `s` of
  halvings, with `u * v * 2^s` at most the product of the arguments, so that `s` is less than the
  bits of that product, and no factor exceeds `1 + s` times the arguments (`Within`; twice that
  while its number is even, since the next step halves it). So no register overflows its `Wide`
  elements, the final factor is above `-radix^2` times the modulus, and adding the modulus to
  it ends in time (`NonNegativeRight`). `Pair` also keeps the common divisors, so that `v` is the
  greatest one when `u` comes to 0: an inverse exists if and only if it is 1.

`NumberInduction` proves, from the library's theorem on minimal elements of a well-founded relation,
that a set of numbers that holds 0 and with each number the next holds them all. The induction
theorems of the library take an operator as a parameter, which none of the provers can instantiate;
this form takes a set, and is what the proofs about lists use.

The assumptions are those of the modules' ASSUMEs: distinct constants, and nothing about sizes, but
that `OtrChat` has two parties, each the peer of the other, `PrivKeyList` finitely many
accounts, since a list is finite, and `Gcrypt` a product of number and modulus of fewer than
`radix^2` bits, which are 2^30 in the code: a longer one would not fit in memory. The base the
numbers are exchanged in is less than the radix, as 16 is less than 2^15.

Only model-checked: `MontgomeryPrefix`, `PowersRight`, `ProductRight`, and `TypeOK` of `Gcrypt` for
powers. They rest on the division of `mod_`, whose estimate of a digit is off by at most one, on
`squareMod_`, which stores a carry that is not masked, and on Montgomery's product; each needs a
proof about its loop that is not written. Out of the prover's reach are
`EveryRunEnds`, `StartConnects` and `EndTells` (liveness).

## What the models show of the code

With a run:

- A fragment, or a message libotr ignores, leaves `session.context` null, and the next tick reads
  through it (`message.js:114`; `session_context_kept`).
- A query or a plain message in a private conversation moves `session.context` to the master
  context, so that `end()` ends nothing and reports "plaintext" (`Session.js:278`; `session_end`).
  `isEncrypted()` then answers false although `send()` encrypts: the error is on the safe side,
  and `NoLeak` holds.
- A failed `importKey()` may have forgotten the old key, and `deleteKey()` then leaves it in the
  keys file (`jsapi.c:287`, `jsapi.c:150`; `keystore_delete`).
- `writeTrustedFingerprints()` takes a null pointer for a trust, since the first byte
  of the memory happens to be 255; an empty trust ends its walk of the list, and with nothing to
  write the old file stays (`jsapi.c:48`; `fingerprints_trusted`).

Modelled, without a run of its own:

- A text sent on the word of `isEncrypted()` may leave in clear. `end()` of one session on a contact
  only queues its closure; until that runs, `isEncrypted()` is true, in every session on the contact,
  and a `send()` after it is queued behind it. The closure puts the shared context back to
  plaintext, and the text is injected in clear unless the policy of its session requires encryption
  (`Session.js:230`, `Session.js:278`). With one session the application at least called `end()` on
  it; of two, neither sees the other's queue. `NoLeak` says that nothing else lets such a text out.
- The abort for an SMP error may end a run that was queued before it and starts first
  (`Session.js:58`).
- `Contact.delete()` frees contexts that open sessions still use (`Contact.js:47`).
- `Fingerprint.delete()` frees a fingerprint that a conversation still points to, since libotr looks
  at the master context only (`fingerprint.js:41`). The memory may be given to the next fingerprint:
  delete bob's under his conversation, let carol show a new key, and an authentication of bob that
  succeeds trusts carol's, which nobody compared (`strayed` in `TrustEarned`).
- `end()` racing a key exchange leaves the other side private, with nobody to talk to: no error is
  sent for the messages that follow, until one is read there. A later start puts it right
  (`StartConnects`).
- After a restart, a text under the old key leaves `session.context` null, and the next tick reads
  through it (`message.js:114`).
- Two starts that cross may stall each other without either being private; a later start connects.
  With a third start before they are over, one side may end up private alone: `AgreeWhenQuiet` is
  therefore about starts made in peace.
- While a conversation is refreshed, a text may arrive under the wrong key. It is answered with an
  error and that with a query; the text itself is lost.
- `writeTrustedFingerprints()` of a user without contacts closes a file that was never opened,
  through a variable that was never set (`jsapi.c:33`).
- Text libotr leaves unchanged is neither injected nor returned by `send()` (`message.js:80`).
- A `gone_secure` listener may still read "plaintext" (`message.js:114` runs after it);
  `GoneSecureSettles` says when that is over.
- `smpStart()` during a run does nothing and says nothing (`message.js:161`).
- A short write leaves a truncated keys file behind a call that returned (`vfs.js:97`), and
  `new User()` swallows the error it then meets (`User.js:24`).
- A tag that was replaced is found again after a restart (`Account.js:101`); `SingleSurvives` is
  therefore about files with one tag for an account.
- `loadInstagsFromFS()` onto tags in memory leaves a virtual file without them: the next save, which
  returns normally, writes a file in which an account that was only in memory has no tag
  (`User.js:82`, `vfs.js:96`; the last disjunct of `SingleSurvives`). After `deleteVfsFiles()` there
  is no file to save, and `saveInstagsToFS()` throws until the next generation or load
  (`User.js:90`; the premise of `GivenWritten`).
- The inverse of 0 modulo an odd number never returns (`bigint.js:747`); an inverse need not be
  reduced, even if the number is: 27 modulo 47 is answered with 54, although `bigint.js:134`
  promises `x**(-1) mod n`; and `powMod_` with an even modulus and a base two elements
  longer overflows an array (`bigint.js:1462`). OTR's moduli are odd primes, and it inverts no
  multiple of them, so that of these only an inverse that is not reduced can be met there.

Not modelled: the callback of `generateInstag()`, which is called again with its own error when it
throws (`Account.js:103`).

## Not modelled, and why

- The table of callbacks (`MessageAppOps`): it only grows, and calls into libotr are synchronous and
  never nest in that of another session, so that an event always reaches the session whose call is
  running. Its effect, the events of a step, is part of every model.
- In `OtrChat`: fragments, whitespace tags, heartbeats, several clients, policies other than the
  default, and a `send()` between a call of `end()` and its tick, whose text is no text of the
  channel any more. What is only about one end, `OtrSession` has.
- Keys files of which libotr can parse a part: a file is complete or broken. A fingerprints file may
  be cut anywhere.
- Which freed memory the heap gives to a new fingerprint: any freed one or none. What else the memory
  may be used for is `FREED`, and what is done through it has no effect or aborts. A `Fingerprint`
  object that the application keeps of a print deleted through another such object is not modelled.
- The 4096 bytes through which a number is exchanged with libgcrypt, and the assertion that it fits
  (`library_gcrypt.js:22`): OTR's numbers have at most 1536 bits, 384 digits.
- Elapsed time: when libotr expires a commitment or a held text is a choice.
- `extraSymKey`, `POLICY`, `MSGEVENT`, `homedir`, `tlv`, `error` and the indexes: no state.
- `otr_pre.js` and the start-up half of `library_otr.js`: emscripten glue.
- Primes, random numbers, GCD and extended GCD of `bigint.js`: not reached from the library.
- `lib/async.js` (vendored, unused), `build/` (generated), `examples/`, `doc/`.

## Plan

No component with state of its own is left out. What remains is to be proved, all of it about
`Gcrypt`, from the lemmas on `Ripple`, comparing and shifting that are there:

1. `mod_`: that a digit of the quotient is estimated at most one too large, and that the remainder is
   right.
2. The loops of `Product`, `Square` and `MontSum`, and from them `MontgomeryPrefix`, `PowersRight`
   and `ProductRight`, and `TypeOK` for powers.
