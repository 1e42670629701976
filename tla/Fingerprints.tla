---------------------------- MODULE Fingerprints ----------------------------
(***************************************************************************)
(* The fingerprints of the contacts of a User and the trust in them:       *)
(* lib/bindings/fingerprint.js, context.js and userstate.js, lib/User.js,  *)
(* lib/Contact.js, the callbacks of src/library_otr.js and src/jsapi.c.    *)
(*                                                                         *)
(* libotr keeps the fingerprints of a contact in a list, the newest first. *)
(* A conversation points to the one of the key it was set up with.  Both   *)
(* the application and libotr change the list: libotr when a key is new    *)
(* and when an authentication ends, and it says so in a write_fingerprints *)
(* event, upon which the application writes the virtual file, as in        *)
(* examples/index.js.                                                      *)
(*                                                                         *)
(* A fingerprint that is deleted is freed, also under a conversation that  *)
(* points to it, and the next one made may be put in the same place: the   *)
(* conversation then points to that one, of its contact or of another.     *)
(*                                                                         *)
(* Conversations are of version 3 of the protocol.  A conversation is seen *)
(* here only in the fingerprint it uses; OtrSession has the rest of it.    *)
(***************************************************************************)
EXTENDS Naturals, SequencesExt

CONSTANTS
    Contacts,       \* contacts of all accounts of the user
    Prints,         \* fingerprints
    Keyrings,       \* which prints the keys of each contact may have
    NULL,           \* no fingerprint
    FREED,          \* memory that was a fingerprint and is not one now
    NONE            \* nothing was saved

ASSUME PrintsAssumption ==
    /\ NULL \notin Contacts \X Prints /\ FREED \notin Contacts \X Prints /\ NULL # FREED
    /\ Keyrings \subseteq [Contacts -> SUBSET Prints]

\* A print is not in a list, has never been given a trust (a null pointer),
\* has an empty trust, or a trust of one character or more.
Trust == {"ABSENT", "UNSET", "UNTRUSTED", "TRUSTED"}

\* A file, if there is one, has a line for each print in it, in the order of
\* the lists.
File == [exists : BOOLEAN,
         trust : [Contacts -> [Prints -> {"ABSENT", "UNTRUSTED", "TRUSTED"}]],
         order : [Contacts -> Seq(Prints)]]

VARIABLES
    keyring,  \* the prints of the keys of each contact, which do not change
    up,       \* the process runs and has a User
    trust,    \* the trust in each print, by contact
    order,    \* the list of each contact
    active,   \* what the conversation with a contact points to, see Pointer
    loose,    \* history: the conversations whose print was deleted under them
    vfs,      \* the fingerprints file on the virtual file system
    disk,     \* the copy the application keeps of it, a file or a string
    spoiled,  \* history: memory and virtual file may differ, see below
    saved,    \* history: the trust in memory when disk was saved
    granted,  \* history: prints the application or an SMP run has trusted
    strayed   \* history: prints trusted by an SMP run of a loose conversation

memory == <<trust, order>>
conversations == <<active, loose>>
earned == <<granted, strayed>>
vars == <<keyring, up, memory, conversations, vfs, disk, spoiled, saved, earned>>

\* A pointer to a print of a contact, to none, or to freed memory.
Pointer == (Contacts \X Prints) \cup {NULL, FREED}

\* The trust a file gives: no distinction is left between null and empty.
Line(t) == IF t = "UNSET" THEN "UNTRUSTED" ELSE t

AsFile(t) == [c \in Contacts |-> [f \in Prints |-> Line(t[c][f])]]

Nothing == [c \in Contacts |-> [f \in Prints |-> "ABSENT"]]

EmptyLists == [c \in Contacts |-> <<>>]

Missing == [exists |-> FALSE, trust |-> Nothing, order |-> EmptyLists]

Known(c) == {f \in Prints : trust[c][f] # "ABSENT"}

\* A pointer is to a print that is in the list of the contact it is one of.
Present(p) == p \in Contacts \X Prints /\ p[2] \in Known(p[1])

\* The prints of a list that are in a set, in their order.
Among(list, set) ==
    LET kept[n \in 0..Len(list)] ==
          IF n = 0 THEN <<>>
          ELSE IF list[n] \in set THEN Append(kept[n - 1], list[n]) ELSE kept[n - 1]
    IN kept[Len(list)]

TypeOK ==
    /\ keyring \in Keyrings
    /\ up \in BOOLEAN
    /\ trust \in [Contacts -> [Prints -> Trust]]
    /\ order \in [Contacts -> Seq(Prints)]
    /\ \A c \in Contacts : IsInjective(order[c]) /\ Range(order[c]) = Known(c)
    /\ active \in [Contacts -> Pointer]
    /\ loose \subseteq Contacts
    /\ vfs \in File
    /\ disk \in File
    /\ spoiled \in BOOLEAN
    /\ saved = NONE \/ saved \in [Contacts -> [Prints -> Trust]]
    /\ granted \subseteq Contacts \X Prints
    /\ strayed \subseteq Contacts \X Prints

Init ==
    /\ keyring \in Keyrings
    /\ up = TRUE
    /\ trust = Nothing
    /\ order = EmptyLists
    /\ active = [c \in Contacts |-> NULL]
    /\ loose = {}
    /\ vfs = Missing
    /\ disk = Missing
    /\ spoiled = FALSE
    /\ saved = NONE
    /\ granted = {}
    /\ strayed = {}

\* The process ends, and its memory with it, the virtual file included.
Ends ==
    /\ up' = FALSE
    /\ trust' = Nothing
    /\ order' = EmptyLists
    /\ active' = [c \in Contacts |-> NULL]
    /\ loose' = {}
    /\ vfs' = Missing
    /\ spoiled' = FALSE

-----------------------------------------------------------------------------
(* The virtual file. *)

\* otrl_privkey_write_fingerprints: every print of every list.
Write ==
    /\ vfs' = [exists |-> TRUE, trust |-> AsFile(trust'), order |-> order']
    /\ spoiled' = FALSE

\* Mutated: the event fires before libotr has made the change.
WriteEarly ==
    /\ vfs' = [exists |-> TRUE, trust |-> AsFile(trust), order |-> order]
    /\ spoiled' = FALSE

\* The write_fingerprints event, which each change libotr makes ends with,
\* and the application's listener, which calls writeFingerprints().
WriteEvent == Write

WriteFingerprints ==
    /\ up
    /\ UNCHANGED <<up, memory, conversations, disk, saved, earned>>
    /\ Write

\* The lines writeTrustedFingerprints() writes for a contact.  It goes down
\* the list until a print has an empty trust.  A null trust does not stop it:
\* the first byte of the memory, which it then looks at, is 255.
WrittenAsTrusted(c) ==
    {order[c][i] : i \in {j \in DOMAIN order[c] :
                            \A k \in 1..j : trust[c][order[c][k]] # "UNTRUSTED"}}

\* The file is opened, and so emptied, only once there is something to write.
WriteTrusted ==
    /\ up
    /\ IF \A c \in Contacts : WrittenAsTrusted(c) = {}
       THEN UNCHANGED vfs
       ELSE vfs' = [exists |-> TRUE,
                    trust |-> [c \in Contacts |-> [f \in Prints |->
                           IF f \in WrittenAsTrusted(c) THEN Line(trust[c][f]) ELSE "ABSENT"]],
                    order |-> [c \in Contacts |-> Among(order[c], WrittenAsTrusted(c))]]
    /\ spoiled' = TRUE
    /\ UNCHANGED <<up, memory, conversations, disk, saved, earned>>

\* The file pointer is never initialised.  The build takes it for a null one,
\* but with no contact at all it closes it nevertheless, which may abort.
WriteTrustedAborts ==
    /\ up
    /\ trust = Nothing
    /\ Ends
    /\ UNCHANGED <<disk, saved, earned>>

\* Mutated: a list is put in the place of the one in memory.
ReplaceBy(t, o, file) == trust' = file.trust /\ order' = file.order

\* Mutated: a print is added without looking for it first.
MergeTwice(t, o, file) ==
    /\ trust' = [c \in Contacts |-> [f \in Prints |->
                    IF file.trust[c][f] = "ABSENT" THEN t[c][f] ELSE file.trust[c][f]]]
    /\ order' = [c \in Contacts |-> Reverse(file.order[c]) \o o[c]]

\* Mutated: the last field of a line is not read.
MergePrints(t, o, file) ==
    /\ trust' = [c \in Contacts |-> [f \in Prints |->
                    IF t[c][f] # "ABSENT" \/ file.trust[c][f] = "ABSENT"
                    THEN t[c][f] ELSE "UNTRUSTED"]]
    /\ order' = [c \in Contacts |->
                    Reverse(Among(file.order[c], {f \in Prints : t[c][f] = "ABSENT"})) \o o[c]]

\* External: otrl_privkey_read_fingerprints.  What is in memory stays; the
\* trust is the file's for what is in the file; a print that is new goes to
\* the head of the list, so that the file's order is reversed.
MergeInto(t, o, file) ==
    /\ trust' = [c \in Contacts |-> [f \in Prints |->
                    IF file.trust[c][f] = "ABSENT" THEN t[c][f] ELSE file.trust[c][f]]]
    /\ order' = [c \in Contacts |->
                    Reverse(Among(file.order[c], {f \in Prints : t[c][f] = "ABSENT"})) \o o[c]]

\* What the conversations may point to once the prints new were made: which
\* freed memory the heap gives to which of them is not modelled.
Reuse(new) ==
    {a \in [Contacts -> Range(active) \cup new] : \A c \in Contacts :
        a[c] = active[c] \/ (active[c] = FREED /\ a[c] \in new)}

\* loadFingerprintsFromFS() or stringToFingerprints() of the copy.
Load ==
    /\ up
    /\ disk.exists
    /\ vfs' = disk
    /\ MergeInto(trust, order, vfs')
    /\ active' \in Reuse({p \in Contacts \X Prints :
                           trust[p[1]][p[2]] = "ABSENT" /\ disk.trust[p[1]][p[2]] # "ABSENT"})
    /\ spoiled' = (trust # Nothing)
    /\ UNCHANGED <<up, loose, disk, saved, earned>>

\* new User(), with or without a fingerprints file to load.
Construct ==
    /\ up' = TRUE
    /\ vfs' \in {Missing, disk}
    /\ MergeInto(Nothing, EmptyLists, vfs')
    /\ active' = [c \in Contacts |-> NULL]
    /\ loose' = {}
    /\ spoiled' = FALSE
    /\ UNCHANGED <<disk, saved, earned>>

-----------------------------------------------------------------------------
(* The copy. *)

\* saveFingerprintsToFS() or fingerprintsToString().
Save ==
    /\ up
    /\ vfs.exists
    /\ disk' = vfs
    /\ saved' = IF spoiled THEN NONE ELSE AsFile(trust)
    /\ UNCHANGED <<up, memory, conversations, vfs, spoiled, earned>>

\* What is left of a file that is cut short: the lines of some contacts, and
\* of one contact the first n, the last of which may have lost its trust.
Cut(file, whole, c, n) ==
    LET lines == SubSeq(file.order[c], 1, n)
        Left(d, f) == d \in whole \/ (d = c /\ f \in Range(lines))
    IN {[exists |-> TRUE, trust |-> [d \in Contacts |-> [f \in Prints |->
                        IF ~Left(d, f) THEN "ABSENT"
                        ELSE IF shorter /\ d = c /\ f = Last(lines) THEN "UNTRUSTED"
                        ELSE file.trust[d][f]]],
         order |-> [d \in Contacts |->
                        IF d \in whole THEN file.order[d] ELSE IF d = c THEN lines ELSE <<>>]]
        : shorter \in {FALSE, n > 0}}

\* Saving stops, or the process ends, after the destination was emptied.
SaveCut ==
    /\ up
    /\ vfs.exists
    /\ \E c \in Contacts : \E whole \in SUBSET (Contacts \ {c}), n \in 0..Len(vfs.order[c]) :
           disk' \in Cut(vfs, whole, c, n)
    /\ saved' = NONE
    /\ UNCHANGED earned
    /\ \/ Ends
       \/ UNCHANGED <<up, memory, conversations, vfs, spoiled>>

Exit ==
    /\ up
    /\ Ends
    /\ UNCHANGED <<disk, saved, earned>>

\* deleteVfsFiles() leaves the lists as they are.
DeleteVfsFiles ==
    /\ up
    /\ vfs' = Missing
    /\ spoiled' = TRUE
    /\ UNCHANGED <<up, memory, conversations, disk, saved, earned>>

-----------------------------------------------------------------------------
(* Conversations. *)

\* External: otrl_context_find_fingerprint adds at the head.
Add(c, f) ==
    /\ trust' = [trust EXCEPT ![c][f] = "UNSET"]
    /\ order' = [order EXCEPT ![c] = <<f>> \o @]

\* A key exchange ends: a print that is new is added, new_fingerprint and
\* write_fingerprints fire, and then the conversation takes it.
GoSecure(c) ==
    /\ up
    /\ \E f \in keyring[c] :
         /\ \E a \in Reuse({<<c, g>> : g \in {f} \ Known(c)}) :
              active' = [a EXCEPT ![c] = <<c, f>>]
         /\ IF f \in Known(c)
            THEN UNCHANGED <<memory, vfs, spoiled>>
            ELSE Add(c, f) /\ WriteEvent
    /\ loose' = loose \ {c}
    /\ UNCHANGED <<up, disk, saved, earned>>

\* An authentication ends, well or not.
Outcome == {"TRUSTED", "UNTRUSTED"}

\* The history of what was trusted.
Grant(c, f, result) ==
    granted' = IF result = "TRUSTED" THEN granted \cup {<<c, f>>} ELSE granted

\* Mutated: the trust goes to the newest print of the list.
TrustNewest(p, result) == trust' = [trust EXCEPT ![p[1]][Head(order[p[1]])] = result]

\* External: the trust goes to the print pointed to.
SetTrust(p, result) == trust' = [trust EXCEPT ![p[1]][p[2]] = result]

\* External: an SMP run ends.  libotr sets the trust of the print the
\* conversation points to and fires write_fingerprints, before smp_complete
\* or smp_failed.  Of a loose conversation that print is another than the one
\* it was set up with, and perhaps another contact's.
SmpEnds(c) ==
    /\ up
    /\ Present(active[c])
    /\ \E result \in Outcome :
         /\ SetTrust(active[c], result)
         /\ IF c \notin loose
            THEN Grant(c, active[c][2], result) /\ UNCHANGED strayed
            ELSE /\ strayed' = IF result = "TRUSTED" THEN strayed \cup {active[c]} ELSE strayed
                 /\ UNCHANGED granted
    /\ UNCHANGED <<up, order, conversations, disk, saved>>
    /\ WriteEvent

\* The same through memory that is no print now: setting a trust frees the old
\* one again, which aborts or goes unnoticed.
SmpEndsOnFreed(c) ==
    /\ up
    /\ active[c] = FREED
    /\ UNCHANGED <<disk, saved, earned>>
    /\ \/ Ends
       \/ UNCHANGED <<up, memory, conversations>> /\ WriteEvent

\* The contact's disconnect, or the session's own end().
Leave(c) ==
    /\ up
    /\ active[c] # NULL
    /\ active' = [active EXCEPT ![c] = NULL]
    /\ loose' = loose \ {c}
    /\ UNCHANGED <<up, memory, vfs, disk, spoiled, saved, earned>>

-----------------------------------------------------------------------------
(* The application, on what Contact.fingerprints() returns. *)

\* Fingerprint.trust(text) and untrust().
TrustPrint(c) ==
    /\ up
    /\ \E f \in Known(c), result \in Outcome :
         /\ trust' = [trust EXCEPT ![c][f] = result]
         /\ Grant(c, f, result)
    /\ spoiled' = TRUE
    /\ UNCHANGED <<up, order, conversations, vfs, disk, saved, strayed>>

\* Mutated: the conversations are left as they are.
KeepPointers(freed) == active

\* The prints freed, and the conversations that point to one.  The print of a
\* conversation is freed like any other: libotr refuses only what the master
\* context uses, and the conversation is in a child of it.
Pointers(freed) == [c \in Contacts |-> IF active[c] \in freed THEN FREED ELSE active[c]]

Loosened(freed) == loose \cup {c \in Contacts : active[c] \in freed}

\* Fingerprint.delete().
DeletePrint(c) ==
    /\ up
    /\ \E f \in Known(c) :
         /\ trust' = [trust EXCEPT ![c][f] = "ABSENT"]
         /\ order' = [order EXCEPT ![c] = Among(@, Prints \ {f})]
         /\ active' = Pointers({<<c, f>>})
         /\ loose' = Loosened({<<c, f>>})
    /\ spoiled' = TRUE
    /\ UNCHANGED <<up, vfs, disk, saved, earned>>

\* Contact.delete() of a contact without a conversation; one that has a
\* conversation, or has not ended one that the contact left, is kept.
DeleteContact(c) ==
    /\ up
    /\ active[c] = NULL
    /\ trust' = [trust EXCEPT ![c] = [f \in Prints |-> "ABSENT"]]
    /\ order' = [order EXCEPT ![c] = <<>>]
    /\ active' = Pointers({c} \X Prints)
    /\ loose' = Loosened({c} \X Prints)
    /\ spoiled' = TRUE
    /\ UNCHANGED <<up, vfs, disk, saved, earned>>

-----------------------------------------------------------------------------

\* What is done with one contact.
Operation(c) ==
    \/ GoSecure(c)
    \/ SmpEnds(c)
    \/ SmpEndsOnFreed(c)
    \/ Leave(c)
    \/ TrustPrint(c)
    \/ DeletePrint(c)
    \/ DeleteContact(c)

Step ==
    \/ \E c \in Contacts : Operation(c)
    \/ WriteFingerprints
    \/ WriteTrusted
    \/ WriteTrustedAborts
    \/ Load
    \/ Construct
    \/ Save
    \/ SaveCut
    \/ Exit
    \/ DeleteVfsFiles

Next == Step /\ UNCHANGED keyring

Spec == Init /\ [][Next]_vars

-----------------------------------------------------------------------------
(* Safety. *)

\* The virtual file says what is in memory, after every new key and every
\* authentication: an application that does no more than answer each
\* write_fingerprints event loses nothing of what libotr learns.  The two part
\* only through the application's own changes, a trusted-only file, or a load
\* on top of what was there (spoiled), until the next complete write.
InStep == ~spoiled => vfs.trust = AsFile(trust)

\* The fingerprint a conversation shows, and whose trust isAuthenticated()
\* returns, is in the list of its contact, whatever is loaded, written or
\* deleted of other contacts meanwhile.  Only if the application deleted it is
\* it freed memory, or what that memory is used for next: then it is still a
\* print in some list, never one that was deleted.
ActiveListed ==
    \A c \in Contacts :
        \/ c \notin loose /\ active[c] = NULL
        \/ c \notin loose /\ Present(active[c]) /\ active[c][1] = c
        \/ c \in loose /\ (active[c] = FREED \/ Present(active[c]))

\* Trust is earned: a print is trusted, in memory, in the virtual file or in
\* the copy, only if that print of that contact was trusted by the application
\* or by an authentication of its conversation, whatever merges, cut files,
\* deletions, new keys and restarts came between.  The one exception is in
\* what the code does after Fingerprint.delete() under a conversation
\* (fingerprint.js:41): an authentication there may trust the print that the
\* freed memory has been given to, which nobody has authenticated (strayed).
TrustEarned ==
    \A c \in Contacts, f \in Prints :
        "TRUSTED" \in {trust[c][f], vfs.trust[c][f], disk.trust[c][f]}
            => <<c, f>> \in granted \cup strayed

\* A user made from a copy that was saved completely trusts exactly what was
\* trusted then, and knows the same prints.
Recovers ==
    [][(Construct /\ vfs'.exists /\ saved # NONE) => trust' = saved]_vars

-----------------------------------------------------------------------------
(* What the documentation says and the code does not keep. *)

\* "Writes only fingerprints which have been authenticated from memory to the
\* virtual fingerprints file" (User.js:233): the file then has no other.
OnlyTrustedWritten ==
    [][WriteTrusted =>
         \A c \in Contacts, f \in Prints :
             vfs'.exists /\ vfs'.trust[c][f] # "ABSENT" => trust[c][f] = "TRUSTED"]_vars

=============================================================================
