------------------------------ MODULE KeyStore ------------------------------
(***************************************************************************)
(* The private keys of a User: lib/User.js, lib/Account.js,                *)
(* lib/bindings/userstate.js, lib/bindings/vfs.js and src/jsapi.c.         *)
(*                                                                         *)
(* The keys are in three places.  The user state of libotr has them in     *)
(* memory; the methods of an account change it and then rewrite the keys   *)
(* file of the user on the virtual file system of the emscripten runtime,  *)
(* which is in memory too; and the application copies that file to and     *)
(* from the real file system (load/saveKeysToFS) or a string of its own    *)
(* (keysToString, stringToKeys), which alone outlive the process.  All of  *)
(* it is synchronous, so what can go wrong is a step of several failing,   *)
(* or the process ending inside one.                                       *)
(***************************************************************************)
EXTENDS Naturals

CONSTANTS
    Names,      \* account names
    Protocols,  \* protocol identifiers
    Keys,       \* private keys
    NONE,       \* no key
    NOFILE,     \* the file does not exist
    BROKEN      \* the file is empty, cut short, or not a keys file

Accounts == Names \X Protocols

\* The keys of a user, and what a complete keys file says.
Store == [Accounts -> Keys \cup {NONE}]

Empty == [a \in Accounts |-> NONE]

ASSUME StoreAssumption ==
    /\ NONE \notin Keys
    /\ {NONE, NOFILE, BROKEN} \cap Store = {}
    /\ NOFILE # BROKEN

VARIABLES
    up,        \* the process runs and has a User
    mem,       \* the keys in the user state
    vfs,       \* the keys file on the virtual file system
    disk,      \* the keys file on the real file system
    copy,      \* the string the application has kept
    returned,  \* the last call returned and did not throw
    spoiled,   \* history: memory and virtual file may differ, see below
    saved      \* history: the keys in memory when disk was last saved

vars == <<up, mem, vfs, disk, copy, returned, spoiled, saved>>

File == Store \cup {NOFILE, BROKEN}

TypeOK ==
    /\ up \in BOOLEAN
    /\ mem \in Store
    /\ vfs \in File
    /\ disk \in File
    /\ copy \in File
    /\ returned \in BOOLEAN
    /\ spoiled \in BOOLEAN
    /\ saved \in Store \cup {NONE}

\* What libotr has in memory after it has read the file.
Parsed(file) == IF file \in Store THEN file ELSE Empty

Init ==
    /\ up = TRUE
    /\ mem = Empty
    /\ vfs = NOFILE
    /\ disk = NOFILE
    /\ copy = NOFILE
    /\ returned = TRUE
    /\ spoiled = FALSE
    /\ saved = NONE

-----------------------------------------------------------------------------
(* Loading. *)

\* External: otrl_privkey_read forgets every key, then parses the file; it is
\* an error that makes the call throw if there is nothing to parse.
ReadKeys ==
    /\ mem' = Parsed(vfs')
    /\ spoiled' = FALSE
    /\ \/ vfs' \in Store /\ returned' = TRUE
       \/ vfs' \notin Store /\ returned' = FALSE

\* loadKeysFromFS(): the source file must exist and the transform must not
\* throw; the virtual file is replaced before it is parsed.
LoadKeysFromFS ==
    /\ up
    /\ UNCHANGED <<up, disk, copy, saved>>
    /\ \/ /\ disk # NOFILE
          /\ vfs' = disk
          /\ ReadKeys
       \/ /\ returned' = FALSE
          /\ UNCHANGED <<mem, vfs, spoiled>>

\* stringToKeys() of the string kept, or of one that is not a keys file.
StringToKeys ==
    /\ up
    /\ \E str \in {copy, BROKEN} \ {NOFILE} : vfs' = str
    /\ ReadKeys
    /\ UNCHANGED <<up, disk, copy, saved>>

\* new User(): a user state and a virtual file of its own; with a keys file
\* named, its keys, whatever loadKeysFromFS() throws being swallowed.
Construct ==
    /\ up' = TRUE
    /\ vfs' \in {NOFILE, disk}
    /\ mem' = Parsed(vfs')
    /\ spoiled' = FALSE
    /\ returned' = TRUE
    /\ UNCHANGED <<disk, copy, saved>>

-----------------------------------------------------------------------------
(* Saving. *)

\* keysToString(): the virtual file, as text.
KeysToString ==
    /\ up
    /\ UNCHANGED <<up, mem, vfs, disk, spoiled, saved>>
    /\ IF vfs = NOFILE
       THEN returned' = FALSE /\ UNCHANGED copy
       ELSE returned' = TRUE /\ copy' = vfs

\* Mutated: the keys file is not written when it exists already.
SaveOnce ==
    /\ up
    /\ vfs # NOFILE
    /\ returned' = TRUE
    /\ disk' = IF disk = NOFILE THEN vfs ELSE disk
    /\ saved' = IF spoiled THEN NONE ELSE mem
    /\ UNCHANGED <<up, mem, vfs, copy, spoiled>>

\* saveKeysToFS(), all of it done.
Save ==
    /\ up
    /\ vfs # NOFILE
    /\ returned' = TRUE
    /\ disk' = vfs
    /\ saved' = IF spoiled THEN NONE ELSE mem
    /\ UNCHANGED <<up, mem, vfs, copy, spoiled>>

\* saveKeysToFS() with no virtual file, or stopped by the transform, by the
\* directory or by openSync(): nothing has changed.
SaveRefused ==
    /\ up
    /\ returned' = FALSE
    /\ UNCHANGED <<up, mem, vfs, disk, copy, spoiled, saved>>

\* saveKeysToFS() past openSync(destination, "w"), which empties the file:
\* writeSync() throws, or the process ends, or it writes less than it was
\* asked to, and nobody looks at how much it wrote.
SaveCut ==
    /\ up
    /\ vfs # NOFILE
    /\ disk' = BROKEN
    /\ saved' = NONE
    /\ \/ returned' = FALSE /\ up' \in BOOLEAN
       \/ returned' = TRUE /\ UNCHANGED up
    /\ UNCHANGED <<mem, vfs, copy, spoiled>>

\* The process ends: what it had in memory is lost.
Exit ==
    /\ up
    /\ up' = FALSE
    /\ UNCHANGED <<mem, vfs, disk, copy, returned, spoiled, saved>>

-----------------------------------------------------------------------------
(* The keys of an account. *)

\* External: otrl_privkey_find compares the name and the protocol.
Same(a, b) == a = b

With(a, k) == [b \in Accounts |-> IF Same(a, b) THEN k ELSE mem[b]]

\* Mutated: the file is not written out.
WriteKeysLater == UNCHANGED vfs /\ spoiled' = FALSE

\* writeKeysSync(): every key in memory goes to the virtual file.
WriteKeys == vfs' = mem' /\ spoiled' = FALSE

\* External: generateKey().  libotr writes the keys it has and the new one to
\* the file, and reads the file again.
GenerateKey(a) ==
    /\ up
    /\ \E k \in Keys : vfs' = With(a, k)
    /\ mem' = Parsed(vfs')
    /\ spoiled' = FALSE
    /\ returned' = TRUE
    /\ UNCHANGED <<up, disk, copy, saved>>

\* importKey() of a good key.
ImportKey(a) ==
    /\ up
    /\ \E k \in Keys : mem' = With(a, k)
    /\ WriteKeys
    /\ returned' = TRUE
    /\ UNCHANGED <<up, disk, copy, saved>>

\* Mutated: the unusable key stays in the list.
ImportKeyLinked(a) ==
    /\ up
    /\ returned' = FALSE
    /\ mem' \in {mem, With(a, BROKEN)}
    /\ spoiled' = (spoiled \/ mem' # mem)
    /\ UNCHANGED <<up, vfs, disk, copy, saved>>

\* importKey() of an object that lacks a component, or has one of another
\* type, changes nothing; with one that is null or zero, the key of the
\* account is forgotten before the new one is found to be unusable, and the
\* throw keeps the virtual file from being rewritten.
ImportKeyFails(a) ==
    /\ up
    /\ returned' = FALSE
    /\ mem' \in {mem, With(a, NONE)}
    /\ spoiled' = (spoiled \/ mem' # mem)
    /\ UNCHANGED <<up, vfs, disk, copy, saved>>

\* Mutated: the list of keys is cut off at the one deleted.
DeleteKeyCutsList(a) ==
    /\ up
    /\ returned' = TRUE
    /\ UNCHANGED <<up, disk, copy, saved>>
    /\ IF mem[a] = NONE THEN UNCHANGED <<mem, vfs, spoiled>>
       ELSE mem' = Empty /\ WriteKeys

\* deleteKey(): only if the account has a key is the file rewritten.
DeleteKey(a) ==
    /\ up
    /\ returned' = TRUE
    /\ UNCHANGED <<up, disk, copy, saved>>
    /\ IF mem[a] = NONE THEN UNCHANGED <<mem, vfs, spoiled>>
       ELSE mem' = With(a, NONE) /\ WriteKeys

\* deleteVfsFiles() leaves the keys in memory.
DeleteVfsFiles ==
    /\ up
    /\ vfs' = NOFILE
    /\ spoiled' = TRUE
    /\ returned' = TRUE
    /\ UNCHANGED <<up, mem, disk, copy, saved>>

-----------------------------------------------------------------------------

\* The methods of an Account.
Operation(a) ==
    \/ GenerateKey(a)
    \/ ImportKey(a)
    \/ ImportKeyFails(a)
    \/ DeleteKey(a)

Next ==
    \/ Construct
    \/ LoadKeysFromFS
    \/ StringToKeys
    \/ KeysToString
    \/ Save
    \/ SaveRefused
    \/ SaveCut
    \/ Exit
    \/ \E a \in Accounts : Operation(a)
    \/ DeleteVfsFiles

Spec == Init /\ [][Next]_vars

-----------------------------------------------------------------------------
(* Safety. *)

\* The virtual file has the keys that are in memory, whatever loads, failed
\* loads, generations, imports and deletions came before: what is saved is
\* what the user has.  Only an import that failed after the old key was
\* forgotten, and deleteVfsFiles(), part the two (spoiled), until the next
\* call that writes or reads the file.
InStep == ~spoiled => mem = Parsed(vfs)

\* A call about one account leaves the keys of all others as they were, in
\* memory, and in the virtual file unless an earlier failure had parted them.
OthersKept ==
    [][\A a \in Accounts :
         Operation(a) =>
           \A b \in Accounts \ {a} :
             /\ mem'[b] = mem[b]
             /\ ~spoiled => Parsed(vfs')[b] = Parsed(vfs)[b]]_vars

\* A user made from a file that saveKeysToFS() completed has the keys that
\* were in memory at that time, those deleted before it not among them.
Recovers ==
    [][(Construct /\ vfs' # NOFILE /\ saved # NONE) => mem' = saved]_vars

-----------------------------------------------------------------------------
(* What the documentation says and the code does not keep. *)

\* "Deletes OTR key of the account" (Account.js:59): afterwards the keys file
\* has no key of the account.  After a failed import it still has.
DeleteKeyDeletes ==
    [][\A a \in Accounts : DeleteKey(a) => Parsed(vfs')[a] = NONE]_vars

=============================================================================
