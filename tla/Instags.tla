------------------------------- MODULE Instags -------------------------------
(***************************************************************************)
(* The instance tags of a User: Account.generateInstag and instag          *)
(* (lib/Account.js), the instags methods of lib/User.js and what they use  *)
(* of lib/bindings/userstate.js and lib/bindings/vfs.js.                   *)
(*                                                                         *)
(* As with the keys there is a list in memory, a virtual file rewritten by *)
(* every generation, and a real file the application saves to and loads    *)
(* from.  libotr keeps the tags as a list in which an account may appear   *)
(* more than once: a new tag goes to the head, the file is written from    *)
(* the head on, and every tag read from a file goes to the head again.     *)
(*                                                                         *)
(* Only a generation writes the virtual file.  A load replaces it and adds *)
(* to memory, so that tags that were in memory before are then in no file, *)
(* and deleteVfsFiles() takes it away.                                     *)
(***************************************************************************)
EXTENDS Naturals, Sequences, SequencesExt

CONSTANTS
    Accounts,   \* accounts of the user
    NONE,       \* no tag
    NOFILE,     \* the file does not exist
    MaxTags,    \* bound: tags ever generated
    MaxList     \* bound: tags in memory

Tags == 1..MaxTags

ASSUME InstagsAssumption ==
    /\ MaxTags \in Nat /\ MaxList \in Nat
    /\ NONE \notin Tags
    /\ NOFILE \notin Seq(Accounts \X Tags)

VARIABLES
    mem,     \* the list in the user state
    vfs,     \* the instags file on the virtual file system
    disk,    \* the instags file on the real file system
    fresh,   \* the next tag to be generated; no two are equal
    given,   \* history: given[a] is the tag of a last generated since a load
    last,    \* history: what was done last to the virtual file (Calls)
    saved,   \* history: saved[a] is instag() of a at the save that wrote all
             \* of disk, NONE if the save was cut
    savedBy  \* history: last, at that save

vars == <<mem, vfs, disk, fresh, given, last, saved, savedBy>>

\* "load" is one into a memory without tags, "merge" any other.
Calls == {"none", "generate", "load", "merge", "delete"}

List == Seq(Accounts \X Tags)

TypeOK ==
    /\ mem \in List
    /\ vfs \in List \cup {NOFILE}
    /\ disk \in List \cup {NOFILE}
    /\ fresh \in 1..(MaxTags + 1)
    /\ given \in [Accounts -> Tags \cup {NONE}]
    /\ last \in Calls
    /\ saved \in [Accounts -> Tags \cup {NONE}]
    /\ savedBy \in Calls

NoTags == [a \in Accounts |-> NONE]

\* External: the positions of an account in the list, as otrl_instag_find
\* goes through them.
Entries(list, a) == {i \in DOMAIN list : list[i][1] = a}

\* Mutated: the last of the account in the list.
FindLast(list, a) ==
    IF Entries(list, a) = {} THEN NONE ELSE list[Max(Entries(list, a))][2]

\* Mutated: the tag is read through the null pointer of an account without one.
FindThroughNull(list, a) ==
    IF Entries(list, a) = {} THEN 0 ELSE list[Min(Entries(list, a))][2]

\* findInstag(): the first of the account in the list.
FindInstag(list, a) ==
    IF Entries(list, a) = {} THEN NONE ELSE list[Min(Entries(list, a))][2]

Init ==
    /\ mem = <<>>
    /\ vfs = NOFILE
    /\ disk = NOFILE
    /\ fresh = 1
    /\ given = NoTags
    /\ last = "none"
    /\ saved = NoTags
    /\ savedBy = "none"

-----------------------------------------------------------------------------

\* Mutated: the tags are written to another virtual file.
GenerateElsewhere(a) ==
    /\ fresh <= MaxTags
    /\ Len(mem) < MaxList
    /\ mem' = <<<<a, fresh>>>> \o mem
    /\ fresh' = fresh + 1
    /\ given' = [given EXCEPT ![a] = fresh]
    /\ last' = "generate"
    /\ UNCHANGED <<vfs, disk, saved, savedBy>>

\* generateInstag().  libotr puts the new tag at the head of the list and
\* writes the list to the virtual file.
GenerateInstag(a) ==
    /\ fresh <= MaxTags
    /\ Len(mem) < MaxList
    /\ mem' = <<<<a, fresh>>>> \o mem
    /\ vfs' = mem'
    /\ fresh' = fresh + 1
    /\ given' = [given EXCEPT ![a] = fresh]
    /\ last' = "generate"
    /\ UNCHANGED <<disk, saved, savedBy>>

\* External: otrl_instag_read adds the tags of the file to those in memory.
ReadInstags(file, list) == Reverse(file) \o list

\* loadInstagsFromFS() of an existing file, which becomes the virtual file
\* whatever is in memory.
LoadInstagsFromFS ==
    /\ disk # NOFILE
    /\ Len(mem) + Len(disk) <= MaxList
    /\ vfs' = disk
    /\ mem' = ReadInstags(disk, mem)
    /\ given' = NoTags
    /\ last' = IF mem = <<>> THEN "load" ELSE "merge"
    /\ UNCHANGED <<disk, fresh, saved, savedBy>>

\* A new User(), of this process or after a restart.
Construct ==
    /\ vfs' \in {NOFILE, disk}
    /\ mem' = IF vfs' = NOFILE THEN <<>> ELSE ReadInstags(vfs', <<>>)
    /\ given' = NoTags
    /\ last' = IF vfs' = NOFILE THEN "none" ELSE "load"
    /\ UNCHANGED <<disk, fresh, saved, savedBy>>

\* deleteVfsFiles(): the tags stay in memory.
DeleteVfsFiles ==
    /\ vfs' = NOFILE
    /\ last' = "delete"
    /\ UNCHANGED <<mem, disk, fresh, given, saved, savedBy>>

\* Mutated: a file that exists already is not written.
SaveOnce ==
    /\ vfs # NOFILE
    /\ disk' = IF disk = NOFILE THEN vfs ELSE disk
    /\ saved' = [a \in Accounts |-> FindInstag(mem, a)]
    /\ savedBy' = last
    /\ UNCHANGED <<mem, vfs, fresh, given, last>>

\* saveInstagsToFS(): the virtual file, or only its first lines if the write
\* was short or the process ended in it.
SaveInstagsToFS ==
    /\ vfs # NOFILE
    /\ \E n \in 0..Len(vfs) : disk' = SubSeq(vfs, 1, n)
    /\ saved' = IF disk' = vfs THEN [a \in Accounts |-> FindInstag(mem, a)] ELSE NoTags
    /\ savedBy' = last
    /\ UNCHANGED <<mem, vfs, fresh, given, last>>

Next ==
    \/ \E a \in Accounts : GenerateInstag(a)
    \/ LoadInstagsFromFS
    \/ Construct
    \/ DeleteVfsFiles
    \/ SaveInstagsToFS

Spec == Init /\ [][Next]_vars

-----------------------------------------------------------------------------

\* instag() answers with the tag generateInstag() gave last, whatever tags
\* were there and were generated for other accounts.
Newest == \A a \in Accounts : given[a] # NONE => FindInstag(mem, a) = given[a]

Single(list) == \A i, j \in DOMAIN list : list[i][1] = list[j][1] => i = j

\* A user made from a file saved whole never answers instag() with another tag
\* than the user that saved it did, provided that no account is twice in the
\* file.  (Otherwise the list, written from its head and read to its head, has
\* turned round, and the tag that had been replaced is found first.)  Nor does
\* it lose a tag, unless the save came after a load onto tags in memory, with
\* none generated since: the file saved is then the one that was loaded, and an
\* account that is only in memory is not in it.
SingleSurvives ==
    [][(Construct /\ vfs' # NOFILE /\ Single(disk)) =>
         \A a \in Accounts :
            \/ saved[a] = NONE
            \/ FindInstag(mem', a) = saved[a]
            \/ savedBy = "merge" /\ FindInstag(mem', a) = NONE]_vars

\* A tag given since the last load is in the virtual file, to be saved, unless
\* deleteVfsFiles() has taken the file away since.
GivenWritten ==
    last # "delete" =>
      \A a \in Accounts :
        given[a] # NONE => vfs # NOFILE /\ FindInstag(vfs, a) = given[a]

=============================================================================
