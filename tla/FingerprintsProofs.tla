------------------------- MODULE FingerprintsProofs -------------------------
(* Proofs about Fingerprints, for any contacts, prints and keys.  The       *)
(* theorems about trust come first and need no more of the lists than       *)
(* Types; the order of the lists, and that of the files, comes last.        *)
EXTENDS Fingerprints, NumberInduction, TLAPS

FileTrust == {"ABSENT", "UNTRUSTED", "TRUSTED"}

MemoryTrust == [Contacts -> [Prints -> Trust]]

OnFile == [Contacts -> [Prints -> FileTrust]]

\* The part of TypeOK the proofs need.
Types ==
    /\ keyring \in [Contacts -> SUBSET Prints]
    /\ trust \in MemoryTrust
    /\ vfs.trust \in OnFile
    /\ disk.trust \in OnFile
    /\ active \in [Contacts -> Pointer]

LEMMA NothingTyped == Nothing \in OnFile /\ Nothing \in MemoryTrust
    BY DEF Nothing, OnFile, FileTrust, MemoryTrust, Trust

\* What is written is a file's trust, and reading it changes nothing more.
LEMMA AsFileTyped == ASSUME NEW t \in MemoryTrust PROVE AsFile(t) \in OnFile
    BY DEF AsFile, Line, OnFile, FileTrust, MemoryTrust, Trust

LEMMA AsFileStable ==
    ASSUME NEW t \in OnFile PROVE AsFile(t) = t /\ t \in MemoryTrust
    BY DEF AsFile, Line, OnFile, FileTrust, MemoryTrust, Trust

\* Merging a file into memory gives a memory; merging it into an empty one
\* gives the file's own trust.
LEMMA MergeTyped ==
    ASSUME NEW t \in MemoryTrust, NEW o, NEW file, file.trust \in OnFile, MergeInto(t, o, file)
    PROVE  trust' \in MemoryTrust
    BY DEF MergeInto, MemoryTrust, OnFile, FileTrust, Trust

LEMMA MergeEmpty ==
    ASSUME NEW o, NEW file, file.trust \in OnFile, MergeInto(Nothing, o, file)
    PROVE  trust' = file.trust
    BY DEF MergeInto, Nothing, OnFile

\* A file that was cut short gives no print a trust the whole one did not.
LEMMA CutTrust ==
    ASSUME NEW file, file.trust \in OnFile, NEW whole, NEW d \in Contacts, NEW n,
           NEW left \in Cut(file, whole, d, n)
    PROVE  /\ left.trust \in OnFile
           /\ \A c \in Contacts, f \in Prints :
                 left.trust[c][f] = "TRUSTED" => file.trust[c][f] = "TRUSTED"
    BY DEF Cut, OnFile, FileTrust

\* Reused memory is in use as one of the new prints.
LEMMA ReuseTyped ==
    ASSUME active \in [Contacts -> Pointer], NEW new \in SUBSET (Contacts \X Prints),
           NEW a \in Reuse(new)
    PROVE  /\ a \in [Contacts -> Pointer]
           /\ \A c \in Contacts : a[c] = active[c] \/ (active[c] = FREED /\ a[c] \in new)
    BY DEF Reuse, Pointer

\* Freeing prints leaves the pointers to others alone.
LEMMA PointersTyped ==
    ASSUME active \in [Contacts -> Pointer], NEW freed
    PROVE  /\ Pointers(freed) \in [Contacts -> Pointer]
           /\ \A c \in Contacts :
                Pointers(freed)[c] = IF active[c] \in freed THEN FREED ELSE active[c]
    BY DEF Pointers, Pointer

-----------------------------------------------------------------------------

LEMMA InitTypes == Init => Types
    BY PrintsAssumption, NothingTyped DEF Init, Types, Missing, Pointer

LEMMA StepTypes == Types /\ [Next]_vars => Types'
<1>. SUFFICES ASSUME Types, [Next]_vars PROVE Types'
  OBVIOUS
<1>. USE DEF Types
<1>k. keyring' = keyring
  BY DEF Next, vars
<1>e. Ends => trust' \in MemoryTrust /\ vfs'.trust \in OnFile
              /\ active' \in [Contacts -> Pointer]
  BY NothingTyped DEF Ends, Missing, Pointer
<1>w. trust' \in MemoryTrust /\ Write => vfs'.trust \in OnFile
  BY AsFileTyped DEF Write
<1>1. ASSUME NEW c \in Contacts, Operation(c) PROVE Types'
  <2>1. CASE GoSecure(c)
    <3>1. PICK f \in keyring[c] :
            /\ \E a \in Reuse({<<c, g>> : g \in {f} \ Known(c)}) :
                 active' = [a EXCEPT ![c] = <<c, f>>]
            /\ IF f \in Known(c) THEN UNCHANGED <<memory, vfs, spoiled>>
                                 ELSE Add(c, f) /\ WriteEvent
      BY <2>1 DEF GoSecure
    <3>2. f \in Prints
      OBVIOUS
    <3>3. active' \in [Contacts -> Pointer]
      <4>1. {<<c, g>> : g \in {f} \ Known(c)} \in SUBSET (Contacts \X Prints)
        BY <3>2
      <4>2. PICK a \in Reuse({<<c, g>> : g \in {f} \ Known(c)}) :
              active' = [a EXCEPT ![c] = <<c, f>>]
        BY <3>1
      <4>3. a \in [Contacts -> Pointer]
        BY <4>1, <4>2, ReuseTyped
      <4>4. <<c, f>> \in Pointer
        BY <3>2 DEF Pointer
      <4>. QED BY <4>2, <4>3, <4>4
    <3>4. CASE f \in Known(c)
      BY <2>1, <3>1, <3>3, <3>4, <1>k DEF GoSecure, memory
    <3>5. CASE f \notin Known(c)
      <4>0. trust' = [trust EXCEPT ![c][f] = "UNSET"]
        BY <3>1, <3>5 DEF Add
      <4>1. trust' \in MemoryTrust
        BY <4>0, <3>2 DEF MemoryTrust, Trust
      <4>. QED BY <2>1, <3>1, <3>3, <3>5, <4>1, <1>k, <1>w DEF GoSecure, WriteEvent
    <3>. QED BY <3>4, <3>5
  <2>2. CASE SmpEnds(c)
    <3>1. trust' \in MemoryTrust
      BY <2>2 DEF SmpEnds, SetTrust, Present, Known, Outcome, MemoryTrust, Trust
    <3>. QED BY <2>2, <3>1, <1>k, <1>w DEF SmpEnds, WriteEvent, conversations
  <2>3. CASE SmpEndsOnFreed(c)
    BY <2>3, <1>k, <1>e, <1>w DEF SmpEndsOnFreed, WriteEvent, memory, conversations
  <2>4. CASE Leave(c)
    BY <2>4, <1>k DEF Leave, memory, Pointer
  <2>5. CASE TrustPrint(c)
    BY <2>5, <1>k DEF TrustPrint, Known, Outcome, MemoryTrust, Trust, conversations
  <2>6. CASE DeletePrint(c)
    <3>1. trust' \in MemoryTrust
      BY <2>6 DEF DeletePrint, Known, MemoryTrust, Trust
    <3>. QED BY <2>6, <3>1, <1>k, PointersTyped DEF DeletePrint
  <2>7. CASE DeleteContact(c)
    <3>1. trust' \in MemoryTrust
      BY <2>7 DEF DeleteContact, MemoryTrust, Trust
    <3>. QED BY <2>7, <3>1, <1>k, PointersTyped DEF DeleteContact
  <2>. QED BY <1>1, <2>1, <2>2, <2>3, <2>4, <2>5, <2>6, <2>7 DEF Operation
<1>2. CASE WriteFingerprints
  BY <1>2, <1>k, <1>w DEF WriteFingerprints, memory, conversations
<1>3. CASE WriteTrusted
  <2>1. vfs'.trust \in OnFile
    <3>1. CASE \A c \in Contacts : WrittenAsTrusted(c) = {}
      BY <1>3, <3>1 DEF WriteTrusted
    <3>2. CASE ~ \A c \in Contacts : WrittenAsTrusted(c) = {}
      <4>1. vfs'.trust = [c \in Contacts |-> [f \in Prints |->
                             IF f \in WrittenAsTrusted(c) THEN Line(trust[c][f]) ELSE "ABSENT"]]
        BY <1>3, <3>2 DEF WriteTrusted
      <4>2. \A c \in Contacts, f \in Prints : Line(trust[c][f]) \in FileTrust
        BY DEF Line, MemoryTrust, Trust, FileTrust
      <4>. QED BY <4>1, <4>2 DEF OnFile, FileTrust
    <3>. QED BY <3>1, <3>2
  <2>. QED BY <1>3, <2>1, <1>k DEF WriteTrusted, memory, conversations
<1>4. CASE WriteTrustedAborts
  BY <1>4, <1>k, <1>e DEF WriteTrustedAborts
<1>5. CASE Load
  <2>1. trust' \in MemoryTrust
    BY <1>5, MergeTyped DEF Load
  <2>2. active' \in [Contacts -> Pointer]
    <3>1. PICK new \in SUBSET (Contacts \X Prints) : active' \in Reuse(new)
      BY <1>5 DEF Load
    <3>. QED BY <3>1, ReuseTyped
  <2>. QED BY <1>5, <1>k, <2>1, <2>2 DEF Load
<1>6. CASE Construct
  <2>1. trust' \in MemoryTrust /\ vfs'.trust \in OnFile
    BY <1>6, MergeTyped, NothingTyped DEF Construct, Missing
  <2>. QED BY <1>6, <1>k, <2>1 DEF Construct, Pointer
<1>7. CASE Save
  BY <1>7, <1>k DEF Save, memory, conversations
<1>8. CASE SaveCut
  <2>1. disk'.trust \in OnFile
    BY <1>8, CutTrust DEF SaveCut
  <2>. QED BY <1>8, <2>1, <1>k, <1>e DEF SaveCut, memory, conversations
<1>9. CASE Exit
  BY <1>9, <1>k, <1>e DEF Exit
<1>10. CASE DeleteVfsFiles
  BY <1>10, <1>k, NothingTyped DEF DeleteVfsFiles, memory, conversations, Missing
<1>11. CASE UNCHANGED vars
  BY <1>11 DEF vars, memory, conversations
<1>. QED
  BY <1>1, <1>2, <1>3, <1>4, <1>5, <1>6, <1>7, <1>8, <1>9, <1>10, <1>11 DEF Next, Step

-----------------------------------------------------------------------------

LEMMA StepListed == Types /\ ActiveListed /\ [Next]_vars => ActiveListed'
<1>. SUFFICES ASSUME Types, ActiveListed, [Next]_vars PROVE ActiveListed'
  OBVIOUS
<1>. USE DEF Types, MemoryTrust, Known
<1>e. Ends => ActiveListed'
  BY DEF Ends, ActiveListed
\* Prints that stay, and pointers that stay or move to a new print.
<1>s. ASSUME NEW new, loose' = loose,
             \A p \in Contacts \X Prints :
                p \in new \/ trust[p[1]][p[2]] # "ABSENT" => trust'[p[1]][p[2]] # "ABSENT",
             new \subseteq Contacts \X Prints,
             \A d \in Contacts :
                active'[d] = active[d] \/ (active[d] = FREED /\ active'[d] \in new)
      PROVE  ActiveListed'
  BY <1>s, PrintsAssumption DEF ActiveListed, Present
<1>k. ASSUME UNCHANGED <<active, loose>>,
             \A d \in Contacts, g \in Prints :
                trust[d][g] # "ABSENT" => trust'[d][g] # "ABSENT"
      PROVE  ActiveListed'
  BY <1>k DEF ActiveListed, Present
\* Prints that are deleted, and the pointers to them.
<1>d. ASSUME NEW freed, active' = Pointers(freed), loose' = Loosened(freed),
             \A p \in Contacts \X Prints :
                p \notin freed /\ trust[p[1]][p[2]] # "ABSENT" => trust'[p[1]][p[2]] # "ABSENT"
      PROVE  ActiveListed'
  BY <1>d, PointersTyped DEF ActiveListed, Present, Loosened
<1>1. ASSUME NEW c \in Contacts, Operation(c) PROVE ActiveListed'
  <2>1. CASE GoSecure(c)
    <3>1. PICK f \in keyring[c] :
            /\ \E a \in Reuse({<<c, g>> : g \in {f} \ Known(c)}) :
                 active' = [a EXCEPT ![c] = <<c, f>>]
            /\ IF f \in Known(c) THEN UNCHANGED <<memory, vfs, spoiled>>
                                 ELSE Add(c, f) /\ WriteEvent
      BY <2>1 DEF GoSecure
    <3>2. f \in Prints /\ loose' = loose \ {c}
      BY <2>1 DEF GoSecure
    <3>3. PICK a \in Reuse({<<c, g>> : g \in {f} \ Known(c)}) :
            active' = [a EXCEPT ![c] = <<c, f>>]
      BY <3>1
    <3>4. /\ a \in [Contacts -> Pointer]
          /\ \A d \in Contacts : a[d] = active[d] \/ (active[d] = FREED /\ a[d] = <<c, f>>)
      <4>1. {<<c, g>> : g \in {f} \ Known(c)} \in SUBSET (Contacts \X Prints)
        BY <3>2
      <4>2. /\ a \in [Contacts -> Pointer]
            /\ \A d \in Contacts :
                 \/ a[d] = active[d]
                 \/ active[d] = FREED /\ a[d] \in {<<c, g>> : g \in {f} \ Known(c)}
        BY <3>3, <4>1, ReuseTyped
      <4>. QED BY <4>2
    <3>5. /\ trust'[c][f] # "ABSENT"
          /\ \A d \in Contacts, g \in Prints :
                trust[d][g] # "ABSENT" => trust'[d][g] # "ABSENT"
      <4>1. CASE f \in Known(c)
        BY <3>1, <3>2, <4>1 DEF memory
      <4>2. CASE f \notin Known(c)
        <5>1. trust' = [trust EXCEPT ![c][f] = "UNSET"]
          BY <3>1, <4>2 DEF Add
        <5>. QED BY <3>2, <5>1
      <4>. QED BY <4>1, <4>2
    <3>6. active'[c] = <<c, f>> /\ \A d \in Contacts \ {c} : active'[d] = a[d]
      BY <3>3, <3>4
    <3>7. ASSUME NEW d \in Contacts
          PROVE  \/ d \notin loose' /\ active'[d] = NULL
                 \/ d \notin loose' /\ Present(active[d])' /\ active'[d][1] = d
                 \/ d \in loose' /\ (active'[d] = FREED \/ Present(active[d])')
      <4>1. CASE d = c
        <5>1. active'[d] = <<c, f>> /\ active'[d][1] = c /\ active'[d][2] = f
          BY <3>6, <4>1
        <5>2. d \notin loose' /\ f \in Known(c)'
          BY <3>2, <3>5, <4>1
        <5>3. Present(active[d])'
          BY <3>2, <5>1, <5>2 DEF Present
        <5>. QED BY <4>1, <5>1, <5>2, <5>3
      <4>2. CASE d # c /\ active'[d] = active[d]
        BY <3>2, <3>5, <4>2 DEF Present, ActiveListed
      <4>3. CASE d # c /\ active[d] = FREED /\ active'[d] = <<c, f>>
        <5>1. d \in loose'
          BY <3>2, <4>3, PrintsAssumption DEF ActiveListed, Present
        <5>. QED BY <3>2, <3>5, <4>3, <5>1 DEF Present
      <4>. QED BY <3>4, <3>6, <4>1, <4>2, <4>3
    <3>. QED BY <3>7 DEF ActiveListed
  <2>2. CASE SmpEnds(c)
    BY <2>2, <1>k DEF SmpEnds, SetTrust, Present, Outcome, conversations
  <2>3. CASE SmpEndsOnFreed(c)
    BY <2>3, <1>e, <1>k DEF SmpEndsOnFreed, memory, conversations
  <2>4. CASE Leave(c)
    BY <2>4 DEF Leave, memory, ActiveListed, Present
  <2>5. CASE TrustPrint(c)
    BY <2>5, <1>k DEF TrustPrint, Outcome, conversations
  <2>6. CASE DeletePrint(c)
    <3>1. PICK f \in Known(c) :
            /\ trust' = [trust EXCEPT ![c][f] = "ABSENT"]
            /\ active' = Pointers({<<c, f>>})
            /\ loose' = Loosened({<<c, f>>})
      BY <2>6 DEF DeletePrint
    <3>2. ASSUME NEW p \in Contacts \X Prints, p \notin {<<c, f>>},
                 trust[p[1]][p[2]] # "ABSENT"
          PROVE  trust'[p[1]][p[2]] # "ABSENT"
      BY <3>1, <3>2
    <3>. QED BY <3>1, <3>2, <1>d
  <2>7. CASE DeleteContact(c)
    <3>1. /\ trust' = [trust EXCEPT ![c] = [f \in Prints |-> "ABSENT"]]
          /\ active' = Pointers({c} \X Prints)
          /\ loose' = Loosened({c} \X Prints)
      BY <2>7 DEF DeleteContact
    <3>2. ASSUME NEW p \in Contacts \X Prints, p \notin {c} \X Prints,
                 trust[p[1]][p[2]] # "ABSENT"
          PROVE  trust'[p[1]][p[2]] # "ABSENT"
      BY <3>1, <3>2
    <3>. QED BY <3>1, <3>2, <1>d
  <2>. QED BY <1>1, <2>1, <2>2, <2>3, <2>4, <2>5, <2>6, <2>7 DEF Operation
<1>2. CASE WriteFingerprints \/ WriteTrusted \/ Save \/ DeleteVfsFiles
  BY <1>2, <1>k DEF WriteFingerprints, WriteTrusted, Save, DeleteVfsFiles, memory, conversations
<1>3. CASE WriteTrustedAborts \/ Exit
  BY <1>3, <1>e DEF WriteTrustedAborts, Exit
<1>4. CASE Load
  <2>. DEFINE new == {p \in Contacts \X Prints :
                        trust[p[1]][p[2]] = "ABSENT" /\ disk.trust[p[1]][p[2]] # "ABSENT"}
  <2>1. active' \in Reuse(new) /\ loose' = loose /\ MergeInto(trust, order, disk)
    BY <1>4 DEF Load
  <2>2. new \in SUBSET (Contacts \X Prints)
    OBVIOUS
  <2>3. ASSUME NEW p \in Contacts \X Prints, p \in new \/ trust[p[1]][p[2]] # "ABSENT"
        PROVE  trust'[p[1]][p[2]] # "ABSENT"
    BY <2>1, <2>3 DEF MergeInto
  <2>. HIDE DEF new
  <2>4. \A d \in Contacts :
          active'[d] = active[d] \/ (active[d] = FREED /\ active'[d] \in new)
    BY <2>1, <2>2, ReuseTyped
  <2>. QED BY <2>1, <2>2, <2>3, <2>4, <1>s
<1>5. CASE Construct
  BY <1>5 DEF Construct, ActiveListed
<1>6. CASE SaveCut
  BY <1>6, <1>e, <1>k DEF SaveCut, memory, conversations
<1>7. CASE UNCHANGED vars
  BY <1>7, <1>k DEF vars, memory, conversations
<1>. QED BY <1>1, <1>2, <1>3, <1>4, <1>5, <1>6, <1>7 DEF Next, Step

\* The fingerprint of a conversation is in the list of its contact, unless the
\* application deleted it under the conversation; then it is freed memory or
\* a print of some list, never a deleted one.
THEOREM ActiveIsListed == Spec => []ActiveListed
<1>1. Init => ActiveListed
  BY DEF Init, ActiveListed
<1>. QED BY InitTypes, StepTypes, StepListed, <1>1, PTL DEF Spec

-----------------------------------------------------------------------------

LEMMA InitEarned == Init => TrustEarned
    BY DEF Init, TrustEarned, Missing, Nothing

\* A step that trusts nothing new, in any of the three places, keeps it.
LEMMA KeepsEarned ==
    ASSUME TrustEarned, granted \cup strayed \subseteq granted' \cup strayed',
           \A c \in Contacts, f \in Prints :
              "TRUSTED" \in {trust'[c][f], vfs'.trust[c][f], disk'.trust[c][f]} =>
                 \/ "TRUSTED" \in {trust[c][f], vfs.trust[c][f], disk.trust[c][f]}
                 \/ <<c, f>> \in granted' \cup strayed'
    PROVE  TrustEarned'
    BY DEF TrustEarned

LEMMA StepEarned == Types /\ ActiveListed /\ TrustEarned /\ [Next]_vars => TrustEarned'
<1>. SUFFICES ASSUME Types, ActiveListed, TrustEarned, [Next]_vars PROVE TrustEarned'
  OBVIOUS
<1>. USE DEF Types, MemoryTrust, earned
<1>e. Ends => \A c \in Contacts, f \in Prints :
                 trust'[c][f] # "TRUSTED" /\ vfs'.trust[c][f] # "TRUSTED"
  BY DEF Ends, Missing, Nothing
<1>w. Write => \A c \in Contacts, f \in Prints :
                  vfs'.trust[c][f] = "TRUSTED" => trust'[c][f] = "TRUSTED"
  BY DEF Write, AsFile, Line
<1>1. ASSUME NEW c \in Contacts, Operation(c) PROVE TrustEarned'
  <2>1. CASE GoSecure(c)
    <3>1. PICK f \in keyring[c] :
            IF f \in Known(c) THEN UNCHANGED <<memory, vfs, spoiled>>
                              ELSE Add(c, f) /\ WriteEvent
      BY <2>1 DEF GoSecure
    <3>2. UNCHANGED <<disk, earned>>
      BY <2>1 DEF GoSecure
    <3>3. CASE f \in Known(c)
      BY <3>1, <3>2, <3>3, KeepsEarned DEF memory
    <3>4. CASE f \notin Known(c)
      <4>1. Write /\ trust' = [trust EXCEPT ![c][f] = "UNSET"]
        BY <3>1, <3>4 DEF Add, WriteEvent
      <4>. QED BY <3>2, <4>1, <1>w, KeepsEarned
    <3>. QED BY <3>3, <3>4
  <2>2. CASE SmpEnds(c)
    <3>1. PICK result \in Outcome :
            /\ SetTrust(active[c], result)
            /\ IF c \notin loose
               THEN Grant(c, active[c][2], result) /\ UNCHANGED strayed
               ELSE /\ strayed' = IF result = "TRUSTED" THEN strayed \cup {active[c]}
                                                         ELSE strayed
                    /\ UNCHANGED granted
      BY <2>2 DEF SmpEnds
    <3>2. Write /\ UNCHANGED disk /\ Present(active[c])
      BY <2>2 DEF SmpEnds, WriteEvent
    <3>3. c \notin loose => active[c][1] = c
      BY <3>2, PrintsAssumption DEF ActiveListed, Present
    <3>4. granted \cup strayed \subseteq granted' \cup strayed'
      BY <3>1 DEF Grant
    <3>5. ASSUME result = "TRUSTED" PROVE active[c] \in granted' \cup strayed'
      <4>1. PICK d \in Contacts, g \in Prints : active[c] = <<d, g>>
        BY <3>2 DEF Present
      <4>. QED BY <3>1, <3>3, <3>5, <4>1 DEF Grant
    <3>6. ASSUME NEW d \in Contacts, NEW f \in Prints, trust'[d][f] = "TRUSTED"
          PROVE  trust[d][f] = "TRUSTED" \/ <<d, f>> \in granted' \cup strayed'
      <4>1. PICK e \in Contacts, g \in Prints : active[c] = <<e, g>>
        BY <3>2 DEF Present
      <4>2. trust' = [trust EXCEPT ![e][g] = result]
        BY <3>1, <4>1 DEF SetTrust
      <4>. QED BY <3>5, <3>6, <4>1, <4>2
    <3>. QED BY <3>2, <3>4, <3>6, <1>w, KeepsEarned
  <2>3. CASE SmpEndsOnFreed(c)
    <3>1. UNCHANGED <<disk, earned>>
      BY <2>3 DEF SmpEndsOnFreed
    <3>2. CASE Ends
      BY <3>1, <3>2, <1>e, KeepsEarned
    <3>3. CASE UNCHANGED memory /\ Write
      BY <3>1, <3>3, <1>w, KeepsEarned DEF memory
    <3>. QED BY <2>3, <3>2, <3>3 DEF SmpEndsOnFreed, WriteEvent
  <2>4. CASE Leave(c)
    BY <2>4, KeepsEarned DEF Leave, memory
  <2>5. CASE TrustPrint(c)
    BY <2>5, KeepsEarned DEF TrustPrint, Grant
  <2>6. CASE DeletePrint(c)
    BY <2>6, KeepsEarned DEF DeletePrint
  <2>7. CASE DeleteContact(c)
    BY <2>7, KeepsEarned DEF DeleteContact
  <2>. QED BY <1>1, <2>1, <2>2, <2>3, <2>4, <2>5, <2>6, <2>7 DEF Operation
<1>2. CASE WriteFingerprints
  BY <1>2, <1>w, KeepsEarned DEF WriteFingerprints, memory
<1>3. CASE WriteTrusted
  <2>1. UNCHANGED <<trust, disk, earned>>
    BY <1>3 DEF WriteTrusted, memory
  <2>2. CASE \A c \in Contacts : WrittenAsTrusted(c) = {}
    BY <1>3, <2>1, <2>2, KeepsEarned DEF WriteTrusted
  <2>3. CASE ~ \A c \in Contacts : WrittenAsTrusted(c) = {}
    <3>1. vfs'.trust = [c \in Contacts |-> [f \in Prints |->
                           IF f \in WrittenAsTrusted(c) THEN Line(trust[c][f]) ELSE "ABSENT"]]
      BY <1>3, <2>3 DEF WriteTrusted
    <3>. QED BY <2>1, <3>1, KeepsEarned DEF Line
  <2>. QED BY <2>2, <2>3
<1>4. CASE WriteTrustedAborts \/ Exit
  BY <1>4, <1>e, KeepsEarned DEF WriteTrustedAborts, Exit
<1>5. CASE Load
  BY <1>5, KeepsEarned DEF Load, MergeInto
<1>6. CASE Construct
  <2>1. vfs'.trust = Nothing \/ vfs' = disk
    BY <1>6 DEF Construct, Missing
  <2>2. vfs'.trust \in OnFile /\ MergeInto(Nothing, EmptyLists, vfs')
    BY <1>6, <2>1, NothingTyped DEF Construct
  <2>3. trust' = vfs'.trust
    BY <2>2, MergeEmpty
  <2>4. UNCHANGED <<disk, earned>>
    BY <1>6 DEF Construct
  <2>. QED BY <2>1, <2>3, <2>4, KeepsEarned DEF Nothing
<1>7. CASE Save
  BY <1>7, KeepsEarned DEF Save, memory
<1>8. CASE SaveCut
  <2>1. \A c \in Contacts, f \in Prints :
           disk'.trust[c][f] = "TRUSTED" => vfs.trust[c][f] = "TRUSTED"
    BY <1>8, CutTrust DEF SaveCut
  <2>2. UNCHANGED earned /\ (Ends \/ UNCHANGED <<memory, vfs>>)
    BY <1>8 DEF SaveCut
  <2>. QED BY <2>1, <2>2, <1>e, KeepsEarned DEF memory
<1>9. CASE DeleteVfsFiles
  BY <1>9, KeepsEarned DEF DeleteVfsFiles, memory, Missing, Nothing
<1>10. CASE UNCHANGED vars
  BY <1>10, KeepsEarned DEF vars, memory
<1>. QED
  BY <1>1, <1>2, <1>3, <1>4, <1>5, <1>6, <1>7, <1>8, <1>9, <1>10 DEF Next, Step

\* Nothing is trusted, in memory or in a file, that was not trusted for that
\* contact, but what an authentication trusts through a pointer to the memory
\* of a print that was deleted under its conversation.
THEOREM TrustIsEarned == Spec => []TrustEarned
<1>1. Init => ActiveListed
  BY DEF Init, ActiveListed
<1>. QED BY InitTypes, StepTypes, StepListed, InitEarned, StepEarned, <1>1, PTL DEF Spec

-----------------------------------------------------------------------------

\* The trust in memory when the copy was saved is the trust in the copy.
SavedReads == saved # NONE => disk.trust = saved

FileInv == InStep /\ SavedReads

LEMMA InitFile == Init => FileInv
    BY DEF Init, FileInv, InStep, SavedReads, Missing, Nothing, AsFile, Line

LEMMA StepFile == Types /\ FileInv /\ [Next]_vars => FileInv'
<1>. SUFFICES ASSUME Types, FileInv, [Next]_vars PROVE FileInv'
  OBVIOUS
<1>. USE DEF FileInv, InStep, SavedReads
<1>e. Ends => InStep'
  BY DEF Ends, Missing, Nothing, AsFile, Line
<1>w. Write => InStep'
  BY DEF Write, AsFile
<1>1. ASSUME NEW c \in Contacts, Operation(c) PROVE FileInv'
  <2>1. CASE GoSecure(c)
    <3>1. UNCHANGED <<disk, saved>> /\ (UNCHANGED <<memory, vfs, spoiled>> \/ Write)
      BY <2>1 DEF GoSecure, WriteEvent
    <3>. QED BY <3>1, <1>w DEF memory, AsFile
  <2>2. CASE SmpEnds(c)
    BY <2>2, <1>w DEF SmpEnds, WriteEvent
  <2>3. CASE SmpEndsOnFreed(c)
    BY <2>3, <1>e, <1>w DEF SmpEndsOnFreed, WriteEvent
  <2>4. CASE Leave(c)
    BY <2>4 DEF Leave, memory, AsFile
  <2>5. CASE TrustPrint(c)
    BY <2>5 DEF TrustPrint
  <2>6. CASE DeletePrint(c)
    BY <2>6 DEF DeletePrint
  <2>7. CASE DeleteContact(c)
    BY <2>7 DEF DeleteContact
  <2>. QED BY <1>1, <2>1, <2>2, <2>3, <2>4, <2>5, <2>6, <2>7 DEF Operation
<1>2. CASE WriteFingerprints
  BY <1>2, <1>w DEF WriteFingerprints
<1>3. CASE WriteTrusted \/ DeleteVfsFiles
  BY <1>3 DEF WriteTrusted, DeleteVfsFiles
<1>4. CASE WriteTrustedAborts \/ Exit
  BY <1>4, <1>e DEF WriteTrustedAborts, Exit
<1>5. CASE Load
  <2>1. CASE trust = Nothing
    <3>1. trust' = disk.trust /\ vfs' = disk
      BY <1>5, <2>1, MergeEmpty DEF Load, Types
    <3>. QED BY <1>5, <3>1, AsFileStable DEF Load, Types
  <2>2. CASE trust # Nothing
    BY <1>5, <2>2 DEF Load
  <2>. QED BY <2>1, <2>2
<1>6. CASE Construct
  <2>1. vfs'.trust \in OnFile
    BY <1>6, NothingTyped DEF Construct, Missing, Types
  <2>2. trust' = vfs'.trust
    BY <1>6, <2>1, MergeEmpty DEF Construct
  <2>. QED BY <1>6, <2>1, <2>2, AsFileStable DEF Construct
<1>7. CASE Save
  BY <1>7 DEF Save, memory, AsFile
<1>8. CASE SaveCut
  <2>1. Ends \/ UNCHANGED <<memory, vfs, spoiled>>
    BY <1>8 DEF SaveCut
  <2>. QED BY <1>8, <2>1, <1>e DEF SaveCut, memory, AsFile
<1>9. CASE UNCHANGED vars
  BY <1>9 DEF vars, memory, AsFile
<1>. QED
  BY <1>1, <1>2, <1>3, <1>4, <1>5, <1>6, <1>7, <1>8, <1>9 DEF Next, Step

\* The virtual file says what is in memory, until the application parts them.
THEOREM FileInStep == Spec => []InStep
<1>1. FileInv => InStep
  BY DEF FileInv
<1>. QED BY InitTypes, StepTypes, InitFile, StepFile, <1>1, PTL DEF Spec

\* A new user that reads a copy saved whole has the trust of that time.
THEOREM TrustRecovered == Spec => Recovers
<1>1. Types /\ FileInv /\ [Next]_vars =>
        [(Construct /\ vfs'.exists /\ saved # NONE) => trust' = saved]_vars
  <2>. SUFFICES ASSUME Types, FileInv, Construct, vfs'.exists, saved # NONE
                PROVE  trust' = saved
    OBVIOUS
  <2>1. vfs' = disk
    BY DEF Construct, Missing
  <2>2. trust' = disk.trust
    BY <2>1, MergeEmpty DEF Construct, Types
  <2>. QED BY <2>2 DEF FileInv, SavedReads
<1>. QED BY InitTypes, StepTypes, InitFile, StepFile, <1>1, PTL DEF Spec, Recovers

-----------------------------------------------------------------------------

(* The lists. *)

\* A sequence has every member of a set once and nothing else.
Lists(s, S) == s \in Seq(Prints) /\ IsInjective(s) /\ Range(s) = S

LEMMA ListsFacts ==
    ASSUME NEW s, NEW S
    PROVE  Lists(s, S) <=>
             /\ s \in Seq(Prints)
             /\ \A i, j \in 1..Len(s) : s[i] = s[j] => i = j
             /\ \A i \in 1..Len(s) : s[i] \in S
             /\ \A f \in S : \E i \in 1..Len(s) : s[i] = f
<1>1. CASE s \in Seq(Prints)
  <2>1. DOMAIN s = 1..Len(s)
    BY <1>1
  <2>2. Range(s) = S <=> /\ \A i \in 1..Len(s) : s[i] \in S
                         /\ \A f \in S : \E i \in 1..Len(s) : s[i] = f
    BY <2>1 DEF Range
  <2>. QED BY <1>1, <2>1, <2>2 DEF Lists, IsInjective
<1>2. CASE s \notin Seq(Prints)
  BY <1>2 DEF Lists
<1>. QED BY <1>1, <1>2

LEMMA EmptyListed == Lists(<<>>, {})
<1>1. <<>> \in Seq(Prints) /\ DOMAIN <<>> = {}
  OBVIOUS
<1>. QED BY <1>1 DEF Lists, IsInjective, Range

LEMMA ListsAppend ==
    ASSUME NEW S, NEW s, Lists(s, S), NEW f \in Prints \ S
    PROVE  Lists(Append(s, f), S \cup {f})
<1>. DEFINE t == Append(s, f)
<1>1. /\ s \in Seq(Prints)
      /\ \A i, j \in 1..Len(s) : s[i] = s[j] => i = j
      /\ \A i \in 1..Len(s) : s[i] \in S
      /\ \A g \in S : \E i \in 1..Len(s) : s[i] = g
  BY ListsFacts
<1>2. /\ t \in Seq(Prints) /\ Len(s) \in Nat /\ Len(t) = Len(s) + 1
      /\ \A i \in 1..Len(s) : t[i] = s[i]
      /\ t[Len(s) + 1] = f
  BY <1>1
<1>. HIDE DEF t
<1>3. \A i \in 1..Len(t) : i \in 1..Len(s) \/ i = Len(s) + 1
  BY <1>2
<1>4. \A i, j \in 1..Len(t) : t[i] = t[j] => i = j
  BY <1>1, <1>2, <1>3
<1>5. \A i \in 1..Len(t) : t[i] \in S \cup {f}
  BY <1>1, <1>2, <1>3
<1>6. ASSUME NEW g \in S \cup {f} PROVE \E i \in 1..Len(t) : t[i] = g
  <2>1. CASE g = f
    BY <1>2, <2>1
  <2>2. CASE g \in S
    <3>1. PICK i \in 1..Len(s) : s[i] = g
      BY <1>1, <2>2
    <3>2. i \in 1..Len(t) /\ t[i] = g
      BY <1>2, <3>1
    <3>. QED BY <3>2
  <2>. QED BY <2>1, <2>2
<1>. QED BY <1>2, <1>4, <1>5, <1>6, ListsFacts DEF t

\* What Among computes on its way down the list.
KeptUpTo(g, list, set, m) ==
    g = [n \in 0..m |->
           IF n = 0 THEN <<>>
           ELSE IF list[n] \in set THEN Append(g[n - 1], list[n]) ELSE g[n - 1]]

LEMMA AmongDefined ==
    ASSUME NEW list \in Seq(Prints), NEW set
    PROVE  \E g : KeptUpTo(g, list, set, Len(list)) /\ Among(list, set) = g[Len(list)]
<1>. DEFINE N == Len(list)
            G == {m \in 0..N : \E g : KeptUpTo(g, list, set, m)}
<1>0. N \in Nat
  OBVIOUS
<1>. HIDE DEF N
<1>1. 0 \in G
  <2>1. KeptUpTo([n \in 0..0 |-> <<>>], list, set, 0)
    BY DEF KeptUpTo
  <2>. QED BY <1>0, <2>1
<1>2. ASSUME NEW m \in 1..N, m - 1 \in G PROVE m \in G
  <2>1. PICK h : KeptUpTo(h, list, set, m - 1)
    BY <1>2
  <2>. DEFINE g == [n \in 0..m |->
                      IF n < m THEN h[n]
                      ELSE IF list[m] \in set THEN Append(h[m - 1], list[m]) ELSE h[m - 1]]
  <2>2. \A n \in 0..(m - 1) : g[n] = h[n]
    BY <1>0
  <2>3. g[m] = IF list[m] \in set THEN Append(h[m - 1], list[m]) ELSE h[m - 1]
    BY <1>0
  <2>4. DOMAIN g = 0..m /\ g = [n \in 0..m |-> g[n]]
    OBVIOUS
  <2>. HIDE DEF g
  <2>5. ASSUME NEW n \in 0..m
        PROVE  g[n] = IF n = 0 THEN <<>>
                      ELSE IF list[n] \in set THEN Append(g[n - 1], list[n]) ELSE g[n - 1]
    <3>1. CASE n = m
      BY <1>0, <2>2, <2>3, <3>1
    <3>2. CASE n # m
      <4>1. n \in 0..(m - 1) /\ (n # 0 => n - 1 \in 0..(m - 1))
        BY <1>0, <3>2
      <4>2. h[n] = IF n = 0 THEN <<>>
                   ELSE IF list[n] \in set THEN Append(h[n - 1], list[n]) ELSE h[n - 1]
        BY <2>1, <4>1 DEF KeptUpTo
      <4>. QED BY <2>2, <4>1, <4>2
    <3>. QED BY <3>1, <3>2
  <2>6. KeptUpTo(g, list, set, m)
    BY <2>4, <2>5 DEF KeptUpTo
  <2>. QED BY <2>6
<1>3. N \in G
  <2>. HIDE DEF G
  <2>1. 0..N \subseteq G
    BY <1>0, <1>1, <1>2, UpTo
  <2>. QED BY <1>0, <2>1
<1>4. \E g : KeptUpTo(g, list, set, N)
  BY <1>3
<1>. QED BY <1>4 DEF Among, KeptUpTo, N

LEMMA AmongLists ==
    ASSUME NEW S, NEW list, Lists(list, S), NEW set
    PROVE  Lists(Among(list, set), S \cap set)
<1>. DEFINE N == Len(list)
            First(m) == {list[i] : i \in 1..m}
<1>0. N \in Nat /\ list \in Seq(Prints) /\ \A i \in 1..N : list[i] \in Prints
  BY DEF Lists
<1>1. PICK g : KeptUpTo(g, list, set, N) /\ Among(list, set) = g[N]
  BY <1>0, AmongDefined
<1>. DEFINE G == {m \in 0..N : Lists(g[m], First(m) \cap set)}
<1>2. 0 \in G
  <2>1. g[0] = <<>>
    BY <1>0, <1>1 DEF KeptUpTo
  <2>2. First(0) \cap set = {}
    OBVIOUS
  <2>3. Lists(g[0], First(0) \cap set)
    BY <2>1, <2>2, EmptyListed
  <2>. QED BY <1>0, <2>3
<1>3. ASSUME NEW m \in 1..N, m - 1 \in G PROVE m \in G
  <2>1. g[m] = IF list[m] \in set THEN Append(g[m - 1], list[m]) ELSE g[m - 1]
    <3>1. m \in 0..N /\ m # 0
      BY <1>0
    <3>. HIDE DEF N
    <3>2. g = [n \in 0..N |->
                IF n = 0 THEN <<>>
                ELSE IF list[n] \in set THEN Append(g[n - 1], list[n]) ELSE g[n - 1]]
      BY <1>1 DEF KeptUpTo
    <3>. QED BY <3>1, <3>2
  <2>2. First(m) = First(m - 1) \cup {list[m]}
    BY <1>0
  <2>3. list[m] \notin First(m - 1) /\ list[m] \in Prints
    BY <1>0, ListsFacts
  <2>4. Lists(g[m - 1], First(m - 1) \cap set)
    BY <1>3
  <2>. HIDE DEF First
  <2>5. CASE list[m] \notin set
    <3>1. First(m) \cap set = First(m - 1) \cap set
      BY <2>2, <2>5
    <3>2. Lists(g[m], First(m) \cap set)
      BY <2>1, <2>4, <2>5, <3>1
    <3>. QED BY <1>0, <3>2
  <2>6. CASE list[m] \in set
    <3>1. First(m) \cap set = (First(m - 1) \cap set) \cup {list[m]}
      BY <2>2, <2>6
    <3>2. Lists(g[m], First(m) \cap set)
      BY <2>1, <2>3, <2>4, <2>6, <3>1, ListsAppend
    <3>. QED BY <1>0, <3>2
  <2>. QED BY <2>5, <2>6
<1>4. N \in G
  <2>. HIDE DEF G
  <2>1. 0..N \subseteq G
    BY <1>0, <1>2, <1>3, UpTo
  <2>. QED BY <1>0, <2>1
<1>5. First(N) = S
  BY ListsFacts
<1>. QED BY <1>1, <1>4, <1>5
LEMMA ReverseLists ==
    ASSUME NEW S, NEW s, Lists(s, S)
    PROVE  Lists(Reverse(s), S)
<1>. DEFINE t == Reverse(s)
<1>1. /\ s \in Seq(Prints) /\ Len(s) \in Nat
      /\ \A i, j \in 1..Len(s) : s[i] = s[j] => i = j
      /\ \A i \in 1..Len(s) : s[i] \in S
      /\ \A g \in S : \E i \in 1..Len(s) : s[i] = g
  BY ListsFacts
<1>2. /\ t \in Seq(Prints) /\ Len(t) = Len(s)
      /\ \A i \in 1..Len(s) : t[i] = s[(Len(s) - i) + 1]
  BY <1>1 DEF Reverse
<1>. HIDE DEF t
<1>3. \A i \in 1..Len(s) : /\ (Len(s) - i) + 1 \in 1..Len(s)
                           /\ (Len(s) - ((Len(s) - i) + 1)) + 1 = i
  BY <1>1
<1>4. ASSUME NEW i \in 1..Len(t), NEW j \in 1..Len(t), t[i] = t[j] PROVE i = j
  <2>1. s[(Len(s) - i) + 1] = s[(Len(s) - j) + 1]
    BY <1>2, <1>4
  <2>2. (Len(s) - i) + 1 \in 1..Len(s) /\ (Len(s) - j) + 1 \in 1..Len(s)
    BY <1>2, <1>3
  <2>3. (Len(s) - i) + 1 = (Len(s) - j) + 1
    BY <1>1, <2>1, <2>2
  <2>. QED BY <1>1, <1>2, <2>3
<1>5. \A i \in 1..Len(t) : t[i] \in S
  BY <1>1, <1>2, <1>3
<1>6. ASSUME NEW g \in S PROVE \E i \in 1..Len(t) : t[i] = g
  <2>1. PICK i \in 1..Len(s) : s[i] = g
    BY <1>1
  <2>2. t[(Len(s) - i) + 1] = g
    BY <1>2, <1>3, <2>1
  <2>. QED BY <1>2, <1>3, <2>2
<1>. QED BY <1>2, <1>4, <1>5, <1>6, ListsFacts DEF t

LEMMA JoinLists ==
    ASSUME NEW S, NEW s, Lists(s, S), NEW T, NEW t, Lists(t, T), S \cap T = {}
    PROVE  Lists(s \o t, S \cup T)
<1>. DEFINE u == s \o t
<1>1. /\ s \in Seq(Prints) /\ Len(s) \in Nat
      /\ \A i, j \in 1..Len(s) : s[i] = s[j] => i = j
      /\ \A i \in 1..Len(s) : s[i] \in S
      /\ \A g \in S : \E i \in 1..Len(s) : s[i] = g
  BY ListsFacts
<1>2. /\ t \in Seq(Prints) /\ Len(t) \in Nat
      /\ \A i, j \in 1..Len(t) : t[i] = t[j] => i = j
      /\ \A i \in 1..Len(t) : t[i] \in T
      /\ \A g \in T : \E i \in 1..Len(t) : t[i] = g
  BY ListsFacts
<1>3. /\ u \in Seq(Prints) /\ Len(u) = Len(s) + Len(t)
      /\ \A i \in 1..Len(s) : u[i] = s[i]
      /\ \A i \in 1..Len(t) : u[i + Len(s)] = t[i]
  BY <1>1, <1>2
<1>. HIDE DEF u
<1>4. ASSUME NEW i \in 1..Len(u), i \notin 1..Len(s)
      PROVE  i - Len(s) \in 1..Len(t) /\ u[i] = t[i - Len(s)]
  <2>1. i - Len(s) \in 1..Len(t) /\ (i - Len(s)) + Len(s) = i
    BY <1>1, <1>2, <1>3, <1>4
  <2>2. u[(i - Len(s)) + Len(s)] = t[i - Len(s)]
    BY <1>3, <2>1
  <2>. QED BY <2>1, <2>2
<1>5. ASSUME NEW i \in 1..Len(u), NEW j \in 1..Len(u), u[i] = u[j] PROVE i = j
  <2>1. CASE i \in 1..Len(s) /\ j \in 1..Len(s)
    BY <1>1, <1>3, <1>5, <2>1
  <2>2. CASE i \notin 1..Len(s) /\ j \notin 1..Len(s)
    <3>1. i - Len(s) = j - Len(s)
      BY <1>2, <1>4, <1>5, <2>2
    <3>. QED BY <1>1, <1>3, <3>1
  <2>3. ASSUME NEW k \in 1..Len(u)
        PROVE  IF k \in 1..Len(s) THEN u[k] \in S ELSE u[k] \in T
    <3>1. CASE k \in 1..Len(s)
      BY <1>1, <1>3, <3>1
    <3>2. CASE k \notin 1..Len(s)
      BY <1>2, <1>4, <3>2
    <3>. QED BY <3>1, <3>2
  <2>. QED BY <1>5, <2>1, <2>2, <2>3
<1>6. \A i \in 1..Len(u) : u[i] \in S \cup T
  BY <1>1, <1>2, <1>3, <1>4
<1>7. ASSUME NEW g \in S \cup T PROVE \E i \in 1..Len(u) : u[i] = g
  <2>1. CASE g \in S
    <3>1. PICK i \in 1..Len(s) : s[i] = g
      BY <1>1, <2>1
    <3>2. i \in 1..Len(u)
      BY <1>1, <1>2, <1>3
    <3>. QED BY <1>3, <3>1, <3>2
  <2>2. CASE g \in T
    <3>1. PICK i \in 1..Len(t) : t[i] = g
      BY <1>2, <2>2
    <3>2. i + Len(s) \in 1..Len(u)
      BY <1>1, <1>2, <1>3
    <3>. QED BY <1>3, <3>1, <3>2
  <2>. QED BY <2>1, <2>2
<1>. QED BY <1>3, <1>5, <1>6, <1>7, ListsFacts DEF u

LEMMA FirstLists ==
    ASSUME NEW S, NEW s, Lists(s, S), NEW n \in 0..Len(s)
    PROVE  /\ Lists(SubSeq(s, 1, n), Range(SubSeq(s, 1, n)))
           /\ Range(SubSeq(s, 1, n)) \subseteq S
           /\ n > 0 => Last(SubSeq(s, 1, n)) \in Range(SubSeq(s, 1, n))
<1>. DEFINE t == SubSeq(s, 1, n)
<1>1. /\ s \in Seq(Prints) /\ Len(s) \in Nat
      /\ \A i, j \in 1..Len(s) : s[i] = s[j] => i = j
      /\ \A i \in 1..Len(s) : s[i] \in S
  BY ListsFacts
<1>2. /\ t \in Seq(Prints) /\ Len(t) = n /\ DOMAIN t = 1..n
      /\ \A i \in 1..n : t[i] = s[i]
  BY <1>1
<1>. HIDE DEF t
<1>3. IsInjective(t)
  BY <1>1, <1>2 DEF IsInjective
<1>4. Range(t) \subseteq S
  BY <1>1, <1>2 DEF Range
<1>5. n > 0 => Last(t) \in Range(t)
  BY <1>2 DEF Range, Last
<1>. QED BY <1>2, <1>3, <1>4, <1>5 DEF Lists, t

\* The list of each contact has the prints that are not absent, once each.
Listed(o, t) ==
    \A c \in Contacts : Lists(o[c], {f \in Prints : t[c][f] # "ABSENT"})

LEMMA MergeListed ==
    ASSUME NEW t \in MemoryTrust, NEW o, Listed(o, t),
           NEW file, file.trust \in OnFile, Listed(file.order, file.trust),
           MergeInto(t, o, file)
    PROVE  order' \in [Contacts -> Seq(Prints)] /\ Listed(order', trust')
<1>1. ASSUME NEW c \in Contacts
      PROVE  Lists(order'[c], {f \in Prints : trust'[c][f] # "ABSENT"})
  <2>. DEFINE Old == {f \in Prints : t[c][f] # "ABSENT"}
              Away == {f \in Prints : t[c][f] = "ABSENT"}
              OfFile == {f \in Prints : file.trust[c][f] # "ABSENT"}
              new == Among(file.order[c], Away)
  <2>1. Lists(o[c], Old) /\ Lists(file.order[c], OfFile)
    BY DEF Listed
  <2>2. Lists(new, OfFile \cap Away)
    BY <2>1, AmongLists
  <2>3. order'[c] = Reverse(new) \o o[c]
    BY DEF MergeInto
  <2>4. {f \in Prints : trust'[c][f] # "ABSENT"} = (OfFile \cap Away) \cup Old
    BY DEF MergeInto
  <2>5. (OfFile \cap Away) \cap Old = {}
    OBVIOUS
  <2>. HIDE DEF new, Old, Away, OfFile
  <2>6. Lists(Reverse(new), OfFile \cap Away)
    BY <2>2, ReverseLists
  <2>7. Lists(Reverse(new) \o o[c], (OfFile \cap Away) \cup Old)
    BY <2>1, <2>5, <2>6, JoinLists
  <2>. QED BY <2>3, <2>4, <2>7
<1>2. \A c \in Contacts : order'[c] \in Seq(Prints)
  BY <1>1 DEF Lists
<1>. QED BY <1>1, <1>2 DEF Listed, MergeInto

LEMMA CutListed ==
    ASSUME NEW file, file.trust \in OnFile, file.order \in [Contacts -> Seq(Prints)],
           Listed(file.order, file.trust),
           NEW d \in Contacts, NEW whole \in SUBSET (Contacts \ {d}),
           NEW n \in 0..Len(file.order[d]),
           NEW left \in Cut(file, whole, d, n)
    PROVE  left \in File /\ Listed(left.order, left.trust)
<1>. DEFINE lines == SubSeq(file.order[d], 1, n)
            Left(c, f) == c \in whole \/ (c = d /\ f \in Range(lines))
            S(c) == {f \in Prints : file.trust[c][f] # "ABSENT"}
<1>1. PICK shorter \in {FALSE, n > 0} :
        left = [exists |-> TRUE,
                trust |-> [c \in Contacts |-> [f \in Prints |->
                             IF ~Left(c, f) THEN "ABSENT"
                             ELSE IF shorter /\ c = d /\ f = Last(lines) THEN "UNTRUSTED"
                             ELSE file.trust[c][f]]],
                order |-> [c \in Contacts |->
                             IF c \in whole THEN file.order[c]
                             ELSE IF c = d THEN lines ELSE <<>>]]
  BY DEF Cut
<1>2. Lists(file.order[d], S(d))
  BY DEF Listed
<1>3. Lists(lines, Range(lines)) /\ Range(lines) \subseteq S(d)
  BY <1>2, FirstLists
<1>. HIDE DEF lines
<1>4. ASSUME NEW c \in Contacts
      PROVE  Lists(left.order[c], {f \in Prints : left.trust[c][f] # "ABSENT"})
  <2>1. CASE c \in whole
    <3>1. left.order[c] = file.order[c]
      BY <1>1, <2>1
    <3>2. {f \in Prints : left.trust[c][f] # "ABSENT"} = S(c)
      BY <1>1, <2>1
    <3>. QED BY <3>1, <3>2 DEF Listed
  <2>2. CASE c = d
    <3>1. left.order[c] = lines /\ d \notin whole
      BY <1>1, <2>2
    <3>2. {f \in Prints : left.trust[c][f] # "ABSENT"} = Range(lines)
      BY <1>1, <1>3, <2>2, <3>1
    <3>. QED BY <1>3, <3>1, <3>2
  <2>3. CASE c \notin whole /\ c # d
    <3>1. left.order[c] = <<>>
      BY <1>1, <2>3
    <3>2. {f \in Prints : left.trust[c][f] # "ABSENT"} = {}
      BY <1>1, <2>3
    <3>. QED BY <3>1, <3>2, EmptyListed
  <2>. QED BY <2>1, <2>2, <2>3
<1>5. left.trust \in OnFile
  BY <1>1 DEF OnFile, FileTrust
<1>6. left.order \in [Contacts -> Seq(Prints)]
  <2>1. \A c \in Contacts : left.order[c] \in Seq(Prints)
    BY <1>4 DEF Lists
  <2>. QED BY <1>1, <2>1
<1>7. left = [exists |-> TRUE, trust |-> left.trust, order |-> left.order]
  BY <1>1
<1>8. left \in File
  <2>1. left.trust \in [Contacts -> [Prints -> {"ABSENT", "UNTRUSTED", "TRUSTED"}]]
    BY <1>5 DEF OnFile, FileTrust
  <2>2. [exists |-> TRUE, trust |-> left.trust, order |-> left.order] \in File
    BY <1>6, <2>1 DEF File
  <2>. QED BY <1>7, <2>2
<1>. QED BY <1>4, <1>8 DEF Listed

-----------------------------------------------------------------------------

\* Memory and both files have lists of what they have a trust for.
Ordered ==
    /\ order \in [Contacts -> Seq(Prints)] /\ Listed(order, trust)
    /\ vfs \in File /\ Listed(vfs.order, vfs.trust)
    /\ disk \in File /\ Listed(disk.order, disk.trust)

LEMMA NothingListed ==
    /\ EmptyLists \in [Contacts -> Seq(Prints)] /\ Listed(EmptyLists, Nothing)
    /\ Missing \in File /\ Listed(Missing.order, Missing.trust)
<1>1. EmptyLists \in [Contacts -> Seq(Prints)]
  BY DEF EmptyLists
<1>2. Listed(EmptyLists, Nothing)
  <2>1. \A c \in Contacts : {f \in Prints : Nothing[c][f] # "ABSENT"} = {}
    BY DEF Nothing
  <2>. QED BY <2>1, EmptyListed DEF Listed, EmptyLists
<1>3. Missing \in File
  BY <1>1 DEF Missing, Nothing, File
<1>. QED BY <1>1, <1>2, <1>3 DEF Missing

\* A complete write copies the lists.
LEMMA WriteOrdered ==
    ASSUME trust' \in MemoryTrust, order' \in [Contacts -> Seq(Prints)],
           Listed(order', trust'), Write
    PROVE  vfs' \in File /\ Listed(vfs'.order, vfs'.trust)
<1>1. vfs'.trust = AsFile(trust') /\ vfs'.order = order' /\ vfs'.exists = TRUE
      /\ vfs' = [exists |-> TRUE, trust |-> AsFile(trust'), order |-> order']
  BY DEF Write
<1>2. \A c \in Contacts :
        {f \in Prints : vfs'.trust[c][f] # "ABSENT"} = {f \in Prints : trust'[c][f] # "ABSENT"}
  BY <1>1 DEF AsFile, Line, MemoryTrust, Trust
<1>3. AsFile(trust') \in [Contacts -> [Prints -> {"ABSENT", "UNTRUSTED", "TRUSTED"}]]
  BY AsFileTyped DEF OnFile, FileTrust
<1>. QED BY <1>1, <1>2, <1>3 DEF Listed, File

\* What is done to the list of one contact leaves the others listed.
LEMMA OneListed ==
    ASSUME order \in [Contacts -> Seq(Prints)], Listed(order, trust), NEW c \in Contacts,
           NEW list, order' = [order EXCEPT ![c] = list],
           \A d \in Contacts \ {c} : trust'[d] = trust[d],
           Lists(list, {f \in Prints : trust'[c][f] # "ABSENT"})
    PROVE  order' \in [Contacts -> Seq(Prints)] /\ Listed(order', trust')
<1>1. list \in Seq(Prints)
  BY DEF Lists
<1>. QED BY <1>1 DEF Listed

LEMMA OperationOrdered ==
    ASSUME Types, Types', Ordered, NEW c \in Contacts, Operation(c)
    PROVE  Ordered'
<1>. DEFINE Old == {f \in Prints : trust[c][f] # "ABSENT"}
            New == {f \in Prints : trust'[c][f] # "ABSENT"}
<1>0. /\ order \in [Contacts -> Seq(Prints)] /\ Listed(order, trust)
      /\ Lists(order[c], Old) /\ Known(c) = Old
      /\ trust \in MemoryTrust /\ trust' \in MemoryTrust
  BY DEF Ordered, Listed, Types, Known
<1>d. UNCHANGED disk => disk' \in File /\ Listed(disk'.order, disk'.trust)
  BY DEF Ordered
<1>v. UNCHANGED vfs => vfs' \in File /\ Listed(vfs'.order, vfs'.trust)
  BY DEF Ordered
\* An operation on the print f, which is in the list or comes to its head.
<1>1. CASE GoSecure(c)
  <2>1. PICK f \in keyring[c] :
          IF f \in Known(c) THEN UNCHANGED <<memory, vfs, spoiled>>
                            ELSE Add(c, f) /\ WriteEvent
    BY <1>1 DEF GoSecure
  <2>2. f \in Prints /\ UNCHANGED disk
    BY <1>1 DEF GoSecure, Types
  <2>3. CASE f \in Known(c)
    BY <2>1, <2>2, <2>3 DEF memory, Ordered
  <2>4. CASE f \notin Known(c)
    <3>1. /\ trust' = [trust EXCEPT ![c][f] = "UNSET"] /\ Write
          /\ order' = [order EXCEPT ![c] = <<f>> \o order[c]]
      BY <2>1, <2>4 DEF Add, WriteEvent
    <3>2. New = {f} \cup Old
      BY <1>0, <2>2, <3>1 DEF MemoryTrust
    <3>3. {f} \cap Old = {}
      BY <1>0, <2>4
    <3>4. Lists(<<f>>, {f})
      BY <2>2 DEF Lists, IsInjective, Range
    <3>5. Lists(<<f>> \o order[c], New)
      <4>. HIDE DEF Old, New
      <4>. QED BY <1>0, <3>2, <3>3, <3>4, JoinLists
    <3>6. \A d \in Contacts \ {c} : trust'[d] = trust[d]
      BY <1>0, <3>1 DEF MemoryTrust
    <3>7. order' \in [Contacts -> Seq(Prints)] /\ Listed(order', trust')
      BY <1>0, <3>1, <3>5, <3>6, OneListed
    <3>. QED BY <1>0, <1>d, <2>2, <3>1, <3>7, WriteOrdered DEF Ordered
  <2>. QED BY <2>3, <2>4
<1>2. ASSUME NEW e \in Contacts, NEW f \in Known(e), NEW result \in Outcome,
             trust' = [trust EXCEPT ![e][f] = result], UNCHANGED order
      PROVE  order' \in [Contacts -> Seq(Prints)] /\ Listed(order', trust')
  <2>1. \A d \in Contacts :
          {g \in Prints : trust'[d][g] # "ABSENT"} = {g \in Prints : trust[d][g] # "ABSENT"}
    BY <1>0, <1>2 DEF MemoryTrust, Known, Outcome
  <2>. QED BY <1>0, <1>2, <2>1 DEF Listed
<1>3. CASE SmpEnds(c)
  <2>1. /\ order' \in [Contacts -> Seq(Prints)] /\ Listed(order', trust')
        /\ UNCHANGED disk /\ Write
    <3>1. PICK result \in Outcome : SetTrust(active[c], result)
      BY <1>3 DEF SmpEnds
    <3>2. PICK d \in Contacts, f \in Prints : active[c] = <<d, f>> /\ f \in Known(d)
      BY <1>3 DEF SmpEnds, Present
    <3>3. UNCHANGED <<order, disk>> /\ Write
      BY <1>3 DEF SmpEnds, WriteEvent
    <3>4. trust' = [trust EXCEPT ![d][f] = result]
      BY <3>1, <3>2 DEF SetTrust
    <3>. QED BY <1>2, <3>2, <3>3, <3>4
  <2>. QED BY <1>0, <1>d, <2>1, WriteOrdered DEF Ordered
<1>4. CASE SmpEndsOnFreed(c)
  <2>1. CASE Ends
    BY <1>4, <1>d, <2>1, NothingListed DEF SmpEndsOnFreed, Ends, Ordered
  <2>2. CASE UNCHANGED memory /\ Write
    BY <1>0, <1>4, <1>d, <2>2, WriteOrdered DEF SmpEndsOnFreed, Ordered, memory
  <2>. QED BY <1>4, <2>1, <2>2 DEF SmpEndsOnFreed, WriteEvent
<1>5. CASE Leave(c)
  BY <1>5 DEF Leave, memory, Ordered
<1>6. CASE TrustPrint(c)
  <2>1. order' \in [Contacts -> Seq(Prints)] /\ Listed(order', trust')
    BY <1>2, <1>6 DEF TrustPrint
  <2>. QED BY <1>6, <1>d, <1>v, <2>1 DEF TrustPrint, Ordered
<1>7. CASE DeletePrint(c)
  <2>1. PICK f \in Known(c) :
          /\ trust' = [trust EXCEPT ![c][f] = "ABSENT"]
          /\ order' = [order EXCEPT ![c] = Among(order[c], Prints \ {f})]
    BY <1>7 DEF DeletePrint
  <2>2. New = Old \cap (Prints \ {f})
    BY <1>0, <2>1 DEF MemoryTrust
  <2>3. Lists(Among(order[c], Prints \ {f}), New)
    <3>. HIDE DEF Old, New
    <3>. QED BY <1>0, <2>2, AmongLists
  <2>4. \A d \in Contacts \ {c} : trust'[d] = trust[d]
    BY <1>0, <2>1 DEF MemoryTrust
  <2>5. order' \in [Contacts -> Seq(Prints)] /\ Listed(order', trust')
    BY <1>0, <2>1, <2>3, <2>4, OneListed
  <2>. QED BY <1>7, <1>d, <1>v, <2>5 DEF DeletePrint, Ordered
<1>8. CASE DeleteContact(c)
  <2>1. /\ trust' = [trust EXCEPT ![c] = [f \in Prints |-> "ABSENT"]]
        /\ order' = [order EXCEPT ![c] = <<>>]
    BY <1>8 DEF DeleteContact
  <2>2. New = {} /\ \A d \in Contacts \ {c} : trust'[d] = trust[d]
    BY <1>0, <2>1 DEF MemoryTrust
  <2>3. Lists(<<>>, New)
    BY <2>2, EmptyListed
  <2>4. order' \in [Contacts -> Seq(Prints)] /\ Listed(order', trust')
    BY <1>0, <2>1, <2>2, <2>3, OneListed
  <2>. QED BY <1>8, <1>d, <1>v, <2>4 DEF DeleteContact, Ordered
<1>. QED BY <1>1, <1>3, <1>4, <1>5, <1>6, <1>7, <1>8 DEF Operation

\* The file of only the trusted prints, or of those it takes for trusted.
LEMMA TrustedOrdered ==
    ASSUME Types, Ordered, WriteTrusted
    PROVE  vfs' \in File /\ Listed(vfs'.order, vfs'.trust)
<1>1. CASE UNCHANGED vfs
  BY <1>1 DEF Ordered
<1>2. CASE vfs' = [exists |-> TRUE,
                   trust |-> [c \in Contacts |-> [f \in Prints |->
                          IF f \in WrittenAsTrusted(c) THEN Line(trust[c][f]) ELSE "ABSENT"]],
                   order |-> [c \in Contacts |-> Among(order[c], WrittenAsTrusted(c))]]
  <2>1. ASSUME NEW c \in Contacts
        PROVE  Lists(vfs'.order[c], {f \in Prints : vfs'.trust[c][f] # "ABSENT"})
    <3>. DEFINE Old == {f \in Prints : trust[c][f] # "ABSENT"}
                W == WrittenAsTrusted(c)
    <3>1. Lists(order[c], Old)
      BY DEF Ordered, Listed
    <3>2. Lists(Among(order[c], W), Old \cap W)
      <4>. HIDE DEF Old, W
      <4>. QED BY <3>1, AmongLists
    <3>3. \A f \in Prints :
            vfs'.trust[c][f] = IF f \in W THEN Line(trust[c][f]) ELSE "ABSENT"
      BY <1>2
    <3>4. vfs'.order[c] = Among(order[c], W)
      BY <1>2
    <3>5. {f \in Prints : vfs'.trust[c][f] # "ABSENT"} = Old \cap W
      <4>. HIDE DEF W
      <4>. QED BY <3>3 DEF Line
    <3>. QED BY <3>2, <3>4, <3>5
  <2>2. \A c \in Contacts : vfs'.order[c] \in Seq(Prints)
    BY <2>1 DEF Lists
  <2>3. vfs'.order \in [Contacts -> Seq(Prints)]
    BY <1>2, <2>2
  <2>4. vfs'.trust \in [Contacts -> [Prints -> {"ABSENT", "UNTRUSTED", "TRUSTED"}]]
    <3>1. \A c \in Contacts, f \in Prints :
            Line(trust[c][f]) \in {"ABSENT", "UNTRUSTED", "TRUSTED"}
      BY DEF Line, Types, MemoryTrust, Trust
    <3>. QED BY <1>2, <3>1
  <2>5. vfs' = [exists |-> TRUE, trust |-> vfs'.trust, order |-> vfs'.order]
    BY <1>2
  <2>6. [exists |-> TRUE, trust |-> vfs'.trust, order |-> vfs'.order] \in File
    BY <2>3, <2>4 DEF File
  <2>. QED BY <2>1, <2>5, <2>6 DEF Listed
<1>. QED BY <1>1, <1>2 DEF WriteTrusted

LEMMA StepOrdered == Types /\ Types' /\ Ordered /\ [Next]_vars => Ordered'
<1>. SUFFICES ASSUME Types, Types', Ordered, [Next]_vars PROVE Ordered'
  OBVIOUS
<1>d. UNCHANGED disk => disk' \in File /\ Listed(disk'.order, disk'.trust)
  BY DEF Ordered
<1>e. Ends => /\ order' \in [Contacts -> Seq(Prints)] /\ Listed(order', trust')
              /\ vfs' \in File /\ Listed(vfs'.order, vfs'.trust)
  BY NothingListed DEF Ends
<1>m. UNCHANGED memory => order' \in [Contacts -> Seq(Prints)] /\ Listed(order', trust')
  BY DEF Ordered, memory
<1>t. trust \in MemoryTrust /\ trust' \in MemoryTrust
      /\ vfs.trust \in OnFile /\ disk.trust \in OnFile
  BY DEF Types
<1>1. ASSUME NEW c \in Contacts, Operation(c) PROVE Ordered'
  BY <1>1, OperationOrdered
<1>2. CASE WriteFingerprints
  BY <1>2, <1>d, <1>m, <1>t, WriteOrdered DEF WriteFingerprints, Ordered
<1>3. CASE WriteTrusted
  BY <1>3, <1>d, <1>m, TrustedOrdered DEF WriteTrusted, Ordered
<1>4. CASE WriteTrustedAborts \/ Exit
  BY <1>4, <1>d, <1>e DEF WriteTrustedAborts, Exit, Ordered
<1>5. CASE Load
  <2>1. vfs' = disk /\ UNCHANGED disk /\ MergeInto(trust, order, disk)
    BY <1>5 DEF Load
  <2>2. Listed(order, trust) /\ Listed(disk.order, disk.trust) /\ disk \in File
    BY DEF Ordered
  <2>3. order' \in [Contacts -> Seq(Prints)] /\ Listed(order', trust')
    BY <1>t, <2>1, <2>2, MergeListed
  <2>. QED BY <2>1, <2>2, <2>3 DEF Ordered
<1>6. CASE Construct
  <2>1. PICK file \in {Missing, disk} : vfs' = file /\ MergeInto(Nothing, EmptyLists, file)
    BY <1>6 DEF Construct
  <2>2. file \in File /\ Listed(file.order, file.trust) /\ file.trust \in OnFile
    <3>1. CASE file = Missing
      <4>1. Missing.trust = Nothing
        BY DEF Missing
      <4>. QED BY <3>1, <4>1, NothingListed, NothingTyped
    <3>2. CASE file = disk
      BY <1>t, <3>2 DEF Ordered
    <3>. QED BY <3>1, <3>2
  <2>3. order' \in [Contacts -> Seq(Prints)] /\ Listed(order', trust')
    BY <2>1, <2>2, MergeListed, NothingListed, NothingTyped
  <2>4. UNCHANGED disk
    BY <1>6 DEF Construct
  <2>. QED BY <1>d, <2>1, <2>2, <2>3, <2>4 DEF Ordered
<1>7. CASE Save
  BY <1>7, <1>m DEF Save, Ordered
<1>8. CASE SaveCut
  <2>1. disk' \in File /\ Listed(disk'.order, disk'.trust)
    <3>1. PICK c \in Contacts :
            \E whole \in SUBSET (Contacts \ {c}), n \in 0..Len(vfs.order[c]) :
              disk' \in Cut(vfs, whole, c, n)
      BY <1>8 DEF SaveCut
    <3>2. vfs.order \in [Contacts -> Seq(Prints)] /\ Listed(vfs.order, vfs.trust)
      BY DEF Ordered, File
    <3>. QED BY <1>t, <3>1, <3>2, CutListed
  <2>2. Ends \/ UNCHANGED <<memory, vfs>>
    BY <1>8 DEF SaveCut
  <2>. QED BY <2>1, <2>2, <1>e, <1>m DEF Ordered
<1>9. CASE DeleteVfsFiles
  BY <1>9, <1>d, <1>m, NothingListed DEF DeleteVfsFiles, Ordered
<1>10. CASE UNCHANGED vars
  BY <1>10 DEF vars, memory, Ordered
<1>. QED
  BY <1>1, <1>2, <1>3, <1>4, <1>5, <1>6, <1>7, <1>8, <1>9, <1>10 DEF Next, Step

\* The rest of the types.
Remembered ==
    /\ keyring \in Keyrings /\ up \in BOOLEAN /\ spoiled \in BOOLEAN
    /\ saved = NONE \/ saved \in MemoryTrust
    /\ loose \subseteq Contacts
    /\ granted \subseteq Contacts \X Prints
    /\ strayed \subseteq Contacts \X Prints

LEMMA StepRemembered == Types /\ Remembered /\ [Next]_vars => Remembered'
<1>. SUFFICES ASSUME Types, Remembered, [Next]_vars PROVE Remembered'
  OBVIOUS
<1>1. UNCHANGED keyring
  BY DEF Next, vars
<1>2. up' \in BOOLEAN /\ spoiled' \in BOOLEAN
  BY DEF Remembered, Next, Step, Operation, GoSecure, SmpEnds, SmpEndsOnFreed, Leave, TrustPrint,
         DeletePrint, DeleteContact, WriteFingerprints, WriteTrusted, WriteTrustedAborts, Load,
         Construct, Save, SaveCut, Exit, DeleteVfsFiles, Ends, Write, WriteEvent, vars
<1>3. saved' = NONE \/ saved' \in MemoryTrust
  <2>1. CASE Save
    <3>1. AsFile(trust) \in MemoryTrust
      BY AsFileTyped, AsFileStable DEF Types
    <3>. QED BY <2>1, <3>1 DEF Save
  <2>2. CASE SaveCut
    BY <2>2 DEF SaveCut
  <2>3. CASE UNCHANGED saved
    BY <2>3 DEF Remembered
  <2>. QED BY <2>1, <2>2, <2>3
    DEF Next, Step, Operation, GoSecure, SmpEnds, SmpEndsOnFreed, Leave, TrustPrint,
        DeletePrint, DeleteContact, WriteFingerprints, WriteTrusted, WriteTrustedAborts, Load,
        Construct, Exit, DeleteVfsFiles, vars
<1>4. granted' \subseteq Contacts \X Prints /\ strayed' \subseteq Contacts \X Prints
  <2>1. ASSUME NEW c \in Contacts, SmpEnds(c)
        PROVE  granted' \subseteq Contacts \X Prints /\ strayed' \subseteq Contacts \X Prints
    <3>1. PICK d \in Contacts, f \in Prints : active[c] = <<d, f>>
      BY <2>1 DEF SmpEnds, Present
    <3>. QED BY <2>1, <3>1 DEF SmpEnds, Grant, Remembered
  <2>2. ASSUME NEW c \in Contacts, TrustPrint(c)
        PROVE  granted' \subseteq Contacts \X Prints /\ strayed' \subseteq Contacts \X Prints
    BY <2>2 DEF TrustPrint, Grant, Known, Remembered
  <2>3. CASE UNCHANGED earned
    BY <2>3 DEF Remembered, earned
  <2>. QED BY <2>1, <2>2, <2>3
    DEF Next, Step, Operation, GoSecure, SmpEndsOnFreed, Leave, DeletePrint, DeleteContact,
        WriteFingerprints, WriteTrusted, WriteTrustedAborts, Load, Construct, Save, SaveCut,
        Exit, DeleteVfsFiles, vars
<1>5. loose' \subseteq Contacts
  BY DEF Remembered, Next, Step, Operation, GoSecure, SmpEnds, SmpEndsOnFreed, Leave, TrustPrint,
         DeletePrint, DeleteContact, WriteFingerprints, WriteTrusted, WriteTrustedAborts, Load,
         Construct, Save, SaveCut, Exit, DeleteVfsFiles, Ends, Loosened, conversations, vars
<1>. QED BY <1>1, <1>2, <1>3, <1>4, <1>5 DEF Remembered

\* The lists have every print that has a trust once and nothing else, after
\* whatever new keys, deletions, merges of files and cut files.
THEOREM TypeCorrect == Spec => []TypeOK
<1>1. Init => Ordered /\ Remembered
  BY NothingListed DEF Init, Ordered, Remembered
<1>2. Types /\ Ordered /\ Remembered => TypeOK
  <2>. SUFFICES ASSUME Types, Ordered, Remembered PROVE TypeOK
    OBVIOUS
  <2>1. \A c \in Contacts : IsInjective(order[c]) /\ Range(order[c]) = Known(c)
    BY DEF Ordered, Listed, Lists, Known
  <2>. QED BY <2>1 DEF TypeOK, Types, Ordered, Remembered, MemoryTrust
<1>. QED BY InitTypes, StepTypes, StepOrdered, StepRemembered, <1>1, <1>2, PTL DEF Spec

=============================================================================
