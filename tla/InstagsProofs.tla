---------------------------- MODULE InstagsProofs ----------------------------
(* Proofs about Instags, for any accounts and any bounds. *)
EXTENDS Instags, NumberInduction, TLAPS

\* Min is what it is called.
LEMMA MinLeast ==
    ASSUME NEW S \in SUBSET Nat, S # {}
    PROVE  /\ Min(S) \in S
           /\ \A i \in S : Min(S) <= i
<1>1. \E x \in S : \A y \in S : x <= y
  BY LeastExists
<1>. QED BY <1>1 DEF Min

\* A position is the first of an account, whatever it holds before.
IsFirst(list, a, i) ==
    /\ i \in Entries(list, a)
    /\ \A j \in Entries(list, a) : i <= j

LEMMA EntriesNat ==
    ASSUME NEW list \in List, NEW a
    PROVE  Entries(list, a) \in SUBSET (1..Len(list))
    BY DEF Entries, List

\* What instag() finds is the tag at the first position of the account, ...
LEMMA FoundFirst ==
    ASSUME NEW list \in List, NEW a, NEW i, IsFirst(list, a, i)
    PROVE  FindInstag(list, a) = list[i][2]
<1>1. Entries(list, a) \in SUBSET Nat /\ Entries(list, a) # {}
  BY EntriesNat DEF IsFirst
<1>2. Min(Entries(list, a)) = i
  BY <1>1, MinLeast DEF IsFirst
<1>. QED BY <1>1, <1>2 DEF FindInstag

\* ... and there is such a position unless it finds nothing.
LEMMA FoundSome ==
    ASSUME NEW list \in List, NEW a, FindInstag(list, a) # NONE
    PROVE  \E i : IsFirst(list, a, i)
<1>1. Entries(list, a) \in SUBSET Nat /\ Entries(list, a) # {}
  BY EntriesNat DEF FindInstag
<1>2. IsFirst(list, a, Min(Entries(list, a)))
  BY <1>1, MinLeast DEF IsFirst
<1>. QED BY <1>2

\* It is a tag or nothing.
LEMMA FoundTyped ==
    ASSUME NEW list \in List, NEW a
    PROVE  FindInstag(list, a) \in Tags \cup {NONE}
<1>1. CASE FindInstag(list, a) = NONE
  BY <1>1
<1>2. CASE FindInstag(list, a) # NONE
  <2>1. PICK i : IsFirst(list, a, i)
    BY <1>2, FoundSome
  <2>2. i \in 1..Len(list) /\ FindInstag(list, a) = list[i][2]
    BY <2>1, EntriesNat, FoundFirst DEF IsFirst
  <2>. QED BY <2>2 DEF List
<1>. QED BY <1>1, <1>2

-----------------------------------------------------------------------------

\* A tag put at the head is the one found for its account, and nothing else
\* is found for the others.
LEMMA FoundAfterNew ==
    ASSUME NEW list \in List, NEW a \in Accounts, NEW t \in Tags
    PROVE  /\ FindInstag(<<<<a, t>>>> \o list, a) = t
           /\ \A b \in Accounts \ {a} : FindInstag(list, b) # NONE =>
                 FindInstag(<<<<a, t>>>> \o list, b) = FindInstag(list, b)
<1>. DEFINE new == <<<<a, t>>>> \o list
<1>1. /\ new \in List
      /\ Len(new) = Len(list) + 1
      /\ new[1] = <<a, t>>
      /\ \A i \in 1..Len(list) : new[i + 1] = list[i]
  BY DEF List
<1>. HIDE DEF new
<1>2. FindInstag(new, a) = t
  <2>1. 1 \in Entries(new, a) /\ Entries(new, a) \in SUBSET (1..Len(new))
    BY <1>1, EntriesNat DEF Entries, List
  <2>2. IsFirst(new, a, 1)
    BY <2>1 DEF IsFirst
  <2>. QED BY <1>1, <2>2, FoundFirst
<1>3. ASSUME NEW b \in Accounts \ {a}, FindInstag(list, b) # NONE
      PROVE  FindInstag(new, b) = FindInstag(list, b)
  <2>1. PICK i : IsFirst(list, b, i)
    BY <1>3, FoundSome
  <2>2. /\ i \in 1..Len(list) /\ i \in Nat /\ list[i][1] = b
        /\ FindInstag(list, b) = list[i][2]
    BY <2>1, EntriesNat, FoundFirst DEF IsFirst, Entries
  <2>3. i + 1 \in 1..Len(new) /\ new[i + 1] = list[i]
    BY <1>1, <2>2 DEF List
  <2>4. i + 1 \in Entries(new, b)
    BY <1>1, <2>2, <2>3 DEF Entries, List
  <2>5. ASSUME NEW j \in Entries(new, b) PROVE i + 1 <= j
    <3>1. j \in 1..Len(new) /\ new[j][1] = b
      BY <1>1, EntriesNat DEF Entries
    <3>2. j # 1
      BY <1>1, <3>1
    <3>3. j - 1 \in 1..Len(list) /\ new[j] = list[j - 1]
      <4>1. j - 1 \in 1..Len(list)
        BY <1>1, <3>1, <3>2 DEF List
      <4>2. new[(j - 1) + 1] = list[j - 1] /\ (j - 1) + 1 = j
        BY <1>1, <3>1, <4>1
      <4>. QED BY <4>1, <4>2
    <3>4. j - 1 \in Entries(list, b)
      BY <3>1, <3>3 DEF Entries, List
    <3>5. i <= j - 1
      BY <2>1, <3>4 DEF IsFirst
    <3>. QED BY <2>2, <3>1, <3>5
  <2>6. IsFirst(new, b, i + 1)
    BY <2>4, <2>5 DEF IsFirst
  <2>. QED BY <1>1, <2>2, <2>3, <2>6, FoundFirst
<1>. QED BY <1>2, <1>3 DEF new

LEMMA ReverseTyped ==
    ASSUME NEW list \in List
    PROVE  /\ Reverse(list) \in List
           /\ Len(Reverse(list)) = Len(list)
           /\ \A i \in 1..Len(list) : Reverse(list)[i] = list[(Len(list) - i) + 1]
    BY DEF List, Reverse

LEMMA ReadTyped ==
    ASSUME NEW file \in List, NEW list \in List
    PROVE  ReadInstags(file, list) \in List
    BY ReverseTyped DEF ReadInstags, List

\* What is read of a file in which no account is twice answers for each account
\* of the file as the file does, whatever was in memory.
LEMMA FoundReversed ==
    ASSUME NEW list \in List, Single(list), NEW old \in List,
           NEW a, FindInstag(list, a) # NONE
    PROVE  FindInstag(ReadInstags(list, old), a) = FindInstag(list, a)
<1>. DEFINE new == ReadInstags(list, old)
<1>1. /\ new \in List /\ Len(list) \in Nat /\ Len(new) \in Nat
      /\ Len(list) <= Len(new)
      /\ DOMAIN new = 1..Len(new) /\ DOMAIN list = 1..Len(list)
  <2>1. new \in List
    BY ReadTyped
  <2>2. Len(list) <= Len(new)
    BY ReverseTyped DEF ReadInstags, List
  <2>. QED BY <2>1, <2>2 DEF List
<1>2. \A i \in 1..Len(list) : new[i] = list[(Len(list) - i) + 1]
  BY ReverseTyped DEF ReadInstags, List
<1>. HIDE DEF new
<1>3. PICK i : IsFirst(list, a, i)
  BY FoundSome
<1>4. i \in 1..Len(list) /\ list[i][1] = a /\ FindInstag(list, a) = list[i][2]
  <2>1. i \in 1..Len(list) /\ list[i][1] = a
    BY <1>1, <1>3 DEF IsFirst, Entries
  <2>2. FindInstag(list, a) = list[i][2]
    BY <1>3, FoundFirst
  <2>. QED BY <2>1, <2>2
<1>. DEFINE m == (Len(list) - i) + 1
<1>5. m \in 1..Len(list) /\ new[m] = list[i]
  <2>1. m \in 1..Len(list) /\ (Len(list) - m) + 1 = i
    BY <1>1, <1>4
  <2>. QED BY <1>2, <2>1
<1>6. IsFirst(new, a, m)
  <2>1. m \in Entries(new, a)
    BY <1>1, <1>4, <1>5 DEF Entries
  <2>2. ASSUME NEW j \in Entries(new, a), j \in 1..Len(list) PROVE m <= j
    <3>1. new[j][1] = a
      BY DEF Entries
    <3>2. (Len(list) - j) + 1 \in 1..Len(list) /\ list[(Len(list) - j) + 1][1] = a
      BY <1>1, <1>2, <2>2, <3>1
    <3>3. (Len(list) - j) + 1 = i
      BY <1>1, <1>4, <3>2 DEF Single
    <3>. QED BY <1>1, <2>2, <3>3
  <2>3. ASSUME NEW j \in Entries(new, a), j \notin 1..Len(list) PROVE m <= j
    BY <1>1, <1>5, <2>3 DEF Entries
  <2>. QED BY <2>1, <2>2, <2>3 DEF IsFirst
<1>. HIDE DEF m
<1>7. FindInstag(new, a) = new[m][2]
  BY <1>1, <1>6, FoundFirst
<1>. QED BY <1>4, <1>5, <1>7 DEF new

\* Turning a list round does not put an account in it.
LEMMA NotFoundReversed ==
    ASSUME NEW list \in List, NEW a, FindInstag(list, a) = NONE
    PROVE  FindInstag(ReadInstags(list, <<>>), a) = NONE
<1>. DEFINE new == ReadInstags(list, <<>>)
<1>1. /\ Len(list) \in Nat /\ DOMAIN list = 1..Len(list) /\ Len(new) = Len(list)
      /\ \A i \in 1..Len(list) : new[i] = list[(Len(list) - i) + 1]
  <2>1. new = Reverse(list)
    BY ReverseTyped DEF ReadInstags, List
  <2>. QED BY <2>1, ReverseTyped DEF List
<1>2. new \in List
  <2>1. <<>> \in List
    BY DEF List
  <2>. QED BY <2>1, ReadTyped
<1>. HIDE DEF new
<1>3. Entries(list, a) = {}
  <2>1. SUFFICES ASSUME NEW i, IsFirst(list, a, i) PROVE FALSE
    <3>1. CASE Entries(list, a) = {}
      BY <3>1
    <3>2. CASE Entries(list, a) # {}
      <4>1. Entries(list, a) \in SUBSET Nat
        BY EntriesNat
      <4>2. IsFirst(list, a, Min(Entries(list, a)))
        BY <3>2, <4>1, MinLeast DEF IsFirst
      <4>. QED BY <4>2
    <3>. QED BY <3>1, <3>2
  <2>2. i \in 1..Len(list) /\ FindInstag(list, a) = list[i][2]
    BY <2>1, EntriesNat, FoundFirst DEF IsFirst
  <2>. QED BY <2>2, InstagsAssumption DEF List
<1>4. Entries(new, a) = {}
  <2>. SUFFICES ASSUME NEW j \in Entries(new, a) PROVE FALSE
    OBVIOUS
  <2>1. j \in 1..Len(list) /\ new[j][1] = a
    BY <1>1, <1>2 DEF Entries, List
  <2>2. (Len(list) - j) + 1 \in Entries(list, a)
    BY <1>1, <2>1 DEF Entries
  <2>. QED BY <1>3, <2>2
<1>5. FindInstag(new, a) = NONE
  BY <1>4 DEF FindInstag
<1>. QED BY <1>5 DEF new

-----------------------------------------------------------------------------

\* The variables keep their types: in particular what instag() answers, and
\* what is remembered of it, is a tag that was generated or none.
THEOREM TypeCorrect == Spec => []TypeOK
<1>1. Init => TypeOK
  BY InstagsAssumption DEF Init, TypeOK, List, NoTags, Calls
<1>2. TypeOK /\ [Next]_vars => TypeOK'
  <2>. SUFFICES ASSUME TypeOK, [Next]_vars PROVE TypeOK'
    OBVIOUS
  <2>0. MaxTags \in Nat /\ NoTags \in [Accounts -> Tags \cup {NONE}] /\ <<>> \in List
    BY InstagsAssumption DEF NoTags, List
  <2>1. ASSUME NEW a \in Accounts, GenerateInstag(a) PROVE TypeOK'
    <3>1. fresh \in Tags /\ fresh' \in 1..(MaxTags + 1)
      BY <2>0, <2>1 DEF GenerateInstag, TypeOK, Tags
    <3>2. mem' \in List
      <4>1. mem' = <<<<a, fresh>>>> \o mem
        BY <2>1 DEF GenerateInstag
      <4>. QED BY <3>1, <4>1 DEF TypeOK, List
    <3>3. given' \in [Accounts -> Tags \cup {NONE}]
      BY <2>1, <3>1 DEF GenerateInstag, TypeOK
    <3>. QED BY <2>1, <3>1, <3>2, <3>3 DEF GenerateInstag, TypeOK, Calls
  <2>2. CASE LoadInstagsFromFS
    BY <2>0, <2>2, ReadTyped DEF LoadInstagsFromFS, TypeOK, Calls
  <2>3. CASE Construct
    BY <2>0, <2>3, ReadTyped DEF Construct, TypeOK, Calls
  <2>4. CASE SaveInstagsToFS
    <3>1. vfs \in List /\ disk' \in List
      BY <2>4 DEF SaveInstagsToFS, TypeOK, List
    <3>2. saved' \in [Accounts -> Tags \cup {NONE}]
      BY <2>0, <2>4, FoundTyped DEF SaveInstagsToFS, TypeOK
    <3>. QED BY <2>4, <3>1, <3>2 DEF SaveInstagsToFS, TypeOK
  <2>5. CASE DeleteVfsFiles
    BY <2>5 DEF DeleteVfsFiles, TypeOK, Calls
  <2>6. CASE UNCHANGED vars
    BY <2>6 DEF vars, TypeOK
  <2>. QED BY <2>1, <2>2, <2>3, <2>4, <2>5, <2>6 DEF Next
<1>. QED BY <1>1, <1>2, PTL DEF Spec

\* The file has the tag t for the account, or, after a load onto tags in
\* memory, none.
Answers(file, a, t, by) ==
    \/ FindInstag(file, a) = t
    \/ by = "merge" /\ FindInstag(file, a) = NONE

\* The virtual file answers as memory does, with the two exceptions.
FileAnswers ==
    vfs # NOFILE /\ Single(vfs) =>
      \A a \in Accounts : Answers(vfs, a, FindInstag(mem, a), last)

\* The file on disk answers as memory did when it was saved whole.
SavedFound ==
    \A a \in Accounts :
      saved[a] # NONE =>
        /\ disk # NOFILE
        /\ Single(disk) => Answers(disk, a, saved[a], savedBy)

\* GivenWritten needs Newest, which says that the list whose head a new tag
\* becomes holds the tags given before it; SingleSurvives needs SavedFound, and
\* that a save establishes it needs FileAnswers.
Inv == TypeOK /\ Newest /\ GivenWritten /\ FileAnswers /\ SavedFound

LEMMA GenerateStep ==
    ASSUME Inv, TypeOK', NEW a \in Accounts, GenerateInstag(a)
    PROVE  Inv'
<1>1. /\ mem' = <<<<a, fresh>>>> \o mem /\ vfs' = mem'
      /\ given' = [given EXCEPT ![a] = fresh]
      /\ disk' = disk /\ saved' = saved /\ savedBy' = savedBy
      /\ mem \in List /\ mem' \in List /\ fresh \in Tags
      /\ given \in [Accounts -> Tags \cup {NONE}]
  BY DEF GenerateInstag, Inv, TypeOK, Tags
<1>2. NOFILE \notin List
  BY InstagsAssumption DEF List
<1>3. ASSUME NEW b \in Accounts, given'[b] # NONE
      PROVE  FindInstag(mem', b) = given'[b]
  <2>1. CASE b = a
    BY <1>1, <2>1, FoundAfterNew
  <2>2. CASE b # a
    <3>1. given'[b] = given[b]
      BY <1>1, <2>2
    <3>2. FindInstag(mem, b) = given[b] /\ FindInstag(mem, b) # NONE
      BY <1>3, <3>1 DEF Inv, Newest
    <3>3. FindInstag(mem', b) = FindInstag(mem, b)
      BY <1>1, <2>2, <3>2, FoundAfterNew
    <3>. QED BY <3>1, <3>2, <3>3
  <2>. QED BY <2>1, <2>2
<1>4. Newest'
  BY <1>3 DEF Newest
<1>5. GivenWritten'
  BY <1>1, <1>2, <1>3 DEF GivenWritten
<1>6. FileAnswers'
  BY <1>1 DEF FileAnswers, Answers
<1>7. SavedFound'
  BY <1>1 DEF Inv, SavedFound
<1>. QED BY <1>4, <1>5, <1>6, <1>7 DEF Inv

LEMMA SaveStep ==
    ASSUME Inv, TypeOK', SaveInstagsToFS
    PROVE  Inv'
<1>1. mem' = mem /\ vfs' = vfs /\ given' = given /\ last' = last /\ savedBy' = last
  BY DEF SaveInstagsToFS
<1>2. SavedFound'
  <2>. SUFFICES ASSUME NEW a \in Accounts, saved'[a] # NONE
                PROVE  /\ disk' # NOFILE
                       /\ Single(disk') => Answers(disk', a, saved'[a], savedBy')
    BY DEF SavedFound
  <2>1. saved' = IF disk' = vfs THEN [b \in Accounts |-> FindInstag(mem, b)]
                                ELSE NoTags
    BY DEF SaveInstagsToFS
  <2>2. disk' = vfs
    BY <2>1 DEF NoTags
  <2>3. saved'[a] = FindInstag(mem, a) /\ vfs # NOFILE
    BY <2>1, <2>2 DEF SaveInstagsToFS
  <2>4. Single(vfs) => Answers(vfs, a, FindInstag(mem, a), last)
    BY <2>3 DEF Inv, FileAnswers
  <2>. QED BY <1>1, <2>2, <2>3, <2>4
<1>3. Newest' /\ GivenWritten' /\ FileAnswers'
  BY <1>1 DEF Inv, Newest, GivenWritten, FileAnswers
<1>. QED BY <1>2, <1>3 DEF Inv

\* After a load or a restart nothing has been given yet.
LEMMA NothingGiven ==
    ASSUME Inv, TypeOK', given' = NoTags, UNCHANGED <<disk, saved, savedBy>>,
           FileAnswers'
    PROVE  Inv'
<1>1. Newest' /\ GivenWritten'
  BY DEF Newest, GivenWritten, NoTags
<1>2. SavedFound'
  BY DEF Inv, SavedFound
<1>. QED BY <1>1, <1>2 DEF Inv

\* Memory answers for the accounts of a file that was read as the file does,
\* and for the others only if it had tags before.
LEMMA ReadAnswers ==
    ASSUME NEW file \in List, Single(file), NEW old \in List, NEW a, NEW by,
           old = <<>> \/ by = "merge"
    PROVE  Answers(file, a, FindInstag(ReadInstags(file, old), a), by)
<1>1. CASE FindInstag(file, a) # NONE
  BY <1>1, FoundReversed DEF Answers
<1>2. CASE FindInstag(file, a) = NONE
  <2>1. CASE by = "merge"
    BY <1>2, <2>1 DEF Answers
  <2>2. CASE old = <<>>
    BY <1>2, <2>2, NotFoundReversed DEF Answers
  <2>. QED BY <2>1, <2>2
<1>. QED BY <1>1, <1>2

LEMMA LoadStep ==
    ASSUME Inv, TypeOK', LoadInstagsFromFS
    PROVE  Inv'
<1>1. /\ disk \in List /\ mem \in List /\ vfs' = disk
      /\ mem' = ReadInstags(disk, mem)
      /\ mem = <<>> \/ last' = "merge"
  BY DEF LoadInstagsFromFS, Inv, TypeOK
<1>2. FileAnswers'
  BY <1>1, ReadAnswers DEF FileAnswers
<1>. QED BY <1>2, NothingGiven DEF LoadInstagsFromFS

LEMMA ConstructStep ==
    ASSUME Inv, TypeOK', Construct
    PROVE  Inv'
<1>1. ASSUME vfs' # NOFILE
      PROVE  /\ vfs' \in List /\ <<>> \in List
             /\ mem' = ReadInstags(vfs', <<>>)
  BY <1>1 DEF Construct, TypeOK, List
<1>2. FileAnswers'
  BY <1>1, ReadAnswers DEF FileAnswers
<1>. QED BY <1>2, NothingGiven DEF Construct

LEMMA DeleteStep ==
    ASSUME Inv, TypeOK', DeleteVfsFiles
    PROVE  Inv'
<1>1. Newest' /\ GivenWritten' /\ FileAnswers' /\ SavedFound'
  BY DEF DeleteVfsFiles, Inv, Newest, GivenWritten, FileAnswers, SavedFound
<1>. QED BY <1>1 DEF Inv

LEMMA InvHolds == Spec => []Inv
<1>1. Init => Inv
  <2>1. Init => TypeOK
    BY InstagsAssumption DEF Init, TypeOK, List, NoTags, Calls
  <2>. QED BY <2>1 DEF Init, Inv, Newest, GivenWritten, FileAnswers, SavedFound, NoTags
<1>2. TypeOK /\ TypeOK' /\ Inv /\ [Next]_vars => Inv'
  <2>. SUFFICES ASSUME TypeOK', Inv, [Next]_vars PROVE Inv'
    OBVIOUS
  <2>1. ASSUME NEW a \in Accounts, GenerateInstag(a) PROVE Inv'
    BY <2>1, GenerateStep
  <2>2. CASE LoadInstagsFromFS
    BY <2>2, LoadStep
  <2>3. CASE Construct
    BY <2>3, ConstructStep
  <2>4. CASE SaveInstagsToFS
    BY <2>4, SaveStep
  <2>5. CASE DeleteVfsFiles
    BY <2>5, DeleteStep
  <2>6. CASE UNCHANGED vars
    BY <2>6 DEF vars, Inv, TypeOK, Newest, GivenWritten, FileAnswers, SavedFound
  <2>. QED BY <2>1, <2>2, <2>3, <2>4, <2>5, <2>6 DEF Next
<1>. QED BY <1>1, <1>2, TypeCorrect, PTL DEF Spec

\* instag() answers with the tag that generateInstag() gave last, however many
\* tags the accounts of the list have.
THEOREM NewestHolds == Spec => []Newest
<1>1. Inv => Newest
  BY DEF Inv
<1>. QED BY <1>1, InvHolds, PTL

\* A tag given since the last load is the one that the virtual file, which is
\* what a save copies, has for its account, if deleteVfsFiles() has not taken
\* the file away since.
THEOREM GivenWrittenHolds == Spec => []GivenWritten
<1>1. Inv => GivenWritten
  BY DEF Inv
<1>. QED BY <1>1, InvHolds, PTL

\* A user made from a file saved whole, in which no account is twice, answers
\* for every account as the one that saved it; after a load onto tags in memory
\* it may know nothing of an account that was only there.
THEOREM SingleSurvivesHolds == Spec => SingleSurvives
<1>1. Inv /\ [Next]_vars =>
        [(Construct /\ vfs' # NOFILE /\ Single(disk)) =>
           \A a \in Accounts :
              \/ saved[a] = NONE
              \/ FindInstag(mem', a) = saved[a]
              \/ savedBy = "merge" /\ FindInstag(mem', a) = NONE]_vars
  <2>. SUFFICES ASSUME Inv, Construct, vfs' # NOFILE, Single(disk),
                       NEW a \in Accounts, saved[a] # NONE
                PROVE  \/ FindInstag(mem', a) = saved[a]
                       \/ savedBy = "merge" /\ FindInstag(mem', a) = NONE
    OBVIOUS
  <2>1. disk # NOFILE /\ disk \in List /\ Answers(disk, a, saved[a], savedBy)
    BY DEF Inv, SavedFound, TypeOK
  <2>2. mem' = ReadInstags(disk, <<>>)
    BY <2>1 DEF Construct
  <2>3. FindInstag(ReadInstags(disk, <<>>), a) = FindInstag(disk, a)
    <3>1. <<>> \in List
      BY DEF List
    <3>. QED BY <2>1, <3>1, FoundReversed, NotFoundReversed
  <2>. QED BY <2>1, <2>2, <2>3 DEF Answers
<1>. QED BY <1>1, InvHolds, PTL DEF Spec, SingleSurvives

=============================================================================
