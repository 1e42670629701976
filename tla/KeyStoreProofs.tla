--------------------------- MODULE KeyStoreProofs ---------------------------
(* Proofs about KeyStore, for any accounts and any keys. *)
EXTENDS PrivKeyList, NumberInduction, FiniteSetTheorems

\* A file that says what the keys are is not one of the two that do not.
LEMMA StoreFacts ==
    /\ Empty \in Store
    /\ NOFILE \notin Store /\ BROKEN \notin Store /\ NONE \notin Store
    /\ NONE \notin Keys
    BY StoreAssumption DEF Store, Empty

LEMMA ParsedTyped == ASSUME NEW file PROVE Parsed(file) \in Store
    BY StoreFacts DEF Parsed

LEMMA WithTyped ==
    ASSUME mem \in Store, NEW a \in Accounts, NEW k \in Keys \cup {NONE}
    PROVE  With(a, k) \in Store
    BY DEF With, Same, Store

\* Reading a file that was written from a store gives the store back.
LEMMA ParsedStore == ASSUME NEW f \in Store PROVE Parsed(f) = f
    BY DEF Parsed

-----------------------------------------------------------------------------

\* The variables keep their types.
LEMMA TypeStep == TypeOK /\ [Next]_vars => TypeOK'
<1>. SUFFICES ASSUME TypeOK, [Next]_vars PROVE TypeOK'
  OBVIOUS
<1>. USE DEF TypeOK, File
<1>1. CASE Construct
  BY <1>1, ParsedTyped DEF Construct
<1>2. CASE LoadKeysFromFS
  BY <1>2, ParsedTyped DEF LoadKeysFromFS, ReadKeys
<1>3. CASE StringToKeys
  BY <1>3, ParsedTyped DEF StringToKeys, ReadKeys
<1>4. CASE KeysToString
  BY <1>4 DEF KeysToString
<1>5. CASE Save
  BY <1>5 DEF Save
<1>6. CASE SaveRefused
  BY <1>6 DEF SaveRefused
<1>7. CASE SaveCut
  BY <1>7 DEF SaveCut
<1>8. CASE Exit
  BY <1>8 DEF Exit
<1>9. ASSUME NEW a \in Accounts, Operation(a) PROVE TypeOK'
  <2>1. CASE GenerateKey(a)
    BY <2>1, WithTyped, ParsedTyped DEF GenerateKey
  <2>2. CASE ImportKey(a)
    BY <2>2, WithTyped DEF ImportKey, WriteKeys
  <2>3. CASE ImportKeyFails(a)
    BY <2>3, WithTyped DEF ImportKeyFails
  <2>4. CASE DeleteKey(a)
    BY <2>4, WithTyped DEF DeleteKey, WriteKeys
  <2>. QED BY <1>9, <2>1, <2>2, <2>3, <2>4 DEF Operation
<1>10. CASE DeleteVfsFiles
  BY <1>10 DEF DeleteVfsFiles
<1>11. CASE UNCHANGED vars
  BY <1>11 DEF vars
<1>. QED
  BY <1>1, <1>2, <1>3, <1>4, <1>5, <1>6, <1>7, <1>8, <1>9, <1>10, <1>11 DEF Next

\* In every state the variables have their types.
THEOREM TypeCorrect == Spec => []TypeOK
<1>1. Init => TypeOK
  BY StoreFacts DEF Init, TypeOK, File
<1>. QED BY <1>1, TypeStep, PTL DEF Spec

-----------------------------------------------------------------------------

\* What was in memory when the file was last saved is what a load of the file
\* would give.
SavedReads == saved # NONE => Parsed(disk) = saved

StoreInv == InStep /\ SavedReads

LEMMA InitInv == Init => StoreInv
    BY StoreFacts DEF Init, StoreInv, InStep, SavedReads, Parsed

LEMMA StepInv == TypeOK /\ StoreInv /\ [Next]_vars => StoreInv'
<1>. SUFFICES ASSUME TypeOK, StoreInv, [Next]_vars PROVE StoreInv'
  OBVIOUS
<1>. USE DEF StoreInv, InStep, SavedReads
<1>1. CASE Construct
  <2>1. Parsed(NOFILE) = Empty
    BY StoreFacts DEF Parsed
  <2>. QED BY <1>1, <2>1 DEF Construct
<1>2. CASE LoadKeysFromFS
  BY <1>2 DEF LoadKeysFromFS, ReadKeys
<1>3. CASE StringToKeys
  BY <1>3 DEF StringToKeys, ReadKeys
<1>4. CASE KeysToString
  BY <1>4 DEF KeysToString
<1>5. CASE Save
  BY <1>5 DEF Save
<1>6. CASE SaveRefused
  BY <1>6 DEF SaveRefused
<1>7. CASE SaveCut
  BY <1>7 DEF SaveCut
<1>8. CASE Exit
  BY <1>8 DEF Exit
<1>9. ASSUME NEW a \in Accounts, Operation(a) PROVE StoreInv'
  <2>1. CASE GenerateKey(a)
    BY <2>1 DEF GenerateKey
  <2>2. CASE ImportKey(a)
    <3>1. mem' \in Store
      BY <2>2, WithTyped DEF ImportKey, TypeOK
    <3>. QED BY <2>2, <3>1, ParsedStore DEF ImportKey, WriteKeys
  <2>3. CASE ImportKeyFails(a)
    BY <2>3 DEF ImportKeyFails
  <2>4. CASE DeleteKey(a)
    <3>1. With(a, NONE) \in Store
      BY WithTyped DEF TypeOK
    <3>. QED BY <2>4, <3>1, ParsedStore DEF DeleteKey, WriteKeys
  <2>. QED BY <1>9, <2>1, <2>2, <2>3, <2>4 DEF Operation
<1>10. CASE DeleteVfsFiles
  BY <1>10 DEF DeleteVfsFiles
<1>11. CASE UNCHANGED vars
  BY <1>11 DEF vars
<1>. QED
  BY <1>1, <1>2, <1>3, <1>4, <1>5, <1>6, <1>7, <1>8, <1>9, <1>10, <1>11 DEF Next

LEMMA InvHolds == Spec => []StoreInv
<1>. QED BY TypeCorrect, InitInv, StepInv, PTL DEF Spec

\* The virtual file has the keys that are in memory, until an import fails
\* half-way or the file is deleted.
THEOREM FileInStep == Spec => []InStep
<1>1. StoreInv => InStep
  BY DEF StoreInv
<1>. QED BY <1>1, InvHolds, PTL

\* A call about one account keeps the keys of the others.
THEOREM AccountsIsolated == Spec => OthersKept
<1>. DEFINE Kept ==
       \A a \in Accounts :
         Operation(a) =>
           \A b \in Accounts \ {a} :
             /\ mem'[b] = mem[b]
             /\ ~spoiled => Parsed(vfs')[b] = Parsed(vfs)[b]
<1>1. TypeOK /\ StoreInv /\ [Next]_vars => [Kept]_vars
  <2>. SUFFICES ASSUME TypeOK, StoreInv,
                       NEW a \in Accounts, Operation(a),
                       NEW b \in Accounts \ {a}
                PROVE  /\ mem'[b] = mem[b]
                       /\ ~spoiled => Parsed(vfs')[b] = Parsed(vfs)[b]
    OBVIOUS
  <2>0. ~spoiled => mem = Parsed(vfs)
    BY DEF StoreInv, InStep
  <2>1. ASSUME NEW k \in Keys \cup {NONE}
        PROVE  /\ With(a, k) \in Store
               /\ Parsed(With(a, k)) = With(a, k)
               /\ With(a, k)[b] = mem[b]
    <3>1. With(a, k) \in Store
      BY WithTyped DEF TypeOK
    <3>2. With(a, k)[b] = mem[b]
      BY DEF With, Same
    <3>. QED BY <3>1, <3>2, ParsedStore
  <2>2. CASE GenerateKey(a)
    BY <2>0, <2>1, <2>2 DEF GenerateKey
  <2>3. CASE ImportKey(a)
    BY <2>0, <2>1, <2>3 DEF ImportKey, WriteKeys
  <2>4. CASE ImportKeyFails(a)
    BY <2>1, <2>4 DEF ImportKeyFails
  <2>5. CASE DeleteKey(a)
    BY <2>0, <2>1, <2>5 DEF DeleteKey, WriteKeys
  <2>. QED BY <2>2, <2>3, <2>4, <2>5 DEF Operation
<1>. QED BY <1>1, TypeCorrect, InvHolds, PTL DEF Spec, OthersKept

\* A new user that reads a saved file has the keys that were saved.
THEOREM SavedKeysRecovered == Spec => Recovers
<1>. DEFINE Recovered == (Construct /\ vfs' # NOFILE /\ saved # NONE) => mem' = saved
<1>1. StoreInv /\ [Next]_vars => [Recovered]_vars
  BY DEF StoreInv, SavedReads, Construct
<1>. QED BY <1>1, InvHolds, PTL DEF Spec, Recovers

-----------------------------------------------------------------------------
(* The list of keys.  A list is a chain of n nodes: at[i] is the i-th from  *)
(* the end, so that a new node comes behind all others, and at[0] and       *)
(* at[n + 1] are the NULL at the end of the list and the root.              *)

Chain(l, n, at) ==
    /\ n \in Nat
    /\ at[0] = NULL /\ at[n + 1] = ROOT
    /\ \A i \in 1..n : at[i] \in Nodes
    /\ \A i, j \in 1..n : at[i] = at[j] => i = j
    /\ \A i \in 1..(n + 1) : l.next[at[i]] = at[i - 1]
    /\ \A i \in 1..n : l.tous[at[i]] = at[i + 1]
    /\ \A x \in Nodes : l.entry[x] # NONE <=> \E i \in 1..n : at[i] = x

\* Its nodes have the keys of a store, each account once.
Has(l, keys) ==
    /\ \A x \in Nodes : l.entry[x] # NONE => keys[l.entry[x].account] = l.entry[x].key
    /\ \A x, y \in Nodes :
         l.entry[x] # NONE /\ l.entry[y] # NONE /\ l.entry[x].account = l.entry[y].account
           => x = y
    /\ \A a \in Accounts :
         keys[a] # NONE => \E x \in Nodes : l.entry[x] # NONE /\ l.entry[x].account = a

Is(l, keys) ==
    /\ l \in List
    /\ Has(l, keys)
    /\ \E n, at : Chain(l, n, at)

LEMMA NodesCounted ==
    /\ Cardinality(Accounts) \in Nat
    /\ Nodes = 1..(Cardinality(Accounts) + 1)
    /\ NULL \notin Nodes /\ ROOT \notin Nodes
<1>1. Cardinality(Accounts) \in Nat
  BY ListAssumption, FS_CardinalityType
<1>. QED BY <1>1 DEF Nodes, NULL, ROOT

\* Adding a key to a store, and taking one from it.
Added(keys, a, k) == [b \in Accounts |-> IF b = a THEN k ELSE keys[b]]

LEMMA EmptyIs == Is(NoKeys, Empty)
<1>1. NoKeys \in List /\ Has(NoKeys, Empty)
  BY NodesCounted DEF NoKeys, List, Has, Empty, NULL, ROOT
<1>2. Chain(NoKeys, 0, [i \in {0, 1} |-> NULL])
  BY NodesCounted DEF NoKeys, Chain, NULL, ROOT
<1>. QED BY <1>1, <1>2 DEF Is

\* A list has fewer nodes than there are.
LEMMA ChainBounded ==
    ASSUME NEW l \in List, NEW keys, NEW n, NEW at, Chain(l, n, at), Has(l, keys)
    PROVE  n <= Cardinality(Accounts)
<1>. DEFINE own == [i \in 1..n |-> l.entry[at[i]].account]
<1>1. ASSUME NEW i \in 1..n
      PROVE  at[i] \in Nodes /\ l.entry[at[i]] # NONE /\ l.entry[at[i]].account \in Accounts
  BY DEF Chain, List
<1>2. own \in [1..n -> Accounts]
  BY <1>1
<1>3. \A i, j \in 1..n : own[i] = own[j] => i = j
  BY <1>1 DEF Has, Chain
<1>4. own \in Injection(1..n, Accounts)
  BY <1>2, <1>3 DEF Injection, IsInjective
<1>5. Cardinality(1..n) <= Cardinality(Accounts)
  <2>. HIDE DEF own
  <2>. QED BY <1>4, ListAssumption, FS_Injection
<1>6. n \in Nat
  BY DEF Chain
<1>7. Cardinality(1..n) = n
  BY <1>6, FS_Interval
<1>. QED BY <1>5, <1>7

\* So that there is one for a new key.
LEMMA MallocFree ==
    ASSUME NEW l \in List, NEW keys, Is(l, keys)
    PROVE  Malloc(l) \in Nodes /\ l.entry[Malloc(l)] = NONE
<1>1. PICK n, at : Chain(l, n, at)
  BY DEF Is
<1>2. n \in Nat /\ n <= Cardinality(Accounts)
  <2>1. n <= Cardinality(Accounts)
    BY <1>1, ChainBounded DEF Is
  <2>. QED BY <1>1, <2>1 DEF Chain
<1>3. \E x \in Nodes : l.entry[x] = NONE
  <2>. SUFFICES ASSUME \A x \in Nodes : l.entry[x] # NONE PROVE FALSE
    OBVIOUS
  <2>. DEFINE s == [i \in 1..n |-> at[i]]
  <2>1. s \in Surjection(1..n, Nodes)
    BY <1>1 DEF Chain, Surjection
  <2>. HIDE DEF s
  <2>2. IsFiniteSet(1..n) /\ Cardinality(1..n) = n
    BY <1>2, FS_Interval
  <2>3. Cardinality(Nodes) <= n
    BY <2>1, <2>2, FS_Surjection
  <2>4. Cardinality(Nodes) = Cardinality(Accounts) + 1
    BY NodesCounted, FS_Interval
  <2>. QED BY <1>2, <2>3, <2>4, NodesCounted
<1>. QED BY <1>3 DEF Malloc

\* Linking a key of an account that has none adds it.
LEMMA LinkIs ==
    ASSUME NEW l, NEW keys \in Store, Is(l, keys),
           NEW a \in Accounts, keys[a] = NONE, NEW k \in Keys
    PROVE  /\ Is(Link(l, a, k), [keys EXCEPT ![a] = k])
           /\ Malloc(l) \in Nodes
           /\ Link(l, a, k).entry[Malloc(l)] # NONE
           /\ Link(l, a, k).entry[Malloc(l)].account = a
<1>. DEFINE p == Malloc(l)
            ll == Link(l, a, k)
            new == [account |-> a, key |-> k]
<1>1. l \in List /\ Has(l, keys)
  BY DEF Is
<1>2. p \in Nodes /\ l.entry[p] = NONE
  BY <1>1, MallocFree
<1>. HIDE DEF p
<1>3. new \in [account : Accounts, key : Keys] /\ new # NONE
  BY ListAssumption
<1>4. /\ ll.next = [l.next EXCEPT ![p] = l.next[ROOT], ![ROOT] = p]
      /\ ll.tous = [x \in Nodes |-> IF x = l.next[ROOT] THEN p
                                    ELSE IF x = p THEN ROOT ELSE l.tous[x]]
      /\ ll.entry = [l.entry EXCEPT ![p] = new]
  BY DEF Link, p
<1>5. ll \in List
  <2>1. ll.next \in [Nodes \cup {ROOT} -> Nodes \cup {NULL}]
    BY <1>1, <1>2, <1>4 DEF List
  <2>2. ll.tous \in [Nodes -> Nodes \cup {ROOT}]
    BY <1>1, <1>2, <1>4 DEF List
  <2>3. ll.entry \in [Nodes -> [account : Accounts, key : Keys] \cup {NONE}]
    BY <1>1, <1>2, <1>3, <1>4 DEF List
  <2>. QED BY <2>1, <2>2, <2>3 DEF Link, List
<1>. HIDE DEF ll
<1>6. /\ ll.entry[p] = new
      /\ \A x \in Nodes \ {p} : ll.entry[x] = l.entry[x]
  BY <1>1, <1>2, <1>4 DEF List
<1>. HIDE DEF new
<1>7. new.account = a /\ new.key = k
  BY DEF new
<1>8. \A x \in Nodes : l.entry[x] # NONE => l.entry[x].account \in Accounts \ {a}
  <2>1. \A x \in Nodes : l.entry[x] # NONE =>
          l.entry[x].account \in Accounts /\ l.entry[x].key \in Keys
    BY <1>1 DEF List
  <2>. QED BY <1>1, <2>1, StoreFacts DEF Has
<1>9. Has(ll, [keys EXCEPT ![a] = k])
  <2>. DEFINE kk == [keys EXCEPT ![a] = k]
  <2>1. kk[a] = k /\ \A b \in Accounts \ {a} : kk[b] = keys[b]
    BY DEF Store
  <2>. HIDE DEF kk
  <2>2. \A x \in Nodes : ll.entry[x] # NONE => kk[ll.entry[x].account] = ll.entry[x].key
    BY <1>1, <1>6, <1>7, <1>8, <2>1 DEF Has
  <2>3. \A x, y \in Nodes :
          ll.entry[x] # NONE /\ ll.entry[y] # NONE
          /\ ll.entry[x].account = ll.entry[y].account => x = y
    BY <1>1, <1>6, <1>7, <1>8 DEF Has
  <2>4. \A b \in Accounts :
          kk[b] # NONE => \E x \in Nodes : ll.entry[x] # NONE /\ ll.entry[x].account = b
    <3>. TAKE b \in Accounts
    <3>1. CASE b = a
      BY <1>2, <1>3, <1>6, <1>7, <3>1
    <3>2. CASE b # a
      BY <1>1, <1>2, <1>6, <2>1, <3>2 DEF Has
    <3>. QED BY <3>1, <3>2
  <2>. QED BY <2>2, <2>3, <2>4 DEF Has, kk
<1>10. \E n, at : Chain(ll, n, at)
  <2>1. PICK n, at : Chain(l, n, at)
    BY DEF Is
  <2>. DEFINE new_at == [i \in 0..(n + 2) |-> IF i = n + 1 THEN p
                                             ELSE IF i = n + 2 THEN ROOT ELSE at[i]]
  <2>2. n \in Nat
    BY <2>1 DEF Chain
  <2>3. /\ new_at[n + 1] = p /\ new_at[n + 2] = ROOT
        /\ \A i \in 0..n : new_at[i] = at[i]
    BY <2>2
  <2>. HIDE DEF new_at
  <2>4. \A i \in 1..n : at[i] \in Nodes /\ at[i] # p /\ at[i] # ROOT
    BY <1>2, <2>1, NodesCounted DEF Chain
  <2>5. l.next[ROOT] = at[n] /\ p # at[n]
    <3>1. l.next[at[n + 1]] = at[n] /\ at[n + 1] = ROOT /\ at[0] = NULL
      BY <2>1, <2>2 DEF Chain
    <3>2. CASE n = 0
      BY <1>2, <3>1, <3>2, NodesCounted
    <3>3. CASE n # 0
      BY <2>2, <2>4, <3>1, <3>3
    <3>. QED BY <3>2, <3>3
  <2>6. /\ ll.next[p] = at[n] /\ ll.next[ROOT] = p
        /\ \A x \in Nodes \ {p} : ll.next[x] = l.next[x]
    BY <1>1, <1>2, <1>4, <2>5, NodesCounted DEF List
  <2>7. /\ ll.tous[p] = ROOT
        /\ \A x \in Nodes \ {p} : ll.tous[x] = IF x = at[n] THEN p ELSE l.tous[x]
    BY <1>2, <1>4, <2>5
  <2>8. new_at[0] = NULL /\ new_at[(n + 1) + 1] = ROOT /\ n + 1 \in Nat
    BY <2>1, <2>2, <2>3 DEF Chain
  <2>9. \A i \in 1..(n + 1) : i \in 1..n \/ i = n + 1
    BY <2>2
  <2>10. \A i \in 1..(n + 1) : new_at[i] \in Nodes
    BY <1>2, <2>2, <2>3, <2>4, <2>9
  <2>11. ASSUME NEW i \in 1..(n + 1), NEW j \in 1..(n + 1), new_at[i] = new_at[j] PROVE i = j
    <3>1. CASE i \in 1..n /\ j \in 1..n
      BY <2>1, <2>3, <2>11, <3>1 DEF Chain
    <3>2. CASE i = n + 1 \/ j = n + 1
      BY <2>3, <2>4, <2>9, <2>11, <3>2
    <3>. QED BY <2>9, <3>1, <3>2
  <2>12. ASSUME NEW i \in 1..((n + 1) + 1) PROVE ll.next[new_at[i]] = new_at[i - 1]
    <3>1. CASE i \in 1..n
      <4>1. new_at[i] = at[i] /\ new_at[i - 1] = at[i - 1] /\ l.next[at[i]] = at[i - 1]
        BY <2>1, <2>2, <2>3, <3>1 DEF Chain
      <4>. QED BY <2>4, <2>6, <3>1, <4>1
    <3>2. CASE i = n + 1
      BY <2>2, <2>3, <2>6, <3>2
    <3>3. CASE i = n + 2
      BY <2>2, <2>3, <2>6, <3>3
    <3>. QED BY <2>2, <3>1, <3>2, <3>3
  <2>13. ASSUME NEW i \in 1..(n + 1) PROVE ll.tous[new_at[i]] = new_at[i + 1]
    <3>1. CASE i \in 1..n
      <4>1. new_at[i] = at[i] /\ l.tous[at[i]] = at[i + 1] /\ (at[i] = at[n] => i = n)
        BY <2>1, <2>2, <2>3, <3>1 DEF Chain
      <4>2. i # n => new_at[i + 1] = at[i + 1]
        BY <2>2, <2>3, <3>1
      <4>. QED BY <2>3, <2>4, <2>7, <3>1, <4>1, <4>2
    <3>2. CASE i = n + 1
      BY <2>2, <2>3, <2>7, <3>2
    <3>. QED BY <2>9, <3>1, <3>2
  <2>14. ASSUME NEW x \in Nodes
         PROVE  ll.entry[x] # NONE <=> \E i \in 1..(n + 1) : new_at[i] = x
    <3>1. CASE x = p
      BY <1>3, <1>6, <2>2, <2>3, <3>1
    <3>2. CASE x # p
      <4>1. ll.entry[x] # NONE <=> \E i \in 1..n : at[i] = x
        BY <1>6, <2>1, <3>2 DEF Chain
      <4>2. (\E i \in 1..n : at[i] = x) <=> \E i \in 1..(n + 1) : new_at[i] = x
        BY <2>2, <2>3, <2>9, <3>2
      <4>. QED BY <4>1, <4>2
    <3>. QED BY <3>1, <3>2
  <2>15. Chain(ll, n + 1, new_at)
    BY <2>8, <2>10, <2>11, <2>12, <2>13, <2>14 DEF Chain
  <2>. QED BY <2>15
<1>. QED BY <1>2, <1>3, <1>5, <1>6, <1>7, <1>9, <1>10 DEF Is, ll, p

\* Forgetting a node takes the key of its account, and no other.
LEMMA ForgetIs ==
    ASSUME NEW l, NEW keys \in Store, Is(l, keys), NEW p \in Nodes, l.entry[p] # NONE
    PROVE  Is(Forget(l, p), [keys EXCEPT ![l.entry[p].account] = NONE])
<1>. DEFINE ll == Forget(l, p)
            a == l.entry[p].account
<1>1. l \in List /\ Has(l, keys)
  BY DEF Is
<1>2. a \in Accounts
  BY <1>1 DEF List
<1>3. PICK n, at : Chain(l, n, at)
  BY DEF Is
<1>4. PICK j \in 1..n : at[j] = p
  BY <1>3 DEF Chain
<1>5. n \in Nat /\ at[0] = NULL /\ at[n + 1] = ROOT
  BY <1>3 DEF Chain
<1>6. /\ \A i \in 1..n : at[i] \in Nodes /\ at[i] # NULL /\ at[i] # ROOT
      /\ \A i \in 1..n : at[i] = p => i = j
      /\ p # NULL /\ p # ROOT
  BY <1>3, <1>4, NodesCounted DEF Chain
<1>7. /\ l.tous[p] = at[j + 1] /\ l.next[p] = at[j - 1]
      /\ at[j + 1] \in Nodes \cup {ROOT} /\ at[j - 1] \in Nodes \cup {NULL}
  <2>1. j \in 1..(n + 1) /\ (j = n \/ j + 1 \in 1..n) /\ (j = 1 \/ j - 1 \in 1..n)
    BY <1>4, <1>5
  <2>. QED BY <1>3, <1>4, <1>5, <1>6, <2>1 DEF Chain
<1>8. at[j + 1] # p /\ at[j - 1] # p
  <2>1. (j = n \/ j + 1 \in 1..n) /\ (j = 1 \/ j - 1 \in 1..n)
    BY <1>4, <1>5
  <2>. QED BY <1>4, <1>5, <1>6, <2>1
<1>9. /\ ll.next = [l.next EXCEPT ![at[j + 1]] = at[j - 1], ![p] = NULL]
      /\ ll.tous = [x \in Nodes |-> IF x = at[j - 1] THEN at[j + 1]
                                    ELSE IF x = p THEN ROOT ELSE l.tous[x]]
      /\ ll.entry = [l.entry EXCEPT ![p] = NONE]
  BY <1>7 DEF Forget
<1>10. ll \in List
  <2>1. ll.next \in [Nodes \cup {ROOT} -> Nodes \cup {NULL}]
    BY <1>1, <1>7, <1>9 DEF List
  <2>2. ll.tous \in [Nodes -> Nodes \cup {ROOT}]
    BY <1>1, <1>7, <1>9 DEF List
  <2>3. ll.entry \in [Nodes -> [account : Accounts, key : Keys] \cup {NONE}]
    BY <1>1, <1>9 DEF List
  <2>. QED BY <2>1, <2>2, <2>3 DEF Forget, List
<1>. HIDE DEF ll
<1>11. ll.entry[p] = NONE /\ \A x \in Nodes \ {p} : ll.entry[x] = l.entry[x]
  BY <1>1, <1>9 DEF List
<1>12. Has(ll, [keys EXCEPT ![a] = NONE])
  <2>. DEFINE kk == [keys EXCEPT ![a] = NONE]
  <2>1. kk[a] = NONE /\ \A b \in Accounts \ {a} : kk[b] = keys[b]
    BY <1>2 DEF Store
  <2>2. \A x \in Nodes \ {p} : l.entry[x] # NONE => l.entry[x].account \in Accounts \ {a}
    BY <1>1 DEF Has, List
  <2>. HIDE DEF kk, a
  <2>3. \A x \in Nodes : ll.entry[x] # NONE => kk[ll.entry[x].account] = ll.entry[x].key
    BY <1>1, <1>11, <2>1, <2>2 DEF Has
  <2>4. \A x, y \in Nodes :
          ll.entry[x] # NONE /\ ll.entry[y] # NONE
          /\ ll.entry[x].account = ll.entry[y].account => x = y
    BY <1>1, <1>11 DEF Has
  <2>5. \A b \in Accounts :
          kk[b] # NONE => \E x \in Nodes : ll.entry[x] # NONE /\ ll.entry[x].account = b
    <3>. SUFFICES ASSUME NEW b \in Accounts, kk[b] # NONE
                  PROVE  \E x \in Nodes : ll.entry[x] # NONE /\ ll.entry[x].account = b
      OBVIOUS
    <3>1. b # a /\ keys[b] # NONE
      BY <2>1
    <3>2. PICK x \in Nodes : l.entry[x] # NONE /\ l.entry[x].account = b
      BY <1>1, <3>1 DEF Has
    <3>3. x # p
      BY <3>1, <3>2 DEF a
    <3>. QED BY <1>11, <3>2, <3>3
  <2>. QED BY <2>3, <2>4, <2>5 DEF Has, kk
<1>13. \E m, on : Chain(ll, m, on)
  <2>. DEFINE on == [i \in 0..n |-> IF i < j THEN at[i] ELSE at[i + 1]]
  <2>1. \A i \in 0..n : on[i] = IF i < j THEN at[i] ELSE at[i + 1]
    OBVIOUS
  <2>. HIDE DEF on
  <2>2. /\ ll.next[at[j + 1]] = at[j - 1]
        /\ \A x \in (Nodes \cup {ROOT}) \ {p, at[j + 1]} : ll.next[x] = l.next[x]
    BY <1>1, <1>7, <1>8, <1>9 DEF List
  <2>3. \A x \in Nodes \ {p} : ll.tous[x] = IF x = at[j - 1] THEN at[j + 1] ELSE l.tous[x]
    BY <1>9
  <2>4. n - 1 \in Nat /\ (n - 1) + 1 = n
    BY <1>4, <1>5
  <2>5. on[0] = NULL /\ on[n] = ROOT
    BY <1>4, <1>5, <2>1
  <2>6. \A i \in 1..(n - 1) : (i < j => i \in 1..n) /\ (~(i < j) => i + 1 \in 1..n /\ i + 1 # j)
    BY <1>4, <1>5
  <2>7. \A i \in 1..(n - 1) : on[i] \in Nodes /\ on[i] # p
    BY <1>4, <1>5, <1>6, <2>1, <2>6
  <2>8. \A i, k \in 1..(n - 1) : on[i] = on[k] => i = k
    <3>. SUFFICES ASSUME NEW i \in 1..(n - 1), NEW k \in 1..(n - 1), on[i] = on[k] PROVE i = k
      OBVIOUS
    <3>1. PICK ii \in 1..n : on[i] = at[ii] /\ ii = IF i < j THEN i ELSE i + 1
      BY <1>5, <2>1, <2>6
    <3>2. PICK kk \in 1..n : on[k] = at[kk] /\ kk = IF k < j THEN k ELSE k + 1
      BY <1>5, <2>1, <2>6
    <3>3. at[ii] = at[kk]
      BY <3>1, <3>2
    <3>4. ii = kk
      BY <1>3, <3>3 DEF Chain
    <3>. QED BY <1>4, <1>5, <3>1, <3>2, <3>4
  <2>9. ASSUME NEW i \in 1..n PROVE ll.next[on[i]] = on[i - 1]
    <3>1. on[i] = (IF i < j THEN at[i] ELSE at[i + 1])
          /\ on[i - 1] = (IF i - 1 < j THEN at[i - 1] ELSE at[i])
      BY <1>4, <1>5, <2>1
    <3>2. CASE i < j
      <4>1. at[i] # at[j + 1]
        <5>1. j = n \/ j + 1 \in 1..n
          BY <1>4, <1>5
        <5>. QED BY <1>3, <1>5, <1>6, <3>2, <5>1 DEF Chain
      <4>2. l.next[at[i]] = at[i - 1] /\ at[i] # p
        BY <1>3, <1>4, <1>5, <1>6, <3>2 DEF Chain
      <4>. QED BY <1>4, <1>5, <1>6, <2>2, <3>1, <3>2, <4>1, <4>2
    <3>3. CASE i = j
      BY <1>4, <1>5, <2>2, <3>1, <3>3
    <3>4. CASE i > j
      <4>1. /\ i + 1 \in 1..(n + 1) /\ (i = n \/ i + 1 \in 1..n)
            /\ j + 1 \in 1..n /\ (i + 1) - 1 = i /\ i - 1 >= j
        BY <1>4, <1>5, <3>4
      <4>2. l.next[at[i + 1]] = at[i]
        BY <1>3, <4>1 DEF Chain
      <4>3. at[i + 1] # at[j + 1] /\ at[i + 1] # p /\ at[i + 1] \in Nodes \cup {ROOT}
        <5>1. CASE i + 1 = n + 1
          BY <1>3, <1>4, <1>5, <1>6, <4>1, <5>1, NodesCounted DEF Chain
        <5>2. CASE i + 1 \in 1..n
          BY <1>3, <1>4, <1>5, <1>6, <3>4, <4>1, <5>2 DEF Chain
        <5>. QED BY <1>4, <4>1, <5>1, <5>2
      <4>. QED BY <1>4, <2>2, <3>1, <3>4, <4>1, <4>2, <4>3
    <3>. QED BY <1>4, <3>2, <3>3, <3>4
  <2>10. ASSUME NEW i \in 1..(n - 1) PROVE ll.tous[on[i]] = on[i + 1]
    <3>1. on[i] = (IF i < j THEN at[i] ELSE at[i + 1])
          /\ on[i + 1] = (IF i + 1 < j THEN at[i + 1] ELSE at[(i + 1) + 1])
      BY <1>4, <1>5, <2>1
    <3>2. CASE i = j - 1
      <4>1. on[i] = at[j - 1] /\ on[i + 1] = at[j + 1]
        BY <1>4, <1>5, <3>1, <3>2
      <4>. QED BY <2>3, <2>7, <4>1
    <3>3. CASE i < j - 1
      <4>1. i \in 1..n /\ j - 1 \in 1..n /\ i < j /\ i + 1 < j /\ i # j - 1
        BY <1>4, <1>5, <3>3
      <4>2. l.tous[at[i]] = at[i + 1] /\ at[i] # at[j - 1]
        BY <1>3, <4>1 DEF Chain
      <4>. QED BY <2>3, <2>7, <3>1, <4>1, <4>2
    <3>4. CASE i >= j
      <4>1. i + 1 \in 1..n /\ (j = 1 \/ j - 1 \in 1..n) /\ i + 1 # j - 1
            /\ ~(i < j) /\ ~(i + 1 < j)
        BY <1>4, <1>5, <3>4
      <4>2. l.tous[at[i + 1]] = at[(i + 1) + 1] /\ at[i + 1] # at[j - 1]
        BY <1>3, <1>5, <1>6, <4>1 DEF Chain
      <4>. QED BY <2>3, <2>7, <3>1, <4>1, <4>2
    <3>. QED BY <1>4, <3>2, <3>3, <3>4
  <2>11. ASSUME NEW x \in Nodes
         PROVE  ll.entry[x] # NONE <=> \E i \in 1..(n - 1) : on[i] = x
    <3>1. CASE x = p
      BY <1>11, <2>7, <3>1
    <3>2. CASE x # p
      <4>1. ll.entry[x] # NONE <=> \E i \in 1..n : at[i] = x
        BY <1>3, <1>11, <3>2 DEF Chain
      <4>2. ASSUME NEW i \in 1..n, at[i] = x PROVE \E k \in 1..(n - 1) : on[k] = x
        <5>1. i # j
          BY <1>4, <3>2, <4>2
        <5>2. CASE i < j
          <6>1. i \in 1..(n - 1) /\ on[i] = x
            BY <1>4, <1>5, <2>1, <4>2, <5>2
          <6>. QED BY <6>1
        <5>3. CASE i > j
          <6>1. i - 1 \in 1..(n - 1) /\ on[i - 1] = x
            BY <1>4, <1>5, <2>1, <4>2, <5>3
          <6>. QED BY <6>1
        <5>. QED BY <1>4, <5>1, <5>2, <5>3
      <4>3. ASSUME NEW i \in 1..(n - 1), on[i] = x PROVE \E k \in 1..n : at[k] = x
        <5>1. on[i] = IF i < j THEN at[i] ELSE at[i + 1]
          BY <1>5, <2>1
        <5>. QED BY <2>6, <4>3, <5>1
      <4>. QED BY <4>1, <4>2, <4>3
    <3>. QED BY <3>1, <3>2
  <2>12. Chain(ll, n - 1, on)
    <3>1. /\ \A i \in 1..(n - 1) : on[i] \in Nodes
          /\ \A i \in 1..((n - 1) + 1) : ll.next[on[i]] = on[i - 1]
          /\ on[(n - 1) + 1] = ROOT
      BY <2>4, <2>5, <2>7, <2>9
    <3>. QED BY <2>4, <2>5, <2>8, <2>10, <2>11, <3>1 DEF Chain
  <2>. QED BY <2>12
<1>. QED BY <1>10, <1>12, <1>13 DEF Is, ll

\* The walk meets the nodes of the chain from the first to the last.
LEMMA WalkMeets ==
    ASSUME NEW l \in List, NEW n, NEW at, Chain(l, n, at), n <= Cardinality(Accounts)
    PROVE  Walk(l) = [i \in Nodes |-> IF i <= n THEN at[(n + 1) - i] ELSE NULL]
<1>. DEFINE C == Cardinality(Accounts)
            Met(g) == [i \in Nodes |-> IF i = 1 THEN l.next[ROOT]
                                       ELSE IF g[i - 1] = NULL THEN NULL ELSE l.next[g[i - 1]]]
            w == [i \in Nodes |-> IF i <= n THEN at[(n + 1) - i] ELSE NULL]
<1>1. n \in Nat /\ C \in Nat /\ Nodes = 1..(C + 1)
  BY NodesCounted DEF Chain
<1>2. \A i \in Nodes : w[i] = IF i <= n THEN at[(n + 1) - i] ELSE NULL
  OBVIOUS
<1>. HIDE DEF w
<1>3. l.next[ROOT] = at[n] /\ at[0] = NULL
  <2>1. n + 1 \in 1..(n + 1) /\ (n + 1) - 1 = n
    BY <1>1
  <2>. QED BY <2>1 DEF Chain
<1>4. ASSUME NEW i \in Nodes
      PROVE  w[i] = IF i = 1 THEN l.next[ROOT]
                    ELSE IF w[i - 1] = NULL THEN NULL ELSE l.next[w[i - 1]]
  <2>1. CASE i = 1
    <3>1. w[1] = IF 1 <= n THEN at[n] ELSE NULL
      BY <1>1, <1>2
    <3>. QED BY <1>1, <1>3, <2>1, <3>1
  <2>2. CASE i # 1 /\ i <= n + 1
    <3>. DEFINE k == (n + 1) - (i - 1)
    <3>1. i - 1 \in Nodes /\ i - 1 <= n /\ k \in 1..n /\ k - 1 = (n + 1) - i
      BY <1>1, <2>2
    <3>2. w[i - 1] = at[k]
      BY <1>2, <3>1
    <3>3. at[k] # NULL /\ l.next[at[k]] = at[k - 1]
      BY <1>1, <3>1, NodesCounted DEF Chain
    <3>4. w[i] = at[k - 1]
      <4>1. CASE i <= n
        BY <1>2, <3>1, <4>1
      <4>2. CASE i = n + 1
        <5>1. k - 1 = 0 /\ ~(i <= n)
          BY <1>1, <4>2
        <5>2. at[k - 1] = NULL
          BY <1>3, <5>1
        <5>. QED BY <1>2, <5>1, <5>2
      <4>. QED BY <1>1, <2>2, <4>1, <4>2
    <3>. QED BY <2>2, <3>2, <3>3, <3>4
  <2>3. CASE i > n + 1
    <3>1. i - 1 \in Nodes /\ ~(i - 1 <= n) /\ ~(i <= n) /\ i # 1
      BY <1>1, <2>3
    <3>. QED BY <1>2, <3>1
  <2>. QED BY <1>1, <2>1, <2>2, <2>3
<1>5. w = Met(w)
  <2>1. w = [i \in Nodes |-> w[i]]
    BY DEF w
  <2>. QED BY <1>4, <2>1
<1>6. ASSUME NEW g, g = Met(g) PROVE g = w
  <2>. DEFINE G == {i \in 0..(C + 1) : i = 0 \/ g[i] = w[i]}
  <2>1. \A i \in Nodes : g[i] = IF i = 1 THEN l.next[ROOT]
                                ELSE IF g[i - 1] = NULL THEN NULL ELSE l.next[g[i - 1]]
    BY <1>6
  <2>2. \A i \in 1..(C + 1) : i - 1 \in G => i \in G
    BY <1>1, <1>4, <2>1
  <2>3. 0 \in G
    BY <1>1
  <2>4. 0..(C + 1) \subseteq G
    <3>. HIDE DEF G
    <3>1. C + 1 \in Nat
      BY <1>1
    <3>. QED BY <2>2, <2>3, <3>1, UpTo
  <2>5. \A i \in Nodes : g[i] = w[i]
    BY <1>1, <2>4
  <2>6. g = [i \in Nodes |-> g[i]]
    BY <1>6
  <2>7. w = [i \in Nodes |-> w[i]]
    BY DEF w
  <2>. QED BY <2>5, <2>6, <2>7
<1>7. Walk(l) = CHOOSE g : g = Met(g)
  BY DEF Walk
<1>8. (CHOOSE g : g = Met(g)) = w
  <2>. HIDE DEF Met
  <2>. QED BY <1>5, <1>6
<1>. QED BY <1>7, <1>8 DEF w

\* The search finds the node of an account if it has a key.
LEMMA FindFinds ==
    ASSUME NEW l, NEW keys, Is(l, keys), NEW a \in Accounts
    PROVE  IF keys[a] = NONE THEN Find(l, a) = NULL
           ELSE Find(l, a) \in Nodes /\ l.entry[Find(l, a)] # NONE
                /\ l.entry[Find(l, a)].account = a
<1>1. PICK n, at : Chain(l, n, at)
  BY DEF Is
<1>. DEFINE met == Walk(l)
            own == {i \in Nodes : met[i] # NULL /\ Same(l.entry[met[i]].account, a)}
<1>2. l \in List /\ Has(l, keys) /\ n \in Nat
  BY <1>1 DEF Is, Chain
<1>3. n <= Cardinality(Accounts)
  BY <1>1, <1>2, ChainBounded
<1>4. \A i \in Nodes : met[i] = IF i <= n THEN at[(n + 1) - i] ELSE NULL
  BY <1>1, <1>2, <1>3, WalkMeets
<1>. HIDE DEF met
<1>5. \A i \in Nodes : met[i] # NULL => met[i] \in Nodes /\ l.entry[met[i]] # NONE
  <2>. SUFFICES ASSUME NEW i \in Nodes, met[i] # NULL
                PROVE  met[i] \in Nodes /\ l.entry[met[i]] # NONE
    OBVIOUS
  <2>1. i <= n /\ (n + 1) - i \in 1..n /\ met[i] = at[(n + 1) - i]
    BY <1>2, <1>4, NodesCounted
  <2>. QED BY <1>1, <2>1 DEF Chain
<1>6. \A x \in Nodes : l.entry[x] # NONE => \E i \in Nodes : met[i] = x
  <2>. SUFFICES ASSUME NEW x \in Nodes, l.entry[x] # NONE PROVE \E i \in Nodes : met[i] = x
    OBVIOUS
  <2>1. PICK j \in 1..n : at[j] = x
    BY <1>1 DEF Chain
  <2>2. (n + 1) - j \in Nodes /\ (n + 1) - j <= n /\ (n + 1) - ((n + 1) - j) = j
    BY <1>2, <1>3, NodesCounted
  <2>3. met[(n + 1) - j] = x
    BY <1>4, <2>1, <2>2
  <2>. QED BY <2>2, <2>3
<1>7. Find(l, a) = IF own = {} THEN NULL ELSE met[Min(own)]
  BY DEF Find, met
<1>8. CASE own = {}
  <2>1. ASSUME keys[a] # NONE PROVE FALSE
    <3>1. PICK x \in Nodes : l.entry[x] # NONE /\ l.entry[x].account = a
      BY <1>2, <2>1 DEF Has
    <3>2. PICK i \in Nodes : met[i] = x
      BY <1>6, <3>1
    <3>3. met[i] # NULL
      BY <3>2, NodesCounted
    <3>. QED BY <1>8, <3>1, <3>2, <3>3 DEF Same
  <2>. QED BY <1>7, <1>8, <2>1
<1>9. CASE own # {}
  <2>1. own \in SUBSET Nat
    BY NodesCounted
  <2>2. \E i \in own : \A j \in own : i <= j
    <3>. HIDE DEF own
    <3>. QED BY <1>9, <2>1, LeastExists
  <2>3. Min(own) \in own
    <3>. HIDE DEF own
    <3>. QED BY <2>2 DEF Min
  <2>. DEFINE p == met[Min(own)]
  <2>4. p \in Nodes /\ l.entry[p] # NONE /\ l.entry[p].account = a
    BY <1>5, <2>3 DEF Same
  <2>5. keys[a] # NONE
    <3>1. keys[a] = l.entry[p].key
      BY <1>2, <2>4 DEF Has
    <3>2. l.entry[p].key \in Keys
      BY <1>2, <2>4 DEF List
    <3>. QED BY <3>1, <3>2, StoreFacts
  <2>. QED BY <1>7, <1>9, <2>4, <2>5
<1>. QED BY <1>8, <1>9

LEMMA ForgetAccountIs ==
    ASSUME NEW l, NEW keys \in Store, Is(l, keys), NEW a \in Accounts
    PROVE  Is(ForgetAccount(l, a), [keys EXCEPT ![a] = NONE])
<1>1. CASE keys[a] = NONE
  <2>1. [keys EXCEPT ![a] = NONE] = keys
    BY <1>1 DEF Store
  <2>2. ForgetAccount(l, a) = l
    BY <1>1, FindFinds DEF ForgetAccount
  <2>. QED BY <2>1, <2>2
<1>2. CASE keys[a] # NONE
  <2>. DEFINE p == Find(l, a)
  <2>1. p \in Nodes /\ l.entry[p] # NONE /\ l.entry[p].account = a
    BY <1>2, FindFinds
  <2>2. ForgetAccount(l, a) = Forget(l, p)
    BY <2>1, NodesCounted DEF ForgetAccount
  <2>. HIDE DEF p
  <2>. QED BY <2>1, <2>2, ForgetIs
<1>. QED BY <1>1, <1>2

\* The first n keys of a file are linked by a function that exists.
LEMMA LinkedDefined ==
    ASSUME NEW keys, NEW order, NEW n \in Nat
    PROVE  \E read : /\ read[0] = NoKeys
                     /\ \A i \in 1..n : read[i] = Link(read[i - 1], order[i], keys[order[i]])
                     /\ Linked(keys, order, n) = read[n]
<1>. DEFINE Step(l, i) == Link(l, order[i], keys[order[i]])
            Read(g, m) == [i \in 0..m |-> IF i = 0 THEN NoKeys ELSE Step(g[i - 1], i)]
            G == {m \in 0..n : \E g : g = Read(g, m)}
<1>. HIDE DEF Step
<1>1. 0 \in G
  <2>. DEFINE g == [i \in {0} |-> NoKeys]
  <2>1. g = Read(g, 0)
    OBVIOUS
  <2>. HIDE DEF g, Read
  <2>. QED BY <2>1
<1>2. ASSUME NEW m \in 1..n, m - 1 \in G PROVE m \in G
  <2>1. PICK h : h = Read(h, m - 1)
    BY <1>2
  <2>. DEFINE g == [i \in 0..m |-> IF i = m THEN Step(h[m - 1], m) ELSE h[i]]
  <2>2. /\ g[m] = Step(h[m - 1], m)
        /\ \A i \in 0..(m - 1) : g[i] = h[i]
    OBVIOUS
  <2>3. g = [i \in 0..m |-> g[i]]
    OBVIOUS
  <2>. HIDE DEF g
  <2>4. \A i \in 0..(m - 1) : h[i] = IF i = 0 THEN NoKeys ELSE Step(h[i - 1], i)
    BY <2>1
  <2>5. ASSUME NEW i \in 0..m PROVE g[i] = IF i = 0 THEN NoKeys ELSE Step(g[i - 1], i)
    <3>1. CASE i = m
      <4>1. i # 0 /\ i - 1 \in 0..(m - 1)
        BY <3>1
      <4>. QED BY <2>2, <3>1, <4>1
    <3>2. CASE i # m
      <4>1. i \in 0..(m - 1) /\ (i # 0 => i - 1 \in 0..(m - 1))
        BY <3>2
      <4>. QED BY <2>2, <2>4, <4>1
    <3>. QED BY <3>1, <3>2
  <2>6. g = Read(g, m)
    BY <2>3, <2>5
  <2>. HIDE DEF Read
  <2>. QED BY <2>6
<1>3. 0..n \subseteq G
  <2>. HIDE DEF G
  <2>. QED BY <1>1, <1>2, UpTo
<1>4. \E g : g = Read(g, n)
  BY <1>3
<1>. DEFINE read == CHOOSE g : g = Read(g, n)
<1>5. read = Read(read, n)
  <2>. HIDE DEF Read
  <2>. QED BY <1>4
<1>6. Linked(keys, order, n) = read[n]
  BY DEF Linked, Step
<1>. HIDE DEF read
<1>7. \A i \in 0..n : read[i] = IF i = 0 THEN NoKeys ELSE Step(read[i - 1], i)
  BY <1>5
<1>8. read[0] = NoKeys /\ \A i \in 1..n : read[i] = Step(read[i - 1], i)
  BY <1>7
<1>. QED BY <1>6, <1>8 DEF Step

\* Reading a file gives a list of its keys, whatever their order in it.
LEMMA LinkedIs ==
    ASSUME NEW keys \in Store, NEW n \in Nat,
           NEW order \in Bijection(1..n, {a \in Accounts : keys[a] # NONE})
    PROVE  Is(Linked(keys, order, n), keys)
<1>. DEFINE Upto(i) == [a \in Accounts |-> IF \E j \in 1..i : order[j] = a THEN keys[a] ELSE NONE]
<1>1. /\ \A i \in 1..n : order[i] \in Accounts /\ keys[order[i]] # NONE
      /\ \A i, j \in 1..n : order[i] = order[j] => i = j
      /\ \A a \in Accounts : keys[a] # NONE => \E i \in 1..n : order[i] = a
  BY DEF Bijection, Injection, Surjection, IsInjective
<1>2. PICK read : /\ read[0] = NoKeys
                  /\ \A i \in 1..n : read[i] = Link(read[i - 1], order[i], keys[order[i]])
                  /\ Linked(keys, order, n) = read[n]
  BY LinkedDefined
<1>. DEFINE G == {i \in 0..n : Is(read[i], Upto(i))}
<1>3. 0 \in G
  <2>1. Upto(0) = Empty
    BY DEF Empty
  <2>. HIDE DEF Upto
  <2>2. Is(read[0], Upto(0))
    BY <1>2, <2>1, EmptyIs
  <2>. QED BY <2>2
<1>4. ASSUME NEW i \in 1..n, i - 1 \in G PROVE i \in G
  <2>1. Upto(i - 1) \in Store
    BY DEF Store
  <2>2. Upto(i - 1)[order[i]] = NONE
    BY <1>1
  <2>3. Upto(i) = [Upto(i - 1) EXCEPT ![order[i]] = keys[order[i]]]
    <3>1. \A j \in 1..i : j \in 1..(i - 1) \/ j = i
      OBVIOUS
    <3>2. \A j \in 1..(i - 1) : j \in 1..i
      OBVIOUS
    <3>3. i \in 1..i
      OBVIOUS
    <3>. QED BY <1>1, <3>1, <3>2, <3>3
  <2>4. keys[order[i]] \in Keys
    BY <1>1 DEF Store
  <2>5. Is(read[i - 1], Upto(i - 1))
    BY <1>4
  <2>. HIDE DEF Upto
  <2>6. Is(Link(read[i - 1], order[i], keys[order[i]]), Upto(i))
    BY <1>1, <2>1, <2>2, <2>3, <2>4, <2>5, LinkIs
  <2>7. Is(read[i], Upto(i))
    BY <1>2, <2>6
  <2>. QED BY <2>7
<1>5. 0..n \subseteq G
  <2>. HIDE DEF G
  <2>. QED BY <1>3, <1>4, UpTo
<1>6. Upto(n) = keys
  <2>1. \A a \in Accounts : Upto(n)[a] = keys[a]
    BY <1>1
  <2>2. Upto(n) = [a \in Accounts |-> Upto(n)[a]] /\ keys = [a \in Accounts |-> keys[a]]
    BY DEF Store
  <2>. QED BY <2>1, <2>2
<1>7. Is(read[n], Upto(n))
  BY <1>5
<1>. QED BY <1>2, <1>6, <1>7

-----------------------------------------------------------------------------

\* What ListIsStore says of a list that has the keys in memory.
LEMMA IsStore == ASSUME mem \in Store, Is(list, mem) PROVE ListIsStore
<1>. DEFINE met == Walk(list)
            member == {met[i] : i \in Nodes} \ {NULL}
<1>1. PICK n, at : Chain(list, n, at)
  BY DEF Is
<1>2. list \in List /\ Has(list, mem) /\ n \in Nat
  BY <1>1 DEF Is, Chain
<1>3. n <= Cardinality(Accounts)
  BY <1>1, <1>2, ChainBounded
<1>4. \A i \in Nodes : met[i] = IF i <= n THEN at[(n + 1) - i] ELSE NULL
  BY <1>1, <1>2, <1>3, WalkMeets
<1>. HIDE DEF met
<1>5. member = {x \in Nodes : list.entry[x] # NONE}
  <2>1. ASSUME NEW x \in member PROVE x \in Nodes /\ list.entry[x] # NONE
    <3>1. PICK i \in Nodes : met[i] = x
      OBVIOUS
    <3>2. i <= n /\ (n + 1) - i \in 1..n /\ x = at[(n + 1) - i]
      BY <1>2, <1>4, <3>1, NodesCounted
    <3>. QED BY <1>1, <3>2 DEF Chain
  <2>2. ASSUME NEW x \in Nodes, list.entry[x] # NONE PROVE x \in member
    <3>1. PICK j \in 1..n : at[j] = x
      BY <1>1, <2>2 DEF Chain
    <3>2. (n + 1) - j \in Nodes /\ (n + 1) - j <= n /\ (n + 1) - ((n + 1) - j) = j
      BY <1>2, <1>3, NodesCounted
    <3>3. met[(n + 1) - j] = x
      BY <1>4, <3>1, <3>2
    <3>. QED BY <3>2, <3>3, NodesCounted
  <2>. QED BY <2>1, <2>2
<1>6. met[Cardinality(Nodes)] = NULL
  <2>1. Cardinality(Nodes) = Cardinality(Accounts) + 1
    BY NodesCounted, FS_Interval
  <2>. QED BY <1>2, <1>3, <1>4, <2>1, NodesCounted
<1>. HIDE DEF member
<1>7. \A x \in member : list.next[list.tous[x]] = x
  <2>. TAKE x \in member
  <2>1. PICK j \in 1..n : at[j] = x
    BY <1>1, <1>5 DEF Chain
  <2>2. j + 1 \in 1..(n + 1) /\ (j + 1) - 1 = j
    BY <1>2
  <2>3. list.tous[at[j]] = at[j + 1] /\ list.next[at[j + 1]] = at[j]
    BY <1>1, <2>2 DEF Chain
  <2>. QED BY <2>1, <2>3
<1>8. \A x \in member :
        /\ mem[list.entry[x].account] = list.entry[x].key
        /\ \A y \in member \ {x} : list.entry[y].account # list.entry[x].account
  BY <1>2, <1>5 DEF Has
<1>9. \A a \in Accounts : mem[a] # NONE => \E x \in member : list.entry[x].account = a
  BY <1>2, <1>5 DEF Has
<1>. QED BY <1>2, <1>5, <1>6, <1>7, <1>8, <1>9 DEF ListIsStore, met, member

\* A step with the list is a step without it.
LEMMA ListStep == ListNext => Next
    BY DEF ListNext, Next, Operation

LEMMA ReadListIs == ASSUME mem' \in Store, ReadList PROVE Is(list', mem')
<1>. DEFINE own == {a \in Accounts : mem'[a] # NONE}
            n == Cardinality(own)
<1>1. PICK order \in Bijection(1..n, own) : list' = Linked(mem', order, n)
  BY DEF ReadList
<1>2. n \in Nat
  BY ListAssumption, FS_Subset, FS_CardinalityType
<1>. HIDE DEF n
<1>. QED BY <1>1, <1>2, LinkedIs

\* A step of the program keeps a list that has the keys in memory so.
LEMMA ListStepKeeps == ASSUME TypeOK, Is(list, mem), ListNext PROVE Is(list', mem')
<1>1. mem \in Store /\ mem' \in Store /\ Is(list, mem)
  <2>1. TypeOK'
    BY ListStep, TypeStep
  <2>. QED BY <2>1 DEF TypeOK
<1>2. ASSUME ReadList PROVE Is(list', mem')
  BY <1>1, <1>2, ReadListIs
<1>3. ASSUME mem' = mem, list' = list PROVE Is(list', mem')
  BY <1>1, <1>3
<1>4. \A a \in Accounts, k \in Keys \cup {NONE} : With(a, k) = [mem EXCEPT ![a] = k]
  BY <1>1 DEF With, Same, Store
<1>5. ASSUME NEW a \in Accounts, ImportKey(a), ImportList(a) PROVE Is(list', mem')
  <2>1. PICK k \in Keys : mem' = [mem EXCEPT ![a] = k]
    BY <1>4, <1>5 DEF ImportKey
  <2>. DEFINE l == ForgetAccount(list, a)
              kk == [mem EXCEPT ![a] = NONE]
  <2>2. Is(l, kk)
    BY <1>1, ForgetAccountIs
  <2>3. kk \in Store /\ kk[a] = NONE /\ [kk EXCEPT ![a] = k] = mem' /\ mem'[a] = k
    BY <1>1, <2>1 DEF Store
  <2>4. list' = Link(l, a, k)
    BY <1>5, <2>3 DEF ImportList
  <2>. HIDE DEF l, kk
  <2>. QED BY <2>2, <2>3, <2>4, LinkIs
<1>6. ASSUME NEW a \in Accounts, ImportKeyFails(a), ImportFailsList(a) PROVE Is(list', mem')
  <2>1. CASE mem' = mem /\ UNCHANGED list
    BY <1>3, <2>1
  <2>2. CASE /\ mem[a] # NONE => mem'[a] # mem[a]
             /\ LET l == ForgetAccount(list, a)
                IN \E k \in Keys : list' = Forget(Link(l, a, k), Malloc(l))
    <3>. DEFINE l == ForgetAccount(list, a)
                kk == [mem EXCEPT ![a] = NONE]
    <3>1. mem' = kk
      <4>1. mem' = mem \/ mem' = kk
        BY <1>4, <1>6 DEF ImportKeyFails
      <4>2. mem[a] = NONE => kk = mem
        BY <1>1 DEF Store
      <4>. QED BY <2>2, <4>1, <4>2
    <3>2. Is(l, kk)
      BY <1>1, ForgetAccountIs
    <3>3. PICK k \in Keys : list' = Forget(Link(l, a, k), Malloc(l))
      BY <2>2
    <3>. DEFINE ll == Link(l, a, k)
                kl == [kk EXCEPT ![a] = k]
    <3>4. kk \in Store /\ kk[a] = NONE /\ kl \in Store /\ [kl EXCEPT ![a] = NONE] = kk
      BY <1>1 DEF Store
    <3>. HIDE DEF l, kk
    <3>5. Is(ll, kl) /\ Malloc(l) \in Nodes
          /\ ll.entry[Malloc(l)] # NONE /\ ll.entry[Malloc(l)].account = a
      BY <3>2, <3>4, LinkIs
    <3>. HIDE DEF ll, kl
    <3>6. Is(Forget(ll, Malloc(l)), [kl EXCEPT ![a] = NONE])
      BY <3>4, <3>5, ForgetIs
    <3>. QED BY <3>1, <3>3, <3>4, <3>6 DEF ll
  <2>. QED BY <1>6, <2>1, <2>2 DEF ImportFailsList
<1>7. ASSUME NEW a \in Accounts, DeleteKey(a), DeleteList(a) PROVE Is(list', mem')
  <2>1. mem' = [mem EXCEPT ![a] = NONE]
    <3>1. CASE mem[a] = NONE
      BY <1>1, <1>7, <3>1 DEF DeleteKey, Store
    <3>2. CASE mem[a] # NONE
      BY <1>4, <1>7, <3>2 DEF DeleteKey
    <3>. QED BY <3>1, <3>2
  <2>. QED BY <1>1, <1>7, <2>1, ForgetAccountIs DEF DeleteList
<1>8. CASE (KeysToString \/ Save \/ SaveRefused \/ SaveCut) /\ UNCHANGED list
  BY <1>3, <1>8 DEF KeysToString, Save, SaveRefused, SaveCut
<1>9. CASE (Exit \/ DeleteVfsFiles) /\ UNCHANGED list
  BY <1>3, <1>9 DEF Exit, DeleteVfsFiles
<1>. QED BY <1>2, <1>3, <1>5, <1>6, <1>7, <1>8, <1>9 DEF ListNext

\* The program with the list does what the one without it does, so that what
\* is proved of KeyStore holds of it too.
THEOREM ListRefinesStore == ListSpec => Spec
<1>1. ListInit => Init
  BY DEF ListInit
<1>2. [ListNext]_listVars => [Next]_vars
  BY ListStep DEF listVars, vars
<1>. QED BY <1>1, <1>2, PTL DEF ListSpec, Spec

\* Whatever was imported, deleted, half imported and read again, the list has
\* each key in memory once, and its pointers agree.
THEOREM ListHoldsKeys == ListSpec => []ListIsStore
<1>1. ListInit => Is(list, mem)
  BY EmptyIs DEF ListInit, Init
<1>2. TypeOK /\ Is(list, mem) /\ [ListNext]_listVars => Is(list, mem)'
  <2>1. CASE ListNext
    BY <2>1, ListStepKeeps
  <2>2. CASE UNCHANGED listVars
    BY <2>2 DEF listVars, vars
  <2>. QED BY <2>1, <2>2
<1>3. TypeOK /\ Is(list, mem) => ListIsStore
  BY IsStore DEF TypeOK
<1>. QED BY <1>1, <1>2, <1>3, ListRefinesStore, TypeCorrect, PTL DEF ListSpec

=============================================================================
