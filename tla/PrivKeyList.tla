---------------------------- MODULE PrivKeyList -----------------------------
(***************************************************************************)
(* The keys in memory as src/jsapi.c and libotr keep them: a list of nodes *)
(* linked by next, each with a pointer back to the pointer that points to  *)
(* it (tous, "to us"), so that a node can be taken out without a walk.     *)
(*                                                                         *)
(* Each step of KeyStore is done on the list too, by the assignments the   *)
(* code makes, and ListIsStore says that the list then has exactly the     *)
(* keys KeyStore says are in memory.                                       *)
(***************************************************************************)
EXTENDS KeyStore, FiniteSetsExt, Functions

\* A node for each account, and one more for the key being imported.
Nodes == 1..(Cardinality(Accounts) + 1)

\* next[n] is the field of node n and next[ROOT] is us->privkey_root; tous[n]
\* is the one of these that n takes for the pointer to itself.
NULL == 0
ROOT == 0

\* A user has finitely many accounts, and a node without a key can be told
\* from one with a key.
ASSUME ListAssumption ==
    /\ IsFiniteSet(Accounts)
    /\ NONE \notin [account : Accounts, key : Keys]

VARIABLE list

listVars == <<vars, list>>

List == [next : [Nodes \cup {ROOT} -> Nodes \cup {NULL}],
         tous : [Nodes -> Nodes \cup {ROOT}],
         entry : [Nodes -> [account : Accounts, key : Keys] \cup {NONE}]]

NoKeys == [next |-> [n \in Nodes \cup {ROOT} |-> NULL],
           tous |-> [n \in Nodes |-> ROOT],
           entry |-> [n \in Nodes |-> NONE]]

ListInit == Init /\ list = NoKeys

-----------------------------------------------------------------------------
(* Reading and changing a list. *)

\* The nodes met from the root, then NULL; the walk is cut where a list of
\* these nodes must have ended.
Walk(l) ==
    LET at[i \in Nodes] ==
          IF i = 1 THEN l.next[ROOT]
          ELSE IF at[i - 1] = NULL THEN NULL ELSE l.next[at[i - 1]]
    IN at

\* External: otrl_privkey_find, the first node of the account.
Find(l, a) ==
    LET met == Walk(l)
        own == {i \in Nodes : met[i] # NULL /\ Same(l.entry[met[i]].account, a)}
    IN IF own = {} THEN NULL ELSE met[Min(own)]

\* External: malloc.  Addresses are only compared, so that it does not
\* matter which.
Malloc(l) == CHOOSE n \in Nodes : l.entry[n] = NONE

\* Mutated: the node that was first still takes the root for its pointer.
LinkOneWay(l, a, k) ==
    LET p == Malloc(l) IN
      [next |-> [l.next EXCEPT ![p] = l.next[ROOT], ![ROOT] = p],
       tous |-> [l.tous EXCEPT ![p] = ROOT],
       entry |-> [l.entry EXCEPT ![p] = [account |-> a, key |-> k]]]

\* A new node, in front of the others.
Link(l, a, k) ==
    LET p == Malloc(l) IN
      [next |-> [l.next EXCEPT ![p] = l.next[ROOT], ![ROOT] = p],
       tous |-> [n \in Nodes |-> IF n = l.next[ROOT] THEN p
                                 ELSE IF n = p THEN ROOT ELSE l.tous[n]],
       entry |-> [l.entry EXCEPT ![p] = [account |-> a, key |-> k]]]

\* External: otrl_privkey_forget.
Forget(l, p) ==
    [next |-> [l.next EXCEPT ![l.tous[p]] = l.next[p], ![p] = NULL],
     tous |-> [n \in Nodes |-> IF n = l.next[p] THEN l.tous[p]
                               ELSE IF n = p THEN ROOT ELSE l.tous[n]],
     entry |-> [l.entry EXCEPT ![p] = NONE]]

ForgetAccount(l, a) == IF Find(l, a) = NULL THEN l ELSE Forget(l, Find(l, a))

-----------------------------------------------------------------------------
(* What the calls do to the list. *)

\* External: the list when the n keys of a file have been linked in some order.
Linked(keys, order, n) ==
    LET read[i \in 0..n] ==
          IF i = 0 THEN NoKeys ELSE Link(read[i - 1], order[i], keys[order[i]])
    IN read[n]

\* External: libotr forgets every key and links those of the file, in the
\* order in which it meets them.
ReadList ==
    LET own == {a \in Accounts : mem'[a] # NONE}
        n == Cardinality(own)
    IN \E order \in Bijection(1..n, own) : list' = Linked(mem', order, n)

\* jsapi_userstate_import_privkey() of a good key.
ImportList(a) == list' = Link(ForgetAccount(list, a), a, mem'[a])

\* One that is refused, before anything is forgotten; or the old key is
\* forgotten, the new one linked, and that one forgotten when the public key
\* cannot be made of it.
ImportFailsList(a) ==
    \/ /\ mem' = mem
       /\ UNCHANGED list
    \/ /\ mem[a] # NONE => mem'[a] # mem[a]
       /\ LET l == ForgetAccount(list, a)
          IN \E k \in Keys : list' = Forget(Link(l, a, k), Malloc(l))

\* jsapi_privkey_delete().
DeleteList(a) == list' = ForgetAccount(list, a)

-----------------------------------------------------------------------------

\* The steps of KeyStore with what they do to the list.
ListNext ==
    \/ Construct /\ ReadList
    \/ /\ LoadKeysFromFS
       /\ \/ ReadList
          \/ returned' = FALSE /\ UNCHANGED <<mem, vfs, list>>
    \/ StringToKeys /\ ReadList
    \/ (KeysToString \/ Save \/ SaveRefused \/ SaveCut) /\ UNCHANGED list
    \/ (Exit \/ DeleteVfsFiles) /\ UNCHANGED list
    \/ \E a \in Accounts :
         \/ GenerateKey(a) /\ ReadList
         \/ ImportKey(a) /\ ImportList(a)
         \/ ImportKeyFails(a) /\ ImportFailsList(a)
         \/ DeleteKey(a) /\ DeleteList(a)

ListSpec == ListInit /\ [][ListNext]_listVars

-----------------------------------------------------------------------------

\* Whatever was imported, deleted, half imported and read again, in whatever
\* order: the walk that writes the keys file ends and meets every key in
\* memory once and nothing else, no node is left out of it, and every node
\* met knows the pointer that points to it, so that forgetting it cuts out
\* that node alone.
ListIsStore ==
    LET met == Walk(list)
        member == {met[i] : i \in Nodes} \ {NULL}
    IN /\ list \in List
       /\ met[Cardinality(Nodes)] = NULL
       /\ member = {n \in Nodes : list.entry[n] # NONE}
       /\ \A n \in member :
            /\ list.next[list.tous[n]] = n
            /\ mem[list.entry[n].account] = list.entry[n].key
            /\ \A m \in member \ {n} : list.entry[m].account # list.entry[n].account
       /\ \A a \in Accounts : mem[a] # NONE => \E n \in member : list.entry[n].account = a

=============================================================================
