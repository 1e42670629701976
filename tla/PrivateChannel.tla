--------------------------- MODULE PrivateChannel ---------------------------
(***************************************************************************)
(* What a conversation between two parties promises, whatever the messages *)
(* that make it up: they agree on a key before either uses it, a text is   *)
(* read only under the key it was sent under, in order and once, and a     *)
(* conversation is finished only by the party at its other end.            *)
(*                                                                         *)
(* The channel may lose what is on its way, in both directions, and a      *)
(* party may forget all it knows.  OtrChat implements this specification.  *)
(***************************************************************************)
EXTENDS Naturals, Sequences

CONSTANTS
    Parties,    \* the two ends of the conversation
    Peer,       \* Peer[p]: the other end
    Key,        \* the keys: what the party that commits itself first brings
                \* to one, k[1], and what the other one does, k[2]
    NOKEY       \* the key of a party that has none

\* What travels: the texts are numbered in the order they were handed over.
BYE == 0
Item == [key : Key, text : Nat]

VARIABLES
    view,     \* view[p]: "PLAINTEXT", "ENCRYPTED" or "FINISHED"
    key,      \* key[p]: the key p uses
    held,     \* held[p]: the keys p has ever used
    out,      \* out[p]: the texts p was given and has not sent yet
    said,     \* said[p]: how many texts p was given
    air,      \* air[p]: what is on its way to p
    heard     \* heard[p]: the texts p has read, in order

vars == <<view, key, held, out, said, air, heard>>

Init ==
    /\ view = [p \in Parties |-> "PLAINTEXT"]
    /\ key = [p \in Parties |-> NOKEY]
    /\ held = [p \in Parties |-> {}]
    /\ out = [p \in Parties |-> {}]
    /\ said = [p \in Parties |-> 0]
    /\ air = [p \in Parties |-> {}]
    /\ heard = [p \in Parties |-> <<>>]

-----------------------------------------------------------------------------

\* A party takes a key it has not used before into use.
Use(p, k) ==
    /\ k \in Key \ held[p]
    /\ view' = [view EXCEPT ![p] = "ENCRYPTED"]
    /\ key' = [key EXCEPT ![p] = k]
    /\ held' = [held EXCEPT ![p] = @ \cup {k}]
    /\ UNCHANGED <<out, said, air, heard>>

\* The party that answers the commitment is private first.
Answer(p, k) ==
    /\ k[1].by = Peer[p] /\ k[2].by = p
    /\ Use(p, k)

\* The party that made it follows, with a key the other one has used.
Join(p, k) ==
    /\ k[1].by = p /\ k[2].by = Peer[p]
    /\ k \in held[Peer[p]]
    /\ Use(p, k)

\* A party that sees its end private hands over a text.
Say(p) ==
    /\ view[p] = "ENCRYPTED"
    /\ said' = [said EXCEPT ![p] = @ + 1]
    /\ out' = [out EXCEPT ![p] = @ \cup {said'[p]}]
    /\ UNCHANGED <<view, key, held, air, heard>>

\* The texts leave in order, each under the key of the moment, or not at all
\* when the conversation has been finished meanwhile.
Send(p, n) ==
    /\ n \in out[p]
    /\ \A m \in out[p] : n <= m
    /\ out' = [out EXCEPT ![p] = @ \ {n}]
    /\ \/ /\ view[p] = "ENCRYPTED"
          /\ air' = [air EXCEPT ![Peer[p]] = @ \cup {[key |-> key[p], text |-> n]}]
       \/ /\ view[p] = "FINISHED"
          /\ UNCHANGED air
    /\ UNCHANGED <<view, key, held, said, heard>>

\* A text is read under the key it was sent under, after all those read
\* before it.
Hear(p, i) ==
    /\ i \in air[p] /\ i.text # BYE
    /\ key[p] = i.key
    /\ \A j \in DOMAIN heard[p] : heard[p][j] < i.text
    /\ heard' = [heard EXCEPT ![p] = Append(@, i.text)]
    /\ air' = [air EXCEPT ![p] = @ \ {i}]
    /\ UNCHANGED <<view, key, held, out, said>>

\* A party ends its side, and tells the other one.
End(p) ==
    /\ view' = [view EXCEPT ![p] = "PLAINTEXT"]
    /\ key' = [key EXCEPT ![p] = NOKEY]
    /\ air' = IF view[p] = "ENCRYPTED"
              THEN [air EXCEPT ![Peer[p]] = @ \cup {[key |-> key[p], text |-> BYE]}]
              ELSE air
    /\ UNCHANGED <<held, out, said, heard>>

\* The other party has ended the conversation that is still private here.
HearBye(p, i) ==
    /\ i \in air[p] /\ i.text = BYE
    /\ key[p] = i.key
    /\ view' = [view EXCEPT ![p] = "FINISHED"]
    /\ key' = [key EXCEPT ![p] = NOKEY]
    /\ air' = [air EXCEPT ![p] = @ \ {i}]
    /\ UNCHANGED <<held, out, said, heard>>

\* What is on its way is lost, or cannot be read where it arrives.
Lose(p, i) ==
    /\ i \in air[p]
    /\ air' = [air EXCEPT ![p] = @ \ {i}]
    /\ UNCHANGED <<view, key, held, out, said, heard>>

\* A party starts anew, and what was waiting at its end is gone.
Forget(p) ==
    /\ view' = [view EXCEPT ![p] = "PLAINTEXT"]
    /\ key' = [key EXCEPT ![p] = NOKEY]
    /\ out' = [out EXCEPT ![p] = {}]
    /\ air' = [air EXCEPT ![p] = {}]
    /\ UNCHANGED <<held, said, heard>>

Step(p) ==
    \/ Say(p)
    \/ \E n \in out[p] : Send(p, n)
    \/ \E i \in air[p] : Hear(p, i) \/ HearBye(p, i) \/ Lose(p, i)
    \/ End(p)
    \/ Forget(p)
    \/ \E k \in held'[p] : Answer(p, k) \/ Join(p, k)

Next == \E p \in Parties : Step(p)

Spec == Init /\ [][Next]_vars

=============================================================================
