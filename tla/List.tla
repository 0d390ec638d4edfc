-------------------------------- MODULE List --------------------------------
(***************************************************************************)
(* class List: a doubly linked list with a pointer for one traversal at a  *)
(* time.  Nth remembers where it was, so that a loop over all positions    *)
(* does not start at the head each time; what changes the list forgets it. *)
(***************************************************************************)
EXTENDS Integers, FiniteSets, Sequences, SequencesExt

CONSTANTS
    Addresses,  \* of nodes
    Null,       \* the null pointer to a node
    Objects, Nil,
    Positions,  \* the positions calls may name, from 0
    Mixed       \* Get_Next is called for the last object when Nth has reached it

ASSUME ListAssumption ==
    /\ Null \notin Addresses /\ Nil \notin Objects
    /\ Positions \subseteq Nat /\ Mixed \in BOOLEAN

VARIABLES
    node,          \* the nodes in use: address -> [next, prev, object]
    head, tail, number,
    current, currentIndex,
    call,          \* history: the last call
    returned       \* the object it returned

linkVars == <<node, head, tail, number>>
listVars == <<linkVars, current, currentIndex, call, returned>>

ListInit ==
    /\ node = [n \in {} |-> Null]
    /\ head = Null /\ tail = Null /\ number = 0
    /\ current = Null /\ currentIndex = -1
    /\ call = <<"List">> /\ returned = Nil

-----------------------------------------------------------------------------
Free == Addresses \ DOMAIN node

New(next, prev, o) == [next |-> next, prev |-> prev, object |-> o]

(* A node more, and the fields that point to it. *)
With(f, n, new) == [a \in DOMAIN f \cup {n} |-> IF a = n THEN new ELSE f[a]]
SetNext(f, a, n) == IF a = Null THEN f ELSE [f EXCEPT ![a].next = n]
SetPrev(f, a, n) == IF a = Null THEN f ELSE [f EXCEPT ![a].prev = n]

(* The node to which i steps lead, Null if the list is shorter. *)
NodeAt(f, first, i) ==
    LET at[k \in 0..i] ==
            IF k = 0 THEN first ELSE IF at[k - 1] = Null THEN Null ELSE f[at[k - 1]].next
    IN at[i]

(* Nodes are appended for all of s. *)
AppendAll(ns, s) ==
    LET last == Len(s)
        prevOf(i) == IF i = 1 THEN tail ELSE ns[i - 1]
        nextOf(i) == IF i = last THEN Null ELSE ns[i + 1]
        added == [n \in ToSet(ns) |->
                    LET i == CHOOSE j \in 1..last : ns[j] = n IN New(nextOf(i), prevOf(i), s[i])]
    IN IF s = <<>> THEN UNCHANGED linkVars
       ELSE /\ node' = LET linked == SetNext(node, tail, ns[1])
                       IN [a \in DOMAIN node \cup ToSet(ns) |->
                             IF a \in DOMAIN added THEN added[a] ELSE linked[a]]
            /\ head' = IF tail = Null THEN ns[1] ELSE head
            /\ tail' = ns[last]
            /\ number' = number + last

AddObject(o) ==
    /\ call' = <<"Add", o>>
    /\ \E n \in Free : AppendAll(<<n>>, <<o>>)
    /\ UNCHANGED <<current, currentIndex, returned>>

InsertBefore(ln, n, o) ==
    /\ node' = IF ln = head
               THEN SetPrev(With(node, n, New(head, Null, o)), head, n)
               ELSE LET p == node[ln].prev
                    IN SetPrev(SetNext(With(node, n, New(ln, p, o)), p, n), ln, n)
    /\ head' = IF ln = head THEN n ELSE head
    /\ number' = number + 1
    /\ UNCHANGED tail

InsertObject(o, position) ==
    /\ call' = <<"Insert", o, position>>
    /\ \E n \in Free :
          LET ln == NodeAt(node, head, position)
          IN IF ln = Null THEN AppendAll(<<n>>, <<o>>) ELSE InsertBefore(ln, n, o)
    /\ currentIndex' = -1
    /\ UNCHANGED <<current, returned>>

(* The list is first extended with null pointers. *)
AssignObject(o, position) ==
    /\ call' = <<"Assign", o, position>>
    /\ LET more == IF number < position + 1 THEN position + 1 - number ELSE 0
       IN /\ more <= Cardinality(Free)
          /\ IF more > 0
             THEN \E ns \in {s \in [1..more -> Free] : IsInjective(s)} :
                     AppendAll(ns, [i \in 1..more |-> IF i = more THEN o ELSE Nil])
             ELSE /\ node' = [node EXCEPT ![NodeAt(node, head, position)].object = o]
                  /\ UNCHANGED <<head, tail, number>>
    /\ currentIndex' = -1
    /\ UNCHANGED <<current, returned>>

Deleted(n) == [a \in DOMAIN node \ {n} |-> node[a]]

Unlink(n) ==
    /\ number' = number - 1
    /\ IF head = tail
       THEN head' = Null /\ tail' = Null /\ node' = Deleted(n)
       ELSE IF head = n
       THEN /\ head' = node[n].next
            /\ node' = SetPrev(Deleted(n), node[n].next, Null)
            /\ UNCHANGED tail
       ELSE IF tail = n
       THEN /\ tail' = node[n].prev
            /\ node' = SetNext(Deleted(n), node[n].prev, Null)
            /\ UNCHANGED head
       ELSE /\ node' = SetPrev(SetNext(Deleted(n), node[n].prev, node[n].next),
                               node[n].next, node[n].prev)
            /\ UNCHANGED <<head, tail>>

(* Mutant: the traversal is not looked at. *)
StaysAt(n) == current

(* A traversal that stands at a node to be deleted moves on. *)
MovesOn(n) == IF current = n THEN node[n].next ELSE current

(* The first node with an object, from the head or from the tail. *)
FromHead(o) ==
    LET i == CHOOSE k \in 0..number - 1 :
                 /\ node[NodeAt(node, head, k)].object = o
                 /\ \A j \in 0..k - 1 : node[NodeAt(node, head, j)].object # o
    IN NodeAt(node, head, i)

Holds(o) == \E n \in DOMAIN node : node[n].object = o

RemoveObject(o) ==
    /\ call' = <<"Remove", o>>
    /\ IF Holds(o)
       THEN LET n == FromHead(o)
            IN Unlink(n) /\ current' = MovesOn(n) /\ currentIndex' = -1
       ELSE UNCHANGED <<linkVars, current, currentIndex>>
    /\ UNCHANGED returned

(* Release and Destroy *)
Release ==
    /\ call' = <<"Release">>
    /\ node' = [n \in {} |-> Null]
    /\ head' = Null /\ tail' = Null /\ number' = 0
    /\ current' = Null /\ currentIndex' = -1
    /\ UNCHANGED returned

-----------------------------------------------------------------------------
StartGet ==
    /\ call' = <<"Start_Get">>
    /\ current' = head /\ currentIndex' = -1
    /\ UNCHANGED <<linkVars, returned>>

GetNext ==
    /\ ~Mixed /\ currentIndex >= 0 => node[current].next # Null
    /\ call' = <<"Get_Next">>
    /\ IF current = Null
       THEN returned' = Nil /\ UNCHANGED <<current, currentIndex>>
       ELSE /\ returned' = node[current].object
            /\ current' = node[current].next
            /\ currentIndex' = IF currentIndex >= 0 THEN currentIndex + 1 ELSE currentIndex
    /\ UNCHANGED linkVars

(* The list is taken for a circle. *)
NextOf(o) ==
    /\ Holds(o)
    /\ call' = <<"Next", o>>
    /\ returned' = LET next == node[FromHead(o)].next
                   IN node[IF next = Null THEN head ELSE next].object
    /\ UNCHANGED <<linkVars, current, currentIndex>>

(* Backwards from the tail. *)
FromTail(o) ==
    LET back[k \in 0..number - 1] == IF k = 0 THEN tail ELSE node[back[k - 1]].prev
        i == CHOOSE k \in 0..number - 1 :
                 node[back[k]].object = o /\ \A j \in 0..k - 1 : node[back[j]].object # o
    IN back[i]

PreviousOf(o) ==
    /\ Holds(o)
    /\ call' = <<"Previous", o>>
    /\ returned' = LET prev == node[FromTail(o)].prev
                   IN node[IF prev = Null THEN tail ELSE prev].object
    /\ UNCHANGED <<linkVars, current, currentIndex>>

(* What is read through a null pointer. *)
Garbage == "garbage"
ObjectAt(n) == IF n = Null THEN Garbage ELSE node[n].object

NthObject(n) ==
    /\ call' = <<"Nth", n>>
    /\ UNCHANGED linkVars
    /\ IF n >= number
       THEN returned' = Nil /\ UNCHANGED <<current, currentIndex>>
       ELSE IF currentIndex = n
       THEN returned' = ObjectAt(current) /\ UNCHANGED <<current, currentIndex>>
       ELSE IF current # Null /\ currentIndex >= 0 /\ n = currentIndex + 1
       THEN LET next == node[current].next
            IN /\ current' = next
               /\ IF next = Null THEN currentIndex' = -1 /\ returned' = Nil
                                 ELSE currentIndex' = n /\ returned' = node[next].object
       ELSE /\ current' = NodeAt(node, head, n)
            /\ currentIndex' = n
            /\ returned' = ObjectAt(NodeAt(node, head, n))

ListNext ==
    \/ \E o \in Objects :
          \/ AddObject(o) \/ RemoveObject(o) \/ NextOf(o) \/ PreviousOf(o)
          \/ \E p \in Positions : InsertObject(o, p) \/ AssignObject(o, p)
    \/ Release \/ StartGet \/ GetNext
    \/ \E n \in Positions : NthObject(n)

ListSpec == ListInit /\ [][ListNext]_listVars

-----------------------------------------------------------------------------
(* The nodes from the head are the sequence, and the traversal stands at   *)
(* one of them. *)
AsSequence == [i \in 1..number |-> node[NodeAt(node, head, i - 1)].object]

Standing ==
    LET at == {i \in 1..number : NodeAt(node, head, i - 1) = current}
    IN IF current = Null THEN 0 ELSE IF at = {} THEN -1 ELSE CHOOSE i \in at : TRUE

Promised == INSTANCE Sequence WITH items <- AsSequence, rest <- Standing

(* Whatever is inserted and removed in the course of traversals, and       *)
(* whatever Nth remembers, a List is the sequence that List.h promises.    *)
ListIsSequence == Promised!SeqSpec

=============================================================================
