------------------------------ MODULE Sequence ------------------------------
(***************************************************************************)
(* What List.h promises: a sequence of objects with one traversal at a     *)
(* time, which goes on behind an object that is removed meanwhile, and     *)
(* which Nth moves to the object that it returns.                          *)
(***************************************************************************)
EXTENDS Integers, Sequences, SequencesExt

CONSTANTS
    Objects,
    Nil,        \* the null pointer
    Positions   \* the positions calls may name, from 0

VARIABLES
    items,     \* the objects
    rest,      \* the place of the object that Get_Next returns next, 0 at the end
    call,      \* the last call
    returned   \* the object it returned

seqVars == <<items, rest, call, returned>>

SeqInit == items = <<>> /\ rest = 0 /\ call = <<"List">> /\ returned = Nil

SeqPlaces == 1..Len(items)

Filled(n) == items \o [i \in 1..(n - Len(items)) |-> Nil]

First(o) == CHOOSE p \in SeqPlaces : items[p] = o /\ \A q \in 1..p - 1 : items[q] # o
Final(o) == CHOOSE p \in SeqPlaces : items[p] = o /\ \A q \in p + 1..Len(items) : items[q] # o

(* What the last call has changed, *)
Changed(o) ==
    \/ /\ call' = <<"Add", o>>
       /\ items' = Append(items, o) /\ rest' = rest
    \/ \E n \in Positions :
          /\ call' = <<"Insert", o, n>>
          /\ LET p == Min({n, Len(items)}) + 1
             IN items' = InsertAt(items, p, o) /\ rest' = IF rest >= p THEN rest + 1 ELSE rest
    \/ \E n \in Positions :
          /\ call' = <<"Assign", o, n>>
          /\ items' = [Filled(n + 1) EXCEPT ![n + 1] = o] /\ rest' = rest
    \/ /\ call' = <<"Remove", o>>
       /\ IF o \in ToSet(items)
          THEN LET p == First(o)
               IN /\ items' = RemoveAt(items, p)
                  /\ rest' = CASE rest > p -> rest - 1
                               [] rest = p /\ p = Len(items) -> 0
                               [] OTHER -> rest
          ELSE UNCHANGED <<items, rest>>

(* and what it has found. *)
Found(o) ==
    \/ call' = <<"Next", o>> /\ o \in ToSet(items)
         /\ returned' = items[IF First(o) = Len(items) THEN 1 ELSE First(o) + 1]
    \/ call' = <<"Previous", o>> /\ o \in ToSet(items)
         /\ returned' = items[IF Final(o) = 1 THEN Len(items) ELSE Final(o) - 1]

SeqNext ==
    \/ \E o \in Objects : Changed(o) /\ UNCHANGED returned
    \/ \E o \in Objects : Found(o) /\ UNCHANGED <<items, rest>>
    \/ call' = <<"Release">> /\ items' = <<>> /\ rest' = 0 /\ UNCHANGED returned
    \/ call' = <<"Start_Get">> /\ rest' = (IF items = <<>> THEN 0 ELSE 1) /\ UNCHANGED <<items, returned>>
    \/ /\ call' = <<"Get_Next">>
       /\ returned' = IF rest = 0 THEN Nil ELSE items[rest]
       /\ rest' = IF rest \in {0, Len(items)} THEN 0 ELSE rest + 1
       /\ UNCHANGED items
    \/ \E n \in Positions :
          /\ call' = <<"Nth", n>>
          /\ IF n < Len(items) THEN returned' = items[n + 1] /\ rest' = n + 1
                               ELSE returned' = Nil /\ rest' = rest
          /\ UNCHANGED items

SeqSpec == SeqInit /\ [][SeqNext]_seqVars

=============================================================================
