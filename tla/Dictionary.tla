----------------------------- MODULE Dictionary -----------------------------
(***************************************************************************)
(* htlib's hash table with its built-in iterator.  Retriever::Start walks  *)
(* the dictionary of servers while parse_url adds servers to it.  Values   *)
(* are left out: an entry is its key.                                      *)
(***************************************************************************)
EXTENDS Naturals, FiniteSets, SequencesExt

CONSTANTS
    Keys,
    Hash,        \* hashCode
    Capacity,    \* initialCapacity
    LoadFactor,  \* loadFactor
    NoEntry,     \* a null currentDictionaryEntry
    MaxLength    \* bound: no rehash beyond this table length

ASSUME DictionaryAssumption ==
    /\ NoEntry \notin Keys
    /\ Hash \in [Keys -> Nat]
    /\ Capacity \in Nat \ {0}
    /\ LoadFactor \in Nat \ {0}
    /\ MaxLength \in Nat

VARIABLES
    table,   \* the chains, numbered from 0
    count,
    index,   \* currentTableIndex + 1
    entry,   \* currentDictionaryEntry
    held,    \* history: the keys added and not removed
    start,   \* history: those held at Start_Get and not removed since
    seen,    \* history: the keys the iterator has returned, in order
    grown,   \* history: a rehash since Start_Get
    ended    \* history: the iterator has returned NULL

dictVars == <<table, count, index, entry, held, start, seen, grown, ended>>

Length(t) == Cardinality(DOMAIN t)

Bucket(t, k) == Hash[k] % Length(t)

(* Find and Exists *)
Find(k) == count # 0 /\ Contains(table[Bucket(table, k)], k)

Empty(n) == [i \in 0..(n - 1) |-> <<>>]

DictTypeOK ==
    /\ DOMAIN table = 0..(Length(table) - 1)
    /\ \A i \in DOMAIN table : table[i] \in Seq(Keys)
    /\ count \in Nat
    /\ index \in 0..Length(table)
    /\ entry \in Keys \cup {NoEntry}
    /\ held \subseteq Keys /\ start \subseteq held
    /\ seen \in Seq(Keys)
    /\ grown \in BOOLEAN
    /\ ended \in BOOLEAN

DictInit ==
    /\ table = Empty(Capacity)
    /\ count = 0
    /\ index = 0
    /\ entry = NoEntry
    /\ held = {} /\ start = {} /\ seen = <<>>
    /\ grown = FALSE
    /\ ended = TRUE

Insert(t, k) == [t EXCEPT ![Bucket(t, k)] = <<k>> \o @]

(* Mutant: an entry keeps the number of its old chain. *)
RehashedInPlace ==
    LET old == Length(table)
        n == IF count > old THEN count * 2 + 1 ELSE old * 2 + 1
    IN  [b \in 0..(n - 1) |-> IF b < old THEN table[b] ELSE <<>>]

(* The entries of a chain go to the front of their new ones. *)
MovedTo(t, chain) ==
    LET to[i \in 0..Len(chain)] == IF i = 0 THEN t ELSE Insert(to[i - 1], chain[i])
    IN  to[Len(chain)]

(* rehash: the old chains are emptied from the last to the first. *)
Rehashed ==
    LET old == Length(table)
        n == IF count > old THEN count * 2 + 1 ELSE old * 2 + 1
        to[i \in 0..old] == IF i = 0 THEN Empty(n) ELSE MovedTo(to[i - 1], table[old - i])
    IN  to[old]

Threshold == Length(table) * LoadFactor

Add(k) ==
    /\ IF Find(k) THEN UNCHANGED <<table, count, grown>>
       ELSE /\ count' = count + 1
            /\ IF count >= Threshold
               THEN /\ Length(Rehashed) <= MaxLength
                    /\ table' = Insert(Rehashed, k)
                    /\ grown' = TRUE
               ELSE /\ table' = Insert(table, k)
                    /\ UNCHANGED grown
    /\ held' = held \cup {k}
    /\ UNCHANGED <<index, entry, start, seen, ended>>

(* What precedes and what follows k in its chain. *)
Chain(k) == table[Bucket(table, k)]

PlaceOf(k) == CHOOSE i \in 1..Len(Chain(k)) : Chain(k)[i] = k

Preceding(k) == SubSeq(Chain(k), 1, PlaceOf(k) - 1)

After(k) == SubSeq(Chain(k), PlaceOf(k) + 1, Len(Chain(k)))

(* Remove.  No caller removes the entry its iterator stands on, or goes on *)
(* with an iteration after Destroy. *)
RemoveKey(k) ==
    /\ ended \/ k # entry
    /\ Find(k)
    /\ table' = [table EXCEPT ![Bucket(table, k)] = Preceding(k) \o After(k)]
    /\ count' = count - 1
    /\ held' = held \ {k}
    /\ start' = start \ {k}
    /\ UNCHANGED <<index, entry, seen, grown, ended>>

Destroy ==
    /\ table' = Empty(Length(table))
    /\ count' = 0
    /\ held' = {} /\ start' = {} /\ ended' = TRUE
    /\ UNCHANGED <<index, entry, seen, grown>>

Start_Get ==
    /\ index' = 0
    /\ entry' = NoEntry
    /\ start' = held /\ seen' = <<>> /\ grown' = FALSE /\ ended' = FALSE
    /\ UNCHANGED <<table, count, held>>

(* Mutant: the iterator skips a chain. *)
AheadByTwo == {i \in DOMAIN table : i > index /\ table[i] # <<>>}

(* The chains the iterator has not reached: index counts from the one      *)
(* after currentTableIndex. *)
Ahead == {i \in DOMAIN table : i >= index /\ table[i] # <<>>}

Returns(k) == entry' = k /\ seen' = Append(seen, k) /\ UNCHANGED ended

(* Get_Next and Get_NextElement *)
Get_Next ==
    /\ ~ended
    /\ IF entry # NoEntry /\ After(entry) # <<>>
       THEN Returns(After(entry)[1]) /\ UNCHANGED index
       ELSE IF Ahead # {}
       THEN LET i == CHOOSE i \in Ahead : \A j \in Ahead : i <= j
            IN  index' = i + 1 /\ Returns(table[i][1])
       ELSE /\ index' = Length(table) /\ entry' = NoEntry /\ ended' = TRUE
            /\ UNCHANGED seen
    /\ UNCHANGED <<table, count, held, start, grown>>

DictNext ==
    \/ \E k \in Keys : Add(k) \/ RemoveKey(k)
    \/ Destroy \/ Start_Get \/ Get_Next

DictSpec == DictInit /\ [][DictNext]_dictVars

-----------------------------------------------------------------------------
(* The dictionary is a set of keys: a key is found iff it was added and    *)
(* not removed since, whatever rehashes came between (Find searches one    *)
(* chain only), and count is their number. *)
FindsWhatWasAdded ==
    /\ \A k \in Keys : Find(k) <=> k \in held
    /\ count = Cardinality(held)

(* An iteration that adds to the dictionary returns every key that was     *)
(* there from its start, and none twice ("We take only one URL from each   *)
(* server during this loop", Retriever::Start), as long as the table does  *)
(* not grow. *)
IteratesOnce ==
    ~grown =>
        /\ ended /\ seen # <<>> => start \subseteq {seen[i] : i \in 1..Len(seen)}
        /\ \A i, j \in 1..Len(seen) : seen[i] = seen[j] /\ seen[i] \in start => i = j

=============================================================================
