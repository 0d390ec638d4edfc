------------------------------ MODULE DocStore ------------------------------
(***************************************************************************)
(* DocumentDB: documents are filed under their encoded URLs.  A database   *)
(* may also hold documents that an older version filed under the URL       *)
(* itself (uncoded_db_compatible).                                         *)
(***************************************************************************)
EXTENDS Codec, DocRecord

CONSTANTS
    Locations,     \* URLs: sequences of characters
    OldSets,       \* those an older version filed, and the program will find
    Levels,        \* compression_level
    Samples,       \* documents: [time, head, descriptions]
    NoDocument

ASSUME DocStoreAssumption ==
    /\ NoDocument \notin DocumentRef /\ OldSets \subseteq SUBSET Locations
    /\ Samples \subseteq [time : Nat, head : Nat, descriptions : Seq(Nat)]

VARIABLES
    key,           \* what the codec makes of the URLs
    myTryUncoded,
    cf,            \* the same for all programs
    dbf            \* the database: key -> record

storeVars == <<codecVars, key, myTryUncoded, cf, dbf>>

Document(t, n, ds) == [SetHead(Clear, n) EXCEPT !.docTime = t, !.descriptions = ds]

Record(ref) == Serialize(Pressed(ref, cf))

(* "If a to-string in url_part_aliases can occur in normal URLs, this      *)
(* option should be set to false to eliminate surprises" (attrs.html). *)
Surprises(aliases) ==
    \E u \in Locations, i \in 1..Len(aliases) : Within(aliases[i].to, u)

(* Of the old documents only the URL matters.  *)
StoreInit ==
    /\ CodecInit
    /\ key = [u \in Locations |-> encode(u)]
    /\ cf \in Levels
    /\ myTryUncoded \in BOOLEAN /\ (myTryUncoded => ~Surprises(codes.aliases))
    /\ \E old \in OldSets :
          /\ myTryUncoded \/ old = {}
          /\ dbf = [k \in old |-> Record(Document(1, 1, <<>>))]

Without(k) == [j \in DOMAIN dbf \ {k} |-> dbf[j]]

(* Mutant: the document is only filed. *)
AddOnly(u, ref) ==
    dbf' = [k \in DOMAIN dbf \cup {key[u]} |-> IF k = key[u] THEN Record(ref) ELSE dbf[k]]

Add(u, ref) ==
    LET kept == IF myTryUncoded THEN Without(u) ELSE dbf
    IN dbf' = [k \in DOMAIN kept \cup {key[u]} |-> IF k = key[u] THEN Record(ref) ELSE kept[k]]

(* operator[] *)
Find(u) ==
    IF key[u] \in DOMAIN dbf THEN Deserialize(dbf[key[u]])
    ELSE IF myTryUncoded /\ u \in DOMAIN dbf THEN Deserialize(dbf[u])
    ELSE NoDocument

FindCoded(k) ==
    IF k \in DOMAIN dbf THEN Deserialize(dbf[k])
    ELSE IF myTryUncoded /\ decode(k) \in DOMAIN dbf
    THEN Deserialize(dbf[decode(k)])
    ELSE NoDocument

Exists(u) == key[u] \in DOMAIN dbf \/ (myTryUncoded /\ u \in DOMAIN dbf)

Config == <<codecVars, key, myTryUncoded, cf>>

AddDocument(u) ==
    /\ \E s \in Samples : Add(u, Document(s.time, s.head, s.descriptions))
    /\ UNCHANGED Config

(* A record is read, its head is looked at or not, and it is filed again.  *)
UpdateDocument(u, look) ==
    /\ Exists(u)
    /\ \E t \in {s.time : s \in Samples} :
          LET ref == IF look THEN DocHead(Find(u), cf) ELSE Find(u)
          IN Add(u, [ref EXCEPT !.docTime = t])
    /\ UNCHANGED Config

Delete(u) ==
    /\ dbf' = IF key[u] \in DOMAIN dbf THEN Without(key[u])
              ELSE IF myTryUncoded THEN Without(u) ELSE dbf
    /\ UNCHANGED Config

StoreNext ==
    \E u \in Locations :
        \/ AddDocument(u) \/ Delete(u)
        \/ \E look \in BOOLEAN : UpdateDocument(u, look)

StoreSpec == StoreInit /\ [][StoreNext]_storeVars

-----------------------------------------------------------------------------
(* What is seen of a document. *)
Seen(ref) ==
    IF ref = NoDocument THEN NoDocument
    ELSE [time |-> ref.docTime, head |-> DocHead(ref, cf).docHead,
          descriptions |-> ref.descriptions]

Handed(s) ==
    [time |-> s.time, head |-> Uncompressed(s.head), descriptions |-> s.descriptions]
OldOne == [time |-> 1, head |-> 1, descriptions |-> <<>>]

Map == INSTANCE DocMap WITH
    contents <- [u \in Locations |-> Seen(Find(u))],
    Documents <- {[Handed(s) EXCEPT !.time = t] :
                     s \in Samples \cup {OldOne}, t \in {1} \cup {s.time : s \in Samples}}

(* A record is read as the document that was filed. *)
ReadsBack ==
    \A s \in Samples :
        Seen(Deserialize(Record(Document(s.time, s.head, s.descriptions)))) = Handed(s)

(* The database is a map from URLs to documents, for all aliases and       *)
(* frequent parts, old documents and lengths of fields: what is read is a  *)
(* document that was filed, as it was, and a step touches one URL, of      *)
(* which it changes the time, or the document as a whole, or removes it.   *)
StoreIsMap == ReadsBack /\ Map!MapSpec

(* No URL has the key of another one, or is it. *)
KeysApart ==
    \A u, v \in Locations : u # v => key[u] # key[v] /\ (myTryUncoded => key[u] # v)

(* URLs() lists every document under its URL, and once; with it htmerge    *)
(* and htnotify find all of them, and htsearch finds them by their keys,   *)
(* which no other document has. *)
ListsAll ==
    CodesApart(codes.aliases) =>
        /\ KeysApart
        /\ \A k \in DOMAIN dbf : Exists(decode(k))
        /\ \A j, k \in DOMAIN dbf : j # k => decode(j) # decode(k)
        /\ \A u \in Locations : FindCoded(key[u]) = Find(u)

=============================================================================
