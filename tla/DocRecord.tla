----------------------------- MODULE DocRecord -----------------------------
(***************************************************************************)
(* DocumentRef as a record of the document database.  One number, one      *)
(* string and one list stand for all of them: docTime, docHead and         *)
(* descriptions.  A string is its length in characters.                    *)
(***************************************************************************)
EXTENDS Integers, Sequences, SequencesExt

(* (unsigned char) ~1 and (unsigned short int) ~1 *)
CharLimit == 254
ShortLimit == 65534

(* docHead is a text, or the compressed form of one; pressed counts how    *)
(* often it was compressed. *)
Uncompressed(n) == [text |-> n, pressed |-> 0]

HeadState == {"Empty", "Compressed", "Uncompressed"}
DocumentRef == [docTime : Int, docHead : [text : Nat, pressed : Nat],
                descriptions : Seq(Nat), docHeadState : HeadState]

Clear == [docTime |-> 0, docHead |-> Uncompressed(0), descriptions |-> <<>>,
          docHeadState |-> "Empty"]

SetHead(ref, n) ==
    [ref EXCEPT !.docHead = Uncompressed(n),
                !.docHeadState = IF n = 0 THEN "Empty" ELSE "Uncompressed"]

-----------------------------------------------------------------------------
(* cf is compression_level.  What is not compressed cannot be              *)
(* decompressed: nothing is left of it. *)
Compress(s, cf) == IF cf = 0 THEN s ELSE [s EXCEPT !.pressed = @ + 1]

Decompress(s, cf) ==
    IF cf = 0 THEN s ELSE IF s.pressed = 0 THEN Uncompressed(0) ELSE [s EXCEPT !.pressed = @ - 1]

(* DocHead() leaves the text in the object.  *)
DocHead(ref, cf) ==
    IF ref.docHeadState = "Compressed"
    THEN [ref EXCEPT !.docHead = Decompress(@, cf), !.docHeadState = "Uncompressed"]
    ELSE ref

(* Mutant: what is compressed is compressed again. *)
PressedAgain(ref, cf) ==
    IF ref.docHeadState # "Empty"
    THEN [ref EXCEPT !.docHead = Compress(@, cf), !.docHeadState = "Compressed"]
    ELSE ref

Pressed(ref, cf) ==
    IF ref.docHeadState = "Uncompressed"
    THEN [ref EXCEPT !.docHead = Compress(@, cf), !.docHeadState = "Compressed"]
    ELSE ref

-----------------------------------------------------------------------------
(* A tag says how many bytes a number, or the length of a string or a      *)
(* list, takes: one, two, or as many as the variable has. *)
Tag(id, n) ==
    [id |-> id, n |-> IF n <= CharLimit THEN n % 256
                      ELSE IF n <= ShortLimit THEN n % 65536 ELSE n]

addnum(id, n) == IF n = 0 THEN <<>> ELSE <<Tag(id, n)>>

Size(s) == IF s.pressed = 0 THEN s.text ELSE s.text \div 2 + 8

addstring(id, s) ==
    IF Size(s) = 0 THEN <<>> ELSE <<[tag |-> Tag(id, Size(s)), body |-> s]>>

(* In a list of at most ShortLimit strings a length takes one byte, or the *)
(* byte CharLimit and the length. *)
addlist(id, list) ==
    IF list = <<>> THEN <<>>
    ELSE <<[tag |-> Tag(id, Len(list)),
            lengths |-> [i \in 1..Len(list) |->
                            IF Len(list) > ShortLimit THEN <<list[i]>>
                            ELSE IF list[i] < CharLimit THEN <<list[i] % 256>>
                            ELSE <<CharLimit, list[i]>>]]>>

Serialize(ref) ==
    [time |-> addnum("DOC_TIME", ref.docTime),
     head |-> addstring("DOC_HEAD", ref.docHead),
     descriptions |-> addlist("DOC_DESCRIPTIONS", ref.descriptions)]

(* Deserialize clears the object first; what has its default value is not  *)
(* in the stream.  Whoever takes the wrong number of bytes for a string    *)
(* loses the rest of the record. *)
getlist(item) ==
    [i \in 1..item.tag.n |->
        IF item.tag.n > ShortLimit \/ item.lengths[i][1] < CharLimit
        THEN item.lengths[i][1] ELSE item.lengths[i][2]]

Deserialize(stream) ==
    LET head == IF stream.head = <<>> THEN Uncompressed(0) ELSE stream.head[1].body
        read == stream.head = <<>> \/ stream.head[1].tag.n = Size(head)
    IN [docTime |-> IF stream.time = <<>> THEN 0 ELSE stream.time[1].n,
        docHead |-> IF read THEN head ELSE Uncompressed(0),
        descriptions |-> IF stream.descriptions = <<>> \/ ~read THEN <<>>
                         ELSE getlist(stream.descriptions[1]),
        docHeadState |-> IF head = Uncompressed(0) THEN "Empty" ELSE "Compressed"]

=============================================================================
