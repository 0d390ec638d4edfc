----------------------------- MODULE PageProofs ------------------------------
(***************************************************************************)
(* Theorems about what htdig takes from a page and how it files it.  For   *)
(* every HTML document, however its sections, comments, elements and metas *)
(* overlap: the words that are indexed and shown are those that nothing    *)
(* hides, and every link is given to the retriever once, with its words.   *)
(* For every document of the database, every length of its fields and      *)
(* every compression_level: what is read is what was filed, and, where the *)
(* codec gives every URL a key of its own, the database implements the map *)
(* that DocMap specifies; where every key can be decoded, all is listed.   *)
(***************************************************************************)
EXTENDS DocStore, HTML, SequenceTheorems, FiniteSetTheorems, WellFoundedInduction, TLAPS

-----------------------------------------------------------------------------
(* Numbers and sequences.                                                  *)
(* Pairs of numbers, the first of which is smaller. *)
Below == {p \in Nat \X Nat : p[1] < p[2]}

(* A set of numbers has a least one. *)
LEMMA LeastOf ==
    ASSUME NEW T, T \subseteq Nat, T # {}
    PROVE  \E x \in T : \A y \in T : x <= y
<1>1. OpToRel(<, Nat) = Below
  BY DEF OpToRel, Below
<1>2. IsWellFoundedOn(Below, Nat)
  BY <1>1, NatLessThanWellFounded
<1>3. PICK x \in T : \A y \in T : ~(<<y, x>> \in Below)
  BY <1>2, WFMin
<1>4. \A y \in T : y < x => <<y, x>> \in Below
  BY DEF Below
<1>5. \A y \in T : ~(y < x)
  BY <1>3, <1>4
<1>6. x \in Nat /\ \A y \in T : y \in Nat
  OBVIOUS
<1> QED
  BY <1>5, <1>6

(* Induction over the numbers, for sets of them. *)
LEMMA FromZero ==
    ASSUME NEW S, 0 \in S, \A n \in S \cap Nat : n + 1 \in S
    PROVE  Nat \subseteq S
<1> SUFFICES ASSUME Nat \ S # {} PROVE FALSE
  OBVIOUS
<1>1. PICK x \in Nat \ S : \A y \in Nat \ S : x <= y
  BY LeastOf
<1>2. x - 1 \in S \cap Nat
  BY <1>1
<1> QED
  BY <1>1, <1>2

(* A sequence with one element more. *)
LEMMA Appended ==
    ASSUME NEW S, NEW s \in Seq(S), NEW x \in S
    PROVE  /\ Append(s, x) \in Seq(S)
           /\ Len(s) \in Nat /\ DOMAIN s = 1..Len(s)
           /\ Len(Append(s, x)) = Len(s) + 1 /\ DOMAIN Append(s, x) = 1..(Len(s) + 1)
           /\ \A i \in 1..Len(s) : Append(s, x)[i] = s[i] /\ s[i] \in S
           /\ Append(s, x)[Len(s) + 1] = x
           /\ ToSet(Append(s, x)) = ToSet(s) \cup {x}
<1> DEFINE t == Append(s, x)
<1>1. /\ t \in Seq(S) /\ Len(s) \in Nat /\ DOMAIN s = 1..Len(s)
      /\ Len(t) = Len(s) + 1 /\ DOMAIN t = 1..(Len(s) + 1)
      /\ \A i \in 1..Len(s) : t[i] = s[i] /\ s[i] \in S
      /\ t[Len(s) + 1] = x
  BY AppendProperties, LenProperties, ElementOfSeq
<1> HIDE DEF t
<1>2. ToSet(t) = ToSet(s) \cup {x}
  BY <1>1 DEF ToSet
<1> QED
  BY <1>1, <1>2 DEF t

-----------------------------------------------------------------------------
Start == [mode |-> "text", kept |-> <<>>]

Steps(f, n) == f = [i \in 0..n |-> IF i = 0 THEN Start ELSE StripNext(f[i - 1], i)]

(* The first pass has a state after every number of tokens. *)
LEMMA StepsExist == \A n \in Nat : \E f : Steps(f, n)
<1> DEFINE S == {n \in Nat : \E f : Steps(f, n)}
<1>1. 0 \in S
  <2> DEFINE f == [i \in 0..0 |-> Start]
  <2>1. f = [i \in 0..0 |-> IF i = 0 THEN Start ELSE StripNext(f[i - 1], i)]
    OBVIOUS
  <2>2. Steps(f, 0)
    BY <2>1 DEF Steps
  <2> QED
    BY <2>2
<1>2. ASSUME NEW n \in S \cap Nat PROVE n + 1 \in S
  <2>1. PICK f : Steps(f, n)
    OBVIOUS
  <2> DEFINE g == [i \in 0..(n + 1) |-> IF i = n + 1 THEN StripNext(f[n], n + 1) ELSE f[i]]
             h == [i \in 0..(n + 1) |-> IF i = 0 THEN Start ELSE StripNext(g[i - 1], i)]
  <2>2. ASSUME NEW i \in 0..(n + 1) PROVE g[i] = h[i]
    <3>1. CASE i = n + 1
      BY <3>1
    <3>2. CASE i = 0
      BY <2>1, <3>2 DEF Steps
    <3>3. CASE i \in 1..n
      <4>1. g[i] = f[i] /\ g[i - 1] = f[i - 1] /\ h[i] = StripNext(g[i - 1], i)
        BY <3>3
      <4>2. f[i] = StripNext(f[i - 1], i)
        BY <2>1, <3>3 DEF Steps
      <4> QED
        BY <4>1, <4>2
    <3> QED
      BY <3>1, <3>2, <3>3
  <2>3. g = h
    BY <2>2
  <2>4. Steps(g, n + 1)
    BY <2>3 DEF Steps
  <2> HIDE DEF g
  <2> QED
    BY <2>4
<1> HIDE DEF S
<1>3. Nat \subseteq S
  BY <1>1, <1>2, FromZero
<1> QED
  BY <1>3 DEF S

(* One token after the other. *)
LEMMA StrippedIs ==
    ASSUME html \in Seq(STRING)
    PROVE  /\ Stripped[0] = Start
           /\ \A n \in 1..Len(html) : Stripped[n] = StripNext(Stripped[n - 1], n)
<1>1. Len(html) \in Nat
  BY LenProperties
<1>2. \E f : Steps(f, Len(html))
  BY <1>1, StepsExist
<1>3. Steps(Stripped, Len(html))
  BY <1>2 DEF Steps, Stripped, Start
<1> QED
  BY <1>1, <1>3 DEF Steps

Modes == {"text", "section", "comment"}

Marks == {SkipStart, SkipEnd, "<!--", "<!>"}

IsState(s, n) ==
    /\ s = [mode |-> s.mode, kept |-> s.kept]
    /\ s.mode \in Modes
    /\ s.kept \in Seq(1..n)
    /\ \A a, b \in 1..Len(s.kept) : a < b => s.kept[a] < s.kept[b]

(* A token of the first pass. *)
LEMMA StripStep ==
    ASSUME NEW s, NEW i, s = [mode |-> s.mode, kept |-> s.kept], s.mode \in Modes
    PROVE  LET r == StripNext(s, i)
               t == html[i]
           IN /\ r = [mode |-> r.mode, kept |-> r.kept]
              /\ r.mode = IF s.mode = "section" THEN IF t = SkipEnd THEN "text" ELSE "section"
                          ELSE IF s.mode = "comment"
                          THEN IF t \in {"-->", SkipStart, SkipEnd} THEN "text" ELSE "comment"
                          ELSE IF t = SkipStart THEN "section"
                          ELSE IF t = "<!--" THEN "comment" ELSE "text"
              /\ r.kept = IF s.mode = "text" /\ t \notin Marks THEN Append(s.kept, i) ELSE s.kept
<1>1. PICK m, k : s = [mode |-> m, kept |-> k] /\ m = s.mode /\ k = s.kept
  OBVIOUS
<1>2. m \in Modes
  BY <1>1
<1>3. CASE m = "section"
  BY <1>1, <1>3 DEF StripNext
<1>4. CASE m = "comment"
  BY <1>1, <1>4 DEF StripNext
<1>5. CASE m = "text"
  BY <1>1, <1>5 DEF StripNext, Marks, SkipStart, SkipEnd
<1> QED
  BY <1>2, <1>3, <1>4, <1>5 DEF Modes

(* What it leaves. *)
LEMMA NextState ==
    ASSUME NEW s, NEW i, s = [mode |-> s.mode, kept |-> s.kept], s.mode \in Modes
    PROVE  LET r == StripNext(s, i)
           IN /\ r = [mode |-> r.mode, kept |-> r.kept] /\ r.mode \in Modes
              /\ r.kept \in {s.kept, Append(s.kept, i)}
<1>1. PICK r : r = StripNext(s, i)
  OBVIOUS
<1>2. r = [mode |-> r.mode, kept |-> r.kept]
  BY <1>1, StripStep
<1>3. r.mode \in {"text", "section", "comment"}
  BY <1>1, StripStep
<1>4. r.kept \in {s.kept, Append(s.kept, i)}
  BY <1>1, StripStep
<1> QED
  BY <1>1, <1>2, <1>3, <1>4 DEF Modes

(* What is left is in the order of the document. *)
LEMMA StripTypes ==
    ASSUME html \in Seq(STRING)
    PROVE  \A n \in 0..Len(html) : IsState(Stripped[n], n)
<1>1. Len(html) \in Nat
  BY LenProperties
<1> DEFINE S == {n \in Nat : n <= Len(html) => IsState(Stripped[n], n)}
<1>2. 0 \in S
  <2>1. <<>> \in Seq(1..0) /\ Len(<<>>) = 0
    BY EmptySeq
  <2>2. Stripped[0] = [mode |-> "text", kept |-> <<>>]
    BY StrippedIs DEF Start
  <2>3. Stripped[0].mode = "text" /\ Stripped[0].kept = <<>>
    BY <2>2
  <2>4. \A a, b \in 1..Len(<<>>) : a < b => <<>>[a] < <<>>[b]
    BY <2>1
  <2>5. IsState(Stripped[0], 0)
    BY <2>1, <2>2, <2>3, <2>4 DEF IsState, Modes
  <2> QED
    BY <2>5
<1>3. ASSUME NEW n \in S \cap Nat, n + 1 <= Len(html) PROVE IsState(Stripped[n + 1], n + 1)
  <2>1. IsState(Stripped[n], n)
    BY <1>1, <1>3
  <2>2. PICK s, r : s = Stripped[n] /\ r = Stripped[n + 1] /\ r = StripNext(s, n + 1)
    BY <1>1, <1>3, StrippedIs
  <2>3. /\ s = [mode |-> s.mode, kept |-> s.kept] /\ s.mode \in Modes /\ s.kept \in Seq(1..n)
        /\ \A a, b \in 1..Len(s.kept) : a < b => s.kept[a] < s.kept[b]
    BY <2>1, <2>2 DEF IsState
  <2>4. /\ r = [mode |-> r.mode, kept |-> r.kept] /\ r.mode \in Modes
        /\ r.kept \in {s.kept, Append(s.kept, n + 1)}
    BY <2>2, <2>3, NextState
  <2>5. PICK k : k = s.kept
    OBVIOUS
  <2>6. k \in Seq(1..(n + 1)) /\ Len(k) \in Nat /\ \A a \in 1..Len(k) : k[a] \in 1..n
    BY <2>3, <2>5, SeqMonotonic, LenProperties, ElementOfSeq
  <2>7. CASE r.kept = k
    BY <2>2, <2>3, <2>4, <2>5, <2>6, <2>7 DEF IsState
  <2>8. CASE r.kept = Append(k, n + 1)
    <3>1. PICK l : l = Append(k, n + 1)
      OBVIOUS
    <3>2. /\ l \in Seq(1..(n + 1)) /\ Len(l) = Len(k) + 1
          /\ \A a \in 1..Len(k) : l[a] = k[a]
          /\ l[Len(k) + 1] = n + 1
      BY <2>6, <3>1, Appended
    <3>3. ASSUME NEW a \in 1..Len(l), NEW b \in 1..Len(l), a < b PROVE l[a] < l[b]
      <4>1. a \in 1..Len(k) /\ l[a] = k[a] /\ k[a] \in 1..n
        BY <2>6, <3>2, <3>3
      <4>2. CASE b = Len(k) + 1
        BY <3>2, <4>1, <4>2
      <4>3. CASE b \in 1..Len(k)
        BY <2>3, <2>5, <3>2, <3>3, <4>1, <4>3
      <4> QED
        BY <2>6, <3>2, <4>2, <4>3
    <3> QED
      BY <2>2, <2>4, <2>8, <3>1, <3>2, <3>3 DEF IsState
  <2> QED
    BY <2>4, <2>5, <2>7, <2>8
<1>4. \A n \in S \cap Nat : n + 1 \in S
  BY <1>3
<1> HIDE DEF S
<1>5. Nat \subseteq S
  BY <1>2, <1>4, FromZero
<1> QED
  BY <1>1, <1>5 DEF S

(* What it takes to be enclosed one token further on. *)
LEMMA EnclosedNext ==
    ASSUME NEW from, NEW to, NEW i \in Nat \ {0}
    PROVE  Enclosed(from, to, i + 1) <=> html[i] = from \/ (Enclosed(from, to, i) /\ html[i] # to)
<1>1. ASSUME html[i] = from PROVE Enclosed(from, to, i + 1)
  BY <1>1 DEF Enclosed
<1>2. ASSUME Enclosed(from, to, i), html[i] # to PROVE Enclosed(from, to, i + 1)
  BY <1>2 DEF Enclosed
<1>3. ASSUME Enclosed(from, to, i + 1), html[i] # from PROVE Enclosed(from, to, i) /\ html[i] # to
  <2>1. PICK p \in 1..i : html[p] = from /\ \A q \in p + 1..i : html[q] # to
    BY <1>3 DEF Enclosed
  <2>2. p \in 1..i - 1 /\ i \in p + 1..i
    BY <1>3, <2>1
  <2> QED
    BY <2>1, <2>2 DEF Enclosed
<1> QED
  BY <1>1, <1>2, <1>3

(* One token, where no other mode can be entered. *)
OneMode(mode, from, to, out) ==
    \A s, i : i \in 1..Len(html) /\ s = [mode |-> s.mode, kept |-> s.kept] /\ s.mode \in {"text", mode} =>
        /\ StripNext(s, i).mode = IF s.mode = mode THEN IF html[i] = to THEN "text" ELSE mode
                                  ELSE IF html[i] = from THEN mode ELSE "text"
        /\ StripNext(s, i).kept = IF s.mode = "text" /\ html[i] \notin out THEN Append(s.kept, i)
                                  ELSE s.kept

(* Then the pass is in this mode where something is open, and keeps what is*)
(* not enclosed. *)
LEMMA KeepsTheRest ==
    ASSUME html \in Seq(STRING), NEW mode, mode \in Modes \ {"text"},
           NEW from, NEW to, NEW out, from \in out, from # to, OneMode(mode, from, to, out)
    PROVE  \A n \in 0..Len(html) :
              /\ Stripped[n].mode = IF Enclosed(from, to, n + 1) THEN mode ELSE "text"
              /\ ToSet(Stripped[n].kept) =
                    {i \in 1..n : ~Enclosed(from, to, i) /\ html[i] \notin out}
<1>1. Len(html) \in Nat
  BY LenProperties
<1> DEFINE Kept(n) == {i \in 1..n : ~Enclosed(from, to, i) /\ html[i] \notin out}
           Fine(n) == /\ Stripped[n].mode = IF Enclosed(from, to, n + 1) THEN mode ELSE "text"
                      /\ ToSet(Stripped[n].kept) = Kept(n)
           S == {n \in Nat : n <= Len(html) => Fine(n)}
<1>2. 0 \in S
  <2>1. ToSet(<<>>) = {}
    BY DEF ToSet
  <2>2. Stripped[0].mode = "text" /\ Stripped[0].kept = <<>>
    BY StrippedIs DEF Start
  <2>3. ~Enclosed(from, to, 1)
    BY DEF Enclosed
  <2> QED
    BY <2>1, <2>2, <2>3
<1>3. ASSUME NEW n \in S \cap Nat, n + 1 <= Len(html) PROVE Fine(n + 1)
  <2>1. Fine(n)
    BY <1>1, <1>3
  <2>2. PICK s, r : s = Stripped[n] /\ r = Stripped[n + 1] /\ r = StripNext(s, n + 1)
    BY <1>1, <1>3, StrippedIs
  <2>3. s = [mode |-> s.mode, kept |-> s.kept] /\ s.kept \in Seq(1..n)
    <3>1. n \in 0..Len(html)
      BY <1>1, <1>3
    <3>2. IsState(s, n)
      BY <2>2, <3>1, StripTypes
    <3> QED
      BY <3>2 DEF IsState
  <2>4. /\ s.mode = IF Enclosed(from, to, n + 1) THEN mode ELSE "text"
        /\ ToSet(s.kept) = Kept(n)
    BY <2>1, <2>2
  <2>5. /\ r.mode = IF s.mode = mode THEN IF html[n + 1] = to THEN "text" ELSE mode
                    ELSE IF html[n + 1] = from THEN mode ELSE "text"
        /\ r.kept = IF s.mode = "text" /\ html[n + 1] \notin out THEN Append(s.kept, n + 1) ELSE s.kept
    <3>1. n + 1 \in 1..Len(html) /\ s.mode \in {"text", mode}
      BY <1>1, <1>3, <2>4
    <3> QED
      BY <2>2, <2>3, <3>1 DEF OneMode
  <2>6. Enclosed(from, to, (n + 1) + 1) <=>
            html[n + 1] = from \/ (Enclosed(from, to, n + 1) /\ html[n + 1] # to)
    <3>1. n + 1 \in Nat \ {0}
      BY <1>3
    <3> QED
      BY <3>1, EnclosedNext
  <2>7. r.mode = IF Enclosed(from, to, (n + 1) + 1) THEN mode ELSE "text"
    BY <2>4, <2>5, <2>6
  <2>8. Kept(n + 1) = IF s.mode = "text" /\ html[n + 1] \notin out THEN Kept(n) \cup {n + 1} ELSE Kept(n)
    <3>1. 1..(n + 1) = (1..n) \cup {n + 1}
      OBVIOUS
    <3>2. s.mode = "text" <=> ~Enclosed(from, to, n + 1)
      BY <2>4
    <3> QED
      BY <3>1, <3>2
  <2>9. ToSet(r.kept) = Kept(n + 1)
    <3>1. s.kept \in Seq(1..(n + 1)) /\ n + 1 \in 1..(n + 1)
      <4>1. 1..n \subseteq 1..(n + 1) /\ n + 1 \in 1..(n + 1)
        OBVIOUS
      <4> QED
        BY <2>3, <4>1, SeqMonotonic
    <3>2. ToSet(Append(s.kept, n + 1)) = ToSet(s.kept) \cup {n + 1}
      BY <3>1, Appended
    <3> HIDE DEF Kept
    <3> QED
      BY <2>4, <2>5, <2>8, <3>2
  <2> QED
    BY <2>2, <2>7, <2>9
<1>4. \A n \in S \cap Nat : n + 1 \in S
  BY <1>3
<1> HIDE DEF S
<1>5. Nat \subseteq S
  BY <1>2, <1>4, FromZero
<1> QED
  BY <1>1, <1>5 DEF S

(* Marked sections and comments are stripped, and nothing else. *)
LEMMA StripsMarked ==
    ASSUME html \in Seq(STRING), stripped = Strip
    PROVE  StripsWhatIsMarked
<1>1. Len(html) \in Nat /\ DOMAIN html = 1..Len(html) /\ Len(html) \in 0..Len(html)
  BY LenProperties
<1>2. \A i \in 1..Len(html) : html[i] \in ToSet(html)
  BY <1>1 DEF ToSet
<1>3. Spots = ToSet(Stripped[Len(html)].kept)
  BY DEF Spots, Strip
<1>4. ASSUME "<!--" \notin ToSet(html)
      PROVE  Spots = {i \in DOMAIN html : ~Enclosed(SkipStart, SkipEnd, i)
                                             /\ html[i] \notin {SkipStart, SkipEnd, "<!>"}}
  <2> DEFINE out == {SkipStart, SkipEnd, "<!>"}
  <2>1. OneMode("section", SkipStart, SkipEnd, out)
    BY <1>2, <1>4, StripStep DEF OneMode, Marks, Modes
  <2>2. SkipStart \in out /\ SkipStart # SkipEnd /\ "section" \in Modes \ {"text"}
    BY DEF Modes, SkipStart, SkipEnd
  <2> HIDE DEF out
  <2>3. Spots = {i \in 1..Len(html) : ~Enclosed(SkipStart, SkipEnd, i) /\ html[i] \notin out}
    BY <1>1, <1>3, <2>1, <2>2, KeepsTheRest
  <2> QED
    BY <1>1, <2>3 DEF out
<1>5. ASSUME ToSet(html) \cap {SkipStart, SkipEnd} = {}
      PROVE  Spots = {i \in DOMAIN html : ~Enclosed("<!--", "-->", i)
                                             /\ html[i] \notin {"<!--", "<!>"}}
  <2> DEFINE out == {"<!--", "<!>"}
  <2>1. \A i \in 1..Len(html) : html[i] # SkipStart /\ html[i] # SkipEnd
    BY <1>2, <1>5
  <2>2. OneMode("comment", "<!--", "-->", out)
    BY <2>1, StripStep DEF OneMode, Marks, Modes
  <2>3. "<!--" \in out /\ "comment" \in Modes \ {"text"}
    BY DEF Modes
  <2> HIDE DEF out
  <2>4. Spots = {i \in 1..Len(html) : ~Enclosed("<!--", "-->", i) /\ html[i] \notin out}
    BY <1>1, <1>3, <2>2, <2>3, KeepsTheRest
  <2> QED
    BY <1>1, <2>4 DEF out
<1> QED
  BY <1>4, <1>5 DEF StripsWhatIsMarked

-----------------------------------------------------------------------------
(* A token of a document: what is indexed of it.                           *)

(* Who turns indexing off, with what, and with what on again. *)
Hiders == {"noindex", "style", "script", "meta_htdig", "meta_robots"}

OffBy(w) ==
    IF w = "noindex" THEN {"noindex", "noindex follow"}
    ELSE IF w = "style" THEN {"style"}
    ELSE IF w = "script" THEN {"script"}
    ELSE IF w = "meta_htdig" THEN {"htdig-noindex"} ELSE {"robots noindex", "robots none"}

OnBy(w) ==
    IF w = "noindex" THEN {"/noindex"}
    ELSE IF w = "style" THEN {"/style"}
    ELSE IF w = "script" THEN {"/script"}
    ELSE IF w = "meta_htdig" THEN {"htdig-index"} ELSE {}

HidesAll == {"htdig-noindex", "robots noindex", "robots none"}

(* What is found in the token at Place. *)
Found ==
    \/ html[Place] \in {"word", "img"} /\ noindex = {}
    \/ html[Place] = "keywords" /\ noindex = {} /\ keywordsCount + 1 <= MaxKeywords

(* What a step does with the variables that the following is about. *)
TokenStep ==
    LET t == html[Place]
    IN /\ spot < Len(stripped) /\ spot' = spot + 1
       /\ gotHeads' = gotHeads
       /\ inHeading' \in {inHeading, 0, 1, 2}
       /\ noindex' = {w \in noindex : t \notin OnBy(w)} \cup {w \in Hiders : t \in OffBy(w)}
       /\ IF Found
          THEN \E h \in {inHeading, 10} : gotWords' = Append(gotWords, [at |-> Place, heading |-> h])
          ELSE gotWords' = gotWords
       /\ keywordsCount' = IF t = "keywords" /\ noindex = {} THEN keywordsCount + 1 ELSE keywordsCount
       /\ title' = title \/ (noindex = {} /\ title' = Append(title, Place))
       /\ docHead' = docHead \/ (noindex = {} /\ docHead' = Append(docHead, Place))
       /\ gotTitles' = gotTitles \/ gotTitles' = Append(gotTitles, title)
       /\ gotNoindex' = (gotNoindex \/ t \in HidesAll)

(* What ends an element. *)
LEMMA EndsAre ==
    ASSUME NEW e \in Elements
    PROVE  \/ e = "noindex" /\ EndOf[e] = "/noindex"
           \/ e = "style" /\ EndOf[e] = "/style"
           \/ e = "script" /\ EndOf[e] = "/script"
<1>1. EndOf["noindex"] = "/noindex" /\ EndOf["style"] = "/style" /\ EndOf["script"] = "/script"
  BY DEF EndOf
<1> QED
  BY <1>1 DEF Elements

(* Every step but the last one passes a token. *)
LEMMA TokenSteps ==
    ASSUME HTMLNext, noindex \subseteq Hiders, gotNoindex \in BOOLEAN
    PROVE  html' = html /\ stripped' = stripped /\ (TokenStep \/ GotHead)
<1>1. CASE Word
  <2>1. /\ spot < Len(stripped) /\ spot' = spot + 1 /\ gotHeads' = gotHeads
        /\ html' = html /\ stripped' = stripped /\ html[Place] \in {"word", "short"}
    BY <1>1 DEF Word, Take, WordTokens
  <2>2. noindex' = {w \in noindex : html[Place] \notin OnBy(w)} \cup {w \in Hiders : html[Place] \in OffBy(w)}
    BY <1>1, <2>1 DEF Word, flagVars, OnBy, OffBy
  <2>3. IF Found
        THEN \E h \in {inHeading, 10} : gotWords' = Append(gotWords, [at |-> Place, heading |-> h])
        ELSE gotWords' = gotWords
    BY <1>1, <2>1 DEF Word, Found, GotWord
  <2> QED
    BY <1>1, <2>1, <2>2, <2>3 DEF Word, TokenStep, ToTitle, ToHead, HidesAll
<1>2. CASE Img
  <2>1. /\ spot < Len(stripped) /\ spot' = spot + 1 /\ gotHeads' = gotHeads
        /\ html' = html /\ stripped' = stripped /\ html[Place] = "img"
    BY <1>2 DEF Img, Take
  <2>2. noindex' = {w \in noindex : html[Place] \notin OnBy(w)} \cup {w \in Hiders : html[Place] \in OffBy(w)}
    BY <1>2, <2>1 DEF Img, flagVars, OnBy, OffBy
  <2>3. IF Found
        THEN \E h \in {inHeading, 10} : gotWords' = Append(gotWords, [at |-> Place, heading |-> h])
        ELSE gotWords' = gotWords
    BY <1>2, <2>1 DEF Img, Found, GotWord
  <2> QED
    BY <1>2, <2>1, <2>2, <2>3 DEF Img, TokenStep, ToTitle, ToHead, HidesAll
<1>3. CASE MetaKeywords
  <2>1. /\ spot < Len(stripped) /\ spot' = spot + 1 /\ gotHeads' = gotHeads
        /\ html' = html /\ stripped' = stripped /\ html[Place] = "keywords"
    BY <1>3 DEF MetaKeywords, Take
  <2>2. noindex' = {w \in noindex : html[Place] \notin OnBy(w)} \cup {w \in Hiders : html[Place] \in OffBy(w)}
    BY <1>3, <2>1 DEF MetaKeywords, flagVars, OnBy, OffBy
  <2>3. IF Found
        THEN \E h \in {inHeading, 10} : gotWords' = Append(gotWords, [at |-> Place, heading |-> h])
        ELSE gotWords' = gotWords
    BY <1>3, <2>1 DEF MetaKeywords, Found, GotWord
  <2> QED
    BY <1>3, <2>1, <2>2, <2>3 DEF MetaKeywords, TokenStep, HidesAll
<1>4. CASE Other \/ OpenTitle \/ CloseTitle \/ Heading \/ Anchor \/ CloseAnchor \/ Frame \/ Refresh
  <2>1. /\ spot < Len(stripped) /\ spot' = spot + 1 /\ gotHeads' = gotHeads
        /\ html' = html /\ stripped' = stripped
        /\ html[Place] \in {"-->", "p", "title", "/title", "h1", "/h1", "a", "/a", "frame", "refresh"}
        /\ UNCHANGED <<noindex, gotWords, keywordsCount, title, docHead, gotNoindex>>
    BY <1>4 DEF Other, OpenTitle, CloseTitle, Heading, Anchor, CloseAnchor, Frame, Refresh, Take, flagVars
  <2>2. inHeading' \in {inHeading, 0, 1, 2} /\ gotTitles' \in {gotTitles, Append(gotTitles, title)}
    BY <1>4 DEF Other, OpenTitle, CloseTitle, Heading, Anchor, CloseAnchor, Frame, Refresh
  <2>3. noindex' = {w \in noindex : html[Place] \notin OnBy(w)} \cup {w \in Hiders : html[Place] \in OffBy(w)}
    BY <2>1 DEF OnBy, OffBy
  <2>4. ~Found
    BY <2>1 DEF Found
  <2> QED
    BY <2>1, <2>2, <2>3, <2>4 DEF TokenStep, HidesAll
<1>5. CASE OpenElement \/ NoindexFollow \/ CloseElement \/ MetaHtdig \/ MetaRobots
  <2> DEFINE Flags == {"noindex", "style", "script", "noindex follow", "/noindex", "/style",
                       "/script", "htdig-noindex", "htdig-index", "robots noindex",
                       "robots nofollow", "robots none"}
  <2>1. /\ spot < Len(stripped) /\ spot' = spot + 1 /\ gotHeads' = gotHeads
        /\ html' = html /\ stripped' = stripped
        /\ html[Place] \in Flags
        /\ UNCHANGED <<inHeading, gotWords, keywordsCount, title, docHead, gotTitles>>
    <3>1. CASE OpenElement
      BY <3>1 DEF OpenElement, Take, Elements, UnchangedByFlags
    <3>2. CASE NoindexFollow
      BY <3>2 DEF NoindexFollow, Take, UnchangedByFlags
    <3>3. CASE CloseElement
      <4>1. PICK e \in Elements : Take({EndOf[e]})
        BY <3>3 DEF CloseElement
      <4>2. EndOf[e] \in Flags
        BY EndsAre
      <4> QED
        BY <3>3, <4>1, <4>2 DEF CloseElement, Take, UnchangedByFlags
    <3>4. CASE MetaHtdig
      BY <3>4 DEF MetaHtdig, Take, UnchangedByFlags
    <3>5. CASE MetaRobots
      BY <3>5 DEF MetaRobots, Take, UnchangedByFlags
    <3> QED
      BY <1>5, <3>1, <3>2, <3>3, <3>4, <3>5
  <2>2. /\ gotNoindex' = (gotNoindex \/ html[Place] \in HidesAll)
        /\ noindex' = {w \in noindex : html[Place] \notin OnBy(w)}
                        \cup {w \in Hiders : html[Place] \in OffBy(w)}
    <3>1. CASE OpenElement
      BY <3>1 DEF OpenElement, Take, Elements, TurnOff, OnBy, OffBy, Hiders, HidesAll
    <3>2. CASE NoindexFollow
      BY <3>2 DEF NoindexFollow, Take, OnBy, OffBy, Hiders, HidesAll
    <3>3. CASE CloseElement
      <4>1. PICK e \in Elements : Take({EndOf[e]}) /\ TurnOn(e)
        BY <3>3 DEF CloseElement
      <4>2. html[Place] = EndOf[e] /\ noindex' = noindex \ {e} /\ gotNoindex' = gotNoindex
        BY <3>3, <4>1 DEF CloseElement, Take, TurnOn
      <4>3. /\ \A w \in Hiders : EndOf[e] \in OnBy(w) <=> w = e
            /\ \A w \in Hiders : EndOf[e] \notin OffBy(w)
            /\ EndOf[e] \notin HidesAll
        BY EndsAre DEF OnBy, OffBy, Hiders, HidesAll
      <4>4. gotNoindex' = (gotNoindex \/ html[Place] \in HidesAll)
        BY <4>2, <4>3
      <4>5. noindex' = {w \in noindex : html[Place] \notin OnBy(w)}
                          \cup {w \in Hiders : html[Place] \in OffBy(w)}
        BY <4>2, <4>3
      <4> QED
        BY <4>4, <4>5
    <3>4. CASE MetaHtdig
      BY <3>4 DEF MetaHtdig, Take, TurnOn, TurnOff, OnBy, OffBy, Hiders, HidesAll
    <3>5. CASE MetaRobots
      BY <3>5 DEF MetaRobots, Take, OnBy, OffBy, Hiders, HidesAll
    <3> QED
      BY <1>5, <3>1, <3>2, <3>3, <3>4, <3>5
  <2>3. ~Found
    BY <2>1 DEF Found
  <2> QED
    BY <2>1, <2>2, <2>3 DEF TokenStep
<1>6. CASE GotHead
  BY <1>6 DEF GotHead
<1> QED
  BY <1>1, <1>2, <1>3, <1>4, <1>5, <1>6 DEF HTMLNext

-----------------------------------------------------------------------------
(* The places of a document in their order.                                *)

(* What is left of a document is in its order. *)
Ordered ==
    /\ stripped \in Seq(Nat)
    /\ \A a, b \in 1..Len(stripped) : a < b => stripped[a] < stripped[b]

(* Two places are in the order of their numbers. *)
LEMMA PlaceOrder ==
    ASSUME Ordered, NEW a \in 1..Len(stripped), NEW b \in 1..Len(stripped)
    PROVE  /\ stripped[a] \in Nat /\ stripped[b] \in Nat
           /\ stripped[a] < stripped[b] <=> a < b
           /\ stripped[a] <= stripped[b] <=> a <= b
           /\ stripped[a] = stripped[b] <=> a = b
<1>1. Len(stripped) \in Nat /\ stripped[a] \in Nat /\ stripped[b] \in Nat
  BY LenProperties, ElementOfSeq DEF Ordered
<1>2. a < b => stripped[a] < stripped[b]
  BY DEF Ordered
<1>3. b < a => stripped[b] < stripped[a]
  BY DEF Ordered
<1> QED
  BY <1>1, <1>2, <1>3

(* Something in off is among the first n tokens, and nothing in on comes   *)
(* after it. *)
OffAt(off, on, n) ==
    \E k \in 1..n : html[stripped[k]] \in off /\ \A j \in k + 1..n : html[stripped[j]] \notin on

(* One token further on. *)
LEMMA OffNext ==
    ASSUME NEW off, NEW on, NEW n \in Nat
    PROVE  OffAt(off, on, n + 1) <=> \/ html[stripped[n + 1]] \in off
                                     \/ OffAt(off, on, n) /\ html[stripped[n + 1]] \notin on
<1>1. ASSUME html[stripped[n + 1]] \in off PROVE OffAt(off, on, n + 1)
  BY <1>1 DEF OffAt
<1>2. ASSUME OffAt(off, on, n), html[stripped[n + 1]] \notin on PROVE OffAt(off, on, n + 1)
  <2>1. PICK k \in 1..n : html[stripped[k]] \in off /\ \A j \in k + 1..n : html[stripped[j]] \notin on
    BY <1>2 DEF OffAt
  <2>2. \A j \in k + 1..n + 1 : j \in k + 1..n \/ j = n + 1
    OBVIOUS
  <2> QED
    BY <1>2, <2>1, <2>2 DEF OffAt
<1>3. ASSUME OffAt(off, on, n + 1), html[stripped[n + 1]] \notin off
      PROVE  OffAt(off, on, n) /\ html[stripped[n + 1]] \notin on
  <2>1. PICK k \in 1..n + 1 : /\ html[stripped[k]] \in off
                              /\ \A j \in k + 1..n + 1 : html[stripped[j]] \notin on
    BY <1>3 DEF OffAt
  <2>2. k \in 1..n /\ n + 1 \in k + 1..n + 1 /\ k + 1..n \subseteq k + 1..n + 1
    BY <1>3, <2>1
  <2> QED
    BY <2>1, <2>2 DEF OffAt
<1> QED
  BY <1>1, <1>2, <1>3

(* What is off at a place is what is off after the tokens before it. *)
LEMMA OnAt ==
    ASSUME Ordered, NEW switches, NEW n \in 1..Len(stripped)
    PROVE  IsOn(switches, stripped[n]) <=> \A s \in switches : ~OffAt(s.off, s.on, n - 1)
<1>1. Len(stripped) \in Nat /\ DOMAIN stripped = 1..Len(stripped)
  BY LenProperties DEF Ordered
<1>2. \A p : p \in Spots <=> \E k \in 1..Len(stripped) : p = stripped[k]
  BY <1>1 DEF Spots, ToSet
<1>3. ASSUME IsOn(switches, stripped[n]), NEW s \in switches PROVE ~OffAt(s.off, s.on, n - 1)
  <2> SUFFICES ASSUME NEW k \in 1..n - 1, html[stripped[k]] \in s.off,
                      \A j \in k + 1..n - 1 : html[stripped[j]] \notin s.on
               PROVE  FALSE
    BY DEF OffAt
  <2>1. k \in 1..Len(stripped) /\ k < n
    BY <1>1
  <2>2. stripped[k] \in Spots /\ stripped[k] < stripped[n]
    BY <1>2, <2>1, PlaceOrder
  <2>3. PICK q \in Spots : stripped[k] < q /\ q < stripped[n] /\ html[q] \in s.on
    BY <1>3, <2>2 DEF IsOn, Between
  <2>4. PICK j \in 1..Len(stripped) : q = stripped[j]
    BY <1>2
  <2>5. k < j /\ j < n
    BY <2>1, <2>3, <2>4, PlaceOrder
  <2> QED
    BY <2>3, <2>4, <2>5
<1>4. ASSUME \A s \in switches : ~OffAt(s.off, s.on, n - 1) PROVE IsOn(switches, stripped[n])
  <2> SUFFICES ASSUME NEW s \in switches, NEW p \in Spots, p < stripped[n], html[p] \in s.off
               PROVE  \E q \in Between(p, stripped[n]) : html[q] \in s.on
    BY DEF IsOn
  <2>1. PICK k \in 1..Len(stripped) : p = stripped[k]
    BY <1>2
  <2>2. k \in 1..n - 1
    BY <1>1, <2>1, PlaceOrder
  <2>3. PICK j \in k + 1..n - 1 : html[stripped[j]] \in s.on
    BY <1>4, <2>1, <2>2 DEF OffAt
  <2>4. j \in 1..Len(stripped) /\ k < j /\ j < n
    BY <1>1, <2>2
  <2>5. stripped[j] \in Between(p, stripped[n])
    BY <1>2, <2>1, <2>4, PlaceOrder DEF Between
  <2> QED
    BY <2>3, <2>5
<1> QED
  BY <1>3, <1>4

(* The two sets of a switch. *)
LEMMA SwitchIs == \A off, on : Switch(off, on).off = off /\ Switch(off, on).on = on
BY DEF Switch

HidersAt(n) == {w \in Hiders : OffAt(OffBy(w), OnBy(w), n)}

(* The flags say what is visible. *)
LEMMA VisibleAt ==
    ASSUME Ordered, NEW n \in 1..Len(stripped)
    PROVE  Visible(stripped[n]) <=> HidersAt(n - 1) = {}
<1>1. Visible(stripped[n]) <=> \A s \in IndexSwitches : ~OffAt(s.off, s.on, n - 1)
  BY OnAt DEF Visible
<1>2. (\A s \in IndexSwitches : ~OffAt(s.off, s.on, n - 1))
          <=> \A w \in Hiders : ~OffAt(OffBy(w), OnBy(w), n - 1)
  <2> DEFINE Off(off, on) == ~OffAt(off, on, n - 1)
             All == /\ Off({"noindex", "noindex follow"}, {"/noindex"})
                    /\ Off({"style"}, {"/style"}) /\ Off({"script"}, {"/script"})
                    /\ Off({"htdig-noindex"}, {"htdig-index"})
                    /\ Off({"robots noindex", "robots none"}, {})
  <2> HIDE DEF Off
  <2>1. (\A s \in IndexSwitches : Off(s.off, s.on)) <=> All
    <3> DEFINE a == Switch({"noindex", "noindex follow"}, {"/noindex"})
               b == Switch({"style"}, {"/style"})
               c == Switch({"script"}, {"/script"})
               d == Switch({"htdig-noindex"}, {"htdig-index"})
               e == Switch({"robots noindex", "robots none"}, {})
    <3>1. /\ a.off = {"noindex", "noindex follow"} /\ a.on = {"/noindex"}
          /\ b.off = {"style"} /\ b.on = {"/style"}
          /\ c.off = {"script"} /\ c.on = {"/script"}
          /\ d.off = {"htdig-noindex"} /\ d.on = {"htdig-index"}
          /\ e.off = {"robots noindex", "robots none"} /\ e.on = {}
      BY SwitchIs
    <3>2. IndexSwitches = {a, b, c, d, e}
      BY DEF IndexSwitches
    <3> HIDE DEF a, b, c, d, e
    <3>3. (\A s \in IndexSwitches : Off(s.off, s.on))
              <=> /\ Off(a.off, a.on) /\ Off(b.off, b.on) /\ Off(c.off, c.on)
                  /\ Off(d.off, d.on) /\ Off(e.off, e.on)
      BY <3>2
    <3> QED
      BY <3>1, <3>3
  <2>2. (\A w \in Hiders : Off(OffBy(w), OnBy(w))) <=> All
    BY DEF Hiders, OffBy, OnBy
  <2> QED
    BY <2>1, <2>2 DEF Off
<1> QED
  BY <1>1, <1>2 DEF HidersAt

(* Who hides the token after the next. *)
LEMMA HidersNext ==
    ASSUME NEW n \in Nat
    PROVE  HidersAt(n + 1) = {w \in HidersAt(n) : html[stripped[n + 1]] \notin OnBy(w)}
                                \cup {w \in Hiders : html[stripped[n + 1]] \in OffBy(w)}
BY OffNext DEF HidersAt

-----------------------------------------------------------------------------
Places(n) == {stripped[k] : k \in 1..n}

(* The keywords that count among the first n tokens. *)
KeywordsIn(n) == {q \in Places(n) : html[q] = "keywords" /\ Visible(q)}

(* The places up to the n-th. *)
LEMMA PlacesTo ==
    ASSUME Ordered, NEW n \in 1..Len(stripped)
    PROVE  /\ Places(n) = {q \in Spots : q <= stripped[n]}
           /\ Places(n) = Places(n - 1) \cup {stripped[n]}
           /\ \A q \in Places(n - 1) : q \in Nat /\ q < stripped[n]
<1>1. Len(stripped) \in Nat /\ DOMAIN stripped = 1..Len(stripped)
  BY LenProperties DEF Ordered
<1>2. \A p : p \in Spots <=> \E k \in 1..Len(stripped) : p = stripped[k]
  BY <1>1 DEF Spots, ToSet
<1>3. Places(n) = {q \in Spots : q <= stripped[n]}
  <2>1. ASSUME NEW q \in Places(n) PROVE q \in Spots /\ q <= stripped[n]
    BY <1>1, <1>2, PlaceOrder DEF Places
  <2>2. ASSUME NEW q \in Spots, q <= stripped[n] PROVE q \in Places(n)
    <3>1. PICK k \in 1..Len(stripped) : q = stripped[k]
      BY <1>2
    <3>2. k <= n
      BY <2>2, <3>1, PlaceOrder
    <3> QED
      BY <1>1, <3>1, <3>2 DEF Places
  <2> QED
    BY <2>1, <2>2
<1>4. 1..n = (1..n - 1) \cup {n}
  BY <1>1
<1>5. ASSUME NEW q \in Places(n - 1) PROVE q \in Nat /\ q < stripped[n]
  <2>1. PICK k \in 1..n - 1 : q = stripped[k]
    BY DEF Places
  <2>2. k \in 1..Len(stripped) /\ k < n
    BY <1>1
  <2> QED
    BY <2>1, <2>2, PlaceOrder
<1> QED
  BY <1>3, <1>4, <1>5 DEF Places

(* The keywords are finitely many, and their number is what counts. *)
LEMMA KeywordsCounted ==
    ASSUME Ordered, NEW n \in 1..Len(stripped)
    PROVE  /\ KeywordsUpTo(stripped[n]) = Cardinality(KeywordsIn(n))
           /\ Cardinality(KeywordsIn(n)) =
                IF html[stripped[n]] = "keywords" /\ Visible(stripped[n])
                THEN Cardinality(KeywordsIn(n - 1)) + 1 ELSE Cardinality(KeywordsIn(n - 1))
           /\ Cardinality(KeywordsIn(n - 1)) \in Nat
<1>1. {q \in Spots : q <= stripped[n] /\ html[q] = "keywords" /\ Visible(q)} = KeywordsIn(n)
  BY PlacesTo DEF KeywordsIn
<1>2. IsFiniteSet(KeywordsIn(n - 1))
  <2>1. stripped[n] \in Nat
    BY PlaceOrder
  <2>2. IsFiniteSet(0..stripped[n])
    <3>1. 0 \in Int /\ stripped[n] \in Int
      BY <2>1
    <3> QED
      BY <3>1, FS_Interval, Zenon
  <2>3. KeywordsIn(n - 1) \subseteq 0..stripped[n]
    BY <2>1, PlacesTo DEF KeywordsIn
  <2> QED
    BY <2>2, <2>3, FS_Subset
<1>3. KeywordsIn(n) = IF html[stripped[n]] = "keywords" /\ Visible(stripped[n])
                      THEN KeywordsIn(n - 1) \cup {stripped[n]} ELSE KeywordsIn(n - 1)
  BY PlacesTo DEF KeywordsIn
<1>4. stripped[n] \notin KeywordsIn(n - 1)
  <2>1. stripped[n] \in Nat
    BY PlaceOrder
  <2> QED
    BY <2>1, PlacesTo DEF KeywordsIn
<1>5. Cardinality(KeywordsIn(n - 1)) \in Nat
  BY <1>2, FS_CardinalityType
<1>6. Cardinality(KeywordsIn(n - 1) \cup {stripped[n]}) = Cardinality(KeywordsIn(n - 1)) + 1
  BY <1>2, <1>4, FS_AddElement
<1> QED
  BY <1>1, <1>3, <1>5, <1>6 DEF KeywordsUpTo

-----------------------------------------------------------------------------
(* What is indexed and shown is what is visible.                           *)

(* While the document stays the same, so do what is visible and what is to *)
(* be indexed. *)
LEMMA SameText ==
    ASSUME html' = html, stripped' = stripped
    PROVE  /\ Ordered' = Ordered /\ StripsWhatIsMarked' = StripsWhatIsMarked
           /\ \A i : (Visible(i)' <=> Visible(i)) /\ (ToBeIndexed(i)' <=> ToBeIndexed(i))
           /\ \A n : /\ Places(n)' = Places(n) /\ HidersAt(n)' = HidersAt(n)
                     /\ KeywordsIn(n)' = KeywordsIn(n)
<1>1. Spots' = Spots
  BY DEF Spots
<1>2. Ordered' = Ordered
  BY DEF Ordered
<1>3. StripsWhatIsMarked' = StripsWhatIsMarked
  BY <1>1 DEF StripsWhatIsMarked, Enclosed
<1>4. \A i : Visible(i)' <=> Visible(i)
  <2>1. ASSUME NEW switches, NEW i PROVE IsOn(switches, i)' <=> IsOn(switches, i)
    BY <1>1 DEF IsOn, Between
  <2> QED
    BY <2>1 DEF Visible
<1>5. \A i : KeywordsUpTo(i)' = KeywordsUpTo(i)
  BY <1>1, <1>4 DEF KeywordsUpTo
<1>6. \A i : ToBeIndexed(i)' <=> ToBeIndexed(i)
  BY <1>4, <1>5 DEF ToBeIndexed
<1>7. \A n : Places(n)' = Places(n)
  BY DEF Places
<1>8. \A n : HidersAt(n)' = HidersAt(n)
  BY DEF HidersAt, OffAt
<1>9. \A n : KeywordsIn(n)' = KeywordsIn(n)
  BY <1>4, <1>7 DEF KeywordsIn
<1> QED
  BY <1>2, <1>3, <1>4, <1>6, <1>7, <1>8, <1>9

FlagInv ==
    /\ noindex = HidersAt(spot)
    /\ keywordsCount = Cardinality(KeywordsIn(spot))
    /\ gotNoindex \in BOOLEAN
    /\ gotNoindex <=> \E k \in 1..spot : html[stripped[k]] \in HidesAll
    /\ inHeading \in Nat

WordsInv ==
    /\ gotWords \in Seq([at : Nat, heading : Nat])
    /\ {w.at : w \in ToSet(gotWords)} = {i \in Places(spot) : ToBeIndexed(i)}
    /\ \A j, k \in 1..Len(gotWords) : j < k => gotWords[j].at < gotWords[k].at

AllVisible(s) == s \in Seq(Nat) /\ \A i \in ToSet(s) : Visible(i)

ShownInv ==
    /\ AllVisible(title) /\ AllVisible(docHead)
    /\ gotTitles \in Seq(Seq(Nat)) /\ \A t \in ToSet(gotTitles) : AllVisible(t)

HeadInv == gotHeads = <<>> \/ (gotHeads = <<docHead>> /\ spot = Len(stripped))

TextInv ==
    /\ Ordered /\ StripsWhatIsMarked
    /\ spot \in 0..Len(stripped)
    /\ FlagInv /\ WordsInv /\ ShownInv /\ HeadInv

(* Place is one of the places. *)
LEMMA PlaceIs ==
    ASSUME Ordered, spot \in 0..Len(stripped), spot < Len(stripped)
    PROVE  /\ spot \in Nat /\ spot + 1 \in 1..Len(stripped) /\ (spot + 1) - 1 = spot
           /\ Place \in Nat /\ Place = stripped[spot + 1]
<1>1. Len(stripped) \in Nat
  BY LenProperties DEF Ordered
<1>2. spot + 1 \in 1..Len(stripped)
  BY <1>1
<1> QED
  BY <1>2, PlaceOrder DEF Place

(* What is found is what is to be indexed. *)
LEMMA FoundIs ==
    ASSUME Ordered, spot \in 0..Len(stripped), spot < Len(stripped), FlagInv
    PROVE  /\ noindex = {} <=> Visible(Place)
           /\ Found <=> ToBeIndexed(Place)
           /\ Cardinality(KeywordsIn(spot + 1)) =
                IF html[Place] = "keywords" /\ noindex = {} THEN keywordsCount + 1 ELSE keywordsCount
<1>1. /\ spot + 1 \in 1..Len(stripped) /\ (spot + 1) - 1 = spot /\ Place = stripped[spot + 1]
  BY PlaceIs
<1>2. noindex = {} <=> Visible(Place)
  BY <1>1, VisibleAt DEF FlagInv
<1>3. /\ KeywordsUpTo(Place) = Cardinality(KeywordsIn(spot + 1))
      /\ Cardinality(KeywordsIn(spot + 1)) =
            IF html[Place] = "keywords" /\ Visible(Place)
            THEN Cardinality(KeywordsIn(spot)) + 1 ELSE Cardinality(KeywordsIn(spot))
  BY <1>1, KeywordsCounted
<1>4. keywordsCount = Cardinality(KeywordsIn(spot))
  BY DEF FlagInv
<1> QED
  BY <1>2, <1>3, <1>4 DEF Found, ToBeIndexed

(* The flags, the keywords and whether the document is to be left out. *)
LEMMA FlagStep ==
    ASSUME TextInv, TokenStep, html' = html, stripped' = stripped
    PROVE  FlagInv'
<1>1. Ordered /\ spot \in 0..Len(stripped) /\ spot < Len(stripped) /\ FlagInv
  BY DEF TextInv, TokenStep
<1>2. /\ spot \in Nat /\ spot' = spot + 1 /\ Place = stripped[spot + 1]
  BY <1>1, PlaceIs DEF TokenStep
<1>3. noindex' = HidersAt(spot + 1)
  BY <1>1, <1>2, HidersNext DEF TokenStep, FlagInv
<1>4. noindex' = HidersAt(spot)'
  BY <1>2, <1>3 DEF HidersAt, OffAt
<1>5. keywordsCount' = Cardinality(KeywordsIn(spot + 1))
  BY <1>1, FoundIs DEF TokenStep
<1>6. keywordsCount' = Cardinality(KeywordsIn(spot))'
  <2>1. KeywordsIn(spot)' = KeywordsIn(spot + 1)
    <3>1. Places(spot)' = Places(spot + 1)
      BY <1>2 DEF Places
    <3> QED
      BY <3>1, SameText DEF KeywordsIn
  <2> QED
    BY <1>5, <2>1
<1>7. inHeading' \in Nat
  BY DEF TokenStep, TextInv, FlagInv
<1>8. gotNoindex' \in BOOLEAN /\ (gotNoindex' <=> \E k \in 1..spot' : html[stripped[k]] \in HidesAll)
  <2>1. gotNoindex' <=> gotNoindex \/ html[Place] \in HidesAll
    BY DEF TokenStep
  <2>2. gotNoindex <=> \E k \in 1..spot : html[stripped[k]] \in HidesAll
    BY <1>1 DEF FlagInv
  <2>3. 1..spot' = (1..spot) \cup {spot + 1}
    BY <1>2
  <2> QED
    BY <1>2, <2>1, <2>2, <2>3
<1> QED
  BY <1>4, <1>6, <1>7, <1>8 DEF FlagInv

(* A list of places with one more at its end. *)
LEMMA PlaceAdded ==
    ASSUME NEW s, AllVisible(s), NEW p \in Nat, Visible(p)
    PROVE  AllVisible(Append(s, p))
BY Appended DEF AllVisible

(* The words, in the order of the document. *)
LEMMA WordsStep ==
    ASSUME TextInv, TokenStep, html' = html, stripped' = stripped
    PROVE  WordsInv'
<1>1. Ordered /\ spot \in 0..Len(stripped) /\ spot < Len(stripped) /\ FlagInv /\ WordsInv
  BY DEF TextInv, TokenStep
<1>2. /\ spot \in Nat /\ spot' = spot + 1 /\ Place \in Nat
      /\ Places(spot + 1) = Places(spot) \cup {Place}
      /\ \A q \in Places(spot) : q \in Nat /\ q < Place
  <2>1. /\ spot \in Nat /\ spot + 1 \in 1..Len(stripped) /\ (spot + 1) - 1 = spot
        /\ Place \in Nat /\ Place = stripped[spot + 1]
    BY <1>1, PlaceIs
  <2> QED
    BY <1>1, <2>1, PlacesTo DEF TokenStep
<1>3. Found <=> ToBeIndexed(Place)
  BY <1>1, FoundIs
<1> DEFINE Due(n) == {i \in Places(n) : ToBeIndexed(i)}
<1>4. Due(spot)' = Due(spot + 1)
  <2>1. Places(spot)' = Places(spot + 1)
    BY <1>2 DEF Places
  <2> QED
    BY <2>1, SameText
<1>5. Due(spot + 1) = IF Found THEN Due(spot) \cup {Place} ELSE Due(spot)
  BY <1>2, <1>3
<1>6. \A q \in Due(spot) : q \in Nat /\ q < Place
  BY <1>2
<1>7. /\ gotWords \in Seq([at : Nat, heading : Nat])
      /\ {w.at : w \in ToSet(gotWords)} = Due(spot)
      /\ \A j, k \in 1..Len(gotWords) : j < k => gotWords[j].at < gotWords[k].at
  BY <1>1 DEF WordsInv
<1> HIDE DEF Due
<1>8. CASE ~Found
  <2>1. gotWords' = gotWords
    BY <1>8 DEF TokenStep
  <2>2. {w.at : w \in ToSet(gotWords')} = Due(spot)'
    BY <1>4, <1>5, <1>7, <1>8, <2>1
  <2> QED
    BY <1>7, <2>1, <2>2 DEF WordsInv, Due
<1>9. CASE Found
  <2>1. PICK h \in {inHeading, 10} : gotWords' = Append(gotWords, [at |-> Place, heading |-> h])
    BY <1>9 DEF TokenStep
  <2>2. PICK w : w = [at |-> Place, heading |-> h]
    OBVIOUS
  <2>3. w \in [at : Nat, heading : Nat] /\ w.at = Place
    BY <1>1, <1>2, <2>2 DEF FlagInv
  <2>4. PICK new : new = Append(gotWords, w)
    OBVIOUS
  <2>5. /\ new \in Seq([at : Nat, heading : Nat]) /\ Len(gotWords) \in Nat
        /\ DOMAIN gotWords = 1..Len(gotWords)
        /\ Len(new) = Len(gotWords) + 1
        /\ \A i \in 1..Len(gotWords) : new[i] = gotWords[i]
        /\ new[Len(gotWords) + 1] = w
        /\ ToSet(new) = ToSet(gotWords) \cup {w}
    <3> DEFINE W == [at : Nat, heading : Nat]
    <3>1. gotWords \in Seq(W) /\ w \in W
      BY <1>7, <2>3
    <3> HIDE DEF W
    <3>2. /\ Append(gotWords, w) \in Seq(W) /\ Len(gotWords) \in Nat
          /\ DOMAIN gotWords = 1..Len(gotWords)
          /\ Len(Append(gotWords, w)) = Len(gotWords) + 1
          /\ \A i \in 1..Len(gotWords) : Append(gotWords, w)[i] = gotWords[i]
          /\ Append(gotWords, w)[Len(gotWords) + 1] = w
          /\ ToSet(Append(gotWords, w)) = ToSet(gotWords) \cup {w}
      BY <3>1, Appended
    <3> QED
      BY <2>4, <3>2 DEF W
  <2>6. {v.at : v \in ToSet(new)} = Due(spot + 1)
    BY <1>5, <1>7, <1>9, <2>3, <2>5
  <2>7. \A i \in 1..Len(gotWords) : gotWords[i].at \in Due(spot)
    BY <1>7, <2>5 DEF ToSet
  <2>8. ASSUME NEW j \in 1..Len(new), NEW k \in 1..Len(new), j < k PROVE new[j].at < new[k].at
    <3>1. j \in 1..Len(gotWords) /\ new[j] = gotWords[j]
      BY <2>5, <2>8, SMTT(30)
    <3>2. CASE k \in 1..Len(gotWords)
      BY <1>7, <2>5, <2>8, <3>1, <3>2
    <3>3. CASE k = Len(gotWords) + 1
      BY <1>6, <2>3, <2>5, <2>7, <3>1, <3>3
    <3> QED
      BY <2>5, <3>2, <3>3
  <2>9. gotWords' = new
    BY <2>1, <2>2, <2>4
  <2> QED
    BY <1>4, <2>5, <2>6, <2>8, <2>9 DEF WordsInv, Due
<1> QED
  BY <1>8, <1>9

(* The title, the excerpt and the titles that were handed over. *)
LEMMA ShownStep ==
    ASSUME TextInv, TokenStep, html' = html, stripped' = stripped
    PROVE  ShownInv'
<1>1. Ordered /\ spot \in 0..Len(stripped) /\ spot < Len(stripped) /\ FlagInv /\ ShownInv
  BY DEF TextInv, TokenStep
<1>2. Place \in Nat /\ (noindex = {} => Visible(Place))
  BY <1>1, PlaceIs, FoundIs
<1>3. AllVisible(title) /\ AllVisible(docHead)
  BY <1>1 DEF ShownInv
<1>4. AllVisible(title') /\ AllVisible(docHead')
  BY <1>2, <1>3, PlaceAdded DEF TokenStep
<1>5. gotTitles' \in Seq(Seq(Nat)) /\ \A t \in ToSet(gotTitles') : AllVisible(t)
  <2>1. gotTitles \in Seq(Seq(Nat)) /\ \A t \in ToSet(gotTitles) : AllVisible(t)
    BY <1>1 DEF ShownInv
  <2>2. title \in Seq(Nat)
    BY <1>3 DEF AllVisible
  <2>3. /\ Append(gotTitles, title) \in Seq(Seq(Nat))
        /\ ToSet(Append(gotTitles, title)) = ToSet(gotTitles) \cup {title}
    BY <2>1, <2>2, Appended
  <2> QED
    BY <1>3, <2>1, <2>3 DEF TokenStep
<1> QED
  BY <1>4, <1>5, SameText DEF ShownInv, AllVisible

(* Every step. *)
LEMMA TextStep ==
    ASSUME TextInv, [HTMLNext]_htmlVars
    PROVE  TextInv'
<1>1. CASE UNCHANGED htmlVars
  BY <1>1, SameText DEF htmlVars, flagVars, refVars, gotVars, TextInv, FlagInv, WordsInv, ShownInv,
                        AllVisible, HeadInv
<1>2. CASE HTMLNext
  <2>1. noindex \subseteq Hiders /\ gotNoindex \in BOOLEAN
    BY DEF TextInv, FlagInv, HidersAt
  <2>2. html' = html /\ stripped' = stripped /\ (TokenStep \/ GotHead)
    BY <1>2, <2>1, TokenSteps
  <2>3. Ordered' /\ StripsWhatIsMarked'
    BY <2>2, SameText DEF TextInv
  <2>4. CASE TokenStep
    <3>1. spot' \in 0..Len(stripped')
      BY <2>2, <2>4, LenProperties DEF TokenStep, TextInv, Ordered
    <3>2. HeadInv'
      BY <2>4, LenProperties DEF TokenStep, TextInv, HeadInv, Ordered
    <3> QED
      BY <2>2, <2>3, <2>4, <3>1, <3>2, FlagStep, WordsStep, ShownStep DEF TextInv
  <2>5. CASE GotHead
    <3>1. /\ spot' = spot /\ spot = Len(stripped)
          /\ gotHeads' = <<docHead>> /\ docHead' = docHead
          /\ UNCHANGED <<noindex, inHeading, title, keywordsCount, gotWords, gotTitles, gotNoindex>>
      BY <2>5 DEF GotHead, flagVars
    <3>2. HeadInv'
      BY <2>2, <3>1 DEF HeadInv
    <3>3. FlagInv' /\ WordsInv' /\ ShownInv'
      BY <2>2, <3>1, SameText DEF TextInv, FlagInv, WordsInv, ShownInv, AllVisible
    <3> QED
      BY <2>2, <2>3, <3>1, <3>2, <3>3 DEF TextInv
  <2> QED
    BY <2>2, <2>4, <2>5
<1> QED
  BY <1>1, <1>2

(* Before the first token. *)
LEMMA InitText == HTMLInit => TextInv
<1> SUFFICES ASSUME HTMLInit PROVE TextInv
  OBVIOUS
<1>1. html \in Seq(STRING) /\ Len(html) \in Nat /\ stripped = Strip
  BY HTMLAssumption, LenProperties DEF HTMLInit
<1>2. StripsWhatIsMarked
  BY <1>1, StripsMarked
<1>3. Ordered /\ Len(stripped) \in Nat
  <2>1. IsState(Stripped[Len(html)], Len(html))
    BY <1>1, StripTypes
  <2>2. /\ stripped \in Seq(1..Len(html))
        /\ \A a, b \in 1..Len(stripped) : a < b => stripped[a] < stripped[b]
    BY <1>1, <2>1 DEF IsState, Strip
  <2>3. 1..Len(html) \subseteq Nat
    BY <1>1
  <2> QED
    BY <2>2, <2>3, SeqMonotonic, LenProperties DEF Ordered
<1>4. spot = 0 /\ 1..0 = {}
  BY DEF HTMLInit
<1>5. FlagInv
  <2>1. HidersAt(0) = {} /\ KeywordsIn(0) = {}
    BY <1>4 DEF HidersAt, OffAt, KeywordsIn, Places
  <2>2. Cardinality({}) = 0
    BY FS_EmptySet
  <2> QED
    BY <1>4, <2>1, <2>2 DEF HTMLInit, FlagInv
<1>6. <<>> \in Seq(Nat) /\ <<>> \in Seq(Seq(Nat)) /\ <<>> \in Seq([at : Nat, heading : Nat])
      /\ ToSet(<<>>) = {} /\ Len(<<>>) = 0
  BY EmptySeq DEF ToSet
<1>7. WordsInv
  BY <1>4, <1>6 DEF HTMLInit, WordsInv, Places
<1>8. ShownInv /\ HeadInv
  BY <1>6 DEF HTMLInit, ShownInv, AllVisible, HeadInv
<1> QED
  BY <1>2, <1>3, <1>4, <1>5, <1>7, <1>8 DEF TextInv

(* The words that are indexed are those that nothing hides, in their order,*)
(* and no title or excerpt shows another: for every document, however its  *)
(* sections, comments, elements and metas overlap (HTML::parse, do_tag).   *)
THEOREM OnlyTheVisible == HTMLSpec => []HiddenNotIndexed
<1>1. TextInv /\ [HTMLNext]_htmlVars => TextInv'
  BY TextStep
<1>2. TextInv => HiddenNotIndexed
  <2> SUFFICES ASSUME TextInv, gotHeads # <<>> PROVE HiddenNotIndexed
    BY DEF HiddenNotIndexed
  <2>1. /\ gotHeads = <<docHead>> /\ spot = Len(stripped) /\ Len(stripped) \in Nat
        /\ DOMAIN stripped = 1..Len(stripped)
    BY LenProperties DEF TextInv, HeadInv, Ordered
  <2>2. Places(spot) = Spots
    BY <2>1 DEF Places, Spots, ToSet
  <2>3. /\ {w.at : w \in ToSet(gotWords)} = {i \in Spots : ToBeIndexed(i)}
        /\ \A j, k \in DOMAIN gotWords : j < k => gotWords[j].at < gotWords[k].at
    BY <2>2, LenProperties DEF TextInv, WordsInv
  <2>4. \A i \in ToSet(gotHeads[1]) \cup UNION {ToSet(t) : t \in ToSet(gotTitles)} : Visible(i)
    BY <2>1 DEF TextInv, ShownInv, AllVisible
  <2>5. gotNoindex <=> \E p \in Spots :
            html[p] \in {"htdig-noindex", "robots noindex", "robots none"}
    BY <2>1, <2>2 DEF TextInv, FlagInv, HidesAll, Places
  <2>6. StripsWhatIsMarked
    BY DEF TextInv
  <2> QED
    BY <2>3, <2>4, <2>5, <2>6 DEF HiddenNotIndexed
<1> QED
  BY <1>1, <1>2, InitText, PTL DEF HTMLSpec

-----------------------------------------------------------------------------
(* The description of a link.                                              *)

(* Places are positive. *)
Spot == Nat \ {0}

(* A sequence without its last element. *)
LEMMA FrontOfAppended ==
    ASSUME NEW S, NEW s \in Seq(S), NEW x \in S
    PROVE  Append(s, x) # <<>> /\ Last(Append(s, x)) = x /\ Front(Append(s, x)) = s
<1> DEFINE t == Append(s, x)
<1>1. /\ t \in Seq(S) /\ Len(s) \in Nat /\ Len(t) = Len(s) + 1
      /\ \A i \in 1..Len(s) : t[i] = s[i]
      /\ t[Len(s) + 1] = x
  BY Appended
<1> HIDE DEF t
<1>2. t # <<>> /\ Last(t) = x
  BY <1>1, EmptySeq DEF Last
<1>3. Front(t) = SubSeq(t, 1, Len(s))
  BY <1>1 DEF Front
<1>4. /\ SubSeq(t, 1, Len(s)) \in Seq(S) /\ Len(SubSeq(t, 1, Len(s))) = Len(s)
      /\ \A i \in 1..Len(s) : SubSeq(t, 1, Len(s))[i] = t[i]
  BY <1>1, SubSeqProperties
<1>5. SubSeq(t, 1, Len(s)) = s
  <2>1. PICK f : f = SubSeq(t, 1, Len(s))
    OBVIOUS
  <2>2. f \in Seq(S) /\ Len(f) = Len(s) /\ \A i \in 1..Len(s) : f[i] = s[i]
    BY <1>1, <1>4, <2>1
  <2>3. f = s
    BY <2>2, SeqEqual
  <2> QED
    BY <2>1, <2>3
<1> QED
  BY <1>2, <1>3, <1>5 DEF t

(* A list of places does not end with the ellipsis. *)
LEMMA PlacesUncut ==
    ASSUME NEW s \in Seq(Spot)
    PROVE  ~IsCut(s)
<1> SUFFICES ASSUME s # <<>> PROVE Last(s) # Ellipsis
  BY DEF IsCut
<1>1. Len(s) \in 1..Len(s)
  BY LenProperties, EmptySeq
<1>2. Last(s) \in Spot
  BY <1>1, ElementOfSeq DEF Last
<1> QED
  BY <1>2 DEF Spot, Ellipsis

(* A description that has all, or all but images. *)
LEMMA DescribedWhole ==
    ASSUME NEW s \in Seq(Spot), NEW words, Shows(s, words),
           \A q \in words \ ToSet(s) : html[q] = "img"
    PROVE  Describes(s, words)
BY PlacesUncut DEF Describes

(* A description that was cut. *)
LEMMA DescribedCut ==
    ASSUME NEW s \in Seq(Spot), NEW words, Shows(s, words),
           NEW q \in words \ ToSet(s), html[q] # "img"
    PROVE  IsCut(Append(s, Ellipsis)) /\ Describes(Append(s, Ellipsis), words)
<1>1. s \in Seq(Nat) /\ Ellipsis \in Nat
  BY SeqMonotonic DEF Spot, Ellipsis
<1>2. /\ Append(s, Ellipsis) # <<>> /\ Last(Append(s, Ellipsis)) = Ellipsis
      /\ Front(Append(s, Ellipsis)) = s
  BY <1>1, FrontOfAppended
<1> QED
  BY <1>2 DEF IsCut, Describes

(* A word more, for which there is room or not. *)
LEMMA ShowsMore ==
    ASSUME NEW s \in Seq(Spot), NEW words, Shows(s, words), NEW q \in Spot,
           \A p \in words : p \in Spot /\ p < q
    PROVE  /\ Len(s) < MaxDescription =>
                 Shows(Append(s, q), words \cup {q}) /\ (words \cup {q}) \ ToSet(Append(s, q)) = {}
           /\ ~(Len(s) < MaxDescription) =>
                 Shows(s, words \cup {q}) /\ q \notin ToSet(s)
<1>1. PICK t : t = Append(s, q)
  OBVIOUS
<1>2. /\ t \in Seq(Spot) /\ Len(s) \in Nat /\ DOMAIN s = 1..Len(s) /\ Len(t) = Len(s) + 1
      /\ \A i \in 1..Len(s) : t[i] = s[i] /\ s[i] \in Spot
      /\ t[Len(s) + 1] = q
      /\ ToSet(t) = ToSet(s) \cup {q}
  BY <1>1, Appended
<1>3. /\ ToSet(s) \subseteq words /\ Len(s) <= MaxDescription /\ MaxDescription \in Nat
      /\ \A j, k \in 1..Len(s) : j < k => s[j] < s[k]
      /\ \A p \in words \ ToSet(s) : Len(s) = MaxDescription /\ \A o \in ToSet(s) : o < p
  BY HTMLAssumption DEF Shows
<1>4. \A i \in 1..Len(s) : s[i] \in ToSet(s)
  BY <1>2 DEF ToSet
<1>5. \A i \in 1..Len(s) : s[i] < q
  BY <1>3, <1>4
<1>6. ASSUME Len(s) < MaxDescription
      PROVE  Shows(t, words \cup {q}) /\ (words \cup {q}) \ ToSet(t) = {}
  <2>0. Len(s) \in Nat /\ MaxDescription \in Nat
    BY <1>2, <1>3
  <2>1. words \subseteq ToSet(s)
    <3>1. Len(s) # MaxDescription
      BY <1>6, <2>0
    <3> QED
      BY <1>3, <3>1, Zenon
  <2>2. (words \cup {q}) \ ToSet(t) = {}
    BY <1>2, <2>1
  <2>3. ASSUME NEW j \in 1..Len(t), NEW k \in 1..Len(t), j < k PROVE t[j] < t[k]
    <3>1. j \in 1..Len(s) /\ t[j] = s[j]
      BY <1>2, <2>3
    <3>2. CASE k \in 1..Len(s)
      BY <1>2, <1>3, <2>3, <3>1, <3>2
    <3>3. CASE k = Len(s) + 1
      BY <1>2, <1>5, <3>1, <3>3
    <3> QED
      BY <1>2, <3>2, <3>3
  <2>4. Len(t) <= MaxDescription
    <3>1. Len(s) + 1 <= MaxDescription
      BY <1>6, <2>0
    <3> QED
      BY <1>2, <3>1, Zenon
  <2>5. ToSet(t) \subseteq words \cup {q}
    BY <1>2, <1>3
  <2> QED
    BY <2>2, <2>3, <2>4, <2>5 DEF Shows
<1>7. ASSUME ~(Len(s) < MaxDescription)
      PROVE  Shows(s, words \cup {q}) /\ q \notin ToSet(s)
  <2>1. Len(s) = MaxDescription
    <3>1. Len(s) \in Nat /\ MaxDescription \in Nat /\ Len(s) <= MaxDescription
      BY <1>2, <1>3, Zenon
    <3> QED
      BY <1>7, <3>1
  <2>2. \A p \in ToSet(s) : p < q
    BY <1>3
  <2>3. q \notin ToSet(s)
    BY <2>2 DEF Spot
  <2> QED
    BY <1>3, <2>1, <2>2, <2>3 DEF Shows
<1> QED
  BY <1>1, <1>6, <1>7

(* A description that was cut stays right when words are added. *)
LEMMA CutMore ==
    ASSUME NEW d, NEW words, IsCut(d), Describes(d, words), NEW q \in Spot,
           \A p \in words : p \in Spot /\ p < q
    PROVE  Describes(d, words \cup {q})
<1>1. PICK s : s = Front(d)
  OBVIOUS
<1>2. Shows(s, words) /\ \E p \in words \ ToSet(s) : html[p] # "img"
  BY <1>1 DEF Describes
<1>3. Len(s) = MaxDescription /\ ToSet(s) \subseteq words
  BY <1>2 DEF Shows
<1>4. \A p \in ToSet(s) : p < q
  BY <1>3
<1>5. Shows(s, words \cup {q})
  BY <1>2, <1>3, <1>4 DEF Shows
<1>6. \E p \in (words \cup {q}) \ ToSet(s) : html[p] # "img"
  BY <1>2
<1> QED
  BY <1>1, <1>5, <1>6 DEF Describes

-----------------------------------------------------------------------------
(* With what following is turned off, and with what on again. *)
FollowOff(w) ==
    IF w = "noindex" THEN {"noindex"}
    ELSE IF w = "style" THEN {"style"}
    ELSE IF w = "script" THEN {"script"}
    ELSE IF w = "meta_htdig" THEN {"htdig-noindex"} ELSE {"robots nofollow", "robots none"}

FollowOn(w) == IF w = "noindex" THEN {"/noindex", "noindex follow"} ELSE OnBy(w)

BlockersAt(n) == {w \in Hiders : OffAt(FollowOff(w), FollowOn(w), n)}

(* The flags say what is followed. *)
LEMMA FollowedAt ==
    ASSUME Ordered, NEW n \in 1..Len(stripped)
    PROVE  IsOn(FollowSwitches, stripped[n]) <=> BlockersAt(n - 1) = {}
<1>1. IsOn(FollowSwitches, stripped[n]) <=> \A s \in FollowSwitches : ~OffAt(s.off, s.on, n - 1)
  BY OnAt
<1>2. (\A s \in FollowSwitches : ~OffAt(s.off, s.on, n - 1))
          <=> \A w \in Hiders : ~OffAt(FollowOff(w), FollowOn(w), n - 1)
  <2> DEFINE Off(off, on) == ~OffAt(off, on, n - 1)
             All == /\ Off({"noindex"}, {"/noindex", "noindex follow"})
                    /\ Off({"style"}, {"/style"}) /\ Off({"script"}, {"/script"})
                    /\ Off({"htdig-noindex"}, {"htdig-index"})
                    /\ Off({"robots nofollow", "robots none"}, {})
  <2> HIDE DEF Off
  <2>1. (\A s \in FollowSwitches : Off(s.off, s.on)) <=> All
    <3> DEFINE a == Switch({"noindex"}, {"/noindex", "noindex follow"})
               b == Switch({"style"}, {"/style"})
               c == Switch({"script"}, {"/script"})
               d == Switch({"htdig-noindex"}, {"htdig-index"})
               e == Switch({"robots nofollow", "robots none"}, {})
    <3>1. /\ a.off = {"noindex"} /\ a.on = {"/noindex", "noindex follow"}
          /\ b.off = {"style"} /\ b.on = {"/style"}
          /\ c.off = {"script"} /\ c.on = {"/script"}
          /\ d.off = {"htdig-noindex"} /\ d.on = {"htdig-index"}
          /\ e.off = {"robots nofollow", "robots none"} /\ e.on = {}
      BY SwitchIs
    <3>2. FollowSwitches = {a, b, c, d, e}
      BY DEF FollowSwitches
    <3> HIDE DEF a, b, c, d, e
    <3>3. (\A s \in FollowSwitches : Off(s.off, s.on))
              <=> /\ Off(a.off, a.on) /\ Off(b.off, b.on) /\ Off(c.off, c.on)
                  /\ Off(d.off, d.on) /\ Off(e.off, e.on)
      BY <3>2
    <3> QED
      BY <3>1, <3>3
  <2>2. (\A w \in Hiders : Off(FollowOff(w), FollowOn(w))) <=> All
    BY DEF Hiders, FollowOff, FollowOn, OnBy
  <2> QED
    BY <2>1, <2>2 DEF Off
<1> QED
  BY <1>1, <1>2 DEF BlockersAt

(* What turns indexing or following off or on, by name. *)
LEMMA SwitchesAre ==
    Switches = {"noindex", "noindex follow", "/noindex", "style", "/style", "script", "/script",
                "htdig-noindex", "htdig-index", "robots noindex", "robots none", "robots nofollow"}
<1> DEFINE a == Switch({"noindex"}, {"/noindex", "noindex follow"})
           b == Switch({"style"}, {"/style"})
           c == Switch({"script"}, {"/script"})
           d == Switch({"htdig-noindex"}, {"htdig-index"})
           e == Switch({"robots nofollow", "robots none"}, {})
           f == Switch({"noindex", "noindex follow"}, {"/noindex"})
           g == Switch({"robots noindex", "robots none"}, {})
<1>1. /\ a.off = {"noindex"} /\ a.on = {"/noindex", "noindex follow"}
      /\ b.off = {"style"} /\ b.on = {"/style"}
      /\ c.off = {"script"} /\ c.on = {"/script"}
      /\ d.off = {"htdig-noindex"} /\ d.on = {"htdig-index"}
      /\ e.off = {"robots nofollow", "robots none"} /\ e.on = {}
      /\ f.off = {"noindex", "noindex follow"} /\ f.on = {"/noindex"}
      /\ g.off = {"robots noindex", "robots none"} /\ g.on = {}
  BY SwitchIs
<1>2. IndexSwitches \cup FollowSwitches = {a, b, c, d, e, f, g}
  BY DEF IndexSwitches, FollowSwitches
<1> HIDE DEF a, b, c, d, e, f, g
<1>3. Switches = a.off \cup a.on \cup b.off \cup b.on \cup c.off \cup c.on \cup d.off \cup d.on
                 \cup e.off \cup e.on \cup f.off \cup f.on \cup g.off \cup g.on
  BY <1>2 DEF Switches
<1> QED
  BY <1>1, <1>3

(* Only they do. *)
LEMMA OnlySwitches ==
    \A w \in Hiders : FollowOff(w) \subseteq Switches /\ FollowOn(w) \subseteq Switches
BY SwitchesAre DEF Hiders, FollowOff, FollowOn, OnBy

(* Who keeps the link after the next token from being followed. *)
LEMMA BlockersNext ==
    ASSUME NEW n \in Nat
    PROVE  /\ BlockersAt(n + 1) = {w \in BlockersAt(n) : html[stripped[n + 1]] \notin FollowOn(w)}
                                    \cup {w \in Hiders : html[stripped[n + 1]] \in FollowOff(w)}
           /\ html[stripped[n + 1]] \notin Switches => BlockersAt(n + 1) = BlockersAt(n)
<1>1. BlockersAt(n + 1) = {w \in BlockersAt(n) : html[stripped[n + 1]] \notin FollowOn(w)}
                            \cup {w \in Hiders : html[stripped[n + 1]] \in FollowOff(w)}
  BY OffNext DEF BlockersAt
<1>2. BlockersAt(n) \subseteq Hiders
  BY DEF BlockersAt
<1> QED
  BY <1>1, <1>2, OnlySwitches

-----------------------------------------------------------------------------
LinkTexts == WordTokens \cup {"img"}

URLTokens == {"a", "frame", "refresh"}

(* What a token does to the link: it is shown, it does nothing, it is the  *)
(* one too many, it opens, closes or is another. *)
ShowWord ==
    /\ html[Place] \in LinkTexts /\ inRef /\ Len(description) < MaxDescription
    /\ description' = Append(description, Place)
    /\ inRef' = inRef /\ href' = href /\ gotHrefs' = gotHrefs

PassBy ==
    /\ html[Place] \notin {"a", "/a", "frame", "refresh"}
    /\ html[Place] \in LinkTexts =>
            ~inRef \/ (html[Place] = "img" /\ ~(Len(description) < MaxDescription))
    /\ description' = description
    /\ inRef' = inRef /\ href' = href /\ gotHrefs' = gotHrefs

CutLink ==
    /\ html[Place] \in WordTokens /\ inRef /\ ~(Len(description) < MaxDescription)
    /\ CutDescription

OpenLink ==
    /\ html[Place] = "a"
    /\ IF inRef THEN GotHref(href, description) ELSE gotHrefs' = gotHrefs
    /\ href' = Place /\ inRef' = TRUE /\ description' = <<>>

CloseLink ==
    /\ html[Place] = "/a"
    /\ IF inRef THEN GotHref(href, description) ELSE gotHrefs' = gotHrefs
    /\ href' = href /\ inRef' = FALSE /\ description' = description

OtherLink ==
    /\ html[Place] \in {"frame", "refresh"}
    /\ GotHref(Place, <<>>) \/ gotHrefs' = gotHrefs
    /\ href' \in {href, Place} /\ (inRef' = inRef \/ inRef' = FALSE) /\ description' = description

LinkStep ==
    /\ spot < Len(stripped) /\ spot' = spot + 1
    /\ gotHeads' = gotHeads
    /\ nofollow' = {w \in nofollow : html[Place] \notin FollowOn(w)}
                        \cup {w \in Hiders : html[Place] \in FollowOff(w)}
    /\ ShowWord \/ PassBy \/ CutLink \/ OpenLink \/ CloseLink \/ OtherLink

(* Every step but the last one passes a token. *)
LEMMA LinkSteps ==
    ASSUME HTMLNext, nofollow \subseteq Hiders, description \in Seq(Spot)
    PROVE  LinkStep \/ GotHead
<1>0. Len(description) \in Nat /\ MaxDescription \in Nat
  BY HTMLAssumption, LenProperties
<1> DEFINE Followed == nofollow' = {w \in nofollow : html[Place] \notin FollowOn(w)}
                                        \cup {w \in Hiders : html[Place] \in FollowOff(w)}
           Passed == spot < Len(stripped) /\ spot' = spot + 1 /\ gotHeads' = gotHeads
           Linked == ShowWord \/ PassBy \/ CutLink \/ OpenLink \/ CloseLink \/ OtherLink
<1>1. ASSUME html[Place] \notin Switches, nofollow' = nofollow PROVE Followed
  BY <1>1, OnlySwitches
<1>2. CASE Word
  <2>1. Passed /\ html[Place] \in WordTokens /\ nofollow' = nofollow
    BY <1>2 DEF Word, Take, flagVars
  <2>2. Followed
    BY <1>1, <2>1, SwitchesAre DEF WordTokens
  <2>3. CASE inRef /\ ~(Len(description) < MaxDescription)
    <3>1. Len(description) >= MaxDescription
      BY <1>0, <2>3
    <3>2. CutLink
      BY <1>2, <2>1, <2>3, <3>1 DEF Word, CutLink
    <3> QED
      BY <2>1, <2>2, <3>2 DEF LinkStep
  <2>4. CASE ~(inRef /\ ~(Len(description) < MaxDescription))
    <3>1. ~(inRef /\ Len(description) >= MaxDescription)
      BY <1>0, <2>4
    <3>2. /\ description' = IF inRef THEN Append(description, Place) ELSE description
          /\ inRef' = inRef /\ href' = href /\ gotHrefs' = gotHrefs
      BY <1>2, <3>1 DEF Word
    <3>3. ShowWord \/ PassBy
      BY <2>1, <2>4, <3>2 DEF ShowWord, PassBy, LinkTexts, WordTokens
    <3> QED
      BY <2>1, <2>2, <3>3 DEF LinkStep
  <2> QED
    BY <2>3, <2>4
<1>3. CASE Img
  <2>1. Passed /\ html[Place] = "img" /\ nofollow' = nofollow
    BY <1>3 DEF Img, Take, flagVars
  <2>2. Followed
    BY <1>1, <2>1, SwitchesAre
  <2>3. /\ description' = IF inRef /\ Len(description) < MaxDescription
                          THEN Append(description, Place) ELSE description
        /\ inRef' = inRef /\ href' = href /\ gotHrefs' = gotHrefs
    BY <1>3 DEF Img
  <2>4. ShowWord \/ PassBy
    BY <2>1, <2>3 DEF ShowWord, PassBy, LinkTexts, WordTokens
  <2> QED
    BY <2>1, <2>2, <2>4 DEF LinkStep
<1>4. CASE Other \/ OpenTitle \/ CloseTitle \/ Heading \/ MetaKeywords
  <2>1. /\ Passed /\ nofollow' = nofollow
        /\ html[Place] \in {"-->", "p", "title", "/title", "h1", "/h1", "keywords"}
        /\ description' = description /\ inRef' = inRef /\ href' = href /\ gotHrefs' = gotHrefs
    BY <1>4 DEF Other, OpenTitle, CloseTitle, Heading, MetaKeywords, Take, flagVars, refVars
  <2>2. Followed
    BY <1>1, <2>1, SwitchesAre
  <2>3. PassBy
    BY <2>1 DEF PassBy, LinkTexts, WordTokens
  <2> QED
    BY <2>1, <2>2, <2>3 DEF LinkStep
<1>5. CASE Anchor
  <2>1. Passed /\ nofollow' = nofollow /\ OpenLink
    BY <1>5 DEF Anchor, OpenLink, Take, flagVars
  <2>2. Followed
    BY <1>1, <2>1, SwitchesAre DEF OpenLink
  <2> QED
    BY <2>1, <2>2 DEF LinkStep
<1>6. CASE CloseAnchor
  <2>1. Passed /\ nofollow' = nofollow /\ CloseLink
    BY <1>6 DEF CloseAnchor, CloseLink, Take, flagVars
  <2>2. Followed
    BY <1>1, <2>1, SwitchesAre DEF CloseLink
  <2> QED
    BY <2>1, <2>2 DEF LinkStep
<1>7. CASE Frame \/ Refresh
  <2>1. Passed /\ nofollow' = nofollow /\ OtherLink
    BY <1>7 DEF Frame, Refresh, OtherLink, Take, flagVars
  <2>2. Followed
    BY <1>1, <2>1, SwitchesAre DEF OtherLink
  <2> QED
    BY <2>1, <2>2 DEF LinkStep
<1>8. CASE OpenElement \/ NoindexFollow \/ CloseElement \/ MetaHtdig \/ MetaRobots
  <2>1. Passed /\ html[Place] \in Switches /\ UnchangedByFlags
    <3>1. CASE CloseElement
      <4>1. PICK e \in Elements : Take({EndOf[e]})
        BY <3>1 DEF CloseElement
      <4>2. EndOf[e] \in Switches
        BY EndsAre, SwitchesAre
      <4> QED
        BY <3>1, <4>1, <4>2 DEF CloseElement, Take
    <3> QED
      BY <1>8, <3>1, SwitchesAre DEF OpenElement, NoindexFollow, MetaHtdig, MetaRobots, Take, Elements
  <2>2. PassBy
    BY <2>1, SwitchesAre DEF PassBy, LinkTexts, WordTokens, UnchangedByFlags, refVars
  <2>3. Followed
    <3>1. CASE OpenElement
      BY <3>1 DEF OpenElement, Take, Elements, TurnOff, FollowOn, FollowOff, OnBy, Hiders
    <3>2. CASE NoindexFollow
      BY <3>2 DEF NoindexFollow, Take, FollowOn, FollowOff, OnBy, Hiders
    <3>3. CASE CloseElement
      <4>1. PICK e \in Elements : Take({EndOf[e]}) /\ TurnOn(e)
        BY <3>3 DEF CloseElement
      <4>2. html[Place] = EndOf[e] /\ nofollow' = nofollow \ {e}
        BY <4>1 DEF Take, TurnOn
      <4>3. /\ \A w \in Hiders : EndOf[e] \in FollowOn(w) <=> w = e
            /\ \A w \in Hiders : EndOf[e] \notin FollowOff(w)
        BY EndsAre DEF FollowOn, FollowOff, OnBy, Hiders
      <4> QED
        BY <4>2, <4>3
    <3>4. CASE MetaHtdig
      BY <3>4 DEF MetaHtdig, Take, TurnOn, TurnOff, FollowOn, FollowOff, OnBy, Hiders
    <3>5. CASE MetaRobots
      BY <3>5 DEF MetaRobots, Take, FollowOn, FollowOff, OnBy, Hiders
    <3> QED
      BY <1>8, <3>1, <3>2, <3>3, <3>4, <3>5
  <2> QED
    BY <2>1, <2>2, <2>3 DEF LinkStep
<1>9. CASE GotHead
  BY <1>9
<1> QED
  BY <1>2, <1>3, <1>4, <1>5, <1>6, <1>7, <1>8, <1>9 DEF HTMLNext

-----------------------------------------------------------------------------
(* The places that g has for the URL at i. *)
Given(g, i) == {k \in 1..Len(g) : g[k].url = i}

(* What LinksOnce says of a link, when following is off for who. *)
Told(g, i, words, who) ==
    IF who = {} THEN \E k \in 1..Len(g) : Given(g, i) = {k} /\ Describes(g[k].description, words)
                ELSE Given(g, i) = {}

(* The same of one that was cut. *)
ToldCut(g, i, words, who) ==
    IF who = {} THEN \E k \in 1..Len(g) : /\ Given(g, i) = {k} /\ IsCut(g[k].description)
                                          /\ Describes(g[k].description, words)
                ELSE Given(g, i) = {}

LinksType == Seq([url : Nat, description : Seq(Nat)])

(* The n-th token may be passed without an end to the link at the m-th. *)
Quiet(m, n) == \A k \in m + 1..n : html[stripped[k]] \notin {"a", "/a", "frame", "refresh"} \cup Switches

WordsIn(m, n) == {q \in {stripped[k] : k \in m + 1..n} : html[q] \in LinkTexts}

Ends(m, e) == Quiet(m, e - 1) /\ html[stripped[e]] \in {"a", "/a"}

(* A link is open, and its description shows its words so far. *)
OpenAt(m, n, ref, link, d, g) ==
    /\ ref /\ link = stripped[m] /\ Given(g, stripped[m]) = {}
    /\ Shows(d, WordsIn(m, n))
    /\ \A q \in WordsIn(m, n) \ ToSet(d) : html[q] = "img"

(* The m-th token, an <a>, after n tokens. *)
LinkAt(m, n, ref, link, d, g, who) ==
    /\ Quiet(m, n) =>
          /\ who = BlockersAt(m - 1)
          /\ \/ OpenAt(m, n, ref, link, d, g)
             \/ ~ref /\ ToldCut(g, stripped[m], WordsIn(m, n), who)
    /\ \A e \in m + 1..n :
          Ends(m, e) => /\ ~(ref /\ link = stripped[m])
                        /\ Told(g, stripped[m], WordsIn(m, e - 1), BlockersAt(m - 1))

IsURL(i, n) == i \in Places(n) /\ html[i] \in URLTokens

(* Links are given for URLs only. *)
URLsAt(n, ref, link, d, g) ==
    /\ ref \in BOOLEAN /\ d \in Seq(Spot) /\ g \in LinksType
    /\ ref => IsURL(link, n)
    /\ \A k \in 1..Len(g) : IsURL(g[k].url, n)

LinksAt(n, ref, link, d, g, who) ==
    /\ who = BlockersAt(n)
    /\ URLsAt(n, ref, link, d, g)
    /\ \A m \in 1..n : html[stripped[m]] = "a" => LinkAt(m, n, ref, link, d, g, who)

-----------------------------------------------------------------------------
(* A link is given for another place. *)
LEMMA OtherGiven ==
    ASSUME NEW g \in LinksType, NEW r \in [url : Nat, description : Seq(Nat)], NEW i, r.url # i
    PROVE  LET h == Append(g, r)
           IN /\ Given(h, i) = Given(g, i)
              /\ \A words, who : /\ Told(g, i, words, who) => Told(h, i, words, who)
                                 /\ ToldCut(g, i, words, who) => ToldCut(h, i, words, who)
<1> DEFINE R == [url : Nat, description : Seq(Nat)]
           h == Append(g, r)
<1>1. g \in Seq(R) /\ r \in R
  BY DEF LinksType
<1> HIDE DEF R
<1>2. /\ Len(g) \in Nat /\ Len(h) = Len(g) + 1
      /\ \A k \in 1..Len(g) : h[k] = g[k]
      /\ h[Len(g) + 1] = r
  BY <1>1, Appended
<1> HIDE DEF h
<1>3. Given(h, i) = Given(g, i)
  BY <1>2 DEF Given
<1>4. \A k \in 1..Len(g) : k \in 1..Len(h) /\ h[k] = g[k]
  BY <1>2
<1>5. \A words, who : Told(g, i, words, who) => Told(h, i, words, who)
  BY <1>3, <1>4 DEF Told
<1>6. \A words, who : ToldCut(g, i, words, who) => ToldCut(h, i, words, who)
  BY <1>3, <1>4 DEF ToldCut
<1> QED
  BY <1>3, <1>5, <1>6 DEF h

(* A link is given for the first time. *)
LEMMA FirstGiven ==
    ASSUME NEW g \in LinksType, NEW i \in Nat, NEW d \in Seq(Nat), Given(g, i) = {},
           NEW words, Describes(d, words)
    PROVE  LET h == Append(g, [url |-> i, description |-> d])
           IN Told(h, i, words, {}) /\ (IsCut(d) => ToldCut(h, i, words, {}))
<1> DEFINE R == [url : Nat, description : Seq(Nat)]
<1>1. PICK r : r = [url |-> i, description |-> d]
  OBVIOUS
<1>2. r \in R /\ r.url = i /\ r.description = d
  BY <1>1
<1>3. g \in Seq(R)
  BY DEF LinksType
<1> HIDE DEF R
<1>4. PICK h : h = Append(g, r)
  OBVIOUS
<1>5. /\ Len(g) \in Nat /\ Len(h) = Len(g) + 1
      /\ \A k \in 1..Len(g) : h[k] = g[k]
      /\ h[Len(g) + 1] = r
  BY <1>2, <1>3, <1>4, Appended
<1>6. Given(h, i) = {Len(h)} /\ Len(h) \in 1..Len(h) /\ h[Len(h)] = r
  <2>1. Len(h) \in 1..Len(h) /\ h[Len(h)] = r
    BY <1>5
  <2>2. \A k \in 1..Len(g) : g[k].url # i
    BY DEF Given
  <2>3. \A k \in 1..Len(h) : h[k].url = i <=> k = Len(h)
    BY <1>2, <1>5, <2>1, <2>2
  <2> QED
    BY <2>1, <2>3 DEF Given
<1>7. Told(h, i, words, {})
  BY <1>2, <1>6 DEF Told
<1>8. IsCut(d) => ToldCut(h, i, words, {})
  BY <1>2, <1>6 DEF ToldCut
<1> QED
  BY <1>1, <1>4, <1>7, <1>8

(* What may be put into the list of links. *)
LEMMA GotType ==
    ASSUME NEW g \in LinksType, NEW i \in Nat, NEW d \in Seq(Nat)
    PROVE  LET h == Append(g, [url |-> i, description |-> d])
           IN /\ h \in LinksType
              /\ \A k \in 1..Len(h) : (k \in 1..Len(g) /\ h[k] = g[k]) \/ h[k].url = i
<1> DEFINE R == [url : Nat, description : Seq(Nat)]
<1>1. PICK r : r = [url |-> i, description |-> d]
  OBVIOUS
<1>2. r \in R /\ r.url = i
  BY <1>1
<1>3. g \in Seq(R)
  BY DEF LinksType
<1> HIDE DEF R
<1>4. PICK h : h = Append(g, r)
  OBVIOUS
<1>5. /\ h \in Seq(R) /\ Len(g) \in Nat /\ Len(h) = Len(g) + 1
      /\ \A k \in 1..Len(g) : h[k] = g[k]
      /\ h[Len(g) + 1] = r
  BY <1>2, <1>3, <1>4, Appended
<1>6. h \in LinksType
  BY <1>5 DEF R, LinksType
<1>7. \A k \in 1..Len(h) : (k \in 1..Len(g) /\ h[k] = g[k]) \/ h[k].url = i
  BY <1>2, <1>5
<1> QED
  BY <1>1, <1>4, <1>6, <1>7

-----------------------------------------------------------------------------
(* One token further on. *)
LEMMA QuietNext ==
    ASSUME NEW m \in Nat, NEW n \in Nat, m <= n
    PROVE  /\ Quiet(m, n + 1) <=> /\ Quiet(m, n)
                                  /\ html[stripped[n + 1]] \notin {"a", "/a", "frame", "refresh"} \cup Switches
           /\ WordsIn(m, n + 1) = WordsIn(m, n) \cup (IF html[stripped[n + 1]] \in LinkTexts
                                                      THEN {stripped[n + 1]} ELSE {})
           /\ Ends(m, n + 1) <=> Quiet(m, n) /\ html[stripped[n + 1]] \in {"a", "/a"}
           /\ Quiet(n, n) /\ WordsIn(n, n) = {}
<1>1. m + 1..n + 1 = (m + 1..n) \cup {n + 1}
  OBVIOUS
<1>2. (n + 1) - 1 = n /\ n + 1..n = {}
  OBVIOUS
<1> QED
  BY <1>1, <1>2 DEF Quiet, WordsIn, Ends

(* The words of a link are before the next token. *)
LEMMA WordsBefore ==
    ASSUME Ordered, stripped \in Seq(Spot), NEW m \in Nat, NEW n \in Nat, n < Len(stripped)
    PROVE  /\ stripped[n + 1] \in Spot
           /\ \A q \in WordsIn(m, n) : q \in Spot /\ q < stripped[n + 1]
           /\ \A q \in Places(n) : q \in Spot /\ q < stripped[n + 1]
<1>1. Len(stripped) \in Nat /\ n + 1 \in 1..Len(stripped)
  BY LenProperties
<1>2. \A k \in 1..Len(stripped) : stripped[k] \in Spot
  BY ElementOfSeq
<1>3. ASSUME NEW k \in 1..n PROVE stripped[k] \in Spot /\ stripped[k] < stripped[n + 1]
  <2>1. k \in 1..Len(stripped) /\ k < n + 1
    BY <1>1
  <2> QED
    BY <1>1, <1>2, <2>1, PlaceOrder
<1>4. m + 1..n \subseteq 1..n
  OBVIOUS
<1> QED
  BY <1>1, <1>2, <1>3, <1>4 DEF WordsIn, Places

(* The document and what depends on it only. *)
LEMMA SameLinks ==
    ASSUME html' = html, stripped' = stripped
    PROVE  \A n, ref, link, d, g, who : LinksAt(n, ref, link, d, g, who)' <=> LinksAt(n, ref, link, d, g, who)
<1>1. \A n : BlockersAt(n)' = BlockersAt(n)
  BY DEF BlockersAt, OffAt
<1>2. \A m, n : Quiet(m, n)' <=> Quiet(m, n)
  BY DEF Quiet
<1>3. \A m, n : WordsIn(m, n)' = WordsIn(m, n)
  BY DEF WordsIn
<1>4. \A d, words : Describes(d, words)' <=> Describes(d, words)
  BY DEF Describes
<1>5. \A g, i, words, who : Told(g, i, words, who)' <=> Told(g, i, words, who)
  BY <1>4 DEF Told
<1>6. \A g, i, words, who : ToldCut(g, i, words, who)' <=> ToldCut(g, i, words, who)
  BY <1>4 DEF ToldCut
<1>7. \A m, n : Ends(m, n)' <=> Ends(m, n)
  BY <1>2 DEF Ends
<1>8. \A m, n, ref, link, d, g : OpenAt(m, n, ref, link, d, g)' <=> OpenAt(m, n, ref, link, d, g)
  BY <1>3 DEF OpenAt
<1>9. \A m, n, ref, link, d, g, who :
         LinkAt(m, n, ref, link, d, g, who)' <=> LinkAt(m, n, ref, link, d, g, who)
  BY <1>1, <1>2, <1>3, <1>5, <1>6, <1>7, <1>8 DEF LinkAt
<1>10. \A n, ref, link, d, g : URLsAt(n, ref, link, d, g)' <=> URLsAt(n, ref, link, d, g)
  BY DEF URLsAt, IsURL, Places
<1> QED
  BY <1>1, <1>9, <1>10 DEF LinksAt

-----------------------------------------------------------------------------
(* The links, one token after the other.                                   *)

LinksInv ==
    /\ stripped \in Seq(Spot)
    /\ LinksAt(spot, inRef, href, description, gotHrefs, nofollow)

InText == Ordered /\ spot \in 0..Len(stripped)

(* What the step has at hand. *)
LEMMA AtHand ==
    ASSUME InText, LinksInv, LinkStep
    PROVE  /\ spot \in Nat /\ spot < Len(stripped) /\ Place = stripped[spot + 1] /\ Place \in Spot
           /\ Place \in Nat
           /\ Places(spot + 1) = Places(spot) \cup {Place}
           /\ \A q \in Places(spot) : q \in Spot /\ q \in Nat /\ q < Place /\ q # Place
           /\ inRef \in BOOLEAN /\ description \in Seq(Spot) /\ description \in Seq(Nat)
           /\ gotHrefs \in LinksType
           /\ inRef => IsURL(href, spot) /\ href \in Nat
           /\ Append(description, Ellipsis) \in Seq(Nat)
           /\ <<>> \in Seq(Nat) /\ <<>> \in Seq(Spot)
<1>1. Ordered /\ spot \in 0..Len(stripped) /\ spot < Len(stripped)
  BY DEF InText, LinkStep
<1>2. /\ spot \in Nat /\ spot + 1 \in 1..Len(stripped) /\ (spot + 1) - 1 = spot
      /\ Place = stripped[spot + 1]
  BY <1>1, PlaceIs
<1>3. /\ Place \in Spot /\ \A q \in Places(spot) : q \in Spot /\ q < Place
  BY <1>1, <1>2, WordsBefore DEF LinksInv
<1>4. Places(spot + 1) = Places(spot) \cup {Place}
  BY <1>1, <1>2, PlacesTo
<1>5. /\ inRef \in BOOLEAN /\ description \in Seq(Spot) /\ gotHrefs \in LinksType
      /\ inRef => IsURL(href, spot)
  BY DEF LinksInv, LinksAt, URLsAt
<1>6. Spot \subseteq Nat /\ Ellipsis \in Nat
  BY DEF Spot, Ellipsis
<1>7. description \in Seq(Nat)
  BY <1>5, <1>6, SeqMonotonic
<1>8. Append(description, Ellipsis) \in Seq(Nat)
  BY <1>6, <1>7, Appended
<1>9. \A q \in Places(spot) : q # Place
  BY <1>3 DEF Spot
<1> QED
  BY <1>1, <1>2, <1>3, <1>4, <1>5, <1>6, <1>7, <1>8, <1>9, EmptySeq DEF IsURL

(* Links are given for URLs only. *)
LEMMA URLsStep ==
    ASSUME InText, LinksInv, LinkStep
    PROVE  URLsAt(spot + 1, inRef', href', description', gotHrefs')
<1>1. \A i : IsURL(i, spot) => IsURL(i, spot + 1)
  BY AtHand DEF IsURL
<1>2. \A k \in 1..Len(gotHrefs) : IsURL(gotHrefs[k].url, spot)
  BY DEF LinksInv, LinksAt, URLsAt
<1>3. html[Place] \in URLTokens => IsURL(Place, spot + 1)
  BY AtHand DEF IsURL
<1>4. ASSUME NEW u \in Nat, IsURL(u, spot + 1), NEW d \in Seq(Nat), GotHref(u, d)
      PROVE  gotHrefs' \in LinksType /\ \A k \in 1..Len(gotHrefs') : IsURL(gotHrefs'[k].url, spot + 1)
  <2>1. CASE gotHrefs' = gotHrefs
    BY <1>1, <1>2, <2>1, AtHand
  <2>2. CASE gotHrefs' = Append(gotHrefs, [url |-> u, description |-> d])
    <3>1. /\ gotHrefs' \in LinksType
          /\ \A k \in 1..Len(gotHrefs') :
                (k \in 1..Len(gotHrefs) /\ gotHrefs'[k] = gotHrefs[k]) \/ gotHrefs'[k].url = u
      BY <2>2, AtHand, GotType
    <3> QED
      BY <1>1, <1>2, <1>4, <3>1
  <2> QED
    BY <1>4, <2>1, <2>2 DEF GotHref
<1>5. ASSUME gotHrefs' = gotHrefs
      PROVE  gotHrefs' \in LinksType /\ \A k \in 1..Len(gotHrefs') : IsURL(gotHrefs'[k].url, spot + 1)
  BY <1>1, <1>2, <1>5, AtHand
<1>6. CASE ShowWord
  <2>1. description' \in Seq(Spot)
    BY <1>6, AtHand, Appended DEF ShowWord
  <2> QED
    BY <1>1, <1>5, <1>6, <2>1, AtHand DEF ShowWord, URLsAt
<1>7. CASE PassBy
  BY <1>1, <1>5, <1>7, AtHand DEF PassBy, URLsAt
<1>8. CASE CutLink
  <2>1. /\ GotHref(href, Append(description, Ellipsis)) /\ inRef
        /\ inRef' = FALSE /\ description' = <<>>
    BY <1>8 DEF CutLink, CutDescription
  <2>2. href \in Nat /\ IsURL(href, spot + 1)
    BY <1>1, <2>1, AtHand
  <2>3. gotHrefs' \in LinksType /\ \A k \in 1..Len(gotHrefs') : IsURL(gotHrefs'[k].url, spot + 1)
    BY <1>4, <2>1, <2>2, AtHand
  <2> QED
    BY <2>1, <2>3, AtHand DEF URLsAt
<1>9. CASE OpenLink \/ CloseLink
  <2>1. gotHrefs' \in LinksType /\ \A k \in 1..Len(gotHrefs') : IsURL(gotHrefs'[k].url, spot + 1)
    <3>1. CASE inRef
      <4>1. GotHref(href, description)
        BY <1>9, <3>1 DEF OpenLink, CloseLink
      <4>2. href \in Nat /\ IsURL(href, spot + 1)
        BY <1>1, <3>1, AtHand
      <4> QED
        BY <1>4, <4>1, <4>2, AtHand
    <3>2. CASE ~inRef
      BY <1>5, <1>9, <3>2 DEF OpenLink, CloseLink
    <3> QED
      BY <3>1, <3>2
  <2>2. CASE OpenLink
    BY <1>3, <2>1, <2>2, AtHand DEF OpenLink, URLsAt, URLTokens
  <2>3. CASE CloseLink
    BY <2>1, <2>3, AtHand DEF CloseLink, URLsAt
  <2> QED
    BY <1>9, <2>2, <2>3
<1>10. CASE OtherLink
  <2>1. IsURL(Place, spot + 1)
    BY <1>3, <1>10 DEF OtherLink, URLTokens
  <2>2. gotHrefs' \in LinksType /\ \A k \in 1..Len(gotHrefs') : IsURL(gotHrefs'[k].url, spot + 1)
    BY <1>4, <1>5, <1>10, <2>1, AtHand DEF OtherLink
  <2>3. inRef' \in BOOLEAN /\ (inRef' => inRef) /\ href' \in {href, Place}
    <3>1. (inRef' = inRef \/ inRef' = FALSE) /\ href' \in {href, Place}
      BY <1>10 DEF OtherLink
    <3>2. inRef \in BOOLEAN
      BY AtHand
    <3>3. CASE inRef' = inRef
      BY <3>1, <3>2, <3>3, Zenon
    <3>4. CASE inRef' = FALSE
      BY <3>1, <3>4, Zenon
    <3> QED
      BY <3>1, <3>3, <3>4
  <2>4. inRef' => IsURL(href', spot + 1)
    BY <1>1, <2>1, <2>3, AtHand
  <2> QED
    BY <1>10, <2>2, <2>3, <2>4, AtHand DEF OtherLink, URLsAt
<1> QED
  BY <1>6, <1>7, <1>8, <1>9, <1>10 DEF LinkStep

(* What was given for a place that is not open stays as it is. *)
LEMMA GivenStays ==
    ASSUME InText, LinksInv, LinkStep, NEW i, i # Place, ~(inRef /\ href = i)
    PROVE  /\ ~(inRef' /\ href' = i)
           /\ Given(gotHrefs', i) = Given(gotHrefs, i)
           /\ \A words, who : /\ Told(gotHrefs, i, words, who) => Told(gotHrefs', i, words, who)
                              /\ ToldCut(gotHrefs, i, words, who) => ToldCut(gotHrefs', i, words, who)
<1> DEFINE Stays == /\ Given(gotHrefs', i) = Given(gotHrefs, i)
                    /\ \A words, who :
                          /\ Told(gotHrefs, i, words, who) => Told(gotHrefs', i, words, who)
                          /\ ToldCut(gotHrefs, i, words, who) => ToldCut(gotHrefs', i, words, who)
<1>1. ASSUME gotHrefs' = gotHrefs PROVE Stays
  BY <1>1
<1>2. ASSUME NEW u \in Nat, u # i, NEW d \in Seq(Nat), GotHref(u, d) PROVE Stays
  <2>1. CASE gotHrefs' = gotHrefs
    BY <1>1, <2>1
  <2>2. CASE gotHrefs' = Append(gotHrefs, [url |-> u, description |-> d])
    <3>1. PICK r : r = [url |-> u, description |-> d]
      OBVIOUS
    <3>2. r \in [url : Nat, description : Seq(Nat)] /\ r.url # i
      BY <1>2, <3>1
    <3>3. gotHrefs' = Append(gotHrefs, r)
      BY <2>2, <3>1
    <3> QED
      BY <3>2, <3>3, AtHand, OtherGiven
  <2> QED
    BY <1>2, <2>1, <2>2 DEF GotHref
<1> HIDE DEF Stays
<1>3. CASE ShowWord \/ PassBy
  BY <1>1, <1>3 DEF ShowWord, PassBy, Stays
<1>4. CASE CutLink
  <2>1. href \in Nat /\ href # i /\ GotHref(href, Append(description, Ellipsis)) /\ inRef' = FALSE
    BY <1>4, AtHand DEF CutLink, CutDescription
  <2>2. Stays
    BY <1>2, <2>1, AtHand
  <2> QED
    BY <2>1, <2>2 DEF Stays
<1>5. CASE OpenLink \/ CloseLink
  <2>1. ~(inRef' /\ href' = i)
    BY <1>5 DEF OpenLink, CloseLink
  <2>2. CASE inRef
    <3>1. href \in Nat /\ href # i /\ GotHref(href, description)
      BY <1>5, <2>2, AtHand DEF OpenLink, CloseLink
    <3>2. Stays
      BY <1>2, <3>1, AtHand
    <3> QED
      BY <2>1, <3>2 DEF Stays
  <2>3. CASE ~inRef
    <3>1. Stays
      BY <1>1, <1>5, <2>3 DEF OpenLink, CloseLink
    <3> QED
      BY <2>1, <3>1 DEF Stays
  <2> QED
    BY <2>2, <2>3
<1>6. CASE OtherLink
  <2>1. ~(inRef' /\ href' = i)
    BY <1>6 DEF OtherLink
  <2>2. Stays
    BY <1>1, <1>2, <1>6, AtHand DEF OtherLink
  <2> QED
    BY <2>1, <2>2 DEF Stays
<1> QED
  BY <1>3, <1>4, <1>5, <1>6 DEF LinkStep

(* The link that is open is reported. *)
LEMMA Reported ==
    ASSUME InText, LinksInv, LinkStep, NEW i \in Nat, NEW d \in Seq(Nat), Given(gotHrefs, i) = {},
           GotHref(i, d), NEW words, Describes(d, words)
    PROVE  /\ Told(gotHrefs', i, words, nofollow)
           /\ IsCut(d) => ToldCut(gotHrefs', i, words, nofollow)
<1>1. CASE nofollow = {}
  <2>1. gotHrefs' = Append(gotHrefs, [url |-> i, description |-> d])
    BY <1>1 DEF GotHref
  <2> QED
    BY <1>1, <2>1, AtHand, FirstGiven
<1>2. CASE nofollow # {}
  BY <1>2 DEF GotHref, Told, ToldCut
<1> QED
  BY <1>1, <1>2

Next(m) == LinkAt(m, spot + 1, inRef', href', description', gotHrefs', nofollow')

(* An <a> that was passed, after one token more. *)
LEMMA LinkNext ==
    ASSUME InText, LinksInv, LinkStep, NEW m \in 1..spot, html[stripped[m]] = "a"
    PROVE  Next(m)
<1> DEFINE i == stripped[m]
           words == WordsIn(m, spot)
           more == WordsIn(m, spot + 1)
<1>1. LinkAt(m, spot, inRef, href, description, gotHrefs, nofollow) /\ nofollow = BlockersAt(spot)
  BY DEF LinksInv, LinksAt
<1>2. /\ m \in Nat /\ spot \in Nat /\ m <= spot /\ spot < Len(stripped) /\ Ordered
      /\ stripped \in Seq(Spot) /\ Place = stripped[spot + 1]
  BY AtHand DEF InText, LinksInv
<1>3. /\ Quiet(m, spot + 1) <=>
            /\ Quiet(m, spot)
            /\ html[Place] \notin {"a", "/a", "frame", "refresh"} \cup Switches
      /\ more = words \cup (IF html[Place] \in LinkTexts THEN {Place} ELSE {})
      /\ Ends(m, spot + 1) <=> Quiet(m, spot) /\ html[Place] \in {"a", "/a"}
  BY <1>2, QuietNext
<1>4. /\ Place \in Spot /\ Place \in Nat
      /\ \A q \in words : q \in Spot /\ q < Place
  BY <1>2, WordsBefore, AtHand
<1>5. i # Place /\ i \in Nat
  <2>1. i \in Places(spot)
    BY DEF Places
  <2> QED
    BY <2>1, AtHand
<1> HIDE DEF i, words, more
<1>6. ASSUME html[Place] \notin Switches PROVE nofollow' = nofollow
  <2>1. nofollow \subseteq Hiders
    BY <1>1 DEF BlockersAt
  <2> QED
    BY <1>6, <2>1, OnlySwitches DEF LinkStep
<1>7. ASSUME Quiet(m, spot)
      PROVE  /\ nofollow = BlockersAt(m - 1)
             /\ \/ OpenAt(m, spot, inRef, href, description, gotHrefs)
                \/ ~inRef /\ ToldCut(gotHrefs, i, words, nofollow)
  BY <1>1, <1>7 DEF LinkAt, i, words
<1>8. ASSUME OpenAt(m, spot, inRef, href, description, gotHrefs)
      PROVE  /\ inRef /\ href = i /\ Given(gotHrefs, i) = {} /\ Shows(description, words)
             /\ \A q \in words \ ToSet(description) : html[q] = "img"
             /\ description \in Seq(Spot)
  BY <1>8, AtHand DEF OpenAt, i, words
<1>9. ASSUME NEW d, d \in Seq(Spot), Shows(d, more), \A q \in more \ ToSet(d) : html[q] = "img",
             inRef', href' = i, description' = d, gotHrefs' = gotHrefs, Given(gotHrefs, i) = {}
      PROVE  OpenAt(m, spot + 1, inRef', href', description', gotHrefs')
  BY <1>9 DEF OpenAt, i, more
<1>10. ASSUME Quiet(m, spot + 1)
       PROVE  /\ nofollow' = BlockersAt(m - 1)
              /\ \/ OpenAt(m, spot + 1, inRef', href', description', gotHrefs')
                 \/ ~inRef' /\ ToldCut(gotHrefs', i, more, nofollow')
  <2>1. Quiet(m, spot) /\ html[Place] \notin {"a", "/a", "frame", "refresh"} \cup Switches
    BY <1>3, <1>10
  <2>2. nofollow' = nofollow /\ nofollow = BlockersAt(m - 1)
    BY <1>6, <1>7, <2>1
  <2>3. ShowWord \/ PassBy \/ CutLink
    BY <2>1 DEF LinkStep, OpenLink, CloseLink, OtherLink
  <2>4. CASE OpenAt(m, spot, inRef, href, description, gotHrefs)
    <3>1. /\ inRef /\ href = i /\ Given(gotHrefs, i) = {} /\ Shows(description, words)
          /\ \A q \in words \ ToSet(description) : html[q] = "img"
          /\ description \in Seq(Spot)
      BY <1>8, <2>4
    <3>2. /\ Len(description) < MaxDescription =>
                /\ Shows(Append(description, Place), words \cup {Place})
                /\ (words \cup {Place}) \ ToSet(Append(description, Place)) = {}
          /\ ~(Len(description) < MaxDescription) =>
                Shows(description, words \cup {Place}) /\ Place \notin ToSet(description)
      BY <1>4, <3>1, ShowsMore
    <3>3. CASE ShowWord
      <4>1. more = words \cup {Place}
        BY <1>3, <3>3 DEF ShowWord
      <4>2. Append(description, Place) \in Seq(Spot)
        BY <1>4, <3>1, Appended
      <4>3. OpenAt(m, spot + 1, inRef', href', description', gotHrefs')
        BY <1>9, <3>1, <3>2, <3>3, <4>1, <4>2 DEF ShowWord
      <4> QED
        BY <2>2, <4>3
    <3>4. CASE PassBy
      <4>1. Shows(description, more) /\ \A q \in more \ ToSet(description) : html[q] = "img"
        <5>1. CASE html[Place] \in LinkTexts
          <6>1. more = words \cup {Place}
            BY <1>3, <5>1
          <6>2. html[Place] = "img" /\ ~(Len(description) < MaxDescription)
            BY <3>1, <3>4, <5>1 DEF PassBy
          <6> QED
            BY <3>1, <3>2, <6>1, <6>2
        <5>2. CASE html[Place] \notin LinkTexts
          BY <1>3, <3>1, <5>2
        <5> QED
          BY <5>1, <5>2
      <4>2. OpenAt(m, spot + 1, inRef', href', description', gotHrefs')
        BY <1>9, <3>1, <3>4, <4>1 DEF PassBy
      <4> QED
        BY <2>2, <4>2
    <3>5. CASE CutLink
      <4>1. /\ html[Place] \in WordTokens /\ ~(Len(description) < MaxDescription)
            /\ GotHref(href, Append(description, Ellipsis)) /\ inRef' = FALSE
        BY <3>5 DEF CutLink, CutDescription
      <4>2. more = words \cup {Place} /\ html[Place] # "img"
        BY <1>3, <4>1 DEF LinkTexts, WordTokens
      <4>3. Shows(description, more) /\ Place \in more \ ToSet(description)
        BY <3>2, <4>1, <4>2
      <4>4. /\ IsCut(Append(description, Ellipsis))
            /\ Describes(Append(description, Ellipsis), more)
        BY <3>1, <4>2, <4>3, DescribedCut
      <4>5. Append(description, Ellipsis) \in Seq(Nat)
        BY AtHand
      <4>6. ToldCut(gotHrefs', i, more, nofollow)
        BY <1>5, <3>1, <4>1, <4>4, <4>5, Reported
      <4> QED
        BY <2>2, <4>1, <4>6
    <3> QED
      BY <2>3, <3>3, <3>4, <3>5
  <2>5. CASE ~inRef /\ ToldCut(gotHrefs, i, words, nofollow)
    <3>1. PassBy
      BY <2>3, <2>5 DEF ShowWord, CutLink
    <3>2. ~inRef' /\ gotHrefs' = gotHrefs
      BY <2>5, <3>1 DEF PassBy
    <3>3. ToldCut(gotHrefs, i, more, nofollow)
      <4>1. CASE html[Place] \in LinkTexts
        <5>1. more = words \cup {Place}
          BY <1>3, <4>1
        <5>2. \A d : IsCut(d) /\ Describes(d, words) => Describes(d, more)
          BY <1>4, <5>1, CutMore
        <5> QED
          BY <2>5, <5>2 DEF ToldCut
      <4>2. CASE html[Place] \notin LinkTexts
        BY <1>3, <2>5, <4>2
      <4> QED
        BY <4>1, <4>2
    <3> QED
      BY <2>2, <3>2, <3>3
  <2> QED
    BY <1>7, <2>1, <2>4, <2>5
<1>11. ASSUME NEW e \in m + 1..spot + 1, Ends(m, e)
       PROVE  /\ ~(inRef' /\ href' = i)
              /\ Told(gotHrefs', i, WordsIn(m, e - 1), BlockersAt(m - 1))
  <2>1. CASE e \in m + 1..spot
    <3>1. /\ ~(inRef /\ href = i)
          /\ Told(gotHrefs, i, WordsIn(m, e - 1), BlockersAt(m - 1))
      BY <1>1, <1>11, <2>1 DEF LinkAt, i
    <3> QED
      BY <1>5, <3>1, GivenStays
  <2>2. CASE e = spot + 1
    <3>1. Quiet(m, spot) /\ html[Place] \in {"a", "/a"}
      BY <1>3, <1>11, <2>2
    <3>2. WordsIn(m, e - 1) = words
      <4>1. e - 1 = spot
        BY <1>2, <2>2
      <4> QED
        BY <4>1 DEF words
    <3>3. nofollow = BlockersAt(m - 1)
      BY <1>7, <3>1
    <3>4. OpenLink \/ CloseLink
      BY <3>1 DEF LinkStep, ShowWord, PassBy, CutLink, OtherLink, LinkTexts, WordTokens
    <3>5. ~(inRef' /\ href' = i)
      BY <1>5, <3>4 DEF OpenLink, CloseLink
    <3>6. CASE OpenAt(m, spot, inRef, href, description, gotHrefs)
      <4>1. /\ inRef /\ href = i /\ Given(gotHrefs, i) = {} /\ Shows(description, words)
            /\ \A q \in words \ ToSet(description) : html[q] = "img"
            /\ description \in Seq(Spot)
        BY <1>8, <3>6
      <4>2. Describes(description, words)
        BY <4>1, DescribedWhole
      <4>3. GotHref(i, description) /\ description \in Seq(Nat)
        BY <3>4, <4>1, AtHand DEF OpenLink, CloseLink
      <4>4. Told(gotHrefs', i, words, nofollow)
        BY <1>5, <4>1, <4>2, <4>3, Reported
      <4> QED
        BY <3>2, <3>3, <3>5, <4>4
    <3>7. CASE ~inRef /\ ToldCut(gotHrefs, i, words, nofollow)
      <4>1. gotHrefs' = gotHrefs
        BY <3>4, <3>7 DEF OpenLink, CloseLink
      <4>2. Told(gotHrefs, i, words, nofollow)
        BY <3>7 DEF Told, ToldCut
      <4> QED
        BY <3>2, <3>3, <3>5, <4>1, <4>2
    <3> QED
      BY <1>7, <3>1, <3>6, <3>7
  <2> QED
    BY <1>2, <2>1, <2>2
<1> QED
  BY <1>10, <1>11 DEF Next, LinkAt, i, more

(* The token is an <a>. *)
LEMMA LinkOpens ==
    ASSUME InText, LinksInv, LinkStep, html[Place] = "a"
    PROVE  Next(spot + 1)
<1>1. OpenLink
  BY DEF LinkStep, ShowWord, PassBy, CutLink, CloseLink, OtherLink, LinkTexts, WordTokens
<1>2. /\ spot \in Nat /\ spot + 1 \in Nat /\ (spot + 1) - 1 = spot
      /\ (spot + 1) + 1..spot + 1 = {}
  BY AtHand
<1>3. WordsIn(spot + 1, spot + 1) = {}
  BY <1>2, QuietNext
<1>4. nofollow' = BlockersAt(spot)
  <2>1. nofollow = BlockersAt(spot)
    BY DEF LinksInv, LinksAt
  <2>2. nofollow \subseteq Hiders
    BY <2>1 DEF BlockersAt
  <2>3. html[Place] \notin Switches
    BY SwitchesAre
  <2> QED
    BY <2>1, <2>2, <2>3, OnlySwitches DEF LinkStep
<1>5. Given(gotHrefs', Place) = {}
  <2>1. \A k \in 1..Len(gotHrefs) : IsURL(gotHrefs[k].url, spot)
    BY DEF LinksInv, LinksAt, URLsAt
  <2>2. \A k \in 1..Len(gotHrefs) : gotHrefs[k].url # Place
    BY <2>1, AtHand DEF IsURL
  <2>3. inRef => href \in Nat /\ href # Place
    BY AtHand DEF IsURL
  <2>4. ASSUME NEW k \in 1..Len(gotHrefs') PROVE gotHrefs'[k].url # Place
    <3>1. CASE gotHrefs' = gotHrefs
      BY <2>2, <3>1
    <3>2. CASE inRef /\ gotHrefs' = Append(gotHrefs, [url |-> href, description |-> description])
      <4>1. (k \in 1..Len(gotHrefs) /\ gotHrefs'[k] = gotHrefs[k]) \/ gotHrefs'[k].url = href
        <5>1. href \in Nat /\ description \in Seq(Nat) /\ gotHrefs \in LinksType
          BY <2>3, <3>2, AtHand
        <5> QED
          BY <3>2, <5>1, GotType
      <4> QED
        BY <2>2, <2>3, <3>2, <4>1
    <3> QED
      BY <1>1, <3>1, <3>2 DEF OpenLink, GotHref
  <2> QED
    BY <2>4 DEF Given
<1>6. OpenAt(spot + 1, spot + 1, inRef', href', description', gotHrefs')
  <2>1. Shows(<<>>, {})
    BY HTMLAssumption, EmptySeq DEF Shows, ToSet
  <2>2. inRef' = TRUE /\ href' = stripped[spot + 1] /\ description' = <<>>
    BY <1>1, AtHand DEF OpenLink
  <2> QED
    BY <1>3, <1>5, <2>1, <2>2, AtHand DEF OpenAt
<1> QED
  BY <1>2, <1>4, <1>6 DEF Next, LinkAt

(* Every step keeps what is known of the links. *)
LEMMA LinksStep ==
    ASSUME TextInv, LinksInv, [HTMLNext]_htmlVars
    PROVE  LinksInv'
<1>1. CASE UNCHANGED htmlVars
  BY <1>1, SameLinks DEF htmlVars, flagVars, refVars, gotVars, LinksInv
<1>2. CASE HTMLNext
  <2>1. InText
    BY DEF TextInv, InText
  <2>2. nofollow = BlockersAt(spot) /\ description \in Seq(Spot)
    BY DEF LinksInv, LinksAt, URLsAt
  <2>3. nofollow \subseteq Hiders /\ noindex \subseteq Hiders /\ gotNoindex \in BOOLEAN
    BY <2>2 DEF BlockersAt, TextInv, FlagInv, HidersAt
  <2>4. html' = html /\ stripped' = stripped
    BY <1>2, <2>3, TokenSteps
  <2>5. LinkStep \/ GotHead
    BY <1>2, <2>2, <2>3, LinkSteps
  <2>6. CASE LinkStep
    <3>1. spot \in Nat /\ spot' = spot + 1 /\ Place = stripped[spot + 1]
      BY <2>1, <2>6, AtHand DEF LinkStep
    <3>2. nofollow' = BlockersAt(spot + 1)
      BY <2>2, <2>6, <3>1, BlockersNext DEF LinkStep
    <3>3. URLsAt(spot + 1, inRef', href', description', gotHrefs')
      BY <2>1, <2>6, URLsStep
    <3>4. ASSUME NEW m \in 1..spot + 1, html[stripped[m]] = "a"
          PROVE  LinkAt(m, spot + 1, inRef', href', description', gotHrefs', nofollow')
      <4>1. CASE m \in 1..spot
        BY <2>1, <2>6, <3>4, <4>1, LinkNext DEF Next
      <4>2. CASE m = spot + 1
        BY <2>1, <2>6, <3>1, <3>4, <4>2, LinkOpens DEF Next
      <4> QED
        BY <3>1, <4>1, <4>2
    <3>5. LinksAt(spot', inRef', href', description', gotHrefs', nofollow')
      BY <3>1, <3>2, <3>3, <3>4 DEF LinksAt
    <3> QED
      BY <2>4, <3>5, SameLinks DEF LinksInv
  <2>7. CASE GotHead
    <3>1. /\ spot' = spot /\ inRef' = inRef /\ href' = href /\ description' = description
          /\ gotHrefs' = gotHrefs /\ nofollow' = nofollow
      BY <2>7 DEF GotHead, flagVars, refVars
    <3> QED
      BY <2>4, <3>1, SameLinks DEF LinksInv
  <2> QED
    BY <2>5, <2>6, <2>7
<1> QED
  BY <1>1, <1>2

(* Before the first token. *)
LEMMA InitLinks == HTMLInit => LinksInv
<1> SUFFICES ASSUME HTMLInit PROVE LinksInv
  OBVIOUS
<1>1. stripped \in Seq(Spot)
  <2>1. html \in Seq(STRING) /\ Len(html) \in Nat /\ stripped = Strip
    BY HTMLAssumption, LenProperties DEF HTMLInit
  <2>2. IsState(Stripped[Len(html)], Len(html))
    BY <2>1, StripTypes
  <2>3. stripped \in Seq(1..Len(html))
    BY <2>1, <2>2 DEF IsState, Strip
  <2>4. 1..Len(html) \subseteq Spot
    BY <2>1 DEF Spot
  <2> QED
    BY <2>3, <2>4, SeqMonotonic
<1>2. spot = 0 /\ 1..0 = {}
  BY DEF HTMLInit
<1>3. nofollow = BlockersAt(0)
  BY <1>2 DEF HTMLInit, BlockersAt, OffAt
<1>4. <<>> \in Seq(Spot) /\ <<>> \in LinksType /\ Len(<<>>) = 0
  BY EmptySeq DEF LinksType
<1>5. URLsAt(0, inRef, href, description, gotHrefs)
  BY <1>2, <1>4 DEF HTMLInit, URLsAt
<1> QED
  BY <1>1, <1>2, <1>3, <1>5 DEF LinksInv, LinksAt

(* At the end, every link was given as it should be. *)
LEMMA LinksAtEnd ==
    ASSUME TextInv, LinksInv, spot = Len(stripped), NEW i \in Spots, NEW e \in Spots, EndsAt(i, e)
    PROVE  IF IsOn(FollowSwitches, i)
           THEN \E k \in 1..Len(gotHrefs) :
                   GivenFor(i) = {k} /\ Describes(gotHrefs[k].description, LinkWords(i, e))
           ELSE GivenFor(i) = {}
<1>1. Ordered /\ Len(stripped) \in Nat /\ DOMAIN stripped = 1..Len(stripped)
  BY LenProperties DEF TextInv, Ordered
<1>2. \A p : p \in Spots <=> \E k \in 1..Len(stripped) : p = stripped[k]
  BY <1>1 DEF Spots, ToSet
<1>3. PICK m \in 1..Len(stripped), n \in 1..Len(stripped) : i = stripped[m] /\ e = stripped[n]
  BY <1>2
<1>4. m < n /\ html[i] = "a" /\ html[e] \in {"a", "/a"}
  BY <1>1, <1>3, PlaceOrder DEF EndsAt
<1>5. \A q : q \in Between(i, e) <=> \E k \in m + 1..n - 1 : q = stripped[k]
  <2>1. ASSUME NEW k \in m + 1..n - 1 PROVE stripped[k] \in Between(i, e)
    <3>1. k \in 1..Len(stripped) /\ m < k /\ k < n
      BY <1>1
    <3> QED
      BY <1>1, <1>2, <1>3, <3>1, PlaceOrder DEF Between
  <2>2. ASSUME NEW q \in Between(i, e) PROVE \E k \in m + 1..n - 1 : q = stripped[k]
    <3>1. PICK k \in 1..Len(stripped) : q = stripped[k]
      BY <1>2 DEF Between
    <3>2. m < k /\ k < n
      BY <1>1, <1>3, <3>1, PlaceOrder DEF Between
    <3> QED
      BY <1>1, <3>1, <3>2
  <2> QED
    BY <2>1, <2>2
<1>6. LinkWords(i, e) = WordsIn(m, n - 1)
  BY <1>5 DEF LinkWords, WordsIn, LinkTexts
<1>7. Ends(m, n) /\ n \in m + 1..spot /\ m \in 1..spot
  BY <1>1, <1>3, <1>4, <1>5 DEF Ends, Quiet, EndsAt
<1>8. Told(gotHrefs, i, WordsIn(m, n - 1), BlockersAt(m - 1))
  <2>1. LinkAt(m, spot, inRef, href, description, gotHrefs, nofollow)
    BY <1>3, <1>4, <1>7 DEF LinksInv, LinksAt
  <2> QED
    BY <1>3, <1>7, <2>1 DEF LinkAt
<1>9. IsOn(FollowSwitches, i) <=> BlockersAt(m - 1) = {}
  BY <1>1, <1>3, FollowedAt
<1>10. Given(gotHrefs, i) = GivenFor(i)
  BY DEF Given, GivenFor
<1> QED
  BY <1>6, <1>8, <1>9, <1>10 DEF Told

(* Every link is given to the retriever once, with its own words or what   *)
(* fits of them, unless it must not be followed, and nothing else is:      *)
(* for every document and every length of a description (HTML::parse,      *)
(* do_tag).                                                                *)
THEOREM EveryLinkOnce == HTMLSpec => []LinksOnce
<1>1. TextInv /\ LinksInv /\ [HTMLNext]_htmlVars => TextInv' /\ LinksInv'
  BY TextStep, LinksStep
<1>2. TextInv /\ LinksInv => LinksOnce
  <2> SUFFICES ASSUME TextInv, LinksInv, gotHeads # <<>> PROVE LinksOnce
    BY DEF LinksOnce
  <2>1. /\ spot = Len(stripped) /\ Len(stripped) \in Nat
        /\ DOMAIN stripped = 1..Len(stripped)
    BY LenProperties DEF TextInv, HeadInv, Ordered
  <2>2. Places(spot) = Spots
    BY <2>1 DEF Places, Spots, ToSet
  <2>3. \A k \in 1..Len(gotHrefs) : /\ gotHrefs[k].url \in Spots
                                    /\ html[gotHrefs[k].url] \in {"a", "frame", "refresh"}
    BY <2>2 DEF LinksInv, LinksAt, URLsAt, IsURL, URLTokens
  <2> QED
    BY <2>1, <2>3, LinksAtEnd DEF LinksOnce
<1>3. HTMLInit => TextInv /\ LinksInv
  BY InitText, InitLinks
<1> QED
  BY <1>1, <1>2, <1>3, PTL DEF HTMLSpec

-----------------------------------------------------------------------------
(* The document database.                                                  *)

(* A document as it is after it was read, and as it was when it was filed. *)
PressedHead(n) == IF n = 0 \/ cf = 0 THEN Uncompressed(n) ELSE [text |-> n, pressed |-> 1]

Loaded(t, n, ds) ==
    [docTime |-> t, docHead |-> PressedHead(n), descriptions |-> ds,
     docHeadState |-> IF n = 0 THEN "Empty" ELSE "Compressed"]

-----------------------------------------------------------------------------
(* The number of bytes that a tag announces is enough for the number. *)
LEMMA TagHolds == ASSUME NEW id, NEW n \in Nat PROVE Tag(id, n).n = n
BY DEF Tag, CharLimit, ShortLimit

(* A number is read back. *)
LEMMA NumberRead ==
    ASSUME NEW id, NEW n \in Nat
    PROVE  (IF addnum(id, n) = <<>> THEN 0 ELSE addnum(id, n)[1].n) = n
<1>1. CASE n = 0
  BY <1>1 DEF addnum
<1>2. CASE n # 0
  BY <1>2, TagHolds DEF addnum
<1> QED
  BY <1>1, <1>2

(* A small number fits one byte. *)
LEMMA ByteHolds == ASSUME NEW n \in Nat, n < CharLimit PROVE n % 256 = n
BY DEF CharLimit

(* A list is read back, whatever the number and the lengths of its strings. *)
LEMMA ListRead ==
    ASSUME NEW id, NEW ds \in Seq(Nat)
    PROVE  (IF addlist(id, ds) = <<>> THEN <<>> ELSE getlist(addlist(id, ds)[1])) = ds
<1>1. Len(ds) \in Nat /\ ds = [i \in 1..Len(ds) |-> ds[i]] /\ \A i \in 1..Len(ds) : ds[i] \in Nat
  BY LenProperties
<1>2. CASE ds = <<>>
  BY <1>2 DEF addlist
<1>3. CASE ds # <<>>
  <2> DEFINE lengths ==
                [i \in 1..Len(ds) |->
                    IF Len(ds) > ShortLimit THEN <<ds[i]>>
                    ELSE IF ds[i] < CharLimit THEN <<ds[i] % 256>> ELSE <<CharLimit, ds[i]>>]
             item == [tag |-> Tag(id, Len(ds)), lengths |-> lengths]
  <2>1. addlist(id, ds) = <<item>>
    BY <1>3 DEF addlist
  <2>2. item.tag.n = Len(ds) /\ item.lengths = lengths
    BY <1>1, TagHolds
  <2>3. ASSUME NEW i \in 1..Len(ds)
        PROVE  (IF Len(ds) > ShortLimit \/ lengths[i][1] < CharLimit
                THEN lengths[i][1] ELSE lengths[i][2]) = ds[i]
    <3>1. ds[i] \in Nat
      BY <1>1
    <3>2. lengths[i] = IF Len(ds) > ShortLimit THEN <<ds[i]>>
                       ELSE IF ds[i] < CharLimit THEN <<ds[i] % 256>> ELSE <<CharLimit, ds[i]>>
      OBVIOUS
    <3> HIDE DEF lengths
    <3>3. CASE Len(ds) > ShortLimit
      BY <3>2, <3>3
    <3>4. CASE ~(Len(ds) > ShortLimit) /\ ds[i] < CharLimit
      <4>1. ds[i] % 256 = ds[i]
        BY <3>1, <3>4, ByteHolds
      <4> QED
        BY <3>2, <3>4, <4>1
    <3>5. CASE ~(Len(ds) > ShortLimit) /\ ~(ds[i] < CharLimit)
      <4>1. lengths[i] = <<CharLimit, ds[i]>>
        BY <3>2, <3>5
      <4>2. lengths[i][1] = CharLimit /\ lengths[i][2] = ds[i] /\ ~(CharLimit < CharLimit)
        BY <4>1 DEF CharLimit
      <4> QED
        BY <3>5, <4>2
    <3> QED
      BY <3>3, <3>4, <3>5
  <2> HIDE DEF lengths
  <2>4. getlist(item) = [i \in 1..Len(ds) |-> ds[i]]
    BY <2>2, <2>3 DEF getlist
  <2> HIDE DEF item
  <2>5. addlist(id, ds) # <<>> /\ addlist(id, ds)[1] = item
    BY <2>1
  <2> QED
    BY <1>1, <2>4, <2>5
<1> QED
  BY <1>2, <1>3

-----------------------------------------------------------------------------
(* A head that is empty, filed as it is or compressed once is read back.   *)
LEMMA HeadRead ==
    ASSUME NEW id, NEW n \in Nat
    PROVE  LET head == PressedHead(n)
               stream == addstring(id, head)
           IN /\ (IF stream = <<>> THEN Uncompressed(0) ELSE stream[1].body) = head
              /\ stream = <<>> \/ stream[1].tag.n = Size(head)
              /\ head = Uncompressed(0) <=> n = 0
<1> DEFINE head == PressedHead(n)
<1>1. CASE n = 0
  <2>1. head = [text |-> 0, pressed |-> 0]
    BY <1>1 DEF PressedHead, Uncompressed
  <2>2. addstring(id, head) = <<>>
    BY <2>1 DEF addstring, Size
  <2> QED
    BY <1>1, <2>1, <2>2 DEF Uncompressed
<1>2. CASE n # 0
  <2>1. /\ Size(head) \in Nat /\ Size(head) # 0 /\ head # Uncompressed(0)
    <3>1. head \in {[text |-> n, pressed |-> 0], [text |-> n, pressed |-> 1]}
      BY <1>2 DEF PressedHead, Uncompressed
    <3>2. CASE head = [text |-> n, pressed |-> 0]
      <4>1. head.text = n /\ head.pressed = 0
        BY <3>2
      <4>2. Size(head) = n
        BY <4>1 DEF Size
      <4>3. Uncompressed(0).text = 0
        BY DEF Uncompressed
      <4> QED
        BY <1>2, <4>1, <4>2, <4>3
    <3>3. CASE head = [text |-> n, pressed |-> 1]
      <4>1. head.text = n /\ head.pressed = 1
        BY <3>3
      <4>2. Size(head) = n \div 2 + 8
        BY <4>1 DEF Size
      <4>3. n \div 2 \in Nat
        OBVIOUS
      <4>4. Uncompressed(0).text = 0
        BY DEF Uncompressed
      <4> QED
        BY <1>2, <4>1, <4>2, <4>3, <4>4
    <3> QED
      BY <3>1, <3>2, <3>3
  <2> HIDE DEF head
  <2>2. addstring(id, head) = <<[tag |-> Tag(id, Size(head)), body |-> head]>>
    BY <2>1 DEF addstring
  <2>3. Tag(id, Size(head)).n = Size(head)
    BY <2>1, TagHolds
  <2> QED
    BY <1>2, <2>1, <2>2, <2>3 DEF head
<1> QED
  BY <1>1, <1>2

(* What Deserialize makes of a record that holds a document. *)
LEMMA RecordRead ==
    ASSUME NEW t \in Nat, NEW n \in Nat, NEW ds \in Seq(Nat), NEW ref,
           ref.docTime = t, ref.docHead = PressedHead(n), ref.descriptions = ds
    PROVE  Deserialize(Serialize(ref)) = Loaded(t, n, ds)
<1> DEFINE stream == Serialize(ref)
<1>1. /\ stream.time = addnum("DOC_TIME", t)
      /\ stream.head = addstring("DOC_HEAD", PressedHead(n))
      /\ stream.descriptions = addlist("DOC_DESCRIPTIONS", ds)
  BY DEF Serialize
<1> HIDE DEF stream
<1> DEFINE head == IF stream.head = <<>> THEN Uncompressed(0) ELSE stream.head[1].body
           read == stream.head = <<>> \/ stream.head[1].tag.n = Size(head)
<1>2. head = PressedHead(n) /\ read /\ (head = Uncompressed(0) <=> n = 0)
  BY <1>1, HeadRead
<1>3. (IF stream.time = <<>> THEN 0 ELSE stream.time[1].n) = t
  BY <1>1, NumberRead
<1>4. (IF stream.descriptions = <<>> THEN <<>> ELSE getlist(stream.descriptions[1])) = ds
  BY <1>1, ListRead
<1>5. Deserialize(stream) =
         [docTime |-> IF stream.time = <<>> THEN 0 ELSE stream.time[1].n,
          docHead |-> IF read THEN head ELSE Uncompressed(0),
          descriptions |-> IF stream.descriptions = <<>> \/ ~read THEN <<>>
                           ELSE getlist(stream.descriptions[1]),
          docHeadState |-> IF head = Uncompressed(0) THEN "Empty" ELSE "Compressed"]
  BY DEF Deserialize
<1> HIDE DEF head, read
<1>6. Deserialize(stream) = Loaded(t, n, ds)
  <2>1. (IF stream.descriptions = <<>> \/ ~read THEN <<>>
         ELSE getlist(stream.descriptions[1])) = ds
    BY <1>2, <1>4
  <2>2. (IF read THEN head ELSE Uncompressed(0)) = PressedHead(n)
    BY <1>2
  <2>3. (IF head = Uncompressed(0) THEN "Empty" ELSE "Compressed")
           = (IF n = 0 THEN "Empty" ELSE "Compressed")
    BY <1>2
  <2> QED
    BY <1>3, <1>5, <2>1, <2>2, <2>3 DEF Loaded
<1> QED
  BY <1>6 DEF stream

(* A document as a retriever hands it over. *)
LEMMA DocumentIs ==
    ASSUME NEW t \in Nat, NEW n \in Nat, NEW ds \in Seq(Nat), NEW ref, ref = Document(t, n, ds)
    PROVE  ref = [docTime |-> t, docHead |-> Uncompressed(n), descriptions |-> ds,
                  docHeadState |-> IF n = 0 THEN "Empty" ELSE "Uncompressed"]
BY DEF Document, SetHead, Clear

(* A document that is filed, and one that was read, given another time and *)
(* filed again, with its head looked at or not. *)
LEMMA FiledRead ==
    ASSUME NEW t \in Nat, NEW n \in Nat, NEW ds \in Seq(Nat)
    PROVE  /\ Deserialize(Record(Document(t, n, ds))) = Loaded(t, n, ds)
           /\ \A s \in Nat :
                /\ Deserialize(Record([Loaded(s, n, ds) EXCEPT !.docTime = t]))
                     = Loaded(t, n, ds)
                /\ Deserialize(Record([DocHead(Loaded(s, n, ds), cf) EXCEPT !.docTime = t]))
                     = Loaded(t, n, ds)
<1>1. ASSUME NEW ref, ref = Document(t, n, ds)
      PROVE  /\ Pressed(ref, cf).docTime = t /\ Pressed(ref, cf).docHead = PressedHead(n)
             /\ Pressed(ref, cf).descriptions = ds
  <2>1. ref = [docTime |-> t, docHead |-> Uncompressed(n), descriptions |-> ds,
               docHeadState |-> IF n = 0 THEN "Empty" ELSE "Uncompressed"]
    BY <1>1, DocumentIs
  <2>2. CASE n = 0
    <3>1. Pressed(ref, cf) = ref
      BY <2>1, <2>2 DEF Pressed
    <3> QED
      BY <2>1, <2>2, <3>1 DEF PressedHead
  <2>3. CASE n # 0
    <3>1. Pressed(ref, cf) = [ref EXCEPT !.docHead = Compress(Uncompressed(n), cf),
                                         !.docHeadState = "Compressed"]
      BY <2>1, <2>3 DEF Pressed
    <3>2. Compress(Uncompressed(n), cf) = PressedHead(n)
      BY <2>3 DEF Compress, Uncompressed, PressedHead
    <3> QED
      BY <2>1, <3>1, <3>2
  <2> QED
    BY <2>2, <2>3
<1>2. Deserialize(Record(Document(t, n, ds))) = Loaded(t, n, ds)
  BY <1>1, RecordRead DEF Record
<1>3. ASSUME NEW s \in Nat, NEW ref, ref = [Loaded(s, n, ds) EXCEPT !.docTime = t]
      PROVE  /\ Pressed(ref, cf).docTime = t /\ Pressed(ref, cf).docHead = PressedHead(n)
             /\ Pressed(ref, cf).descriptions = ds
  BY <1>3 DEF Pressed, Loaded
<1>4. ASSUME NEW s \in Nat
      PROVE  [DocHead(Loaded(s, n, ds), cf) EXCEPT !.docTime = t]
                \in {Document(t, n, ds), [Loaded(s, n, ds) EXCEPT !.docTime = t]}
  <2>1. CASE n = 0
    BY <2>1 DEF DocHead, Loaded
  <2>2. CASE n # 0
    <3>1. Decompress(PressedHead(n), cf) = Uncompressed(n)
      BY <2>2 DEF Decompress, PressedHead, Uncompressed
    <3>2. DocHead(Loaded(s, n, ds), cf) =
             [docTime |-> s, docHead |-> Uncompressed(n), descriptions |-> ds,
              docHeadState |-> "Uncompressed"]
      BY <2>2, <3>1 DEF DocHead, Loaded
    <3>3. Document(t, n, ds) =
             [docTime |-> t, docHead |-> Uncompressed(n), descriptions |-> ds,
              docHeadState |-> IF n = 0 THEN "Empty" ELSE "Uncompressed"]
      BY DocumentIs
    <3>4. [DocHead(Loaded(s, n, ds), cf) EXCEPT !.docTime = t] = Document(t, n, ds)
      BY <2>2, <3>2, <3>3
    <3> QED
      BY <3>4
  <2> QED
    BY <2>1, <2>2
<1>5. ASSUME NEW s \in Nat
      PROVE  Deserialize(Record([Loaded(s, n, ds) EXCEPT !.docTime = t])) = Loaded(t, n, ds)
  BY <1>3, RecordRead DEF Record
<1>6. ASSUME NEW s \in Nat
      PROVE  Deserialize(Record([DocHead(Loaded(s, n, ds), cf) EXCEPT !.docTime = t]))
                = Loaded(t, n, ds)
  BY <1>2, <1>4, <1>5
<1> QED
  BY <1>2, <1>5, <1>6

(* What is seen of a document that was read. *)
LEMMA LoadedSeen ==
    ASSUME NEW t \in Nat, NEW n \in Nat, NEW ds \in Seq(Nat)
    PROVE  Seen(Loaded(t, n, ds)) = [time |-> t, head |-> Uncompressed(n), descriptions |-> ds]
<1>1. Loaded(t, n, ds) \in DocumentRef
  BY DEF Loaded, PressedHead, Uncompressed, DocumentRef, HeadState
<1>2. Loaded(t, n, ds) # NoDocument
  BY <1>1, DocStoreAssumption
<1>3. /\ DocHead(Loaded(t, n, ds), cf).docHead = Uncompressed(n)
      /\ Loaded(t, n, ds).docTime = t /\ Loaded(t, n, ds).descriptions = ds
  <2>1. CASE n = 0
    BY <2>1 DEF DocHead, Loaded, PressedHead
  <2>2. CASE n # 0
    <3>1. Decompress(PressedHead(n), cf) = Uncompressed(n)
      BY <2>2 DEF Decompress, PressedHead, Uncompressed
    <3> QED
      BY <2>2, <3>1 DEF DocHead, Loaded
  <2> QED
    BY <2>1, <2>2
<1> QED
  BY <1>2, <1>3 DEF Seen

-----------------------------------------------------------------------------
(* The documents that may be in the database. *)
Contents == Samples \cup {OldOne}

Times == {1} \cup {s.time : s \in Samples}

AllDocuments == {[Handed(s) EXCEPT !.time = t] : s \in Contents, t \in Times}

IsDocument(ref) == \E t \in Times, s \in Contents : ref = Loaded(t, s.head, s.descriptions)

(* Every record is one of a document, and no URL has another one's key.    *)
StoreInv ==
    /\ KeysApart
    /\ dbf = [k \in DOMAIN dbf |-> dbf[k]]
    /\ \A k \in DOMAIN dbf : IsDocument(Deserialize(dbf[k]))

(* The fields of the documents have the types the records are proved for.  *)
LEMMA ContentTypes ==
    ASSUME NEW s \in Contents, NEW t \in Times
    PROVE  s.head \in Nat /\ s.descriptions \in Seq(Nat) /\ t \in Nat
<1>1. OldOne.head \in Nat /\ OldOne.descriptions \in Seq(Nat)
  BY EmptySeq DEF OldOne
<1>2. \A x \in Samples : x.head \in Nat /\ x.descriptions \in Seq(Nat) /\ x.time \in Nat
  BY DocStoreAssumption
<1> QED
  BY <1>1, <1>2 DEF Contents, Times

(* What is seen of a document that was filed is the document. *)
LEMMA DocumentSeen ==
    ASSUME NEW ref, IsDocument(ref)
    PROVE  Seen(ref) \in AllDocuments
<1>1. PICK t \in Times, s \in Contents : ref = Loaded(t, s.head, s.descriptions)
  BY DEF IsDocument
<1>2. s.head \in Nat /\ s.descriptions \in Seq(Nat) /\ t \in Nat
  BY <1>1, ContentTypes
<1>3. Seen(ref) = [time |-> t, head |-> Uncompressed(s.head), descriptions |-> s.descriptions]
  BY <1>1, <1>2, LoadedSeen
<1>4. [Handed(s) EXCEPT !.time = t]
         = [time |-> t, head |-> Uncompressed(s.head), descriptions |-> s.descriptions]
  BY DEF Handed
<1> QED
  BY <1>1, <1>3, <1>4 DEF AllDocuments

(* A URL has a document or none. *)
LEMMA FoundSeen ==
    ASSUME StoreInv, NEW u \in Locations
    PROVE  /\ Exists(u) => IsDocument(Find(u))
           /\ Seen(Find(u)) \in AllDocuments \cup {NoDocument}
<1>1. Exists(u) => IsDocument(Find(u))
  BY DEF StoreInv, Exists, Find
<1>2. ~Exists(u) => Find(u) = NoDocument
  BY DEF Exists, Find
<1>3. Seen(NoDocument) = NoDocument
  BY DEF Seen
<1> QED
  BY <1>1, <1>2, <1>3, DocumentSeen

(* Filing a document under a URL changes what is found of that one only.   *)
LEMMA AddAtOne ==
    ASSUME StoreInv, NEW u \in Locations, NEW ref, IsDocument(Deserialize(Record(ref))),
           Add(u, ref), UNCHANGED Config
    PROVE  /\ StoreInv'
           /\ \A v \in Locations : v # u => (Seen(Find(v)))' = Seen(Find(v))
           /\ (Seen(Find(u)))' \in AllDocuments
<1>1. key' = key /\ myTryUncoded' = myTryUncoded /\ cf' = cf
  BY DEF Config
<1>2. PICK record : record = Record(ref)
  OBVIOUS
<1>3. PICK kept : kept = IF myTryUncoded THEN Without(u) ELSE dbf
  OBVIOUS
<1>4. /\ DOMAIN kept = IF myTryUncoded THEN DOMAIN dbf \ {u} ELSE DOMAIN dbf
      /\ \A k \in DOMAIN kept : kept[k] = dbf[k]
  BY <1>3 DEF Without
<1>5. dbf' = [k \in DOMAIN kept \cup {key[u]} |-> IF k = key[u] THEN record ELSE kept[k]]
  BY <1>2, <1>3 DEF Add
<1>6. /\ DOMAIN dbf' = DOMAIN kept \cup {key[u]} /\ dbf'[key[u]] = record
      /\ \A k \in DOMAIN kept : k # key[u] => dbf'[k] = dbf[k]
      /\ dbf' = [k \in DOMAIN dbf' |-> dbf'[k]]
  BY <1>4, <1>5
<1>7. \A x : (IsDocument(x)' <=> IsDocument(x)) /\ (Seen(x)' = Seen(x))
  BY <1>1 DEF IsDocument, Loaded, PressedHead, Seen
<1>8. IsDocument(Deserialize(record))
  BY <1>2
<1>9. \A k \in DOMAIN dbf' : IsDocument(Deserialize(dbf'[k]))
  BY <1>4, <1>6, <1>8 DEF StoreInv
<1>10. StoreInv'
  BY <1>1, <1>6, <1>7, <1>9 DEF StoreInv, KeysApart
<1>11. ASSUME NEW v \in Locations, v # u
       PROVE  (Seen(Find(v)))' = Seen(Find(v))
  <2>1. key[v] # key[u] /\ (myTryUncoded => key[v] # u /\ key[u] # v)
    BY <1>11 DEF StoreInv, KeysApart
  <2>2. key[v] \in DOMAIN dbf' <=> key[v] \in DOMAIN dbf
    BY <1>4, <1>6, <2>1
  <2>3. key[v] \in DOMAIN dbf => dbf'[key[v]] = dbf[key[v]]
    BY <1>4, <1>6, <2>1
  <2>4. myTryUncoded => /\ v \in DOMAIN dbf' <=> v \in DOMAIN dbf
                        /\ v \in DOMAIN dbf => dbf'[v] = dbf[v]
    BY <1>4, <1>6, <1>11, <2>1
  <2>5. Find(v)' = Find(v)
    BY <1>1, <2>2, <2>3, <2>4 DEF Find
  <2> QED
    BY <1>1, <2>5 DEF Seen
<1>12. Find(u)' = Deserialize(record)
  BY <1>1, <1>6 DEF Find
<1>13. (Seen(Find(u)))' = Seen(Deserialize(record))
  BY <1>1, <1>12 DEF Seen
<1>14. Seen(Deserialize(record)) \in AllDocuments
  BY <1>8, DocumentSeen
<1> QED
  BY <1>10, <1>11, <1>13, <1>14

(* So does deleting one. *)
LEMMA DeleteAtOne ==
    ASSUME StoreInv, NEW u \in Locations, Delete(u)
    PROVE  /\ StoreInv'
           /\ \A v \in Locations : v # u => (Seen(Find(v)))' = Seen(Find(v))
           /\ (Seen(Find(u)))' \in AllDocuments \cup {NoDocument}
<1>1. key' = key /\ myTryUncoded' = myTryUncoded /\ cf' = cf
  BY DEF Delete, Config
<1>2. PICK x : /\ x \in {u, key[u]} /\ (x = u => myTryUncoded \/ u = key[u])
               /\ dbf' = Without(x) \/ dbf' = dbf
  BY DEF Delete
<1>3. /\ DOMAIN dbf' \subseteq DOMAIN dbf
      /\ \A k \in DOMAIN dbf' : dbf'[k] = dbf[k]
      /\ \A k \in DOMAIN dbf : k # x => k \in DOMAIN dbf'
      /\ dbf' = [k \in DOMAIN dbf' |-> dbf'[k]]
  BY <1>2 DEF Without, StoreInv
<1>4. \A y : (IsDocument(y)' <=> IsDocument(y)) /\ (Seen(y)' = Seen(y))
  BY <1>1 DEF IsDocument, Loaded, PressedHead, Seen
<1>5. \A k \in DOMAIN dbf' : IsDocument(Deserialize(dbf'[k]))
  BY <1>3 DEF StoreInv
<1>6. StoreInv'
  BY <1>1, <1>3, <1>4, <1>5 DEF StoreInv, KeysApart
<1>7. ASSUME NEW v \in Locations, v # u
      PROVE  (Seen(Find(v)))' = Seen(Find(v))
  <2>1. key[v] # x /\ (myTryUncoded => v # x)
    BY <1>2, <1>7 DEF StoreInv, KeysApart
  <2>2. Find(v)' = Find(v)
    BY <1>1, <1>3, <2>1 DEF Find
  <2> QED
    BY <1>1, <2>2 DEF Seen
<1>8. Find(u)' = NoDocument \/ IsDocument(Find(u)')
  BY <1>1, <1>5 DEF Find
<1>9. (Seen(Find(u)))' = Seen(Find(u)')
  BY <1>1 DEF Seen
<1>10. Seen(NoDocument) = NoDocument
  BY DEF Seen
<1> QED
  BY <1>6, <1>7, <1>8, <1>9, <1>10, DocumentSeen

(* A step that touches one URL is a step of the map. *)
LEMMA OneURLMaps ==
    ASSUME NEW u \in Locations, \A v \in Locations : v # u => (Seen(Find(v)))' = Seen(Find(v)),
           (Seen(Find(u)))' \in AllDocuments \cup {NoDocument}
    PROVE  Map!MapNext
<1> DEFINE contents == [v \in Locations |-> Seen(Find(v))]
<1>1. contents' = [v \in Locations |-> (Seen(Find(v)))']
  OBVIOUS
<1>2. contents' = [contents EXCEPT ![u] = contents'[u]]
  <2> DEFINE next == contents'[u]
  <2>1. next = (Seen(Find(u)))'
    BY <1>1
  <2>2. \A v \in Locations : contents'[v] = IF v = u THEN next ELSE contents[v]
    BY <1>1, <2>1
  <2> HIDE DEF next
  <2> QED
    BY <1>1, <2>2 DEF next
<1>3. contents'[u] = (Seen(Find(u)))'
  BY <1>1
<1>4. Map!OnlyAt(u)
  BY <1>2 DEF Map!OnlyAt
<1>5. CASE (Seen(Find(u)))' \in AllDocuments
  <2>1. Map!Put(u)
    BY <1>3, <1>4, <1>5 DEF Map!Put, AllDocuments, Contents, Times
  <2> QED
    BY <2>1 DEF Map!MapNext
<1>6. CASE (Seen(Find(u)))' = NoDocument
  <2>1. Map!Drop(u)
    BY <1>3, <1>4, <1>6 DEF Map!Drop
  <2> QED
    BY <2>1 DEF Map!MapNext
<1> QED
  BY <1>5, <1>6

(* Each step of the database is one of the map, or changes nothing that is *)
(* seen. *)
LEMMA StoreStep ==
    ASSUME StoreInv, [StoreNext]_storeVars
    PROVE  /\ StoreInv'
           /\ Map!MapNext \/ UNCHANGED [u \in Locations |-> Seen(Find(u))]
<1>1. ASSUME NEW u \in Locations, AddDocument(u)
      PROVE  StoreInv' /\ Map!MapNext
  <2>1. PICK s \in Samples : Add(u, Document(s.time, s.head, s.descriptions))
    BY <1>1 DEF AddDocument
  <2>2. UNCHANGED Config
    BY <1>1 DEF AddDocument
  <2>3. s \in Contents /\ s.time \in Times
    BY <2>1 DEF Contents, Times
  <2>4. s.time \in Nat /\ s.head \in Nat /\ s.descriptions \in Seq(Nat)
    BY <2>3, ContentTypes
  <2>5. Deserialize(Record(Document(s.time, s.head, s.descriptions)))
           = Loaded(s.time, s.head, s.descriptions)
    BY <2>4, FiledRead
  <2>6. IsDocument(Deserialize(Record(Document(s.time, s.head, s.descriptions))))
    BY <2>3, <2>5 DEF IsDocument
  <2> QED
    BY <2>1, <2>2, <2>6, AddAtOne, OneURLMaps
<1>2. ASSUME NEW u \in Locations, NEW look \in BOOLEAN, UpdateDocument(u, look)
      PROVE  StoreInv' /\ Map!MapNext
  <2>1. PICK t \in {s.time : s \in Samples} :
           Add(u, [IF look THEN DocHead(Find(u), cf) ELSE Find(u) EXCEPT !.docTime = t])
    BY <1>2 DEF UpdateDocument
  <2>2. Exists(u) /\ UNCHANGED Config
    BY <1>2 DEF UpdateDocument
  <2>3. PICK r \in Times, s \in Contents : Find(u) = Loaded(r, s.head, s.descriptions)
    BY <2>2, FoundSeen DEF IsDocument
  <2>4. t \in Times
    BY <2>1 DEF Times
  <2>5. t \in Nat /\ r \in Nat /\ s.head \in Nat /\ s.descriptions \in Seq(Nat)
    BY <2>3, <2>4, ContentTypes
  <2>6. PICK ref : ref = [IF look THEN DocHead(Find(u), cf) ELSE Find(u) EXCEPT !.docTime = t]
    OBVIOUS
  <2>7. Deserialize(Record(ref)) = Loaded(t, s.head, s.descriptions)
    <3>1. CASE look
      <4>1. ref = [DocHead(Loaded(r, s.head, s.descriptions), cf) EXCEPT !.docTime = t]
        BY <2>3, <2>6, <3>1
      <4> QED
        BY <2>5, <4>1, FiledRead
    <3>2. CASE ~look
      <4>1. ref = [Loaded(r, s.head, s.descriptions) EXCEPT !.docTime = t]
        BY <2>3, <2>6, <3>2
      <4> QED
        BY <2>5, <4>1, FiledRead
    <3> QED
      BY <3>1, <3>2
  <2>8. IsDocument(Deserialize(Record(ref)))
    BY <2>3, <2>4, <2>7 DEF IsDocument
  <2>9. Add(u, ref)
    BY <2>1, <2>6
  <2> QED
    BY <2>2, <2>8, <2>9, AddAtOne, OneURLMaps
<1>3. ASSUME NEW u \in Locations, Delete(u)
      PROVE  StoreInv' /\ Map!MapNext
  BY <1>3, DeleteAtOne, OneURLMaps
<1>4. CASE UNCHANGED storeVars
  <2>1. key' = key /\ myTryUncoded' = myTryUncoded /\ cf' = cf /\ dbf' = dbf
    BY <1>4 DEF storeVars
  <2>2. \A x : IsDocument(x)' <=> IsDocument(x)
    BY <2>1 DEF IsDocument, Loaded, PressedHead
  <2>3. StoreInv'
    BY <2>1, <2>2 DEF StoreInv, KeysApart
  <2>4. \A u \in Locations : (Seen(Find(u)))' = Seen(Find(u))
    BY <2>1 DEF Seen, Find
  <2> QED
    BY <2>3, <2>4
<1> QED
  BY <1>1, <1>2, <1>3, <1>4 DEF StoreNext

(* For every document, whatever the length of its fields and whether heads *)
(* are compressed: a record that was written is read as the document that  *)
(* was filed (DocumentRef::Serialize, Deserialize). *)
THEOREM RecordsReadBack == ReadsBack
<1> SUFFICES ASSUME NEW s \in Samples
             PROVE  Seen(Deserialize(Record(Document(s.time, s.head, s.descriptions)))) = Handed(s)
  BY DEF ReadsBack
<1>1. /\ s = [time |-> s.time, head |-> s.head, descriptions |-> s.descriptions]
      /\ s.time \in Nat /\ s.head \in Nat /\ s.descriptions \in Seq(Nat)
  BY DocStoreAssumption
<1>2. Deserialize(Record(Document(s.time, s.head, s.descriptions)))
         = Loaded(s.time, s.head, s.descriptions)
  BY <1>1, FiledRead
<1>3. Seen(Loaded(s.time, s.head, s.descriptions))
         = [time |-> s.time, head |-> Uncompressed(s.head), descriptions |-> s.descriptions]
  BY <1>1, LoadedSeen
<1> QED
  BY <1>2, <1>3 DEF Handed

(* From every database in which no URL has another one's key, the document *)
(* database is a map: a step changes what is found of one URL at most, and *)
(* what is found is a document that was filed (DocumentDB). *)
THEOREM StoreImplementsMap == StoreSpec /\ KeysApart => StoreIsMap
<1>1. StoreInit /\ KeysApart => StoreInv
  <2> SUFFICES ASSUME StoreInit, KeysApart PROVE StoreInv
    OBVIOUS
  <2>1. PICK old : dbf = [k \in old |-> Record(Document(1, 1, <<>>))]
    BY DEF StoreInit
  <2>2. <<>> \in Seq(Nat) /\ OldOne.head = 1 /\ OldOne.descriptions = <<>>
    BY EmptySeq DEF OldOne
  <2>3. Deserialize(Record(Document(1, 1, <<>>))) = Loaded(1, 1, <<>>)
    BY <2>2, FiledRead
  <2>4. IsDocument(Deserialize(Record(Document(1, 1, <<>>))))
    BY <2>2, <2>3 DEF IsDocument, Times, Contents
  <2>5. DOMAIN dbf = old /\ \A k \in old : dbf[k] = Record(Document(1, 1, <<>>))
    BY <2>1
  <2>6. dbf = [k \in DOMAIN dbf |-> dbf[k]]
    BY <2>1
  <2> QED
    BY <2>4, <2>5, <2>6 DEF StoreInv
<1>2. StoreInv => Map!MapInit
  <2> SUFFICES ASSUME StoreInv PROVE Map!MapInit
    OBVIOUS
  <2>1. \A u \in Locations : Seen(Find(u)) \in AllDocuments \cup {NoDocument}
    BY FoundSeen
  <2> QED
    BY <2>1 DEF Map!MapInit, AllDocuments, Contents, Times
<1>3. StoreInv /\ [StoreNext]_storeVars
         => StoreInv' /\ [Map!MapNext]_([u \in Locations |-> Seen(Find(u))])
  BY StoreStep
<1> QED
  BY <1>1, <1>2, <1>3, RecordsReadBack, PTL DEF StoreSpec, StoreIsMap, Map!MapSpec

-----------------------------------------------------------------------------
(* The list of documents.                                                  *)

(* Whoever has a key knows the URL, and URLs are taken for themselves.     *)
KeysDecode ==
    \A u \in Locations : decode(key[u]) = u /\ (myTryUncoded => decode(u) = u)

(* Every record is under the key of a URL, or, old ones, under the URL;    *)
(* never is there one under each. *)
UnderKeys ==
    /\ KeysDecode
    /\ \A k \in DOMAIN dbf : \E u \in Locations : k = key[u] \/ (myTryUncoded /\ k = u)
    /\ \A u \in Locations :
          myTryUncoded /\ u \in DOMAIN dbf /\ key[u] \in DOMAIN dbf => key[u] = u

(* Keys that can be decoded are apart. *)
LEMMA DecodedApart == KeysDecode => KeysApart
BY DEF KeysDecode, KeysApart

(* At first there are only old records. *)
LEMMA InitUnderKeys == StoreInit /\ KeysDecode => UnderKeys
<1> SUFFICES ASSUME StoreInit, KeysDecode PROVE UnderKeys
  OBVIOUS
<1>1. PICK old \in OldSets : /\ myTryUncoded \/ old = {}
                             /\ dbf = [k \in old |-> Record(Document(1, 1, <<>>))]
  BY DEF StoreInit
<1>2. DOMAIN dbf = old /\ old \subseteq Locations
  BY <1>1, DocStoreAssumption
<1>3. ASSUME NEW u \in Locations, u \in DOMAIN dbf, key[u] \in DOMAIN dbf, myTryUncoded
      PROVE  key[u] = u
  <2>1. key[u] \in Locations
    BY <1>2, <1>3
  <2>2. decode(key[u]) = key[u] /\ decode(key[u]) = u
    BY <1>3, <2>1 DEF KeysDecode
  <2> QED
    BY <2>2
<1> QED
  BY <1>1, <1>2, <1>3 DEF UnderKeys

(* A record is filed under its key only. *)
LEMMA AddUnderKeys ==
    ASSUME UnderKeys, NEW u \in Locations, NEW ref, Add(u, ref), UNCHANGED Config
    PROVE  UnderKeys'
<1>1. key' = key /\ myTryUncoded' = myTryUncoded /\ KeysDecode' /\ KeysDecode
  BY DEF Config, codecVars, UnderKeys, KeysDecode, decode
<1>2. DOMAIN dbf' = (IF myTryUncoded THEN DOMAIN dbf \ {u} ELSE DOMAIN dbf) \cup {key[u]}
  <2>1. CASE myTryUncoded
    BY <2>1 DEF Add, Without
  <2>2. CASE ~myTryUncoded
    BY <2>2 DEF Add
  <2> QED
    BY <2>1, <2>2
<1>3. \A k \in DOMAIN dbf' : \E v \in Locations : k = key'[v] \/ (myTryUncoded' /\ k = v)
  BY <1>1, <1>2 DEF UnderKeys
<1>4. ASSUME NEW v \in Locations, myTryUncoded, v \in DOMAIN dbf', key[v] \in DOMAIN dbf'
      PROVE  key[v] = v
  <2>1. CASE v \in DOMAIN dbf /\ key[v] \in DOMAIN dbf
    BY <1>4, <2>1 DEF UnderKeys
  <2>2. CASE key[v] = key[u]
    <3>1. v = u
      BY <1>1, <2>2 DEF KeysDecode
    <3> QED
      BY <1>2, <1>4, <3>1
  <2>3. CASE v = key[u]
    <3>1. decode(v) = v /\ decode(v) = u
      BY <1>1, <1>4, <2>3 DEF KeysDecode
    <3> QED
      BY <2>3, <3>1
  <2> QED
    BY <1>2, <1>4, <2>1, <2>2, <2>3
<1> QED
  BY <1>1, <1>3, <1>4 DEF UnderKeys

(* No step files a document twice, or where no URL leads.                  *)
LEMMA UnderKeysStep == UnderKeys /\ [StoreNext]_storeVars => UnderKeys'
<1> SUFFICES ASSUME UnderKeys, [StoreNext]_storeVars PROVE UnderKeys'
  OBVIOUS
<1>1. CASE UNCHANGED storeVars
  BY <1>1 DEF UnderKeys, KeysDecode, decode, storeVars, codecVars
<1>2. CASE \E u \in Locations : AddDocument(u) \/ \E look \in BOOLEAN : UpdateDocument(u, look)
  BY <1>2, AddUnderKeys DEF AddDocument, UpdateDocument
<1>3. ASSUME NEW u \in Locations, Delete(u) PROVE UnderKeys'
  <2>1. key' = key /\ myTryUncoded' = myTryUncoded /\ KeysDecode'
    BY <1>3 DEF Delete, Config, codecVars, UnderKeys, KeysDecode, decode
  <2>2. DOMAIN dbf' \subseteq DOMAIN dbf
    <3>1. dbf' = dbf \/ \E k : dbf' = Without(k)
      BY <1>3 DEF Delete
    <3> QED
      BY <3>1 DEF Without
  <2> QED
    BY <2>1, <2>2 DEF UnderKeys
<1> QED
  BY <1>1, <1>2, <1>3 DEF StoreNext

(* What is in the database is listed. *)
LEMMA UnderKeysListed == UnderKeys => ListsAll
<1> SUFFICES ASSUME UnderKeys PROVE ListsAll
  OBVIOUS
<1>1. KeysDecode /\ KeysApart
  BY DecodedApart DEF UnderKeys
<1>2. ASSUME NEW k \in DOMAIN dbf
      PROVE  \E u \in Locations : decode(k) = u /\ (k = key[u] \/ (myTryUncoded /\ k = u))
  <2>1. PICK u \in Locations : k = key[u] \/ (myTryUncoded /\ k = u)
    BY DEF UnderKeys
  <2>2. decode(k) = u
    BY <1>1, <2>1 DEF KeysDecode
  <2> QED
    BY <2>1, <2>2
<1>3. \A k \in DOMAIN dbf : Exists(decode(k))
  BY <1>2 DEF Exists
<1>4. ASSUME NEW j \in DOMAIN dbf, NEW k \in DOMAIN dbf, decode(j) = decode(k)
      PROVE  j = k
  <2>1. PICK u \in Locations : decode(j) = u /\ (j = key[u] \/ (myTryUncoded /\ j = u))
    BY <1>2
  <2>2. k = key[u] \/ (myTryUncoded /\ k = u)
    BY <1>2, <1>4, <2>1
  <2>3. myTryUncoded /\ u \in DOMAIN dbf /\ key[u] \in DOMAIN dbf => key[u] = u
    BY DEF UnderKeys
  <2> QED
    BY <2>1, <2>2, <2>3
<1>5. ASSUME NEW u \in Locations PROVE FindCoded(key[u]) = Find(u)
  BY <1>1 DEF KeysDecode, FindCoded, Find
<1> QED
  BY <1>1, <1>3, <1>4, <1>5 DEF ListsAll

(* Whenever a key can be decoded to its URL, which is what the codec       *)
(* promises (HtWordCodec; DecodesBack), URLs() lists every document, under *)
(* its URL and once, and a document is found by its URL and by its key     *)
(* (DocumentDB::operator[], FindCoded, Delete), however documents that an  *)
(* older version filed are updated, deleted and filed again. *)
THEOREM DocumentsListed == StoreSpec /\ KeysDecode => []ListsAll
<1> QED
  BY InitUnderKeys, UnderKeysStep, UnderKeysListed, PTL DEF StoreSpec

=============================================================================
