---------------------------- MODULE ServerProofs ----------------------------
(***************************************************************************)
(* Theorems about a server: what a request makes of its answer, for every  *)
(* answer and every way it may arrive; how long Server::delay waits, for   *)
(* every server_wait_time; and what Server::robotstxt disallows, for every *)
(* robots.txt.                                                             *)
(***************************************************************************)
EXTENDS Transport, ServerDelay, Robots, SequenceTheorems, TLAPS

-----------------------------------------------------------------------------
(* Server::delay.                                                          *)

(* Whatever the clock does between two connections, _last_connection lies   *)
(* between the last two of them, and a sleep lasts long enough after the   *)
(* one before. *)
THEOREM DelayInductive == DelaySpec => []DelayInv
<1>1. DelayInit => DelayInv
  <2> SUFFICES ASSUME DelayInit PROVE DelayInv
    OBVIOUS
  <2>1. signalled \in BOOLEAN
    BY DEF DelayInit
  <2> QED
    BY <2>1, DelayAssumption DEF DelayInit, DelayInv, DelayTypeOK
<1>2. DelayInv /\ [DelayNext]_delayVars => DelayInv'
  <2> SUFFICES ASSUME DelayInv, [DelayNext]_delayVars PROVE DelayInv'
    OBVIOUS
  <2> USE DelayAssumption DEF DelayInv, DelayTypeOK
  <2>1. CASE Pass
    BY <2>1 DEF Pass
  <2>5. CASE Interrupt
    BY <2>5 DEF Interrupt
  <2>2. CASE Delay
    BY <2>2 DEF Delay, HowLong
  <2>3. CASE Retrieve
    BY <2>3 DEF Retrieve
  <2>4. CASE UNCHANGED delayVars
    BY <2>4 DEF delayVars
  <2> QED
    BY <2>1, <2>2, <2>3, <2>4, <2>5 DEF DelayNext
<1> QED
  BY <1>1, <1>2, PTL DEF DelaySpec

(* However long retrievals take, no three connections to a server begin    *)
(* within less than server_wait_time seconds of each other, until a signal. *)
THEOREM SecondWaits == DelaySpec => EverySecondWaits
<1>1. DelayInv /\ [DelayNext]_delayVars
        => [Retrieve /\ ~signalled => now >= prev2 + WaitTime]_delayVars
  BY DelayAssumption DEF DelayInv, DelayTypeOK, Retrieve
<1> QED
  BY <1>1, DelayInductive, PTL DEF DelaySpec, EverySecondWaits

-----------------------------------------------------------------------------
(* Server::robotstxt.                                                      *)

Own(n) == Agents(n, {"me"})

(* The sections whose paths count when n lines were read. *)
Ours(n) == IF Own(n) # {} THEN {Min(Own(n))} ELSE Agents(n, {"*"})

Collected(n) ==
    {file[i].rest : i \in {j \in 1..n : file[j].name = "disallow" /\ Section(j) \in Ours(n)}}
        \ {""}

(* After n lines attention is paid to the section that the next line       *)
(* stands under if it is one of ours, and what is collected is what those  *)
(* sections disallow so far; the first section for this robot is the least *)
(* of them. *)
SoFar(n) ==
    /\ seenMyname <=> Own(n) # {}
    /\ payAttention <=> Section(n) \in Ours(n)
    /\ disallow \in Seq(Paths) /\ Range(disallow) = Collected(n)
    /\ \A j \in 0..n : Section(j) \in 0..j
    /\ Own(n) # {} => Min(Own(n)) \in Own(n) /\ \A x \in Own(n) : Min(Own(n)) <= x

RobotsInv ==
    /\ file \in Seq(RobotsLine) /\ read \in 0..Len(file)
    /\ answered \in {"no", "ok"} \cup NoRobots \cup Unreachable
    /\ answered # "ok" => read = 0
    /\ answered # "no" => (badServer <=> answered \in Unreachable)
    /\ payAttention \in BOOLEAN /\ seenMyname \in BOOLEAN
    /\ \A n \in 0..Len(file) : n = read => SoFar(n)

(* One line more. *)
LEMMA OneLineMore ==
    ASSUME NEW n \in Nat, NEW as
    PROVE  Agents(n + 1, as) =
              Agents(n, as) \cup (IF file[n + 1].name = "user-agent" /\ file[n + 1].rest \in as
                                  THEN {n + 1} ELSE {})
<1>1. 1..(n + 1) = (1..n) \cup {n + 1}
  OBVIOUS
<1> QED
  BY <1>1 DEF Agents

(* The numbers of the first n lines. *)
LEMMA AgentsAreLines == ASSUME NEW n \in Nat, NEW as PROVE Agents(n, as) \subseteq 1..n
BY DEF Agents

(* A number not less than the others is the greatest. *)
LEMMA MaxIs ==
    ASSUME NEW S \in SUBSET Nat, NEW m \in S, \A x \in S : m >= x
    PROVE  Max(S) = m
<1>1. \A x \in S : (\A y \in S : x >= y) => x = m
  <2> SUFFICES ASSUME NEW x \in S, \A y \in S : x >= y PROVE x = m
    OBVIOUS
  <2>1. x >= m /\ m >= x /\ x \in Nat /\ m \in Nat
    OBVIOUS
  <2> QED
    BY <2>1
<1> QED
  BY <1>1 DEF Max

(* A number not greater than the others is the least. *)
LEMMA MinIs ==
    ASSUME NEW S \in SUBSET Nat, NEW m \in S, \A x \in S : m <= x
    PROVE  Min(S) = m
<1>1. \A x \in S : (\A y \in S : x =< y) => x = m
  <2> SUFFICES ASSUME NEW x \in S, \A y \in S : x =< y PROVE x = m
    OBVIOUS
  <2>1. x <= m /\ m <= x /\ x \in Nat /\ m \in Nat
    OBVIOUS
  <2> QED
    BY <2>1
<1> QED
  BY <1>1 DEF Min

(* A User-agent line begins a section; any other line stays in it. *)
LEMMA SectionOfNext ==
    ASSUME NEW n \in Nat, n < Len(file), file \in Seq(RobotsLine)
    PROVE  Section(n + 1) = IF file[n + 1].name = "user-agent" THEN n + 1 ELSE Section(n)
<1> DEFINE all == {"*", "me", "other"}
<1>1. file[n + 1] \in RobotsLine
  BY LenProperties, ElementOfSeq
<1>2. CASE file[n + 1].name = "user-agent"
  <2>1. file[n + 1].rest \in all
    BY <1>1, <1>2 DEF RobotsLine
  <2>2. Agents(n + 1, all) = Agents(n, all) \cup {n + 1}
    BY <1>2, <2>1, OneLineMore
  <2>3. Agents(n, all) \subseteq 1..n
    BY AgentsAreLines
  <2> DEFINE S == {0} \cup Agents(n + 1, all)
  <2>4. S \in SUBSET Nat /\ n + 1 \in S /\ \A x \in S : n + 1 >= x
    BY <2>2, <2>3
  <2> HIDE DEF S
  <2>5. Max(S) = n + 1
    BY <2>4, MaxIs
  <2> QED
    BY <1>2, <2>5 DEF Section, S
<1>3. CASE file[n + 1].name # "user-agent"
  <2>1. Agents(n + 1, all) = Agents(n, all)
    <3>1. \A as : Agents(n + 1, as) = Agents(n, as) \cup {}
      BY <1>3, OneLineMore
    <3>2. \A S : S \cup {} = S
      OBVIOUS
    <3> QED
      BY <3>1, <3>2
  <2> QED
    BY <1>3, <2>1 DEF Section
<1> QED
  BY <1>2, <1>3

(* The first section for this robot is the only one of ours; before it,    *)
(* every section for all robots is. *)
LEMMA OwnOfNext ==
    ASSUME NEW n \in Nat, n < Len(file), file \in Seq(RobotsLine), SoFar(n),
           NEW l, l = file[n + 1]
    PROVE  /\ l.name = "user-agent" /\ l.rest = "me" =>
                /\ Own(n + 1) = Own(n) \cup {n + 1}
                /\ Min(Own(n + 1)) = IF Own(n) = {} THEN n + 1 ELSE Min(Own(n))
           /\ ~(l.name = "user-agent" /\ l.rest = "me") => Own(n + 1) = Own(n)
           /\ l.name = "user-agent" /\ l.rest = "*" =>
                Agents(n + 1, {"*"}) = Agents(n, {"*"}) \cup {n + 1}
           /\ ~(l.name = "user-agent" /\ l.rest = "*") =>
                Agents(n + 1, {"*"}) = Agents(n, {"*"})
<1>1. Own(n + 1) = Own(n) \cup (IF l.name = "user-agent" /\ l.rest \in {"me"}
                                THEN {n + 1} ELSE {})
  BY OneLineMore DEF Own
<1>2. Agents(n + 1, {"*"}) =
         Agents(n, {"*"}) \cup (IF l.name = "user-agent" /\ l.rest \in {"*"}
                                THEN {n + 1} ELSE {})
  BY OneLineMore
<1>3. Own(n) \subseteq 1..n
  BY AgentsAreLines DEF Own
<1>4. ASSUME Own(n + 1) = Own(n) \cup {n + 1}
      PROVE  Min(Own(n + 1)) = IF Own(n) = {} THEN n + 1 ELSE Min(Own(n))
  <2>1. Own(n + 1) \in SUBSET Nat
    BY <1>3, <1>4
  <2>2. CASE Own(n) = {}
    <3>1. n + 1 \in Own(n + 1) /\ \A x \in Own(n + 1) : n + 1 <= x
      BY <1>4, <2>2
    <3> QED
      BY <2>1, <2>2, <3>1, MinIs
  <2>3. CASE Own(n) # {}
    <3>1. PICK m : m = Min(Own(n))
      OBVIOUS
    <3>2. m \in Own(n) /\ \A x \in Own(n) : m <= x
      BY <2>3, <3>1 DEF SoFar
    <3>3. m \in Own(n + 1) /\ \A x \in Own(n + 1) : m <= x
      BY <1>3, <1>4, <3>2
    <3> QED
      BY <2>1, <2>3, <3>1, <3>3, MinIs
  <2> QED
    BY <2>2, <2>3
<1> QED
  BY <1>1, <1>2, <1>4

(* What a line adds to what is collected, if it adds anything. *)
LEMMA CollectedOfNext ==
    ASSUME NEW n \in Nat, n < Len(file), file \in Seq(RobotsLine), SoFar(n),
           Ours(n + 1) = Ours(n)
    PROVE  Collected(n + 1) =
              Collected(n) \cup (IF file[n + 1].name = "disallow" /\ Section(n + 1) \in Ours(n)
                                 THEN {file[n + 1].rest} \ {""} ELSE {})
<1>1. 1..(n + 1) = (1..n) \cup {n + 1}
  OBVIOUS
<1> QED
  BY <1>1 DEF Collected

(* What the program knows after one line more. *)
Knows(n, mine, attention, patterns) ==
    /\ mine <=> Own(n) # {}
    /\ attention <=> Section(n) \in Ours(n)
    /\ patterns \in Seq(Paths) /\ Range(patterns) = Collected(n)

(* A User-agent line changes the sections of ours only if it is the first  *)
(* of them for this robot, or one for all robots before that. *)
LEMMA UserAgentKnown ==
    ASSUME NEW n \in Nat, n < Len(file), file \in Seq(RobotsLine), SoFar(n),
           seenMyname \in BOOLEAN, NEW l, l = file[n + 1], l.name = "user-agent"
    PROVE  LET own == l.rest = "me"
           IN Knows(n + 1, seenMyname \/ own,
                    IF own THEN ~seenMyname ELSE l.rest = "*" /\ ~seenMyname,
                    IF own /\ ~seenMyname THEN <<>> ELSE disallow)
<1>1. Section(n + 1) = n + 1
  BY SectionOfNext
<1>2. \A j \in 1..n : Section(j) \in 0..n
  BY DEF SoFar
<1>3. Own(n) \subseteq 1..n /\ Agents(n, {"*"}) \subseteq 1..n
  BY AgentsAreLines DEF Own
<1>4. \A j \in 1..(n + 1) : file[j].name = "disallow" => j \in 1..n
  OBVIOUS
<1>5. Own(n) # {} => Min(Own(n)) \in 1..n
  BY <1>3 DEF SoFar
<1>6. CASE l.rest = "me" /\ ~seenMyname
  <2>1. Own(n) = {}
    BY <1>6 DEF SoFar
  <2>2. Own(n + 1) = {n + 1} /\ Min(Own(n + 1)) = n + 1
    BY <1>6, <2>1, OwnOfNext
  <2>3. Ours(n + 1) = {n + 1}
    BY <2>2 DEF Ours
  <2>4. \A j \in 1..(n + 1) : file[j].name = "disallow" => Section(j) \notin {n + 1}
    BY <1>2, <1>4
  <2>5. Collected(n + 1) = {}
    BY <2>3, <2>4 DEF Collected
  <2>6. <<>> \in Seq(Paths) /\ Range(<<>>) = {}
    BY EmptySeq DEF Range
  <2> QED
    BY <1>1, <1>6, <2>2, <2>3, <2>5, <2>6 DEF Knows
<1>7. CASE ~(l.rest = "me" /\ ~seenMyname) /\ ~(l.rest = "*" /\ ~seenMyname)
  <2>1. Own(n + 1) # {} <=> Own(n) # {}
    BY <1>7, OwnOfNext DEF SoFar
  <2>2. Ours(n + 1) = Ours(n)
    <3>1. CASE Own(n) # {}
      <4>1. Min(Own(n + 1)) = Min(Own(n))
        BY <3>1, OwnOfNext
      <4> QED
        BY <2>1, <3>1, <4>1 DEF Ours
    <3>2. CASE Own(n) = {}
      <4>1. ~seenMyname
        BY <3>2 DEF SoFar
      <4>2. Agents(n + 1, {"*"}) = Agents(n, {"*"})
        BY <1>7, <4>1, OwnOfNext
      <4> QED
        BY <2>1, <3>2, <4>2 DEF Ours
    <3> QED
      BY <3>1, <3>2
  <2>3. n + 1 \notin Ours(n)
    BY <1>3, <1>5 DEF Ours
  <2>4. Collected(n + 1) = Collected(n) \cup {}
    BY <2>2, CollectedOfNext
  <2>5. disallow \in Seq(Paths) /\ Range(disallow) = Collected(n + 1)
    BY <2>4 DEF SoFar
  <2>6. seenMyname <=> Own(n + 1) # {}
    BY <2>1 DEF SoFar
  <2> QED
    BY <1>1, <1>7, <2>2, <2>3, <2>5, <2>6, OwnOfNext DEF Knows
<1>8. CASE l.rest = "*" /\ ~seenMyname
  <2>1. Own(n + 1) = {} /\ Own(n) = {}
    BY <1>8, OwnOfNext DEF SoFar
  <2>2. Ours(n) = Agents(n, {"*"}) /\ Ours(n + 1) = Agents(n, {"*"}) \cup {n + 1}
    BY <1>8, <2>1, OwnOfNext DEF Ours
  <2>3. \A j \in 1..n : Section(j) \in Ours(n + 1) <=> Section(j) \in Ours(n)
    BY <1>2, <2>2
  <2>4. {j \in 1..(n + 1) : file[j].name = "disallow" /\ Section(j) \in Ours(n + 1)}
           = {j \in 1..n : file[j].name = "disallow" /\ Section(j) \in Ours(n)}
    BY <1>4, <2>3
  <2>5. Collected(n + 1) = Collected(n)
    BY <2>4 DEF Collected
  <2>6. l.rest # "me" /\ ~(seenMyname \/ l.rest = "me")
    BY <1>8
  <2> QED
    BY <1>1, <1>8, <2>1, <2>2, <2>5, <2>6 DEF Knows, SoFar
<1> QED
  BY <1>6, <1>7, <1>8

(* Any other line leaves the sections alone; a path is collected where     *)
(* attention is paid. *)
LEMMA OtherLineKnown ==
    ASSUME NEW n \in Nat, n < Len(file), file \in Seq(RobotsLine), SoFar(n),
           payAttention \in BOOLEAN, NEW l, l = file[n + 1], l.name # "user-agent"
    PROVE  Knows(n + 1, seenMyname, payAttention,
                 IF l.name = "disallow" /\ payAttention /\ l.rest # ""
                 THEN Append(disallow, l.rest) ELSE disallow)
<1>1. Section(n + 1) = Section(n)
  BY SectionOfNext
<1>2. Own(n + 1) = Own(n) /\ Ours(n + 1) = Ours(n)
  BY OwnOfNext DEF Ours
<1>3. /\ disallow \in Seq(Paths) /\ Range(disallow) = Collected(n)
      /\ payAttention <=> Section(n) \in Ours(n)
      /\ seenMyname <=> Own(n) # {}
  BY DEF SoFar
<1>4. l \in RobotsLine
  BY LenProperties, ElementOfSeq
<1>5. CASE l.name = "disallow" /\ payAttention /\ l.rest # ""
  <2>1. l.rest \in Paths
    BY <1>4, <1>5 DEF RobotsLine
  <2>2. Collected(n + 1) = Collected(n) \cup {l.rest}
    BY <1>1, <1>2, <1>3, <1>5, CollectedOfNext
  <2>3. /\ Append(disallow, l.rest) \in Seq(Paths)
        /\ Range(Append(disallow, l.rest)) = Range(disallow) \cup {l.rest}
    <3>1. /\ Append(disallow, l.rest) \in Seq(Paths)
          /\ Len(Append(disallow, l.rest)) = Len(disallow) + 1
          /\ \A i \in 1..Len(disallow) : Append(disallow, l.rest)[i] = disallow[i]
          /\ Append(disallow, l.rest)[Len(disallow) + 1] = l.rest
      BY <1>3, <2>1, AppendProperties
    <3>2. /\ Len(disallow) \in Nat /\ DOMAIN disallow = 1..Len(disallow)
          /\ DOMAIN Append(disallow, l.rest) = 1..(Len(disallow) + 1)
      BY <1>3, <3>1, LenProperties
    <3>3. 1..(Len(disallow) + 1) = (1..Len(disallow)) \cup {Len(disallow) + 1}
      BY <3>2
    <3> QED
      BY <3>1, <3>2, <3>3 DEF Range
  <2> QED
    BY <1>1, <1>2, <1>3, <1>5, <2>2, <2>3 DEF Knows
<1>6. CASE ~(l.name = "disallow" /\ payAttention /\ l.rest # "")
  <2>1. Collected(n + 1) = Collected(n) \cup {}
    BY <1>1, <1>2, <1>3, <1>6, CollectedOfNext
  <2> QED
    BY <1>1, <1>2, <1>3, <1>6, <2>1 DEF Knows
<1> QED
  BY <1>5, <1>6

(* The sections depend on the file only, and the program on no other file. *)
LEMMA SameFile ==
    ASSUME file' = file, NEW n
    PROVE  /\ Own(n)' = Own(n) /\ Ours(n)' = Ours(n) /\ Collected(n)' = Collected(n)
           /\ Section(n)' = Section(n)
BY DEF Own, Ours, Collected, Section, Agents

(* Every line is read as the lemmas say. *)
LEMMA RobotsStep ==
    ASSUME RobotsInv, [RobotsNext]_robotsVars
    PROVE  RobotsInv'
<1>1. /\ file \in Seq(RobotsLine) /\ read \in 0..Len(file) /\ Len(file) \in Nat
      /\ payAttention \in BOOLEAN /\ seenMyname \in BOOLEAN /\ SoFar(read)
  BY LenProperties DEF RobotsInv
<1>2. ASSUME file' = file, NEW n \in 0..Len(file), n = read', SoFar(read), n = read \/ n = read + 1,
             IF n = read THEN UNCHANGED <<seenMyname, payAttention, disallow>>
                         ELSE Knows(n, seenMyname', payAttention', disallow')
      PROVE  SoFar(n)'
  <2>1. Knows(n, seenMyname', payAttention', disallow')
    BY <1>2 DEF Knows, SoFar
  <2>2. /\ \A j \in 0..n : Section(j) \in 0..j
        /\ Own(n) # {} => Min(Own(n)) \in Own(n) /\ \A x \in Own(n) : Min(Own(n)) <= x
    <3>1. CASE n = read
      BY <1>2, <3>1 DEF SoFar
    <3>2. CASE n = read + 1
      <4>1. read \in Nat /\ read < Len(file) /\ 0..n = (0..read) \cup {n}
        BY <1>1, <1>2, <3>2
      <4>2. Section(n) \in {n, Section(read)} /\ read \in 0..read
        BY <1>1, <3>2, <4>1, SectionOfNext
      <4>3. Section(read) \in 0..read /\ \A j \in 0..read : Section(j) \in 0..j
        BY <1>1, <4>2 DEF SoFar
      <4>4. Section(n) \in 0..n
        BY <3>2, <4>1, <4>2, <4>3
      <4>5. Own(read) \subseteq 1..read
        BY <4>1, AgentsAreLines DEF Own
      <4>6. \/ Own(n) = Own(read)
            \/ /\ Own(n) = Own(read) \cup {n}
               /\ Min(Own(n)) = IF Own(read) = {} THEN n ELSE Min(Own(read))
        BY <1>1, <3>2, <4>1, OwnOfNext
      <4>7. Own(n) # {} => Min(Own(n)) \in Own(n) /\ \A x \in Own(n) : Min(Own(n)) <= x
        <5>1. CASE Own(n) = Own(read)
          BY <1>1, <5>1 DEF SoFar
        <5>2. CASE /\ Own(n) = Own(read) \cup {n}
                   /\ Min(Own(n)) = IF Own(read) = {} THEN n ELSE Min(Own(read))
          <6>1. PICK m : m = Min(Own(n))
            OBVIOUS
          <6>2. CASE Own(read) = {}
            BY <3>2, <4>1, <5>2, <6>2
          <6>3. CASE Own(read) # {}
            <7>1. m \in Own(read) /\ \A x \in Own(read) : m <= x
              BY <1>1, <5>2, <6>1, <6>3 DEF SoFar
            <7>2. m \in 1..read /\ m <= n
              BY <3>2, <4>1, <4>5, <7>1
            <7> QED
              BY <5>2, <6>1, <7>1, <7>2
          <6> QED
            BY <6>2, <6>3
        <5> QED
          BY <4>6, <5>1, <5>2
      <4> QED
        BY <4>1, <4>3, <4>4, <4>7
    <3> QED
      BY <1>2, <3>1, <3>2
  <2>3. /\ Own(n)' = Own(n) /\ Ours(n)' = Ours(n) /\ Collected(n)' = Collected(n)
        /\ \A j : Section(j)' = Section(j)
    BY <1>2, SameFile
  <2> QED
    BY <2>1, <2>2, <2>3 DEF SoFar, Knows
<1>3. ASSUME NEW status \in NoRobots \cup Unreachable \cup {"ok"}, RequestRobots(status)
      PROVE  RobotsInv'
  <2>1. /\ answered = "no" /\ answered' = status /\ file' = file /\ read' = read
        /\ UNCHANGED <<seenMyname, payAttention, disallow>>
        /\ badServer' = (status \notin NoRobots \cup {"ok"})
    BY <1>3 DEF RequestRobots
  <2>2. badServer' <=> status \in Unreachable
    BY <2>1 DEF NoRobots, Unreachable
  <2>3. read = 0
    BY <2>1 DEF RobotsInv
  <2>4. \A n \in 0..Len(file) : n = read' => SoFar(n)'
    BY <1>1, <1>2, <2>1
  <2> QED
    BY <1>1, <2>1, <2>2, <2>3, <2>4 DEF RobotsInv
<1>4. ASSUME file' = file, read' = read + 1, Unread, UNCHANGED <<answered, badServer>>,
             payAttention' \in BOOLEAN, seenMyname' \in BOOLEAN,
             Knows(read + 1, seenMyname', payAttention', disallow')
      PROVE  RobotsInv'
  <2>1. answered = "ok" /\ read + 1 \in 0..Len(file)
    BY <1>1, <1>4 DEF Unread
  <2>2. \A n \in 0..Len(file) : n = read' => SoFar(n)'
    BY <1>1, <1>2, <1>4
  <2> QED
    BY <1>1, <1>4, <2>1, <2>2 DEF RobotsInv
<1>5. CASE ReadUserAgent
  <2>1. /\ Unread /\ file' = file /\ read' = read + 1 /\ UNCHANGED <<answered, badServer>>
        /\ This = file[read + 1] /\ This.name = "user-agent"
    BY <1>5 DEF ReadUserAgent, This
  <2>2. read \in Nat /\ read < Len(file)
    BY <1>1, <2>1 DEF Unread
  <2> DEFINE own == This.rest = "me"
  <2>3. /\ seenMyname' = (seenMyname \/ own)
        /\ payAttention' = IF own THEN ~seenMyname ELSE This.rest = "*" /\ ~seenMyname
        /\ disallow' = IF own /\ ~seenMyname THEN <<>> ELSE disallow
    BY <1>5 DEF ReadUserAgent, NewSection
  <2>4. Knows(read + 1, seenMyname \/ own,
              IF own THEN ~seenMyname ELSE This.rest = "*" /\ ~seenMyname,
              IF own /\ ~seenMyname THEN <<>> ELSE disallow)
    BY <1>1, <2>1, <2>2, UserAgentKnown
  <2>5. Knows(read + 1, seenMyname', payAttention', disallow')
    BY <2>3, <2>4
  <2>6. seenMyname' \in BOOLEAN /\ payAttention' \in BOOLEAN
    BY <1>1, <2>3
  <2> QED
    BY <1>4, <2>1, <2>5, <2>6
<1>6. CASE ReadDisallow \/ ReadElse
  <2>1. /\ Unread /\ file' = file /\ read' = read + 1 /\ UNCHANGED <<answered, badServer>>
        /\ This = file[read + 1] /\ This.name # "user-agent"
        /\ UNCHANGED <<seenMyname, payAttention>>
        /\ disallow' = IF This.name = "disallow" /\ payAttention /\ This.rest # ""
                       THEN Append(disallow, This.rest) ELSE disallow
    BY <1>6 DEF ReadDisallow, ReadElse, This
  <2>2. read \in Nat /\ read < Len(file)
    <3>1. Unread
      BY <2>1
    <3> QED
      BY <1>1, <3>1 DEF Unread
  <2>3. Knows(read + 1, seenMyname, payAttention,
              IF This.name = "disallow" /\ payAttention /\ This.rest # ""
              THEN Append(disallow, This.rest) ELSE disallow)
    BY <1>1, <2>1, <2>2, OtherLineKnown
  <2>4. Knows(read + 1, seenMyname', payAttention', disallow')
    BY <2>1, <2>3
  <2> QED
    BY <1>1, <1>4, <2>1, <2>4
<1>7. CASE UNCHANGED robotsVars
  <2>1. /\ file' = file /\ read' = read /\ answered' = answered /\ badServer' = badServer
        /\ UNCHANGED <<seenMyname, payAttention, disallow>>
    BY <1>7 DEF robotsVars
  <2>2. \A n \in 0..Len(file) : n = read' => SoFar(n)'
    BY <1>1, <1>2, <2>1
  <2> QED
    BY <1>1, <2>1, <2>2 DEF RobotsInv
<1> QED
  BY <1>3, <1>5, <1>6, <1>7 DEF RobotsNext

(* However the sections of a robots.txt are ordered, and whatever answer   *)
(* the request for it gets, the paths disallowed are those of the first    *)
(* section for this robot, or of all those for every robot if there is     *)
(* none (Server::robotstxt). *)
THEOREM OwnSectionWins == RobotsSpec => []OwnSectionRules
<1>1. RobotsInit => RobotsInv
  <2> SUFFICES ASSUME RobotsInit PROVE RobotsInv
    OBVIOUS
  <2>1. file \in Seq(RobotsLine) /\ read = 0
    BY RobotsAssumption DEF RobotsInit
  <2>2. \A as : Agents(0, as) = {}
    BY DEF Agents
  <2>3. Section(0) = 0
    <3>1. \A S : S \cup {} = S
      OBVIOUS
    <3>2. {0} \cup Agents(0, {"*", "me", "other"}) = {0}
      BY <2>2, <3>1
    <3>3. Max({0}) = 0
      BY MaxIs
    <3> QED
      BY <3>2, <3>3 DEF Section
  <2>4. Own(0) = {} /\ Ours(0) = {} /\ Collected(0) = {}
    BY <2>2 DEF Own, Ours, Collected
  <2>5. <<>> \in Seq(Paths) /\ Range(<<>>) = {}
    BY EmptySeq DEF Range
  <2>6. \A j \in 0..0 : j = 0
    OBVIOUS
  <2>7. SoFar(0)
    BY <2>3, <2>4, <2>5, <2>6 DEF SoFar, RobotsInit
  <2>8. /\ answered = "no" /\ payAttention = FALSE /\ seenMyname = FALSE
    BY DEF RobotsInit
  <2>9. read \in 0..Len(file)
    BY <2>1, LenProperties
  <2>10. \A n \in 0..Len(file) : n = read => SoFar(n)
    BY <2>1, <2>7
  <2> QED
    BY <2>1, <2>8, <2>9, <2>10 DEF RobotsInv
<1>2. RobotsInv /\ [RobotsNext]_robotsVars => RobotsInv'
  BY RobotsStep
<1>3. RobotsInv => OwnSectionRules
  <2> SUFFICES ASSUME RobotsInv, answered # "no", ~Unread PROVE OwnSectionRules
    BY DEF OwnSectionRules
  <2>1. /\ SoFar(read) /\ read \in 0..Len(file) /\ Len(file) \in Nat
        /\ badServer <=> answered \in Unreachable
    BY LenProperties DEF RobotsInv
  <2>2. CASE answered = "ok"
    <3>1. read = Len(file)
      BY <2>1, <2>2 DEF Unread
    <3>2. Range(disallow) = Collected(Len(file))
      BY <2>1, <3>1 DEF SoFar
    <3> QED
      BY <2>1, <2>2, <3>2 DEF OwnSectionRules, Collected, Ours, Own
  <2>3. CASE answered # "ok"
    <3>1. read = 0
      BY <2>3 DEF RobotsInv
    <3>2. Range(disallow) = Collected(0)
      BY <2>1, <3>1 DEF SoFar
    <3>3. Collected(0) = {}
      BY DEF Collected
    <3> QED
      BY <2>1, <2>3, <3>2, <3>3 DEF OwnSectionRules
  <2> QED
    BY <2>2, <2>3
<1> QED
  BY <1>1, <1>2, <1>3, PTL DEF RobotsSpec

-----------------------------------------------------------------------------
(* A request: Document::RetrieveHTTP and Document::readHeader.              *)

(* Timeouts that the silence may already have lasted, beyond the one that  *)
(* is running: one ended a line, one the header; a signal began one anew.  *)
Used ==
    (IF pc = "body" THEN 2 * Timeout ELSE IF line = <<>> THEN Timeout ELSE 0)
      + (IF "signal" \in trouble THEN Timeout ELSE 0)

(* What has arrived and is not read yet ended the silence.                 *)
SilenceInv ==
    /\ waited \in Nat /\ silence \in Nat
    /\ pc \in {"connect", "header", "body", "done"}
    /\ pc \in {"header", "body"} =>
          /\ waited <= Timeout
          /\ Pending => silence = 0
          /\ silence <= waited + Used

(* Where the end of a line leads, that of the header included. *)
LEMMA EndLineLeads ==
    ASSUME EndLine
    PROVE  /\ line' = <<>>
           /\ pc' \in IF line = <<>> THEN {"body", "done"} ELSE {pc, "done"}
BY DEF EndLine, Finish

(* A timeout of select() begins at most once in each of these places.      *)
LEMMA SilenceStep ==
    ASSUME SilenceInv, [TransportNext]_transportVars
    PROVE  SilenceInv'
<1>1. Timeout \in Nat /\ waited \in Nat /\ silence \in Nat
  BY TransportAssumption DEF SilenceInv
<1>2. CASE Connected
  BY <1>1, <1>2 DEF Connected, serverVars, SilenceInv, Used
<1>3. CASE Refused \/ \E why \in {"signal", "again"} : TryAgain(why)
  BY <1>1, <1>3 DEF Refused, TryAgain, NoServer, SilenceInv
<1>4. CASE Arrive
  BY <1>1, <1>4 DEF Arrive, progVars, SilenceInv, Used
<1>5. CASE Close
  BY <1>1, <1>5 DEF Close, progVars, SilenceInv, Used, Pending
<1>6. CASE Tick
  BY <1>1, <1>6 DEF Tick, serverVars, SilenceInv, Used, Pending
<1>7. CASE ReadHeader
  <2>1. /\ pc = "header" /\ silence' = silence /\ waited' = 0 /\ trouble' = trouble
        /\ silence = 0
    BY <1>7 DEF ReadHeader, SilenceInv
  <2>2. pc' \in {"header", "body", "done"}
    BY <1>7, <2>1, EndLineLeads DEF ReadHeader
  <2> QED
    BY <1>1, <2>1, <2>2 DEF SilenceInv, Used
<1>8. CASE HeaderEnds
  <2>1. /\ pc = "header" /\ UNCHANGED <<waited, silence, trouble, got, sent>> /\ EndLine
    BY <1>8 DEF HeaderEnds, serverVars
  <2> QED
    BY <1>1, <2>1, EndLineLeads DEF SilenceInv, Used, Pending
<1>9. ASSUME NEW why \in {"timeout", "signal"}, HeaderStops(why),
             why = "timeout" => waited = Timeout, why = "signal" => "signal" \notin trouble
      PROVE  SilenceInv'
  <2>1. /\ pc = "header" /\ waited' = 0 /\ trouble' = trouble \cup {why}
        /\ silence' = silence /\ got' = got /\ sent' = sent /\ ~Pending /\ EndLine
    BY <1>9 DEF HeaderStops, serverVars
  <2>2. ~Pending'
    BY <2>1 DEF Pending
  <2>3. /\ waited <= Timeout /\ silence <= waited + Used
    BY <2>1 DEF SilenceInv
  <2>4. /\ pc' \in {"header", "body", "done"} /\ line' = <<>>
        /\ pc' \in {"header", "body"} => (pc' = "body" <=> line = <<>>)
    BY <2>1, EndLineLeads
  <2>5. pc' \in {"header", "body"} => silence <= Used'
    <3>1. CASE why = "timeout"
      <4>1. waited = Timeout /\ ("signal" \in trouble' <=> "signal" \in trouble)
        BY <1>9, <2>1, <3>1
      <4> QED
        BY <1>1, <2>1, <2>3, <2>4, <4>1 DEF Used
    <3>2. CASE why = "signal"
      <4>1. "signal" \in trouble' /\ "signal" \notin trouble
        BY <1>9, <2>1, <3>2
      <4> QED
        BY <1>1, <2>1, <2>3, <2>4, <4>1 DEF Used
    <3> QED
      BY <3>1, <3>2
  <2> QED
    <3>1. waited' = 0 /\ silence' = silence
      BY <2>1
    <3> QED
      BY <1>1, <2>2, <2>4, <2>5, <3>1, TransportAssumption DEF SilenceInv, Used
<1>10. CASE ReadBody
  <2>1. /\ pc = "body" /\ silence' = silence /\ waited' = 0 /\ trouble' = trouble
        /\ silence = 0
    BY <1>10 DEF ReadBody, SilenceInv
  <2>2. pc' \in {"body", "done"}
    BY <1>10, <2>1 DEF ReadBody, Finish
  <2> QED
    BY <1>1, <2>1, <2>2 DEF SilenceInv, Used
<1>11. CASE BodyEnds \/ BodyStops
  BY <1>1, <1>11 DEF BodyEnds, BodyStops, Finish, SilenceInv
<1>12. CASE BodyInterrupted
  BY <1>1, <1>12 DEF BodyInterrupted, serverVars, SilenceInv, Used, Pending
<1>13. CASE UNCHANGED transportVars
  BY <1>13 DEF transportVars, SilenceInv, Used, Pending
<1> QED
  BY <1>2, <1>3, <1>4, <1>5, <1>6, <1>7, <1>8, <1>9, <1>10, <1>11, <1>12, <1>13
     DEF TransportNext

(* However a server sends its answer and wherever it falls silent: it      *)
(* holds the dig up for three timeouts at most, and for four when a signal *)
(* came (io::read_partial, readHeader and RetrieveHTTP each wait again     *)
(* after a select() that timed out). *)
THEOREM SilenceBounded == TransportSpec => []ThreeTimeouts
<1>1. TransportInit => SilenceInv
  BY DEF TransportInit, SilenceInv
<1>2. SilenceInv /\ [TransportNext]_transportVars => SilenceInv'
  BY SilenceStep
<1>3. SilenceInv => ThreeTimeouts
  BY TransportAssumption DEF SilenceInv, ThreeTimeouts, Used
<1> QED
  BY <1>1, <1>2, <1>3, PTL DEF TransportSpec

-----------------------------------------------------------------------------
(* A status that the answer's code stands for, or one that says nothing. *)
Told(status) ==
    /\ status = "ok" => answer.code = 200
    /\ status = "not_changed" => answer.code = 304
    /\ status = "redirect" => answer.code \in 300..309
    /\ status = "not_authorized" => answer.code = 401

(* The status of the header is what the code, or half of it, stands for,   *)
(* and a document is read under Header_ok only. *)
ToldInv ==
    /\ Told(header.status) /\ Told(result)
    /\ pc = "body" => header.status = "ok"

(* What a line or half a line adds to the header. *)
LEMMA RecognisedTold ==
    ASSUME ToldInv, NEW l, NEW h \in Recognised(l)
    PROVE  Told(h.status)
<1>1. Told(StatusOf(answer.code)) /\ Told(header.status)
  <2>1. Told(StatusOf(answer.code))
    BY DEF Told, StatusOf
  <2> QED
    BY <2>1 DEF ToldInv
<1>2. h.status \in StatusRead(l)
  BY DEF Recognised
<1>3. CASE l = Text("status")
  <2>1. l # Half("status")
    BY <1>3 DEF Text, Half
  <2> QED
    BY <1>1, <1>2, <1>3, <2>1 DEF StatusRead
<1>4. CASE l = Half("status") /\ l # Text("status")
  <2>1. \/ h.status = header.status \/ h.status = StatusOf(answer.code)
        \/ h.status = "redirect" /\ answer.code \in 300..309
    BY <1>2, <1>4 DEF StatusRead
  <2> QED
    BY <1>1, <2>1 DEF Told
<1>5. CASE l # Text("status") /\ l # Half("status")
  BY <1>1, <1>2, <1>5 DEF StatusRead
<1> QED
  BY <1>3, <1>4, <1>5

(* The end of a line reports what the header says, or a type nobody reads. *)
LEMMA EndLineTold ==
    ASSUME ToldInv, EndLine, pc = "header", answer' = answer
    PROVE  ToldInv'
<1>1. CASE line = <<>>
  BY <1>1 DEF EndLine, Finish, ToldInv, Told
<1>2. CASE line # <<>> /\ Finish("not_html") /\ UNCHANGED header
  BY <1>2 DEF Finish, ToldInv, Told
<1>3. CASE line # <<>> /\ header' \in Recognised(line) /\ UNCHANGED <<pc, result>>
  <2>1. Told(header'.status)
    BY <1>3, RecognisedTold
  <2> QED
    BY <1>3, <2>1 DEF ToldInv, Told
<1> QED
  BY <1>1, <1>2, <1>3 DEF EndLine

(* Nothing but the end of a line, the end of the document and the loss of  *)
(* the server sets a status. *)
LEMMA ToldStep ==
    ASSUME ToldInv, [TransportNext]_transportVars
    PROVE  ToldInv'
<1>1. CASE Connected \/ Arrive \/ Close \/ Tick
  BY <1>1 DEF Connected, Arrive, Close, Tick, serverVars, progVars, ToldInv, Told
<1>2. CASE Refused \/ \E why \in {"signal", "again"} : TryAgain(why)
  BY <1>2 DEF Refused, TryAgain, NoServer, serverVars, ToldInv, Told
<1>3. CASE ReadHeader
  <2>1. pc = "header" /\ answer' = answer
    BY <1>3 DEF ReadHeader, serverVars
  <2>2. EndLine \/ UNCHANGED <<pc, header, result>>
    BY <1>3 DEF ReadHeader
  <2> QED
    BY <2>1, <2>2, EndLineTold DEF ToldInv, Told
<1>4. CASE HeaderEnds \/ HeaderStops("timeout") \/ HeaderStops("signal")
  BY <1>4, EndLineTold DEF HeaderEnds, HeaderStops, serverVars
<1>5. CASE ReadBody
  BY <1>5 DEF ReadBody, Finish, serverVars, ToldInv, Told
<1>6. CASE BodyEnds \/ BodyStops \/ BodyInterrupted
  BY <1>6 DEF BodyEnds, BodyStops, BodyInterrupted, Finish, serverVars, ToldInv, Told
<1>7. CASE UNCHANGED transportVars
  BY <1>7 DEF transportVars, ToldInv, Told
<1> QED
  BY <1>1, <1>2, <1>3, <1>4, <1>5, <1>6, <1>7 DEF TransportNext

(* Whatever is lost, interrupted or torn apart, half lines included, which *)
(* readHeader reads for what they seem to say: a page is reported as       *)
(* retrieved, unchanged or protected only if the server said so, and as    *)
(* moved only if the code begins with 30 (Document::readHeader and         *)
(* RetrieveHTTP). *)
THEOREM NothingInvented == TransportSpec => []OnlyAsTold
<1>1. TransportInit => ToldInv
  BY DEF TransportInit, ToldInv, Told, NoHeader
<1>2. ToldInv /\ [TransportNext]_transportVars => ToldInv'
  BY ToldStep
<1>3. ToldInv => OnlyAsTold
  BY DEF ToldInv, Told, OnlyAsTold
<1> QED
  BY <1>1, <1>2, <1>3, PTL DEF TransportSpec

-----------------------------------------------------------------------------
Unit == (Fields \cup {"nl", "body"}) \X Nat

(* Two pieces of an answer, one after the other. *)
LEMMA Cat ==
    ASSUME NEW s \in Seq(Unit), NEW t \in Seq(Unit)
    PROVE  /\ s \o t \in Seq(Unit)
           /\ Len(s) \in Nat /\ Len(t) \in Nat
           /\ Len(s \o t) = Len(s) + Len(t)
           /\ \A i \in 1..Len(s) : (s \o t)[i] = s[i]
           /\ \A i \in 1..Len(t) : (s \o t)[Len(s) + i] = t[i]
<1>1. Len(s) \in Nat /\ Len(t) \in Nat
  BY LenProperties
<1>2. /\ s \o t \in Seq(Unit)
      /\ Len(s \o t) = Len(s) + Len(t)
      /\ \A i \in 1 .. Len(s) + Len(t) : (s \o t)[i] =
                     IF i <= Len(s) THEN s[i] ELSE t[i - Len(s)]
  BY ConcatProperties
<1> QED
  BY <1>1, <1>2

Width(f) == IF f \in answer.fields THEN 3 ELSE 0

(* A line of the header. *)
LEMMA LineUnits ==
    ASSUME NEW f \in Fields
    PROVE  /\ Line(f, answer) \in Seq(Unit) /\ Len(Line(f, answer)) = Width(f)
           /\ f \in answer.fields => /\ Line(f, answer)[1] = <<f, 1>>
                                     /\ Line(f, answer)[2] = <<f, 2>>
                                     /\ Line(f, answer)[3] = NL
<1>1. <<f, 1>> \in Unit /\ <<f, 2>> \in Unit /\ NL \in Unit
  BY DEF Unit, Fields, NL
<1>2. /\ Append(Text(f), NL) \in Seq(Unit) /\ Len(Append(Text(f), NL)) = 3
      /\ Append(Text(f), NL)[1] = <<f, 1>>
      /\ Append(Text(f), NL)[2] = <<f, 2>>
      /\ Append(Text(f), NL)[3] = NL
  <2>1. Text(f) \in Seq(Unit) /\ Len(Text(f)) = 2
        /\ Text(f)[1] = <<f, 1>> /\ Text(f)[2] = <<f, 2>>
    BY <1>1 DEF Text
  <2>2. /\ Append(Text(f), NL) \in Seq(Unit)
        /\ Len(Append(Text(f), NL)) = Len(Text(f)) + 1
        /\ \A i \in 1..Len(Text(f)) : Append(Text(f), NL)[i] = Text(f)[i]
        /\ Append(Text(f), NL)[Len(Text(f)) + 1] = NL
    <3> DEFINE t == Text(f)
    <3>1. t \in Seq(Unit) /\ NL \in Unit
      BY <1>1, <2>1
    <3> HIDE DEF t
    <3>2. /\ Append(t, NL) \in Seq(Unit)
          /\ Len(Append(t, NL)) = Len(t) + 1
          /\ \A i \in 1..Len(t) : Append(t, NL)[i] = t[i]
          /\ Append(t, NL)[Len(t) + 1] = NL
      BY <3>1, AppendProperties
    <3> QED
      BY <3>2 DEF t
  <2> QED
    BY <2>1, <2>2
<1>3. <<>> \in Seq(Unit) /\ Len(<<>>) = 0
  BY EmptySeq
<1> QED
  BY <1>2, <1>3 DEF Line, Width

(* Where the line of a field ends in the answer, and where it begins. *)
EndOf(f) ==
    Width("status")
      + (IF f \in {"date", "location", "type", "length"} THEN Width("date") ELSE 0)
      + (IF f \in {"location", "type", "length"} THEN Width("location") ELSE 0)
      + (IF f \in {"type", "length"} THEN Width("type") ELSE 0)
      + (IF f = "length" THEN Width("length") ELSE 0)

(* A line of field f follows the first n units of s. *)
HasLine(s, f, n) ==
    n \in Nat /\ n + 3 <= Len(s) /\ s[n + 1] = <<f, 1>> /\ s[n + 2] = <<f, 2>> /\ s[n + 3] = NL

(* The line of one field more. *)
LEMMA OneMore ==
    ASSUME NEW s \in Seq(Unit), NEW f \in Fields
    PROVE  LET t == s \o Line(f, answer)
           IN /\ t \in Seq(Unit) /\ Len(t) = Len(s) + Width(f)
              /\ f \in answer.fields => HasLine(t, f, Len(s))
              /\ \A g, n : HasLine(s, g, n) => HasLine(t, g, n)
<1> DEFINE l == Line(f, answer)
<1>1. l \in Seq(Unit) /\ Len(l) = Width(f)
  BY LineUnits
<1>2. f \in answer.fields =>
          Width(f) = 3 /\ l[1] = <<f, 1>> /\ l[2] = <<f, 2>> /\ l[3] = NL
  BY LineUnits DEF Width
<1> HIDE DEF l
<1>3. /\ s \o l \in Seq(Unit)
      /\ Len(s) \in Nat /\ Len(l) \in Nat
      /\ Len(s \o l) = Len(s) + Len(l)
      /\ \A i \in 1..Len(s) : (s \o l)[i] = s[i]
      /\ \A i \in 1..Len(l) : (s \o l)[Len(s) + i] = l[i]
  BY <1>1, Cat
<1>4. f \in answer.fields => HasLine(s \o l, f, Len(s))
  BY <1>1, <1>2, <1>3 DEF HasLine
<1>5. ASSUME NEW g, NEW n, HasLine(s, g, n) PROVE HasLine(s \o l, g, n)
  <2>1. Len(s \o l) \in Nat /\ Len(s) <= Len(s \o l)
    BY <1>3
  <2>2. n \in Nat /\ n + 3 <= Len(s)
    BY <1>5 DEF HasLine
  <2>3. n + 1 \in 1..Len(s) /\ n + 2 \in 1..Len(s) /\ n + 3 \in 1..Len(s)
    BY <1>3, <2>2
  <2> QED
    BY <1>3, <1>5, <2>1, <2>2, <2>3 DEF HasLine
<1> QED
  BY <1>1, <1>3, <1>4, <1>5 DEF l

(* The document. *)
LEMMA BodyUnits ==
    ASSUME answer.body \in Nat
    PROVE  /\ Body(answer) \in Seq(Unit) /\ Len(Body(answer)) = answer.body
           /\ \A i \in 1..answer.body : Body(answer)[i] = <<"body", i>>
BY DEF Body, Unit

(* The lines that an answer has, the empty line and the document. *)
LEMMA StreamShape ==
    ASSUME answer \in Answers
    PROVE  /\ Stream(answer) \in Seq(Unit)
           /\ Len(Stream(answer)) = EndOf("length") + 1 + answer.body
           /\ \A f \in Fields \cap answer.fields :
                 HasLine(Stream(answer), f, EndOf(f) - Width(f))
           /\ Stream(answer)[EndOf("length") + 1] = NL
           /\ \A i \in 1..answer.body :
                 Stream(answer)[EndOf("length") + 1 + i] = <<"body", i>>
<1>1. /\ answer.body \in Nat
      /\ "status" \in Fields /\ "date" \in Fields /\ "location" \in Fields
      /\ "type" \in Fields /\ "length" \in Fields
      /\ \A f \in Fields : Width(f) \in {0, 3}
  BY AnswersAssumption DEF Width, Fields
<1>2. PICK s1 : s1 = Line("status", answer)
  OBVIOUS
<1>3. PICK s2 : s2 = s1 \o Line("date", answer)
  OBVIOUS
<1>3a. PICK sl : sl = s2 \o Line("location", answer)
  OBVIOUS
<1>4. PICK s3 : s3 = sl \o Line("type", answer)
  OBVIOUS
<1>5. PICK s4 : s4 = s3 \o Line("length", answer)
  OBVIOUS
<1>6. PICK s5 : s5 = s4 \o <<NL>>
  OBVIOUS
<1>7. Stream(answer) = s5 \o Body(answer)
  BY <1>2, <1>3, <1>3a, <1>4, <1>5, <1>6 DEF Stream, Lines
<1>8. /\ s1 \in Seq(Unit) /\ Len(s1) = Width("status")
      /\ "status" \in answer.fields => HasLine(s1, "status", 0)
  BY <1>1, <1>2, LineUnits DEF HasLine, Fields, Width
<1>9. /\ s2 \in Seq(Unit) /\ Len(s2) = Len(s1) + Width("date")
      /\ "date" \in answer.fields => HasLine(s2, "date", Len(s1))
      /\ \A g, n : HasLine(s1, g, n) => HasLine(s2, g, n)
  BY <1>1, <1>3, <1>8, OneMore
<1>9a. /\ sl \in Seq(Unit) /\ Len(sl) = Len(s2) + Width("location")
       /\ "location" \in answer.fields => HasLine(sl, "location", Len(s2))
       /\ \A g, n : HasLine(s2, g, n) => HasLine(sl, g, n)
  BY <1>1, <1>3a, <1>9, OneMore
<1>10. /\ s3 \in Seq(Unit) /\ Len(s3) = Len(sl) + Width("type")
       /\ "type" \in answer.fields => HasLine(s3, "type", Len(sl))
       /\ \A g, n : HasLine(sl, g, n) => HasLine(s3, g, n)
  BY <1>1, <1>4, <1>9a, OneMore
<1>11. /\ s4 \in Seq(Unit) /\ Len(s4) = Len(s3) + Width("length")
       /\ "length" \in answer.fields => HasLine(s4, "length", Len(s3))
       /\ \A g, n : HasLine(s3, g, n) => HasLine(s4, g, n)
  BY <1>1, <1>5, <1>10, OneMore
<1>12. /\ <<NL>> \in Seq(Unit) /\ Len(<<NL>>) = 1 /\ <<NL>>[1] = NL
  BY DEF NL, Unit
<1>13. /\ s5 \in Seq(Unit) /\ Len(s5) = Len(s4) + 1 /\ Len(s4) \in Nat
       /\ \A i \in 1..Len(s4) : s5[i] = s4[i]
       /\ s5[Len(s4) + 1] = NL
  <2> DEFINE e == <<NL>>
  <2>1. e \in Seq(Unit) /\ Len(e) = 1 /\ e[1] = NL /\ s5 = s4 \o e
    BY <1>6, <1>12
  <2> HIDE DEF e
  <2>2. /\ s4 \o e \in Seq(Unit)
        /\ Len(s4) \in Nat
        /\ Len(s4 \o e) = Len(s4) + Len(e)
        /\ \A i \in 1..Len(s4) : (s4 \o e)[i] = s4[i]
        /\ \A i \in 1..Len(e) : (s4 \o e)[Len(s4) + i] = e[i]
    BY <1>11, <2>1, Cat
  <2> QED
    BY <2>1, <2>2
<1>14. /\ Body(answer) \in Seq(Unit) /\ Len(Body(answer)) = answer.body
       /\ \A i \in 1..answer.body : Body(answer)[i] = <<"body", i>>
  BY <1>1, BodyUnits
<1>15. /\ Stream(answer) \in Seq(Unit) /\ Len(s5) \in Nat
       /\ Len(Stream(answer)) = Len(s5) + answer.body
       /\ \A i \in 1..Len(s5) : Stream(answer)[i] = s5[i]
       /\ \A i \in 1..answer.body : Stream(answer)[Len(s5) + i] = <<"body", i>>
  <2>1. PICK b : b = Body(answer)
    OBVIOUS
  <2>2. /\ b \in Seq(Unit) /\ Len(b) = answer.body
        /\ \A i \in 1..answer.body : b[i] = <<"body", i>>
    BY <1>14, <2>1
  <2>3. /\ s5 \o b \in Seq(Unit)
        /\ Len(s5) \in Nat
        /\ Len(s5 \o b) = Len(s5) + Len(b)
        /\ \A i \in 1..Len(s5) : (s5 \o b)[i] = s5[i]
        /\ \A i \in 1..Len(b) : (s5 \o b)[Len(s5) + i] = b[i]
    BY <1>13, <2>2, Cat
  <2> QED
    BY <1>7, <2>1, <2>2, <2>3
<1>16. /\ Len(s1) = Width("status") /\ Len(s2) = Len(s1) + Width("date")
       /\ Len(sl) = Len(s2) + Width("location") /\ Len(s3) = Len(sl) + Width("type")
       /\ Len(s4) = Len(s3) + Width("length")
  BY <1>8, <1>9, <1>9a, <1>10, <1>11
<1>17. /\ "status" \in answer.fields => HasLine(s4, "status", 0)
       /\ "date" \in answer.fields => HasLine(s4, "date", Len(s1))
       /\ "location" \in answer.fields => HasLine(s4, "location", Len(s2))
       /\ "type" \in answer.fields => HasLine(s4, "type", Len(sl))
       /\ "length" \in answer.fields => HasLine(s4, "length", Len(s3))
  BY <1>8, <1>9, <1>9a, <1>10, <1>11
<1>18. Len(s4) = EndOf("length")
  <2>1. EndOf("length") = Width("status") + Width("date") + Width("location") + Width("type") + Width("length")
    BY <1>1 DEF EndOf
  <2> QED
    BY <1>1, <1>16, <2>1
<1>19. ASSUME NEW g, NEW n, HasLine(s4, g, n) PROVE HasLine(Stream(answer), g, n)
  <2>1. n \in Nat /\ n + 3 <= Len(s4)
    BY <1>19 DEF HasLine
  <2>2. /\ n + 1 \in 1..Len(s4) /\ n + 2 \in 1..Len(s4) /\ n + 3 \in 1..Len(s4)
        /\ Len(s4) <= Len(Stream(answer)) /\ Len(s4) <= Len(s5)
    BY <1>1, <1>13, <1>15, <2>1
  <2>3. \A i \in 1..Len(s4) : Stream(answer)[i] = s4[i]
    BY <1>13, <1>15, <2>2
  <2>4. n + 3 <= Len(Stream(answer))
    BY <1>1, <1>13, <1>15, <2>1
  <2> QED
    BY <1>19, <2>1, <2>2, <2>3, <2>4 DEF HasLine
<1>20. ASSUME NEW f \in Fields, f \in answer.fields
       PROVE  HasLine(Stream(answer), f, EndOf(f) - Width(f))
  <2>1. CASE f = "status"
    <3>1. EndOf("status") = Width("status")
      BY <1>1 DEF EndOf
    <3>2. EndOf("status") - Width("status") = 0
      BY <1>1, <1>16, <3>1
    <3>3. HasLine(s4, "status", 0)
      BY <1>17, <1>20, <2>1
    <3> QED
      BY <1>19, <2>1, <3>2, <3>3
  <2>2. CASE f = "date"
    <3>1. EndOf("date") = Width("status") + Width("date")
      BY <1>1 DEF EndOf
    <3>2. EndOf("date") - Width("date") = Len(s1)
      BY <1>1, <1>16, <3>1
    <3>3. HasLine(s4, "date", Len(s1))
      BY <1>17, <1>20, <2>2
    <3> QED
      BY <1>19, <2>2, <3>2, <3>3
  <2>3. CASE f = "type"
    <3>1. EndOf("type") = Width("status") + Width("date") + Width("location") + Width("type")
      BY <1>1 DEF EndOf
    <3>2. EndOf("type") - Width("type") = Len(sl)
      BY <1>1, <1>16, <3>1
    <3>3. HasLine(s4, "type", Len(sl))
      BY <1>17, <1>20, <2>3
    <3> QED
      BY <1>19, <2>3, <3>2, <3>3
  <2>4. CASE f = "length"
    <3>1. EndOf("length") = Width("status") + Width("date") + Width("location") + Width("type") + Width("length")
      BY <1>1 DEF EndOf
    <3>2. EndOf("length") - Width("length") = Len(s3)
      BY <1>1, <1>16, <3>1
    <3>3. HasLine(s4, "length", Len(s3))
      BY <1>17, <1>20, <2>4
    <3> QED
      BY <1>19, <2>4, <3>2, <3>3
  <2>5. CASE f = "location"
    <3>1. EndOf("location") = Width("status") + Width("date") + Width("location")
      BY <1>1 DEF EndOf
    <3>2. EndOf("location") - Width("location") = Len(s2)
      BY <1>1, <1>16, <3>1
    <3>3. HasLine(s4, "location", Len(s2))
      BY <1>17, <1>20, <2>5
    <3> QED
      BY <1>19, <2>5, <3>2, <3>3
  <2> QED
    BY <1>20, <2>1, <2>2, <2>3, <2>4, <2>5 DEF Fields
<1> QED
  BY <1>1, <1>13, <1>15, <1>18, <1>20

Begins(f) == EndOf(f) - Width(f)

(* Before the empty line an answer is somewhere in the line of a field. *)
LEMMA InSomeLine ==
    ASSUME answer \in Answers, NEW n \in Nat, n < EndOf("length")
    PROVE  \E f \in Fields \cap answer.fields : n \in Begins(f)..(Begins(f) + 2)
<1>1. \A f \in Fields : Width(f) \in {0, 3} /\ (Width(f) = 3 => f \in answer.fields)
  BY DEF Width
<1> QED
  BY <1>1 DEF EndOf, Begins, Fields

(* Where the lines are; a field that the answer lacks takes no place. *)
LEMMA OffsetTypes ==
    ASSUME answer \in Answers
    PROVE  /\ \A f \in Fields : EndOf(f) \in Nat /\ Begins(f) \in Nat /\ EndOf(f) <= EndOf("length")
           /\ EndOf("status") = 3 /\ Begins("status") = 0 /\ Begins("length") = EndOf("type")
           /\ \A f \in Fields \cap answer.fields : EndOf(f) = Begins(f) + 3
<1>1. /\ \A f \in Fields : Width(f) \in {0, 3} /\ (f \in answer.fields => Width(f) = 3)
      /\ "status" \in answer.fields
  BY AnswersAssumption DEF Width
<1> QED
  BY <1>1 DEF EndOf, Begins, Fields

(* The lines do not overlap. *)
LEMMA LinesApart ==
    ASSUME answer \in Answers, NEW f \in Fields \cap answer.fields, NEW g \in Fields
    PROVE  \/ g = f
           \/ EndOf(g) <= Begins(f)
           \/ Begins(g) >= EndOf(f) /\ EndOf(g) >= EndOf(f)
<1>1. \A h \in Fields : Width(h) \in {0, 3}
  BY DEF Width
<1> QED
  BY <1>1 DEF EndOf, Begins, Fields

HeaderLength == Len(Stream(answer)) - answer.body

(* The units k + 1, k + 2, ... of the answer, one after the other. *)
Stretch(k, s) == \A j \in 1..Len(s) : s[j] = Stream(answer)[k + j]

(* A sequence that follows a prefix of the header and lies in the answer. *)
Inside(k, s) ==
    k \in 0..HeaderLength /\ k + Len(s) <= Len(Stream(answer)) /\ Stretch(k, s)

(* While the header is read nothing of the document is, and the empty line *)
(* that ends it is recognised; then contents and part are what was read    *)
(* since, without gaps. *)
GapsInv ==
    /\ answer \in Answers
    /\ sent \in Nat /\ sent <= Len(Stream(answer)) /\ got \in 0..sent
    /\ contents \in Seq(Unit) /\ part \in Seq(Unit)
    /\ pc \in {"connect", "header", "body", "done"}
    /\ pc \in {"connect", "header"} =>
          /\ contents = <<>> /\ part = <<>>
          /\ got < HeaderLength
          /\ got = HeaderLength - 1 => line = <<>>
    /\ pc = "body" =>
          LET k == got - Len(contents) - Len(part)
          IN Inside(k, contents) /\ Stretch(k + Len(contents), part)
    /\ pc = "done" => \E k \in 0..HeaderLength : Inside(k, contents)

(* The header of an answer ends with an empty line. *)
LEMMA AnswerShape ==
    ASSUME answer \in Answers
    PROVE  /\ Stream(answer) \in Seq(Unit) /\ Len(Stream(answer)) \in Nat
           /\ answer.body \in Nat /\ HeaderLength \in Nat \ {0}
           /\ HeaderLength <= Len(Stream(answer))
           /\ Stream(answer)[HeaderLength] = NL
           /\ HeaderLength > 1 => Stream(answer)[HeaderLength - 1] = NL
<1>1. /\ Stream(answer) \in Seq(Unit) /\ Len(Stream(answer)) = EndOf("length") + 1 + answer.body
      /\ Stream(answer)[EndOf("length") + 1] = NL
  BY StreamShape
<1>2. answer.body \in Nat /\ EndOf("length") \in Nat
  BY AnswersAssumption, OffsetTypes DEF Fields
<1>3. HeaderLength = EndOf("length") + 1
  BY <1>1, <1>2 DEF HeaderLength
<1>4. ASSUME HeaderLength > 1 PROVE Stream(answer)[HeaderLength - 1] = NL
  <2>1. EndOf("length") - 1 \in Nat /\ EndOf("length") - 1 < EndOf("length")
    BY <1>2, <1>3, <1>4
  <2>2. PICK f \in Fields \cap answer.fields :
            EndOf("length") - 1 \in Begins(f)..(Begins(f) + 2)
    BY <2>1, InSomeLine
  <2>3. Begins(f) \in Nat /\ EndOf(f) = Begins(f) + 3 /\ EndOf(f) <= EndOf("length")
    BY OffsetTypes
  <2>4. EndOf("length") = Begins(f) + 3
    BY <1>2, <2>2, <2>3
  <2>5. Stream(answer)[Begins(f) + 3] = NL
    BY StreamShape DEF HasLine, Begins
  <2> QED
    BY <1>2, <1>3, <2>4, <2>5
<1> QED
  BY <1>1, <1>2, <1>3, <1>4

(* A section that ends where the next begins: together they are one. *)
LEMMA StretchesJoin ==
    ASSUME NEW k \in Nat, NEW s \in Seq(Unit), NEW t \in Seq(Unit),
           Stretch(k, s), Stretch(k + Len(s), t)
    PROVE  s \o t \in Seq(Unit) /\ Len(s \o t) = Len(s) + Len(t) /\ Stretch(k, s \o t)
<1>1. Len(s) \in Nat /\ Len(t) \in Nat
  BY LenProperties
<1>2. /\ s \o t \in Seq(Unit) /\ Len(s \o t) = Len(s) + Len(t)
      /\ \A i \in 1..Len(s) + Len(t) :
            (s \o t)[i] = IF i <= Len(s) THEN s[i] ELSE t[i - Len(s)]
  BY ConcatProperties
<1>3. ASSUME NEW j \in 1..Len(s \o t)
      PROVE  (s \o t)[j] = Stream(answer)[k + j]
  <2>1. CASE j <= Len(s)
    BY <1>1, <1>2, <2>1 DEF Stretch
  <2>2. CASE j > Len(s)
    <3> DEFINE i == j - Len(s)
    <3>1. i \in 1..Len(t) /\ k + Len(s) + i = k + j
      BY <1>1, <1>2, <2>2
    <3>2. (s \o t)[j] = t[i]
      BY <1>1, <1>2, <2>2
    <3>3. t[i] = Stream(answer)[k + Len(s) + i]
      BY <3>1 DEF Stretch
    <3> QED
      BY <3>1, <3>2, <3>3
  <2> QED
    BY <1>1, <1>2, <2>1, <2>2
<1> QED
  BY <1>2, <1>3 DEF Stretch

(* The next unit continues a section. *)
LEMMA StretchGrows ==
    ASSUME NEW k \in Nat, NEW s \in Seq(Unit), NEW u \in Unit,
           Stretch(k, s), u = Stream(answer)[k + Len(s) + 1]
    PROVE  /\ Append(s, u) \in Seq(Unit) /\ Len(Append(s, u)) = Len(s) + 1
           /\ Stretch(k, Append(s, u))
<1>1. Len(s) \in Nat
  BY LenProperties
<1>2. /\ Append(s, u) \in Seq(Unit) /\ Len(Append(s, u)) = Len(s) + 1
      /\ \A i \in 1..Len(s) : Append(s, u)[i] = s[i]
      /\ Append(s, u)[Len(s) + 1] = u
  BY AppendProperties
<1> QED
  BY <1>1, <1>2 DEF Stretch

(* Before anything of the document is read. *)
LEMMA NothingRead ==
    ASSUME answer \in Answers, NEW k \in 0..HeaderLength
    PROVE  Inside(k, <<>>) /\ Stretch(k, <<>>)
<1>1. Len(<<>>) = 0
  BY EmptySeq
<1> QED
  BY <1>1, AnswerShape DEF Inside, Stretch

(* The header ends at its last unit or before: the document, if it is      *)
(* read, follows. *)
LEMMA EndLineGaps ==
    ASSUME GapsInv, pc = "header", EndLine, answer' = answer, sent' = sent,
           got' \in 0..sent, got' <= HeaderLength,
           got' = HeaderLength => line = <<>>
    PROVE  GapsInv'
<1>1. /\ answer \in Answers /\ contents = <<>> /\ part = <<>>
      /\ contents' = <<>> /\ part' = <<>>
  BY DEF GapsInv, EndLine
<1>2. /\ line' = <<>> /\ pc' \in {"header", "body", "done"}
      /\ pc' = "header" => got' < HeaderLength
  BY EndLineLeads, AnswerShape, <1>1 DEF GapsInv
<1>3. Len(<<>>) = 0 /\ <<>> \in Seq(Unit)
  BY EmptySeq
<1>4. got' \in 0..HeaderLength /\ HeaderLength \in Nat /\ HeaderLength' = HeaderLength
  BY <1>1, AnswerShape DEF GapsInv, HeaderLength
<1>5. Inside(got', <<>>) /\ Stretch(got', <<>>)
  BY <1>1, <1>4, NothingRead
<1>6. pc' = "body" =>
         LET k == (got - Len(contents) - Len(part))'
         IN Inside(k, contents') /\ Stretch(k + Len(contents'), part')
  BY <1>1, <1>3, <1>4, <1>5
<1>7. pc' = "done" => \E k \in 0..HeaderLength : Inside(k, contents')
  BY <1>1, <1>4, <1>5
<1> QED
  BY <1>1, <1>2, <1>3, <1>4, <1>6, <1>7, ZenonT(30) DEF GapsInv, Inside, Stretch, HeaderLength

(* Whatever reads a unit puts it behind those of its section; whatever     *)
(* drops units drops them at the end, and ends the document. *)
LEMMA GapsStep ==
    ASSUME GapsInv, [TransportNext]_transportVars
    PROVE  GapsInv'
<1>1. answer \in Answers /\ sent \in Nat /\ got \in 0..sent /\ sent <= Len(Stream(answer))
  BY DEF GapsInv
<1>2. /\ Stream(answer) \in Seq(Unit) /\ Len(Stream(answer)) \in Nat
      /\ HeaderLength \in Nat \ {0} /\ HeaderLength <= Len(Stream(answer))
  BY <1>1, AnswerShape
<1>3. CASE Connected
  BY <1>3 DEF Connected, serverVars, GapsInv, Inside, Stretch, HeaderLength
<1>4. CASE Refused \/ \E why \in {"signal", "again"} : TryAgain(why)
  <2>1. /\ pc = "connect" /\ UNCHANGED <<answer, sent, got, line, part, contents>>
        /\ pc' \in {"connect", "done"}
    BY <1>4 DEF Refused, TryAgain, NoServer, serverVars
  <2>2. got \in 0..HeaderLength /\ contents = <<>>
    BY <1>1, <1>2, <2>1 DEF GapsInv
  <2>3. Inside(got, contents)
    BY <1>1, <2>2, NothingRead
  <2> QED
    BY <2>1, <2>2, <2>3 DEF GapsInv, Inside, Stretch, HeaderLength
<1>5. CASE Arrive
  BY <1>1, <1>2, <1>5 DEF Arrive, progVars, GapsInv, Inside, Stretch, HeaderLength
<1>6. CASE Close \/ Tick
  BY <1>6, ZenonT(30) DEF Close, Tick, progVars, serverVars, GapsInv, Inside, Stretch, HeaderLength
<1>7. CASE ReadHeader
  <2>1. /\ pc = "header" /\ got < sent /\ got' = got + 1 /\ got < HeaderLength
        /\ answer' = answer /\ sent' = sent
        /\ got = HeaderLength - 1 => line = <<>>
    BY <1>7 DEF ReadHeader, Pending, serverVars, GapsInv
  <2>2. CASE Stream(answer)[got + 1] = NL
    <3>1. EndLine
      BY <1>7, <2>2 DEF ReadHeader
    <3> QED
      BY <1>1, <1>2, <2>1, <3>1, EndLineGaps
  <2>3. CASE Stream(answer)[got + 1] # NL
    <3>1. /\ pc' = pc /\ part' = part /\ contents' = contents
      BY <1>7, <2>3 DEF ReadHeader
    <3>2. got + 1 # HeaderLength /\ got + 1 # HeaderLength - 1
      BY <1>1, <1>2, <2>1, <2>3, AnswerShape
    <3> QED
      BY <1>1, <1>2, <2>1, <3>1, <3>2 DEF GapsInv, HeaderLength
  <2> QED
    BY <2>2, <2>3
<1>8. CASE HeaderEnds \/ HeaderStops("timeout") \/ HeaderStops("signal")
  <2>1. /\ pc = "header" /\ EndLine /\ UNCHANGED <<answer, sent, got>>
        /\ got < HeaderLength
    BY <1>8 DEF HeaderEnds, HeaderStops, serverVars, GapsInv
  <2> QED
    BY <1>1, <1>2, <2>1, EndLineGaps
<1>9. CASE ReadBody
  <2>1. /\ pc = "body" /\ got < sent /\ got' = got + 1
        /\ answer' = answer /\ sent' = sent
    BY <1>9 DEF ReadBody, Pending, serverVars
  <2>2. /\ contents \in Seq(Unit) /\ part \in Seq(Unit)
        /\ Len(contents) \in Nat /\ Len(part) \in Nat
    BY LenProperties DEF GapsInv
  <2>3. PICK k : /\ k = got - Len(contents) - Len(part) /\ Inside(k, contents)
                 /\ Stretch(k + Len(contents), part)
    BY <2>1 DEF GapsInv
  <2>4. PICK unit : unit = Stream(answer)[got + 1]
    OBVIOUS
  <2>5. unit \in Unit
    BY <1>1, <1>2, <2>1, <2>4, ElementOfSeq
  <2>6. /\ k \in 0..HeaderLength /\ Stretch(k, contents) /\ k + Len(contents) \in Nat
        /\ k + Len(contents) + Len(part) + 1 = got + 1
    BY <1>1, <1>2, <2>2, <2>3 DEF Inside
  <2>7. PICK more : more = Append(part, unit)
    OBVIOUS
  <2>8. more \in Seq(Unit) /\ Len(more) = Len(part) + 1 /\ Stretch(k + Len(contents), more)
    <3>1. unit = Stream(answer)[k + Len(contents) + Len(part) + 1]
      BY <2>4, <2>6
    <3> QED
      BY <2>2, <2>3, <2>5, <2>6, <2>7, <3>1, StretchGrows
  <2>9. CASE contents' = contents /\ part' = more /\ pc' = pc
    <3>1. (got - Len(contents) - Len(part))' = k
      BY <1>1, <2>1, <2>2, <2>3, <2>8, <2>9
    <3>2. Inside(k, contents)' /\ Stretch(k + Len(contents), part)'
      BY <2>1, <2>3, <2>8, <2>9 DEF Inside, Stretch, HeaderLength
    <3> QED
      BY <1>1, <2>1, <2>2, <2>8, <2>9, <3>1, <3>2 DEF GapsInv
  <2>10. CASE contents' = contents \o more /\ part' = <<>> /\ pc' \in {"body", "done"}
    <3>1. Len(contents) \in Nat /\ k \in Nat
      BY <1>2, <2>2, <2>6
    <3>2. /\ contents' \in Seq(Unit) /\ Len(contents') = Len(contents) + Len(more)
          /\ Stretch(k, contents')
      BY <2>2, <2>6, <2>8, <2>10, <3>1, StretchesJoin
    <3>3. Len(<<>>) = 0 /\ <<>> \in Seq(Unit)
      BY EmptySeq
    <3>4. (got - Len(contents) - Len(part))' = k /\ k + Len(contents') = got + 1
      BY <1>1, <2>1, <2>2, <2>6, <2>8, <2>10, <3>1, <3>2, <3>3
    <3>5. Inside(k, contents)'
      <4>1. Len(Stream(answer)) = Len(Stream(answer))' /\ HeaderLength = HeaderLength'
        BY <2>1 DEF HeaderLength
      <4>2. k + Len(contents') <= Len(Stream(answer))
        BY <1>1, <1>2, <2>1, <3>4
      <4>3. Stretch(k, contents)'
        BY <2>1, <3>2 DEF Stretch
      <4> QED
        BY <2>6, <4>1, <4>2, <4>3 DEF Inside
    <3>6. Stretch(k + Len(contents), part)'
      BY <2>10, <3>3 DEF Stretch
    <3>7. k \in 0..HeaderLength'
      BY <2>1, <2>6 DEF HeaderLength
    <3>8. LET j == got - Len(contents) - Len(part)
          IN (Inside(j, contents) /\ Stretch(j + Len(contents), part))'
      BY <3>4, <3>5, <3>6 DEF Inside, Stretch
    <3>9. pc' = "done" => (\E j \in 0..HeaderLength : Inside(j, contents))'
      BY <3>5, <3>7
    <3>10. /\ answer' \in Answers /\ sent' \in Nat /\ got' \in 0..sent'
           /\ sent' <= Len(Stream(answer'))
      BY <1>1, <2>1
    <3> QED
      BY <2>10, <3>2, <3>3, <3>8, <3>9, <3>10 DEF GapsInv
  <2> QED
    BY <1>9, <2>1, <2>4, <2>7, <2>9, <2>10 DEF ReadBody, Finish
<1>10. CASE BodyEnds
  <2>1. /\ pc = "body" /\ pc' = "done" /\ part' = <<>> /\ contents' = contents \o part
        /\ UNCHANGED <<answer, sent, got>>
    BY <1>10 DEF BodyEnds, Finish, serverVars
  <2>2. PICK k : /\ k = got - Len(contents) - Len(part) /\ k \in 0..HeaderLength
                 /\ Stretch(k, contents) /\ Stretch(k + Len(contents), part)
    BY <2>1 DEF GapsInv, Inside
  <2>3. /\ contents \in Seq(Unit) /\ part \in Seq(Unit)
        /\ Len(contents) \in Nat /\ Len(part) \in Nat
    BY LenProperties DEF GapsInv
  <2>4. /\ contents' \in Seq(Unit) /\ Len(contents') = Len(contents) + Len(part)
        /\ Stretch(k, contents')
    BY <1>2, <2>1, <2>2, <2>3, StretchesJoin
  <2>5. Inside(k, contents')
    BY <1>1, <1>2, <2>2, <2>3, <2>4 DEF Inside
  <2>6. <<>> \in Seq(Unit)
    BY EmptySeq
  <2> QED
    BY <1>1, <1>2, <2>1, <2>2, <2>4, <2>5, <2>6, ZenonT(30) DEF GapsInv, Inside, Stretch, HeaderLength
<1>11. CASE BodyStops
  <2>1. /\ pc = "body" /\ pc' = "done" /\ part' = <<>> /\ contents' = contents
        /\ UNCHANGED <<answer, sent, got>>
    BY <1>11 DEF BodyStops, Finish, serverVars
  <2>2. PICK k : Inside(k, contents)
    BY <2>1 DEF GapsInv
  <2>3. <<>> \in Seq(Unit)
    BY EmptySeq
  <2>4. k \in 0..HeaderLength' /\ Inside(k, contents)'
    BY <2>1, <2>2 DEF Inside, Stretch, HeaderLength
  <2> QED
    BY <1>1, <2>1, <2>3, <2>4 DEF GapsInv
<1>12. CASE BodyInterrupted
  BY <1>12 DEF BodyInterrupted, serverVars, GapsInv, Inside, Stretch, HeaderLength
<1>13. CASE UNCHANGED transportVars
  BY <1>13 DEF transportVars, GapsInv, Inside, Stretch, HeaderLength
<1> QED
  BY <1>3, <1>4, <1>5, <1>6, <1>7, <1>8, <1>9, <1>10, <1>11, <1>12, <1>13 DEF TransportNext

(* Before anything is read, nothing is missing. *)
LEMMA InitGaps == TransportInit => GapsInv
<1>1. <<>> \in Seq(Unit)
  BY EmptySeq
<1> QED
  BY <1>1, AnswerShape DEF TransportInit, GapsInv

(* Wherever the server breaks off or falls silent: what is kept of a       *)
(* document lacks nothing at its start or in its middle (io::read keeps    *)
(* what it has got over a signal, and RetrieveHTTP stops after a timeout). *)
THEOREM NothingMissing == TransportSpec => []NoGaps
<1>1. TransportInit => GapsInv
  BY InitGaps
<1>2. GapsInv /\ [TransportNext]_transportVars => GapsInv'
  BY GapsStep
<1>3. GapsInv => NoGaps
  <2> SUFFICES ASSUME GapsInv PROVE NoGaps
    OBVIOUS
  <2>1. /\ answer \in Answers /\ contents \in Seq(Unit) /\ Len(contents) \in Nat
    BY LenProperties DEF GapsInv
  <2>2. /\ Stream(answer) \in Seq(Unit) /\ Len(Stream(answer)) \in Nat
        /\ HeaderLength \in Nat \ {0}
    BY <2>1, AnswerShape
  <2>3. PICK k \in 0..HeaderLength : Inside(k, contents)
    <3>1. CASE pc \in {"connect", "header"}
      <4>1. got \in 0..HeaderLength /\ contents = <<>>
        BY <2>2, <3>1 DEF GapsInv
      <4> QED
        BY <2>1, <4>1, NothingRead
    <3>2. CASE pc \in {"body", "done"}
      BY <3>2 DEF GapsInv, Inside
    <3> QED
      BY <3>1, <3>2 DEF GapsInv
  <2>4. k \in Nat /\ k + Len(contents) \in Nat /\ k + Len(contents) <= Len(Stream(answer))
    BY <2>1, <2>2, <2>3 DEF Inside
  <2>5. \A i \in k + 1..k + Len(contents) : Stream(answer)[i] \in Unit
    BY <2>2, <2>4, ElementOfSeq
  <2>6. /\ SubSeq(Stream(answer), k + 1, k + Len(contents)) \in Seq(Unit)
        /\ Len(SubSeq(Stream(answer), k + 1, k + Len(contents))) = Len(contents)
        /\ \A i \in 1..Len(contents) :
              SubSeq(Stream(answer), k + 1, k + Len(contents))[i] = Stream(answer)[k + i]
    <3>1. /\ SubSeq(Stream(answer), k + 1, k + Len(contents)) \in Seq(Unit)
          /\ Len(SubSeq(Stream(answer), k + 1, k + Len(contents)))
               = IF k + 1 <= k + Len(contents) THEN k + Len(contents) - (k + 1) + 1 ELSE 0
          /\ \A i \in 1..k + Len(contents) - (k + 1) + 1 :
                SubSeq(Stream(answer), k + 1, k + Len(contents))[i]
                  = Stream(answer)[k + 1 + i - 1]
      BY <2>4, <2>5, SubSeqProperties
    <3>2. k + Len(contents) - (k + 1) + 1 = Len(contents)
      BY <2>1, <2>4
    <3>3. \A i \in 1..Len(contents) : k + 1 + i - 1 = k + i
      BY <2>1, <2>4
    <3>4. (IF k + 1 <= k + Len(contents) THEN Len(contents) ELSE 0) = Len(contents)
      BY <2>1, <2>4
    <3> QED
      BY <3>1, <3>2, <3>3, <3>4
  <2>7. contents = SubSeq(Stream(answer), k + 1, k + Len(contents))
    BY <2>1, <2>3, <2>6, SeqEqual DEF Inside, Stretch
  <2> QED
    BY <2>3, <2>7 DEF NoGaps, HeaderLength
<1> QED
  BY <1>1, <1>2, <1>3, PTL DEF TransportSpec

-----------------------------------------------------------------------------
(* A request that nothing disturbs.                                        *)

(* What has been read of the line at n. *)
LineAt(n, l) ==
    /\ \A f \in Fields \cap answer.fields :
          /\ n = Begins(f) => l = <<>>
          /\ n = Begins(f) + 1 => l = <<<<f, 1>>>>
          /\ n = Begins(f) + 2 => l = Text(f)
    /\ n = EndOf("length") => l = <<>>

Reached(n, f) == IF n >= EndOf(f) THEN Given(f) ELSE "none"

(* What the lines before n say. *)
HeaderAt(n, h) ==
    /\ h.status = IF n >= EndOf("status") THEN StatusOf(answer.code) ELSE "not_found"
    /\ h.date = Reached(n, "date")
    /\ h.location = Reached(n, "location")
    /\ h.type = Reached(n, "type")
    /\ h.length = IF n >= EndOf("length") THEN answer.length ELSE -1
    /\ n >= EndOf("type") => Expected(answer) = StatusOf(answer.code)

(* When a type that cannot be parsed matters. *)
LEMMA ExpectedIs ==
    /\ "type" \notin answer.fields => Expected(answer) = StatusOf(answer.code)
    /\ ~(StatusOf(answer.code) \in {"ok", "not_found"} /\ answer.type = "other")
          => Expected(answer) = StatusOf(answer.code)
    /\ "type" \in answer.fields /\ answer.type = "other"
          /\ StatusOf(answer.code) \in {"ok", "not_found"} => Expected(answer) = "not_html"
BY DEF Expected

(* What is appended to nothing, and to one unit. *)
LEMMA AppendTwo ==
    ASSUME NEW x, NEW y
    PROVE  Append(<<>>, x) = <<x>> /\ Append(<<x>>, y) = <<x, y>>
<1>1. PICK S : S = {x, y}
  OBVIOUS
<1>2. x \in S /\ y \in S
  BY <1>1
<1>3. PICK s : s = <<x>>
  OBVIOUS
<1>4. s \in Seq(S) /\ Len(s) = 1 /\ s[1] = x
  BY <1>2, <1>3
<1>5. <<>> \in Seq(S) /\ Len(<<>>) = 0
  BY EmptySeq
<1>6. /\ Append(<<>>, x) \in Seq(S) /\ Len(Append(<<>>, x)) = Len(<<>>) + 1
      /\ Append(<<>>, x)[Len(<<>>) + 1] = x
  BY <1>2, <1>5, AppendProperties
<1>7. /\ Append(s, y) \in Seq(S) /\ Len(Append(s, y)) = Len(s) + 1
      /\ \A i \in 1..Len(s) : Append(s, y)[i] = s[i]
      /\ Append(s, y)[Len(s) + 1] = y
  <2>1. s \in Seq(S) /\ y \in S
    BY <1>2, <1>4
  <2> QED
    BY ONLY <2>1, AppendProperties
<1>8. Append(<<>>, x) = <<x>>
  BY <1>5, <1>6
<1>9. /\ Append(s, y) \in Seq(S) /\ Len(Append(s, y)) = 2
      /\ Append(s, y)[1] = x /\ Append(s, y)[2] = y
  BY <1>4, <1>7
<1>10. Append(s, y) = <<x, y>>
  <2>1. PICK t : t = Append(s, y)
    OBVIOUS
  <2>2. t \in Seq(S) /\ Len(t) = 2 /\ t[1] = x /\ t[2] = y
    BY <1>9, <2>1
  <2>3. t = <<x, y>>
    BY <2>2
  <2> QED
    BY <2>1, <2>3
<1> QED
  BY <1>3, <1>8, <1>10

(* The first two units of a line do not end it. *)
LEMMA WithinLine ==
    ASSUME answer \in Answers, NEW f \in Fields \cap answer.fields, NEW n \in Nat,
           n \in Begins(f)..(Begins(f) + 1), NEW l, LineAt(n, l), NEW h, HeaderAt(n, h)
    PROVE  /\ Stream(answer)[n + 1] # NL
           /\ LineAt(n + 1, Append(l, Stream(answer)[n + 1]))
           /\ HeaderAt(n + 1, h)
           /\ n + 1 < EndOf("length")
<1>1. /\ EndOf(f) = Begins(f) + 3 /\ EndOf(f) <= EndOf("length")
      /\ \A g \in Fields : EndOf(g) \in Nat /\ Begins(g) \in Nat
      /\ \A g \in Fields \cap answer.fields : EndOf(g) = Begins(g) + 3
  BY OffsetTypes
<1>2. HasLine(Stream(answer), f, Begins(f))
  BY StreamShape DEF Begins
<1>3. /\ n = Begins(f) => Stream(answer)[n + 1] = <<f, 1>>
      /\ n = Begins(f) + 1 => Stream(answer)[n + 1] = <<f, 2>>
  BY <1>1, <1>2 DEF HasLine
<1>4. \A g \in Fields : (n >= EndOf(g)) = (n + 1 >= EndOf(g))
  BY <1>1, LinesApart
<1>5. /\ n = Begins(f) => Append(l, Stream(answer)[n + 1]) = <<<<f, 1>>>>
      /\ n = Begins(f) + 1 => Append(l, Stream(answer)[n + 1]) = Text(f)
  BY <1>3, AppendTwo DEF LineAt, Text
<1>6. \A g \in Fields \cap answer.fields : n + 1 \in Begins(g)..(Begins(g) + 2) => g = f
  BY <1>1, LinesApart
<1>7. LineAt(n + 1, Append(l, Stream(answer)[n + 1]))
  <2> DEFINE m == Append(l, Stream(answer)[n + 1])
  <2>1. /\ n + 1 # EndOf("length") /\ n + 1 # Begins(f)
        /\ n + 1 = Begins(f) + 1 => m = <<<<f, 1>>>>
        /\ n + 1 = Begins(f) + 2 => m = Text(f)
    BY <1>1, <1>5
  <2> HIDE DEF m
  <2>2. \A g \in Fields \cap answer.fields : g # f =>
            n + 1 # Begins(g) /\ n + 1 # Begins(g) + 1 /\ n + 1 # Begins(g) + 2
    BY <1>1, <1>6
  <2>3. LineAt(n + 1, m)
    BY <2>1, <2>2 DEF LineAt
  <2> QED
    BY <2>3 DEF m
<1>8. HeaderAt(n + 1, h)
  BY <1>4 DEF HeaderAt, Reached, Fields
<1>9. Stream(answer)[n + 1] # NL
  BY <1>1, <1>3 DEF NL, Fields
<1> QED
  BY <1>1, <1>7, <1>8, <1>9 DEF Fields

(* The third one does: what the line says is recognised. *)
LEMMA LineEnds ==
    ASSUME answer \in Answers, NEW f \in Fields \cap answer.fields, NEW n \in Nat,
           n = Begins(f) + 2, LineAt(n, line), HeaderAt(n, header)
    PROVE  /\ Stream(answer)[n + 1] = NL /\ line = Text(f) /\ line # <<>>
           /\ LineAt(n + 1, <<>>) /\ n + 1 <= EndOf("length")
           /\ ~LooksOther(line)
           /\ NotText(line) => Expected(answer) = "not_html"
           /\ ~NotText(line) => \A h \in Recognised(line) : HeaderAt(n + 1, h)
<1>1. /\ EndOf(f) = Begins(f) + 3 /\ EndOf(f) <= EndOf("length")
      /\ \A g \in Fields : EndOf(g) \in Nat /\ Begins(g) \in Nat
      /\ \A g \in Fields \cap answer.fields : EndOf(g) = Begins(g) + 3
      /\ EndOf("status") = 3 /\ Begins("length") = EndOf("type") /\ Begins("status") = 0
  BY OffsetTypes
<1>2. Stream(answer)[n + 1] = NL
  <2>1. HasLine(Stream(answer), f, Begins(f))
    BY StreamShape DEF Begins
  <2> QED
    BY <1>1, <2>1 DEF HasLine
<1>3. line = Text(f)
  BY DEF LineAt
<1>4. LineAt(n + 1, <<>>)
  <2>1. \A g \in Fields \cap answer.fields : n + 1 \notin (Begins(g) + 1)..(Begins(g) + 2)
    BY <1>1, LinesApart
  <2> QED
    BY <1>1, <2>1 DEF LineAt
<1>5. \A g, h \in Fields : Text(g) = Text(h) => g = h
  BY DEF Text, Fields
<1>6. /\ line # <<>>
      /\ line = Text("status") <=> f = "status"
      /\ line = Text("date") <=> f = "date"
      /\ line = Text("length") <=> f = "length"
      /\ line = Text("type") <=> f = "type"
  <2>1. Text(f) # <<>>
    BY DEF Text
  <2> QED
    BY <1>3, <1>5, <2>1 DEF Fields
<1>7. \A g \in Fields : g # f =>
          \/ (n >= EndOf(g)) = (n + 1 >= EndOf(g))
          \/ g \notin answer.fields /\ n + 1 >= EndOf(g)
  BY <1>1, LinesApart
<1>8. header.status = StatusOf(answer.code) \/ f = "status"
  BY <1>1, LinesApart DEF HeaderAt, Fields
<1>9. NotText(line) => Expected(answer) = "not_html"
  BY <1>6, <1>8, ExpectedIs DEF NotText, TypeMatters
<1>10. "length" \notin answer.fields => answer.length = -1
  BY AnswersAssumption
<1>11. /\ ~LooksOther(line)
       /\ \A g \in Fields : line # Half(g)
       /\ \A g \in Fields : line = Text(g) <=> f = g
  <2>1. Text(f) = <<<<f, 1>>, <<f, 2>>>>
    BY DEF Text
  <2>2. \A g \in Fields : line # Half(g)
    BY <1>3, <2>1 DEF Half
  <2> QED
    BY <1>3, <1>5, <2>2 DEF LooksOther, Fields
<1>12. ASSUME ~NotText(line), NEW h \in Recognised(line) PROVE HeaderAt(n + 1, h)
  <2>1. /\ h.status \in StatusRead(line) /\ h.date \in ValueRead(line, "date", header.date)
        /\ h.location \in ValueRead(line, "location", header.location)
        /\ h.type \in TypeRead(line) /\ h.length \in LengthRead(line)
    BY <1>12 DEF Recognised
  <2>2. h.status = IF n + 1 >= EndOf("status") THEN StatusOf(answer.code) ELSE "not_found"
    <3>1. CASE f = "status"
      BY <1>1, <1>11, <2>1, <3>1 DEF StatusRead, Fields
    <3>2. CASE f # "status"
      <4>1. h.status = header.status
        BY <1>11, <2>1, <3>2 DEF StatusRead, Fields
      <4>2. n >= EndOf("status")
        BY <1>1, <3>2, LinesApart DEF Fields
      <4>3. n + 1 >= EndOf("status")
        BY <1>1, <4>2
      <4> QED
        BY <4>1, <4>2, <4>3 DEF HeaderAt
    <3> QED
      BY <3>1, <3>2
  <2>3. h.length = IF n + 1 >= EndOf("length") THEN answer.length ELSE -1
    <3>1. CASE f = "length"
      BY <1>1, <1>11, <2>1, <3>1 DEF LengthRead, Fields
    <3>2. CASE f # "length"
      <4>1. h.length = header.length
        BY <1>11, <2>1, <3>2 DEF LengthRead, Fields
      <4>2. (n >= EndOf("length")) = (n + 1 >= EndOf("length")) \/ answer.length = -1
        BY <1>7, <1>10, <3>2 DEF Fields
      <4> QED
        BY <4>1, <4>2 DEF HeaderAt
    <3> QED
      BY <3>1, <3>2
  <2>4. ASSUME NEW g \in Fields, NEW old, old = Reached(n, g),
               NEW v \in ValueRead(line, g, old)
        PROVE  v = Reached(n + 1, g)
    <3>1. CASE f = g
      BY <1>1, <1>11, <2>4, <3>1 DEF ValueRead, Reached, Given
    <3>2. CASE f # g
      <4>1. v = old
        BY <1>11, <2>4, <3>2 DEF ValueRead
      <4>2. (n >= EndOf(g)) = (n + 1 >= EndOf(g)) \/ g \notin answer.fields
        BY <1>7, <3>2
      <4> QED
        BY <2>4, <4>1, <4>2 DEF Reached, Given
    <3> QED
      BY <3>1, <3>2
  <2>5. /\ h.date = Reached(n + 1, "date") /\ h.location = Reached(n + 1, "location")
    BY <2>1, <2>4 DEF HeaderAt, Fields
  <2>6. h.type = Reached(n + 1, "type")
    <3>1. CASE f = "type"
      <4>1. h.type \in ValueRead(line, "type", header.type)
        BY <1>11, <1>12, <2>1, <3>1 DEF TypeRead, NotText, Fields
      <4> QED
        BY <2>4, <4>1 DEF HeaderAt, Fields
    <3>2. CASE f # "type"
      <4>1. header.type \in ValueRead(line, "type", header.type)
        BY <1>11, <3>2 DEF ValueRead, Fields
      <4>2. h.type \in ValueRead(line, "type", header.type)
        BY <2>1, <4>1 DEF TypeRead
      <4> QED
        BY <2>4, <4>2 DEF HeaderAt, Fields
    <3> QED
      BY <3>1, <3>2
  <2>7. n + 1 >= EndOf("type") => Expected(answer) = StatusOf(answer.code)
    <3>1. CASE f = "type"
      BY <1>6, <1>8, <1>12, <3>1, ExpectedIs DEF NotText, TypeMatters, Fields
    <3>2. CASE f # "type"
      <4>1. n + 1 >= EndOf("type") => n >= EndOf("type") \/ "type" \notin answer.fields
        BY <1>7, <3>2 DEF Fields
      <4> QED
        BY <4>1, ExpectedIs DEF HeaderAt
    <3> QED
      BY <3>1, <3>2
  <2> QED
    BY <2>2, <2>3, <2>5, <2>6, <2>7 DEF HeaderAt
<1> QED
  BY <1>1, <1>2, <1>3, <1>4, <1>6, <1>9, <1>11, <1>12

(* The document's units that were read last, after the first n of them. *)
BodyFrom(n, s) == \A i \in 1..Len(s) : s[i] = <<"body", n + i>>

AllGiven(h) ==
    h.date = Given("date") /\ h.location = Given("location") /\ h.type = Given("type")

(* While nothing goes wrong: *)
ReadSoFar ==
    /\ pc = "connect" => got = 0
    /\ pc \in {"connect", "header"} =>
          /\ got <= EndOf("length")
          /\ LineAt(got, line) /\ HeaderAt(got, header)
          /\ part = <<>> /\ contents = <<>>
    /\ pc = "body" =>
          /\ StatusOf(answer.code) = "ok" /\ Expected(answer) = "ok"
          /\ header.length = answer.length /\ AllGiven(header)
          /\ got = EndOf("length") + 1 + Len(contents) + Len(part)
          /\ BodyFrom(0, contents) /\ BodyFrom(Len(contents), part)
          /\ Len(part) < BufSize /\ Len(contents) + Len(part) < Goal(answer.length)

TrueInv ==
    /\ closed /\ trouble = {} => sent = Len(Stream(answer))
    /\ trouble = {} => ReadSoFar
    /\ Undisturbed

(* What is wanted of the document. *)
LEMMA GoalIs ==
    ASSUME answer \in Answers
    PROVE  /\ Goal(answer.length) \in Nat
           /\ Goal(answer.length) \in {MaxDoc, answer.length} \ {-1}
           /\ \A m \in {MaxDoc, answer.length} \ {-1} : Goal(answer.length) <= m
BY AnswersAssumption, TransportAssumption DEF Goal

(* When the document is over, or as much of it as is wanted is there. *)
LEMMA DocumentRead ==
    ASSUME answer \in Answers, NEW s \in Seq(Unit), BodyFrom(0, s),
           Len(s) <= answer.body, Len(s) <= Goal(answer.length),
           Len(s) \in {answer.body, Goal(answer.length)}
    PROVE  /\ s = SubSeq(Body(answer), 1, Len(s))
           /\ Len(s) = Min({answer.body, MaxDoc, answer.length} \ {-1})
<1>1. answer.body \in Nat /\ Len(s) \in Nat
  BY AnswersAssumption, LenProperties
<1>2. /\ Body(answer) \in Seq(Unit) /\ Len(Body(answer)) = answer.body
      /\ \A i \in 1..answer.body : Body(answer)[i] = <<"body", i>>
  BY <1>1, BodyUnits
<1>3. s = SubSeq(Body(answer), 1, Len(s))
  <2>1. PICK t : t = SubSeq(Body(answer), 1, Len(s))
    OBVIOUS
  <2>2. t \in Seq(Unit) /\ Len(t) = Len(s) /\ \A i \in 1..Len(s) : t[i] = Body(answer)[i]
    <3>1. PICK b : b = Body(answer)
      OBVIOUS
    <3> QED
      BY <1>1, <1>2, <2>1, <3>1
  <2>3. \A i \in 1..Len(s) : t[i] = s[i]
    <3>1. \A i \in 1..Len(s) : i \in 1..answer.body /\ 0 + i = i
      BY <1>1
    <3> QED
      BY <1>2, <2>2, <3>1 DEF BodyFrom
  <2> QED
    BY <2>1, <2>2, <2>3, SeqEqual
<1>4. Len(s) = Min({answer.body, MaxDoc, answer.length} \ {-1})
  <2> DEFINE S == {answer.body, MaxDoc, answer.length} \ {-1}
  <2>1. S \subseteq Nat /\ Len(s) \in S /\ \A m \in S : Len(s) <= m
    BY <1>1, GoalIs, AnswersAssumption, TransportAssumption
  <2>2. \A x \in S : (\A m \in S : x <= m) => x = Len(s)
    <3> HIDE DEF S
    <3> QED
      BY <1>1, <2>1
  <2> HIDE DEF S
  <2>3. Min(S) = Len(s)
    BY <2>1, <2>2 DEF Min
  <2> QED
    BY <2>3 DEF S
<1> QED
  BY <1>3, <1>4

(* Nothing but the answer tells where a line is and what it says. *)
LEMMA SameAnswer ==
    ASSUME answer' = answer, NEW n, NEW l, NEW h, LineAt(n, l), HeaderAt(n, h),
           got' = n, line' = l, header' = h, n <= EndOf("length"),
           pc' \in {"connect", "header"}, pc' = "connect" => n = 0,
           part' = <<>>, contents' = <<>>
    PROVE  ReadSoFar'
<1>1. EndOf("length")' = EndOf("length")
  BY DEF EndOf, Width
<1>2. LineAt(got, line)'
  BY DEF LineAt, Begins, EndOf, Width
<1>3. HeaderAt(got, header)'
  BY DEF HeaderAt, Reached, Given, EndOf, Width, Expected
<1> QED
  BY <1>1, <1>2, <1>3 DEF ReadSoFar

(* The empty line, when nothing has gone wrong before. *)
LEMMA HeaderOver ==
    ASSUME GapsInv, TrueInv, trouble = {}, pc = "header", Pending, EndLine,
           got = EndOf("length"), got' = got + 1, UNCHANGED <<serverVars, trouble>>
    PROVE  TrueInv'
<1>1. /\ answer \in Answers /\ sent \in Nat /\ got \in 0..sent /\ got + 1 \in 0..sent
      /\ sent <= Len(Stream(answer))
      /\ LineAt(got, line) /\ HeaderAt(got, header)
      /\ part = <<>> /\ contents = <<>>
      /\ closed /\ trouble = {} => sent = Len(Stream(answer))
  BY DEF GapsInv, TrueInv, ReadSoFar, Pending
<1>2. /\ answer' = answer /\ sent' = sent /\ closed' = closed /\ trouble' = {}
      /\ part' = <<>> /\ contents' = <<>>
  BY <1>1 DEF EndLine, serverVars
<1>3. line = <<>>
  BY <1>1 DEF LineAt
<1>4. header.status = StatusOf(answer.code) /\ Expected(answer) = StatusOf(answer.code)
      /\ header.length = answer.length /\ AllGiven(header)
  <2>1. \A f \in Fields : EndOf("length") >= EndOf(f)
    BY <1>1, OffsetTypes
  <2> QED
    BY <1>1, <2>1 DEF HeaderAt, Reached, AllGiven, Fields
<1>5. <<>> \in Seq(Unit) /\ Len(<<>>) = 0
  BY EmptySeq
<1>6. Goal(answer.length) \in Nat
  BY <1>1, GoalIs
<1>7. CASE StatusOf(answer.code) = "ok" /\ Goal(answer.length) > 0
  <2>1. pc' = "body" /\ header' = header
    BY <1>3, <1>4, <1>7 DEF EndLine
  <2>2. ReadSoFar'
    <3>1. /\ StatusOf(answer'.code) = "ok" /\ Expected(answer)' = "ok"
          /\ header'.length = answer'.length /\ AllGiven(header)'
      BY <1>2, <1>4, <1>7, <2>1 DEF Expected, AllGiven, Given
    <3>2. got' = (EndOf("length") + 1 + Len(contents) + Len(part))'
      <4>1. EndOf("length") \in Nat /\ EndOf("length")' = EndOf("length")
        BY <1>1, <1>2 DEF EndOf, Width
      <4> QED
        BY <1>2, <1>5, <4>1
    <3>3. (BodyFrom(0, contents) /\ BodyFrom(Len(contents), part))'
      BY <1>2, <1>5 DEF BodyFrom
    <3>4. (Len(part) < BufSize /\ Len(contents) + Len(part) < Goal(answer.length))'
      BY <1>2, <1>5, <1>6, <1>7, TransportAssumption DEF Goal
    <3> QED
      BY <2>1, <3>1, <3>2, <3>3, <3>4 DEF ReadSoFar
  <2> QED
    BY <1>1, <1>2, <1>5, <2>1, <2>2 DEF TrueInv, Undisturbed
<1>8. CASE ~(StatusOf(answer.code) = "ok" /\ Goal(answer.length) > 0)
  <2>1. pc' = "done" /\ result' = StatusOf(answer.code) /\ header' = header
    BY <1>3, <1>4, <1>8 DEF EndLine, Finish
  <2>2. ASSUME StatusOf(answer.code) = "ok"
        PROVE  /\ contents' = SubSeq(Body(answer), 1, Len(contents'))
               /\ Len(contents') = Min({answer.body, MaxDoc, answer.length} \ {-1})
    <3>1. answer.body \in Nat /\ Goal(answer.length) = 0 /\ BodyFrom(0, <<>>)
      BY <1>1, <1>5, <1>6, <1>8, <2>2, AnswersAssumption DEF BodyFrom
    <3>2. PICK s : s = contents' /\ s = <<>>
      BY <1>2
    <3>3. s = SubSeq(Body(answer), 1, Len(s)) /\ Len(s) = Min({answer.body, MaxDoc, answer.length} \ {-1})
      <4>1. /\ s \in Seq(Unit) /\ Len(s) = 0 /\ BodyFrom(0, s)
            /\ Len(s) <= answer.body /\ Len(s) <= Goal(answer.length)
            /\ Len(s) \in {answer.body, Goal(answer.length)}
        BY <1>5, <3>1, <3>2
      <4> QED
        BY <1>1, <4>1, DocumentRead
    <3> QED
      BY <3>2, <3>3
  <2>3. Undisturbed'
    BY <1>2, <1>4, <2>1, <2>2 DEF Undisturbed, Expected, Body, AllGiven, Given
  <2> QED
    BY <1>1, <1>2, <1>5, <2>1, <2>3 DEF TrueInv, ReadSoFar
<1> QED
  BY <1>7, <1>8

(* The end of a line. *)
LEMMA HeaderRead ==
    ASSUME GapsInv, TrueInv, trouble = {}, pc = "header", Pending, EndLine,
           Stream(answer)[got + 1] = NL, got' = got + 1, UNCHANGED <<serverVars, trouble>>
    PROVE  TrueInv'
<1>1. /\ answer \in Answers /\ sent \in Nat /\ got \in 0..sent /\ got + 1 \in 0..sent
      /\ sent <= Len(Stream(answer)) /\ got <= EndOf("length")
      /\ LineAt(got, line) /\ HeaderAt(got, header)
      /\ part = <<>> /\ contents = <<>>
      /\ closed /\ trouble = {} => sent = Len(Stream(answer))
  BY DEF GapsInv, TrueInv, ReadSoFar, Pending
<1>2. /\ answer' = answer /\ sent' = sent /\ closed' = closed /\ trouble' = {}
      /\ part' = <<>> /\ contents' = <<>> /\ line' = <<>>
  BY <1>1 DEF EndLine, serverVars
<1>3. <<>> \in Seq(Unit) /\ Len(<<>>) = 0
  BY EmptySeq
<1>4. CASE got < EndOf("length")
  <2>1. PICK f \in Fields \cap answer.fields : got \in Begins(f)..(Begins(f) + 2)
    BY <1>1, <1>4, InSomeLine
  <2>2. got = Begins(f) + 2
    <3>1. Begins(f) \in Nat
      BY <1>1, OffsetTypes
    <3>2. got \notin Begins(f)..(Begins(f) + 1)
      BY <1>1, WithinLine
    <3> QED
      BY <1>1, <2>1, <3>1, <3>2
  <2>3. /\ line # <<>>
        /\ LineAt(got + 1, <<>>) /\ got + 1 <= EndOf("length")
        /\ ~LooksOther(line)
        /\ NotText(line) => Expected(answer) = "not_html"
        /\ ~NotText(line) => \A h \in Recognised(line) : HeaderAt(got + 1, h)
    BY <1>1, <2>2, LineEnds
  <2>4. CASE NotText(line)
    <3>1. pc' = "done" /\ result' = "not_html"
      BY <2>3, <2>4 DEF EndLine, Finish
    <3>2. Undisturbed'
      BY <1>2, <2>3, <2>4, <3>1 DEF Undisturbed, Expected
    <3> QED
      BY <1>1, <1>2, <1>3, <3>1, <3>2 DEF TrueInv, ReadSoFar
  <2>5. CASE ~NotText(line)
    <3>1. pc' = "header" /\ header' \in Recognised(line)
      BY <2>3, <2>5 DEF EndLine
    <3>2. ReadSoFar'
      BY <1>2, <2>3, <2>5, <3>1, SameAnswer
    <3> QED
      BY <1>1, <1>2, <1>3, <3>1, <3>2 DEF TrueInv, Undisturbed
  <2> QED
    BY <2>4, <2>5
<1>5. CASE got = EndOf("length")
  BY <1>5, HeaderOver
<1>6. EndOf("length") \in Nat
  BY <1>1, OffsetTypes DEF Fields
<1> QED
  BY <1>1, <1>4, <1>5, <1>6

(* While the document is read. *)
LEMMA BodyRead ==
    ASSUME GapsInv, TrueInv, trouble = {}, ReadBody
    PROVE  TrueInv'
<1>1. /\ answer \in Answers /\ sent \in Nat /\ got \in 0..sent /\ got + 1 \in 0..sent
      /\ sent <= Len(Stream(answer)) /\ pc = "body"
      /\ StatusOf(answer.code) = "ok" /\ Expected(answer) = "ok"
      /\ header.length = answer.length /\ AllGiven(header)
      /\ got = EndOf("length") + 1 + Len(contents) + Len(part)
      /\ Len(part) < BufSize /\ Len(contents) + Len(part) < Goal(answer.length)
      /\ closed /\ trouble = {} => sent = Len(Stream(answer))
  BY DEF GapsInv, TrueInv, ReadSoFar, Pending, ReadBody
<1>2. /\ contents \in Seq(Unit) /\ part \in Seq(Unit)
      /\ BodyFrom(0, contents) /\ BodyFrom(Len(contents), part)
  BY <1>1 DEF GapsInv, TrueInv, ReadSoFar
<1>3. /\ answer' = answer /\ sent' = sent /\ closed' = closed /\ trouble' = {}
      /\ header' = header /\ got' = got + 1
  BY <1>1 DEF ReadBody, serverVars
<1>4. /\ Len(contents) \in Nat /\ Len(part) \in Nat /\ Goal(answer.length) \in Nat
      /\ answer.body \in Nat /\ EndOf("length") \in Nat /\ EndOf("length")' = EndOf("length")
      /\ Len(Stream(answer)) = EndOf("length") + 1 + answer.body
      /\ BufSize \in Nat
  <2>1. EndOf("length")' = EndOf("length")
    BY <1>3 DEF EndOf, Width
  <2>2. EndOf("length") \in Nat
    BY <1>1, OffsetTypes DEF Fields
  <2> QED
    BY <1>2, <1>1, <2>1, <2>2, LenProperties, GoalIs, AnswersAssumption, TransportAssumption, StreamShape
<1>5. /\ got = EndOf("length") + 1 + Len(contents) + Len(part)
      /\ Len(part) < BufSize /\ Len(contents) + Len(part) < Goal(answer.length)
      /\ Len(contents) + Len(part) + 1 <= answer.body
  <2>1. /\ got = EndOf("length") + 1 + Len(contents) + Len(part)
        /\ Len(part) < BufSize /\ Len(contents) + Len(part) < Goal(answer.length)
    BY <1>1
  <2>2. sent \in Nat /\ got + 1 <= sent /\ sent <= EndOf("length") + 1 + answer.body
    BY <1>1, <1>4
  <2> QED
    BY <1>4, <2>1, <2>2, SMTT(30)
<1>6. EndOf("length") \in Nat /\ Len(contents) \in Nat /\ Len(part) \in Nat
  BY <1>4
<1>7. got = EndOf("length") + 1 + Len(contents) + Len(part)
  BY <1>5
<1>8. PICK unit : unit = Stream(answer)[got + 1]
  OBVIOUS
<1>9. unit = <<"body", Len(contents) + Len(part) + 1>> /\ unit \in Unit
  <2>1. /\ Len(contents) + Len(part) + 1 \in 1..answer.body
        /\ got + 1 = EndOf("length") + 1 + (Len(contents) + Len(part) + 1)
    <3>1. Len(contents) + Len(part) + 1 \in Nat \ {0}
      BY <1>4
    <3>2. got + 1 = EndOf("length") + 1 + (Len(contents) + Len(part) + 1)
      BY <1>6, <1>7
    <3>3. Len(contents) + Len(part) + 1 <= answer.body /\ answer.body \in Nat
      BY <1>4, <1>5
    <3> QED
      BY <3>1, <3>2, <3>3
  <2>2. unit = <<"body", Len(contents) + Len(part) + 1>>
    BY <1>1, <1>8, <2>1, StreamShape
  <2> QED
    BY <1>4, <2>2 DEF Unit
<1>10. PICK more : more = Append(part, unit)
  OBVIOUS
<1>11. more \in Seq(Unit) /\ Len(more) = Len(part) + 1 /\ BodyFrom(Len(contents), more)
  <2>1. /\ more \in Seq(Unit) /\ Len(more) = Len(part) + 1
        /\ \A i \in 1..Len(part) : more[i] = part[i]
        /\ more[Len(part) + 1] = unit
    BY <1>2, <1>9, <1>10, AppendProperties
  <2>2. ASSUME NEW i \in 1..Len(more) PROVE more[i] = <<"body", Len(contents) + i>>
    <3>1. CASE i = Len(part) + 1
      BY <1>4, <1>9, <2>1, <3>1
    <3>2. CASE i # Len(part) + 1
      <4>1. i \in 1..Len(part)
        BY <1>4, <2>1, <3>2
      <4> QED
        BY <1>2, <2>1, <4>1 DEF BodyFrom
    <3> QED
      BY <3>1, <3>2
  <2> QED
    BY <2>1, <2>2 DEF BodyFrom
<1>12. /\ Len(more) \in Nat /\ Len(more) = Len(part) + 1
       /\ Asked = IF Goal(answer.length) - Len(contents) < BufSize
                  THEN Goal(answer.length) - Len(contents) ELSE BufSize
       /\ ToGo = Goal(answer.length) - Len(contents)
  BY <1>1, <1>4, <1>11 DEF Asked, ToGo
<1>13. CASE Len(more) < Asked
  <2>1. part' = more /\ contents' = contents /\ pc' = "body"
    BY <1>1, <1>8, <1>10, <1>13 DEF ReadBody
  <2>2. Len(more) < BufSize /\ Len(contents) + Len(more) < Goal(answer.length)
    BY <1>4, <1>13, <1>12, <1>5, SMTT(30)
  <2>3. ReadSoFar'
    <3>1. /\ StatusOf(answer'.code) = "ok" /\ Expected(answer)' = "ok"
          /\ header'.length = answer'.length /\ AllGiven(header)'
      BY <1>1, <1>3 DEF Expected, AllGiven, Given
    <3>2. got' = (EndOf("length") + 1 + Len(contents) + Len(part))'
      <4>1. got + 1 = EndOf("length") + 1 + Len(contents) + Len(more)
        <5>1. Len(more) = Len(part) + 1
          BY <1>12
        <5> QED
          BY <1>6, <1>7, <5>1
      <4> QED
        BY <1>3, <1>4, <2>1, <4>1
    <3>3. (BodyFrom(0, contents) /\ BodyFrom(Len(contents), part))'
      BY <1>2, <1>11, <2>1 DEF BodyFrom
    <3>4. (Len(part) < BufSize /\ Len(contents) + Len(part) < Goal(answer.length))'
      BY <1>3, <2>1, <2>2 DEF Goal
    <3> QED
      BY <2>1, <3>1, <3>2, <3>3, <3>4 DEF ReadSoFar
  <2> QED
    BY <1>1, <1>3, <2>1, <2>3 DEF TrueInv, Undisturbed
<1>14. CASE ~(Len(more) < Asked)
  <2>1. /\ contents' = contents \o more /\ part' = <<>>
        /\ IF Len(more) = ToGo THEN pc' = "done" /\ result' = "ok" ELSE pc' = "body"
    BY <1>1, <1>8, <1>10, <1>14 DEF ReadBody, Finish
  <2>2. PICK all : all = contents \o more
    OBVIOUS
  <2>3. /\ all \in Seq(Unit) /\ Len(all) = Len(contents) + Len(more)
        /\ \A i \in 1..Len(contents) : all[i] = contents[i]
        /\ \A i \in 1..Len(more) : all[Len(contents) + i] = more[i]
    BY <1>2, <1>11, <2>2, Cat
  <2>4. Len(all) \in Nat /\ Len(all) = Len(contents) + Len(part) + 1
    BY <1>4, <1>12, <2>3
  <2>5. BodyFrom(0, all)
    <3> SUFFICES ASSUME NEW i \in 1..Len(all) PROVE all[i] = <<"body", 0 + i>>
      BY DEF BodyFrom
    <3>1. CASE i <= Len(contents)
      <4>1. i \in 1..Len(contents)
        BY <1>6, <2>4, <3>1
      <4> QED
        BY <1>2, <2>3, <4>1 DEF BodyFrom
    <3>2. CASE i > Len(contents)
      <4>1. i - Len(contents) \in 1..Len(more) /\ i = Len(contents) + (i - Len(contents))
        BY <1>4, <1>11, <2>3, <3>2
      <4>2. all[i] = more[i - Len(contents)]
        BY <2>3, <4>1
      <4>3. more[i - Len(contents)] = <<"body", Len(contents) + (i - Len(contents))>>
        BY <1>11, <4>1 DEF BodyFrom
      <4>4. Len(contents) + (i - Len(contents)) = 0 + i
        <5>1. i \in Int /\ Len(contents) \in Int
          BY <1>6, <2>4
        <5> QED
          BY <5>1
      <4> QED
        BY <4>2, <4>3, <4>4
    <3> QED
      BY <1>4, <1>11, <2>3, <3>1, <3>2
  <2>6. Len(all) <= answer.body
    BY <1>4, <1>5, <2>4
  <2>7. CASE Len(more) = ToGo
    <3>1. Len(all) = Goal(answer.length)
      BY <1>4, <1>12, <2>7, <2>4, SMTT(30)
    <3>2. /\ all = SubSeq(Body(answer), 1, Len(all))
          /\ Len(all) = Min({answer.body, MaxDoc, answer.length} \ {-1})
      <4>1. all \in Seq(Unit) /\ Len(all) <= Goal(answer.length)
        BY <1>4, <2>3, <3>1
      <4> QED
        BY <1>1, <2>5, <2>6, <3>1, <4>1, DocumentRead
    <3>3. pc' = "done" /\ result' = "ok" /\ contents' = all
      BY <2>1, <2>2, <2>7
    <3>4. Undisturbed'
      BY <1>1, <1>3, <3>2, <3>3 DEF Undisturbed, Expected, Body, AllGiven, Given
    <3> QED
      BY <1>1, <1>3, <3>3, <3>4 DEF TrueInv, ReadSoFar
  <2>8. CASE Len(more) # ToGo
    <3>1. pc' = "body" /\ contents' = all /\ part' = <<>>
      BY <2>1, <2>2, <2>8
    <3>2. Len(<<>>) = 0 /\ BodyFrom(Len(all), <<>>)
      BY EmptySeq DEF BodyFrom
    <3>3. Len(all) < Goal(answer.length) /\ 0 < BufSize
      BY <1>4, <1>14, <1>12, <1>5, <2>8, <2>4, TransportAssumption
    <3>4. ReadSoFar'
      <4>1. /\ StatusOf(answer'.code) = "ok" /\ Expected(answer)' = "ok"
            /\ header'.length = answer'.length /\ AllGiven(header)'
        BY <1>1, <1>3 DEF Expected, AllGiven, Given
      <4>2. got' = (EndOf("length") + 1 + Len(contents) + Len(part))'
        <5>1. Len(contents') = Len(all) /\ Len(part') = 0
          BY <3>1, <3>2
        <5> QED
          BY <1>1, <1>3, <1>4, <2>4, <5>1, SMTT(30)
      <4>3. (BodyFrom(0, contents) /\ BodyFrom(Len(contents), part))'
        BY <2>5, <3>1, <3>2 DEF BodyFrom
      <4>4. (Len(part) < BufSize /\ Len(contents) + Len(part) < Goal(answer.length))'
        <5>1. Len(contents') + Len(part') = Len(all)
          BY <2>4, <3>1, <3>2
        <5> QED
          BY <1>3, <3>1, <3>2, <3>3, <5>1 DEF Goal
      <4> QED
        BY <3>1, <4>1, <4>2, <4>3, <4>4 DEF ReadSoFar
    <3> QED
      BY <1>1, <1>3, <3>1, <3>4 DEF TrueInv, Undisturbed
  <2> QED
    BY <2>7, <2>8
<1> QED
  BY <1>13, <1>14

(* At the end of the input all of it has been read. *)
LEMMA BodyOver ==
    ASSUME GapsInv, TrueInv, trouble = {}, BodyEnds
    PROVE  TrueInv'
<1>1. /\ answer \in Answers /\ pc = "body" /\ got = Len(Stream(answer))
      /\ StatusOf(answer.code) = "ok" /\ Expected(answer) = "ok" /\ AllGiven(header)
      /\ got = EndOf("length") + 1 + Len(contents) + Len(part)
      /\ Len(contents) + Len(part) < Goal(answer.length)
      /\ closed /\ trouble = {} => sent = Len(Stream(answer))
  BY DEF GapsInv, TrueInv, ReadSoFar, Pending, Exhausted, BodyEnds
<1>2. /\ contents \in Seq(Unit) /\ part \in Seq(Unit)
      /\ BodyFrom(0, contents) /\ BodyFrom(Len(contents), part)
  BY <1>1 DEF GapsInv, TrueInv, ReadSoFar
<1>3. /\ answer' = answer /\ sent' = sent /\ closed' = closed /\ trouble' = {}
      /\ contents' = contents \o part /\ pc' = "done" /\ result' = "ok" /\ header' = header
  BY <1>1 DEF BodyEnds, Finish, serverVars
<1>4. PICK all : all = contents \o part
  OBVIOUS
<1>5. /\ all \in Seq(Unit) /\ Len(all) = Len(contents) + Len(part)
      /\ Len(contents) \in Nat /\ Len(part) \in Nat
      /\ \A i \in 1..Len(contents) : all[i] = contents[i]
      /\ \A i \in 1..Len(part) : all[Len(contents) + i] = part[i]
  BY <1>2, <1>4, Cat
<1>6. BodyFrom(0, all)
  <2> SUFFICES ASSUME NEW i \in 1..Len(all) PROVE all[i] = <<"body", 0 + i>>
    BY DEF BodyFrom
  <2>1. CASE i <= Len(contents)
    BY <1>2, <1>5, <2>1 DEF BodyFrom
  <2>2. CASE i > Len(contents)
    <3>1. i - Len(contents) \in 1..Len(part) /\ i = Len(contents) + (i - Len(contents))
      BY <1>5, <2>2
    <3>2. all[i] = part[i - Len(contents)]
      BY <1>5, <3>1
    <3> QED
      BY <1>2, <1>5, <3>1, <3>2 DEF BodyFrom
  <2> QED
    BY <1>5, <2>1, <2>2
<1>7. answer.body \in Nat /\ Len(all) = answer.body /\ Len(all) <= Goal(answer.length)
  <2>1. /\ answer.body \in Nat /\ Goal(answer.length) \in Nat
        /\ EndOf("length") \in Nat
        /\ Len(Stream(answer)) = EndOf("length") + 1 + answer.body
    BY <1>1, AnswersAssumption, GoalIs, OffsetTypes, StreamShape DEF Fields
  <2>2. Len(all) \in Nat /\ Len(contents) \in Nat /\ Len(part) \in Nat
        /\ Len(all) = Len(contents) + Len(part)
    BY <1>5
  <2> QED
    <3>1. /\ got = EndOf("length") + 1 + Len(contents) + Len(part)
          /\ Len(contents) + Len(part) < Goal(answer.length)
          /\ got = EndOf("length") + 1 + answer.body
      BY <1>1, <2>1
    <3> QED
      BY <2>1, <2>2, <3>1, SMTT(30)
<1>8. /\ all = SubSeq(Body(answer), 1, Len(all))
      /\ Len(all) = Min({answer.body, MaxDoc, answer.length} \ {-1})
  <2>1. answer \in Answers /\ all \in Seq(Unit) /\ Len(all) \in {answer.body, Goal(answer.length)}
        /\ Len(all) <= answer.body
    BY <1>1, <1>5, <1>7
  <2> QED
    BY <1>6, <1>7, <2>1, DocumentRead
<1>9. Undisturbed'
  BY <1>1, <1>3, <1>4, <1>8 DEF Undisturbed, Expected, Body, AllGiven, Given
<1> QED
  BY <1>1, <1>3, <1>9 DEF TrueInv, ReadSoFar

(* Every step. *)
LEMMA TrueStep == GapsInv /\ TrueInv /\ [TransportNext]_transportVars => TrueInv'
<1> SUFFICES ASSUME GapsInv, TrueInv, [TransportNext]_transportVars PROVE TrueInv'
  OBVIOUS
<1>1. CASE trouble' # {}
  BY <1>1 DEF TrueInv, Undisturbed
<1>2. ASSUME trouble' = {} PROVE trouble = {}
  <2>1. trouble \subseteq trouble'
    BY DEF TransportNext, Connected, Refused, TryAgain, Arrive, Close, Tick, ReadHeader,
           HeaderEnds, HeaderStops, ReadBody, BodyEnds, BodyStops, BodyInterrupted,
           transportVars
  <2> QED
    BY <1>2, <2>1
<1> SUFFICES ASSUME trouble' = {}, trouble = {} PROVE TrueInv'
  BY <1>1, <1>2
<1>3. /\ answer \in Answers /\ sent \in Nat /\ got \in 0..sent /\ sent <= Len(Stream(answer))
      /\ pc \in {"connect", "header", "body", "done"}
      /\ Len(Stream(answer)) \in Nat
  <2>1. answer \in Answers
    BY DEF GapsInv
  <2> QED
    BY <2>1, StreamShape, LenProperties DEF GapsInv
<1>4. CASE Connected
  <2>1. /\ pc = "connect" /\ pc' = "header" /\ UNCHANGED <<answer, sent, closed, got, line, part, header, contents>>
    BY <1>4 DEF Connected, serverVars
  <2>2. /\ got <= EndOf("length") /\ LineAt(got, line) /\ HeaderAt(got, header)
        /\ part = <<>> /\ contents = <<>>
    BY <2>1 DEF TrueInv, ReadSoFar
  <2>3. ReadSoFar'
    BY <2>1, <2>2, SameAnswer
  <2> QED
    BY <2>1, <2>3 DEF TrueInv, Undisturbed
<1>5. CASE UNCHANGED <<answer, got, pc, line, part, header, contents, result>>
           /\ (closed' /\ trouble' = {} => sent' = Len(Stream(answer)))
  <2>1. ReadSoFar' = ReadSoFar
    BY <1>5 DEF ReadSoFar, LineAt, HeaderAt, Reached, Given, AllGiven, BodyFrom, EndOf, Begins,
                Width, Expected, Goal
  <2> QED
    BY <1>5, <2>1 DEF TrueInv, Undisturbed, Expected, Body, Given
<1>6. CASE ReadHeader
  <2>1. /\ pc = "header" /\ Pending /\ got' = got + 1 /\ UNCHANGED <<serverVars, trouble>>
        /\ got <= EndOf("length") /\ LineAt(got, line) /\ HeaderAt(got, header)
        /\ part = <<>> /\ contents = <<>>
    BY <1>6 DEF ReadHeader, TrueInv, ReadSoFar
  <2>2. CASE Stream(answer)[got + 1] = NL
    <3>1. EndLine
      BY <1>6, <2>2 DEF ReadHeader
    <3> QED
      BY <2>1, <2>2, <3>1, HeaderRead
  <2>3. CASE Stream(answer)[got + 1] # NL
    <3>1. line' = Append(line, Stream(answer)[got + 1])
          /\ UNCHANGED <<pc, part, header, contents, result>>
      BY <1>6, <2>3 DEF ReadHeader
    <3>2. got < EndOf("length")
      <4>1. EndOf("length") \in Nat
        BY <1>3, OffsetTypes DEF Fields
      <4> QED
        BY <1>3, <2>1, <2>3, <4>1, StreamShape
    <3>3. PICK f \in Fields \cap answer.fields : got \in Begins(f)..(Begins(f) + 2)
      BY <1>3, <3>2, InSomeLine
    <3>4. got \in Begins(f)..(Begins(f) + 1)
      <4>1. Begins(f) \in Nat
        BY <1>3, OffsetTypes
      <4>2. got # Begins(f) + 2
        BY <1>3, <2>1, <2>3, LineEnds
      <4> QED
        BY <1>3, <3>3, <4>1, <4>2
    <3>5. /\ LineAt(got + 1, Append(line, Stream(answer)[got + 1])) /\ HeaderAt(got + 1, header)
          /\ got + 1 < EndOf("length")
      BY <1>3, <2>1, <3>4, WithinLine
    <3>6. got + 1 <= EndOf("length") /\ answer' = answer
      BY <1>3, <2>1, <3>5, OffsetTypes DEF Fields, serverVars
    <3>7. ReadSoFar'
      BY <2>1, <3>1, <3>5, <3>6, SameAnswer
    <3> QED
      BY <2>1, <3>1, <3>7 DEF TrueInv, Undisturbed, serverVars
  <2> QED
    BY <2>2, <2>3
<1>7. ~HeaderEnds
  <2> SUFFICES ASSUME HeaderEnds PROVE FALSE
    OBVIOUS
  <2>1. /\ got = sent /\ sent = Len(Stream(answer)) /\ got <= EndOf("length")
    BY <1>3 DEF HeaderEnds, Exhausted, Pending, TrueInv, ReadSoFar
  <2>2. EndOf("length") \in Nat /\ answer.body \in Nat
    BY <1>3, OffsetTypes, AnswersAssumption DEF Fields
  <2> QED
    BY <1>3, <2>1, <2>2, StreamShape
<1>8. CASE Arrive
  BY <1>3, <1>5, <1>8 DEF Arrive, progVars
<1>9. CASE Close
  <2>1. closed' /\ trouble' = {} => sent' = Len(Stream(answer))
    BY <1>3, <1>9 DEF Close
  <2> QED
    BY <1>5, <1>9, <2>1 DEF Close, progVars
<1>10. CASE Tick \/ UNCHANGED transportVars
  BY <1>5, <1>10 DEF Tick, serverVars, transportVars, TrueInv
<1>11. CASE ReadBody
  BY <1>11, BodyRead
<1>12. CASE BodyEnds
  BY <1>12, BodyOver
<1>13. ~(Refused \/ (\E why \in {"signal", "again"} : TryAgain(why)) \/ HeaderStops("timeout")
           \/ HeaderStops("signal") \/ BodyStops \/ BodyInterrupted)
  BY DEF Refused, TryAgain, HeaderStops, BodyStops, BodyInterrupted
<1> QED
  BY <1>4, <1>6, <1>7, <1>8, <1>9, <1>10, <1>11, <1>12, <1>13 DEF TransportNext

(* Before anything is read. *)
LEMMA InitTrue == TransportInit => TrueInv
<1> SUFFICES ASSUME TransportInit PROVE TrueInv
  OBVIOUS
<1>1. /\ answer \in Answers /\ pc = "connect" /\ got = 0 /\ line = <<>> /\ header = NoHeader
      /\ part = <<>> /\ contents = <<>> /\ closed = FALSE
  BY DEF TransportInit
<1>2. /\ \A f \in Fields : EndOf(f) \in Nat /\ Begins(f) \in Nat
      /\ EndOf("status") = 3 /\ Begins("length") = EndOf("type")
      /\ EndOf("status") <= EndOf("length")
      /\ \A f \in Fields \cap answer.fields : EndOf(f) = Begins(f) + 3
  BY <1>1, OffsetTypes DEF Fields
<1>3. LineAt(0, line)
  BY <1>1, <1>2 DEF LineAt
<1>4. \A f \in Fields : EndOf(f) >= 3
  <2>1. \A f \in Fields : Width(f) \in {0, 3}
    BY DEF Width
  <2> QED
    BY <1>2, <2>1 DEF EndOf, Fields
<1>5. HeaderAt(0, header)
  BY <1>1, <1>2, <1>4 DEF HeaderAt, Reached, NoHeader, Fields
<1>6. ReadSoFar
  BY <1>1, <1>2, <1>3, <1>5 DEF ReadSoFar, Fields
<1> QED
  BY <1>1, <1>6 DEF TrueInv, Undisturbed

(* However an answer arrives: when nothing goes wrong the retriever learns *)
(* its status, date, target, type and document, up to max_doc_size; and    *)
(* when something does, it takes no page for retrieved, unchanged or       *)
(* protected that the server did not call so, and for moved only one whose *)
(* code begins like that of a redirect. *)
THEOREM ToldAsItIs == TransportSpec => []TrueToServer
<1>1. TransportInit => GapsInv
  BY InitGaps
<1>2. GapsInv /\ [TransportNext]_transportVars => GapsInv'
  BY GapsStep
<1>3. TrueInv => Undisturbed
  BY DEF TrueInv
<1>4. Undisturbed /\ OnlyAsTold => TrueToServer
  BY DEF TrueToServer
<1> QED
  BY <1>1, <1>2, <1>3, <1>4, InitTrue, TrueStep, NothingInvented, PTL DEF TransportSpec

=============================================================================
