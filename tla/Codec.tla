------------------------------- MODULE Codec -------------------------------
(***************************************************************************)
(* HtWordCodec, with which the keys of the document database are made of   *)
(* URLs: parts of URLs that the user names (url_part_aliases) or that are  *)
(* frequent (common_url_parts) are replaced by shorter codes, and what     *)
(* looks like a code is quoted.  A string is a sequence of characters.     *)
(***************************************************************************)
EXTENDS Naturals, Sequences, FiniteSets, SequencesExt

CONSTANTS
    QUOTE_CHAR,
    Internal,    \* the control characters that are codes of frequent parts
    Codes,       \* url_part_aliases and common_url_parts: [aliases, commons]
    Strings      \* what may have to be encoded

ASSUME CodecAssumption == \A i \in 1..Len(Internal) : Internal[i] # QUOTE_CHAR

VARIABLES
    codes,       \* the configuration
    lists,       \* the lists of the codec made of it
    url

codecVars == <<codes, lists, url>>

Within(p, s) == \E i \in 1..Len(s) : IsPrefix(p, SubSeq(s, i, Len(s)))

(* FindFirst of StringMatch: the first place where one of the patterns     *)
(* stands, and the longest there; but the search gives up at a place from  *)
(* which the text runs into its end within a pattern. *)
FindFirst(patterns, s) ==
    LET rest(i) == SubSeq(s, i, Len(s))
        hits == {i \in 1..Len(s) : \E p \in Range(patterns) : IsPrefix(p, rest(i))}
        ends == {i \in 1..Len(s) : \E p \in Range(patterns) : IsStrictPrefix(rest(i), p)}
        first == Min(hits)
        which == CHOOSE n \in 1..Len(patterns) :
                    /\ IsPrefix(patterns[n], rest(first))
                    /\ \A m \in 1..Len(patterns) :
                          IsPrefix(patterns[m], rest(first)) =>
                              Len(patterns[m]) <= Len(patterns[n])
    IN IF hits = {} \/ (\E i \in ends : i < first)
       THEN [found |-> FALSE]
       ELSE [found |-> TRUE, at |-> first, which |-> which, length |-> Len(patterns[which])]

(* code: what stands between the matches is copied.  *)
Code(s, match, replacements) ==
    LET rest(i) == SubSeq(s, i, Len(s))
        code[i \in 1..Len(s) + 1] ==
            LET m == FindFirst(match, rest(i))
            IN IF ~m.found THEN rest(i)
               ELSE SubSeq(s, i, i + m.at - 2) \o replacements[m.which]
                        \o code[i + m.at - 1 + m.length]
    IN IF match = <<>> THEN s ELSE code[1]

-----------------------------------------------------------------------------
(* The constructor.  Aliases are pairs of strings. *)
Froms(aliases) == [i \in 1..Len(aliases) |-> aliases[i].from]
Tos(aliases) == [i \in 1..Len(aliases) |-> aliases[i].to]

(* A code is part of another one. *)
Collides(aliases) ==
    \E i, j \in 1..Len(aliases) :
        i # j /\ Len(aliases[i].to) <= Len(aliases[j].to)
              /\ Within(aliases[i].to, aliases[j].to)

(* A code is part of a string that is to be encoded. *)
Overlaps(aliases) ==
    \E i \in 1..Len(aliases) : FindFirst(Tos(aliases), aliases[i].from).found

Accepted(aliases) == ~Collides(aliases) /\ ~Overlaps(aliases)

(* The frequent parts that have nothing to do with the aliases.  Those     *)
(* left out use up a code, too. *)
Usable(aliases, commons) ==
    SelectSeq([i \in 1..Len(commons) |-> [from |-> commons[i], to |-> <<Internal[i]>>]],
              LAMBDA c : \/ aliases = <<>>
                         \/ ~FindFirst(Froms(aliases), c.from).found
                               /\ ~FindFirst(Tos(aliases), c.from).found)

(* Mutant: codes are not quoted. *)
ListsUnquoted(aliases, commons) ==
    LET pairs == aliases \o Usable(aliases, commons)
    IN [from |-> Froms(pairs), to |-> Tos(pairs)]

(* myFrom and myTo: every code is itself encoded by quoting it.  *)
Lists(aliases, commons) ==
    LET pairs == aliases \o Usable(aliases, commons)
        quoted == [i \in 1..Len(pairs) |-> <<QUOTE_CHAR>> \o pairs[i].to]
    IN [from |-> Froms(pairs) \o Tos(pairs), to |-> Tos(pairs) \o quoted]

encode(s) == Code(s, lists.from, lists.to)
decode(s) == Code(s, lists.to, lists.from)

CodecInit ==
    /\ codes \in Codes /\ Accepted(codes.aliases)
    /\ lists = Lists(codes.aliases, codes.commons)
    /\ url \in Strings

-----------------------------------------------------------------------------
(* No code begins as another one, or itself, ends.  *)
CodesApart(aliases) ==
    \A i, j \in 1..Len(aliases) :
        LET s == aliases[i].to
            t == aliases[j].to
        IN \A k \in 1..Len(s) - 1 :
               k < Len(t) => SubSeq(s, Len(s) - k + 1, Len(s)) # SubSeq(t, 1, k)

(* What was encoded is decoded to what it was.  Codes that may be misread  *)
(* together with what stands before them are not refused ("there will be   *)
(* no ambiguity", HtWordCodec.cc). *)
DecodesBack ==
    CodesApart(codes.aliases) => decode(encode(url)) = url

NoAmbiguity == decode(encode(url)) = url

=============================================================================
