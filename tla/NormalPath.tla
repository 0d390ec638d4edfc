------------------------------ MODULE NormalPath ------------------------------
(***************************************************************************)
(* URL::normalizePath: the path of a URL is rewritten until nothing is     *)
(* left in it that leads back or nowhere, so that a document has one URL.  *)
(* It goes through the path for one thing after the other.  A path is a    *)
(* sequence of characters; the query string behind a `?' is left alone.    *)
(* "%7E" is taken for one character; the server is case sensitive.         *)
(***************************************************************************)
EXTENDS Integers, Sequences, FiniteSets, SequencesExt

VARIABLES
    path,       \* _path
    step        \* the part of normalizePath that comes next

pathVars == <<path, step>>

UP == <<"/", ".", ".", "/">>
END_UP == <<"/", ".", ".">>
STAY == <<"/", ".", "/">>
END_STAY == <<"/", ".">>
TWICE == <<"/", "/">>

(* The first place where s stands in p, or 0. *)
indexOf(p, s) ==
    LET at == {i \in 1..Len(p) : IsPrefix(s, SubSeq(p, i, Len(p)))}
    IN IF at = {} THEN 0 ELSE Min(at)

pathend(p) == IF indexOf(p, <<"?">>) = 0 THEN Len(p) + 1 ELSE indexOf(p, <<"?">>)

(* s stands in the path, before the query string.  *)
Has(s) == indexOf(path, s) \in 1..(pathend(path) - 1)

(* The first of them is at the end of the path. *)
EndsWith(s) == indexOf(path, s) # 0 /\ indexOf(path, s) = pathend(path) - Len(s)

(* The first n characters, and those from the n-th on. *)
Before(n) == SubSeq(path, 1, n)
After(n) == SubSeq(path, n, Len(path))

(* The slash before the i-th character, or 0. *)
SlashBefore(i) == SelectLastInSubSeq(path, 1, i - 1, LAMBDA c : c = "/")

GoTo(s) == step' = s

(* "/x/../" becomes "/". *)
RemoveUp ==
    /\ step = "up" /\ Has(UP)
    /\ LET i == indexOf(path, UP)
       IN path' = (IF SlashBefore(i) > 0 THEN Before(SlashBefore(i) - 1) ELSE <<>>) \o After(i + 3)
    /\ GoTo("up")

RemoveEndUp ==
    /\ step = "up" /\ ~Has(UP)
    /\ IF EndsWith(END_UP)
       THEN LET i == indexOf(path, END_UP)
            IN path' = (IF SlashBefore(i) > 0 THEN Before(SlashBefore(i)) ELSE <<"/">>) \o After(i + 3)
       ELSE UNCHANGED path
    /\ GoTo("stay")

RemoveStay ==
    /\ step = "stay" /\ Has(STAY)
    /\ LET i == indexOf(path, STAY) IN path' = Before(i - 1) \o After(i + 2)
    /\ GoTo("stay")

RemoveEndStay ==
    /\ step = "stay" /\ ~Has(STAY)
    /\ IF EndsWith(END_STAY)
       THEN LET i == indexOf(path, END_STAY) IN path' = Before(i) \o After(i + 2)
       ELSE UNCHANGED path
    /\ GoTo("twice")

RemoveTwice ==
    /\ step = "twice" /\ Has(TWICE)
    /\ LET i == indexOf(path, TWICE) IN path' = Before(i - 1) \o After(i + 1)
    /\ GoTo("twice")

(* "Finally change all "%7E" to "~" for sanity" *)
EndPath ==
    /\ step = "twice" /\ ~Has(TWICE)
    /\ path' = [i \in DOMAIN path |->
                   IF path[i] = "%7E" /\ i < pathend(path) THEN "~" ELSE path[i]]
    /\ GoTo("done")

PathNext == RemoveUp \/ RemoveEndUp \/ RemoveStay \/ RemoveEndStay \/ RemoveTwice \/ EndPath

-----------------------------------------------------------------------------
Query(p) == SubSeq(p, pathend(p), Len(p))
PathOnly(p) == SubSeq(p, 1, pathend(p) - 1)

(* The parts of a path, each behind a slash. *)
Segments(p) ==
    FoldLeft(LAMBDA parts, c : IF c = "/" THEN Append(parts, <<>>)
                               ELSE [parts EXCEPT ![Len(parts)] = Append(@, c)],
             <<>>, p)

HERE == <<".">>
PARENT == <<".", ".">>

(* The walk from the root: "." leads nowhere, ".." back. *)
Walk(p) ==
    FoldLeft(LAMBDA dirs, s :
                IF s = HERE THEN dirs
                ELSE IF s = PARENT THEN (IF dirs = <<>> THEN dirs ELSE SubSeq(dirs, 1, Len(dirs) - 1))
                ELSE Append(dirs, s),
             <<>>, Segments(p))

(* The path of where it leads, with a slash at the end if it is a          *)
(* directory; empty parts go away. *)
Minimal(p) ==
    LET dirs == SelectSeq(Walk(p), LAMBDA s : s # <<>>)
        open == Last(Segments(p)) \in {<<>>, HERE, PARENT}
    IN IF dirs = <<>> THEN <<"/">>
       ELSE FlattenSeq([k \in 1..Len(dirs) |-> <<"/">> \o dirs[k]])
                \o (IF open THEN <<"/">> ELSE <<>>)

Tilde(p) == [i \in DOMAIN p |-> IF p[i] = "%7E" THEN "~" ELSE p[i]]

(* A part that normalizePath misreads: "/./../" is taken for a step back   *)
(* from ".", and a last "/." or "/.." is missed behind a name that begins  *)
(* like it. *)
Misread(p) ==
    LET parts == Segments(p)
    IN \E j, k \in 1..Len(parts) :
          /\ j < k
          /\ \/ parts[j] = HERE /\ parts[k] = PARENT
             \/ /\ k = Len(parts) /\ parts[k] \in {HERE, PARENT}
                /\ parts[j] \notin {HERE, PARENT} /\ IsPrefix(parts[k], parts[j])

=============================================================================
