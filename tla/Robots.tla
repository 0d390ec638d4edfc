------------------------------- MODULE Robots -------------------------------
(***************************************************************************)
(* The constructor of Server asks for robots.txt; robotstxt goes through   *)
(* its lines and collects the paths that are disallowed for this robot.    *)
(***************************************************************************)
EXTENDS Naturals, Sequences, FiniteSets, SequencesExt

CONSTANTS
    Paths,      \* what a Disallow line may name
    Files       \* robots.txt, without comments, spaces and empty lines

(* A line is User-agent with *, a name that begins with robotstxt_name, or *)
(* another one; Disallow with a path or none; or something else. *)
RobotsLine == [name : {"user-agent"}, rest : {"*", "me", "other"}]
        \cup [name : {"disallow"}, rest : Paths \cup {""}]
        \cup [name : {"else"}, rest : {""}]

ASSUME RobotsAssumption == "" \notin Paths /\ \A f \in Files : f \in Seq(RobotsLine)

VARIABLES
    file, read,     \* the file and the number of lines read
    answered,       \* the status of the request, or "no"
    payAttention, seenMyname,
    disallow,       \* the patterns collected
    badServer

robotsVars == <<file, read, answered, payAttention, seenMyname, disallow, badServer>>

NoRobots == {"not_found", "not_html", "redirect", "not_authorized"}
Unreachable == {"no_server", "no_host"}

RobotsInit ==
    /\ file \in Files /\ read = 0
    /\ answered = "no"
    /\ payAttention = FALSE /\ seenMyname = FALSE
    /\ disallow = <<>> /\ badServer = FALSE

RequestRobots(status) ==
    /\ answered = "no" /\ answered' = status
    /\ badServer' = (status \notin NoRobots \cup {"ok"})
    /\ UNCHANGED <<file, read, payAttention, seenMyname, disallow>>

Unread == answered = "ok" /\ read < Len(file)
This == file[read + 1]

(* Mutant: what was collected from sections for all robots stays. *)
KeepStars(own) ==
    /\ seenMyname' = (seenMyname \/ own)
    /\ payAttention' = IF own THEN ~seenMyname ELSE This.rest = "*" /\ ~seenMyname
    /\ UNCHANGED disallow

(* A section for this robot overrides those for all robots, before it and  *)
(* after it; only the first one counts. *)
NewSection(own) ==
    /\ seenMyname' = (seenMyname \/ own)
    /\ payAttention' = IF own THEN ~seenMyname ELSE This.rest = "*" /\ ~seenMyname
    /\ disallow' = IF own /\ ~seenMyname THEN <<>> ELSE disallow

ReadUserAgent ==
    /\ Unread /\ This.name = "user-agent"
    /\ read' = read + 1
    /\ NewSection(This.rest = "me")
    /\ UNCHANGED <<file, answered, badServer>>

ReadDisallow ==
    /\ Unread /\ This.name = "disallow"
    /\ read' = read + 1
    /\ disallow' = IF payAttention /\ This.rest # "" THEN Append(disallow, This.rest)
                   ELSE disallow
    /\ UNCHANGED <<file, answered, payAttention, seenMyname, badServer>>

ReadElse ==
    /\ Unread /\ This.name = "else"
    /\ read' = read + 1
    /\ UNCHANGED <<file, answered, payAttention, seenMyname, disallow, badServer>>

RobotsNext ==
    \/ \E status \in NoRobots \cup Unreachable \cup {"ok"} : RequestRobots(status)
    \/ ReadUserAgent \/ ReadDisallow \/ ReadElse

RobotsSpec == RobotsInit /\ [][RobotsNext]_robotsVars

-----------------------------------------------------------------------------
Agents(n, as) == {j \in 1..n : file[j].name = "user-agent" /\ file[j].rest \in as}

(* The User-agent line that a line stands under, 0 if there is none.  *)
Section(i) == Max({0} \cup Agents(i, {"*", "me", "other"}))

(* Wherever the sections stand, the paths disallowed are those of the      *)
(* first section for this robot ("This is for us!  This will override any  *)
(* previous patterns"), or of all sections for every robot if there is no  *)
(* such section; without a file nothing is disallowed, and only a server   *)
(* that cannot be reached is given up. *)
OwnSectionRules ==
    answered # "no" /\ ~Unread =>
        LET own == Agents(Len(file), {"me"})
            ours == IF own # {} THEN {Min(own)} ELSE Agents(Len(file), {"*"})
        IN /\ badServer <=> answered \in Unreachable
           /\ Range(disallow) =
                 IF answered # "ok" THEN {}
                 ELSE {file[i].rest : i \in {j \in 1..Len(file) :
                          file[j].name = "disallow" /\ Section(j) \in ours}} \ {""}

=============================================================================
