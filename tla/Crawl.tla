------------------------------- MODULE Crawl -------------------------------
(***************************************************************************)
(* What a dig promises, whatever the number of servers, the order of the   *)
(* retrievals and the interruptions: a URL waits until it is retrieved or  *)
(* refused, nothing that was retrieved waits again, and a new dig does not *)
(* begin before the last one has nothing waiting.  Stopping htdig by a     *)
(* signal and starting it again are not steps of this specification; only  *)
(* a process that is killed may forget what waits.                         *)
(***************************************************************************)
EXTENDS Naturals

CONSTANT URLs

VARIABLES
    waiting,  \* found and still to be retrieved
    done,     \* retrieved in this dig
    refused,  \* refused by its server in this dig
    kills     \* how many processes were killed so far

crawlVars == <<waiting, done, refused, kills>>

CrawlTypeOK ==
    /\ waiting \in SUBSET URLs
    /\ done \in SUBSET URLs
    /\ refused \in SUBSET URLs
    /\ kills \in Nat

CrawlInit ==
    /\ waiting = {}
    /\ done = {}
    /\ refused = {}
    /\ kills = 0

BeginDig ==
    /\ waiting = {}
    /\ done' = {}
    /\ refused' = {}
    /\ UNCHANGED <<waiting, kills>>

Find(u) ==
    /\ u \notin waiting \cup done
    /\ waiting' = waiting \cup {u}
    /\ UNCHANGED <<done, refused, kills>>

(* Refused when it was found, or when it was read from the log. *)
Refuse(u) ==
    /\ u \notin done
    /\ refused' = refused \cup {u}
    /\ waiting' = waiting \ {u}
    /\ UNCHANGED <<done, kills>>

(* A retrieval may answer with a redirect: one more URL is found. *)
Visit(u) ==
    /\ u \in waiting
    /\ done' = done \cup {u}
    /\ \/ waiting' = waiting \ {u} /\ UNCHANGED refused
       \/ \E v \in URLs \ (waiting \cup done) :
             \/ waiting' = (waiting \ {u}) \cup {v} /\ UNCHANGED refused
             \/ waiting' = waiting \ {u} /\ refused' = refused \cup {v}
    /\ UNCHANGED kills

(* The log, if it was being read back, still names what was refused on the *)
(* way; otherwise it is gone, and with it what waited. *)
Kill ==
    /\ kills' = kills + 1
    /\ waiting' \in SUBSET (waiting \cup refused)
    /\ UNCHANGED <<done, refused>>

CrawlNext == BeginDig \/ Kill \/ \E u \in URLs : Find(u) \/ Refuse(u) \/ Visit(u)

CrawlSpec == CrawlInit /\ [][CrawlNext]_crawlVars

=============================================================================
