------------------------------- MODULE DocMap -------------------------------
(***************************************************************************)
(* What the document database promises: a map from URLs to documents.      *)
(***************************************************************************)
CONSTANTS Locations, Documents, NoDocument

VARIABLE contents

MapInit ==
    /\ DOMAIN contents = Locations
    /\ \A u \in Locations : contents[u] \in Documents \/ contents[u] = NoDocument

OnlyAt(u) == contents' = [contents EXCEPT ![u] = contents'[u]]

(* Any document may be put in the place of the one that is there. *)
Put(u) == OnlyAt(u) /\ contents'[u] \in Documents

Drop(u) == OnlyAt(u) /\ contents'[u] = NoDocument

MapNext == \E u \in Locations : Put(u) \/ Drop(u)

MapSpec == MapInit /\ [][MapNext]_contents

=============================================================================
