---------------------------- MODULE ServerDelay ----------------------------
(***************************************************************************)
(* Server::delay: htdig waits before it asks a server again.  Time is      *)
(* counted in the whole seconds that time(0) and sleep() know.             *)
(***************************************************************************)
EXTENDS Integers

CONSTANTS
    WaitTime,  \* server_wait_time
    MaxTime    \* bound: when the clock stops

ASSUME DelayAssumption == WaitTime \in Nat /\ MaxTime \in Nat

VARIABLES
    now,       \* the clock
    lastConn,  \* _last_connection
    wake,      \* when the sleep before the next connection ends
    state,     \* idle | sleeping
    signalled, \* noSignal = 0
    prev,      \* history: when the last connection began
    prev2      \* history: when the one before it began

delayVars == <<now, lastConn, wake, state, signalled, prev, prev2>>

DelayTypeOK ==
    /\ now \in Nat
    /\ lastConn \in Nat
    /\ wake \in Nat
    /\ state \in {"idle", "sleeping"}
    /\ signalled \in BOOLEAN
    /\ prev \in Int
    /\ prev2 \in Int

(* The constructor connects, for robots.txt. *)
DelayInit ==
    /\ now = 0
    /\ lastConn = 0
    /\ wake = 0
    /\ state = "idle"
    /\ signalled = FALSE
    /\ prev = 0
    /\ prev2 = -WaitTime

(* Time passes while a document is retrieved and parsed, while other       *)
(* servers are served, and in the sleep, which ends at wake. *)
Pass ==
    /\ now < MaxTime
    /\ state = "sleeping" => now < wake
    /\ now' = now + 1
    /\ UNCHANGED <<lastConn, wake, state, signalled, prev, prev2>>

(* sigexit; the loops of Retriever::Start look at noSignal.  A signal also *)
(* ends the sleep, if it has begun, and the document that it delayed is    *)
(* retrieved at once. *)
Interrupt ==
    /\ ~signalled
    /\ signalled' = TRUE
    /\ \/ wake' = wake
       \/ state = "sleeping" /\ wake' = now
    /\ UNCHANGED <<now, lastConn, state, prev, prev2>>

(* delay() reads the clock once, before it sleeps. *)
HowLong == WaitTime + lastConn - now

(* Mutant: the clock is not reset. *)
DelayOnly ==
    /\ state = "idle" /\ ~signalled
    /\ state' = "sleeping"
    /\ wake' = IF HowLong > 0 THEN now + HowLong ELSE now
    /\ UNCHANGED <<now, lastConn, signalled, prev, prev2>>

Delay ==
    /\ state = "idle" /\ ~signalled
    /\ lastConn' = now
    /\ state' = "sleeping"
    /\ wake' = IF HowLong > 0 THEN now + HowLong ELSE now
    /\ UNCHANGED <<now, signalled, prev, prev2>>

(* delay() returns and parse_url connects. *)
Retrieve ==
    /\ state = "sleeping" /\ now = wake
    /\ state' = "idle"
    /\ prev' = now
    /\ prev2' = prev
    /\ UNCHANGED <<now, lastConn, wake, signalled>>

DelayNext == Pass \/ Interrupt \/ Delay \/ Retrieve

DelaySpec == DelayInit /\ [][DelayNext]_delayVars

-----------------------------------------------------------------------------
(* delay() resets the clock before it sleeps, so the connection after a    *)
(* sleep may follow too soon; but of three connections in a row the last   *)
(* begins at least WaitTime after the first ("a delay (in seconds) from    *)
(* the beginning of the last connection", attrs.html, promises more), but  *)
(* for the one retrieval that a signal hurries.                            *)
EverySecondWaits ==
    [][Retrieve /\ ~signalled => now >= prev2 + WaitTime]_delayVars

(* Why: the clock was last reset no earlier than the connection before     *)
(* last began. *)
DelayInv ==
    /\ DelayTypeOK
    /\ state = "idle" => prev2 <= lastConn /\ lastConn <= prev /\ prev <= now
    /\ state = "sleeping" =>
          /\ prev <= lastConn /\ lastConn <= now /\ now <= wake
          /\ ~signalled => prev2 + WaitTime <= wake

=============================================================================
