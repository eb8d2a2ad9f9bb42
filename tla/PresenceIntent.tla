--------------------------- MODULE PresenceIntent ---------------------------
(***************************************************************************)
(* What the presence service promises about the sequenced browser tabs:    *)
(* whether a tab counts as online depends on nothing but the newest        *)
(* message of that tab the service has taken, and on the age of that       *)
(* message.  A heartbeat makes the tab online for LeaseTTL; a departure    *)
(* makes it offline; a message older than the newest one changes nothing.  *)
(***************************************************************************)
EXTENDS Integers

CONSTANTS Tabs,      \* the browser tabs that number their messages
          Numbers,   \* the numbers they use
          LeaseTTL   \* how long a heartbeat keeps a tab online

VARIABLES now,       \* the time
          newest,    \* newest message taken of every tab: [seq, op, at]
          online     \* is the tab shown online

vars == <<now, newest, online>>

Ops == {"online", "offline"}

\* Does the message m still make its tab online at time n.
Holds(m, n) == m.op = "online" /\ n < m.at + LeaseTTL

Init == /\ now = 0
        /\ newest = [t \in Tabs |-> [seq |-> 0, op |-> "offline", at |-> 0]]
        /\ online = [t \in Tabs |-> FALSE]

\* Time passes and the leases nobody refreshed run out.
Pass == /\ now' = now + 1
        /\ online' = [t \in Tabs |-> Holds(newest[t], now')]
        /\ UNCHANGED newest

\* A message numbered above every message of its tab taken so far.
Take(t) == \E n \in Numbers, op \in Ops :
             /\ n > newest[t].seq
             /\ newest' = [newest EXCEPT ![t] = [seq |-> n, op |-> op, at |-> now]]
             /\ online' = [online EXCEPT ![t] = (op = "online")]
             /\ UNCHANGED now

Next == Pass \/ \E t \in Tabs : Take(t)

Spec == Init /\ [][Next]_vars
=============================================================================
