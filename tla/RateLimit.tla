------------------------------ MODULE RateLimit ------------------------------
(* The limiter of requests in memory (InMemoryRateLimitMiddleware): so many  *)
(* requests of an address in a calendar minute, and so many addresses that   *)
(* are counted.  Each request is counted under the lock of the table.        *)
EXTENDS Integers, FiniteSets, Functions

CONSTANTS
  Addresses,   \* client addresses
  PerMinute,   \* TAKT_RATE_LIMIT_PER_MIN
  MaxTracked,  \* TAKT_RATE_LIMIT_MAX_IPS
  MaxMinute, MaxCalls  \* bounds: minutes, and requests of an address in one

ASSUME RateLimitAssumption ==
  /\ {PerMinute, MaxTracked} \subseteq Nat \ {0} /\ {MaxMinute, MaxCalls} \subseteq Nat

VARIABLES
  minute,   \* the calendar minute
  buckets,  \* the table: function from addresses to [win, n, since], where
            \* since tells the order of insertion
  calls,    \* history: requests of each address in this minute, its
            \* [granted |-> , refused |-> , dropped |-> times its count was evicted]
  unfair    \* history: an address was refused before it had PerMinute requests

limitVars == <<minute, buckets, calls, unfair>>

InMinute(table, win) == {a \in DOMAIN table : table[a].win = win}
Younger(table, win, a) == {b \in InMinute(table, win) : table[a].since < table[b].since}

(* Counts of earlier minutes go first, then the keys inserted first.         *)
Prune(table, win) ==
  Restrict(table, {a \in InMinute(table, win) : Cardinality(Younger(table, win, a)) < MaxTracked})

NextPlace(table) ==
  LET last == CHOOSE a \in DOMAIN table : \A b \in DOMAIN table : table[b].since <= table[a].since
  IN IF DOMAIN table = {} THEN 0 ELSE table[last].since + 1

(* A key that is assigned again keeps its place in the table.                *)
Counted(table, ip, n) ==
  LET since == IF ip \in DOMAIN table THEN table[ip].since ELSE NextPlace(table)
  IN [a \in DOMAIN table \cup {ip} |-> IF a = ip THEN [win |-> minute, n |-> n, since |-> since] ELSE table[a]]

Dispatch(ip) ==
  LET count  == IF ip \in InMinute(buckets, minute) THEN buckets[ip].n ELSE 0
      refuse == count >= PerMinute
      grown  == IF refuse THEN buckets ELSE Counted(buckets, ip, count + 1)
      after  == Prune(grown, minute)
  IN /\ calls[ip].granted + calls[ip].refused < MaxCalls
     /\ buckets' = after
     /\ calls' = [a \in Addresses |->
          [granted |-> calls[a].granted + (IF a = ip /\ ~refuse THEN 1 ELSE 0),
           refused |-> calls[a].refused + (IF a = ip /\ refuse THEN 1 ELSE 0),
           dropped |-> calls[a].dropped + (IF a \in InMinute(grown, minute) \ DOMAIN after THEN 1 ELSE 0)]]
     /\ unfair' = (unfair \/ (refuse /\ calls[ip].granted < PerMinute))
     /\ UNCHANGED minute

Untouched == [a \in Addresses |-> [granted |-> 0, refused |-> 0, dropped |-> 0]]

NextMinute ==
  /\ minute < MaxMinute
  /\ minute' = minute + 1
  /\ calls' = Untouched
  /\ UNCHANGED <<buckets, unfair>>

LimitInit == minute = 0 /\ buckets = <<>> /\ calls = Untouched /\ unfair = FALSE
LimitNext == NextMinute \/ \E ip \in Addresses : Dispatch(ip)
LimitSpec == LimitInit /\ [][LimitNext]_limitVars

-----------------------------------------------------------------------------
Entry == [win : 0..minute, n : 1..PerMinute, since : Nat]

LimitTypeOK ==
  /\ minute \in 0..MaxMinute /\ unfair \in BOOLEAN
  /\ DOMAIN buckets \subseteq Addresses /\ buckets \in [DOMAIN buckets -> Entry]
  /\ calls \in [Addresses -> [granted : Nat, refused : Nat, dropped : Nat]]

(* Addresses that have been granted a request in this minute.                *)
Served == {a \in Addresses : calls[a].granted > 0}

(* The limit is the limit, in both directions: an address gets no more than  *)
(* PerMinute requests in a minute but for each time that its count had to    *)
(* give way to other addresses, and is refused none before it had as many;   *)
(* the table is never longer than its cap.  A count gives way only while     *)
(* more addresses than the cap ask in one minute.                            *)
LimitHolds ==
  /\ \A a \in Addresses : calls[a].granted <= PerMinute * (1 + calls[a].dropped)
  /\ ~unfair
  /\ Cardinality(DOMAIN buckets) <= MaxTracked
  /\ (\E a \in Addresses : calls[a].dropped > 0) => Cardinality(Served) > MaxTracked

(* No two addresses have one place in the table.                             *)
TableFits(table) ==
  /\ DOMAIN table \subseteq Addresses /\ IsFiniteSet(DOMAIN table) /\ table \in [DOMAIN table -> Entry]
  /\ \A a, b \in DOMAIN table : table[a].since = table[b].since => a = b

CountIn(table, a) == IF a \in InMinute(table, minute) THEN table[a].n ELSE 0

(* Inductive: what an address was granted is what the table has counted      *)
(* since its count last gave way, and PerMinute at most for each time before.*)
LimitInv ==
  /\ LimitTypeOK /\ TableFits(buckets) /\ LimitHolds /\ IsFiniteSet(Served)
  /\ \A a \in Addresses : /\ calls[a].granted <= PerMinute * calls[a].dropped + CountIn(buckets, a)
                          /\ CountIn(buckets, a) <= calls[a].granted
=============================================================================
