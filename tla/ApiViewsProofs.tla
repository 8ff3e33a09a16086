--------------------------- MODULE ApiViewsProofs ---------------------------
(* Theorems about the parts of the API that select, order and add up what is *)
(* there: the limit on requests (RateLimit), the bundle of a case and its    *)
(* verifier (ForensicBundle), the stream of assessments (RiskStream), the    *)
(* list and dump of cases (CaseQueue), the search behind an assembled        *)
(* incident and its card (IncidentCard).  Each part with a state has an      *)
(* inductive invariant of its own, in its module.                            *)
EXTENDS RateLimit, ForensicBundle, RiskStream, CaseQueue, IncidentCard, Counting, SequenceTheorems

(* ---- the limiter --------------------------------------------------------- *)
(* A new key is younger than all that are in the table.                      *)
LEMMA NewIsYoungest ==
  ASSUME NEW entries, TableFits(entries)
  PROVE  /\ NextPlace(entries) \in Nat
         /\ \A a \in DOMAIN entries : entries[a].since < NextPlace(entries)
  <1> DEFINE f == [a \in DOMAIN entries |-> entries[a].since]
             T == {f[x] : x \in DOMAIN f}
             P(a) == \A b \in DOMAIN entries : entries[b].since <= entries[a].since
             last == CHOOSE a \in DOMAIN entries : P(a)
  <1>1. CASE DOMAIN entries = {} BY <1>1 DEF NextPlace
  <1>2. CASE DOMAIN entries # {}
    <2>1. \A a \in DOMAIN entries : entries[a].since \in Nat BY DEF TableFits, Entry
    <2>2. IsFiniteSet(DOMAIN f) BY DEF TableFits
    <2>3. IsFiniteSet(T)
      <3> HIDE DEF f
      <3> QED BY <2>2, RangeIsFinite
    <2>4. T \subseteq Int /\ T # {} BY <2>1, <1>2
    <2>5. \E m \in T : \A k \in T : k <= m
      <3> HIDE DEF T
      <3> QED BY <2>3, <2>4, HasLargest
    <2>6. \E a \in DOMAIN entries : P(a) BY <2>5
    <2>7. last \in DOMAIN entries /\ P(last) BY <2>6
    <2>8. NextPlace(entries) = entries[last].since + 1 BY <1>2 DEF NextPlace
    <2> QED BY <2>1, <2>7, <2>8
  <1> QED BY <1>1, <1>2

LEMMA CountedFits ==
  ASSUME minute \in Nat, NEW entries, TableFits(entries), NEW ip \in Addresses, NEW n \in 1..PerMinute
  PROVE  /\ TableFits(Counted(entries, ip, n))
         /\ DOMAIN Counted(entries, ip, n) = DOMAIN entries \cup {ip}
         /\ Counted(entries, ip, n)[ip].win = minute /\ Counted(entries, ip, n)[ip].n = n
         /\ \A a \in DOMAIN entries \ {ip} : Counted(entries, ip, n)[a] = entries[a]
  <1> DEFINE new == Counted(entries, ip, n)
             since == IF ip \in DOMAIN entries THEN entries[ip].since ELSE NextPlace(entries)
  <1>1. since \in Nat BY NewIsYoungest DEF TableFits, Entry
  <1>2. new = [a \in DOMAIN entries \cup {ip} |->
                 IF a = ip THEN [win |-> minute, n |-> n, since |-> since] ELSE entries[a]]
    BY DEF Counted
  <1> HIDE DEF since
  <1>3. DOMAIN new = DOMAIN entries \cup {ip} BY <1>2
  <1>4. IsFiniteSet(DOMAIN new) /\ DOMAIN new \subseteq Addresses
    BY <1>3, FS_AddElement DEF TableFits
  <1>5. new[ip] = [win |-> minute, n |-> n, since |-> since] BY <1>2
  <1>6. \A a \in DOMAIN entries \ {ip} : new[a] = entries[a] BY <1>2
  <1>7. new \in [DOMAIN new -> Entry]
    <2>1. [win |-> minute, n |-> n, since |-> since] \in Entry BY <1>1 DEF Entry
    <2>2. \A a \in DOMAIN entries : entries[a] \in Entry BY DEF TableFits
    <2>3. \A a \in DOMAIN entries \cup {ip} : new[a] \in Entry BY <2>1, <2>2, <1>2
    <2>4. new = [a \in DOMAIN new |-> new[a]] BY <1>2
    <2> QED BY <2>3, <2>4, <1>3
  <1>8. \A a \in DOMAIN entries \ {ip} : entries[a].since # since
    BY NewIsYoungest DEF since, TableFits, Entry
  <1>9. \A a, b \in DOMAIN new : new[a].since = new[b].since => a = b
    BY <1>3, <1>5, <1>6, <1>8 DEF TableFits
  <1> HIDE DEF new
  <1> QED BY <1>3, <1>4, <1>5, <1>6, <1>7, <1>9 DEF TableFits, new

(* What is left of a table is within the cap, as it was, and of this minute; *)
(* what was dropped of this minute has the cap's number of younger keys.     *)
LEMMA PruneFits ==
  ASSUME NEW entries, TableFits(entries), NEW win
  PROVE  /\ TableFits(Prune(entries, win))
         /\ Cardinality(DOMAIN Prune(entries, win)) <= MaxTracked
         /\ DOMAIN Prune(entries, win) \subseteq InMinute(entries, win)
         /\ \A a \in DOMAIN Prune(entries, win) : Prune(entries, win)[a] = entries[a]
         /\ \A a \in InMinute(entries, win) \ DOMAIN Prune(entries, win) :
              /\ IsFiniteSet(Younger(entries, win, a))
              /\ MaxTracked <= Cardinality(Younger(entries, win, a))
  <1> DEFINE S == InMinute(entries, win)
             R == {p \in S \X S : entries[p[2]].since < entries[p[1]].since}
             kept == {a \in S : Cardinality(Younger(entries, win, a)) < MaxTracked}
             new == Prune(entries, win)
             n == Cardinality(S)
             b == IF MaxTracked <= n THEN MaxTracked ELSE n
  <1>1. S \subseteq DOMAIN entries BY DEF InMinute
  <1>2. IsFiniteSet(S) BY <1>1, FS_Subset DEF TableFits
  <1>3. \A a \in S : entries[a].since \in Nat BY <1>1 DEF TableFits, Entry
  <1>4. n \in Nat BY <1>2, FS_CardinalityType
  <1>5. \A x, y \in S : <<x, y>> \in R <=> entries[y].since < entries[x].since OBVIOUS
  <1>6. StrictlyOrders(R, S)
    <2> HIDE DEF R, S
    <2>1. \A x \in S : <<x, x>> \notin R BY <1>3, <1>5
    <2>2. \A x, y \in S : x # y => <<x, y>> \in R \/ <<y, x>> \in R
      BY <1>1, <1>3, <1>5 DEF TableFits
    <2>3. \A x, y, z \in S : <<x, y>> \in R /\ <<y, z>> \in R => <<x, z>> \in R BY <1>3, <1>5
    <2> QED BY <2>1, <2>2, <2>3 DEF StrictlyOrders
  <1>7. \A x \in S : Ahead(R, S, x) = Younger(entries, win, x)
    BY <1>5 DEF Ahead, Younger
  <1>8. \A x \in S : PlaceOf(R, S)[x] = Cardinality(Younger(entries, win, x))
    BY <1>7 DEF PlaceOf
  <1>9. \A x \in S : PlaceOf(R, S)[x] \in 0..(n - 1)
    BY <1>2, <1>6, PlacesAreTaken
  <1>10. MaxTracked \in Nat BY RateLimitAssumption
  <1>11. b \in Nat /\ b <= n /\ b <= MaxTracked BY <1>4, <1>10
  <1>12. kept = {x \in S : 0 <= PlaceOf(R, S)[x] /\ PlaceOf(R, S)[x] < b}
    <2> HIDE DEF R, S
    <2>1. ASSUME NEW x \in S
          PROVE  Cardinality(Younger(entries, win, x)) < MaxTracked
                   <=> 0 <= PlaceOf(R, S)[x] /\ PlaceOf(R, S)[x] < b
      BY <1>8, <1>9, <1>4, <1>10
    <2> QED BY <2>1
  <1>13. IsFiniteSet(kept) /\ Cardinality(kept) = b
    <2>1. 0 \in Nat /\ 0 <= b /\ b - 0 = b BY <1>11
    <2> HIDE DEF R, S, kept, b
    <2> QED BY <1>2, <1>6, <1>11, <1>12, <2>1, PageHolds
  <1>14. new = [a \in kept |-> entries[a]] BY DEF Prune, Restrict
  <1>15. DOMAIN new = kept BY <1>14
  <1>16. TableFits(new)
    <2>1. kept \subseteq DOMAIN entries BY <1>1
    <2> HIDE DEF kept, new
    <2> QED BY <2>1, <1>13, <1>14, <1>15 DEF TableFits
  <1>17. ASSUME NEW a \in S \ kept
         PROVE  /\ IsFiniteSet(Younger(entries, win, a))
                /\ MaxTracked <= Cardinality(Younger(entries, win, a))
    <2>1. IsFiniteSet(Younger(entries, win, a)) BY <1>2, FS_Subset DEF Younger
    <2>2. Cardinality(Younger(entries, win, a)) \in Nat BY <2>1, FS_CardinalityType
    <2> QED BY <2>1, <2>2, <1>10
  <1> HIDE DEF new
  <1> QED BY <1>11, <1>13, <1>14, <1>15, <1>16, <1>17 DEF new

LEMMA LimitStarts == LimitInit => LimitInv
  <1> SUFFICES ASSUME LimitInit PROVE LimitInv
    OBVIOUS
  <1>1. DOMAIN buckets = {} BY DEF LimitInit
  <1>2. \A a \in Addresses : calls[a] = [granted |-> 0, refused |-> 0, dropped |-> 0]
    BY DEF LimitInit, Untouched
  <1>3. Served = {} BY <1>2 DEF Served
  <1>4. IsFiniteSet({}) /\ Cardinality({}) = 0 BY FS_EmptySet
  <1>5. LimitTypeOK
    <2>1. buckets \in [DOMAIN buckets -> Entry]
      <3>1. buckets = [a \in {} |-> 0] BY DEF LimitInit
      <3> QED BY <3>1
    <2>2. calls \in [Addresses -> [granted : Nat, refused : Nat, dropped : Nat]]
      BY DEF LimitInit, Untouched
    <2>3. minute \in 0..MaxMinute BY RateLimitAssumption DEF LimitInit
    <2>4. unfair \in BOOLEAN BY DEF LimitInit
    <2> QED BY <1>1, <2>1, <2>2, <2>3, <2>4 DEF LimitTypeOK
  <1>6. TableFits(buckets) BY <1>1, <1>4, <1>5 DEF TableFits, LimitTypeOK
  <1>7. MaxTracked \in Nat \ {0} /\ PerMinute \in Nat \ {0} BY RateLimitAssumption
  <1>8. LimitHolds BY <1>1, <1>2, <1>4, <1>7 DEF LimitHolds, LimitInit
  <1>9. \A a \in Addresses : CountIn(buckets, a) = 0 BY <1>1 DEF CountIn, InMinute
  <1> QED BY <1>2, <1>3, <1>4, <1>5, <1>6, <1>7, <1>8, <1>9 DEF LimitInv

LEMMA MinuteKeeps == LimitInv /\ NextMinute => LimitInv'
  <1> SUFFICES ASSUME LimitInv, NextMinute PROVE LimitInv'
    OBVIOUS
  <1> USE DEF LimitInv, NextMinute
  <1>1. \A a \in Addresses : calls'[a] = [granted |-> 0, refused |-> 0, dropped |-> 0]
    BY DEF Untouched
  <1>2. Served' = {} BY <1>1 DEF Served
  <1>3. IsFiniteSet({}) /\ Cardinality({}) = 0 BY FS_EmptySet
  <1>4. minute \in Nat /\ minute' \in 0..MaxMinute /\ minute' = minute + 1
    BY RateLimitAssumption DEF LimitTypeOK
  <1>5. Entry \subseteq Entry' BY <1>4 DEF Entry
  <1>6. TableFits(buckets)' /\ buckets' \in [DOMAIN buckets' -> Entry'] BY <1>5 DEF TableFits
  <1>7. LimitTypeOK' BY <1>4, <1>6 DEF LimitTypeOK, Untouched
  <1>8. MaxTracked \in Nat \ {0} /\ PerMinute \in Nat \ {0} BY RateLimitAssumption
  <1>9. LimitHolds' BY <1>1, <1>8 DEF LimitHolds
  <1>10. \A a \in DOMAIN buckets : buckets[a].win # minute'
    BY <1>4 DEF LimitTypeOK, Entry
  <1>11. \A a \in Addresses : CountIn(buckets, a)' = 0
    BY <1>10 DEF CountIn, InMinute
  <1> QED BY <1>1, <1>2, <1>3, <1>6, <1>7, <1>8, <1>9, <1>11

(* A count that is within the bound stays so, or is bounded by one cap more. *)
LEMMA BoundStays ==
  ASSUME NEW p \in Nat, NEW d \in Nat, NEW m \in Nat, NEW c \in Nat, NEW e, NEW x,
         m <= p * d + c, c <= m, c <= p, (e = d + 1 /\ x = 0) \/ (e = d /\ x = c)
  PROVE  m <= p * e + x /\ x <= m /\ m <= p * (1 + e)
  <1>1. p * d \in Nat OBVIOUS
  <1>2. p * (d + 1) = p * d + p /\ p * (1 + d) = p * d + p /\ p * (1 + (d + 1)) = p * d + p + p
    OBVIOUS
  <1>3. CASE e = d + 1 /\ x = 0
    <2>1. p * e = p * d + p /\ p * (1 + e) = p * d + p + p BY <1>2, <1>3
    <2> QED BY <1>1, <1>3, <2>1
  <1>4. CASE e = d /\ x = c
    <2>1. p * e = p * d /\ p * (1 + e) = p * d + p BY <1>2, <1>4
    <2> QED BY <1>1, <1>4, <2>1
  <1> QED BY <1>3, <1>4

LEMMA DispatchKeeps ==
  ASSUME LimitInv, NEW ip \in Addresses, Dispatch(ip)
  PROVE  LimitInv'
  <1> DEFINE count  == IF ip \in InMinute(buckets, minute) THEN buckets[ip].n ELSE 0
             refuse == count >= PerMinute
             grown  == IF refuse THEN buckets ELSE Counted(buckets, ip, count + 1)
             gone   == InMinute(grown, minute) \ DOMAIN buckets'
             made(a) == calls[a].granted + (IF a = ip /\ ~refuse THEN 1 ELSE 0)
  <1> USE DEF LimitInv
  <1>1. /\ buckets' = Prune(grown, minute)
        /\ calls' = [a \in Addresses |->
             [granted |-> calls[a].granted + (IF a = ip /\ ~refuse THEN 1 ELSE 0),
              refused |-> calls[a].refused + (IF a = ip /\ refuse THEN 1 ELSE 0),
              dropped |-> calls[a].dropped + (IF a \in gone THEN 1 ELSE 0)]]
        /\ unfair' = (unfair \/ (refuse /\ calls[ip].granted < PerMinute))
        /\ minute' = minute
    BY DEF Dispatch
  <1>2. /\ PerMinute \in Nat \ {0} /\ MaxTracked \in Nat \ {0} /\ minute \in Nat
        /\ \A a \in Addresses : calls[a] \in [granted : Nat, refused : Nat, dropped : Nat]
        /\ \A a \in DOMAIN buckets : buckets[a] \in Entry
    BY RateLimitAssumption DEF LimitTypeOK
  <1>3. count \in 0..PerMinute /\ count = CountIn(buckets, ip) /\ count <= calls[ip].granted
    BY <1>2 DEF InMinute, Entry, CountIn
  <1>4. ~refuse => count + 1 \in 1..PerMinute BY <1>2, <1>3
  (* The table before what does not fit is dropped: it has counted the       *)
  (* request.                                                                *)
  <1>5. /\ TableFits(grown)
        /\ \A a \in Addresses : /\ CountIn(grown, a) = CountIn(buckets, a) + (made(a) - calls[a].granted)
                                /\ CountIn(grown, a) \in Nat
    <2>1. CASE refuse
      <3>1. \A a \in Addresses : CountIn(buckets, a) \in Nat
        BY <1>2 DEF CountIn, InMinute, Entry
      <3> QED BY <2>1, <3>1, <1>2
    <2>2. CASE ~refuse
      <3>1. grown = Counted(buckets, ip, count + 1) BY <2>2
      <3>2. /\ TableFits(Counted(buckets, ip, count + 1))
            /\ DOMAIN Counted(buckets, ip, count + 1) = DOMAIN buckets \cup {ip}
            /\ Counted(buckets, ip, count + 1)[ip].win = minute
            /\ Counted(buckets, ip, count + 1)[ip].n = count + 1
            /\ \A a \in DOMAIN buckets \ {ip} : Counted(buckets, ip, count + 1)[a] = buckets[a]
        <4> DEFINE k == count + 1
        <4>1. k \in 1..PerMinute /\ minute \in Nat /\ TableFits(buckets) BY <1>2, <1>4, <2>2
        <4> HIDE DEF k
        <4>2. /\ TableFits(Counted(buckets, ip, k))
              /\ DOMAIN Counted(buckets, ip, k) = DOMAIN buckets \cup {ip}
              /\ Counted(buckets, ip, k)[ip].win = minute /\ Counted(buckets, ip, k)[ip].n = k
              /\ \A a \in DOMAIN buckets \ {ip} : Counted(buckets, ip, k)[a] = buckets[a]
          BY <4>1, CountedFits
        <4> QED BY <4>2 DEF k
      <3> HIDE DEF grown, count, refuse
      <3>3. CountIn(grown, ip) = count + 1 BY <3>1, <3>2 DEF CountIn, InMinute
      <3>4. \A a \in Addresses \ {ip} : CountIn(grown, a) = CountIn(buckets, a)
        BY <3>1, <3>2 DEF CountIn, InMinute
      <3>5. \A a \in Addresses : CountIn(buckets, a) \in Nat
        BY <1>2 DEF CountIn, InMinute, Entry
      <3> QED BY <3>1, <3>2, <3>3, <3>4, <3>5, <2>2, <1>2, <1>3
    <2> QED BY <2>1, <2>2
  <1> HIDE DEF grown, refuse, count
  <1>6. /\ TableFits(buckets') /\ Cardinality(DOMAIN buckets') <= MaxTracked
        /\ DOMAIN buckets' \subseteq InMinute(grown, minute)
        /\ \A a \in DOMAIN buckets' : buckets'[a] = grown[a]
        /\ \A a \in gone : /\ IsFiniteSet(Younger(grown, minute, a))
                           /\ MaxTracked <= Cardinality(Younger(grown, minute, a))
    BY <1>1, <1>5, PruneFits
  <1>7. TableFits(buckets)' BY <1>1, <1>6 DEF TableFits, Entry
  <1>8. LimitTypeOK'
    <2>1. calls' \in [Addresses -> [granted : Nat, refused : Nat, dropped : Nat]]
      BY <1>1, <1>2
    <2> QED BY <1>1, <1>7, <2>1 DEF LimitTypeOK, TableFits
  <1>9. \A a \in Addresses : /\ calls'[a].granted = made(a)
                             /\ calls'[a].dropped = calls[a].dropped + (IF a \in gone THEN 1 ELSE 0)
    BY <1>1
  <1>10. \A a \in Addresses :
           /\ a \in gone => CountIn(grown, a) <= PerMinute /\ CountIn(buckets, a)' = 0
           /\ a \notin gone => CountIn(buckets, a)' = CountIn(grown, a)
    <2>1. \A a \in DOMAIN grown : grown[a].n \in 1..PerMinute /\ grown[a].win \in 0..minute
      BY <1>5 DEF TableFits, Entry
    <2>2. DOMAIN buckets' \subseteq DOMAIN grown BY <1>6 DEF InMinute
    <2>3. \A a \in DOMAIN buckets' : grown[a].win = minute BY <1>6 DEF InMinute
    <2>4. InMinute(buckets, minute)' = DOMAIN buckets' BY <1>1, <1>6, <2>3 DEF InMinute
    <2>5. \A a \in Addresses : CountIn(buckets, a)' = IF a \in DOMAIN buckets' THEN grown[a].n ELSE 0
      BY <2>4, <1>6 DEF CountIn
    <2>6. InMinute(grown, minute) \subseteq DOMAIN grown BY DEF InMinute
    <2> QED BY <1>2, <1>6, <2>1, <2>5, <2>6 DEF CountIn
  <1>11. ASSUME NEW a \in Addresses
         PROVE  /\ calls'[a].granted <= PerMinute * calls'[a].dropped + CountIn(buckets, a)'
                /\ CountIn(buckets, a)' <= calls'[a].granted
                /\ calls'[a].granted <= PerMinute * (1 + calls'[a].dropped)
    <2> DEFINE g == calls[a].granted  d == calls[a].dropped
    <2>1. g \in Nat /\ d \in Nat /\ made(a) \in Nat BY <1>2
    <2>2. PerMinute * d \in Nat BY <1>2, <2>1
    <2>3. /\ g <= PerMinute * d + CountIn(buckets, a) /\ CountIn(buckets, a) <= g
          /\ CountIn(grown, a) = CountIn(buckets, a) + (made(a) - g) /\ CountIn(grown, a) \in Nat
      BY <1>5
    <2>4. CountIn(buckets, a) \in Nat BY <1>2 DEF CountIn, InMinute, Entry
    <2>5. made(a) <= PerMinute * d + CountIn(grown, a) /\ CountIn(grown, a) <= made(a)
      <3> HIDE DEF made, g, d
      <3> QED BY <2>1, <2>2, <2>3, <2>4
    <2>6. CountIn(grown, a) <= PerMinute
      <3>1. \A b \in DOMAIN grown : grown[b].n \in 1..PerMinute BY <1>5 DEF TableFits, Entry
      <3> QED BY <3>1, <1>2 DEF CountIn, InMinute
    <2>7. /\ calls'[a].granted = made(a)
          /\ \/ calls'[a].dropped = d + 1 /\ CountIn(buckets, a)' = 0
             \/ calls'[a].dropped = d /\ CountIn(buckets, a)' = CountIn(grown, a)
      BY <1>9, <1>10, <2>1
    <2> DEFINE m == made(a)  c == CountIn(grown, a)  e == calls'[a].dropped  x == CountIn(buckets, a)'
    <2>8. m <= PerMinute * e + x /\ x <= m /\ m <= PerMinute * (1 + e)
      <3>1. m \in Nat /\ d \in Nat /\ PerMinute \in Nat BY <1>2, <2>1
      <3>2. c \in Nat BY <2>3
      <3>3. m <= PerMinute * d + c /\ c <= m BY <2>5
      <3>4. c <= PerMinute BY <2>6
      <3>5. (e = d + 1 /\ x = 0) \/ (e = d /\ x = c) BY <2>7
      <3> HIDE DEF m, c, e, x, d
      <3> QED BY <3>1, <3>2, <3>3, <3>4, <3>5, BoundStays
    <2> QED BY <2>7, <2>8
  <1>12. ~unfair'
    <2>1. refuse => calls[ip].granted >= PerMinute BY <1>2, <1>3 DEF refuse
    <2>2. unfair' => unfair \/ (refuse /\ calls[ip].granted < PerMinute) BY <1>1
    <2>3. ~unfair BY DEF LimitHolds
    <2>4. calls[ip].granted \in Nat BY <1>2
    <2> QED BY <1>2, <2>1, <2>2, <2>3, <2>4
  <1>13. IsFiniteSet(Served') /\ Served \subseteq Served'
    <2>1. Served' \subseteq Served \cup {ip} BY <1>2, <1>9 DEF Served
    <2>2. IsFiniteSet(Served \cup {ip}) BY FS_AddElement
    <2>3. Served \subseteq Served' BY <1>9, <1>2 DEF Served
    <2> QED BY <2>1, <2>2, <2>3, FS_Subset
  (* Who drops out of the table of this minute has the cap's number of       *)
  (* younger keys, all of which have been granted a request.                 *)
  <1>14. ASSUME NEW a \in gone PROVE Cardinality(Served') > MaxTracked
    <2> DEFINE Y == Younger(grown, minute, a)
    <2>1. \A b \in InMinute(grown, minute) : b \in Addresses /\ CountIn(grown, b) >= 1
      BY <1>5, <1>2 DEF TableFits, InMinute, CountIn, Entry
    <2>2. \A b \in InMinute(grown, minute) : b \in Served'
      <3>1. \A b \in Addresses : CountIn(grown, b) <= made(b) /\ made(b) \in Nat
        <4>1. \A b \in Addresses : CountIn(buckets, b) \in Nat BY <1>2 DEF CountIn, InMinute, Entry
        <4>2. \A b \in Addresses : made(b) \in Nat /\ calls[b].granted \in Nat BY <1>2
        <4> HIDE DEF made
        <4> QED BY <4>1, <4>2, <1>5
      <3> QED BY <2>1, <3>1, <1>9, <1>5 DEF Served
    <2>3. Y \cup {a} \subseteq Served' BY <2>2 DEF Younger
    <2>4. a \notin Y
      <3>1. grown[a].since \in Nat BY <1>5 DEF TableFits, InMinute, Entry
      <3> QED BY <3>1 DEF Younger
    <2>5. IsFiniteSet(Y) /\ MaxTracked <= Cardinality(Y) BY <1>6
    <2> HIDE DEF Y
    <2>6. Cardinality(Y \cup {a}) = Cardinality(Y) + 1 BY <2>4, <2>5, FS_AddElement
    <2>7. Cardinality(Y \cup {a}) <= Cardinality(Served') BY <2>3, <1>13, FS_Subset
    <2>8. Cardinality(Y) \in Nat /\ Cardinality(Served') \in Nat BY <2>5, <1>13, FS_CardinalityType
    <2> QED BY <2>5, <2>6, <2>7, <2>8, <1>2
  <1>15. (\E a \in Addresses : calls'[a].dropped > 0) => Cardinality(Served') > MaxTracked
    <2> SUFFICES ASSUME NEW a \in Addresses, calls'[a].dropped > 0
                 PROVE  Cardinality(Served') > MaxTracked
      OBVIOUS
    <2>1. CASE a \in gone BY <2>1, <1>14
    <2>2. CASE a \notin gone
      <3>1. calls[a].dropped > 0 BY <2>2, <1>9, <1>2
      <3>2. Cardinality(Served) > MaxTracked BY <3>1 DEF LimitHolds
      <3>3. Cardinality(Served) <= Cardinality(Served') BY <1>13, FS_Subset
      <3>4. Cardinality(Served) \in Nat /\ Cardinality(Served') \in Nat BY <1>13, FS_CardinalityType
      <3> QED BY <3>2, <3>3, <3>4, <1>2
    <2> QED BY <2>1, <2>2
  <1>16. LimitHolds' BY <1>1, <1>6, <1>11, <1>12, <1>15 DEF LimitHolds
  <1> QED BY <1>7, <1>8, <1>11, <1>13, <1>16

LEMMA LimitSteps == LimitInv /\ [LimitNext]_limitVars => LimitInv'
  <1> SUFFICES ASSUME LimitInv, [LimitNext]_limitVars PROVE LimitInv'
    OBVIOUS
  <1>1. CASE NextMinute BY <1>1, MinuteKeeps
  <1>2. ASSUME NEW ip \in Addresses, Dispatch(ip) PROVE LimitInv' BY <1>2, DispatchKeeps
  <1>3. CASE UNCHANGED limitVars
    BY <1>3 DEF limitVars, LimitInv, LimitTypeOK, LimitHolds, TableFits, Entry, Served, CountIn, InMinute
  <1> QED BY <1>1, <1>2, <1>3 DEF LimitNext

(* The inductive invariant of the limiter, for any number of addresses, any  *)
(* limit and any cap (InMemoryRateLimitMiddleware).                          *)
THEOREM LimitInductive == LimitSpec => []LimitInv
  <1>1. LimitInit => LimitInv BY LimitStarts
  <1>2. LimitInv /\ [LimitNext]_limitVars => LimitInv' BY LimitSteps
  <1> QED BY <1>1, <1>2, PTL DEF LimitSpec

(* The limit is the limit: no address is granted more than its due but for   *)
(* the times its count gave way, none is refused early, and the table keeps  *)
(* its cap (prune_rate_limit_store, dispatch).                               *)
THEOREM LimitIsTheLimit == LimitSpec => []LimitHolds
  <1>1. LimitInv => LimitHolds BY DEF LimitInv
  <1> QED BY <1>1, LimitInductive, PTL

(* ---- a bundle and its verifier ------------------------------------------- *)
LEMMA ShaTells == \A a, b : Sha(a) = Sha(b) => a = b
  BY DEF Sha

(* The links of a chain of hashes, by their recursive definition.            *)
LEMMA ChainLinks ==
  ASSUME NEW files, NEW n \in Nat, DOMAIN files = 1..n, Len(files) = n
  PROVE  /\ DOMAIN ChainHashes(files) = 1..n
         /\ \A i \in 1..n : ChainHashes(files)[i] =
              Sha(<<IF i = 1 THEN <<>> ELSE ChainHashes(files)[i - 1], files[i].path, Sha(files[i].data)>>)
  <1> DEFINE Link(g, i) == IF i = 0 THEN <<>> ELSE Sha(<<g[i - 1], files[i].path, Sha(files[i].data)>>)
             G == {m \in Nat : \E g : g = [i \in 0..m |-> Link(g, i)]}
             chain == CHOOSE g : g = [i \in 0..n |-> Link(g, i)]
  <1>1. 0 \in G
    <2>1. [i \in 0..0 |-> <<>>] = [i \in 0..0 |-> Link([k \in 0..0 |-> <<>>], i)] OBVIOUS
    <2> QED BY <2>1
  <1>2. ASSUME NEW m \in Nat, m \in G PROVE m + 1 \in G
    <2>1. PICK g : g = [i \in 0..m |-> Link(g, i)] BY <1>2
    <2> DEFINE h == [i \in 0..(m + 1) |-> IF i = m + 1 THEN Link(g, i) ELSE g[i]]
    <2>2. ASSUME NEW i \in 0..(m + 1) PROVE h[i] = Link(h, i)
      <3>1. CASE i = 0
        <4>1. h[0] = g[0] /\ g[0] = Link(g, 0) BY <2>1
        <4> QED BY <4>1, <3>1
      <3>2. CASE i # 0
        <4>1. i - 1 \in 0..m /\ h[i - 1] = g[i - 1] BY <3>2
        <4>2. Link(h, i) = Link(g, i)
          <5> HIDE DEF h
          <5> QED BY <4>1
        <4>3. h[i] = Link(g, i)
          <5>1. CASE i = m + 1 BY <5>1
          <5>2. CASE i # m + 1
            <6>1. i \in 0..m /\ h[i] = g[i] BY <5>2
            <6>2. g[i] = [j \in 0..m |-> Link(g, j)][i] BY <2>1
            <6> QED BY <6>1, <6>2
          <5> QED BY <5>1, <5>2
        <4> QED BY <4>2, <4>3
      <3> QED BY <3>1, <3>2
    <2>3. h = [i \in 0..(m + 1) |-> Link(h, i)]
      <3> HIDE DEF Link
      <3> QED BY <2>2
    <2> HIDE DEF h, Link
    <2>4. \E d : d = [i \in 0..(m + 1) |-> Link(d, i)] BY <2>3
    <2> QED BY <2>4
  <1>3. n \in G
    <2> HIDE DEF G
    <2> QED BY <1>1, <1>2, Induction
  <1>4. chain = [i \in 0..n |-> Link(chain, i)]
    <2> HIDE DEF Link
    <2> QED BY <1>3
  <1>5. ChainHashes(files) = [i \in 1..n |-> chain[i]] BY DEF ChainHashes
  <1> HIDE DEF chain
  <1>6. ASSUME NEW i \in 1..n
        PROVE  chain[i] = Sha(<<IF i = 1 THEN <<>> ELSE chain[i - 1], files[i].path, Sha(files[i].data)>>)
    <2>1. i \in 0..n /\ i - 1 \in 0..n /\ i # 0 /\ (i = 1 => i - 1 = 0) OBVIOUS
    <2>2. chain[i] = Link(chain, i) /\ chain[0] = Link(chain, 0)
      <3> HIDE DEF Link
      <3> DEFINE f == [j \in 0..n |-> Link(chain, j)]
      <3>1. f[i] = Link(chain, i) /\ f[0] = Link(chain, 0) BY <2>1
      <3> HIDE DEF f
      <3>2. chain = f BY <1>4 DEF f
      <3> QED BY <3>1, <3>2
    <2> QED BY <2>1, <2>2
  <1>7. ASSUME NEW i \in 1..n, i # 1 PROVE ChainHashes(files)[i - 1] = chain[i - 1]
    <2>1. i - 1 \in 1..n BY <1>7
    <2> QED BY <2>1, <1>5
  <1> QED BY <1>5, <1>6, <1>7

(* A sequence of files, each with a path of its own.                         *)
FilesApart(files, n) ==
  /\ files = [i \in 1..n |-> [path |-> files[i].path, data |-> files[i].data]] /\ Len(files) = n
  /\ \A i \in 1..n : files[i].data # Truncated
  /\ \A i, j \in 1..n : files[i].path = files[j].path => i = j

(* The archive that BuildCaseBundle makes, field by field.                   *)
LEMMA BundleFields ==
  ASSUME NEW files, NEW n \in Nat, FilesApart(files, n), NEW signer,
         NEW archive, archive = BuildCaseBundle(files, signer)
  PROVE  /\ archive.files = files /\ archive.root = ChainHashes(files)[n]
         /\ DOMAIN archive.items = 1..n /\ Len(archive.items) = n
         /\ \A i \in 1..n : /\ archive.items[i].path = files[i].path
                             /\ archive.items[i].sha = Sha(files[i].data)
                             /\ archive.items[i].chain = ChainHashes(files)[i]
         /\ archive.signature = BuildSignature(signer, archive.root)
         /\ archive.status = archive.signature.status
  <1>1. archive.items = [i \in 1..n |-> [path |-> files[i].path, sha |-> Sha(files[i].data),
                                         chain |-> ChainHashes(files)[i]]]
    BY DEF BuildCaseBundle, FilesApart
  <1>2. Len(archive.items) = n BY <1>1
  <1>4. ASSUME NEW i \in 1..n
        PROVE  /\ archive.items[i].path = files[i].path
               /\ archive.items[i].sha = Sha(files[i].data)
               /\ archive.items[i].chain = ChainHashes(files)[i]
    <2>1. archive.items[i] = [path |-> files[i].path, sha |-> Sha(files[i].data),
                              chain |-> ChainHashes(files)[i]]
      BY <1>1
    <2> QED BY ONLY <2>1
  <1>3. /\ archive.files = files /\ archive.root = ChainHashes(files)[n]
        /\ archive.signature = BuildSignature(signer, archive.root)
        /\ archive.status = archive.signature.status
    BY DEF BuildCaseBundle, FilesApart
  <1> QED BY <1>1, <1>2, <1>3, <1>4

(* Reading a file of an archive by its path gives that very file.            *)
LEMMA ReadByPath ==
  ASSUME NEW archive, NEW i \in DOMAIN archive.files, DOMAIN archive.files \subseteq Int,
         \A j \in DOMAIN archive.files : archive.files[j].path = archive.files[i].path => j = i
  PROVE  /\ Present(archive, archive.files[i].path)
         /\ DataAt(archive, archive.files[i].path) = archive.files[i].data
  <1> DEFINE path == archive.files[i].path
             named == {j \in DOMAIN archive.files : archive.files[j].path = path}
  <1>1. named = {i} OBVIOUS
  <1>2. (CHOOSE j \in named : \A k \in named : k <= j) = i
    <2>1. i \in named /\ \A k \in named : k <= i BY <1>1
    <2> HIDE DEF named
    <2> QED BY <2>1, <1>1
  <1>3. DataAt(archive, path) = archive.files[CHOOSE j \in named : \A k \in named : k <= j].data
    BY DEF DataAt
  <1> HIDE DEF named
  <1> QED BY <1>2, <1>3 DEF Present

(* As the product builds it an archive is accepted by whoever can check the  *)
(* signature.                                                                *)
LEMMA BuiltIsAccepted ==
  ASSUME NEW files, NEW n \in Nat, FilesApart(files, n), NEW signer,
         NEW archive, archive = BuildCaseBundle(files, signer),
         Entries(archive) <= VerifyMaxFiles,
         SignatureHolds(signer, archive.status, archive.root, archive.signature)
  PROVE  VerifyBundle(signer, archive)
  <1> DEFINE read == [i \in DOMAIN archive.items |-> [path |-> archive.items[i].path,
                                                    data |-> DataAt(archive, archive.items[i].path)]]
  <1>1. /\ archive.files = files /\ archive.root = ChainHashes(files)[n]
        /\ DOMAIN archive.items = 1..n /\ Len(archive.items) = n
        /\ \A i \in 1..n : /\ archive.items[i].path = files[i].path
                            /\ archive.items[i].sha = Sha(files[i].data)
                            /\ archive.items[i].chain = ChainHashes(files)[i]
    BY BundleFields
  <1>3. ASSUME NEW i \in 1..n
        PROVE  Present(archive, files[i].path) /\ DataAt(archive, files[i].path) = files[i].data
    <2>0. DOMAIN files = 1..n /\ \A j \in 1..n : files[j].path = files[i].path => j = i
      BY DEF FilesApart
    <2>1. /\ i \in DOMAIN archive.files /\ DOMAIN archive.files \subseteq Int
          /\ \A j \in DOMAIN archive.files : archive.files[j].path = archive.files[i].path => j = i
      BY <1>1, <2>0
    <2> QED BY <2>1, <1>1, ReadByPath
  <1>4. ASSUME NEW i \in 1..n PROVE read[i] = [path |-> files[i].path, data |-> files[i].data]
    <2>1. archive.items[i].path = files[i].path BY <1>1
    <2> QED BY <1>1, <1>3, <2>1
  <1>5. read = [i \in 1..n |-> [path |-> files[i].path, data |-> files[i].data]] BY <1>1, <1>4
  <1>6. read = files BY <1>5, Zenon DEF FilesApart
  <1> HIDE DEF read
  <1>7. \A i \in 1..n : /\ Present(archive, archive.items[i].path)
                        /\ Sha(DataAt(archive, archive.items[i].path)) = archive.items[i].sha
                        /\ ChainHashes(read)[i] = archive.items[i].chain
    <2> TAKE i \in 1..n
    <2>1. archive.items[i].path = files[i].path /\ archive.items[i].sha = Sha(files[i].data)
          /\ archive.items[i].chain = ChainHashes(files)[i]
      BY <1>1
    <2> QED BY <2>1, <1>3, <1>6
  <1>8. archive.root = ChainHashes(read)[Len(archive.items)] BY <1>1, <1>6
  <1> QED BY <1>1, <1>7, <1>8 DEF VerifyBundle, read

(* A file that is missing, or cut off, with its hash in the manifest or      *)
(* without, is found out.                                                    *)
LEMMA HurtIsRefused ==
  ASSUME NEW files, NEW n \in Nat, FilesApart(files, n), NEW signer,
         NEW archive, archive = BuildCaseBundle(files, signer), NEW k \in 1..n
  PROVE  /\ ~VerifyBundle(signer, Without(archive, k))
         /\ ~VerifyBundle(signer, Changed(archive, k))
         /\ ~VerifyBundle(signer, Rehashed(archive, k))
  <1>1. /\ archive.files = files
        /\ DOMAIN archive.items = 1..n /\ Len(archive.items) = n
        /\ \A i \in 1..n : /\ archive.items[i].path = files[i].path
                           /\ archive.items[i].sha = Sha(files[i].data)
                           /\ archive.items[i].chain = ChainHashes(files)[i]
    BY BundleFields
  <1>2. /\ DOMAIN files = 1..n /\ Len(files) = n /\ files[k].data # Truncated
        /\ \A i, j \in 1..n : files[i].path = files[j].path => i = j
    BY DEF FilesApart
  <1>3. DOMAIN archive = {"items", "root", "status", "suitability", "files", "signature"}
    <2> DEFINE Made(i, r, s, u, f, g) == [items |-> i, root |-> r, status |-> s, suitability |-> u,
                                          files |-> f, signature |-> g]
    <2>1. \E i, r, s, u, f, g : archive = Made(i, r, s, u, f, g) BY Zenon DEF BuildCaseBundle
    <2>2. ASSUME NEW i, NEW r, NEW s, NEW u, NEW f, NEW g
          PROVE  DOMAIN Made(i, r, s, u, f, g)
                   = {"items", "root", "status", "suitability", "files", "signature"}
      OBVIOUS
    <2> HIDE DEF Made
    <2> QED BY <2>1, <2>2
  <1> DEFINE V == {files[i] : i \in 1..n}
  <1>4. files \in Seq(V)
    <2>1. files = [i \in 1..n |-> files[i]]
      <3> DEFINE f == [i \in 1..n |-> [path |-> files[i].path, data |-> files[i].data]]
      <3>1. f = [i \in 1..n |-> f[i]] OBVIOUS
      <3> HIDE DEF f
      <3>2. files = f BY DEF FilesApart, f
      <3> QED BY <3>1, <3>2
    <2> QED BY <2>1
  <1> HIDE DEF V
  <1>5. ~VerifyBundle(signer, Without(archive, k))
    <2> DEFINE left == SubSeq(files, 1, k - 1) \o SubSeq(files, k + 1, n)
    <2>1. Without(archive, k) = [archive EXCEPT !.files = left] BY <1>1, <1>2 DEF Without
    <2>2. Without(archive, k).items = archive.items /\ Without(archive, k).files = left BY <2>1, <1>3
    <2> DEFINE a == SubSeq(files, 1, k - 1)
               b == SubSeq(files, k + 1, n)
    <2>a. a \in Seq(V) /\ Len(a) = k - 1 /\ \A j \in 1..(k - 1) : a[j] = files[j] BY <1>2, <1>4
    <2>b. b \in Seq(V) /\ Len(b) = n - k /\ \A j \in 1..(n - k) : b[j] = files[k + j] BY <1>2, <1>4
    <2>3. ASSUME NEW j \in DOMAIN left PROVE left[j].path # files[k].path
      <3>0. left = a \o b OBVIOUS
      <3> HIDE DEF a, b, left
      <3>1. j \in 1..(n - 1) /\ (j <= k - 1 => left[j] = a[j]) /\ (j > k - 1 => left[j] = b[j - (k - 1)])
        BY <3>0, <2>a, <2>b
      <3>2. \E i \in 1..n : i # k /\ left[j] = files[i]
        <4>1. CASE j <= k - 1
          <5>1. left[j] = files[j] /\ j \in 1..n /\ j # k BY <4>1, <3>1, <2>a
          <5> QED BY <5>1
        <4>2. CASE j > k - 1
          <5>1. j - (k - 1) \in 1..(n - k) /\ k + (j - (k - 1)) = j + 1 /\ j + 1 \in 1..n /\ j + 1 # k
            BY <4>2, <3>1
          <5>2. left[j] = files[j + 1] BY <5>1, <4>2, <3>1, <2>b
          <5> QED BY <5>1, <5>2
        <4> QED BY <3>1, <4>1, <4>2
      <3> QED BY <3>2, <1>2
    <2> HIDE DEF left
    <2>4. ~Present(Without(archive, k), archive.items[k].path) BY <2>2, <2>3, <1>1 DEF Present
    <2> QED BY <2>2, <2>4, <1>1 DEF VerifyBundle
  <1>6. ASSUME NEW hurt, DOMAIN hurt.files = 1..n, hurt.files[k].data = Truncated,
               \A i \in 1..n : hurt.files[i].path = files[i].path
        PROVE  DataAt(hurt, files[k].path) = Truncated
    <2>1. /\ k \in DOMAIN hurt.files /\ DOMAIN hurt.files \subseteq Int
          /\ \A j \in DOMAIN hurt.files : hurt.files[j].path = hurt.files[k].path => j = k
      BY <1>6, <1>2
    <2> QED BY <2>1, <1>6, ReadByPath
  <1> DEFINE cut == [files EXCEPT ![k].data = Truncated]
  <1>7. /\ DOMAIN cut = 1..n /\ cut[k].data = Truncated
        /\ \A i \in 1..n : cut[i].path = files[i].path
    <2>1. DOMAIN cut = 1..n /\ cut[k] = [files[k] EXCEPT !.data = Truncated]
          /\ \A i \in 1..n : i # k => cut[i] = files[i]
      BY <1>2
    <2>2. files[k] = [path |-> files[k].path, data |-> files[k].data] BY DEF FilesApart
    <2> HIDE DEF cut
    <2>3. cut[k].data = Truncated /\ cut[k].path = files[k].path BY <2>1, <2>2
    <2> QED BY <2>1, <2>3
  <1> HIDE DEF cut
  <1>8. ~VerifyBundle(signer, Changed(archive, k))
    <2>1. Changed(archive, k) = [archive EXCEPT !.files = cut] BY <1>1, <1>3 DEF Changed, cut
    <2>2. Changed(archive, k).items = archive.items /\ Changed(archive, k).files = cut BY <2>1, <1>3
    <2>3. DataAt(Changed(archive, k), files[k].path) = Truncated BY <2>2, <1>6, <1>7
    <2>4. Sha(Truncated) # Sha(files[k].data) BY <1>2, ShaTells
    <2>5. VerifyBundle(signer, Changed(archive, k)) =>
            Sha(DataAt(Changed(archive, k), Changed(archive, k).items[k].path)) = Changed(archive, k).items[k].sha
      <3>1. k \in DOMAIN Changed(archive, k).items BY <2>2, <1>1
      <3> QED BY <3>1 DEF VerifyBundle
    <2> QED BY <2>2, <2>3, <2>4, <2>5, <1>1
  <1>9. ~VerifyBundle(signer, Rehashed(archive, k))
    <2> DEFINE hurt == Rehashed(archive, k)
               resealed == [archive.items EXCEPT ![k].sha = Sha(Truncated)]
               read == [i \in DOMAIN hurt.items |-> [path |-> hurt.items[i].path,
                                                    data |-> DataAt(hurt, hurt.items[i].path)]]
    <2>1. hurt = [archive EXCEPT !.files = cut, !.items = resealed] BY <1>1, <1>3 DEF Rehashed, cut
    <2>2. hurt.items = resealed /\ hurt.files = cut BY <2>1, <1>3
    <2>3. /\ DOMAIN resealed = 1..n /\ resealed[k].path = files[k].path
          /\ resealed[k].chain = ChainHashes(files)[k]
      BY <1>1
    <2> HIDE DEF hurt, resealed
    <2>4. DataAt(hurt, files[k].path) = Truncated BY <2>2, <1>6, <1>7
    <2>5. DOMAIN read = 1..n /\ Len(read) = n /\ read[k].data = Truncated
      BY <2>2, <2>3, <2>4
    <2> HIDE DEF read
    <2>6. ChainHashes(read)[k] # ChainHashes(files)[k]
      <3> DEFINE HashAt(f) == IF k = 1 THEN <<>> ELSE ChainHashes(f)[k - 1]
      <3>1. /\ ChainHashes(read)[k] = Sha(<<HashAt(read), read[k].path, Sha(read[k].data)>>)
            /\ ChainHashes(files)[k] = Sha(<<HashAt(files), files[k].path, Sha(files[k].data)>>)
        BY <2>5, <1>2, ChainLinks
      <3>2. Sha(read[k].data) # Sha(files[k].data) BY <2>5, <1>2, ShaTells
      <3> HIDE DEF HashAt
      <3>3. <<HashAt(read), read[k].path, Sha(read[k].data)>>
              # <<HashAt(files), files[k].path, Sha(files[k].data)>>
        BY <3>2
      <3> QED BY <3>1, <3>3, ShaTells
    <2>7. k \in DOMAIN hurt.items /\ hurt.items[k].chain = ChainHashes(files)[k] BY <2>2, <2>3
    <2> QED BY <2>6, <2>7 DEF VerifyBundle, hurt, read
  <1> QED BY <1>5, <1>8, <1>9

(* ---- the files of a bundle ----------------------------------------------- *)
PathsOf(files) == {files[i].path : i \in DOMAIN files}

(* A list that is given entry by entry.                                      *)
LEMMA FilesListed ==
  ASSUME NEW files, NEW n \in Nat, NEW P, NEW D,
         files = [i \in 1..n |-> File(P[i], D[i])],
         \A i, j \in 1..n : P[i] = P[j] => i = j
  PROVE  FilesApart(files, n) /\ \A path \in PathsOf(files) : \E i \in 1..n : path = P[i]
  <1>1. ASSUME NEW i \in 1..n PROVE files[i].path = P[i] /\ files[i].data = <<D[i]>>
    <2>1. files[i] = [path |-> P[i], data |-> <<D[i]>>] BY DEF File
    <2> QED BY ONLY <2>1
  <1>2. DOMAIN files = 1..n /\ Len(files) = n
    <2> DEFINE f == [i \in 1..n |-> File(P[i], D[i])]
    <2>1. DOMAIN f = 1..n /\ Len(f) = n OBVIOUS
    <2> HIDE DEF f
    <2>2. files = f BY DEF f
    <2> QED BY <2>1, <2>2
  <1>3. [i \in 1..n |-> [path |-> files[i].path, data |-> files[i].data]]
          = [i \in 1..n |-> File(P[i], D[i])]
    BY <1>1 DEF File
  <1>4. ASSUME NEW i \in 1..n PROVE files[i].data # Truncated
    <2>1. files[i].data = <<D[i]>> BY <1>1
    <2>2. Len(<<D[i]>>) = 1 /\ Len(<<>>) = 0 OBVIOUS
    <2>3. <<D[i]>> # <<>> BY ONLY <2>2
    <2> QED BY ONLY <2>1, <2>3 DEF Truncated
  <1>5. \A path \in PathsOf(files) : \E i \in 1..n : path = P[i] BY <1>1, <1>2 DEF PathsOf
  <1> QED BY <1>1, <1>2, <1>3, <1>4, <1>5 DEF FilesApart

LEMMA FilesTogether ==
  ASSUME NEW f, NEW n \in Nat, FilesApart(f, n), NEW g, NEW m \in Nat, FilesApart(g, m),
         PathsOf(f) \cap PathsOf(g) = {}
  PROVE  FilesApart(f \o g, n + m) /\ PathsOf(f \o g) = PathsOf(f) \cup PathsOf(g)
  <1> DEFINE F == [path : PathsOf(f) \cup PathsOf(g), data : {f[i].data : i \in 1..n} \cup {g[i].data : i \in 1..m}]
             h == f \o g
  <1>1. DOMAIN f = 1..n /\ Len(f) = n /\ DOMAIN g = 1..m /\ Len(g) = m BY DEF FilesApart
  <1>2. f \in Seq(F)
    <2>1. ASSUME NEW i \in 1..n PROVE [path |-> f[i].path, data |-> f[i].data] \in F
      BY <1>1 DEF PathsOf
    <2> HIDE DEF F
    <2>2. [i \in 1..n |-> [path |-> f[i].path, data |-> f[i].data]] \in Seq(F) BY <2>1
    <2> QED BY <2>2 DEF FilesApart
  <1>3. g \in Seq(F)
    <2>1. ASSUME NEW i \in 1..m PROVE [path |-> g[i].path, data |-> g[i].data] \in F
      BY <1>1 DEF PathsOf
    <2> HIDE DEF F
    <2>2. [i \in 1..m |-> [path |-> g[i].path, data |-> g[i].data]] \in Seq(F) BY <2>1
    <2> QED BY <2>2 DEF FilesApart
  <1>4. /\ h \in Seq(F) /\ Len(h) = n + m
        /\ \A i \in 1..n : h[i] = f[i]
        /\ \A i \in 1..m : h[n + i] = g[i]
    <2> HIDE DEF F
    <2> QED BY <1>1, <1>2, <1>3
  <1> HIDE DEF h
  <1>5. ASSUME NEW k \in 1..(n + m) PROVE k \in 1..n \/ \E i \in 1..m : k = n + i
    <2>1. CASE k <= n BY <2>1
    <2>2. CASE ~(k <= n)
      <3>1. k - n \in 1..m /\ k = n + (k - n) BY <2>2
      <3> QED BY <3>1
    <2> QED BY <2>1, <2>2
  <1>6. DOMAIN h = 1..(n + m)
    <2> HIDE DEF F
    <2> QED BY <1>4
  <1>7. ASSUME NEW k \in 1..(n + m) PROVE h[k] = [path |-> h[k].path, data |-> h[k].data]
    <2>1. h[k] \in F
      <3> HIDE DEF F
      <3> QED BY <1>4, <1>6
    <2> QED BY <2>1
  <1>8. h = [k \in 1..(n + m) |-> [path |-> h[k].path, data |-> h[k].data]]
    <2>1. h = [k \in 1..(n + m) |-> h[k]]
      <3> HIDE DEF F
      <3> QED BY <1>4, <1>6
    <2> QED BY <2>1, <1>7, Zenon
  <1>9. \A k \in 1..(n + m) : h[k].data # Truncated
    BY <1>4, <1>5 DEF FilesApart
  <1>10. PathsOf(h) = PathsOf(f) \cup PathsOf(g)
    <2>1. ASSUME NEW k \in 1..(n + m) PROVE h[k].path \in PathsOf(f) \cup PathsOf(g)
      <3>1. CASE k \in 1..n BY <3>1, <1>1, <1>4 DEF PathsOf
      <3>2. ASSUME NEW i \in 1..m, k = n + i PROVE h[k].path \in PathsOf(g)
        BY <3>2, <1>1, <1>4 DEF PathsOf
      <3> QED BY <3>1, <3>2, <1>5
    <2>2. PathsOf(f) \subseteq PathsOf(h)
      <3>1. 1..n \subseteq 1..(n + m) OBVIOUS
      <3> QED BY <3>1, <1>1, <1>4, <1>6 DEF PathsOf
    <2>3. PathsOf(g) \subseteq PathsOf(h)
      <3>1. \A i \in 1..m : n + i \in 1..(n + m) OBVIOUS
      <3>2. ASSUME NEW i \in 1..m PROVE g[i].path \in PathsOf(h)
        <4>1. h[n + i] = g[i] /\ n + i \in DOMAIN h BY <3>1, <1>4, <1>6
        <4> QED BY <4>1 DEF PathsOf
      <3> QED BY <3>2, <1>1 DEF PathsOf
    <2> QED BY <2>1, <2>2, <2>3, <1>6 DEF PathsOf
  <1>11. \A i, j \in 1..n : f[i].path = f[j].path => i = j BY DEF FilesApart
  <1>12. \A i, j \in 1..m : g[i].path = g[j].path => i = j BY DEF FilesApart
  <1>13. \A i \in 1..n, j \in 1..m : f[i].path # g[j].path BY <1>1 DEF PathsOf
  <1>14. ASSUME NEW k \in 1..(n + m), NEW l \in 1..(n + m), h[k].path = h[l].path PROVE k = l
    <2>1. CASE k \in 1..n /\ l \in 1..n BY <2>1, <1>4, <1>11, <1>14
    <2>2. ASSUME k \in 1..n, NEW j \in 1..m, l = n + j PROVE FALSE BY <2>2, <1>4, <1>13, <1>14
    <2>3. ASSUME l \in 1..n, NEW i \in 1..m, k = n + i PROVE FALSE
      <3>1. f[l].path = g[i].path BY <2>3, <1>4, <1>14
      <3> QED BY <3>1, <2>3, <1>13
    <2>4. ASSUME NEW i \in 1..m, k = n + i, NEW j \in 1..m, l = n + j PROVE k = l
      BY <2>4, <1>4, <1>12, <1>14
    <2> QED BY <2>1, <2>2, <2>3, <2>4, <1>5
  <1>15. Len(h) = n + m BY <1>4
  <1> QED BY <1>8, <1>9, <1>10, <1>14, <1>15 DEF FilesApart, h

(* Lists that are written out.                                               *)
LEMMA SevenFiles ==
  ASSUME NEW P, NEW D
  PROVE  [i \in 1..7 |-> File(P[i], D[i])]
           = <<File(P[1], D[1]), File(P[2], D[2]), File(P[3], D[3]), File(P[4], D[4]),
               File(P[5], D[5]), File(P[6], D[6]), File(P[7], D[7])>>
  <1> DEFINE f == <<File(P[1], D[1]), File(P[2], D[2]), File(P[3], D[3]), File(P[4], D[4]),
                    File(P[5], D[5]), File(P[6], D[6]), File(P[7], D[7])>>
  <1>1. f = [i \in 1..7 |-> f[i]] OBVIOUS
  <1>2. ASSUME NEW i \in 1..7 PROVE f[i] = File(P[i], D[i])
    <2>1. i = 1 \/ i = 2 \/ i = 3 \/ i = 4 \/ i = 5 \/ i = 6 \/ i = 7 OBVIOUS
    <2> QED BY <2>1
  <1> QED BY <1>1, <1>2

LEMMA ThreeFiles ==
  ASSUME NEW P, NEW D
  PROVE  [i \in 1..3 |-> File(P[i], D[i])] = <<File(P[1], D[1]), File(P[2], D[2]), File(P[3], D[3])>>
  <1> DEFINE f == <<File(P[1], D[1]), File(P[2], D[2]), File(P[3], D[3])>>
  <1>1. f = [i \in 1..3 |-> f[i]] OBVIOUS
  <1>2. ASSUME NEW i \in 1..3 PROVE f[i] = File(P[i], D[i])
    <2>1. i = 1 \/ i = 2 \/ i = 3 OBVIOUS
    <2> QED BY <2>1
  <1> QED BY <1>1, <1>2

LEMMA OneFile ==
  ASSUME NEW path, NEW data, NEW f, f = <<File(path, data)>>
  PROVE  FilesApart(f, 1) /\ \A p \in PathsOf(f) : p = path
  <1>1. DOMAIN f = 1..1 /\ Len(f) = 1 /\ f[1] = [path |-> path, data |-> <<data>>] BY DEF File
  <1>2. f[1].path = path /\ f[1].data = <<data>> BY ONLY <1>1
  <1>3. f = [i \in 1..1 |-> [path |-> f[i].path, data |-> f[i].data]]
    <2>1. f = [i \in 1..1 |-> f[i]] OBVIOUS
    <2>2. \A i \in 1..1 : f[i] = [path |-> f[i].path, data |-> f[i].data] BY <1>1, <1>2
    <2> QED BY <2>1, <2>2
  <1> QED BY <1>1, <1>2, <1>3 DEF FilesApart, PathsOf, Truncated

(* The files of a bundle with any raw evidence, each piece of it once.       *)
LEMMA EvidenceApart ==
  ASSUME NEW facts, NEW card, NEW reports, NEW n \in Nat, n # 0, NEW R, NEW raw \in [1..n -> R],
         \A i, j \in 1..n : raw[i] = raw[j] => i = j
  PROVE  FilesApart(EvidenceFiles(facts, card, raw, reports, <<>>), n + 11)
  <1> DEFINE at == EvidenceMoment(card)
             A == <<<<"case.json">>, <<"siem.json">>, <<"gossopka-card.json">>, <<"audit.txt">>,
                    <<"findings.json">>, <<"artifacts.json">>, <<"investigation-summary.json">>>>
             V == <<CasePayload(facts, card), <<card.status, facts.hits>>, <<card.status, at>>, card.audit,
                    "findings", "artifacts", InvestigationSummaryPayload(card)>>
             B == [i \in 1..n |-> <<"raw", raw[i]>>]
             D == <<<<"compliance-data-quality-report.json">>, <<"forensic-readiness-report.json">>,
                    <<"case-evidence-checklist.json">>>>
             W == <<<<at, reports.compliance>>, <<at, reports.readiness>>, <<at, reports.checklist>>>>
             a == [i \in 1..7 |-> File(A[i], V[i])]
             b == [i \in 1..n |-> File(B[i], raw[i])]
             c == [i \in 1..1 |-> File(<<<<"evidence-index.json">>>>[i], <<raw>>[i])]
             d == [i \in 1..3 |-> File(D[i], W[i])]
  <1>1. ASSUME NEW i \in 1..7, NEW j \in 1..7, A[i] = A[j] PROVE i = j
    <2>1. i = 1 \/ i = 2 \/ i = 3 \/ i = 4 \/ i = 5 \/ i = 6 \/ i = 7 OBVIOUS
    <2>2. j = 1 \/ j = 2 \/ j = 3 \/ j = 4 \/ j = 5 \/ j = 6 \/ j = 7 OBVIOUS
    <2> QED BY <1>1, <2>1, <2>2
  <1>2. ASSUME NEW i \in 1..3, NEW j \in 1..3, D[i] = D[j] PROVE i = j
    <2>1. i = 1 \/ i = 2 \/ i = 3 OBVIOUS
    <2>2. j = 1 \/ j = 2 \/ j = 3 OBVIOUS
    <2> QED BY <1>2, <2>1, <2>2
  <1>3. ASSUME NEW i \in 1..n, NEW j \in 1..n, B[i] = B[j] PROVE i = j
    <2>1. <<"raw", raw[i]>> = <<"raw", raw[j]>> BY <1>3
    <2> QED BY <2>1
  <1>4. ASSUME NEW i \in 1..7 PROVE Len(A[i]) = 1 /\ A[i] # <<"evidence-index.json">>
    <2>1. i = 1 \/ i = 2 \/ i = 3 \/ i = 4 \/ i = 5 \/ i = 6 \/ i = 7 OBVIOUS
    <2> QED BY <2>1
  <1>5. ASSUME NEW i \in 1..3 PROVE Len(D[i]) = 1 /\ D[i] # <<"evidence-index.json">>
    <2>1. i = 1 \/ i = 2 \/ i = 3 OBVIOUS
    <2> QED BY <2>1
  <1>6. ASSUME NEW i \in 1..7, NEW j \in 1..3 PROVE A[i] # D[j]
    <2>1. i = 1 \/ i = 2 \/ i = 3 \/ i = 4 \/ i = 5 \/ i = 6 \/ i = 7 OBVIOUS
    <2>2. j = 1 \/ j = 2 \/ j = 3 OBVIOUS
    <2> QED BY <2>1, <2>2
  <1>7. \A i \in 1..n : Len(B[i]) = 2 OBVIOUS
  <1>8. Len(<<"evidence-index.json">>) = 1 OBVIOUS
  <1>9. EvidenceFiles(facts, card, raw, reports, <<>>) = ((a \o (b \o c)) \o d) \o <<>>
    <2>1. raw # <<>> /\ DOMAIN raw = 1..n
      <3>1. 1 \in DOMAIN raw OBVIOUS
      <3> QED BY <3>1
    <2>2. b = [i \in DOMAIN raw |-> File(<<"raw", raw[i]>>, raw[i])] OBVIOUS
    <2>3. c = <<File(<<"evidence-index.json">>, raw)>> BY DEF File
    <2>4. a = <<File(<<"case.json">>, CasePayload(facts, card)),
                File(<<"siem.json">>, <<card.status, facts.hits>>),
                File(<<"gossopka-card.json">>, <<card.status, at>>),
                File(<<"audit.txt">>, card.audit),
                File(<<"findings.json">>, "findings"), File(<<"artifacts.json">>, "artifacts"),
                File(<<"investigation-summary.json">>, InvestigationSummaryPayload(card))>>
      <3>1. a = <<File(A[1], V[1]), File(A[2], V[2]), File(A[3], V[3]), File(A[4], V[4]),
                  File(A[5], V[5]), File(A[6], V[6]), File(A[7], V[7])>>
        <4> HIDE DEF A, V
        <4> QED BY SevenFiles
      <3>2. /\ A[1] = <<"case.json">> /\ V[1] = CasePayload(facts, card)
            /\ A[2] = <<"siem.json">> /\ V[2] = <<card.status, facts.hits>>
            /\ A[3] = <<"gossopka-card.json">> /\ V[3] = <<card.status, at>>
            /\ A[4] = <<"audit.txt">> /\ V[4] = card.audit
            /\ A[5] = <<"findings.json">> /\ V[5] = "findings"
            /\ A[6] = <<"artifacts.json">> /\ V[6] = "artifacts"
            /\ A[7] = <<"investigation-summary.json">> /\ V[7] = InvestigationSummaryPayload(card)
        OBVIOUS
      <3> HIDE DEF a, A, V
      <3> QED BY <3>1, <3>2
    <2>5. d = <<File(<<"compliance-data-quality-report.json">>, <<at, reports.compliance>>),
                File(<<"forensic-readiness-report.json">>, <<at, reports.readiness>>),
                File(<<"case-evidence-checklist.json">>, <<at, reports.checklist>>)>>
      <3>1. d = <<File(D[1], W[1]), File(D[2], W[2]), File(D[3], W[3])>>
        <4> HIDE DEF D, W
        <4> QED BY ThreeFiles
      <3>2. /\ D[1] = <<"compliance-data-quality-report.json">> /\ W[1] = <<at, reports.compliance>>
            /\ D[2] = <<"forensic-readiness-report.json">> /\ W[2] = <<at, reports.readiness>>
            /\ D[3] = <<"case-evidence-checklist.json">> /\ W[3] = <<at, reports.checklist>>
        OBVIOUS
      <3> HIDE DEF d, D, W
      <3> QED BY <3>1, <3>2
    <2>6. RawFiles(card, raw) = b \o c
      <3> HIDE DEF b, c
      <3> QED BY <2>1, <2>2, <2>3 DEF RawFiles
    <2> HIDE DEF a, b, c, d
    <2> QED BY <2>4, <2>5, <2>6, Zenon DEF EvidenceFiles
  <1>10. FilesApart(a, 7) /\ \A path \in PathsOf(a) : \E i \in 1..7 : path = A[i]
    <2>1. a = [i \in 1..7 |-> File(A[i], V[i])] OBVIOUS
    <2> HIDE DEF a, A, V
    <2>2. PICK m \in Nat : m = 7 OBVIOUS
    <2>3. a = [i \in 1..m |-> File(A[i], V[i])] BY <2>1, <2>2
    <2>4. \A i, j \in 1..m : A[i] = A[j] => i = j BY <2>2, <1>1
    <2>5. FilesApart(a, m) /\ \A path \in PathsOf(a) : \E i \in 1..m : path = A[i]
      BY <2>3, <2>4, FilesListed
    <2> QED BY <2>2, <2>5
  <1>11. FilesApart(b, n) /\ \A path \in PathsOf(b) : \E i \in 1..n : path = B[i]
    <2>1. b = [i \in 1..n |-> File(B[i], raw[i])] OBVIOUS
    <2> HIDE DEF b, B
    <2> QED BY <2>1, <1>3, FilesListed
  <1>12. FilesApart(c, 1) /\ \A path \in PathsOf(c) : path = <<"evidence-index.json">>
    <2>1. c = <<File(<<"evidence-index.json">>, raw)>> BY DEF File
    <2> HIDE DEF c
    <2> QED BY <2>1, OneFile
  <1>13. FilesApart(d, 3) /\ \A path \in PathsOf(d) : \E i \in 1..3 : path = D[i]
    <2>1. d = [i \in 1..3 |-> File(D[i], W[i])] OBVIOUS
    <2> HIDE DEF d, D, W
    <2>2. PICK m \in Nat : m = 3 OBVIOUS
    <2>3. d = [i \in 1..m |-> File(D[i], W[i])] BY <2>1, <2>2
    <2>4. \A i, j \in 1..m : D[i] = D[j] => i = j BY <2>2, <1>2
    <2>5. FilesApart(d, m) /\ \A path \in PathsOf(d) : \E i \in 1..m : path = D[i]
      BY <2>3, <2>4, FilesListed
    <2> QED BY <2>2, <2>5
  <1> HIDE DEF a, b, c, d, A, B, D, V, W
  <1>14. FilesApart(b \o c, n + 1) /\ PathsOf(b \o c) = PathsOf(b) \cup PathsOf(c)
    <2>1. ASSUME NEW path \in PathsOf(b) PROVE path \notin PathsOf(c)
      <3>1. Len(path) = 2 BY <1>7, <1>11
      <3> QED BY <3>1, <1>8, <1>12
    <2>2. PathsOf(b) \cap PathsOf(c) = {} BY <2>1
    <2> QED BY <2>2, <1>11, <1>12, FilesTogether
  <1>15. FilesApart(a \o (b \o c), 7 + (n + 1)) /\ PathsOf(a \o (b \o c)) = PathsOf(a) \cup PathsOf(b \o c)
    <2>1. ASSUME NEW path \in PathsOf(a) PROVE path \notin PathsOf(b) /\ path \notin PathsOf(c)
      <3>1. Len(path) = 1 /\ path # <<"evidence-index.json">> BY <1>4, <1>10
      <3>2. ASSUME path \in PathsOf(b) PROVE FALSE
        <4>1. PICK i \in 1..n : path = B[i] BY <3>2, <1>11
        <4>2. Len(B[i]) = 2 /\ 1 # 2 BY <1>7
        <4> QED BY <3>1, <4>1, <4>2, Zenon
      <3> QED BY <3>1, <3>2, <1>12
    <2>2. PathsOf(a) \cap PathsOf(b \o c) = {} BY <2>1, <1>14
    <2> QED BY <2>2, <1>10, <1>14, FilesTogether
  <1>16. FilesApart((a \o (b \o c)) \o d, (7 + (n + 1)) + 3)
    <2>1. ASSUME NEW path \in PathsOf(d)
          PROVE  path \notin PathsOf(a) /\ path \notin PathsOf(b) /\ path \notin PathsOf(c)
      <3>1. Len(path) = 1 /\ path # <<"evidence-index.json">> BY <1>5, <1>13
      <3>2. path \notin PathsOf(a) BY <1>6, <1>10, <1>13
      <3>3. ASSUME path \in PathsOf(b) PROVE FALSE
        <4>1. PICK i \in 1..n : path = B[i] BY <3>3, <1>11
        <4>2. Len(B[i]) = 2 /\ 1 # 2 BY <1>7
        <4> QED BY <3>1, <4>1, <4>2, Zenon
      <3>4. path \notin PathsOf(c) BY ONLY <3>1, <1>12
      <3> QED BY <3>2, <3>3, <3>4
    <2>2. PathsOf(a \o (b \o c)) \cap PathsOf(d) = {} BY <2>1, <1>14, <1>15
    <2> QED BY <2>2, <1>13, <1>15, FilesTogether
  <1>17. FilesApart(<<>>, 0) /\ PathsOf(<<>>) = {}
    BY DEF FilesApart, PathsOf
  <1>18. FilesApart(((a \o (b \o c)) \o d) \o <<>>, ((7 + (n + 1)) + 3) + 0)
    <2>1. PathsOf((a \o (b \o c)) \o d) \cap PathsOf(<<>>) = {} BY <1>17
    <2> QED BY <2>1, <1>16, <1>17, FilesTogether
  <1>19. ((7 + (n + 1)) + 3) + 0 = n + 11 OBVIOUS
  <1> QED BY <1>9, <1>18, <1>19

(* A bundle with raw evidence, whoever signs it: as long as it has no more   *)
(* files than the verifier takes, and the verifier can check the signature,  *)
(* it is accepted, and it is not once a file is missing or cut off, with its *)
(* hash in the manifest or without (Accountable).                            *)
THEOREM BundleIsAccountable ==
  ASSUME NEW facts, NEW card, NEW reports, NEW n \in Nat, n # 0, NEW R, NEW raw \in [1..n -> R],
         \A i, j \in 1..n : raw[i] = raw[j] => i = j, NEW signer,
         NEW archive, archive = BuildCaseBundle(EvidenceFiles(facts, card, raw, reports, <<>>), signer),
         n + 13 <= VerifyMaxFiles \/ (archive.status = "unsigned_mvp" /\ n + 12 <= VerifyMaxFiles),
         SignatureHolds(signer, archive.status, archive.root, archive.signature)
  PROVE  Accountable(archive, signer)
  <1> DEFINE files == EvidenceFiles(facts, card, raw, reports, <<>>)
  <1>1. FilesApart(files, n + 11) BY EvidenceApart
  <1> HIDE DEF files
  <1>2. archive = BuildCaseBundle(files, signer) BY DEF files
  <1>3. n + 11 \in Nat OBVIOUS
  <1>4. archive.files = files BY <1>1, <1>2, <1>3, BundleFields
  <1>5. Len(files) = n + 11 /\ DOMAIN files = 1..(n + 11)
    <2> DEFINE f == [i \in 1..(n + 11) |-> [path |-> files[i].path, data |-> files[i].data]]
    <2>1. DOMAIN f = 1..(n + 11) OBVIOUS
    <2> HIDE DEF f
    <2>2. files = f /\ Len(files) = n + 11 BY <1>1 DEF FilesApart, f
    <2> QED BY <2>1, <2>2
  <1>6. Entries(archive) <= VerifyMaxFiles
    <2>1. Entries(archive) = (n + 11) + 1 + (IF archive.status = "unsigned_mvp" THEN 0 ELSE 1)
      BY <1>4, <1>5 DEF Entries
    <2>2. CASE archive.status = "unsigned_mvp"
      <3>1. Entries(archive) = n + 12 BY <2>1, <2>2
      <3> QED BY <3>1, ForensicBundleAssumption
    <2>3. CASE archive.status # "unsigned_mvp"
      <3>1. Entries(archive) = n + 13 BY <2>1, <2>3
      <3> QED BY <3>1, <2>3, ForensicBundleAssumption
    <2> QED BY <2>2, <2>3
  <1>7. VerifyBundle(signer, archive) BY <1>1, <1>2, <1>3, <1>6, BuiltIsAccepted
  <1>8. ASSUME NEW k \in DOMAIN archive.files
        PROVE  /\ ~VerifyBundle(signer, Without(archive, k))
               /\ ~VerifyBundle(signer, Changed(archive, k))
               /\ ~VerifyBundle(signer, Rehashed(archive, k))
    <2>1. k \in 1..(n + 11) BY <1>4, <1>5
    <2> QED BY <2>1, <1>1, <1>2, <1>3, HurtIsRefused
  <1> QED BY <1>7, <1>8 DEF Accountable

(* What a signer has signed holds for the root hash it was given, and for no *)
(* other.                                                                    *)
LEMMA SignatureStands ==
  ASSUME NEW signer \in [strict : BOOLEAN, external : {"none", "gost", "other"}, secret : BOOLEAN,
                         verifier : BOOLEAN],
         NEW root, root # Sha(<<root, root>>)
  PROVE  SignatureBinds(signer, root)
  <1> DEFINE s == BuildSignature(signer, root)
  <1>1. CASE signer.strict /\ signer.external = "gost"
    <2>1. s = [status |-> "external_gost2012_detached", of |-> root, alg |-> "GOST"]
      BY <1>1 DEF BuildSignature
    <2> HIDE DEF s
    <2>2. s.status = "external_gost2012_detached" /\ s.of = root /\ s.alg = "GOST" BY <2>1
    <2> QED BY <2>2, <1>1 DEF SignatureBinds, SignatureHolds, Suitability, s
  <1>2. CASE signer.strict /\ signer.external # "gost"
    <2>1. s = [status |-> "refused", of |-> <<>>, alg |-> ""] BY <1>2 DEF BuildSignature
    <2> HIDE DEF s
    <2>2. s.status = "refused" BY <2>1
    <2> QED BY <2>2, <1>2 DEF SignatureBinds, SignatureHolds, Suitability, s
  <1>3. CASE ~signer.strict /\ signer.external \in {"gost", "other"}
    <2>1. s = [status |-> "external_qualified_detached", of |-> root,
               alg |-> IF signer.external = "gost" THEN "GOST" ELSE ""]
      BY <1>3 DEF BuildSignature
    <2> HIDE DEF s
    <2>2. s.status = "external_qualified_detached" /\ s.of = root BY <2>1
    <2> QED BY <2>2, <1>3 DEF SignatureBinds, SignatureHolds, Suitability, s
  <1>4. CASE ~signer.strict /\ signer.external \notin {"gost", "other"} /\ signer.secret
    <2>1. s = [status |-> "hmac_sha256_mvp", of |-> root, alg |-> "HMAC"] BY <1>4 DEF BuildSignature
    <2> HIDE DEF s
    <2>2. s.status = "hmac_sha256_mvp" /\ s.of = root BY <2>1
    <2> QED BY <2>2, <1>4 DEF SignatureBinds, SignatureHolds, Suitability, s
  <1>5. CASE ~signer.strict /\ signer.external \notin {"gost", "other"} /\ ~signer.secret
    <2>1. s = [status |-> "unsigned_mvp", of |-> <<>>, alg |-> ""] BY <1>5 DEF BuildSignature
    <2> HIDE DEF s
    <2>2. s.status = "unsigned_mvp" BY <2>1
    <2> QED BY <2>2, <1>5 DEF SignatureBinds, SignatureHolds, Suitability, s
  <1> QED BY <1>1, <1>2, <1>3, <1>4, <1>5

(* The edition that a bundle presents is the one the product shows.          *)
LEMMA SummaryIsCurrent ==
  ASSUME NEW card, NEW n \in Nat, DOMAIN card.editions = 1..n, Len(card.editions) = n
  PROVE  LET summary == InvestigationSummaryPayload(card)
         IN /\ n = 0 => summary.presented = 0
            /\ n # 0 => summary.presented = card.editions[Current(card)].version
            /\ summary.state = "approved" => card.editions[Current(card)].approved
  <1> DEFINE approved == {i \in DOMAIN card.editions : card.editions[i].approved}
             summary == InvestigationSummaryPayload(card)
             last(S) == CHOOSE i \in S : \A j \in S : j <= i
  <1>1. CASE approved # {}
    <2>1. summary.presented = card.editions[last(approved)].version
      BY <1>1 DEF InvestigationSummaryPayload
    <2>2. Current(card) = last(approved) BY <1>1 DEF Current
    <2>3. approved \subseteq 1..n OBVIOUS
    <2>4. last(approved) \in approved
      <3>1. IsFiniteSet(approved)
        <4>1. IsFiniteSet(1..n)
          <5>1. 1 \in Int /\ n \in Int OBVIOUS
          <5> QED BY ONLY <5>1, FS_Interval
        <4> QED BY <4>1, <2>3, FS_Subset
      <3>2. approved \subseteq Int BY <2>3
      <3>3. \E i \in approved : \A j \in approved : j <= i
        <4> HIDE DEF approved
        <4> QED BY <1>1, <3>1, <3>2, HasLargest
      <3> HIDE DEF approved
      <3> QED BY <3>3
    <2>5. n # 0 BY <1>1, <2>3
    <2> HIDE DEF last
    <2> QED BY <2>1, <2>2, <2>4, <2>5
  <1>2. CASE approved = {}
    <2>1. Current(card) = n BY <1>2 DEF Current
    <2>2. summary.state # "approved" BY <1>2 DEF InvestigationSummaryPayload
    <2>3. n = 0 => summary.presented = 0 BY <1>2 DEF InvestigationSummaryPayload
    <2>4. n # 0 => last(1..n) = n
      <3>1. n # 0 => n \in 1..n /\ \A j \in 1..n : j <= n OBVIOUS
      <3>2. \A i \in 1..n : n <= i => i = n OBVIOUS
      <3> QED BY <3>1, <3>2
    <2>5. n # 0 => summary.presented = card.editions[last(1..n)].version
      BY <1>2 DEF InvestigationSummaryPayload
    <2> HIDE DEF last
    <2> QED BY <2>1, <2>2, <2>3, <2>4, <2>5
  <1> QED BY <1>1, <1>2

-----------------------------------------------------------------------------
(***************************************************************************)
(* The assessment of a stream of events (RiskStream): whatever order they    *)
(* arrive in, the window puts them in the order of their observation.        *)
(***************************************************************************)

(* ---- the order of observation -------------------------------------------- *)
Below(s, n, at) == {k \in 1..n : s[k].at < at}
UpTo(s, n, at) == {k \in 1..n : s[k].at <= at}
Through(s, n, j) == {k \in 1..n : s[k].at < s[j].at \/ (s[k].at = s[j].at /\ k <= j)}

LEMMA PartCounts ==
  ASSUME NEW n \in Nat, NEW S, S \subseteq 1..n
  PROVE  IsFiniteSet(S) /\ Cardinality(S) \in Nat
  <1>1. 1 \in Int /\ n \in Int OBVIOUS
  <1>2. IsFiniteSet(1..n) BY <1>1, FS_Interval
  <1> QED BY <1>2, FS_Subset, FS_CardinalityType

(* Every place is that of one event.                                         *)
LEMMA PlacesInOrder ==
  ASSUME NEW s, NEW n \in Nat, \A i \in 1..n : s[i].at \in Int
  PROVE  /\ \A i \in 1..n : \E j \in 1..n : Cardinality(Through(s, n, j)) = i
         /\ \A i, j \in 1..n : Cardinality(Through(s, n, i)) = Cardinality(Through(s, n, j)) => i = j
  <1> DEFINE Comes(k, j) == s[k].at < s[j].at \/ (s[k].at = s[j].at /\ k < j)
             S == 1..n
             R == {p \in S \X S : Comes(p[1], p[2])}
  <1>1. IsFiniteSet(S) /\ Cardinality(S) = n
    <2>1. 1 \in Int /\ n \in Int OBVIOUS
    <2>2. IsFiniteSet(1..n) /\ Cardinality(1..n) = IF 1 > n THEN 0 ELSE n - 1 + 1 BY <2>1, FS_Interval
    <2> QED BY <2>2
  <1>2. \A j, k \in S : <<j, k>> \in R <=> Comes(j, k) OBVIOUS
  <1>3. StrictlyOrders(R, S)
    <2>1. \A j \in S : j \in Int /\ s[j].at \in Int OBVIOUS
    <2> HIDE DEF R, S
    <2>2. \A j \in S : ~Comes(j, j) BY <2>1
    <2>3. \A j, k \in S : j # k => Comes(j, k) \/ Comes(k, j) BY <2>1
    <2>4. \A j, k, l \in S : Comes(j, k) /\ Comes(k, l) => Comes(j, l) BY <2>1
    <2> HIDE DEF Comes
    <2> QED BY <1>2, <2>2, <2>3, <2>4 DEF StrictlyOrders
  <1>4. ASSUME NEW j \in S PROVE Cardinality(Through(s, n, j)) = PlaceOf(R, S)[j] + 1
    <2>1. Ahead(R, S, j) = Through(s, n, j) \ {j}
      <3>1. \A k \in S : <<k, j>> \in R <=> Comes(k, j) BY <1>2
      <3> HIDE DEF R
      <3> QED BY <3>1 DEF Ahead, Through
    <2>2. j \in Through(s, n, j) /\ Through(s, n, j) \subseteq 1..n BY DEF Through
    <2>3. IsFiniteSet(Through(s, n, j)) /\ Cardinality(Through(s, n, j)) \in Nat BY <2>2, PartCounts
    <2>4. Cardinality(Through(s, n, j) \ {j}) = Cardinality(Through(s, n, j)) - 1
      BY <2>2, <2>3, FS_RemoveElement
    <2>5. PlaceOf(R, S)[j] = Cardinality(Ahead(R, S, j)) BY DEF PlaceOf
    <2> HIDE DEF R, S
    <2> QED BY <2>1, <2>3, <2>4, <2>5
  <1>5. /\ PlaceOf(R, S) \in [S -> 0..(n - 1)]
        /\ \A x, y \in S : PlaceOf(R, S)[x] = PlaceOf(R, S)[y] => x = y
        /\ \A k \in 0..(n - 1) : \E x \in S : PlaceOf(R, S)[x] = k
    <2> HIDE DEF R, S
    <2> QED BY <1>1, <1>3, PlacesAreTaken
  <1> DEFINE place == PlaceOf(R, S)
  <1> HIDE DEF place, R
  <1>6. ASSUME NEW i \in 1..n PROVE \E j \in 1..n : Cardinality(Through(s, n, j)) = i
    <2>1. i - 1 \in 0..(n - 1) OBVIOUS
    <2>2. PICK j \in 1..n : place[j] = i - 1 BY <2>1, <1>5 DEF place
    <2> QED BY <2>2, <1>4 DEF place
  <1>7. ASSUME NEW i \in 1..n, NEW j \in 1..n, Cardinality(Through(s, n, i)) = Cardinality(Through(s, n, j))
        PROVE i = j
    <2>1. place \in [1..n -> 0..(n - 1)] BY <1>5 DEF place
    <2>2. place[i] \in 0..(n - 1) /\ place[j] \in 0..(n - 1) BY <2>1, <1>7
    <2>3. place[i] \in Int /\ place[j] \in Int
      <3>1. \A k \in 0..(n - 1) : k \in Int OBVIOUS
      <3> QED BY <2>2, <3>1
    <2>4. Cardinality(Through(s, n, i)) = place[i] + 1 /\ Cardinality(Through(s, n, j)) = place[j] + 1
      BY <1>4, <1>7 DEF place
    <2>5. place[i] = place[j] BY ONLY <2>3, <2>4, <1>7
    <2>6. \A x, y \in 1..n : place[x] = place[y] => x = y BY <1>5 DEF place
    <2> QED BY <2>5, <2>6, <1>7
  <1> QED BY <1>6, <1>7

(* The place of an event lies between the numbers of those observed before   *)
(* it and until then, and is the latter for the last.                        *)
LEMMA PlaceBetween ==
  ASSUME NEW s, NEW n \in Nat, \A i \in 1..n : s[i].at \in Int, NEW j \in 1..n
  PROVE  /\ Cardinality(Below(s, n, s[j].at)) < Cardinality(Through(s, n, j))
         /\ Cardinality(Through(s, n, j)) <= Cardinality(UpTo(s, n, s[j].at))
         /\ j = n => Cardinality(Through(s, n, j)) = Cardinality(UpTo(s, n, s[j].at))
  <1> DEFINE T == Through(s, n, j)
             B == Below(s, n, s[j].at)
             U == UpTo(s, n, s[j].at)
  <1>1. B \subseteq T \ {j} /\ T \subseteq U /\ U \subseteq 1..n /\ j \in T BY DEF Below, UpTo, Through
  <1>2. j = n => T = U BY DEF UpTo, Through
  <1> HIDE DEF T, B, U
  <1>3. /\ IsFiniteSet(T) /\ Cardinality(T) \in Nat /\ IsFiniteSet(U) /\ Cardinality(U) \in Nat
        /\ IsFiniteSet(B) /\ Cardinality(B) \in Nat
    <2>1. T \subseteq 1..n /\ B \subseteq 1..n BY <1>1
    <2> QED BY <2>1, <1>1, PartCounts
  <1>4. IsFiniteSet(T \ {j}) /\ Cardinality(T \ {j}) = Cardinality(T) - 1 BY <1>1, <1>3, FS_RemoveElement
  <1>5. Cardinality(B) <= Cardinality(T \ {j}) BY <1>1, <1>4, FS_Subset
  <1>6. Cardinality(T) <= Cardinality(U) BY <1>1, <1>3, FS_Subset
  <1> QED BY <1>2, <1>3, <1>4, <1>5, <1>6 DEF T, B, U

(* Two lists of the same events, of which as many were observed before and   *)
(* until each moment, and which differ in the order of equal events at most. *)
LEMMA SameOrder ==
  ASSUME NEW s, NEW t, NEW n \in Nat, DOMAIN s = 1..n, DOMAIN t = 1..n,
         \A i \in 1..n : s[i].at \in Int /\ t[i].at \in Int,
         \A a \in Int : /\ Cardinality(Below(s, n, a)) = Cardinality(Below(t, n, a))
                        /\ Cardinality(UpTo(s, n, a)) = Cardinality(UpTo(t, n, a)),
         \A i, j \in 1..n : s[i].at = t[j].at => s[i] = t[j] \/ i = n \/ j = n,
         \/ \A i, j \in 1..n : s[i].at = t[j].at => s[i] = t[j]
         \/ n > 0 /\ s[n] = t[n]
  PROVE  Canonical(s) = Canonical(t)
  <1> DEFINE S(i) == CHOOSE j \in 1..n : Cardinality(Through(s, n, j)) = i
             T(i) == CHOOSE j \in 1..n : Cardinality(Through(t, n, j)) = i
  <1>1. Canonical(s) = [i \in 1..n |-> s[S(i)]]
    BY DEF Canonical, Through
  <1>2. Canonical(t) = [i \in 1..n |-> t[T(i)]]
    BY DEF Canonical, Through
  <1>3. ASSUME NEW i \in 1..n PROVE s[S(i)] = t[T(i)]
    <2>1. PICK j \in 1..n : S(i) = j /\ Cardinality(Through(s, n, j)) = i
      <3>1. \A x \in 1..n : s[x].at \in Int OBVIOUS
      <3>2. \E j \in 1..n : Cardinality(Through(s, n, j)) = i BY <1>3, <3>1, PlacesInOrder
      <3>3. S(i) \in 1..n /\ Cardinality(Through(s, n, S(i))) = i BY ONLY <3>2
      <3> QED BY <3>3
    <2>2. PICK k \in 1..n : T(i) = k /\ Cardinality(Through(t, n, k)) = i
      <3>1. \A x \in 1..n : t[x].at \in Int OBVIOUS
      <3>2. \E x \in 1..n : Cardinality(Through(t, n, x)) = i BY <1>3, <3>1, PlacesInOrder
      <3>3. T(i) \in 1..n /\ Cardinality(Through(t, n, T(i))) = i BY ONLY <3>2
      <3> QED BY <3>3
    <2> HIDE DEF S, T
    <2> DEFINE A == s[j].at
               B == t[k].at
    <2>3. A \in Int /\ B \in Int OBVIOUS
    <2>4. /\ Cardinality(Below(s, n, A)) < i /\ i <= Cardinality(UpTo(s, n, A))
          /\ j = n => i = Cardinality(UpTo(s, n, A))
      BY <2>1, PlaceBetween
    <2>5. /\ Cardinality(Below(t, n, B)) < i /\ i <= Cardinality(UpTo(t, n, B))
          /\ k = n => i = Cardinality(UpTo(t, n, B))
      BY <2>2, PlaceBetween
    <2>6. ASSUME NEW a \in Int, NEW b \in Int, a < b
          PROVE  Cardinality(UpTo(s, n, a)) <= Cardinality(Below(s, n, b))
      <3>1. UpTo(s, n, a) \subseteq Below(s, n, b) /\ Below(s, n, b) \subseteq 1..n
        BY <2>6 DEF UpTo, Below
      <3>2. IsFiniteSet(Below(s, n, b)) BY <3>1, PartCounts
      <3> QED BY <3>1, <3>2, FS_Subset
    <2>7. A = B
      <3>1. \A a \in Int : /\ Cardinality(Below(s, n, a)) \in Nat /\ Cardinality(UpTo(s, n, a)) \in Nat
        <4>1. \A a \in Int : Below(s, n, a) \subseteq 1..n /\ UpTo(s, n, a) \subseteq 1..n BY DEF Below, UpTo
        <4> QED BY <4>1, PartCounts
      <3>2. ~(A < B)
        <4>1. A < B => Cardinality(UpTo(s, n, A)) <= Cardinality(Below(s, n, B)) BY <2>3, <2>6
        <4> HIDE DEF A, B
        <4>2. /\ Cardinality(Below(s, n, B)) = Cardinality(Below(t, n, B))
              /\ Cardinality(Below(s, n, B)) \in Nat /\ Cardinality(UpTo(s, n, A)) \in Nat
          BY <2>3, <3>1
        <4> QED BY ONLY i \in 1..n, n \in Nat, <4>1, <4>2, <2>4, <2>5
      <3>3. ~(B < A)
        <4>1. B < A => Cardinality(UpTo(s, n, B)) <= Cardinality(Below(s, n, A)) BY <2>3, <2>6
        <4> HIDE DEF A, B
        <4>2. /\ Cardinality(Below(s, n, A)) = Cardinality(Below(t, n, A))
              /\ Cardinality(UpTo(s, n, B)) = Cardinality(UpTo(t, n, B))
              /\ Cardinality(Below(s, n, A)) \in Nat /\ Cardinality(UpTo(s, n, B)) \in Nat
          BY <2>3, <3>1
        <4> QED BY ONLY i \in 1..n, n \in Nat, <4>1, <4>2, <2>4, <2>5
      <3> HIDE DEF A, B
      <3> QED BY <2>3, <3>2, <3>3
    <2>8. CASE \A x, y \in 1..n : s[x].at = t[y].at => s[x] = t[y]
      <3>1. s[j] = t[k] BY <2>7, <2>8
      <3> QED BY <2>1, <2>2, <3>1
    <2>9. CASE n > 0 /\ s[n] = t[n]
      <3>1. CASE j = n
        <4>1. t[n].at = B /\ n \in 1..n BY <3>1, <2>7, <2>9
        <4>2. Cardinality(Through(t, n, n)) = Cardinality(UpTo(t, n, B)) BY <4>1, PlaceBetween
        <4>3. i = Cardinality(UpTo(t, n, B)) BY <3>1, <2>3, <2>4, <2>7
        <4>4. k = n
          <5>1. \A x \in 1..n : t[x].at \in Int OBVIOUS
          <5>2. \A x, y \in 1..n : Cardinality(Through(t, n, x)) = Cardinality(Through(t, n, y)) => x = y
            BY <5>1, PlacesInOrder
          <5> QED BY <4>1, <4>2, <4>3, <2>2, <5>2
        <4> QED BY <3>1, <4>4, <2>1, <2>2, <2>9
      <3>2. CASE k = n
        <4>1. s[n].at = A /\ n \in 1..n BY <3>2, <2>7, <2>9
        <4>2. Cardinality(Through(s, n, n)) = Cardinality(UpTo(s, n, A)) BY <4>1, PlaceBetween
        <4>3. i = Cardinality(UpTo(s, n, A)) BY <3>2, <2>3, <2>5, <2>7
        <4>4. j = n
          <5>1. \A x \in 1..n : s[x].at \in Int OBVIOUS
          <5>2. \A x, y \in 1..n : Cardinality(Through(s, n, x)) = Cardinality(Through(s, n, y)) => x = y
            BY <5>1, PlacesInOrder
          <5> QED BY <4>1, <4>2, <4>3, <2>1, <5>2
        <4> QED BY <3>2, <4>4, <2>1, <2>2, <2>9
      <3>3. CASE j # n /\ k # n
        <4>1. s[j] = t[k] BY <2>7, <3>3
        <4> QED BY <2>1, <2>2, <4>1
      <3> QED BY <3>1, <3>2, <3>3
    <2> QED BY <2>8, <2>9
  <1> HIDE DEF S, T
  <1> QED BY <1>1, <1>2, <1>3

Shuffles(p, n) == p \in [1..n -> 1..n] /\ \A i \in 1..n : \E j \in 1..n : p[j] = i
Shuffled(p, n, s) == [i \in 1..n |-> s[p[i]]]
Picked(p, n, S) == {k \in 1..n : p[k] \in S}

(* A shuffle has as many events of each kind.                                *)
LEMMA ShuffleCounts ==
  ASSUME NEW n \in Nat, NEW p, Shuffles(p, n), NEW S, S \subseteq 1..n
  PROVE  Cardinality(S) = Cardinality(Picked(p, n, S))
  <1> USE DEF Shuffles, Picked
  <1> DEFINE T == Picked(p, n, S)
  <1>1. IsFiniteSet(1..n)
    <2>1. 1 \in Int /\ n \in Int OBVIOUS
    <2> QED BY <2>1, FS_Interval
  <1>2. p \in Surjection(1..n, 1..n) BY DEF Surjection
  <1>3. p \in Injection(1..n, 1..n) BY <1>1, <1>2, FS_SurjSameCardinalityImpliesInj
  <1>4. \A x, y \in 1..n : p[x] = p[y] => x = y BY <1>3 DEF Injection, IsInjective
  <1> DEFINE q == [k \in T |-> p[k]]
  <1>5. q \in [T -> S] OBVIOUS
  <1>6. q \in Injection(T, S)
    <2>1. \A x, y \in T : q[x] = q[y] => x = y BY <1>4
    <2> QED BY <1>5, <2>1 DEF Injection, IsInjective
  <1>7. q \in Surjection(T, S)
    <2>1. ASSUME NEW x \in S PROVE \E y \in T : q[y] = x
      <3>1. PICK j \in 1..n : p[j] = x BY <2>1
      <3>2. j \in T BY <3>1, <2>1
      <3> QED BY <3>1, <3>2
    <2> QED BY <1>5, <2>1 DEF Surjection
  <1>8. ExistsBijection(T, S) BY <1>6, <1>7 DEF ExistsBijection, Bijection
  <1>9. IsFiniteSet(T) BY <1>1, FS_Subset
  <1> QED BY <1>8, <1>9, FS_Bijection

(* Neither the events of a list nor those of one that ends with an event     *)
(* that may be of any moment are put in another order by a shuffle.          *)
LEMMA ShuffleInOrder ==
  ASSUME NEW n \in Nat, NEW p, Shuffles(p, n),
         NEW s, DOMAIN s = 1..n,
         \A i \in 1..n : s[i].at \in Int,
         \/ \A i, j \in 1..n : s[i].at = s[j].at => s[i] = s[j]
         \/ /\ n > 0 /\ p[n] = n
            /\ \A i, j \in 1..n : i # n /\ j # n /\ s[i].at = s[j].at => s[i] = s[j]
  PROVE  Canonical(s) = Canonical(Shuffled(p, n, s))
  <1> DEFINE t == Shuffled(p, n, s)
  <1> SUFFICES Canonical(s) = Canonical(t) OBVIOUS
  <1>0. ASSUME NEW S, S \subseteq 1..n
        PROVE  Cardinality(S) = Cardinality(Picked(p, n, S))
    BY <1>0, ShuffleCounts
  <1>1. \A i \in 1..n : t[i] = s[p[i]] /\ p[i] \in 1..n BY DEF Shuffles, Shuffled
  <1>2. DOMAIN t = 1..n /\ \A i \in 1..n : s[i].at \in Int /\ t[i].at \in Int BY <1>1 DEF Shuffled
  <1> HIDE DEF t
  <1>3. ASSUME NEW a \in Int
        PROVE  /\ Cardinality(Below(s, n, a)) = Cardinality(Below(t, n, a))
               /\ Cardinality(UpTo(s, n, a)) = Cardinality(UpTo(t, n, a))
    <2>1. /\ Below(s, n, a) \subseteq 1..n
          /\ Below(t, n, a) = Picked(p, n, Below(s, n, a))
      BY <1>1 DEF Below, Picked
    <2>2. /\ UpTo(s, n, a) \subseteq 1..n
          /\ UpTo(t, n, a) = Picked(p, n, UpTo(s, n, a))
      BY <1>1 DEF UpTo, Picked
    <2> QED BY <2>1, <2>2, <1>0
  <1>4. CASE \A i, j \in 1..n : s[i].at = s[j].at => s[i] = s[j]
    <2>1. \A i, j \in 1..n : s[i].at = t[j].at => s[i] = t[j] BY <1>1, <1>4
    <2>2. \A i, j \in 1..n : s[i].at = t[j].at => s[i] = t[j] \/ i = n \/ j = n BY <2>1
    <2>3. \A a \in Int : /\ Cardinality(Below(s, n, a)) = Cardinality(Below(t, n, a))
                         /\ Cardinality(UpTo(s, n, a)) = Cardinality(UpTo(t, n, a)) BY <1>3
    <2> QED BY ONLY n \in Nat, DOMAIN s = 1..n, <1>2, <2>1, <2>2, <2>3, SameOrder
  <1>5. CASE /\ n > 0 /\ p[n] = n
             /\ \A i, j \in 1..n : i # n /\ j # n /\ s[i].at = s[j].at => s[i] = s[j]
    <2>1. \A j \in 1..n : p[j] = n => j = n
      <3>1. ASSUME NEW j \in 1..n, p[j] = n, j # n PROVE FALSE
        <4>1. {n} \subseteq 1..n BY <1>5
        <4>2. Cardinality({n}) = Cardinality(Picked(p, n, {n})) BY <4>1, <1>0
        <4>3. {j, n} \subseteq Picked(p, n, {n}) BY <3>1, <1>5 DEF Picked
        <4>4. IsFiniteSet(Picked(p, n, {n})) BY PartCounts DEF Picked
        <4>5. IsFiniteSet({n}) /\ Cardinality({n}) = 1 BY FS_Singleton
        <4>6. Cardinality({j, n}) = 2
          <5>1. j \notin {n} BY <3>1
          <5>2. Cardinality({n} \cup {j}) = Cardinality({n}) + 1 BY <4>5, <5>1, FS_AddElement
          <5>3. {n} \cup {j} = {j, n} OBVIOUS
          <5>4. Cardinality({j, n}) = Cardinality({n}) + 1 BY ONLY <5>2, <5>3
          <5> QED BY ONLY <4>5, <5>4
        <4>7. Cardinality({j, n}) <= Cardinality(Picked(p, n, {n})) BY <4>3, <4>4, FS_Subset
        <4> QED BY <4>2, <4>5, <4>6, <4>7
      <3> QED BY <3>1
    <2>2. \A i, j \in 1..n : s[i].at = t[j].at => s[i] = t[j] \/ i = n \/ j = n BY <1>1, <1>5, <2>1
    <2>3. n > 0 /\ s[n] = t[n] BY <1>1, <1>5
    <2> QED BY <1>2, <1>3, <2>2, <2>3, SameOrder
  <1> QED BY <1>4, <1>5

(* ---- what an assessment takes from its window ---------------------------- *)
LEMMA KeepsItsField ==
  ASSUME NEW e, NEW f \in {"at", "source"}, f \in DOMAIN e, NEW segments
  PROVE  Hinted(Enriched(e, segments))[f] = e[f]
  <1> DEFINE d == Enriched(e, segments)
  <1>1. f \in DOMAIN d /\ d[f] = e[f]
    <2>1. f # "flags" OBVIOUS
    <2>2. \A x : LET g == [e EXCEPT !.flags = x] IN f \in DOMAIN g /\ g[f] = e[f] BY <2>1
    <2> QED BY <2>2 DEF Enriched
  <1> HIDE DEF d
  <1>2. Hinted(d)[f] = d[f]
    <2>1. f # "type" OBVIOUS
    <2>2. \A x : [d EXCEPT !.type = x][f] = d[f] BY <1>1, <2>1
    <2> QED BY <2>2 DEF Hinted
  <1> QED BY <1>1, <1>2 DEF d

LEMMA ReadingAsAssessed ==
  ASSUME NEW e \in Readings
  PROVE  LET event == Hinted(Enriched(e, Context.segments))
         IN event.at \in Int /\ event.source = e.source /\ Context.trust[event.source] \in Int
  <1> DEFINE event == Hinted(Enriched(e, Context.segments))
  <1>1. "at" \in DOMAIN e /\ "source" \in DOMAIN e /\ e.at \in Int /\ Context.trust[e.source] \in Int
    BY RiskStreamAssumption
  <1>2. event["at"] = e["at"] /\ event["source"] = e["source"] BY <1>1, KeepsItsField
  <1> HIDE DEF event
  <1> QED BY <1>1, <1>2 DEF event

LEMMA QualityOfOrder ==
  ASSUME NEW a, NEW b, NEW source, NEW ctx, Canonical(a) = Canonical(b)
  PROVE  FullPipeline(a, source, ctx) = FullPipeline(b, source, ctx)
  <1>1. SequenceGaps(a, ctx) = SequenceGaps(b, ctx)
    <2> DEFINE G(seq) ==
          LET delta == [i \in 1..Len(seq) - 1 |-> seq[i + 1].at - seq[i].at]
              wide == {i \in DOMAIN delta : delta[i] > ctx.maxGap}
              penalty == [i \in wide |-> Least({2000, ((delta[i] - ctx.maxGap) * 500) \div ctx.maxGap})]
          IN Snapshot(Greatest({0, Full - Total(penalty)}), IF wide = {} THEN {} ELSE {"telemetry_gap"})
    <2>1. SequenceGaps(a, ctx) = G(Canonical(a)) BY DEF SequenceGaps
    <2>2. SequenceGaps(b, ctx) = G(Canonical(b)) BY DEF SequenceGaps
    <2> HIDE DEF G
    <2> QED BY <2>1, <2>2
  <1>2. StaleTelemetry(a, ctx) = StaleTelemetry(b, ctx)
    <2> DEFINE sig(e) == <<e.value, e.op, e.size>>
               G(seq) ==
          LET frozen == {i \in 1..Len(seq) - 1 : /\ seq[i + 1].at - seq[i].at >= ctx.staleWindow
                                                 /\ sig(seq[i + 1]) = sig(seq[i])}
          IN Snapshot(Clamp(Full - 1500 * Cardinality(frozen)), IF frozen = {} THEN {} ELSE {"stale_data"})
    <2>1. StaleTelemetry(a, ctx) = G(Canonical(a)) BY DEF StaleTelemetry
    <2>2. StaleTelemetry(b, ctx) = G(Canonical(b)) BY DEF StaleTelemetry
    <2> HIDE DEF G
    <2> QED BY <2>1, <2>2
  <1> DEFINE P(x, y) == LET all == {x, y, SourceReputation(source, ctx)}
                        IN Snapshot(Least({s.score : s \in all}), UNION {s.reasons : s \in all})
  <1>3. FullPipeline(a, source, ctx) = P(SequenceGaps(a, ctx), StaleTelemetry(a, ctx)) BY DEF FullPipeline
  <1>4. FullPipeline(b, source, ctx) = P(SequenceGaps(b, ctx), StaleTelemetry(b, ctx)) BY DEF FullPipeline
  <1> HIDE DEF P
  <1> QED BY <1>1, <1>2, <1>3, <1>4

LEMMA HitsOfOrder ==
  ASSUME NEW event, NEW a, NEW b, NEW ctx, Canonical(a) = Canonical(b)
  PROVE  Hits(event, a, ctx) = Hits(event, b, ctx)
  <1>1. \A r : Fires(r, event, a, ctx) <=> Fires(r, event, b, ctx) BY Zenon DEF Fires
  <1>2. Firing(event, a, ctx) = Firing(event, b, ctx) BY <1>1, Zenon DEF Firing
  <1> DEFINE G(firing) ==
        LET chaos == PollingChaos(ctx.polling)
            first == IF chaos.jitter /\ ~chaos.doubling THEN <<"polling_jitter">> ELSE <<>>
        IN OutOfLab(first \o InOrder(firing \ Range(first)), ctx.lab)
  <1>3. Hits(event, a, ctx) = G(Firing(event, a, ctx)) BY DEF Hits
  <1>4. Hits(event, b, ctx) = G(Firing(event, b, ctx)) BY DEF Hits
  <1> HIDE DEF G
  <1> QED BY <1>2, <1>3, <1>4

LEMMA AssessOfOrder ==
  ASSUME NEW arrived, NEW a, NEW b, NEW ctx, Canonical(a) = Canonical(b),
         NEW event, event = Hinted(Enriched(arrived, ctx.segments)),
         Canonical(Append(a, event)) = Canonical(Append(b, event))
  PROVE  Assess(arrived, a, ctx) = Assess(arrived, b, ctx)
  <1> DEFINE G(quality, hits) == Judgement(event, hits, quality, ctx)
  <1>1. FullPipeline(Append(a, event), event.source, ctx) = FullPipeline(Append(b, event), event.source, ctx)
    BY QualityOfOrder
  <1>2. Hits(event, a, ctx) = Hits(event, b, ctx) BY HitsOfOrder
  <1>3. Assess(arrived, a, ctx) = G(FullPipeline(Append(a, event), event.source, ctx), Hits(event, a, ctx))
    BY DEF Assess
  <1>4. Assess(arrived, b, ctx) = G(FullPipeline(Append(b, event), event.source, ctx), Hits(event, b, ctx))
    BY DEF Assess
  <1> HIDE DEF G
  <1> QED BY <1>1, <1>2, <1>3, <1>4

(* ---- totals -------------------------------------------------------------- *)
Drawn(s) == CHOOSE x \in s : TRUE

Sums(g, f, S) == \A s \in SUBSET S : g[s] = IF s = {} THEN 0 ELSE f[Drawn(s)] + g[s \ {Drawn(s)}]

LEMMA TotalRuns ==
  ASSUME NEW S, IsFiniteSet(S), NEW f, DOMAIN f = S
  PROVE  \E g : Total(f) = g[S] /\ Sums(g, f, S)
  <1> DEFINE Step(g, s) == IF s = {} THEN 0
                           ELSE f[Drawn(s)] + g[s \ {Drawn(s)}]
             iter == CHOOSE g : g = [s \in SUBSET S |-> Step(g, s)]
             Small(n) == {s \in SUBSET S : Cardinality(s) <= n}
             Runs(g, n) == g = [s \in Small(n) |-> Step(g, s)]
             Known == {n \in Nat : \E g : Runs(g, n)}
  <1>1. Total(f) = iter[S]
    BY DEF Total, FoldFunction, FoldFunctionOnSet, MapThenFoldSet, Drawn
  <1>2. \A s \in SUBSET S : IsFiniteSet(s) /\ Cardinality(s) \in Nat BY FS_Subset, FS_CardinalityType
  <1>3. \A s \in SUBSET S : s # {} =>
          /\ Drawn(s) \in s /\ s \ {Drawn(s)} \in SUBSET S
          /\ Cardinality(s \ {Drawn(s)}) = Cardinality(s) - 1
    BY <1>2, FS_RemoveElement DEF Drawn
  <1>4. \A s \in SUBSET S : Cardinality(s) = 0 <=> s = {} BY <1>2, FS_EmptySet
  <1>5. 0 \in Known
    <2> DEFINE g0 == [s \in Small(0) |-> 0]
    <2>1. \A s \in Small(0) : s = {} BY <1>2, <1>4
    <2>2. Runs(g0, 0) BY <2>1
    <2> QED BY <2>2
  <1>6. ASSUME NEW n \in Nat, n \in Known PROVE n + 1 \in Known
    <2>1. PICK g : Runs(g, n) BY <1>6
    <2> DEFINE h == [s \in Small(n + 1) |-> Step(g, s)]
    <2>2. \A s \in Small(n + 1) : s # {} => s \ {Drawn(s)} \in Small(n) BY <1>2, <1>3
    <2>3. \A s \in Small(n) : s \in Small(n + 1) BY <1>2
    <2>4. \A s \in Small(n) : h[s] = g[s] BY <2>1, <2>3
    <2> HIDE DEF h, Small
    <2>5. \A s \in Small(n + 1) : Step(h, s) = Step(g, s) BY <2>2, <2>4
    <2> USE DEF h
    <2>6. Runs(h, n + 1)
      <3> HIDE DEF Step, Small
      <3> QED BY <2>5
    <2> HIDE DEF Runs
    <2> QED BY <2>6
  <1>7. Cardinality(S) \in Known
    <2> HIDE DEF Known
    <2> QED BY <1>2, <1>5, <1>6, Induction
  <1>8. Small(Cardinality(S)) = SUBSET S BY <1>2, FS_Subset
  <1>9. \E g : g = [s \in SUBSET S |-> Step(g, s)]
    <2>1. PICK g : Runs(g, Cardinality(S)) BY <1>7
    <2> HIDE DEF Step, Small
    <2> QED BY <2>1, <1>8
  <1>10. iter = [s \in SUBSET S |-> Step(iter, s)]
    <2> HIDE DEF Step
    <2> QED BY <1>9, Zenon
  <1> HIDE DEF iter
  <1>11. \A s \in SUBSET S : iter[s] = Step(iter, s)
    <2> HIDE DEF Step
    <2> QED BY <1>10
  <1> QED BY <1>1, <1>11 DEF Sums

(* A total of numbers of a set that is closed under addition is one of them. *)
LEMMA TotalIsIn ==
  ASSUME NEW S, IsFiniteSet(S), NEW V, 0 \in V, \A x, y \in V : x + y \in V, NEW f \in [S -> V]
  PROVE  Total(f) \in V
  <1>0. DOMAIN f = S OBVIOUS
  <1>1. PICK g : Total(f) = g[S] /\ Sums(g, f, S) BY <1>0, TotalRuns
  <1> DEFINE Summed == {n \in Nat : \A s \in SUBSET S : Cardinality(s) = n => g[s] \in V}
  <1>2. \A s \in SUBSET S : IsFiniteSet(s) /\ Cardinality(s) \in Nat BY FS_Subset, FS_CardinalityType
  <1>3. 0 \in Summed
    <2>1. \A s \in SUBSET S : Cardinality(s) = 0 => s = {} BY <1>2, FS_EmptySet
    <2> QED BY <1>1, <2>1 DEF Sums
  <1>4. ASSUME NEW n \in Nat, n \in Summed PROVE n + 1 \in Summed
    <2>1. ASSUME NEW s \in SUBSET S, Cardinality(s) = n + 1 PROVE g[s] \in V
      <3>1. s # {} BY <2>1, <1>2, FS_EmptySet
      <3> DEFINE x == Drawn(s)
      <3>2. x \in s BY <3>1 DEF Drawn
      <3>3. g[s] = f[x] + g[s \ {x}] BY <1>1, <3>1 DEF Sums
      <3> HIDE DEF x
      <3>4. Cardinality(s \ {x}) = n BY <2>1, <1>2, <3>2, FS_RemoveElement
      <3>5. g[s \ {x}] \in V BY <1>4, <3>4
      <3>6. f[x] \in V BY <3>2
      <3> QED BY <3>3, <3>5, <3>6
    <2> QED BY <2>1
  <1>5. Cardinality(S) \in Summed
    <2> HIDE DEF Summed
    <2> QED BY <1>2, <1>3, <1>4, Induction
  <1> QED BY <1>1, <1>5

(* ---- shares -------------------------------------------------------------- *)
LEMMA ExtremesLie ==
  ASSUME NEW S, IsFiniteSet(S), S # {}, NEW a \in Int, NEW b \in Int, S \subseteq a..b
  PROVE  Greatest(S) \in S /\ Least(S) \in S /\ Greatest(S) \in a..b /\ Least(S) \in a..b
  <1>1. S \subseteq Int OBVIOUS
  <1>2. \E x \in S : \A y \in S : y <= x BY <1>1, HasLargest
  <1>3. Greatest(S) \in S BY ONLY <1>2 DEF Greatest
  <1> DEFINE T == {x - a : x \in S}
  <1>4. T \subseteq Nat /\ T # {}
    <2>1. \A x \in S : x \in Int /\ a <= x OBVIOUS
    <2>2. \A x \in S : x - a \in Nat BY <2>1
    <2> QED BY <2>2
  <1>5. PICK m \in T : \A k \in T : m <= k
    <2> HIDE DEF T
    <2> QED BY <1>4, LeastOf
  <1>6. PICK x \in S : m = x - a BY <1>5
  <1>7. ASSUME NEW y \in S PROVE x <= y
    <2>1. y - a \in T OBVIOUS
    <2>2. x \in Int /\ y \in Int BY <1>1
    <2> HIDE DEF T
    <2>3. m <= y - a BY <1>5, <2>1
    <2> QED BY <2>2, <2>3, <1>6
  <1>8. Least(S) \in S
    <2>1. \E u \in S : \A y \in S : u <= y BY <1>7
    <2> QED BY ONLY <2>1 DEF Least
  <1> QED BY <1>3, <1>8

LEMMA TwoBetween ==
  ASSUME NEW a \in Int, NEW b \in Int
  PROVE  /\ Greatest({a, b}) \in Int /\ Greatest({a, b}) \in {a, b} /\ Greatest({a, b}) >= a /\ Greatest({a, b}) >= b
         /\ Least({a, b}) \in Int /\ Least({a, b}) \in {a, b} /\ Least({a, b}) <= a /\ Least({a, b}) <= b
  <1>1. \E x \in {a, b} : \A y \in {a, b} : y <= x OBVIOUS
  <1>2. \E x \in {a, b} : \A y \in {a, b} : x <= y OBVIOUS
  <1>3. Greatest({a, b}) \in {a, b} /\ \A y \in {a, b} : y <= Greatest({a, b}) BY ONLY <1>1 DEF Greatest
  <1>4. Least({a, b}) \in {a, b} /\ \A y \in {a, b} : Least({a, b}) <= y BY ONLY <1>2 DEF Least
  <1> QED BY <1>3, <1>4

LEMMA Clamped ==
  ASSUME NEW x \in Int
  PROVE  Clamp(x) \in 0..Full
  <1> DEFINE low == Least({Full, x})
  <1>1. low \in Int /\ low <= Full BY TwoBetween DEF Full
  <1> HIDE DEF low
  <1>2. Greatest({0, low}) \in {0, low} /\ Greatest({0, low}) >= 0 BY <1>1, TwoBetween
  <1>3. Clamp(x) = Greatest({0, low}) BY DEF Clamp, low
  <1>4. Full \in Int /\ 0 <= Full BY DEF Full
  <1> QED BY <1>1, <1>2, <1>3, <1>4

LEMMA Quotient ==
  ASSUME NEW x \in Int, NEW d \in Nat \ {0}
  PROVE  x \div d \in Int /\ (x >= 0 => x \div d >= 0)
  OBVIOUS

LEMMA OneOf ==
  ASSUME NEW a, NEW b, NEW c, NEW d, NEW e
  PROVE  /\ IsFiniteSet({a, b, c}) /\ IsFiniteSet({a, b, c, d}) /\ IsFiniteSet({a, b, c, d, e})
  <1>1. IsFiniteSet({a}) BY FS_Singleton
  <1>2. IsFiniteSet({a} \cup {b}) BY <1>1, FS_AddElement
  <1>3. IsFiniteSet(({a} \cup {b}) \cup {c}) BY <1>2, FS_AddElement
  <1>4. IsFiniteSet((({a} \cup {b}) \cup {c}) \cup {d}) BY <1>3, FS_AddElement
  <1>5. IsFiniteSet(((({a} \cup {b}) \cup {c}) \cup {d}) \cup {e}) BY <1>4, FS_AddElement
  <1>6. /\ ({a} \cup {b}) \cup {c} = {a, b, c} /\ (({a} \cup {b}) \cup {c}) \cup {d} = {a, b, c, d}
        /\ ((({a} \cup {b}) \cup {c}) \cup {d}) \cup {e} = {a, b, c, d, e}
    OBVIOUS
  <1> QED BY <1>3, <1>4, <1>5, <1>6

(* ---- every score and vector is a share ----------------------------------- *)
Dated(s, n) == DOMAIN s = 1..n /\ \A i \in 1..n : s[i].at \in Int

LEMMA CanonicalHolds ==
  ASSUME NEW n \in Nat, NEW s, Dated(s, n)
  PROVE  /\ Dated(Canonical(s), n) /\ Len(Canonical(s)) = n
  <1> DEFINE S(i) == CHOOSE j \in 1..n : Cardinality(Through(s, n, j)) = i
  <1>1. Canonical(s) = [i \in 1..n |-> s[S(i)]] BY DEF Canonical, Through, Dated
  <1>2. ASSUME NEW i \in 1..n PROVE S(i) \in 1..n
    <2>1. \A x \in 1..n : s[x].at \in Int BY DEF Dated
    <2>2. \E j \in 1..n : Cardinality(Through(s, n, j)) = i BY <2>1, PlacesInOrder
    <2> QED BY ONLY <2>2
  <1> HIDE DEF S
  <1>3. DOMAIN Canonical(s) = 1..n /\ \A i \in 1..n : Canonical(s)[i] = s[S(i)] BY <1>1
  <1>4. Canonical(s) \in Seq({s[j] : j \in 1..n}) /\ Len(Canonical(s)) = n
    <2>1. [i \in 1..n |-> s[S(i)]] \in [1..n -> {s[j] : j \in 1..n}] BY <1>2
    <2> QED BY <1>1, <2>1
  <1> QED BY <1>2, <1>3, <1>4 DEF Dated

LEMMA GapScore ==
  ASSUME NEW n \in Nat, NEW s, Dated(s, n), NEW ctx, ctx.maxGap \in Nat \ {0}
  PROVE  SequenceGaps(s, ctx).score \in 0..Full
  <1> DEFINE seq == Canonical(s)
             delta == [i \in 1..Len(seq) - 1 |-> seq[i + 1].at - seq[i].at]
             wide == {i \in DOMAIN delta : delta[i] > ctx.maxGap}
             penalty == [i \in wide |-> Least({2000, ((delta[i] - ctx.maxGap) * 500) \div ctx.maxGap})]
  <1>1. Dated(seq, n) /\ Len(seq) = n BY CanonicalHolds
  <1>2. SequenceGaps(s, ctx).score = Greatest({0, Full - Total(penalty)})
    <2>1. SequenceGaps(s, ctx) = Snapshot(Greatest({0, Full - Total(penalty)}),
                                          IF wide = {} THEN {} ELSE {"telemetry_gap"})
      BY DEF SequenceGaps
    <2> HIDE DEF wide, penalty
    <2> QED BY <2>1 DEF Snapshot
  <1>3. \A i \in wide : delta[i] \in Int /\ delta[i] > ctx.maxGap
    <2>1. \A i \in 1..(n - 1) : i \in 1..n /\ i + 1 \in 1..n BY <1>1
    <2> HIDE DEF seq
    <2> QED BY <1>1, <2>1 DEF Dated
  <1>4. IsFiniteSet(wide)
    <2>1. 1 \in Int /\ n - 1 \in Int OBVIOUS
    <2>2. IsFiniteSet(1..(n - 1)) BY <2>1, FS_Interval
    <2>3. wide \subseteq 1..(n - 1)
      <3> HIDE DEF seq
      <3> QED BY <1>1
    <2> QED BY <2>2, <2>3, FS_Subset
  <1> HIDE DEF seq, delta, wide
  <1>5. ASSUME NEW i \in wide PROVE penalty[i] \in Nat
    <2> DEFINE x == (delta[i] - ctx.maxGap) * 500
    <2>1. x \in Int /\ x >= 0 BY <1>3
    <2> HIDE DEF x
    <2>2. x \div ctx.maxGap \in Int /\ x \div ctx.maxGap >= 0 BY <2>1, Quotient
    <2> DEFINE y == x \div ctx.maxGap
    <2>3. y \in Int /\ y >= 0 BY <2>2
    <2> HIDE DEF y
    <2>4. Least({2000, y}) \in Int /\ Least({2000, y}) \in {2000, y}
      <3>1. PICK c \in Int : c = 2000 OBVIOUS
      <3>2. Least({c, y}) \in Int /\ Least({c, y}) \in {c, y} BY <2>3, TwoBetween
      <3> QED BY <3>1, <3>2
    <2>5. Least({2000, y}) \in Nat BY <2>3, <2>4
    <2>6. penalty[i] = Least({2000, y}) BY DEF x, y
    <2> QED BY <2>5, <2>6
  <1>6. penalty \in [wide -> Nat] BY <1>5
  <1> HIDE DEF penalty
  <1>7. Total(penalty) \in Nat
    <2>1. 0 \in Nat /\ \A x, y \in Nat : x + y \in Nat OBVIOUS
    <2> QED BY <1>4, <1>6, <2>1, TotalIsIn
  <1> DEFINE left == Full - Total(penalty)
  <1>8. left \in Int /\ left <= Full /\ Full \in Int /\ 0 <= Full BY <1>7 DEF Full
  <1> HIDE DEF left
  <1>9. Greatest({0, left}) \in {0, left} /\ Greatest({0, left}) >= 0 BY <1>8, TwoBetween
  <1>10. SequenceGaps(s, ctx).score = Greatest({0, left}) BY <1>2 DEF left
  <1> QED BY <1>8, <1>9, <1>10

LEMMA StaleScore ==
  ASSUME NEW n \in Nat, NEW s, Dated(s, n), NEW ctx
  PROVE  StaleTelemetry(s, ctx).score \in 0..Full
  <1> DEFINE seq == Canonical(s)
             sig(e) == <<e.value, e.op, e.size>>
             frozen == {i \in 1..Len(seq) - 1 : /\ seq[i + 1].at - seq[i].at >= ctx.staleWindow
                                                /\ sig(seq[i + 1]) = sig(seq[i])}
  <1>1. Len(seq) = n BY CanonicalHolds
  <1>2. StaleTelemetry(s, ctx).score = Clamp(Full - 1500 * Cardinality(frozen))
    <2>1. StaleTelemetry(s, ctx) = Snapshot(Clamp(Full - 1500 * Cardinality(frozen)),
                                            IF frozen = {} THEN {} ELSE {"stale_data"})
      BY DEF StaleTelemetry
    <2> HIDE DEF frozen
    <2> QED BY <2>1 DEF Snapshot
  <1>3. frozen \subseteq 1..(n - 1)
    <2> HIDE DEF seq
    <2> QED BY <1>1
  <1> HIDE DEF frozen
  <1>4. Cardinality(frozen) \in Nat
    <2>1. 1 \in Int /\ n - 1 \in Int OBVIOUS
    <2>2. IsFiniteSet(1..(n - 1)) BY <2>1, FS_Interval
    <2> QED BY <2>2, <1>3, FS_Subset, FS_CardinalityType
  <1>5. Full - 1500 * Cardinality(frozen) \in Int BY <1>4 DEF Full
  <1> QED BY <1>2, <1>5, Clamped

LEMMA PipelineScore ==
  ASSUME NEW n \in Nat, NEW s, Dated(s, n), NEW ctx, ctx.maxGap \in Nat \ {0},
         NEW source, ctx.trust[source] \in Int
  PROVE  FullPipeline(s, source, ctx).score \in 0..Full
  <1> DEFINE a == SequenceGaps(s, ctx)
             b == StaleTelemetry(s, ctx)
             c == SourceReputation(source, ctx)
             scores == {a.score, b.score, c.score}
  <1>1. a.score \in 0..Full /\ b.score \in 0..Full BY GapScore, StaleScore
  <1>2. c.score \in 0..Full
    <2>1. c.score = Clamp(ctx.trust[source]) BY DEF SourceReputation, Snapshot
    <2> QED BY <2>1, Clamped
  <1> HIDE DEF a, b, c
  <1>3. FullPipeline(s, source, ctx).score = Least(scores)
    <2>1. {x.score : x \in {a, b, c}} = scores OBVIOUS
    <2>2. FullPipeline(s, source, ctx)
          = Snapshot(Least({x.score : x \in {a, b, c}}), UNION {x.reasons : x \in {a, b, c}})
      BY DEF FullPipeline, a, b, c
    <2>3. \A x, y : Snapshot(x, y).score = x BY DEF Snapshot
    <2> QED BY <2>1, <2>2, <2>3
  <1>4. Least(scores) \in scores
    <2>1. IsFiniteSet(scores) BY OneOf
    <2>2. scores # {} /\ scores \subseteq 0..Full BY <1>1, <1>2
    <2>3. 0 \in Int /\ Full \in Int BY DEF Full
    <2> HIDE DEF scores
    <2> QED BY <2>1, <2>2, <2>3, ExtremesLie
  <1> QED BY <1>1, <1>2, <1>3, <1>4

Dimensions == {"rhythm", "graph", "context", "user", "data_quality"}

LEMMA GreatestShare ==
  ASSUME NEW S, IsFiniteSet(S), S # {}, S \subseteq 0..Full
  PROVE  Greatest(S) \in 0..Full
  <1>1. 0 \in Int /\ Full \in Int BY DEF Full
  <1> QED BY <1>1, ExtremesLie

LEMMA VectorsAreShares ==
  ASSUME NEW hits, NEW rhythm \in 0..Full, NEW context \in 0..Full, NEW quality \in 0..Full
  PROVE  RiskVectors(hits, rhythm, context, quality) \in [Dimensions -> 0..Full]
  <1> DEFINE v == RiskVectors(hits, rhythm, context, quality)
  <1>4. v.rhythm \in 0..Full
    <2> DEFINE a == Boost(hits, {"illegal_function_code", "payload_length_drift", "polling_jitter",
                                 "polling_period_doubling_suspect", "c2_external_dns",
                                 "reconnaissance", "brute_force"}, 5500)
               b == Boost(hits, {"physical_invariant_breach", "cyclic_service_crash", "conflict_logic"}, 6500)
               c == Boost(hits, {"request_reply_dissonance"}, 6000)
    <2>1. a \in 0..Full /\ b \in 0..Full /\ c \in 0..Full BY DEF Boost, Full
    <2>2. v.rhythm = Greatest({rhythm, a, b, c}) BY DEF RiskVectors
    <2> HIDE DEF a, b, c, v
    <2> DEFINE S == {rhythm, a, b, c}
    <2>5. IsFiniteSet(S) BY OneOf
    <2>6. S # {} /\ S \subseteq 0..Full BY <2>1
    <2>7. v.rhythm = Greatest(S) BY <2>2
    <2> HIDE DEF S
    <2> QED BY <2>5, <2>6, <2>7, GreatestShare
  <1>5. v.graph \in 0..Full
    <2> DEFINE a == Boost(hits, {"jump_server_bypass"}, 8000)
               b == Boost(hits, {"log_wiping", "runtime_config_change", "c2_external_dns"}, 9000)
               c == Boost(hits, {"new_node_airgap", "reconnaissance", "lateral_movement"}, 7000)
    <2>1. a \in 0..Full /\ b \in 0..Full /\ c \in 0..Full BY DEF Boost, Full
    <2>2. v.graph = Greatest({1000, a, b, c}) BY DEF RiskVectors
    <2>3. PICK l \in 0..Full : l = 1000 BY DEF Full
    <2> HIDE DEF a, b, c, v
    <2> DEFINE S == {l, a, b, c}
    <2>5. IsFiniteSet(S) BY OneOf
    <2>6. S # {} /\ S \subseteq 0..Full BY <2>1, <2>3
    <2>7. v.graph = Greatest(S) BY <2>2, <2>3
    <2> HIDE DEF S
    <2> QED BY <2>5, <2>6, <2>7, GreatestShare
  <1>6. v.context \in 0..Full
    <2> DEFINE a == Boost(hits, {"expert_dissonance", "out_of_shift_access", "context_dissonance"}, 6000)
    <2>1. a \in 0..Full BY DEF Boost, Full
    <2>2. v.context = Greatest({context, a}) BY DEF RiskVectors
    <2> HIDE DEF a, v
    <2> DEFINE S == {context, a, a}
    <2>3. IsFiniteSet(S) BY OneOf
    <2>4. S # {} /\ S \subseteq 0..Full /\ v.context = Greatest(S)
      <3>1. {context, a} = S OBVIOUS
      <3> HIDE DEF S
      <3> QED BY <2>1, <2>2, <3>1
    <2> HIDE DEF S
    <2> QED BY <2>3, <2>4, GreatestShare
  <1>7. v.user \in 0..Full
    <2> DEFINE a == Boost(hits, {"out_of_shift_access"}, 7000)
               b == Boost(hits, {"brute_force", "protocol_escalation", "blind_command",
                                 "untrusted_ip_admin"}, 7500)
               c == Boost(hits, {"trust_index_drop"}, 5500)
    <2>1. a \in 0..Full /\ b \in 0..Full /\ c \in 0..Full BY DEF Boost, Full
    <2>2. v.user = Greatest({1000, a, b, c}) BY DEF RiskVectors
    <2>3. PICK l \in 0..Full : l = 1000 BY DEF Full
    <2> HIDE DEF a, b, c, v
    <2> DEFINE S == {l, a, b, c}
    <2>5. IsFiniteSet(S) BY OneOf
    <2>6. S # {} /\ S \subseteq 0..Full BY <2>1, <2>3
    <2>7. v.user = Greatest(S) BY <2>2, <2>3
    <2> HIDE DEF S
    <2> QED BY <2>5, <2>6, <2>7, GreatestShare
  <1>8. v.data_quality \in 0..Full BY DEF RiskVectors
  <1>9. DOMAIN v = Dimensions /\ v = [d \in DOMAIN v |-> v[d]] BY DEF RiskVectors, Dimensions
  <1> HIDE DEF v
  <1>10. \A d \in Dimensions : v[d] \in 0..Full BY <1>4, <1>5, <1>6, <1>7, <1>8 DEF Dimensions
  <1> QED BY <1>9, <1>10 DEF v

LEMMA ToleratedAreShares ==
  ASSUME NEW v \in [Dimensions -> 0..Full], NEW expected
  PROVE  Tolerated(v, expected) \in [Dimensions -> 0..Full]
  <1>1. \A x, c \in 0..Full : Least({x, c}) \in 0..Full
    <2>1. ASSUME NEW x \in 0..Full, NEW c \in 0..Full PROVE Least({x, c}) \in 0..Full
      <3>1. x \in Int /\ c \in Int BY DEF Full
      <3>2. Least({x, c}) \in {x, c} BY <3>1, TwoBetween
      <3> QED BY <3>2
    <2> QED BY <2>1
  <1>2. v.user \in 0..Full /\ v.context \in 0..Full BY DEF Dimensions
  <1>3. Least({v.user, 800}) \in 0..Full /\ Least({v.context, 1200}) \in 0..Full
    <2>1. PICK c \in 0..Full : c = 800 BY DEF Full
    <2>2. PICK d \in 0..Full : d = 1200 BY DEF Full
    <2>3. Least({v.user, c}) \in 0..Full /\ Least({v.context, d}) \in 0..Full BY <1>1, <1>2
    <2> QED BY <2>1, <2>2, <2>3
  <1> DEFINE u == Least({v.user, 800})
             c == Least({v.context, 1200})
  <1>4. u \in 0..Full /\ c \in 0..Full BY <1>3
  <1>5. Tolerated(v, expected) = IF expected THEN [v EXCEPT !.user = u, !.context = c] ELSE v
    BY DEF Tolerated
  <1> HIDE DEF u, c
  <1>6. [v EXCEPT !.user = u, !.context = c] \in [Dimensions -> 0..Full] BY <1>4
  <1> QED BY <1>5, <1>6

LEMMA ScoreIsShare ==
  ASSUME NEW v \in [Dimensions -> 0..Full], NEW ctx, ctx.weights \in [Dimensions -> Int],
         ctx.entropyCap \in Int, ctx.eps \in Nat, ctx.epsCap \in Int
  PROVE  CombineRisk(v, ctx).score \in 0..Full
  <1>1. IsFiniteSet(Dimensions) BY OneOf DEF Dimensions
  <1>2. 0 \in Int /\ \A x, y \in Int : x + y \in Int OBVIOUS
  <1>3. \A d \in Dimensions : v[d] \in Int
    <2>1. \A x \in 0..Full : x \in Int BY DEF Full
    <2> QED BY <2>1
  <1> DEFINE parts == [d \in DOMAIN v |-> ctx.weights[d] * v[d]]
             weighted == Total(parts) \div 100
             trust == EntropyTrust(v, ctx.entropyCap)
             burst == IF ctx.epsCap <= 0 THEN 0 ELSE Clamp((Full * ctx.eps) \div (ctx.eps + ctx.epsCap))
             raw == (((weighted * (Full + burst)) \div Full) * trust) \div Full
  <1>4. Total(parts) \in Int
    <2>1. parts \in [Dimensions -> Int]
      <3>1. \A d \in Dimensions : ctx.weights[d] \in Int OBVIOUS
      <3>2. \A d \in Dimensions : ctx.weights[d] * v[d] \in Int BY <1>3, <3>1
      <3> QED BY <3>2
    <2> HIDE DEF parts
    <2> QED BY <1>1, <1>2, <2>1, TotalIsIn
  <1>5. weighted \in Int
    <2> HIDE DEF parts
    <2> QED BY <1>4, Quotient
  <1>6. trust \in Int
    <2> DEFINE square == [d \in DOMAIN v |-> (v[d] * v[d]) \div 25]
               variance == 5 * Total(square) - (Total(v) \div 5) * (Total(v) \div 5)
               low == Greatest({1, variance \div 100})
    <2>1. Total(square) \in Int
      <3>1. square \in [Dimensions -> Int]
        <4>1. \A d \in Dimensions : v[d] * v[d] \in Int BY <1>3
        <4>2. \A d \in Dimensions : (v[d] * v[d]) \div 25 \in Int BY <4>1, Quotient
        <4> QED BY <4>2
      <3> HIDE DEF square
      <3> QED BY <1>1, <1>2, <3>1, TotalIsIn
    <2>2. Total(v) \in Int
      <3>1. v \in [Dimensions -> Int] BY <1>3
      <3> QED BY <1>1, <1>2, <3>1, TotalIsIn
    <2> HIDE DEF square
    <2>3. Total(v) \div 5 \in Int BY <2>2, Quotient
    <2>4. variance \in Int BY <2>1, <2>3
    <2> HIDE DEF variance
    <2>5. variance \div 100 \in Int BY <2>4, Quotient
    <2>6. low \in Int /\ low >= 1
      <3>1. PICK c \in Int : c = 1 OBVIOUS
      <3> DEFINE y == variance \div 100
      <3>2. y \in Int BY <2>5
      <3> HIDE DEF y
      <3>3. Greatest({c, y}) \in Int /\ Greatest({c, y}) >= c BY <3>2, TwoBetween
      <3> QED BY <3>1, <3>3 DEF y
    <2> HIDE DEF low
    <2>7. ctx.entropyCap \div low \in Int BY <2>6, Quotient
    <2>8. Clamp((ctx.entropyCap \div low) * 100) \in Int /\ Full \in Int
      <3> DEFINE q == ctx.entropyCap \div low
      <3>1. q \in Int BY <2>7
      <3> HIDE DEF q
      <3>2. q * 100 \in Int BY <3>1
      <3>3. Clamp(q * 100) \in 0..Full BY <3>2, Clamped
      <3>4. Full \in Int /\ \A x \in 0..Full : x \in Int BY DEF Full
      <3> QED BY <3>3, <3>4 DEF q
    <2>9. trust = IF variance <= ctx.entropyCap THEN Full ELSE Clamp((ctx.entropyCap \div low) * 100)
      BY DEF EntropyTrust, low, variance, square
    <2> HIDE DEF trust
    <2> QED BY <2>8, <2>9
  <1>7. burst \in Int
    <2>1. CASE ctx.epsCap <= 0 BY <2>1
    <2>2. CASE ~(ctx.epsCap <= 0)
      <3>1. ctx.eps + ctx.epsCap \in Nat \ {0} BY <2>2
      <3>2. Full * ctx.eps \in Int BY DEF Full
      <3>3. (Full * ctx.eps) \div (ctx.eps + ctx.epsCap) \in Int BY <3>1, <3>2, Quotient
      <3>4. Clamp((Full * ctx.eps) \div (ctx.eps + ctx.epsCap)) \in 0..Full BY <3>3, Clamped
      <3>5. \A x \in 0..Full : x \in Int BY DEF Full
      <3> QED BY <2>2, <3>4, <3>5
    <2> QED BY <2>1, <2>2
  <1>8. CombineRisk(v, ctx).score = Clamp(raw) BY DEF CombineRisk
  <1> HIDE DEF weighted, trust, burst
  <1>9. raw \in Int
    <2>1. Full \in Nat \ {0} BY DEF Full
    <2>2. weighted * (Full + burst) \in Int BY <1>5, <1>7, <2>1
    <2>3. (weighted * (Full + burst)) \div Full \in Int BY <2>1, <2>2, Quotient
    <2> DEFINE q == (weighted * (Full + burst)) \div Full
    <2>4. q \in Int BY <2>3
    <2> HIDE DEF q
    <2>5. q * trust \in Int BY <1>6, <2>4
    <2>6. (q * trust) \div Full \in Int BY <2>1, <2>5, Quotient
    <2> QED BY <2>6 DEF q
  <1> HIDE DEF raw
  <1> QED BY <1>8, <1>9, Clamped

(* ---- the stream ---------------------------------------------------------- *)
LEMMA NewestOfList ==
  ASSUME NEW n \in Nat, NEW S, NEW list \in Seq(S)
  PROVE  Newest(n, list) \in Seq(S) /\ Len(Newest(n, list)) <= n
  <1>1. Len(list) \in Nat OBVIOUS
  <1>2. /\ Least({n, Len(list)}) \in Nat /\ Least({n, Len(list)}) <= Len(list)
        /\ Least({n, Len(list)}) <= n
    <2>1. \E x \in {n, Len(list)} : \A y \in {n, Len(list)} : x <= y BY <1>1
    <2>2. /\ Least({n, Len(list)}) \in {n, Len(list)}
          /\ \A y \in {n, Len(list)} : Least({n, Len(list)}) <= y
      BY <2>1 DEF Least
    <2> QED BY <1>1, <2>2
  <1>3. Len(list) - Least({n, Len(list)}) + 1 \in 1..(Len(list) + 1) BY ONLY <1>1, <1>2
  <1> DEFINE a == Len(list) - Least({n, Len(list)}) + 1
  <1>4. a \in 1..(Len(list) + 1) BY <1>3
  <1>6. Len(list) - a + 1 <= n BY <1>1, <1>2
  <1> HIDE DEF a
  <1>5. SubSeq(list, a, Len(list)) \in Seq(S) /\ Len(SubSeq(list, a, Len(list))) <= n
    BY <1>1, <1>4, <1>6
  <1> QED BY <1>5 DEF Newest, a

(* No order in which the same events had arrived gives another assessment.   *)
LEMMA ShuffledIsAlike ==
  ASSUME NEW e \in Readings, NEW recent \in Seq(Readings), NEW p \in Orders(Len(recent))
  PROVE  Assess(e, [i \in DOMAIN p |-> recent[p[i]]], Context) = Assess(e, recent, Context)
  <1> DEFINE n == Len(recent)
             t == [i \in 1..n |-> recent[p[i]]]
             x == Hinted(Enriched(e, Context.segments))
             q == [i \in 1..(n + 1) |-> IF i = n + 1 THEN n + 1 ELSE p[i]]
  <1>1. n \in Nat /\ DOMAIN recent = 1..n /\ \A i \in 1..n : recent[i] \in Readings OBVIOUS
  <1>2. Shuffles(p, n) /\ DOMAIN p = 1..n BY Zenon DEF Orders, Range, Shuffles
  <1>3. x.at \in Int BY ReadingAsAssessed
  <1>4. \A i \in 1..n : recent[i].at \in Int BY <1>1, RiskStreamAssumption
  <1>5. \A i, j \in 1..n : recent[i].at = recent[j].at => recent[i] = recent[j]
    BY <1>1, RiskStreamAssumption
  <1> HIDE DEF x, n
  <1>6. Canonical(recent) = Canonical(t) BY <1>1, <1>2, <1>4, <1>5, ShuffleInOrder DEF Shuffled
  <1>7. t \in Seq(Readings) /\ Len(t) = n
    <2>1. t \in [1..n -> Readings] BY <1>1, <1>2 DEF Shuffles
    <2> QED BY <1>1, <2>1
  <1>8. Canonical(Append(recent, x)) = Canonical(Append(t, x))
    <2> DEFINE s2 == Append(recent, x)
               t2 == Append(t, x)
               m == n + 1
    <2>1. m \in Nat /\ m > 0 BY <1>1
    <2>2. /\ DOMAIN s2 = 1..m /\ s2[m] = x
          /\ \A i \in 1..n : s2[i] = recent[i]
      BY <1>1 DEF n
    <2>3. t2 = [i \in 1..m |-> IF i = m THEN x ELSE t[i]] BY <1>1, <1>7
    <2>4. \A i \in 1..m : i = m \/ i \in 1..n BY <1>1
    <2>5. Shuffles(q, m)
      <3>1. ASSUME NEW i \in 1..m PROVE q[i] \in 1..m
        <4>1. CASE i = m BY <4>1, <1>1
        <4>2. CASE i \in 1..n
          <5>1. q[i] = p[i] BY <1>1, <4>2
          <5>2. p[i] \in 1..n BY <1>2, <4>2 DEF Shuffles
          <5> QED BY <1>1, <5>1, <5>2
        <4> QED BY <2>4, <4>1, <4>2
      <3>2. ASSUME NEW i \in 1..m PROVE \E j \in 1..m : q[j] = i
        <4>1. CASE i = m BY <4>1, <1>1
        <4>2. CASE i \in 1..n
          <5>1. PICK j \in 1..n : p[j] = i BY <1>2, <4>2 DEF Shuffles
          <5>2. q[j] = p[j] /\ j \in 1..m BY <1>1, <5>1
          <5> QED BY <5>1, <5>2
        <4> QED BY <2>4, <4>1, <4>2
      <3>3. q \in [1..m -> 1..m] BY <3>1
      <3> HIDE DEF q
      <3> QED BY <3>2, <3>3 DEF Shuffles
    <2>6. q[m] = m BY <1>1
    <2>7. \A i \in 1..n : q[i] = p[i] /\ p[i] \in 1..n /\ i \in 1..m
      <3>1. \A i \in 1..n : p[i] \in 1..n BY <1>2 DEF Shuffles
      <3>2. \A i \in 1..n : i \in 1..m /\ i # m BY <1>1
      <3>3. \A i \in 1..n : q[i] = p[i] BY <3>2
      <3> QED BY <3>1, <3>2, <3>3
    <2>8. t2 = Shuffled(q, m, s2)
      <3>1. ASSUME NEW i \in 1..m PROVE (IF i = m THEN x ELSE t[i]) = s2[q[i]]
        <4>1. CASE i = m BY <4>1, <2>2, <2>6
        <4>2. CASE i \in 1..n
          <5>1. i # m BY <1>1, <4>2
          <5>2. s2[q[i]] = recent[p[i]] BY <2>2, <2>7, <4>2
          <5>3. t[i] = recent[p[i]] BY <4>2
          <5> HIDE DEF t, q, s2, m
          <5> QED BY <5>1, <5>2, <5>3
        <4> QED BY <2>4, <4>1, <4>2
      <3> HIDE DEF s2, t2, q, t, m
      <3> QED BY <2>3, <3>1 DEF Shuffled
    <2>9. \A i \in 1..m : s2[i].at \in Int BY <1>3, <1>4, <2>2, <2>4
    <2>10. \A i, j \in 1..m : i # m /\ j # m /\ s2[i].at = s2[j].at => s2[i] = s2[j]
      BY <1>5, <2>2, <2>4
    <2> HIDE DEF s2, t2, q, m
    <2>11. Canonical(s2) = Canonical(t2)
      <3>1. m \in Nat /\ m > 0 /\ q[m] = m BY <2>1, <2>6
      <3>2. DOMAIN s2 = 1..m BY <2>2
      <3>3. Canonical(s2) = Canonical(Shuffled(q, m, s2))
        BY ONLY <3>1, <3>2, <2>5, <2>9, <2>10, ShuffleInOrder
      <3> QED BY <3>3, <2>8
    <2> QED BY <2>11 DEF s2, t2
  <1>9. Assess(e, recent, Context) = Assess(e, t, Context)
    <2> HIDE DEF t
    <2> QED BY <1>6, <1>8, AssessOfOrder DEF x
  <1> QED BY <1>2, <1>9

LEMMA StreamInvInit == StreamInit => StreamInv
  BY RiskStreamAssumption DEF StreamInit, StreamInv, JudgedAsFed

LEMMA StreamInvNext == StreamInv /\ [StreamNext]_streamVars => StreamInv'
  <1> SUFFICES ASSUME StreamInv, [StreamNext]_streamVars PROVE StreamInv'
    OBVIOUS
  <1>1. CASE UNCHANGED streamVars BY <1>1 DEF StreamInv, JudgedAsFed, streamVars
  <1>2. ASSUME NEW e \in Readings, Ingest(e) PROVE StreamInv'
    <2> DEFINE recent == Newest(RecentCount(Context), feed)
    <2>1. recent \in Seq(Readings) BY NewestOfList, RiskStreamAssumption DEF StreamInv
    <2>2. judged' = [event |-> e, recent |-> recent, result |-> Assess(e, recent, Context)]
      BY <1>2 DEF Ingest
    <2>3. Append(feed, e) \in Seq(Readings) BY DEF StreamInv
    <2>4. feed' \in Seq(Readings) /\ Len(feed') <= WindowMax
      <3>1. feed' = Newest(WindowMax, Append(feed, e)) BY <1>2 DEF Ingest
      <3> QED BY <2>3, <3>1, NewestOfList, RiskStreamAssumption
    <2> HIDE DEF recent
    <2>5. judged'.event = e /\ judged'.recent = recent BY <2>2
    <2>6. JudgedAsFed' BY <2>1, <2>2, <2>5 DEF JudgedAsFed
    <2>7. fed' \in 0..MaxReadings BY <1>2, RiskStreamAssumption DEF StreamInv, Ingest
    <2> QED BY <2>4, <2>6, <2>7 DEF StreamInv
  <1> QED BY <1>1, <1>2 DEF StreamNext

LEMMA AssessFits ==
  ASSUME NEW e \in Readings, NEW recent \in Seq(Readings)
  PROVE  LET result == Assess(e, recent, Context)
         IN result.score \in 0..Full /\ result.vectors \in [Dimensions -> 0..Full]
  <1> DEFINE event == Hinted(Enriched(e, Context.segments))
             chaos == PollingChaos(Context.polling)
             quality == FullPipeline(Append(recent, event), event.source, Context)
             hits == Hits(event, recent, Context)
             base == IF chaos.doubling THEN 7500 ELSE IF chaos.jitter THEN 4200 ELSE 1500
             context == Full - ContextScore(event, Context)
             vectors == RiskVectors(Range(hits), base, context, Full - quality.score)
             expected == event.asset # Absent /\ <<event.asset, event.op>> \in Context.expected
             tolerated == Tolerated(vectors, expected)
             risk == CombineRisk(tolerated, Context)
  <1>1. event.at \in Int /\ Context.trust[event.source] \in Int BY ReadingAsAssessed
  <1>2. quality.score \in 0..Full
    <2> DEFINE n == Len(recent) + 1
               s == Append(recent, event)
    <2> HIDE DEF event
    <2>1. n \in Nat /\ DOMAIN s = 1..n /\ s[n] = event /\ \A i \in 1..n : i = n \/ i \in 1..Len(recent)
      OBVIOUS
    <2>2. \A i \in 1..Len(recent) : s[i] = recent[i] /\ recent[i] \in Readings OBVIOUS
    <2> HIDE DEF s, n
    <2>3. Dated(s, n)
      <3>1. \A i \in 1..Len(recent) : s[i].at \in Int BY <2>2, RiskStreamAssumption
      <3> QED BY <2>1, <3>1, <1>1 DEF Dated
    <2>4. Context.maxGap \in Nat \ {0} BY RiskStreamAssumption
    <2> QED BY <2>1, <2>3, <2>4, <1>1, PipelineScore DEF s
  <1>3. Full - quality.score \in 0..Full
    <2>1. \A k \in 0..Full : Full - k \in 0..Full BY DEF Full
    <2> HIDE DEF quality
    <2> QED BY <1>2, <2>1
  <1>4. base \in 0..Full BY DEF Full
  <1>5. context \in 0..Full
    <2>1. ContextScore(event, Context) \in {8500, 3500, 5500} BY DEF ContextScore
    <2>2. \A k \in {8500, 3500, 5500} : Full - k \in 0..Full BY DEF Full
    <2> QED BY <2>1, <2>2
  <1> HIDE DEF event, base, context, quality, hits
  <1>6. vectors \in [Dimensions -> 0..Full] BY <1>3, <1>4, <1>5, VectorsAreShares
  <1> HIDE DEF vectors, expected
  <1>7. tolerated \in [Dimensions -> 0..Full] BY <1>6, ToleratedAreShares
  <1> HIDE DEF tolerated
  <1>8. risk.score \in 0..Full BY <1>7, ScoreIsShare, RiskStreamAssumption DEF Dimensions
  <1> HIDE DEF risk
  <1>9. Assess(e, recent, Context)
        = [hits |-> hits, quality |-> quality, vectors |-> tolerated, score |-> risk.score,
           class |-> risk.class, text |-> Explained(hits)]
    BY DEF Assess, Judgement, event, chaos, quality, hits, base, context, vectors, expected, tolerated, risk
  <1>10. Assess(e, recent, Context).score = risk.score /\ Assess(e, recent, Context).vectors = tolerated
    BY <1>9
  <1> QED BY <1>7, <1>8, <1>10

(* The inductive invariant of the stream.                                    *)
THEOREM StreamInductive == StreamSpec => []StreamInv
  BY StreamInvInit, StreamInvNext, PTL DEF StreamSpec

(* The window holds as many events as it may, and scores and vectors are     *)
(* shares.                                                                   *)
THEOREM StreamTyped == StreamSpec => []StreamTypeOK
  <1>1. StreamInv => StreamTypeOK
    <2> SUFFICES ASSUME StreamInv PROVE StreamTypeOK
      OBVIOUS
    <2>1. Range(feed) \subseteq Readings BY DEF StreamInv, Range
    <2>2. ASSUME judged # Unjudged
          PROVE  /\ judged.result.score \in 0..Full
                 /\ \A v \in DOMAIN judged.result.vectors : judged.result.vectors[v] \in 0..Full
      <3> DEFINE e == judged.event
                 recent == judged.recent
                 result == judged.result
      <3>1. e \in Readings /\ recent \in Seq(Readings)
            /\ judged = [event |-> e, recent |-> recent, result |-> Assess(e, recent, Context)]
        BY <2>2 DEF StreamInv, JudgedAsFed
      <3>2. result = Assess(e, recent, Context) BY <3>1
      <3> HIDE DEF e, recent, result
      <3>3. result.score \in 0..Full /\ result.vectors \in [Dimensions -> 0..Full]
        BY <3>1, <3>2, AssessFits
      <3> QED BY <3>3 DEF result
    <2> QED BY <2>1, <2>2 DEF StreamInv, StreamTypeOK
  <1> QED BY <1>1, StreamInductive, PTL

(* The order in which the same events arrived changes neither the hits nor   *)
(* the score of an assessment.                                               *)
THEOREM DeliveryIsForgotten == StreamSpec => []DeliveryDoesNotMatter
  <1>1. StreamInv => DeliveryDoesNotMatter
    <2> SUFFICES ASSUME StreamInv, judged # Unjudged, NEW p \in Orders(Len(judged.recent))
                 PROVE  SameJudgement(Assess(judged.event, [i \in DOMAIN p |-> judged.recent[p[i]]], Context),
                                      judged.result)
      BY DEF DeliveryDoesNotMatter
    <2> DEFINE e == judged.event
               recent == judged.recent
    <2>1. e \in Readings /\ recent \in Seq(Readings)
          /\ judged = [event |-> e, recent |-> recent, result |-> Assess(e, recent, Context)]
      BY DEF StreamInv, JudgedAsFed
    <2>2. judged.result = Assess(e, recent, Context) BY <2>1
    <2> HIDE DEF e, recent
    <2>3. Assess(e, [i \in DOMAIN p |-> recent[p[i]]], Context) = Assess(e, recent, Context)
      <3>1. p \in Orders(Len(recent)) BY DEF recent
      <3> QED BY <2>1, <3>1, ShuffledIsAlike
    <2> QED BY <2>2, <2>3 DEF SameJudgement, e, recent
  <1> QED BY <1>1, StreamInductive, PTL

(***************************************************************************)
(* The queue of cases (CaseQueue): the tables of two instances, the export *)
(* of one of them page by page while it changes, the import into the other.*)
(***************************************************************************)

(* ---- the queue of cases -------------------------------------------------- *)
LEMMA RowIs ==
  ASSUME NEW c, IsRow(c)
  PROVE  /\ IsRow(Row(c)) /\ Row(c).id = c.id /\ Row(c).status = c.status
         /\ Row(c).created = WholeSecond(c.created) /\ WholeSecond(Row(c).created) = Row(c).created
  <1>1. c.created \in Int BY DEF IsRow
  <1>2. WholeSecond(c.created) \in Int /\ WholeSecond(WholeSecond(c.created)) = WholeSecond(c.created)
    BY <1>1 DEF WholeSecond
  <1>3. DOMAIN Row(c) = DOMAIN c BY DEF Row
  <1>4. Row(c).id = c.id /\ Row(c).status = c.status BY DEF Row, IsRow
  <1>5. Row(c).created = WholeSecond(c.created) BY DEF Row, IsRow
  <1> QED BY <1>2, <1>3, <1>4, <1>5 DEF IsRow

LEMMA TableFacts ==
  ASSUME NEW rows, IsCaseTable(rows)
  PROVE  /\ Len(rows) \in Nat /\ DOMAIN rows = 1..Len(rows)
         /\ \A i \in DOMAIN rows : IsRow(rows[i]) /\ rows[i].created \in Int
  <1>1. Len(rows) \in Nat /\ DOMAIN rows = 1..Len(rows) BY DEF IsCaseTable
  <1> QED BY <1>1 DEF IsCaseTable, IsRow

(* What is written stays at its place, or comes last.                        *)
LEMMA Upserted ==
  ASSUME NEW rows, IsCaseTable(rows), NEW card, IsRow(card)
  PROVE  LET new == Upsert(rows, card)
         IN /\ IsCaseTable(new) /\ IdsOf(new) = IdsOf(rows) \cup {card.id}
            /\ DOMAIN rows \subseteq DOMAIN new
            /\ \A i \in DOMAIN rows : new[i] = IF rows[i].id = card.id THEN Row(card) ELSE rows[i]
            /\ \A i \in DOMAIN new \ DOMAIN rows : new[i] = Row(card)
  <1> DEFINE new == Upsert(rows, card)
             n == Len(rows)
  <1>1. n \in Nat /\ DOMAIN rows = 1..n /\ \A i \in 1..n : IsRow(rows[i]) BY TableFacts
  <1>2. \A i, j \in 1..n : rows[i].id = rows[j].id => i = j BY <1>1 DEF IsCaseTable
  <1>3. IsRow(Row(card)) /\ Row(card).id = card.id BY RowIs
  <1>4. CASE card.id \in IdsOf(rows)
    <2>1. new = [i \in 1..n |-> IF rows[i].id = card.id THEN Row(card) ELSE rows[i]]
      BY <1>1, <1>4 DEF Upsert
    <2> HIDE DEF new, n
    <2>2. DOMAIN new = 1..n BY <2>1
    <2>3. \A i \in 1..n : new[i] = IF rows[i].id = card.id THEN Row(card) ELSE rows[i] BY <2>1
    <2>4. \A i \in 1..n : IsRow(new[i]) /\ new[i].id = rows[i].id BY <1>1, <1>3, <2>3
    <2>5. new \in Seq({new[i] : i \in DOMAIN new})
      <3>1. new = [i \in 1..n |-> new[i]] BY <2>1, <2>3
      <3> DEFINE S == {new[j] : j \in DOMAIN new}
      <3>2. \A i \in 1..n : new[i] \in S BY <2>2
      <3>3. new \in [1..n -> S] BY ONLY <3>1, <3>2
      <3>4. n \in Nat BY <1>1
      <3> HIDE DEF S
      <3>5. [1..n -> S] \subseteq Seq(S) BY ONLY <3>4
      <3>6. new \in Seq(S) BY ONLY <3>3, <3>5
      <3> QED BY ONLY <3>6 DEF S
    <2>6. IsCaseTable(new) BY <1>2, <2>2, <2>4, <2>5 DEF IsCaseTable
    <2>7. IdsOf(new) = IdsOf(rows) BY <1>1, <2>2, <2>4 DEF IdsOf
    <2>8. IdsOf(new) = IdsOf(rows) \cup {card.id} BY <2>7, <1>4
    <2> QED BY <1>1, <2>2, <2>3, <2>6, <2>8 DEF new
  <1>5. CASE card.id \notin IdsOf(rows)
    <2> DEFINE S == {rows[i] : i \in DOMAIN rows} \cup {Row(card)}
    <2>1. new = Append(rows, Row(card)) BY <1>5 DEF Upsert
    <2>2. rows \in Seq(S)
      <3>1. rows \in Seq({rows[i] : i \in DOMAIN rows}) BY DEF IsCaseTable
      <3> QED BY <3>1
    <2>3. /\ DOMAIN new = 1..(n + 1) /\ Len(new) = n + 1
          /\ \A i \in 1..n : new[i] = rows[i]
          /\ new[n + 1] = Row(card)
      <3> HIDE DEF new
      <3>1. Row(card) \in S OBVIOUS
      <3> HIDE DEF S
      <3> QED BY <1>1, <2>1, <2>2, <3>1
    <2> HIDE DEF new, n
    <2>4. \A i \in 1..n : rows[i].id # card.id BY <1>1, <1>5 DEF IdsOf
    <2>5. new \in Seq({new[i] : i \in DOMAIN new})
      <3>1. new \in Seq(S) BY <2>1, <2>2
      <3>2. new = [i \in 1..(n + 1) |-> new[i]] BY <2>3, <3>1
      <3>3. \A i \in 1..(n + 1) : new[i] \in {new[j] : j \in DOMAIN new} BY <2>3
      <3>4. n + 1 \in Nat BY <1>1
      <3> QED BY <3>2, <3>3, <3>4
    <2>6. \A i \in 1..(n + 1) : i \in 1..n \/ i = n + 1 BY <1>1
    <2>7. \A i \in 1..(n + 1) : IsRow(new[i]) BY <1>1, <1>3, <2>3, <2>6
    <2>8. \A i, j \in 1..(n + 1) : new[i].id = new[j].id => i = j BY <1>2, <1>3, <2>3, <2>4, <2>6
    <2>9. IsCaseTable(new) BY <2>3, <2>5, <2>7, <2>8 DEF IsCaseTable
    <2>10. n + 1 \in 1..(n + 1) /\ \A i \in 1..n : i \in 1..(n + 1) BY <1>1
    <2>11. IdsOf(new) = IdsOf(rows) \cup {card.id}
      <3>1. ASSUME NEW x \in IdsOf(new) PROVE x \in IdsOf(rows) \cup {card.id}
        <4>1. PICK i \in 1..(n + 1) : new[i].id = x BY <2>3, <3>1 DEF IdsOf
        <4> QED BY <1>1, <1>3, <2>3, <2>6, <4>1 DEF IdsOf
      <3>2. ASSUME NEW x \in IdsOf(rows) PROVE x \in IdsOf(new)
        <4>1. PICK i \in 1..n : rows[i].id = x BY <1>1, <3>2 DEF IdsOf
        <4>2. new[i].id = x /\ i \in DOMAIN new BY <2>3, <2>10, <4>1
        <4> QED BY <4>2 DEF IdsOf
      <3>3. card.id \in IdsOf(new) BY <1>3, <2>3, <2>10 DEF IdsOf
      <3> QED BY <3>1, <3>2, <3>3
    <2> QED BY <1>1, <2>3, <2>4, <2>6, <2>9, <2>10, <2>11 DEF new
  <1> QED BY <1>4, <1>5

(* A write that dates no case back leaves every other case as far from the   *)
(* front of the list as it was, at least.                                    *)
LEMMA StandsNoNearer ==
  ASSUME NEW rows, IsCaseTable(rows), NEW card, IsRow(card), NEW i \in DOMAIN rows,
         rows[i].id = card.id => Row(card).created = rows[i].created,
         \A j \in DOMAIN rows : rows[j].id = card.id => Row(card).created >= rows[j].created
  PROVE  /\ Cardinality(ListedTo(rows, i)) \in Nat
         /\ Cardinality(ListedTo(Upsert(rows, card), i)) \in Nat
         /\ Cardinality(ListedTo(Upsert(rows, card), i)) >= Cardinality(ListedTo(rows, i))
  <1> DEFINE new == Upsert(rows, card)
             A == ListedTo(rows, i)
             B == ListedTo(new, i)
  <1>1. /\ IsCaseTable(new) /\ DOMAIN rows \subseteq DOMAIN new
        /\ \A j \in DOMAIN rows : new[j] = IF rows[j].id = card.id THEN Row(card) ELSE rows[j]
    BY Upserted
  <1> HIDE DEF new
  <1>2. \A j \in DOMAIN rows : rows[j].created \in Int /\ new[j].created \in Int
    BY <1>1, TableFacts
  <1>3. \A j \in DOMAIN rows : new[j].created >= rows[j].created
    <2> SUFFICES ASSUME NEW j \in DOMAIN rows PROVE new[j].created >= rows[j].created OBVIOUS
    <2>1. CASE rows[j].id = card.id BY <1>1, <2>1
    <2>2. CASE rows[j].id # card.id BY <1>1, <1>2, <2>2
    <2> QED BY <2>1, <2>2
  <1>4. new[i].created = rows[i].created BY <1>1
  <1>5. A \subseteq B BY <1>1, <1>2, <1>3, <1>4 DEF ListedTo
  <1>6. A \subseteq 1..Len(rows) /\ Len(rows) \in Nat BY TableFacts DEF ListedTo
  <1>7. B \subseteq 1..Len(new) /\ Len(new) \in Nat BY <1>1, TableFacts DEF ListedTo
  <1> HIDE DEF A, B
  <1>8. IsFiniteSet(B) /\ Cardinality(A) \in Nat /\ Cardinality(B) \in Nat BY <1>6, <1>7, PartCounts
  <1>9. Cardinality(A) <= Cardinality(B) BY <1>5, <1>8, FS_Subset
  <1> QED BY <1>8, <1>9 DEF A, B, new

(* ---- the list ------------------------------------------------------------ *)
AgesOf(rows) == [i \in DOMAIN rows |-> [at |-> -rows[i].created]]

(* The list has, at each place, the row that so many are listed up to.       *)
LEMMA ListedRows ==
  ASSUME NEW rows, NEW n \in Nat, DOMAIN rows = 1..n, \A i \in 1..n : rows[i].created \in Int
  PROVE  LET list == ListAll(rows)
         IN /\ DOMAIN list = 1..n
            /\ \A k \in 1..n : \E i \in 1..n : list[k] = rows[i] /\ Cardinality(ListedTo(rows, i)) = k
            /\ \A i \in 1..n : /\ Cardinality(ListedTo(rows, i)) \in 1..n
                               /\ list[Cardinality(ListedTo(rows, i))] = rows[i]
  <1> DEFINE s == AgesOf(rows)
             list == ListAll(rows)
             key == [i \in DOMAIN rows |-> -rows[i].created]
             rank == [i \in DOMAIN rows |-> Cardinality({j \in DOMAIN rows :
                        key[j] < key[i] \/ (key[j] = key[i] /\ j <= i)})]
  <1>1. list = [k \in DOMAIN rows |-> rows[CHOOSE i \in DOMAIN rows : rank[i] = k]]
    BY DEF ListAll, StableSort
  <1>2. \A i \in 1..n : key[i] = -rows[i].created /\ s[i].at = -rows[i].created BY DEF AgesOf
  <1> HIDE DEF list, s, key
  <1>3. ASSUME NEW i \in 1..n
        PROVE  /\ ListedTo(rows, i) = {j \in 1..n : key[j] < key[i] \/ (key[j] = key[i] /\ j <= i)}
               /\ ListedTo(rows, i) = Through(s, n, i)
    <2>1. \A j \in 1..n : /\ key[j] < key[i] <=> rows[j].created > rows[i].created
                          /\ s[j].at < s[i].at <=> rows[j].created > rows[i].created
                          /\ key[j] = key[i] <=> rows[j].created = rows[i].created
                          /\ s[j].at = s[i].at <=> rows[j].created = rows[i].created
      <3>1. \A a, b \in Int : (-a < -b <=> a > b) /\ (-a = -b <=> a = b) OBVIOUS
      <3>2. \A j \in 1..n : rows[j].created \in Int /\ rows[i].created \in Int OBVIOUS
      <3> QED BY ONLY <3>1, <3>2, <1>2, i \in 1..n
    <2> DEFINE J == {j \in 1..n : key[j] < key[i] \/ (key[j] = key[i] /\ j <= i)}
    <2>2. ListedTo(rows, i) = J BY <2>1 DEF ListedTo
    <2>3. Through(s, n, i) = J BY <2>1 DEF Through
    <2> QED BY <2>2, <2>3
  <1>4. \A i \in 1..n : rank[i] = Cardinality(ListedTo(rows, i)) BY <1>3
  <1> HIDE DEF rank
  <1>5. \A i \in 1..n : s[i].at \in Int BY <1>2
  <1>6. /\ \A i \in 1..n : \E j \in 1..n : Cardinality(Through(s, n, j)) = i
        /\ \A i, j \in 1..n : Cardinality(Through(s, n, i)) = Cardinality(Through(s, n, j)) => i = j
    BY <1>5, PlacesInOrder
  <1>14. \A i \in 1..n : Cardinality(Through(s, n, i)) = rank[i]
    <2> SUFFICES ASSUME NEW i \in 1..n PROVE Cardinality(Through(s, n, i)) = rank[i] OBVIOUS
    <2>1. ListedTo(rows, i) = Through(s, n, i) BY <1>3
    <2>2. rank[i] = Cardinality(ListedTo(rows, i)) BY <1>4
    <2> QED BY <2>1, <2>2
  <1>7. /\ \A k \in 1..n : \E i \in 1..n : rank[i] = k
        /\ \A i, j \in 1..n : rank[i] = rank[j] => i = j
    <2>1. ASSUME NEW k \in 1..n PROVE \E i \in 1..n : rank[i] = k
      <3>1. PICK i \in 1..n : Cardinality(Through(s, n, i)) = k BY <1>6
      <3>2. rank[i] = k BY <1>14, <3>1
      <3> QED BY <3>2
    <2>2. ASSUME NEW i \in 1..n, NEW j \in 1..n, rank[i] = rank[j] PROVE i = j
      <3>1. Cardinality(Through(s, n, i)) = Cardinality(Through(s, n, j)) BY <1>14, <2>2
      <3> QED BY <1>6, <3>1
    <2> QED BY <2>1, <2>2
  <1>8. ASSUME NEW k \in 1..n PROVE \E i \in 1..n : list[k] = rows[i] /\ rank[i] = k
    BY <1>1, <1>7
  <1>9. \A i \in 1..n : rank[i] \in 1..n
    <2> SUFFICES ASSUME NEW i \in 1..n PROVE rank[i] \in 1..n OBVIOUS
    <2>1. ListedTo(rows, i) \subseteq 1..n /\ i \in ListedTo(rows, i) BY DEF ListedTo
    <2>2. IsFiniteSet(1..n) /\ Cardinality(1..n) = n
      <3>1. 1 \in Int /\ n \in Int OBVIOUS
      <3>2. IsFiniteSet(1..n) /\ Cardinality(1..n) = IF 1 > n THEN 0 ELSE n - 1 + 1 BY <3>1, FS_Interval
      <3> QED BY <3>2
    <2>3. /\ IsFiniteSet(ListedTo(rows, i)) /\ Cardinality(ListedTo(rows, i)) <= n
      BY <2>1, <2>2, FS_Subset
    <2>4. Cardinality(ListedTo(rows, i)) \in Nat BY <2>3, FS_CardinalityType
    <2>5. Cardinality(ListedTo(rows, i)) # 0 BY <2>1, <2>3, FS_EmptySet
    <2> QED BY <1>4, <2>3, <2>4, <2>5
  <1>10. ASSUME NEW i \in 1..n PROVE list[rank[i]] = rows[i]
    <2>1. rank[i] \in 1..n BY <1>9
    <2>2. PICK j \in 1..n : list[rank[i]] = rows[j] /\ rank[j] = rank[i] BY <1>8, <2>1
    <2> QED BY <1>7, <2>2
  <1>11. DOMAIN list = 1..n BY <1>1
  <1>12. ASSUME NEW k \in 1..n
         PROVE  \E i \in 1..n : list[k] = rows[i] /\ Cardinality(ListedTo(rows, i)) = k
    <2>1. PICK i \in 1..n : list[k] = rows[i] /\ rank[i] = k BY <1>8, <1>12
    <2>2. Cardinality(ListedTo(rows, i)) = k BY <1>4, <2>1
    <2> QED BY <2>1, <2>2
  <1>13. ASSUME NEW i \in 1..n
         PROVE  /\ Cardinality(ListedTo(rows, i)) \in 1..n
                /\ list[Cardinality(ListedTo(rows, i))] = rows[i]
    BY <1>4, <1>9, <1>10
  <1> QED BY <1>11, <1>12, <1>13 DEF list

(* It is in order, newest first, ...                                         *)
LEMMA NewestFirst ==
  ASSUME NEW rows, NEW n \in Nat, DOMAIN rows = 1..n, \A i \in 1..n : rows[i].created \in Int
  PROVE  \A k, m \in 1..n : k < m => ListAll(rows)[k].created >= ListAll(rows)[m].created
  <1> DEFINE list == ListAll(rows)
  <1>1. \A k \in 1..n : \E i \in 1..n : list[k] = rows[i] /\ Cardinality(ListedTo(rows, i)) = k
    BY ListedRows
  <1> HIDE DEF list
  <1> SUFFICES ASSUME NEW k \in 1..n, NEW m \in 1..n, k < m PROVE list[k].created >= list[m].created
    BY DEF list
  <1>2. PICK i \in 1..n : list[k] = rows[i] /\ Cardinality(ListedTo(rows, i)) = k BY <1>1
  <1>3. PICK j \in 1..n : list[m] = rows[j] /\ Cardinality(ListedTo(rows, j)) = m BY <1>1
  <1> SUFFICES ASSUME ~(rows[i].created >= rows[j].created) PROVE FALSE BY <1>2, <1>3
  <1>4. ListedTo(rows, j) \subseteq ListedTo(rows, i) BY DEF ListedTo
  <1>5. ListedTo(rows, i) \subseteq 1..n BY DEF ListedTo
  <1>6. IsFiniteSet(ListedTo(rows, i)) BY <1>5, PartCounts
  <1>7. Cardinality(ListedTo(rows, j)) <= Cardinality(ListedTo(rows, i)) BY <1>4, <1>6, FS_Subset
  <1> QED BY <1>2, <1>3, <1>7

(* ... and sorting it once more changes nothing.                             *)
LEMMA SortedAlready ==
  ASSUME NEW list, NEW n \in Nat, DOMAIN list = 1..n, \A i \in 1..n : list[i].created \in Int,
         \A k, m \in 1..n : k < m => list[k].created >= list[m].created
  PROVE  \A k \in 1..n : ListAll(list)[k] = list[k]
  <1> SUFFICES ASSUME NEW k \in 1..n PROVE ListAll(list)[k] = list[k] OBVIOUS
  <1>1. ListedTo(list, k) = 1..k
    <2>1. \A j \in 1..n : j \in ListedTo(list, k) <=> j <= k BY DEF ListedTo
    <2>2. ListedTo(list, k) \subseteq 1..n BY DEF ListedTo
    <2>3. \A j : j \in 1..k <=> j \in 1..n /\ j <= k OBVIOUS
    <2> QED BY <2>1, <2>2, <2>3
  <1>2. Cardinality(1..k) = k
    <2>1. 1 \in Int /\ k \in Int OBVIOUS
    <2>2. Cardinality(1..k) = IF 1 > k THEN 0 ELSE k - 1 + 1 BY <2>1, FS_Interval
    <2> QED BY <2>2
  <1>3. ListAll(list)[Cardinality(ListedTo(list, k))] = list[k] BY ListedRows
  <1> QED BY <1>1, <1>2, <1>3

LEMMA TheSmaller ==
  ASSUME NEW a \in Int, NEW b \in Int, NEW S, S = {a, b}
  PROVE  SmallestOf(S) \in {a, b} /\ SmallestOf(S) <= a /\ SmallestOf(S) <= b
  <1>1. \E x \in S : \A y \in S : x <= y
    <2>1. CASE a <= b BY <2>1
    <2>2. CASE b <= a BY <2>2
    <2> QED BY <2>1, <2>2
  <1> QED BY <1>1 DEF SmallestOf

(* A page of the export has rows of the table, and among them every one that *)
(* is listed at a place of the page.                                         *)
LEMMA PageOfExport ==
  ASSUME NEW rows, IsCaseTable(rows), NEW offset \in Nat
  PROVE  LET page == FullExport(rows, offset)
         IN /\ page \in Seq({rows[i] : i \in DOMAIN rows})
            /\ \A i \in DOMAIN rows :
                 /\ Cardinality(ListedTo(rows, i)) \in 1..Len(rows)
                 /\ Cardinality(ListedTo(rows, i)) > offset
                    /\ Cardinality(ListedTo(rows, i)) <= offset + PageSize
                      => \E k \in DOMAIN page : page[k] = rows[i]
  <1> DEFINE n == Len(rows)
             L == ListAll(rows)
             LL == ListAll(L)
             page == FullExport(rows, offset)
             R == {rows[i] : i \in DOMAIN rows}
             o == SmallestOf({offset, n})
             e == SmallestOf({n, o + PageSize})
  <1>1. n \in Nat /\ DOMAIN rows = 1..n /\ \A i \in 1..n : rows[i].created \in Int BY TableFacts
  <1>2. /\ DOMAIN L = 1..n
        /\ \A k \in 1..n : \E i \in 1..n : L[k] = rows[i] /\ Cardinality(ListedTo(rows, i)) = k
        /\ \A i \in 1..n : /\ Cardinality(ListedTo(rows, i)) \in 1..n
                           /\ L[Cardinality(ListedTo(rows, i))] = rows[i]
    <2> HIDE DEF n
    <2> QED BY <1>1, ListedRows
  <1>3. \A k, m \in 1..n : k < m => L[k].created >= L[m].created
    <2> HIDE DEF n
    <2> QED BY <1>1, NewestFirst
  <1>4. page = SubSeq(LL, o + 1, SmallestOf({Len(LL), o + PageSize}))
    BY DEF FullExport, Sliced, ListAll
  <1> HIDE DEF L
  <1>5. \A k \in 1..n : L[k] \in R /\ L[k].created \in Int BY <1>1, <1>2
  <1>6. DOMAIN LL = 1..n /\ \A k \in 1..n : LL[k] = L[k]
    <2> HIDE DEF n
    <2>1. DOMAIN LL = 1..n BY <1>1, <1>2, <1>5, ListedRows
    <2> QED BY <1>1, <1>2, <1>3, <1>5, <2>1, SortedAlready
  <1>7. LL = [k \in 1..n |-> LL[k]]
    <2>1. LL = [k \in DOMAIN L |-> LL[k]] BY DEF ListAll, StableSort
    <2> QED BY <1>2, <2>1
  <1> HIDE DEF LL, R
  <1>8. LL \in Seq(R) /\ Len(LL) = n
    <2>1. \A k \in 1..n : LL[k] \in R BY <1>5, <1>6
    <2> HIDE DEF n
    <2> QED BY <1>1, <1>7, <2>1
  <1>9. PageSize \in Nat /\ PageSize # 0 BY CaseQueueAssumption
  <1>10. o \in Nat /\ o <= n /\ o <= offset /\ o \in {offset, n}
    <2> DEFINE S == {offset, n}
    <2>1. S = {offset, n} /\ o = SmallestOf(S) /\ n \in Int /\ offset \in Int BY <1>1
    <2> HIDE DEF n, S, o
    <2>2. SmallestOf(S) \in {offset, n} /\ SmallestOf(S) <= offset /\ SmallestOf(S) <= n
      BY <2>1, TheSmaller
    <2> QED BY <1>1, <2>1, <2>2
  <1>11. e \in Nat /\ e <= n /\ e \in {n, o + PageSize}
    <2> DEFINE b == o + PageSize
               S == {n, b}
    <2>1. S = {n, b} /\ e = SmallestOf(S) /\ n \in Int /\ b \in Nat BY <1>1, <1>9, <1>10
    <2> HIDE DEF n, S, e, b
    <2>2. SmallestOf(S) \in {n, b} /\ SmallestOf(S) <= n BY <2>1, TheSmaller
    <2>3. e \in Nat /\ e <= n /\ e \in {n, b} BY <1>1, <2>1, <2>2
    <2> QED BY <2>3 DEF b
  <1>12. page = SubSeq(LL, o + 1, e) BY <1>4, <1>8
  <1> HIDE DEF n, o, e, page
  <1>13. \A k \in (o + 1)..e : LL[k] \in R BY <1>5, <1>6, <1>1, <1>10, <1>11
  <1>14. /\ page \in Seq(R)
         /\ Len(page) = IF o + 1 <= e THEN e - (o + 1) + 1 ELSE 0
         /\ \A k \in 1..(e - (o + 1) + 1) : page[k] = LL[(o + 1) + k - 1]
    <2>1. o + 1 \in 1..(Len(LL) + 1) /\ e \in 0..Len(LL) BY <1>1, <1>8, <1>10, <1>11
    <2> QED BY <1>8, <1>12, <2>1, SubSeqProperties
  <1>15. ASSUME NEW i \in 1..n, Cardinality(ListedTo(rows, i)) > offset,
                Cardinality(ListedTo(rows, i)) <= offset + PageSize
         PROVE  \E k \in DOMAIN page : page[k] = rows[i]
    <2> DEFINE r == Cardinality(ListedTo(rows, i))
               k == r - o
    <2>1. r \in 1..n /\ L[r] = rows[i] /\ r > offset /\ r <= offset + PageSize BY <1>2, <1>15
    <2> HIDE DEF r
    <2>2. o = offset /\ r <= e BY <1>1, <1>9, <1>10, <1>11, <2>1
    <2>3. k \in 1..(e - (o + 1) + 1) /\ (o + 1) + k - 1 = r BY <1>1, <1>10, <1>11, <2>1, <2>2
    <2>4. page[k] = rows[i] BY <1>6, <1>14, <2>1, <2>3
    <2>5. k \in 1..Len(page) BY <1>10, <1>11, <1>14, <2>3
    <2>6. DOMAIN page = 1..Len(page) BY <1>14
    <2> QED BY <2>4, <2>5, <2>6
  <1> QED BY <1>1, <1>2, <1>14, <1>15 DEF page, R, n

(* ---- the dump and its copy ----------------------------------------------- *)
LEMMA DetailIs ==
  ASSUME NEW c, IsRow(c)
  PROVE  IsRow(CaseToDetail(c)) /\ CaseToDetail(c).id = c.id
  <1> DEFINE d == CaseToDetail(c)
  <1>1. \A f \in {"id", "created", "status"} : f \in DOMAIN d /\ d[f] = c[f]
    BY DEF CaseToDetail, IsRow
  <1> HIDE DEF d
  <1>2. d["id"] = c["id"] /\ d["created"] = c["created"] /\ d["status"] = c["status"] BY <1>1
  <1>3. IsRow(d) BY <1>1, <1>2 DEF IsRow
  <1> QED BY <1>2, <1>3 DEF d

LEMMA CopyIs ==
  ASSUME NEW d, IsRow(d)
  PROVE  IsRow(DomainCaseFromDetail(d)) /\ DomainCaseFromDetail(d).id = d.id
  <1> DEFINE c == DomainCaseFromDetail(d)
  <1>1. \A f \in {"id", "created", "status"} : f \in DOMAIN c /\ c[f] = d[f]
    BY DEF DomainCaseFromDetail, IsRow
  <1> HIDE DEF c
  <1>2. c["id"] = d["id"] /\ c["created"] = d["created"] /\ c["status"] = d["status"] BY <1>1
  <1>3. IsRow(c) BY <1>1, <1>2 DEF IsRow
  <1> QED BY <1>2, <1>3 DEF c

(* An import is a step for each detail; after each of them the rows are a    *)
(* table.                                                                    *)
AfterOne(was, detail, mode) ==
  IF mode = "skip_existing" /\ detail.id \in IdsOf(was.rows)
  THEN [was EXCEPT !.skipped = @ + 1]
  ELSE [was EXCEPT !.rows = Upsert(@, DomainCaseFromDetail(detail)), !.imported = @ + 1]

StepByStep(g, rows, details, mode) ==
  /\ Import(rows, details, mode) = g[Len(details)]
  /\ g[0] = [rows |-> rows, imported |-> 0, skipped |-> 0]
  /\ \A n \in 1..Len(details) : g[n] = AfterOne(g[n - 1], details[n], mode)

LEMMA ImportRuns ==
  ASSUME NEW rows, NEW details, NEW mode, Len(details) \in Nat
  PROVE  \E g : StepByStep(g, rows, details, mode)
  <1> DEFINE m == Len(details)
             First == [rows |-> rows, imported |-> 0, skipped |-> 0]
             Step(g, n) == IF n = 0 THEN First ELSE AfterOne(g[n - 1], details[n], mode)
             Runs(g, k) == g = [n \in 0..k |-> Step(g, n)]
             step == CHOOSE g : g = [n \in 0..m |-> Step(g, n)]
             Known == {k \in Nat : \E g : Runs(g, k)}
  <1>1. Import(rows, details, mode) = step[m] BY DEF Import, AfterOne
  <1> HIDE DEF m, First
  <1>2. 0 \in Known
    <2> DEFINE g == [n \in 0..0 |-> First]
    <2>1. Runs(g, 0) OBVIOUS
    <2> QED BY <2>1
  <1>3. ASSUME NEW k \in Nat, k \in Known PROVE k + 1 \in Known
    <2>1. PICK g : Runs(g, k) BY <1>3
    <2> DEFINE h == [n \in 0..(k + 1) |-> Step(g, n)]
    <2>2. \A n \in 0..(k + 1) : n # 0 => n - 1 \in 0..k BY <1>3
    <2>3. \A n \in 0..k : n \in 0..(k + 1) BY <1>3
    <2>4. \A n \in 0..k : h[n] = g[n] BY <2>1, <2>3
    <2> HIDE DEF h
    <2>5. \A n \in 0..(k + 1) : Step(h, n) = Step(g, n) BY <2>2, <2>4
    <2> USE DEF h
    <2>6. Runs(h, k + 1)
      <3> HIDE DEF Step
      <3> QED BY <2>5
    <2> HIDE DEF Runs
    <2>7. k + 1 \in Nat BY <1>3
    <2> QED BY <2>6, <2>7
  <1>4. m \in Known
    <2> HIDE DEF Known
    <2> QED BY <1>2, <1>3, Induction DEF m
  <1>5. step = [n \in 0..m |-> Step(step, n)]
    <2> HIDE DEF Step
    <2> QED BY <1>4, Zenon
  <1> HIDE DEF step
  <1>6. \A n \in 0..m : step[n] = Step(step, n)
    <2> HIDE DEF Step
    <2> QED BY <1>5
  <1>7. m \in Nat BY DEF m
  <1>8. 0 \in 0..m /\ \A n \in 1..m : n \in 0..m /\ n # 0 BY <1>7
  <1>9. step[0] = First BY <1>6, <1>8
  <1>10. \A n \in 1..m : step[n] = AfterOne(step[n - 1], details[n], mode) BY <1>6, <1>8
  <1> QED BY <1>1, <1>9, <1>10 DEF m, First, StepByStep

LEMMA ImportedIsTable ==
  ASSUME NEW rows, IsCaseTable(rows), NEW details, NEW mode,
         details \in Seq({details[i] : i \in DOMAIN details}), \A i \in DOMAIN details : IsRow(details[i])
  PROVE  IsCaseTable(Import(rows, details, mode).rows)
  <1> DEFINE m == Len(details)
             F == {"rows", "imported", "skipped"}
             Fits(w) == DOMAIN w = F /\ IsCaseTable(w.rows)
  <1>1. m \in Nat /\ DOMAIN details = 1..m OBVIOUS
  <1>2. PICK g : /\ Import(rows, details, mode) = g[m]
                 /\ g[0] = [rows |-> rows, imported |-> 0, skipped |-> 0]
                 /\ \A n \in 1..m : g[n] = AfterOne(g[n - 1], details[n], mode)
    <2>1. PICK g : StepByStep(g, rows, details, mode) BY <1>1, ImportRuns
    <2> QED BY <2>1 DEF StepByStep
  <1>3. ASSUME NEW w, Fits(w), NEW d, IsRow(d) PROVE Fits(AfterOne(w, d, mode))
    <2> DEFINE new == AfterOne(w, d, mode)
    <2>1. DOMAIN new = F BY <1>3 DEF AfterOne
    <2>2. new.rows = w.rows \/ new.rows = Upsert(w.rows, DomainCaseFromDetail(d))
      BY <1>3 DEF AfterOne
    <2>3. IsRow(DomainCaseFromDetail(d)) BY <1>3, CopyIs
    <2>4. IsCaseTable(Upsert(w.rows, DomainCaseFromDetail(d))) BY <1>3, <2>3, Upserted
    <2> HIDE DEF new
    <2>5. IsCaseTable(new.rows) BY <1>3, <2>2, <2>4
    <2> QED BY <2>1, <2>5 DEF new
  <1> DEFINE S == {n \in Nat : n <= m => Fits(g[n])}
  <1> HIDE DEF m
  <1>4. 0 \in S
    <2>1. DOMAIN g[0] = F /\ g[0].rows = rows BY <1>2
    <2> QED BY <2>1
  <1>5. ASSUME NEW n \in Nat, n \in S PROVE n + 1 \in S
    <2> SUFFICES ASSUME n + 1 <= m PROVE Fits(g[n + 1]) OBVIOUS
    <2>1. n + 1 \in 1..m /\ (n + 1) - 1 = n /\ n <= m BY <1>1
    <2>2. g[n + 1] = AfterOne(g[n], details[n + 1], mode) BY <1>2, <2>1
    <2> HIDE DEF Fits
    <2>3. Fits(g[n]) BY <1>5, <2>1
    <2>4. IsRow(details[n + 1]) BY <1>1, <2>1
    <2> QED BY <1>3, <2>2, <2>3, <2>4
  <1>6. m \in S
    <2> HIDE DEF S
    <2> QED BY <1>1, <1>4, <1>5, Induction
  <1>7. Fits(g[m]) BY <1>1, <1>6
  <1> QED BY <1>2, <1>7 DEF m

(* ---- the walk over the export -------------------------------------------- *)
LEMMA RowsOfTable ==
  ASSUME NEW rows, IsCaseTable(rows), NEW new, new = [i \in DOMAIN rows |-> Row(rows[i])]
  PROVE  IsCaseTable(new) /\ \A i \in DOMAIN new : WholeSecond(new[i].created) = new[i].created
  <1>1. Len(rows) \in Nat /\ DOMAIN rows = 1..Len(rows) /\ \A i \in DOMAIN rows : IsRow(rows[i])
    BY TableFacts
  <1>2. \A i \in DOMAIN rows : /\ IsRow(new[i]) /\ new[i].id = rows[i].id
                               /\ WholeSecond(new[i].created) = new[i].created
    BY <1>1, RowIs
  <1>3. DOMAIN new = 1..Len(rows) /\ new = [i \in 1..Len(rows) |-> new[i]] BY <1>1
  <1>4. new \in Seq({new[i] : i \in DOMAIN new})
    <2> HIDE DEF Row
    <2>1. \A i \in 1..Len(rows) : new[i] \in {new[j] : j \in DOMAIN new} BY <1>3
    <2> QED BY <1>1, <1>3, <2>1
  <1>5. \A i, j \in DOMAIN new : new[i].id = new[j].id => i = j
    BY <1>1, <1>2, <1>3 DEF IsCaseTable
  <1> QED BY <1>1, <1>2, <1>3, <1>4, <1>5 DEF IsCaseTable

LEMMA QueueStarts == QueueInit => QueueInv
  <1> SUFFICES ASSUME QueueInit PROVE QueueInv OBVIOUS
  <1>1. IsCaseTable(Stored) /\ IsCaseTable(Standby) /\ MaxWrites \in Nat BY CaseQueueAssumption
  <1>2. /\ IsCaseTable(table) /\ IsCaseTable(standby)
        /\ \A i \in DOMAIN table : WholeSecond(table[i].created) = table[i].created
    BY <1>1, RowsOfTable DEF QueueInit
  <1>3. walk = [at |-> "idle", offset |-> 0] /\ dump = <<>> /\ writes = 0 /\ owed = {} BY DEF QueueInit
  <1>4. QueueTypeOK BY <1>1, <1>2, <1>3 DEF QueueTypeOK
  <1>5. dump \in Seq({dump[i] : i \in DOMAIN dump}) /\ DOMAIN dump = {} BY <1>3
  <1> QED BY <1>2, <1>3, <1>4, <1>5 DEF QueueInv, WalkKeepsUp

LEMMA WrittenKeeps ==
  ASSUME QueueInv, NEW card, IsRow(card), Written(card),
         owed' \subseteq owed, owed \subseteq owed' \cup {card.id},
         \A j \in DOMAIN table : table[j].id = card.id /\ card.id \in owed'
           => WholeSecond(card.created) = table[j].created,
         ~sunk' => ~sunk /\ \A j \in DOMAIN table : table[j].id = card.id
                              => WholeSecond(card.created) >= table[j].created
  PROVE  QueueInv'
  <1>1. table' = Upsert(table, card) /\ writes < MaxWrites /\ writes' = writes + 1
    BY DEF Written
  <1>2. walk' = walk /\ dump' = dump /\ standby' = standby BY DEF Written
  <1>3. /\ IsCaseTable(table) /\ IsCaseTable(standby) /\ writes \in 0..MaxWrites
        /\ walk.at \in {"idle", "walking", "done"} /\ WalkKeepsUp
        /\ \A i \in DOMAIN table : WholeSecond(table[i].created) = table[i].created
    BY DEF QueueInv, QueueTypeOK
  <1>4. /\ IsCaseTable(table') /\ IdsOf(table') = IdsOf(table) \cup {card.id}
        /\ DOMAIN table \subseteq DOMAIN table'
        /\ \A i \in DOMAIN table : table'[i] = IF table[i].id = card.id THEN Row(card) ELSE table[i]
        /\ \A i \in DOMAIN table' \ DOMAIN table : table'[i] = Row(card)
    BY <1>1, <1>3, Upserted
  <1>5. /\ Row(card).id = card.id /\ Row(card).created = WholeSecond(card.created)
        /\ WholeSecond(Row(card).created) = Row(card).created
    BY RowIs
  <1>6. ASSUME NEW i \in DOMAIN table' PROVE WholeSecond(table'[i].created) = table'[i].created
    <2>1. table'[i] = Row(card) \/ (i \in DOMAIN table /\ table'[i] = table[i]) BY <1>4
    <2> QED BY <1>3, <1>5, <2>1
  <1>7. QueueTypeOK'
    <2>1. MaxWrites \in Nat BY CaseQueueAssumption
    <2>2. writes' \in 0..MaxWrites BY <1>1, <1>3, <2>1
    <2> QED BY <1>2, <1>3, <1>4, <2>2 DEF QueueTypeOK
  <1>8. owed' \subseteq IdsOf(table') BY <1>3, <1>4 DEF WalkKeepsUp
  <1>9. ASSUME ~sunk', NEW i \in DOMAIN table', table'[i].id \in owed', table'[i].id \notin IdsOf(dump')
        PROVE  walk'.at # "done" /\ Cardinality(ListedTo(table', i)) > walk'.offset
    <2>1. i \in DOMAIN table /\ table[i].id = table'[i].id
      <3>1. CASE i \in DOMAIN table BY <3>1, <1>4, <1>5
      <3>2. CASE i \notin DOMAIN table
        <4>1. table'[i].id = card.id BY <3>2, <1>4, <1>5
        <4>2. card.id \in IdsOf(table) BY <4>1, <1>9, <1>3 DEF WalkKeepsUp
        <4>3. PICK j \in DOMAIN table : table[j].id = card.id BY <4>2 DEF IdsOf
        <4>4. table'[j].id = card.id /\ j \in DOMAIN table' BY <4>3, <1>4, <1>5
        <4>5. i = j BY <4>1, <4>4, <1>4 DEF IsCaseTable
        <4> QED BY <3>2, <4>5
      <3> QED BY <3>1, <3>2
    <2>2. ~sunk /\ table[i].id \in owed /\ table[i].id \notin IdsOf(dump) BY <1>2, <1>9, <2>1
    <2>3. walk.at # "done" /\ Cardinality(ListedTo(table, i)) > walk.offset
      BY <1>3, <2>1, <2>2 DEF WalkKeepsUp
    <2>4. table[i].id = card.id => Row(card).created = table[i].created BY <1>5, <1>9, <2>1
    <2>5. \A j \in DOMAIN table : table[j].id = card.id => Row(card).created >= table[j].created
      BY <1>5, <1>9
    <2>6. /\ Cardinality(ListedTo(table, i)) \in Nat /\ Cardinality(ListedTo(table', i)) \in Nat
          /\ Cardinality(ListedTo(table', i)) >= Cardinality(ListedTo(table, i))
      BY <1>1, <1>3, <2>1, <2>4, <2>5, StandsNoNearer
    <2>7. walk.offset \in Nat BY DEF QueueInv
    <2> QED BY <1>2, <2>3, <2>6, <2>7
  <1>10. WalkKeepsUp' BY <1>8, <1>9 DEF WalkKeepsUp
  <1> QED BY <1>2, <1>6, <1>7, <1>10 DEF QueueInv

LEMMA RowAt ==
  ASSUME NEW rows, IsCaseTable(rows), NEW id \in IdsOf(rows)
  PROVE  /\ IsRow(RowOf(rows, id)) /\ RowOf(rows, id).id = id
         /\ \A j \in DOMAIN rows : rows[j].id = id => rows[j] = RowOf(rows, id)
  <1>1. \E i \in DOMAIN rows : rows[i].id = id BY DEF IdsOf
  <1>2. PICK i \in DOMAIN rows : rows[i].id = id /\ RowOf(rows, id) = rows[i] BY <1>1 DEF RowOf
  <1> QED BY <1>2 DEF IsCaseTable

LEMMA WholeGrows ==
  ASSUME NEW a \in Int, NEW b \in Int, a <= b, WholeSecond(a) = a
  PROVE  WholeSecond(b) >= a
  <1> DEFINE p == a \div 10
             q == b \div 10
  <1>1. p \in Int /\ q \in Int /\ a = 10 * p + (a % 10) /\ b = 10 * q + (b % 10) OBVIOUS
  <1>2. a % 10 \in 0..9 /\ b % 10 \in 0..9 OBVIOUS
  <1>3. a % 10 = 0 BY <1>2 DEF WholeSecond
  <1> HIDE DEF p, q
  <1>4. p <= q BY <1>1, <1>2, <1>3
  <1>5. WholeSecond(b) = 10 * q BY <1>1, <1>2 DEF WholeSecond
  <1> QED BY <1>1, <1>3, <1>4, <1>5

LEMMA WritesKeep ==
  ASSUME QueueInv,
         \/ \E card \in Newcomers : Arrive(card)
         \/ \E id \in IdsOf(table) : Close(id)
         \/ \E id \in IdsOf(table), card \in Newcomers : Rebuild(id, card.created)
  PROVE  QueueInv'
  <1>1. /\ IsCaseTable(table)
        /\ \A i \in DOMAIN table : WholeSecond(table[i].created) = table[i].created
    BY DEF QueueInv, QueueTypeOK
  <1>2. \A card \in Newcomers : IsRow(card) BY CaseQueueAssumption
  <1>3. ASSUME NEW card \in Newcomers, Arrive(card) PROVE QueueInv'
    <2>1. Written(card) /\ owed' = owed /\ sunk' = sunk BY <1>3 DEF Arrive
    <2>2. \A j \in DOMAIN table : table[j].id # card.id BY <1>3 DEF Arrive, IdsOf
    <2> QED BY <1>2, <2>1, <2>2, WrittenKeeps
  <1>4. ASSUME NEW id \in IdsOf(table), Close(id) PROVE QueueInv'
    <2> DEFINE old == RowOf(table, id)
               card == [old EXCEPT !.status = "CONFIRMED",
                                   !.decisions = Append(@, [from |-> old.status, to |-> "CONFIRMED"])]
    <2>1. /\ IsRow(old) /\ old.id = id
          /\ \A j \in DOMAIN table : table[j].id = id => table[j] = old
      BY <1>1, RowAt
    <2>2. Written(card) /\ owed' = owed /\ sunk' = sunk BY <1>4 DEF Close
    <2> HIDE DEF old
    <2>3. IsRow(card) /\ card.id = id /\ card.created = old.created
      BY <2>1 DEF IsRow, CaseStatuses
    <2> HIDE DEF card
    <2>4. \A j \in DOMAIN table : table[j].id = card.id => WholeSecond(card.created) = table[j].created
      BY <1>1, <2>1, <2>3
    <2>5. \A j \in DOMAIN table : table[j].created \in Int BY <1>1, TableFacts
    <2>6. \A j \in DOMAIN table : table[j].id = card.id => WholeSecond(card.created) >= table[j].created
      BY <2>4, <2>5
    <2> QED BY <2>2, <2>3, <2>4, <2>6, WrittenKeeps
  <1>5. ASSUME NEW id \in IdsOf(table), NEW one \in Newcomers, Rebuild(id, one.created) PROVE QueueInv'
    <2> DEFINE old == RowOf(table, id)
               latest == one.created
               card == [old EXCEPT !.created = latest]
    <2>1. /\ IsRow(old) /\ old.id = id
          /\ \A j \in DOMAIN table : table[j].id = id => table[j] = old
      BY <1>1, RowAt
    <2>2. Written(card) /\ owed' = owed \ {id} /\ sunk' = (sunk \/ latest < old.created)
      BY <1>5 DEF Rebuild
    <2>3. latest \in Int BY <1>2 DEF IsRow
    <2> HIDE DEF old, latest
    <2>4. IsRow(card) /\ card.id = id /\ card.created = latest BY <2>1, <2>3 DEF IsRow
    <2> HIDE DEF card
    <2>5. ASSUME NEW j \in DOMAIN table, table[j].id = card.id, ~sunk'
          PROVE  WholeSecond(card.created) >= table[j].created
      <3>1. table[j].created = old.created /\ old.created \in Int /\ ~(latest < old.created)
        BY <2>1, <2>2, <2>4, <2>5 DEF IsRow
      <3>2. WholeSecond(old.created) = old.created BY <1>1, <3>1
      <3>3. WholeSecond(latest) >= old.created BY <2>3, <3>1, <3>2, WholeGrows
      <3> QED BY <2>4, <3>1, <3>3
    <2>6. ~sunk' => ~sunk BY <2>2
    <2>7. card.id \notin owed' /\ owed' \subseteq owed /\ owed \subseteq owed' \cup {card.id}
      BY <2>2, <2>4
    <2> QED BY <2>2, <2>4, <2>5, <2>6, <2>7, WrittenKeeps
  <1> QED BY <1>3, <1>4, <1>5

LEMMA ExportKeeps == ASSUME QueueInv, ExportPage PROVE QueueInv'
  <1> DEFINE page == FullExport(table, walk.offset)
             more == [i \in DOMAIN page |-> CaseToDetail(page[i])]
             n == Len(table)
  <1>1. /\ IsCaseTable(table) /\ IsCaseTable(standby) /\ writes \in 0..MaxWrites
        /\ WalkKeepsUp /\ walk.offset \in Nat
        /\ dump \in Seq({dump[i] : i \in DOMAIN dump}) /\ \A i \in DOMAIN dump : IsRow(dump[i])
    BY DEF QueueInv, QueueTypeOK
  <1>2. /\ dump' = dump \o more
        /\ walk' = [at |-> IF walk.offset + PageSize < n THEN "walking" ELSE "done",
                    offset |-> walk.offset + PageSize]
        /\ owed' = IF walk.at = "idle" THEN IdsOf(table) ELSE owed
        /\ sunk' = (walk.at # "idle" /\ sunk)
        /\ table' = table /\ standby' = standby /\ writes' = writes
    BY DEF ExportPage
  <1>3. PageSize \in Nat /\ PageSize # 0 BY CaseQueueAssumption
  <1>4. /\ page \in Seq({table[i] : i \in DOMAIN table})
        /\ \A i \in DOMAIN table :
             /\ Cardinality(ListedTo(table, i)) \in 1..n
             /\ Cardinality(ListedTo(table, i)) > walk.offset
                /\ Cardinality(ListedTo(table, i)) <= walk.offset + PageSize
                  => \E k \in DOMAIN page : page[k] = table[i]
    BY <1>1, PageOfExport
  <1>5. n \in Nat /\ DOMAIN table = 1..n /\ \A i \in DOMAIN table : IsRow(table[i]) BY <1>1, TableFacts
  <1> HIDE DEF page, n
  <1>6. Len(page) \in Nat /\ DOMAIN page = 1..Len(page) /\ \A k \in DOMAIN page : IsRow(page[k])
    BY <1>4, <1>5
  <1>7. \A k \in DOMAIN page : IsRow(more[k]) /\ more[k].id = page[k].id BY <1>6, DetailIs
  <1>8. DOMAIN more = DOMAIN page /\ more = [k \in 1..Len(page) |-> more[k]] BY <1>6
  <1> HIDE DEF more
  <1>9. /\ dump' \in Seq({dump'[i] : i \in DOMAIN dump'}) /\ \A i \in DOMAIN dump' : IsRow(dump'[i])
        /\ \A i \in DOMAIN dump : i \in DOMAIN dump' /\ dump'[i] = dump[i]
        /\ \A k \in DOMAIN page : Len(dump) + k \in DOMAIN dump' /\ dump'[Len(dump) + k] = more[k]
    <2> DEFINE S == {dump[i] : i \in DOMAIN dump} \cup {more[k] : k \in DOMAIN more}
               d == Len(dump)
               p == Len(page)
    <2>1. dump \in Seq(S) /\ d \in Nat /\ DOMAIN dump = 1..d BY <1>1
    <2>2. more \in Seq(S) /\ Len(more) = p
      <3>1. \A k \in 1..p : more[k] \in S BY <1>6, <1>8
      <3> HIDE DEF S
      <3> QED BY <1>6, <1>8, <3>1
    <2>3. \A x \in S : IsRow(x) BY <1>1, <1>7, <1>8
    <2> HIDE DEF S, d, p
    <2>4. /\ dump' \in Seq(S) /\ Len(dump') = d + p
          /\ \A i \in 1..(d + p) : dump'[i] = IF i <= d THEN dump[i] ELSE more[i - d]
      BY <1>2, <2>1, <2>2, ConcatProperties DEF d
    <2>5. p \in Nat /\ DOMAIN page = 1..p BY <1>6 DEF p
    <2>6. DOMAIN dump' = 1..(d + p) BY <2>4
    <2>7. dump' \in Seq({dump'[i] : i \in DOMAIN dump'})
      <3>1. dump' = [i \in 1..(d + p) |-> dump'[i]] BY <2>4
      <3>2. d + p \in Nat BY <2>1, <2>5
      <3>3. \A i \in 1..(d + p) : dump'[i] \in {dump'[j] : j \in DOMAIN dump'} BY <2>6
      <3> QED BY <3>1, <3>2, <3>3
    <2>8. \A i \in DOMAIN dump' : IsRow(dump'[i]) BY <2>3, <2>4
    <2>9. \A i \in DOMAIN dump : i \in DOMAIN dump' /\ dump'[i] = dump[i]
      BY <2>1, <2>4, <2>5, <2>6
    <2>10. ASSUME NEW k \in DOMAIN page PROVE d + k \in DOMAIN dump' /\ dump'[d + k] = more[k]
      <3>1. d + k \in 1..(d + p) /\ ~(d + k <= d) /\ (d + k) - d = k BY <2>1, <2>5
      <3> QED BY <2>4, <2>6, <3>1
    <2> QED BY <2>7, <2>8, <2>9, <2>10 DEF d
  <1>10. ASSUME ~sunk', NEW i \in DOMAIN table, table[i].id \in owed', table[i].id \notin IdsOf(dump')
         PROVE  Cardinality(ListedTo(table, i)) > walk.offset + PageSize
    <2> DEFINE r == Cardinality(ListedTo(table, i))
    <2>1. table[i].id \notin IdsOf(dump) BY <1>9, <1>10 DEF IdsOf
    <2>2. r \in 1..n BY <1>4
    <2>3. r > walk.offset
      <3>1. CASE walk.at = "idle"
        <4>1. walk.offset = 0 BY <3>1 DEF QueueInv
        <4> QED BY <2>2, <4>1
      <3>2. CASE walk.at # "idle"
        <4>1. ~sunk /\ table[i].id \in owed BY <1>2, <1>10, <3>2
        <4> QED BY <1>1, <2>1, <4>1 DEF WalkKeepsUp
      <3> QED BY <3>1, <3>2
    <2>4. ASSUME r <= walk.offset + PageSize PROVE FALSE
      <3>1. PICK k \in DOMAIN page : page[k] = table[i] BY <1>4, <2>3, <2>4
      <3>2. dump'[Len(dump) + k].id = table[i].id /\ Len(dump) + k \in DOMAIN dump'
        BY <1>7, <1>9, <3>1
      <3> QED BY <1>10, <3>2 DEF IdsOf
    <2> HIDE DEF r
    <2>5. r > walk.offset + PageSize BY <1>1, <1>3, <1>5, <2>2, <2>4
    <2> QED BY <2>5 DEF r
  <1>11. owed' \subseteq IdsOf(table') BY <1>1, <1>2 DEF WalkKeepsUp
  <1>12. ASSUME ~sunk', NEW i \in DOMAIN table', table'[i].id \in owed', table'[i].id \notin IdsOf(dump')
         PROVE  walk'.at # "done" /\ Cardinality(ListedTo(table', i)) > walk'.offset
    <2>1. Cardinality(ListedTo(table, i)) > walk.offset + PageSize BY <1>2, <1>10, <1>12
    <2>2. Cardinality(ListedTo(table, i)) \in 1..n BY <1>2, <1>4, <1>12
    <2>3. walk.offset + PageSize < n BY <1>1, <1>3, <1>5, <2>1, <2>2
    <2>4. walk'.at = "walking" /\ walk'.offset = walk.offset + PageSize BY <1>2, <2>3
    <2> QED BY <1>2, <2>1, <2>4
  <1>13. WalkKeepsUp' BY <1>11, <1>12 DEF WalkKeepsUp
  <1>14. walk' \in [at : {"idle", "walking", "done"}, offset : Nat] /\ walk'.at \in {"idle", "walking", "done"}
    BY <1>1, <1>2, <1>3
  <1>17. walk'.at # "idle" BY <1>2
  <1>15. QueueTypeOK' BY <1>1, <1>2, <1>14 DEF QueueTypeOK
  <1>16. \A i \in DOMAIN table' : WholeSecond(table'[i].created) = table'[i].created BY <1>2 DEF QueueInv
  <1> QED BY <1>9, <1>13, <1>14, <1>15, <1>16, <1>17 DEF QueueInv

LEMMA ImportKeeps == ASSUME QueueInv, NEW mode, ImportCases(mode) PROVE QueueInv'
  <1>1. /\ IsCaseTable(standby)
        /\ dump \in Seq({dump[i] : i \in DOMAIN dump}) /\ \A i \in DOMAIN dump : IsRow(dump[i])
    BY DEF QueueInv, QueueTypeOK
  <1>2. /\ standby' = Import(standby, dump, mode).rows
        /\ UNCHANGED <<table, walk, dump, writes, owed, sunk>>
    BY DEF ImportCases
  <1>3. IsCaseTable(standby') BY <1>1, <1>2, ImportedIsTable
  <1> QED BY <1>2, <1>3 DEF QueueInv, QueueTypeOK, WalkKeepsUp

LEMMA QueueSteps == QueueInv /\ [QueueNext]_queueVars => QueueInv'
  <1> SUFFICES ASSUME QueueInv, [QueueNext]_queueVars PROVE QueueInv' OBVIOUS
  <1>1. CASE UNCHANGED queueVars
    BY <1>1 DEF queueVars, QueueInv, QueueTypeOK, WalkKeepsUp
  <1>2. CASE QueueNext
    BY <1>2, WritesKeep, ExportKeeps, ImportKeeps DEF QueueNext
  <1> QED BY <1>1, <1>2

(* The tables of the two instances stay tables, and the walk over the export *)
(* keeps up with the writes.                                                 *)
THEOREM QueueInductive == QueueSpec => []QueueInv
  BY QueueStarts, QueueSteps, PTL DEF QueueSpec

(* An export made page by page while cases arrive, are closed and rebuilt    *)
(* holds every case that stood in the table when it began and was not        *)
(* re-dated meanwhile, unless an incident was dated back.                    *)
THEOREM ExportIsComplete == QueueSpec => []ExportMissesNothing
  <1>1. QueueInv => ExportMissesNothing
    <2> SUFFICES ASSUME QueueInv, walk.at = "done", ~sunk, NEW id \in owed PROVE id \in IdsOf(dump)
      BY DEF ExportMissesNothing
    <2>1. WalkKeepsUp BY DEF QueueInv
    <2>2. PICK i \in DOMAIN table : table[i].id = id BY <2>1 DEF WalkKeepsUp, IdsOf
    <2> QED BY <2>1, <2>2 DEF WalkKeepsUp
  <1> QED BY <1>1, QueueInductive, PTL

(* ---- pages of a search --------------------------------------------------- *)
LEMMA NewerOrders ==
  ASSUME NEW events, ByIds(events), NEW hits, hits \subseteq DOMAIN events,
         NEW R, \A i, j \in hits : <<i, j>> \in R <=> Newer(events[i], events[j])
  PROVE  /\ StrictlyOrders(R, hits)
         /\ \A i \in hits : Ahead(R, hits, i) = {j \in hits : Newer(events[j], events[i])}
  <1>1. \A i, j \in hits : <<i, j>> \in R <=> Newer(events[i], events[j]) OBVIOUS
  <1>2. \A i \in hits : events[i].id = i /\ i \in Int /\ events[i].at \in Int BY DEF ByIds, IsEvent
  <1>3. \A i \in hits : ~Newer(events[i], events[i]) BY <1>2 DEF Newer
  <1>4. \A i, j \in hits : i # j => Newer(events[i], events[j]) \/ Newer(events[j], events[i])
    BY <1>2 DEF Newer
  <1>5. \A i, j, k \in hits : Newer(events[i], events[j]) /\ Newer(events[j], events[k])
                                => Newer(events[i], events[k])
    BY <1>2 DEF Newer
  <1>6. StrictlyOrders(R, hits) BY <1>1, <1>3, <1>4, <1>5 DEF StrictlyOrders
  <1>7. \A i \in hits : Ahead(R, hits, i) = {j \in hits : Newer(events[j], events[i])}
    BY <1>1 DEF Ahead
  <1> QED BY <1>6, <1>7

LEMMA MatchingIsFinite ==
  ASSUME NEW events, ByIds(events), NEW criteria
  PROVE  LET hits == Matching(events, criteria)
         IN /\ hits \subseteq DOMAIN events /\ IsFiniteSet(hits)
            /\ Cardinality(hits) \in Nat /\ Cardinality(DOMAIN events) \in Nat
            /\ Cardinality(hits) <= Cardinality(DOMAIN events)
  <1>1. Matching(events, criteria) \subseteq DOMAIN events BY DEF Matching
  <1>2. IsFiniteSet(DOMAIN events) BY DEF ByIds
  <1> QED BY <1>1, <1>2, FS_Subset, FS_CardinalityType

(* The places of the events of a search are 0 .. n - 1, and a page holds as  *)
(* many events as its places, while there are that many.                     *)
LEMMA PagesHold ==
  ASSUME NEW events, ByIds(events), NEW criteria, NEW a \in Nat, NEW n \in Nat
  PROVE  /\ \A i \in Matching(events, criteria) :
              Place(events, criteria, i) \in 0..(Cardinality(Matching(events, criteria)) - 1)
         /\ a + n <= Cardinality(Matching(events, criteria)) =>
              Cardinality(PageOf(events, criteria, a, n)) = n
         /\ a <= Cardinality(Matching(events, criteria)) /\ Cardinality(Matching(events, criteria)) <= a + n =>
              Cardinality(PageOf(events, criteria, a, n)) = Cardinality(Matching(events, criteria)) - a
         /\ Cardinality(Matching(events, criteria)) <= a => PageOf(events, criteria, a, n) = {}
  <1> DEFINE hits == Matching(events, criteria)
             page == PageOf(events, criteria, a, n)
  <1>a. \A i \in hits : i \in page <=> a <= Place(events, criteria, i) /\ Place(events, criteria, i) < a + n
    BY DEF PageOf
  <1>b. page \subseteq hits BY DEF PageOf
  <1>c. hits = Matching(events, criteria) OBVIOUS
  <1> HIDE DEF page, hits
  <1> DEFINE R == {p \in hits \X hits : Newer(events[p[1]], events[p[2]])}
             P == PlaceOf(R, hits)
             h == Cardinality(hits)
  <1>1. hits \subseteq DOMAIN events /\ IsFiniteSet(hits) /\ h \in Nat BY MatchingIsFinite DEF hits
  <1>0. \A i, j \in hits : <<i, j>> \in R <=> Newer(events[i], events[j]) OBVIOUS
  <1> HIDE DEF R
  <1>2. /\ StrictlyOrders(R, hits)
        /\ \A i \in hits : Ahead(R, hits, i) = {j \in hits : Newer(events[j], events[i])}
    <2>1. ByIds(events) OBVIOUS
    <2>2. hits \subseteq DOMAIN events BY <1>1
    <2>3. StrictlyOrders(R, hits) BY <2>1, <2>2, <1>0, NewerOrders
    <2>4. ASSUME NEW i \in hits PROVE Ahead(R, hits, i) = {j \in hits : Newer(events[j], events[i])}
      BY <2>1, <2>2, <1>0, NewerOrders
    <2> QED BY <2>3, <2>4
  <1>3. \A i \in hits : P[i] = Cardinality(Ahead(R, hits, i)) BY DEF PlaceOf
  <1>4. \A i \in hits : Place(events, criteria, i) = Cardinality({j \in hits : Newer(events[j], events[i])})
    BY <1>c DEF Place
  <1>5. \A i \in hits : Place(events, criteria, i) = P[i] BY <1>2, <1>3, <1>4, Zenon
  <1>6. P \in [hits -> 0..(h - 1)] BY <1>1, <1>2, PlacesAreTaken
  <1> HIDE DEF P
  <1>7. page = {i \in hits : a <= P[i] /\ P[i] < a + n} BY <1>5, <1>a, <1>b
  <1>8. ASSUME a + n <= h PROVE Cardinality(page) = n
    <2> DEFINE b == a + n
    <2>1. b \in Nat /\ a <= b /\ b <= h /\ b - a = n BY <1>8
    <2>2. page = {i \in hits : a <= P[i] /\ P[i] < b} BY <1>7
    <2> HIDE DEF b, h
    <2>3. Cardinality(page) = b - a BY <1>1, <1>2, <2>1, <2>2, PageHolds DEF P, h
    <2> QED BY <2>1, <2>3
  <1>9. ASSUME a <= h, h <= a + n PROVE Cardinality(page) = h - a
    <2>1. \A i \in hits : P[i] < a + n <=> P[i] < h BY <1>1, <1>6, <1>9
    <2>2. page = {i \in hits : a <= P[i] /\ P[i] < h} BY <1>7, <2>1
    <2> HIDE DEF h
    <2> QED BY <1>1, <1>2, <1>9, <2>2, PageHolds DEF P, h
  <1>10. ASSUME h <= a PROVE page = {} BY <1>1, <1>6, <1>7, <1>10
  <1>11. \A i \in hits : Place(events, criteria, i) \in 0..(h - 1) BY <1>5, <1>6
  <1> QED BY <1>8, <1>9, <1>10, <1>11 DEF page, hits

(* ---- events in their order ----------------------------------------------- *)
Apart(S) == IsFiniteSet(S) /\ \A e, f \in S : IsEvent(e) /\ (e.id = f.id => e = f)

LEMMA BeforeOrders ==
  ASSUME NEW S, Apart(S), NEW R, R = {p \in S \X S : Before(p[1], p[2])}
  PROVE  /\ StrictlyOrders(R, S)
         /\ \A e \in S : Ahead(R, S, e) = {f \in S : Before(f, e)}
  <1>1. \A e, f \in S : <<e, f>> \in R <=> Before(e, f) OBVIOUS
  <1>2. \A e \in S : e.id \in Int /\ e.at \in Int BY DEF Apart, IsEvent
  <1>3. \A e \in S : ~Before(e, e) BY <1>2 DEF Before
  <1>4. \A e, f \in S : e # f => e.id # f.id BY DEF Apart
  <1>5. \A e, f \in S : e # f => Before(e, f) \/ Before(f, e) BY <1>2, <1>4 DEF Before
  <1>6. \A e, f, g \in S : Before(e, f) /\ Before(f, g) => Before(e, g) BY <1>2 DEF Before
  <1>7. StrictlyOrders(R, S) BY <1>1, <1>3, <1>5, <1>6 DEF StrictlyOrders
  <1>8. \A e \in S : Ahead(R, S, e) = {f \in S : Before(f, e)} BY <1>1 DEF Ahead
  <1> QED BY <1>7, <1>8

(* Ordered puts each of them at one place.                                   *)
LEMMA OrderedIsAll ==
  ASSUME NEW S, Apart(S)
  PROVE  /\ Cardinality(S) \in Nat /\ DOMAIN Ordered(S) = 1..Cardinality(S)
         /\ \A k \in 1..Cardinality(S) : Ordered(S)[k] \in S
         /\ Range(Ordered(S)) = S
         /\ \A k, m \in 1..Cardinality(S) : Ordered(S)[k] = Ordered(S)[m] => k = m
  <1> DEFINE R == {p \in S \X S : Before(p[1], p[2])}
             P == PlaceOf(R, S)
             n == Cardinality(S)
             O == Ordered(S)
  <1>1. IsFiniteSet(S) BY DEF Apart
  <1>2. n \in Nat BY <1>1, FS_CardinalityType
  <1>3. StrictlyOrders(R, S) /\ \A e \in S : Ahead(R, S, e) = {f \in S : Before(f, e)} BY BeforeOrders
  <1>4. \A e \in S : P[e] = Cardinality({f \in S : Before(f, e)}) BY <1>3, Zenon DEF PlaceOf
  <1> HIDE DEF R
  <1>5. /\ P \in [S -> 0..(n - 1)]
        /\ \A x, y \in S : P[x] = P[y] => x = y
        /\ \A k \in 0..(n - 1) : \E x \in S : P[x] = k
    BY <1>1, <1>3, PlacesAreTaken
  <1> HIDE DEF P
  <1>6. O = [k \in 1..n |-> CHOOSE e \in S : Cardinality({f \in S : Before(f, e)}) + 1 = k] BY DEF Ordered
  <1> HIDE DEF O, n
  <1>7. ASSUME NEW k \in 1..n PROVE O[k] \in S /\ P[O[k]] = k - 1
    <2>1. k - 1 \in 0..(n - 1) BY <1>2
    <2>2. PICK x \in S : P[x] = k - 1 BY <1>5, <2>1
    <2>3. Cardinality({f \in S : Before(f, x)}) + 1 = k BY <1>4, <2>2
    <2>4. O[k] = CHOOSE e \in S : Cardinality({f \in S : Before(f, e)}) + 1 = k BY <1>6
    <2>5. O[k] \in S /\ Cardinality({f \in S : Before(f, O[k])}) + 1 = k BY <2>3, <2>4
    <2>6. P[O[k]] = Cardinality({f \in S : Before(f, O[k])}) BY <1>4, <2>5
    <2>7. P[O[k]] \in 0..(n - 1) BY <1>5, <2>5
    <2> QED BY <1>2, <2>5, <2>6, <2>7
  <1>8. DOMAIN O = 1..n BY <1>6
  <1>9. ASSUME NEW e \in S PROVE e \in Range(O)
    <2>1. P[e] \in 0..(n - 1) BY <1>5
    <2>2. P[e] + 1 \in 1..n BY <1>2, <2>1
    <2>3. O[P[e] + 1] \in S /\ P[O[P[e] + 1]] = (P[e] + 1) - 1 BY <1>7, <2>2
    <2>4. O[P[e] + 1] = e BY <1>5, <2>1, <2>3
    <2> QED BY <1>8, <2>2, <2>4 DEF Range
  <1>10. Range(O) \subseteq S BY <1>7, <1>8 DEF Range
  <1>11. \A k, m \in 1..n : O[k] = O[m] => k = m BY <1>2, <1>7
  <1>12. Range(O) = S BY <1>9, <1>10
  <1> QED BY <1>2, <1>7, <1>8, <1>11, <1>12 DEF O, n

(* ---- the walk ------------------------------------------------------------ *)
(* The events of the maps stay under their ids.                              *)
LEMMA FiledByIds ==
  ASSUME NEW events, ByIds(events), NEW e, IsEvent(e)
  PROVE  ByIds(Filed(events, e.id, e))
  <1> DEFINE new == Filed(events, e.id, e)
  <1>1. DOMAIN new = DOMAIN events \cup {e.id} BY DEF Filed
  <1>2. IsFiniteSet(DOMAIN events) BY DEF ByIds
  <1>3. IsFiniteSet(DOMAIN events \cup {e.id}) BY <1>2, FS_AddElement
  <1>4. \A i \in DOMAIN new : new[i].id = i /\ IsEvent(new[i]) BY DEF Filed, ByIds
  <1> HIDE DEF new
  <1>5. IsFiniteSet(DOMAIN new) BY <1>1, <1>3, Zenon
  <1> QED BY <1>4, <1>5 DEF ByIds, new

LEMMA FoundByIds ==
  ASSUME NEW events, ByIds(events), NEW found, ByIds(found), NEW page, page \subseteq DOMAIN events
  PROVE  ByIds([i \in page \cup DOMAIN found |-> IF i \in page THEN events[i] ELSE found[i]])
  <1> DEFINE new == [i \in page \cup DOMAIN found |-> IF i \in page THEN events[i] ELSE found[i]]
  <1>1. IsFiniteSet(page) BY FS_Subset DEF ByIds
  <1>2. IsFiniteSet(DOMAIN found) BY DEF ByIds
  <1>3. IsFiniteSet(page \cup DOMAIN found) BY <1>1, <1>2, FS_Union
  <1>4. DOMAIN new = page \cup DOMAIN found OBVIOUS
  <1>5. \A i \in DOMAIN new : new[i].id = i /\ IsEvent(new[i]) BY DEF ByIds
  <1> HIDE DEF new
  <1>6. IsFiniteSet(DOMAIN new) BY <1>3, <1>4, Zenon
  <1> QED BY <1>5, <1>6 DEF ByIds, new

(* An event that is still ahead is on the next page, or the page is full and *)
(* not the last.                                                             *)
LEMMA PageGoesOn ==
  ASSUME NEW events, ByIds(events), NEW criteria, NEW p \in 1..MaxPages, NEW a, a = EventPage * (p - 1),
         Cardinality(DOMAIN events) <= EventPage * MaxPages,
         NEW i \in Matching(events, criteria), a <= Place(events, criteria, i),
         i \notin PageOf(events, criteria, a, EventPage)
  PROVE  /\ a + EventPage <= Place(events, criteria, i)
         /\ Cardinality(PageOf(events, criteria, a, EventPage)) = EventPage
         /\ p # MaxPages /\ PageOf(events, criteria, a, EventPage) # {}
         /\ ~(a + Cardinality(PageOf(events, criteria, a, EventPage)) >= Cardinality(Matching(events, criteria)))
  <1>1. EventPage \in Nat /\ EventPage # 0 /\ MaxPages \in Nat /\ MaxPages # 0 BY IncidentCardAssumption
  <1>2. a \in Nat
    <2>1. p - 1 \in Nat BY <1>1
    <2> QED BY <1>1, <2>1
  <1> DEFINE h == Cardinality(Matching(events, criteria))
             x == Place(events, criteria, i)
             page == PageOf(events, criteria, a, EventPage)
  <1>3. h \in Nat /\ Cardinality(DOMAIN events) \in Nat /\ h <= Cardinality(DOMAIN events)
    BY MatchingIsFinite
  <1>4. /\ x \in 0..(h - 1)
        /\ a + EventPage <= h => Cardinality(page) = EventPage
    BY <1>1, <1>2, PagesHold
  <1>5. a + EventPage <= x BY <1>1, <1>2, <1>4 DEF PageOf
  <1> HIDE DEF h, x, page
  <1>6. a + EventPage < h BY <1>1, <1>2, <1>3, <1>4, <1>5
  <1>7. Cardinality(page) = EventPage BY <1>1, <1>2, <1>3, <1>4, <1>6
  <1>8. p # MaxPages
    <2> SUFFICES ASSUME p = MaxPages PROVE FALSE OBVIOUS
    <2>1. a + EventPage = EventPage * MaxPages BY <1>1
    <2> QED BY <1>1, <1>3, <1>6, <2>1
  <1>9. page # {}
    <2> SUFFICES ASSUME page = {} PROVE FALSE OBVIOUS
    <2>1. Cardinality(page) = 0 BY FS_EmptySet, Zenon
    <2> QED BY <1>1, <1>7, <2>1
  <1>10. ~(a + Cardinality(page) >= h) BY <1>1, <1>2, <1>3, <1>6, <1>7
  <1> QED BY <1>5, <1>7, <1>8, <1>9, <1>10 DEF h, x, page

(* A page that is not the last is full.                                      *)
LEMMA PageIsFull ==
  ASSUME NEW events, ByIds(events), NEW criteria, NEW a \in Nat,
         PageOf(events, criteria, a, EventPage) # {},
         ~(a + Cardinality(PageOf(events, criteria, a, EventPage)) >= Cardinality(Matching(events, criteria)))
  PROVE  Cardinality(PageOf(events, criteria, a, EventPage)) = EventPage
  <1>1. EventPage \in Nat BY IncidentCardAssumption
  <1> DEFINE h == Cardinality(Matching(events, criteria))
             page == PageOf(events, criteria, a, EventPage)
  <1>2. h \in Nat BY MatchingIsFinite
  <1>3. /\ a + EventPage <= h => Cardinality(page) = EventPage
        /\ a <= h /\ h <= a + EventPage => Cardinality(page) = h - a
        /\ h <= a => page = {}
    BY <1>1, PagesHold
  <1> HIDE DEF h, page
  <1>4. page # {} /\ ~(a + Cardinality(page) >= h) BY DEF page, h
  <1>5. Cardinality(page) = EventPage BY <1>1, <1>2, <1>3, <1>4
  <1> QED BY <1>5 DEF page

(* Events that come in, or are sent again without slipping back, leave no    *)
(* other event nearer to the front of the search.                            *)
LEMMA PlaceStays ==
  ASSUME NEW events, ByIds(events), NEW e, IsEvent(e), NEW criteria, NEW i \in DOMAIN events, i # e.id,
         e.id \in Matching(events, criteria) => Selects(criteria, e) /\ e.at >= events[e.id].at
  PROVE  /\ Place(events, criteria, i) \in Nat /\ Place(Filed(events, e.id, e), criteria, i) \in Nat
         /\ Place(Filed(events, e.id, e), criteria, i) >= Place(events, criteria, i)
  <1> DEFINE new == Filed(events, e.id, e)
             A == {j \in Matching(events, criteria) : Newer(events[j], events[i])}
             B == {j \in Matching(new, criteria) : Newer(new[j], new[i])}
  <1>1. ByIds(new) BY FiledByIds
  <1>2. new[i] = events[i] /\ DOMAIN new = DOMAIN events \cup {e.id} BY DEF Filed
  <1>3. \A j \in DOMAIN events : j # e.id => new[j] = events[j] BY DEF Filed
  <1>4. new[e.id] = e BY DEF Filed
  <1> HIDE DEF new
  <1>5. ASSUME NEW j \in A PROVE j \in B
    <2>1. j \in DOMAIN events /\ Selects(criteria, events[j]) /\ Newer(events[j], events[i]) BY DEF Matching
    <2>2. CASE j # e.id
      <3>1. Selects(criteria, new[j]) /\ Newer(new[j], new[i]) BY <1>2, <1>3, <2>1, <2>2
      <3> QED BY <1>2, <2>1, <3>1 DEF Matching
    <2>3. CASE j = e.id
      <3>1. Selects(criteria, e) /\ e.at >= events[j].at BY <2>3
      <3>2. events[j].id = j /\ e.at \in Int /\ events[j].at \in Int /\ events[i].at \in Int
        BY <2>1, <2>3 DEF ByIds, IsEvent
      <3>3. Newer(e, events[i]) BY <2>1, <2>3, <3>1, <3>2 DEF Newer
      <3> QED BY <1>2, <1>4, <2>3, <3>1, <3>3 DEF Matching
    <2> QED BY <2>2, <2>3
  <1>6. IsFiniteSet(Matching(new, criteria)) BY <1>1, MatchingIsFinite
  <1>7. IsFiniteSet(B) BY <1>6, FS_Subset
  <1>8. IsFiniteSet(A) /\ Cardinality(A) <= Cardinality(B) BY <1>5, <1>7, FS_Subset
  <1>9. Cardinality(A) \in Nat /\ Cardinality(B) \in Nat BY <1>7, <1>8, FS_CardinalityType
  <1>10. Place(events, criteria, i) = Cardinality(A) /\ Place(new, criteria, i) = Cardinality(B)
    BY DEF Place
  <1> HIDE DEF A, B
  <1> QED BY <1>8, <1>9, <1>10 DEF new

(* ---- the search under way ------------------------------------------------ *)
PivotFields == {"at", "req", "found", "core", "offset", "page", "walking", "todo"}

(* What the proofs below use of the store and the search.                    *)
SearchInv ==
  /\ ByIds(stored) /\ WalkInv /\ CoreMissesNothing
  /\ pivot.at \in {"idle", "core", "window"}
  /\ pivot.at # "idle" => DOMAIN pivot = PivotFields /\ ByIds(pivot.found)

LEMMA SearchStarts == IncidentInit => SearchInv
  <1> SUFFICES ASSUME IncidentInit PROVE SearchInv OBVIOUS
  <1> DEFINE ids == {e.id : e \in FeedFirst}
             own == [e \in FeedFirst |-> e.id]
  <1>1. stored = [i \in ids |-> CHOOSE e \in FeedFirst : e.id = i] /\ pivot.at = "idle"
    BY DEF IncidentInit, Resting
  <1>2. IsFiniteSet(FeedFirst) /\ \A e \in FeedFirst : IsEvent(e) BY IncidentCardAssumption
  <1>3. own \in Surjection(FeedFirst, ids) BY DEF Surjection
  <1>4. IsFiniteSet(ids) BY <1>2, <1>3, FS_Surjection
  <1>5. ASSUME NEW i \in ids PROVE stored[i] \in FeedFirst /\ stored[i].id = i
    BY <1>1
  <1>6. DOMAIN stored = ids BY <1>1
  <1> HIDE DEF ids
  <1>7. ByIds(stored) BY <1>2, <1>4, <1>5, <1>6 DEF ByIds
  <1> QED BY <1>1, <1>7 DEF SearchInv, WalkInv, CoreMissesNothing

LEMMA SearchObserves ==
  ASSUME SearchInv, NEW e \in Feed, Observe(e)
  PROVE  SearchInv'
  <1>1. IsEvent(e) BY IncidentCardAssumption
  <1>2. ByIds(stored) BY DEF SearchInv
  <1>3. stored' = Filed(stored, e.id, e) /\ pivot' = pivot BY DEF Observe
  <1>4. ByIds(stored') BY <1>1, <1>2, <1>3, FiledByIds
  <1>5. DOMAIN stored' = DOMAIN stored \cup {e.id} /\ \A i \in DOMAIN stored : i # e.id => stored'[i] = stored[i]
    BY <1>3 DEF Filed
  <1>6. PagesSuffice' => PagesSuffice
    <2>1. IsFiniteSet(DOMAIN stored') BY <1>4 DEF ByIds
    <2>2. IsFiniteSet(DOMAIN stored) /\ Cardinality(DOMAIN stored) <= Cardinality(DOMAIN stored')
      BY <1>5, <2>1, FS_Subset
    <2>3. Cardinality(DOMAIN stored) \in Nat /\ Cardinality(DOMAIN stored') \in Nat
      BY <2>1, <2>2, FS_CardinalityType
    <2>4. EventPage * MaxPages \in Nat BY IncidentCardAssumption
    <2> QED BY <2>2, <2>3, <2>4 DEF PagesSuffice
  <1>7. \A i \in due' : i \in due /\ i # e.id /\ ~SlipsBack(e) BY DEF Observe
  <1>8. ASSUME pivot.at = "core", PagesSuffice', NEW i \in due' PROVE Owed(i)'
    <2>1. Owed(i) BY <1>6, <1>7, <1>8 DEF SearchInv, WalkInv
    <2>2. i \in DOMAIN stored /\ i # e.id /\ ~SlipsBack(e) BY <1>7, <1>8, <2>1 DEF Owed
    <2>3. stored'[i] = stored[i] /\ i \in DOMAIN stored' BY <1>5, <2>2
    <2>4. ASSUME NEW c, StillAhead(i, c) PROVE StillAhead(i, c)'
      <3>1. c \in pivot.todo /\ (pivot.offset > 0 /\ c = pivot.walking => Place(stored, c, i) >= pivot.offset)
        BY <2>4 DEF StillAhead
      <3>2. ASSUME pivot.offset > 0, c = pivot.walking PROVE Place(stored', c, i) >= pivot.offset
        <4>1. e.id \in Matching(stored, c) => Selects(c, e) /\ ~(e.at < stored[e.id].at)
          BY <1>8, <2>2, <3>2 DEF SlipsBack
        <4>2. e.id \in Matching(stored, c) => e.at \in Int /\ stored[e.id].at \in Int
          BY <1>1, <1>2 DEF Matching, ByIds, IsEvent
        <4>3. e.id \in Matching(stored, c) => Selects(c, e) /\ e.at >= stored[e.id].at BY <4>1, <4>2
        <4>4. /\ Place(stored, c, i) \in Nat /\ Place(Filed(stored, e.id, e), c, i) \in Nat
              /\ Place(Filed(stored, e.id, e), c, i) >= Place(stored, c, i)
          BY <1>1, <1>2, <2>2, <4>3, PlaceStays
        <4>5. pivot.offset \in Int
          <5>1. pivot.page \in 1..MaxPages /\ pivot.offset = EventPage * (pivot.page - 1)
            BY <1>8 DEF SearchInv, WalkInv
          <5> QED BY <5>1, IncidentCardAssumption
        <4> QED BY <1>3, <3>1, <3>2, <4>4, <4>5
      <3> QED BY <1>3, <3>1, <3>2 DEF StillAhead
    <2>5. /\ i \in DOMAIN pivot.found => pivot.found[i] = stored'[i]
          /\ \E s \in pivot.req.seeds : Selects(SeedCriteria(s), stored'[i])
      BY <2>1, <2>3 DEF Owed
    <2>6. ASSUME NEW s \in pivot.req.seeds, Selects(SeedCriteria(s), stored'[i])
          PROVE  i \in DOMAIN pivot.found \/ StillAhead(i, SeedCriteria(s))'
      <3>1. i \in DOMAIN pivot.found \/ StillAhead(i, SeedCriteria(s)) BY <2>1, <2>3, <2>6 DEF Owed
      <3> QED BY <2>4, <3>1
    <2> QED BY <1>3, <2>3, <2>5, <2>6 DEF Owed
  <1>9. WalkInv' BY <1>3, <1>8 DEF SearchInv, WalkInv
  <1>10. CoreMissesNothing' BY <1>3, <1>6, <1>7 DEF SearchInv, CoreMissesNothing
  <1> QED BY <1>3, <1>4, <1>9, <1>10 DEF SearchInv

LEMMA SearchAsked ==
  ASSUME SearchInv, NEW req \in Requests, Ask(req)
  PROVE  SearchInv'
  <1>1. /\ pivot'.at = "core" /\ pivot'.req = req /\ pivot'.found = <<>> /\ pivot'.offset = 0 /\ pivot'.page = 1
        /\ pivot'.todo = {SeedCriteria(s) : s \in req.seeds} /\ DOMAIN pivot' = PivotFields
        /\ stored' = stored
    BY DEF Ask, PivotFields
  <1>2. DOMAIN pivot'.found = {} BY <1>1
  <1>3. ByIds(pivot'.found)
    <2>1. IsFiniteSet(DOMAIN pivot'.found) BY <1>2, FS_EmptySet, Zenon
    <2> QED BY <1>2, <2>1 DEF ByIds
  <1>4. ASSUME NEW i \in due' PROVE Owed(i)'
    <2>1. i \in DOMAIN stored /\ \E s \in req.seeds : Selects(SeedCriteria(s), stored[i]) BY DEF Ask
    <2>2. ASSUME NEW s \in req.seeds PROVE StillAhead(i, SeedCriteria(s))'
      <3>1. SeedCriteria(s) \in pivot'.todo BY <1>1
      <3>2. ~(pivot'.offset > 0) BY <1>1
      <3> QED BY <3>1, <3>2 DEF StillAhead
    <2> QED BY <1>1, <1>2, <2>1, <2>2 DEF Owed
  <1>5. pivot'.page \in 1..MaxPages /\ pivot'.offset = EventPage * (pivot'.page - 1) /\ ~(pivot'.offset > 0)
    BY <1>1, IncidentCardAssumption
  <1>6. WalkInv' BY <1>1, <1>4, <1>5 DEF WalkInv
  <1> QED BY <1>1, <1>3, <1>6 DEF SearchInv, CoreMissesNothing

(* A page brings the events of its places; those behind it stay ahead.       *)
LEMMA SearchPages ==
  ASSUME SearchInv, pivot.at # "idle", NEW criteria \in pivot.todo, SearchPage(criteria)
  PROVE  SearchInv'
  <1> DEFINE page == PageOf(stored, criteria, pivot.offset, EventPage)
             total == Cardinality(Matching(stored, criteria))
             got == [i \in page \cup DOMAIN pivot.found |-> IF i \in page THEN stored[i] ELSE pivot.found[i]]
             last == pivot.page = MaxPages \/ page = {} \/ pivot.offset + Cardinality(page) >= total
  <1>1. DOMAIN pivot = PivotFields /\ ByIds(pivot.found) /\ ByIds(stored) /\ stored' = stored /\ due' = due
    BY DEF SearchInv, SearchPage
  <1>2. /\ last => pivot' = [pivot EXCEPT !.found = got, !.todo = @ \ {criteria}, !.offset = 0, !.page = 1,
                                          !.walking = None]
        /\ ~last => pivot' = [pivot EXCEPT !.found = got, !.offset = @ + Cardinality(page),
                                           !.page = @ + 1, !.walking = criteria]
    BY DEF SearchPage, SearchEvents, LastPage
  <1>3. page \subseteq DOMAIN stored BY DEF PageOf, Matching
  <1>4. ByIds(got) BY <1>1, <1>3, FoundByIds
  <1>5. /\ DOMAIN got = page \cup DOMAIN pivot.found
        /\ \A i \in page : got[i] = stored[i]
        /\ \A i \in DOMAIN pivot.found : i \notin page => got[i] = pivot.found[i]
    OBVIOUS
  <1>l. /\ ~last => pivot.page # MaxPages /\ page # {} /\ ~(pivot.offset + Cardinality(page) >= total)
        /\ pivot.page # MaxPages /\ page # {} /\ ~(pivot.offset + Cardinality(page) >= total) => ~last
    OBVIOUS
  <1> HIDE DEF got, page, total, last
  <1>6. /\ DOMAIN pivot' = PivotFields /\ pivot'.at = pivot.at /\ pivot'.req = pivot.req
        /\ pivot'.found = got /\ pivot'.core = pivot.core
        /\ last => pivot'.todo = pivot.todo \ {criteria} /\ pivot'.offset = 0 /\ pivot'.page = 1
        /\ ~last => /\ pivot'.todo = pivot.todo /\ pivot'.offset = pivot.offset + Cardinality(page)
                    /\ pivot'.page = pivot.page + 1 /\ pivot'.walking = criteria
    BY <1>1, <1>2 DEF PivotFields
  <1>7. ASSUME pivot.at = "core"
        PROVE  /\ pivot.page \in 1..MaxPages /\ pivot.offset \in Nat
               /\ pivot.offset = EventPage * (pivot.page - 1)
               /\ pivot.offset > 0 => pivot.walking \in pivot.todo /\ criteria = pivot.walking
               /\ EventPage \in Nat /\ MaxPages \in Nat /\ EventPage # 0 /\ MaxPages # 0
    <2>1. /\ pivot.page \in 1..MaxPages /\ pivot.offset = EventPage * (pivot.page - 1)
          /\ pivot.offset > 0 => pivot.walking \in pivot.todo /\ criteria = pivot.walking
      BY <1>7 DEF SearchInv, WalkInv, SearchPage
    <2>2. EventPage \in Nat /\ MaxPages \in Nat /\ EventPage # 0 /\ MaxPages # 0 BY IncidentCardAssumption
    <2>3. pivot.page - 1 \in Nat BY <2>1, <2>2
    <2>4. pivot.offset \in Nat BY <2>1, <2>2, <2>3
    <2> QED BY <2>1, <2>2, <2>4
  <1>8. ASSUME pivot.at = "core"
        PROVE  /\ pivot'.page \in 1..MaxPages /\ pivot'.offset = EventPage * (pivot'.page - 1)
               /\ pivot'.offset > 0 => pivot'.walking \in pivot'.todo
    <2>1. CASE last BY <1>6, <1>7, <1>8, <2>1
    <2>2. CASE ~last
      <3>1. Cardinality(page) = EventPage
        <4>1. page # {} /\ ~(pivot.offset + Cardinality(page) >= total) /\ pivot.offset \in Nat
          BY <1>l, <1>7, <1>8, <2>2
        <4> QED BY <1>1, <4>1, PageIsFull DEF page, total
      <3>2. pivot'.offset = EventPage * (pivot.page - 1) + EventPage /\ pivot'.page = pivot.page + 1
        BY <1>6, <1>7, <1>8, <2>2, <3>1
      <3>3. pivot.page # MaxPages BY <1>l, <2>2
      <3>4. pivot'.page \in 1..MaxPages
        <4>1. \A p, m \in Nat : p \in 1..m /\ p # m => p + 1 \in 1..m OBVIOUS
        <4>2. pivot.page \in 1..MaxPages /\ pivot.page \in Nat /\ MaxPages \in Nat BY <1>7, <1>8
        <4>3. pivot.page + 1 \in 1..MaxPages BY <3>3, <4>1, <4>2
        <4> QED BY <3>2, <4>3
      <3>5. pivot'.offset = EventPage * (pivot'.page - 1)
        <4>1. \A n \in Nat, m \in Nat : n * (m - 1) + n = n * ((m + 1) - 1) OBVIOUS
        <4>2. pivot.page \in Nat BY <1>7, <1>8
        <4> QED BY <1>7, <1>8, <3>2, <4>1, <4>2
      <3> QED BY <1>6, <2>2, <3>4, <3>5
    <2> QED BY <2>1, <2>2
  <1>9. ASSUME pivot.at = "core", PagesSuffice, NEW i \in due PROVE Owed(i)'
    <2>1. Owed(i) BY <1>9 DEF SearchInv, WalkInv
    <2>2. i \in DOMAIN got => got[i] = stored[i] BY <1>5, <2>1 DEF Owed
    <2>3. i \in DOMAIN stored BY <2>1 DEF Owed
    <2>4. ASSUME NEW s \in pivot.req.seeds, Selects(SeedCriteria(s), stored[i]), i \notin DOMAIN got
          PROVE  StillAhead(i, SeedCriteria(s))'
      <3> DEFINE c == SeedCriteria(s)
      <3>1. i \notin DOMAIN pivot.found /\ i \notin page BY <1>5, <2>4
      <3>2. StillAhead(i, c) BY <2>1, <2>4, <3>1 DEF Owed
      <3>3. Selects(c, stored[i]) BY <2>4
      <3> HIDE DEF c
      <3>4. CASE c # criteria
        <4>1. c \in pivot'.todo BY <1>6, <3>2, <3>4 DEF StillAhead
        <4>2. ~(pivot'.offset > 0 /\ c = pivot'.walking) BY <1>6, <3>4
        <4>3. pivot'.offset > 0 /\ c = pivot'.walking => Place(stored', c, i) >= pivot'.offset BY <4>2
        <4> QED BY <4>1, <4>3 DEF StillAhead, c
      <3>5. CASE c = criteria
        <4>1. i \in Matching(stored, criteria) BY <2>3, <3>3, <3>5 DEF Matching
        <4>2. Place(stored, criteria, i) \in Nat
          <5>1. Place(stored, criteria, i) \in 0..(Cardinality(Matching(stored, criteria)) - 1)
            BY <1>1, <1>7, <1>9, <4>1, PagesHold
          <5> QED BY <5>1
        <4>3. pivot.offset <= Place(stored, criteria, i) BY <1>7, <1>9, <3>2, <3>5, <4>2 DEF StillAhead
        <4>4. /\ pivot.offset + EventPage <= Place(stored, criteria, i) /\ Cardinality(page) = EventPage
              /\ pivot.page # MaxPages /\ page # {} /\ ~(pivot.offset + Cardinality(page) >= total)
          <5> DEFINE p == pivot.page
                     a == pivot.offset
          <5>1. p \in 1..MaxPages /\ a = EventPage * (p - 1) /\ a <= Place(stored, criteria, i)
            BY <1>7, <1>9, <4>3
          <5>2. Cardinality(DOMAIN stored) <= EventPage * MaxPages BY <1>9 DEF PagesSuffice
          <5>3. i \notin PageOf(stored, criteria, a, EventPage) BY <3>1 DEF page
          <5> HIDE DEF a, p
          <5>4. /\ a + EventPage <= Place(stored, criteria, i)
                /\ Cardinality(PageOf(stored, criteria, a, EventPage)) = EventPage
                /\ p # MaxPages /\ PageOf(stored, criteria, a, EventPage) # {}
                /\ ~(a + Cardinality(PageOf(stored, criteria, a, EventPage))
                       >= Cardinality(Matching(stored, criteria)))
            BY <1>1, <4>1, <5>1, <5>2, <5>3, PageGoesOn
          <5> QED BY <5>4 DEF a, p, page, total
        <4>5. ~last BY <1>l, <4>4
        <4>6. Place(stored, criteria, i) >= pivot'.offset BY <1>6, <1>7, <1>9, <4>2, <4>4, <4>5
        <4>7. c \in pivot'.todo BY <1>6, <3>5, <4>5
        <4>8. pivot'.offset > 0 /\ c = pivot'.walking => Place(stored', c, i) >= pivot'.offset
          BY <1>1, <3>5, <4>6
        <4> QED BY <4>7, <4>8 DEF StillAhead, c
      <3> QED BY <3>4, <3>5 DEF c
    <2>5. /\ i \in DOMAIN pivot'.found => pivot'.found[i] = stored'[i]
          /\ \E s \in pivot'.req.seeds : Selects(SeedCriteria(s), stored'[i])
          /\ i \in DOMAIN stored'
      BY <1>1, <1>6, <2>1, <2>2 DEF Owed
    <2>6. \A s \in pivot'.req.seeds : Selects(SeedCriteria(s), stored'[i]) =>
            i \in DOMAIN pivot'.found \/ StillAhead(i, SeedCriteria(s))'
      BY <1>1, <1>6, <2>4
    <2> QED BY <2>5, <2>6 DEF Owed
  <1>10. WalkInv'
    <2>1. PagesSuffice' <=> PagesSuffice BY <1>1 DEF PagesSuffice
    <2> QED BY <1>1, <1>6, <1>8, <1>9, <2>1 DEF WalkInv
  <1>11. CoreMissesNothing'
    <2>1. PagesSuffice' <=> PagesSuffice BY <1>1 DEF PagesSuffice
    <2> QED BY <1>1, <1>6, <2>1 DEF SearchInv, CoreMissesNothing
  <1> QED BY <1>1, <1>4, <1>6, <1>10, <1>11 DEF SearchInv

(* The events found make up the core, and none is owed any more.             *)
CoreOf(req, found) == {e \in Range(found) : EntityKeys(e) \cap UNION {PivotKeys(s) : s \in req.seeds} # {}}

LEMMA CoreIsApart ==
  ASSUME NEW found, ByIds(found), NEW req
  PROVE  Apart(CoreOf(req, found))
  <1> DEFINE own == [i \in DOMAIN found |-> found[i]]
  <1>1. own \in Surjection(DOMAIN found, Range(found)) BY DEF Surjection, Range
  <1>2. IsFiniteSet(Range(found)) BY <1>1, FS_Surjection DEF ByIds
  <1>3. IsFiniteSet(CoreOf(req, found)) BY <1>2, FS_Subset DEF CoreOf
  <1>4. \A e \in CoreOf(req, found) : IsEvent(e) /\ e.id \in DOMAIN found /\ e = found[e.id]
    BY DEF CoreOf, Range, ByIds
  <1> QED BY <1>3, <1>4 DEF Apart

LEMMA SearchEnds ==
  ASSUME SearchInv, CoreFound
  PROVE  SearchInv'
  <1>1. /\ pivot.at = "core" /\ pivot.todo = {} /\ DOMAIN pivot = PivotFields /\ ByIds(pivot.found)
        /\ stored' = stored /\ due' = due
    BY DEF SearchInv, CoreFound
  <1> DEFINE core == AssembleByPivot(Range(pivot.found), pivot.req.seeds)
             w == Window(core, pivot.req.padding)
             next == {[seed |-> <<"host", h>>, from |-> w.from, to |-> w.to] : h \in pivot.req.hosts}
  <1>2. pivot' = IF core = <<>> THEN Resting
                 ELSE [pivot EXCEPT !.at = "window", !.core = core, !.found = <<>>, !.todo = next]
    BY DEF CoreFound
  <1>3. core = Ordered(CoreOf(pivot.req, pivot.found)) BY DEF AssembleByPivot, CoreOf
  <1> HIDE DEF core, next
  <1>4. CASE core = <<>>
    BY <1>1, <1>2, <1>4 DEF Resting, SearchInv, WalkInv, CoreMissesNothing
  <1>5. CASE core # <<>>
    <2>1. /\ pivot'.at = "window" /\ pivot'.core = core /\ pivot'.found = <<>> /\ DOMAIN pivot' = PivotFields
      BY <1>1, <1>2, <1>5 DEF PivotFields
    <2>2. ByIds(pivot'.found)
      <3>1. DOMAIN pivot'.found = {} BY <2>1
      <3>2. IsFiniteSet(DOMAIN pivot'.found) BY <3>1, FS_EmptySet, Zenon
      <3> QED BY <3>1, <3>2 DEF ByIds
    <2>3. Range(core) = CoreOf(pivot.req, pivot.found)
      BY <1>1, <1>3, CoreIsApart, OrderedIsAll
    <2>4. ASSUME PagesSuffice, NEW i \in due PROVE i \in {e.id : e \in Range(core)}
      <3>1. Owed(i) BY <1>1, <2>4 DEF SearchInv, WalkInv
      <3>2. PICK s \in pivot.req.seeds : Selects(SeedCriteria(s), stored[i]) BY <3>1 DEF Owed
      <3>3. i \in DOMAIN pivot.found /\ pivot.found[i] = stored[i] BY <1>1, <3>1, <3>2 DEF Owed, StillAhead
      <3>4. PivotKeys(s) \cap EntityKeys(stored[i]) # {} BY <3>2 DEF Selects, SeedCriteria
      <3>5. stored[i] \in CoreOf(pivot.req, pivot.found) BY <3>3, <3>4 DEF CoreOf, Range
      <3>6. stored[i].id = i BY <1>1, <3>3 DEF ByIds
      <3> QED BY <2>3, <3>5, <3>6
    <2>5. PagesSuffice' <=> PagesSuffice BY <1>1 DEF PagesSuffice
    <2>6. CoreMissesNothing' BY <1>1, <2>1, <2>4, <2>5 DEF CoreMissesNothing
    <2> QED BY <1>1, <2>1, <2>2, <2>6 DEF SearchInv, WalkInv
  <1> QED BY <1>4, <1>5

LEMMA SearchRests ==
  ASSUME SearchInv, stored' = stored, due' = due, pivot' = pivot \/ pivot' = Resting
  PROVE  SearchInv'
  <1>1. PagesSuffice' <=> PagesSuffice BY DEF PagesSuffice
  <1>2. CASE pivot' = pivot
    <2>1. ASSUME NEW i PROVE Owed(i)' <=> Owed(i) BY <1>2 DEF Owed, StillAhead
    <2> QED BY <1>1, <1>2, <2>1 DEF SearchInv, WalkInv, CoreMissesNothing
  <1>3. CASE pivot' = Resting BY <1>3 DEF SearchInv, WalkInv, CoreMissesNothing, Resting
  <1> QED BY <1>2, <1>3

LEMMA SearchKeeps ==
  ASSUME SearchInv, IncidentNext \/ UNCHANGED incidentVars
  PROVE  SearchInv'
  <1>1. CASE \E e \in Feed : Observe(e) BY <1>1, SearchObserves
  <1>2. CASE \E req \in Requests : Ask(req) BY <1>2, SearchAsked
  <1>3. CASE pivot.at # "idle" /\ \E criteria \in pivot.todo : SearchPage(criteria) BY <1>3, SearchPages
  <1>4. CASE CoreFound BY <1>4, SearchEnds
  <1>5. CASE SaveIncident BY <1>5, SearchRests DEF SaveIncident
  <1>6. ASSUME NEW id \in DOMAIN incidents,
               CloseIncident(id) \/ ConfirmIncident(id) \/ PermitIncident(id) \/ ConfirmPackage(id)
        PROVE  SearchInv'
    <2>1. UNCHANGED <<stored, pivot, due>>
      BY <1>6 DEF CloseIncident, ConfirmIncident, PermitIncident, ConfirmPackage, Moved
    <2> QED BY <2>1, SearchRests
  <1>7. CASE UNCHANGED incidentVars BY <1>7, SearchRests DEF incidentVars
  <1> QED BY <1>1, <1>2, <1>3, <1>4, <1>5, <1>6, <1>7 DEF IncidentNext

(* ---- the card ------------------------------------------------------------ *)
(* Events that are apart have as many ids as there are places in their order.*)
LEMMA IdsAreCounted ==
  ASSUME NEW S, Apart(S)
  PROVE  /\ Range([k \in DOMAIN Ordered(S) |-> Ordered(S)[k].id]) = {e.id : e \in S}
         /\ Cardinality({e.id : e \in S}) = Cardinality(S)
  <1> DEFINE n == Cardinality(S)
             O == Ordered(S)
             ids == {e.id : e \in S}
             own == [k \in 1..n |-> O[k].id]
             named == [e \in S |-> e.id]
  <1>1. DOMAIN O = 1..n /\ (\A k \in 1..n : O[k] \in S) /\ Range(O) = S BY OrderedIsAll
  <1> HIDE DEF O, n
  <1>2. Range(own) \subseteq ids BY <1>1 DEF Range
  <1>3. \A e \in S : \E k \in 1..n : O[k] = e BY <1>1 DEF Range
  <1>4. ASSUME NEW e \in S PROVE e.id \in Range(own)
    <2>1. PICK k \in 1..n : O[k] = e BY <1>3
    <2>2. own[k] = e.id /\ k \in DOMAIN own BY <2>1
    <2> HIDE DEF own
    <2> QED BY <2>2 DEF Range
  <1>5. named \in Injection(S, ids)
    <2>1. \A e, f \in S : e.id = f.id => e = f BY DEF Apart
    <2>2. named \in [S -> ids] /\ \A e \in S : named[e] = e.id OBVIOUS
    <2> HIDE DEF named, ids
    <2> QED BY <2>1, <2>2 DEF Injection, IsInjective
  <1>6. named \in Surjection(S, ids) BY DEF Surjection
  <1>7. ExistsBijection(S, ids) BY <1>5, <1>6 DEF Bijection, ExistsBijection
  <1>8. IsFiniteSet(S) BY DEF Apart
  <1>9. Cardinality(ids) = n BY <1>7, <1>8, FS_Bijection DEF n
  <1>10. own = [k \in DOMAIN O |-> O[k].id] BY <1>1
  <1>11. Range(own) = ids BY <1>2, <1>4
  <1> QED BY <1>9, <1>10, <1>11 DEF n, O

LEMMA OneSourceEach ==
  ASSUME NEW S, Apart(S), NEW i \in {e.id : e \in S}
  PROVE  LET seen == [s \in {e.source : e \in S} |-> {e.id : e \in {f \in S : f.source = s}}]
         IN Cardinality({s \in DOMAIN seen : i \in seen[s]}) = 1
  <1> DEFINE seen == [s \in {e.source : e \in S} |-> {e.id : e \in {f \in S : f.source = s}}]
             A == {s \in DOMAIN seen : i \in seen[s]}
  <1>1. PICK e \in S : e.id = i OBVIOUS
  <1>2. \A f \in S : f.id = i => f = e BY <1>1 DEF Apart
  <1>3. \A s \in A : s = e.source BY <1>2
  <1>4. e.source \in A BY <1>1
  <1> HIDE DEF A
  <1>5. A = {e.source} BY <1>3, <1>4
  <1>6. Cardinality(A) = 1 BY <1>5, FS_Singleton, Zenon
  <1> QED BY <1>6 DEF A

(* The score is the largest of what the parts and the model say.             *)
LEMMA LargestIsLargest ==
  ASSUME NEW S, NEW m \in S, \A x \in S : x <= m
  PROVE  LargestAmong(S) \in S /\ \A x \in S : x <= LargestAmong(S)
  BY DEF LargestAmong

LEMMA NoLighterThanItsParts ==
  ASSUME NEW parts, parts \subseteq Pipeline, NEW rules, UnionScore(rules) \in Nat
  PROVE  IncidentRisk(rules, parts).score >= LargestAmong({0} \cup {c.score : c \in parts})
  <1> DEFINE risk == IncidentRisk(rules, parts)
             scores == {c.score : c \in parts}
             own == [c \in parts |-> c.score]
             top == CHOOSE c \in parts : \A d \in parts : d.score <= c.score
             all == {0} \cup scores
             two == {UnionScore(rules), top.score}
  <1>1. IsFiniteSet(parts) /\ \A c \in parts : c.score \in Nat BY IncidentCardAssumption, FS_Subset
  <1>2. CASE parts = {}
    <2>1. risk.score = 0 BY <1>2 DEF IncidentRisk
    <2>2. all = {0} BY <1>2
    <2> HIDE DEF all, risk
    <2>3. LargestAmong(all) \in all BY <2>2, LargestIsLargest
    <2> QED BY <2>1, <2>2, <2>3 DEF all, risk
  <1>3. CASE parts # {}
    <2>1. own \in Surjection(parts, scores) BY DEF Surjection
    <2>2. IsFiniteSet(scores) /\ scores \subseteq Int /\ scores # {} BY <1>1, <1>3, <2>1, FS_Surjection
    <2>3. PICK m \in scores : \A k \in scores : k <= m BY <2>2, HasLargest
    <2>4. \E c \in parts : \A d \in parts : d.score <= c.score BY <2>3
    <2>5. top \in parts /\ \A d \in parts : d.score <= top.score BY <2>4
    <2> HIDE DEF top
    <2>6. risk.score = LargestAmong(two) BY <1>3 DEF IncidentRisk, top
    <2>7. top.score \in Nat BY <1>1, <2>5
    <2>8. top.score \in all /\ \A x \in all : x <= top.score BY <1>1, <2>5, <2>7
    <2>9. \E m2 \in two : \A x \in two : x <= m2
      <3>1. UnionScore(rules) <= top.score \/ top.score <= UnionScore(rules) BY <2>7
      <3> QED BY <2>7, <3>1
    <2> HIDE DEF all, risk
    <2>10. LargestAmong(all) \in all /\ \A x \in all : x <= LargestAmong(all) BY <2>8, LargestIsLargest
    <2>11. LargestAmong(all) <= top.score BY <2>8, <2>10
    <2>12. PICK m2 \in two : \A x \in two : x <= m2 BY <2>9
    <2>13. LargestAmong(two) \in two /\ top.score <= LargestAmong(two)
      <3> HIDE DEF two
      <3>1. LargestAmong(two) \in two /\ \A x \in two : x <= LargestAmong(two) BY <2>12, LargestIsLargest
      <3> QED BY <3>1 DEF two
    <2>14. LargestAmong(all) \in Nat BY <1>1, <2>10 DEF all
    <2>15. LargestAmong(two) \in Nat BY <2>7, <2>13
    <2> QED BY <2>6, <2>7, <2>11, <2>13, <2>14, <2>15 DEF all, risk
  <1> QED BY <1>2, <1>3

IncidentFields == {"events", "evidence", "observations", "hits", "related", "score"}

(* A card built from events that are apart, around a core whose every event  *)
(* names a seed, accounts for what it holds.                                 *)
LEMMA BuiltAccounts ==
  ASSUME NEW S, Apart(S), NEW core, NEW req,
         \A e \in Range(core) : \E s \in req.seeds : PivotKeys(s) \cap EntityKeys(e) # {}
  PROVE  LET card == BuildCase(req, core, Ordered(S))
         IN /\ IncidentFields \subseteq DOMAIN card
            /\ CardAccounts(card, LargestAmong({0} \cup {c.score : c \in Contributing(card.events)}))
  <1> DEFINE O == Ordered(S)
             card == BuildCase(req, core, O)
             ids == {e.id : e \in S}
             parts == Contributing(ids)
             rules == {h.rule : h \in UNION {c.hits : c \in parts}}
             evidence == Evidence(O, core, req.seeds)
             explained == [i \in DOMAIN evidence |-> evidence[i].event]
             n == Cardinality(S)
  <1>1. n \in Nat /\ DOMAIN O = 1..n /\ Range(O) = S BY OrderedIsAll
  <1>2. /\ IncidentFields \subseteq DOMAIN card
        /\ card.events = ids /\ card.evidence = evidence /\ card.observations = Observations(O)
        /\ card.hits = HitRecords(parts, ids) /\ card.related = {c.id : c \in parts}
        /\ card.score = IncidentRisk(rules, parts).score
    <2>1. {e.id : e \in Range(O)} = ids BY <1>1
    <2> HIDE DEF O, ids
    <2> QED BY <2>1 DEF BuildCase, IncidentFields
  <1>3. /\ DOMAIN evidence = DOMAIN O
        /\ \A i \in DOMAIN O : /\ evidence[i].event = O[i].id
                               /\ evidence[i].rule = "pivot" => evidence[i].fields # {}
    <2> HIDE DEF O
    <2> QED BY DEF Evidence
  <1>4. Observations(O) = [s \in {e.source : e \in S} |-> {e.id : e \in {f \in S : f.source = s}}]
    <2> HIDE DEF O
    <2> QED BY <1>1 DEF Observations
  <1>5. parts \subseteq Pipeline BY DEF Contributing
  <1>6. UnionScore(rules) \in Nat
    <2>1. rules \subseteq {h.rule : h \in UNION {c.hits : c \in Pipeline}} BY <1>5
    <2> HIDE DEF rules
    <2> QED BY <2>1, IncidentCardAssumption
  <1>7. explained = [i \in DOMAIN O |-> O[i].id]
    <2> HIDE DEF O, evidence
    <2> QED BY <1>3
  <1>8. Range(explained) = ids /\ Cardinality(ids) = n BY <1>7, IdsAreCounted
  <1>9. Len(explained) = n
    <2> HIDE DEF O, evidence, n
    <2> QED BY <1>1, <1>3
  <1>10. \A i \in ids : Cardinality({s \in DOMAIN Observations(O) : i \in Observations(O)[s]}) = 1
    <2> DEFINE seen == [s \in {e.source : e \in S} |-> {e.id : e \in {f \in S : f.source = s}}]
    <2>1. \A i \in ids : Cardinality({s \in DOMAIN seen : i \in seen[s]}) = 1 BY OneSourceEach
    <2>2. Observations(O) = seen BY <1>4
    <2> HIDE DEF seen, O, ids
    <2> QED BY <2>1, <2>2, Zenon
  <1>11. \A h \in HitRecords(parts, ids) : /\ h.event \in ids
                                           /\ \E c \in Pipeline : c.id \in {d.id : d \in parts} /\ h \in c.hits
    <2> HIDE DEF ids
    <2> QED BY <1>5 DEF HitRecords
  <1>12. IncidentRisk(rules, parts).score >= LargestAmong({0} \cup {c.score : c \in parts})
    <2> HIDE DEF parts, rules
    <2> QED BY <1>5, <1>6, NoLighterThanItsParts
  <1> HIDE DEF O, card, ids, parts, rules, evidence, n
  <1>13. CardAccounts(card, LargestAmong({0} \cup {c.score : c \in parts}))
    BY <1>2, <1>3, <1>8, <1>9, <1>10, <1>11, <1>12 DEF CardAccounts
  <1>14. Contributing(card.events) = parts BY <1>2 DEF parts
  <1> QED BY <1>2, <1>13, <1>14 DEF card, O

(* ---- the cards of the store ---------------------------------------------- *)
WindowCore ==
  pivot.at = "window" =>
    /\ Apart(Range(pivot.core))
    /\ \A e \in Range(pivot.core) : \E s \in pivot.req.seeds : PivotKeys(s) \cap EntityKeys(e) # {}

CardsInv ==
  /\ DOMAIN floor = DOMAIN incidents /\ IncidentHoldsTogether
  /\ \A id \in DOMAIN incidents : IncidentFields \subseteq DOMAIN incidents[id]

LEMMA WindowCoreKeeps ==
  ASSUME SearchInv, WindowCore, IncidentNext \/ UNCHANGED incidentVars
  PROVE  WindowCore'
  <1>1. CASE UNCHANGED pivot BY <1>1 DEF WindowCore
  <1>2. CASE pivot'.at # "window" BY <1>2 DEF WindowCore
  <1>3. ASSUME NEW criteria \in pivot.todo, pivot.at # "idle", SearchPage(criteria) PROVE WindowCore'
    <2>1. DOMAIN pivot = PivotFields BY <1>3 DEF SearchInv
    <2>2. pivot'.at = pivot.at /\ pivot'.core = pivot.core /\ pivot'.req = pivot.req
      BY <1>3, <2>1 DEF SearchPage, PivotFields
    <2> QED BY <2>2 DEF WindowCore
  <1>4. CASE CoreFound
    <2> DEFINE core == AssembleByPivot(Range(pivot.found), pivot.req.seeds)
    <2>1. pivot.at = "core" /\ DOMAIN pivot = PivotFields /\ ByIds(pivot.found)
      BY <1>4 DEF SearchInv, CoreFound
    <2>2. core = Ordered(CoreOf(pivot.req, pivot.found)) BY DEF AssembleByPivot, CoreOf
    <2>3. Range(core) = CoreOf(pivot.req, pivot.found) BY <2>1, <2>2, CoreIsApart, OrderedIsAll
    <2> HIDE DEF core
    <2>4. pivot' = Resting \/ (pivot'.core = core /\ pivot'.req = pivot.req)
      BY <1>4, <2>1 DEF CoreFound, PivotFields, core
    <2>5. Apart(Range(core)) BY <2>1, <2>3, CoreIsApart
    <2>6. \A e \in Range(core) : \E s \in pivot.req.seeds : PivotKeys(s) \cap EntityKeys(e) # {}
      BY <2>3 DEF CoreOf
    <2> QED BY <2>4, <2>5, <2>6 DEF WindowCore, Resting
  <1>5. ASSUME NEW id \in DOMAIN incidents,
               CloseIncident(id) \/ ConfirmIncident(id) \/ PermitIncident(id) \/ ConfirmPackage(id)
        PROVE  WindowCore'
    <2>1. UNCHANGED pivot BY <1>5 DEF CloseIncident, ConfirmIncident, PermitIncident, ConfirmPackage, Moved
    <2> QED BY <1>1, <2>1
  <1>6. CASE \E e \in Feed : Observe(e) BY <1>1, <1>6 DEF Observe
  <1>7. CASE \E req \in Requests : Ask(req) BY <1>2, <1>7 DEF Ask
  <1>8. CASE SaveIncident BY <1>2, <1>8 DEF SaveIncident, Resting
  <1> QED BY <1>1, <1>3, <1>4, <1>5, <1>6, <1>7, <1>8 DEF IncidentNext, incidentVars

LEMMA CardsSaved ==
  ASSUME SearchInv, WindowCore, CardsInv, SaveIncident
  PROVE  CardsInv'
  <1> DEFINE req == pivot.req
             core == pivot.core
             ids == {e.id : e \in Range(core)}
             w == Window(core, req.padding)
             added == {e \in Range(pivot.found) : /\ e.id \notin ids /\ e.host \in req.hosts
                                                  /\ w.from <= e.at /\ e.at <= w.to}
             S == Range(core) \cup added
             card == BuildCase(req, core, Ordered(S))
             least == LargestAmong({0} \cup {c.score : c \in Contributing(card.events)})
  <1>1. /\ pivot.at = "window" /\ ByIds(pivot.found)
        /\ incidents' = Filed(incidents, req.id, card) /\ floor' = Filed(floor, req.id, least)
    BY DEF SearchInv, SaveIncident, ExpandToHosts
  <1>2. /\ Apart(Range(core))
        /\ \A e \in Range(core) : \E s \in req.seeds : PivotKeys(s) \cap EntityKeys(e) # {}
    BY <1>1 DEF WindowCore
  <1>3. IsFiniteSet(Range(pivot.found)) /\ \A e \in Range(pivot.found) : /\ IsEvent(e) /\ e.id \in DOMAIN pivot.found
                                                                      /\ e = pivot.found[e.id]
    <2> DEFINE own == [i \in DOMAIN pivot.found |-> pivot.found[i]]
    <2>1. own \in Surjection(DOMAIN pivot.found, Range(pivot.found)) BY DEF Surjection, Range
    <2>2. IsFiniteSet(Range(pivot.found)) BY <1>1, <2>1, FS_Surjection DEF ByIds
    <2> QED BY <1>1, <2>2 DEF ByIds, Range
  <1>4. added \subseteq Range(pivot.found) /\ \A e \in added : e.id \notin ids OBVIOUS
  <1> HIDE DEF added
  <1>5. Apart(S)
    <2>1. IsFiniteSet(S) BY <1>2, <1>3, <1>4, FS_Subset, FS_Union DEF Apart
    <2>2. ASSUME NEW e \in S, NEW f \in S PROVE IsEvent(e) /\ (e.id = f.id => e = f)
      BY <1>2, <1>3, <1>4 DEF Apart
    <2> QED BY <2>1, <2>2 DEF Apart
  <1> HIDE DEF S, core, req
  <1>6. IncidentFields \subseteq DOMAIN card /\ CardAccounts(card, least) BY <1>2, <1>5, BuiltAccounts
  <1> HIDE DEF card, least
  <1>7. \A id \in DOMAIN incidents : CardAccounts(incidents[id], floor[id]) /\ IncidentFields \subseteq DOMAIN incidents[id]
    BY DEF CardsInv, IncidentHoldsTogether
  <1>8. DOMAIN floor = DOMAIN incidents BY DEF CardsInv
  <1>9. /\ DOMAIN incidents' = DOMAIN incidents \cup {req.id} /\ DOMAIN floor' = DOMAIN incidents'
        /\ incidents'[req.id] = card /\ floor'[req.id] = least
        /\ \A id \in DOMAIN incidents : id # req.id => incidents'[id] = incidents[id] /\ floor'[id] = floor[id]
    BY <1>1, <1>8 DEF Filed
  <1> QED BY <1>6, <1>7, <1>9 DEF CardsInv, IncidentHoldsTogether

LEMMA SameAccount ==
  ASSUME NEW card, NEW new, NEW least, CardAccounts(card, least),
         /\ new.events = card.events /\ new.evidence = card.evidence /\ new.observations = card.observations
         /\ new.hits = card.hits /\ new.related = card.related /\ new.score = card.score
  PROVE  CardAccounts(new, least)
  BY DEF CardAccounts

LEMMA CardsMoved ==
  ASSUME CardsInv, NEW id \in DOMAIN incidents, NEW card, Moved(id, card),
         DOMAIN card = DOMAIN incidents[id],
         /\ card.events = incidents[id].events /\ card.evidence = incidents[id].evidence
         /\ card.observations = incidents[id].observations /\ card.hits = incidents[id].hits
         /\ card.related = incidents[id].related /\ card.score = incidents[id].score
  PROVE  CardsInv'
  <1>1. incidents' = [incidents EXCEPT ![id] = card] /\ floor' = floor BY DEF Moved
  <1>2. \A x \in DOMAIN incidents : CardAccounts(incidents[x], floor[x]) /\ IncidentFields \subseteq DOMAIN incidents[x]
    BY DEF CardsInv, IncidentHoldsTogether
  <1>3. CardAccounts(card, floor[id]) BY <1>2, SameAccount
  <1>4. /\ DOMAIN incidents' = DOMAIN incidents /\ incidents'[id] = card
        /\ \A x \in DOMAIN incidents : x # id => incidents'[x] = incidents[x]
    BY <1>1
  <1> QED BY <1>1, <1>2, <1>3, <1>4 DEF CardsInv, IncidentHoldsTogether

LEMMA CardsKeep ==
  ASSUME SearchInv, WindowCore, CardsInv, IncidentNext \/ UNCHANGED incidentVars
  PROVE  CardsInv'
  <1>1. CASE UNCHANGED <<incidents, floor>> BY <1>1 DEF CardsInv, IncidentHoldsTogether
  <1>2. CASE SaveIncident BY <1>2, CardsSaved
  <1>3. ASSUME NEW id \in DOMAIN incidents PROVE IncidentFields \subseteq DOMAIN incidents[id]
    BY DEF CardsInv
  <1>4. ASSUME NEW id \in DOMAIN incidents, CloseIncident(id) PROVE CardsInv'
    <2>1. PICK status : Moved(id, [incidents[id] EXCEPT !.status = status]) BY <1>4 DEF CloseIncident
    <2> QED BY <1>3, <2>1, CardsMoved DEF IncidentFields
  <1>5. ASSUME NEW id \in DOMAIN incidents, ConfirmIncident(id) PROVE CardsInv'
    <2>1. PICK verdict : Moved(id, [incidents[id] EXCEPT
                                      !.records = Append(@, [source |-> "operator", next |-> verdict])])
      BY <1>5 DEF ConfirmIncident
    <2> QED BY <1>3, <2>1, CardsMoved DEF IncidentFields
  <1>6. ASSUME NEW id \in DOMAIN incidents, PermitIncident(id) PROVE CardsInv'
    BY <1>3, <1>6, CardsMoved DEF IncidentFields, PermitIncident
  <1>7. ASSUME NEW id \in DOMAIN incidents, ConfirmPackage(id) PROVE CardsInv'
    BY <1>3, <1>7, CardsMoved DEF IncidentFields, ConfirmPackage
  <1>8. CASE \E e \in Feed : Observe(e) BY <1>1, <1>8 DEF Observe
  <1>9. CASE \E req \in Requests : Ask(req) BY <1>1, <1>9 DEF Ask
  <1>10. CASE \E criteria \in pivot.todo : SearchPage(criteria) BY <1>1, <1>10 DEF SearchPage
  <1>11. CASE CoreFound BY <1>1, <1>11 DEF CoreFound
  <1> QED BY <1>1, <1>2, <1>4, <1>5, <1>6, <1>7, <1>8, <1>9, <1>10, <1>11 DEF IncidentNext, incidentVars

(* ---- theorems ------------------------------------------------------------ *)
LEMMA IncidentTypes ==
  ASSUME SearchInv, IncidentTypeOK, IncidentNext \/ UNCHANGED incidentVars
  PROVE  received' \in 0..MaxFeed /\ pivots' \in 0..MaxPivots /\ moves' \in 0..MaxMoves
  <1>0. {MaxFeed, MaxPivots, MaxMoves} \subseteq Nat BY IncidentCardAssumption
  <1>1. received \in 0..MaxFeed /\ pivots \in 0..MaxPivots /\ moves \in 0..MaxMoves BY DEF IncidentTypeOK
  <1>2. /\ received' = received \/ (received < MaxFeed /\ received' = received + 1)
        /\ pivots' = pivots \/ (pivots < MaxPivots /\ pivots' = pivots + 1)
        /\ moves' = moves \/ (moves < MaxMoves /\ moves' = moves + 1)
    BY Zenon DEF IncidentNext, incidentVars, Observe, Ask, SearchPage, CoreFound, SaveIncident, Moved,
           CloseIncident, ConfirmIncident, PermitIncident, ConfirmPackage
  <1>3. received' \in 0..MaxFeed BY <1>0, <1>1, <1>2
  <1>4. pivots' \in 0..MaxPivots BY <1>0, <1>1, <1>2
  <1>5. moves' \in 0..MaxMoves BY <1>0, <1>1, <1>2
  <1> QED BY <1>3, <1>4, <1>5

LEMMA IncidentInvParts ==
  IncidentInv <=> /\ SearchInv /\ WindowCore /\ CardsInv
                  /\ received \in 0..MaxFeed /\ pivots \in 0..MaxPivots /\ moves \in 0..MaxMoves
  BY DEF IncidentInv, IncidentTypeOK, SearchInv, WindowCore, CardsInv, IncidentFields, PivotFields, Apart, ByIds

(* The inductive invariant of the incidents: a search under way has all that *)
(* lay before its place, and the cards account for what they were made of.   *)
THEOREM IncidentInductive == IncidentSpec => []IncidentInv
  <1>1. IncidentInit => IncidentInv
    <2> SUFFICES ASSUME IncidentInit PROVE IncidentInv OBVIOUS
    <2>1. SearchInv BY SearchStarts
    <2>2. /\ pivot.at = "idle" /\ received = 0 /\ pivots = 0 /\ moves = 0
          /\ DOMAIN incidents = {} /\ DOMAIN floor = {}
      BY DEF IncidentInit, Resting
    <2>3. WindowCore BY <2>2 DEF WindowCore
    <2>4. CardsInv BY <2>2 DEF CardsInv, IncidentHoldsTogether
    <2>5. received \in 0..MaxFeed /\ pivots \in 0..MaxPivots /\ moves \in 0..MaxMoves
      BY <2>2, IncidentCardAssumption
    <2> QED BY <2>1, <2>3, <2>4, <2>5, IncidentInvParts
  <1>2. IncidentInv /\ [IncidentNext]_incidentVars => IncidentInv'
    <2> SUFFICES ASSUME IncidentInv, [IncidentNext]_incidentVars PROVE IncidentInv' OBVIOUS
    <2>1. SearchInv /\ WindowCore /\ CardsInv BY IncidentInvParts
    <2>2. IncidentTypeOK BY DEF IncidentInv
    <2>3. SearchInv' BY <2>1, SearchKeeps
    <2>4. WindowCore' BY <2>1, WindowCoreKeeps
    <2>5. CardsInv' BY <2>1, CardsKeep
    <2>6. received' \in 0..MaxFeed /\ pivots' \in 0..MaxPivots /\ moves' \in 0..MaxMoves
      BY <2>1, <2>2, IncidentTypes
    <2>7. (/\ SearchInv /\ WindowCore /\ CardsInv
           /\ received \in 0..MaxFeed /\ pivots \in 0..MaxPivots /\ moves \in 0..MaxMoves)'
      BY <2>3, <2>4, <2>5, <2>6
    <2> QED BY <2>7, IncidentInvParts, PTL
  <1> QED BY <1>1, <1>2, PTL DEF IncidentSpec

(* A search that is read page by page has everything that was there when it  *)
(* began, unless an event was put back behind the place it had reached.      *)
THEOREM CoreIsComplete == IncidentSpec => []CoreMissesNothing
  <1>1. IncidentInv => CoreMissesNothing BY DEF IncidentInv
  <1> QED BY <1>1, IncidentInductive, PTL

(* The card of an incident accounts for its events and its sources.          *)
THEOREM IncidentsAccount == IncidentSpec => []IncidentHoldsTogether
  <1>1. IncidentInv => IncidentHoldsTogether BY DEF IncidentInv
  <1> QED BY <1>1, IncidentInductive, PTL
=============================================================================
