------------------------------- MODULE ApiProofs ------------------------------
(* Proofs about the passports and forwards that leave the API (Handoff), and *)
(* about the API as a whole, whose steps are those of its parts (MCApi):     *)
(* what ApiPartsProofs and ApiViewsProofs prove of a part is carried over.   *)
(* Each part has an inductive invariant, which TLC checks with the others in *)
(* ApiTypeOK.                                                                *)
EXTENDS MCApi, ApiPartsProofs, ApiViewsProofs

(* ---- cards --------------------------------------------------------------- *)
LEMMA ShaIsSome == \A d : Sha(d) # <<>>
  BY DEF Sha

(* The card of the analyst's request is the one it read with a line more,    *)
(* which is about no passport.                                               *)
LEMMA WorkAddsLine ==
  ASSUME NEW c, IsPaper(c), NEW task \in Tasks
  PROVE  /\ DOMAIN WorkDone(c, task) = PaperFields /\ WorkDone(c, task).seal = c.seal
         /\ WorkDone(c, task).audit = Append(c.audit, [what |-> task, actor |-> TRUE])
  <1>1. task \in {"finding", "artifact", "decision", "edition", "approval"} BY HandoffAssumption
  <1>2. DOMAIN c = PaperFields BY DEF IsPaper
  <1>3. CASE task = "finding" BY <1>2, <1>3 DEF WorkDone, PaperFields
  <1>4. CASE task = "artifact" BY <1>2, <1>4 DEF WorkDone, PaperFields
  <1>5. CASE task = "decision" BY <1>2, <1>5 DEF WorkDone, PaperFields
  <1>6. CASE task = "edition" BY <1>2, <1>6 DEF WorkDone, PaperFields
  <1>7. CASE task = "approval" BY <1>2, <1>7 DEF WorkDone, PaperFields
  <1> QED BY <1>1, <1>3, <1>4, <1>5, <1>6, <1>7

LEMMA SealAddsLine ==
  ASSUME NEW c, IsPaper(c), NEW doc, Sealed(c, doc) # c
  PROVE  /\ DOMAIN Sealed(c, doc) = PaperFields
         /\ Sealed(c, doc).seal = [sha |-> Sha(doc), at |-> doc.at]
         /\ Sealed(c, doc).audit = Append(c.audit, [what |-> "pdf", actor |-> FALSE, sha |-> Sha(doc)])
  BY DEF Sealed, IsPaper, PaperFields

LEMMA SealedAlready ==
  ASSUME NEW c, IsPaper(c), NEW doc, Sealed(c, doc) = c
  PROVE  c.seal = [sha |-> Sha(doc), at |-> doc.at]
  BY DEF Sealed, IsPaper, PaperFields

(* A line more on a card: its passport lines are the same, or one more.      *)
LEMMA LineAdded ==
  ASSUME NEW b, IsPaper(b), NEW line, NEW c, DOMAIN c = PaperFields, c.audit = Append(b.audit, line)
  PROVE  /\ IsPaper(c)
         /\ Len(b.audit) <= Len(c.audit) /\ \A i \in DOMAIN b.audit : b.audit[i] = c.audit[i]
         /\ Len(b.audit) \in Nat /\ DOMAIN b.audit = 1..Len(b.audit)
         /\ DOMAIN c.audit = 1..(Len(b.audit) + 1) /\ c.audit[Len(b.audit) + 1] = line
         /\ line.what # "pdf" => PassportLines(c) = PassportLines(b)
         /\ line.what = "pdf" => PassportLines(c) = PassportLines(b) \cup {Len(b.audit) + 1}
  <1>1. b.audit \in Seq(Range(b.audit)) BY DEF IsPaper
  <1> DEFINE s == b.audit
             d == c.audit
  <1>2. /\ d \in Seq(Range(d))
        /\ Len(s) \in Nat /\ DOMAIN s = 1..Len(s) /\ Len(d) = Len(s) + 1
        /\ DOMAIN d = 1..(Len(s) + 1)
        /\ \A i \in DOMAIN s : d[i] = s[i]
        /\ d[Len(s) + 1] = line
    BY <1>1, RangeGrows
  <1>3. IsPaper(c) BY <1>2 DEF IsPaper
  <1>4. /\ PassportLines(b) = {i \in DOMAIN s : s[i].what = "pdf"}
        /\ PassportLines(c) = {i \in DOMAIN d : d[i].what = "pdf"}
    BY DEF PassportLines
  <1> HIDE DEF s, d
  <1>5. line.what # "pdf" => PassportLines(c) = PassportLines(b) BY <1>2, <1>4
  <1>6. line.what = "pdf" => PassportLines(c) = PassportLines(b) \cup {Len(s) + 1} BY <1>2, <1>4
  <1> USE DEF s, d
  <1> QED BY <1>2, <1>3, <1>5, <1>6

LEMMA WorkKeepsSeal ==
  ASSUME NEW c, IsPaper(c), NEW task \in Tasks
  PROVE  LET new == WorkDone(c, task)
         IN /\ IsPaper(new) /\ new.seal = c.seal /\ Precedes(c, new)
            /\ SealIsLast(c) => SealIsLast(new)
            /\ \A i \in PassportLines(c) : i \in PassportLines(new) /\ new.audit[i] = c.audit[i]
  <1> DEFINE new == WorkDone(c, task)
             line == [what |-> task, actor |-> TRUE]
  <1>1. DOMAIN new = PaperFields /\ new.seal = c.seal /\ new.audit = Append(c.audit, line)
    BY WorkAddsLine
  <1>2. line.what # "pdf" BY HandoffAssumption
  <1> HIDE DEF new, line
  <1>3. /\ IsPaper(new)
        /\ Len(c.audit) <= Len(new.audit) /\ \A i \in DOMAIN c.audit : c.audit[i] = new.audit[i]
        /\ PassportLines(new) = PassportLines(c)
    BY <1>1, <1>2, LineAdded
  <1>4. Precedes(c, new) BY <1>1, <1>3 DEF Precedes
  <1>5. \A i \in PassportLines(c) : i \in PassportLines(new) /\ new.audit[i] = c.audit[i]
    BY <1>3 DEF PassportLines
  <1>6. SealIsLast(c) => SealIsLast(new) BY <1>1, <1>3, <1>5 DEF SealIsLast
  <1> QED BY <1>1, <1>3, <1>4, <1>5, <1>6 DEF new

LEMMA SealIsNew ==
  ASSUME NEW c, IsPaper(c), NEW doc, Sealed(c, doc) # c, c.seal # Unsealed => doc.at = c.seal.at
  PROVE  LET new == Sealed(c, doc)
         IN /\ IsPaper(new) /\ Precedes(c, new) /\ SealIsLast(new) /\ new.seal # Unsealed
            /\ new.seal.sha = Sha(doc) /\ new.seal.at = doc.at
            /\ \A i \in PassportLines(c) : i \in PassportLines(new) /\ new.audit[i] = c.audit[i]
            /\ \E i \in PassportLines(new) : new.audit[i].sha = Sha(doc)
  <1> DEFINE new == Sealed(c, doc)
             line == [what |-> "pdf", actor |-> FALSE, sha |-> Sha(doc)]
             n == Len(c.audit) + 1
  <1>1. DOMAIN new = PaperFields /\ new.seal = [sha |-> Sha(doc), at |-> doc.at] /\ new.audit = Append(c.audit, line)
    BY SealAddsLine
  <1>2. line.what = "pdf" /\ line.sha = Sha(doc) OBVIOUS
  <1> HIDE DEF new, line
  <1>3. /\ IsPaper(new)
        /\ Len(c.audit) <= Len(new.audit) /\ \A i \in DOMAIN c.audit : c.audit[i] = new.audit[i]
        /\ Len(c.audit) \in Nat /\ DOMAIN c.audit = 1..Len(c.audit)
        /\ new.audit[n] = line /\ DOMAIN new.audit = 1..n
        /\ PassportLines(new) = PassportLines(c) \cup {n}
    BY <1>1, <1>2, LineAdded
  <1>4. new.seal.sha = Sha(doc) /\ new.seal.at = doc.at /\ new.seal # Unsealed
    BY <1>1, ShaIsSome DEF Unsealed
  <1>5. Precedes(c, new) BY <1>3, <1>4 DEF Precedes
  <1>6. \A i \in PassportLines(c) : i \in PassportLines(new) /\ new.audit[i] = c.audit[i]
    BY <1>3 DEF PassportLines
  <1>7. n \in PassportLines(new) /\ new.audit[n].sha = Sha(doc) BY <1>2, <1>3
  <1>8. \A j \in PassportLines(new) : j <= n BY <1>3 DEF PassportLines
  <1>9. SealIsLast(new) BY <1>4, <1>7, <1>8 DEF SealIsLast
  <1> QED BY <1>3, <1>4, <1>5, <1>6, <1>7, <1>9 DEF new

LEMMA PrecedesOn ==
  ASSUME NEW b, NEW c, NEW d, IsPaper(b), IsPaper(c), IsPaper(d), Precedes(b, c), Precedes(c, d)
  PROVE  Precedes(b, d)
  <1>1. /\ Len(b.audit) \in Nat /\ DOMAIN b.audit = 1..Len(b.audit)
        /\ Len(c.audit) \in Nat /\ DOMAIN c.audit = 1..Len(c.audit) /\ Len(d.audit) \in Nat
    BY DEF IsPaper
  <1>2. Len(b.audit) <= Len(d.audit) BY <1>1 DEF Precedes
  <1>3. \A i \in DOMAIN b.audit : b.audit[i] = d.audit[i]
    <2> SUFFICES ASSUME NEW i \in DOMAIN b.audit PROVE b.audit[i] = d.audit[i] OBVIOUS
    <2>1. i \in DOMAIN c.audit BY <1>1 DEF Precedes
    <2> QED BY <2>1 DEF Precedes
  <1> QED BY <1>2, <1>3 DEF Precedes

LEMMA PrecedesItself == ASSUME NEW c, IsPaper(c) PROVE Precedes(c, c)
  <1>1. Len(c.audit) \in Nat BY DEF IsPaper
  <1> QED BY <1>1 DEF Precedes

(* The lines of a card that a passport is found by stay where they are.      *)
LEMMA LinesStay ==
  ASSUME NEW b, NEW c, IsPaper(b), IsPaper(c), Precedes(b, c), NEW i \in PassportLines(b)
  PROVE  i \in PassportLines(c) /\ c.audit[i] = b.audit[i]
  BY DEF PassportLines, Precedes, IsPaper

(* ---- the threads --------------------------------------------------------- *)
LEMMA ThreadSet ==
  ASSUME HandoffTypeOK, asks' \in 0..MaxAsks, asks <= asks', falls' \in 0..MaxFalls, raced' \in BOOLEAN,
         NEW t \in Couriers, NEW r, courier' = [courier EXCEPT ![t] = r], CourierFits(r, 1..(asks'))
  PROVE  HandoffTypeOK'
  <1>1. DOMAIN courier' = Couriers BY DEF HandoffTypeOK
  <1>2. ASSUME NEW u \in Couriers PROVE CourierFits(courier'[u], 1..(asks'))
    <2>1. CASE u = t BY <2>1 DEF HandoffTypeOK
    <2>2. CASE u # t
      <3>1. courier'[u] = courier[u] BY <2>2 DEF HandoffTypeOK
      <3>2. CourierFits(courier[u], 1..asks) BY DEF HandoffTypeOK
      <3>3. asks \in Nat /\ asks' \in Nat BY HandoffAssumption DEF HandoffTypeOK
      <3>4. 1..asks \subseteq 1..(asks') BY <3>3
      <3> QED BY <3>1, <3>2, <3>4 DEF CourierFits
    <2> QED BY <2>1, <2>2
  <1> QED BY <1>1, <1>2 DEF HandoffTypeOK

LEMMA SpareFits == \A numbers : CourierFits(Spare, numbers)
  BY DEF CourierFits

LEMMA ForwardFits ==
  ASSUME NEW f, NEW numbers, CourierFits(f, numbers), f.at \in {"waiting", "resolving", "posting"}
  PROVE  /\ f.async \in BOOLEAN /\ f.number \in numbers /\ f.attempt \in 1..Attempts
         /\ f = [at |-> f.at, async |-> f.async, to |-> f.to, base |-> f.base, number |-> f.number,
                 attempt |-> f.attempt, pinned |-> f.pinned]
  BY DEF CourierFits, Spare

LEMMA AttemptsRange == Attempts \in Nat /\ Attempts >= 1
  BY HandoffAssumption DEF Attempts

LEMMA HandoffTypeKept == HandoffTypeOK /\ [HandoffNext]_handoffVars => HandoffTypeOK'
  <1> SUFFICES ASSUME HandoffTypeOK, [HandoffNext]_handoffVars PROVE HandoffTypeOK'
    OBVIOUS
  <1> USE HandoffAssumption
  <1>1. asks \in Nat /\ falls \in Nat /\ MaxAsks \in Nat /\ MaxFalls \in Nat BY DEF HandoffTypeOK
  <1>2. CASE UNCHANGED handoffVars BY <1>2 DEF handoffVars, HandoffTypeOK, CourierFits
  <1>3. CASE TimePasses BY <1>3 DEF TimePasses, HandoffTypeOK, CourierFits
  <1>4. CASE Fall
    <2>1. courier' = [t \in Couriers |-> Spare] /\ falls' \in 0..MaxFalls BY <1>1, <1>4 DEF Fall
    <2>2. asks' = asks /\ raced' = raced BY <1>4 DEF Fall
    <2> QED BY <2>1, <2>2 DEF HandoffTypeOK, CourierFits
  <1>5. ASSUME NEW t \in Couriers, NEW task \in Tasks, TakeUp(t, task) PROVE HandoffTypeOK'
    <2> DEFINE r == [at |-> "working", base |-> onFile, task |-> task]
    <2>1. courier' = [courier EXCEPT ![t] = r] /\ CourierFits(r, 1..(asks')) BY <1>5 DEF TakeUp, CourierFits
    <2>2. asks' \in 0..MaxAsks /\ asks <= asks' /\ falls' = falls /\ raced' = raced
      BY <1>1, <1>5 DEF TakeUp, Asked
    <2> HIDE DEF r
    <2> QED BY <2>1, <2>2, ThreadSet DEF HandoffTypeOK
  <1>6. ASSUME NEW t \in Couriers, HandIn(t) PROVE HandoffTypeOK'
    <2>1. courier' = [courier EXCEPT ![t] = Spare] /\ raced' \in BOOLEAN
      BY <1>6 DEF HandIn, Keeps, HandoffTypeOK
    <2>2. asks' = asks /\ falls' = falls BY <1>6 DEF HandIn
    <2> QED BY <1>1, <2>1, <2>2, ThreadSet, SpareFits DEF HandoffTypeOK
  <1>7. ASSUME NEW t \in Couriers, DrawPassport(t) PROVE HandoffTypeOK'
    <2> DEFINE doc == RenderCasePdf(onFile, PdfGeneratedAt(onFile))
    <2> HIDE DEF doc
    <2> DEFINE r == [at |-> "drawing", base |-> onFile, doc |-> doc]
    <2>1. courier' = [courier EXCEPT ![t] = r] /\ CourierFits(r, 1..(asks'))
      BY <1>7 DEF DrawPassport, CourierFits, doc
    <2>2. asks' \in 0..MaxAsks /\ asks <= asks' /\ falls' = falls /\ raced' = raced
      BY <1>1, <1>7 DEF DrawPassport, Asked
    <2> HIDE DEF r
    <2> QED BY <2>1, <2>2, ThreadSet DEF HandoffTypeOK
  <1>8. ASSUME NEW t \in Couriers, HandOut(t) PROVE HandoffTypeOK'
    <2>1. courier' = [courier EXCEPT ![t] = Spare] /\ raced' \in BOOLEAN
      BY <1>8 DEF HandOut, Keeps, HandoffTypeOK
    <2>2. asks' = asks /\ falls' = falls BY <1>8 DEF HandOut
    <2> QED BY <1>1, <2>1, <2>2, ThreadSet, SpareFits DEF HandoffTypeOK
  <1>9. ASSUME NEW t \in Couriers, NEW d \in Destinations, NEW async \in BOOLEAN, BeginForward(t, d, async)
        PROVE  HandoffTypeOK'
    <2>1. asks' \in 0..MaxAsks /\ asks <= asks' /\ asks' \in 1..asks' /\ falls' = falls /\ raced' = raced
      BY <1>1, <1>9 DEF BeginForward, Asked
    <2>2. CASE DestinationAllowed(d)
      <3> DEFINE r == [at |-> IF async THEN "waiting" ELSE "resolving", async |-> async,
                       to |-> d, base |-> onFile, number |-> asks', attempt |-> 1, pinned |-> 0]
      <3>1. courier' = [courier EXCEPT ![t] = r] BY <1>9, <2>2 DEF BeginForward
      <3>2. CourierFits(r, 1..(asks')) BY <2>1, AttemptsRange DEF CourierFits
      <3> HIDE DEF r
      <3> QED BY <3>1, <3>2, <2>1, ThreadSet DEF HandoffTypeOK
    <2>3. CASE ~DestinationAllowed(d)
      <3>1. courier' = courier BY <1>9, <2>3 DEF BeginForward
      <3>2. 1..asks \subseteq 1..(asks') BY <1>1, <2>1
      <3> QED BY <3>1, <3>2, <2>1 DEF HandoffTypeOK, CourierFits
    <2> QED BY <2>2, <2>3
  <1>10. ASSUME NEW t \in Couriers, EnterSlot(t) PROVE HandoffTypeOK'
    <2>1. courier' = [courier EXCEPT ![t] = [courier[t] EXCEPT !.at = "resolving"]] BY <1>10 DEF EnterSlot
    <2>2. asks' = asks /\ falls' = falls /\ raced' = raced BY <1>10 DEF EnterSlot
    <2>3. CourierFits(courier[t], 1..asks) /\ courier[t].at = "waiting"
      BY <1>10 DEF HandoffTypeOK, EnterSlot
    <2>4. CourierFits([courier[t] EXCEPT !.at = "resolving"], 1..(asks'))
      BY <2>2, <2>3 DEF CourierFits, Spare
    <2> QED BY <1>1, <2>1, <2>2, <2>4, ThreadSet DEF HandoffTypeOK
  <1>11. ASSUME NEW t \in Couriers, NEW addresses \in Resolutions, Resolve(t, addresses) PROVE HandoffTypeOK'
    <2>2. asks' = asks /\ falls' = falls /\ raced' = raced BY <1>11 DEF Resolve
    <2>3. CourierFits(courier[t], 1..asks) /\ courier[t].at = "resolving"
      BY <1>11 DEF HandoffTypeOK, Resolve
    <2>4. CASE addresses # <<>> /\ EgressAllowed(addresses)
      <3> DEFINE r == [courier[t] EXCEPT !.at = "posting", !.pinned = addresses[1]]
      <3>1. courier' = [courier EXCEPT ![t] = r] BY <1>11, <2>4 DEF Resolve
      <3>2. CourierFits(r, 1..(asks'))
        <4> DEFINE f == courier[t]
        <4> HIDE DEF f
        <4>1. /\ f.async \in BOOLEAN /\ f.number \in 1..asks /\ f.attempt \in 1..Attempts
              /\ f = [at |-> "resolving", async |-> f.async, to |-> f.to, base |-> f.base, number |-> f.number,
                      attempt |-> f.attempt, pinned |-> f.pinned]
          BY <2>3, ForwardFits DEF f
        <4>2. r = [at |-> "posting", async |-> f.async, to |-> f.to, base |-> f.base, number |-> f.number,
                   attempt |-> f.attempt, pinned |-> addresses[1]]
          <5>1. r = [f EXCEPT !.at = "posting", !.pinned = addresses[1]] BY DEF f
          <5> HIDE DEF r
          <5> QED BY <4>1, <5>1
        <4> HIDE DEF r
        <4> QED BY <4>1, <4>2, <2>2 DEF CourierFits
      <3> HIDE DEF r
      <3> QED BY <1>1, <2>2, <3>1, <3>2, ThreadSet DEF HandoffTypeOK
    <2>5. CASE ~(addresses # <<>> /\ EgressAllowed(addresses))
      <3>1. courier' = [courier EXCEPT ![t] = Spare] BY <1>11, <2>5 DEF Resolve, Answers
      <3> QED BY <1>1, <2>2, <3>1, ThreadSet, SpareFits DEF HandoffTypeOK
    <2> QED BY <2>4, <2>5
  <1>12. ASSUME NEW t \in Couriers, NEW accepted \in BOOLEAN, NEW acknowledged \in BOOLEAN,
                PostOnce(t, accepted, acknowledged)
         PROVE  HandoffTypeOK'
    <2>2. asks' = asks /\ falls' = falls /\ raced' = raced BY <1>12 DEF PostOnce
    <2>3. CourierFits(courier[t], 1..asks) /\ courier[t].at = "posting" BY <1>12 DEF HandoffTypeOK, PostOnce
    <2>4. CASE ~acknowledged /\ ~GivesUp(courier[t].attempt)
      <3> DEFINE r == [courier[t] EXCEPT !.attempt = @ + 1]
      <3>1. courier' = [courier EXCEPT ![t] = r] BY <1>12, <2>4 DEF PostOnce
      <3>2. CourierFits(r, 1..(asks'))
        <4> DEFINE f == courier[t]
        <4> HIDE DEF f
        <4>1. /\ f.async \in BOOLEAN /\ f.number \in 1..asks /\ f.attempt \in 1..Attempts
              /\ f = [at |-> "posting", async |-> f.async, to |-> f.to, base |-> f.base, number |-> f.number,
                      attempt |-> f.attempt, pinned |-> f.pinned]
          BY <2>3, ForwardFits DEF f
        <4>2. f.attempt + 1 \in 1..Attempts BY <4>1, <2>4, AttemptsRange DEF GivesUp, f
        <4>3. r = [at |-> "posting", async |-> f.async, to |-> f.to, base |-> f.base, number |-> f.number,
                   attempt |-> f.attempt + 1, pinned |-> f.pinned]
          <5>1. r = [f EXCEPT !.attempt = f.attempt + 1] BY DEF f
          <5> HIDE DEF r
          <5> QED BY <4>1, <5>1
        <4> HIDE DEF r
        <4> QED BY <4>1, <4>2, <4>3, <2>2 DEF CourierFits
      <3> HIDE DEF r
      <3> QED BY <1>1, <2>2, <3>1, <3>2, ThreadSet DEF HandoffTypeOK
    <2>5. CASE ~(~acknowledged /\ ~GivesUp(courier[t].attempt))
      <3>1. courier' = [courier EXCEPT ![t] = Spare] BY <1>12, <2>5 DEF PostOnce, Answers
      <3> QED BY <1>1, <2>2, <3>1, ThreadSet, SpareFits DEF HandoffTypeOK
    <2> QED BY <2>4, <2>5
  <1> QED
    BY <1>2, <1>3, <1>4, <1>5, <1>6, <1>7, <1>8, <1>9, <1>10, <1>11, <1>12 DEF HandoffNext

(* ---- the passports ------------------------------------------------------- *)
(* A step that saves nothing, after which every thread holds the card it has *)
(* held, or the one on file.                                                 *)
LEMMA NothingSaved ==
  ASSUME PassportInv, UNCHANGED <<onFile, handed, raced>>, HandoffTypeOK', DrawnAsRead',
         \A t \in Reading' : courier'[t].base = onFile \/ (t \in Reading /\ courier'[t].base = courier[t].base)
  PROVE  PassportInv'
  <1>1. CardsInHand'
    <2>1. IsPaper(onFile) /\ SealWasHanded(onFile, handed) BY DEF PassportInv, CardsInHand
    <2>2. ~raced => SealIsLast(onFile) BY DEF PassportInv, PassportsAccounted
    <2>4. ASSUME NEW t \in Reading'
          PROVE  /\ IsPaper(courier'[t].base)
                 /\ SealWasHanded(courier'[t].base, handed)
                 /\ ~raced => Precedes(courier'[t].base, onFile) /\ SealIsLast(courier'[t].base)
      <3>1. CASE courier'[t].base = onFile BY <2>1, <2>2, <3>1, PrecedesItself
      <3>2. CASE t \in Reading /\ courier'[t].base = courier[t].base
        BY <3>2 DEF PassportInv, CardsInHand
      <3> QED BY <3>1, <3>2
    <2> QED BY <2>1, <2>4 DEF CardsInHand
  <1>2. OneMoment' BY DEF PassportInv, OneMoment
  <1>3. PassportsAccounted' BY DEF PassportInv, PassportsAccounted
  <1> QED BY <1>1, <1>2, <1>3 DEF PassportInv

(* After a step that only lets threads go, or moves them on without drawing. *)
LEMMA DrawnStay ==
  ASSUME DrawnAsRead, \A t \in Drawing' : t \in Drawing /\ courier'[t] = courier[t]
  PROVE  DrawnAsRead'
  BY DEF DrawnAsRead

(* Two passports of one moment that show the same are the same.              *)
LEMMA OneDrawing ==
  ASSUME NEW passports, NEW at,
         \A q \in passports : q = [doc |-> Draw(q.of, q.doc.at), of |-> q.of] /\ q.doc.at = at
  PROVE  \A q, r \in passports : q.of = r.of => q.doc = r.doc
  <1>1. \A q \in passports : q.doc = Draw(q.of, at)
    <2> SUFFICES ASSUME NEW q \in passports PROVE q.doc = Draw(q.of, at) OBVIOUS
    <2>1. q = [doc |-> Draw(q.of, q.doc.at), of |-> q.of] /\ q.doc.at = at OBVIOUS
    <2> QED BY <2>1
  <1> QED BY <1>1

(* A save: the card on file becomes one that continues the card that was read.*)
LEMMA CardSaved ==
  ASSUME PassportInv, HandoffTypeOK', DrawnAsRead', NEW base, NEW new, onFile' = new,
         raced' = (raced \/ onFile # base), handed \subseteq handed',
         \A t \in Reading' : t \in Reading /\ courier'[t].base = courier[t].base,
         IsPaper(base), IsPaper(new), Precedes(base, new), SealIsLast(base) => SealIsLast(new),
         SealWasHanded(new, handed'), OneMoment',
         ~raced' => \A p \in handed' :
           p \in handed \/ \E i \in PassportLines(new) : new.audit[i].sha = Sha(p.doc)
  PROVE  PassportInv'
  <1>1. \A c : SealWasHanded(c, handed) => SealWasHanded(c, handed')
    BY DEF SealWasHanded
  <1>2. ~raced' => ~raced /\ onFile = base OBVIOUS
  <1>3. CardsInHand'
    <2>1. ASSUME NEW t \in Reading'
          PROVE  /\ IsPaper(courier'[t].base)
                 /\ SealWasHanded(courier'[t].base, handed')
                 /\ ~raced' => Precedes(courier'[t].base, new) /\ SealIsLast(courier'[t].base)
      <3>1. t \in Reading /\ courier'[t].base = courier[t].base OBVIOUS
      <3>2. IsPaper(courier[t].base) /\ SealWasHanded(courier[t].base, handed)
        BY <3>1 DEF PassportInv, CardsInHand
      <3>3. ~raced => Precedes(courier[t].base, onFile) /\ SealIsLast(courier[t].base)
        BY <3>1 DEF PassportInv, CardsInHand
      <3>4. ~raced' => Precedes(courier[t].base, new) BY <1>2, <3>2, <3>3, PrecedesOn
      <3> QED BY <1>1, <1>2, <3>1, <3>2, <3>3, <3>4
    <2> QED BY <2>1 DEF CardsInHand
  <1>4. PassportsAccounted'
    <2> SUFFICES ASSUME ~raced'
                 PROVE  /\ \A p \in handed' : \E i \in PassportLines(new) : new.audit[i].sha = Sha(p.doc)
                        /\ SealIsLast(new)
                        /\ \A p, q \in handed' : p.of = q.of => p.doc = q.doc
      BY DEF PassportsAccounted
    <2>1. ~raced /\ onFile = base BY <1>2
    <2>2. ASSUME NEW p \in handed' PROVE \E i \in PassportLines(new) : new.audit[i].sha = Sha(p.doc)
      <3>1. CASE p \in handed
        <4>1. PICK i \in PassportLines(base) : base.audit[i].sha = Sha(p.doc)
          BY <3>1, <2>1 DEF PassportInv, PassportsAccounted
        <4>2. i \in PassportLines(new) /\ new.audit[i] = base.audit[i] BY <4>1, LinesStay
        <4> QED BY <4>1, <4>2
      <3> QED BY <3>1
    <2>3. SealIsLast(new) BY <2>1 DEF PassportInv, PassportsAccounted
    <2>4. \A r \in handed' : r = [doc |-> Draw(r.of, r.doc.at), of |-> r.of] /\ r.doc.at = new.seal.at
      BY DEF OneMoment
    <2>5. \A p, q \in handed' : p.of = q.of => p.doc = q.doc BY <2>4, OneDrawing
    <2> QED BY <2>2, <2>3, <2>5
  <1> QED BY <1>3, <1>4 DEF PassportInv

LEMMA HandInKeeps ==
  ASSUME PassportInv, HandoffTypeOK', NEW t \in Couriers, HandIn(t)
  PROVE  PassportInv'
  <1> DEFINE base == courier[t].base
             new  == WorkDone(base, courier[t].task)
  <1>1. DOMAIN courier = Couriers /\ CourierFits(courier[t], 1..asks) /\ courier[t].at = "working"
    BY DEF PassportInv, HandoffTypeOK, HandIn
  <1>2. courier[t].task \in Tasks BY <1>1 DEF CourierFits, Spare
  <1>3. t \in Reading /\ IsPaper(base) /\ SealWasHanded(base, handed)
    BY <1>1 DEF PassportInv, CardsInHand, Reading
  <1>4. /\ IsPaper(new) /\ new.seal = base.seal /\ Precedes(base, new)
        /\ SealIsLast(base) => SealIsLast(new)
    BY <1>2, <1>3, WorkKeepsSeal
  <1>5. /\ onFile' = new /\ raced' = (raced \/ onFile # base)
        /\ courier' = [courier EXCEPT ![t] = Spare] /\ handed' = handed
    BY DEF HandIn, Keeps
  <1> HIDE DEF base, new
  <1>6. \A u \in Reading' : u \in Reading /\ courier'[u].base = courier[u].base
    BY <1>1, <1>5 DEF Reading, Spare
  <1>7. DrawnAsRead'
    <2>1. \A u \in Drawing' : u \in Drawing /\ courier'[u] = courier[u] BY <1>1, <1>5 DEF Drawing, Spare
    <2> QED BY <2>1, DrawnStay DEF PassportInv
  <1>8. SealWasHanded(new, handed') BY <1>3, <1>4, <1>5 DEF SealWasHanded
  <1>9. OneMoment'
    <2>1. ~raced' => onFile = base /\ ~raced BY <1>5
    <2> QED BY <2>1, <1>4, <1>5 DEF PassportInv, OneMoment
  <1> QED BY <1>3, <1>4, <1>5, <1>6, <1>7, <1>8, <1>9, CardSaved

LEMMA PassportIs ==
  ASSUME NEW base, NEW doc, doc = RenderCasePdf(base, doc.at)
  PROVE  LET p == Passport(doc, base)
         IN p.doc = doc /\ p = [doc |-> Draw(p.of, p.doc.at), of |-> p.of]
  <1>1. doc = Draw(Shown(base), doc.at) BY DEF RenderCasePdf
  <1>2. Passport(doc, base) = [doc |-> doc, of |-> Shown(base)] BY DEF Passport
  <1> QED BY <1>1, <1>2

LEMMA HandOutKeeps ==
  ASSUME PassportInv, HandoffTypeOK', NEW t \in Couriers, HandOut(t)
  PROVE  PassportInv'
  <1> DEFINE base == courier[t].base
             doc  == courier[t].doc
             new  == Sealed(base, doc)
             p    == Passport(doc, base)
  <1>1. DOMAIN courier = Couriers /\ courier[t].at = "drawing" BY DEF PassportInv, HandoffTypeOK, HandOut
  <1>2. t \in Drawing /\ t \in Reading BY <1>1 DEF Drawing, Reading
  <1>3. /\ IsPaper(base) /\ SealWasHanded(base, handed)
        /\ ~raced => Precedes(base, onFile) /\ SealIsLast(base)
    BY <1>2 DEF PassportInv, CardsInHand
  <1>4. doc = RenderCasePdf(base, doc.at) /\ (base.seal # Unsealed => doc.at = base.seal.at)
    BY <1>2 DEF PassportInv, DrawnAsRead
  <1>5. p.doc = doc /\ p = [doc |-> Draw(p.of, p.doc.at), of |-> p.of]
    <2> HIDE DEF base, doc
    <2> QED BY <1>4, PassportIs
  <1>6. handed' = handed \cup {p} /\ courier' = [courier EXCEPT ![t] = Spare]
    BY DEF HandOut, Keeps
  <1>7. \/ new = base /\ onFile' = onFile /\ raced' = raced
        \/ new # base /\ onFile' = new /\ raced' = (raced \/ onFile # base)
    BY DEF HandOut, Keeps
  <1> HIDE DEF base, doc, new, p
  <1>8. \A u \in Reading' : u \in Reading /\ courier'[u].base = courier[u].base
    BY <1>1, <1>6 DEF Reading, Spare
  <1>9. DrawnAsRead'
    <2>1. \A u \in Drawing' : u \in Drawing /\ courier'[u] = courier[u] BY <1>1, <1>6 DEF Drawing, Spare
    <2> QED BY <2>1, DrawnStay DEF PassportInv
  <1>10. \A c : SealWasHanded(c, handed) => SealWasHanded(c, handed') BY <1>6 DEF SealWasHanded
  <1>11. CASE new = base /\ onFile' = onFile /\ raced' = raced
    <2>1. base.seal = [sha |-> Sha(doc), at |-> doc.at] BY <1>3, <1>11, SealedAlready DEF new
    <2>2. base.seal # Unsealed /\ base.seal.at = doc.at /\ base.seal.sha = Sha(doc)
      BY <2>1, ShaIsSome DEF Unsealed
    <2>3. ~raced => /\ onFile.seal # Unsealed /\ onFile.seal.at = doc.at
                    /\ \E i \in PassportLines(onFile) : onFile.audit[i].sha = Sha(doc)
      <3> SUFFICES ASSUME ~raced
                   PROVE  /\ onFile.seal # Unsealed /\ onFile.seal.at = doc.at
                          /\ \E i \in PassportLines(onFile) : onFile.audit[i].sha = Sha(doc)
        OBVIOUS
      <3>1. Precedes(base, onFile) /\ SealIsLast(base) /\ IsPaper(onFile)
        BY <1>3 DEF PassportInv, CardsInHand
      <3>2. onFile.seal # Unsealed /\ onFile.seal.at = doc.at BY <3>1, <2>2 DEF Precedes
      <3>3. PICK i \in PassportLines(base) : base.audit[i].sha = Sha(doc)
        BY <3>1, <2>2 DEF SealIsLast
      <3>4. i \in PassportLines(onFile) /\ onFile.audit[i] = base.audit[i] BY <1>3, <3>1, LinesStay
      <3> QED BY <3>2, <3>3, <3>4
    <2>4. OneMoment'
      BY <1>5, <1>6, <1>11, <2>3 DEF PassportInv, OneMoment
    <2>5. CardsInHand'
      <3>1. IsPaper(onFile') /\ SealWasHanded(onFile', handed') BY <1>10, <1>11 DEF PassportInv, CardsInHand
      <3>2. ASSUME NEW u \in Reading'
            PROVE  /\ IsPaper(courier'[u].base) /\ SealWasHanded(courier'[u].base, handed')
                   /\ ~raced' => Precedes(courier'[u].base, onFile') /\ SealIsLast(courier'[u].base)
        <4>1. /\ IsPaper(courier[u].base) /\ SealWasHanded(courier[u].base, handed)
              /\ ~raced => Precedes(courier[u].base, onFile) /\ SealIsLast(courier[u].base)
          BY <1>8 DEF PassportInv, CardsInHand
        <4>2. courier'[u].base = courier[u].base BY <1>8
        <4> QED BY <4>1, <4>2, <1>10, <1>11
      <3> QED BY <3>1, <3>2 DEF CardsInHand
    <2>6. PassportsAccounted'
      <3> SUFFICES ASSUME ~raced'
                   PROVE  /\ \A q \in handed' : \E i \in PassportLines(onFile) : onFile.audit[i].sha = Sha(q.doc)
                          /\ SealIsLast(onFile)
                          /\ \A q, r \in handed' : q.of = r.of => q.doc = r.doc
        BY <1>11 DEF PassportsAccounted
      <3>1. /\ \A q \in handed : \E i \in PassportLines(onFile) : onFile.audit[i].sha = Sha(q.doc)
            /\ SealIsLast(onFile)
        BY <1>11 DEF PassportInv, PassportsAccounted
      <3>2. \E i \in PassportLines(onFile) : onFile.audit[i].sha = Sha(p.doc) BY <1>5, <1>11, <2>3
      <3>3. \A q \in handed' : q = [doc |-> Draw(q.of, q.doc.at), of |-> q.of] /\ q.doc.at = onFile.seal.at
        BY <1>11, <2>4 DEF OneMoment
      <3>4. \A q, r \in handed' : q.of = r.of => q.doc = r.doc BY <3>3, OneDrawing
      <3> QED BY <1>6, <3>1, <3>2, <3>4
    <2> QED BY <2>4, <2>5, <2>6, <1>9 DEF PassportInv
  <1>12. CASE new # base /\ onFile' = new /\ raced' = (raced \/ onFile # base)
    <2>1. /\ IsPaper(new) /\ Precedes(base, new) /\ SealIsLast(new) /\ new.seal # Unsealed
          /\ new.seal.sha = Sha(doc) /\ new.seal.at = doc.at
          /\ \E i \in PassportLines(new) : new.audit[i].sha = Sha(doc)
      BY <1>3, <1>4, <1>12, SealIsNew DEF new
    <2>2. SealWasHanded(new, handed') BY <1>5, <1>6, <2>1 DEF SealWasHanded
    <2>3. OneMoment'
      <3>1. \A q \in handed' : q = [doc |-> Draw(q.of, q.doc.at), of |-> q.of]
        BY <1>5, <1>6 DEF PassportInv, OneMoment
      <3>2. ASSUME ~raced', NEW q \in handed' PROVE q.doc.at = new.seal.at
        <4>1. ~raced /\ onFile = base BY <3>2, <1>12
        <4>2. CASE q \in handed
          <5>1. base.seal # Unsealed /\ q.doc.at = base.seal.at BY <4>1, <4>2 DEF PassportInv, OneMoment
          <5> QED BY <5>1, <1>4, <2>1
        <4>3. CASE q = p BY <4>3, <1>5, <2>1
        <4> QED BY <4>2, <4>3, <1>6
      <3> QED BY <3>1, <3>2, <2>1, <1>12 DEF OneMoment
    <2>4. \A q \in handed' : q \in handed \/ \E i \in PassportLines(new) : new.audit[i].sha = Sha(q.doc)
      BY <1>5, <1>6, <2>1
    <2> QED BY <1>3, <1>6, <1>8, <1>9, <1>12, <2>1, <2>2, <2>3, <2>4, CardSaved
  <1> QED BY <1>7, <1>11, <1>12

(* A step of another kind: nothing is saved and nothing drawn.               *)
LEMMA OthersKeep ==
  ASSUME PassportInv, UNCHANGED <<onFile, handed, raced>>, HandoffTypeOK', NEW t \in Couriers, NEW r,
         courier' = [courier EXCEPT ![t] = r], r.at # "drawing",
         r.at # "spare" => r.base = onFile \/ (courier[t].at # "spare" /\ r.base = courier[t].base)
  PROVE  PassportInv'
  <1>1. DOMAIN courier = Couriers BY DEF PassportInv, HandoffTypeOK
  <1>2. \A u \in Drawing' : u \in Drawing /\ courier'[u] = courier[u] BY <1>1 DEF Drawing
  <1>3. DrawnAsRead' BY <1>2, DrawnStay DEF PassportInv
  <1>4. \A u \in Reading' : courier'[u].base = onFile \/ (u \in Reading /\ courier'[u].base = courier[u].base)
    BY <1>1 DEF Reading
  <1> QED BY <1>3, <1>4, NothingSaved

LEMMA CourierSame ==
  ASSUME PassportInv, UNCHANGED <<onFile, handed, raced, courier>>, HandoffTypeOK'
  PROVE  PassportInv'
  <1>1. \A u \in Drawing' : u \in Drawing /\ courier'[u] = courier[u] BY DEF Drawing
  <1>2. DrawnAsRead' BY <1>1, DrawnStay DEF PassportInv
  <1>3. \A u \in Reading' : u \in Reading /\ courier'[u].base = courier[u].base BY DEF Reading
  <1> QED BY <1>2, <1>3, NothingSaved

LEMMA DrawKeeps ==
  ASSUME PassportInv, HandoffTypeOK', NEW t \in Couriers, DrawPassport(t)
  PROVE  PassportInv'
  <1> DEFINE at == PdfGeneratedAt(onFile)
             doc == RenderCasePdf(onFile, at)
  <1>1. doc.at = at BY DEF RenderCasePdf, Draw
  <1>2. courier' = [courier EXCEPT ![t] = [at |-> "drawing", base |-> onFile, doc |-> doc]]
    BY DEF DrawPassport
  <1>3. UNCHANGED <<onFile, handed, raced>> BY DEF DrawPassport
  <1>4. onFile.seal # Unsealed => at = onFile.seal.at BY DEF PdfGeneratedAt
  <1> HIDE DEF at, doc
  <1>5. doc = RenderCasePdf(onFile, doc.at) BY <1>1 DEF doc
  <1>6. DOMAIN courier = Couriers BY DEF PassportInv, HandoffTypeOK
  <1>7. DrawnAsRead'
    <2>1. ASSUME NEW u \in Drawing'
          PROVE  /\ courier'[u].doc = RenderCasePdf(courier'[u].base, courier'[u].doc.at)
                 /\ courier'[u].base.seal # Unsealed => courier'[u].doc.at = courier'[u].base.seal.at
      <3>1. CASE u = t
        <4>1. courier'[u].base = onFile /\ courier'[u].doc = doc BY <3>1, <1>2, <1>6
        <4> QED BY <4>1, <1>1, <1>4, <1>5
      <3>2. CASE u # t
        <4>1. u \in Drawing /\ courier'[u] = courier[u] BY <3>2, <1>2, <1>6 DEF Drawing
        <4> QED BY <4>1 DEF PassportInv, DrawnAsRead
      <3> QED BY <3>1, <3>2
    <2> QED BY <2>1 DEF DrawnAsRead
  <1>8. \A u \in Reading' : courier'[u].base = onFile \/ (u \in Reading /\ courier'[u].base = courier[u].base)
    BY <1>2, <1>6 DEF Reading
  <1> QED BY <1>3, <1>7, <1>8, NothingSaved

LEMMA FreshCard ==
  /\ IsPaper(NewCase) /\ NewCase.seal = Unsealed /\ PassportLines(NewCase) = {}
  /\ Precedes(NewCase, NewCase) /\ SealIsLast(NewCase)
  <1>1. IsPaper(NewCase) /\ NewCase.seal = Unsealed BY HandoffAssumption DEF IsPaper
  <1>2. PassportLines(NewCase) = {}
    <2> SUFFICES ASSUME NEW i \in DOMAIN NewCase.audit PROVE NewCase.audit[i].what # "pdf"
      BY DEF PassportLines
    <2>1. NewCase.audit[i] \in Range(NewCase.audit) BY DEF Range
    <2> QED BY <2>1, HandoffAssumption
  <1> QED BY <1>1, <1>2, PrecedesItself DEF SealIsLast

LEMMA PassportStarts == HandoffInit => PassportInv
  <1> SUFFICES ASSUME HandoffInit PROVE PassportInv OBVIOUS
  <1>1. HandoffTypeOK
    <2>1. 0 \in 0..MaxAsks /\ 0 \in 0..MaxFalls BY HandoffAssumption
    <2>2. \A t \in Couriers : courier[t] = Spare BY DEF HandoffInit
    <2>3. \A t \in Couriers : CourierFits(courier[t], 1..asks) BY <2>2, SpareFits
    <2> QED BY <2>1, <2>3 DEF HandoffInit, HandoffTypeOK
  <1>2. Reading = {} /\ Drawing = {} BY DEF HandoffInit, Reading, Drawing, Spare
  <1>3. DrawnAsRead BY <1>2 DEF DrawnAsRead
  <1>4. CASE onFile = NewCase /\ handed = {}
    <2>1. CardsInHand BY <1>2, <1>4, FreshCard DEF CardsInHand, SealWasHanded
    <2>2. OneMoment BY <1>4 DEF OneMoment
    <2>3. PassportsAccounted BY <1>4, FreshCard DEF PassportsAccounted
    <2> QED BY <1>1, <1>3, <2>1, <2>2, <2>3 DEF PassportInv
  <1>5. CASE \E doc : /\ doc = RenderCasePdf(NewCase, 0)
                      /\ onFile = Sealed(NewCase, doc) /\ handed = {Passport(doc, NewCase)}
    <2>1. PICK doc : /\ doc = RenderCasePdf(NewCase, 0)
                     /\ onFile = Sealed(NewCase, doc) /\ handed = {Passport(doc, NewCase)}
      BY <1>5
    <2> DEFINE p == Passport(doc, NewCase)
    <2>2. doc = RenderCasePdf(NewCase, doc.at) BY <2>1 DEF RenderCasePdf, Draw
    <2>3. p.doc = doc /\ p = [doc |-> Draw(p.of, p.doc.at), of |-> p.of] BY <2>2, PassportIs
    <2>4. Sealed(NewCase, doc) # NewCase
      <3> SUFFICES ASSUME Sealed(NewCase, doc) = NewCase PROVE FALSE OBVIOUS
      <3>1. NewCase.seal = [sha |-> Sha(doc), at |-> doc.at] BY FreshCard, SealedAlready
      <3> QED BY <3>1, FreshCard, ShaIsSome DEF Unsealed
    <2>5. /\ IsPaper(onFile) /\ SealIsLast(onFile) /\ onFile.seal # Unsealed
          /\ onFile.seal.sha = Sha(doc) /\ onFile.seal.at = doc.at
          /\ \E i \in PassportLines(onFile) : onFile.audit[i].sha = Sha(doc)
      BY <2>1, <2>4, FreshCard, SealIsNew
    <2>6. handed = {p} BY <2>1
    <2> HIDE DEF p
    <2>7. CardsInHand BY <1>2, <2>3, <2>5, <2>6 DEF CardsInHand, SealWasHanded
    <2>8. OneMoment BY <2>3, <2>5, <2>6 DEF OneMoment
    <2>9. PassportsAccounted BY <2>3, <2>5, <2>6 DEF PassportsAccounted
    <2> QED BY <1>1, <1>3, <2>7, <2>8, <2>9 DEF PassportInv
  <1>6. (onFile = NewCase /\ handed = {}) \/ \E doc : /\ doc = RenderCasePdf(NewCase, 0)
                      /\ onFile = Sealed(NewCase, doc) /\ handed = {Passport(doc, NewCase)}
    BY DEF HandoffInit
  <1> QED BY <1>4, <1>5, <1>6

LEMMA PassportSteps == PassportInv /\ [HandoffNext]_handoffVars => PassportInv'
  <1> SUFFICES ASSUME PassportInv, [HandoffNext]_handoffVars PROVE PassportInv'
    OBVIOUS
  <1>1. HandoffTypeOK' BY HandoffTypeKept DEF PassportInv
  <1>2. CASE UNCHANGED handoffVars BY <1>1, <1>2, CourierSame DEF handoffVars
  <1>3. CASE TimePasses BY <1>1, <1>3, CourierSame DEF TimePasses
  <1>4. CASE Fall
    <2>1. UNCHANGED <<onFile, handed, raced>> /\ courier' = [t \in Couriers |-> Spare] BY <1>4 DEF Fall
    <2>2. Reading' = {} /\ Drawing' = {} BY <2>1 DEF Reading, Drawing, Spare
    <2>3. DrawnAsRead' BY <2>2 DEF DrawnAsRead
    <2> QED BY <1>1, <2>1, <2>2, <2>3, NothingSaved
  <1>5. ASSUME NEW t \in Couriers, NEW task \in Tasks, TakeUp(t, task) PROVE PassportInv'
    <2> DEFINE r == [at |-> "working", base |-> onFile, task |-> task]
    <2>1. courier' = [courier EXCEPT ![t] = r] /\ UNCHANGED <<onFile, handed, raced>> BY <1>5 DEF TakeUp
    <2>2. r.at # "drawing" /\ r.base = onFile OBVIOUS
    <2> HIDE DEF r
    <2> QED BY <1>1, <2>1, <2>2, OthersKeep
  <1>6. ASSUME NEW t \in Couriers, HandIn(t) PROVE PassportInv' BY <1>1, <1>6, HandInKeeps
  <1>7. ASSUME NEW t \in Couriers, DrawPassport(t) PROVE PassportInv' BY <1>1, <1>7, DrawKeeps
  <1>8. ASSUME NEW t \in Couriers, HandOut(t) PROVE PassportInv' BY <1>1, <1>8, HandOutKeeps
  <1>9. ASSUME NEW t \in Couriers, NEW d \in Destinations, NEW async \in BOOLEAN, BeginForward(t, d, async)
        PROVE  PassportInv'
    <2>1. UNCHANGED <<onFile, handed, raced>> BY <1>9 DEF BeginForward
    <2>2. CASE DestinationAllowed(d)
      <3> DEFINE r == [at |-> IF async THEN "waiting" ELSE "resolving", async |-> async,
                       to |-> d, base |-> onFile, number |-> asks', attempt |-> 1, pinned |-> 0]
      <3>1. courier' = [courier EXCEPT ![t] = r] BY <1>9, <2>2 DEF BeginForward
      <3>2. r.at # "drawing" /\ r.base = onFile OBVIOUS
      <3> HIDE DEF r
      <3> QED BY <1>1, <2>1, <3>1, <3>2, OthersKeep
    <2>3. CASE ~DestinationAllowed(d)
      <3>1. courier' = courier BY <1>9, <2>3 DEF BeginForward
      <3> QED BY <1>1, <2>1, <3>1, CourierSame
    <2> QED BY <2>2, <2>3
  <1>10. ASSUME NEW t \in Couriers, EnterSlot(t) PROVE PassportInv'
    <2> DEFINE r == [courier[t] EXCEPT !.at = "resolving"]
    <2>1. courier' = [courier EXCEPT ![t] = r] /\ UNCHANGED <<onFile, handed, raced>> /\ courier[t].at = "waiting"
      BY <1>10 DEF EnterSlot
    <2>2. CourierFits(courier[t], 1..asks) BY DEF PassportInv, HandoffTypeOK
    <2>3. r.at # "drawing" /\ r.base = courier[t].base BY <2>1, <2>2 DEF CourierFits, Spare
    <2> HIDE DEF r
    <2> QED BY <1>1, <2>1, <2>3, OthersKeep
  <1>11. ASSUME NEW t \in Couriers, NEW addresses \in Resolutions, Resolve(t, addresses) PROVE PassportInv'
    <2>1. UNCHANGED <<onFile, handed, raced>> /\ courier[t].at = "resolving" BY <1>11 DEF Resolve
    <2>2. CourierFits(courier[t], 1..asks) BY DEF PassportInv, HandoffTypeOK
    <2>3. CASE addresses # <<>> /\ EgressAllowed(addresses)
      <3> DEFINE r == [courier[t] EXCEPT !.at = "posting", !.pinned = addresses[1]]
      <3>1. courier' = [courier EXCEPT ![t] = r] BY <1>11, <2>3 DEF Resolve
      <3>2. r.at # "drawing" /\ r.base = courier[t].base
        <4> DEFINE f == courier[t]
        <4>1. f = [at |-> f.at, async |-> f.async, to |-> f.to, base |-> f.base, number |-> f.number,
                   attempt |-> f.attempt, pinned |-> f.pinned]
          BY <2>1, <2>2, ForwardFits
        <4>2. r = [f EXCEPT !.at = "posting", !.pinned = addresses[1]] OBVIOUS
        <4> HIDE DEF f, r
        <4>3. r.at # "drawing" /\ r.base = f.base BY <4>1, <4>2
        <4> QED BY <4>3 DEF f
      <3> HIDE DEF r
      <3> QED BY <1>1, <2>1, <3>1, <3>2, OthersKeep
    <2>4. CASE ~(addresses # <<>> /\ EgressAllowed(addresses))
      <3>1. courier' = [courier EXCEPT ![t] = Spare] BY <1>11, <2>4 DEF Resolve, Answers
      <3>2. Spare.at = "spare" BY DEF Spare
      <3> QED BY <1>1, <2>1, <3>1, <3>2, OthersKeep
    <2> QED BY <2>3, <2>4
  <1>12. ASSUME NEW t \in Couriers, NEW accepted \in BOOLEAN, NEW acknowledged \in BOOLEAN,
                PostOnce(t, accepted, acknowledged)
         PROVE  PassportInv'
    <2>1. UNCHANGED <<onFile, handed, raced>> /\ courier[t].at = "posting" BY <1>12 DEF PostOnce
    <2>2. CourierFits(courier[t], 1..asks) BY DEF PassportInv, HandoffTypeOK
    <2>3. CASE ~acknowledged /\ ~GivesUp(courier[t].attempt)
      <3> DEFINE r == [courier[t] EXCEPT !.attempt = @ + 1]
      <3>1. courier' = [courier EXCEPT ![t] = r] BY <1>12, <2>3 DEF PostOnce
      <3>2. r.at # "drawing" /\ r.base = courier[t].base
        <4> DEFINE f == courier[t]
        <4>1. f = [at |-> f.at, async |-> f.async, to |-> f.to, base |-> f.base, number |-> f.number,
                   attempt |-> f.attempt, pinned |-> f.pinned]
          BY <2>1, <2>2, ForwardFits
        <4>2. r = [f EXCEPT !.attempt = f.attempt + 1] /\ f.at = "posting" BY <2>1
        <4> HIDE DEF f, r
        <4>3. r.at # "drawing" /\ r.base = f.base BY <4>1, <4>2
        <4> QED BY <4>3 DEF f
      <3> HIDE DEF r
      <3> QED BY <1>1, <2>1, <3>1, <3>2, OthersKeep
    <2>4. CASE ~(~acknowledged /\ ~GivesUp(courier[t].attempt))
      <3>1. courier' = [courier EXCEPT ![t] = Spare] BY <1>12, <2>4 DEF PostOnce, Answers
      <3>2. Spare.at = "spare" BY DEF Spare
      <3> QED BY <1>1, <2>1, <3>1, <3>2, OthersKeep
    <2> QED BY <2>3, <2>4
  <1> QED
    BY <1>2, <1>3, <1>4, <1>5, <1>6, <1>7, <1>8, <1>9, <1>10, <1>11, <1>12 DEF HandoffNext

(* What the passports rest on holds in every reachable state.                *)
THEOREM PassportInductive == HandoffSpec => []PassportInv
  BY PassportStarts, PassportSteps, PTL DEF HandoffSpec

(* As long as no two saves raced, every passport that was handed out is in   *)
(* the log of the card, the seal is the last one's, and the same state of    *)
(* the case gives the same passport.                                         *)
THEOREM PassportsAreAccounted == HandoffSpec => []PassportsAccounted
  <1>1. PassportInv => PassportsAccounted BY DEF PassportInv
  <1> QED BY <1>1, PassportInductive, PTL

(* ---- the forwards -------------------------------------------------------- *)
LEMMA ReceiverIs ==
  ASSUME ForwardInv
  PROVE  /\ Len(receiver) \in Nat /\ DOMAIN receiver = 1..Len(receiver)
         /\ \A n : IsFiniteSet(Copies(receiver, n)) /\ Cardinality(Copies(receiver, n)) \in Nat
  <1>1. receiver \in Seq(Range(receiver)) BY DEF ForwardInv
  <1>2. Len(receiver) \in Nat /\ DOMAIN receiver = 1..Len(receiver) BY <1>1
  <1>3. IsFiniteSet(DOMAIN receiver) BY <1>2, FS_Interval
  <1>4. \A n : Copies(receiver, n) \subseteq DOMAIN receiver BY DEF Copies
  <1>5. \A n : IsFiniteSet(Copies(receiver, n)) BY <1>3, <1>4, FS_Subset
  <1> QED BY <1>2, <1>5, FS_CardinalityType

(* A thread that goes on with its forward as before, while the receiver gets *)
(* nothing of its number and no answer bears it.                             *)
LEMMA StaysUnderWay ==
  ASSUME NEW t \in Forwarding, OnItsWay(t), courier'[t] = courier[t], setup' = setup,
         Copies(receiver', courier[t].number) = Copies(receiver, courier[t].number),
         \A i \in Copies(receiver, courier[t].number) : receiver'[i] = receiver[i],
         \A a \in answered' : a \in answered \/ a.number # courier[t].number,
         \A u \in Forwarding' : (u \in Forwarding /\ courier'[u].number = courier[u].number)
                                 \/ courier'[u].number # courier[t].number
  PROVE  OnItsWay(t)'
  BY DEF OnItsWay, Guarded

(* What nothing is posted in: the answers stay true, and so does the rest.   *)
LEMMA NothingPosted ==
  ASSUME ForwardInv, PassportInv', UNCHANGED <<setup, receiver>>, handed \subseteq handed',
         asks <= asks', IsFiniteSet(Posting'), Cardinality(Posting') <= Slots,
         \A a \in answered' : a \in answered \/ (a.number \in 1..asks' /\ AnswerIsTrue(receiver', a)),
         \A t \in Forwarding' : OnItsWay(t)'
  PROVE  ForwardInv'
  <1>1. \A n : Copies(receiver', n) = Copies(receiver, n) BY DEF Copies
  <1>2. \A a \in answered : AnswerIsTrue(receiver', a) BY DEF ForwardInv, ForwardsToldTrue
  <1>3. asks \in Nat /\ asks' \in Nat /\ 1..asks \subseteq 1..(asks')
    <2>1. asks \in Nat /\ asks' \in Nat BY HandoffAssumption DEF ForwardInv, PassportInv, HandoffTypeOK
    <2> QED BY <2>1
  <1>4. ForwardsToldTrue' BY <1>2 DEF ForwardInv, ForwardsToldTrue, Guarded
  <1>5. \A i \in DOMAIN receiver' : receiver'[i].number \in 1..asks' BY <1>3 DEF ForwardInv
  <1>6. \A a \in answered' : a.number \in 1..asks' BY <1>3 DEF ForwardInv
  <1>7. receiver' \in Seq(Range(receiver')) BY DEF ForwardInv
  <1> QED BY <1>4, <1>5, <1>6, <1>7 DEF ForwardInv

(* The steps that are not of a forward.                                      *)
LEMMA ForwardsStand ==
  ASSUME ForwardInv, PassportInv', UNCHANGED <<setup, receiver, answered>>, handed \subseteq handed',
         asks <= asks', \A t \in Couriers : t \in Forwarding \/ t \in Forwarding' => courier'[t] = courier[t]
  PROVE  ForwardInv'
  <1>1. Forwarding' = Forwarding BY DEF Forwarding
  <1>2. Posting' = Posting BY <1>1 DEF Posting, Forwarding
  <1>3. \A n : Copies(receiver', n) = Copies(receiver, n) BY DEF Copies
  <1>4. ASSUME NEW t \in Forwarding' PROVE OnItsWay(t)'
    <2>1. t \in Forwarding /\ t \in Couriers /\ \A u \in Forwarding : courier'[u] = courier[u]
      BY <1>1 DEF Forwarding
    <2>2. OnItsWay(t) BY <2>1 DEF ForwardInv
    <2> QED BY <1>1, <1>3, <2>1, <2>2, StaysUnderWay
  <1>5. IsFiniteSet(Posting) /\ Cardinality(Posting) <= Slots BY DEF ForwardInv, ForwardsToldTrue
  <1> QED BY <1>2, <1>4, <1>5, NothingPosted

(* A thread lets go of its forward, or of nothing.                           *)
LEMMA FewerPost ==
  ASSUME ForwardInv, Posting' \subseteq Posting
  PROVE  IsFiniteSet(Posting') /\ Cardinality(Posting') <= Slots
  <1>1. IsFiniteSet(Posting) /\ Cardinality(Posting) <= Slots BY DEF ForwardInv, ForwardsToldTrue
  <1>2. IsFiniteSet(Posting') /\ Cardinality(Posting') <= Cardinality(Posting) BY <1>1, FS_Subset
  <1>3. Cardinality(Posting) \in Nat /\ Cardinality(Posting') \in Nat /\ Slots \in Nat
    BY <1>1, <1>2, FS_CardinalityType, HandoffAssumption
  <1> QED BY <1>1, <1>2, <1>3

LEMMA FallKeeps ==
  ASSUME ForwardInv, PassportInv', Fall
  PROVE  ForwardInv'
  <1>1. \A t \in Couriers : courier'[t].at = "spare" BY DEF Fall, Spare
  <1>2. Forwarding' = {} /\ Posting' = {} BY <1>1 DEF Forwarding, Posting
  <1>3. UNCHANGED <<setup, receiver, answered, handed, asks>> BY DEF Fall
  <1>4. IsFiniteSet(Posting') /\ Cardinality(Posting') <= Slots BY <1>2, FewerPost
  <1>5. asks <= asks' BY <1>3, HandoffAssumption DEF ForwardInv, PassportInv, HandoffTypeOK
  <1> QED BY <1>2, <1>3, <1>4, <1>5, NothingPosted

LEMMA BeginKeeps ==
  ASSUME ForwardInv, PassportInv', NEW t \in Couriers, NEW d \in Destinations, NEW async \in BOOLEAN,
         BeginForward(t, d, async)
  PROVE  ForwardInv'
  <1>1. DOMAIN courier = Couriers /\ asks \in Nat /\ courier[t].at = "spare" /\ t \notin Forwarding
    BY HandoffAssumption DEF ForwardInv, PassportInv, HandoffTypeOK, BeginForward, Forwarding
  <1>2. asks' = asks + 1 /\ UNCHANGED <<setup, receiver, handed>> BY DEF BeginForward, Asked
  <1>3. \A n : Copies(receiver', n) = Copies(receiver, n) BY <1>2 DEF Copies
  <1>4. Copies(receiver, asks + 1) = {} BY <1>1 DEF Copies, ForwardInv
  <1>5. \A u \in Forwarding : courier[u].number \in 1..asks /\ OnItsWay(u)
    <2> SUFFICES ASSUME NEW u \in Forwarding PROVE courier[u].number \in 1..asks /\ OnItsWay(u) OBVIOUS
    <2>1. CourierFits(courier[u], 1..asks) /\ courier[u].at \in {"waiting", "resolving", "posting"}
      BY DEF ForwardInv, PassportInv, HandoffTypeOK, Forwarding
    <2> QED BY <2>1, ForwardFits DEF ForwardInv
  <1>6. CASE DestinationAllowed(d)
    <2> DEFINE f == [at |-> IF async THEN "waiting" ELSE "resolving", async |-> async,
                     to |-> d, base |-> onFile, number |-> asks', attempt |-> 1, pinned |-> 0]
    <2>1. courier' = [courier EXCEPT ![t] = f] /\ answered' = answered BY <1>6 DEF BeginForward
    <2>2. /\ f.at = (IF async THEN "waiting" ELSE "resolving") /\ f.async = async /\ f.to = d
          /\ f.number = asks + 1 /\ f.attempt = 1
      BY <1>2
    <2> HIDE DEF f
    <2>3. courier'[t] = f /\ \A u \in Couriers \ {t} : courier'[u] = courier[u] BY <1>1, <2>1
    <2>4. Forwarding' = Forwarding \cup {t} BY <2>2, <2>3 DEF Forwarding
    <2>5. Posting' = Posting BY <1>1, <2>2, <2>3 DEF Posting
    <2>6. ASSUME NEW u \in Forwarding' PROVE OnItsWay(u)'
      <3>1. CASE u = t
        <4>1. \A v \in Forwarding' : courier'[v].number = asks + 1 => v = t
          BY <1>1, <1>5, <2>3, <2>4 DEF Forwarding
        <4>2. \A a \in answered' : a.number # asks + 1 BY <1>1, <2>1 DEF ForwardInv
        <4>3. Cardinality({}) < 1 BY FS_EmptySet
        <4>4. Guarded' /\ (setup.rules = {})' => d.host \in Loopback
          BY <1>2, <1>6 DEF Guarded, DestinationAllowed
        <4> QED BY <1>3, <1>4, <2>2, <2>3, <3>1, <4>1, <4>2, <4>3, <4>4 DEF OnItsWay
      <3>2. CASE u # t
        <4>1. u \in Forwarding /\ u \in Couriers /\ courier'[u] = courier[u]
          BY <2>3, <2>4, <3>2 DEF Forwarding
        <4>2. OnItsWay(u) /\ courier[u].number # asks + 1 BY <1>1, <1>5, <4>1
        <4>3. \A v \in Forwarding' : (v \in Forwarding /\ courier'[v].number = courier[v].number)
                                      \/ courier'[v].number # courier[u].number
          BY <2>2, <2>3, <2>4, <4>2 DEF Forwarding
        <4> QED BY <1>2, <1>3, <2>1, <4>1, <4>2, <4>3, StaysUnderWay
      <3> QED BY <3>1, <3>2
    <2>7. IsFiniteSet(Posting') /\ Cardinality(Posting') <= Slots BY <2>5, FewerPost
    <2> QED BY <1>1, <1>2, <2>1, <2>6, <2>7, NothingPosted
  <1>7. CASE ~DestinationAllowed(d)
    <2> DEFINE b == [number |-> asks', code |-> 400, attempts |-> 0, of |-> onFile]
    <2>1. courier' = courier /\ answered' = answered \cup {b} BY <1>7 DEF BeginForward
    <2>2. b.number = asks + 1 /\ b.code = 400 /\ b.attempts = 0 BY <1>2
    <2> HIDE DEF b
    <2>3. AnswerIsTrue(receiver', b)
      <3>1. Copies(receiver', b.number) = {} BY <1>3, <1>4, <2>2
      <3> QED BY <2>2, <3>1, FS_EmptySet DEF AnswerIsTrue
    <2>4. Forwarding' = Forwarding /\ Posting' = Posting BY <2>1 DEF Forwarding, Posting
    <2>5. ASSUME NEW u \in Forwarding' PROVE OnItsWay(u)'
      <3>1. u \in Forwarding /\ OnItsWay(u) /\ courier[u].number # asks + 1 BY <1>1, <1>5, <2>4
      <3>2. \A a \in answered' : a \in answered \/ a.number # courier[u].number BY <2>1, <2>2, <3>1
      <3> QED BY <1>2, <1>3, <2>1, <2>4, <3>1, <3>2, StaysUnderWay
    <2>6. IsFiniteSet(Posting') /\ Cardinality(Posting') <= Slots BY <2>4, FewerPost
    <2>7. b.number \in 1..asks' BY <1>1, <1>2, <2>2
    <2> QED BY <1>1, <1>2, <2>1, <2>3, <2>5, <2>6, <2>7, NothingPosted
  <1> QED BY <1>6, <1>7

(* What is known of a forward under way, and of the others when it moves on. *)
LEMMA ForwardIs ==
  ASSUME ForwardInv, NEW t \in Couriers, courier[t].at \in {"waiting", "resolving", "posting"}
  PROVE  /\ DOMAIN courier = Couriers /\ t \in Forwarding /\ OnItsWay(t) /\ asks \in Nat
         /\ LET f == courier[t]
            IN /\ f.async \in BOOLEAN /\ f.number \in 1..asks /\ f.attempt \in 1..Attempts
               /\ f = [at |-> f.at, async |-> f.async, to |-> f.to, base |-> f.base, number |-> f.number,
                       attempt |-> f.attempt, pinned |-> f.pinned]
  <1>1. DOMAIN courier = Couriers /\ CourierFits(courier[t], 1..asks) /\ asks \in Nat
    BY HandoffAssumption DEF ForwardInv, PassportInv, HandoffTypeOK
  <1>2. t \in Forwarding BY DEF Forwarding
  <1>3. OnItsWay(t) BY <1>2 DEF ForwardInv
  <1> QED BY <1>1, <1>2, <1>3, ForwardFits

LEMMA OthersGoOn ==
  ASSUME ForwardInv, NEW t \in Forwarding, NEW r, courier' = [courier EXCEPT ![t] = r], setup' = setup,
         r.at \in {"waiting", "resolving", "posting"} => r.number = courier[t].number,
         \A n : n # courier[t].number => Copies(receiver', n) = Copies(receiver, n),
         \A i \in DOMAIN receiver : receiver'[i] = receiver[i],
         \A a \in answered' : a \in answered \/ a.number = courier[t].number,
         NEW u \in Forwarding', u # t
  PROVE  OnItsWay(u)'
  <1>1. DOMAIN courier = Couriers /\ t \in Couriers
    BY DEF ForwardInv, PassportInv, HandoffTypeOK, Forwarding
  <1>2. u \in Forwarding /\ courier'[u] = courier[u] BY <1>1 DEF Forwarding
  <1>3. OnItsWay(u) BY <1>2 DEF ForwardInv
  <1>4. courier[u].number # courier[t].number BY <1>3 DEF OnItsWay
  <1>5. \A v \in Forwarding' : (v \in Forwarding /\ courier'[v].number = courier[v].number)
                                \/ courier'[v].number # courier[u].number
    <2> SUFFICES ASSUME NEW v \in Forwarding'
                 PROVE  (v \in Forwarding /\ courier'[v].number = courier[v].number)
                        \/ courier'[v].number # courier[u].number
      OBVIOUS
    <2>1. CASE v = t
      <3>1. courier'[t] = r BY <1>1
      <3>2. r.at \in {"waiting", "resolving", "posting"} BY <2>1, <3>1 DEF Forwarding
      <3> QED BY <2>1, <3>1, <3>2
    <2>2. CASE v # t BY <1>1, <2>2 DEF Forwarding
    <2> QED BY <2>1, <2>2
  <1>6. \A i \in Copies(receiver, courier[u].number) : receiver'[i] = receiver[i] BY DEF Copies
  <1> QED BY <1>2, <1>3, <1>4, <1>5, <1>6, StaysUnderWay

LEMMA SlotKeeps ==
  ASSUME ForwardInv, PassportInv', NEW t \in Couriers, EnterSlot(t)
  PROVE  ForwardInv'
  <1> DEFINE f == courier[t]
             r == [f EXCEPT !.at = "resolving"]
  <1>1. f.at = "waiting" /\ courier' = [courier EXCEPT ![t] = r] /\ Cardinality(Posting) < Slots
    BY DEF EnterSlot
  <1>2. UNCHANGED <<setup, receiver, asks, handed, answered>> BY DEF EnterSlot
  <1>3. /\ DOMAIN courier = Couriers /\ t \in Forwarding /\ OnItsWay(t) /\ asks \in Nat
        /\ f = [at |-> f.at, async |-> f.async, to |-> f.to, base |-> f.base, number |-> f.number,
                attempt |-> f.attempt, pinned |-> f.pinned]
    BY <1>1, ForwardIs
  <1>4. /\ r.at = "resolving" /\ r.number = f.number /\ r.attempt = f.attempt /\ r.to = f.to
        /\ r.base = f.base /\ r.pinned = f.pinned
    <2> HIDE DEF f
    <2> QED BY <1>3
  <1> HIDE DEF r
  <1>5. courier'[t] = r /\ \A u \in Couriers \ {t} : courier'[u] = courier[u] BY <1>1, <1>3
  <1>6. Posting' \subseteq Posting \cup {t} BY <1>5 DEF Posting
  <1>7. IsFiniteSet(Posting') /\ Cardinality(Posting') <= Slots
    <2>1. IsFiniteSet(Posting) /\ Slots \in Nat BY HandoffAssumption DEF ForwardInv
    <2>2. IsFiniteSet(Posting \cup {t}) /\ Cardinality(Posting \cup {t}) <= Cardinality(Posting) + 1
      <3>1. /\ IsFiniteSet(Posting \cup {t})
            /\ Cardinality(Posting \cup {t}) = IF t \in Posting THEN Cardinality(Posting) ELSE Cardinality(Posting) + 1
        BY <2>1, FS_AddElement
      <3>2. Cardinality(Posting) \in Nat BY <2>1, FS_CardinalityType
      <3> QED BY <3>1, <3>2
    <2>3. IsFiniteSet(Posting') /\ Cardinality(Posting') <= Cardinality(Posting \cup {t})
      BY <1>6, <2>2, FS_Subset
    <2>4. Cardinality(Posting) \in Nat /\ Cardinality(Posting') \in Nat /\ Cardinality(Posting \cup {t}) \in Nat
      BY <2>1, <2>2, <2>3, FS_CardinalityType
    <2> QED BY <1>1, <2>1, <2>2, <2>3, <2>4
  <1>8. ASSUME NEW u \in Forwarding' PROVE OnItsWay(u)'
    <2>1. CASE u = t
      <3>1. \A v \in Forwarding' : courier'[v].number = f.number => v = t
        <4>1. \A v \in Forwarding' : v = t \/ (v \in Forwarding /\ courier'[v] = courier[v])
          BY <1>5 DEF Forwarding
        <4> QED BY <1>3, <4>1 DEF OnItsWay
      <3> QED BY <1>1, <1>2, <1>3, <1>4, <1>5, <2>1, <3>1 DEF OnItsWay, Guarded
    <2>2. CASE u # t BY <1>1, <1>2, <1>3, <1>4, <2>2, OthersGoOn
    <2> QED BY <2>1, <2>2
  <1> QED BY <1>2, <1>3, <1>7, <1>8, NothingPosted

LEMMA ResolveKeeps ==
  ASSUME ForwardInv, PassportInv', NEW t \in Couriers, NEW addresses \in Resolutions, Resolve(t, addresses)
  PROVE  ForwardInv'
  <1> DEFINE f == courier[t]
  <1>1. f.at = "resolving" /\ (f.to.host \in Loopback => addresses # <<>> /\ addresses[1] \in Inside)
    BY DEF Resolve
  <1>2. UNCHANGED <<setup, receiver, asks, handed>> BY DEF Resolve
  <1>3. /\ DOMAIN courier = Couriers /\ t \in Forwarding /\ OnItsWay(t) /\ asks \in Nat
        /\ f = [at |-> f.at, async |-> f.async, to |-> f.to, base |-> f.base, number |-> f.number,
                attempt |-> f.attempt, pinned |-> f.pinned]
        /\ f.number \in 1..asks
    BY <1>1, ForwardIs
  <1>4. CASE addresses # <<>> /\ EgressAllowed(addresses)
    <2> DEFINE r == [f EXCEPT !.at = "posting", !.pinned = addresses[1]]
    <2>1. courier' = [courier EXCEPT ![t] = r] /\ answered' = answered BY <1>4 DEF Resolve
    <2>2. /\ r.at = "posting" /\ r.number = f.number /\ r.attempt = f.attempt /\ r.to = f.to
          /\ r.base = f.base /\ r.pinned = addresses[1] /\ r.async = f.async
      <3> HIDE DEF f
      <3> QED BY <1>3
    <2> HIDE DEF r
    <2>3. courier'[t] = r /\ \A u \in Couriers \ {t} : courier'[u] = courier[u] BY <1>3, <2>1
    <2>4. Posting' \subseteq Posting BY <1>1, <2>2, <2>3 DEF Posting
    <2>5. IsFiniteSet(Posting') /\ Cardinality(Posting') <= Slots BY <2>4, FewerPost
    <2>6. Guarded => addresses[1] \notin Inside
      <3>1. addresses \in Seq(Range(addresses)) BY HandoffAssumption
      <3>2. 1 \in DOMAIN addresses BY <1>4, <3>1
      <3> QED BY <1>4, <3>2 DEF Guarded, EgressAllowed
    <2>7. ASSUME NEW u \in Forwarding' PROVE OnItsWay(u)'
      <3>1. CASE u = t
        <4>1. \A v \in Forwarding' : courier'[v].number = f.number => v = t
          <5>1. \A v \in Forwarding' : v = t \/ (v \in Forwarding /\ courier'[v] = courier[v])
            BY <2>3 DEF Forwarding
          <5> QED BY <1>3, <5>1 DEF OnItsWay
        <4>2. Copies(receiver, f.number) = {} BY <1>1, <1>3 DEF OnItsWay
        <4>3. Guarded => f.to.host \notin Loopback BY <1>1, <2>6
        <4> QED BY <1>2, <1>3, <2>1, <2>2, <2>3, <2>6, <3>1, <4>1, <4>2, <4>3 DEF OnItsWay, Guarded
      <3>2. CASE u # t BY <1>2, <1>3, <2>1, <2>2, <3>2, OthersGoOn
      <3> QED BY <3>1, <3>2
    <2> QED BY <1>2, <1>3, <2>1, <2>5, <2>7, NothingPosted
  <1>5. CASE ~(addresses # <<>> /\ EgressAllowed(addresses))
    <2> DEFINE b == [number |-> f.number, code |-> 400, attempts |-> 0, of |-> f.base]
    <2>1. courier' = [courier EXCEPT ![t] = Spare] /\ answered' = answered \cup {b}
      BY <1>5 DEF Resolve, Answers
    <2>2. b.number = f.number /\ b.code = 400 /\ b.attempts = 0 /\ Spare.at = "spare" BY DEF Spare
    <2> HIDE DEF b
    <2>3. courier'[t] = Spare /\ \A u \in Couriers \ {t} : courier'[u] = courier[u] BY <1>3, <2>1
    <2>4. Posting' \subseteq Posting BY <2>2, <2>3 DEF Posting
    <2>5. IsFiniteSet(Posting') /\ Cardinality(Posting') <= Slots BY <2>4, FewerPost
    <2>6. AnswerIsTrue(receiver', b)
      <3>1. Copies(receiver', b.number) = {} BY <1>1, <1>2, <1>3, <2>2 DEF OnItsWay
      <3> QED BY <2>2, <3>1, FS_EmptySet DEF AnswerIsTrue
    <2>7. ASSUME NEW u \in Forwarding' PROVE OnItsWay(u)'
      <3>1. u # t BY <2>2, <2>3 DEF Forwarding
      <3> QED BY <1>2, <1>3, <2>1, <2>2, <3>1, OthersGoOn
    <2> QED BY <1>2, <1>3, <2>1, <2>2, <2>5, <2>6, <2>7, NothingPosted
  <1> QED BY <1>4, <1>5

(* What the receiver has after an attempt.                                   *)
LEMMA PostAdds ==
  ASSUME ForwardInv, NEW rec, NEW accepted \in BOOLEAN,
         receiver' = IF accepted THEN Append(receiver, rec) ELSE receiver
  PROVE  /\ receiver' \in Seq(Range(receiver'))
         /\ \A i \in DOMAIN receiver : i \in DOMAIN receiver' /\ receiver'[i] = receiver[i]
         /\ \A i \in DOMAIN receiver' : i \in DOMAIN receiver \/ (accepted /\ receiver'[i] = rec)
         /\ \A n : n # rec.number => Copies(receiver', n) = Copies(receiver, n)
         /\ IsFiniteSet(Copies(receiver', rec.number))
         /\ Cardinality(Copies(receiver', rec.number)) <= Cardinality(Copies(receiver, rec.number)) + 1
         /\ accepted => Copies(receiver', rec.number) # {}
  <1> DEFINE n == Len(receiver) + 1
             old == Copies(receiver, rec.number)
  <1>1. /\ Len(receiver) \in Nat /\ DOMAIN receiver = 1..Len(receiver)
        /\ \A k : IsFiniteSet(Copies(receiver, k)) /\ Cardinality(Copies(receiver, k)) \in Nat
    BY ReceiverIs
  <1>2. receiver \in Seq(Range(receiver)) BY DEF ForwardInv
  <1>3. CASE accepted
    <2>1. /\ receiver' \in Seq(Range(receiver')) /\ DOMAIN receiver' = 1..n
          /\ \A i \in DOMAIN receiver : receiver'[i] = receiver[i]
          /\ receiver'[n] = rec
      <3>1. receiver' = Append(receiver, rec) BY <1>3
      <3> DEFINE a == Append(receiver, rec)
      <3>2. /\ a \in Seq(Range(a)) /\ DOMAIN a = 1..(Len(receiver) + 1)
            /\ \A i \in DOMAIN receiver : a[i] = receiver[i]
            /\ a[Len(receiver) + 1] = rec
        BY <1>2, RangeGrows
      <3> HIDE DEF a
      <3>3. receiver' = a BY <3>1 DEF a
      <3> QED BY <3>2, <3>3
    <2>2. \A k : k # rec.number => Copies(receiver', k) = Copies(receiver, k) BY <1>1, <2>1 DEF Copies
    <2>3. Copies(receiver', rec.number) = old \cup {n} /\ n \notin old BY <1>1, <2>1 DEF Copies
    <2>4. IsFiniteSet(old \cup {n}) /\ Cardinality(old \cup {n}) = Cardinality(old) + 1
      BY <1>1, <2>3, FS_AddElement
    <2>5. Cardinality(old) \in Nat BY <1>1
    <2>6. \A i \in DOMAIN receiver : i \in DOMAIN receiver' BY <1>1, <2>1
    <2>7. \A i \in DOMAIN receiver' : i \in DOMAIN receiver \/ receiver'[i] = rec BY <1>1, <2>1
    <2> HIDE DEF n, old
    <2>8. /\ IsFiniteSet(Copies(receiver', rec.number)) /\ Copies(receiver', rec.number) # {}
          /\ Cardinality(Copies(receiver', rec.number)) <= Cardinality(old) + 1
      <3>1. /\ IsFiniteSet(Copies(receiver', rec.number))
            /\ Cardinality(Copies(receiver', rec.number)) = Cardinality(old) + 1
        BY <2>3, <2>4, Zenon
      <3>2. Copies(receiver', rec.number) # {} BY <2>3
      <3> QED BY <2>5, <3>1, <3>2
    <2>9. Cardinality(Copies(receiver', rec.number)) <= Cardinality(Copies(receiver, rec.number)) + 1
      BY <2>8 DEF old
    <2> QED BY <1>3, <2>1, <2>2, <2>6, <2>7, <2>8, <2>9
  <1>4. CASE ~accepted
    <2>1. receiver' = receiver BY <1>4
    <2> HIDE DEF n, old
    <2> QED BY <1>1, <1>2, <1>4, <2>1
  <1> QED BY <1>3, <1>4

LEMMA PostKeeps ==
  ASSUME ForwardInv, PassportInv', NEW t \in Couriers, NEW accepted \in BOOLEAN, NEW acknowledged \in BOOLEAN,
         PostOnce(t, accepted, acknowledged)
  PROVE  ForwardInv'
  <1> DEFINE f == courier[t]
             rec == [number |-> f.number, at |-> f.pinned, payload |-> SiemPayload(f.base)]
  <1>1. /\ f.at = "posting" /\ (acknowledged => accepted)
        /\ receiver' = IF accepted THEN Append(receiver, rec) ELSE receiver
    BY DEF PostOnce
  <1>2. UNCHANGED <<setup, asks, handed, raced>> BY DEF PostOnce
  <1>3. /\ DOMAIN courier = Couriers /\ t \in Forwarding /\ OnItsWay(t) /\ asks \in Nat
        /\ f = [at |-> f.at, async |-> f.async, to |-> f.to, base |-> f.base, number |-> f.number,
                attempt |-> f.attempt, pinned |-> f.pinned]
        /\ f.number \in 1..asks /\ f.attempt \in 1..Attempts
    BY <1>1, ForwardIs
  <1>4. rec.number = f.number /\ rec.at = f.pinned /\ rec.payload = SiemPayload(f.base) OBVIOUS
  <1> HIDE DEF rec
  <1>5. /\ receiver' \in Seq(Range(receiver'))
        /\ \A i \in DOMAIN receiver : i \in DOMAIN receiver' /\ receiver'[i] = receiver[i]
        /\ \A i \in DOMAIN receiver' : i \in DOMAIN receiver \/ (accepted /\ receiver'[i] = rec)
        /\ \A n : n # f.number => Copies(receiver', n) = Copies(receiver, n)
        /\ IsFiniteSet(Copies(receiver', f.number))
        /\ Cardinality(Copies(receiver', f.number)) <= Cardinality(Copies(receiver, f.number)) + 1
        /\ accepted => Copies(receiver', f.number) # {}
    BY <1>1, <1>4, PostAdds
  <1>6. \A i \in Copies(receiver', f.number) : receiver'[i] = rec
    <2> SUFFICES ASSUME NEW i \in Copies(receiver', f.number) PROVE receiver'[i] = rec OBVIOUS
    <2>1. i \in DOMAIN receiver' /\ receiver'[i].number = f.number BY DEF Copies
    <2>2. CASE i \in DOMAIN receiver
      <3>1. i \in Copies(receiver, f.number) /\ receiver'[i] = receiver[i] BY <1>5, <2>1, <2>2 DEF Copies
      <3>2. receiver[i] = rec BY <1>3, <3>1 DEF OnItsWay, rec
      <3> QED BY <3>1, <3>2
    <2> QED BY <1>5, <2>1, <2>2
  <1>7. Cardinality(Copies(receiver', f.number)) \in Nat /\ Cardinality(Copies(receiver, f.number)) \in Nat
    BY <1>5, ReceiverIs, FS_CardinalityType
  <1>8. /\ Cardinality(Copies(receiver', f.number)) <= f.attempt /\ f.attempt \in Nat
        /\ Cardinality(Copies(receiver', f.number)) < f.attempt + 1
    BY <1>3, <1>5, <1>7, AttemptsRange DEF OnItsWay
  <1>9. Guarded => f.pinned \notin Inside /\ f.to.host \notin Loopback /\ setup.rules # {}
    BY <1>1, <1>3 DEF OnItsWay
  <1>10. \A a \in answered : AnswerIsTrue(receiver', a)
    <2> SUFFICES ASSUME NEW a \in answered PROVE AnswerIsTrue(receiver', a) OBVIOUS
    <2>1. a.number # f.number /\ AnswerIsTrue(receiver, a)
      BY <1>3 DEF OnItsWay, ForwardInv, ForwardsToldTrue
    <2>2. Copies(receiver', a.number) = Copies(receiver, a.number) BY <1>5, <2>1
    <2>3. \A i \in Copies(receiver, a.number) : receiver'[i] = receiver[i] BY <1>5 DEF Copies
    <2> QED BY <2>1, <2>2, <2>3 DEF AnswerIsTrue
  <1>11. \A i, j \in DOMAIN receiver' : receiver'[i].number = receiver'[j].number => receiver'[i] = receiver'[j]
    <2> SUFFICES ASSUME NEW i \in DOMAIN receiver', NEW j \in DOMAIN receiver',
                        receiver'[i].number = receiver'[j].number
                 PROVE  receiver'[i] = receiver'[j]
      OBVIOUS
    <2>1. CASE receiver'[i].number = f.number
      <3>1. i \in Copies(receiver', f.number) /\ j \in Copies(receiver', f.number) BY <2>1 DEF Copies
      <3> QED BY <1>6, <3>1
    <2>2. CASE receiver'[i].number # f.number
      <3>1. i \in DOMAIN receiver /\ j \in DOMAIN receiver BY <1>4, <1>5, <2>2
      <3>2. receiver[i].number = receiver[j].number BY <1>5, <3>1
      <3> QED BY <1>5, <3>1, <3>2 DEF ForwardInv, ForwardsToldTrue
    <2> QED BY <2>1, <2>2
  <1>12. \A i \in DOMAIN receiver' : receiver'[i].payload.evidence # Unsealed =>
           \E p \in handed : Sha(p.doc) = receiver'[i].payload.evidence.sha
    <2> SUFFICES ASSUME NEW i \in DOMAIN receiver', receiver'[i].payload.evidence # Unsealed
                 PROVE  \E p \in handed : Sha(p.doc) = receiver'[i].payload.evidence.sha
      OBVIOUS
    <2>1. CASE i \in DOMAIN receiver BY <1>5, <2>1 DEF ForwardInv, ForwardsToldTrue
    <2>2. CASE receiver'[i] = rec
      <3>1. receiver'[i].payload.evidence = f.base.seal BY <1>4, <2>2 DEF SiemPayload
      <3>2. t \in Reading BY <1>1, <1>3 DEF Reading, Forwarding
      <3>3. SealWasHanded(f.base, handed) BY <3>2 DEF ForwardInv, PassportInv, CardsInHand
      <3> QED BY <3>1, <3>3 DEF SealWasHanded
    <2> QED BY <1>5, <2>1, <2>2
  <1>13. Guarded' => /\ \A i \in DOMAIN receiver' : receiver'[i].at \notin Inside
                     /\ (setup.rules = {})' => receiver' = <<>>
    <2> SUFFICES ASSUME Guarded
                 PROVE  (\A i \in DOMAIN receiver' : receiver'[i].at \notin Inside) /\ setup.rules # {}
      BY <1>2 DEF Guarded
    <2>1. \A i \in DOMAIN receiver : receiver[i].at \notin Inside BY DEF ForwardInv, ForwardsToldTrue
    <2> QED BY <1>4, <1>5, <1>9, <2>1
  <1>14. \A i \in DOMAIN receiver' : receiver'[i].number \in 1..asks
    <2>1. \A i \in DOMAIN receiver : receiver[i].number \in 1..asks BY DEF ForwardInv
    <2> QED BY <1>3, <1>4, <1>5, <2>1
  <1>15. SUFFICES /\ IsFiniteSet(Posting') /\ Cardinality(Posting') <= Slots
                  /\ \A a \in answered' : AnswerIsTrue(receiver', a) /\ a.number \in 1..asks
                  /\ \A u \in Forwarding' : OnItsWay(u)'
    <2>1. ForwardsToldTrue' BY <1>11, <1>12, <1>13, <1>15, <1>2 DEF ForwardsToldTrue
    <2> QED BY <1>2, <1>5, <1>14, <1>15, <2>1 DEF ForwardInv
  <1>16. \A a \in answered : a.number \in 1..asks BY DEF ForwardInv
  <1>17. CASE ~acknowledged /\ ~GivesUp(f.attempt)
    <2> DEFINE r == [f EXCEPT !.attempt = f.attempt + 1]
    <2>1. courier' = [courier EXCEPT ![t] = r] /\ answered' = answered BY <1>17 DEF PostOnce
    <2>2. /\ r.at = "posting" /\ r.number = f.number /\ r.attempt = f.attempt + 1 /\ r.to = f.to
          /\ r.base = f.base /\ r.pinned = f.pinned /\ r.async = f.async
      <3>1. f.at = "posting" BY <1>1
      <3> HIDE DEF f
      <3> QED BY <1>3, <3>1
    <2> HIDE DEF r
    <2>3. courier'[t] = r /\ \A u \in Couriers \ {t} : courier'[u] = courier[u] BY <1>3, <2>1
    <2>4. Posting' \subseteq Posting BY <1>1, <2>2, <2>3 DEF Posting
    <2>5. IsFiniteSet(Posting') /\ Cardinality(Posting') <= Slots BY <2>4, FewerPost
    <2>6. ASSUME NEW u \in Forwarding' PROVE OnItsWay(u)'
      <3>1. CASE u = t
        <4>1. \A v \in Forwarding' : courier'[v].number = f.number => v = t
          <5>1. \A v \in Forwarding' : v = t \/ (v \in Forwarding /\ courier'[v] = courier[v])
            BY <2>3 DEF Forwarding
          <5> QED BY <1>3, <5>1 DEF OnItsWay
        <4>2. \A a \in answered' : a.number # f.number BY <1>3, <2>1 DEF OnItsWay
        <4>3. \A i \in Copies(receiver', f.number) :
                receiver'[i] = [number |-> f.number, at |-> f.pinned, payload |-> SiemPayload(f.base)]
          BY <1>6 DEF rec
        <4> HIDE DEF f
        <4> QED BY <1>2, <1>8, <1>9, <2>2, <2>3, <3>1, <4>1, <4>2, <4>3 DEF OnItsWay, Guarded
      <3>2. CASE u # t BY <1>2, <1>3, <1>5, <2>1, <2>2, <3>2, OthersGoOn
      <3> QED BY <3>1, <3>2
    <2> QED BY <1>10, <1>16, <2>1, <2>5, <2>6
  <1>18. CASE acknowledged \/ GivesUp(f.attempt)
    <2> DEFINE b == [number |-> f.number, code |-> IF acknowledged THEN 200 ELSE 502,
                     attempts |-> f.attempt, of |-> f.base]
    <2>1. courier' = [courier EXCEPT ![t] = Spare] /\ answered' = answered \cup {b}
      BY <1>18 DEF PostOnce, Answers
    <2>2. /\ b.number = f.number /\ b.attempts = f.attempt /\ b.of = f.base /\ Spare.at = "spare"
          /\ b.code = (IF acknowledged THEN 200 ELSE 502)
      BY DEF Spare
    <2> HIDE DEF b
    <2>3. courier'[t] = Spare /\ \A u \in Couriers \ {t} : courier'[u] = courier[u] BY <1>3, <2>1
    <2>4. Posting' \subseteq Posting BY <2>2, <2>3 DEF Posting
    <2>5. IsFiniteSet(Posting') /\ Cardinality(Posting') <= Slots BY <2>4, FewerPost
    <2>6. AnswerIsTrue(receiver', b)
      <3>1. \A i \in Copies(receiver', b.number) : receiver'[i].payload = SiemPayload(b.of)
        BY <1>4, <1>6, <2>2
      <3>2. ~acknowledged => f.attempt = Attempts BY <1>3, <1>18, AttemptsRange DEF GivesUp
      <3>3. b.code = 200 => Copies(receiver', b.number) # {} BY <1>1, <1>5, <2>2
      <3>4. b.code # 400 /\ (b.code = 502 => b.attempts = Attempts) BY <2>2, <3>2
      <3>5. Cardinality(Copies(receiver', b.number)) <= b.attempts BY <1>8, <2>2
      <3> QED BY <3>1, <3>3, <3>4, <3>5 DEF AnswerIsTrue
    <2>7. ASSUME NEW u \in Forwarding' PROVE OnItsWay(u)'
      <3>1. u # t BY <2>2, <2>3 DEF Forwarding
      <3>2. \A a \in answered' : a \in answered \/ a.number = f.number BY <2>1, <2>2
      <3>3. Spare.at \in {"waiting", "resolving", "posting"} => Spare.number = f.number BY <2>2
      <3>4. /\ \A n : n # f.number => Copies(receiver', n) = Copies(receiver, n)
            /\ \A i \in DOMAIN receiver : receiver'[i] = receiver[i]
        BY <1>5
      <3>5. courier' = [courier EXCEPT ![t] = Spare] /\ setup' = setup /\ t \in Forwarding
        BY <1>2, <1>3, <2>1
      <3> QED BY <3>1, <3>2, <3>3, <3>4, <3>5, OthersGoOn
    <2> QED BY <1>3, <1>10, <1>16, <2>1, <2>2, <2>5, <2>6, <2>7
  <1> QED BY <1>17, <1>18

LEMMA ForwardStarts == HandoffInit => ForwardInv
  <1> SUFFICES ASSUME HandoffInit PROVE ForwardInv OBVIOUS
  <1>1. PassportInv BY PassportStarts
  <1>2. \A t \in Couriers : courier[t].at = "spare" BY DEF HandoffInit, Spare
  <1>3. Forwarding = {} /\ Posting = {} BY <1>2 DEF Forwarding, Posting
  <1>4. receiver = <<>> /\ answered = {} /\ DOMAIN receiver = {} BY DEF HandoffInit
  <1>5. IsFiniteSet(Posting) /\ Cardinality(Posting) <= Slots BY <1>3, FS_EmptySet, HandoffAssumption
  <1>6. ForwardsToldTrue BY <1>4, <1>5 DEF ForwardsToldTrue
  <1>7. receiver \in Seq(Range(receiver)) BY <1>4
  <1> QED BY <1>1, <1>3, <1>4, <1>5, <1>6, <1>7 DEF ForwardInv

LEMMA ForwardSteps == ForwardInv /\ [HandoffNext]_handoffVars => ForwardInv'
  <1> SUFFICES ASSUME ForwardInv, [HandoffNext]_handoffVars PROVE ForwardInv'
    OBVIOUS
  <1>1. PassportInv' BY PassportSteps DEF ForwardInv
  <1>2. DOMAIN courier = Couriers /\ asks \in Nat
    BY HandoffAssumption DEF ForwardInv, PassportInv, HandoffTypeOK
  <1>3. CASE UNCHANGED handoffVars BY <1>1, <1>2, <1>3, ForwardsStand DEF handoffVars
  <1>4. CASE TimePasses BY <1>1, <1>2, <1>4, ForwardsStand DEF TimePasses
  <1>5. CASE Fall BY <1>1, <1>5, FallKeeps
  <1>6. ASSUME NEW t \in Couriers, NEW task \in Tasks, TakeUp(t, task) PROVE ForwardInv'
    <2>1. UNCHANGED <<setup, receiver, answered, handed>> /\ asks <= asks' BY <1>2, <1>6 DEF TakeUp, Asked
    <2>2. \A u \in Couriers : u \in Forwarding \/ u \in Forwarding' => courier'[u] = courier[u]
      BY <1>2, <1>6 DEF TakeUp, Forwarding
    <2> QED BY <1>1, <2>1, <2>2, ForwardsStand
  <1>7. ASSUME NEW t \in Couriers, HandIn(t) PROVE ForwardInv'
    <2>1. UNCHANGED <<setup, receiver, answered, handed>> /\ asks <= asks' BY <1>2, <1>7 DEF HandIn
    <2>2. \A u \in Couriers : u \in Forwarding \/ u \in Forwarding' => courier'[u] = courier[u]
      BY <1>2, <1>7 DEF HandIn, Keeps, Forwarding, Spare
    <2> QED BY <1>1, <2>1, <2>2, ForwardsStand
  <1>8. ASSUME NEW t \in Couriers, DrawPassport(t) PROVE ForwardInv'
    <2>1. UNCHANGED <<setup, receiver, answered, handed>> /\ asks <= asks'
      BY <1>2, <1>8 DEF DrawPassport, Asked
    <2>2. \A u \in Couriers : u \in Forwarding \/ u \in Forwarding' => courier'[u] = courier[u]
      BY <1>2, <1>8 DEF DrawPassport, Forwarding
    <2> QED BY <1>1, <2>1, <2>2, ForwardsStand
  <1>9. ASSUME NEW t \in Couriers, HandOut(t) PROVE ForwardInv'
    <2>1. UNCHANGED <<setup, receiver, answered>> /\ handed \subseteq handed' /\ asks <= asks'
      BY <1>2, <1>9 DEF HandOut
    <2>2. \A u \in Couriers : u \in Forwarding \/ u \in Forwarding' => courier'[u] = courier[u]
      BY <1>2, <1>9 DEF HandOut, Keeps, Forwarding, Spare
    <2> QED BY <1>1, <2>1, <2>2, ForwardsStand
  <1>10. ASSUME NEW t \in Couriers, NEW d \in Destinations, NEW async \in BOOLEAN, BeginForward(t, d, async)
         PROVE  ForwardInv'
    BY <1>1, <1>10, BeginKeeps
  <1>11. ASSUME NEW t \in Couriers, EnterSlot(t) PROVE ForwardInv' BY <1>1, <1>11, SlotKeeps
  <1>12. ASSUME NEW t \in Couriers, NEW addresses \in Resolutions, Resolve(t, addresses) PROVE ForwardInv'
    BY <1>1, <1>12, ResolveKeeps
  <1>13. ASSUME NEW t \in Couriers, NEW accepted \in BOOLEAN, NEW acknowledged \in BOOLEAN,
                PostOnce(t, accepted, acknowledged)
         PROVE  ForwardInv'
    BY <1>1, <1>13, PostKeeps
  <1> QED
    BY <1>3, <1>4, <1>5, <1>6, <1>7, <1>8, <1>9, <1>10, <1>11, <1>12, <1>13 DEF HandoffNext

(* The inductive invariant of the forwards: what the receiver has and what   *)
(* the answers say, of every forward under way and of every one that ended.  *)
THEOREM ForwardInductive == HandoffSpec => []ForwardInv
  BY ForwardStarts, ForwardSteps, PTL DEF HandoffSpec

(* A forward that is answered has happened as the answer says.               *)
THEOREM ForwardsAreToldTrue == HandoffSpec => []ForwardsToldTrue
  <1>1. ForwardInv => ForwardsToldTrue BY DEF ForwardInv
  <1> QED BY <1>1, ForwardInductive, PTL

(* ---- the parts together -------------------------------------------------- *)
(* Each step of the whole is one of every part, or leaves the part alone.    *)
LEMMA DeskIsPart == ApiSpec => DeskSpec
  <1>1. ApiInit => DeskInit BY DEF ApiInit
  <1>2. [ApiNext]_apiVars => [DeskNext]_deskVars BY DEF ApiNext, apiVars
  <1> QED BY <1>1, <1>2, PTL DEF ApiSpec, DeskSpec

LEMMA EngagementIsPart == ApiSpec => EngagementSpec
  <1>1. ApiInit => EngagementInit BY DEF ApiInit
  <1>2. [ApiNext]_apiVars => [EngagementNext]_engagementVars BY DEF ApiNext, apiVars
  <1> QED BY <1>1, <1>2, PTL DEF ApiSpec, EngagementSpec

LEMMA FrontIsPart == ApiSpec => FrontSpec
  <1>1. ApiInit => FrontInit BY DEF ApiInit
  <1>2. [ApiNext]_apiVars => [FrontNext]_frontVars BY DEF ApiNext, apiVars
  <1> QED BY <1>1, <1>2, PTL DEF ApiSpec, FrontSpec

LEMMA StreamIsPart == ApiSpec => StreamSpec
  <1>1. ApiInit => StreamInit BY DEF ApiInit
  <1>2. [ApiNext]_apiVars => [StreamNext]_streamVars BY DEF ApiNext, apiVars
  <1> QED BY <1>1, <1>2, PTL DEF ApiSpec, StreamSpec

LEMMA LimitIsPart == ApiSpec => LimitSpec
  <1>1. ApiInit => LimitInit BY DEF ApiInit
  <1>2. [ApiNext]_apiVars => [LimitNext]_limitVars BY DEF ApiNext, apiVars
  <1> QED BY <1>1, <1>2, PTL DEF ApiSpec, LimitSpec

LEMMA SettingsIsPart == ApiSpec => SettingsSpec
  <1>1. ApiInit => SettingsInit BY DEF ApiInit
  <1>2. [ApiNext]_apiVars => [SettingsNext]_settingsVars BY DEF ApiNext, apiVars
  <1> QED BY <1>1, <1>2, PTL DEF ApiSpec, SettingsSpec

LEMMA QueueIsPart == ApiSpec => QueueSpec
  <1>1. ApiInit => QueueInit BY DEF ApiInit
  <1>2. [ApiNext]_apiVars => [QueueNext]_queueVars BY DEF ApiNext, apiVars
  <1> QED BY <1>1, <1>2, PTL DEF ApiSpec, QueueSpec

LEMMA IncidentIsPart == ApiSpec => IncidentSpec
  <1>1. ApiInit => IncidentInit BY DEF ApiInit
  <1>2. [ApiNext]_apiVars => [IncidentNext]_incidentVars BY DEF ApiNext, apiVars
  <1> QED BY <1>1, <1>2, PTL DEF ApiSpec, IncidentSpec

LEMMA HandoffIsPart == ApiSpec => HandoffSpec
  <1>1. ApiInit => HandoffInit BY DEF ApiInit
  <1>2. [ApiNext]_apiVars => [HandoffNext]_handoffVars BY DEF ApiNext, apiVars
  <1> QED BY <1>1, <1>2, PTL DEF ApiSpec, HandoffSpec

LEMMA LoadIsPart == ApiSpec => LoadSpec
  <1>1. ApiInit => LoadInit BY DEF ApiInit
  <1>2. [ApiNext]_apiVars => [LoadNext]_loadVars BY DEF ApiNext, apiVars
  <1> QED BY <1>1, <1>2, PTL DEF ApiSpec, LoadSpec

(* The hits that wait for an assembly and the requests of an address are     *)
(* counted as they happened (CountersAddUp), whichever part steps.           *)
THEOREM ApiCounts == ApiSpec => []CountersAddUp
  <1>1. FewHitsWait /\ LimitHolds => CountersAddUp BY DEF CountersAddUp, InPart
  <1> QED BY <1>1, FrontIsPart, LimitIsPart, FewHitsAreLeft, LimitIsTheLimit, PTL

(* The records of the API tell stories that can have happened, and account   *)
(* for what they hold (EveryRecordTellsItsStory).                            *)
THEOREM ApiTellsTheStory == ApiSpec => []EveryRecordTellsItsStory
  <1>1. /\ CardTellsItsStory /\ EngagementTellsItsStory /\ IncidentHoldsTogether /\ PassportsAccounted
        => EveryRecordTellsItsStory
    BY DEF EveryRecordTellsItsStory, InPart
  <1> QED BY <1>1, DeskIsPart, EngagementIsPart, IncidentIsPart, HandoffIsPart, CardsTellTheirStory,
             EngagementsTellTheirStory, IncidentsAccount, PassportsAreAccounted, PTL

(* What the API has found, dumped, forwarded or loaded is not lost           *)
(* (NothingGetsLost).                                                        *)
THEOREM ApiLosesNothing == ApiSpec => []NothingGetsLost
  <1>1. /\ CoreMissesNothing /\ ExportMissesNothing /\ ForwardsToldTrue /\ LoadAccounts
        => NothingGetsLost
    BY DEF NothingGetsLost, InPart
  <1> QED BY <1>1, IncidentIsPart, QueueIsPart, HandoffIsPart, LoadIsPart, CoreIsComplete,
             ExportIsComplete, ForwardsAreToldTrue, LoadIsAccounted, PTL

(* However often a file is loaded, its events are in the store once, and     *)
(* those that their source tells apart are two (LoadedOnce).                 *)
THEOREM ApiLoadsOnce == ApiSpec => []LoadedOnce
  <1>1. LoadingTwiceIsOnce /\ SourcesStayApart => LoadedOnce BY DEF LoadedOnce, InPart
  <1> QED BY <1>1, LoadIsPart, LoadsOnce, PTL

(* A bundle that a request builds can be accounted for, whoever signs it, and *)
(* presents the edition that the product shows (BundleVerifies).             *)
LEMMA ReadyBundlesVerify == DeskInv => BundleVerifies
  <1> SUFFICES ASSUME DeskInv, NEW t \in Threads, flight[t].at = "ready", flight[t].cmd.kind = "bundle"
               PROVE  LET base    == flight[t].base
                          summary == InvestigationSummaryPayload(base)
                          files   == EvidenceFiles(FactsData[k1], base, <<7>>,
                                                   Reports(FactsData, cards, k1), <<>>)
                      IN /\ Accountable(BuildCaseBundle(files, Unsigned), Unsigned)
                         /\ \A signer \in Signers : SignatureBinds(signer, Sha(<<"root">>))
                         /\ summary.presented = IF base.editions = <<>> THEN 0
                                                ELSE base.editions[Current(base)].version
                         /\ summary.state = "approved" => base.editions[Current(base)].approved
    BY DEF BundleVerifies
  <1> DEFINE base == flight[t].base
             facts == FactsData[k1]
             reports == Reports(FactsData, cards, k1)
             files == EvidenceFiles(facts, base, <<7>>, reports, <<>>)
             archive == BuildCaseBundle(files, Unsigned)
  <1>1. CardIsTold(base)
    <2>1. flight[t] # Free BY DEF Free
    <2> QED BY <2>1 DEF DeskInv, FlightsTold, FlightIsTold
  <1>2. Accountable(archive, Unsigned)
    <2> DEFINE raw == <<7>>
    <2>1. PICK n \in Nat : n = 1 OBVIOUS
    <2>2. raw \in [1..n -> {7}] /\ n # 0 /\ \A i, j \in 1..n : raw[i] = raw[j] => i = j
      BY <2>1
    <2>3. archive.status = "unsigned_mvp"
      <3>1. \E root : archive.status = BuildSignature(Unsigned, root).status
        <4> HIDE DEF files
        <4> QED BY Zenon DEF BuildCaseBundle
      <3>2. ASSUME NEW root PROVE BuildSignature(Unsigned, root).status = "unsigned_mvp"
        BY DEF BuildSignature, Unsigned
      <3> HIDE DEF archive
      <3> QED BY <3>1, <3>2
    <2>4. SignatureHolds(Unsigned, archive.status, archive.root, archive.signature)
      <3> HIDE DEF archive
      <3> QED BY <2>3 DEF SignatureHolds
    <2>5. archive = BuildCaseBundle(EvidenceFiles(facts, base, raw, reports, <<>>), Unsigned) OBVIOUS
    <2>6. n + 12 <= VerifyMaxFiles BY <2>1, ForensicBundleAssumption
    <2> HIDE DEF archive, raw, facts, base, reports, files
    <2> QED BY <2>2, <2>3, <2>4, <2>5, <2>6, BundleIsAccountable
  <1>3. ASSUME NEW signer \in Signers PROVE SignatureBinds(signer, Sha(<<"root">>))
    <2> DEFINE root == Sha(<<"root">>)
    <2>1. root # Sha(<<root, root>>)
      <3>1. Len(<<"root">>) # Len(<<root, root>>) OBVIOUS
      <3>2. <<"root">> # <<root, root>> BY <3>1
      <3> QED BY <3>2, ShaTells
    <2> HIDE DEF root
    <2>2. SignatureBinds(signer, root) BY <2>1, SignatureStands DEF Signers
    <2> QED BY <2>2 DEF root
  <1>4. PICK n \in Nat : DOMAIN base.editions = 1..n /\ Len(base.editions) = n
    <2>1. IsList(base.editions) BY <1>1, CardFields DEF CardIsTold, IsCard
    <2> QED BY <2>1, ListFacts
  <1>5. LET summary == InvestigationSummaryPayload(base)
        IN /\ n = 0 => summary.presented = 0
           /\ n # 0 => summary.presented = base.editions[Current(base)].version
           /\ summary.state = "approved" => base.editions[Current(base)].approved
    <2> HIDE DEF base
    <2> QED BY <1>4, SummaryIsCurrent
  <1>6. base.editions = <<>> <=> n = 0
    <2>1. IsList(base.editions) BY <1>1, CardFields DEF CardIsTold, IsCard
    <2> HIDE DEF base
    <2> QED BY <2>1, <1>4, ListFacts
  <1> HIDE DEF base, facts, reports, archive
  <1> QED BY <1>2, <1>3, <1>5, <1>6, Zenon DEF base, facts, reports, archive

(* So does every bundle of every behaviour (BundleVerifies).                 *)
THEOREM ApiBundlesVerify == ApiSpec => []BundleVerifies
  BY DeskIsPart, DeskInductive, ReadyBundlesVerify, PTL

(* An assessment stands, whatever the order of delivery was                  *)
(* (AssessmentStands).                                                       *)
THEOREM ApiAssessmentsStand == ApiSpec => []AssessmentStands
  <1>1. DeliveryDoesNotMatter => AssessmentStands BY DEF AssessmentStands, InPart
  <1> QED BY <1>1, StreamIsPart, DeliveryIsForgotten, PTL

(* Every part keeps its variables in their ranges, and the inductive         *)
(* invariant that the theorems about it rest on (ApiTypeOK).                 *)
THEOREM ApiTyped == ApiSpec => []ApiTypeOK
  <1> DEFINE DeskPart   == DeskInv /\ DeskTypeOK
             AuditPart  == EngagementInv /\ EngagementTypeOK
             FrontPart  == KeysInv /\ HitsInv /\ RangesInv
             OtherParts == /\ StreamInv /\ StreamTypeOK /\ LimitInv /\ SettingsInv /\ SettingsTypeOK
                           /\ QueueInv /\ IncidentInv /\ ForwardInv /\ LoadInv /\ LoadTypeOK
  <1>1. EngagementInv => \E i \in 1..(Len(Stages) + 1) : engagement \in RowsAt(i)
    BY DEF EngagementInv, Rows
  <1>2. LoadInv => LoaderStands BY DEF LoadInv
  <1>3. DeskPart /\ AuditPart /\ FrontPart /\ OtherParts => ApiTypeOK
    BY <1>1, <1>2 DEF ApiTypeOK, InPart
  <1>4. ApiSpec => []DeskPart BY DeskIsPart, DeskInductive, DeskTyped, PTL
  <1>5. ApiSpec => []AuditPart BY EngagementIsPart, EngagementInductive, EngagementTyped, PTL
  <1>6. ApiSpec => []FrontPart BY FrontIsPart, KeysInductive, HitsAreCounted, FrontTyped, PTL
  <1>7. ApiSpec => []OtherParts
    <2>1. ApiSpec => [](StreamInv /\ StreamTypeOK) BY StreamIsPart, StreamInductive, StreamTyped, PTL
    <2>2. ApiSpec => [](LimitInv) BY LimitIsPart, LimitInductive, PTL
    <2>3. ApiSpec => [](SettingsInv /\ SettingsTypeOK)
      BY SettingsIsPart, SettingsInductive, SettingsTyped, PTL
    <2>4. ApiSpec => []QueueInv BY QueueIsPart, QueueInductive, PTL
    <2>5. ApiSpec => []IncidentInv BY IncidentIsPart, IncidentInductive, PTL
    <2>6. ApiSpec => []ForwardInv BY HandoffIsPart, ForwardInductive, PTL
    <2>7. ApiSpec => [](LoadInv /\ LoadTypeOK) BY LoadIsPart, LoadInductive, LoadTyped, PTL
    <2> QED BY <2>1, <2>2, <2>3, <2>4, <2>5, <2>6, <2>7, PTL
  <1> QED BY <1>3, <1>4, <1>5, <1>6, <1>7, PTL
=============================================================================
