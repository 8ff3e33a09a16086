--------------------------- MODULE ApiPartsProofs ---------------------------
(* Theorems about the parts of the API that take work in: the way of a       *)
(* request with events (IngestFront), the settings of the risk (Settings),   *)
(* the engagements of the audit (AuditEngagements), the work of the analysts *)
(* on the cards (CaseWork) and the loader of a dataset (DatasetLoad).  Each  *)
(* part has an inductive invariant of its own, in its module; the types of   *)
(* the first four stand after their proofs.                                  *)
EXTENDS IngestFront, Settings, AuditEngagements, CaseWork, MCDatasetLoad, Counting, SequenceTheorems

(* ---- a key and its answer ------------------------------------------------ *)
LEMMA Constants ==
  /\ NoKey \notin IdemKeys /\ Loop \notin PoolThreads /\ Loop \in Lanes
  /\ Ttl \in Nat /\ MaxClock \in Nat /\ HitsBetween \in Int /\ IsFiniteSet(Lanes)
  <1>1. IsFiniteSet(PoolThreads) BY IngestFrontAssumption
  <1>2. IsFiniteSet({Loop} \cup PoolThreads) BY <1>1, FS_Singleton, FS_Union
  <1> QED BY <1>2, IngestFrontAssumption DEF Lanes

LEMMA RowIsAnswer ==
  /\ \A row \in Answer : row # NoRow
  /\ \A f \in Flight : f # Idle /\ f.at # "idle"
  /\ Idle.at = "idle" /\ NoRow \notin Answer
  <1>1. ASSUME NEW row \in Answer PROVE row # NoRow
    <2>1. DOMAIN row = {"body", "of", "until"} BY DEF Answer
    <2>2. DOMAIN NoRow = {"body"} BY DEF NoRow
    <2>3. "of" \in {"body", "of", "until"} /\ "of" \notin {"body"} OBVIOUS
    <2> QED BY <2>1, <2>2, <2>3
  <1>2. \A f \in Flight : f.at # "idle" BY DEF Flight
  <1>3. Idle.at = "idle" BY DEF Idle
  <1> QED BY <1>1, <1>2, <1>3

LEMMA KeysInit == FrontInit => KeysInv
  <1> SUFFICES ASSUME FrontInit PROVE KeysInv
    OBVIOUS
  <1>1. FlightsFit BY DEF FrontInit, FlightsFit
  <1>2. LoopIsSerial BY Constants DEF FrontInit, LoopIsSerial, Lanes
  <1>3. AnswersTell /\ OncePerKey
    BY DEF FrontInit, AnswersTell, OncePerKey
  <1> QED BY <1>1, <1>2, <1>3 DEF KeysInv

(* Lanes that go on with the request they have, or stop.                     *)
LEMMA LanesMove ==
  ASSUME KeysInv, lane' \in [Lanes -> Flight \cup {Idle}],
         UNCHANGED <<clock, answers, runs, answer>>,
         \A l \in Lanes : lane'[l] = Idle \/ (lane[l] # Idle /\ lane'[l].run = lane[l].run)
  PROVE  KeysInv'
  <1>1. FlightsFit' BY DEF KeysInv, FlightsFit
  <1>2. LoopIsSerial' BY Constants DEF KeysInv, LoopIsSerial, Lanes
  <1>3. AnswersTell' /\ OncePerKey' BY DEF KeysInv, AnswersTell, OncePerKey, NoRow
  <1> QED BY <1>1, <1>2, <1>3 DEF KeysInv

(* One lane goes on to another point of its request.                         *)
LEMMA LaneGoes ==
  ASSUME KeysInv, NEW l \in Lanes, lane[l].at # "idle", NEW f \in Flight, f.run = lane[l].run,
         lane' = [lane EXCEPT ![l] = f], UNCHANGED <<clock, answers, runs, answer>>
  PROVE  KeysInv'
  <1>1. lane \in [Lanes -> Flight \cup {Idle}] /\ lane[l] # Idle
    BY RowIsAnswer DEF KeysInv, FlightsFit
  <1>2. lane' \in [Lanes -> Flight \cup {Idle}] BY <1>1
  <1>3. \A m \in Lanes : lane'[m] = Idle \/ (lane[m] # Idle /\ lane'[m].run = lane[m].run)
    BY <1>1
  <1> QED BY <1>2, <1>3, LanesMove

LEMMA FlightAt ==
  ASSUME KeysInv, NEW l \in Lanes, lane[l].at # "idle"
  PROVE  /\ lane[l] \in Flight /\ lane[l].run \in 1..Len(runs) /\ runs[lane[l].run] \in Request
         /\ \A s \in {"assess", "store", "after", "answer"}, i \in Nat :
              /\ [lane[l] EXCEPT !.at = s] \in Flight
              /\ [lane[l] EXCEPT !.at = s].run = lane[l].run
              /\ [lane[l] EXCEPT !.i = i, !.at = s] \in Flight
              /\ [lane[l] EXCEPT !.i = i, !.at = s].run = lane[l].run
  <1>1. lane[l] \in Flight BY RowIsAnswer DEF KeysInv, FlightsFit
  <1>2. lane[l].run \in 1..Len(runs) /\ runs[lane[l].run] \in Request
    BY <1>1, RowIsAnswer DEF KeysInv, FlightsFit
  <1> QED BY <1>1, <1>2 DEF Flight

LEMMA AppendedRun ==
  ASSUME runs \in Seq(Request), NEW r \in Request, runs' = Append(runs, r)
  PROVE  /\ runs' \in Seq(Request) /\ Len(runs) \in Nat
         /\ DOMAIN runs = 1..Len(runs) /\ DOMAIN runs' = 1..(Len(runs) + 1)
         /\ \A i \in 1..Len(runs) : runs'[i] = runs[i]
         /\ runs'[Len(runs) + 1] = r
  OBVIOUS

(* Expired rows go, and nothing else.                                        *)
LEMMA OnlyExpired ==
  ASSUME KeysInv, answers' \in {answers, Unexpired}, UNCHANGED clock
  PROVE  /\ answers' \in [IdemKeys -> Answer \cup {NoRow}]
         /\ \A k \in IdemKeys : answers'[k] # NoRow => answers'[k] = answers[k]
         /\ \A i \in DOMAIN runs : runs[i].key # NoKey /\ runs[i].recorded >= 0 =>
              \/ clock > runs[i].recorded + Ttl
              \/ /\ answers'[runs[i].key] # NoRow
                 /\ answers'[runs[i].key].until >= runs[i].recorded + Ttl
  <1>1. answers \in [IdemKeys -> Answer \cup {NoRow}] BY DEF KeysInv, AnswersTell
  <1>2. \A k \in IdemKeys : answers'[k] = answers[k] \/ (answers'[k] = NoRow /\ ~Valid(k))
    BY DEF Unexpired
  <1>3. answers' \in [IdemKeys -> Answer \cup {NoRow}]
    <2>1. CASE answers' = answers BY <1>1, <2>1
    <2>2. CASE answers' = Unexpired BY <1>1, <2>2 DEF Unexpired
    <2> QED BY <2>1, <2>2
  <1>4. ASSUME NEW i \in DOMAIN runs, runs[i].key # NoKey, runs[i].recorded >= 0
        PROVE  \/ clock > runs[i].recorded + Ttl
               \/ /\ answers'[runs[i].key] # NoRow
                  /\ answers'[runs[i].key].until >= runs[i].recorded + Ttl
    <2> DEFINE k == runs[i].key
    <2>1. runs[i] \in Request BY DEF KeysInv, FlightsFit
    <2>2. k \in IdemKeys /\ runs[i].recorded \in Int BY <1>4, <2>1 DEF Request
    <2>3. \/ clock > runs[i].recorded + Ttl
          \/ answers[k] # NoRow /\ answers[k].until >= runs[i].recorded + Ttl
      BY <1>4 DEF KeysInv, AnswersTell
    <2>4. CASE answers[k] # NoRow /\ answers[k].until >= runs[i].recorded + Ttl
      <3>1. answers[k].until \in Int BY <1>1, <2>2, <2>4 DEF Answer
      <3>2. clock \in Int /\ Ttl \in Int BY Constants DEF KeysInv, FlightsFit
      <3>3. ~Valid(k) => clock > runs[i].recorded + Ttl
        BY <2>2, <2>4, <3>1, <3>2 DEF Valid
      <3> QED BY <1>2, <2>2, <2>4, <3>3
    <2> QED BY <2>3, <2>4
  <1> QED BY <1>2, <1>3, <1>4

LEMMA TakeKeeps ==
  ASSUME KeysInv, NEW l \in Lanes, NEW key \in IdemKeys \cup {NoKey}, NEW body \in Bodies,
         Take(l, key, body)
  PROVE  KeysInv'
  <1>1. /\ lane[l] = Idle /\ (l # Loop => key = NoKey)
        /\ answers' \in {answers, Unexpired} /\ clock' = clock
    BY DEF Take
  <1>2. /\ answers' \in [IdemKeys -> Answer \cup {NoRow}]
        /\ \A k \in IdemKeys : answers'[k] # NoRow => answers'[k] = answers[k]
        /\ \A i \in DOMAIN runs : runs[i].key # NoKey /\ runs[i].recorded >= 0 =>
             \/ clock > runs[i].recorded + Ttl
             \/ /\ answers'[runs[i].key] # NoRow
                /\ answers'[runs[i].key].until >= runs[i].recorded + Ttl
    BY <1>1, OnlyExpired
  <1>3. CASE key # NoKey /\ Valid(key)
    <2>1. /\ UNCHANGED <<lane, runs>>
          /\ answer' = answer \/ answer' = [key |-> key, body |-> body, of |-> answers[key].of]
          /\ answer' # answer => answers[key].body = body
      BY <1>3 DEF Take
    <2>2. FlightsFit' /\ LoopIsSerial' BY <1>1, <2>1 DEF KeysInv, FlightsFit, LoopIsSerial
    <2>3. /\ answers[key].of \in DOMAIN runs /\ runs[answers[key].of].recorded >= 0
          /\ runs[answers[key].of].key = key /\ runs[answers[key].of].body = answers[key].body
      BY <1>3 DEF KeysInv, AnswersTell, Valid
    <2>4. answer'.key # NoKey => /\ answer'.of \in DOMAIN runs
                                 /\ runs[answer'.of].key = answer'.key
                                 /\ runs[answer'.of].body = answer'.body
                                 /\ runs[answer'.of].recorded >= 0
      BY <2>1, <2>3 DEF KeysInv, AnswersTell, OncePerKey
    <2>5. AnswersTell' BY <1>1, <1>2, <2>1, <2>4 DEF KeysInv, AnswersTell
    <2>6. OncePerKey' BY <2>1, <2>4 DEF KeysInv, OncePerKey
    <2> QED BY <2>2, <2>5, <2>6 DEF KeysInv
  <1>4. CASE ~(key # NoKey /\ Valid(key))
    <2> DEFINE n == Len(runs) + 1
               new == [key |-> key, body |-> body, from |-> clock, recorded |-> -1]
    <2>1. /\ runs' = Append(runs, new) /\ answer' = answer
          /\ lane' = [lane EXCEPT ![l] = [at |-> "assess", run |-> n, i |-> 1]]
      BY <1>4 DEF Take
    <2>2. new \in Request /\ runs \in Seq(Request) BY DEF KeysInv, FlightsFit, Request
    <2>3. /\ runs' \in Seq(Request) /\ Len(runs) \in Nat
          /\ DOMAIN runs = 1..Len(runs) /\ DOMAIN runs' = 1..n
          /\ \A i \in 1..Len(runs) : runs'[i] = runs[i]
          /\ runs'[n] = new
      <3> HIDE DEF new
      <3> QED BY <2>1, <2>2, AppendedRun
    <2>4. runs'[n].key = key /\ runs'[n].from = clock /\ runs'[n].recorded = -1 BY <2>3
    <2> HIDE DEF new
    <2>5. [at |-> "assess", run |-> n, i |-> 1] \in Flight BY <2>3 DEF Flight
    <2>6. /\ lane' \in [Lanes -> Flight \cup {Idle}] /\ lane'[l].run = n /\ lane'[l] # Idle
          /\ \A m \in Lanes : m # l => lane'[m] = lane[m]
      BY <2>1, <2>5, RowIsAnswer DEF KeysInv, FlightsFit
    <2>7. FlightsFit'
      <3>1. \A m \in Lanes : lane'[m] # Idle => lane'[m].run \in DOMAIN runs'
        BY <2>3, <2>6 DEF KeysInv, FlightsFit
      <3> QED BY <1>1, <2>3, <2>6, <3>1 DEF KeysInv, FlightsFit
    <2>8. LoopIsSerial'
      <3>1. ASSUME NEW m \in PoolThreads, lane'[m] # Idle PROVE runs'[lane'[m].run].key = NoKey
        <4>1. m \in Lanes /\ m # Loop BY Constants DEF Lanes
        <4>2. CASE m = l BY <1>1, <2>4, <2>6, <4>1, <4>2
        <4>3. CASE m # l
          <5>1. lane[m] # Idle /\ lane[m].run \in 1..Len(runs) /\ lane'[m] = lane[m]
            BY <2>3, <2>6, <3>1, <4>1, <4>3 DEF KeysInv, FlightsFit
          <5> QED BY <2>3, <5>1 DEF KeysInv, LoopIsSerial
        <4> QED BY <4>2, <4>3
      <3>2. ASSUME lane'[Loop] # Idle, NEW j \in DOMAIN runs', j > lane'[Loop].run
            PROVE  runs'[j].key = NoKey
        <4>1. CASE l = Loop BY <2>3, <2>6, <3>2, <4>1
        <4>2. CASE l # Loop
          <5>1. lane'[Loop] = lane[Loop] BY <2>6, <4>2, Constants
          <5>2. CASE j = n BY <1>1, <2>4, <4>2, <5>2
          <5>3. CASE j \in 1..Len(runs)
            BY <2>3, <3>2, <5>1, <5>3 DEF KeysInv, LoopIsSerial
          <5> QED BY <2>3, <5>2, <5>3
        <4> QED BY <4>1, <4>2
      <3> QED BY <3>1, <3>2 DEF LoopIsSerial
    <2>9. AnswersTell'
      <3>1. \A k \in IdemKeys : answers'[k] # NoRow =>
              /\ answers'[k].of \in DOMAIN runs' /\ runs'[answers'[k].of].recorded >= 0
              /\ runs'[answers'[k].of].key = k /\ runs'[answers'[k].of].body = answers'[k].body
        BY <1>2, <2>3 DEF KeysInv, AnswersTell
      <3>2. ASSUME NEW i \in DOMAIN runs', runs'[i].key # NoKey, runs'[i].recorded >= 0
            PROVE  /\ runs'[i].recorded <= clock
                   /\ \/ clock > runs'[i].recorded + Ttl
                      \/ /\ answers'[runs'[i].key] # NoRow
                         /\ answers'[runs'[i].key].until >= runs'[i].recorded + Ttl
        <4>1. i \in 1..Len(runs) BY <2>3, <2>4, <3>2
        <4> QED BY <1>2, <2>3, <3>2, <4>1 DEF KeysInv, AnswersTell
      <3>3. answer'.key # NoKey => answer'.of \in DOMAIN runs'
        BY <2>1, <2>3 DEF KeysInv, AnswersTell
      <3> QED BY <1>1, <1>2, <3>1, <3>2, <3>3 DEF AnswersTell
    <2>10. OncePerKey'
      <3>1. ASSUME NEW i \in DOMAIN runs', NEW j \in DOMAIN runs', i < j,
                   runs'[i].key = runs'[j].key, runs'[i].key # NoKey, runs'[i].recorded >= 0
            PROVE  runs'[j].from > runs'[i].recorded + Ttl
        <4>1. i \in 1..Len(runs) /\ runs'[i] = runs[i] BY <2>3, <2>4, <3>1
        <4>2. CASE j \in 1..Len(runs) BY <2>3, <3>1, <4>1, <4>2 DEF KeysInv, OncePerKey
        <4>3. CASE j = n
          <5>1. key = runs[i].key /\ key \in IdemKeys /\ ~Valid(key)
            BY <1>4, <2>4, <3>1, <4>1, <4>3
          <5>2. \/ clock > runs[i].recorded + Ttl
                \/ answers[key] # NoRow /\ answers[key].until >= runs[i].recorded + Ttl
            BY <2>3, <3>1, <4>1, <5>1 DEF KeysInv, AnswersTell
          <5>3. answers[key] # NoRow => answers[key].until \in Int /\ clock > answers[key].until
            BY <5>1 DEF Valid, KeysInv, AnswersTell, FlightsFit, Answer
          <5>4. runs[i].recorded \in Int
            <6>1. runs[i] \in Request BY <2>2, <2>3, <4>1
            <6> QED BY <6>1 DEF Request
          <5>5. clock \in Int /\ Ttl \in Int BY Constants DEF KeysInv, FlightsFit
          <5> QED BY <2>4, <4>1, <4>3, <5>2, <5>3, <5>4, <5>5
        <4> QED BY <2>3, <4>2, <4>3
      <3>2. answer'.key # NoKey => /\ runs'[answer'.of].key = answer'.key
                                   /\ runs'[answer'.of].body = answer'.body
                                   /\ runs'[answer'.of].recorded >= 0
        BY <2>1, <2>3 DEF KeysInv, AnswersTell, OncePerKey
      <3> QED BY <3>1, <3>2 DEF OncePerKey
    <2> QED BY <2>7, <2>8, <2>9, <2>10 DEF KeysInv
  <1> QED BY <1>3, <1>4

LEMMA RecordKeeps ==
  ASSUME KeysInv, NEW l \in Lanes, RecordSuccess(l)
  PROVE  KeysInv'
  <1> DEFINE r == lane[l].run
             k == runs[r].key
  <1>1. /\ lane[l].at = "answer" /\ lane' = [lane EXCEPT ![l] = Idle]
        /\ UNCHANGED <<clock, answer>>
    BY DEF RecordSuccess
  <1>2. lane[l] \in Flight /\ r \in 1..Len(runs) /\ runs[r] \in Request /\ lane[l] # Idle
    BY <1>1, FlightAt, RowIsAnswer
  <1>3. /\ lane' \in [Lanes -> Flight \cup {Idle}] /\ lane'[l] = Idle
        /\ \A m \in Lanes : m # l => lane'[m] = lane[m]
    BY <1>1 DEF KeysInv, FlightsFit
  <1>4. CASE k = NoKey
    <2>1. UNCHANGED <<answers, runs>> BY <1>4 DEF RecordSuccess
    <2> QED BY <1>1, <1>3, <2>1, LanesMove
  <1>5. CASE k # NoKey
    <2> DEFINE row == [body |-> runs[r].body, of |-> r, until |-> clock + Ttl]
    <2>1. answers' = [answers EXCEPT ![k] = row] /\ runs' = [runs EXCEPT ![r].recorded = clock]
      BY <1>5 DEF RecordSuccess
    <2>2. l = Loop /\ k \in IdemKeys /\ clock \in Nat /\ Ttl \in Nat
      BY <1>2, <1>5, Constants DEF KeysInv, LoopIsSerial, Lanes, Request, FlightsFit
    <2>3. row \in Answer /\ row # NoRow
      <3>1. row \in Answer BY <1>2, <2>2 DEF Answer, Request
      <3> QED BY <3>1, RowIsAnswer
    <2>4. row.of = r /\ row.body = runs[r].body /\ row.until = clock + Ttl OBVIOUS
    <2> DEFINE done == [runs[r] EXCEPT !.recorded = clock]
    <2>5. /\ done \in Request /\ done.key = k /\ done.body = runs[r].body
          /\ done.from = runs[r].from /\ done.recorded = clock
      BY <1>2, <2>2 DEF Request
    <2>6. runs' = [runs EXCEPT ![r] = done] BY <2>1
    <2> HIDE DEF done, row
    <2>7. /\ runs' \in Seq(Request) /\ DOMAIN runs' = DOMAIN runs /\ DOMAIN runs = 1..Len(runs)
          /\ runs'[r] = done /\ \A i \in DOMAIN runs : i # r => runs'[i] = runs[i]
      BY <1>2, <2>5, <2>6 DEF KeysInv, FlightsFit
    <2>8. \A i \in DOMAIN runs : /\ runs'[i].key = runs[i].key /\ runs'[i].body = runs[i].body
                                 /\ runs'[i].from = runs[i].from
      BY <2>5, <2>7
    <2>9. answers' \in [IdemKeys -> Answer \cup {NoRow}] /\ answers'[k] = row
          /\ \A x \in IdemKeys : x # k => answers'[x] = answers[x]
      BY <2>1, <2>2, <2>3 DEF KeysInv, AnswersTell
    <2>10. FlightsFit'
      <3>1. \A m \in Lanes : lane'[m] # Idle => lane'[m].run \in DOMAIN runs'
        BY <1>3, <2>7 DEF KeysInv, FlightsFit
      <3> QED BY <1>1, <1>3, <2>7, <3>1 DEF KeysInv, FlightsFit
    <2>11. LoopIsSerial'
      BY <1>3, <2>2, <2>7, <2>8, Constants DEF KeysInv, LoopIsSerial, FlightsFit, Lanes
    <2>12. \A i \in DOMAIN runs : runs[i].recorded >= 0 => runs'[i].recorded >= 0
      BY <2>2, <2>5, <2>7
    <2>13. AnswersTell'
      <3>1. \A x \in IdemKeys : answers'[x] # NoRow =>
              /\ answers'[x].of \in DOMAIN runs' /\ runs'[answers'[x].of].recorded >= 0
              /\ runs'[answers'[x].of].key = x /\ runs'[answers'[x].of].body = answers'[x].body
        <4> SUFFICES ASSUME NEW x \in IdemKeys, answers'[x] # NoRow
                     PROVE  /\ answers'[x].of \in DOMAIN runs' /\ runs'[answers'[x].of].recorded >= 0
                            /\ runs'[answers'[x].of].key = x
                            /\ runs'[answers'[x].of].body = answers'[x].body
          OBVIOUS
        <4>1. CASE x = k
          <5>1. answers'[x].of = r /\ answers'[x].body = runs[r].body
            BY <2>4, <2>9, <4>1
          <5>2. runs'[r].recorded >= 0 /\ runs'[r].key = x /\ runs'[r].body = runs[r].body
            BY <2>2, <2>5, <2>7, <4>1
          <5> HIDE DEF r
          <5> QED BY <1>2, <2>7, <5>1, <5>2
        <4>2. CASE x # k BY <2>7, <2>8, <2>9, <2>12, <4>2 DEF KeysInv, AnswersTell
        <4> QED BY <4>1, <4>2
      <3>2. ASSUME NEW i \in DOMAIN runs', runs'[i].key # NoKey, runs'[i].recorded >= 0
            PROVE  /\ runs'[i].recorded <= clock
                   /\ \/ clock > runs'[i].recorded + Ttl
                      \/ /\ answers'[runs'[i].key] # NoRow
                         /\ answers'[runs'[i].key].until >= runs'[i].recorded + Ttl
        <4>1. runs[i] \in Request /\ runs'[i].key = runs[i].key
          BY <2>7, <2>8 DEF KeysInv, FlightsFit
        <4>2. CASE i = r BY <2>2, <2>3, <2>4, <2>5, <2>7, <2>9, <4>2
        <4>3. CASE i # r
          <5>1. runs'[i] = runs[i] BY <2>7, <4>3
          <5>2. /\ runs[i].recorded <= clock /\ runs[i].recorded \in Int
                /\ \/ clock > runs[i].recorded + Ttl
                   \/ /\ answers[runs[i].key] # NoRow
                      /\ answers[runs[i].key].until >= runs[i].recorded + Ttl
            BY <2>7, <3>2, <4>1, <5>1 DEF KeysInv, AnswersTell, Request
          <5>3. runs[i].key \in IdemKeys BY <3>2, <4>1 DEF Request
          <5>4. runs[i].key = k => answers'[k].until >= runs[i].recorded + Ttl /\ answers'[k] # NoRow
            BY <2>2, <2>3, <2>4, <2>9, <5>2
          <5> QED BY <2>9, <5>1, <5>2, <5>3, <5>4
        <4> QED BY <4>2, <4>3
      <3> QED BY <1>1, <2>7, <2>9, <3>1, <3>2 DEF KeysInv, AnswersTell
    <2>14. OncePerKey'
      <3>1. ASSUME NEW i \in DOMAIN runs', NEW j \in DOMAIN runs', i < j,
                   runs'[i].key = runs'[j].key, runs'[i].key # NoKey, runs'[i].recorded >= 0
            PROVE  runs'[j].from > runs'[i].recorded + Ttl
        <4>1. CASE i = r
          <5>1. runs[j].key = NoKey
            BY <1>2, <2>2, <2>7, <3>1, <4>1 DEF KeysInv, LoopIsSerial
          <5> QED BY <2>7, <2>8, <3>1, <5>1
        <4>2. CASE i # r BY <2>7, <2>8, <3>1, <4>2 DEF KeysInv, OncePerKey
        <4> QED BY <4>1, <4>2
      <3>2. answer'.key # NoKey => /\ runs'[answer'.of].key = answer'.key
                                   /\ runs'[answer'.of].body = answer'.body
                                   /\ runs'[answer'.of].recorded >= 0
        BY <1>1, <2>8, <2>12 DEF KeysInv, AnswersTell, OncePerKey
      <3> QED BY <3>1, <3>2 DEF OncePerKey
    <2> QED BY <2>10, <2>11, <2>13, <2>14 DEF KeysInv
  <1> QED BY <1>4, <1>5

LEMMA KeysNext == KeysInv /\ [FrontNext]_frontVars => KeysInv'
  <1> SUFFICES ASSUME KeysInv, [FrontNext]_frontVars PROVE KeysInv'
    OBVIOUS
  <1>1. ASSUME NEW l \in Lanes, NEW key \in IdemKeys \cup {NoKey}, NEW body \in Bodies,
               Take(l, key, body)
        PROVE  KeysInv'
    BY <1>1, TakeKeeps
  <1>2. ASSUME NEW l \in Lanes, AssessEvent(l) \/ StoreEvent(l) PROVE KeysInv'
    <2>1. PICK s \in {"store", "after"} : lane' = [lane EXCEPT ![l].at = s]
      BY <1>2 DEF AssessEvent, StoreEvent
    <2>2. lane[l].at # "idle" /\ UNCHANGED <<clock, answers, runs, answer>>
      BY <1>2 DEF AssessEvent, StoreEvent
    <2> DEFINE f == [lane[l] EXCEPT !.at = s]
    <2>3. f \in Flight /\ f.run = lane[l].run BY <2>2, FlightAt
    <2>4. lane' = [lane EXCEPT ![l] = f] BY <2>1
    <2> HIDE DEF f
    <2> QED BY <2>2, <2>3, <2>4, LaneGoes
  <1>3. ASSUME NEW l \in Lanes, NEW ok \in BOOLEAN, AfterIngest(l, ok) PROVE KeysInv'
    <2> DEFINE f == IF lane[l].i < Len(runs[lane[l].run].body)
                    THEN [lane[l] EXCEPT !.i = lane[l].i + 1, !.at = "assess"]
                    ELSE [lane[l] EXCEPT !.at = "answer"]
    <2>1. lane[l].at # "idle" /\ UNCHANGED <<clock, answers, runs, answer>>
      BY <1>3 DEF AfterIngest
    <2>2. lane[l] \in Flight BY <2>1, FlightAt
    <2>5. lane' = [lane EXCEPT ![l] = f] BY <1>3 DEF AfterIngest
    <2>3. lane[l].i + 1 \in Nat BY <2>2 DEF Flight
    <2>4. f \in Flight /\ f.run = lane[l].run BY <2>1, <2>3, FlightAt
    <2> HIDE DEF f
    <2> QED BY <2>1, <2>4, <2>5, LaneGoes
  <1>4. ASSUME NEW l \in Lanes, RecordSuccess(l) PROVE KeysInv'
    BY <1>4, RecordKeeps
  <1>5. ASSUME NEW l \in Lanes, NEW n \in 0..8, Fail(l, n) \/ Crash(l, n) PROVE KeysInv'
    <2>1. lane' \in {[lane EXCEPT ![l] = Idle], [m \in Lanes |-> Idle]}
          /\ UNCHANGED <<clock, answers, runs, answer>>
      BY <1>5 DEF Fail, Crash
    <2>2. lane \in [Lanes -> Flight \cup {Idle}] BY DEF KeysInv, FlightsFit
    <2>3. /\ lane' \in [Lanes -> Flight \cup {Idle}]
          /\ \A m \in Lanes : lane'[m] = Idle \/ lane'[m] = lane[m]
      BY <2>1, <2>2
    <2> QED BY <2>1, <2>3, LanesMove
  <1>6. CASE Tick
    <2>1. clock' = clock + 1 /\ clock \in Nat /\ UNCHANGED <<answers, lane, runs, answer>>
      BY <1>6 DEF Tick, KeysInv, FlightsFit
    <2>2. FlightsFit' /\ LoopIsSerial' BY <2>1 DEF KeysInv, FlightsFit, LoopIsSerial
    <2>3. AnswersTell'
      <3>1. ASSUME NEW i \in DOMAIN runs, runs[i].key # NoKey, runs[i].recorded >= 0
            PROVE  /\ runs[i].recorded <= clock'
                   /\ \/ clock' > runs[i].recorded + Ttl
                      \/ /\ answers[runs[i].key] # NoRow
                         /\ answers[runs[i].key].until >= runs[i].recorded + Ttl
        <4>1. runs[i].recorded \in Int
          <5>1. runs[i] \in Request BY <3>1 DEF KeysInv, FlightsFit
          <5> QED BY <5>1 DEF Request
        <4>2. /\ runs[i].recorded <= clock
              /\ \/ clock > runs[i].recorded + Ttl
                 \/ /\ answers[runs[i].key] # NoRow
                    /\ answers[runs[i].key].until >= runs[i].recorded + Ttl
          BY <3>1 DEF KeysInv, AnswersTell
        <4> QED BY <2>1, <4>1, <4>2, Constants
      <3> QED BY <2>1, <3>1 DEF KeysInv, AnswersTell
    <2>4. OncePerKey' BY <2>1 DEF KeysInv, OncePerKey
    <2> QED BY <2>2, <2>3, <2>4 DEF KeysInv
  <1>7. CASE UNCHANGED frontVars
    <2>1. UNCHANGED <<clock, answers, lane, runs, answer>> BY <1>7 DEF frontVars
    <2>2. lane \in [Lanes -> Flight \cup {Idle}] BY DEF KeysInv, FlightsFit
    <2> QED BY <2>1, <2>2, LanesMove
  <1> QED BY <1>1, <1>2, <1>3, <1>4, <1>5, <1>6, <1>7 DEF FrontNext

(* What the promise of the Idempotency-Key rests on (the inductive           *)
(* invariant): the event loop serves keys one after the other, and a row     *)
(* outlives its lifetime only.                                               *)
THEOREM KeysInductive == FrontSpec => []KeysInv
  <1> QED BY KeysInit, KeysNext, PTL DEF FrontSpec

(* Between the recording of an answer and its expiry no request with that    *)
(* key is processed again, and what is sent instead is the answer to this    *)
(* very body: for any keys, bodies and lifetime, with deaths and failures.   *)
THEOREM OneAnswerPerKey == FrontSpec => []OncePerKey
  <1>1. KeysInv => OncePerKey BY DEF KeysInv
  <1> QED BY <1>1, KeysInductive, PTL

(* ---- the hits that wait for an assembly ---------------------------------- *)
LEMMA ThresholdIsPositive == Max({1, HitsBetween}) \in Nat \ {0}
  <1> DEFINE S == {1, HitsBetween}
  <1>1. HitsBetween \in Int BY Constants
  <1>2. \E x \in S : \A y \in S : x >= y BY <1>1
  <1>3. Max(S) \in S /\ \A y \in S : Max(S) >= y BY <1>2 DEF Max
  <1> QED BY <1>1, <1>3

LEMMA BetweenIsFinite ==
  /\ IsFiniteSet(Between) /\ Cardinality(Between) \in Nat
  /\ \A l \in Lanes : /\ l \in Between => Cardinality(Between \ {l}) = Cardinality(Between) - 1
                      /\ l \notin Between => Cardinality(Between \cup {l}) = Cardinality(Between) + 1
  <1>1. IsFiniteSet(Between) BY Constants, FS_Subset DEF Between
  <1>2. Cardinality(Between) \in Nat BY <1>1, FS_CardinalityType
  <1> QED BY <1>1, <1>2, FS_AddElement, FS_RemoveElement

(* What one lane does leaves the events of the others where they are.        *)
LEMMA BetweenMoves ==
  ASSUME KeysInv, NEW l \in Lanes, \A m \in Lanes : m # l => lane'[m] = lane[m],
         \A r \in DOMAIN runs : runs'[r].body = runs[r].body
  PROVE  \A m \in Lanes : m # l => (m \in Between' <=> m \in Between)
  <1> SUFFICES ASSUME NEW m \in Lanes, m # l PROVE m \in Between' <=> m \in Between
    OBVIOUS
  <1>1. lane'[m] = lane[m] OBVIOUS
  <1>2. ASSUME lane[m].at = "after" PROVE EventOf(m)' = EventOf(m)
    <2>1. lane[m].run \in DOMAIN runs BY <1>2, RowIsAnswer DEF KeysInv, FlightsFit
    <2> QED BY <1>1, <2>1 DEF EventOf
  <1> QED BY <1>1, <1>2 DEF Between

(* A step on the way of a request that is not about its event's hit.         *)
LEMMA BetweenStays ==
  ASSUME KeysInv, HitsInv, NEW l \in Lanes, \A m \in Lanes : m # l => lane'[m] = lane[m],
         lane[l].at # "after", lane'[l].at # "after",
         \A r \in DOMAIN runs : runs'[r].body = runs[r].body, UNCHANGED <<pending, unseen, failed>>
  PROVE  HitsInv'
  <1>1. \A m \in Lanes : m # l => (m \in Between' <=> m \in Between) BY BetweenMoves
  <1>2. Between' = Between BY <1>1 DEF Between
  <1> QED BY <1>2 DEF HitsInv

LEMMA StoreCounts ==
  ASSUME KeysInv, HitsInv, NEW l \in Lanes, StoreEvent(l)
  PROVE  HitsInv'
  <1>1. /\ lane[l].at = "store" /\ lane' = [lane EXCEPT ![l].at = "after"]
        /\ UNCHANGED <<runs, pending, failed>>
        /\ unseen' = IF EventOf(l).hit THEN unseen + 1 ELSE unseen
    BY DEF StoreEvent
  <1>2. lane[l] \in Flight /\ lane \in [Lanes -> Flight \cup {Idle}]
    BY <1>1, FlightAt DEF KeysInv, FlightsFit
  <1>3. /\ lane'[l].at = "after" /\ lane'[l].run = lane[l].run /\ lane'[l].i = lane[l].i
        /\ \A m \in Lanes : m # l => lane'[m] = lane[m]
    BY <1>1, <1>2 DEF Flight
  <1>4. \A m \in Lanes : m # l => (m \in Between' <=> m \in Between)
    BY <1>1, <1>3, BetweenMoves
  <1>5. EventOf(l)' = EventOf(l) BY <1>1, <1>3 DEF EventOf
  <1>6. l \notin Between BY <1>1 DEF Between
  <1>7. CASE EventOf(l).hit
    <2>1. Between' = Between \cup {l} BY <1>3, <1>4, <1>5, <1>7 DEF Between
    <2>2. Cardinality(Between') = Cardinality(Between) + 1 BY <1>6, <2>1, BetweenIsFinite
    <2> QED BY <1>1, <1>7, <2>2, BetweenIsFinite DEF HitsInv
  <1>8. CASE ~EventOf(l).hit
    <2>1. Between' = Between BY <1>3, <1>4, <1>5, <1>6, <1>8 DEF Between
    <2> QED BY <1>1, <1>8, <2>1 DEF HitsInv
  <1> QED BY <1>7, <1>8

LEMMA AfterCounts ==
  ASSUME KeysInv, HitsInv, NEW l \in Lanes, NEW ok \in BOOLEAN, AfterIngest(l, ok)
  PROVE  HitsInv'
  <1> DEFINE counts  == EventOf(l).hit
             reached == counts /\ Reached(pending + 1)
  <1>1. lane[l].at = "after" /\ runs' = runs BY DEF AfterIngest
  <1>2. /\ ok \/ reached
        /\ pending' = IF reached THEN 0 ELSE IF counts THEN pending + 1 ELSE pending
        /\ unseen' = IF reached /\ ok THEN 0 ELSE unseen
        /\ failed' = IF reached THEN ~ok ELSE failed
    BY DEF AfterIngest
  <1>3. lane[l] \in Flight /\ lane \in [Lanes -> Flight \cup {Idle}]
    BY <1>1, FlightAt DEF KeysInv, FlightsFit
  <1>4. lane'[l].at \in {"assess", "answer"} /\ \A m \in Lanes : m # l => lane'[m] = lane[m]
    BY <1>3 DEF AfterIngest, Flight
  <1>5. Between' = Between \ {l}
    <2>1. \A m \in Lanes : m # l => (m \in Between' <=> m \in Between)
      BY <1>1, <1>4, BetweenMoves
    <2> QED BY <1>4, <2>1 DEF Between
  <1>6. counts <=> l \in Between BY <1>1 DEF Between
  <1>7. pending \in Nat /\ unseen \in Nat /\ failed \in BOOLEAN /\ Max({1, HitsBetween}) \in Nat \ {0}
    BY ThresholdIsPositive DEF HitsInv
  <1>8. Cardinality(Between) \in Nat /\ Cardinality(Between') \in Nat
    <2>1. IsFiniteSet(Between \ {l}) BY BetweenIsFinite, FS_Subset
    <2> QED BY <1>5, <2>1, BetweenIsFinite, FS_CardinalityType
  <1>9. CASE reached
    <2>1. pending' = 0 /\ unseen' \in Nat /\ (ok => unseen' = 0) BY <1>2, <1>7, <1>9
    <2>2. failed' = ~ok BY <1>2, <1>9
    <2>3. failed' \in BOOLEAN /\ (~failed' => unseen' = 0) BY <2>1, <2>2
    <2> HIDE DEF reached
    <2> QED BY <2>3, <1>7, <1>8, <2>1 DEF HitsInv
  <1>10. CASE ~reached /\ counts
    <2>1. pending' = pending + 1 /\ unseen' = unseen /\ failed' = failed BY <1>2, <1>10
    <2>2. pending + 1 < Max({1, HitsBetween}) BY <1>7, <1>10 DEF Reached
    <2>3. Cardinality(Between') = Cardinality(Between) - 1 BY <1>5, <1>6, <1>10, BetweenIsFinite
    <2> QED BY <1>7, <1>8, <2>1, <2>2, <2>3 DEF HitsInv
  <1>11. CASE ~counts
    <2>1. pending' = pending /\ unseen' = unseen /\ failed' = failed BY <1>2, <1>11
    <2>2. Between' = Between BY <1>5, <1>6, <1>11
    <2> QED BY <2>1, <2>2 DEF HitsInv
  <1> QED BY <1>9, <1>10, <1>11

LEMMA HitsNext == KeysInv /\ HitsInv /\ [FrontNext]_frontVars => HitsInv'
  <1> SUFFICES ASSUME KeysInv, HitsInv, [FrontNext]_frontVars PROVE HitsInv'
    OBVIOUS
  <1>1. lane \in [Lanes -> Flight \cup {Idle}] /\ runs \in Seq(Request) BY DEF KeysInv, FlightsFit
  <1>2. ASSUME NEW l \in Lanes, NEW key \in IdemKeys \cup {NoKey}, NEW body \in Bodies,
               Take(l, key, body)
        PROVE  HitsInv'
    <2>1. lane[l].at # "after" /\ UNCHANGED <<pending, unseen, failed>>
      BY <1>2, RowIsAnswer DEF Take
    <2>2. \/ UNCHANGED <<lane, runs>>
          \/ /\ lane' = [lane EXCEPT ![l] = [at |-> "assess", run |-> Len(runs) + 1, i |-> 1]]
             /\ \E r : runs' = Append(runs, r)
      BY <1>2 DEF Take
    <2>3. lane'[l].at # "after" /\ \A m \in Lanes : m # l => lane'[m] = lane[m]
      BY <1>1, <2>1, <2>2
    <2>4. \A r \in DOMAIN runs : runs'[r].body = runs[r].body
      <3>1. CASE runs' = runs BY <3>1
      <3>2. ASSUME NEW x, runs' = Append(runs, x) PROVE \A r \in DOMAIN runs : runs'[r] = runs[r]
        BY <1>1, <3>2
      <3> QED BY <2>2, <3>1, <3>2
    <2> QED BY <2>1, <2>3, <2>4, BetweenStays
  <1>3. ASSUME NEW l \in Lanes, AssessEvent(l) PROVE HitsInv'
    <2>1. /\ lane[l].at = "assess" /\ lane' = [lane EXCEPT ![l].at = "store"]
          /\ UNCHANGED <<runs, pending, unseen, failed>>
      BY <1>3 DEF AssessEvent
    <2>2. lane[l] \in Flight BY <2>1, FlightAt
    <2>3. lane'[l].at # "after" /\ \A m \in Lanes : m # l => lane'[m] = lane[m]
      BY <1>1, <2>1, <2>2 DEF Flight
    <2> QED BY <2>1, <2>3, BetweenStays
  <1>4. ASSUME NEW l \in Lanes, RecordSuccess(l) PROVE HitsInv'
    <2>1. /\ lane[l].at = "answer" /\ lane' = [lane EXCEPT ![l] = Idle]
          /\ UNCHANGED <<pending, unseen, failed>>
          /\ runs' = runs \/ runs' = [runs EXCEPT ![lane[l].run].recorded = clock]
      BY <1>4 DEF RecordSuccess
    <2>2. lane'[l].at # "after" /\ \A m \in Lanes : m # l => lane'[m] = lane[m]
      BY <1>1, <2>1, RowIsAnswer
    <2>3. \A r \in DOMAIN runs : runs'[r].body = runs[r].body
      <3>1. CASE runs' = runs BY <3>1
      <3>2. CASE runs' = [runs EXCEPT ![lane[l].run].recorded = clock]
        <4> SUFFICES ASSUME NEW r \in DOMAIN runs PROVE runs'[r].body = runs[r].body
          OBVIOUS
        <4>1. runs[r] \in Request BY <1>1
        <4> QED BY <1>1, <3>2, <4>1 DEF Request
      <3> QED BY <2>1, <3>1, <3>2
    <2> QED BY <2>1, <2>2, <2>3, BetweenStays
  <1>5. ASSUME NEW l \in Lanes, NEW n \in 0..8, Fail(l, n) PROVE HitsInv'
    <2>1. /\ lane[l].at # "after" /\ lane' = [lane EXCEPT ![l] = Idle]
          /\ UNCHANGED <<runs, pending, unseen, failed>>
      BY <1>5 DEF Fail
    <2>2. lane'[l].at # "after" /\ \A m \in Lanes : m # l => lane'[m] = lane[m]
      BY <1>1, <2>1, RowIsAnswer
    <2> QED BY <2>1, <2>2, BetweenStays
  <1>6. ASSUME NEW l \in Lanes, NEW n \in 0..8, Crash(l, n) PROVE HitsInv'
    <2>1. /\ lane' = [m \in Lanes |-> Idle] /\ pending' = 0 /\ unseen' = unseen
          /\ failed' = (failed \/ unseen > 0)
      BY <1>6 DEF Crash
    <2>2. Between' = {} BY <2>1, RowIsAnswer DEF Between
    <2>3. Cardinality(Between') = 0 BY <2>2, FS_EmptySet
    <2>4. unseen \in Nat /\ failed \in BOOLEAN BY DEF HitsInv
    <2>5. failed' \in BOOLEAN /\ (~failed' => ~(unseen > 0)) BY <2>1, <2>4
    <2>6. ~failed' => unseen' = 0 BY <2>1, <2>4, <2>5
    <2> QED BY <2>1, <2>3, <2>4, <2>5, <2>6, ThresholdIsPositive DEF HitsInv
  <1>7. CASE Tick \/ UNCHANGED frontVars
    <2>1. UNCHANGED <<lane, runs, pending, unseen, failed>> BY <1>7 DEF Tick, frontVars
    <2>2. Between' = Between BY <2>1 DEF Between, EventOf
    <2> QED BY <2>1, <2>2 DEF HitsInv
  <1> QED BY <1>2, <1>3, <1>4, <1>5, <1>6, <1>7, StoreCounts, AfterCounts DEF FrontNext

LEMMA HitsInit == FrontInit => HitsInv
  <1> SUFFICES ASSUME FrontInit PROVE HitsInv
    OBVIOUS
  <1>1. pending = 0 /\ unseen = 0 /\ failed = FALSE BY DEF FrontInit
  <1>2. Cardinality(Between) \in Nat BY BetweenIsFinite
  <1>3. unseen <= pending + Cardinality(Between) BY <1>1, <1>2
  <1>4. pending < Max({1, HitsBetween}) BY <1>1, ThresholdIsPositive
  <1> QED BY <1>1, <1>3, <1>4 DEF HitsInv

(* Every hit that no run of the assembly has looked at is counted, or is     *)
(* about to be by the lane that stored its event, as long as no run failed.  *)
THEOREM HitsAreCounted == FrontSpec => []HitsInv
  <1> QED BY HitsInit, HitsNext, KeysInductive, PTL DEF FrontSpec

(* Fewer hits than a run of the assembly needs are left waiting, for any     *)
(* number of lanes and any hits_between_runs, zero and less included.        *)
THEOREM FewHitsAreLeft == FrontSpec => []FewHitsWait
  <1>1. HitsInv => FewHitsWait
    BY ThresholdIsPositive, BetweenIsFinite DEF HitsInv, FewHitsWait
  <1> QED BY <1>1, HitsAreCounted, PTL

(* ---- the weights and thresholds in force --------------------------------- *)
(* The validation looks at the weights and at the thresholds, each alone: a  *)
(* set that is taken over piece by piece from validated ones is valid.       *)
LEMMA PiecesAreValid ==
  ASSUME NEW set, NEW x, NEW y, Validated(x), Validated(y),
         set.weights = x.weights, set.thresholds = y.thresholds
  PROVE  Validated(set)
  BY DEF Validated

LEMMA LaterIsAnOrder ==
  ASSUME NEW u \in Nat \X Nat, NEW v \in Nat \X Nat, NEW w \in Nat \X Nat
  PROVE  /\ ~Later(u, u)
         /\ Later(u, v) /\ Later(v, w) => Later(u, w)
  BY DEF Later

LEMMA VersionsAreNat == month \in Nat => Versions \subseteq Nat \X Nat
  BY DEF Versions

LEMMA NextIsLater ==
  ASSUME month \in Nat, month >= 1, NEW v \in Versions
  PROVE  NextVersion(v) \in Versions /\ Later(NextVersion(v), v)
  BY DEF NextVersion, Versions, Later

LEMMA TornIsNoText ==
  /\ \A t \in Texts : t # Torn
  /\ Torn.rest = "torn" /\ Torn.set.weights = <<>>
  /\ \A p \in PutRequests : p # Done /\ p.at # "done"
  /\ Done \notin PutRequests /\ Done.at = "done"
  <1>1. \A t \in Texts : t.rest # "torn" BY DEF Texts
  <1>2. Torn.rest = "torn" /\ Torn.set.weights = <<>> BY DEF Torn
  <1>3. Done.at = "done" BY DEF Done
  <1>4. \A p \in PutRequests : p.at # "done" BY DEF PutRequests, PutPhases
  <1> QED BY <1>1, <1>2, <1>3, <1>4

LEMMA LengthIsInt == \A set \in RiskSets : Length(set) \in Int /\ Length(set) >= -9
  <1> SUFFICES ASSUME NEW set \in RiskSets PROVE Length(set) \in Int /\ Length(set) >= -9
    OBVIOUS
  <1>1. ASSUME NEW s \in Seq(Int)
        PROVE  Cardinality({i \in DOMAIN s : s[i] % 10 # 0}) \in Nat
    <2>1. IsFiniteSet(1..Len(s)) BY <1>1, FS_Interval
    <2>2. IsFiniteSet({i \in DOMAIN s : s[i] % 10 # 0}) BY <1>1, <2>1, FS_Subset
    <2> QED BY <2>2, FS_CardinalityType
  <1>2. set.weights \in Seq(Int) /\ set.thresholds \in Seq(Int) BY DEF RiskSets
  <1>3. /\ Cardinality({i \in DOMAIN set.weights : set.weights[i] % 10 # 0}) \in Nat
        /\ Cardinality({i \in DOMAIN set.thresholds : set.thresholds[i] % 10 # 0}) \in Nat
    BY <1>1, <1>2
  <1> QED BY <1>3 DEF Length

LEMMA BelowNine == \A n \in Int : n >= -9 => ~(-9 > n + 1)
  OBVIOUS

LEMMA TornIsShortest == \A set \in RiskSets : ~(Length(Torn.set) > Length(set) + 1)
  <1>1. Length(Torn.set) = -9 BY TornIsNoText DEF Length
  <1> QED BY <1>1, LengthIsInt, BelowNine

(* A text that is written over an emptied file is the whole file.            *)
LEMMA OverlaidText ==
  ASSUME NEW t \in Texts, Validated(t.set), t.rest # ""
  PROVE  /\ Overlaid(t) \in Texts /\ Overlaid(t).set = t.set /\ Overlaid(t).version = t.version
         /\ Overlaid(t).rest # "" /\ (file = Torn => Overlaid(t) = t)
  <1>1. Overlaid(t) = t \/ Overlaid(t) = [t EXCEPT !.rest = "tail"] BY DEF Overlaid
  <1>2. file = Torn => Overlaid(t) = t
    <2>1. ~(Length(Torn.set) > Length(t.set) + 1) BY TornIsShortest DEF Texts
    <2> QED BY <2>1 DEF Overlaid
  <1> QED BY <1>1, <1>2 DEF Texts

(* A request that goes on keeps its text, or takes the rest of the file.     *)
LEMMA PutGoesOn ==
  ASSUME NEW p \in PutRequests, NEW s \in PutPhases
  PROVE  /\ [p EXCEPT !.at = s] \in PutRequests /\ [p EXCEPT !.at = s].at = s
         /\ [p EXCEPT !.at = s].alone = p.alone /\ [p EXCEPT !.at = s].text = p.text
  BY DEF PutRequests

LEMMA RequestAt ==
  ASSUME SettingsInv, NEW a \in Admins, put[a].at # "done"
  PROVE  /\ put[a] \in PutRequests /\ a \in Active /\ put[a].text \in Texts /\ running
         /\ put[a].text.set \in RiskSets /\ put[a].text.version \in Versions
         /\ put[a].at # "read" => Validated(put[a].text.set) /\ put[a].text.rest # ""
         /\ put[a].alone => Active = {a}
  <1>1. put[a] \in PutRequests /\ a \in Active
    BY TornIsNoText DEF SettingsInv, OnlyValidated, Active
  <1>2. put[a].text \in Texts BY <1>1 DEF PutRequests
  <1> QED BY <1>1, <1>2 DEF SettingsInv, OnlyValidated, AloneIsAlone, Texts

(* One request goes on, or is done; nobody's being alone changes.            *)
LEMMA PutMoves ==
  ASSUME SettingsInv, NEW a \in Active, NEW x \in PutRequests \cup {Done},
         x # Done => x.alone = put[a].alone, put' = [put EXCEPT ![a] = x]
  PROVE  /\ put' \in [Admins -> PutRequests \cup {Done}]
         /\ put'[a] = x /\ \A b \in Admins : b # a => put'[b] = put[b]
         /\ Active' = (IF x = Done THEN Active \ {a} ELSE Active)
         /\ \A b \in Active' : b \in Active /\ put'[b].alone = put[b].alone
         /\ \A b \in Active' : put'[b].alone => Active' = {b}
  <1>1. a \in Admins /\ put \in [Admins -> PutRequests \cup {Done}]
    BY DEF SettingsInv, OnlyValidated, Active
  <1>2. put' \in [Admins -> PutRequests \cup {Done}] BY <1>1
  <1>3. put'[a] = x /\ \A b \in Admins : b # a => put'[b] = put[b] BY <1>1
  <1>4. Active' = (IF x = Done THEN Active \ {a} ELSE Active) BY <1>1, <1>3 DEF Active
  <1>5. \A b \in Active' : b \in Active /\ put'[b].alone = put[b].alone
    BY <1>3, <1>4 DEF Active
  <1>6. \A b \in Active' : put'[b].alone => Active' = {b}
    BY <1>4, <1>5 DEF SettingsInv, AloneIsAlone
  <1> QED BY <1>2, <1>3, <1>4, <1>5, <1>6

LEMMA SettingsStart == SettingsInit => SettingsInv
  <1> SUFFICES ASSUME SettingsInit PROVE SettingsInv
    OBVIOUS
  <1>1. Shipped \in RiskSets /\ Validated(Shipped) BY SettingsAssumption
  <1>2. <<1, 1>> \in Versions BY DEF SettingsInit, Versions
  <1>3. /\ month = 1 /\ breaks = 0 /\ running = TRUE /\ split = FALSE /\ overlap = FALSE
        /\ file = [set |-> Shipped, version |-> <<1, 1>>, rest |-> "whole"]
        /\ force = [weights |-> Shipped.weights, thresholds |-> Shipped.thresholds,
                    version |-> <<1, 1>>]
        /\ given = {force} /\ put = [a \in Admins |-> Done] /\ Active = {}
    BY DEF SettingsInit, Active
  <1>4. file \in Texts /\ file # Torn /\ file.rest = "whole" /\ force = Forced(file)
    BY <1>1, <1>2, <1>3, TornIsNoText DEF Texts, Forced
  <1>5. force \in Givens /\ Validated(force)
    <2>1. force \in Givens BY <1>1, <1>2, <1>3 DEF Givens, RiskSets
    <2> QED BY <1>1, <1>3, <2>1, PiecesAreValid
  <1>6. OnlyValidated BY <1>1, <1>3, <1>4, <1>5 DEF OnlyValidated
  <1>7. AloneIsAlone /\ TextTaken /\ FileInForce
    BY <1>3, <1>4 DEF AloneIsAlone, TextTaken, FileInForce
  <1>8. VersionsGrow /\ WholeText BY <1>3, <1>4 DEF VersionsGrow, WholeText, Forced
  <1> QED BY <1>6, <1>7, <1>8 DEF SettingsInv

LEMMA ReceiveKeeps ==
  ASSUME SettingsInv, NEW a \in Admins, NEW set \in Proposals, Receive(a, set)
  PROVE  SettingsInv'
  <1> DEFINE others == {b \in Admins : put[b] # Done}
             new == [at |-> "read", alone |-> others = {},
                     text |-> [set |-> set, version |-> NextVersion(force.version), rest |-> ""]]
  <1>1. /\ running /\ put[a] = Done /\ overlap' = (overlap \/ others # {})
        /\ split' = (split \/ others # {})
        /\ UNCHANGED <<month, file, force, running, given, breaks>>
        /\ put' = [b \in Admins |-> IF b = a THEN new
                                    ELSE IF b \in others THEN [put[b] EXCEPT !.alone = FALSE] ELSE Done]
    BY DEF Receive
  <1>2. others = Active /\ a \notin Active BY <1>1 DEF Active
  <1>3. OnlyValidated BY DEF SettingsInv
  <1>4. /\ NextVersion(force.version) \in Versions
        /\ Later(NextVersion(force.version), force.version)
    <2>1. force.version \in Versions BY <1>3 DEF OnlyValidated, Givens
    <2>2. month \in Nat /\ month >= 1
      <3>1. month \in Nat \ {0} BY <1>3 DEF OnlyValidated
      <3> QED BY <3>1
    <2> QED BY <2>1, <2>2, NextIsLater
  <1>5. new \in PutRequests /\ new # Done
    <2>1. set \in RiskSets BY SettingsAssumption
    <2>2. new.text \in Texts BY <1>4, <2>1 DEF Texts
    <2>3. new \in PutRequests BY <2>2 DEF PutRequests, PutPhases
    <2> QED BY <2>3, TornIsNoText
  <1>6. /\ new.at = "read" /\ new.text.version = NextVersion(force.version)
        /\ new.alone <=> Active = {}
    BY <1>2
  <1> HIDE DEF new, others
  <1>7. \A b \in Active : /\ put[b] \in PutRequests /\ [put[b] EXCEPT !.alone = FALSE] \in PutRequests
                          /\ [put[b] EXCEPT !.alone = FALSE].at = put[b].at
                          /\ [put[b] EXCEPT !.alone = FALSE].text = put[b].text
                          /\ ~[put[b] EXCEPT !.alone = FALSE].alone
    BY <1>3 DEF OnlyValidated, Active, PutRequests
  <1>8. /\ put' \in [Admins -> PutRequests \cup {Done}] /\ put'[a] = new
        /\ \A b \in Active : put'[b] = [put[b] EXCEPT !.alone = FALSE]
        /\ \A b \in Admins : b # a /\ b \notin Active => put'[b] = Done
    BY <1>1, <1>2, <1>5, <1>7 DEF Active
  <1>9. Active' = Active \cup {a}
    <2>1. \A b \in Active : put'[b] # Done BY <1>7, <1>8, TornIsNoText
    <2> QED BY <1>5, <1>8, <2>1 DEF Active
  <1>10. OnlyValidated'
    <2>1. ASSUME NEW b \in Active', put'[b].at # "read"
          PROVE  Validated(put'[b].text.set) /\ put'[b].text.rest # ""
      <3>1. b \in Active BY <1>6, <1>8, <1>9, <2>1
      <3>2. put'[b].at = put[b].at /\ put'[b].text = put[b].text BY <1>7, <1>8, <3>1
      <3> QED BY <1>3, <2>1, <3>1, <3>2 DEF OnlyValidated
    <2> QED BY <1>1, <1>3, <1>8, <2>1 DEF OnlyValidated, Texts, Givens, Versions, PutRequests
  <1>11. AloneIsAlone'
    <2>1. \A b \in Active : ~put'[b].alone BY <1>7, <1>8
    <2>2. put'[a].alone <=> Active = {} BY <1>6, <1>8
    <2> QED BY <1>1, <1>2, <1>9, <2>1, <2>2 DEF AloneIsAlone
  <1>12. TextTaken' BY <1>6, <1>7, <1>8, <1>9 DEF TextTaken
  <1>13. FileInForce'
    <2>1. ~split' => ~split /\ Active = {} BY <1>1, <1>2
    <2> QED BY <1>1, <2>1 DEF SettingsInv, FileInForce, Forced
  <1>14. CASE Active # {}
    <2>1. overlap' BY <1>1, <1>2, <1>14
    <2> QED BY <1>10, <1>11, <1>12, <1>13, <2>1 DEF SettingsInv, VersionsGrow, WholeText
  <1>15. CASE Active = {}
    <2>1. (overlap' <=> overlap) /\ Active' = {a} BY <1>1, <1>2, <1>9, <1>15
    <2>2. VersionsGrow'
      BY <1>1, <1>4, <1>6, <1>8, <2>1 DEF SettingsInv, VersionsGrow, Forced
    <2>3. WholeText' BY <1>1, <1>6, <1>8, <1>15, <2>1 DEF SettingsInv, WholeText
    <2> QED BY <1>10, <1>11, <1>12, <1>13, <2>2, <2>3 DEF SettingsInv
  <1> QED BY <1>14, <1>15

LEMMA ReadKeeps ==
  ASSUME SettingsInv, NEW a \in Admins, ReadAndRewrite(a)
  PROVE  SettingsInv'
  <1> DEFINE f == [put[a] EXCEPT !.at = "open", !.text.rest = file.rest]
             x == IF Validated(put[a].text.set) /\ file # Torn THEN f ELSE Done
  <1>1. /\ put[a].at = "read" /\ put' = [put EXCEPT ![a] = x]
        /\ UNCHANGED <<month, file, force, running, given, overlap, split, breaks>>
    BY DEF ReadAndRewrite
  <1>2. OnlyValidated BY DEF SettingsInv
  <1>3. put[a] \in PutRequests /\ a \in Active /\ put[a].text \in Texts BY <1>1, RequestAt
  <1>4. x # Done => /\ Validated(put[a].text.set) /\ file # Torn
                    /\ x \in PutRequests /\ x.at = "open" /\ x.alone = put[a].alone
                    /\ x.text.set = put[a].text.set /\ x.text.version = put[a].text.version
                    /\ x.text.rest = file.rest /\ file.rest # ""
    <2> SUFFICES ASSUME x # Done
                 PROVE /\ Validated(put[a].text.set) /\ file # Torn
                       /\ x \in PutRequests /\ x.at = "open" /\ x.alone = put[a].alone
                       /\ x.text.set = put[a].text.set /\ x.text.version = put[a].text.version
                       /\ x.text.rest = file.rest /\ file.rest # ""
      OBVIOUS
    <2>1. x = f /\ Validated(put[a].text.set) /\ file # Torn OBVIOUS
    <2>2. file \in Texts /\ file.rest # "" BY <1>2, <2>1 DEF OnlyValidated
    <2>3. [put[a].text EXCEPT !.rest = file.rest] \in Texts BY <1>3, <2>2 DEF Texts
    <2>4. f \in PutRequests BY <1>3, <2>3 DEF PutRequests, PutPhases
    <2>5. f.at = "open" /\ f.alone = put[a].alone /\ f.text = [put[a].text EXCEPT !.rest = file.rest]
      BY <1>3 DEF PutRequests
    <2>6. f.text.set = put[a].text.set /\ f.text.version = put[a].text.version /\ f.text.rest = file.rest
      BY <1>3, <2>5 DEF Texts
    <2> HIDE DEF f
    <2> QED BY <2>1, <2>2, <2>4, <2>5, <2>6
  <1> HIDE DEF x
  <1>5. x \in PutRequests \cup {Done} BY <1>4
  <1>6. /\ put' \in [Admins -> PutRequests \cup {Done}]
        /\ put'[a] = x /\ \A b \in Admins : b # a => put'[b] = put[b]
        /\ Active' = (IF x = Done THEN Active \ {a} ELSE Active)
        /\ \A b \in Active' : b \in Active /\ put'[b].alone = put[b].alone
        /\ \A b \in Active' : put'[b].alone => Active' = {b}
    BY <1>1, <1>3, <1>4, <1>5, PutMoves
  <1>7. \A b \in Active' : b \in Admins /\ (b # a => put'[b] = put[b]) /\ (b = a => x # Done)
    BY <1>6 DEF Active
  <1>8. OnlyValidated'
    <2>1. \A b \in Active' : put'[b].at # "read" =>
            Validated(put'[b].text.set) /\ put'[b].text.rest # ""
      BY <1>2, <1>4, <1>6, <1>7 DEF OnlyValidated
    <2> QED BY <1>1, <1>2, <1>6, <2>1 DEF OnlyValidated, Texts, Givens, Versions, PutRequests
  <1>9. AloneIsAlone' BY <1>1, <1>6 DEF SettingsInv, AloneIsAlone
  <1>10. TextTaken'
    BY <1>1, <1>4, <1>6, <1>7 DEF SettingsInv, TextTaken
  <1>11. FileInForce'
    <2>1. (\A b \in Active' : put'[b].at \in {"read", "open"})
            => \A b \in Active : put[b].at \in {"read", "open"}
      BY <1>1, <1>6, <1>7 DEF Active
    <2> QED BY <1>1, <2>1 DEF SettingsInv, FileInForce, Forced
  <1>12. VersionsGrow'
    <2>1. \A b \in Active' : put'[b].text.version = put[b].text.version BY <1>4, <1>6, <1>7
    <2> QED BY <1>1, <1>6, <2>1 DEF SettingsInv, VersionsGrow, Forced
  <1>13. WholeText'
    <2> SUFFICES ASSUME ~overlap, breaks = 0
                 PROVE  /\ \A b \in Active' : put'[b].at # "read" => put'[b].text.rest = "whole"
                        /\ \/ file.rest = "whole"
                           \/ file = Torn /\ \E b \in Active' : put'[b].at = "write"
      BY <1>1 DEF WholeText
    <2>1. /\ \A b \in Active : put[b].at # "read" => put[b].text.rest = "whole"
          /\ file.rest = "whole" \/ (file = Torn /\ \E b \in Active : put[b].at = "write")
      BY DEF SettingsInv, WholeText
    <2>2. \A b \in Active' : put'[b].at # "read" => put'[b].text.rest = "whole"
      BY <1>4, <1>6, <1>7, <2>1
    <2>3. (\E b \in Active : put[b].at = "write") => \E b \in Active' : put'[b].at = "write"
      BY <1>1, <1>6 DEF Active
    <2> QED BY <2>1, <2>2, <2>3
  <1> QED BY <1>8, <1>9, <1>10, <1>11, <1>12, <1>13 DEF SettingsInv

(* A request takes its next step with the text it has.                       *)
LEMMA PutSteps ==
  ASSUME SettingsInv, NEW a \in Admins, put[a].at \notin {"done", "read"},
         NEW s \in PutPhases, put' = [put EXCEPT ![a].at = s]
  PROVE  /\ put' \in [Admins -> PutRequests \cup {Done}]
         /\ put'[a].at = s /\ \A b \in Active : b # a => put'[b].at = put[b].at
         /\ a \in Active /\ Active' = Active
         /\ \A b \in Active : put'[b].alone = put[b].alone /\ put'[b].text = put[b].text
         /\ \A b \in Active : Validated(put[b].text.set) \/ put[b].at = "read"
         /\ \A b \in Active' : put'[b].at # "read" =>
              Validated(put'[b].text.set) /\ put'[b].text.rest # ""
         /\ UNCHANGED <<overlap, split>> => AloneIsAlone'
  <1> DEFINE f == [put[a] EXCEPT !.at = s]
  <1>1. /\ put[a] \in PutRequests /\ a \in Active
        /\ Validated(put[a].text.set) /\ put[a].text.rest # ""
    BY RequestAt
  <1>2. f \in PutRequests /\ f.at = s /\ f.alone = put[a].alone /\ f.text = put[a].text
    BY <1>1, PutGoesOn
  <1>3. put' = [put EXCEPT ![a] = f] OBVIOUS
  <1> HIDE DEF f
  <1>4. f # Done BY <1>2, TornIsNoText
  <1>5. /\ put' \in [Admins -> PutRequests \cup {Done}]
        /\ put'[a] = f /\ \A b \in Admins : b # a => put'[b] = put[b]
        /\ Active' = Active
        /\ \A b \in Active' : b \in Active /\ put'[b].alone = put[b].alone
        /\ \A b \in Active' : put'[b].alone => Active' = {b}
    BY <1>1, <1>2, <1>3, <1>4, PutMoves
  <1>6. \A b \in Active : b \in Admins /\ (b # a => put'[b] = put[b]) BY <1>5 DEF Active
  <1>7. \A b \in Active : put'[b].text = put[b].text BY <1>2, <1>5, <1>6
  <1>8. \A b \in Active : put[b].at # "read" => Validated(put[b].text.set) /\ put[b].text.rest # ""
    BY DEF SettingsInv, OnlyValidated
  <1>9. \A b \in Active' : put'[b].at # "read" =>
          Validated(put'[b].text.set) /\ put'[b].text.rest # ""
    BY <1>1, <1>5, <1>6, <1>7, <1>8
  <1>10. UNCHANGED <<overlap, split>> => AloneIsAlone'
    BY <1>5 DEF SettingsInv, AloneIsAlone
  <1> QED BY <1>1, <1>2, <1>5, <1>6, <1>7, <1>8, <1>9, <1>10

(* A request is over.                                                        *)
LEMMA PutEnds ==
  ASSUME SettingsInv, NEW a \in Admins, put[a].at # "done", put' = [put EXCEPT ![a] = Done]
  PROVE  /\ put' \in [Admins -> PutRequests \cup {Done}]
         /\ Active' = Active \ {a} /\ \A b \in Active' : put'[b] = put[b]
         /\ put[a].alone => Active' = {}
         /\ \A b \in Active' : put'[b].at # "read" =>
              Validated(put'[b].text.set) /\ put'[b].text.rest # ""
         /\ (overlap' <=> overlap) /\ (~split \/ split' \/ put[a].alone) => AloneIsAlone'
  <1>1. a \in Active /\ (put[a].alone => Active = {a}) BY RequestAt
  <1>2. /\ put' \in [Admins -> PutRequests \cup {Done}]
        /\ put'[a] = Done /\ \A b \in Admins : b # a => put'[b] = put[b]
        /\ Active' = Active \ {a}
        /\ \A b \in Active' : b \in Active /\ put'[b].alone = put[b].alone
        /\ \A b \in Active' : put'[b].alone => Active' = {b}
    BY <1>1, PutMoves
  <1>3. \A b \in Active' : put'[b] = put[b] BY <1>2 DEF Active
  <1>4. \A b \in Active' : put'[b].at # "read" =>
          Validated(put'[b].text.set) /\ put'[b].text.rest # ""
    BY <1>2, <1>3 DEF SettingsInv, OnlyValidated
  <1>5. ASSUME overlap' <=> overlap, ~split \/ split' \/ put[a].alone PROVE AloneIsAlone'
    <2>1. ~split' \/ ~overlap' => \A b \in Active' : put'[b].alone
      BY <1>1, <1>2, <1>5 DEF SettingsInv, AloneIsAlone
    <2> QED BY <1>2, <2>1 DEF AloneIsAlone
  <1> QED BY <1>1, <1>2, <1>3, <1>4, <1>5

LEMMA OpenKeeps ==
  ASSUME SettingsInv, NEW a \in Admins, Open(a)
  PROVE  SettingsInv'
  <1>1. /\ put[a].at = "open" /\ file' = Torn /\ put' = [put EXCEPT ![a].at = "write"]
        /\ UNCHANGED <<month, force, running, given, overlap, split, breaks>>
    BY DEF Open
  <1>2. "write" \in PutPhases BY DEF PutPhases
  <1>3. /\ put' \in [Admins -> PutRequests \cup {Done}]
        /\ put'[a].at = "write" /\ \A b \in Active : b # a => put'[b].at = put[b].at
        /\ a \in Active /\ Active' = Active
        /\ \A b \in Active : put'[b].alone = put[b].alone /\ put'[b].text = put[b].text
        /\ \A b \in Active' : put'[b].at # "read" =>
             Validated(put'[b].text.set) /\ put'[b].text.rest # ""
        /\ AloneIsAlone'
    BY <1>1, <1>2, PutSteps
  <1>4. \A b \in Active : put[b].alone => Active = {b} BY DEF SettingsInv, AloneIsAlone
  <1>5. OnlyValidated'
    BY <1>1, <1>3 DEF SettingsInv, OnlyValidated, Texts, Givens, Versions, PutRequests
  <1>6. TextTaken'
    <2>1. \A b \in Active : put'[b].alone => b = a BY <1>3, <1>4
    <2> QED BY <1>1, <1>3, <2>1 DEF TextTaken
  <1>7. FileInForce' BY <1>3 DEF FileInForce
  <1>8. VersionsGrow' BY <1>1, <1>3 DEF SettingsInv, VersionsGrow
  <1>9. WholeText'
    <2>1. \A b \in Active : put'[b].at # "read" => put[b].at # "read" BY <1>1, <1>3
    <2>2. ~overlap /\ breaks = 0 => \A b \in Active : put[b].at # "read" => put[b].text.rest = "whole"
      BY DEF SettingsInv, WholeText
    <2>3. file' = Torn /\ \E b \in Active' : put'[b].at = "write" BY <1>1, <1>3
    <2>4. ~overlap /\ breaks = 0 => \A b \in Active' : put'[b].at # "read" => put'[b].text.rest = "whole"
      BY <1>3, <2>1, <2>2
    <2> QED BY <1>1, <2>3, <2>4 DEF WholeText
  <1> QED BY <1>3, <1>5, <1>6, <1>7, <1>8, <1>9 DEF SettingsInv

LEMMA WriteKeeps ==
  ASSUME SettingsInv, NEW a \in Admins, WriteSource(a)
  PROVE  SettingsInv'
  <1> DEFINE t == put[a].text
  <1>1. /\ put[a].at = "write" /\ file' = Overlaid(t) /\ put' = [put EXCEPT ![a].at = "weights"]
        /\ UNCHANGED <<month, force, running, given, overlap, split, breaks>>
    BY DEF WriteSource
  <1>2. /\ a \in Active /\ t \in Texts /\ Validated(t.set) /\ t.rest # ""
        /\ (put[a].alone => Active = {a})
    BY <1>1, RequestAt
  <1>3. /\ file' \in Texts /\ file'.set = t.set /\ file'.version = t.version
        /\ file'.rest # "" /\ (file = Torn => file' = t)
    <2> HIDE DEF t
    <2> QED BY <1>1, <1>2, OverlaidText
  <1>4. file' # Torn /\ (put[a].alone => file' = t)
    <2>1. file' # Torn BY <1>3, TornIsNoText
    <2>2. put[a].alone => file = Torn BY <1>1, <1>2 DEF SettingsInv, TextTaken
    <2> QED BY <1>3, <2>1, <2>2
  <1>5. "weights" \in PutPhases BY DEF PutPhases
  <1>6. /\ put' \in [Admins -> PutRequests \cup {Done}]
        /\ put'[a].at = "weights" /\ \A b \in Active : b # a => put'[b].at = put[b].at
        /\ Active' = Active
        /\ \A b \in Active : put'[b].alone = put[b].alone /\ put'[b].text = put[b].text
        /\ \A b \in Active' : put'[b].at # "read" =>
             Validated(put'[b].text.set) /\ put'[b].text.rest # ""
        /\ AloneIsAlone'
    BY <1>1, <1>5, PutSteps
  <1>7. \A b \in Active : put[b].alone => Active = {b} BY DEF SettingsInv, AloneIsAlone
  <1>8. OnlyValidated'
    <2>1. Validated(file'.set) BY <1>2, <1>3
    <2>2. file' \in Texts' BY <1>1, <1>3 DEF Texts, Versions
    <2> QED BY <1>1, <1>3, <1>6, <2>1, <2>2
      DEF SettingsInv, OnlyValidated, Texts, Givens, Versions, PutRequests
  <1>9. TextTaken'
    <2>1. \A b \in Active : put[b].alone => b = a BY <1>2, <1>7
    <2>2. put'[a].alone => file' = put'[a].text BY <1>2, <1>4, <1>6
    <2> QED BY <1>2, <1>6, <2>1, <2>2 DEF TextTaken
  <1>10. FileInForce' BY <1>2, <1>6 DEF FileInForce
  <1>11. VersionsGrow'
    <2>1. ~overlap => Later(file'.version, force.version)
      BY <1>2, <1>3 DEF SettingsInv, VersionsGrow
    <2> QED BY <1>1, <1>6, <2>1 DEF SettingsInv, VersionsGrow
  <1>12. WholeText'
    <2> SUFFICES ASSUME ~overlap, breaks = 0
                 PROVE  /\ \A b \in Active : put'[b].at # "read" => put'[b].text.rest = "whole"
                        /\ file'.rest = "whole"
      BY <1>1, <1>6 DEF WholeText
    <2>1. \A b \in Active : put[b].at # "read" => put[b].text.rest = "whole"
      BY DEF SettingsInv, WholeText
    <2>2. put[a].alone BY <1>2 DEF SettingsInv, AloneIsAlone
    <2>3. t.rest = "whole" BY <1>1, <1>2, <2>1
    <2>4. file'.rest = "whole" BY <1>4, <2>2, <2>3
    <2>5. \A b \in Active : put'[b].at # "read" => b = a \/ put[b].at # "read" BY <1>6
    <2>6. \A b \in Active : put'[b].text = put[b].text BY <1>6
    <2> QED BY <2>1, <2>3, <2>4, <2>5, <2>6
  <1> QED BY <1>6, <1>8, <1>9, <1>10, <1>11, <1>12 DEF SettingsInv

LEMMA WriteFailsKeeps ==
  ASSUME SettingsInv, NEW a \in Admins, WriteFails(a)
  PROVE  SettingsInv'
  <1> DEFINE t == put[a].text
             cut == [t EXCEPT !.rest = "cut"]
  <1>1. /\ put[a].at = "write" /\ file' \in {Torn, cut} /\ put' = [put EXCEPT ![a] = Done]
        /\ split' = TRUE /\ breaks' = breaks + 1
        /\ UNCHANGED <<month, force, running, given, overlap>>
    BY DEF WriteFails
  <1>2. a \in Active /\ t \in Texts /\ Validated(t.set) BY <1>1, RequestAt
  <1>3. cut \in Texts /\ cut.set = t.set /\ cut.version = t.version /\ cut.rest = "cut"
    BY <1>2 DEF Texts
  <1> HIDE DEF cut
  <1>4. /\ put' \in [Admins -> PutRequests \cup {Done}]
        /\ Active' = Active \ {a} /\ \A b \in Active' : put'[b] = put[b]
        /\ \A b \in Active' : put'[b].at # "read" =>
             Validated(put'[b].text.set) /\ put'[b].text.rest # ""
        /\ AloneIsAlone'
    BY <1>1, PutEnds
  <1>5. breaks' \in Nat /\ breaks' # 0
    <2>1. breaks \in Nat BY DEF SettingsInv, OnlyValidated
    <2> QED BY <1>1, <2>1
  <1>6. OnlyValidated'
    <2>1. file' = Torn \/ (file' \in Texts' /\ file'.rest # "" /\ Validated(file'.set))
      BY <1>1, <1>2, <1>3 DEF Texts, Versions
    <2> QED BY <1>1, <1>4, <1>5, <2>1
      DEF SettingsInv, OnlyValidated, Texts, Givens, Versions, PutRequests
  <1>7. TextTaken'
    <2>1. \A b \in Active' : ~put'[b].alone
      BY <1>2, <1>4 DEF SettingsInv, AloneIsAlone
    <2> QED BY <2>1 DEF TextTaken
  <1>8. FileInForce' /\ WholeText' BY <1>1, <1>5 DEF FileInForce, WholeText
  <1>9. VersionsGrow'
    <2>1. ~overlap => Later(t.version, force.version) BY <1>2 DEF SettingsInv, VersionsGrow
    <2> QED BY <1>1, <1>3, <1>4, <2>1 DEF SettingsInv, VersionsGrow
  <1> QED BY <1>4, <1>6, <1>7, <1>8, <1>9 DEF SettingsInv

LEMMA TakesKeep ==
  ASSUME SettingsInv, NEW a \in Admins, TakeWeights(a) \/ TakeThresholds(a)
  PROVE  SettingsInv'
  <1> DEFINE t == put[a].text
             s == IF put[a].at = "weights" THEN "thresholds" ELSE "version"
  <1>1. /\ put[a].at \in {"weights", "thresholds"} /\ put' = [put EXCEPT ![a].at = s]
        /\ UNCHANGED <<month, file, running, given, overlap, split, breaks>>
    BY DEF TakeWeights, TakeThresholds
  <1>2. force' = IF put[a].at = "weights" THEN [force EXCEPT !.weights = t.set.weights]
                 ELSE [force EXCEPT !.thresholds = t.set.thresholds]
    BY DEF TakeWeights, TakeThresholds
  <1>3. /\ a \in Active /\ t \in Texts /\ Validated(t.set) /\ t.set \in RiskSets
        /\ (put[a].alone => Active = {a})
    BY <1>1, RequestAt
  <1>4. force \in Givens /\ Validated(force) BY DEF SettingsInv, OnlyValidated
  <1>5. /\ force' \in Givens /\ force'.version = force.version
        /\ put[a].at = "weights" => /\ force'.weights = t.set.weights
                                    /\ force'.thresholds = force.thresholds
        /\ put[a].at # "weights" => /\ force'.weights = force.weights
                                    /\ force'.thresholds = t.set.thresholds
    BY <1>2, <1>3, <1>4 DEF Givens, RiskSets
  <1>6. Validated(force') BY <1>3, <1>4, <1>5, PiecesAreValid
  <1>7. s \in PutPhases /\ s \in {"thresholds", "version"} BY DEF PutPhases
  <1> HIDE DEF s
  <1>8. /\ put' \in [Admins -> PutRequests \cup {Done}]
        /\ put'[a].at = s /\ \A b \in Active : b # a => put'[b].at = put[b].at
        /\ Active' = Active
        /\ \A b \in Active : put'[b].alone = put[b].alone /\ put'[b].text = put[b].text
        /\ \A b \in Active' : put'[b].at # "read" =>
             Validated(put'[b].text.set) /\ put'[b].text.rest # ""
        /\ AloneIsAlone'
    BY <1>1, <1>7, PutSteps
  <1>9. OnlyValidated'
    BY <1>1, <1>5, <1>6, <1>8 DEF SettingsInv, OnlyValidated, Texts, Givens, Versions, PutRequests
  <1>10. TextTaken'
    <2>1. \A b \in Active : put[b].alone => b = a BY <1>3 DEF SettingsInv, AloneIsAlone
    <2>2. put[a].alone => file = t /\ (put[a].at = "thresholds" => force.weights = t.set.weights)
      BY <1>1, <1>3 DEF SettingsInv, TextTaken
    <2>3. s = "version" => put[a].at = "thresholds" BY <1>1 DEF s
    <2>4. put[a].alone => force'.weights = t.set.weights BY <1>1, <1>5, <2>2
    <2>5. s = "version" => force'.thresholds = t.set.thresholds BY <1>5, <2>3
    <2>6. put'[a].text = t BY <1>3, <1>8
    <2> QED BY <1>1, <1>3, <1>7, <1>8, <2>1, <2>2, <2>4, <2>5, <2>6 DEF TextTaken
  <1>11. FileInForce' BY <1>3, <1>7, <1>8 DEF FileInForce
  <1>12. VersionsGrow' BY <1>1, <1>5, <1>8 DEF SettingsInv, VersionsGrow, Forced
  <1>13. WholeText'
    <2>1. \A b \in Active : put'[b].at # "read" => put[b].at # "read" BY <1>1, <1>8
    <2>2. \A b \in Active : put[b].at = "write" => put'[b].at = "write" BY <1>1, <1>8
    <2>3. ASSUME ~overlap, breaks = 0
          PROVE  /\ \A b \in Active : put[b].at # "read" => put[b].text.rest = "whole"
                 /\ \/ file.rest = "whole"
                    \/ file = Torn /\ \E b \in Active : put[b].at = "write"
      BY <2>3 DEF SettingsInv, WholeText
    <2>4. ASSUME ~overlap, breaks = 0
          PROVE  \A b \in Active : put'[b].at # "read" => put'[b].text.rest = "whole"
      BY <1>8, <2>1, <2>3, <2>4
    <2>5. ASSUME ~overlap, breaks = 0
          PROVE  file.rest = "whole" \/ (file = Torn /\ \E b \in Active : put'[b].at = "write")
      BY <2>2, <2>3, <2>5
    <2> QED BY <1>1, <1>8, <2>4, <2>5 DEF WholeText
  <1> QED BY <1>8, <1>9, <1>10, <1>11, <1>12, <1>13 DEF SettingsInv

LEMMA TakeVersionKeeps ==
  ASSUME SettingsInv, NEW a \in Admins, TakeVersion(a)
  PROVE  SettingsInv'
  <1> DEFINE t == put[a].text
  <1>1. /\ put[a].at = "version" /\ put' = [put EXCEPT ![a] = Done]
        /\ force' = [force EXCEPT !.version = t.version] /\ given' = given \cup {force'}
        /\ split' = (split /\ ~put[a].alone)
        /\ UNCHANGED <<month, file, running, overlap, breaks>>
    BY DEF TakeVersion
  <1>2. /\ a \in Active /\ t \in Texts /\ t.version \in Versions /\ running
        /\ (put[a].alone => Active = {a})
    BY <1>1, RequestAt
  <1>3. force \in Givens /\ Validated(force) /\ given \subseteq Givens /\ month \in Nat
    BY DEF SettingsInv, OnlyValidated
  <1>4. /\ force' \in Givens /\ force'.version = t.version
        /\ force'.weights = force.weights /\ force'.thresholds = force.thresholds
    BY <1>1, <1>2, <1>3 DEF Givens
  <1>5. Validated(force') BY <1>3, <1>4, PiecesAreValid
  <1>6. /\ put' \in [Admins -> PutRequests \cup {Done}]
        /\ Active' = Active \ {a} /\ \A b \in Active' : put'[b] = put[b]
        /\ put[a].alone => Active' = {}
        /\ \A b \in Active' : put'[b].at # "read" =>
             Validated(put'[b].text.set) /\ put'[b].text.rest # ""
        /\ AloneIsAlone'
    BY <1>1, PutEnds
  <1>7. put[a].alone => file = t /\ force' = Forced(file)
    <2> SUFFICES ASSUME put[a].alone PROVE file = t /\ force' = Forced(file)
      OBVIOUS
    <2>1. file = t /\ force.weights = t.set.weights /\ force.thresholds = t.set.thresholds
      BY <1>1, <1>2 DEF SettingsInv, TextTaken
    <2> QED BY <1>4, <2>1 DEF Forced, Givens
  <1>8. OnlyValidated'
    BY <1>1, <1>2, <1>3, <1>4, <1>5, <1>6
      DEF SettingsInv, OnlyValidated, Texts, Givens, Versions, PutRequests
  <1>9. TextTaken'
    <2>1. \A b \in Active' : ~put'[b].alone
      BY <1>2, <1>6 DEF SettingsInv, AloneIsAlone
    <2> QED BY <2>1 DEF TextTaken
  <1>10. FileInForce'
    <2> SUFFICES ASSUME ~split' PROVE file' # Torn /\ force' = Forced(file')
      BY DEF FileInForce, Forced
    <2>1. put[a].alone BY <1>1, <1>2 DEF SettingsInv, AloneIsAlone
    <2> QED BY <1>1, <1>2, <1>7, <2>1, TornIsNoText
  <1>11. VersionsGrow'
    <2> SUFFICES ASSUME ~overlap PROVE VersionsGrow'
      BY <1>1 DEF VersionsGrow
    <2>1. put[a].alone BY <1>2 DEF SettingsInv, AloneIsAlone
    <2>2. /\ \A x \in given : force.version = x.version \/ Later(force.version, x.version)
          /\ \A x, y \in given : x.version = y.version => x = y
          /\ Later(t.version, force.version)
      BY <1>2 DEF SettingsInv, VersionsGrow
    <2>3. /\ t.version \in Nat \X Nat /\ force.version \in Nat \X Nat
          /\ \A x \in given : x.version \in Nat \X Nat
      BY <1>2, <1>3, VersionsAreNat DEF Givens
    <2>4. \A x \in given : Later(t.version, x.version) /\ t.version # x.version
      BY <2>2, <2>3, LaterIsAnOrder
    <2>5. \A x, y \in given' : x.version = y.version => x = y
      <3> SUFFICES ASSUME NEW x \in given', NEW y \in given', x.version = y.version PROVE x = y
        OBVIOUS
      <3>1. CASE x \in given /\ y \in given BY <2>2, <3>1
      <3>2. CASE x = force' \/ y = force'
        <4>1. \A z \in given : z.version # force'.version BY <1>4, <2>4
        <4> QED BY <1>1, <3>2, <4>1
      <3> QED BY <1>1, <3>1, <3>2
    <2>6. \A x \in given' : force'.version = x.version \/ Later(force'.version, x.version)
      BY <1>1, <1>4, <2>4
    <2>7. file'.version = force'.version /\ Forced(file') \in given'
      BY <1>1, <1>4, <1>7, <2>1
    <2> QED BY <1>6, <2>1, <2>5, <2>6, <2>7 DEF VersionsGrow, Forced
  <1>12. WholeText'
    <2>1. \A b \in Active : put[b].at = "write" => b \in Active' BY <1>1, <1>6
    <2> QED BY <1>1, <1>6, <2>1 DEF SettingsInv, WholeText
  <1> QED BY <1>6, <1>8, <1>9, <1>10, <1>11, <1>12 DEF SettingsInv

LEMMA DiesKeeps ==
  ASSUME SettingsInv, ProcessDies
  PROVE  SettingsInv'
  <1>1. /\ ~running' /\ put' = [a \in Admins |-> Done] /\ breaks' = breaks + 1
        /\ UNCHANGED <<month, file, force, given, overlap, split>>
    BY DEF ProcessDies
  <1>2. Active' = {} BY <1>1 DEF Active
  <1>3. breaks' \in Nat /\ breaks' # 0
    <2>1. breaks \in Nat BY DEF SettingsInv, OnlyValidated
    <2> QED BY <1>1, <2>1
  <1>4. OnlyValidated'
    BY <1>1, <1>2, <1>3 DEF SettingsInv, OnlyValidated, Texts, Givens, Versions, PutRequests
  <1>5. AloneIsAlone' /\ TextTaken' /\ FileInForce' /\ WholeText'
    BY <1>1, <1>2, <1>3 DEF AloneIsAlone, TextTaken, FileInForce, WholeText
  <1>6. VersionsGrow' BY <1>1, <1>2 DEF SettingsInv, VersionsGrow, Forced
  <1> QED BY <1>4, <1>5, <1>6 DEF SettingsInv

LEMMA StartKeeps ==
  ASSUME SettingsInv, Start
  PROVE  SettingsInv'
  <1>1. /\ ~running /\ file.rest \notin {"torn", "tail"} /\ running' /\ split' = FALSE
        /\ force' = Forced(file) /\ given' = given \cup {force'}
        /\ UNCHANGED <<month, file, put, overlap, breaks>>
    BY DEF Start, Forced
  <1>2. Active = {} /\ Active' = {} BY <1>1 DEF SettingsInv, OnlyValidated, Active
  <1>3. file # Torn /\ file \in Texts /\ Validated(file.set)
    BY <1>1, TornIsNoText DEF SettingsInv, OnlyValidated
  <1>4. /\ force' \in Givens /\ force'.version = file.version
        /\ force'.weights = file.set.weights /\ force'.thresholds = file.set.thresholds
    BY <1>1, <1>3 DEF Forced, Givens, Texts, RiskSets
  <1>5. Validated(force') BY <1>3, <1>4, PiecesAreValid
  <1>6. OnlyValidated'
    BY <1>1, <1>2, <1>3, <1>4, <1>5
      DEF SettingsInv, OnlyValidated, Texts, Givens, Versions, PutRequests
  <1>7. AloneIsAlone' /\ TextTaken' BY <1>2 DEF AloneIsAlone, TextTaken
  <1>8. FileInForce' BY <1>1, <1>3 DEF FileInForce, Forced
  <1>9. VersionsGrow'
    <2> SUFFICES ASSUME ~overlap PROVE VersionsGrow'
      BY <1>1 DEF VersionsGrow
    <2>1. /\ \A x \in given : force.version = x.version \/ Later(force.version, x.version)
          /\ \A x, y \in given : x.version = y.version => x = y
          /\ \/ Later(file.version, force.version)
             \/ file.version = force.version /\ Forced(file) \in given
      BY <1>3 DEF SettingsInv, VersionsGrow
    <2>2. /\ file.version \in Nat \X Nat /\ force.version \in Nat \X Nat
          /\ \A x \in given : x.version \in Nat \X Nat
      BY <1>3, VersionsAreNat DEF SettingsInv, OnlyValidated, Givens, Texts
    <2>3. CASE Later(file.version, force.version)
      <3>1. \A x \in given : Later(file.version, x.version) /\ file.version # x.version
        BY <2>1, <2>2, <2>3, LaterIsAnOrder
      <3>2. /\ \A x, y \in given' : x.version = y.version => x = y
            /\ \A x \in given' : force'.version = x.version \/ Later(force'.version, x.version)
        BY <1>1, <1>4, <2>1, <3>1
      <3> QED BY <1>1, <1>2, <1>4, <3>2 DEF VersionsGrow, Forced
    <2>4. CASE file.version = force.version /\ Forced(file) \in given
      <3>1. given' = given /\ force'.version = force.version BY <1>1, <1>4, <2>4
      <3> QED BY <1>1, <1>2, <1>4, <2>1, <2>4, <3>1 DEF VersionsGrow, Forced
    <2> QED BY <2>1, <2>3, <2>4
  <1>10. WholeText' BY <1>1, <1>2 DEF SettingsInv, WholeText
  <1> QED BY <1>6, <1>7, <1>8, <1>9, <1>10 DEF SettingsInv

LEMMA MonthKeeps ==
  ASSUME SettingsInv, NewMonth
  PROVE  SettingsInv'
  <1>1. /\ month' = month + 1 /\ month \in Nat \ {0}
        /\ UNCHANGED <<file, force, running, put, given, overlap, split, breaks>>
    BY DEF NewMonth, SettingsInv, OnlyValidated
  <1>2. Versions \subseteq Versions' BY <1>1 DEF Versions
  <1>3. Texts \subseteq Texts' /\ Givens \subseteq Givens' BY <1>2 DEF Texts, Givens
  <1>4. PutRequests \subseteq PutRequests' BY <1>3 DEF PutRequests
  <1>5. OnlyValidated'
    <2>1. OnlyValidated BY DEF SettingsInv
    <2>2. month' \in Nat \ {0} /\ breaks' \in Nat
      <3>1. breaks \in Nat BY <2>1 DEF OnlyValidated
      <3> QED BY <1>1, <3>1
    <2>3. /\ file' = Torn \/ (file' \in Texts' /\ file'.rest # "" /\ Validated(file'.set))
          /\ force' \in Givens' /\ Validated(force') /\ given' \subseteq Givens'
      BY <1>1, <1>3, <2>1 DEF OnlyValidated
    <2>4. put' \in [Admins -> PutRequests' \cup {Done}] BY <1>1, <1>4, <2>1 DEF OnlyValidated
    <2>5. /\ \A a \in Active' : put'[a].at # "read" =>
               Validated(put'[a].text.set) /\ put'[a].text.rest # ""
          /\ ~running' => Active' = {}
      BY <1>1, <2>1 DEF OnlyValidated, Active
    <2> QED BY <2>2, <2>3, <2>4, <2>5 DEF OnlyValidated
  <1>6. AloneIsAlone' /\ TextTaken' /\ FileInForce' /\ VersionsGrow' /\ WholeText'
    BY <1>1 DEF SettingsInv, AloneIsAlone, TextTaken, FileInForce, VersionsGrow, WholeText,
                Active, Forced
  <1> QED BY <1>5, <1>6 DEF SettingsInv

LEMMA SettingsSteps == SettingsInv /\ [SettingsNext]_settingsVars => SettingsInv'
  <1> SUFFICES ASSUME SettingsInv, [SettingsNext]_settingsVars PROVE SettingsInv'
    OBVIOUS
  <1>1. CASE UNCHANGED settingsVars
    BY <1>1 DEF settingsVars, SettingsInv, OnlyValidated, AloneIsAlone, TextTaken, FileInForce,
                VersionsGrow, WholeText, Active, Forced, Texts, Givens, Versions, PutRequests
  <1> QED BY <1>1, ReceiveKeeps, ReadKeeps, OpenKeeps, WriteKeeps, WriteFailsKeeps, TakesKeep,
             TakeVersionKeeps, DiesKeeps, StartKeeps, MonthKeeps DEF SettingsNext

(* What the settings rest on (the inductive invariant): nothing that was not *)
(* validated is written or taken over, a request that is alone has the file  *)
(* to itself, and without an overlap versions only grow.                     *)
THEOREM SettingsInductive == SettingsSpec => []SettingsInv
  <1> QED BY SettingsStart, SettingsSteps, PTL DEF SettingsSpec

(* What is in force has passed the validation at every moment; it is what    *)
(* the file says when nobody is changing it, unless requests overlapped or a *)
(* write failed; without an overlap one version is one set.  For any number  *)
(* of administrators, any sets and any order of deaths and errors.           *)
THEOREM InForceIsValid == SettingsSpec => []SettingsInForce
  <1>1. SettingsInv => SettingsInForce
    <2> SUFFICES ASSUME SettingsInv PROVE SettingsInForce
      OBVIOUS
    <2>1. Validated(force) BY DEF SettingsInv, OnlyValidated
    <2>2. ASSUME \A a \in Admins : put[a] = Done PROVE Active = {} BY <2>2 DEF Active
    <2>3. ASSUME Active = {}, running, ~split
          PROVE  /\ force.weights = file.set.weights /\ force.thresholds = file.set.thresholds
                 /\ force.version = file.version
      <3>1. force = Forced(file) BY <2>3 DEF SettingsInv, FileInForce
      <3> QED BY <3>1 DEF Forced
    <2>4. ~overlap => \A x, y \in given : x.version = y.version => x = y
      BY DEF SettingsInv, VersionsGrow
    <2>5. ASSUME Active = {}, ~overlap, breaks = 0 PROVE file.rest = "whole"
      BY <2>5 DEF SettingsInv, WholeText
    <2> QED BY <2>1, <2>2, <2>3, <2>4, <2>5 DEF SettingsInForce
  <1> QED BY <1>1, SettingsInductive, PTL

(* ---- an audit engagement ------------------------------------------------- *)
LEMMA ThreeStages == Len(Stages) = 3 /\ DOMAIN Stages = 1..3
  BY DEF Stages

LEMMA RowStages ==
  ASSUME NEW k \in 1..4, NEW row \in RowsAt(k)
  PROVE  /\ row.stages = [j \in 1..3 |-> IF j < k THEN "completed"
                                         ELSE IF j = k THEN "in_progress" ELSE "pending"]
         /\ k < 4 => UnderWay(row) = {k}
         /\ k = 4 => UnderWay(row) = {}
  <1>1. row.stages = [j \in 1..3 |-> IF j < k THEN "completed"
                                     ELSE IF j = k THEN "in_progress" ELSE "pending"]
    BY ThreeStages DEF RowsAt
  <1> QED BY <1>1 DEF UnderWay

LEMMA RowStatus ==
  ASSUME NEW k \in 1..4, NEW row \in RowsAt(k)
  PROVE  /\ k < 4 => row.status = "active" /\ row.report = FALSE
         /\ k = 4 => row.status = "completed"
         /\ row.report \in BOOLEAN /\ row.findings \in Seq(Notes)
  <1>1. k \in DOMAIN Stages <=> k < 4 BY ThreeStages
  <1>2. /\ row.status = IF k \in DOMAIN Stages THEN "active" ELSE "completed"
        /\ row.report \in IF k \in DOMAIN Stages THEN {FALSE} ELSE BOOLEAN
        /\ row.findings \in Seq(Notes)
    BY DEF RowsAt
  <1>3. row.report \in BOOLEAN BY <1>2
  <1>4. ASSUME k \in DOMAIN Stages PROVE row.status = "active" /\ row.report = FALSE
    BY <1>2, <1>4
  <1>5. k \notin DOMAIN Stages => row.status = "completed" BY <1>2
  <1>6. k = 4 => ~(k < 4) OBVIOUS
  <1> QED BY <1>1, <1>2, <1>3, <1>4, <1>5, <1>6, Zenon

(* The next stage begins when the one under way is completed.                *)
LEMMA AdvancedRow ==
  ASSUME NEW k \in 1..3, NEW row \in RowsAt(k)
  PROVE  Advanced(row) \in RowsAt(k + 1)
  <1> DEFINE i == CHOOSE i \in UnderWay(row) : \A j \in UnderWay(row) : i <= j
  <1>1. /\ row.stages = [j \in 1..3 |-> IF j < k THEN "completed"
                                        ELSE IF j = k THEN "in_progress" ELSE "pending"]
        /\ row.status = "active" /\ row.report = FALSE
        /\ row.findings \in Seq(Notes) /\ UnderWay(row) = {k}
    <2>1. k \in 1..4 /\ k < 4 OBVIOUS
    <2> QED BY <2>1, RowStages, RowStatus
  <1>2. i = k BY <1>1
  <1> DEFINE stages == [j \in 1..3 |-> IF j = k THEN "completed"
                                       ELSE IF j = k + 1 THEN "in_progress" ELSE row.stages[j]]
             status == IF k < 3 THEN "active" ELSE "completed"
  <1>3. Advanced(row) = [row EXCEPT !.stages = stages, !.status = status]
    BY <1>1, <1>2, ThreeStages DEF Advanced
  <1>4. stages = [j \in 1..3 |-> IF j < k + 1 THEN "completed"
                                 ELSE IF j = k + 1 THEN "in_progress" ELSE "pending"]
    BY <1>1
  <1>5. k + 1 \in DOMAIN Stages <=> k < 3 BY ThreeStages
  <1> HIDE DEF stages
  <1> QED BY <1>1, <1>3, <1>4, <1>5, ThreeStages DEF RowsAt

LEMMA RowWithFinding ==
  ASSUME NEW k \in 1..4, NEW row \in RowsAt(k), NEW note \in Notes
  PROVE  [row EXCEPT !.findings = Append(@, note)] \in RowsAt(k)
  <1>1. row.findings \in Seq(Notes) BY RowStatus
  <1>2. Append(row.findings, note) \in Seq(Notes) BY <1>1
  <1> QED BY <1>2 DEF RowsAt

LEMMA FinalizedRow ==
  ASSUME NEW k \in 1..4, NEW row \in RowsAt(k)
  PROVE  Finalized(row) \in RowsAt(4)
  <1>1. row.findings \in Seq(Notes) BY RowStatus
  <1>4. DOMAIN row.stages = 1..3
    <2>1. row.stages = [j \in 1..3 |-> IF j < k THEN "completed"
                                       ELSE IF j = k THEN "in_progress" ELSE "pending"]
      BY RowStages
    <2> QED BY <2>1
  <1>2. [j \in DOMAIN row.stages |-> "completed"]
          = [j \in 1..3 |-> IF j < 4 THEN "completed"
                            ELSE IF j = 4 THEN "in_progress" ELSE "pending"]
    BY <1>4
  <1>3. 4 \notin DOMAIN Stages BY ThreeStages
  <1> QED BY <1>1, <1>2, <1>3, ThreeStages DEF Finalized, RowsAt

LEMMA CompletedRow ==
  ASSUME NEW k \in 1..4, NEW row \in RowsAt(k)
  PROVE  row.status = "completed" <=> k = 4
  <1>1. k < 4 \/ k = 4 OBVIOUS
  <1> QED BY <1>1, RowStatus

LEMMA EngagementStart == EngagementInit => EngagementInv
  <1> SUFFICES ASSUME EngagementInit PROVE EngagementInv
    OBVIOUS
  <1>1. NewEngagement \in RowsAt(1)
    <2>1. [i \in DOMAIN Stages |-> IF i = 1 THEN "in_progress" ELSE "pending"]
            = [j \in DOMAIN Stages |-> IF j < 1 THEN "completed"
                                       ELSE IF j = 1 THEN "in_progress" ELSE "pending"]
      BY ThreeStages
    <2> QED BY <2>1, ThreeStages DEF NewEngagement, RowsAt
  <1>2. engagement \in Rows BY <1>1, ThreeStages DEF EngagementInit, Rows
  <1> QED BY <1>2 DEF EngagementInit, EngagementInv

LEMMA CallKeeps ==
  ASSUME EngagementInv, NEW k \in Clerks,
         NEW what \in [kind : {"advance", "finalize"}, note : {0}] \cup [kind : {"finding"}, note : Notes],
         Call(k, what)
  PROVE  EngagementInv'
  <1> DEFINE e == [kind |-> what.kind, note |-> what.note, row |-> engagement]
  <1>1. /\ errand' = [errand EXCEPT ![k] = e] /\ UNCHANGED <<engagement, crossed, closed>>
        /\ what.kind = "advance" => UnderWay(engagement) # {}
    BY DEF Call
  <1>2. engagement \in Rows BY DEF EngagementInv
  <1>3. what.kind = "advance" => engagement \in UNION {RowsAt(j) : j \in DOMAIN Stages}
    <2>1. PICK j \in 1..4 : engagement \in RowsAt(j) BY <1>2, ThreeStages DEF Rows
    <2>2. j = 4 => UnderWay(engagement) = {} BY <2>1, RowStages
    <2>3. j # 4 => j \in DOMAIN Stages BY ThreeStages
    <2> QED BY <1>1, <2>1, <2>2, <2>3
  <1>4. e \in Errands
    <2>1. CASE what.kind = "advance" BY <1>2, <1>3, <2>1 DEF Errands
    <2>2. CASE what.kind = "finalize" BY <1>2, <2>2 DEF Errands
    <2>3. CASE what.kind = "finding" BY <1>2, <2>3 DEF Errands
    <2> QED BY <2>1, <2>2, <2>3
  <1> HIDE DEF e
  <1> QED BY <1>1, <1>4 DEF EngagementInv

LEMMA StoreKeeps ==
  ASSUME EngagementInv, NEW k \in Clerks, Store(k)
  PROVE  EngagementInv'
  <1> DEFINE e == errand[k]
  <1>1. /\ e # NoErrand /\ crossed' = (crossed \/ engagement # e.row)
        /\ closed' = (closed \/ engagement'.status = "completed")
        /\ errand' = [errand EXCEPT ![k] = NoErrand]
        /\ engagement' = CASE e.kind = "advance" -> Advanced(e.row)
                           [] e.kind = "finding" -> [e.row EXCEPT !.findings = Append(@, e.note)]
                           [] e.kind = "finalize" -> Finalized(e.row)
    BY DEF Store
  <1>2. e \in Errands BY <1>1 DEF EngagementInv
  <1>3. engagement' \in Rows /\ (e.row.status = "completed" => engagement'.status = "completed")
    <2>1. CASE e.kind = "advance"
      <3>1. PICK j \in 1..3 : e.row \in RowsAt(j) BY <1>2, <2>1, ThreeStages DEF Errands
      <3>2. engagement' = Advanced(e.row) BY <1>1, <2>1
      <3>3. engagement' \in RowsAt(j + 1) BY <3>1, <3>2, AdvancedRow
      <3>4. engagement' \in Rows BY <3>3, ThreeStages DEF Rows
      <3>5. e.row.status # "completed" BY <3>1, CompletedRow
      <3> QED BY <3>4, <3>5
    <2>2. CASE e.kind = "finding"
      <3>1. PICK j \in 1..4 : e.row \in RowsAt(j) BY <1>2, <2>2, ThreeStages DEF Errands, Rows
      <3>2. e.note \in Notes BY <1>2, <2>2 DEF Errands
      <3>3. engagement' = [e.row EXCEPT !.findings = Append(@, e.note)] BY <1>1, <2>2
      <3>4. engagement' \in RowsAt(j) BY <3>1, <3>2, <3>3, RowWithFinding
      <3>5. engagement' \in Rows BY <3>4, ThreeStages DEF Rows
      <3> QED BY <3>1, <3>4, <3>5, CompletedRow
    <2>3. CASE e.kind = "finalize"
      <3>1. PICK j \in 1..4 : e.row \in RowsAt(j) BY <1>2, <2>3, ThreeStages DEF Errands, Rows
      <3>2. engagement' = Finalized(e.row) BY <1>1, <2>3
      <3>3. engagement' \in RowsAt(4) BY <3>1, <3>2, FinalizedRow
      <3> QED BY <3>3, CompletedRow, ThreeStages DEF Rows
    <2> QED BY <1>2, <2>1, <2>2, <2>3 DEF Errands
  <1>4. crossed' \in BOOLEAN /\ closed' \in BOOLEAN BY <1>1 DEF EngagementInv
  <1>5. closed' /\ ~crossed' => engagement'.status = "completed"
    BY <1>1, <1>3 DEF EngagementInv
  <1>6. errand' \in [Clerks -> Errands \cup {NoErrand}] BY <1>1 DEF EngagementInv
  <1> QED BY <1>3, <1>4, <1>5, <1>6 DEF EngagementInv

(* The rows an engagement goes through (the inductive invariant): also the   *)
(* rows that clerks hold are of a story that can have happened.              *)
THEOREM EngagementInductive == EngagementSpec => []EngagementInv
  <1>1. EngagementInv /\ [EngagementNext]_engagementVars => EngagementInv'
    <2>1. EngagementInv /\ UNCHANGED engagementVars => EngagementInv'
      BY DEF engagementVars, EngagementInv
    <2> QED BY <2>1, CallKeeps, StoreKeeps DEF EngagementNext
  <1> QED BY <1>1, EngagementStart, PTL DEF EngagementSpec

(* However the saves of clerks overwrite each other, the row tells a story   *)
(* that can have happened; and without a crossing it is never reopened.      *)
THEOREM EngagementsTellTheirStory == EngagementSpec => []EngagementTellsItsStory
  <1>1. EngagementInv => EngagementTellsItsStory
    <2> SUFFICES ASSUME EngagementInv PROVE EngagementTellsItsStory
      OBVIOUS
    <2>1. PICK k \in 1..4 : engagement \in RowsAt(k)
      BY ThreeStages DEF EngagementInv, Rows
    <2> DEFINE S == engagement.stages
               done == {j \in DOMAIN S : S[j] = "completed"}
    <2>2. /\ S = [j \in 1..3 |-> IF j < k THEN "completed"
                                 ELSE IF j = k THEN "in_progress" ELSE "pending"]
          /\ \/ k < 4 /\ engagement.status = "active" /\ ~engagement.report
                /\ UnderWay(engagement) = {k}
             \/ k = 4 /\ engagement.status = "completed" /\ UnderWay(engagement) = {}
      <3>1. k < 4 \/ k = 4 OBVIOUS
      <3> QED BY <2>1, <3>1, RowStages, RowStatus
    <2>3. \A i, j \in DOMAIN S : i < j => (S[i] = "completed" \/ S[j] = "pending") BY <2>2
    <2>4. Cardinality(UnderWay(engagement)) = IF engagement.status = "active" THEN 1 ELSE 0
      BY <2>2, FS_Singleton, FS_EmptySet
    <2>5. Cardinality(done) = Len(S) <=> k = 4
      <3>1. IsFiniteSet(1..3) /\ Cardinality(1..3) = 3
        <4>1. 1..3 = {1, 2, 3} /\ {1, 2, 3} = ({1} \cup {2}) \cup {3} OBVIOUS
        <4>2. IsFiniteSet({1}) /\ Cardinality({1}) = 1 BY FS_Singleton
        <4>3. IsFiniteSet({1} \cup {2}) /\ Cardinality({1} \cup {2}) = 2 BY <4>2, FS_AddElement
        <4>4. 3 \notin {1} \cup {2} OBVIOUS
        <4>5. /\ IsFiniteSet(({1} \cup {2}) \cup {3})
              /\ Cardinality(({1} \cup {2}) \cup {3}) = 2 + 1
          BY <4>3, <4>4, FS_AddElement, Zenon
        <4> QED BY <4>1, <4>5
      <3>2. done \in SUBSET (1..3) /\ (done = 1..3 <=> k = 4) BY <2>2
      <3>3. Cardinality(done) = 3 <=> done = 1..3 BY <3>1, <3>2, FS_Subset
      <3>4. Len(S) = 3
        <4>1. \A j \in 1..3 : S[j] \in {"completed", "in_progress", "pending"} BY <2>2
        <4>2. DOMAIN S = 1..3 /\ S = [j \in 1..3 |-> S[j]] BY <2>2
        <4>3. S \in Seq({"completed", "in_progress", "pending"}) BY <4>1, <4>2
        <4> QED BY <4>2, <4>3
      <3> QED BY <3>2, <3>3, <3>4
    <2>6. ExportReport(engagement).completed = Cardinality(done)
          /\ ExportReport(engagement).total = Len(S)
      BY DEF ExportReport
    <2>7. engagement.status = "completed"
            <=> ExportReport(engagement).completed = ExportReport(engagement).total
      BY <2>2, <2>5, <2>6
    <2>8. /\ engagement.report => engagement.status = "completed"
          /\ closed /\ ~crossed => engagement.status = "completed"
      BY <2>2 DEF EngagementInv
    <2> QED BY <2>3, <2>4, <2>7, <2>8 DEF EngagementTellsItsStory
  <1> QED BY <1>1, EngagementInductive, PTL

(* ---- the work of the analysts on the cards ------------------------------- *)
LEMMA CardFields ==
  DOMAIN NewCard = {"status", "decisions", "permits", "records", "editions", "attempts", "audit"}
  BY DEF NewCard

LEMMA ListFacts ==
  ASSUME NEW s, IsList(s)
  PROVE  Len(s) \in Nat /\ DOMAIN s = 1..Len(s) /\ (s = <<>> <=> Len(s) = 0)
  BY DEF IsList

LEMMA Appended ==
  ASSUME NEW s, NEW x, IsList(s)
  PROVE  /\ IsList(Append(s, x)) /\ Len(Append(s, x)) = Len(s) + 1
         /\ DOMAIN Append(s, x) = 1..(Len(s) + 1)
         /\ \A i \in 1..Len(s) : Append(s, x)[i] = s[i]
         /\ Append(s, x)[Len(s) + 1] = x /\ Append(s, x) # <<>>
  <1> DEFINE S == {s[i] : i \in DOMAIN s} \cup {x}
             r == Append(s, x)
  <1>1. s \in Seq({s[i] : i \in DOMAIN s}) BY DEF IsList
  <1>2. DOMAIN s = 1..Len(s) /\ Len(s) \in Nat BY <1>1
  <1>3. s \in Seq(S) BY <1>1
  <1> HIDE DEF S
  <1>4. x \in S BY DEF S
  <1>5. /\ r \in Seq(S) /\ Len(r) = Len(s) + 1 /\ DOMAIN r = 1..(Len(s) + 1)
        /\ \A i \in 1..Len(s) : r[i] = s[i]
        /\ r[Len(s) + 1] = x
    BY <1>2, <1>3, <1>4
  <1>6. r \in Seq({r[i] : i \in DOMAIN r})
    <2>1. \A i \in 1..Len(r) : r[i] \in {r[j] : j \in DOMAIN r} BY <1>2, <1>5
    <2> HIDE DEF r
    <2>2. r = [i \in 1..Len(r) |-> r[i]] /\ Len(r) \in Nat BY <1>2, <1>5
    <2> QED BY <2>1, <2>2
  <1>7. r # <<>> BY <1>2, <1>5
  <1> QED BY <1>5, <1>6, <1>7 DEF IsList

LEMMA LinesOf ==
  ASSUME NEW s, NEW x, IsList(s), NEW what
  PROVE  /\ LinesAbout(s, what) \in Nat
         /\ LinesAbout(Append(s, x), what) = LinesAbout(s, what) + (IF x.what = what THEN 1 ELSE 0)
  <1> DEFINE r == Append(s, x)
             L == {i \in DOMAIN s : s[i].what = what}
             M == {i \in DOMAIN r : r[i].what = what}
  <1>1. Len(s) \in Nat /\ DOMAIN s = 1..Len(s) BY ListFacts
  <1>2. /\ DOMAIN r = 1..(Len(s) + 1) /\ r[Len(s) + 1] = x
        /\ \A i \in 1..Len(s) : r[i] = s[i]
    BY Appended
  <1>3. IsFiniteSet(L)
    <2>1. IsFiniteSet(1..Len(s)) BY <1>1, FS_Interval
    <2> QED BY <1>1, <2>1, FS_Subset
  <1>4. M = IF x.what = what THEN L \cup {Len(s) + 1} ELSE L
    <2> HIDE DEF r
    <2> QED BY <1>1, <1>2
  <1>5. Len(s) + 1 \notin L BY <1>1
  <1>6. Cardinality(L) \in Nat BY <1>3, FS_CardinalityType
  <1>7. Cardinality(M) = Cardinality(L) + (IF x.what = what THEN 1 ELSE 0)
    <2> HIDE DEF L, M
    <2>1. Cardinality(L \cup {Len(s) + 1}) = Cardinality(L) + 1 BY <1>3, <1>5, FS_AddElement
    <2>2. CASE x.what = what BY <1>4, <2>1, <2>2
    <2>3. CASE x.what # what BY <1>4, <1>6, <2>3
    <2> QED BY <2>2, <2>3
  <1> QED BY <1>6, <1>7 DEF LinesAbout

(* A line is added to the log of a card, and nothing else changes.           *)
IsLogged(card, w, what) == w = Logged(card, what, TRUE) \/ w = Logged(card, what, FALSE)

LEMMA LoggedLines ==
  ASSUME NEW card, IsCard(card), NEW what, NEW w, IsLogged(card, w, what)
  PROVE  /\ DOMAIN w = DOMAIN NewCard /\ IsList(w.audit)
         /\ \A f \in DOMAIN NewCard \ {"audit"} : w[f] = card[f]
         /\ \A x : LinesAbout(card.audit, x) \in Nat
         /\ \A x : x # what => LinesAbout(w.audit, x) = LinesAbout(card.audit, x)
         /\ LinesAbout(w.audit, what) = LinesAbout(card.audit, what) + 1
  <1>1. DOMAIN card = DOMAIN NewCard /\ IsList(card.audit) BY CardFields DEF IsCard
  <1>2. PICK line \in {[what |-> what, actor |-> TRUE], [what |-> what, actor |-> FALSE]} :
          w = [card EXCEPT !.audit = Append(card.audit, line)]
    BY DEF Logged, IsLogged
  <1>3. /\ DOMAIN w = DOMAIN NewCard /\ w.audit = Append(card.audit, line)
        /\ \A f \in DOMAIN NewCard \ {"audit"} : w[f] = card[f]
    BY <1>1, <1>2, CardFields
  <1>4. line.what = what OBVIOUS
  <1>5. IsList(w.audit) BY <1>1, <1>3, Appended
  <1>6. ASSUME NEW x
        PROVE  /\ LinesAbout(card.audit, x) \in Nat
               /\ LinesAbout(w.audit, x) = LinesAbout(card.audit, x) + (IF line.what = x THEN 1 ELSE 0)
    BY <1>1, <1>3, LinesOf
  <1>7. \A x : x # what => LinesAbout(w.audit, x) = LinesAbout(card.audit, x) BY <1>4, <1>6
  <1>8. LinesAbout(w.audit, what) = LinesAbout(card.audit, what) + 1 BY <1>4, <1>6
  <1> QED BY <1>3, <1>5, <1>6, <1>7, <1>8

LEMMA LoggedKeeps ==
  ASSUME NEW card, IsCard(card), NEW what, NEW w, IsLogged(card, w, what)
  PROVE  /\ IsCard(w) /\ (LastWord(card) => LastWord(w))
         /\ DecisionsChain(card) => DecisionsChain(w)
         /\ VerdictsChain(card) => VerdictsChain(w)
         /\ w.status = card.status /\ w.decisions = card.decisions /\ w.permits = card.permits
         /\ w.records = card.records /\ w.editions = card.editions /\ w.attempts = card.attempts
  <1>1. /\ DOMAIN w = DOMAIN NewCard /\ IsList(w.audit)
        /\ \A f \in DOMAIN NewCard \ {"audit"} : w[f] = card[f]
    BY LoggedLines
  <1>2. /\ w.status = card.status /\ w.decisions = card.decisions /\ w.permits = card.permits
        /\ w.records = card.records /\ w.editions = card.editions /\ w.attempts = card.attempts
    BY <1>1, CardFields
  <1>3. IsCard(w)
    <2>1. \A f \in DOMAIN NewCard \ {"status"} : IsList(w[f])
      <3> SUFFICES ASSUME NEW f \in DOMAIN NewCard \ {"status"} PROVE IsList(w[f])
        OBVIOUS
      <3>1. CASE f = "audit" BY <1>1, <3>1
      <3>2. CASE f # "audit" BY <1>1, <3>2 DEF IsCard
      <3> QED BY <3>1, <3>2
    <2> QED BY <1>1, <1>2, <2>1 DEF IsCard
  <1>4. LastWord(card) => LastWord(w) BY <1>2 DEF LastWord
  <1>5. DecisionsChain(card) => DecisionsChain(w) BY <1>2 DEF DecisionsChain
  <1>6. VerdictsChain(card) => VerdictsChain(w) BY <1>2 DEF VerdictsChain
  <1> QED BY <1>2, <1>3, <1>4, <1>5, <1>6

(* A line about something that is not counted.                               *)
LEMMA OtherLine ==
  ASSUME NEW card, CardIsTold(card), NEW what, NEW w, IsLogged(card, w, what),
         what \in {"baseline", "remediation", "recheck", "bundle"}
  PROVE  CardIsTold(w) /\ w.editions = card.editions
  <1>1. IsCard(card) /\ LastWord(card) /\ TellsItsStory(card) BY DEF CardIsTold
  <1>2. /\ IsCard(w) /\ LastWord(w) /\ (DecisionsChain(card) => DecisionsChain(w))
        /\ VerdictsChain(card) => VerdictsChain(w)
        /\ w.decisions = card.decisions /\ w.permits = card.permits
        /\ w.records = card.records /\ w.editions = card.editions
    BY <1>1, LoggedKeeps
  <1>3. \A x : x # what => LinesAbout(w.audit, x) = LinesAbout(card.audit, x)
    BY <1>1, LoggedLines
  <1>4. TellsItsStory(w) BY <1>1, <1>2, <1>3 DEF TellsItsStory
  <1> QED BY <1>2, <1>4 DEF CardIsTold

(* A field of a card that is a list is set to another list.                  *)
LEMMA SetField ==
  ASSUME NEW card, IsCard(card), NEW s, IsList(s)
  PROVE  /\ IsCard([card EXCEPT !.permits = s]) /\ IsCard([card EXCEPT !.records = s])
         /\ IsCard([card EXCEPT !.attempts = s])
         /\ \A to : IsCard([card EXCEPT !.status = to, !.decisions = s])
  BY CardFields DEF IsCard

(* What a handler makes of a card: every edition keeps its text, and only    *)
(* the one that was asked for is newly approved.                             *)
EditionsStay(cmd, card, w) ==
  /\ \A i \in DOMAIN card.editions :
       i \in DOMAIN w.editions /\ w.editions[i].text = card.editions[i].text
  /\ \A i \in DOMAIN w.editions :
       w.editions[i].approved => \/ i \in DOMAIN card.editions /\ card.editions[i].approved
                                 \/ cmd.kind = "approve" /\ i = cmd.version

LEMMA DecisionTold ==
  ASSUME NEW card, CardIsTold(card), NEW facts, NEW to, CanTransition(card.status, to)
  PROVE  LET w == SubmitDecision(facts, card, to) IN CardIsTold(w) /\ w.editions = card.editions
  <1> DEFINE new == [from |-> card.status, to |-> to]
             d == [card EXCEPT !.status = to, !.decisions = Append(card.decisions, new)]
             one == Logged(d, "decision", TRUE)
             w == SubmitDecision(facts, card, to)
             n == Len(card.decisions)
  <1>1. IsCard(card) /\ LastWord(card) /\ TellsItsStory(card) BY DEF CardIsTold
  <1>2. IsList(card.decisions) /\ DOMAIN card = DOMAIN NewCard BY <1>1, CardFields DEF IsCard
  <1>3. /\ IsList(Append(card.decisions, new)) /\ n \in Nat /\ DOMAIN card.decisions = 1..n
        /\ Len(Append(card.decisions, new)) = n + 1 /\ DOMAIN Append(card.decisions, new) = 1..(n + 1)
        /\ \A i \in 1..n : Append(card.decisions, new)[i] = card.decisions[i]
        /\ Append(card.decisions, new)[n + 1] = new /\ Append(card.decisions, new) # <<>>
        /\ (card.decisions = <<>> <=> n = 0)
    <2> HIDE DEF new
    <2> QED BY <1>2, Appended, ListFacts
  <1>4. /\ d.status = to /\ d.decisions = Append(card.decisions, new) /\ d.permits = card.permits
        /\ d.records = card.records /\ d.editions = card.editions /\ d.audit = card.audit
    BY <1>2, CardFields
  <1>5. IsCard(d) BY <1>1, <1>3, SetField
  <1>6. w = one \/ w = Logged(one, "baseline", FALSE) BY DEF SubmitDecision
  <1>7. new.from = card.status /\ new.to = to OBVIOUS
  <1>14. IsLogged(d, one, "decision") BY DEF IsLogged
  <1> HIDE DEF new, d, one, w
  <1>8. DecisionsChain(d)
    <2>1. DecisionsChain(card) BY <1>1 DEF TellsItsStory
    <2>2. card.status = IF n = 0 THEN "NEW" ELSE card.decisions[n].to
      BY <1>3, <2>1 DEF DecisionsChain
    <2>3. ASSUME NEW i \in 1..(n + 1)
          PROVE  /\ CanTransition(d.decisions[i].from, d.decisions[i].to)
                 /\ d.decisions[i].from = IF i = 1 THEN "NEW" ELSE d.decisions[i - 1].to
      <3>1. CASE i = n + 1
        <4>1. d.decisions[i] = new BY <1>3, <1>4, <3>1
        <4>2. n # 0 => d.decisions[n] = card.decisions[n] BY <1>3, <1>4
        <4> QED BY <1>3, <1>7, <2>2, <3>1, <4>1, <4>2
      <3>2. CASE i \in 1..n
        <4>1. d.decisions[i] = card.decisions[i] BY <1>3, <1>4, <3>2
        <4>2. i # 1 => d.decisions[i - 1] = card.decisions[i - 1] BY <1>3, <1>4, <3>2
        <4> QED BY <1>3, <2>1, <3>2, <4>1, <4>2 DEF DecisionsChain
      <3> QED BY <1>3, <3>1, <3>2
    <2>4. d.status = d.decisions[Len(d.decisions)].to BY <1>3, <1>4, <1>7
    <2> QED BY <1>3, <1>4, <2>3, <2>4 DEF DecisionsChain
  <1>9. LastWord(d) /\ VerdictsChain(d)
    BY <1>1, <1>4 DEF LastWord, TellsItsStory, VerdictsChain
  <1>10. /\ IsCard(one) /\ LastWord(one) /\ DecisionsChain(one) /\ VerdictsChain(one)
         /\ one.decisions = d.decisions /\ one.permits = card.permits
         /\ one.records = card.records /\ one.editions = card.editions
    BY <1>4, <1>5, <1>8, <1>9, <1>14, LoggedKeeps
  <1>11. /\ \A x : x # "decision" => LinesAbout(one.audit, x) = LinesAbout(card.audit, x)
         /\ LinesAbout(one.audit, "decision") = LinesAbout(card.audit, "decision") + 1
    BY <1>4, <1>5, <1>14, LoggedLines
  <1>12. TellsItsStory(one) BY <1>1, <1>3, <1>4, <1>10, <1>11 DEF TellsItsStory
  <1>13. CardIsTold(one) BY <1>10, <1>12 DEF CardIsTold
  <1>15. CASE w = Logged(one, "baseline", FALSE)
    <2>1. "baseline" \in {"baseline", "remediation", "recheck", "bundle"} OBVIOUS
    <2>2. IsLogged(one, w, "baseline") BY <1>15 DEF IsLogged
    <2>3. CardIsTold(w) /\ w.editions = one.editions BY <1>13, <2>1, <2>2, OtherLine
    <2> QED BY <1>10, <2>3 DEF w
  <1> QED BY <1>6, <1>10, <1>13, <1>15 DEF w

(* The verdict in force is what the newest record says, unless that one      *)
(* belongs to a permit that was attached to a confirmed verdict.             *)
LEMMA RecordJoinsChain ==
  ASSUME NEW card, CardIsTold(card), NEW x, x.prev = ForensicVerdict(card),
         NEW w, w.records = Append(card.records, x)
  PROVE  VerdictsChain(w)
  <1> DEFINE R == card.records
             n == Len(R)
  <1>1. IsList(R) /\ LastWord(card) /\ VerdictsChain(card)
    BY CardFields DEF CardIsTold, IsCard, TellsItsStory
  <1>2. /\ n \in Nat /\ DOMAIN R = 1..n /\ (R = <<>> <=> n = 0)
        /\ DOMAIN w.records = 1..(n + 1) /\ w.records[n + 1] = x
        /\ \A i \in 1..n : w.records[i] = R[i]
    BY <1>1, ListFacts, Appended
  <1> DEFINE over(s, i) == i > 2 /\ s[i - 1].source = "permit" /\ s[i - 2].source = "operator"
  <1>3. SUFFICES ASSUME NEW i \in 1..(n + 1)
                 PROVE  \/ over(w.records, i)
                        \/ w.records[i].prev = (IF i = 1 THEN "UNDET" ELSE w.records[i - 1].next)
    BY <1>2 DEF VerdictsChain
  <1>4. CASE i \in 1..n
    <2>1. over(R, i) \/ R[i].prev = (IF i = 1 THEN "UNDET" ELSE R[i - 1].next)
      BY <1>1, <1>2, <1>4 DEF VerdictsChain
    <2>2. w.records[i] = R[i] /\ (i # 1 => w.records[i - 1] = R[i - 1])
          /\ (i > 2 => w.records[i - 2] = R[i - 2])
      BY <1>2, <1>4
    <2> QED BY <1>2, <1>4, <2>1, <2>2
  <1>5. CASE i = n + 1 /\ n = 0
    <2>1. ForensicVerdict(card) = "UNDET"
      BY <1>1, <1>2, <1>5 DEF ForensicVerdict, Confirmed, LastWord
    <2> QED BY <1>2, <1>5, <2>1
  <1>6. CASE i = n + 1 /\ n # 0
    <2>1. w.records[n] = R[n] /\ (n > 1 => w.records[n - 1] = R[n - 1]) BY <1>2, <1>6
    <2>2. CASE R[n].source = "operator"
      <3>1. ForensicVerdict(card) = R[n].next BY <1>2, <1>6, <2>2 DEF ForensicVerdict, Confirmed
      <3> QED BY <1>2, <1>6, <2>1, <3>1
    <2>3. CASE R[n].source = "permit" /\ n > 1 /\ R[n - 1].source = "operator"
      BY <1>2, <1>6, <2>1, <2>3
    <2>4. CASE R[n].source = "permit" /\ card.permits # <<>>
               /\ R[n].next = card.permits[Len(card.permits)].verdict
      <3>1. ForensicVerdict(card) = R[n].next BY <1>2, <1>6, <2>4 DEF ForensicVerdict, Confirmed
      <3> QED BY <1>2, <1>6, <2>1, <3>1
    <2> QED BY <1>1, <1>2, <1>6, <2>2, <2>3, <2>4 DEF LastWord
  <1> QED BY <1>2, <1>4, <1>5, <1>6

LEMMA PermitTold ==
  ASSUME NEW card, CardIsTold(card), NEW facts, NEW permit, NEW w, w = AttachPermit(facts, card, permit)
  PROVE  CardIsTold(w) /\ w.editions = card.editions
  <1> DEFINE p == PermitVerdict(facts, permit)
             P == Append(card.permits, p)
             attached == [card EXCEPT !.permits = P]
             x == [prev |-> ForensicVerdict(card), next |-> ForensicVerdict(attached),
                   source |-> "permit"]
             R == Append(card.records, x)
             recorded == [attached EXCEPT !.records = R]
             one == Logged(recorded, "permit", TRUE)
             n == Len(card.records)
  <1>1. IsCard(card) /\ LastWord(card) /\ TellsItsStory(card) BY DEF CardIsTold
  <1>2. /\ IsList(card.permits) /\ IsList(card.records) /\ DOMAIN card = DOMAIN NewCard
    BY <1>1, CardFields DEF IsCard
  <1>3. w = Logged(one, "verdict", TRUE) BY DEF AttachPermit
  <1>4. x.prev = ForensicVerdict(card) /\ x.next = ForensicVerdict(attached) /\ x.source = "permit"
    OBVIOUS
  <1> HIDE DEF p, x
  <1>5. /\ IsList(P) /\ Len(P) = Len(card.permits) + 1 /\ P # <<>>
        /\ P[Len(card.permits) + 1] = p
    BY <1>2, Appended
  <1>6. /\ IsList(R) /\ Len(R) = n + 1 /\ n \in Nat /\ R[n + 1] = x
        /\ \A i \in 1..n : R[i] = card.records[i]
        /\ (card.records = <<>> <=> n = 0)
    BY <1>2, Appended, ListFacts
  <1> HIDE DEF P, R
  <1>7. /\ IsCard(attached) /\ attached.records = card.records /\ attached.permits = P
    BY <1>1, <1>2, <1>5, SetField, CardFields
  <1>8. /\ IsCard(recorded) /\ recorded.records = R /\ recorded.permits = P
        /\ recorded.status = card.status /\ recorded.decisions = card.decisions
        /\ recorded.editions = card.editions /\ recorded.audit = card.audit
    <2>1. IsCard(recorded) BY <1>6, <1>7, SetField
    <2>2. DOMAIN attached = DOMAIN NewCard BY <1>2
    <2> QED BY <1>2, <2>1, <2>2, CardFields
  <1>9. LastWord(recorded)
    <2>1. \/ n # 0 /\ card.records[n].source = "operator"
          \/ x.next = P[Len(P)].verdict
      <3>1. CASE Confirmed(card) BY <1>6, <3>1 DEF Confirmed
      <3>2. CASE ~Confirmed(card)
        <4>1. ~Confirmed(attached) BY <1>7, <3>2 DEF Confirmed
        <4> QED BY <1>4, <1>5, <1>7, <4>1 DEF ForensicVerdict
      <3> QED BY <3>1, <3>2
    <2>2. Len(recorded.records) = n + 1 /\ recorded.records[n + 1].source = "permit"
          /\ recorded.records[n + 1].next = x.next /\ recorded.permits = P
      BY <1>4, <1>6, <1>8
    <2>3. n # 0 /\ card.records[n].source = "operator"
            => n + 1 > 1 /\ recorded.records[(n + 1) - 1].source = "operator"
      BY <1>6, <1>8
    <2>4. n + 1 # 0 BY <1>6
    <2> HIDE DEF recorded, attached
    <2> QED BY <1>5, <2>1, <2>2, <2>3, <2>4 DEF LastWord
  <1> HIDE DEF attached, recorded
  <1>10. DecisionsChain(recorded) /\ VerdictsChain(recorded)
    <2>1. VerdictsChain(recorded) BY <1>4, <1>8, RecordJoinsChain DEF R
    <2> QED BY <1>1, <1>8, <2>1 DEF TellsItsStory, DecisionsChain
  <1>11. IsLogged(recorded, one, "permit") BY DEF IsLogged
  <1>12. IsLogged(one, w, "verdict") BY <1>3 DEF IsLogged
  <1> HIDE DEF one
  <1>13. /\ IsCard(one) /\ LastWord(one) /\ DecisionsChain(one) /\ VerdictsChain(one)
         /\ one.decisions = card.decisions /\ one.permits = P
         /\ one.records = R /\ one.editions = card.editions
    BY <1>8, <1>9, <1>10, <1>11, LoggedKeeps
  <1>14. /\ \A y : y # "permit" => LinesAbout(one.audit, y) = LinesAbout(card.audit, y)
         /\ LinesAbout(one.audit, "permit") = LinesAbout(card.audit, "permit") + 1
    BY <1>8, <1>11, LoggedLines
  <1>15. /\ IsCard(w) /\ LastWord(w) /\ DecisionsChain(w) /\ VerdictsChain(w)
         /\ w.decisions = card.decisions /\ w.permits = P
         /\ w.records = R /\ w.editions = card.editions
    BY <1>12, <1>13, LoggedKeeps
  <1>16. /\ \A y : y # "verdict" => LinesAbout(w.audit, y) = LinesAbout(one.audit, y)
         /\ LinesAbout(w.audit, "verdict") = LinesAbout(one.audit, "verdict") + 1
    BY <1>12, <1>13, LoggedLines
  <1>17. TellsItsStory(w) BY <1>1, <1>5, <1>6, <1>14, <1>15, <1>16 DEF TellsItsStory
  <1> QED BY <1>15, <1>17 DEF CardIsTold

LEMMA VerdictTold ==
  ASSUME NEW card, CardIsTold(card), NEW verdict, NEW w, w = ConfirmVerdict(card, verdict)
  PROVE  CardIsTold(w) /\ w.editions = card.editions
  <1> DEFINE x == [prev |-> ForensicVerdict(card), next |-> verdict, source |-> "operator"]
             R == Append(card.records, x)
             d == [card EXCEPT !.records = R]
             one == Logged(d, "verdict", TRUE)
             n == Len(card.records)
  <1>1. IsCard(card) /\ LastWord(card) /\ TellsItsStory(card) BY DEF CardIsTold
  <1>2. IsList(card.records) /\ DOMAIN card = DOMAIN NewCard BY <1>1, CardFields DEF IsCard
  <1>3. w = Logged(one, "confirmation", TRUE) BY DEF ConfirmVerdict
  <1>4. x.prev = ForensicVerdict(card) /\ x.source = "operator" OBVIOUS
  <1> HIDE DEF x
  <1>5. IsList(R) /\ Len(R) = n + 1 /\ n \in Nat /\ R[n + 1] = x BY <1>2, Appended, ListFacts
  <1> HIDE DEF R
  <1>6. /\ IsCard(d) /\ d.records = R /\ d.permits = card.permits
        /\ d.status = card.status /\ d.decisions = card.decisions
        /\ d.editions = card.editions /\ d.audit = card.audit
    BY <1>1, <1>2, <1>5, SetField, CardFields
  <1> HIDE DEF d
  <1>7. LastWord(d) BY <1>4, <1>5, <1>6 DEF LastWord
  <1>8. VerdictsChain(d) BY <1>4, <1>6, RecordJoinsChain DEF R
  <1>9. DecisionsChain(d) BY <1>1, <1>6 DEF TellsItsStory, DecisionsChain
  <1>10. IsLogged(d, one, "verdict") BY DEF IsLogged
  <1>11. IsLogged(one, w, "confirmation") BY <1>3 DEF IsLogged
  <1> HIDE DEF one
  <1>12. /\ IsCard(one) /\ LastWord(one) /\ DecisionsChain(one) /\ VerdictsChain(one)
         /\ one.decisions = card.decisions /\ one.permits = card.permits
         /\ one.records = R /\ one.editions = card.editions
    BY <1>6, <1>7, <1>8, <1>9, <1>10, LoggedKeeps
  <1>13. /\ \A y : y # "verdict" => LinesAbout(one.audit, y) = LinesAbout(card.audit, y)
         /\ LinesAbout(one.audit, "verdict") = LinesAbout(card.audit, "verdict") + 1
    BY <1>6, <1>10, LoggedLines
  <1>14. /\ IsCard(w) /\ LastWord(w) /\ DecisionsChain(w) /\ VerdictsChain(w)
         /\ w.decisions = card.decisions /\ w.permits = card.permits
         /\ w.records = R /\ w.editions = card.editions
    BY <1>11, <1>12, LoggedKeeps
  <1>15. \A y : y # "confirmation" => LinesAbout(w.audit, y) = LinesAbout(one.audit, y)
    BY <1>11, <1>12, LoggedLines
  <1>16. TellsItsStory(w) BY <1>1, <1>5, <1>13, <1>14, <1>15 DEF TellsItsStory
  <1> QED BY <1>14, <1>16 DEF CardIsTold

LEMMA ApprovedOf ==
  ASSUME NEW card, IsCard(card)
  PROVE  /\ IsFiniteSet({i \in DOMAIN card.editions : card.editions[i].approved})
         /\ Cardinality({i \in DOMAIN card.editions : card.editions[i].approved}) \in Nat
  <1>1. IsList(card.editions) BY CardFields DEF IsCard
  <1>2. DOMAIN card.editions = 1..Len(card.editions) /\ Len(card.editions) \in Nat
    BY <1>1, ListFacts
  <1>3. IsFiniteSet(1..Len(card.editions)) BY <1>2, FS_Interval
  <1>4. IsFiniteSet({i \in DOMAIN card.editions : card.editions[i].approved})
    BY <1>2, <1>3, FS_Subset
  <1> QED BY <1>4, FS_CardinalityType

LEMMA SummaryTold ==
  ASSUME NEW card, CardIsTold(card), NEW text, NEW w, w = SaveSummary(card, text)
  PROVE  CardIsTold(w) /\ \A cmd : EditionsStay(cmd, card, w)
  <1> DEFINE n == Len(card.editions)
             x == [version |-> n + 1, text |-> text, approved |-> FALSE]
             E == Append(card.editions, x)
             d == [card EXCEPT !.editions = E]
  <1>1. IsCard(card) /\ LastWord(card) /\ TellsItsStory(card) BY DEF CardIsTold
  <1>2. IsList(card.editions) /\ DOMAIN card = DOMAIN NewCard BY <1>1, CardFields DEF IsCard
  <1>3. IsLogged(d, w, "edition") BY DEF SaveSummary, IsLogged
  <1>4. DOMAIN x = {"version", "text", "approved"} /\ x.version = n + 1 /\ x.approved = FALSE
    OBVIOUS
  <1> HIDE DEF x
  <1>5. /\ IsList(E) /\ Len(E) = n + 1 /\ n \in Nat /\ E[n + 1] = x
        /\ DOMAIN E = 1..(n + 1) /\ DOMAIN card.editions = 1..n
        /\ \A i \in 1..n : E[i] = card.editions[i]
    BY <1>2, Appended, ListFacts
  <1> HIDE DEF E
  <1>6. /\ DOMAIN d = DOMAIN NewCard /\ d.editions = E /\ d.records = card.records
        /\ d.permits = card.permits /\ d.status = card.status
        /\ d.decisions = card.decisions /\ d.audit = card.audit
        /\ \A f \in DOMAIN NewCard \ {"editions"} : d[f] = card[f]
    BY <1>2, CardFields
  <1> HIDE DEF d
  <1>7. \A i \in DOMAIN E : /\ DOMAIN E[i] = {"version", "text", "approved"}
                            /\ E[i].approved \in BOOLEAN /\ E[i].version = i
    <2> SUFFICES ASSUME NEW i \in 1..(n + 1)
                 PROVE  /\ DOMAIN E[i] = {"version", "text", "approved"}
                        /\ E[i].approved \in BOOLEAN /\ E[i].version = i
      BY <1>5
    <2>1. CASE i = n + 1 BY <1>4, <1>5, <2>1
    <2>2. CASE i \in 1..n BY <1>1, <1>5, <2>2 DEF IsCard, TellsItsStory
    <2> QED BY <1>5, <2>1, <2>2
  <1>8. IsCard(d)
    <2>1. \A f \in DOMAIN NewCard \ {"status"} : IsList(d[f])
      <3> SUFFICES ASSUME NEW f \in DOMAIN NewCard \ {"status"} PROVE IsList(d[f])
        OBVIOUS
      <3>1. CASE f = "editions" BY <1>5, <1>6, <3>1
      <3>2. CASE f # "editions" BY <1>1, <1>6, <3>2 DEF IsCard
      <3> QED BY <3>1, <3>2
    <2> QED BY <1>6, <1>7, <2>1 DEF IsCard
  <1>9. LastWord(d) /\ DecisionsChain(d) /\ VerdictsChain(d)
    BY <1>1, <1>6 DEF LastWord, TellsItsStory, DecisionsChain, VerdictsChain
  <1>10. /\ IsCard(w) /\ LastWord(w) /\ DecisionsChain(w) /\ VerdictsChain(w)
         /\ w.decisions = card.decisions /\ w.permits = card.permits
         /\ w.records = card.records /\ w.editions = E
    BY <1>3, <1>6, <1>8, <1>9, LoggedKeeps
  <1>11. /\ \A y : y # "edition" => LinesAbout(w.audit, y) = LinesAbout(card.audit, y)
         /\ LinesAbout(w.audit, "edition") = LinesAbout(card.audit, "edition") + 1
    BY <1>3, <1>6, <1>8, LoggedLines
  <1>12. {i \in DOMAIN E : E[i].approved} = {i \in DOMAIN card.editions : card.editions[i].approved}
    <2>1. ~E[n + 1].approved BY <1>4, <1>5
    <2> QED BY <1>5, <2>1
  <1>13. TellsItsStory(w) BY <1>1, <1>5, <1>7, <1>10, <1>11, <1>12 DEF TellsItsStory
  <1>14. \A cmd : EditionsStay(cmd, card, w)
    <2>1. \A i \in DOMAIN card.editions : i \in DOMAIN E /\ E[i].text = card.editions[i].text
      BY <1>5
    <2>2. \A i \in DOMAIN E : E[i].approved => i \in DOMAIN card.editions /\ card.editions[i].approved
      BY <1>12
    <2> QED BY <1>10, <2>1, <2>2 DEF EditionsStay
  <1> QED BY <1>10, <1>13, <1>14 DEF CardIsTold

LEMMA ApprovalTold ==
  ASSUME NEW card, CardIsTold(card), NEW cmd, cmd.kind = "approve",
         NEW j \in DOMAIN card.editions, card.editions[j].version = cmd.version,
         ~card.editions[j].approved, NEW w, w = ApproveSummary(card, cmd.version)
  PROVE  CardIsTold(w) /\ EditionsStay(cmd, card, w)
  <1> DEFINE n == Len(card.editions)
             i == CHOOSE i \in DOMAIN card.editions : card.editions[i].version = cmd.version
             x == [card.editions[j] EXCEPT !.approved = TRUE]
             E == [card.editions EXCEPT ![j] = x]
             d == [card EXCEPT !.editions = E]
  <1>1. IsCard(card) /\ LastWord(card) /\ TellsItsStory(card) BY DEF CardIsTold
  <1>2. IsList(card.editions) /\ DOMAIN card = DOMAIN NewCard BY <1>1, CardFields DEF IsCard
  <1>3. cmd.version = j /\ \A k \in DOMAIN card.editions : card.editions[k].version = cmd.version => k = j
    BY <1>1 DEF TellsItsStory
  <1>4. i = j BY <1>3
  <1>5. w = Logged([card EXCEPT !.editions[j].approved = TRUE], "approval", TRUE)
    BY <1>4 DEF ApproveSummary
  <1>6. d = [card EXCEPT !.editions[j].approved = TRUE] OBVIOUS
  <1>7. IsLogged(d, w, "approval") BY <1>5, <1>6 DEF IsLogged
  <1>8. DOMAIN card.editions[j] = {"version", "text", "approved"} BY <1>1 DEF IsCard
  <1>9. /\ DOMAIN x = {"version", "text", "approved"} /\ x.approved = TRUE
        /\ x.version = card.editions[j].version /\ x.text = card.editions[j].text
    BY <1>8
  <1> HIDE DEF x, i
  <1>10. /\ n \in Nat /\ DOMAIN card.editions = 1..n /\ DOMAIN E = 1..n /\ E[j] = x
         /\ \A k \in 1..n : k # j => E[k] = card.editions[k]
    BY <1>2, ListFacts
  <1>11. IsList(E) /\ Len(E) = n
    <2>1. E = [k \in 1..n |-> E[k]] BY <1>10
    <2> HIDE DEF E
    <2>2. E \in Seq({E[k] : k \in DOMAIN E}) /\ Len(E) = n BY <1>10, <2>1
    <2> QED BY <2>2 DEF IsList
  <1> HIDE DEF E
  <1>12. /\ DOMAIN d = DOMAIN NewCard /\ d.editions = E /\ d.records = card.records
         /\ d.permits = card.permits /\ d.status = card.status
         /\ d.decisions = card.decisions /\ d.audit = card.audit
         /\ \A f \in DOMAIN NewCard \ {"editions"} : d[f] = card[f]
    BY <1>2, CardFields
  <1> HIDE DEF d
  <1>13. \A k \in DOMAIN E : /\ DOMAIN E[k] = {"version", "text", "approved"}
                             /\ E[k].approved \in BOOLEAN /\ E[k].version = k
    <2> SUFFICES ASSUME NEW k \in 1..n
                 PROVE  /\ DOMAIN E[k] = {"version", "text", "approved"}
                        /\ E[k].approved \in BOOLEAN /\ E[k].version = k
      BY <1>10
    <2>1. CASE k = j BY <1>3, <1>9, <1>10, <2>1
    <2>2. CASE k # j BY <1>1, <1>10, <2>2 DEF IsCard, TellsItsStory
    <2> QED BY <2>1, <2>2
  <1>14. IsCard(d)
    <2>1. \A f \in DOMAIN NewCard \ {"status"} : IsList(d[f])
      <3> SUFFICES ASSUME NEW f \in DOMAIN NewCard \ {"status"} PROVE IsList(d[f])
        OBVIOUS
      <3>1. CASE f = "editions" BY <1>11, <1>12, <3>1
      <3>2. CASE f # "editions" BY <1>1, <1>12, <3>2 DEF IsCard
      <3> QED BY <3>1, <3>2
    <2> QED BY <1>12, <1>13, <2>1 DEF IsCard
  <1>15. LastWord(d) /\ DecisionsChain(d) /\ VerdictsChain(d)
    BY <1>1, <1>12 DEF LastWord, TellsItsStory, DecisionsChain, VerdictsChain
  <1>16. /\ IsCard(w) /\ LastWord(w) /\ DecisionsChain(w) /\ VerdictsChain(w)
         /\ w.decisions = card.decisions /\ w.permits = card.permits
         /\ w.records = card.records /\ w.editions = E
    BY <1>7, <1>12, <1>14, <1>15, LoggedKeeps
  <1>17. /\ \A y : y # "approval" => LinesAbout(w.audit, y) = LinesAbout(card.audit, y)
         /\ LinesAbout(w.audit, "approval") = LinesAbout(card.audit, "approval") + 1
    BY <1>7, <1>12, <1>14, LoggedLines
  <1> DEFINE A == {k \in DOMAIN card.editions : card.editions[k].approved}
             B == {k \in DOMAIN E : E[k].approved}
  <1>18. B = A \cup {j} /\ j \notin A BY <1>9, <1>10
  <1>19. Cardinality(B) = Cardinality(A) + 1
    <2>1. IsFiniteSet(A) BY <1>1, ApprovedOf
    <2> HIDE DEF A, B
    <2> QED BY <1>18, <2>1, FS_AddElement
  <1>20. TellsItsStory(w) BY <1>1, <1>11, <1>13, <1>16, <1>17, <1>19 DEF TellsItsStory
  <1>21. EditionsStay(cmd, card, w)
    <2>1. \A k \in DOMAIN card.editions : k \in DOMAIN E /\ E[k].text = card.editions[k].text
      BY <1>9, <1>10
    <2>2. \A k \in DOMAIN E : E[k].approved => \/ k \in DOMAIN card.editions /\ card.editions[k].approved
                                               \/ cmd.kind = "approve" /\ k = cmd.version
      BY <1>3, <1>10
    <2> QED BY <1>16, <2>1, <2>2 DEF EditionsStay
  <1> QED BY <1>16, <1>20, <1>21 DEF CardIsTold

(* Attempts of remediation are no part of the story.                         *)
LEMMA AttemptsTold ==
  ASSUME NEW card, CardIsTold(card), NEW s, IsList(s), NEW d, d = [card EXCEPT !.attempts = s],
         NEW what \in {"remediation", "recheck"}, NEW w, IsLogged(d, w, what)
  PROVE  CardIsTold(w) /\ w.editions = card.editions
  <1>1. IsCard(card) /\ LastWord(card) /\ TellsItsStory(card) BY DEF CardIsTold
  <1>2. /\ IsCard(d) /\ d.records = card.records /\ d.permits = card.permits
        /\ d.status = card.status /\ d.decisions = card.decisions
        /\ d.editions = card.editions /\ d.audit = card.audit
    <2>1. DOMAIN card = DOMAIN NewCard BY <1>1 DEF IsCard
    <2> QED BY <1>1, <2>1, SetField, CardFields
  <1>3. LastWord(d) /\ TellsItsStory(d)
    BY <1>1, <1>2 DEF LastWord, TellsItsStory, DecisionsChain, VerdictsChain
  <1>4. CardIsTold(d) BY <1>2, <1>3 DEF CardIsTold
  <1>5. CardIsTold(w) /\ w.editions = d.editions BY <1>4, OtherLine
  <1> QED BY <1>2, <1>5

LEMMA RecheckTold ==
  ASSUME NEW card, CardIsTold(card), NEW i \in 0..Len(card.attempts), NEW ready,
         NEW w, w = RecheckReadiness(card, i, ready)
  PROVE  CardIsTold(w) /\ w.editions = card.editions
  <1> DEFINE A == card.attempts
             n == Len(A)
             x == Rechecked(A[i], ready)
             s == [A EXCEPT ![i] = x]
             d == [card EXCEPT !.attempts = s]
  <1>1. IsList(A) BY CardFields DEF CardIsTold, IsCard
  <1>2. n \in Nat /\ DOMAIN A = 1..n BY <1>1, ListFacts
  <1>3. CASE i = 0
    <2>1. IsLogged(card, w, "recheck") BY <1>3 DEF RecheckReadiness, IsLogged
    <2>2. "recheck" \in {"baseline", "remediation", "recheck", "bundle"} OBVIOUS
    <2> QED BY <2>1, <2>2, OtherLine
  <1>4. CASE i # 0
    <2>1. d = [card EXCEPT !.attempts[i] = Rechecked(@, ready)] OBVIOUS
    <2>2. IsLogged(d, w, "recheck") BY <1>4, <2>1 DEF RecheckReadiness, IsLogged
    <2> HIDE DEF x
    <2>3. s = [k \in 1..n |-> s[k]] BY <1>2
    <2>4. DOMAIN s = 1..n BY <1>2
    <2> HIDE DEF s, n
    <2>5. IsList(s) BY <1>2, <2>3, <2>4 DEF IsList
    <2>6. "recheck" \in {"remediation", "recheck"} OBVIOUS
    <2> QED BY <2>2, <2>5, <2>6, AttemptsTold
  <1> QED BY <1>3, <1>4

LEMMA EditionsSame ==
  ASSUME NEW cmd, NEW card, NEW w, w.editions = card.editions
  PROVE  EditionsStay(cmd, card, w)
  BY DEF EditionsStay

(* Whatever a handler makes of a card that tells its story, tells its story. *)
LEMMA WorkedTold ==
  ASSUME NEW cmd, cmd.kind \in CommandKinds, NEW card, CardIsTold(card), Accepts(cmd, card),
         NEW ready, NEW w, w = Worked(cmd, card, ready)
  PROVE  CardIsTold(w) /\ EditionsStay(cmd, card, w)
  <1> DEFINE facts == Facts[cmd.case]
             A == card.attempts
  <1>1. CASE cmd.kind = "decision"
    <2>1. w = SubmitDecision(facts, card, cmd.to) /\ CanTransition(card.status, cmd.to)
      BY <1>1 DEF Worked, Accepts
    <2>2. CardIsTold(w) /\ w.editions = card.editions BY <2>1, DecisionTold
    <2> QED BY <2>2, EditionsSame
  <1>2. CASE cmd.kind = "permit"
    <2>1. w = AttachPermit(facts, card, cmd.permit) BY <1>2 DEF Worked
    <2>2. CardIsTold(w) /\ w.editions = card.editions BY <2>1, PermitTold
    <2> QED BY <2>2, EditionsSame
  <1>3. CASE cmd.kind = "verdict"
    <2>1. w = ConfirmVerdict(card, cmd.verdict) BY <1>3 DEF Worked
    <2>2. CardIsTold(w) /\ w.editions = card.editions BY <2>1, VerdictTold
    <2> QED BY <2>2, EditionsSame
  <1>4. CASE cmd.kind = "summary"
    <2>1. w = SaveSummary(card, cmd.text) BY <1>4 DEF Worked
    <2> QED BY <2>1, SummaryTold
  <1>5. CASE cmd.kind = "approve"
    <2>1. w = ApproveSummary(card, cmd.version) BY <1>5 DEF Worked
    <2>2. PICK j \in DOMAIN card.editions : /\ card.editions[j].version = cmd.version
                                            /\ ~card.editions[j].approved
      BY <1>5 DEF Accepts
    <2> QED BY <1>5, <2>1, <2>2, ApprovalTold
  <1>6. IsList(A) BY CardFields DEF CardIsTold, IsCard
  <1>7. CASE cmd.kind = "remediation"
    <2> DEFINE x == [kind |-> cmd.remedy, status |-> cmd.status,
                     before |-> ReadinessOk(facts, card), after |-> ReadinessOk(facts, card)]
               d == [card EXCEPT !.attempts = Append(A, x)]
    <2>1. w = Logged(d, "remediation", TRUE) BY <1>7 DEF Worked, RecordAttempt
    <2>2. IsLogged(d, w, "remediation") BY <2>1 DEF IsLogged
    <2> HIDE DEF x
    <2>3. IsList(Append(A, x)) BY <1>6, Appended
    <2>4. CardIsTold(w) /\ w.editions = card.editions
      <3>1. "remediation" \in {"remediation", "recheck"} OBVIOUS
      <3> QED BY <2>2, <2>3, <3>1, AttemptsTold
    <2> QED BY <2>4, EditionsSame
  <1>8. CASE cmd.kind = "recheck"
    <2>1. w = RecheckReadiness(card, cmd.attempt, ready) BY <1>8 DEF Worked
    <2>3. cmd.attempt \in 0..Len(card.attempts) BY <1>8 DEF Accepts
    <2>2. CardIsTold(w) /\ w.editions = card.editions BY <2>1, <2>3, RecheckTold
    <2> QED BY <2>2, EditionsSame
  <1>9. CASE cmd.kind = "bundle"
    <2>1. w = Logged(card, "bundle", TRUE) BY <1>9 DEF Worked
    <2>2. IsLogged(card, w, "bundle") BY <2>1 DEF IsLogged
    <2>3. "bundle" \in {"baseline", "remediation", "recheck", "bundle"} OBVIOUS
    <2>4. CardIsTold(w) /\ w.editions = card.editions BY <2>2, <2>3, OtherLine
    <2> QED BY <2>4, EditionsSame
  <1> QED BY <1>1, <1>2, <1>3, <1>4, <1>5, <1>7, <1>8, <1>9 DEF CommandKinds

(* ---- the requests at their stages ---------------------------------------- *)
IsAt(f, cmd, at, base, text) ==
  /\ DOMAIN f = {"at", "cmd", "base", "text", "ready"}
  /\ f.cmd = cmd /\ f.at = at /\ f.base = base /\ f.text = text

(* One request moves on while no card changes.                               *)
LEMMA FlightMoves ==
  ASSUME DeskInv, NEW t \in Threads, NEW g, flight' = [flight EXCEPT ![t] = g],
         UNCHANGED <<cards, stale>>,
         g = Free \/ (FlightIsTold(g) /\ TextIsRead(g))
  PROVE  DeskInv'
  <1>1. DOMAIN flight' = Threads /\ flight'[t] = g
        /\ \A u \in Threads : u # t => flight'[u] = flight[u]
    BY DEF DeskInv
  <1>2. TextIsRead(g)
    <2>1. g = Free => g.at = "free" BY DEF Free
    <2> QED BY <2>1 DEF TextIsRead
  <1>3. FlightsTold'
    <2> SUFFICES ASSUME NEW u \in Threads, flight'[u] # Free PROVE FlightIsTold(flight'[u])
      BY DEF FlightsTold
    <2>1. CASE u = t BY <1>1, <2>1
    <2>2. CASE u # t BY <1>1, <2>2 DEF DeskInv, FlightsTold
    <2> QED BY <2>1, <2>2
  <1>4. TextsRead'
    <2> SUFFICES ASSUME NEW u \in Threads PROVE TextIsRead(flight[u])'
      BY DEF TextsRead
    <2>1. TextIsRead(flight'[u])
      <3>1. CASE u = t BY <1>1, <1>2, <3>1
      <3>2. CASE u # t BY <1>1, <3>2 DEF DeskInv, TextsRead
      <3> QED BY <3>1, <3>2
    <2> QED BY <2>1 DEF TextIsRead
  <1> QED BY <1>1, <1>3, <1>4 DEF DeskInv

LEMMA CommandFacts ==
  ASSUME NEW cmd \in Commands
  PROVE  cmd.case \in Cases /\ cmd.kind \in CommandKinds
  BY CaseWorkAssumption

LEMMA InHand ==
  ASSUME DeskInv, NEW t \in Threads, flight[t].at # "free"
  PROVE  FlightIsTold(flight[t]) /\ TextIsRead(flight[t]) /\ flight[t].cmd.case \in Cases
         /\ CardIsTold(cards[flight[t].cmd.case])
  <1>1. flight[t] # Free BY DEF Free
  <1>2. FlightIsTold(flight[t]) /\ TextIsRead(flight[t])
    BY <1>1 DEF DeskInv, FlightsTold, TextsRead
  <1>3. flight[t].cmd.case \in Cases BY <1>2, CommandFacts DEF FlightIsTold
  <1> QED BY <1>2, <1>3 DEF DeskInv

LEMMA EditionNamed ==
  ASSUME NEW card, CardIsTold(card), NEW i \in DOMAIN card.editions
  PROVE  card.editions[i].version = i
  BY DEF CardIsTold, TellsItsStory

LEMMA LookKeeps ==
  ASSUME DeskInv, NEW t \in Threads, NEW cmd \in Commands, Look(t, cmd)
  PROVE  DeskInv'
  <1> DEFINE card == cards[cmd.case]
  <1>1. PICK i \in DOMAIN card.editions :
          /\ card.editions[i].version = cmd.version
          /\ flight' = [flight EXCEPT ![t] = At(cmd, "looked", NewCard, card.editions[i].text, FALSE)]
    BY DEF Look
  <1> DEFINE g == At(cmd, "looked", NewCard, card.editions[i].text, FALSE)
  <1>2. IsAt(g, cmd, "looked", NewCard, card.editions[i].text) BY DEF At, IsAt
  <1>3. flight' = [flight EXCEPT ![t] = g] BY <1>1
  <1> HIDE DEF g
  <1>4. cmd.kind = "approve" /\ UNCHANGED <<cards, stale>> BY DEF Look
  <1>5. FlightIsTold(g) BY <1>2, <1>4 DEF IsAt, FlightIsTold
  <1>6. CardIsTold(card) BY CommandFacts DEF DeskInv
  <1>7. cmd.version = i BY <1>1, <1>6, EditionNamed
  <1>8. TextIsRead(g) BY <1>2, <1>7 DEF IsAt, TextIsRead
  <1> QED BY <1>3, <1>4, <1>5, <1>8, FlightMoves

LEMMA ReadCardKeeps ==
  ASSUME DeskInv, NEW t \in Threads, NEW cmd \in Commands, Read(t, cmd)
  PROVE  DeskInv'
  <1> DEFINE card == cards[cmd.case]
             g == At(cmd, "read", card, Blank, FALSE)
  <1>1. /\ flight' = [flight EXCEPT ![t] = g] /\ cmd.kind # "approve" /\ Accepts(cmd, card)
        /\ UNCHANGED <<cards, stale>>
    BY DEF Read
  <1>2. IsAt(g, cmd, "read", card, Blank) BY DEF At, IsAt
  <1>3. CardIsTold(card) BY CommandFacts DEF DeskInv
  <1> HIDE DEF g, card
  <1>4. FlightIsTold(g) BY <1>1, <1>2, <1>3 DEF IsAt, FlightIsTold
  <1>5. TextIsRead(g) BY <1>1, <1>2 DEF IsAt, TextIsRead
  <1>6. /\ flight' = [flight EXCEPT ![t] = g] /\ UNCHANGED <<cards, stale>>
        /\ FlightIsTold(g) /\ TextIsRead(g)
    BY <1>1, <1>4, <1>5
  <1> QED BY <1>6, FlightMoves

LEMMA ReadAgainKeeps ==
  ASSUME DeskInv, NEW t \in Threads, ReadAgain(t)
  PROVE  DeskInv'
  <1> DEFINE f == flight[t]
             card == cards[f.cmd.case]
             h == At(f.cmd, "read", card, f.text, FALSE)
             g == IF Accepts(f.cmd, card) THEN h ELSE Free
  <1>1. flight' = [flight EXCEPT ![t] = g] /\ f.at = "looked" /\ UNCHANGED <<cards, stale>>
    BY DEF ReadAgain
  <1>2. IsAt(h, f.cmd, "read", card, f.text) BY DEF At, IsAt
  <1>3. FlightIsTold(f) /\ TextIsRead(f) /\ CardIsTold(card) BY <1>1, InHand
  <1> HIDE DEF h
  <1>4. CASE Accepts(f.cmd, card)
    <2>1. FlightIsTold(h) BY <1>2, <1>3, <1>4 DEF IsAt, FlightIsTold
    <2>2. TextIsRead(h) BY <1>1, <1>2, <1>3 DEF IsAt, TextIsRead
    <2>3. g = h BY <1>4
    <2> HIDE DEF g
    <2> QED BY <1>1, <2>1, <2>2, <2>3, FlightMoves
  <1>5. CASE ~Accepts(f.cmd, card)
    <2>1. g = Free BY <1>5
    <2> HIDE DEF g
    <2> QED BY <1>1, <2>1, FlightMoves
  <1> QED BY <1>4, <1>5

LEMMA AskChecklistKeeps ==
  ASSUME DeskInv, NEW t \in Threads, AskChecklist(t)
  PROVE  DeskInv'
  <1> DEFINE f == flight[t]
             g == At(f.cmd, "ready", f.base, Blank,
                     Checklist(Facts[f.cmd.case], cards[f.cmd.case]).ready)
  <1>1. /\ flight' = [flight EXCEPT ![t] = g] /\ f.at = "read"
        /\ f.cmd.kind \in {"recheck", "bundle"} /\ UNCHANGED <<cards, stale>>
    BY DEF AskChecklist
  <1>2. IsAt(g, f.cmd, "ready", f.base, Blank) BY DEF At, IsAt
  <1>3. FlightIsTold(f) BY <1>1, InHand
  <1> HIDE DEF g
  <1>4. FlightIsTold(g) /\ TextIsRead(g) BY <1>1, <1>2, <1>3 DEF IsAt, FlightIsTold, TextIsRead
  <1> QED BY <1>1, <1>4, FlightMoves

LEMMA MarkExpectedKeeps ==
  ASSUME DeskInv, NEW t \in Threads, MarkExpected(t)
  PROVE  DeskInv'
  <1> DEFINE f == flight[t]
             g == [f EXCEPT !.at = "marked"]
  <1>1. /\ flight' = [flight EXCEPT ![t].at = "marked"] /\ f.at = "read"
        /\ f.cmd.kind = "decision" /\ UNCHANGED <<cards, stale>>
    BY DEF MarkExpected
  <1>2. FlightIsTold(f) BY <1>1, InHand
  <1>3. flight' = [flight EXCEPT ![t] = g] BY <1>1
  <1>4. IsAt(g, f.cmd, "marked", f.base, f.text) BY <1>2 DEF FlightIsTold, IsAt
  <1> HIDE DEF g
  <1>5. FlightIsTold(g) /\ TextIsRead(g) BY <1>1, <1>2, <1>4 DEF IsAt, FlightIsTold, TextIsRead
  <1> QED BY <1>1, <1>3, <1>5, FlightMoves

LEMMA NoteKeeps ==
  ASSUME DeskInv, NEW t \in Threads, Note(t)
  PROVE  DeskInv'
  BY FlightMoves DEF Note

(* What a save makes of the card.  Nothing else may have been saved on the   *)
(* case since it was read, or the case is stale.                             *)
LEMMA SaveFacts ==
  ASSUME DeskInv, NEW t \in Threads, Save(t), NEW f, f = flight[t], NEW c, c = f.cmd.case
  PROVE  /\ c \in Cases /\ DOMAIN cards' = Cases /\ CardIsTold(cards'[c])
         /\ \A d \in Cases : d # c => cards'[d] = cards[d]
         /\ stale \subseteq stale' /\ (c \notin stale' => EditionsStay(f.cmd, cards[c], cards'[c]))
         /\ f.at \in {"read", "ready", "marked"} /\ FlightIsTold(f) /\ TextIsRead(f)
         /\ \E g : flight' = [flight EXCEPT ![t] = g] /\ (g = Free \/ IsAt(g, f.cmd, "saved", g.base, g.text))
  <1> DEFINE mine == Worked(f.cmd, f.base, f.ready)
             h == At(f.cmd, "saved", mine, Blank, FALSE)
             g == IF f.cmd.kind \in Noted THEN h ELSE Free
  <1>1. /\ cards' = [cards EXCEPT ![c] = mine] /\ flight' = [flight EXCEPT ![t] = g]
        /\ stale' = (IF cards[c] = f.base THEN stale ELSE stale \cup {c})
        /\ f.at \in {"read", "ready", "marked"}
    BY DEF Save, ReadyToSave
  <1>2. FlightIsTold(f) /\ TextIsRead(f) /\ c \in Cases BY <1>1, InHand
  <1>3. f.cmd.kind \in CommandKinds BY <1>2, CommandFacts DEF FlightIsTold
  <1>4. CardIsTold(f.base) /\ Accepts(f.cmd, f.base) BY <1>1, <1>2 DEF FlightIsTold
  <1>5. IsAt(h, f.cmd, "saved", h.base, h.text) BY DEF At, IsAt
  <1>6. g = h \/ g = Free OBVIOUS
  <1> HIDE DEF mine, h, g
  <1>7. CardIsTold(mine) /\ EditionsStay(f.cmd, f.base, mine)
    BY <1>3, <1>4, WorkedTold DEF mine
  <1>8. DOMAIN cards' = Cases /\ cards'[c] = mine /\ \A d \in Cases : d # c => cards'[d] = cards[d]
    BY <1>1, <1>2 DEF DeskInv
  <1>9. c \notin stale' => cards[c] = f.base BY <1>1
  <1>10. c \notin stale' => EditionsStay(f.cmd, cards[c], cards'[c]) BY <1>7, <1>8, <1>9
  <1>11. stale \subseteq stale' BY <1>1
  <1>12. \E x : flight' = [flight EXCEPT ![t] = x] /\ (x = Free \/ IsAt(x, f.cmd, "saved", x.base, x.text))
    BY <1>1, <1>5, <1>6
  <1> QED BY <1>1, <1>2, <1>7, <1>8, <1>10, <1>11, <1>12

LEMMA SaveKeeps ==
  ASSUME DeskInv, NEW t \in Threads, Save(t)
  PROVE  DeskInv'
  <1> DEFINE f == flight[t]
             c == f.cmd.case
  <1>1. /\ c \in Cases /\ DOMAIN cards' = Cases /\ CardIsTold(cards'[c])
        /\ \A d \in Cases : d # c => cards'[d] = cards[d]
        /\ stale \subseteq stale' /\ (c \notin stale' => EditionsStay(f.cmd, cards[c], cards'[c]))
        /\ FlightIsTold(f)
        /\ \E g : flight' = [flight EXCEPT ![t] = g] /\ (g = Free \/ IsAt(g, f.cmd, "saved", g.base, g.text))
    BY SaveFacts
  <1>2. PICK g : flight' = [flight EXCEPT ![t] = g] /\ (g = Free \/ IsAt(g, f.cmd, "saved", g.base, g.text))
    BY <1>1
  <1>3. DOMAIN flight' = Threads /\ flight'[t] = g
        /\ \A u \in Threads : u # t => flight'[u] = flight[u]
    BY <1>2 DEF DeskInv
  <1>4. \A d \in Cases : CardIsTold(cards'[d]) BY <1>1 DEF DeskInv
  <1>5. FlightsTold'
    <2> SUFFICES ASSUME NEW u \in Threads, flight'[u] # Free PROVE FlightIsTold(flight'[u])
      BY DEF FlightsTold
    <2>1. CASE u = t
      <3>1. IsAt(g, f.cmd, "saved", g.base, g.text) /\ flight'[u] = g BY <1>2, <1>3, <2>1
      <3> QED BY <1>1, <3>1 DEF IsAt, FlightIsTold
    <2>2. CASE u # t BY <1>3, <2>2 DEF DeskInv, FlightsTold
    <2> QED BY <2>1, <2>2
  <1>6. TextsRead'
    <2> SUFFICES ASSUME NEW u \in Threads PROVE TextIsRead(flight[u])'
      BY DEF TextsRead
    <2>1. CASE u = t
      <3>1. flight'[u].at \in {"free", "saved"} BY <1>2, <1>3, <2>1 DEF IsAt, Free
      <3> QED BY <3>1 DEF TextIsRead
    <2>2. CASE u # t
      <3> DEFINE e == flight[u]
                 d == e.cmd.case
      <3>1. flight'[u] = e BY <1>3, <2>2
      <3>2. SUFFICES ASSUME e.at \in {"looked", "read"}, e.cmd.kind = "approve", d \notin stale'
                     PROVE  /\ e.cmd.version \in DOMAIN cards'[d].editions
                            /\ cards'[d].editions[e.cmd.version].text = e.text
        BY <3>1 DEF TextIsRead
      <3>3. TextIsRead(e) /\ d \in Cases BY <3>2, InHand
      <3>4. /\ e.cmd.version \in DOMAIN cards[d].editions
            /\ cards[d].editions[e.cmd.version].text = e.text
        BY <1>1, <3>2, <3>3 DEF TextIsRead
      <3>5. CASE d = c
        <4>1. EditionsStay(f.cmd, cards[d], cards'[d]) BY <1>1, <3>2, <3>5
        <4> QED BY <3>4, <4>1 DEF EditionsStay
      <3>6. CASE d # c BY <1>1, <3>3, <3>4, <3>6
      <3> QED BY <3>5, <3>6
    <2> QED BY <2>1, <2>2
  <1> QED BY <1>1, <1>3, <1>4, <1>5, <1>6 DEF DeskInv

LEMMA DieKeeps ==
  ASSUME DeskInv, Die
  PROVE  DeskInv'
  <1>1. flight' = [t \in Threads |-> Free] /\ UNCHANGED <<cards, stale>> BY DEF Die
  <1>2. FlightsTold' BY <1>1 DEF FlightsTold
  <1>3. TextsRead' BY <1>1 DEF TextsRead, TextIsRead, Free
  <1> QED BY <1>1, <1>2, <1>3 DEF DeskInv

LEMMA DeskStutters ==
  ASSUME DeskInv, UNCHANGED deskVars
  PROVE  DeskInv'
  BY DEF DeskInv, deskVars, FlightsTold, TextsRead, TextIsRead

(* The card of a new case is one that EarlierAssumption admits.              *)
LEMMA NewCardIsTold == CardIsTold(NewCard)
  <1>1. IsList(<<>>) BY DEF IsList
  <1>2. IsCard(NewCard)
    <2>1. \A f \in DOMAIN NewCard \ {"status"} : NewCard[f] = <<>> BY DEF NewCard
    <2>2. NewCard.editions = <<>> BY DEF NewCard
    <2> QED BY <1>1, <2>1, <2>2 DEF IsCard
  <1>3. /\ NewCard.status = "NEW" /\ NewCard.decisions = <<>> /\ NewCard.permits = <<>>
        /\ NewCard.records = <<>> /\ NewCard.editions = <<>> /\ NewCard.audit = <<>>
    BY DEF NewCard
  <1>4. LastWord(NewCard) BY <1>3 DEF LastWord
  <1>5. DecisionsChain(NewCard) /\ VerdictsChain(NewCard)
    BY <1>3 DEF DecisionsChain, VerdictsChain
  <1>6. \A what : LinesAbout(<<>>, what) = 0
    <2> SUFFICES ASSUME NEW what PROVE LinesAbout(<<>>, what) = 0
      OBVIOUS
    <2>1. {i \in DOMAIN <<>> : <<>>[i].what = what} = {} OBVIOUS
    <2> QED BY <2>1, FS_EmptySet DEF LinesAbout
  <1>7. Cardinality({i \in DOMAIN <<>> : <<>>[i].approved}) = 0
    <2>1. {i \in DOMAIN <<>> : <<>>[i].approved} = {} OBVIOUS
    <2> QED BY <2>1, FS_EmptySet
  <1> QED BY <1>2, <1>3, <1>4, <1>5, <1>6, <1>7 DEF CardIsTold, TellsItsStory

LEMMA DeskStart ==
  ASSUME DeskInit
  PROVE  DeskInv
  <1>1. DOMAIN cards = Cases /\ \A c \in Cases : CardIsTold(cards[c])
    BY EarlierAssumption DEF DeskInit
  <1>2. flight = [t \in Threads |-> Free] BY DEF DeskInit
  <1>3. FlightsTold /\ TextsRead BY <1>2 DEF FlightsTold, TextsRead, TextIsRead, Free
  <1> QED BY <1>1, <1>2, <1>3 DEF DeskInv

LEMMA DeskStep ==
  ASSUME DeskInv, [DeskNext]_deskVars
  PROVE  DeskInv'
  <1>1. ASSUME NEW t \in Threads, NEW cmd \in Commands, Look(t, cmd) \/ Read(t, cmd)
        PROVE  DeskInv'
    BY <1>1, LookKeeps, ReadCardKeeps
  <1>2. ASSUME NEW t \in Threads, ReadAgain(t) \/ AskChecklist(t) \/ MarkExpected(t)
        PROVE  DeskInv'
    BY <1>2, ReadAgainKeeps, AskChecklistKeeps, MarkExpectedKeeps
  <1>3. ASSUME NEW t \in Threads, Save(t) \/ Note(t)
        PROVE  DeskInv'
    BY <1>3, SaveKeeps, NoteKeeps
  <1>4. CASE Die BY <1>4, DieKeeps
  <1>5. CASE UNCHANGED deskVars BY <1>5, DeskStutters
  <1> QED BY <1>1, <1>2, <1>3, <1>4, <1>5 DEF DeskNext

(* The inductive invariant of the desk: every card tells its story, and so   *)
(* does every copy a request works on, whoever has saved in the meantime.    *)
THEOREM DeskInductive == DeskSpec => []DeskInv
  <1>1. DeskInit => DeskInv BY DeskStart
  <1>2. DeskInv /\ [DeskNext]_deskVars => DeskInv' BY DeskStep
  <1> QED BY <1>1, <1>2, PTL DEF DeskSpec

(* Decisions, verdicts, editions and the log of a card agree, whichever      *)
(* whole-card saves have overwritten which (the handlers of the analysts     *)
(* hold no lock between their get and their save).                           *)
THEOREM CardsTellTheirStory == DeskSpec => []CardTellsItsStory
  <1>1. DeskInv => CardTellsItsStory BY DEF DeskInv, CardIsTold, CardTellsItsStory
  <1> QED BY <1>1, DeskInductive, PTL

(* A step approves an edition.                                               *)
NewlyApproved(c, i) ==
  cards'[c].editions[i].approved /\ ~(i \in DOMAIN cards[c].editions /\ cards[c].editions[i].approved)

WasRead(c, i) ==
  \E t \in Threads : /\ flight[t].at = "read" /\ flight[t].cmd.kind = "approve"
                     /\ flight[t].text = cards'[c].editions[i].text

LEMMA ApprovalIsRead ==
  ASSUME DeskInv, [DeskNext]_deskVars, NEW c \in Cases, NEW i \in DOMAIN cards'[c].editions,
         NewlyApproved(c, i), c \notin stale'
  PROVE  WasRead(c, i)
  <1>1. PICK t \in Threads : Save(t)
    <2>1. cards' # cards BY DEF NewlyApproved
    <2> QED BY <2>1 DEF DeskNext, deskVars, Look, Read, ReadAgain, AskChecklist, MarkExpected, Note, Die
  <1> DEFINE f == flight[t]
  <1>2. /\ \A d \in Cases : d # f.cmd.case => cards'[d] = cards[d]
        /\ stale \subseteq stale'
        /\ f.cmd.case \notin stale' => EditionsStay(f.cmd, cards[f.cmd.case], cards'[f.cmd.case])
        /\ f.at \in {"read", "ready", "marked"} /\ FlightIsTold(f) /\ TextIsRead(f)
    BY <1>1, SaveFacts
  <1>3. c = f.cmd.case BY <1>2 DEF NewlyApproved
  <1>4. EditionsStay(f.cmd, cards[c], cards'[c]) BY <1>2, <1>3
  <1>5. f.cmd.kind = "approve" /\ i = f.cmd.version BY <1>4 DEF EditionsStay, NewlyApproved
  <1>6. f.at = "read" BY <1>2, <1>5 DEF FlightIsTold
  <1>7. i \in DOMAIN cards[c].editions /\ cards[c].editions[i].text = f.text
    BY <1>2, <1>3, <1>5, <1>6 DEF TextIsRead
  <1>8. cards'[c].editions[i].text = f.text BY <1>4, <1>7 DEF EditionsStay
  <1> QED BY <1>5, <1>6, <1>8 DEF WasRead

(* Approval by number approves the text that was on the page, as long as no  *)
(* two saves of the case overlapped (approve of InvestigationSummaryUseCase  *)
(* finds the edition by its version in the card it reads again).             *)
THEOREM ApprovalsWereRead == DeskSpec => ApprovedWasRead
  <1>1. DeskInv /\ [DeskNext]_deskVars =>
          [\A c \in Cases : \A i \in DOMAIN cards'[c].editions :
             /\ cards'[c].editions[i].approved
             /\ ~(i \in DOMAIN cards[c].editions /\ cards[c].editions[i].approved)
             => \/ c \in stale'
                \/ \E t \in Threads : /\ flight[t].at = "read" /\ flight[t].cmd.kind = "approve"
                                     /\ flight[t].text = cards'[c].editions[i].text]_deskVars
    BY ApprovalIsRead DEF NewlyApproved, WasRead
  <1> QED BY <1>1, DeskInductive, PTL DEF DeskSpec, ApprovedWasRead

(* ---- the statements of the store ----------------------------------------- *)
(* The tables that a sequence of statements leaves, place after place.       *)
LastPlace(s) == Max(s)

StatementsRun(g, tables, seq, S) ==
  \A s \in SUBSET S : g[s] = IF s = {} THEN tables ELSE Executed(g[s \ {LastPlace(s)}], seq[LastPlace(s)])

LEMMA LastIsIn ==
  ASSUME NEW S, S \subseteq Int, IsFiniteSet(S), S # {}
  PROVE  LastPlace(S) \in S
  <1>1. \E x \in S : \A y \in S : y <= x BY HasLargest
  <1>2. \E x \in S : \A y \in S : x >= y BY <1>1
  <1> QED BY <1>2 DEF LastPlace, Max

LEMMA FoldRuns ==
  ASSUME NEW n \in Nat, NEW seq, DOMAIN seq = 1..n, NEW tables
  PROVE  \E g : FoldLeft(Executed, tables, seq) = g[1..n] /\ StatementsRun(g, tables, seq, 1..n)
  <1> DEFINE S == 1..n
             Step(g, s) == IF s = {} THEN tables ELSE Executed(g[s \ {LastPlace(s)}], seq[LastPlace(s)])
             iter == CHOOSE g : g = [s \in SUBSET S |-> Step(g, s)]
             Small(k) == {s \in SUBSET S : Cardinality(s) <= k}
             Runs(g, k) == g = [s \in Small(k) |-> Step(g, s)]
             Known == {k \in Nat : \E g : Runs(g, k)}
  <1>0. IsFiniteSet(S) /\ S \subseteq Int
    <2>1. 1 \in Int /\ n \in Int OBVIOUS
    <2> QED BY <2>1, FS_Interval
  <1>1. FoldLeft(Executed, tables, seq) = iter[S] BY DEF FoldLeft, MapThenFoldSet, LastPlace
  <1> HIDE DEF S
  <1>2. \A s \in SUBSET S : IsFiniteSet(s) /\ Cardinality(s) \in Nat /\ s \subseteq Int
    BY <1>0, FS_Subset, FS_CardinalityType
  <1>3. ASSUME NEW s \in SUBSET S, s # {}
        PROVE  /\ LastPlace(s) \in s /\ s \ {LastPlace(s)} \in SUBSET S
               /\ Cardinality(s \ {LastPlace(s)}) = Cardinality(s) - 1
    <2>1. LastPlace(s) \in s BY <1>2, <1>3, LastIsIn
    <2> QED BY <1>2, <2>1, FS_RemoveElement
  <1>4. \A s \in SUBSET S : Cardinality(s) = 0 <=> s = {} BY <1>2, FS_EmptySet
  <1>5. 0 \in Known
    <2> DEFINE g0 == [s \in Small(0) |-> tables]
    <2>1. \A s \in Small(0) : s = {} BY <1>2, <1>4
    <2>2. Runs(g0, 0) BY <2>1
    <2> QED BY <2>2
  <1>6. ASSUME NEW k \in Nat, k \in Known PROVE k + 1 \in Known
    <2>1. PICK g : Runs(g, k) BY <1>6
    <2> DEFINE h == [s \in Small(k + 1) |-> Step(g, s)]
    <2>2. ASSUME NEW s \in Small(k + 1), s # {} PROVE s \ {LastPlace(s)} \in Small(k)
      <3>1. s \in SUBSET S /\ Cardinality(s) <= k + 1 /\ Cardinality(s) \in Nat BY <1>2
      <3>2. s \ {LastPlace(s)} \in SUBSET S /\ Cardinality(s \ {LastPlace(s)}) = Cardinality(s) - 1
        BY <1>3, <2>2, <3>1
      <3> QED BY <3>1, <3>2
    <2>3. \A s \in Small(k) : s \in Small(k + 1) BY <1>2
    <2>4. \A s \in Small(k) : h[s] = g[s] BY <2>1, <2>3
    <2> HIDE DEF h, Small
    <2>5. \A s \in Small(k + 1) : Step(h, s) = Step(g, s) BY <2>2, <2>4
    <2> USE DEF h
    <2>6. Runs(h, k + 1)
      <3> HIDE DEF Step, Small
      <3> QED BY <2>5
    <2> HIDE DEF Runs
    <2> QED BY <2>6
  <1>7. Cardinality(S) \in Known
    <2> HIDE DEF Known
    <2>1. Cardinality(S) \in Nat BY <1>0, FS_CardinalityType
    <2> QED BY <2>1, <1>5, <1>6, Induction
  <1>8. Small(Cardinality(S)) = SUBSET S BY <1>0, <1>2, FS_Subset
  <1>9. \E g : g = [s \in SUBSET S |-> Step(g, s)]
    <2>1. PICK g : Runs(g, Cardinality(S)) BY <1>7
    <2> HIDE DEF Step, Small
    <2> QED BY <2>1, <1>8
  <1>10. iter = [s \in SUBSET S |-> Step(iter, s)]
    <2> HIDE DEF Step
    <2> QED BY <1>9, Zenon
  <1> HIDE DEF iter
  <1>11. \A s \in SUBSET S : iter[s] = Step(iter, s)
    <2> HIDE DEF Step
    <2> QED BY <1>10
  <1>12. StatementsRun(iter, tables, seq, S) BY <1>11 DEF StatementsRun
  <1> QED BY <1>1, <1>12 DEF S

(* The tables have their columns, and the window names ids.                  *)
IsDb(tables) == DOMAIN tables = {"rows", "count", "activity", "recent"} /\ tables.recent \in Seq(Ids)

DoneTo(event) ==
  [do : {"event", "registry", "activity", "recent", "trim"},
   who : {event.who[(i + 1) \div 2] : i \in 1..2 * Len(event.who)} \cup {""}, event : {event}]

LEMMA ExecutedFits ==
  ASSUME NEW tables, IsDb(tables), NEW event, event.id \in Ids, NEW s \in DoneTo(event)
  PROVE  IsDb(Executed(tables, s))
  <1>1. /\ s.do \in {"event", "registry", "activity", "recent", "trim"} /\ s.event = event
        /\ DOMAIN tables = {"rows", "count", "activity", "recent"} /\ tables.recent \in Seq(Ids)
    BY DEF DoneTo, IsDb
  <1>2. CASE s.do = "event"
    <2>1. Executed(tables, s) = [tables EXCEPT !.rows[s.event.id] = s.event] BY <1>2 DEF Executed
    <2> QED BY <1>1, <2>1 DEF IsDb
  <1>3. CASE s.do = "registry"
    <2>1. Executed(tables, s) = [tables EXCEPT !.count[s.who] = @ + 1] BY <1>3 DEF Executed
    <2> QED BY <1>1, <2>1 DEF IsDb
  <1>4. CASE s.do = "activity"
    <2>1. Executed(tables, s) = [tables EXCEPT !.activity[s.who][s.event.hour] = @ + 1] BY <1>4 DEF Executed
    <2> QED BY <1>1, <2>1 DEF IsDb
  <1>5. CASE s.do = "recent"
    <2>1. Executed(tables, s) = [tables EXCEPT !.recent = Append(@, s.event.id)] BY <1>5 DEF Executed
    <2>2. Append(tables.recent, event.id) \in Seq(Ids) BY <1>1
    <2> QED BY <1>1, <2>1, <2>2 DEF IsDb
  <1>6. CASE s.do = "trim"
    <2> DEFINE r == tables.recent
               m == Max({1, Len(r) - RecentMax + 1})
    <2>1. Executed(tables, s) = [tables EXCEPT !.recent = SubSeq(r, m, Len(r))] BY <1>6 DEF Executed
    <2>2. Len(r) \in Nat /\ RecentMax \in Nat /\ DOMAIN r = 1..Len(r) /\ \A i \in 1..Len(r) : r[i] \in Ids
      BY <1>1, IngestFrontAssumption
    <2>3. m \in Int /\ m >= 1
      <3> DEFINE T == {1, Len(r) - RecentMax + 1}
      <3>1. Len(r) - RecentMax + 1 \in Int BY <2>2
      <3>2. \E x \in T : \A y \in T : x >= y BY <3>1
      <3>3. Max(T) \in T /\ \A y \in T : Max(T) >= y BY <3>2 DEF Max
      <3> QED BY <3>1, <3>3
    <2> HIDE DEF m, r
    <2>4. \A i \in m..Len(r) : r[i] \in Ids BY <2>2, <2>3
    <2>5. SubSeq(r, m, Len(r)) \in Seq(Ids) BY <2>2, <2>3, <2>4, SubSeqProperties
    <2> QED BY <1>1, <2>1, <2>5 DEF IsDb
  <1> QED BY <1>1, <1>2, <1>3, <1>4, <1>5, <1>6

LEMMA StatementsAre ==
  ASSUME NEW event, Len(event.who) \in Nat
  PROVE  Statements(event) \in Seq(DoneTo(event))
  <1> DEFINE about(i) == [do |-> IF i % 2 = 1 THEN "registry" ELSE "activity",
                          who |-> event.who[(i + 1) \div 2], event |-> event]
             other(do) == [do |-> do, who |-> "", event |-> event]
             n == 2 * Len(event.who)
             middle == [i \in 1..n |-> about(i)]
             end == IF RecentMax = 0 THEN <<>> ELSE <<other("recent"), other("trim")>>
  <1>1. \A do \in {"event", "recent", "trim"} : other(do) \in DoneTo(event) BY DEF DoneTo
  <1>2. \A i \in 1..n : about(i) \in DoneTo(event) BY DEF DoneTo
  <1>3. n \in Nat OBVIOUS
  <1>4. Statements(event) = <<other("event")>> \o middle \o end BY DEF Statements
  <1> HIDE DEF about, other, n
  <1>5. middle \in Seq(DoneTo(event)) BY <1>2, <1>3
  <1>6. <<other("event")>> \in Seq(DoneTo(event)) BY <1>1
  <1>7. end \in Seq(DoneTo(event)) BY <1>1
  <1> HIDE DEF middle, end
  <1>8. <<other("event")>> \o middle \in Seq(DoneTo(event)) BY <1>5, <1>6, ConcatProperties
  <1>9. <<other("event")>> \o middle \o end \in Seq(DoneTo(event)) BY <1>7, <1>8, ConcatProperties
  <1> QED BY <1>4, <1>9

(* However many of the statements have been executed, the tables fit.        *)
LEMMA PersistedFits ==
  ASSUME NEW tables, IsDb(tables), NEW event, event.id \in Ids, Len(event.who) \in Nat,
         NEW n \in Nat, n <= Len(Statements(event))
  PROVE  IsDb(Persisted(tables, event, n))
  <1> DEFINE seq == SubSeq(Statements(event), 1, n)
             S == 1..n
  <1>1. Statements(event) \in Seq(DoneTo(event)) BY StatementsAre
  <1>2. seq \in Seq(DoneTo(event)) /\ Len(seq) = n
    <2>1. \A i \in 1..n : Statements(event)[i] \in DoneTo(event) BY <1>1
    <2>2. 1 \in Int /\ n \in Int /\ (IF 1 <= n THEN n - 1 + 1 ELSE 0) = n OBVIOUS
    <2>3. /\ SubSeq(Statements(event), 1, n) \in Seq(DoneTo(event))
          /\ Len(SubSeq(Statements(event), 1, n)) = IF 1 <= n THEN n - 1 + 1 ELSE 0
      BY <2>1, <2>2, SubSeqProperties
    <2> QED BY <2>2, <2>3
  <1> HIDE DEF seq
  <1>3. DOMAIN seq = 1..n /\ \A i \in 1..n : seq[i] \in DoneTo(event) BY <1>2
  <1>4. PICK g : FoldLeft(Executed, tables, seq) = g[1..n] /\ StatementsRun(g, tables, seq, 1..n)
    BY <1>3, FoldRuns
  <1>5. Persisted(tables, event, n) = g[1..n] BY <1>4 DEF Persisted, seq
  <1>6. IsFiniteSet(S) /\ S \subseteq Int /\ Cardinality(S) \in Nat
    <2>1. 1 \in Int /\ n \in Int OBVIOUS
    <2> QED BY <2>1, FS_Interval, FS_CardinalityType
  <1>7. StatementsRun(g, tables, seq, S) BY <1>4
  <1>8. \A i \in S : seq[i] \in DoneTo(event) BY <1>3
  <1> SUFFICES IsDb(g[S]) BY <1>5
  <1> HIDE DEF S
  <1> DEFINE Fit == {k \in Nat : \A s \in SUBSET S : Cardinality(s) = k => IsDb(g[s])}
  <1>9. \A s \in SUBSET S : IsFiniteSet(s) /\ Cardinality(s) \in Nat /\ s \subseteq Int
    BY <1>6, FS_Subset, FS_CardinalityType
  <1>10. 0 \in Fit
    <2>1. \A s \in SUBSET S : Cardinality(s) = 0 => s = {} BY <1>9, FS_EmptySet
    <2>2. g[{}] = tables BY <1>7 DEF StatementsRun
    <2> QED BY <2>1, <2>2
  <1>11. ASSUME NEW k \in Nat, k \in Fit PROVE k + 1 \in Fit
    <2>1. ASSUME NEW s \in SUBSET S, Cardinality(s) = k + 1 PROVE IsDb(g[s])
      <3>1. s # {}
        <4>1. Cardinality({}) = 0 /\ k + 1 # 0 BY FS_EmptySet
        <4> QED BY <2>1, <4>1
      <3> DEFINE x == LastPlace(s)
      <3>2. x \in s BY <3>1, <1>9, LastIsIn
      <3>3. g[s] = Executed(g[s \ {x}], seq[x]) BY <1>7, <3>1 DEF StatementsRun
      <3> HIDE DEF x
      <3>4. Cardinality(s \ {x}) = k BY <2>1, <1>9, <3>2, FS_RemoveElement
      <3>5. IsDb(g[s \ {x}]) BY <1>11, <3>4
      <3>6. seq[x] \in DoneTo(event) BY <1>8, <3>2
      <3> QED BY <3>3, <3>5, <3>6, ExecutedFits
    <2> QED BY <2>1
  <1>12. Cardinality(S) \in Fit
    <2> HIDE DEF Fit
    <2> QED BY <1>6, <1>10, <1>11, Induction
  <1> QED BY <1>12

(* ---- the variables of the front ------------------------------------------ *)
LEMMA EventInHand ==
  ASSUME KeysInv, RangesInv, NEW l \in Lanes, lane[l].at \in {"assess", "store", "after"}
  PROVE  EventOf(l).id \in Ids /\ Len(EventOf(l).who) \in Nat
  <1> DEFINE body == runs[lane[l].run].body
  <1>1. lane[l].i \in DOMAIN body BY DEF RangesInv, BodiesInHand
  <1>2. runs[lane[l].run] \in Request BY FlightAt
  <1>3. body \in Bodies BY <1>2 DEF Request
  <1> DEFINE R == [id : Ids, who : Seq(Who), hour : Hours, hit : BOOLEAN]
  <1>4. body \in Seq(R) BY <1>3, IngestFrontAssumption
  <1>5. EventOf(l) = body[lane[l].i] BY DEF EventOf
  <1> HIDE DEF body, R
  <1>6. EventOf(l) \in R BY <1>1, <1>4, <1>5
  <1>7. EventOf(l).id \in Ids /\ EventOf(l).who \in Seq(Who) BY <1>6 DEF R
  <1> QED BY <1>7

(* One lane steps, and the bodies of the runs stay.                          *)
LEMMA BodiesStay ==
  ASSUME KeysInv, RangesInv, NEW l \in Lanes, \A m \in Lanes : m # l => lane'[m] = lane[m],
         \A r \in DOMAIN runs : runs'[r].body = runs[r].body,
         lane'[l].at \in {"assess", "store", "after"} => lane'[l].i \in DOMAIN runs'[lane'[l].run].body
  PROVE  BodiesInHand'
  <1>1. ASSUME NEW m \in Lanes, lane'[m].at \in {"assess", "store", "after"}
        PROVE  lane'[m].i \in DOMAIN runs'[lane'[m].run].body
    <2>1. CASE m = l BY <1>1, <2>1
    <2>2. CASE m # l
      <3>1. lane'[m] = lane[m] BY <2>2
      <3>2. lane[m].run \in DOMAIN runs BY <1>1, <3>1, RowIsAnswer DEF KeysInv, FlightsFit
      <3>3. lane[m].i \in DOMAIN runs[lane[m].run].body BY <1>1, <3>1 DEF RangesInv, BodiesInHand
      <3> QED BY <3>1, <3>2, <3>3
    <2> QED BY <2>1, <2>2
  <1> QED BY <1>1 DEF BodiesInHand

LEMMA RangesKept == KeysInv /\ KeysInv' /\ RangesInv /\ [FrontNext]_frontVars => RangesInv'
  <1> SUFFICES ASSUME KeysInv, KeysInv', RangesInv, [FrontNext]_frontVars PROVE RangesInv'
    OBVIOUS
  <1>1. /\ clock \in 0..MaxClock /\ troubles \in 0..MaxTroubles /\ Len(runs) <= MaxSends
        /\ MaxClock \in Nat /\ MaxTroubles \in Nat /\ MaxSends \in Nat /\ IsDb(db)
    BY IngestFrontAssumption DEF RangesInv, FrontTypeOK, WindowFits, IsDb
  <1>2. \A l \in Lanes : lane'[l].at \in {"idle", "assess", "store", "after", "answer"}
    <2> SUFFICES ASSUME NEW l \in Lanes
                 PROVE  lane'[l].at \in {"idle", "assess", "store", "after", "answer"}
      OBVIOUS
    <2>1. lane'[l] \in Flight \cup {Idle} BY DEF KeysInv, FlightsFit
    <2> QED BY <2>1 DEF Flight, Idle
  <1>3. IsDb(db') => WindowFits' /\ Range(db'.recent) \subseteq Ids
    <2> SUFFICES ASSUME IsDb(db') PROVE WindowFits' /\ Range(db'.recent) \subseteq Ids
      OBVIOUS
    <2>1. WindowFits' BY DEF IsDb, WindowFits
    <2>2. db'.recent \in Seq(Ids) BY DEF IsDb
    <2>3. \A i \in DOMAIN db'.recent : db'.recent[i] \in Ids BY <2>2
    <2> QED BY <2>1, <2>3 DEF Range
  <1> DEFINE Fits == /\ clock' \in 0..MaxClock /\ troubles' \in 0..MaxTroubles /\ Len(runs') <= MaxSends
                     /\ IsDb(db') /\ BodiesInHand'
  <1> SUFFICES Fits
    BY <1>2, <1>3 DEF RangesInv, FrontTypeOK
  <1>4. runs \in Seq(Request) /\ lane \in [Lanes -> Flight \cup {Idle}] BY DEF KeysInv, FlightsFit
  <1>5. BodiesInHand BY DEF RangesInv
  <1>6. Idle.at = "idle" BY DEF Idle
  <1>7. ASSUME NEW l \in Lanes, NEW key \in IdemKeys \cup {NoKey}, NEW body \in Bodies, Take(l, key, body)
        PROVE  Fits
    <2>1. Len(runs) < MaxSends /\ UNCHANGED <<clock, db, troubles>> BY <1>7 DEF Take
    <2>2. CASE UNCHANGED <<lane, runs>>
      BY <1>1, <1>5, <2>1, <2>2 DEF BodiesInHand
    <2>3. CASE /\ runs' = Append(runs, [key |-> key, body |-> body, from |-> clock, recorded |-> -1])
               /\ lane' = [lane EXCEPT ![l] = [at |-> "assess", run |-> Len(runs) + 1, i |-> 1]]
      <3>1. Len(runs) \in Nat /\ Len(runs') = Len(runs) + 1 BY <1>4, <2>3
      <3>2. \A r \in DOMAIN runs : runs'[r].body = runs[r].body BY <1>4, <2>3
      <3>3. runs'[Len(runs) + 1].body = body BY <1>4, <2>3
      <3>4. /\ lane'[l].i = 1 /\ lane'[l].run = Len(runs) + 1 /\ \A m \in Lanes : m # l => lane'[m] = lane[m]
        BY <1>4, <2>3
      <3>5. 1 \in DOMAIN body BY IngestFrontAssumption
      <3>6. BodiesInHand' BY <3>2, <3>3, <3>4, <3>5, BodiesStay
      <3> QED BY <1>1, <2>1, <3>1, <3>6
    <2> QED BY <1>7, <2>2, <2>3 DEF Take
  <1>8. ASSUME NEW l \in Lanes, AssessEvent(l) PROVE Fits
    <2>1. lane[l].at = "assess" /\ UNCHANGED <<clock, db, troubles, runs>> BY <1>8 DEF AssessEvent
    <2>2. lane[l] \in Flight BY <2>1, FlightAt
    <2>3. /\ lane'[l].i = lane[l].i /\ lane'[l].run = lane[l].run /\ \A m \in Lanes : m # l => lane'[m] = lane[m]
      BY <1>4, <1>8, <2>2 DEF AssessEvent, Flight
    <2>4. BodiesInHand' BY <1>5, <2>1, <2>3, BodiesStay DEF BodiesInHand
    <2> QED BY <1>1, <2>1, <2>4
  <1>9. ASSUME NEW l \in Lanes, StoreEvent(l) PROVE Fits
    <2>1. lane[l].at = "store" /\ UNCHANGED <<clock, troubles, runs>> BY <1>9 DEF StoreEvent
    <2>2. lane[l] \in Flight BY <2>1, FlightAt
    <2>3. /\ lane'[l].i = lane[l].i /\ lane'[l].run = lane[l].run /\ \A m \in Lanes : m # l => lane'[m] = lane[m]
      BY <1>4, <1>9, <2>2 DEF StoreEvent, Flight
    <2>4. BodiesInHand' BY <1>5, <2>1, <2>3, BodiesStay DEF BodiesInHand
    <2>5. db' = Persisted(db, EventOf(l), Len(Statements(EventOf(l)))) BY <1>9 DEF StoreEvent
    <2>6. EventOf(l).id \in Ids /\ Len(EventOf(l).who) \in Nat BY <2>1, EventInHand
    <2>7. Len(Statements(EventOf(l))) \in Nat BY <2>6, StatementsAre
    <2>8. IsDb(db') BY <1>1, <2>5, <2>6, <2>7, PersistedFits
    <2> QED BY <1>1, <2>1, <2>4, <2>8
  <1>10. ASSUME NEW l \in Lanes, RecordSuccess(l) PROVE Fits
    <2>1. lane[l].at = "answer" /\ UNCHANGED <<clock, db, troubles>> BY <1>10 DEF RecordSuccess
    <2>2. lane' = [lane EXCEPT ![l] = Idle] BY <1>10 DEF RecordSuccess
    <2>3. lane'[l].at = "idle" /\ \A m \in Lanes : m # l => lane'[m] = lane[m] BY <1>4, <1>6, <2>2
    <2>4. runs' = runs \/ runs' = [runs EXCEPT ![lane[l].run].recorded = clock] BY <1>10 DEF RecordSuccess
    <2>5. /\ \A r \in DOMAIN runs : runs'[r].body = runs[r].body
          /\ Len(runs') = Len(runs)
      <3>1. CASE runs' = runs BY <3>1
      <3>2. CASE runs' = [runs EXCEPT ![lane[l].run].recorded = clock]
        <4>1. \A r \in DOMAIN runs : runs[r] \in Request BY <1>4
        <4>2. \A r \in DOMAIN runs : runs'[r] = runs[r] \/ runs'[r] = [runs[r] EXCEPT !.recorded = clock]
          BY <1>4, <3>2
        <4>3. \A r \in DOMAIN runs : runs'[r].body = runs[r].body BY <4>1, <4>2 DEF Request
        <4>4. runs' \in Seq(Range(runs')) /\ DOMAIN runs' = 1..Len(runs) /\ Len(runs) \in Nat
          <5>1. DOMAIN runs = 1..Len(runs) /\ Len(runs) \in Nat BY <1>4
          <5>2. runs' \in [1..Len(runs) -> Range(runs')] BY <3>2, <5>1 DEF Range
          <5> QED BY <5>1, <5>2, SeqDef
        <4>5. Len(runs') = Len(runs) BY <4>4
        <4> QED BY <4>3, <4>5
      <3> QED BY <2>4, <3>1, <3>2
    <2>6. BodiesInHand' BY <2>3, <2>5, BodiesStay
    <2> QED BY <1>1, <2>1, <2>5, <2>6
  <1>11. ASSUME NEW l \in Lanes, NEW ok \in BOOLEAN, AfterIngest(l, ok) PROVE Fits
    <2>1. lane[l].at = "after" /\ UNCHANGED <<clock, db, troubles, runs>> BY <1>11 DEF AfterIngest
    <2>2. lane[l] \in Flight BY <2>1, FlightAt
    <2> DEFINE body == runs[lane[l].run].body
    <2>3. /\ lane' = [lane EXCEPT ![l] = IF lane[l].i < Len(body)
                                         THEN [lane[l] EXCEPT !.i = lane[l].i + 1, !.at = "assess"]
                                         ELSE [lane[l] EXCEPT !.at = "answer"]]
      BY <1>11 DEF AfterIngest
    <2>4. body \in Seq([id : Ids, who : Seq(Who), hour : Hours, hit : BOOLEAN])
      <3>1. runs[lane[l].run] \in Request BY <2>1, FlightAt
      <3>2. body \in Bodies BY <3>1 DEF Request
      <3> QED BY <3>2, IngestFrontAssumption
    <2>5. DOMAIN body = 1..Len(body) /\ Len(body) \in Nat BY <2>4
    <2>6. lane[l].i \in DOMAIN body BY <1>5, <2>1 DEF BodiesInHand
    <2> HIDE DEF body
    <2>7. /\ \A m \in Lanes : m # l => lane'[m] = lane[m]
          /\ lane'[l].at = "answer" \/ (lane[l].i < Len(body) /\ lane'[l].i = lane[l].i + 1 /\ lane'[l].run = lane[l].run)
      BY <1>4, <2>2, <2>3 DEF Flight
    <2>8. lane'[l].at = "answer" \/ (lane'[l].i \in DOMAIN body /\ lane'[l].run = lane[l].run)
      BY <2>5, <2>6, <2>7
    <2>9. BodiesInHand' BY <2>1, <2>7, <2>8, BodiesStay DEF body
    <2> QED BY <1>1, <2>1, <2>9
  <1>12. ASSUME NEW l \in Lanes, NEW n \in 0..8, Fail(l, n) PROVE Fits
    <2>1. /\ lane[l].at \in {"assess", "store"} /\ troubles < MaxTroubles /\ troubles' = troubles + 1
          /\ n < Len(Statements(EventOf(l))) /\ db' = Persisted(db, EventOf(l), n)
          /\ lane' = [lane EXCEPT ![l] = Idle] /\ UNCHANGED <<clock, runs>>
      BY <1>12 DEF Fail
    <2>2. EventOf(l).id \in Ids /\ Len(EventOf(l).who) \in Nat BY <2>1, EventInHand
    <2>3. Len(Statements(EventOf(l))) \in Nat BY <2>2, StatementsAre
    <2>4. n \in Nat /\ n <= Len(Statements(EventOf(l))) BY <2>1, <2>3
    <2>5. IsDb(db') BY <1>1, <2>1, <2>2, <2>4, PersistedFits
    <2>6. lane'[l].at = "idle" /\ \A m \in Lanes : m # l => lane'[m] = lane[m] BY <1>4, <1>6, <2>1
    <2>7. BodiesInHand' BY <2>1, <2>6, BodiesStay
    <2> QED BY <1>1, <2>1, <2>5, <2>7
  <1>13. ASSUME NEW l \in Lanes, NEW n \in 0..8, Crash(l, n) PROVE Fits
    <2>1. /\ troubles < MaxTroubles /\ troubles' = troubles + 1 /\ UNCHANGED <<clock, runs>>
          /\ lane' = [m \in Lanes |-> Idle]
          /\ db' = IF lane[l].at = "store" THEN Persisted(db, EventOf(l), n) ELSE db
          /\ lane[l].at = "store" => n < Len(Statements(EventOf(l)))
      BY <1>13 DEF Crash
    <2>2. BodiesInHand' BY <1>6, <2>1 DEF BodiesInHand
    <2>3. CASE lane[l].at = "store"
      <3>1. EventOf(l).id \in Ids /\ Len(EventOf(l).who) \in Nat BY <2>3, EventInHand
      <3>2. Len(Statements(EventOf(l))) \in Nat BY <3>1, StatementsAre
      <3>3. n \in Nat /\ n <= Len(Statements(EventOf(l))) BY <2>1, <2>3, <3>2
      <3>4. IsDb(db') BY <1>1, <2>1, <2>3, <3>1, <3>3, PersistedFits
      <3> QED BY <1>1, <2>1, <2>2, <3>4
    <2>4. CASE lane[l].at # "store" BY <1>1, <2>1, <2>2, <2>4
    <2> QED BY <2>3, <2>4
  <1>14. CASE Tick BY <1>1, <1>5, <1>14 DEF Tick, BodiesInHand
  <1>15. CASE UNCHANGED frontVars BY <1>1, <1>5, <1>15 DEF frontVars, BodiesInHand
  <1> QED BY <1>7, <1>8, <1>9, <1>10, <1>11, <1>12, <1>13, <1>14, <1>15 DEF FrontNext

LEMMA RangesStart == FrontInit => RangesInv
  <1> SUFFICES ASSUME FrontInit PROVE RangesInv
    OBVIOUS
  <1>1. clock = 0 /\ troubles = 0 /\ runs = <<>> /\ lane = [l \in Lanes |-> Idle] BY DEF FrontInit
  <1>2. db = [rows |-> [e \in Ids |-> NoEvent], count |-> [w \in Who |-> 0],
              activity |-> [w \in Who |-> [h \in Hours |-> 0]], recent |-> <<>>]
    BY DEF FrontInit
  <1>3. WindowFits /\ Range(db.recent) = {} BY <1>2 DEF WindowFits, Range
  <1>4. \A l \in Lanes : lane[l].at = "idle" BY <1>1 DEF Idle
  <1>5. BodiesInHand BY <1>4 DEF BodiesInHand
  <1> QED BY <1>1, <1>3, <1>4, <1>5, IngestFrontAssumption DEF RangesInv, FrontTypeOK

(* Wherever it is in its requests, the front keeps its variables in their    *)
(* ranges: every lane has an event of its body in hand until it answers, and *)
(* the window of recent events names ids, also after a death among the       *)
(* statements of the store (RangesInv, FrontTypeOK).                         *)
THEOREM FrontTyped == FrontSpec => []RangesInv
  <1>1. KeysInv /\ KeysInv' /\ RangesInv /\ [FrontNext]_frontVars => RangesInv' BY RangesKept
  <1> QED BY <1>1, KeysInductive, RangesStart, PTL DEF FrontSpec

(* ---- the variables of the settings, the engagement and the desk ---------- *)
(* A request and the file of the settings are where the invariant says.      *)
LEMMA SettingsPlaces ==
  /\ \A p \in PutRequests \cup {Done} :
       p.at \in {"done", "read", "open", "write", "weights", "thresholds", "version"}
  /\ \A f \in Texts \cup {Torn} : f.rest # "" => f.rest \in {"whole", "tail", "cut", "torn"}
  /\ Torn.rest # ""
  <1>1. \A p \in PutRequests : p.at \in PutPhases BY DEF PutRequests
  <1>2. Done.at = "done" BY DEF Done
  <1>3. Torn.rest = "torn" BY DEF Torn
  <1>4. \A f \in Texts : f.rest \in {"", "whole", "tail", "cut"} BY DEF Texts
  <1> QED BY <1>1, <1>2, <1>3, <1>4 DEF PutPhases

LEMMA SettingsTypeKept == SettingsInv' /\ SettingsTypeOK /\ [SettingsNext]_settingsVars => SettingsTypeOK'
  <1> SUFFICES ASSUME SettingsInv', SettingsTypeOK, [SettingsNext]_settingsVars PROVE SettingsTypeOK'
    OBVIOUS
  <1>1. /\ file'.rest \in {"whole", "tail", "cut", "torn"}
        /\ \A a \in Admins : put'[a].at \in {"done", "read", "open", "write", "weights", "thresholds", "version"}
    <2>1. OnlyValidated' BY DEF SettingsInv
    <2>2. Texts' = [set : RiskSets, version : Versions', rest : {"", "whole", "tail", "cut"}] BY DEF Texts
    <2>3. PutRequests' = [at : PutPhases, alone : BOOLEAN, text : Texts'] BY DEF PutRequests
    <2>4. file' = Torn \/ (file' \in Texts' /\ file'.rest # "") BY <2>1 DEF OnlyValidated
    <2>5. \A a \in Admins : put'[a] = Done \/ put'[a] \in PutRequests' BY <2>1 DEF OnlyValidated
    <2>6. Torn.rest = "torn" /\ Done.at = "done" BY DEF Torn, Done
    <2>7. \A f \in Texts' : f.rest \in {"", "whole", "tail", "cut"} BY <2>2
    <2>8. \A p \in PutRequests' : p.at \in PutPhases BY <2>3
    <2> QED BY <2>4, <2>5, <2>6, <2>7, <2>8 DEF PutPhases
  <1>2. /\ month \in 1..MaxMonth /\ puts \in 0..MaxPuts /\ breaks \in 0..MaxBreaks
        /\ MaxMonth \in Nat /\ MaxPuts \in Nat /\ MaxBreaks \in Nat
        /\ running \in BOOLEAN /\ overlap \in BOOLEAN /\ split \in BOOLEAN
    BY SettingsAssumption DEF SettingsTypeOK
  <1>3. month' \in 1..MaxMonth /\ puts' \in 0..MaxPuts /\ breaks' \in 0..MaxBreaks
    <2>1. ASSUME NEW a \in Admins, NEW set \in Proposals, Receive(a, set)
          PROVE  month' = month /\ puts < MaxPuts /\ puts' = puts + 1 /\ breaks' = breaks
      BY <2>1 DEF Receive
    <2>2. ASSUME NEW a \in Admins,
                 ReadAndRewrite(a) \/ Open(a) \/ WriteSource(a) \/ TakeWeights(a) \/ TakeThresholds(a)
                   \/ TakeVersion(a)
          PROVE  month' = month /\ puts' = puts /\ breaks' = breaks
      BY <2>2 DEF ReadAndRewrite, Open, WriteSource, TakeWeights, TakeThresholds, TakeVersion
    <2>3. ASSUME NEW a \in Admins, WriteFails(a)
          PROVE  month' = month /\ puts' = puts /\ breaks < MaxBreaks /\ breaks' = breaks + 1
      BY <2>3 DEF WriteFails
    <2>4. ProcessDies => month' = month /\ puts' = puts /\ breaks < MaxBreaks /\ breaks' = breaks + 1
      BY DEF ProcessDies
    <2>5. Start => month' = month /\ puts' = puts /\ breaks' = breaks BY DEF Start
    <2>6. NewMonth => month < MaxMonth /\ month' = month + 1 /\ puts' = puts /\ breaks' = breaks BY DEF NewMonth
    <2>7. UNCHANGED settingsVars => month' = month /\ puts' = puts /\ breaks' = breaks BY DEF settingsVars
    <2> QED BY <1>2, <2>1, <2>2, <2>3, <2>4, <2>5, <2>6, <2>7 DEF SettingsNext
  <1>4. running' \in BOOLEAN /\ overlap' \in BOOLEAN /\ split' \in BOOLEAN
    <2>1. ASSUME NEW a \in Admins, NEW set \in Proposals, Receive(a, set)
          PROVE  running' \in BOOLEAN /\ overlap' \in BOOLEAN /\ split' \in BOOLEAN
      BY <1>2, <2>1, Zenon DEF Receive
    <2>2. ASSUME NEW a \in Admins,
                 ReadAndRewrite(a) \/ Open(a) \/ WriteSource(a) \/ TakeWeights(a) \/ TakeThresholds(a)
          PROVE  running' = running /\ overlap' = overlap /\ split' = split
      BY <2>2 DEF ReadAndRewrite, Open, WriteSource, TakeWeights, TakeThresholds
    <2>3. ASSUME NEW a \in Admins, WriteFails(a)
          PROVE  running' = running /\ overlap' = overlap /\ split' = TRUE
      BY <2>3 DEF WriteFails
    <2>4. ASSUME NEW a \in Admins, TakeVersion(a)
          PROVE  running' = running /\ overlap' = overlap /\ split' = (split /\ ~put[a].alone)
      BY <2>4 DEF TakeVersion
    <2>5. ProcessDies => running' = FALSE /\ overlap' = overlap /\ split' = split BY DEF ProcessDies
    <2>6. Start => running' = TRUE /\ overlap' = overlap /\ split' = FALSE BY DEF Start
    <2>7. NewMonth => running' = running /\ overlap' = overlap /\ split' = split BY DEF NewMonth
    <2>8. UNCHANGED settingsVars => running' = running /\ overlap' = overlap /\ split' = split
      BY DEF settingsVars
    <2> QED BY <1>2, <2>1, <2>2, <2>3, <2>4, <2>5, <2>6, <2>7, <2>8, Zenon DEF SettingsNext
  <1> QED BY <1>1, <1>3, <1>4 DEF SettingsTypeOK

LEMMA SettingsTypeStart == SettingsInit /\ SettingsInv => SettingsTypeOK
  <1> SUFFICES ASSUME SettingsInit, SettingsInv PROVE SettingsTypeOK
    OBVIOUS
  <1>1. OnlyValidated BY DEF SettingsInv
  <1>2. /\ month = 1 /\ running = TRUE /\ puts = 0 /\ breaks = 0 /\ overlap = FALSE /\ split = FALSE
    BY DEF SettingsInit
  <1>3. file.rest \in {"whole", "tail", "cut", "torn"} BY <1>1, SettingsPlaces DEF OnlyValidated
  <1>4. \A a \in Admins : put[a] \in PutRequests \cup {Done} BY <1>1 DEF OnlyValidated
  <1>5. \A a \in Admins : put[a].at \in {"done", "read", "open", "write", "weights", "thresholds", "version"}
    BY <1>4, SettingsPlaces
  <1>6. MaxMonth \in Nat \ {0} /\ MaxPuts \in Nat /\ MaxBreaks \in Nat BY SettingsAssumption
  <1>7. month \in 1..MaxMonth /\ puts \in 0..MaxPuts /\ breaks \in 0..MaxBreaks BY <1>2, <1>6
  <1> QED BY <1>2, <1>3, <1>5, <1>7 DEF SettingsTypeOK

(* ---- the engagement ------------------------------------------------------ *)
LEMMA EngagementTypeKept ==
  EngagementInv' /\ EngagementTypeOK /\ [EngagementNext]_engagementVars => EngagementTypeOK'
  <1> SUFFICES ASSUME EngagementInv', EngagementTypeOK, [EngagementNext]_engagementVars
               PROVE  EngagementTypeOK'
    OBVIOUS
  <1>1. errands \in 0..MaxErrands /\ MaxErrands \in Nat BY AuditEngagementsAssumption DEF EngagementTypeOK
  <1>2. ASSUME NEW k \in Clerks, NEW what, Call(k, what) PROVE errands < MaxErrands /\ errands' = errands + 1
    BY <1>2 DEF Call
  <1>3. ASSUME NEW k \in Clerks, Store(k) PROVE errands' = errands BY <1>3 DEF Store
  <1>4. UNCHANGED engagementVars => errands' = errands BY DEF engagementVars
  <1>5. errands' \in 0..MaxErrands BY <1>1, <1>2, <1>3, <1>4 DEF EngagementNext
  <1>6. PICK k \in 1..(Len(Stages) + 1) : engagement' \in RowsAt(k) BY DEF EngagementInv, Rows
  <1>7. engagement'.status \in {"active", "completed"} BY <1>6 DEF RowsAt
  <1>8. engagement'.stages = [j \in DOMAIN Stages |-> IF j < k THEN "completed"
                                ELSE IF j = k THEN "in_progress" ELSE "pending"]
    BY <1>6 DEF RowsAt
  <1>9. \A j \in DOMAIN Stages : engagement'.stages[j] \in {"pending", "in_progress", "completed"}
    BY <1>8
  <1> QED BY <1>5, <1>7, <1>9 DEF EngagementTypeOK

LEMMA EngagementTypeStart == EngagementInit => EngagementTypeOK
  BY AuditEngagementsAssumption DEF EngagementInit, EngagementTypeOK, NewEngagement

(* ---- the desk ------------------------------------------------------------ *)
(* A card whose decisions chain up has one of the statuses.                  *)
LEMMA ToldStatus ==
  ASSUME NEW card, CardIsTold(card)
  PROVE  card.status \in Statuses
  <1>1. IsList(card.decisions) BY DEF CardIsTold, IsCard, NewCard
  <1>2. card.decisions \in Seq(Range(card.decisions)) BY <1>1 DEF IsList, Range
  <1> DEFINE d == card.decisions
  <1>3. d \in Seq(Range(d)) BY <1>2
  <1>4. card.status = IF d = <<>> THEN "NEW" ELSE d[Len(d)].to
    BY DEF CardIsTold, TellsItsStory, DecisionsChain
  <1>5. \A i \in DOMAIN d : CanTransition(d[i].from, d[i].to)
    BY DEF CardIsTold, TellsItsStory, DecisionsChain
  <1> HIDE DEF d
  <1>6. CASE d = <<>> BY <1>4, <1>6 DEF Statuses
  <1>7. CASE d # <<>>
    <2>1. Len(d) \in DOMAIN d BY <1>3, <1>7
    <2>2. CanTransition(d[Len(d)].from, d[Len(d)].to) BY <1>5, <2>1
    <2>3. d[Len(d)].to \in Statuses BY <2>2 DEF CanTransition, Statuses
    <2> QED BY <1>4, <1>7, <2>3
  <1> QED BY <1>6, <1>7

LEMMA DeskTypeKept == DeskInv /\ DeskInv' /\ DeskTypeOK /\ [DeskNext]_deskVars => DeskTypeOK'
  <1> SUFFICES ASSUME DeskInv, DeskInv', DeskTypeOK, [DeskNext]_deskVars PROVE DeskTypeOK'
    OBVIOUS
  <1>1. \A c \in Cases : cards'[c].status \in Statuses
    <2>1. \A c \in Cases : CardIsTold(cards'[c]) BY DEF DeskInv
    <2> QED BY <2>1, ToldStatus
  <1>2. \A t \in Threads : flight'[t].at \in {"free", "looked", "read", "ready", "marked", "saved"}
    <2> SUFFICES ASSUME NEW t \in Threads
                 PROVE  flight'[t].at \in {"free", "looked", "read", "ready", "marked", "saved"}
      OBVIOUS
    <2>1. flight'[t] = Free \/ FlightIsTold(flight'[t]) BY DEF DeskInv, FlightsTold
    <2>2. flight'[t] = Free => flight'[t].at = "free" BY DEF Free
    <2>3. FlightIsTold(flight'[t]) => flight'[t].at \in {"looked", "read", "ready", "marked", "saved"}
      BY DEF FlightIsTold
    <2> QED BY <2>1, <2>2, <2>3
  <1>3. ASSUME NEW t \in Threads, flight[t].at # "free" PROVE flight[t].cmd.case \in Cases
    <2>1. FlightIsTold(flight[t]) BY <1>3 DEF DeskInv, FlightsTold, Free
    <2>2. flight[t].cmd \in Commands BY <2>1 DEF FlightIsTold
    <2> QED BY <2>2, CaseWorkAssumption
  <1>4. /\ baseline \subseteq Cases /\ stale \subseteq Cases /\ asked \in 0..MaxRequests
        /\ deaths \in 0..MaxDeaths /\ MaxRequests \in Nat /\ MaxDeaths \in Nat
    BY CaseWorkAssumption DEF DeskTypeOK
  <1>5. ASSUME NEW t \in Threads, NEW cmd \in Commands, Look(t, cmd) \/ Read(t, cmd)
        PROVE  UNCHANGED <<baseline, stale, deaths>> /\ asked < MaxRequests /\ asked' = asked + 1
    BY <1>5 DEF Look, Read
  <1>6. ASSUME NEW t \in Threads, ReadAgain(t) \/ AskChecklist(t) \/ Note(t)
        PROVE  UNCHANGED <<baseline, stale, deaths, asked>>
    BY <1>6 DEF ReadAgain, AskChecklist, Note
  <1>7. ASSUME NEW t \in Threads, MarkExpected(t)
        PROVE  UNCHANGED <<stale, deaths, asked>> /\ baseline' \subseteq Cases
    <2>1. flight[t].cmd.case \in Cases BY <1>3, <1>7 DEF MarkExpected
    <2>2. baseline' \subseteq baseline \cup {flight[t].cmd.case} BY <1>7 DEF MarkExpected
    <2> QED BY <1>4, <1>7, <2>1, <2>2 DEF MarkExpected
  <1>8. ASSUME NEW t \in Threads, Save(t)
        PROVE  UNCHANGED <<baseline, deaths, asked>> /\ stale' \subseteq Cases
    <2>1. flight[t].at # "free" BY <1>8 DEF Save, ReadyToSave
    <2>2. flight[t].cmd.case \in Cases BY <1>3, <2>1
    <2>3. stale' \subseteq stale \cup {flight[t].cmd.case} BY <1>8 DEF Save
    <2>4. UNCHANGED <<baseline, deaths, asked>> BY <1>8 DEF Save
    <2> QED BY <1>4, <2>2, <2>3, <2>4
  <1>9. Die => UNCHANGED <<baseline, stale, asked>> /\ deaths < MaxDeaths /\ deaths' = deaths + 1
    BY DEF Die
  <1>10. UNCHANGED deskVars => UNCHANGED <<baseline, stale, asked, deaths>> BY DEF deskVars
  <1>11. baseline' \subseteq Cases /\ stale' \subseteq Cases
    BY <1>4, <1>5, <1>6, <1>7, <1>8, <1>9, <1>10 DEF DeskNext
  <1>12. asked' \in 0..MaxRequests /\ deaths' \in 0..MaxDeaths
    BY <1>4, <1>5, <1>6, <1>7, <1>8, <1>9, <1>10 DEF DeskNext
  <1> QED BY <1>1, <1>2, <1>11, <1>12 DEF DeskTypeOK

LEMMA DeskTypeStart == DeskInit /\ DeskInv => DeskTypeOK
  <1> SUFFICES ASSUME DeskInit, DeskInv PROVE DeskTypeOK
    OBVIOUS
  <1>1. \A c \in Cases : cards[c].status \in Statuses
    <2>1. \A c \in Cases : CardIsTold(cards[c]) BY DEF DeskInv
    <2> QED BY <2>1, ToldStatus
  <1>2. baseline \subseteq Cases /\ stale = {} /\ asked = 0 /\ deaths = 0 BY DEF DeskInit
  <1>3. \A t \in Threads : flight[t].at = "free" BY DEF DeskInit, Free
  <1> QED BY <1>1, <1>2, <1>3, CaseWorkAssumption DEF DeskTypeOK

(* The settings, the engagement and the desk keep their variables in their   *)
(* ranges; the bounds on requests and deaths are those of the guards.        *)
THEOREM SettingsTyped == SettingsSpec => []SettingsTypeOK
  <1>1. SettingsInv' /\ SettingsTypeOK /\ [SettingsNext]_settingsVars => SettingsTypeOK'
    BY SettingsTypeKept
  <1>2. SettingsInit /\ SettingsInv => SettingsTypeOK BY SettingsTypeStart
  <1> QED BY <1>1, <1>2, SettingsInductive, PTL DEF SettingsSpec

THEOREM EngagementTyped == EngagementSpec => []EngagementTypeOK
  <1>1. EngagementInv' /\ EngagementTypeOK /\ [EngagementNext]_engagementVars => EngagementTypeOK'
    BY EngagementTypeKept
  <1> QED BY <1>1, EngagementTypeStart, EngagementInductive, PTL DEF EngagementSpec

(* Every card has one of the statuses (DeskTypeOK).                          *)
THEOREM DeskTyped == DeskSpec => []DeskTypeOK
  <1>1. DeskInv /\ DeskInv' /\ DeskTypeOK /\ [DeskNext]_deskVars => DeskTypeOK' BY DeskTypeKept
  <1>2. DeskInit /\ DeskInv => DeskTypeOK BY DeskTypeStart
  <1> QED BY <1>1, <1>2, DeskInductive, PTL DEF DeskSpec

(* ---- sequences that grow ------------------------------------------------- *)
LEMMA RangeGrows ==
  ASSUME NEW s, s \in Seq(Range(s)), NEW x
  PROVE  /\ Append(s, x) \in Seq(Range(Append(s, x)))
         /\ Len(s) \in Nat /\ DOMAIN s = 1..Len(s) /\ Len(Append(s, x)) = Len(s) + 1
         /\ DOMAIN Append(s, x) = 1..(Len(s) + 1)
         /\ \A i \in DOMAIN s : Append(s, x)[i] = s[i]
         /\ Append(s, x)[Len(s) + 1] = x
  <1>1. IsList(s) BY DEF IsList, Range
  <1>2. Len(s) \in Nat /\ DOMAIN s = 1..Len(s) BY <1>1, ListFacts
  <1>3. IsList(Append(s, x)) BY <1>1, Appended
  <1>4. Append(s, x) \in Seq(Range(Append(s, x))) BY <1>3 DEF IsList, Range
  <1>5. /\ Len(Append(s, x)) = Len(s) + 1 /\ DOMAIN Append(s, x) = 1..(Len(s) + 1)
        /\ \A i \in 1..Len(s) : Append(s, x)[i] = s[i]
        /\ Append(s, x)[Len(s) + 1] = x
    BY <1>1, Appended
  <1> QED BY <1>2, <1>4, <1>5

(* ---- the loader ---------------------------------------------------------- *)
LEMMA MarkIsKept == \A event, trust, post : Marked(event, trust, post).post = post
  BY DEF Marked

LEMMA HoldKeeps ==
  ASSUME NEW event, held \in Seq(Range(held)), Hold(event)
  PROVE  /\ held' \in Seq(Range(held'))
         /\ \A i \in DOMAIN held' : \/ held'[i] = event
                                    \/ i \in DOMAIN held /\ held'[i] = held[i] /\ held[i].id # event.id
  <1>1. CASE event.id \in HeldIds
    <2>1. held' = [i \in DOMAIN held |-> IF held[i].id = event.id THEN event ELSE held[i]] BY <1>1 DEF Hold
    <2>2. Len(held) \in Nat /\ DOMAIN held = 1..Len(held) OBVIOUS
    <2>3. held' \in [1..Len(held) -> Range(held')] BY <2>1, <2>2 DEF Range
    <2>4. held' \in Seq(Range(held')) BY <2>2, <2>3, SeqDef
    <2> QED BY <2>1, <2>4
  <1>2. CASE event.id \notin HeldIds
    <2>1. held' = Append(held, event) BY <1>2 DEF Hold
    <2> DEFINE a == Append(held, event)
    <2>2. /\ a \in Seq(Range(a)) /\ Len(held) \in Nat /\ DOMAIN held = 1..Len(held)
          /\ DOMAIN a = 1..(Len(held) + 1)
          /\ \A i \in DOMAIN held : a[i] = held[i]
          /\ a[Len(held) + 1] = event
      BY RangeGrows
    <2> HIDE DEF a
    <2>3. held' = a BY <2>1 DEF a
    <2>4. \A i \in DOMAIN a : a[i] = event \/ (i \in DOMAIN held /\ a[i] = held[i]) BY <2>2
    <2>5. \A i \in DOMAIN held : held[i].id # event.id BY <1>2 DEF HeldIds
    <2> QED BY <2>2, <2>3, <2>4, <2>5
  <1> QED BY <1>1, <1>2

(* A line that is read is counted with those before it, or it is of another  *)
(* kind; at the end all have been counted.                                   *)
LEMMA LineCounts ==
  ASSUME NEW lines, IsFiniteSet(lines), lines \subseteq Nat, NEW n \in Nat
  PROVE  /\ IsFiniteSet(LinesBefore(n, lines)) /\ Cardinality(LinesBefore(n, lines)) \in Nat
         /\ n \in lines => Cardinality(LinesBefore(n + 1, lines)) = Cardinality(LinesBefore(n, lines)) + 1
         /\ n \notin lines => Cardinality(LinesBefore(n + 1, lines)) = Cardinality(LinesBefore(n, lines))
  <1>1. IsFiniteSet(LinesBefore(n, lines)) BY FS_Subset DEF LinesBefore
  <1>2. Cardinality(LinesBefore(n, lines)) \in Nat BY <1>1, FS_CardinalityType
  <1>3. ASSUME n \in lines
        PROVE  Cardinality(LinesBefore(n + 1, lines)) = Cardinality(LinesBefore(n, lines)) + 1
    <2>0. \A m \in lines : m < n + 1 <=> m < n \/ m = n OBVIOUS
    <2>1. LinesBefore(n + 1, lines) = LinesBefore(n, lines) \cup {n} BY <1>3, <2>0, Zenon DEF LinesBefore
    <2>2. n \notin LinesBefore(n, lines) BY DEF LinesBefore
    <2>3. Cardinality(LinesBefore(n, lines) \cup {n}) = Cardinality(LinesBefore(n, lines)) + 1
      BY <1>1, <2>2, FS_AddElement
    <2> QED BY <2>1, <2>3, Zenon
  <1>4. ASSUME n \notin lines
        PROVE  Cardinality(LinesBefore(n + 1, lines)) = Cardinality(LinesBefore(n, lines))
    <2>0. \A m \in lines : m < n + 1 <=> m < n \/ m = n OBVIOUS
    <2>1. LinesBefore(n + 1, lines) = LinesBefore(n, lines) BY <1>4, <2>0, Zenon DEF LinesBefore
    <2> QED BY <2>1, Zenon
  <1> QED BY <1>1, <1>2, <1>3, <1>4

LEMMA KindsOfLines ==
  ASSUME picked \in DOMAIN Exports
  PROVE  /\ Len(export.lines) \in Nat /\ DOMAIN export.lines = 1..Len(export.lines)
         /\ IsFiniteSet(EventLines) /\ EventLines \subseteq 1..Len(export.lines)
         /\ IsFiniteSet(SkippedLines) /\ SkippedLines \subseteq 1..Len(export.lines)
  <1>1. export.lines \in Seq(Range(export.lines)) BY DatasetLoadAssumption, Zenon DEF export
  <1>2. Len(export.lines) \in Nat /\ DOMAIN export.lines = 1..Len(export.lines) BY <1>1
  <1>3. IsFiniteSet(1..Len(export.lines))
    <2>1. 1 \in Int /\ Len(export.lines) \in Int BY <1>2
    <2> QED BY <2>1, FS_Interval, Zenon
  <1>4. EventLines \subseteq 1..Len(export.lines) /\ SkippedLines \subseteq 1..Len(export.lines)
    BY <1>2 DEF EventLines, SkippedLines
  <1> QED BY <1>2, <1>3, <1>4, FS_Subset

LEMMA FileStays == picked' = picked => /\ export' = export /\ EventLines' = EventLines
                                       /\ SkippedLines' = SkippedLines
  BY DEF export, EventLines, SkippedLines

(* What is said of the store, the signals and the histories.                 *)
SignalsKept ==
  /\ held \in Seq(Range(held)) /\ mishaps \in Nat
  /\ loader.at \in {"assembled", "cleared"} => loader.seen \subseteq served
  /\ \A i \in DOMAIN held : held[i].operation \in Alarming /\ mishaps = 0 =>
       held[i].id \in served \cup signals \cup {event.id : event \in missed}
  /\ \A event \in missed : event.post
  /\ loader.at = "assembled" =>
       \A i \in DOMAIN held : held[i].id \in signals \ served => held[i].post

(* What is said of the loader and its reports.                               *)
LinesCounted ==
  /\ picked \in DOMAIN Exports /\ exits \in Seq(Range(exits))
  /\ \A i \in DOMAIN exits : exits[i].code # "traceback" =>
       /\ exits[i].processed + exits[i].failed = Cardinality(EventLines)
       /\ exits[i].skipped = Cardinality(SkippedLines)
  /\ DOMAIN loader = DOMAIN Off
  /\ loader.at \in {"off", "reading", "assembled", "cleared"}
  /\ loader.at # "off" =>
       /\ {loader.processed, loader.failed, loader.skipped} \subseteq Nat
       /\ loader.line \in 1..(Len(export.lines) + 1)
       /\ loader.processed + loader.failed = Cardinality(LinesBefore(loader.line, EventLines))
       /\ loader.skipped = Cardinality(LinesBefore(loader.line, SkippedLines))
  /\ loader.at \in {"assembled", "cleared"} => loader.line \notin DOMAIN export.lines

LEMMA SignalsStart == LoadInit => SignalsKept
  BY DatasetLoadAssumption DEF LoadInit, SignalsKept, Off, Range

LEMMA TakenIn ==
  ASSUME SignalsKept, NEW event, Hold(event), Signalled(event), UNCHANGED <<mishaps, served, missed>>,
         loader'.at = "assembled" => loader.at = "assembled" /\ event.post,
         loader'.at \in {"assembled", "cleared"} => loader' = loader
  PROVE  SignalsKept'
  <1>1. /\ held' \in Seq(Range(held'))
        /\ \A i \in DOMAIN held' : \/ held'[i] = event
                                   \/ i \in DOMAIN held /\ held'[i] = held[i] /\ held[i].id # event.id
    BY HoldKeeps DEF SignalsKept
  <1>2. signals \subseteq signals' /\ signals' \subseteq signals \cup {event.id} BY DEF Signalled
  <1>3. event.operation \in Alarming => event.id \in signals' BY DEF Signalled
  <1>4. ASSUME NEW i \in DOMAIN held', held'[i].operation \in Alarming, mishaps = 0
        PROVE  held'[i].id \in served \cup signals' \cup {e.id : e \in missed}
    BY <1>1, <1>2, <1>3, <1>4 DEF SignalsKept
  <1>5. ASSUME NEW i \in DOMAIN held', held'[i].id \in signals' \ served, loader'.at = "assembled"
        PROVE  held'[i].post
    BY <1>1, <1>2, <1>5 DEF SignalsKept
  <1> QED BY <1>1, <1>4, <1>5 DEF SignalsKept

LEMMA SignalsKeep ==
  ASSUME SignalsKept, LinesCounted, LoadNext \/ UNCHANGED loadVars
  PROVE  SignalsKept'
  <1>1. ASSUME NEW assemble \in BOOLEAN, Begin(assemble) PROVE SignalsKept'
    BY <1>1 DEF Begin, SignalsKept, Off
  <1>2. CASE PassLine BY <1>2 DEF PassLine, SignalsKept, LinesCounted, AtLine, Off, Rest
  <1>3. CASE StopsAtLine BY <1>3 DEF StopsAtLine, SignalsKept, Off
  <1>4. CASE LoadLine
    <2>1. loader.at = "reading" /\ loader'.at = "reading" BY <1>4 DEF LoadLine, AtLine, LinesCounted, Off
    <2>2. UNCHANGED <<mishaps, served, missed>> BY <1>4 DEF LoadLine, Rest
    <2> DEFINE e == Event(loader.line)
    <2>3. Hold(e) /\ Signalled(e) BY <1>4 DEF LoadLine
    <2> HIDE DEF e
    <2> QED BY <2>1, <2>2, <2>3, TakenIn
  <1>5. ASSUME NEW kept \in BOOLEAN, LineFails(kept) PROVE SignalsKept'
    <2>1. loader.at = "reading" /\ loader'.at = "reading" BY <1>5 DEF LineFails, AtLine, LinesCounted, Off
    <2>2. UNCHANGED <<signals, served, missed>> /\ mishaps' = mishaps + 1 BY <1>5 DEF LineFails
    <2> DEFINE e == Event(loader.line)
    <2>3. Hold(e) \/ held' = held BY <1>5 DEF LineFails
    <2> HIDE DEF e
    <2>4. held' \in Seq(Range(held')) BY <2>3, HoldKeeps DEF SignalsKept
    <2> QED BY <2>1, <2>2, <2>4 DEF SignalsKept
  <1>6. CASE Assemble
    <2>1. /\ loader'.at = "assembled" /\ loader'.seen = HeldIds /\ served' = served \cup HeldIds
          /\ UNCHANGED <<held, signals, missed, mishaps>>
      BY <1>6 DEF Assemble, LinesCounted, Off, Rest
    <2>2. \A i \in DOMAIN held : held[i].id \in served' BY <2>1 DEF HeldIds
    <2> QED BY <2>1, <2>2 DEF SignalsKept
  <1>7. CASE ClearAssemblySignals
    <2>1. /\ loader.at = "assembled" /\ loader'.at = "cleared" /\ loader'.seen = loader.seen
          /\ signals' = {} /\ UNCHANGED <<held, served, mishaps>>
          /\ missed' = missed \cup {held[i] : i \in {j \in DOMAIN held : held[j].id \in signals \ served}}
      BY <1>7 DEF ClearAssemblySignals, LinesCounted, Off, Rest
    <2>2. ASSUME NEW i \in DOMAIN held, held[i].operation \in Alarming, mishaps = 0
          PROVE  held[i].id \in served \cup {e.id : e \in missed'}
      <3>1. held[i].id \in served \cup signals \cup {e.id : e \in missed} BY <2>2 DEF SignalsKept
      <3>2. CASE held[i].id \in signals \ served
        <4>1. held[i] \in missed' BY <2>1, <3>2
        <4> QED BY <4>1
      <3> QED BY <3>1, <3>2, <2>1
    <2>3. \A e \in missed' : e.post BY <2>1 DEF SignalsKept
    <2> QED BY <2>1, <2>2, <2>3 DEF SignalsKept
  <1>8. CASE ClearingFails
    BY <1>8 DEF ClearingFails, LinesCounted, SignalsKept, Off
  <1>9. CASE Report BY <1>9 DEF Report, SignalsKept, Off
  <1>10. CASE Killed BY <1>10 DEF Killed, SignalsKept, Off
  <1>11. ASSUME NEW sent \in Posts, Post(sent) PROVE SignalsKept'
    <2> DEFINE e == Marked(Prepared(sent.kind, sent.body, <<"post", ToString(posts + 1)>>), 100, TRUE)
    <2>1. Hold(e) /\ Signalled(e) /\ UNCHANGED <<loader, mishaps, served, missed>> BY <1>11 DEF Post
    <2>2. e.post = TRUE BY MarkIsKept
    <2> HIDE DEF e
    <2> QED BY <2>1, <2>2, TakenIn
  <1>12. CASE WorkerRuns
    <2>1. /\ signals' = {} /\ served' = served \cup HeldIds /\ UNCHANGED <<held, loader, missed, mishaps>>
      BY <1>12 DEF WorkerRuns, Rest
    <2>2. \A i \in DOMAIN held : held[i].id \in served' BY <2>1 DEF HeldIds
    <2> QED BY <2>1, <2>2 DEF SignalsKept
  <1>13. CASE UNCHANGED loadVars BY <1>13 DEF loadVars, SignalsKept
  <1> QED BY <1>1, <1>2, <1>3, <1>4, <1>5, <1>6, <1>7, <1>8, <1>9, <1>10, <1>11, <1>12, <1>13 DEF LoadNext

LEMMA LinesStart == LoadInit => LinesCounted
  BY DEF LoadInit, LinesCounted, Off, Range

(* The loader goes on to the next line, which it has counted or need not.    *)
LEMMA LineCounted ==
  ASSUME LinesCounted, picked' = picked, exits' = exits, loader.at = "reading",
         loader.line \in DOMAIN export.lines, loader'.at = "reading", DOMAIN loader' = DOMAIN loader,
         loader'.line = loader.line + 1,
         loader'.processed \in Nat, loader'.failed \in Nat, loader'.skipped \in Nat,
         loader'.processed + loader'.failed
           = loader.processed + loader.failed + (IF loader.line \in EventLines THEN 1 ELSE 0),
         loader'.skipped = loader.skipped + (IF loader.line \in SkippedLines THEN 1 ELSE 0)
  PROVE  LinesCounted'
  <1>1. /\ Len(export.lines) \in Nat /\ DOMAIN export.lines = 1..Len(export.lines)
        /\ IsFiniteSet(EventLines) /\ EventLines \subseteq 1..Len(export.lines)
        /\ IsFiniteSet(SkippedLines) /\ SkippedLines \subseteq 1..Len(export.lines)
    BY KindsOfLines DEF LinesCounted
  <1>2. export' = export /\ EventLines' = EventLines /\ SkippedLines' = SkippedLines BY FileStays
  <1> DEFINE n == loader.line
             E == EventLines
             K == SkippedLines
  <1>3. n \in Nat /\ n + 1 \in 1..(Len(export.lines) + 1) BY <1>1
  <1>4. E \subseteq Nat /\ K \subseteq Nat BY <1>1
  <1>5. /\ Cardinality(LinesBefore(n, E)) \in Nat
        /\ n \in E => Cardinality(LinesBefore(n + 1, E)) = Cardinality(LinesBefore(n, E)) + 1
        /\ n \notin E => Cardinality(LinesBefore(n + 1, E)) = Cardinality(LinesBefore(n, E))
    BY <1>1, <1>3, <1>4, LineCounts
  <1>6. /\ Cardinality(LinesBefore(n, K)) \in Nat
        /\ n \in K => Cardinality(LinesBefore(n + 1, K)) = Cardinality(LinesBefore(n, K)) + 1
        /\ n \notin K => Cardinality(LinesBefore(n + 1, K)) = Cardinality(LinesBefore(n, K))
    BY <1>1, <1>3, <1>4, LineCounts
  <1>7. /\ loader.processed + loader.failed = Cardinality(LinesBefore(n, E))
        /\ loader.skipped = Cardinality(LinesBefore(n, K))
    BY DEF LinesCounted
  <1>8. /\ loader'.processed + loader'.failed = Cardinality(LinesBefore(n + 1, E))
        /\ loader'.skipped = Cardinality(LinesBefore(n + 1, K))
    BY <1>5, <1>6, <1>7
  <1>9. /\ loader'.processed + loader'.failed = Cardinality(LinesBefore(loader'.line, EventLines'))
        /\ loader'.skipped = Cardinality(LinesBefore(loader'.line, SkippedLines'))
    BY <1>2, <1>8
  <1>10. \A i \in DOMAIN exits' : exits'[i].code # "traceback" =>
           /\ exits'[i].processed + exits'[i].failed = Cardinality(EventLines')
           /\ exits'[i].skipped = Cardinality(SkippedLines')
    BY <1>2 DEF LinesCounted
  <1> HIDE DEF n, E, K
  <1> QED BY <1>2, <1>3, <1>9, <1>10 DEF LinesCounted, n

(* The loader ends, with a report of its lines or without one.               *)
LEMMA LoaderEnds ==
  ASSUME LinesCounted, picked' = picked, loader' = Off,
         \/ exits' = exits
         \/ \E exit : /\ exits' = Append(exits, exit)
                      /\ exit.code # "traceback" =>
                           /\ exit.processed + exit.failed = Cardinality(EventLines)
                           /\ exit.skipped = Cardinality(SkippedLines)
  PROVE  LinesCounted'
  <1>1. EventLines' = EventLines /\ SkippedLines' = SkippedLines BY FileStays
  <1> DEFINE AsTold(exit) == exit.code # "traceback" =>
                             /\ exit.processed + exit.failed = Cardinality(EventLines)
                             /\ exit.skipped = Cardinality(SkippedLines)
  <1>2. exits \in Seq(Range(exits)) /\ \A i \in DOMAIN exits : AsTold(exits[i]) BY DEF LinesCounted
  <1> HIDE DEF AsTold
  <1>3. exits' \in Seq(Range(exits')) /\ \A i \in DOMAIN exits' : AsTold(exits'[i])
    <2>1. CASE exits' = exits BY <1>2, <2>1
    <2>2. CASE exits' # exits
      <3>1. PICK exit : exits' = Append(exits, exit) /\ AsTold(exit) BY <2>2 DEF AsTold
      <3> DEFINE a == Append(exits, exit)
      <3>2. /\ a \in Seq(Range(a)) /\ Len(exits) \in Nat /\ DOMAIN exits = 1..Len(exits)
            /\ DOMAIN a = 1..(Len(exits) + 1)
            /\ \A i \in DOMAIN exits : a[i] = exits[i]
            /\ a[Len(exits) + 1] = exit
        BY <1>2, RangeGrows
      <3> HIDE DEF a
      <3>3. exits' = a BY <3>1 DEF a
      <3>4. \A i \in DOMAIN a : i \in DOMAIN exits \/ i = Len(exits) + 1 BY <3>2
      <3>5. \A i \in DOMAIN a : AsTold(a[i]) BY <1>2, <3>1, <3>2, <3>4, Zenon
      <3> QED BY <3>2, <3>3, <3>5
    <2> QED BY <2>1, <2>2
  <1>4. \A i \in DOMAIN exits' : exits'[i].code # "traceback" =>
          /\ exits'[i].processed + exits'[i].failed = Cardinality(EventLines')
          /\ exits'[i].skipped = Cardinality(SkippedLines')
    BY <1>1, <1>3, Zenon DEF AsTold
  <1>5. loader'.at = "off" /\ DOMAIN loader' = DOMAIN Off BY DEF Off
  <1> QED BY <1>3, <1>4, <1>5 DEF LinesCounted

(* The loader waits, or is past its last line and goes on.                   *)
LEMMA LoaderStays ==
  ASSUME LinesCounted, UNCHANGED <<picked, exits>>,
         \/ loader' = loader
         \/ /\ loader.at # "off" /\ loader.line \notin DOMAIN export.lines
            /\ loader'.at \in {"assembled", "cleared"} /\ DOMAIN loader' = DOMAIN loader
            /\ \A f \in {"line", "processed", "failed", "skipped"} : loader'[f] = loader[f]
  PROVE  LinesCounted'
  <1>1. export' = export /\ EventLines' = EventLines /\ SkippedLines' = SkippedLines BY FileStays
  <1>2. CASE loader' = loader BY <1>1, <1>2 DEF LinesCounted
  <1>3. CASE loader' # loader
    <2>1. /\ loader.at # "off" /\ loader.line \notin DOMAIN export.lines
          /\ loader'.at \in {"assembled", "cleared"} /\ DOMAIN loader' = DOMAIN loader
          /\ loader'.line = loader.line /\ loader'.processed = loader.processed
          /\ loader'.failed = loader.failed /\ loader'.skipped = loader.skipped
      BY <1>3
    <2> QED BY <1>1, <2>1 DEF LinesCounted
  <1> QED BY <1>2, <1>3

LEMMA LinesKeep ==
  ASSUME LinesCounted, LoadNext \/ UNCHANGED loadVars
  PROVE  LinesCounted'
  <1>0. /\ Len(export.lines) \in Nat /\ DOMAIN export.lines = 1..Len(export.lines)
        /\ IsFiniteSet(EventLines) /\ EventLines \subseteq 1..Len(export.lines)
        /\ IsFiniteSet(SkippedLines) /\ SkippedLines \subseteq 1..Len(export.lines)
    BY KindsOfLines DEF LinesCounted
  <1>a. DOMAIN loader = {"at", "line", "assemble", "processed", "failed", "skipped", "seen"}
    BY DEF LinesCounted, Off
  <1>b. loader.at # "off" => /\ loader.processed \in Nat /\ loader.failed \in Nat /\ loader.skipped \in Nat
                             /\ loader.line \in Nat
    BY <1>0 DEF LinesCounted
  <1>1. ASSUME NEW assemble \in BOOLEAN, Begin(assemble) PROVE LinesCounted'
    <2>1. export' = export /\ EventLines' = EventLines /\ SkippedLines' = SkippedLines
      BY <1>1, FileStays DEF Begin
    <2>2. /\ loader'.at = "reading" /\ loader'.line = 1 /\ loader'.processed = 0 /\ loader'.failed = 0
          /\ loader'.skipped = 0 /\ DOMAIN loader' = DOMAIN Off /\ picked' = picked /\ exits' = exits
      BY <1>1 DEF Begin, Off
    <2>3. LinesBefore(1, EventLines) = {} /\ LinesBefore(1, SkippedLines) = {}
      <3>1. \A m \in 1..Len(export.lines) : ~(m < 1) BY <1>0
      <3> QED BY <1>0, <3>1, Zenon DEF LinesBefore
    <2>4. /\ 0 = Cardinality(LinesBefore(loader'.line, EventLines'))
          /\ 0 = Cardinality(LinesBefore(loader'.line, SkippedLines'))
      BY <2>1, <2>2, <2>3, FS_EmptySet, Zenon
    <2>5. loader'.line \in 1..(Len(export'.lines) + 1) BY <1>0, <2>1, <2>2
    <2>6. loader'.processed + loader'.failed = Cardinality(LinesBefore(loader'.line, EventLines'))
      BY <2>2, <2>4
    <2> QED BY <2>1, <2>2, <2>4, <2>5, <2>6 DEF LinesCounted
  <1>2. CASE PassLine
    <2>1. /\ loader.at = "reading" /\ loader.line \in DOMAIN export.lines
          /\ ReadsOf[picked][loader.line] \in {"empty", "skip"}
          /\ picked' = picked /\ exits' = exits
      BY <1>2 DEF PassLine, AtLine, Rest
    <2>2. loader.line \notin EventLines /\ (loader.line \in SkippedLines <=> AtLine({"skip"}))
      BY <2>1, Zenon DEF EventLines, SkippedLines, AtLine
    <2>3. /\ loader'.at = "reading" /\ DOMAIN loader' = DOMAIN loader
          /\ loader'.line = loader.line + 1 /\ loader'.processed = loader.processed
          /\ loader'.failed = loader.failed
          /\ loader'.skipped = loader.skipped + (IF AtLine({"skip"}) THEN 1 ELSE 0)
      BY <1>2, <1>a, <2>1 DEF PassLine
    <2> QED BY <1>b, <2>1, <2>2, <2>3, LineCounted
  <1>3. CASE StopsAtLine
    <2> DEFINE exit == [code |-> "traceback", failed |-> loader.failed, processed |-> loader.processed,
                        skipped |-> loader.skipped, line |-> loader.line]
    <2>1. exits' = Append(exits, exit) /\ loader' = Off /\ picked' = picked BY <1>3 DEF StopsAtLine
    <2>2. exit.code = "traceback" OBVIOUS
    <2> HIDE DEF exit
    <2> QED BY <2>1, <2>2, LoaderEnds
  <1>4. CASE LoadLine
    <2>1. /\ loader.at = "reading" /\ loader.line \in DOMAIN export.lines
          /\ ReadsOf[picked][loader.line] = "event"
          /\ picked' = picked /\ exits' = exits
      BY <1>4 DEF LoadLine, AtLine, Rest
    <2>2. loader.line \in EventLines /\ loader.line \notin SkippedLines
      BY <2>1 DEF EventLines, SkippedLines
    <2>3. /\ loader'.at = "reading" /\ DOMAIN loader' = DOMAIN loader
          /\ loader'.line = loader.line + 1 /\ loader'.processed = loader.processed + 1
          /\ loader'.failed = loader.failed /\ loader'.skipped = loader.skipped
      BY <1>4, <1>a, <2>1 DEF LoadLine
    <2> QED BY <1>b, <2>1, <2>2, <2>3, LineCounted
  <1>5. ASSUME NEW kept \in BOOLEAN, LineFails(kept) PROVE LinesCounted'
    <2>1. /\ loader.at = "reading" /\ loader.line \in DOMAIN export.lines
          /\ ReadsOf[picked][loader.line] = "event"
          /\ picked' = picked /\ exits' = exits
      BY <1>5 DEF LineFails, AtLine, Rest
    <2>2. loader.line \in EventLines /\ loader.line \notin SkippedLines
      BY <2>1 DEF EventLines, SkippedLines
    <2>3. /\ loader'.at = "reading" /\ DOMAIN loader' = DOMAIN loader
          /\ loader'.line = loader.line + 1 /\ loader'.processed = loader.processed
          /\ loader'.failed = loader.failed + 1 /\ loader'.skipped = loader.skipped
      BY <1>5, <1>a, <2>1 DEF LineFails
    <2> QED BY <1>b, <2>1, <2>2, <2>3, LineCounted
  <1>6. CASE Assemble
    <2>1. /\ loader.at # "off" /\ loader.line \notin DOMAIN export.lines /\ UNCHANGED <<picked, exits>>
          /\ loader'.at = "assembled" /\ DOMAIN loader' = DOMAIN loader
          /\ \A f \in {"line", "processed", "failed", "skipped"} : loader'[f] = loader[f]
      BY <1>6, <1>a DEF Assemble, AtEnd, Rest
    <2> QED BY <2>1, LoaderStays
  <1>7. CASE ClearAssemblySignals
    <2>1. /\ loader.at = "assembled" /\ UNCHANGED <<picked, exits>>
          /\ loader'.at = "cleared" /\ DOMAIN loader' = DOMAIN loader
          /\ \A f \in {"line", "processed", "failed", "skipped"} : loader'[f] = loader[f]
      BY <1>7, <1>a DEF ClearAssemblySignals, Rest
    <2>2. loader.at # "off" /\ loader.line \notin DOMAIN export.lines BY <2>1 DEF LinesCounted
    <2> QED BY <2>1, <2>2, LoaderStays
  <1>8. CASE ClearingFails
    <2>1. /\ loader.at = "assembled" /\ UNCHANGED <<picked, exits>>
          /\ loader'.at = "cleared" /\ DOMAIN loader' = DOMAIN loader
          /\ \A f \in {"line", "processed", "failed", "skipped"} : loader'[f] = loader[f]
      BY <1>8, <1>a DEF ClearingFails
    <2>2. loader.at # "off" /\ loader.line \notin DOMAIN export.lines BY <2>1 DEF LinesCounted
    <2> QED BY <2>1, <2>2, LoaderStays
  <1>9. CASE Report
    <2> DEFINE exit == [code |-> IF loader.failed = 0 THEN "0" ELSE "1", failed |-> loader.failed,
                        processed |-> loader.processed, skipped |-> loader.skipped, line |-> loader.line]
    <2>1. /\ exits' = Append(exits, exit) /\ loader' = Off /\ picked' = picked
          /\ loader.at = "cleared" \/ AtEnd
      BY <1>9 DEF Report
    <2>2. loader.at # "off" /\ loader.line \notin DOMAIN export.lines BY <2>1 DEF LinesCounted, AtEnd
    <2>3. loader.line = Len(export.lines) + 1 BY <1>0, <2>2 DEF LinesCounted
    <2>4. \A m \in 1..Len(export.lines) : m < loader.line BY <1>0, <2>3
    <2>5. LinesBefore(loader.line, EventLines) = EventLines BY <1>0, <2>4 DEF LinesBefore
    <2>6. LinesBefore(loader.line, SkippedLines) = SkippedLines BY <1>0, <2>4 DEF LinesBefore
    <2>7. /\ loader.processed + loader.failed = Cardinality(LinesBefore(loader.line, EventLines))
          /\ loader.skipped = Cardinality(LinesBefore(loader.line, SkippedLines))
      BY <2>2 DEF LinesCounted
    <2>8. /\ loader.processed + loader.failed = Cardinality(EventLines)
          /\ loader.skipped = Cardinality(SkippedLines)
      BY <2>5, <2>6, <2>7, Zenon
    <2>9. /\ exit.processed = loader.processed /\ exit.failed = loader.failed
          /\ exit.skipped = loader.skipped
      OBVIOUS
    <2> HIDE DEF exit
    <2> QED BY <2>1, <2>8, <2>9, LoaderEnds
  <1>10. CASE Killed BY <1>10, LoaderEnds DEF Killed
  <1>11. ASSUME NEW sent \in Posts, Post(sent) PROVE LinesCounted' BY <1>11, LoaderStays DEF Post
  <1>12. CASE WorkerRuns BY <1>12, LoaderStays DEF WorkerRuns, Rest
  <1>13. CASE UNCHANGED loadVars BY <1>13, LoaderStays DEF loadVars
  <1> QED BY <1>1, <1>2, <1>3, <1>4, <1>5, <1>6, <1>7, <1>8, <1>9, <1>10, <1>11, <1>12, <1>13 DEF LoadNext

(* ---- once, however often the file is loaded ------------------------------ *)
OneEach(h) == \A i, j \in DOMAIN h : h[i].id = h[j].id => i = j
FromFile(h, rows, lines) == \A i \in DOMAIN h : ~h[i].post => \E n \in lines : h[i] = rows[n]
AllIn(h, rows, lines) == \A n \in lines : \E i \in DOMAIN h : h[i].id = rows[n].id
LastIn(h, rows, lines) ==
  \A i \in DOMAIN h : \A n \in lines :
    ~h[i].post /\ h[i].id = rows[n].id => \E m \in lines : n <= m /\ h[i] = rows[m]

Puts(h, event, new) ==
  new = IF event.id \in {h[i].id : i \in DOMAIN h}
        THEN [i \in DOMAIN h |-> IF h[i].id = event.id THEN event ELSE h[i]]
        ELSE Append(h, event)

LEMMA PutIs ==
  ASSUME NEW h, h \in Seq(Range(h)), NEW event, NEW new, Puts(h, event, new)
  PROVE  /\ OneEach(h) => OneEach(new)
         /\ \A i \in DOMAIN h : \E j \in DOMAIN new : new[j].id = h[i].id
         /\ \E j \in DOMAIN new : new[j].id = event.id
         /\ \A j \in DOMAIN new : \/ new[j] = event
                                  \/ \E i \in DOMAIN h : new[j] = h[i] /\ h[i].id # event.id
  <1>1. CASE event.id \in {h[i].id : i \in DOMAIN h}
    <2>1. new = [i \in DOMAIN h |-> IF h[i].id = event.id THEN event ELSE h[i]] BY <1>1 DEF Puts
    <2>2. DOMAIN new = DOMAIN h /\ \A i \in DOMAIN h : new[i].id = h[i].id BY <2>1
    <2>3. OneEach(h) => OneEach(new) BY <2>2 DEF OneEach
    <2>4. \A j \in DOMAIN new : \/ new[j] = event
                                \/ new[j] = h[j] /\ h[j].id # event.id
      BY <2>1
    <2> QED BY <1>1, <2>2, <2>3, <2>4
  <1>2. CASE event.id \notin {h[i].id : i \in DOMAIN h}
    <2>1. new = Append(h, event) BY <1>2 DEF Puts
    <2>2. /\ Len(h) \in Nat /\ DOMAIN h = 1..Len(h) /\ DOMAIN new = 1..(Len(h) + 1)
          /\ \A i \in DOMAIN h : new[i] = h[i]
          /\ new[Len(h) + 1] = event
      BY <2>1
    <2>3. \A i \in DOMAIN h : h[i].id # event.id BY <1>2
    <2>4. \A j \in DOMAIN new : j \in DOMAIN h \/ j = Len(h) + 1 BY <2>2
    <2>5. Len(h) + 1 \in DOMAIN new BY <2>2
    <2>6. \A j \in DOMAIN h : j \in DOMAIN new BY <2>2
    <2>7. OneEach(h) => OneEach(new) BY <2>2, <2>3, <2>4 DEF OneEach
    <2> QED BY <2>2, <2>3, <2>4, <2>5, <2>6, <2>7
  <1> QED BY <1>1, <1>2

(* What the file has brought stays so, whatever is put in, if that is an     *)
(* event of the API or of the file.                                          *)
LEMMA PutStays ==
  ASSUME NEW h, h \in Seq(Range(h)), NEW event, NEW new, Puts(h, event, new), NEW rows, NEW lines
  PROVE  /\ AllIn(h, rows, lines) => AllIn(new, rows, lines)
         /\ FromFile(h, rows, lines) /\ (event.post \/ \E n \in lines : event = rows[n])
              => FromFile(new, rows, lines)
         /\ LastIn(h, rows, lines) /\ event.post => LastIn(new, rows, lines)
  <1>1. AllIn(h, rows, lines) => AllIn(new, rows, lines) BY PutIs DEF AllIn
  <1>2. \A j \in DOMAIN new : new[j] = event \/ \E i \in DOMAIN h : new[j] = h[i] BY PutIs
  <1>3. FromFile(h, rows, lines) /\ (event.post \/ \E n \in lines : event = rows[n])
          => FromFile(new, rows, lines)
    BY <1>2 DEF FromFile
  <1>4. LastIn(h, rows, lines) /\ event.post => LastIn(new, rows, lines) BY <1>2 DEF LastIn
  <1> QED BY <1>1, <1>3, <1>4

LEMMA PutNext ==
  ASSUME NEW h, h \in Seq(Range(h)), NEW rows, NEW lines, lines \subseteq Nat, NEW k \in lines,
         NEW new, Puts(h, rows[k], new),
         AllIn(h, rows, LinesBefore(k, lines)), LastIn(h, rows, LinesBefore(k, lines))
  PROVE  AllIn(new, rows, LinesBefore(k + 1, lines)) /\ LastIn(new, rows, LinesBefore(k + 1, lines))
  <1> DEFINE old == LinesBefore(k, lines)
             upto == LinesBefore(k + 1, lines)
  <1>1. /\ \A n \in upto : n \in old \/ n = k
        /\ \A n \in old : n \in upto /\ n <= k
        /\ k \in upto /\ k <= k
    BY DEF LinesBefore
  <1> HIDE DEF old, upto
  <1>2. AllIn(new, rows, old) BY PutStays DEF old
  <1>3. \E j \in DOMAIN new : new[j].id = rows[k].id BY PutIs
  <1>4. AllIn(new, rows, upto) BY <1>1, <1>2, <1>3 DEF AllIn
  <1>5. ASSUME NEW j \in DOMAIN new, NEW n \in upto, ~new[j].post, new[j].id = rows[n].id
        PROVE  \E m \in upto : n <= m /\ new[j] = rows[m]
    <2>1. CASE new[j] = rows[k] BY <1>1, <2>1
    <2>2. CASE new[j] # rows[k]
      <3>1. PICK i \in DOMAIN h : new[j] = h[i] /\ h[i].id # rows[k].id BY <2>2, PutIs
      <3>2. n \in old BY <1>1, <1>5, <3>1
      <3>3. \E m \in old : n <= m /\ h[i] = rows[m] BY <1>5, <3>1, <3>2 DEF LastIn, old
      <3> QED BY <1>1, <3>1, <3>3
    <2> QED BY <2>1, <2>2
  <1>6. LastIn(new, rows, upto) BY <1>5 DEF LastIn
  <1> QED BY <1>4, <1>6 DEF upto

IsTable(f, n) == n \in Nat /\ f = [i \in 1..n |-> f[i]]

LEMMA TableComputed ==
  ASSUME NEW n, NEW f, IsTable(f, n)
  PROVE  f \o <<>> = f
  <1>1. f \in Seq({f[i] : i \in 1..n}) BY SeqDef DEF IsTable
  <1> QED BY <1>1

(* The tables are what they are computed from.                               *)
LEMMA TablesAre ==
  ASSUME NEW f \in DOMAIN Exports, NEW n \in DOMAIN Exports[f].lines
  PROVE  /\ ReadsOf[f][n] = Reads(Exports[f].source, Exports[f].lines[n])
         /\ ReadsOf[f][n] = "event" =>
              EventsOf[f][n] = Marked(EventOfLine(Exports[f].source, Exports[f].table, Exports[f].lines[n], New),
                                      Trusted(SourceClass(Exports[f].source)), FALSE)
  <1>1. Len(Exports) \in Nat /\ DOMAIN Exports = 1..Len(Exports) BY DatasetLoadAssumption
  <1>2. \A g \in DOMAIN Exports : Len(Exports[g].lines) \in Nat /\ DOMAIN Exports[g].lines = 1..Len(Exports[g].lines)
    BY DatasetLoadAssumption
  <1> DEFINE read == [g \in DOMAIN Exports |->
                        [m \in DOMAIN Exports[g].lines |-> Reads(Exports[g].source, Exports[g].lines[m])] \o <<>>]
  <1>3. \A g \in DOMAIN Exports :
          [m \in DOMAIN Exports[g].lines |-> Reads(Exports[g].source, Exports[g].lines[m])] \o <<>>
            = [m \in DOMAIN Exports[g].lines |-> Reads(Exports[g].source, Exports[g].lines[m])]
    <2> TAKE g \in DOMAIN Exports
    <2> DEFINE r == [m \in DOMAIN Exports[g].lines |-> Reads(Exports[g].source, Exports[g].lines[m])]
    <2>1. IsTable(r, Len(Exports[g].lines)) BY <1>2 DEF IsTable
    <2> HIDE DEF r
    <2>2. r \o <<>> = r BY <2>1, TableComputed
    <2> QED BY <2>2 DEF r
  <1>4. IsTable(read, Len(Exports)) BY <1>1 DEF IsTable
  <1>5. ReadsOf = read \o <<>> BY DEF ReadsOf
  <1>6. read[f] = [m \in DOMAIN Exports[f].lines |-> Reads(Exports[f].source, Exports[f].lines[m])] BY <1>3
  <1> HIDE DEF read
  <1>7. ReadsOf = read BY <1>4, <1>5, TableComputed
  <1>8. ReadsOf[f][n] = Reads(Exports[f].source, Exports[f].lines[n]) BY <1>6, <1>7
  <1> DEFINE EventIn(g, m) == IF ReadsOf[g][m] # "event" THEN Null
                          ELSE Marked(EventOfLine(Exports[g].source, Exports[g].table, Exports[g].lines[m], New),
                                      Trusted(SourceClass(Exports[g].source)), FALSE)
             tables == [g \in DOMAIN Exports |-> [m \in DOMAIN Exports[g].lines |-> EventIn(g, m)] \o <<>>]
  <1>9. EventsOf = tables \o <<>> BY DEF EventsOf
  <1> HIDE DEF EventIn
  <1>10. \A g \in DOMAIN Exports :
           [m \in DOMAIN Exports[g].lines |-> EventIn(g, m)] \o <<>>
             = [m \in DOMAIN Exports[g].lines |-> EventIn(g, m)]
    <2> TAKE g \in DOMAIN Exports
    <2> DEFINE r == [m \in DOMAIN Exports[g].lines |-> EventIn(g, m)]
    <2>1. IsTable(r, Len(Exports[g].lines)) BY <1>2 DEF IsTable
    <2> HIDE DEF r
    <2>2. r \o <<>> = r BY <2>1, TableComputed
    <2> QED BY <2>2 DEF r
  <1>11. IsTable(tables, Len(Exports)) BY <1>1 DEF IsTable
  <1>12. tables[f] = [m \in DOMAIN Exports[f].lines |-> EventIn(f, m)] BY <1>10
  <1> HIDE DEF tables
  <1>13. EventsOf = tables BY <1>9, <1>11, TableComputed
  <1>14. EventsOf[f][n] = EventIn(f, n) BY <1>12, <1>13
  <1> QED BY <1>8, <1>14 DEF EventIn

LEMMA NotPosted ==
  ASSUME picked \in DOMAIN Exports, NEW n \in EventLines
  PROVE  /\ EventsOf[picked][n].post = FALSE /\ Event(n).post = FALSE
         /\ HasOwnIds => Event(n) = EventsOf[picked][n]
  <1> DEFINE e == EventsOf[picked][n]
             body == EventOfLine(export.source, export.table, export.lines[n], New)
             trust == Trusted(SourceClass(export.source))
  <1>1. n \in DOMAIN export.lines /\ ReadsOf[picked][n] = "event" BY DEF EventLines
  <1>2. e = Marked(body, trust, FALSE) BY <1>1, TablesAre DEF export
  <1> HIDE DEF e, body, trust
  <1>3. e.post = FALSE /\ DOMAIN e = DOMAIN Marked(body, trust, FALSE) BY <1>2 DEF Marked
  <1>4. Event(n) = e \/ Event(n) = [e EXCEPT !.id = <<"uuid", ToString(loads), ToString(n)>>]
    BY DEF Event, InThisLoad, e
  <1>5. "post" \in DOMAIN e BY <1>3 DEF Marked
  <1>6. Event(n).post = FALSE BY <1>3, <1>4, <1>5
  <1>7. HasOwnIds => Event(n) = e BY DEF HasOwnIds, Event, InThisLoad, e
  <1> QED BY <1>3, <1>6, <1>7 DEF e

(* What is said of the store and the reports, with the events of the file    *)
(* as a table.                                                               *)
Settled(h, rows, lines, ends, begun, at, fails, before) ==
  /\ FromFile(h, rows, lines)
  /\ (\E i \in DOMAIN ends : ends[i].code = "0") => AllIn(h, rows, lines)
  /\ at = "off" /\ Len(ends) = begun /\ ends # <<>> /\ ends[Len(ends)].code = "0" => LastIn(h, rows, lines)
  /\ at # "off" /\ fails = 0 => AllIn(h, rows, before) /\ LastIn(h, rows, before)

OnceInv ==
  /\ OneEach(held)
  /\ loads \in Nat /\ Len(exits) <= loads /\ (loader.at # "off" => Len(exits) < loads)
  /\ HasOwnIds => Settled(held, EventsOf[picked], EventLines, exits, loads, loader.at, loader.failed,
                          LinesBefore(loader.line, EventLines))

LEMMA ThreeParts == LoadInv <=> SignalsKept /\ LinesCounted /\ OnceInv
  <1>1. ASSUME picked \in DOMAIN Exports, HasOwnIds
        PROVE  \A n \in EventLines : Event(n) = EventsOf[picked][n]
    BY <1>1, NotPosted
  <1> DEFINE rows == EventsOf[picked]
             before == LinesBefore(loader.line, EventLines)
             Once == HasOwnIds =>
                       /\ \A i \in DOMAIN held : ~held[i].post => \E n \in EventLines : held[i] = Event(n)
                       /\ (\E i \in DOMAIN exits : exits[i].code = "0") =>
                             \A n \in EventLines : Event(n).id \in HeldIds
                       /\ loader.at = "off" /\ Len(exits) = loads /\ exits # <<>>
                          /\ exits[Len(exits)].code = "0" =>
                            LastCounts(EventLines)
             Sofar == HasOwnIds /\ loader.at # "off" /\ loader.failed = 0 =>
                        (\A n \in before : Event(n).id \in HeldIds) /\ LastCounts(before)
  <1>2. before \subseteq EventLines BY DEF LinesBefore
  <1> HIDE DEF before, rows
  <1>3. ASSUME picked \in DOMAIN Exports, HasOwnIds, NEW lines, lines \subseteq EventLines
        PROVE  /\ (\A n \in lines : Event(n).id \in HeldIds) <=> AllIn(held, rows, lines)
               /\ LastCounts(lines) <=> LastIn(held, rows, lines)
               /\ (\A i \in DOMAIN held : ~held[i].post => \E n \in lines : held[i] = Event(n))
                     <=> FromFile(held, rows, lines)
    <2>1. \A n \in lines : Event(n) = rows[n] BY <1>1, <1>3 DEF rows
    <2>2. \A x : x \in HeldIds <=> \E i \in DOMAIN held : held[i].id = x BY DEF HeldIds
    <2>3. (\A n \in lines : Event(n).id \in HeldIds) <=> AllIn(held, rows, lines) BY <2>1, <2>2 DEF AllIn
    <2>4. LastCounts(lines) <=> LastIn(held, rows, lines) BY <2>1 DEF LastCounts, LastIn
    <2>5. (\A i \in DOMAIN held : ~held[i].post => \E n \in lines : held[i] = Event(n))
                     <=> FromFile(held, rows, lines)
      BY <2>1 DEF FromFile
    <2> QED BY <2>3, <2>4, <2>5
  <1>4. picked \in DOMAIN Exports =>
          (Once /\ Sofar <=>
            (HasOwnIds => Settled(held, rows, EventLines, exits, loads, loader.at, loader.failed, before)))
    <2> SUFFICES ASSUME picked \in DOMAIN Exports, HasOwnIds
                 PROVE  Once /\ Sofar <=>
                          Settled(held, rows, EventLines, exits, loads, loader.at, loader.failed, before)
      OBVIOUS
    <2>1. /\ (\A n \in EventLines : Event(n).id \in HeldIds) <=> AllIn(held, rows, EventLines)
          /\ LastCounts(EventLines) <=> LastIn(held, rows, EventLines)
          /\ (\A i \in DOMAIN held : ~held[i].post => \E n \in EventLines : held[i] = Event(n))
                     <=> FromFile(held, rows, EventLines)
      BY <1>3
    <2>2. /\ (\A n \in before : Event(n).id \in HeldIds) <=> AllIn(held, rows, before)
          /\ LastCounts(before) <=> LastIn(held, rows, before)
      BY <1>2, <1>3
    <2> QED BY <2>1, <2>2, Zenon DEF Settled
  <1>5. OneEach(held) <=> \A i, j \in DOMAIN held : held[i].id = held[j].id => i = j BY DEF OneEach
  <1>6. LoadingTwiceIsOnce <=> OneEach(held) /\ Once BY <1>5 DEF LoadingTwiceIsOnce
  <1> HIDE DEF Once, Sofar
  <1>7. LoadInv <=> /\ SignalsKept /\ LinesCounted /\ LoadingTwiceIsOnce /\ Sofar
                    /\ loads \in Nat /\ Len(exits) <= loads /\ (loader.at # "off" => Len(exits) < loads)
    BY DEF LoadInv, LoaderStands, LoadAccounts, SignalsKept, LinesCounted, Sofar, before
  <1>8. LinesCounted => picked \in DOMAIN Exports BY DEF LinesCounted
  <1>9. OnceInv <=> /\ OneEach(held)
                    /\ loads \in Nat /\ Len(exits) <= loads /\ (loader.at # "off" => Len(exits) < loads)
                    /\ HasOwnIds => Settled(held, rows, EventLines, exits, loads, loader.at, loader.failed, before)
    BY DEF OnceInv, rows, before
  <1> QED BY <1>4, <1>6, <1>7, <1>8, <1>9

LEMMA HoldPuts == \A event : Hold(event) <=> Puts(held, event, held')
  BY DEF Hold, Puts, HeldIds

LEMMA TableStays ==
  ASSUME picked' = picked
  PROVE  /\ EventLines' = EventLines /\ EventsOf[picked]' = EventsOf[picked]
         /\ HasOwnIds' <=> HasOwnIds
  <1>1. EventsOf[picked]' = EventsOf[picked] OBVIOUS
  <1> QED BY <1>1, FileStays DEF HasOwnIds

LEMMA OnceStarts == LoadInit => OnceInv
  <1> SUFFICES ASSUME LoadInit PROVE OnceInv OBVIOUS
  <1>1. held = <<>> /\ exits = <<>> /\ loads = 0 /\ loader.at = "off" BY DEF LoadInit, Off
  <1>2. DOMAIN held = {} /\ DOMAIN exits = {} /\ Len(exits) = 0 BY <1>1
  <1>3. OneEach(held) BY <1>2 DEF OneEach
  <1>4. FromFile(held, EventsOf[picked], EventLines) BY <1>2 DEF FromFile
  <1>5. loader.at = "off" /\ exits = <<>> /\ ~ \E i \in DOMAIN exits : TRUE BY <1>1, <1>2
  <1> DEFINE rows == EventsOf[picked]
             lines == EventLines
             before == LinesBefore(loader.line, EventLines)
  <1>6. FromFile(held, rows, lines) BY <1>4
  <1> HIDE DEF rows, lines, before
  <1>7. Settled(held, rows, lines, exits, loads, loader.at, loader.failed, before)
    BY <1>5, <1>6 DEF Settled
  <1> QED BY <1>1, <1>2, <1>3, <1>7 DEF OnceInv, rows, lines, before

(* The store is as it was, and the loader goes on behind the same events.    *)
LEMMA OnceRests ==
  ASSUME OnceInv, UNCHANGED <<picked, held, exits, loads>>,
         loader'.at = "off" <=> loader.at = "off",
         loader.at # "off" => /\ loader'.failed = loader.failed
                              /\ LinesBefore(loader'.line, EventLines) = LinesBefore(loader.line, EventLines)
  PROVE  OnceInv'
  <1>1. /\ EventLines' = EventLines /\ EventsOf[picked]' = EventsOf[picked] /\ (HasOwnIds' <=> HasOwnIds)
    BY TableStays
  <1> DEFINE rows == EventsOf[picked]
             before == LinesBefore(loader.line, EventLines)
             after == LinesBefore(loader'.line, EventLines)
  <1>2. loader.at # "off" => loader'.failed = loader.failed /\ after = before OBVIOUS
  <1>3. HasOwnIds => Settled(held, rows, EventLines, exits, loads, loader.at, loader.failed, before)
    BY DEF OnceInv
  <1> HIDE DEF rows, before, after
  <1>4. HasOwnIds => Settled(held, rows, EventLines, exits, loads, loader'.at, loader'.failed, after)
    <2>1. CASE loader.at = "off" BY <1>3, <2>1 DEF Settled
    <2>2. CASE loader.at # "off" BY <1>2, <1>3, <2>2 DEF Settled
    <2> QED BY <2>1, <2>2
  <1>5. HasOwnIds' => Settled(held', EventsOf[picked]', EventLines', exits', loads', loader'.at, loader'.failed,
                              LinesBefore(loader'.line, EventLines'))
    BY <1>1, <1>4, Zenon DEF rows, after
  <1> QED BY <1>5 DEF OnceInv

(* A load is over; if it says that all went well, all was put in.            *)
LEMMA OnceEnds ==
  ASSUME OnceInv, LinesCounted, UNCHANGED <<picked, held, loads>>, loader.at # "off", loader' = Off,
         \/ exits' = exits
         \/ \E exit : /\ exits' = Append(exits, exit)
                      /\ exit.code = "0" => /\ loader.failed = 0
                                            /\ LinesBefore(loader.line, EventLines) = EventLines
  PROVE  OnceInv'
  <1>1. /\ EventLines' = EventLines /\ EventsOf[picked]' = EventsOf[picked] /\ (HasOwnIds' <=> HasOwnIds)
    BY TableStays
  <1> DEFINE rows == EventsOf[picked]
             before == LinesBefore(loader.line, EventLines)
             after == LinesBefore(loader'.line, EventLines)
  <1>2. HasOwnIds => Settled(held, rows, EventLines, exits, loads, loader.at, loader.failed, before)
    BY DEF OnceInv
  <1>3. \/ exits' = exits
        \/ \E exit : /\ exits' = Append(exits, exit)
                     /\ exit.code = "0" => loader.failed = 0 /\ before = EventLines
    OBVIOUS
  <1> HIDE DEF rows, before, after
  <1>4. exits \in Seq(Range(exits)) /\ Len(exits) \in Nat /\ loads \in Nat /\ Len(exits) < loads /\ OneEach(held)
    BY DEF LinesCounted, OnceInv
  <1>5. loader'.at = "off" BY DEF Off
  <1>6. CASE exits' = exits
    <2>1. HasOwnIds => Settled(held, rows, EventLines, exits', loads, loader'.at, loader'.failed, after)
      BY <1>2, <1>4, <1>5, <1>6 DEF Settled
    <2>2. HasOwnIds' => Settled(held', EventsOf[picked]', EventLines', exits', loads', loader'.at, loader'.failed,
                                LinesBefore(loader'.line, EventLines'))
      BY <1>1, <2>1, Zenon DEF rows, after
    <2>3. Len(exits') <= loads' BY <1>4, <1>6
    <2> QED BY <1>4, <1>5, <2>2, <2>3 DEF OnceInv
  <1>7. CASE exits' # exits
    <2>1. PICK exit : /\ exits' = Append(exits, exit)
                      /\ exit.code = "0" => loader.failed = 0 /\ before = EventLines
      BY <1>3, <1>7
    <2> DEFINE a == Append(exits, exit)
    <2>2. /\ Len(a) = Len(exits) + 1 /\ DOMAIN exits = 1..Len(exits)
          /\ DOMAIN a = 1..(Len(exits) + 1)
          /\ \A i \in DOMAIN exits : a[i] = exits[i]
          /\ a[Len(exits) + 1] = exit
      BY <1>4, RangeGrows
    <2> HIDE DEF a
    <2>3. exits' = a BY <2>1 DEF a
    <2>4. \A i \in DOMAIN a : i \in DOMAIN exits \/ i = Len(exits) + 1 BY <1>4, <2>2
    <2>5. (\E i \in DOMAIN a : a[i].code = "0") => (\E i \in DOMAIN exits : exits[i].code = "0") \/ exit.code = "0"
      <3>1. ASSUME NEW i \in DOMAIN a, a[i].code = "0"
            PROVE  (\E k \in DOMAIN exits : exits[k].code = "0") \/ exit.code = "0"
        BY <2>2, <2>4, <3>1, Zenon
      <3> QED BY <3>1
    <2>6. HasOwnIds /\ exit.code = "0" => AllIn(held, rows, EventLines) /\ LastIn(held, rows, EventLines)
      BY <1>2, <2>1 DEF Settled
    <2>7. HasOwnIds => Settled(held, rows, EventLines, a, loads, loader'.at, loader'.failed, after)
      <3> SUFFICES ASSUME HasOwnIds
                   PROVE  Settled(held, rows, EventLines, a, loads, loader'.at, loader'.failed, after)
        OBVIOUS
      <3>1. FromFile(held, rows, EventLines) BY <1>2 DEF Settled
      <3>2. (\E i \in DOMAIN a : a[i].code = "0") => AllIn(held, rows, EventLines)
        BY <1>2, <2>5, <2>6 DEF Settled
      <3>3. a[Len(a)] = exit BY <2>2
      <3>4. a[Len(a)].code = "0" => LastIn(held, rows, EventLines) BY <2>6, <3>3
      <3> QED BY <1>5, <3>1, <3>2, <3>4, Zenon DEF Settled
    <2>8. HasOwnIds' => Settled(held', EventsOf[picked]', EventLines', exits', loads', loader'.at, loader'.failed,
                                LinesBefore(loader'.line, EventLines'))
      BY <1>1, <2>3, <2>7, Zenon DEF rows, after
    <2>9. Len(exits') <= loads' BY <1>4, <2>2, <2>3
    <2> QED BY <1>4, <1>5, <2>8, <2>9 DEF OnceInv
  <1> QED BY <1>6, <1>7

(* An event is put in: of the API, or of a line of the file.                 *)
LEMMA OncePuts ==
  ASSUME OnceInv, LinesCounted, held \in Seq(Range(held)), UNCHANGED <<picked, exits, loads>>,
         NEW event, Puts(held, event, held'),
         HasOwnIds => event.post \/ \E n \in EventLines : event = EventsOf[picked][n],
         loader'.at = "off" <=> loader.at = "off",
         loader.at = "off" => event.post,
         HasOwnIds /\ loader'.at # "off" /\ loader'.failed = 0 =>
           /\ AllIn(held', EventsOf[picked], LinesBefore(loader'.line, EventLines))
           /\ LastIn(held', EventsOf[picked], LinesBefore(loader'.line, EventLines))
  PROVE  OnceInv'
  <1>1. /\ EventLines' = EventLines /\ EventsOf[picked]' = EventsOf[picked] /\ (HasOwnIds' <=> HasOwnIds)
    BY TableStays
  <1> DEFINE rows == EventsOf[picked]
             before == LinesBefore(loader.line, EventLines)
             after == LinesBefore(loader'.line, EventLines)
  <1>2. HasOwnIds => Settled(held, rows, EventLines, exits, loads, loader.at, loader.failed, before)
    BY DEF OnceInv
  <1>3. HasOwnIds => event.post \/ \E n \in EventLines : event = rows[n] OBVIOUS
  <1>4. HasOwnIds /\ loader'.at # "off" /\ loader'.failed = 0 =>
          AllIn(held', rows, after) /\ LastIn(held', rows, after)
    OBVIOUS
  <1> HIDE DEF rows, before, after
  <1>5. OneEach(held') BY PutIs DEF OnceInv
  <1>6. HasOwnIds => Settled(held', rows, EventLines, exits, loads, loader'.at, loader'.failed, after)
    <2> SUFFICES ASSUME HasOwnIds
                 PROVE  Settled(held', rows, EventLines, exits, loads, loader'.at, loader'.failed, after)
      OBVIOUS
    <2>1. FromFile(held', rows, EventLines) BY <1>2, <1>3, PutStays DEF Settled
    <2>2. (\E i \in DOMAIN exits : exits[i].code = "0") => AllIn(held', rows, EventLines)
      BY <1>2, PutStays DEF Settled
    <2>3. loader'.at = "off" /\ Len(exits) = loads /\ exits # <<>> /\ exits[Len(exits)].code = "0"
            => LastIn(held', rows, EventLines)
      BY <1>2, PutStays DEF Settled
    <2> QED BY <1>4, <2>1, <2>2, <2>3, Zenon DEF Settled
  <1>7. HasOwnIds' => Settled(held', EventsOf[picked]', EventLines', exits', loads', loader'.at, loader'.failed,
                              LinesBefore(loader'.line, EventLines'))
    BY <1>1, <1>6, Zenon DEF rows, after
  <1>8. loads' \in Nat /\ Len(exits') <= loads' /\ (loader'.at # "off" => Len(exits') < loads')
    BY DEF OnceInv
  <1> QED BY <1>5, <1>7, <1>8 DEF OnceInv

LEMMA OnceKeeps ==
  ASSUME SignalsKept, LinesCounted, OnceInv, LoadNext \/ UNCHANGED loadVars
  PROVE  OnceInv'
  <1>0. /\ Len(export.lines) \in Nat /\ DOMAIN export.lines = 1..Len(export.lines)
        /\ EventLines \subseteq 1..Len(export.lines) /\ picked \in DOMAIN Exports
    BY KindsOfLines DEF LinesCounted
  <1>a. DOMAIN loader = {"at", "line", "assemble", "processed", "failed", "skipped", "seen"}
    BY DEF LinesCounted, Off
  <1>b. held \in Seq(Range(held)) BY DEF SignalsKept
  <1>c. loader.at # "off" => loader.line \in Nat /\ loader.failed \in Nat BY <1>0 DEF LinesCounted
  <1>1. ASSUME NEW assemble \in BOOLEAN, Begin(assemble) PROVE OnceInv'
    <2>1. /\ loader'.at = "reading" /\ loader'.line = 1 /\ loads' = loads + 1
          /\ loader.at = "off" /\ UNCHANGED <<picked, held, exits>>
      BY <1>1 DEF Begin, Off
    <2>2. /\ EventLines' = EventLines /\ EventsOf[picked]' = EventsOf[picked] /\ (HasOwnIds' <=> HasOwnIds)
      BY <2>1, TableStays
    <2> DEFINE rows == EventsOf[picked]
               before == LinesBefore(loader.line, EventLines)
               after == LinesBefore(loader'.line, EventLines)
    <2>3. \A n \in after : FALSE BY <1>0, <2>1 DEF LinesBefore
    <2>4. HasOwnIds => Settled(held, rows, EventLines, exits, loads, loader.at, loader.failed, before)
      BY DEF OnceInv
    <2> HIDE DEF rows, before, after
    <2>5. AllIn(held, rows, after) /\ LastIn(held, rows, after) BY <2>3 DEF AllIn, LastIn
    <2>6. HasOwnIds => Settled(held, rows, EventLines, exits, loads', loader'.at, loader'.failed, after)
      BY <2>1, <2>4, <2>5 DEF Settled
    <2>7. HasOwnIds' => Settled(held', EventsOf[picked]', EventLines', exits', loads', loader'.at, loader'.failed,
                                LinesBefore(loader'.line, EventLines'))
      BY <2>1, <2>2, <2>6, Zenon DEF rows, after
    <2>8. loads' \in Nat /\ Len(exits') <= loads' /\ Len(exits') < loads'
      <3>1. Len(exits) \in Nat BY DEF LinesCounted
      <3> QED BY <2>1, <3>1 DEF OnceInv
    <2> QED BY <2>1, <2>7, <2>8 DEF OnceInv
  <1>2. CASE PassLine
    <2>1. /\ loader.at = "reading" /\ ReadsOf[picked][loader.line] \in {"empty", "skip"}
          /\ UNCHANGED <<picked, held, exits, loads>>
          /\ loader'.line = loader.line + 1 /\ loader'.failed = loader.failed /\ loader'.at = "reading"
      BY <1>2, <1>a DEF PassLine, AtLine, Rest
    <2>2. loader.line \notin EventLines BY <2>1 DEF EventLines
    <2>3. \A n \in EventLines : n < loader.line + 1 <=> n < loader.line BY <1>0, <1>c, <2>1, <2>2
    <2>4. LinesBefore(loader'.line, EventLines) = LinesBefore(loader.line, EventLines)
      BY <2>1, <2>3 DEF LinesBefore
    <2> QED BY <2>1, <2>4, OnceRests
  <1>3. CASE StopsAtLine
    <2> DEFINE exit == [code |-> "traceback", failed |-> loader.failed, processed |-> loader.processed,
                        skipped |-> loader.skipped, line |-> loader.line]
    <2>1. exits' = Append(exits, exit) /\ loader' = Off /\ loader.at # "off" /\ UNCHANGED <<picked, held, loads>>
      BY <1>3 DEF StopsAtLine, AtLine
    <2>2. exit.code # "0" OBVIOUS
    <2> HIDE DEF exit
    <2> QED BY <2>1, <2>2, OnceEnds
  <1>4. CASE LoadLine
    <2> DEFINE k == loader.line
               e == Event(k)
    <2>1. /\ loader.at = "reading" /\ loader'.at = "reading" /\ loader'.line = k + 1
          /\ loader'.failed = loader.failed /\ UNCHANGED <<picked, exits, loads>>
          /\ Hold(e)
      BY <1>4, <1>a DEF LoadLine, AtLine, Rest
    <2>2. k \in EventLines BY <1>4 DEF LoadLine, AtLine, EventLines
    <2>3. HasOwnIds => e = EventsOf[picked][k] BY <1>0, <2>2, NotPosted
    <2> HIDE DEF e
    <2>4. Puts(held, e, held') BY <2>1, HoldPuts
    <2>5. ASSUME HasOwnIds, loader.failed = 0
          PROVE  /\ AllIn(held', EventsOf[picked], LinesBefore(k + 1, EventLines))
                 /\ LastIn(held', EventsOf[picked], LinesBefore(k + 1, EventLines))
      <3>1. /\ AllIn(held, EventsOf[picked], LinesBefore(k, EventLines))
            /\ LastIn(held, EventsOf[picked], LinesBefore(k, EventLines))
        BY <2>1, <2>5 DEF OnceInv, Settled
      <3>2. Puts(held, EventsOf[picked][k], held') BY <2>3, <2>4, <2>5
      <3>3. EventLines \subseteq Nat BY <1>0
      <3> HIDE DEF k
      <3> DEFINE rows == EventsOf[picked]
                 lines == EventLines
                 new == held'
      <3>4. Puts(held, rows[k], new) BY <3>2
      <3>5. AllIn(held, rows, LinesBefore(k, lines)) /\ LastIn(held, rows, LinesBefore(k, lines)) BY <3>1
      <3>6. k \in lines /\ lines \subseteq Nat BY <2>2, <3>3
      <3> HIDE DEF rows, lines, new
      <3>7. AllIn(new, rows, LinesBefore(k + 1, lines)) /\ LastIn(new, rows, LinesBefore(k + 1, lines))
        BY <1>b, <3>4, <3>5, <3>6, PutNext
      <3> QED BY <3>7 DEF rows, lines, new
    <2>6. HasOwnIds => \E n \in EventLines : e = EventsOf[picked][n] BY <2>2, <2>3
    <2> QED BY <1>b, <2>1, <2>4, <2>5, <2>6, OncePuts
  <1>5. ASSUME NEW kept \in BOOLEAN, LineFails(kept) PROVE OnceInv'
    <2> DEFINE k == loader.line
               e == Event(k)
    <2>1. /\ loader.at = "reading" /\ loader'.at = "reading" /\ loader'.line = k + 1
          /\ loader'.failed = loader.failed + 1 /\ UNCHANGED <<picked, exits, loads>>
          /\ Hold(e) \/ held' = held
      BY <1>5, <1>a DEF LineFails, AtLine
    <2>2. k \in EventLines BY <1>5 DEF LineFails, AtLine, EventLines
    <2>3. HasOwnIds => e = EventsOf[picked][k] BY <1>0, <2>2, NotPosted
    <2> HIDE DEF e
    <2>4. loader'.failed # 0 BY <1>c, <2>1
    <2>5. CASE Hold(e)
      <3>1. Puts(held, e, held') BY <2>5, HoldPuts
      <3>2. HasOwnIds => \E n \in EventLines : e = EventsOf[picked][n] BY <2>2, <2>3
      <3> QED BY <1>b, <2>1, <2>4, <3>1, <3>2, OncePuts
    <2>6. CASE held' = held
      <3>1. /\ EventLines' = EventLines /\ EventsOf[picked]' = EventsOf[picked] /\ (HasOwnIds' <=> HasOwnIds)
        BY <2>1, TableStays
      <3> DEFINE rows == EventsOf[picked]
                 before == LinesBefore(loader.line, EventLines)
                 after == LinesBefore(loader'.line, EventLines)
      <3>2. HasOwnIds => Settled(held, rows, EventLines, exits, loads, loader.at, loader.failed, before)
        BY DEF OnceInv
      <3> HIDE DEF rows, before, after
      <3>3. HasOwnIds => Settled(held, rows, EventLines, exits, loads, loader'.at, loader'.failed, after)
        BY <2>1, <2>4, <3>2 DEF Settled
      <3>4. HasOwnIds' => Settled(held', EventsOf[picked]', EventLines', exits', loads', loader'.at, loader'.failed,
                                  LinesBefore(loader'.line, EventLines'))
        BY <2>1, <2>6, <3>1, <3>3, Zenon DEF rows, after
      <3> QED BY <2>1, <2>6, <3>4 DEF OnceInv
    <2> QED BY <2>1, <2>5, <2>6
  <1>6. CASE Assemble
    BY <1>6, <1>a, OnceRests DEF Assemble, AtEnd, Rest
  <1>7. CASE ClearAssemblySignals BY <1>7, <1>a, OnceRests DEF ClearAssemblySignals, Rest
  <1>8. CASE ClearingFails BY <1>8, <1>a, OnceRests DEF ClearingFails
  <1>9. CASE Report
    <2> DEFINE exit == [code |-> IF loader.failed = 0 THEN "0" ELSE "1", failed |-> loader.failed,
                        processed |-> loader.processed, skipped |-> loader.skipped, line |-> loader.line]
    <2>1. /\ exits' = Append(exits, exit) /\ loader' = Off /\ UNCHANGED <<picked, held, loads>>
          /\ loader.at = "cleared" \/ AtEnd
      BY <1>9 DEF Report
    <2>2. loader.at # "off" /\ loader.line \notin DOMAIN export.lines BY <2>1 DEF LinesCounted, AtEnd
    <2>3. loader.line = Len(export.lines) + 1 BY <1>0, <2>2 DEF LinesCounted
    <2>4. \A m \in 1..Len(export.lines) : m < loader.line BY <1>0, <2>3
    <2>5. LinesBefore(loader.line, EventLines) = EventLines BY <1>0, <2>4 DEF LinesBefore
    <2>6. exit.code = "0" => loader.failed = 0 OBVIOUS
    <2> HIDE DEF exit
    <2> QED BY <2>1, <2>2, <2>5, <2>6, OnceEnds
  <1>10. CASE Killed BY <1>10, OnceEnds DEF Killed
  <1>11. ASSUME NEW sent \in Posts, Post(sent) PROVE OnceInv'
    <2> DEFINE e == Marked(Prepared(sent.kind, sent.body, <<"post", ToString(posts + 1)>>), 100, TRUE)
    <2>1. Hold(e) /\ UNCHANGED <<picked, loader, exits, loads>> BY <1>11 DEF Post
    <2>2. e.post = TRUE BY MarkIsKept
    <2> HIDE DEF e
    <2>3. Puts(held, e, held') BY <2>1, HoldPuts
    <2>4. ASSUME HasOwnIds, loader.at # "off", loader.failed = 0
          PROVE  /\ AllIn(held', EventsOf[picked], LinesBefore(loader.line, EventLines))
                 /\ LastIn(held', EventsOf[picked], LinesBefore(loader.line, EventLines))
      <3> DEFINE rows == EventsOf[picked]
                 before == LinesBefore(loader.line, EventLines)
                 new == held'
      <3>1. AllIn(held, rows, before) /\ LastIn(held, rows, before) BY <2>4 DEF OnceInv, Settled
      <3>2. Puts(held, e, new) BY <2>3
      <3> HIDE DEF rows, before, new
      <3>3. AllIn(new, rows, before) /\ LastIn(new, rows, before) BY <1>b, <2>2, <3>1, <3>2, PutStays
      <3> QED BY <3>3 DEF rows, before, new
    <2> QED BY <1>b, <2>1, <2>2, <2>3, <2>4, OncePuts
  <1>12. CASE WorkerRuns BY <1>12, OnceRests DEF WorkerRuns, Rest
  <1>13. CASE UNCHANGED loadVars BY <1>13, OnceRests DEF loadVars
  <1> QED BY <1>1, <1>2, <1>3, <1>4, <1>5, <1>6, <1>7, <1>8, <1>9, <1>10, <1>11, <1>12, <1>13 DEF LoadNext

LEMMA SiemIsNamed ==
  ASSUME picked \in DOMAIN Exports, NEW n \in EventLines, export.source = "pt_siem"
  PROVE  Event(n).id = SiemEventId(export.lines[n].doc)
  <1>1. n \in DOMAIN export.lines /\ ReadsOf[picked][n] = "event" BY DEF EventLines
  <1> DEFINE e == EventsOf[picked][n]
             line == export.lines[n]
             body == EventOfLine(export.source, export.table, line, New)
             trust == Trusted(SourceClass(export.source))
  <1>2. e = Marked(body, trust, FALSE) BY <1>1, TablesAre DEF export
  <1>3. body = MapPtSiem(line.doc)
    <2> DEFINE l == line
               t == export.table
    <2> HIDE DEF l, t
    <2>1. EventOfLine("pt_siem", t, l, New) = MapPtSiem(l.doc) BY Zenon DEF EventOfLine
    <2>2. body = EventOfLine("pt_siem", t, l, New) BY DEF l, t
    <2> QED BY <2>1, <2>2 DEF l
  <1> HIDE DEF body, trust
  <1>4. e.id = body.id BY <1>2 DEF Marked
  <1> HIDE DEF e
  <1>5. body.id = SiemEventId(line.doc) BY <1>3 DEF MapPtSiem
  <1>6. SiemEventId(line.doc) # New
    <2> DEFINE d == line.doc
    <2> HIDE DEF d
    <2>1. SiemEventId(d) # New BY DEF SiemEventId, New
    <2> QED BY <2>1 DEF d
  <1>7. Event(n) = e BY <1>4, <1>5, <1>6 DEF Event, InThisLoad, e
  <1> QED BY <1>4, <1>5, <1>7

LEMMA ToldIsNamed ==
  ASSUME NEW c, NEW d
  PROVE  LET told(x) == IF SiemText(x, "uuid") # Null THEN <<SiemText(x, "uuid")>>
                        ELSE <<First(SiemText, x, SiemTime), First(SiemText, x, SiemHost),
                               First(SiemText, x, SiemUser)>>
         IN told(c) # told(d) => SiemEventId(c) # SiemEventId(d)
  <1> DEFINE u(x) == SiemText(x, "uuid")
             t(x) == First(SiemText, x, SiemTime)
             h(x) == First(SiemText, x, SiemHost)
             a(x) == First(SiemText, x, SiemUser)
             m(x) == SiemText(x, "msgid")
             s(x) == First(SiemText, x, SiemSrc)
             r(x) == First(SiemText, x, SiemDst)
             told(x) == IF u(x) # Null THEN <<u(x)>> ELSE <<t(x), h(x), a(x)>>
  <1>1. \A x : SiemEventId(x) = IF u(x) # Null THEN <<u(x)>>
                               ELSE <<"siem", t(x), h(x), m(x), s(x), r(x), a(x)>>
    BY Zenon DEF SiemEventId
  <1> HIDE DEF u, t, h, a, m, s, r
  <1>2. told(c) # told(d) => SiemEventId(c) # SiemEventId(d) BY <1>1
  <1> QED BY <1>2 DEF u, t, h, a

LEMMA SourcesAreTold == ASSUME picked \in DOMAIN Exports PROVE SourcesStayApart
  <1> DEFINE told(x) == IF SiemText(x, "uuid") # Null THEN <<SiemText(x, "uuid")>>
                        ELSE <<First(SiemText, x, SiemTime), First(SiemText, x, SiemHost),
                               First(SiemText, x, SiemUser)>>
             doc(n) == export.lines[n].doc
  <1>1. \A c, d : told(c) # told(d) => SiemEventId(c) # SiemEventId(d) BY ToldIsNamed
  <1>2. \A n \in EventLines : export.source = "pt_siem" => Event(n).id = SiemEventId(doc(n)) BY SiemIsNamed
  <1>3. \A m, n \in {k \in EventLines : export.source = "pt_siem"} :
          told(doc(m)) # told(doc(n)) => Event(m).id # Event(n).id
    <2> HIDE DEF told, doc
    <2> QED BY <1>1, <1>2, Zenon
  <1> QED BY <1>3, Zenon DEF SourcesStayApart

(* The loader's inductive invariant: what it has counted, which signals wait *)
(* and for what, and how much of the file is in the store.                   *)
THEOREM LoadInductive == LoadSpec => []LoadInv
  <1>1. LoadInit => LoadInv BY SignalsStart, LinesStart, OnceStarts, ThreeParts
  <1>2. LoadInv /\ [LoadNext]_loadVars => LoadInv'
    <2> SUFFICES ASSUME LoadInv, LoadNext \/ UNCHANGED loadVars PROVE LoadInv' OBVIOUS
    <2>1. SignalsKept /\ LinesCounted /\ OnceInv BY ThreeParts
    <2>2. SignalsKept' BY <2>1, SignalsKeep
    <2>3. LinesCounted' BY <2>1, LinesKeep
    <2>4. OnceInv' BY <2>1, OnceKeeps
    <2>5. (SignalsKept /\ LinesCounted /\ OnceInv)' BY <2>2, <2>3, <2>4
    <2> QED BY <2>5, ThreeParts, PTL
  <1> QED BY <1>1, <1>2, PTL DEF LoadSpec

(* The report of a load accounts for every line, and no event that raises a  *)
(* signal is forgotten, unless the API took it in between the last run of    *)
(* the loader and the clearing of the signals.                               *)
THEOREM LoadIsAccounted == LoadSpec => []LoadAccounts
  <1>1. LoadInv => LoadAccounts BY DEF LoadInv
  <1> QED BY <1>1, LoadInductive, PTL

(* However often a file is loaded or a load cut off, the store has each of   *)
(* its events once, and nothing of it that is not an event of the file; and  *)
(* what PT SIEM tells apart stays apart.                                     *)
THEOREM LoadsOnce == LoadSpec => [](LoadingTwiceIsOnce /\ SourcesStayApart)
  <1>1. LoadInv => LoadingTwiceIsOnce /\ SourcesStayApart BY SourcesAreTold DEF LoadInv, LoaderStands
  <1> QED BY <1>1, LoadInductive, PTL

(* ---- the variables of the loader ----------------------------------------- *)
(* What is taken in joins the ids of the store, and none leaves it.          *)
LEMMA HeldIdsGrow ==
  ASSUME NEW event, held \in Seq(Range(held)), Hold(event)
  PROVE  HeldIds' = HeldIds \cup {event.id}
  <1>0. Len(held) \in Nat /\ DOMAIN held = 1..Len(held) OBVIOUS
  <1>1. CASE event.id \in HeldIds
    <2>1. held' = [i \in DOMAIN held |-> IF held[i].id = event.id THEN event ELSE held[i]] BY <1>1 DEF Hold
    <2>2. DOMAIN held' = DOMAIN held /\ \A i \in DOMAIN held : held'[i].id = held[i].id BY <2>1
    <2>3. HeldIds' = HeldIds BY <2>2 DEF HeldIds
    <2> QED BY <1>1, <2>3
  <1>2. CASE event.id \notin HeldIds
    <2>1. held' = Append(held, event) BY <1>2 DEF Hold
    <2> DEFINE n == Len(held)
               a == Append(held, event)
    <2>2. n \in Nat /\ DOMAIN held = 1..n BY <1>0
    <2>3. DOMAIN a = 1..(n + 1) /\ a[n + 1] = event /\ \A i \in 1..n : a[i] = held[i]
      BY RangeGrows, <2>2
    <2> HIDE DEF n, a
    <2>4. DOMAIN held' = 1..(n + 1) /\ held'[n + 1] = event /\ \A i \in 1..n : held'[i] = held[i]
      BY <2>1, <2>3 DEF a
    <2>5. HeldIds' = {held'[i].id : i \in 1..(n + 1)} BY <2>4 DEF HeldIds
    <2>6. HeldIds = {held[i].id : i \in 1..n} BY <2>2 DEF HeldIds
    <2>7. \A x \in HeldIds : x \in HeldIds' BY <2>2, <2>4, <2>5, <2>6
    <2>8. event.id \in HeldIds' BY <2>2, <2>4, <2>5
    <2>9. \A x \in HeldIds' : x \in HeldIds \cup {event.id}
      <3> SUFFICES ASSUME NEW i \in 1..(n + 1) PROVE held'[i].id \in HeldIds \cup {event.id}
        BY <2>5
      <3>1. CASE i = n + 1 BY <3>1, <2>4
      <3>2. CASE i \in 1..n BY <3>2, <2>4, <2>6
      <3> QED BY <3>1, <3>2, <2>2
    <2> QED BY <2>7, <2>8, <2>9
  <1> QED BY <1>1, <1>2

LEMMA LoadTypeKept == LoadInv /\ LoadInv' /\ LoadTypeOK /\ [LoadNext]_loadVars => LoadTypeOK'
  <1> SUFFICES ASSUME LoadInv, LoadInv', LoadTypeOK, [LoadNext]_loadVars PROVE LoadTypeOK'
    OBVIOUS
  <1>1. loader'.at \in {"off", "reading", "assembled", "cleared"} BY DEF LoadInv, LoaderStands
  <1>2. held \in Seq(Range(held)) BY DEF LoadInv, LoaderStands
  <1>3. /\ signals \subseteq HeldIds /\ served \subseteq HeldIds /\ loads \in 0..MaxLoads
        /\ posts \in 0..MaxPosts /\ MaxLoads \in Nat /\ MaxPosts \in Nat
    BY DatasetLoadAssumption DEF LoadTypeOK
  <1> DEFINE Fits == /\ signals' \subseteq HeldIds' /\ served' \subseteq HeldIds'
                     /\ loads' \in 0..MaxLoads /\ posts' \in 0..MaxPosts
  <1> SUFFICES Fits
    BY <1>1 DEF LoadTypeOK
  <1>4. UNCHANGED held => HeldIds' = HeldIds BY DEF HeldIds
  <1>5. ASSUME NEW event, Hold(event), signals' \subseteq signals \cup {event.id}, UNCHANGED served
        PROVE  signals' \subseteq HeldIds' /\ served' \subseteq HeldIds'
    BY <1>2, <1>3, <1>5, HeldIdsGrow
  <1>6. ASSUME NEW event, Signalled(event) PROVE signals' \subseteq signals \cup {event.id}
    BY <1>6 DEF Signalled
  <1>7. ASSUME NEW assemble \in BOOLEAN, Begin(assemble) PROVE Fits
    BY <1>3, <1>4, <1>7 DEF Begin
  <1>8. CASE PassLine BY <1>3, <1>4, <1>8 DEF PassLine, Rest
  <1>9. CASE StopsAtLine BY <1>3, <1>4, <1>9 DEF StopsAtLine
  <1>10. CASE LoadLine
    <2>1. /\ Hold(Event(loader.line)) /\ Signalled(Event(loader.line))
          /\ UNCHANGED <<served, loads, posts>>
      BY <1>10 DEF LoadLine, Rest
    <2> QED BY <1>3, <1>5, <1>6, <2>1
  <1>11. ASSUME NEW kept \in BOOLEAN, LineFails(kept) PROVE Fits
    <2>1. UNCHANGED <<served, loads, posts, signals>> BY <1>11 DEF LineFails
    <2>2. Hold(Event(loader.line)) \/ UNCHANGED held BY <1>11 DEF LineFails
    <2>3. CASE Hold(Event(loader.line)) BY <1>3, <1>5, <2>1, <2>3
    <2>4. CASE UNCHANGED held BY <1>3, <1>4, <2>1, <2>4
    <2> QED BY <2>2, <2>3, <2>4
  <1>12. CASE Assemble BY <1>3, <1>4, <1>12 DEF Assemble, Rest
  <1>13. CASE ClearAssemblySignals BY <1>3, <1>4, <1>13 DEF ClearAssemblySignals, Rest
  <1>14. CASE ClearingFails BY <1>3, <1>4, <1>14 DEF ClearingFails
  <1>15. CASE Report BY <1>3, <1>4, <1>15 DEF Report
  <1>16. CASE Killed BY <1>3, <1>4, <1>16 DEF Killed
  <1>17. ASSUME NEW sent \in Posts, Post(sent) PROVE Fits
    <2> DEFINE event == Marked(Prepared(sent.kind, sent.body, <<"post", ToString(posts + 1)>>), 100, TRUE)
    <2>1. /\ Hold(event) /\ Signalled(event) BY <1>17 DEF Post
    <2> HIDE DEF event
    <2>2. /\ posts < MaxPosts /\ posts' = posts + 1 /\ UNCHANGED <<served, loads>> BY <1>17 DEF Post
    <2> QED BY <1>3, <1>5, <1>6, <2>1, <2>2
  <1>18. CASE WorkerRuns BY <1>3, <1>4, <1>18 DEF WorkerRuns, Rest
  <1>19. CASE UNCHANGED loadVars BY <1>3, <1>4, <1>19 DEF loadVars
  <1> QED
    BY <1>7, <1>8, <1>9, <1>10, <1>11, <1>12, <1>13, <1>14, <1>15, <1>16, <1>17, <1>18, <1>19 DEF LoadNext

LEMMA LoadTypeStart == LoadInit => LoadTypeOK
  BY DatasetLoadAssumption DEF LoadInit, LoadTypeOK, Off, HeldIds

(* The loader keeps its variables in their ranges: a signal, and what a run  *)
(* of the assembly has seen, is an event of the store, which forgets none.   *)
THEOREM LoadTyped == LoadSpec => []LoadTypeOK
  <1>1. LoadInv /\ LoadInv' /\ LoadTypeOK /\ [LoadNext]_loadVars => LoadTypeOK' BY LoadTypeKept
  <1> QED BY <1>1, LoadTypeStart, LoadInductive, PTL DEF LoadSpec
=============================================================================
