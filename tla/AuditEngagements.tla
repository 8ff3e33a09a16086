-------------------------- MODULE AuditEngagements --------------------------
(* An audit engagement with a customer: three stages one after the other,    *)
(* findings, the final report.  Handlers run on the thread pool; each reads  *)
(* the engagement, changes its copy and writes the whole row back.           *)
EXTENDS Integers, Sequences, FiniteSets

CONSTANTS
  Clerks,      \* threads that serve requests about the engagement
  Notes,       \* findings that may be added
  MaxErrands   \* bound: requests accepted

ASSUME AuditEngagementsAssumption == MaxErrands \in Nat

VARIABLES
  engagement,  \* the stored row: status, stages, findings, report
  errand,      \* [Clerks -> the request a thread serves, with the row it read]
  errands,     \* requests accepted so far
  crossed,     \* history: a row was written over another than the one read
  closed       \* history: the engagement has been completed

engagementVars == <<engagement, errand, errands, crossed, closed>>

Stages == <<"intake", "forensic_collection", "reporting">>

(* create: the first stage is under way at once.                             *)
NewEngagement ==
  [status |-> "active", findings |-> <<>>, report |-> FALSE,
   stages |-> [i \in DOMAIN Stages |-> IF i = 1 THEN "in_progress" ELSE "pending"]]

UnderWay(row) == {i \in DOMAIN row.stages : row.stages[i] = "in_progress"}

(* The first stage under way is completed and the next one begins; there is  *)
(* no next one after the last, and then the engagement is completed.         *)
Advanced(row) ==
  LET i == CHOOSE i \in UnderWay(row) : \A j \in UnderWay(row) : i <= j
  IN [row EXCEPT !.stages = [j \in DOMAIN @ |-> IF j = i THEN "completed"
                                               ELSE IF j = i + 1 THEN "in_progress" ELSE @[j]],
                 !.status = IF i < Len(Stages) THEN @ ELSE "completed"]

Finalized(row) ==
  [row EXCEPT !.report = TRUE, !.status = "completed",
              !.stages = [j \in DOMAIN @ |-> "completed"]]

ExportReport(row) ==
  [findings |-> Len(row.findings), total |-> Len(row.stages), report |-> row.report,
   completed |-> Cardinality({j \in DOMAIN row.stages : row.stages[j] = "completed"})]

NoErrand == [kind |-> "none"]

Call(k, what) ==
  /\ errand[k] = NoErrand /\ errands < MaxErrands
  /\ what.kind = "advance" => UnderWay(engagement) # {}
  /\ errand' = [errand EXCEPT ![k] = [kind |-> what.kind, note |-> what.note, row |-> engagement]]
  /\ errands' = errands + 1
  /\ UNCHANGED <<engagement, crossed, closed>>

Store(k) ==
  /\ errand[k] # NoErrand
  /\ LET e == errand[k]
     IN /\ engagement' = CASE e.kind = "advance" -> Advanced(e.row)
                           [] e.kind = "finding" -> [e.row EXCEPT !.findings = Append(@, e.note)]
                           [] e.kind = "finalize" -> Finalized(e.row)
        /\ crossed' = (crossed \/ engagement # e.row)
  /\ closed' = (closed \/ engagement'.status = "completed")
  /\ errand' = [errand EXCEPT ![k] = NoErrand]
  /\ UNCHANGED errands

EngagementInit ==
  /\ engagement = NewEngagement
  /\ errand = [k \in Clerks |-> NoErrand]
  /\ errands = 0 /\ crossed = FALSE /\ closed = FALSE

EngagementNext ==
  \E k \in Clerks :
    \/ \E what \in [kind : {"advance", "finalize"}, note : {0}] \cup [kind : {"finding"}, note : Notes] :
         Call(k, what)
    \/ Store(k)

EngagementSpec == EngagementInit /\ [][EngagementNext]_engagementVars

-----------------------------------------------------------------------------
EngagementTypeOK ==
  /\ engagement.status \in {"active", "completed"}
  /\ \A j \in DOMAIN Stages : engagement.stages[j] \in {"pending", "in_progress", "completed"}
  /\ errands \in 0..MaxErrands

(* However saves overwrite each other, the row tells a story that can have   *)
(* happened: completed stages, then at most one under way, then pending ones;*)
(* the engagement is completed exactly when its stages are, and a final      *)
(* report means that it is; and it is never reopened, as long as no save     *)
(* crosses another one (the code has no lock to keep it otherwise).          *)
EngagementTellsItsStory ==
  LET S == engagement.stages
  IN /\ \A i, j \in DOMAIN S : i < j => (S[i] = "completed" \/ S[j] = "pending")
     /\ Cardinality(UnderWay(engagement)) = IF engagement.status = "active" THEN 1 ELSE 0
     /\ engagement.status = "completed"
          <=> ExportReport(engagement).completed = ExportReport(engagement).total
     /\ engagement.report => engagement.status = "completed"
     /\ closed /\ ~crossed => engagement.status = "completed"

-----------------------------------------------------------------------------
(* Why EngagementTellsItsStory holds: the inductive invariant.               *)

(* Rows with the stages before the k-th completed, and that one under way.   *)
RowsAt(k) ==
  [status   : {IF k \in DOMAIN Stages THEN "active" ELSE "completed"},
   findings : Seq(Notes),
   report   : IF k \in DOMAIN Stages THEN {FALSE} ELSE BOOLEAN,
   stages   : {[j \in DOMAIN Stages |-> IF j < k THEN "completed"
                                        ELSE IF j = k THEN "in_progress" ELSE "pending"]}]

Rows == UNION {RowsAt(k) : k \in 1..(Len(Stages) + 1)}

Errands == [kind : {"advance"}, note : {0}, row : UNION {RowsAt(k) : k \in DOMAIN Stages}]
           \cup [kind : {"finalize"}, note : {0}, row : Rows]
           \cup [kind : {"finding"}, note : Notes, row : Rows]

EngagementInv ==
  /\ engagement \in Rows /\ errand \in [Clerks -> Errands \cup {NoErrand}]
  /\ crossed \in BOOLEAN /\ closed \in BOOLEAN
  /\ closed /\ ~crossed => engagement.status = "completed"
=============================================================================
