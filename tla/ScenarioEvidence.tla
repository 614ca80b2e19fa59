--------------------------- MODULE ScenarioEvidence ---------------------------
(***************************************************************************)
(* scripts/collect_hr_scenario_evidence.py: the acceptance script that     *)
(* walks the read side of a deployed API, one GET after another, and       *)
(* reports whether one certificate went through the whole HR scenario.     *)
(*                                                                         *)
(* HR keeps working while it runs.  A request of HR or a task of the       *)
(* worker is one commit here; the other modules look inside them.  What    *)
(* they show it may overwrite is kept: a check made on data read without   *)
(* a lock may have passed before another commit (Passed), so that a        *)
(* recognition may begin over a confirmed document, reject an approved     *)
(* review, an edit revive a replaced record and the daily scan a closed    *)
(* case.  Every GET reads the data of its own moment, the report in three  *)
(* statements and the certificate trace in two.                            *)
(***************************************************************************)
EXTENDS HrConsole, Functions

CONSTANTS
    Starts,       \* the data a behaviour may begin with
    Offices,      \* the departments HR may write down for an employee
    Facts,        \* the [employee, type, month] a record of the ledger may say
    Derived,      \* the statuses that an expiry may be found to have
    Selections,   \* command lines of the script
    MaxCommits,   \* bound: commits before the script starts and while it runs
    MaxLate       \* bound: checks that passed on data changed before the commit

NoReview == <<0, 0>>
NoCase   == <<0, 0>>

\* What a record says, and a command line.  The employee number and the type code asked
\* for stand as the sets of those whose own contains them; 0 and {}: not given.
Fact      == [employee: Employees, type: Types, month: Months]
Selection == [employees: SUBSET Employees, types: SUBSET Types, certificate: Certificates \cup {0},
              document: Documents \cup {0}, review: Reviews \cup {NoReview}, task: Cases \cup {NoCase}]

\* The tables.
EmployeeRow    == [status: EmploymentStatus, department: Departments \cup {""}]
ReviewRow      == [status: ReviewStatus, certificate: Certificates \cup {0}]
CertificateRow == [status: CertificateStatus, employee: Employees \cup {0}, type: Types \cup {0},
                   doc: Documents \cup {0}, by: Certificates \cup {0}, month: Months \cup {0}]
TaskRow        == [status: TaskStatus, events: BOOLEAN, feedback: BOOLEAN]
Data == [employee: [Employees -> EmployeeRow], types: SUBSET Types,
         document: [Documents -> DocumentStatus], extracted: SUBSET Documents,
         review: [Reviews -> ReviewRow], certificate: [Certificates -> CertificateRow],
         task: [Cases -> TaskRow]]

\* What every commit keeps: a review has its document's extraction, an approved one its
\* certificate; a record has an employee and a type, a replaced one its successor; a
\* case that was moved on has events.
Consistent(x) ==
    /\ x \in Data
    /\ \A r \in Reviews : LET row == x.review[r] IN
           /\ row.status # "NONE" => r[1] \in x.extracted
           /\ row.status = "APPROVED" => row.certificate # 0
    /\ \A c \in Certificates : LET row == x.certificate[c] IN
           /\ row.status # "NONE" => row.employee \in Employees /\ row.type \in x.types /\ row.month \in Months
           /\ row.status = "REPLACED" => row.by # 0
           /\ row.by # 0 => row.status # "NONE"
    /\ \A k \in Cases : LET row == x.task[k] IN
           row.status \notin {"NONE", "PENDING"} \/ row.feedback => row.events

ASSUME EvidenceAssumption ==
    /\ IsFiniteSet(Employees) /\ IsFiniteSet(Documents) /\ IsFiniteSet(Certificates)
    /\ IsFiniteSet(Types) /\ IsFiniteSet(Months) /\ IsFiniteSet(Tries)
    /\ 0 \notin Documents
    /\ Employees \cup Types \cup Certificates \cup Tries \subseteq Nat \ {0} /\ Months \subseteq Nat
    /\ "" \notin Departments
    /\ \A e \in Employees : Offices[e] \subseteq Departments \cup {""}
    /\ Facts \subseteq Fact /\ Selections \subseteq Selection
    /\ \A x \in Starts : Consistent(x)
    /\ \A m \in Months : Derived[m] \subseteq {"ACTIVE", "EXPIRING", "EXPIRED"}
    /\ MaxCommits \in Nat /\ MaxLate \in Nat

\* A name is part of itself; nothing is part of a department that is not set.
ASSUME LabelAssumption ==
    /\ \A d \in Departments : <<d, d>> \in PartOf
    /\ \A d \in Departments \cup {Unset} : <<d, "">> \notin PartOf

VARIABLES
    db,           \* the committed data (HrConsole)
    script,       \* the collector: where it is and what it remembers
    before,       \* commits before the script started (bounded)
    late          \* late checks so far (bounded)

vars == <<db, script, before, late>>

NoRow == [status |-> "NONE", employee |-> 0, type |-> 0, doc |-> 0, by |-> 0, month |-> 0]
NoEmployees == [e \in {} |-> 0]
Idle == [pc |-> "idle", select |-> [employees |-> {}, types |-> {}, certificate |-> 0,
                                    document |-> 0, review |-> NoReview, task |-> NoCase],
         commits |-> 0, ok |-> TRUE, down |-> FALSE, risks |-> {}, traced |-> FALSE,
         employee |-> NoEmployees, types |-> {}, person |-> 0, kind |-> 0, certificate |-> 0,
         row |-> NoRow, document |-> "NONE", review |-> NoReview, task |-> NoCase]

\* A company that has written down nothing.
NoData == [employee    |-> [e \in Employees |-> [status |-> "NONE", department |-> ""]],
           types       |-> {},
           document    |-> [d \in Documents |-> "NONE"],
           extracted   |-> {},
           review      |-> [r \in Reviews |-> [status |-> "NONE", certificate |-> 0]],
           certificate |-> [c \in Certificates |-> NoRow],
           task        |-> [k \in Cases |-> [status |-> "NONE", events |-> FALSE, feedback |-> FALSE]]]

Init == db \in Starts /\ script = Idle /\ before = 0 /\ late = 0

-----------------------------------------------------------------------------
(***************************************************************************)
(* HR, the worker and the scheduler                                        *)
(***************************************************************************)

Commit(new) ==
    /\ script.pc # "done" /\ before + script.commits < MaxCommits
    /\ db' = new
    /\ IF script.pc = "idle" THEN before' = before + 1 /\ UNCHANGED script
       ELSE script' = [script EXCEPT !.commits = @ + 1] /\ UNCHANGED before

\* A check that may have been made before another commit.
Passed(check) == \/ check /\ UNCHANGED late
                 \/ ~check /\ late < MaxLate /\ late' = late + 1

\* close_open_reminder_tasks on the records in S.
Closed(data, S, status) ==
    [data EXCEPT !.task = [k \in Cases |->
        IF k[1] \in S /\ data.task[k].status \in OpenTasks
        THEN [data.task[k] EXCEPT !.status = status, !.events = TRUE] ELSE data.task[k]]]

\* create_employee and update_employee; who leaves has no open cases.
SaveEmployee(e) ==
    /\ \E status \in {"ACTIVE", "LEFT"}, department \in Offices[e] :
          LET saved == [db EXCEPT !.employee[e] = [status |-> status, department |-> department]]
              own   == {c \in Certificates : db.certificate[c].employee = e} IN
          Commit(IF status = "LEFT" /\ e \in OnRoll(db) THEN Closed(saved, own, "CLOSED") ELSE saved)
    /\ UNCHANGED late

NewType(t) == t \notin db.types /\ Commit([db EXCEPT !.types = @ \cup {t}]) /\ UNCHANGED late

Upload(d) ==
    /\ db.document[d] = "NONE" /\ Commit([db EXCEPT !.document[d] = "UPLOADED"])
    /\ UNCHANGED late

\* recognize_document_async.
StartParsing(d) ==
    /\ db.document[d] # "NONE"
    /\ Passed(db.document[d] \in {"UPLOADED", "FAILED", "PENDING_REVIEW"})
    /\ Commit([db EXCEPT !.document[d] = "PARSING"])

\* Bound: the review tasks of one document.
Unused(d) == {n \in Tries : db.review[<<d, n>>].status = "NONE"}
OpenReviews(d) == {r \in ReviewsOf(db, d) : db.review[r].status \in PendingReviews}

\* The last commit of run_recognition: the reviews it had found open are rejected,
\* a new one is opened.
Recognize(d) ==
    /\ db.document[d] # "NONE" /\ Unused(d) # {}
    /\ \E found \in SUBSET ReviewsOf(db, d) :
          LET next == CHOOSE n \in Unused(d) : \A m \in Unused(d) : n <= m IN
          /\ Passed(db.document[d] = "PARSING" /\ found = OpenReviews(d))
          /\ Commit([db EXCEPT !.document[d] = "PENDING_REVIEW", !.extracted = @ \cup {d},
                        !.review = [r \in Reviews |->
                            IF r \in found THEN [db.review[r] EXCEPT !.status = "REJECTED"]
                            ELSE IF r = <<d, next>> THEN [status |-> "PENDING", certificate |-> 0]
                            ELSE db.review[r]]])

\* mark_failed.
RecognizeFails(d) ==
    /\ db.document[d] = "PARSING" /\ Commit([db EXCEPT !.document[d] = "FAILED"])
    /\ UNCHANGED late

\* reject_review_task, with REJECTED or NEEDS_INFO.
Reject(r) ==
    /\ db.review[r].status \in PendingReviews
    /\ \/ Commit([db EXCEPT !.review[r].status = "REJECTED", !.document[r[1]] = "FAILED"])
       \/ Commit([db EXCEPT !.review[r].status = "NEEDS_INFO", !.document[r[1]] = "PENDING_REVIEW"])
    /\ UNCHANGED late

NewRow(fact, status, d) == [status |-> status, employee |-> fact.employee, type |-> fact.type,
                            doc |-> d, by |-> 0, month |-> fact.month]
FollowUp == CoverageStatuses \cup {"EXPIRED"}        \* _REPLACEABLE_, _FOLLOW_UP_CERTIFICATE_STATUSES
Current(e, t) == {c \in Certificates : /\ db.certificate[c].status \in FollowUp
                                       /\ db.certificate[c].employee = e /\ db.certificate[c].type = t}

\* Mutant: the successor is not noted.
ReplacedUnnamed(row, by) == [row EXCEPT !.status = "REPLACED"]
\* _mark_replaced.
Replaced(row, by) == [row EXCEPT !.status = "REPLACED", !.by = by]

\* replace_active_certificates for record c, about to become row: the record that
\* reaches furthest replaces the others, be it new or old; the follow-up of a replaced
\* record is resolved.
Registered(c, row) ==
    LET old   == IF row.status \in FollowUp THEN Current(row.employee, row.type) \ {c} ELSE {}
        newer == {o \in old : db.certificate[o].month > row.month} IN
    IF newer # {}
    THEN LET latest == CHOOSE o \in newer : \A p \in newer : db.certificate[p].month <= db.certificate[o].month
         IN  Closed([db EXCEPT !.certificate[c] = Replaced(row, latest)], {c}, "RESOLVED")
    ELSE Closed([db EXCEPT !.certificate = [o \in Certificates |->
                                IF o = c THEN row
                                ELSE IF o \in old THEN Replaced(db.certificate[o], c)
                                ELSE db.certificate[o]]], old, "RESOLVED")

\* validate_certificate_business_rules; whether the employee has left is read without a lock.
Valid(fact)           == db.employee[fact.employee].status # "NONE" /\ fact.type \in db.types
MayHold(fact, status) == status \in CoverageStatuses => fact.employee \in OnRoll(db)

\* Ids are taken in their order.  Bound: the ids.
FreeIds == {c \in Certificates : db.certificate[c].status = "NONE"}
NextId  == CHOOSE c \in FreeIds : \A x \in FreeIds : c <= x

\* approve_review_task with one certificate; its status follows from the date.
Approve(r) ==
    /\ db.review[r].status \in PendingReviews /\ FreeIds # {}
    /\ \E fact \in Facts : \E status \in Derived[fact.month] :
          /\ Valid(fact)
          /\ Passed(db.document[r[1]] = "PENDING_REVIEW" /\ fact.employee \in OnRoll(db))
          /\ Commit([Registered(NextId, NewRow(fact, status, r[1]))
                     EXCEPT !.review[r] = [status |-> "APPROVED", certificate |-> NextId],
                            !.document[r[1]] = "CONFIRMED"])

\* The source documents a form may name.
Sources == {0} \cup {d \in Documents : db.document[d] # "NONE"}

\* create_employee_certificate.
Register ==
    /\ FreeIds # {}
    /\ \E fact \in Facts, d \in Sources : \E status \in Derived[fact.month] :
          /\ Valid(fact) /\ Passed(MayHold(fact, status))
          /\ Commit(Registered(NextId, NewRow(fact, status, d)))

\* update_employee_certificate with any fields: the status follows from the date, or is
\* ARCHIVED; a replaced record keeps its own.
Edit(c) ==
    /\ db.certificate[c].status # "NONE"
    /\ \E fact \in Facts, d \in Sources : \E status \in Derived[fact.month] \cup {"ARCHIVED", "REPLACED"} :
          LET old   == db.certificate[c]
              new   == Registered(c, [NewRow(fact, status, d) EXCEPT !.by = old.by])
              moved == new.certificate[c].month # old.month IN
          /\ Valid(fact)
          /\ status = "REPLACED" => old.status = "REPLACED"
          /\ Passed((status = "REPLACED" <=> old.status = "REPLACED") /\ MayHold(fact, status))
          /\ Commit(IF new.certificate[c].status \notin FollowUp \/ moved
                    THEN Closed(new, {c}, "CLOSED") ELSE new)

\* refresh_certificate_expiry_statuses, for the record whose time has come.
Expire(c) ==
    /\ db.certificate[c].status \in CoverageStatuses
    /\ Commit([db EXCEPT !.certificate[c].status =
                    IF db.certificate[c].status = "ACTIVE" THEN "EXPIRING" ELSE "EXPIRED"])
    /\ UNCHANGED late

\* uq_reminder_task_one_open_per_certificate.
Alone(k) == \A j \in CasesOf(db, k[1]) \ {k} : db.task[j].status \notin OpenTasks

\* scan_and_create_reminder_tasks: one task per record and expiry date.
OpenTask(k) ==
    LET row == db.certificate[k[1]] IN
    /\ row.status # "NONE" /\ db.task[k].status = "NONE" /\ Alone(k)
    /\ Passed(row.status \in CoverageStatuses /\ row.month = k[2] /\ row.employee \in OnRoll(db))
    /\ Commit([db EXCEPT !.task[k].status = "PENDING"])

\* A dispatch, by the scan or by hand, of a case seen in some status; it moves the case
\* on when a channel has sent it (_advance_task_state).
NextStage == [PENDING |-> "WAITING_FEEDBACK", WAITING_FEEDBACK |-> "SECOND_SENT", SECOND_SENT |-> "ESCALATED"]
Remind(k) ==
    /\ db.task[k].status # "NONE"
    /\ \E seen \in DOMAIN NextStage, sent \in BOOLEAN :
          /\ sent => Alone(k)
          /\ Passed(db.task[k].status = seen)
          /\ Commit([db EXCEPT !.task[k].events = TRUE,
                               !.task[k].status = IF sent THEN NextStage[seen] ELSE @])

\* The scan closes what is open for a record that needs no follow-up (stale_task_close_reason).
CloseStale(k) ==
    LET row == db.certificate[k[1]] IN
    /\ db.task[k].status \in DOMAIN NextStage
    /\ row.status \notin FollowUp \/ row.employee \notin OnRoll(db)
    /\ Commit(Closed(db, {k[1]}, IF row.status = "REPLACED" THEN "RESOLVED" ELSE "CLOSED"))
    /\ UNCHANGED late

\* create_feedback: in progress, renewed, or no action.
Feedback(k) ==
    /\ db.task[k].status \in OpenTasks
    /\ \E answer \in {"WAITING_FEEDBACK", "RESOLVED", "CLOSED"} :
          LET stays == answer = "WAITING_FEEDBACK" /\ db.task[k].status = "ESCALATED" IN
          Commit([db EXCEPT !.task[k] = [status |-> IF stays THEN "ESCALATED" ELSE answer,
                                         events |-> TRUE, feedback |-> TRUE]])
    /\ UNCHANGED late

-----------------------------------------------------------------------------
(***************************************************************************)
(* The script                                                              *)
(***************************************************************************)

\* Every GET of one step finds the data as it is.
At(pc)    == script.pc = pc /\ UNCHANGED <<db, before, late>>
Goes(new) == script' = new
\* What is left is the report.
Finish(ok, down) ==
    Goes([Idle EXCEPT !.pc = "done", !.select = script.select, !.commits = script.commits,
                      !.certificate = script.certificate, !.row = script.row, !.review = script.review,
                      !.task = script.task, !.ok = ok, !.down = down])
\* An item is PASS or FAIL.  The checks after a FAIL add items to the report but cannot
\* make it ok; they are not followed.
Item(pass, new) == IF pass THEN Goes(new) ELSE Finish(FALSE, script.down)

\* The health check answers.
Start == At("idle") /\ Goes([Idle EXCEPT !.pc = "summary"])

\* Non-zero risk rows, the first three of them, by their places.
Nonzero == LET rows == {i \in DOMAIN Risks : RiskCount(db, Risks[i]) > 0}
           IN  {i \in rows : Cardinality({j \in rows : j < i}) < 3}
Summary == At("summary") /\ Goes([script EXCEPT !.pc = "report", !.risks = Nonzero])

\* GET /reports/certificate-coverage: the employees, then the types, then the
\* certificates.  Both payloads always have rows with target paths.
Report      == At("report") /\ Goes([script EXCEPT !.pc = "report2", !.employee = db.employee])
ReportTypes == At("report2") /\ Goes([script EXCEPT !.pc = "report3", !.types = db.types])
ReportRest ==
    /\ At("report3")
    /\ Goes([script EXCEPT !.pc = IF script.risks = {} THEN "exports" ELSE "risk",
                            !.employee = NoEmployees, !.types = {}])

\* One trace per risk row; the item passes when any of them had a source row.
NextRisk == CHOOSE i \in script.risks : \A j \in script.risks : i <= j
TracedRisk(found, fails) ==
    LET rest == [script EXCEPT !.risks = @ \ {NextRisk}, !.traced = @ \/ found, !.down = @ \/ fails] IN
    IF rest.risks # {} THEN Goes(rest)
    ELSE IF rest.traced THEN Goes([rest EXCEPT !.pc = "exports", !.traced = FALSE])
    ELSE Finish(FALSE, rest.down)
TraceRisk == At("risk") /\ TracedRisk(RiskTrace(db, Risks[NextRisk]) # {}, FALSE)

\* The six CSV files; each has at least its header line.  From here on the selectors
\* of the command line matter: that is where they are chosen.
Exports ==
    /\ At("exports")
    /\ \E s \in Selections : Goes([script EXCEPT !.pc = "person", !.select = s])

\* A page lists the newest first; the script takes the first row, if there is one.
Newest(ids) == IF ids = {} THEN 0 ELSE CHOOSE i \in ids : \A j \in ids : j <= i

\* The number and the code are looked for as parts of those of the rows.
Matching == {e \in script.select.employees : db.employee[e].status # "NONE"}
FindPerson == At("person") /\ Goes([script EXCEPT !.pc = "kind", !.person = Newest(Matching)])
FindKind ==
    /\ At("kind")
    /\ Goes([script EXCEPT !.pc = "find", !.kind = Newest(script.select.types \cap db.types)])

\* Mutant: the employee is looked up but not passed on.
PageOfAnyone(group, person, kind) ==
    CertificateStatement(db, [Everything("certificates") EXCEPT
        !.group = group, !.type = IF kind = 0 THEN {} ELSE {kind}])

\* Rows of the certificate page for an employee and a type; without them (0) it is not
\* filtered.
Page(group, person, kind) ==
    {c \in CertificateStatement(db, [Everything("certificates") EXCEPT
                 !.group = group, !.type = IF kind = 0 THEN {} ELSE {kind}]) :
        person # 0 => db.certificate[c].employee = person}

\* _prefer_linked_certificate.
Prefer(rows) ==
    LET linked  == {c \in rows : db.certificate[c].doc # 0}
        current == {c \in linked : db.certificate[c].status \in CoverageStatuses} IN
    Newest(IF current # {} THEN current ELSE IF linked # {} THEN linked ELSE rows)

Anchor(c) == Goes([script EXCEPT !.pc = "trace", !.certificate = c, !.person = 0, !.kind = 0])

FindCertificate ==
    /\ At("find")
    /\ LET rows == Page("current", script.person, script.kind) IN
       IF script.select.certificate # 0 THEN Anchor(script.select.certificate)
       ELSE IF rows # {} THEN Anchor(Prefer(rows))
       ELSE Goes([script EXCEPT !.pc = "find2"])
FindAny ==
    /\ At("find2")
    /\ LET rows == Page("", script.person, script.kind) IN
       IF rows = {} THEN Finish(FALSE, script.down) ELSE Anchor(Prefer(rows))

\* _select_reminder: a closed case if there is one; the cases come in any order.
Selected(k, cases) ==
    LET closed == {o \in cases : db.task[o].status \in ClosedTasks} IN
    IF cases = {} THEN k = NoCase ELSE k \in IF closed # {} THEN closed ELSE cases

\* GET /certificates/{id}/trace: the record with its document and cases, then the
\* extraction and the reviews of the document.  Of an unknown id it is a 404.
OpenTrace ==
    /\ At("trace")
    /\ LET read == CertificateTrace(db, script.certificate) IN
       \E k \in Cases \cup {NoCase} :
          /\ Selected(k, read.tasks)
          /\ Item(read.certificate.status # "NONE",
                  [script EXCEPT !.pc = "trace2", !.row = read.certificate,
                                 !.document = read.document, !.task = k])

\* The newest approved review.
ApprovedOf(reviews) ==
    LET approved == {r \in reviews : db.review[r].status = "APPROVED"} IN
    IF approved = {} THEN NoReview ELSE CHOOSE r \in approved : \A o \in approved : o[2] <= r[2]

\* _check_upload_and_ai and _check_review_and_certificate on the whole trace.
OpenTraceRest ==
    /\ At("trace2")
    /\ LET d      == script.row.doc
           review == ApprovedOf(ReviewsOf(db, d)) IN
       Item(d # 0 /\ script.document = "CONFIRMED" /\ d \in db.extracted /\ review # NoReview,
            [script EXCEPT !.pc = "replacement", !.document = "NONE", !.review = review])

\* Rows of the same employee and type that were replaced.
ReplacedRows(row, self) ==
    {c \in Certificates \ {self} : /\ db.certificate[c].employee = row.employee
                                   /\ db.certificate[c].type = row.type
                                   /\ (db.certificate[c].by = self \/ db.certificate[c].status = "REPLACED")}
Replacement ==
    /\ At("replacement")
    /\ Item(script.row.by # 0 \/ ReplacedRows(script.row, script.certificate) # {},
            [script EXCEPT !.pc = "document"])

\* GET /documents/{id}/trace of the selected document, or of the certificate's.
Chosen(selected, none, own) == IF selected # none THEN selected ELSE own
DocumentCheck ==
    /\ At("document")
    /\ LET read == DocumentTrace(db, Chosen(script.select.document, 0, script.row.doc)) IN
       Item(read.document # "NONE" /\ read.extracted /\ read.reviews # {} /\ read.certificates # {},
            [script EXCEPT !.pc = "review"])

\* GET /reviews/{id}/trace, alike.
ReviewCheck ==
    /\ At("review")
    /\ LET read == ReviewTrace(db, Chosen(script.select.review, NoReview, script.review)) IN
       Item(read.review # "NONE" /\ read.extracted /\ read.certificates # {},
            [script EXCEPT !.pc = "timeline"])

\* Mutant: a closed case is taken for one closed with feedback.
ClosedAnyhow(task) == task.status \in ClosedTasks
\* closure_ok.
ClosureOk(task) == task.status \in ClosedTasks /\ task.feedback

\* GET /reminders/tasks/{id}/timeline of the selected case, when the certificate has
\* any, or of the one of its trace.
TimelineCheck ==
    /\ At("timeline")
    /\ LET k == Chosen(script.select.task, NoCase, script.task) IN
       Finish(k # NoCase /\ Timeline(db, k).events /\ ClosureOk(Timeline(db, k)), script.down)

\* A GET that is refused or times out, or an unhealthy answer, is a FAIL; only the
\* trace of a risk row is skipped.
RequestFails ==
    /\ UNCHANGED <<db, before, late>>
    /\ CASE script.pc \in {"idle", "done"} -> FALSE
         [] script.pc = "risk"              -> TracedRisk(FALSE, TRUE)
         [] OTHER                           -> Finish(FALSE, TRUE)

-----------------------------------------------------------------------------
World ==
    \/ \E e \in Employees : SaveEmployee(e)
    \/ \E t \in Types : NewType(t)
    \/ \E d \in Documents : Upload(d) \/ StartParsing(d) \/ Recognize(d) \/ RecognizeFails(d)
    \/ \E r \in Reviews : Reject(r) \/ Approve(r)
    \/ \E c \in Certificates : Edit(c) \/ Expire(c)
    \/ \E k \in Cases : OpenTask(k) \/ Remind(k) \/ CloseStale(k) \/ Feedback(k)
    \/ Register

Script ==
    \/ Start \/ Summary \/ Report \/ ReportTypes \/ ReportRest \/ TraceRisk \/ Exports
    \/ FindPerson \/ FindKind \/ FindCertificate \/ FindAny
    \/ OpenTrace \/ OpenTraceRest \/ Replacement
    \/ DocumentCheck \/ ReviewCheck \/ TimelineCheck \/ RequestFails

Next == World \/ Script
Spec == Init /\ [][Next]_vars

-----------------------------------------------------------------------------
(***************************************************************************)
(* Properties                                                              *)
(***************************************************************************)

\* Whatever is overwritten, a REPLACED record names its successor, a review has its
\* document's extraction stored and, if approved, a certificate, a record's type exists,
\* and a case that was sent, answered or closed has events: the traces of the script's
\* GETs find what they refer to (services/certificates.py, routes/reminders.py).
ConsoleTypeOK == Consistent(db)

\* What the number of a department and the list behind its link may differ in: the
\* list lacks the employees without a department, and also has those of departments
\* whose name contains this one's.
DepartmentAgrees(row) ==
    LET label   == CHOOSE d \in row.path.department : TRUE
        counted == {e \in OnRoll(db) : Label(db.employee, e) = label}
        shown   == Opens(db, row.path) IN
    /\ row.count = Cardinality(counted)
    /\ \A e \in counted \ shown : db.employee[e].department = ""
    /\ \A e \in shown \ counted : /\ e \in OnRoll(db) /\ db.employee[e].department # label
                                  /\ <<label, db.employee[e].department>> \in PartOf

\* Every number of the dashboard and of the coverage report is the number of rows
\* the page behind its link shows: dashboard.py and reports.py restrict the numbers
\* and the links to the same statuses and to the employees on the roll.  The numbers of
\* the departments are those of their lists but for two differences, which the code has
\* (DepartmentAgrees).  (Any data is there before the script starts, so it is looked at
\* only then.)
DrilldownAgrees ==
    script.pc = "idle" =>
        /\ \A row \in StatusRows(db) \cup WorkloadRows(db) \cup PipelineSteps(db)
                       \cup TypeRows(db) \cup MonthRows(db) :
               row.count = Cardinality(Opens(db, row.path))
        /\ \A row \in DepartmentRows(db) : DepartmentAgrees(row)

\* The report adds up although employees, types and certificates are read by three
\* statements with commits between them: nobody is covered who is not counted, the
\* departments partition the employees, and the months count every record at risk that
\* a type counts, and more only if a type was created after the types were read
\* (build_certificate_coverage_report).
ReportAddsUp ==
    script.pc = "report3" =>
        LET report  == CoverageReport(script.employee, script.types, db.certificate)
            rows    == DOMAIN report.departments
            atRisk  == SumFunction([t \in script.types |-> report.types[t].expiring + report.types[t].expired]) IN
        /\ report.covered <= report.employees
        /\ \A d \in rows : report.departments[d].covered <= report.departments[d].employees
        /\ report.employees = SumFunction([d \in rows |-> report.departments[d].employees])
        /\ report.covered = SumFunction([d \in rows |-> report.departments[d].covered])
        /\ atRisk <= SumFunction(report.months)
        /\ script.types = db.types => atRisk = SumFunction(report.months)

\* The scenario the script is to prove, for one certificate: it is linked to a confirmed
\* document with an extraction and an approved review, and it or another of its employee
\* and type was replaced.
Chain(c) ==
    LET row == db.certificate[c] IN
    /\ row.status # "NONE" /\ row.doc # 0
    /\ db.document[row.doc] = "CONFIRMED" /\ row.doc \in db.extracted
    /\ \E r \in ReviewsOf(db, row.doc) : db.review[r].status = "APPROVED"
    /\ row.by # 0 \/ ReplacedRows(row, c) # {}
\* Its closed cases, and those of them that HR answered.
ClosedOf(c)   == {k \in CasesOf(db, c) : db.task[k].status \in ClosedTasks}
AnsweredOf(c) == {k \in ClosedOf(c) : db.task[k].feedback /\ db.task[k].events}

\* The certificate is one the options ask for: the number and the code are those of the
\* newest rows that contain them.
Asked ==
    LET row == db.certificate[script.certificate] IN
    \/ script.select.certificate # 0
    \/ /\ Matching # {} => row.employee = Newest(Matching)
       /\ script.select.types \cap db.types # {} => row.type = Newest(script.select.types \cap db.types)
NoOverride == /\ script.select.document = 0 /\ script.select.review = NoReview
              /\ script.select.task = NoCase

\* While nothing is committed and every request is answered, the report tells the truth.
\* If it is ok, the certificate it names went through the whole scenario and is the one
\* asked for; if not, there is none to start from or it lacks a part: no closed case, or
\* one without feedback, which the script may have taken although another has it
\* (_check_dashboard_and_reports, _check_scenario_chain).
QuietVerdict ==
    script.pc = "done" /\ script.commits = 0 /\ ~script.down /\ NoOverride =>
        LET c == script.certificate IN
        IF script.ok THEN c # 0 /\ Chain(c) /\ AnsweredOf(c) # {} /\ Asked
        ELSE \/ c = 0 /\ Page("", Newest(Matching), Newest(script.select.types \cap db.types)) = {}
             \/ c # 0 /\ ~(Chain(c) /\ ClosedOf(c) # {} /\ ClosedOf(c) = AnsweredOf(c))

\* Whatever HR and the worker commit between the requests, what an ok report has seen
\* hangs together and cannot be undone: the review it names belongs to the document the
\* certificate came from, was approved (a later recognition may have rejected it) and
\* issued a certificate, the extraction is stored, a record was replaced, and the case it
\* names is one of that certificate and has HR's feedback (_check_trace_endpoints,
\* _check_reminder_loop).
OkLeavesTraces ==
    script.pc = "done" /\ script.ok /\ NoOverride =>
        /\ db.certificate[script.certificate].status # "NONE"
        /\ script.review[1] = script.row.doc /\ script.row.doc \in db.extracted
        /\ db.review[script.review].status \in {"APPROVED", "REJECTED"}
        /\ db.review[script.review].certificate # 0
        /\ \E c \in Certificates : db.certificate[c].by # 0
        /\ script.task[1] = script.certificate
        /\ db.task[script.task].feedback /\ db.task[script.task].events
=============================================================================
