------------------------------ MODULE HrConsole ------------------------------
(***************************************************************************)
(* What the read side of the API answers, as functions of the committed    *)
(* data: the filtered lists behind the pages and their CSV exports, the    *)
(* dashboard (api/routes/dashboard.py), the coverage report                *)
(* (api/routes/reports.py), and the traces of certificates, documents,     *)
(* reviews and reminder cases.                                             *)
(*                                                                         *)
(* The data is a record of functions, one per table, and of two sets:      *)
(*   employee[e]     status and department ("": not set)                   *)
(*   types           the certificate types                                 *)
(*   document[d]     status ("NONE": no such row)                          *)
(*   extracted       the documents with a stored extraction                *)
(*   review[r]       status, and the certificate its approval issued; the  *)
(*                   n-th review task of document d is <<d, n>>            *)
(*   certificate[c]  status, employee, type, doc (source_document_id, 0:   *)
(*                   none), by (replaced_by_id, 0: none), month (valid_to) *)
(*   task[k]         status, whether it has events, and feedback; the      *)
(*                   task of certificate c for expiry m is <<c, m>>        *)
(* Ids grow with created_at.  Rows are never deleted.                      *)
(***************************************************************************)
EXTENDS Naturals, FiniteSets, Sequences

CONSTANTS
    Employees, Documents, Certificates, Types, Months,
    Tries,          \* numbers of the review tasks of one document
    Departments,    \* names HR gives to departments
    Unset,          \* label of the report for employees without one
    PartOf          \* the pairs of labels of which the first is part of the second

Reviews == Documents \X Tries
Cases   == Certificates \X Months

EmploymentStatus  == {"NONE", "ACTIVE", "LEFT"}
DocumentStatus    == {"NONE", "UPLOADED", "PARSING", "PENDING_REVIEW", "CONFIRMED", "FAILED"}
ReviewStatus      == {"NONE", "PENDING", "NEEDS_INFO", "APPROVED", "REJECTED"}
CertificateStatus == {"NONE", "ACTIVE", "EXPIRING", "EXPIRED", "REPLACED", "ARCHIVED"}
TaskStatus        == {"NONE", "PENDING", "WAITING_FEEDBACK", "SECOND_SENT", "ESCALATED",
                      "RESOLVED", "CLOSED"}

CoverageStatuses == {"ACTIVE", "EXPIRING"}                 \* ACTIVE_COVERAGE_STATUSES
RiskStatuses     == {"EXPIRING", "EXPIRED"}                \* RISK_STATUSES
PendingReviews   == {"PENDING", "NEEDS_INFO"}              \* PENDING_REVIEW_STATUSES
SecondReminders  == {"SECOND_SENT", "ESCALATED"}           \* SECOND_REMINDER_STATUSES
OpenTasks        == {"PENDING", "WAITING_FEEDBACK", "SECOND_SENT", "ESCALATED"}
ClosedTasks      == {"RESOLVED", "CLOSED"}                 \* CLOSED_REMINDER_STATUSES

-----------------------------------------------------------------------------
(***************************************************************************)
(* Lists.  A filter names a page and what its query string carries; {} and *)
(* "" leave a parameter out.                                               *)
(***************************************************************************)

Everything(page) == [page |-> page, on_roll |-> FALSE, status |-> {}, group |-> "",
                     type |-> {}, month |-> {}, department |-> {}]

\* on_roll_employee_ids.
OnRoll(db) == {e \in Employees : db.employee[e].status \notin {"NONE", "LEFT"}}

\* Statuses a list of certificates is restricted to: status wins over status_group.
GroupStatuses(f) ==
    IF f.status # {} THEN f.status
    ELSE CASE f.group = "current" -> CoverageStatuses
           [] f.group = "risk"    -> RiskStatuses
           [] OTHER               -> CertificateStatus

\* Mutant: on_roll is taken but not applied.
CertificatesOfAnyone(db, f) ==
    {c \in Certificates : /\ db.certificate[c].status \in GroupStatuses(f) \ {"NONE"}
                          /\ f.type # {} => db.certificate[c].type \in f.type
                          /\ f.month # {} => db.certificate[c].month \in f.month}

\* _certificate_statement.
CertificateStatement(db, f) ==
    {c \in Certificates :
        LET row == db.certificate[c] IN
        /\ row.status \in GroupStatuses(f) \ {"NONE"}
        /\ f.on_roll => row.employee \in OnRoll(db)
        /\ f.type # {} => row.type \in f.type
        /\ f.month # {} => row.month \in f.month}

\* _document_statement.
DocumentStatement(db, f) ==
    {d \in Documents : db.document[d] # "NONE" /\ (f.status # {} => db.document[d] \in f.status)}

\* list_review_tasks: without a status, the open reviews.
ReviewStatement(db, f) ==
    {r \in Reviews : db.review[r].status \in IF f.status # {} THEN f.status ELSE PendingReviews}

\* _status_filters.
TaskStatuses(f) ==
    IF f.status # {} THEN f.status
    ELSE CASE f.group = "open"      -> OpenTasks
           [] f.group = "attention" -> SecondReminders
           [] f.group = "closed"    -> ClosedTasks
           [] OTHER                 -> TaskStatus

\* _reminder_task_statement.
ReminderStatement(db, f) == {k \in Cases : db.task[k].status \in TaskStatuses(f) \ {"NONE"}}

\* _employee_statement.  A department is looked for as a part of the name.
EmployeeStatement(db, f) ==
    {e \in Employees :
        /\ db.employee[e].status # "NONE"
        /\ f.on_roll => e \in OnRoll(db)
        /\ \A d \in f.department : <<d, db.employee[e].department>> \in PartOf
        /\ \A t \in f.type : \A c \in Certificates :   \* missing_certificate_type_id
               ~(/\ db.certificate[c].employee = e /\ db.certificate[c].type = t
                 /\ db.certificate[c].status \in CoverageStatuses)}

\* What a link opens: the page its path leads to, with the filter it carries.
Opens(db, f) ==
    CASE f.page = "certificates" -> CertificateStatement(db, f)
      [] f.page = "documents"    -> DocumentStatement(db, f)
      [] f.page = "reviews"      -> ReviewStatement(db, f)
      [] f.page = "reminders"    -> ReminderStatement(db, f)
      [] f.page = "employees"    -> EmployeeStatement(db, f)

-----------------------------------------------------------------------------
(***************************************************************************)
(* Dashboard: numbers, each with the filter its link opens                 *)
(***************************************************************************)

\* _count_certificates and its siblings.
CountCertificates(db, statuses) ==
    Cardinality({c \in Certificates : /\ db.certificate[c].status \in statuses
                                      /\ db.certificate[c].employee \in OnRoll(db)})
CountDocuments(db, status)   == Cardinality({d \in Documents : db.document[d] = status})
CountReviews(db, statuses)   == Cardinality({r \in Reviews : db.review[r].status \in statuses})
CountReminders(db, statuses) == Cardinality({k \in Cases : db.task[k].status \in statuses})

Certs(status)  == [Everything("certificates") EXCEPT !.on_roll = TRUE, !.status = {status}]
Docs(status)   == [Everything("documents") EXCEPT !.status = {status}]
CertsOf(group) == [Everything("certificates") EXCEPT !.on_roll = TRUE, !.group = group]
\* The page turns status=open into its group, and the two escalated ones into theirs.
Reminders(group) == [Everything("reminders") EXCEPT !.group = group]

Row(count, path) == [count |-> count, path |-> path]

\* get_dashboard_summary and build_dashboard_summary.
StatusRows(db) == {Row(CountCertificates(db, {s}), Certs(s)) : s \in CertificateStatus \ {"NONE"}}
WorkloadRows(db) ==
    {Row(CountCertificates(db, {"EXPIRING"}), Certs("EXPIRING")),
     Row(CountCertificates(db, {"EXPIRED"}), Certs("EXPIRED")),
     Row(CountDocuments(db, "FAILED"), Docs("FAILED")),
     Row(CountReviews(db, PendingReviews), Everything("reviews")),
     Row(CountReminders(db, SecondReminders), Reminders("attention"))}
PipelineSteps(db) ==
    {Row(CountDocuments(db, "UPLOADED"), Docs("UPLOADED")),
     Row(CountDocuments(db, "PARSING"), Docs("PARSING")),
     Row(CountReviews(db, PendingReviews), Everything("reviews")),
     Row(CountCertificates(db, CoverageStatuses), CertsOf("current")),
     Row(CountReminders(db, OpenTasks), Reminders("open"))}

\* The risk rows, in their order, with their counts.
Risks == <<"expired-certificates", "failed-documents", "pending-reviews", "second-reminders">>
RiskCount(db, risk) ==
    CASE risk = "expired-certificates" -> CountCertificates(db, {"EXPIRED"})
      [] risk = "failed-documents"     -> CountDocuments(db, "FAILED")
      [] risk = "pending-reviews"      -> CountReviews(db, PendingReviews)
      [] risk = "second-reminders"     -> CountReminders(db, SecondReminders)

\* The source rows get_dashboard_risk_trace returns for a risk (its limit is above
\* the number of rows of the instances).
RiskTrace(db, risk) ==
    CASE risk = "expired-certificates" ->
             {c \in Certificates : db.certificate[c].status = "EXPIRED" /\ db.certificate[c].employee \in OnRoll(db)}
      [] risk = "failed-documents" -> {d \in Documents : db.document[d] = "FAILED"}
      [] risk = "pending-reviews"  -> {r \in Reviews : db.review[r].status \in PendingReviews}
      [] risk = "second-reminders" -> {k \in Cases : db.task[k].status \in SecondReminders}

-----------------------------------------------------------------------------
(***************************************************************************)
(* Coverage report, from employees, types and certificates read by three   *)
(* queries: emp, types and cert may be of different moments                *)
(***************************************************************************)

\* Mutant: coverage is not restricted to the employees the report has read.
CoveredByAnyone(emp, cert) ==
    {cert[c].employee : c \in {x \in Certificates : cert[x].status \in CoverageStatuses}}

ActiveEmployees(emp) == {e \in Employees : emp[e].status \notin {"NONE", "LEFT"}}
CoveredEmployees(emp, cert) ==
    {cert[c].employee : c \in {x \in Certificates : /\ cert[x].status \in CoverageStatuses
                                                    /\ cert[x].employee \in ActiveEmployees(emp)}}

\* The department under which an employee is counted.
Label(emp, e) == IF emp[e].department = "" THEN Unset ELSE emp[e].department

\* build_certificate_coverage_report.
CoverageReport(emp, types, cert) ==
    LET active   == ActiveEmployees(emp)
        covered  == CoveredEmployees(emp, cert)
        onRoll   == {c \in Certificates : cert[c].status # "NONE" /\ cert[c].employee \in active}
        Of(t, S) == Cardinality({c \in onRoll : cert[c].type = t /\ cert[c].status \in S})
        In(d)    == {e \in active : Label(emp, e) = d} IN
    [employees   |-> Cardinality(active),
     covered     |-> Cardinality(covered),
     departments |-> [d \in {Label(emp, e) : e \in active} |->
                         [employees |-> Cardinality(In(d)), covered |-> Cardinality(In(d) \cap covered)]],
     types       |-> [t \in types |-> [active   |-> Of(t, CoverageStatuses),
                                       expiring |-> Of(t, {"EXPIRING"}),
                                       expired  |-> Of(t, {"EXPIRED"})]],
     months      |-> [m \in Months |->
                         Cardinality({c \in onRoll : cert[c].month = m /\ cert[c].status \in RiskStatuses})]]

\* Its rows, with the filters their links open.
ReportNow(db) == CoverageReport(db.employee, db.types, db.certificate)
TypeRows(db) ==
    LET report == ReportNow(db)
        Typed(t, f) == [f EXCEPT !.type = {t}] IN
    UNION {{Row(report.types[t].active, Typed(t, CertsOf("current"))),
            Row(report.types[t].expiring, Typed(t, Certs("EXPIRING"))),
            Row(report.types[t].expired, Typed(t, Certs("EXPIRED"))),
            Row(report.types[t].expiring + report.types[t].expired, Typed(t, CertsOf("risk")))} :
               t \in db.types}
MonthRows(db) ==
    {Row(ReportNow(db).months[m], [CertsOf("risk") EXCEPT !.month = {m}]) : m \in Months}
DepartmentRows(db) ==
    {Row(ReportNow(db).departments[d].employees,
         [Everything("employees") EXCEPT !.on_roll = TRUE, !.department = {d}]) :
         d \in DOMAIN ReportNow(db).departments}

-----------------------------------------------------------------------------
(***************************************************************************)
(* Traces: what each of them finds                                         *)
(***************************************************************************)

ReviewsOf(db, d) == {r \in Reviews : r[1] = d /\ db.review[r].status # "NONE"}
CasesOf(db, c)   == {k \in Cases : k[1] = c /\ db.task[k].status # "NONE"}

\* get_employee_certificate_trace: the record with its document, the extraction and
\* the reviews of that document, and its reminder tasks.
CertificateTrace(db, c) ==
    LET row == db.certificate[c] IN
    [certificate |-> row,
     document    |-> IF row.doc = 0 THEN "NONE" ELSE db.document[row.doc],
     extracted   |-> row.doc \in db.extracted,
     reviews     |-> ReviewsOf(db, row.doc),
     tasks       |-> CasesOf(db, c)]

IssuedFrom(db, d) == {c \in Certificates : db.certificate[c].status # "NONE" /\ db.certificate[c].doc = d}

\* get_certificate_document_trace.
DocumentTrace(db, d) ==
    [document |-> db.document[d], extracted |-> d \in db.extracted, reviews |-> ReviewsOf(db, d),
     certificates |-> IssuedFrom(db, d)]

\* get_review_task_trace: the certificate of the decision, or one of the document.
ReviewTrace(db, r) ==
    [review |-> db.review[r].status, document |-> db.document[r[1]], extracted |-> r[1] \in db.extracted,
     certificates |-> IF db.review[r].certificate # 0 THEN {db.review[r].certificate}
                      ELSE IssuedFrom(db, r[1])]

\* get_task_timeline.
Timeline(db, k) == db.task[k]
==============================================================================
