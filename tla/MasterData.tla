------------------------------ MODULE MasterData ------------------------------
(***************************************************************************)
(* The write side of the employee directory and of the certificate types   *)
(* with their reminder policies (api/routes/employees.py,                  *)
(* certificate_types.py, the policy routes of reminders.py), in the one    *)
(* API process that serves them.                                           *)
(*                                                                         *)
(* A CSV import is a coroutine: it runs its blocking database work on the  *)
(* event loop, from the parsed file to its commit.  Every other request    *)
(* runs in a thread, but starts, and rolls back when it refuses, through   *)
(* the event loop.  An import that marks an employee LEFT waits for the    *)
(* reminder case of that employee; when the case is held by a request that *)
(* has been refused, each waits for the other until the kubelet restarts   *)
(* the process.  The daily scan locks cases from another pod.              *)
(***************************************************************************)
EXTENDS Naturals, FiniteSets, SequencesExt

CONSTANTS
    Employees,  \* employee numbers
    Types,      \* codes of certificate types
    Requests,   \* requests of a behaviour
    Casts       \* what the requests ask, the employees with an open case, the scan

NoOne  == 0
Tables == {"employee", "certificate_type"}
Keys(t) == IF t = "employee" THEN Employees ELSE Types

\* Two columns of each table stand for all of them.  The name of a type is unique.
EmploymentStatus == {"ACTIVE", "ON_LEAVE", "LEFT"}
Columns(t) == IF t = "employee" THEN [name |-> Nat, employment_status |-> EmploymentStatus]
              ELSE [name |-> Nat, force_manual_review |-> BOOLEAN]
Cells(t) == IF t = "employee" THEN [name: Nat, employment_status: EmploymentStatus]
            ELSE [name: Nat, force_manual_review: BOOLEAN]
\* Cells that a form may send: an edit leaves columns out.
FormCells(t, cells) ==
    \A c \in DOMAIN cells : c \in DOMAIN Columns(t) /\ cells[c] \in Columns(t)[c]

\* A line of a CSV file: a key (0: the cell is empty), a name and the text of a third
\* column.
FileLine(t) == [key: Keys(t) \cup {0}, name: Nat, text: STRING]

\* What a request asks.
RowKinds == {"import", "create", "update"}
JobOK(job) ==
    /\ job.kind \in RowKinds \cup {"createPolicy", "updatePolicy", "feedback"}
    /\ job.table \in Tables
    /\ job.kind = "import" => job.file \in Seq(FileLine(job.table))
    /\ job.kind \in {"create", "update"} =>
           /\ job.row.key \in Keys(job.table) /\ FormCells(job.table, job.row.cells)
           /\ job.terms \in BOOLEAN /\ (job.terms => job.table = "certificate_type")
    /\ job.kind = "create" => job.row.cells \in Cells(job.table)
    /\ job.kind \in {"createPolicy", "updatePolicy"} => job.type \in Types \cup {0}
    /\ job.kind = "feedback" => job.key \in Employees

ASSUME MasterAssumption ==
    /\ Employees \subseteq Nat \ {0} /\ Types \subseteq Nat \ {0} /\ Requests \subseteq Nat \ {0}
    /\ \A c \in Casts : /\ DOMAIN c.job \subseteq Requests
                        /\ \A r \in DOMAIN c.job : JobOK(c.job[r])

\* A row, and the number of times it was written (updated_at).
Absent == [cells |-> <<>>, updated |-> 0]
Row(t) == [cells: Cells(t), updated: Nat \ {0}] \cup {Absent}
Exists(row) == row.updated > 0

\* The reminder_task of an employee, and the number of times it was written.
Case   == [open: BOOLEAN, updated: Nat]
NoCase == [open |-> FALSE, updated |-> 0]

\* A reminder_policy: its certificate_type_id (0: every type), the request that
\* wrote its terms last, whether update_policy moved it to another type.  Its id
\* is the request that created it.
Policy == [type: Types \cup {0}, terms: Requests, moved: BOOLEAN]

Locks == (Tables \X (Employees \cup Types)) \cup ({"case"} \X Employees)
             \cup ({"policy"} \X Requests) \cup ({"name"} \X Nat)

VARIABLES
    rows,    \* the committed rows of both tables
    case,    \* the committed reminder case of each employee
    policy,  \* the committed policies
    cast,    \* what the requests ask
    req,     \* the requests
    loop,    \* the import the event loop is running, or NoOne
    scan     \* the daily scan's transaction

vars == <<rows, case, policy, cast, req, loop, scan>>
data == <<rows, case, policy>>

(***************************************************************************)
(* A request: the rows it writes and the next of them, the rejected lines  *)
(* of its file, the rows as it read them (read), as it wants them (want),  *)
(* those it has emitted (sent: UPDATE, new: INSERT), its row locks, the    *)
(* policy it writes.  sawOpen is history: the leavers whose case was open  *)
(* when their cases were looked up.                                        *)
(***************************************************************************)
Pc     == {"sent", "rows", "policy", "commit", "case", "refused", "done", "failed", "dropped"}
Ended  == {"done", "failed", "dropped"}
Unsent ==
    [pc |-> "sent", lines |-> <<>>, at |-> 1, errors |-> {}, read |-> <<>>, want |-> <<>>,
     sent |-> {}, new |-> {}, held |-> {}, target |-> 0, sawOpen |-> {}]
NoScan == [pc |-> "done", touched |-> {}, stale |-> {}, opening |-> {}, todo |-> {}, held |-> {}]

InitialCells(t, k) == IF t = "employee" THEN [name |-> 10 + k, employment_status |-> "ACTIVE"]
                      ELSE [name |-> 10 + k, force_manual_review |-> TRUE]

Init ==
    /\ cast \in Casts
    /\ rows = [t \in Tables |-> [k \in Keys(t) |->
                   IF k \in cast.existing THEN [cells |-> InitialCells(t, k), updated |-> 1] ELSE Absent]]
    /\ case = [e \in Employees |-> IF e \in cast.open THEN [open |-> TRUE, updated |-> 1] ELSE NoCase]
    /\ policy = [p \in {} |-> 0]
    /\ req = [r \in Requests |-> Unsent]
    /\ loop = NoOne
    /\ scan = IF cast.scan THEN [NoScan EXCEPT !.pc = "idle"] ELSE NoScan

-----------------------------------------------------------------------------
(***************************************************************************)
(* Reading a CSV file                                                      *)
(***************************************************************************)

Invalid == [name |-> 0]

\* _parse_employment_status and the validation of EmployeeCreate.
EmployeeCells(line) ==
    IF line.text \in EmploymentStatus \cup {""}
    THEN [name |-> line.name,
          employment_status |-> IF line.text = "" THEN "ACTIVE" ELSE line.text]
    ELSE Invalid

\* _parse_boolean_import, with the default of the column.
TypeCells(line) ==
    IF line.text \in {"", "Y", "N"}
    THEN [name |-> line.name, force_manual_review |-> line.text # "N"]
    ELSE Invalid

Blank(line) == line.key = 0 /\ line.name = 0 /\ line.text = ""

\* A line without key or name, with a key already accepted, or with a value that
\* does not parse is an error; the others are accepted in file order.
ParseLine(acc, line, cells) ==
    LET n        == acc.n + 1
        rejected == line.key = 0 \/ line.name = 0 \/ line.key \in acc.seen \/ cells = Invalid IN
    IF Blank(line) THEN [acc EXCEPT !.n = n]
    ELSE IF rejected THEN [acc EXCEPT !.n = n, !.errors = @ \cup {n}]
    ELSE [acc EXCEPT !.n = n, !.seen = @ \cup {line.key},
                     !.lines = Append(@, [key |-> line.key, cells |-> cells])]

CellsOf(t, line) == IF t = "employee" THEN EmployeeCells(line) ELSE TypeCells(line)

ParseFile(t, file) ==
    FoldLeft(LAMBDA acc, line : ParseLine(acc, line, CellsOf(t, line)),
             [n |-> 0, lines |-> <<>>, errors |-> {}, seen |-> {}], file)

ParseEmployees(file) == ParseFile("employee", file)
ParseTypes(file)     == ParseFile("certificate_type", file)

-----------------------------------------------------------------------------
(***************************************************************************)
(* Locks                                                                   *)
(***************************************************************************)

Job(r)   == cast.job[r]
Table(r) == Job(r).table

\* No other request, nor the scan, holds lock l.
Free(l, r) ==
    /\ \A q \in Requests \ {r} : l \notin req[q].held
    /\ l[1] = "case" => l[2] \notin scan.held

Set(r, new) == req' = [req EXCEPT ![r] = new]

\* Mutant: a dropped request keeps its locks.
AbortHolding(r, pc) ==
    /\ Set(r, [req[r] EXCEPT !.pc = pc])
    /\ loop' = IF loop = r THEN NoOne ELSE loop
    /\ UNCHANGED <<data, cast, scan>>

\* The transaction ends without a commit: nothing is written, its locks are free.
Abort(r, pc) ==
    /\ Set(r, [req[r] EXCEPT !.pc = pc, !.held = {}])
    /\ loop' = IF loop = r THEN NoOne ELSE loop
    /\ UNCHANGED <<data, cast, scan>>

-----------------------------------------------------------------------------
(***************************************************************************)
(* A request begins                                                        *)
(***************************************************************************)

ReadOf(t, keys) == [k \in keys |-> rows[t][k]]

\* The coroutine parses the file and, unless it has nothing to import, reads the
\* rows the file names in one query; it keeps the event loop.
Import(r, parsed) ==
    /\ req[r].pc = "sent" /\ loop = NoOne
    /\ IF parsed.lines = <<>>
       THEN /\ Set(r, [req[r] EXCEPT !.pc = "done", !.errors = parsed.errors])
            /\ UNCHANGED loop
       ELSE /\ loop' = r
            /\ Set(r, [req[r] EXCEPT !.pc = "rows", !.lines = parsed.lines,
                                     !.errors = parsed.errors,
                                     !.read = ReadOf(Table(r), parsed.seen)])
    /\ UNCHANGED <<data, cast, scan>>

ImportEmployees(r) ==
    Job(r).kind = "import" /\ Table(r) = "employee" /\ Import(r, ParseEmployees(Job(r).file))
ImportTypes(r) ==
    Job(r).kind = "import" /\ Table(r) = "certificate_type" /\ Import(r, ParseTypes(Job(r).file))

\* create_employee, create_certificate_type: one INSERT, whatever exists.
Create(r) ==
    /\ Job(r).kind = "create" /\ req[r].pc = "sent" /\ loop = NoOne
    /\ Set(r, [req[r] EXCEPT !.pc = "rows", !.lines = <<Job(r).row>>,
                             !.read = [k \in {Job(r).row.key} |-> Absent]])
    /\ UNCHANGED <<data, cast, loop, scan>>

\* update_employee, update_certificate_type: 404, or the row as it is now.
Update(r) ==
    /\ Job(r).kind = "update" /\ req[r].pc = "sent" /\ loop = NoOne
    /\ LET k == Job(r).row.key IN
       Set(r, IF Exists(rows[Table(r)][k])
              THEN [req[r] EXCEPT !.pc = "rows", !.lines = <<Job(r).row>>,
                                  !.read = ReadOf(Table(r), {k})]
              ELSE [req[r] EXCEPT !.pc = "done"])
    /\ UNCHANGED <<data, cast, loop, scan>>

\* create_policy: 404 when the type does not exist.
CreatePolicy(r) ==
    /\ Job(r).kind = "createPolicy" /\ req[r].pc = "sent" /\ loop = NoOne
    /\ Set(r, IF Job(r).type = 0 \/ Exists(rows["certificate_type"][Job(r).type])
              THEN [req[r] EXCEPT !.pc = "policy", !.target = r]
              ELSE [req[r] EXCEPT !.pc = "done"])
    /\ UNCHANGED <<data, cast, loop, scan>>

\* update_policy: 404, or some policy.
UpdatePolicy(r) ==
    /\ Job(r).kind = "updatePolicy" /\ req[r].pc = "sent" /\ loop = NoOne
    /\ \/ \E p \in DOMAIN policy : Set(r, [req[r] EXCEPT !.pc = "policy", !.target = p])
       \/ DOMAIN policy = {} /\ Set(r, [req[r] EXCEPT !.pc = "done"])
    /\ UNCHANGED <<data, cast, loop, scan>>

-----------------------------------------------------------------------------
(***************************************************************************)
(* The rows of a request, in order                                         *)
(***************************************************************************)

Line(r)      == req[r].lines[req[r].at]
MoreLines(r) == req[r].pc = "rows" /\ req[r].at <= Len(req[r].lines)
IsNew(r)     == ~Exists(req[r].read[Line(r).key])

\* The columns of k whose new value is not the one r read: an UPDATE sets no other.
Dirty(r, k) == {c \in DOMAIN req[r].want[k] : req[r].want[k][c] # req[r].read[k].cells[c]}
Unsaved(r)  == {k \in DOMAIN req[r].want \ (req[r].sent \cup req[r].new) : Dirty(r, k) # {}}

\* A row as r's transaction sees it: an UPDATE has set the dirty columns of the row as
\* it is now, an INSERT all.
RowWritten(r, k) ==
    LET now == rows[Table(r)][k] IN
    CASE k \in req[r].new -> [cells |-> req[r].want[k], updated |-> 1]
      [] k \in req[r].sent ->
             [cells |-> [c \in DOMAIN now.cells |->
                             IF c \in Dirty(r, k) THEN req[r].want[k][c] ELSE now.cells[c]],
              updated |-> now.updated + 1]
      [] OTHER -> now

\* The unique name that a statement on type k sets, the one that it gives up, and
\* whether another type has the new one.
NameSet(r, k, cells, set) ==
    IF Table(r) = "certificate_type" /\ "name" \in set THEN {<<"name", cells.name>>} ELSE {}
NameLeft(r, k)     == NameSet(r, k, rows[Table(r)][k].cells, Dirty(r, k))
NameTaken(r, k, names) ==
    \E j \in Types \ {k} : /\ names # {} /\ Exists(RowWritten(r, j))
                           /\ <<"name", RowWritten(r, j).cells.name>> \in names

\* The row as read, with the cells of the line over it.
Merged(r) == [c \in DOMAIN req[r].read[Line(r).key].cells |->
                  IF c \in DOMAIN Line(r).cells THEN Line(r).cells[c]
                  ELSE req[r].read[Line(r).key].cells[c]]

Wanting(r, cells) == [k \in DOMAIN req[r].want \cup {Line(r).key} |->
                          IF k = Line(r).key THEN cells ELSE req[r].want[k]]

\* Mutant: the original status is taken after the fields were assigned.
LeavesAfterAssignment(r) == Merged(r).employment_status = "LEFT" /\ Merged(r).employment_status # "LEFT"

\* _close_reminder_tasks_if_left.
Leaves(r) ==
    /\ Merged(r).employment_status = "LEFT"
    /\ req[r].read[Line(r).key].cells.employment_status # "LEFT"

\* An employee who leaves: the open case is selected FOR UPDATE, and waited for.
OverwriteEmployee(r) ==
    /\ MoreLines(r) /\ Table(r) = "employee" /\ ~IsNew(r)
    /\ LET e       == Line(r).key
           closing == IF Leaves(r) /\ case[e].open THEN {<<"case", e>>} ELSE {} IN
       /\ \A l \in closing : Free(l, r)
       /\ Set(r, [req[r] EXCEPT !.at = @ + 1, !.want = Wanting(r, Merged(r)),
                                !.held = @ \cup closing,
                                !.sawOpen = @ \cup {x \in {e} : case[x].open}])
    /\ UNCHANGED <<data, cast, loop, scan>>

OverwriteType(r) ==
    /\ MoreLines(r) /\ Table(r) = "certificate_type" /\ ~IsNew(r)
    /\ Set(r, [req[r] EXCEPT !.at = @ + 1, !.want = Wanting(r, Merged(r))])
    /\ UNCHANGED <<data, cast, loop, scan>>

\* A flush, before an INSERT and at the end, emits the UPDATEs row by row.
Flushes(r, k) ==
    /\ req[r].pc = "rows" /\ (MoreLines(r) => IsNew(r))
    /\ k \in Unsaved(r) /\ Free(<<Table(r), k>>, r)

\* An INSERT waits for an uncommitted INSERT of the same key.
Inserts(r) == MoreLines(r) /\ IsNew(r) /\ Unsaved(r) = {} /\ Free(<<Table(r), Line(r).key>>, r)

\* A statement on row k keeps the row, the name it gives up and the one it sets until
\* the transaction ends.
Emit(r, k, left, names) ==
    [req[r] EXCEPT !.held = @ \cup {<<Table(r), k>>} \cup left \cup names]

FlushRow(r, k) ==
    /\ Flushes(r, k)
    /\ LET names == NameSet(r, k, req[r].want[k], Dirty(r, k)) IN
       /\ \A l \in names : Free(l, r)
       /\ ~NameTaken(r, k, names)
       /\ Set(r, [Emit(r, k, NameLeft(r, k), names) EXCEPT !.sent = @ \cup {k}])
    /\ UNCHANGED <<data, cast, loop, scan>>

\* Mutant: an INSERT is committed at once.
InsertCommitted(r) ==
    /\ MoreLines(r) /\ IsNew(r) /\ Unsaved(r) = {}
    /\ ~Exists(rows[Table(r)][Line(r).key])
    /\ rows' = [rows EXCEPT ![Table(r)][Line(r).key] = [cells |-> Line(r).cells, updated |-> 1]]
    /\ Set(r, [req[r] EXCEPT !.at = @ + 1])
    /\ UNCHANGED <<case, policy, cast, loop, scan>>

InsertRow(r) ==
    /\ Inserts(r)
    /\ LET k     == Line(r).key
           cells == Line(r).cells
           names == NameSet(r, k, cells, DOMAIN cells) IN
       /\ ~Exists(rows[Table(r)][k])
       /\ \A l \in names : Free(l, r)
       /\ ~NameTaken(r, k, names)
       /\ Set(r, [Emit(r, k, {}, names) EXCEPT !.at = @ + 1, !.want = Wanting(r, cells),
                                               !.new = @ \cup {k}])
    /\ UNCHANGED <<data, cast, loop, scan>>

\* The key was committed since the rows were read, or another type has the name: the
\* whole request fails.
InsertFails(r) ==
    /\ Inserts(r)
    /\ LET k     == Line(r).key
           names == NameSet(r, k, Line(r).cells, DOMAIN Line(r).cells) IN
       Exists(rows[Table(r)][k]) \/ ((\A l \in names : Free(l, r)) /\ NameTaken(r, k, names))
    /\ Abort(r, "failed")

FlushFails(r, k) ==
    /\ Flushes(r, k)
    /\ LET names == NameSet(r, k, req[r].want[k], Dirty(r, k)) IN
       (\A l \in names : Free(l, r)) /\ NameTaken(r, k, names)
    /\ Abort(r, "failed")

\* The statement holds its row while it waits for another transaction that sets or
\* gives up the name.
WaitForName(r, k) ==
    /\ <<Table(r), k>> \notin req[r].held
    /\ \/ /\ Flushes(r, k)
          /\ \E l \in NameSet(r, k, req[r].want[k], Dirty(r, k)) : ~Free(l, r)
          /\ Set(r, Emit(r, k, NameLeft(r, k), {}))
       \/ /\ Inserts(r) /\ Line(r).key = k /\ ~Exists(rows[Table(r)][k])
          /\ \E l \in NameSet(r, k, Line(r).cells, DOMAIN Line(r).cells) : ~Free(l, r)
          /\ Set(r, Emit(r, k, {}, {}))
    /\ UNCHANGED <<data, cast, loop, scan>>

-----------------------------------------------------------------------------
(***************************************************************************)
(* The default policy of a type                                            *)
(***************************************************************************)

RowsFlushed(r)  == req[r].pc = "rows" /\ ~MoreLines(r) /\ Unsaved(r) = {}
PoliciesOf(t)   == {p \in DOMAIN policy : policy[p].type = t}
CarriesTerms(r) == Job(r).kind \in {"create", "update"} /\ Job(r).terms

\* Mutant: the policy is looked up without flushing the type first.
UpsertUnflushed(r) ==
    /\ req[r].pc = "rows" /\ ~MoreLines(r) /\ CarriesTerms(r)
    /\ LET known == PoliciesOf(Job(r).row.key) IN
       \E p \in IF known = {} THEN {r} ELSE known :
           Set(r, [req[r] EXCEPT !.pc = "policy", !.target = p, !.sent = @ \cup Unsaved(r)])
    /\ UNCHANGED <<data, cast, loop, scan>>

\* _upsert_default_reminder_policy after the flush of the type: the latest policy
\* of the type is edited (its created_at is the start of its transaction: it may be
\* any of several), or a first one is added.
UpsertPolicy(r) ==
    /\ RowsFlushed(r) /\ CarriesTerms(r)
    /\ LET known == PoliciesOf(Job(r).row.key) IN
       \E p \in IF known = {} THEN {r} ELSE known :
           Set(r, [req[r] EXCEPT !.pc = "policy", !.target = p])
    /\ UNCHANGED <<data, cast, loop, scan>>

FlushPolicy(r) ==
    /\ req[r].pc = "policy" /\ Free(<<"policy", req[r].target>>, r)
    /\ Set(r, [req[r] EXCEPT !.pc = "commit", !.held = @ \cup {<<"policy", req[r].target>>}])
    /\ UNCHANGED <<data, cast, loop, scan>>

PolicyWritten(r) ==
    LET p   == req[r].target
        old == IF p \in DOMAIN policy THEN policy[p] ELSE [type |-> 0, terms |-> r, moved |-> FALSE] IN
    CASE p = 0 -> policy
      [] p # 0 /\ Job(r).kind = "updatePolicy" ->
             [policy EXCEPT ![p] = [type |-> Job(r).type, terms |-> r,
                                    moved |-> old.moved \/ Job(r).type # old.type]]
      [] p \in DOMAIN policy /\ Job(r).kind # "updatePolicy" -> [policy EXCEPT ![p].terms = r]
      [] OTHER -> [q \in DOMAIN policy \cup {p} |->
                       IF q # p THEN policy[q]
                       ELSE [type |-> IF Job(r).kind = "createPolicy" THEN Job(r).type ELSE Job(r).row.key,
                             terms |-> r, moved |-> FALSE]]

-----------------------------------------------------------------------------
(***************************************************************************)
(* Commits, and answers that write nothing                                 *)
(***************************************************************************)

RowsWritten(r) ==
    IF Job(r).kind \in RowKinds
    THEN [rows EXCEPT ![Table(r)] = [k \in DOMAIN @ |-> RowWritten(r, k)]]
    ELSE rows

CasesWritten(r) == [e \in Employees |->
    IF <<"case", e>> \in req[r].held THEN [open |-> FALSE, updated |-> case[e].updated + 1]
    ELSE case[e]]

Commit(r) ==
    /\ req[r].pc = "commit" \/ (RowsFlushed(r) /\ ~CarriesTerms(r))
    /\ rows' = RowsWritten(r) /\ case' = CasesWritten(r) /\ policy' = PolicyWritten(r)
    /\ Set(r, [req[r] EXCEPT !.pc = "done", !.held = {}])
    /\ loop' = IF loop = r THEN NoOne ELSE loop
    /\ UNCHANGED <<cast, scan>>

\* create_feedback that ends the case: the case is locked, then checked against
\* the page it was sent from.  dispatch_task takes the same lock before it refuses.
Feedback(r) ==
    /\ Job(r).kind = "feedback" /\ req[r].pc = "sent" /\ loop = NoOne
    /\ Set(r, [req[r] EXCEPT !.pc = "case"])
    /\ UNCHANGED <<data, cast, loop, scan>>

LockCase(r) ==
    /\ req[r].pc = "case" /\ Free(<<"case", Job(r).key>>, r)
    /\ LET c       == case[Job(r).key]
           refused == c.updated # Job(r).page \/ ~c.open IN
       Set(r, IF c.updated = 0 THEN [req[r] EXCEPT !.pc = "done"]
              ELSE [req[r] EXCEPT !.pc = IF refused THEN "refused" ELSE "commit",
                                  !.held = {<<"case", Job(r).key>>}])
    /\ UNCHANGED <<data, cast, loop, scan>>

\* The session of a refused request is closed by its dependency's exit, which the
\* event loop has to run (get_db).
CloseSession(r) == req[r].pc = "refused" /\ loop = NoOne /\ Abort(r, "done")

-----------------------------------------------------------------------------
(***************************************************************************)
(* The daily scan in the worker pod, PostgreSQL, and the kubelet           *)
(***************************************************************************)

OnRoll(e) == Exists(rows["employee"][e]) /\ rows["employee"][e].cells.employment_status # "LEFT"

ScanRead ==
    /\ scan.pc = "idle"
    /\ LET touched == {e \in Employees : OnRoll(e) /\ case[e].open}
           stale   == {e \in Employees : ~OnRoll(e) /\ case[e].open} IN
       scan' = [scan EXCEPT !.pc = "lock", !.touched = touched, !.stale = stale,
                            !.todo = touched \cup stale,
                            !.opening = {e \in Employees : OnRoll(e) /\ case[e] = NoCase}]
    /\ UNCHANGED <<data, cast, req, loop>>

\* Stale cases are closed first; the others are locked by the flush of the commit,
\* in the order of their ids.
ScanNext ==
    LET first == IF scan.todo \cap scan.stale # {} THEN scan.todo \cap scan.stale ELSE scan.todo IN
    CHOOSE e \in first : \A f \in first : e <= f

ScanLock ==
    /\ scan.pc = "lock" /\ scan.todo # {}
    /\ \A r \in Requests : <<"case", ScanNext>> \notin req[r].held
    /\ scan' = [scan EXCEPT !.todo = @ \ {ScanNext}, !.held = @ \cup {ScanNext}]
    /\ UNCHANGED <<data, cast, req, loop>>

\* The status of a case whose reminder went out is written whatever it is now.
ScanCommit ==
    /\ scan.pc = "lock" /\ scan.todo = {}
    /\ case' = [e \in Employees |->
           CASE e \in scan.touched -> [open |-> TRUE, updated |-> case[e].updated + 1]
             [] e \in scan.stale /\ case[e].open -> [open |-> FALSE, updated |-> case[e].updated + 1]
             [] e \in scan.opening -> [open |-> TRUE, updated |-> 1]
             [] OTHER -> case[e]]
    /\ scan' = NoScan
    /\ UNCHANGED <<rows, policy, cast, req, loop>>

\* Request r waits for a row, a key or a name that q holds.
WaitsFor(r, q) ==
    LET waits(k, cells, set) ==
            req[q].held \cap ({<<Table(r), k>>} \cup NameSet(r, k, cells, set)) # {} IN
    /\ req[r].pc = "rows" /\ (MoreLines(r) => IsNew(r))
    /\ IF Unsaved(r) # {} THEN \E k \in Unsaved(r) : waits(k, req[r].want[k], Dirty(r, k))
       ELSE MoreLines(r) /\ waits(Line(r).key, Line(r).cells, DOMAIN Line(r).cells)

\* An import and the scan each wait for a case the other has locked, or requests in a
\* circle for rows and names of types.
Deadlocked(r) ==
    \/ /\ MoreLines(r) /\ Table(r) = "employee" /\ ~IsNew(r)
       /\ Leaves(r) /\ case[Line(r).key].open /\ Line(r).key \in scan.held
       /\ scan.todo # {} /\ <<"case", ScanNext>> \in req[r].held
    \/ /\ Table(r) = "certificate_type" /\ req[r].held # {}
       /\ \E circle \in SUBSET {q \in DOMAIN cast.job : req[q].held # {}} :
          /\ r \in circle
          /\ \A q \in circle : /\ \E p \in circle \ {q} : WaitsFor(q, p)
                               /\ \E p \in circle \ {q} : WaitsFor(p, q)

DeadlockVictim(r) ==
    /\ Deadlocked(r)
    /\ \/ Abort(r, "failed")
       \/ scan.todo # {} /\ scan' = NoScan /\ UNCHANGED <<data, cast, req, loop>>

\* Mutant: no liveness probe.
NoProbe == FALSE /\ UNCHANGED vars

\* The probe needs the event loop: while an import runs, however long it waits,
\* the kubelet may restart the container.  What was in flight is rolled back.
KubeletRestart ==
    /\ loop # NoOne
    /\ req' = [r \in Requests |->
           IF req[r].pc \in Ended \cup {"sent"} THEN req[r]
           ELSE [req[r] EXCEPT !.pc = "dropped", !.held = {}]]
    /\ loop' = NoOne
    /\ UNCHANGED <<data, cast, scan>>

RequestStep(r) ==
    \/ ImportEmployees(r) \/ ImportTypes(r) \/ Create(r) \/ Update(r)
    \/ CreatePolicy(r) \/ UpdatePolicy(r)
    \/ OverwriteEmployee(r) \/ OverwriteType(r)
    \/ \E k \in DOMAIN req[r].read : FlushRow(r, k) \/ FlushFails(r, k) \/ WaitForName(r, k)
    \/ InsertRow(r) \/ InsertFails(r)
    \/ UpsertPolicy(r) \/ FlushPolicy(r) \/ Commit(r)
    \/ Feedback(r) \/ LockCase(r) \/ CloseSession(r) \/ DeadlockVictim(r)

ScanStep == ScanRead \/ ScanLock \/ ScanCommit

Next == (\E r \in DOMAIN cast.job : RequestStep(r)) \/ ScanStep \/ KubeletRestart

Spec == Init /\ [][Next]_vars

\* Threads and the event loop run, PostgreSQL grants free locks and breaks
\* deadlocks, the kubelet probes every 20 seconds.
Fairness ==
    /\ \A r \in Requests : WF_vars(r \in DOMAIN cast.job /\ RequestStep(r))
    /\ WF_vars(ScanStep)
    /\ WF_vars(KubeletRestart)

FairSpec == Spec /\ Fairness

-----------------------------------------------------------------------------
(***************************************************************************)
(* Properties                                                              *)
(***************************************************************************)

\* Types of the variables.
MasterTypeOK ==
    /\ \A t \in Tables : \A k \in Keys(t) : rows[t][k] \in Row(t)
    /\ case \in [Employees -> Case]
    /\ \A p \in DOMAIN policy : p \in Requests /\ policy[p] \in Policy
    /\ \A r \in Requests :
           /\ req[r].pc \in Pc /\ req[r].held \subseteq Locks
           /\ req[r].pc \in Ended \cup {"sent"} => req[r].held = {}
           /\ \A k \in DOMAIN req[r].read : req[r].read[k] \in Row(Table(r))
           /\ DOMAIN req[r].want \subseteq DOMAIN req[r].read
           /\ \A q \in Requests \ {r} : req[r].held \cap req[q].held = {}
    /\ loop \in Requests \cup {NoOne}
    /\ loop # NoOne => Job(loop).kind = "import" /\ req[loop].pc = "rows"
    /\ scan.held \subseteq Employees /\ scan.todo \cap scan.held = {}

\* What an import should take: the first line of each key that is well-formed.
WellFormed(t, line)  == line.key # 0 /\ line.name # 0 /\ CellsOf(t, line) # Invalid
FirstLines(t, file)  ==
    {n \in DOMAIN file : WellFormed(t, file[n]) /\ \A m \in 1..(n - 1) :
                             WellFormed(t, file[m]) => file[m].key # file[n].key}
OtherLines(t, file)  == {n \in DOMAIN file \ FirstLines(t, file) : ~Blank(file[n])}
Accepted(r)        == FirstLines(Table(r), Job(r).file)
KeysWritten(r)     == IF Job(r).kind = "import" THEN {Job(r).file[n].key : n \in Accepted(r)}
                      ELSE {Job(r).row.key}
EndsWell(r)        == req[r].pc # "done" /\ req'[r].pc = "done"

\* An import is one commit of exactly the well-formed lines of its file, the first of
\* each key: when it succeeds each of them is a row with the cells of the file
\* (except a cell that already had the file's value when the import read it and that
\* somebody else has written since), every other line is reported, and no row ever
\* changes but in the commit of a request that names it (import_employee_rows,
\* import_certificate_type_rows; interleaved edits, failures and restarts).
ImportIsAWhole ==
    [][/\ \A r \in DOMAIN cast.job : EndsWell(r) /\ Job(r).kind = "import" =>
             /\ req'[r].errors = OtherLines(Table(r), Job(r).file)
             /\ \A n \in Accepted(r) :
                    LET k     == Job(r).file[n].key
                        cells == CellsOf(Table(r), Job(r).file[n])
                        old   == req[r].read[k] IN
                    /\ Exists(rows'[Table(r)][k])
                    /\ \A c \in DOMAIN cells :
                           \/ rows'[Table(r)][k].cells[c] = cells[c]
                           \/ /\ Exists(old) /\ old.cells[c] = cells[c]
                              /\ rows[Table(r)][k].updated # old.updated
       /\ \A t \in Tables : \A k \in Keys(t) : rows'[t][k] # rows[t][k] =>
             \E r \in DOMAIN cast.job :
                 EndsWell(r) /\ Table(r) = t /\ k \in KeysWritten(r)]_vars

\* The commit that makes an employee LEFT closes the reminder case that was open when
\* the request looked for it, whoever else locks, answers or moves the case meanwhile
\* (_close_reminder_tasks_if_left).
LeaverCaseClosed ==
    [][\A e \in Employees : OnRoll(e) /\ ~OnRoll(e)' =>
           \E r \in DOMAIN cast.job : EndsWell(r) /\ (e \in req[r].sawOpen => ~case'[e].open)]_vars

\* Two default policies of a type come from two requests that saw none, and that needs
\* one of them to leave the type's own columns alone: otherwise the row lock of the
\* type orders them and the second edits the policy of the first
\* (_upsert_default_reminder_policy, without a unique key on certificate_type_id).
TwoDefaultsNeedAnIdleType ==
    \A p, q \in {x \in DOMAIN policy : CarriesTerms(x) /\ ~policy[x].moved} :
        p # q /\ policy[p].type = policy[q].type =>
            \E x \in {p, q} : Job(x).row.key \notin req[x].sent \cup req[x].new

\* Every request is answered or dropped: an import that waits on the event loop for a
\* case whose holder waits for the event loop is ended by the liveness probe.
EveryRequestEnds ==
    \A r \in Requests :
        r \in DOMAIN cast.job /\ req[r].pc = "sent" ~> req[r].pc \in Ended
==============================================================================
