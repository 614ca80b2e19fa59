---------------------------- MODULE ReminderCases ----------------------------
(***************************************************************************)
(* The follow-up of expiring certificates of one employee: cases           *)
(* (reminder_task) are opened by a scan when a record enters its reminder  *)
(* window, go through first reminder, second reminder and escalation, and  *)
(* end when HR answers or when nothing is left to follow up                *)
(* (services/reminder_service.py, api/routes/reminders.py).                *)
(*                                                                         *)
(* The daily scan is one long transaction: it refreshes the records it can *)
(* lock, buffers the cases to open, reads the open cases without a lock,   *)
(* sends their notifications one by one, and writes everything in its      *)
(* commit.  Requests (dispatch by hand, feedback, edits of a record, an    *)
(* employee who leaves) lock the cases they change and run next to it.     *)
(***************************************************************************)
EXTENDS Naturals, FiniteSets

CONSTANTS
    Certs,          \* records of the employee
    ValidTos,       \* days a record can be valid to
    Requests,       \* transactions in flight in the API process
    Scans,          \* scans in flight
    Daily,          \* the scans started by the beat: they also send
    HrActions,      \* what requests do in a behaviour
    Channels,       \* channels of the reminder policy
    Window,         \* the policy's largest days_before_expiry
    SecondAfter,    \* the policy's second_reminder_after_days
    EscalateAfter,  \* the policy's escalation_after_days
    Horizon         \* bound: the last day of a behaviour

None == "none"

LedgerActions == {"valid_to", "archive", "replace", "leave"}
Answers       == {"process", "renewed", "no_action"}
AllActions    == LedgerActions \cup Answers \cup {"dispatch", "return"}

ASSUME ReminderAssumption ==
    /\ ValidTos \subseteq Nat /\ Daily \subseteq Scans /\ HrActions \subseteq AllActions
    /\ Horizon \in Nat /\ Window \in Nat
    /\ SecondAfter \in Nat \ {0} /\ EscalateAfter \in Nat \ {0}   \* Field(ge=1)
    /\ None \notin Requests \cup Scans

Days == 0..Horizon

\* idempotency_key: one case per record and valid_to.
Cases == Certs \X ValidTos

CaseStatus == {"NONE", "PENDING", "WAITING_FEEDBACK", "SECOND_SENT", "ESCALATED",
               "RESOLVED", "CLOSED"}
Dispatchable == {"PENDING", "WAITING_FEEDBACK", "SECOND_SENT"}
Open         == Dispatchable \cup {"ESCALATED"}   \* _OPEN_REMINDER_TASK_STATUSES
Closed       == {"RESOLVED", "CLOSED"}            \* CLOSED_REMINDER_STATUSES

Stages == {"FIRST_REMINDER", "SECOND_REMINDER", "ESCALATION"}

\* ACTIVE and EXPIRING are one status here: reminders do not tell them apart.
CertStatus == {"CURRENT", "EXPIRED", "REPLACED", "ARCHIVED"}
FollowUp   == {"CURRENT", "EXPIRED"}              \* _FOLLOW_UP_CERTIFICATE_STATUSES

VARIABLES
    today,
    certStatus,  \* employee_certificate.status
    validTo,     \* employee_certificate.valid_to
    left,        \* employee.employment_status = LEFT
    caseStatus,  \* reminder_task.status ("NONE": no such row)
    due,         \* reminder_task.due_date
    events,      \* the reminder_event rows with sent_at
    request,     \* the requests in flight
    scan         \* the scans in flight

vars     == <<today, certStatus, validTo, left, caseStatus, due, events, request, scan>>
certVars == <<certStatus, validTo, left>>
caseVars == <<caseStatus, due, events>>

MaxDue == Horizon + SecondAfter + EscalateAfter
Event  == [case: Cases, stage: Stages, channel: Channels, day: Days]

\* What a dispatch found (stage) and achieved (sent: channels; moves: whether the
\* case goes to the next status).
Notice     == [stage: Stages \cup {None}, sent: SUBSET Channels, moves: BOOLEAN]
NoNotice   == [stage |-> None, sent |-> {}, moves |-> FALSE]

\* A request: the record and the new valid_to of a ledger action, the cases it
\* has locked, the notice of a dispatch.
RequestType ==
    [pc: {"idle", "close", "commit"}, action: AllActions \cup {None},
     certs: SUBSET Certs, valid: ValidTos \cup {0}, held: SUBSET Cases,
     notice: Notice, day: Days]
IdleRequest ==
    [pc |-> "idle", action |-> None, certs |-> {}, valid |-> 0, held |-> {},
     notice |-> NoNotice, day |-> 0]

\* A scan: the day it started and the day it opens cases for, the records it has
\* locked, the cases it will insert, the open cases it read and has not processed
\* (seen, seenDue), what it found of their records (stale: the status their cases
\* end with), the cases it has locked to close, and its notices.
ScanType ==
    [pc: {"idle", "create", "read", "send"}, day: Days, locked: SUBSET Certs,
     new: SUBSET Cases, opened: Days,
     seen: [Cases -> Dispatchable \cup {None}], seenDue: [Cases -> 0..MaxDue],
     stale: [Certs -> Closed \cup {None}], held: SUBSET Cases,
     notice: [Cases -> Notice]]
IdleScan ==
    [pc |-> "idle", day |-> 0, locked |-> {}, new |-> {}, opened |-> 0,
     seen |-> [k \in Cases |-> None], seenDue |-> [k \in Cases |-> 0],
     stale |-> [c \in Certs |-> None], held |-> {},
     notice |-> [k \in Cases |-> NoNotice]]

Init ==
    /\ today = 0
    /\ certStatus = [c \in Certs |-> "CURRENT"]
    /\ validTo \in [Certs -> ValidTos]
    /\ left = FALSE
    /\ caseStatus = [k \in Cases |-> "NONE"]
    /\ due = [k \in Cases |-> 0]
    /\ events = {}
    /\ request = [s \in Requests |-> IdleRequest]
    /\ scan = [p \in Scans |-> IdleScan]

-----------------------------------------------------------------------------
(***************************************************************************)
(* Helpers                                                                 *)
(***************************************************************************)

CertOf(k)  == k[1]
ValidOf(k) == k[2]

Derive(valid, day) == IF valid < day THEN "EXPIRED" ELSE "CURRENT"

OpenCases(C) == {k \in Cases : CertOf(k) \in C /\ caseStatus[k] \in Open}

\* Row locks, of cases and of records.
CaseFree(k, q, p) ==
    /\ \A s \in Requests \ {q} : k \notin request[s].held
    /\ \A r \in Scans \ {p} : k \notin scan[r].held
CertFree(c) ==
    /\ \A s \in Requests : request[s].pc \in {"close", "commit"} =>
           c \notin request[s].certs \/ request[s].action = "leave"
    /\ \A p \in Scans : c \notin scan[p].locked

\* trigger_date <= date (trigger_date is valid_to minus the window).
Triggered(k, date) == ValidOf(k) <= date + Window

\* Mutant: only the notices of today count.
DoneToday(k, stage) == {ch \in Channels : \E e \in events :
                            e.case = k /\ e.stage = stage /\ e.channel = ch /\ e.day = today}

\* _successful_channels_for_event
Done(k, stage) == {ch \in Channels : \E e \in events :
                       e.case = k /\ e.stage = stage /\ e.channel = ch}

Partly(k, stage, chs) == Done(k, stage) \cap chs \notin {{}, chs}

\* _next_event_type, _next_dispatch_event_type: the stage that is due, or the
\* last one again if it has not reached all of the channels chs.
NextStage(k, st, dueDay, day, chs) ==
    CASE st = "PENDING" /\ Triggered(k, day) -> "FIRST_REMINDER"
      [] st = "WAITING_FEEDBACK" /\ dueDay <= day -> "SECOND_REMINDER"
      [] st = "SECOND_SENT" /\ dueDay <= day -> "ESCALATION"
      [] st = "WAITING_FEEDBACK" /\ dueDay > day /\ Partly(k, "FIRST_REMINDER", chs) -> "FIRST_REMINDER"
      [] st = "SECOND_SENT" /\ dueDay > day /\ Partly(k, "SECOND_REMINDER", chs) -> "SECOND_REMINDER"
      [] OTHER -> None

\* Mutant: the second reminder does not set a new due date.
DueAfterKept(stage, day, old) == IF stage = "FIRST_REMINDER" THEN day + SecondAfter ELSE old

\* _advance_task_state
StatusAfter(stage) ==
    CASE stage = "FIRST_REMINDER" -> "WAITING_FEEDBACK"
      [] stage = "SECOND_REMINDER" -> "SECOND_SENT"
      [] stage = "ESCALATION" -> "ESCALATED"
DueAfter(stage, day, old) ==
    CASE stage = "FIRST_REMINDER" -> day + SecondAfter
      [] stage = "SECOND_REMINDER" -> day + EscalateAfter
      [] stage = "ESCALATION" -> old

\* send_to_hr on the channels chs the stage has not reached: those in ok answer.
Send(k, stage, chs, ok) ==
    [stage |-> stage, sent |-> ok, moves |-> ok # {} /\ Done(k, stage) \cap chs = {}]

EventsOf(k, notice, day) ==
    {[case |-> k, stage |-> notice.stage, channel |-> ch, day |-> day] : ch \in notice.sent}

\* stale_task_close_reason: there is nothing to follow up any more.
Stale(c) == certStatus[c] \notin FollowUp \/ left

EndRequest(s) == request' = [request EXCEPT ![s] = IdleRequest]
EndScan(p)    == scan' = [scan EXCEPT ![p] = IdleScan]

-----------------------------------------------------------------------------
(***************************************************************************)
(* Requests that end a follow-up from the ledger or the directory          *)
(***************************************************************************)

\* update_employee_certificate with another valid_to, or archiving it, and a
\* registration that replaces it (replace_active_certificates), once they have
\* locked the record; an employee who has left gets no current record.  What a
\* record that was read before it was locked does to the ledger is the subject of
\* CertificateLedger.
LedgerBegin(s, action, c, v) ==
    /\ request[s].pc = "idle" /\ action \in HrActions \cap (LedgerActions \ {"leave"})
    /\ CertFree(c)
    /\ certStatus[c] \in FollowUp
    /\ IF action = "valid_to" THEN v # validTo[c] ELSE v = validTo[c]
    /\ action # "archive" /\ left => v < today
    /\ request' = [request EXCEPT ![s] =
           [IdleRequest EXCEPT !.pc = "close", !.action = action, !.certs = {c}, !.valid = v]]
    /\ UNCHANGED <<today, certVars, caseVars, scan>>

\* update_employee to LEFT: the cases of all records of the employee.
LeaveBegin(s) ==
    /\ request[s].pc = "idle" /\ "leave" \in HrActions
    /\ ~left
    /\ request' = [request EXCEPT ![s] =
           [IdleRequest EXCEPT !.pc = "close", !.action = "leave", !.certs = Certs]]
    /\ UNCHANGED <<today, certVars, caseVars, scan>>

\* close_open_reminder_tasks locks the open cases committed by now.
RequestClose(s) ==
    LET ks == OpenCases(request[s].certs) IN
    /\ request[s].pc = "close"
    /\ \A k \in ks : CaseFree(k, s, None)
    /\ request' = [request EXCEPT ![s] = [@ EXCEPT !.pc = "commit", !.held = ks]]
    /\ UNCHANGED <<today, certVars, caseVars, scan>>

CloseHeld(s) ==
    caseStatus' = [k \in Cases |->
        IF k \notin request[s].held THEN caseStatus[k]
        ELSE IF request[s].action = "replace" THEN "RESOLVED" ELSE "CLOSED"]

RequestCommit(s) ==
    LET action == request[s].action
        C == request[s].certs
    IN
    /\ request[s].pc = "commit" /\ action \in LedgerActions
    /\ CloseHeld(s)
    /\ left' = (left \/ action = "leave")
    /\ certStatus' = [c \in Certs |->
           IF c \notin C \/ action = "leave" THEN certStatus[c]
           ELSE CASE action = "valid_to" -> Derive(request[s].valid, today)
                  [] action = "archive" -> "ARCHIVED"
                  [] action = "replace" -> "REPLACED"]
    /\ validTo' = [c \in Certs |->
           IF c \in C /\ action = "valid_to" THEN request[s].valid ELSE validTo[c]]
    /\ EndRequest(s)
    /\ UNCHANGED <<today, due, events, scan>>

\* update_employee from LEFT: the employee is back.
Return(s) ==
    /\ request[s].pc = "idle" /\ "return" \in HrActions
    /\ left
    /\ left' = FALSE
    /\ UNCHANGED <<today, certStatus, validTo, caseVars, request, scan>>

\* Nothing of the transaction stays, except that what was sent was sent.
RequestAbort(s) ==
    /\ request[s].pc # "idle"
    /\ EndRequest(s)
    /\ UNCHANGED <<today, certVars, caseVars, scan>>

-----------------------------------------------------------------------------
(***************************************************************************)
(* Requests about a case                                                   *)
(***************************************************************************)

\* dispatch_task: the case is locked and checked, and its notification sent on
\* the channels chs (those of the request or of the policy).
DispatchSend(s, k, chs, ok) ==
    LET stage == NextStage(k, caseStatus[k], due[k], today, chs) IN
    /\ request[s].pc = "idle" /\ "dispatch" \in HrActions
    /\ CaseFree(k, s, None)
    /\ caseStatus[k] \in Dispatchable /\ ~Stale(CertOf(k))
    /\ stage # None
    /\ ok \subseteq chs \ Done(k, stage)
    /\ request' = [request EXCEPT ![s] =
           [IdleRequest EXCEPT !.pc = "commit", !.action = "dispatch", !.held = {k},
                               !.notice = Send(k, stage, chs, ok), !.day = today]]
    /\ UNCHANGED <<today, certVars, caseVars, scan>>

\* uq_reminder_event_success_once_per_day refuses a notice recorded meanwhile.
DispatchCommit(s) ==
    /\ request[s].pc = "commit" /\ request[s].action = "dispatch"
    /\ \E k \in request[s].held :
           LET notice == request[s].notice
               rows   == EventsOf(k, notice, request[s].day)
           IN
           /\ rows \cap events = {}
           /\ events' = events \cup rows
           /\ IF notice.moves
              THEN /\ caseStatus' = [caseStatus EXCEPT ![k] = StatusAfter(notice.stage)]
                   /\ due' = [due EXCEPT ![k] = DueAfter(notice.stage, request[s].day, @)]
              ELSE UNCHANGED <<caseStatus, due>>
    /\ EndRequest(s)
    /\ UNCHANGED <<today, certVars, scan>>

\* Mutant: the status of the case is not looked at.
FeedbackAllowedAlways(k) == caseStatus[k] # "NONE"

\* A closed case takes no feedback.
FeedbackAllowed(k) == caseStatus[k] \in Open

\* Mutant: the status of the feedback is written to the case.
FeedbackAsStatus(s, k, answer) ==
    /\ request[s].pc = "idle" /\ answer \in HrActions \cap Answers
    /\ CaseFree(k, s, None)
    /\ FeedbackAllowed(k)
    /\ caseStatus' = [caseStatus EXCEPT ![k] = answer]
    /\ UNCHANGED <<today, certVars, due, events, request, scan>>

\* create_feedback, under the lock of the case.
Feedback(s, k, answer) ==
    /\ request[s].pc = "idle" /\ answer \in HrActions \cap Answers
    /\ CaseFree(k, s, None)
    /\ FeedbackAllowed(k)
    /\ caseStatus' = [caseStatus EXCEPT ![k] =
           CASE answer = "renewed" -> "RESOLVED"
             [] answer = "no_action" -> "CLOSED"
             [] answer = "process" -> IF @ = "ESCALATED" THEN @ ELSE "WAITING_FEEDBACK"]
    /\ UNCHANGED <<today, certVars, due, events, request, scan>>

-----------------------------------------------------------------------------
(***************************************************************************)
(* Scans                                                                   *)
(***************************************************************************)

\* refresh_certificate_expiry_statuses, with FOR UPDATE SKIP LOCKED.
ScanRefresh(p) ==
    /\ scan[p].pc = "idle"
    /\ scan' = [scan EXCEPT ![p] =
           [IdleScan EXCEPT !.pc = "create", !.day = today,
                            !.locked = {c \in Certs : certStatus[c] = "CURRENT" /\ CertFree(c)}]]
    /\ UNCHANGED <<today, certVars, caseVars, request>>

\* The records a scan sees: those it has refreshed as refreshed, the others as
\* committed.
Remindable(p, c) ==
    /\ certStatus[c] = "CURRENT"
    /\ c \in scan[p].locked => Derive(validTo[c], scan[p].day) = "CURRENT"
    /\ ~left

\* Mutant: no case is opened on the last day of validity.
NewCasesBeforeLastDay(p, date) ==
    {k \in Cases :
        /\ Remindable(p, CertOf(k)) /\ validTo[CertOf(k)] = ValidOf(k)
        /\ Triggered(k, date) /\ date < ValidOf(k)
        /\ caseStatus[k] = "NONE"}

\* scan_and_create_reminder_tasks: records inside their window without a case
\* for their valid_to.
NewCases(p, date) ==
    {k \in Cases :
        /\ Remindable(p, CertOf(k)) /\ validTo[CertOf(k)] = ValidOf(k)
        /\ Triggered(k, date) /\ date <= ValidOf(k)
        /\ caseStatus[k] = "NONE"}

\* A manual scan may open cases for another day than the one it runs on.  The
\* rows are inserted by the commit.
ScanCreate(p, date) ==
    /\ scan[p].pc = "create"
    /\ p \in Daily => date = scan[p].day
    /\ scan' = [scan EXCEPT ![p].pc = IF p \in Daily THEN "read" ELSE "send",
                            ![p].new = NewCases(p, date), ![p].opened = date]
    /\ UNCHANGED <<today, certVars, caseVars, request>>

\* Mutant: a case is not looked at again after its second reminder.
ScanReadTwice(p) ==
    /\ scan[p].pc = "read"
    /\ scan' = [scan EXCEPT
           ![p].pc = "send",
           ![p].seen = [k \in Cases |->
               IF caseStatus[k] \in {"PENDING", "WAITING_FEEDBACK"} THEN caseStatus[k] ELSE None],
           ![p].seenDue = [k \in Cases |->
               IF caseStatus[k] \in {"PENDING", "WAITING_FEEDBACK"} THEN due[k] ELSE 0],
           ![p].stale = [c \in Certs |->
               IF ~Stale(c) THEN None
               ELSE IF certStatus[c] = "REPLACED" THEN "RESOLVED" ELSE "CLOSED"]]
    /\ UNCHANGED <<today, certVars, caseVars, request>>

\* dispatch_due_reminder_notifications reads the cases, without a lock, and
\* their records.
ScanRead(p) ==
    /\ scan[p].pc = "read"
    /\ scan' = [scan EXCEPT
           ![p].pc = "send",
           ![p].seen = [k \in Cases |->
               IF caseStatus[k] \in Dispatchable THEN caseStatus[k] ELSE None],
           ![p].seenDue = [k \in Cases |->
               IF caseStatus[k] \in Dispatchable THEN due[k] ELSE 0],
           ![p].stale = [c \in Certs |->
               IF ~Stale(c) THEN None
               ELSE IF certStatus[c] = "REPLACED" THEN "RESOLVED" ELSE "CLOSED"]]
    /\ UNCHANGED <<today, certVars, caseVars, request>>

Processed(p, k) == [scan[p] EXCEPT !.seen[k] = None, !.seenDue[k] = 0]

\* Mutant: a case with nothing to follow up is passed over.
ScanCloseSkips(p, k) ==
    /\ scan[p].seen[k] # None /\ scan[p].stale[CertOf(k)] # None
    /\ scan' = [scan EXCEPT ![p] = Processed(p, k)]
    /\ UNCHANGED <<today, certVars, caseVars, request>>

\* A case with nothing to follow up: the open cases of its record are locked.
ScanClose(p, k) ==
    LET c == CertOf(k) IN
    /\ scan[p].seen[k] # None /\ scan[p].stale[c] # None
    /\ \A j \in OpenCases({c}) : CaseFree(j, None, p)
    /\ scan' = [scan EXCEPT ![p] = [Processed(p, k) EXCEPT !.held = scan[p].held \cup OpenCases({c})]]
    /\ UNCHANGED <<today, certVars, caseVars, request>>

\* The stage that is due is sent on the channels it has not reached.
ScanSend(p, k, ok) ==
    LET stage == NextStage(k, scan[p].seen[k], scan[p].seenDue[k], scan[p].day, Channels) IN
    /\ scan[p].seen[k] # None /\ scan[p].stale[CertOf(k)] = None
    /\ IF stage = None THEN ok = {} ELSE ok \subseteq Channels \ Done(k, stage)
    /\ scan' = [scan EXCEPT ![p] = [Processed(p, k) EXCEPT !.notice[k] =
           IF ok = {} THEN NoNotice ELSE Send(k, stage, Channels, ok)]]
    /\ UNCHANGED <<today, certVars, caseVars, request>>

\* What a scan writes.
MovedBy(p) == {k \in Cases : scan[p].notice[k].moves}
StatusWritten(p) ==
    [k \in Cases |->
        IF k \in scan[p].held THEN scan[p].stale[CertOf(k)]
        ELSE IF k \in MovedBy(p) THEN StatusAfter(scan[p].notice[k].stage)
        ELSE IF k \in scan[p].new THEN "PENDING" ELSE caseStatus[k]]
EventsWritten(p) == UNION {EventsOf(k, scan[p].notice[k], scan[p].day) : k \in Cases}

\* uq_reminder_task_one_open_per_certificate
OneOpenIn(f) ==
    \A j, k \in Cases : CertOf(j) = CertOf(k) /\ f[j] \in Open /\ f[k] \in Open => j = k

\* The unique indexes accept what the scan writes.
ScanFits(p) ==
    /\ \A k \in scan[p].new : caseStatus[k] = "NONE"
    /\ OneOpenIn(StatusWritten(p))
    /\ EventsWritten(p) \cap events = {}

ScanFinished(p) == scan[p].pc = "send" /\ \A k \in Cases : scan[p].seen[k] = None

\* The commit waits for the cases it writes, and writes them whatever they have
\* become.
ScanCommit(p) ==
    /\ ScanFinished(p)
    /\ \A k \in MovedBy(p) : CaseFree(k, None, p)
    /\ ScanFits(p)
    /\ caseStatus' = StatusWritten(p)
    /\ due' = [k \in Cases |->
           IF k \in MovedBy(p) \ scan[p].held
           THEN DueAfter(scan[p].notice[k].stage, scan[p].day, due[k])
           ELSE IF k \in scan[p].new THEN scan[p].opened + SecondAfter ELSE due[k]]
    /\ events' = events \cup EventsWritten(p)
    /\ certStatus' = [c \in Certs |-> IF c \in scan[p].locked
                                     THEN Derive(validTo[c], scan[p].day) ELSE certStatus[c]]
    /\ EndScan(p)
    /\ UNCHANGED <<today, validTo, left, request>>

\* A conflict with a unique index, a lost connection, a dead worker: nothing is
\* written and the locks are released, but the notifications are out.  A failure
\* before the end is one at the end whose last sends failed.
ScanAbort(p) ==
    /\ ScanFinished(p)
    /\ EndScan(p)
    /\ UNCHANGED <<today, certVars, caseVars, request>>

\* Bound: ledger requests are over before the day is; a dispatch or a scan, which
\* wait for the channels, cross one midnight at most.
NextDay ==
    /\ today < Horizon
    /\ \A s \in Requests : request[s].action \notin LedgerActions
                           /\ (request[s].action = "dispatch" => request[s].day = today)
    /\ \A p \in Scans : scan[p].pc # "idle" => scan[p].day = today
    /\ today' = today + 1
    /\ UNCHANGED <<certVars, caseVars, request, scan>>

-----------------------------------------------------------------------------
Next ==
    \/ \E s \in Requests :
          \/ \E action \in LedgerActions, c \in Certs, v \in ValidTos : LedgerBegin(s, action, c, v)
          \/ LeaveBegin(s) \/ Return(s)
          \/ RequestClose(s) \/ RequestCommit(s) \/ RequestAbort(s)
          \/ \E k \in Cases :
                \/ \E chs \in SUBSET Channels \ {{}} : \E ok \in SUBSET chs : DispatchSend(s, k, chs, ok)
                \/ \E answer \in Answers : Feedback(s, k, answer)
          \/ DispatchCommit(s)
    \/ \E p \in Scans :
          \/ ScanRefresh(p) \/ \E date \in Days : ScanCreate(p, date)
          \/ ScanRead(p)
          \/ \E k \in Cases : ScanClose(p, k) \/ \E ok \in SUBSET Channels : ScanSend(p, k, ok)
          \/ ScanCommit(p) \/ ScanAbort(p)
    \/ NextDay

Spec == Init /\ [][Next]_vars

ScanStep(p) ==
    \/ ScanRefresh(p) \/ \E date \in Days : ScanCreate(p, date)
    \/ ScanRead(p)
    \/ \E k \in Cases : ScanClose(p, k) \/ \E ok \in SUBSET Channels : ScanSend(p, k, ok)
    \/ ScanCommit(p) \/ ScanAbort(p)

\* Requests do not fail every time.  The daily scan comes back and gets on; a scan
\* that has something to record does not fail every time, and the channels do not
\* refuse a case every time.
Fairness ==
    /\ \A s \in Requests : SF_vars(RequestCommit(s) \/ DispatchCommit(s))
    /\ \A p \in Daily :
          /\ WF_vars(ScanStep(p))
          /\ SF_vars(ScanCommit(p) /\ caseVars' # caseVars)
          /\ \A k \in Cases : SF_vars(ScanClose(p, k) \/ ScanSend(p, k, Channels))

FairSpec == Spec /\ Fairness

-----------------------------------------------------------------------------
(***************************************************************************)
(* Properties                                                              *)
(***************************************************************************)

\* Every variable, request and scan has its type: a case holds only statuses of
\* ReminderTaskStatus and a due date within the policy's days.
ReminderTypeOK ==
    /\ today \in Days
    /\ certStatus \in [Certs -> CertStatus]
    /\ validTo \in [Certs -> ValidTos]
    /\ left \in BOOLEAN
    /\ caseStatus \in [Cases -> CaseStatus]
    /\ due \in [Cases -> 0..MaxDue]
    /\ events \subseteq Event
    /\ request \in [Requests -> RequestType]
    /\ scan \in [Scans -> ScanType]

\* A closed case stays closed: create_feedback refuses it ("提醒任务已闭环，不能再
\* 记录反馈"), dispatch_task and close_open_reminder_tasks look at the status under
\* the row lock.  It holds while cases are opened by manual scans; the commit of a
\* daily scan writes over a case that was closed while it sent.
ClosedCaseStaysClosed ==
    [][\A k \in Cases : caseStatus[k] \in Closed => caseStatus'[k] = caseStatus[k]]_vars

\* An open case follows up the valid_to its record has now: an edit of valid_to
\* closes the cases of the old date (_close_reminder_tasks_after_update).  A scan
\* that reads the record before the edit commits opens one for the old date.
OpenCaseIsCurrent ==
    \A k \in Cases : caseStatus[k] \in Open => validTo[CertOf(k)] = ValidOf(k)

\* HR gets the notice of a stage once on each channel: over retries of channels
\* that failed, dispatches by hand, process feedback that moves a case back and
\* scans, _successful_channels_for_event and the row lock keep a notice recorded
\* on one day from being recorded on another.
OneNoticePerStage ==
    \A e, f \in events :
        e.case = f.case /\ e.stage = f.stage /\ e.channel = f.channel => e.day = f.day

FirstDay(k, stage) == {d \in Days : /\ \E e \in events : e.case = k /\ e.stage = stage /\ e.day = d
                                    /\ \A e \in events : e.case = k /\ e.stage = stage => d <= e.day}

\* HR has the policy's days to answer: the second reminder goes out no earlier
\* than second_reminder_after_days after the first notice, the escalation no earlier
\* than escalation_after_days after the second reminder, whoever dispatches.
NoticesAreSpaced ==
    \A k \in Cases :
        /\ \A e \in events : e.case = k /\ e.stage = "ESCALATION" =>
              \E d \in FirstDay(k, "SECOND_REMINDER") : d + EscalateAfter <= e.day
        /\ \A e \in events : e.case = k /\ e.stage = "SECOND_REMINDER" =>
              \A d \in FirstDay(k, "FIRST_REMINDER") : d + SecondAfter <= e.day

InWindow(c) == validTo[c] <= today + Window /\ today <= validTo[c]

\* A record in its window gets its case while it is still in it, or leaves the
\* follow-up: scan_and_create_reminder_tasks includes both ends of the window, and a
\* request in flight, or a dispatch by hand whose notice makes the commit of a scan
\* fail, can only delay it.  A case left open for a valid_to the record had before
\* makes every commit fail.
CasesAreOpened ==
    \A c \in Certs :
        LET missing == /\ certStatus[c] = "CURRENT" /\ ~left /\ InWindow(c)
                       /\ caseStatus[<<c, validTo[c]>>] = "NONE"
        IN missing ~> ~missing

\* A dispatch by hand of case k is under way.
InHand(k) == \E s \in Requests : request[s].action = "dispatch" /\ k \in request[s].held

\* A stage that is due and has reached no channel does not stay so: the daily
\* dispatch sends it, or feedback or the ledger ends the case.  Only attempts by hand
\* that reach no channel, and hold the case whenever a scan commits, can go on for ever.
StagesComeUp ==
    \A k \in Cases :
        LET stage == NextStage(k, caseStatus[k], due[k], today, Channels)
            waiting == stage # None /\ Done(k, stage) = {}
        IN (waiting ~> ~waiting) \/ []<>InHand(k)

\* A case with nothing to follow up ends: one that a scan inserted after its record
\* was archived or replaced or its employee left is closed by a later scan
\* (stale_task_close_reason), if nobody else does.
StaleCasesEnd ==
    \A k \in Cases :
        LET forgotten == caseStatus[k] \in Dispatchable /\ Stale(CertOf(k))
        IN forgotten ~> ~forgotten
=============================================================================
