------------------------- MODULE ReminderCasesProofs -------------------------
(***************************************************************************)
(* Proofs about ReminderCases, for any number of records, days, requests,  *)
(* scans and channels, and any policy.                                     *)
(***************************************************************************)
EXTENDS ReminderCases, TLAPS

-----------------------------------------------------------------------------
(***************************************************************************)
(* Type correctness                                                        *)
(***************************************************************************)

\* A notice that reached somebody, or moves its case, has a stage.
NoticeOK(n) ==
    /\ n.stage = None => n.sent = {}
    /\ n.moves => n.sent # {}

\* A request r: what it does and what it holds while it does it.
RequestOK(r) ==
    /\ NoticeOK(r.notice)
    /\ r.action \in HrActions \cup {None}
    /\ r.pc = "idle" <=> r.action = None
    /\ r.pc = "close" => r.action \in LedgerActions
    /\ r.pc # "commit" => r.held = {}
    /\ r.action = "valid_to" => r.valid \in ValidTos
    /\ r.action = "leave" => r.certs = Certs
    /\ IF r.action = "dispatch" THEN \E k \in Cases : r.held = {k} ELSE r.notice = NoNotice

\* A scan n, daily or by hand: until it has read the open cases, and if it never
\* does, it holds no case and has no notice; it closes the cases of some records and
\* sends notices of others.
ScanOK(n, daily) ==
    /\ \A k \in Cases : NoticeOK(n.notice[k])
    /\ n.pc = "read" => daily
    /\ n.pc # "send" \/ ~daily =>
           /\ n.held = {}
           /\ \A k \in Cases : n.seen[k] = None /\ n.notice[k] = NoNotice
    /\ \A k \in n.held : n.stale[CertOf(k)] # None
    /\ \A k \in Cases : n.notice[k].sent # {} => n.stale[CertOf(k)] = None

WellTyped ==
    /\ ReminderTypeOK
    /\ \A s \in Requests : RequestOK(request[s])
    /\ \A p \in Scans : ScanOK(scan[p], p \in Daily)

LEMMA Names ==
    /\ None \notin AllActions /\ LedgerActions \subseteq AllActions /\ None \notin Stages /\ None \notin Closed /\ None \notin Dispatchable
    /\ LedgerActions \cap Answers = {} /\ "dispatch" \notin LedgerActions \cup Answers
    /\ Open \subseteq CaseStatus /\ Closed \subseteq CaseStatus /\ Open \cap Closed = {}
    /\ "NONE" \notin Open \cup Closed /\ Dispatchable \subseteq Open
    /\ FollowUp \subseteq CertStatus
BY DEF None, AllActions, LedgerActions, Answers, Stages, Closed, Open, Dispatchable, CaseStatus,
       FollowUp, CertStatus

LEMMA CasesArePairs ==
    ASSUME NEW k \in Cases
    PROVE  CertOf(k) \in Certs /\ ValidOf(k) \in ValidTos /\ k = <<CertOf(k), ValidOf(k)>>
BY DEF Cases, CertOf, ValidOf

LEMMA IdleTypes ==
    /\ NoNotice \in Notice /\ NoticeOK(NoNotice)
    /\ IdleRequest \in RequestType /\ RequestOK(IdleRequest)
    /\ IdleScan \in ScanType /\ \A p \in Scans : ScanOK(IdleScan, p \in Daily)
<1> USE ReminderAssumption
<1>1. NoNotice \in Notice /\ NoticeOK(NoNotice)
  BY DEF NoNotice, Notice, NoticeOK
<1>2. 0 \in Days /\ 0 \in 0..MaxDue
  BY DEF Days, MaxDue
<1>3. IdleRequest \in RequestType /\ RequestOK(IdleRequest)
  BY <1>1, <1>2 DEF IdleRequest, RequestType, RequestOK, None
<1>4. IdleScan \in ScanType
  BY <1>1, <1>2 DEF IdleScan, ScanType
<1>5. \A p \in Scans : ScanOK(IdleScan, p \in Daily)
  BY <1>1 DEF IdleScan, ScanOK, NoNotice
<1> QED BY <1>1, <1>3, <1>4, <1>5

\* A step that only gives one request, or one scan, another well-formed record.
LEMMA RequestStepTyped ==
    ASSUME WellTyped, NEW s \in Requests, NEW r \in RequestType, RequestOK(r),
           request' = [request EXCEPT ![s] = r], UNCHANGED <<today, certVars, caseVars, scan>>
    PROVE  WellTyped'
BY DEF WellTyped, ReminderTypeOK, certVars, caseVars

LEMMA ScanStepTyped ==
    ASSUME WellTyped, NEW p \in Scans, NEW n \in ScanType, ScanOK(n, p \in Daily),
           scan' = [scan EXCEPT ![p] = n], UNCHANGED <<today, certVars, caseVars, request>>
    PROVE  WellTyped'
BY DEF WellTyped, ReminderTypeOK, certVars, caseVars

LEMMA NextStageTyped ==
    ASSUME NEW k, NEW st, NEW dueDay, NEW day, NEW chs
    PROVE  NextStage(k, st, dueDay, day, chs) \in Stages \cup {None}
BY DEF NextStage, Stages

LEMMA SendTyped ==
    ASSUME NEW k, NEW stage \in Stages, NEW chs, NEW ok \in SUBSET Channels
    PROVE  Send(k, stage, chs, ok) \in Notice /\ NoticeOK(Send(k, stage, chs, ok))
BY Names DEF Send, Notice, NoticeOK

LEMMA StatusAfterTyped ==
    ASSUME NEW stage \in Stages
    PROVE  StatusAfter(stage) \in {"WAITING_FEEDBACK", "SECOND_SENT", "ESCALATED"}
BY DEF StatusAfter, Stages

LEMMA DueAfterTyped ==
    ASSUME NEW stage \in Stages, NEW day \in Days, NEW old \in 0..MaxDue
    PROVE  DueAfter(stage, day, old) \in 0..MaxDue
BY ReminderAssumption DEF DueAfter, Stages, Days, MaxDue

LEMMA EventsOfTyped ==
    ASSUME NEW k \in Cases, NEW n \in Notice, NoticeOK(n), NEW day \in Days
    PROVE  EventsOf(k, n, day) \subseteq Event
BY DEF EventsOf, Event, Notice, NoticeOK

LEMMA DeriveTyped ==
    ASSUME NEW valid, NEW day PROVE Derive(valid, day) \in FollowUp
BY DEF Derive, FollowUp

LEMMA LedgerBeginTyped ==
    ASSUME WellTyped, NEW s \in Requests, NEW action \in LedgerActions, NEW c \in Certs,
           NEW v \in ValidTos, LedgerBegin(s, action, c, v)
    PROVE  WellTyped'
<1> DEFINE r == [IdleRequest EXCEPT !.pc = "close", !.action = action, !.certs = {c}, !.valid = v]
<1>1. r \in RequestType
  BY IdleTypes, Names DEF IdleRequest, RequestType, AllActions
<1>2. RequestOK(r)
  BY IdleTypes, Names DEF LedgerBegin, RequestOK, IdleRequest
<1> QED BY <1>1, <1>2, RequestStepTyped DEF LedgerBegin

LEMMA LeaveBeginTyped ==
    ASSUME WellTyped, NEW s \in Requests, LeaveBegin(s)
    PROVE  WellTyped'
<1> DEFINE r == [IdleRequest EXCEPT !.pc = "close", !.action = "leave", !.certs = Certs]
<1>1. r \in RequestType
  BY IdleTypes DEF IdleRequest, RequestType, AllActions, LedgerActions
<1>2. RequestOK(r)
  BY IdleTypes, Names DEF LeaveBegin, RequestOK, IdleRequest, LedgerActions, None
<1> QED BY <1>1, <1>2, RequestStepTyped DEF LeaveBegin

LEMMA RequestCloseTyped ==
    ASSUME WellTyped, NEW s \in Requests, RequestClose(s)
    PROVE  WellTyped'
<1> DEFINE r == [request[s] EXCEPT !.pc = "commit", !.held = OpenCases(request[s].certs)]
<1>0. request[s] \in RequestType /\ RequestOK(request[s])
  BY DEF WellTyped, ReminderTypeOK
<1>1. r \in RequestType
  BY <1>0 DEF RequestType, OpenCases
<1>2. RequestOK(r)
  BY <1>0, Names DEF RequestClose, RequestOK, RequestType
<1> QED BY <1>1, <1>2, RequestStepTyped DEF RequestClose

LEMMA DispatchSendTyped ==
    ASSUME WellTyped, NEW s \in Requests, NEW k \in Cases, NEW chs \in SUBSET Channels,
           NEW ok \in SUBSET chs, DispatchSend(s, k, chs, ok)
    PROVE  WellTyped'
<1> DEFINE stage == NextStage(k, caseStatus[k], due[k], today, chs)
           r == [IdleRequest EXCEPT !.pc = "commit", !.action = "dispatch", !.held = {k},
                                    !.notice = Send(k, stage, chs, ok), !.day = today]
<1>0. stage \in Stages
  BY NextStageTyped DEF DispatchSend
<1>1. Send(k, stage, chs, ok) \in Notice /\ NoticeOK(Send(k, stage, chs, ok))
  BY <1>0, SendTyped
<1> HIDE DEF stage
<1>2. r \in RequestType
  BY <1>1, IdleTypes DEF IdleRequest, RequestType, AllActions, WellTyped, ReminderTypeOK
<1>3. RequestOK(r)
  BY <1>1, IdleTypes, Names DEF DispatchSend, RequestOK, IdleRequest, None
<1> QED BY <1>2, <1>3, RequestStepTyped DEF DispatchSend, stage

LEMMA RequestCommitTyped ==
    ASSUME WellTyped, NEW s \in Requests, RequestCommit(s)
    PROVE  WellTyped'
<1>0. request[s] \in RequestType /\ RequestOK(request[s])
  BY DEF WellTyped, ReminderTypeOK
<1>1. caseStatus' \in [Cases -> CaseStatus]
  BY Names DEF RequestCommit, CloseHeld, WellTyped, ReminderTypeOK, CaseStatus
<1>2. certStatus' \in [Certs -> CertStatus]
  <2> DEFINE action   == request[s].action
             after(c) == IF c \notin request[s].certs \/ action = "leave" THEN certStatus[c]
                         ELSE CASE action = "valid_to" -> Derive(request[s].valid, today)
                                [] action = "archive" -> "ARCHIVED"
                                [] action = "replace" -> "REPLACED"
  <2>1. certStatus' = [c \in Certs |-> after(c)]
    BY DEF RequestCommit
  <2>2. ASSUME NEW c \in Certs PROVE after(c) \in CertStatus
    <3>1. certStatus[c] \in CertStatus
      BY DEF WellTyped, ReminderTypeOK
    <3>2. after(c) \in {certStatus[c], Derive(request[s].valid, today), "ARCHIVED", "REPLACED"}
      BY DEF RequestCommit, LedgerActions
    <3> HIDE DEF after
    <3> QED BY <3>1, <3>2, DeriveTyped, Names DEF CertStatus
  <2> HIDE DEF after
  <2> QED BY <2>1, <2>2
<1>3. validTo' \in [Certs -> ValidTos]
  BY <1>0 DEF RequestCommit, RequestOK, WellTyped, ReminderTypeOK
<1>4. request' = [request EXCEPT ![s] = IdleRequest] /\ UNCHANGED <<today, due, events, scan>>
  BY DEF RequestCommit, EndRequest
<1>5. left' \in BOOLEAN
  BY DEF RequestCommit, WellTyped, ReminderTypeOK
<1>6. ReminderTypeOK'
  BY <1>1, <1>2, <1>3, <1>4, <1>5, IdleTypes DEF WellTyped, ReminderTypeOK
<1>7. \A q \in Requests : RequestOK(request'[q])
  BY <1>4, IdleTypes DEF WellTyped, ReminderTypeOK
<1> QED BY <1>4, <1>6, <1>7 DEF WellTyped

LEMMA DispatchCommitTyped ==
    ASSUME WellTyped, NEW s \in Requests, DispatchCommit(s)
    PROVE  WellTyped'
<1>0. request[s] \in RequestType /\ RequestOK(request[s])
  BY DEF WellTyped, ReminderTypeOK
<1> DEFINE notice == request[s].notice
<1>1. PICK k \in request[s].held :
          /\ events' = events \cup EventsOf(k, notice, request[s].day)
          /\ IF notice.moves
             THEN /\ caseStatus' = [caseStatus EXCEPT ![k] = StatusAfter(notice.stage)]
                  /\ due' = [due EXCEPT ![k] = DueAfter(notice.stage, request[s].day, due[k])]
             ELSE UNCHANGED <<caseStatus, due>>
  BY DEF DispatchCommit
<1>2. k \in Cases /\ notice \in Notice /\ NoticeOK(notice) /\ request[s].day \in Days
  BY <1>0 DEF RequestType, RequestOK
<1>3. notice.moves => notice.stage \in Stages
  BY <1>2 DEF Notice, NoticeOK
<1>4. request' = [request EXCEPT ![s] = IdleRequest] /\ UNCHANGED <<today, certVars, scan>>
  BY DEF DispatchCommit, EndRequest
<1>5. events' \subseteq Event
  BY <1>1, <1>2, EventsOfTyped DEF WellTyped, ReminderTypeOK
<1>6. caseStatus' \in [Cases -> CaseStatus] /\ due' \in [Cases -> 0..MaxDue]
  <2>1. CASE notice.moves
    <3>1. StatusAfter(notice.stage) \in CaseStatus
      BY <1>3, <2>1, StatusAfterTyped DEF CaseStatus
    <3>2. DueAfter(notice.stage, request[s].day, due[k]) \in 0..MaxDue
      BY <1>2, <1>3, <2>1, DueAfterTyped DEF WellTyped, ReminderTypeOK
    <3> HIDE DEF notice
    <3> QED BY <1>1, <2>1, <3>1, <3>2 DEF WellTyped, ReminderTypeOK
  <2>2. CASE ~notice.moves
    BY <1>1, <2>2 DEF WellTyped, ReminderTypeOK
  <2> QED BY <2>1, <2>2
<1>7. ReminderTypeOK'
  BY <1>4, <1>5, <1>6, IdleTypes DEF WellTyped, ReminderTypeOK, certVars
<1>8. \A q \in Requests : RequestOK(request'[q])
  BY <1>4, IdleTypes DEF WellTyped, ReminderTypeOK
<1> QED BY <1>4, <1>7, <1>8 DEF WellTyped

LEMMA FeedbackTyped ==
    ASSUME WellTyped, NEW s \in Requests, NEW k \in Cases, NEW answer \in Answers,
           Feedback(s, k, answer)
    PROVE  /\ WellTyped'
           /\ caseStatus[k] \in Open
           /\ \A j \in Cases \ {k} : caseStatus'[j] = caseStatus[j]
           /\ caseStatus'[k] \in {"RESOLVED", "CLOSED", "WAITING_FEEDBACK"}
              \/ caseStatus'[k] = caseStatus[k]
<1> DEFINE after == CASE answer = "renewed" -> "RESOLVED"
                      [] answer = "no_action" -> "CLOSED"
                      [] answer = "process" -> IF caseStatus[k] = "ESCALATED" THEN caseStatus[k]
                                               ELSE "WAITING_FEEDBACK"
<1>1. caseStatus' = [caseStatus EXCEPT ![k] = after]
  BY DEF Feedback
<1>2. after \in {"RESOLVED", "CLOSED", "WAITING_FEEDBACK", caseStatus[k]}
  BY DEF Answers
<1>3. caseStatus \in [Cases -> CaseStatus]
  BY DEF WellTyped, ReminderTypeOK
<1>4. after \in CaseStatus
  BY <1>2, <1>3 DEF CaseStatus
<1> HIDE DEF after
<1>5. caseStatus' \in [Cases -> CaseStatus]
  BY <1>1, <1>3, <1>4
<1>6. UNCHANGED <<today, certVars, due, events, request, scan>>
  BY DEF Feedback
<1>7. WellTyped'
  BY <1>5, <1>6 DEF WellTyped, ReminderTypeOK, certVars
<1> QED BY <1>1, <1>2, <1>3, <1>7 DEF Feedback, FeedbackAllowed

LEMMA ScanRefreshTyped ==
    ASSUME WellTyped, NEW p \in Scans, ScanRefresh(p)
    PROVE  WellTyped'
<1> DEFINE n == [IdleScan EXCEPT !.pc = "create", !.day = today,
                     !.locked = {c \in Certs : certStatus[c] = "CURRENT" /\ CertFree(c)}]
<1>1. n \in ScanType
  BY IdleTypes DEF IdleScan, ScanType, WellTyped, ReminderTypeOK
<1>2. ScanOK(n, p \in Daily)
  BY IdleTypes DEF IdleScan, ScanOK, NoNotice
<1> QED BY <1>1, <1>2, ScanStepTyped DEF ScanRefresh

LEMMA ScanCreateTyped ==
    ASSUME WellTyped, NEW p \in Scans, NEW date \in Days, ScanCreate(p, date)
    PROVE  WellTyped'
<1> DEFINE n == [scan[p] EXCEPT !.pc = IF p \in Daily THEN "read" ELSE "send",
                                !.new = NewCases(p, date), !.opened = date]
<1>0. scan[p] \in ScanType /\ ScanOK(scan[p], p \in Daily) /\ scan[p].pc = "create"
  BY DEF WellTyped, ReminderTypeOK, ScanCreate
<1>1. n \in ScanType
  BY <1>0 DEF ScanType, NewCases
<1>2. ScanOK(n, p \in Daily)
  BY <1>0 DEF ScanType, ScanOK
<1>3. scan' = [scan EXCEPT ![p] = n]
  BY DEF ScanCreate, WellTyped, ReminderTypeOK
<1> QED BY <1>1, <1>2, <1>3, ScanStepTyped DEF ScanCreate

LEMMA ScanReadTyped ==
    ASSUME WellTyped, NEW p \in Scans, ScanRead(p)
    PROVE  WellTyped'
<1> DEFINE seen    == [k \in Cases |->
                           IF caseStatus[k] \in Dispatchable THEN caseStatus[k] ELSE None]
           seenDue == [k \in Cases |-> IF caseStatus[k] \in Dispatchable THEN due[k] ELSE 0]
           stale   == [c \in Certs |->
                           IF ~Stale(c) THEN None
                           ELSE IF certStatus[c] = "REPLACED" THEN "RESOLVED" ELSE "CLOSED"]
           n == [scan[p] EXCEPT !.pc = "send", !.seen = seen, !.seenDue = seenDue,
                                !.stale = stale]
<1>0. scan[p] \in ScanType /\ ScanOK(scan[p], p \in Daily) /\ scan[p].pc = "read"
  BY DEF WellTyped, ReminderTypeOK, ScanRead
<1>1. seen \in [Cases -> Dispatchable \cup {None}] /\ stale \in [Certs -> Closed \cup {None}]
  BY DEF Closed
<1>2. seenDue \in [Cases -> 0..MaxDue]
  BY IdleTypes DEF IdleScan, ScanType, WellTyped, ReminderTypeOK
<1>3. scan' = [scan EXCEPT ![p] = n]
  BY DEF ScanRead, WellTyped, ReminderTypeOK
<1> HIDE DEF seen, seenDue, stale
<1>4. n \in ScanType
  BY <1>0, <1>1, <1>2 DEF ScanType
<1>5. ScanOK(n, p \in Daily)
  BY <1>0 DEF ScanType, ScanOK, NoNotice
<1> QED BY <1>3, <1>4, <1>5, ScanStepTyped DEF ScanRead

LEMMA ProcessedFields ==
    ASSUME ReminderTypeOK, NEW p \in Scans, NEW k \in Cases
    PROVE  /\ Processed(p, k) \in ScanType
           /\ Processed(p, k) = [scan[p] EXCEPT !.seen = [scan[p].seen EXCEPT ![k] = None],
                                               !.seenDue = [scan[p].seenDue EXCEPT ![k] = 0]]
           /\ Processed(p, k).notice = scan[p].notice
BY IdleTypes DEF Processed, ReminderTypeOK, ScanType, IdleScan

\* Only a daily scan that has read the open cases processes them.
LEMMA ScanProcesses ==
    ASSUME WellTyped, NEW p \in Scans, NEW k \in Cases, scan[p].seen[k] # None
    PROVE  scan[p].pc = "send" /\ p \in Daily
BY DEF WellTyped, ScanOK

LEMMA ScanCloseTyped ==
    ASSUME WellTyped, NEW p \in Scans, NEW k \in Cases, ScanClose(p, k)
    PROVE  WellTyped'
<1> DEFINE n == [Processed(p, k) EXCEPT !.held = scan[p].held \cup OpenCases({CertOf(k)})]
<1>0. scan[p] \in ScanType /\ ScanOK(scan[p], p \in Daily) /\ ReminderTypeOK
  BY DEF WellTyped, ReminderTypeOK
<1>1. n = [scan[p] EXCEPT !.seen = [scan[p].seen EXCEPT ![k] = None],
                         !.seenDue = [scan[p].seenDue EXCEPT ![k] = 0],
                         !.held = scan[p].held \cup OpenCases({CertOf(k)})]
  BY <1>0, ProcessedFields DEF ScanType
<1>2. [scan[p].seen EXCEPT ![k] = None] \in [Cases -> Dispatchable \cup {None}]
      /\ [scan[p].seenDue EXCEPT ![k] = 0] \in [Cases -> 0..MaxDue]
  BY <1>0, IdleTypes DEF ScanType, IdleScan
<1>3. scan[p].held \cup OpenCases({CertOf(k)}) \in SUBSET Cases
  BY <1>0 DEF ScanType, OpenCases
<1>4. n \in ScanType
  BY <1>0, <1>1, <1>2, <1>3 DEF ScanType
<1>5. /\ n.pc = "send" /\ p \in Daily /\ n.stale = scan[p].stale /\ n.notice = scan[p].notice
      /\ n.held = scan[p].held \cup OpenCases({CertOf(k)})
  BY <1>0, <1>1, ScanProcesses DEF ScanClose, ScanType
<1> HIDE DEF n
<1>6. ScanOK(n, p \in Daily)
  BY <1>0, <1>5 DEF ScanClose, ScanOK, OpenCases
<1> QED BY <1>4, <1>6, ScanStepTyped DEF ScanClose, n

LEMMA ScanSendTyped ==
    ASSUME WellTyped, NEW p \in Scans, NEW k \in Cases, NEW ok \in SUBSET Channels,
           ScanSend(p, k, ok)
    PROVE  WellTyped'
<1> DEFINE stage  == NextStage(k, scan[p].seen[k], scan[p].seenDue[k], scan[p].day, Channels)
           notice == IF ok = {} THEN NoNotice ELSE Send(k, stage, Channels, ok)
           n == [Processed(p, k) EXCEPT !.notice = [scan[p].notice EXCEPT ![k] = notice]]
<1>0. scan[p] \in ScanType /\ ScanOK(scan[p], p \in Daily) /\ ReminderTypeOK
  BY DEF WellTyped, ReminderTypeOK
<1>1. notice \in Notice /\ NoticeOK(notice)
  <2>1. ok # {} => stage \in Stages
    BY NextStageTyped DEF ScanSend
  <2> HIDE DEF stage
  <2> QED BY <2>1, SendTyped, IdleTypes
<1> DEFINE notices == [scan[p].notice EXCEPT ![k] = notice]
<1>2. scan' = [scan EXCEPT ![p] = n]
  <2>1. Processed(p, k).notice = scan[p].notice
    BY <1>0, ProcessedFields
  <2>2. [Processed(p, k) EXCEPT !.notice[k] = notice] = n
    BY <1>0, <2>1, ProcessedFields DEF ScanType
  <2> QED BY <2>2 DEF ScanSend
<1>3. n = [scan[p] EXCEPT !.seen = [scan[p].seen EXCEPT ![k] = None],
                         !.seenDue = [scan[p].seenDue EXCEPT ![k] = 0], !.notice = notices]
  BY <1>0, ProcessedFields DEF ScanType
<1>4. [scan[p].seen EXCEPT ![k] = None] \in [Cases -> Dispatchable \cup {None}]
      /\ [scan[p].seenDue EXCEPT ![k] = 0] \in [Cases -> 0..MaxDue]
  BY <1>0, IdleTypes DEF ScanType, IdleScan
<1> HIDE DEF notice
<1>5. notices \in [Cases -> Notice]
  BY <1>0, <1>1 DEF ScanType
<1>6. n \in ScanType
  BY <1>0, <1>3, <1>4, <1>5 DEF ScanType
<1>7. /\ n.pc = "send" /\ p \in Daily /\ n.stale = scan[p].stale /\ n.held = scan[p].held
      /\ \A j \in Cases : n.notice[j] = IF j = k THEN notice ELSE scan[p].notice[j]
  BY <1>0, <1>3, ScanProcesses DEF ScanSend, ScanType
<1> HIDE DEF n
<1>8. ScanOK(n, p \in Daily)
  BY <1>0, <1>1, <1>7 DEF ScanSend, ScanOK
<1> QED BY <1>2, <1>6, <1>8, ScanStepTyped DEF ScanSend

LEMMA WrittenTyped ==
    ASSUME WellTyped, NEW p \in Scans
    PROVE  StatusWritten(p) \in [Cases -> CaseStatus] /\ EventsWritten(p) \subseteq Event
<1>0. scan[p] \in ScanType /\ ScanOK(scan[p], p \in Daily) /\ ReminderTypeOK
  BY DEF WellTyped, ReminderTypeOK
<1>1. ASSUME NEW k \in Cases
      PROVE  /\ StatusWritten(p)[k] \in CaseStatus
             /\ EventsOf(k, scan[p].notice[k], scan[p].day) \subseteq Event
  <2>1. scan[p].notice[k] \in Notice /\ NoticeOK(scan[p].notice[k]) /\ scan[p].day \in Days
    BY <1>0 DEF ScanType, ScanOK
  <2>2. k \in scan[p].held => scan[p].stale[CertOf(k)] \in CaseStatus
    BY <1>0, CasesArePairs, Names DEF ScanType, ScanOK
  <2>3. k \in MovedBy(p) => StatusAfter(scan[p].notice[k].stage) \in CaseStatus
    BY <2>1, StatusAfterTyped DEF MovedBy, Notice, NoticeOK, CaseStatus
  <2>4. caseStatus[k] \in CaseStatus /\ "PENDING" \in CaseStatus
    BY <1>0 DEF ReminderTypeOK, CaseStatus
  <2> QED BY <2>1, <2>2, <2>3, <2>4, EventsOfTyped DEF StatusWritten
<1>2. StatusWritten(p) = [k \in Cases |-> StatusWritten(p)[k]]
  BY DEF StatusWritten
<1> QED BY <1>1, <1>2 DEF EventsWritten

LEMMA ScanCommitTyped ==
    ASSUME WellTyped, NEW p \in Scans, ScanCommit(p)
    PROVE  WellTyped'
<1>0. scan[p] \in ScanType /\ ScanOK(scan[p], p \in Daily) /\ ReminderTypeOK
  BY DEF WellTyped, ReminderTypeOK
<1>1. scan' = [scan EXCEPT ![p] = IdleScan] /\ UNCHANGED <<today, validTo, left, request>>
  BY DEF ScanCommit, EndScan
<1>2. caseStatus' \in [Cases -> CaseStatus] /\ events' \subseteq Event
  BY <1>0, WrittenTyped DEF ScanCommit, ReminderTypeOK
<1>3. due' \in [Cases -> 0..MaxDue]
  <2> DEFINE new(k) == IF k \in MovedBy(p) \ scan[p].held
                       THEN DueAfter(scan[p].notice[k].stage, scan[p].day, due[k])
                       ELSE IF k \in scan[p].new THEN scan[p].opened + SecondAfter ELSE due[k]
  <2>1. due' = [k \in Cases |-> new(k)]
    BY DEF ScanCommit
  <2>2. ASSUME NEW k \in Cases PROVE new(k) \in 0..MaxDue
    <3>1. due[k] \in 0..MaxDue /\ scan[p].day \in Days /\ scan[p].opened \in Days
      BY <1>0 DEF ReminderTypeOK, ScanType
    <3>2. k \in MovedBy(p) => scan[p].notice[k].stage \in Stages
      BY <1>0 DEF MovedBy, ScanType, ScanOK, Notice, NoticeOK
    <3>3. k \in MovedBy(p) =>
              DueAfter(scan[p].notice[k].stage, scan[p].day, due[k]) \in 0..MaxDue
      BY <3>1, <3>2, DueAfterTyped
    <3>4. scan[p].opened + SecondAfter \in 0..MaxDue
      BY <3>1, ReminderAssumption DEF Days, MaxDue
    <3> QED BY <3>1, <3>3, <3>4
  <2> HIDE DEF new
  <2> QED BY <2>1, <2>2
<1>4. certStatus' \in [Certs -> CertStatus]
  BY <1>0, DeriveTyped, Names DEF ScanCommit, ReminderTypeOK
<1>5. ReminderTypeOK'
  BY <1>0, <1>1, <1>2, <1>3, <1>4, IdleTypes DEF ReminderTypeOK
<1>6. \A r \in Scans : ScanOK(scan'[r], r \in Daily)
  BY <1>0, <1>1, IdleTypes DEF WellTyped, ReminderTypeOK
<1> QED BY <1>1, <1>5, <1>6 DEF WellTyped

LEMMA EndRequestTyped ==
    ASSUME WellTyped, NEW s \in Requests, RequestAbort(s)
    PROVE  WellTyped'
BY IdleTypes, RequestStepTyped DEF RequestAbort, EndRequest

LEMMA ScanAbortTyped ==
    ASSUME WellTyped, NEW p \in Scans, ScanAbort(p)
    PROVE  WellTyped'
BY IdleTypes, ScanStepTyped DEF ScanAbort, EndScan

LEMMA ReturnTyped ==
    ASSUME WellTyped, NEW s \in Requests, Return(s)
    PROVE  WellTyped'
BY DEF Return, WellTyped, ReminderTypeOK, caseVars

LEMMA NextDayTyped ==
    ASSUME WellTyped, NextDay
    PROVE  WellTyped'
BY ReminderAssumption DEF NextDay, WellTyped, ReminderTypeOK, certVars, caseVars, Days

LEMMA WellTypedStep == ASSUME WellTyped, [Next]_vars PROVE WellTyped'
<1>1. ASSUME NEW s \in Requests, NEW action \in LedgerActions, NEW c \in Certs,
             NEW v \in ValidTos, LedgerBegin(s, action, c, v)
      PROVE  WellTyped'
  BY <1>1, LedgerBeginTyped
<1>2. ASSUME NEW s \in Requests,
             \/ LeaveBegin(s) \/ Return(s) \/ RequestClose(s) \/ RequestCommit(s)
             \/ RequestAbort(s) \/ DispatchCommit(s)
      PROVE  WellTyped'
  BY <1>2, LeaveBeginTyped, ReturnTyped, RequestCloseTyped, RequestCommitTyped,
     EndRequestTyped, DispatchCommitTyped
<1>3. ASSUME NEW s \in Requests, NEW k \in Cases, NEW chs \in SUBSET Channels,
             NEW ok \in SUBSET chs, DispatchSend(s, k, chs, ok)
      PROVE  WellTyped'
  BY <1>3, DispatchSendTyped
<1>4. ASSUME NEW s \in Requests, NEW k \in Cases, NEW answer \in Answers,
             Feedback(s, k, answer)
      PROVE  WellTyped'
  BY <1>4, FeedbackTyped
<1>5. ASSUME NEW p \in Scans,
             \/ ScanRefresh(p) \/ ScanRead(p) \/ ScanCommit(p) \/ ScanAbort(p)
             \/ \E date \in Days : ScanCreate(p, date)
             \/ \E k \in Cases : ScanClose(p, k) \/ \E ok \in SUBSET Channels : ScanSend(p, k, ok)
      PROVE  WellTyped'
  BY <1>5, ScanRefreshTyped, ScanReadTyped, ScanCommitTyped, ScanAbortTyped, ScanCreateTyped,
     ScanCloseTyped, ScanSendTyped
<1>6. CASE NextDay
  BY <1>6, NextDayTyped
<1>7. CASE UNCHANGED vars
  BY <1>7 DEF vars, WellTyped, ReminderTypeOK
<1> QED BY <1>1, <1>2, <1>3, <1>4, <1>5, <1>6, <1>7 DEF Next

LEMMA WellTypedInit == Init => WellTyped
<1> SUFFICES ASSUME Init PROVE WellTyped
  OBVIOUS
<1>1. ReminderTypeOK
  <2>1. 0 \in Days /\ 0 \in 0..MaxDue /\ "CURRENT" \in CertStatus /\ "NONE" \in CaseStatus
    BY ReminderAssumption DEF Days, MaxDue, CertStatus, CaseStatus
  <2>2. request \in [Requests -> RequestType] /\ scan \in [Scans -> ScanType]
    BY IdleTypes DEF Init
  <2> QED BY <2>1, <2>2 DEF Init, ReminderTypeOK
<1>2. \A s \in Requests : RequestOK(request[s])
  BY IdleTypes DEF Init
<1>3. \A p \in Scans : ScanOK(scan[p], p \in Daily)
  BY IdleTypes DEF Init
<1> QED BY <1>1, <1>2, <1>3 DEF WellTyped

\* Every record, case, request and scan keeps its type, whatever HR, the scans and
\* the channels do (ReminderTypeOK).
THEOREM RemindersTyped == Spec => []ReminderTypeOK
<1>1. WellTyped => ReminderTypeOK
  BY DEF WellTyped
<1> QED BY <1>1, WellTypedInit, WellTypedStep, PTL DEF Spec

-----------------------------------------------------------------------------
(***************************************************************************)
(* What each step does to its request or scan, field by field              *)
(***************************************************************************)

LEMMA IdleFields ==
    /\ IdleRequest.pc = "idle" /\ IdleRequest.action = None /\ IdleRequest.certs = {}
    /\ IdleRequest.held = {} /\ IdleRequest.notice = NoNotice /\ IdleRequest.day = 0
    /\ IdleScan.pc = "idle" /\ IdleScan.day = 0 /\ IdleScan.locked = {} /\ IdleScan.new = {}
    /\ IdleScan.held = {}
    /\ \A k \in Cases : IdleScan.seen[k] = None /\ IdleScan.notice[k] = NoNotice
    /\ NoNotice.stage = None /\ NoNotice.sent = {} /\ NoNotice.moves = FALSE
BY DEF IdleRequest, IdleScan, NoNotice

LEMMA RequestEnds ==
    ASSUME WellTyped, NEW s \in Requests, EndRequest(s)
    PROVE  request'[s] = IdleRequest /\ \A q \in Requests \ {s} : request'[q] = request[q]
BY DEF EndRequest, WellTyped, ReminderTypeOK

LEMMA ScanEnds ==
    ASSUME WellTyped, NEW p \in Scans, EndScan(p)
    PROVE  scan'[p] = IdleScan /\ \A r \in Scans \ {p} : scan'[r] = scan[r]
BY DEF EndScan, WellTyped, ReminderTypeOK

LEMMA LedgerBegins ==
    ASSUME WellTyped, NEW s \in Requests,
           \/ LeaveBegin(s)
           \/ \E action \in LedgerActions, c \in Certs, v \in ValidTos : LedgerBegin(s, action, c, v)
    PROVE  /\ request'[s].pc = "close" /\ request'[s].held = {} /\ request'[s].day = 0
           /\ request'[s].action \in LedgerActions /\ request'[s].notice = NoNotice
           /\ \A q \in Requests \ {s} : request'[q] = request[q]
           /\ UNCHANGED <<today, certVars, caseVars, scan>>
<1> request \in [Requests -> RequestType]
  BY DEF WellTyped, ReminderTypeOK
<1>1. CASE LeaveBegin(s)
  BY <1>1 DEF LeaveBegin, IdleRequest, LedgerActions
<1>2. ASSUME NEW action \in LedgerActions, NEW c \in Certs, NEW v \in ValidTos,
             LedgerBegin(s, action, c, v)
      PROVE  /\ request'[s].pc = "close" /\ request'[s].held = {} /\ request'[s].day = 0
             /\ request'[s].action \in LedgerActions /\ request'[s].notice = NoNotice
             /\ \A q \in Requests \ {s} : request'[q] = request[q]
             /\ UNCHANGED <<today, certVars, caseVars, scan>>
  BY <1>2 DEF LedgerBegin, IdleRequest
<1> QED BY <1>1, <1>2

LEMMA RequestCloses ==
    ASSUME WellTyped, NEW s \in Requests, RequestClose(s)
    PROVE  /\ request'[s].pc = "commit" /\ request'[s].held = OpenCases(request[s].certs)
           /\ request'[s].certs = request[s].certs /\ request'[s].notice = request[s].notice
           /\ request'[s].action = request[s].action /\ request[s].action \in LedgerActions
           /\ request'[s].day = request[s].day
           /\ \A q \in Requests \ {s} : request'[q] = request[q]
           /\ UNCHANGED <<today, certVars, caseVars, scan>>
<1>1. request \in [Requests -> RequestType] /\ RequestOK(request[s])
  BY DEF WellTyped, ReminderTypeOK
<1> QED BY <1>1 DEF RequestClose, RequestOK, RequestType

LEMMA DispatchSends ==
    ASSUME WellTyped, NEW s \in Requests, NEW k \in Cases, NEW chs \in SUBSET Channels,
           NEW ok \in SUBSET chs, DispatchSend(s, k, chs, ok)
    PROVE  /\ request'[s].pc = "commit" /\ request'[s].action = "dispatch"
           /\ request'[s].held = {k} /\ request'[s].day = today
           /\ request'[s].notice =
                  Send(k, NextStage(k, caseStatus[k], due[k], today, chs), chs, ok)
           /\ \A q \in Requests \ {s} : request'[q] = request[q]
           /\ UNCHANGED <<today, certVars, caseVars, scan>>
<1>1. request \in [Requests -> RequestType]
  BY DEF WellTyped, ReminderTypeOK
<1> QED BY <1>1 DEF DispatchSend, IdleRequest

LEMMA LedgerCommits ==
    ASSUME WellTyped, NEW s \in Requests, RequestCommit(s)
    PROVE  /\ request[s].pc = "commit" /\ request[s].action \in LedgerActions
           /\ request'[s] = IdleRequest /\ \A q \in Requests \ {s} : request'[q] = request[q]
           /\ \A k \in Cases : IF k \in request[s].held THEN caseStatus'[k] \in Closed
                                                      ELSE caseStatus'[k] = caseStatus[k]
           /\ UNCHANGED <<today, due, events, scan>>
<1>1. \A k \in Cases : IF k \in request[s].held THEN caseStatus'[k] \in Closed
                                              ELSE caseStatus'[k] = caseStatus[k]
  BY DEF RequestCommit, CloseHeld, Closed
<1> QED BY <1>1, RequestEnds DEF RequestCommit

\* The rows a dispatch records.
DispatchRows(s, k) == EventsOf(k, request[s].notice, request[s].day)

LEMMA DispatchCommits ==
    ASSUME WellTyped, NEW s \in Requests, DispatchCommit(s)
    PROVE  /\ request[s].pc = "commit" /\ request[s].action = "dispatch"
           /\ request'[s] = IdleRequest /\ \A q \in Requests \ {s} : request'[q] = request[q]
           /\ UNCHANGED <<today, certVars, scan>>
           /\ \E k \in Cases :
                 /\ request[s].held = {k}
                 /\ events' = events \cup DispatchRows(s, k)
                 /\ \A j \in Cases \ {k} : caseStatus'[j] = caseStatus[j] /\ due'[j] = due[j]
                 /\ IF request[s].notice.moves
                    THEN /\ request[s].notice.stage \in Stages
                         /\ caseStatus'[k] = StatusAfter(request[s].notice.stage)
                         /\ due'[k] = DueAfter(request[s].notice.stage, request[s].day, due[k])
                    ELSE caseStatus'[k] = caseStatus[k] /\ due'[k] = due[k]
<1>0. /\ request[s] \in RequestType /\ RequestOK(request[s])
      /\ caseStatus \in [Cases -> CaseStatus] /\ due \in [Cases -> 0..MaxDue]
  BY DEF WellTyped, ReminderTypeOK
<1>1. request[s].pc = "commit" /\ request[s].action = "dispatch"
  BY DEF DispatchCommit
<1>2. PICK k \in Cases : request[s].held = {k}
  BY <1>0, <1>1 DEF RequestOK
<1>3. /\ events' = events \cup DispatchRows(s, k)
      /\ IF request[s].notice.moves
         THEN /\ caseStatus' = [caseStatus EXCEPT ![k] = StatusAfter(request[s].notice.stage)]
              /\ due' = [due EXCEPT ![k] = DueAfter(request[s].notice.stage, request[s].day, due[k])]
         ELSE UNCHANGED <<caseStatus, due>>
  BY <1>2 DEF DispatchCommit, DispatchRows
<1>4. request[s].notice.moves => request[s].notice.stage \in Stages
  BY <1>0 DEF RequestOK, NoticeOK, RequestType, Notice
<1>5. /\ \A j \in Cases \ {k} : caseStatus'[j] = caseStatus[j] /\ due'[j] = due[j]
      /\ IF request[s].notice.moves
         THEN /\ caseStatus'[k] = StatusAfter(request[s].notice.stage)
              /\ due'[k] = DueAfter(request[s].notice.stage, request[s].day, due[k])
         ELSE caseStatus'[k] = caseStatus[k] /\ due'[k] = due[k]
  BY <1>0, <1>3
<1>6. UNCHANGED <<today, certVars, scan>> /\ EndRequest(s)
  BY DEF DispatchCommit
<1> QED BY <1>1, <1>2, <1>3, <1>4, <1>5, <1>6, RequestEnds

LEMMA ScanRefreshes ==
    ASSUME WellTyped, NEW p \in Scans, ScanRefresh(p)
    PROVE  /\ scan'[p].pc = "create" /\ scan'[p].day = today /\ scan'[p].held = {}
           /\ scan'[p].new = {}
           /\ scan'[p].locked = {c \in Certs : certStatus[c] = "CURRENT" /\ CertFree(c)}
           /\ \A k \in Cases : scan'[p].seen[k] = None /\ scan'[p].notice[k] = NoNotice
           /\ \A r \in Scans \ {p} : scan'[r] = scan[r]
           /\ UNCHANGED <<today, certVars, caseVars, request>>
<1>1. scan \in [Scans -> ScanType]
  BY DEF WellTyped, ReminderTypeOK
<1> QED BY <1>1 DEF ScanRefresh, IdleScan

LEMMA ScanCreates ==
    ASSUME WellTyped, NEW p \in Scans, NEW date \in Days, ScanCreate(p, date)
    PROVE  /\ scan[p].pc = "create"
           /\ scan'[p].pc = IF p \in Daily THEN "read" ELSE "send"
           /\ scan'[p].new = NewCases(p, date) /\ scan'[p].held = scan[p].held
           /\ scan'[p].day = scan[p].day /\ scan'[p].locked = scan[p].locked
           /\ scan'[p].seen = scan[p].seen /\ scan'[p].seenDue = scan[p].seenDue
           /\ scan'[p].notice = scan[p].notice /\ scan'[p].stale = scan[p].stale
           /\ \A r \in Scans \ {p} : scan'[r] = scan[r]
           /\ UNCHANGED <<today, certVars, caseVars, request>>
<1>1. scan \in [Scans -> ScanType]
  BY DEF WellTyped, ReminderTypeOK
<1> QED BY <1>1 DEF ScanCreate, ScanType

LEMMA ScanReads ==
    ASSUME WellTyped, NEW p \in Scans, ScanRead(p)
    PROVE  /\ scan[p].pc = "read" /\ scan'[p].pc = "send"
           /\ scan'[p].day = scan[p].day /\ scan'[p].locked = scan[p].locked
           /\ scan'[p].new = scan[p].new /\ scan'[p].held = {}
           /\ \A k \in Cases : /\ scan'[p].notice[k] = NoNotice
                               /\ IF caseStatus[k] \in Dispatchable
                                  THEN scan'[p].seen[k] = caseStatus[k] /\ scan'[p].seenDue[k] = due[k]
                                  ELSE scan'[p].seen[k] = None
           /\ \A r \in Scans \ {p} : scan'[r] = scan[r]
           /\ UNCHANGED <<today, certVars, caseVars, request>>
<1>1. scan \in [Scans -> ScanType] /\ ScanOK(scan[p], p \in Daily)
  BY DEF WellTyped, ReminderTypeOK
<1>2. scan[p].pc = "read" /\ scan[p].held = {} /\ \A k \in Cases : scan[p].notice[k] = NoNotice
  BY <1>1 DEF ScanRead, ScanOK
<1> DEFINE seen    == [k \in Cases |->
                           IF caseStatus[k] \in Dispatchable THEN caseStatus[k] ELSE None]
           seenDue == [k \in Cases |-> IF caseStatus[k] \in Dispatchable THEN due[k] ELSE 0]
<1>3. /\ scan'[p].pc = "send" /\ scan'[p].day = scan[p].day
      /\ scan'[p].locked = scan[p].locked /\ scan'[p].new = scan[p].new
      /\ scan'[p].held = scan[p].held /\ scan'[p].notice = scan[p].notice
      /\ scan'[p].seen = seen /\ scan'[p].seenDue = seenDue
      /\ \A r \in Scans \ {p} : scan'[r] = scan[r]
      /\ UNCHANGED <<today, certVars, caseVars, request>>
  BY <1>1 DEF ScanRead, ScanType
<1> QED BY <1>2, <1>3

LEMMA ScanCloses ==
    ASSUME WellTyped, NEW p \in Scans, NEW k \in Cases, ScanClose(p, k)
    PROVE  /\ scan[p].pc = "send" /\ p \in Daily
           /\ scan'[p].pc = "send" /\ scan'[p].day = scan[p].day
           /\ scan'[p].new = scan[p].new /\ scan'[p].locked = scan[p].locked
           /\ scan'[p].held = scan[p].held \cup OpenCases({CertOf(k)})
           /\ scan'[p].notice = scan[p].notice /\ scan'[p].stale = scan[p].stale
           /\ \A j \in Cases : IF j = k THEN scan'[p].seen[j] = None
                               ELSE /\ scan'[p].seen[j] = scan[p].seen[j]
                                    /\ scan'[p].seenDue[j] = scan[p].seenDue[j]
           /\ \A r \in Scans \ {p} : scan'[r] = scan[r]
           /\ UNCHANGED <<today, certVars, caseVars, request>>
<1>1. scan \in [Scans -> ScanType] /\ ReminderTypeOK
  BY DEF WellTyped, ReminderTypeOK
<1>2. scan'[p] = [Processed(p, k) EXCEPT !.held = scan[p].held \cup OpenCases({CertOf(k)})]
      /\ \A r \in Scans \ {p} : scan'[r] = scan[r]
  BY <1>1 DEF ScanClose
<1>3. scan'[p] = [scan[p] EXCEPT !.seen = [scan[p].seen EXCEPT ![k] = None],
                                !.seenDue = [scan[p].seenDue EXCEPT ![k] = 0],
                                !.held = scan[p].held \cup OpenCases({CertOf(k)})]
  BY <1>1, <1>2, ProcessedFields DEF ScanType
<1>4. scan[p].pc = "send" /\ p \in Daily
  BY ScanProcesses DEF ScanClose
<1> DEFINE seen == [scan[p].seen EXCEPT ![k] = None]
           seenDue == [scan[p].seenDue EXCEPT ![k] = 0]
           held == scan[p].held \cup OpenCases({CertOf(k)})
<1>5. /\ scan'[p].pc = scan[p].pc /\ scan'[p].day = scan[p].day
      /\ scan'[p].new = scan[p].new /\ scan'[p].locked = scan[p].locked
      /\ scan'[p].notice = scan[p].notice /\ scan'[p].stale = scan[p].stale
      /\ scan'[p].seen = seen /\ scan'[p].seenDue = seenDue /\ scan'[p].held = held
  <2> HIDE DEF seen, seenDue, held
  <2> QED BY <1>1, <1>3 DEF ScanType, seen, seenDue, held
<1>6. /\ scan[p].seen \in [Cases -> Dispatchable \cup {None}]
      /\ scan[p].seenDue \in [Cases -> 0..MaxDue]
  BY <1>1 DEF ScanType
<1>7. \A j \in Cases : IF j = k THEN scan'[p].seen[j] = None
                       ELSE /\ scan'[p].seen[j] = scan[p].seen[j]
                            /\ scan'[p].seenDue[j] = scan[p].seenDue[j]
  BY <1>5, <1>6
<1>8. UNCHANGED <<today, certVars, caseVars, request>>
  BY DEF ScanClose
<1> QED BY <1>2, <1>4, <1>5, <1>7, <1>8

\* What a scan sends about a case.
ScanNotice(p, k, ok) ==
    IF ok = {} THEN NoNotice
    ELSE Send(k, NextStage(k, scan[p].seen[k], scan[p].seenDue[k], scan[p].day, Channels), Channels, ok)

LEMMA ScanSends ==
    ASSUME WellTyped, NEW p \in Scans, NEW k \in Cases, NEW ok \in SUBSET Channels,
           ScanSend(p, k, ok)
    PROVE  /\ scan[p].pc = "send" /\ p \in Daily
           /\ scan'[p].pc = "send" /\ scan'[p].day = scan[p].day
           /\ scan'[p].new = scan[p].new /\ scan'[p].locked = scan[p].locked
           /\ scan'[p].held = scan[p].held /\ scan'[p].stale = scan[p].stale
           /\ \A j \in Cases : IF j = k
                               THEN /\ scan'[p].seen[j] = None
                                    /\ scan'[p].notice[j] = ScanNotice(p, k, ok)
                               ELSE /\ scan'[p].seen[j] = scan[p].seen[j]
                                    /\ scan'[p].seenDue[j] = scan[p].seenDue[j]
                                    /\ scan'[p].notice[j] = scan[p].notice[j]
           /\ \A r \in Scans \ {p} : scan'[r] = scan[r]
           /\ UNCHANGED <<today, certVars, caseVars, request>>
<1>1. scan \in [Scans -> ScanType] /\ ReminderTypeOK
  BY DEF WellTyped, ReminderTypeOK
<1>2. /\ scan'[p] = [Processed(p, k) EXCEPT !.notice[k] = ScanNotice(p, k, ok)]
      /\ \A r \in Scans \ {p} : scan'[r] = scan[r]
  BY <1>1 DEF ScanSend, ScanNotice
<1>3. scan'[p] = [scan[p] EXCEPT !.seen = [scan[p].seen EXCEPT ![k] = None],
                                !.seenDue = [scan[p].seenDue EXCEPT ![k] = 0],
                                !.notice = [scan[p].notice EXCEPT ![k] = ScanNotice(p, k, ok)]]
  <2>1. Processed(p, k).notice = scan[p].notice
    BY <1>1, ProcessedFields
  <2> QED BY <1>1, <1>2, <2>1, ProcessedFields DEF ScanType
<1>4. scan[p].pc = "send" /\ p \in Daily
  BY ScanProcesses DEF ScanSend
<1> DEFINE seen == [scan[p].seen EXCEPT ![k] = None]
           seenDue == [scan[p].seenDue EXCEPT ![k] = 0]
           notice == [scan[p].notice EXCEPT ![k] = ScanNotice(p, k, ok)]
<1>5. /\ scan'[p].pc = scan[p].pc /\ scan'[p].day = scan[p].day
      /\ scan'[p].new = scan[p].new /\ scan'[p].locked = scan[p].locked
      /\ scan'[p].held = scan[p].held /\ scan'[p].stale = scan[p].stale
      /\ scan'[p].seen = seen /\ scan'[p].seenDue = seenDue /\ scan'[p].notice = notice
  <2> HIDE DEF seen, seenDue, notice
  <2> QED BY <1>1, <1>3 DEF ScanType, seen, seenDue, notice
<1>6. /\ scan[p].seen \in [Cases -> Dispatchable \cup {None}]
      /\ scan[p].seenDue \in [Cases -> 0..MaxDue] /\ scan[p].notice \in [Cases -> Notice]
  BY <1>1 DEF ScanType
<1>7. \A j \in Cases : IF j = k
                       THEN /\ scan'[p].seen[j] = None
                            /\ scan'[p].notice[j] = ScanNotice(p, k, ok)
                       ELSE /\ scan'[p].seen[j] = scan[p].seen[j]
                            /\ scan'[p].seenDue[j] = scan[p].seenDue[j]
                            /\ scan'[p].notice[j] = scan[p].notice[j]
  BY <1>5, <1>6
<1>8. UNCHANGED <<today, certVars, caseVars, request>>
  BY DEF ScanSend
<1> QED BY <1>2, <1>4, <1>5, <1>7, <1>8

LEMMA ScanCommits ==
    ASSUME WellTyped, NEW p \in Scans, ScanCommit(p)
    PROVE  /\ scan'[p] = IdleScan /\ \A r \in Scans \ {p} : scan'[r] = scan[r]
           /\ events' = events \cup EventsWritten(p)
           /\ \A k \in Cases :
                 /\ caseStatus'[k] = StatusWritten(p)[k]
                 /\ \/ k \in scan[p].held /\ caseStatus'[k] \in Closed
                    \/ /\ k \in MovedBy(p) \ scan[p].held /\ CaseFree(k, None, p)
                       /\ scan[p].notice[k].stage \in Stages
                       /\ caseStatus'[k] = StatusAfter(scan[p].notice[k].stage)
                    \/ /\ k \in scan[p].new \ (MovedBy(p) \cup scan[p].held)
                       /\ caseStatus[k] = "NONE" /\ caseStatus'[k] = "PENDING"
                    \/ /\ k \notin scan[p].held \cup MovedBy(p) \cup scan[p].new
                       /\ caseStatus'[k] = caseStatus[k]
           /\ UNCHANGED <<today, validTo, left, request>>
<1>0. scan[p] \in ScanType /\ ScanOK(scan[p], p \in Daily) /\ caseStatus \in [Cases -> CaseStatus]
  BY DEF WellTyped, ReminderTypeOK
<1>1. ASSUME NEW k \in Cases
      PROVE  /\ caseStatus'[k] = StatusWritten(p)[k]
             /\ \/ k \in scan[p].held /\ caseStatus'[k] \in Closed
                \/ /\ k \in MovedBy(p) \ scan[p].held /\ CaseFree(k, None, p)
                   /\ scan[p].notice[k].stage \in Stages
                   /\ caseStatus'[k] = StatusAfter(scan[p].notice[k].stage)
                \/ /\ k \in scan[p].new \ (MovedBy(p) \cup scan[p].held)
                   /\ caseStatus[k] = "NONE" /\ caseStatus'[k] = "PENDING"
                \/ /\ k \notin scan[p].held \cup MovedBy(p) \cup scan[p].new
                   /\ caseStatus'[k] = caseStatus[k]
  <2>1. caseStatus' = StatusWritten(p) /\ \A j \in MovedBy(p) : CaseFree(j, None, p)
    BY DEF ScanCommit
  <2>2. \A j \in scan[p].new : caseStatus[j] = "NONE"
    BY DEF ScanCommit, ScanFits
  <2>3. k \in scan[p].held => scan[p].stale[CertOf(k)] \in Closed
    BY <1>0, CasesArePairs DEF ScanType, ScanOK
  <2>4. k \in MovedBy(p) => scan[p].notice[k].stage \in Stages
    BY <1>0 DEF MovedBy, ScanType, ScanOK, Notice, NoticeOK
  <2>5. StatusWritten(p)[k] = IF k \in scan[p].held THEN scan[p].stale[CertOf(k)]
                              ELSE IF k \in MovedBy(p) THEN StatusAfter(scan[p].notice[k].stage)
                              ELSE IF k \in scan[p].new THEN "PENDING" ELSE caseStatus[k]
    BY DEF StatusWritten
  <2> QED BY <2>1, <2>2, <2>3, <2>4, <2>5
<1> QED BY <1>1, ScanEnds DEF ScanCommit

-----------------------------------------------------------------------------
(***************************************************************************)
(* The row locks of the cases, and what they protect                       *)
(***************************************************************************)

\* A case is locked by one transaction.
CaseLocks ==
    /\ \A s, q \in Requests : s # q => request[s].held \cap request[q].held = {}
    /\ \A s \in Requests, p \in Scans : request[s].held \cap scan[p].held = {}
    /\ \A p, r \in Scans : p # r => scan[p].held \cap scan[r].held = {}

\* A case that is locked is as open as it was when it was locked.
HeldIsOpen ==
    /\ \A s \in Requests : \A k \in request[s].held :
          /\ caseStatus[k] \in Open
          /\ request[s].action = "dispatch" => caseStatus[k] \in Dispatchable
    /\ \A p \in Scans : \A k \in scan[p].held : caseStatus[k] \in Open

\* What a scan n has read or sent a notice of exists: a case is never deleted.
About(n) == {k \in Cases : n.seen[k] # None \/ n.notice[k].sent # {}}
SeenExist == \A p \in Scans : \A k \in About(scan[p]) : caseStatus[k] # "NONE"

FollowUpInv == WellTyped /\ CaseLocks /\ HeldIsOpen /\ SeenExist

\* A step that locks no case and reads none, and writes no case that stays locked.
LEMMA LocksKept ==
    ASSUME FollowUpInv, WellTyped',
           \A q \in Requests :
               \/ request'[q].held = {}
               \/ request'[q].held = request[q].held /\ request'[q].action = request[q].action,
           \A p \in Scans : /\ scan'[p].held = {} \/ scan'[p].held = scan[p].held
                            /\ About(scan'[p]) \subseteq About(scan[p]),
           \A k \in Cases :
               \/ caseStatus'[k] = caseStatus[k]
               \/ /\ caseStatus'[k] # "NONE"
                  /\ \A q \in Requests : k \notin request'[q].held
                  /\ \A p \in Scans : k \notin scan'[p].held
    PROVE  FollowUpInv'
<1>1. CaseLocks'
  BY DEF FollowUpInv, CaseLocks
<1>2. HeldIsOpen'
  <2>1. ASSUME NEW q \in Requests, NEW k \in request'[q].held
        PROVE  /\ caseStatus'[k] \in Open
               /\ request'[q].action = "dispatch" => caseStatus'[k] \in Dispatchable
    <3>1. k \in Cases
      BY DEF WellTyped, ReminderTypeOK, RequestType
    <3> QED BY <2>1, <3>1 DEF FollowUpInv, HeldIsOpen
  <2>2. ASSUME NEW p \in Scans, NEW k \in scan'[p].held
        PROVE  caseStatus'[k] \in Open
    <3>1. k \in Cases
      BY DEF WellTyped, ReminderTypeOK, ScanType
    <3> QED BY <2>2, <3>1 DEF FollowUpInv, HeldIsOpen
  <2> QED BY <2>1, <2>2 DEF HeldIsOpen
<1>3. SeenExist'
  <2> SUFFICES ASSUME NEW p \in Scans, NEW k \in About(scan'[p])
               PROVE  caseStatus'[k] # "NONE"
    BY DEF SeenExist
  <2>1. k \in Cases /\ caseStatus[k] # "NONE"
    BY DEF FollowUpInv, SeenExist, About
  <2> QED BY <2>1
<1> QED BY <1>1, <1>2, <1>3 DEF FollowUpInv

\* Steps of a request that lock nothing.
LEMMA RequestLocksKept ==
    ASSUME FollowUpInv, WellTyped', NEW s \in Requests, request'[s].held = {},
           \A q \in Requests \ {s} : request'[q] = request[q], UNCHANGED scan,
           \A k \in Cases :
               \/ caseStatus'[k] = caseStatus[k]
               \/ k \in request[s].held /\ caseStatus'[k] # "NONE"
    PROVE  FollowUpInv'
<1>1. \A k \in Cases : k \in request[s].held =>
          /\ \A q \in Requests : k \notin request'[q].held
          /\ \A p \in Scans : k \notin scan'[p].held
  BY DEF FollowUpInv, CaseLocks
<1> QED BY <1>1, LocksKept

LEMMA RequestLocks ==
    ASSUME FollowUpInv, WellTyped', NEW s \in Requests, NEW K \in SUBSET Cases,
           request'[s].held = K, \A k \in K : CaseFree(k, s, None),
           \A k \in K : /\ caseStatus[k] \in Open
                        /\ request'[s].action = "dispatch" => caseStatus[k] \in Dispatchable,
           \A q \in Requests \ {s} : request'[q] = request[q],
           UNCHANGED <<caseStatus, scan>>
    PROVE  FollowUpInv'
<1>1. \A k \in K : /\ \A q \in Requests \ {s} : k \notin request[q].held
                   /\ \A p \in Scans : k \notin scan[p].held
  BY ReminderAssumption DEF CaseFree
<1>2. CaseLocks'
  BY <1>1 DEF FollowUpInv, CaseLocks
<1>3. HeldIsOpen'
  <2>1. ASSUME NEW q \in Requests, NEW k \in request'[q].held
        PROVE  /\ caseStatus'[k] \in Open
               /\ request'[q].action = "dispatch" => caseStatus'[k] \in Dispatchable
    <3>1. CASE q = s
      BY <2>1, <3>1
    <3>2. CASE q # s
      BY <2>1, <3>2 DEF FollowUpInv, HeldIsOpen
    <3> QED BY <3>1, <3>2
  <2> QED BY <2>1 DEF FollowUpInv, HeldIsOpen
<1>4. SeenExist'
  BY DEF FollowUpInv, SeenExist
<1> QED BY <1>2, <1>3, <1>4 DEF FollowUpInv

LEMMA FollowUpRequestStep ==
    ASSUME FollowUpInv, WellTyped', NEW s \in Requests,
           \/ LeaveBegin(s) \/ Return(s) \/ RequestClose(s) \/ RequestCommit(s) \/ RequestAbort(s)
           \/ DispatchCommit(s)
           \/ \E action \in LedgerActions, c \in Certs, v \in ValidTos : LedgerBegin(s, action, c, v)
    PROVE  FollowUpInv'
<1>0. WellTyped /\ request[s] \in RequestType
  BY DEF FollowUpInv, WellTyped, ReminderTypeOK
<1>1. CASE \/ LeaveBegin(s)
           \/ \E action \in LedgerActions, c \in Certs, v \in ValidTos : LedgerBegin(s, action, c, v)
  <2>1. /\ request'[s].held = {} /\ \A q \in Requests \ {s} : request'[q] = request[q]
        /\ UNCHANGED <<caseStatus, scan>>
    BY <1>0, <1>1, LedgerBegins DEF caseVars
  <2> QED BY <2>1, RequestLocksKept
<1>2. CASE Return(s)
  <2>1. UNCHANGED <<caseStatus, request, scan>>
    BY <1>2 DEF Return, caseVars
  <2> QED BY <2>1, LocksKept
<1>3. CASE RequestClose(s)
  <2> DEFINE K == OpenCases(request[s].certs)
  <2>1. /\ request'[s].held = K /\ \A q \in Requests \ {s} : request'[q] = request[q]
        /\ UNCHANGED <<caseStatus, scan>> /\ request'[s].action # "dispatch"
    BY <1>0, <1>3, RequestCloses, Names DEF caseVars
  <2>2. \A k \in K : CaseFree(k, s, None)
    BY <1>3 DEF RequestClose
  <2>3. K \in SUBSET Cases /\ \A k \in K : caseStatus[k] \in Open
    BY DEF OpenCases
  <2> HIDE DEF K
  <2> QED BY <2>1, <2>2, <2>3, RequestLocks
<1>4. CASE RequestCommit(s)
  <2>1. \A k \in Cases : k \in request[s].held \/ caseStatus'[k] = caseStatus[k]
    BY <1>0, <1>4, LedgerCommits
  <2>2. \A k \in request[s].held : caseStatus'[k] # "NONE"
    BY <1>0, <1>4, LedgerCommits, Names DEF RequestType
  <2> QED BY <1>0, <1>4, <2>1, <2>2, LedgerCommits, IdleFields, RequestLocksKept
<1>5. CASE RequestAbort(s)
  <2>1. /\ request'[s].held = {} /\ \A q \in Requests \ {s} : request'[q] = request[q]
        /\ UNCHANGED <<caseStatus, scan>>
    BY <1>0, <1>5, RequestEnds, IdleFields DEF RequestAbort, caseVars
  <2> QED BY <2>1, RequestLocksKept
<1>6. CASE DispatchCommit(s)
  <2>1. \A k \in Cases : \/ caseStatus'[k] = caseStatus[k]
                         \/ k \in request[s].held /\ caseStatus'[k] # "NONE"
    BY <1>0, <1>6, DispatchCommits, StatusAfterTyped
  <2> QED BY <1>0, <1>6, <2>1, DispatchCommits, IdleFields, RequestLocksKept
<1> QED BY <1>1, <1>2, <1>3, <1>4, <1>5, <1>6

LEMMA FollowUpCaseStep ==
    ASSUME FollowUpInv, WellTyped', NEW s \in Requests, NEW k \in Cases,
           \/ \E chs \in SUBSET Channels \ {{}} : \E ok \in SUBSET chs : DispatchSend(s, k, chs, ok)
           \/ \E answer \in Answers : Feedback(s, k, answer)
    PROVE  FollowUpInv'
<1>0. WellTyped
  BY DEF FollowUpInv
<1>1. ASSUME NEW chs \in SUBSET Channels, NEW ok \in SUBSET chs, DispatchSend(s, k, chs, ok)
      PROVE  FollowUpInv'
  <2>1. /\ request'[s].held = {k} /\ \A q \in Requests \ {s} : request'[q] = request[q]
        /\ UNCHANGED <<caseStatus, scan>>
    BY <1>0, <1>1, DispatchSends DEF caseVars
  <2>2. CaseFree(k, s, None) /\ caseStatus[k] \in Dispatchable /\ caseStatus[k] \in Open
    BY <1>1, Names DEF DispatchSend
  <2> QED BY <2>1, <2>2, RequestLocks
<1>2. ASSUME NEW answer \in Answers, Feedback(s, k, answer)
      PROVE  FollowUpInv'
  <2>1. /\ UNCHANGED <<request, scan>> /\ request[s].held = {}
        /\ \A q \in Requests \ {s} : k \notin request[q].held
        /\ \A p \in Scans : k \notin scan[p].held
    BY <1>0, <1>2, ReminderAssumption DEF Feedback, CaseFree, WellTyped, RequestOK
  <2>2. \A j \in Cases : caseStatus'[j] = caseStatus[j] \/ (j = k /\ caseStatus'[j] # "NONE")
    BY <1>0, <1>2, FeedbackTyped
  <2> QED BY <2>1, <2>2, LocksKept
<1> QED BY <1>1, <1>2

LEMMA FollowUpScanStep ==
    ASSUME FollowUpInv, WellTyped', NEW p \in Scans,
           \/ ScanRefresh(p) \/ ScanRead(p) \/ ScanCommit(p) \/ ScanAbort(p)
           \/ \E date \in Days : ScanCreate(p, date)
           \/ \E k \in Cases : ScanClose(p, k) \/ \E ok \in SUBSET Channels : ScanSend(p, k, ok)
    PROVE  FollowUpInv'
<1>0. WellTyped
  BY DEF FollowUpInv
<1>1. CASE ScanRefresh(p)
  <2>1. About(scan'[p]) = {}
    BY <1>0, <1>1, ScanRefreshes, IdleFields DEF About
  <2> QED BY <1>0, <1>1, <2>1, ScanRefreshes, LocksKept DEF caseVars
<1>2. ASSUME NEW date \in Days, ScanCreate(p, date) PROVE FollowUpInv'
  <2>1. About(scan'[p]) = About(scan[p])
    BY <1>0, <1>2, ScanCreates DEF About
  <2> QED BY <1>0, <1>2, <2>1, ScanCreates, LocksKept DEF caseVars
<1>3. CASE ScanAbort(p)
  <2>1. /\ scan'[p] = IdleScan /\ \A r \in Scans \ {p} : scan'[r] = scan[r]
        /\ UNCHANGED <<caseStatus, request>>
    BY <1>0, <1>3, ScanEnds DEF ScanAbort, caseVars
  <2>2. About(scan'[p]) = {} /\ scan'[p].held = {}
    BY <2>1, IdleFields DEF About
  <2> QED BY <2>1, <2>2, LocksKept
<1>4. CASE ScanCommit(p)
  <2>1. /\ scan'[p] = IdleScan /\ \A r \in Scans \ {p} : scan'[r] = scan[r]
        /\ UNCHANGED request
    BY <1>0, <1>4, ScanCommits
  <2>2. About(scan'[p]) = {} /\ scan'[p].held = {}
    BY <2>1, IdleFields DEF About
  <2>3. ASSUME NEW k \in Cases
        PROVE  \/ caseStatus'[k] = caseStatus[k]
               \/ /\ caseStatus'[k] # "NONE"
                  /\ \A q \in Requests : k \notin request[q].held
                  /\ \A r \in Scans \ {p} : k \notin scan[r].held
    <3>1. CASE k \in scan[p].held /\ caseStatus'[k] \in Closed
      BY <3>1, Names DEF FollowUpInv, CaseLocks
    <3>2. CASE /\ k \in MovedBy(p) \ scan[p].held /\ CaseFree(k, None, p)
               /\ scan[p].notice[k].stage \in Stages
               /\ caseStatus'[k] = StatusAfter(scan[p].notice[k].stage)
      BY <3>2, StatusAfterTyped, ReminderAssumption DEF CaseFree
    <3>3. CASE caseStatus[k] = "NONE" /\ caseStatus'[k] = "PENDING"
      BY <3>3, Names DEF FollowUpInv, HeldIsOpen
    <3> QED BY <1>0, <1>4, <3>1, <3>2, <3>3, ScanCommits
  <2> QED BY <2>1, <2>2, <2>3, LocksKept
<1>5. CASE ScanRead(p)
  <2>1. /\ scan'[p].held = {} /\ \A r \in Scans \ {p} : scan'[r] = scan[r]
        /\ UNCHANGED <<caseStatus, request>>
    BY <1>0, <1>5, ScanReads DEF caseVars
  <2>2. \A r \in Scans : scan'[r].held = {} \/ scan'[r].held = scan[r].held
    BY <2>1
  <2>3. CaseLocks'
    BY <2>1, <2>2 DEF FollowUpInv, CaseLocks
  <2>4. HeldIsOpen'
    BY <2>1, <2>2 DEF FollowUpInv, HeldIsOpen
  <2>5. \A k \in About(scan'[p]) : caseStatus[k] \in Dispatchable
    BY <1>0, <1>5, ScanReads, IdleFields DEF About
  <2>6. SeenExist'
    BY <2>1, <2>5, Names DEF FollowUpInv, SeenExist
  <2> QED BY <2>3, <2>4, <2>6 DEF FollowUpInv
<1>6. ASSUME NEW k \in Cases, ScanClose(p, k) PROVE FollowUpInv'
  <2>1. /\ \A r \in Scans \ {p} : scan'[r] = scan[r]
        /\ scan'[p].held = scan[p].held \cup OpenCases({CertOf(k)})
        /\ UNCHANGED <<caseStatus, request>>
    BY <1>0, <1>6, ScanCloses DEF caseVars
  <2>2. \A j \in OpenCases({CertOf(k)}) :
            /\ caseStatus[j] \in Open /\ \A q \in Requests : j \notin request[q].held
            /\ \A r \in Scans \ {p} : j \notin scan[r].held
    BY <1>6, ReminderAssumption DEF ScanClose, CaseFree, OpenCases
  <2> DEFINE K == OpenCases({CertOf(k)})
  <2> HIDE DEF K
  <2>3. CaseLocks'
    <3>1. \A r \in Scans : scan'[r].held = IF r = p THEN scan[p].held \cup K ELSE scan[r].held
      BY <2>1 DEF K
    <3>2. \A j \in K : /\ \A q \in Requests : j \notin request[q].held
                       /\ \A r \in Scans \ {p} : j \notin scan[r].held
      BY <2>2 DEF K
    <3> QED BY <2>1, <3>1, <3>2 DEF FollowUpInv, CaseLocks
  <2>4. HeldIsOpen'
    <3>1. ASSUME NEW r \in Scans, NEW j \in scan'[r].held PROVE caseStatus[j] \in Open
      BY <2>1, <2>2, <3>1 DEF FollowUpInv, HeldIsOpen
    <3> QED BY <2>1, <3>1 DEF FollowUpInv, HeldIsOpen
  <2>5. About(scan'[p]) \subseteq About(scan[p])
    BY <1>0, <1>6, ScanCloses DEF About
  <2>6. SeenExist'
    BY <2>1, <2>5 DEF FollowUpInv, SeenExist
  <2> QED BY <2>3, <2>4, <2>6 DEF FollowUpInv
<1>7. ASSUME NEW k \in Cases, NEW ok \in SUBSET Channels, ScanSend(p, k, ok) PROVE FollowUpInv'
  <2>1. k \in About(scan[p])
    BY <1>7 DEF ScanSend, About
  <2>2. About(scan'[p]) \subseteq About(scan[p])
    BY <1>0, <1>7, <2>1, ScanSends DEF About
  <2> QED BY <1>0, <1>7, <2>2, ScanSends, LocksKept DEF caseVars
<1> QED BY <1>1, <1>2, <1>3, <1>4, <1>5, <1>6, <1>7

LEMMA FollowUpStep == ASSUME FollowUpInv, [Next]_vars PROVE FollowUpInv'
<1>0. WellTyped'
  BY WellTypedStep DEF FollowUpInv
<1>1. CASE NextDay
  BY <1>0, <1>1, LocksKept DEF NextDay, caseVars
<1>2. CASE UNCHANGED vars
  BY <1>0, <1>2, LocksKept DEF vars
<1>3. ASSUME Next PROVE FollowUpInv'
  BY <1>0, <1>1, <1>3, FollowUpRequestStep, FollowUpCaseStep, FollowUpScanStep DEF Next
<1> QED BY <1>2, <1>3

LEMMA FollowUpInit == Init => FollowUpInv
<1> SUFFICES ASSUME Init PROVE FollowUpInv
  OBVIOUS
<1>1. \A s \in Requests : request[s].held = {}
  BY IdleFields DEF Init
<1>2. \A p \in Scans : scan[p].held = {} /\ About(scan[p]) = {}
  BY IdleFields DEF Init, About
<1>3. CaseLocks /\ HeldIsOpen /\ SeenExist
  BY <1>1, <1>2 DEF CaseLocks, HeldIsOpen, SeenExist
<1> QED BY <1>3, WellTypedInit DEF FollowUpInv

LEMMA FollowUpHolds == Spec => []FollowUpInv
BY FollowUpInit, FollowUpStep, PTL DEF Spec

-----------------------------------------------------------------------------
(***************************************************************************)
(* Closed cases                                                            *)
(***************************************************************************)

\* A scan by hand has nothing to say about the cases there are.
LEMMA ByHand ==
    ASSUME WellTyped, Daily = {}, NEW p \in Scans
    PROVE  /\ scan[p].held = {} /\ MovedBy(p) = {} /\ EventsWritten(p) = {}
           /\ \A k \in Cases : scan[p].seen[k] = None /\ scan[p].notice[k] = NoNotice
<1>1. scan[p].held = {} /\ \A k \in Cases : scan[p].seen[k] = None /\ scan[p].notice[k] = NoNotice
  BY DEF WellTyped, ScanOK
<1> QED BY <1>1, IdleFields DEF MovedBy, EventsWritten, EventsOf

LEMMA ClosedStep ==
    ASSUME FollowUpInv, Daily = {}, [Next]_vars, NEW k \in Cases, caseStatus[k] \in Closed
    PROVE  caseStatus'[k] = caseStatus[k]
<1>0. WellTyped /\ caseStatus[k] \notin Open /\ caseStatus[k] # "NONE"
  BY Names DEF FollowUpInv
<1>1. \A s \in Requests : k \notin request[s].held
  BY <1>0 DEF FollowUpInv, HeldIsOpen
<1>2. ASSUME NEW s \in Requests, RequestCommit(s) \/ DispatchCommit(s)
      PROVE  caseStatus'[k] = caseStatus[k]
  BY <1>0, <1>1, <1>2, LedgerCommits, DispatchCommits
<1>3. ASSUME NEW s \in Requests, NEW j \in Cases, NEW answer \in Answers, Feedback(s, j, answer)
      PROVE  caseStatus'[k] = caseStatus[k]
  BY <1>0, <1>3, FeedbackTyped
<1>4. ASSUME NEW p \in Scans, ScanCommit(p)
      PROVE  caseStatus'[k] = caseStatus[k]
  BY <1>0, <1>4, ScanCommits, ByHand
<1>5. ASSUME NEW s \in Requests, RequestClose(s) \/ RequestAbort(s) \/ LeaveBegin(s) \/ Return(s)
      PROVE  UNCHANGED caseStatus
  BY <1>5 DEF RequestClose, RequestAbort, LeaveBegin, Return, caseVars
<1>6. ASSUME NEW s \in Requests, NEW action, NEW c, NEW v, LedgerBegin(s, action, c, v)
      PROVE  UNCHANGED caseStatus
  BY <1>6 DEF LedgerBegin, caseVars
<1>7. ASSUME NEW s \in Requests, NEW j \in Cases, NEW chs, NEW ok, DispatchSend(s, j, chs, ok)
      PROVE  UNCHANGED caseStatus
  BY <1>7 DEF DispatchSend, caseVars
<1>8. ASSUME NEW p \in Scans,
             \/ ScanRefresh(p) \/ ScanRead(p) \/ ScanAbort(p)
             \/ \E date \in Days : ScanCreate(p, date)
             \/ \E j \in Cases : ScanClose(p, j) \/ \E ok \in SUBSET Channels : ScanSend(p, j, ok)
      PROVE  UNCHANGED caseStatus
  BY <1>8 DEF ScanRefresh, ScanRead, ScanAbort, ScanCreate, ScanClose, ScanSend, caseVars
<1>9. ASSUME NextDay \/ UNCHANGED vars
      PROVE  UNCHANGED caseStatus
  BY <1>9 DEF NextDay, vars, caseVars
<1>10. ASSUME Next PROVE caseStatus'[k] = caseStatus[k]
  BY <1>2, <1>3, <1>4, <1>5, <1>6, <1>7, <1>8, <1>9, <1>10 DEF Next
<1> QED BY <1>9, <1>10

\* While cases are opened by scans by hand only, a closed case stays closed: each
\* request that writes a case holds its lock since it found the case open
\* (ClosedCaseStaysClosed).  The commit of a daily scan holds no lock since it read.
THEOREM ClosedForGood ==
    ASSUME Daily = {}
    PROVE  Spec => ClosedCaseStaysClosed
<1>1. ASSUME FollowUpInv, [Next]_vars
      PROVE  [\A k \in Cases : caseStatus[k] \in Closed => caseStatus'[k] = caseStatus[k]]_vars
  BY <1>1, ClosedStep
<1> QED BY <1>1, FollowUpHolds, PTL DEF Spec, ClosedCaseStaysClosed

=============================================================================
