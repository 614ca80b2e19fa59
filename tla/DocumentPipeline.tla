-------------------------- MODULE DocumentPipeline --------------------------
(***************************************************************************)
(* The life of a certificate document, from the upload intent to the      *)
(* human review, as it is shared by the HTTP handlers of                   *)
(* api/routes/documents.py and api/routes/reviews.py, the recognition      *)
(* worker of tasks/documents.py and services/recognition_service.py, and   *)
(* the periodic sweep of stale recognitions.                               *)
(*                                                                         *)
(* PostgreSQL runs at READ COMMITTED and the handlers read the document    *)
(* row without a lock.  A handler is therefore a session of several steps: *)
(* it reads a row (its snapshot is kept in the session), calls out, and    *)
(* commits.  The commit writes a column only where the value differs from  *)
(* the snapshot, which is how SQLAlchemy flushes a dirty object; it does   *)
(* not look at the row again, but it waits while another transaction has   *)
(* updated the row and not committed.  Only review rows are locked by a    *)
(* SELECT ... FOR UPDATE, while a decision is taken.                       *)
(***************************************************************************)
EXTENDS Naturals, FiniteSets

CONSTANTS
    Docs,           \* certificate documents
    Reviews,        \* identities a new review task can take
    Sessions,       \* HTTP requests in flight in the API process
    Workers,        \* slots of the Celery worker (helm: concurrency 2)
    MaxRetries,     \* max_retries of the Celery task
    MaxDispatches,  \* bound: recognize-async requests accepted in a behaviour
    MaxVersion      \* bound: versions of one review that HR still acts on

ASSUME RetriesAssumption == MaxRetries \in Nat
ASSUME SlotsAssumption == IsFiniteSet(Workers)

NoDoc    == "no document"
NoReview == "no review"
NoStatus == "no status"

DocStatus == {"ABSENT", "PENDING_UPLOAD", "UPLOADED", "PARSING",
              "PENDING_REVIEW", "CONFIRMED", "FAILED", "ARCHIVED"}
ReviewStatus == {"NONE", "PENDING", "NEEDS_INFO", "APPROVED", "REJECTED"}

OpenReview   == {"PENDING", "NEEDS_INFO"}      \* _OPEN_REVIEW_STATUSES
ClosedReview == {"APPROVED", "REJECTED"}
ClosedDoc    == {"CONFIRMED", "ARCHIVED"}      \* _CLOSED_STATUSES
InWorkflow   == {"PARSING", "PENDING_REVIEW", "CONFIRMED"}

VARIABLES
    docStatus,   \* certificate_documents.status
    docSha,      \* certificate_documents.sha256 is set
    docStale,    \* updated_at lies beyond recognition_parsing_timeout_minutes
    rvStatus,    \* review_tasks.status ("NONE": no such row yet)
    rvDoc,       \* review_tasks.document_id
    rvVersion,   \* review_tasks.updated_at, as a count of its updates
    issued,      \* approvals of the review that issued certificates
    queue,       \* messages run_certificate_recognition, by document and retries
    dispatches,  \* recognize-async requests accepted so far (bounded)
    session,     \* the HTTP requests in flight
    worker       \* the recognition tasks running

vars == <<docStatus, docSha, docStale, rvStatus, rvDoc, rvVersion, issued,
          queue, dispatches, session, worker>>
docVars    == <<docStatus, docSha, docStale>>
reviewVars == <<rvStatus, rvDoc, rvVersion, issued>>
queueVars  == <<queue, dispatches>>

(***************************************************************************)
(* A session remembers the request it serves, the review version HR saw,   *)
(* and the snapshot of the document row it read.                           *)
(***************************************************************************)
Ops == {"none", "confirm", "recognize", "approve", "REJECTED", "NEEDS_INFO"}
SessionPc == {"idle", "asked", "locked", "read", "publish"}

SessionType ==
    [op: Ops, pc: SessionPc, doc: Docs \cup {NoDoc},
     review: Reviews \cup {NoReview}, version: Nat,
     seen: DocStatus \cup {NoStatus}]
IdleSession ==
    [op |-> "none", pc |-> "idle", doc |-> NoDoc,
     review |-> NoReview, version |-> 0, seen |-> NoStatus]

WorkerPc == {"idle", "claim", "load", "extract", "close", "commit", "mark", "fail"}

WorkerType ==
    [pc: WorkerPc, doc: Docs \cup {NoDoc}, tries: 0..MaxRetries,
     seen: DocStatus \cup {NoStatus}, closing: SUBSET Reviews, passes: {0, 1, 2}]
IdleWorker ==
    [pc |-> "idle", doc |-> NoDoc, tries |-> 0,
     seen |-> NoStatus, closing |-> {}, passes |-> 0]

Init ==
    /\ docStatus = [d \in Docs |-> "ABSENT"]
    /\ docSha = [d \in Docs |-> FALSE]
    /\ docStale = [d \in Docs |-> FALSE]
    /\ rvStatus = [r \in Reviews |-> "NONE"]
    /\ rvDoc = [r \in Reviews |-> NoDoc]
    /\ rvVersion = [r \in Reviews |-> 0]
    /\ issued = [r \in Reviews |-> 0]
    /\ queue = [d \in Docs |-> [t \in 0..MaxRetries |-> 0]]
    /\ dispatches = 0
    /\ session = [s \in Sessions |-> IdleSession]
    /\ worker = [w \in Workers |-> IdleWorker]

-----------------------------------------------------------------------------
(***************************************************************************)
(* Helpers                                                                 *)
(***************************************************************************)

\* A recognition about to commit has updated the document row (flushed before
\* the reviews) and holds its lock, unless the status it saw was already right.
DocLocked(d) ==
    \E w \in Workers : /\ worker[w].pc = "commit" /\ worker[w].doc = d
                      /\ worker[w].seen # "PENDING_REVIEW"

\* The UPDATE of document d: the status goes out only when it differs from the
\* snapshot; any UPDATE refreshes updated_at.
Update(d, seen, new, otherColumn) ==
    /\ docStatus' = IF new # seen THEN [docStatus EXCEPT ![d] = new] ELSE docStatus
    /\ docStale' = IF new # seen \/ otherColumn
                   THEN [docStale EXCEPT ![d] = FALSE] ELSE docStale

\* A commit that updates the row waits for its lock.
Flush(d, seen, new, otherColumn) ==
    /\ new # seen \/ otherColumn => ~DocLocked(d)
    /\ Update(d, seen, new, otherColumn)

\* Mutant: a failed upload may be recognized.
RecognizableWithoutUpload(d) ==
    docStatus[d] \notin {"ABSENT", "PENDING_UPLOAD"} \cup ClosedDoc

\* _assert_recognizable and the first two guards of recognize_document_async.
Recognizable(d) ==
    /\ docStatus[d] \notin {"ABSENT", "PENDING_UPLOAD"}
    /\ ~(docStatus[d] = "FAILED" /\ ~docSha[d])
    /\ docStatus[d] \notin ClosedDoc

\* SELECT ... FOR UPDATE is held from the version check to the commit.
Locked(r) == \E s \in Sessions : session[s].pc = "locked" /\ session[s].review = r

\* The AI result inserted before the reviews are closed holds FOR KEY SHARE on
\* the document (its foreign key): a FOR UPDATE SKIP LOCKED passes over it.
KeyShared(d) ==
    \E w \in Workers : worker[w].pc \in {"close", "commit"} /\ worker[w].doc = d

OpenReviewsOf(d) == {r \in Reviews : rvDoc[r] = d /\ rvStatus[r] \in OpenReview}

EndSession(s) == session' = [session EXCEPT ![s] = IdleSession]
EndWorker(w)  == worker' = [worker EXCEPT ![w] = IdleWorker]

Publish(d, t) == queue' = [queue EXCEPT ![d][t] = @ + 1]

-----------------------------------------------------------------------------
(***************************************************************************)
(* Upload: create_upload_intent and confirm_document_upload.  Between the  *)
(* read and the commit the handler asks the object storage for the object  *)
(* and hashes it.                                                          *)
(***************************************************************************)

CreateUploadIntent(d) ==
    /\ docStatus[d] = "ABSENT"
    /\ docStatus' = [docStatus EXCEPT ![d] = "PENDING_UPLOAD"]
    /\ UNCHANGED <<docSha, docStale, reviewVars, queueVars, session, worker>>

ConfirmRead(s, d) ==
    /\ session[s].pc = "idle"
    /\ docStatus[d] # "ABSENT"
    /\ docStatus[d] \notin InWorkflow \cup {"ARCHIVED"}
    /\ ~(docStatus[d] = "UPLOADED" /\ docSha[d])
    /\ session' = [session EXCEPT ![s] =
           [IdleSession EXCEPT !.op = "confirm", !.pc = "read",
                               !.doc = d, !.seen = docStatus[d]]]
    /\ UNCHANGED <<docVars, reviewVars, queueVars, worker>>

ConfirmCommit(s) ==
    /\ session[s].op = "confirm" /\ session[s].pc = "read"
    /\ Flush(session[s].doc, session[s].seen, "UPLOADED", TRUE)
    /\ docSha' = [docSha EXCEPT ![session[s].doc] = TRUE]
    /\ EndSession(s)
    /\ UNCHANGED <<reviewVars, queueVars, worker>>

ConfirmFail(s) ==
    /\ session[s].op = "confirm" /\ session[s].pc = "read"
    /\ \E newReason \in BOOLEAN :
           Flush(session[s].doc, session[s].seen, "FAILED", newReason)
    /\ EndSession(s)
    /\ UNCHANGED <<docSha, reviewVars, queueVars, worker>>

(***************************************************************************)
(* recognize_document_async: read and check, commit PARSING, and only then *)
(* hand the task to Celery.  A stale PARSING may be dispatched again; its  *)
(* commit writes no column and leaves updated_at alone.                    *)
(***************************************************************************)

RecognizeRead(s, d) ==
    /\ session[s].pc = "idle"
    /\ dispatches < MaxDispatches
    /\ Recognizable(d)
    /\ docStatus[d] = "PARSING" => docStale[d]
    /\ dispatches' = dispatches + 1
    /\ session' = [session EXCEPT ![s] =
           [IdleSession EXCEPT !.op = "recognize", !.pc = "read",
                               !.doc = d, !.seen = docStatus[d]]]
    /\ UNCHANGED <<docVars, reviewVars, queue, worker>>

RecognizeCommit(s) ==
    /\ session[s].op = "recognize" /\ session[s].pc = "read"
    /\ Flush(session[s].doc, session[s].seen, "PARSING", FALSE)
    /\ session' = [session EXCEPT ![s] = [@ EXCEPT !.pc = "publish"]]
    /\ UNCHANGED <<docSha, reviewVars, queueVars, worker>>

RecognizePublish(s) ==
    /\ session[s].pc = "publish"
    /\ Publish(session[s].doc, 0)
    /\ EndSession(s)
    /\ UNCHANGED <<docVars, reviewVars, dispatches, worker>>

(***************************************************************************)
(* Review decisions.  HR opens a review (ReviewAsk) and later sends the    *)
(* decision with the updated_at the page shows; ReviewLock takes the row   *)
(* lock and makes every check, ReviewCommit writes.                        *)
(***************************************************************************)

ReviewAsk(s, r, op) ==
    /\ session[s].pc = "idle"
    /\ rvStatus[r] # "NONE"
    /\ op = "NEEDS_INFO" => rvVersion[r] < MaxVersion
    /\ session' = [session EXCEPT ![s] =
           [IdleSession EXCEPT !.op = op, !.pc = "asked",
                               !.review = r, !.version = rvVersion[r]]]
    /\ UNCHANGED <<docVars, reviewVars, queueVars, worker>>

\* Mutant: the status of the review is not checked again under the lock.
DecisionAllowedOnClosed(s) ==
    LET r == session[s].review IN
    /\ rvVersion[r] = session[s].version
    /\ session[s].op = "approve" => docStatus[rvDoc[r]] = "PENDING_REVIEW"

\* _assert_review_task_is_current, _assert_review_open and, for an approval
\* only, _assert_document_pending_review.
DecisionAllowed(s) ==
    LET r == session[s].review IN
    /\ rvVersion[r] = session[s].version
    /\ rvStatus[r] \in OpenReview
    /\ session[s].op = "approve" => docStatus[rvDoc[r]] = "PENDING_REVIEW"

\* Mutant: the review is read without FOR UPDATE.
ReviewLockUnlocked(s) ==
    /\ session[s].pc = "asked"
    /\ DecisionAllowed(s)
    /\ LET d == rvDoc[session[s].review] IN
       session' = [session EXCEPT ![s] =
           [@ EXCEPT !.pc = "locked", !.doc = d, !.seen = docStatus[d]]]
    /\ UNCHANGED <<docVars, reviewVars, queueVars, worker>>

ReviewLock(s) ==
    /\ session[s].pc = "asked"
    /\ ~Locked(session[s].review)
    /\ DecisionAllowed(s)
    /\ LET d == rvDoc[session[s].review] IN
       session' = [session EXCEPT ![s] =
           [@ EXCEPT !.pc = "locked", !.doc = d, !.seen = docStatus[d]]]
    /\ UNCHANGED <<docVars, reviewVars, queueVars, worker>>

\* Mutant: a refused decision is answered but its transaction is not closed,
\* and the review stays locked.
ReviewRefuseLeaks(s) ==
    /\ session[s].pc = "asked"
    /\ ~Locked(session[s].review)
    /\ ~DecisionAllowed(s)
    /\ session' = [session EXCEPT ![s] =
           [IdleSession EXCEPT !.pc = "locked", !.review = session[s].review]]
    /\ UNCHANGED <<docVars, reviewVars, queueVars, worker>>

ReviewRefuse(s) ==
    /\ session[s].pc = "asked"
    /\ ~Locked(session[s].review)
    /\ ~DecisionAllowed(s)
    /\ EndSession(s)
    /\ UNCHANGED <<docVars, reviewVars, queueVars, worker>>

\* The new row of a decided review: any UPDATE is a new version of it.
Decide(r, status) ==
    /\ rvStatus' = [rvStatus EXCEPT ![r] = status]
    /\ rvVersion' = [rvVersion EXCEPT ![r] = @ + 1]

Approve(s) ==
    /\ session[s].pc = "locked" /\ session[s].op = "approve"
    /\ Decide(session[s].review, "APPROVED")
    /\ issued' = [issued EXCEPT ![session[s].review] = @ + 1]
    /\ Flush(session[s].doc, session[s].seen, "CONFIRMED", FALSE)
    /\ EndSession(s)
    /\ UNCHANGED <<docSha, rvDoc, queueVars, worker>>

\* Mutant: a rejection leaves the document waiting for review.
RejectReviewOnly(s) ==
    /\ session[s].pc = "locked" /\ session[s].op = "REJECTED"
    /\ Decide(session[s].review, "REJECTED")
    /\ EndSession(s)
    /\ UNCHANGED <<docVars, rvDoc, issued, queueVars, worker>>

Reject(s) ==
    /\ session[s].pc = "locked" /\ session[s].op = "REJECTED"
    /\ Decide(session[s].review, "REJECTED")
    /\ \E newReason \in BOOLEAN :
           Flush(session[s].doc, session[s].seen, "FAILED", newReason)
    /\ EndSession(s)
    /\ UNCHANGED <<docSha, rvDoc, issued, queueVars, worker>>

AskForInfo(s) ==
    /\ session[s].pc = "locked" /\ session[s].op = "NEEDS_INFO"
    /\ Decide(session[s].review, "NEEDS_INFO")
    /\ Flush(session[s].doc, session[s].seen, "PENDING_REVIEW", FALSE)
    /\ EndSession(s)
    /\ UNCHANGED <<docSha, rvDoc, issued, queueVars, worker>>

\* The request ends without its commit: an error of the database or the
\* broker, a refused certificate, the victim of a deadlock, a killed process.
\* After the commit of PARSING this leaves no message behind.
SessionAbort(s) ==
    /\ session[s].pc \in {"read", "locked", "publish"}
    /\ EndSession(s)
    /\ UNCHANGED <<docVars, reviewVars, queueVars, worker>>

-----------------------------------------------------------------------------
(***************************************************************************)
(* The recognition task.  The message is acknowledged when it is received  *)
(* (task_acks_late is not set).                                            *)
(***************************************************************************)

\* Mutant: a message is delivered again after its acknowledgement.
ReceiveTwice(w, d, t) ==
    /\ worker[w].pc = "idle"
    /\ queue' = [queue EXCEPT ![d][t] = @ - 1]
    /\ UNCHANGED <<docVars, reviewVars, dispatches, session, worker>>

\* The task skips a document already processed, and ends on one that is not
\* recognizable; run_recognition reads the same cached row.
Receive(w, d, t) ==
    /\ worker[w].pc = "idle"
    /\ queue[d][t] > 0
    /\ queue' = [queue EXCEPT ![d][t] = @ - 1]
    /\ IF Recognizable(d) /\ docStatus[d] # "PENDING_REVIEW"
       THEN worker' = [worker EXCEPT ![w] =
                [IdleWorker EXCEPT !.pc = "claim", !.doc = d, !.tries = t,
                                   !.seen = docStatus[d]]]
       ELSE UNCHANGED worker
    /\ UNCHANGED <<docVars, reviewVars, dispatches, session>>

Claim(w) ==
    /\ worker[w].pc = "claim"
    /\ Flush(worker[w].doc, worker[w].seen, "PARSING", FALSE)
    /\ worker' = [worker EXCEPT ![w] = [@ EXCEPT !.pc = "load"]]
    /\ UNCHANGED <<docSha, reviewVars, queueVars, session>>

\* The commit expired the row; reading storage_bucket loads it again.
Load(w) ==
    /\ worker[w].pc = "load"
    /\ worker' = [worker EXCEPT ![w] =
           [@ EXCEPT !.pc = "extract", !.seen = docStatus[worker[w].doc]]]
    /\ UNCHANGED <<docVars, reviewVars, queueVars, session>>

\* Mutant: the reviews a former recognition left open are not closed.
ExtractOkClosesNone(w) ==
    /\ worker[w].pc = "extract"
    /\ worker' = [worker EXCEPT ![w] = [@ EXCEPT !.pc = "close", !.closing = {}]]
    /\ UNCHANGED <<docVars, reviewVars, queueVars, session>>

\* Dify answered and the output passed the gate: the AI result is inserted and
\* the open reviews are selected.
ExtractOk(w) ==
    /\ worker[w].pc = "extract"
    /\ worker' = [worker EXCEPT ![w] =
           [@ EXCEPT !.pc = "close", !.closing = OpenReviewsOf(worker[w].doc)]]
    /\ UNCHANGED <<docVars, reviewVars, queueVars, session>>

\* Mutant: a retry does not count.
ExtractHttpErrorUncounted(w) ==
    /\ worker[w].pc = "extract"
    /\ Publish(worker[w].doc, worker[w].tries)
    /\ EndWorker(w)
    /\ UNCHANGED <<docVars, reviewVars, dispatches, session>>

\* httpx.HTTPError: retried by Celery up to MaxRetries, then marked once.
ExtractHttpError(w) ==
    /\ worker[w].pc = "extract"
    /\ IF worker[w].tries < MaxRetries
       THEN /\ Publish(worker[w].doc, worker[w].tries + 1)
            /\ EndWorker(w)
       ELSE /\ worker' = [worker EXCEPT ![w] = [@ EXCEPT !.pc = "mark", !.passes = 1]]
            /\ UNCHANGED queue
    /\ UNCHANGED <<docVars, reviewVars, dispatches, session>>

\* Any other failure is marked by run_recognition and again by the task.
ExtractError(w) ==
    /\ worker[w].pc = "extract"
    /\ worker' = [worker EXCEPT ![w] = [@ EXCEPT !.pc = "mark", !.passes = 2]]
    /\ UNCHANGED <<docVars, reviewVars, queueVars, session>>

\* The commit flushes the document row first.
FlushDocument(w) ==
    /\ worker[w].pc = "close"
    /\ worker[w].seen # "PENDING_REVIEW" => ~DocLocked(worker[w].doc)
    /\ worker' = [worker EXCEPT ![w] = [@ EXCEPT !.pc = "commit"]]
    /\ UNCHANGED <<docVars, reviewVars, queueVars, session>>

\* Mutant: replacing a review does not wait for the decision that locks it.
CloseReviewsUnlocked(w) ==
    /\ worker[w].pc = "commit"
    /\ \E new \in {r \in Reviews : rvStatus[r] = "NONE"} :
           /\ rvStatus' = [r \in Reviews |->
                  IF r \in worker[w].closing THEN "REJECTED"
                  ELSE IF r = new THEN "PENDING" ELSE rvStatus[r]]
           /\ rvDoc' = [rvDoc EXCEPT ![new] = worker[w].doc]
    /\ rvVersion' = [r \in Reviews |->
           IF r \in worker[w].closing THEN rvVersion[r] + 1 ELSE rvVersion[r]]
    /\ Update(worker[w].doc, worker[w].seen, "PENDING_REVIEW", FALSE)
    /\ EndWorker(w)
    /\ UNCHANGED <<docSha, issued, queueVars, session>>

\* The reviews found open become REJECTED whatever they are by now; the UPDATE
\* waits for the row locks of the decisions in progress.
CloseReviews(w) ==
    /\ worker[w].pc = "commit"
    /\ \A r \in worker[w].closing : ~Locked(r)
    /\ \E new \in {r \in Reviews : rvStatus[r] = "NONE"} :
           /\ rvStatus' = [r \in Reviews |->
                  IF r \in worker[w].closing THEN "REJECTED"
                  ELSE IF r = new THEN "PENDING" ELSE rvStatus[r]]
           /\ rvDoc' = [rvDoc EXCEPT ![new] = worker[w].doc]
    /\ rvVersion' = [r \in Reviews |->
           IF r \in worker[w].closing THEN rvVersion[r] + 1 ELSE rvVersion[r]]
    /\ Update(worker[w].doc, worker[w].seen, "PENDING_REVIEW", FALSE)
    /\ EndWorker(w)
    /\ UNCHANGED <<docSha, issued, queueVars, session>>

\* The last commit fails (deadlock victim, lost connection): the task rolls
\* back and marks the document.
CloseError(w) ==
    /\ worker[w].pc \in {"close", "commit"}
    /\ worker' = [worker EXCEPT ![w] =
           [@ EXCEPT !.pc = "mark", !.passes = 1, !.closing = {}]]
    /\ UNCHANGED <<docVars, reviewVars, queueVars, session>>

\* _mark_failed and _mark_failed_or_skip: read, and fail a document that is
\* PARSING.  A pass that finds another status leaves its snapshot cached, so a
\* second pass finds the same.
MarkRead(w) ==
    /\ worker[w].pc = "mark"
    /\ IF docStatus[worker[w].doc] = "PARSING"
       THEN worker' = [worker EXCEPT ![w] = [@ EXCEPT !.pc = "fail", !.seen = "PARSING"]]
       ELSE EndWorker(w)
    /\ UNCHANGED <<docVars, reviewVars, queueVars, session>>

MarkCommit(w) ==
    /\ worker[w].pc = "fail"
    /\ Flush(worker[w].doc, worker[w].seen, "FAILED", TRUE)
    /\ IF worker[w].passes = 2
       THEN worker' = [worker EXCEPT ![w] = [@ EXCEPT !.pc = "mark", !.passes = 1]]
       ELSE EndWorker(w)
    /\ UNCHANGED <<docSha, reviewVars, queueVars, session>>

\* The worker process dies: its transaction is rolled back and the message,
\* acknowledged long ago, is lost.
WorkerCrash(w) ==
    /\ worker[w].pc # "idle"
    /\ EndWorker(w)
    /\ UNCHANGED <<docVars, reviewVars, queueVars, session>>

-----------------------------------------------------------------------------
(***************************************************************************)
(* Time and the sweep of fail_stale_parsing_documents, every ten minutes.  *)
(***************************************************************************)

TimeoutPasses(d) ==
    /\ docStatus[d] = "PARSING" /\ ~docStale[d]
    /\ docStale' = [docStale EXCEPT ![d] = TRUE]
    /\ UNCHANGED <<docStatus, docSha, reviewVars, queueVars, session, worker>>

StaleParsing == {d \in Docs : docStatus[d] = "PARSING" /\ docStale[d] /\ ~KeyShared(d)}

\* Mutant: the sweep refreshes the rows but forgets their status.
SweepStaleTouch ==
    /\ StaleParsing # {}
    /\ docStale' = [d \in Docs |-> IF d \in StaleParsing THEN FALSE ELSE docStale[d]]
    /\ UNCHANGED <<docStatus, docSha, reviewVars, queueVars, session, worker>>

SweepStale ==
    /\ StaleParsing # {}
    /\ docStatus' = [d \in Docs |-> IF d \in StaleParsing THEN "FAILED" ELSE docStatus[d]]
    /\ docStale' = [d \in Docs |-> IF d \in StaleParsing THEN FALSE ELSE docStale[d]]
    /\ UNCHANGED <<docSha, reviewVars, queueVars, session, worker>>

-----------------------------------------------------------------------------
ReviewOps == {"approve", "REJECTED", "NEEDS_INFO"}

SessionStep(s) ==
    \/ ConfirmCommit(s) \/ ConfirmFail(s)
    \/ RecognizeCommit(s) \/ RecognizePublish(s)
    \/ ReviewLock(s) \/ ReviewRefuse(s)
    \/ Approve(s) \/ Reject(s) \/ AskForInfo(s)

WorkerStep(w) ==
    \/ Claim(w) \/ Load(w)
    \/ ExtractOk(w) \/ ExtractHttpError(w) \/ ExtractError(w)
    \/ FlushDocument(w) \/ CloseReviews(w)
    \/ MarkRead(w) \/ MarkCommit(w)

Next ==
    \/ \E d \in Docs : CreateUploadIntent(d) \/ TimeoutPasses(d)
    \/ \E s \in Sessions :
          \/ \E d \in Docs : ConfirmRead(s, d) \/ RecognizeRead(s, d)
          \/ \E r \in Reviews, op \in ReviewOps : ReviewAsk(s, r, op)
          \/ SessionStep(s)
          \/ SessionAbort(s)
    \/ \E w \in Workers :
          \/ \E d \in Docs, t \in 0..MaxRetries : Receive(w, d, t)
          \/ WorkerStep(w)
          \/ CloseError(w) \/ WorkerCrash(w)
    \/ SweepStale

Spec == Init /\ [][Next]_vars

\* A decision holds the review a recognition is about to close, and waits for
\* the document row that recognition has updated: neither can go on.
Deadlocked(s, w) ==
    /\ session[s].pc = "locked" /\ session[s].op \in ReviewOps
    /\ session[s].op = "NEEDS_INFO" => session[s].seen # "PENDING_REVIEW"
    /\ worker[w].pc = "commit" /\ worker[w].seen # "PENDING_REVIEW"
    /\ worker[w].doc = session[s].doc /\ session[s].review \in worker[w].closing

\* PostgreSQL finds the deadlock and takes back either transaction.
BreakDeadlock(s, w) == Deadlocked(s, w) /\ (SessionAbort(s) \/ CloseError(w))

\* A request that started ends, the worker drains its queue and each task goes
\* on (its HTTP calls time out), PostgreSQL grants a row lock in the order of
\* waiting (hence strong fairness) and breaks deadlocks, minutes pass, and beat
\* keeps sweeping.  No request is obliged to start, and no other error and no
\* crash has to happen.
Fairness ==
    /\ \A s \in Sessions : SF_vars(SessionStep(s))
    /\ \A w \in Workers : /\ SF_vars(WorkerStep(w))
                          /\ WF_vars(\E d \in Docs, t \in 0..MaxRetries : Receive(w, d, t))
    /\ \A s \in Sessions, w \in Workers : WF_vars(BreakDeadlock(s, w))
    /\ \A d \in Docs : WF_vars(TimeoutPasses(d))
    /\ WF_vars(SweepStale)

FairSpec == Spec /\ Fairness
-----------------------------------------------------------------------------
(***************************************************************************)
(* Properties                                                              *)
(***************************************************************************)

\* Every variable and every session and worker record has its type.
TypeOK ==
    /\ docStatus \in [Docs -> DocStatus]
    /\ docSha \in [Docs -> BOOLEAN]
    /\ docStale \in [Docs -> BOOLEAN]
    /\ rvStatus \in [Reviews -> ReviewStatus]
    /\ rvDoc \in [Reviews -> Docs \cup {NoDoc}]
    /\ rvVersion \in [Reviews -> Nat]
    /\ issued \in [Reviews -> Nat]
    /\ queue \in [Docs -> [0..MaxRetries -> Nat]]
    /\ dispatches \in Nat
    /\ session \in [Sessions -> SessionType]
    /\ worker \in [Workers -> WorkerType]

\* No document is recognized, reviewed or confirmed before its upload was
\* confirmed (its SHA-256 recorded): recognize_document_async and the task
\* refuse it, and no late commit of a slow request brings such a status back.
UploadBeforeWorkflow ==
    \A d \in Docs : docStatus[d] \in InWorkflow \cup {"UPLOADED"} => docSha[d]

\* A decision about to be committed is about the review HR looked at: since
\* the version check no other decision, and no recognition that replaces the
\* review, has changed it.  The row lock of approve_review_task and
\* reject_review_task is what keeps this true between check and commit.
DecisionIsCurrent ==
    \A s \in Sessions : session[s].pc = "locked" =>
        /\ rvVersion[session[s].review] = session[s].version
        /\ rvStatus[session[s].review] \in OpenReview

\* A review issues its certificates at most once, whatever the number of
\* approvals HR sends and however they interleave with rejections and with
\* the recognition that replaces the review.
IssuedOnce == \A r \in Reviews : issued[r] <= 1

\* A document waiting for review has a review HR can decide: otherwise it
\* shows in no work list and only a new recognition could free it.
WaitingHasOpenReview ==
    \A d \in Docs : docStatus[d] = "PENDING_REVIEW" => OpenReviewsOf(d) # {}

\* A document has no more open reviews than there are recognition slots: a task
\* closes all it found ("关闭该文档所有未完结复核任务（PENDING/NEEDS_INFO → REJECTED）",
\* _close_open_review_tasks), and opens one; what it can miss is the review another
\* slot opens meanwhile.  With the two slots of the chart HR may find two.
OpenReviewsPerSlot ==
    \A d \in Docs : Cardinality(OpenReviewsOf(d)) <= Cardinality(Workers)

\* A closed review never opens again.
ClosedReviewStaysClosed ==
    [][\A r \in Reviews : rvStatus[r] \in ClosedReview => rvStatus'[r] \in ClosedReview]_vars

\* A closed review keeps its decision ("复核任务已处于终态（APPROVED/REJECTED），
\* 不能再处理。", ReviewAlreadyClosedError).
DecisionIsFinal ==
    [][\A r \in Reviews : rvStatus[r] \in ClosedReview => rvStatus'[r] = rvStatus[r]]_vars

\* A confirmed document is closed ("dispatch 阶段明确拒绝的"已关闭"状态",
\* _CLOSED_STATUSES; the task skips it, "已被处理(PENDING_REVIEW/CONFIRMED)则
\* skip"): no later step takes it out of CONFIRMED.
ConfirmedIsClosed ==
    [][\A d \in Docs : docStatus[d] = "CONFIRMED" => docStatus'[d] = "CONFIRMED"]_vars

\* No document stays in recognition for ever: lost messages, dead workers and
\* dispatches that never reached the broker end in the sweep.
ParsingEnds == \A d \in Docs : docStatus[d] = "PARSING" ~> docStatus[d] # "PARSING"

\* Every recognition message is received in the end and none is retried for
\* ever: once no more requests are accepted, the queue empties and stays empty.
QueueDrains == \A d \in Docs : <>[](\A t \in 0..MaxRetries : queue[d][t] = 0)

\* Every request is answered: decisions that wait for the document row while a
\* recognition that updated it waits for their review, requests that wait for
\* such a decision, and refused requests never keep a row locked for good.
RequestsEnd == \A s \in Sessions : session[s].op # "none" ~> session[s].op = "none"
=============================================================================
