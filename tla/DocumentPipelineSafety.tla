----------------------- MODULE DocumentPipelineSafety -----------------------
(***************************************************************************)
(* Proofs of the safety properties of DocumentPipeline.  They all rest on  *)
(* WellTyped; the decisions rest on the row lock (LockInv).                *)
(***************************************************************************)
EXTENDS DocumentPipelineProofs, FiniteSetTheorems

(***************************************************************************)
(* Uploads.  A request, a task or a review that refers to a document was   *)
(* created for an uploaded one, and the SHA-256 is never taken back: that  *)
(* is why a late commit may write any status of the workflow.              *)
(***************************************************************************)

UploadInv ==
    /\ UploadBeforeWorkflow
    /\ \A s \in Sessions :
          session[s].pc = "read" /\ session[s].op = "recognize" => docSha[session[s].doc]
    /\ \A r \in Reviews : rvStatus[r] # "NONE" => docSha[rvDoc[r]]
    /\ \A w \in Workers : worker[w].pc # "idle" => docSha[worker[w].doc]

LEMMA ShaStays ==
    ASSUME TypeOK, [Next]_vars, NEW d \in Docs, docSha[d]
    PROVE  docSha'[d]
<1>1. CASE UNCHANGED docVars
  BY <1>1 DEF docVars
<1>2. ASSUME NEW s \in Sessions, ConfirmCommit(s) PROVE docSha'[d]
  BY <1>2 DEF ConfirmCommit, TypeOK
<1>3. CASE UNCHANGED docSha
  BY <1>3
<1> QED
  BY <1>1, <1>2, <1>3, DocFrame
     DEF CreateUploadIntent, TimeoutPasses, ConfirmFail, RecognizeCommit,
         Approve, Reject, AskForInfo, Claim, CloseReviews, MarkCommit, SweepStale

\* What a flush does to the status of one document.
LEMMA UpdateStatus ==
    ASSUME TypeOK, NEW d, NEW seen, NEW new, NEW other, Update(d, seen, new, other),
           NEW c \in Docs
    PROVE  \/ docStatus'[c] = docStatus[c]
           \/ c = d /\ docStatus'[c] = new
BY DEF Update, TypeOK

LEMMA FlushStatus ==
    ASSUME TypeOK, NEW d, NEW seen, NEW new, NEW other, Flush(d, seen, new, other),
           NEW c \in Docs
    PROVE  \/ docStatus'[c] = docStatus[c]
           \/ c = d /\ docStatus'[c] = new
BY UpdateStatus DEF Flush

\* Every status of the workflow that a step writes is written to an uploaded
\* document.
LEMMA UploadStatusStep ==
    ASSUME WellTyped, UploadInv, [Next]_vars, NEW c \in Docs,
           docStatus'[c] \in InWorkflow \cup {"UPLOADED"}
    PROVE  docSha'[c]
<1> DEFINE Kept == docStatus'[c] = docStatus[c]
<1>0. TypeOK /\ (Kept => docSha'[c])
  BY ShaStays DEF WellTyped, UploadInv, UploadBeforeWorkflow
<1> USE DEF InWorkflow
<1>1. CASE UNCHANGED docVars
  BY <1>0, <1>1 DEF docVars
<1>2. ASSUME NEW d \in Docs, CreateUploadIntent(d) \/ TimeoutPasses(d)
      PROVE  docSha'[c]
  BY <1>0, <1>2 DEF CreateUploadIntent, TimeoutPasses, TypeOK
<1>3. ASSUME NEW s \in Sessions, ConfirmCommit(s)
      PROVE  docSha'[c]
  <2>1. Kept \/ c = session[s].doc
    BY <1>0, <1>3, FlushStatus DEF ConfirmCommit
  <2> QED BY <1>0, <1>3, <2>1 DEF ConfirmCommit, TypeOK
<1>4. ASSUME NEW s \in Sessions, ConfirmFail(s) \/ Reject(s)
      PROVE  docSha'[c]
  BY <1>0, <1>4, FlushStatus DEF ConfirmFail, Reject
<1>5. ASSUME NEW s \in Sessions, RecognizeCommit(s)
      PROVE  docSha'[c]
  <2>1. Kept \/ c = session[s].doc
    BY <1>0, <1>5, FlushStatus DEF RecognizeCommit
  <2> QED BY <1>0, <1>5, <2>1, ShaStays DEF RecognizeCommit, UploadInv
<1>6. ASSUME NEW s \in Sessions, Approve(s) \/ AskForInfo(s)
      PROVE  docSha'[c]
  <2>1. Kept \/ c = session[s].doc
    BY <1>0, <1>6, FlushStatus DEF Approve, AskForInfo
  <2>2. docSha[session[s].doc]
    <3>1. /\ session[s].review \in Reviews
          /\ rvStatus[session[s].review] # "NONE"
          /\ session[s].doc = rvDoc[session[s].review]
      BY <1>6 DEF Approve, AskForInfo, WellTyped, SessionsRefer
    <3> QED BY <3>1 DEF UploadInv
  <2> QED BY <1>0, <2>1, <2>2, ShaStays
<1>7. ASSUME NEW w \in Workers, Claim(w) \/ CloseReviews(w) \/ MarkCommit(w)
      PROVE  docSha'[c]
  <2>1. Kept \/ c = worker[w].doc
    <3>1. CASE Claim(w)
      BY <1>0, <3>1, FlushStatus DEF Claim
    <3>2. CASE CloseReviews(w)
      <4>1. Update(worker[w].doc, worker[w].seen, "PENDING_REVIEW", FALSE)
        BY <3>2 DEF CloseReviews
      <4> QED BY <1>0, <4>1, UpdateStatus
    <3>3. CASE MarkCommit(w)
      BY <1>0, <3>3, FlushStatus DEF MarkCommit
    <3> QED BY <1>7, <3>1, <3>2, <3>3
  <2>2. docSha[worker[w].doc]
    BY <1>7 DEF Claim, CloseReviews, MarkCommit, UploadInv
  <2> QED BY <1>0, <2>1, <2>2, ShaStays
<1>8. CASE SweepStale
  BY <1>0, <1>8 DEF SweepStale
<1> QED BY <1>1, <1>2, <1>3, <1>4, <1>5, <1>6, <1>7, <1>8, DocFrame

\* A document that may be recognized was uploaded.
LEMMA RecognizableUploaded ==
    ASSUME TypeOK, UploadBeforeWorkflow, NEW d \in Docs, Recognizable(d)
    PROVE  docSha[d]
BY DEF TypeOK, UploadBeforeWorkflow, Recognizable, DocStatus, InWorkflow, ClosedDoc

LEMMA UploadSessionsStep ==
    ASSUME WellTyped, UploadInv, [Next]_vars, NEW s \in Sessions,
           session'[s].pc = "read", session'[s].op = "recognize"
    PROVE  docSha'[session'[s].doc]
<1>0. TypeOK /\ session \in [Sessions -> SessionType]
  BY DEF WellTyped, TypeOK
<1>1. CASE session'[s] = session[s]
  BY <1>1, ShaStays DEF WellTyped, SessionsRefer, UploadInv
<1>2. ASSUME NEW d \in Docs, RecognizeRead(s, d)
      PROVE  docSha'[session'[s].doc]
  <2>1. session'[s].doc = d
    BY <1>0, <1>2 DEF RecognizeRead, IdleSession
  <2>2. docSha[d]
    BY <1>0, <1>2, RecognizableUploaded DEF RecognizeRead, UploadInv
  <2> QED BY <1>0, <2>1, <2>2, ShaStays
<1>3. ASSUME NEW q \in Sessions, q # s, EndSession(q)
      PROVE  session'[s] = session[s]
  BY <1>0, <1>3 DEF EndSession
<1>4. ASSUME EndSession(s) PROVE FALSE
  BY <1>0, <1>4 DEF EndSession, IdleSession
<1>5. ASSUME NEW q \in Sessions, RecognizeCommit(q) PROVE session'[s] = session[s]
  <2>1. CASE q = s
    BY <1>0, <1>5, <2>1 DEF RecognizeCommit, SessionType
  <2> QED BY <1>0, <1>5, <2>1 DEF RecognizeCommit
<1>6. ASSUME NEW q \in Sessions, ReviewLock(q) PROVE session'[s] = session[s]
  <2>1. CASE q = s
    BY <1>0, <1>6, <2>1 DEF ReviewLock, SessionType
  <2> QED BY <1>0, <1>6, <2>1 DEF ReviewLock
<1>7. ASSUME NEW q \in Sessions, NEW d \in Docs, ConfirmRead(q, d)
      PROVE  session'[s] = session[s]
  BY <1>0, <1>7 DEF ConfirmRead, IdleSession
<1>8. ASSUME NEW q \in Sessions, NEW d \in Docs, RecognizeRead(q, d), q # s
      PROVE  session'[s] = session[s]
  BY <1>0, <1>8 DEF RecognizeRead
<1>9. ASSUME NEW q \in Sessions, NEW r \in Reviews, NEW op \in ReviewOps,
             ReviewAsk(q, r, op)
      PROVE  session'[s] = session[s]
  BY <1>0, <1>9 DEF ReviewAsk, IdleSession
<1> QED BY <1>1, <1>2, <1>3, <1>4, <1>5, <1>6, <1>7, <1>8, <1>9, SessionFrame

LEMMA UploadReviewsStep ==
    ASSUME WellTyped, UploadInv, [Next]_vars, NEW r \in Reviews, rvStatus'[r] # "NONE"
    PROVE  docSha'[rvDoc'[r]]
<1>0. TypeOK
  BY DEF WellTyped
<1>1. CASE rvStatus[r] # "NONE"
  BY <1>0, <1>1, ReviewsStay, ShaStays DEF WellTyped, ReviewsRefer, UploadInv
<1>2. CASE rvStatus[r] = "NONE"
  <2>1. CASE UNCHANGED reviewVars
    BY <1>2, <2>1 DEF reviewVars
  <2>2. ASSUME NEW s \in Sessions, Approve(s) \/ Reject(s) \/ AskForInfo(s)
        PROVE  FALSE
    <3>1. session[s].review # r
      BY <1>2, <2>2 DEF Approve, Reject, AskForInfo, WellTyped, SessionsRefer
    <3> QED BY <1>0, <1>2, <2>2, <3>1 DEF Approve, Reject, AskForInfo, Decide, TypeOK
  <2>3. ASSUME NEW w \in Workers, CloseReviews(w)
        PROVE  docSha'[rvDoc'[r]]
    <3>1. r \notin worker[w].closing
      BY <1>2, <2>3 DEF CloseReviews, WellTyped, WorkersRefer
    <3>2. rvDoc'[r] = worker[w].doc
      BY <1>0, <1>2, <2>3, <3>1 DEF CloseReviews, TypeOK
    <3>3. worker[w].doc \in Docs /\ docSha[worker[w].doc]
      BY <2>3 DEF CloseReviews, WellTyped, WorkersRefer, UploadInv
    <3> QED BY <1>0, <3>2, <3>3, ShaStays
  <2> QED BY <2>1, <2>2, <2>3, ReviewFrame
<1> QED BY <1>1, <1>2

\* A task that goes on keeps its document; only Receive gives it one.
LEMMA WorkerKeepsDoc ==
    ASSUME WellTyped, [Next]_vars, NEW w \in Workers, worker'[w].pc # "idle"
    PROVE  \/ worker[w].pc # "idle" /\ worker'[w].doc = worker[w].doc
           \/ \E d \in Docs : Recognizable(d) /\ worker'[w].doc = d
<1> DEFINE Goal == \/ worker[w].pc # "idle" /\ worker'[w].doc = worker[w].doc
                   \/ \E d \in Docs : Recognizable(d) /\ worker'[w].doc = d
<1>0. worker \in [Workers -> WorkerType] /\ worker[w] \in WorkerType
  BY DEF WellTyped, TypeOK
<1>1. CASE worker'[w] = worker[w]
  BY <1>1
<1>2. ASSUME NEW v \in Workers, EndWorker(v) PROVE Goal
  <2>1. CASE v = w
    BY <1>0, <1>2, <2>1 DEF EndWorker, IdleWorker
  <2> QED BY <1>0, <1>1, <1>2, <2>1 DEF EndWorker
<1>3. ASSUME NEW v \in Workers, NEW d \in Docs, NEW t \in 0..MaxRetries,
             Receive(v, d, t)
      PROVE  Goal
  <2>1. CASE UNCHANGED worker
    BY <1>1, <2>1
  <2>2. CASE ~UNCHANGED worker /\ v = w
    <3>1. worker' = [worker EXCEPT ![w] =
                [IdleWorker EXCEPT !.pc = "claim", !.doc = d, !.tries = t,
                                   !.seen = docStatus[d]]]
      BY <1>3, <2>2 DEF Receive
    <3>2. worker'[w].doc = d
      BY <1>0, <3>1 DEF IdleWorker
    <3>3. Recognizable(d)
      BY <1>3, <2>2 DEF Receive
    <3> QED BY <3>2, <3>3
  <2>3. CASE v # w
    BY <1>0, <1>1, <1>3, <2>3 DEF Receive
  <2> QED BY <2>1, <2>2, <2>3
<1>4. ASSUME NEW v \in Workers,
             \/ Claim(v) \/ Load(v) \/ ExtractOk(v) \/ FlushDocument(v)
             \/ CloseError(v) \/ MarkRead(v)
             \/ worker[v].pc \in {"extract", "fail"} /\ (Marking(v, 1) \/ Marking(v, 2)),
             v # w
      PROVE  Goal
  <2>1. worker'[w] = worker[w]
    BY <1>0, <1>4 DEF Claim, Load, ExtractOk, FlushDocument, CloseError, MarkRead,
                      Marking, EndWorker
  <2> QED BY <1>1, <2>1
<1>5. CASE Claim(w)
  BY <1>0, <1>5 DEF Claim, WorkerType
<1>6. CASE Load(w)
  BY <1>0, <1>6 DEF Load, WorkerType
<1>7. CASE ExtractOk(w)
  BY <1>0, <1>7 DEF ExtractOk, WorkerType
<1>8. CASE CloseError(w)
  BY <1>0, <1>8 DEF CloseError, WorkerType
<1>9. CASE MarkRead(w)
  <2>1. CASE worker' = [worker EXCEPT ![w] = [@ EXCEPT !.pc = "fail", !.seen = "PARSING"]]
    BY <1>0, <1>9, <2>1 DEF MarkRead, WorkerType
  <2> QED BY <1>2, <1>9, <2>1 DEF MarkRead
<1>10. CASE worker[w].pc \in {"extract", "fail"} /\ (Marking(w, 1) \/ Marking(w, 2))
  <2>1. CASE Marking(w, 1)
    BY <1>0, <1>10, <2>1 DEF Marking, WorkerType
  <2>2. CASE Marking(w, 2)
    BY <1>0, <1>10, <2>2 DEF Marking, WorkerType
  <2> QED BY <1>10, <2>1, <2>2
<1>14. CASE FlushDocument(w)
  BY <1>0, <1>14 DEF FlushDocument, WorkerType
<1>11. CASE \E v \in Workers : EndWorker(v) \/ \E d \in Docs, t \in 0..MaxRetries : Receive(v, d, t)
  BY <1>2, <1>3, <1>11
<1>12. ASSUME NEW v \in Workers,
             \/ Claim(v) \/ Load(v) \/ ExtractOk(v) \/ FlushDocument(v)
             \/ CloseError(v) \/ MarkRead(v)
             \/ worker[v].pc \in {"extract", "fail"} /\ (Marking(v, 1) \/ Marking(v, 2))
      PROVE  Goal
  <2>1. CASE v = w
    BY <1>5, <1>6, <1>7, <1>8, <1>9, <1>10, <1>12, <1>14, <2>1
  <2> QED BY <1>4, <1>12, <2>1
<1>13. CASE UNCHANGED worker
  BY <1>1, <1>13
<1> QED
  <2>1. CASE ~UNCHANGED worker
    <3>1. PICK v \in Workers :
             \/ EndWorker(v)
             \/ \E d \in Docs, t \in 0..MaxRetries : Receive(v, d, t)
             \/ Claim(v) \/ Load(v) \/ ExtractOk(v) \/ FlushDocument(v)
             \/ CloseError(v) \/ MarkRead(v)
             \/ worker[v].pc \in {"extract", "fail"} /\ (Marking(v, 1) \/ Marking(v, 2))
      BY <2>1, WorkerFrame
    <3> QED BY <1>11, <1>12, <3>1
  <2> QED BY <1>13, <2>1

LEMMA UploadInvStep == WellTyped /\ UploadInv /\ [Next]_vars => UploadInv'
<1> SUFFICES ASSUME WellTyped, UploadInv, [Next]_vars PROVE UploadInv'
  OBVIOUS
<1>1. UploadBeforeWorkflow'
  BY UploadStatusStep DEF UploadBeforeWorkflow
<1>2. ASSUME NEW w \in Workers, worker'[w].pc # "idle" PROVE docSha'[worker'[w].doc]
  <2>1. CASE worker[w].pc # "idle" /\ worker'[w].doc = worker[w].doc
    BY <2>1, ShaStays DEF WellTyped, WorkersRefer, UploadInv
  <2>2. ASSUME NEW d \in Docs, Recognizable(d), worker'[w].doc = d
        PROVE  docSha'[worker'[w].doc]
    BY <2>2, RecognizableUploaded, ShaStays DEF WellTyped, UploadInv
  <2> QED BY <1>2, <2>1, <2>2, WorkerKeepsDoc
<1> QED BY <1>1, <1>2, UploadSessionsStep, UploadReviewsStep DEF UploadInv

LEMMA UploadInvInit == Init => UploadInv
BY DEF Init, UploadInv, UploadBeforeWorkflow, IdleSession, IdleWorker, InWorkflow

\* No document is recognized, reviewed or confirmed before its upload was
\* confirmed, however the uploads, dispatches, recognitions and decisions on
\* it interleave.
THEOREM UploadsComeFirst == Spec => []UploadBeforeWorkflow
<1>1. UploadInv => UploadBeforeWorkflow
  BY DEF UploadInv
<1> QED BY <1>1, WellTypedAlways, UploadInvInit, UploadInvStep, PTL DEF Spec
-----------------------------------------------------------------------------
(***************************************************************************)
(* Decisions.  A session holds the row lock of its review from its checks  *)
(* to its commit, so what it checked still holds at the commit.            *)
(***************************************************************************)

LockInv ==
    /\ DecisionIsCurrent
    /\ \A s, q \in Sessions :
          session[s].pc = "locked" /\ session[q].pc = "locked"
            /\ session[s].review = session[q].review => s = q

\* A request that holds a lock after a step held it before, or just took it.
LEMMA LockedBefore ==
    ASSUME WellTyped, [Next]_vars, NEW s \in Sessions, session'[s].pc = "locked"
    PROVE  \/ session'[s] = session[s]
           \/ /\ ReviewLock(s)
              /\ session'[s].op = session[s].op
              /\ session'[s].review = session[s].review
              /\ session'[s].version = session[s].version
              /\ session'[s].seen = docStatus[rvDoc[session[s].review]]
<1> DEFINE Kept == session'[s] = session[s]
           Took == /\ ReviewLock(s)
                   /\ session'[s].op = session[s].op
                   /\ session'[s].review = session[s].review
                   /\ session'[s].version = session[s].version
                   /\ session'[s].seen = docStatus[rvDoc[session[s].review]]
<1>0. session \in [Sessions -> SessionType]
  BY DEF WellTyped, TypeOK
<1>1. CASE UNCHANGED session
  BY <1>1
<1>2. ASSUME NEW q \in Sessions, EndSession(q) PROVE Kept
  BY <1>0, <1>2 DEF EndSession, IdleSession
<1>3. ASSUME NEW q \in Sessions, RecognizeCommit(q) PROVE Kept
  <2>1. CASE q = s
    BY <1>0, <1>3, <2>1 DEF RecognizeCommit, SessionType
  <2> QED BY <1>0, <1>3, <2>1 DEF RecognizeCommit
<1>4. ASSUME NEW q \in Sessions, ReviewLock(q) PROVE Kept \/ Took
  <2>1. CASE q = s
    <3>1. session[s] \in SessionType
      BY <1>0
    <3> QED BY <1>0, <1>4, <2>1, <3>1 DEF ReviewLock, SessionType
  <2> QED BY <1>0, <1>4, <2>1 DEF ReviewLock
<1>5. ASSUME NEW q \in Sessions, NEW d \in Docs, ConfirmRead(q, d) PROVE Kept
  BY <1>0, <1>5 DEF ConfirmRead, IdleSession
<1>6. ASSUME NEW q \in Sessions, NEW d \in Docs, RecognizeRead(q, d) PROVE Kept
  BY <1>0, <1>6 DEF RecognizeRead, IdleSession
<1>7. ASSUME NEW q \in Sessions, NEW r \in Reviews, NEW op \in ReviewOps,
             ReviewAsk(q, r, op)
      PROVE  Kept
  BY <1>0, <1>7 DEF ReviewAsk, IdleSession
<1> QED BY <1>1, <1>2, <1>3, <1>4, <1>5, <1>6, <1>7, SessionFrame

LEMMA OneLockStep ==
    ASSUME WellTyped, LockInv, [Next]_vars, NEW s \in Sessions, NEW q \in Sessions,
           session'[s].pc = "locked", session'[q].pc = "locked",
           session'[s].review = session'[q].review
    PROVE  s = q
<1>1. CASE session'[s] = session[s] /\ session'[q] = session[q]
  BY <1>1 DEF LockInv
<1>2. ASSUME NEW a \in Sessions, NEW b \in Sessions, a # b, ReviewLock(a),
             session'[a].review = session[a].review,
             session'[b].pc = "locked", session'[a].review = session'[b].review
      PROVE  FALSE
  <2>1. session'[b] = session[b]
    BY <1>2 DEF ReviewLock, WellTyped, TypeOK
  <2> QED BY <1>2, <2>1 DEF ReviewLock, Locked
<1> QED BY <1>1, <1>2, LockedBefore

\* The review another request has locked is left alone.
LEMMA LockedReviewKept ==
    ASSUME WellTyped, LockInv, [Next]_vars, NEW s \in Sessions,
           session[s].pc = "locked", session'[s] = session[s]
    PROVE  /\ rvStatus'[session[s].review] = rvStatus[session[s].review]
           /\ rvVersion'[session[s].review] = rvVersion[session[s].review]
<1> DEFINE r == session[s].review
           Goal == rvStatus'[r] = rvStatus[r] /\ rvVersion'[r] = rvVersion[r]
<1>0. /\ TypeOK /\ session[s] \in SessionType
      /\ r \in Reviews /\ rvStatus[r] # "NONE"
  BY DEF WellTyped, TypeOK, SessionsRefer
<1>1. CASE UNCHANGED reviewVars
  BY <1>1 DEF reviewVars
<1>2. ASSUME NEW q \in Sessions, Approve(q) \/ Reject(q) \/ AskForInfo(q)
      PROVE  Goal
  <2>1. session[q].pc = "locked" /\ session'[q] = IdleSession
    BY <1>0, <1>2 DEF Approve, Reject, AskForInfo, EndSession, TypeOK
  <2>2. session[q].review # r
    BY <2>1 DEF LockInv, IdleSession
  <2> QED BY <1>0, <1>2, <2>2 DEF Approve, Reject, AskForInfo, Decide, TypeOK
<1>3. ASSUME NEW w \in Workers, CloseReviews(w)
      PROVE  Goal
  <2>1. r \notin worker[w].closing
    BY <1>3 DEF CloseReviews, Locked
  <2> QED BY <1>0, <1>3, <2>1 DEF CloseReviews, TypeOK
<1> QED BY <1>1, <1>2, <1>3, ReviewFrame

LEMMA LockInvStep == WellTyped /\ LockInv /\ [Next]_vars => LockInv'
<1> SUFFICES ASSUME WellTyped, LockInv, [Next]_vars PROVE LockInv'
  OBVIOUS
<1>1. ASSUME NEW s \in Sessions, session'[s].pc = "locked"
      PROVE  /\ rvVersion'[session'[s].review] = session'[s].version
             /\ rvStatus'[session'[s].review] \in OpenReview
  <2>1. CASE session'[s] = session[s]
    BY <1>1, <2>1, LockedReviewKept DEF LockInv, DecisionIsCurrent
  <2>2. CASE /\ ReviewLock(s)
             /\ session'[s].review = session[s].review
             /\ session'[s].version = session[s].version
    BY <2>2 DEF ReviewLock, DecisionAllowed, reviewVars
  <2> QED BY <1>1, <2>1, <2>2, LockedBefore
<1> QED BY <1>1, OneLockStep DEF LockInv, DecisionIsCurrent

LEMMA LockInvInit == Init => LockInv
BY DEF Init, LockInv, DecisionIsCurrent, IdleSession

LEMMA LockInvAlways == Spec => []LockInv
BY WellTypedAlways, LockInvInit, LockInvStep, PTL DEF Spec

\* A decision is committed only on the version of the review HR saw, and while
\* the review is still open: no other decision and no recognition comes between
\* the check and the commit.
THEOREM DecisionsAreCurrent == Spec => []DecisionIsCurrent
<1>1. LockInv => DecisionIsCurrent
  BY DEF LockInv
<1> QED BY <1>1, LockInvAlways, PTL

\* What one step may do to a review: a decision on an open review, its
\* replacement by a recognition, or its creation.
LEMMA ReviewChange ==
    ASSUME WellTyped, LockInv, [Next]_vars, NEW r \in Reviews
    PROVE  \/ rvStatus'[r] = rvStatus[r] /\ issued'[r] = issued[r]
           \/ rvStatus[r] \in OpenReview /\ rvStatus'[r] = "APPROVED" /\ issued'[r] = issued[r] + 1
           \/ rvStatus[r] \in OpenReview /\ rvStatus'[r] \in {"REJECTED", "NEEDS_INFO"}
                /\ issued'[r] = issued[r]
           \/ rvStatus[r] # "NONE" /\ rvStatus'[r] = "REJECTED" /\ issued'[r] = issued[r]
           \/ rvStatus[r] = "NONE" /\ rvStatus'[r] = "PENDING" /\ issued'[r] = issued[r]
<1>0. TypeOK
  BY DEF WellTyped
<1>1. CASE UNCHANGED reviewVars
  BY <1>1 DEF reviewVars
<1>2. ASSUME NEW s \in Sessions, Approve(s) \/ Reject(s) \/ AskForInfo(s)
      PROVE  \/ rvStatus'[r] = rvStatus[r] /\ issued'[r] = issued[r]
             \/ rvStatus[r] \in OpenReview /\ rvStatus'[r] = "APPROVED" /\ issued'[r] = issued[r] + 1
             \/ rvStatus[r] \in OpenReview /\ rvStatus'[r] \in {"REJECTED", "NEEDS_INFO"}
                  /\ issued'[r] = issued[r]
  <2>1. rvStatus[session[s].review] \in OpenReview
    BY <1>2 DEF Approve, Reject, AskForInfo, LockInv, DecisionIsCurrent
  <2>2. CASE session[s].review = r
    <3>1. CASE Approve(s)
      BY <1>0, <2>1, <2>2, <3>1 DEF Approve, Decide, TypeOK
    <3>2. CASE Reject(s) \/ AskForInfo(s)
      BY <1>0, <2>1, <2>2, <3>2 DEF Reject, AskForInfo, Decide, TypeOK
    <3> QED BY <1>2, <3>1, <3>2
  <2>3. CASE session[s].review # r
    BY <1>0, <1>2, <2>3 DEF Approve, Reject, AskForInfo, Decide, TypeOK
  <2> QED BY <2>2, <2>3
<1>3. ASSUME NEW w \in Workers, CloseReviews(w)
      PROVE  \/ rvStatus'[r] = rvStatus[r] /\ issued'[r] = issued[r]
             \/ rvStatus[r] # "NONE" /\ rvStatus'[r] = "REJECTED" /\ issued'[r] = issued[r]
             \/ rvStatus[r] = "NONE" /\ rvStatus'[r] = "PENDING" /\ issued'[r] = issued[r]
  <2>1. r \in worker[w].closing => rvStatus[r] # "NONE"
    BY <1>3 DEF CloseReviews, WellTyped, WorkersRefer
  <2> QED BY <1>0, <1>3, <2>1 DEF CloseReviews, TypeOK
<1> QED BY <1>1, <1>2, <1>3, ReviewFrame

\* Certificates are issued by an approval, which closes the review.
IssueInv ==
    \A r \in Reviews : \/ issued[r] = 0
                       \/ issued[r] = 1 /\ rvStatus[r] \in ClosedReview

LEMMA IssueInvStep == WellTyped /\ LockInv /\ IssueInv /\ [Next]_vars => IssueInv'
BY ReviewChange DEF IssueInv, OpenReview, ClosedReview

\* A review issues its certificates at most once.
THEOREM CertificatesIssuedOnce == Spec => []IssuedOnce
<1>1. Init => IssueInv
  BY DEF Init, IssueInv
<1>2. IssueInv => IssuedOnce
  BY DEF IssueInv, IssuedOnce
<1> QED BY <1>1, <1>2, WellTypedAlways, LockInvAlways, IssueInvStep, PTL DEF Spec

\* No step opens a closed review again.
THEOREM ReviewsStayClosed == Spec => ClosedReviewStaysClosed
<1>1. WellTyped /\ LockInv /\ [Next]_vars
        => [\A r \in Reviews : rvStatus[r] \in ClosedReview => rvStatus'[r] \in ClosedReview]_vars
  BY ReviewChange DEF OpenReview, ClosedReview
<1> QED BY <1>1, WellTypedAlways, LockInvAlways, PTL DEF Spec, ClosedReviewStaysClosed
-----------------------------------------------------------------------------
(***************************************************************************)
(* Documents waiting for review.  The dangerous step is a rejection whose  *)
(* snapshot of the document is FAILED already: it closes its review and    *)
(* does not write the document.  A document waiting for review therefore   *)
(* always has an open review that no such rejection holds.                 *)
(***************************************************************************)

\* A rejection in progress will close r without failing the document.
Doomed(r) ==
    \E s \in Sessions :
        /\ session[s].pc = "locked" /\ session[s].review = r
        /\ session[s].op = "REJECTED" /\ session[s].seen = "FAILED"

WaitingInv ==
    /\ \A d \in Docs : docStatus[d] = "PENDING_REVIEW" =>
          \E r \in OpenReviewsOf(d) : ~Doomed(r)
    /\ \A s \in Sessions :
          session[s].pc = "locked" /\ session[s].op = "approve"
            => session[s].seen = "PENDING_REVIEW"

LEMMA ApprovalSawPending ==
    ASSUME WellTyped, WaitingInv, [Next]_vars, NEW s \in Sessions,
           session'[s].pc = "locked", session'[s].op = "approve"
    PROVE  session'[s].seen = "PENDING_REVIEW"
<1>1. CASE session'[s] = session[s]
  BY <1>1 DEF WaitingInv
<1>2. CASE /\ ReviewLock(s)
           /\ session'[s].op = session[s].op
           /\ session'[s].seen = docStatus[rvDoc[session[s].review]]
  BY <1>2 DEF ReviewLock, DecisionAllowed
<1> QED BY <1>1, <1>2, LockedBefore

\* A review of a document that waits for review is not doomed by a step,
\* unless a rejection that saw FAILED held it before.
LEMMA NotDoomedStep ==
    ASSUME WellTyped, [Next]_vars, NEW r \in Reviews, rvStatus[r] # "NONE",
           docStatus[rvDoc[r]] = "PENDING_REVIEW", ~Doomed(r)
    PROVE  ~Doomed(r)'
<1> SUFFICES ASSUME NEW s \in Sessions,
                    session'[s].pc = "locked", session'[s].review = r,
                    session'[s].op = "REJECTED", session'[s].seen = "FAILED"
             PROVE  FALSE
  BY DEF Doomed
<1>1. CASE session'[s] = session[s]
  BY <1>1 DEF Doomed
<1>2. CASE /\ session'[s].review = session[s].review
           /\ session'[s].seen = docStatus[rvDoc[session[s].review]]
  BY <1>2
<1> QED BY <1>1, <1>2, LockedBefore

\* The review a step has just written is held by no one.
LEMMA UnheldNotDoomed ==
    ASSUME NEW r, \A s \in Sessions : ~(session'[s].pc = "locked" /\ session'[s].review = r)
    PROVE  ~Doomed(r)'
BY DEF Doomed

LEMMA WaitingStep ==
    ASSUME WellTyped, LockInv, WaitingInv, [Next]_vars, NEW d \in Docs,
           docStatus'[d] = "PENDING_REVIEW"
    PROVE  \E r \in OpenReviewsOf(d)' : ~Doomed(r)'
<1> DEFINE Goal == \E r \in OpenReviewsOf(d)' : ~Doomed(r)'
<1>0. TypeOK
  BY DEF WellTyped
\* The witness of the state before serves as long as it stays open.
<1>1. ASSUME docStatus[d] = "PENDING_REVIEW",
             \A r \in Reviews : r \in OpenReviewsOf(d) /\ ~Doomed(r) => rvStatus'[r] \in OpenReview
      PROVE  Goal
  <2>1. PICK r \in OpenReviewsOf(d) : ~Doomed(r)
    BY <1>1 DEF WaitingInv
  <2>2. r \in Reviews /\ rvDoc[r] = d /\ rvStatus[r] # "NONE"
    BY <2>1 DEF OpenReviewsOf, OpenReview
  <2>3. rvDoc'[r] = d
    BY <2>2, ReviewsStay
  <2>4. r \in OpenReviewsOf(d)'
    BY <1>1, <2>1, <2>2, <2>3 DEF OpenReviewsOf
  <2>5. ~Doomed(r)'
    BY <1>1, <2>1, <2>2, NotDoomedStep
  <2> QED BY <2>4, <2>5
<1>2. ASSUME docStatus'[d] = docStatus[d], UNCHANGED reviewVars
      PROVE  Goal
  BY <1>1, <1>2 DEF reviewVars, OpenReviewsOf
<1>3. ASSUME NEW c \in Docs, CreateUploadIntent(c) \/ TimeoutPasses(c)
      PROVE  Goal
  BY <1>0, <1>2, <1>3 DEF CreateUploadIntent, TimeoutPasses, TypeOK
<1>4. ASSUME NEW s \in Sessions, ConfirmCommit(s) \/ ConfirmFail(s) \/ RecognizeCommit(s)
      PROVE  Goal
  <2>1. docStatus'[d] = docStatus[d]
    <3>1. CASE ConfirmCommit(s)
      <4>1. Flush(session[s].doc, session[s].seen, "UPLOADED", TRUE)
        BY <3>1 DEF ConfirmCommit
      <4> QED BY <1>0, <4>1 DEF Flush, Update, TypeOK
    <3>2. CASE ConfirmFail(s)
      BY <1>0, <3>2, FlushStatus DEF ConfirmFail
    <3>3. CASE RecognizeCommit(s)
      <4>1. Flush(session[s].doc, session[s].seen, "PARSING", FALSE)
        BY <3>3 DEF RecognizeCommit
      <4> QED BY <1>0, <4>1 DEF Flush, Update, TypeOK
    <3> QED BY <1>4, <3>1, <3>2, <3>3
  <2>2. UNCHANGED reviewVars
    BY <1>4 DEF ConfirmCommit, ConfirmFail, RecognizeCommit
  <2> QED BY <1>2, <2>1, <2>2
<1>5. ASSUME NEW w \in Workers, Claim(w) \/ MarkCommit(w)
      PROVE  Goal
  <2>1. docStatus'[d] = docStatus[d]
    <3>1. CASE Claim(w)
      BY <1>0, <3>1, FlushStatus DEF Claim
    <3>2. CASE MarkCommit(w)
      BY <1>0, <3>2, FlushStatus DEF MarkCommit
    <3> QED BY <1>5, <3>1, <3>2
  <2>2. UNCHANGED reviewVars
    BY <1>5 DEF Claim, MarkCommit
  <2> QED BY <1>2, <2>1, <2>2
<1>6. CASE SweepStale
  BY <1>0, <1>2, <1>6 DEF SweepStale, TypeOK
<1>7. CASE UNCHANGED docVars /\ UNCHANGED reviewVars
  BY <1>2, <1>7 DEF docVars
\* Decisions.
<1>8. ASSUME NEW s \in Sessions, Approve(s) \/ Reject(s) \/ AskForInfo(s)
      PROVE  /\ session[s].review \in Reviews
             /\ rvDoc[session[s].review] = session[s].doc
             /\ \A r \in Reviews : r # session[s].review => rvStatus'[r] = rvStatus[r]
             /\ session'[s].pc = "idle"
             /\ \A q \in Sessions \ {s} : session'[q] = session[q]
  <2>1. session[s].pc = "locked" /\ EndSession(s)
    BY <1>8 DEF Approve, Reject, AskForInfo
  <2>2. /\ session[s].review \in Reviews
        /\ rvDoc[session[s].review] = session[s].doc
    BY <2>1 DEF WellTyped, SessionsRefer
  <2>3. /\ session'[s].pc = "idle"
        /\ \A q \in Sessions \ {s} : session'[q] = session[q]
    BY <1>0, <2>1 DEF EndSession, IdleSession, TypeOK
  <2>4. \A r \in Reviews : r # session[s].review => rvStatus'[r] = rvStatus[r]
    BY <1>0, <1>8 DEF Approve, Reject, AskForInfo, Decide, TypeOK
  <2> QED BY <2>2, <2>3, <2>4
<1>9. ASSUME NEW s \in Sessions, Approve(s) \/ Reject(s), session[s].doc # d
      PROVE  Goal
  <2>1. docStatus'[d] = docStatus[d]
    BY <1>0, <1>9, FlushStatus DEF Approve, Reject
  <2> QED BY <1>1, <1>8, <1>9, <2>1 DEF OpenReviewsOf
<1>10. ASSUME NEW s \in Sessions, Approve(s), session[s].doc = d
       PROVE  FALSE
  <2>1. session[s].seen = "PENDING_REVIEW"
    BY <1>10 DEF Approve, WaitingInv
  <2>2. docStatus'[d] = "CONFIRMED"
    BY <1>0, <1>10, <2>1 DEF Approve, Flush, Update, TypeOK
  <2> QED BY <2>2
<1>11. ASSUME NEW s \in Sessions, Reject(s), session[s].doc = d
       PROVE  Goal
  <2>1. CASE session[s].seen # "FAILED"
    BY <1>0, <1>11, <2>1 DEF Reject, Flush, Update, TypeOK
  <2>2. CASE session[s].seen = "FAILED"
    <3>1. Doomed(session[s].review)
      BY <1>11, <2>2 DEF Reject, Doomed
    <3>2. docStatus'[d] = docStatus[d]
      BY <1>0, <1>11, <2>2 DEF Reject, Flush, Update
    <3> QED BY <1>1, <1>8, <1>11, <3>1, <3>2 DEF OpenReviewsOf
  <2> QED BY <2>1, <2>2
<1>12. ASSUME NEW s \in Sessions, AskForInfo(s)
       PROVE  Goal
  <2> DEFINE r == session[s].review
  <2>1. rvStatus'[r] = "NEEDS_INFO"
    BY <1>0, <1>8, <1>12 DEF AskForInfo, Decide, TypeOK
  <2>2. CASE session[s].doc # d
    <3>1. docStatus'[d] = docStatus[d]
      <4>1. Flush(session[s].doc, session[s].seen, "PENDING_REVIEW", FALSE)
        BY <1>12 DEF AskForInfo
      <4> QED BY <1>0, <2>2, <4>1 DEF Flush, Update, TypeOK
    <3> QED BY <1>1, <1>8, <1>12, <2>1, <3>1 DEF OpenReviewsOf, OpenReview
  <2>3. CASE session[s].doc = d
    <3>1. r \in OpenReviewsOf(d)'
      BY <1>8, <1>12, <2>1, <2>3 DEF AskForInfo, OpenReviewsOf, OpenReview
    <3>2. \A q \in Sessions : ~(session'[q].pc = "locked" /\ session'[q].review = r)
      BY <1>8, <1>12 DEF AskForInfo, LockInv
    <3> QED BY <3>1, <3>2, UnheldNotDoomed
  <2> QED BY <2>2, <2>3
\* Recognition.
<1>13. ASSUME NEW w \in Workers, CloseReviews(w)
       PROVE  Goal
  <2>1. PICK new \in Reviews :
           /\ rvStatus[new] = "NONE"
           /\ rvStatus' = [r \in Reviews |->
                  IF r \in worker[w].closing THEN "REJECTED"
                  ELSE IF r = new THEN "PENDING" ELSE rvStatus[r]]
           /\ rvDoc' = [rvDoc EXCEPT ![new] = worker[w].doc]
    BY <1>13 DEF CloseReviews
  <2>2. \A r \in worker[w].closing : rvStatus[r] # "NONE" /\ rvDoc[r] = worker[w].doc
    BY <1>13 DEF CloseReviews, WellTyped, WorkersRefer
  <2>3. CASE worker[w].doc # d
    <3>1. docStatus'[d] = docStatus[d]
      <4>1. Update(worker[w].doc, worker[w].seen, "PENDING_REVIEW", FALSE)
        BY <1>13 DEF CloseReviews
      <4> QED BY <1>0, <2>3, <4>1 DEF Update, TypeOK
    <3>2. \A r \in Reviews : r \in OpenReviewsOf(d) => rvStatus'[r] \in OpenReview
      BY <2>1, <2>2, <2>3 DEF OpenReviewsOf, OpenReview
    <3> QED BY <1>1, <3>1, <3>2
  <2>4. CASE worker[w].doc = d
    <3>1. new \in OpenReviewsOf(d)'
      BY <1>0, <2>1, <2>2, <2>4 DEF OpenReviewsOf, OpenReview, TypeOK
    <3>2. UNCHANGED session
      BY <1>13 DEF CloseReviews
    <3>3. \A q \in Sessions : ~(session'[q].pc = "locked" /\ session'[q].review = new)
      BY <2>1, <3>2 DEF WellTyped, SessionsRefer
    <3> QED BY <3>1, <3>3, UnheldNotDoomed
  <2> QED BY <2>3, <2>4
<1>14. CASE UNCHANGED docVars
  <2>1. docStatus' = docStatus
    BY <1>14 DEF docVars
  <2> QED BY <1>7, <1>9, <1>10, <1>11, <1>12, <1>13, <1>14, ReviewFrame
<1> QED BY <1>3, <1>4, <1>5, <1>6, <1>9, <1>10, <1>11, <1>12, <1>13, <1>14, DocFrame

LEMMA WaitingInvStep == WellTyped /\ LockInv /\ WaitingInv /\ [Next]_vars => WaitingInv'
BY WaitingStep, ApprovalSawPending DEF WaitingInv

LEMMA WaitingInvInit == Init => WaitingInv
BY DEF Init, WaitingInv, IdleSession

\* A document that waits for review has a review HR can decide, whatever
\* recognitions, rejections and requests for information ran over it.
THEOREM WaitingIsDecidable == Spec => []WaitingHasOpenReview
<1>1. WaitingInv => WaitingHasOpenReview
  BY DEF WaitingInv, WaitingHasOpenReview
<1> QED BY <1>1, WellTypedAlways, LockInvAlways, WaitingInvInit, WaitingInvStep, PTL DEF Spec

-----------------------------------------------------------------------------
(***************************************************************************)
(* Open reviews.  Each was opened by a slot of its own: a slot that opens  *)
(* one closes the one it opened before, because that was open when it      *)
(* selected the open ones.                                                 *)
(***************************************************************************)

\* Slot w is about to replace the reviews of document d.
Closing(w, d) == worker[w].pc \in {"close", "commit"} /\ worker[w].doc = d

\* opener names the slot that opened each open review of d.
Opened(d, opener) ==
    /\ opener \in [OpenReviewsOf(d) -> Workers]
    /\ \A q, r \in OpenReviewsOf(d) : opener[q] = opener[r] => q = r
    /\ \A r \in OpenReviewsOf(d) : Closing(opener[r], d) => r \in worker[opener[r]].closing

SlotInv == \A d \in Docs : \E opener : Opened(d, opener)

\* Only a recognition creates an open review.
LEMMA NoNewOpenReview ==
    ASSUME WellTyped, LockInv, [Next]_vars,
           ~ \E w \in Workers : CloseReviews(w), NEW d \in Docs
    PROVE  OpenReviewsOf(d)' \subseteq OpenReviewsOf(d)
<1> SUFFICES ASSUME NEW r \in Reviews, rvDoc'[r] = d, rvStatus'[r] \in OpenReview
             PROVE  rvDoc[r] = d /\ rvStatus[r] \in OpenReview
  BY DEF OpenReviewsOf
<1>0. TypeOK
  BY DEF WellTyped
<1>1. CASE UNCHANGED reviewVars
  BY <1>1 DEF reviewVars
<1>2. ASSUME NEW s \in Sessions, Approve(s) \/ Reject(s) \/ AskForInfo(s)
      PROVE  rvDoc[r] = d /\ rvStatus[r] \in OpenReview
  <2>1. rvDoc' = rvDoc /\ rvStatus[session[s].review] \in OpenReview
    BY <1>2 DEF Approve, Reject, AskForInfo, LockInv, DecisionIsCurrent
  <2>2. r # session[s].review => rvStatus'[r] = rvStatus[r]
    BY <1>0, <1>2 DEF Approve, Reject, AskForInfo, Decide, TypeOK
  <2> QED BY <2>1, <2>2
<1> QED BY <1>1, <1>2, ReviewFrame

\* A slot comes to replace reviews by selecting the open ones, and keeps those.
LEMMA ClosingStep ==
    ASSUME WellTyped, [Next]_vars, NEW w \in Workers, NEW d \in Docs, Closing(w, d)'
    PROVE  \/ Closing(w, d) /\ worker'[w].closing = worker[w].closing
           \/ worker'[w].closing = OpenReviewsOf(d)
<1> DEFINE Goal == \/ Closing(w, d) /\ worker'[w].closing = worker[w].closing
                   \/ worker'[w].closing = OpenReviewsOf(d)
<1>0. /\ worker \in [Workers -> WorkerType] /\ worker[w] \in WorkerType
      /\ worker'[w].pc \in {"close", "commit"} /\ worker'[w].doc = d
  BY DEF WellTyped, TypeOK, Closing
<1>1. CASE worker'[w] = worker[w]
  BY <1>0, <1>1 DEF Closing
<1>2. ASSUME NEW v \in Workers, EndWorker(v) PROVE Goal
  BY <1>0, <1>1, <1>2 DEF EndWorker, IdleWorker
<1>3. ASSUME NEW v \in Workers, NEW c \in Docs, NEW t \in 0..MaxRetries, Receive(v, c, t)
      PROVE  Goal
  <2>1. CASE worker' = [worker EXCEPT ![v] =
                [IdleWorker EXCEPT !.pc = "claim", !.doc = c, !.tries = t,
                                   !.seen = docStatus[c]]]
    BY <1>0, <1>1, <2>1 DEF IdleWorker
  <2> QED BY <1>1, <1>3, <2>1 DEF Receive
<1>4. ASSUME NEW v \in Workers, v # w,
             \/ Claim(v) \/ Load(v) \/ ExtractOk(v) \/ FlushDocument(v) \/ CloseError(v)
             \/ MarkRead(v) \/ Marking(v, 1) \/ Marking(v, 2)
      PROVE  Goal
  <2>1. worker'[w] = worker[w]
    BY <1>0, <1>4
       DEF Claim, Load, ExtractOk, FlushDocument, CloseError, MarkRead, Marking, EndWorker
  <2> QED BY <1>1, <2>1
<1>5. CASE Claim(w)
  BY <1>0, <1>5 DEF Claim, WorkerType
<1>6. CASE Load(w)
  BY <1>0, <1>6 DEF Load, WorkerType
<1>7. CASE ExtractOk(w)
  BY <1>0, <1>7 DEF ExtractOk, WorkerType
<1>8. CASE FlushDocument(w)
  BY <1>0, <1>8 DEF FlushDocument, WorkerType, Closing
<1>9. CASE CloseError(w)
  BY <1>0, <1>9 DEF CloseError, WorkerType
<1>10. CASE MarkRead(w)
  <2>1. CASE worker' = [worker EXCEPT ![w] = [@ EXCEPT !.pc = "fail", !.seen = "PARSING"]]
    BY <1>0, <2>1 DEF WorkerType
  <2> QED BY <1>2, <1>10, <2>1 DEF MarkRead
<1>11. CASE Marking(w, 1) \/ Marking(w, 2)
  <2>1. CASE Marking(w, 1)
    BY <1>0, <2>1 DEF Marking, WorkerType
  <2>2. CASE Marking(w, 2)
    BY <1>0, <2>2 DEF Marking, WorkerType
  <2> QED BY <1>11, <2>1, <2>2
<1>12. ASSUME NEW v \in Workers,
              \/ Claim(v) \/ Load(v) \/ ExtractOk(v) \/ FlushDocument(v) \/ CloseError(v)
              \/ MarkRead(v) \/ Marking(v, 1) \/ Marking(v, 2)
       PROVE  Goal
  <2>1. CASE v = w
    BY <1>5, <1>6, <1>7, <1>8, <1>9, <1>10, <1>11, <1>12, <2>1
  <2> QED BY <1>4, <1>12, <2>1
<1> QED BY <1>1, <1>2, <1>3, <1>12, WorkerFrame

\* What a slot leaves behind when it opens a review: of its document the reviews it did
\* not know of, and the new one.
LEMMA ReplacingStep ==
    ASSUME WellTyped, NEW w \in Workers, CloseReviews(w), NEW d \in Docs
    PROVE  /\ \A v \in Workers : Closing(v, d)' =>
                  v # w /\ Closing(v, d) /\ worker'[v].closing = worker[v].closing
           /\ d # worker[w].doc => OpenReviewsOf(d)' \subseteq OpenReviewsOf(d)
           /\ d = worker[w].doc =>
                  /\ Closing(w, d)
                  /\ \E new \in Reviews : OpenReviewsOf(d)'
                         \subseteq (OpenReviewsOf(d) \ worker[w].closing) \cup {new}
<1>0. TypeOK /\ worker[w].pc = "commit"
  BY DEF WellTyped, CloseReviews
<1>1. worker' = [worker EXCEPT ![w] = IdleWorker]
  BY DEF CloseReviews, EndWorker
<1>2. PICK new \in Reviews :
         /\ rvStatus' = [r \in Reviews |->
                IF r \in worker[w].closing THEN "REJECTED"
                ELSE IF r = new THEN "PENDING" ELSE rvStatus[r]]
         /\ rvDoc' = [rvDoc EXCEPT ![new] = worker[w].doc]
  BY DEF CloseReviews
<1>3. ASSUME NEW v \in Workers, Closing(v, d)'
      PROVE  v # w /\ Closing(v, d) /\ worker'[v].closing = worker[v].closing
  BY <1>0, <1>1, <1>3 DEF Closing, IdleWorker, TypeOK
<1>4. rvDoc'[new] = worker[w].doc /\ \A r \in Reviews \ {new} : rvDoc'[r] = rvDoc[r]
  BY <1>0, <1>2 DEF TypeOK
<1>5. \A r \in Reviews : rvStatus'[r] \in OpenReview =>
           r \notin worker[w].closing /\ (r # new => rvStatus'[r] = rvStatus[r])
  BY <1>2 DEF OpenReview
<1>6. d # worker[w].doc => OpenReviewsOf(d)' \subseteq OpenReviewsOf(d)
  BY <1>4, <1>5 DEF OpenReviewsOf
<1>7. OpenReviewsOf(d)' \subseteq (OpenReviewsOf(d) \ worker[w].closing) \cup {new}
  BY <1>4, <1>5 DEF OpenReviewsOf
<1> QED BY <1>0, <1>3, <1>6, <1>7 DEF Closing

\* Fewer open reviews keep their openers.
LEMMA FewerOpened ==
    ASSUME NEW d \in Docs, NEW opener, Opened(d, opener),
           OpenReviewsOf(d)' \subseteq OpenReviewsOf(d),
           \A w \in Workers : Closing(w, d)' =>
               \/ Closing(w, d) /\ worker'[w].closing = worker[w].closing
               \/ worker'[w].closing = OpenReviewsOf(d)
    PROVE  \E f : Opened(d, f)'
<1> DEFINE f == [r \in OpenReviewsOf(d)' |-> opener[r]]
<1>1. f \in [OpenReviewsOf(d)' -> Workers] /\ \A r \in OpenReviewsOf(d)' : f[r] = opener[r]
  BY DEF Opened
<1>2. \A q, r \in OpenReviewsOf(d)' : f[q] = f[r] => q = r
  BY <1>1 DEF Opened
<1>3. ASSUME NEW r \in OpenReviewsOf(d)', NEW v, v = f[r], Closing(v, d)'
      PROVE  r \in worker'[v].closing
  BY <1>1, <1>3 DEF Opened
<1>4. PICK g : g = f
  OBVIOUS
<1> HIDE DEF f
<1>5. Opened(d, g)'
  BY <1>1, <1>2, <1>3, <1>4 DEF Opened
<1> QED BY <1>5

\* The new review has its own opener: what that slot opened before is closed.
LEMMA OneMoreOpened ==
    ASSUME NEW d \in Docs, NEW opener, Opened(d, opener), NEW w \in Workers, NEW new,
           Closing(w, d), OpenReviewsOf(d)' \subseteq (OpenReviewsOf(d) \ worker[w].closing) \cup {new},
           \A v \in Workers : Closing(v, d)' =>
               v # w /\ Closing(v, d) /\ worker'[v].closing = worker[v].closing
    PROVE  \E f : Opened(d, f)'
<1> DEFINE f == [r \in OpenReviewsOf(d)' |-> IF r = new THEN w ELSE opener[r]]
<1>1. \A r \in OpenReviewsOf(d)' : r # new =>
           /\ r \in OpenReviewsOf(d) /\ opener[r] \in Workers
           /\ opener[r] # w /\ f[r] = opener[r]
  BY DEF Opened
<1>2. f \in [OpenReviewsOf(d)' -> Workers] /\ \A r \in OpenReviewsOf(d)' : r = new => f[r] = w
  BY <1>1
<1>3. \A q, r \in OpenReviewsOf(d)' : f[q] = f[r] => q = r
  BY <1>1, <1>2 DEF Opened
<1>4. ASSUME NEW r \in OpenReviewsOf(d)', NEW v, v = f[r], Closing(v, d)'
      PROVE  r \in worker'[v].closing
  BY <1>1, <1>2, <1>4 DEF Opened
<1>5. PICK g : g = f
  OBVIOUS
<1> HIDE DEF f
<1>6. Opened(d, g)'
  BY <1>2, <1>3, <1>4, <1>5 DEF Opened
<1> QED BY <1>6

LEMMA SlotInvStep == WellTyped /\ LockInv /\ SlotInv /\ [Next]_vars => SlotInv'
<1> SUFFICES ASSUME WellTyped, LockInv, SlotInv, [Next]_vars, NEW d \in Docs
             PROVE  \E f : Opened(d, f)'
  BY DEF SlotInv
<1>1. PICK opener : Opened(d, opener)
  BY DEF SlotInv
<1>2. CASE ~ \E w \in Workers : CloseReviews(w)
  BY <1>1, <1>2, NoNewOpenReview, ClosingStep, FewerOpened
<1>3. ASSUME NEW w \in Workers, CloseReviews(w)
      PROVE  \E f : Opened(d, f)'
  <2>1. CASE d # worker[w].doc
    BY <1>1, <1>3, <2>1, ReplacingStep, FewerOpened
  <2>2. CASE d = worker[w].doc
    <3>1. PICK new \in Reviews : OpenReviewsOf(d)'
                                    \subseteq (OpenReviewsOf(d) \ worker[w].closing) \cup {new}
      BY <1>3, <2>2, ReplacingStep
    <3> QED BY <1>1, <1>3, <2>2, <3>1, ReplacingStep, OneMoreOpened
  <2> QED BY <2>1, <2>2
<1> QED BY <1>2, <1>3

LEMMA SlotInvInit == Init => SlotInv
<1> SUFFICES ASSUME Init, NEW d \in Docs PROVE \E f : Opened(d, f)
  BY DEF SlotInv
<1>1. OpenReviewsOf(d) = {}
  BY DEF Init, OpenReviewsOf, OpenReview
<1>2. Opened(d, [r \in OpenReviewsOf(d) |-> CHOOSE w : w \in Workers])
  BY <1>1 DEF Opened
<1> QED BY <1>2

\* However many slots recognize one document at once and however HR's decisions fall
\* between them, it never has more open reviews than there are slots.
THEOREM AsManyReviewsAsSlots == Spec => []OpenReviewsPerSlot
<1>1. ASSUME SlotInv PROVE OpenReviewsPerSlot
  <2> SUFFICES ASSUME NEW d \in Docs
               PROVE  Cardinality(OpenReviewsOf(d)) <= Cardinality(Workers)
    BY DEF OpenReviewsPerSlot
  <2>1. PICK opener : Opened(d, opener)
    BY <1>1 DEF SlotInv
  <2>2. opener \in Injection(OpenReviewsOf(d), Workers)
    BY <2>1 DEF Opened, Injection, IsInjective
  <2> QED BY <2>2, SlotsAssumption, FS_Injection
<1> QED BY <1>1, WellTypedAlways, LockInvAlways, SlotInvInit, SlotInvStep, PTL DEF Spec
=============================================================================
