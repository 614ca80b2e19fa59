----------------------- MODULE DocumentPipelineProofs -----------------------
(***************************************************************************)
(* Proofs about DocumentPipeline, for any number of documents, reviews,    *)
(* requests, recognition tasks and retries.                                *)
(***************************************************************************)
EXTENDS DocumentPipeline, TLAPS

(***************************************************************************)
(* What each step leaves alone.  The lemmas below say which actions can    *)
(* change the reviews, the sessions and the tasks; the proofs of the       *)
(* invariants split on these actions only.                                 *)
(***************************************************************************)

LEMMA DocFrame ==
    ASSUME [Next]_vars
    PROVE  \/ UNCHANGED docVars
           \/ \E d \in Docs : CreateUploadIntent(d) \/ TimeoutPasses(d)
           \/ \E s \in Sessions :
                 \/ ConfirmCommit(s) \/ ConfirmFail(s) \/ RecognizeCommit(s)
                 \/ Approve(s) \/ Reject(s) \/ AskForInfo(s)
           \/ \E w \in Workers : Claim(w) \/ CloseReviews(w) \/ MarkCommit(w)
           \/ SweepStale
BY DEF Next, SessionStep, WorkerStep, vars, docVars, ConfirmRead,
       RecognizeRead, ReviewAsk, RecognizePublish, ReviewLock, ReviewRefuse,
       SessionAbort, Receive, Load, ExtractOk, ExtractHttpError, ExtractError,
       FlushDocument, MarkRead, CloseError, WorkerCrash

LEMMA ReviewFrame ==
    ASSUME [Next]_vars
    PROVE  \/ UNCHANGED reviewVars
           \/ \E s \in Sessions : Approve(s) \/ Reject(s) \/ AskForInfo(s)
           \/ \E w \in Workers : CloseReviews(w)
BY DEF Next, SessionStep, WorkerStep, vars, reviewVars, CreateUploadIntent,
       TimeoutPasses, ConfirmRead, RecognizeRead, ReviewAsk, ConfirmCommit,
       ConfirmFail, RecognizeCommit, RecognizePublish, ReviewLock,
       ReviewRefuse, SessionAbort, Receive, Claim, Load, ExtractOk,
       ExtractHttpError, ExtractError, FlushDocument, MarkRead, MarkCommit,
       CloseError, WorkerCrash, SweepStale

LEMMA SessionFrame ==
    ASSUME [Next]_vars
    PROVE  \/ UNCHANGED session
           \/ \E s \in Sessions :
                 \/ EndSession(s)
                 \/ RecognizeCommit(s)
                 \/ ReviewLock(s)
                 \/ \E d \in Docs : ConfirmRead(s, d) \/ RecognizeRead(s, d)
                 \/ \E r \in Reviews, op \in ReviewOps : ReviewAsk(s, r, op)
BY DEF Next, SessionStep, WorkerStep, vars, CreateUploadIntent, TimeoutPasses,
       ConfirmCommit, ConfirmFail, RecognizePublish, ReviewRefuse, Approve,
       Reject, AskForInfo, SessionAbort, Receive, Claim, Load, ExtractOk,
       ExtractHttpError, ExtractError, FlushDocument, CloseReviews, MarkRead,
       MarkCommit, CloseError, WorkerCrash, SweepStale

\* The steps of a task, by the field of its record they change.
Marking(w, n) == worker' = [worker EXCEPT ![w] = [@ EXCEPT !.pc = "mark", !.passes = n]]

LEMMA WorkerFrame ==
    ASSUME [Next]_vars
    PROVE  \/ UNCHANGED worker
           \/ \E w \in Workers :
                 \/ EndWorker(w)
                 \/ \E d \in Docs, t \in 0..MaxRetries : Receive(w, d, t)
                 \/ Claim(w) \/ Load(w) \/ ExtractOk(w) \/ FlushDocument(w)
                 \/ CloseError(w) \/ MarkRead(w)
                 \/ worker[w].pc \in {"extract", "fail"} /\ (Marking(w, 1) \/ Marking(w, 2))
BY DEF Next, SessionStep, WorkerStep, Marking, vars, CreateUploadIntent,
       TimeoutPasses, ConfirmRead, RecognizeRead, ReviewAsk, ConfirmCommit,
       ConfirmFail, RecognizeCommit, RecognizePublish, ReviewLock,
       ReviewRefuse, Approve, Reject, AskForInfo, SessionAbort,
       ExtractHttpError, ExtractError, CloseReviews, MarkCommit, WorkerCrash,
       SweepStale

-----------------------------------------------------------------------------
(***************************************************************************)
(* Type correctness.  A session or a task reads the row of the document    *)
(* its record names, so the types need that records refer to rows that     *)
(* exist.                                                                  *)
(***************************************************************************)

ReviewsRefer ==
    \A r \in Reviews : rvStatus[r] # "NONE" => rvDoc[r] \in Docs

SessionsRefer ==
    \A s \in Sessions :
        /\ session[s].pc \in {"read", "publish"} => session[s].doc \in Docs
        /\ session[s].pc \in {"asked", "locked"} =>
              /\ session[s].review \in Reviews
              /\ session[s].op \in ReviewOps
              /\ rvStatus[session[s].review] # "NONE"
        /\ session[s].pc = "locked" => session[s].doc = rvDoc[session[s].review]

WorkersRefer ==
    \A w \in Workers : worker[w].pc # "idle" =>
        /\ worker[w].doc \in Docs
        /\ \A r \in worker[w].closing :
              rvStatus[r] # "NONE" /\ rvDoc[r] = worker[w].doc

WellTyped == TypeOK /\ ReviewsRefer /\ SessionsRefer /\ WorkersRefer

LEMMA IdleTypes == IdleSession \in SessionType /\ IdleWorker \in WorkerType
BY RetriesAssumption
   DEF SessionType, IdleSession, Ops, SessionPc, WorkerType, IdleWorker, WorkerPc

LEMMA WellTypedInit == Init => WellTyped
<1> SUFFICES ASSUME Init PROVE WellTyped
  OBVIOUS
<1>1. TypeOK
  BY IdleTypes DEF Init, TypeOK, DocStatus, ReviewStatus
<1>2. ReviewsRefer /\ SessionsRefer /\ WorkersRefer
  BY DEF Init, ReviewsRefer, SessionsRefer, WorkersRefer, IdleSession, IdleWorker
<1> QED BY <1>1, <1>2 DEF WellTyped

\* A counter of a table stays a number when it is incremented.
LEMMA Increment ==
    ASSUME NEW A, NEW f \in [A -> Nat], NEW x \in A
    PROVE  [f EXCEPT ![x] = @ + 1] \in [A -> Nat]
<1>1. f[x] + 1 \in Nat
  OBVIOUS
<1> QED BY <1>1

DocsTyped ==
    /\ docStatus \in [Docs -> DocStatus]
    /\ docSha \in [Docs -> BOOLEAN]
    /\ docStale \in [Docs -> BOOLEAN]

\* An UPDATE with a legal status keeps the types of the table.
LEMMA UpdateTyped ==
    ASSUME DocsTyped, NEW d, NEW seen, NEW new \in DocStatus,
           NEW other \in BOOLEAN, Update(d, seen, new, other)
    PROVE  docStatus' \in [Docs -> DocStatus] /\ docStale' \in [Docs -> BOOLEAN]
BY DEF DocsTyped, Update

LEMMA FlushTyped ==
    ASSUME DocsTyped, NEW d, NEW seen, NEW new \in DocStatus,
           NEW other \in BOOLEAN, Flush(d, seen, new, other)
    PROVE  docStatus' \in [Docs -> DocStatus] /\ docStale' \in [Docs -> BOOLEAN]
BY UpdateTyped DEF Flush

LEMMA DocsTypedStep == ASSUME TypeOK, [Next]_vars PROVE DocsTyped'
<1> DocsTyped
  BY DEF TypeOK, DocsTyped
<1> USE DEF DocStatus
<1>1. CASE UNCHANGED docVars
  BY <1>1 DEF docVars, DocsTyped
<1>2. ASSUME NEW d \in Docs, CreateUploadIntent(d) \/ TimeoutPasses(d)
      PROVE  DocsTyped'
  BY <1>2 DEF CreateUploadIntent, TimeoutPasses, DocsTyped
<1>3. ASSUME NEW s \in Sessions, ConfirmCommit(s) \/ ConfirmFail(s)
      PROVE  DocsTyped'
  BY <1>3, FlushTyped DEF ConfirmCommit, ConfirmFail, DocsTyped
<1>4. ASSUME NEW s \in Sessions,
             RecognizeCommit(s) \/ Approve(s) \/ Reject(s) \/ AskForInfo(s)
      PROVE  DocsTyped'
  BY <1>4, FlushTyped DEF RecognizeCommit, Approve, Reject, AskForInfo, DocsTyped
<1>5. ASSUME NEW w \in Workers, Claim(w) \/ CloseReviews(w) \/ MarkCommit(w)
      PROVE  DocsTyped'
  BY <1>5, FlushTyped, UpdateTyped DEF Claim, CloseReviews, MarkCommit, DocsTyped
<1>6. CASE SweepStale
  BY <1>6 DEF SweepStale, DocsTyped
<1> QED BY <1>1, <1>2, <1>3, <1>4, <1>5, <1>6, DocFrame

ReviewsTyped ==
    /\ rvStatus \in [Reviews -> ReviewStatus]
    /\ rvDoc \in [Reviews -> Docs \cup {NoDoc}]
    /\ rvVersion \in [Reviews -> Nat]
    /\ issued \in [Reviews -> Nat]

LEMMA ReviewsTypedStep == ASSUME WellTyped, [Next]_vars PROVE ReviewsTyped'
<1> ReviewsTyped
  BY DEF WellTyped, TypeOK, ReviewsTyped
<1>1. CASE UNCHANGED reviewVars
  BY <1>1 DEF reviewVars, ReviewsTyped
<1>2. ASSUME NEW s \in Sessions, Approve(s) \/ Reject(s) \/ AskForInfo(s)
      PROVE  ReviewsTyped'
  <2> DEFINE r == session[s].review
  <2>0. r \in Reviews
    BY <1>2 DEF Approve, Reject, AskForInfo, WellTyped, SessionsRefer
  <2>1. PICK status \in ReviewStatus : Decide(r, status)
    BY <1>2 DEF Approve, Reject, AskForInfo, ReviewStatus
  <2>2. rvStatus' \in [Reviews -> ReviewStatus] /\ rvVersion' \in [Reviews -> Nat]
    BY <2>0, <2>1, Increment DEF Decide, ReviewsTyped
  <2>3. [issued EXCEPT ![r] = @ + 1] \in [Reviews -> Nat]
    BY <2>0, Increment DEF ReviewsTyped
  <2>4. rvDoc' = rvDoc /\ issued' \in [Reviews -> Nat]
    BY <1>2, <2>3 DEF Approve, Reject, AskForInfo, ReviewsTyped
  <2> QED BY <2>2, <2>4 DEF ReviewsTyped
<1>3. ASSUME NEW w \in Workers, CloseReviews(w)
      PROVE  ReviewsTyped'
  BY <1>3 DEF CloseReviews, ReviewsTyped, ReviewStatus, WellTyped, WorkersRefer
<1> QED BY <1>1, <1>2, <1>3, ReviewFrame

LEMMA QueueTypedStep ==
    ASSUME WellTyped, [Next]_vars
    PROVE  queue' \in [Docs -> [0..MaxRetries -> Nat]] /\ dispatches' \in Nat
<1> DEFINE Goal == queue' \in [Docs -> [0..MaxRetries -> Nat]] /\ dispatches' \in Nat
<1>0. /\ queue \in [Docs -> [0..MaxRetries -> Nat]]
      /\ dispatches \in Nat
  BY DEF WellTyped, TypeOK
<1>1. CASE UNCHANGED queueVars
  BY <1>0, <1>1 DEF queueVars
<1>2. ASSUME NEW d \in Docs, NEW t \in 0..MaxRetries, Publish(d, t),
             UNCHANGED dispatches
      PROVE  Goal
  <2>1. [queue[d] EXCEPT ![t] = @ + 1] \in [0..MaxRetries -> Nat]
    BY <1>0, Increment
  <2> QED BY <1>0, <1>2, <2>1 DEF Publish
<1>3. ASSUME NEW s \in Sessions, NEW d \in Docs, RecognizeRead(s, d)
      PROVE  Goal
  BY <1>0, <1>3 DEF RecognizeRead
<1>4. ASSUME NEW w \in Workers, NEW d \in Docs, NEW t \in 0..MaxRetries,
             Receive(w, d, t)
      PROVE  Goal
  <2>0. queue[d] \in [0..MaxRetries -> Nat]
    BY <1>0
  <2>1. queue[d][t] \in Nat /\ queue[d][t] > 0
    BY <2>0, <1>4 DEF Receive
  <2>2. [queue[d] EXCEPT ![t] = @ - 1] \in [0..MaxRetries -> Nat]
    <3>1. queue[d][t] - 1 \in Nat
      BY <2>1
    <3> QED BY <2>0, <3>1
  <2> QED BY <1>0, <1>4, <2>2 DEF Receive
<1>5. ASSUME NEW s \in Sessions, RecognizePublish(s)
      PROVE  Goal
  BY <1>2, <1>5, RetriesAssumption DEF RecognizePublish, WellTyped, SessionsRefer
<1>6. ASSUME NEW w \in Workers, ExtractHttpError(w)
      PROVE  Goal
  <2>1. worker[w].doc \in Docs /\ worker[w].tries \in 0..MaxRetries
    BY <1>6 DEF ExtractHttpError, WellTyped, WorkersRefer, TypeOK, WorkerType
  <2>2. worker[w].tries < MaxRetries => worker[w].tries + 1 \in 0..MaxRetries
    BY <2>1, RetriesAssumption
  <2> QED BY <1>1, <1>2, <1>6, <2>1, <2>2 DEF ExtractHttpError, queueVars
<1>7. \/ UNCHANGED queueVars
      \/ \E s \in Sessions : \/ \E d \in Docs : RecognizeRead(s, d)
                             \/ RecognizePublish(s)
      \/ \E w \in Workers : \/ \E d \in Docs, t \in 0..MaxRetries : Receive(w, d, t)
                            \/ ExtractHttpError(w)
  BY DEF Next, SessionStep, WorkerStep, vars, queueVars, CreateUploadIntent,
         TimeoutPasses, ConfirmRead, ReviewAsk, ConfirmCommit, ConfirmFail,
         RecognizeCommit, ReviewLock, ReviewRefuse, Approve, Reject,
         AskForInfo, SessionAbort, Claim, Load, ExtractOk, ExtractError,
         FlushDocument, CloseReviews, MarkRead, MarkCommit, CloseError, WorkerCrash,
         SweepStale
<1> QED BY <1>1, <1>3, <1>4, <1>5, <1>6, <1>7

LEMMA SessionTypedStep ==
    ASSUME WellTyped, [Next]_vars
    PROVE  session' \in [Sessions -> SessionType]
<1> DEFINE Goal == session' \in [Sessions -> SessionType]
<1>0. /\ session \in [Sessions -> SessionType]
      /\ docStatus \in [Docs -> DocStatus]
      /\ rvVersion \in [Reviews -> Nat]
  BY DEF WellTyped, TypeOK
<1>1. CASE UNCHANGED session
  BY <1>0, <1>1
<1>2. ASSUME NEW s \in Sessions, EndSession(s)
      PROVE  Goal
  BY <1>0, <1>2, IdleTypes DEF EndSession
<1>3. ASSUME NEW s \in Sessions, RecognizeCommit(s)
      PROVE  Goal
  <2>1. [session[s] EXCEPT !.pc = "publish"] \in SessionType
    BY <1>0 DEF SessionType, SessionPc
  <2> QED BY <1>0, <1>3, <2>1 DEF RecognizeCommit
<1>4. ASSUME NEW s \in Sessions, ReviewLock(s)
      PROVE  Goal
  <2> DEFINE d == rvDoc[session[s].review]
  <2>1. d \in Docs
    BY <1>4 DEF ReviewLock, WellTyped, ReviewsRefer, SessionsRefer
  <2>2. docStatus[d] \in DocStatus
    BY <1>0, <2>1
  <2>3. [session[s] EXCEPT !.pc = "locked", !.doc = d, !.seen = docStatus[d]]
          \in SessionType
    BY <1>0, <2>1, <2>2 DEF SessionType, SessionPc
  <2> QED BY <1>0, <1>4, <2>3 DEF ReviewLock
<1>5. ASSUME NEW s \in Sessions, NEW d \in Docs,
             ConfirmRead(s, d) \/ RecognizeRead(s, d)
      PROVE  Goal
  <2>1. docStatus[d] \in DocStatus
    BY <1>0
  <2>2. \A op \in Ops :
          [IdleSession EXCEPT !.op = op, !.pc = "read", !.doc = d, !.seen = docStatus[d]]
            \in SessionType
    BY <2>1 DEF SessionType, SessionPc, Ops, IdleSession
  <2>3. "confirm" \in Ops /\ "recognize" \in Ops
    BY DEF Ops
  <2> QED BY <1>0, <1>5, <2>2, <2>3 DEF ConfirmRead, RecognizeRead
<1>6. ASSUME NEW s \in Sessions, NEW r \in Reviews, NEW op \in ReviewOps,
             ReviewAsk(s, r, op)
      PROVE  Goal
  BY <1>0, <1>6 DEF ReviewAsk, ReviewOps, SessionType, SessionPc, Ops, IdleSession
<1> QED BY <1>1, <1>2, <1>3, <1>4, <1>5, <1>6, SessionFrame

LEMMA WorkerTypedStep ==
    ASSUME WellTyped, [Next]_vars
    PROVE  worker' \in [Workers -> WorkerType]
<1> DEFINE Goal == worker' \in [Workers -> WorkerType]
<1>0. /\ worker \in [Workers -> WorkerType]
      /\ docStatus \in [Docs -> DocStatus]
  BY DEF WellTyped, TypeOK
<1> USE DEF WorkerPc
<1>1. CASE UNCHANGED worker
  BY <1>0, <1>1
<1>2. ASSUME NEW w \in Workers, EndWorker(w)
      PROVE  Goal
  BY <1>0, <1>2, IdleTypes DEF EndWorker
<1>3. ASSUME NEW w \in Workers, NEW d \in Docs, NEW t \in 0..MaxRetries,
             Receive(w, d, t)
      PROVE  Goal
  <2>1. [IdleWorker EXCEPT !.pc = "claim", !.doc = d, !.tries = t,
                           !.seen = docStatus[d]] \in WorkerType
    BY <1>0 DEF WorkerType, IdleWorker
  <2> QED BY <1>0, <1>3, <2>1 DEF Receive
<1>4. ASSUME NEW w \in Workers, Claim(w)
      PROVE  Goal
  <2>1. [worker[w] EXCEPT !.pc = "load"] \in WorkerType
    BY <1>0 DEF WorkerType
  <2> QED BY <1>0, <1>4, <2>1 DEF Claim
<1>5. ASSUME NEW w \in Workers, Load(w)
      PROVE  Goal
  <2>1. docStatus[worker[w].doc] \in DocStatus
    BY <1>0, <1>5 DEF Load, WellTyped, WorkersRefer
  <2>2. [worker[w] EXCEPT !.pc = "extract", !.seen = docStatus[worker[w].doc]]
          \in WorkerType
    BY <1>0, <2>1 DEF WorkerType
  <2> QED BY <1>0, <1>5, <2>2 DEF Load
<1>6. ASSUME NEW w \in Workers, ExtractOk(w)
      PROVE  Goal
  <2>1. [worker[w] EXCEPT !.pc = "close", !.closing = OpenReviewsOf(worker[w].doc)]
          \in WorkerType
    BY <1>0 DEF WorkerType, OpenReviewsOf
  <2> QED BY <1>0, <1>6, <2>1 DEF ExtractOk
<1>7. ASSUME NEW w \in Workers, CloseError(w)
      PROVE  Goal
  <2>1. [worker[w] EXCEPT !.pc = "mark", !.passes = 1, !.closing = {}] \in WorkerType
    <3>1. worker[w] \in WorkerType /\ {} \in SUBSET Reviews /\ 1 \in {0, 1, 2}
      BY <1>0
    <3> QED BY <3>1 DEF WorkerType
  <2> QED BY <1>0, <1>7, <2>1 DEF CloseError
<1>8. ASSUME NEW w \in Workers, MarkRead(w)
      PROVE  Goal
  <2>1. [worker[w] EXCEPT !.pc = "fail", !.seen = "PARSING"] \in WorkerType
    <3>1. worker[w] \in WorkerType /\ "PARSING" \in DocStatus
      BY <1>0 DEF DocStatus
    <3> QED BY <3>1 DEF WorkerType
  <2> QED BY <1>0, <1>8, <2>1, IdleTypes DEF MarkRead, EndWorker
<1>9. ASSUME NEW w \in Workers, Marking(w, 1) \/ Marking(w, 2)
      PROVE  Goal
  <2>1. \A n \in {1, 2} :
          [worker[w] EXCEPT !.pc = "mark", !.passes = n] \in WorkerType
    BY <1>0 DEF WorkerType
  <2> QED BY <1>0, <1>9, <2>1 DEF Marking
<1>10. ASSUME NEW w \in Workers, FlushDocument(w)
       PROVE  Goal
  <2>1. [worker[w] EXCEPT !.pc = "commit"] \in WorkerType
    BY <1>0 DEF WorkerType
  <2> QED BY <1>0, <1>10, <2>1 DEF FlushDocument
<1> QED BY <1>1, <1>2, <1>3, <1>4, <1>5, <1>6, <1>7, <1>8, <1>9, <1>10, WorkerFrame

LEMMA TypeOKStep == ASSUME WellTyped, [Next]_vars PROVE TypeOK'
BY DocsTypedStep, ReviewsTypedStep, QueueTypedStep, SessionTypedStep,
   WorkerTypedStep
   DEF WellTyped, TypeOK, DocsTyped, ReviewsTyped

\* A review, once created, stays and keeps its document.
LEMMA ReviewsStay ==
    ASSUME WellTyped, [Next]_vars, NEW r \in Reviews, rvStatus[r] # "NONE"
    PROVE  rvStatus'[r] # "NONE" /\ rvDoc'[r] = rvDoc[r]
<1> rvStatus \in [Reviews -> ReviewStatus] /\ rvDoc \in [Reviews -> Docs \cup {NoDoc}]
  BY DEF WellTyped, TypeOK
<1>1. CASE UNCHANGED reviewVars
  BY <1>1 DEF reviewVars
<1>2. ASSUME NEW s \in Sessions, Approve(s) \/ Reject(s) \/ AskForInfo(s)
      PROVE  rvStatus'[r] # "NONE" /\ rvDoc'[r] = rvDoc[r]
  BY <1>2 DEF Approve, Reject, AskForInfo, Decide
<1>3. ASSUME NEW w \in Workers, CloseReviews(w)
      PROVE  rvStatus'[r] # "NONE" /\ rvDoc'[r] = rvDoc[r]
  BY <1>3 DEF CloseReviews
<1> QED BY <1>1, <1>2, <1>3, ReviewFrame

LEMMA ReviewsReferStep == ASSUME WellTyped, [Next]_vars PROVE ReviewsRefer'
<1>0. /\ ReviewsRefer /\ SessionsRefer
      /\ rvDoc \in [Reviews -> Docs \cup {NoDoc}]
      /\ rvStatus \in [Reviews -> ReviewStatus]
  BY DEF WellTyped, TypeOK
<1>1. CASE UNCHANGED reviewVars
  BY <1>0, <1>1 DEF reviewVars, ReviewsRefer
<1>2. ASSUME NEW s \in Sessions, Approve(s) \/ Reject(s) \/ AskForInfo(s)
      PROVE  ReviewsRefer'
  <2>1. rvStatus[session[s].review] # "NONE"
    BY <1>0, <1>2 DEF Approve, Reject, AskForInfo, SessionsRefer
  <2> QED BY <1>0, <1>2, <2>1 DEF Approve, Reject, AskForInfo, Decide, ReviewsRefer
<1>3. ASSUME NEW w \in Workers, CloseReviews(w)
      PROVE  ReviewsRefer'
  <2>1. /\ worker[w].doc \in Docs
        /\ \A r \in worker[w].closing : rvStatus[r] # "NONE"
    BY <1>3 DEF CloseReviews, WellTyped, WorkersRefer
  <2> QED BY <1>0, <1>3, <2>1 DEF CloseReviews, ReviewsRefer
<1> QED BY <1>1, <1>2, <1>3, ReviewFrame

LEMMA SessionsReferStep == ASSUME WellTyped, [Next]_vars PROVE SessionsRefer'
<1>0. SessionsRefer /\ session \in [Sessions -> SessionType]
  BY DEF WellTyped, TypeOK
\* A session that did not move still refers to a review that stayed.
<1>1. ASSUME NEW s \in Sessions, session'[s] = session[s]
      PROVE  /\ session'[s].pc \in {"read", "publish"} => session'[s].doc \in Docs
             /\ session'[s].pc \in {"asked", "locked"} =>
                   /\ session'[s].review \in Reviews
                   /\ session'[s].op \in ReviewOps
                   /\ rvStatus'[session'[s].review] # "NONE"
             /\ session'[s].pc = "locked" =>
                   session'[s].doc = rvDoc'[session'[s].review]
  BY <1>0, <1>1, ReviewsStay DEF SessionsRefer
<1>2. CASE UNCHANGED session
  BY <1>1, <1>2 DEF SessionsRefer
<1>3. ASSUME NEW s \in Sessions, EndSession(s)
      PROVE  SessionsRefer'
  BY <1>0, <1>1, <1>3 DEF EndSession, IdleSession, SessionsRefer
<1>4. ASSUME NEW s \in Sessions, RecognizeCommit(s)
      PROVE  SessionsRefer'
  <2>1. session[s].doc \in Docs /\ session[s] \in SessionType
    BY <1>0, <1>4 DEF RecognizeCommit, SessionsRefer
  <2>2. session'[s].pc = "publish" /\ session'[s].doc \in Docs
    BY <1>0, <1>4, <2>1 DEF RecognizeCommit, SessionType
  <2>3. \A q \in Sessions : q # s => session'[q] = session[q]
    BY <1>0, <1>4 DEF RecognizeCommit
  <2> QED BY <1>1, <2>2, <2>3 DEF SessionsRefer
<1>5. ASSUME NEW s \in Sessions, ReviewLock(s)
      PROVE  SessionsRefer'
  <2>1. /\ session[s] \in SessionType
        /\ session[s].review \in Reviews
        /\ session[s].op \in ReviewOps
        /\ rvStatus[session[s].review] # "NONE"
    BY <1>0, <1>5 DEF ReviewLock, SessionsRefer
  <2>2. /\ session'[s].pc = "locked"
        /\ session'[s].review = session[s].review
        /\ session'[s].op = session[s].op
        /\ session'[s].doc = rvDoc[session[s].review]
    BY <1>0, <1>5, <2>1 DEF ReviewLock, SessionType
  <2>3. \A q \in Sessions : q # s => session'[q] = session[q]
    BY <1>0, <1>5 DEF ReviewLock
  <2>4. /\ rvStatus'[session[s].review] # "NONE"
        /\ rvDoc'[session[s].review] = rvDoc[session[s].review]
    BY <2>1, ReviewsStay
  <2> QED BY <1>1, <2>1, <2>2, <2>3, <2>4 DEF SessionsRefer
<1>6. ASSUME NEW s \in Sessions, NEW d \in Docs,
             ConfirmRead(s, d) \/ RecognizeRead(s, d)
      PROVE  SessionsRefer'
  <2>1. session'[s].pc = "read" /\ session'[s].doc = d
    <3>1. CASE ConfirmRead(s, d)
      BY <1>0, <3>1 DEF ConfirmRead, IdleSession
    <3>2. CASE RecognizeRead(s, d)
      BY <1>0, <3>2 DEF RecognizeRead, IdleSession
    <3> QED BY <1>6, <3>1, <3>2
  <2>2. \A q \in Sessions : q # s => session'[q] = session[q]
    BY <1>0, <1>6 DEF ConfirmRead, RecognizeRead
  <2> QED BY <1>1, <2>1, <2>2 DEF SessionsRefer
<1>7. ASSUME NEW s \in Sessions, NEW r \in Reviews, NEW op \in ReviewOps,
             ReviewAsk(s, r, op)
      PROVE  SessionsRefer'
  <2>1. rvStatus'[r] # "NONE"
    BY <1>7, ReviewsStay DEF ReviewAsk
  <2> QED BY <1>0, <1>1, <1>7, <2>1 DEF ReviewAsk, IdleSession, SessionsRefer
<1> QED BY <1>2, <1>3, <1>4, <1>5, <1>6, <1>7, SessionFrame

LEMMA WorkersReferStep == ASSUME WellTyped, [Next]_vars PROVE WorkersRefer'
<1> DEFINE Refers(w) == worker'[w].pc # "idle" =>
               /\ worker'[w].doc \in Docs
               /\ \A r \in worker'[w].closing :
                     rvStatus'[r] # "NONE" /\ rvDoc'[r] = worker'[w].doc
<1>0. WorkersRefer /\ worker \in [Workers -> WorkerType]
  BY DEF WellTyped, TypeOK
<1>1. ASSUME NEW w \in Workers, worker[w].pc # "idle",
             worker'[w].doc = worker[w].doc,
             worker'[w].closing \in SUBSET worker[w].closing
      PROVE  Refers(w)
  <2>1. worker[w].closing \in SUBSET Reviews
    BY <1>0 DEF WorkerType
  <2> QED BY <1>0, <1>1, <2>1, ReviewsStay DEF WorkersRefer
<1>2. ASSUME NEW w \in Workers, worker'[w] = worker[w]
      PROVE  Refers(w)
  BY <1>1, <1>2
<1>3. ASSUME NEW w \in Workers,
             \A v \in Workers : v # w => worker'[v] = worker[v],
             Refers(w)
      PROVE  WorkersRefer'
  BY <1>2, <1>3 DEF WorkersRefer
<1>4. CASE UNCHANGED worker
  BY <1>2, <1>4 DEF WorkersRefer
<1>5. ASSUME NEW w \in Workers, EndWorker(w)
      PROVE  WorkersRefer'
  BY <1>0, <1>3, <1>5 DEF EndWorker, IdleWorker
<1>6. ASSUME NEW w \in Workers, NEW d \in Docs, NEW t \in 0..MaxRetries,
             Receive(w, d, t)
      PROVE  WorkersRefer'
  <2>1. CASE UNCHANGED worker
    BY <1>4, <2>1
  <2>2. CASE worker' = [worker EXCEPT ![w] =
                [IdleWorker EXCEPT !.pc = "claim", !.doc = d, !.tries = t,
                                   !.seen = docStatus[d]]]
    BY <1>0, <1>3, <2>2 DEF IdleWorker
  <2> QED BY <1>6, <2>1, <2>2 DEF Receive
<1>7. ASSUME NEW w \in Workers, Claim(w) \/ Load(w) \/ FlushDocument(w) \/ CloseError(w)
                                 \/ Marking(w, 1) \/ Marking(w, 2),
             worker[w].pc # "idle"
      PROVE  WorkersRefer'
  <2>1. worker[w] \in WorkerType
    BY <1>0
  <2>2. /\ worker'[w].doc = worker[w].doc
        /\ worker'[w].closing \in SUBSET worker[w].closing
    <3>1. CASE Claim(w)
      BY <1>0, <2>1, <3>1 DEF Claim, WorkerType
    <3>2. CASE Load(w)
      BY <1>0, <2>1, <3>2 DEF Load, WorkerType
    <3>3. CASE CloseError(w)
      BY <1>0, <2>1, <3>3 DEF CloseError, WorkerType
    <3>4. CASE Marking(w, 1) \/ Marking(w, 2)
      BY <1>0, <2>1, <3>4 DEF Marking, WorkerType
    <3>5. CASE FlushDocument(w)
      BY <1>0, <2>1, <3>5 DEF FlushDocument, WorkerType
    <3> QED BY <1>7, <3>1, <3>2, <3>3, <3>4, <3>5
  <2>3. \A v \in Workers : v # w => worker'[v] = worker[v]
    BY <1>0, <1>7 DEF Claim, Load, FlushDocument, CloseError, Marking
  <2> QED BY <1>1, <1>3, <1>7, <2>2, <2>3
<1>8. ASSUME NEW w \in Workers, ExtractOk(w)
      PROVE  WorkersRefer'
  <2>1. worker[w] \in WorkerType /\ worker[w].doc \in Docs
    BY <1>0, <1>8 DEF ExtractOk, WorkersRefer
  <2>2. /\ worker'[w].doc = worker[w].doc
        /\ worker'[w].closing = OpenReviewsOf(worker[w].doc)
    BY <1>0, <1>8, <2>1 DEF ExtractOk, WorkerType
  <2>3. \A v \in Workers : v # w => worker'[v] = worker[v]
    BY <1>0, <1>8 DEF ExtractOk
  <2>4. \A r \in OpenReviewsOf(worker[w].doc) :
           /\ r \in Reviews /\ rvStatus[r] # "NONE"
           /\ rvDoc[r] = worker[w].doc
    BY DEF OpenReviewsOf, OpenReview
  <2> QED BY <1>3, <2>1, <2>2, <2>3, <2>4, ReviewsStay
<1>9. ASSUME NEW w \in Workers, MarkRead(w)
      PROVE  WorkersRefer'
  <2>1. worker[w] \in WorkerType /\ worker[w].pc = "mark"
    BY <1>0, <1>9 DEF MarkRead
  <2>2. CASE EndWorker(w)
    BY <1>5, <2>2
  <2>3. CASE worker' = [worker EXCEPT ![w] = [@ EXCEPT !.pc = "fail", !.seen = "PARSING"]]
    <3>1. worker'[w].doc = worker[w].doc /\ worker'[w].closing = worker[w].closing
      BY <1>0, <2>1, <2>3 DEF WorkerType
    <3>2. \A v \in Workers : v # w => worker'[v] = worker[v]
      BY <1>0, <2>3
    <3> QED BY <1>1, <1>3, <2>1, <3>1, <3>2
  <2> QED BY <1>9, <2>2, <2>3 DEF MarkRead
<1>10. \A w \in Workers :
          Claim(w) \/ Load(w) \/ FlushDocument(w) \/ CloseError(w) => worker[w].pc # "idle"
  BY DEF Claim, Load, FlushDocument, CloseError
<1> QED BY <1>4, <1>5, <1>6, <1>7, <1>8, <1>9, <1>10, WorkerFrame

LEMMA WellTypedStep == WellTyped /\ [Next]_vars => WellTyped'
BY TypeOKStep, ReviewsReferStep, SessionsReferStep, WorkersReferStep DEF WellTyped

LEMMA WellTypedAlways == Spec => []WellTyped
BY WellTypedInit, WellTypedStep, PTL DEF Spec

\* The variables and the records of the sessions and of the tasks always have
\* their types (TypeOK of the model of the documents pipeline).
THEOREM TypeCorrect == Spec => []TypeOK
<1>1. WellTyped => TypeOK
  BY DEF WellTyped
<1> QED BY <1>1, WellTypedAlways, PTL
=============================================================================
