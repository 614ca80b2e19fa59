------------------- MODULE DocumentPipelineRefinementProofs -------------------
(***************************************************************************)
(* The proof that the review endpoints implement ReviewDesk: a decision    *)
(* spread over a lock, three checks and a commit is one step of the desk.  *)
(***************************************************************************)
EXTENDS DocumentPipelineSafety, DocumentPipelineRefinement

LEMMA DeskInit == Init => Desk!Init
<1> SUFFICES ASSUME Init PROVE Desk!Init
  OBVIOUS
<1>1. ASSUME NEW r \in Reviews PROVE DeskState(rvStatus[r]) = "none"
  BY <1>1 DEF Init, DeskState
<1>2. ASSUME NEW s \in Sessions PROVE PendingRequest(s) = Desk!NoRequest
  BY <1>2 DEF Init, PendingRequest, IdleSession, Desk!NoRequest, NoReview
<1> QED BY <1>1, <1>2 DEF Init, Desk!Init

\* A step that changes neither the reviews nor a pending request is invisible.
LEMMA DeskStutter ==
    ASSUME UNCHANGED reviewVars,
           \A s \in Sessions : PendingRequest(s)' = PendingRequest(s)
    PROVE  UNCHANGED Desk!vars
BY DEF reviewVars, Desk!vars

\* The requests of the other sessions stay as they are.
LEMMA OthersPending ==
    ASSUME WellTyped, NEW s \in Sessions, NEW new,
           session' = [session EXCEPT ![s] = new],
           NEW request, request = PendingRequest(s)'
    PROVE  [q \in Sessions |-> PendingRequest(q)]'
             = [[q \in Sessions |-> PendingRequest(q)] EXCEPT ![s] = request]
<1>1. ASSUME NEW q \in Sessions, q # s PROVE PendingRequest(q)' = PendingRequest(q)
  <2>1. session'[q] = session[q]
    BY <1>1 DEF WellTyped, TypeOK
  <2> QED BY <2>1 DEF PendingRequest
<1> QED BY <1>1

DeskNow    == [r \in Reviews |-> DeskState(rvStatus[r])]
RequestNow == [s \in Sessions |-> PendingRequest(s)]

\* How each step concerns the desk.
LEMMA DeskFrame ==
    ASSUME [Next]_vars
    PROVE  \/ UNCHANGED <<reviewVars, session>>
           \/ UNCHANGED reviewVars /\ \E s \in Sessions :
                 \/ session[s].pc \in {"read", "publish"} /\ EndSession(s)
                 \/ RecognizeCommit(s) \/ ReviewLock(s) \/ ReviewRefuse(s) \/ SessionAbort(s)
                 \/ \E d \in Docs : ConfirmRead(s, d) \/ RecognizeRead(s, d)
                 \/ \E r \in Reviews, op \in ReviewOps : ReviewAsk(s, r, op)
           \/ \E s \in Sessions : Approve(s) \/ Reject(s) \/ AskForInfo(s)
           \/ \E w \in Workers : CloseReviews(w)
<1>1. CASE \E s \in Sessions :
              \/ ConfirmCommit(s) \/ ConfirmFail(s) \/ RecognizePublish(s)
              \/ RecognizeCommit(s) \/ ReviewLock(s) \/ ReviewRefuse(s) \/ SessionAbort(s)
  BY <1>1 DEF reviewVars, ConfirmCommit, ConfirmFail, RecognizePublish,
              RecognizeCommit, ReviewLock, ReviewRefuse, SessionAbort
<1>2. CASE \E s \in Sessions :
              \/ \E d \in Docs : ConfirmRead(s, d) \/ RecognizeRead(s, d)
              \/ \E r \in Reviews, op \in ReviewOps : ReviewAsk(s, r, op)
  BY <1>2 DEF reviewVars, ConfirmRead, RecognizeRead, ReviewAsk
<1>3. CASE \E s \in Sessions : Approve(s) \/ Reject(s) \/ AskForInfo(s)
  BY <1>3
<1>4. CASE UNCHANGED <<reviewVars, session>>
  BY <1>4
<1>5. CASE \E w \in Workers : CloseReviews(w)
  BY <1>5
<1>6. ASSUME NEW w \in Workers,
             \/ \E d \in Docs, t \in 0..MaxRetries : Receive(w, d, t)
             \/ WorkerStep(w) \/ CloseError(w) \/ WorkerCrash(w)
      PROVE  CloseReviews(w) \/ UNCHANGED <<reviewVars, session>>
  BY <1>6 DEF WorkerStep, reviewVars, Receive, Claim, Load, ExtractOk,
     ExtractHttpError, ExtractError, FlushDocument, MarkRead, MarkCommit,
     CloseError, WorkerCrash
<1>7. CASE \E d \in Docs : CreateUploadIntent(d) \/ TimeoutPasses(d)
  BY <1>7 DEF reviewVars, CreateUploadIntent, TimeoutPasses
<1>8. CASE SweepStale \/ UNCHANGED vars
  BY <1>8 DEF reviewVars, SweepStale, vars
<1> QED BY <1>1, <1>2, <1>3, <1>4, <1>5, <1>6, <1>7, <1>8 DEF Next, SessionStep

\* A request that is no decision, and one that takes its lock, show nothing.
LEMMA SilentStep ==
    ASSUME WellTyped, UNCHANGED reviewVars, NEW s \in Sessions,
           \/ session[s].pc \in {"read", "publish"} /\ EndSession(s)
           \/ RecognizeCommit(s) \/ ReviewLock(s)
           \/ \E d \in Docs : ConfirmRead(s, d) \/ RecognizeRead(s, d)
    PROVE  UNCHANGED Desk!vars
<1>0. session \in [Sessions -> SessionType] /\ session[s] \in SessionType
  BY DEF WellTyped, TypeOK
<1>1. ASSUME NEW q \in Sessions, q # s PROVE PendingRequest(q)' = PendingRequest(q)
  <2>1. session'[q] = session[q]
    BY <1>0, <1>1 DEF EndSession, RecognizeCommit, ReviewLock, ConfirmRead, RecognizeRead
  <2> QED BY <2>1 DEF PendingRequest
<1>2. CASE session[s].pc \in {"read", "publish"} /\ EndSession(s)
  <2>1. session'[s].pc = "idle" /\ session[s].pc \notin {"asked", "locked"}
    BY <1>0, <1>2 DEF EndSession, IdleSession
  <2>2. PendingRequest(s)' = PendingRequest(s)
    BY <2>1 DEF PendingRequest
  <2> QED BY <1>1, <2>2, DeskStutter
<1>3. CASE RecognizeCommit(s)
  <2>1. session'[s].pc = "publish" /\ session[s].pc = "read"
    BY <1>0, <1>3 DEF RecognizeCommit, SessionType
  <2>2. PendingRequest(s)' = PendingRequest(s)
    BY <2>1 DEF PendingRequest
  <2> QED BY <1>1, <2>2, DeskStutter
<1>4. CASE ReviewLock(s)
  <2>1. /\ session[s].pc = "asked" /\ session'[s].pc = "locked"
        /\ session'[s].op = session[s].op
        /\ session'[s].review = session[s].review
        /\ session'[s].version = session[s].version
    BY <1>0, <1>4 DEF ReviewLock, SessionType
  <2>2. PendingRequest(s)' = PendingRequest(s)
    BY <2>1 DEF PendingRequest
  <2> QED BY <1>1, <2>2, DeskStutter
<1>5. ASSUME NEW d \in Docs, ConfirmRead(s, d) \/ RecognizeRead(s, d)
      PROVE  UNCHANGED Desk!vars
  <2>1. session[s].pc = "idle"
    BY <1>5 DEF ConfirmRead, RecognizeRead
  <2>2. session'[s].pc = "read"
    <3>1. CASE ConfirmRead(s, d)
      BY <1>0, <3>1 DEF ConfirmRead, IdleSession
    <3>2. CASE RecognizeRead(s, d)
      BY <1>0, <3>2 DEF RecognizeRead, IdleSession
    <3> QED BY <1>5, <3>1, <3>2
  <2>3. PendingRequest(s)' = PendingRequest(s)
    BY <2>1, <2>2 DEF PendingRequest
  <2> QED BY <1>1, <2>3, DeskStutter
<1> QED BY <1>2, <1>3, <1>4, <1>5

LEMMA AskStep ==
    ASSUME WellTyped, UNCHANGED reviewVars, NEW s \in Sessions,
           NEW r \in Reviews, NEW op \in ReviewOps, ReviewAsk(s, r, op)
    PROVE  Desk!Ask(s, r, op)
<1>1. PendingRequest(s) = Desk!NoRequest
  BY DEF ReviewAsk, PendingRequest, Desk!NoRequest, NoReview
<1>2. RequestNow' = [RequestNow EXCEPT ![s] =
          [op |-> op, review |-> r, version |-> rvVersion[r]]]
  <2>1. PendingRequest(s)' = [op |-> op, review |-> r, version |-> rvVersion[r]]
    <3>1. /\ session'[s].pc = "asked" /\ session'[s].op = op
          /\ session'[s].review = r /\ session'[s].version = rvVersion[r]
      BY DEF ReviewAsk, IdleSession, WellTyped, TypeOK
    <3> QED BY <3>1 DEF PendingRequest
  <2> QED BY <2>1, OthersPending DEF ReviewAsk, RequestNow
<1>3. DeskState(rvStatus[r]) # "none"
  BY DEF ReviewAsk, DeskState
<1> QED BY <1>1, <1>2, <1>3 DEF Desk!Ask, reviewVars, RequestNow

\* A request that ends gives its pending decision back to the desk.
LEMMA EndsPending ==
    ASSUME WellTyped, NEW s \in Sessions, EndSession(s),
           session[s].pc \in {"asked", "locked"}
    PROVE  /\ PendingRequest(s) =
                 [op |-> session[s].op, review |-> session[s].review,
                  version |-> session[s].version]
           /\ PendingRequest(s) # Desk!NoRequest
           /\ RequestNow' = [RequestNow EXCEPT ![s] = Desk!NoRequest]
<1>1. PendingRequest(s) =
        [op |-> session[s].op, review |-> session[s].review,
         version |-> session[s].version]
  BY DEF PendingRequest
<1>2. session[s].op # "none"
  BY DEF WellTyped, SessionsRefer, ReviewOps
<1>3. PendingRequest(s)' = Desk!NoRequest
  BY DEF EndSession, IdleSession, PendingRequest, Desk!NoRequest, NoReview,
     WellTyped, TypeOK
<1>4. RequestNow' = [RequestNow EXCEPT ![s] = Desk!NoRequest]
  BY <1>3, OthersPending DEF EndSession, RequestNow
<1>5. PendingRequest(s).op # "none" /\ Desk!NoRequest.op = "none"
  BY <1>1, <1>2 DEF Desk!NoRequest
<1> QED BY <1>1, <1>4, <1>5

LEMMA RefuseStep ==
    ASSUME WellTyped, UNCHANGED reviewVars, NEW s \in Sessions, EndSession(s),
           session[s].pc \in {"asked", "locked"}
    PROVE  Desk!Refuse(s)
BY EndsPending DEF Desk!Refuse, reviewVars, RequestNow

LEMMA DecideStep ==
    ASSUME WellTyped, LockInv, NEW s \in Sessions,
           Approve(s) \/ Reject(s) \/ AskForInfo(s)
    PROVE  Desk!Decide(s)
<1> DEFINE r == session[s].review
<1>0. /\ TypeOK /\ r \in Reviews
      /\ session[s].pc = "locked" /\ EndSession(s)
  BY DEF Approve, Reject, AskForInfo, WellTyped, SessionsRefer
<1>1. /\ rvStatus[r] \in OpenReview
      /\ rvVersion[r] = session[s].version
  BY <1>0 DEF LockInv, DecisionIsCurrent
<1>2. DeskState(rvStatus[r]) = "open"
  BY <1>1 DEF DeskState, OpenReview
<1>3. rvVersion' = [rvVersion EXCEPT ![r] = @ + 1]
  BY DEF Approve, Reject, AskForInfo, Decide
<1>4. IF session[s].op = "NEEDS_INFO"
      THEN DeskNow' = DeskNow
      ELSE DeskNow' = [DeskNow EXCEPT ![r] = "closed"]
  <2>1. CASE Approve(s) \/ Reject(s)
    <3>1. /\ rvStatus'[r] \in {"APPROVED", "REJECTED"}
          /\ \A q \in Reviews : q # r => rvStatus'[q] = rvStatus[q]
      BY <1>0, <2>1 DEF Approve, Reject, Decide, TypeOK
    <3>2. DeskState(rvStatus'[r]) = "closed"
      BY <3>1 DEF DeskState, OpenReview
    <3>3. DeskNow' = [q \in Reviews |-> DeskState(rvStatus'[q])]
      BY DEF DeskNow, DeskState
    <3>4. session[s].op # "NEEDS_INFO"
      BY <2>1 DEF Approve, Reject
    <3> QED BY <3>1, <3>2, <3>3, <3>4 DEF DeskNow
  <2>2. CASE AskForInfo(s)
    <3>1. /\ rvStatus'[r] = "NEEDS_INFO"
          /\ \A q \in Reviews : q # r => rvStatus'[q] = rvStatus[q]
      BY <1>0, <2>2 DEF AskForInfo, Decide, TypeOK
    <3>2. DeskState(rvStatus'[r]) = "open"
      BY <3>1 DEF DeskState, OpenReview
    <3>3. DeskNow' = [q \in Reviews |-> DeskState(rvStatus'[q])]
      BY DEF DeskNow, DeskState
    <3>4. session[s].op = "NEEDS_INFO"
      BY <2>2 DEF AskForInfo
    <3>5. \A q \in Reviews : DeskState(rvStatus'[q]) = DeskState(rvStatus[q])
      BY <1>2, <3>1, <3>2
    <3> QED BY <3>3, <3>4, <3>5 DEF DeskNow
  <2> QED BY <2>1, <2>2
<1>5. IF session[s].op = "approve"
      THEN issued' = [issued EXCEPT ![r] = @ + 1]
      ELSE UNCHANGED issued
  BY DEF Approve, Reject, AskForInfo
<1>6. /\ PendingRequest(s) = [op |-> session[s].op, review |-> r,
                              version |-> session[s].version]
      /\ PendingRequest(s) # Desk!NoRequest
      /\ RequestNow' = [RequestNow EXCEPT ![s] = Desk!NoRequest]
  BY <1>0, EndsPending
<1>7. RequestNow[s] = PendingRequest(s) /\ DeskNow[r] = "open"
  BY <1>0, <1>2 DEF RequestNow, DeskNow
<1>8. /\ RequestNow[s].review = r /\ RequestNow[s].op = session[s].op
      /\ RequestNow[s].version = session[s].version
  BY <1>6, <1>7
<1> QED BY <1>0, <1>1, <1>3, <1>4, <1>5, <1>6, <1>7, <1>8
        DEF Desk!Decide, DeskNow, RequestNow

LEMMA ReplaceStep ==
    ASSUME WellTyped, NEW w \in Workers, CloseReviews(w)
    PROVE  \E new \in Reviews : Desk!Replace(worker[w].closing, new)
<1>1. PICK new \in Reviews :
         /\ rvStatus[new] = "NONE"
         /\ rvStatus' = [r \in Reviews |->
                IF r \in worker[w].closing THEN "REJECTED"
                ELSE IF r = new THEN "PENDING" ELSE rvStatus[r]]
  BY DEF CloseReviews
<1>2. \A r \in worker[w].closing : r \in Reviews /\ rvStatus[r] # "NONE"
  BY DEF CloseReviews, WellTyped, WorkersRefer, TypeOK, WorkerType
<1>3. \A r \in Reviews : DeskState(rvStatus'[r]) =
         IF r \in worker[w].closing THEN "closed"
         ELSE IF r = new THEN "open" ELSE DeskState(rvStatus[r])
  BY <1>1 DEF DeskState, OpenReview
<1>4. DeskNow' = [r \in Reviews |-> IF r \in worker[w].closing THEN "closed"
                     ELSE IF r = new THEN "open" ELSE DeskState(rvStatus[r])]
  <2>1. DeskNow' = [r \in Reviews |-> DeskState(rvStatus'[r])]
    BY DEF DeskNow, DeskState
  <2> QED BY <1>3, <2>1
<1>5. /\ DeskState(rvStatus[new]) = "none"
      /\ \A r \in worker[w].closing : DeskState(rvStatus[r]) # "none"
  BY <1>1, <1>2 DEF DeskState
<1>6. RequestNow' = RequestNow
  <2>1. UNCHANGED session
    BY DEF CloseReviews
  <2> QED BY <2>1 DEF RequestNow, PendingRequest
<1>7. Desk!Replace(worker[w].closing, new)
  <2>1. /\ rvVersion' = [r \in Reviews |->
               IF r \in worker[w].closing THEN rvVersion[r] + 1 ELSE rvVersion[r]]
        /\ UNCHANGED issued
    BY DEF CloseReviews
  <2> QED BY <1>1, <1>2, <1>4, <1>5, <1>6, <2>1 DEF Desk!Replace, DeskNow, RequestNow
<1> QED BY <1>7

LEMMA DeskStep == WellTyped /\ LockInv /\ [Next]_vars => [Desk!Next]_(Desk!vars)
<1> SUFFICES ASSUME WellTyped, LockInv, [Next]_vars
             PROVE  Desk!Next \/ UNCHANGED Desk!vars
  OBVIOUS
<1>1. CASE UNCHANGED <<reviewVars, session>>
  BY <1>1, DeskStutter DEF PendingRequest
<1>2. ASSUME UNCHANGED reviewVars, NEW s \in Sessions,
             \/ session[s].pc \in {"read", "publish"} /\ EndSession(s)
             \/ RecognizeCommit(s) \/ ReviewLock(s)
             \/ \E d \in Docs : ConfirmRead(s, d) \/ RecognizeRead(s, d)
      PROVE  UNCHANGED Desk!vars
  BY <1>2, SilentStep
<1>3. ASSUME UNCHANGED reviewVars, NEW s \in Sessions,
             ReviewRefuse(s) \/ SessionAbort(s)
      PROVE  Desk!Refuse(s) \/ UNCHANGED Desk!vars
  <2>1. EndSession(s) /\ session[s].pc \in {"asked", "locked", "read", "publish"}
    BY <1>3 DEF ReviewRefuse, SessionAbort
  <2> QED BY <1>3, <2>1, SilentStep, RefuseStep
<1>4. ASSUME UNCHANGED reviewVars, NEW s \in Sessions, NEW r \in Reviews,
             NEW op \in ReviewOps, ReviewAsk(s, r, op)
      PROVE  Desk!Ask(s, r, op)
  BY <1>4, AskStep
<1>5. ASSUME NEW s \in Sessions, Approve(s) \/ Reject(s) \/ AskForInfo(s)
      PROVE  Desk!Decide(s)
  BY <1>5, DecideStep
<1>6. ASSUME NEW w \in Workers, CloseReviews(w)
      PROVE  \E replaced \in SUBSET Reviews, new \in Reviews : Desk!Replace(replaced, new)
  <2>1. worker[w].closing \in SUBSET Reviews
    BY DEF WellTyped, TypeOK, WorkerType
  <2> QED BY <1>6, <2>1, ReplaceStep
<1> QED BY <1>1, <1>2, <1>3, <1>4, <1>5, <1>6, DeskFrame DEF Desk!Next

\* The decisions of approve_review_task and reject_review_task implement the
\* atomic decisions of ReviewDesk, for any number of reviews and requests and
\* with any number of recognitions at work.
THEOREM ImplementsDesk == Spec => DeskSpec
BY DeskInit, DeskStep, WellTypedAlways, LockInvAlways, PTL DEF Spec, DeskSpec, Desk!Spec
=============================================================================
