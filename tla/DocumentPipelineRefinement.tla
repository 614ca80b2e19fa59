--------------------- MODULE DocumentPipelineRefinement ---------------------
(***************************************************************************)
(* The row locks and version checks of the review endpoints implement the  *)
(* atomic decisions of ReviewDesk.                                         *)
(***************************************************************************)
EXTENDS DocumentPipeline

\* A review of the table, as the desk shows it.
DeskState(status) ==
    IF status = "NONE" THEN "none"
    ELSE IF status \in OpenReview THEN "open" ELSE "closed"

\* The decision a session is asking for, up to its commit.
PendingRequest(s) ==
    IF session[s].pc \in {"asked", "locked"}
    THEN [op |-> session[s].op, review |-> session[s].review,
          version |-> session[s].version]
    ELSE [op |-> "none", review |-> NoReview, version |-> 0]

Desk == INSTANCE ReviewDesk WITH
    Ops <- ReviewOps,
    desk <- [r \in Reviews |-> DeskState(rvStatus[r])],
    version <- rvVersion,
    certified <- issued,
    request <- [s \in Sessions |-> PendingRequest(s)]

\* approve_review_task and reject_review_task, each a lock, three checks and a
\* commit that interleave with the recognitions, behave as atomic decisions on
\* the version HR saw.
DeskSpec == Desk!Spec
=============================================================================
