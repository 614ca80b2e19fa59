----------------------- MODULE CertificateLedgerProofs -----------------------
(***************************************************************************)
(* Proofs about CertificateLedger, for any number of records, requests and *)
(* scans, any cast, any reminder window and any number of days.            *)
(***************************************************************************)
EXTENDS CertificateLedger, FiniteSetTheorems, TLAPS

-----------------------------------------------------------------------------
(***************************************************************************)
(* Type correctness                                                        *)
(***************************************************************************)

LEMMA DeriveLive ==
    ASSUME NEW valid, NEW day
    PROVE  Derive(valid, day) \in Replaceable
BY DEF Derive, Replaceable

LEMMA StatusTypes ==
    /\ Current \subseteq Replaceable /\ Replaceable \subseteq CertStatus
    /\ "NONE" \notin Replaceable /\ "REPLACED" \notin Replaceable /\ "DRAFT" \notin CertStatus
    /\ \A target : NextPc(target) \in TxPc
BY DEF Current, Replaceable, CertStatus, NextPc, TxPc

LEMMA IdleTypes == IdleTx \in TxType /\ IdleScan \in ScanType
BY LedgerAssumption
   DEF IdleTx, IdleScan, TxType, TxPc, CertStatus, ScanType, Days, Forever

\* A transaction that ends, or only the scans, keep the type of the requests.
LEMMA EndTxTyped ==
    ASSUME tx \in [Requests -> TxType], NEW s \in Requests, EndTx(s)
    PROVE  tx' \in [Requests -> TxType]
BY IdleTypes DEF EndTx

\* The rows a commit writes have their types.
LEMMA CommitTyped ==
    ASSUME LedgerTypeOK, NEW s \in Requests, Commit(s)
    PROVE  /\ status' \in [Certs -> CertStatus]
           /\ validTo' \in [Certs -> 0..Forever]
           /\ replacedBy' \in [Certs -> Certs \cup {NoCert}]
<1>0. tx[s] \in TxType /\ Others(s) \subseteq Certs
  BY DEF LedgerTypeOK, TxType, Others
<1>1. validTo' \in [Certs -> 0..Forever]
  <2>1. WriteValidTo(s)
    BY DEF Commit, CommitReplaced, CommitLive
  <2> QED BY <1>0, <2>1 DEF WriteValidTo, Written, LedgerTypeOK, TxType
<1>2. CASE CommitReplaced(s)
  <2>1. status' \in [Certs -> CertStatus]
    BY <1>0, <1>2 DEF CommitReplaced, StatusAfter, Written, LedgerTypeOK, CertStatus
  <2>2. replacedBy' \in [Certs -> Certs \cup {NoCert}]
    BY <1>0, <1>2 DEF CommitReplaced, LaterThan, LedgerTypeOK
  <2> QED BY <1>1, <2>1, <2>2
<1>3. CASE CommitLive(s)
  <2>1. status' \in [Certs -> CertStatus]
    BY <1>0, <1>3 DEF CommitLive, StatusAfter, Written, LedgerTypeOK, TxType, CertStatus
  <2>2. replacedBy' \in [Certs -> Certs \cup {NoCert}]
    BY <1>0, <1>3 DEF CommitLive, LedgerTypeOK, TxType
  <2> QED BY <1>1, <2>1, <2>2
<1> QED BY <1>2, <1>3 DEF Commit

\* A request in flight is one of the cast and has a record; an idle one holds nothing.
TxRefers ==
    \A s \in Requests :
        /\ tx[s].pc = "idle" => tx[s] = IdleTx
        /\ tx[s].pc # "idle" => s \in cast.requests /\ tx[s].cert \in Certs

WellTyped == LedgerTypeOK /\ TxRefers

LEMMA TypeStep == ASSUME WellTyped, [Next]_vars PROVE LedgerTypeOK'
<1> USE LedgerAssumption, StatusTypes
<1> LedgerTypeOK
  BY DEF WellTyped
<1>1. ASSUME NEW s \in cast.requests, NEW c \in cast.certs, NEW v \in 0..Forever,
             NEW archived \in BOOLEAN, Create(s, c, v, archived)
      PROVE  LedgerTypeOK'
  <2>1. s \in Requests /\ c \in Certs
    BY DEF LedgerTypeOK, Cast
  <2> DEFINE target == IF archived THEN "ARCHIVED" ELSE Derive(v, today)
  <2>2. target \in CertStatus
    BY DeriveLive DEF CertStatus
  <2>3. [IdleTx EXCEPT !.pc = NextPc(target), !.cert = c, !.valid = v,
                       !.target = target, !.seenValid = v,
                       !.row = IF target \in Current THEN "DRAFT" ELSE target] \in TxType
    BY <2>1, <2>2, IdleTypes DEF TxType
  <2>4. tx' \in [Requests -> TxType]
    BY <1>1, <2>1, <2>3 DEF Create, LedgerTypeOK
  <2> QED BY <1>1, <2>4 DEF Create, LedgerTypeOK, rows
<1>2. ASSUME NEW s \in cast.requests, NEW c \in cast.certs, NEW v \in 0..Forever,
             NEW request \in EditRequests, Edit(s, c, v, request)
      PROVE  LedgerTypeOK'
  <2>1. s \in Requests /\ c \in Certs /\ status[c] \in CertStatus /\ validTo[c] \in 0..Forever
    BY DEF LedgerTypeOK, Cast
  <2> DEFINE seen   == status[c]
             target == CASE request = "archive" -> "ARCHIVED"
                         [] request = "keep" /\ seen \notin Replaceable -> seen
                         [] OTHER -> Derive(v, today)
             draft  == seen \in Current /\ target \in Current
  <2>2. target \in CertStatus
    BY <2>1, DeriveLive DEF CertStatus
  <2>3. [IdleTx EXCEPT !.pc = IF draft THEN "self" ELSE NextPc(target),
                       !.cert = c, !.valid = v, !.target = target,
                       !.row = IF draft THEN "DRAFT" ELSE seen,
                       !.seen = seen, !.seenValid = validTo[c]] \in TxType
    BY <2>1, <2>2, IdleTypes DEF TxType, TxPc
  <2>4. tx' \in [Requests -> TxType]
    BY <1>2, <2>1, <2>3 DEF Edit, LedgerTypeOK
  <2> QED BY <1>2, <2>4 DEF Edit, LedgerTypeOK, rows
<1>3. ASSUME NEW s \in cast.requests, LockSelf(s) \/ Select(s) \/ \E c \in Certs : LockRow(s, c)
      PROVE  LedgerTypeOK'
  <2>1. s \in Requests
    BY DEF LedgerTypeOK, Cast
  <2>2. tx' \in [Requests -> TxType]
    <3>1. tx[s] \in TxType
      BY <2>1 DEF LedgerTypeOK
    <3>2. CASE LockSelf(s)
      <4>1. tx[s].cert \in Certs
        BY <2>1, <3>2 DEF LockSelf, WellTyped, TxRefers
      <4>2. [tx[s] EXCEPT !.pc = "select", !.held = {tx[s].cert}] \in TxType
        BY <3>1, <4>1 DEF TxType, TxPc
      <4> QED BY <2>1, <3>2, <4>2 DEF LockSelf, LedgerTypeOK
    <3>3. CASE Select(s)
      BY <2>1, <3>1, <3>3 DEF Select, LedgerTypeOK, TxType, TxPc
    <3>4. ASSUME NEW c \in Certs, LockRow(s, c) PROVE tx' \in [Requests -> TxType]
      <4>1. [tx[s] EXCEPT !.todo = @ \ {c},
                          !.held = IF status[c] \in Replaceable THEN @ \cup {c} ELSE @] \in TxType
        BY <3>1 DEF TxType
      <4> QED BY <2>1, <3>1, <3>4, <4>1 DEF LockRow, LedgerTypeOK
    <3> QED BY <1>3, <3>2, <3>3, <3>4
  <2>3. UNCHANGED <<cast, today, rows, scan>>
    BY <1>3 DEF LockSelf, Select, LockRow
  <2> QED BY <2>2, <2>3 DEF LedgerTypeOK, rows
<1>4. ASSUME NEW s \in cast.requests, Commit(s)
      PROVE  LedgerTypeOK'
  <2>1. s \in Requests
    BY DEF LedgerTypeOK, Cast
  <2>2. tx' \in [Requests -> TxType]
    BY <1>4, <2>1, EndTxTyped DEF Commit, CommitReplaced, CommitLive, LedgerTypeOK
  <2>3. UNCHANGED <<cast, today, scan>>
    BY <1>4 DEF Commit, CommitReplaced, CommitLive
  <2> QED BY <1>4, <2>1, <2>2, <2>3, CommitTyped DEF LedgerTypeOK
<1>5. ASSUME NEW s \in cast.requests, TxAbort(s)
      PROVE  LedgerTypeOK'
  <2>1. s \in Requests
    BY DEF LedgerTypeOK, Cast
  <2> QED BY <1>5, <2>1, EndTxTyped DEF TxAbort, LedgerTypeOK, rows
<1>6. ASSUME NEW p \in Scans, Refresh(p)
      PROVE  LedgerTypeOK'
  <2>1. scan' \in [Scans -> ScanType]
    BY <1>6 DEF Refresh, RefreshRows, LedgerTypeOK, ScanType
  <2> QED BY <1>6, <2>1 DEF Refresh, LedgerTypeOK, rows
<1>7. ASSUME NEW p \in Scans, ScanCommit(p)
      PROVE  LedgerTypeOK'
  BY <1>7, IdleTypes, DeriveLive DEF ScanCommit, LedgerTypeOK
<1>8. ASSUME NEW p \in Scans, ScanAbort(p)
      PROVE  LedgerTypeOK'
  BY <1>8, IdleTypes DEF ScanAbort, LedgerTypeOK, rows
<1>9. CASE NextDay
  BY <1>9 DEF NextDay, LedgerTypeOK, rows, Days
<1>10. CASE UNCHANGED vars
  BY <1>10 DEF vars, LedgerTypeOK
<1> QED BY <1>1, <1>2, <1>3, <1>4, <1>5, <1>6, <1>7, <1>8, <1>9, <1>10 DEF Next

\* What one step does to the requests: it leaves a request alone, ends it, or is the
\* step of this request.
LEMMA TxFrame ==
    ASSUME LedgerTypeOK, [Next]_vars, NEW s \in Requests
    PROVE  \/ tx'[s] = tx[s]
           \/ tx'[s] = IdleTx
           \/ s \in cast.requests /\ \E c \in Certs, v \in 0..Forever :
                 \/ \E archived \in BOOLEAN : Create(s, c, v, archived)
                 \/ \E request \in EditRequests : Edit(s, c, v, request)
           \/ s \in cast.requests /\ (LockSelf(s) \/ Select(s) \/ \E c \in Certs : LockRow(s, c))
<1> DEFINE Goal ==
           \/ tx'[s] = tx[s]
           \/ tx'[s] = IdleTx
           \/ s \in cast.requests /\ \E c \in Certs, v \in 0..Forever :
                 \/ \E archived \in BOOLEAN : Create(s, c, v, archived)
                 \/ \E request \in EditRequests : Edit(s, c, v, request)
           \/ s \in cast.requests /\ (LockSelf(s) \/ Select(s) \/ \E c \in Certs : LockRow(s, c))
<1>0. tx \in [Requests -> TxType] /\ cast.requests \subseteq Requests /\ cast.certs \subseteq Certs
  BY LedgerAssumption DEF LedgerTypeOK, Cast
<1>1. ASSUME NEW q \in cast.requests, NEW c \in cast.certs, NEW v \in 0..Forever,
             NEW archived \in BOOLEAN, Create(q, c, v, archived)
      PROVE  Goal
  <2>1. CASE q = s
    BY <1>0, <1>1, <2>1
  <2> QED BY <1>0, <1>1, <2>1 DEF Create
<1>2. ASSUME NEW q \in cast.requests, NEW c \in cast.certs, NEW v \in 0..Forever,
             NEW request \in EditRequests, Edit(q, c, v, request)
      PROVE  Goal
  <2>1. CASE q = s
    BY <1>0, <1>2, <2>1
  <2> QED BY <1>0, <1>2, <2>1 DEF Edit
<1>3. ASSUME NEW q \in cast.requests, LockSelf(q) \/ Select(q) \/ \E c \in Certs : LockRow(q, c)
      PROVE  Goal
  <2>1. CASE q = s
    BY <1>3, <2>1
  <2> QED BY <1>0, <1>3, <2>1 DEF LockSelf, Select, LockRow
<1>4. ASSUME NEW q \in cast.requests, Commit(q) \/ TxAbort(q)
      PROVE  Goal
  <2>1. EndTx(q)
    BY <1>4 DEF Commit, CommitReplaced, CommitLive, TxAbort
  <2> QED BY <1>0, <2>1 DEF EndTx
<1>5. ASSUME UNCHANGED tx PROVE Goal
  BY <1>5
<1>6. ASSUME NEW p \in Scans, Refresh(p) \/ ScanCommit(p) \/ ScanAbort(p)
      PROVE  UNCHANGED tx
  BY <1>6 DEF Refresh, ScanCommit, ScanAbort
<1>7. ASSUME NextDay \/ UNCHANGED vars
      PROVE  UNCHANGED tx
  BY <1>7 DEF NextDay, vars
<1> HIDE DEF Goal
<1>8. ASSUME Next PROVE Goal
  BY <1>1, <1>2, <1>3, <1>4, <1>5, <1>6, <1>7, <1>8 DEF Next
<1>9. Goal
  BY <1>5, <1>7, <1>8
<1> QED BY <1>9 DEF Goal

LEMMA CastStays == ASSUME [Next]_vars PROVE cast' = cast
<1>1. ASSUME NEW s, NEW c, NEW v, NEW archived, Create(s, c, v, archived) PROVE cast' = cast
  BY <1>1 DEF Create
<1>2. ASSUME NEW s, NEW c, NEW v, NEW request, Edit(s, c, v, request) PROVE cast' = cast
  BY <1>2 DEF Edit
<1>3. ASSUME NEW s, \/ LockSelf(s) \/ Select(s) \/ (\E c \in Certs : LockRow(s, c))
                    \/ Commit(s) \/ TxAbort(s)
      PROVE  cast' = cast
  BY <1>3 DEF LockSelf, Select, LockRow, Commit, CommitReplaced, CommitLive, TxAbort
<1>4. ASSUME NEW p, Refresh(p) \/ ScanCommit(p) \/ ScanAbort(p) PROVE cast' = cast
  BY <1>4 DEF Refresh, ScanCommit, ScanAbort
<1>5. ASSUME NextDay \/ UNCHANGED vars PROVE cast' = cast
  BY <1>5 DEF NextDay, vars
<1> QED BY <1>1, <1>2, <1>3, <1>4, <1>5 DEF Next

LEMMA NextPcGoesOn == ASSUME NEW target PROVE NextPc(target) \in {"select", "wait"}
BY DEF NextPc

\* What a request has in mind when it begins.
CreateTarget(v, archived) == IF archived THEN "ARCHIVED" ELSE Derive(v, today)
EditTarget(c, v, request) ==
    CASE request = "archive" -> "ARCHIVED"
      [] request = "keep" /\ status[c] \notin Replaceable -> status[c]
      [] OTHER -> Derive(v, today)
EditDrafts(c, v, request) == status[c] \in Current /\ EditTarget(c, v, request) \in Current

LEMMA CreateBegins ==
    ASSUME LedgerTypeOK, NEW s \in Requests, NEW c \in Certs, NEW v \in 0..Forever,
           NEW archived \in BOOLEAN, Create(s, c, v, archived)
    PROVE  /\ tx'[s].pc = NextPc(CreateTarget(v, archived)) /\ tx'[s].cert = c
           /\ tx'[s].valid = v /\ tx'[s].target = CreateTarget(v, archived)
           /\ tx'[s].row = IF CreateTarget(v, archived) \in Current
                           THEN "DRAFT" ELSE CreateTarget(v, archived)
           /\ tx'[s].seen = "NONE" /\ tx'[s].todo = {} /\ tx'[s].held = {}
BY DEF Create, CreateTarget, IdleTx, LedgerTypeOK

LEMMA EditBegins ==
    ASSUME LedgerTypeOK, NEW s \in Requests, NEW c \in Certs, NEW v \in 0..Forever,
           NEW request \in EditRequests, Edit(s, c, v, request)
    PROVE  /\ tx'[s].pc = IF EditDrafts(c, v, request)
                          THEN "self" ELSE NextPc(EditTarget(c, v, request))
           /\ tx'[s].cert = c /\ tx'[s].valid = v /\ tx'[s].target = EditTarget(c, v, request)
           /\ tx'[s].row = IF EditDrafts(c, v, request) THEN "DRAFT" ELSE status[c]
           /\ tx'[s].seen = status[c] /\ tx'[s].seenValid = validTo[c]
           /\ tx'[s].todo = {} /\ tx'[s].held = {}
BY DEF Edit, EditTarget, EditDrafts, IdleTx, LedgerTypeOK

LEMMA TxRefersStep == ASSUME WellTyped, [Next]_vars PROVE TxRefers'
<1> SUFFICES ASSUME NEW s \in Requests
             PROVE  /\ tx'[s].pc = "idle" => tx'[s] = IdleTx
                    /\ tx'[s].pc # "idle" => s \in cast.requests /\ tx'[s].cert \in Certs
  BY CastStays DEF TxRefers
<1> LedgerTypeOK /\ tx[s] \in TxType
  BY DEF WellTyped, LedgerTypeOK
<1>1. CASE tx'[s] = tx[s] \/ tx'[s] = IdleTx
  <2>1. IdleTx.pc = "idle"
    BY DEF IdleTx
  <2> QED BY <1>1, <2>1 DEF WellTyped, TxRefers
<1>2. ASSUME s \in cast.requests, NEW c \in Certs, NEW v \in 0..Forever,
             NEW archived \in BOOLEAN, Create(s, c, v, archived)
      PROVE  tx'[s].pc # "idle" /\ tx'[s].cert \in Certs
  BY <1>2, CreateBegins, NextPcGoesOn
<1>3. ASSUME s \in cast.requests, NEW c \in Certs, NEW v \in 0..Forever,
             NEW request \in EditRequests, Edit(s, c, v, request)
      PROVE  tx'[s].pc # "idle" /\ tx'[s].cert \in Certs
  BY <1>3, EditBegins, NextPcGoesOn
<1>4. CASE LockSelf(s) \/ Select(s) \/ \E c \in Certs : LockRow(s, c)
  <2>1. tx'[s].pc # "idle" /\ tx'[s].cert = tx[s].cert /\ tx[s].pc # "idle"
    <3>1. CASE LockSelf(s)
      BY <3>1 DEF LockSelf, LedgerTypeOK, TxType
    <3>2. CASE Select(s)
      BY <3>2 DEF Select, LedgerTypeOK, TxType
    <3>3. ASSUME NEW c \in Certs, LockRow(s, c)
          PROVE  tx'[s].pc # "idle" /\ tx'[s].cert = tx[s].cert /\ tx[s].pc # "idle"
      BY <3>3 DEF LockRow, LedgerTypeOK, TxType
    <3> QED BY <1>4, <3>1, <3>2, <3>3
  <2> QED BY <2>1 DEF WellTyped, TxRefers
<1> QED BY <1>1, <1>2, <1>3, <1>4, TxFrame

LEMMA WellTypedStep == ASSUME WellTyped, [Next]_vars PROVE WellTyped'
BY TypeStep, TxRefersStep DEF WellTyped

LEMMA WellTypedInit == Init => WellTyped
<1> SUFFICES ASSUME Init PROVE WellTyped
  OBVIOUS
<1>1. LedgerTypeOK
  BY LedgerAssumption, IdleTypes DEF Init, LedgerTypeOK, Days, Forever, CertStatus
<1>2. TxRefers
  BY DEF Init, TxRefers, IdleTx
<1> QED BY <1>1, <1>2 DEF WellTyped

\* Every row, request and scan keeps its type, whatever HR registers and edits
\* (LedgerTypeOK).
THEOREM LedgerTyped == Spec => []LedgerTypeOK
<1>1. Init => WellTyped
  BY WellTypedInit
<1>2. WellTyped /\ [Next]_vars => WellTyped'
  BY WellTypedStep
<1>3. WellTyped => LedgerTypeOK
  BY DEF WellTyped
<1> QED BY <1>1, <1>2, <1>3, PTL DEF Spec

-----------------------------------------------------------------------------
(***************************************************************************)
(* The invariant.  It says what a request in flight may rely on: the rows  *)
(* it holds, the record it works on, and what it has in mind.              *)
(***************************************************************************)

\* A row is locked by one transaction.
RowLocks ==
    /\ \A s, q \in Requests : s # q => tx[s].held \cap tx[q].held = {}
    /\ \A s \in Requests, p \in Scans : tx[s].held \cap scan[p].locked = {}
    /\ \A p, r \in Scans : p # r => scan[p].locked \cap scan[r].locked = {}

\* A row that was live when it was locked is live.
HeldIsLive ==
    /\ \A s \in Requests : \A c \in Others(s) : status[c] \in Replaceable
    /\ \A p \in Scans : \A c \in scan[p].locked : status[c] \in Current

\* The identity of a record that is about to be inserted belongs to nobody else.
NewIsOwn ==
    \A s \in Requests : tx[s].pc # "idle" /\ tx[s].seen = "NONE" =>
        /\ status[tx[s].cert] = "NONE"
        /\ \A q \in Requests \ {s} : tx[q].cert # tx[s].cert

\* What a request t may have in mind, edits or none: only a live target makes it look for others
\* and lock rows; it leaves a replaced record replaced; a new record is live or
\* archived.
Intent(t, editing) ==
    /\ t.target \notin Replaceable => t.pc = "wait" /\ t.todo = {} /\ t.held = {}
    /\ t.target # "NONE" /\ (t.target = "REPLACED" <=> t.seen = "REPLACED")
    /\ IF t.seen = "NONE"
       THEN t.row = "DRAFT" \/ (t.row = t.target /\ t.row \notin Current)
       ELSE t.row = "DRAFT" \/ t.row = t.seen
    /\ ~editing => t.seen = "NONE" /\ t.target \in Replaceable
    /\ t.pc \in {"self", "select"} => t.todo = {} /\ t.held \subseteq {t.cert}

IntentKept == \A s \in Requests : tx[s].pc # "idle" => Intent(tx[s], cast.editing)

LedgerInv == WellTyped /\ RowLocks /\ HeldIsLive /\ NewIsOwn /\ IntentKept

(***************************************************************************)
(* What is true in addition while there is one request at a time.          *)
(***************************************************************************)

Alone == \A s, q \in cast.requests : s = q

\* The record is as it was read, but for a refresh, which keeps live records live.
SeenIsTrue ==
    \A s \in Requests : tx[s].pc # "idle" =>
        LET c == tx[s].cert IN
        /\ status[c] = tx[s].seen \/ {status[c], tx[s].seen} \subseteq Replaceable
        /\ tx[s].seen # "NONE" => validTo[c] = tx[s].seenValid

\* A request that has looked for the other live records has found all of them.
LiveIsFound ==
    \A s \in Requests : tx[s].pc = "wait" /\ tx[s].target \in Replaceable =>
        \A c \in Certs \ {tx[s].cert} :
            status[c] \in Replaceable => c \in tx[s].todo \cup tx[s].held

OneLive == \A c, d \in Certs : status[c] \in Replaceable /\ status[d] \in Replaceable => c = d

AloneInv == Alone => SeenIsTrue /\ LiveIsFound /\ OneLive

-----------------------------------------------------------------------------
(***************************************************************************)
(* Steps of one request that write no row                                  *)
(***************************************************************************)

\* A request that locks nothing new disturbs no lock.
LEMMA LocksKept ==
    ASSUME LedgerInv, NEW s \in Requests, UNCHANGED <<status, scan>>,
           \A q \in Requests \ {s} : tx'[q] = tx[q],
           tx'[s].held = {} \/ (tx'[s].held = tx[s].held /\ tx'[s].cert = tx[s].cert)
    PROVE  RowLocks' /\ HeldIsLive'
<1>1. \A q \in Requests : tx'[q].held \subseteq tx[q].held /\ Others(q)' \subseteq Others(q)
  BY DEF Others
<1>2. RowLocks'
  BY <1>1 DEF LedgerInv, RowLocks
<1>3. HeldIsLive'
  BY <1>1 DEF LedgerInv, HeldIsLive
<1> QED BY <1>2, <1>3

\* A request that ends leaves the others what they had.
LEMMA EndKeeps ==
    ASSUME LedgerInv, NEW s \in Requests, EndTx(s), UNCHANGED <<cast, status, scan>>
    PROVE  RowLocks' /\ HeldIsLive' /\ NewIsOwn' /\ IntentKept'
<1>1. tx'[s] = IdleTx /\ \A q \in Requests \ {s} : tx'[q] = tx[q]
  BY DEF EndTx, LedgerInv, WellTyped, LedgerTypeOK
<1>2. RowLocks' /\ HeldIsLive'
  <2>1. tx'[s].held = {}
    BY <1>1 DEF IdleTx
  <2> QED BY <1>1, <2>1, LocksKept
<1>3. NewIsOwn'
  <2> SUFFICES ASSUME NEW q \in Requests, tx'[q].pc # "idle", tx'[q].seen = "NONE"
               PROVE  /\ status'[tx'[q].cert] = "NONE"
                      /\ \A r \in Requests \ {q} : tx'[r].cert # tx'[q].cert
    BY DEF NewIsOwn
  <2>1. q # s /\ tx'[q] = tx[q]
    BY <1>1 DEF IdleTx
  <2>2. tx'[q].cert # NoCert
    BY <2>1, LedgerAssumption DEF LedgerInv, WellTyped, TxRefers
  <2>3. tx'[s].cert = NoCert
    BY <1>1 DEF IdleTx
  <2> QED BY <1>1, <2>1, <2>2, <2>3 DEF LedgerInv, NewIsOwn
<1>4. IntentKept'
  <2>1. ASSUME NEW q \in Requests, tx'[q].pc # "idle" PROVE Intent(tx'[q], cast'.editing)
    <3>1. q # s /\ tx'[q] = tx[q]
      BY <1>1, <2>1 DEF IdleTx
    <3> QED BY <2>1, <3>1 DEF LedgerInv, IntentKept, Intent
  <2> QED BY <2>1 DEF IntentKept
<1> QED BY <1>2, <1>3, <1>4

LEMMA CreateInv ==
    ASSUME LedgerInv, NEW s \in Requests, NEW c \in Certs, NEW v \in 0..Forever,
           NEW archived \in BOOLEAN, Create(s, c, v, archived)
    PROVE  RowLocks' /\ HeldIsLive' /\ NewIsOwn' /\ IntentKept'
<1> DEFINE target == CreateTarget(v, archived)
<1>0. LedgerTypeOK /\ UNCHANGED <<cast, status, scan>>
  BY DEF LedgerInv, WellTyped, Create, rows
<1>1. \A q \in Requests \ {s} : tx'[q] = tx[q]
  BY DEF Create, LedgerInv, WellTyped, LedgerTypeOK
<1>2. /\ tx'[s].pc = NextPc(target) /\ tx'[s].cert = c /\ tx'[s].target = target
      /\ tx'[s].row = IF target \in Current THEN "DRAFT" ELSE target
      /\ tx'[s].seen = "NONE" /\ tx'[s].todo = {} /\ tx'[s].held = {}
  BY <1>0, CreateBegins
<1>3. RowLocks' /\ HeldIsLive'
  BY <1>0, <1>1, <1>2, LocksKept
<1>4. NewIsOwn'
  <2>1. status[c] = "NONE" /\ \A q \in Requests : tx[q].cert # c
    BY DEF Create, Fresh, Unused
  <2> QED BY <1>0, <1>1, <1>2, <2>1 DEF LedgerInv, NewIsOwn
<1>5. IntentKept'
  <2>1. Intent(tx'[s], cast'.editing)
    <3>1. target \in Replaceable \cup {"ARCHIVED"} /\ (~cast.editing => target \in Replaceable)
      BY DeriveLive DEF Create, CreateTarget
    <3> QED BY <1>0, <1>2, <3>1, StatusTypes DEF Intent, NextPc, Replaceable
  <2>2. ASSUME NEW q \in Requests \ {s}, tx'[q].pc # "idle" PROVE Intent(tx'[q], cast'.editing)
    BY <1>0, <1>1, <2>2 DEF LedgerInv, IntentKept, Intent
  <2> QED BY <2>1, <2>2 DEF IntentKept
<1> QED BY <1>3, <1>4, <1>5

LEMMA EditTargets ==
    ASSUME NEW c \in Certs, NEW v \in 0..Forever, NEW request \in EditRequests,
           Editable(status[c], request)
    PROVE  /\ EditTarget(c, v, request) # "NONE"
           /\ EditTarget(c, v, request) = "REPLACED" <=> status[c] = "REPLACED"
<1>1. CASE request = "archive"
  BY <1>1 DEF EditTarget, Editable
<1>2. CASE request = "keep" /\ status[c] \notin Replaceable
  BY <1>2 DEF EditTarget, Editable
<1>3. CASE request # "archive" /\ ~(request = "keep" /\ status[c] \notin Replaceable)
  <2>1. EditTarget(c, v, request) = Derive(v, today)
    BY <1>3 DEF EditTarget
  <2>2. Derive(v, today) \in Replaceable
    BY DeriveLive
  <2> QED BY <1>3, <2>1, <2>2 DEF Editable, Replaceable
<1> QED BY <1>1, <1>2, <1>3

LEMMA EditInv ==
    ASSUME LedgerInv, NEW s \in Requests, NEW c \in Certs, NEW v \in 0..Forever,
           NEW request \in EditRequests, Edit(s, c, v, request)
    PROVE  RowLocks' /\ HeldIsLive' /\ NewIsOwn' /\ IntentKept'
<1> DEFINE target == EditTarget(c, v, request)
<1>0. LedgerTypeOK /\ UNCHANGED <<cast, status, scan>>
  BY DEF LedgerInv, WellTyped, Edit, rows
<1>1. \A q \in Requests \ {s} : tx'[q] = tx[q]
  BY DEF Edit, LedgerInv, WellTyped, LedgerTypeOK
<1>2. /\ tx'[s].pc = IF EditDrafts(c, v, request) THEN "self" ELSE NextPc(target)
      /\ tx'[s].cert = c /\ tx'[s].target = target
      /\ tx'[s].row = IF EditDrafts(c, v, request) THEN "DRAFT" ELSE status[c]
      /\ tx'[s].seen = status[c] /\ tx'[s].todo = {} /\ tx'[s].held = {}
  BY <1>0, EditBegins
<1>3. RowLocks' /\ HeldIsLive'
  BY <1>0, <1>1, <1>2, LocksKept
<1>4. Editable(status[c], request) /\ status[c] # "NONE" /\ cast.editing
  BY DEF Edit, Editable
<1>5. NewIsOwn'
  BY <1>0, <1>1, <1>2, <1>4 DEF LedgerInv, NewIsOwn
<1>6. IntentKept'
  <2>1. Intent(tx'[s], cast'.editing)
    <3>1. target # "NONE" /\ (target = "REPLACED" <=> status[c] = "REPLACED")
      BY <1>4, EditTargets
    <3>2. EditDrafts(c, v, request) => target \in Replaceable
      BY StatusTypes DEF EditDrafts
    <3> HIDE DEF target
    <3> QED BY <1>0, <1>2, <1>4, <3>1, <3>2 DEF Intent, NextPc
  <2>2. ASSUME NEW q \in Requests \ {s}, tx'[q].pc # "idle" PROVE Intent(tx'[q], cast'.editing)
    BY <1>0, <1>1, <2>2 DEF LedgerInv, IntentKept, Intent
  <2> QED BY <2>1, <2>2 DEF IntentKept
<1> QED BY <1>3, <1>5, <1>6

\* A step that changes only what request s still has to lock and what it holds.
LEMMA LockSelfInv ==
    ASSUME LedgerInv, NEW s \in Requests, LockSelf(s)
    PROVE  RowLocks' /\ HeldIsLive' /\ NewIsOwn' /\ IntentKept'
<1>0. LedgerTypeOK /\ UNCHANGED <<cast, status, scan>> /\ tx[s].pc = "self"
  BY DEF LedgerInv, WellTyped, LockSelf, rows
<1>1. \A q \in Requests \ {s} : tx'[q] = tx[q]
  BY DEF LockSelf, LedgerInv, WellTyped, LedgerTypeOK
<1>2. /\ tx'[s].pc = "select" /\ tx'[s].held = {tx[s].cert}
      /\ tx'[s].cert = tx[s].cert /\ tx'[s].target = tx[s].target /\ tx'[s].row = tx[s].row
      /\ tx'[s].seen = tx[s].seen /\ tx'[s].todo = tx[s].todo
  BY <1>0 DEF LockSelf, LedgerTypeOK, TxType
<1>3. RowLocks'
  <2>1. ~HeldByOther(s, tx[s].cert)
    BY DEF LockSelf
  <2> QED BY <1>0, <1>1, <1>2, <2>1
          DEF LedgerInv, RowLocks, HeldByOther, HeldByScan, HeldByTx
<1>4. HeldIsLive'
  BY <1>0, <1>1, <1>2 DEF LedgerInv, HeldIsLive, Others
<1>5. NewIsOwn'
  BY <1>0, <1>1, <1>2 DEF LedgerInv, NewIsOwn
<1>6. IntentKept'
  <2>1. Intent(tx'[s], cast'.editing)
    BY <1>0, <1>2 DEF LedgerInv, IntentKept, Intent
  <2>2. ASSUME NEW q \in Requests \ {s}, tx'[q].pc # "idle" PROVE Intent(tx'[q], cast'.editing)
    BY <1>0, <1>1, <2>2 DEF LedgerInv, IntentKept, Intent
  <2> QED BY <2>1, <2>2 DEF IntentKept
<1> QED BY <1>3, <1>4, <1>5, <1>6

LEMMA SelectInv ==
    ASSUME LedgerInv, NEW s \in Requests, Select(s)
    PROVE  RowLocks' /\ HeldIsLive' /\ NewIsOwn' /\ IntentKept'
<1>0. LedgerTypeOK /\ UNCHANGED <<cast, status, scan>> /\ tx[s].pc = "select"
  BY DEF LedgerInv, WellTyped, Select, rows
<1>1. \A q \in Requests \ {s} : tx'[q] = tx[q]
  BY DEF Select, LedgerInv, WellTyped, LedgerTypeOK
<1>2. /\ tx'[s].pc = "wait" /\ tx'[s].held = tx[s].held
      /\ tx'[s].cert = tx[s].cert /\ tx'[s].target = tx[s].target /\ tx'[s].row = tx[s].row
      /\ tx'[s].seen = tx[s].seen
  BY <1>0 DEF Select, LedgerTypeOK, TxType
<1>3. RowLocks' /\ HeldIsLive'
  BY <1>0, <1>1, <1>2, LocksKept
<1>4. NewIsOwn'
  BY <1>0, <1>1, <1>2 DEF LedgerInv, NewIsOwn
<1>5. IntentKept'
  <2>1. Intent(tx'[s], cast'.editing)
    BY <1>0, <1>2 DEF LedgerInv, IntentKept, Intent
  <2>2. ASSUME NEW q \in Requests \ {s}, tx'[q].pc # "idle" PROVE Intent(tx'[q], cast'.editing)
    BY <1>0, <1>1, <2>2 DEF LedgerInv, IntentKept, Intent
  <2> QED BY <2>1, <2>2 DEF IntentKept
<1> QED BY <1>3, <1>4, <1>5

LEMMA LockRowInv ==
    ASSUME LedgerInv, NEW s \in Requests, NEW c \in Certs, LockRow(s, c)
    PROVE  RowLocks' /\ HeldIsLive' /\ NewIsOwn' /\ IntentKept'
<1>0. /\ LedgerTypeOK /\ UNCHANGED <<cast, status, scan>>
      /\ tx[s].pc = "wait" /\ c \in tx[s].todo /\ ~HeldByOther(s, c)
  BY DEF LedgerInv, WellTyped, LockRow, rows
<1>1. \A q \in Requests \ {s} : tx'[q] = tx[q]
  BY DEF LockRow, LedgerInv, WellTyped, LedgerTypeOK
<1>2. /\ tx'[s].pc = "wait"
      /\ tx'[s].held = IF status[c] \in Replaceable THEN tx[s].held \cup {c} ELSE tx[s].held
      /\ tx'[s].cert = tx[s].cert /\ tx'[s].target = tx[s].target /\ tx'[s].row = tx[s].row
      /\ tx'[s].seen = tx[s].seen
  BY <1>0 DEF LockRow, LedgerTypeOK, TxType
<1>3. RowLocks'
  BY <1>0, <1>1, <1>2 DEF LedgerInv, RowLocks, HeldByOther, HeldByScan, HeldByTx
<1>4. HeldIsLive'
  BY <1>0, <1>1, <1>2 DEF LedgerInv, HeldIsLive, Others
<1>5. NewIsOwn'
  BY <1>0, <1>1, <1>2 DEF LedgerInv, NewIsOwn
<1>6. IntentKept'
  <2>1. Intent(tx'[s], cast'.editing)
    BY <1>0, <1>2 DEF LedgerInv, IntentKept, Intent
  <2>2. ASSUME NEW q \in Requests \ {s}, tx'[q].pc # "idle" PROVE Intent(tx'[q], cast'.editing)
    BY <1>0, <1>1, <2>2 DEF LedgerInv, IntentKept, Intent
  <2> QED BY <2>1, <2>2 DEF IntentKept
<1> QED BY <1>3, <1>4, <1>5, <1>6

-----------------------------------------------------------------------------
(***************************************************************************)
(* Commits and scans                                                       *)
(***************************************************************************)

\* A commit writes its own record and the others it holds, of which it writes nothing
\* or REPLACED; every other row stays as it is.
LEMMA CommitWrites ==
    ASSUME LedgerTypeOK, NEW s \in Requests, Commit(s), NEW c \in Certs, c # tx[s].cert
    PROVE  /\ validTo'[c] = validTo[c]
           /\ \/ /\ status'[c] = status[c] /\ replacedBy'[c] = replacedBy[c]
                 /\ CommitReplaced(s) \/ c \notin Others(s)
              \/ /\ CommitLive(s) /\ c \in Others(s)
                 /\ status'[c] = "REPLACED" /\ replacedBy'[c] = tx[s].cert
<1>1. validTo'[c] = validTo[c]
  <2>1. WriteValidTo(s)
    BY DEF Commit, CommitReplaced, CommitLive
  <2> QED BY <2>1 DEF WriteValidTo, LedgerTypeOK
<1>2. CASE CommitReplaced(s)
  BY <1>1, <1>2 DEF CommitReplaced, StatusAfter, LedgerTypeOK
<1>3. CASE CommitLive(s)
  BY <1>1, <1>3 DEF CommitLive, StatusAfter, LedgerTypeOK
<1> QED BY <1>2, <1>3 DEF Commit

\* What a commit leaves of its own record.
LEMMA CommitWritesOwn ==
    ASSUME LedgerInv, NEW s \in Requests, Commit(s)
    PROVE  LET c     == tx[s].cert
               final == IF CommitReplaced(s) THEN "REPLACED" ELSE tx[s].target
           IN  status'[c] = final \/ (status'[c] = status[c] /\ final = tx[s].seen)
<1> DEFINE c     == tx[s].cert
           final == IF CommitReplaced(s) THEN "REPLACED" ELSE tx[s].target
<1>1. c \in Certs /\ Intent(tx[s], cast.editing) /\ final \in CertStatus
  BY DEF Commit, CommitReplaced, CommitLive, Ready, LedgerInv, WellTyped, TxRefers,
         IntentKept, LedgerTypeOK, TxType, CertStatus
<1>2. \/ status' = StatusAfter(s, final, {})
      \/ status' = StatusAfter(s, final, Others(s))
  BY DEF Commit, CommitReplaced, CommitLive
<1>3. status'[c] = Written(s, IF tx[s].row = "DRAFT" THEN "DRAFT" ELSE tx[s].seen, final, status[c])
  BY <1>1, <1>2 DEF StatusAfter
<1>4. final # "DRAFT"
  BY <1>1, StatusTypes
<1> HIDE DEF final, c
<1>5. status'[c] = final \/ (status'[c] = status[c] /\ final = tx[s].seen)
  BY <1>3, <1>4 DEF Written
<1> QED BY <1>5 DEF c, final

\* Rows that others hold are not written, nor is the record of a request that inserts.
LEMMA CommitSpares ==
    ASSUME LedgerInv, NEW s \in Requests, Commit(s), NEW c \in Certs,
           \/ \E q \in Requests \ {s} : c \in tx[q].held
           \/ \E p \in Scans : c \in scan[p].locked
           \/ status[c] = "NONE" /\ c # tx[s].cert
    PROVE  status'[c] = status[c] /\ c # tx[s].cert
<1>1. c # tx[s].cert
  BY DEF Commit, CommitReplaced, CommitLive, Ready, HeldByOther, HeldByScan, HeldByTx
<1>2. c \notin Others(s)
  BY StatusTypes DEF Others, LedgerInv, RowLocks, HeldIsLive
<1> QED BY <1>1, <1>2, CommitWrites DEF LedgerInv, WellTyped

LEMMA CommitInv ==
    ASSUME LedgerInv, NEW s \in Requests, Commit(s)
    PROVE  RowLocks' /\ HeldIsLive' /\ NewIsOwn' /\ IntentKept'
<1>0. EndTx(s) /\ UNCHANGED <<cast, scan>>
  BY DEF Commit, CommitReplaced, CommitLive
<1>1. tx'[s] = IdleTx /\ \A q \in Requests \ {s} : tx'[q] = tx[q]
  BY <1>0 DEF EndTx, LedgerInv, WellTyped, LedgerTypeOK
<1>2. tx'[s].held = {} /\ tx'[s].pc = "idle" /\ tx'[s].cert = NoCert
  BY <1>1 DEF IdleTx
<1>3. RowLocks'
  BY <1>0, <1>1, <1>2 DEF LedgerInv, RowLocks
<1>4. HeldIsLive'
  <2>1. ASSUME NEW q \in Requests, NEW c \in Others(q)' PROVE status'[c] \in Replaceable
    <3>1. q # s /\ c \in Others(q) /\ c \in tx[q].held /\ c \in Certs
      BY <1>1, <1>2, <2>1 DEF Others, LedgerInv, WellTyped, LedgerTypeOK, TxType
    <3> QED BY <3>1, CommitSpares DEF LedgerInv, HeldIsLive
  <2>2. ASSUME NEW p \in Scans, NEW c \in scan'[p].locked PROVE status'[c] \in Current
    <3>1. c \in scan[p].locked /\ c \in Certs
      BY <1>0 DEF LedgerInv, WellTyped, LedgerTypeOK, ScanType
    <3> QED BY <3>1, CommitSpares DEF LedgerInv, HeldIsLive
  <2> QED BY <2>1, <2>2 DEF HeldIsLive
<1>5. NewIsOwn'
  <2> SUFFICES ASSUME NEW q \in Requests, tx'[q].pc # "idle", tx'[q].seen = "NONE"
               PROVE  /\ status'[tx'[q].cert] = "NONE"
                      /\ \A r \in Requests \ {q} : tx'[r].cert # tx'[q].cert
    BY DEF NewIsOwn
  <2>1. q # s /\ tx'[q] = tx[q]
    BY <1>1, <1>2
  <2>2. tx[q].cert \in Certs /\ tx[q].cert # NoCert
    BY <2>1, LedgerAssumption DEF LedgerInv, WellTyped, TxRefers
  <2>3. /\ status[tx[q].cert] = "NONE"
        /\ \A r \in Requests \ {q} : tx[r].cert # tx[q].cert
    BY <2>1 DEF LedgerInv, NewIsOwn
  <2>4. status'[tx[q].cert] = "NONE"
    BY <2>1, <2>2, <2>3, CommitSpares
  <2> QED BY <1>1, <1>2, <2>1, <2>2, <2>3, <2>4
<1>6. IntentKept'
  <2>1. ASSUME NEW q \in Requests, tx'[q].pc # "idle" PROVE Intent(tx'[q], cast'.editing)
    <3>1. q # s /\ tx'[q] = tx[q]
      BY <1>1, <1>2, <2>1
    <3> QED BY <1>0, <2>1, <3>1 DEF LedgerInv, IntentKept
  <2> QED BY <2>1 DEF IntentKept
<1> QED BY <1>3, <1>4, <1>5, <1>6

\* A scan keeps a live record live, and every other record as it is.
LEMMA ScanKeepsLive ==
    ASSUME LedgerInv, NEW p \in Scans, ScanCommit(p), NEW c \in Certs
    PROVE  \/ status'[c] = status[c] /\ c \notin scan[p].locked
           \/ /\ c \in scan[p].locked
              /\ status[c] \in Replaceable /\ status'[c] \in Replaceable
BY DeriveLive, StatusTypes DEF ScanCommit, LedgerInv, HeldIsLive, WellTyped, LedgerTypeOK

LEMMA ScanCommitInv ==
    ASSUME LedgerInv, NEW p \in Scans, ScanCommit(p)
    PROVE  RowLocks' /\ HeldIsLive' /\ NewIsOwn' /\ IntentKept'
<1>0. UNCHANGED <<cast, tx>>
  BY DEF ScanCommit
<1>1. scan'[p].locked = {} /\ \A r \in Scans \ {p} : scan'[r] = scan[r]
  BY DEF ScanCommit, IdleScan, LedgerInv, WellTyped, LedgerTypeOK
<1>2. RowLocks'
  BY <1>0, <1>1 DEF LedgerInv, RowLocks
<1>3. HeldIsLive'
  <2>1. ASSUME NEW q \in Requests, NEW c \in Others(q)' PROVE status'[c] \in Replaceable
    <3>1. c \in Others(q) /\ c \in Certs
      BY <1>0 DEF Others, LedgerInv, WellTyped, LedgerTypeOK, TxType
    <3> QED BY <3>1, ScanKeepsLive DEF LedgerInv, HeldIsLive
  <2>2. ASSUME NEW r \in Scans, NEW c \in scan'[r].locked PROVE status'[c] \in Current
    <3>1. r # p /\ c \in scan[r].locked /\ c \in Certs
      BY <1>1 DEF LedgerInv, WellTyped, LedgerTypeOK, ScanType
    <3>2. c \notin scan[p].locked
      BY <3>1 DEF LedgerInv, RowLocks
    <3> QED BY <3>1, <3>2, ScanKeepsLive DEF LedgerInv, HeldIsLive
  <2> QED BY <2>1, <2>2 DEF HeldIsLive
<1>4. NewIsOwn'
  <2> SUFFICES ASSUME NEW q \in Requests, tx[q].pc # "idle", tx[q].seen = "NONE"
               PROVE  status'[tx[q].cert] = "NONE"
    BY <1>0 DEF NewIsOwn, LedgerInv
  <2>1. tx[q].cert \in Certs /\ status[tx[q].cert] = "NONE"
    BY DEF LedgerInv, NewIsOwn, WellTyped, TxRefers
  <2> QED BY <2>1, ScanKeepsLive, StatusTypes
<1>5. IntentKept'
  BY <1>0 DEF LedgerInv, IntentKept
<1> QED BY <1>2, <1>3, <1>4, <1>5

LEMMA RefreshInv ==
    ASSUME LedgerInv, NEW p \in Scans, Refresh(p) \/ ScanAbort(p)
    PROVE  RowLocks' /\ HeldIsLive' /\ NewIsOwn' /\ IntentKept'
<1>0. UNCHANGED <<cast, status, tx>>
  BY DEF Refresh, ScanAbort, rows
<1>1. /\ scan'[p].locked \subseteq RefreshRows
      /\ \A r \in Scans \ {p} : scan'[r] = scan[r]
  BY DEF Refresh, ScanAbort, IdleScan, LedgerInv, WellTyped, LedgerTypeOK
<1>2. RowLocks'
  BY <1>0, <1>1 DEF LedgerInv, RowLocks, RefreshRows, HeldByScan, HeldByTx
<1>3. HeldIsLive'
  BY <1>0, <1>1 DEF LedgerInv, HeldIsLive, RefreshRows, Others
<1>4. NewIsOwn' /\ IntentKept'
  BY <1>0 DEF LedgerInv, NewIsOwn, IntentKept
<1> QED BY <1>2, <1>3, <1>4

LEMMA LedgerInvStep == ASSUME LedgerInv, [Next]_vars PROVE LedgerInv'
<1> DEFINE Goal == RowLocks' /\ HeldIsLive' /\ NewIsOwn' /\ IntentKept'
<1>0. WellTyped' /\ cast.requests \subseteq Requests /\ cast.certs \subseteq Certs
  BY WellTypedStep, LedgerAssumption DEF LedgerInv, WellTyped, LedgerTypeOK, Cast
<1>1. ASSUME NEW s \in cast.requests, NEW c \in cast.certs, NEW v \in 0..Forever,
             NEW archived \in BOOLEAN, Create(s, c, v, archived)
      PROVE  Goal
  BY <1>0, <1>1, CreateInv
<1>2. ASSUME NEW s \in cast.requests, NEW c \in cast.certs, NEW v \in 0..Forever,
             NEW request \in EditRequests, Edit(s, c, v, request)
      PROVE  Goal
  BY <1>0, <1>2, EditInv
<1>3. ASSUME NEW s \in cast.requests, LockSelf(s) \/ Select(s) \/ \E c \in Certs : LockRow(s, c)
      PROVE  Goal
  BY <1>0, <1>3, LockSelfInv, SelectInv, LockRowInv
<1>4. ASSUME NEW s \in cast.requests, Commit(s) PROVE Goal
  BY <1>0, <1>4, CommitInv
<1>5. ASSUME NEW s \in cast.requests, TxAbort(s) PROVE Goal
  <2>1. EndTx(s) /\ UNCHANGED <<cast, status, scan>>
    BY <1>5 DEF TxAbort, rows
  <2> QED BY <1>0, <2>1, EndKeeps
<1>6. ASSUME NEW p \in Scans, Refresh(p) \/ ScanAbort(p) \/ ScanCommit(p) PROVE Goal
  BY <1>6, RefreshInv, ScanCommitInv
<1>7. ASSUME NextDay \/ UNCHANGED vars PROVE Goal
  <2>1. UNCHANGED <<cast, status, tx, scan>>
    BY <1>7 DEF NextDay, vars, rows
  <2> QED BY <2>1 DEF LedgerInv, RowLocks, HeldIsLive, NewIsOwn, IntentKept, Others
<1> HIDE DEF Goal
<1>8. ASSUME Next PROVE Goal
  BY <1>1, <1>2, <1>3, <1>4, <1>5, <1>6, <1>7, <1>8 DEF Next
<1>9. Goal
  BY <1>7, <1>8
<1> QED BY <1>0, <1>9 DEF Goal, LedgerInv

LEMMA LedgerInvInit == Init => LedgerInv
<1> SUFFICES ASSUME Init PROVE LedgerInv
  OBVIOUS
<1>1. RowLocks /\ HeldIsLive /\ NewIsOwn /\ IntentKept
  BY DEF Init, RowLocks, HeldIsLive, NewIsOwn, IntentKept, Others, IdleTx, IdleScan
<1> QED BY <1>1, WellTypedInit DEF LedgerInv

LEMMA LedgerInvariant == Spec => []LedgerInv
<1>1. Init => LedgerInv
  BY LedgerInvInit
<1>2. LedgerInv /\ [Next]_vars => LedgerInv'
  BY LedgerInvStep
<1> QED BY <1>1, <1>2, PTL DEF Spec

-----------------------------------------------------------------------------
(***************************************************************************)
(* One request at a time                                                   *)
(***************************************************************************)

LEMMA OneAtATimeIsAlone == ASSUME LedgerTypeOK, OneAtATime PROVE Alone
<1>1. IsFiniteSet(cast.requests)
  <2>1. cast.requests \in SUBSET Requests
    BY LedgerAssumption DEF LedgerTypeOK, Cast
  <2> QED BY <2>1, LedgerAssumption, FS_Subset
<1>2. \E s : cast.requests = {s}
  BY <1>1, FS_Singleton DEF OneAtATime
<1> QED BY <1>2 DEF Alone

LEMMA OthersIdle ==
    ASSUME WellTyped, Alone, NEW s \in Requests, tx[s].pc # "idle",
           NEW q \in Requests, q # s
    PROVE  tx[q].pc = "idle"
BY DEF WellTyped, TxRefers, Alone

\* A lone request that has locked all it has to lock would leave one live record,
\* whether it turns out to be the latest or not.
LEMMA LoneCommitLeavesOne ==
    ASSUME LedgerInv, AloneInv, Alone, NEW s \in Requests, Ready(s),
           NEW final, NEW replaced,
           \/ final = tx[s].target /\ replaced = Others(s)
           \/ final = "REPLACED" /\ replaced = {},
           NEW c \in Certs, NEW d \in Certs,
           StatusAfter(s, final, replaced)[c] \in Replaceable,
           StatusAfter(s, final, replaced)[d] \in Replaceable
    PROVE  c = d
<1> DEFINE own   == tx[s].cert
           after == StatusAfter(s, final, replaced)
<1>0. tx[s].pc = "wait" /\ tx[s].todo = {} /\ own \in Certs /\ Intent(tx[s], cast.editing)
  BY DEF Ready, LedgerInv, WellTyped, TxRefers, IntentKept
<1>1. \A x \in Certs \ {own} : after[x] \in Replaceable =>
          status[x] \in Replaceable /\ x \notin replaced
  BY StatusTypes DEF StatusAfter
<1>2. after[own] = final \/ (after[own] = status[own] /\ final = tx[s].seen)
  <2>1. final \in CertStatus
    BY DEF LedgerInv, WellTyped, LedgerTypeOK, TxType, CertStatus
  <2>2. after[own] = Written(s, IF tx[s].row = "DRAFT" THEN "DRAFT" ELSE tx[s].seen, final, status[own])
    BY <1>0 DEF StatusAfter
  <2> QED BY <2>1, <2>2, StatusTypes DEF Written
<1>3. \/ status[own] = tx[s].seen \/ {status[own], tx[s].seen} \subseteq Replaceable
  BY <1>0 DEF AloneInv, SeenIsTrue
<1>4. \A x, y \in Certs : status[x] \in Replaceable /\ status[y] \in Replaceable => x = y
  BY DEF AloneInv, OneLive
<1> HIDE DEF after
<1>5. CASE final \in Replaceable
  <2>1. replaced = Others(s)
    BY <1>5, StatusTypes
  <2>2. \A x \in Certs \ {own} : status[x] \in Replaceable => x \in Others(s)
    BY <1>0, <1>5, StatusTypes DEF AloneInv, LiveIsFound, Others
  <2> QED BY <1>1, <2>1, <2>2 DEF after
<1>6. CASE final \notin Replaceable
  <2>1. after[own] \in Replaceable => status[own] \in Replaceable
    BY <1>2, <1>3, <1>6
  <2> QED BY <1>1, <1>4, <2>1 DEF after
<1> QED BY <1>5, <1>6

\* Steps after which the requests are as before and live records are live.
LEMMA AloneQuiet ==
    ASSUME LedgerInv, AloneInv, Alone, UNCHANGED <<tx, validTo>>,
           \A c \in Certs : \/ status'[c] = status[c]
                            \/ status[c] \in Replaceable /\ status'[c] \in Replaceable
    PROVE  SeenIsTrue' /\ LiveIsFound' /\ OneLive'
<1>1. \A s \in Requests : tx[s].pc # "idle" => tx[s].cert \in Certs
  BY DEF LedgerInv, WellTyped, TxRefers
<1>2. \A c \in Certs : status'[c] \in Replaceable <=> status[c] \in Replaceable
  OBVIOUS
<1>3. SeenIsTrue'
  BY <1>1 DEF AloneInv, SeenIsTrue
<1>4. LiveIsFound'
  BY <1>2 DEF AloneInv, LiveIsFound
<1>5. OneLive'
  BY <1>2 DEF AloneInv, OneLive
<1> QED BY <1>3, <1>4, <1>5

\* Steps of the lone request that write no row.
LEMMA AloneOwn ==
    ASSUME LedgerInv, AloneInv, Alone, NEW s \in Requests, UNCHANGED rows,
           \A q \in Requests \ {s} : tx'[q] = tx[q] /\ tx[q].pc = "idle",
           tx'[s].pc # "idle" =>
               /\ \/ status[tx'[s].cert] = tx'[s].seen
                  \/ {status[tx'[s].cert], tx'[s].seen} \subseteq Replaceable
               /\ tx'[s].seen # "NONE" => validTo[tx'[s].cert] = tx'[s].seenValid,
           tx'[s].pc = "wait" /\ tx'[s].target \in Replaceable =>
               \A c \in Certs \ {tx'[s].cert} :
                   status[c] \in Replaceable => c \in tx'[s].todo \cup tx'[s].held
    PROVE  SeenIsTrue' /\ LiveIsFound' /\ OneLive'
<1>1. SeenIsTrue'
  BY DEF SeenIsTrue, rows
<1>2. LiveIsFound'
  BY DEF LiveIsFound, rows
<1>3. OneLive'
  BY DEF AloneInv, OneLive, rows
<1> QED BY <1>1, <1>2, <1>3

LEMMA AloneEnd ==
    ASSUME LedgerInv, AloneInv, Alone, NEW s \in Requests, EndTx(s), tx[s].pc # "idle"
    PROVE  SeenIsTrue' /\ LiveIsFound'
<1>1. \A q \in Requests : tx'[q].pc = "idle"
  BY OthersIdle DEF EndTx, IdleTx, LedgerInv, WellTyped, LedgerTypeOK
<1> QED BY <1>1 DEF SeenIsTrue, LiveIsFound

LEMMA AloneStep == ASSUME LedgerInv, AloneInv, Alone, [Next]_vars
                   PROVE  SeenIsTrue' /\ LiveIsFound' /\ OneLive'
<1> DEFINE Goal == SeenIsTrue' /\ LiveIsFound' /\ OneLive'
<1>0. LedgerTypeOK /\ cast.requests \subseteq Requests /\ cast.certs \subseteq Certs
  BY LedgerAssumption DEF LedgerInv, WellTyped, LedgerTypeOK, Cast
<1>1. ASSUME NEW s \in cast.requests, NEW c \in cast.certs, NEW v \in 0..Forever,
             NEW archived \in BOOLEAN, Create(s, c, v, archived)
      PROVE  Goal
  <2>1. /\ tx'[s].pc = NextPc(CreateTarget(v, archived)) /\ tx'[s].cert = c
        /\ tx'[s].target = CreateTarget(v, archived) /\ tx'[s].seen = "NONE"
    BY <1>0, <1>1, CreateBegins
  <2>2. status[c] = "NONE"
    BY <1>1 DEF Create, Fresh, Unused
  <2>3. tx'[s].target \in Replaceable => tx'[s].pc # "wait"
    BY <2>1 DEF NextPc
  <2>4. \A q \in Requests \ {s} : tx'[q] = tx[q] /\ tx[q].pc = "idle"
    BY <1>0, <1>1 DEF Create, LedgerInv, WellTyped, TxRefers, Alone, LedgerTypeOK
  <2>5. UNCHANGED rows
    BY <1>1 DEF Create
  <2> QED BY <1>0, <2>1, <2>2, <2>3, <2>4, <2>5, AloneOwn
<1>2. ASSUME NEW s \in cast.requests, NEW c \in cast.certs, NEW v \in 0..Forever,
             NEW request \in EditRequests, Edit(s, c, v, request)
      PROVE  Goal
  <2>1. /\ tx'[s].pc = IF EditDrafts(c, v, request)
                       THEN "self" ELSE NextPc(EditTarget(c, v, request))
        /\ tx'[s].cert = c /\ tx'[s].target = EditTarget(c, v, request)
        /\ tx'[s].seen = status[c] /\ tx'[s].seenValid = validTo[c]
    BY <1>0, <1>2, EditBegins
  <2>2. tx'[s].target \in Replaceable => tx'[s].pc # "wait"
    BY <2>1 DEF NextPc
  <2>3. \A q \in Requests \ {s} : tx'[q] = tx[q] /\ tx[q].pc = "idle"
    BY <1>0, <1>2 DEF Edit, LedgerInv, WellTyped, TxRefers, Alone, LedgerTypeOK
  <2>4. UNCHANGED rows
    BY <1>2 DEF Edit
  <2> QED BY <1>0, <2>1, <2>2, <2>3, <2>4, AloneOwn
<1>3. ASSUME NEW s \in cast.requests, LockSelf(s) \/ Select(s) \/ \E c \in Certs : LockRow(s, c)
      PROVE  Goal
  <2>0. /\ tx[s].pc # "idle" /\ UNCHANGED rows
        /\ \A q \in Requests \ {s} : tx'[q] = tx[q]
    BY <1>0, <1>3 DEF LockSelf, Select, LockRow, LedgerTypeOK
  <2>1. \A q \in Requests \ {s} : tx'[q] = tx[q] /\ tx[q].pc = "idle"
    BY <1>0, <2>0, OthersIdle DEF LedgerInv
  <2>2. /\ \/ status[tx[s].cert] = tx[s].seen
           \/ {status[tx[s].cert], tx[s].seen} \subseteq Replaceable
        /\ tx[s].seen # "NONE" => validTo[tx[s].cert] = tx[s].seenValid
    BY <1>0, <2>0 DEF AloneInv, SeenIsTrue
  <2>3. CASE LockSelf(s)
    <3>1. /\ tx'[s].pc = "select" /\ tx'[s].cert = tx[s].cert
          /\ tx'[s].seen = tx[s].seen /\ tx'[s].seenValid = tx[s].seenValid
      BY <1>0, <2>3 DEF LockSelf, LedgerTypeOK, TxType
    <3> QED BY <1>0, <2>0, <2>1, <2>2, <3>1, AloneOwn
  <2>4. CASE Select(s)
    <3>1. /\ tx'[s].cert = tx[s].cert
          /\ tx'[s].seen = tx[s].seen /\ tx'[s].seenValid = tx[s].seenValid
          /\ tx'[s].todo = {c \in Certs \ {tx[s].cert} : status[c] \in Replaceable}
      BY <1>0, <2>4 DEF Select, LedgerTypeOK, TxType
    <3> QED BY <1>0, <2>0, <2>1, <2>2, <3>1, AloneOwn
  <2>5. ASSUME NEW c \in Certs, LockRow(s, c) PROVE Goal
    <3>1. /\ tx[s].pc = "wait" /\ tx'[s].cert = tx[s].cert /\ tx'[s].target = tx[s].target
          /\ tx'[s].seen = tx[s].seen /\ tx'[s].seenValid = tx[s].seenValid
          /\ tx'[s].todo = tx[s].todo \ {c}
          /\ tx'[s].held = IF status[c] \in Replaceable THEN tx[s].held \cup {c} ELSE tx[s].held
      BY <1>0, <2>5 DEF LockRow, LedgerTypeOK, TxType
    <3>2. tx[s].target \in Replaceable =>
              \A d \in Certs \ {tx[s].cert} :
                  status[d] \in Replaceable => d \in tx[s].todo \cup tx[s].held
      BY <1>0, <3>1 DEF AloneInv, LiveIsFound
    <3>3. tx'[s].target \in Replaceable =>
              \A d \in Certs \ {tx'[s].cert} :
                  status[d] \in Replaceable => d \in tx'[s].todo \cup tx'[s].held
      BY <3>1, <3>2
    <3> QED BY <1>0, <2>0, <2>1, <2>2, <3>1, <3>3, AloneOwn
  <2> QED BY <1>3, <2>3, <2>4, <2>5
<1>4. ASSUME NEW s \in cast.requests, Commit(s) PROVE Goal
  <2>1. Ready(s) /\ EndTx(s) /\ tx[s].pc # "idle"
    BY <1>4 DEF Commit, CommitReplaced, CommitLive, Ready
  <2>2. \/ status' = StatusAfter(s, tx[s].target, Others(s))
        \/ status' = StatusAfter(s, "REPLACED", {})
    BY <1>4 DEF Commit, CommitReplaced, CommitLive
  <2>3. OneLive'
    BY <1>0, <2>1, <2>2, LoneCommitLeavesOne DEF OneLive
  <2> QED BY <1>0, <2>1, <2>3, AloneEnd
<1>5. ASSUME NEW s \in cast.requests, TxAbort(s) PROVE Goal
  <2>1. EndTx(s) /\ tx[s].pc # "idle" /\ UNCHANGED rows
    BY <1>5 DEF TxAbort
  <2>2. OneLive'
    BY <2>1 DEF AloneInv, OneLive, rows
  <2> QED BY <1>0, <2>1, <2>2, AloneEnd
<1>6. ASSUME NEW p \in Scans, Refresh(p) \/ ScanAbort(p) PROVE Goal
  BY <1>6, AloneQuiet DEF Refresh, ScanAbort, rows
<1>7. ASSUME NEW p \in Scans, ScanCommit(p) PROVE Goal
  <2>1. UNCHANGED <<tx, validTo>>
    BY <1>7 DEF ScanCommit
  <2> QED BY <1>7, <2>1, ScanKeepsLive, AloneQuiet
<1>8. ASSUME NextDay \/ UNCHANGED vars PROVE Goal
  BY <1>8, AloneQuiet DEF NextDay, vars, rows
<1> HIDE DEF Goal
<1>9. ASSUME Next PROVE Goal
  BY <1>1, <1>2, <1>3, <1>4, <1>5, <1>6, <1>7, <1>8, <1>9 DEF Next
<1>10. Goal
  BY <1>8, <1>9
<1> QED BY <1>10 DEF Goal

LEMMA AloneInvariant == Spec => []AloneInv
<1>1. Init => AloneInv
  BY StatusTypes DEF Init, AloneInv, SeenIsTrue, LiveIsFound, OneLive, IdleTx
<1>2. LedgerInv /\ AloneInv /\ [Next]_vars => AloneInv'
  BY AloneStep, CastStays DEF AloneInv, Alone
<1> QED BY <1>1, <1>2, LedgerInvariant, PTL DEF Spec

-----------------------------------------------------------------------------
(***************************************************************************)
(* The theorems                                                            *)
(***************************************************************************)

\* With one request at a time an employee has one live record of a type, expired
\* ones included, whatever the scans do in between (OneLiveRecord).
THEOREM OneRecordIsLive == Spec => []OneLiveRecord
<1>1. LedgerInv /\ AloneInv => OneLiveRecord
  BY OneAtATimeIsAlone DEF OneLiveRecord, AloneInv, OneLive, LedgerInv, WellTyped
<1> QED BY <1>1, LedgerInvariant, AloneInvariant, PTL

\* The unique index of current records never refuses a request that runs alone: neither
\* what it has flushed nor what it is about to commit (LoneRequestFitsIndex).
THEOREM LoneRequestsFit == Spec => []LoneRequestFitsIndex
<1>1. ASSUME LedgerInv, AloneInv PROVE LoneRequestFitsIndex
  <2> SUFFICES ASSUME NEW s \in Requests, OneAtATime, tx[s].pc # "idle"
               PROVE  /\ OneCurrentIn([status EXCEPT ![tx[s].cert] = tx[s].row])
                      /\ Ready(s) /\ LaterThan(s) = {} =>
                            OneCurrentIn(StatusAfter(s, tx[s].target, Others(s)))
    BY DEF LoneRequestFitsIndex
  <2>1. Alone /\ LedgerTypeOK /\ tx[s].cert \in Certs /\ Intent(tx[s], cast.editing)
    BY <1>1, OneAtATimeIsAlone DEF LedgerInv, WellTyped, TxRefers, IntentKept
  <2>2. Ready(s) => OneCurrentIn(StatusAfter(s, tx[s].target, Others(s)))
    BY <1>1, <2>1, LoneCommitLeavesOne, StatusTypes DEF OneCurrentIn
  <2>3. \A c, d \in Certs : status[c] \in Replaceable /\ status[d] \in Replaceable => c = d
    BY <1>1, <2>1 DEF AloneInv, OneLive
  <2>4. tx[s].row \in Current => status[tx[s].cert] \in Replaceable
    <3>1. "DRAFT" \notin Current
      BY DEF Current
    <3>2. \/ status[tx[s].cert] = tx[s].seen
          \/ {status[tx[s].cert], tx[s].seen} \subseteq Replaceable
      BY <1>1, <2>1 DEF AloneInv, SeenIsTrue
    <3> QED BY <2>1, <3>1, <3>2, StatusTypes DEF Intent
  <2>5. OneCurrentIn([status EXCEPT ![tx[s].cert] = tx[s].row])
    <3> DEFINE f == [status EXCEPT ![tx[s].cert] = tx[s].row]
    <3>1. \A c \in Certs : f[c] \in Current => status[c] \in Replaceable
      BY <2>1, <2>4, StatusTypes DEF LedgerTypeOK
    <3> QED BY <2>3, <3>1 DEF OneCurrentIn
  <2> QED BY <2>2, <2>5
<1> QED BY <1>1, LedgerInvariant, AloneInvariant, PTL

-----------------------------------------------------------------------------
(***************************************************************************)
(* Replacement                                                             *)
(***************************************************************************)

\* Rows are written by commits only.
LEMMA RowsFrame ==
    ASSUME LedgerTypeOK, [Next]_vars
    PROVE  \/ UNCHANGED rows
           \/ \E s \in Requests : Commit(s)
           \/ \E p \in Scans : ScanCommit(p)
<1> DEFINE Goal == \/ UNCHANGED rows
                   \/ \E s \in Requests : Commit(s)
                   \/ \E p \in Scans : ScanCommit(p)
<1>0. cast.requests \subseteq Requests
  BY LedgerAssumption DEF LedgerTypeOK, Cast
<1>1. ASSUME NEW s, NEW c, NEW v, NEW archived, Create(s, c, v, archived) PROVE Goal
  BY <1>1 DEF Create
<1>2. ASSUME NEW s, NEW c, NEW v, NEW request, Edit(s, c, v, request) PROVE Goal
  BY <1>2 DEF Edit
<1>3. ASSUME NEW s \in cast.requests,
             \/ LockSelf(s) \/ Select(s) \/ (\E c \in Certs : LockRow(s, c))
             \/ Commit(s) \/ TxAbort(s)
      PROVE  Goal
  BY <1>0, <1>3 DEF LockSelf, Select, LockRow, TxAbort
<1>4. ASSUME NEW p \in Scans, Refresh(p) \/ ScanCommit(p) \/ ScanAbort(p) PROVE Goal
  BY <1>4 DEF Refresh, ScanAbort
<1>5. ASSUME NextDay \/ UNCHANGED vars PROVE Goal
  BY <1>5 DEF NextDay, vars, rows
<1> HIDE DEF Goal
<1>6. Goal
  BY <1>1, <1>2, <1>3, <1>4, <1>5 DEF Next
<1> QED BY <1>6 DEF Goal

\* Who edits is alone.
EditsAlone == cast.editing => OneAtATime

\* A commit of an edit finds its record as it was read; what it read to be replaced it
\* leaves alone.
LEMMA EditOfReplaced ==
    ASSUME LedgerInv, AloneInv, EditsAlone, NEW s \in Requests, Commit(s),
           status[tx[s].cert] = "REPLACED"
    PROVE  /\ tx[s].seen = "REPLACED" /\ tx[s].target = "REPLACED"
           /\ CommitLive(s) /\ Others(s) = {}
<1>0. tx[s].pc # "idle" /\ Intent(tx[s], cast.editing)
  BY DEF Commit, CommitReplaced, CommitLive, Ready, LedgerInv, IntentKept
<1>1. tx[s].seen # "NONE"
  BY <1>0 DEF LedgerInv, NewIsOwn
<1>2. Alone
  BY <1>0, <1>1, OneAtATimeIsAlone DEF Intent, EditsAlone, LedgerInv, WellTyped
<1>3. tx[s].seen = "REPLACED"
  BY <1>0, <1>2, StatusTypes DEF AloneInv, SeenIsTrue
<1>4. tx[s].target = "REPLACED" /\ tx[s].held = {}
  BY <1>0, <1>3, StatusTypes DEF Intent
<1>5. Others(s) = {} /\ LaterThan(s) = {}
  BY <1>4 DEF Others, LaterThan
<1>6. CommitLive(s)
  BY <1>5 DEF Commit, CommitReplaced
<1> QED BY <1>3, <1>4, <1>5, <1>6

LEMMA ReplacedStays ==
    ASSUME LedgerInv, AloneInv, EditsAlone, [Next]_vars, NEW c \in Certs, status[c] = "REPLACED"
    PROVE  status'[c] = "REPLACED" /\ replacedBy'[c] = replacedBy[c]
<1>0. LedgerTypeOK
  BY DEF LedgerInv, WellTyped
<1>1. CASE UNCHANGED rows
  BY <1>1 DEF rows
<1>2. ASSUME NEW p \in Scans, ScanCommit(p)
      PROVE  status'[c] = "REPLACED" /\ replacedBy'[c] = replacedBy[c]
  <2>1. replacedBy'[c] = replacedBy[c]
    BY <1>2 DEF ScanCommit
  <2> QED BY <1>2, <2>1, ScanKeepsLive, StatusTypes
<1>3. ASSUME NEW s \in Requests, Commit(s)
      PROVE  status'[c] = "REPLACED" /\ replacedBy'[c] = replacedBy[c]
  <2>1. CASE c # tx[s].cert
    <3>1. c \notin Others(s)
      BY StatusTypes DEF LedgerInv, HeldIsLive
    <3> QED BY <1>0, <1>3, <2>1, <3>1, CommitWrites
  <2>2. CASE c = tx[s].cert
    <3>1. /\ tx[s].seen = "REPLACED" /\ tx[s].target = "REPLACED"
          /\ CommitLive(s) /\ Others(s) = {}
      BY <1>3, <2>2, EditOfReplaced
    <3>2. status'[c] = "REPLACED"
      BY <1>3, <2>2, <3>1, CommitWritesOwn
    <3>3. replacedBy'[c] = replacedBy[c]
      BY <3>1 DEF CommitLive
    <3> QED BY <3>2, <3>3
  <2> QED BY <2>1, <2>2
<1> QED BY <1>0, <1>1, <1>2, <1>3, RowsFrame

\* The valid_to a commit leaves is the one the request compared with the others.
LEMMA CommitValidTo ==
    ASSUME LedgerInv, AloneInv, EditsAlone, NEW s \in Requests, Commit(s)
    PROVE  validTo'[tx[s].cert] = tx[s].valid
<1>0. /\ tx[s].pc # "idle" /\ tx[s].cert \in Certs /\ Intent(tx[s], cast.editing)
      /\ WriteValidTo(s) /\ LedgerTypeOK
  BY DEF Commit, CommitReplaced, CommitLive, Ready, LedgerInv, WellTyped, TxRefers, IntentKept
<1>1. CASE tx[s].seen = "NONE"
  BY <1>0, <1>1 DEF WriteValidTo, LedgerTypeOK
<1>2. CASE tx[s].seen # "NONE"
  <2>1. Alone
    BY <1>0, <1>2, OneAtATimeIsAlone DEF Intent, EditsAlone
  <2>2. validTo[tx[s].cert] = tx[s].seenValid
    BY <1>0, <1>2, <2>1 DEF AloneInv, SeenIsTrue
  <2> QED BY <1>0, <1>2, <2>2 DEF WriteValidTo, Written, LedgerTypeOK
<1> QED BY <1>1, <1>2

LEMMA LaterReplaces ==
    ASSUME LedgerInv, AloneInv, EditsAlone, [Next]_vars, NEW c \in Certs,
           status[c] # "REPLACED", status'[c] = "REPLACED"
    PROVE  validTo'[c] <= validTo'[replacedBy'[c]]
<1>0. LedgerTypeOK
  BY DEF LedgerInv, WellTyped
<1>1. PICK s \in Requests : Commit(s)
  <2>1. ~UNCHANGED rows
    BY DEF rows
  <2>2. ~\E p \in Scans : ScanCommit(p)
    BY ScanKeepsLive, StatusTypes
  <2> QED BY <1>0, <2>1, <2>2, RowsFrame
<1>2. /\ validTo'[tx[s].cert] = tx[s].valid /\ tx[s].cert \in Certs /\ tx[s].valid \in 0..Forever
      /\ Others(s) \subseteq Certs \ {tx[s].cert}
  BY <1>0, <1>1, CommitValidTo
     DEF Commit, CommitReplaced, CommitLive, Ready, LedgerInv, WellTyped, TxRefers,
         LedgerTypeOK, TxType, Others
<1>3. \A d \in Certs : validTo[d] \in 0..Forever
  BY <1>0 DEF LedgerTypeOK
<1>4. CASE c # tx[s].cert
  <2>1. CommitLive(s) /\ c \in Others(s) /\ replacedBy'[c] = tx[s].cert /\ validTo'[c] = validTo[c]
    BY <1>0, <1>1, <1>4, CommitWrites
  <2>2. ~(validTo[c] > tx[s].valid)
    BY <2>1 DEF CommitLive, LaterThan
  <2> QED BY <1>2, <1>3, <2>1, <2>2, LedgerAssumption DEF Forever
<1>5. CASE c = tx[s].cert
  <2>1. CommitReplaced(s)
    <3>1. ASSUME ~CommitReplaced(s) PROVE FALSE
      <4>1. tx[s].target = "REPLACED"
        BY <1>1, <1>5, <3>1, CommitWritesOwn
      <4>2. tx[s].pc # "idle" /\ Intent(tx[s], cast.editing) /\ tx[s].seen = "REPLACED"
        BY <1>1, <4>1 DEF Commit, CommitReplaced, CommitLive, Ready, LedgerInv, IntentKept, Intent
      <4>3. Alone
        BY <1>0, <4>2, OneAtATimeIsAlone DEF Intent, EditsAlone
      <4>4. status[c] = "REPLACED"
        BY <1>5, <4>2, <4>3, StatusTypes DEF AloneInv, SeenIsTrue
      <4> QED BY <4>4
    <3> QED BY <3>1
  <2>2. PICK latest \in LaterThan(s) : replacedBy' = [replacedBy EXCEPT ![tx[s].cert] = latest]
    BY <2>1 DEF CommitReplaced
  <2>3. latest \in Certs \ {c} /\ validTo[latest] > tx[s].valid
    BY <1>2, <1>5, <2>2 DEF LaterThan
  <2>4. validTo'[latest] = validTo[latest]
    BY <1>0, <1>1, <1>5, <2>3, CommitWrites
  <2>5. replacedBy'[c] = latest
    BY <1>0, <1>5, <2>2 DEF LedgerTypeOK
  <2> QED BY <1>2, <1>3, <1>5, <2>3, <2>4, <2>5, LedgerAssumption DEF Forever
<1> QED BY <1>4, <1>5

\* A replacement hands the coverage on.
LEMMA CoverageStep ==
    ASSUME LedgerInv, AloneInv, CoverageKept, [Next]_vars
    PROVE  CoverageKept'
<1> SUFFICES ASSUME OnlyRegistered, NEW c \in Certs, status'[c] = "REPLACED"
             PROVE  \E d \in Certs : status'[d] \notin {"NONE", "REPLACED"} /\ validTo'[d] >= validTo'[c]
  BY CastStays DEF CoverageKept, OnlyRegistered
<1>0. LedgerTypeOK /\ EditsAlone /\ \A d \in Certs : validTo[d] \in Nat
  BY LedgerAssumption DEF LedgerInv, WellTyped, LedgerTypeOK, EditsAlone, OnlyRegistered, Forever
<1>1. CASE UNCHANGED rows
  BY <1>1 DEF CoverageKept, rows
<1>2. ASSUME NEW p \in Scans, ScanCommit(p)
      PROVE  \E d \in Certs : status'[d] \notin {"NONE", "REPLACED"} /\ validTo'[d] >= validTo'[c]
  <2>1. validTo' = validTo
    BY <1>2 DEF ScanCommit
  <2>2. status[c] = "REPLACED"
    BY <1>2, ScanKeepsLive, StatusTypes
  <2>3. PICK d \in Certs : status[d] \notin {"NONE", "REPLACED"} /\ validTo[d] >= validTo[c]
    BY <2>2 DEF CoverageKept
  <2>4. status'[d] \notin {"NONE", "REPLACED"}
    BY <1>2, <2>3, ScanKeepsLive, StatusTypes
  <2> QED BY <2>1, <2>3, <2>4
<1>3. ASSUME NEW s \in Requests, Commit(s)
      PROVE  \E d \in Certs : status'[d] \notin {"NONE", "REPLACED"} /\ validTo'[d] >= validTo'[c]
  <2> DEFINE own == tx[s].cert
  <2>1. /\ own \in Certs /\ tx[s].pc # "idle" /\ Others(s) \subseteq Certs \ {own}
        /\ Intent(tx[s], cast.editing)
    BY <1>0, <1>3 DEF Commit, CommitReplaced, CommitLive, Ready, LedgerInv, WellTyped,
                      TxRefers, IntentKept, LedgerTypeOK, TxType, Others
  <2>2. tx[s].seen = "NONE" /\ tx[s].target \in Replaceable
    BY <2>1 DEF Intent, OnlyRegistered
  <2>3. status[own] = "NONE"
    BY <2>1, <2>2 DEF LedgerInv, NewIsOwn
  <2>4. validTo'[own] = tx[s].valid /\ tx[s].valid \in Nat
    BY <1>0, <1>3, CommitValidTo, LedgerAssumption DEF LedgerTypeOK, TxType, Forever
  <2>5. \A d \in Certs \ {own} : validTo'[d] = validTo[d]
    BY <1>0, <1>3, CommitWrites
  <2>6. CASE CommitReplaced(s)
    <3>1. PICK latest \in LaterThan(s) : TRUE
      BY <2>6 DEF CommitReplaced
    <3>2. latest \in Certs \ {own} /\ validTo[latest] > tx[s].valid /\ status[latest] \in Replaceable
      BY <2>1, <3>1 DEF LaterThan, LedgerInv, HeldIsLive
    <3>3. \A d \in Certs \ {own} : status'[d] = status[d]
      BY <2>6 DEF CommitReplaced, StatusAfter
    <3>4. CASE c = own
      BY <1>0, <2>4, <2>5, <3>2, <3>3, <3>4, StatusTypes
    <3>5. CASE c # own
      <4>1. PICK d \in Certs : status[d] \notin {"NONE", "REPLACED"} /\ validTo[d] >= validTo[c]
        BY <3>3, <3>5 DEF CoverageKept
      <4> QED BY <2>3, <2>5, <3>3, <3>5, <4>1
    <3> QED BY <3>4, <3>5
  <2>7. CASE CommitLive(s) /\ ~CommitReplaced(s)
    <3>1. status'[own] \notin {"NONE", "REPLACED"}
      <4>1. status'[own] = tx[s].target
        BY <1>3, <2>2, <2>7, CommitWritesOwn, StatusTypes
      <4> QED BY <2>2, <4>1, StatusTypes
    <3>2. \A d \in Others(s) : validTo[d] <= tx[s].valid
      BY <1>0, <2>1, <2>4, <2>7 DEF CommitLive, LaterThan
    <3>3. c # own
      BY <3>1
    <3>4. CASE c \in Others(s)
      BY <2>1, <2>4, <2>5, <3>1, <3>2, <3>3, <3>4, <1>0
    <3>5. CASE c \notin Others(s)
      <4>1. status[c] = "REPLACED"
        BY <1>0, <1>3, <3>3, <3>5, CommitWrites
      <4>2. PICK d \in Certs : status[d] \notin {"NONE", "REPLACED"} /\ validTo[d] >= validTo[c]
        BY <4>1 DEF CoverageKept
      <4>3. d # own
        BY <2>3, <4>2
      <4>4. CASE d \in Others(s)
        <5>1. validTo'[own] >= validTo'[c]
          BY <1>0, <2>4, <2>5, <3>2, <3>3, <4>2, <4>4
        <5> QED BY <2>1, <3>1, <5>1
      <4>5. CASE d \notin Others(s)
        <5>1. status'[d] = status[d] /\ validTo'[d] = validTo[d] /\ validTo'[c] = validTo[c]
          BY <1>0, <1>3, <3>3, <4>3, <4>5, CommitWrites
        <5> QED BY <4>2, <5>1
      <4> QED BY <4>4, <4>5
    <3> QED BY <3>4, <3>5
  <2> QED BY <1>3, <2>6, <2>7 DEF Commit
<1> QED BY <1>0, <1>1, <1>2, <1>3, RowsFrame

LEMMA EditsAloneAlways ==
    ASSUME \A k \in Casts : k.editing => Cardinality(k.requests) = 1
    PROVE  LedgerInv => EditsAlone
BY DEF LedgerInv, WellTyped, LedgerTypeOK, EditsAlone, OneAtATime

\* While records are only registered, or edited by one request at a time, a replaced
\* record stays replaced, by the same record (ReplacedIsTerminal): the locks of
\* replace_active_certificates and of the refresh keep its writers away.
THEOREM ReplacedForGood ==
    ASSUME \A k \in Casts : k.editing => Cardinality(k.requests) = 1
    PROVE  Spec => ReplacedIsTerminal
<1>1. ASSUME LedgerInv, AloneInv, [Next]_vars
      PROVE  [\A c \in Certs : status[c] = "REPLACED" =>
                 status'[c] = "REPLACED" /\ replacedBy'[c] = replacedBy[c]]_vars
  BY <1>1, EditsAloneAlways, ReplacedStays
<1> QED BY <1>1, LedgerInvariant, AloneInvariant, PTL DEF Spec, ReplacedIsTerminal

\* In the same casts, whoever replaces a record is valid at least as long as it
\* (LaterReplacesEarlier): a record that was read before the locks were taken is compared
\* with records that cannot change until the commit.
THEOREM LaterOnesReplace ==
    ASSUME \A k \in Casts : k.editing => Cardinality(k.requests) = 1
    PROVE  Spec => LaterReplacesEarlier
<1>1. ASSUME LedgerInv, AloneInv, [Next]_vars
      PROVE  [\A c \in Certs : status[c] # "REPLACED" /\ status'[c] = "REPLACED" =>
                 validTo'[c] <= validTo'[replacedBy'[c]]]_vars
  BY <1>1, EditsAloneAlways, LaterReplaces
<1> QED BY <1>1, LedgerInvariant, AloneInvariant, PTL DEF Spec, LaterReplacesEarlier

\* Registrations, any number of them at once, never shorten what the ledger covers
\* (CoverageKept): what is replaced is outlasted by a record that is not.
THEOREM CoverageIsKept == Spec => []CoverageKept
<1>1. Init => CoverageKept
  BY DEF Init, CoverageKept
<1>2. LedgerInv /\ AloneInv /\ CoverageKept /\ [Next]_vars => CoverageKept'
  BY CoverageStep
<1> QED BY <1>1, <1>2, LedgerInvariant, AloneInvariant, PTL DEF Spec
=============================================================================
