-------------------------- MODULE CertificateLedger --------------------------
(***************************************************************************)
(* The records of one employee and one certificate type in the ledger:     *)
(* how a record is registered (by hand or by an approved review), edited,  *)
(* replaced by a later one (services/certificates.py,                      *)
(* api/routes/certificates.py), and moved from valid to expiring to        *)
(* expired by the daily scan.                                              *)
(*                                                                         *)
(* Each request is a database transaction of several statements.  It reads *)
(* its own record without a lock, selects the other live records FOR       *)
(* UPDATE one row after the other, and writes everything in its commit.    *)
(* Records of other employees and types are never touched by it, so one    *)
(* pair shows all the interference there is.                               *)
(***************************************************************************)
EXTENDS Naturals, FiniteSets

CONSTANTS
    Certs,      \* identities a record of this employee and type can take: numbers
    Requests,   \* transactions in flight in the API process: numbers
    Casts,      \* what the behaviours are about: see Cast
    Scans,      \* processes that refresh the statuses (beat task, manual scan)
    Horizon,    \* bound: the last day of a behaviour
    Window      \* reminder window in days (largest days_before_expiry)

NoCert == 0

\* The requests and the records of a behaviour, and whether records are edited
\* and archived in it, or only registered as live ones.
Cast == [requests: SUBSET Requests, certs: SUBSET Certs, editing: BOOLEAN]

ASSUME LedgerAssumption ==
    /\ Certs \subseteq Nat \ {NoCert} /\ Requests \subseteq Nat /\ IsFiniteSet(Requests)
    /\ Casts \subseteq Cast /\ Horizon \in Nat /\ Window \in Nat

\* valid_to: a day, or null, which sorts after every day (_valid_to_sort_key).
Days    == 0..Horizon
Forever == Horizon + 1

CertStatus  == {"NONE", "ACTIVE", "EXPIRING", "EXPIRED", "REPLACED", "ARCHIVED"}
Current     == {"ACTIVE", "EXPIRING"}              \* _ACTIVE_CERTIFICATE_STATUSES
Replaceable == {"ACTIVE", "EXPIRING", "EXPIRED"}   \* _REPLACEABLE_CERTIFICATE_STATUSES

VARIABLES
    cast,        \* who takes part, chosen once
    today,
    status,      \* employee_certificate.status ("NONE": no such row yet)
    validTo,     \* employee_certificate.valid_to
    replacedBy,  \* employee_certificate.replaced_by_id
    tx,          \* the requests in flight
    scan         \* the scans in flight

vars == <<cast, today, status, validTo, replacedBy, tx, scan>>
rows == <<status, validTo, replacedBy>>

(***************************************************************************)
(* A request knows its record, the status and valid_to it read, the status *)
(* its own uncommitted row has, what it wants to reach, the rows it still  *)
(* has to lock and those it holds.                                         *)
(***************************************************************************)
TxPc == {"idle", "self", "select", "wait"}

TxType ==
    [pc: TxPc, cert: Certs \cup {NoCert}, valid: 0..Forever,
     target: CertStatus, row: CertStatus \cup {"DRAFT"},
     seen: CertStatus, seenValid: 0..Forever,
     todo: SUBSET Certs, held: SUBSET Certs]
IdleTx ==
    [pc |-> "idle", cert |-> NoCert, valid |-> 0, target |-> "NONE",
     row |-> "NONE", seen |-> "NONE", seenValid |-> 0, todo |-> {}, held |-> {}]

\* A scan holds the rows it refreshes, as of one day, until its commit.
ScanType == [pc: {"idle", "open"}, locked: SUBSET Certs, day: Days]
IdleScan == [pc |-> "idle", locked |-> {}, day |-> 0]

Init ==
    /\ cast \in Casts
    /\ today = 0
    /\ status = [c \in Certs |-> "NONE"]
    /\ validTo = [c \in Certs |-> Forever]
    /\ replacedBy = [c \in Certs |-> NoCert]
    /\ tx = [s \in Requests |-> IdleTx]
    /\ scan = [p \in Scans |-> IdleScan]

-----------------------------------------------------------------------------
(***************************************************************************)
(* Helpers                                                                 *)
(***************************************************************************)

\* derive_expiry_status
Derive(valid, day) ==
    IF valid = Forever THEN "ACTIVE"
    ELSE IF valid < day THEN "EXPIRED"
    ELSE IF valid - day <= Window THEN "EXPIRING" ELSE "ACTIVE"

HeldByTx(s, c)   == c \in tx[s].held
HeldByScan(c)    == \E p \in Scans : c \in scan[p].locked
HeldByOther(s, c) == HeldByScan(c) \/ \E q \in Requests \ {s} : HeldByTx(q, c)

\* Requests are interchangeable, and so are the identities of new records: the
\* least idle request begins, and takes the least unused identity.
Begins(s) ==
    /\ tx[s].pc = "idle"
    /\ \A q \in cast.requests : tx[q].pc = "idle" => s <= q
Unused == {c \in Certs : status[c] = "NONE" /\ \A q \in Requests : tx[q].cert # c}
Fresh(c) == c \in Unused /\ \A d \in Unused : c <= d

EndTx(s) == tx' = [tx EXCEPT ![s] = IdleTx]

\* Where a request goes once it knows its target: only a live record replaces.
NextPc(target) == IF target \in Replaceable THEN "select" ELSE "wait"

\* The partial unique index uq_employee_certificate_one_current_per_type.
OneCurrentIn(f) == \A c, d \in Certs : f[c] \in Current /\ f[d] \in Current => c = d

-----------------------------------------------------------------------------
(***************************************************************************)
(* Requests                                                                *)
(***************************************************************************)

\* Mutant: the new record is inserted with its final status at once.
CreateFinal(s, c, v, archived) ==
    LET target == IF archived THEN "ARCHIVED" ELSE Derive(v, today) IN
    /\ Begins(s) /\ Fresh(c) /\ (archived => cast.editing)
    /\ tx' = [tx EXCEPT ![s] =
           [IdleTx EXCEPT !.pc = NextPc(target), !.cert = c, !.valid = v,
                          !.target = target, !.row = target, !.seenValid = v]]
    /\ UNCHANGED <<cast, today, rows, scan>>

\* create_employee_certificate and each item of approve_review_task: the row
\* is inserted as DRAFT if it is to become current.
Create(s, c, v, archived) ==
    LET target == IF archived THEN "ARCHIVED" ELSE Derive(v, today) IN
    /\ Begins(s) /\ Fresh(c) /\ (archived => cast.editing)
    /\ tx' = [tx EXCEPT ![s] =
           [IdleTx EXCEPT !.pc = NextPc(target), !.cert = c, !.valid = v,
                          !.target = target, !.seenValid = v,
                          !.row = IF target \in Current THEN "DRAFT" ELSE target]]
    /\ UNCHANGED <<cast, today, rows, scan>>

\* _assert_manual_status_allowed, for the requests an edit form can make: keep
\* the status, make the record live, archive it.
Editable(seen, request) ==
    /\ seen # "NONE"
    /\ seen = "REPLACED" => request = "keep"

\* update_employee_certificate up to its first write: the record is read
\* without a lock, and set to DRAFT first when it is and stays current.
Edit(s, c, v, request) ==
    LET seen == status[c]
        target == CASE request = "archive" -> "ARCHIVED"
                    [] request = "keep" /\ seen \notin Replaceable -> seen
                    [] OTHER -> Derive(v, today)
        draft == seen \in Current /\ target \in Current
    IN
    /\ Begins(s) /\ cast.editing
    /\ Editable(seen, request)
    /\ tx' = [tx EXCEPT ![s] =
           [IdleTx EXCEPT !.pc = IF draft THEN "self" ELSE NextPc(target),
                          !.cert = c, !.valid = v, !.target = target,
                          !.row = IF draft THEN "DRAFT" ELSE seen,
                          !.seen = seen, !.seenValid = validTo[c]]]
    /\ UNCHANGED <<cast, today, rows, scan>>

\* The UPDATE to DRAFT takes the lock of the record itself.
LockSelf(s) ==
    /\ tx[s].pc = "self"
    /\ ~HeldByOther(s, tx[s].cert)
    /\ tx' = [tx EXCEPT ![s] = [@ EXCEPT !.pc = "select", !.held = {tx[s].cert}]]
    /\ UNCHANGED <<cast, today, rows, scan>>

\* Mutant: an expired record is not looked for.
SelectCurrent(s) ==
    /\ tx[s].pc = "select"
    /\ tx' = [tx EXCEPT ![s] = [@ EXCEPT !.pc = "wait",
           !.todo = {c \in Certs \ {tx[s].cert} : status[c] \in Current}]]
    /\ UNCHANGED <<cast, today, rows, scan>>

\* SELECT ... FOR UPDATE finds its rows in the state committed now, and then
\* locks them one by one.
Select(s) ==
    /\ tx[s].pc = "select"
    /\ tx' = [tx EXCEPT ![s] = [@ EXCEPT !.pc = "wait",
           !.todo = {c \in Certs \ {tx[s].cert} : status[c] \in Replaceable}]]
    /\ UNCHANGED <<cast, today, rows, scan>>

\* A row that had to be waited for is looked at again, and left alone if it is
\* not live any more.
LockRow(s, c) ==
    /\ tx[s].pc = "wait" /\ c \in tx[s].todo
    /\ ~HeldByOther(s, c)
    /\ tx' = [tx EXCEPT
           ![s].todo = @ \ {c},
           ![s].held = IF status[c] \in Replaceable THEN @ \cup {c} ELSE @]
    /\ UNCHANGED <<cast, today, rows, scan>>

Others(s) == tx[s].held \ {tx[s].cert}

\* Mutant: only the current records are compared with, not the expired ones.
LaterThanCurrent(s) ==
    {c \in Others(s) : status[c] \in Current /\ validTo[c] > tx[s].valid}

\* The records that are valid longer than the new one.
LaterThan(s) == {c \in Others(s) : validTo[c] > tx[s].valid}

\* A column goes into the UPDATE only when it differs from what was read.
Written(s, old, new, dbValue) == IF new # old THEN new ELSE dbValue

Ready(s) ==
    /\ tx[s].pc = "wait" /\ tx[s].todo = {}
    /\ ~HeldByOther(s, tx[s].cert)

\* Mutant: a row inserted as DRAFT never gets its final status.
StatusAfterDraft(s, final, replaced) ==
    [c \in Certs |->
        IF c = tx[s].cert THEN tx[s].row
        ELSE IF c \in replaced THEN "REPLACED" ELSE status[c]]

\* The statuses the commit leaves, if the record ends with the status final and
\* replaces the records in replaced.
StatusAfter(s, final, replaced) ==
    [c \in Certs |->
        IF c = tx[s].cert
        THEN Written(s, IF tx[s].row = "DRAFT" THEN "DRAFT" ELSE tx[s].seen, final, status[c])
        ELSE IF c \in replaced THEN "REPLACED" ELSE status[c]]

WriteValidTo(s) ==
    validTo' = [validTo EXCEPT ![tx[s].cert] =
        IF tx[s].seen = "NONE" THEN tx[s].valid
        ELSE Written(s, tx[s].seenValid, tx[s].valid, @)]

\* replace_active_certificates, first case: a later record is there, and the
\* new one is entered as replaced by the latest of them.
CommitReplaced(s) ==
    /\ Ready(s)
    /\ \E latest \in LaterThan(s) :
           /\ \A c \in Others(s) : validTo[c] <= validTo[latest]
           /\ replacedBy' = [replacedBy EXCEPT ![tx[s].cert] = latest]
    /\ status' = StatusAfter(s, "REPLACED", {})
    /\ WriteValidTo(s)
    /\ EndTx(s)
    /\ UNCHANGED <<cast, today, scan>>

\* Second case: the new record is the latest and replaces all live ones.  The
\* unique index refuses the commit if another record is current by now.
CommitLive(s) ==
    /\ Ready(s)
    /\ LaterThan(s) = {}
    /\ OneCurrentIn(StatusAfter(s, tx[s].target, Others(s)))
    /\ status' = StatusAfter(s, tx[s].target, Others(s))
    /\ replacedBy' = [c \in Certs |->
           IF c \in Others(s) THEN tx[s].cert ELSE replacedBy[c]]
    /\ WriteValidTo(s)
    /\ EndTx(s)
    /\ UNCHANGED <<cast, today, scan>>

\* The transaction is rolled back: refused by the unique index, the victim of
\* a deadlock, a lost connection.
TxAbort(s) ==
    /\ tx[s].pc # "idle"
    /\ EndTx(s)
    /\ UNCHANGED <<cast, today, rows, scan>>

-----------------------------------------------------------------------------
(***************************************************************************)
(* The daily scan, and time                                                *)
(***************************************************************************)

\* Mutant: the rows are read without FOR UPDATE SKIP LOCKED.
RefreshUnlockedRows == {c \in Certs : status[c] \in Current}

\* Mutant: only ACTIVE records are looked at.
RefreshActiveRows == {c \in Certs : status[c] = "ACTIVE" /\ ~HeldByScan(c)
                                     /\ ~\E q \in Requests : HeldByTx(q, c)}

\* SELECT ... FOR UPDATE SKIP LOCKED of the current records.
RefreshRows == {c \in Certs : status[c] \in Current /\ ~HeldByScan(c)
                               /\ ~\E q \in Requests : HeldByTx(q, c)}

\* refresh_certificate_expiry_statuses: the rows stay locked until the scan
\* has also created and sent its reminders.
Refresh(p) ==
    /\ scan[p].pc = "idle" /\ RefreshRows # {}
    /\ scan' = [scan EXCEPT ![p] = [pc |-> "open", locked |-> RefreshRows, day |-> today]]
    /\ UNCHANGED <<cast, today, rows, tx>>

ScanCommit(p) ==
    /\ scan[p].pc = "open"
    /\ status' = [c \in Certs |-> IF c \in scan[p].locked
                                  THEN Derive(validTo[c], scan[p].day) ELSE status[c]]
    /\ scan' = [scan EXCEPT ![p] = IdleScan]
    /\ UNCHANGED <<cast, today, validTo, replacedBy, tx>>

ScanAbort(p) ==
    /\ scan[p].pc = "open"
    /\ scan' = [scan EXCEPT ![p] = IdleScan]
    /\ UNCHANGED <<cast, today, rows, tx>>

NextDay ==
    /\ today < Horizon
    /\ today' = today + 1
    /\ UNCHANGED <<cast, rows, tx, scan>>

-----------------------------------------------------------------------------
EditRequests == {"keep", "live", "archive"}

Commit(s) == CommitReplaced(s) \/ CommitLive(s)

Next ==
    \/ \E s \in cast.requests :
          \/ \E c \in cast.certs, v \in 0..Forever :
                \/ \E archived \in BOOLEAN : Create(s, c, v, archived)
                \/ \E request \in EditRequests : Edit(s, c, v, request)
          \/ LockSelf(s) \/ Select(s) \/ \E c \in Certs : LockRow(s, c)
          \/ Commit(s) \/ TxAbort(s)
    \/ \E p \in Scans : Refresh(p) \/ ScanCommit(p) \/ ScanAbort(p)
    \/ NextDay

Spec == Init /\ [][Next]_vars

\* Every transaction ends, by its commit or by a rollback; the scan comes back
\* every day, does not find a record locked every time, and does not always
\* fail.
Fairness ==
    /\ \A s \in Requests : WF_vars(Commit(s) \/ TxAbort(s))
    /\ \A c \in Certs : SF_vars(\E p \in Scans : Refresh(p) /\ c \in scan'[p].locked)
    /\ \A p \in Scans : SF_vars(ScanCommit(p))

FairSpec == Spec /\ Fairness
-----------------------------------------------------------------------------
(***************************************************************************)
(* Properties                                                              *)
(***************************************************************************)

\* Every variable, request and scan has its type.
LedgerTypeOK ==
    /\ cast \in Casts
    /\ today \in Days
    /\ status \in [Certs -> CertStatus]
    /\ validTo \in [Certs -> 0..Forever]
    /\ replacedBy \in [Certs -> Certs \cup {NoCert}]
    /\ tx \in [Requests -> TxType]
    /\ scan \in [Scans -> ScanType]

OneAtATime     == Cardinality(cast.requests) = 1
OnlyRegistered == ~cast.editing

\* A replaced record stays replaced, by the same record ("绝不覆盖，也不能再改回
\* 其它状态", GLOSSARY.md).  It holds while records are only registered, and while
\* there is one request at a time: the row locks of replace_active_certificates
\* and of the refresh keep every writer of an old record from acting on what it was.
ReplacedIsTerminal ==
    [][\A c \in Certs : status[c] = "REPLACED" =>
          status'[c] = "REPLACED" /\ replacedBy'[c] = replacedBy[c]]_vars

\* The record that takes over is valid at least as long as the one it replaces
\* ("有效期至较晚的持证记录接替较早的"), as both are committed.
LaterReplacesEarlier ==
    [][\A c \in Certs : status[c] # "REPLACED" /\ status'[c] = "REPLACED" =>
          validTo'[c] <= validTo'[replacedBy'[c]]]_vars

\* Registering records never shortens what the ledger covers: for every replaced
\* record there is one that is not replaced and is valid at least as long, however
\* many replacements lie in between (backfilled and expired records included).
CoverageKept ==
    OnlyRegistered => \A c \in Certs : status[c] = "REPLACED" =>
        \E d \in Certs : status[d] \notin {"NONE", "REPLACED"} /\ validTo[d] >= validTo[c]

\* An employee has one live record of a type (_REPLACEABLE_CERTIFICATE_STATUSES:
\* "新持证记录生效时，同员工同证书类型的这些旧记录会被替换"), expired ones included.
\* It holds for one request at a time, whatever the scan does.
OneLiveRecord ==
    OneAtATime =>
    \A c, d \in Certs : status[c] \in Replaceable /\ status[d] \in Replaceable => c = d

\* A request that runs alone never fails on the unique index of current
\* records: what it has flushed at any moment, and what it is about to commit,
\* leave one current record.
LoneRequestFitsIndex ==
    \A s \in Requests : OneAtATime /\ tx[s].pc # "idle" =>
        /\ OneCurrentIn([status EXCEPT ![tx[s].cert] = tx[s].row])
        /\ Ready(s) /\ LaterThan(s) = {} =>
              OneCurrentIn(StatusAfter(s, tx[s].target, Others(s)))

\* A record past its last day does not stay valid or expiring for ever.
ExpiryIsNoticed ==
    \A c \in Certs : (status[c] \in Current /\ validTo[c] < today)
                       ~> ~(status[c] \in Current /\ validTo[c] < today)
=============================================================================
