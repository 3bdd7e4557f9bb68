----------------------------- MODULE FamilyEvents -----------------------------
(***************************************************************************)
(* The events of a clan (anniversaries, ceremonies) as requests create,     *)
(* PATCH, delete and restore them, down to the unit of work: the aggregate  *)
(* raises a domain event, save() tracks the aggregate and executes the      *)
(* UPDATE, commit() collects what the tracked aggregates raised, lets the   *)
(* dispatcher add one row of audit_logs for each, and commits them with the *)
(* row (unit_of_work.py, event_dispatcher.py).                              *)
(*                                                                         *)
(* A delete and a restore write every column of the copy they have loaded,  *)
(* under no version predicate; a PATCH does so under the version its client *)
(* has seen.  READ COMMITTED: an UPDATE waits for the writer of the row,    *)
(* then tests its predicate on the row committed by then.                   *)
(***************************************************************************)
EXTENDS Naturals, Sequences

CONSTANTS
    Events,         \* events.id
    Requests,       \* the requests, each of which is sent once
    Fields, Values  \* the columns a PATCH may change (_UPDATABLE_FIELDS) and what they hold

VARIABLES
    rows,       \* the committed rows of events
    audit,      \* the committed rows of audit_logs of each event, in the order of COMMIT
    requests,   \* the requests and what they hold
    inserted,   \* history: the columns that the INSERT of each event wrote
    overtaken   \* history: the events whose delete or restore wrote back an older copy

vars == <<rows, audit, requests, inserted, overtaken>>

Columns == [Fields -> Values]

\* The columns that the body of a PATCH carries: none, some or all.
Changes == UNION {[fs -> Values] : fs \in SUBSET Fields}

Row == [state : {"none", "live", "deleted"}, columns : Columns, version : Nat]

Raised == [action : {"create", "update", "delete", "restore"}, old : Changes, new : Changes]

\* pc: the request has not come, has run the method of its aggregate, has executed its
\* INSERT or UPDATE, has dispatched what was raised, has answered.
Request == [pc : {"idle", "raised", "saved", "dispatched", "ended"}, event : Events,
            copy : Row,             \* the aggregate
            expected : Nat,         \* expected_version; 0 is None
            aggregate : Seq(Raised), \* _events of the aggregate
            added : Seq(Raised)]    \* rows of audit_logs in the session

TypeOK ==
    /\ rows \in [Events -> Row]
    /\ audit \in [Events -> Seq(Raised)]
    /\ requests \in [Requests -> Request]
    /\ inserted \in [Events -> Columns]
    /\ overtaken \subseteq Events

-----------------------------------------------------------------------------

Unwritten == [state |-> "none", columns |-> CHOOSE c \in Columns : TRUE, version |-> 0]

\* Columns with some of them replaced.
Over(new, columns) == [f \in Fields |-> IF f \in DOMAIN new THEN new[f] ELSE columns[f]]

\* Of the first n rows of audit_logs, those that name a column, and what the last
\* of them says it holds.  A column that none names holds what it held at first: the
\* row of a create names none (EventCreated has no new_value).
Naming(entries, n, f) == {k \in 1..n : f \in DOMAIN entries[k].new}

Latest(S) == CHOOSE k \in S : \A j \in S : j <= k

Told(first, entries, n, f) ==
    IF Naming(entries, n, f) = {} THEN first[f]
                                  ELSE entries[Latest(Naming(entries, n, f))].new[f]

\* The row that the first n rows of audit_logs tell of.
Replayed(first, entries, n) ==
    [state |-> IF n = 0 THEN "none" ELSE IF entries[n].action = "delete" THEN "deleted" ELSE "live",
     columns |-> [f \in Fields |-> Told(first, entries, n, f)],
     version |-> n]

NoColumns == [f \in {} |-> f]

\* An event is yet to be created, is live, or has been deleted.
Init ==
    /\ LET created == [action |-> "create", old |-> NoColumns, new |-> NoColumns]
           deleted == [action |-> "delete", old |-> NoColumns, new |-> NoColumns]
       IN audit \in [Events -> {<<>>, <<created>>, <<created, deleted>>}]
    /\ inserted = [e \in Events |-> Unwritten.columns]
    /\ rows = [e \in Events |-> Replayed(inserted[e], audit[e], Len(audit[e]))]
    /\ requests = [r \in Requests |->
          [pc |-> "idle", event |-> CHOOSE e \in Events : TRUE, copy |-> Unwritten,
           expected |-> 0, aggregate |-> <<>>, added |-> <<>>]]
    /\ overtaken = {}

-----------------------------------------------------------------------------
(* The methods of the aggregate: the copy they leave and the event they raise *)

Created(columns) ==
    [copy |-> [state |-> "live", columns |-> columns, version |-> 0],
     raised |-> [action |-> "create", old |-> NoColumns, new |-> NoColumns]]

Updated(row, changes) ==
    [copy |-> [row EXCEPT !.columns = Over(changes, @)],
     raised |-> [action |-> "update", old |-> [f \in DOMAIN changes |-> row.columns[f]], new |-> changes]]

Deleted(row) ==
    [copy |-> [row EXCEPT !.state = "deleted"],
     raised |-> [action |-> "delete", old |-> NoColumns, new |-> NoColumns]]

Restored(row) ==
    [copy |-> [row EXCEPT !.state = "live"],
     raised |-> [action |-> "restore", old |-> NoColumns, new |-> NoColumns]]

-----------------------------------------------------------------------------
(* The handlers, up to the call of save() *)

Holds(r, e, aggregate, expected) ==
    /\ requests[r].pc = "idle"
    /\ requests' = [requests EXCEPT ![r] =
          [@ EXCEPT !.pc = "raised", !.event = e, !.copy = aggregate.copy,
                    !.expected = expected, !.aggregate = <<aggregate.raised>>]]
    /\ UNCHANGED <<rows, audit, inserted, overtaken>>

\* A new id.
Create(r, e) == \E columns \in Columns :
    /\ rows[e].state = "none"
    /\ \A q \in Requests : requests[q].pc \in {"idle", "ended"} \/ requests[q].event # e
    /\ Holds(r, e, Created(columns), 0)

\* The live row, for a client that has seen some version of it.
Patch(r, e) == \E changes \in Changes, seen \in 1..rows[e].version :
    /\ rows[e].state = "live"
    /\ Holds(r, e, Updated(rows[e], changes), seen)

\* The live row.
Delete(r, e) ==
    /\ rows[e].state = "live"
    /\ Holds(r, e, Deleted(rows[e]), 0)

\* A row that is deleted: get_by_id reads it with include_deleted.
Restore(r, e) ==
    /\ rows[e].state = "deleted"
    /\ Holds(r, e, Restored(rows[e]), 0)

-----------------------------------------------------------------------------
(* The repository and the unit of work *)

\* A writer holds the lock of the row from its UPDATE to the end of its transaction.
Unlocked(e) == \A q \in Requests : requests[q].event = e => requests[q].pc \notin {"saved", "dispatched"}

\* Mutant: save() without the WHERE on the version.
MatchesAny(r) == TRUE

\* WHERE version = expected_version, on the row as the lock is granted.
Matches(r) == requests[r].expected \in {0, rows[requests[r].event].version}

\* save(): every mapped column of the copy, and version + 1.
Save(r) == LET e == requests[r].event IN
    /\ requests[r].pc = "raised"
    /\ Unlocked(e)
    /\ Matches(r)
    /\ requests' = [requests EXCEPT ![r].pc = "saved"]
    /\ UNCHANGED <<rows, audit, inserted, overtaken>>

\* No row matches: ConflictError("stale_write").
StaleWrite(r) ==
    /\ requests[r].pc = "raised"
    /\ Unlocked(requests[r].event)
    /\ ~Matches(r)
    /\ requests' = [requests EXCEPT ![r].pc = "ended"]
    /\ UNCHANGED <<rows, audit, inserted, overtaken>>

\* commit(): collect_events drains the tracked aggregate, AuditLogHandler adds a row for each.
Dispatch(r) ==
    /\ requests[r].pc = "saved"
    /\ requests' = [requests EXCEPT ![r] =
          [@ EXCEPT !.pc = "dispatched", !.added = requests[r].aggregate, !.aggregate = <<>>]]
    /\ UNCHANGED <<rows, audit, inserted, overtaken>>

\* COMMIT: the row and the rows of audit_logs at once.
Commit(r) == LET e == requests[r].event IN
    /\ requests[r].pc = "dispatched"
    /\ rows' = [rows EXCEPT ![e] = [requests[r].copy EXCEPT !.version = rows[e].version + 1]]
    /\ audit' = [audit EXCEPT ![e] = @ \o requests[r].added]
    /\ inserted' = IF rows[e].state = "none" THEN [inserted EXCEPT ![e] = requests[r].copy.columns]
                   ELSE inserted
    /\ overtaken' = IF requests[r].expected = 0 /\ requests[r].copy.version # rows[e].version
                    THEN overtaken \cup {e} ELSE overtaken
    /\ requests' = [requests EXCEPT ![r].pc = "ended"]

\* A statement, a handler of the dispatcher (it raises) or the COMMIT fails: rollback of both.
Abort(r) ==
    /\ requests[r].pc \in {"raised", "saved", "dispatched"}
    /\ requests' = [requests EXCEPT ![r].pc = "ended"]
    /\ UNCHANGED <<rows, audit, inserted, overtaken>>

Next == \E r \in Requests :
    \/ \E e \in Events : Create(r, e) \/ Patch(r, e) \/ Delete(r, e) \/ Restore(r, e)
    \/ Save(r) \/ StaleWrite(r) \/ Dispatch(r) \/ Commit(r) \/ Abort(r)

Spec == Init /\ [][Next]_vars

-----------------------------------------------------------------------------
(* Properties *)

\* The audit log of an event, replayed in the order of COMMIT on the columns that its INSERT
\* wrote (which the row of the create does not carry), gives the row and its version, and
\* each change tells what it has replaced: no column changes without a row that names it.
\* Only the columns of an event whose delete or restore was overtaken by another writer are
\* told wrongly (event_repository.py, save; unit_of_work.py, commit).
EventAuditReplays == \A e \in Events :
    LET After(n) == Replayed(inserted[e], audit[e], n)
        told    == After(Len(audit[e]))
    IN  /\ rows[e].state = told.state /\ rows[e].version = told.version
        /\ e \notin overtaken =>
              /\ rows[e].columns = told.columns
              /\ \A n \in DOMAIN audit[e] :
                    audit[e][n].old = [f \in DOMAIN audit[e][n].old |-> After(n - 1).columns[f]]
=============================================================================
