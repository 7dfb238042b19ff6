-------------------------------- MODULE Feed --------------------------------
(***************************************************************************)
(* The append-only feeds, notifications and audit_logs, and a client that  *)
(* walks one of them page by page: models/pagination.rs and the handlers   *)
(* of routes/v1/notifications.rs and routes/v1/audit.rs.  A row gets its   *)
(* sort key (created_at, id) when its INSERT begins and is seen when that  *)
(* commits, so rows appear out of order, and replicas draw ids for the     *)
(* same microsecond in any order.  Times are in the microseconds that both *)
(* PostgreSQL and the cursor keep: encoding a cursor loses nothing.        *)
(***************************************************************************)
EXTENDS Naturals, FiniteSets

CONSTANTS
    Ids,        \* row ids, ordered as numbers
    None,       \* no cursor, no answer yet
    MaxLimit,   \* the largest page (100)
    MaxTime     \* bound: how often the clock moves

ASSUME IdsAssumption == Ids \subseteq Nat /\ IsFiniteSet(Ids)
ASSUME NoneAssumption == None \notin Nat \X Nat /\ None \notin Nat
ASSUME MaxLimitAssumption == MaxLimit \in Nat \ {0}
ASSUME MaxTimeAssumption == MaxTime \in Nat

VARIABLES
    now,
    stage,      \* [Ids -> {"unused", "open", "visible", "lost"}]
    createdAt,  \* [Ids -> created_at]
    mine,       \* [Ids -> does the row pass the filters the client sends]
    read,       \* [Ids -> the read column of a notification]
    phase,      \* the client: "off", "list", "count" (between two queries) or "done"
    cursor,     \* the next_cursor of the last answer, or None
    page,       \* the rows of the page at hand
    shown,      \* those of them whose read column it gives as false
    more,       \* its has_next
    listed,     \* the rows of the pages the client was given before
    unread,     \* unread_count of the last answer
    start       \* the client's rows that were visible to its first query

rows == <<stage, createdAt, mine, read>>
client == <<phase, cursor, page, shown, more, listed, unread, start>>
vars == <<now, rows, client>>

TypeOK ==
    /\ now \in 0..MaxTime
    /\ stage \in [Ids -> {"unused", "open", "visible", "lost"}]
    /\ createdAt \in [Ids -> 0..MaxTime]
    /\ mine \in [Ids -> BOOLEAN]
    /\ read \in [Ids -> BOOLEAN]
    /\ phase \in {"off", "list", "count", "done"}
    /\ cursor \in {None} \cup ((0..MaxTime) \X Ids)
    /\ page \subseteq Ids
    /\ shown \subseteq page
    /\ more \in BOOLEAN
    /\ listed \subseteq Ids
    /\ unread \in {None} \cup Nat
    /\ start \subseteq Ids

Init ==
    /\ now = 0
    /\ stage = [i \in Ids |-> "unused"]
    /\ createdAt = [i \in Ids |-> 0]
    /\ mine = [i \in Ids |-> FALSE]
    /\ read = [i \in Ids |-> FALSE]
    /\ phase = "off"
    /\ cursor = None
    /\ page = {}
    /\ shown = {}
    /\ more = FALSE
    /\ listed = {}
    /\ unread = None
    /\ start = {}

-----------------------------------------------------------------------------
\* AuditService::record, NotificationService::create_scoped: the id is drawn and
\* the INSERT begins, for this client's filters or for others.
Insert(i, m) ==
    /\ stage[i] = "unused"
    /\ stage' = [stage EXCEPT ![i] = "open"]
    /\ createdAt' = [createdAt EXCEPT ![i] = now]
    /\ mine' = [mine EXCEPT ![i] = m]
    /\ UNCHANGED <<now, read, client>>

\* The INSERT commits, or fails: record_best_effort only logs that.
InsertEnds(i, s) ==
    /\ stage[i] = "open"
    /\ stage' = [stage EXCEPT ![i] = s]
    /\ UNCHANGED <<now, createdAt, mine, read, client>>

\* The rows the client's filters select.
Selected == {i \in Ids : stage[i] = "visible" /\ mine[i]}

\* Mutant of MarkAsRead: the flag is toggled.
MarkAsReadToggles(i) ==
    /\ i \in Selected
    /\ read' = [read EXCEPT ![i] = ~read[i]]
    /\ UNCHANGED <<now, stage, createdAt, mine, client>>

\* mark_as_read: another user's row, or none, is answered with 404.
MarkAsRead(i) ==
    /\ i \in Selected
    /\ read' = [read EXCEPT ![i] = TRUE]
    /\ UNCHANGED <<now, stage, createdAt, mine, client>>

\* mark_all_as_read: one UPDATE over the rows it sees.
MarkAllAsRead ==
    /\ read' = [i \in Ids |-> read[i] \/ i \in Selected]
    /\ UNCHANGED <<now, stage, createdAt, mine, client>>

\* The clock moves, or two rows share a microsecond.
Tick ==
    /\ now < MaxTime
    /\ now' = now + 1
    /\ UNCHANGED <<rows, client>>

-----------------------------------------------------------------------------
\* Cursor: the sort key of a row.
Key(i) == <<createdAt[i], i>>

\* (a, i) < (b, j) for SQL row values.
Less(x, y) == x[1] < y[1] \/ (x[1] = y[1] /\ x[2] < y[2])

\* Mutants of Beyond: only created_at is compared, strictly or not.
BeyondByTime(i) == cursor = None \/ createdAt[i] < cursor[1]
BeyondOrSameTime(i) == cursor = None \/ createdAt[i] <= cursor[1]

\* The row is on a later page than the cursor.
Beyond(i) == cursor = None \/ Less(Key(i), cursor)

\* CursorParams::limit: clamp(1, 100).
Limit(raw) ==
    IF raw < 1 THEN 1 ELSE IF raw > MaxLimit THEN MaxLimit ELSE raw

\* ORDER BY created_at DESC, id DESC LIMIT n, and truncate(n) of such rows.
IsNewest(P, S, n) ==
    /\ P \subseteq S
    /\ Cardinality(P) = IF Cardinality(S) < n THEN Cardinality(S) ELSE n
    /\ \A p \in P, q \in S \ P : Less(Key(q), Key(p))

\* Mutant of HasNext: a full page is taken for proof of another.
HasNextWhenFull(fetched, limit) == Cardinality(fetched) >= limit

\* One row more than the limit was asked for.
HasNext(fetched, limit) == Cardinality(fetched) > limit

\* The client sends its first request, or walks the feed again.
Open ==
    /\ phase \in {"off", "done"}
    /\ phase' = "list"
    /\ cursor' = None
    /\ page' = {}
    /\ shown' = {}
    /\ more' = FALSE
    /\ listed' = {}
    /\ unread' = None
    /\ start' = {}
    /\ UNCHANGED <<now, rows>>

\* list_notifications, list_audit_logs: the query for the page.
ListPage(raw) ==
    /\ phase = "list"
    /\ LET candidates == {i \in Selected : Beyond(i)} IN
        /\ \E fetched \in SUBSET candidates :
            /\ IsNewest(fetched, candidates, Limit(raw) + 1)
            /\ more' = HasNext(fetched, Limit(raw))
            /\ page' \in SUBSET fetched
            /\ IsNewest(page', fetched, Limit(raw))
        /\ start' = IF cursor = None THEN candidates ELSE start
    /\ shown' = {i \in page' : ~read[i]}
    /\ phase' = "count"
    /\ unread' = None
    /\ UNCHANGED <<now, rows, cursor, listed>>

\* CursorMeta::from_page: the key of the last row, if there is a next page.
NextCursor(c) ==
    IF more
    THEN \E i \in page : c = Key(i) /\ \A j \in page \ {i} : Less(Key(i), Key(j))
    ELSE c = None

\* list_notifications: the second query counts, and the answer is sent
\* (list_audit_logs answers without the count).
Answer ==
    /\ phase = "count"
    /\ unread' = Cardinality({i \in Selected : ~read[i]})
    /\ cursor' \in {None} \cup {Key(i) : i \in page}
    /\ NextCursor(cursor')
    /\ listed' = listed \cup page
    /\ phase' = IF more THEN "list" ELSE "done"
    /\ UNCHANGED <<now, rows, page, shown, more, start>>

\* A query fails or the answer is lost: the client repeats the request.
AnswerLost ==
    /\ phase = "count"
    /\ phase' = "list"
    /\ page' = {}
    /\ shown' = {}
    /\ more' = FALSE
    /\ UNCHANGED <<now, rows, cursor, listed, unread, start>>

Next ==
    \/ \E i \in Ids, m \in BOOLEAN : Insert(i, m)
    \/ \E i \in Ids, s \in {"visible", "lost"} : InsertEnds(i, s)
    \/ \E i \in Ids : MarkAsRead(i)
    \/ MarkAllAsRead
    \/ Tick
    \/ Open
    \/ \E raw \in 0..(MaxLimit + 1) : ListPage(raw)
    \/ Answer
    \/ AnswerLost

Spec == Init /\ [][Next]_vars

-----------------------------------------------------------------------------
\* Every row of a page is older than every row of the pages before it: no row is
\* given twice and none out of order, although rows with older keys commit in
\* between and the client changes its limit ("does not skip or duplicate rows",
\* Cursor).
PagesDescend ==
    phase = "count" => \A i \in page, j \in listed : Less(Key(i), Key(j))

\* When has_next is false the client was given every one of its rows that was
\* there when it began, those of the same microsecond included, whatever was
\* inserted, read, lost and repeated meanwhile.
NothingSkipped == phase = "done" => start \subseteq listed

\* has_next is a promise: the page behind a cursor is never empty.
PromisedPageHasRows == (phase = "count" /\ cursor # None) => page # {}

\* The rows an answer shows as unread and its unread_count come from two queries
\* and may disagree, but only because rows were marked read after the page was
\* taken: those still unread are all in the count, and a row shown as read is
\* never unread again.
UnreadCountCoversPage ==
    (phase # "count" /\ unread # None) =>
        /\ Cardinality({i \in shown : ~read[i]}) <= unread
        /\ \A i \in page \ shown : read[i]
=============================================================================
