----------------------------- MODULE FeedProofs -----------------------------
(***************************************************************************)
(* The walk over a feed is complete, in order and free of repetitions for  *)
(* any number of rows, any page limits and any interleaving of inserts     *)
(* with the client's requests; and, in the second half, a client that      *)
(* has notifications pushed to it misses none without being told.          *)
(***************************************************************************)
EXTENDS Feed, Realtime, FiniteSetTheorems, TLAPS

\* Whatever the client holds is a visible row of its own, so its sort key is
\* fixed: only an INSERT that has not committed can still get one.
HeldIsSelected == listed \cup page \cup start \subseteq Selected

\* What a cursor separates: the rows given lie at or above it, those the client
\* still has to get lie below it, and there is a row below it.
CursorSeparates ==
    phase \in {"list", "count"} =>
        IF cursor = None
        THEN listed = {}
        ELSE /\ \A j \in listed : ~Less(Key(j), cursor)
             /\ \A s \in start : s \in listed \/ Less(Key(s), cursor)
             /\ \E q \in Selected : Less(Key(q), cursor)

\* A page leaves out nothing above its last row, and has_next tells whether
\* there is anything below.
PageIsTight ==
    phase = "count" =>
        /\ \A p \in page : Beyond(p)
        /\ \A s \in start :
            s \in listed \cup page \/ (more /\ \A p \in page : Less(Key(s), Key(p)))
        /\ more => \E q \in Selected : \A p \in page : Less(Key(q), Key(p))

Walk == CursorSeparates /\ PageIsTight /\ PromisedPageHasRows /\ NothingSkipped

\* A row the page at hand shows as read is read, and the last answer counted the
\* rows it shows that are unread to this day.
Counts ==
    /\ \A i \in page \ shown : read[i]
    /\ (phase # "count" /\ unread # None) =>
            Cardinality({i \in shown : ~read[i]}) <= unread

IInv == TypeOK /\ HeldIsSelected /\ Walk /\ Counts

-----------------------------------------------------------------------------
\* Sort keys are pairs of numbers.
LEMMA KeyType ==
    ASSUME TypeOK, NEW i \in Ids
    PROVE  Key(i) \in Nat \X Nat
  BY IdsAssumption, MaxTimeAssumption DEF TypeOK, Key

\* So are cursors.
LEMMA CursorType ==
    ASSUME TypeOK, cursor # None
    PROVE  cursor \in Nat \X Nat
<1>1. cursor \in (0..MaxTime) \X Ids
  BY DEF TypeOK
<1>2. PICK t \in 0..MaxTime, i \in Ids : cursor = <<t, i>>
  BY <1>1
<1>3. t \in Nat /\ i \in Nat
  BY <1>2, IdsAssumption, MaxTimeAssumption
<1> QED
  BY <1>2, <1>3

\* A row value below another is below all that are not below that one.
LEMMA LessBelow ==
    ASSUME NEW x \in Nat \X Nat, NEW y \in Nat \X Nat, NEW z \in Nat \X Nat,
           Less(x, y), ~Less(z, y)
    PROVE  Less(x, z)
  BY DEF Less

\* No two row values are each below the other.
LEMMA LessAsymmetric ==
    ASSUME NEW x \in Nat \X Nat, NEW y \in Nat \X Nat, Less(x, y)
    PROVE  ~Less(y, x)
  BY DEF Less

\* No row value is below itself.
LEMMA LessIrreflexive ==
    ASSUME NEW x \in Nat \X Nat
    PROVE  ~Less(x, x)
  BY DEF Less

\* Sets of rows are finite.
LEMMA RowsAreFinite ==
    ASSUME NEW S \in SUBSET Ids
    PROVE  IsFiniteSet(S) /\ Cardinality(S) \in Nat
  BY FS_Subset, FS_CardinalityType, IdsAssumption

\* The newest n of S leave a row out only when they are n.
LEMMA NewestIsFull ==
    ASSUME NEW S \in SUBSET Ids, NEW P, NEW n \in Nat, IsNewest(P, S, n), P # S
    PROVE  Cardinality(P) = n /\ Cardinality(S) > n
<1>1. P \in SUBSET S /\ P \in SUBSET Ids
  BY DEF IsNewest
<1>2. /\ Cardinality(P) \in Nat
      /\ Cardinality(S) \in Nat
      /\ IsFiniteSet(S)
  BY <1>1, RowsAreFinite
<1>3. Cardinality(P) # Cardinality(S)
  BY <1>1, <1>2, FS_Subset
<1>4. Cardinality(P) <= Cardinality(S)
  BY <1>1, <1>2, FS_Subset
<1> QED
  BY <1>2, <1>3, <1>4 DEF IsNewest

\* The newest n of some rows are some rows.
LEMMA NewestIsNotEmpty ==
    ASSUME NEW S \in SUBSET Ids, NEW P, NEW n \in Nat \ {0}, IsNewest(P, S, n),
           S # {}
    PROVE  P # {}
<1>1. CASE P = S
  BY <1>1
<1>2. CASE P # S
  <2>1. Cardinality(P) = n
    BY <1>2, NewestIsFull
  <2> QED
    BY <2>1, FS_EmptySet
<1> QED
  BY <1>1, <1>2

\* The page of one request: the rows fetched, cut to the limit.  What it leaves
\* out of the candidates lies below it, and has_next tells whether it leaves
\* anything out.
LEMMA PageCut ==
    ASSUME TypeOK, NEW S \in SUBSET Ids, NEW F, NEW P, NEW n \in Nat \ {0},
           IsNewest(F, S, n + 1), IsNewest(P, F, n)
    PROVE  /\ P \subseteq S
           /\ \A q \in S \ P : HasNext(F, n) /\ \A p \in P : Less(Key(q), Key(p))
           /\ HasNext(F, n) => \E q \in S : \A p \in P : Less(Key(q), Key(p))
           /\ S # {} => P # {}
<1>1. F \in SUBSET S /\ F \in SUBSET Ids /\ P \subseteq F
  BY DEF IsNewest
<1>2. Cardinality(F) \in Nat /\ Cardinality(P) \in Nat
  BY <1>1, RowsAreFinite
<1>3. ASSUME NEW q \in S \ P
      PROVE  HasNext(F, n) /\ \A p \in P : Less(Key(q), Key(p))
  <2>1. CASE q \in F
    <3>1. Cardinality(F) > n
      BY <1>1, <2>1, NewestIsFull
    <3> QED
      BY <3>1, <2>1 DEF HasNext, IsNewest
  <2>2. CASE q \notin F
    <3>1. Cardinality(F) = n + 1
      BY <2>2, NewestIsFull
    <3> QED
      BY <3>1, <2>2, <1>1 DEF HasNext, IsNewest
  <2> QED
    BY <2>1, <2>2
<1>4. ASSUME HasNext(F, n)
      PROVE  \E q \in S : \A p \in P : Less(Key(q), Key(p))
  <2>1. Cardinality(P) = n /\ Cardinality(F) > n
    BY <1>2, <1>4 DEF IsNewest, HasNext
  <2>2. PICK q \in F : q \notin P
    BY <1>1, <1>2, <2>1
  <2> QED
    BY <2>2, <1>1, <1>3
<1>5. S # {} => P # {}
  BY <1>1, NewestIsNotEmpty
<1> QED
  BY <1>1, <1>3, <1>4, <1>5

\* CursorParams::limit: the limit in force is a page of at least one row.
LEMMA LimitIsPositive ==
    ASSUME NEW raw \in 0..(MaxLimit + 1)
    PROVE  Limit(raw) \in Nat \ {0}
  BY MaxLimitAssumption DEF Limit

-----------------------------------------------------------------------------
\* Every variable keeps its type.
LEMMA TypeStep ==
    ASSUME TypeOK, HeldIsSelected, [Next]_vars
    PROVE  TypeOK'
<1> USE DEF TypeOK
<1>1. ASSUME NEW i \in Ids, NEW m \in BOOLEAN, Insert(i, m)
      PROVE  TypeOK'
  BY <1>1 DEF Insert, client
<1>2. ASSUME NEW i \in Ids, NEW s \in {"visible", "lost"}, InsertEnds(i, s)
      PROVE  TypeOK'
  BY <1>2 DEF InsertEnds, client
<1>3. ASSUME NEW i \in Ids, MarkAsRead(i)
      PROVE  TypeOK'
  BY <1>3 DEF MarkAsRead, client
<1>4. CASE MarkAllAsRead
  <2>1. read' \in [Ids -> BOOLEAN]
    BY <1>4 DEF MarkAllAsRead, Selected
  <2> QED
    BY <2>1, <1>4 DEF MarkAllAsRead, client
<1>5. CASE Tick
  BY <1>5, MaxTimeAssumption DEF Tick, rows, client
<1>6. CASE Open
  BY <1>6 DEF Open, rows
<1>7. ASSUME NEW raw \in 0..(MaxLimit + 1), ListPage(raw)
      PROVE  TypeOK'
  <2>1. page' \subseteq Ids /\ start' \subseteq Ids
    BY <1>7 DEF ListPage, Selected
  <2>2. more' \in BOOLEAN
    BY <1>7 DEF ListPage, HasNext
  <2>3. shown' \subseteq page'
    BY <1>7 DEF ListPage
  <2> QED
    BY <1>7, <2>1, <2>2, <2>3 DEF ListPage, rows
<1>8. CASE Answer
  <2>1. Cardinality({i \in Selected : ~read[i]}) \in Nat
    BY RowsAreFinite, {i \in Selected : ~read[i]} \in SUBSET Ids DEF Selected
  <2>2. cursor' \in {None} \cup ((0..MaxTime) \X Ids)
    BY <1>8 DEF Answer, Key
  <2> QED
    BY <1>8, <2>1, <2>2 DEF Answer, rows
<1>9. CASE AnswerLost
  BY <1>9 DEF AnswerLost, rows
<1>10. CASE UNCHANGED vars
  BY <1>10 DEF vars, rows, client
<1> QED
  BY <1>1, <1>2, <1>3, <1>4, <1>5, <1>6, <1>7, <1>8, <1>9, <1>10 DEF Next

\* A step of the server that keeps the selected rows and their keys, and adds to
\* them, leaves the walk intact: everything the walk speaks of is selected.
LEMMA RowsGrow ==
    ASSUME IInv, UNCHANGED client, Selected \subseteq Selected',
           \A i \in Selected : Key(i)' = Key(i)
    PROVE  HeldIsSelected' /\ Walk'
<1> USE DEF client
<1>1. HeldIsSelected'
  BY DEF IInv, HeldIsSelected
<1>2. /\ \A i \in listed : Key(i)' = Key(i)
      /\ \A i \in page : Key(i)' = Key(i)
      /\ \A i \in start : Key(i)' = Key(i)
  BY DEF IInv, HeldIsSelected
<1>3. CursorSeparates'
  BY <1>2 DEF IInv, Walk, CursorSeparates, Less
<1>4. PageIsTight'
  BY <1>2 DEF IInv, Walk, PageIsTight, Beyond, Less
<1>5. PromisedPageHasRows' /\ NothingSkipped'
  BY DEF IInv, Walk, PromisedPageHasRows, NothingSkipped
<1> QED
  BY <1>1, <1>3, <1>4, <1>5 DEF Walk

\* Rows that are marked read leave the counts intact: the count is of one moment
\* and what is unread can only become less.
LEMMA ReadsGrow ==
    ASSUME IInv, UNCHANGED client, \A i \in Ids : read[i] => read'[i]
    PROVE  Counts'
<1> USE DEF client
<1>1. shown \in SUBSET Ids /\ page \subseteq Ids
  BY DEF IInv, TypeOK
<1>2. \A i \in page' \ shown' : read'[i]
  BY <1>1 DEF IInv, Counts
<1> DEFINE S == {i \in shown : ~read[i]}
           T == {i \in shown : ~read'[i]}
<1>3. T \subseteq S /\ S \in SUBSET Ids
  BY <1>1
<1>4. Cardinality(T) <= Cardinality(S) /\ Cardinality(T) \in Nat /\ Cardinality(S) \in Nat
  <2> HIDE DEF S, T
  <2> QED
    BY <1>3, RowsAreFinite, FS_Subset
<1>5. (phase # "count" /\ unread # None) => Cardinality(S) <= unread /\ unread \in Nat
  BY DEF IInv, Counts, TypeOK
<1>6. (phase' # "count" /\ unread' # None) => Cardinality(T) <= unread'
  <2> HIDE DEF S, T
  <2> QED
    BY <1>4, <1>5
<1> QED
  BY <1>2, <1>6 DEF Counts

\* Every row of the page at hand is below those given before.
LEMMA Descends ==
    ASSUME IInv
    PROVE  PagesDescend
<1> SUFFICES ASSUME phase = "count", NEW i \in page, NEW j \in listed
             PROVE  Less(Key(i), Key(j))
  BY DEF PagesDescend
<1>1. cursor # None /\ ~Less(Key(j), cursor) /\ Less(Key(i), cursor)
  BY DEF IInv, Walk, CursorSeparates, PageIsTight, Beyond
<1>2. Key(i) \in Nat \X Nat /\ Key(j) \in Nat \X Nat /\ cursor \in Nat \X Nat
  BY <1>1, KeyType, CursorType DEF IInv, TypeOK
<1> QED
  BY <1>1, <1>2, LessBelow

-----------------------------------------------------------------------------
\* The query for a page: it is cut from the candidates, and begins the walk when
\* there is no cursor.
LEMMA ListStep ==
    ASSUME IInv, NEW raw \in 0..(MaxLimit + 1), ListPage(raw)
    PROVE  HeldIsSelected' /\ Walk' /\ Counts'
<1> DEFINE candidates == {i \in Selected : Beyond(i)}
           n == Limit(raw)
<1>1. candidates \in SUBSET Ids /\ n \in Nat \ {0}
  BY LimitIsPositive DEF Selected
<1>2. PICK F \in SUBSET candidates :
        /\ IsNewest(F, candidates, n + 1)
        /\ more' = HasNext(F, n)
        /\ IsNewest(page', F, n)
  BY DEF ListPage
<1> HIDE DEF n
<1>3. /\ page' \subseteq candidates
      /\ \A q \in candidates \ page' : more' /\ \A p \in page' : Less(Key(q), Key(p))
      /\ more' => \E q \in candidates : \A p \in page' : Less(Key(q), Key(p))
      /\ candidates # {} => page' # {}
  <2> HIDE DEF candidates
  <2> QED
    BY <1>1, <1>2, PageCut DEF IInv
<1>4. /\ phase = "list" /\ phase' = "count"
      /\ UNCHANGED <<now, rows, cursor, listed>>
      /\ start' = IF cursor = None THEN candidates ELSE start
  BY DEF ListPage
<1>5. Selected' = Selected /\ \A i \in Ids : Key(i)' = Key(i)
  BY <1>4 DEF Selected, Key, rows
<1>6. HeldIsSelected'
  BY <1>3, <1>4, <1>5 DEF IInv, HeldIsSelected
<1>7. CursorSeparates'
  <2>1. CASE cursor = None
    BY <2>1, <1>4 DEF IInv, Walk, CursorSeparates
  <2>2. CASE cursor # None
    BY <2>2, <1>4 DEF IInv, Walk, CursorSeparates, Key, Less, rows, Selected
  <2> QED
    BY <2>1, <2>2
<1>8. PageIsTight'
  <2>1. \A p \in page' : Beyond(p)'
    BY <1>3, <1>4 DEF Beyond, Key, rows
  <2>2. ASSUME NEW s \in start'
        PROVE  s \in listed \/ s \in candidates
    BY <1>4 DEF IInv, Walk, CursorSeparates, HeldIsSelected, Beyond
  <2>3. \A s \in start' :
          s \in listed' \cup page' \/ (more' /\ \A p \in page' : Less(Key(s), Key(p))')
    BY <2>2, <1>3, <1>4 DEF Key, rows
  <2>4. more' => \E q \in Selected' : \A p \in page' : Less(Key(q), Key(p))'
    BY <1>3, <1>4, <1>5 DEF Key, rows
  <2> QED
    BY <2>1, <2>3, <2>4 DEF PageIsTight
<1>9. PromisedPageHasRows'
  <2> SUFFICES ASSUME cursor # None
               PROVE  page' # {}
    BY <1>4 DEF PromisedPageHasRows
  <2>1. candidates # {}
    BY <1>4 DEF IInv, Walk, CursorSeparates, Beyond
  <2> QED
    BY <2>1, <1>3
<1>10. Counts'
  <2>1. shown' = {i \in page' : ~read[i]} /\ read' = read
    BY DEF ListPage, rows
  <2> QED
    BY <2>1, <1>4 DEF Counts
<1> QED
  BY <1>4, <1>6, <1>7, <1>8, <1>9, <1>10 DEF Walk, NothingSkipped

\* The answer: the cursor moves to the last row of the page, or the walk ends.
LEMMA AnswerStep ==
    ASSUME IInv, Answer
    PROVE  HeldIsSelected' /\ Walk' /\ Counts'
<1>1. /\ phase = "count" /\ phase' = IF more THEN "list" ELSE "done"
      /\ listed' = listed \cup page
      /\ UNCHANGED <<now, stage, createdAt, mine, read, page, shown, more, start>>
      /\ NextCursor(cursor')
      /\ unread' = Cardinality({i \in Selected : ~read[i]})
  BY DEF Answer, rows
<1>2. Selected' = Selected /\ \A i \in Ids : Key(i)' = Key(i)
  BY <1>1 DEF Selected, Key
<1>3. page \subseteq Selected /\ listed \subseteq Selected /\ start \subseteq Selected
      /\ Selected \subseteq Ids
  BY DEF IInv, HeldIsSelected, Selected
<1>4. HeldIsSelected'
  BY <1>1, <1>2, <1>3 DEF HeldIsSelected
<1>5. CursorSeparates'
  <2> SUFFICES ASSUME more
               PROVE  CursorSeparates'
    BY <1>1 DEF CursorSeparates
  <2>1. PICK i \in page :
          cursor' = Key(i) /\ \A j \in page \ {i} : Less(Key(i), Key(j))
    BY <1>1 DEF NextCursor
  <2>2. \A k \in Ids : Key(k) \in Nat \X Nat
    BY KeyType DEF IInv
  <2>3. i \in Ids /\ cursor' # None
    BY <1>3, <2>1, <2>2, NoneAssumption
  <2>4. ASSUME NEW j \in listed \cup page
        PROVE  ~Less(Key(j), Key(i))
    <3>1. CASE j = i
      BY <3>1, <2>2, <2>3, LessIrreflexive
    <3>2. CASE j # i
      <4>1. Less(Key(i), Key(j))
        BY <1>1, <2>1, <3>2, Descends DEF PagesDescend
      <4> QED
        BY <4>1, <1>3, <2>2, <2>3, LessAsymmetric
    <3> QED
      BY <3>1, <3>2
  <2>5. \A s \in start : s \in listed' \/ Less(Key(s), Key(i))
    BY <1>1, <2>1 DEF IInv, Walk, PageIsTight
  <2>6. \E q \in Selected : Less(Key(q), Key(i))
    BY <1>1, <2>1 DEF IInv, Walk, PageIsTight
  <2>7. \A k \in Ids : Less(Key(k), cursor)' <=> Less(Key(k), Key(i))
    BY <1>1, <2>1 DEF Less, Key
  <2> QED
    BY <1>1, <1>2, <1>3, <2>3, <2>4, <2>5, <2>6, <2>7 DEF CursorSeparates
<1>6. NothingSkipped'
  BY <1>1 DEF IInv, Walk, PageIsTight, NothingSkipped
<1>7. Counts'
  <2> DEFINE U == {i \in Selected : ~read[i]}
             S == {i \in shown : ~read[i]}
  <2>1. S \subseteq U /\ U \in SUBSET Ids
    BY <1>3 DEF IInv, TypeOK
  <2>2. Cardinality(S) <= Cardinality(U)
    <3> HIDE DEF S, U
    <3> QED
      BY <2>1, RowsAreFinite, FS_Subset
  <2>3. {i \in shown : ~read[i]}' = S
    BY <1>1
  <2> QED
    BY <2>2, <2>3, <1>1 DEF IInv, Counts
<1> QED
  BY <1>1, <1>4, <1>5, <1>6, <1>7
  DEF Walk, PageIsTight, PromisedPageHasRows

\* Every step keeps the invariant.
LEMMA Step ==
    ASSUME IInv, [Next]_vars
    PROVE  IInv'
<1>1. TypeOK'
  BY TypeStep DEF IInv
<1>2. ASSUME NEW i \in Ids, NEW m \in BOOLEAN, Insert(i, m)
      PROVE  HeldIsSelected' /\ Walk' /\ Counts'
  <2>1. i \notin Selected /\ Selected \subseteq Selected'
    BY <1>2 DEF Insert, Selected, IInv, TypeOK
  <2>2. \A k \in Selected : Key(k)' = Key(k)
    BY <1>2, <2>1 DEF Insert, Key, Selected, IInv, TypeOK
  <2>3. Counts'
    BY <1>2, ReadsGrow DEF Insert
  <2> QED
    BY <1>2, <2>1, <2>2, <2>3, RowsGrow DEF Insert
<1>3. ASSUME NEW i \in Ids, NEW s \in {"visible", "lost"}, InsertEnds(i, s)
      PROVE  HeldIsSelected' /\ Walk' /\ Counts'
  <2>1. Selected \subseteq Selected'
    BY <1>3 DEF InsertEnds, Selected, IInv, TypeOK
  <2>2. \A k \in Selected : Key(k)' = Key(k)
    BY <1>3 DEF InsertEnds, Key
  <2>3. Counts'
    BY <1>3, ReadsGrow DEF InsertEnds
  <2> QED
    BY <1>3, <2>1, <2>2, <2>3, RowsGrow DEF InsertEnds
<1>4. ASSUME NEW i \in Ids, MarkAsRead(i)
      PROVE  HeldIsSelected' /\ Walk' /\ Counts'
  <2>1. Selected \subseteq Selected' /\ \A k \in Selected : Key(k)' = Key(k)
    BY <1>4 DEF MarkAsRead, Selected, Key
  <2>2. Counts'
    BY <1>4, ReadsGrow DEF MarkAsRead, IInv, TypeOK
  <2> QED
    BY <1>4, <2>1, <2>2, RowsGrow DEF MarkAsRead
<1>5. ASSUME MarkAllAsRead
      PROVE  HeldIsSelected' /\ Walk' /\ Counts'
  <2>1. Selected \subseteq Selected' /\ \A k \in Selected : Key(k)' = Key(k)
    BY <1>5 DEF MarkAllAsRead, Selected, Key
  <2>2. Counts'
    BY <1>5, ReadsGrow DEF MarkAllAsRead, IInv, TypeOK
  <2> QED
    BY <1>5, <2>1, <2>2, RowsGrow DEF MarkAllAsRead
<1>6. ASSUME Tick \/ UNCHANGED vars
      PROVE  HeldIsSelected' /\ Walk' /\ Counts'
  <2>1. UNCHANGED <<rows, client>>
    BY <1>6 DEF Tick, vars
  <2>2. Selected \subseteq Selected' /\ \A k \in Selected : Key(k)' = Key(k)
    BY <2>1 DEF rows, Selected, Key
  <2>3. Counts'
    BY <2>1, ReadsGrow DEF rows
  <2> QED
    BY <2>1, <2>2, <2>3, RowsGrow
<1>7. ASSUME Open
      PROVE  HeldIsSelected' /\ Walk' /\ Counts'
  BY <1>7 DEF Open, HeldIsSelected, Walk, CursorSeparates, PageIsTight,
              PromisedPageHasRows, NothingSkipped, Counts
<1>8. ASSUME AnswerLost
      PROVE  HeldIsSelected' /\ Walk' /\ Counts'
  <2>1. Selected' = Selected /\ \A k \in Ids : Key(k)' = Key(k)
    BY <1>8 DEF AnswerLost, rows, Selected, Key
  <2>2. HeldIsSelected'
    BY <1>8, <2>1 DEF AnswerLost, IInv, HeldIsSelected
  <2>3. CursorSeparates'
    BY <1>8 DEF AnswerLost, IInv, Walk, CursorSeparates, Selected, Key, Less, rows
  <2>4. Counts'
    <3>1. {i \in shown : ~read[i]}' = {} /\ page' = {} /\ unread' = unread
      BY <1>8 DEF AnswerLost
    <3>2. unread # None => 0 <= unread
      BY DEF IInv, TypeOK
    <3> QED
      BY <3>1, <3>2, FS_EmptySet DEF Counts
  <2> QED
    BY <1>8, <2>2, <2>3, <2>4
    DEF AnswerLost, Walk, PageIsTight, PromisedPageHasRows, NothingSkipped
<1> QED
  BY <1>1, <1>2, <1>3, <1>4, <1>5, <1>6, <1>7, <1>8, ListStep, AnswerStep
  DEF IInv, Next

\* The invariant holds throughout every behaviour of a feed and its client.
THEOREM WalkInvariant == Spec => []IInv
<1>1. Init => IInv
  <2>1. ASSUME Init
        PROVE  TypeOK
    <3>1. 0 \in 0..MaxTime
      BY MaxTimeAssumption
    <3>2. stage \in [Ids -> {"unused", "open", "visible", "lost"}]
      BY <2>1 DEF Init
    <3>3. createdAt \in [Ids -> 0..MaxTime]
      BY <2>1, <3>1 DEF Init
    <3>4. mine \in [Ids -> BOOLEAN] /\ read \in [Ids -> BOOLEAN]
      BY <2>1 DEF Init
    <3> QED
      BY <2>1, <3>1, <3>2, <3>3, <3>4 DEF Init, TypeOK
  <2>2. Init => HeldIsSelected /\ Walk /\ Counts
    BY DEF Init, HeldIsSelected, Walk, CursorSeparates, PageIsTight,
           PromisedPageHasRows, NothingSkipped, Counts
  <2> QED
    BY <2>1, <2>2 DEF IInv
<1> QED
  BY <1>1, Step, PTL DEF Spec

\* Keyset pagination in models/pagination.rs gives no row twice and none out of
\* order, for any number of rows and any limits, whatever is inserted meanwhile.
THEOREM InOrder == Spec => []PagesDescend
  BY WalkInvariant, Descends, PTL

\* And it skips none: a client told there is no next page has every row that was
\* there when it began.
THEOREM Complete == Spec => []NothingSkipped
<1>1. IInv => NothingSkipped
  BY DEF IInv, Walk
<1> QED
  BY <1>1, WalkInvariant, PTL

\* has_next is kept: the page it announces has rows.
THEOREM Promised == Spec => []PromisedPageHasRows
<1>1. IInv => PromisedPageHasRows
  BY DEF IInv, Walk
<1> QED
  BY <1>1, WalkInvariant, PTL

\* list_notifications: the rows an answer shows as unread outnumber its
\* unread_count only by rows marked read since the page was taken, and a row it
\* shows as read is never unread again.
THEOREM Counted == Spec => []UnreadCountCoversPage
<1>1. IInv => UnreadCountCoversPage
  BY DEF IInv, Counts, UnreadCountCoversPage
<1> QED
  BY <1>1, WalkInvariant, PTL

-----------------------------------------------------------------------------
(***************************************************************************)
(* The same notifications, pushed: Realtime, for any number of users,      *)
(* streams and replicas and any capacity of the channel.  A stream knows   *)
(* only its position, so the invariant says where the events are that it   *)
(* has still to give.                                                      *)
(***************************************************************************)
\* The type invariant without what no other part of the invariant needs.
WhereaboutsOK ==
    /\ notifications \in Seq(Users)
    /\ publishing \subseteq DOMAIN notifications
    /\ events \in Seq([target : Users \cup {Everyone}, row : Nat])
    /\ inbox \in [Replicas -> Seq(Nat)]
    /\ missed \in [Replicas -> SUBSET Nat]
    /\ log \in [Replicas -> Seq(Nat)]
    /\ on \in [Clients -> Replicas \cup {Offline}]
    /\ next \in [Clients -> Nat]
    /\ stale \in [Clients -> BOOLEAN]
    /\ known \in [Clients -> SUBSET Nat]
    /\ stream \in [Clients -> Seq(Nat)]

\* Events are numbered as they are published.
Ascends(s) == \A p, q \in DOMAIN s : p < q => s[p] < s[q]

\* A replica has its events in order, those sent to the channel before those
\* the listener has yet to receive.
ChannelInOrder(r) ==
    /\ Ascends(inbox[r]) /\ Ascends(log[r])
    /\ \A k \in DOMAIN inbox[r] : inbox[r][k] \in DOMAIN events
    /\ \A p \in DOMAIN log[r] :
        /\ log[r][p] \in DOMAIN events
        /\ \A k \in DOMAIN inbox[r] : log[r][p] < inbox[r][k]

\* What a stream has given are its user's events, in order.
GivenInOrder(c) ==
    /\ Ascends(stream[c])
    /\ \A p \in DOMAIN stream[c] :
        /\ stream[c][p] \in DOMAIN events
        /\ events[stream[c][p]].target \in {Everyone, UserOf[c]}

\* All that a connected stream has given was published before what it still has
\* to read, in the channel or in the listener's connection.
GivenBeforeRest(c) ==
    on[c] # Offline =>
        /\ next[c] \in 1..(Len(log[on[c]]) + 1)
        /\ \A p \in DOMAIN stream[c] :
            /\ \A q \in DOMAIN log[on[c]] : next[c] <= q => stream[c][p] < log[on[c]][q]
            /\ \A k \in DOMAIN inbox[on[c]] : stream[c][p] < inbox[on[c]][k]

\* A row is announced at most once, to its owner, and by its creator.
OneEventPerRow ==
    \A i \in DOMAIN events : events[i].row # 0 =>
        /\ events[i].row \in DOMAIN notifications \ publishing
        /\ events[i].target = notifications[events[i].row]
        /\ \A j \in DOMAIN events : events[j].row = events[i].row => i = j

InOrderEverywhere ==
    /\ \A r \in Replicas : ChannelInOrder(r)
    /\ \A c \in Clients : GivenInOrder(c) /\ GivenBeforeRest(c)

FanoutInv ==
    WhereaboutsOK /\ InOrderEverywhere /\ OneEventPerRow /\ NoSilentGap

-----------------------------------------------------------------------------
\* Appending something later keeps a sequence of events in order.
LEMMA AppendAscends ==
    ASSUME NEW s \in Seq(Nat), NEW x \in Nat, Ascends(s),
           \A p \in DOMAIN s : s[p] < x
    PROVE  Ascends(Append(s, x))
BY DEF Ascends

\* So does taking the first away, which was before all the others.
LEMMA TailAscends ==
    ASSUME NEW s \in Seq(Nat), s # <<>>, Ascends(s)
    PROVE  /\ Ascends(Tail(s))
           /\ Head(s) \in Nat /\ Tail(s) \in Seq(Nat)
           /\ \A k \in DOMAIN Tail(s) : k + 1 \in DOMAIN s /\ Tail(s)[k] = s[k + 1]
           /\ \A k \in DOMAIN s \ {1} : k - 1 \in DOMAIN Tail(s) /\ Tail(s)[k - 1] = s[k]
           /\ \A k \in DOMAIN Tail(s) : Head(s) < Tail(s)[k]
           /\ Len(s) >= 1 /\ Head(s) = s[1]
<1>1. Len(s) >= 1
  BY DEF Ascends
<1>2. \A k \in DOMAIN Tail(s) : k + 1 \in DOMAIN s /\ Tail(s)[k] = s[k + 1]
  BY <1>1
<1>3. Tail(s) \in Seq(Nat) /\ Head(s) \in Nat /\ Head(s) = s[1]
  BY <1>1
<1>4. \A k \in DOMAIN Tail(s) : k \in Nat /\ k >= 1
  BY <1>3
<1>5. \A k \in DOMAIN Tail(s) : Head(s) < Tail(s)[k]
  <2> TAKE k \in DOMAIN Tail(s)
  <2>1. 1 \in DOMAIN s /\ k + 1 \in DOMAIN s /\ 1 < k + 1
    BY <1>1, <1>2, <1>4
  <2> QED BY <2>1, <1>2, <1>3 DEF Ascends
<1>6. Ascends(Tail(s))
  <2> SUFFICES ASSUME NEW p \in DOMAIN Tail(s), NEW q \in DOMAIN Tail(s), p < q
               PROVE  Tail(s)[p] < Tail(s)[q]
    BY DEF Ascends
  <2> QED BY <1>2, <1>4 DEF Ascends
<1>7. ASSUME NEW k \in DOMAIN s \ {1}
      PROVE  k - 1 \in DOMAIN Tail(s) /\ Tail(s)[k - 1] = s[k]
  BY <1>1
<1> QED BY <1>1, <1>2, <1>3, <1>5, <1>6, <1>7

\* The initial state.
LEMMA FanoutBegins == ASSUME FanoutInit PROVE FanoutInv
BY DEF FanoutInit, FanoutInv, WhereaboutsOK, InOrderEverywhere, ChannelInOrder,
       GivenInOrder, GivenBeforeRest, Ascends, OneEventPerRow, NoSilentGap

\* The order depends on the events and their whereabouts only.
LEMMA OrderUnmoved ==
    ASSUME InOrderEverywhere, UNCHANGED <<events, inbox, log, on, next, stream>>
    PROVE  InOrderEverywhere'
BY DEF InOrderEverywhere, ChannelInOrder, GivenInOrder, GivenBeforeRest, Ascends

\* A row is inserted: nobody can have been told of it, and its creator is about
\* to publish.
LEMMA CreateInsertKeeps ==
    ASSUME FanoutInv, NEW u \in Users, CreateInsert(u)
    PROVE  FanoutInv'
<1> USE DEF FanoutInv
<1> DEFINE n == Len(notifications) + 1
<1>1. /\ notifications' = Append(notifications, u)
      /\ publishing' = publishing \cup {n}
      /\ UNCHANGED <<events, listening, inbox, missed, log, on, next, stale, known, stream>>
  BY DEF CreateInsert, clientVars, WhereaboutsOK
<1>2. /\ DOMAIN notifications' = DOMAIN notifications \cup {n}
      /\ n \notin DOMAIN notifications
      /\ \A m \in DOMAIN notifications : notifications'[m] = notifications[m]
  BY <1>1 DEF WhereaboutsOK
<1>3. WhereaboutsOK'
  BY <1>1, <1>2 DEF WhereaboutsOK
<1>4. InOrderEverywhere'
  BY <1>1, OrderUnmoved
<1>5. OneEventPerRow'
  BY <1>1, <1>2 DEF OneEventPerRow
<1>6. NoSilentGap'
  <2> SUFFICES ASSUME NEW c \in Clients, on[c] # Offline, ~stale[c],
                      NEW m \in FeedOf(UserOf[c])'
               PROVE  \/ m \in known[c] \/ m \in publishing'
                      \/ OnItsWay(c, m)' \/ Lost(on[c], m)'
    BY <1>1 DEF NoSilentGap
  <2>1. CASE m = n
    BY <2>1, <1>1
  <2>2. CASE m # n
    <3>1. m \in FeedOf(UserOf[c])
      BY <2>2, <1>2 DEF FeedOf
    <3> QED BY <3>1, <2>2, <1>1 DEF NoSilentGap, OnItsWay,
            EventsOf, Lost, Pending
  <2> QED BY <2>1, <2>2
<1> QED BY <1>3, <1>4, <1>5, <1>6

\* What the NOTIFY of publish does, whatever it announces: the new event is
\* later than all others, and each replica has it under way or has missed it.
LEMMA PublishKeepsOrder ==
    ASSUME FanoutInv, NEW t \in Users \cup {Everyone}, NEW n \in Nat,
           Publish(t, n), UNCHANGED <<log, on, next, stream>>
    PROVE  /\ DOMAIN events' = DOMAIN events \cup {Len(events) + 1}
           /\ Len(events) + 1 \notin DOMAIN events
           /\ \A i \in DOMAIN events : events'[i] = events[i]
           /\ events'[Len(events) + 1] = [target |-> t, row |-> n]
           /\ events' \in Seq([target : Users \cup {Everyone}, row : Nat])
           /\ inbox' \in [Replicas -> Seq(Nat)]
           /\ missed' \in [Replicas -> SUBSET Nat]
           /\ \A r \in Replicas :
                /\ missed[r] \subseteq missed'[r]
                /\ Pending(r) \subseteq Pending(r)'
                /\ Len(events) + 1 \in Pending(r)' \cup missed'[r]
           /\ InOrderEverywhere'
<1> USE DEF FanoutInv
<1> DEFINE i == Len(events) + 1
<1>1. /\ events' = Append(events, [target |-> t, row |-> n])
      /\ inbox' = [r \in Replicas |->
                    IF r \in listening THEN Append(inbox[r], i) ELSE inbox[r]]
      /\ missed' = [r \in Replicas |->
                     IF r \in listening THEN missed[r] ELSE missed[r] \cup {i}]
  BY DEF Publish, EventId
<1>2. /\ DOMAIN events' = DOMAIN events \cup {i}
      /\ i \notin DOMAIN events
      /\ \A j \in DOMAIN events : events'[j] = events[j] /\ j < i
      /\ events'[i] = [target |-> t, row |-> n]
      /\ events' \in Seq([target : Users \cup {Everyone}, row : Nat])
      /\ i \in Nat
  BY <1>1 DEF WhereaboutsOK
<1>3. inbox' \in [Replicas -> Seq(Nat)] /\ missed' \in [Replicas -> SUBSET Nat]
  BY <1>1, <1>2 DEF WhereaboutsOK
<1>4. ASSUME NEW r \in Replicas
      PROVE  /\ \A k \in DOMAIN inbox[r] : k \in DOMAIN inbox'[r] /\ inbox'[r][k] = inbox[r][k]
             /\ \A k \in DOMAIN inbox'[r] : k \in DOMAIN inbox[r] \/ inbox'[r][k] = i
             /\ r \in listening => \E k \in DOMAIN inbox'[r] : inbox'[r][k] = i
             /\ Ascends(inbox'[r])
  <2>1. inbox[r] \in Seq(Nat) /\ Ascends(inbox[r])
    BY DEF WhereaboutsOK, InOrderEverywhere, ChannelInOrder
  <2>2. CASE r \notin listening
    BY <2>1, <2>2, <1>1
  <2>3. CASE r \in listening
    <3>1. inbox'[r] = Append(inbox[r], i)
      BY <2>3, <1>1
    <3>2. \A k \in DOMAIN inbox[r] : inbox[r][k] < i
      BY <1>2 DEF InOrderEverywhere, ChannelInOrder
    <3>3. Ascends(inbox'[r])
      BY <3>1, <3>2, <2>1, <1>2, AppendAscends
    <3>4. /\ DOMAIN inbox'[r] = DOMAIN inbox[r] \cup {Len(inbox[r]) + 1}
          /\ inbox'[r][Len(inbox[r]) + 1] = i
          /\ \A k \in DOMAIN inbox[r] : inbox'[r][k] = inbox[r][k]
      BY <3>1, <2>1, <1>2
    <3> QED BY <3>3, <3>4
  <2> QED BY <2>2, <2>3
<1>5. \A r \in Replicas :
        /\ missed[r] \subseteq missed'[r]
        /\ Pending(r) \subseteq Pending(r)'
        /\ i \in Pending(r)' \cup missed'[r]
  BY <1>1, <1>4 DEF Pending
<1>6. ASSUME NEW r \in Replicas PROVE ChannelInOrder(r)'
  BY <1>2, <1>4 DEF InOrderEverywhere, ChannelInOrder, Ascends
<1>7. ASSUME NEW c \in Clients PROVE GivenInOrder(c)'
  BY <1>2 DEF InOrderEverywhere, GivenInOrder, Ascends
<1>8. ASSUME NEW c \in Clients PROVE GivenBeforeRest(c)'
  <2> SUFFICES ASSUME on[c] # Offline PROVE GivenBeforeRest(c)'
    BY DEF GivenBeforeRest
  <2>1. on[c] \in Replicas /\ GivenBeforeRest(c) /\ GivenInOrder(c)
    BY DEF WhereaboutsOK, InOrderEverywhere
  <2>2. ASSUME NEW p \in DOMAIN stream[c], NEW k \in DOMAIN inbox'[on[c]]
        PROVE  stream[c][p] < inbox'[on[c]][k]
    <3>1. CASE inbox'[on[c]][k] = i
      BY <2>1, <3>1, <1>2 DEF GivenInOrder
    <3>2. CASE inbox'[on[c]][k] # i
      <4>1. k \in DOMAIN inbox[on[c]] /\ inbox'[on[c]][k] = inbox[on[c]][k]
        BY <2>1, <3>2, <1>4
      <4> QED BY <2>1, <4>1 DEF GivenBeforeRest
    <3> QED BY <3>1, <3>2
  <2> QED BY <2>1, <2>2 DEF GivenBeforeRest
<1>9. InOrderEverywhere'
  BY <1>6, <1>7, <1>8 DEF InOrderEverywhere
<1> QED BY <1>2, <1>3, <1>5, <1>9

\* The events of a row before and after a NOTIFY.
LEMMA EventsOfGrow ==
    ASSUME NEW i, DOMAIN events' = DOMAIN events \cup {i}, i \notin DOMAIN events,
           \A j \in DOMAIN events : events'[j] = events[j], NEW m
    PROVE  /\ events'[i].row = m => EventsOf(m)' = EventsOf(m) \cup {i}
           /\ events'[i].row # m => EventsOf(m)' = EventsOf(m)
BY DEF EventsOf

\* Whatever was on its way or lost before a NOTIFY still is.
LEMMA PublishKeepsWay ==
    ASSUME FanoutInv, NEW c \in Clients, on[c] # Offline, NEW m,
           EventsOf(m)' = EventsOf(m),
           UNCHANGED <<log, on, next>>, publishing' \subseteq publishing,
           \A r \in Replicas :
                /\ missed[r] \subseteq missed'[r]
                /\ Pending(r) \subseteq Pending(r)'
    PROVE  /\ OnItsWay(c, m) => OnItsWay(c, m)'
           /\ Lost(on[c], m) => Lost(on[c], m)'
<1>1. on[c] \in Replicas
  BY DEF FanoutInv, WhereaboutsOK
<1> QED BY <1>1 DEF OnItsWay, Lost

\* The creator publishes its row.
LEMMA CreatePublishKeeps ==
    ASSUME FanoutInv, NEW n \in Nat, CreatePublish(n)
    PROVE  FanoutInv'
<1> USE DEF FanoutInv
<1> DEFINE i == Len(events) + 1
<1>1. /\ n \in publishing /\ publishing' = publishing \ {n}
      /\ n \in DOMAIN notifications /\ n # 0 /\ notifications[n] \in Users
      /\ Publish(notifications[n], n)
      /\ UNCHANGED <<notifications, listening, log, on, next, stale, known, stream>>
  BY DEF CreatePublish, clientVars, WhereaboutsOK
<1>2. /\ DOMAIN events' = DOMAIN events \cup {i}
      /\ i \notin DOMAIN events
      /\ \A j \in DOMAIN events : events'[j] = events[j]
      /\ events'[i] = [target |-> notifications[n], row |-> n]
      /\ events' \in Seq([target : Users \cup {Everyone}, row : Nat])
      /\ inbox' \in [Replicas -> Seq(Nat)]
      /\ missed' \in [Replicas -> SUBSET Nat]
      /\ \A r \in Replicas :
           /\ missed[r] \subseteq missed'[r]
           /\ Pending(r) \subseteq Pending(r)'
           /\ i \in Pending(r)' \cup missed'[r]
      /\ InOrderEverywhere'
  BY <1>1, PublishKeepsOrder
<1>3. WhereaboutsOK'
  BY <1>1, <1>2 DEF WhereaboutsOK
<1>4. OneEventPerRow'
  BY <1>1, <1>2 DEF OneEventPerRow
<1>5. \A m : m # n => EventsOf(m)' = EventsOf(m)
  BY <1>2, EventsOfGrow
<1>6. EventsOf(n)' = {i}
  <2>1. EventsOf(n) = {}
    BY <1>1 DEF EventsOf, OneEventPerRow
  <2>2. events'[i].row = n
    BY <1>2
  <2>3. EventsOf(n)' = EventsOf(n) \cup {i}
    BY <1>2, <2>2, EventsOfGrow
  <2> QED BY <2>1, <2>3
<1>7. NoSilentGap'
  <2> SUFFICES ASSUME NEW c \in Clients, on[c] # Offline, ~stale[c],
                      NEW m \in FeedOf(UserOf[c])'
               PROVE  \/ m \in known[c] \/ m \in publishing'
                      \/ OnItsWay(c, m)' \/ Lost(on[c], m)'
    BY <1>1 DEF NoSilentGap
  <2>1. on[c] \in Replicas /\ m \in FeedOf(UserOf[c])
    BY <1>1 DEF WhereaboutsOK, FeedOf
  <2>2. CASE m = n
    BY <2>1, <2>2, <1>1, <1>2, <1>6 DEF OnItsWay, Lost
  <2>3. CASE m # n
    <3>1. OnItsWay(c, m) => OnItsWay(c, m)'
      BY <2>3, <1>1, <1>2, <1>5, PublishKeepsWay
    <3>2. Lost(on[c], m) => Lost(on[c], m)'
      BY <2>3, <1>1, <1>2, <1>5, PublishKeepsWay
    <3> QED BY <2>1, <2>3, <3>1, <3>2, <1>1 DEF NoSilentGap
  <2> QED BY <2>2, <2>3
<1> QED BY <1>2, <1>3, <1>4, <1>7

\* The publication fails: the row has no event and never gets one.
LEMMA CreatePublishFailsKeeps ==
    ASSUME FanoutInv, NEW n \in Nat, CreatePublishFails(n)
    PROVE  FanoutInv'
<1> USE DEF FanoutInv
<1>1. /\ n \in publishing /\ publishing' = publishing \ {n}
      /\ UNCHANGED <<notifications, events, listening, inbox, missed, log,
                     on, next, stale, known, stream>>
  BY DEF CreatePublishFails, clientVars
<1>2. n # 0
  BY <1>1 DEF WhereaboutsOK
<1>3. WhereaboutsOK'
  BY <1>1 DEF WhereaboutsOK
<1>4. InOrderEverywhere'
  BY <1>1, OrderUnmoved
<1>5. OneEventPerRow'
  BY <1>1 DEF OneEventPerRow
<1>6. EventsOf(n) = {}
  BY <1>1, <1>2 DEF EventsOf, OneEventPerRow
<1>7. NoSilentGap'
  BY <1>1, <1>6 DEF NoSilentGap, OnItsWay, EventsOf,
     Lost, Pending, FeedOf
<1> QED BY <1>3, <1>4, <1>5, <1>7

\* An event for everybody announces no row.
LEMMA PublishBroadcastKeeps ==
    ASSUME FanoutInv, PublishBroadcast
    PROVE  FanoutInv'
<1> USE DEF FanoutInv
<1> DEFINE i == Len(events) + 1
<1>1. /\ Publish(Everyone, 0)
      /\ UNCHANGED <<notifications, publishing, listening, log, on, next, stale, known, stream>>
  BY DEF PublishBroadcast, clientVars
<1>2. /\ DOMAIN events' = DOMAIN events \cup {i}
      /\ i \notin DOMAIN events
      /\ \A j \in DOMAIN events : events'[j] = events[j]
      /\ events'[i] = [target |-> Everyone, row |-> 0]
      /\ events' \in Seq([target : Users \cup {Everyone}, row : Nat])
      /\ inbox' \in [Replicas -> Seq(Nat)]
      /\ missed' \in [Replicas -> SUBSET Nat]
      /\ \A r \in Replicas :
           /\ missed[r] \subseteq missed'[r]
           /\ Pending(r) \subseteq Pending(r)'
      /\ InOrderEverywhere'
  BY <1>1, PublishKeepsOrder
<1>3. WhereaboutsOK'
  BY <1>1, <1>2 DEF WhereaboutsOK
<1>4. OneEventPerRow'
  BY <1>1, <1>2 DEF OneEventPerRow
<1>5. events'[i].row = 0
  BY <1>2
<1>6. \A m : m # 0 => EventsOf(m)' = EventsOf(m)
  BY <1>2, <1>5, EventsOfGrow
<1>7. NoSilentGap'
  <2> SUFFICES ASSUME NEW c \in Clients, on[c] # Offline, ~stale[c],
                      NEW m \in FeedOf(UserOf[c])
               PROVE  \/ m \in known[c] \/ m \in publishing'
                      \/ OnItsWay(c, m)' \/ Lost(on[c], m)'
    BY <1>1 DEF NoSilentGap, FeedOf
  <2>1. m # 0
    BY DEF FeedOf, WhereaboutsOK
  <2>2. OnItsWay(c, m) => OnItsWay(c, m)'
    BY <2>1, <1>1, <1>2, <1>6, PublishKeepsWay
  <2>3. Lost(on[c], m) => Lost(on[c], m)'
    BY <2>1, <1>1, <1>2, <1>6, PublishKeepsWay
  <2> QED BY <2>2, <2>3, <1>1 DEF NoSilentGap
<1> QED BY <1>2, <1>3, <1>4, <1>7

\* The listener hands an event from its connection to the channel, or drops it
\* when nobody would read it.
LEMMA ReceiveKeeps ==
    ASSUME FanoutInv, Offline \notin Replicas, NEW r \in Replicas, Receive(r)
    PROVE  FanoutInv'
<1> USE DEF FanoutInv
<1> DEFINE i == Head(inbox[r])
           sent == \E c \in Clients : on[c] = r
<1>1. /\ inbox[r] # <<>>
      /\ inbox' = [inbox EXCEPT ![r] = Tail(@)]
      /\ ~sent => log' = log
      /\ sent => log' = [log EXCEPT ![r] = Append(@, i)]
      /\ UNCHANGED <<notifications, publishing, events, listening, missed,
                     on, next, stale, known, stream>>
  BY DEF Receive, clientVars, Subscribers
<1>2. /\ inbox[r] \in Seq(Nat) /\ log[r] \in Seq(Nat)
      /\ Ascends(inbox[r]) /\ Ascends(log[r])
  BY DEF WhereaboutsOK, InOrderEverywhere, ChannelInOrder
<1>3. /\ Ascends(Tail(inbox[r]))
      /\ i \in Nat /\ Tail(inbox[r]) \in Seq(Nat)
      /\ \A k \in DOMAIN Tail(inbox[r]) :
            k + 1 \in DOMAIN inbox[r] /\ Tail(inbox[r])[k] = inbox[r][k + 1]
      /\ \A k \in DOMAIN inbox[r] \ {1} :
            k - 1 \in DOMAIN Tail(inbox[r]) /\ Tail(inbox[r])[k - 1] = inbox[r][k]
      /\ \A k \in DOMAIN Tail(inbox[r]) : i < Tail(inbox[r])[k]
      /\ Len(inbox[r]) >= 1 /\ i = inbox[r][1]
  BY <1>1, <1>2, TailAscends
<1>4. /\ inbox'[r] = Tail(inbox[r])
      /\ \A s \in Replicas : s # r => inbox'[s] = inbox[s] /\ log'[s] = log[s]
  BY <1>1 DEF WhereaboutsOK
<1>5. WhereaboutsOK'
  <2>1. inbox' \in [Replicas -> Seq(Nat)]
    BY <1>1, <1>3 DEF WhereaboutsOK
  <2>2. Append(log[r], i) \in Seq(Nat)
    BY <1>2, <1>3
  <2>3. log' \in [Replicas -> Seq(Nat)]
    BY <2>2, <1>1 DEF WhereaboutsOK
  <2> QED BY <2>1, <2>3, <1>1 DEF WhereaboutsOK
<1>6. /\ 1 \in DOMAIN inbox[r] /\ i \in DOMAIN events
      /\ \A p \in DOMAIN log[r] : log[r][p] < i
  BY <1>2, <1>3 DEF InOrderEverywhere, ChannelInOrder
<1>7. /\ DOMAIN log'[r] \subseteq DOMAIN log[r] \cup {Len(log[r]) + 1}
      /\ \A p \in DOMAIN log[r] : p \in DOMAIN log'[r] /\ log'[r][p] = log[r][p]
      /\ \A p \in DOMAIN log'[r] : p \in DOMAIN log[r] \/ log'[r][p] = i
      /\ Len(log'[r]) >= Len(log[r])
      /\ Ascends(log'[r])
      /\ sent => /\ Len(log'[r]) = Len(log[r]) + 1
                 /\ log'[r][Len(log[r]) + 1] = i
  <2>1. CASE ~sent
    BY <2>1, <1>1, <1>2
  <2>2. CASE sent
    <3>1. log'[r] = Append(log[r], i)
      BY <2>2, <1>1 DEF WhereaboutsOK
    <3>2. Ascends(log'[r])
      BY <3>1, <1>2, <1>3, <1>6, AppendAscends
    <3>3. /\ DOMAIN log'[r] = DOMAIN log[r] \cup {Len(log[r]) + 1}
          /\ log'[r][Len(log[r]) + 1] = i
          /\ \A p \in DOMAIN log[r] : log'[r][p] = log[r][p]
          /\ Len(log'[r]) = Len(log[r]) + 1
      BY <3>1, <1>2, <1>3
    <3> QED BY <3>2, <3>3, <1>2
  <2> QED BY <2>1, <2>2
<1>8. \A k \in DOMAIN inbox'[r] :
        /\ k + 1 \in DOMAIN inbox[r] /\ inbox'[r][k] = inbox[r][k + 1]
        /\ i < inbox'[r][k]
  BY <1>3, <1>4
<1>9. ASSUME NEW s \in Replicas PROVE ChannelInOrder(s)'
  <2>1. CASE s # r
    BY <2>1, <1>1, <1>4 DEF InOrderEverywhere, ChannelInOrder, Ascends
  <2>2. CASE s = r
    <3>1. Ascends(inbox'[r]) /\ Ascends(log'[r])
      BY <1>3, <1>4, <1>7
    <3>2. \A k \in DOMAIN inbox'[r] : inbox'[r][k] \in DOMAIN events
      BY <1>8 DEF InOrderEverywhere, ChannelInOrder
    <3>3. ASSUME NEW p \in DOMAIN log'[r]
          PROVE  /\ log'[r][p] \in DOMAIN events
                 /\ \A k \in DOMAIN inbox'[r] : log'[r][p] < inbox'[r][k]
      <4>1. CASE p \in DOMAIN log[r]
        BY <4>1, <1>7, <1>8 DEF InOrderEverywhere, ChannelInOrder
      <4>2. CASE p \notin DOMAIN log[r]
        BY <4>2, <1>6, <1>7, <1>8
      <4> QED BY <4>1, <4>2
    <3> QED BY <2>2, <3>1, <3>2, <3>3, <1>1 DEF ChannelInOrder, Ascends
  <2> QED BY <2>1, <2>2
<1>10. ASSUME NEW c \in Clients PROVE GivenInOrder(c)'
  BY <1>1 DEF InOrderEverywhere, GivenInOrder, Ascends
<1>11. ASSUME NEW c \in Clients PROVE GivenBeforeRest(c)'
  <2> SUFFICES ASSUME on[c] # Offline PROVE GivenBeforeRest(c)'
    BY <1>1 DEF GivenBeforeRest
  <2>1. on[c] \in Replicas /\ GivenBeforeRest(c)
    BY DEF WhereaboutsOK, InOrderEverywhere
  <2>2. CASE on[c] # r
    BY <2>1, <2>2, <1>1, <1>4 DEF GivenBeforeRest
  <2>3. CASE on[c] = r
    <3>1. next[c] \in 1..(Len(log'[r]) + 1)
      BY <2>1, <2>3, <1>2, <1>5, <1>7 DEF GivenBeforeRest, WhereaboutsOK
    <3>2. ASSUME NEW p \in DOMAIN stream[c], NEW q \in DOMAIN log'[r], next[c] <= q
          PROVE  stream[c][p] < log'[r][q]
      <4>1. CASE q \in DOMAIN log[r]
        BY <4>1, <3>2, <2>1, <2>3, <1>7 DEF GivenBeforeRest
      <4>2. CASE q \notin DOMAIN log[r]
        BY <4>2, <2>1, <2>3, <1>3, <1>6, <1>7 DEF GivenBeforeRest
      <4> QED BY <4>1, <4>2
    <3>3. ASSUME NEW p \in DOMAIN stream[c], NEW k \in DOMAIN inbox'[r]
          PROVE  stream[c][p] < inbox'[r][k]
      BY <2>1, <2>3, <1>8 DEF GivenBeforeRest
    <3> QED BY <2>3, <3>1, <3>2, <3>3, <1>1 DEF GivenBeforeRest
  <2> QED BY <2>2, <2>3
<1>12. InOrderEverywhere'
  BY <1>9, <1>10, <1>11 DEF InOrderEverywhere
<1>13. OneEventPerRow'
  BY <1>1 DEF OneEventPerRow
<1>14. NoSilentGap'
  <2> SUFFICES ASSUME NEW c \in Clients, on[c] # Offline, ~stale[c],
                      NEW m \in FeedOf(UserOf[c]),
                      OnItsWay(c, m)
               PROVE  OnItsWay(c, m)'
    BY <1>1 DEF NoSilentGap, FeedOf, Lost, EventsOf
  <2>1. on[c] \in Replicas /\ next[c] \in 1..(Len(log[on[c]]) + 1)
    BY DEF WhereaboutsOK, InOrderEverywhere, GivenBeforeRest
  <2>2. EventsOf(m)' = EventsOf(m)
    BY <1>1 DEF EventsOf
  <2>3. CASE on[c] # r
    BY <2>1, <2>2, <2>3, <1>1, <1>4 DEF OnItsWay, Pending
  <2>4. CASE on[c] = r
    <3>1. sent
      BY <2>4
    <3>2. PICK j \in EventsOf(m) :
            \/ j \in Pending(r)
            \/ \E p \in next[c]..Len(log[r]) : log[r][p] = j
      BY <2>4 DEF OnItsWay
    <3>3. CASE j = i
      <4>1. Len(log[r]) + 1 \in next[c]..Len(log'[r]) /\ log'[r][Len(log[r]) + 1] = j
        BY <2>1, <2>4, <3>1, <3>3, <1>2, <1>7
      <4> QED BY <4>1, <3>2, <2>2, <2>4, <1>1 DEF OnItsWay
    <3>4. CASE j # i /\ j \in Pending(r)
      <4>1. PICK k \in DOMAIN inbox[r] : inbox[r][k] = j
        BY <3>4 DEF Pending
      <4>2. k - 1 \in DOMAIN inbox'[r] /\ inbox'[r][k - 1] = j
        <5>1. k # 1
          BY <4>1, <3>4, <1>3
        <5> QED BY <5>1, <4>1, <1>3, <1>4
      <4>3. j \in Pending(r)'
        BY <4>2 DEF Pending
      <4> QED BY <4>3, <3>2, <2>2, <2>4, <1>1 DEF OnItsWay
    <3>5. CASE \E p \in next[c]..Len(log[r]) : log[r][p] = j
      <4>1. PICK p \in next[c]..Len(log[r]) : log[r][p] = j
        BY <3>5
      <4>2. p \in next[c]..Len(log'[r]) /\ log'[r][p] = j
        BY <4>1, <2>1, <2>4, <3>1, <1>2, <1>7
      <4> QED BY <4>2, <3>2, <2>2, <2>4, <1>1 DEF OnItsWay
    <3> QED BY <3>2, <3>3, <3>4, <3>5
  <2> QED BY <2>3, <2>4
<1> QED BY <1>5, <1>12, <1>13, <1>14

\* A step that leaves the rows, the events and the way to the streams alone
\* keeps everything.
LEMMA NothingMoves ==
    ASSUME FanoutInv,
           UNCHANGED <<notifications, publishing, events, inbox, missed, log,
                       on, next, stale, known, stream>>
    PROVE  FanoutInv'
<1> USE DEF FanoutInv
<1>1. WhereaboutsOK' /\ OneEventPerRow'
  BY DEF WhereaboutsOK, OneEventPerRow
<1>2. InOrderEverywhere'
  BY OrderUnmoved
<1>3. NoSilentGap'
  BY DEF NoSilentGap, OnItsWay, EventsOf, Lost,
     Pending, FeedOf
<1> QED BY <1>1, <1>2, <1>3

\* The connection of a listener ends.  A row that was under way on it has no
\* other event, so it is lost to the replica and counted as such.
LEMMA ConnectionLostKeeps ==
    ASSUME FanoutInv, NEW r \in Replicas, ConnectionLost(r)
    PROVE  FanoutInv'
<1> USE DEF FanoutInv
<1>1. /\ missed' = [missed EXCEPT ![r] = @ \cup Pending(r)]
      /\ inbox' = [inbox EXCEPT ![r] = <<>>]
      /\ UNCHANGED <<notifications, publishing, events, log, on, next, stale, known, stream>>
  BY DEF ConnectionLost, clientVars
<1>2. /\ inbox'[r] = <<>> /\ missed'[r] = missed[r] \cup Pending(r)
      /\ \A s \in Replicas : s # r => inbox'[s] = inbox[s] /\ missed'[s] = missed[s]
  BY <1>1 DEF WhereaboutsOK
<1>3. Pending(r) \subseteq Nat
  BY DEF Pending, WhereaboutsOK
<1>4. WhereaboutsOK'
  BY <1>1, <1>3 DEF WhereaboutsOK
<1>5. ASSUME NEW s \in Replicas PROVE ChannelInOrder(s)'
  <2>1. CASE s = r
    BY <2>1, <1>1, <1>2 DEF InOrderEverywhere, ChannelInOrder, Ascends
  <2>2. CASE s # r
    BY <2>2, <1>1, <1>2 DEF InOrderEverywhere, ChannelInOrder, Ascends
  <2> QED BY <2>1, <2>2
<1>6. ASSUME NEW c \in Clients PROVE GivenInOrder(c)' /\ GivenBeforeRest(c)'
  <2>1. GivenInOrder(c)'
    BY <1>1 DEF InOrderEverywhere, GivenInOrder, Ascends
  <2>2. CASE on[c] = Offline
    BY <2>1, <2>2, <1>1 DEF GivenBeforeRest
  <2>3. CASE on[c] # Offline
    <3>1. on[c] \in Replicas /\ GivenBeforeRest(c)
      BY <2>3 DEF WhereaboutsOK, InOrderEverywhere
    <3>2. DOMAIN inbox'[on[c]] = {} \/ inbox'[on[c]] = inbox[on[c]]
      BY <3>1, <1>2
    <3> QED BY <2>1, <2>3, <3>1, <3>2, <1>1 DEF GivenBeforeRest
  <2> QED BY <2>2, <2>3
<1>7. InOrderEverywhere'
  BY <1>5, <1>6 DEF InOrderEverywhere
<1>8. OneEventPerRow'
  BY <1>1 DEF OneEventPerRow
<1>9. NoSilentGap'
  <2> SUFFICES ASSUME NEW c \in Clients, on[c] # Offline, ~stale[c],
                      NEW m \in FeedOf(UserOf[c]),
                      OnItsWay(c, m) \/ Lost(on[c], m)
               PROVE  OnItsWay(c, m)' \/ Lost(on[c], m)'
    BY <1>1 DEF NoSilentGap, FeedOf
  <2>1. on[c] \in Replicas /\ m # 0
    BY DEF WhereaboutsOK, FeedOf
  <2>2. EventsOf(m)' = EventsOf(m)
    BY <1>1 DEF EventsOf
  <2>3. CASE Lost(on[c], m)
    BY <2>1, <2>2, <2>3, <1>1, <1>2 DEF Lost
  <2>4. CASE OnItsWay(c, m)
    <3>1. PICK j \in EventsOf(m) :
            \/ j \in Pending(on[c])
            \/ \E p \in next[c]..Len(log[on[c]]) : log[on[c]][p] = j
      BY <2>4 DEF OnItsWay
    <3>2. CASE \E p \in next[c]..Len(log[on[c]]) : log[on[c]][p] = j
      BY <3>1, <3>2, <2>2, <1>1 DEF OnItsWay
    <3>3. CASE j \in Pending(on[c]) /\ on[c] # r
      BY <3>1, <3>3, <2>1, <2>2, <1>1, <1>2 DEF OnItsWay, Pending
    <3>4. CASE j \in Pending(on[c]) /\ on[c] = r
      <4>1. m \notin publishing /\ EventsOf(m) = {j}
        BY <3>1, <2>1 DEF EventsOf, OneEventPerRow
      <4> QED BY <4>1, <3>4, <2>2, <1>1, <1>2 DEF Lost
    <3> QED BY <3>1, <3>2, <3>3, <3>4
  <2> QED BY <2>3, <2>4
<1> QED BY <1>4, <1>7, <1>8, <1>9

\* What a step of one stream leaves to show: its own order and its own gap.
LEMMA StreamSteps ==
    ASSUME FanoutInv, NEW c \in Clients, WhereaboutsOK',
           UNCHANGED <<notifications, publishing, events, inbox, missed, log>>,
           \A d \in Clients \ {c} :
              UNCHANGED <<on[d], next[d], stale[d], known[d], stream[d]>>,
           GivenInOrder(c)', GivenBeforeRest(c)',
           (on'[c] # Offline /\ ~stale'[c]) =>
               \A n \in FeedOf(UserOf[c]) :
                   \/ n \in known'[c] \/ n \in publishing
                   \/ OnItsWay(c, n)' \/ Lost(on'[c], n)
    PROVE  FanoutInv'
<1> USE DEF FanoutInv
<1>1. OneEventPerRow'
  BY DEF OneEventPerRow
<1>2. \A r \in Replicas : ChannelInOrder(r)'
  BY DEF InOrderEverywhere, ChannelInOrder, Ascends
<1>3. ASSUME NEW d \in Clients PROVE GivenInOrder(d)' /\ GivenBeforeRest(d)'
  <2>1. CASE d # c
    <3>1. GivenInOrder(d) /\ GivenBeforeRest(d)
      BY DEF InOrderEverywhere
    <3>2. UNCHANGED <<on[d], next[d], stream[d]>>
      BY <2>1
    <3>3. GivenInOrder(d)'
      BY <3>1, <3>2 DEF GivenInOrder, Ascends
    <3>4. GivenBeforeRest(d)'
      BY <3>1, <3>2 DEF GivenBeforeRest
    <3> QED BY <3>3, <3>4
  <2> QED BY <2>1
<1>4. InOrderEverywhere'
  BY <1>2, <1>3 DEF InOrderEverywhere
<1>5. ASSUME NEW d \in Clients, on'[d] # Offline, ~stale'[d],
             NEW n \in FeedOf(UserOf[d])'
      PROVE  \/ n \in known'[d] \/ n \in publishing'
             \/ OnItsWay(d, n)' \/ Lost(on[d], n)'
  <2>1. n \in FeedOf(UserOf[d]) /\ \A r : Lost(r, n)' <=> Lost(r, n)
    BY DEF FeedOf, Lost, EventsOf
  <2>2. CASE d = c
    BY <2>1, <2>2, <1>5 DEF Lost, EventsOf
  <2>3. CASE d # c
    BY <2>1, <2>3, <1>5 DEF NoSilentGap, OnItsWay, Lost,
       EventsOf, Pending
  <2> QED BY <2>2, <2>3
<1>6. NoSilentGap'
  BY <1>5 DEF NoSilentGap
<1> QED BY <1>1, <1>4, <1>6

\* A stream begins at the end of the channel, with nothing given and a fetch to
\* come.
LEMMA SubscribeKeeps ==
    ASSUME FanoutInv, NEW c \in Clients, NEW r \in Replicas, Subscribe(c, r)
    PROVE  FanoutInv'
<1> USE DEF FanoutInv
<1>1. /\ on' = [on EXCEPT ![c] = r]
      /\ next' = [next EXCEPT ![c] = Len(log[r]) + 1]
      /\ stale' = [stale EXCEPT ![c] = TRUE]
      /\ stream' = [stream EXCEPT ![c] = <<>>]
      /\ UNCHANGED <<notifications, publishing, events, inbox, missed, log, known>>
  BY DEF Subscribe, serverVars, EndOfChannel
<1>2. Len(log[r]) \in Nat
  BY DEF WhereaboutsOK
<1>3. WhereaboutsOK'
  BY <1>1, <1>2 DEF WhereaboutsOK
<1>4. on'[c] = r /\ next'[c] = Len(log[r]) + 1 /\ stale'[c] /\ stream'[c] = <<>>
  BY <1>1 DEF WhereaboutsOK
<1>5. GivenInOrder(c)' /\ GivenBeforeRest(c)'
  BY <1>1, <1>2, <1>4 DEF GivenInOrder, GivenBeforeRest, Ascends
<1>6. \A d \in Clients \ {c} : UNCHANGED <<on[d], next[d], stale[d], known[d], stream[d]>>
  BY <1>1 DEF WhereaboutsOK
<1> QED BY <1>1, <1>3, <1>4, <1>5, <1>6, StreamSteps

\* A stream ends.
LEMMA DisconnectKeeps ==
    ASSUME FanoutInv, NEW c \in Clients, Disconnect(c)
    PROVE  FanoutInv'
<1> USE DEF FanoutInv
<1>1. /\ on' = [on EXCEPT ![c] = Offline]
      /\ next' = [next EXCEPT ![c] = 1]
      /\ stale' = [stale EXCEPT ![c] = FALSE]
      /\ UNCHANGED <<notifications, publishing, events, inbox, missed, log, known, stream>>
  BY DEF Disconnect, serverVars
<1>2. WhereaboutsOK'
  BY <1>1 DEF WhereaboutsOK
<1>3. on'[c] = Offline
  BY <1>1 DEF WhereaboutsOK
<1>4. GivenInOrder(c)' /\ GivenBeforeRest(c)'
  BY <1>1, <1>3 DEF InOrderEverywhere, GivenInOrder, GivenBeforeRest, Ascends
<1>5. \A d \in Clients \ {c} : UNCHANGED <<on[d], next[d], stale[d], known[d], stream[d]>>
  BY <1>1 DEF WhereaboutsOK
<1> QED BY <1>1, <1>2, <1>3, <1>4, <1>5, StreamSteps

\* The row of an event is a number.
LEMMA EventNamesRow ==
    ASSUME WhereaboutsOK, NEW j \in DOMAIN events
    PROVE  events[j].row \in Nat
<1> DEFINE E == [target : Users \cup {Everyone}, row : Nat]
<1>1. events \in Seq(E)
  BY DEF WhereaboutsOK
<1>2. events[j] \in E
  <2> HIDE DEF E
  <2> QED BY <1>1
<1> QED BY <1>2

\* A stream reads the event at its position.  What it gives is later than all it
\* has given; the row of an event it filters out is not its user's.
LEMMA StreamNextKeeps ==
    ASSUME FanoutInv, NEW c \in Clients, StreamNext(c), Capacity \in Nat
    PROVE  FanoutInv'
<1> USE DEF FanoutInv
<1> DEFINE r == on[c]
           i == log[r][next[c]]
<1>1. /\ r # Offline /\ next[c] \in Oldest(r)..Len(log[r])
      /\ next' = [next EXCEPT ![c] = @ + 1]
      /\ ForMe(c, i) => Delivered(c, i)
      /\ ~ForMe(c, i) => UNCHANGED <<stream, known>>
      /\ UNCHANGED <<notifications, publishing, events, inbox, missed, log, on, stale>>
  BY DEF StreamNext, serverVars
<1>2. /\ r \in Replicas /\ log[r] \in Seq(Nat) /\ stream[c] \in Seq(Nat)
      /\ ChannelInOrder(r) /\ GivenInOrder(c) /\ GivenBeforeRest(c)
      /\ next[c] \in Nat
  BY <1>1 DEF WhereaboutsOK, InOrderEverywhere
<1>3. next[c] \in DOMAIN log[r]
  BY <1>1, <1>2 DEF GivenBeforeRest
<1>4. i \in Nat /\ i \in DOMAIN events /\ \A p \in DOMAIN stream[c] : stream[c][p] < i
  <2>1. i \in Nat
    BY <1>2, <1>3
  <2>2. i \in DOMAIN events
    BY <1>2, <1>3 DEF ChannelInOrder
  <2>3. \A p \in DOMAIN stream[c] : stream[c][p] < i
    <3>1. next[c] <= next[c]
      BY <1>2
    <3> QED BY <3>1, <1>1, <1>2, <1>3 DEF GivenBeforeRest
  <2> QED BY <2>1, <2>2, <2>3
<1>5. next'[c] = next[c] + 1
  BY <1>1 DEF WhereaboutsOK
<1>6. /\ events[i].row \in Nat
      /\ stream' \in [Clients -> Seq(Nat)] /\ known' \in [Clients -> SUBSET Nat]
      /\ known[c] \subseteq known'[c]
      /\ \A d \in Clients \ {c} : UNCHANGED <<known[d], stream[d]>>
      /\ ForMe(c, i) => stream'[c] = Append(stream[c], i)
                               /\ known'[c] = known[c] \cup ({events[i].row} \ {0})
      /\ ~ForMe(c, i) => stream'[c] = stream[c]
  <2>1. events[i].row \in Nat
    <3> HIDE DEF i
    <3> QED BY <1>4, EventNamesRow
  <2>2. Append(stream[c], i) \in Seq(Nat)
    BY <1>2, <1>4
  <2>3. CASE ForMe(c, i)
    <3>1. /\ stream' = [stream EXCEPT ![c] = Append(@, i)]
          /\ known' = [known EXCEPT ![c] = @ \cup ({events[i].row} \ {0})]
      BY <2>3, <1>1 DEF Delivered
    <3>2. known \in [Clients -> SUBSET Nat] /\ stream \in [Clients -> Seq(Nat)]
      BY DEF WhereaboutsOK
    <3> HIDE DEF i
    <3>3. stream' \in [Clients -> Seq(Nat)] /\ stream'[c] = Append(stream[c], i)
      BY <3>1, <3>2, <2>2
    <3>4. /\ known' \in [Clients -> SUBSET Nat]
          /\ known'[c] = known[c] \cup ({events[i].row} \ {0})
      BY <3>1, <3>2, <2>1
    <3>5. \A d \in Clients \ {c} : UNCHANGED <<known[d], stream[d]>>
      BY <3>1, <3>2
    <3> QED BY <2>1, <2>3, <3>3, <3>4, <3>5
  <2>4. CASE ~ForMe(c, i)
    BY <2>1, <2>4, <1>1 DEF WhereaboutsOK
  <2> QED BY <2>3, <2>4
<1>7. WhereaboutsOK'
  <2>1. next' \in [Clients -> Nat]
    BY <1>1 DEF WhereaboutsOK
  <2> QED BY <2>1, <1>1, <1>6 DEF WhereaboutsOK
<1>8. /\ \A p \in DOMAIN stream'[c] :
            \/ p \in DOMAIN stream[c] /\ stream'[c][p] = stream[c][p]
            \/ ForMe(c, i) /\ stream'[c][p] = i
      /\ Ascends(stream'[c])
  <2>1. CASE ForMe(c, i)
    <3>1. Ascends(stream'[c])
      BY <2>1, <1>2, <1>4, <1>6, AppendAscends DEF GivenInOrder
    <3>2. stream'[c] = Append(stream[c], i)
      BY <2>1, <1>6
    <3> HIDE DEF i
    <3>3. \A p \in DOMAIN stream'[c] :
            (p \in DOMAIN stream[c] /\ stream'[c][p] = stream[c][p]) \/ stream'[c][p] = i
      BY <3>2, <1>2, <1>4
    <3> QED BY <2>1, <3>1, <3>3
  <2>2. CASE ~ForMe(c, i)
    <3>1. stream'[c] = stream[c] /\ Ascends(stream[c])
      BY <2>2, <1>2, <1>6 DEF GivenInOrder
    <3> QED BY <3>1
  <2> QED BY <2>1, <2>2
<1>9. GivenInOrder(c)'
  BY <1>1, <1>2, <1>4, <1>8 DEF GivenInOrder, ForMe, Ascends
<1>10. GivenBeforeRest(c)'
  <2>1. \A q \in DOMAIN log[r] : next[c] < q => i < log[r][q]
    BY <1>2, <1>3 DEF ChannelInOrder, Ascends
  <2>2. \A k \in DOMAIN inbox[r] : i < inbox[r][k]
    BY <1>2, <1>3 DEF ChannelInOrder
  <2>3. ASSUME NEW p \in DOMAIN stream'[c]
        PROVE  /\ \A q \in DOMAIN log[r] : next[c] + 1 <= q => stream'[c][p] < log[r][q]
               /\ \A k \in DOMAIN inbox[r] : stream'[c][p] < inbox[r][k]
    <3>1. \A q \in DOMAIN log[r] : next[c] + 1 <= q => next[c] < q /\ next[c] <= q
      BY <1>2
    <3>2. CASE stream'[c][p] = i
      BY <3>1, <3>2, <2>1, <2>2
    <3>3. CASE p \in DOMAIN stream[c] /\ stream'[c][p] = stream[c][p]
      BY <3>1, <3>3, <1>1, <1>2 DEF GivenBeforeRest
    <3> QED BY <3>2, <3>3, <1>8
  <2>4. next[c] + 1 \in 1..(Len(log[r]) + 1)
    BY <1>2, <1>3
  <2> QED BY <2>3, <2>4, <1>1, <1>5 DEF GivenBeforeRest
<1>11. ASSUME ~stale[c], NEW n \in FeedOf(UserOf[c]), OnItsWay(c, n)
       PROVE  n \in known'[c] \/ OnItsWay(c, n)'
  <2>1. n # 0 /\ notifications[n] = UserOf[c]
    BY DEF FeedOf, WhereaboutsOK
  <2>2. PICK j \in EventsOf(n) :
            \/ j \in Pending(r)
            \/ \E p \in next[c]..Len(log[r]) : log[r][p] = j
    BY <1>11 DEF OnItsWay
  <2>3. CASE j = i
    <3>1. events[i].row = n /\ events[i].target = UserOf[c]
      BY <2>1, <2>2, <2>3 DEF EventsOf, OneEventPerRow
    <3> QED BY <2>1, <3>1, <1>6 DEF ForMe
  <2>4. CASE j # i /\ \E p \in next[c]..Len(log[r]) : log[r][p] = j
    <3>1. PICK p \in next[c]..Len(log[r]) : log[r][p] = j
      BY <2>4
    <3>2. p \in (next[c] + 1)..Len(log[r])
      BY <3>1, <2>4, <1>2
    <3> QED BY <3>1, <3>2, <2>2, <1>1, <1>5 DEF OnItsWay, EventsOf
  <2>5. CASE j \in Pending(r)
    BY <2>2, <2>5, <1>1 DEF OnItsWay, EventsOf, Pending
  <2> QED BY <2>2, <2>3, <2>4, <2>5
<1>12. \A d \in Clients \ {c} : UNCHANGED <<on[d], next[d], stale[d], known[d], stream[d]>>
  BY <1>1, <1>6 DEF WhereaboutsOK
<1>13. (on'[c] # Offline /\ ~stale'[c]) =>
          \A n \in FeedOf(UserOf[c]) :
              \/ n \in known'[c] \/ n \in publishing
              \/ OnItsWay(c, n)' \/ Lost(on'[c], n)
  BY <1>1, <1>6, <1>11 DEF NoSilentGap
<1> QED BY <1>1, <1>7, <1>9, <1>10, <1>12, <1>13, StreamSteps

\* A stream that fell behind jumps ahead and is told so.
LEMMA StreamLaggedKeeps ==
    ASSUME FanoutInv, NEW c \in Clients, StreamLagged(c), Capacity \in Nat \ {0}
    PROVE  FanoutInv'
<1> USE DEF FanoutInv
<1> DEFINE r == on[c]
<1>1. /\ r # Offline /\ next[c] < Oldest(r)
      /\ next' = [next EXCEPT ![c] = Oldest(r)]
      /\ stale' = [stale EXCEPT ![c] = TRUE]
      /\ UNCHANGED <<notifications, publishing, events, inbox, missed, log, on, known, stream>>
  BY DEF StreamLagged, serverVars, Resync
<1>2. r \in Replicas /\ Len(log[r]) \in Nat /\ next[c] \in Nat
  BY <1>1 DEF WhereaboutsOK
<1>3. Oldest(r) \in 1..(Len(log[r]) + 1)
  BY <1>2 DEF Oldest
<1>4. WhereaboutsOK'
  BY <1>1, <1>2, <1>3 DEF WhereaboutsOK
<1>5. next'[c] = Oldest(r) /\ stale'[c]
  BY <1>1 DEF WhereaboutsOK
<1>6. GivenInOrder(c)'
  BY <1>1 DEF InOrderEverywhere, GivenInOrder, Ascends
<1>7. GivenBeforeRest(c)'
  <2>1. \A q \in DOMAIN log[r] : Oldest(r) <= q => next[c] <= q
    BY <1>1, <1>2, <1>3
  <2> QED BY <2>1, <1>1, <1>3, <1>5 DEF InOrderEverywhere, GivenBeforeRest
<1>8. \A d \in Clients \ {c} : UNCHANGED <<on[d], next[d], stale[d], known[d], stream[d]>>
  BY <1>1 DEF WhereaboutsOK
<1> QED BY <1>1, <1>4, <1>5, <1>6, <1>7, <1>8, StreamSteps

\* The client fetches its feed, and knows all of it.
LEMMA FetchKeeps ==
    ASSUME FanoutInv, NEW c \in Clients, Fetch(c)
    PROVE  FanoutInv'
<1> USE DEF FanoutInv
<1>1. /\ stale' = [stale EXCEPT ![c] = FALSE]
      /\ known' = [known EXCEPT ![c] = @ \cup FeedOf(UserOf[c])]
      /\ UNCHANGED <<notifications, publishing, events, inbox, missed, log, on, next, stream>>
  BY DEF Fetch, serverVars
<1>2. FeedOf(UserOf[c]) \subseteq Nat
  BY DEF FeedOf, WhereaboutsOK
<1>3. WhereaboutsOK'
  BY <1>1, <1>2 DEF WhereaboutsOK
<1>4. GivenInOrder(c)' /\ GivenBeforeRest(c)'
  BY <1>1 DEF InOrderEverywhere, GivenInOrder, GivenBeforeRest, Ascends
<1>5. FeedOf(UserOf[c]) \subseteq known'[c]
  BY <1>1 DEF WhereaboutsOK
<1>6. \A d \in Clients \ {c} : UNCHANGED <<on[d], next[d], stale[d], known[d], stream[d]>>
  BY <1>1 DEF WhereaboutsOK
<1> QED BY <1>1, <1>3, <1>4, <1>5, <1>6, StreamSteps

\* Every step of the fan-out keeps the invariant.
LEMMA FanoutNextKeeps ==
    ASSUME FanoutInv, [FanoutNext]_fanoutVars
    PROVE  FanoutInv'
<1>1. Offline \notin Replicas /\ Capacity \in Nat \ {0} /\ Rows \subseteq Nat
  BY RealtimeAssumption DEF Rows
<1>2. CASE UNCHANGED fanoutVars
  BY <1>2, NothingMoves DEF fanoutVars, serverVars, clientVars
<1>3. CASE \E r \in Replicas : Connect(r)
  BY <1>3, NothingMoves DEF Connect, clientVars
<1>4. CASE \/ \E u \in Users : CreateInsert(u)
           \/ \E n \in Rows : CreatePublish(n)
           \/ \E n \in Rows : CreatePublishFails(n)
           \/ PublishBroadcast
  BY <1>1, <1>4, CreateInsertKeeps, CreatePublishKeeps, CreatePublishFailsKeeps,
     PublishBroadcastKeeps
<1>5. CASE \/ \E r \in Replicas : Receive(r)
           \/ \E r \in Replicas : ConnectionLost(r)
  BY <1>1, <1>5, ReceiveKeeps, ConnectionLostKeeps
<1>6. CASE \/ \E c \in Clients, r \in Replicas : Subscribe(c, r)
           \/ \E c \in Clients : Disconnect(c)
           \/ \E c \in Clients : StreamNext(c)
           \/ \E c \in Clients : StreamLagged(c)
           \/ \E c \in Clients : Fetch(c)
  BY <1>1, <1>6, SubscribeKeeps, DisconnectKeeps, StreamNextKeeps, StreamLaggedKeeps,
     FetchKeeps
<1> QED BY <1>2, <1>3, <1>4, <1>5, <1>6 DEF FanoutNext

\* FanoutInv holds in every behaviour of Realtime.
THEOREM FanoutInvariant ==
    FanoutSpec => []FanoutInv
<1>1. FanoutInit => FanoutInv
  BY FanoutBegins
<1>2. FanoutInv /\ [FanoutNext]_fanoutVars => FanoutInv'
  BY FanoutNextKeeps
<1> QED BY <1>1, <1>2, PTL DEF FanoutSpec

\* The table, the events and the streams keep their types.
THEOREM FanoutTypeCorrect == FanoutSpec => []FanoutTypeOK
<1> DEFINE Rest == listening \subseteq Replicas /\ faults \in 0..MaxFaults
<1>1. FanoutInit => Rest
  BY RealtimeAssumption DEF FanoutInit
<1>2. Rest /\ [FanoutNext]_fanoutVars => Rest'
  BY RealtimeAssumption
  DEF FanoutNext, CreateInsert, CreatePublish, CreatePublishFails, PublishBroadcast,
      Connect, Receive, ConnectionLost, Subscribe, Disconnect, StreamNext, StreamLagged,
      Fetch, Fault, fanoutVars, serverVars, clientVars
<1>3. FanoutInv /\ Rest => FanoutTypeOK
  BY DEF FanoutInv, WhereaboutsOK, FanoutTypeOK
<1> QED BY <1>1, <1>2, <1>3, FanoutInvariant, PTL DEF FanoutSpec

\* sse_stream: a stream gives only its user's events and those for everybody,
\* each once and in the order of publication, for any number of streams and
\* replicas, any capacity, and however often it lags or its replica reconnects.
THEOREM StreamsInOrder ==
    FanoutSpec => []OwnEventsInOrder
<1>1. FanoutInv => OwnEventsInOrder
  <2> SUFFICES ASSUME FanoutInv, NEW c \in Clients, NEW p \in DOMAIN stream[c]
               PROVE  /\ events[stream[c][p]].target \in {Everyone, UserOf[c]}
                      /\ \A q \in 1..(p - 1) : stream[c][q] < stream[c][p]
    BY DEF OwnEventsInOrder
  <2>1. GivenInOrder(c) /\ stream[c] \in Seq(Nat)
    BY DEF FanoutInv, WhereaboutsOK, InOrderEverywhere
  <2>2. \A q \in 1..(p - 1) : q \in DOMAIN stream[c] /\ q < p
    BY <2>1
  <2> QED BY <2>1, <2>2 DEF GivenInOrder, Ascends
<1> QED BY <1>1, FanoutInvariant, PTL

\* sse_stream and run_listener: a connected client that was not told to resync
\* knows of every notification of its user or is about to be told, unless the
\* publication failed or the listener of its replica was not connected.
THEOREM GapsAreTold ==
    FanoutSpec => []NoSilentGap
<1>1. FanoutInv => NoSilentGap
  BY DEF FanoutInv
<1> QED BY <1>1, FanoutInvariant, PTL
=============================================================================
