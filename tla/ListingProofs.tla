--------------------------- MODULE ListingProofs ---------------------------
(***************************************************************************)
(* The answers of Listing for any articles, filters, pages and commits.    *)
(*                                                                         *)
(* A page is put together by two orders that need not agree on articles    *)
(* with equal keys: the sub-select takes the ids, the join their rows.     *)
(* That it is a page all the same is a matter of counting.                 *)
(***************************************************************************)
EXTENDS Listing, FiniteSetTheorems, SequenceTheorems, TLAPS

-----------------------------------------------------------------------------
(* The invariant. *)

\* What is asked for, and how far it is.
PathInv ==
    /\ pc # "idle" => req \in Asked /\ entries \in seen
    /\ pc = "count" => req.kind = "api"
    /\ pc \in {"count", "exists"} => snapshot = None
    /\ pc = "find" => req.kind \in {"api", "page", "cards"}
    /\ pc = "counters" => req.kind \in {"page", "categories"} /\ Len(counters) < 4
    /\ pc \in {"exists", "tags"} => req.kind = "tags"
    /\ pc \in {"idle", "count", "find", "exists"} => counters = <<>>
    /\ pc \in {"answer", "respond"} /\ req.kind \in {"page", "categories"} =>
          Len(counters) = 4
    /\ pc \notin {"answer", "respond"} => told = "none"
    /\ pc = "answer" => told = "none" \/ (told = "not_found" /\ req.kind = "tags")
    /\ pc \in {"find", "answer"} /\ req.kind = "api" => ~req.filter.unsupported
    /\ snapshot # None => pc \notin {"idle", "respond"} /\ snapshot \in seen

\* What a transaction has read is what one reads in d.
ReadFrom(d) ==
    /\ req.kind = "api" => total = Cardinality(Wanted(d, req.filter))
    /\ req.kind = "page" =>
          \A i \in DOMAIN counters :
             counters[i] = Cardinality(Wanted(d, Categories(req.filter.user)[i]))
    /\ req.kind \in {"api", "page"} /\ pc \in {"counters", "answer"} =>
          items \in Found(d, req.filter)
    /\ pc = "tags" => Exists(d)
    /\ req.kind = "tags" /\ pc = "answer" =>
          IF told = "not_found" THEN ~Exists(d)
          ELSE Exists(d) /\ tags = d[req.entry].tags

\* It is what is in its snapshot.
SnapshotInv ==
    \/ pc \in {"find", "answer"} /\ req.kind = "api"
    \/ pc \in {"counters", "answer"} /\ req.kind = "page"
    \/ pc \in {"tags", "answer"} /\ req.kind = "tags"
    => snapshot # None /\ ReadFrom(snapshot)

\* The SELECTs without a transaction are true each of a state of its own.
PoolInv ==
    /\ pc = "answer" /\ req.kind = "cards" => \E d \in seen : items \in Found(d, req.filter)
    /\ pc # "idle" /\ req.kind = "categories" =>
          \A i \in DOMAIN counters : \E d \in seen :
             counters[i] = Cardinality(Wanted(d, Categories(req.filter.user)[i]))

CountersInv == counters \in Seq(0..Cardinality(EntryIds))

IInv ==
    /\ TypeOK /\ CountersInv /\ PathInv /\ SnapshotInv /\ PoolInv
    /\ AnswersOfOneState /\ EachCounterWasTrue

-----------------------------------------------------------------------------
(* Rows and filters. *)

\* The fields of a row; None is none of the values.
LEMMA RowFields ==
    ASSUME NEW row \in Rows
    PROVE  /\ row.owner \in Users /\ row.archivedAt \in Nat \cup {None}
           /\ row.created \in Nat /\ row.updated \in Nat
           /\ row.tags \in SUBSET (Nat \ {0}) /\ IsFiniteSet(row.tags)
           /\ row # None
  BY RowsAssumption, NoneAssumption

\* What a column of ORDER BY has is a number.
LEMMA ColumnType ==
    ASSUME NEW row \in Rows, NEW q \in Filters
    PROVE  Column(row, q) \in Int
  <1>1. q.sort \in {"created", "updated", "archived", None}
    BY DEF Filters
  <1> QED
    BY <1>1, RowFields DEF Column

\* A row does not come before itself.
LEMMA BeforeIrreflexive ==
    ASSUME NEW row \in Rows, NEW q \in Filters
    PROVE  ~Before(row, row, q)
  BY ColumnType DEF Before

\* The articles that match are finitely many, and there are such rows.
LEMMA WantedType ==
    ASSUME NEW d \in Databases, NEW q
    PROVE  /\ Wanted(d, q) \subseteq EntryIds /\ IsFiniteSet(Wanted(d, q))
           /\ Cardinality(Wanted(d, q)) \in 0..Cardinality(EntryIds)
           /\ \A e \in Wanted(d, q) : d[e] \in Rows /\ Matches(d[e], q)
  <1>1. Wanted(d, q) \in SUBSET EntryIds
    BY DEF Wanted
  <1>2. IsFiniteSet(Wanted(d, q)) /\ Cardinality(Wanted(d, q)) <= Cardinality(EntryIds)
    BY <1>1, FS_Subset, IdsAssumption
  <1>3. Cardinality(Wanted(d, q)) \in Nat /\ Cardinality(EntryIds) \in Nat
    BY <1>2, FS_CardinalityType, IdsAssumption
  <1>4. \A e \in Wanted(d, q) : d[e] \in Rows /\ Matches(d[e], q)
    BY DEF Wanted, Matches, Databases
  <1> QED
    BY <1>1, <1>2, <1>3, <1>4

\* The filters of the pages: no page, and a searched one has no order of its own.
LEMMA UiFilterFields ==
    ASSUME NEW f \in UiFilters
    PROVE  /\ f.page = None /\ f.perPage = None /\ f.search = FALSE
           /\ Searched(f).page = None /\ Searched(f).perPage = None
           /\ Searched(f).sort = None /\ Searched(f).descending = FALSE
  <1>1. PICK u \in Users, c \in {"unread", "all", "favourite", "archived"} :
            f = PageFilter(u, c)
    BY DEF UiFilters
  <1>2. \/ f = NoFilter(u)
        \/ \E a : f = [NoFilter(u) EXCEPT !.archive = a]
        \/ f = [NoFilter(u) EXCEPT !.starred = TRUE]
    BY <1>1 DEF PageFilter
  <1>3. /\ f.page = None /\ f.perPage = None /\ f.search = FALSE
        /\ DOMAIN f = DOMAIN NoFilter(u)
    BY <1>2 DEF NoFilter
  <1>4. {"page", "perPage", "sort", "descending"} \subseteq DOMAIN f
    BY <1>3 DEF NoFilter
  <1> QED
    BY <1>3, <1>4 DEF Searched

\* The filters that are asked with.
LEMMA AskedFilter ==
    ASSUME NEW r \in Asked
    PROVE  /\ r.kind \in Kinds /\ r.filter \in Filters /\ r.filter.user \in Users
           /\ r.kind = "tags" => r.entry \in EntryIds
           /\ r.filter.page = None <=> r.filter.perPage = None
           /\ r.kind = "api" => r.filter.perPage # None
           /\ r.kind = "page" /\ r.filter.search =>
                 r.filter.sort = None /\ ~r.filter.descending
  <1>1. r.kind \in Kinds /\ r.filter \in Filters /\ r.filter.user \in Users
        /\ r.entry \in EntryIds \cup {None} /\ (r.kind = "tags" <=> r.entry # None)
    BY AskedAssumption DEF Filters
  <1>2. CASE r.kind = "api"
    <2>1. None \notin {r.filter.since, r.filter.page, r.filter.perPage}
      BY <1>2, AskedAssumption
    <2>2. r.filter.page # None /\ r.filter.perPage # None
      BY <2>1
    <2> QED
      BY <1>1, <1>2, <2>2
  <1>3. CASE r.kind = "page"
    <2>1. r.filter \in UiFilters \cup {Searched(f) : f \in UiFilters}
      BY <1>3, AskedAssumption
    <2>2. CASE r.filter \in UiFilters
      BY <1>1, <1>3, <2>2, UiFilterFields
    <2>3. ASSUME NEW f \in UiFilters, r.filter = Searched(f)
          PROVE  /\ r.filter.page = None /\ r.filter.perPage = None
                 /\ r.filter.sort = None /\ ~r.filter.descending
      BY <2>3, UiFilterFields
    <2> QED
      BY <1>1, <1>3, <2>1, <2>2, <2>3
  <1>4. CASE r.kind = "tags"
    <2>1. r.filter = NoFilter(r.filter.user)
      BY <1>4, AskedAssumption
    <2>2. r.filter.page = None /\ r.filter.perPage = None
      BY <2>1 DEF NoFilter
    <2> QED
      BY <1>1, <1>4, <2>2
  <1>5. CASE r.kind \in {"categories", "cards"}
    <2>1. r.filter \in UiFilters
      BY <1>5, AskedAssumption
    <2> QED
      BY <1>1, <1>5, <2>1, UiFilterFields
  <1> QED
    BY <1>1, <1>2, <1>3, <1>4, <1>5 DEF Kinds

-----------------------------------------------------------------------------
(* Sequences of everything in a set. *)

\* They are the bijections from its positions.
LEMMA SeqsAreBijections ==
    ASSUME NEW S, IsFiniteSet(S), NEW s \in SetToSeqs(S)
    PROVE  /\ Cardinality(S) \in Nat
           /\ s \in [1..Cardinality(S) -> S]
           /\ \A i, j \in 1..Cardinality(S) : s[i] = s[j] => i = j
           /\ \A x \in S : \E i \in 1..Cardinality(S) : s[i] = x
  <1> DEFINE D == 1..Cardinality(S)
  <1>1. Cardinality(S) \in Nat
    BY FS_CardinalityType
  <1>2. IsFiniteSet(D) /\ Cardinality(D) = Cardinality(S)
    BY <1>1, FS_Interval
  <1>3. s \in [D -> S] /\ \A i, j \in D : s[i] = s[j] => i = j
    BY DEF SetToSeqs
  <1>4. s \in Injection(D, S)
    BY <1>3 DEF Injection, IsInjective
  <1>5. s \in Surjection(D, S)
    BY <1>2, <1>4, FS_Injection
  <1> QED
    BY <1>1, <1>3, <1>5 DEF Surjection

\* As many things as there are places, each at one.
LEMMA Places ==
    ASSUME NEW n \in Nat, NEW T, NEW p \in [1..n -> T],
           \A x \in T : \E i \in 1..n : p[i] = x,
           \A i, j \in 1..n : p[i] = p[j] => i = j
    PROVE  IsFiniteSet(T) /\ Cardinality(T) = n
  <1>1. p \in Bijection(1..n, T)
    BY DEF Bijection, Injection, Surjection, IsInjective
  <1>2. ExistsBijection(1..n, T)
    BY <1>1 DEF ExistsBijection
  <1> QED
    BY <1>2, FS_NatBijection, FS_CountingElements

\* What an ORDER BY gives: nothing comes after what it should come before.
LEMMA OrderIsSorted ==
    ASSUME NEW d, NEW q, NEW S, IsFiniteSet(S), NEW s \in Orders(d, q, S)
    PROVE  /\ s \in SetToSeqs(S)
           /\ \A i, j \in 1..Cardinality(S) : i < j => ~Before(d[s[j][1]], d[s[i][1]], q)
  <1>1. s \in SetToSeqs(S)
    BY DEF Orders
  <1>2. DOMAIN s = 1..Cardinality(S)
    BY <1>1, SeqsAreBijections
  <1> QED
    BY <1>1, <1>2 DEF Orders

LEMMA MaxOfTwo ==
    ASSUME NEW a \in Int, NEW b \in Int
    PROVE  Max({a, b}) = IF a >= b THEN a ELSE b
  BY DEF Max

LEMMA MinOfTwo ==
    ASSUME NEW a \in Int, NEW b \in Int
    PROVE  Min({a, b}) = IF a <= b THEN a ELSE b
  BY DEF Min

-----------------------------------------------------------------------------
(* The sub-select. *)

\* The place after which LIMIT cuts off.
End(d, q) ==
    LET n == Cardinality(Wanted(d, q))
    IN  IF q.perPage = None \/ q.perPage < 0 THEN n ELSE Min({n, Offset(q) + q.perPage})

\* A ranking of the articles that match, as ORDER BY makes it.
Ranking(p, d, q) ==
    LET D == 1..Cardinality(Wanted(d, q))
    IN  /\ p \in [D -> Wanted(d, q)]
        /\ \A i, j \in D : p[i] = p[j] => i = j
        /\ \A e \in Wanted(d, q) : \E i \in D : p[i] = e
        /\ \A i, j \in D : i < j => ~Before(d[p[j]], d[p[i]], q)

\* OFFSET is a number of rows; LIMIT ends where the rows do.
LEMMA Bounds ==
    ASSUME NEW d \in Databases, NEW q \in Filters
    PROVE  /\ Offset(q) \in Nat
           /\ End(d, q) \in Int /\ End(d, q) <= Cardinality(Wanted(d, q))
  <1>1. q.page \in Int \cup {None} /\ q.perPage \in Int \cup {None}
    BY DEF Filters
  <1>2. Cardinality(Wanted(d, q)) \in Nat
    BY WantedType
  <1>3. Offset(q) \in Nat
    <2>1. CASE None \in {q.page, q.perPage}
      BY <2>1 DEF Offset
    <2>2. CASE None \notin {q.page, q.perPage}
      <3>1. (q.page - 1) * q.perPage \in Int
        BY <1>1, <2>2
      <3> QED
        BY <2>2, <3>1, MaxOfTwo DEF Offset
    <2> QED
      BY <2>1, <2>2
  <1> QED
    BY <1>1, <1>2, <1>3, MinOfTwo DEF End

\* The ids of the sub-select are the places from OFFSET to LIMIT of a ranking.
LEMMA SelectionIsCut ==
    ASSUME NEW d \in Databases, NEW q \in Filters, NEW ids \in Selections(d, q)
    PROVE  \E p : /\ Ranking(p, d, q)
                  /\ ids = {p[k] : k \in Offset(q) + 1 .. End(d, q)}
  <1> DEFINE W == Wanted(d, q)
             n == Cardinality(W)
             S == {<<e>> : e \in W}
             a == Offset(q) + 1
             b == End(d, q)
  <1>1. PICK s \in Orders(d, q, S) : ids = {r[1] : r \in ToSet(Cut(s, q))}
    BY DEF Selections
  <1>2. IsFiniteSet(W) /\ n \in Nat
    BY WantedType
  <1>3. IsFiniteSet(S) /\ Cardinality(S) = n
    <2>1. [e \in W |-> <<e>>] \in Bijection(W, S)
      BY DEF Bijection, Injection, Surjection, IsInjective
    <2> QED
      BY <1>2, <2>1, FS_Bijection DEF ExistsBijection
  <1>4. /\ s \in [1..n -> S]
        /\ \A i, j \in 1..n : s[i] = s[j] => i = j
        /\ \A x \in S : \E i \in 1..n : s[i] = x
        /\ \A i, j \in 1..n : i < j => ~Before(d[s[j][1]], d[s[i][1]], q)
    <2> HIDE DEF S
    <2>1. s \in SetToSeqs(S)
      BY <1>3, OrderIsSorted
    <2>2. \A i, j \in 1..Cardinality(S) : i < j => ~Before(d[s[j][1]], d[s[i][1]], q)
      BY <1>3, OrderIsSorted
    <2> QED
      BY <1>3, <2>1, <2>2, SeqsAreBijections
  <1> DEFINE p == [k \in 1..n |-> s[k][1]]
  <1>5. \A k \in 1..n : p[k] \in W /\ s[k] = <<p[k]>>
    BY <1>4
  <1>6. Ranking(p, d, q)
    <2>1. p \in [1..n -> W]
      BY <1>5
    <2>2. \A i, j \in 1..n : p[i] = p[j] => i = j
      BY <1>4, <1>5
    <2>3. ASSUME NEW e \in W PROVE \E i \in 1..n : p[i] = e
      <3>1. <<e>> \in S
        OBVIOUS
      <3>2. PICK i \in 1..n : s[i] = <<e>>
        BY <1>4, <3>1
      <3> QED
        BY <3>2
    <2>4. \A i, j \in 1..n : i < j => ~Before(d[p[j]], d[p[i]], q)
      BY <1>4
    <2> QED
      BY <2>1, <2>2, <2>3, <2>4 DEF Ranking
  <1>7. Cut(s, q) = SubSeq(s, a, b)
    <2>1. Len(s) = n
      BY <1>2, <1>4, LenProperties
    <2> QED
      BY <2>1 DEF Cut, End
  <1>8. a \in Int /\ a >= 1 /\ b \in Int /\ b <= n
    BY Bounds
  <1> HIDE DEF p, a, b
  <1>9. \A i \in a..b : s[i] \in S
    BY <1>2, <1>4, <1>8
  <1>10. /\ SubSeq(s, a, b) \in Seq(S)
         /\ Len(SubSeq(s, a, b)) = IF a <= b THEN b - a + 1 ELSE 0
         /\ \A i \in 1..b - a + 1 : SubSeq(s, a, b)[i] = s[a + i - 1]
    BY <1>8, <1>9, SubSeqProperties
  <1>11. DOMAIN SubSeq(s, a, b) = 1..b - a + 1
    BY <1>8, <1>10
  <1>12. ToSet(SubSeq(s, a, b)) = {s[k] : k \in a..b}
    <2>1. ASSUME NEW k \in a..b PROVE s[k] \in ToSet(SubSeq(s, a, b))
      <3>1. k - a + 1 \in 1..b - a + 1 /\ a + (k - a + 1) - 1 = k
        BY <1>8
      <3> QED
        BY <1>10, <1>11, <3>1 DEF ToSet
    <2>2. ASSUME NEW i \in 1..b - a + 1 PROVE a + i - 1 \in a..b
      BY <1>8
    <2>3. ToSet(SubSeq(s, a, b)) \subseteq {s[k] : k \in a..b}
      BY <1>10, <1>11, <2>2 DEF ToSet
    <2> QED
      BY <2>1, <2>3
  <1>13. \A k \in a..b : s[k][1] = p[k]
    BY <1>8, <1>2 DEF p
  <1>14. ids = {p[k] : k \in a..b}
    BY <1>1, <1>7, <1>12, <1>13
  <1> QED
    BY <1>6, <1>14 DEF a, b

-----------------------------------------------------------------------------
(* The join. *)

\* The tag rows of an article: at least the one with NULLs.
TagRows(row) == IF row.tags = {} THEN {NoTag} ELSE row.tags

\* An article of `ids` is joined with all its tags, and no other is joined.
LEMMA JoinedRows ==
    ASSUME NEW d \in Databases, NEW ids \in SUBSET EntryIds, \A e \in ids : d[e] \in Rows
    PROVE  /\ IsFiniteSet(Joined(d, ids))
           /\ \A r \in Joined(d, ids) : r[1] \in ids /\ r[2] \in TagRows(d[r[1]])
           /\ \A e \in ids : \A x \in TagRows(d[e]) :
                 /\ <<e, x>> \in Joined(d, ids)
                 /\ <<e, x>>[1] = e /\ <<e, x>>[2] = x
           /\ \A e \in ids : TagRows(d[e]) # {}
  <1> DEFINE T == {{e} \X TagRows(d[e]) : e \in ids}
  <1>1. Joined(d, ids) = UNION T
    BY DEF Joined, TagRows
  <1>2. IsFiniteSet(ids)
    BY FS_Subset, IdsAssumption
  <1>3. IsFiniteSet(T)
    <2>1. [e \in ids |-> {e} \X TagRows(d[e])] \in Surjection(ids, T)
      BY DEF Surjection
    <2> QED
      BY <1>2, <2>1, FS_Surjection
  <1>4. ASSUME NEW e \in ids PROVE IsFiniteSet({e} \X TagRows(d[e]))
    <2>1. IsFiniteSet(TagRows(d[e]))
      BY RowFields, FS_Singleton DEF TagRows
    <2> QED
      BY <2>1, FS_Singleton, FS_Product
  <1>5. IsFiniteSet(UNION T)
    <2> HIDE DEF T
    <2>1. \A U \in T : IsFiniteSet(U)
      BY <1>4 DEF T
    <2> QED
      BY <1>3, <2>1, FS_UNION
  <1>6. \A e \in ids : TagRows(d[e]) # {}
    BY DEF TagRows
  <1>7. \A r \in UNION T : r[1] \in ids /\ r[2] \in TagRows(d[r[1]])
    OBVIOUS
  <1>8. \A e \in ids : \A x \in TagRows(d[e]) : <<e, x>> \in UNION T
    OBVIOUS
  <1> QED
    BY <1>1, <1>5, <1>6, <1>7, <1>8

\* The list of a join: every article of `ids` once, with all its tags, sorted.
IsJoinList(list, d, q, ids) ==
    LET D == 1..Cardinality(ids)
    IN  /\ DOMAIN list = D /\ Len(list) = Cardinality(ids)
        /\ \A i \in D : /\ list[i].id \in ids
                        /\ list[i].row = d[list[i].id]
                        /\ list[i].tags = TagRows(d[list[i].id])
        /\ \A i, j \in D : list[i].id = list[j].id => i = j
        /\ \A e \in ids : \E i \in D : list[i].id = e
        /\ \A i, j \in D : i < j => ~Before(d[list[j].id], d[list[i].id], q)

\* The rows of an ordered join are gathered into such a list.
LEMMA GatheredList ==
    ASSUME NEW d \in Databases, NEW q \in Filters, NEW ids \in SUBSET EntryIds,
           \A e \in ids : d[e] \in Rows,
           NEW rows \in Orders(d, q, Joined(d, ids)), NEW list \in Gather(d, rows)
    PROVE  IsJoinList(list, d, q, ids)
  <1> DEFINE J == Joined(d, ids)
             n == Cardinality(J)
             m == Cardinality(ids)
             D == 1..m
  <1>1. IsFiniteSet(J)
    BY JoinedRows
  <1>2. /\ n \in Nat /\ rows \in [1..n -> J]
        /\ \A x \in J : \E k \in 1..n : rows[k] = x
        /\ \A k, l \in 1..n : k < l => ~Before(d[rows[l][1]], d[rows[k][1]], q)
    <2> HIDE DEF J
    <2>1. rows \in SetToSeqs(J)
      BY <1>1, OrderIsSorted DEF J
    <2>2. \A k, l \in 1..n : k < l => ~Before(d[rows[l][1]], d[rows[k][1]], q)
      BY <1>1, OrderIsSorted DEF J
    <2> QED
      BY <1>1, <2>1, <2>2, SeqsAreBijections
  <1>3. ToSet(rows) = J
    BY <1>2 DEF ToSet
  <1>4. {r[1] : r \in J} = ids
    <2>1. ASSUME NEW e \in ids PROVE e \in {r[1] : r \in J}
      <3>1. PICK x \in TagRows(d[e]) : TRUE
        BY JoinedRows
      <3>2. <<e, x>> \in J /\ <<e, x>>[1] = e
        BY JoinedRows
      <3> HIDE DEF J
      <3> QED
        BY <3>2
    <2>2. \A r \in J : r[1] \in ids
      BY JoinedRows
    <2> HIDE DEF J
    <2> QED
      BY <2>1, <2>2
  <1>5. ASSUME NEW e \in ids PROVE {r[2] : r \in {r \in J : r[1] = e}} = TagRows(d[e])
    <2>1. \A r \in J : r[1] = e => r[2] \in TagRows(d[e])
      BY JoinedRows
    <2>2. ASSUME NEW x \in TagRows(d[e]) PROVE \E r \in J : r[1] = e /\ r[2] = x
      <3>1. <<e, x>> \in J
        BY JoinedRows
      <3> WITNESS <<e, x>> \in J
      <3> QED
        OBVIOUS
    <2> HIDE DEF J
    <2> QED
      BY <2>1, <2>2
  <1> DEFINE item(e) == [id |-> e, row |-> d[e], tags |-> {r[2] : r \in {r \in ToSet(rows) : r[1] = e}}]
  <1>6. PICK s \in SetToSeqs(ids) :
            /\ list = [i \in DOMAIN s |-> item(s[i])]
            /\ \A i, j \in DOMAIN s : i < j => Precedes(rows, s[i], s[j])
    BY <1>3, <1>4 DEF Gather
  <1>7. IsFiniteSet(ids)
    BY FS_Subset, IdsAssumption
  <1>8. /\ m \in Nat /\ s \in [D -> ids]
        /\ \A i, j \in D : s[i] = s[j] => i = j
        /\ \A e \in ids : \E i \in D : s[i] = e
    BY <1>7, SeqsAreBijections
  <1>9. ASSUME NEW i \in D, NEW j \in D, i < j
        PROVE  ~Before(d[s[j]], d[s[i]], q)
    <2> HIDE DEF J
    <2>0. DOMAIN rows = 1..n /\ DOMAIN s = D
      BY <1>2, <1>8
    <2>9. Precedes(rows, s[i], s[j])
      BY <1>6, <1>9, <2>0
    <2>1. PICK k \in 1..n : rows[k][1] = s[i] /\ \A l \in 1..k : rows[l][1] # s[j]
      BY <2>0, <2>9 DEF Precedes
    <2>2. PICK x \in J : x[1] = s[j]
      BY <1>4, <1>8
    <2>3. PICK l \in 1..n : rows[l] = x
      BY <1>2, <2>2
    <2>4. k < l
      BY <1>2, <2>1, <2>2, <2>3
    <2> QED
      BY <1>2, <2>1, <2>2, <2>3, <2>4
  <1>10. DOMAIN list = D /\ Len(list) = m
    <2>1. list = [i \in D |-> item(s[i])]
      BY <1>6, <1>8
    <2> HIDE DEF item
    <2>2. list \in Seq({item(s[i]) : i \in D})
      BY <1>8, <2>1, IsASeq
    <2> QED
      BY <1>8, <2>1, <2>2, LenProperties
  <1>11. \A i \in D : /\ list[i].id = s[i] /\ list[i].row = d[s[i]]
                      /\ list[i].tags = {r[2] : r \in {r \in ToSet(rows) : r[1] = s[i]}}
    BY <1>6, <1>8
  <1>12. ASSUME NEW i \in D PROVE list[i].tags = TagRows(d[s[i]])
    <2>1. s[i] \in ids
      BY <1>8
    <2>2. list[i].tags = {r[2] : r \in {r \in J : r[1] = s[i]}}
      BY <1>3, <1>11
    <2> QED
      BY <1>5, <2>1, <2>2
  <1> HIDE DEF D, m
  <1>13. QED
    BY <1>8, <1>9, <1>10, <1>11, <1>12 DEF IsJoinList, D, m

-----------------------------------------------------------------------------
(* The place of an article. *)

\* Whatever comes before the i-th article of the list is one that OFFSET skips
\* or one of those before it; all these, and itself, do not come after it.
LEMMA PlaceOfItem ==
    ASSUME NEW d \in Databases, NEW q \in Filters, NEW p, Ranking(p, d, q),
           NEW list, IsJoinList(list, d, q, {p[k] : k \in Offset(q) + 1 .. End(d, q)}),
           NEW i \in DOMAIN list
    PROVE  LET e == list[i].id
           IN  /\ Cardinality({f \in Wanted(d, q) : Before(d[f], d[e], q)}) < Offset(q) + i
               /\ Offset(q) + i <=
                     Cardinality({f \in Wanted(d, q) : ~Before(d[e], d[f], q)})
  <1> DEFINE W == Wanted(d, q)
             n == Cardinality(W)
             a == Offset(q)
             b == End(d, q)
             ids == {p[k] : k \in a + 1 .. b}
             m == Cardinality(ids)
             t == [j \in 1..m |-> list[j].id]
             e == list[i].id
             Skip == {p[k] : k \in 1..a}
             Ahead == {t[j] : j \in 1..i - 1}
             UpTo == {t[j] : j \in 1..i}
             First == {f \in W : Before(d[f], d[e], q)}
             NotAfter == {f \in W : ~Before(d[e], d[f], q)}
  <1>1. a \in Nat /\ b \in Int /\ b <= n
    BY Bounds
  <1>2. n \in Nat /\ IsFiniteSet(W) /\ \A f \in W : d[f] \in Rows
    BY WantedType
  <1>3. /\ p \in [1..n -> W]
        /\ \A k, l \in 1..n : p[k] = p[l] => k = l
        /\ \A f \in W : \E k \in 1..n : p[k] = f
        /\ \A k, l \in 1..n : k < l => ~Before(d[p[l]], d[p[k]], q)
    BY DEF Ranking
  <1> HIDE DEF W, n, a, b
  <1>4. ids \subseteq W
    BY <1>1, <1>2, <1>3
  <1>5. /\ DOMAIN list = 1..m
        /\ t \in [1..m -> ids]
        /\ \A j, l \in 1..m : t[j] = t[l] => j = l
        /\ \A f \in ids : \E j \in 1..m : t[j] = f
        /\ \A j, l \in 1..m : j < l => ~Before(d[t[l]], d[t[j]], q)
        /\ e = t[i]
    BY DEF IsJoinList, a, b
  <1>6. m \in Nat
    BY <1>2, <1>4, FS_Subset, FS_CardinalityType
  <1> HIDE DEF m, t, e
  <1>7. i \in 1..m /\ e \in ids
    BY <1>5
  <1>8. PICK k \in a + 1 .. b : p[k] = e
    BY <1>7
  <1>9. a \in 0..n /\ k \in 1..n
    BY <1>1, <1>2, <1>8
  <1>10. \A f \in W : ~Before(d[f], d[f], q)
    BY <1>2, BeforeIrreflexive
  <1>11. IsFiniteSet(Skip) /\ Cardinality(Skip) = a
    <2>1. \A l, h \in 1..a : p[l] = p[h] => l = h
      BY <1>1, <1>2, <1>3, <1>9
    <2> DEFINE g == [l \in 1..a |-> p[l]]
    <2>3. /\ g \in [1..a -> Skip]
          /\ \A x \in Skip : \E l \in 1..a : g[l] = x
          /\ \A l, h \in 1..a : g[l] = g[h] => l = h
      BY <2>1
    <2> HIDE DEF Skip, g
    <2> QED
      BY <1>1, <2>3, Places
  <1>12. IsFiniteSet(Ahead) /\ Cardinality(Ahead) = i - 1
    <2>1. \A j, l \in 1..i - 1 : t[j] = t[l] => j = l
      BY <1>5, <1>6, <1>7
    <2>2. i - 1 \in Nat
      BY <1>6, <1>7
    <2> DEFINE g == [l \in 1..i - 1 |-> t[l]]
    <2>3. /\ g \in [1..i - 1 -> Ahead]
          /\ \A x \in Ahead : \E l \in 1..i - 1 : g[l] = x
          /\ \A l, h \in 1..i - 1 : g[l] = g[h] => l = h
      BY <2>1
    <2> HIDE DEF Ahead, g
    <2> QED
      BY <2>2, <2>3, Places
  <1>13. IsFiniteSet(UpTo) /\ Cardinality(UpTo) = i
    <2>1. \A j, l \in 1..i : t[j] = t[l] => j = l
      BY <1>5, <1>6, <1>7
    <2>2. i \in Nat \ {0}
      BY <1>6, <1>7
    <2> DEFINE g == [l \in 1..i |-> t[l]]
    <2>3. /\ g \in [1..i -> UpTo]
          /\ \A x \in UpTo : \E l \in 1..i : g[l] = x
          /\ \A l, h \in 1..i : g[l] = g[h] => l = h
      BY <2>1
    <2> HIDE DEF UpTo, g
    <2> QED
      BY <2>2, <2>3, Places
  <1>14. First \subseteq Skip \cup Ahead
    <2> SUFFICES ASSUME NEW f \in First, f \notin Skip PROVE f \in Ahead
      OBVIOUS
    <2>1. PICK l \in 1..n : p[l] = f
      BY <1>3
    <2>2. l < k
      BY <1>3, <1>8, <1>9, <1>10, <2>1
    <2>3. l \in a + 1 .. b
      BY <1>1, <1>8, <2>1, <2>2
    <2>4. PICK j \in 1..m : t[j] = f
      BY <1>5, <2>1, <2>3
    <2>5. j < i
      BY <1>5, <1>6, <1>7, <1>10, <2>4
    <2> QED
      BY <1>7, <1>6, <2>4, <2>5
  <1>15. Cardinality(First) < a + i
    <2> HIDE DEF First, Skip, Ahead
    <2>1. /\ IsFiniteSet(Skip \cup Ahead)
          /\ Cardinality(Skip \cup Ahead) = a + (i - 1) - Cardinality(Skip \cap Ahead)
      BY <1>11, <1>12, FS_Union
    <2>2. Cardinality(Skip \cap Ahead) \in Nat
      BY <1>11, FS_Intersection, FS_CardinalityType
    <2>3. Cardinality(First) <= Cardinality(Skip \cup Ahead) /\ IsFiniteSet(First)
      BY <1>14, <2>1, FS_Subset
    <2>4. Cardinality(First) \in Nat
      BY <2>3, FS_CardinalityType
    <2> QED
      BY <1>1, <1>6, <1>7, <2>1, <2>2, <2>3, <2>4
  <1>16. Skip \cup UpTo \subseteq NotAfter
    <2>1. ASSUME NEW l \in 1..a PROVE p[l] \in NotAfter
      <3>1. l \in 1..n /\ l < k
        BY <1>1, <1>2, <1>9
      <3> QED
        BY <1>3, <1>8, <1>9, <3>1
    <2>2. ASSUME NEW j \in 1..i PROVE t[j] \in NotAfter
      <3>1. j \in 1..m /\ t[j] \in W
        BY <1>4, <1>5, <1>6, <1>7
      <3>2. CASE j = i
        BY <1>5, <1>10, <3>1, <3>2
      <3>3. CASE j < i
        BY <1>5, <1>7, <3>1, <3>3
      <3> QED
        BY <1>6, <1>7, <3>2, <3>3
    <2> QED
      BY <2>1, <2>2
  <1>17. Skip \cap UpTo = {}
    <2>1. ASSUME NEW l \in 1..a, NEW j \in 1..i, p[l] = t[j] PROVE FALSE
      <3>1. t[j] \in ids
        BY <1>5, <1>6, <1>7
      <3>2. PICK h \in a + 1 .. b : p[h] = t[j]
        BY <3>1
      <3> QED
        BY <1>1, <1>2, <1>3, <1>9, <2>1, <3>2
    <2> QED
      BY <2>1
  <1>18. a + i <= Cardinality(NotAfter)
    <2>1. NotAfter \subseteq W
      OBVIOUS
    <2> HIDE DEF NotAfter, Skip, UpTo
    <2>2. Cardinality(Skip \cup UpTo) = a + i
      BY <1>1, <1>7, <1>11, <1>13, <1>17, FS_Union, FS_EmptySet
    <2>3. IsFiniteSet(NotAfter)
      BY <1>2, <2>1, FS_Subset
    <2> QED
      BY <1>16, <2>2, <2>3, FS_Subset
  <1> QED
    BY <1>15, <1>18 DEF a, e, W

-----------------------------------------------------------------------------
(* What find_all returns. *)

\* It is the list of the join of what the sub-select cuts out of a ranking.
LEMMA FoundShape ==
    ASSUME NEW d \in Databases, NEW q \in Filters, NEW list \in Found(d, q)
    PROVE  \E p : /\ Ranking(p, d, q)
                  /\ {p[k] : k \in Offset(q) + 1 .. End(d, q)} \subseteq Wanted(d, q)
                  /\ IsJoinList(list, d, q, {p[k] : k \in Offset(q) + 1 .. End(d, q)})
  <1>1. PICK ids \in Selections(d, q) :
            \E rows \in Orders(d, q, Joined(d, ids)) : list \in Gather(d, rows)
    BY DEF Found
  <1>2. PICK p : Ranking(p, d, q) /\ ids = {p[k] : k \in Offset(q) + 1 .. End(d, q)}
    BY SelectionIsCut
  <1>3. ids \subseteq Wanted(d, q)
    BY <1>2, Bounds, WantedType DEF Ranking
  <1>4. ids \in SUBSET EntryIds /\ \A e \in ids : d[e] \in Rows
    BY <1>3, WantedType
  <1>5. IsJoinList(list, d, q, ids)
    BY <1>1, <1>4, GatheredList
  <1> QED
    BY <1>2, <1>3, <1>5

\* As long as the cut is.
LEMMA FoundLength ==
    ASSUME NEW d \in Databases, NEW q \in Filters, NEW list \in Found(d, q)
    PROVE  Len(list) = IF Offset(q) < End(d, q) THEN End(d, q) - Offset(q) ELSE 0
  <1> DEFINE n == Cardinality(Wanted(d, q))
             a == Offset(q)
             b == End(d, q)
             m == IF a < b THEN b - a ELSE 0
  <1>1. PICK p : Ranking(p, d, q) /\ IsJoinList(list, d, q, {p[k] : k \in a + 1 .. b})
    BY FoundShape
  <1>2. a \in Nat /\ b \in Int /\ b <= n /\ n \in Nat
    BY Bounds, WantedType
  <1>3. \A k, l \in 1..n : p[k] = p[l] => k = l
    BY <1>1 DEF Ranking
  <1> HIDE DEF n
  <1> DEFINE ids == {p[k] : k \in a + 1 .. b}
             g == [k \in 1..m |-> p[a + k]]
  <1>4. m \in Nat /\ \A k \in 1..m : a + k \in a + 1 .. b /\ a + k \in 1..n
    BY <1>2
  <1>5. \A k \in a + 1 .. b : k - a \in 1..m /\ a + (k - a) = k
    BY <1>2
  <1> HIDE DEF m, a, b
  <1>6. g \in [1..m -> ids]
    BY <1>4
  <1>7. \A x \in ids : \E k \in 1..m : g[k] = x
    BY <1>5
  <1>8. \A k, l \in 1..m : g[k] = g[l] => k = l
    <2> SUFFICES ASSUME NEW k \in 1..m, NEW l \in 1..m, g[k] = g[l] PROVE k = l
      OBVIOUS
    <2>1. a + k = a + l
      BY <1>3, <1>4
    <2> QED
      BY <1>2, <1>4, <2>1
  <1> HIDE DEF ids, g
  <1>9. Cardinality(ids) = m
    BY <1>4, <1>6, <1>7, <1>8, Places
  <1>10. Len(list) = Cardinality(ids)
    BY <1>1 DEF IsJoinList, ids, a, b
  <1> QED
    BY <1>9, <1>10 DEF m, a, b

\* The types of what is listed.
LEMMA FoundType ==
    ASSUME NEW d \in Databases, NEW q \in Filters, NEW list \in Found(d, q),
           NEW i \in DOMAIN list
    PROVE  /\ list[i].id \in Wanted(d, q) /\ list[i].id \in EntryIds
           /\ list[i].row = d[list[i].id] /\ list[i].row \in Rows
           /\ list[i].tags = TagRows(list[i].row) /\ list[i].tags # {}
  <1>1. list[i].id \in Wanted(d, q) /\ list[i].row = d[list[i].id]
        /\ list[i].tags = TagRows(d[list[i].id])
    <2>1. PICK p : /\ {p[k] : k \in Offset(q) + 1 .. End(d, q)} \subseteq Wanted(d, q)
                   /\ IsJoinList(list, d, q, {p[k] : k \in Offset(q) + 1 .. End(d, q)})
      BY FoundShape
    <2> DEFINE ids == {p[k] : k \in Offset(q) + 1 .. End(d, q)}
    <2>2. ids \subseteq Wanted(d, q) /\ IsJoinList(list, d, q, ids)
      BY <2>1
    <2> HIDE DEF ids
    <2> QED
      BY <2>2 DEF IsJoinList
  <1> QED
    BY <1>1, WantedType DEF TagRows

\* Before the articles of a page with a number are as many as it says.
LEMMA SkippedIsOffset ==
    ASSUME NEW q \in Filters, q.page = None <=> q.perPage = None, Sane(q)
    PROVE  Skipped(q) = Offset(q) /\ Skipped(q) \in Nat
  <1>1. q.page \in Int \cup {None} /\ q.perPage \in Int \cup {None}
    BY DEF Filters
  <1>2. CASE q.perPage = None
    BY <1>2 DEF Skipped, Offset
  <1>3. CASE q.perPage # None
    <2>1. q.page - 1 \in Nat /\ q.perPage \in Nat
      BY <1>1, <1>3 DEF Sane
    <2>2. (q.page - 1) * q.perPage \in Nat
      BY <2>1
    <2> QED
      BY <1>1, <1>3, <2>2, MaxOfTwo DEF Skipped, Offset
  <1> QED
    BY <1>2, <1>3

\* Whatever find_all returns is a page of the articles that were asked for.
THEOREM FoundIsListing ==
    ASSUME NEW d \in Databases, NEW q \in Filters, q.page = None <=> q.perPage = None,
           items \in Found(d, q)
    PROVE  IsListing(d, q)
  <1> DEFINE n == Cardinality(Wanted(d, q))
  <1>1. PICK p : /\ Ranking(p, d, q)
                 /\ IsJoinList(items, d, q, {p[k] : k \in Offset(q) + 1 .. End(d, q)})
    BY FoundShape
  <1>2. \A i, j \in DOMAIN items : items[i].id = items[j].id => i = j
    BY <1>1 DEF IsJoinList
  <1>3. ASSUME NEW i \in DOMAIN items
        PROVE  LET e == items[i].id
               IN  /\ Matches(d[e], q) /\ items[i].row = d[e]
                   /\ items[i].tags = IF d[e].tags = {} THEN {NoTag} ELSE d[e].tags
                   /\ Sane(q) =>
                        /\ Cardinality({f \in Wanted(d, q) : Before(d[f], d[e], q)})
                              < Skipped(q) + i
                        /\ Skipped(q) + i <=
                              Cardinality({f \in Wanted(d, q) : ~Before(d[e], d[f], q)})
    <2>1. /\ items[i].id \in Wanted(d, q) /\ items[i].row = d[items[i].id]
          /\ items[i].tags = TagRows(d[items[i].id])
      BY FoundType
    <2>2. Matches(d[items[i].id], q)
      BY <2>1, WantedType
    <2>3. LET e == items[i].id
          IN  /\ Cardinality({f \in Wanted(d, q) : Before(d[f], d[e], q)}) < Offset(q) + i
              /\ Offset(q) + i <=
                    Cardinality({f \in Wanted(d, q) : ~Before(d[e], d[f], q)})
      BY <1>1, PlaceOfItem
    <2> QED
      BY <2>1, <2>2, <2>3, SkippedIsOffset DEF TagRows
  <1>4. ASSUME Sane(q)
        PROVE  Len(items) = LET rest == Max({0, n - Skipped(q)})
                            IN  IF q.perPage = None THEN rest ELSE Min({rest, q.perPage})
    <2>1. /\ Skipped(q) = Offset(q) /\ Offset(q) \in Nat /\ n \in Nat
          /\ Len(items) = IF Offset(q) < End(d, q) THEN End(d, q) - Offset(q) ELSE 0
          /\ Max({0, n - Offset(q)}) = IF 0 >= n - Offset(q) THEN 0 ELSE n - Offset(q)
      BY <1>4, SkippedIsOffset, FoundLength, WantedType, MaxOfTwo
    <2>2. CASE q.perPage = None
      <3>1. Offset(q) = 0 /\ End(d, q) = n
        BY <2>2 DEF Offset, End
      <3> HIDE DEF n
      <3> QED
        BY <2>1, <2>2, <3>1
    <2>3. CASE q.perPage # None
      <3>1. q.perPage \in Nat \ {0}
        BY <1>4, <2>3 DEF Sane, Filters
      <3>2. End(d, q) = Min({n, Offset(q) + q.perPage})
        BY <2>3, <3>1 DEF End
      <3> DEFINE rest == Max({0, n - Skipped(q)})
      <3> HIDE DEF n
      <3>3. End(d, q) = IF n <= Offset(q) + q.perPage THEN n ELSE Offset(q) + q.perPage
        BY <2>1, <3>1, <3>2, MinOfTwo
      <3>4. rest \in Int /\ rest = IF 0 >= n - Offset(q) THEN 0 ELSE n - Offset(q)
        BY <2>1
      <3> HIDE DEF rest
      <3>5. Min({rest, q.perPage}) = IF rest <= q.perPage THEN rest ELSE q.perPage
        BY <3>1, <3>4, MinOfTwo
      <3>6. Len(items) = Min({rest, q.perPage})
        BY <2>1, <3>1, <3>3, <3>4, <3>5
      <3> QED
        BY <2>3, <3>6 DEF rest
    <2> QED
      BY <2>2, <2>3
  <1> QED
    BY <1>2, <1>3, <1>4 DEF IsListing

\* SEARCH_ORDER_BY: the matches of the title come first.
LEMMA TitlesFirst ==
    ASSUME NEW d \in Databases, NEW q \in Filters, NEW list \in Found(d, q),
           q.search, q.sort = None, ~q.descending,
           NEW i \in DOMAIN list, NEW j \in DOMAIN list, i < j, list[j].row.text = "title"
    PROVE  list[i].row.text = "title"
  <1>1. ~Before(list[j].row, list[i].row, q)
    <2>1. PICK p : IsJoinList(list, d, q, {p[k] : k \in Offset(q) + 1 .. End(d, q)})
      BY FoundShape
    <2> DEFINE ids == {p[k] : k \in Offset(q) + 1 .. End(d, q)}
    <2>2. IsJoinList(list, d, q, ids)
      BY <2>1
    <2> HIDE DEF ids
    <2> QED
      BY <2>2 DEF IsJoinList
  <1>2. Column(list[j].row, q) = 0
    BY NoneAssumption DEF Column
  <1>3. Column(list[i].row, q) = IF list[i].row.text # "title" THEN 1 ELSE 0
    BY NoneAssumption DEF Column
  <1> QED
    BY <1>1, <1>2, <1>3 DEF Before

\* A page is beyond the last one when all articles are before it.
LEMMA BeyondLastPage ==
    ASSUME NEW count \in Nat, NEW page \in Nat \ {0}, NEW perPage \in Nat \ {0}
    PROVE  page > Pages(count, perPage) <=> (page - 1) * perPage >= count
  <1> DEFINE x == (count + perPage - 1) \div perPage
  <1>1. x \in Int /\ Pages(count, perPage) = x
    BY DEF Pages
  <1>2. x * perPage <= count + perPage - 1 /\ count + perPage - 1 < (x + 1) * perPage
    OBVIOUS
  <1> HIDE DEF x
  <1>3. CASE page > x
    <2>1. (page - 1 - x) * perPage >= 0
      BY <1>1, <1>3
    <2>2. (page - 1 - x) * perPage = (page - 1) * perPage - x * perPage
      BY <1>1
    <2>3. (x + 1) * perPage = x * perPage + perPage
      BY <1>1
    <2> QED
      BY <1>1, <1>2, <1>3, <2>1, <2>2, <2>3
  <1>4. CASE page <= x
    <2>1. (x - page) * perPage >= 0
      BY <1>1, <1>4
    <2>2. (x - page) * perPage = x * perPage - (page - 1) * perPage - perPage
      BY <1>1
    <2> QED
      BY <1>1, <1>2, <1>4, <2>1, <2>2
  <1> QED
    BY <1>1, <1>3, <1>4

-----------------------------------------------------------------------------
(* The invariant is kept. *)

\* Nothing is asked at the beginning.
LEMMA InitInv == Init => IInv
  <1> SUFFICES ASSUME Init PROVE IInv
    OBVIOUS
  <1>1. Cardinality(EntryIds) \in Nat
    BY IdsAssumption, FS_CardinalityType
  <1>2. TypeOK /\ CountersInv
    BY <1>1 DEF Init, TypeOK, CountersInv, ToSet
  <1>3. PathInv /\ SnapshotInv /\ PoolInv
    BY DEF Init, PathInv, SnapshotInv, PoolInv
  <1>4. AnswersOfOneState /\ EachCounterWasTrue
    BY DEF Init, AnswersOfOneState, PageOfOneState, CountersOfOneState, CardsOfOneState,
           TagsOfOneState, EachCounterWasTrue
  <1> QED
    BY <1>2, <1>3, <1>4 DEF IInv

\* Before the answer nothing is said of it.
LEMMA NotAnswered ==
    pc' # "respond" => AnswersOfOneState' /\ EachCounterWasTrue'
  BY DEF AnswersOfOneState, PageOfOneState, CountersOfOneState, CardsOfOneState,
         TagsOfOneState, EachCounterWasTrue

\* What a statement sees is a state that was committed while the request ran.
LEMMA ViewIsSeen ==
    ASSUME IInv, pc # "idle"
    PROVE  View \in seen /\ View \in Databases /\ req \in Asked
  BY DEF IInv, TypeOK, PathInv, View

\* Requests begin (entries, main, partial_categories, get_tags_by_entry).
LEMMA StartStep == ASSUME IInv, NEW q \in Asked, Start(q) PROVE IInv'
  <1> USE DEF IInv
  <1>1. q.kind \in Kinds
    BY AskedFilter
  <1>2. pc' \in {"count", "find", "counters", "exists"}
        /\ pc' = CASE q.kind = "api" -> "count"
                   [] q.kind \in {"page", "cards"} -> "find"
                   [] q.kind = "categories" -> "counters"
                   [] q.kind = "tags" -> "exists"
    BY <1>1 DEF Start, Kinds
  <1>3. TypeOK' /\ CountersInv'
    BY <1>2 DEF Start, TypeOK, CountersInv
  <1>4. PathInv'
    BY <1>1, <1>2 DEF Start, PathInv, Kinds
  <1>5. SnapshotInv' /\ PoolInv'
    BY <1>1, <1>2 DEF Start, PathInv, SnapshotInv, PoolInv, Kinds
  <1> QED
    BY <1>2, <1>3, <1>4, <1>5, NotAnswered

\* Commits add to what was seen (EntryStore).
LEMMA CommitStep == ASSUME IInv, NEW d \in Databases, Commit(d) PROVE IInv'
  <1> USE DEF IInv
  <1>1. pc' = pc /\ pc \notin {"idle", "respond"} /\ seen \subseteq seen' /\ d \in seen'
    BY DEF Commit
  <1>2. TypeOK' /\ CountersInv' /\ PathInv'
    BY DEF Commit, TypeOK, CountersInv, PathInv
  <1>3. SnapshotInv'
    BY DEF Commit, SnapshotInv, ReadFrom, Exists
  <1>4. PoolInv'
    BY <1>1 DEF Commit, PoolInv
  <1> QED
    BY <1>1, <1>2, <1>3, <1>4, NotAnswered

\* The answer is given, the next request may begin.
LEMMA RespondStep == ASSUME IInv, Respond PROVE IInv'
  <1>1. Cardinality(EntryIds) \in Nat
    BY IdsAssumption, FS_CardinalityType
  <1>2. TypeOK' /\ CountersInv'
    BY <1>1 DEF IInv, Respond, TypeOK, CountersInv, ToSet
  <1>3. PathInv' /\ SnapshotInv' /\ PoolInv'
    BY DEF IInv, Respond, PathInv, SnapshotInv, PoolInv
  <1> QED
    BY <1>2, <1>3, NotAnswered DEF IInv, Respond

\* Filters that are not supported are refused (ensure_supported).
LEMMA UnsupportedStep == ASSUME IInv, Unsupported PROVE IInv'
  <1> USE DEF IInv
  <1>1. req.kind = "api" /\ req.filter.unsupported /\ pc' = "respond" /\ req' = req
        /\ snapshot = None
    BY DEF Unsupported, PathInv
  <1> QED
    BY <1>1 DEF Unsupported, TypeOK, CountersInv, PathInv, SnapshotInv, PoolInv,
       AnswersOfOneState, PageOfOneState, CountersOfOneState, CardsOfOneState,
       TagsOfOneState, EachCounterWasTrue

\* What the SELECT of a transaction sees becomes its snapshot, or is it already.
LEMMA SelectKeeps ==
    ASSUME IInv, NEW next, Select(next), pc # "idle", next \notin {"idle", "respond"}
    PROVE  /\ pc' = next /\ req' = req /\ seen' = seen /\ entries' = entries
           /\ snapshot' = IF req.kind \in {"api", "page", "tags"} THEN View ELSE None
           /\ snapshot' # None => snapshot' \in seen
           /\ snapshot' \in Databases \cup {None}
           /\ snapshot # None => View = snapshot
  BY ViewIsSeen DEF Select, View

\* A function is not None, nor is a row.
LEMMA ViewIsThere ==
    ASSUME IInv, pc # "idle"
    PROVE  View # None
  BY ViewIsSeen, NoneAssumption DEF Databases

\* The articles are counted (entries).
LEMMA CountStep == ASSUME IInv, Count PROVE IInv'
  <1> USE DEF IInv
  <1>1. /\ pc = "count" /\ req.kind = "api" /\ ~req.filter.unsupported
        /\ View \in Databases /\ View \in seen /\ View # None /\ req \in Asked
        /\ total' = Cardinality(Wanted(View, req.filter))
        /\ UNCHANGED <<items, counters, tags, told>>
    BY ViewIsSeen, ViewIsThere DEF Count, PathInv
  <1>2. pc' = "find" /\ req' = req /\ seen' = seen /\ entries' = entries /\ snapshot' = View
    BY <1>1, SelectKeeps DEF Count
  <1>3. TypeOK' /\ CountersInv'
    BY <1>1, <1>2, WantedType DEF TypeOK, CountersInv
  <1>4. PathInv'
    BY <1>1, <1>2 DEF PathInv
  <1>5. SnapshotInv' /\ PoolInv'
    BY <1>1, <1>2 DEF SnapshotInv, ReadFrom, PoolInv
  <1> QED
    BY <1>2, <1>3, <1>4, <1>5, NotAnswered

\* The articles are found (entries, main, partial_articles, search,
\* render_article_cards).
LEMMA FindStep == ASSUME IInv, Find PROVE IInv'
  <1> USE DEF IInv
  <1>1. /\ pc = "find" /\ req.kind \in {"api", "page", "cards"}
        /\ View \in Databases /\ View \in seen /\ View # None /\ req \in Asked
        /\ req.filter \in Filters
        /\ items' \in Found(View, req.filter)
        /\ counters = <<>> /\ told = "none"
        /\ UNCHANGED <<total, counters, tags, told>>
    BY ViewIsSeen, ViewIsThere, AskedFilter DEF Find, PathInv
  <1>2. /\ pc' = IF req.kind = "page" THEN "counters" ELSE "answer"
        /\ req' = req /\ seen' = seen /\ entries' = entries
        /\ snapshot' = IF req.kind \in {"api", "page", "tags"} THEN View ELSE None
        /\ snapshot # None => View = snapshot
    BY <1>1, SelectKeeps DEF Find, AfterFind
  <1>3. \A i \in DOMAIN items' :
           items'[i].id \in EntryIds /\ items'[i].row \in Rows /\ items'[i].tags # {}
    BY <1>1, FoundType
  <1>4. TypeOK' /\ CountersInv'
    BY <1>1, <1>2, <1>3 DEF TypeOK, CountersInv
  <1>5. PathInv'
    BY <1>1, <1>2 DEF PathInv
  <1>6. SnapshotInv'
    BY <1>1, <1>2 DEF SnapshotInv, ReadFrom
  <1>7. PoolInv'
    BY <1>1, <1>2 DEF PoolInv
  <1> QED
    BY <1>2, <1>4, <1>5, <1>6, <1>7, NotAnswered

\* What is in a sequence is of its type.
LEMMA ToSetOfSeq ==
    ASSUME NEW S, NEW s \in Seq(S)
    PROVE  ToSet(s) \subseteq S
  BY DEF ToSet

\* One of the four counts (ArticleCounters::load).
LEMMA LoadCounterStep == ASSUME IInv, LoadCounter PROVE IInv'
  <1> USE DEF IInv
  <1> DEFINE c == Cardinality(Wanted(View, Categories(req.filter.user)[Len(counters) + 1]))
             n == Cardinality(EntryIds)
  <1>1. /\ pc = "counters" /\ req.kind \in {"page", "categories"} /\ Len(counters) < 4
        /\ View \in Databases /\ View \in seen /\ View # None /\ req \in Asked
        /\ counters' = Append(counters, c) /\ c \in 0..n
        /\ told = "none"
        /\ UNCHANGED <<total, items, tags, told>>
    BY ViewIsSeen, ViewIsThere, WantedType DEF LoadCounter, PathInv
  <1>2. /\ pc' = IF Len(counters) < 3 THEN "counters" ELSE "answer"
        /\ req' = req /\ seen' = seen /\ entries' = entries
        /\ snapshot' = IF req.kind \in {"api", "page", "tags"} THEN View ELSE None
        /\ snapshot # None => View = snapshot
    BY <1>1, SelectKeeps DEF LoadCounter
  <1>3. /\ counters \in Seq(0..n) /\ Len(counters) \in Nat
        /\ counters' \in Seq(0..n) /\ Len(counters') = Len(counters) + 1
        /\ \A i \in DOMAIN counters : i \in DOMAIN counters' /\ counters'[i] = counters[i]
        /\ \A i \in DOMAIN counters' :
              i \in DOMAIN counters \/ (i = Len(counters) + 1 /\ counters'[i] = c)
    BY <1>1 DEF CountersInv
  <1> HIDE DEF c
  <1>4. ToSet(counters') \subseteq 0..n
    BY <1>3, ToSetOfSeq
  <1>5. TypeOK' /\ CountersInv'
    BY <1>1, <1>2, <1>3, <1>4 DEF TypeOK, CountersInv
  <1>6. PathInv'
    BY <1>1, <1>2, <1>3 DEF PathInv
  <1>7. SnapshotInv'
    <2> SUFFICES ASSUME req.kind = "page" PROVE SnapshotInv'
      BY <1>1, <1>2 DEF SnapshotInv
    <2>1. snapshot # None /\ ReadFrom(snapshot) /\ snapshot' = snapshot
      BY <1>1, <1>2 DEF SnapshotInv
    <2>2. ReadFrom(snapshot)'
      BY <1>1, <1>2, <1>3, <2>1 DEF ReadFrom, c
    <2> QED
      BY <2>1, <2>2 DEF SnapshotInv
  <1>8. PoolInv'
    <2>1. ASSUME req.kind = "categories", NEW i \in DOMAIN counters'
          PROVE  \E d \in seen' : counters'[i] =
                    Cardinality(Wanted(d, Categories(req.filter.user)[i]))
      <3>1. CASE i \in DOMAIN counters
        BY <1>1, <1>2, <1>3, <2>1, <3>1 DEF PoolInv
      <3>2. CASE i = Len(counters) + 1 /\ counters'[i] = c
        BY <1>1, <1>2, <3>2 DEF c
      <3> QED
        BY <1>3, <3>1, <3>2
    <2> QED
      BY <1>1, <1>2, <2>1 DEF PoolInv
  <1> QED
    BY <1>2, <1>5, <1>6, <1>7, <1>8, NotAnswered

\* Is there the article (get_tags_by_entry, exists_by_id)?
LEMMA LookStep == ASSUME IInv, Look PROVE IInv'
  <1> USE DEF IInv
  <1>1. /\ pc = "exists" /\ req.kind = "tags"
        /\ View \in Databases /\ View \in seen /\ View # None /\ req \in Asked
        /\ told' = IF Exists(View) THEN "none" ELSE "not_found"
        /\ UNCHANGED <<total, items, counters, tags>>
    BY ViewIsSeen, ViewIsThere DEF Look, PathInv
  <1>2. /\ pc' = IF Exists(View) THEN "tags" ELSE "answer"
        /\ req' = req /\ seen' = seen /\ entries' = entries /\ snapshot' = View
    BY <1>1, SelectKeeps DEF Look
  <1>3. TypeOK' /\ CountersInv'
    BY <1>1, <1>2 DEF TypeOK, CountersInv
  <1>4. PathInv'
    BY <1>1, <1>2 DEF PathInv
  <1>5. SnapshotInv' /\ PoolInv'
    BY <1>1, <1>2 DEF SnapshotInv, ReadFrom, PoolInv, Exists
  <1> QED
    BY <1>2, <1>3, <1>4, <1>5, NotAnswered

\* Its tags (find_by_entry_id).
LEMMA FindTagsStep == ASSUME IInv, FindTags PROVE IInv'
  <1> USE DEF IInv
  <1>1. /\ pc = "tags" /\ req.kind = "tags" /\ snapshot # None /\ Exists(snapshot)
        /\ View \in Databases /\ View \in seen /\ View = snapshot /\ req \in Asked
        /\ told = "none" /\ tags' = View[req.entry].tags
        /\ UNCHANGED <<total, items, counters, told>>
    BY ViewIsSeen DEF FindTags, PathInv, SnapshotInv, ReadFrom, View
  <1>2. /\ pc' = "answer"
        /\ req' = req /\ seen' = seen /\ entries' = entries /\ snapshot' = snapshot
    BY <1>1, SelectKeeps DEF FindTags
  <1>3. tags' \in SUBSET (Nat \ {0})
    <2>1. View[req.entry] \in Rows
      BY <1>1, AskedFilter DEF Exists, Databases
    <2> QED
      BY <1>1, <2>1, RowFields
  <1>4. TypeOK' /\ CountersInv'
    BY <1>1, <1>2, <1>3 DEF TypeOK, CountersInv
  <1>5. PathInv'
    BY <1>1, <1>2 DEF PathInv
  <1>6. SnapshotInv' /\ PoolInv'
    BY <1>1, <1>2 DEF SnapshotInv, ReadFrom, PoolInv, Exists
  <1> QED
    BY <1>2, <1>4, <1>5, <1>6, NotAnswered

\* An answer that stays the same is as good as it was.
LEMMA SameItems ==
    ASSUME NEW d, NEW q, IsListing(d, q), items' = items
    PROVE  IsListing(d, q)'
  BY DEF IsListing

\* The answer of GET /api/entries.
LEMMA AnswerApi ==
    ASSUME IInv, Answer, req.kind = "api"
    PROVE  PageOfOneState'
  <1> USE DEF IInv
  <1>1. /\ pc = "answer" /\ req \in Asked /\ req' = req /\ seen' = seen
        /\ told' = IF Malformed(items) THEN "error"
                   ELSE IF req.filter.page > Pages(total, req.filter.perPage) THEN "not_found"
                   ELSE "shown"
        /\ items' = items /\ total' = total
    BY DEF Answer, PathInv
  <1>2. /\ snapshot \in seen /\ snapshot \in Databases
        /\ total = Cardinality(Wanted(snapshot, req.filter))
        /\ items \in Found(snapshot, req.filter)
    BY <1>1 DEF SnapshotInv, ReadFrom, PathInv, TypeOK
  <1>3. /\ req.filter \in Filters
        /\ req.filter.page # None /\ req.filter.perPage # None
    BY <1>1, AskedFilter
  <1>4. IsListing(snapshot, req.filter)
    BY <1>2, <1>3, FoundIsListing
  <1>5. Malformed(items)' <=> Malformed(items)
    BY <1>1 DEF Malformed
  <1>6. ASSUME Sane(req.filter), ~Malformed(items)
        PROVE  told' = "not_found" <=> Skipped(req.filter) >= total
    <2>1. req.filter.page \in Nat \ {0} /\ req.filter.perPage \in Nat \ {0}
      BY <1>3, <1>6 DEF Sane, Filters
    <2>2. total \in Nat
      BY <1>2, WantedType
    <2>3. req.filter.page > Pages(total, req.filter.perPage) <=>
              (req.filter.page - 1) * req.filter.perPage >= total
      BY <2>1, <2>2, BeyondLastPage
    <2> QED
      BY <1>1, <1>3, <1>6, <2>3 DEF Skipped
  <1>7. PICK d \in seen : d = snapshot
    BY <1>2
  <1>8. IsListing(d, req.filter)'
    <2>1. PICK q : q = req.filter
      OBVIOUS
    <2>2. IsListing(d, q)'
      BY <1>1, <1>4, <1>7, <2>1, SameItems
    <2> QED
      BY <1>1, <2>1, <2>2
  <1>9. told' = "error" <=> Malformed(items)
    BY <1>1
  <1> QED
    BY <1>1, <1>2, <1>5, <1>6, <1>7, <1>8, <1>9 DEF PageOfOneState

\* The answer of a page.
LEMMA AnswerPage ==
    ASSUME IInv, Answer, req.kind = "page"
    PROVE  CountersOfOneState'
  <1> USE DEF IInv
  <1>1. /\ pc = "answer" /\ req \in Asked /\ req' = req /\ seen' = seen
        /\ items' = items /\ counters' = counters /\ Len(counters) = 4
    BY DEF Answer, PathInv
  <1>2. /\ snapshot \in seen /\ snapshot \in Databases
        /\ items \in Found(snapshot, req.filter)
        /\ \A i \in DOMAIN counters : counters[i] =
              Cardinality(Wanted(snapshot, Categories(req.filter.user)[i]))
    BY <1>1 DEF SnapshotInv, ReadFrom, PathInv, TypeOK
  <1>3. DOMAIN counters = 1..4
    BY <1>1 DEF CountersInv
  <1>4. req.filter \in Filters /\ IsListing(snapshot, req.filter)
    BY <1>1, <1>2, AskedFilter, FoundIsListing
  <1>5. PICK d \in seen : d = snapshot
    BY <1>2
  <1>6. IsListing(d, req.filter)'
    <2>1. PICK q : q = req.filter
      OBVIOUS
    <2>2. IsListing(d, q)'
      BY <1>1, <1>4, <1>5, <2>1, SameItems
    <2> QED
      BY <1>1, <2>1, <2>2
  <1>7. ASSUME req.filter.search, NEW i \in DOMAIN items, NEW j \in DOMAIN items,
               i < j, items[j].row.text = "title"
        PROVE  items[i].row.text = "title"
    BY <1>1, <1>2, <1>4, <1>7, AskedFilter, TitlesFirst
  <1> QED
    BY <1>1, <1>2, <1>3, <1>5, <1>6, <1>7 DEF CountersOfOneState

\* The answer to a form.
LEMMA AnswerCards ==
    ASSUME IInv, Answer, req.kind = "cards"
    PROVE  CardsOfOneState'
  <1> USE DEF IInv
  <1>1. /\ pc = "answer" /\ req \in Asked /\ req' = req /\ seen' = seen /\ items' = items
    BY DEF Answer, PathInv
  <1>2. PICK d \in seen : items \in Found(d, req.filter)
    BY <1>1 DEF PoolInv
  <1>3. d \in Databases /\ IsListing(d, req.filter)
    BY <1>1, <1>2, AskedFilter, FoundIsListing DEF TypeOK
  <1>4. IsListing(d, req.filter)'
    <2>1. PICK q : q = req.filter
      OBVIOUS
    <2>2. IsListing(d, q)'
      BY <1>1, <1>3, <2>1, SameItems
    <2> QED
      BY <1>1, <2>1, <2>2
  <1> QED
    BY <1>1, <1>2, <1>4 DEF CardsOfOneState

\* The answer is what the transaction has read (entries, get_tags_by_entry, ...).
LEMMA AnswerStep == ASSUME IInv, Answer PROVE IInv'
  <1> USE DEF IInv
  <1>1. /\ pc = "answer" /\ pc' = "respond" /\ req \in Asked /\ snapshot' = None
        /\ UNCHANGED <<entries, req, total, items, counters, tags, seen>>
    BY DEF Answer, PathInv
  <1>2. told' \in {"shown", "not_found", "error"}
    BY DEF Answer, TypeOK
  <1>3. TypeOK' /\ CountersInv'
    BY <1>1, <1>2 DEF TypeOK, CountersInv
  <1>4. PathInv'
    BY <1>1 DEF PathInv
  <1>5. SnapshotInv' /\ PoolInv'
    BY <1>1 DEF SnapshotInv, PoolInv
  <1>6. PageOfOneState'
    BY <1>1, AnswerApi DEF PageOfOneState
  <1>7. CountersOfOneState'
    BY <1>1, AnswerPage DEF CountersOfOneState
  <1>8. CardsOfOneState'
    BY <1>1, AnswerCards DEF CardsOfOneState
  <1>9. TagsOfOneState'
    <2> SUFFICES ASSUME req.kind = "tags" PROVE TagsOfOneState'
      BY <1>1 DEF TagsOfOneState
    <2>1. snapshot \in seen /\ ReadFrom(snapshot)
      BY <1>1 DEF SnapshotInv, PathInv
    <2>2. told' = IF told = "not_found" THEN told ELSE "shown"
      BY DEF Answer
    <2> QED
      BY <1>1, <2>1, <2>2 DEF TagsOfOneState, ReadFrom, Exists
  <1>10. EachCounterWasTrue'
    <2> SUFFICES ASSUME req.kind = "categories" PROVE EachCounterWasTrue'
      BY <1>1 DEF EachCounterWasTrue
    <2>1. DOMAIN counters = 1..4
      BY <1>1 DEF PathInv, CountersInv
    <2> QED
      BY <1>1, <2>1 DEF PoolInv, EachCounterWasTrue
  <1> QED
    BY <1>3, <1>4, <1>5, <1>6, <1>7, <1>8, <1>9, <1>10 DEF AnswersOfOneState

\* A step that changes nothing.
LEMMA StutterStep == ASSUME IInv, UNCHANGED vars PROVE IInv'
  <1> USE DEF IInv, vars
  <1>1. TypeOK' /\ CountersInv' /\ PathInv' /\ PoolInv'
    BY DEF TypeOK, CountersInv, PathInv, PoolInv
  <1>2. SnapshotInv'
    BY DEF SnapshotInv, ReadFrom, Exists
  <1>3. ASSUME NEW d, IsListing(d, req.filter) PROVE IsListing(d, req.filter)'
    <2>1. PICK q : q = req.filter
      OBVIOUS
    <2>2. IsListing(d, q)'
      BY <1>3, <2>1, SameItems
    <2> QED
      BY <2>1, <2>2
  <1>4. PageOfOneState'
    BY <1>3 DEF AnswersOfOneState, PageOfOneState, Malformed
  <1>5. CountersOfOneState' /\ CardsOfOneState'
    BY <1>3 DEF AnswersOfOneState, CountersOfOneState, CardsOfOneState
  <1>6. TagsOfOneState' /\ EachCounterWasTrue'
    BY DEF AnswersOfOneState, TagsOfOneState, EachCounterWasTrue, Exists
  <1> QED
    BY <1>1, <1>2, <1>4, <1>5, <1>6 DEF AnswersOfOneState

\* Every step keeps the invariant.
LEMMA NextInv == IInv /\ [Next]_vars => IInv'
  <1> SUFFICES ASSUME IInv, [Next]_vars PROVE IInv'
    OBVIOUS
  <1>1. ASSUME NEW e \in EntryIds, NEW row \in Rows, Create(e, row) PROVE IInv'
    <2>1. [entries EXCEPT ![e] = row] \in Databases
      BY DEF IInv, TypeOK, Databases
    <2> QED
      BY <1>1, <2>1, CommitStep DEF Create
  <1>2. ASSUME NEW e \in EntryIds, NEW row \in Rows, Update(e, row) PROVE IInv'
    <2>1. [entries EXCEPT ![e] = row] \in Databases
      BY DEF IInv, TypeOK, Databases
    <2> QED
      BY <1>2, <2>1, CommitStep DEF Update
  <1>3. ASSUME NEW e \in EntryIds, Delete(e) PROVE IInv'
    <2>1. [entries EXCEPT ![e] = None] \in Databases
      BY DEF IInv, TypeOK, Databases
    <2> QED
      BY <1>3, <2>1, CommitStep DEF Delete
  <1> QED
    BY <1>1, <1>2, <1>3, StartStep, UnsupportedStep, CountStep, FindStep, LoadCounterStep,
       LookStep, FindTagsStep, AnswerStep, RespondStep, StutterStep DEF Next

\* The invariant always holds.
THEOREM ListingInv == Spec => []IInv
  BY InitInv, NextInv, PTL DEF Spec

\* The locals of the handlers have their types.
THEOREM TypeCorrect == Spec => []TypeOK
  <1>1. IInv => TypeOK
    BY DEF IInv
  <1> QED
    BY <1>1, ListingInv, PTL

\* Whatever is answered was true at one moment while the request ran: the page
\* and its 404, the counters beside it, the cards, the tags.
THEOREM AnswersOfOneStateAlways == Spec => []AnswersOfOneState
  <1>1. IInv => AnswersOfOneState
    BY DEF IInv
  <1> QED
    BY <1>1, ListingInv, PTL

\* Each of the four counters that are loaded alone was (partial_categories).
THEOREM EachCounterWasTrueAlways == Spec => []EachCounterWasTrue
  <1>1. IInv => EachCounterWasTrue
    BY DEF IInv
  <1> QED
    BY <1>1, ListingInv, PTL
=============================================================================
