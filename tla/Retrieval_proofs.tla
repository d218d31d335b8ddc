-------------------------- MODULE Retrieval_proofs --------------------------
(***************************************************************************)
(* Proofs about Assembly and Retrieval.  For any number of assemblers the  *)
(* state keeps its types, a context fits its budget, and nothing is passed *)
(* over where the model answers and a run loads the conversation.  With    *)
(* the worker as the only assembler the active summaries cover disjoint    *)
(* parts of the conversation and never less of it, and what a retrieval    *)
(* returns repeats nothing.                                                *)
(***************************************************************************)
EXTENDS Retrieval, SetLemmas

-----------------------------------------------------------------------------
(* Budgets and limits.                                                     *)
LEMMA PercentOfNat == \A tokens, pct \in Nat : Percent(tokens, pct) \in Nat
<1>1. \A tokens, pct \in Nat : tokens * pct \in Nat
  OBVIOUS
<1>2. \A n \in Nat : n \div 100 \in Nat
  OBVIOUS
<1>. QED  BY <1>1, <1>2 DEF Percent

LEMMA Budgets ==
    /\ MaxBudget \in Nat /\ Tier1Floor \in Nat
    /\ \A n \in Nat : Tier1Ceiling(n) \in Nat
<1>1. /\ {RawBudget, UtilPct, FloorPct, ChunkPct, Tier3Pct} \subseteq Nat
  BY TierAssumption
<1>2. MaxBudget \in Nat
  BY <1>1, PercentOfNat DEF MaxBudget
<1>3. Tier1Floor \in Nat
  BY <1>1, <1>2, PercentOfNat DEF Tier1Floor
<1>4. ASSUME NEW n \in Nat PROVE Tier1Ceiling(n) \in Nat
  <2>. DEFINE a == Percent(MaxBudget, UtilPct) - Percent(MaxBudget, ChunkPct * n)
                       - Percent(MaxBudget, Tier3Pct)
  <2>1. ChunkPct * n \in Nat
    BY <1>1
  <2>2. /\ Percent(MaxBudget, UtilPct) \in Nat /\ Percent(MaxBudget, ChunkPct * n) \in Nat
        /\ Percent(MaxBudget, Tier3Pct) \in Nat
    BY <1>1, <1>2, <2>1, PercentOfNat
  <2>3. a \in Int
    BY <2>2
  <2>. HIDE DEF a
  <2>4. Max({a, Tier1Floor}) \in Nat
    BY <1>3, <2>3, OfTwo
  <2>. QED  BY <2>4 DEF Tier1Ceiling, a
<1>. QED  BY <1>2, <1>3, <1>4

LEMMA Limits ==
    \A loaded \in BOOLEAN : LoadLimit(loaded) \in Nat \ {0} /\ LoadLimit(loaded) >= LoadLimit(TRUE)
<1>1. /\ {MinLoad, TokensPerMessage, LookbackFactor, MaxChunks} \subseteq Nat \ {0}
      /\ MaxLookback \in Nat
  BY TierAssumption
<1>2. \A n \in Nat : n \div TokensPerMessage \in Nat
  BY <1>1
<1>. DEFINE adaptive == Max({MinLoad, Tier1Ceiling(MaxChunks) \div TokensPerMessage})
            least == Min({MaxBudget * LookbackFactor, MaxLookback})
            lookback == least \div TokensPerMessage
<1>3. adaptive \in Nat \ {0}
  <2>. DEFINE n == Tier1Ceiling(MaxChunks) \div TokensPerMessage
  <2>1. n \in Nat
    BY <1>1, <1>2, Budgets
  <2>. HIDE DEF n
  <2>2. Max({MinLoad, n}) \in Nat \ {0}
    BY <1>1, <2>1, OfTwo
  <2>. QED  BY <2>2 DEF n
<1>4. least \in Nat
  <2>. DEFINE n == MaxBudget * LookbackFactor
  <2>1. n \in Nat
    BY <1>1, Budgets
  <2>. HIDE DEF n
  <2>2. Min({n, MaxLookback}) \in Nat
    BY <1>1, <2>1, OfTwo
  <2>. QED  BY <2>2 DEF n
<1>. HIDE DEF adaptive, least
<1>5. lookback \in Nat
  BY <1>2, <1>4
<1>. HIDE DEF lookback
<1>6. Max({adaptive, lookback}) \in Nat \ {0} /\ Max({adaptive, lookback}) >= adaptive
  <2>1. adaptive \in Int /\ lookback \in Int
    BY <1>3, <1>5
  <2>2. Max({adaptive, lookback}) \in {adaptive, lookback} /\ Max({adaptive, lookback}) >= adaptive
    BY <2>1, OfTwo
  <2>. QED  BY <1>3, <1>5, <2>2
<1>. QED  BY <1>3, <1>6 DEF LoadLimit, adaptive, lookback, least

-----------------------------------------------------------------------------
(* Tokens of a range of messages.                                          *)
LEMMA NoTokens == ASSUME NEW a \in Int, NEW b \in Int, a > b PROVE Tokens(a, b) = 0
<1>1. a..b = {}
  OBVIOUS
<1>. QED  BY <1>1, SumEmpty DEF Tokens

LEMMA SomeTokens ==
    ASSUME msgs \in Seq(Sizes), NEW a \in Nat \ {0}, NEW b \in Nat, b <= Len(msgs)
    PROVE  Tokens(a, b) \in Nat /\ (Tokens(a, b) <= 0 => b < a)
<1>1. IsFiniteSet(a..b)
  BY FS_Interval
<1>2. \A x \in a..b : msgs[x] \in Nat \ {0}
  <2>1. \A x \in a..b : x \in 1..Len(msgs)
    OBVIOUS
  <2>2. \A x \in 1..Len(msgs) : msgs[x] \in Sizes
    OBVIOUS
  <2>3. Sizes \subseteq Nat \ {0}
    BY AssemblyAssumption
  <2>. QED  BY <2>1, <2>2, <2>3
<1>3. Tokens(a, b) \in Nat /\ (a..b # {} => Tokens(a, b) > 0)
  BY <1>1, <1>2, SumPositive DEF Tokens
<1>4. b >= a => a \in a..b
  OBVIOUS
<1>5. b >= a => Tokens(a, b) > 0
  BY <1>3, <1>4
<1>6. b < a \/ b >= a
  OBVIOUS
<1>. QED  BY <1>3, <1>5, <1>6

(* A walk over the first messages of a range ends: nothing at all fits.    *)
LEMMA LongestThatFits ==
    ASSUME NEW a \in Nat, NEW b \in Nat, NEW top \in Nat, top >= a, top > b,
           NEW budget \in Nat
    PROVE  LET T == {s \in a..top : Tokens(s, b) <= budget} IN Min(T) \in T
<1>. DEFINE T == {s \in a..top : Tokens(s, b) <= budget}
<1>1. Tokens(top, b) = 0
  BY NoTokens
<1>2. top \in T
  BY <1>1
<1>3. T \subseteq Nat /\ T # {}
  BY <1>2
<1>. HIDE DEF T
<1>4. Min(T) \in T
  BY <1>3, LeastElement
<1>. QED  BY <1>4 DEF T

-----------------------------------------------------------------------------
(* What the active rows cover, of n messages.                              *)
HighestOf(rows) == Max({r.to : r \in Chunks(rows)} \cup {0})
Tier3(rows) == {r \in rows : r.tier = 3}

Covers(rows, n) ==
    /\ rows \subseteq Row /\ IsFiniteSet(rows)
    /\ \A r \in Chunks(rows) : 1 <= r.from /\ r.from <= r.to /\ r.to <= n
    /\ \A r, q \in Chunks(rows) : r # q => r.to < q.from \/ q.to < r.from
    /\ \A r, q \in Tier3(rows) \ {Header} : r = q
    /\ \A r \in Tier3(rows) \ {Header}, q \in Chunks(rows) : r.to < q.from
    /\ \A r \in Tier3(rows) : \E q \in Chunks(rows) : r.to <= q.to

\* The chunks that are still to be inserted lie in order behind the boundary h.
Ahead(cs, h, n) ==
    /\ \A i \in 1..Len(cs) : h < cs[i].from /\ cs[i].from <= cs[i].to /\ cs[i].to <= n
    /\ \A i, j \in 1..Len(cs) : i < j => cs[i].to < cs[j].from

\* The rows to be consolidated: some of them, not all, and the oldest.
Oldest(old, rows) ==
    /\ old \subseteq Chunks(rows) /\ old # {} /\ Chunks(rows) \ old # {}
    /\ \A r \in old, s \in Chunks(rows) \ old : r.to < s.from

LEMMA HighestIs ==
    ASSUME NEW rows, rows \subseteq Row, NEW n \in Nat,
           \A r \in Chunks(rows) : r.to <= n
    PROVE  /\ HighestOf(rows) \in 0..n
           /\ \A r \in Chunks(rows) : r.to <= HighestOf(rows)
           /\ HighestOf(rows) = 0 \/ \E r \in Chunks(rows) : r.to = HighestOf(rows)
<1>. DEFINE T == {r.to : r \in Chunks(rows)} \cup {0}
<1>1. T \subseteq 0..n /\ T # {}
  BY DEF Chunks, Row
<1>2. Max(T) \in T /\ \A y \in T : Max(T) >= y
  <2>. HIDE DEF T
  <2>. QED  BY <1>1, GreatestElement
<1>. QED  BY <1>1, <1>2 DEF HighestOf

LEMMA HighestFacts ==
    ASSUME NEW n \in Nat, NEW rows, Covers(rows, n)
    PROVE  /\ HighestOf(rows) \in 0..n
           /\ \A r \in rows : r.to <= HighestOf(rows)
           /\ HighestOf(rows) = 0 \/ \E r \in Chunks(rows) : r.to = HighestOf(rows)
<1>1. rows \subseteq Row /\ \A r \in Chunks(rows) : r.to <= n
  BY DEF Covers
<1>2. /\ HighestOf(rows) \in 0..n
      /\ \A r \in Chunks(rows) : r.to <= HighestOf(rows)
      /\ HighestOf(rows) = 0 \/ \E r \in Chunks(rows) : r.to = HighestOf(rows)
  BY <1>1, HighestIs
<1>3. ASSUME NEW r \in rows PROVE r.to <= HighestOf(rows)
  <2>1. r \in Chunks(rows) \/ r \in Tier3(rows)
    BY <1>1 DEF Chunks, Tier3, Row
  <2>2. CASE r \in Tier3(rows)
    <3>1. PICK q \in Chunks(rows) : r.to <= q.to
      BY <2>2 DEF Covers
    <3>2. q.to <= HighestOf(rows) /\ q.to \in Nat /\ r.to \in Nat
      BY <1>1, <1>2 DEF Chunks, Row
    <3>. QED  BY <1>2, <3>1, <3>2
  <2>. QED  BY <1>2, <2>1, <2>2
<1>. QED  BY <1>2, <1>3

LEMMA CoversMore ==
    ASSUME NEW n \in Nat, NEW m \in Nat, n <= m, NEW rows, Covers(rows, n)
    PROVE  Covers(rows, m)
<1>1. \A r \in Chunks(rows) : r.to \in Nat /\ r.to <= m
  BY DEF Covers, Chunks, Row
<1>. QED  BY <1>1 DEF Covers

LEMMA CoversNothing == ASSUME NEW n \in Nat PROVE Covers({}, n) /\ HighestOf({}) = 0
<1>1. Covers({}, n)
  BY FS_EmptySet DEF Covers, Chunks, Tier3
<1>2. HighestOf({}) = 0 \/ \E r \in Chunks({}) : r.to = HighestOf({})
  BY <1>1, HighestFacts
<1>. QED  BY <1>1, <1>2 DEF Chunks

(* A chunk behind the boundary becomes the last one.                       *)
LEMMA AddChunk ==
    ASSUME NEW n \in Nat, NEW rows, Covers(rows, n), NEW f \in Nat, NEW t \in Nat,
           HighestOf(rows) < f, f <= t, t <= n
    PROVE  /\ Covers(rows \cup {Row2(f, t)}, n)
           /\ HighestOf(rows \cup {Row2(f, t)}) = t
<1>. DEFINE row == Row2(f, t)
            new == rows \cup {row}
<1>1. /\ row \in Row /\ row.tier = 2 /\ row.from = f /\ row.to = t
  BY DEF Row2, Row
<1>2. rows \subseteq Row /\ IsFiniteSet(rows)
  BY DEF Covers
<1>3. /\ HighestOf(rows) \in Nat
      /\ \A r \in rows : r.from \in Nat /\ r.to \in Nat /\ r.to <= HighestOf(rows)
  BY <1>2, HighestFacts DEF Row
<1>. HIDE DEF row
<1>4. Chunks(new) = Chunks(rows) \cup {row} /\ Tier3(new) = Tier3(rows)
  BY <1>1 DEF Chunks, Tier3
<1>5. new \subseteq Row /\ IsFiniteSet(new)
  BY <1>1, <1>2, FS_AddElement
<1>. HIDE DEF new
<1>6. \A r \in rows : r.to < row.from /\ r.to < row.to
  BY <1>1, <1>3
<1>7. \A r \in Chunks(new) : 1 <= r.from /\ r.from <= r.to /\ r.to <= n
  BY <1>1, <1>3, <1>4 DEF Covers
<1>8. \A r, q \in Chunks(new) : r # q => r.to < q.from \/ q.to < r.from
  BY <1>4, <1>6 DEF Covers, Chunks
<1>9. \A r \in Tier3(new) \ {Header}, q \in Chunks(new) : r.to < q.from
  BY <1>4, <1>6 DEF Covers, Tier3
<1>10. \A r \in Tier3(new) : \E q \in Chunks(new) : r.to <= q.to
  BY <1>4 DEF Covers
<1>11. Covers(new, n)
  BY <1>4, <1>5, <1>7, <1>8, <1>9, <1>10 DEF Covers
<1>12. HighestOf(new) = t
  <2>1. /\ HighestOf(new) \in 0..n /\ \A r \in new : r.to <= HighestOf(new)
        /\ HighestOf(new) = 0 \/ \E r \in Chunks(new) : r.to = HighestOf(new)
    BY <1>11, HighestFacts
  <2>2. row \in new /\ row.to <= HighestOf(new)
    BY <2>1 DEF new
  <2>3. \A r \in Chunks(new) : r.to <= t
    BY <1>1, <1>3, <1>4, <1>6 DEF Chunks
  <2>. QED  BY <1>1, <2>1, <2>2, <2>3
<1>. QED  BY <1>11, <1>12 DEF new, row

(* An archival row takes the place of the oldest chunks and of what was    *)
(* archived before; the boundary stays.                                    *)
LEMMA TakeOldest ==
    ASSUME NEW n \in Nat, NEW rows, Covers(rows, n), NEW old, Oldest(old, rows),
           NEW row \in ArchivalRows(old)
    PROVE  LET new == (rows \ (Tier3(rows) \cup old)) \cup {Header, row}
           IN  Covers(new, n) /\ HighestOf(new) = HighestOf(rows)
<1>. DEFINE new == (rows \ (Tier3(rows) \cup old)) \cup {Header, row}
            kept == Chunks(rows) \ old
<1>1. rows \subseteq Row /\ IsFiniteSet(rows) /\ old \subseteq Chunks(rows)
  BY DEF Covers, Oldest
<1>2. PICK r \in old, s \in old : row = Row3(r.from, s.to)
  BY DEF ArchivalRows
<1>3. /\ r \in Row /\ s \in Row /\ row.tier = 3 /\ row.to = s.to /\ row \in Row
      /\ Header \in Row /\ Header.tier = 3 /\ Header.to = 0
  BY <1>1, <1>2 DEF Chunks, Row, Row3, Header
<1>4. Chunks(new) = kept /\ Tier3(new) = {Header, row}
  BY <1>1, <1>3 DEF Chunks, Tier3, Row
<1>5. new \subseteq Row /\ IsFiniteSet(new)
  <2>1. IsFiniteSet(rows \ (Tier3(rows) \cup old))
    BY <1>1, FS_Difference
  <2>2. IsFiniteSet((rows \ (Tier3(rows) \cup old)) \cup {Header})
    BY <2>1, FS_AddElement
  <2>3. new = ((rows \ (Tier3(rows) \cup old)) \cup {Header}) \cup {row}
    OBVIOUS
  <2>4. IsFiniteSet(new)
    <3>. HIDE DEF new
    <3>. QED  BY <2>2, <2>3, FS_AddElement
  <2>. QED  BY <1>1, <1>3, <2>4
<1>6. kept # {} /\ kept \subseteq Chunks(rows) /\ kept \subseteq Row
  BY <1>1 DEF Oldest, Chunks
<1>. HIDE DEF new, kept
<1>7. \A q \in kept : s.to < q.from /\ q.from <= q.to /\ q.to \in Nat /\ q.from \in Nat
  BY <1>1, <1>2, <1>6 DEF Oldest, Covers, kept, Row
<1>8. \A q \in kept : row.to < q.from /\ row.to <= q.to /\ Header.to <= q.to
  BY <1>3, <1>7 DEF Row
<1>9. Covers(new, n)
  <2>1. \A q \in Chunks(new) : 1 <= q.from /\ q.from <= q.to /\ q.to <= n
    BY <1>4, <1>6 DEF Covers
  <2>2. \A p, q \in Chunks(new) : p # q => p.to < q.from \/ q.to < p.from
    BY <1>4, <1>6 DEF Covers
  <2>3. \A p, q \in Tier3(new) \ {Header} : p = q
    BY <1>4
  <2>4. \A p \in Tier3(new) \ {Header}, q \in Chunks(new) : p.to < q.from
    BY <1>4, <1>8
  <2>5. \A p \in Tier3(new) : \E q \in Chunks(new) : p.to <= q.to
    BY <1>4, <1>6, <1>8
  <2>. QED  BY <1>5, <2>1, <2>2, <2>3, <2>4, <2>5 DEF Covers
<1>10. HighestOf(new) = HighestOf(rows)
  <2>1. /\ HighestOf(new) \in Nat /\ \A q \in kept : q.to <= HighestOf(new)
        /\ HighestOf(new) = 0 \/ \E q \in kept : q.to = HighestOf(new)
    BY <1>4, <1>9, HighestFacts DEF Chunks
  <2>2. /\ HighestOf(rows) \in Nat /\ \A q \in Chunks(rows) : q.to <= HighestOf(rows)
        /\ HighestOf(rows) = 0 \/ \E q \in Chunks(rows) : q.to = HighestOf(rows)
    BY HighestFacts DEF Chunks
  <2>3. HighestOf(new) <= HighestOf(rows)
    BY <1>6, <2>1, <2>2
  <2>4. ASSUME NEW q \in Chunks(rows) PROVE q.to <= HighestOf(new)
    <3>1. CASE q \in kept
      BY <2>1, <3>1
    <3>2. CASE q \in old
      <4>1. PICK k \in kept : TRUE
        BY <1>6
      <4>2. q.to < k.from /\ k.from <= k.to
        BY <1>7, <3>2, <4>1 DEF Oldest, kept
      <4>3. q.to \in Nat /\ k.to \in Nat /\ k.from \in Nat /\ k.to <= HighestOf(new)
        BY <1>1, <1>7, <2>1 DEF Chunks, Row
      <4>. QED  BY <2>1, <4>2, <4>3
    <3>. QED  BY <3>1, <3>2 DEF kept
  <2>. QED  BY <2>1, <2>2, <2>3, <2>4
<1>. QED  BY <1>9, <1>10 DEF new

(* All but the newest MinChunks - 1 chunks: some, and not all of them.     *)
LEMMA OldestChosen ==
    ASSUME NEW n \in Nat, NEW rows, Covers(rows, n), MinChunks > 1,
           ~(Cardinality(Chunks(rows)) <= MinChunks),
           NEW old \in OldestOf(Chunks(rows), MinChunks - 1)
    PROVE  Oldest(old, rows)
<1>. DEFINE all == Chunks(rows)
<1>1. MinChunks \in Nat
  BY TierAssumption
<1>2. IsFiniteSet(all) /\ Cardinality(all) \in Nat
  BY FS_Subset, FS_CardinalityType DEF Covers, Chunks
<1>3. /\ old \in SUBSET all /\ Cardinality(old) = Cardinality(all) - (MinChunks - 1)
      /\ \A r \in old, s \in all \ old : r.from <= s.from
  BY DEF OldestOf
<1>4. IsFiniteSet(old) /\ Cardinality(old) \in Nat
  BY <1>2, <1>3, FS_Subset, FS_CardinalityType
<1>5. Cardinality(old) # 0 /\ Cardinality(old) # Cardinality(all)
  BY <1>1, <1>2, <1>3, <1>4
<1>6. old # {} /\ all \ old # {}
  BY <1>3, <1>5, FS_EmptySet
<1>7. ASSUME NEW r \in old, NEW s \in all \ old PROVE r.to < s.from
  <2>1. /\ r # s /\ r \in all /\ s \in all /\ r \in Row /\ s \in Row
    BY <1>3 DEF Covers, Chunks
  <2>2. (r.to < s.from \/ s.to < r.from) /\ s.from <= s.to /\ r.from <= s.from
    BY <1>3, <2>1 DEF Covers
  <2>3. {r.from, r.to, s.from, s.to} \subseteq Nat
    BY <2>1 DEF Row
  <2>. QED  BY <2>2, <2>3
<1>. QED  BY <1>3, <1>6, <1>7 DEF Oldest

(* The groups that first..last falls into.                                 *)
LEMMA Groups ==
    ASSUME NEW c \in Nat \ {0}, NEW d \in Nat
    PROVE  LET k == (d + c) \div c
           IN  /\ k \in Nat /\ k >= 1
               /\ \A i \in 1..k : (i - 1) * c \in Nat /\ (i - 1) * c <= d /\ i * c = (i - 1) * c + c
               /\ \A i, j \in 1..k : i < j => i * c <= (j - 1) * c
<1>. DEFINE k == (d + c) \div c
<1>1. k \in Nat /\ k >= 1 /\ k * c <= d + c
  OBVIOUS
<1>. HIDE DEF k
<1>2. ASSUME NEW i \in 1..k
      PROVE  (i - 1) * c \in Nat /\ (i - 1) * c <= d /\ i * c = (i - 1) * c + c
  <2>1. i * c = (i - 1) * c + c
    OBVIOUS
  <2>2. i * c <= k * c
    BY <1>1
  <2>3. (i - 1) * c \in Nat
    OBVIOUS
  <2>. QED  BY <1>1, <2>1, <2>2, <2>3
<1>3. ASSUME NEW i \in 1..k, NEW j \in 1..k, i < j PROVE i * c <= (j - 1) * c
  <2>1. i <= j - 1 /\ i \in Nat /\ j - 1 \in Nat
    BY <1>3
  <2>. QED  BY <2>1
<1>. QED  BY <1>1, <1>2, <1>3 DEF k

LEMMA ChunksAhead ==
    ASSUME NEW n \in Nat, NEW h \in Nat, NEW first \in Nat, NEW last \in Nat,
           h < first, first <= last, last <= n
    PROVE  LET cs == ChunksOf(first, last)
           IN  cs \in Seq(Chunk) /\ cs # <<>> /\ Ahead(cs, h, n)
<1>. DEFINE k == (last - first + ChunkSize) \div ChunkSize
            end(i) == Min({first + i * ChunkSize - 1, last})
            cs == ChunksOf(first, last)
<1>1. ChunkSize \in Nat \ {0} /\ last - first \in Nat
  BY AssemblyAssumption
<1>2. /\ k \in Nat /\ k >= 1
      /\ \A i \in 1..k : /\ (i - 1) * ChunkSize \in Nat /\ (i - 1) * ChunkSize <= last - first
                         /\ i * ChunkSize = (i - 1) * ChunkSize + ChunkSize
      /\ \A i, j \in 1..k : i < j => i * ChunkSize <= (j - 1) * ChunkSize
  BY <1>1, Groups
<1>3. cs = [i \in 1..k |-> [from |-> first + (i - 1) * ChunkSize, to |-> end(i), ok |-> TRUE]]
  BY DEF ChunksOf
<1>. HIDE DEF k, cs
<1>4. ASSUME NEW i \in 1..k
      PROVE  /\ cs[i].from = first + (i - 1) * ChunkSize /\ cs[i].to = end(i) /\ cs[i] \in Chunk
             /\ h < cs[i].from /\ cs[i].from <= cs[i].to /\ cs[i].to <= n
             /\ cs[i].to < first + i * ChunkSize
  <2>. DEFINE a == (i - 1) * ChunkSize
              b == first + i * ChunkSize - 1
  <2>1. a \in Nat /\ a <= last - first /\ b = first + a + ChunkSize - 1
    BY <1>1, <1>2
  <2>2. cs[i] = [from |-> first + a, to |-> Min({b, last}), ok |-> TRUE]
    BY <1>3
  <2>3. b + 1 = first + i * ChunkSize
    BY <1>1, <1>2
  <2>. HIDE DEF a, b
  <2>4. b \in Nat /\ first + a <= b
    BY <1>1, <2>1
  <2>5. /\ Min({b, last}) \in {b, last} /\ Min({b, last}) <= b /\ Min({b, last}) <= last
    BY <2>4, OfTwo
  <2>6. Min({b, last}) \in Nat /\ first + a <= Min({b, last})
    BY <2>1, <2>4, <2>5
  <2>7. cs[i] \in Chunk
    BY <2>1, <2>2, <2>6 DEF Chunk
  <2>8. cs[i].from = first + a /\ cs[i].to = Min({b, last})
    BY <2>2
  <2>9. h < cs[i].from /\ cs[i].from <= cs[i].to /\ cs[i].to <= n
    BY <2>1, <2>5, <2>6, <2>8
  <2>10. cs[i].to < b + 1
    BY <2>4, <2>5, <2>6, <2>8
  <2>. QED  BY <2>3, <2>7, <2>8, <2>9, <2>10 DEF a, b
<1>5. cs \in Seq(Chunk) /\ Len(cs) = k
  <2>1. cs = [i \in 1..k |-> cs[i]] /\ \A i \in 1..k : cs[i] \in Chunk
    BY <1>3, <1>4
  <2>2. cs \in [1..k -> Chunk]
    BY <2>1
  <2>. QED  BY <1>2, <2>2
<1>6. ASSUME NEW i \in 1..k, NEW j \in 1..k, i < j PROVE cs[i].to < cs[j].from
  <2>. DEFINE x == i * ChunkSize
              y == (j - 1) * ChunkSize
  <2>1. x <= y /\ y \in Nat
    BY <1>2, <1>6
  <2>2. x \in Nat
    BY <1>1
  <2>3. cs[i].to < first + x /\ cs[j].from = first + y /\ cs[i].to \in Nat
    BY <1>4 DEF Chunk
  <2>. HIDE DEF x, y
  <2>. QED  BY <2>1, <2>2, <2>3
<1>7. cs # <<>>
  BY <1>2, <1>5
<1>8. Ahead(cs, h, n)
  BY <1>4, <1>5, <1>6 DEF Ahead
<1>. QED  BY <1>5, <1>7, <1>8 DEF cs

(* When the first chunk is done with, the others lie ahead of it.          *)
LEMMA TailAhead ==
    ASSUME NEW n \in Nat, NEW h \in Nat, NEW cs \in Seq(Chunk), cs # <<>>, Ahead(cs, h, n)
    PROVE  /\ Head(cs) \in Chunk /\ Tail(cs) \in Seq(Chunk)
           /\ h < Head(cs).from /\ Head(cs).from <= Head(cs).to /\ Head(cs).to <= n
           /\ Ahead(Tail(cs), h, n) /\ Ahead(Tail(cs), Head(cs).to, n)
<1>1. Head(cs) = cs[1] /\ 1 \in 1..Len(cs) /\ cs[1] \in Chunk /\ Tail(cs) \in Seq(Chunk)
  OBVIOUS
<1>2. Len(Tail(cs)) = Len(cs) - 1 /\ \A i \in 1..Len(Tail(cs)) : Tail(cs)[i] = cs[i + 1]
  OBVIOUS
<1>3. \A i \in 1..Len(Tail(cs)) : i + 1 \in 1..Len(cs) /\ 1 < i + 1
  BY <1>2
<1>4. \A i, j \in 1..Len(Tail(cs)) : i < j => i + 1 < j + 1
  OBVIOUS
<1>. DEFINE t == Tail(cs)
<1>5. \A i, j \in 1..Len(t) : i < j => t[i].to < t[j].from
  BY <1>2, <1>3, <1>4 DEF Ahead
<1>6. \A i \in 1..Len(t) : /\ h < t[i].from /\ t[i].from <= t[i].to /\ t[i].to <= n
                            /\ cs[1].to < t[i].from
  BY <1>1, <1>2, <1>3 DEF Ahead
<1>. HIDE DEF t
<1>7. Ahead(t, h, n) /\ Ahead(t, cs[1].to, n)
  BY <1>5, <1>6 DEF Ahead
<1>. QED  BY <1>1, <1>7 DEF Ahead, t

LEMMA AheadMore ==
    ASSUME NEW n \in Nat, NEW h \in Nat, NEW m \in Nat, NEW k \in Nat, k <= h, n <= m,
           NEW cs \in Seq(Chunk), Ahead(cs, h, n)
    PROVE  Ahead(cs, k, m)
<1>1. \A i \in 1..Len(cs) : cs[i] \in Chunk
  OBVIOUS
<1>2. \A i \in 1..Len(cs) : cs[i].from \in Nat /\ cs[i].to \in Nat
  BY <1>1 DEF Chunk
<1>. QED  BY <1>2 DEF Ahead

-----------------------------------------------------------------------------
(* Types, for any number of assemblers.                                    *)

\* What the flow state must be at the nodes that take it apart.
Ready(node, r) ==
    /\ node \in {"count_tier2", "plan"} => r.lo \in 1..r.hi
    /\ node \in {"summarize", "insert"} => r.chunks # <<>>

Typed ==
    /\ window \in {"absent", "live", "deleted"}
    /\ msgs \in Seq(Sizes)
    /\ summaries \subseteq Row /\ IsFiniteSet(summaries) /\ active \subseteq summaries
    /\ lastAssembled \in 0..Len(msgs)
    /\ pc \in [Assemblers -> Nodes]
    /\ run \in [Assemblers -> Run]
    /\ \A p \in Assemblers : Ready(pc[p], run[p])

\* No message changes; one may be appended.
Appends == msgs' = msgs \/ \E size \in Sizes : msgs' = Append(msgs, size)

LockPasses == lock' \in Assemblers \cup {NoOne, lock}

LEMMA BoundaryIs == HighestSummarized = HighestOf(active)
BY DEF HighestSummarized, HighestOf, ActiveTier, Chunks

LEMMA NothingRun == NoRun \in Run
BY DEF NoRun, Run

(* The walk back from the newest message ends in what was loaded.          *)
LEMMA Tier1Within ==
    ASSUME NEW r \in Run, r.lo <= r.hi
    PROVE  Tier1Start(r) \in r.lo..(r.hi + 1)
<1>. DEFINE a == r.lo
            b == r.hi
            top == r.hi + 1
            budget == Tier1Ceiling(r.tier2)
            T == {s \in a..top : Tokens(s, b) <= budget}
<1>1. budget \in Nat
  <2>1. r.tier2 \in Nat
    BY DEF Run
  <2>. QED  BY <2>1, Budgets
<1>2. a \in Nat /\ b \in Nat /\ top \in Nat /\ top >= a /\ top > b
  BY DEF Run
<1>3. Min(T) \in T
  <2>. HIDE DEF a, b, top, budget
  <2>. QED  BY <1>1, <1>2, LongestThatFits
<1>4. Tier1Start(r) = Min(T)
  BY DEF Tier1Start
<1>. QED  BY <1>3, <1>4

LEMMA TypesOf ==
    ASSUME Typed, NEW p \in Assemblers
    PROVE  /\ pc[p] \in Nodes /\ run[p] \in Run /\ run = [run EXCEPT ![p] = run[p]]
           /\ Len(msgs) \in Nat /\ Ready(pc[p], run[p])
BY DEF Typed

(* A boundary is a number, also among rows of which nothing else is known. *)
LEMMA BoundaryNat ==
    ASSUME NEW rows, rows \subseteq Row, IsFiniteSet(rows)
    PROVE  HighestOf(rows) \in Nat
<1>. DEFINE f == [r \in Chunks(rows) |-> r.to]
            S == Chunks(rows)
            n == SumFunctionOnSet(f, S)
<1>1. S \subseteq rows /\ IsFiniteSet(S) /\ \A r \in S : f[r] \in Nat /\ f[r] = r.to
  BY FS_Subset DEF Chunks, Row
<1>. HIDE DEF f, S
<1>2. n \in Nat
  BY <1>1, SumNat
<1>3. ASSUME NEW r \in S PROVE r.to <= n
  <2>1. \A q \in S \ {r} : f[q] = f[q]
    OBVIOUS
  <2>2. /\ SumFunctionOnSet(f, S \ {r}) \in Nat
        /\ n = f[r] + SumFunctionOnSet(f, S \ {r})
    BY <1>1, <2>1, SumOneOut
  <2>. QED  BY <1>1, <2>2
<1>. HIDE DEF n
<1>4. \A r \in Chunks(rows) : r.to <= n
  BY <1>3 DEF S
<1>. QED  BY <1>2, <1>4, HighestIs

(* One assembler goes on with a flow state that fits the node.             *)
LEMMA OneIsReady ==
    ASSUME Typed, NEW p \in Assemblers, NEW node \in Nodes, NEW r \in Run, Ready(node, r),
           pc' = [pc EXCEPT ![p] = node], run' = [run EXCEPT ![p] = r]
    PROVE  /\ pc' \in [Assemblers -> Nodes] /\ run' \in [Assemblers -> Run]
           /\ \A q \in Assemblers : Ready(pc'[q], run'[q])
<1>1. pc \in [Assemblers -> Nodes] /\ run \in [Assemblers -> Run]
  BY DEF Typed
<1>2. ASSUME NEW q \in Assemblers PROVE Ready(pc'[q], run'[q])
  <2>1. CASE q = p
    BY <1>1, <2>1
  <2>2. CASE q # p
    BY <1>1, <2>2 DEF Typed
  <2>. QED  BY <2>1, <2>2
<1>. QED  BY <1>1, <1>2

LEMMA OneIsTyped ==
    ASSUME Typed, NEW p \in Assemblers, NEW node \in Nodes, NEW r \in Run, Ready(node, r),
           pc' = [pc EXCEPT ![p] = node], run' = [run EXCEPT ![p] = r],
           UNCHANGED <<window, msgs, summaries, active, lastAssembled>>
    PROVE  Typed' /\ Appends
<1>1. /\ pc' \in [Assemblers -> Nodes] /\ run' \in [Assemblers -> Run]
      /\ \A q \in Assemblers : Ready(pc'[q], run'[q])
  BY OneIsReady
<1>. QED  BY <1>1 DEF Typed, Appends

(* Steps between nodes that take nothing apart.                            *)
LEMMA MovesTyped ==
    ASSUME Typed, NEW p \in Assemblers,
           \/ p = Worker /\ Poll
           \/ CreateWindow(p) \/ AcquireLock(p) \/ CheckInConnection(p) \/ LoadWindowConfig(p)
           \/ CountSummaries(p) \/ SnapshotTier2(p) \/ Consolidate(p)
           \/ Finalize(p) \/ Release(p) \/ Escape(p)
           \/ ChunkPromptMissing(p) \/ ConsolidateFails(p)
    PROVE  Typed' /\ Appends /\ LockPasses
<1>. DEFINE Moving == Nodes \ {"count_tier2", "plan", "summarize", "insert"}
<1>1. /\ run \in [Assemblers -> Run] /\ run[p] \in Run /\ run = [run EXCEPT ![p] = run[p]]
      /\ Len(msgs) \in Nat
  BY TypesOf DEF Typed
<1>2. \E node \in Moving : pc' = [pc EXCEPT ![p] = node]
  BY DEF Poll, CreateWindow, AcquireLock, CheckInConnection, LoadWindowConfig,
     CountSummaries, SnapshotTier2, Consolidate, Finalize, Release, Escape,
     ChunkPromptMissing, ConsolidateFails, Goto, Nodes
<1>3. UNCHANGED <<msgs, summaries, active>> /\ LockPasses
  BY DEF Poll, CreateWindow, AcquireLock, CheckInConnection, LoadWindowConfig,
     CountSummaries, SnapshotTier2, Consolidate, Finalize, Release, Escape,
     ChunkPromptMissing, ConsolidateFails, LockPasses
<1>4. window' \in {"live", window} /\ lastAssembled' \in {lastAssembled, Len(msgs)}
  BY DEF Poll, CreateWindow, AcquireLock, CheckInConnection, LoadWindowConfig,
     CountSummaries, SnapshotTier2, Consolidate, Finalize, Release, Escape,
     ChunkPromptMissing, ConsolidateFails
<1>5. \E r \in Run : run' = [run EXCEPT ![p] = r]
  <2>1. CASE run' = run
    BY <1>1, <2>1
  <2>2. CASE CountSummaries(p)
    <3>1. [run[p] EXCEPT !.first = (summaries = {})] \in Run
      BY <1>1 DEF Run
    <3>. QED  BY <1>1, <2>2, <3>1 DEF CountSummaries
  <2>3. CASE SnapshotTier2(p) /\ run' # run
    <3>1. PICK old \in SUBSET ActiveTier(2) : run' = [run EXCEPT ![p].oldest = old]
      BY <2>3 DEF SnapshotTier2, OldestOf
    <3>2. old \subseteq Row
      BY DEF Typed, ActiveTier
    <3>3. [run[p] EXCEPT !.oldest = old] \in Run
      BY <1>1, <3>2 DEF Run
    <3>. QED  BY <1>1, <3>1, <3>3
  <2>4. CASE run' = [run EXCEPT ![p] = NoRun]
    BY <2>4, NothingRun
  <2>5. CASE ConsolidateFails(p)
    <3>1. PICK failed \in BOOLEAN : run' = [run EXCEPT ![p].hadErrors = @ \/ failed]
      BY <2>5 DEF ConsolidateFails
    <3>2. [run[p] EXCEPT !.hadErrors = @ \/ failed] \in Run
      BY <1>1 DEF Run
    <3>. QED  BY <1>1, <3>1, <3>2
  <2>. QED  BY <2>1, <2>2, <2>3, <2>4, <2>5 DEF Poll, CreateWindow, AcquireLock,
            CheckInConnection, LoadWindowConfig, Consolidate, Finalize, Release, Escape,
            ChunkPromptMissing
<1>6. PICK node \in Moving, r \in Run :
          pc' = [pc EXCEPT ![p] = node] /\ run' = [run EXCEPT ![p] = r]
  BY <1>2, <1>5
<1>7. Ready(node, r)
  BY <1>6 DEF Ready
<1>8. /\ pc' \in [Assemblers -> Nodes] /\ run' \in [Assemblers -> Run]
      /\ \A q \in Assemblers : Ready(pc'[q], run'[q])
  BY <1>6, <1>7, OneIsReady
<1>. QED  BY <1>1, <1>3, <1>4, <1>8 DEF Typed, Appends

LEMMA LoadsTyped ==
    ASSUME Typed, NEW p \in Assemblers, LoadMessages(p) \/ CountTier2(p)
    PROVE  Typed' /\ Appends /\ LockPasses
<1>1. /\ run \in [Assemblers -> Run] /\ run[p] \in Run /\ Len(msgs) \in Nat
      /\ Ready(pc[p], run[p])
      /\ UNCHANGED <<window, msgs, summaries, active, lastAssembled>> /\ LockPasses
  BY TypesOf DEF Typed, LoadMessages, CountTier2, LockPasses
<1>2. CASE LoadMessages(p)
  <2>. DEFINE stored == IF window = "deleted" THEN 0 ELSE Len(msgs)
              limit == LoadLimit(~run[p].first)
              start == stored - limit + 1
              lo == Max({1, start})
              r == [run[p] EXCEPT !.lo = lo, !.hi = stored]
              node == IF stored = 0 THEN "finalize" ELSE "count_tier2"
  <2>1. stored \in Nat
    BY <1>1
  <2>2. limit \in Nat \ {0}
    <3>1. run[p].first \in BOOLEAN
      BY <1>1 DEF Run
    <3>2. \A b \in BOOLEAN : LoadLimit(~b) \in Nat \ {0}
      BY Limits
    <3>. QED  BY <3>1, <3>2
  <2>3. run' = [run EXCEPT ![p] = r] /\ pc' = [pc EXCEPT ![p] = node]
    BY <1>1, <1>2 DEF LoadMessages, Goto
  <2>. HIDE DEF stored, limit
  <2>4. lo \in Nat /\ lo >= 1 /\ (stored # 0 => lo <= stored)
    <3>1. 1 \in Int /\ start \in Int /\ start <= stored
      BY <2>1, <2>2
    <3>. HIDE DEF start
    <3>2. Max({1, start}) \in {1, start} /\ Max({1, start}) >= 1
      BY <3>1, OfTwo
    <3>. QED  BY <2>1, <3>1, <3>2
  <2>. HIDE DEF lo
  <2>5. r \in Run /\ r.lo = lo /\ r.hi = stored
    BY <1>1, <2>1, <2>4 DEF Run
  <2>. HIDE DEF r
  <2>6. Ready(node, r) /\ node \in Nodes
    BY <2>1, <2>4, <2>5 DEF Ready, Nodes
  <2>. QED  BY <1>1, <2>3, <2>5, <2>6, OneIsTyped
<1>3. CASE CountTier2(p)
  <2>. DEFINE k == Cardinality(ActiveTier(2))
              r == [run[p] EXCEPT !.tier2 = k]
  <2>1. run' = [run EXCEPT ![p] = r] /\ pc' = [pc EXCEPT ![p] = "plan"]
        /\ pc[p] = "count_tier2"
    BY <1>1, <1>3 DEF CountTier2, Goto
  <2>2. k \in Nat
    <3>1. IsFiniteSet(ActiveTier(2))
      BY FS_Subset DEF Typed, ActiveTier
    <3>. QED  BY <3>1, FS_CardinalityType
  <2>. HIDE DEF k
  <2>3. r \in Run /\ r.lo = run[p].lo /\ r.hi = run[p].hi
    BY <1>1, <2>2 DEF Run
  <2>. HIDE DEF r
  <2>4. Ready("plan", r)
    BY <1>1, <2>1, <2>3 DEF Ready
  <2>. QED  BY <1>1, <2>1, <2>3, <2>4, OneIsTyped DEF Nodes
<1>. QED  BY <1>2, <1>3

LEMMA PlanTyped ==
    ASSUME Typed, NEW p \in Assemblers, PlanChunks(p)
    PROVE  Typed' /\ Appends /\ LockPasses
<1>. DEFINE r == run[p]
            h == HighestSummarized
            last == Tier1Start(r) - 1
            next == h + 1
            first == Max({r.lo, next})
            chunks == IF first <= last THEN ChunksOf(first, last) ELSE <<>>
            new == [r EXCEPT !.chunks = chunks, !.atMax = last >= r.lo /\ r.tier2 >= MaxChunks]
            node == IF chunks = <<>> THEN "snapshot" ELSE "summarize"
<1>1. /\ r \in Run /\ run \in [Assemblers -> Run] /\ r.lo \in 1..r.hi
      /\ UNCHANGED <<window, msgs, summaries, active, lastAssembled>> /\ LockPasses
  BY TypesOf DEF Typed, PlanChunks, Ready, LockPasses
<1>2. run' = [run EXCEPT ![p] = new] /\ pc' = [pc EXCEPT ![p] = node]
  BY <1>1 DEF PlanChunks, Goto
<1>3. r.lo \in Nat \ {0} /\ r.hi \in Nat /\ r.lo <= r.hi
  BY <1>1 DEF Run
<1>4. h \in Nat
  <2>1. active \subseteq Row /\ IsFiniteSet(active)
    BY FS_Subset DEF Typed
  <2>. QED  BY <2>1, BoundaryNat, BoundaryIs
<1>5. last \in Nat
  <2>1. Tier1Start(r) \in r.lo..(r.hi + 1)
    <3>. HIDE DEF r
    <3>. QED  BY <1>1, <1>3, Tier1Within
  <2>. HIDE DEF r
  <2>. QED  BY <1>3, <2>1
<1>6. first \in Nat \ {0}
  <2>. DEFINE lo == r.lo
  <2>1. lo \in Nat \ {0} /\ next \in Nat
    BY <1>3, <1>4
  <2>. HIDE DEF next, lo
  <2>2. Max({lo, next}) \in {lo, next} /\ Max({lo, next}) >= lo
    BY <2>1, OfTwo
  <2>3. Max({lo, next}) \in Nat \ {0}
    BY <2>1, <2>2
  <2>. QED  BY <2>3 DEF lo
<1>7. chunks \in Seq(Chunk)
  <2>. HIDE DEF r, last, first
  <2>1. CASE first <= last
    <3>. DEFINE before == first - 1
    <3>1. before \in Nat /\ before < first /\ last <= last
      BY <1>5, <1>6
    <3>. HIDE DEF before
    <3>. QED  BY <1>5, <1>6, <2>1, <3>1, ChunksAhead
  <2>2. CASE ~(first <= last)
    BY <2>2
  <2>. QED  BY <2>1, <2>2
<1>. HIDE DEF chunks, h, last
<1>8. new \in Run /\ new.chunks = chunks
  <2>1. (last >= r.lo /\ r.tier2 >= MaxChunks) \in BOOLEAN
    OBVIOUS
  <2>. QED  BY <1>1, <1>7, <2>1 DEF Run
<1>. HIDE DEF new
<1>9. Ready(node, new) /\ node \in Nodes
  BY <1>8 DEF Ready, Nodes
<1>. QED  BY <1>1, <1>2, <1>8, <1>9, OneIsTyped

LEMMA SummarizeTyped ==
    ASSUME Typed, NEW p \in Assemblers, SummarizeChunks(p)
    PROVE  Typed' /\ Appends /\ LockPasses
<1>. DEFINE r == run[p]
            cs == r.chunks
<1>1. /\ r \in Run /\ run \in [Assemblers -> Run] /\ cs # <<>>
      /\ UNCHANGED <<window, msgs, summaries, active, lastAssembled>> /\ LockPasses
  BY TypesOf DEF Typed, SummarizeChunks, Ready, LockPasses
<1>2. PICK failed :
          run' = [run EXCEPT
              ![p].chunks = [i \in DOMAIN @ |-> [@[i] EXCEPT !.ok = i \notin failed]],
              ![p].hadErrors = failed # {}]
  BY DEF SummarizeChunks
<1>. DEFINE ds == [i \in DOMAIN cs |-> [cs[i] EXCEPT !.ok = i \notin failed]]
            new == [r EXCEPT !.chunks = ds, !.hadErrors = failed # {}]
<1>3. run' = [run EXCEPT ![p] = new] /\ pc' = [pc EXCEPT ![p] = "insert"]
  BY <1>1, <1>2 DEF SummarizeChunks, Goto
<1>4. cs \in Seq(Chunk)
  BY <1>1 DEF Run
<1>. HIDE DEF cs
<1>5. ds \in Seq(Chunk) /\ ds # <<>>
  <2>1. \A i \in 1..Len(cs) : [cs[i] EXCEPT !.ok = i \notin failed] \in Chunk
    <3>1. \A i \in 1..Len(cs) : cs[i] \in Chunk
      BY <1>4
    <3>. QED  BY <3>1 DEF Chunk
  <2>2. DOMAIN cs = 1..Len(cs) /\ Len(cs) \in Nat /\ Len(cs) # 0
    BY <1>1, <1>4
  <2>3. ds \in [1..Len(cs) -> Chunk]
    BY <2>1, <2>2
  <2>. HIDE DEF ds
  <2>. QED  BY <2>2, <2>3
<1>. HIDE DEF ds
<1>6. new \in Run /\ new.chunks = ds
  BY <1>1, <1>5 DEF Run
<1>. HIDE DEF new
<1>7. Ready("insert", new)
  BY <1>5, <1>6 DEF Ready
<1>. QED  BY <1>1, <1>3, <1>6, <1>7, OneIsTyped DEF Nodes

LEMMA InsertTyped ==
    ASSUME Typed, NEW p \in Assemblers, InsertChunk(p) \/ StopAtBudget(p)
    PROVE  Typed' /\ Appends /\ LockPasses
<1>. DEFINE r == run[p]
            cs == r.chunks
            row == Row2(Head(cs).from, Head(cs).to)
<1>1. /\ r \in Run /\ run \in [Assemblers -> Run] /\ cs \in Seq(Chunk) /\ cs # <<>>
      /\ UNCHANGED <<window, msgs, lastAssembled>> /\ LockPasses
  <2>1. r \in Run /\ pc[p] = "insert" /\ Ready(pc[p], r)
    BY TypesOf DEF InsertChunk, StopAtBudget
  <2>2. cs \in Seq(Chunk) /\ cs # <<>>
    BY <2>1 DEF Run, Ready
  <2>. QED  BY <2>1, <2>2 DEF Typed, InsertChunk, StopAtBudget, LockPasses
<1>2. PICK rest \in Seq(Chunk) : GotoAfterChunks(p, rest)
  <2>1. <<>> \in Seq(Chunk) /\ Tail(cs) \in Seq(Chunk)
    <3>. HIDE DEF cs
    <3>. QED  BY <1>1
  <2>. QED  BY <2>1 DEF InsertChunk, StopAtBudget
<1>. DEFINE new == [r EXCEPT !.chunks = rest]
            node == IF rest # <<>> THEN "insert"
                    ELSE IF r.atMax THEN "snapshot" ELSE "finalize"
<1>3. run' = [run EXCEPT ![p] = new] /\ pc' = [pc EXCEPT ![p] = node]
  BY <1>1, <1>2 DEF GotoAfterChunks, Goto
<1>4. new \in Run /\ new.chunks = rest
  BY <1>1, <1>2 DEF Run
<1>. HIDE DEF new
<1>5. Ready(node, new) /\ node \in Nodes
  BY <1>4 DEF Ready, Nodes
<1>6. /\ pc' \in [Assemblers -> Nodes] /\ run' \in [Assemblers -> Run]
      /\ \A q \in Assemblers : Ready(pc'[q], run'[q])
  BY <1>3, <1>4, <1>5, OneIsReady
<1>7. \/ UNCHANGED <<summaries, active>>
      \/ summaries' = summaries \cup {row} /\ active' = active \cup {row}
  BY DEF InsertChunk, StopAtBudget
<1>8. row \in Row
  <2>. HIDE DEF cs
  <2>1. Head(cs) \in Chunk
    BY <1>1
  <2>. QED  BY <2>1 DEF Chunk, Row, Row2
<1>9. summaries' \subseteq Row /\ IsFiniteSet(summaries') /\ active' \subseteq summaries'
  <2>. HIDE DEF row
  <2>. QED  BY <1>7, <1>8, FS_AddElement DEF Typed
<1>. QED  BY <1>1, <1>6, <1>9 DEF Typed, Appends

LEMMA ArchiveTyped ==
    ASSUME Typed, NEW p \in Assemblers, Archive(p)
    PROVE  Typed' /\ Appends /\ LockPasses
<1>. DEFINE r == run[p]
<1>1. /\ r \in Run /\ run' = [run EXCEPT ![p] = r] /\ pc' = [pc EXCEPT ![p] = "finalize"]
      /\ UNCHANGED <<window, msgs, lastAssembled>> /\ LockPasses
  BY TypesOf DEF Archive, Goto, LockPasses
<1>2. PICK row \in ArchivalRows(r.oldest) :
          /\ summaries' = summaries \cup {Header, row}
          /\ active' = (active \ (ActiveTier(3) \cup r.oldest)) \cup {Header, row}
  BY DEF Archive
<1>3. {Header, row} \subseteq Row
  <2>1. r.oldest \subseteq Row
    BY <1>1 DEF Run
  <2>. QED  BY <1>2, <2>1 DEF ArchivalRows, Header, Row3, Row
<1>4. summaries' \subseteq Row /\ active' \subseteq summaries' /\ IsFiniteSet(summaries')
  <2>1. (summaries \cup {Header}) \cup {row} = summaries'
    BY <1>2
  <2>2. IsFiniteSet((summaries \cup {Header}) \cup {row})
    BY FS_AddElement DEF Typed
  <2>. QED  BY <1>2, <1>3, <2>1, <2>2 DEF Typed
<1>. HIDE DEF r
<1>5. Ready("finalize", r) /\ "finalize" \in Nodes
  BY DEF Ready, Nodes
<1>6. /\ pc' \in [Assemblers -> Nodes] /\ run' \in [Assemblers -> Run]
      /\ \A q \in Assemblers : Ready(pc'[q], run'[q])
  BY <1>1, <1>5, OneIsReady
<1>. QED  BY <1>1, <1>4, <1>6 DEF Typed, Appends

LEMMA EnvironmentTyped ==
    ASSUME Typed, StoreMessage \/ DeleteConversation
    PROVE  Typed' /\ Appends /\ LockPasses
<1>1. CASE StoreMessage
  <2>1. PICK size \in Sizes : msgs' = Append(msgs, size)
    BY <1>1 DEF StoreMessage
  <2>2. msgs' \in Seq(Sizes) /\ Len(msgs') = Len(msgs) + 1 /\ Len(msgs) \in Nat
    BY <2>1 DEF Typed
  <2>. QED  BY <1>1, <2>1, <2>2 DEF StoreMessage, Typed, Appends, LockPasses
<1>2. CASE DeleteConversation
  <2>1. Len(msgs) \in Nat
    BY DEF Typed
  <2>. QED  BY <1>2, <2>1, FS_EmptySet DEF DeleteConversation, Typed, Appends, LockPasses
<1>. QED  BY <1>1, <1>2

LEMMA InitTyped == ASSUME Init PROVE Typed /\ lock = NoOne
<1>1. msgs \in Seq(Sizes) /\ Len(msgs) = 0
  BY DEF Init
<1>2. pc \in [Assemblers -> Nodes] /\ run \in [Assemblers -> Run]
  BY NothingRun DEF Init, Nodes
<1>3. \A p \in Assemblers : Ready(pc[p], run[p])
  BY DEF Init, Ready
<1>. QED  BY <1>1, <1>2, <1>3, FS_EmptySet DEF Init, Typed

LEMMA AssemblyTyped ==
    ASSUME Typed, FaultyNext
    PROVE  Typed' /\ Appends /\ LockPasses
<1>1. CASE StoreMessage \/ DeleteConversation
  BY <1>1, EnvironmentTyped
<1>2. CASE Poll
  BY <1>2, MovesTyped DEF Assemblers
<1>3. ASSUME NEW p \in Assemblers, CreateWindow(p) \/ Step(p) \/ Fault(p)
      PROVE  Typed' /\ Appends /\ LockPasses
  BY <1>3, MovesTyped, LoadsTyped, PlanTyped, SummarizeTyped, InsertTyped, ArchiveTyped
     DEF Step, Fault
<1>. QED  BY <1>1, <1>2, <1>3 DEF FaultyNext, Next

LEMMA PassthroughTyped ==
    ASSUME Typed, PtEnvironment \/ \E p \in Assemblers : PtStep(p)
    PROVE  Typed' /\ Appends /\ LockPasses
<1>1. CASE PtEnvironment
  BY <1>1, EnvironmentTyped, MovesTyped DEF PtEnvironment, Assemblers
<1>2. ASSUME NEW p \in Assemblers, PtAcquireLock(p) \/ PtFinalize(p) \/ PtRelease(p)
      PROVE  Typed' /\ Appends /\ LockPasses
  BY <1>2, MovesTyped DEF PtAcquireLock, PtFinalize, PtRelease
<1>3. ASSUME NEW p \in Assemblers, PtCheckIn(p) \/ PtFinalizeFails(p)
      PROVE  Typed' /\ Appends /\ LockPasses
  <2>. DEFINE r == run[p]
  <2>1. /\ run' = [run EXCEPT ![p] = r] /\ r \in Run /\ LockPasses
        /\ UNCHANGED <<window, msgs, summaries, active, lastAssembled>>
    BY <1>3, TypesOf DEF PtCheckIn, PtFinalizeFails, LockPasses
  <2>. HIDE DEF r
  <2>2. PICK node \in {"finalize", "release"} : pc' = [pc EXCEPT ![p] = node]
    BY <1>3 DEF PtCheckIn, PtFinalizeFails, Goto
  <2>3. Ready(node, r) /\ node \in Nodes
    BY DEF Ready, Nodes
  <2>. QED  BY <2>1, <2>2, <2>3, OneIsTyped
<1>. QED  BY <1>1, <1>2, <1>3 DEF PtStep

(* The rows, the flow state of each run and the owner of the lock keep     *)
(* their types, however the runs overlap, fail and die.                    *)
THEOREM TypeCorrect == Spec => []TypeOK
<1>. DEFINE Inv == Typed /\ lock \in Assemblers \cup {NoOne}
<1>1. Init => Inv
  BY InitTyped
<1>2. Inv /\ [FaultyNext]_vars => Inv'
  <2>1. CASE FaultyNext
    BY <2>1, AssemblyTyped DEF LockPasses
  <2>2. CASE UNCHANGED vars
    BY <2>2 DEF vars, Typed
  <2>. QED  BY <2>1, <2>2
<1>3. Inv => TypeOK
  BY DEF Typed, TypeOK
<1>. HIDE DEF Inv
<1>. QED  BY <1>1, <1>2, <1>3, PTL DEF Spec

-----------------------------------------------------------------------------
(* The invariant of one assembler.                                         *)

\* Nobody but the worker assembles the window.
OneAssembler == Creators = {}

\* A full compaction leaves chunks: tuning has 3 for tier2_min_chunks.
KeepsChunks == MinChunks > 1

Stored ==
    /\ window \in {"live", "deleted"}
    /\ msgs \in Seq(Sizes)
    /\ Covers(active, Len(msgs))
    /\ window = "deleted" => active = {}

\* What the worker at a node, with r in its flow state, relies on, where the
\* window is w, rows are active and there are n messages.
Works(node, r, w, rows, n) ==
    /\ node \in {"count_tier2", "plan"} => r.lo \in 1..r.hi /\ r.hi <= n
    /\ node \in {"summarize", "insert"} =>
           r.chunks # <<>> /\ Ahead(r.chunks, HighestOf(rows), n)
    /\ node \in {"consolidate", "archive"} /\ w = "live" => Oldest(r.oldest, rows)

Working ==
    /\ pc \in [Assemblers -> Nodes]
    /\ run \in [Assemblers -> Run]
    /\ Works(pc[Worker], run[Worker], window, active, Len(msgs))

AInv == Stored /\ Working

LEMMA Only == ASSUME OneAssembler PROVE Assemblers = {Worker}
BY DEF OneAssembler, Assemblers

LEMMA TypesOfRun ==
    ASSUME AInv
    PROVE  /\ Worker \in Assemblers /\ pc[Worker] \in Nodes /\ run[Worker] \in Run
           /\ pc = [pc EXCEPT ![Worker] = pc[Worker]] /\ run = [run EXCEPT ![Worker] = run[Worker]]
           /\ Len(msgs) \in Nat
BY DEF AInv, Stored, Working, Assemblers

(* The worker goes on to a node with what it relies on there.              *)
LEMMA GoesOn ==
    ASSUME AInv, NEW node \in Nodes, NEW r \in Run,
           pc' = [pc EXCEPT ![Worker] = node], run' = [run EXCEPT ![Worker] = r],
           Works(node, r, window', active', Len(msgs'))
    PROVE  Working'
<1>1. pc' \in [Assemblers -> Nodes] /\ run' \in [Assemblers -> Run]
  BY DEF AInv, Working
<1>2. pc'[Worker] = node /\ run'[Worker] = r
  BY TypesOfRun DEF AInv, Working
<1>. QED  BY <1>1, <1>2 DEF Working

LEMMA QuietlyGoesOn ==
    ASSUME AInv, NEW node \in Nodes, NEW r \in Run,
           pc' = [pc EXCEPT ![Worker] = node], run' = [run EXCEPT ![Worker] = r],
           UNCHANGED <<window, msgs, active>>,
           Works(node, r, window, active, Len(msgs))
    PROVE  AInv'
<1>1. Works(node, r, window', active', Len(msgs'))
  OBVIOUS
<1>2. Working'
  BY <1>1, GoesOn
<1>3. Stored'
  BY DEF AInv, Stored
<1>. QED  BY <1>2, <1>3 DEF AInv

\* Nodes at which nothing is relied on.
FreeNodes == {"idle", "lock", "checkin", "config", "count_summaries", "load",
              "snapshot", "finalize", "release"}

LEMMA FreelyGoesOn ==
    ASSUME AInv, NEW node \in FreeNodes, NEW r \in Run,
           pc' = [pc EXCEPT ![Worker] = node], run' = [run EXCEPT ![Worker] = r],
           UNCHANGED <<window, msgs, active>>
    PROVE  AInv'
<1>1. node \in Nodes
  BY DEF FreeNodes, Nodes
<1>2. Works(node, r, window, active, Len(msgs))
  BY DEF FreeNodes, Works
<1>. QED  BY <1>1, <1>2, QuietlyGoesOn

-----------------------------------------------------------------------------
(* Steps that leave the window, its messages and its active rows alone.    *)
LEMMA FreeSteps ==
    ASSUME AInv,
           \/ Poll \/ AcquireLock(Worker) \/ CheckInConnection(Worker)
           \/ LoadWindowConfig(Worker) \/ CountSummaries(Worker) \/ Finalize(Worker)
           \/ Release(Worker) \/ Escape(Worker) \/ ChunkPromptMissing(Worker)
           \/ ConsolidateFails(Worker)
    PROVE  AInv' /\ UNCHANGED <<window, msgs, active>>
<1>1. /\ run[Worker] \in Run /\ run = [run EXCEPT ![Worker] = run[Worker]]
      /\ pc = [pc EXCEPT ![Worker] = pc[Worker]] /\ Worker \in Assemblers
      /\ run \in [Assemblers -> Run]
  BY TypesOfRun DEF AInv, Working
<1>2. UNCHANGED <<window, msgs, active>>
  BY DEF Poll, AcquireLock, CheckInConnection, LoadWindowConfig, CountSummaries,
     Finalize, Release, Escape, ChunkPromptMissing, ConsolidateFails
<1>3. ASSUME NEW node \in FreeNodes, pc' = [pc EXCEPT ![Worker] = node],
             NEW r \in Run, run' = [run EXCEPT ![Worker] = r]
      PROVE  AInv'
  BY <1>2, <1>3, FreelyGoesOn
<1>4. CASE Poll \/ AcquireLock(Worker) \/ CheckInConnection(Worker)
           \/ LoadWindowConfig(Worker) \/ Finalize(Worker) \/ ChunkPromptMissing(Worker)
  <2>1. \E node \in FreeNodes : pc' = [pc EXCEPT ![Worker] = node]
    BY <1>4 DEF Poll, AcquireLock, CheckInConnection, LoadWindowConfig, Finalize,
       ChunkPromptMissing, Goto, FreeNodes
  <2>2. run' = run
    BY <1>4 DEF Poll, AcquireLock, CheckInConnection, LoadWindowConfig, Finalize,
       ChunkPromptMissing
  <2>. QED  BY <1>1, <1>2, <1>3, <2>1, <2>2
<1>5. CASE CountSummaries(Worker)
  <2>. DEFINE r == [run[Worker] EXCEPT !.first = (summaries = {})]
  <2>1. r \in Run
    BY <1>1 DEF Run
  <2>2. run' = [run EXCEPT ![Worker] = r] /\ pc' = [pc EXCEPT ![Worker] = "load"]
    BY <1>1, <1>5 DEF CountSummaries, Goto
  <2>. HIDE DEF r
  <2>. QED  BY <1>2, <1>3, <2>1, <2>2 DEF FreeNodes
<1>6. CASE Release(Worker) \/ Escape(Worker)
  BY <1>2, <1>3, <1>6, NothingRun DEF Release, Escape, Goto, FreeNodes
<1>7. CASE ConsolidateFails(Worker)
  <2>1. PICK failed \in BOOLEAN : run' = [run EXCEPT ![Worker].hadErrors = @ \/ failed]
    BY <1>7 DEF ConsolidateFails
  <2>. DEFINE r == [run[Worker] EXCEPT !.hadErrors = @ \/ failed]
  <2>2. r \in Run
    BY <1>1 DEF Run
  <2>3. run' = [run EXCEPT ![Worker] = r] /\ pc' = [pc EXCEPT ![Worker] = "finalize"]
    BY <1>1, <1>7, <2>1 DEF ConsolidateFails, Goto
  <2>. HIDE DEF r
  <2>. QED  BY <1>2, <1>3, <2>2, <2>3 DEF FreeNodes
<1>. QED  BY <1>2, <1>4, <1>5, <1>6, <1>7

LEMMA LoadSteps ==
    ASSUME AInv, LoadMessages(Worker) \/ CountTier2(Worker)
    PROVE  AInv' /\ UNCHANGED <<window, msgs, active>>
<1>1. /\ run[Worker] \in Run /\ run \in [Assemblers -> Run] /\ Worker \in Assemblers
      /\ Len(msgs) \in Nat
  BY TypesOfRun DEF AInv, Working
<1>2. UNCHANGED <<window, msgs, active>>
  BY DEF LoadMessages, CountTier2
<1>3. CASE LoadMessages(Worker)
  <2>. DEFINE stored == IF window = "deleted" THEN 0 ELSE Len(msgs)
              limit == LoadLimit(~run[Worker].first)
              lo == Max({1, stored - limit + 1})
              r == [run[Worker] EXCEPT !.lo = lo, !.hi = stored]
              node == IF stored = 0 THEN "finalize" ELSE "count_tier2"
  <2>1. stored \in Nat /\ stored <= Len(msgs) /\ limit \in Nat \ {0}
    <3>1. run[Worker].first \in BOOLEAN
      BY <1>1 DEF Run
    <3>2. limit \in Nat \ {0}
      BY <3>1, Limits
    <3>. HIDE DEF limit
    <3>. QED  BY <1>1, <3>2
  <2>2. run' = [run EXCEPT ![Worker] = r] /\ pc' = [pc EXCEPT ![Worker] = node]
    BY <1>1, <1>3 DEF LoadMessages, Goto
  <2>. HIDE DEF stored, limit
  <2>3. stored - limit + 1 \in Int /\ stored - limit + 1 <= stored
    BY <2>1
  <2>4. lo \in Nat /\ lo >= 1 /\ (stored # 0 => lo <= stored)
    <3>. DEFINE a == stored - limit + 1
    <3>1. a \in Int /\ a <= stored
      BY <2>3
    <3>. HIDE DEF a
    <3>2. Max({1, a}) \in {1, a} /\ Max({1, a}) >= 1
      BY <3>1, OfTwo
    <3>3. Max({1, a}) \in Nat /\ (stored # 0 => Max({1, a}) <= stored)
      BY <2>1, <3>1, <3>2
    <3>. QED  BY <3>2, <3>3 DEF a
  <2>. HIDE DEF lo
  <2>5. r \in Run /\ r.lo = lo /\ r.hi = stored
    BY <1>1, <2>1, <2>4 DEF Run
  <2>. HIDE DEF r
  <2>6. Works(node, r, window, active, Len(msgs))
    BY <2>1, <2>4, <2>5 DEF Works
  <2>7. node \in Nodes
    BY DEF Nodes
  <2>. QED  BY <1>2, <2>2, <2>5, <2>6, <2>7, QuietlyGoesOn
<1>4. CASE CountTier2(Worker)
  <2>. DEFINE k == Cardinality(ActiveTier(2))
              r == [run[Worker] EXCEPT !.tier2 = k]
  <2>1. k \in Nat
    BY FS_Subset, FS_CardinalityType DEF AInv, Stored, Covers, ActiveTier
  <2>2. run' = [run EXCEPT ![Worker] = r] /\ pc' = [pc EXCEPT ![Worker] = "plan"]
    BY <1>1, <1>4 DEF CountTier2, Goto
  <2>. HIDE DEF k
  <2>3. r \in Run /\ r.lo = run[Worker].lo /\ r.hi = run[Worker].hi
    BY <1>1, <2>1 DEF Run
  <2>. HIDE DEF r
  <2>4. Works("plan", r, window, active, Len(msgs))
    BY <1>4, <2>3 DEF CountTier2, Works, AInv, Working
  <2>. QED  BY <1>2, <2>2, <2>3, <2>4, QuietlyGoesOn DEF Nodes
<1>. QED  BY <1>2, <1>3, <1>4

(* The chunks of a plan lie behind the boundary and end before tier 1.     *)
LEMMA PlanStep ==
    ASSUME AInv, PlanChunks(Worker)
    PROVE  AInv' /\ UNCHANGED <<window, msgs, active>>
<1>. DEFINE r == run[Worker]
            n == Len(msgs)
            h == HighestSummarized
            last == Tier1Start(r) - 1
            first == Max({r.lo, h + 1})
            chunks == IF first <= last THEN ChunksOf(first, last) ELSE <<>>
            new == [r EXCEPT !.chunks = chunks, !.atMax = last >= r.lo /\ r.tier2 >= MaxChunks]
            node == IF chunks = <<>> THEN "snapshot" ELSE "summarize"
<1>1. /\ r \in Run /\ run \in [Assemblers -> Run] /\ n \in Nat
      /\ Covers(active, n) /\ Works("plan", r, window, active, n)
  BY TypesOfRun DEF AInv, Stored, Working, PlanChunks
<1>2. run' = [run EXCEPT ![Worker] = new] /\ pc' = [pc EXCEPT ![Worker] = node]
  BY <1>1 DEF PlanChunks, Goto
<1>3. /\ r.lo \in Nat /\ r.lo >= 1 /\ r.hi \in Nat /\ r.lo <= r.hi /\ r.hi <= n
      /\ r.tier2 \in Nat
  BY <1>1 DEF Works, Run
<1>4. h \in Nat
  BY <1>1, HighestFacts, BoundaryIs
<1>5. last \in Nat /\ last <= n
  <2>1. Tier1Start(r) \in r.lo..(r.hi + 1)
    <3>. HIDE DEF r
    <3>. QED  BY <1>1, <1>3, Tier1Within
  <2>. HIDE DEF r, n
  <2>. QED  BY <1>1, <1>3, <2>1
<1>6. first \in Nat /\ h < first
  <2>. DEFINE lo == r.lo
              next == h + 1
  <2>1. lo \in Nat /\ next \in Nat /\ h < next
    BY <1>3, <1>4
  <2>2. Max({lo, next}) \in {lo, next} /\ Max({lo, next}) >= next
    <3>. HIDE DEF lo, next
    <3>. QED  BY <2>1, OfTwo
  <2>3. first = Max({lo, next})
    OBVIOUS
  <2>. HIDE DEF lo, next, first, h
  <2>. QED  BY <1>4, <2>1, <2>2, <2>3
<1>7. chunks \in Seq(Chunk) /\ (chunks # <<>> => Ahead(chunks, h, n))
  <2>. HIDE DEF r, h, n, last, first
  <2>1. CASE first <= last
    BY <1>1, <1>4, <1>5, <1>6, <2>1, ChunksAhead
  <2>2. CASE ~(first <= last)
    BY <2>2
  <2>. QED  BY <2>1, <2>2
<1>. HIDE DEF chunks, h, last
<1>8. new \in Run /\ new.chunks = chunks
  <2>1. (last >= r.lo /\ r.tier2 >= MaxChunks) \in BOOLEAN
    OBVIOUS
  <2>. QED  BY <1>1, <1>7, <2>1 DEF Run
<1>. HIDE DEF new
<1>9. Works(node, new, window, active, n) /\ node \in Nodes
  BY <1>7, <1>8, BoundaryIs DEF Works, Nodes, h
<1>10. UNCHANGED <<window, msgs, active>>
  BY DEF PlanChunks
<1>. QED  BY <1>2, <1>8, <1>9, <1>10, QuietlyGoesOn

LEMMA SummarizeStep ==
    ASSUME AInv, SummarizeChunks(Worker)
    PROVE  AInv' /\ UNCHANGED <<window, msgs, active>>
<1>. DEFINE r == run[Worker]
            n == Len(msgs)
<1>1. /\ r \in Run /\ run \in [Assemblers -> Run] /\ n \in Nat
      /\ Works("summarize", r, window, active, n)
  BY TypesOfRun DEF AInv, Working, SummarizeChunks
<1>2. PICK failed :
          run' = [run EXCEPT
              ![Worker].chunks = [i \in DOMAIN @ |-> [@[i] EXCEPT !.ok = i \notin failed]],
              ![Worker].hadErrors = failed # {}]
  BY DEF SummarizeChunks
<1>. DEFINE cs == r.chunks
            ds == [i \in DOMAIN cs |-> [cs[i] EXCEPT !.ok = i \notin failed]]
            new == [r EXCEPT !.chunks = ds, !.hadErrors = failed # {}]
<1>3. run' = [run EXCEPT ![Worker] = new] /\ pc' = [pc EXCEPT ![Worker] = "insert"]
  BY <1>1, <1>2 DEF SummarizeChunks, Goto
<1>4. cs \in Seq(Chunk) /\ cs # <<>> /\ Ahead(cs, HighestOf(active), n)
  BY <1>1 DEF Run, Works
<1>. HIDE DEF cs
<1>5. /\ ds \in Seq(Chunk) /\ Len(ds) = Len(cs) /\ ds # <<>>
      /\ \A i \in 1..Len(cs) : ds[i].from = cs[i].from /\ ds[i].to = cs[i].to
  <2>1. \A i \in 1..Len(cs) : cs[i] \in Chunk
    BY <1>4
  <2>2. \A i \in 1..Len(cs) : /\ [cs[i] EXCEPT !.ok = i \notin failed] \in Chunk
                              /\ [cs[i] EXCEPT !.ok = i \notin failed].from = cs[i].from
                              /\ [cs[i] EXCEPT !.ok = i \notin failed].to = cs[i].to
    BY <2>1 DEF Chunk
  <2>3. DOMAIN cs = 1..Len(cs) /\ Len(cs) \in Nat /\ Len(cs) # 0
    BY <1>4
  <2>4. ds \in [1..Len(cs) -> Chunk]
    BY <2>2, <2>3
  <2>5. \A i \in 1..Len(cs) : ds[i].from = cs[i].from /\ ds[i].to = cs[i].to
    BY <2>2, <2>3
  <2>. HIDE DEF ds
  <2>. QED  BY <2>3, <2>4, <2>5
<1>. HIDE DEF ds
<1>6. Ahead(ds, HighestOf(active), n)
  BY <1>4, <1>5 DEF Ahead
<1>7. new \in Run /\ new.chunks = ds
  BY <1>1, <1>5 DEF Run
<1>. HIDE DEF new
<1>8. Works("insert", new, window, active, n)
  BY <1>5, <1>6, <1>7 DEF Works
<1>9. UNCHANGED <<window, msgs, active>>
  BY DEF SummarizeChunks
<1>. QED  BY <1>3, <1>7, <1>8, <1>9, QuietlyGoesOn DEF Nodes

(* Snapshot and consolidation.                                             *)
LEMMA ChooseSteps ==
    ASSUME AInv, KeepsChunks, SnapshotTier2(Worker) \/ Consolidate(Worker)
    PROVE  AInv' /\ UNCHANGED <<window, msgs, active>>
<1>. DEFINE r == run[Worker]
<1>1. /\ r \in Run /\ run \in [Assemblers -> Run] /\ Len(msgs) \in Nat
      /\ run = [run EXCEPT ![Worker] = r] /\ Covers(active, Len(msgs))
  BY TypesOfRun DEF AInv, Stored, Working
<1>2. UNCHANGED <<window, msgs, active>>
  BY DEF SnapshotTier2, Consolidate
<1>3. CASE Consolidate(Worker)
  <2>1. Works("archive", r, window, active, Len(msgs))
    BY <1>3 DEF AInv, Working, Works, Consolidate
  <2>2. pc' = [pc EXCEPT ![Worker] = "archive"] /\ run' = [run EXCEPT ![Worker] = r]
    BY <1>1, <1>3 DEF Consolidate, Goto
  <2>. QED  BY <1>1, <1>2, <2>1, <2>2, QuietlyGoesOn DEF Nodes
<1>4. ActiveTier(2) = Chunks(active)
  BY DEF ActiveTier, Chunks
<1>5. CASE SnapshotTier2(Worker) /\ Cardinality(ActiveTier(2)) <= MinChunks
  <2>1. pc' = [pc EXCEPT ![Worker] = "finalize"] /\ run' = [run EXCEPT ![Worker] = r]
    BY <1>1, <1>5 DEF SnapshotTier2, Goto
  <2>. QED  BY <1>1, <1>2, <2>1, FreelyGoesOn DEF FreeNodes
<1>6. CASE SnapshotTier2(Worker) /\ ~(Cardinality(ActiveTier(2)) <= MinChunks)
  <2>1. PICK old \in OldestOf(ActiveTier(2), MinChunks - 1) :
            run' = [run EXCEPT ![Worker].oldest = old]
    BY <1>6 DEF SnapshotTier2
  <2>. DEFINE new == [r EXCEPT !.oldest = old]
  <2>2. Oldest(old, active)
    BY <1>1, <1>4, <1>6, <2>1, OldestChosen DEF KeepsChunks
  <2>3. old \subseteq Row
    BY <1>1, <2>2 DEF Oldest, Covers, Chunks
  <2>4. new \in Run /\ new.oldest = old
    BY <1>1, <2>3 DEF Run
  <2>5. run' = [run EXCEPT ![Worker] = new] /\ pc' = [pc EXCEPT ![Worker] = "consolidate"]
    BY <1>1, <1>6, <2>1 DEF SnapshotTier2, Goto
  <2>. HIDE DEF new
  <2>6. Works("consolidate", new, window, active, Len(msgs))
    BY <2>2, <2>4 DEF Works
  <2>. QED  BY <1>2, <2>4, <2>5, <2>6, QuietlyGoesOn DEF Nodes
<1>. QED  BY <1>2, <1>3, <1>5, <1>6

-----------------------------------------------------------------------------
(* Steps that change the active rows, the messages or the window.          *)

\* The window is not restored, its messages are only appended to, and its
\* boundary does not move back.
Grows ==
    /\ window' = "live" => window = "live" /\ HighestOf(active') >= HighestOf(active)
    /\ msgs' = msgs \/ \E size \in Sizes : msgs' = Append(msgs, size)

LEMMA QuietlyGrows ==
    ASSUME AInv, UNCHANGED <<window, msgs, active>>
    PROVE  Grows
<1>1. HighestOf(active) \in Nat
  BY TypesOfRun, HighestFacts DEF AInv, Stored
<1>2. HighestOf(active') >= HighestOf(active)
  BY <1>1
<1>. QED  BY <1>2 DEF Grows

(* One chunk less, whatever became of it.                                  *)
LEMMA AfterChunk ==
    ASSUME AInv, pc[Worker] = "insert", NEW rest \in Seq(Chunk),
           GotoAfterChunks(Worker, rest), Stored',
           rest # <<>> => Ahead(rest, HighestOf(active'), Len(msgs'))
    PROVE  AInv'
<1>. DEFINE r == run[Worker]
            new == [r EXCEPT !.chunks = rest]
            node == IF rest # <<>> THEN "insert" ELSE IF r.atMax THEN "snapshot" ELSE "finalize"
<1>1. r \in Run /\ run \in [Assemblers -> Run]
  BY TypesOfRun DEF AInv, Working
<1>2. run' = [run EXCEPT ![Worker] = new] /\ pc' = [pc EXCEPT ![Worker] = node]
  BY <1>1 DEF GotoAfterChunks, Goto
<1>3. new \in Run /\ new.chunks = rest
  BY <1>1 DEF Run
<1>. HIDE DEF new
<1>4. Works(node, new, window', active', Len(msgs')) /\ node \in Nodes
  BY <1>3 DEF Works, Nodes
<1>5. Working'
  BY <1>2, <1>3, <1>4, GoesOn
<1>. QED  BY <1>5 DEF AInv

LEMMA InsertSteps ==
    ASSUME AInv, InsertChunk(Worker) \/ StopAtBudget(Worker)
    PROVE  AInv' /\ Grows
<1>. DEFINE cs == run[Worker].chunks
            n == Len(msgs)
            h == HighestOf(active)
            c == Head(cs)
            row == Row2(c.from, c.to)
<1>1. /\ run[Worker] \in Run /\ n \in Nat /\ pc[Worker] = "insert"
      /\ Works("insert", run[Worker], window, active, n) /\ Covers(active, n)
  BY TypesOfRun DEF AInv, Stored, Working, InsertChunk, StopAtBudget
<1>2. cs \in Seq(Chunk) /\ cs # <<>> /\ Ahead(cs, h, n) /\ h \in Nat
  BY <1>1, HighestFacts DEF Run, Works
<1>3. /\ c \in Chunk /\ Tail(cs) \in Seq(Chunk) /\ h < c.from /\ c.from <= c.to /\ c.to <= n
      /\ Ahead(Tail(cs), h, n) /\ Ahead(Tail(cs), c.to, n)
  <2>. HIDE DEF cs, h, n
  <2>. QED  BY <1>1, <1>2, TailAhead
<1>4. CASE StopAtBudget(Worker)
  <2>1. UNCHANGED <<window, msgs, active>> /\ GotoAfterChunks(Worker, <<>>)
    BY <1>4 DEF StopAtBudget
  <2>2. Stored'
    BY <2>1 DEF AInv, Stored
  <2>3. AInv'
    <3>1. <<>> \in Seq(Chunk)
      OBVIOUS
    <3>. QED  BY <1>1, <2>1, <2>2, <3>1, AfterChunk
  <2>. QED  BY <2>1, <2>3, QuietlyGrows
<1>5. CASE InsertChunk(Worker) /\ active' = active
  <2>1. UNCHANGED <<window, msgs, active>> /\ GotoAfterChunks(Worker, Tail(cs))
    BY <1>5 DEF InsertChunk
  <2>2. Stored'
    BY <2>1 DEF AInv, Stored
  <2>3. Ahead(Tail(cs), HighestOf(active'), Len(msgs'))
    BY <1>3, <2>1
  <2>4. AInv'
    <3>. HIDE DEF cs
    <3>. QED  BY <1>1, <1>3, <2>1, <2>2, <2>3, AfterChunk
  <2>. QED  BY <2>1, <2>4, QuietlyGrows
<1>6. CASE InsertChunk(Worker) /\ active' # active
  <2>1. /\ active' = active \cup {row} /\ window = "live" /\ UNCHANGED <<window, msgs>>
        /\ GotoAfterChunks(Worker, Tail(cs))
    BY <1>6 DEF InsertChunk
  <2>2. c.from \in Nat /\ c.to \in Nat
    BY <1>3 DEF Chunk
  <2>. HIDE DEF cs, c, h
  <2>3. Covers(active', n) /\ HighestOf(active') = c.to
    <3>. DEFINE f == c.from
                t == c.to
    <3>1. f \in Nat /\ t \in Nat /\ HighestOf(active) < f /\ f <= t /\ t <= n
      BY <1>3, <2>2 DEF h
    <3>2. active' = active \cup {Row2(f, t)}
      BY <2>1
    <3>3. HighestOf(active') = t /\ Covers(active', n)
      <4>. HIDE DEF f, t, n
      <4>. QED  BY <1>1, <3>1, <3>2, AddChunk
    <3>. QED  BY <3>3
  <2>4. Stored'
    BY <2>1, <2>3 DEF AInv, Stored
  <2>5. Ahead(Tail(cs), HighestOf(active'), Len(msgs'))
    BY <1>3, <2>1, <2>3
  <2>6. AInv'
    BY <1>1, <1>3, <2>1, <2>4, <2>5, AfterChunk
  <2>7. HighestOf(active') >= HighestOf(active)
    BY <1>2, <1>3, <2>2, <2>3 DEF h
  <2>. QED  BY <2>1, <2>6, <2>7 DEF Grows
<1>. QED  BY <1>4, <1>5, <1>6

LEMMA ArchiveStep ==
    ASSUME AInv, Archive(Worker)
    PROVE  AInv' /\ Grows
<1>. DEFINE r == run[Worker]
            n == Len(msgs)
<1>1. /\ r \in Run /\ run = [run EXCEPT ![Worker] = r] /\ n \in Nat
      /\ Works("archive", r, window, active, n) /\ Covers(active, n)
  BY TypesOfRun DEF AInv, Stored, Working, Archive
<1>2. PICK row \in ArchivalRows(r.oldest) :
          active' = (active \ (ActiveTier(3) \cup r.oldest)) \cup {Header, row}
  BY DEF Archive
<1>3. window = "live" /\ UNCHANGED <<window, msgs>>
  BY DEF Archive
<1>4. run' = [run EXCEPT ![Worker] = r] /\ pc' = [pc EXCEPT ![Worker] = "finalize"]
  BY <1>1 DEF Archive, Goto
<1>5. Oldest(r.oldest, active) /\ ActiveTier(3) = Tier3(active)
  BY <1>1, <1>3 DEF Works, ActiveTier, Tier3
<1>6. Covers(active', n) /\ HighestOf(active') = HighestOf(active)
  <2>. HIDE DEF n, r
  <2>. QED  BY <1>1, <1>2, <1>5, TakeOldest
<1>7. Stored'
  BY <1>3, <1>6 DEF AInv, Stored
<1>8. Works("finalize", r, window', active', Len(msgs'))
  BY DEF Works
<1>9. Working'
  BY <1>1, <1>4, <1>8, GoesOn DEF Nodes
<1>10. HighestOf(active) \in Nat
  BY <1>1, HighestFacts
<1>. QED  BY <1>3, <1>6, <1>7, <1>9, <1>10 DEF AInv, Grows

LEMMA EnvironmentSteps ==
    ASSUME AInv, StoreMessage \/ DeleteConversation
    PROVE  AInv' /\ Grows
<1>. DEFINE r == run[Worker]
            n == Len(msgs)
<1>1. /\ r \in Run /\ pc[Worker] \in Nodes /\ n \in Nat /\ Covers(active, n)
      /\ pc' = [pc EXCEPT ![Worker] = pc[Worker]] /\ run' = [run EXCEPT ![Worker] = r]
      /\ Works(pc[Worker], r, window, active, n) /\ HighestOf(active) \in Nat
  BY TypesOfRun, HighestFacts DEF AInv, Stored, Working, StoreMessage, DeleteConversation
<1>2. CASE StoreMessage
  <2>1. PICK size \in Sizes : msgs' = Append(msgs, size)
    BY <1>2 DEF StoreMessage
  <2>2. msgs' \in Seq(Sizes) /\ Len(msgs') = n + 1
    BY <2>1 DEF AInv, Stored
  <2>3. UNCHANGED <<window, active>>
    BY <1>2 DEF StoreMessage
  <2>. HIDE DEF n
  <2>4. Covers(active, n + 1)
    BY <1>1, CoversMore
  <2>5. Stored'
    BY <2>2, <2>3, <2>4 DEF AInv, Stored
  <2>6. Works(pc[Worker], r, window', active', Len(msgs'))
    <3>1. r.hi \in Nat /\ (r.hi <= n => r.hi <= n + 1)
      BY <1>1 DEF Run
    <3>2. r.chunks \in Seq(Chunk)
      BY <1>1 DEF Run
    <3>3. Ahead(r.chunks, HighestOf(active), n) => Ahead(r.chunks, HighestOf(active), n + 1)
      <4>. DEFINE h == HighestOf(active)
                  m == n + 1
      <4>1. h \in Nat /\ h <= h /\ m \in Nat /\ n <= m
        BY <1>1
      <4>. HIDE DEF h, m, r
      <4>2. Ahead(r.chunks, h, n) => Ahead(r.chunks, h, m)
        BY <1>1, <3>2, <4>1, AheadMore
      <4>. QED  BY <4>2 DEF h, m
    <3>. QED  BY <1>1, <2>2, <2>3, <3>1, <3>2, <3>3 DEF Works
  <2>7. Working'
    BY <1>1, <2>6, GoesOn
  <2>8. Grows
    BY <1>1, <2>1, <2>3 DEF Grows
  <2>. QED  BY <2>5, <2>7, <2>8 DEF AInv
<1>3. CASE DeleteConversation
  <2>1. window' = "deleted" /\ active' = {} /\ msgs' = msgs
    BY <1>3 DEF DeleteConversation
  <2>2. Covers({}, n) /\ HighestOf({}) = 0
    BY <1>1, CoversNothing
  <2>3. Stored'
    BY <2>1, <2>2 DEF AInv, Stored
  <2>4. Works(pc[Worker], r, window', active', Len(msgs'))
    <3>1. r.chunks \in Seq(Chunk)
      BY <1>1 DEF Run
    <3>2. Ahead(r.chunks, HighestOf(active), n) => Ahead(r.chunks, 0, n)
      BY <1>1, <3>1, AheadMore
    <3>. QED  BY <1>1, <2>1, <2>2, <3>1, <3>2 DEF Works
  <2>5. Working'
    BY <1>1, <2>4, GoesOn
  <2>. QED  BY <2>1, <2>3, <2>5 DEF AInv, Grows
<1>. QED  BY <1>2, <1>3

-----------------------------------------------------------------------------
LEMMA InitAInv == ASSUME OneAssembler, Init PROVE AInv
<1>1. Worker \in Assemblers /\ pc[Worker] = "idle" /\ run[Worker] = NoRun
  BY DEF Init, Assemblers
<1>2. msgs = <<>> /\ active = {} /\ window = "live"
  BY DEF Init, OneAssembler
<1>3. msgs \in Seq(Sizes) /\ Len(msgs) = 0
  BY <1>2
<1>4. Stored
  BY <1>2, <1>3, CoversNothing DEF Stored
<1>5. pc \in [Assemblers -> Nodes] /\ run \in [Assemblers -> Run]
  BY NothingRun DEF Init, Nodes
<1>. QED  BY <1>1, <1>4, <1>5 DEF AInv, Working, Works

LEMMA AssemblyStep ==
    ASSUME OneAssembler, KeepsChunks, AInv, FaultyNext
    PROVE  AInv' /\ Grows
<1>1. CASE StoreMessage \/ DeleteConversation
  BY <1>1, EnvironmentSteps
<1>2. CASE Poll
  BY <1>2, FreeSteps, QuietlyGrows
<1>3. ~CreateWindow(Worker)
  BY AssemblyAssumption DEF CreateWindow
<1>4. CASE Step(Worker)
  BY <1>4, FreeSteps, LoadSteps, PlanStep, SummarizeStep, ChooseSteps, InsertSteps,
     ArchiveStep, QuietlyGrows DEF Step
<1>5. CASE Fault(Worker)
  BY <1>5, FreeSteps, InsertSteps, QuietlyGrows DEF Fault
<1>. QED  BY <1>1, <1>2, <1>3, <1>4, <1>5, Only DEF FaultyNext, Next

LEMMA PassthroughStep ==
    ASSUME OneAssembler, AInv, PtEnvironment \/ \E p \in Assemblers : PtStep(p)
    PROVE  AInv' /\ Grows
<1>1. CASE PtEnvironment
  BY <1>1, EnvironmentSteps, FreeSteps, QuietlyGrows, Only DEF PtEnvironment
<1>2. CASE PtAcquireLock(Worker) \/ PtFinalize(Worker) \/ PtRelease(Worker)
  BY <1>2, FreeSteps, QuietlyGrows DEF PtAcquireLock, PtFinalize, PtRelease
<1>3. CASE PtCheckIn(Worker) \/ PtFinalizeFails(Worker)
  <2>1. /\ run' = [run EXCEPT ![Worker] = run[Worker]] /\ run[Worker] \in Run
        /\ UNCHANGED <<window, msgs, active>>
    BY <1>3, TypesOfRun DEF PtCheckIn, PtFinalizeFails
  <2>2. \E node \in FreeNodes : pc' = [pc EXCEPT ![Worker] = node]
    BY <1>3 DEF PtCheckIn, PtFinalizeFails, Goto, FreeNodes
  <2>. QED  BY <2>1, <2>2, FreelyGoesOn, QuietlyGrows
<1>. QED  BY <1>1, <1>2, <1>3, Only DEF PtStep

-----------------------------------------------------------------------------
(* What the reader has read: first what it is, for any number of           *)
(* assemblers, then how it relates to the boundary.                        *)
Contexts == [rows : SUBSET Row, highest : Nat, from : Nat, to : Nat,
             domain : Nat, distilled : BOOLEAN]

ReaderNodes == {"idle", "wait", "checkin", "summaries", "highest", "messages",
                "assemble", "distill", "done"}

Once(c) == \A r \in c.rows : r.to < c.from \/ c.to < c.from

Fits(c) ==
    \/ c.to < c.from
    \/ TokensOfSummaries(c.rows) + c.domain + Tokens(c.from, c.to) <= MaxBudget

\* What a context is at each node; a finished one fits its budget.
Reading ==
    /\ ctx \in Contexts /\ IsFiniteSet(ctx.rows)
    /\ ctx.from >= 1 /\ ctx.to <= Len(msgs)
    /\ Passthrough => ctx.rows = {}
    /\ rpc \notin {"distill", "done"} => ctx.domain = 0
    /\ rpc \in {"distill", "done"} => Fits(ctx)

RTyped ==
    /\ Typed /\ Reading
    /\ lock \in Assemblers \cup {NoOne, Reader}
    /\ build \in BuildTypes
    /\ rpc \in ReaderNodes

\* What has been read is behind the boundary, and so is the boundary that was
\* read after it; of a window that is gone no messages will be read.
ReadSoFar ==
    /\ rpc = "highest" /\ window = "live" => \A r \in ctx.rows : r.to <= HighestOf(active)
    /\ rpc = "messages" /\ window = "live" => \A r \in ctx.rows : r.to <= ctx.highest
    /\ rpc \in {"assemble", "distill", "done"} => Once(ctx)

RInv == AInv /\ ReadSoFar

LEMMA NothingRead ==
    /\ NoContext \in Contexts /\ NoContext.rows = {} /\ IsFiniteSet(NoContext.rows)
    /\ NoContext.from = 1 /\ NoContext.to = 0 /\ NoContext.domain = 0
    /\ Once(NoContext) /\ Fits(NoContext)
BY FS_EmptySet DEF NoContext, Contexts, Once, Fits

LEMMA InitRTyped == ASSUME RInit PROVE RTyped
<1>1. Typed /\ lock = NoOne
  BY InitTyped DEF RInit
<1>2. Len(msgs) \in Nat
  BY <1>1 DEF Typed
<1>3. Reading
  BY <1>2, NothingRead DEF RInit, Reading
<1>. QED  BY <1>1, <1>3 DEF RInit, RTyped, ReaderNodes

LEMMA InitRInv == ASSUME OneAssembler, RInit PROVE RInv
BY InitAInv DEF RInit, RInv, ReadSoFar

(* A context keeps its cost while messages are appended.                   *)
LEMMA ReaderWaits ==
    ASSUME Typed, Reading, Appends, UNCHANGED rvars
    PROVE  Reading'
<1>1. ctx' = ctx /\ rpc' = rpc /\ build' = build
  BY DEF rvars
<1>2. msgs \in Seq(Sizes) /\ Len(msgs) \in Nat
  BY DEF Typed
<1>3. Len(msgs') \in Nat /\ Len(msgs) <= Len(msgs')
  BY <1>2 DEF Appends
<1>4. /\ ctx.from \in Nat \ {0} /\ ctx.to \in Nat /\ ctx.to <= Len(msgs)
      /\ ctx.rows \subseteq Row
  BY DEF Reading, Contexts
<1>5. Tokens(ctx.from, ctx.to)' = Tokens(ctx.from, ctx.to)
  <2>. DEFINE a == ctx.from
              b == ctx.to
  <2>1. a' = a /\ b' = b
    BY <1>1
  <2>2. SumFunctionOnSet(msgs', a..b) = SumFunctionOnSet(msgs, a..b)
    <3>1. a \in Nat \ {0} /\ b \in Nat /\ b <= Len(msgs)
      BY <1>4
    <3>. HIDE DEF a, b
    <3>2. IsFiniteSet(a..b)
      BY <3>1, FS_Interval
    <3>3. \A x \in a..b : msgs'[x] = msgs[x]
      BY <1>2, <3>1 DEF Appends
    <3>. QED  BY <3>2, <3>3, SumSame
  <2>. QED  BY <2>1, <2>2 DEF Tokens
<1>6. Fits(ctx) => Fits(ctx)'
  BY <1>1, <1>5 DEF Fits
<1>. QED  BY <1>1, <1>3, <1>4, <1>6 DEF Reading, Passthrough

(* What was behind the boundary stays there, as the boundary only grows.   *)
LEMMA NotesHold ==
    ASSUME RTyped, RInv, AInv', Grows, UNCHANGED rvars
    PROVE  ReadSoFar'
<1>1. ctx' = ctx /\ rpc' = rpc /\ build' = build
  BY DEF rvars
<1>2. /\ Len(msgs) \in Nat /\ Covers(active, Len(msgs))
      /\ Len(msgs') \in Nat /\ Covers(active', Len(msgs'))
  BY TypesOfRun DEF RInv, AInv, Stored, Grows
<1>3. HighestOf(active) \in Nat /\ HighestOf(active') \in Nat
  BY <1>2, HighestFacts
<1>4. ctx.rows \subseteq Row
  BY DEF RTyped, Reading, Contexts
<1>5. rpc = "highest" /\ window' = "live" => \A r \in ctx.rows : r.to <= HighestOf(active')
  <2>1. SUFFICES ASSUME rpc = "highest", window' = "live", NEW r \in ctx.rows
                 PROVE  r.to <= HighestOf(active')
    OBVIOUS
  <2>2. r.to <= HighestOf(active) /\ HighestOf(active') >= HighestOf(active)
    BY <2>1 DEF Grows, RInv, ReadSoFar
  <2>3. r.to \in Nat
    BY <1>4 DEF Row
  <2>. QED  BY <1>3, <2>2, <2>3
<1>6. Once(ctx)' <=> Once(ctx)
  BY <1>1 DEF Once
<1>7. window' = "live" => window = "live"
  BY DEF Grows
<1>. QED  BY <1>1, <1>5, <1>6, <1>7 DEF RInv, ReadSoFar

(* Reading changes nothing but what has been read, and the lock.           *)
LEMMA ReadingKeeps ==
    ASSUME AInv, UNCHANGED <<window, msgs, active, pc, run>>
    PROVE  AInv'
BY DEF AInv, Stored, Working

-----------------------------------------------------------------------------
(* Budgets of the reader.                                                  *)
LEMMA SummariesCost ==
    ASSUME NEW rows, IsFiniteSet(rows)
    PROVE  TokensOfSummaries(rows) \in Nat /\ Cardinality(Chunks(rows)) \in Nat
<1>. DEFINE k == Cardinality(Chunks(rows))
            m == IF rows = Chunks(rows) THEN 0 ELSE 1
<1>1. k \in Nat
  BY FS_Subset, FS_CardinalityType DEF Chunks
<1>2. m \in Nat /\ SummaryTokens \in Nat
  BY RetrievalAssumption
<1>3. TokensOfSummaries(rows) = SummaryTokens * (k + m)
  BY DEF TokensOfSummaries
<1>. HIDE DEF k, m
<1>4. SummaryTokens * (k + m) \in Nat
  BY <1>1, <1>2
<1>. QED  BY <1>1, <1>3, <1>4 DEF k

LEMMA WhatRemains ==
    ASSUME NEW taken \in Nat
    PROVE  /\ Remaining(taken) \in Nat
           /\ Remaining(taken) = 0 \/ Remaining(taken) + taken <= MaxBudget
<1>. DEFINE a == MaxBudget - taken
<1>1. MaxBudget \in Nat /\ a \in Int /\ a + taken = MaxBudget
  BY Budgets
<1>. HIDE DEF a
<1>2. Max({0, a}) \in {0, a} /\ Max({0, a}) >= 0
  <2>1. 0 \in Int /\ a \in Int
    BY <1>1
  <2>. QED  BY <2>1, OfTwo
<1>3. Remaining(taken) = Max({0, a})
  BY DEF Remaining, a
<1>. QED  BY <1>1, <1>2, <1>3

LEMMA CutToFit ==
    ASSUME NEW bound \in Nat, NEW taken \in Nat
    PROVE  LET budget == Max({0, Min({bound, MaxBudget - taken})})
           IN  /\ budget \in Nat
               /\ budget = 0 \/ budget + taken <= MaxBudget
<1>. DEFINE a == MaxBudget - taken
            b == Min({bound, a})
<1>1. MaxBudget \in Nat /\ a \in Int /\ a + taken = MaxBudget
  BY Budgets
<1>. HIDE DEF a
<1>2. b \in Int /\ b <= a
  <2>1. bound \in Int /\ a \in Int
    BY <1>1
  <2>2. Min({bound, a}) \in {bound, a} /\ Min({bound, a}) <= a
    BY <2>1, OfTwo
  <2>. QED  BY <2>1, <2>2
<1>. HIDE DEF b
<1>3. Max({0, b}) \in {0, b} /\ Max({0, b}) >= 0
  <2>1. 0 \in Int /\ b \in Int
    BY <1>2
  <2>. QED  BY <2>1, OfTwo
<1>4. Max({0, b}) \in Nat /\ (Max({0, b}) = 0 \/ Max({0, b}) + taken <= MaxBudget)
  BY <1>1, <1>2, <1>3
<1>. QED  BY <1>4 DEF a, b

LEMMA ReaderBudgets ==
    ASSUME NEW rows, IsFiniteSet(rows)
    PROVE  /\ RemainingBudget(rows) \in Nat /\ KeBudget(rows) \in Nat /\ RetLimit(rows) \in Nat
           /\ RemainingBudget(rows) = 0
              \/ RemainingBudget(rows) + TokensOfSummaries(rows) <= MaxBudget
<1>. DEFINE used == TokensOfSummaries(rows)
            ceiling == Tier1Ceiling(Cardinality(Chunks(rows)))
<1>1. used \in Nat /\ ceiling \in Nat /\ Tier1Floor \in Nat
  BY SummariesCost, Budgets
<1>2. RemainingBudget(rows) = Max({0, Min({ceiling, MaxBudget - used})})
  BY DEF RemainingBudget
<1>3. KeBudget(rows) = Max({0, Min({Tier1Floor, MaxBudget - used})})
  BY DEF KeBudget
<1>4. RetLimit(rows) \in Nat
  <2>. DEFINE a == ceiling \div TokensPerMessage
  <2>1. a \in Nat /\ MinLoad \in Nat
    <3>. HIDE DEF ceiling
    <3>. QED  BY <1>1, TierAssumption
  <2>2. RetLimit(rows) = Max({MinLoad, a})
    BY DEF RetLimit
  <2>. HIDE DEF a
  <2>3. Max({MinLoad, a}) \in {MinLoad, a}
    <3>1. MinLoad \in Int /\ a \in Int
      BY <2>1
    <3>. QED  BY <3>1, OfTwo
  <2>. QED  BY <2>1, <2>2, <2>3
<1>. HIDE DEF used, ceiling
<1>5. /\ RemainingBudget(rows) \in Nat
      /\ RemainingBudget(rows) = 0 \/ RemainingBudget(rows) + used <= MaxBudget
  BY <1>1, <1>2, CutToFit
<1>6. KeBudget(rows) \in Nat
  BY <1>1, <1>3, CutToFit
<1>. QED  BY <1>4, <1>5, <1>6 DEF used
-----------------------------------------------------------------------------
(* The steps of the reader.                                                *)

LEMMA ReaderMoves ==
    ASSUME RTyped, RetNext \/ KeNext \/ PtNext
    PROVE  /\ UNCHANGED <<window, msgs, summaries, active, lastAssembled, pc, run, build>>
           /\ Typed' /\ lock' \in Assemblers \cup {NoOne, Reader}
           /\ rpc' \in ReaderNodes
<1>1. /\ UNCHANGED <<window, msgs, summaries, active, lastAssembled, pc, run, build>>
      /\ lock' \in {lock, NoOne, Reader} /\ rpc' \in ReaderNodes
  <2>1. CASE RetNext
    BY <2>1 DEF RetNext, RetLoadWindow, RetTryLock, RetCheckIn, RetWaitEnds,
       RetLoadSummaries, RetHighest, RetLoadMessages, LoadWindow, TryLock, WaitEnds,
       LoadSummaries, LoadHighest, ReaderGoes, ReaderNodes, vars
  <2>2. CASE KeNext
    BY <2>2 DEF KeNext, KeLoadWindow, KeWaitForAssembly, KeLoadSummaries, KeHighest,
       KeLoadMessages, KeAssemble, KeDistill, LoadWindow, TryLock, WaitEnds,
       LoadSummaries, LoadHighest, ReaderGoes, ReaderNodes, vars
  <2>3. CASE PtNext
    BY <2>3 DEF PtNext, PtLoadWindow, PtLoadRecent, LoadWindow, ReaderGoes, ReaderNodes, vars
  <2>. QED  BY <2>1, <2>2, <2>3
<1>. QED  BY <1>1 DEF RTyped, Typed

(* What is loaded begins behind the boundary and costs what it may.        *)
LEMMA NewestLoaded ==
    ASSUME Typed, Reading, NEW after \in Nat, NEW limit \in Nat, NEW budget \in Nat,
           LoadNewest(after, limit, budget)
    PROVE  /\ ctx' \in Contexts
           /\ ctx'.rows = ctx.rows /\ ctx'.domain = ctx.domain
           /\ ctx'.from > after /\ ctx'.to <= Len(msgs)
           /\ window # "live" => ctx'.to = 0
           /\ Tokens(ctx'.from, ctx'.to) <= budget
<1>. DEFINE n == IF window = "live" THEN Len(msgs) ELSE 0
            lower == after + 1
            oldest == n - limit + 1
            first == Max({lower, oldest})
            past == n + 1
            top == Max({past, first})
            from == Min({s \in first..top : Tokens(s, n) <= budget})
<1>1. n \in Nat /\ n <= Len(msgs) /\ (window # "live" => n = 0)
  BY DEF Typed
<1>2. lower \in Nat /\ lower > after
  OBVIOUS
<1>3. ctx' = [ctx EXCEPT !.to = n, !.from = from]
  BY DEF LoadNewest
<1>. HIDE DEF n
<1>4. oldest \in Int /\ past \in Nat /\ past > n
  BY <1>1
<1>. HIDE DEF lower, oldest, past
<1>5. first \in Int /\ first >= lower
  <2>1. lower \in Int /\ oldest \in Int
    BY <1>2, <1>4
  <2>2. Max({lower, oldest}) \in {lower, oldest} /\ Max({lower, oldest}) >= lower
    BY <2>1, OfTwo
  <2>. QED  BY <2>1, <2>2
<1>. HIDE DEF first
<1>6. first \in Nat
  BY <1>2, <1>5
<1>7. top \in Nat /\ top >= first /\ top > n
  <2>1. past \in Int /\ first \in Int
    BY <1>4, <1>5
  <2>2. Max({past, first}) \in {past, first} /\ Max({past, first}) >= past
        /\ Max({past, first}) >= first
    BY <2>1, OfTwo
  <2>. QED  BY <1>1, <1>4, <1>6, <2>2
<1>. HIDE DEF top
<1>8. from \in {s \in first..top : Tokens(s, n) <= budget}
  BY <1>1, <1>6, <1>7, LongestThatFits
<1>. HIDE DEF from
<1>9. from \in Nat /\ from > after /\ Tokens(from, n) <= budget
  BY <1>2, <1>5, <1>6, <1>7, <1>8
<1>10. ctx \in Contexts
  BY DEF Reading
<1>11. ctx' \in Contexts /\ ctx'.rows = ctx.rows /\ ctx'.domain = ctx.domain
       /\ ctx'.from = from /\ ctx'.to = n
  BY <1>1, <1>3, <1>9, <1>10 DEF Contexts
<1>. QED  BY <1>1, <1>9, <1>11

LEMMA NoSummariesCost == TokensOfSummaries({}) = 0
<1>1. Chunks({}) = {}
  BY DEF Chunks
<1>2. Cardinality({}) = 0
  BY FS_EmptySet
<1>3. SummaryTokens \in Nat
  BY RetrievalAssumption
<1>4. TokensOfSummaries({}) = SummaryTokens * (0 + 0)
  BY <1>1, <1>2 DEF TokensOfSummaries
<1>. QED  BY <1>3, <1>4

(* Messages that cost what is left beside the rest fit; none always do.    *)
LEMMA CutFits ==
    ASSUME msgs \in Seq(Sizes), NEW c \in Contexts, IsFiniteSet(c.rows),
           c.from > 0, c.to <= Len(msgs),
           NEW budget \in Nat, Tokens(c.from, c.to) <= budget,
           budget = 0 \/ budget + (TokensOfSummaries(c.rows) + c.domain) <= MaxBudget
    PROVE  Fits(c)
<1>. DEFINE a == c.from
            b == c.to
            spent == TokensOfSummaries(c.rows)
            domain == c.domain
<1>1. a \in Nat \ {0} /\ b \in Nat /\ b <= Len(msgs) /\ domain \in Nat
  BY DEF Contexts
<1>2. spent \in Nat
  BY SummariesCost
<1>. HIDE DEF a, b
<1>3. Tokens(a, b) \in Nat /\ (Tokens(a, b) <= 0 => b < a)
  BY <1>1, SomeTokens
<1>4. Tokens(a, b) <= budget
  BY DEF a, b
<1>5. budget = 0 \/ budget + (spent + domain) <= MaxBudget
  OBVIOUS
<1>. HIDE DEF spent, domain
<1>6. b < a \/ spent + domain + Tokens(a, b) <= MaxBudget
  BY <1>1, <1>2, <1>3, <1>4, <1>5, Budgets
<1>. QED  BY <1>6 DEF Fits, a, b, spent, domain

(* The messages of each build type.                                        *)
LEMMA MessagesLoaded ==
    ASSUME Typed, Reading, RetLoadMessages \/ KeLoadMessages \/ PtLoadRecent
    PROVE  /\ ctx' \in Contexts /\ ctx'.rows = ctx.rows /\ ctx'.domain = 0
           /\ ctx'.from > ctx.highest \/ ctx.rows = {}
           /\ ctx'.from > 0
           /\ ctx'.to <= Len(msgs) /\ (window # "live" => ctx'.to = 0)
           /\ rpc' = "done" => Fits(ctx')
           /\ UNCHANGED <<window, msgs, active, pc, run, build>>
           /\ rpc = "messages" /\ rpc' \in {"assemble", "done"}
<1>1. /\ UNCHANGED <<window, msgs, active, pc, run, build>>
      /\ rpc = "messages" /\ rpc' \in {"assemble", "done"}
  BY DEF RetLoadMessages, KeLoadMessages, PtLoadRecent, ReaderGoes, vars
<1>2. /\ msgs \in Seq(Sizes) /\ IsFiniteSet(ctx.rows) /\ ctx.domain = 0 /\ ctx.highest \in Nat
  BY <1>1 DEF Typed, Reading, Contexts
<1>3. CASE RetLoadMessages
  <2>. DEFINE limit == RetLimit(ctx.rows)
              budget == RemainingBudget(ctx.rows)
  <2>1. /\ limit \in Nat /\ budget \in Nat
        /\ budget = 0 \/ budget + TokensOfSummaries(ctx.rows) <= MaxBudget
    BY <1>2, ReaderBudgets
  <2>2. LoadNewest(ctx.highest, limit, budget)
    BY <1>3 DEF RetLoadMessages
  <2>. DEFINE highest == ctx.highest
  <2>3. highest \in Nat /\ LoadNewest(highest, limit, budget)
    BY <1>2, <2>2
  <2>. HIDE DEF limit, budget, highest
  <2>4. /\ ctx' \in Contexts
        /\ ctx'.rows = ctx.rows /\ ctx'.domain = ctx.domain
        /\ ctx'.from > highest /\ ctx'.to <= Len(msgs)
        /\ window # "live" => ctx'.to = 0
        /\ Tokens(ctx'.from, ctx'.to) <= budget
    BY <2>1, <2>3, NewestLoaded
  <2>5. ctx'.from > 0
    BY <2>3, <2>4 DEF Contexts
  <2>6. TokensOfSummaries(ctx.rows) + 0 = TokensOfSummaries(ctx.rows)
    BY <1>2, SummariesCost
  <2>. DEFINE c == ctx'
  <2>7. /\ c \in Contexts /\ IsFiniteSet(c.rows) /\ c.from > 0 /\ c.to <= Len(msgs)
        /\ Tokens(c.from, c.to) <= budget
        /\ budget = 0 \/ budget + (TokensOfSummaries(c.rows) + c.domain) <= MaxBudget
    BY <1>2, <2>1, <2>4, <2>5, <2>6
  <2>. HIDE DEF c
  <2>8. Fits(c)
    BY <1>2, <2>1, <2>7, CutFits
  <2>9. Fits(ctx')
    BY <2>8 DEF c
  <2>. QED  BY <1>1, <1>2, <2>4, <2>5, <2>9 DEF highest
<1>4. CASE KeLoadMessages
  <2>. DEFINE budget == KeBudget(ctx.rows)
              highest == ctx.highest
  <2>1. budget \in Nat /\ MaxMessages \in Nat /\ highest \in Nat
    BY <1>2, ReaderBudgets, RetrievalAssumption
  <2>2. LoadNewest(highest, MaxMessages, budget) /\ rpc' = "assemble"
    BY <1>4 DEF KeLoadMessages, ReaderGoes
  <2>. HIDE DEF budget, highest
  <2>3. /\ ctx' \in Contexts
        /\ ctx'.rows = ctx.rows /\ ctx'.domain = ctx.domain
        /\ ctx'.from > highest /\ ctx'.to <= Len(msgs)
        /\ window # "live" => ctx'.to = 0
    BY <2>1, <2>2, NewestLoaded
  <2>4. ctx'.from > 0
    BY <2>1, <2>3 DEF Contexts
  <2>. QED  BY <1>1, <1>2, <2>2, <2>3, <2>4 DEF highest
<1>5. CASE PtLoadRecent
  <2>1. ctx.rows = {}
    BY <1>5 DEF PtLoadRecent, Reading
  <2>2. LoadNewest(0, MaxMessages, MaxBudget) /\ MaxMessages \in Nat /\ MaxBudget \in Nat
    BY <1>5, RetrievalAssumption, Budgets DEF PtLoadRecent
  <2>3. /\ ctx' \in Contexts
        /\ ctx'.rows = ctx.rows /\ ctx'.domain = ctx.domain
        /\ ctx'.from > 0 /\ ctx'.to <= Len(msgs)
        /\ window # "live" => ctx'.to = 0
        /\ Tokens(ctx'.from, ctx'.to) <= MaxBudget
    BY <2>2, NewestLoaded
  <2>. DEFINE c == ctx'
  <2>4. /\ c \in Contexts /\ IsFiniteSet(c.rows) /\ c.from > 0 /\ c.to <= Len(msgs)
        /\ Tokens(c.from, c.to) <= MaxBudget
        /\ MaxBudget + (TokensOfSummaries(c.rows) + c.domain) <= MaxBudget
    BY <1>2, <2>1, <2>2, <2>3, NoSummariesCost
  <2>. HIDE DEF c
  <2>5. Fits(c)
    BY <1>2, <2>2, <2>4, CutFits
  <2>6. Fits(ctx')
    BY <2>5 DEF c
  <2>. QED  BY <1>1, <1>2, <2>1, <2>3, <2>6
<1>. QED  BY <1>3, <1>4, <1>5

LEMMA LoadedOnce ==
    ASSUME Reading, ReadSoFar, rpc = "messages", NEW c \in Contexts, c.rows = ctx.rows,
           c.from > ctx.highest \/ ctx.rows = {}, c.from > 0, window # "live" => c.to = 0
    PROVE  Once(c)
<1>1. CASE window = "live" /\ ctx.rows # {}
  <2>1. ASSUME NEW r \in c.rows PROVE r.to < c.from
    <3>1. r.to <= ctx.highest /\ r.to \in Nat /\ ctx.highest \in Nat /\ c.from \in Nat
      BY <1>1 DEF Reading, ReadSoFar, Contexts, Row
    <3>. QED  BY <1>1, <3>1
  <2>. QED  BY <2>1 DEF Once
<1>2. CASE window # "live"
  <2>1. c.to = 0 /\ c.from \in Nat
    BY <1>2 DEF Contexts
  <2>2. c.to < c.from
    BY <2>1
  <2>. QED  BY <2>2 DEF Once
<1>3. CASE ctx.rows = {}
  BY <1>3 DEF Once
<1>. QED  BY <1>1, <1>2, <1>3

(* The knowledge and the messages are cut to the budget.                   *)
LEMMA Assembled ==
    ASSUME Typed, Reading, KeAssemble
    PROVE  /\ UNCHANGED <<window, msgs, active, pc, run, build>> /\ Enriched
           /\ rpc = "assemble" /\ rpc' \in {"distill", "done"}
           /\ ctx' \in Contexts /\ ctx'.rows = ctx.rows /\ ctx'.to = ctx.to
           /\ ctx'.from >= ctx.from /\ Fits(ctx')
<1>1. /\ UNCHANGED <<window, msgs, active, pc, run, build>> /\ Enriched
      /\ rpc = "assemble" /\ rpc' \in {"distill", "done"}
  BY DEF KeAssemble, ReaderGoes, vars
<1>2. /\ msgs \in Seq(Sizes) /\ ctx \in Contexts /\ IsFiniteSet(ctx.rows)
      /\ ctx.from \in Nat \ {0} /\ ctx.to \in Nat /\ ctx.to <= Len(msgs)
  BY DEF Typed, Reading, Contexts
<1>. DEFINE rows == ctx.rows
            a == ctx.from
            b == ctx.to
            used == TokensOfSummaries(rows)
            rest == Remaining(used)
<1>3. PICK text \in {0, DomainTokens} :
        LET domain == Min({text, rest})
        IN  ctx' = [ctx EXCEPT !.domain = domain,
                               !.from = Min({s \in a..(Max({b + 1, a})) :
                                                 Tokens(s, b) <= Remaining(used + domain)})]
  BY DEF KeAssemble
<1>. DEFINE domain == Min({text, rest})
            taken == used + domain
            budget == Remaining(taken)
            past == b + 1
            top == Max({past, a})
            from == Min({s \in a..top : Tokens(s, b) <= budget})
<1>4. ctx' = [ctx EXCEPT !.domain = domain, !.from = from]
  BY <1>3
<1>5. used \in Nat /\ text \in Nat
  BY <1>2, SummariesCost, RetrievalAssumption
<1>6. a \in Nat \ {0} /\ b \in Nat /\ past \in Nat /\ past > b
  BY <1>2
<1>. HIDE DEF used, a, b, past
<1>7. rest \in Nat
  BY <1>5, WhatRemains
<1>. HIDE DEF rest
<1>8. domain \in Nat
  <2>1. text \in Int /\ rest \in Int
    BY <1>5, <1>7
  <2>2. Min({text, rest}) \in {text, rest}
    BY <2>1, OfTwo
  <2>. QED  BY <1>5, <1>7, <2>2
<1>. HIDE DEF domain
<1>9. taken \in Nat
  BY <1>5, <1>8
<1>10. budget \in Nat /\ (budget = 0 \/ budget + (used + domain) <= MaxBudget)
  <2>. HIDE DEF taken
  <2>1. budget \in Nat /\ (budget = 0 \/ budget + taken <= MaxBudget)
    BY <1>9, WhatRemains
  <2>. QED  BY <2>1 DEF taken
<1>. HIDE DEF budget
<1>11. top \in Nat /\ top >= a /\ top > b
  <2>1. past \in Int /\ a \in Int
    BY <1>6
  <2>2. Max({past, a}) \in {past, a} /\ Max({past, a}) >= past /\ Max({past, a}) >= a
    BY <2>1, OfTwo
  <2>. QED  BY <1>6, <2>2
<1>. HIDE DEF top
<1>12. from \in {s \in a..top : Tokens(s, b) <= budget}
  BY <1>6, <1>10, <1>11, LongestThatFits
<1>. HIDE DEF from
<1>13. from \in Nat /\ from >= a /\ Tokens(from, b) <= budget
  BY <1>6, <1>11, <1>12
<1>14. /\ ctx' \in Contexts /\ ctx'.rows = ctx.rows /\ ctx'.domain = domain
       /\ ctx'.from = from /\ ctx'.to = b
  BY <1>2, <1>4, <1>8, <1>13 DEF Contexts, b
<1>15. Fits(ctx')
  <2>. DEFINE c == ctx'
  <2>1. /\ c \in Contexts /\ IsFiniteSet(c.rows) /\ c.from > 0 /\ c.to <= Len(msgs)
        /\ Tokens(c.from, c.to) <= budget
        /\ budget = 0 \/ budget + (TokensOfSummaries(c.rows) + c.domain) <= MaxBudget
    BY <1>2, <1>6, <1>10, <1>13, <1>14 DEF used, b
  <2>. HIDE DEF c
  <2>2. Fits(c)
    BY <1>2, <1>10, <2>1, CutFits
  <2>. QED  BY <2>2 DEF c
<1>. QED  BY <1>1, <1>13, <1>14, <1>15 DEF b, a

LEMMA Distilled ==
    ASSUME KeDistill
    PROVE  /\ UNCHANGED <<window, msgs, active, pc, run, build>> /\ rpc = "distill"
           /\ \/ ctx' = ctx /\ rpc' = "done"
              \/ /\ ctx' \in Contexts /\ ctx'.rows = {} /\ ctx'.domain = 0
                 /\ ctx'.from = 1 /\ ctx'.to = 0 /\ rpc' \in {"done", "idle"}
<1>1. /\ UNCHANGED <<window, msgs, active, pc, run, build>> /\ rpc = "distill"
      /\ \/ ctx' = [NoContext EXCEPT !.distilled = TRUE] /\ rpc' = "done"
         \/ ctx' = ctx /\ rpc' = "done"
         \/ ctx' = NoContext /\ rpc' = "idle"
  BY DEF KeDistill, ReaderGoes, vars
<1>. QED  BY <1>1, NothingRead DEF Contexts, NoContext

-----------------------------------------------------------------------------
(* A context stays what it is at each node, and fits when it is finished.  *)
LEMMA ReaderReads ==
    ASSUME Typed, Reading, RetNext \/ KeNext \/ PtNext
    PROVE  Reading'
<1>1. /\ ctx \in Contexts /\ IsFiniteSet(ctx.rows) /\ Len(msgs) \in Nat
      /\ IsFiniteSet(active) /\ active \subseteq Row
  BY FS_Subset DEF Typed, Reading
<1>2. CASE \/ \E node \in {"wait", "messages"} : LoadWindow(node)
           \/ TryLock \/ RetCheckIn \/ WaitEnds
  <2>1. /\ UNCHANGED <<msgs, build>>
        /\ \/ ctx' = NoContext /\ rpc' \in {"wait", "messages"}
           \/ ctx' = ctx /\ rpc \in {"wait", "checkin"} /\ rpc' \in {"checkin", "summaries"}
    BY <1>2 DEF LoadWindow, TryLock, RetCheckIn, WaitEnds, ReaderGoes, vars
  <2>2. CASE ctx' = NoContext /\ rpc' \in {"wait", "messages"}
    BY <1>1, <2>1, <2>2, NothingRead DEF Reading
  <2>3. CASE ctx' = ctx /\ rpc \in {"wait", "checkin"} /\ rpc' \in {"checkin", "summaries"}
    BY <2>1, <2>3 DEF Reading, Passthrough
  <2>. QED  BY <2>1, <2>2, <2>3
<1>3. CASE ~Passthrough /\ (LoadSummaries \/ LoadHighest)
  <2>1. /\ UNCHANGED <<msgs, build>> /\ ctx'.from = ctx.from /\ ctx'.to = ctx.to
        /\ ctx'.domain = ctx.domain /\ ctx'.rows \in {active, ctx.rows}
        /\ rpc \in {"summaries", "highest"} /\ rpc' \in {"highest", "messages"}
    BY <1>1, <1>3 DEF LoadSummaries, LoadHighest, ReaderGoes, Contexts, vars
  <2>2. HighestSummarized \in Nat
    BY <1>1, BoundaryNat, BoundaryIs
  <2>3. ctx' \in Contexts
    BY <1>1, <1>3, <2>2 DEF LoadSummaries, LoadHighest, Contexts
  <2>. QED  BY <1>1, <1>3, <2>1, <2>3 DEF Reading, Passthrough
<1>4. CASE RetLoadMessages \/ KeLoadMessages \/ PtLoadRecent
  <2>1. /\ ctx' \in Contexts /\ ctx'.rows = ctx.rows /\ ctx'.domain = 0 /\ ctx'.from > 0
        /\ ctx'.to <= Len(msgs) /\ UNCHANGED <<msgs, build>>
        /\ rpc' = "done" => Fits(ctx')
        /\ rpc' \in {"assemble", "done"}
    BY <1>4, MessagesLoaded
  <2>2. rpc' = "done" => Fits(ctx)'
    BY <2>1 DEF Fits, Tokens
  <2>3. ctx'.from >= 1
    BY <2>1 DEF Contexts
  <2>. QED  BY <1>1, <2>1, <2>2, <2>3 DEF Reading, Passthrough
<1>5. CASE KeAssemble
  <2>1. /\ ctx' \in Contexts /\ ctx'.rows = ctx.rows /\ ctx'.to = ctx.to
        /\ ctx'.from >= ctx.from /\ Fits(ctx') /\ UNCHANGED <<msgs, build>> /\ Enriched
        /\ rpc' \in {"distill", "done"}
    BY <1>5, Assembled
  <2>2. Fits(ctx)'
    BY <2>1 DEF Fits, Tokens
  <2>3. ctx'.from >= 1
    BY <1>1, <2>1 DEF Reading, Contexts
  <2>. QED  BY <1>1, <2>1, <2>2, <2>3 DEF Reading, Passthrough, Enriched
<1>6. CASE KeDistill
  <2>1. /\ UNCHANGED <<msgs, build>> /\ rpc = "distill"
        /\ \/ ctx' = ctx /\ rpc' = "done"
           \/ /\ ctx' \in Contexts /\ ctx'.rows = {} /\ ctx'.domain = 0
              /\ ctx'.from = 1 /\ ctx'.to = 0 /\ rpc' \in {"done", "idle"}
    BY <1>6, Distilled
  <2>2. CASE ctx' = ctx /\ rpc' = "done"
    <3>1. Fits(ctx)'
      BY <2>1, <2>2 DEF Reading, Fits, Tokens
    <3>. QED  BY <2>1, <2>2, <3>1 DEF Reading, Passthrough
  <2>3. CASE ctx'.from = 1 /\ ctx'.to = 0 /\ ctx'.rows = {} /\ ctx'.domain = 0
             /\ ctx' \in Contexts
    <3>1. Fits(ctx)'
      BY <2>3 DEF Fits
    <3>. QED  BY <1>1, <2>1, <2>3, <3>1, FS_EmptySet DEF Reading, Passthrough
  <2>. QED  BY <2>1, <2>2, <2>3
<1>. QED
  BY <1>2, <1>3, <1>4, <1>5, <1>6
  DEF RetNext, RetLoadWindow, RetTryLock, RetWaitEnds, RetLoadSummaries, RetHighest,
      KeNext, KeLoadWindow, KeWaitForAssembly, KeLoadSummaries, KeHighest, PtNext,
      PtLoadWindow, Standard, Enriched, Passthrough

LEMMA RTypedStep ==
    ASSUME RTyped, [RNext]_allVars
    PROVE  RTyped'
<1>1. CASE \/ TieredAssembly \/ PtEnvironment \/ \E p \in Assemblers : PtStep(p)
  <2>1. UNCHANGED rvars
    BY <1>1 DEF TieredAssembly, PtEnvironment, PtStep, PtAcquireLock, PtCheckIn,
       PtFinalize, PtFinalizeFails, PtRelease, rvars
  <2>2. Typed' /\ Appends /\ LockPasses
    BY <1>1, AssemblyTyped, PassthroughTyped DEF TieredAssembly, RTyped
  <2>3. Reading'
    BY <2>1, <2>2, ReaderWaits DEF RTyped
  <2>. QED  BY <2>1, <2>2, <2>3 DEF RTyped, LockPasses, rvars
<1>2. CASE RetNext \/ KeNext \/ PtNext
  BY <1>2, ReaderMoves, ReaderReads DEF RTyped
<1>3. CASE UNCHANGED allVars
  <2>1. Typed' /\ Appends /\ UNCHANGED rvars /\ lock' = lock
    BY <1>3 DEF allVars, vars, RTyped, Typed, Appends
  <2>2. Reading'
    BY <2>1, ReaderWaits DEF RTyped
  <2>. QED  BY <2>1, <2>2 DEF RTyped, rvars
<1>. QED  BY <1>1, <1>2, <1>3 DEF RNext

LEMMA RTypedAlways == RSpec => []RTyped
<1>1. RInit => RTyped
  BY InitRTyped
<1>2. RTyped /\ [RNext]_allVars => RTyped'
  BY RTypedStep
<1>. QED  BY <1>1, <1>2, PTL DEF RSpec

(* What a retrieval has read keeps its type at each of its nodes, and the  *)
(* lock is an assembler's, the reader's or nobody's.                       *)
THEOREM ReaderTypeCorrect == RSpec => []RTypeOK
<1>1. RTyped => RTypeOK
  BY DEF RTyped, Reading, Contexts, ReaderNodes, RTypeOK
<1>. QED  BY RTypedAlways, <1>1, PTL

(* The walk back of the standard flow, and the two cuts of the enriched    *)
(* one, keep a context with messages inside the budget of its window, for  *)
(* any number of assemblers that change what is read in between.           *)
THEOREM BudgetKept == RSpec => []ContextFits
<1>1. RTyped => ContextFits
  BY DEF RTyped, Reading, Fits, ContextFits
<1>. QED  BY RTypedAlways, <1>1, PTL

-----------------------------------------------------------------------------
(* With one assembler, what is read is behind the boundary.                *)
LEMMA ReaderIsBehind ==
    ASSUME RTyped, RInv, RetNext \/ KeNext \/ PtNext
    PROVE  ReadSoFar'
<1>1. /\ Covers(active, Len(msgs)) /\ Len(msgs) \in Nat /\ ctx \in Contexts
      /\ Typed /\ Reading
  BY TypesOfRun DEF RInv, AInv, Stored, RTyped, Reading
<1>2. CASE \/ \E node \in {"wait", "messages"} : LoadWindow(node)
           \/ TryLock \/ RetCheckIn \/ WaitEnds
  <2>1. \/ ctx' = NoContext /\ rpc' \in {"wait", "messages"}
        \/ rpc' \in {"checkin", "summaries"}
    BY <1>2 DEF LoadWindow, TryLock, RetCheckIn, WaitEnds, ReaderGoes
  <2>. QED  BY <2>1, NothingRead DEF ReadSoFar
<1>3. CASE LoadSummaries
  <2>1. ctx'.rows = active /\ rpc' = "highest" /\ active' = active
    BY <1>1, <1>3 DEF LoadSummaries, ReaderGoes, Contexts, vars
  <2>2. \A r \in active : r.to <= HighestOf(active)
    BY <1>1, HighestFacts
  <2>. QED  BY <2>1, <2>2 DEF ReadSoFar
<1>4. CASE LoadHighest
  <2>1. /\ ctx'.rows = ctx.rows /\ ctx'.highest = HighestOf(active) /\ window' = window
        /\ rpc = "highest" /\ rpc' = "messages"
    BY <1>1, <1>4, BoundaryIs DEF LoadHighest, ReaderGoes, Contexts, vars
  <2>. QED  BY <2>1 DEF RInv, ReadSoFar
<1>5. CASE RetLoadMessages \/ KeLoadMessages \/ PtLoadRecent
  <2>. DEFINE c == ctx'
  <2>1. /\ c \in Contexts /\ c.rows = ctx.rows
        /\ c.from > ctx.highest \/ ctx.rows = {}
        /\ c.from > 0 /\ (window # "live" => c.to = 0)
        /\ rpc = "messages" /\ rpc' \in {"assemble", "done"}
    BY <1>1, <1>5, MessagesLoaded
  <2>. HIDE DEF c
  <2>2. Once(c)
    BY <1>1, <2>1, LoadedOnce DEF RInv
  <2>. QED  BY <2>1, <2>2 DEF ReadSoFar, Once, c
<1>6. CASE KeAssemble
  <2>1. /\ ctx' \in Contexts /\ ctx'.rows = ctx.rows /\ ctx'.to = ctx.to
        /\ ctx'.from >= ctx.from /\ rpc = "assemble" /\ rpc' \in {"distill", "done"}
    BY <1>1, <1>6, Assembled
  <2>2. ASSUME NEW r \in ctx.rows PROVE r.to < ctx'.from \/ ctx'.to < ctx'.from
    <3>1. r.to < ctx.from \/ ctx.to < ctx.from
      BY <2>1 DEF RInv, ReadSoFar, Once
    <3>2. {r.to, ctx.from, ctx.to, ctx'.from} \subseteq Nat
      BY <1>1, <2>1 DEF Contexts, Row
    <3>. QED  BY <2>1, <3>1, <3>2
  <2>. QED  BY <2>1, <2>2 DEF ReadSoFar, Once
<1>7. CASE KeDistill
  <2>1. /\ rpc = "distill"
        /\ \/ ctx' = ctx /\ rpc' = "done"
           \/ ctx'.rows = {} /\ rpc' \in {"done", "idle"}
    BY <1>7, Distilled
  <2>. QED  BY <2>1 DEF RInv, ReadSoFar, Once
<1>. QED
  BY <1>2, <1>3, <1>4, <1>5, <1>6, <1>7
  DEF RetNext, RetLoadWindow, RetTryLock, RetWaitEnds, RetLoadSummaries, RetHighest,
      KeNext, KeLoadWindow, KeWaitForAssembly, KeLoadSummaries, KeHighest, PtNext,
      PtLoadWindow

LEMMA RStep ==
    ASSUME OneAssembler, KeepsChunks, RTyped, RInv, [RNext]_allVars
    PROVE  RInv' /\ Grows
<1>1. CASE \/ TieredAssembly \/ PtEnvironment \/ \E p \in Assemblers : PtStep(p)
  <2>1. UNCHANGED rvars
    BY <1>1 DEF TieredAssembly, PtEnvironment, PtStep, PtAcquireLock, PtCheckIn,
       PtFinalize, PtFinalizeFails, PtRelease, rvars
  <2>2. AInv' /\ Grows
    BY <1>1, AssemblyStep, PassthroughStep DEF TieredAssembly, RInv
  <2>. QED  BY <2>1, <2>2, NotesHold DEF RInv
<1>2. CASE RetNext \/ KeNext \/ PtNext
  <2>1. UNCHANGED <<window, msgs, active, pc, run>>
    BY <1>2, ReaderMoves
  <2>2. AInv' /\ Grows
    BY <2>1, ReadingKeeps, QuietlyGrows DEF RInv
  <2>. QED  BY <1>2, <2>2, ReaderIsBehind DEF RInv
<1>3. CASE UNCHANGED allVars
  <2>1. UNCHANGED <<window, msgs, active, pc, run>> /\ UNCHANGED rvars
    BY <1>3 DEF allVars, vars
  <2>2. AInv' /\ Grows
    BY <2>1, ReadingKeeps, QuietlyGrows DEF RInv
  <2>. QED  BY <2>1, <2>2, NotesHold DEF RInv
<1>. QED  BY <1>1, <1>2, <1>3 DEF RNext

(* With a second assembler, the request that created the window, the       *)
(* theorems below do not hold of the code: its runs and the worker's       *)
(* overlap although both take the advisory lock.                           *)

LEMMA Invariance ==
    ASSUME OneAssembler, KeepsChunks
    PROVE  RSpec => []RInv
<1>1. RInit => RInv
  BY InitRInv
<1>2. RTyped /\ RInv /\ [RNext]_allVars => RInv'
  BY RStep
<1>. QED  BY <1>1, <1>2, RTypedAlways, PTL DEF RSpec

(* The chunks that compact_tier1 inserts and the archival row that         *)
(* run_full_compaction puts in the place of the oldest of them never cover *)
(* a message twice, whatever fails and wherever a run is left.             *)
THEOREM ChunksAreDisjoint ==
    ASSUME OneAssembler, KeepsChunks
    PROVE  RSpec => []NoDoubleCoverage
<1>1. RInv => NoDoubleCoverage
  <2>1. SUFFICES ASSUME Covers(active, Len(msgs)) PROVE NoDoubleCoverage
    BY DEF RInv, AInv, Stored
  <2>2. active \subseteq Row
    BY <2>1 DEF Covers
  <2>3. \A r \in active : r \in Chunks(active) \/ r \in Tier3(active)
    BY <2>2 DEF Chunks, Tier3, Row
  <2>4. ActiveTier(2) = Chunks(active) /\ ActiveTier(3) = Tier3(active)
    BY DEF ActiveTier, Chunks, Tier3
  <2>5. ASSUME NEW r \in active \ {Header}, NEW q \in active \ {Header}, r # q
        PROVE  r.to < q.from \/ q.to < r.from
    <3>1. CASE r \in Chunks(active) /\ q \in Chunks(active)
      BY <2>1, <2>5, <3>1 DEF Covers
    <3>2. CASE r \in Tier3(active)
      BY <2>1, <2>3, <2>5, <3>2 DEF Covers
    <3>3. CASE q \in Tier3(active)
      BY <2>1, <2>3, <2>5, <3>3 DEF Covers
    <3>. QED  BY <2>3, <3>1, <3>2, <3>3
  <2>6. \A r \in ActiveTier(3) \ {Header}, q \in ActiveTier(2) : r.to < q.from
    BY <2>1, <2>4 DEF Covers
  <2>. QED  BY <2>5, <2>6 DEF NoDoubleCoverage
<1>. QED  BY <1>1, Invariance, PTL

(* The boundary from which the next run of plan_compaction reads is never  *)
(* moved back: a message that was compacted is not compacted again.        *)
THEOREM CoverageGrows ==
    ASSUME OneAssembler, KeepsChunks
    PROVE  RSpec => CoverageOnlyGrows
<1>1. RTyped /\ RInv /\ [RNext]_allVars =>
          [window' = "live" => HighestSummarized' >= HighestSummarized]_vars
  <2>1. SUFFICES ASSUME RTyped, RInv, [RNext]_allVars, window' = "live"
                 PROVE  HighestSummarized' >= HighestSummarized
    OBVIOUS
  <2>2. HighestOf(active') >= HighestOf(active)
    BY <2>1, RStep DEF Grows
  <2>3. HighestSummarized' = HighestOf(active')
    BY DEF HighestSummarized, HighestOf, ActiveTier, Chunks
  <2>. QED  BY <2>2, <2>3, BoundaryIs
<1>. QED  BY <1>1, Invariance, RTypedAlways, PTL DEF RSpec, CoverageOnlyGrows

(* The tiered retrievals read the summaries, the boundary and the messages *)
(* in three statements, with the assembly at work in between; what they    *)
(* return has no message beside a summary of it.                           *)
THEOREM NothingTwice ==
    ASSUME OneAssembler, KeepsChunks
    PROVE  RSpec => []NeverTwiceInContext
<1>1. RInv => NeverTwiceInContext
  BY DEF RInv, ReadSoFar, Once, NeverTwiceInContext
<1>. QED  BY <1>1, Invariance, PTL

-----------------------------------------------------------------------------
(* Nothing is passed over, by any number of assemblers.                    *)

\* No run loads less than the whole conversation.
LoadsAll == MaxSeq <= LoadLimit(TRUE)

Told(s, rows) == \E r \in rows : r.tier = 2 /\ s \in r.from..r.to

\* The chunks follow each other, and the first of them what rows tell.
Follows(cs, rows) ==
    /\ \A i \in 1..Len(cs) : cs[i].ok /\ cs[i].to <= MaxSeq
    /\ \A i \in 1..(Len(cs) - 1) : cs[i + 1].from = cs[i].to + 1
    /\ cs # <<>> => \A s \in 1..(cs[1].from - 1) : Told(s, rows)

\* What an assembler at a node, with r in its flow state, relies on.
Relies(node, r, w, rows) ==
    /\ node \in {"count_tier2", "plan"} => r.lo = 1 /\ r.hi \in 1..MaxSeq
    /\ node \in {"summarize", "insert"} =>
           r.chunks # <<>> /\ (w # "deleted" => Follows(r.chunks, rows))

Complete(rows) ==
    /\ rows \subseteq Row
    /\ \A r \in rows : r.tier = 2 => r.to <= MaxSeq /\ \A s \in 1..r.to : Told(s, rows)

Kept ==
    /\ msgs \in Seq(Sizes) /\ Len(msgs) <= MaxSeq
    /\ active \subseteq summaries /\ IsFiniteSet(summaries) /\ Complete(summaries)

Relying ==
    /\ pc \in [Assemblers -> Nodes]
    /\ run \in [Assemblers -> Run]
    /\ \A p \in Assemblers : Relies(pc[p], run[p], window, summaries)

SkipInv == Kept /\ Relying

LEMMA ReliesStill ==
    ASSUME NEW node, NEW r, NEW w, NEW v, NEW rows, NEW more,
           Relies(node, r, w, rows),
           v = "deleted" \/ (w # "deleted" /\ rows \subseteq more)
    PROVE  Relies(node, r, v, more)
BY DEF Relies, Follows, Told

(* One assembler goes on to a node with what it relies on there, and the   *)
(* others have what they relied on.                                        *)
LEMMA OneGoesOn ==
    ASSUME SkipInv, NEW p \in Assemblers, NEW node \in Nodes, NEW r \in Run,
           pc' = [pc EXCEPT ![p] = node], run' = [run EXCEPT ![p] = r],
           window' = window, summaries \subseteq summaries',
           Relies(node, r, window, summaries')
    PROVE  Relying'
<1>1. pc \in [Assemblers -> Nodes] /\ run \in [Assemblers -> Run]
  BY DEF SkipInv, Relying
<1>2. pc' \in [Assemblers -> Nodes] /\ run' \in [Assemblers -> Run]
  BY <1>1
<1>3. ASSUME NEW q \in Assemblers PROVE Relies(pc'[q], run'[q], window', summaries')
  <2>1. CASE q = p
    BY <1>1, <2>1
  <2>2. CASE q # p
    <3>1. pc'[q] = pc[q] /\ run'[q] = run[q]
      BY <1>1, <2>2
    <3>2. Relies(pc[q], run[q], window, summaries)
      BY DEF SkipInv, Relying
    <3>. DEFINE n == pc[q]
                s == run[q]
    <3>. HIDE DEF n, s
    <3>3. Relies(n, s, window, summaries) => Relies(n, s, window', summaries')
      BY ReliesStill
    <3>. QED  BY <3>1, <3>2, <3>3 DEF n, s
  <2>. QED  BY <2>1, <2>2
<1>. QED  BY <1>2, <1>3 DEF Relying

LEMMA OneGoesOnQuietly ==
    ASSUME SkipInv, NEW p \in Assemblers, NEW node \in Nodes, NEW r \in Run,
           pc' = [pc EXCEPT ![p] = node], run' = [run EXCEPT ![p] = r],
           UNCHANGED <<window, msgs, summaries, active>>,
           Relies(node, r, window, summaries)
    PROVE  SkipInv'
<1>1. Relying'
  BY OneGoesOn
<1>. QED  BY <1>1 DEF SkipInv, Kept

(* What only moves an assembler between nodes where it relies on nothing.  *)
LEMMA OneMoves ==
    ASSUME SkipInv, NEW p \in Assemblers,
           \/ p = Worker /\ Poll
           \/ CreateWindow(p) \/ AcquireLock(p) \/ CheckInConnection(p) \/ LoadWindowConfig(p)
           \/ CountSummaries(p) \/ SnapshotTier2(p) \/ Consolidate(p)
           \/ Finalize(p) \/ Release(p) \/ Escape(p)
    PROVE  SkipInv'
<1>. DEFINE Moving == Nodes \ {"count_tier2", "plan", "summarize", "insert"}
<1>1. pc \in [Assemblers -> Nodes] /\ run \in [Assemblers -> Run] /\ run[p] \in Run
  BY DEF SkipInv, Relying
<1>2. \E node \in Moving : pc' = [pc EXCEPT ![p] = node]
  BY DEF Poll, CreateWindow, AcquireLock, CheckInConnection, LoadWindowConfig,
     CountSummaries, SnapshotTier2, Consolidate, Finalize, Release, Escape, Goto, Nodes
<1>3. UNCHANGED <<msgs, summaries, active>>
  BY DEF Poll, CreateWindow, AcquireLock, CheckInConnection, LoadWindowConfig,
     CountSummaries, SnapshotTier2, Consolidate, Finalize, Release, Escape
<1>4. \E r \in Run : run' = [run EXCEPT ![p] = r]
  <2>1. CASE run' = run
    BY <1>1, <2>1
  <2>2. CASE CountSummaries(p)
    <3>1. [run[p] EXCEPT !.first = (summaries = {})] \in Run
      BY <1>1 DEF Run
    <3>. QED  BY <1>1, <2>2, <3>1 DEF CountSummaries
  <2>3. CASE SnapshotTier2(p) /\ run' # run
    <3>1. PICK old \in SUBSET ActiveTier(2) : run' = [run EXCEPT ![p].oldest = old]
      BY <2>3 DEF SnapshotTier2, OldestOf
    <3>2. old \subseteq Row
      BY DEF SkipInv, Kept, Complete, ActiveTier
    <3>3. [run[p] EXCEPT !.oldest = old] \in Run
      BY <1>1, <3>2 DEF Run
    <3>. QED  BY <1>1, <3>1, <3>3
  <2>4. CASE run' = [run EXCEPT ![p] = NoRun]
    BY <2>4, NothingRun
  <2>. QED  BY <2>1, <2>2, <2>3, <2>4 DEF Poll, CreateWindow, AcquireLock,
            CheckInConnection, LoadWindowConfig, Consolidate, Finalize, Release, Escape
<1>5. PICK node \in Moving, r \in Run :
          pc' = [pc EXCEPT ![p] = node] /\ run' = [run EXCEPT ![p] = r]
  BY <1>2, <1>4
<1>6. \A w, rows : Relies(node, r, w, rows)
  BY <1>5 DEF Relies
<1>7. CASE CreateWindow(p)
  <2>1. window # "deleted" /\ window' # "deleted"
    BY <1>7 DEF CreateWindow
  <2>2. ASSUME NEW q \in Assemblers PROVE Relies(pc'[q], run'[q], window', summaries')
    <3>1. CASE q = p
      BY <1>1, <1>5, <1>6, <3>1
    <3>2. CASE q # p
      <4>1. pc'[q] = pc[q] /\ run'[q] = run[q]
        BY <1>1, <1>5, <3>2
      <4>2. Relies(pc[q], run[q], window, summaries)
        BY DEF SkipInv, Relying
      <4>. QED  BY <1>3, <2>1, <4>1, <4>2 DEF Relies
    <3>. QED  BY <3>1, <3>2
  <2>3. pc' \in [Assemblers -> Nodes] /\ run' \in [Assemblers -> Run]
    BY <1>1, <1>5
  <2>. QED  BY <1>3, <2>2, <2>3 DEF SkipInv, Kept, Relying
<1>8. CASE window' = window
  BY <1>3, <1>5, <1>6, <1>8, OneGoesOnQuietly
<1>. QED  BY <1>7, <1>8 DEF Poll, CreateWindow, AcquireLock, CheckInConnection,
          LoadWindowConfig, CountSummaries, SnapshotTier2, Consolidate, Finalize,
          Release, Escape
LEMMA LoadsFromTheFirst ==
    ASSUME LoadsAll, SkipInv, NEW p \in Assemblers, LoadMessages(p) \/ CountTier2(p)
    PROVE  SkipInv'
<1>1. /\ run \in [Assemblers -> Run] /\ run[p] \in Run
      /\ msgs \in Seq(Sizes) /\ Len(msgs) \in Nat /\ Len(msgs) <= MaxSeq /\ MaxSeq \in Nat
      /\ UNCHANGED <<window, msgs, summaries, active>>
  BY AssemblyAssumption DEF SkipInv, Kept, Relying, LoadMessages, CountTier2
<1>2. CASE LoadMessages(p)
  <2>. DEFINE stored == IF window = "deleted" THEN 0 ELSE Len(msgs)
              limit == LoadLimit(~run[p].first)
              start == stored - limit + 1
              lo == Max({1, start})
              r == [run[p] EXCEPT !.lo = lo, !.hi = stored]
              node == IF stored = 0 THEN "finalize" ELSE "count_tier2"
  <2>1. stored \in Nat /\ stored <= MaxSeq
    BY <1>1
  <2>2. limit \in Nat /\ limit >= MaxSeq
    <3>1. run[p].first \in BOOLEAN
      BY <1>1 DEF Run
    <3>. DEFINE least == LoadLimit(TRUE)
    <3>2. limit \in Nat /\ limit >= least /\ least \in Nat
      BY <3>1, Limits
    <3>3. MaxSeq <= least
      BY DEF LoadsAll
    <3>. HIDE DEF limit, least
    <3>. QED  BY <1>1, <3>2, <3>3
  <2>3. run' = [run EXCEPT ![p] = r] /\ pc' = [pc EXCEPT ![p] = node]
    BY <1>1, <1>2 DEF LoadMessages, Goto
  <2>. HIDE DEF stored, limit
  <2>4. lo = 1
    <3>1. 1 \in Int /\ start \in Int /\ start <= 1
      BY <1>1, <2>1, <2>2
    <3>. HIDE DEF start
    <3>2. Max({1, start}) \in {1, start} /\ Max({1, start}) >= 1
      BY <3>1, OfTwo
    <3>. QED  BY <3>1, <3>2
  <2>. HIDE DEF lo
  <2>5. r \in Run /\ r.lo = 1 /\ r.hi = stored
    BY <1>1, <2>1, <2>4 DEF Run
  <2>. HIDE DEF r
  <2>6. Relies(node, r, window, summaries) /\ node \in Nodes
    BY <1>1, <2>1, <2>5 DEF Relies, Nodes
  <2>. QED  BY <1>1, <2>3, <2>5, <2>6, OneGoesOnQuietly
<1>3. CASE CountTier2(p)
  <2>. DEFINE k == Cardinality(ActiveTier(2))
              r == [run[p] EXCEPT !.tier2 = k]
  <2>1. run' = [run EXCEPT ![p] = r] /\ pc' = [pc EXCEPT ![p] = "plan"]
    BY <1>1, <1>3 DEF CountTier2, Goto
  <2>2. Relies("count_tier2", run[p], window, summaries)
    BY <1>3 DEF SkipInv, Relying, CountTier2
  <2>3. k \in Nat
    <3>1. IsFiniteSet(ActiveTier(2))
      BY FS_Subset DEF SkipInv, Kept, ActiveTier
    <3>. QED  BY <3>1, FS_CardinalityType
  <2>. HIDE DEF k
  <2>4. r \in Run /\ r.lo = run[p].lo /\ r.hi = run[p].hi
    BY <1>1, <2>3 DEF Run
  <2>. HIDE DEF r
  <2>5. Relies("plan", r, window, summaries)
    BY <2>2, <2>4 DEF Relies
  <2>. QED  BY <1>1, <2>1, <2>4, <2>5, OneGoesOnQuietly DEF Nodes
<1>. QED  BY <1>2, <1>3

(* The chunks of first..last begin with first and leave no gap.            *)
LEMMA ChunksFollow ==
    ASSUME NEW first \in Nat \ {0}, NEW last \in Nat, first <= last, last <= MaxSeq,
           NEW rows, \A s \in 1..(first - 1) : Told(s, rows)
    PROVE  LET cs == ChunksOf(first, last)
           IN  cs \in Seq(Chunk) /\ cs # <<>> /\ Follows(cs, rows)
<1>. DEFINE k == (last - first + ChunkSize) \div ChunkSize
            end(i) == Min({first + i * ChunkSize - 1, last})
            cs == ChunksOf(first, last)
<1>1. ChunkSize \in Nat \ {0} /\ MaxSeq \in Nat /\ last - first \in Nat
  BY AssemblyAssumption
<1>2. /\ k \in Nat /\ k >= 1
      /\ \A i \in 1..k : /\ (i - 1) * ChunkSize \in Nat /\ (i - 1) * ChunkSize <= last - first
                         /\ i * ChunkSize = (i - 1) * ChunkSize + ChunkSize
  BY <1>1, Groups
<1>3. cs = [i \in 1..k |-> [from |-> first + (i - 1) * ChunkSize, to |-> end(i), ok |-> TRUE]]
  BY DEF ChunksOf
<1>4. cs \in Seq(Chunk) /\ cs # <<>> /\ Ahead(cs, first - 1, MaxSeq)
  <2>. DEFINE h == first - 1
  <2>1. h \in Nat /\ h < first
    OBVIOUS
  <2>. HIDE DEF h, cs
  <2>2. ChunksOf(first, last) \in Seq(Chunk) /\ ChunksOf(first, last) # <<>>
        /\ Ahead(ChunksOf(first, last), h, MaxSeq)
    BY <1>1, <2>1, ChunksAhead
  <2>. QED  BY <2>2 DEF h, cs
<1>. HIDE DEF k, cs
<1>5. Len(cs) = k
  BY <1>2, <1>3, <1>4
<1>6. ASSUME NEW i \in 1..k
      PROVE  cs[i].ok /\ cs[i].to <= MaxSeq /\ cs[i].from = first + (i - 1) * ChunkSize
             /\ cs[i].to = end(i)
  BY <1>3, <1>4, <1>5 DEF Ahead
<1>7. ASSUME NEW i \in 1..(k - 1) PROVE cs[i + 1].from = cs[i].to + 1
  <2>. DEFINE b == first + i * ChunkSize - 1
  <2>1. i \in 1..k /\ i + 1 \in 1..k /\ (i + 1) - 1 = i
    BY <1>2
  <2>2. cs[i + 1].from = first + i * ChunkSize /\ cs[i].to = Min({b, last})
    BY <1>6, <2>1
  <2>3. i * ChunkSize \in Nat /\ i * ChunkSize <= last - first
    BY <1>2, <2>1
  <2>4. b \in Int /\ last \in Int /\ b <= last /\ b + 1 = first + i * ChunkSize
    BY <2>3
  <2>. HIDE DEF b
  <2>5. Min({b, last}) \in {b, last} /\ Min({b, last}) <= b
    BY <2>4, OfTwo
  <2>6. Min({b, last}) = b
    BY <2>4, <2>5
  <2>. QED  BY <2>2, <2>4, <2>6
<1>8. cs[1].from = first
  <2>1. (1 - 1) * ChunkSize = 0 /\ 1 \in 1..k
    BY <1>1, <1>2
  <2>2. cs[1].from = first + (1 - 1) * ChunkSize
    BY <1>6, <2>1
  <2>. QED  BY <2>1, <2>2
<1>9. Follows(cs, rows)
  BY <1>5, <1>6, <1>7, <1>8 DEF Follows
<1>. QED  BY <1>4, <1>9 DEF cs

LEMMA PlanFollows ==
    ASSUME SkipInv, NEW p \in Assemblers, PlanChunks(p)
    PROVE  SkipInv'
<1>. DEFINE r == run[p]
            h == HighestSummarized
            last == Tier1Start(r) - 1
            first == Max({r.lo, h + 1})
            chunks == IF first <= last THEN ChunksOf(first, last) ELSE <<>>
            new == [r EXCEPT !.chunks = chunks, !.atMax = last >= r.lo /\ r.tier2 >= MaxChunks]
            node == IF chunks = <<>> THEN "snapshot" ELSE "summarize"
<1>1. /\ r \in Run /\ run \in [Assemblers -> Run] /\ MaxSeq \in Nat
      /\ Relies("plan", r, window, summaries)
      /\ UNCHANGED <<window, msgs, summaries, active>>
  BY AssemblyAssumption DEF SkipInv, Relying, PlanChunks
<1>2. run' = [run EXCEPT ![p] = new] /\ pc' = [pc EXCEPT ![p] = node]
  BY <1>1 DEF PlanChunks, Goto
<1>3. r.lo = 1 /\ r.hi \in 1..MaxSeq
  BY <1>1 DEF Relies
<1>4. h \in Nat /\ \A s \in 1..h : Told(s, summaries)
  <2>1. active \subseteq Row /\ Chunks(active) \subseteq summaries /\ Complete(summaries)
    BY DEF SkipInv, Kept, Complete, Chunks
  <2>2. \A c \in Chunks(active) : c.to <= MaxSeq /\ \A s \in 1..c.to : Told(s, summaries)
    BY <2>1 DEF Complete, Chunks
  <2>3. /\ HighestOf(active) \in 0..MaxSeq
        /\ HighestOf(active) = 0 \/ \E c \in Chunks(active) : c.to = HighestOf(active)
    BY <1>1, <2>1, <2>2, HighestIs
  <2>. QED  BY <2>2, <2>3, BoundaryIs
<1>5. last \in Nat /\ last <= MaxSeq
  <2>1. Tier1Start(r) \in r.lo..(r.hi + 1)
    <3>. HIDE DEF r
    <3>. QED  BY <1>1, <1>3, Tier1Within
  <2>. HIDE DEF r
  <2>. QED  BY <1>1, <1>3, <2>1
<1>6. first = h + 1
  <2>. DEFINE next == h + 1
  <2>1. 1 \in Int /\ next \in Int /\ next >= 1
    BY <1>4
  <2>2. Max({1, next}) = next
    <3>. HIDE DEF next
    <3>1. Max({1, next}) \in {1, next} /\ Max({1, next}) >= next
      BY <2>1, OfTwo
    <3>. QED  BY <2>1, <3>1
  <2>. QED  BY <1>3, <2>2
<1>7. chunks \in Seq(Chunk) /\ (chunks # <<>> => Follows(chunks, summaries))
  <2>1. first \in Nat \ {0} /\ \A s \in 1..(first - 1) : Told(s, summaries)
    <3>. HIDE DEF first, h
    <3>. QED  BY <1>4, <1>6
  <2>. HIDE DEF r, h, last, first
  <2>2. CASE first <= last
    BY <1>5, <2>1, <2>2, ChunksFollow
  <2>3. CASE ~(first <= last)
    BY <2>3
  <2>. QED  BY <2>2, <2>3
<1>. HIDE DEF chunks, h, last
<1>8. new \in Run /\ new.chunks = chunks
  <2>1. (last >= r.lo /\ r.tier2 >= MaxChunks) \in BOOLEAN
    OBVIOUS
  <2>. QED  BY <1>1, <1>7, <2>1 DEF Run
<1>. HIDE DEF new
<1>9. Relies(node, new, window, summaries) /\ node \in Nodes
  BY <1>7, <1>8 DEF Relies, Nodes
<1>. QED  BY <1>1, <1>2, <1>8, <1>9, OneGoesOnQuietly
LEMMA SummariesFollow ==
    ASSUME ~MayFail, SkipInv, NEW p \in Assemblers, SummarizeChunks(p)
    PROVE  SkipInv'
<1>. DEFINE r == run[p]
            cs == r.chunks
            ds == [i \in DOMAIN cs |-> [cs[i] EXCEPT !.ok = i \notin {}]]
            new == [r EXCEPT !.chunks = ds, !.hadErrors = FALSE]
<1>1. /\ r \in Run /\ run \in [Assemblers -> Run]
      /\ Relies("summarize", r, window, summaries)
      /\ UNCHANGED <<window, msgs, summaries, active>>
  BY DEF SkipInv, Relying, SummarizeChunks
<1>2. run' = [run EXCEPT ![p] = new] /\ pc' = [pc EXCEPT ![p] = "insert"]
  <2>1. run' = [run EXCEPT
            ![p].chunks = [i \in DOMAIN @ |-> [@[i] EXCEPT !.ok = i \notin {}]],
            ![p].hadErrors = {} # {}]
    BY DEF SummarizeChunks
  <2>. QED  BY <1>1, <2>1 DEF SummarizeChunks, Goto
<1>3. cs \in Seq(Chunk) /\ cs # <<>> /\ (window # "deleted" => Follows(cs, summaries))
  BY <1>1 DEF Run, Relies
<1>. HIDE DEF cs
<1>4. /\ ds \in Seq(Chunk) /\ Len(ds) = Len(cs) /\ ds # <<>> /\ Len(cs) \in Nat
      /\ \A i \in 1..Len(cs) : ds[i].from = cs[i].from /\ ds[i].to = cs[i].to /\ ds[i].ok
  <2>1. \A i \in 1..Len(cs) : cs[i] \in Chunk
    BY <1>3
  <2>2. \A i \in 1..Len(cs) : /\ [cs[i] EXCEPT !.ok = i \notin {}] \in Chunk
                              /\ [cs[i] EXCEPT !.ok = i \notin {}].from = cs[i].from
                              /\ [cs[i] EXCEPT !.ok = i \notin {}].to = cs[i].to
                              /\ [cs[i] EXCEPT !.ok = i \notin {}].ok
    BY <2>1 DEF Chunk
  <2>3. DOMAIN cs = 1..Len(cs) /\ Len(cs) \in Nat /\ Len(cs) # 0
    BY <1>3
  <2>4. ds \in [1..Len(cs) -> Chunk]
    BY <2>2, <2>3
  <2>5. \A i \in 1..Len(cs) : ds[i].from = cs[i].from /\ ds[i].to = cs[i].to /\ ds[i].ok
    BY <2>2, <2>3
  <2>. HIDE DEF ds
  <2>. QED  BY <2>3, <2>4, <2>5
<1>. HIDE DEF ds
<1>5. window # "deleted" => Follows(ds, summaries)
  <2>1. 1 \in 1..Len(cs) /\ \A i \in 1..(Len(cs) - 1) : i \in 1..Len(cs) /\ i + 1 \in 1..Len(cs)
    BY <1>3, <1>4
  <2>. QED  BY <1>3, <1>4, <2>1 DEF Follows
<1>6. new \in Run /\ new.chunks = ds
  BY <1>1, <1>4 DEF Run
<1>. HIDE DEF new
<1>7. Relies("insert", new, window, summaries)
  BY <1>4, <1>5, <1>6 DEF Relies
<1>. QED  BY <1>1, <1>2, <1>6, <1>7, OneGoesOnQuietly DEF Nodes

(* When the first chunk is told, the others follow.                        *)
LEMMA TailFollows ==
    ASSUME NEW cs \in Seq(Chunk), cs # <<>>, NEW rows, Follows(cs, rows), NEW more,
           rows \cup {Row2(Head(cs).from, Head(cs).to)} \subseteq more
    PROVE  /\ Head(cs) \in Chunk /\ Head(cs).ok /\ Head(cs).to <= MaxSeq
           /\ \A s \in 1..Head(cs).to : Told(s, more)
           /\ Tail(cs) \in Seq(Chunk) /\ Follows(Tail(cs), more)
<1>1. Head(cs) = cs[1] /\ 1 \in 1..Len(cs) /\ cs[1] \in Chunk /\ Tail(cs) \in Seq(Chunk)
  OBVIOUS
<1>2. /\ Len(cs) \in Nat /\ Len(Tail(cs)) = Len(cs) - 1
      /\ \A i \in 1..Len(Tail(cs)) : Tail(cs)[i] = cs[i + 1]
  OBVIOUS
<1>. DEFINE t == Tail(cs)
            c == cs[1]
<1>3. \A s \in 1..c.to : Told(s, more)
  <2>1. \A s \in 1..(c.from - 1) : Told(s, more)
    BY DEF Follows, Told
  <2>2. Row2(c.from, c.to) \in more /\ c.from \in Nat /\ c.to \in Nat
    BY <1>1 DEF Chunk
  <2>3. \A s \in c.from..c.to : Told(s, more)
    BY <2>2 DEF Told, Row2
  <2>4. \A s \in 1..c.to : s \in 1..(c.from - 1) \/ s \in c.from..c.to
    BY <2>2
  <2>. QED  BY <2>1, <2>3, <2>4
<1>4. \A i \in 1..Len(t) : i + 1 \in 1..Len(cs) /\ t[i].ok /\ t[i].to <= MaxSeq
  BY <1>2 DEF Follows
<1>5. \A i \in 1..(Len(t) - 1) : t[i + 1].from = t[i].to + 1
  <2>1. \A i \in 1..(Len(t) - 1) : /\ i \in 1..Len(t) /\ i + 1 \in 1..Len(t)
                                   /\ i + 1 \in 1..(Len(cs) - 1)
    BY <1>2
  <2>. QED  BY <1>2, <2>1 DEF Follows
<1>6. t # <<>> => t[1].from - 1 = c.to
  <2>1. t # <<>> => 1 \in 1..Len(t) /\ 1 \in 1..(Len(cs) - 1)
    BY <1>1, <1>2
  <2>2. t # <<>> => t[1] = cs[2] /\ cs[2].from = c.to + 1
    BY <1>2, <2>1 DEF Follows
  <2>3. c.to \in Nat
    BY <1>1 DEF Chunk
  <2>. QED  BY <2>2, <2>3
<1>. HIDE DEF t
<1>7. Follows(t, more)
  BY <1>3, <1>4, <1>5, <1>6 DEF Follows
<1>. QED  BY <1>1, <1>3, <1>7 DEF Follows, t

LEMMA InsertFollows ==
    ASSUME SkipInv, NEW p \in Assemblers, InsertChunk(p) \/ StopAtBudget(p)
    PROVE  SkipInv'
<1>. DEFINE r == run[p]
            cs == r.chunks
            row == Row2(Head(cs).from, Head(cs).to)
<1>1. /\ r \in Run /\ run \in [Assemblers -> Run] /\ pc[p] = "insert"
      /\ Relies("insert", r, window, summaries) /\ UNCHANGED <<window, msgs>>
      /\ Kept
  BY DEF SkipInv, Relying, InsertChunk, StopAtBudget
<1>2. cs \in Seq(Chunk) /\ cs # <<>> /\ (window # "deleted" => Follows(cs, summaries))
  BY <1>1 DEF Run, Relies
<1>3. ASSUME NEW rest \in Seq(Chunk), GotoAfterChunks(p, rest), summaries \subseteq summaries',
             window # "deleted" => Follows(rest, summaries')
      PROVE  Relying'
  <2>. DEFINE new == [r EXCEPT !.chunks = rest]
              node == IF rest # <<>> THEN "insert"
                      ELSE IF r.atMax THEN "snapshot" ELSE "finalize"
  <2>1. run' = [run EXCEPT ![p] = new] /\ pc' = [pc EXCEPT ![p] = node]
    BY <1>1, <1>3 DEF GotoAfterChunks, Goto
  <2>2. new \in Run /\ new.chunks = rest
    BY <1>1 DEF Run
  <2>. HIDE DEF new
  <2>3. Relies(node, new, window, summaries') /\ node \in Nodes
    BY <1>3, <2>2 DEF Relies, Nodes
  <2>. QED  BY <1>1, <1>3, <2>1, <2>2, <2>3, OneGoesOn
<1>4. CASE StopAtBudget(p)
  <2>1. <<>> \in Seq(Chunk) /\ \A rows : Follows(<<>>, rows)
    BY DEF Follows
  <2>2. GotoAfterChunks(p, <<>>) /\ UNCHANGED <<summaries, active>>
    BY <1>4 DEF StopAtBudget
  <2>. QED  BY <1>1, <1>3, <2>1, <2>2 DEF SkipInv, Kept
<1>5. CASE InsertChunk(p)
  <2>1. /\ GotoAfterChunks(p, Tail(cs))
        /\ \/ UNCHANGED <<summaries, active>> /\ (Head(cs).ok => row \in summaries)
           \/ /\ window = "live" /\ summaries' = summaries \cup {row}
              /\ active' = active \cup {row}
    BY <1>5 DEF InsertChunk
  <2>2. Tail(cs) \in Seq(Chunk)
    BY <1>2
  <2>. HIDE DEF cs
  <2>3. CASE window = "deleted"
    <3>1. UNCHANGED <<summaries, active>>
      BY <2>1, <2>3
    <3>. QED  BY <1>1, <1>3, <2>1, <2>2, <2>3, <3>1 DEF SkipInv, Kept
  <2>4. CASE window # "deleted"
    <3>1. Follows(cs, summaries) /\ Head(cs).ok
      <4>1. Head(cs) = cs[1] /\ 1 \in 1..Len(cs)
        BY <1>2
      <4>. QED  BY <1>2, <2>4, <4>1 DEF Follows
    <3>2. summaries' = summaries \cup {row} /\ active' \subseteq summaries'
      BY <1>1, <2>1, <3>1 DEF Kept
    <3>3. /\ Head(cs) \in Chunk /\ Head(cs).to <= MaxSeq
          /\ \A s \in 1..Head(cs).to : Told(s, summaries')
          /\ Follows(Tail(cs), summaries')
      BY <1>2, <3>1, <3>2, TailFollows
    <3>4. Relying'
      BY <1>3, <2>1, <2>2, <3>2, <3>3
    <3>5. row \in Row /\ row.to = Head(cs).to
      BY <3>3 DEF Chunk, Row, Row2
    <3>6. IsFiniteSet(summaries')
      BY <1>1, <3>2, FS_AddElement DEF Kept
    <3>7. Complete(summaries')
      BY <1>1, <3>2, <3>3, <3>5 DEF Kept, Complete, Told
    <3>. QED  BY <1>1, <3>2, <3>4, <3>6, <3>7 DEF SkipInv, Kept
  <2>. QED  BY <2>3, <2>4
<1>. QED  BY <1>4, <1>5
LEMMA ArchiveTells ==
    ASSUME SkipInv, NEW p \in Assemblers, Archive(p)
    PROVE  SkipInv'
<1>1. /\ run \in [Assemblers -> Run] /\ run[p] \in Run /\ run' = [run EXCEPT ![p] = run[p]]
      /\ pc' = [pc EXCEPT ![p] = "finalize"] /\ UNCHANGED <<window, msgs>> /\ Kept
  BY DEF SkipInv, Relying, Archive, Goto
<1>2. PICK row \in ArchivalRows(run[p].oldest) :
          /\ summaries' = summaries \cup {Header, row}
          /\ active' = (active \ (ActiveTier(3) \cup run[p].oldest)) \cup {Header, row}
  BY DEF Archive
<1>3. {Header, row} \subseteq Row /\ Header.tier # 2 /\ row.tier # 2
  <2>1. run[p].oldest \subseteq Row
    BY <1>1 DEF Run
  <2>. QED  BY <1>2, <2>1 DEF ArchivalRows, Header, Row3, Row
<1>4. summaries \subseteq summaries' /\ active' \subseteq summaries' /\ IsFiniteSet(summaries')
  <2>1. (summaries \cup {Header}) \cup {row} = summaries'
    BY <1>2
  <2>2. IsFiniteSet((summaries \cup {Header}) \cup {row})
    BY <1>1, FS_AddElement DEF Kept
  <2>. QED  BY <1>1, <1>2, <2>1, <2>2 DEF Kept
<1>5. Complete(summaries')
  <2>1. \A r \in summaries' : r.tier = 2 => r \in summaries
    BY <1>2, <1>3
  <2>. QED  BY <1>1, <1>2, <1>3, <1>4, <2>1 DEF Kept, Complete, Told
<1>6. Relies("finalize", run[p], window, summaries') /\ "finalize" \in Nodes
  BY DEF Relies, Nodes
<1>7. Relying'
  <2>. DEFINE r == run[p]
  <2>1. r \in Run /\ run' = [run EXCEPT ![p] = r] /\ Relies("finalize", r, window, summaries')
    BY <1>1, <1>6
  <2>. HIDE DEF r
  <2>. QED  BY <1>1, <1>4, <1>6, <2>1, OneGoesOn
<1>. QED  BY <1>1, <1>4, <1>5, <1>7 DEF SkipInv, Kept

LEMMA OthersTell ==
    ASSUME SkipInv, StoreMessage \/ DeleteConversation
    PROVE  SkipInv'
<1>1. UNCHANGED <<pc, run>> /\ Kept
  BY DEF StoreMessage, DeleteConversation, SkipInv
<1>2. Kept'
  <2>1. CASE StoreMessage
    <3>1. PICK size \in Sizes : msgs' = Append(msgs, size)
      BY <2>1 DEF StoreMessage
    <3>2. Len(msgs) < MaxSeq /\ MaxSeq \in Nat /\ UNCHANGED <<summaries, active>>
      BY <2>1, AssemblyAssumption DEF StoreMessage
    <3>3. msgs' \in Seq(Sizes) /\ Len(msgs') = Len(msgs) + 1
      BY <1>1, <3>1 DEF Kept
    <3>. QED  BY <1>1, <3>2, <3>3 DEF Kept
  <2>2. CASE DeleteConversation
    BY <1>1, <2>2, FS_EmptySet DEF DeleteConversation, Kept, Complete
  <2>. QED  BY <2>1, <2>2
<1>3. \A p \in Assemblers : Relies(pc[p], run[p], window', summaries')
  BY DEF SkipInv, Relying, Relies, StoreMessage, DeleteConversation
<1>. QED  BY <1>1, <1>2, <1>3 DEF SkipInv, Relying

LEMMA InitSkipInv == ASSUME Init PROVE SkipInv
<1>1. msgs = <<>> /\ active = {} /\ summaries = {} /\ MaxSeq \in Nat
  BY AssemblyAssumption DEF Init
<1>2. msgs \in Seq(Sizes) /\ Len(msgs) = 0
  BY <1>1
<1>3. Kept
  BY <1>1, <1>2, FS_EmptySet DEF Kept, Complete
<1>4. pc \in [Assemblers -> Nodes] /\ run \in [Assemblers -> Run]
  BY NothingRun DEF Init, Nodes
<1>5. \A p \in Assemblers : Relies(pc[p], run[p], window, summaries)
  BY DEF Init, Relies
<1>. QED  BY <1>3, <1>4, <1>5 DEF SkipInv, Relying

LEMMA SkipStep ==
    ASSUME LoadsAll, ~MayFail, SkipInv, [FaultyNext]_vars
    PROVE  SkipInv'
<1>1. CASE StoreMessage \/ DeleteConversation
  BY <1>1, OthersTell
<1>2. CASE Poll
  BY <1>2, OneMoves DEF Assemblers
<1>3. ASSUME NEW p \in Assemblers, CreateWindow(p) \/ Step(p)
      PROVE  SkipInv'
  BY <1>3, OneMoves, LoadsFromTheFirst, PlanFollows, SummariesFollow, InsertFollows,
     ArchiveTells DEF Step
<1>4. ASSUME NEW p \in Assemblers, Fault(p)
      PROVE  SkipInv'
  BY <1>4, InsertFollows DEF Fault, ChunkPromptMissing, ConsolidateFails
<1>5. CASE UNCHANGED vars
  BY <1>5 DEF vars, SkipInv, Kept, Relying
<1>. QED  BY <1>1, <1>2, <1>3, <1>4, <1>5 DEF FaultyNext, Next

(* However many assemblers overlap in the graph, are stopped by the budget *)
(* guard or die half way: as long as every chunk that was sent to the      *)
(* model comes back and a run loads the whole conversation, what the chunk *)
(* summaries tell begins with the first message and has no gap.            *)
THEOREM NothingPassedOver ==
    ASSUME LoadsAll, ~MayFail
    PROVE  Spec => []NothingSkipped
<1>1. Init => SkipInv
  BY InitSkipInv
<1>2. SkipInv /\ [FaultyNext]_vars => SkipInv'
  BY SkipStep
<1>3. SkipInv => NothingSkipped
  <2>1. SUFFICES ASSUME Kept PROVE NothingSkipped
    BY DEF SkipInv
  <2>2. FirstDue = 1
    <3>. DEFINE limit == LoadLimit(TRUE)
    <3>1. Len(msgs) \in Nat /\ Len(msgs) <= MaxSeq /\ MaxSeq \in Nat
      BY <2>1, AssemblyAssumption DEF Kept
    <3>2. limit \in Nat /\ MaxSeq <= limit
      BY Limits DEF LoadsAll
    <3>3. Len(msgs) <= LoadLimit(TRUE)
      <4>. HIDE DEF limit
      <4>1. Len(msgs) <= limit
        BY <3>1, <3>2
      <4>. QED  BY <4>1 DEF limit
    <3>. QED  BY <3>3 DEF FirstDue
  <2>3. \A r \in summaries : r.tier = 2 => \A s \in 1..r.to : Told(s, summaries)
    BY <2>1 DEF Kept, Complete
  <2>. QED  BY <2>2, <2>3 DEF NothingSkipped, Summarized, Told
<1>. QED  BY <1>1, <1>2, <1>3, PTL DEF Spec
=============================================================================
