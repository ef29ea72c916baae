-------------------------- MODULE ReconcileProofs ---------------------------
(***************************************************************************)
(* Theorems about Reconcile, for any number of processes, calls and users, *)
(* any page and slice sizes, and any stalls, crashes and errors.           *)
(***************************************************************************)
EXTENDS Reconcile, FiniteSetTheorems, SequenceTheorems, TLAPS

Running == {"page", "entry", "act", "waived", "done"}
Reading == {"entry", "act", "waived"}

Slices == [start : Int, end : Int]

Jobs ==
    [stage : Stages, mark : Int, queue : Seq(Slices), slices : Int,
     source : {"admin", "user"}, list : SUBSET Users, more : SUBSET Users,
     page : Nat \ {0}, logs : Seq(Requests), full : BOOLEAN, status : RowStatuses]

TableType ==
    /\ kind \in Mixes
    /\ ledger \in [Requests -> Rows]
    /\ orphans \subseteq Requests /\ read \subseteq Requests
    /\ degraded \in BOOLEAN

LogType ==
    /\ clock \in 0..MaxTime
    /\ log \in Seq([call : Requests, time : Nat])
    /\ \A i \in DOMAIN log : log[i].time <= clock
    /\ \A i, k \in DOMAIN log :
          log[i].call = log[k].call => log[i].time = log[k].time
    /\ watermark \in Int \cup {NoTime}
    /\ since \in 0..clock

\* A process that runs no pass remembers nothing of the last one.
WellStaged(j) ==
    /\ j.stage \in Running => j.queue # <<>>
    /\ j.stage \in Reading => j.logs # <<>>
    /\ j.stage = "idle" => j = NoJob

JobType == job \in [Workers -> Jobs] /\ \A w \in Workers : WellStaged(job[w])

TypeInv == LockTypeOK /\ TableType /\ LogType /\ JobType

-----------------------------------------------------------------------------
(* What a pass knows.                                                      *)

\* The entry in place i needs no further reading.
Done(i) == log[i].call \in read \/ Unseen(log[i].call)

BehindIsDone(mark) ==
    \A i \in DOMAIN log :
        since <= log[i].time /\ log[i].time < mark - Overlap => Done(i)

\* Slices that follow each other and end where the pass began.
InOrder(q) ==
    /\ \A n \in 1..(Len(q) - 1) : q[n + 1].start = q[n].end
    /\ \A n \in 1..Len(q) : q[n].end <= q[Len(q)].end

\* A pass reads up to the time it began.  What is older by the overlap is not
\* inserted behind its back.
Horizon(j) == j.queue[Len(j.queue)].end

Fixed(i, j) == log[i].time < Horizon(j) - Overlap

QueueInOrder(j) == InOrder(j.queue) /\ Horizon(j) <= clock /\ j.mark <= clock

SlicesBehindAreDone(j) ==
    \A i \in DOMAIN log :
        since <= log[i].time /\ log[i].time < Head(j.queue).start /\ Fixed(i, j)
        => Done(i)

\* The lists the pass has left behind.
ListsBehindAreRead(j) ==
    /\ j.source = "admin" => j.list = Users /\ j.more = {}
    /\ j.source = "user" =>
          /\ degraded
          /\ \A i \in Listed(Head(j.queue), Bound \ (j.list \cup j.more)) :
                Fixed(i, j) => log[i].call \in read

Place(i, j) == Rank(i, Listed(Head(j.queue), j.list))

PagesBehindAreRead(j) ==
    \A i \in Listed(Head(j.queue), j.list) :
        Fixed(i, j) /\ Place(i, j) <= (j.page - 1) * PageSize
        => log[i].call \in read

Pending(r, j) == \E n \in DOMAIN j.logs : j.logs[n] = r

PageIsPending(j) ==
    \A i \in Listed(Head(j.queue), j.list) :
        Fixed(i, j) /\ (j.full => Place(i, j) <= j.page * PageSize)
        => log[i].call \in read \/ Pending(log[i].call, j)

SliceIsDone(j) ==
    \A i \in Listed(Head(j.queue), Users) : Fixed(i, j) => Done(i)

Base(j) == QueueInOrder(j) /\ BehindIsDone(j.mark) /\ SlicesBehindAreDone(j)

PassInv(w) ==
    LET j == job[w] IN
    j.stage \in Running =>
        /\ Base(j)
        /\ j.stage # "done" => ListsBehindAreRead(j)
        /\ j.stage = "page" => PagesBehindAreRead(j)
        /\ j.stage \in Reading => PageIsPending(j)
        /\ j.stage = "done" => SliceIsDone(j)

WatermarkInv ==
    watermark # NoTime => watermark <= clock /\ BehindIsDone(watermark)

ReadInv == WatermarkInv /\ \A w \in Workers : PassInv(w)

-----------------------------------------------------------------------------
(* What a pass knows of the row it is about to write.                      *)

RowKnown(w) ==
    LET r == Head(job[w].logs) IN
    /\ job[w].stage = "act" =>
          /\ job[w].status \in {"settled", "failed_unbilled"} =>
                ledger[r].status = job[w].status
          /\ job[w].status = "open" => ledger[r].status # "none"
    /\ job[w].stage = "waived" => ledger[r].status = "failed_unbilled"

Fits(row) ==
    /\ row.status \in {"none", "open"} => row.verdict = "pending"
    /\ row.verdict = "compared" => row.status = "settled"
    /\ row.verdict \in {"waived_by_missing_usage", "waived_by_failure"} =>
          row.status = "failed_unbilled"

RowInv ==
    /\ \A w \in Workers : RowKnown(w)
    /\ \A r \in Requests : Fits(ledger[r])
    /\ ReadLeavesTrace

-----------------------------------------------------------------------------
(* Places in a listing.                                                    *)

(***************************************************************************)
(* The places of the entries of a listing are 1 to its length, each taken  *)
(* once: what New API's pages partition.                                   *)
(***************************************************************************)
LEMMA RanksArePlaces ==
    ASSUME NEW S \in SUBSET Int, IsFiniteSet(S)
    PROVE  /\ Cardinality(S) \in Nat
           /\ \A i \in S : Rank(i, S) \in 1..Cardinality(S)
           /\ \A i, k \in S : Rank(i, S) = Rank(k, S) => i = k
           /\ \A n \in 1..Cardinality(S) : \E i \in S : Rank(i, S) = n
<1> DEFINE From(i) == {j \in S : j >= i}
           N == Cardinality(S)
<1>1. N \in Nat
    BY FS_CardinalityType
<1>2. ASSUME NEW i \in S
      PROVE  /\ IsFiniteSet(From(i)) /\ Cardinality(From(i)) \in 1..N
    <2>1. IsFiniteSet(From(i)) /\ Cardinality(From(i)) <= N
        BY FS_Subset, From(i) \in SUBSET S
    <2>2. Cardinality(From(i)) \in Nat
        BY <2>1, FS_CardinalityType
    <2>3. i \in From(i)
        OBVIOUS
    <2>4. Cardinality(From(i)) # 0
        BY <2>1, <2>3, FS_EmptySet
    <2> QED  BY <1>1, <2>1, <2>2, <2>4
<1>3. ASSUME NEW i \in S, NEW k \in S, i < k
      PROVE  Cardinality(From(i)) # Cardinality(From(k))
    <2>1. From(k) \in SUBSET From(i) /\ i \in From(i) /\ i \notin From(k)
        <3>1. i \in Int /\ k \in Int /\ \A j \in S : j \in Int
            OBVIOUS
        <3>2. \A j \in S : j >= k => j >= i
            BY <1>3, <3>1
        <3>3. i >= i /\ ~(i >= k)
            BY <1>3, <3>1
        <3> QED  BY <3>2, <3>3
    <2>2. From(i) # From(k)
        BY <2>1
    <2>3. IsFiniteSet(From(i))
        BY <1>2
    <2>4. Cardinality(From(i)) = Cardinality(From(k)) => From(i) = From(k)
        BY <2>1, <2>3, FS_Subset
    <2> QED  BY <2>2, <2>4
<1>4. \A i \in S : Rank(i, S) \in 1..N
    BY <1>2 DEF Rank
<1>5. \A i, k \in S : Rank(i, S) = Rank(k, S) => i = k
    <2> SUFFICES ASSUME NEW i \in S, NEW k \in S, i # k
                 PROVE  Rank(i, S) # Rank(k, S)
        OBVIOUS
    <2>1. i < k \/ k < i
        OBVIOUS
    <2> QED  BY <1>3, <2>1 DEF Rank
<1>6. \A n \in 1..N : \E i \in S : Rank(i, S) = n
    <2> DEFINE place == [i \in S |-> Rank(i, S)]
    <2>1. place \in Injection(S, 1..N)
        BY <1>4, <1>5 DEF Injection, IsInjective
    <2>2. IsFiniteSet(1..N) /\ Cardinality(1..N) = N
        BY <1>1, FS_Interval
    <2>3. place \in Surjection(S, 1..N)
        BY <2>1, <2>2, FS_Injection
    <2> QED  BY <2>3 DEF Surjection
<1> QED  BY <1>1, <1>4, <1>5, <1>6
\* The positions of the log and what they hold.
LEMMA LogShape ==
    ASSUME LogType
    PROVE  /\ Len(log) \in Nat /\ DOMAIN log = 1..Len(log)
           /\ \A i \in DOMAIN log : log[i].call \in Requests /\ log[i].time \in Nat
<1>1. log \in [1..Len(log) -> [call : Requests, time : Nat]] /\ Len(log) \in Nat
    <2>1. log \in Seq([call : Requests, time : Nat])
        BY DEF LogType
    <2> QED  BY <2>1, LenProperties
<1>2. \A i \in DOMAIN log : log[i] \in [call : Requests, time : Nat]
    BY <1>1
<1> QED  BY <1>1, <1>2

(***************************************************************************)
(* A listing is a finite set of positions of the log.                      *)
(***************************************************************************)
LEMMA ListingsAreFinite ==
    ASSUME LogType, NEW S \in SUBSET DOMAIN log
    PROVE  IsFiniteSet(S) /\ S \in SUBSET Int
<1>1. DOMAIN log = 1..Len(log) /\ Len(log) \in Nat
    BY DEF LogType
<1>2. IsFiniteSet(1..Len(log))
    BY <1>1, FS_Interval
<1> QED  BY <1>1, <1>2, FS_Subset

(***************************************************************************)
(* A page holds the entries in its places of the listing, and a page that  *)
(* is not full is the last.  PageOf, as New API's page of a slice.         *)
(***************************************************************************)
LEMMA PagesHoldTheirPlaces ==
    ASSUME LogType, NEW S \in SUBSET DOMAIN log, NEW p \in Nat \ {0}
    PROVE  LET page == PageOf(S, p) IN
           /\ page \in Seq(Requests)
           /\ Len(page) # PageSize => \A i \in S : Rank(i, S) <= p * PageSize
           /\ \A i \in S :
                 Rank(i, S) > (p - 1) * PageSize /\ Rank(i, S) <= p * PageSize
                 => \E n \in DOMAIN page : page[n] = log[i].call
<1> USE ReconcileAssumption
<1> DEFINE before == (p - 1) * PageSize
           left == Cardinality(S) - before
           size == IF left < PageSize THEN left ELSE PageSize
           At(n) == CHOOSE i \in S : Rank(i, S) = before + n
           page == PageOf(S, p)
<1>1. IsFiniteSet(S) /\ S \in SUBSET Int
    BY ListingsAreFinite
<1>2. /\ Cardinality(S) \in Nat
      /\ \A i \in S : Rank(i, S) \in 1..Cardinality(S)
      /\ \A i, k \in S : Rank(i, S) = Rank(k, S) => i = k
      /\ \A n \in 1..Cardinality(S) : \E i \in S : Rank(i, S) = n
    BY <1>1, RanksArePlaces
<1>3. PageSize \in Nat \ {0}
    OBVIOUS
<1>4. before \in Nat /\ p * PageSize = before + PageSize
    <2>1. p - 1 \in Nat
        OBVIOUS
    <2>2. (p - 1) * PageSize \in Nat
        BY <2>1, <1>3
    <2>3. p * PageSize = (p - 1) * PageSize + PageSize
        BY <1>3
    <2> QED  BY <2>2, <2>3
<1> HIDE DEF before
<1>5. left \in Int /\ size \in Int /\ size <= left /\ size <= PageSize
    BY <1>2, <1>3, <1>4
<1>6. page = [n \in 1..size |-> log[At(n)].call]
    BY DEF PageOf, before
<1>7. ASSUME NEW n \in 1..size
      PROVE  At(n) \in S /\ Rank(At(n), S) = before + n
    <2>1. before + n \in 1..Cardinality(S)
        <3>1. Cardinality(S) \in Nat /\ before \in Nat
            BY <1>2, <1>4
        <3>2. n \in Int /\ 1 <= n /\ n <= left
            BY <1>5
        <3>3. left = Cardinality(S) - before
            OBVIOUS
        <3> HIDE DEF left, size, At, page
        <3> QED  BY <3>1, <3>2, <3>3
    <2>2. \E i \in S : Rank(i, S) = before + n
        BY <1>2, <2>1
    <2> QED  BY <2>2
<1>8. \A i \in DOMAIN log : log[i].call \in Requests
    BY LogShape
<1> HIDE DEF At, page, left, size
<1>9. page \in Seq(Requests) /\ (size >= 0 => Len(page) = size)
      /\ (size < 0 => Len(page) = 0)
    <2>1. \A n \in 1..size : page[n] \in Requests
        BY <1>6, <1>7, <1>8
    <2>2. CASE size \in Nat
        <3>1. page \in [1..size -> Requests]
            BY <1>6, <2>1
        <3> QED  BY <2>2, <3>1, <1>5
    <2>3. CASE size < 0
        <3>1. 1..size = {}
            BY <2>3, <1>5
        <3>2. page = <<>>
            BY <1>6, <3>1
        <3>3. page \in Seq(Requests) /\ Len(page) = 0
            BY <3>2
        <3> QED  BY <2>3, <3>3, <1>5
    <2> QED  BY <1>5, <2>2, <2>3
<1>10. ASSUME Len(page) # PageSize, NEW i \in S
       PROVE  Rank(i, S) <= p * PageSize
    <2>1. left < PageSize
        BY <1>3, <1>5, <1>9, <1>10 DEF size
    <2> QED  BY <1>2, <1>3, <1>4, <2>1 DEF left
<1>11. ASSUME NEW i \in S, Rank(i, S) > before, Rank(i, S) <= p * PageSize
       PROVE  \E n \in DOMAIN page : page[n] = log[i].call
    <2>1. Rank(i, S) - before \in 1..size
        BY <1>2, <1>3, <1>4, <1>11, SMTT(20) DEF size, left
    <2>2. At(Rank(i, S) - before) = i
        BY <1>2, <1>4, <1>7, <2>1, SMTT(20)
    <2> QED  BY <1>6, <2>1, <2>2
<1> QED  BY <1>9, <1>10, <1>11 DEF page, before

-----------------------------------------------------------------------------
(* The queue of a pass.                                                    *)

\* What rounding up means.
LEMMA SliceCount ==
    ASSUME NEW d \in Nat \ {0}
    PROVE  LET n == (d + Slice - 1) \div Slice IN
           /\ n \in Nat \ {0}
           /\ n * Slice >= d /\ (n - 1) * Slice < d
<1> USE ReconcileAssumption
<1> DEFINE n == (d + Slice - 1) \div Slice
<1>1. Slice \in Nat \ {0}
    OBVIOUS
<1>2. n \in Int /\ n * Slice <= d + Slice - 1 /\ d + Slice - 1 < n * Slice + Slice
    BY <1>1
<1> HIDE DEF n
<1>3. n * Slice > 0
    BY <1>1, <1>2
<1>4. n > 0
    BY <1>1, <1>2, <1>3
<1>5. (n - 1) * Slice = n * Slice - Slice
    BY <1>1, <1>2
<1> QED  BY <1>1, <1>2, <1>4, <1>5 DEF n

(***************************************************************************)
(* The slices of a pass begin at its start, follow each other and end now. *)
(***************************************************************************)
LEMMA SlicesCoverThePass ==
    ASSUME NEW start \in Int, NEW now \in Int, start < now
    PROVE  LET q == SlicesBetween(start, now) IN
           /\ q \in Seq(Slices) /\ q # <<>>
           /\ InOrder(q)
           /\ Head(q).start = start /\ q[Len(q)].end = now
<1> USE ReconcileAssumption
<1> DEFINE count == (now - start + Slice - 1) \div Slice
           End(i) == IF start + i * Slice < now THEN start + i * Slice ELSE now
           q == SlicesBetween(start, now)
<1>1. /\ count \in Nat \ {0}
      /\ count * Slice >= now - start /\ (count - 1) * Slice < now - start
    BY SliceCount, now - start \in Nat \ {0}
<1>2. q = [i \in 1..count |-> [start |-> start + (i - 1) * Slice, end |-> End(i)]]
    BY DEF SlicesBetween
<1> HIDE DEF count, q
<1>3. Slice \in Nat \ {0}
    OBVIOUS
<1>4. \A i \in 1..count : (i - 1) * Slice \in Int /\ i * Slice \in Int
    BY <1>1, <1>3
<1>5. ASSUME NEW i \in 1..count
      PROVE  End(i) \in Int /\ End(i) <= now
    <2> DEFINE x == i * Slice
    <2>1. x \in Int
        BY <1>4
    <2>2. End(i) = IF start + x < now THEN start + x ELSE now
        OBVIOUS
    <2> HIDE DEF x, End
    <2> QED  BY <2>1, <2>2
<1>6. ASSUME NEW i \in 1..(count - 1)
      PROVE  End(i) = start + i * Slice
    <2>1. i <= count - 1 /\ i \in Int /\ count - 1 \in Int
        BY <1>1
    <2>2. i * Slice <= (count - 1) * Slice
        BY <2>1, <1>3, SMTT(20)
    <2>3. i * Slice \in Int /\ (count - 1) * Slice \in Int
        BY <2>1, <1>3
    <2>4. start + i * Slice < now
        <3> DEFINE x == i * Slice
                   y == (count - 1) * Slice
        <3>1. x \in Int /\ y \in Int /\ x <= y /\ y < now - start
            BY <1>1, <2>2, <2>3
        <3> HIDE DEF x, y
        <3>2. start + x < now
            BY <3>1
        <3> QED  BY <3>2 DEF x
    <2> QED  BY <2>4
<1>7. End(count) = now
    <2> DEFINE x == count * Slice
    <2>1. x \in Int /\ x >= now - start
        BY <1>1, <1>4
    <2>2. End(count) = IF start + x < now THEN start + x ELSE now
        OBVIOUS
    <2> HIDE DEF x, End
    <2> QED  BY <2>1, <2>2
<1> HIDE DEF End
<1>8. q \in Seq(Slices) /\ Len(q) = count
    <2>1. \A i \in 1..count : q[i] \in Slices
        BY <1>2, <1>4, <1>5, SMTT(20) DEF Slices
    <2>2. q \in [1..count -> Slices]
        BY <1>2, <2>1
    <2> QED  BY <1>1, <2>2
<1>9. q # <<>>
    BY <1>1, <1>8, EmptySeq
<1>10. \A n \in 1..(Len(q) - 1) : q[n + 1].start = q[n].end
    <2> SUFFICES ASSUME NEW n \in 1..(count - 1)
                 PROVE  q[n + 1].start = q[n].end
        BY <1>8
    <2>1. n \in 1..count /\ n + 1 \in 1..count /\ (n + 1) - 1 = n
        BY <1>1
    <2> QED  BY <1>2, <1>6, <2>1
<1>11. q[Len(q)].end = now
    BY <1>1, <1>2, <1>7, <1>8
<1>12. \A n \in 1..Len(q) : q[n].end <= q[Len(q)].end
    BY <1>2, <1>5, <1>8, <1>11
<1>13. Head(q).start = start
    <2>1. Head(q) = q[1] /\ 1 \in 1..count
        BY <1>1, <1>8, <1>9
    <2>2. q[1].start = start + (1 - 1) * Slice
        BY <1>2, <2>1
    <2>3. (1 - 1) * Slice = 0
        BY <1>3
    <2> QED  BY <2>1, <2>2, <2>3
<1> QED  BY <1>8, <1>9, <1>10, <1>11, <1>12, <1>13 DEF InOrder, q

\* The next slice begins where this one ends.
LEMMA TailsStayInOrder ==
    ASSUME NEW q \in Seq(Slices), InOrder(q), Len(q) > 1
    PROVE  /\ Tail(q) \in Seq(Slices) /\ Tail(q) # <<>>
           /\ InOrder(Tail(q))
           /\ Head(Tail(q)).start = Head(q).end
           /\ Tail(q)[Len(Tail(q))].end = q[Len(q)].end
<1> DEFINE t == Tail(q)
<1>1. Len(q) \in Nat /\ q # <<>>
    BY EmptySeq, LenProperties
<1>2. t \in Seq(Slices) /\ Len(t) = Len(q) - 1 /\ \A i \in 1..Len(t) : t[i] = q[i + 1]
    BY <1>1, HeadTailProperties
<1> HIDE DEF t
<1>3. t # <<>> /\ Head(t) = t[1] /\ Head(q) = q[1]
    BY <1>1, <1>2, EmptySeq
<1>4. t[Len(t)] = q[Len(q)] /\ t[1] = q[2]
    BY <1>1, <1>2
<1>5. \A n \in 1..(Len(t) - 1) : t[n + 1].start = t[n].end
    BY <1>1, <1>2 DEF InOrder
<1>6. \A n \in 1..Len(t) : t[n].end <= t[Len(t)].end
    BY <1>1, <1>2, <1>4 DEF InOrder
<1>7. q[2].start = q[1].end
    <2>1. 1 \in 1..(Len(q) - 1) /\ 1 + 1 = 2
        BY <1>1
    <2> QED  BY <2>1 DEF InOrder
<1> QED  BY <1>2, <1>3, <1>4, <1>5, <1>6, <1>7 DEF InOrder, t

\* A halved slice keeps its ends.
LEMMA HalvesStayInOrder ==
    ASSUME NEW q \in Seq(Slices), InOrder(q), q # <<>>,
           Head(q).end - Head(q).start > MinSlice
    PROVE  LET h == Halves(Head(q)) \o Tail(q) IN
           /\ h \in Seq(Slices) /\ h # <<>>
           /\ InOrder(h)
           /\ Head(h).start = Head(q).start
           /\ h[Len(h)].end = q[Len(q)].end
<1> USE ReconcileAssumption
<1> DEFINE s == Head(q)
           middle == (s.start + s.end) \div 2
           t == Tail(q)
           h == Halves(s) \o t
<1>1. Len(q) \in Nat \ {0} /\ s \in Slices /\ s = q[1]
    BY EmptySeq, LenProperties, HeadTailProperties
<1>2. s.start \in Int /\ s.end \in Int
    BY <1>1 DEF Slices
<1>3. t \in Seq(Slices) /\ Len(t) = Len(q) - 1 /\ \A i \in 1..Len(t) : t[i] = q[i + 1]
    BY HeadTailProperties
<1>4. middle \in Int /\ middle <= s.end
    <2>1. s.end - s.start > 0
        BY <1>2
    <2> QED  BY <1>2, <2>1, SMTT(20)
<1> HIDE DEF s, t, middle
<1>5. /\ Halves(s) = <<[start |-> s.start, end |-> middle],
                       [start |-> middle, end |-> s.end]>>
      /\ Halves(s) \in Seq(Slices) /\ Len(Halves(s)) = 2
    BY <1>2, <1>4 DEF Halves, Slices, middle
<1>6. /\ h \in Seq(Slices) /\ Len(h) = Len(q) + 1
      /\ h[1] = [start |-> s.start, end |-> middle]
      /\ h[2] = [start |-> middle, end |-> s.end]
      /\ \A n \in 3..Len(h) : h[n] = q[n - 1]
    <2>1. /\ h \in Seq(Slices) /\ Len(h) = 2 + Len(t)
          /\ \A n \in 1..(2 + Len(t)) :
                h[n] = IF n <= 2 THEN Halves(s)[n] ELSE t[n - 2]
        BY <1>3, <1>5, ConcatProperties
    <2>2. Len(h) = Len(q) + 1
        BY <1>1, <1>3, <2>1
    <2>3. h[1] = Halves(s)[1] /\ h[2] = Halves(s)[2]
        BY <1>1, <1>3, <2>1, SMTT(20)
    <2>4. ASSUME NEW n \in 3..Len(h)
          PROVE  h[n] = q[n - 1]
        <3>1. n \in 1..(2 + Len(t)) /\ ~(n <= 2) /\ n - 2 \in 1..Len(t)
            BY <1>1, <1>3, <2>1
        <3>2. h[n] = t[n - 2] /\ t[n - 2] = q[(n - 2) + 1]
            BY <1>3, <2>1, <3>1
        <3>3. (n - 2) + 1 = n - 1
            OBVIOUS
        <3> QED  BY <3>2, <3>3
    <2> QED  BY <1>5, <2>1, <2>2, <2>3, <2>4
<1> HIDE DEF h
<1>7. h # <<>> /\ Head(h) = h[1]
    BY <1>1, <1>6, EmptySeq
<1>8. h[Len(h)].end = q[Len(q)].end
    <2>1. CASE Len(q) = 1
        BY <1>1, <1>6, <2>1
    <2>2. CASE Len(q) > 1
        <3>1. Len(h) \in 3..Len(h) /\ Len(h) - 1 = Len(q)
            BY <1>1, <1>6, <2>2
        <3> QED  BY <1>6, <3>1
    <2>3. \A n \in Nat \ {0} : n = 1 \/ n > 1
        OBVIOUS
    <2> QED  BY <1>1, <2>1, <2>2, <2>3
<1>9. ASSUME NEW n \in 1..(Len(h) - 1)
      PROVE  h[n + 1].start = h[n].end
    <2>1. CASE n = 1
        BY <1>6, <2>1
    <2>2. CASE n = 2
        <3>1. 3 \in 3..Len(h) /\ 1 \in 1..(Len(q) - 1)
            BY <1>1, <1>6, <2>2
        <3>2. h[3] = q[2] /\ q[2].start = q[1].end
            BY <1>6, <3>1, SMTT(20) DEF InOrder
        <3> QED  BY <1>1, <1>6, <2>2, <3>2, SMTT(20)
    <2>3. CASE n > 2
        <3>1. n \in 3..Len(h) /\ n + 1 \in 3..Len(h) /\ n - 1 \in 1..(Len(q) - 1)
              /\ (n + 1) - 1 = (n - 1) + 1
            BY <1>1, <1>6, <2>3
        <3>2. h[n] = q[n - 1] /\ h[n + 1] = q[(n - 1) + 1]
            BY <1>6, <3>1, SMTT(20)
        <3> QED  BY <3>1, <3>2 DEF InOrder
    <2> QED  BY <2>1, <2>2, <2>3
<1>10. ASSUME NEW n \in 1..Len(h)
       PROVE  h[n].end <= h[Len(h)].end
    <2>1. q[1].end <= q[Len(q)].end /\ q[Len(q)].end \in Int
        <3>1. q[Len(q)] \in Slices /\ 1 \in 1..Len(q)
            BY <1>1, LenProperties
        <3> QED  BY <3>1 DEF InOrder, Slices
    <2>2. CASE n = 1
        BY <1>1, <1>2, <1>4, <1>6, <1>8, <2>1, <2>2, SMTT(20)
    <2>3. CASE n = 2
        BY <1>1, <1>6, <1>8, <2>1, <2>3, SMTT(20)
    <2>4. CASE n > 2
        <3>1. n \in 3..Len(h) /\ n - 1 \in 1..Len(q)
            BY <1>1, <1>6, <2>4
        <3> QED  BY <1>6, <1>8, <3>1 DEF InOrder
    <2> QED  BY <2>2, <2>3, <2>4, SMTT(20)
<1>11. InOrder(h) /\ Head(h).start = s.start
    BY <1>6, <1>7, <1>9, <1>10 DEF InOrder
<1> QED  BY <1>6, <1>7, <1>8, <1>11 DEF h, s, t

-----------------------------------------------------------------------------
(* Types.                                                                  *)

LEMMA TypesAtFirst == Init => TypeInv
<1> SUFFICES ASSUME Init  PROVE  TypeInv
    OBVIOUS
<1> USE JobLockAssumption, ReconcileAssumption
<1>1. LockTypeOK
    BY DEF Init, LockInit, LockTypeOK
<1>2. TableType
    <2>1. kind \in [Requests -> Kinds] /\ kind \in Mixes
        BY DEF Init
    <2>2. \A r \in Requests :
             [status |-> IF kind[r] \in {"sync", "task"} THEN "open" ELSE "none",
              captured |-> NoTime, telemetry |-> FALSE, verdict |-> "pending"] \in Rows
        BY DEF Rows, RowStatuses, Verdicts
    <2> QED  BY <2>1, <2>2 DEF Init, TableType
<1>3. LogType
    <2>1. log \in Seq([call : Requests, time : {0}])
        BY DEF Init
    <2>2. log \in [1..Len(log) -> [call : Requests, time : {0}]] /\ Len(log) \in Nat
        BY <2>1, LenProperties
    <2>3. \A i \in DOMAIN log : log[i] \in [call : Requests, time : {0}]
        BY <2>2
    <2>4. log \in Seq([call : Requests, time : Nat])
        <3> DEFINE Entry == [call : Requests, time : Nat]
        <3>1. \A i \in 1..Len(log) : log[i] \in Entry
            BY <2>2
        <3> HIDE DEF Entry
        <3>2. log \in [1..Len(log) -> Entry]
            BY <2>2, <3>1
        <3>3. log \in Seq(Entry)
            BY <2>2, <3>2, SMTT(20)
        <3> QED  BY <3>3 DEF Entry
    <2>5. clock = 0 /\ since = 0 /\ watermark = NoTime
        BY DEF Init
    <2> QED  BY <2>3, <2>4, <2>5 DEF LogType
<1>4. JobType
    <2>1. NoJob \in Jobs /\ NoJob.stage = "idle"
        BY EmptySeq DEF NoJob, Jobs, Stages, RowStatuses
    <2> QED  BY <2>1 DEF Init, JobType, WellStaged, Running, Reading
<1> QED  BY <1>1, <1>2, <1>3, <1>4 DEF TypeInv

\* The lock's steps keep the types of its row and of the controllers.
LEMMA LockTypeKept ==
    ASSUME LockTypeOK, NEW w \in Workers,
           \/ UNCHANGED lockVars \/ AcquireJobLock(w) \/ KeepAlive(w)
           \/ RenewNow(w) \/ HeartbeatThrows(w) \/ ForgetLock(w) \/ FiveMinutesPass
    PROVE  LockTypeOK'
<1> USE DEF LockTypeOK, lockVars
<1>1. CASE UNCHANGED lockVars
    BY <1>1
<1>2. CASE AcquireJobLock(w)
    BY <1>2 DEF AcquireJobLock, TakeAnyLock
<1>3. CASE Heartbeat(w)
    <2>1. (holder = w) \in BOOLEAN /\ (stale /\ holder # w) \in BOOLEAN
        OBVIOUS
    <2> QED  BY <1>3, <2>1 DEF Heartbeat
<1>4. CASE HeartbeatThrows(w) \/ ForgetLock(w)
    BY <1>4 DEF HeartbeatThrows, ForgetLock
<1>5. CASE FiveMinutesPass
    BY <1>5 DEF FiveMinutesPass
<1> QED  BY <1>1, <1>2, <1>3, <1>4, <1>5 DEF KeepAlive, RenewNow

OthersKept(w) == \A v \in Workers \ {w} : job'[v] = job[v]

\* One process's record is replaced by another.
LEMMA JobReplaced ==
    ASSUME JobType, NEW w \in Workers, NEW k \in Jobs, WellStaged(k),
           job' = [job EXCEPT ![w] = k]
    PROVE  JobType' /\ OthersKept(w) /\ job'[w] = k
<1>1. job' \in [Workers -> Jobs] /\ job'[w] = k /\ OthersKept(w)
    BY DEF JobType, OthersKept
<1>2. \A v \in Workers : WellStaged(job'[v])
    BY <1>1 DEF JobType, OthersKept
<1> QED  BY <1>1, <1>2 DEF JobType, WellStaged

LEMMA PassEnded ==
    ASSUME JobType, NEW w \in Workers, EndPass(w)
    PROVE  JobType' /\ OthersKept(w) /\ job'[w] = NoJob
<1>1. NoJob \in Jobs /\ WellStaged(NoJob)
    BY EmptySeq DEF NoJob, Jobs, WellStaged, Stages, Running, Reading, RowStatuses
<1> QED  BY <1>1, JobReplaced DEF EndPass

\* The slice at hand stays the same.
SameSlice(w) ==
    /\ job'[w].mark = job[w].mark /\ job'[w].queue = job[w].queue
    /\ job'[w].source = job[w].source

\* The three ways on after a page.
PageAfter(w, full) ==
    /\ SameSlice(w) /\ job'[w].logs = <<>>
    /\ \/ /\ full /\ job'[w].stage = "page" /\ job'[w].page = job[w].page + 1
          /\ job'[w].list = job[w].list /\ job'[w].more = job[w].more
       \/ /\ ~full /\ job[w].more = {} /\ job'[w].stage = "done"
       \/ /\ ~full /\ job'[w].stage = "page" /\ job'[w].page = 1
          /\ \E u \in job[w].more :
                job'[w].list = {u} /\ job'[w].more = job[w].more \ {u}

LEMMA PageLeft ==
    ASSUME JobType, NEW w \in Workers, job[w].stage \in Running,
           NEW full \in BOOLEAN, AfterPage(w, full)
    PROVE  JobType' /\ OthersKept(w) /\ PageAfter(w, full)
<1> DEFINE j == job[w]
           rest == [j EXCEPT !.logs = <<>>, !.full = FALSE, !.status = "none"]
<1>1. j \in Jobs /\ j.queue # <<>>
    BY DEF JobType, WellStaged
<1>2. /\ rest \in Jobs
      /\ rest.queue = j.queue /\ rest.mark = j.mark /\ rest.source = j.source
      /\ rest.list = j.list /\ rest.more = j.more /\ rest.page = j.page
      /\ rest.logs = <<>>
    BY <1>1, EmptySeq DEF Jobs, RowStatuses
<1>3. \/ /\ full
         /\ job' = [job EXCEPT ![w] = [rest EXCEPT !.stage = "page", !.page = @ + 1]]
      \/ /\ ~full /\ rest.more = {}
         /\ job' = [job EXCEPT ![w] = [rest EXCEPT !.stage = "done", !.page = 1]]
      \/ /\ ~full
         /\ \E u \in rest.more :
               job' = [job EXCEPT ![w] = [rest EXCEPT
                         !.stage = "page", !.list = {u}, !.more = @ \ {u}, !.page = 1]]
    BY DEF AfterPage
<1> HIDE DEF rest, j
<1>4. CASE /\ full
           /\ job' = [job EXCEPT ![w] = [rest EXCEPT !.stage = "page", !.page = @ + 1]]
    <2> DEFINE k == [rest EXCEPT !.stage = "page", !.page = @ + 1]
    <2>1. k \in Jobs /\ k.stage = "page" /\ k.page = rest.page + 1
        <3>1. rest.page + 1 \in Nat \ {0} /\ "page" \in Stages
            BY <1>2 DEF Jobs, Stages
        <3>2. \A st \in Stages, pg \in Nat \ {0} :
                 [rest EXCEPT !.stage = st, !.page = pg] \in Jobs
            BY <1>2 DEF Jobs
        <3>3. k.stage = "page" /\ k.page = rest.page + 1
            BY <1>2 DEF Jobs
        <3> QED  BY <3>1, <3>2, <3>3
    <2>2. k.queue = rest.queue /\ k.mark = rest.mark /\ k.source = rest.source
          /\ k.list = rest.list /\ k.more = rest.more /\ k.logs = rest.logs
        BY <1>2 DEF Jobs
    <2>3. job' = [job EXCEPT ![w] = k]
        BY <1>4
    <2> HIDE DEF k
    <2>4. WellStaged(k)
        BY <1>1, <1>2, <2>1, <2>2 DEF WellStaged, Reading
    <2>5. JobType' /\ OthersKept(w) /\ job'[w] = k
        BY <2>1, <2>3, <2>4, JobReplaced
    <2> QED  BY <1>2, <1>4, <2>1, <2>2, <2>5 DEF PageAfter, SameSlice, j
<1>5. CASE /\ ~full /\ rest.more = {}
           /\ job' = [job EXCEPT ![w] = [rest EXCEPT !.stage = "done", !.page = 1]]
    <2> DEFINE k == [rest EXCEPT !.stage = "done", !.page = 1]
    <2>1. k \in Jobs /\ k.stage = "done"
        <3>1. 1 \in Nat \ {0} /\ "done" \in Stages
            BY DEF Stages
        <3>2. \A st \in Stages, pg \in Nat \ {0} :
                 [rest EXCEPT !.stage = st, !.page = pg] \in Jobs
            BY <1>2 DEF Jobs
        <3>3. k.stage = "done"
            BY <1>2 DEF Jobs
        <3> QED  BY <3>1, <3>2, <3>3
    <2>2. k.queue = rest.queue /\ k.mark = rest.mark /\ k.source = rest.source
          /\ k.logs = rest.logs
        BY <1>2 DEF Jobs
    <2>3. job' = [job EXCEPT ![w] = k]
        BY <1>5
    <2> HIDE DEF k
    <2>4. WellStaged(k)
        BY <1>1, <1>2, <2>1, <2>2 DEF WellStaged, Reading
    <2>5. JobType' /\ OthersKept(w) /\ job'[w] = k
        BY <2>1, <2>3, <2>4, JobReplaced
    <2> QED  BY <1>2, <1>5, <2>1, <2>2, <2>5 DEF PageAfter, SameSlice, j
<1>6. ASSUME ~full, NEW u \in rest.more,
             job' = [job EXCEPT ![w] = [rest EXCEPT
                       !.stage = "page", !.list = {u}, !.more = @ \ {u}, !.page = 1]]
      PROVE  JobType' /\ OthersKept(w) /\ PageAfter(w, full)
    <2> DEFINE k == [rest EXCEPT
                       !.stage = "page", !.list = {u}, !.more = @ \ {u}, !.page = 1]
    <2>1. k \in Jobs /\ k.stage = "page" /\ k.page = 1
          /\ k.list = {u} /\ k.more = rest.more \ {u}
        <3>1. 1 \in Nat \ {0} /\ "page" \in Stages
            BY DEF Stages
        <3>2. {u} \in SUBSET Users /\ rest.more \ {u} \in SUBSET Users
            BY <1>2 DEF Jobs
        <3>3. \A st \in Stages, us \in SUBSET Users, ms \in SUBSET Users,
                pg \in Nat \ {0} :
                 [rest EXCEPT !.stage = st, !.list = us, !.more = ms, !.page = pg]
                     \in Jobs
            BY <1>2 DEF Jobs
        <3>4. k.stage = "page" /\ k.page = 1 /\ k.list = {u} /\ k.more = rest.more \ {u}
            BY <1>2 DEF Jobs
        <3> QED  BY <3>1, <3>2, <3>3, <3>4
    <2>2. k.queue = rest.queue /\ k.mark = rest.mark /\ k.source = rest.source
          /\ k.logs = rest.logs
        BY <1>2 DEF Jobs
    <2>3. job' = [job EXCEPT ![w] = k]
        BY <1>6
    <2> HIDE DEF k
    <2>4. WellStaged(k)
        BY <1>1, <1>2, <2>1, <2>2 DEF WellStaged, Reading
    <2>5. JobType' /\ OthersKept(w) /\ job'[w] = k
        BY <2>1, <2>3, <2>4, JobReplaced
    <2> QED  BY <1>2, <1>6, <2>1, <2>2, <2>5 DEF PageAfter, SameSlice, j
<1> QED  BY <1>3, <1>4, <1>5, <1>6

\* The page at hand stays the same.
SamePage(w) ==
    /\ SameSlice(w)
    /\ job'[w].list = job[w].list /\ job'[w].more = job[w].more
    /\ job'[w].page = job[w].page /\ job'[w].full = job[w].full

LEMMA StageSet ==
    ASSUME JobType, NEW w \in Workers, job[w].stage \in Running,
           NEW stage \in {"act", "waived", "done"}, Goto(w, stage),
           stage \in Reading => job[w].logs # <<>>
    PROVE  /\ JobType' /\ OthersKept(w)
           /\ SamePage(w) /\ job'[w].stage = stage
           /\ job'[w].logs = job[w].logs /\ job'[w].status = job[w].status
<1> DEFINE k == [job[w] EXCEPT !.stage = stage]
<1>1. job[w] \in Jobs /\ job[w].queue # <<>>
    BY DEF JobType, WellStaged
<1>2. k \in Jobs /\ k.stage = stage
    BY <1>1 DEF Jobs, Stages
<1>3. /\ k.queue = job[w].queue /\ k.mark = job[w].mark
      /\ k.source = job[w].source /\ k.list = job[w].list
      /\ k.more = job[w].more /\ k.page = job[w].page
      /\ k.full = job[w].full /\ k.logs = job[w].logs /\ k.status = job[w].status
    BY <1>1 DEF Jobs
<1>4. job' = [job EXCEPT ![w] = k]
    BY DEF Goto
<1> HIDE DEF k
<1>5. WellStaged(k)
    BY <1>1, <1>2, <1>3 DEF WellStaged
<1>6. JobType' /\ OthersKept(w) /\ job'[w] = k
    BY <1>2, <1>4, <1>5, JobReplaced
<1> QED  BY <1>2, <1>3, <1>6 DEF SamePage, SameSlice

\* A slice begun again in the logs of the users.
FallenBack(w) ==
    /\ degraded'
    /\ job'[w].mark = job[w].mark /\ job'[w].queue = job[w].queue
    /\ \/ Bound = {} /\ job'[w].stage = "done"
       \/ /\ job'[w].stage = "page" /\ job'[w].source = "user" /\ job'[w].page = 1
          /\ \E u \in Bound : job'[w].list = {u} /\ job'[w].more = Bound \ {u}

LEMMA FellBack ==
    ASSUME JobType, NEW w \in Workers, job[w].stage \in Running, FallBack(w)
    PROVE  JobType' /\ OthersKept(w) /\ FallenBack(w)
<1> USE ReconcileAssumption
<1>1. CASE Bound = {}
    <2>1. Goto(w, "done") /\ degraded'
        BY <1>1 DEF FallBack
    <2>2. JobType' /\ OthersKept(w) /\ SamePage(w) /\ job'[w].stage = "done"
        BY <2>1, StageSet DEF Reading
    <2> QED  BY <1>1, <2>1, <2>2 DEF FallenBack, SamePage, SameSlice
<1>2. CASE Bound # {}
    <2>1. PICK u \in Bound :
             job' = [job EXCEPT ![w].stage = "page", ![w].source = "user",
                                ![w].list = {u}, ![w].more = Bound \ {u},
                                ![w].page = 1, ![w].logs = <<>>,
                                ![w].full = FALSE, ![w].status = "none"]
        BY <1>2 DEF FallBack
    <2> DEFINE k == [job[w] EXCEPT !.stage = "page", !.source = "user",
                                   !.list = {u}, !.more = Bound \ {u},
                                   !.page = 1, !.logs = <<>>,
                                   !.full = FALSE, !.status = "none"]
    <2>2. job[w] \in Jobs /\ job[w].queue # <<>>
        BY DEF JobType, WellStaged
    <2>3. k \in Jobs
        <3>1. /\ "page" \in Stages /\ {u} \in SUBSET Users
              /\ Bound \ {u} \in SUBSET Users /\ 1 \in Nat \ {0}
              /\ <<>> \in Seq(Requests) /\ "none" \in RowStatuses
            BY EmptySeq DEF Stages, RowStatuses
        <3> QED  BY <2>2, <3>1 DEF Jobs
    <2>4. /\ k.stage = "page" /\ k.source = "user" /\ k.page = 1
          /\ k.list = {u} /\ k.more = Bound \ {u}
          /\ k.mark = job[w].mark /\ k.queue = job[w].queue
        BY <2>2 DEF Jobs
    <2>5. job' = [job EXCEPT ![w] = k]
        BY <2>1
    <2> HIDE DEF k
    <2>6. WellStaged(k)
        BY <2>2, <2>4 DEF WellStaged, Reading
    <2>7. JobType' /\ OthersKept(w) /\ job'[w] = k
        BY <2>3, <2>5, <2>6, JobReplaced
    <2> QED  BY <2>4, <2>7 DEF FallenBack, FallBack
<1> QED  BY <1>1, <1>2

\* A slice begun in New API's whole log.
SliceBegun(w, queue, mark) ==
    /\ job'[w].stage = "page" /\ job'[w].queue = queue /\ job'[w].mark = mark
    /\ job'[w].source = "admin" /\ job'[w].page = 1
    /\ job'[w].list = Users /\ job'[w].more = {}

LEMMA AdminAgain ==
    ASSUME NEW j \in Jobs
    PROVE  LET k == FromAdmin(j) IN
           /\ k \in Jobs
           /\ k.stage = "page" /\ k.source = "admin" /\ k.page = 1
           /\ k.list = Users /\ k.more = {} /\ k.mark = j.mark
<1>1. /\ "page" \in Stages /\ Users \in SUBSET Users /\ {} \in SUBSET Users
      /\ 1 \in Nat \ {0} /\ <<>> \in Seq(Requests)
    BY EmptySeq DEF Stages
<1> QED  BY <1>1 DEF FromAdmin, Jobs

LEMMA SliceHalved ==
    ASSUME JobType, NEW w \in Workers, NEW queue \in Seq(Slices), queue # <<>>,
           job' = [job EXCEPT ![w] = [FromAdmin(job[w]) EXCEPT !.queue = queue]]
    PROVE  JobType' /\ OthersKept(w) /\ SliceBegun(w, queue, job[w].mark)
<1> DEFINE f == FromAdmin(job[w])
           k == [f EXCEPT !.queue = queue]
<1>1. job[w] \in Jobs
    BY DEF JobType
<1>2. /\ f \in Jobs /\ f.stage = "page" /\ f.source = "admin" /\ f.page = 1
      /\ f.list = Users /\ f.more = {} /\ f.mark = job[w].mark
    BY <1>1, AdminAgain
<1> HIDE DEF f
<1>3. k \in Jobs /\ k.queue = queue
    BY <1>2 DEF Jobs
<1>4. /\ k.stage = "page" /\ k.source = "admin" /\ k.page = 1
      /\ k.list = Users /\ k.more = {} /\ k.mark = job[w].mark
    BY <1>2 DEF Jobs
<1>5. job' = [job EXCEPT ![w] = k]
    BY DEF f
<1> HIDE DEF k
<1>6. WellStaged(k)
    BY <1>3, <1>4 DEF WellStaged, Reading
<1>7. JobType' /\ OthersKept(w) /\ job'[w] = k
    BY <1>3, <1>5, <1>6, JobReplaced
<1> QED  BY <1>3, <1>4, <1>7 DEF SliceBegun

LEMMA SliceLeft ==
    ASSUME JobType, NEW w \in Workers, job[w].stage \in Running,
           NEW mark \in Int, NextSlice(w, mark)
    PROVE  /\ JobType' /\ OthersKept(w)
           /\ \/ job'[w] = NoJob
              \/ /\ Tail(job[w].queue) # <<>>
                 /\ SliceBegun(w, Tail(job[w].queue), mark)
<1> DEFINE rest == Tail(job[w].queue)
           f == FromAdmin(job[w])
           k == [f EXCEPT !.queue = rest, !.slices = @ + 1, !.mark = mark]
<1>1. job[w] \in Jobs /\ job[w].queue # <<>> /\ job[w].queue \in Seq(Slices)
    BY DEF JobType, WellStaged, Jobs
<1>2. rest \in Seq(Slices)
    BY <1>1, HeadTailProperties
<1>3. CASE EndPass(w)
    BY <1>3, PassEnded
<1>4. CASE rest # <<>> /\ job' = [job EXCEPT ![w] = [FromAdmin(job[w]) EXCEPT
                    !.queue = rest, !.slices = @ + 1, !.mark = mark]]
    <2>1. /\ f \in Jobs /\ f.stage = "page" /\ f.source = "admin" /\ f.page = 1
          /\ f.list = Users /\ f.more = {}
        BY <1>1, AdminAgain
    <2>4. job' = [job EXCEPT ![w] = k]
        BY <1>4
    <2> HIDE DEF f, rest
    <2>2. k \in Jobs
        <3>1. f.slices + 1 \in Int
            BY <2>1 DEF Jobs
        <3>2. \A qu \in Seq(Slices), sl \in Int, mk \in Int :
                 [f EXCEPT !.queue = qu, !.slices = sl, !.mark = mk] \in Jobs
            BY <2>1 DEF Jobs
        <3> QED  BY <1>2, <3>1, <3>2
    <2>3. /\ k.stage = "page" /\ k.source = "admin" /\ k.page = 1
          /\ k.list = Users /\ k.more = {} /\ k.mark = mark /\ k.queue = rest
        BY <2>1 DEF Jobs
    <2> HIDE DEF k
    <2>5. WellStaged(k)
        BY <1>4, <2>3 DEF WellStaged, Reading
    <2>6. JobType' /\ OthersKept(w) /\ job'[w] = k
        BY <2>2, <2>4, <2>5, JobReplaced
    <2> QED  BY <1>4, <2>3, <2>6 DEF SliceBegun, rest
<1> QED  BY <1>3, <1>4 DEF NextSlice

\* The slice at hand and the page asked for.
SliceOf(w) == Head(job[w].queue)
Items(w) == PageOf(Listed(SliceOf(w), job[w].list), job[w].page)

\* What a fetch may do, besides losing the lock.
LEMMA PageFetched ==
    ASSUME JobType, LogType, NEW w \in Workers, FetchPage(w)
    PROVE  /\ JobType' /\ OthersKept(w)
           /\ \/ job'[w] = NoJob
              \/ /\ Overflows(w)
                 /\ SliceBegun(w, Halves(SliceOf(w)) \o Tail(job[w].queue), job[w].mark)
              \/ /\ Items(w) = <<>> /\ Len(Items(w)) # PageSize
                 /\ PageAfter(w, FALSE)
              \/ /\ SameSlice(w) /\ job'[w].stage = "entry"
                 /\ job'[w].logs = Items(w)
                 /\ job'[w].full = (Len(Items(w)) = PageSize)
                 /\ job'[w].list = job[w].list /\ job'[w].more = job[w].more
                 /\ job'[w].page = job[w].page
<1> USE ReconcileAssumption
<1> DEFINE items == Items(w)
           full == Len(items) = PageSize
<1>1. /\ job[w] \in Jobs /\ job[w].queue # <<>> /\ job[w].queue \in Seq(Slices)
      /\ job[w].stage \in Running /\ job[w].page \in Nat \ {0}
    BY DEF JobType, WellStaged, Jobs, FetchPage, Running
<1>2. items \in Seq(Requests)
    <2>1. Listed(SliceOf(w), job[w].list) \in SUBSET DOMAIN log
        BY DEF Listed
    <2> QED  BY <1>1, <2>1, PagesHoldTheirPlaces DEF Items
<1>3. full \in BOOLEAN
    OBVIOUS
<1>4. \/ EndPass(w)
      \/ /\ Overflows(w)
         /\ job' = [job EXCEPT ![w] = [FromAdmin(job[w]) EXCEPT
                      !.queue = Halves(SliceOf(w)) \o Tail(@)]]
      \/ items = <<>> /\ AfterPage(w, full)
      \/ /\ items # <<>>
         /\ job' = [job EXCEPT ![w].stage = "entry", ![w].logs = items,
                               ![w].full = full]
    <2>1. CASE ~owns'[w]
        BY <2>1 DEF FetchPage
    <2>2. CASE owns'[w] /\ Overflows(w)
        BY <2>2 DEF FetchPage, SliceOf
    <2>3. CASE owns'[w] /\ ~Overflows(w) /\ items = <<>>
        BY <2>3 DEF FetchPage, SliceOf, Items
    <2>4. CASE owns'[w] /\ ~Overflows(w) /\ items # <<>>
        BY <2>4 DEF FetchPage, SliceOf, Items
    <2> QED  BY <2>1, <2>2, <2>3, <2>4
<1> HIDE DEF items, full
<1>5. CASE EndPass(w)
    BY <1>5, PassEnded
<1>6. CASE /\ Overflows(w)
           /\ job' = [job EXCEPT ![w] = [FromAdmin(job[w]) EXCEPT
                        !.queue = Halves(SliceOf(w)) \o Tail(@)]]
    <2> DEFINE queue == Halves(SliceOf(w)) \o Tail(job[w].queue)
    <2>1. /\ Halves(SliceOf(w)) \in Seq(Slices) /\ Len(Halves(SliceOf(w))) = 2
        <3>1. SliceOf(w).start \in Int /\ SliceOf(w).end \in Int
            <4>1. SliceOf(w) \in Slices
                BY <1>1, HeadTailProperties DEF SliceOf
            <4> QED  BY <4>1 DEF Slices
        <3> QED  BY <3>1, SMTT(20) DEF Halves, Slices
    <2>2. Tail(job[w].queue) \in Seq(Slices)
        BY <1>1, HeadTailProperties
    <2>3. queue \in Seq(Slices) /\ queue # <<>>
        <3>1. queue \in Seq(Slices) /\ Len(queue) = 2 + Len(Tail(job[w].queue))
            <4> DEFINE h == Halves(SliceOf(w))
                       t == Tail(job[w].queue)
            <4>1. h \in Seq(Slices) /\ Len(h) = 2 /\ t \in Seq(Slices)
                BY <2>1, <2>2
            <4>2. queue = h \o t
                OBVIOUS
            <4> HIDE DEF h, t, queue
            <4>3. h \o t \in Seq(Slices) /\ Len(h \o t) = Len(h) + Len(t)
                BY <4>1, ConcatProperties
            <4>4. queue \in Seq(Slices) /\ Len(queue) = 2 + Len(t)
                BY <4>1, <4>2, <4>3
            <4> QED  BY <4>4 DEF t
        <3>2. Len(Tail(job[w].queue)) \in Nat
            BY <2>2, LenProperties
        <3>3. Len(queue) # 0
            BY <3>1, <3>2
        <3> QED  BY <3>1, <3>3, EmptySeq
    <2>4. job' = [job EXCEPT ![w] = [FromAdmin(job[w]) EXCEPT !.queue = queue]]
        <3>1. FromAdmin(job[w]).queue = job[w].queue
            BY <1>1 DEF FromAdmin, Jobs
        <3> QED  BY <1>6, <3>1
    <2> HIDE DEF queue
    <2>5. JobType' /\ OthersKept(w) /\ SliceBegun(w, queue, job[w].mark)
        BY <2>3, <2>4, SliceHalved
    <2> QED  BY <1>6, <2>5 DEF queue
<1>7. CASE items = <<>> /\ AfterPage(w, full)
    <2>1. full = FALSE
        BY <1>7, EmptySeq DEF full
    <2>2. JobType' /\ OthersKept(w) /\ PageAfter(w, FALSE)
        BY <1>1, <1>7, <2>1, PageLeft
    <2> QED  BY <1>7, <2>1, <2>2 DEF items, full
<1>8. CASE /\ items # <<>>
           /\ job' = [job EXCEPT ![w].stage = "entry", ![w].logs = items,
                                 ![w].full = full]
    <2> DEFINE k == [job[w] EXCEPT !.stage = "entry", !.logs = items, !.full = full]
    <2>1. k \in Jobs
        BY <1>1, <1>2, <1>3 DEF Jobs, Stages
    <2>2. /\ k.stage = "entry" /\ k.logs = items /\ k.full = full
          /\ k.mark = job[w].mark /\ k.queue = job[w].queue
          /\ k.source = job[w].source /\ k.list = job[w].list
          /\ k.more = job[w].more /\ k.page = job[w].page
        BY <1>1 DEF Jobs
    <2>3. job' = [job EXCEPT ![w] = k]
        BY <1>8
    <2> HIDE DEF k
    <2>4. WellStaged(k)
        BY <1>1, <1>8, <2>2 DEF WellStaged
    <2>5. JobType' /\ OthersKept(w) /\ job'[w] = k
        BY <2>1, <2>3, <2>4, JobReplaced
    <2> QED  BY <2>2, <2>5 DEF SameSlice, items, full
<1> QED  BY <1>4, <1>5, <1>6, <1>7, <1>8

LEMMA EntryRead ==
    ASSUME JobType, TableType, NEW w \in Workers, ReadEntry(w)
    PROVE  /\ JobType' /\ OthersKept(w)
           /\ \/ job'[w] = NoJob
              \/ /\ SamePage(w) /\ job'[w].stage = "act"
                 /\ job'[w].logs = job[w].logs
                 /\ job'[w].status = IF ledger[Head(job[w].logs)].captured = NoTime
                                     THEN "none"
                                     ELSE ledger[Head(job[w].logs)].status
<1> DEFINE row == ledger[Head(job[w].logs)]
           seen == IF row.captured = NoTime THEN "none" ELSE row.status
           k == [job[w] EXCEPT !.stage = "act", !.status = seen]
<1>1. /\ job[w] \in Jobs /\ job[w].queue # <<>> /\ job[w].logs # <<>>
      /\ job[w].logs \in Seq(Requests)
    BY DEF JobType, WellStaged, Jobs, ReadEntry, Running, Reading
<1>2. seen \in RowStatuses
    <2>1. Head(job[w].logs) \in Requests
        BY <1>1, HeadTailProperties
    <2>2. row \in Rows
        BY <2>1 DEF TableType
    <2> QED  BY <2>2 DEF Rows, RowStatuses
<1>3. CASE ~owns'[w]
    BY <1>3, PassEnded DEF ReadEntry
<1>4. CASE owns'[w]
    <2>1. job' = [job EXCEPT ![w] = k]
        BY <1>4 DEF ReadEntry
    <2> HIDE DEF seen
    <2>2. k \in Jobs /\ k.stage = "act" /\ k.status = seen
        BY <1>1, <1>2 DEF Jobs, Stages
    <2>3. /\ k.mark = job[w].mark /\ k.queue = job[w].queue
          /\ k.source = job[w].source /\ k.list = job[w].list
          /\ k.more = job[w].more /\ k.page = job[w].page
          /\ k.full = job[w].full /\ k.logs = job[w].logs
        BY <1>1 DEF Jobs
    <2> HIDE DEF k
    <2>4. WellStaged(k)
        BY <1>1, <2>2, <2>3 DEF WellStaged
    <2>5. JobType' /\ OthersKept(w) /\ job'[w] = k
        BY <2>1, <2>2, <2>4, JobReplaced
    <2> QED  BY <2>2, <2>3, <2>5 DEF SamePage, SameSlice, seen
<1> QED  BY <1>3, <1>4

\* The next entry of the page, or what follows the page.
EntryAfter(w) ==
    \/ /\ SamePage(w) /\ job'[w].stage = "entry"
       /\ Len(job[w].logs) > 1 /\ job'[w].logs = Tail(job[w].logs)
    \/ Len(job[w].logs) = 1 /\ PageAfter(w, job[w].full)

LEMMA EntryLeft ==
    ASSUME JobType, NEW w \in Workers, job[w].stage \in Reading, Processed(w)
    PROVE  /\ JobType' /\ OthersKept(w) /\ EntryAfter(w)
           /\ Head(job[w].logs) \in Requests
           /\ read' = read \cup {Head(job[w].logs)}
<1>1. /\ job[w] \in Jobs /\ job[w].queue # <<>> /\ job[w].logs # <<>>
      /\ job[w].logs \in Seq(Requests) /\ job[w].full \in BOOLEAN
      /\ job[w].stage \in Running
    BY DEF JobType, WellStaged, Jobs, Running, Reading
<1>2. /\ Len(job[w].logs) \in Nat \ {0} /\ Head(job[w].logs) \in Requests
      /\ Tail(job[w].logs) \in Seq(Requests)
      /\ Len(Tail(job[w].logs)) = Len(job[w].logs) - 1
    BY <1>1, HeadTailProperties, EmptySeq
<1>3. read' = read \cup {Head(job[w].logs)}
    BY DEF Processed
<1>4. CASE Len(job[w].logs) > 1
    <2> DEFINE k == [job[w] EXCEPT !.stage = "entry", !.logs = Tail(@),
                                   !.status = "none"]
    <2>1. job' = [job EXCEPT ![w] = k]
        BY <1>4 DEF Processed
    <2>2. k \in Jobs
        BY <1>1, <1>2 DEF Jobs, Stages, RowStatuses
    <2>3. /\ k.stage = "entry" /\ k.logs = Tail(job[w].logs)
          /\ k.mark = job[w].mark /\ k.queue = job[w].queue
          /\ k.source = job[w].source /\ k.list = job[w].list
          /\ k.more = job[w].more /\ k.page = job[w].page
          /\ k.full = job[w].full
        BY <1>1 DEF Jobs
    <2> HIDE DEF k
    <2>4. k.logs # <<>>
        <3>1. \A n \in Nat : n > 1 => n - 1 # 0
            OBVIOUS
        <3>2. Len(k.logs) # 0
            BY <1>2, <1>4, <2>3, <3>1
        <3> QED  BY <3>2, EmptySeq
    <2>5. WellStaged(k)
        BY <1>1, <2>3, <2>4 DEF WellStaged
    <2>6. JobType' /\ OthersKept(w) /\ job'[w] = k
        BY <2>1, <2>2, <2>5, JobReplaced
    <2> QED  BY <1>2, <1>3, <1>4, <2>3, <2>6 DEF SamePage, SameSlice, EntryAfter
<1>5. CASE ~(Len(job[w].logs) > 1)
    <2>1. AfterPage(w, job[w].full)
        BY <1>5 DEF Processed
    <2>2. JobType' /\ OthersKept(w) /\ PageAfter(w, job[w].full)
        BY <1>1, <2>1, PageLeft
    <2>3. Len(job[w].logs) = 1
        <3>1. \A n \in Nat \ {0} : ~(n > 1) => n = 1
            OBVIOUS
        <3> QED  BY <1>2, <1>5, <3>1
    <2> QED  BY <1>2, <1>3, <2>2, <2>3 DEF EntryAfter
<1> QED  BY <1>4, <1>5

\* A pass begins where the watermark sends it, or not at all.
LEMMA PassBegun ==
    ASSUME JobType, LogType, NEW w \in Workers, StartPass(w)
    PROVE  /\ JobType' /\ OthersKept(w) /\ Mark \in Int
           /\ \/ UNCHANGED <<job, since>>
              \/ /\ Mark - Overlap < clock
                 /\ SliceBegun(w, SlicesBetween(Mark - Overlap, clock), Mark)
                 /\ since' = IF watermark = NoTime THEN Later(since, Mark - Overlap)
                             ELSE since
<1> USE ReconcileAssumption
<1>1. Mark \in Int /\ Mark - Overlap \in Int /\ clock \in Int
    BY SMTT(20) DEF Mark, LogType
<1>2. job[w] \in Jobs /\ job[w] = NoJob
    BY DEF JobType, WellStaged, StartPass, BeginFrom
<1>3. CASE UNCHANGED <<job, since>>
    BY <1>1, <1>3 DEF JobType, OthersKept, WellStaged
<1>4. CASE ~(UNCHANGED <<job, since>>)
    <2> DEFINE start == Mark - Overlap
               queue == SlicesBetween(start, clock)
               k == [job[w] EXCEPT !.stage = "page", !.mark = Mark, !.queue = queue]
    <2>1. /\ start < clock
          /\ job' = [job EXCEPT ![w].stage = "page", ![w].mark = Mark,
                                ![w].queue = SlicesBetween(start, clock)]
          /\ since' = IF watermark = NoTime THEN Later(since, start) ELSE since
        BY <1>4 DEF StartPass, BeginFrom
    <2>2. job' = [job EXCEPT ![w] = k]
        BY <2>1
    <2> HIDE DEF start
    <2>3. queue \in Seq(Slices) /\ queue # <<>>
        BY <1>1, <2>1, SlicesCoverThePass DEF start
    <2> HIDE DEF queue
    <2>4. k \in Jobs
        BY <1>1, <1>2, <2>3 DEF Jobs, Stages
    <2>5. k.stage = "page" /\ k.mark = Mark /\ k.queue = queue
        BY <1>2 DEF Jobs
    <2>6. k.source = "admin" /\ k.page = 1 /\ k.list = Users /\ k.more = {}
        <3>1. /\ k.source = job[w].source /\ k.page = job[w].page
              /\ k.list = job[w].list /\ k.more = job[w].more
            BY <1>2 DEF Jobs
        <3> QED  BY <1>2, <3>1 DEF NoJob
    <2> HIDE DEF k
    <2>7. WellStaged(k)
        BY <2>3, <2>5 DEF WellStaged, Reading
    <2>8. JobType' /\ OthersKept(w) /\ job'[w] = k
        BY <2>2, <2>4, <2>7, JobReplaced
    <2> QED  BY <1>1, <2>1, <2>5, <2>6, <2>8 DEF SliceBegun, start, queue
<1> QED  BY <1>3, <1>4

\* What the writes to a row leave: everything but one row's columns.
LEMMA RowsKeepTheirType ==
    ASSUME ledger \in [Requests -> Rows], NEW r \in Requests,
           \/ Compare(r) \/ UNCHANGED ledger
           \/ ledger' = [ledger EXCEPT ![r].telemetry = TRUE]
           \/ \E s \in RowStatuses : ledger' = [ledger EXCEPT ![r].status = s]
           \/ \E t \in Int : ledger' = [ledger EXCEPT ![r].captured = t]
           \/ \E v \in Verdicts :
                 ledger' = [ledger EXCEPT ![r].telemetry = TRUE, ![r].verdict = v]
    PROVE  ledger' \in [Requests -> Rows]
<1>1. ledger[r] \in Rows
    OBVIOUS
<1>2. ASSUME NEW row \in Rows, ledger' = [ledger EXCEPT ![r] = row]
      PROVE  ledger' \in [Requests -> Rows]
    BY <1>2
<1>3. CASE ledger' = [ledger EXCEPT ![r].telemetry = TRUE]
    <2>1. [ledger[r] EXCEPT !.telemetry = TRUE] \in Rows
        BY <1>1 DEF Rows
    <2> QED  BY <1>2, <1>3, <2>1
<1>4. ASSUME NEW s \in RowStatuses, ledger' = [ledger EXCEPT ![r].status = s]
      PROVE  ledger' \in [Requests -> Rows]
    <2>1. [ledger[r] EXCEPT !.status = s] \in Rows
        BY <1>1 DEF Rows
    <2> QED  BY <1>2, <1>4, <2>1
<1>5. ASSUME NEW t \in Int, ledger' = [ledger EXCEPT ![r].captured = t]
      PROVE  ledger' \in [Requests -> Rows]
    <2>1. [ledger[r] EXCEPT !.captured = t] \in Rows
        BY <1>1 DEF Rows
    <2> QED  BY <1>2, <1>5, <2>1
<1>6. ASSUME NEW v \in Verdicts,
             ledger' = [ledger EXCEPT ![r].telemetry = TRUE, ![r].verdict = v]
      PROVE  ledger' \in [Requests -> Rows]
    <2>1. [ledger[r] EXCEPT !.telemetry = TRUE, !.verdict = v] \in Rows
        BY <1>1 DEF Rows
    <2>2. ledger' = [ledger EXCEPT ![r] =
                        [ledger[r] EXCEPT !.telemetry = TRUE, !.verdict = v]]
        BY <1>6
    <2> QED  BY <1>2, <2>1, <2>2
<1>7. CASE Compare(r)
    BY <1>6, <1>7 DEF Compare, Verdicts
<1> QED  BY <1>3, <1>4, <1>5, <1>6, <1>7

\* A write ends an entry or waives its row.
LEMMA EntryWritten ==
    ASSUME JobType, TableType, NEW w \in Workers, WriteEntry(w)
    PROVE  /\ JobType' /\ OthersKept(w) /\ TableType'
           /\ \/ /\ EntryAfter(w) /\ read' = read \cup {Head(job[w].logs)}
              \/ /\ SamePage(w) /\ UNCHANGED read
                 /\ job'[w].stage = "waived" /\ job'[w].logs = job[w].logs
<1> DEFINE r == Head(job[w].logs)
<1>1. /\ job[w].stage \in Reading /\ job[w].stage \in Running
      /\ job[w].logs # <<>> /\ job[w].logs \in Seq(Requests)
    BY DEF JobType, WellStaged, Jobs, WriteEntry, Running, Reading
<1>2. r \in Requests
    BY <1>1, HeadTailProperties
<1> HIDE DEF r
<1>3. ledger' \in [Requests -> Rows]
    <2>1. \/ Compare(r) \/ UNCHANGED ledger
          \/ ledger' = [ledger EXCEPT ![r].telemetry = TRUE]
          \/ ledger' = [ledger EXCEPT ![r].status = "failed_unbilled"]
          \/ ledger' = [ledger EXCEPT ![r].telemetry = TRUE,
                                      ![r].verdict = "waived_by_failure"]
        BY DEF WriteEntry, LostTheRow, r
    <2>2. "failed_unbilled" \in RowStatuses /\ "waived_by_failure" \in Verdicts
        BY DEF RowStatuses, Verdicts
    <2>3. ledger \in [Requests -> Rows]
        BY DEF TableType
    <2> QED  BY <1>2, <2>1, <2>2, <2>3, RowsKeepTheirType
<1>4. orphans' \subseteq Requests /\ degraded' = degraded /\ kind' = kind
    <2>1. Observe(r) \/ UNCHANGED orphans
        BY DEF WriteEntry, r
    <2>2. degraded' = degraded /\ kind' = kind
        BY DEF WriteEntry
    <2> QED  BY <1>2, <2>1, <2>2 DEF Observe, TableType
<1>5. CASE Processed(w)
    <2>1. /\ JobType' /\ OthersKept(w) /\ EntryAfter(w)
          /\ read' = read \cup {Head(job[w].logs)} /\ Head(job[w].logs) \in Requests
        BY <1>1, <1>5, EntryLeft
    <2> QED  BY <1>3, <1>4, <2>1 DEF TableType
<1>6. CASE Goto(w, "waived") /\ UNCHANGED read
    <2>1. /\ JobType' /\ OthersKept(w) /\ SamePage(w)
          /\ job'[w].stage = "waived" /\ job'[w].logs = job[w].logs
        BY <1>1, <1>6, StageSet
    <2> QED  BY <1>3, <1>4, <1>6, <2>1 DEF TableType
<1>7. Processed(w) \/ (Goto(w, "waived") /\ UNCHANGED read)
    BY DEF WriteEntry
<1> QED  BY <1>5, <1>6, <1>7

LEMMA WaiverWritten ==
    ASSUME JobType, TableType, NEW w \in Workers, WriteWaiver(w)
    PROVE  /\ JobType' /\ OthersKept(w) /\ TableType'
           /\ EntryAfter(w) /\ read' = read \cup {Head(job[w].logs)}
<1>1. job[w].stage \in Reading
    BY DEF WriteWaiver, Reading
<1>2. /\ JobType' /\ OthersKept(w) /\ EntryAfter(w) /\ Head(job[w].logs) \in Requests
      /\ read' = read \cup {Head(job[w].logs)}
    BY <1>1, EntryLeft DEF WriteWaiver
<1>3. ledger' \in [Requests -> Rows]
    <2>1. "waived_by_missing_usage" \in Verdicts /\ ledger \in [Requests -> Rows]
        BY DEF Verdicts, TableType
    <2> QED  BY <1>2, <2>1, RowsKeepTheirType DEF WriteWaiver
<1>4. UNCHANGED <<orphans, degraded, kind>>
    BY DEF WriteWaiver
<1> QED  BY <1>2, <1>3, <1>4 DEF TableType

LEMMA PassFailed ==
    ASSUME JobType, NEW w \in Workers, PassFails(w)
    PROVE  /\ JobType' /\ OthersKept(w)
           /\ \/ job'[w] = NoJob /\ UNCHANGED degraded
              \/ job[w].source = "admin" /\ FallenBack(w)
<1>1. job[w].stage \in Running
    BY DEF PassFails, Running
<1>2. CASE job[w].source = "admin"
    BY <1>1, <1>2, FellBack DEF PassFails, Caught
<1>3. CASE job[w].source # "admin"
    BY <1>3, PassEnded DEF PassFails, Caught
<1> QED  BY <1>2, <1>3

LEMMA WatermarkMoved ==
    ASSUME JobType, LogType, NEW w \in Workers, MoveWatermark(w)
    PROVE  LET end == Head(job[w].queue).end
               mark == Later(job[w].mark, end)
           IN /\ JobType' /\ OthersKept(w)
              /\ end \in Int /\ mark \in Int /\ watermark' \in Int
              /\ watermark' = Later(watermark, mark)
              /\ \/ job'[w] = NoJob
                 \/ /\ Tail(job[w].queue) # <<>>
                    /\ SliceBegun(w, Tail(job[w].queue), mark)
<1> USE ReconcileAssumption
<1> DEFINE end == Head(job[w].queue).end
           mark == Later(job[w].mark, end)
<1>1. job[w].stage \in Running /\ job[w] \in Jobs
    BY DEF JobType, MoveWatermark, Running
<1>2. job[w].queue # <<>> /\ job[w].queue \in Seq(Slices) /\ job[w].mark \in Int
    BY <1>1 DEF JobType, WellStaged, Jobs
<1>3. end \in Int
    <2>1. Head(job[w].queue) \in Slices
        BY <1>2, HeadTailProperties
    <2> QED  BY <2>1 DEF Slices
<1> HIDE DEF end
<1>4. mark \in Int /\ Later(watermark, mark) \in Int
    BY <1>2, <1>3 DEF Later, LogType
<1> HIDE DEF mark
<1>5. watermark' = Later(watermark, mark) /\ NextSlice(w, mark)
    BY DEF MoveWatermark, mark, end
<1>6. /\ JobType' /\ OthersKept(w)
      /\ \/ job'[w] = NoJob
         \/ /\ Tail(job[w].queue) # <<>>
            /\ SliceBegun(w, Tail(job[w].queue), mark)
    BY <1>1, <1>4, <1>5, SliceLeft
<1> QED  BY <1>3, <1>4, <1>5, <1>6 DEF end, mark

\* An insertion adds an entry and changes none.
LEMMA LogGrows ==
    ASSUME LogType, NEW r \in Requests, NEW time \in 0..MaxTime, WriteLog(r, time)
    PROVE  /\ LogType'
           /\ DOMAIN log' = DOMAIN log \cup {Len(log) + 1}
           /\ \A i \in DOMAIN log : log'[i] = log[i]
           /\ log'[Len(log) + 1] = [call |-> r, time |-> time]
           /\ time >= clock - Delay /\ Len(log) + 1 \notin DOMAIN log
<1> DEFINE Entry == [call : Requests, time : Nat]
           e == [call |-> r, time |-> time]
<1>1. log \in Seq(Entry) /\ e \in Entry /\ clock \in 0..MaxTime
    BY ReconcileAssumption DEF LogType
<1>2. Len(log) \in Nat /\ DOMAIN log = 1..Len(log)
    BY LogShape
<1>3. log' = Append(log, e) /\ UNCHANGED <<clock, watermark, since>>
    BY DEF WriteLog, dataVars
<1>4. time <= clock /\ time >= clock - Delay
    BY <1>1, ReconcileAssumption DEF WriteLog
<1>5. /\ log' \in Seq(Entry) /\ Len(log') = Len(log) + 1
      /\ \A i \in 1..Len(log) : log'[i] = log[i]
      /\ log'[Len(log) + 1] = e
    <2> HIDE DEF Entry, e
    <2> QED  BY <1>1, <1>3, AppendProperties
<1>6. DOMAIN log' = 1..(Len(log) + 1)
    <2> HIDE DEF Entry, e
    <2> QED  BY <1>5, LenProperties
<1>7. DOMAIN log' = DOMAIN log \cup {Len(log) + 1} /\ Len(log) + 1 \notin DOMAIN log
    BY <1>2, <1>6
<1>8. \A i \in DOMAIN log : log'[i] = log[i] /\ log[i].call # r
    BY <1>2, <1>5 DEF WriteLog, Logged
<1>9. \A i \in DOMAIN log' : log'[i].time <= clock
    <2>1. log'[Len(log) + 1].time = time
        BY <1>5
    <2> QED  BY <1>4, <1>7, <1>8, <2>1 DEF LogType
<1>10. ASSUME NEW i \in DOMAIN log', NEW k \in DOMAIN log', log'[i].call = log'[k].call
       PROVE  log'[i].time = log'[k].time
    <2>1. log'[Len(log) + 1].call = r
        BY <1>5
    <2>2. (i \in DOMAIN log <=> k \in DOMAIN log)
        BY <1>7, <1>8, <1>10, <2>1
    <2>3. CASE i \in DOMAIN log
        BY <1>8, <1>10, <2>2, <2>3 DEF LogType
    <2>4. CASE i \notin DOMAIN log
        BY <1>7, <2>2, <2>4
    <2> QED  BY <2>3, <2>4
<1>11. LogType'
    <2>1. log' \in Seq([call : Requests, time : Nat])
        BY <1>5
    <2>2. /\ clock' \in 0..MaxTime /\ watermark' \in Int \cup {NoTime}
          /\ since' \in 0..clock'
        BY <1>3 DEF LogType
    <2>3. \A i \in DOMAIN log' : log'[i].time <= clock'
        BY <1>3, <1>9
    <2>4. \A i, k \in DOMAIN log' :
             log'[i].call = log'[k].call => log'[i].time = log'[k].time
        BY <1>10
    <2> QED  BY <2>1, <2>2, <2>3, <2>4 DEF LogType
<1> QED  BY <1>4, <1>5, <1>7, <1>8, <1>11

(***************************************************************************)
(* Every step keeps the types.                                             *)
(***************************************************************************)
LEMMA TypesKept == TypeInv /\ [Next]_vars => TypeInv'
<1> SUFFICES ASSUME TypeInv, [Next]_vars  PROVE  TypeInv'
    OBVIOUS
<1> USE ReconcileAssumption
<1>1. LockTypeOK /\ TableType /\ LogType /\ JobType
    BY DEF TypeInv
<1>2. ASSUME UNCHANGED <<clock, log, watermark, since>>  PROVE  LogType'
    BY <1>1, <1>2 DEF LogType
<1>3. ASSUME UNCHANGED <<kind, ledger, orphans, read, degraded>>  PROVE  TableType'
    BY <1>1, <1>3 DEF TableType
<1>4. ASSUME UNCHANGED job  PROVE  JobType'
    BY <1>1, <1>4 DEF JobType, WellStaged
<1>5. ASSUME UNCHANGED lockVars  PROVE  LockTypeOK'
    BY <1>1, <1>5 DEF LockTypeOK, lockVars
<1>6. CASE Advance
    <2>1. LogType'
        <3>1. clock' = clock + 1 /\ clock' \in 0..MaxTime
              /\ UNCHANGED <<log, watermark, since>>
            BY <1>1, <1>6 DEF Advance, LogType, dataVars
        <3>2. \A i \in DOMAIN log : log[i].time <= clock + 1
            BY <1>1, LogShape, SMTT(20) DEF LogType
        <3>3. since \in 0..(clock + 1)
            BY <1>1 DEF LogType
        <3> QED  BY <1>1, <3>1, <3>2, <3>3 DEF LogType
    <2> QED  BY <1>3, <1>4, <1>5, <1>6, <2>1 DEF Advance, dataVars, TypeInv
<1>7. CASE HolderStale \/ Stall
    <2>1. FiveMinutesPass
        BY <1>7 DEF HolderStale, Stall
    <2>2. LockTypeOK'
        BY <1>1, <2>1 DEF LockTypeOK, FiveMinutesPass
    <2> QED  BY <1>2, <1>3, <1>4, <1>7, <2>2 DEF HolderStale, Stall, dataVars, TypeInv
<1>8. ASSUME NEW r \in Requests, HandlerWrites(r)  PROVE  TypeInv'
    <2>1. ledger' \in [Requests -> Rows]
        <3>1. \/ ledger' = [ledger EXCEPT ![r].captured = clock]
              \/ ledger' = [ledger EXCEPT ![r].status = "settled"]
              \/ ledger' = [ledger EXCEPT ![r].status = "failed_unbilled"]
            BY <1>8 DEF HandlerWrites
        <3>2. clock \in Int /\ {"settled", "failed_unbilled"} \subseteq RowStatuses
            BY <1>1 DEF LogType, RowStatuses
        <3> QED  BY <1>1, <3>1, <3>2, RowsKeepTheirType DEF TableType
    <2>2. UNCHANGED <<lockVars, clock, kind, log, orphans, watermark, since, job,
                      read, degraded>>
        BY <1>8 DEF HandlerWrites
    <2>3. TableType'
        BY <1>1, <2>1, <2>2 DEF TableType
    <2> QED  BY <1>2, <1>4, <1>5, <2>2, <2>3 DEF TypeInv
<1>9. ASSUME NEW r \in Requests, NEW time \in 0..MaxTime, WriteLog(r, time)
      PROVE  TypeInv'
    <2>1. LogType'
        BY <1>1, <1>9, LogGrows
    <2> QED  BY <1>3, <1>4, <1>5, <1>9, <2>1 DEF WriteLog, dataVars, TypeInv
<1>10. ASSUME NEW w \in Workers, StartPass(w)  PROVE  TypeInv'
    <2>1. /\ JobType' /\ Mark \in Int
          /\ \/ UNCHANGED since
             \/ /\ Mark - Overlap < clock
                /\ since' = IF watermark = NoTime THEN Later(since, Mark - Overlap)
                            ELSE since
        BY <1>1, <1>10, PassBegun
    <2>2. /\ UNCHANGED <<ledger, orphans, watermark, read, degraded, clock, kind, log>>
          /\ AcquireJobLock(w) \/ RenewNow(w)
        BY <1>10 DEF StartPass, BeginFrom
    <2>3. since' \in 0..clock
        BY <1>1, <2>1 DEF Later, LogType
    <2>4. LogType'
        BY <1>1, <2>2, <2>3 DEF LogType
    <2>5. LockTypeOK'
        BY <1>1, <2>2, LockTypeKept
    <2> QED  BY <1>3, <2>1, <2>2, <2>4, <2>5 DEF TypeInv
<1>11. ASSUME NEW w \in Workers, FetchPage(w)  PROVE  TypeInv'
    <2>1. KeepAlive(w) /\ UNCHANGED <<dataVars, clock, kind, log>>
        BY <1>11 DEF FetchPage
    <2>2. LockTypeOK'
        BY <1>1, <2>1, LockTypeKept
    <2>3. JobType'
        BY <1>1, <1>11, PageFetched
    <2> QED  BY <1>2, <1>3, <2>1, <2>2, <2>3 DEF dataVars, TypeInv
<1>12. ASSUME NEW w \in Workers, ReadEntry(w)  PROVE  TypeInv'
    <2>1. KeepAlive(w) /\ UNCHANGED <<dataVars, clock, kind, log>>
        BY <1>12 DEF ReadEntry
    <2>2. LockTypeOK'
        BY <1>1, <2>1, LockTypeKept
    <2>3. JobType'
        BY <1>1, <1>12, EntryRead
    <2> QED  BY <1>2, <1>3, <2>1, <2>2, <2>3 DEF dataVars, TypeInv
<1>13. ASSUME NEW w \in Workers, WriteEntry(w)  PROVE  TypeInv'
    <2>1. JobType' /\ TableType'
        BY <1>1, <1>13, EntryWritten
    <2>2. UNCHANGED <<lockVars, watermark, since, clock, log>>
        BY <1>13 DEF WriteEntry
    <2> QED  BY <1>2, <1>5, <2>1, <2>2 DEF TypeInv
<1>14. ASSUME NEW w \in Workers, WriteWaiver(w)  PROVE  TypeInv'
    <2>1. JobType' /\ TableType'
        BY <1>1, <1>14, WaiverWritten
    <2>2. UNCHANGED <<lockVars, watermark, since, clock, log>>
        BY <1>14 DEF WriteWaiver
    <2> QED  BY <1>2, <1>5, <2>1, <2>2 DEF TypeInv
<1>15. ASSUME NEW w \in Workers, MoveWatermark(w)  PROVE  TypeInv'
    <2>1. JobType' /\ watermark' \in Int
        BY <1>1, <1>15, WatermarkMoved
    <2>2. UNCHANGED <<lockVars, ledger, orphans, since, read, degraded, clock, kind, log>>
        BY <1>15 DEF MoveWatermark
    <2>3. LogType'
        BY <1>1, <2>1, <2>2 DEF LogType
    <2> QED  BY <1>3, <1>5, <2>1, <2>2, <2>3 DEF TypeInv
<1>16. ASSUME NEW w \in Workers, Crash(w)  PROVE  TypeInv'
    <2> DEFINE k == [NoJob EXCEPT !.stage = "dead"]
    <2>1. k \in Jobs /\ WellStaged(k)
        <3>1. NoJob \in Jobs /\ "dead" \in Stages
            BY EmptySeq DEF NoJob, Jobs, Stages, RowStatuses
        <3>2. \A st \in Stages : [NoJob EXCEPT !.stage = st] \in Jobs
            BY <3>1 DEF Jobs
        <3>3. k.stage = "dead"
            BY DEF NoJob
        <3>4. WellStaged(k)
            BY <3>3 DEF WellStaged, Running, Reading
        <3> QED  BY <3>1, <3>2, <3>4
    <2>2. JobType'
        BY <1>1, <1>16, <2>1, JobReplaced DEF Crash
    <2> QED  BY <1>2, <1>3, <1>5, <1>16, <2>2 DEF Crash, dataVars, TypeInv
<1>17. ASSUME NEW w \in Workers, TickFails(w)  PROVE  TypeInv'
    <2>1. LockTypeOK'
        BY <1>1, <1>17, LockTypeKept DEF TickFails
    <2> QED  BY <1>2, <1>3, <1>4, <1>17, <2>1 DEF TickFails, dataVars, TypeInv
<1>18. ASSUME NEW w \in Workers, PassFails(w)  PROVE  TypeInv'
    <2>1. UNCHANGED <<ledger, orphans, watermark, since, read, clock, kind, log>>
          /\ (UNCHANGED lockVars \/ HeartbeatThrows(w))
        BY <1>18 DEF PassFails
    <2>2. LockTypeOK'
        BY <1>1, <2>1, LockTypeKept
    <2>3. JobType' /\ degraded' \in BOOLEAN
        <3>1. JobType'
            BY <1>1, <1>18, PassFailed
        <3>2. degraded' = degraded \/ degraded' = TRUE
            BY <1>18 DEF PassFails, Caught, FallBack
        <3> QED  BY <1>1, <3>1, <3>2 DEF TableType
    <2>4. TableType'
        BY <1>1, <2>1, <2>3 DEF TableType
    <2> QED  BY <1>2, <2>1, <2>2, <2>3, <2>4 DEF TypeInv
<1>19. CASE UNCHANGED vars
    BY <1>2, <1>3, <1>4, <1>5, <1>19 DEF vars, dataVars, TypeInv
<1> QED
    BY <1>6, <1>7, <1>8, <1>9, <1>10, <1>11, <1>12, <1>13, <1>14, <1>15, <1>16,
       <1>17, <1>18, <1>19 DEF Next, Work

\* Types, for any number of processes, calls, faults and pages.
THEOREM ReconcileTypeCorrect == Spec => []ReconcileTypeOK
<1>1. TypeInv => ReconcileTypeOK
    <2> SUFFICES ASSUME TypeInv  PROVE  ReconcileTypeOK
        OBVIOUS
    <2>1. \A i \in DOMAIN log : log[i].call \in Requests /\ log[i].time \in 0..clock
        BY LogShape DEF TypeInv, LogType
    <2>2. ASSUME NEW w \in Workers
          PROVE  /\ job[w].stage \in Stages /\ job[w].status \in RowStatuses
                 /\ \A i \in DOMAIN job[w].logs : job[w].logs[i] \in Requests
                 /\ job[w].stage \notin {"idle", "dead"} => job[w].queue # <<>>
        <3>1. job[w] \in Jobs /\ WellStaged(job[w])
            BY DEF TypeInv, JobType
        <3>2. /\ job[w].stage \in Stages /\ job[w].status \in RowStatuses
              /\ job[w].logs \in Seq(Requests)
            BY <3>1 DEF Jobs
        <3>3. \A i \in DOMAIN job[w].logs : job[w].logs[i] \in Requests
            BY <3>2, LenProperties
        <3> QED  BY <3>1, <3>2, <3>3 DEF WellStaged, Stages, Running
    <2> QED  BY <2>1, <2>2 DEF ReconcileTypeOK, TypeInv, TableType, LogType
<1> QED  BY <1>1, TypesAtFirst, TypesKept, PTL DEF Spec

-----------------------------------------------------------------------------
(* What was read stays read.                                               *)

\* Nothing is inserted, and what counts as done only grows.
Grows ==
    /\ log' = log /\ read \subseteq read' /\ (degraded => degraded')
    /\ since <= since' /\ clock <= clock'

LEMMA DoneStays ==
    ASSUME Grows, NEW i \in DOMAIN log, Done(i)
    PROVE  Done(i)'
BY DEF Grows, Done, Unseen

\* What a pass has read of the slices behind it, in figures.
LEMMA BaseKept ==
    ASSUME LogType, LogType', JobType, Grows,
           NEW w \in Workers, job[w].queue # <<>>, Base(job[w]),
           job'[w].queue = job[w].queue, job'[w].mark = job[w].mark
    PROVE  Base(job[w])'
<1> USE ReconcileAssumption
<1>1. /\ job[w].queue \in Seq(Slices) /\ job[w].mark \in Int
      /\ Horizon(job[w]) \in Int /\ Head(job[w].queue).start \in Int
    <2>1. job[w].queue \in Seq(Slices) /\ job[w].mark \in Int
        BY DEF JobType, Jobs
    <2>2. /\ Len(job[w].queue) \in 1..Len(job[w].queue)
          /\ Head(job[w].queue) \in Slices
        BY <2>1, EmptySeq, HeadTailProperties, SMTT(20)
    <2>3. job[w].queue[Len(job[w].queue)] \in Slices
        BY <2>1, <2>2, LenProperties
    <2> QED  BY <2>1, <2>2, <2>3 DEF Horizon, Slices
<1>2. Horizon(job[w])' = Horizon(job[w]) /\ clock \in Int /\ clock' \in Int
      /\ since \in Int /\ since' \in Int
    BY DEF Horizon, LogType
<1>3. QueueInOrder(job[w])'
    <2>1. InOrder(job[w].queue)'
        BY DEF Base, QueueInOrder, InOrder
    <2>2. Horizon(job[w]) <= clock' /\ job[w].mark <= clock'
        <3>1. Horizon(job[w]) <= clock /\ job[w].mark <= clock
            BY DEF Base, QueueInOrder
        <3>2. clock <= clock'
            BY DEF Grows
        <3>3. \A a, b, c \in Int : a <= b /\ b <= c => a <= c
            OBVIOUS
        <3> QED  BY <1>1, <1>2, <3>1, <3>2, <3>3
    <2> QED  BY <1>2, <2>1, <2>2 DEF QueueInOrder
<1>4. \A i \in DOMAIN log : log[i].time \in Int
    BY LogShape
<1>5. BehindIsDone(job[w].mark)'
    <2> SUFFICES ASSUME NEW i \in DOMAIN log,
                        since' <= log[i].time, log[i].time < job[w].mark - Overlap
                 PROVE  Done(i)'
        BY DEF BehindIsDone, Grows
    <2>1. since <= log[i].time
        BY <1>2, <1>4, SMTT(20) DEF Grows
    <2>2. Done(i)
        BY <2>1 DEF Base, BehindIsDone
    <2> QED  BY <2>2, DoneStays
<1>6. SlicesBehindAreDone(job[w])'
    <2> SUFFICES ASSUME NEW i \in DOMAIN log, since' <= log[i].time,
                        log[i].time < Head(job[w].queue).start,
                        log[i].time < Horizon(job[w]) - Overlap
                 PROVE  Done(i)'
        BY <1>2 DEF SlicesBehindAreDone, Fixed, Grows
    <2>1. since <= log[i].time
        BY <1>2, <1>4, SMTT(20) DEF Grows
    <2>2. Done(i)
        BY <2>1 DEF Base, SlicesBehindAreDone, Fixed
    <2> QED  BY <2>2, DoneStays
<1> QED  BY <1>3, <1>5, <1>6 DEF Base

\* Nothing that happens elsewhere undoes what a pass knows.
LEMMA PassStays ==
    ASSUME LogType, LogType', JobType, Grows,
           NEW w \in Workers, PassInv(w), job'[w] = job[w]
    PROVE  PassInv(w)'
<1> SUFFICES ASSUME job[w].stage \in Running  PROVE  PassInv(w)'
    BY DEF PassInv
<1>1. job[w].queue # <<>> /\ Base(job[w])
    BY DEF JobType, WellStaged, PassInv
<1>2. Base(job[w])'
    BY <1>1, BaseKept
<1>3. log' = log /\ (degraded => degraded') /\ read \subseteq read'
    BY DEF Grows
<1>4. ASSUME job[w].stage # "done"  PROVE  ListsBehindAreRead(job[w])'
    <2>1. ListsBehindAreRead(job[w])
        BY <1>4 DEF PassInv
    <2> QED  BY <1>3, <2>1 DEF ListsBehindAreRead, Listed, Fixed, Horizon
<1>5. ASSUME job[w].stage = "page"  PROVE  PagesBehindAreRead(job[w])'
    <2>1. PagesBehindAreRead(job[w])
        BY <1>5 DEF PassInv
    <2> QED  BY <1>3, <2>1 DEF PagesBehindAreRead, Place, Rank, Listed, Fixed, Horizon
<1>6. ASSUME job[w].stage \in Reading  PROVE  PageIsPending(job[w])'
    <2>1. PageIsPending(job[w])
        BY <1>6 DEF PassInv
    <2> QED
        BY <1>3, <2>1 DEF PageIsPending, Pending, Place, Rank, Listed, Fixed, Horizon
<1>7. ASSUME job[w].stage = "done"  PROVE  SliceIsDone(job[w])'
    <2>1. SliceIsDone(job[w])
        BY <1>7 DEF PassInv
    <2>2. \A i \in DOMAIN log : Done(i) => Done(i)'
        BY DoneStays
    <2>3. Listed(Head(job[w].queue), Users) \in SUBSET DOMAIN log
        BY DEF Listed
    <2> QED  BY <1>3, <2>1, <2>2, <2>3 DEF SliceIsDone, Listed, Fixed, Horizon
<1> QED  BY <1>2, <1>4, <1>5, <1>6, <1>7 DEF PassInv

\* Before the first page of a listing nothing of it is behind.
LEMMA FirstPage ==
    ASSUME LogType, log' = log, NEW w \in Workers, job'[w].page = 1
    PROVE  PagesBehindAreRead(job[w])'
<1> USE ReconcileAssumption
<1> DEFINE S == Listed(Head(job'[w].queue), job'[w].list)
<1>1. S \in SUBSET DOMAIN log
    BY DEF Listed
<1>2. \A i \in S : Rank(i, S) \in Nat \ {0}
    <2> HIDE DEF S
    <2>1. IsFiniteSet(S) /\ S \in SUBSET Int
        BY <1>1, ListingsAreFinite
    <2>2. /\ Cardinality(S) \in Nat
          /\ \A i \in S : Rank(i, S) \in 1..Cardinality(S)
        BY <2>1, RanksArePlaces
    <2>3. \A n \in Nat : 1..n \subseteq Nat \ {0}
        OBVIOUS
    <2> QED  BY <2>2, <2>3
<1>3. (job'[w].page - 1) * PageSize = 0
    <2>1. (1 - 1) * PageSize = 0
        OBVIOUS
    <2> QED  BY <2>1
<1>4. \A i \in S : ~(Rank(i, S) <= (job'[w].page - 1) * PageSize)
    <2>1. \A n \in Nat \ {0} : ~(n <= 0)
        OBVIOUS
    <2> QED  BY <1>2, <1>3, <2>1
<1>5. Listed(Head(job[w].queue), job[w].list)' = S
    BY DEF Listed
<1>6. \A i \in S : Place(i, job[w])' = Rank(i, S)
    BY <1>5 DEF Place, Rank
<1> HIDE DEF S
<1> QED  BY <1>4, <1>5, <1>6 DEF PagesBehindAreRead

LEMMA SliceReady ==
    ASSUME LogType, log' = log, NEW w \in Workers, NEW queue, NEW mark,
           SliceBegun(w, queue, mark), Base(job[w])'
    PROVE  PassInv(w)'
<1>1. /\ job'[w].stage = "page" /\ job'[w].source = "admin" /\ job'[w].page = 1
      /\ job'[w].list = Users /\ job'[w].more = {}
    BY DEF SliceBegun
<1>2. PagesBehindAreRead(job[w])'
    BY <1>1, FirstPage
<1>3. ListsBehindAreRead(job[w])'
    BY <1>1 DEF ListsBehindAreRead
<1> QED  BY <1>1, <1>2, <1>3 DEF PassInv, Reading

LEMMA FallbackReady ==
    ASSUME LogType, LogType', JobType, Grows,
           NEW w \in Workers, job[w].queue # <<>>, Base(job[w]), FallenBack(w)
    PROVE  PassInv(w)'
<1> USE ReconcileAssumption
<1>1. Base(job[w])' /\ log' = log /\ degraded'
    BY BaseKept DEF FallenBack, Grows
<1>2. CASE Bound = {} /\ job'[w].stage = "done"
    <2>1. SliceIsDone(job[w])'
        BY <1>1, <1>2 DEF SliceIsDone, Done, Unseen
    <2> QED  BY <1>1, <1>2, <2>1 DEF PassInv, Reading
<1>3. ASSUME job'[w].stage = "page", job'[w].source = "user", job'[w].page = 1,
             NEW u \in Bound, job'[w].list = {u}, job'[w].more = Bound \ {u}
      PROVE  PassInv(w)'
    <2>1. PagesBehindAreRead(job[w])'
        BY <1>1, <1>3, FirstPage
    <2>2. Bound \ (job'[w].list \cup job'[w].more) = {}
        BY <1>3
    <2>3. ListsBehindAreRead(job[w])'
        BY <1>1, <1>3, <2>2 DEF ListsBehindAreRead, Listed
    <2> QED  BY <1>1, <1>3, <2>1, <2>3 DEF PassInv, Reading
<1> QED  BY <1>2, <1>3 DEF FallenBack

\* All of the page asked for, or of the listing when that page is the last.
PageComplete(w, full) ==
    \A i \in Listed(SliceOf(w), job[w].list) :
        /\ Fixed(i, job[w])
        /\ full => Place(i, job[w]) <= job[w].page * PageSize
        => log[i].call \in read'

LEMMA PageDone ==
    ASSUME LogType, LogType', JobType, Grows,
           NEW w \in Workers, job[w].queue # <<>>, Base(job[w]),
           ListsBehindAreRead(job[w]),
           NEW full \in BOOLEAN, PageComplete(w, full), PageAfter(w, full)
    PROVE  PassInv(w)'
<1> USE ReconcileAssumption
<1> DEFINE j == job[w]
           s == Head(j.queue)
<1>1. /\ Base(job[w])' /\ log' = log /\ read \subseteq read'
      /\ (degraded => degraded')
      /\ job'[w].queue = j.queue /\ job'[w].source = j.source
    BY BaseKept DEF PageAfter, SameSlice, Grows
<1>2. job[w] \in Jobs /\ j.page \in Nat \ {0} /\ j.source \in {"admin", "user"}
      /\ j.list \subseteq Users
    BY DEF JobType, Jobs
<1>3. \A i : Fixed(i, job[w])' <=> Fixed(i, j)
    BY <1>1 DEF Fixed, Horizon
<1>4. \A users : Listed(s, users)' = Listed(s, users)
    BY <1>1 DEF Listed
<1>5. CASE /\ full /\ job'[w].stage = "page" /\ job'[w].page = j.page + 1
           /\ job'[w].list = j.list /\ job'[w].more = j.more
    <2>1. ListsBehindAreRead(job[w])'
        BY <1>1, <1>5 DEF ListsBehindAreRead, Listed, Fixed, Horizon
    <2>2. PagesBehindAreRead(job[w])'
        <3>1. job'[w].page - 1 = j.page
            BY <1>2, <1>5
        <3>2. SUFFICES ASSUME NEW i \in Listed(s, j.list), Fixed(i, j),
                              Place(i, j) <= j.page * PageSize
                       PROVE  log[i].call \in read'
            BY <1>1, <1>5, <3>1
               DEF PagesBehindAreRead, Listed, Place, Rank, Fixed, Horizon
        <3> QED  BY <3>2 DEF PageComplete, SliceOf
    <2> QED  BY <1>1, <1>5, <2>1, <2>2 DEF PassInv, Reading
<1>6. CASE ~full /\ j.more = {} /\ job'[w].stage = "done"
    <2>1. SUFFICES ASSUME NEW i \in Listed(s, Users), Fixed(i, j)
                   PROVE  log[i].call \in read' \/ Unseen(log[i].call)'
        <3>1. SliceIsDone(job[w])'
            BY <1>1, <2>1 DEF SliceIsDone, Done, Unseen, Listed, Fixed, Horizon
        <3> QED  BY <1>1, <1>6, <3>1 DEF PassInv, Reading
    <2>2. ASSUME Owner[log[i].call] \in j.list  PROVE  log[i].call \in read'
        <3>1. i \in Listed(s, j.list)
            BY <2>2 DEF Listed
        <3> QED  BY <1>6, <2>1, <3>1 DEF PageComplete, SliceOf
    <2>3. CASE j.source = "admin"
        <3>1. j.list = Users
            BY <2>3 DEF ListsBehindAreRead
        <3> QED  BY <2>1, <2>2, <3>1 DEF Listed
    <2>4. CASE j.source = "user"
        <3>1. degraded' /\ \A k \in Listed(s, Bound \ (j.list \cup j.more)) :
                              Fixed(k, j) => log[k].call \in read
            BY <1>1, <2>4 DEF ListsBehindAreRead
        <3>2. CASE Owner[log[i].call] \in Bound \ (j.list \cup j.more)
            <4>1. i \in Listed(s, Bound \ (j.list \cup j.more))
                BY <3>2 DEF Listed
            <4> QED  BY <1>1, <2>1, <3>1, <4>1
        <3>3. CASE Owner[log[i].call] \notin Bound
            <4>1. log'[i].call = log[i].call
                BY <1>1
            <4> QED  BY <3>1, <3>3, <4>1 DEF Unseen
        <3> QED  BY <1>6, <2>2, <3>2, <3>3
    <2> QED  BY <1>2, <2>3, <2>4
<1>7. ASSUME ~full, job'[w].stage = "page", job'[w].page = 1,
             NEW u \in j.more, job'[w].list = {u}, job'[w].more = j.more \ {u}
      PROVE  PassInv(w)'
    <2>1. PagesBehindAreRead(job[w])'
        BY <1>1, <1>7, FirstPage
    <2>2. j.source = "user" /\ degraded'
        BY <1>1, <1>2, <1>7 DEF ListsBehindAreRead
    <2>3. Bound \ (job'[w].list \cup job'[w].more) = Bound \ j.more
        BY <1>7
    <2>4. ASSUME NEW i \in Listed(s, Bound \ j.more), Fixed(i, j)
          PROVE  log[i].call \in read'
        <3>1. CASE Owner[log[i].call] \in j.list
            <4>1. i \in Listed(s, j.list)
                BY <3>1 DEF Listed
            <4> QED  BY <1>7, <2>4, <4>1 DEF PageComplete, SliceOf
        <3>2. CASE Owner[log[i].call] \notin j.list
            <4>1. i \in Listed(s, Bound \ (j.list \cup j.more))
                BY <3>2 DEF Listed
            <4> QED  BY <1>1, <2>2, <2>4, <4>1 DEF ListsBehindAreRead
        <3> QED  BY <3>1, <3>2
    <2>5. ListsBehindAreRead(job[w])'
        <3>1. job'[w].source = "user"
            BY <1>1, <2>2
        <3>2. \A i \in Listed(Head(job[w].queue), Bound \ (job[w].list \cup job[w].more))' :
                 Fixed(i, job[w])' => log'[i].call \in read'
            BY <1>1, <1>3, <2>3, <2>4 DEF Listed
        <3> QED  BY <2>2, <3>1, <3>2 DEF ListsBehindAreRead
    <2> QED  BY <1>1, <1>7, <2>1, <2>5 DEF PassInv, Reading
<1> QED  BY <1>5, <1>6, <1>7 DEF PageAfter

\* What is pending behind the head is pending in the tail.
LEMMA PendingIsHeadOrTail ==
    ASSUME NEW logs \in Seq(Requests), logs # <<>>, NEW n \in DOMAIN logs
    PROVE  \/ logs[n] = Head(logs)
           \/ Len(logs) > 1 /\ \E k \in DOMAIN Tail(logs) : Tail(logs)[k] = logs[n]
<1>1. /\ Len(logs) \in Nat \ {0} /\ DOMAIN logs = 1..Len(logs)
      /\ Head(logs) = logs[1]
    BY EmptySeq, LenProperties
<1>2. /\ Tail(logs) \in Seq(Requests) /\ Len(Tail(logs)) = Len(logs) - 1
      /\ \A i \in 1..Len(Tail(logs)) : Tail(logs)[i] = logs[i + 1]
    BY HeadTailProperties
<1>3. DOMAIN Tail(logs) = 1..Len(Tail(logs))
    BY <1>2, LenProperties
<1>4. ASSUME n # 1
      PROVE  Len(logs) > 1 /\ \E k \in DOMAIN Tail(logs) : Tail(logs)[k] = logs[n]
    <2>1. \A m \in Nat \ {0} : \A k \in 1..m :
             k # 1 => m > 1 /\ k - 1 \in 1..(m - 1) /\ (k - 1) + 1 = k
        OBVIOUS
    <2>2. Len(logs) > 1 /\ n - 1 \in 1..(Len(logs) - 1) /\ (n - 1) + 1 = n
        BY <1>1, <1>4, <2>1
    <2>3. n - 1 \in DOMAIN Tail(logs) /\ Tail(logs)[n - 1] = logs[n]
        BY <1>2, <1>3, <2>2
    <2> QED  BY <2>2, <2>3
<1> QED  BY <1>1, <1>4

\* An entry processed, the rest of the page is still pending.
LEMMA EntryDone ==
    ASSUME LogType, LogType', JobType, Grows,
           NEW w \in Workers, job[w].stage \in Reading, PassInv(w), EntryAfter(w),
           read' = read \cup {Head(job[w].logs)}
    PROVE  PassInv(w)'
<1> DEFINE j == job[w]
           s == Head(j.queue)
<1>1. /\ job[w] \in Jobs /\ j.logs \in Seq(Requests) /\ j.logs # <<>>
      /\ j.full \in BOOLEAN /\ j.queue # <<>> /\ j.stage \in Running
      /\ j.stage # "done"
    BY DEF JobType, Jobs, WellStaged, Running, Reading
<1>2. /\ Base(job[w]) /\ ListsBehindAreRead(job[w]) /\ PageIsPending(job[w])
      /\ log' = log
    BY <1>1 DEF PassInv, Grows
<1>3. ASSUME NEW r, Pending(r, j), r \notin read'
      PROVE  Len(j.logs) > 1 /\ \E k \in DOMAIN Tail(j.logs) : Tail(j.logs)[k] = r
    <2>1. PICK n \in DOMAIN j.logs : j.logs[n] = r
        BY <1>3 DEF Pending
    <2>2. j.logs[n] # Head(j.logs)
        BY <1>3, <2>1
    <2> HIDE DEF j
    <2> QED  BY <1>1, <2>1, <2>2, PendingIsHeadOrTail
<1>4. CASE /\ SamePage(w) /\ job'[w].stage = "entry"
           /\ job'[w].logs = Tail(j.logs)
    <2>1. Base(job[w])'
        BY <1>1, <1>2, <1>4, BaseKept DEF SamePage, SameSlice
    <2>2. ListsBehindAreRead(job[w])'
        BY <1>2, <1>4
           DEF ListsBehindAreRead, SamePage, SameSlice, Listed, Fixed, Horizon, Grows
    <2>3. PageIsPending(job[w])'
        <3>1. SUFFICES ASSUME NEW i \in Listed(s, j.list), Fixed(i, j),
                              j.full => Place(i, j) <= j.page * PageSize
                       PROVE  \/ log[i].call \in read'
                              \/ \E k \in DOMAIN Tail(j.logs) :
                                    Tail(j.logs)[k] = log[i].call
            BY <1>2, <1>4
               DEF PageIsPending, Pending, SamePage, SameSlice, Listed, Place, Rank,
                   Fixed, Horizon
        <3>2. log[i].call \in read \/ Pending(log[i].call, j)
            BY <1>2, <3>1 DEF PageIsPending
        <3> QED  BY <1>3, <3>2
    <2> QED  BY <1>4, <2>1, <2>2, <2>3 DEF PassInv, Reading
<1>5. CASE Len(j.logs) = 1 /\ PageAfter(w, j.full)
    <2>1. PageComplete(w, j.full)
        <3>1. SUFFICES ASSUME NEW i \in Listed(s, j.list), Fixed(i, j),
                              j.full => Place(i, j) <= j.page * PageSize
                       PROVE  log[i].call \in read'
            BY DEF PageComplete, SliceOf
        <3>2. log[i].call \in read \/ Pending(log[i].call, j)
            BY <1>2, <3>1 DEF PageIsPending
        <3>3. ~(Len(j.logs) > 1)
            BY <1>5
        <3> QED  BY <1>3, <3>2, <3>3
    <2> QED  BY <1>1, <1>2, <1>5, <2>1, PageDone
<1> QED  BY <1>4, <1>5 DEF EntryAfter

\* A row read or waived, the page is the same.
LEMMA PageKept ==
    ASSUME LogType, LogType', JobType, Grows,
           NEW w \in Workers, job[w].stage \in Reading, PassInv(w), SamePage(w),
           job'[w].stage \in Reading, job'[w].logs = job[w].logs
    PROVE  PassInv(w)'
<1>1. job[w].queue # <<>> /\ job[w].stage \in Running /\ job[w].stage # "done"
    BY DEF JobType, WellStaged, Running, Reading
<1>2. /\ Base(job[w]) /\ ListsBehindAreRead(job[w]) /\ PageIsPending(job[w])
      /\ log' = log
    BY <1>1 DEF PassInv, Grows
<1>3. Base(job[w])'
    BY <1>1, <1>2, BaseKept DEF SamePage, SameSlice
<1>4. ListsBehindAreRead(job[w])'
    BY <1>2 DEF ListsBehindAreRead, SamePage, SameSlice, Listed, Fixed, Horizon, Grows
<1>5. PageIsPending(job[w])'
    BY <1>2
       DEF PageIsPending, Pending, SamePage, SameSlice, Listed, Place, Rank,
           Fixed, Horizon, Grows
<1> QED  BY <1>3, <1>4, <1>5 DEF PassInv, Reading, Running

\* The figures of a slice that has been halved are those of the slice.
LEMMA HalvedSliceReady ==
    ASSUME LogType, LogType', JobType, UNCHANGED <<log, read, degraded, since, clock>>,
           NEW w \in Workers, job[w].queue # <<>>, Base(job[w]), Overflows(w),
           SliceBegun(w, Halves(SliceOf(w)) \o Tail(job[w].queue), job[w].mark)
    PROVE  PassInv(w)'
<1> DEFINE q == job[w].queue
           h == Halves(Head(q)) \o Tail(q)
<1>1. q \in Seq(Slices) /\ q # <<>> /\ InOrder(q)
    BY DEF JobType, Jobs, Base, QueueInOrder
<1>2. Head(q).end - Head(q).start > MinSlice
    BY DEF Overflows
<1>3. /\ InOrder(h) /\ Head(h).start = Head(q).start
      /\ h[Len(h)].end = q[Len(q)].end
    <2> HIDE DEF q
    <2> QED  BY <1>1, <1>2, HalvesStayInOrder
<1>4. job'[w].queue = h /\ job'[w].mark = job[w].mark
    BY DEF SliceBegun, SliceOf
<1> HIDE DEF h
<1>5. Horizon(job[w])' = Horizon(job[w])
    BY <1>3, <1>4 DEF Horizon
<1>6. QueueInOrder(job[w])'
    <2>1. InOrder(job[w].queue)'
        BY <1>3, <1>4 DEF InOrder
    <2> QED  BY <1>4, <1>5, <2>1 DEF Base, QueueInOrder
<1>7. \A i : Done(i)' <=> Done(i)
    BY DEF Done, Unseen
<1>8. BehindIsDone(job[w].mark)'
    BY <1>4, <1>7 DEF Base, BehindIsDone
<1>9. SlicesBehindAreDone(job[w])'
    <2>1. Head(job[w].queue)'.start = Head(job[w].queue).start
        BY <1>3, <1>4
    <2>2. \A i : Fixed(i, job[w])' <=> Fixed(i, job[w])
        BY <1>5 DEF Fixed
    <2> QED  BY <1>7, <2>1, <2>2 DEF Base, SlicesBehindAreDone
<1>10. Base(job[w])'
    BY <1>6, <1>8, <1>9 DEF Base
<1> QED  BY <1>10, SliceReady

\* A page fetched: its entries are pending, or there are none and the listing
\* ends here.
LEMMA FetchReady ==
    ASSUME LogType, LogType', JobType, NEW w \in Workers, FetchPage(w), PassInv(w)
    PROVE  PassInv(w)'
<1> USE ReconcileAssumption
<1> DEFINE j == job[w]
           S == Listed(SliceOf(w), j.list)
<1>1. UNCHANGED <<log, read, degraded, since, clock>>
    BY DEF FetchPage, dataVars
<1>2. Grows
    BY <1>1 DEF Grows, LogType
<1>3. /\ job[w] \in Jobs /\ j.queue # <<>> /\ j.page \in Nat \ {0}
      /\ j.stage = "page" /\ j.stage \in Running
    BY DEF JobType, Jobs, WellStaged, FetchPage, Running
<1>4. Base(job[w]) /\ ListsBehindAreRead(job[w]) /\ PagesBehindAreRead(job[w])
    BY <1>3 DEF PassInv
<1>5. S \in SUBSET DOMAIN log
    BY DEF Listed
<1>6. /\ Len(Items(w)) # PageSize => \A i \in S : Rank(i, S) <= j.page * PageSize
      /\ \A i \in S :
            Rank(i, S) > (j.page - 1) * PageSize /\ Rank(i, S) <= j.page * PageSize
            => \E n \in DOMAIN Items(w) : Items(w)[n] = log[i].call
    <2> HIDE DEF S
    <2> DEFINE p == j.page
    <2>1. p \in Nat \ {0}
        BY <1>3
    <2> HIDE DEF p
    <2>2. LET page == PageOf(S, p) IN
          /\ Len(page) # PageSize => \A i \in S : Rank(i, S) <= p * PageSize
          /\ \A i \in S :
                Rank(i, S) > (p - 1) * PageSize /\ Rank(i, S) <= p * PageSize
                => \E n \in DOMAIN page : page[n] = log[i].call
        BY <1>5, <2>1, PagesHoldTheirPlaces
    <2>3. Items(w) = PageOf(S, p)
        BY DEF Items, S, p
    <2> QED  BY <2>2, <2>3 DEF p
<1>7. ASSUME NEW i \in S, Fixed(i, j),
             Len(Items(w)) = PageSize => Rank(i, S) <= j.page * PageSize
      PROVE  \/ log[i].call \in read
             \/ \E n \in DOMAIN Items(w) : Items(w)[n] = log[i].call
    <2>1. Rank(i, S) <= j.page * PageSize
        BY <1>6, <1>7
    <2>2. CASE Rank(i, S) <= (j.page - 1) * PageSize
        BY <1>4, <1>7, <2>2 DEF PagesBehindAreRead, Place, SliceOf
    <2>3. CASE ~(Rank(i, S) <= (j.page - 1) * PageSize)
        <3>1. Rank(i, S) \in Int
            <4>1. IsFiniteSet(S) /\ S \in SUBSET Int
                BY <1>5, ListingsAreFinite
            <4>2. Cardinality(S) \in Nat /\ Rank(i, S) \in 1..Cardinality(S)
                BY <1>7, <4>1, RanksArePlaces
            <4> QED  BY <4>2
        <3>2. (j.page - 1) * PageSize \in Int
            <4>1. \A m \in Nat \ {0} : m - 1 \in Int
                OBVIOUS
            <4>2. \A a, b \in Int : a * b \in Int
                OBVIOUS
            <4> QED  BY <1>3, <4>1, <4>2
        <3>3. \A a, b \in Int : ~(a <= b) => a > b
            OBVIOUS
        <3>4. Rank(i, S) > (j.page - 1) * PageSize
            BY <2>3, <3>1, <3>2, <3>3
        <3> QED  BY <1>6, <1>7, <2>1, <3>4
    <2> QED  BY <2>2, <2>3
<1>8. CASE job'[w] = NoJob
    BY <1>8 DEF PassInv, NoJob, Running
<1>9. CASE /\ Overflows(w)
           /\ SliceBegun(w, Halves(SliceOf(w)) \o Tail(job[w].queue), job[w].mark)
    BY <1>1, <1>3, <1>4, <1>9, HalvedSliceReady
<1>10. CASE Items(w) = <<>> /\ Len(Items(w)) # PageSize /\ PageAfter(w, FALSE)
    <2>1. PageComplete(w, FALSE)
        <3>1. SUFFICES ASSUME NEW i \in S, Fixed(i, j)  PROVE  log[i].call \in read
            BY <1>1 DEF PageComplete
        <3>2. DOMAIN Items(w) = {}
            BY <1>10
        <3> QED  BY <1>7, <1>10, <3>1, <3>2
    <2> QED  BY <1>2, <1>3, <1>4, <1>10, <2>1, PageDone
<1>11. CASE /\ SameSlice(w) /\ job'[w].stage = "entry"
            /\ job'[w].logs = Items(w)
            /\ job'[w].full = (Len(Items(w)) = PageSize)
            /\ job'[w].list = job[w].list /\ job'[w].more = job[w].more
            /\ job'[w].page = job[w].page
    <2>1. Base(job[w])'
        BY <1>2, <1>3, <1>4, <1>11, BaseKept DEF SameSlice
    <2>2. ListsBehindAreRead(job[w])'
        BY <1>1, <1>4, <1>11
           DEF ListsBehindAreRead, SameSlice, Listed, Fixed, Horizon
    <2>3. PageIsPending(job[w])'
        <3>1. Listed(Head(job[w].queue), job[w].list)' = S
            BY <1>1, <1>11 DEF Listed, SliceOf, SameSlice
        <3>2. \A i : Fixed(i, job[w])' <=> Fixed(i, j)
            BY <1>1, <1>11 DEF Fixed, Horizon, SameSlice
        <3>3. \A i : Place(i, job[w])' = Rank(i, S)
            BY <3>1 DEF Place, Rank
        <3>4. \A r : Pending(r, job[w])' <=>
                        \E n \in DOMAIN Items(w) : Items(w)[n] = r
            BY <1>11 DEF Pending
        <3>5. job'[w].full = (Len(Items(w)) = PageSize) /\ job'[w].page = j.page
            BY <1>11
        <3> HIDE DEF S
        <3>6. SUFFICES ASSUME NEW i \in S, Fixed(i, job[w])',
                              job'[w].full => Place(i, job[w])' <= job'[w].page * PageSize
                       PROVE  \/ log[i].call \in read
                              \/ \E n \in DOMAIN Items(w) : Items(w)[n] = log[i].call
            BY <1>1, <1>11, <3>1 DEF PageIsPending, Pending
        <3>7. /\ Fixed(i, j)
              /\ Len(Items(w)) = PageSize => Rank(i, S) <= j.page * PageSize
            BY <3>2, <3>3, <3>5, <3>6
        <3> QED  BY <1>7, <3>7
    <2> QED  BY <1>11, <2>1, <2>2, <2>3 DEF PassInv, Reading
<1> QED  BY <1>8, <1>9, <1>10, <1>11, PageFetched

\* A pass begins behind the watermark, where everything is done already.
LEMMA PassReady ==
    ASSUME LogType, LogType', JobType, NEW w \in Workers, StartPass(w),
           WatermarkInv, PassInv(w)
    PROVE  Grows /\ WatermarkInv' /\ PassInv(w)'
<1> USE ReconcileAssumption
<1> DEFINE start == Mark - Overlap
<1>1. UNCHANGED <<log, read, degraded, watermark, clock>>
    BY DEF StartPass, BeginFrom
<1>2. /\ clock \in Int /\ since \in Int /\ Mark \in Int /\ start \in Int
      /\ watermark \in Int \cup {NoTime} /\ \A i \in DOMAIN log : log[i].time \in Int
    BY LogShape, PassBegun, SMTT(20) DEF LogType
<1>3. CASE UNCHANGED <<job, since>>
    <2>1. Grows
        BY <1>1, <1>2, <1>3 DEF Grows
    <2>2. WatermarkInv'
        BY <1>1, <1>3 DEF WatermarkInv, BehindIsDone, Done, Unseen
    <2> QED  BY <1>3, <2>1, <2>2, PassStays
<1>4. CASE /\ start < clock
           /\ SliceBegun(w, SlicesBetween(start, clock), Mark)
           /\ since' = IF watermark = NoTime THEN Later(since, start) ELSE since
    <2> DEFINE q == SlicesBetween(start, clock)
    <2>1. /\ since <= since'
          /\ watermark = NoTime => since' >= start
          /\ watermark # NoTime => since' = since
        BY <1>2, <1>4 DEF Later
    <2>2. Grows
        BY <1>1, <1>2, <2>1 DEF Grows
    <2>3. \A i : Done(i)' <=> Done(i)
        BY <1>1 DEF Done, Unseen
    <2>4. WatermarkInv'
        BY <1>1, <2>1, <2>3 DEF WatermarkInv, BehindIsDone
    <2>5. \A i \in DOMAIN log : since' <= log[i].time /\ log[i].time < start => Done(i)'
        <3>1. CASE watermark = NoTime
            <4>1. since' \in Int
                BY <1>2, <1>4 DEF Later
            <4>2. \A a, b, c \in Int : ~(a <= b /\ b < c /\ a >= c)
                OBVIOUS
            <4> QED  BY <1>2, <2>1, <3>1, <4>1, <4>2
        <3>2. CASE watermark # NoTime
            BY <2>1, <2>3, <3>2 DEF Mark, WatermarkInv, BehindIsDone
        <3> QED  BY <3>1, <3>2
    <2>6. InOrder(q) /\ Head(q).start = start /\ q[Len(q)].end = clock
        <3> HIDE DEF start
        <3> QED  BY <1>2, <1>4, SlicesCoverThePass
    <2>7. job'[w].queue = q /\ job'[w].mark = Mark
        BY <1>4 DEF SliceBegun
    <2>8. Mark <= clock
        BY <1>2 DEF Mark, WatermarkInv
    <2> HIDE DEF q
    <2>9. Base(job[w])'
        <3>1. QueueInOrder(job[w])'
            <4>1. InOrder(job[w].queue)'
                BY <2>6, <2>7 DEF InOrder
            <4>2. Horizon(job[w])' = clock
                BY <2>6, <2>7 DEF Horizon
            <4> QED  BY <1>1, <1>2, <2>7, <2>8, <4>1, <4>2 DEF QueueInOrder
        <3>2. BehindIsDone(job[w].mark)'
            BY <1>1, <2>5, <2>7 DEF BehindIsDone
        <3>3. SlicesBehindAreDone(job[w])'
            BY <1>1, <2>5, <2>6, <2>7 DEF SlicesBehindAreDone
        <3> QED  BY <3>1, <3>2, <3>3 DEF Base
    <2>10. PassInv(w)'
        BY <1>1, <1>4, <2>9, SliceReady
    <2> QED  BY <2>2, <2>4, <2>10
<1> QED  BY <1>3, <1>4, PassBegun

\* At the end of a slice everything before that end is done, less the overlap.
LEMMA WatermarkReady ==
    ASSUME LogType, LogType', JobType, NEW w \in Workers, MoveWatermark(w),
           WatermarkInv, PassInv(w)
    PROVE  Grows /\ WatermarkInv' /\ PassInv(w)'
<1> USE ReconcileAssumption
<1> DEFINE j == job[w]
           s == Head(j.queue)
           mark == Later(j.mark, s.end)
<1>1. UNCHANGED <<log, read, degraded, since, clock>>
    BY DEF MoveWatermark
<1>2. Grows
    BY <1>1 DEF Grows, LogType
<1>3. /\ job[w] \in Jobs /\ j.queue \in Seq(Slices) /\ j.queue # <<>>
      /\ j.mark \in Int /\ j.stage = "done" /\ j.stage \in Running
    BY DEF JobType, Jobs, WellStaged, MoveWatermark, Running
<1>4. Base(job[w]) /\ SliceIsDone(job[w])
    BY <1>3 DEF PassInv
<1>5. /\ clock \in Int /\ since \in Int /\ Overlap \in Nat
      /\ watermark \in Int \cup {NoTime}
      /\ \A i \in DOMAIN log : log[i].time \in Int /\ Owner[log[i].call] \in Users
    BY LogShape, SMTT(20) DEF LogType
<1>6. /\ s.start \in Int /\ s.end \in Int /\ Horizon(j) \in Int
      /\ s.end <= Horizon(j)
    <2>1. /\ Len(j.queue) \in 1..Len(j.queue) /\ 1 \in 1..Len(j.queue)
          /\ s = j.queue[1] /\ s \in Slices
        BY <1>3, EmptySeq, HeadTailProperties, LenProperties
    <2>2. j.queue[Len(j.queue)] \in Slices
        BY <1>3, <2>1, LenProperties
    <2>3. s.end <= Horizon(j)
        BY <1>4, <2>1 DEF Base, QueueInOrder, InOrder, Horizon
    <2> QED  BY <2>1, <2>2, <2>3 DEF Slices, Horizon
<1>7. Horizon(j) <= clock /\ j.mark <= clock
    BY <1>4 DEF Base, QueueInOrder
<1>8. ASSUME NEW i \in DOMAIN log, since <= log[i].time, log[i].time < s.end,
             Fixed(i, j)
      PROVE  Done(i)
    <2>1. CASE log[i].time < s.start
        BY <1>4, <1>8, <2>1 DEF Base, SlicesBehindAreDone
    <2>2. CASE ~(log[i].time < s.start)
        <3>1. log[i].time \in s.start..s.end
            BY <1>5, <1>6, <1>8, <2>2, SMTT(20)
        <3>2. i \in Listed(s, Users)
            BY <1>5, <3>1 DEF Listed
        <3> QED  BY <1>4, <1>8, <3>2 DEF SliceIsDone
    <2> QED  BY <2>1, <2>2
<1> HIDE DEF s
<1>9. mark \in Int /\ mark <= clock /\ (mark = j.mark \/ mark = s.end)
    BY <1>3, <1>5, <1>6, <1>7, SMTT(20) DEF Later
<1> HIDE DEF mark
<1>10. BehindIsDone(mark)
    <2>1. CASE mark = j.mark
        BY <1>4, <2>1 DEF Base
    <2>2. CASE mark = s.end
        <3>1. SUFFICES ASSUME NEW i \in DOMAIN log,
                              since <= log[i].time, log[i].time < s.end - Overlap
                       PROVE  Done(i)
            BY <2>2 DEF BehindIsDone
        <3>2. log[i].time < s.end /\ log[i].time < Horizon(j) - Overlap
            <4>1. \A t, e, h \in Int, o \in Nat :
                     t < e - o /\ e <= h => t < e /\ t < h - o
                OBVIOUS
            <4>2. log[i].time \in Int /\ Overlap \in Nat
                BY <1>5
            <4> QED  BY <1>6, <3>1, <4>1, <4>2
        <3> QED  BY <1>8, <3>1, <3>2 DEF Fixed
    <2> QED  BY <1>9, <2>1, <2>2
<1>11. \A i : Done(i)' <=> Done(i)
    BY <1>1 DEF Done, Unseen
<1>12. WatermarkInv'
    <2>1. watermark' = Later(watermark, mark)
        BY DEF MoveWatermark, mark, s
    <2>2. watermark' = mark \/ watermark' = watermark
        BY <2>1 DEF Later
    <2>3. CASE watermark' = mark
        BY <1>1, <1>9, <1>10, <1>11, <2>3 DEF WatermarkInv, BehindIsDone
    <2>4. CASE watermark' = watermark
        BY <1>1, <1>11, <2>4 DEF WatermarkInv, BehindIsDone
    <2> QED  BY <2>2, <2>3, <2>4
<1>13. CASE job'[w] = NoJob
    BY <1>2, <1>12, <1>13 DEF PassInv, NoJob, Running
<1>14. CASE Tail(j.queue) # <<>> /\ SliceBegun(w, Tail(j.queue), mark)
    <2> DEFINE t == Tail(j.queue)
    <2>1. Len(j.queue) > 1
        <3>1. Len(j.queue) \in Nat \ {0} /\ Len(t) = Len(j.queue) - 1 /\ t \in Seq(Slices)
            BY <1>3, EmptySeq, HeadTailProperties, LenProperties
        <3>2. Len(t) # 0
            BY <1>14, <3>1, EmptySeq
        <3>3. \A n \in Nat \ {0} : n - 1 # 0 => n > 1
            OBVIOUS
        <3> QED  BY <3>1, <3>2, <3>3
    <2>2. /\ InOrder(t) /\ Head(t).start = s.end
          /\ t[Len(t)].end = j.queue[Len(j.queue)].end
        <3>1. InOrder(j.queue)
            BY <1>4 DEF Base, QueueInOrder
        <3> HIDE DEF j
        <3> QED  BY <1>3, <2>1, <3>1, TailsStayInOrder DEF s
    <2>3. job'[w].queue = t /\ job'[w].mark = mark
        BY <1>14 DEF SliceBegun
    <2> HIDE DEF t
    <2>4. Horizon(job[w])' = Horizon(j)
        BY <2>2, <2>3 DEF Horizon
    <2>5. Base(job[w])'
        <3>1. QueueInOrder(job[w])'
            <4>1. InOrder(job[w].queue)'
                BY <2>2, <2>3 DEF InOrder
            <4> QED  BY <1>1, <1>7, <1>9, <2>3, <2>4, <4>1 DEF QueueInOrder
        <3>2. BehindIsDone(job[w].mark)'
            BY <1>1, <1>10, <1>11, <2>3 DEF BehindIsDone
        <3>3. SlicesBehindAreDone(job[w])'
            <4>1. \A i : Fixed(i, job[w])' <=> Fixed(i, j)
                BY <1>1, <2>4 DEF Fixed
            <4>2. Head(job'[w].queue).start = s.end
                BY <2>2, <2>3
            <4> QED  BY <1>1, <1>8, <1>11, <4>1, <4>2 DEF SlicesBehindAreDone
        <3> QED  BY <3>1, <3>2, <3>3 DEF Base
    <2>6. PassInv(w)'
        BY <1>1, <1>14, <2>5, SliceReady
    <2> QED  BY <1>2, <1>12, <2>6
<1> QED  BY <1>13, <1>14, WatermarkMoved DEF mark, s

\* An insertion moves the entries of a listing to later places, never to
\* earlier ones.
LEMMA PlacesOnlyGrow ==
    ASSUME LogType, NEW m \in Int, DOMAIN log' = DOMAIN log \cup {m},
           \A i \in DOMAIN log : log'[i] = log[i],
           NEW slice, NEW users, NEW i \in Listed(slice, users)
    PROVE  /\ i \in Listed(slice, users)'
           /\ Rank(i, Listed(slice, users)) \in Int
           /\ Rank(i, Listed(slice, users)') \in Int
           /\ Rank(i, Listed(slice, users)) <= Rank(i, Listed(slice, users)')
<1> DEFINE S == Listed(slice, users)
           T == Listed(slice, users)'
<1>1. S \in SUBSET DOMAIN log /\ T \in SUBSET DOMAIN log' /\ S \in SUBSET T
    BY DEF Listed
<1>2. IsFiniteSet(DOMAIN log')
    <2>1. IsFiniteSet(DOMAIN log)
        BY ListingsAreFinite
    <2> QED  BY <2>1, FS_AddElement
<1> HIDE DEF S, T
<1>3. IsFiniteSet(T)
    BY <1>1, <1>2, FS_Subset
<1>4. {j \in S : j >= i} \in SUBSET {j \in T : j >= i}
    BY <1>1
<1>5. IsFiniteSet({j \in T : j >= i})
    BY <1>3, FS_Subset, {j \in T : j >= i} \in SUBSET T
<1>6. IsFiniteSet({j \in S : j >= i}) /\ Rank(i, S) <= Rank(i, T)
    BY <1>4, <1>5, FS_Subset DEF Rank
<1>7. Rank(i, S) \in Int /\ Rank(i, T) \in Int
    BY <1>5, <1>6, FS_CardinalityType DEF Rank
<1> QED  BY <1>1, <1>6, <1>7 DEF S, T

(***************************************************************************)
(* An entry inserted late is younger than all that a pass, or the          *)
(* watermark, takes for read: it carries a time no older than the delay,   *)
(* and the overlap is at least that.                                       *)
(***************************************************************************)
LEMMA InsertionIsHarmless ==
    ASSUME Delay <= Overlap, LogType, JobType,
           NEW r \in Requests, NEW time \in 0..MaxTime, WriteLog(r, time),
           WatermarkInv, \A w \in Workers : PassInv(w)
    PROVE  WatermarkInv' /\ \A w \in Workers : PassInv(w)'
<1> USE ReconcileAssumption
<1>1. /\ UNCHANGED <<read, degraded, watermark, since, clock, job>>
      /\ clock \in Int /\ watermark \in Int \cup {NoTime}
    BY DEF WriteLog, dataVars, LogType
<1>2. PICK m \in Int :
         /\ DOMAIN log' = DOMAIN log \cup {m}
         /\ \A i \in DOMAIN log : log'[i] = log[i]
         /\ log'[m].time = time
    <2>1. Len(log) + 1 \in Int
        BY LogShape
    <2>2. /\ DOMAIN log' = DOMAIN log \cup {Len(log) + 1}
          /\ \A i \in DOMAIN log : log'[i] = log[i]
          /\ log'[Len(log) + 1] = [call |-> r, time |-> time]
        BY LogGrows
    <2>3. log'[Len(log) + 1].time = time
        BY <2>2
    <2> QED  BY <2>1, <2>2, <2>3
<1>3. time \in Int /\ time >= clock - Delay
    <2>1. time >= clock - Delay
        BY LogGrows
    <2> QED  BY <2>1
<1>4. ASSUME NEW t \in Int, t <= clock
      PROVE  ~(log'[m].time < t - Overlap)
    <2>1. \A a, b, c \in Int, d, o \in Nat :
             d <= o /\ c >= b - d /\ a <= b => ~(c < a - o)
        OBVIOUS
    <2>2. Delay \in Nat /\ Overlap \in Nat
        OBVIOUS
    <2> QED  BY <1>1, <1>2, <1>3, <1>4, <2>1, <2>2
<1>5. \A i \in DOMAIN log : Done(i)' <=> Done(i)
    BY <1>1, <1>2 DEF Done, Unseen
<1>6. ASSUME NEW t \in Int, t <= clock, BehindIsDone(t)
      PROVE  BehindIsDone(t)'
    BY <1>1, <1>2, <1>4, <1>5, <1>6 DEF BehindIsDone
<1>7. WatermarkInv'
    BY <1>1, <1>6 DEF WatermarkInv
<1>8. ASSUME NEW w \in Workers, job[w].stage \in Running
      PROVE  PassInv(w)'
    <2> DEFINE j == job[w]
    <2>1. /\ Base(job[w])
          /\ j.stage # "done" => ListsBehindAreRead(job[w])
          /\ j.stage = "page" => PagesBehindAreRead(job[w])
          /\ j.stage \in Reading => PageIsPending(job[w])
          /\ j.stage = "done" => SliceIsDone(job[w])
        BY <1>8 DEF PassInv
    <2>2. /\ job[w] \in Jobs /\ j.queue \in Seq(Slices) /\ j.queue # <<>>
          /\ j.mark \in Int /\ j.page \in Nat \ {0}
        BY <1>8 DEF JobType, Jobs, WellStaged
    <2>3. Horizon(j) \in Int /\ Horizon(j) <= clock /\ j.mark <= clock
        <3>1. Len(j.queue) \in 1..Len(j.queue)
            BY <2>2, EmptySeq, LenProperties, SMTT(20)
        <3>2. j.queue[Len(j.queue)] \in Slices
            BY <2>2, <3>1, LenProperties
        <3> QED  BY <2>1, <3>2 DEF Base, QueueInOrder, Horizon, Slices
    <2>4. ~Fixed(m, job[w])' /\ \A i \in DOMAIN log : Fixed(i, job[w])' => Fixed(i, job[w])
        <3>1. ~(log'[m].time < Horizon(j) - Overlap)
            BY <1>4, <2>3
        <3>2. \A i : Fixed(i, job[w])' <=> log'[i].time < Horizon(j) - Overlap
            BY <1>1 DEF Fixed, Horizon
        <3> QED  BY <1>2, <3>1, <3>2 DEF Fixed
    <2>6. Base(job[w])'
        <3>1. QueueInOrder(job[w])'
            BY <1>1, <2>1 DEF Base, QueueInOrder, InOrder, Horizon
        <3>2. BehindIsDone(job[w].mark)'
            <4>1. BehindIsDone(j.mark)
                BY <2>1 DEF Base
            <4> QED  BY <1>1, <1>6, <2>2, <2>3, <4>1
        <3>3. SlicesBehindAreDone(job[w])'
            BY <1>1, <1>2, <1>5, <2>1, <2>4 DEF Base, SlicesBehindAreDone
        <3> QED  BY <3>1, <3>2, <3>3 DEF Base
    <2>7. ASSUME j.stage # "done"  PROVE  ListsBehindAreRead(job[w])'
        <3>1. ListsBehindAreRead(job[w])
            BY <2>1, <2>7
        <3> PICK slice, users : slice = Head(j.queue) /\ users = Bound \ (j.list \cup j.more)
            OBVIOUS
        <3>2. ASSUME NEW i \in Listed(slice, users)', Fixed(i, job[w])', j.source = "user"
              PROVE  log'[i].call \in read
            <4>1. i # m
                BY <2>4, <3>2
            <4>2. i \in Listed(slice, users) /\ i \in DOMAIN log
                BY <1>2, <3>2, <4>1 DEF Listed
            <4> QED  BY <1>2, <2>4, <3>1, <3>2, <4>2 DEF ListsBehindAreRead
        <3> QED  BY <1>1, <3>1, <3>2 DEF ListsBehindAreRead
    <2>8. ASSUME j.stage = "page"  PROVE  PagesBehindAreRead(job[w])'
        <3> PICK slice, users : slice = Head(j.queue) /\ users = j.list
            OBVIOUS
        <3>1. PagesBehindAreRead(job[w])
            BY <2>1, <2>8
        <3>2. SUFFICES ASSUME NEW i \in Listed(slice, users)', Fixed(i, job[w])',
                              Rank(i, Listed(slice, users)') <= (j.page - 1) * PageSize
                       PROVE  log'[i].call \in read
            BY <1>1 DEF PagesBehindAreRead, Place, Listed
        <3>3. i # m /\ i \in Listed(slice, users) /\ i \in DOMAIN log
            BY <1>2, <2>4, <3>2 DEF Listed
        <3>4. Place(i, j) <= (j.page - 1) * PageSize
            <4>1. /\ Rank(i, Listed(slice, users)) \in Int
                  /\ Rank(i, Listed(slice, users)') \in Int
                  /\ Rank(i, Listed(slice, users)) <= Rank(i, Listed(slice, users)')
                BY <1>2, <3>3, PlacesOnlyGrow
            <4>2. (j.page - 1) * PageSize \in Int
                <5>1. \A a \in Nat \ {0}, b \in Nat : (a - 1) * b \in Int
                    OBVIOUS
                <5> QED  BY <2>2, <5>1
            <4>3. \A a, b, c \in Int : a <= b /\ b <= c => a <= c
                OBVIOUS
            <4> QED  BY <3>2, <4>1, <4>2, <4>3 DEF Place
        <3> QED  BY <1>2, <2>4, <3>1, <3>2, <3>3, <3>4 DEF PagesBehindAreRead
    <2>9. ASSUME j.stage \in Reading  PROVE  PageIsPending(job[w])'
        <3> PICK slice, users : slice = Head(j.queue) /\ users = j.list
            OBVIOUS
        <3>1. PageIsPending(job[w])
            BY <2>1, <2>9
        <3>2. SUFFICES ASSUME NEW i \in Listed(slice, users)', Fixed(i, job[w])',
                              j.full => Rank(i, Listed(slice, users)') <= j.page * PageSize
                       PROVE  log'[i].call \in read \/ Pending(log'[i].call, j)
            BY <1>1 DEF PageIsPending, Place, Listed, Pending
        <3>3. i # m /\ i \in Listed(slice, users) /\ i \in DOMAIN log
            BY <1>2, <2>4, <3>2 DEF Listed
        <3>4. j.full => Place(i, j) <= j.page * PageSize
            <4>1. /\ Rank(i, Listed(slice, users)) \in Int
                  /\ Rank(i, Listed(slice, users)') \in Int
                  /\ Rank(i, Listed(slice, users)) <= Rank(i, Listed(slice, users)')
                BY <1>2, <3>3, PlacesOnlyGrow
            <4>2. j.page * PageSize \in Int
                <5>1. \A a \in Nat \ {0}, b \in Nat : a * b \in Int
                    OBVIOUS
                <5> QED  BY <2>2, <5>1
            <4>3. \A a, b, c \in Int : a <= b /\ b <= c => a <= c
                OBVIOUS
            <4> QED  BY <3>2, <4>1, <4>2, <4>3 DEF Place
        <3> QED  BY <1>2, <2>4, <3>1, <3>2, <3>3, <3>4 DEF PageIsPending
    <2>10. ASSUME j.stage = "done"  PROVE  SliceIsDone(job[w])'
        <3>1. SliceIsDone(job[w])
            BY <2>1, <2>10
        <3> PICK slice : slice = Head(j.queue)
            OBVIOUS
        <3>2. SUFFICES ASSUME NEW i \in Listed(slice, Users)', Fixed(i, job[w])'
                       PROVE  Done(i)'
            BY <1>1 DEF SliceIsDone, Listed
        <3>3. i # m /\ i \in Listed(slice, Users) /\ i \in DOMAIN log
            BY <1>2, <2>4, <3>2 DEF Listed
        <3> QED  BY <1>5, <2>4, <3>1, <3>2, <3>3 DEF SliceIsDone
    <2> QED  BY <1>1, <2>6, <2>7, <2>8, <2>9, <2>10 DEF PassInv
<1>9. ASSUME NEW w \in Workers, job[w].stage \notin Running
      PROVE  PassInv(w)'
    BY <1>1, <1>9 DEF PassInv
<1> QED  BY <1>7, <1>8, <1>9

LEMMA ReadAtFirst == Init => ReadInv
<1> SUFFICES ASSUME Init  PROVE  ReadInv
    OBVIOUS
<1>1. \A w \in Workers : job[w].stage = "idle"
    BY DEF Init, NoJob
<1>2. watermark = NoTime
    BY DEF Init
<1> QED  BY <1>1, <1>2 DEF ReadInv, WatermarkInv, PassInv, Running

\* Where nothing is inserted and the watermark stays, one pass's figures are
\* all that has to be looked at.
LEMMA OnePassMoves ==
    ASSUME LogType, LogType', JobType, Grows, UNCHANGED watermark, ReadInv,
           NEW w \in Workers, OthersKept(w), PassInv(w)'
    PROVE  ReadInv'
<1>1. WatermarkInv'
    <2> SUFFICES ASSUME watermark # NoTime
                 PROVE  watermark <= clock' /\ BehindIsDone(watermark)'
        BY DEF WatermarkInv
    <2>1. watermark <= clock /\ BehindIsDone(watermark)
        BY DEF ReadInv, WatermarkInv
    <2>2. /\ watermark \in Int /\ clock \in Int /\ clock' \in Int
          /\ since \in Int /\ since' \in Int /\ clock <= clock' /\ since <= since'
        <3> USE ReconcileAssumption
        <3> QED  BY DEF LogType, Grows
    <2>3. \A a, b, c \in Int : a <= b /\ b <= c => a <= c
        OBVIOUS
    <2>4. ASSUME NEW i \in DOMAIN log, since' <= log[i].time,
                 log[i].time < watermark - Overlap
          PROVE  Done(i)'
        <3>1. log[i].time \in Int
            BY LogShape
        <3>2. since <= log[i].time
            BY <2>2, <2>3, <2>4, <3>1
        <3>3. Done(i)
            BY <2>1, <2>4, <3>2 DEF BehindIsDone
        <3> QED  BY <3>3, DoneStays
    <2>5. BehindIsDone(watermark)'
        BY <2>4 DEF BehindIsDone, Grows
    <2> QED  BY <2>1, <2>2, <2>3, <2>5
<1>2. ASSUME NEW v \in Workers \ {w}
      PROVE  PassInv(v)'
    <2>1. job'[v] = job[v] /\ PassInv(v)
        BY DEF OthersKept, ReadInv
    <2> QED  BY <2>1, PassStays
<1> QED  BY <1>1, <1>2 DEF ReadInv

(***************************************************************************)
(* Every step keeps what the passes and the watermark stand for.           *)
(***************************************************************************)
LEMMA ReadKept ==
    ASSUME Delay <= Overlap
    PROVE  TypeInv /\ TypeInv' /\ ReadInv /\ [Next]_vars => ReadInv'
<1> SUFFICES ASSUME TypeInv, TypeInv', ReadInv, [Next]_vars  PROVE  ReadInv'
    OBVIOUS
<1> USE ReconcileAssumption
<1>1. LogType /\ LogType' /\ JobType /\ TableType
    BY DEF TypeInv
<1>2. WatermarkInv /\ \A w \in Workers : PassInv(w)
    BY DEF ReadInv
<1>3. since \in Int /\ clock \in Int
    BY <1>1 DEF LogType
<1>4. ASSUME UNCHANGED <<log, read, degraded, since, watermark, job>>, clock <= clock'
      PROVE  ReadInv'
    <2>1. Grows
        BY <1>3, <1>4 DEF Grows
    <2>2. CASE Workers = {}
        <3>1. WatermarkInv'
            BY <1>1, <1>2, <1>3, <1>4
               DEF WatermarkInv, BehindIsDone, Done, Unseen, LogType
        <3> QED  BY <2>2, <3>1 DEF ReadInv
    <2>3. ASSUME NEW w \in Workers  PROVE  ReadInv'
        <3>1. PassInv(w)'
            BY <1>1, <1>2, <1>4, <2>1, PassStays
        <3>2. OthersKept(w)
            BY <1>4 DEF OthersKept
        <3> QED  BY <1>1, <1>4, <2>1, <3>1, <3>2, OnePassMoves
    <2> QED  BY <2>2, <2>3
<1>5. CASE Advance
    <2>1. clock <= clock'
        BY <1>3, <1>5 DEF Advance
    <2> QED  BY <1>4, <1>5, <2>1 DEF Advance, dataVars
<1>6. CASE HolderStale \/ Stall \/ UNCHANGED vars
    BY <1>3, <1>4, <1>6 DEF HolderStale, Stall, dataVars, vars
<1>7. ASSUME NEW r \in Requests, HandlerWrites(r)  PROVE  ReadInv'
    BY <1>3, <1>4, <1>7 DEF HandlerWrites
<1>8. ASSUME NEW r \in Requests, NEW time \in 0..MaxTime, WriteLog(r, time)
      PROVE  ReadInv'
    <2>1. WatermarkInv' /\ \A w \in Workers : PassInv(w)'
        BY <1>1, <1>2, <1>8, InsertionIsHarmless
    <2> QED  BY <2>1 DEF ReadInv
<1>9. ASSUME NEW w \in Workers, StartPass(w)  PROVE  ReadInv'
    <2>1. OthersKept(w)
        BY <1>1, <1>9, PassBegun
    <2>2. Grows /\ PassInv(w)'
        BY <1>1, <1>2, <1>9, PassReady
    <2>3. UNCHANGED watermark
        BY <1>9 DEF StartPass, BeginFrom
    <2> QED  BY <1>1, <2>1, <2>2, <2>3, OnePassMoves
<1>10. ASSUME NEW w \in Workers, FetchPage(w)  PROVE  ReadInv'
    <2>1. OthersKept(w)
        BY <1>1, <1>10, PageFetched
    <2>2. PassInv(w)'
        BY <1>1, <1>2, <1>10, FetchReady
    <2>3. Grows /\ UNCHANGED watermark
        BY <1>3, <1>10 DEF FetchPage, dataVars, Grows
    <2> QED  BY <1>1, <2>1, <2>2, <2>3, OnePassMoves
<1>11. ASSUME NEW w \in Workers, ReadEntry(w)  PROVE  ReadInv'
    <2>1. Grows /\ UNCHANGED watermark
        BY <1>3, <1>11 DEF ReadEntry, dataVars, Grows
    <2>2. OthersKept(w)
        BY <1>1, <1>11, EntryRead
    <2>3. PassInv(w)'
        <3>1. CASE job'[w] = NoJob
            BY <3>1 DEF PassInv, NoJob, Running
        <3>2. CASE /\ SamePage(w) /\ job'[w].stage = "act"
                   /\ job'[w].logs = job[w].logs
            <4>1. job[w].stage \in Reading /\ job'[w].stage \in Reading
                BY <1>11, <3>2 DEF ReadEntry, Reading
            <4> QED  BY <1>1, <1>2, <2>1, <3>2, <4>1, PageKept
        <3> QED  BY <1>1, <1>11, <3>1, <3>2, EntryRead
    <2> QED  BY <1>1, <2>1, <2>2, <2>3, OnePassMoves
<1>12. ASSUME NEW w \in Workers, WriteEntry(w)  PROVE  ReadInv'
    <2>1. /\ OthersKept(w)
          /\ \/ /\ EntryAfter(w) /\ read' = read \cup {Head(job[w].logs)}
             \/ /\ SamePage(w) /\ UNCHANGED read
                /\ job'[w].stage = "waived" /\ job'[w].logs = job[w].logs
        BY <1>1, <1>12, EntryWritten
    <2>2. Grows /\ UNCHANGED watermark
        BY <1>3, <1>12, <2>1 DEF WriteEntry, Grows
    <2>3. job[w].stage \in Reading
        BY <1>12 DEF WriteEntry, Reading
    <2>4. PassInv(w)'
        <3>1. CASE EntryAfter(w) /\ read' = read \cup {Head(job[w].logs)}
            BY <1>1, <1>2, <2>2, <2>3, <3>1, EntryDone
        <3>2. CASE /\ SamePage(w) /\ job'[w].stage = "waived"
                   /\ job'[w].logs = job[w].logs
            <4>1. job'[w].stage \in Reading
                BY <3>2 DEF Reading
            <4> QED  BY <1>1, <1>2, <2>2, <2>3, <3>2, <4>1, PageKept
        <3> QED  BY <2>1, <3>1, <3>2
    <2> QED  BY <1>1, <2>1, <2>2, <2>4, OnePassMoves
<1>13. ASSUME NEW w \in Workers, WriteWaiver(w)  PROVE  ReadInv'
    <2>1. OthersKept(w) /\ EntryAfter(w) /\ read' = read \cup {Head(job[w].logs)}
        BY <1>1, <1>13, WaiverWritten
    <2>2. Grows /\ UNCHANGED watermark
        BY <1>3, <1>13, <2>1 DEF WriteWaiver, Grows
    <2>3. job[w].stage \in Reading
        BY <1>13 DEF WriteWaiver, Reading
    <2>4. PassInv(w)'
        BY <1>1, <1>2, <2>1, <2>2, <2>3, EntryDone
    <2> QED  BY <1>1, <2>1, <2>2, <2>4, OnePassMoves
<1>14. ASSUME NEW w \in Workers, MoveWatermark(w)  PROVE  ReadInv'
    <2>1. OthersKept(w)
        BY <1>1, <1>14, WatermarkMoved
    <2>2. Grows /\ WatermarkInv' /\ PassInv(w)'
        BY <1>1, <1>2, <1>14, WatermarkReady
    <2>3. ASSUME NEW v \in Workers \ {w}  PROVE  PassInv(v)'
        BY <1>1, <1>2, <2>1, <2>2, PassStays DEF OthersKept
    <2> QED  BY <2>2, <2>3 DEF ReadInv
<1>15. ASSUME NEW w \in Workers, Crash(w)  PROVE  ReadInv'
    <2>1. job' = [job EXCEPT ![w] = [NoJob EXCEPT !.stage = "dead"]]
        BY <1>15 DEF Crash
    <2>2. job'[w].stage = "dead" /\ OthersKept(w)
        BY <1>1, <2>1 DEF JobType, OthersKept, NoJob
    <2>3. Grows /\ UNCHANGED watermark
        BY <1>3, <1>15 DEF Crash, dataVars, Grows
    <2>4. PassInv(w)'
        BY <2>2 DEF PassInv, Running
    <2> QED  BY <1>1, <2>2, <2>3, <2>4, OnePassMoves
<1>16. ASSUME NEW w \in Workers, TickFails(w)  PROVE  ReadInv'
    BY <1>3, <1>4, <1>16 DEF TickFails, dataVars
<1>17. ASSUME NEW w \in Workers, PassFails(w)  PROVE  ReadInv'
    <2>1. /\ OthersKept(w)
          /\ \/ job'[w] = NoJob /\ UNCHANGED degraded
             \/ job[w].source = "admin" /\ FallenBack(w)
        BY <1>1, <1>17, PassFailed
    <2>2. Grows /\ UNCHANGED watermark
        <3>1. degraded => degraded'
            BY <2>1 DEF FallenBack
        <3> QED  BY <1>3, <1>17, <3>1 DEF PassFails, Grows
    <2>3. PassInv(w)'
        <3>1. CASE job'[w] = NoJob
            BY <3>1 DEF PassInv, NoJob, Running
        <3>2. CASE FallenBack(w)
            <4>1. job[w].stage \in Running
                BY <1>17 DEF PassFails, Running
            <4>2. job[w].queue # <<>> /\ Base(job[w])
                BY <1>1, <1>2, <4>1 DEF JobType, WellStaged, PassInv
            <4> QED  BY <1>1, <2>2, <3>2, <4>2, FallbackReady
        <3> QED  BY <2>1, <3>1, <3>2
    <2> QED  BY <1>1, <2>1, <2>2, <2>3, OnePassMoves
<1> QED
    BY <1>5, <1>6, <1>7, <1>8, <1>9, <1>10, <1>11, <1>12, <1>13, <1>14, <1>15,
       <1>16, <1>17 DEF Next, Work

(***************************************************************************)
(* The watermark leaves no call behind, for any number of processes that   *)
(* replace each other in the middle of a pass, provided that New API       *)
(* inserts an entry no later than the overlap after its call.              *)
(***************************************************************************)
THEOREM NothingIsLeftBehind ==
    ASSUME Delay <= Overlap
    PROVE  Spec => []NothingLeftBehind
<1>1. TypeInv /\ ReadInv => NothingLeftBehind
    <2> SUFFICES ASSUME TypeInv, ReadInv, NEW r \in Logged, watermark # NoTime,
                        CallTime(r) >= since, CallTime(r) < watermark - Overlap
                 PROVE  r \in read \/ Unseen(r)
        BY DEF NothingLeftBehind
    <2>1. PICK i \in DOMAIN log : log[i].call = r /\ log[i].time = CallTime(r)
        BY DEF Logged, CallTime
    <2>2. log[i].time \in Int /\ since \in Int
        BY LogShape, ReconcileAssumption, SMTT(20) DEF TypeInv, LogType
    <2>3. since <= log[i].time
        BY <2>1, <2>2
    <2> QED  BY <2>1, <2>3 DEF ReadInv, WatermarkInv, BehindIsDone, Done
<1>2. TypeInv /\ ReadInv /\ [Next]_vars => TypeInv' /\ ReadInv'
    BY TypesKept, ReadKept
<1>3. Init => TypeInv /\ ReadInv
    BY TypesAtFirst, ReadAtFirst
<1> QED  BY <1>1, <1>2, <1>3, PTL DEF Spec

-----------------------------------------------------------------------------
(* The rows.                                                               *)

LEMMA RowsAtFirst == Init => RowInv
<1> SUFFICES ASSUME Init  PROVE  RowInv
    OBVIOUS
<1>1. \A w \in Workers : RowKnown(w)
    BY DEF Init, NoJob, RowKnown
<1>2. \A r \in Requests : Fits(ledger[r])
    BY DEF Init, Fits
<1>3. ReadLeavesTrace
    BY DEF Init, ReadLeavesTrace
<1> QED  BY <1>1, <1>2, <1>3 DEF RowInv

\* A closed row stays as it is, an open one does not vanish, and what New API
\* said of a call is not forgotten.
RowsMove ==
    \A r \in Requests :
        /\ ledger[r].status # "open" => ledger'[r].status = ledger[r].status
        /\ ledger[r].status = "open" => ledger'[r].status # "none"
        /\ ledger[r].telemetry => ledger'[r].telemetry

RowsFit == \A r \in Requests : Fits(ledger'[r])

LEMMA RowsSame ==
    ASSUME RowInv, UNCHANGED ledger
    PROVE  RowsMove /\ RowsFit
BY DEF RowInv, RowsMove, RowsFit

LEMMA RowWritten ==
    ASSUME TableType, RowInv, NEW r \in Requests, NEW row \in Rows,
           ledger' = [ledger EXCEPT ![r] = row], Fits(row),
           \/ row.status = ledger[r].status
           \/ ledger[r].status = "open" /\ row.status # "none",
           ledger[r].telemetry => row.telemetry
    PROVE  RowsMove /\ RowsFit /\ ledger'[r] = row
<1>1. ledger'[r] = row /\ \A q \in Requests : q # r => ledger'[q] = ledger[q]
    BY DEF TableType
<1>2. RowsFit
    BY <1>1 DEF RowsFit, RowInv
<1>3. RowsMove
    BY <1>1 DEF RowsMove
<1> QED  BY <1>1, <1>2, <1>3

\* The handler's writes: of an open row, whose verdict is pending.
LEMMA HandlerWritesARow ==
    ASSUME TableType, LogType, RowInv, NEW r \in Requests, HandlerWrites(r)
    PROVE  RowsMove /\ RowsFit
<1>1. ledger[r] \in Rows /\ ledger[r].status = "open" /\ ledger[r].verdict = "pending"
    BY DEF TableType, HandlerWrites, RowInv, Fits
<1>2. CASE ledger' = [ledger EXCEPT ![r].captured = clock]
    <2> DEFINE row == [ledger[r] EXCEPT !.captured = clock]
    <2>1. /\ row \in Rows /\ row.status = "open" /\ row.verdict = "pending"
          /\ row.telemetry = ledger[r].telemetry
        <3>1. clock \in Int
            BY ReconcileAssumption DEF LogType
        <3>2. \A t \in Int : [ledger[r] EXCEPT !.captured = t] \in Rows
            BY <1>1 DEF Rows
        <3>3. /\ row.status = ledger[r].status /\ row.verdict = ledger[r].verdict
              /\ row.telemetry = ledger[r].telemetry
            BY <1>1 DEF Rows
        <3> QED  BY <1>1, <3>1, <3>2, <3>3
    <2>2. ledger' = [ledger EXCEPT ![r] = row]
        BY <1>2
    <2> HIDE DEF row
    <2> QED  BY <1>1, <2>1, <2>2, RowWritten DEF Fits
<1>3. ASSUME NEW s \in {"settled", "failed_unbilled"},
             ledger' = [ledger EXCEPT ![r].status = s]
      PROVE  RowsMove /\ RowsFit
    <2> DEFINE row == [ledger[r] EXCEPT !.status = s]
    <2>1. /\ row \in Rows /\ row.status = s /\ row.verdict = "pending"
          /\ row.telemetry = ledger[r].telemetry
        BY <1>1 DEF Rows, RowStatuses
    <2>2. ledger' = [ledger EXCEPT ![r] = row]
        BY <1>3
    <2> HIDE DEF row
    <2> QED  BY <1>1, <2>1, <2>2, RowWritten DEF Fits
<1> QED  BY <1>2, <1>3 DEF HandlerWrites

\* A verdict written to a row it fits.
LEMMA VerdictWritten ==
    ASSUME TableType, RowInv, NEW r \in Requests, NEW v \in Verdicts,
           v = "compared" => ledger[r].status = "settled",
           v # "compared" => ledger[r].status = "failed_unbilled",
           ledger' = [ledger EXCEPT ![r].telemetry = TRUE, ![r].verdict = v]
    PROVE  RowsMove /\ RowsFit /\ ledger'[r].telemetry
<1> DEFINE row == [ledger[r] EXCEPT !.telemetry = TRUE, !.verdict = v]
<1>1. ledger[r] \in Rows
    BY DEF TableType
<1>2. /\ row \in Rows /\ row.status = ledger[r].status /\ row.verdict = v
      /\ row.telemetry
    BY <1>1 DEF Rows
<1>3. ledger' = [ledger EXCEPT ![r] = row]
    OBVIOUS
<1> HIDE DEF row
<1>4. Fits(row)
    BY <1>2 DEF Fits
<1> QED  BY <1>2, <1>3, <1>4, RowWritten

\* What a pass holds of its row, while the rows move.
LEMMA RowKnownStays ==
    ASSUME JobType, RowsMove, NEW w \in Workers, RowKnown(w), job'[w] = job[w]
    PROVE  RowKnown(w)'
<1> SUFFICES ASSUME job[w].stage \in {"act", "waived"}  PROVE  RowKnown(w)'
    BY DEF RowKnown
<1>1. Head(job[w].logs) \in Requests
    <2>1. job[w].logs \in Seq(Requests) /\ job[w].logs # <<>>
        BY DEF JobType, Jobs, WellStaged, Reading
    <2> QED  BY <2>1, HeadTailProperties
<1> QED  BY <1>1 DEF RowKnown, RowsMove

\* Traces stay, too.
TracesStay ==
    orphans \subseteq orphans' /\ kind' = kind

LEMMA RowsReady ==
    ASSUME JobType, TableType, RowInv, RowsMove, RowsFit, TracesStay,
           NEW w \in Workers, OthersKept(w), RowKnown(w)',
           \A r \in read' \ read :
              \/ ledger'[r].telemetry \/ r \in orphans' \/ kind[r] = "external"
              \/ ledger'[r].status = "failed_unbilled"
    PROVE  RowInv'
<1>1. \A v \in Workers : RowKnown(v)'
    BY RowKnownStays DEF RowInv, OthersKept
<1>2. ReadLeavesTrace'
    <2> SUFFICES ASSUME NEW r \in read', r \in read
                 PROVE  \/ ledger'[r].telemetry \/ r \in orphans'
                        \/ kind'[r] = "external"
                        \/ ledger'[r].status = "failed_unbilled"
        BY DEF ReadLeavesTrace, TracesStay
    <2>1. r \in Requests
        BY DEF TableType
    <2> QED  BY <2>1 DEF RowInv, ReadLeavesTrace, TracesStay, RowsMove
<1> QED  BY <1>1, <1>2 DEF RowInv, RowsFit

\* A process in another stage holds nothing.
LEMMA NothingHeld ==
    ASSUME NEW w \in Workers, job'[w].stage \notin {"act", "waived"}
    PROVE  RowKnown(w)'
BY DEF RowKnown

\* An entry's first write.
LEMMA WriteEntryFits ==
    ASSUME JobType, TableType, RowInv, NEW w \in Workers, WriteEntry(w)
    PROVE  RowInv'
<1> DEFINE r == Head(job[w].logs)
<1>1. r \in Requests
    <2>1. job[w].logs \in Seq(Requests) /\ job[w].logs # <<>>
        BY DEF JobType, Jobs, WellStaged, WriteEntry, Reading
    <2> QED  BY <2>1, HeadTailProperties
<1>2. /\ job[w].status \in {"settled", "failed_unbilled"} =>
            ledger[r].status = job[w].status
      /\ job[w].status = "open" => ledger[r].status # "none"
    BY DEF RowInv, RowKnown, WriteEntry
<1>3. OthersKept(w)
    BY EntryWritten
<1>4. ledger[r] \in Rows /\ ledger \in [Requests -> Rows]
    BY <1>1 DEF TableType
<1> HIDE DEF r
<1>5. ASSUME EntryAfter(w), read' = read \cup {r}, RowsMove, RowsFit, TracesStay,
             \/ ledger'[r].telemetry \/ r \in orphans' \/ kind[r] = "external"
             \/ ledger'[r].status = "failed_unbilled"
      PROVE  RowInv'
    <2>1. job'[w].stage \notin {"act", "waived"}
        BY <1>5 DEF EntryAfter, PageAfter
    <2>2. RowKnown(w)'
        BY <2>1, NothingHeld
    <2> QED  BY <1>3, <1>5, <2>2, RowsReady
<1>6. ASSUME Processed(w)
      PROVE  EntryAfter(w) /\ read' = read \cup {r}
    <2>1. job[w].stage \in Reading
        BY DEF WriteEntry, Reading
    <2> QED  BY <1>6, <2>1, EntryLeft DEF r
<1>7. kind' = kind
    BY DEF WriteEntry
<1>8. CASE Observe(r) /\ Processed(w) /\ UNCHANGED ledger
    <2>1. RowsMove /\ RowsFit
        BY <1>8, RowsSame
    <2>2. TracesStay /\ (r \in orphans' \/ kind[r] = "external")
        BY <1>7, <1>8 DEF Observe, TracesStay
    <2> QED  BY <1>5, <1>6, <1>8, <2>1, <2>2
<1>9. CASE Compare(r) /\ Processed(w) /\ UNCHANGED orphans /\ ledger[r].status = "settled"
    <2>1. RowsMove /\ RowsFit /\ ledger'[r].telemetry
        BY <1>1, <1>9, VerdictWritten DEF Compare, Verdicts
    <2> QED  BY <1>5, <1>6, <1>7, <1>9, <2>1 DEF TracesStay
<1>10. CASE /\ ledger' = [ledger EXCEPT ![r].telemetry = TRUE]
            /\ Processed(w) /\ UNCHANGED orphans
    <2> DEFINE row == [ledger[r] EXCEPT !.telemetry = TRUE]
    <2>1. /\ row \in Rows /\ row.status = ledger[r].status
          /\ row.verdict = ledger[r].verdict /\ row.telemetry
        BY <1>4 DEF Rows
    <2>2. ledger' = [ledger EXCEPT ![r] = row]
        BY <1>10
    <2> HIDE DEF row
    <2>3. Fits(row)
        BY <1>1, <2>1 DEF Fits, RowInv
    <2>4. RowsMove /\ RowsFit /\ ledger'[r].telemetry
        BY <1>1, <2>1, <2>2, <2>3, RowWritten
    <2> QED  BY <1>5, <1>6, <1>7, <1>10, <2>4 DEF TracesStay
<1>11. CASE /\ ledger[r].status = "open"
            /\ ledger' = [ledger EXCEPT ![r].status = "failed_unbilled"]
            /\ Goto(w, "waived") /\ UNCHANGED <<orphans, read>>
    <2> DEFINE row == [ledger[r] EXCEPT !.status = "failed_unbilled"]
    <2>1. ledger[r].verdict = "pending"
        BY <1>1, <1>11 DEF RowInv, Fits
    <2>2. /\ row \in Rows /\ row.status = "failed_unbilled"
          /\ row.verdict = "pending" /\ row.telemetry = ledger[r].telemetry
        BY <1>4, <2>1 DEF Rows, RowStatuses
    <2>3. ledger' = [ledger EXCEPT ![r] = row]
        BY <1>11
    <2> HIDE DEF row
    <2>4. Fits(row)
        BY <2>2 DEF Fits
    <2>5. RowsMove /\ RowsFit /\ ledger'[r] = row
        BY <1>1, <1>11, <2>2, <2>3, <2>4, RowWritten
    <2>6. job'[w].stage = "waived" /\ job'[w].logs = job[w].logs
        <3>1. job[w].stage = "act" /\ job \in [Workers -> Jobs]
            BY DEF WriteEntry, JobType
        <3>2. job[w].logs # <<>> /\ job[w].stage \in Running
            BY <3>1 DEF JobType, WellStaged, Running, Reading
        <3> QED  BY <1>11, <3>2, StageSet
    <2>7. RowKnown(w)'
        BY <2>2, <2>5, <2>6 DEF RowKnown, r
    <2> QED  BY <1>3, <1>7, <1>11, <2>5, <2>7, RowsReady DEF TracesStay
<1>12. CASE /\ job[w].status = "open" /\ ledger[r].status # "open"
            /\ LostTheRow(r) /\ Processed(w) /\ UNCHANGED orphans
    <2>1. CASE ledger[r].status = "settled"
        BY <1>9, <1>12, <2>1 DEF LostTheRow
    <2>2. CASE ledger[r].status # "settled"
        <3>1. UNCHANGED ledger /\ ledger[r].status = "failed_unbilled"
            BY <1>2, <1>4, <1>12, <2>2 DEF LostTheRow, Rows, RowStatuses
        <3>2. RowsMove /\ RowsFit
            BY <3>1, RowsSame
        <3> QED  BY <1>5, <1>6, <1>7, <1>12, <3>1, <3>2 DEF TracesStay
    <2> QED  BY <2>1, <2>2
<1>13. CASE /\ job[w].status = "failed_unbilled"
            /\ ledger' = [ledger EXCEPT ![r].telemetry = TRUE,
                                        ![r].verdict = "waived_by_failure"]
            /\ Processed(w) /\ UNCHANGED orphans
    <2>1. RowsMove /\ RowsFit /\ ledger'[r].telemetry
        BY <1>1, <1>2, <1>13, VerdictWritten DEF Verdicts
    <2> QED  BY <1>5, <1>6, <1>7, <1>13, <2>1 DEF TracesStay
<1> QED
    BY <1>2, <1>8, <1>9, <1>10, <1>11, <1>12, <1>13 DEF WriteEntry, r

\* The verdict of a row that was waived.
LEMMA WriteWaiverFits ==
    ASSUME JobType, TableType, RowInv, NEW w \in Workers, WriteWaiver(w)
    PROVE  RowInv'
<1> DEFINE r == Head(job[w].logs)
<1>1. job[w].stage \in Reading
    BY DEF WriteWaiver, Reading
<1>2. /\ OthersKept(w) /\ EntryAfter(w) /\ r \in Requests
      /\ read' = read \cup {r}
    BY <1>1, EntryLeft DEF WriteWaiver
<1>3. ledger[r].status = "failed_unbilled"
    BY DEF RowInv, RowKnown, WriteWaiver
<1>4. ledger' = [ledger EXCEPT ![r].telemetry = TRUE,
                               ![r].verdict = "waived_by_missing_usage"]
    BY DEF WriteWaiver
<1> HIDE DEF r
<1>5. RowsMove /\ RowsFit /\ ledger'[r].telemetry
    BY <1>2, <1>3, <1>4, VerdictWritten DEF Verdicts
<1>6. RowKnown(w)'
    BY <1>2, NothingHeld DEF EntryAfter, PageAfter
<1>7. TracesStay
    BY DEF WriteWaiver, TracesStay
<1> QED  BY <1>2, <1>5, <1>6, <1>7, RowsReady

LEMMA RowsKept == TypeInv /\ TypeInv' /\ RowInv /\ [Next]_vars => RowInv'
<1> SUFFICES ASSUME TypeInv, TypeInv', RowInv, [Next]_vars  PROVE  RowInv'
    OBVIOUS
<1>1. LogType /\ JobType /\ TableType
    BY DEF TypeInv
<1>2. ASSUME UNCHANGED <<ledger, orphans, kind, read>>, NEW w \in Workers,
             OthersKept(w), RowKnown(w)'
      PROVE  RowInv'
    <2>1. RowsMove /\ RowsFit
        BY <1>2, RowsSame
    <2>2. TracesStay /\ read' \ read = {}
        BY <1>2 DEF TracesStay
    <2> QED  BY <1>1, <1>2, <2>1, <2>2, RowsReady
<1>3. ASSUME UNCHANGED <<ledger, orphans, kind, read, job>>  PROVE  RowInv'
    BY <1>3 DEF RowInv, RowKnown, ReadLeavesTrace
<1>4. CASE Advance \/ HolderStale \/ Stall \/ UNCHANGED vars
    BY <1>3, <1>4 DEF Advance, HolderStale, Stall, dataVars, vars
<1>5. ASSUME NEW r \in Requests, NEW time \in 0..MaxTime, WriteLog(r, time)
      PROVE  RowInv'
    BY <1>3, <1>5 DEF WriteLog, dataVars
<1>6. ASSUME NEW r \in Requests, HandlerWrites(r)  PROVE  RowInv'
    <2>1. RowsMove /\ RowsFit
        BY <1>1, <1>6, HandlerWritesARow
    <2>2. UNCHANGED <<job, orphans, kind, read>>
        BY <1>6 DEF HandlerWrites
    <2>3. \A w \in Workers : RowKnown(w)'
        BY <1>1, <2>1, <2>2, RowKnownStays DEF RowInv
    <2>4. ReadLeavesTrace'
        BY <1>1, <2>1, <2>2 DEF RowInv, ReadLeavesTrace, RowsMove, TableType
    <2> QED  BY <2>1, <2>3, <2>4 DEF RowInv, RowsFit
<1>7. ASSUME NEW w \in Workers, StartPass(w)  PROVE  RowInv'
    <2>1. UNCHANGED <<ledger, orphans, kind, read>>
        BY <1>7 DEF StartPass, BeginFrom
    <2>2. CASE UNCHANGED job
        BY <1>3, <2>1, <2>2
    <2>3. CASE SliceBegun(w, SlicesBetween(Mark - Overlap, clock), Mark)
        <3>1. OthersKept(w)
            BY <1>1, <1>7, PassBegun
        <3>2. RowKnown(w)'
            BY <2>3, NothingHeld DEF SliceBegun
        <3> QED  BY <1>2, <2>1, <3>1, <3>2
    <2> QED  BY <1>1, <1>7, <2>2, <2>3, PassBegun
<1>8. ASSUME NEW w \in Workers, FetchPage(w)  PROVE  RowInv'
    <2>1. UNCHANGED <<ledger, orphans, kind, read>>
        BY <1>8 DEF FetchPage, dataVars
    <2>2. OthersKept(w) /\ job'[w].stage \in {"idle", "page", "done", "entry"}
        BY <1>1, <1>8, PageFetched DEF NoJob, SliceBegun, PageAfter
    <2>3. RowKnown(w)'
        BY <2>2, NothingHeld
    <2> QED  BY <1>2, <2>1, <2>2, <2>3
<1>9. ASSUME NEW w \in Workers, ReadEntry(w)  PROVE  RowInv'
    <2>1. UNCHANGED <<ledger, orphans, kind, read>>
        BY <1>9 DEF ReadEntry, dataVars
    <2>2. OthersKept(w)
        BY <1>1, <1>9, EntryRead
    <2>3. RowKnown(w)'
        <3>1. CASE job'[w] = NoJob
            BY <3>1, NothingHeld DEF NoJob
        <3>2. CASE /\ job'[w].stage = "act" /\ job'[w].logs = job[w].logs
                   /\ job'[w].status = IF ledger[Head(job[w].logs)].captured = NoTime
                                       THEN "none"
                                       ELSE ledger[Head(job[w].logs)].status
            BY <2>1, <3>2 DEF RowKnown
        <3> QED  BY <1>1, <1>9, <3>1, <3>2, EntryRead
    <2> QED  BY <1>2, <2>1, <2>2, <2>3
<1>10. ASSUME NEW w \in Workers, WriteEntry(w)  PROVE  RowInv'
    BY <1>1, <1>10, WriteEntryFits
<1>11. ASSUME NEW w \in Workers, WriteWaiver(w)  PROVE  RowInv'
    BY <1>1, <1>11, WriteWaiverFits
<1>12. ASSUME NEW w \in Workers, MoveWatermark(w)  PROVE  RowInv'
    <2>1. UNCHANGED <<ledger, orphans, kind, read>>
        BY <1>12 DEF MoveWatermark
    <2>2. OthersKept(w) /\ job'[w].stage \in {"idle", "page"}
        BY <1>1, <1>12, WatermarkMoved DEF NoJob, SliceBegun
    <2>3. RowKnown(w)'
        BY <2>2, NothingHeld
    <2> QED  BY <1>2, <2>1, <2>2, <2>3
<1>13. ASSUME NEW w \in Workers, Crash(w)  PROVE  RowInv'
    <2>1. UNCHANGED <<ledger, orphans, kind, read>>
        BY <1>13 DEF Crash, dataVars
    <2>2. OthersKept(w) /\ job'[w].stage = "dead"
        BY <1>1, <1>13 DEF Crash, JobType, OthersKept, NoJob
    <2>3. RowKnown(w)'
        BY <2>2, NothingHeld
    <2> QED  BY <1>2, <2>1, <2>2, <2>3
<1>14. ASSUME NEW w \in Workers, TickFails(w)  PROVE  RowInv'
    BY <1>3, <1>14 DEF TickFails, dataVars
<1>15. ASSUME NEW w \in Workers, PassFails(w)  PROVE  RowInv'
    <2>1. UNCHANGED <<ledger, orphans, kind, read>>
        BY <1>15 DEF PassFails
    <2>2. OthersKept(w) /\ job'[w].stage \in {"idle", "page", "done"}
        BY <1>1, <1>15, PassFailed DEF NoJob, FallenBack
    <2>3. RowKnown(w)'
        BY <2>2, NothingHeld
    <2> QED  BY <1>2, <2>1, <2>2, <2>3
<1> QED
    BY <1>4, <1>5, <1>6, <1>7, <1>8, <1>9, <1>10, <1>11, <1>12, <1>13, <1>14,
       <1>15 DEF Next, Work

LEMMA TypesAndRows == Spec => [](TypeInv /\ RowInv)
<1>1. TypeInv /\ RowInv /\ [Next]_vars => TypeInv' /\ RowInv'
    BY TypesKept, RowsKept
<1> QED  BY <1>1, TypesAtFirst, RowsAtFirst, PTL DEF Spec

(***************************************************************************)
(* A processed entry of New API's log leaves a trace, whoever of handler,  *)
(* worker and the worker's successor writes the row in between.            *)
(***************************************************************************)
THEOREM ReadEntriesLeaveATrace == Spec => []ReadLeavesTrace
<1>1. TypeInv /\ RowInv => ReadLeavesTrace
    BY DEF RowInv
<1> QED  BY <1>1, TypesAndRows, PTL

(***************************************************************************)
(* No verdict contradicts the row: what was compared is settled, what was  *)
(* waived is not.                                                          *)
(***************************************************************************)
THEOREM VerdictsFitTheirRows == Spec => []VerdictFitsRow
<1>1. TypeInv /\ RowInv => VerdictFitsRow
    BY DEF RowInv, Fits, VerdictFitsRow
<1> QED  BY <1>1, TypesAndRows, PTL

(***************************************************************************)
(* The watermark never moves back, though every pass sets it from the mark *)
(* it read when it began.                                                  *)
(***************************************************************************)
THEOREM WatermarkNeverMovesBack == Spec => WatermarkMonotonic
<1>1. ASSUME TypeInv, [Next]_vars, watermark # NoTime, watermark' # watermark
      PROVE  watermark' # NoTime /\ watermark' >= watermark
    <2> USE ReconcileAssumption
    <2>1. LogType /\ JobType /\ watermark \in Int
        BY <1>1 DEF TypeInv, LogType
    <2>2. PICK w \in Workers : MoveWatermark(w)
        BY <1>1 DEF Next, Work, Advance, HolderStale, Stall, HandlerWrites, WriteLog,
                    StartPass, BeginFrom, FetchPage, ReadEntry, WriteEntry, WriteWaiver,
                    Crash, TickFails, PassFails, dataVars, vars
    <2> DEFINE mark == Later(job[w].mark, Head(job[w].queue).end)
    <2>3. mark \in Int /\ watermark' = Later(watermark, mark)
        BY <2>1, <2>2, WatermarkMoved
    <2> HIDE DEF mark
    <2>4. Later(watermark, mark) \in Int /\ Later(watermark, mark) >= watermark
        BY <1>1, <2>1, <2>3 DEF Later
    <2> QED  BY <2>3, <2>4
<1>2. TypeInv /\ [Next]_vars =>
         [watermark # NoTime => watermark' # NoTime /\ watermark' >= watermark]_watermark
    BY <1>1
<1> QED  BY <1>2, TypesAtFirst, TypesKept, PTL DEF Spec, WatermarkMonotonic
=============================================================================
