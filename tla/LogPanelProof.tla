---------------------------- MODULE LogPanelProof ----------------------------
(***************************************************************************)
(* What a run's stored event log promises while executions follow one      *)
(* another (MaxLive <= 1), for any chunk size, any number of events and    *)
(* executions and any faults: the chunks are an append-only log numbered   *)
(* without gaps, a log that was closed lost nothing, and what a panel of   *)
(* the run page skips lies in an earlier chunk than what it is given next. *)
(*                                                                         *)
(* The argument reads the chunks as one sequence, its N events numbered    *)
(* from 0.  The one writer alive holds the events from N on, in the order  *)
(* they were emitted: first those it has numbered, then its queue.         *)
(***************************************************************************)
EXTENDS LogPanel, FiniteSetTheorems, SequenceTheorems, WellFoundedInduction, TLAPS

Exits == {"unborn", "opened", "running", "leaving", "ended", "dead"}
Places == WriterAlive \cup {"unborn", "ended", "dead"}

LogTypeOK ==
  /\ chunks \in [ChunkIndex -> Seq(Stored)]
  /\ exec \in [Execution -> Exits]
  /\ emitted \in [Execution -> Seq(Kinds)]
  /\ inbox \in [Execution -> Seq(Event \cup {Stop})]
  /\ writer \in [Execution -> Places]
  /\ seq \in [Execution -> Nat]
  /\ pending \in [Execution -> Seq(Stored)]
  /\ loaded \in [Execution -> Seq(Stored)]

\* The most events an execution has: those it emits and its run_done.
Most == MaxEmits + 1

\* The chunks hold N events: they are full up to the one where number N goes, and
\* empty after it.
Packed(N) ==
  \A i \in ChunkIndex :
    Len(chunks[i]) = IF i < ChunkOf(N) THEN ChunkSize
                     ELSE IF i = ChunkOf(N) THEN (N % ChunkSize) ELSE 0

\* The event with number i.
At(i) == chunks[ChunkOf(i)][(i % ChunkSize) + 1]

\* Each event bears its number, and those of its execution before it are as many as its
\* place in the execution says, next to it.
InRuns(N) ==
  \A i \in 0..(N - 1) :
    /\ At(i).seq = i /\ At(i).by \in Execution /\ exec[At(i).by] # "unborn"
    /\ At(i).n \in Nat /\ At(i).n <= i + 1
    /\ \A j \in 0..i : At(j).by = At(i).by <=> j + At(i).n > i

\* Executions open in order, and one that lives is the last.
InTurn ==
  \A j, k \in Execution : j < k =>
    /\ Alive(j) => exec[k] = "unborn"
    /\ exec[j] = "unborn" => exec[k] = "unborn"

\* The executions up to k emit no more than their share.
Fits(N) ==
  \A k \in 0..MaxExecutions :
    (\A j \in Execution : j > k => exec[j] = "unborn") => N <= k * Most

\* What execution k has put in its queue.
Emissions(k) ==
  /\ exec[k] = "unborn" =>
       emitted[k] = <<>> /\ inbox[k] = <<>> /\ pending[k] = <<>> /\ writer[k] = "unborn"
  /\ exec[k] # "unborn" => writer[k] # "unborn"
  /\ exec[k] \in {"opened", "running", "leaving"} => Len(emitted[k]) <= MaxEmits
  /\ Len(emitted[k]) <= Most

Closed(k) == IF exec[k] = "ended" THEN 1 ELSE 0

\* How many events the writer has taken from the queue.
Taken(k) == Len(emitted[k]) + Closed(k) - Len(inbox[k])

\* The queue holds the events not taken yet, and the sentinel after a run_done.
Queue(k) ==
  /\ Taken(k) \in 0..Len(emitted[k])
  /\ \A m \in 1..(Len(emitted[k]) - Taken(k)) :
       inbox[k][m] = [by |-> k, n |-> Taken(k) + m, kind |-> emitted[k][Taken(k) + m]]
  /\ exec[k] = "ended" => inbox[k][Len(inbox[k])] = Stop

\* The writer holds the events it has numbered and not saved, which come next in the log;
\* those before them that it took are the last of the log, and no others are of it.
Held(k, N) ==
  LET held == Len(pending[k])
      before == Taken(k) - held
      base == N - before IN
  /\ before \in Nat /\ base \in Nat /\ base <= (k - 1) * Most
  /\ seq[k] = N + held
  /\ \A m \in 1..held :
       pending[k][m] = [by |-> k, n |-> before + m, kind |-> emitted[k][before + m], seq |-> N + m - 1]
  /\ \A i \in 0..(N - 1) :
       IF i < base THEN At(i).by # k
       ELSE At(i) = [by |-> k, n |-> i - base + 1, kind |-> emitted[k][i - base + 1], seq |-> i]
  /\ writer[k] \in {"loading", "saving"} => pending[k] # <<>>
  /\ writer[k] = "saving" => loaded[k] = chunks[ChunkOf(N)]

\* A writer that has still to count starts from nothing, and nothing stored is of it.
Counting(k, N) ==
  /\ pending[k] = <<>> /\ Taken(k) = 0 /\ N <= (k - 1) * Most
  /\ \A i \in 0..(N - 1) : At(i).by # k

\* A writer that has ended has stored all of its execution.
IsWhole(k, N) ==
  /\ exec[k] = "ended"
  /\ \A n \in DOMAIN emitted[k] : \E i \in 0..(N - 1) :
       At(i).by = k /\ At(i).n = n /\ At(i).kind = emitted[k][n]

Writes(k, N) ==
  /\ Emissions(k)
  /\ writer[k] \in WriterAlive => Queue(k)
  /\ writer[k] = "counting" => Counting(k, N)
  /\ writer[k] \in {"waiting", "loading", "saving"} => Held(k, N)
  /\ writer[k] = "ended" => IsWhole(k, N)

LogHolds(N) ==
  /\ LogTypeOK /\ InTurn
  /\ Packed(N) /\ InRuns(N) /\ Fits(N)
  /\ \A k \in Execution : Writes(k, N)

\* The log's invariant.
LogInvariant == \E N \in Nat : LogHolds(N)

-----------------------------------------------------------------------------
(* Numbers and chunks.                                                     *)

\* A number has its chunk and its place in it, and no other.
LEMMA Divided ==
  ASSUME NEW n \in Nat
  PROVE  /\ ChunkOf(n) \in Nat /\ (n % ChunkSize) \in 0..(ChunkSize - 1)
         /\ n = ChunkOf(n) * ChunkSize + (n % ChunkSize)
<1>1. ChunkSize \in Nat /\ ChunkSize > 0
  BY ChunksHoldEvents
<1>2. n \div ChunkSize \in Nat
  BY <1>1
<1>3. (n % ChunkSize) \in 0..(ChunkSize - 1)
  BY <1>1
<1>4. n = (n \div ChunkSize) * ChunkSize + (n % ChunkSize)
  BY <1>1
<1>. QED  BY <1>2, <1>3, <1>4 DEF ChunkOf

LEMMA DividedOnce ==
  ASSUME NEW q \in Nat, NEW r \in 0..(ChunkSize - 1)
  PROVE  LET n == q * ChunkSize + r IN n \in Nat /\ ChunkOf(n) = q /\ (n % ChunkSize) = r
<1> DEFINE n == q * ChunkSize + r
<1>1. ChunkSize \in Nat /\ ChunkSize > 0 /\ n \in Nat
  BY ChunksHoldEvents
<1>2. n \div ChunkSize = q /\ (n % ChunkSize) = r
  BY <1>1
<1>. QED  BY <1>1, <1>2 DEF ChunkOf

\* Larger factors make larger products.
LEMMA Multiplied ==
  ASSUME NEW a \in Nat, NEW b \in Nat, NEW c \in Nat, a <= b
  PROVE  a * c \in Nat /\ b * c \in Nat /\ a * c <= b * c
<1>1. PICK d \in Nat : b = a + d
  BY b - a \in Nat
<1>2. b * c = a * c + d * c
  BY <1>1
<1>3. a * c \in Nat /\ d * c \in Nat
  OBVIOUS
<1>. QED  BY <1>2, <1>3

\* Chunks follow one another as the numbers in them do.
LEMMA ChunksAscend ==
  ASSUME NEW m \in Nat, NEW n \in Nat, m <= n
  PROVE  ChunkOf(m) <= ChunkOf(n)
<1>1. /\ ChunkOf(m) \in Nat /\ ChunkOf(n) \in Nat /\ ChunkSize \in Nat
      /\ m = ChunkOf(m) * ChunkSize + (m % ChunkSize) /\ (m % ChunkSize) \in 0..(ChunkSize - 1)
      /\ n = ChunkOf(n) * ChunkSize + (n % ChunkSize) /\ (n % ChunkSize) \in 0..(ChunkSize - 1)
  BY Divided, ChunksHoldEvents
<1>2. ASSUME ChunkOf(n) + 1 <= ChunkOf(m)  PROVE FALSE
  <2>1. (ChunkOf(n) + 1) * ChunkSize <= ChunkOf(m) * ChunkSize
    BY <1>1, <1>2, Multiplied
  <2>2. (ChunkOf(n) + 1) * ChunkSize = ChunkOf(n) * ChunkSize + ChunkSize
    BY <1>1
  <2>. QED  BY <1>1, <2>1, <2>2
<1>. QED  BY <1>1, <1>2

\* The numbers from N on that go to N's chunk are those up to the chunk's end.
LEMMA SameChunk ==
  ASSUME NEW N \in Nat, NEW d \in Nat
  PROVE  /\ (N % ChunkSize) + d < ChunkSize =>
              ChunkOf(N + d) = ChunkOf(N) /\ (N + d) % ChunkSize = (N % ChunkSize) + d
         /\ (N % ChunkSize) + d = ChunkSize =>
              ChunkOf(N + d) = ChunkOf(N) + 1 /\ (N + d) % ChunkSize = 0
         /\ (N % ChunkSize) + d >= ChunkSize => ChunkOf(N + d) > ChunkOf(N)
<1> DEFINE q == ChunkOf(N)
           r == (N % ChunkSize)
<1>1. q \in Nat /\ r \in 0..(ChunkSize - 1) /\ N = q * ChunkSize + r /\ ChunkSize \in Nat
      /\ ChunkSize > 0
  <2>1. ChunkSize \in Nat /\ ChunkSize > 0
    BY ChunksHoldEvents
  <2>. QED  BY <2>1, Divided
<1>. HIDE DEF q, r
<1>2. ASSUME r + d < ChunkSize  PROVE ChunkOf(N + d) = q /\ (N + d) % ChunkSize = r + d
  <2>1. r + d \in 0..(ChunkSize - 1) /\ N + d = q * ChunkSize + (r + d)
    BY <1>1, <1>2
  <2>. QED  BY <1>1, <2>1, DividedOnce
<1>3. (q + 1) * ChunkSize = q * ChunkSize + ChunkSize
  BY <1>1
<1>4. ASSUME r + d = ChunkSize  PROVE ChunkOf(N + d) = q + 1 /\ (N + d) % ChunkSize = 0
  <2>1. 0 \in 0..(ChunkSize - 1) /\ N + d = (q + 1) * ChunkSize + 0 /\ q + 1 \in Nat
    BY <1>1, <1>3, <1>4
  <2>. QED  BY <2>1, DividedOnce
<1>5. ASSUME r + d >= ChunkSize  PROVE ChunkOf(N + d) > q
  <2>1. /\ ChunkSize - r \in Nat /\ r + (ChunkSize - r) = ChunkSize
        /\ N + (ChunkSize - r) <= N + d /\ N + (ChunkSize - r) \in Nat /\ N + d \in Nat
    BY <1>1, <1>5
  <2>2. N + (ChunkSize - r) = (q + 1) * ChunkSize + 0 /\ 0 \in 0..(ChunkSize - 1) /\ q + 1 \in Nat
    BY <1>1, <1>3
  <2>3. ChunkOf(N + (ChunkSize - r)) = q + 1
    BY <2>2, DividedOnce
  <2>4. ChunkOf(N + (ChunkSize - r)) <= ChunkOf(N + d)
    BY <2>1, ChunksAscend
  <2>5. ChunkOf(N + d) \in Nat
    BY <2>1, Divided
  <2>. QED  BY <1>1, <2>3, <2>4, <2>5
<1>. QED  BY <1>2, <1>4, <1>5 DEF q, r

-----------------------------------------------------------------------------
(* Reading the chunks.                                                     *)

\* The numbers the chunks have room for.
InRoom(N) == ChunkOf(N) \in ChunkIndex

LEMMA ShareHasRoom ==
  ASSUME NEW N \in Nat, N <= MaxExecutions * Most
  PROVE  InRoom(N)
<1>1. MaxExecutions * Most \in Nat
  BY LogBounds DEF Most
<1>2. ChunkOf(N) <= ChunkOf(MaxExecutions * Most) /\ ChunkOf(N) \in Nat
      /\ ChunkOf(MaxExecutions * Most) \in Nat
  BY <1>1, ChunksAscend, Divided
<1>3. ChunkIndex = 0..ChunkOf(MaxExecutions * Most)
  BY DEF ChunkIndex, ChunkOf, Most
<1>. QED  BY <1>2, <1>3 DEF InRoom

\* count_events finds how many there are.
LEMMA PackedIsCounted ==
  ASSUME NEW N \in Nat, Packed(N), InRoom(N)
  PROVE  EventCount = N
<1> DEFINE q == ChunkOf(N)
           IsLast(i) == /\ Len(chunks[i]) < ChunkSize
                        /\ \A j \in ChunkIndex : j < i => Len(chunks[j]) >= ChunkSize
<1>1. /\ q \in Nat /\ q \in ChunkIndex /\ (N % ChunkSize) \in 0..(ChunkSize - 1)
      /\ N = q * ChunkSize + (N % ChunkSize) /\ ChunkSize \in Nat
  BY Divided, ChunksHoldEvents DEF InRoom
<1>2. ChunkIndex \subseteq Nat
  BY ChunksHoldEvents, LogBounds DEF ChunkIndex
<1>3. Len(chunks[q]) = (N % ChunkSize)
  BY <1>1 DEF Packed
<1>4. IsLast(q)
  <2>1. Len(chunks[q]) < ChunkSize
    BY <1>1, <1>3
  <2>2. \A j \in ChunkIndex : j < q => Len(chunks[j]) = ChunkSize
    BY DEF Packed
  <2>3. \A j \in ChunkIndex : j < q => Len(chunks[j]) >= ChunkSize
    BY <1>1, <2>2
  <2>. QED  BY <2>1, <2>3
<1>5. ASSUME NEW i \in ChunkIndex, IsLast(i)  PROVE i = q
  <2>1. ~ (i < q)
    BY <1>1, <1>2, <1>5 DEF Packed
  <2>2. ~ (q < i)
    BY <1>1, <1>2, <1>3, <1>5
  <2>. QED  BY <1>1, <1>2, <2>1, <2>2
<1>. HIDE DEF q
<1>6. (CHOOSE i \in ChunkIndex : IsLast(i)) = q
  <2>. HIDE DEF IsLast
  <2>. QED  BY <1>1, <1>4, <1>5
<1>7. EventCount = q * ChunkSize + Len(chunks[q])
  BY <1>6 DEF EventCount
<1>. QED  BY <1>1, <1>3, <1>7

\* The numbers of the stored log are those below the count.
LEMMA StoredNumbers ==
  ASSUME NEW N \in Nat, Packed(N), InRoom(N), LogTypeOK
  PROVE  /\ StoredLog = [i \in 0..(N - 1) |-> At(i)]
         /\ \A i \in 0..(N - 1) : /\ ChunkOf(i) \in ChunkIndex
                                  /\ (i % ChunkSize) + 1 \in DOMAIN chunks[ChunkOf(i)]
<1> DEFINE in(i) == {i * ChunkSize + j - 1 : j \in 1..ChunkSize \cap DOMAIN chunks[i]}
           numbers == UNION {in(i) : i \in ChunkIndex}
<1>1. /\ ChunkOf(N) \in Nat /\ ChunkOf(N) \in ChunkIndex /\ (N % ChunkSize) \in 0..(ChunkSize - 1)
      /\ N = ChunkOf(N) * ChunkSize + (N % ChunkSize) /\ ChunkSize \in Nat /\ ChunkSize > 0
  BY Divided, ChunksHoldEvents DEF InRoom
<1>2. \A i \in ChunkIndex :
        /\ i \in Nat
        /\ DOMAIN chunks[i] = 1..Len(chunks[i]) /\ Len(chunks[i]) \in Nat
  BY <1>1, ChunksHoldEvents, LogBounds, LenProperties DEF LogTypeOK, ChunkIndex
<1>3. ASSUME NEW i \in 0..(N - 1)
      PROVE  /\ ChunkOf(i) \in ChunkIndex /\ ChunkOf(i) \in Nat
             /\ (i % ChunkSize) + 1 \in 1..ChunkSize
             /\ (i % ChunkSize) + 1 \in DOMAIN chunks[ChunkOf(i)]
             /\ i = ChunkOf(i) * ChunkSize + ((i % ChunkSize) + 1) - 1
  <2>1. i \in Nat /\ i <= N /\ i < N
    BY <1>1
  <2>2. /\ ChunkOf(i) \in Nat /\ (i % ChunkSize) \in 0..(ChunkSize - 1)
        /\ i = ChunkOf(i) * ChunkSize + (i % ChunkSize)
    BY <2>1, Divided
  <2>3. ChunkOf(i) <= ChunkOf(N)
    BY <2>1, ChunksAscend
  <2>4. ChunkOf(i) \in ChunkIndex
    <3>1. PICK top \in Nat : ChunkIndex = 0..top
      BY ChunksHoldEvents, LogBounds DEF ChunkIndex
    <3>. QED  BY <1>1, <2>2, <2>3, <3>1
  <2>5. CASE ChunkOf(i) < ChunkOf(N)
    <3>1. Len(chunks[ChunkOf(i)]) = ChunkSize
      BY <2>4, <2>5 DEF Packed
    <3>. QED  BY <1>1, <1>2, <2>2, <2>4, <3>1
  <2>6. CASE ChunkOf(i) = ChunkOf(N)
    <3>1. Len(chunks[ChunkOf(i)]) = (N % ChunkSize)
      BY <1>1, <2>4, <2>6 DEF Packed
    <3>2. (i % ChunkSize) < (N % ChunkSize)
      BY <1>1, <2>1, <2>2, <2>6
    <3>. QED  BY <1>1, <1>2, <2>2, <2>4, <3>1, <3>2
  <2>. QED  BY <1>1, <2>2, <2>3, <2>5, <2>6
<1>4. ASSUME NEW i \in ChunkIndex, NEW j \in 1..ChunkSize \cap DOMAIN chunks[i]
      PROVE  i * ChunkSize + j - 1 \in 0..(N - 1)
  <2>1. i \in Nat /\ j \in Nat /\ j >= 1 /\ j <= Len(chunks[i]) /\ i * ChunkSize \in Nat
    BY <1>1, <1>2
  <2>2. i <= ChunkOf(N)
    <3>1. Len(chunks[i]) = IF i < ChunkOf(N) THEN ChunkSize
                           ELSE IF i = ChunkOf(N) THEN (N % ChunkSize) ELSE 0
      BY DEF Packed
    <3>2. Len(chunks[i]) # 0 /\ ChunkOf(N) \in Nat
      BY <1>1, <1>2, <2>1
    <3>3. i < ChunkOf(N) \/ i = ChunkOf(N)
      BY <3>1, <3>2, Zenon
    <3>. QED  BY <2>1, <3>2, <3>3
  <2>3. CASE i = ChunkOf(N)
    <3>1. j <= (N % ChunkSize)
      BY <2>1, <2>3 DEF Packed
    <3>2. PICK p \in Nat : p = i * ChunkSize
      BY <2>1
    <3>3. N = p + (N % ChunkSize) /\ (N % ChunkSize) \in Nat
      BY <1>1, <2>3, <3>2
    <3>4. p + j - 1 \in 0..(N - 1)
      BY <2>1, <3>1, <3>2, <3>3
    <3>. QED  BY <3>2, <3>4
  <2>4. CASE i + 1 <= ChunkOf(N)
    <3>1. i + 1 \in Nat /\ ChunkOf(N) \in Nat /\ ChunkSize \in Nat /\ j <= ChunkSize
      BY <1>1, <2>1
    <3>2. (i + 1) * ChunkSize <= ChunkOf(N) * ChunkSize
      BY <2>4, <3>1, Multiplied
    <3>3. (i + 1) * ChunkSize = i * ChunkSize + ChunkSize
      BY <2>1, <3>1
    <3>4. i * ChunkSize + j - 1 < ChunkOf(N) * ChunkSize
      BY <2>1, <3>1, <3>2, <3>3
    <3>5. ChunkOf(N) * ChunkSize \in Nat /\ ChunkOf(N) * ChunkSize <= N
      BY <1>1
    <3>. QED  BY <2>1, <3>4, <3>5
  <2>. QED  BY <1>1, <2>1, <2>2, <2>3, <2>4
<1>5. numbers = 0..(N - 1)
  <2>1. \A i \in ChunkIndex : in(i) \subseteq 0..(N - 1)
    BY <1>4
  <2>2. \A i \in 0..(N - 1) : i \in in(ChunkOf(i)) /\ ChunkOf(i) \in ChunkIndex
    BY <1>3
  <2>. HIDE DEF in
  <2>. QED  BY <2>1, <2>2
<1>6. StoredLog = [i \in numbers |-> At(i)]
  BY DEF StoredLog, At
<1>. QED  BY <1>3, <1>5, <1>6

-----------------------------------------------------------------------------
(* What a flush saves.                                                     *)

\* The first group of a flush is what fits in the chunk its first number goes to.
LEMMA FirstGroupFits ==
  ASSUME NEW N \in Nat, NEW events \in Seq(Stored), events # <<>>,
         \A m \in 1..Len(events) : events[m].seq = N + m - 1
  PROVE  LET size == FirstGroupSize(events) IN
         /\ size \in 1..Len(events) /\ (N % ChunkSize) + size <= ChunkSize
         /\ FirstGroup(events) \in Seq(Stored) /\ Len(FirstGroup(events)) = size
         /\ \A m \in 1..size : FirstGroup(events)[m] = events[m]
         /\ RestOf(events) \in Seq(Stored) /\ Len(RestOf(events)) = Len(events) - size
         /\ \A m \in 1..(Len(events) - size) : RestOf(events)[m] = events[size + m]
<1> DEFINE len == Len(events)
           room == ChunkSize - (N % ChunkSize)
           size == IF len < room THEN len ELSE room
           first == {m \in DOMAIN events : ChunkOf(events[m].seq) = ChunkOf(events[1].seq)}
<1>1. /\ len \in Nat /\ len >= 1 /\ DOMAIN events = 1..len
      /\ room \in Nat /\ room >= 1 /\ (N % ChunkSize) + room = ChunkSize
      /\ (N % ChunkSize) \in Nat /\ ChunkSize \in Nat
  <2>1. ChunkSize \in Nat /\ (N % ChunkSize) \in 0..(ChunkSize - 1)
    BY Divided, ChunksHoldEvents
  <2>. QED  BY <2>1, LenProperties, EmptySeq
<1>. HIDE DEF room
<1>2. size \in 1..len /\ (N % ChunkSize) + size <= ChunkSize
  BY <1>1
<1>3. ASSUME NEW m \in 1..len
      PROVE  ChunkOf(events[m].seq) = ChunkOf(events[1].seq) <=> m <= room
  <2>1. events[m].seq = N + (m - 1) /\ events[1].seq = N /\ m - 1 \in Nat
    BY <1>1
  <2>2. CASE m <= room
    <3>1. (N % ChunkSize) + (m - 1) < ChunkSize
      BY <1>1, <2>2
    <3>. QED  BY <2>1, <2>2, <3>1, SameChunk
  <2>3. CASE ~ (m <= room)
    <3>1. (N % ChunkSize) + (m - 1) >= ChunkSize
      BY <1>1, <2>3
    <3>2. ChunkOf(N + (m - 1)) > ChunkOf(N) /\ ChunkOf(N) \in Nat
      BY <2>1, <3>1, SameChunk, Divided
    <3>3. ChunkOf(N + (m - 1)) # ChunkOf(N)
      <4>1. N + (m - 1) \in Nat
        BY <2>1
      <4>. QED  BY <3>2, <4>1, Divided
    <3>. QED  BY <2>1, <2>3, <3>3
  <2>. QED  BY <2>2, <2>3
<1>4. first = 1..size
  BY <1>1, <1>2, <1>3
<1>5. FirstGroupSize(events) = size
  <2>1. Cardinality(1..size) = size
    BY <1>2, FS_Interval
  <2>. QED  BY <1>4, <2>1 DEF FirstGroupSize
<1>. HIDE DEF size, first
<1>6. /\ FirstGroup(events) \in Seq(Stored) /\ Len(FirstGroup(events)) = size
      /\ \A m \in 1..size : FirstGroup(events)[m] = events[m]
  BY <1>1, <1>2, <1>5, SubSeqProperties DEF FirstGroup
<1>7. /\ RestOf(events) \in Seq(Stored) /\ Len(RestOf(events)) = len - size
      /\ \A m \in 1..(len - size) : RestOf(events)[m] = events[size + m]
  <2>1. /\ size + 1 \in 1..(len + 1) /\ len \in ((size + 1) - 1)..len
        /\ len - (size + 1) + 1 = len - size
        /\ \A m \in 1..(len - size) : (size + 1) + m - 1 = size + m
    BY <1>1, <1>2
  <2>. QED  BY <1>5, <2>1, SubSeqProperties DEF RestOf
<1>. QED  BY <1>2, <1>5, <1>6, <1>7

\* The chunk is rewritten: what it held stays, and the group comes next in the log.
LEMMA Saved ==
  ASSUME LogTypeOK, NEW N \in Nat, Packed(N), InRoom(N),
         NEW group \in Seq(Stored), (N % ChunkSize) + Len(group) <= ChunkSize, Len(group) >= 1,
         chunks' = [chunks EXCEPT ![ChunkOf(N)] = chunks[ChunkOf(N)] \o group]
  PROVE  /\ chunks' \in [ChunkIndex -> Seq(Stored)]
         /\ Packed(N + Len(group))'
         /\ \A i \in 0..(N - 1) : At(i)' = At(i)
         /\ \A m \in 1..Len(group) : At(N + m - 1)' = group[m]
<1> DEFINE q == ChunkOf(N)
           r == (N % ChunkSize)
           size == Len(group)
<1>1. /\ q \in Nat /\ q \in ChunkIndex /\ r \in Nat /\ r < ChunkSize
      /\ ChunkSize \in Nat /\ size \in Nat
  <2>1. ChunkSize \in Nat /\ r \in 0..(ChunkSize - 1) /\ q \in Nat
    BY Divided, ChunksHoldEvents
  <2>. QED  BY <2>1, LenProperties DEF InRoom
<1>2. chunks \in [ChunkIndex -> Seq(Stored)] /\ chunks[q] \in Seq(Stored) /\ Len(chunks[q]) = r
  BY <1>1 DEF LogTypeOK, Packed
<1>3. /\ chunks[q] \o group \in Seq(Stored) /\ Len(chunks[q] \o group) = r + size
      /\ \A j \in 1..(r + size) : (chunks[q] \o group)[j] = IF j <= r THEN chunks[q][j] ELSE group[j - r]
  BY <1>2, ConcatProperties
<1>. HIDE DEF q, r, size
<1>4. chunks' = [chunks EXCEPT ![q] = chunks[q] \o group]
  BY DEF q
<1>5. /\ chunks' \in [ChunkIndex -> Seq(Stored)]
      /\ chunks'[q] = chunks[q] \o group
      /\ \A i \in ChunkIndex : i # q => chunks'[i] = chunks[i]
  BY <1>1, <1>2, <1>3, <1>4
<1> DEFINE next == ChunkOf(N + size)
           place == (N + size) % ChunkSize
<1>6. /\ r + size < ChunkSize => next = q /\ place = r + size
      /\ r + size = ChunkSize => next = q + 1 /\ place = 0
  BY <1>1, SameChunk DEF q, r
<1>. HIDE DEF next, place
<1>7. r + size < ChunkSize \/ r + size = ChunkSize
  BY <1>1 DEF r, size
<1>8. ASSUME NEW i \in ChunkIndex
      PROVE  Len(chunks'[i]) = IF i < next THEN ChunkSize ELSE IF i = next THEN place ELSE 0
  <2>1. i \in Nat
    BY ChunksHoldEvents, LogBounds DEF ChunkIndex
  <2>2. Len(chunks[i]) = IF i < q THEN ChunkSize ELSE IF i = q THEN r ELSE 0
    BY DEF Packed, q, r
  <2>3. Len(chunks'[i]) = IF i < q THEN ChunkSize ELSE IF i = q THEN r + size ELSE 0
    <3>1. CASE i = q
      <4>1. Len(chunks'[q]) = r + size
        BY <1>3, <1>5
      <4>. QED  BY <1>1, <3>1, <4>1
    <3>2. CASE i # q
      <4>1. Len(chunks'[i]) = Len(chunks[i])
        BY <1>5, <3>2
      <4>. QED  BY <2>2, <3>2, <4>1
    <3>. QED  BY <3>1, <3>2
  <2>4. CASE r + size < ChunkSize
    BY <1>6, <2>3, <2>4
  <2>5. CASE r + size = ChunkSize
    BY <1>1, <1>6, <2>1, <2>3, <2>5
  <2>. QED  BY <1>7, <2>4, <2>5
<1>9. Packed(N + Len(group))'
  BY <1>8 DEF Packed, ChunkOf, next, place, size
<1>10. ASSUME NEW i \in 0..(N - 1)  PROVE At(i)' = At(i)
  <2>1. /\ ChunkOf(i) \in ChunkIndex /\ (i % ChunkSize) + 1 \in DOMAIN chunks[ChunkOf(i)]
    BY StoredNumbers
  <2>2. CASE ChunkOf(i) # q
    BY <1>5, <2>1, <2>2 DEF At, ChunkOf
  <2>3. CASE ChunkOf(i) = q
    <3>1. (i % ChunkSize) + 1 \in 1..r
      BY <1>2, <2>1, <2>3, LenProperties
    <3>2. chunks'[q][(i % ChunkSize) + 1] = chunks[q][(i % ChunkSize) + 1]
      BY <1>1, <1>3, <1>5, <3>1
    <3>. QED  BY <2>3, <3>2 DEF At, ChunkOf
  <2>. QED  BY <2>2, <2>3
<1>11. ASSUME NEW m \in 1..size  PROVE At(N + m - 1)' = group[m]
  <2>1. m - 1 \in Nat /\ r + (m - 1) < ChunkSize /\ N + (m - 1) = N + m - 1
    BY <1>1, <1>7
  <2>2. ChunkOf(N + m - 1) = q /\ ((N + m - 1) % ChunkSize) = r + (m - 1)
    BY <2>1, SameChunk DEF q, r
  <2>3. chunks'[q][(r + (m - 1)) + 1] = group[m]
    <3>1. /\ (r + (m - 1)) + 1 \in 1..(r + size) /\ ~ ((r + (m - 1)) + 1 <= r)
          /\ ((r + (m - 1)) + 1) - r = m
      BY <1>1
    <3>. QED  BY <1>3, <1>5, <3>1
  <2>. QED  BY <2>2, <2>3 DEF At, ChunkOf
<1>. QED  BY <1>5, <1>9, <1>10, <1>11 DEF size

-----------------------------------------------------------------------------
(* Steps that leave the chunks as they are.                                *)

\* What the bounds and the executions are.
LEMMA Numbers ==
  /\ Most \in Nat /\ MaxExecutions \in Nat /\ MaxEmits \in Nat /\ MaxEmits >= 1
  /\ \A k \in Execution : k \in Nat /\ k >= 1 /\ k <= MaxExecutions /\ k - 1 \in Nat
BY LogBounds DEF Most, Execution

\* The log has room for what it may come to hold.
LEMMA HasRoom == ASSUME NEW N \in Nat, Fits(N)  PROVE InRoom(N)
<1>1. \A j \in Execution : ~ (j > MaxExecutions)
  BY Numbers
<1>2. N <= MaxExecutions * Most
  BY <1>1, Numbers DEF Fits
<1>. QED  BY <1>2, ShareHasRoom

\* One execution lives at a time.
LEMMA OthersRest ==
  ASSUME NEW N \in Nat, LogHolds(N), NEW j \in Execution, NEW k \in Execution, j # k, Alive(k)
  PROVE  ~Alive(j)
<1>1. exec[k] # "unborn" /\ (Alive(j) => exec[j] # "unborn")
  BY DEF LogHolds, Writes, Emissions, Alive, WriterAlive
<1>2. j < k \/ k < j
  BY Numbers
<1>. QED  BY <1>1, <1>2 DEF LogHolds, InTurn

\* An execution nothing happens to, and whose log stays, is as it was.
LEMMA WritesStay ==
  ASSUME NEW N \in Nat, NEW j \in Execution, Writes(j, N), chunks' = chunks,
         exec'[j] = exec[j], emitted'[j] = emitted[j], inbox'[j] = inbox[j], writer'[j] = writer[j],
         seq'[j] = seq[j], pending'[j] = pending[j], loaded'[j] = loaded[j]
  PROVE  Writes(j, N)'
<1>1. \A i : At(i)' = At(i)
  BY DEF At, ChunkOf
<1>2. Taken(j)' = Taken(j) /\ (Emissions(j) => Emissions(j)')
  BY DEF Taken, Closed, Emissions
<1>3. Queue(j) => Queue(j)'
  BY <1>2 DEF Queue
<1>4. Counting(j, N) => Counting(j, N)'
  BY <1>1, <1>2 DEF Counting
<1>5. Held(j, N) => Held(j, N)'
  BY <1>1, <1>2 DEF Held, ChunkOf
<1>6. IsWhole(j, N) => IsWhole(j, N)'
  BY <1>1 DEF IsWhole
<1>. QED  BY <1>2, <1>3, <1>4, <1>5, <1>6 DEF Writes

\* A step of executions none of which opens or comes to life, that leaves the chunks.
LEMMA ChunksStay ==
  ASSUME NEW N \in Nat, LogHolds(N), LogTypeOK', chunks' = chunks,
         \A j \in Execution : /\ exec'[j] = "unborn" <=> exec[j] = "unborn"
                              /\ Alive(j)' => Alive(j)
                              /\ Writes(j, N)'
  PROVE  LogHolds(N)'
<1>1. \A i : At(i)' = At(i)
  BY DEF At, ChunkOf
<1>2. InTurn'
  BY DEF LogHolds, InTurn
<1>3. Packed(N)'
  BY DEF LogHolds, Packed, ChunkOf
<1>4. InRuns(N)'
  BY <1>1 DEF LogHolds, InRuns
<1>5. Fits(N)'
  BY DEF LogHolds, Fits
<1>. QED  BY <1>2, <1>3, <1>4, <1>5 DEF LogHolds

\* A step of one execution.
LEMMA OneMoves ==
  ASSUME NEW N \in Nat, LogHolds(N), LogTypeOK', chunks' = chunks, NEW k \in Execution,
         \A j \in Execution : j # k =>
           /\ exec'[j] = exec[j] /\ emitted'[j] = emitted[j] /\ inbox'[j] = inbox[j]
           /\ writer'[j] = writer[j] /\ seq'[j] = seq[j] /\ pending'[j] = pending[j]
           /\ loaded'[j] = loaded[j],
         exec'[k] = "unborn" <=> exec[k] = "unborn", Alive(k)' => Alive(k),
         Writes(k, N)'
  PROVE  LogHolds(N)'
<1>1. ASSUME NEW j \in Execution
      PROVE  /\ exec'[j] = "unborn" <=> exec[j] = "unborn"
             /\ Alive(j)' => Alive(j)
             /\ Writes(j, N)'
  <2>1. CASE j = k
    BY <2>1
  <2>2. CASE j # k
    BY <2>2, WritesStay DEF LogHolds, Alive
  <2>. QED  BY <2>1, <2>2
<1>. QED  BY <1>1, ChunksStay

\* An execution's thread that moves puts nothing in the queue but by putting it there.
LEMMA ThreadMoves ==
  ASSUME NEW N \in Nat, LogHolds(N), NEW k \in Execution, NEW place \in {"running", "leaving"},
         exec[k] \in {"opened", "running"}, exec' = [exec EXCEPT ![k] = place],
         UNCHANGED <<chunks, emitted, inbox, writerVars>>
  PROVE  LogHolds(N)'
<1>1. /\ exec \in [Execution -> Exits] /\ exec'[k] = place /\ exec' \in [Execution -> Exits]
      /\ \A j \in Execution : j # k => exec'[j] = exec[j]
  BY DEF LogHolds, LogTypeOK, Exits
<1>2. LogTypeOK'
  BY <1>1 DEF LogHolds, LogTypeOK, writerVars
<1>3. \A i : At(i)' = At(i)
  BY DEF At, ChunkOf
<1>4. Taken(k)' = Taken(k)
  BY <1>1 DEF Taken, Closed
<1>5. /\ Emissions(k) => Emissions(k)'
      /\ Queue(k) => Queue(k)'
      /\ Counting(k, N) => Counting(k, N)'
      /\ ~IsWhole(k, N)
  BY <1>1, <1>3, <1>4 DEF Emissions, Queue, Counting, IsWhole, writerVars
<1>6. Held(k, N) => Held(k, N)'
  BY <1>3, <1>4 DEF Held, ChunkOf, writerVars
<1>7. Writes(k, N)'
  BY <1>5, <1>6 DEF LogHolds, Writes, writerVars
<1>. QED  BY <1>1, <1>2, <1>7, OneMoves DEF Alive, writerVars

\* What the thread puts in the queue comes after what it has put there, whether or not
\* the sentinel follows.
LEMMA PutComesNext ==
  ASSUME NEW N \in Nat, LogHolds(N), NEW k \in Execution, NEW kind \in Kinds,
         exec[k] \in {"running", "leaving"}, Len(emitted[k]) <= MaxEmits,
         emitted' = [emitted EXCEPT ![k] = Append(@, kind)],
         exec' \in [Execution -> Exits], inbox' \in [Execution -> Seq(Event \cup {Stop})],
         \A j \in Execution : j # k => exec'[j] = exec[j] /\ inbox'[j] = inbox[j],
         \/ exec'[k] = "running" /\ Len(emitted[k]) < MaxEmits
         \/ exec'[k] = "ended" /\ inbox'[k][Len(inbox'[k])] = Stop,
         Len(inbox'[k]) = Len(inbox[k]) + 1 + Closed(k)',
         \A m \in 1..Len(inbox[k]) : inbox'[k][m] = inbox[k][m],
         inbox'[k][Len(inbox[k]) + 1] = [by |-> k, n |-> Len(emitted[k]) + 1, kind |-> kind],
         UNCHANGED <<chunks, writerVars>>
  PROVE  LogHolds(N)'
<1>1. /\ emitted[k] \in Seq(Kinds) /\ Len(emitted[k]) \in Nat /\ DOMAIN emitted[k] = 1..Len(emitted[k])
      /\ inbox[k] \in Seq(Event \cup {Stop}) /\ Len(inbox[k]) \in Nat
      /\ Len(pending[k]) \in Nat /\ seq[k] \in Nat
  BY LenProperties DEF LogHolds, LogTypeOK
<1>2. /\ emitted'[k] = Append(emitted[k], kind)
      /\ emitted' \in [Execution -> Seq(Kinds)]
      /\ \A j \in Execution : j # k => emitted'[j] = emitted[j]
  BY <1>1 DEF LogHolds, LogTypeOK
<1>3. /\ Len(emitted'[k]) = Len(emitted[k]) + 1
      /\ \A n \in 1..Len(emitted[k]) : emitted'[k][n] = emitted[k][n]
      /\ emitted'[k][Len(emitted[k]) + 1] = kind
  BY <1>1, <1>2, AppendProperties
<1>4. LogTypeOK'
  BY <1>2 DEF LogHolds, LogTypeOK, writerVars
<1>5. Taken(k)' = Taken(k) /\ Closed(k) = 0 /\ Closed(k)' \in {0, 1}
      /\ Len(emitted[k]) - Taken(k) = Len(inbox[k])
  <2>1. Closed(k) = 0 /\ Closed(k)' \in {0, 1}
    BY DEF Closed
  <2>2. ASSUME NEW a \in Nat, NEW b \in Nat, NEW c \in Nat
        PROVE  a + 0 - b = a - b /\ (a + 1) + c - (b + 1 + c) = a - b
    OBVIOUS
  <2>3. Taken(k) = Len(emitted[k]) - Len(inbox[k])
    <3>1. Taken(k) = Len(emitted[k]) + 0 - Len(inbox[k])
      BY <2>1 DEF Taken
    <3>. QED  BY <1>1, <2>2, <3>1
  <2>4. Taken(k)' = (Len(emitted[k]) + 1) + Closed(k)' - (Len(inbox[k]) + 1 + Closed(k)')
    BY <1>3 DEF Taken
  <2>5. Closed(k)' \in Nat
    BY <2>1
  <2>6. Taken(k)' = Len(emitted[k]) - Len(inbox[k])
    BY <1>1, <2>2, <2>4, <2>5
  <2>. QED  BY <1>1, <2>1, <2>3, <2>6
<1>6. Emissions(k)'
  <2>1. Emissions(k)
    BY DEF LogHolds, Writes
  <2>2. Len(emitted'[k]) <= Most /\ (exec'[k] = "running" => Len(emitted'[k]) <= MaxEmits)
    BY <1>1, <1>3, Numbers DEF Most
  <2>. QED  BY <2>1, <2>2 DEF Emissions, writerVars, Most
<1>7. ASSUME Queue(k)  PROVE Queue(k)'
  <2>1. Taken(k) \in Nat /\ Taken(k) <= Len(emitted[k])
    BY <1>1, <1>7 DEF Queue
  <2>2. ASSUME NEW m \in 1..(Len(emitted'[k]) - Taken(k))
        PROVE  inbox'[k][m] = [by |-> k, n |-> Taken(k) + m, kind |-> emitted'[k][Taken(k) + m]]
    <3>0. m \in Nat /\ m >= 1 /\ m <= Len(emitted[k]) + 1 - Taken(k)
      BY <1>1, <1>3, <2>1
    <3>1. CASE m \in 1..(Len(emitted[k]) - Taken(k))
      <4>1. Taken(k) + m \in 1..Len(emitted[k]) /\ m \in 1..Len(inbox[k])
        BY <1>1, <1>5, <2>1, <3>1
      <4>2. inbox[k][m] = [by |-> k, n |-> Taken(k) + m, kind |-> emitted[k][Taken(k) + m]]
        BY <1>7, <3>1 DEF Queue
      <4>. QED  BY <1>3, <4>1, <4>2
    <3>2. CASE m = Len(emitted[k]) + 1 - Taken(k)
      <4>1. Taken(k) + m = Len(emitted[k]) + 1 /\ m = Len(inbox[k]) + 1
        BY <1>1, <1>5, <2>1, <3>2
      <4>2. inbox'[k][m] = [by |-> k, n |-> Taken(k) + m, kind |-> kind]
        BY <4>1
      <4>3. emitted'[k][Taken(k) + m] = kind
        BY <1>3, <4>1
      <4>. QED  BY <4>2, <4>3
    <3>3. m \in 1..(Len(emitted[k]) - Taken(k)) \/ m = Len(emitted[k]) + 1 - Taken(k)
      <4>1. ASSUME NEW a \in Nat, NEW b \in Nat, m <= a + 1 - b
            PROVE  m \in 1..(a - b) \/ m = a + 1 - b
        <5>. m \in Nat /\ m >= 1
          BY <3>0, Zenon
        <5>1. m <= a - b \/ m = a + 1 - b
          BY <4>1
        <5>. QED  BY <5>1
      <4>. QED  BY <1>1, <2>1, <3>0, <4>1
    <3>. QED  BY <3>1, <3>2, <3>3
  <2>3. Taken(k)' \in 0..Len(emitted'[k])
    BY <1>1, <1>3, <1>5, <2>1
  <2>. QED  BY <1>5, <2>2, <2>3 DEF Queue
<1>8. \A i : At(i)' = At(i)
  BY DEF At, ChunkOf
<1>9. Counting(k, N) => Counting(k, N)'
  BY <1>5, <1>8 DEF Counting, writerVars
<1>10. ASSUME Held(k, N), Queue(k)  PROVE Held(k, N)'
  <2> DEFINE held == Len(pending[k])
             before == Taken(k) - held
             base == N - before
  <2>1. /\ before \in Nat /\ base \in Nat /\ before + held <= Len(emitted[k])
        /\ Taken(k) \in Nat /\ held \in Nat
    BY <1>1, <1>10 DEF Held, Queue
  <2>7. N \in Nat /\ base = N - before /\ Len(emitted[k]) \in Nat
    BY <1>1
  <2>. HIDE DEF held, before, base
  <2>2. \A m \in 1..held : before + m \in 1..Len(emitted[k])
    BY <2>1, <2>7
  <2>3. \A i \in 0..(N - 1) : ~ (i < base) => i - base + 1 \in 1..Len(emitted[k])
    BY <2>1, <2>7
  <2>4. \A m \in 1..held :
          pending[k][m] = [by |-> k, n |-> before + m, kind |-> emitted'[k][before + m], seq |-> N + m - 1]
    BY <1>3, <1>10, <2>2 DEF Held, held, before
  <2>5. \A i \in 0..(N - 1) :
          IF i < base THEN At(i).by # k
          ELSE At(i) = [by |-> k, n |-> i - base + 1, kind |-> emitted'[k][i - base + 1], seq |-> i]
    BY <1>3, <1>10, <2>3 DEF Held, held, before, base
  <2>6. pending'[k] = pending[k] /\ writer'[k] = writer[k] /\ seq'[k] = seq[k] /\ loaded'[k] = loaded[k]
    BY DEF writerVars
  <2>8. /\ Len(pending'[k]) = held /\ Taken(k)' - Len(pending'[k]) = before
        /\ N - (Taken(k)' - Len(pending'[k])) = base
    BY <1>5, <2>6 DEF held, before, base
  <2>9. /\ before \in Nat /\ base \in Nat /\ base <= (k - 1) * Most /\ seq[k] = N + held
        /\ writer[k] \in {"loading", "saving"} => pending[k] # <<>>
        /\ writer[k] = "saving" => loaded[k] = chunks[ChunkOf(N)]
    BY <1>10 DEF Held, held, before, base
  <2>. QED  BY <1>8, <2>4, <2>5, <2>6, <2>8, <2>9 DEF Held, ChunkOf, Most
<1>11. ~IsWhole(k, N)
  BY DEF IsWhole
<1>12. Writes(k, N)'
  <2>1. Writes(k, N) /\ writer' = writer
    BY DEF LogHolds, writerVars
  <2>. QED  BY <1>6, <1>7, <1>9, <1>10, <1>11, <2>1 DEF Writes, WriterAlive
<1>13. Alive(k)' => Alive(k)
  BY DEF Alive, writerVars
<1>. QED  BY <1>2, <1>4, <1>12, <1>13, OneMoves DEF writerVars

-----------------------------------------------------------------------------
(* The executor.                                                           *)

LEMMA BeginStep == ASSUME NEW N \in Nat, LogHolds(N), NEW k \in Execution, Begin(k)  PROVE LogHolds(N)'
BY ThreadMoves DEF Begin

LEMMA SettleStep == ASSUME NEW N \in Nat, LogHolds(N), NEW k \in Execution, Settle(k)  PROVE LogHolds(N)'
BY ThreadMoves DEF Settle

LEMMA EscapeStep == ASSUME NEW N \in Nat, LogHolds(N), NEW k \in Execution, Escape(k)  PROVE LogHolds(N)'
BY ThreadMoves DEF Escape

\* Whatever an execution emits is an event of its own.
LEMMA EventType ==
  ASSUME NEW k \in Execution, NEW n \in 1..Most, NEW kind \in Kinds
  PROVE  [by |-> k, n |-> n, kind |-> kind] \in Event /\ [by |-> k, n |-> n, kind |-> kind] # Stop
<1>1. k # 0
  BY Numbers
<1>. QED  BY <1>1 DEF Event, Stop, Most

\* An event any thread of the execution emits.
LEMMA EmitStep == ASSUME NEW N \in Nat, LogHolds(N), NEW k \in Execution, Emit(k)  PROVE LogHolds(N)'
<1>1. PICK kind \in {"own", "other"} : Put(k, kind)
  BY DEF Emit
<1> DEFINE event == [by |-> k, n |-> Len(emitted[k]) + 1, kind |-> kind]
<1>2. /\ UNCHANGED <<chunks, exec, writerVars>> /\ exec[k] = "running" /\ Len(emitted[k]) < MaxEmits
      /\ emitted' = [emitted EXCEPT ![k] = Append(@, kind)] /\ kind \in Kinds
      /\ inbox' = [inbox EXCEPT ![k] = Append(@, event)]
  BY <1>1 DEF Emit, Put, Kinds
<1>3. /\ exec \in [Execution -> Exits] /\ inbox \in [Execution -> Seq(Event \cup {Stop})]
      /\ Len(emitted[k]) \in Nat /\ inbox[k] \in Seq(Event \cup {Stop})
  BY LenProperties DEF LogHolds, LogTypeOK
<1>4. event \in Event
  <2>1. Len(emitted[k]) + 1 \in 1..Most
    BY <1>2, <1>3, Numbers DEF Most
  <2>. QED  BY <1>2, <2>1, EventType
<1>. HIDE DEF event
<1>5. /\ inbox'[k] = Append(inbox[k], event) /\ inbox' \in [Execution -> Seq(Event \cup {Stop})]
      /\ \A j \in Execution : j # k => inbox'[j] = inbox[j]
  BY <1>2, <1>3, <1>4, AppendProperties
<1>6. /\ Len(inbox'[k]) = Len(inbox[k]) + 1
      /\ \A m \in 1..Len(inbox[k]) : inbox'[k][m] = inbox[k][m]
      /\ inbox'[k][Len(inbox[k]) + 1] = event
  BY <1>3, <1>4, <1>5, AppendProperties
<1>7. Closed(k)' = 0 /\ Len(inbox[k]) \in Nat
  BY <1>2, <1>3, LenProperties DEF Closed
<1>8. Len(inbox'[k]) = Len(inbox[k]) + 1 + Closed(k)' /\ Len(emitted[k]) <= MaxEmits
  BY <1>2, <1>3, <1>6, <1>7, Numbers
<1>. QED  BY <1>2, <1>3, <1>5, <1>6, <1>8, PutComesNext DEF event

\* The run_done and the sentinel.
LEMMA CloseStep == ASSUME NEW N \in Nat, LogHolds(N), NEW k \in Execution, Close(k)  PROVE LogHolds(N)'
<1> DEFINE event == [by |-> k, n |-> Len(emitted[k]) + 1, kind |-> "done"]
           ends == <<event, Stop>>
<1>1. /\ UNCHANGED <<chunks, writerVars>> /\ exec[k] = "leaving"
      /\ exec' = [exec EXCEPT ![k] = "ended"]
      /\ emitted' = [emitted EXCEPT ![k] = Append(@, "done")] /\ "done" \in Kinds
      /\ inbox' = [inbox EXCEPT ![k] = @ \o ends]
  BY DEF Close, Kinds
<1>2. /\ exec \in [Execution -> Exits] /\ inbox \in [Execution -> Seq(Event \cup {Stop})]
      /\ Len(emitted[k]) \in Nat /\ inbox[k] \in Seq(Event \cup {Stop}) /\ Len(inbox[k]) \in Nat
      /\ Len(emitted[k]) <= MaxEmits
  BY <1>1, LenProperties DEF LogHolds, LogTypeOK, Writes, Emissions
<1>3. exec' \in [Execution -> Exits] /\ exec'[k] = "ended" /\ \A j \in Execution : j # k => exec'[j] = exec[j]
  BY <1>1, <1>2 DEF Exits
<1>4. event \in Event
  <2>1. Len(emitted[k]) + 1 \in 1..Most
    BY <1>2, Numbers DEF Most
  <2>. QED  BY <1>1, <2>1, EventType
<1>. HIDE DEF event
<1>5. ends \in Seq(Event \cup {Stop}) /\ Len(ends) = 2 /\ ends[1] = event /\ ends[2] = Stop
  BY <1>4
<1>. HIDE DEF ends
<1>6. /\ inbox'[k] = inbox[k] \o ends /\ inbox' \in [Execution -> Seq(Event \cup {Stop})]
      /\ \A j \in Execution : j # k => inbox'[j] = inbox[j]
  BY <1>1, <1>2, <1>5, ConcatProperties
<1>7. /\ Len(inbox'[k]) = Len(inbox[k]) + 2
      /\ \A m \in 1..Len(inbox[k]) : inbox'[k][m] = inbox[k][m]
      /\ inbox'[k][Len(inbox[k]) + 1] = event
      /\ inbox'[k][Len(inbox[k]) + 2] = Stop
  <2>1. /\ Len(inbox'[k]) = Len(inbox[k]) + Len(ends)
        /\ \A m \in 1..(Len(inbox[k]) + Len(ends)) :
             inbox'[k][m] = IF m <= Len(inbox[k]) THEN inbox[k][m] ELSE ends[m - Len(inbox[k])]
    <3> DEFINE S == Event \cup {Stop}
               old == inbox[k]
    <3>1. old \in Seq(S) /\ ends \in Seq(S)
      BY <1>2, <1>5
    <3>. HIDE DEF S, old
    <3>2. /\ Len(old \o ends) = Len(old) + Len(ends)
          /\ \A m \in 1..(Len(old) + Len(ends)) :
               (old \o ends)[m] = IF m <= Len(old) THEN old[m] ELSE ends[m - Len(old)]
      BY <3>1, ConcatProperties
    <3>. QED  BY <1>6, <3>2 DEF old
  <2>2. /\ Len(inbox[k]) + 1 \in 1..(Len(inbox[k]) + 2) /\ ~ (Len(inbox[k]) + 1 <= Len(inbox[k]))
        /\ Len(inbox[k]) + 2 \in 1..(Len(inbox[k]) + 2) /\ ~ (Len(inbox[k]) + 2 <= Len(inbox[k]))
        /\ Len(inbox[k]) + 1 - Len(inbox[k]) = 1 /\ Len(inbox[k]) + 2 - Len(inbox[k]) = 2
        /\ \A m \in 1..Len(inbox[k]) : m \in 1..(Len(inbox[k]) + 2) /\ m <= Len(inbox[k])
    BY <1>2
  <2>3. ends[Len(inbox[k]) + 1 - Len(inbox[k])] = event /\ ends[Len(inbox[k]) + 2 - Len(inbox[k])] = Stop
    BY <1>5, <2>2
  <2>4. Len(inbox'[k]) = Len(inbox[k]) + 2
    BY <1>5, <2>1
  <2>5. \A m \in 1..(Len(inbox[k]) + 2) :
          inbox'[k][m] = IF m <= Len(inbox[k]) THEN inbox[k][m] ELSE ends[m - Len(inbox[k])]
    BY <1>5, <2>1
  <2>6. \A m \in 1..Len(inbox[k]) : inbox'[k][m] = inbox[k][m]
    BY <2>2, <2>5
  <2>7. inbox'[k][Len(inbox[k]) + 1] = event
    BY <2>2, <2>3, <2>5
  <2>8. inbox'[k][Len(inbox[k]) + 2] = Stop
    BY <2>2, <2>3, <2>5
  <2>. QED  BY <2>4, <2>6, <2>7, <2>8
<1>9. Len(inbox'[k]) = Len(inbox[k]) + 1 + Closed(k)'
  <2>1. Closed(k)' = 1
    BY <1>3 DEF Closed
  <2>. QED  BY <1>2, <1>7, <2>1
<1>. QED  BY <1>1, <1>2, <1>3, <1>6, <1>7, <1>9, PutComesNext DEF event

\* A log opens when no thread of the run is left, and writes nothing before its writer
\* has counted.
LEMMA OpenLogStep ==
  ASSUME MaxLive <= 1, NEW N \in Nat, LogHolds(N), NEW k \in Execution, OpenLog(k)
  PROVE  LogHolds(N)'
<1> DEFINE event == [by |-> k, n |-> Len(emitted[k]) + 1, kind |-> "other"]
<1>1. /\ UNCHANGED <<chunks, seq, pending, loaded>> /\ exec[k] = "unborn"
      /\ k > 1 => exec[k - 1] # "unborn"
      /\ exec' = [exec EXCEPT ![k] = "opened"]
      /\ writer' = [writer EXCEPT ![k] = "counting"]
      /\ emitted' = [emitted EXCEPT ![k] = Append(@, "other")] /\ "other" \in Kinds
      /\ inbox' = [inbox EXCEPT ![k] = Append(@, event)]
  BY DEF OpenLog, Put, Kinds
<1>2. /\ exec \in [Execution -> Exits] /\ inbox \in [Execution -> Seq(Event \cup {Stop})]
      /\ writer \in [Execution -> Places] /\ emitted \in [Execution -> Seq(Kinds)]
      /\ emitted[k] = <<>> /\ inbox[k] = <<>> /\ pending[k] = <<>>
  BY <1>1 DEF LogHolds, LogTypeOK, Writes, Emissions
<1>3. \A j \in Execution : ~Alive(j)
  <2> DEFINE alive == {j \in Execution : Alive(j)}
  <2>1. IsFiniteSet(alive)
    <3>1. IsFiniteSet(Execution)
      BY Numbers, FS_Interval DEF Execution
    <3>. QED  BY <3>1, FS_Subset
  <2>2. Cardinality(alive) < MaxLive
    BY DEF OpenLog
  <2>3. Cardinality(alive) = 0
    BY <2>1, <2>2, FS_CardinalityType, LogBounds
  <2>4. alive = {}
    BY <2>1, <2>3, FS_EmptySet
  <2>. QED  BY <2>4
<1>4. event = [by |-> k, n |-> 1, kind |-> "other"] /\ event \in Event /\ event # Stop
  <2>1. Len(emitted[k]) = 0 /\ 1 \in 1..Most
    BY <1>2, Numbers, EmptySeq DEF Most
  <2>2. event = [by |-> k, n |-> 1, kind |-> "other"]
    BY <2>1
  <2>. QED  BY <1>1, <2>1, <2>2, EventType
<1>. HIDE DEF event
<1>5. /\ emitted'[k] = <<"other">> /\ inbox'[k] = <<event>>
      /\ exec'[k] = "opened" /\ writer'[k] = "counting"
      /\ emitted' \in [Execution -> Seq(Kinds)] /\ inbox' \in [Execution -> Seq(Event \cup {Stop})]
      /\ exec' \in [Execution -> Exits] /\ writer' \in [Execution -> Places]
  <2>1. Append(emitted[k], "other") = <<"other">> /\ Append(inbox[k], event) = <<event>>
    BY <1>2
  <2>2. <<"other">> \in Seq(Kinds) /\ <<event>> \in Seq(Event \cup {Stop})
    BY <1>1, <1>4
  <2>3. "opened" \in Exits /\ "counting" \in Places
    BY DEF Exits, Places, WriterAlive
  <2>. QED  BY <1>1, <1>2, <2>1, <2>2, <2>3
<1>6. \A j \in Execution : j # k =>
        /\ exec'[j] = exec[j] /\ emitted'[j] = emitted[j] /\ inbox'[j] = inbox[j]
        /\ writer'[j] = writer[j] /\ seq'[j] = seq[j] /\ pending'[j] = pending[j]
        /\ loaded'[j] = loaded[j]
  BY <1>1, <1>2
<1>7. LogTypeOK'
  BY <1>1, <1>5 DEF LogHolds, LogTypeOK
<1>8. InTurn'
  <2>1. \A j \in Execution : j < k => exec[j] # "unborn"
    <3>. SUFFICES ASSUME NEW j \in Execution, j < k, exec[j] = "unborn"  PROVE FALSE
      OBVIOUS
    <3>1. k > 1 /\ k - 1 \in Execution /\ j <= k - 1
      BY Numbers DEF Execution
    <3>2. exec[k - 1] # "unborn"
      BY <1>1, <3>1
    <3>3. j < k - 1
      BY <3>1, <3>2, Numbers
    <3>. QED  BY <3>1, <3>2, <3>3 DEF LogHolds, InTurn
  <2>2. \A j \in Execution : Alive(j)' => j = k
    BY <1>3, <1>6 DEF Alive
  <2>3. \A j \in Execution : k < j => exec[j] = "unborn"
    BY <1>1 DEF LogHolds, InTurn
  <2>4. ASSUME NEW i \in Execution, NEW j \in Execution, i < j
        PROVE  (Alive(i)' => exec'[j] = "unborn") /\ (exec'[i] = "unborn" => exec'[j] = "unborn")
    <3>1. i # j /\ i \in Nat /\ j \in Nat
      BY <2>4, Numbers
    <3>2. CASE j = k
      BY <1>6, <2>1, <2>2, <2>4, <3>1, <3>2
    <3>3. CASE j # k
      BY <1>5, <1>6, <2>2, <2>3, <2>4, <3>3 DEF LogHolds, InTurn
    <3>. QED  BY <3>2, <3>3
  <2>. QED  BY <2>4 DEF InTurn
<1>9. Packed(N)' /\ \A i : At(i)' = At(i)
  BY <1>1 DEF LogHolds, Packed, At, ChunkOf
<1>10. InRuns(N)'
  <2>1. \A j \in Execution : exec[j] # "unborn" => exec'[j] # "unborn"
    BY <1>5, <1>6
  <2>. QED  BY <1>9, <2>1 DEF LogHolds, InRuns
<1>11. Fits(N)'
  <2>1. \A j \in Execution : exec'[j] = "unborn" => exec[j] = "unborn"
    BY <1>5, <1>6
  <2>. QED  BY <2>1 DEF LogHolds, Fits
<1>12. Writes(k, N)'
  <2>1. Emissions(k)'
    <3>1. Len(emitted'[k]) = 1
      BY <1>5
    <3>. QED  BY <1>5, <3>1, Numbers DEF Emissions, Most
  <2>2. Taken(k)' = 0
    <3>1. Len(emitted'[k]) = 1 /\ Len(inbox'[k]) = 1 /\ Closed(k)' = 0
      BY <1>5 DEF Closed
    <3>. QED  BY <3>1 DEF Taken
  <2>3. Queue(k)'
    <3>1. Len(emitted'[k]) = 1 /\ emitted'[k][1] = "other" /\ inbox'[k][1] = event
      BY <1>5
    <3>2. \A m \in 1..(1 - 0) : m = 1 /\ 0 + m = 1
      OBVIOUS
    <3>. QED  BY <1>4, <1>5, <2>2, <3>1, <3>2 DEF Queue
  <2>4. Counting(k, N)'
    <3>1. k - 1 \in 0..MaxExecutions /\ \A j \in Execution : j > k - 1 => j = k \/ k < j
      BY Numbers
    <3>2. \A j \in Execution : j > k - 1 => exec[j] = "unborn"
      BY <1>1, <3>1 DEF LogHolds, InTurn
    <3>3. N <= (k - 1) * Most
      BY <3>1, <3>2 DEF LogHolds, Fits
    <3>4. \A i \in 0..(N - 1) : At(i).by # k
      BY <1>1 DEF LogHolds, InRuns
    <3>. QED  BY <1>1, <1>2, <1>9, <2>2, <3>3, <3>4 DEF Counting, Most
  <2>. QED  BY <1>5, <2>1, <2>3, <2>4 DEF Writes
<1>13. \A j \in Execution : Writes(j, N)'
  <2>1. ASSUME NEW j \in Execution, j # k  PROVE Writes(j, N)'
    BY <1>1, <1>6, <2>1, WritesStay DEF LogHolds
  <2>. QED  BY <1>12, <2>1
<1>. QED  BY <1>7, <1>8, <1>9, <1>10, <1>11, <1>13 DEF LogHolds

-----------------------------------------------------------------------------
(* The writer.                                                             *)

\* A step of a writer that leaves the chunks.
LEMMA WriterMoves ==
  ASSUME NEW N \in Nat, LogHolds(N), LogTypeOK', NEW k \in Execution, writer[k] \in WriterAlive,
         UNCHANGED <<chunks, exec, emitted>>,
         \A j \in Execution : j # k =>
           /\ inbox'[j] = inbox[j] /\ writer'[j] = writer[j] /\ seq'[j] = seq[j]
           /\ pending'[j] = pending[j] /\ loaded'[j] = loaded[j],
         writer'[k] \notin {"unborn", "counting"},
         writer'[k] \in WriterAlive => Queue(k)' /\ Held(k, N)',
         writer'[k] = "ended" => IsWhole(k, N)'
  PROVE  LogHolds(N)'
<1>1. Emissions(k) /\ writer[k] # "unborn"
  BY DEF LogHolds, Writes, WriterAlive
<1>2. Emissions(k)'
  BY <1>1 DEF Emissions, Most
<1>3. Writes(k, N)'
  BY <1>2 DEF Writes, WriterAlive
<1>4. Alive(k)
  BY DEF Alive
<1>. QED  BY <1>3, <1>4, OneMoves

\* A queue the writer has not touched.
LEMMA QueueStays ==
  ASSUME NEW k \in Execution, Queue(k), UNCHANGED <<exec, emitted>>, inbox'[k] = inbox[k]
  PROVE  Queue(k)' /\ Taken(k)' = Taken(k)
<1>1. Taken(k)' = Taken(k)
  BY DEF Taken, Closed
<1>. QED  BY <1>1 DEF Queue

\* What the writer of a step that counts, flushes, loads or numbers finds.
LEMMA AtHand ==
  ASSUME NEW N \in Nat, LogHolds(N), NEW k \in Execution
  PROVE  /\ LogTypeOK /\ InRoom(N) /\ Packed(N)
         /\ inbox[k] \in Seq(Event \cup {Stop}) /\ Len(inbox[k]) \in Nat
         /\ emitted[k] \in Seq(Kinds) /\ Len(emitted[k]) \in Nat
         /\ Len(emitted[k]) <= Most
         /\ pending[k] \in Seq(Stored) /\ Len(pending[k]) \in Nat
         /\ loaded[k] \in Seq(Stored) /\ seq[k] \in Nat
         /\ writer[k] \in WriterAlive => Queue(k)
         /\ writer[k] \in {"waiting", "loading", "saving"} => Held(k, N) /\ Queue(k)
  BY HasRoom, LenProperties DEF LogHolds, LogTypeOK, Writes, Emissions, WriterAlive

\* Where the numbering goes on from.
LEMMA CountEventsStep ==
  ASSUME NEW N \in Nat, LogHolds(N), NEW k \in Execution, CountEvents(k)  PROVE LogHolds(N)'
<1>1. /\ writer[k] = "counting" /\ seq' = [seq EXCEPT ![k] = N]
      /\ writer' = [writer EXCEPT ![k] = "waiting"]
      /\ UNCHANGED <<chunks, exec, emitted, inbox, pending, loaded>>
  <2>1. EventCount = N
    BY AtHand, PackedIsCounted
  <2>. QED  BY <2>1 DEF CountEvents, executorVars
<1>2. /\ Queue(k) /\ Counting(k, N) /\ LogTypeOK
  BY <1>1 DEF LogHolds, Writes, WriterAlive
<1>3. /\ seq'[k] = N /\ writer'[k] = "waiting" /\ LogTypeOK'
      /\ \A j \in Execution : j # k => writer'[j] = writer[j] /\ seq'[j] = seq[j]
  BY <1>1, <1>2 DEF LogTypeOK, Places, WriterAlive
<1>4. Queue(k)' /\ Taken(k)' = Taken(k)
  BY <1>1, <1>2, QueueStays
<1>5. Held(k, N)'
  <2>1. /\ Taken(k)' = 0 /\ pending'[k] = <<>> /\ Len(pending'[k]) = 0
        /\ Taken(k)' - Len(pending'[k]) = 0 /\ N - (Taken(k)' - Len(pending'[k])) = N
        /\ N + Len(pending'[k]) = N
    <3>1. Taken(k)' = 0 /\ pending'[k] = <<>>
      <4>1. Taken(k) = 0 /\ pending[k] = <<>>
        BY <1>2 DEF Counting
      <4>2. Taken(k)' = 0
        BY <1>4, <4>1
      <4>3. pending'[k] = <<>>
        BY <1>1, <4>1
      <4>. QED  BY <4>2, <4>3
    <3>2. Len(pending'[k]) = 0
      BY <3>1
    <3>3. \A t, held : t = 0 /\ held = 0 =>
            t - held = 0 /\ N - (t - held) = N /\ N + held = N
      OBVIOUS
    <3>. QED  BY <3>1, <3>2, <3>3, Zenon
  <2>2. \A i \in 0..(N - 1) : i < N /\ At(i)'.by # k
    BY <1>1, <1>2 DEF Counting, At, ChunkOf
  <2>3. N <= (k - 1) * Most
    BY <1>2 DEF Counting
  <2>4. \A m \in 1..Len(pending'[k]) : FALSE
    BY <2>1
  <2>. QED  BY <1>3, <2>1, <2>2, <2>3, <2>4 DEF Held, Most
<1>6. writer[k] \in WriterAlive
  BY <1>1 DEF WriterAlive
<1>. QED  BY <1>1, <1>3, <1>4, <1>5, <1>6, WriterMoves

\* The batch is to be flushed.
LEMMA FlushStep ==
  ASSUME NEW N \in Nat, LogHolds(N), NEW k \in Execution, FlushWhatThereIs(k)  PROVE LogHolds(N)'
<1>1. /\ writer[k] = "waiting" /\ pending[k] # <<>> /\ writer[k] \in WriterAlive
      /\ writer' = [writer EXCEPT ![k] = "loading"]
      /\ UNCHANGED <<chunks, exec, emitted, inbox, seq, pending, loaded>>
  BY DEF FlushWhatThereIs, executorVars, WriterAlive
<1>2. Queue(k) /\ Held(k, N) /\ LogTypeOK
  BY <1>1, AtHand
<1>3. /\ writer'[k] = "loading" /\ LogTypeOK'
      /\ \A j \in Execution : j # k => writer'[j] = writer[j]
  BY <1>1, <1>2 DEF LogTypeOK, Places, WriterAlive
<1>4. Queue(k)' /\ Taken(k)' = Taken(k)
  BY <1>1, <1>2, QueueStays
<1>5. \A i : At(i)' = At(i)
  BY <1>1 DEF At, ChunkOf
<1>6. Held(k, N)'
  BY <1>1, <1>2, <1>3, <1>4, <1>5 DEF Held
<1>. QED  BY <1>1, <1>3, <1>4, <1>6, WriterMoves

\* The chunk to extend is the one where number N goes.
LEMMA LoadChunkStep ==
  ASSUME NEW N \in Nat, LogHolds(N), NEW k \in Execution, LoadChunk(k)  PROVE LogHolds(N)'
<1>1. /\ writer[k] = "loading" /\ writer[k] \in WriterAlive
      /\ writer' = [writer EXCEPT ![k] = "saving"]
      /\ loaded' = [loaded EXCEPT ![k] = Chunk(ChunkOf(pending[k][1].seq))]
      /\ UNCHANGED <<chunks, exec, emitted, inbox, seq, pending>>
  BY DEF LoadChunk, executorVars, WriterAlive
<1>2. Queue(k) /\ Held(k, N) /\ LogTypeOK /\ ChunkOf(N) \in ChunkIndex
  BY <1>1, AtHand DEF InRoom
<1>3. pending[k] # <<>> /\ pending[k][1].seq = N
  <2>1. pending[k] # <<>> /\ Len(pending[k]) >= 1
    BY <1>1, <1>2, AtHand, EmptySeq DEF Held
  <2>2. 1 \in 1..Len(pending[k]) /\ N + 1 - 1 = N
    BY <2>1, AtHand
  <2>3. \A m \in 1..Len(pending[k]) :
          \E n, kind : pending[k][m] = [by |-> k, n |-> n, kind |-> kind, seq |-> N + m - 1]
    BY <1>2 DEF Held
  <2>4. PICK n, kind : pending[k][1] = [by |-> k, n |-> n, kind |-> kind, seq |-> N + 1 - 1]
    BY <2>2, <2>3
  <2>. QED  BY <2>1, <2>2, <2>4
<1>4. Chunk(ChunkOf(pending[k][1].seq)) = chunks[ChunkOf(N)] /\ chunks[ChunkOf(N)] \in Seq(Stored)
  BY <1>2, <1>3 DEF Chunk, LogTypeOK
<1>5. /\ writer'[k] = "saving" /\ loaded'[k] = chunks[ChunkOf(N)] /\ LogTypeOK'
      /\ \A j \in Execution : j # k => writer'[j] = writer[j] /\ loaded'[j] = loaded[j]
  BY <1>1, <1>2, <1>4 DEF LogTypeOK, Places, WriterAlive
<1>6. Queue(k)' /\ Taken(k)' = Taken(k)
  BY <1>1, <1>2, QueueStays
<1>7. \A i : At(i)' = At(i)
  BY <1>1 DEF At, ChunkOf
<1>8. Held(k, N)'
  BY <1>1, <1>2, <1>3, <1>5, <1>6, <1>7 DEF Held, ChunkOf
<1>. QED  BY <1>1, <1>5, <1>6, <1>8, WriterMoves

\* The store refuses the write.
LEMMA FailToSaveStep ==
  ASSUME NEW N \in Nat, LogHolds(N), NEW k \in Execution, FailToSave(k)  PROVE LogHolds(N)'
<1>1. /\ writer[k] \in WriterAlive /\ writer' = [writer EXCEPT ![k] = "dead"]
      /\ pending' = [pending EXCEPT ![k] = <<>>] /\ loaded' = [loaded EXCEPT ![k] = <<>>]
      /\ UNCHANGED <<chunks, exec, emitted, inbox, seq>>
  BY DEF FailToSave, executorVars, WriterAlive
<1>2. /\ writer'[k] = "dead" /\ LogTypeOK'
      /\ \A j \in Execution : j # k =>
           writer'[j] = writer[j] /\ pending'[j] = pending[j] /\ loaded'[j] = loaded[j]
  BY <1>1, AtHand, EmptySeq DEF LogTypeOK, Places, WriterAlive
<1>3. "dead" \notin WriterAlive
  BY DEF WriterAlive
<1>. QED  BY <1>1, <1>2, <1>3, WriterMoves

\* The sentinel is at the head of the queue when every event has been taken.
LEMMA StopIsLast ==
  ASSUME NEW N \in Nat, LogHolds(N), NEW k \in Execution, Queue(k), inbox[k] # <<>>
  PROVE  /\ Head(inbox[k]) = Stop => Taken(k) = Len(emitted[k]) /\ exec[k] = "ended"
         /\ Head(inbox[k]) # Stop =>
              /\ Taken(k) < Len(emitted[k])
              /\ Head(inbox[k]) = [by |-> k, n |-> Taken(k) + 1, kind |-> emitted[k][Taken(k) + 1]]
<1>1. /\ Len(inbox[k]) \in Nat /\ Len(inbox[k]) >= 1 /\ Head(inbox[k]) = inbox[k][1]
      /\ Len(emitted[k]) \in Nat /\ Len(emitted[k]) <= Most /\ emitted[k] \in Seq(Kinds)
      /\ Taken(k) \in Nat /\ Taken(k) <= Len(emitted[k])
  BY AtHand, EmptySeq, HeadTailProperties DEF Queue
<1>2. Closed(k) \in {0, 1} /\ (Closed(k) = 1 <=> exec[k] = "ended")
      /\ Len(inbox[k]) = Len(emitted[k]) - Taken(k) + Closed(k)
  <2>1. Closed(k) \in {0, 1} /\ (Closed(k) = 1 <=> exec[k] = "ended")
    BY DEF Closed
  <2>2. Closed(k) \in Nat /\ Taken(k) = Len(emitted[k]) + Closed(k) - Len(inbox[k])
    BY <2>1 DEF Taken
  <2>3. ASSUME NEW a \in Nat, NEW b \in Nat, NEW c \in Nat, NEW t \in Nat, t = a + b - c
        PROVE  c = a - t + b
    BY <2>3
  <2>. QED  BY <1>1, <2>1, <2>2, <2>3
<1>3. CASE Taken(k) < Len(emitted[k])
  <2>1. 1 \in 1..(Len(emitted[k]) - Taken(k)) /\ Taken(k) + 1 \in 1..Most
        /\ Taken(k) + 1 \in 1..Len(emitted[k])
    BY <1>1, <1>3, Numbers
  <2>2. inbox[k][1] = [by |-> k, n |-> Taken(k) + 1, kind |-> emitted[k][Taken(k) + 1]]
    BY <2>1 DEF Queue
  <2>3. emitted[k][Taken(k) + 1] \in Kinds
    BY <1>1, <2>1, ElementOfSeq
  <2>4. inbox[k][1] # Stop
    BY <2>1, <2>2, <2>3, EventType
  <2>. QED  BY <1>1, <1>3, <2>2, <2>4
<1>4. CASE Taken(k) = Len(emitted[k])
  <2>1. Closed(k) = 1 /\ Len(inbox[k]) = 1
    BY <1>1, <1>2, <1>4
  <2>2. inbox[k][1] = Stop /\ exec[k] = "ended"
    BY <1>2, <2>1 DEF Queue
  <2>. QED  BY <1>1, <1>4, <2>2
<1>. QED  BY <1>1, <1>3, <1>4

\* The writer ends with nothing left in its queue or its batch: the log is whole.
LEMMA EndWriterStep ==
  ASSUME NEW N \in Nat, LogHolds(N), NEW k \in Execution, EndWriter(k)  PROVE LogHolds(N)'
<1>1. /\ writer[k] = "waiting" /\ writer[k] \in WriterAlive /\ pending[k] = <<>>
      /\ inbox[k] # <<>> /\ Head(inbox[k]) = Stop
      /\ inbox' = [inbox EXCEPT ![k] = <<>>] /\ writer' = [writer EXCEPT ![k] = "ended"]
      /\ UNCHANGED <<chunks, exec, emitted, seq, pending, loaded>>
  BY DEF EndWriter, executorVars, WriterAlive
<1>2. /\ Queue(k) /\ Held(k, N) /\ LogTypeOK /\ Len(emitted[k]) \in Nat
      /\ emitted[k] \in Seq(Kinds)
  BY <1>1, AtHand
<1>3. Taken(k) = Len(emitted[k]) /\ exec[k] = "ended"
  BY <1>1, <1>2, StopIsLast
<1>4. /\ writer'[k] = "ended" /\ LogTypeOK'
      /\ \A j \in Execution : j # k => writer'[j] = writer[j] /\ inbox'[j] = inbox[j]
  BY <1>1, <1>2, EmptySeq DEF LogTypeOK, Places, WriterAlive
<1> DEFINE len == Len(emitted[k])
           base == N - len
<1>5. /\ base \in Nat /\ len \in Nat
      /\ \A i \in 0..(N - 1) : ~ (i < base) =>
           At(i) = [by |-> k, n |-> i - base + 1, kind |-> emitted[k][i - base + 1], seq |-> i]
  <2>1. Len(pending[k]) = 0 /\ Taken(k) - Len(pending[k]) = len
    BY <1>1, <1>2, <1>3
  <2>. QED  BY <1>2, <2>1 DEF Held
<1>6. IsWhole(k, N)'
  <2>1. ASSUME NEW n \in DOMAIN emitted[k]
        PROVE  \E i \in 0..(N - 1) : At(i).by = k /\ At(i).n = n /\ At(i).kind = emitted[k][n]
    <3>1. n \in 1..len
      BY <1>2, LenProperties
    <3>. HIDE DEF len
    <3>2. /\ base + n - 1 \in 0..(N - 1) /\ ~ (base + n - 1 < base) /\ (base + n - 1) - base + 1 = n
      BY <1>5, <3>1
    <3>3. At(base + n - 1) = [by |-> k, n |-> n, kind |-> emitted[k][n], seq |-> base + n - 1]
      BY <1>5, <3>2
    <3>. QED  BY <3>2, <3>3
  <2>. QED  BY <1>1, <1>3, <2>1 DEF IsWhole, At, ChunkOf
<1>7. "ended" \notin WriterAlive
  BY DEF WriterAlive
<1>. QED  BY <1>1, <1>4, <1>6, <1>7, WriterMoves

\* The event at the head of the queue is numbered and joins the batch.
LEMMA TakeStep ==
  ASSUME NEW N \in Nat, LogHolds(N), NEW k \in Execution, Take(k)  PROVE LogHolds(N)'
<1> DEFINE taken == Taken(k)
           old == inbox[k]
           held == Len(pending[k])
           event == [by |-> k, n |-> taken + 1, kind |-> emitted[k][taken + 1]]
           stamped == [by |-> k, n |-> taken + 1, kind |-> emitted[k][taken + 1], seq |-> seq[k]]
<1>1. /\ writer[k] = "waiting" /\ writer[k] \in WriterAlive /\ old # <<>> /\ Head(old) # Stop
      /\ UNCHANGED <<chunks, exec, emitted, loaded>>
  BY DEF Take, executorVars, WriterAlive
<1>2. /\ Queue(k) /\ Held(k, N) /\ LogTypeOK /\ Len(emitted[k]) \in Nat /\ emitted[k] \in Seq(Kinds)
      /\ Len(emitted[k]) <= Most /\ old \in Seq(Event \cup {Stop}) /\ Len(old) \in Nat
      /\ pending[k] \in Seq(Stored) /\ held \in Nat /\ seq[k] \in Nat
  BY <1>1, AtHand
<1>3. taken < Len(emitted[k]) /\ Head(old) = event /\ taken \in Nat
  <2>1. taken < Len(emitted[k]) /\ Head(old) = event
    BY <1>1, <1>2, StopIsLast
  <2>. QED  BY <1>2, <2>1 DEF Queue
<1>4. taken + 1 \in 1..Len(emitted[k]) /\ taken + 1 \in 1..Most /\ emitted[k][taken + 1] \in Kinds
  <2>1. taken + 1 \in 1..Len(emitted[k]) /\ taken + 1 \in 1..Most
    BY <1>2, <1>3, Numbers
  <2>. QED  BY <1>2, <2>1, ElementOfSeq
<1>5. stamped \in Stored
  BY <1>2, <1>4 DEF Stored, Most
<1>6. /\ pending' = [pending EXCEPT ![k] = Append(@, stamped)]
      /\ inbox' = [inbox EXCEPT ![k] = Tail(@)]
      /\ seq' = [seq EXCEPT ![k] = @ + 1]
      /\ \E place \in {"loading", "waiting"} : writer' = [writer EXCEPT ![k] = place]
  <2>1. stamped = [by |-> Head(inbox[k]).by, n |-> Head(inbox[k]).n, kind |-> Head(inbox[k]).kind,
                   seq |-> seq[k]]
    BY <1>3
  <2>. HIDE DEF stamped
  <2>2. /\ pending' = [pending EXCEPT ![k] = Append(@, stamped)]
        /\ inbox' = [inbox EXCEPT ![k] = Tail(@)]
        /\ seq' = [seq EXCEPT ![k] = @ + 1]
        /\ writer' = [writer EXCEPT ![k] =
                         IF Len(pending'[k]) >= ChunkSize THEN "loading" ELSE "waiting"]
    BY <2>1, Zenon DEF Take
  <2>. QED  BY <2>2
<1>7. /\ Tail(old) \in Seq(Event \cup {Stop}) /\ Len(Tail(old)) = Len(old) - 1 /\ Len(old) >= 1
      /\ \A m \in 1..(Len(old) - 1) : Tail(old)[m] = old[m + 1]
  <2>1. Len(old) >= 1
    BY <1>1, <1>2, EmptySeq
  <2>2. Tail(old) \in Seq(Event \cup {Stop}) /\ Len(Tail(old)) = Len(old) - 1
    BY <1>1, <1>2, HeadTailProperties
  <2>3. \A m \in 1..(Len(old) - 1) : Tail(old)[m] = old[m + 1]
    BY <1>1, <1>2, <2>2, HeadTailProperties
  <2>. QED  BY <2>1, <2>2, <2>3
<1>8. /\ Append(pending[k], stamped) \in Seq(Stored) /\ Len(Append(pending[k], stamped)) = held + 1
      /\ \A m \in 1..held : Append(pending[k], stamped)[m] = pending[k][m]
      /\ Append(pending[k], stamped)[held + 1] = stamped
  BY <1>2, <1>5, AppendProperties
<1>9. /\ pending'[k] = Append(pending[k], stamped) /\ inbox'[k] = Tail(old) /\ seq'[k] = seq[k] + 1
      /\ writer'[k] \in {"loading", "waiting"} /\ LogTypeOK'
      /\ \A j \in Execution : j # k =>
           /\ inbox'[j] = inbox[j] /\ writer'[j] = writer[j]
           /\ seq'[j] = seq[j] /\ pending'[j] = pending[j]
  <2>. HIDE DEF stamped
  <2>1. /\ inbox \in [Execution -> Seq(Event \cup {Stop})] /\ writer \in [Execution -> Places]
        /\ seq \in [Execution -> Nat] /\ pending \in [Execution -> Seq(Stored)]
    BY <1>2 DEF LogTypeOK
  <2>2. /\ inbox' \in [Execution -> Seq(Event \cup {Stop})] /\ inbox'[k] = Tail(old)
        /\ \A j \in Execution : j # k => inbox'[j] = inbox[j]
    BY <1>6, <1>7, <2>1
  <2>3. /\ pending' \in [Execution -> Seq(Stored)] /\ pending'[k] = Append(pending[k], stamped)
        /\ \A j \in Execution : j # k => pending'[j] = pending[j]
    BY <1>6, <1>8, <2>1
  <2>4. /\ seq' \in [Execution -> Nat] /\ seq'[k] = seq[k] + 1
        /\ \A j \in Execution : j # k => seq'[j] = seq[j]
    BY <1>6, <2>1
  <2>5. /\ writer' \in [Execution -> Places] /\ writer'[k] \in {"loading", "waiting"}
        /\ \A j \in Execution : j # k => writer'[j] = writer[j]
    BY <1>6, <2>1 DEF Places, WriterAlive
  <2>. QED  BY <1>1, <1>2, <2>2, <2>3, <2>4, <2>5 DEF LogTypeOK
<1>10. Closed(k)' = Closed(k) /\ Closed(k) \in {0, 1} /\ (Closed(k) = 1 <=> exec[k] = "ended")
       /\ Len(old) = Len(emitted[k]) - taken + Closed(k)
  <2>1. Closed(k)' = Closed(k) /\ Closed(k) \in {0, 1} /\ (Closed(k) = 1 <=> exec[k] = "ended")
    BY <1>1 DEF Closed
  <2>2. taken = Len(emitted[k]) + Closed(k) - Len(old)
    BY DEF Taken
  <2>3. ASSUME NEW a \in Nat, NEW b \in Nat, NEW c \in Nat, NEW t \in Nat, t = a + b - c
        PROVE  c = a - t + b
    BY <2>3
  <2>4. Closed(k) \in Nat
    BY <2>1
  <2>5. Len(old) = Len(emitted[k]) - taken + Closed(k)
    <3>1. Len(emitted[k]) \in Nat /\ Len(old) \in Nat /\ taken \in Nat
      BY <1>2, <1>3
    <3>. HIDE DEF taken, old
    <3>2. \A a, b, c, t \in Nat : t = a + b - c => c = a - t + b
      BY <2>3
    <3>3. Len(emitted[k]) + Closed(k) - Len(old) = taken
      BY <2>2
    <3> DEFINE a == Len(emitted[k])
               b == Closed(k)
               c == Len(old)
    <3>4. a \in Nat /\ b \in Nat /\ c \in Nat /\ taken = a + b - c
      BY <2>4, <3>1, <3>3
    <3>. HIDE DEF a, b, c
    <3>5. c = a - taken + b
      BY <3>1, <3>2, <3>4
    <3>. QED  BY <3>5 DEF a, b, c
  <2>. QED  BY <2>1, <2>5, Zenon
<1>11. Taken(k)' = taken + 1
  <2>1. Len(inbox'[k]) = Len(old) - 1 /\ emitted'[k] = emitted[k]
    BY <1>1, <1>7, <1>9
  <2>2. Taken(k)' = Len(emitted[k]) + Closed(k) - (Len(old) - 1)
    BY <1>10, <2>1 DEF Taken
  <2>3. ASSUME NEW a \in Nat, NEW b \in Nat, NEW c \in Nat, NEW t \in Nat, c = a - t + b, t < a
        PROVE  a + b - (c - 1) = t + 1
    BY <2>3
  <2>4. Closed(k) \in Nat
    BY <1>10
  <2>. HIDE DEF taken, old
  <2>. QED  BY <1>2, <1>3, <1>10, <2>2, <2>3, <2>4
<1>12. Queue(k)'
  <2> DEFINE left == Len(emitted[k]) - (taken + 1)
  <2>1. taken + 1 \in 0..Len(emitted[k]) /\ left \in Nat
    BY <1>2, <1>3
  <2>2. ASSUME NEW m \in 1..left
        PROVE  inbox'[k][m] = [by |-> k, n |-> (taken + 1) + m, kind |-> emitted[k][(taken + 1) + m]]
    <3>1. /\ m + 1 \in 1..(Len(emitted[k]) - taken) /\ m \in 1..(Len(old) - 1)
          /\ taken + (m + 1) = (taken + 1) + m
      <4>. HIDE DEF taken, old
      <4>. QED  BY <1>2, <1>3, <1>10
    <3>2. old[m + 1] = [by |-> k, n |-> taken + (m + 1), kind |-> emitted[k][taken + (m + 1)]]
      BY <1>2, <3>1 DEF Queue
    <3>. QED  BY <1>7, <1>9, <3>1, <3>2
  <2>3. ASSUME exec[k] = "ended"  PROVE inbox'[k][Len(inbox'[k])] = Stop
    <3>1. Len(inbox'[k]) = Len(old) - 1
      BY <1>7, <1>9
    <3>2. Len(old) - 1 \in 1..(Len(old) - 1) /\ (Len(old) - 1) + 1 = Len(old)
      <4>. HIDE DEF taken, old
      <4>. QED  BY <1>2, <1>3, <1>10, <2>3
    <3>3. Tail(old)[Len(old) - 1] = old[Len(old)]
      BY <1>7, <3>2
    <3>4. old[Len(old)] = Stop
      BY <1>2, <2>3 DEF Queue
    <3>. QED  BY <1>9, <3>1, <3>3, <3>4
  <2>4. emitted' = emitted /\ exec' = exec
    BY <1>1
  <2>. HIDE DEF taken, old, event, stamped
  <2>. QED  BY <1>11, <2>1, <2>2, <2>3, <2>4 DEF Queue
<1>13. Held(k, N)'
  <2> DEFINE before == taken - held
             base == N - before
  <2>1. /\ before \in Nat /\ base \in Nat /\ base <= (k - 1) * Most /\ seq[k] = N + held
        /\ \A m \in 1..held :
             pending[k][m] = [by |-> k, n |-> before + m, kind |-> emitted[k][before + m], seq |-> N + m - 1]
        /\ \A i \in 0..(N - 1) :
             IF i < base THEN At(i).by # k
             ELSE At(i) = [by |-> k, n |-> i - base + 1, kind |-> emitted[k][i - base + 1], seq |-> i]
    BY <1>2 DEF Held
  <2>2. Len(pending'[k]) = held + 1 /\ Taken(k)' - Len(pending'[k]) = before
    <3>1. Len(pending'[k]) = held + 1
      BY <1>8, <1>9
    <3>2. (taken + 1) - (held + 1) = taken - held
      <4>. HIDE DEF taken, held
      <4>. QED  BY <1>2, <1>3
    <3>. QED  BY <1>11, <3>1, <3>2, Zenon
  <2>3. before + (held + 1) = taken + 1 /\ N + (held + 1) - 1 = N + held
    <3>. HIDE DEF taken, held
    <3>. QED  BY <1>2, <1>3
  <2>4. ASSUME NEW m \in 1..(held + 1)
        PROVE  pending'[k][m] = [by |-> k, n |-> before + m, kind |-> emitted[k][before + m], seq |-> N + m - 1]
    <3>1. m \in 1..held \/ m = held + 1
      BY <1>2
    <3>2. CASE m \in 1..held
      BY <1>8, <1>9, <2>1, <3>2
    <3>3. CASE m = held + 1
      <4>1. pending'[k][m] = stamped
        BY <1>8, <1>9, <3>3
      <4>. QED  BY <2>1, <2>3, <3>3, <4>1, Zenon
    <3>. QED  BY <3>1, <3>2, <3>3
  <2>5. seq'[k] = N + (held + 1)
    <3>. HIDE DEF held
    <3>. QED  BY <1>2, <1>9, <2>1
  <2>6. \A i : At(i)' = At(i)
    BY <1>1 DEF At, ChunkOf
  <2>7. pending'[k] # <<>> /\ writer'[k] # "saving" /\ emitted' = emitted
    <3>1. pending'[k] # <<>>
      <4>1. Len(pending'[k]) # 0
        <5>. HIDE DEF held, taken, before
        <5>. QED  BY <1>2, <2>2
      <4>. QED  BY <4>1
    <3>. QED  BY <1>1, <1>9, <3>1
  <2>. HIDE DEF before, base, taken, old, event, stamped, held
  <2>8. N - before = base
    BY DEF base
  <2>9. Held(k, N)' <=>
          /\ before \in Nat /\ base \in Nat /\ base <= (k - 1) * Most
          /\ seq'[k] = N + (held + 1)
          /\ \A m \in 1..(held + 1) :
               pending'[k][m] = [by |-> k, n |-> before + m, kind |-> emitted'[k][before + m], seq |-> N + m - 1]
          /\ \A i \in 0..(N - 1) :
               IF i < base THEN At(i)'.by # k
               ELSE At(i)' = [by |-> k, n |-> i - base + 1, kind |-> emitted'[k][i - base + 1], seq |-> i]
          /\ writer'[k] \in {"loading", "saving"} => pending'[k] # <<>>
          /\ writer'[k] = "saving" => loaded'[k] = chunks'[ChunkOf(N)]
    BY <2>2, <2>8, Zenon DEF Held, Most, ChunkOf
  <2>. QED  BY <2>1, <2>4, <2>5, <2>6, <2>7, <2>9, Zenon
<1>14. writer'[k] \notin {"unborn", "counting", "ended"}
  BY <1>9
<1>. QED  BY <1>1, <1>9, <1>12, <1>13, <1>14, WriterMoves

\* What a writer that saves has in hand (held events, of which `size` are saved, the first
\* of them its execution's before + 1, which numbers from base), and what the log is then.
SavesGroup(k, N, held, before, base, size) ==
  /\ held = Len(pending[k]) /\ before = Taken(k) - held /\ base = N - before
  /\ size \in 1..held
  /\ pending'[k] \in Seq(Stored) /\ Len(pending'[k]) = held - size
  /\ \A m \in 1..(held - size) :
       pending'[k][m] = [by |-> k, n |-> before + (size + m),
                         kind |-> emitted[k][before + (size + m)], seq |-> N + (size + m) - 1]
  /\ chunks' \in [ChunkIndex -> Seq(Stored)] /\ Packed(N + size)'
  /\ \A i \in 0..(N - 1) : At(i)' = At(i)
  /\ \A i \in 0..(N + size - 1) :
       IF i < base THEN At(i)'.by # k
       ELSE At(i)' = [by |-> k, n |-> i - base + 1, kind |-> emitted[k][i - base + 1], seq |-> i]

LEMMA GroupIsNext ==
  ASSUME NEW N \in Nat, LogHolds(N), NEW k \in Execution, SaveChunk(k)
  PROVE  \E held, before, base, size \in Nat : SavesGroup(k, N, held, before, base, size)
<1>1. /\ writer[k] = "saving"
      /\ chunks' = [chunks EXCEPT ![ChunkOf(pending[k][1].seq)] = loaded[k] \o FirstGroup(pending[k])]
      /\ pending' = [pending EXCEPT ![k] = RestOf(@)]
  BY DEF SaveChunk
<1>2. /\ Held(k, N) /\ LogTypeOK /\ Packed(N) /\ InRoom(N)
      /\ pending[k] \in Seq(Stored) /\ Len(pending[k]) \in Nat
  BY <1>1, AtHand
<1>3. PICK held \in Nat, before \in Nat, base \in Nat :
        /\ held = Len(pending[k]) /\ before = Taken(k) - held /\ base = N - before
        /\ \A m \in 1..held :
             pending[k][m] = [by |-> k, n |-> before + m, kind |-> emitted[k][before + m], seq |-> N + m - 1]
        /\ \A i \in 0..(N - 1) :
             IF i < base THEN At(i).by # k
             ELSE At(i) = [by |-> k, n |-> i - base + 1, kind |-> emitted[k][i - base + 1], seq |-> i]
  BY <1>2, Zenon DEF Held
<1>4. ASSUME NEW m \in 1..Len(pending[k])  PROVE pending[k][m].seq = N + m - 1
  <2>1. m \in 1..held
    BY <1>3
  <2>2. pending[k][m] = [by |-> k, n |-> before + m, kind |-> emitted[k][before + m], seq |-> N + m - 1]
    BY <1>3, <2>1, Zenon
  <2>3. PICK n, kind : pending[k][m] = [by |-> k, n |-> n, kind |-> kind, seq |-> N + m - 1]
    BY <2>2, Zenon
  <2>. QED  BY <2>3
<1>5. pending[k] # <<>> /\ loaded[k] = chunks[ChunkOf(N)]
  BY <1>1, <1>2 DEF Held
<1>6. PICK size \in 1..held, group \in Seq(Stored) :
        /\ (N % ChunkSize) + size <= ChunkSize
        /\ group = FirstGroup(pending[k]) /\ Len(group) = size
        /\ \A m \in 1..size : group[m] = pending[k][m]
        /\ RestOf(pending[k]) \in Seq(Stored) /\ Len(RestOf(pending[k])) = held - size
        /\ \A m \in 1..(held - size) : RestOf(pending[k])[m] = pending[k][size + m]
  BY <1>2, <1>3, <1>4, <1>5, FirstGroupFits
<1>7. pending'[k] = RestOf(pending[k])
  BY <1>1, <1>2 DEF LogTypeOK
<1>8. pending[k][1].seq = N
  <2>1. 1 \in 1..held /\ N + 1 - 1 = N
    BY <1>6
  <2>2. pending[k][1].seq = N + 1 - 1
    BY <1>3, <1>4, <2>1
  <2>. QED  BY <2>1, <2>2
<1>9. chunks' = [chunks EXCEPT ![ChunkOf(N)] = chunks[ChunkOf(N)] \o group]
  BY <1>1, <1>5, <1>6, <1>8
<1>10. /\ chunks' \in [ChunkIndex -> Seq(Stored)]
       /\ Packed(N + Len(group))'
       /\ \A i \in 0..(N - 1) : At(i)' = At(i)
       /\ \A m \in 1..Len(group) : At(N + m - 1)' = group[m]
  <2>1. Len(group) >= 1 /\ (N % ChunkSize) + Len(group) <= ChunkSize
    BY <1>6
  <2>. QED  BY <1>2, <1>9, <2>1, Saved
<1>11. ASSUME NEW i \in 0..(N + size - 1)
       PROVE  IF i < base THEN At(i)'.by # k
              ELSE At(i)' = [by |-> k, n |-> i - base + 1, kind |-> emitted[k][i - base + 1], seq |-> i]
  <2>1. CASE i < N
    <3>1. i \in 0..(N - 1)
      BY <2>1
    <3>. QED  BY <1>3, <1>10, <3>1, Zenon
  <2>2. CASE ~ (i < N)
    <3>1. PICK m \in 1..size : m = i - N + 1
      BY <1>6, <2>2
    <3>2. N + m - 1 = i /\ m \in 1..held
      BY <1>6, <3>1
    <3>3. At(i)' = group[m]
      <4>1. At(N + m - 1)' = group[m]
        BY <1>6, <1>10, <3>1, Zenon
      <4>. QED  BY <3>2, <4>1, Zenon
    <3>4. group[m] = [by |-> k, n |-> before + m, kind |-> emitted[k][before + m], seq |-> N + m - 1]
      BY <1>3, <1>6, <3>1, <3>2, Zenon
    <3>5. before + m = i - base + 1 /\ ~ (i < base)
      <4>1. ASSUME NEW t \in Int, before = t - held, base = N - before
            PROVE  before + m = i - base + 1 /\ ~ (i < base)
        BY <2>2, <3>1, <4>1
      <4>2. Taken(k) \in Int
        BY <1>1, AtHand DEF Queue, WriterAlive
      <4>. QED  BY <1>3, <4>1, <4>2
    <3>. QED  BY <3>2, <3>3, <3>4, <3>5, Zenon
  <2>. QED  BY <2>1, <2>2, Zenon
<1>12. ASSUME NEW m \in 1..(held - size)
       PROVE  pending'[k][m] = [by |-> k, n |-> before + (size + m),
                                kind |-> emitted[k][before + (size + m)], seq |-> N + (size + m) - 1]
  <2>1. size + m \in 1..held
    BY <1>6
  <2>2. pending'[k][m] = pending[k][size + m]
    BY <1>6, <1>7
  <2>. QED  BY <1>3, <2>1, <2>2, Zenon
<1>13. size \in Nat /\ Packed(N + size)'
  BY <1>6, <1>10
<1>14. pending'[k] \in Seq(Stored) /\ Len(pending'[k]) = held - size
  BY <1>6, <1>7
<1>15. held \in Nat /\ before \in Nat /\ base \in Nat
       /\ held = Len(pending[k]) /\ before = Taken(k) - held /\ base = N - before
       /\ size \in 1..held
  BY <1>3
<1>16. SavesGroup(k, N, held, before, base, size)
  BY <1>10, <1>11, <1>12, <1>13, <1>14, <1>15, Zenon DEF SavesGroup
<1>. QED  BY <1>13, <1>15, <1>16

\* What was saved bears its numbers and its place in its execution.
LEMMA SavedInRuns ==
  ASSUME NEW N \in Nat, LogHolds(N), NEW k \in Execution, exec[k] # "unborn", exec' = exec,
         NEW held \in Nat, NEW before \in Nat, NEW base \in Nat, NEW size \in Nat,
         SavesGroup(k, N, held, before, base, size)
  PROVE  InRuns(N + size)'
<1>1. /\ base = N - before
      /\ \A i \in 0..(N - 1) : At(i)' = At(i)
      /\ \A i \in 0..(N + size - 1) :
           IF i < base THEN At(i)'.by # k
           ELSE At(i)' = [by |-> k, n |-> i - base + 1, kind |-> emitted[k][i - base + 1], seq |-> i]
  BY Zenon DEF SavesGroup
<1>2. InRuns(N)
  BY DEF LogHolds
<1>3. \A i \in 0..(N + size - 1) : ~ (i < base) => At(i)'.by = k /\ At(i)'.n = i - base + 1 /\ At(i)'.seq = i
  BY <1>1
<1>4. \A i \in 0..(N + size - 1) : i < base => At(i)'.by # k
  BY <1>1
<1>5. ASSUME NEW i \in 0..(N + size - 1)
      PROVE  /\ At(i)'.seq = i /\ At(i)'.by \in Execution /\ exec'[At(i)'.by] # "unborn"
             /\ At(i)'.n \in Nat /\ At(i)'.n <= i + 1
             /\ \A j \in 0..i : At(j)'.by = At(i)'.by <=> j + At(i)'.n > i
  <2>1. CASE i < N
    <3>1. i \in 0..(N - 1) /\ \A j \in 0..i : j \in 0..(N - 1)
      BY <2>1
    <3>2. At(i)' = At(i) /\ \A j \in 0..i : At(j)' = At(j)
      BY <1>1, <3>1, Zenon
    <3>3. /\ At(i).seq = i /\ At(i).by \in Execution /\ exec[At(i).by] # "unborn"
          /\ At(i).n \in Nat /\ At(i).n <= i + 1
          /\ \A j \in 0..i : At(j).by = At(i).by <=> j + At(i).n > i
      BY <1>2, <3>1, Zenon DEF InRuns
    <3>. QED  BY <3>2, <3>3
  <2>2. CASE ~ (i < N)
    <3>1. ~ (i < base) /\ i - base + 1 \in Nat /\ i - base + 1 <= i + 1
      BY <1>1, <2>2
    <3>2. At(i)'.by = k /\ At(i)'.n = i - base + 1 /\ At(i)'.seq = i
      BY <1>3, <3>1, Zenon
    <3>3. ASSUME NEW j \in 0..i  PROVE At(j)'.by = k <=> j + (i - base + 1) > i
      <4>1. j \in 0..(N + size - 1)
        OBVIOUS
      <4>2. CASE j < base
        <5>1. At(j)'.by # k
          BY <1>4, <4>1, <4>2, Zenon
        <5>2. ~ (j + (i - base + 1) > i)
          BY <4>2
        <5>. QED  BY <5>1, <5>2, Zenon
      <4>3. CASE ~ (j < base)
        <5>1. At(j)'.by = k
          BY <1>3, <4>1, <4>3, Zenon
        <5>2. j + (i - base + 1) > i
          BY <4>3
        <5>. QED  BY <5>1, <5>2, Zenon
      <4>. QED  BY <4>2, <4>3, Zenon
    <3>. QED  BY <3>1, <3>2, <3>3, Zenon
  <2>. QED  BY <2>1, <2>2, Zenon
<1>. QED  BY <1>5 DEF InRuns

\* What was saved is within the share of the executions so far.
LEMMA SavedFits ==
  ASSUME NEW N \in Nat, LogHolds(N), NEW k \in Execution, exec[k] # "unborn", exec' = exec,
         NEW held \in Nat, NEW before \in Nat, NEW base \in Nat, NEW size \in Nat,
         SavesGroup(k, N, held, before, base, size),
         base <= (k - 1) * Most, Taken(k) \in 0..Most
  PROVE  Fits(N + size)'
<1>1. N + size <= base + Most
  <2>1. before = Taken(k) - held /\ base = N - before /\ size <= held
    BY DEF SavesGroup
  <2>2. Most \in Nat /\ Taken(k) \in Nat /\ Taken(k) <= Most
    BY Numbers
  <2>3. N = base + before /\ Taken(k) = before + held
    BY <2>1, <2>2
  <2>. QED  BY <2>1, <2>2, <2>3
<1>2. /\ Most \in Nat /\ k \in Nat /\ k - 1 \in Nat /\ MaxExecutions \in Nat
      /\ (k - 1) * Most \in Nat /\ k * Most = (k - 1) * Most + Most
  <2>1. Most \in Nat /\ k \in Nat /\ k - 1 \in Nat /\ MaxExecutions \in Nat
    BY Numbers
  <2>2. PICK p \in Nat : p = k - 1
    BY <2>1
  <2>3. p * Most \in Nat /\ (p + 1) * Most = p * Most + Most
    BY <2>1
  <2>4. k = p + 1
    BY <2>1, <2>2
  <2>. QED  BY <2>1, <2>2, <2>3, <2>4
<1>3. N + size <= k * Most
  <2> DEFINE share == (k - 1) * Most
  <2>1. share \in Nat /\ base <= share /\ k * Most = share + Most
    BY <1>2
  <2>. HIDE DEF share
  <2>. QED  BY <1>1, <1>2, <2>1
<1>4. ASSUME NEW last \in 0..MaxExecutions, \A j \in Execution : j > last => exec'[j] = "unborn"
      PROVE  N + size <= last * Most
  <2>1. k <= last /\ last \in Nat
    BY <1>2, <1>4
  <2>2. k * Most <= last * Most /\ k * Most \in Nat /\ last * Most \in Nat
    BY <1>2, <2>1, Multiplied
  <2>3. \A a, b \in Nat : N + size <= a /\ a <= b => N + size <= b
    OBVIOUS
  <2>. QED  BY <1>3, <2>2, <2>3, Zenon
<1>. QED  BY <1>4 DEF Fits, Most

\* The chunk is rewritten with the first group of the batch.
LEMMA SaveChunkStep ==
  ASSUME NEW N \in Nat, LogHolds(N), NEW k \in Execution, SaveChunk(k)
  PROVE  \E M \in Nat : M > N /\ LogHolds(M)' /\ \A i \in 0..(N - 1) : At(i)' = At(i)
<1>1. PICK held, before, base, size \in Nat : SavesGroup(k, N, held, before, base, size)
  BY GroupIsNext
<1> DEFINE M == N + size
<1>2. /\ held = Len(pending[k]) /\ before = Taken(k) - held /\ base = N - before
      /\ size \in 1..held
      /\ pending'[k] \in Seq(Stored) /\ Len(pending'[k]) = held - size
      /\ \A m \in 1..(held - size) :
           pending'[k][m] = [by |-> k, n |-> before + (size + m),
                             kind |-> emitted[k][before + (size + m)], seq |-> N + (size + m) - 1]
      /\ chunks' \in [ChunkIndex -> Seq(Stored)] /\ Packed(N + size)'
      /\ \A i \in 0..(N - 1) : At(i)' = At(i)
      /\ \A i \in 0..(N + size - 1) :
           IF i < base THEN At(i)'.by # k
           ELSE At(i)' = [by |-> k, n |-> i - base + 1, kind |-> emitted[k][i - base + 1], seq |-> i]
  BY <1>1, Zenon DEF SavesGroup
<1>3. /\ writer[k] = "saving" /\ UNCHANGED <<exec, emitted, inbox, seq>>
      /\ pending' = [pending EXCEPT ![k] = RestOf(@)] /\ loaded' = [loaded EXCEPT ![k] = <<>>]
      /\ writer' = [writer EXCEPT ![k] = IF pending'[k] = <<>> THEN "waiting" ELSE "loading"]
  BY DEF SaveChunk, executorVars
<1>4. /\ Held(k, N) /\ Queue(k) /\ LogTypeOK /\ Emissions(k) /\ exec[k] # "unborn" /\ Alive(k)
      /\ Len(emitted[k]) \in Nat /\ Len(emitted[k]) <= Most
  <2>1. Emissions(k)
    BY DEF LogHolds, Writes
  <2>2. exec[k] # "unborn" /\ Alive(k)
    BY <1>3, <2>1 DEF Emissions, Alive, WriterAlive
  <2>. QED  BY <1>3, <2>1, <2>2, AtHand
<1>5. /\ base <= (k - 1) * Most /\ seq[k] = N + held /\ Taken(k) \in 0..Most
  <2>1. Taken(k) \in 0..Len(emitted[k]) /\ Most \in Nat
    BY <1>4, Numbers DEF Queue
  <2>2. Taken(k) \in 0..Most
    BY <1>4, <2>1
  <2>3. base <= (k - 1) * Most /\ seq[k] = N + held
    BY <1>2, <1>4, Zenon DEF Held
  <2>. QED  BY <2>2, <2>3
<1>6. /\ LogTypeOK' /\ writer'[k] = (IF pending'[k] = <<>> THEN "waiting" ELSE "loading")
      /\ \A j \in Execution : j # k =>
           writer'[j] = writer[j] /\ pending'[j] = pending[j] /\ loaded'[j] = loaded[j]
  <2>1. /\ writer \in [Execution -> Places] /\ pending \in [Execution -> Seq(Stored)]
        /\ loaded \in [Execution -> Seq(Stored)]
    BY <1>4 DEF LogTypeOK
  <2>2. /\ writer' \in [Execution -> Places]
        /\ writer'[k] = (IF pending'[k] = <<>> THEN "waiting" ELSE "loading")
        /\ \A j \in Execution : j # k => writer'[j] = writer[j]
    BY <1>3, <2>1 DEF Places, WriterAlive
  <2>3. /\ pending' \in [Execution -> Seq(Stored)]
        /\ \A j \in Execution : j # k => pending'[j] = pending[j]
    BY <1>2, <1>3, <2>1
  <2>4. /\ loaded' \in [Execution -> Seq(Stored)]
        /\ \A j \in Execution : j # k => loaded'[j] = loaded[j]
    BY <1>3, <2>1, EmptySeq
  <2>. QED  BY <1>2, <1>3, <1>4, <2>2, <2>3, <2>4 DEF LogTypeOK
<1>7. InRuns(M)' /\ Fits(M)'
  BY <1>1, <1>3, <1>4, <1>5, SavedInRuns, SavedFits
<1>8. InTurn'
  <2>1. \A j \in Execution : Alive(j)' => Alive(j)
    BY <1>3, <1>4, <1>6 DEF Alive
  <2>. QED  BY <1>3, <2>1 DEF InTurn, LogHolds
<1>9. Queue(k)' /\ Taken(k)' = Taken(k)
  BY <1>3, <1>4, QueueStays
<1>10. Held(k, M)'
  <2>1. /\ Taken(k)' - Len(pending'[k]) = before + size /\ M - (before + size) = base
        /\ before + size \in Nat /\ seq'[k] = M + (held - size)
    <3>. base = N - before /\ size \in 1..held
      BY <1>2, Zenon
    <3>1. ASSUME NEW t \in Nat, before = t - held
          PROVE  t - (held - size) = before + size /\ M - (before + size) = base
      BY <3>1
    <3>2. N + held = (N + size) + (held - size)
      BY <1>2
    <3>3. Taken(k) \in Nat
      BY <1>5, Numbers
    <3>4. /\ Taken(k) - (held - size) = before + size /\ M - (before + size) = base
      BY <1>2, <3>1, <3>3, Zenon
    <3>5. Taken(k)' = Taken(k) /\ Len(pending'[k]) = held - size /\ seq'[k] = N + held
      BY <1>2, <1>3, <1>5, <1>9
    <3>6. before + size \in Nat
      OBVIOUS
    <3>. HIDE DEF M
    <3>7. Taken(k)' - Len(pending'[k]) = before + size
      BY <3>4, <3>5, Zenon
    <3>8. seq'[k] = M + (held - size)
      BY <3>2, <3>5 DEF M
    <3>. QED  BY <3>4, <3>6, <3>7, <3>8
  <2>2. ASSUME NEW m \in 1..(held - size)
        PROVE  pending'[k][m] = [by |-> k, n |-> (before + size) + m,
                                 kind |-> emitted[k][(before + size) + m], seq |-> M + m - 1]
    <3>1. before + (size + m) = (before + size) + m /\ N + (size + m) - 1 = M + m - 1
      BY <1>2
    <3>. QED  BY <1>2, <3>1, Zenon
  <2>3. /\ writer'[k] \in {"loading", "saving"} => pending'[k] # <<>>
        /\ writer'[k] # "saving" /\ emitted' = emitted
    BY <1>3, <1>6
  <2>4. Len(pending'[k]) = held - size
    BY <1>2
  <2>5. \A i \in 0..(M - 1) :
          IF i < base THEN At(i)'.by # k
          ELSE At(i)' = [by |-> k, n |-> i - base + 1, kind |-> emitted[k][i - base + 1], seq |-> i]
    <3>1. 0..(M - 1) = 0..(N + size - 1)
      OBVIOUS
    <3>. QED  BY <1>2, <3>1, Zenon
  <2>. HIDE DEF M
  <2>6. Held(k, M)' <=>
          /\ before + size \in Nat /\ base \in Nat /\ base <= (k - 1) * Most
          /\ seq'[k] = M + (held - size)
          /\ \A m \in 1..(held - size) :
               pending'[k][m] = [by |-> k, n |-> (before + size) + m,
                                 kind |-> emitted'[k][(before + size) + m], seq |-> M + m - 1]
          /\ \A i \in 0..(M - 1) :
               IF i < base THEN At(i)'.by # k
               ELSE At(i)' = [by |-> k, n |-> i - base + 1, kind |-> emitted'[k][i - base + 1], seq |-> i]
          /\ writer'[k] \in {"loading", "saving"} => pending'[k] # <<>>
          /\ writer'[k] = "saving" => loaded'[k] = chunks'[ChunkOf(M)]
    BY <2>1, <2>4, Zenon DEF Held, Most, ChunkOf
  <2>. QED  BY <1>2, <1>5, <2>1, <2>2, <2>3, <2>5, <2>6, Zenon
<1>11. Writes(k, M)'
  <2>1. writer'[k] \in {"waiting", "loading"}
    BY <1>6
  <2>2. Emissions(k)'
    BY <1>3, <1>4, <2>1 DEF Emissions, Most
  <2>. QED  BY <1>9, <1>10, <2>1, <2>2 DEF Writes
<1>12. ASSUME NEW j \in Execution, j # k  PROVE Writes(j, M)'
  <2>1. Writes(j, N) /\ ~Alive(j)
    BY <1>4, <1>12, OthersRest DEF LogHolds
  <2>2. /\ writer[j] \notin WriterAlive /\ writer'[j] = writer[j] /\ pending'[j] = pending[j]
        /\ exec' = exec /\ emitted' = emitted /\ inbox' = inbox
    BY <1>3, <1>6, <1>12, <2>1 DEF Alive
  <2>3. Emissions(j)'
    BY <2>1, <2>2 DEF Writes, Emissions, Most
  <2>4. ASSUME writer[j] = "ended"  PROVE IsWhole(j, M)'
    <3>1. IsWhole(j, N)
      BY <2>1, <2>4 DEF Writes
    <3>2. \A i \in 0..(N - 1) : i \in 0..(M - 1) /\ At(i)' = At(i)
      BY <1>2
    <3>. HIDE DEF M
    <3>3. ASSUME NEW n \in DOMAIN emitted[j]
          PROVE  \E i \in 0..(M - 1) : At(i)'.by = j /\ At(i)'.n = n /\ At(i)'.kind = emitted[j][n]
      <4>1. PICK i \in 0..(N - 1) : At(i).by = j /\ At(i).n = n /\ At(i).kind = emitted[j][n]
        BY <3>1, Zenon DEF IsWhole
      <4>. QED  BY <3>2, <4>1
    <3>. QED  BY <2>2, <3>1, <3>3 DEF IsWhole
  <2>. QED  BY <2>2, <2>3, <2>4 DEF Writes, WriterAlive
<1>13. LogHolds(M)'
  BY <1>2, <1>6, <1>7, <1>8, <1>11, <1>12 DEF LogHolds
<1>14. M \in Nat /\ M > N
  BY <1>2
<1>. HIDE DEF M
<1>. QED  BY <1>2, <1>13, <1>14, Zenon

\* The server restarts: nobody holds anything any more.
LEMMA CrashStep == ASSUME NEW N \in Nat, LogHolds(N), Crash  PROVE LogHolds(N)'
<1>1. /\ UNCHANGED <<chunks, emitted, seq>>
      /\ exec' = [k \in Execution |->
                    IF exec[k] \in {"opened", "running", "leaving"} THEN "dead" ELSE exec[k]]
      /\ writer' = [k \in Execution |-> IF writer[k] \in WriterAlive THEN "dead" ELSE writer[k]]
      /\ inbox' = [k \in Execution |-> <<>>] /\ pending' = [k \in Execution |-> <<>>]
      /\ loaded' = [k \in Execution |-> <<>>]
  BY DEF Crash
<1>2. LogTypeOK
  BY DEF LogHolds
<1>3. LogTypeOK'
  <2>1. exec' \in [Execution -> Exits]
    BY <1>1, <1>2 DEF LogTypeOK, Exits
  <2>2. writer' \in [Execution -> Places]
    BY <1>1, <1>2 DEF LogTypeOK, Places, WriterAlive
  <2>3. /\ inbox' \in [Execution -> Seq(Event \cup {Stop})] /\ pending' \in [Execution -> Seq(Stored)]
        /\ loaded' \in [Execution -> Seq(Stored)]
    BY <1>1, EmptySeq
  <2>. QED  BY <1>1, <1>2, <2>1, <2>2, <2>3 DEF LogTypeOK
<1>4. ASSUME NEW j \in Execution
      PROVE  /\ exec'[j] = "unborn" <=> exec[j] = "unborn"
             /\ Alive(j)' => Alive(j)
             /\ Writes(j, N)'
  <2>1. /\ exec'[j] = (IF exec[j] \in {"opened", "running", "leaving"} THEN "dead" ELSE exec[j])
        /\ writer'[j] = (IF writer[j] \in WriterAlive THEN "dead" ELSE writer[j])
        /\ inbox'[j] = <<>> /\ pending'[j] = <<>> /\ emitted' = emitted
    BY <1>1
  <2>2. Emissions(j) /\ (writer[j] = "ended" => IsWhole(j, N))
    BY DEF LogHolds, Writes
  <2>3. writer'[j] \notin WriterAlive /\ (writer'[j] = "ended" => writer[j] = "ended")
    BY <2>1 DEF WriterAlive
  <2>4. Emissions(j)'
    BY <2>1, <2>2 DEF Emissions, Most, WriterAlive
  <2>5. \A i : At(i)' = At(i)
    BY <1>1 DEF At, ChunkOf
  <2>6. writer'[j] = "ended" => IsWhole(j, N)'
    BY <2>1, <2>2, <2>3, <2>5 DEF IsWhole
  <2>7. ~ Alive(j)'
    BY <2>1, <2>3 DEF Alive
  <2>8. exec'[j] = "unborn" <=> exec[j] = "unborn"
    BY <2>1
  <2>. QED  BY <2>3, <2>4, <2>6, <2>7, <2>8 DEF Writes, WriterAlive
<1>. QED  BY <1>1, <1>3, <1>4, ChunksStay

-----------------------------------------------------------------------------
(* The specification.                                                      *)

\* Nothing is stored yet.
LEMMA LogStarts == Init => LogHolds(0)
<1> SUFFICES ASSUME Init  PROVE LogHolds(0)
  OBVIOUS
<1>1. LogInit
  BY DEF Init
<1>2. LogTypeOK
  BY <1>1, EmptySeq DEF LogInit, LogTypeOK, Exits, Places
<1>3. InTurn
  BY <1>1 DEF LogInit, InTurn, Alive, WriterAlive
<1>4. Packed(0)
  <2>1. ChunkOf(0) = 0 /\ (0 % ChunkSize) = 0
    <3>1. ChunkSize \in Nat /\ ChunkSize > 0 /\ 0 \in 0..(ChunkSize - 1)
      BY ChunksHoldEvents
    <3>2. 0 * ChunkSize + 0 = 0
      BY <3>1
    <3>. QED  BY <3>1, <3>2, DividedOnce
  <2>2. \A i \in ChunkIndex : ~ (i < 0) /\ chunks[i] = <<>>
    BY <1>1, ChunksHoldEvents, LogBounds DEF LogInit, ChunkIndex
  <2>. QED  BY <2>1, <2>2 DEF Packed
<1>5. InRuns(0)
  BY DEF InRuns
<1>6. Fits(0)
  <2>1. \A k \in 0..MaxExecutions : k * Most \in Nat
    BY Numbers
  <2>. QED  BY <2>1 DEF Fits
<1>7. ASSUME NEW k \in Execution  PROVE Writes(k, 0)
  <2>1. exec[k] = "unborn" /\ writer[k] = "unborn" /\ emitted[k] = <<>> /\ inbox[k] = <<>> /\ pending[k] = <<>>
    BY <1>1 DEF LogInit
  <2>2. Len(emitted[k]) = 0 /\ Most \in Nat
    BY <2>1, Numbers
  <2>. QED  BY <2>1, <2>2 DEF Writes, Emissions, WriterAlive
<1>. QED  BY <1>2, <1>3, <1>4, <1>5, <1>6, <1>7 DEF LogHolds

\* A step leaves the chunks, or puts events after those that were stored.
LEMMA LogSteps ==
  ASSUME MaxLive <= 1, NEW N \in Nat, LogHolds(N), [Next]_vars
  PROVE  \/ LogHolds(N)' /\ chunks' = chunks
         \/ \E M \in Nat : M > N /\ LogHolds(M)' /\ \A i \in 0..(N - 1) : At(i)' = At(i)
<1>1. CASE UNCHANGED logVars
  <2>1. LogHolds(N)'
    <3>1. UNCHANGED <<chunks, exec, emitted, inbox, writer, seq, pending, loaded>>
      BY <1>1 DEF logVars, executorVars, writerVars
    <3>2. LogTypeOK'
      BY <3>1 DEF LogHolds, LogTypeOK, Stored, Event, Execution, ChunkIndex
    <3>3. ASSUME NEW j \in Execution
          PROVE  (Alive(j)' => Alive(j)) /\ Writes(j, N)'
      BY <3>1, WritesStay DEF LogHolds, Alive
    <3>. QED  BY <3>1, <3>2, <3>3, ChunksStay
  <2>. QED  BY <1>1, <2>1 DEF logVars
<1>2. ASSUME NEW k \in Execution,
             OpenLog(k) \/ ExecutorStep(k) \/ Emit(k) \/ Escape(k) \/ WriterStep(k) \/ FailToSave(k)
      PROVE  \/ LogHolds(N)' /\ chunks' = chunks
             \/ \E M \in Nat : M > N /\ LogHolds(M)' /\ \A i \in 0..(N - 1) : At(i)' = At(i)
  <2>1. CASE OpenLog(k)
    BY <2>1, OpenLogStep DEF OpenLog
  <2>2. CASE Begin(k)
    BY <2>2, BeginStep DEF Begin
  <2>3. CASE Settle(k)
    BY <2>3, SettleStep DEF Settle
  <2>4. CASE Close(k)
    BY <2>4, CloseStep DEF Close
  <2>5. CASE Emit(k)
    BY <2>5, EmitStep DEF Emit
  <2>6. CASE Escape(k)
    BY <2>6, EscapeStep DEF Escape
  <2>7. CASE CountEvents(k)
    BY <2>7, CountEventsStep DEF CountEvents
  <2>8. CASE Take(k)
    BY <2>8, TakeStep DEF Take
  <2>9. CASE FlushWhatThereIs(k)
    BY <2>9, FlushStep DEF FlushWhatThereIs
  <2>10. CASE EndWriter(k)
    BY <2>10, EndWriterStep DEF EndWriter
  <2>11. CASE LoadChunk(k)
    BY <2>11, LoadChunkStep DEF LoadChunk
  <2>12. CASE SaveChunk(k)
    BY <2>12, SaveChunkStep
  <2>13. CASE FailToSave(k)
    BY <2>13, FailToSaveStep DEF FailToSave
  <2>. QED
    BY <1>2, <2>1, <2>2, <2>3, <2>4, <2>5, <2>6, <2>7, <2>8, <2>9, <2>10, <2>11, <2>12, <2>13
    DEF ExecutorStep, WriterStep
<1>3. CASE Crash
  BY <1>3, CrashStep DEF Crash
<1>4. UNCHANGED logVars \/ Crash
      \/ \E k \in Execution :
           OpenLog(k) \/ ExecutorStep(k) \/ Emit(k) \/ Escape(k) \/ WriterStep(k) \/ FailToSave(k)
  BY DEF Next, vars, LogStep, CrashServer, Open, PanelStep, Connect, ReadChunk, Send, SendToDone,
         CheckRun, Drop
<1>. QED  BY <1>1, <1>2, <1>3, <1>4

\* The log's invariant is one.
LEMMA LogIsKept == ASSUME MaxLive <= 1 PROVE Spec => []LogInvariant
<1>1. Init => LogInvariant
  BY LogStarts DEF LogInvariant
<1>2. LogInvariant /\ [Next]_vars => LogInvariant'
  BY LogSteps DEF LogInvariant
<1>. QED  BY <1>1, <1>2, PTL DEF Spec

\* Once an execution's writer has ended, the stored log holds every event the execution
\* emitted, its run_done included: while executions follow one another, close() loses
\* nothing of what was still queued or batched.
THEOREM ClosedLogsAreWhole == ASSUME MaxLive <= 1 PROVE Spec => []ClosedLogIsWhole
<1>1. LogInvariant => ClosedLogIsWhole
  <2> SUFFICES ASSUME NEW N \in Nat, LogHolds(N), NEW k \in Execution, writer[k] = "ended",
                      NEW n \in DOMAIN emitted[k]
               PROVE  \E e \in StoredEvents :
                        [by |-> k, n |-> n, kind |-> emitted[k][n]] = [by |-> e.by, n |-> e.n, kind |-> e.kind]
    BY DEF LogInvariant, ClosedLogIsWhole
  <2>1. IsWhole(k, N)
    BY DEF LogHolds, Writes
  <2>2. PICK i \in 0..(N - 1) : At(i).by = k /\ At(i).n = n /\ At(i).kind = emitted[k][n]
    BY <2>1 DEF IsWhole
  <2>3. ChunkOf(i) \in ChunkIndex /\ (i % ChunkSize) + 1 \in DOMAIN chunks[ChunkOf(i)]
    BY AtHand, HasRoom, StoredNumbers DEF LogHolds
  <2>4. At(i) \in Range(chunks[ChunkOf(i)])
    BY <2>3 DEF At, Range
  <2>5. At(i) \in StoredEvents
    BY <2>3, <2>4 DEF StoredEvents
  <2>. QED  BY <2>2, <2>5
<1>. QED  BY <1>1, LogIsKept, PTL

\* The log's invariant gives the stored events, read by number.
InOrder(N) ==
  /\ DOMAIN StoredLog = 0..(N - 1)
  /\ \A i \in 0..(N - 1) : StoredLog[i] = At(i)
  /\ Promise!Numbered(StoredLog) /\ Promise!InEmissionOrder(StoredLog)

\* The stored events, read by number, are numbered without gaps, each execution's in the
\* order it emitted them.
LEMMA StoredInOrder == \A N \in Nat : LogHolds(N) => InOrder(N)
<1> SUFFICES ASSUME NEW N \in Nat, LogHolds(N)  PROVE InOrder(N)
  OBVIOUS
<1>1. DOMAIN StoredLog = 0..(N - 1) /\ \A i \in 0..(N - 1) : StoredLog[i] = At(i)
  <2>1. StoredLog = [i \in 0..(N - 1) |-> At(i)]
    BY HasRoom, StoredNumbers DEF LogHolds
  <2>. QED  BY <2>1
<1>2. InRuns(N)
  BY DEF LogHolds
<1>3. Promise!Numbered(StoredLog)
  <2>1. ASSUME NEW i \in 0..(N - 1)  PROVE 0..i \subseteq 0..(N - 1) /\ StoredLog[i].seq = i
    BY <1>1, <1>2 DEF InRuns
  <2>. QED  BY <1>1, <2>1 DEF Promise!Numbered
<1>4. ASSUME NEW i \in 0..(N - 1)
      PROVE  StoredLog[i].n = 1 + Cardinality({j \in 0..(N - 1) : j < i /\ StoredLog[j].by = StoredLog[i].by})
  <2> DEFINE n == At(i).n
             earlier == {j \in 0..(N - 1) : j < i /\ StoredLog[j].by = StoredLog[i].by}
  <2>1. n \in Nat /\ n <= i + 1 /\ \A j \in 0..i : At(j).by = At(i).by <=> j + n > i
    BY <1>2 DEF InRuns
  <2>2. n >= 1
    <3>. HIDE DEF n
    <3>1. i \in 0..i
      OBVIOUS
    <3>2. i + n > i
      BY <2>1, <3>1, Zenon
    <3>. QED  BY <2>1, <3>2
  <2>3. ASSUME NEW j  PROVE j \in earlier <=> j \in (i - n + 1)..(i - 1)
    <3>1. ASSUME j \in 0..(N - 1), j < i  PROVE StoredLog[j].by = StoredLog[i].by <=> j + n > i
      <4>1. j \in 0..i
        BY <3>1
      <4>. QED  BY <1>1, <2>1, <3>1, <4>1
    <3>2. j \in earlier <=> j \in 0..(N - 1) /\ j < i /\ j + n > i
      BY <3>1
    <3>. HIDE DEF earlier, n
    <3>3. (j \in 0..(N - 1) /\ j < i /\ j + n > i) <=> j \in (i - n + 1)..(i - 1)
      BY <2>1
    <3>. QED  BY <3>2, <3>3
  <2>4. earlier = (i - n + 1)..(i - 1)
    BY <2>3, Zenon
  <2>. HIDE DEF earlier, n
  <2>5. Cardinality((i - n + 1)..(i - 1)) = n - 1
    <3>1. i - n + 1 \in Int /\ i - 1 \in Int
      BY <2>1
    <3>2. Cardinality((i - n + 1)..(i - 1)) =
            IF i - n + 1 > i - 1 THEN 0 ELSE (i - 1) - (i - n + 1) + 1
      BY <3>1, FS_Interval
    <3>. QED  BY <2>1, <2>2, <3>2
  <2>6. StoredLog[i].n = 1 + Cardinality(earlier)
    <3>1. StoredLog[i].n = n
      BY <1>1 DEF n
    <3>. QED  BY <2>1, <2>2, <2>4, <2>5, <3>1
  <2>. QED  BY <2>6 DEF earlier
<1>5. Promise!InEmissionOrder(StoredLog)
  <2>1. \A S : Promise!Cardinality(S) = Cardinality(S)
    BY DEF Promise!Cardinality, Cardinality
  <2>. QED  BY <1>1, <1>4, <2>1 DEF Promise!InEmissionOrder
<1>. QED  BY <1>1, <1>3, <1>5 DEF InOrder

\* The chunks, rewritten whole by each flush and continued by each resume, are an
\* append-only log numbered without gaps, while executions follow one another.
THEOREM LogPromiseIsKept == ASSUME MaxLive <= 1 PROVE Spec => LogKeepsItsPromise
<1>1. Init => Promise!Init
  <2> SUFFICES ASSUME Init  PROVE StoredLog = [i \in {} |-> 0]
    BY DEF Promise!Init
  <2>1. LogHolds(0) /\ 0 \in Nat
    BY LogStarts
  <2>2. StoredLog = [i \in 0..(0 - 1) |-> At(i)]
    BY <2>1, HasRoom, StoredNumbers DEF LogHolds
  <2>3. 0..(0 - 1) = {}
    OBVIOUS
  <2>. QED  BY <2>2, <2>3
<1>2. (\A N \in Nat : LogHolds(N) => InOrder(N))'
  BY StoredInOrder, PTL
<1>3. LogInvariant /\ [Next]_vars => [Promise!Extend]_StoredLog
  <2> SUFFICES ASSUME NEW N \in Nat, LogHolds(N), [Next]_vars
               PROVE  [Promise!Extend]_StoredLog
    BY DEF LogInvariant
  <2>1. CASE chunks' = chunks
    BY <2>1 DEF StoredLog, ChunkOf
  <2>2. ASSUME NEW M \in Nat, M > N, LogHolds(M)', \A i \in 0..(N - 1) : At(i)' = At(i)
        PROVE  Promise!Extend
    <3>1. /\ DOMAIN StoredLog = 0..(N - 1)
          /\ \A i \in 0..(N - 1) : StoredLog[i] = At(i)
      BY StoredInOrder DEF InOrder
    <3>2. /\ DOMAIN StoredLog' = 0..(M - 1)
          /\ \A i \in 0..(M - 1) : StoredLog'[i] = At(i)'
          /\ Promise!Numbered(StoredLog') /\ Promise!InEmissionOrder(StoredLog')
      BY <1>2, <2>2 DEF InOrder
    <3>3. DOMAIN StoredLog' # DOMAIN StoredLog
      <4>1. N \in 0..(M - 1) /\ N \notin 0..(N - 1)
        BY <2>2
      <4>. QED  BY <3>1, <3>2, <4>1
    <3>4. Promise!Continues(StoredLog, StoredLog')
      <4>1. 0..(N - 1) \subseteq 0..(M - 1)
        BY <2>2
      <4>. QED  BY <2>2, <3>1, <3>2, <4>1 DEF Promise!Continues
    <3>. QED  BY <3>2, <3>3, <3>4 DEF Promise!Extend
  <2>. QED  BY <2>1, <2>2, LogSteps
<1>. QED  BY <1>1, <1>3, LogIsKept, PTL DEF Spec, LogKeepsItsPromise, Promise!Spec

-----------------------------------------------------------------------------
(***************************************************************************)
(* The panel.  A poll reads chunk after chunk while the writer goes on      *)
(* saving, so that what it reads of a chunk is a beginning of it           *)
(* (ReadInOrder).  Nothing is skipped within a chunk, then: neither below   *)
(* an event the panel was given nor below the cursor a poll starts from     *)
(* (Level).  What is stored afterwards is numbered past all of these.       *)
(***************************************************************************)

\* Numbers of which there are some have a least.
LEMMA LeastNumber ==
  ASSUME NEW T \in SUBSET Nat, T # {}
  PROVE  Min(T) \in T /\ \A y \in T : Min(T) <= y
<1>1. IsWellFoundedOn(OpToRel(<, Nat), Nat)
  BY NatLessThanWellFounded
<1>2. PICK x \in T : \A y \in T : ~ (<<y, x>> \in OpToRel(<, Nat))
  BY <1>1, WFMin, Zenon
<1>3. \A y \in T : ~ (y < x)
  BY <1>2, Zenon DEF OpToRel
<1>4. \E z \in T : \A y \in T : z =< y
  BY <1>3
<1>. QED  BY <1>4, Zenon DEF Min

\* Numbers below a bound have a greatest.
LEMMA GreatestNumber ==
  ASSUME NEW N \in Nat, NEW T \in SUBSET (0..(N - 1)), T # {}
  PROVE  Max(T) \in T /\ \A y \in T : y <= Max(T)
<1> DEFINE U == {N - y : y \in T}
<1>0. \A y \in T : y \in Nat /\ N - y \in Nat
  OBVIOUS
<1>1. U \in SUBSET Nat /\ U # {}
  BY <1>0
<1>2. Min(U) \in U /\ \A u \in U : Min(U) <= u
  BY <1>1, LeastNumber
<1>3. PICK x \in T : Min(U) = N - x
  BY <1>2
<1>4. ASSUME NEW y \in T  PROVE y <= x
  <2>1. N - y \in U
    OBVIOUS
  <2>2. N - x <= N - y
    BY <1>2, <1>3, <2>1
  <2>. QED  BY <1>0, <2>2
<1>5. \E z \in T : \A y \in T : z >= y
  BY <1>4
<1>6. Max(T) \in T /\ \A y \in T : Max(T) >= y
  BY <1>5, Zenon DEF Max
<1>. QED  BY <1>6

\* A stored event is the one of its number, and stands in the chunk of it.
StoredByNumber(N) ==
  /\ \A e \in StoredEvents : e.seq \in 0..(N - 1) /\ e = At(e.seq)
  /\ \A i \in 0..(N - 1) : At(i) \in StoredEvents /\ At(i).seq = i
  /\ \A x \in Nat : Range(Chunk(x)) = {e \in StoredEvents : ChunkOf(e.seq) = x}

LEMMA StoredAreNumbered == \A N \in Nat : LogHolds(N) => StoredByNumber(N)
<1> SUFFICES ASSUME NEW N \in Nat, LogHolds(N)  PROVE StoredByNumber(N)
  OBVIOUS
<1>1. /\ Packed(N) /\ InRuns(N) /\ LogTypeOK /\ InRoom(N)
      /\ ChunkSize \in Nat /\ ChunkSize > 0
  BY HasRoom, ChunksHoldEvents DEF LogHolds
<1>2. /\ ChunkOf(N) \in Nat /\ (N % ChunkSize) \in 0..(ChunkSize - 1)
      /\ N = ChunkOf(N) * ChunkSize + (N % ChunkSize)
  BY Divided
<1>3. ASSUME NEW x \in ChunkIndex, NEW e \in Range(chunks[x])
      PROVE  e.seq \in 0..(N - 1) /\ e = At(e.seq) /\ ChunkOf(e.seq) = x
  <2>1. chunks[x] \in Seq(Stored) /\ x \in Nat
    <3>1. MaxExecutions * Most \in Nat
      BY Numbers
    <3>2. ChunkIndex = 0..ChunkOf(MaxExecutions * Most) /\ ChunkOf(MaxExecutions * Most) \in Nat
      BY <3>1, Divided DEF ChunkIndex, ChunkOf, Most
    <3>. QED  BY <1>1, <3>2 DEF LogTypeOK
  <2>2. PICK j \in DOMAIN chunks[x] : e = chunks[x][j]
    BY DEF Range
  <2>3. j \in 1..Len(chunks[x]) /\ Len(chunks[x]) \in Nat
    BY <2>1, <2>2, LenProperties
  <2>4. Len(chunks[x]) = IF x < ChunkOf(N) THEN ChunkSize
                         ELSE IF x = ChunkOf(N) THEN (N % ChunkSize) ELSE 0
    BY <1>1 DEF Packed
  <2>5. x <= ChunkOf(N) /\ j - 1 \in 0..(ChunkSize - 1)
        /\ (x = ChunkOf(N) => j - 1 < (N % ChunkSize))
    BY <1>1, <1>2, <2>1, <2>3, <2>4
  <2> DEFINE i == x * ChunkSize + (j - 1)
  <2>6. i \in Nat /\ ChunkOf(i) = x /\ (i % ChunkSize) = j - 1
    BY <2>1, <2>5, DividedOnce
  <2> HIDE DEF i
  <2>7. i < N
    <3>1. CASE x < ChunkOf(N)
      <4>1. N <= i => ChunkOf(N) <= ChunkOf(i)
        BY <2>6, ChunksAscend
      <4>. QED  BY <1>2, <2>1, <2>6, <3>1, <4>1
    <3>2. CASE x = ChunkOf(N)
      <4>1. x * ChunkSize \in Nat
        BY <1>1, <2>1
      <4>. QED  BY <1>2, <2>5, <3>2, <4>1 DEF i
    <3>. QED  BY <1>2, <2>1, <2>5, <3>1, <3>2
  <2>8. i \in 0..(N - 1)
    BY <2>6, <2>7
  <2>9. At(i) = e
    BY <2>2, <2>3, <2>6 DEF At
  <2>10. e.seq = i
    BY <1>1, <2>8, <2>9 DEF InRuns
  <2>. QED  BY <2>6, <2>8, <2>9, <2>10
<1>4. ASSUME NEW e \in StoredEvents
      PROVE  \E x \in ChunkIndex : e \in Range(chunks[x])
  BY DEF StoredEvents
<1>5. ASSUME NEW i \in 0..(N - 1)
      PROVE  At(i) \in Range(chunks[ChunkOf(i)]) /\ ChunkOf(i) \in ChunkIndex /\ At(i).seq = i
  <2>1. ChunkOf(i) \in ChunkIndex /\ (i % ChunkSize) + 1 \in DOMAIN chunks[ChunkOf(i)]
    BY <1>1, StoredNumbers
  <2>2. At(i) \in Range(chunks[ChunkOf(i)])
    BY <2>1 DEF At, Range
  <2>. QED  BY <1>1, <2>1, <2>2 DEF InRuns
<1>6. \A i \in 0..(N - 1) : At(i) \in StoredEvents
  BY <1>5 DEF StoredEvents
<1>7. ASSUME NEW x \in Nat
      PROVE  Range(Chunk(x)) = {e \in StoredEvents : ChunkOf(e.seq) = x}
  <2>1. CASE x \in ChunkIndex
    <3>1. Chunk(x) = chunks[x]
      BY <2>1 DEF Chunk
    <3>2. ASSUME NEW e \in Range(chunks[x])  PROVE e \in StoredEvents /\ ChunkOf(e.seq) = x
      BY <1>3, <2>1 DEF StoredEvents
    <3>3. ASSUME NEW e \in StoredEvents, ChunkOf(e.seq) = x  PROVE e \in Range(chunks[x])
      BY <1>3, <1>4, <3>3
    <3>. QED  BY <3>1, <3>2, <3>3
  <2>2. CASE x \notin ChunkIndex
    <3>1. Chunk(x) = <<>>
      BY <2>2 DEF Chunk
    <3>2. Range(Chunk(x)) = {}
      BY <3>1 DEF Range
    <3>3. ASSUME NEW e \in StoredEvents  PROVE ChunkOf(e.seq) # x
      BY <1>3, <1>4, <2>2
    <3>. QED  BY <3>2, <3>3
  <2>. QED  BY <2>1, <2>2
<1>8. \A e \in StoredEvents : e.seq \in 0..(N - 1) /\ e = At(e.seq)
  BY <1>3, <1>4
<1>. QED  BY <1>5, <1>6, <1>7, <1>8 DEF StoredByNumber

\* The panel was given what is stored for it of the chunk of this number, from where it
\* opened up to the number.
Level(number) ==
  \A e \in Scoped(StoredEvents) :
    openedAt <= e.seq /\ e.seq < number /\ ChunkOf(e.seq) = ChunkOf(number) => e \in shown

\* What a poll has read holds, up to each of its events, all of that event's chunk.
ReadInOrder ==
  \A b \in batch :
    /\ cursor <= b.seq
    /\ \A e \in StoredEvents :
         cursor <= e.seq /\ e.seq < b.seq /\ ChunkOf(e.seq) = ChunkOf(b.seq) => e \in batch

\* The panel's invariant, over N stored events: it was given stored events only, up to the
\* last number it saw, and neither it nor the stream that feeds it passed over an event of
\* a chunk it was given a later one of.
PanelHolds(N) ==
  /\ nextSeq \in 0..N /\ openedAt \in Nat /\ cursor \in 0..N /\ chunk \in Nat
  /\ shown \subseteq StoredEvents /\ batch \subseteq StoredEvents
  /\ \A b \in shown : b.seq < nextSeq /\ Level(b.seq)
  /\ nextSeq = 0 \/ \E b \in shown : nextSeq = b.seq + 1
  /\ stream # "off" => nextSeq <= cursor /\ Level(cursor)
  /\ stream \in {"reading", "sending"} => ReadInOrder
  /\ stream = "reading" => \A b \in batch : ChunkOf(b.seq) < chunk

\* An event below a number, of its chunk, is of the chunk of each number in between.
LEMMA ChunkBetween ==
  ASSUME NEW i \in Nat, NEW j \in Nat, NEW k \in Nat, i <= j, j <= k, ChunkOf(i) = ChunkOf(k)
  PROVE  ChunkOf(j) = ChunkOf(k)
<1>1. ChunkOf(i) <= ChunkOf(j) /\ ChunkOf(j) <= ChunkOf(k)
  BY ChunksAscend
<1>2. ChunkOf(j) \in Nat /\ ChunkOf(k) \in Nat
  BY Divided
<1>. QED  BY <1>1, <1>2

\* What is past the last of some stored events.
LEMMA PastIsPast ==
  ASSUME NEW N \in Nat, NEW events, NEW otherwise \in 0..N,
         \A e \in events : e.seq \in 0..(N - 1)
  PROVE  /\ Past(events, otherwise) \in 0..N
         /\ events = {} => Past(events, otherwise) = otherwise
         /\ \A e \in events : e.seq < Past(events, otherwise)
         /\ events # {} => \E e \in events : Past(events, otherwise) = e.seq + 1
<1>1. CASE events = {}
  BY <1>1 DEF Past
<1>2. CASE events # {}
  <2> DEFINE T == {e.seq : e \in events}
  <2>1. T \in SUBSET (0..(N - 1)) /\ T # {}
    BY <1>2
  <2>2. Max(T) \in T /\ \A y \in T : y <= Max(T)
    BY <2>1, GreatestNumber
  <2>3. Past(events, otherwise) = Max(T) + 1
    BY <1>2 DEF Past
  <2>4. \A e \in events : e.seq \in T
    OBVIOUS
  <2>5. \E e \in events : Max(T) = e.seq
    BY <2>2
  <2> HIDE DEF T
  <2>. QED  BY <1>2, <2>1, <2>2, <2>3, <2>4, <2>5
<1>. QED  BY <1>1, <1>2

\* Where a panel that was given nothing opens.
LEMMA TailIsBelow == ASSUME NEW N \in Nat, LogHolds(N)  PROVE TailStart \in 0..N
<1> DEFINE seen == {e.seq : e \in Scoped(StoredEvents)}
           tail == {i \in seen : Cardinality({j \in seen : i <= j}) <= TailSize}
           T == tail \cup {Max(seen) + 1}
<1>1. seen \in SUBSET (0..(N - 1))
  BY StoredAreNumbered DEF StoredByNumber, Scoped
<1>2. TailStart = IF seen = {} \/ TailSize > Cardinality(seen) THEN 0 ELSE Min(T)
  BY Zenon DEF TailStart
<1>3. CASE seen = {} \/ TailSize > Cardinality(seen)
  <2> HIDE DEF seen, T
  <2>1. TailStart = 0
    BY <1>2, <1>3, Zenon
  <2>. QED  BY <2>1
<1>4. CASE ~ (seen = {} \/ TailSize > Cardinality(seen))
  <2>1. Max(seen) \in seen
    BY <1>1, <1>4, GreatestNumber
  <2>2. tail \subseteq seen
    OBVIOUS
  <2> HIDE DEF seen, tail
  <2> DEFINE next == Max(seen) + 1
  <2>6. next \in 0..N
    <3>1. Max(seen) \in 0..(N - 1)
      BY <1>1, <2>1
    <3>. QED  BY <3>1
  <2>7. \A i \in tail : i \in 0..N
    <3>1. \A i \in 0..(N - 1) : i \in 0..N
      OBVIOUS
    <3>. QED  BY <1>1, <2>2, <3>1
  <2> HIDE DEF next
  <2>3. T \in SUBSET (0..N) /\ T # {}
    <3>1. T = tail \cup {next}
      BY DEF next
    <3>. QED  BY <2>6, <2>7, <3>1
  <2>4. T \in SUBSET Nat
    BY <2>3
  <2>5. Min(T) \in T
    BY <2>3, <2>4, LeastNumber
  <2>. QED  BY <1>2, <1>4, <2>3, <2>5
<1>. QED  BY <1>3, <1>4

\* What a panel holds by is there whatever is stored next.
LEMMA StoredStay ==
  ASSUME chunks' = chunks
  PROVE  /\ StoredEvents' = StoredEvents
         /\ Scoped(StoredEvents)' = Scoped(StoredEvents)
BY DEF StoredEvents, Scoped

\* An event that a poll started after, or found on its way to a later one of its chunk.
LEMMA FoundOrShown ==
  ASSUME NEW N \in Nat, LogHolds(N), PanelHolds(N), stream = "sending",
         NEW b \in batch, NEW e \in Scoped(StoredEvents),
         openedAt <= e.seq, e.seq < b.seq, ChunkOf(e.seq) = ChunkOf(b.seq)
  PROVE  e \in shown \/ e \in Scoped(batch)
<1>1. StoredByNumber(N)
  BY StoredAreNumbered
<1>2. e \in StoredEvents /\ b \in StoredEvents
  BY DEF PanelHolds, Scoped
<1>3. e.seq \in Nat /\ b.seq \in Nat /\ cursor \in Nat
  BY <1>1, <1>2 DEF StoredByNumber, PanelHolds
<1>4. ReadInOrder /\ Level(cursor)
  BY DEF PanelHolds
<1>5. CASE e.seq < cursor
  <2>1. cursor <= b.seq
    BY <1>4 DEF ReadInOrder
  <2>2. ChunkOf(cursor) = ChunkOf(b.seq)
    BY <1>3, <1>5, <2>1, ChunkBetween
  <2>. QED  BY <1>4, <1>5, <2>2 DEF Level
<1>6. CASE cursor <= e.seq
  <2>1. e \in batch
    BY <1>2, <1>4, <1>6 DEF ReadInOrder
  <2>. QED  BY <2>1 DEF Scoped
<1>. QED  BY <1>3, <1>5, <1>6

\* What the panel is given of a batch is all of its beginning, so that it skips nothing
\* within a chunk.
LEMMA ReceiveKeeps ==
  ASSUME NEW N \in Nat, LogHolds(N), PanelHolds(N), stream = "sending",
         NEW sent \in SUBSET Scoped(batch),
         \A e \in sent : \A b \in Scoped(batch) : b.seq < e.seq => b \in sent,
         Receive(sent), chunks' = chunks, openedAt' = openedAt
  PROVE  /\ shown' = shown \cup sent /\ shown' \subseteq StoredEvents'
         /\ nextSeq' \in 0..N
         /\ \A b \in shown' : b.seq < nextSeq' /\ Level(b.seq)'
         /\ nextSeq' = 0 \/ \E b \in shown' : nextSeq' = b.seq + 1
         /\ IF sent = {} THEN nextSeq' = nextSeq ELSE \E e \in sent : nextSeq' = e.seq + 1
<1>1. StoredByNumber(N)
  BY StoredAreNumbered
<1>2. /\ nextSeq \in 0..N /\ cursor \in 0..N /\ nextSeq <= cursor
      /\ shown \subseteq StoredEvents /\ batch \subseteq StoredEvents
      /\ \A b \in shown : b.seq < nextSeq /\ Level(b.seq)
      /\ nextSeq = 0 \/ \E b \in shown : nextSeq = b.seq + 1
      /\ ReadInOrder
  BY DEF PanelHolds
<1>3. sent \subseteq batch /\ \A e \in sent : e.seq \in 0..(N - 1) /\ cursor <= e.seq
  BY <1>1, <1>2 DEF Scoped, StoredByNumber, ReadInOrder
<1>4. Fresh(sent) = sent
  BY <1>2, <1>3 DEF Fresh
<1>5. nextSeq' = Past(sent, nextSeq) /\ shown' = shown \cup sent
  BY <1>4 DEF Receive
<1>6. /\ nextSeq' \in 0..N
      /\ sent = {} => nextSeq' = nextSeq
      /\ \A e \in sent : e.seq < nextSeq'
      /\ sent # {} => \E e \in sent : nextSeq' = e.seq + 1
  BY <1>2, <1>3, <1>5, PastIsPast
<1>7. StoredEvents' = StoredEvents /\ Scoped(StoredEvents)' = Scoped(StoredEvents)
  BY StoredStay
<1>8. shown' \subseteq StoredEvents'
  BY <1>2, <1>3, <1>5, <1>7
<1>9. nextSeq <= nextSeq'
  BY <1>2, <1>3, <1>6
<1>10. ASSUME NEW b \in shown  PROVE b.seq < nextSeq' /\ Level(b.seq)'
  <2>1. b.seq < nextSeq /\ Level(b.seq) /\ b.seq \in Nat
    BY <1>1, <1>2 DEF StoredByNumber
  <2>2. Level(b.seq)'
    BY <1>5, <1>7, <2>1 DEF Level, ChunkOf
  <2>. QED  BY <1>2, <1>6, <1>9, <2>1, <2>2
<1>11. ASSUME NEW b \in sent  PROVE Level(b.seq)'
  <2>1. ASSUME NEW e \in Scoped(StoredEvents), openedAt <= e.seq, e.seq < b.seq,
               ChunkOf(e.seq) = ChunkOf(b.seq)
        PROVE  e \in shown'
    <3>1. e \in shown \/ e \in Scoped(batch)
      BY <1>3, <2>1, FoundOrShown
    <3>2. b \in Scoped(batch)
      OBVIOUS
    <3>. QED  BY <1>5, <2>1, <3>1, <3>2
  <2>. QED  BY <1>7, <2>1 DEF Level, ChunkOf
<1>12. \A b \in shown' : b.seq < nextSeq' /\ Level(b.seq)'
  BY <1>5, <1>6, <1>10, <1>11
<1>13. nextSeq' = 0 \/ \E b \in shown' : nextSeq' = b.seq + 1
  BY <1>2, <1>5, <1>6
<1>. QED  BY <1>5, <1>6, <1>8, <1>12, <1>13

\* A step that leaves what the panel was given.
LEMMA ShownStays ==
  ASSUME NEW N \in Nat, PanelHolds(N), chunks' = chunks, UNCHANGED <<nextSeq, shown>>,
         openedAt' = openedAt
  PROVE  /\ nextSeq' \in 0..N /\ openedAt' \in Nat /\ shown' \subseteq StoredEvents'
         /\ \A b \in shown' : b.seq < nextSeq' /\ Level(b.seq)'
         /\ nextSeq' = 0 \/ \E b \in shown' : nextSeq' = b.seq + 1
         /\ \A number : Level(number) => Level(number)'
<1>1. StoredEvents' = StoredEvents /\ Scoped(StoredEvents)' = Scoped(StoredEvents)
  BY StoredStay
<1>2. \A number : Level(number) => Level(number)'
  BY <1>1 DEF Level, ChunkOf
<1>. QED  BY <1>1, <1>2 DEF PanelHolds

LEMMA StreamEnds ==
  ASSUME NEW N \in Nat, StreamOff,
         nextSeq' \in 0..N, openedAt' \in Nat, shown' \subseteq StoredEvents',
         \A b \in shown' : b.seq < nextSeq' /\ Level(b.seq)',
         nextSeq' = 0 \/ \E b \in shown' : nextSeq' = b.seq + 1
  PROVE  PanelHolds(N)'
BY DEF StreamOff, PanelHolds

\* A connection that starts, or starts again one past the last event the panel was given.
LEMMA ConnectStep ==
  ASSUME NEW N \in Nat, LogHolds(N), PanelHolds(N), Connect
  PROVE  PanelHolds(N)'
<1>1. /\ chunks' = chunks /\ nextSeq' = nextSeq /\ shown' = shown
      /\ cursor' = IF nextSeq = 0 THEN TailStart ELSE nextSeq
      /\ openedAt' = IF nextSeq = 0 THEN cursor' ELSE openedAt
      /\ stream' = "reading" /\ chunk' = ChunkOf(cursor') /\ batch' = {}
  BY DEF Connect, logVars
<1>2. StoredByNumber(N)
  BY StoredAreNumbered
<1>3. /\ nextSeq \in 0..N /\ openedAt \in Nat /\ shown \subseteq StoredEvents
      /\ \A b \in shown : b.seq < nextSeq /\ Level(b.seq)
      /\ nextSeq = 0 \/ \E b \in shown : nextSeq = b.seq + 1
  BY DEF PanelHolds
<1>4. TailStart \in 0..N
  BY TailIsBelow
<1>5. cursor' \in 0..N /\ cursor' \in Nat /\ openedAt' \in Nat /\ nextSeq' <= cursor'
  BY <1>1, <1>3, <1>4
<1>6. chunk' \in Nat
  BY <1>1, <1>5, Divided
<1>7. StoredEvents' = StoredEvents /\ Scoped(StoredEvents)' = Scoped(StoredEvents)
  BY <1>1, StoredStay
<1>8. CASE nextSeq = 0
  <2>1. shown = {}
    <3>1. \A b \in shown : b.seq \in Nat /\ b.seq < 0
      BY <1>2, <1>3, <1>8 DEF StoredByNumber
    <3>. QED  BY <3>1
  <2>2. Level(cursor)'
    <3>1. \A e \in Scoped(StoredEvents) : e.seq \in Nat
      BY <1>2 DEF StoredByNumber, Scoped
    <3>. QED  BY <1>1, <1>5, <1>7, <1>8, <3>1 DEF Level
  <2>. QED  BY <1>1, <1>3, <1>5, <1>6, <1>8, <2>1, <2>2 DEF PanelHolds, ReadInOrder
<1>9. CASE nextSeq # 0
  <2>1. PICK b \in shown : nextSeq = b.seq + 1
    BY <1>3, <1>9
  <2>2. Level(b.seq) /\ b \in StoredEvents /\ b.seq \in Nat /\ b = At(b.seq)
    BY <1>2, <1>3 DEF StoredByNumber
  <2>3. ASSUME NEW e \in Scoped(StoredEvents), openedAt <= e.seq, e.seq < nextSeq,
               ChunkOf(e.seq) = ChunkOf(nextSeq)
        PROVE  e \in shown
    <3>1. e.seq \in Nat /\ e = At(e.seq)
      BY <1>2 DEF StoredByNumber, Scoped
    <3>2. e.seq <= b.seq /\ b.seq <= nextSeq /\ nextSeq \in Nat
      BY <2>1, <2>2, <2>3, <3>1
    <3>3. ChunkOf(b.seq) = ChunkOf(nextSeq)
      BY <2>2, <2>3, <3>1, <3>2, ChunkBetween
    <3>4. CASE e.seq = b.seq
      BY <2>1, <2>2, <3>1, <3>4
    <3>5. CASE e.seq < b.seq
      BY <2>2, <2>3, <3>3, <3>5 DEF Level
    <3>. QED  BY <2>2, <3>1, <3>2, <3>4, <3>5
  <2>4. Level(cursor)'
    BY <1>1, <1>7, <1>9, <2>3 DEF Level, ChunkOf
  <2>5. \A n : Level(n) => Level(n)'
    BY <1>1, <1>9, ShownStays
  <2>. QED  BY <1>1, <1>3, <1>5, <1>6, <1>7, <1>9, <2>4, <2>5 DEF PanelHolds, ReadInOrder
<1>. QED  BY <1>8, <1>9

\* A chunk that is read has all that is stored of it.
LEMMA ReadChunkStep ==
  ASSUME NEW N \in Nat, LogHolds(N), PanelHolds(N), ReadChunk
  PROVE  PanelHolds(N)'
<1>1. /\ chunks' = chunks /\ nextSeq' = nextSeq /\ shown' = shown /\ openedAt' = openedAt
      /\ cursor' = cursor /\ stream = "reading"
  BY DEF ReadChunk, logVars, panelVars
<1>2. StoredByNumber(N)
  BY StoredAreNumbered
<1>3. /\ cursor \in 0..N /\ chunk \in Nat /\ batch \subseteq StoredEvents
      /\ nextSeq <= cursor /\ Level(cursor) /\ ReadInOrder
      /\ \A b \in batch : ChunkOf(b.seq) < chunk
  BY <1>1 DEF PanelHolds
<1>4. StoredEvents' = StoredEvents
  BY <1>1, StoredStay
<1>5. Level(cursor)'
  <2>1. Level(cursor) => Level(cursor)'
    BY <1>1, StoredStay DEF Level, ChunkOf
  <2>. QED  BY <1>3, <2>1
<1>6. CASE stream' = "sending" /\ chunk' = 0 /\ batch' = batch
  <2>1. ReadInOrder'
    BY <1>1, <1>3, <1>4, <1>6 DEF ReadInOrder, ChunkOf
  <2>. QED  BY <1>1, <1>3, <1>4, <1>5, <1>6, <2>1, ShownStays DEF PanelHolds
<1>7. CASE /\ batch' = batch \cup {e \in Range(Chunk(chunk)) : e.seq >= cursor}
           /\ chunk' = chunk + 1 /\ stream' = stream
  <2> DEFINE new == {e \in Range(Chunk(chunk)) : e.seq >= cursor}
  <2>1. \A e \in new : e \in StoredEvents /\ ChunkOf(e.seq) = chunk /\ cursor <= e.seq
    BY <1>2, <1>3 DEF StoredByNumber
  <2>2. \A e \in StoredEvents : cursor <= e.seq /\ ChunkOf(e.seq) = chunk => e \in new
    BY <1>2, <1>3 DEF StoredByNumber
  <2>3. \A e \in StoredEvents : ChunkOf(e.seq) \in Nat
    BY <1>2, Divided DEF StoredByNumber
  <2>4. batch' = batch \cup new
    BY <1>7
  <2> HIDE DEF new
  <2>5. ReadInOrder'
    BY <1>1, <1>3, <1>4, <2>1, <2>2, <2>4 DEF ReadInOrder, ChunkOf
  <2>6. \A b \in batch' : ChunkOf(b.seq) < chunk'
    BY <1>3, <1>7, <2>1, <2>3, <2>4
  <2>7. batch' \subseteq StoredEvents' /\ chunk' \in Nat
    BY <1>3, <1>4, <1>7, <2>1, <2>4
  <2>. QED  BY <1>1, <1>3, <1>5, <1>7, <2>5, <2>6, <2>7, ShownStays DEF PanelHolds, ChunkOf
<1>. QED  BY <1>6, <1>7 DEF ReadChunk

\* A batch that is sent whole: the cursor clears it, the events the filter drops included.
LEMMA SendStep ==
  ASSUME NEW N \in Nat, LogHolds(N), PanelHolds(N), Send
  PROVE  PanelHolds(N)'
<1> DEFINE sent == Scoped(batch)
<1>1. /\ chunks' = chunks /\ openedAt' = openedAt /\ chunk' = chunk /\ batch' = batch
      /\ stream = "sending" /\ stream' = "checking" /\ Receive(sent)
      /\ cursor' = Past(batch, cursor)
  BY DEF Send, logVars
<1>2. StoredByNumber(N)
  BY StoredAreNumbered
<1>3. /\ cursor \in 0..N /\ nextSeq \in 0..N /\ nextSeq <= cursor /\ chunk \in Nat /\ openedAt \in Nat
      /\ batch \subseteq StoredEvents /\ ReadInOrder /\ Level(cursor)
  BY <1>1 DEF PanelHolds
<1>4. sent \in SUBSET Scoped(batch) /\ \A e \in sent : \A b \in Scoped(batch) : b.seq < e.seq => b \in sent
  OBVIOUS
<1>5. sent \subseteq batch
  BY DEF Scoped
<1> HIDE DEF sent
<1>6. /\ shown' = shown \cup sent /\ shown' \subseteq StoredEvents'
      /\ nextSeq' \in 0..N
      /\ \A b \in shown' : b.seq < nextSeq' /\ Level(b.seq)'
      /\ nextSeq' = 0 \/ \E b \in shown' : nextSeq' = b.seq + 1
      /\ IF sent = {} THEN nextSeq' = nextSeq ELSE \E e \in sent : nextSeq' = e.seq + 1
  BY <1>1, <1>4, ReceiveKeeps
<1>7. \A b \in batch : b.seq \in 0..(N - 1) /\ cursor <= b.seq
  BY <1>2, <1>3 DEF StoredByNumber, ReadInOrder
<1>8. /\ cursor' \in 0..N
      /\ batch = {} => cursor' = cursor
      /\ \A b \in batch : b.seq < cursor'
      /\ batch # {} => \E b \in batch : cursor' = b.seq + 1
  BY <1>1, <1>3, <1>7, PastIsPast
<1>9. StoredEvents' = StoredEvents /\ Scoped(StoredEvents)' = Scoped(StoredEvents)
  BY <1>1, StoredStay
<1>10. nextSeq' <= cursor'
  <2>1. CASE sent = {}
    BY <1>3, <1>6, <1>7, <1>8, <2>1
  <2>2. CASE sent # {}
    <3>1. PICK e \in sent : nextSeq' = e.seq + 1
      BY <1>6, <2>2
    <3>2. e \in batch /\ e.seq < cursor' /\ e.seq \in Nat
      BY <1>5, <1>7, <1>8
    <3>. QED  BY <1>8, <3>1, <3>2
  <2>. QED  BY <2>1, <2>2
<1>11. ASSUME NEW e \in Scoped(StoredEvents), openedAt <= e.seq, e.seq < cursor',
              ChunkOf(e.seq) = ChunkOf(cursor')
       PROVE  e \in shown'
  <2>1. e \in StoredEvents /\ e.seq \in Nat /\ e = At(e.seq)
    BY <1>2 DEF StoredByNumber, Scoped
  <2>2. CASE batch = {}
    BY <1>3, <1>6, <1>8, <1>11, <2>2 DEF Level
  <2>3. CASE batch # {}
    <3>1. PICK b \in batch : cursor' = b.seq + 1
      BY <1>8, <2>3
    <3>2. b.seq \in Nat /\ b = At(b.seq) /\ cursor' \in Nat
      BY <1>2, <1>3, <1>7, <3>1 DEF StoredByNumber
    <3>3. e.seq <= b.seq /\ b.seq <= cursor'
      BY <1>11, <2>1, <3>1, <3>2
    <3>4. ChunkOf(b.seq) = ChunkOf(cursor')
      BY <1>11, <2>1, <3>2, <3>3, ChunkBetween
    <3>5. CASE e.seq = b.seq
      <4>1. e \in batch
        BY <2>1, <3>2, <3>5
      <4>2. e \in sent
        BY <4>1 DEF sent, Scoped
      <4>. QED  BY <1>6, <4>2
    <3>6. CASE e.seq < b.seq
      <4>1. e \in shown \/ e \in Scoped(batch)
        BY <1>1, <1>11, <3>4, <3>6, FoundOrShown
      <4>. QED  BY <1>6, <4>1 DEF sent
    <3>. QED  BY <2>1, <3>2, <3>3, <3>5, <3>6
  <2>. QED  BY <2>2, <2>3
<1>12. Level(cursor)'
  BY <1>1, <1>9, <1>11 DEF Level, ChunkOf
<1>. QED  BY <1>1, <1>3, <1>6, <1>8, <1>9, <1>10, <1>12 DEF PanelHolds

\* A batch that is sent up to its first run_done, or until the connection breaks.
LEMMA SendPartStep ==
  ASSUME NEW N \in Nat, LogHolds(N), PanelHolds(N), stream = "sending", NEW sent,
         sent \in SUBSET Scoped(batch),
         \A e \in sent : \A b \in Scoped(batch) : b.seq < e.seq => b \in sent,
         Receive(sent), StreamOff, chunks' = chunks, openedAt' = openedAt
  PROVE  PanelHolds(N)'
<1>1. /\ shown' \subseteq StoredEvents'
      /\ nextSeq' \in 0..N
      /\ \A b \in shown' : b.seq < nextSeq' /\ Level(b.seq)'
      /\ nextSeq' = 0 \/ \E b \in shown' : nextSeq' = b.seq + 1
  BY ReceiveKeeps
<1>2. openedAt' \in Nat
  BY DEF PanelHolds
<1>. QED  BY <1>1, <1>2, StreamEnds

LEMMA SendToDoneStep ==
  ASSUME NEW N \in Nat, LogHolds(N), PanelHolds(N), SendToDone
  PROVE  PanelHolds(N)'
<1> DEFINE sent == UpToDone(Scoped(batch))
<1>1. /\ stream = "sending" /\ Receive(sent) /\ StreamOff /\ chunks' = chunks /\ openedAt' = openedAt
  BY DEF SendToDone, logVars
<1>2. \A b \in Scoped(batch) : b.seq \in Nat
  BY StoredAreNumbered DEF StoredByNumber, PanelHolds, Scoped
<1>3. sent \in SUBSET Scoped(batch)
  BY DEF UpToDone
<1>4. ASSUME NEW e \in sent, NEW b \in Scoped(batch), b.seq < e.seq
      PROVE  b \in sent
  <2>1. \A d \in Scoped(batch) : d.kind = "done" => e.seq <= d.seq
    BY DEF UpToDone
  <2>2. e \in Scoped(batch)
    BY <1>3
  <2>3. \A d \in Scoped(batch) : d.kind = "done" => b.seq <= d.seq
    BY <1>2, <1>4, <2>1, <2>2
  <2>. QED  BY <2>3 DEF UpToDone
<1> HIDE DEF sent
<1>. QED  BY <1>1, <1>3, <1>4, SendPartStep

LEMMA DropStep ==
  ASSUME NEW N \in Nat, LogHolds(N), PanelHolds(N), Drop
  PROVE  PanelHolds(N)'
<1>1. PICK m \in {0} \cup {e.seq + 1 : e \in batch} : Receive({e \in Scoped(batch) : e.seq < m})
  BY DEF Drop
<1> DEFINE sent == {e \in Scoped(batch) : e.seq < m}
<1>2. /\ stream = "sending" /\ StreamOff /\ chunks' = chunks /\ openedAt' = openedAt
  BY DEF Drop, logVars
<1>3. \A b \in batch : b.seq \in Nat
  BY StoredAreNumbered DEF StoredByNumber, PanelHolds
<1>4. m \in Nat
  BY <1>1, <1>3
<1>5. sent \in SUBSET Scoped(batch) /\ Receive(sent)
  BY <1>1
<1>6. \A e \in sent : \A b \in Scoped(batch) : b.seq < e.seq => b \in sent
  BY <1>3, <1>4 DEF Scoped
<1> HIDE DEF sent
<1>. QED  BY <1>2, <1>5, <1>6, SendPartStep

LEMMA CheckRunStep ==
  ASSUME NEW N \in Nat, PanelHolds(N), CheckRun
  PROVE  PanelHolds(N)'
<1>1. chunks' = chunks /\ UNCHANGED <<nextSeq, shown>> /\ openedAt' = openedAt /\ stream = "checking"
  BY DEF CheckRun, logVars
<1>2. /\ nextSeq' \in 0..N /\ openedAt' \in Nat /\ shown' \subseteq StoredEvents'
      /\ \A b \in shown' : b.seq < nextSeq' /\ Level(b.seq)'
      /\ nextSeq' = 0 \/ \E b \in shown' : nextSeq' = b.seq + 1
      /\ \A number : Level(number) => Level(number)'
  BY <1>1, ShownStays
<1>3. CASE StreamOff
  BY <1>2, <1>3, StreamEnds
<1>4. CASE stream' = "reading" /\ chunk' = ChunkOf(cursor) /\ batch' = {} /\ cursor' = cursor
  <2>1. cursor \in 0..N /\ nextSeq <= cursor /\ Level(cursor) /\ cursor \in Nat
    BY <1>1 DEF PanelHolds
  <2>2. Level(cursor)'
    <3>1. Level(cursor) => Level(cursor)'
      BY <1>1, <1>4, StoredStay DEF Level, ChunkOf
    <3>. QED  BY <2>1, <3>1
  <2>3. chunk' \in Nat
    BY <1>4, <2>1, Divided
  <2>. QED  BY <1>1, <1>2, <1>4, <2>1, <2>2, <2>3 DEF PanelHolds, ReadInOrder
<1>. QED  BY <1>3, <1>4 DEF CheckRun

\* A step of the run's threads, that leaves the panel and its stream: what is stored next
\* is numbered past everything they hold by.
LEMMA LogGoesOn ==
  ASSUME NEW N \in Nat, StoredByNumber(N), PanelHolds(N),
         NEW M \in Nat, N <= M, StoredByNumber(M)', \A i \in 0..(N - 1) : At(i)' = At(i),
         UNCHANGED <<nextSeq, shown, openedAt, streamVars>>
  PROVE  PanelHolds(M)'
<1>1. UNCHANGED <<nextSeq, shown, openedAt, stream, cursor, chunk, batch>>
  BY DEF streamVars
<1>2. StoredEvents \subseteq StoredEvents'
  <2>1. ASSUME NEW e \in StoredEvents  PROVE e \in StoredEvents'
    <3>1. e.seq \in 0..(N - 1) /\ e = At(e.seq)
      BY DEF StoredByNumber
    <3>2. e.seq \in 0..(M - 1)
      BY <3>1
    <3>3. \A i \in 0..(M - 1) : At(i)' \in StoredEvents'
      BY DEF StoredByNumber
    <3>. QED  BY <3>1, <3>2, <3>3
  <2>. QED  BY <2>1
<1>3. ASSUME NEW e \in StoredEvents', e.seq < N  PROVE e \in StoredEvents
  <2>1. e.seq \in 0..(M - 1)
    BY DEF StoredByNumber
  <2>2. e.seq \in 0..(N - 1)
    BY <1>3, <2>1
  <2>3. \A d \in StoredEvents' : \A i \in 0..(N - 1) : d.seq = i => d = At(i)'
    BY DEF StoredByNumber
  <2>4. e = At(e.seq)
    BY <2>2, <2>3
  <2>. QED  BY <2>2, <2>4 DEF StoredByNumber
<1>4. ASSUME NEW number \in 0..N, Level(number)  PROVE Level(number)'
  <2>1. ASSUME NEW e \in Scoped(StoredEvents)', e.seq < number  PROVE e \in Scoped(StoredEvents)
    <3>1. e \in StoredEvents' /\ e.kind \in {"own", "done"} /\ e.seq \in Nat
      BY DEF Scoped, StoredByNumber
    <3>2. e.seq < N
      BY <2>1, <3>1
    <3>. QED  BY <1>3, <3>1, <3>2 DEF Scoped
  <2>. QED  BY <1>1, <1>4, <2>1 DEF Level, ChunkOf
<1>5. ASSUME NEW b \in shown  PROVE b.seq < nextSeq /\ Level(b.seq)'
  <2>1. b.seq < nextSeq /\ Level(b.seq) /\ b.seq \in 0..(N - 1)
    BY DEF PanelHolds, StoredByNumber
  <2>2. b.seq \in 0..N
    BY <2>1
  <2>. QED  BY <1>4, <2>1, <2>2
<1>6. ReadInOrder => ReadInOrder'
  <2>1. ASSUME NEW b \in batch, NEW e \in StoredEvents', e.seq < b.seq  PROVE e \in StoredEvents
    <3>1. b.seq \in 0..(N - 1) /\ e.seq \in Nat
      BY DEF PanelHolds, StoredByNumber
    <3>. QED  BY <1>3, <2>1, <3>1
  <2>. QED  BY <1>1, <2>1 DEF ReadInOrder, ChunkOf
<1>7. /\ nextSeq \in 0..M /\ openedAt \in Nat /\ cursor \in 0..M /\ chunk \in Nat
      /\ shown \subseteq StoredEvents' /\ batch \subseteq StoredEvents'
  BY <1>2 DEF PanelHolds
<1>8. stream # "off" => nextSeq <= cursor /\ Level(cursor)'
  <2>1. cursor \in 0..N /\ (stream # "off" => nextSeq <= cursor /\ Level(cursor))
    BY DEF PanelHolds
  <2>. QED  BY <1>1, <1>4, <2>1 DEF Level, ChunkOf
<1>9. /\ nextSeq = 0 \/ \E b \in shown : nextSeq = b.seq + 1
      /\ stream \in {"reading", "sending"} => ReadInOrder'
      /\ stream = "reading" => \A b \in batch : ChunkOf(b.seq) < chunk
  BY <1>6 DEF PanelHolds
<1>. QED  BY <1>1, <1>5, <1>7, <1>8, <1>9 DEF PanelHolds, ChunkOf

\* The server restarts: the stream is gone, and the panel keeps what it was given.
LEMMA CrashServerStep ==
  ASSUME NEW N \in Nat, PanelHolds(N), CrashServer
  PROVE  PanelHolds(N)'
<1>1. chunks' = chunks /\ UNCHANGED <<nextSeq, shown>> /\ openedAt' = openedAt /\ StreamOff
  BY DEF CrashServer, Crash
<1>. QED  BY <1>1, ShownStays, StreamEnds

\* The stored events bear their numbers after a step too.
LEMMA StoredRemainNumbered == (\A N \in Nat : LogHolds(N) => StoredByNumber(N))'
<1> DEFINE Numbered == \A N \in Nat : LogHolds(N) => StoredByNumber(N)
<1>1. Numbered
  BY StoredAreNumbered
<1> HIDE DEF Numbered
<1>2. Numbered'
  BY <1>1, PTL
<1>. QED  BY <1>2 DEF Numbered

\* The log's invariant and the panel's go on together.
LEMMA PanelSteps ==
  ASSUME MaxLive <= 1, NEW N \in Nat, LogHolds(N), PanelHolds(N), [Next]_vars
  PROVE  \E M \in Nat : LogHolds(M)' /\ PanelHolds(M)'
<1>1. (\A n \in Nat : LogHolds(n) => StoredByNumber(n))'
  BY StoredRemainNumbered
<1>2. StoredByNumber(N)
  BY StoredAreNumbered
<1>3. PICK M \in Nat : /\ N <= M /\ LogHolds(M)'
                       /\ \A i \in 0..(N - 1) : At(i)' = At(i)
  <2>1. CASE LogHolds(N)' /\ chunks' = chunks
    <3>1. \A i \in 0..(N - 1) : At(i)' = At(i)
      BY <2>1 DEF At, ChunkOf
    <3>. QED  BY <2>1, <3>1
  <2>2. ASSUME NEW M \in Nat, M > N, LogHolds(M)', \A i \in 0..(N - 1) : At(i)' = At(i)
        PROVE  \E m \in Nat : N <= m /\ LogHolds(m)' /\ \A i \in 0..(N - 1) : At(i)' = At(i)
    BY <2>2
  <2>. QED  BY <2>1, <2>2, LogSteps
<1>4. StoredByNumber(M)'
  BY <1>1, <1>3
<1>5. ASSUME chunks' = chunks  PROVE M = N
  <2>1. ASSUME N < M  PROVE FALSE
    <3>1. N \in 0..(M - 1)
      BY <2>1
    <3>2. At(N)' \in StoredEvents' /\ At(N)'.seq = N
      BY <1>4, <3>1 DEF StoredByNumber
    <3>3. At(N)' \in StoredEvents
      BY <1>5, <3>2, StoredStay
    <3>4. At(N)'.seq \in 0..(N - 1)
      BY <1>2, <3>3 DEF StoredByNumber
    <3>. QED  BY <3>2, <3>4
  <2>. QED  BY <1>3, <2>1
<1>6. ASSUME chunks' = chunks, PanelHolds(N)'  PROVE LogHolds(M)' /\ PanelHolds(M)'
  BY <1>3, <1>5, <1>6
<1>7. CASE UNCHANGED <<nextSeq, shown, openedAt, streamVars>>
  <2>1. PanelHolds(M)'
    BY <1>2, <1>3, <1>4, <1>7, LogGoesOn
  <2>. QED  BY <1>3, <2>1
<1>8. CASE CrashServer
  <2>1. chunks' = chunks
    BY <1>8 DEF CrashServer, Crash
  <2>. QED  BY <1>6, <1>8, <2>1, CrashServerStep
<1>9. CASE Connect
  BY <1>6, <1>9, ConnectStep DEF Connect, logVars
<1>10. CASE ReadChunk
  BY <1>6, <1>10, ReadChunkStep DEF ReadChunk, logVars
<1>11. CASE Send
  BY <1>6, <1>11, SendStep DEF Send, logVars
<1>12. CASE SendToDone
  BY <1>6, <1>12, SendToDoneStep DEF SendToDone, logVars
<1>13. CASE CheckRun
  BY <1>6, <1>13, CheckRunStep DEF CheckRun, logVars
<1>14. CASE Drop
  BY <1>6, <1>14, DropStep DEF Drop, logVars
<1>15. \/ UNCHANGED <<nextSeq, shown, openedAt, streamVars>>
       \/ CrashServer \/ Connect \/ ReadChunk \/ Send \/ SendToDone \/ CheckRun \/ Drop
  BY DEF Next, vars, panelVars, LogStep, Open, PanelStep
<1>. QED  BY <1>7, <1>8, <1>9, <1>10, <1>11, <1>12, <1>13, <1>14, <1>15

\* What a panel skips lies in an earlier chunk than the next event it is given: while
\* executions follow one another, whatever connections break, streams reconnect, servers
\* restart, writes fail and resumes append, stream_events and receive() leave a gap only
\* where a flush crossed a chunk boundary between two loads of one poll.
THEOREM SkipsAreAcrossChunks == ASSUME MaxLive <= 1 PROVE Spec => []SkipsOnlyAcrossAChunk
<1> DEFINE Both == \E N \in Nat : LogHolds(N) /\ PanelHolds(N)
<1>1. Init => Both
  <2> SUFFICES ASSUME Init  PROVE LogHolds(0) /\ PanelHolds(0)
    OBVIOUS
  <2>1. LogHolds(0)
    BY LogStarts
  <2>2. PanelHolds(0)
    BY DEF Init, PanelHolds
  <2>. QED  BY <2>1, <2>2
<1>2. Both /\ [Next]_vars => Both'
  BY PanelSteps
<1>3. Both => SkipsOnlyAcrossAChunk
  <2> SUFFICES ASSUME NEW N \in Nat, LogHolds(N), PanelHolds(N),
                      NEW e \in Skipped, NEW b \in shown, b.seq > e.seq
               PROVE  ChunkOf(b.seq) > ChunkOf(e.seq)
    BY DEF SkipsOnlyAcrossAChunk
  <2>1. e \in Scoped(StoredEvents) /\ e \in StoredEvents /\ e \notin shown /\ openedAt <= e.seq
    BY DEF Skipped, Scoped
  <2>2. b \in StoredEvents /\ Level(b.seq)
    BY DEF PanelHolds
  <2>3. e.seq \in Nat /\ b.seq \in Nat
    BY <2>1, <2>2, StoredAreNumbered DEF StoredByNumber
  <2>4. e.seq < b.seq
    BY <2>3
  <2>5. ChunkOf(e.seq) # ChunkOf(b.seq)
    BY <2>1, <2>2, <2>4 DEF Level
  <2>6. ChunkOf(e.seq) <= ChunkOf(b.seq) /\ ChunkOf(e.seq) \in Nat /\ ChunkOf(b.seq) \in Nat
    BY <2>3, ChunksAscend, Divided
  <2>. QED  BY <2>5, <2>6
<1> HIDE DEF Both
<1>. QED  BY <1>1, <1>2, <1>3, PTL DEF Spec
=============================================================================
