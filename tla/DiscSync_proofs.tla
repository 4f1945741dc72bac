--------------------------- MODULE DiscSync_proofs ---------------------------
(***************************************************************************)
(* Proofs about the synchronised disc reads, for every size of IoctlBuffer *)
(* and of the ring, every number of reads and every choice of the reads    *)
(* that IOS refuses: what the code calls impossible is impossible, and no  *)
(* read is completed twice.                                                *)
(***************************************************************************)
EXTENDS DiscSync, SequenceTheorems, WellFoundedInduction, TLAPS

-----------------------------------------------------------------------------
(* The invariant. *)

\* A callback_sector: a sector or none.
Callbacks == Sectors \cup {NoSector}

\* The fields of an entry of IoctlBuffer.
IsEntry(e) ==
    /\ DOMAIN e = {"state", "sector", "pending", "haveCallback", "haveSent"}
    /\ e.state \in {0, 1, 2} /\ DOMAIN e.haveCallback = Consoles

Table ==
    /\ DOMAIN IoctlBuffer = Consoles /\ \A n \in Consoles : DOMAIN IoctlBuffer[n] = Index
    /\ \A n \in Consoles, i \in Index : IsEntry(IoctlBuffer[n][i])

Queues ==
    /\ frames \in [Consoles -> Seq(Callbacks)] /\ toGuest \in Seq(Callbacks)
    /\ toHost \in Seq(Sectors \cup {Reading})

\* How far each game has come with its reads.
Issued ==
    /\ DOMAIN issued = Consoles /\ DOMAIN read = Consoles
    /\ \A n \in Consoles : issued[n] \in Nat /\ DOMAIN read[n] = Sectors
    /\ \A n \in Consoles, s \in Sectors :
          /\ read[n][s] \in {"none", "issued", "registered", "done", "refused"}
          /\ read[n][s] = "none" <=> s > issued[n]
          /\ read[n][s] \in {"issued", "registered", "done"} => s \notin Refused
          /\ read[n][s] = "refused" => s \in Refused

\* Entry i of console n is the one of sector s.
Holds(n, i, s) == IoctlBuffer[n][i].state # 0 /\ IoctlBuffer[n][i].sector = s

(***************************************************************************)
(* A read that the game waits for has one entry.  The host's entry says    *)
(* what is known of the guest's read, and may be there before the host's   *)
(* game issues its own.                                                    *)
(***************************************************************************)
Held == \A n \in Consoles, s \in Sectors : read[n][s] \in {"issued", "registered"} => \E i \in Index : Holds(n, i, s)

Alone == \A n \in Consoles, s \in Sectors, i, j \in Index : Holds(n, i, s) /\ Holds(n, j, s) => i = j

\* What the entry e of console n says of the reads.
Entry(n, e) ==
    /\ e.pending => e.state = 1 /\ read[n][e.sector] # "none"
    /\ e.state # 0 =>
        /\ e.sector \in Sectors
        /\ e.state = 2 => read[n][e.sector] # "none"
        /\ \/ read[n][e.sector] \in {"issued", "registered"}
           \/ n = Host /\ read[n][e.sector] = "none" /\ e.haveCallback[Guest]
        /\ n = Host =>
            /\ e.haveCallback[Host] => read[Host][e.sector] = "registered"
            /\ e.haveCallback[Guest] => read[Guest][e.sector] \in {"registered", "done"}
            /\ e.haveSent => e.haveCallback[Host] /\ e.haveCallback[Guest]

Entries == \A n \in Consoles, i \in Index : Entry(n, IoctlBuffer[n][i])

\* The host knows of the guest's read; it has put the read in a frame, or passed over it.
Told(s) == read[Host][s] = "done" \/ \E i \in Index : Holds(Host, i, s) /\ IoctlBuffer[Host][i].haveCallback[Guest]
Sent(s) == read[Host][s] = "done" \/ \E i \in Index : Holds(Host, i, s) /\ IoctlBuffer[Host][i].haveSent

\* A read is called back on both consoles after both have issued it.
Agreed ==
    \A s \in Sectors :
        /\ read[Host][s] = "done" => read[Guest][s] \in {"registered", "done"}
        /\ read[Guest][s] = "done" => Sent(s)

\* x is in the queue q; nothing but c is in q twice.
In(x, q) == \E k \in 1 .. Len(q) : q[k] = x
Once(q, c) == \A j, k \in 1 .. Len(q) : q[j] # c /\ q[j] = q[k] => j = k

\* A guest's read on its way to the host is news, and is on its way once.
News ==
    /\ \A s \in Sectors : In(s, toHost) => read[Guest][s] = "registered" /\ ~Told(s)
    /\ Once(toHost, Reading)

\* The callback_sectors that console n comes to.
Coming(n) == IF n = Guest THEN frames[n] \o toGuest ELSE frames[n]

\* Each of them is of a read that the game waits for, and comes once.
Awaited(n, q) ==
    /\ \A s \in Sectors : In(s, q) => read[n][s] = "registered" /\ Sent(s)
    /\ Once(q, NoSector)

DiscInv ==
    /\ Table /\ Queues /\ Issued /\ Held /\ Alone /\ Entries /\ Agreed /\ News
    /\ \A n \in Consoles : Awaited(n, Coming(n))

-----------------------------------------------------------------------------
(* The entry that the allocator finds. *)

\* A set of natural numbers that is not empty has a least one.
LEMMA MinIn ==
    ASSUME NEW T, T \subseteq Nat, T # {}
    PROVE  Min(T) \in T
  <1> DEFINE Less == OpToRel(<, Nat)
  <1>1. IsWellFoundedOn(Less, Nat)
    BY NatLessThanWellFounded
  <1>2. \A x, y \in Nat : y < x => <<y, x>> \in Less
    BY DEF OpToRel
  <1> HIDE DEF Less
  <1>3. PICK x \in T : \A y \in T : ~(<<y, x>> \in Less)
    BY <1>1, WFMin
  <1>4. ASSUME NEW y \in T PROVE x <= y
    <2>1. x \in Nat /\ y \in Nat
      BY <1>3
    <2>2. ~(y < x)
      BY <1>2, <1>3, <2>1
    <2> QED BY <2>1, <2>2
  <1> QED BY <1>3, <1>4 DEF Min

\* So a bounded one has a greatest.
LEMMA MaxIn ==
    ASSUME NEW N \in Nat, NEW T, T \subseteq 0 .. N, T # {}
    PROVE  Max(T) \in T
  <1> DEFINE Less == OpToRel(<, Nat)  U == {N - x : x \in T}
  <1>1. IsWellFoundedOn(Less, Nat)
    BY NatLessThanWellFounded
  <1>2. \A x, y \in Nat : y < x => <<y, x>> \in Less
    BY DEF OpToRel
  <1> HIDE DEF Less
  <1>3. U \subseteq Nat /\ U # {}
    <2>1. \A x \in T : N - x \in Nat
      OBVIOUS
    <2>2. \E x : x \in T
      OBVIOUS
    <2> QED BY <2>1, <2>2
  <1>4. PICK u \in U : \A v \in U : ~(<<v, u>> \in Less)
    BY <1>1, <1>3, WFMin
  <1>5. PICK x \in T : u = N - x
    BY <1>4
  <1>6. ASSUME NEW y \in T PROVE x >= y
    <2>1. N - y \in U /\ N - y \in Nat /\ u \in Nat /\ x \in Nat /\ y \in Nat
      BY <1>3, <1>5
    <2>2. ~(N - y < u)
      BY <1>2, <1>4, <2>1
    <2> QED BY <1>5, <2>1, <2>2
  <1> QED BY <1>5, <1>6 DEF Max

-----------------------------------------------------------------------------
(* Queues. *)

\* Adding to a queue.
LEMMA QueueAppend ==
    ASSUME NEW S, NEW q \in Seq(S), NEW x \in S, NEW c, Once(q, c)
    PROVE  /\ Append(q, x) \in Seq(S)
           /\ \A y : In(y, Append(q, x)) => In(y, q) \/ y = x
           /\ x = c \/ ~In(x, q) => Once(Append(q, x), c)
  <1>1. PICK r : r = Append(q, x)
    OBVIOUS
  <1>2. /\ r \in Seq(S) /\ Len(r) = Len(q) + 1 /\ \A k \in 1 .. Len(q) : r[k] = q[k]
        /\ r[Len(q) + 1] = x /\ Len(q) \in Nat
    BY <1>1, AppendProperties, LenProperties
  <1>3. \A k \in 1 .. Len(r) : k \in 1 .. Len(q) \/ k = Len(q) + 1
    BY <1>2
  <1>4. \A y : In(y, r) => In(y, q) \/ y = x
    BY <1>2, <1>3 DEF In
  <1>5. ASSUME x = c \/ ~In(x, q), NEW j \in 1 .. Len(r), NEW k \in 1 .. Len(r), r[j] # c, r[j] = r[k]
        PROVE  j = k
    <2>1. CASE j \in 1 .. Len(q) /\ k \in 1 .. Len(q)
      BY <1>2, <1>5, <2>1 DEF Once
    <2>2. CASE j = Len(q) + 1 \/ k = Len(q) + 1
      BY <1>2, <1>3, <1>5, <2>2 DEF In
    <2> QED BY <1>3, <2>1, <2>2
  <1>6. x = c \/ ~In(x, q) => Once(r, c)
    BY <1>5 DEF Once
  <1> QED BY <1>1, <1>2, <1>4, <1>6

\* Taking the first of a queue.
LEMMA QueueTail ==
    ASSUME NEW S, NEW q \in Seq(S), q # << >>, NEW c, Once(q, c)
    PROVE  /\ Tail(q) \in Seq(S) /\ Head(q) \in S /\ Head(q) = q[1] /\ In(Head(q), q) /\ Once(Tail(q), c)
           /\ \A y : In(y, Tail(q)) => In(y, q) /\ (Head(q) # c => y # Head(q))
  <1>1. PICK r : r = Tail(q)
    OBVIOUS
  <1>2. /\ r \in Seq(S) /\ Len(r) = Len(q) - 1 /\ \A k \in 1 .. Len(r) : r[k] = q[k + 1]
        /\ Head(q) \in S /\ Head(q) = q[1] /\ Len(q) \in Nat \ {0}
    BY <1>1, HeadTailProperties, EmptySeq
  <1>3. \A k \in 1 .. Len(r) : k + 1 \in 1 .. Len(q) /\ k + 1 # 1 /\ k \in Int
    BY <1>2
  <1>4. 1 \in 1 .. Len(q)
    BY <1>2
  <1>5. ASSUME NEW y, In(y, r) PROVE In(y, q) /\ (Head(q) # c => y # Head(q))
    <2>1. PICK k \in 1 .. Len(r) : r[k] = y
      BY <1>5 DEF In
    <2>2. PICK l : l = k + 1 /\ l \in 1 .. Len(q) /\ l # 1 /\ q[l] = y
      BY <1>2, <1>3, <2>1
    <2> QED BY <1>2, <1>4, <2>2 DEF In, Once
  <1>6. Once(r, c)
    <2>1. ASSUME NEW j \in 1 .. Len(r), NEW k \in 1 .. Len(r), r[j] # c, r[j] = r[k] PROVE j = k
      <3>1. PICK l, m : l = j + 1 /\ m = k + 1 /\ l \in 1 .. Len(q) /\ m \in 1 .. Len(q) /\ q[l] = r[j] /\ q[m] = r[k]
        BY <1>2, <1>3
      <3>2. l = m
        BY <2>1, <3>1 DEF Once
      <3> QED BY <1>3, <3>1, <3>2
    <2> QED BY <2>1 DEF Once
  <1>7. In(Head(q), q)
    BY <1>2, <1>4 DEF In
  <1> QED BY <1>1, <1>2, <1>5, <1>6, <1>7

\* The first of one queue is added to the one before it.
LEMMA QueueMove ==
    ASSUME NEW S, NEW f \in Seq(S), NEW g \in Seq(S), g # << >>
    PROVE  /\ Append(f, Head(g)) \in Seq(S) /\ Tail(g) \in Seq(S)
           /\ Append(f, Head(g)) \o Tail(g) = f \o g
  <1>1. Tail(g) \in Seq(S) /\ Head(g) \in S
    BY HeadTailProperties
  <1>2. /\ Len(f) \in Nat /\ Len(g) \in Nat \ {0} /\ Head(g) = g[1] /\ Len(Tail(g)) = Len(g) - 1
        /\ \A k \in 1 .. Len(Tail(g)) : Tail(g)[k] = g[k + 1]
    BY HeadTailProperties, LenProperties, EmptySeq
  <1>3. PICK h : h = Append(f, Head(g))
    OBVIOUS
  <1>4. /\ h \in Seq(S) /\ Len(h) = Len(f) + 1 /\ \A k \in 1 .. Len(f) : h[k] = f[k]
        /\ h[Len(f) + 1] = g[1]
    BY <1>1, <1>2, <1>3, AppendProperties
  <1>5. PICK u : u = h \o Tail(g)
    OBVIOUS
  <1>6. PICK v : v = f \o g
    OBVIOUS
  <1>7. /\ u \in Seq(S) /\ Len(u) = Len(f) + Len(g)
        /\ \A k \in 1 .. Len(f) + Len(g) : u[k] = IF k <= Len(f) + 1 THEN h[k] ELSE Tail(g)[k - (Len(f) + 1)]
    <2>1. /\ u \in Seq(S) /\ Len(u) = Len(h) + Len(Tail(g))
          /\ \A k \in 1 .. Len(h) + Len(Tail(g)) : u[k] = IF k <= Len(h) THEN h[k] ELSE Tail(g)[k - Len(h)]
      BY <1>1, <1>4, <1>5, ConcatProperties
    <2>2. Len(h) + Len(Tail(g)) = Len(f) + Len(g)
      BY <1>2, <1>4
    <2> QED BY <1>4, <2>1, <2>2
  <1>8. /\ v \in Seq(S) /\ Len(v) = Len(f) + Len(g)
        /\ \A k \in 1 .. Len(f) + Len(g) : v[k] = IF k <= Len(f) THEN f[k] ELSE g[k - Len(f)]
    BY <1>6, ConcatProperties
  <1>9. ASSUME NEW k \in 1 .. Len(f) + Len(g) PROVE u[k] = v[k]
    <2>0. k \in Int
      OBVIOUS
    <2>1. CASE k <= Len(f)
      <3>1. k \in 1 .. Len(f) /\ k <= Len(f) + 1
        BY <1>2, <2>0, <2>1
      <3> QED BY <1>4, <1>7, <1>8, <2>1, <3>1
    <2>2. CASE k = Len(f) + 1
      <3>1. ~(k <= Len(f)) /\ k <= Len(f) + 1 /\ k - Len(f) = 1
        BY <1>2, <2>0, <2>2
      <3> QED BY <1>4, <1>7, <1>8, <2>2, <3>1
    <2>3. CASE k > Len(f) + 1
      <3>1. PICK l : l = k - (Len(f) + 1) /\ l \in 1 .. Len(Tail(g)) /\ k - Len(f) = l + 1
        BY <1>2, <2>0, <2>3
      <3>2. ~(k <= Len(f)) /\ ~(k <= Len(f) + 1)
        BY <1>2, <2>0, <2>3
      <3>3. Tail(g)[l] = g[l + 1]
        BY <1>2, <3>1
      <3>4. u[k] = Tail(g)[l]
        BY <1>7, <3>1, <3>2
      <3>5. v[k] = g[l + 1]
        BY <1>8, <3>1, <3>2
      <3> QED BY <3>3, <3>4, <3>5
    <2> QED BY <1>2, <2>0, <2>1, <2>2, <2>3
  <1>10. u = v
    BY <1>7, <1>8, <1>9, SeqEqual
  <1> QED BY <1>1, <1>3, <1>4, <1>5, <1>6, <1>10

\* What is added to the second of two queues is added to both.
LEMMA QueueBehind ==
    ASSUME NEW S, NEW f \in Seq(S), NEW g \in Seq(S), NEW x \in S
    PROVE  f \o Append(g, x) = Append(f \o g, x)
  <1>1. f \o g \in Seq(S)
    BY ConcatProperties
  <1>2. <<x>> \in Seq(S)
    OBVIOUS
  <1>3. Append(g, x) = g \o <<x>> /\ Append(f \o g, x) = (f \o g) \o <<x>>
    BY <1>1, AppendIsConcat
  <1>4. (f \o g) \o <<x>> = f \o (g \o <<x>>)
    BY <1>2, ConcatAssociative
  <1> QED BY <1>3, <1>4

\* What is taken from the first of two queues is taken from both.
LEMMA QueueBefore ==
    ASSUME NEW S, NEW f \in Seq(S), NEW g \in Seq(S), f # << >>
    PROVE  f \o g \in Seq(S) /\ f \o g # << >> /\ Head(f \o g) = Head(f) /\ Tail(f \o g) = Tail(f) \o g
  <1>1. PICK v : v = f \o g
    OBVIOUS
  <1>2. PICK h : h = Tail(f)
    OBVIOUS
  <1>3. /\ Len(f) \in Nat \ {0} /\ Len(g) \in Nat /\ Head(f) = f[1] /\ h \in Seq(S) /\ Len(h) = Len(f) - 1
        /\ \A k \in 1 .. Len(h) : h[k] = f[k + 1]
    BY <1>2, HeadTailProperties, LenProperties, EmptySeq
  <1>4. /\ v \in Seq(S) /\ Len(v) = Len(f) + Len(g)
        /\ \A k \in 1 .. Len(f) + Len(g) : v[k] = IF k <= Len(f) THEN f[k] ELSE g[k - Len(f)]
    BY <1>1, ConcatProperties
  <1>5. v # << >>
    <2>1. Len(v) # 0
      BY <1>3, <1>4
    <2> QED BY <2>1, EmptySeq
  <1>6. Head(v) = Head(f)
    <2>1. 1 \in 1 .. Len(f) + Len(g) /\ 1 <= Len(f)
      BY <1>3
    <2>2. v[1] = f[1]
      BY <1>4, <2>1
    <2> QED BY <1>3, <1>4, <1>5, <2>2
  <1>7. PICK u : u = h \o g
    OBVIOUS
  <1>8. /\ u \in Seq(S) /\ Len(u) = Len(h) + Len(g)
        /\ \A k \in 1 .. Len(h) + Len(g) : u[k] = IF k <= Len(h) THEN h[k] ELSE g[k - Len(h)]
    BY <1>3, <1>7, ConcatProperties
  <1>9. PICK w : w = Tail(v)
    OBVIOUS
  <1>10. w \in Seq(S) /\ Len(w) = Len(v) - 1 /\ \A k \in 1 .. Len(w) : w[k] = v[k + 1]
    BY <1>4, <1>5, <1>9, HeadTailProperties
  <1>11. Len(w) = Len(u)
    BY <1>3, <1>4, <1>8, <1>10
  <1>12. ASSUME NEW k \in 1 .. Len(w) PROVE w[k] = u[k]
    <2>1. k \in Int /\ k \in 1 .. Len(h) + Len(g) /\ k + 1 \in 1 .. Len(f) + Len(g)
      BY <1>3, <1>4, <1>8, <1>10, <1>11
    <2>2. CASE k <= Len(h)
      <3>1. k \in 1 .. Len(h) /\ k + 1 <= Len(f)
        BY <1>3, <2>1, <2>2
      <3> QED BY <1>3, <1>4, <1>8, <1>10, <2>1, <2>2, <3>1
    <2>3. CASE ~(k <= Len(h))
      <3>1. ~(k + 1 <= Len(f)) /\ (k + 1) - Len(f) = k - Len(h)
        BY <1>3, <2>1, <2>3
      <3>2. v[k + 1] = g[(k + 1) - Len(f)]
        BY <1>4, <2>1, <3>1
      <3>3. u[k] = g[k - Len(h)]
        BY <1>8, <2>1, <2>3
      <3> QED BY <1>10, <3>1, <3>2, <3>3
    <2> QED BY <2>2, <2>3
  <1>13. w = u
    BY <1>8, <1>10, <1>11, <1>12, SeqEqual
  <1> QED BY <1>1, <1>2, <1>4, <1>5, <1>6, <1>7, <1>9, <1>13

-----------------------------------------------------------------------------
(* Steps on the table and on the reads, point by point. *)

\* Entry i of console n becomes e; a read of console n gets to x.
Stores(n, i, e) == IoctlBuffer' = [IoctlBuffer EXCEPT ![n][i] = e]
Becomes(n, s, x) == read' = [read EXCEPT ![n][s] = x]

\* One entry changes.
LEMMA EntryPoint ==
    ASSUME Table, NEW n \in Consoles, NEW i \in Index, NEW e, IsEntry(e), Stores(n, i, e)
    PROVE  /\ Table' /\ IoctlBuffer'[n][i] = e
           /\ \A m \in Consoles, j \in Index : m # n \/ j # i => IoctlBuffer'[m][j] = IoctlBuffer[m][j]
  <1> USE DEF Stores
  <1>1. IoctlBuffer'[n][i] = e
    BY DEF Table
  <1>2. \A m \in Consoles, j \in Index : m # n \/ j # i => IoctlBuffer'[m][j] = IoctlBuffer[m][j]
    BY DEF Table
  <1>3. DOMAIN IoctlBuffer' = Consoles /\ \A m \in Consoles : DOMAIN IoctlBuffer'[m] = Index
    BY DEF Table
  <1>4. \A m \in Consoles, j \in Index : IsEntry(IoctlBuffer'[m][j])
    BY <1>1, <1>2 DEF Table
  <1>5. Table'
    BY <1>3, <1>4 DEF Table
  <1> QED BY <1>1, <1>2, <1>5

\* One read changes.
LEMMA ReadPoint ==
    ASSUME Issued, NEW n \in Consoles, NEW s \in Sectors, NEW x, Becomes(n, s, x)
    PROVE  /\ DOMAIN read' = Consoles /\ \A m \in Consoles : DOMAIN read'[m] = Sectors
           /\ read'[n][s] = x
           /\ \A m \in Consoles, t \in Sectors : m # n \/ t # s => read'[m][t] = read[m][t]
  BY DEF Issued, Becomes

\* IoctlBufferAllocator finds the entry of the sector, or makes a free one it.
LEMMA Alloc ==
    ASSUME Table, NEW n \in Consoles, NEW s, Candidates(n, s) # {}, NEW i, i = Min(Candidates(n, s)),
           NEW e, e = Allocated(n, s, i)
    PROVE  /\ i \in Index /\ IsEntry(e) /\ e.state # 0
           /\ \/ Holds(n, i, s) /\ e = IoctlBuffer[n][i]
              \/ /\ IoctlBuffer[n][i].state = 0 /\ \A j \in Index : ~Holds(n, j, s)
                 /\ e.state = 1 /\ e.sector = s /\ ~e.pending /\ ~e.haveSent
                 /\ ~e.haveCallback[Host] /\ ~e.haveCallback[Guest]
  <1>1. Candidates(n, s) \subseteq Index /\ Index \subseteq Nat
    BY DiscAssumption DEF Candidates, Holding, Free, Index
  <1>2. i \in Candidates(n, s)
    BY <1>1, MinIn
  <1>3. \A j \in Index : j \in Holding(n, s) <=> Holds(n, j, s)
    <2> TAKE j \in Index
    <2>1. IoctlBuffer[n][j].state \in {0, 1, 2}
      BY DEF Table, IsEntry
    <2>2. IoctlBuffer[n][j].state >= 1 <=> IoctlBuffer[n][j].state # 0
      BY <2>1
    <2> QED BY <2>2 DEF Holding, Holds
  <1>4. i \in Index
    BY <1>1, <1>2
  <1>5. CASE Holding(n, s) # {}
    <2>1. Holds(n, i, s)
      BY <1>2, <1>3, <1>4, <1>5 DEF Candidates
    <2>2. e = IoctlBuffer[n][i] /\ e.state # 0
      BY <2>1 DEF Holds, Allocated
    <2>3. IsEntry(e)
      BY <1>4, <2>2 DEF Table
    <2> QED BY <1>4, <2>1, <2>2, <2>3
  <1>6. CASE Holding(n, s) = {}
    <2>1. IoctlBuffer[n][i].state = 0
      BY <1>2, <1>6 DEF Candidates, Free
    <2>2. \A j \in Index : ~Holds(n, j, s)
      BY <1>3, <1>6
    <2>3. e = [EmptyEntry EXCEPT !.state = 1, !.sector = s]
      BY <2>1 DEF Allocated
    <2>4. /\ DOMAIN e = {"state", "sector", "pending", "haveCallback", "haveSent"}
          /\ e.state = 1 /\ e.sector = s /\ e.pending = FALSE /\ e.haveSent = FALSE
          /\ e.haveCallback = [m \in Consoles |-> FALSE]
      BY <2>3 DEF EmptyEntry
    <2>5. IsEntry(e)
      BY <2>4 DEF IsEntry
    <2>6. e.haveCallback[Host] = FALSE /\ e.haveCallback[Guest] = FALSE
      BY <2>4 DEF Consoles
    <2> QED BY <1>4, <2>1, <2>2, <2>4, <2>5, <2>6
  <1> QED BY <1>5, <1>6

\* Entry i of console n is free for the sector s, or is already its entry; only this entry changes.
Fits(n, i, s) == Holds(n, i, s) \/ (IoctlBuffer[n][i].state = 0 /\ \A j \in Index : ~Holds(n, j, s))
Only(n, i) == \A m \in Consoles, j \in Index : m # n \/ j # i => IoctlBuffer'[m][j] = IoctlBuffer[m][j]

(***************************************************************************)
(* An entry of the sector s is changed, or a free one becomes it: every    *)
(* entry is still that of its sector, and no other one is new.             *)
(***************************************************************************)
LEMMA Put ==
    ASSUME Alone, NEW n \in Consoles, NEW i \in Index, NEW s,
           IoctlBuffer'[n][i].state # 0, IoctlBuffer'[n][i].sector = s, Only(n, i), Fits(n, i, s)
    PROVE  /\ Alone' /\ Holds(n, i, s)'
           /\ \A m \in Consoles, j \in Index, t \in Sectors : Holds(m, j, t) => Holds(m, j, t)'
           /\ \A m \in Consoles, j \in Index, t \in Sectors :
                 Holds(m, j, t)' => Holds(m, j, t) \/ (m = n /\ j = i /\ t = s)
  <1> USE DEF Only, Fits
  <1>1. Holds(n, i, s)'
    BY DEF Holds
  <1>2. \A m \in Consoles, j \in Index, t \in Sectors : Holds(m, j, t) => Holds(m, j, t)'
    BY DEF Holds
  <1>3. \A m \in Consoles, j \in Index, t \in Sectors :
            Holds(m, j, t)' => Holds(m, j, t) \/ (m = n /\ j = i /\ t = s)
    BY DEF Holds
  <1>4. ASSUME NEW m \in Consoles, NEW t \in Sectors, NEW j \in Index, NEW k \in Index,
               Holds(m, j, t)', Holds(m, k, t)'
        PROVE  j = k
    <2>1. CASE t = s /\ m = n
      <3>1. CASE Holds(n, i, s)
        BY <1>3, <1>4, <2>1, <3>1 DEF Alone
      <3>2. CASE \A l \in Index : ~Holds(n, l, s)
        BY <1>3, <1>4, <2>1, <3>2
      <3> QED BY <3>1, <3>2
    <2>2. CASE ~(t = s /\ m = n)
      BY <1>3, <1>4, <2>2 DEF Alone
    <2> QED BY <2>1, <2>2
  <1>5. Alone'
    BY <1>4 DEF Alone
  <1> QED BY <1>1, <1>2, <1>3, <1>5

\* What is to come is still awaited when its reads still are.
LEMMA KeepsAwaited ==
    ASSUME NEW n \in Consoles, Awaited(n, Coming(n)), UNCHANGED <<frames, toGuest>>,
           \A s \in Sectors : read[n][s] = "registered" => read'[n][s] = "registered",
           \A s \in Sectors : Sent(s) => Sent(s)'
    PROVE  Awaited(n, Coming(n))'
  <1>1. PICK q : q = Coming(n) /\ q = Coming(n)'
    BY DEF Coming
  <1> QED BY <1>1 DEF Awaited, In, Once

\* What is on its way to the host is still news.
LEMMA KeepsNews ==
    ASSUME News, UNCHANGED toHost,
           \A s \in Sectors : read[Guest][s] = "registered" /\ ~Told(s) =>
               read'[Guest][s] = "registered" /\ ~Told(s)'
    PROVE  News'
  BY DEF News, In, Once

\* What the host knows of the guest's reads is true.
LEMMA ToldGuest ==
    ASSUME DiscInv, NEW s \in Sectors
    PROVE  (Told(s) => read[Guest][s] \in {"registered", "done"}) /\ (Sent(s) => Told(s))
  <1> USE DEF DiscInv
  <1>1. \A i \in Index : Entry(Host, IoctlBuffer[Host][i])
    BY DEF Entries, Consoles
  <1>2. ASSUME NEW i \in Index, Holds(Host, i, s)
        PROVE  /\ IoctlBuffer[Host][i].haveCallback[Guest] => read[Guest][s] \in {"registered", "done"}
               /\ IoctlBuffer[Host][i].haveSent => IoctlBuffer[Host][i].haveCallback[Guest]
    BY <1>1, <1>2 DEF Entry, Holds
  <1> QED BY <1>2 DEF Told, Sent, Agreed

-----------------------------------------------------------------------------
(* The steps. *)

\* The disc answers.
LEMMA OurCallbackKeeps ==
    ASSUME DiscInv, NEW n \in Consoles, NEW i \in Index, ourCallback(n, i)
    PROVE  DiscInv'
  <1> USE DEF DiscInv
  <1>1. PICK e : e = IoctlBuffer[n][i]
    OBVIOUS
  <1>2. e.pending /\ e.state = 1 /\ e.sector \in Sectors /\ read[n][e.sector] # "none" /\ Entry(n, e) /\ IsEntry(e)
    <2>1. Entry(n, e) /\ IsEntry(e) /\ e.pending
      BY <1>1 DEF ourCallback, Entries, Table
    <2> QED BY <2>1 DEF Entry
  <1>3. UNCHANGED <<issued, read, toHost, frames, toGuest>>
    BY DEF ourCallback
  <1>4. /\ \A m \in Consoles, j \in Index : m # n \/ j # i => IoctlBuffer'[m][j] = IoctlBuffer[m][j]
        /\ DOMAIN IoctlBuffer' = Consoles /\ \A m \in Consoles : DOMAIN IoctlBuffer'[m] = Index
    BY DEF ourCallback, Table
  <1>5. PICK f : f = IoctlBuffer'[n][i]
    OBVIOUS
  <1>6. /\ DOMAIN f = DOMAIN e /\ f.state = 2 /\ f.pending = FALSE
        /\ f.sector = e.sector /\ f.haveCallback = e.haveCallback /\ f.haveSent = e.haveSent
    BY <1>1, <1>2, <1>5 DEF ourCallback, Table, IsEntry
  <1>7. Table'
    <2>1. IsEntry(f)
      BY <1>2, <1>6 DEF IsEntry
    <2> QED BY <1>4, <1>5, <2>1 DEF Table
  <1>8. /\ Alone' /\ \A m \in Consoles, j \in Index, t \in Sectors : Holds(m, j, t) => Holds(m, j, t)'
        /\ \A m \in Consoles, j \in Index, t \in Sectors :
              Holds(m, j, t)' => Holds(m, j, t) \/ (m = n /\ j = i /\ t = e.sector)
    <2>1. Holds(n, i, e.sector) /\ IoctlBuffer'[n][i].state # 0 /\ IoctlBuffer'[n][i].sector = e.sector
      BY <1>1, <1>2, <1>5, <1>6 DEF Holds
    <2>2. Only(n, i) /\ Fits(n, i, e.sector)
      BY <1>4, <2>1 DEF Only, Fits
    <2> QED BY <2>1, <2>2, Put
  <1>9. \A m \in Consoles, j \in Index, t \in Sectors : Holds(m, j, t)' <=> Holds(m, j, t)
    BY <1>1, <1>2, <1>8 DEF Holds
  <1>10. \A m \in Consoles, j \in Index : /\ IoctlBuffer'[m][j].haveCallback = IoctlBuffer[m][j].haveCallback
                                          /\ IoctlBuffer'[m][j].haveSent = IoctlBuffer[m][j].haveSent
    BY <1>1, <1>4, <1>5, <1>6
  <1>11. \A s \in Sectors : (Told(s)' <=> Told(s)) /\ (Sent(s)' <=> Sent(s))
    BY <1>3, <1>9, <1>10 DEF Told, Sent, Consoles
  <1>12. Held' /\ Issued' /\ Queues' /\ Agreed'
    BY <1>3, <1>9, <1>11 DEF Held, Issued, Queues, Agreed
  <1>13. Entries'
    <2>1. Entry(n, f)'
      <3>1. Entry(n, f)
        BY <1>2, <1>6 DEF Entry
      <3> QED BY <1>3, <3>1 DEF Entry
    <2>2. ASSUME NEW m \in Consoles, NEW j \in Index PROVE Entry(m, IoctlBuffer[m][j])'
      <3>1. CASE m = n /\ j = i
        BY <1>5, <2>1, <3>1
      <3>2. CASE m # n \/ j # i
        <4>1. Entry(m, IoctlBuffer[m][j])
          BY DEF Entries
        <4>2. IoctlBuffer'[m][j] = IoctlBuffer[m][j]
          BY <1>4, <3>2
        <4> QED BY <1>3, <4>1, <4>2 DEF Entry
      <3> QED BY <3>1, <3>2
    <2> QED BY <2>2 DEF Entries
  <1>14. News'
    BY <1>3, <1>11, KeepsNews
  <1>15. \A m \in Consoles : Awaited(m, Coming(m))'
    BY <1>3, <1>11, KeepsAwaited
  <1> QED BY <1>7, <1>8, <1>12, <1>13, <1>14, <1>15

\* The game issues its next read and IOS takes it.
LEMMA IssueGranted ==
    ASSUME DiscInv, NEW n \in Consoles, NEW s, s = issued[n] + 1, s \in Sectors, s \notin Refused,
           Candidates(n, s) # {}, NEW i, i = Min(Candidates(n, s)),
           NEW a, a = Allocated(n, s, i), NEW e, e = [a EXCEPT !.pending = TRUE], Stores(n, i, e),
           issued' = [issued EXCEPT ![n] = s], Becomes(n, s, "issued"),
           UNCHANGED <<toHost, frames, toGuest>>
    PROVE  DiscInv'
  <1> USE DEF DiscInv
  <1>2. /\ i \in Index /\ IsEntry(a) /\ a.state # 0
        /\ \/ Holds(n, i, s) /\ a = IoctlBuffer[n][i]
           \/ /\ IoctlBuffer[n][i].state = 0 /\ \A j \in Index : ~Holds(n, j, s)
              /\ a.state = 1 /\ a.sector = s /\ ~a.pending /\ ~a.haveSent
              /\ ~a.haveCallback[Host] /\ ~a.haveCallback[Guest]
    BY Alloc
  <1>3. /\ DOMAIN e = DOMAIN a /\ e.pending = TRUE /\ e.state = a.state /\ e.sector = a.sector
        /\ e.haveCallback = a.haveCallback /\ e.haveSent = a.haveSent /\ IsEntry(e)
    BY <1>2 DEF IsEntry
  <1>4. /\ Table' /\ IoctlBuffer'[n][i] = e
        /\ \A m \in Consoles, j \in Index : m # n \/ j # i => IoctlBuffer'[m][j] = IoctlBuffer[m][j]
    BY <1>2, <1>3, EntryPoint
  <1>5. /\ DOMAIN read' = Consoles /\ \A m \in Consoles : DOMAIN read'[m] = Sectors
        /\ read'[n][s] = "issued"
        /\ \A m \in Consoles, t \in Sectors : m # n \/ t # s => read'[m][t] = read[m][t]
    BY ReadPoint
  <1>6. read[n][s] = "none" /\ e.sector = s /\ e.state = 1
    <2>1. issued[n] \in Nat
      BY DEF Issued
    <2>2. s > issued[n]
      BY <2>1
    <2>3. read[n][s] = "none"
      BY <2>2 DEF Issued
    <2>4. CASE Holds(n, i, s) /\ a = IoctlBuffer[n][i]
      <3>1. Entry(n, a) /\ a.sector = s
        BY <1>2, <2>4 DEF Entries, Holds
      <3> QED BY <1>2, <1>3, <2>3, <3>1 DEF Entry, IsEntry
    <2> QED BY <1>2, <1>3, <2>3, <2>4
  <1>7. /\ Alone' /\ Holds(n, i, s)'
        /\ \A m \in Consoles, j \in Index, t \in Sectors : Holds(m, j, t) => Holds(m, j, t)'
        /\ \A m \in Consoles, j \in Index, t \in Sectors :
              Holds(m, j, t)' => Holds(m, j, t) \/ (m = n /\ j = i /\ t = s)
    <2>1. IoctlBuffer'[n][i].state # 0 /\ IoctlBuffer'[n][i].sector = s /\ Only(n, i)
      BY <1>2, <1>4, <1>6 DEF Only
    <2>2. Fits(n, i, s)
      BY <1>2 DEF Fits
    <2> QED BY <1>2, <2>1, <2>2, Put
  <1>8. Queues'
    BY DEF Queues
  <1>9. Issued'
    <2>1. DOMAIN issued' = Consoles /\ issued'[n] = s /\ \A m \in Consoles : m # n => issued'[m] = issued[m]
      BY DEF Issued
    <2>2. s \in Nat /\ issued[n] \in Nat
      BY DEF Issued
    <2>3. ASSUME NEW m \in Consoles, NEW t \in Sectors
          PROVE  /\ read'[m][t] \in {"none", "issued", "registered", "done", "refused"}
                 /\ read'[m][t] = "none" <=> t > issued'[m]
                 /\ read'[m][t] \in {"issued", "registered", "done"} => t \notin Refused
                 /\ read'[m][t] = "refused" => t \in Refused
      <3>1. CASE m = n /\ t = s
        <4>1. ~(t > issued'[m])
          BY <2>1, <2>2, <3>1
        <4> QED BY <1>5, <3>1, <4>1
      <3>2. CASE m = n /\ t # s
        <4>1. t > issued[m] <=> t > issued'[m]
          <5>1. t \in Int
            BY DEF Sectors
          <5> QED BY <2>1, <2>2, <3>2, <5>1
        <4> QED BY <1>5, <3>2, <4>1 DEF Issued
      <3>3. CASE m # n
        BY <1>5, <2>1, <3>3 DEF Issued
      <3> QED BY <3>1, <3>2, <3>3
    <2>4. \A m \in Consoles : issued'[m] \in Nat
      BY <2>1, <2>2 DEF Issued
    <2> QED BY <1>5, <2>1, <2>3, <2>4 DEF Issued
  <1>10. Held'
    <2>1. ASSUME NEW m \in Consoles, NEW t \in Sectors, read'[m][t] \in {"issued", "registered"}
          PROVE  \E j \in Index : Holds(m, j, t)'
      <3>1. CASE m = n /\ t = s
        BY <1>2, <1>7, <3>1
      <3>2. CASE m # n \/ t # s
        BY <1>5, <1>7, <2>1, <3>2 DEF Held
      <3> QED BY <3>1, <3>2
    <2> QED BY <2>1 DEF Held
  <1>11. /\ \A t \in Sectors : Told(t)' => Told(t)
         /\ \A t \in Sectors : Sent(t) => Sent(t)'
    <2>0. Host \in Consoles
      BY DEF Consoles
    <2>1. \A t \in Sectors : read'[Host][t] = "done" <=> read[Host][t] = "done"
      BY <1>5, <1>6, <2>0
    <2>2. ASSUME NEW t \in Sectors, NEW j \in Index, Holds(Host, j, t)', IoctlBuffer'[Host][j].haveCallback[Guest]
          PROVE  Holds(Host, j, t) /\ IoctlBuffer[Host][j].haveCallback[Guest]
      <3>1. CASE n = Host /\ j = i
        <4>1. a.haveCallback[Guest]
          BY <1>3, <1>4, <2>2, <3>1
        <4> QED BY <1>2, <1>7, <2>0, <2>2, <3>1, <4>1
      <3>2. CASE n # Host \/ j # i
        BY <1>4, <1>7, <2>0, <2>2, <3>2
      <3> QED BY <3>1, <3>2
    <2>3. ASSUME NEW t \in Sectors, NEW j \in Index, Holds(Host, j, t), IoctlBuffer[Host][j].haveSent
          PROVE  Holds(Host, j, t)' /\ IoctlBuffer'[Host][j].haveSent
      <3>1. CASE n = Host /\ j = i
        <4>1. a = IoctlBuffer[Host][j]
          BY <1>2, <2>3, <3>1 DEF Holds
        <4> QED BY <1>3, <1>4, <1>7, <2>0, <2>3, <3>1, <4>1
      <3>2. CASE n # Host \/ j # i
        BY <1>4, <1>7, <2>0, <2>3, <3>2
      <3> QED BY <3>1, <3>2
    <2> QED BY <2>1, <2>2, <2>3 DEF Told, Sent
  <1>12. Entries'
    <2>1. ASSUME NEW m \in Consoles, NEW j \in Index PROVE Entry(m, IoctlBuffer[m][j])'
      <3>1. CASE m = n /\ j = i
        <4>1. CASE Holds(n, i, s) /\ a = IoctlBuffer[n][i]
          <5>1. Entry(n, a)
            BY <1>2, <4>1 DEF Entries
          <5>2. n = Host => read'[Guest][s] = read[Guest][s]
            BY <1>5 DEF Host, Guest, Consoles
          <5>3. Entry(n, e)'
            BY <1>3, <1>5, <1>6, <5>1, <5>2 DEF Entry
          <5> QED BY <1>4, <3>1, <5>3
        <4>2. CASE ~a.haveSent /\ ~a.haveCallback[Host] /\ ~a.haveCallback[Guest]
          <5>1. Entry(n, e)'
            BY <1>3, <1>5, <1>6, <4>2 DEF Entry
          <5> QED BY <1>4, <3>1, <5>1
        <4> QED BY <1>2, <4>1, <4>2
      <3>2. CASE m # n \/ j # i
        <4>1. PICK x : x = IoctlBuffer[m][j] /\ x = IoctlBuffer'[m][j]
          BY <1>4, <3>2
        <4>2. Entry(m, x)
          BY <4>1 DEF Entries
        <4>3. x.state # 0 /\ m = n => x.sector # s
          <5>1. ASSUME x.state # 0, m = n, x.sector = s PROVE FALSE
            <6>1. Holds(n, j, s)'
              BY <4>1, <5>1 DEF Holds
            <6>2. j = i
              BY <1>2, <1>7, <6>1 DEF Alone
            <6> QED BY <3>2, <5>1, <6>2
          <5> QED BY <5>1
        <4>4. x.state # 0 => read'[m][x.sector] = read[m][x.sector]
          BY <1>5, <4>2, <4>3 DEF Entry
        <4>5. x.state # 0 /\ m = Host /\ read[Guest][x.sector] \in {"registered", "done"} =>
                read'[Guest][x.sector] = read[Guest][x.sector]
          <5>1. x.state # 0 => x.sector \in Sectors
            BY <4>2 DEF Entry
          <5> QED BY <1>5, <1>6, <5>1 DEF Consoles
        <4>6. Entry(m, x)'
          BY <4>2, <4>4, <4>5 DEF Entry
        <4> QED BY <4>1, <4>6
      <3> QED BY <3>1, <3>2
    <2> QED BY <2>1 DEF Entries
  <1>13. Agreed'
    <2>1. ASSUME NEW t \in Sectors
          PROVE  /\ read'[Host][t] = "done" => read'[Guest][t] \in {"registered", "done"}
                 /\ read'[Guest][t] = "done" => Sent(t)'
      <3>1. Host \in Consoles /\ Guest \in Consoles
        BY DEF Consoles
      <3>2. /\ read'[Host][t] = "done" => read[Host][t] = "done"
            /\ read'[Guest][t] = "done" => read[Guest][t] = "done"
            /\ read[Guest][t] \in {"registered", "done"} => read'[Guest][t] = read[Guest][t]
        BY <1>5, <1>6, <3>1
      <3> QED BY <1>11, <3>2 DEF Agreed
    <2> QED BY <2>1 DEF Agreed
  <1>14. News'
    <2>1. \A t \in Sectors : read[Guest][t] = "registered" => read'[Guest][t] = "registered"
      BY <1>5, <1>6 DEF Consoles
    <2> QED BY <1>11, <2>1, KeepsNews
  <1>15. \A m \in Consoles : Awaited(m, Coming(m))'
    <2>1. \A m \in Consoles, t \in Sectors : read[m][t] = "registered" => read'[m][t] = "registered"
      BY <1>5, <1>6
    <2> QED BY <1>11, <2>1, KeepsAwaited
  <1> QED BY <1>4, <1>7, <1>8, <1>9, <1>10, <1>12, <1>13, <1>14, <1>15

\* The game issues its next read and IOS refuses it: the guest cannot have told the host of it.
LEMMA IssueRefused ==
    ASSUME DiscInv, NEW n \in Consoles, NEW s, s = issued[n] + 1, s \in Sectors, s \in Refused,
           Candidates(n, s) # {}, NEW i, i = Min(Candidates(n, s)),
           NEW a, a = Allocated(n, s, i), NEW e, e = [a EXCEPT !.state = 0], Stores(n, i, e),
           issued' = [issued EXCEPT ![n] = s], Becomes(n, s, "refused"),
           UNCHANGED <<toHost, frames, toGuest>>
    PROVE  DiscInv'
  <1> USE DEF DiscInv
  <1>1. read[n][s] = "none"
    <2>1. issued[n] \in Nat
      BY DEF Issued
    <2>2. s > issued[n]
      BY <2>1
    <2> QED BY <2>2 DEF Issued
  <1>2. /\ i \in Index /\ IsEntry(a) /\ IoctlBuffer[n][i].state = 0 /\ ~a.pending
    <2>1. /\ i \in Index /\ IsEntry(a) /\ a.state # 0
          /\ \/ Holds(n, i, s) /\ a = IoctlBuffer[n][i]
             \/ IoctlBuffer[n][i].state = 0 /\ ~a.pending
      BY Alloc
    <2>2. ~Holds(n, i, s)
      <3> SUFFICES ASSUME Holds(n, i, s) PROVE FALSE
        OBVIOUS
      <3>1. Entry(n, IoctlBuffer[n][i]) /\ IoctlBuffer[n][i].state # 0 /\ IoctlBuffer[n][i].sector = s
        BY <2>1 DEF Entries, Holds
      <3>2. n = Host /\ IoctlBuffer[n][i].haveCallback[Guest]
        BY <1>1, <3>1 DEF Entry
      <3>3. read[Guest][s] \in {"registered", "done"}
        BY <3>1, <3>2 DEF Entry
      <3> QED BY <3>3 DEF Issued, Consoles
    <2> QED BY <2>1, <2>2
  <1>3. DOMAIN e = DOMAIN a /\ e.state = 0 /\ e.pending = a.pending /\ e.haveCallback = a.haveCallback /\ IsEntry(e)
    BY <1>2 DEF IsEntry
  <1>4. /\ Table' /\ IoctlBuffer'[n][i] = e
        /\ \A m \in Consoles, j \in Index : m # n \/ j # i => IoctlBuffer'[m][j] = IoctlBuffer[m][j]
    BY <1>2, <1>3, EntryPoint
  <1>5. /\ DOMAIN read' = Consoles /\ \A m \in Consoles : DOMAIN read'[m] = Sectors
        /\ read'[n][s] = "refused"
        /\ \A m \in Consoles, t \in Sectors : m # n \/ t # s => read'[m][t] = read[m][t]
    BY ReadPoint
  <1>6. \A m \in Consoles, j \in Index, t \in Sectors : Holds(m, j, t)' <=> Holds(m, j, t)
    BY <1>2, <1>3, <1>4 DEF Holds
  <1>7. \A m \in Consoles, j \in Index, t \in Sectors : Holds(m, j, t) => IoctlBuffer'[m][j] = IoctlBuffer[m][j]
    BY <1>2, <1>4 DEF Holds
  <1>8. Queues' /\ Alone'
    BY <1>6 DEF Queues, Alone
  <1>9. Issued'
    <2>1. DOMAIN issued' = Consoles /\ issued'[n] = s /\ \A m \in Consoles : m # n => issued'[m] = issued[m]
      BY DEF Issued
    <2>2. s \in Nat /\ issued[n] \in Nat
      BY DEF Issued
    <2>3. ASSUME NEW m \in Consoles, NEW t \in Sectors
          PROVE  /\ read'[m][t] \in {"none", "issued", "registered", "done", "refused"}
                 /\ read'[m][t] = "none" <=> t > issued'[m]
                 /\ read'[m][t] \in {"issued", "registered", "done"} => t \notin Refused
                 /\ read'[m][t] = "refused" => t \in Refused
      <3>1. CASE m = n /\ t = s
        <4>1. ~(t > issued'[m])
          BY <2>1, <2>2, <3>1
        <4> QED BY <1>5, <3>1, <4>1
      <3>2. CASE m = n /\ t # s
        <4>1. t > issued[m] <=> t > issued'[m]
          <5>1. t \in Int
            BY DEF Sectors
          <5> QED BY <2>1, <2>2, <3>2, <5>1
        <4> QED BY <1>5, <3>2, <4>1 DEF Issued
      <3>3. CASE m # n
        BY <1>5, <2>1, <3>3 DEF Issued
      <3> QED BY <3>1, <3>2, <3>3
    <2>4. \A m \in Consoles : issued'[m] \in Nat
      BY <2>1, <2>2 DEF Issued
    <2> QED BY <1>5, <2>1, <2>3, <2>4 DEF Issued
  <1>10. Held'
    BY <1>5, <1>6 DEF Held
  <1>11. \A t \in Sectors : (Told(t)' <=> Told(t)) /\ (Sent(t)' <=> Sent(t))
    <2>1. Host \in Consoles
      BY DEF Consoles
    <2>2. \A t \in Sectors : read'[Host][t] = "done" <=> read[Host][t] = "done"
      BY <1>1, <1>5, <2>1
    <2> QED BY <1>6, <1>7, <2>1, <2>2 DEF Told, Sent
  <1>12. \A m \in Consoles, t \in Sectors : read[m][t] \in {"issued", "registered", "done"} => read'[m][t] = read[m][t]
    BY <1>1, <1>5
  <1>13. Entries'
    <2>1. ASSUME NEW m \in Consoles, NEW j \in Index PROVE Entry(m, IoctlBuffer[m][j])'
      <3>1. CASE m = n /\ j = i
        <4>1. Entry(n, e)'
          BY <1>2, <1>3 DEF Entry
        <4> QED BY <1>4, <3>1, <4>1
      <3>2. CASE m # n \/ j # i
        <4>1. PICK x : x = IoctlBuffer[m][j] /\ x = IoctlBuffer'[m][j]
          BY <1>4, <3>2
        <4>2. Entry(m, x)
          BY <4>1 DEF Entries
        <4>3. CASE x.state = 0
          BY <4>1, <4>2, <4>3 DEF Entry
        <4>4. CASE x.state # 0
          <5>1. x.sector \in Sectors
            BY <4>2, <4>4 DEF Entry
          <5>2. x.sector # s \/ m # n
            <6> SUFFICES ASSUME x.sector = s, m = n PROVE FALSE
              OBVIOUS
            <6>1. n = Host /\ x.haveCallback[Guest]
              BY <1>1, <4>2, <4>4 DEF Entry
            <6>2. read[Guest][s] \in {"registered", "done"}
              BY <4>2, <4>4, <6>1 DEF Entry
            <6> QED BY <6>2 DEF Issued, Consoles
          <5>3. read'[m][x.sector] = read[m][x.sector]
            BY <1>5, <5>1, <5>2
          <5>4. read[Guest][x.sector] \in {"registered", "done"} => read'[Guest][x.sector] = read[Guest][x.sector]
            BY <1>12, <5>1 DEF Consoles
          <5>5. Entry(m, x)'
            BY <4>2, <5>1, <5>3, <5>4 DEF Entry
          <5> QED BY <4>1, <5>5
        <4> QED BY <4>3, <4>4
      <3> QED BY <3>1, <3>2
    <2> QED BY <2>1 DEF Entries
  <1>14. Agreed'
    <2>1. Host \in Consoles /\ Guest \in Consoles
      BY DEF Consoles
    <2>2. \A m \in Consoles, t \in Sectors : read'[m][t] = "done" => read[m][t] = "done"
      BY <1>5
    <2> QED BY <1>11, <1>12, <2>1, <2>2 DEF Agreed
  <1>15. News'
    <2>1. \A t \in Sectors : read[Guest][t] = "registered" => read'[Guest][t] = "registered"
      BY <1>12 DEF Consoles
    <2> QED BY <1>11, <2>1, KeepsNews
  <1>16. \A m \in Consoles : Awaited(m, Coming(m))'
    BY <1>11, <1>12, KeepsAwaited
  <1> QED BY <1>4, <1>8, <1>9, <1>10, <1>13, <1>14, <1>15, <1>16

\* The game issues its next read.
LEMMA IssueReadKeeps ==
    ASSUME DiscInv, NEW n \in Consoles, IssueRead(n)
    PROVE  DiscInv'
  <1>1. PICK s, i : s = issued[n] + 1 /\ i = Min(Candidates(n, s))
    OBVIOUS
  <1>2. /\ s \in Sectors /\ Candidates(n, s) # {} /\ issued' = [issued EXCEPT ![n] = s]
        /\ UNCHANGED <<toHost, frames, toGuest>>
    BY <1>1 DEF IssueRead
  <1>3. PICK a : a = Allocated(n, s, i)
    OBVIOUS
  <1>4. CASE s \in Refused
    <2>1. PICK e : e = [a EXCEPT !.state = 0]
      OBVIOUS
    <2>2. Stores(n, i, e) /\ Becomes(n, s, "refused")
      BY <1>1, <1>3, <1>4, <2>1 DEF IssueRead, Stores, Becomes
    <2> QED BY <1>1, <1>2, <1>3, <1>4, <2>1, <2>2, IssueRefused
  <1>5. CASE s \notin Refused
    <2>1. PICK e : e = [a EXCEPT !.pending = TRUE]
      OBVIOUS
    <2>2. Stores(n, i, e) /\ Becomes(n, s, "issued")
      BY <1>1, <1>3, <1>5, <2>1 DEF IssueRead, Stores, Becomes
    <2> QED BY <1>1, <1>2, <1>3, <1>5, <2>1, <2>2, IssueGranted
  <1> QED BY <1>4, <1>5

\* The host's game goes on after its read: the entry of the read says so.
LEMMA RegisterHost ==
    ASSUME DiscInv, NEW s \in Sectors, read[Host][s] = "issued",
           Candidates(Host, s) # {}, NEW i, i = Min(Candidates(Host, s)),
           NEW a, a = Allocated(Host, s, i), NEW e, e = [a EXCEPT !.haveCallback[Host] = TRUE],
           Stores(Host, i, e), Becomes(Host, s, "registered"), UNCHANGED <<issued, toHost, frames, toGuest>>
    PROVE  DiscInv'
  <1> USE DEF DiscInv
  <1>0. Host \in Consoles /\ Guest \in Consoles /\ Host # Guest
    BY DEF Consoles, Host, Guest
  <1>1. i \in Index /\ IsEntry(a) /\ Holds(Host, i, s) /\ a = IoctlBuffer[Host][i]
    <2>1. /\ i \in Index /\ IsEntry(a)
          /\ \/ Holds(Host, i, s) /\ a = IoctlBuffer[Host][i]
             \/ \A j \in Index : ~Holds(Host, j, s)
      BY <1>0, Alloc
    <2>2. \E j \in Index : Holds(Host, j, s)
      BY <1>0 DEF Held
    <2> QED BY <2>1, <2>2
  <1>2. Entry(Host, a) /\ a.state # 0 /\ a.sector = s
    BY <1>0, <1>1 DEF Entries, Holds
  <1>3. /\ DOMAIN e = DOMAIN a /\ e.state = a.state /\ e.sector = a.sector /\ e.pending = a.pending
        /\ e.haveSent = a.haveSent /\ DOMAIN e.haveCallback = Consoles
        /\ e.haveCallback[Host] = TRUE /\ e.haveCallback[Guest] = a.haveCallback[Guest]
    BY <1>0, <1>1 DEF IsEntry
  <1>4. /\ Table' /\ IoctlBuffer'[Host][i] = e
        /\ \A m \in Consoles, j \in Index : m # Host \/ j # i => IoctlBuffer'[m][j] = IoctlBuffer[m][j]
    <2>1. IsEntry(e)
      BY <1>1, <1>3 DEF IsEntry
    <2> QED BY <1>0, <1>1, <2>1, EntryPoint
  <1>5. /\ DOMAIN read' = Consoles /\ \A m \in Consoles : DOMAIN read'[m] = Sectors
        /\ read'[Host][s] = "registered"
        /\ \A m \in Consoles, t \in Sectors : m # Host \/ t # s => read'[m][t] = read[m][t]
    BY <1>0, ReadPoint
  <1>6. /\ \A m \in Consoles, j \in Index, t \in Sectors : Holds(m, j, t)' <=> Holds(m, j, t)
        /\ \A j \in Index : /\ IoctlBuffer'[Host][j].haveCallback[Guest] <=> IoctlBuffer[Host][j].haveCallback[Guest]
                            /\ IoctlBuffer'[Host][j].haveSent <=> IoctlBuffer[Host][j].haveSent
    <2>1. \A m \in Consoles, j \in Index, t \in Sectors : Holds(m, j, t)' <=> Holds(m, j, t)
      <3>1. ASSUME NEW m \in Consoles, NEW j \in Index
            PROVE  IoctlBuffer'[m][j].state = IoctlBuffer[m][j].state /\ IoctlBuffer'[m][j].sector = IoctlBuffer[m][j].sector
        <4>1. CASE m = Host /\ j = i
          BY <1>1, <1>3, <1>4, <4>1
        <4>2. CASE m # Host \/ j # i
          BY <1>4, <4>2
        <4> QED BY <4>1, <4>2
      <3> QED BY <3>1 DEF Holds
    <2>2. ASSUME NEW j \in Index
          PROVE  /\ IoctlBuffer'[Host][j].haveCallback[Guest] <=> IoctlBuffer[Host][j].haveCallback[Guest]
                 /\ IoctlBuffer'[Host][j].haveSent <=> IoctlBuffer[Host][j].haveSent
      <3>1. CASE j = i
        BY <1>1, <1>3, <1>4, <3>1
      <3>2. CASE j # i
        BY <1>0, <1>4, <3>2
      <3> QED BY <3>1, <3>2
    <2> QED BY <2>1, <2>2
  <1>7. \A t \in Sectors : read'[Host][t] = "done" <=> read[Host][t] = "done"
    BY <1>0, <1>5
  <1>8. \A t \in Sectors : (Told(t)' <=> Told(t)) /\ (Sent(t)' <=> Sent(t))
    BY <1>0, <1>6, <1>7 DEF Told, Sent
  <1>9. Queues' /\ Alone'
    BY <1>6 DEF Queues, Alone
  <1>10. Issued'
    BY <1>5 DEF Issued
  <1>11. Held'
    BY <1>5, <1>6 DEF Held
  <1>12. Agreed'
    BY <1>0, <1>5, <1>7, <1>8 DEF Agreed
  <1>13. Entries'
    <2>1. ASSUME NEW m \in Consoles, NEW j \in Index PROVE Entry(m, IoctlBuffer[m][j])'
      <3>1. CASE m = Host /\ j = i
        <4>1. read'[Guest][s] = read[Guest][s]
          BY <1>0, <1>5
        <4>2. Entry(Host, e)'
          BY <1>2, <1>3, <1>5, <4>1 DEF Entry
        <4> QED BY <1>4, <3>1, <4>2
      <3>2. CASE m # Host \/ j # i
        <4>1. PICK x : x = IoctlBuffer[m][j] /\ x = IoctlBuffer'[m][j]
          BY <1>4, <3>2
        <4>2. Entry(m, x)
          BY <4>1 DEF Entries
        <4>3. x.state # 0 /\ m = Host => x.sector # s
          <5> SUFFICES ASSUME x.state # 0, m = Host, x.sector = s PROVE FALSE
            OBVIOUS
          <5>1. Holds(Host, j, s)
            BY <4>1 DEF Holds
          <5>2. j = i
            BY <1>0, <1>1, <5>1 DEF Alone
          <5> QED BY <3>2, <5>2
        <4>4. x.state # 0 => /\ read'[m][x.sector] = read[m][x.sector]
                             /\ read'[Guest][x.sector] = read[Guest][x.sector]
          BY <1>0, <1>5, <4>2, <4>3 DEF Entry
        <4>5. Entry(m, x)'
          BY <4>2, <4>4 DEF Entry
        <4> QED BY <4>1, <4>5
      <3> QED BY <3>1, <3>2
    <2> QED BY <2>1 DEF Entries
  <1>14. News'
    <2>1. \A t \in Sectors : read'[Guest][t] = read[Guest][t]
      BY <1>0, <1>5
    <2> QED BY <1>8, <2>1, KeepsNews
  <1>15. \A m \in Consoles : Awaited(m, Coming(m))'
    <2>1. \A m \in Consoles, t \in Sectors : read[m][t] = "registered" => read'[m][t] = "registered"
      BY <1>5
    <2> QED BY <1>8, <2>1, KeepsAwaited
  <1> QED BY <1>4, <1>9, <1>10, <1>11, <1>12, <1>13, <1>14, <1>15

\* A step that leaves the table and the reads alone.
LEMMA TableCalm ==
    ASSUME DiscInv, UNCHANGED <<IoctlBuffer, issued, read>>
    PROVE  /\ Table' /\ Issued' /\ Held' /\ Alone' /\ Entries' /\ Agreed'
           /\ \A s \in Sectors : (Told(s)' <=> Told(s)) /\ (Sent(s)' <=> Sent(s))
  <1> USE DEF DiscInv
  <1>1. \A n \in Consoles, i \in Index, s \in Sectors : Holds(n, i, s)' <=> Holds(n, i, s)
    BY DEF Holds
  <1>2. \A s \in Sectors : (Told(s)' <=> Told(s)) /\ (Sent(s)' <=> Sent(s))
    BY <1>1 DEF Told, Sent, Consoles
  <1>3. Table' /\ Issued' /\ Held' /\ Alone' /\ Agreed'
    BY <1>1, <1>2 DEF Table, Issued, Held, Alone, Agreed
  <1>4. Entries'
    BY DEF Entries, Entry
  <1> QED BY <1>2, <1>3, <1>4

\* The guest's game goes on after its read: the host is told of it.
LEMMA RegisterGuest ==
    ASSUME DiscInv, NEW s \in Sectors, read[Guest][s] = "issued", toHost' = Append(toHost, s),
           Becomes(Guest, s, "registered"), UNCHANGED <<IoctlBuffer, issued, frames, toGuest>>
    PROVE  DiscInv'
  <1> USE DEF DiscInv
  <1>0. Host \in Consoles /\ Guest \in Consoles /\ Host # Guest
    BY DEF Consoles, Host, Guest
  <1>1. /\ DOMAIN read' = Consoles /\ \A m \in Consoles : DOMAIN read'[m] = Sectors
        /\ read'[Guest][s] = "registered"
        /\ \A m \in Consoles, t \in Sectors : m # Guest \/ t # s => read'[m][t] = read[m][t]
    BY <1>0, ReadPoint
  <1>2. /\ Queues' /\ \A t : In(t, toHost') => In(t, toHost) \/ t = s
        /\ ~In(s, toHost) => Once(toHost', Reading)
    <2>1. toHost \in Seq(Sectors \cup {Reading}) /\ s \in Sectors \cup {Reading} /\ Once(toHost, Reading)
      BY DEF Queues, News
    <2>2. /\ toHost' \in Seq(Sectors \cup {Reading}) /\ \A t : In(t, toHost') => In(t, toHost) \/ t = s
          /\ ~In(s, toHost) => Once(toHost', Reading)
      BY <2>1, QueueAppend
    <2> QED BY <2>2 DEF Queues
  <1>3. \A n \in Consoles, i \in Index, t \in Sectors : Holds(n, i, t)' <=> Holds(n, i, t)
    BY DEF Holds
  <1>4. \A t \in Sectors : (Told(t)' <=> Told(t)) /\ (Sent(t)' <=> Sent(t))
    BY <1>0, <1>1, <1>3 DEF Told, Sent
  <1>5. Table' /\ Alone'
    BY <1>3 DEF Table, Alone
  <1>6. Issued'
    BY <1>0, <1>1 DEF Issued
  <1>7. Held'
    BY <1>0, <1>1, <1>3 DEF Held
  <1>8. Agreed'
    BY <1>0, <1>1, <1>4 DEF Agreed
  <1>9. Entries'
    <2>1. ASSUME NEW m \in Consoles, NEW j \in Index PROVE Entry(m, IoctlBuffer[m][j])'
      <3>1. PICK x : x = IoctlBuffer[m][j] /\ x = IoctlBuffer'[m][j]
        OBVIOUS
      <3>2. Entry(m, x)
        BY <3>1 DEF Entries
      <3>3. CASE x.state = 0
        BY <3>1, <3>2, <3>3 DEF Entry
      <3>4. CASE x.state # 0
        <4>1. x.sector \in Sectors
          BY <3>2, <3>4 DEF Entry
        <4>2. \/ read'[m][x.sector] = read[m][x.sector]
              \/ m = Guest /\ read[m][x.sector] = "issued" /\ read'[m][x.sector] = "registered"
          BY <1>1, <4>1
        <4>3. read[Guest][x.sector] \in {"registered", "done"} => read'[Guest][x.sector] = read[Guest][x.sector]
          BY <1>0, <1>1, <4>1
        <4>4. Entry(m, x)'
          BY <1>0, <3>2, <3>4, <4>1, <4>2, <4>3 DEF Entry
        <4> QED BY <3>1, <4>4
      <3> QED BY <3>3, <3>4
    <2> QED BY <2>1 DEF Entries
  <1>10. News'
    <2>1. ~Told(s) /\ ~In(s, toHost)
      BY ToldGuest DEF News
    <2>2. \A t \in Sectors : In(t, toHost) => t # s /\ read'[Guest][t] = read[Guest][t]
      BY <1>0, <1>1, <2>1
    <2>3. ASSUME NEW t \in Sectors, In(t, toHost') PROVE read'[Guest][t] = "registered" /\ ~Told(t)'
      BY <1>1, <1>2, <1>4, <2>1, <2>2, <2>3 DEF News
    <2> QED BY <1>2, <2>1, <2>3 DEF News
  <1>11. \A m \in Consoles : Awaited(m, Coming(m))'
    <2>1. \A m \in Consoles, t \in Sectors : read[m][t] = "registered" => read'[m][t] = "registered"
      BY <1>1
    <2> QED BY <1>4, <2>1, KeepsAwaited
  <1> QED BY <1>2, <1>5, <1>6, <1>7, <1>8, <1>9, <1>10, <1>11

\* A game goes on after its read.
LEMMA RegisterKeeps ==
    ASSUME DiscInv, NEW n \in Consoles, NEW s \in Sectors, Register(n, s)
    PROVE  DiscInv'
  <1>1. read[n][s] = "issued" /\ Becomes(n, s, "registered") /\ UNCHANGED <<issued, frames, toGuest>>
    BY DEF Register, Becomes
  <1>2. CASE n = Host
    <2>1. PICK i, a : i = Min(Candidates(Host, s)) /\ a = Allocated(Host, s, i)
      OBVIOUS
    <2>2. PICK e : e = [a EXCEPT !.haveCallback[Host] = TRUE]
      OBVIOUS
    <2>3. Candidates(Host, s) # {} /\ Stores(Host, i, e) /\ UNCHANGED toHost
      BY <1>2, <2>1, <2>2 DEF Register, HaveCallback, Stores
    <2> QED BY <1>1, <1>2, <2>1, <2>2, <2>3, RegisterHost
  <1>3. CASE n = Guest
    <2>1. toHost' = Append(toHost, s) /\ UNCHANGED IoctlBuffer
      BY <1>3 DEF Register, Host, Guest
    <2> QED BY <1>1, <1>3, <2>1, RegisterGuest
  <1> QED BY <1>2, <1>3 DEF Consoles

\* The host's recv thread comes to a read of the guest.
LEMMA RecvReadKeeps ==
    ASSUME DiscInv, RecvRead
    PROVE  DiscInv'
  <1> USE DEF DiscInv
  <1>0. Host \in Consoles /\ Guest \in Consoles /\ Host # Guest
    BY DEF Consoles, Host, Guest
  <1>1. PICK s : s = Head(toHost)
    OBVIOUS
  <1>2. PICK i, a : i = Min(Candidates(Host, s)) /\ a = Allocated(Host, s, i)
    OBVIOUS
  <1>3. PICK e : e = [a EXCEPT !.haveCallback[Guest] = TRUE]
    OBVIOUS
  <1>4. /\ toHost # << >> /\ s # Reading /\ toHost' = Tail(toHost) /\ UNCHANGED <<issued, read, frames, toGuest>>
        /\ Candidates(Host, s) # {} /\ Stores(Host, i, e)
    BY <1>1, <1>2, <1>3 DEF RecvRead, HaveCallback, Stores
  <1>5. /\ Queues' /\ s \in Sectors /\ In(s, toHost) /\ Once(toHost', Reading)
        /\ \A t : In(t, toHost') => In(t, toHost) /\ t # s
    <2>1. toHost \in Seq(Sectors \cup {Reading}) /\ Once(toHost, Reading)
      BY DEF Queues, News
    <2>2. /\ toHost' \in Seq(Sectors \cup {Reading}) /\ s \in Sectors \cup {Reading} /\ In(s, toHost)
          /\ Once(toHost', Reading) /\ \A t : In(t, toHost') => In(t, toHost) /\ (s # Reading => t # s)
      BY <1>1, <1>4, <2>1, QueueTail
    <2> QED BY <1>4, <2>2 DEF Queues
  <1>6. read[Guest][s] = "registered" /\ ~Told(s) /\ s \notin Refused
    BY <1>0, <1>5 DEF News, Issued
  <1>7. /\ i \in Index /\ IsEntry(a) /\ a.state # 0
        /\ \/ Holds(Host, i, s) /\ a = IoctlBuffer[Host][i]
           \/ /\ IoctlBuffer[Host][i].state = 0 /\ \A j \in Index : ~Holds(Host, j, s)
              /\ a.state = 1 /\ a.sector = s /\ ~a.pending /\ ~a.haveSent
              /\ ~a.haveCallback[Host] /\ ~a.haveCallback[Guest]
    BY <1>0, <1>2, <1>4, Alloc
  <1>8. /\ DOMAIN e = DOMAIN a /\ e.state = a.state /\ e.sector = a.sector /\ e.pending = a.pending
        /\ e.haveSent = a.haveSent /\ DOMAIN e.haveCallback = Consoles
        /\ e.haveCallback[Guest] = TRUE /\ e.haveCallback[Host] = a.haveCallback[Host]
    BY <1>0, <1>3, <1>7 DEF IsEntry
  <1>9. /\ Table' /\ IoctlBuffer'[Host][i] = e
        /\ \A m \in Consoles, j \in Index : m # Host \/ j # i => IoctlBuffer'[m][j] = IoctlBuffer[m][j]
    <2>1. IsEntry(e)
      BY <1>7, <1>8 DEF IsEntry
    <2> QED BY <1>0, <1>4, <1>7, <2>1, EntryPoint
  <1>10. a.sector = s
    BY <1>7 DEF Holds
  <1>11. /\ Alone' /\ Holds(Host, i, s)'
         /\ \A m \in Consoles, j \in Index, t \in Sectors : Holds(m, j, t) => Holds(m, j, t)'
         /\ \A m \in Consoles, j \in Index, t \in Sectors :
               Holds(m, j, t)' => Holds(m, j, t) \/ (m = Host /\ j = i /\ t = s)
    <2>1. IoctlBuffer'[Host][i].state # 0 /\ IoctlBuffer'[Host][i].sector = s /\ Only(Host, i)
      BY <1>7, <1>8, <1>9, <1>10 DEF Only
    <2>2. Fits(Host, i, s)
      BY <1>7 DEF Fits
    <2> QED BY <1>0, <1>7, <2>1, <2>2, Put
  <1>12. Issued' /\ Held'
    BY <1>4, <1>11 DEF Issued, Held
  <1>13. /\ \A t \in Sectors : t # s /\ Told(t)' => Told(t)
         /\ \A t \in Sectors : Sent(t) => Sent(t)'
    <2>1. ASSUME NEW t \in Sectors, t # s, NEW j \in Index, Holds(Host, j, t)', IoctlBuffer'[Host][j].haveCallback[Guest]
          PROVE  Holds(Host, j, t) /\ IoctlBuffer[Host][j].haveCallback[Guest]
      <3>1. j # i
        BY <1>8, <1>9, <1>10, <2>1 DEF Holds
      <3> QED BY <1>0, <1>9, <1>11, <2>1, <3>1
    <2>2. ASSUME NEW t \in Sectors, NEW j \in Index, Holds(Host, j, t), IoctlBuffer[Host][j].haveSent
          PROVE  Holds(Host, j, t)' /\ IoctlBuffer'[Host][j].haveSent
      <3>1. CASE j = i
        <4>1. a = IoctlBuffer[Host][j]
          BY <1>7, <2>2, <3>1 DEF Holds
        <4> QED BY <1>0, <1>8, <1>9, <1>11, <2>2, <3>1, <4>1
      <3>2. CASE j # i
        BY <1>0, <1>9, <1>11, <2>2, <3>2
      <3> QED BY <3>1, <3>2
    <2> QED BY <1>4, <2>1, <2>2 DEF Told, Sent
  <1>14. Agreed'
    BY <1>4, <1>13 DEF Agreed
  <1>15. Entries'
    <2>1. ASSUME NEW m \in Consoles, NEW j \in Index PROVE Entry(m, IoctlBuffer[m][j])'
      <3>1. CASE m = Host /\ j = i
        <4>1. CASE Holds(Host, i, s) /\ a = IoctlBuffer[Host][i]
          <5>1. Entry(Host, a)
            BY <1>0, <1>7, <4>1 DEF Entries
          <5>2. Entry(Host, e)
            BY <1>6, <1>7, <1>8, <1>10, <5>1 DEF Entry
          <5> QED BY <1>4, <1>9, <3>1, <5>2 DEF Entry
        <4>2. CASE /\ \A k \in Index : ~Holds(Host, k, s)
                   /\ a.state = 1 /\ ~a.pending /\ ~a.haveSent /\ ~a.haveCallback[Host]
          <5>1. read[Host][s] = "none"
            BY <1>0, <1>5, <1>6, <4>2 DEF Held, Issued, Told
          <5>2. Entry(Host, e)
            BY <1>5, <1>6, <1>8, <1>10, <4>2, <5>1 DEF Entry
          <5> QED BY <1>4, <1>9, <3>1, <5>2 DEF Entry
        <4> QED BY <1>7, <4>1, <4>2
      <3>2. CASE m # Host \/ j # i
        <4>1. Entry(m, IoctlBuffer[m][j]) /\ IoctlBuffer'[m][j] = IoctlBuffer[m][j]
          BY <1>9, <3>2 DEF Entries
        <4> QED BY <1>4, <4>1 DEF Entry
      <3> QED BY <3>1, <3>2
    <2> QED BY <2>1 DEF Entries
  <1>16. News'
    <2>1. \A t \in Sectors : In(t, toHost') => read'[Guest][t] = "registered" /\ ~Told(t)'
      BY <1>4, <1>5, <1>13 DEF News
    <2> QED BY <1>5, <2>1 DEF News
  <1>17. \A m \in Consoles : Awaited(m, Coming(m))'
    BY <1>4, <1>13, KeepsAwaited
  <1> QED BY <1>5, <1>9, <1>11, <1>12, <1>14, <1>15, <1>16, <1>17

\* A reading goes from the guest to the host.
LEMMA ReadingKeeps ==
    ASSUME DiscInv, TakeReading \/ RecvReading
    PROVE  DiscInv'
  <1> USE DEF DiscInv
  <1>1. UNCHANGED <<IoctlBuffer, issued, read, frames, toGuest>>
    BY DEF TakeReading, RecvReading
  <1>2. /\ Table' /\ Issued' /\ Held' /\ Alone' /\ Entries' /\ Agreed'
        /\ \A s \in Sectors : (Told(s)' <=> Told(s)) /\ (Sent(s)' <=> Sent(s))
    BY <1>1, TableCalm
  <1>3. toHost \in Seq(Sectors \cup {Reading}) /\ Once(toHost, Reading) /\ Reading \in Sectors \cup {Reading} /\ Reading \notin Sectors
    BY DEF Queues, News, Reading, Sectors
  <1>4. /\ toHost' \in Seq(Sectors \cup {Reading}) /\ Once(toHost', Reading)
        /\ \A s \in Sectors : In(s, toHost') => In(s, toHost)
    <2>1. CASE TakeReading
      <3>1. toHost' = Append(toHost, Reading)
        BY <2>1 DEF TakeReading
      <3>2. /\ toHost' \in Seq(Sectors \cup {Reading}) /\ Once(toHost', Reading)
            /\ \A s : In(s, toHost') => In(s, toHost) \/ s = Reading
        BY <1>3, <3>1, QueueAppend
      <3> QED BY <1>3, <3>2
    <2>2. CASE RecvReading
      <3>1. toHost' = Tail(toHost) /\ toHost # << >>
        BY <2>2 DEF RecvReading
      <3> QED BY <1>3, <3>1, QueueTail
    <2> QED BY <2>1, <2>2
  <1>5. Queues'
    BY <1>1, <1>4 DEF Queues
  <1>6. News'
    BY <1>1, <1>2, <1>4 DEF News
  <1>7. \A n \in Consoles : Awaited(n, Coming(n))'
    BY <1>1, <1>2, KeepsAwaited
  <1> QED BY <1>2, <1>5, <1>6, <1>7

\* A frame comes to the guest.
LEMMA RecvFrameKeeps ==
    ASSUME DiscInv, RecvFrame
    PROVE  DiscInv'
  <1> USE DEF DiscInv
  <1>0. Host \in Consoles /\ Guest \in Consoles /\ Host # Guest
    BY DEF Consoles, Host, Guest
  <1>1. UNCHANGED <<IoctlBuffer, issued, read, toHost>>
    BY DEF RecvFrame
  <1>2. /\ Table' /\ Issued' /\ Held' /\ Alone' /\ Entries' /\ Agreed'
        /\ \A s \in Sectors : (Told(s)' <=> Told(s)) /\ (Sent(s)' <=> Sent(s))
    BY <1>1, TableCalm
  <1>3. PICK f, g : f = frames[Guest] /\ g = toGuest
    OBVIOUS
  <1>4. f \in Seq(Callbacks) /\ g \in Seq(Callbacks) /\ g # << >>
    BY <1>0, <1>3 DEF Queues, RecvFrame
  <1>5. /\ frames'[Guest] = Append(f, Head(g)) /\ toGuest' = Tail(g) /\ frames'[Host] = frames[Host]
        /\ frames' = [frames EXCEPT ![Guest] = Append(f, Head(g))]
    BY <1>0, <1>3 DEF Queues, RecvFrame
  <1>6. Append(f, Head(g)) \in Seq(Callbacks) /\ Tail(g) \in Seq(Callbacks) /\ Append(f, Head(g)) \o Tail(g) = f \o g
    BY <1>4, QueueMove
  <1>7. Queues'
    BY <1>0, <1>1, <1>5, <1>6 DEF Queues
  <1>8. \A n \in Consoles : Coming(n)' = Coming(n)
    BY <1>0, <1>3, <1>5, <1>6 DEF Coming, Consoles
  <1>9. News'
    BY <1>1, <1>2, KeepsNews
  <1>10. \A n \in Consoles : Awaited(n, Coming(n))'
    BY <1>1, <1>2, <1>8 DEF Awaited
  <1> QED BY <1>2, <1>7, <1>9, <1>10

\* Something is added to what each console comes to.
LEMMA ComingAppend ==
    ASSUME Queues, NEW x \in Callbacks, frames' = [frames EXCEPT ![Host] = Append(@, x)],
           toGuest' = Append(toGuest, x), UNCHANGED toHost
    PROVE  Queues' /\ \A n \in Consoles : Coming(n) \in Seq(Callbacks) /\ Coming(n)' = Append(Coming(n), x)
  <1>0. Host \in Consoles /\ Guest \in Consoles /\ Host # Guest
    BY DEF Consoles, Host, Guest
  <1>1. PICK f, h, g : f = frames[Guest] /\ h = frames[Host] /\ g = toGuest
    OBVIOUS
  <1>2. f \in Seq(Callbacks) /\ h \in Seq(Callbacks) /\ g \in Seq(Callbacks)
    BY <1>0, <1>1 DEF Queues
  <1>3. Append(h, x) \in Seq(Callbacks) /\ Append(g, x) \in Seq(Callbacks)
    BY <1>2, AppendProperties
  <1>4. frames' = [frames EXCEPT ![Host] = Append(h, x)] /\ frames'[Host] = Append(h, x) /\ frames'[Guest] = f
    BY <1>0, <1>1 DEF Queues
  <1>5. Queues'
    BY <1>0, <1>1, <1>3, <1>4 DEF Queues
  <1>6. f \o Append(g, x) = Append(f \o g, x) /\ f \o g \in Seq(Callbacks)
    BY <1>2, QueueBehind, ConcatProperties
  <1>7. Coming(Guest)' = Append(Coming(Guest), x) /\ Coming(Guest) \in Seq(Callbacks)
    BY <1>1, <1>4, <1>6 DEF Coming
  <1>8. Coming(Host)' = Append(Coming(Host), x) /\ Coming(Host) \in Seq(Callbacks)
    BY <1>0, <1>1, <1>2, <1>4 DEF Coming
  <1> QED BY <1>5, <1>7, <1>8 DEF Consoles

\* The read that the host puts into the next frame is awaited on both consoles and in no frame yet.
LEMMA ReadyIsDue ==
    ASSUME DiscInv, NEW i \in Ready, NEW s, s = IoctlBuffer[Host][i].sector
    PROVE  /\ i \in Index /\ Holds(Host, i, s) /\ s \in Sectors /\ ~Sent(s)
           /\ \A n \in Consoles : read[n][s] = "registered" /\ ~In(s, Coming(n))
  <1> USE DEF DiscInv
  <1>0. Host \in Consoles /\ Guest \in Consoles
    BY DEF Consoles
  <1>1. PICK e : e = IoctlBuffer[Host][i]
    OBVIOUS
  <1>2. i \in Index /\ e.state >= 1 /\ ~e.haveSent /\ e.haveCallback[Host] /\ e.haveCallback[Guest]
    BY <1>0, <1>1 DEF Ready
  <1>3. Entry(Host, e) /\ e.state \in {0, 1, 2}
    BY <1>0, <1>1, <1>2 DEF Entries, Table, IsEntry
  <1>4. e.state # 0
    BY <1>2, <1>3
  <1>5. s \in Sectors /\ read[Host][s] = "registered" /\ read[Guest][s] \in {"registered", "done"}
    BY <1>1, <1>2, <1>3, <1>4 DEF Entry
  <1>6. Holds(Host, i, s)
    BY <1>1, <1>4 DEF Holds
  <1>7. ~Sent(s)
    <2> SUFFICES ASSUME Sent(s) PROVE FALSE
      OBVIOUS
    <2>1. PICK j \in Index : Holds(Host, j, s) /\ IoctlBuffer[Host][j].haveSent
      BY <1>5 DEF Sent
    <2>2. j = i
      BY <1>0, <1>2, <1>5, <1>6, <2>1 DEF Alone
    <2> QED BY <1>1, <1>2, <2>1, <2>2
  <1>8. read[Guest][s] = "registered"
    BY <1>5, <1>7 DEF Agreed
  <1>9. \A n \in Consoles : ~In(s, Coming(n))
    BY <1>5, <1>7 DEF Awaited
  <1> QED BY <1>2, <1>5, <1>6, <1>7, <1>8, <1>9 DEF Consoles

\* The host's send thread makes the next frame.
LEMMA BroadcastKeeps ==
    ASSUME DiscInv, Broadcast
    PROVE  DiscInv'
  <1> USE DEF DiscInv
  <1>0. Host \in Consoles /\ Guest \in Consoles /\ Host # Guest
    BY DEF Consoles, Host, Guest
  <1>1. PICK x : x = IF Ready = {} THEN NoSector ELSE IoctlBuffer[Host][Max(Ready)].sector
    OBVIOUS
  <1>2. /\ frames' = [frames EXCEPT ![Host] = Append(@, x)] /\ toGuest' = Append(toGuest, x)
        /\ UNCHANGED <<issued, read, toHost>>
    BY <1>1 DEF Broadcast
  <1>3. IoctlBuffer' = [IoctlBuffer EXCEPT ![Host] =
                           [i \in Index |-> IF i \in Ready THEN [IoctlBuffer[Host][i] EXCEPT !.haveSent = TRUE]
                                            ELSE IoctlBuffer[Host][i]]]
    BY DEF Broadcast
  <1>4. /\ DOMAIN IoctlBuffer' = Consoles /\ \A n \in Consoles : DOMAIN IoctlBuffer'[n] = Index
        /\ \A i \in Index : IoctlBuffer'[Guest][i] = IoctlBuffer[Guest][i]
        /\ \A i \in Index : i \notin Ready => IoctlBuffer'[Host][i] = IoctlBuffer[Host][i]
        /\ \A i \in Index : i \in Ready => IoctlBuffer'[Host][i] = [IoctlBuffer[Host][i] EXCEPT !.haveSent = TRUE]
    <2>1. /\ DOMAIN IoctlBuffer' = Consoles /\ IoctlBuffer'[Guest] = IoctlBuffer[Guest]
          /\ IoctlBuffer'[Host] = [i \in Index |-> IF i \in Ready THEN [IoctlBuffer[Host][i] EXCEPT !.haveSent = TRUE]
                                                   ELSE IoctlBuffer[Host][i]]
      BY <1>0, <1>3 DEF Table
    <2> QED BY <2>1 DEF Table, Consoles
  <1>5. ASSUME NEW n \in Consoles, NEW i \in Index
        PROVE  /\ DOMAIN IoctlBuffer'[n][i] = DOMAIN IoctlBuffer[n][i]
               /\ IoctlBuffer'[n][i].state = IoctlBuffer[n][i].state
               /\ IoctlBuffer'[n][i].sector = IoctlBuffer[n][i].sector
               /\ IoctlBuffer'[n][i].pending = IoctlBuffer[n][i].pending
               /\ IoctlBuffer'[n][i].haveCallback = IoctlBuffer[n][i].haveCallback
               /\ \/ IoctlBuffer'[n][i].haveSent = IoctlBuffer[n][i].haveSent
                  \/ n = Host /\ i \in Ready /\ IoctlBuffer'[n][i].haveSent
    <2>1. CASE n = Host /\ i \in Ready
      <3>1. PICK e : e = IoctlBuffer[n][i]
        OBVIOUS
      <3>2. DOMAIN e = {"state", "sector", "pending", "haveCallback", "haveSent"}
        BY <3>1 DEF Table, IsEntry
      <3>3. PICK f : f = [e EXCEPT !.haveSent = TRUE]
        OBVIOUS
      <3>4. /\ DOMAIN f = DOMAIN e /\ f.state = e.state /\ f.sector = e.sector /\ f.pending = e.pending
            /\ f.haveCallback = e.haveCallback /\ f.haveSent = TRUE
        BY <3>2, <3>3
      <3>5. IoctlBuffer'[n][i] = f
        BY <1>4, <2>1, <3>1, <3>3
      <3> QED BY <2>1, <3>1, <3>4, <3>5
    <2>2. CASE ~(n = Host /\ i \in Ready)
      <3>1. IoctlBuffer'[n][i] = IoctlBuffer[n][i]
        BY <1>4, <2>2 DEF Consoles
      <3> QED BY <3>1
    <2> QED BY <2>1, <2>2
  <1>6. Table'
    <2>1. \A n \in Consoles, i \in Index : IsEntry(IoctlBuffer'[n][i])
      BY <1>5 DEF Table, IsEntry
    <2> QED BY <1>4, <2>1 DEF Table
  <1>7. \A n \in Consoles, i \in Index, s \in Sectors : Holds(n, i, s)' <=> Holds(n, i, s)
    BY <1>5 DEF Holds
  <1>8. \A s \in Sectors : (Told(s)' <=> Told(s)) /\ (Sent(s) => Sent(s)')
    <2>1. \A i \in Index : /\ IoctlBuffer'[Host][i].haveCallback = IoctlBuffer[Host][i].haveCallback
                           /\ IoctlBuffer[Host][i].haveSent => IoctlBuffer'[Host][i].haveSent
      BY <1>0, <1>5
    <2> QED BY <1>0, <1>2, <1>7, <2>1 DEF Told, Sent
  <1>9. Issued' /\ Held' /\ Alone' /\ Agreed'
    BY <1>2, <1>7, <1>8 DEF Issued, Held, Alone, Agreed
  <1>10. Entries'
    <2>1. ASSUME NEW n \in Consoles, NEW i \in Index PROVE Entry(n, IoctlBuffer[n][i])'
      <3>1. PICK e, f : e = IoctlBuffer[n][i] /\ f = IoctlBuffer'[n][i]
        OBVIOUS
      <3>2. /\ Entry(n, e) /\ f.state = e.state /\ f.sector = e.sector /\ f.pending = e.pending
            /\ f.haveCallback = e.haveCallback
        BY <1>5, <3>1 DEF Entries
      <3>3. f.haveSent => e.haveSent \/ (e.haveCallback[Host] /\ e.haveCallback[Guest])
        BY <1>0, <1>5, <3>1 DEF Ready
      <3>4. Entry(n, f)
        BY <3>2, <3>3 DEF Entry
      <3> QED BY <1>2, <3>1, <3>4 DEF Entry
    <2> QED BY <2>1 DEF Entries
  <1>11. News'
    BY <1>2, <1>8, KeepsNews
  <1>12. /\ x \in Callbacks
         /\ x # NoSector => Sent(x)' /\ \A n \in Consoles : read[n][x] = "registered" /\ ~In(x, Coming(n))
    <2>1. CASE Ready = {}
      BY <1>1, <2>1 DEF Callbacks
    <2>2. CASE Ready # {}
      <3>1. IOCTL_BUFFER_SIZE - 1 \in Nat /\ Ready \subseteq 0 .. (IOCTL_BUFFER_SIZE - 1)
        BY DiscAssumption DEF Ready, Index
      <3>2. PICK i \in Ready : i = Max(Ready)
        BY <2>2, <3>1, MaxIn
      <3>3. x = IoctlBuffer[Host][i].sector
        BY <1>1, <2>2, <3>2
      <3>4. /\ i \in Index /\ Holds(Host, i, x) /\ x \in Sectors
            /\ \A n \in Consoles : read[n][x] = "registered" /\ ~In(x, Coming(n))
        BY <3>3, ReadyIsDue
      <3>5. Holds(Host, i, x)' /\ IoctlBuffer'[Host][i].haveSent
        <4>1. IoctlBuffer'[Host][i] = [IoctlBuffer[Host][i] EXCEPT !.haveSent = TRUE]
          BY <1>4, <3>2, <3>4
        <4>2. "haveSent" \in DOMAIN IoctlBuffer[Host][i]
          BY <1>0, <3>4 DEF Table, IsEntry
        <4> QED BY <1>0, <1>7, <3>4, <4>1, <4>2
      <3>6. Sent(x)'
        BY <3>4, <3>5 DEF Sent
      <3> QED BY <3>4, <3>6 DEF Callbacks
    <2> QED BY <2>1, <2>2
  <1>13. Queues' /\ \A n \in Consoles : Coming(n) \in Seq(Callbacks) /\ Coming(n)' = Append(Coming(n), x)
    BY <1>2, <1>12, ComingAppend
  <1>14. ASSUME NEW n \in Consoles PROVE Awaited(n, Coming(n))'
    <2>1. PICK q, r : q = Coming(n) /\ r = Coming(n)' /\ r = Append(q, x) /\ q \in Seq(Callbacks)
      BY <1>13
    <2>2. Once(q, NoSector) /\ \A s \in Sectors : In(s, q) => read[n][s] = "registered" /\ Sent(s)
      BY <2>1 DEF Awaited
    <2>3. /\ \A s : In(s, r) => In(s, q) \/ s = x
          /\ x = NoSector \/ ~In(x, q) => Once(r, NoSector)
      BY <1>12, <2>1, <2>2, QueueAppend
    <2>4. Once(r, NoSector)
      BY <1>12, <2>1, <2>3
    <2>5. NoSector \notin Sectors
      BY DEF Sectors, NoSector
    <2>6. \A s \in Sectors : In(s, r) => read'[n][s] = "registered" /\ Sent(s)'
      BY <1>2, <1>8, <1>12, <2>2, <2>3, <2>5
    <2> QED BY <2>1, <2>4, <2>6 DEF Awaited
  <1> QED BY <1>6, <1>9, <1>10, <1>11, <1>13, <1>14

\* A console comes to its next frame.
LEMMA ComingTail ==
    ASSUME Queues, NEW n \in Consoles, frames[n] # << >>, frames' = [frames EXCEPT ![n] = Tail(@)],
           UNCHANGED <<toHost, toGuest>>
    PROVE  /\ Queues' /\ Coming(n) \in Seq(Callbacks) /\ Coming(n) # << >> /\ Head(Coming(n)) = Head(frames[n])
           /\ Coming(n)' = Tail(Coming(n)) /\ \A m \in Consoles : m # n => Coming(m)' = Coming(m)
  <1>1. PICK f, g : f = frames[n] /\ g = toGuest
    OBVIOUS
  <1>2. f \in Seq(Callbacks) /\ g \in Seq(Callbacks) /\ f # << >>
    BY <1>1 DEF Queues
  <1>3. Tail(f) \in Seq(Callbacks)
    BY <1>2, HeadTailProperties
  <1>4. /\ frames' = [frames EXCEPT ![n] = Tail(f)] /\ frames'[n] = Tail(f)
        /\ \A m \in Consoles : m # n => frames'[m] = frames[m]
    BY <1>1 DEF Queues
  <1>5. Queues'
    BY <1>1, <1>3, <1>4 DEF Queues
  <1>6. f \o g \in Seq(Callbacks) /\ f \o g # << >> /\ Head(f \o g) = Head(f) /\ Tail(f \o g) = Tail(f) \o g
    BY <1>2, QueueBefore
  <1>7. \A m \in Consoles : m # n => Coming(m)' = Coming(m)
    BY <1>4 DEF Coming
  <1>8. CASE n = Guest
    BY <1>1, <1>4, <1>5, <1>6, <1>7, <1>8 DEF Coming
  <1>9. CASE n # Guest
    BY <1>1, <1>2, <1>4, <1>5, <1>7, <1>9 DEF Coming
  <1> QED BY <1>8, <1>9

\* The retrace calls the game back for the read s, whose entry is i.
LEMMA CalledBackKeeps ==
    ASSUME DiscInv, NEW n \in Consoles, NEW s \in Sectors, NEW i \in Index, Holds(n, i, s),
           read[n][s] = "registered", Sent(s), IoctlBuffer[n][i].state = 2,
           NEW e, e = [IoctlBuffer[n][i] EXCEPT !.state = 0], Stores(n, i, e), Becomes(n, s, "done"),
           UNCHANGED issued
    PROVE  /\ Table' /\ Issued' /\ Held' /\ Alone' /\ Entries' /\ Agreed'
           /\ \A t \in Sectors : (Told(t)' <=> Told(t)) /\ (Sent(t)' <=> Sent(t))
           /\ \A m \in Consoles, t \in Sectors : m # n \/ t # s => read'[m][t] = read[m][t]
  <1> USE DEF DiscInv
  <1>0. Host \in Consoles /\ Guest \in Consoles /\ Host # Guest
    BY DEF Consoles, Host, Guest
  <1>1. PICK a : a = IoctlBuffer[n][i]
    OBVIOUS
  <1>2. IsEntry(a) /\ Entry(n, a) /\ a.state = 2 /\ a.sector = s
    BY <1>1 DEF Table, Entries, Holds
  <1>3. /\ DOMAIN e = DOMAIN a /\ e.state = 0 /\ e.sector = s /\ e.pending = a.pending
        /\ e.haveCallback = a.haveCallback /\ e.haveSent = a.haveSent
    BY <1>1, <1>2 DEF IsEntry
  <1>4. IsEntry(e) /\ ~e.pending
    <2>1. ~a.pending
      BY <1>2 DEF Entry
    <2> QED BY <1>2, <1>3, <2>1 DEF IsEntry
  <1>5. /\ Table' /\ IoctlBuffer'[n][i] = e
        /\ \A m \in Consoles, j \in Index : m # n \/ j # i => IoctlBuffer'[m][j] = IoctlBuffer[m][j]
    BY <1>4, EntryPoint
  <1>6. /\ DOMAIN read' = Consoles /\ \A m \in Consoles : DOMAIN read'[m] = Sectors
        /\ read'[n][s] = "done"
        /\ \A m \in Consoles, t \in Sectors : m # n \/ t # s => read'[m][t] = read[m][t]
    BY ReadPoint
  <1>7. \A m \in Consoles, j \in Index, t \in Sectors :
            Holds(m, j, t)' <=> Holds(m, j, t) /\ (m # n \/ t # s)
    <2>1. ASSUME NEW m \in Consoles, NEW j \in Index, NEW t \in Sectors
          PROVE  Holds(m, j, t)' <=> Holds(m, j, t) /\ (m # n \/ t # s)
      <3>1. CASE m = n /\ j = i
        <4>1. ~Holds(m, j, t)'
          BY <1>3, <1>5, <3>1 DEF Holds
        <4>2. Holds(m, j, t) => t = s
          BY <3>1 DEF Holds
        <4> QED BY <3>1, <4>1, <4>2
      <3>2. CASE m # n \/ j # i
        <4>1. Holds(m, j, t)' <=> Holds(m, j, t)
          BY <1>5, <3>2 DEF Holds
        <4>2. ~(Holds(m, j, t) /\ m = n /\ t = s)
          BY <3>2 DEF Alone
        <4> QED BY <4>1, <4>2
      <3> QED BY <3>1, <3>2
    <2> QED BY <2>1
  <1>8. Alone'
    BY <1>7 DEF Alone
  <1>9. Held'
    BY <1>6, <1>7 DEF Held
  <1>10. Issued'
    <2>1. \A m \in Consoles : issued'[m] \in Nat
      BY DEF Issued
    <2>2. ASSUME NEW m \in Consoles, NEW t \in Sectors
          PROVE  /\ read'[m][t] \in {"none", "issued", "registered", "done", "refused"}
                 /\ read'[m][t] = "none" <=> t > issued'[m]
                 /\ read'[m][t] \in {"issued", "registered", "done"} => t \notin Refused
                 /\ read'[m][t] = "refused" => t \in Refused
      <3>1. CASE m = n /\ t = s
        BY <1>6, <3>1 DEF Issued
      <3>2. CASE m # n \/ t # s
        BY <1>6, <3>2 DEF Issued
      <3> QED BY <3>1, <3>2
    <2> QED BY <1>6, <2>1, <2>2 DEF Issued
  <1>11. Told(s) /\ read[Guest][s] \in {"registered", "done"}
    BY ToldGuest
  <1>12. ASSUME NEW t \in Sectors PROVE (Told(t)' <=> Told(t)) /\ (Sent(t)' <=> Sent(t))
    <2>1. CASE n = Host /\ t = s
      BY <1>6, <1>11, <2>1 DEF Told, Sent
    <2>2. CASE n # Host \/ t # s
      <3>1. read'[Host][t] = read[Host][t]
        BY <1>0, <1>6, <2>2
      <3>2. ASSUME NEW j \in Index, Holds(Host, j, t) \/ Holds(Host, j, t)'
            PROVE  /\ IoctlBuffer'[Host][j].haveCallback[Guest] <=> IoctlBuffer[Host][j].haveCallback[Guest]
                   /\ IoctlBuffer'[Host][j].haveSent <=> IoctlBuffer[Host][j].haveSent
        <4>1. CASE n = Host /\ j = i
          BY <1>1, <1>3, <1>5, <4>1
        <4>2. CASE n # Host \/ j # i
          BY <1>0, <1>5, <4>2
        <4> QED BY <4>1, <4>2
      <3>3. \A j \in Index : Holds(Host, j, t)' <=> Holds(Host, j, t)
        BY <1>0, <1>7, <2>2
      <3> QED BY <3>1, <3>2, <3>3 DEF Told, Sent
    <2> QED BY <2>1, <2>2
  <1>13. Agreed'
    <2>1. ASSUME NEW t \in Sectors
          PROVE  /\ read'[Host][t] = "done" => read'[Guest][t] \in {"registered", "done"}
                 /\ read'[Guest][t] = "done" => Sent(t)'
      <3>1. CASE t = s
        <4>1. read'[Guest][s] \in {"registered", "done"}
          BY <1>0, <1>6, <1>11
        <4> QED BY <1>12, <3>1, <4>1
      <3>2. CASE t # s
        BY <1>0, <1>6, <1>12, <3>2 DEF Agreed
      <3> QED BY <3>1, <3>2
    <2> QED BY <2>1 DEF Agreed
  <1>14. Entries'
    <2>1. ASSUME NEW m \in Consoles, NEW j \in Index PROVE Entry(m, IoctlBuffer[m][j])'
      <3>1. CASE m = n /\ j = i
        <4>1. Entry(m, e)'
          BY <1>3, <1>4 DEF Entry
        <4> QED BY <1>5, <3>1, <4>1
      <3>2. CASE m # n \/ j # i
        <4>1. PICK x : x = IoctlBuffer[m][j] /\ x = IoctlBuffer'[m][j]
          BY <1>5, <3>2
        <4>2. Entry(m, x)
          BY <4>1 DEF Entries
        <4>3. CASE x.state = 0
          BY <4>1, <4>2, <4>3 DEF Entry
        <4>4. CASE x.state # 0
          <5>1. x.sector \in Sectors
            BY <4>2, <4>4 DEF Entry
          <5>2. m # n \/ x.sector # s
            <6> SUFFICES ASSUME m = n, x.sector = s PROVE FALSE
              OBVIOUS
            <6>1. Holds(n, j, s)
              BY <4>1, <4>4 DEF Holds
            <6> QED BY <3>2, <6>1 DEF Alone
          <5>3. read'[m][x.sector] = read[m][x.sector]
            BY <1>6, <5>1, <5>2
          <5>4. read[Guest][x.sector] \in {"registered", "done"} => read'[Guest][x.sector] \in {"registered", "done"}
            BY <1>0, <1>6, <5>1
          <5>5. Entry(m, x)'
            BY <4>2, <5>1, <5>3, <5>4 DEF Entry
          <5> QED BY <4>1, <5>5
        <4> QED BY <4>3, <4>4
      <3> QED BY <3>1, <3>2
    <2> QED BY <2>1 DEF Entries
  <1> QED BY <1>5, <1>6, <1>8, <1>9, <1>10, <1>12, <1>13, <1>14

\* The retrace.
LEMMA RetraceKeeps ==
    ASSUME DiscInv, NEW n \in Consoles, VIRetraceHandler(n)
    PROVE  DiscInv'
  <1> USE DEF DiscInv
  <1>0. Host \in Consoles /\ Guest \in Consoles /\ NoSector \notin Sectors
    BY DEF Consoles, Sectors, NoSector
  <1>1. /\ frames[n] # << >> /\ frames' = [frames EXCEPT ![n] = Tail(@)]
        /\ UNCHANGED <<issued, toHost, toGuest>>
    BY DEF VIRetraceHandler
  <1>2. /\ Queues' /\ Coming(n) \in Seq(Callbacks) /\ Coming(n) # << >> /\ Head(Coming(n)) = Head(frames[n])
        /\ Coming(n)' = Tail(Coming(n)) /\ \A m \in Consoles : m # n => Coming(m)' = Coming(m)
    BY <1>1, ComingTail
  <1>3. PICK s, q : s = Head(frames[n]) /\ q = Coming(n)
    OBVIOUS
  <1>4. Once(q, NoSector) /\ \A t \in Sectors : In(t, q) => read[n][t] = "registered" /\ Sent(t)
    BY <1>3 DEF Awaited
  <1>5. /\ s \in Callbacks /\ In(s, q) /\ Once(Coming(n)', NoSector)
        /\ \A t : In(t, Coming(n)') => In(t, q) /\ (s # NoSector => t # s)
    BY <1>2, <1>3, <1>4, QueueTail
  <1>6. CASE s = NoSector \/ Holding(n, s) = {}
    <2>1. UNCHANGED <<IoctlBuffer, read>>
      BY <1>3, <1>6 DEF VIRetraceHandler
    <2>2. /\ Table' /\ Issued' /\ Held' /\ Alone' /\ Entries' /\ Agreed'
          /\ \A t \in Sectors : (Told(t)' <=> Told(t)) /\ (Sent(t)' <=> Sent(t))
      BY <1>1, <2>1, TableCalm
    <2>3. News'
      BY <1>1, <2>1, <2>2, KeepsNews
    <2>4. ASSUME NEW m \in Consoles PROVE Awaited(m, Coming(m))'
      <3>1. CASE m = n
        BY <1>4, <1>5, <2>1, <2>2, <3>1 DEF Awaited
      <3>2. CASE m # n
        BY <1>2, <2>1, <2>2, <3>2 DEF Awaited
      <3> QED BY <3>1, <3>2
    <2> QED BY <1>2, <2>2, <2>3, <2>4
  <1>7. CASE s # NoSector /\ Holding(n, s) # {}
    <2>1. s \in Sectors /\ read[n][s] = "registered" /\ Sent(s)
      BY <1>4, <1>5, <1>7 DEF Callbacks
    <2>2. PICK i : i = Min(Holding(n, s))
      OBVIOUS
    <2>3. i \in Holding(n, s)
      <3>1. Holding(n, s) \subseteq Nat
        BY DiscAssumption DEF Holding, Index
      <3> QED BY <1>7, <2>2, <3>1, MinIn
    <2>4. /\ IoctlBuffer[n][i].state = 2 /\ IoctlBuffer' = [IoctlBuffer EXCEPT ![n][i].state = 0]
          /\ Becomes(n, s, "done")
      BY <1>3, <1>7, <2>2 DEF VIRetraceHandler, Becomes
    <2>5. PICK e : e = [IoctlBuffer[n][i] EXCEPT !.state = 0]
      OBVIOUS
    <2>6. i \in Index /\ Holds(n, i, s) /\ Stores(n, i, e)
      BY <2>3, <2>4, <2>5 DEF Holding, Holds, Stores
    <2>7. /\ Table' /\ Issued' /\ Held' /\ Alone' /\ Entries' /\ Agreed'
          /\ \A t \in Sectors : (Told(t)' <=> Told(t)) /\ (Sent(t)' <=> Sent(t))
          /\ \A m \in Consoles, t \in Sectors : m # n \/ t # s => read'[m][t] = read[m][t]
      BY <1>1, <2>1, <2>4, <2>5, <2>6, CalledBackKeeps
    <2>8. News'
      <3>1. Told(s)
        BY <2>1, ToldGuest
      <3>2. \A t \in Sectors : read[Guest][t] = "registered" /\ ~Told(t) =>
                                   read'[Guest][t] = "registered" /\ ~Told(t)'
        BY <1>0, <2>7, <3>1
      <3> QED BY <1>1, <3>2, KeepsNews
    <2>9. ASSUME NEW m \in Consoles PROVE Awaited(m, Coming(m))'
      <3>1. CASE m = n
        <4>1. \A t \in Sectors : In(t, Coming(n)') => read'[n][t] = "registered" /\ Sent(t)'
          BY <1>4, <1>5, <1>7, <2>7
        <4> QED BY <1>5, <3>1, <4>1 DEF Awaited
      <3>2. CASE m # n
        BY <1>2, <2>7, <3>2 DEF Awaited
      <3> QED BY <3>1, <3>2
    <2> QED BY <1>2, <2>7, <2>8, <2>9
  <1> QED BY <1>6, <1>7

-----------------------------------------------------------------------------
(* The invariant and what it implies. *)

\* No game has issued a read, and nothing is under way.
LEMMA DiscInvInit ==
    Init => DiscInv
  <1> SUFFICES ASSUME Init PROVE DiscInv
    OBVIOUS
  <1>0. Host \in Consoles /\ Guest \in Consoles
    BY DEF Consoles
  <1>1. /\ DOMAIN IoctlBuffer = Consoles /\ \A n \in Consoles : DOMAIN IoctlBuffer[n] = Index
        /\ \A n \in Consoles, i \in Index : IoctlBuffer[n][i] = EmptyEntry
    BY DEF Init
  <1>2. /\ DOMAIN EmptyEntry = {"state", "sector", "pending", "haveCallback", "haveSent"}
        /\ EmptyEntry.state = 0 /\ EmptyEntry.pending = FALSE /\ DOMAIN EmptyEntry.haveCallback = Consoles
    BY DEF EmptyEntry
  <1>3. Table
    <2>1. IsEntry(EmptyEntry)
      BY <1>2 DEF IsEntry
    <2> QED BY <1>1, <2>1 DEF Table
  <1>4. \A n \in Consoles, i \in Index, s \in Sectors : ~Holds(n, i, s)
    BY <1>1, <1>2 DEF Holds
  <1>5. /\ DOMAIN issued = Consoles /\ DOMAIN read = Consoles /\ \A n \in Consoles : issued[n] = 0 /\ DOMAIN read[n] = Sectors
        /\ \A n \in Consoles, s \in Sectors : read[n][s] = "none"
    BY DEF Init
  <1>6. Issued
    <2>1. \A s \in Sectors : s > 0
      BY DEF Sectors
    <2> QED BY <1>5, <2>1 DEF Issued
  <1>7. Held /\ Alone
    BY <1>4, <1>5 DEF Held, Alone
  <1>8. Entries
    <2>1. \A n \in Consoles : Entry(n, EmptyEntry)
      BY <1>2 DEF Entry
    <2> QED BY <1>1, <2>1 DEF Entries
  <1>9. Agreed
    BY <1>0, <1>5 DEF Agreed
  <1>10. toHost = << >> /\ toGuest = << >> /\ \A n \in Consoles : frames[n] = << >>
    BY DEF Init
  <1>11. Queues
    <2>1. << >> \in Seq(Callbacks) /\ << >> \in Seq(Sectors \cup {Reading})
      BY EmptySeq
    <2> QED BY <1>10, <2>1 DEF Queues, Init
  <1>12. Len(<< >>) = 0 /\ << >> \o << >> = << >>
    OBVIOUS
  <1>13. \A x, c : ~In(x, << >>) /\ Once(<< >>, c)
    BY <1>12 DEF In, Once
  <1>14. News
    BY <1>10, <1>13 DEF News
  <1>15. \A n \in Consoles : Coming(n) = << >>
    BY <1>10, <1>12 DEF Coming
  <1>16. \A n \in Consoles : Awaited(n, Coming(n))
    BY <1>13, <1>15 DEF Awaited
  <1> QED BY <1>3, <1>6, <1>7, <1>8, <1>9, <1>11, <1>14, <1>16 DEF DiscInv

\* Every step keeps the invariant.
LEMMA DiscInvStep ==
    DiscInv /\ [Next]_vars => DiscInv'
  <1> SUFFICES ASSUME DiscInv, [Next]_vars PROVE DiscInv'
    OBVIOUS
  <1>1. ASSUME NEW n \in Consoles, IssueRead(n) PROVE DiscInv'
    BY <1>1, IssueReadKeeps
  <1>2. ASSUME NEW n \in Consoles, NEW s \in Sectors, Register(n, s) PROVE DiscInv'
    BY <1>2, RegisterKeeps
  <1>3. ASSUME NEW n \in Consoles, NEW i \in Index, ourCallback(n, i) PROVE DiscInv'
    BY <1>3, OurCallbackKeeps
  <1>4. ASSUME NEW n \in Consoles, VIRetraceHandler(n) PROVE DiscInv'
    BY <1>4, RetraceKeeps
  <1>5. CASE RecvRead
    BY <1>5, RecvReadKeeps
  <1>6. CASE TakeReading \/ RecvReading
    BY <1>6, ReadingKeeps
  <1>7. CASE Broadcast
    BY <1>7, BroadcastKeeps
  <1>8. CASE RecvFrame
    BY <1>8, RecvFrameKeeps
  <1>9. CASE UNCHANGED vars
    <2>1. UNCHANGED <<IoctlBuffer, issued, read, toHost, frames, toGuest>>
      BY <1>9 DEF vars
    <2>2. /\ Table' /\ Issued' /\ Held' /\ Alone' /\ Entries' /\ Agreed'
          /\ \A s \in Sectors : (Told(s)' <=> Told(s)) /\ (Sent(s)' <=> Sent(s))
      BY <2>1, TableCalm
    <2>3. Queues'
      BY <2>1 DEF DiscInv, Queues
    <2>4. News'
      BY <2>1, <2>2, KeepsNews DEF DiscInv
    <2>5. \A n \in Consoles : Awaited(n, Coming(n))'
      BY <2>1, <2>2, KeepsAwaited DEF DiscInv
    <2> QED BY <2>2, <2>3, <2>4, <2>5 DEF DiscInv
  <1> QED BY <1>1, <1>2, <1>3, <1>4, <1>5, <1>6, <1>7, <1>8, <1>9 DEF Next

\* The invariant holds of the disc reads of every game.
THEOREM DiscInvariant ==
    Spec => []DiscInv
  BY DiscInvInit, DiscInvStep, PTL DEF Spec

\* A console that comes to a frame with a read has an entry for it.
LEMMA HeadHeld ==
    ASSUME DiscInv, NEW n \in Consoles, frames[n] # << >>, Head(frames[n]) # NoSector
    PROVE  Holding(n, Head(frames[n])) # {}
  <1> USE DEF DiscInv
  <1>1. PICK f, g, s : f = frames[n] /\ g = toGuest /\ s = Head(frames[n])
    OBVIOUS
  <1>2. f \in Seq(Callbacks) /\ g \in Seq(Callbacks) /\ f # << >>
    BY <1>1 DEF Queues
  <1>3. f \o g \in Seq(Callbacks) /\ f \o g # << >> /\ Head(f \o g) = s
    BY <1>1, <1>2, QueueBefore
  <1>4. Coming(n) \in Seq(Callbacks) /\ Coming(n) # << >> /\ Head(Coming(n)) = s
    BY <1>1, <1>2, <1>3 DEF Coming
  <1>5. s \in Callbacks /\ In(s, Coming(n))
    <2>1. Once(Coming(n), NoSector)
      BY DEF Awaited
    <2> QED BY <1>4, <2>1, QueueTail
  <1>6. s \in Sectors /\ read[n][s] = "registered"
    <2>1. s \in Sectors
      BY <1>1, <1>5 DEF Callbacks
    <2> QED BY <1>5, <2>1 DEF Awaited
  <1>7. PICK i \in Index : Holds(n, i, s)
    BY <1>6 DEF Held
  <1>8. IoctlBuffer[n][i].state \in {0, 1, 2}
    BY DEF Table, IsEntry
  <1>9. IoctlBuffer[n][i].state >= 1 /\ IoctlBuffer[n][i].sector = s
    BY <1>7, <1>8 DEF Holds
  <1> QED BY <1>1, <1>9 DEF Holding

(***************************************************************************)
(* "[DECC] Unknown callback from host. This is impossible."                *)
(* (My__VIRetraceHandler): it is, whatever the sizes of the table and of   *)
(* the ring, and however the two consoles and the disc interleave.         *)
(***************************************************************************)
THEOREM DiscUnknownCallbackImpossible ==
    Spec => []UnknownCallbackImpossible
  <1>1. DiscInv => UnknownCallbackImpossible
    BY HeadHeld DEF UnknownCallbackImpossible
  <1> QED BY <1>1, DiscInvariant, PTL

(***************************************************************************)
(* No frame completes a read that the game has been called back for, and   *)
(* no two frames complete the same read (sendThread_main, haveSent).       *)
(***************************************************************************)
THEOREM DiscCompletedOnce ==
    Spec => []CompletedOnce
  <1>1. ASSUME DiscInv, NEW n \in Consoles, NEW q, q = IF n = Guest THEN frames[n] \o toGuest ELSE frames[n]
        PROVE  /\ \A i \in 1 .. Len(q) : q[i] # NoSector => read[n][q[i]] # "done"
               /\ \A i, j \in 1 .. Len(q) : i # j /\ q[i] # NoSector => q[i] # q[j]
    <2>1. q = Coming(n) /\ Awaited(n, q)
      BY <1>1 DEF Coming, DiscInv
    <2>2. q \in Seq(Callbacks)
      BY <1>1, ConcatProperties DEF DiscInv, Queues
    <2>3. ASSUME NEW i \in 1 .. Len(q), q[i] # NoSector PROVE read[n][q[i]] # "done"
      <3>1. q[i] \in Sectors
        BY <2>2, <2>3, ElementOfSeq DEF Callbacks
      <3>2. In(q[i], q)
        BY DEF In
      <3> QED BY <2>1, <3>1, <3>2 DEF Awaited
    <2> QED BY <2>1, <2>3 DEF Awaited, Once
  <1>2. DiscInv => CompletedOnce
    BY <1>1 DEF CompletedOnce
  <1> QED BY <1>2, DiscInvariant, PTL

=============================================================================
