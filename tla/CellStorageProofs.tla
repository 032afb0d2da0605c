------------------------- MODULE CellStorageProofs -------------------------
(***************************************************************************)
(* Proofs about module CellStorage, for any number of workers, positions,    *)
(* slots and values and any size of the cache.                              *)
(*                                                                          *)
(* The argument.  Of a cell that was never raced, one worker at most is      *)
(* loading or evicting it, and then it is not cached; whoever else has it    *)
(* has the instance in the cache (Lonely, InUse).  So one place at a time    *)
(* holds what was set: the cached instance, the worker that carries it to or *)
(* from its file, or the file (Kept).  An instance that is not marked as     *)
(* modified agrees with its file, so it may be dropped unwritten; the mark   *)
(* is never cleared, so a save that wrote older bytes does no harm.  A       *)
(* single worker is between calls while it saves, and then every entry the   *)
(* save has passed was unmarked or is stored (Passed).                       *)
(***************************************************************************)
EXTENDS CellStorage, SequenceTheorems, FiniteSetTheorems, WellFoundedInduction, TLAPS

At == {"read", "insert", "evict", "return"}
CallOf(at, p, s, v, id, data, victim) ==
    [at |-> at, pos |-> p, slot |-> s, value |-> v, id |-> id, data |-> data, victim |-> victim]

\* A call is idle, or has all the fields; a victim is there while it is evicted.
CallOK(r) ==
    r # Idle =>
        /\ r = CallOf(r.at, r.pos, r.slot, r.value, r.id, r.data, r.victim)
        /\ r.at \in At /\ r.pos \in Pos /\ r.slot \in Slot /\ r.value \in Value \cup {Get}
        /\ r.data \in Content /\ r.victim \in Pos \cup {Missing}
        /\ r.at = "evict" <=> r.victim # Missing
        /\ r.at \in {"read", "insert"} => r.id = 0

EntryOK(e) == e.pos \in Pos /\ e = [pos |-> e.pos, id |-> e.id]

Instance == [data : Content, modified : BOOLEAN]

Typed ==
    /\ callers \in Nat \ {0}
    /\ call = [c \in Worker |-> call[c]]
    /\ \A c \in Worker : CallOK(call[c])
    /\ heap \in [DOMAIN heap -> Instance]
    /\ stored \in [Pos -> Content \cup {Missing}]
    /\ want \in [Pos -> Content]
    /\ raced \subseteq Pos /\ failed \subseteq Pos /\ saving.unsaved \subseteq Pos
    /\ saving = [todo |-> saving.todo, data |-> saving.data, unsaved |-> saving.unsaved]
    /\ saving.data \in Content

\* The entries of the cache, each for another position, and what is left to save.
Entries ==
    /\ cells \in Seq(Range(cells)) /\ Len(cells) <= CacheSize
    /\ saving.todo \in Seq(Range(saving.todo))
    /\ \A e \in Range(cells) \cup Range(saving.todo) : EntryOK(e)
    /\ \A i, j \in DOMAIN cells : cells[i].pos = cells[j].pos => i = j

\* What the cache, the saves and the calls refer to is an instance.
Ref(e) == <<e.pos, e.id>>
References ==
    /\ IsFiniteSet(DOMAIN heap)
    /\ \A e \in Range(cells) \cup Range(saving.todo) : Ref(e) \in DOMAIN heap
    /\ \A c \in Worker : call[c].at \in {"evict", "return"} => Ref(call[c]) \in DOMAIN heap

Holds(p, id) == \E e \in Range(cells) : e.pos = p /\ e.id = id

\* Whoever loads or evicts a cell is alone with it, and it is not in the cache.
Lonely(c, p) == Cached(p) = {} /\ ~UsedBesides(c, p)

\* Of a cell that was not raced.
InUseBy(c, p) ==
    /\ call[c].at \in {"read", "insert"} /\ call[c].pos = p => Lonely(c, p)
    /\ call[c].at = "evict" /\ call[c].victim = p => call[c].pos # p /\ Lonely(c, p)
    /\ call[c].at \in {"evict", "return"} /\ call[c].pos = p => Holds(p, call[c].id)

InUse(p) ==
    /\ \A c \in Worker : InUseBy(c, p)
    /\ \A e \in Range(saving.todo) : e.pos = p => Holds(p, e.id)

\* Of a cell that was not raced and whose file did not fail: where what was set is.
Kept(p) ==
    /\ \A e \in Range(cells) : e.pos = p =>
        /\ heap[Ref(e)].data = want[p]
        /\ ~heap[Ref(e)].modified => File(p) = want[p]
    /\ Cached(p) = {} /\ p \notin InFlight => File(p) = want[p]
    /\ \A c \in Worker :
        /\ call[c].at = "insert" /\ call[c].pos = p => call[c].data = want[p]
        /\ call[c].at = "evict" /\ call[c].victim = p => call[c].data = want[p]

\* A save writes what is modified.
HeadModified == Saving => NeedsWrite(Ref(Head(saving.todo)))

Shape == Typed /\ Entries /\ References /\ HeadModified

CellInv ==
    /\ Shape
    /\ \A p \in Pos \ raced : InUse(p)
    /\ \A p \in Pos \ (raced \cup failed) : Kept(p)

\* A single worker races with nobody, and saves between its calls: what a save has
\* passed is stored.
Passed(p) == \A e \in Range(cells) : e.pos = p =>
    e \in Range(saving.todo) \/ ~heap[Ref(e)].modified \/ stored[p] = want[p]

SoloInv ==
    callers = 1 =>
        /\ raced = {}
        /\ Saving => /\ \A c \in Worker : call[c] = Idle
                     /\ saving.data = heap[Ref(Head(saving.todo))].data
                     /\ \A p \in Pos \ (failed \cup saving.unsaved) : Passed(p)

-----------------------------------------------------------------------------
(* Lemmas about calls and instances *)

\* The fields of a call that is under way.
LEMMA CallFields ==
    ASSUME Typed, NEW c \in Worker
    PROVE  /\ call[c] # Idle <=> call[c].at # "idle"
           /\ call[c] # Idle =>
                /\ call[c] = CallOf(call[c].at, call[c].pos, call[c].slot, call[c].value,
                                    call[c].id, call[c].data, call[c].victim)
                /\ call[c].at \in At /\ call[c].pos \in Pos /\ call[c].slot \in Slot
                /\ call[c].value \in Value \cup {Get} /\ call[c].data \in Content
                /\ call[c].victim \in Pos \cup {Missing}
                /\ call[c].at = "evict" <=> call[c].victim # Missing
                /\ call[c].at \in {"read", "insert"} => call[c].id = 0
<1>1. call[c] = Idle => call[c].at = "idle"
  BY DEF Idle
<1>2. call[c] # Idle => call[c].at # "idle"
  BY DEF Typed, CallOK, At
<1> QED
  BY <1>1, <1>2 DEF Typed, CallOK

\* A call that goes on.
LEMMA CallMade ==
    ASSUME NEW at \in At, NEW p \in Pos, NEW s \in Slot, NEW v \in Value \cup {Get}, NEW id,
           NEW data \in Content, NEW victim \in Pos \cup {Missing},
           at = "evict" <=> victim # Missing, at \in {"read", "insert"} => id = 0
    PROVE  CallOK(CallOf(at, p, s, v, id, data, victim))
BY DEF CallOK, CallOf

\* A call with some fields changed.
LEMMA CallGoesOn ==
    ASSUME NEW k, NEW a, NEW d,
           k = CallOf(k.at, k.pos, k.slot, k.value, k.id, k.data, k.victim)
    PROVE  [k EXCEPT !.at = a, !.data = d]
            = CallOf(a, k.pos, k.slot, k.value, k.id, d, k.victim)
<1> DEFINE r == [k EXCEPT !.at = a, !.data = d]
<1>1. r = [f \in DOMAIN k |-> IF f = "data" THEN d ELSE IF f = "at" THEN a ELSE k[f]]
  OBVIOUS
<1> HIDE DEF r
<1>2. r = CallOf(a, k.pos, k.slot, k.value, k.id, d, k.victim)
  BY <1>1 DEF CallOf
<1> QED
  BY <1>2 DEF r

\* The collection keeps what is referred to, as it is.
LEMMA Collection ==
    ASSUME NEW h
    PROVE  /\ Collected(h) = [i \in DOMAIN Collected(h) |-> h[i]]
           /\ \A i \in DOMAIN Collected(h) :
                /\ i \in DOMAIN h /\ Collected(h)[i] = h[i]
                /\ \/ \E e \in Range(cells') \cup Range(saving'.todo) : i = Ref(e)
                   \/ \E c \in Worker : call'[c].at # "idle" /\ i = Ref(call'[c])
           /\ \A e \in Range(cells') \cup Range(saving'.todo) :
                Ref(e) \in DOMAIN h => Ref(e) \in DOMAIN Collected(h)
           /\ \A c \in Worker : call'[c].at # "idle" /\ Ref(call'[c]) \in DOMAIN h =>
                Ref(call'[c]) \in DOMAIN Collected(h)
BY DEF Collected, Ref

\* Values and contents.
LEMMA Contents ==
    /\ Fresh \in Content /\ 0 \in Value
    /\ \A d \in Content, s \in Slot, v \in Value : [d EXCEPT ![s] = v] \in Content
    /\ Get \notin Value /\ Missing \notin Pos /\ CacheSize \in Nat \ {0}
BY CellStorageAssumption DEF Fresh, Content, Get

\* A file that holds what a cell holds reads as that: what Missing stands for is the
\* content of a cell only if cells have no slots, and is Fresh then.
LEMMA FileHolds ==
    ASSUME NEW w \in Content
    PROVE  (IF w = Missing THEN Fresh ELSE w) = w
<1>1. CASE w = Missing
  <2>1. DOMAIN w = Slot /\ w = [s \in Slot |-> w[s]]
    BY DEF Content
  <2>2. DOMAIN w = {}
    BY <1>1 DEF Missing
  <2>3. Slot = {}
    BY <2>1, <2>2
  <2>4. \A s \in Slot : w[s] = 0
    BY <2>3
  <2>5. w = Fresh
    BY <2>1, <2>4 DEF Fresh
  <2> QED
    BY <2>5
<1> QED
  BY <1>1

\* What is in the cache of a position.
LEMMA CachedEntries ==
    ASSUME NEW p
    PROVE  /\ Cached(p) = {} <=> \A e \in Range(cells) : e.pos # p
           /\ \A e \in Range(cells) : e.pos = p => Holds(p, e.id)
BY DEF Cached, Holds

\* Positions and their entries are one to one.
LEMMA OneEntry ==
    ASSUME Entries, NEW e \in Range(cells), NEW f \in Range(cells), e.pos = f.pos
    PROVE  e = f
BY DEF Entries, Range

\* A sequence is one of what it holds.
LEMMA Elements ==
    ASSUME NEW S, NEW q \in Seq(S)
    PROVE  /\ q \in Seq(Range(q)) /\ Len(q) \in Nat /\ DOMAIN q = 1..Len(q)
           /\ Range(q) = {q[k] : k \in 1..Len(q)} /\ Range(q) \subseteq S
<1>1. Len(q) \in Nat /\ DOMAIN q = 1..Len(q) /\ q \in [1..Len(q) -> S]
  OBVIOUS
<1>2. Range(q) = {q[k] : k \in 1..Len(q)}
  BY <1>1 DEF Range
<1>3. \A k \in 1..Len(q) : q[k] \in Range(q)
  BY <1>2
<1>4. q \in [1..Len(q) -> Range(q)]
  BY <1>1, <1>3
<1>5. q \in Seq(Range(q))
  BY <1>1, <1>4
<1>6. Range(q) \subseteq S
  BY <1>1, <1>2
<1>7. QED
  BY <1>1, <1>2, <1>5, <1>6

\* An element that is taken out of a sequence.
LEMMA TakenOut ==
    ASSUME NEW S, NEW q \in Seq(S), NEW i \in 1..Len(q)
    PROVE  /\ RemoveAt(q, i) \in Seq(S) /\ Len(RemoveAt(q, i)) = Len(q) - 1
           /\ \A j \in 1..Len(q) - 1 : RemoveAt(q, i)[j] = IF j < i THEN q[j] ELSE q[j + 1]
<1> DEFINE a == SubSeq(q, 1, i - 1)
           b == SubSeq(q, i + 1, Len(q))
<1>1. Len(q) \in Nat /\ i \in Nat /\ 1 <= i /\ i <= Len(q)
  OBVIOUS
<1>2. a \in Seq(S) /\ Len(a) = i - 1 /\ \A j \in 1..i - 1 : a[j] = q[j]
  BY <1>1
<1>3. b \in Seq(S) /\ Len(b) = Len(q) - i /\ \A j \in 1..Len(q) - i : b[j] = q[i + j]
  BY <1>1
<1>4. RemoveAt(q, i) = a \o b
  BY DEF RemoveAt
<1> HIDE DEF a, b
<1>5. /\ a \o b \in Seq(S) /\ Len(a \o b) = Len(a) + Len(b)
      /\ \A j \in 1..Len(a) + Len(b) : (a \o b)[j] = IF j <= Len(a) THEN a[j] ELSE b[j - Len(a)]
  BY <1>2, <1>3, ConcatProperties
<1>6. Len(a) + Len(b) = Len(q) - 1
  BY <1>1, <1>2, <1>3
<1>7. ASSUME NEW j \in 1..Len(q) - 1
      PROVE  (a \o b)[j] = IF j < i THEN q[j] ELSE q[j + 1]
  <2>1. (a \o b)[j] = IF j <= Len(a) THEN a[j] ELSE b[j - Len(a)]
    BY <1>5, <1>6
  <2>2. CASE j < i
    <3>1. j <= Len(a) /\ j \in 1..i - 1
      BY <1>1, <1>2, <2>2
    <3> QED
      BY <1>2, <2>1, <2>2, <3>1
  <2>3. CASE ~(j < i)
    <3>1. ~(j <= Len(a)) /\ j - Len(a) \in 1..Len(q) - i /\ i + (j - Len(a)) = j + 1
      BY <1>1, <1>2, <2>3
    <3> QED
      BY <1>3, <2>1, <2>3, <3>1
  <2> QED
    BY <2>2, <2>3
<1> QED
  BY <1>4, <1>5, <1>6, <1>7

\* The element that is taken out is put behind the others.
LEMMA PutBehind ==
    ASSUME NEW S, NEW q \in Seq(S), NEW i \in 1..Len(q)
    PROVE  LET y == Append(RemoveAt(q, i), q[i])
           IN  /\ y \in Seq(S) /\ Len(y) = Len(q)
               /\ \A j \in 1..Len(q) : y[j] = IF j = Len(q) THEN q[i]
                                              ELSE IF j < i THEN q[j] ELSE q[j + 1]
<1> DEFINE y == Append(RemoveAt(q, i), q[i])
<1>1. q[i] \in S /\ Len(q) \in Nat
  OBVIOUS
<1>2. /\ y \in Seq(S) /\ Len(y) = Len(RemoveAt(q, i)) + 1
      /\ \A j \in 1..Len(RemoveAt(q, i)) : y[j] = RemoveAt(q, i)[j]
      /\ y[Len(RemoveAt(q, i)) + 1] = q[i]
  BY <1>1, TakenOut, AppendProperties
<1>3. Len(RemoveAt(q, i)) = Len(q) - 1
  BY TakenOut
<1> HIDE DEF y
<1>4. ASSUME NEW j \in 1..Len(q)
      PROVE  y[j] = IF j = Len(q) THEN q[i] ELSE IF j < i THEN q[j] ELSE q[j + 1]
  <2>1. CASE j = Len(q)
    BY <1>1, <1>2, <1>3, <2>1
  <2>2. CASE j # Len(q)
    <3>1. j \in 1..Len(q) - 1
      BY <1>1, <2>2
    <3> QED
      BY <1>2, <1>3, <2>2, <3>1, TakenOut
  <2> QED
    BY <2>1, <2>2
<1>5. Len(y) = Len(q)
  BY <1>1, <1>2, <1>3
<1> QED
  BY <1>2, <1>4, <1>5 DEF y

\* A cell that was found is moved to the end, and the cache has the same entries.
LEMMA YoungestEntries ==
    ASSUME Entries, NEW i \in DOMAIN cells
    PROVE  /\ Youngest(i) \in Seq(Range(cells)) /\ Range(Youngest(i)) = Range(cells)
           /\ Len(Youngest(i)) = Len(cells)
           /\ \A j, k \in DOMAIN Youngest(i) : Youngest(i)[j].pos = Youngest(i)[k].pos => j = k
<1> DEFINE n == Len(cells)
           y == Youngest(i)
<1>1. cells \in Seq(Range(cells)) /\ n \in Nat /\ i \in 1..n /\ DOMAIN cells = 1..n
  BY DEF Entries
<1>2. /\ y \in Seq(Range(cells)) /\ Len(y) = n
      /\ \A j \in 1..n : y[j] = IF j = n THEN cells[i] ELSE IF j < i THEN cells[j] ELSE cells[j + 1]
  BY <1>1, PutBehind DEF Youngest
<1> HIDE DEF y
<1>3. DOMAIN y = 1..n
  BY <1>2
<1>8. n \in Nat /\ i \in 1..n /\ DOMAIN cells = 1..n
  BY <1>1
<1>9. \A l, m \in 1..n : cells[l].pos = cells[m].pos => l = m
  BY <1>1 DEF Entries
<1> HIDE DEF n
<1>4. \A j \in 1..n : \E k \in 1..n : y[j] = cells[k]
  <2> TAKE j \in 1..n
  <2>1. j # n => j + 1 \in 1..n
    BY <1>8
  <2> QED
    BY <1>2, <1>8, <2>1
<1>5. \A k \in 1..n : \E j \in 1..n : y[j] = cells[k]
  <2> TAKE k \in 1..n
  <2>1. n \in 1..n
    BY <1>8
  <2>2. CASE k = i
    <3>1. y[n] = cells[k]
      BY <1>2, <2>1, <2>2
    <3> QED
      BY <2>1, <3>1
  <2>3. CASE k < i
    <3>1. k # n
      BY <1>8, <2>3
    <3>2. y[k] = cells[k]
      BY <1>2, <2>3, <3>1
    <3> QED
      BY <3>2
  <2>4. CASE k > i
    <3>1. k - 1 \in 1..n /\ k - 1 # n /\ ~(k - 1 < i) /\ (k - 1) + 1 = k
      BY <1>8, <2>4
    <3>2. y[k - 1] = cells[k]
      BY <1>2, <3>1
    <3> QED
      BY <3>1, <3>2
  <2> QED
    BY <1>8, <2>2, <2>3, <2>4
<1>6. Range(y) = Range(cells)
  <2>1. Range(y) = {y[j] : j \in 1..n} /\ Range(cells) = {cells[k] : k \in 1..n}
    BY <1>3, <1>8 DEF Range
  <2> QED
    BY <1>4, <1>5, <2>1, Zenon
<1>7. ASSUME NEW j \in 1..n, NEW k \in 1..n, y[j].pos = y[k].pos
      PROVE  j = k
  <2> DEFINE from(l) == IF l = n THEN i ELSE IF l < i THEN l ELSE l + 1
  <2>2. \A l \in 1..n : from(l) \in 1..n /\ y[l] = cells[from(l)]
    BY <1>2, <1>8
  <2>3. from(j) = from(k)
    BY <1>7, <1>9, <2>2
  <2> QED
    BY <1>8, <2>3
<1> QED
  BY <1>2, <1>3, <1>6, <1>7 DEF y, n

\* The cache q behind an insertion into all: the new entry is in it, and the eldest one
\* is out if there are too many.
InsertedInto(p, id, all, q) ==
    /\ q \in Seq(Range(q)) /\ Len(q) <= CacheSize
    /\ \A e \in Range(q) : EntryOK(e)
    /\ \A i, j \in DOMAIN q : q[i].pos = q[j].pos => i = j
    /\ [pos |-> p, id |-> id] \in Range(q)
    /\ \A e \in Range(q) : e = [pos |-> p, id |-> id] \/ (e \in Range(cells) /\ e.pos # p)
    /\ Len(all) > CacheSize =>
        /\ Head(all) \in Range(cells) /\ Head(all).pos # p
        /\ \A e \in Range(cells) : e.pos # p /\ e # Head(all) => e \in Range(q)
        /\ Head(all) \notin Range(q)
    /\ ~(Len(all) > CacheSize) => \A e \in Range(cells) : e.pos # p => e \in Range(q)

LEMMA InsertedEntries ==
    ASSUME Entries, NEW p \in Pos, NEW id, NEW all, all = Inserted(p, id),
           NEW q, q = IF Len(all) > CacheSize THEN Tail(all) ELSE all
    PROVE  InsertedInto(p, id, all, q)
<1> USE DEF InsertedInto
<1> DEFINE entry == [pos |-> p, id |-> id]
           n == Len(cells)
<1>1. /\ cells \in Seq(Range(cells)) /\ n \in Nat /\ DOMAIN cells = 1..n /\ n <= CacheSize
      /\ CacheSize \in Nat \ {0}
      /\ \A j, k \in 1..n : cells[j].pos = cells[k].pos => j = k
      /\ Range(cells) = {cells[k] : k \in 1..n}
  BY Contents DEF Entries, Range
<1>2. entry.pos = p /\ EntryOK(entry)
  BY DEF EntryOK
<1>5. Len(cells) = n
  OBVIOUS
<1> HIDE DEF entry, n
<1>3. CASE Cached(p) # {}
  <2>1. all = [i \in 1..n |-> IF cells[i].pos = p THEN entry ELSE cells[i]]
    BY <1>1, <1>3 DEF Inserted, entry
  <2>2. all \in Seq(Range(cells) \cup {entry}) /\ Len(all) = n /\ DOMAIN all = 1..n
    BY <1>1, <2>1
  <2>3. q = all
    <3>1. ~(Len(all) > CacheSize)
      BY <1>1, <2>2
    <3> QED
      BY <3>1
  <2>4. PICK i \in 1..n : cells[i].pos = p
    BY <1>1, <1>3 DEF Cached
  <2>5. all[i] = entry
    BY <2>1, <2>4
  <2>6. \A e \in Range(all) : e = entry \/ (e \in Range(cells) /\ e.pos # p)
    BY <1>1, <2>1, <2>2 DEF Range
  <2>7. \A e \in Range(cells) : e.pos # p => e \in Range(all)
    <3>1. \A k \in 1..n : cells[k].pos # p => all[k] = cells[k]
      BY <2>1
    <3> QED
      BY <1>1, <2>2, <3>1 DEF Range
  <2>8. \A k \in 1..n : all[k].pos = cells[k].pos
    BY <1>2, <2>1
  <2>9. all \in Seq(Range(all))
    BY <1>1, <2>2 DEF Range
  <2>10. entry \in Range(all)
    BY <2>2, <2>5 DEF Range
  <2>11. \A e \in Range(all) : EntryOK(e)
    BY <1>2, <2>6 DEF Entries
  <2>12. \A j, k \in 1..n : all[j].pos = all[k].pos => j = k
    BY <1>1, <2>8
  <2>13. Len(all) <= CacheSize /\ ~(Len(all) > CacheSize)
    BY <1>1, <2>2
  <2> HIDE DEF entry
  <2> QED
    BY <2>2, <2>3, <2>6, <2>7, <2>9, <2>10, <2>11, <2>12, <2>13 DEF entry
<1>4. CASE Cached(p) = {}
  <2>1. all = Append(cells, entry)
    BY <1>4 DEF Inserted, entry
  <2>2. /\ all \in Seq(Range(cells) \cup {entry}) /\ Len(all) = n + 1 /\ DOMAIN all = 1..n + 1
        /\ \A k \in 1..n : all[k] = cells[k]
        /\ all[n + 1] = entry
    BY <1>1, <2>1
  <2>3. \A k \in 1..n : cells[k].pos # p
    <3>1. \A e \in Range(cells) : e.pos # p
      BY <1>4 DEF Cached
    <3> QED
      BY <1>1, <3>1
  <2>4. \A j, k \in 1..n + 1 : all[j].pos = all[k].pos => j = k
    <3>1. \A k \in 1..n + 1 : k # n + 1 => k \in 1..n
      BY <1>1
    <3> QED
      BY <1>1, <1>2, <2>2, <2>3, <3>1
  <2>5. CASE Len(all) > CacheSize
    <3>1. n = CacheSize /\ q = Tail(all)
      <4>1. n + 1 > CacheSize
        BY <2>2, <2>5
      <4>2. n = CacheSize
        BY <1>1, <4>1
      <4> QED
        BY <2>5, <4>2
    <3>2. /\ q \in Seq(Range(cells) \cup {entry}) /\ Len(q) = n /\ DOMAIN q = 1..n
          /\ \A k \in 1..n : q[k] = all[k + 1]
      BY <1>1, <2>2, <3>1
    <3>3. 1 \in 1..n /\ n \in 1..n
      BY <1>1, <3>1
    <3>4. Head(all) = cells[1]
      BY <2>2, <3>3
    <3>5. \A j, k \in 1..n : q[j].pos = q[k].pos => j = k
      <4>1. \A j \in 1..n : j + 1 \in 1..n + 1
        BY <1>1
      <4>2. ASSUME NEW j \in 1..n, NEW k \in 1..n, q[j].pos = q[k].pos
            PROVE  j = k
        <5>1. j + 1 = k + 1
          BY <2>4, <3>2, <4>1, <4>2
        <5> QED
          BY <5>1
      <4> QED
        BY <4>2
    <3>6. q[n] = entry
      BY <2>2, <3>2, <3>3
    <3>7. \A k \in 1..n : k # n => q[k] = cells[k + 1] /\ k + 1 \in 1..n
      <4>1. \A k \in 1..n : k # n => k + 1 \in 1..n
        BY <1>1
      <4> QED
        BY <2>2, <3>2, <4>1
    <3>8. \A e \in Range(q) : e = entry \/ (e \in Range(cells) /\ e.pos # p)
      <4>1. \A k \in 1..n : q[k] = entry \/ (q[k] \in Range(cells) /\ q[k].pos # p)
        <5> TAKE k \in 1..n
        <5>1. CASE k = n
          BY <3>6, <5>1
        <5>2. CASE k # n
          <6>1. q[k] = cells[k + 1] /\ k + 1 \in 1..n
            BY <3>7, <5>2
          <6> QED
            BY <1>1, <2>3, <6>1
        <5> QED
          BY <5>1, <5>2
      <4> QED
        BY <3>2, <4>1 DEF Range
    <3>9. \A e \in Range(cells) : e # cells[1] => e \in Range(q)
      <4>1. ASSUME NEW k \in 1..n, k # 1
            PROVE  k - 1 \in 1..n /\ q[k - 1] = cells[k]
        <5>1. k - 1 \in 1..n /\ k - 1 # n /\ (k - 1) + 1 = k
          BY <1>1, <4>1
        <5> QED
          BY <3>7, <5>1
      <4>2. \A e \in Range(cells) : e # cells[1] => \E k \in 1..n : k # 1 /\ e = cells[k]
        BY <1>1
      <4>3. Range(q) = {q[k] : k \in 1..n}
        BY <3>2 DEF Range
      <4> QED
        <5>1. ASSUME NEW e \in Range(cells), e # cells[1]
              PROVE  e \in Range(q)
          <6>1. PICK k \in 1..n : k # 1 /\ e = cells[k]
            BY <4>2, <5>1
          <6>2. k - 1 \in 1..n /\ q[k - 1] = e
            BY <4>1, <6>1
          <6> QED
            BY <4>3, <6>2
        <5> QED
          BY <5>1
    <3>10. cells[1] \notin Range(q)
      <4>1. \A k \in 1..n : q[k] # cells[1]
        <5>1. \A k \in 1..n : q[k].pos # cells[1].pos
          <6>1. \A k \in 1..n : k + 1 \in 1..n + 1 /\ k + 1 # 1
            BY <1>1
          <6>2. 1 \in 1..n + 1 /\ all[1] = cells[1]
            BY <1>1, <2>2, <3>3
          <6>3. \A k \in 1..n : q[k] = all[k + 1]
            BY <3>2
          <6> QED
            BY <2>4, <6>1, <6>2, <6>3
        <5> QED
          BY <5>1
      <4> QED
        BY <3>2, <4>1 DEF Range
    <3>11. q \in Seq(Range(q)) /\ entry \in Range(q) /\ cells[1] \in Range(cells) /\ cells[1].pos # p
      <4>1. Range(q) = {q[k] : k \in 1..n}
        BY <3>2 DEF Range
      <4>3. q \in Seq(Range(q))
        BY <3>2, Elements
      <4> QED
        BY <1>1, <2>3, <3>3, <3>6, <4>1, <4>3
    <3>12. \A e \in Range(q) : EntryOK(e)
      BY <1>2, <3>8 DEF Entries
    <3> QED
      BY <1>1, <2>5, <3>1, <3>2, <3>4, <3>5, <3>8, <3>9, <3>10, <3>11, <3>12 DEF entry
  <2>6. CASE ~(Len(all) > CacheSize)
    <3>1. q = all /\ Len(q) <= CacheSize
      BY <1>1, <2>2, <2>6
    <3>2. \A k \in 1..n + 1 : k # n + 1 => k \in 1..n
      BY <1>1
    <3>3. \A e \in Range(all) : e = entry \/ (e \in Range(cells) /\ e.pos # p)
      BY <1>1, <2>2, <2>3, <3>2 DEF Range
    <3>4. \A e \in Range(cells) : e \in Range(all)
      <4>1. \A k \in 1..n : k \in 1..n + 1
        BY <1>1
      <4> QED
        BY <1>1, <2>2, <4>1 DEF Range
    <3>5. entry \in Range(all)
      <4>1. n + 1 \in 1..n + 1
        BY <1>1
      <4> QED
        BY <2>2, <4>1 DEF Range
    <3>6. all \in Seq(Range(all))
      BY <1>1, <2>2 DEF Range
    <3>7. \A e \in Range(q) : EntryOK(e)
      BY <1>2, <3>1, <3>3 DEF Entries
    <3> QED
      BY <2>2, <2>4, <2>6, <3>1, <3>3, <3>4, <3>5, <3>6, <3>7 DEF entry
  <2> QED
    BY <2>5, <2>6
<1> QED
  BY <1>3, <1>4

\* The least of some natural numbers.
LEMMA Least ==
    ASSUME NEW S \in SUBSET Nat, S # {}
    PROVE  Min(S) \in S /\ \A n \in S : Min(S) <= n
<1>1. PICK n \in S : \A m \in S : ~(<<m, n>> \in OpToRel(<, Nat))
  BY WFMin, NatLessThanWellFounded
<1>2. \A m \in S : ~(m < n)
  BY <1>1 DEF OpToRel
<1>3. \A m \in S : n <= m
  BY <1>2
<1> QED
  BY <1>3 DEF Min

\* A save goes on to an entry to be written, and passes over the others.
LEMMA SavesOnTo ==
    ASSUME NEW S, NEW todo \in Seq(S), NEW unsaved, NEW r, r = SavesOn(todo, unsaved)
    PROVE  /\ r = [todo |-> r.todo, data |-> r.data, unsaved |-> r.unsaved]
           /\ r.todo \in Seq(S) /\ r.todo \in Seq(Range(r.todo)) /\ r.unsaved = unsaved
           /\ Range(r.todo) \subseteq Range(todo)
           /\ \A e \in Range(todo) : e \in Range(r.todo) \/ ~NeedsWrite(Ref(e))
           /\ r.todo = << >> => r.data = Fresh
           /\ r.todo # << >> => /\ Head(r.todo) \in Range(todo)
                                /\ NeedsWrite(Ref(Head(r.todo)))
                                /\ r.data = heap[Ref(Head(r.todo))].data
<1> DEFINE I == {i \in 1..Len(todo) : NeedsWrite(<<todo[i].pos, todo[i].id>>)}
           next == IF I # {} THEN Min(I) ELSE 0
           rest == SubSeq(todo, next, Len(todo))
<1>1. r = IF next = 0 THEN [todo |-> << >>, data |-> Fresh, unsaved |-> unsaved]
          ELSE [todo |-> rest, data |-> heap[<<todo[next].pos, todo[next].id>>].data,
                unsaved |-> unsaved]
  BY DEF SavesOn, SelectInSeq
<1>2. Len(todo) \in Nat /\ DOMAIN todo = 1..Len(todo) /\ Range(todo) = {todo[i] : i \in 1..Len(todo)}
  BY DEF Range
<1>3. CASE I = {}
  <2>1. r = [todo |-> << >>, data |-> Fresh, unsaved |-> unsaved]
    BY <1>1, <1>3
  <2>2. \A e \in Range(todo) : ~NeedsWrite(Ref(e))
    BY <1>2, <1>3 DEF Ref
  <2>3. r.todo = << >> /\ r.data = Fresh /\ r.unsaved = unsaved /\ Range(<< >>) = {}
    BY <2>1 DEF Range
  <2> QED
    BY <2>1, <2>2, <2>3
<1>4. CASE I # {}
  <2>1. next \in I /\ \A i \in I : next <= i
    <3>1. I \in SUBSET Nat
      OBVIOUS
    <3>2. next = Min(I)
      BY <1>4
    <3> HIDE DEF I, next
    <3> QED
      BY <1>4, <3>1, <3>2, Least
  <2> HIDE DEF I, next
  <2>2. next \in 1..Len(todo) /\ NeedsWrite(<<todo[next].pos, todo[next].id>>)
    BY <2>1 DEF I
  <2>3. r = [todo |-> rest, data |-> heap[<<todo[next].pos, todo[next].id>>].data, unsaved |-> unsaved]
    BY <1>1, <2>2
  <2>4. /\ rest \in Seq(S) /\ Len(rest) = Len(todo) - next + 1
        /\ \A j \in 1..Len(todo) - next + 1 : rest[j] = todo[next + j - 1]
    BY <1>2, <2>2
  <2> HIDE DEF rest
  <2>5. 1 \in 1..Len(rest) /\ rest # << >> /\ Head(rest) = todo[next]
    <3>1. Len(rest) >= 1 /\ Len(rest) \in Nat /\ 1 \in 1..Len(todo) - next + 1 /\ next + 1 - 1 = next
      BY <1>2, <2>2, <2>4
    <3>2. rest # << >> /\ Head(rest) = rest[1]
      BY <2>4, <3>1
    <3> QED
      BY <2>4, <3>1, <3>2
  <2>6. Range(rest) = {rest[j] : j \in 1..Len(rest)}
    BY <2>4 DEF Range
  <2>7. Range(rest) \subseteq Range(todo)
    <3>1. \A j \in 1..Len(rest) : next + j - 1 \in 1..Len(todo)
      BY <1>2, <2>2, <2>4
    <3> QED
      BY <1>2, <2>4, <2>6, <3>1
  <2>8. ASSUME NEW i \in 1..Len(todo), NeedsWrite(Ref(todo[i]))
        PROVE  todo[i] \in Range(rest)
    <3>1. next <= i
      BY <2>1, <2>8 DEF I, Ref
    <3>2. i - next + 1 \in 1..Len(rest) /\ next + (i - next + 1) - 1 = i
      BY <1>2, <2>2, <2>4, <3>1
    <3> QED
      BY <2>4, <2>6, <3>2
  <2>9. rest \in Seq(Range(rest))
    BY <2>4 DEF Range
  <2>10. r.todo = rest /\ r.data = heap[Ref(todo[next])].data /\ r.unsaved = unsaved
    BY <2>3 DEF Ref
  <2>11. \A e \in Range(todo) : e \in Range(rest) \/ ~NeedsWrite(Ref(e))
    BY <1>2, <2>8
  <2>12. todo[next] \in Range(todo) /\ NeedsWrite(Ref(todo[next]))
    BY <1>2, <2>2 DEF Ref
  <2>13. r = [todo |-> r.todo, data |-> r.data, unsaved |-> r.unsaved]
    BY <2>3
  <2> QED
    BY <2>4, <2>5, <2>7, <2>9, <2>10, <2>11, <2>12, <2>13
<1> QED
  BY <1>3, <1>4

-----------------------------------------------------------------------------
(* Lemmas about steps *)

\* A step of caller c, whose call becomes r.
Calls(c, r) ==
    /\ callers' = callers
    /\ call' = [d \in Worker |-> call'[d]]
    /\ call'[c] = r
    /\ \A d \in Worker : d # c => call'[d] = call[d]

LEMMA CallUpdated ==
    ASSUME Typed, NEW c \in Worker, NEW r, callers' = callers, call' = [call EXCEPT ![c] = r]
    PROVE  Calls(c, r)
<1>1. call = [d \in Worker |-> call[d]]
  BY DEF Typed
<1>2. \A d \in Worker : call'[d] = IF d = c THEN r ELSE call[d]
  BY <1>1
<1>3. call' = [d \in Worker |-> call'[d]]
  BY <1>1, <1>2
<1> QED
  BY <1>2, <1>3 DEF Calls

\* The calls keep their types.
CallsTyped ==
    /\ callers \in Nat \ {0}
    /\ call = [c \in Worker |-> call[c]]
    /\ \A c \in Worker : CallOK(call[c])

LEMMA CallsStayTyped ==
    ASSUME Typed, NEW c \in Worker, NEW r, Calls(c, r), CallOK(r)
    PROVE  CallsTyped'
<1>1. Worker' = Worker /\ callers' \in Nat \ {0}
  BY DEF Calls, Worker, Typed
<1>2. \A d \in Worker : CallOK(call'[d])
  BY DEF Calls, Typed
<1>3. call' = [d \in Worker |-> call'[d]]
  BY DEF Calls
<1> QED
  BY <1>1, <1>2, <1>3 DEF CallsTyped, CallOK

\* The type of the rest.
RestTyped ==
    /\ heap \in [DOMAIN heap -> Instance]
    /\ stored \in [Pos -> Content \cup {Missing}]
    /\ want \in [Pos -> Content]
    /\ raced \subseteq Pos /\ failed \subseteq Pos

SavingTyped ==
    /\ saving.unsaved \subseteq Pos
    /\ saving = [todo |-> saving.todo, data |-> saving.data, unsaved |-> saving.unsaved]
    /\ saving.data \in Content

LEMMA TypedParts ==
    Typed <=> CallsTyped /\ RestTyped /\ SavingTyped
BY DEF Typed, CallsTyped, RestTyped, SavingTyped

\* The instances behind a step that collects what is left of h.
LEMMA HeapCollected ==
    ASSUME NEW h, heap' = Collected(h), IsFiniteSet(DOMAIN h), callers' = callers,
           \A i \in DOMAIN h : h[i] \in Instance,
           \A e \in Range(cells') \cup Range(saving'.todo) : Ref(e) \in DOMAIN h,
           \A c \in Worker : call'[c].at \in {"evict", "return"} => Ref(call'[c]) \in DOMAIN h
    PROVE  /\ heap' \in [DOMAIN heap' -> Instance]
           /\ References'
           /\ \A e \in Range(cells') \cup Range(saving'.todo) : heap'[Ref(e)] = h[Ref(e)]
<1>1. /\ heap' = [i \in DOMAIN heap' |-> h[i]]
      /\ \A i \in DOMAIN heap' : i \in DOMAIN h /\ heap'[i] = h[i]
      /\ \A e \in Range(cells') \cup Range(saving'.todo) : Ref(e) \in DOMAIN heap'
      /\ \A c \in Worker : call'[c].at # "idle" /\ Ref(call'[c]) \in DOMAIN h =>
            Ref(call'[c]) \in DOMAIN heap'
  BY Collection
<1>2. heap' \in [DOMAIN heap' -> Instance]
  <2>1. \A i \in DOMAIN heap' : h[i] \in Instance
    BY <1>1
  <2> DEFINE D == DOMAIN heap'
  <2> HIDE DEF D
  <2>2. [i \in D |-> h[i]] \in [D -> Instance]
    BY <2>1 DEF D
  <2> QED
    BY <1>1, <2>2 DEF D
<1>3. IsFiniteSet(DOMAIN heap')
  <2>1. DOMAIN heap' \subseteq DOMAIN h
    BY <1>1
  <2> QED
    BY <2>1, FS_Subset
<1>4. Worker' = Worker
  BY DEF Worker
<1>5. \A c \in Worker' : call'[c].at \in {"evict", "return"} => Ref(call'[c]) \in DOMAIN heap'
  BY <1>1, <1>4
<1>6. References'
  BY <1>1, <1>3, <1>5 DEF References, Ref
<1> QED
  BY <1>1, <1>2, <1>6

\* There is a number that no instance of the position has.
LEMMA NewIdIsNew ==
    ASSUME NEW p, IsFiniteSet(DOMAIN heap)
    PROVE  <<p, NewId(p)>> \notin DOMAIN heap
<1> DEFINE N == Cardinality(DOMAIN heap)
           I == {n \in 1..N + 1 : <<p, n>> \notin DOMAIN heap}
<1>1. N \in Nat
  BY FS_CardinalityType
<1>2. I # {}
  <2>1. SUFFICES ASSUME \A n \in 1..N + 1 : <<p, n>> \in DOMAIN heap
                 PROVE  FALSE
    OBVIOUS
  <2> DEFINE f == [n \in 1..N + 1 |-> <<p, n>>]
  <2>2. f \in [1..N + 1 -> DOMAIN heap]
    BY <2>1
  <2>3. IsFiniteSet(1..N + 1) /\ Cardinality(1..N + 1) = N + 1
    BY <1>1, FS_Interval
  <2>4. N < Cardinality(1..N + 1)
    BY <1>1, <2>3
  <2> HIDE DEF f
  <2>5. \E x, y \in 1..N + 1 : x # y /\ f[x] = f[y]
    BY <2>2, <2>3, <2>4, FS_PigeonHole
  <2> QED
    BY <2>5 DEF f
<1>3. I \in SUBSET Nat
  BY <1>1
<1>4. PICK n \in I : \A m \in I : n <= m
  <2> HIDE DEF I
  <2> QED
    BY <1>2, <1>3, Least
<1>5. \A m \in 1..n - 1 : <<p, m>> \in DOMAIN heap
  BY <1>1, <1>4
<1>6. \E k \in 1..N + 1 : <<p, k>> \notin DOMAIN heap /\ \A m \in 1..k - 1 : <<p, m>> \in DOMAIN heap
  BY <1>4, <1>5
<1> QED
  BY <1>6 DEF NewId

-----------------------------------------------------------------------------
(* What the steps do *)

\* A hit: the entries stay, and the caller has its instance.
CallHits(c, p, s, v) ==
    /\ Range(cells') = Range(cells) /\ Entries'
    /\ UNCHANGED <<heap, stored, saving, want, failed, raced, saves>>
    /\ \E e \in Range(cells) : e.pos = p /\ Calls(c, CallOf("return", p, s, v, e.id, Fresh, Missing))

\* A miss.
CallMisses(c, p, s, v) ==
    /\ Cached(p) = {}
    /\ UNCHANGED <<cells, heap, stored, saving, want, failed, saves>>
    /\ raced' = raced \cup Races(c, p)
    /\ Calls(c, CallOf("read", p, s, v, 0, Fresh, Missing))

LEMMA CallStep ==
    ASSUME Shape, NEW c \in Worker, NEW p \in Pos, NEW s \in Slot, NEW v \in Value \cup {Get},
           Call(c, p, s, v)
    PROVE  /\ call[c] = Idle /\ (callers = 1 => ~Saving)
           /\ CallHits(c, p, s, v) \/ CallMisses(c, p, s, v)
<1> USE DEF Shape
<1>1. /\ call[c] = Idle /\ (callers = 1 => ~Saving) /\ callers' = callers
      /\ UNCHANGED <<heap, stored, saving, want, failed, saves>>
  BY DEF Call
<1>2. CASE /\ \E i \in DOMAIN cells :
                /\ cells[i].pos = p
                /\ cells' = Youngest(i)
                /\ call' = [call EXCEPT ![c] = [at |-> "return", pos |-> p, slot |-> s,
                       value |-> v, id |-> cells[i].id, data |-> Fresh, victim |-> Missing]]
           /\ UNCHANGED raced
  <2>1. PICK i \in DOMAIN cells :
                /\ cells[i].pos = p
                /\ cells' = Youngest(i)
                /\ call' = [call EXCEPT ![c] = [at |-> "return", pos |-> p, slot |-> s,
                       value |-> v, id |-> cells[i].id, data |-> Fresh, victim |-> Missing]]
    BY <1>2
  <2>2. /\ cells' \in Seq(Range(cells)) /\ Range(cells') = Range(cells)
        /\ Len(cells') = Len(cells)
        /\ \A j, k \in DOMAIN cells' : cells'[j].pos = cells'[k].pos => j = k
    BY <2>1, YoungestEntries
  <2>3. Entries'
    BY <1>1, <2>2 DEF Entries, EntryOK
  <2>4. cells[i] \in Range(cells)
    BY <2>1 DEF Range
  <2>5. Calls(c, CallOf("return", p, s, v, cells[i].id, Fresh, Missing))
    BY <1>1, <2>1, CallUpdated DEF CallOf
  <2> QED
    BY <1>1, <1>2, <2>1, <2>2, <2>3, <2>4, <2>5 DEF CallHits
<1>3. CASE /\ Cached(p) = {}
           /\ call' = [call EXCEPT ![c] = [at |-> "read", pos |-> p, slot |-> s,
                 value |-> v, id |-> 0, data |-> Fresh, victim |-> Missing]]
           /\ raced' = raced \cup Races(c, p)
           /\ UNCHANGED cells
  <2>1. Calls(c, CallOf("read", p, s, v, 0, Fresh, Missing))
    BY <1>1, <1>3, CallUpdated DEF CallOf
  <2> QED
    BY <1>1, <1>3, <2>1 DEF CallMisses
<1> QED
  BY <1>1, <1>2, <1>3 DEF Call

\* A read: of the file or, with an error, of nothing, and the file may be gone.
ReadsCell(c, data) ==
    LET k == call[c] IN
    /\ k.at = "read" /\ k # Idle
    /\ UNCHANGED <<cells, heap, saving, want, raced, saves>>
    /\ Calls(c, CallOf("insert", k.pos, k.slot, k.value, 0, data, Missing))

LEMMA ReadCellStep ==
    ASSUME Shape, NEW c \in Worker, ReadCell(c)
    PROVE  /\ ReadsCell(c, File(call[c].pos)) /\ UNCHANGED <<stored, failed>>
           /\ File(call[c].pos) \in Content
<1> DEFINE k == call[c]
<1>1. /\ k.at = "read" /\ k # Idle /\ k.id = 0 /\ k.victim = Missing /\ k.pos \in Pos
      /\ k = CallOf(k.at, k.pos, k.slot, k.value, k.id, k.data, k.victim)
  BY CallFields DEF ReadCell, Shape
<1>2. /\ call' = [call EXCEPT ![c] = [k EXCEPT !.at = "insert", !.data = File(k.pos)]]
      /\ UNCHANGED <<callers, cells, heap, stored, saving, want, raced, failed, saves>>
  BY DEF ReadCell, File, cacheVars, ghosts, bounds
<1>3. [k EXCEPT !.at = "insert", !.data = File(k.pos)]
        = CallOf("insert", k.pos, k.slot, k.value, 0, File(k.pos), Missing)
  <2> DEFINE d == File(k.pos)
  <2> HIDE DEF k, d
  <2>1. [k EXCEPT !.at = "insert", !.data = d]
          = CallOf("insert", k.pos, k.slot, k.value, k.id, d, k.victim)
    BY <1>1, CallGoesOn
  <2> QED
    BY <1>1, <2>1 DEF d
<1>4. Calls(c, CallOf("insert", k.pos, k.slot, k.value, 0, File(k.pos), Missing))
  BY <1>2, <1>3, CallUpdated DEF Shape
<1>5. File(k.pos) \in Content
  BY <1>1, Contents DEF File, Shape, Typed
<1> QED
  BY <1>1, <1>2, <1>4, <1>5 DEF ReadsCell

LEMMA ReadFailsStep ==
    ASSUME Shape, NEW c \in Worker, ReadFails(c)
    PROVE  /\ ReadsCell(c, Fresh)
           /\ failed' = failed \cup {call[c].pos}
           /\ stored' \in [Pos -> Content \cup {Missing}]
           /\ \A p \in Pos \ {call[c].pos} : stored'[p] = stored[p]
<1> DEFINE k == call[c]
<1>1. /\ k.at = "read" /\ k # Idle /\ k.id = 0 /\ k.victim = Missing /\ k.pos \in Pos
      /\ k = CallOf(k.at, k.pos, k.slot, k.value, k.id, k.data, k.victim)
  BY CallFields DEF ReadFails, Shape
<1>2. /\ call' = [call EXCEPT ![c] = [k EXCEPT !.at = "insert", !.data = Fresh]]
      /\ UNCHANGED <<callers, cells, heap, saving, want, raced, saves>>
      /\ failed' = failed \cup {call[c].pos}
      /\ stored' \in {stored, [stored EXCEPT ![k.pos] = Missing]}
  BY DEF ReadFails
<1>3. [k EXCEPT !.at = "insert", !.data = Fresh]
        = CallOf("insert", k.pos, k.slot, k.value, 0, Fresh, Missing)
  <2> DEFINE d == Fresh
  <2> HIDE DEF k, d
  <2>1. [k EXCEPT !.at = "insert", !.data = d]
          = CallOf("insert", k.pos, k.slot, k.value, k.id, d, k.victim)
    BY <1>1, CallGoesOn
  <2> QED
    BY <1>1, <2>1 DEF d
<1>4. Calls(c, CallOf("insert", k.pos, k.slot, k.value, 0, Fresh, Missing))
  BY <1>2, <1>3, CallUpdated DEF Shape
<1>5. stored \in [Pos -> Content \cup {Missing}]
  BY DEF Shape, Typed
<1>6. /\ stored' \in [Pos -> Content \cup {Missing}]
      /\ \A p \in Pos \ {k.pos} : stored'[p] = stored[p]
  BY <1>1, <1>2, <1>5
<1> QED
  BY <1>1, <1>2, <1>4, <1>6 DEF ReadsCell

\* An insertion of instance id, the cell's only one in the cache.
Clean(data) == [data |-> data, modified |-> FALSE]
Entry(p, id) == [pos |-> p, id |-> id]

Inserts(c, id) ==
    LET k == call[c] IN
    /\ k.at = "insert" /\ k # Idle /\ <<k.pos, id>> \notin DOMAIN heap
    /\ UNCHANGED <<stored, saving, want, failed, saves>>
    /\ Entry(k.pos, id) \in Range(cells')
    /\ \A e \in Range(cells') : e = Entry(k.pos, id) \/ (e \in Range(cells) /\ e.pos # k.pos)
    /\ \A e \in Range(cells') : heap'[Ref(e)] = IF e = Entry(k.pos, id) THEN Clean(k.data)
                                                ELSE heap[Ref(e)]
    /\ \A e \in Range(saving.todo) : heap'[Ref(e)] = heap[Ref(e)]

\* Nothing is evicted, or the entry g is, unwritten or to be written.
InsertsOnly(c, id) ==
    LET k == call[c] IN
    /\ Inserts(c, id)
    /\ \A e \in Range(cells) : e.pos # k.pos => e \in Range(cells')
    /\ raced' = raced \cup Races(c, k.pos)
    /\ Calls(c, CallOf("return", k.pos, k.slot, k.value, id, Fresh, Missing))

InsertsFor(c, id, g) ==
    LET k == call[c] IN
    /\ Inserts(c, id)
    /\ g \in Range(cells) /\ g.pos # k.pos
    /\ \A e \in Range(cells) : e.pos # k.pos /\ e # g => e \in Range(cells')
    /\ \A e \in Range(cells') : e.pos # g.pos
    /\ raced' = raced \cup Races(c, g.pos) \cup Races(c, k.pos)
    /\ IF heap[Ref(g)].modified
       THEN Calls(c, CallOf("evict", k.pos, k.slot, k.value, id, heap[Ref(g)].data, g.pos))
       ELSE Calls(c, CallOf("return", k.pos, k.slot, k.value, id, Fresh, Missing))

\* The instances behind an insertion.
LEMMA HeapInserted ==
    ASSUME Shape, NEW p, NEW id, NEW data \in Content, <<p, id>> \notin DOMAIN heap,
           NEW h, h = WithNew(<<p, id>>, data)
    PROVE  /\ IsFiniteSet(DOMAIN h)
           /\ DOMAIN h = DOMAIN heap \cup {<<p, id>>}
           /\ \A i \in DOMAIN heap : h[i] = heap[i]
           /\ h[<<p, id>>] = Clean(data)
           /\ \A i \in DOMAIN h : h[i] \in Instance
<1>1. DOMAIN h = DOMAIN heap \cup {<<p, id>>}
  BY DEF WithNew, Clean
<1>2. IsFiniteSet(DOMAIN heap \cup {<<p, id>>})
  BY FS_AddElement DEF Shape, References
<1>3. \A i \in DOMAIN heap : h[i] = heap[i]
  BY DEF WithNew, Clean
<1>4. h[<<p, id>>] = Clean(data)
  BY DEF WithNew, Clean
<1>5. \A i \in DOMAIN heap : heap[i] \in Instance
  BY DEF Shape, Typed
<1>6. Clean(data) \in Instance
  BY DEF Clean, Instance
<1> QED
  BY <1>1, <1>2, <1>3, <1>4, <1>5, <1>6

LEMMA InsertStep ==
    ASSUME Shape, NEW c \in Worker, Insert(c)
    PROVE  /\ \E id : InsertsOnly(c, id) \/ \E g : InsertsFor(c, id, g)
           /\ Entries' /\ References' /\ heap' \in [DOMAIN heap' -> Instance]
<1> DEFINE k == call[c]
           p == k.pos
           id == NewId(p)
           all == Inserted(p, id)
           full == Len(all) > CacheSize
           eldest == Head(all)
           gone == <<eldest.pos, eldest.id>>
           write == full /\ NeedsWrite(gone)
           h == WithNew(<<p, id>>, k.data)
           entry == Entry(p, id)
           at == IF write THEN "evict" ELSE "return"
           victim == IF write THEN eldest.pos ELSE Missing
           data == IF write THEN heap[gone].data ELSE Fresh
<1>1. /\ k.at = "insert" /\ k # Idle /\ k.id = 0 /\ k.victim = Missing /\ p \in Pos
      /\ k.data \in Content
      /\ k = CallOf(k.at, k.pos, k.slot, k.value, k.id, k.data, k.victim)
  BY CallFields DEF Insert, Shape
<1>2. /\ callers' = callers
      /\ UNCHANGED <<stored, saving, want, failed, saves>>
      /\ cells' = IF full THEN Tail(all) ELSE all
      /\ raced' = raced \cup (IF full THEN Races(c, eldest.pos) ELSE {}) \cup Races(c, p)
      /\ heap' = Collected(h)
  BY DEF Insert, bounds
<1>3. call' = [call EXCEPT ![c] = [k EXCEPT !.at = at, !.id = id, !.victim = victim, !.data = data]]
  BY DEF Insert
<1>4. [k EXCEPT !.at = at, !.id = id, !.victim = victim, !.data = data]
        = CallOf(at, p, k.slot, k.value, id, data, victim)
  <2>1. k = CallOf(k.at, k.pos, k.slot, k.value, k.id, k.data, k.victim)
    BY <1>1
  <2> DEFINE r == [k EXCEPT !.at = at, !.id = id, !.victim = victim, !.data = data]
  <2> HIDE DEF k, at, id, victim, data, p
  <2>2. r = [f \in DOMAIN k |-> IF f = "data" THEN data ELSE IF f = "victim" THEN victim
                                ELSE IF f = "id" THEN id ELSE IF f = "at" THEN at ELSE k[f]]
    OBVIOUS
  <2> HIDE DEF r
  <2>3. r = CallOf(at, k.pos, k.slot, k.value, id, data, victim)
    BY <2>1, <2>2 DEF CallOf
  <2> QED
    BY <2>3 DEF r, p
<1>5. Calls(c, CallOf(at, p, k.slot, k.value, id, data, victim))
  <2> HIDE DEF k, at, id, victim, data, p
  <2> QED
    BY <1>2, <1>3, <1>4, CallUpdated DEF Shape, k
<1>6. <<p, id>> \notin DOMAIN heap
  BY NewIdIsNew DEF Shape, References
<1>7. /\ cells' \in Seq(Range(cells')) /\ Len(cells') <= CacheSize
      /\ \A e \in Range(cells') : EntryOK(e)
      /\ \A i, j \in DOMAIN cells' : cells'[i].pos = cells'[j].pos => i = j
      /\ entry \in Range(cells')
      /\ \A e \in Range(cells') : e = entry \/ (e \in Range(cells) /\ e.pos # p)
      /\ full => /\ eldest \in Range(cells) /\ eldest.pos # p
                 /\ \A e \in Range(cells) : e.pos # p /\ e # eldest => e \in Range(cells')
                 /\ eldest \notin Range(cells')
      /\ ~full => \A e \in Range(cells) : e.pos # p => e \in Range(cells')
  <2>1. Entries /\ all = Inserted(p, id)
    BY DEF Shape
  <2>2. cells' = IF Len(all) > CacheSize THEN Tail(all) ELSE all
    BY <1>2
  <2>3. p \in Pos
    BY <1>1
  <2> HIDE DEF id, p, all
  <2>4. InsertedInto(p, id, all, cells')
    BY <2>1, <2>2, <2>3, InsertedEntries
  <2> QED
    BY <2>4 DEF Entry, InsertedInto
<1> HIDE DEF id, all, full, eldest, h, entry, k
<1>8. Entries'
  <2>1. saving' = saving
    BY <1>2
  <2> QED
    BY <1>7, <2>1 DEF Entries, EntryOK, Shape
<1>9. /\ IsFiniteSet(DOMAIN h)
      /\ DOMAIN h = DOMAIN heap \cup {<<p, id>>}
      /\ \A i \in DOMAIN heap : h[i] = heap[i]
      /\ h[<<p, id>>] = Clean(k.data)
      /\ \A i \in DOMAIN h : h[i] \in Instance
  BY <1>1, <1>6, HeapInserted DEF h
<1>10. /\ \A e \in Range(cells) \cup Range(saving.todo) : Ref(e) \in DOMAIN heap
       /\ \A d \in Worker : call[d].at \in {"evict", "return"} => Ref(call[d]) \in DOMAIN heap
  BY DEF Shape, References
<1>11. Ref(entry) = <<p, id>>
  BY DEF entry, Entry, Ref
<1>12. Ref(call'[c]) = <<p, id>>
  BY <1>5 DEF Calls, CallOf, Ref
<1>13. /\ \A e \in Range(cells') \cup Range(saving'.todo) : Ref(e) \in DOMAIN h
       /\ \A d \in Worker : call'[d].at \in {"evict", "return"} => Ref(call'[d]) \in DOMAIN h
  <2>1. \A e \in Range(cells') \cup Range(saving'.todo) : Ref(e) \in DOMAIN h
    BY <1>2, <1>7, <1>9, <1>10, <1>11
  <2>2. \A d \in Worker : call'[d].at \in {"evict", "return"} => Ref(call'[d]) \in DOMAIN h
    BY <1>5, <1>9, <1>10, <1>12 DEF Calls
  <2> QED
    BY <2>1, <2>2
<1>14. /\ heap' \in [DOMAIN heap' -> Instance] /\ References'
       /\ \A e \in Range(cells') \cup Range(saving'.todo) : heap'[Ref(e)] = h[Ref(e)]
  BY <1>2, <1>9, <1>13, HeapCollected
<1>15. Inserts(c, id)
  <2>1. \A e \in Range(cells') : heap'[Ref(e)] = IF e = entry THEN Clean(k.data) ELSE heap[Ref(e)]
    BY <1>7, <1>9, <1>10, <1>11, <1>14
  <2>2. \A e \in Range(saving.todo) : heap'[Ref(e)] = heap[Ref(e)]
    BY <1>2, <1>9, <1>10, <1>14
  <2> QED
    BY <1>1, <1>2, <1>6, <1>7, <2>1, <2>2 DEF Inserts, entry, k
<1>16. CASE ~full
  <2>1. at = "return" /\ data = Fresh /\ victim = Missing
    BY <1>16
  <2>2. InsertsOnly(c, id)
    BY <1>2, <1>5, <1>7, <1>15, <1>16, <2>1 DEF InsertsOnly, k
  <2> QED
    BY <1>8, <1>14, <2>2
<1>17. CASE full
  <2>1. \A e \in Range(cells') : e.pos # eldest.pos
    BY <1>7, <1>17, OneEntry DEF entry, Entry, Shape
  <2>2. gone = Ref(eldest)
    BY DEF Ref
  <2>3. IF heap[Ref(eldest)].modified
        THEN Calls(c, CallOf("evict", p, k.slot, k.value, id, heap[Ref(eldest)].data, eldest.pos))
        ELSE Calls(c, CallOf("return", p, k.slot, k.value, id, Fresh, Missing))
    BY <1>5, <1>17, <2>2 DEF NeedsWrite
  <2>4. InsertsFor(c, id, eldest)
    BY <1>2, <1>7, <1>15, <1>17, <2>1, <2>3 DEF InsertsFor, k
  <2> QED
    BY <1>8, <1>14, <2>4
<1> QED
  BY <1>16, <1>17

\* The write of an evicted cell, done or failed.
Evicts(c) ==
    LET k == call[c] IN
    /\ k.at = "evict" /\ k # Idle /\ k.victim \in Pos /\ k.data \in Content
    /\ UNCHANGED <<cells, heap, saving, want, raced, saves>>
    /\ Calls(c, CallOf("return", k.pos, k.slot, k.value, k.id, Fresh, Missing))
    /\ \/ /\ stored' = [stored EXCEPT ![k.victim] = k.data]
          /\ UNCHANGED failed
       \/ /\ failed' = failed \cup {k.victim}
          /\ UNCHANGED stored

LEMMA EvictCellStep ==
    ASSUME Shape, NEW c \in Worker, EvictCell(c)
    PROVE  Evicts(c)
<1> DEFINE k == call[c]
<1>1. /\ k.at = "evict" /\ k # Idle /\ k.victim \in Pos /\ k.data \in Content
      /\ k = CallOf(k.at, k.pos, k.slot, k.value, k.id, k.data, k.victim)
  BY CallFields DEF EvictCell, Shape
<1>2. /\ callers' = callers /\ UNCHANGED <<cells, heap, saving, want, raced, saves>>
      /\ call' = [call EXCEPT ![c] = [k EXCEPT !.at = "return", !.victim = Missing, !.data = Fresh]]
      /\ \/ /\ stored' = [stored EXCEPT ![k.victim] = k.data]
            /\ UNCHANGED failed
         \/ /\ failed' = failed \cup {k.victim}
            /\ UNCHANGED stored
  BY DEF EvictCell
<1>3. [k EXCEPT !.at = "return", !.victim = Missing, !.data = Fresh]
        = CallOf("return", k.pos, k.slot, k.value, k.id, Fresh, Missing)
  <2> DEFINE d == Fresh
             m == Missing
             r == [k EXCEPT !.at = "return", !.victim = m, !.data = d]
  <2>1. k = CallOf(k.at, k.pos, k.slot, k.value, k.id, k.data, k.victim)
    BY <1>1
  <2> HIDE DEF k, d, m
  <2>2. r = [f \in DOMAIN k |-> IF f = "data" THEN d ELSE IF f = "victim" THEN m
                                ELSE IF f = "at" THEN "return" ELSE k[f]]
    OBVIOUS
  <2> HIDE DEF r
  <2>3. r = CallOf("return", k.pos, k.slot, k.value, k.id, d, m)
    BY <2>1, <2>2 DEF CallOf
  <2> QED
    BY <2>3 DEF r, d, m
<1>4. Calls(c, CallOf("return", k.pos, k.slot, k.value, k.id, Fresh, Missing))
  BY <1>2, <1>3, CallUpdated DEF Shape
<1> QED
  BY <1>1, <1>2, <1>4 DEF Evicts

\* A call returns: what it sets is in its instance, the others stay.
Returns(c) ==
    LET k == call[c]
        set == k.value # Get
    IN  /\ k.at = "return" /\ k # Idle
        /\ UNCHANGED <<cells, stored, saving, raced, failed, saves>>
        /\ Calls(c, Idle)
        /\ want' = IF set THEN [want EXCEPT ![k.pos][k.slot] = k.value] ELSE want
        /\ \A e \in Range(cells) \cup Range(saving.todo) :
              heap'[Ref(e)] = IF set /\ Ref(e) = Ref(k) THEN Marked(Ref(k), k.slot, k.value)
                              ELSE heap[Ref(e)]

LEMMA ReturnStep ==
    ASSUME Shape, NEW c \in Worker, Return(c)
    PROVE  Returns(c) /\ References' /\ heap' \in [DOMAIN heap' -> Instance]
<1> DEFINE k == call[c]
           set == k.value # Get
           i == Ref(k)
           marked == Marked(i, k.slot, k.value)
           h == IF set THEN [heap EXCEPT ![i] = marked] ELSE heap
<1>1. /\ k.at = "return" /\ k # Idle /\ k.pos \in Pos /\ k.slot \in Slot /\ k.value \in Value \cup {Get}
  BY CallFields DEF Return, Shape
<1>2. /\ callers' = callers /\ UNCHANGED <<cells, stored, saving, raced, failed, saves>>
      /\ call' = [call EXCEPT ![c] = Idle]
      /\ want' = IF set THEN [want EXCEPT ![k.pos][k.slot] = k.value] ELSE want
      /\ heap' = Collected(h)
  BY DEF Return, Ref, bounds
<1>3. Calls(c, Idle)
  BY <1>2, CallUpdated DEF Shape
<1>4. /\ heap = [j \in DOMAIN heap |-> heap[j]] /\ IsFiniteSet(DOMAIN heap)
      /\ \A j \in DOMAIN heap : heap[j] \in Instance
      /\ \A e \in Range(cells) \cup Range(saving.todo) : Ref(e) \in DOMAIN heap
      /\ \A d \in Worker : call[d].at \in {"evict", "return"} => Ref(call[d]) \in DOMAIN heap
      /\ i \in DOMAIN heap
  BY <1>1 DEF Shape, Typed, References
<1>5. set => marked \in Instance
  <2>1. heap[i] \in Instance
    BY <1>4
  <2>2. set => k.value \in Value
    BY <1>1
  <2> HIDE DEF i, k, set
  <2>3. set => [heap[i].data EXCEPT ![k.slot] = k.value] \in Content
    BY <1>1, <2>1, <2>2, Contents DEF Instance
  <2>4. marked = [heap[i] EXCEPT !.data = [heap[i].data EXCEPT ![k.slot] = k.value],
                                 !.modified = heap[i].modified \/ heap[i].data[k.slot] # k.value]
    BY DEF Marked
  <2>5. (heap[i].modified \/ heap[i].data[k.slot] # k.value) \in BOOLEAN
    BY <2>1 DEF Instance
  <2> HIDE DEF marked
  <2> QED
    BY <2>1, <2>3, <2>4, <2>5 DEF Instance
<1> HIDE DEF k, set, i, marked
<1>6. /\ DOMAIN h = DOMAIN heap
      /\ \A j \in DOMAIN heap : h[j] = IF set /\ j = i THEN marked ELSE heap[j]
  BY <1>4
<1> HIDE DEF h
<1>7. /\ \A j \in DOMAIN h : h[j] \in Instance
      /\ IsFiniteSet(DOMAIN h)
  BY <1>4, <1>5, <1>6
<1>8. /\ \A e \in Range(cells') \cup Range(saving'.todo) : Ref(e) \in DOMAIN h
      /\ \A d \in Worker : call'[d].at \in {"evict", "return"} => Ref(call'[d]) \in DOMAIN h
  BY <1>2, <1>3, <1>4, <1>6 DEF Calls, Idle
<1>9. /\ heap' \in [DOMAIN heap' -> Instance] /\ References'
      /\ \A e \in Range(cells') \cup Range(saving'.todo) : heap'[Ref(e)] = h[Ref(e)]
  BY <1>2, <1>7, <1>8, HeapCollected
<1>10. \A e \in Range(cells) \cup Range(saving.todo) :
            heap'[Ref(e)] = IF set /\ Ref(e) = i THEN marked ELSE heap[Ref(e)]
  BY <1>2, <1>4, <1>6, <1>9
<1> QED
  BY <1>1, <1>2, <1>3, <1>9, <1>10 DEF Returns, k, set, i, marked

\* What goes on with a save: at the first entry to be written, past the others.
GoesOn(todo, unsaved) ==
    /\ saving' = [todo |-> saving'.todo, data |-> saving'.data, unsaved |-> unsaved]
    /\ saving'.todo \in Seq(Range(saving'.todo))
    /\ Range(saving'.todo) \subseteq Range(todo)
    /\ \A e \in Range(todo) : e \in Range(saving'.todo) \/ ~NeedsWrite(Ref(e))
    /\ saving'.todo = << >> => saving'.data = Fresh
    /\ saving'.todo # << >> => /\ Head(saving'.todo) \in Range(todo)
                               /\ NeedsWrite(Ref(Head(saving'.todo)))
                               /\ saving'.data = heap[Ref(Head(saving'.todo))].data

LEMMA SaveStep ==
    ASSUME Shape, Save
    PROVE  /\ UNCHANGED <<callers, cells, heap, stored, call, want, raced, failed>>
           /\ ~Saving /\ (callers = 1 => \A c \in Worker : call[c] = Idle)
           /\ GoesOn(cells, {})
<1>1. cells \in Seq(Range(cells))
  BY DEF Shape, Entries
<1>2. saving' = SavesOn(cells, {})
  BY DEF Save
<1>3. GoesOn(cells, {})
  BY <1>1, <1>2, SavesOnTo DEF GoesOn
<1> QED
  BY <1>3 DEF Save, cacheVars, ghosts

\* A write of a save, done or failed.
SaveWrites ==
    LET e == Head(saving.todo) IN
    /\ Saving /\ e \in Range(saving.todo)
    /\ UNCHANGED <<callers, cells, call, want, raced, failed, saves>>
    /\ \A f \in Range(saving.todo) : f = e \/ f \in Range(Tail(saving.todo))
    /\ Range(Tail(saving.todo)) \subseteq Range(saving.todo)
    /\ \A f \in Range(cells) \cup Range(saving'.todo) : heap'[Ref(f)] = heap[Ref(f)]
    /\ \/ /\ stored' = [stored EXCEPT ![e.pos] = saving.data]
          /\ GoesOn(Tail(saving.todo), saving.unsaved)
       \/ /\ UNCHANGED stored
          /\ GoesOn(Tail(saving.todo), saving.unsaved \cup {e.pos})

LEMMA SaveWriteStep ==
    ASSUME Shape, SaveWrite
    PROVE  SaveWrites /\ References' /\ heap' \in [DOMAIN heap' -> Instance]
<1> DEFINE todo == saving.todo
           e == Head(todo)
           rest == Tail(todo)
<1>1. todo \in Seq(Range(todo)) /\ todo # << >>
  BY DEF Shape, Entries, SaveWrite, Saving
<1>2. /\ UNCHANGED <<callers, cells, call, want, raced, failed, saves>>
      /\ heap' = Collected(heap)
      /\ \/ /\ stored' = [stored EXCEPT ![e.pos] = saving.data]
            /\ saving' = SavesOn(rest, saving.unsaved)
         \/ /\ UNCHANGED stored
            /\ saving' = SavesOn(rest, saving.unsaved \cup {e.pos})
  BY DEF SaveWrite, Written, ghosts
<1>3. /\ rest \in Seq(Range(todo)) /\ e \in Range(todo) /\ Range(rest) \subseteq Range(todo)
      /\ \A f \in Range(todo) : f = e \/ f \in Range(rest)
  <2> HIDE DEF todo
  <2>1. /\ rest \in Seq(Range(todo)) /\ Len(rest) = Len(todo) - 1 /\ Len(todo) \in Nat /\ Len(todo) >= 1
        /\ \A j \in 1..Len(todo) - 1 : rest[j] = todo[j + 1]
        /\ e = todo[1] /\ DOMAIN todo = 1..Len(todo) /\ Range(todo) = {todo[j] : j \in 1..Len(todo)}
    BY <1>1, Elements
  <2> HIDE DEF rest, e
  <2>2. Range(rest) = {rest[j] : j \in 1..Len(todo) - 1} /\ Range(rest) \subseteq Range(todo)
    BY <2>1, Elements
  <2>3. e \in Range(todo)
    BY <2>1
  <2>4. ASSUME NEW j \in 1..Len(todo)
        PROVE  todo[j] = e \/ todo[j] \in Range(rest)
    <3>1. CASE j = 1
      BY <2>1, <3>1
    <3>2. CASE j # 1
      <4>1. j - 1 \in 1..Len(todo) - 1 /\ (j - 1) + 1 = j
        BY <2>1, <3>2
      <4> QED
        BY <2>1, <2>2, <4>1
    <3> QED
      BY <3>1, <3>2
  <2> QED
    BY <2>1, <2>2, <2>3, <2>4
<1>4. \/ GoesOn(rest, saving.unsaved) /\ stored' = [stored EXCEPT ![e.pos] = saving.data]
      \/ GoesOn(rest, saving.unsaved \cup {e.pos}) /\ UNCHANGED stored
  <2> HIDE DEF rest, todo
  <2> QED
    BY <1>2, <1>3, SavesOnTo DEF GoesOn
<1>5. Range(saving'.todo) \subseteq Range(todo)
  BY <1>3, <1>4 DEF GoesOn
<1>6. /\ IsFiniteSet(DOMAIN heap)
      /\ \A j \in DOMAIN heap : heap[j] \in Instance
      /\ \A f \in Range(cells) \cup Range(todo) : Ref(f) \in DOMAIN heap
      /\ \A d \in Worker : call[d].at \in {"evict", "return"} => Ref(call[d]) \in DOMAIN heap
  BY DEF Shape, Typed, References
<1>7. /\ heap' \in [DOMAIN heap' -> Instance] /\ References'
      /\ \A f \in Range(cells') \cup Range(saving'.todo) : heap'[Ref(f)] = heap[Ref(f)]
  <2>1. \A f \in Range(cells') \cup Range(saving'.todo) : Ref(f) \in DOMAIN heap
    BY <1>2, <1>5, <1>6
  <2>2. \A d \in Worker : call'[d].at \in {"evict", "return"} => Ref(call'[d]) \in DOMAIN heap
    BY <1>2, <1>6
  <2> QED
    BY <1>2, <1>6, <2>1, <2>2, HeapCollected
<1> QED
  BY <1>1, <1>2, <1>3, <1>4, <1>7 DEF SaveWrites, Saving

\* A purge.
LEMMA PurgeStep ==
    ASSUME Shape, Purge
    PROVE  /\ ~Saving /\ \A c \in Worker : call[c] = Idle
           /\ UNCHANGED <<callers, call, saving, saves>>
           /\ stored' = [p \in Pos |-> Missing] /\ want' = [p \in Pos |-> Fresh]
           /\ Range(cells') = {} /\ raced' = {} /\ failed' = {}
           /\ Entries' /\ References' /\ heap' \in [DOMAIN heap' -> Instance]
<1>1. /\ ~Saving /\ \A c \in Worker : call[c] = Idle
      /\ UNCHANGED <<callers, call, saving, saves>>
      /\ stored' = [p \in Pos |-> Missing] /\ want' = [p \in Pos |-> Fresh]
      /\ cells' = << >> /\ raced' = {} /\ failed' = {}
      /\ heap' = Collected(heap)
  BY DEF Purge, bounds
<1>2. Range(<< >>) = {} /\ << >> \in Seq({}) /\ Len(<< >>) = 0 /\ DOMAIN << >> = {}
  BY DEF Range
<1>3. Range(cells') = {} /\ saving.todo = << >> /\ Range(saving.todo) = {}
  BY <1>1, <1>2 DEF Saving
<1>4. Entries'
  BY <1>1, <1>2, <1>3, Contents DEF Entries, Shape
<1>5. /\ IsFiniteSet(DOMAIN heap)
      /\ \A j \in DOMAIN heap : heap[j] \in Instance
  BY DEF Shape, Typed, References
<1>6. heap' \in [DOMAIN heap' -> Instance] /\ References'
  BY <1>1, <1>3, <1>5, HeapCollected DEF Idle
<1> QED
  BY <1>1, <1>3, <1>4, <1>6

-----------------------------------------------------------------------------
(* The shape of the state *)

LEMMA ShapeInit ==
    ASSUME Init
    PROVE  Shape
<1>1. Range(<< >>) = {} /\ << >> \in Seq({}) /\ Len(<< >>) = 0 /\ DOMAIN << >> = {}
  BY DEF Range
<1>2. Entries
  BY <1>1, Contents DEF Entries, Init
<1>3. References
  BY <1>1, FS_EmptySet DEF References, Init, Idle
<1>4. heap \in [DOMAIN heap -> Instance]
  BY <1>1 DEF Init
<1>5. callers \in Nat \ {0}
  BY CellStorageAssumption DEF Init
<1>6. CallsTyped
  BY <1>5 DEF CallsTyped, Init, CallOK
<1>7. RestTyped /\ SavingTyped
  BY <1>4, Contents DEF RestTyped, SavingTyped, Init
<1>8. HeadModified
  BY DEF HeadModified, Saving, Init
<1> QED
  BY <1>2, <1>3, <1>6, <1>7, <1>8, TypedParts DEF Shape

\* An instance that a save is to write first stays modified.
LEMMA HeadStays ==
    ASSUME Shape, saving' = saving,
           \A e \in Range(saving.todo) : heap[Ref(e)].modified => heap'[Ref(e)].modified
    PROVE  HeadModified'
<1>1. Saving => Head(saving.todo) \in Range(saving.todo)
  BY Elements DEF Shape, Entries, Saving
<1> QED
  BY <1>1 DEF HeadModified, Shape, Saving, NeedsWrite, Ref

LEMMA ShapeCall ==
    ASSUME Shape, NEW c \in Worker, NEW p \in Pos, NEW s \in Slot, NEW v \in Value \cup {Get},
           Call(c, p, s, v)
    PROVE  Shape'
<1>1. CASE CallHits(c, p, s, v)
  <2>1. PICK e \in Range(cells) : e.pos = p /\ Calls(c, CallOf("return", p, s, v, e.id, Fresh, Missing))
    BY <1>1 DEF CallHits
  <2>2. CallOK(CallOf("return", p, s, v, e.id, Fresh, Missing))
    BY CallMade, Contents DEF At
  <2>3. CallsTyped'
    BY <2>1, <2>2, CallsStayTyped DEF Shape
  <2>4. RestTyped' /\ SavingTyped'
    BY <1>1, TypedParts DEF CallHits, Shape, RestTyped, SavingTyped
  <2>5. References'
    <3>1. Ref(call'[c]) = Ref(e)
      BY <2>1 DEF Calls, CallOf, Ref
    <3>2. \A d \in Worker : call'[d].at \in {"evict", "return"} => Ref(call'[d]) \in DOMAIN heap
      BY <2>1, <3>1 DEF Calls, Shape, References
    <3>3. Worker' = Worker
      BY <2>1 DEF Calls, Worker
    <3> QED
      BY <1>1, <3>2, <3>3 DEF CallHits, Shape, References, Ref
  <2>6. HeadModified'
    BY <1>1, HeadStays DEF CallHits
  <2>7. Typed'
    BY <2>3, <2>4 DEF Typed, CallsTyped, RestTyped, SavingTyped
  <2> QED
    BY <1>1, <2>5, <2>6, <2>7 DEF Shape, CallHits
<1>2. CASE CallMisses(c, p, s, v)
  <2>1. CallOK(CallOf("read", p, s, v, 0, Fresh, Missing))
    BY CallMade, Contents DEF At
  <2>2. Calls(c, CallOf("read", p, s, v, 0, Fresh, Missing))
    BY <1>2 DEF CallMisses
  <2>3. CallsTyped'
    BY <2>1, <2>2, CallsStayTyped DEF Shape
  <2>4. RestTyped' /\ SavingTyped'
    BY <1>2, TypedParts DEF CallMisses, Shape, RestTyped, SavingTyped, Races
  <2>5. References'
    <3>1. \A d \in Worker : call'[d].at \in {"evict", "return"} => Ref(call'[d]) \in DOMAIN heap
      BY <2>2 DEF Calls, CallOf, Shape, References
    <3>2. Worker' = Worker
      BY <2>2 DEF Calls, Worker
    <3> QED
      BY <1>2, <3>1, <3>2 DEF CallMisses, Shape, References, Ref
  <2>6. HeadModified'
    BY <1>2, HeadStays DEF CallMisses
  <2>7. Typed'
    BY <2>3, <2>4 DEF Typed, CallsTyped, RestTyped, SavingTyped
  <2>8. Entries'
    BY <1>2 DEF CallMisses, Shape, Entries, EntryOK
  <2> QED
    BY <2>5, <2>6, <2>7, <2>8 DEF Shape
<1> QED
  BY <1>1, <1>2, CallStep

LEMMA ShapeRead ==
    ASSUME Shape, NEW c \in Worker, NEW data \in Content, ReadsCell(c, data),
           stored' \in [Pos -> Content \cup {Missing}], failed' \subseteq Pos
    PROVE  Shape'
<1> DEFINE k == call[c]
<1>1. /\ k.pos \in Pos /\ k.slot \in Slot /\ k.value \in Value \cup {Get}
      /\ Calls(c, CallOf("insert", k.pos, k.slot, k.value, 0, data, Missing))
      /\ UNCHANGED <<cells, heap, saving, want, raced>>
  BY CallFields DEF ReadsCell, Shape
<1>2. CallsTyped'
  <2>1. CallOK(CallOf("insert", k.pos, k.slot, k.value, 0, data, Missing))
    BY <1>1, CallMade DEF At
  <2> QED
    BY <1>1, <2>1, CallsStayTyped DEF Shape
<1>3. RestTyped' /\ SavingTyped'
  BY <1>1, TypedParts DEF Shape, RestTyped, SavingTyped
<1>4. Typed'
  BY <1>2, <1>3 DEF Typed, CallsTyped, RestTyped, SavingTyped
<1>5. References'
  <2>1. \A d \in Worker : call'[d].at \in {"evict", "return"} => Ref(call'[d]) \in DOMAIN heap
    BY <1>1 DEF Calls, CallOf, Shape, References
  <2>2. Worker' = Worker
    BY <1>1 DEF Calls, Worker
  <2> QED
    BY <1>1, <2>1, <2>2 DEF Shape, References, Ref
<1>6. HeadModified'
  BY <1>1, HeadStays
<1>7. Entries'
  BY <1>1 DEF Shape, Entries, EntryOK
<1> QED
  BY <1>4, <1>5, <1>6, <1>7 DEF Shape

LEMMA ShapeReadCell ==
    ASSUME Shape, NEW c \in Worker, ReadCell(c)
    PROVE  Shape'
<1>1. stored' \in [Pos -> Content \cup {Missing}] /\ failed' \subseteq Pos
  BY ReadCellStep DEF Shape, Typed
<1> QED
  BY <1>1, ReadCellStep, ShapeRead

LEMMA ShapeReadFails ==
    ASSUME Shape, NEW c \in Worker, ReadFails(c)
    PROVE  Shape'
<1>1. call[c].pos \in Pos
  BY CallFields, ReadFailsStep DEF Shape, ReadsCell
<1>2. failed' \subseteq Pos
  BY <1>1, ReadFailsStep DEF Shape, Typed
<1> QED
  BY <1>2, ReadFailsStep, ShapeRead, Contents

LEMMA ShapeInsert ==
    ASSUME Shape, NEW c \in Worker, Insert(c)
    PROVE  Shape'
<1> DEFINE k == call[c]
<1>1. /\ Entries' /\ References' /\ heap' \in [DOMAIN heap' -> Instance]
      /\ \E id : InsertsOnly(c, id) \/ \E g : InsertsFor(c, id, g)
  BY InsertStep
<1>2. PICK id : InsertsOnly(c, id) \/ \E g : InsertsFor(c, id, g)
  BY <1>1
<1>3. Inserts(c, id)
  BY <1>2 DEF InsertsOnly, InsertsFor
<1>4. k # Idle /\ k.pos \in Pos /\ k.slot \in Slot /\ k.value \in Value \cup {Get}
  BY <1>3, CallFields DEF Inserts, Shape
<1>5. /\ UNCHANGED <<stored, saving, want, failed>>
      /\ \A e \in Range(saving.todo) : heap'[Ref(e)] = heap[Ref(e)]
  BY <1>3 DEF Inserts
<1>6. CallsTyped' /\ raced' \subseteq Pos
  <2>1. CASE InsertsOnly(c, id)
    <3>1. CallOK(CallOf("return", k.pos, k.slot, k.value, id, Fresh, Missing))
      BY <1>4, CallMade, Contents DEF At
    <3>2. CallsTyped'
      BY <2>1, <3>1, CallsStayTyped DEF Shape, InsertsOnly
    <3>3. raced' \subseteq Pos
      BY <1>4, <2>1 DEF InsertsOnly, Races, Shape, Typed
    <3> QED
      BY <3>2, <3>3
  <2>2. ASSUME NEW g, InsertsFor(c, id, g)
        PROVE  CallsTyped' /\ raced' \subseteq Pos
    <3>1. g \in Range(cells) /\ g.pos \in Pos
      BY <2>2 DEF InsertsFor, Shape, Entries, EntryOK
    <3>2. heap[Ref(g)].data \in Content /\ g.pos # Missing
      BY <3>1, Contents DEF Shape, References, Typed, Instance
    <3>3. /\ CallOK(CallOf("evict", k.pos, k.slot, k.value, id, heap[Ref(g)].data, g.pos))
          /\ CallOK(CallOf("return", k.pos, k.slot, k.value, id, Fresh, Missing))
      BY <1>4, <3>1, <3>2, CallMade, Contents DEF At
    <3>4. CallsTyped'
      BY <2>2, <3>3, CallsStayTyped DEF Shape, InsertsFor
    <3>5. raced' \subseteq Pos
      BY <1>4, <2>2, <3>1 DEF InsertsFor, Races, Shape, Typed
    <3> QED
      BY <3>4, <3>5
  <2> QED
    BY <1>2, <2>1, <2>2
<1>7. RestTyped' /\ SavingTyped'
  BY <1>1, <1>5, <1>6, TypedParts DEF Shape, RestTyped, SavingTyped
<1>8. Typed'
  BY <1>6, <1>7 DEF Typed, CallsTyped, RestTyped, SavingTyped
<1>9. HeadModified'
  BY <1>5, HeadStays
<1> QED
  BY <1>1, <1>8, <1>9 DEF Shape

LEMMA ShapeEvictCell ==
    ASSUME Shape, NEW c \in Worker, EvictCell(c)
    PROVE  Shape'
<1> DEFINE k == call[c]
<1>1. Evicts(c)
  BY EvictCellStep
<1>2. /\ k.at = "evict" /\ k # Idle /\ k.victim \in Pos /\ k.data \in Content
      /\ UNCHANGED <<cells, heap, saving, want, raced>>
      /\ Calls(c, CallOf("return", k.pos, k.slot, k.value, k.id, Fresh, Missing))
  BY <1>1 DEF Evicts
<1>3. k.pos \in Pos /\ k.slot \in Slot /\ k.value \in Value \cup {Get}
  BY <1>2, CallFields DEF Shape
<1>4. CallsTyped'
  <2>1. CallOK(CallOf("return", k.pos, k.slot, k.value, k.id, Fresh, Missing))
    BY <1>3, CallMade, Contents DEF At
  <2> QED
    BY <1>2, <2>1, CallsStayTyped DEF Shape
<1>5. RestTyped' /\ SavingTyped'
  <2>1. stored' \in [Pos -> Content \cup {Missing}] /\ failed' \subseteq Pos
    BY <1>1, <1>2 DEF Evicts, Shape, Typed
  <2> QED
    BY <1>2, <2>1, TypedParts DEF Shape, RestTyped, SavingTyped
<1>6. References'
  <2>1. Ref(call'[c]) = Ref(k)
    BY <1>2 DEF Calls, CallOf, Ref
  <2>2. \A d \in Worker : call'[d].at \in {"evict", "return"} => Ref(call'[d]) \in DOMAIN heap
    BY <1>2, <2>1 DEF Calls, Shape, References
  <2>3. Worker' = Worker
    BY <1>2 DEF Calls, Worker
  <2> QED
    BY <1>2, <2>2, <2>3 DEF Shape, References, Ref
<1>7. HeadModified'
  BY <1>2, HeadStays
<1>8. Entries'
  BY <1>2 DEF Shape, Entries, EntryOK
<1>9. Typed'
  BY <1>4, <1>5 DEF Typed, CallsTyped, RestTyped, SavingTyped
<1> QED
  BY <1>6, <1>7, <1>8, <1>9 DEF Shape

LEMMA ShapeReturn ==
    ASSUME Shape, NEW c \in Worker, Return(c)
    PROVE  Shape'
<1> DEFINE k == call[c]
<1>1. Returns(c) /\ References' /\ heap' \in [DOMAIN heap' -> Instance]
  BY ReturnStep
<1>2. /\ k # Idle /\ UNCHANGED <<cells, stored, saving, raced, failed>> /\ Calls(c, Idle)
  BY <1>1 DEF Returns
<1>3. k.pos \in Pos /\ k.slot \in Slot /\ k.value \in Value \cup {Get}
  BY <1>2, CallFields DEF Shape
<1>4. CallsTyped'
  BY <1>2, CallsStayTyped DEF Shape, CallOK
<1>5. want' \in [Pos -> Content]
  <2>1. want \in [Pos -> Content] /\ want[k.pos] \in Content
    BY <1>3 DEF Shape, Typed
  <2>2. CASE k.value = Get
    BY <1>1, <2>1, <2>2 DEF Returns
  <2>3. CASE k.value # Get
    <3>1. [want[k.pos] EXCEPT ![k.slot] = k.value] \in Content
      BY <1>3, <2>1, <2>3, Contents
    <3>2. want' = [want EXCEPT ![k.pos] = [want[k.pos] EXCEPT ![k.slot] = k.value]]
      BY <1>1, <2>3 DEF Returns
    <3> QED
      BY <2>1, <3>1, <3>2
  <2> QED
    BY <2>2, <2>3
<1>6. RestTyped' /\ SavingTyped'
  BY <1>1, <1>2, <1>5, TypedParts DEF Shape, RestTyped, SavingTyped
<1>7. HeadModified'
  <2>1. ASSUME NEW e \in Range(saving.todo), heap[Ref(e)].modified
        PROVE  heap'[Ref(e)].modified
    <3>1. heap[Ref(e)] \in Instance
      BY DEF Shape, References, Typed
    <3> QED
      BY <1>1, <2>1, <3>1 DEF Returns, Marked, Instance
  <2> QED
    BY <1>2, <2>1, HeadStays
<1>8. Entries'
  BY <1>2 DEF Shape, Entries, EntryOK
<1>9. Typed'
  BY <1>4, <1>6 DEF Typed, CallsTyped, RestTyped, SavingTyped
<1> QED
  BY <1>1, <1>7, <1>8, <1>9 DEF Shape

\* A save that goes on through entries whose instances stay.
LEMMA SavingGoesOn ==
    ASSUME Shape, NEW todo, Range(todo) \subseteq Range(cells) \cup Range(saving.todo),
           NEW unsaved \in SUBSET Pos, GoesOn(todo, unsaved),
           \A e \in Range(saving'.todo) : heap'[Ref(e)] = heap[Ref(e)]
    PROVE  /\ SavingTyped' /\ HeadModified'
           /\ saving'.todo \in Seq(Range(saving'.todo))
           /\ \A e \in Range(saving'.todo) : EntryOK(e)
           /\ Range(saving'.todo) \subseteq Range(cells) \cup Range(saving.todo)
<1>1. /\ saving'.todo \in Seq(Range(saving'.todo))
      /\ Range(saving'.todo) \subseteq Range(cells) \cup Range(saving.todo)
      /\ saving' = [todo |-> saving'.todo, data |-> saving'.data, unsaved |-> unsaved]
  BY DEF GoesOn
<1>2. \A e \in Range(saving'.todo) : EntryOK(e) /\ heap[Ref(e)] \in Instance
  BY <1>1 DEF Shape, Entries, References, Typed
<1>3. saving'.todo # << >> => Head(saving'.todo) \in Range(saving'.todo)
  BY <1>1, Elements
<1>4. saving'.data \in Content
  BY <1>2, <1>3, Contents DEF GoesOn, Instance
<1>5. saving'.unsaved = unsaved
  BY <1>1
<1>6. HeadModified'
  BY <1>3 DEF GoesOn, HeadModified, Saving, NeedsWrite, Ref
<1>7. SavingTyped'
  BY <1>1, <1>4, <1>5 DEF SavingTyped
<1> QED
  BY <1>1, <1>2, <1>6, <1>7

LEMMA ShapeSave ==
    ASSUME Shape, Save
    PROVE  Shape'
<1>1. UNCHANGED <<callers, cells, heap, stored, call, want, raced, failed>> /\ GoesOn(cells, {})
  BY SaveStep
<1>2. /\ SavingTyped' /\ HeadModified'
      /\ saving'.todo \in Seq(Range(saving'.todo))
      /\ \A e \in Range(saving'.todo) : EntryOK(e)
      /\ Range(saving'.todo) \subseteq Range(cells) \cup Range(saving.todo)
  BY <1>1, SavingGoesOn
<1>3. Entries'
  BY <1>1, <1>2 DEF Shape, Entries, EntryOK
<1>4. References'
  BY <1>1, <1>2 DEF Shape, References, Ref, Worker
<1>5. CallsTyped' /\ RestTyped'
  BY <1>1, TypedParts DEF Shape, CallsTyped, RestTyped, CallOK, Worker
<1> QED
  BY <1>2, <1>3, <1>4, <1>5 DEF Shape, Typed, CallsTyped, RestTyped, SavingTyped

LEMMA ShapeSaveWrite ==
    ASSUME Shape, SaveWrite
    PROVE  Shape'
<1> DEFINE e == Head(saving.todo)
           rest == Tail(saving.todo)
<1>1. SaveWrites /\ References' /\ heap' \in [DOMAIN heap' -> Instance]
  BY SaveWriteStep
<1>2. /\ e \in Range(saving.todo) /\ Range(rest) \subseteq Range(saving.todo)
      /\ UNCHANGED <<callers, cells, call, want, raced, failed>>
      /\ \A f \in Range(cells) \cup Range(saving'.todo) : heap'[Ref(f)] = heap[Ref(f)]
  BY <1>1 DEF SaveWrites
<1>3. e.pos \in Pos /\ saving.unsaved \in SUBSET Pos /\ saving.data \in Content
  BY <1>2 DEF Shape, Entries, EntryOK, Typed
<1>4. /\ SavingTyped' /\ HeadModified'
      /\ saving'.todo \in Seq(Range(saving'.todo))
      /\ \A f \in Range(saving'.todo) : EntryOK(f)
      /\ Range(saving'.todo) \subseteq Range(cells) \cup Range(saving.todo)
  <2>1. PICK u \in {saving.unsaved, saving.unsaved \cup {e.pos}} : GoesOn(rest, u)
    BY <1>1 DEF SaveWrites
  <2>2. u \in SUBSET Pos
    BY <1>3
  <2> HIDE DEF rest, e
  <2> QED
    BY <1>2, <2>1, <2>2, SavingGoesOn
<1>5. Entries'
  BY <1>2, <1>4 DEF Shape, Entries, EntryOK
<1>6. stored' \in [Pos -> Content \cup {Missing}]
  BY <1>1, <1>3 DEF SaveWrites, Shape, Typed
<1>7. CallsTyped' /\ RestTyped'
  BY <1>1, <1>2, <1>6, TypedParts DEF Shape, CallsTyped, RestTyped, CallOK, Worker
<1> QED
  BY <1>1, <1>4, <1>5, <1>7 DEF Shape, Typed, CallsTyped, RestTyped, SavingTyped

LEMMA ShapePurge ==
    ASSUME Shape, Purge
    PROVE  Shape'
<1>1. /\ ~Saving /\ UNCHANGED <<callers, call, saving>>
      /\ stored' = [p \in Pos |-> Missing] /\ want' = [p \in Pos |-> Fresh]
      /\ raced' = {} /\ failed' = {}
      /\ Entries' /\ References' /\ heap' \in [DOMAIN heap' -> Instance]
  BY PurgeStep
<1>2. CallsTyped' /\ SavingTyped'
  BY <1>1, TypedParts DEF Shape, CallsTyped, SavingTyped, CallOK, Worker
<1>3. RestTyped'
  BY <1>1, Contents DEF RestTyped
<1>4. HeadModified'
  BY <1>1 DEF HeadModified, Saving
<1> QED
  BY <1>1, <1>2, <1>3, <1>4 DEF Shape, Typed, CallsTyped, RestTyped, SavingTyped

LEMMA ShapeStutter ==
    ASSUME Shape, UNCHANGED vars
    PROVE  Shape'
<1>1. UNCHANGED <<callers, cells, heap, stored, call, saving, want, raced, failed>>
  BY DEF vars, cacheVars, ghosts
<1>2. CallsTyped' /\ RestTyped' /\ SavingTyped'
  BY <1>1, TypedParts DEF Shape, CallsTyped, RestTyped, SavingTyped, CallOK, Worker
<1>3. Entries' /\ References' /\ HeadModified'
  BY <1>1 DEF Shape, Entries, EntryOK, References, Ref, HeadModified, Saving, NeedsWrite, Worker
<1> QED
  BY <1>2, <1>3 DEF Shape, Typed, CallsTyped, RestTyped, SavingTyped

LEMMA ShapeNext ==
    ASSUME Shape, [Next]_vars
    PROVE  Shape'
<1>1. ASSUME NEW c \in Worker, NEW p \in Pos, NEW s \in Slot, NEW v \in Value \cup {Get},
             Call(c, p, s, v)
      PROVE  Shape'
  BY <1>1, ShapeCall
<1>2. ASSUME NEW c \in Worker, ReadCell(c) \/ ReadFails(c) \/ Insert(c) \/ EvictCell(c) \/ Return(c)
      PROVE  Shape'
  BY <1>2, ShapeReadCell, ShapeReadFails, ShapeInsert, ShapeEvictCell, ShapeReturn
<1>3. CASE Save \/ SaveWrite \/ Purge
  BY <1>3, ShapeSave, ShapeSaveWrite, ShapePurge
<1>4. CASE UNCHANGED vars
  BY <1>4, ShapeStutter
<1> QED
  BY <1>1, <1>2, <1>3, <1>4 DEF Next

-----------------------------------------------------------------------------
(* The cells in use *)

\* A step of caller c that leaves a position alone, and the cell it has there in place.
LEMMA InUseElsewhere ==
    ASSUME NEW p \in Pos, InUse(p), NEW c \in Worker, NEW r, Calls(c, r),
           saving' = saving, r # Idle => r.pos # p /\ r.victim # p,
           r = Idle => Range(cells') = Range(cells),
           \A e \in Range(cells') \cup Range(cells) :
                e.pos = p => (e \in Range(cells) <=> e \in Range(cells')),
           r.at \in {"idle", "read", "insert", "evict", "return"},
           r # Idle <=> r.at # "idle"
    PROVE  InUse(p)'
<1>1. Worker' = Worker
  BY DEF Calls, Worker
<1>2. (Cached(p) = {}) <=> (Cached(p) = {})'
  BY DEF Cached
<1>3. \A id : (\E e \in Range(cells) : e.pos = p /\ e.id = id)
                <=> (\E e \in Range(cells') : e.pos = p /\ e.id = id)
  OBVIOUS
<1>4. \A d \in Worker : d # c => (UsedBesides(d, p)' => UsedBesides(d, p))
  BY <1>1 DEF Calls, UsedBesides
<1>5. ASSUME NEW d \in Worker
      PROVE  InUseBy(d, p)'
  <2>1. CASE d = c
    BY <2>1 DEF Calls, InUseBy
  <2>2. CASE d # c
    <3>1. call'[d] = call[d]
      BY <2>2 DEF Calls
    <3>2. Lonely(d, p) => Lonely(d, p)'
      BY <1>2, <1>4, <2>2 DEF Lonely
    <3>3. InUseBy(d, p)
      BY DEF InUse
    <3>4. Holds(p, call[d].id) => Holds(p, call[d].id)'
      BY <1>3, <3>1 DEF Holds
    <3> QED
      BY <3>1, <3>2, <3>3, <3>4 DEF InUseBy
  <2> QED
    BY <2>1, <2>2
<1>6. \A e \in Range(saving'.todo) : e.pos = p => Holds(p, e.id)'
  BY <1>3 DEF InUse, Holds
<1> QED
  BY <1>1, <1>5, <1>6 DEF InUse

\* A position that nobody else works on is as caller c leaves it.
LEMMA InUseAlone ==
    ASSUME NEW p \in Pos, NEW c \in Worker, NEW r, Calls(c, r), ~UsedBesides(c, p),
           saving' = saving, r # Idle, Typed,
           r.at \in {"read", "insert"} /\ r.pos = p => (Cached(p) = {})',
           r.at = "evict" /\ r.victim = p => r.pos # p /\ (Cached(p) = {})',
           r.at \in {"evict", "return"} /\ r.pos = p => [pos |-> p, id |-> r.id] \in Range(cells')
    PROVE  InUse(p)'
<1>1. Worker' = Worker
  BY DEF Calls, Worker
<1>2. \A d \in Worker : d # c /\ call'[d].at # "idle" => call'[d].pos # p /\ call'[d].victim # p
  BY CallFields DEF Calls, UsedBesides
<1>3. \A e \in Range(saving.todo) : e.pos # p
  BY DEF UsedBesides
<1>4. ~UsedBesides(c, p)'
  BY <1>1 DEF UsedBesides, Calls
<1>5. ASSUME NEW d \in Worker
      PROVE  InUseBy(d, p)'
  <2>1. CASE d = c
    <3>1. call'[d] = r
      BY <2>1 DEF Calls
    <3>2. (Cached(p) = {})' => Lonely(d, p)'
      BY <1>4, <2>1 DEF Lonely
    <3>3. r.at \in {"evict", "return"} /\ r.pos = p => Holds(p, call[d].id)'
      BY <3>1 DEF Holds
    <3> QED
      BY <3>1, <3>2, <3>3 DEF InUseBy
  <2>2. CASE d # c
    BY <1>2, <2>2 DEF InUseBy
  <2> QED
    BY <2>1, <2>2
<1>6. \A e \in Range(saving'.todo) : e.pos = p => Holds(p, e.id)'
  BY <1>3
<1> QED
  BY <1>1, <1>5, <1>6 DEF InUse

LEMMA InUseCall ==
    ASSUME Shape, NEW q \in Pos, q \notin raced', q \notin raced => InUse(q),
           NEW c \in Worker, NEW p \in Pos, NEW s \in Slot, NEW v \in Value \cup {Get},
           Call(c, p, s, v)
    PROVE  InUse(q)'
<1>1. call[c] = Idle /\ q # Missing
  BY CallStep, Contents
<1>2. CASE CallHits(c, p, s, v)
  <2>1. PICK e \in Range(cells) : e.pos = p /\ Calls(c, CallOf("return", p, s, v, e.id, Fresh, Missing))
    BY <1>2 DEF CallHits
  <2>2. Range(cells') = Range(cells) /\ raced' = raced /\ saving' = saving
    BY <1>2 DEF CallHits
  <2>3. InUse(q)
    BY <2>2
  <2>4. CASE q # p
    <3> DEFINE r == CallOf("return", p, s, v, e.id, Fresh, Missing)
    <3>1. r # Idle /\ r.pos = p /\ r.victim = Missing /\ r.at = "return"
      BY DEF CallOf, Idle
    <3> HIDE DEF r
    <3> QED
      BY <1>1, <2>1, <2>2, <2>3, <2>4, <3>1, InUseElsewhere DEF r
  <2>5. CASE q = p
    <3>1. Cached(p) # {} /\ Holds(p, e.id)
      BY <2>1 DEF Cached, Holds
    <3>2. call'[c].at = "return" /\ call'[c].pos = p /\ call'[c].id = e.id
      BY <2>1 DEF Calls, CallOf
    <3>3. \A id : (\E f \in Range(cells) : f.pos = p /\ f.id = id)
                    => (\E f \in Range(cells') : f.pos = p /\ f.id = id)
      BY <2>2
    <3>4. Worker' = Worker
      BY <2>1 DEF Calls, Worker
    <3>5. ASSUME NEW d \in Worker
          PROVE  InUseBy(d, p)'
      <4>1. CASE d = c
        BY <3>1, <3>2, <3>3, <4>1 DEF InUseBy, Holds
      <4>2. CASE d # c
        <5>1. call'[d] = call[d] /\ InUseBy(d, p)
          BY <2>1, <2>3, <2>5, <4>2 DEF Calls, InUse
        <5> QED
          BY <3>1, <3>3, <5>1 DEF InUseBy, Holds, Lonely
      <4> QED
        BY <4>1, <4>2
    <3>6. \A f \in Range(saving'.todo) : f.pos = p => Holds(p, f.id)'
      BY <2>2, <2>3, <2>5, <3>3 DEF InUse, Holds
    <3> QED
      BY <2>5, <3>4, <3>5, <3>6 DEF InUse
  <2> QED
    BY <2>4, <2>5
<1>3. CASE CallMisses(c, p, s, v)
  <2> DEFINE r == CallOf("read", p, s, v, 0, Fresh, Missing)
  <2>1. r # Idle /\ r.pos = p /\ r.victim = Missing /\ r.at = "read"
    BY DEF CallOf, Idle
  <2>2. /\ Calls(c, r) /\ cells' = cells /\ saving' = saving /\ Cached(p) = {}
        /\ raced' = raced \cup Races(c, p)
    BY <1>3 DEF CallMisses
  <2> HIDE DEF r
  <2>3. CASE q # p
    BY <1>1, <2>1, <2>2, <2>3, InUseElsewhere
  <2>4. CASE q = p
    <3>1. ~UsedBesides(c, q)
      BY <2>2, <2>4 DEF Races
    <3>2. (Cached(q) = {})'
      BY <2>2, <2>4 DEF Cached
    <3> QED
      BY <2>1, <2>2, <2>4, <3>1, <3>2, InUseAlone DEF Shape
  <2> QED
    BY <2>3, <2>4
<1> QED
  BY <1>2, <1>3, CallStep

LEMMA InUseRead ==
    ASSUME Shape, NEW q \in Pos, q \notin raced', q \notin raced => InUse(q),
           NEW c \in Worker, NEW data, ReadsCell(c, data)
    PROVE  InUse(q)'
<1> DEFINE k == call[c]
           r == CallOf("insert", k.pos, k.slot, k.value, 0, data, Missing)
<1>1. /\ r # Idle /\ r.pos = k.pos /\ r.victim = Missing /\ r.at = "insert" /\ q # Missing
  BY Contents DEF CallOf, Idle
<1>2. /\ Calls(c, r) /\ cells' = cells /\ saving' = saving /\ raced' = raced
      /\ k.at = "read"
  BY DEF ReadsCell
<1> HIDE DEF r
<1>3. CASE q # k.pos
  BY <1>1, <1>2, <1>3, InUseElsewhere
<1>4. CASE q = k.pos
  <2>1. Lonely(c, q)
    BY <1>2, <1>4 DEF InUse, InUseBy
  <2>2. ~UsedBesides(c, q) /\ (Cached(q) = {})'
    BY <1>2, <2>1 DEF Lonely, Cached
  <2> QED
    BY <1>1, <1>2, <1>4, <2>2, InUseAlone DEF Shape
<1> QED
  BY <1>3, <1>4

LEMMA InUseInsert ==
    ASSUME Shape, NEW q \in Pos, q \notin raced', q \notin raced => InUse(q),
           NEW c \in Worker, Insert(c)
    PROVE  InUse(q)'
<1> DEFINE k == call[c]
<1>1. PICK id : InsertsOnly(c, id) \/ \E g : InsertsFor(c, id, g)
  BY InsertStep
<1>2. Inserts(c, id)
  BY <1>1 DEF InsertsOnly, InsertsFor
<1>3. /\ k # Idle /\ k.pos \in Pos /\ q # Missing /\ saving' = saving
      /\ Entry(k.pos, id) \in Range(cells')
      /\ \A e \in Range(cells') : e = Entry(k.pos, id) \/ (e \in Range(cells) /\ e.pos # k.pos)
  BY <1>2, CallFields, Contents DEF Inserts, Shape
<1>4. Entry(k.pos, id).pos = k.pos /\ Entry(k.pos, id) = [pos |-> k.pos, id |-> id]
  BY DEF Entry
<1>5. ASSUME NEW m \in Pos \cup {Missing}, m # k.pos, NEW at, NEW data,
             at = IF m = Missing THEN "return" ELSE "evict",
             Calls(c, CallOf(at, k.pos, k.slot, k.value, id, data, m)),
             q = k.pos \/ q = m => ~UsedBesides(c, q),
             m # Missing => \A e \in Range(cells') : e.pos # m,
             \A e \in Range(cells) : e.pos # k.pos /\ e.pos # m /\ e.pos = q => e \in Range(cells')
      PROVE  InUse(q)'
  <2> DEFINE r == CallOf(at, k.pos, k.slot, k.value, id, data, m)
  <2>1. r # Idle /\ r.pos = k.pos /\ r.victim = m /\ r.at = at /\ r.id = id
    BY DEF CallOf, Idle
  <2>2. Calls(c, r)
    BY <1>5
  <2> HIDE DEF r
  <2>3. CASE q # k.pos /\ q # m
    <3>1. InUse(q)
      <4>1. q \notin raced
        BY <1>1 DEF InsertsOnly, InsertsFor
      <4> QED
        BY <4>1
    <3>2. \A e \in Range(cells') \cup Range(cells) :
                e.pos = q => (e \in Range(cells) <=> e \in Range(cells'))
      BY <1>3, <1>4, <1>5, <2>3
    <3> QED
      BY <1>3, <1>5, <2>1, <2>2, <2>3, <3>1, <3>2, InUseElsewhere
  <2>4. CASE q = k.pos
    BY <1>3, <1>4, <1>5, <2>1, <2>2, <2>4, InUseAlone DEF Shape
  <2>5. CASE q = m
    <3>1. (Cached(q) = {})'
      BY <1>3, <1>5, <2>5 DEF Cached
    <3> QED
      BY <1>3, <1>5, <2>1, <2>2, <2>5, <3>1, InUseAlone DEF Shape
  <2> QED
    BY <2>3, <2>4, <2>5
<1>6. CASE InsertsOnly(c, id)
  <2>1. q = k.pos => ~UsedBesides(c, q)
    BY <1>6 DEF InsertsOnly, Races
  <2>2. Calls(c, CallOf("return", k.pos, k.slot, k.value, id, Fresh, Missing))
    BY <1>6 DEF InsertsOnly
  <2>3. \A e \in Range(cells) : e.pos # k.pos => e \in Range(cells')
    BY <1>6 DEF InsertsOnly
  <2> HIDE DEF k
  <2> QED
    BY <1>3, <1>5, <2>1, <2>2, <2>3, Contents
<1>7. ASSUME NEW g, InsertsFor(c, id, g)
      PROVE  InUse(q)'
  <2>1. /\ g \in Range(cells) /\ g.pos # k.pos
        /\ \A e \in Range(cells) : e.pos # k.pos /\ e # g => e \in Range(cells')
        /\ \A e \in Range(cells') : e.pos # g.pos
        /\ raced' = raced \cup Races(c, g.pos) \cup Races(c, k.pos)
    BY <1>7 DEF InsertsFor
  <2>2. g.pos \in Pos /\ g.pos # Missing
    BY <2>1, Contents DEF Shape, Entries, EntryOK
  <2>3. q = k.pos \/ q = g.pos => ~UsedBesides(c, q)
    BY <2>1 DEF Races
  <2>4. CASE heap[Ref(g)].modified
    <3>1. Calls(c, CallOf("evict", k.pos, k.slot, k.value, id, heap[Ref(g)].data, g.pos))
      BY <1>7, <2>4 DEF InsertsFor
    <3> HIDE DEF k
    <3> QED
      BY <1>3, <1>5, <2>1, <2>2, <2>3, <3>1
  <2>5. CASE ~heap[Ref(g)].modified
    <3>1. Calls(c, CallOf("return", k.pos, k.slot, k.value, id, Fresh, Missing))
      BY <1>7, <2>5 DEF InsertsFor
    <3> HIDE DEF k
    <3>2. CASE q # g.pos
      BY <1>3, <1>5, <2>1, <2>3, <3>1, <3>2, Contents
    <3>3. CASE q = g.pos
      <4> DEFINE r == CallOf("return", k.pos, k.slot, k.value, id, Fresh, Missing)
      <4>1. r # Idle /\ r.pos = k.pos /\ r.victim = Missing /\ r.at = "return"
        BY DEF CallOf, Idle
      <4>2. Calls(c, r)
        BY <3>1
      <4> HIDE DEF r
      <4> QED
        BY <1>3, <2>1, <2>3, <3>3, <4>1, <4>2, InUseAlone DEF Shape
    <3> QED
      BY <3>2, <3>3
  <2> QED
    BY <2>4, <2>5
<1> QED
  BY <1>1, <1>6, <1>7

\* A caller that stays with its cell, or leaves it, and with no other, changes nothing.
LEMMA InUseLess ==
    ASSUME NEW q \in Pos, InUse(q), NEW c \in Worker, NEW r, Calls(c, r), call[c] # Idle,
           cells' = cells, saving' = saving,
           r = Idle \/ (r.at = "return" /\ r.pos = call[c].pos /\ r.id = call[c].id /\ r.victim = Missing),
           call[c].at \in {"evict", "return"}
    PROVE  InUse(q)'
<1>1. Worker' = Worker /\ q # Missing /\ Idle.at = "idle"
  BY Contents DEF Calls, Worker, Idle
<1>2. \A d \in Worker : UsedBesides(d, q)' => UsedBesides(d, q)
  BY <1>1 DEF Calls, UsedBesides
<1>3. ASSUME NEW d \in Worker
      PROVE  InUseBy(d, q)'
  <2>1. InUseBy(d, q)
    BY DEF InUse
  <2>2. CASE d = c
    BY <1>1, <2>1, <2>2 DEF InUseBy, Calls, Holds
  <2>3. CASE d # c
    BY <1>2, <2>1, <2>3 DEF InUseBy, Calls, Holds, Lonely, Cached
  <2> QED
    BY <2>2, <2>3
<1>4. \A e \in Range(saving'.todo) : e.pos = q => Holds(q, e.id)'
  BY DEF InUse, Holds
<1> QED
  BY <1>1, <1>3, <1>4 DEF InUse

LEMMA InUseEvictCell ==
    ASSUME Shape, NEW q \in Pos, q \notin raced', q \notin raced => InUse(q),
           NEW c \in Worker, EvictCell(c)
    PROVE  InUse(q)'
<1> DEFINE k == call[c]
           r == CallOf("return", k.pos, k.slot, k.value, k.id, Fresh, Missing)
<1>1. k.at = "evict" /\ k # Idle /\ cells' = cells /\ saving' = saving /\ raced' = raced /\ Calls(c, r)
  BY EvictCellStep DEF Evicts
<1>2. r.at = "return" /\ r.pos = k.pos /\ r.id = k.id /\ r.victim = Missing
  BY DEF CallOf
<1> HIDE DEF r
<1> QED
  BY <1>1, <1>2, InUseLess

LEMMA InUseReturn ==
    ASSUME Shape, NEW q \in Pos, q \notin raced', q \notin raced => InUse(q),
           NEW c \in Worker, Return(c)
    PROVE  InUse(q)'
<1>1. /\ call[c].at = "return" /\ call[c] # Idle /\ cells' = cells /\ saving' = saving
      /\ raced' = raced /\ Calls(c, Idle)
  BY ReturnStep DEF Returns
<1> QED
  BY <1>1, InUseLess

\* A save that goes on is at entries of the cache, or at ones it had.
LEMMA InUseSaving ==
    ASSUME NEW q \in Pos, InUse(q), UNCHANGED <<callers, call, cells>>,
           Range(saving'.todo) \subseteq Range(cells) \cup Range(saving.todo)
    PROVE  InUse(q)'
<1>1. Worker' = Worker
  BY DEF Worker
<1>2. \A e \in Range(saving'.todo) : e.pos = q => Holds(q, e.id)
  BY DEF InUse, Holds
<1>3. ASSUME NEW d \in Worker
      PROVE  InUseBy(d, q)'
  <2>1. InUseBy(d, q)
    BY DEF InUse
  <2>2. Lonely(d, q) => Lonely(d, q)'
    <3>1. (Cached(q) = {})' <=> Cached(q) = {}
      BY DEF Cached
    <3>2. Cached(q) = {} => \A e \in Range(saving'.todo) : e.pos # q
      BY <1>2, CachedEntries DEF Holds
    <3>3. Cached(q) = {} => (UsedBesides(d, q)' => UsedBesides(d, q))
      BY <1>1, <3>2 DEF UsedBesides
    <3> QED
      BY <3>1, <3>3 DEF Lonely
  <2> QED
    BY <2>1, <2>2 DEF InUseBy, Holds
<1>4. \A e \in Range(saving'.todo) : e.pos = q => Holds(q, e.id)'
  BY <1>2 DEF Holds
<1> QED
  BY <1>1, <1>3, <1>4 DEF InUse

LEMMA InUseSave ==
    ASSUME Shape, NEW q \in Pos, q \notin raced', q \notin raced => InUse(q), Save \/ SaveWrite
    PROVE  InUse(q)'
<1>1. CASE Save
  BY <1>1, SaveStep, InUseSaving DEF GoesOn
<1>2. CASE SaveWrite
  <2>1. /\ UNCHANGED <<callers, call, cells, raced>>
        /\ Range(saving'.todo) \subseteq Range(saving.todo)
    BY <1>2, SaveWriteStep DEF SaveWrites, GoesOn
  <2> QED
    BY <2>1, InUseSaving
<1> QED
  BY <1>1, <1>2

LEMMA InUsePurge ==
    ASSUME Shape, NEW q \in Pos, Purge
    PROVE  InUse(q)'
<1>1. Worker' = Worker /\ \A d \in Worker : call'[d].at = "idle"
  BY PurgeStep DEF Worker, Idle
<1>2. Range(saving'.todo) = {}
  <2>1. saving'.todo = << >>
    BY PurgeStep DEF Saving
  <2> QED
    BY <2>1 DEF Range
<1>3. ASSUME NEW d \in Worker
      PROVE  InUseBy(d, q)'
  BY <1>1 DEF InUseBy
<1> QED
  BY <1>1, <1>2, <1>3 DEF InUse

\* No step leaves a cell that was not raced to two.
LEMMA InUseNext ==
    ASSUME Shape, \A p \in Pos \ raced : InUse(p), [Next]_vars
    PROVE  (\A p \in Pos \ raced : InUse(p))'
<1> SUFFICES ASSUME NEW q \in Pos, q \notin raced'
             PROVE  InUse(q)'
  OBVIOUS
<1>1. q \notin raced => InUse(q)
  OBVIOUS
<1>2. ASSUME NEW c \in Worker, NEW p \in Pos, NEW s \in Slot, NEW v \in Value \cup {Get},
             Call(c, p, s, v)
      PROVE  InUse(q)'
  BY <1>1, <1>2, InUseCall
<1>3. ASSUME NEW c \in Worker, ReadCell(c) \/ ReadFails(c) \/ Insert(c) \/ EvictCell(c) \/ Return(c)
      PROVE  InUse(q)'
  BY <1>1, <1>3, ReadCellStep, ReadFailsStep, InUseRead, InUseInsert, InUseEvictCell, InUseReturn
<1>4. CASE Save \/ SaveWrite \/ Purge
  BY <1>1, <1>4, InUseSave, InUsePurge
<1>5. CASE UNCHANGED vars
  <2>1. UNCHANGED <<callers, call, cells, saving, raced>>
    BY <1>5 DEF vars, cacheVars, ghosts
  <2> QED
    BY <1>1, <2>1, InUseSaving
<1> QED
  BY <1>2, <1>3, <1>4, <1>5 DEF Next

-----------------------------------------------------------------------------
(* What was set is kept *)

\* Positions that a step leaves alone keep what they have.
KeptAt(p) ==
    \A e \in Range(cells) : e.pos = p =>
        /\ heap[Ref(e)].data = want[p]
        /\ ~heap[Ref(e)].modified => File(p) = want[p]

KeptBy(c, p) ==
    /\ call[c].at = "insert" /\ call[c].pos = p => call[c].data = want[p]
    /\ call[c].at = "evict" /\ call[c].victim = p => call[c].data = want[p]

LEMMA KeptParts ==
    ASSUME NEW p
    PROVE  Kept(p) <=> /\ KeptAt(p)
                       /\ Cached(p) = {} /\ p \notin InFlight => File(p) = want[p]
                       /\ \A c \in Worker : KeptBy(c, p)
BY DEF Kept, KeptAt, KeptBy

\* A cell that someone is alone with is in its file.
LEMMA LonelyKept ==
    ASSUME NEW p \in Pos, Kept(p), NEW c \in Worker, Lonely(c, p), call[c].at # "evict"
    PROVE  File(p) = want[p]
<1>1. p \notin InFlight
  BY DEF InFlight, Lonely, UsedBesides, Idle
<1> QED
  BY <1>1, KeptParts DEF Lonely

LEMMA KeptElsewhere ==
    ASSUME NEW q \in Pos, Kept(q), NEW c \in Worker, NEW r, Calls(c, r),
           stored'[q] = stored[q], want'[q] = want[q],
           \A e \in Range(cells') : e.pos = q => e \in Range(cells) /\ heap'[Ref(e)] = heap[Ref(e)],
           (Cached(q) = {})' => Cached(q) = {},
           ~(call[c].at = "evict" /\ call[c].victim = q),
           r.at = "insert" /\ r.pos = q => r.data = want[q],
           r.at = "evict" /\ r.victim = q => r.data = want[q]
    PROVE  Kept(q)'
<1>1. Worker' = Worker
  BY DEF Calls, Worker
<1>2. File(q)' = File(q)
  BY DEF File
<1>3. KeptAt(q)'
  BY <1>2, KeptParts DEF KeptAt, Ref
<1>4. q \in InFlight => (q \in InFlight)'
  BY <1>1 DEF InFlight, Calls
<1>5. (Cached(q) = {} /\ q \notin InFlight => File(q) = want[q])'
  BY <1>2, <1>4, KeptParts
<1>6. ASSUME NEW d \in Worker
      PROVE  KeptBy(d, q)'
  <2>1. KeptBy(d, q)
    BY KeptParts
  <2> QED
    BY <2>1 DEF KeptBy, Calls
<1> QED
  BY <1>1, <1>3, <1>5, <1>6 DEF Kept, KeptAt, KeptBy

LEMMA KeptCall ==
    ASSUME Shape, NEW q \in Pos, Kept(q),
           NEW c \in Worker, NEW p \in Pos, NEW s \in Slot, NEW v \in Value \cup {Get},
           Call(c, p, s, v)
    PROVE  Kept(q)'
<1>1. call[c].at = "idle"
  BY CallStep DEF Idle
<1>2. CASE CallHits(c, p, s, v)
  <2>1. PICK e \in Range(cells) : Calls(c, CallOf("return", p, s, v, e.id, Fresh, Missing))
    BY <1>2 DEF CallHits
  <2> DEFINE r == CallOf("return", p, s, v, e.id, Fresh, Missing)
  <2>2. r.at = "return"
    BY DEF CallOf
  <2>3. Range(cells') = Range(cells) /\ UNCHANGED <<heap, stored, want>> /\ Calls(c, r)
    BY <1>2, <2>1 DEF CallHits
  <2> HIDE DEF r
  <2>4. (Cached(q) = {})' => Cached(q) = {}
    BY <2>3 DEF Cached
  <2> QED
    BY <1>1, <2>2, <2>3, <2>4, KeptElsewhere
<1>3. CASE CallMisses(c, p, s, v)
  <2> DEFINE r == CallOf("read", p, s, v, 0, Fresh, Missing)
  <2>1. r.at = "read"
    BY DEF CallOf
  <2>2. UNCHANGED <<cells, heap, stored, want>> /\ Calls(c, r)
    BY <1>3 DEF CallMisses
  <2> HIDE DEF r
  <2>3. (Cached(q) = {})' => Cached(q) = {}
    BY <2>2 DEF Cached
  <2> QED
    BY <1>1, <2>1, <2>2, <2>3, KeptElsewhere
<1> QED
  BY <1>2, <1>3, CallStep

LEMMA KeptRead ==
    ASSUME Shape, NEW q \in Pos, Kept(q), InUse(q), NEW c \in Worker, NEW data, ReadsCell(c, data),
           stored'[q] = stored[q], q = call[c].pos => data = File(q)
    PROVE  Kept(q)'
<1> DEFINE k == call[c]
           r == CallOf("insert", k.pos, k.slot, k.value, 0, data, Missing)
<1>1. k.at = "read" /\ UNCHANGED <<cells, heap, want>> /\ Calls(c, r)
  BY DEF ReadsCell
<1>2. r.at = "insert" /\ r.pos = k.pos /\ r.data = data
  BY DEF CallOf
<1>3. q = k.pos => data = want[q]
  <2>1. q = k.pos => Lonely(c, q)
    BY <1>1 DEF InUse, InUseBy
  <2> QED
    BY <1>1, <2>1, LonelyKept
<1> HIDE DEF r
<1>4. (Cached(q) = {})' => Cached(q) = {}
  BY <1>1 DEF Cached
<1> QED
  BY <1>1, <1>2, <1>3, <1>4, KeptElsewhere

LEMMA KeptReadCell ==
    ASSUME Shape, NEW q \in Pos, Kept(q), InUse(q), NEW c \in Worker, ReadCell(c)
    PROVE  Kept(q)'
BY ReadCellStep, KeptRead

LEMMA KeptReadFails ==
    ASSUME Shape, NEW q \in Pos, q \notin failed', Kept(q), InUse(q), NEW c \in Worker, ReadFails(c)
    PROVE  Kept(q)'
BY ReadFailsStep, KeptRead

\* The calls of others, and the caller's if it is not at an insertion or eviction here.
LEMMA KeptByOthers ==
    ASSUME NEW q \in Pos, Kept(q), NEW c \in Worker, NEW r, Calls(c, r), want'[q] = want[q],
           r.at = "insert" /\ r.pos = q => r.data = want[q],
           r.at = "evict" /\ r.victim = q => r.data = want[q]
    PROVE  (\A d \in Worker : KeptBy(d, q))'
<1>1. Worker' = Worker
  BY DEF Calls, Worker
<1>2. ASSUME NEW d \in Worker
      PROVE  KeptBy(d, q)'
  <2>1. KeptBy(d, q)
    BY KeptParts
  <2> QED
    BY <2>1 DEF KeptBy, Calls
<1> QED
  BY <1>1, <1>2 DEF KeptBy

\* The cell that is inserted.
LEMMA KeptInserted ==
    ASSUME Shape, NEW c \in Worker, NEW id, Inserts(c, id), NEW q \in Pos, q = call[c].pos,
           Kept(q), InUse(q), NEW r, Calls(c, r), r.at \in {"evict", "return"}, r.victim # q
    PROVE  Kept(q)'
<1> DEFINE k == call[c]
<1>1. /\ k.at = "insert" /\ UNCHANGED <<stored, want>>
      /\ Entry(q, id) \in Range(cells')
      /\ \A e \in Range(cells') : e.pos = q => e = Entry(q, id) /\ heap'[Ref(e)] = Clean(k.data)
  BY DEF Inserts
<1>2. k.data = want[q]
  BY <1>1, KeptParts DEF KeptBy
<1>3. File(q)' = want[q]
  <2>1. Lonely(c, q)
    BY <1>1 DEF InUse, InUseBy
  <2> QED
    BY <1>1, <2>1, LonelyKept DEF File
<1>4. KeptAt(q)'
  BY <1>1, <1>2, <1>3 DEF KeptAt, Clean, Ref
<1>5. (\A d \in Worker : KeptBy(d, q))'
  BY <1>1, KeptByOthers
<1>6. (File(q) = want[q])'
  BY <1>1, <1>3
<1> QED
  BY <1>4, <1>5, <1>6 DEF Kept, KeptAt, KeptBy

LEMMA KeptInsert ==
    ASSUME Shape, NEW q \in Pos, q \notin raced', Kept(q), InUse(q), NEW c \in Worker, Insert(c)
    PROVE  Kept(q)'
<1> DEFINE k == call[c]
<1>1. PICK id : InsertsOnly(c, id) \/ \E g : InsertsFor(c, id, g)
  BY InsertStep
<1>2. Inserts(c, id)
  BY <1>1 DEF InsertsOnly, InsertsFor
<1>3. /\ k.at = "insert" /\ k # Idle /\ k.pos \in Pos /\ q # Missing /\ UNCHANGED <<stored, want>>
      /\ \A e \in Range(cells') : e = Entry(k.pos, id) \/ (e \in Range(cells) /\ e.pos # k.pos)
      /\ \A e \in Range(cells') : e # Entry(k.pos, id) => heap'[Ref(e)] = heap[Ref(e)]
  BY <1>2, CallFields, Contents DEF Inserts, Shape
<1>4. Entry(k.pos, id).pos = k.pos
  BY DEF Entry
<1>5. \A e \in Range(cells') : e.pos # k.pos => e \in Range(cells) /\ heap'[Ref(e)] = heap[Ref(e)]
  BY <1>3, <1>4
<1>6. CASE InsertsOnly(c, id)
  <2> DEFINE r == CallOf("return", k.pos, k.slot, k.value, id, Fresh, Missing)
  <2>1. r.at = "return" /\ r.victim = Missing
    BY DEF CallOf
  <2>2. Calls(c, r) /\ \A e \in Range(cells) : e.pos # k.pos => e \in Range(cells')
    BY <1>6 DEF InsertsOnly
  <2> HIDE DEF r, k
  <2>3. CASE q = k.pos
    BY <1>2, <1>3, <2>1, <2>2, <2>3, KeptInserted DEF k
  <2>4. CASE q # k.pos
    <3>1. (Cached(q) = {})' => Cached(q) = {}
      BY <2>2, <2>4 DEF Cached
    <3> QED
      BY <1>3, <1>5, <2>1, <2>2, <2>4, <3>1, KeptElsewhere DEF k
  <2> QED
    BY <2>3, <2>4
<1>7. ASSUME NEW g, InsertsFor(c, id, g)
      PROVE  Kept(q)'
  <2> DEFINE r == IF heap[Ref(g)].modified
                  THEN CallOf("evict", k.pos, k.slot, k.value, id, heap[Ref(g)].data, g.pos)
                  ELSE CallOf("return", k.pos, k.slot, k.value, id, Fresh, Missing)
  <2>1. /\ r.at = IF heap[Ref(g)].modified THEN "evict" ELSE "return"
        /\ r.victim = IF heap[Ref(g)].modified THEN g.pos ELSE Missing
        /\ r.data = IF heap[Ref(g)].modified THEN heap[Ref(g)].data ELSE Fresh
    BY DEF CallOf
  <2>2. /\ Calls(c, r)
        /\ g \in Range(cells) /\ g.pos # k.pos
        /\ \A e \in Range(cells) : e.pos # k.pos /\ e # g => e \in Range(cells')
        /\ \A e \in Range(cells') : e.pos # g.pos
    BY <1>7 DEF InsertsFor
  <2> HIDE DEF r, k
  <2>3. CASE q = k.pos
    BY <1>2, <1>3, <2>1, <2>2, <2>3, KeptInserted DEF k
  <2>4. CASE q # k.pos /\ q # g.pos
    <3>1. (Cached(q) = {})' => Cached(q) = {}
      BY <2>2, <2>4 DEF Cached
    <3> QED
      BY <1>3, <1>5, <2>1, <2>2, <2>4, <3>1, KeptElsewhere DEF k
  <2>5. CASE q = g.pos
    <3>1. heap[Ref(g)].data = want[q] /\ (~heap[Ref(g)].modified => File(q) = want[q])
      BY <2>2, <2>5, KeptParts DEF KeptAt
    <3>2. KeptAt(q)'
      BY <2>2, <2>5 DEF KeptAt
    <3>3. (\A d \in Worker : KeptBy(d, q))'
      BY <1>3, <2>1, <2>2, <2>5, <3>1, KeptByOthers
    <3>4. (q \notin InFlight => File(q) = want[q])'
      <4>1. CASE heap[Ref(g)].modified
        <5>1. call'[c].at = "evict" /\ call'[c].victim = q /\ Worker' = Worker
          BY <2>1, <2>2, <2>5, <4>1 DEF Calls, Worker
        <5> QED
          BY <5>1 DEF InFlight
      <4>2. CASE ~heap[Ref(g)].modified
        BY <1>3, <3>1, <4>2 DEF File
      <4> QED
        BY <4>1, <4>2
    <3> QED
      BY <3>2, <3>3, <3>4 DEF Kept, KeptAt, KeptBy
  <2> QED
    BY <2>3, <2>4, <2>5
<1> QED
  BY <1>1, <1>6, <1>7

LEMMA KeptEvictCell ==
    ASSUME Shape, NEW q \in Pos, q \notin failed', Kept(q), InUse(q), NEW c \in Worker, EvictCell(c)
    PROVE  Kept(q)'
<1> DEFINE k == call[c]
           r == CallOf("return", k.pos, k.slot, k.value, k.id, Fresh, Missing)
<1>1. /\ k.at = "evict" /\ k.victim \in Pos /\ k.data \in Content
      /\ UNCHANGED <<cells, heap, want>> /\ Calls(c, r)
      /\ \/ stored' = [stored EXCEPT ![k.victim] = k.data]
         \/ failed' = failed \cup {k.victim} /\ UNCHANGED stored
  BY EvictCellStep DEF Evicts
<1>2. r.at = "return" /\ stored \in [Pos -> Content \cup {Missing}]
  BY DEF CallOf, Shape, Typed
<1> HIDE DEF r
<1>3. (Cached(q) = {})' <=> Cached(q) = {}
  BY <1>1 DEF Cached
<1>4. CASE q # k.victim
  <2>1. stored'[q] = stored[q]
    BY <1>1, <1>2, <1>4
  <2> QED
    BY <1>1, <1>2, <1>3, <1>4, <2>1, KeptElsewhere
<1>5. CASE q = k.victim
  <2>1. Cached(q) = {} /\ k.data = want[q]
    BY <1>1, <1>5, KeptParts DEF InUse, InUseBy, Lonely, KeptBy
  <2>2. stored'[q] = k.data
    BY <1>1, <1>2, <1>5
  <2>3. (File(q) = want[q])'
    <3>1. k.data = Missing => Fresh = Missing
      BY <1>1 DEF Content, Fresh, Missing
    <3> QED
      BY <1>1, <2>1, <2>2, <3>1 DEF File
  <2>4. KeptAt(q)'
    BY <1>1, <2>1, CachedEntries DEF KeptAt
  <2>5. (\A d \in Worker : KeptBy(d, q))'
    BY <1>1, <1>2, KeptByOthers
  <2> QED
    BY <2>3, <2>4, <2>5 DEF Kept, KeptAt, KeptBy
<1> QED
  BY <1>4, <1>5

LEMMA KeptReturn ==
    ASSUME Shape, NEW q \in Pos, Kept(q), InUse(q), NEW c \in Worker, Return(c)
    PROVE  Kept(q)'
<1> DEFINE k == call[c]
           set == k.value # Get
<1>1. /\ k.at = "return" /\ k # Idle /\ UNCHANGED <<cells, stored, saving>> /\ Calls(c, Idle)
      /\ want' = IF set THEN [want EXCEPT ![k.pos][k.slot] = k.value] ELSE want
      /\ \A e \in Range(cells) :
            heap'[Ref(e)] = IF set /\ Ref(e) = Ref(k) THEN Marked(Ref(k), k.slot, k.value)
                            ELSE heap[Ref(e)]
  BY ReturnStep DEF Returns
<1>2. /\ k.pos \in Pos /\ k.slot \in Slot /\ k.value \in Value \cup {Get}
      /\ want \in [Pos -> Content] /\ Idle.at = "idle"
  BY <1>1, CallFields DEF Shape, Typed, Idle
<1>3. (Cached(q) = {})' <=> Cached(q) = {}
  BY <1>1 DEF Cached
<1>4. CASE ~(set /\ q = k.pos)
  <2>1. want'[q] = want[q]
    BY <1>1, <1>2, <1>4
  <2>2. ASSUME NEW e \in Range(cells'), e.pos = q
        PROVE  e \in Range(cells) /\ heap'[Ref(e)] = heap[Ref(e)]
    <3>1. Ref(e) = Ref(k) => q = k.pos
      BY <2>2 DEF Ref
    <3> QED
      BY <1>1, <1>4, <2>2, <3>1
  <2> HIDE DEF k, set
  <2> QED
    BY <1>1, <1>2, <1>3, <2>1, <2>2, KeptElsewhere DEF k
<1>5. CASE set /\ q = k.pos
  <2>1. Holds(q, k.id)
    BY <1>1, <1>5 DEF InUse, InUseBy
  <2>2. PICK f \in Range(cells) : f.pos = q /\ f.id = k.id
    BY <2>1 DEF Holds
  <2>3. Ref(f) = Ref(k)
    BY <1>5, <2>2 DEF Ref
  <2>4. heap[Ref(f)] \in Instance /\ want[q] \in Content
    BY <1>2 DEF Shape, Typed, References
  <2>5. heap[Ref(f)].data = want[q] /\ (~heap[Ref(f)].modified => File(q) = want[q])
    BY <2>2, KeptParts DEF KeptAt
  <2>6. want'[q] = [want[q] EXCEPT ![k.slot] = k.value]
    BY <1>1, <1>2, <1>5
  <2>7. heap'[Ref(f)] = Marked(Ref(f), k.slot, k.value)
    BY <1>1, <1>5, <2>3
  <2> DEFINE m == heap[Ref(f)].modified \/ heap[Ref(f)].data[k.slot] # k.value
  <2>8. Marked(Ref(f), k.slot, k.value)
          = [heap[Ref(f)] EXCEPT !.data = [heap[Ref(f)].data EXCEPT ![k.slot] = k.value],
                                 !.modified = m]
    BY DEF Marked
  <2>9. heap'[Ref(f)].data = want'[q] /\ heap'[Ref(f)].modified = m
    <3> DEFINE j == heap[Ref(f)]
               d == [j.data EXCEPT ![k.slot] = k.value]
    <3>1. j \in Instance /\ d = want'[q] /\ heap'[Ref(f)] = [j EXCEPT !.data = d, !.modified = m]
      BY <2>4, <2>5, <2>6, <2>7, <2>8
    <3> HIDE DEF j, d, m
    <3> QED
      BY <3>1 DEF Instance
  <2>10. ~m => File(q)' = want'[q]
    <3>1. SUFFICES ASSUME ~m
                   PROVE  File(q)' = want'[q]
      OBVIOUS
    <3>2. want[q] = [s \in Slot |-> want[q][s]] /\ want[q][k.slot] = k.value
      BY <2>4, <2>5, <3>1 DEF Content
    <3>3. want'[q] = want[q]
      BY <1>2, <2>6, <3>2
    <3>4. File(q)' = File(q)
      BY <1>1 DEF File
    <3> QED
      BY <2>5, <3>1, <3>3, <3>4
  <2> HIDE DEF m
  <2>11. KeptAt(q)'
    <3>1. \A e \in Range(cells) : e.pos = q => e = f
      BY <2>2, OneEntry DEF Shape
    <3> QED
      BY <1>1, <2>9, <2>10, <3>1 DEF KeptAt, Ref
  <2>12. Cached(q) # {}
    BY <2>2, CachedEntries
  <2>13. ASSUME NEW d \in Worker
         PROVE  KeptBy(d, q)'
    <3>1. CASE d = c
      BY <1>1, <1>2, <3>1 DEF Calls, KeptBy
    <3>2. CASE d # c
      <4>1. ~Lonely(d, q)
        BY <2>12 DEF Lonely
      <4> QED
        BY <1>1, <3>2, <4>1 DEF InUse, InUseBy, KeptBy, Calls
    <3> QED
      BY <3>1, <3>2
  <2>14. Worker' = Worker
    BY <1>1 DEF Calls, Worker
  <2> QED
    BY <1>3, <2>11, <2>12, <2>13, <2>14 DEF Kept, KeptAt, KeptBy
<1> QED
  BY <1>4, <1>5

\* A step that leaves the cache, the calls and what was set alone.
LEMMA KeptStill ==
    ASSUME NEW q \in Pos, Kept(q), UNCHANGED <<callers, call, cells, want>>,
           File(q)' = File(q), \A e \in Range(cells) : e.pos = q => heap'[Ref(e)] = heap[Ref(e)]
    PROVE  Kept(q)'
<1>1. Worker' = Worker /\ InFlight' = InFlight /\ (Cached(q) = {})' = (Cached(q) = {})
  BY DEF Worker, InFlight, Cached
<1>2. KeptAt(q)'
  BY KeptParts DEF KeptAt, Ref
<1>3. (\A d \in Worker : KeptBy(d, q))'
  BY <1>1, KeptParts DEF KeptBy
<1>4. (Cached(q) = {} /\ q \notin InFlight => File(q) = want[q])'
  BY <1>1, KeptParts
<1> QED
  BY <1>2, <1>3, <1>4 DEF Kept, KeptAt, KeptBy

\* What a save writes is modified, so its file did not count.
LEMMA KeptSaveWrite ==
    ASSUME Shape, NEW q \in Pos, Kept(q), InUse(q), SaveWrite
    PROVE  Kept(q)'
<1> DEFINE f == Head(saving.todo)
<1>1. /\ Saving /\ f \in Range(saving.todo) /\ UNCHANGED <<callers, cells, call, want>>
      /\ \A e \in Range(cells) : heap'[Ref(e)] = heap[Ref(e)]
      /\ stored' \in {stored, [stored EXCEPT ![f.pos] = saving.data]}
  BY SaveWriteStep DEF SaveWrites
<1>2. NeedsWrite(Ref(f)) /\ stored \in [Pos -> Content \cup {Missing}]
  BY <1>1 DEF Shape, Typed, HeadModified
<1>3. CASE q # f.pos
  <2>1. File(q)' = File(q)
    BY <1>1, <1>2, <1>3 DEF File
  <2> QED
    BY <1>1, <2>1, KeptStill
<1>4. CASE q = f.pos
  <2>1. Holds(q, f.id)
    BY <1>1, <1>4 DEF InUse
  <2>2. PICK g \in Range(cells) : g.pos = q /\ g.id = f.id
    BY <2>1 DEF Holds
  <2>3. Ref(g) = Ref(f)
    BY <1>4, <2>2 DEF Ref
  <2>4. \A e \in Range(cells) : e.pos = q => e = g
    BY <2>2, OneEntry DEF Shape
  <2>5. heap'[Ref(g)] = heap[Ref(g)] /\ heap[Ref(g)].modified /\ heap[Ref(g)].data = want[q]
    BY <1>1, <1>2, <2>2, <2>3, KeptParts DEF NeedsWrite, KeptAt
  <2>6. KeptAt(q)'
    BY <1>1, <2>4, <2>5 DEF KeptAt, Ref
  <2>7. (Cached(q) # {})'
    BY <1>1, <2>2 DEF Cached
  <2>8. (\A d \in Worker : KeptBy(d, q))'
    BY <1>1, KeptParts DEF KeptBy, Worker
  <2> QED
    BY <2>6, <2>7, <2>8 DEF Kept, KeptAt, KeptBy
<1> QED
  BY <1>3, <1>4

LEMMA KeptPurge ==
    ASSUME Shape, NEW q \in Pos, Purge
    PROVE  Kept(q)'
<1>1. /\ \A d \in Worker' : call'[d].at = "idle"
      /\ stored' = [p \in Pos |-> Missing] /\ want' = [p \in Pos |-> Fresh] /\ Range(cells') = {}
  BY PurgeStep DEF Worker, Idle
<1>2. (File(q) = want[q])'
  BY <1>1 DEF File
<1> QED
  BY <1>1, <1>2 DEF Kept

\* No step loses what was set in a cell that was not raced and whose file did not fail.
LEMMA KeptNext ==
    ASSUME Shape, \A p \in Pos \ raced : InUse(p), \A p \in Pos \ (raced \cup failed) : Kept(p),
           [Next]_vars
    PROVE  (\A p \in Pos \ (raced \cup failed) : Kept(p))'
<1> SUFFICES ASSUME NEW q \in Pos, q \notin raced', q \notin failed'
             PROVE  Kept(q)'
  OBVIOUS
<1>1. q \notin raced /\ q \notin failed => InUse(q) /\ Kept(q)
  OBVIOUS
<1>2. ASSUME NEW c \in Worker, NEW p \in Pos, NEW s \in Slot, NEW v \in Value \cup {Get},
             Call(c, p, s, v)
      PROVE  Kept(q)'
  BY <1>1, <1>2, KeptCall, CallStep DEF CallHits, CallMisses
<1>3. ASSUME NEW c \in Worker, ReadCell(c)
      PROVE  Kept(q)'
  BY <1>1, <1>3, KeptReadCell DEF ReadCell, ghosts
<1>4. ASSUME NEW c \in Worker, ReadFails(c)
      PROVE  Kept(q)'
  BY <1>1, <1>4, KeptReadFails DEF ReadFails
<1>5. ASSUME NEW c \in Worker, Insert(c)
      PROVE  Kept(q)'
  BY <1>1, <1>5, KeptInsert DEF Insert
<1>6. ASSUME NEW c \in Worker, EvictCell(c)
      PROVE  Kept(q)'
  BY <1>1, <1>6, KeptEvictCell DEF EvictCell
<1>7. ASSUME NEW c \in Worker, Return(c)
      PROVE  Kept(q)'
  BY <1>1, <1>7, KeptReturn, ReturnStep DEF Returns
<1>8. CASE Save
  BY <1>1, <1>8, SaveStep, KeptStill DEF File
<1>9. CASE SaveWrite
  BY <1>1, <1>9, KeptSaveWrite, SaveWriteStep DEF SaveWrites
<1>10. CASE Purge
  BY <1>10, KeptPurge
<1>11. CASE UNCHANGED vars
  <2>1. UNCHANGED <<callers, call, cells, heap, stored, want, raced, failed>>
    BY <1>11 DEF vars, cacheVars, ghosts
  <2> QED
    BY <1>1, <2>1, KeptStill DEF File
<1> QED
  BY <1>2, <1>3, <1>4, <1>5, <1>6, <1>7, <1>8, <1>9, <1>10, <1>11 DEF Next

-----------------------------------------------------------------------------
(* A single worker *)

\* A single worker that is not saving meets nobody.
LEMMA AloneRaces ==
    ASSUME Shape, callers = 1, NEW c \in Worker, ~Saving, NEW p
    PROVE  Races(c, p) = {}
<1>1. Worker \ {c} = {}
  BY DEF Worker
<1>2. Range(saving.todo) = {}
  BY DEF Saving, Range
<1> QED
  BY <1>1, <1>2 DEF Races, UsedBesides

\* What the state says of a save that is under way.
SavesWell ==
    /\ \A c \in Worker : call[c] = Idle
    /\ saving.data = heap[Ref(Head(saving.todo))].data
    /\ \A p \in Pos \ (failed \cup saving.unsaved) : Passed(p)

AllPassed == \A p \in Pos \ (failed \cup saving.unsaved) : Passed(p)

\* A save begins at what is modified.
LEMMA SavePasses ==
    ASSUME Shape, Save
    PROVE  AllPassed'
<1>1. UNCHANGED <<callers, cells, heap, stored, call, want, raced, failed>> /\ GoesOn(cells, {})
  BY SaveStep
<1>2. \A e \in Range(cells') : e \in Range(saving'.todo) \/ ~heap'[Ref(e)].modified
  BY <1>1 DEF GoesOn, NeedsWrite
<1> QED
  BY <1>2 DEF AllPassed, Passed, Ref

\* A write stores what was set, or is known to have failed.
LEMMA WritePasses ==
    ASSUME Shape, \A p \in Pos \ raced : InUse(p), \A p \in Pos \ (raced \cup failed) : Kept(p),
           raced = {}, SavesWell, SaveWrite
    PROVE  AllPassed'
<1> DEFINE f == Head(saving.todo)
<1>1. /\ f \in Range(saving.todo) /\ UNCHANGED <<callers, cells, call, want, failed>>
      /\ \A e \in Range(saving.todo) : e = f \/ e \in Range(Tail(saving.todo))
      /\ \A e \in Range(cells) : heap'[Ref(e)] = heap[Ref(e)]
      /\ \/ /\ stored' = [stored EXCEPT ![f.pos] = saving.data]
            /\ GoesOn(Tail(saving.todo), saving.unsaved)
         \/ /\ UNCHANGED stored
            /\ GoesOn(Tail(saving.todo), saving.unsaved \cup {f.pos})
  BY SaveWriteStep DEF SaveWrites
<1>2. stored \in [Pos -> Content \cup {Missing}] /\ f.pos \in Pos
  BY <1>1 DEF Shape, Typed, Entries, EntryOK
<1>3. saving.unsaved \subseteq saving'.unsaved
  BY <1>1 DEF GoesOn
<1>4. \A e \in Range(Tail(saving.todo)) : e \in Range(saving'.todo) \/ ~heap[Ref(e)].modified
  BY <1>1 DEF GoesOn, NeedsWrite
<1>5. ASSUME NEW p \in Pos, p \notin failed', p \notin saving'.unsaved
      PROVE  Passed(p)'
  <2>1. Passed(p)
    BY <1>1, <1>3, <1>5 DEF SavesWell
  <2>2. CASE p # f.pos
    <3>1. stored'[p] = stored[p]
      BY <1>1, <1>2, <2>2
    <3>2. ASSUME NEW e \in Range(cells), e.pos = p
          PROVE  e \in Range(saving'.todo) \/ ~heap'[Ref(e)].modified \/ stored'[p] = want'[p]
      <4>1. e \in Range(saving.todo) => e \in Range(Tail(saving.todo))
        BY <1>1, <2>2, <3>2
      <4> QED
        BY <1>1, <1>4, <2>1, <3>1, <3>2, <4>1 DEF Passed
    <3> QED
      BY <1>1, <3>2 DEF Passed, Ref
  <2>3. CASE p = f.pos
    <3>1. stored' = [stored EXCEPT ![p] = saving.data]
      <4>1. ~GoesOn(Tail(saving.todo), saving.unsaved \cup {f.pos})
        BY <1>5, <2>3 DEF GoesOn
      <4> QED
        BY <1>1, <2>3, <4>1
    <3>2. InUse(p) /\ Kept(p)
      BY <1>1, <1>5
    <3>3. PICK g \in Range(cells) : g.pos = p /\ g.id = f.id
      BY <1>1, <2>3, <3>2 DEF InUse, Holds
    <3>4. Ref(g) = Ref(f)
      BY <2>3, <3>3 DEF Ref
    <3>5. heap[Ref(g)].data = want[p]
      BY <3>2, <3>3, KeptParts DEF KeptAt
    <3>6. stored'[p] = want'[p]
      BY <1>1, <1>2, <3>1, <3>4, <3>5 DEF SavesWell
    <3> QED
      BY <3>6 DEF Passed
  <2> QED
    BY <2>2, <2>3
<1> QED
  BY <1>5 DEF AllPassed

LEMMA SoloParts ==
    SoloInv <=> (callers = 1 => raced = {} /\ (Saving => SavesWell))
BY DEF SoloInv, SavesWell

\* A save of a single worker's cells that goes on.
LEMMA SoloSaves ==
    ASSUME Shape, SoloInv, CellInv, Save \/ SaveWrite, callers = 1
    PROVE  /\ AllPassed' /\ raced' = {} /\ \A c \in Worker : call'[c] = Idle
           /\ UNCHANGED <<callers, cells, call, want, raced, failed>>
           /\ Saving' => SavesWell'
<1>1. /\ UNCHANGED <<callers, cells, call, want, raced, failed>> /\ raced = {}
      /\ \A c \in Worker : call[c] = Idle
      /\ AllPassed'
  <2>1. CASE Save
    BY <2>1, SaveStep, SavePasses, SoloParts
  <2>2. CASE SaveWrite
    <3>1. SavesWell /\ raced = {}
      BY <2>2, SoloParts DEF SaveWrite
    <3>2. AllPassed'
      BY <2>2, <3>1, WritePasses DEF CellInv
    <3> QED
      BY <2>2, <3>1, <3>2, SaveWriteStep DEF SaveWrites, SavesWell
  <2> QED
    BY <2>1, <2>2
<1>2. Saving' => saving'.data = heap'[Ref(Head(saving'.todo))].data
  <2>1. CASE Save
    BY <2>1, SaveStep DEF GoesOn, Saving
  <2>2. CASE SaveWrite
    <3>1. /\ \A e \in Range(saving'.todo) : heap'[Ref(e)] = heap[Ref(e)]
          /\ saving'.todo \in Seq(Range(saving'.todo))
          /\ saving'.todo # << >> => saving'.data = heap[Ref(Head(saving'.todo))].data
      BY <2>2, SaveWriteStep DEF SaveWrites, GoesOn
    <3>2. saving'.todo # << >> => Head(saving'.todo) \in Range(saving'.todo)
      BY <3>1, Elements
    <3> QED
      BY <3>1, <3>2 DEF Saving
  <2> QED
    BY <2>1, <2>2
<1>3. Worker' = Worker
  BY <1>1 DEF Worker
<1> QED
  BY <1>1, <1>2, <1>3 DEF SavesWell, AllPassed, Ref

\* A single worker that is at a call is not saving, and meets nobody.
LEMMA SoloNext ==
    ASSUME CellInv, SoloInv, [Next]_vars
    PROVE  SoloInv'
<1> SUFFICES ASSUME callers' = 1
             PROVE  raced' = {} /\ (Saving' => SavesWell')
  BY SoloParts DEF SoloInv, SavesWell
<1>1. callers = 1 /\ raced = {} /\ (Saving => SavesWell) /\ Shape
  <2>1. callers' = callers
    BY DEF Next, Call, ReadCell, ReadFails, Insert, EvictCell, Return, Save, SaveWrite, Purge, vars
  <2> QED
    BY <2>1, SoloParts DEF CellInv
<1>2. ASSUME NEW c \in Worker, NEW p \in Pos, NEW s \in Slot, NEW v \in Value \cup {Get},
             Call(c, p, s, v)
      PROVE  raced' = {} /\ ~Saving'
  <2>1. ~Saving /\ saving' = saving /\ raced' \in {raced, raced \cup Races(c, p)}
    BY <1>1, <1>2, CallStep DEF CallHits, CallMisses
  <2> QED
    BY <1>1, <2>1, AloneRaces DEF Saving
<1>3. ASSUME NEW c \in Worker, call[c] # Idle, saving' = saving,
             \A p \in raced' : p \in raced \/ \E q : p \in Races(c, q)
      PROVE  raced' = {} /\ ~Saving'
  <2>1. ~Saving
    BY <1>1, <1>3 DEF SavesWell
  <2> QED
    BY <1>1, <1>3, <2>1, AloneRaces DEF Saving
<1>4. ASSUME NEW c \in Worker, ReadCell(c) \/ ReadFails(c) \/ EvictCell(c) \/ Return(c)
      PROVE  raced' = {} /\ ~Saving'
  <2>1. call[c] # Idle /\ saving' = saving /\ raced' = raced
    BY <1>1, <1>4 DEF ReadCell, ReadFails, EvictCell, Return, Idle, ghosts
  <2> QED
    BY <1>3, <2>1
<1>5. ASSUME NEW c \in Worker, Insert(c)
      PROVE  raced' = {} /\ ~Saving'
  <2>1. call[c] # Idle /\ saving' = saving
    BY <1>5 DEF Insert, Idle
  <2>2. \A p \in raced' : p \in raced \/ \E q : p \in Races(c, q)
    BY <1>5 DEF Insert
  <2> QED
    BY <1>3, <2>1, <2>2
<1>6. CASE Save \/ SaveWrite
  BY <1>1, <1>6, SoloSaves
<1>7. CASE Purge
  BY <1>1, <1>7, PurgeStep DEF Saving
<1>8. CASE UNCHANGED vars
  <2>1. UNCHANGED <<callers, call, cells, heap, stored, saving, want, raced, failed>>
    BY <1>8 DEF vars, cacheVars, ghosts
  <2> QED
    BY <1>1, <2>1 DEF Saving, SavesWell, Passed, Ref, Worker
<1> QED
  BY <1>2, <1>4, <1>5, <1>6, <1>7, <1>8 DEF Next

-----------------------------------------------------------------------------
(* Theorems *)

LEMMA CellInvInit ==
    ASSUME Init
    PROVE  CellInv /\ SoloInv
<1>1. Shape
  BY ShapeInit
<1>2. Range(<< >>) = {}
  BY DEF Range
<1>3. /\ cells = << >> /\ saving.todo = << >> /\ raced = {} /\ failed = {}
      /\ stored = [p \in Pos |-> Missing] /\ want = [p \in Pos |-> Fresh]
      /\ \A c \in Worker : call[c].at = "idle"
  BY DEF Init, Idle
<1>4. ASSUME NEW p \in Pos
      PROVE  InUse(p) /\ Kept(p)
  <2>1. File(p) = want[p]
    BY <1>3 DEF File
  <2> QED
    BY <1>2, <1>3, <2>1 DEF InUse, InUseBy, Kept
<1>5. SoloInv
  BY <1>3 DEF SoloInv, Saving
<1> QED
  BY <1>1, <1>4, <1>5 DEF CellInv

\* The inductive invariant: the shape of the state, who works on which cell, where what was
\* set is kept, and what a single worker's save has passed.
THEOREM CellInvariant == Spec => [](CellInv /\ SoloInv)
<1>1. Init => CellInv /\ SoloInv
  BY CellInvInit
<1>2. CellInv /\ SoloInv /\ [Next]_vars => (CellInv /\ SoloInv)'
  <2> SUFFICES ASSUME CellInv, SoloInv, [Next]_vars
               PROVE  (CellInv /\ SoloInv)'
    OBVIOUS
  <2>1. Shape'
    BY ShapeNext DEF CellInv
  <2>2. (\A p \in Pos \ raced : InUse(p))'
    BY InUseNext DEF CellInv
  <2>3. (\A p \in Pos \ (raced \cup failed) : Kept(p))'
    BY KeptNext DEF CellInv
  <2>4. SoloInv'
    BY SoloNext
  <2> QED
    BY <2>1, <2>2, <2>3, <2>4 DEF CellInv
<1> QED
  BY <1>1, <1>2, PTL DEF Spec

\* The cache keeps to its size with one cell for a position, and nobody is left with
\* an instance that is gone, for any number of workers, saves and errors.
THEOREM TypeCorrect == Spec => []TypeOK
<1>1. CellInv => TypeOK
  <2> SUFFICES ASSUME CellInv
               PROVE  TypeOK
    OBVIOUS
  <2>1. Shape
    BY DEF CellInv
  <2>2. /\ Len(cells) <= CacheSize
        /\ \A i, j \in DOMAIN cells : cells[i].pos = cells[j].pos => i = j
    BY <2>1 DEF Shape, Entries
  <2>3. /\ \A e \in Range(cells) \cup Range(saving.todo) : <<e.pos, e.id>> \in DOMAIN heap
        /\ \A c \in Worker :
              call[c].at \in {"evict", "return"} => <<call[c].pos, call[c].id>> \in DOMAIN heap
    BY <2>1 DEF Shape, References, Ref
  <2>4. /\ heap \in [DOMAIN heap -> [data : Content, modified : BOOLEAN]]
        /\ stored \in [Pos -> Content \cup {Missing}]
        /\ want \in [Pos -> Content]
        /\ raced \cup failed \cup saving.unsaved \subseteq Pos
    BY <2>1 DEF Shape, Typed, Instance
  <2> QED
    BY <2>2, <2>3, <2>4 DEF TypeOK
<1> QED
  BY <1>1, CellInvariant, PTL

\* What was set in a cell is found again, in the cache or in its file, unless the cell
\* was loaded or evicted while somebody else worked on it, or its file failed.
THEOREM OnlyRacedCellsLoseAlways == Spec => []OnlyRacedCellsLose
<1>1. CellInv => OnlyRacedCellsLose
  <2> SUFFICES ASSUME CellInv, NEW p \in Pos, p \notin raced, p \notin failed, p \notin InFlight
               PROVE  Shown(p) = want[p]
    BY DEF OnlyRacedCellsLose
  <2>1. Kept(p)
    BY DEF CellInv
  <2>2. CASE Cached(p) = {}
    BY <2>1, <2>2 DEF Kept, Shown, File
  <2>3. CASE Cached(p) # {}
    <3> DEFINE id == CHOOSE i \in Cached(p) : TRUE
    <3>1. id \in Cached(p)
      BY <2>3
    <3> HIDE DEF id
    <3>2. PICK e \in Range(cells) : e.pos = p /\ e.id = id
      BY <3>1 DEF Cached
    <3>3. heap[<<p, id>>].data = want[p]
      BY <2>1, <3>2 DEF Kept, Ref
    <3> QED
      BY <2>3, <3>3 DEF Shown, id
  <2> QED
    BY <2>2, <2>3
<1> QED
  BY <1>1, CellInvariant, PTL

\* When a save of a single worker's cells ends, the files hold everything that was
\* set, but for cells whose file failed: what was evicted unmarked or written before,
\* and what the save wrote.
THEOREM SavedIsStoredAlways == Spec => SavedIsStored
<1> DEFINE Stored == callers = 1 /\ SaveEnds =>
               \A p \in Pos \ (failed \cup saving'.unsaved) :
                   File(p)' = want[p]
<1>1. CellInv /\ SoloInv /\ (CellInv /\ SoloInv)' /\ [Next]_vars => [Stored]_vars
  <2> SUFFICES ASSUME CellInv, SoloInv, CellInv', [Next]_vars, callers = 1, SaveEnds,
                      NEW p \in Pos, p \notin failed, p \notin saving'.unsaved
               PROVE  File(p)' = want[p]
    OBVIOUS
  <2>1. Save \/ SaveWrite
    <3>1. saving' # saving \/ saves' # saves
      BY DEF SaveEnds, Saving
    <3>2. ASSUME NEW c \in Worker, NEW q \in Pos, NEW s \in Slot, NEW v \in Value \cup {Get},
                 Call(c, q, s, v)
          PROVE  saving' = saving /\ saves' = saves
      BY <3>2 DEF Call
    <3>3. ASSUME NEW c \in Worker,
                 ReadCell(c) \/ ReadFails(c) \/ Insert(c) \/ EvictCell(c) \/ Return(c)
          PROVE  saving' = saving /\ saves' = saves
      BY <3>3 DEF ReadCell, ReadFails, Insert, EvictCell, Return, bounds
    <3>4. Purge \/ UNCHANGED vars => saving' = saving /\ saves' = saves
      BY DEF Purge, vars, bounds
    <3> QED
      BY <3>1, <3>2, <3>3, <3>4 DEF Next
  <2>2. /\ AllPassed' /\ raced' = {} /\ \A c \in Worker : call'[c] = Idle
        /\ UNCHANGED <<callers, cells, want, failed>>
    BY <2>1, SoloSaves DEF CellInv
  <2>3. Kept(p)' /\ Passed(p)'
    BY <2>2 DEF CellInv, AllPassed
  <2>4. saving'.todo = << >> /\ Range(<< >>) = {}
    BY DEF SaveEnds, Range
  <2>5. stored'[p] = want'[p] => (File(p) = want[p])'
    <3>1. want'[p] \in Content
      BY DEF CellInv, Shape, Typed
    <3> QED
      BY <3>1, FileHolds DEF File
  <2>6. CASE (Cached(p) = {})'
    <3>1. (p \notin InFlight)'
      BY <2>2 DEF InFlight, Idle, Worker
    <3> QED
      BY <2>2, <2>3, <2>6, <3>1, KeptParts DEF Kept
  <2>7. CASE (Cached(p) # {})'
    <3>1. PICK e \in Range(cells') : e.pos = p
      BY <2>7 DEF Cached
    <3>2. ~heap'[Ref(e)].modified \/ stored'[p] = want'[p]
      BY <2>3, <2>4, <3>1 DEF Passed, Ref
    <3>3. ~heap'[Ref(e)].modified => (File(p) = want[p])'
      BY <2>3, <3>1 DEF Kept, Ref
    <3> QED
      BY <2>2, <2>5, <3>2, <3>3
  <2> QED
    BY <2>6, <2>7
<1> QED
  BY <1>1, CellInvariant, PTL DEF Spec, SavedIsStored

=============================================================================
