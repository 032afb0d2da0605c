----------------------- MODULE LowresOneWorkerProofs ------------------------
(***************************************************************************)
(* Proofs about Lowres with one worker, whose saves no render overlaps, for  *)
(* any tiles, grid, factor, layers, cells and bounds. Nothing is claimed     *)
(* once a read failed or a save gave its changes up (dropped).               *)
(*                                                                           *)
(* The argument. While the only worker saves, nothing is queued or written   *)
(* (Alone), so that only one thread has calls at a time. Then a tile has one *)
(* instance wherever it is, pending, cached or held by a set (Single), and   *)
(* an instance without changes shows what is stored (Clean). A save that     *)
(* walks over its changes finds each of them as it was when the walk began,  *)
(* because whatever is called on top of it is of a later layer (Saving).     *)
(*                                                                           *)
(* Over this, what the tiles show (Holds) stays the same from step to step,  *)
(* but for the pixel a set writes (Kept, Painted). The first layer shows     *)
(* what was written, but for what a set has yet to write (WantedIn); the     *)
(* next layer shows what is stored, averaged, but for the groups a save has  *)
(* yet to bring there (AveragedIn), and each set in a later layer brings     *)
(* what the save below it cascades (CascadedIn). The layers before the one a *)
(* save comes to next have no changes but those it is saving (SavedTo). What *)
(* is given up follows an error: a save without one has no changes left when *)
(* it ends (GaveUp).                                                         *)
(***************************************************************************)
EXTENDS LowresProofs

-----------------------------------------------------------------------------
(* With one worker: the calls of one thread at a time, and one instance of a tile *)

\* The instances of the tile at p of layer l: with changes q, cache k and calls F.
IdsIn(q, l, p) == {c.id : c \in {d \in Range(q[l]) : d.pos = p}}
IdsOf(F, l, p) == {f.id : f \in {g \in F : Sets(g) /\ g.lod = l /\ Head(g.todo).pos = p}}
Ids(q, k, F, l, p) == IdsIn(q, l, p) \cup (({k[l][p]} \cup IdsOf(F, l, p)) \ {0})
FileOf(s, l, p) == IF s[l][p] = Missing THEN Blank ELSE s[l][p]
TileId(f, c) == <<f.lod, c.pos, c.id>>

Single(q, k, F) == \A l \in Lod, p \in Pos : \A i, j \in Ids(q, k, F, l, p) : i = j

\* An instance without changes shows what is stored.
Clean(q, k, h, s, F) ==
    \A l \in Lod, p \in Pos : IdsIn(q, l, p) = {} =>
        \A i \in Ids(q, k, F, l, p) : h[<<l, p, i>>] = FileOf(s, l, p)

\* What a save has left to do is pending, and all that is if no write failed; what it
\* writes, or has written, is what the tile shows.
Saving(q, h, s, e, f) ==
    /\ Range(f.todo) \subseteq Range(q[f.lod]) /\ OnePos(f.todo)
    /\ e = 0 => Range(q[f.lod]) \subseteq Range(f.todo)
    /\ f.at = "write" => f.data = h[TileId(f, Head(f.todo))]
    /\ f.at = "cascade" => s[f.lod][Head(f.todo).pos] = h[TileId(f, Head(f.todo))]

\* The pixel that is written is of the tile with changes; a tile that is loaded is
\* nowhere else.
Setting(q, k, s, F, f) ==
    /\ f.at = "pixel" => f.id \in IdsIn(q, f.lod, Head(f.todo).pos)
    /\ f.at = "load" => /\ Ids(q, k, F, f.lod, Head(f.todo).pos) = {}
                        /\ f.data = FileOf(s, f.lod, Head(f.todo).pos)

Core(q, k, h, s, e, F) ==
    /\ Single(q, k, F) /\ Clean(q, k, h, s, F)
    /\ \A f \in F : Saves(f) => Saving(q, h, s, e, f)
    /\ \A f \in F : Sets(f) => Setting(q, k, s, F, f)

\* The pixel of the tile at p of layer l shows v.
Holds(q, h, s, l, p, px, v) ==
    /\ \A i \in IdsIn(q, l, p) : h[<<l, p, i>>][px] = v
    /\ IdsIn(q, l, p) = {} => FileOf(s, l, p)[px] = v
Exists(q, s, l, p) == IdsIn(q, l, p) # {} \/ s[l][p] # Missing

\* From one state of the tiles to another the tile at p of layer l shows the same.
Same(q, h, s, q2, h2, s2, l, p) ==
    /\ \A px \in Pixel : \A v : Holds(q, h, s, l, p, px, v) => Holds(q2, h2, s2, l, p, px, v)
    /\ Exists(q, s, l, p) => Exists(q2, s2, l, p)
Kept(q, h, s, q2, h2, s2) == \A l \in Lod, p \in Pos : Same(q, h, s, q2, h2, s2, l, p)

\* The changes of a layer whose changes stay have the same instances.
LEMMA IdsInSame ==
    ASSUME NEW q, NEW r, NEW l, NEW p, r[l] = q[l]
    PROVE  IdsIn(r, l, p) = IdsIn(q, l, p)
BY DEF IdsIn

LEMMA InIds ==
    ASSUME NEW q, NEW l, NEW p, NEW i
    PROVE  i \in IdsIn(q, l, p) <=> \E c \in Range(q[l]) : c.pos = p /\ c.id = i
BY DEF IdsIn

LEMMA SubOne == ASSUME NEW S, NEW x, S \subseteq {x} PROVE S = {x} \/ S = {}
OBVIOUS

LEMMA IdsInOne ==
    ASSUME NEW q, NEW l, NEW p, NEW id, [pos |-> p, id |-> id] \in Range(q[l]),
           \A d \in Range(q[l]) : d.pos = p => d = [pos |-> p, id |-> id]
    PROVE  IdsIn(q, l, p) = {id}
<1>1. \A i : i \in IdsIn(q, l, p) => i = id
  <2> SUFFICES ASSUME NEW i \in IdsIn(q, l, p) PROVE i = id
    OBVIOUS
  <2>1. PICK c \in Range(q[l]) : c.pos = p /\ c.id = i
    BY InIds
  <2>2. c = [pos |-> p, id |-> id]
    BY <2>1
  <2> QED
    BY <2>1, <2>2
<1>2. id \in IdsIn(q, l, p)
  BY InIds
<1> QED
  BY <1>1, <1>2

\* What a change does to the instances with changes.
LEMMA IdsInChanged ==
    ASSUME NEW l \in Lod, NEW p \in Pos, NEW id, id \in Nat \ {0}, PendingOK(pending),
           NEW r, r[l] = Changed(l, p, id), \A m \in Lod : m # l => r[m] = pending[m]
    PROVE  /\ IdsIn(r, l, p) = {id}
           /\ \A m \in Lod, x \in Pos : <<m, x>> # <<l, p>> => IdsIn(r, m, x) = IdsIn(pending, m, x)
<1>1. ChangedTo(pending[l], Changed(l, p, id), p, id)
  BY Change
<1>2. Range(r[l]) = {[pos |-> p, id |-> id]} \cup {d \in Range(pending[l]) : d.pos # p}
  BY <1>1 DEF ChangedTo
<1>3. IdsIn(r, l, p) = {id}
  <2>1. \A d \in Range(r[l]) : d.pos = p => d = [pos |-> p, id |-> id]
    BY <1>2
  <2>2. [pos |-> p, id |-> id] \in Range(r[l])
    BY <1>2
  <2> QED
    BY <2>1, <2>2, IdsInOne
<1>4. ASSUME NEW x \in Pos, x # p
      PROVE  IdsIn(r, l, x) = IdsIn(pending, l, x)
  <2>1. {d \in Range(r[l]) : d.pos = x} = {d \in Range(pending[l]) : d.pos = x}
    BY <1>2, <1>4
  <2> QED
    BY <2>1 DEF IdsIn
<1>5. \A m \in Lod, x \in Pos : m # l => IdsIn(r, m, x) = IdsIn(pending, m, x)
  BY DEF IdsIn
<1> QED
  BY <1>3, <1>4, <1>5

\* The instances there are.
LEMMA IdsAre ==
    ASSUME PendingOK(pending), NEW l \in Lod, NEW p \in Pos, PendingIn(pending, DOMAIN heap)
    PROVE  \A i \in IdsIn(pending, l, p) : i \in Nat \ {0} /\ <<l, p, i>> \in DOMAIN heap
<1>1. pending[l] \in Seq(PendingChange)
  BY DEF PendingOK
<1>2. Range(pending[l]) \subseteq PendingChange
  <2> DEFINE s == pending[l]
  <2>1. s \in Seq(PendingChange)
    BY <1>1
  <2> HIDE DEF s
  <2>2. Range(s) \subseteq PendingChange
    BY <2>1, Elements
  <2> QED
    BY <2>2 DEF s
<1> QED
  BY <1>2 DEF IdsIn, PendingIn, PendingChange

\* The instances are tiles there are.
LEMMA IdsThere ==
    ASSUME NEW q, NEW k, NEW F, NEW D, PendingIn(q, D), CacheIn(k, D), CallsIn(F, D),
           \A f \in F : CallOK(f), NEW l \in Lod, NEW p \in Pos
    PROVE  /\ \A i \in IdsIn(q, l, p) : <<l, p, i>> \in D
           /\ \A i \in Ids(q, k, F, l, p) : <<l, p, i>> \in D
<1>1. ASSUME NEW i \in IdsIn(q, l, p)
      PROVE  <<l, p, i>> \in D
  BY <1>1 DEF IdsIn, PendingIn
<1>2. ASSUME NEW i \in Ids(q, k, F, l, p)
      PROVE  <<l, p, i>> \in D
  <2>1. CASE i \in IdsIn(q, l, p)
    BY <1>1, <2>1
  <2>2. CASE i = k[l][p] /\ i # 0
    BY <2>2 DEF CacheIn
  <2>3. CASE i \in IdsOf(F, l, p) /\ i # 0
    <3>1. PICK f \in F : Sets(f) /\ f.lod = l /\ Head(f.todo).pos = p /\ f.id = i
      BY <2>3 DEF IdsOf
    <3>2. Held(f) = {<<l, p, i>>}
      BY <2>3, <3>1, HeldBySet
    <3> QED
      BY <3>1, <3>2 DEF CallsIn
  <2> QED
    BY <1>2, <2>1, <2>2, <2>3 DEF Ids
<1> QED
  BY <1>1, <1>2

\* Tiles that agree on what is referred to show the same.
LEMMA TilesAgree ==
    ASSUME NEW q, NEW k, NEW h, NEW h2, NEW D, NEW s, NEW e, NEW F, Core(q, k, h, s, e, F),
           PendingIn(q, D), CacheIn(k, D), CallsIn(F, D),
           \A f \in F : CallOK(f), \A i \in D : h2[i] = h[i]
    PROVE  Core(q, k, h2, s, e, F) /\ Kept(q, h, s, q, h2, s)
<1>1. \A l \in Lod, p \in Pos : /\ \A i \in IdsIn(q, l, p) : <<l, p, i>> \in D
                               /\ \A i \in Ids(q, k, F, l, p) : <<l, p, i>> \in D
  BY IdsThere
<1>3. Clean(q, k, h2, s, F)
  BY <1>1 DEF Core, Clean
<1>4. ASSUME NEW f \in F, Saves(f)
      PROVE  Saving(q, h2, s, e, f)
  <2>1. Head(f.todo) \in Range(f.todo)
    BY <1>4, HeadOfSave
  <2>2. TileId(f, Head(f.todo)) \in D
    BY <1>4, <2>1, HeldBySave DEF CallsIn, TileId
  <2> QED
    BY <1>4, <2>2 DEF Core, Saving
<1>5. Kept(q, h, s, q, h2, s)
  BY <1>1 DEF Kept, Same, Holds
<1> QED
  BY <1>3, <1>4, <1>5 DEF Core

\* One state of the tiles after another.
LEMMA KeptOn ==
    ASSUME NEW q, NEW h, NEW s, NEW q2, NEW h2, NEW s2, NEW q3, NEW h3, NEW s3,
           Kept(q, h, s, q2, h2, s2), Kept(q2, h2, s2, q3, h3, s3)
    PROVE  Kept(q, h, s, q3, h3, s3)
BY DEF Kept, Same

\* To the calls B one is added that follows call, and maybe a save of its layer.
Adds(call, B, F) ==
    \E g \in F :
        /\ Follows(call, g) /\ B \subseteq F
        /\ \A f \in F : f \in B \/ f = g \/ (Saves(f) /\ f.at = "write" /\ f.lod = call.lod)

\* The calls below one that is of a later layer.
Under(B, l) == \A g \in B : CallOK(g) /\ g.lod < l /\ g.at \in {"full", "cascade"}

\* The calls of t after a step, with the tiles h, the cache k and what is stored s.
Cored(t, call, B, k, h, s, e) ==
    \E st :
        /\ Becomes(t, st) /\ Adds(call, B, Range(st))
        /\ Core(pending', k, h, s, e, Range(st)) /\ Kept(pending, h, s, pending', h, s)
        /\ \A m \in Lod : m # call.lod => pending'[m] = pending[m]

\* The instances held by the calls: the added one holds a tile of its layer.
LEMMA IdsOfAdded ==
    ASSUME NEW B, NEW l \in Nat, Under(B, l), NEW g, Sets(g), g.lod = l, NEW F, g \in F, B \subseteq F,
           \A f \in F : f \in B \/ f = g \/ Saves(f)
    PROVE  /\ IdsOf(F, l, Head(g.todo).pos) = {g.id}
           /\ \A x : \A m \in Nat : m # l \/ x # Head(g.todo).pos => IdsOf(F, m, x) = IdsOf(B, m, x)
           /\ \A x : IdsOf(B, l, x) = {}
<1>1. \A f \in B : f.lod # l
  <2> SUFFICES ASSUME NEW f \in B PROVE f.lod # l
    OBVIOUS
  <2>1. f.lod < l /\ f.lod \in Nat
    BY DEF Under, CallOK, Lod
  <2> QED
    BY <2>1
<1>2. \A f \in F : Sets(f) => f \in B \/ f = g
  BY Kinds
<1>3. IdsOf(F, l, Head(g.todo).pos) = {g.id}
  <2>1. {f \in F : Sets(f) /\ f.lod = l /\ Head(f.todo).pos = Head(g.todo).pos} = {g}
    BY <1>1, <1>2
  <2> QED
    BY <2>1 DEF IdsOf
<1>4. ASSUME NEW m \in Nat, NEW x, m # l \/ x # Head(g.todo).pos
      PROVE  IdsOf(F, m, x) = IdsOf(B, m, x)
  <2>1. {f \in F : Sets(f) /\ f.lod = m /\ Head(f.todo).pos = x}
        = {f \in B : Sets(f) /\ f.lod = m /\ Head(f.todo).pos = x}
    BY <1>2, <1>4
  <2> QED
    BY <2>1 DEF IdsOf
<1>5. \A x : IdsOf(B, l, x) = {}
  BY <1>1 DEF IdsOf
<1> QED
  BY <1>3, <1>4, <1>5

LEMMA JoinsCore ==
    ASSUME Typed, References, NEW t, NEW call, NEW id \in Nat \ {0}, NEW below,
           NEW k, NEW h, NEW s, CallOK(call), Sets(call), TilesOK(h),
           Under(Range(below), call.lod),
           Core(pending, k, h, s, errors, Range(below)),
           Ids(pending, k, {}, call.lod, Head(call.todo).pos) \subseteq {id},
           IdsIn(pending, call.lod, Head(call.todo).pos) = {} =>
                h[<<call.lod, Head(call.todo).pos, id>>] = FileOf(s, call.lod, Head(call.todo).pos),
           Joins(t, call, id, below, h)
    PROVE  Cored(t, call, Range(below), k, h, s, errors)
<1> DEFINE l == call.lod
           p == Head(call.todo).pos
           B == Range(below)
           q == pending'
<1>1. l \in Lod /\ p \in Pos /\ l \in Nat
  BY HeadOfSet DEF CallOK, Lod
<1>2. PendingOK(pending) /\ PendingIn(pending, DOMAIN heap)
  BY DEF Typed, References
<1>3. PICK g, st :
        /\ Follows(call, g) /\ g.id = id
        /\ Becomes(t, st)
        /\ \/ /\ g.at = "full" /\ pending[l] # << >>
              /\ Range(st) = {SaveCall(h, l), g} \cup B
              /\ pending' = pending
           \/ /\ g.at = "pixel"
              /\ Range(st) = {g} \cup B
              /\ pending' = [pending EXCEPT ![l] = Changed(l, p, id)]
  BY DEF Joins
<1> DEFINE F == Range(st)
<1>4. Sets(g) /\ CallOK(g) /\ g.lod = l /\ g.todo = call.todo /\ Head(g.todo).pos = p
  BY <1>3 DEF Follows
<1>5. g.at = "full" =>
        /\ CallOK(SaveCall(h, l)) /\ Saves(SaveCall(h, l)) /\ SaveCall(h, l).at = "write"
        /\ SaveCall(h, l).lod = l /\ SaveCall(h, l).todo = pending[l]
        /\ SaveCall(h, l).data = h[TileId(SaveCall(h, l), Head(pending[l]))]
  <2> SUFFICES ASSUME g.at = "full" PROVE <1>5!2
    OBVIOUS
  <2>1. pending[l] # << >>
    BY <1>3
  <2> DEFINE f == SaveCall(h, l)
  <2>2. /\ CallOK(f) /\ Saves(f) /\ f.at = "write" /\ f.lod = l /\ f.todo = pending[l]
        /\ f.data = Encoded(h, l, Head(pending[l]))
    BY <1>1, <1>2, <2>1, SaveCallOK
  <2> HIDE DEF f
  <2>3. f.data = h[TileId(f, Head(pending[l]))]
    BY <2>2 DEF Encoded, TileId
  <2> QED
    BY <2>2, <2>3 DEF f
<1>6. Adds(call, B, F)
  BY <1>3, <1>5 DEF Adds
<1>7. /\ IdsOf(F, l, p) = {id} /\ IdsOf(B, l, p) = {}
      /\ \A m \in Lod, x \in Pos : <<m, x>> # <<l, p>> => IdsOf(F, m, x) = IdsOf(B, m, x)
  <2>1. g \in F /\ B \subseteq F /\ \A f \in F : f \in B \/ f = g \/ Saves(f)
    BY <1>3, <1>5
  <2>3. Under(B, l)
    OBVIOUS
  <2> HIDE DEF B, F, l, p
  <2>4. /\ IdsOf(F, l, Head(g.todo).pos) = {g.id}
        /\ \A x : \A m \in Nat : m # l \/ x # Head(g.todo).pos => IdsOf(F, m, x) = IdsOf(B, m, x)
        /\ \A x : IdsOf(B, l, x) = {}
    BY <1>1, <1>4, <2>1, <2>3, IdsOfAdded
  <2>2. /\ IdsOf(F, l, p) = {id}
        /\ \A x : \A m \in Nat : m # l \/ x # p => IdsOf(F, m, x) = IdsOf(B, m, x)
        /\ \A x : IdsOf(B, l, x) = {}
    BY <1>3, <1>4, <2>4
  <2> QED
    BY <2>2 DEF Lod
<1> HIDE DEF q
<1>8. /\ Ids(pending, k, {}, l, p) = IdsIn(pending, l, p) \cup ({k[l][p]} \ {0})
      /\ IdsIn(pending, l, p) \subseteq {id} /\ {k[l][p]} \ {0} \subseteq {id}
  <2>1. IdsOf({}, l, p) = {}
    BY DEF IdsOf
  <2> QED
    BY <2>1 DEF Ids
<1>9. /\ \A m \in Lod, x \in Pos : <<m, x>> # <<l, p>> => IdsIn(q, m, x) = IdsIn(pending, m, x)
      /\ \A m \in Lod : m # l => q[m] = pending[m]
      /\ IdsIn(q, l, p) \subseteq {id}
      /\ g.at = "pixel" => IdsIn(q, l, p) = {id}
      /\ g.at = "full" => q = pending
  <2>1. CASE g.at = "full"
    BY <1>3, <1>8, <2>1 DEF q
  <2>2. CASE g.at = "pixel"
    <3>0. q = [pending EXCEPT ![l] = Changed(l, p, id)]
      BY <1>3, <2>2 DEF q
    <3> HIDE DEF l, p
    <3>1. q[l] = Changed(l, p, id) /\ \A m \in Lod : m # l => q[m] = pending[m]
      BY <1>1, <1>2, <3>0 DEF PendingOK
    <3>2. /\ IdsIn(q, l, p) = {id}
          /\ \A m \in Lod, x \in Pos : <<m, x>> # <<l, p>> => IdsIn(q, m, x) = IdsIn(pending, m, x)
          /\ \A m \in Lod : m # l => q[m] = pending[m]
      BY <1>1, <1>2, <3>1, IdsInChanged
    <3> QED
      BY <2>2, <3>2
  <2> QED
    BY <1>3, <2>1, <2>2
<1> HIDE DEF B, F
<1>10. \A m \in Lod, x \in Pos : <<m, x>> # <<l, p>> => Ids(q, k, F, m, x) = Ids(pending, k, B, m, x)
  BY <1>7, <1>9 DEF Ids
<1>11. Ids(q, k, F, l, p) \subseteq {id}
  BY <1>7, <1>8, <1>9 DEF Ids
<1>12. Single(q, k, F)
  BY <1>10, <1>11 DEF Single, Core, B
<1>13. Clean(q, k, h, s, F)
  <2> SUFFICES ASSUME NEW m \in Lod, NEW x \in Pos, IdsIn(q, m, x) = {},
                      NEW i \in Ids(q, k, F, m, x)
               PROVE  h[<<m, x, i>>] = FileOf(s, m, x)
    BY DEF Clean
  <2>1. CASE <<m, x>> = <<l, p>>
    <3>1. g.at = "full" /\ q = pending
      BY <1>3, <1>9, <2>1
    <3>2. i = id
      BY <1>11, <2>1
    <3> QED
      BY <2>1, <3>1, <3>2
  <2>2. CASE <<m, x>> # <<l, p>>
    BY <1>9, <1>10, <2>2 DEF Core, Clean, B
  <2> QED
    BY <2>1, <2>2
<1>14. ASSUME NEW f \in F, Saves(f) PROVE Saving(q, h, s, errors, f)
  <2>0. f \in B \/ (g.at = "full" /\ f = SaveCall(h, l))
    BY <1>3, <1>4, <1>14, Kinds DEF F, B
  <2>1. CASE f \in B
    <3>1. f.lod \in Lod /\ f.lod # l
      BY <1>1, <2>1 DEF Under, CallOK, B, Lod
    <3>2. Saving(pending, h, s, errors, f)
      BY <1>14, <2>1 DEF Core, B
    <3> QED
      BY <1>9, <3>1, <3>2 DEF Saving
  <2>2. CASE g.at = "full" /\ f = SaveCall(h, l)
    <3>1. q = pending /\ OnePos(pending[l])
      BY <1>1, <1>2, <1>9, <2>2 DEF PendingOK
    <3> HIDE DEF l
    <3> QED
      BY <1>5, <2>2, <3>1 DEF Saving
  <2> QED
    BY <2>0, <2>1, <2>2
<1>15. ASSUME NEW f \in F, Sets(f) PROVE Setting(q, k, s, F, f)
  <2>0. f \in B \/ f = g
    BY <1>3, <1>5, <1>15, Kinds DEF F, B
  <2>1. CASE f \in B
    BY <2>1 DEF Setting, Under, B
  <2>2. CASE f = g
    BY <1>3, <1>4, <1>9, <2>2 DEF Setting
  <2> QED
    BY <2>0, <2>1, <2>2
<1>16. Core(q, k, h, s, errors, F)
  BY <1>12, <1>13, <1>14, <1>15 DEF Core
<1>17. Kept(pending, h, s, q, h, s)
  <2> SUFFICES ASSUME NEW m \in Lod, NEW x \in Pos PROVE Same(pending, h, s, q, h, s, m, x)
    BY DEF Kept
  <2>1. CASE IdsIn(q, m, x) = IdsIn(pending, m, x)
    BY <2>1 DEF Same, Holds, Exists
  <2>2. CASE IdsIn(q, m, x) # IdsIn(pending, m, x)
    <3>1. m = l /\ x = p
      BY <1>9, <2>2
    <3>2. IdsIn(q, l, p) = {id} /\ IdsIn(pending, l, p) = {}
      <4>0. g.at = "pixel"
        BY <1>3, <1>9, <2>2
      <4>1. IdsIn(q, l, p) = {id} /\ IdsIn(pending, l, p) # {id}
        BY <1>9, <2>2, <3>1, <4>0
      <4> HIDE DEF l, p
      <4> QED
        BY <1>8, <4>1, SubOne
    <3>3. h[<<l, p, id>>] = FileOf(s, l, p)
      BY <3>2
    <3> QED
      BY <3>1, <3>2, <3>3 DEF Same, Holds, Exists
  <2> QED
    BY <2>1, <2>2
<1> QED
  BY <1>3, <1>6, <1>9, <1>16, <1>17 DEF Cored, q, F, B

LEMMA LoadsCore ==
    ASSUME NEW t, NEW call, NEW below, NEW h, NEW s, CallOK(call), Sets(call),
           Under(Range(below), call.lod),
           Core(pending, cache, h, s, errors, Range(below)), dropped' = FALSE,
           s[call.lod] = stored[call.lod],
           Known(call.lod, Head(call.todo).pos) = {},
           LoadsTile(t, call, below)
    PROVE  Cored(t, call, Range(below), cache, h, s, errors) /\ errors' = errors
<1> DEFINE l == call.lod
           p == Head(call.todo).pos
           B == Range(below)
<1>1. l \in Lod /\ p \in Pos /\ l \in Nat
  BY HeadOfSet DEF CallOK, Lod
<1>2. PICK g, st :
        /\ Follows(call, g) /\ g.at = "load"
        /\ Becomes(t, st) /\ Range(st) = {g} \cup Range(below)
        /\ pending' = pending
        /\ \/ g.data = File(l, p) /\ errors' = errors /\ dropped' = dropped
           \/ errors' = errors + 1 /\ dropped' = TRUE
  BY DEF LoadsTile
<1> DEFINE F == Range(st)
<1>3. Sets(g) /\ CallOK(g) /\ g.lod = l /\ g.todo = call.todo /\ Head(g.todo).pos = p /\ g.id = 0
  BY <1>2 DEF Follows, CallOK
<1>4. g.data = FileOf(s, l, p) /\ errors' = errors
  BY <1>2 DEF FileOf, File
<1>5. IdsIn(pending, l, p) = {} /\ {cache[l][p]} \ {0} = {}
  <2>1. PendingIds(l, p) = IdsIn(pending, l, p)
    BY DEF PendingIds, IdsIn
  <2> QED
    BY <2>1 DEF Known
<1>6. Adds(call, B, F)
  BY <1>2 DEF Adds
<1>7. /\ IdsOf(F, l, p) = {0} /\ IdsOf(B, l, p) = {}
      /\ \A m \in Lod, x \in Pos : <<m, x>> # <<l, p>> => IdsOf(F, m, x) = IdsOf(B, m, x)
  <2>1. g \in F /\ B \subseteq F /\ \A f \in F : f \in B \/ f = g \/ Saves(f)
    BY <1>2
  <2>3. Under(B, l)
    OBVIOUS
  <2> HIDE DEF B, F, l, p
  <2>4. /\ IdsOf(F, l, Head(g.todo).pos) = {g.id}
        /\ \A x : \A m \in Nat : m # l \/ x # Head(g.todo).pos => IdsOf(F, m, x) = IdsOf(B, m, x)
        /\ \A x : IdsOf(B, l, x) = {}
    BY <1>1, <1>3, <2>1, <2>3, IdsOfAdded
  <2> QED
    BY <1>3, <2>4 DEF Lod
<1> HIDE DEF F, B
<1>8. /\ \A m \in Lod, x \in Pos : <<m, x>> # <<l, p>> =>
            Ids(pending, cache, F, m, x) = Ids(pending, cache, B, m, x)
      /\ Ids(pending, cache, F, l, p) = {}
  BY <1>5, <1>7 DEF Ids
<1>9. Single(pending, cache, F) /\ Clean(pending, cache, h, s, F)
  BY <1>8 DEF Single, Clean, Core, B
<1>10. ASSUME NEW f \in F, Saves(f) PROVE Saving(pending, h, s, errors, f)
  <2>1. f \in B
    BY <1>2, <1>3, <1>10, Kinds DEF F, B
  <2> QED
    BY <1>10, <2>1 DEF Core, B
<1>11. ASSUME NEW f \in F, Sets(f) PROVE Setting(pending, cache, s, F, f)
  <2>1. CASE f \in B
    BY <2>1 DEF Setting, Under, B
  <2>2. CASE f = g
    BY <1>2, <1>3, <1>4, <1>8, <2>2 DEF Setting
  <2> QED
    BY <1>2, <2>1, <2>2 DEF F, B
<1>12. Core(pending, cache, h, s, errors, F)
  BY <1>9, <1>10, <1>11 DEF Core
<1>13. Kept(pending, h, s, pending, h, s)
  BY DEF Kept, Same
<1> QED
  BY <1>2, <1>4, <1>6, <1>12, <1>13 DEF Cored, F, B

LEMMA EntersCore ==
    ASSUME Typed, References, NEW t, NEW call, NEW below, NEW h, NEW s, CallOK(call), Sets(call),
           TilesOK(h), Under(Range(below), call.lod),
           Core(pending, cache, h, s, errors, Range(below)), dropped' = FALSE,
           s[call.lod] = stored[call.lod],
           Enters(t, call, below, h)
    PROVE  Cored(t, call, Range(below), cache, h, s, errors) /\ errors' = errors
<1> DEFINE l == call.lod
           p == Head(call.todo).pos
           B == Range(below)
<1>1. l \in Lod /\ p \in Pos /\ l \in Nat
  BY HeadOfSet DEF CallOK, Lod
<1>2. PendingIds(l, p) = IdsIn(pending, l, p)
  BY DEF PendingIds, IdsIn
<1>3. ASSUME NEW id \in Known(l, p), Joins(t, call, id, below, h), errors' = errors
      PROVE  Cored(t, call, Range(below), cache, h, s, errors) /\ errors' = errors
  <2>1. id \in Nat \ {0}
    BY <1>1, KnownTiles
  <2>2. id \in Ids(pending, cache, B, l, p)
    BY <1>2 DEF Known, Ids
  <2>3. Ids(pending, cache, {}, l, p) \subseteq Ids(pending, cache, B, l, p)
    BY DEF Ids, IdsOf
  <2>4. \A i, j \in Ids(pending, cache, B, l, p) : i = j
    BY <1>1 DEF Core, Single
  <2>5. Ids(pending, cache, {}, l, p) \subseteq {id}
    BY <2>2, <2>3, <2>4
  <2>6. IdsIn(pending, l, p) = {} => h[<<l, p, id>>] = FileOf(s, l, p)
    BY <1>1, <2>2 DEF Core, Clean
  <2> QED
    BY <1>3, <2>1, <2>5, <2>6, JoinsCore
<1>4. CASE Known(l, p) = {} /\ LoadsTile(t, call, below)
  BY <1>4, LoadsCore
<1> QED
  BY <1>3, <1>4 DEF Enters

\* Calls that are not the innermost ones.
Waiting(B) == \A g \in B : g.at \in {"full", "cascade"}

\* Without the innermost call.
LEMMA CoreOver ==
    ASSUME NEW q, NEW k, NEW h, NEW s, NEW e, NEW F, NEW B, Core(q, k, h, s, e, F), B \subseteq F,
           Waiting(B)
    PROVE  Core(q, k, h, s, e, B)
<1>1. \A l, p : Ids(q, k, B, l, p) \subseteq Ids(q, k, F, l, p)
  BY DEF Ids, IdsOf
<1>2. Single(q, k, B) /\ Clean(q, k, h, s, B)
  BY <1>1 DEF Core, Single, Clean
<1>3. \A f \in B : Setting(q, k, s, B, f)
  BY DEF Setting, Waiting
<1> QED
  BY <1>2, <1>3 DEF Core

\* With a save.
LEMMA CoreSaves ==
    ASSUME NEW q, NEW k, NEW h, NEW s, NEW e, NEW f, Saves(f), NEW B, Core(q, k, h, s, e, B),
           Waiting(B), Saving(q, h, s, e, f)
    PROVE  Core(q, k, h, s, e, {f} \cup B)
<1> DEFINE F == {f} \cup B
<1>1. \A l, p : Ids(q, k, F, l, p) = Ids(q, k, B, l, p)
  <2>1. \A l, p : IdsOf(F, l, p) = IdsOf(B, l, p)
    <3> SUFFICES ASSUME NEW l, NEW p PROVE IdsOf(F, l, p) = IdsOf(B, l, p)
      OBVIOUS
    <3>1. {g \in F : Sets(g) /\ g.lod = l /\ Head(g.todo).pos = p}
          = {g \in B : Sets(g) /\ g.lod = l /\ Head(g.todo).pos = p}
      BY Kinds
    <3> QED
      BY <3>1 DEF IdsOf
  <2> QED
    BY <2>1 DEF Ids
<1>2. Single(q, k, F) /\ Clean(q, k, h, s, F)
  <2> HIDE DEF F
  <2>1. Single(q, k, F)
    BY <1>1 DEF Core, Single
  <2>2. Clean(q, k, h, s, F)
    BY <1>1 DEF Core, Clean
  <2> QED
    BY <2>1, <2>2
<1>3. \A g \in F : Sets(g) => Setting(q, k, s, F, g)
  BY Kinds DEF Setting, Waiting
<1> QED
  BY <1>2, <1>3 DEF Core

CacheSet(k, k2, l, p, n) ==
    k2[l][p] = n /\ \A m \in Lod, x \in Pos : <<m, x>> # <<l, p>> => k2[m][x] = k[m][x]

ShowsFile(h, s, l, p, n) == h[<<l, p, n>>] = FileOf(s, l, p)

\* With a tile in the cache that shows what is stored.
LEMMA CoreCaches ==
    ASSUME NEW q, NEW k, NEW k2, NEW h, NEW s, NEW e, NEW B, Core(q, k, h, s, e, B),
           Waiting(B),
           NEW l \in Lod, NEW p \in Pos, NEW n, Ids(q, k, B, l, p) = {},
           CacheSet(k, k2, l, p, n),
           ShowsFile(h, s, l, p, n)
    PROVE  Core(q, k2, h, s, e, B) /\ Ids(q, k2, {}, l, p) \subseteq {n}
<1>0. h[<<l, p, n>>] = FileOf(s, l, p)
  BY DEF ShowsFile
<1>1. Ids(q, k2, B, l, p) \subseteq {n} /\ Ids(q, k2, {}, l, p) \subseteq {n}
  BY DEF Ids, IdsOf, CacheSet
<1>2. \A m \in Lod, x \in Pos : <<m, x>> # <<l, p>> => Ids(q, k2, B, m, x) = Ids(q, k, B, m, x)
  BY DEF Ids, CacheSet
<1>3. Single(q, k2, B)
  BY <1>1, <1>2 DEF Core, Single
<1>4. Clean(q, k2, h, s, B)
  <2> SUFFICES ASSUME NEW m \in Lod, NEW x \in Pos, IdsIn(q, m, x) = {}, NEW i \in Ids(q, k2, B, m, x)
               PROVE  h[<<m, x, i>>] = FileOf(s, m, x)
    BY DEF Clean
  <2>1. CASE <<m, x>> = <<l, p>>
    <3>1. i = n
      BY <1>1, <2>1
    <3> QED
      BY <1>0, <2>1, <3>1
  <2>2. CASE <<m, x>> # <<l, p>>
    BY <1>2, <2>2 DEF Core, Clean
  <2> QED
    BY <2>1, <2>2
<1>5. \A f \in B : Setting(q, k2, s, B, f)
  BY DEF Setting, Waiting
<1> QED
  BY <1>1, <1>3, <1>4, <1>5 DEF Core

-----------------------------------------------------------------------------
(* The steps of a call, with one worker *)

Calls == Range(stack["writer"]) \cup Range(stack["saver"])

\* Nothing is queued or written while the only worker saves, nor behind a purge.
Alone == phase \in {"save", "saved", "delete", "purged", "cut"} => queue = << >> /\ stack["writer"] = << >>

CoreNow == Core(pending, cache, heap, stored, errors, Calls)

LEMMA OneStack ==
    ASSUME Shape, Alone, NEW t \in Thread, stack[t] # << >>
    PROVE  /\ Calls = {Top(t)} \cup Range(Below(t)) /\ \A f \in Calls : CallOK(f)
           /\ \A u \in Thread \ {t} : stack[u] = << >>
           /\ Waiting(Range(Below(t)))
           /\ Under(Range(Below(t)), Top(t).lod + 1)
           /\ Sets(Top(t)) => Under(Range(Below(t)), Top(t).lod)
           /\ \A g \in Range(Below(t)) : Saves(g) => g.lod < Top(t).lod
<1>1. Stacks /\ Phases
  BY DEF Shape
<1>2. /\ CallOK(Top(t)) /\ Range(stack[t]) = {Top(t)} \cup Range(Below(t))
      /\ \A g \in Range(Below(t)) : CallOK(g) /\ Over(Top(t), g) /\ g.at \in {"full", "cascade"}
  BY <1>1, TopCall
<1>3. \A u \in Thread \ {t} : stack[u] = << >>
  BY <1>1 DEF Phases, Alone, Thread
<1>4. Calls = {Top(t)} \cup Range(Below(t))
  <2>1. Range(<< >>) = {}
    BY DEF Range
  <2> QED
    BY <1>2, <1>3, <2>1 DEF Calls, Thread
<1>5. Top(t).lod \in Nat /\ \A g \in Range(Below(t)) : g.lod \in Nat
  BY <1>2 DEF CallOK, Lod
<1>6. Under(Range(Below(t)), Top(t).lod + 1)
  BY <1>2, <1>5 DEF Under, Over
<1>7. Sets(Top(t)) => Under(Range(Below(t)), Top(t).lod)
  BY <1>2, <1>5, Kinds DEF Under, Over
<1>8. \A g \in Range(Below(t)) : Saves(g) => g.lod < Top(t).lod
  <2>1. \A g \in Range(Below(t)) : Saves(g) => g.at # "full"
    BY DEF Saves
  <2> QED
    BY <1>2, <2>1 DEF Over
<1> QED
  BY <1>2, <1>3, <1>4, <1>6, <1>7, <1>8 DEF Waiting

\* No other thread has calls.
Only(t) == \A u \in Thread \ {t} : stack[u] = << >>

LEMMA CallsAfter ==
    ASSUME Stacks, NEW t \in Thread, Only(t), NEW st, Becomes(t, st)
    PROVE  Calls' = Range(st)
<1>1. stack'[t] = st /\ \A u \in Thread \ {t} : stack'[u] = << >>
  BY StacksAfter DEF Only
<1>2. Range(<< >>) = {}
  BY DEF Range
<1> QED
  BY <1>1, <1>2 DEF Calls, Thread

\* All calls are well-formed and among the tiles.
There ==
    /\ \A f \in Calls : CallOK(f)
    /\ CallsIn(Calls, DOMAIN heap) /\ PendingIn(pending, DOMAIN heap) /\ CacheIn(cache, DOMAIN heap)

LEMMA CallsThere == Shape => There
<1> SUFFICES ASSUME Shape PROVE There
  OBVIOUS
<1>1. ASSUME NEW t \in Thread, NEW f \in Range(stack[t]) PROVE CallOK(f)
  <2> DEFINE s == stack[t]
  <2>1. Nested(t, s)
    BY DEF Shape, Stacks
  <2> HIDE DEF s
  <2>2. \E i \in 1..Len(s) : f = s[i]
    <3>1. s \in Seq(Range(s)) /\ f \in Range(s)
      BY <1>1, <2>1 DEF Nested, s
    <3> QED
      BY <3>1, Elements
  <2> QED
    BY <2>1, <2>2 DEF Nested
<1> QED
  BY <1>1 DEF There, Shape, References, CallsIn, Calls, Thread

\* The tiles that stay are as they were.
LEMMA CollectedAgrees ==
    ASSUME NEW h, heap' \in {h, Collected(h)}
    PROVE  \A i \in DOMAIN heap' : heap'[i] = h[i]
BY DEF Collected

\* What a step of t ends with.
LEMMA CoredAlone ==
    ASSUME Shape, Shape', NEW t \in Thread, Only(t), NEW call, NEW B, NEW h, NEW e,
           Cored(t, call, B, cache', h, stored', e), errors' = e, heap' \in {h, Collected(h)}
    PROVE  /\ CoreNow' /\ Adds(call, B, Calls')
           /\ Kept(pending, h, stored', pending', heap', stored')
           /\ \A m \in Lod : m # call.lod => pending'[m] = pending[m]
<1>1. PICK st : /\ Becomes(t, st) /\ Adds(call, B, Range(st))
                /\ Core(pending', cache', h, stored', e, Range(st))
                /\ Kept(pending, h, stored', pending', h, stored')
                /\ \A m \in Lod : m # call.lod => pending'[m] = pending[m]
  BY DEF Cored
<1>2. Calls' = Range(st)
  BY <1>1, CallsAfter DEF Shape
<1>3. There'
  BY CallsThere, PTL
<1>4. \A i \in DOMAIN heap' : heap'[i] = h[i]
  BY CollectedAgrees
<1> DEFINE q == pending'
           k == cache'
           h2 == heap'
           s == stored'
           D == DOMAIN heap'
           F == Calls'
<1>5. /\ Core(q, k, h, s, e, F) /\ PendingIn(q, D) /\ CacheIn(k, D) /\ CallsIn(F, D)
      /\ \A f \in F : CallOK(f)
      /\ \A i \in D : h2[i] = h[i]
  BY <1>1, <1>2, <1>3, <1>4 DEF There
<1> HIDE DEF q, k, h2, s, D, F
<1>6. Core(q, k, h2, s, e, F) /\ Kept(q, h, s, q, h2, s)
  BY <1>5, TilesAgree
<1>9. Kept(pending, h, s, q, h, s)
  BY <1>1 DEF q, s
<1>7. Kept(pending, h, s, q, h2, s)
  BY <1>6, <1>9, KeptOn
<1>8. CoreNow'
  BY <1>6 DEF q, k, h2, s, F, CoreNow
<1> QED
  BY <1>1, <1>2, <1>7, <1>8 DEF q, h2, s

LEMMA CoredAfter ==
    ASSUME Shape, Shape', Alone, NEW t \in Thread, stack[t] # << >>, NEW call, NEW B, NEW h, NEW e,
           Cored(t, call, B, cache', h, stored', e), errors' = e, heap' \in {h, Collected(h)}
    PROVE  /\ CoreNow' /\ Adds(call, B, Calls')
           /\ Kept(pending, h, stored', pending', heap', stored')
           /\ \A m \in Lod : m # call.lod => pending'[m] = pending[m]
<1>1. Only(t)
  BY OneStack DEF Only
<1> QED
  BY <1>1, CoredAlone

\* Every pixel of every tile shows what it did.
Unchanged == Kept(pending, heap, stored, pending', heap', stored')

\* Only the changes of the layer are others.
OnlyLayer(l) == \A m \in Lod : m # l => pending'[m] = pending[m]

LEMMA KeepTileCore ==
    ASSUME Shape, Shape', Alone, CoreNow, NEW t \in Thread, KeepTile(t)
    PROVE  /\ CoreNow' /\ Unchanged /\ OnlyLayer(Top(t).lod)
           /\ Adds(Top(t), Range(Below(t)), Calls')
<1> DEFINE l == Top(t).lod
           p == TopPos(t)
           n == KeptId(t)
           tiles == KeptTiles(t)
           B == Range(Below(t))
           q == pending
           D == DOMAIN heap
<1>0. Typed /\ Stacks /\ References
  BY DEF Shape
<1>1. /\ stack[t] # << >> /\ Top(t).at = "load" /\ Sets(Top(t)) /\ CallOK(Top(t))
      /\ TilesOK(tiles) /\ n \in Nat \ {0}
      /\ tiles[<<l, p, n>>] = Top(t).data
      /\ \A i \in D : tiles[i] = heap[i]
      /\ Joins(t, Top(t), n, Below(t), tiles)
      /\ cache' = [cache EXCEPT ![l][p] = n]
      /\ heap' = Collected(tiles)
      /\ UNCHANGED <<stored, errors>>
  BY <1>0, KeepTileDoes DEF envVars
<1>2. l \in Lod /\ p \in Pos /\ p = Head(Top(t).todo).pos
  BY <1>1, HeadOfSet DEF CallOK, TopPos
<1>3. /\ Calls = {Top(t)} \cup B /\ \A f \in Calls : CallOK(f)
      /\ Waiting(B) /\ Under(B, l)
  BY <1>1, OneStack
<1>4. Ids(q, cache, Calls, l, p) = {} /\ Top(t).data = FileOf(stored, l, p)
  BY <1>1, <1>2, <1>3 DEF CoreNow, Core, Setting
<1>5. There
  BY CallsThere
<1>6. \A m \in Lod, x \in Pos : /\ <<m, x>> # <<l, p>> => cache'[m][x] = cache[m][x]
                               /\ cache'[l][p] = n
  BY <1>0, <1>1, <1>2 DEF Typed
<1> HIDE DEF l, p, n, tiles, B, D
<1>7. Core(q, cache, tiles, stored, errors, Calls) /\ Kept(q, heap, stored, q, tiles, stored)
  BY <1>1, <1>3, <1>5, TilesAgree DEF CoreNow, There, D
<1>8. Core(q, cache, tiles, stored, errors, B)
  BY <1>3, <1>7, CoreOver
<1>9. Ids(q, cache, B, l, p) = {}
  BY <1>3, <1>4 DEF Ids, IdsOf
<1>10. Core(q, cache', tiles, stored, errors, B) /\ Ids(q, cache', {}, l, p) \subseteq {n}
  <2> DEFINE k == cache'
  <2>1. CacheSet(cache, k, l, p, n)
    BY <1>2, <1>6 DEF CacheSet
  <2>2. ShowsFile(tiles, stored, l, p, n)
    BY <1>1, <1>4 DEF ShowsFile
  <2> HIDE DEF k
  <2>3. Core(q, k, tiles, stored, errors, B) /\ Ids(q, k, {}, l, p) \subseteq {n}
    BY <1>2, <1>3, <1>8, <1>9, <2>1, <2>2, CoreCaches
  <2> QED
    BY <2>3 DEF k
<1>11. Cored(t, Top(t), B, cache', tiles, stored', errors)
  BY <1>0, <1>1, <1>2, <1>3, <1>4, <1>10, JoinsCore DEF B, l
<1>12. /\ CoreNow' /\ Adds(Top(t), B, Calls')
       /\ Kept(q, tiles, stored', pending', heap', stored') /\ OnlyLayer(l)
  BY <1>1, <1>11, CoredAfter DEF OnlyLayer, l
<1>13. Unchanged
  BY <1>1, <1>7, <1>12, KeptOn DEF Unchanged
<1> QED
  BY <1>12, <1>13 DEF l, B

LEMMA AddChangeCore ==
    ASSUME Shape, Shape', Alone, CoreNow, NEW t \in Thread, AddChange(t)
    PROVE  /\ CoreNow' /\ Unchanged /\ OnlyLayer(Top(t).lod)
           /\ Adds(Top(t), Range(Below(t)), Calls')
<1> DEFINE l == Top(t).lod
           p == TopPos(t)
           n == Top(t).id
           B == Range(Below(t))
           q == pending
<1>0. Typed /\ Stacks /\ References
  BY DEF Shape
<1>1. /\ stack[t] # << >> /\ Sets(Top(t)) /\ CallOK(Top(t)) /\ n \in Nat \ {0}
      /\ Joins(t, Top(t), n, Below(t), heap)
      /\ UNCHANGED <<cache, heap, stored, errors>>
  BY <1>0, AddChangeDoes DEF envVars
<1>2. l \in Lod /\ p \in Pos /\ p = Head(Top(t).todo).pos
  BY <1>1, HeadOfSet DEF CallOK, TopPos
<1>3. /\ Calls = {Top(t)} \cup B /\ \A f \in Calls : CallOK(f)
      /\ Waiting(B) /\ Under(B, l)
  BY <1>1, OneStack
<1>4. n \in Ids(q, cache, Calls, l, p)
  BY <1>1, <1>2, <1>3 DEF Ids, IdsOf
<1>5. \A i \in Ids(q, cache, Calls, l, p) : i = n
  BY <1>2, <1>4 DEF CoreNow, Core, Single
<1>6. Ids(q, cache, {}, l, p) \subseteq {n}
  <2>1. Ids(q, cache, {}, l, p) \subseteq Ids(q, cache, Calls, l, p)
    BY DEF Ids, IdsOf
  <2> QED
    BY <1>5, <2>1
<1>7. IdsIn(q, l, p) = {} => heap[<<l, p, n>>] = FileOf(stored, l, p)
  BY <1>2, <1>4 DEF CoreNow, Core, Clean
<1>8. Core(q, cache, heap, stored, errors, B)
  BY <1>3, CoreOver DEF CoreNow
<1> HIDE DEF l, p, n, B
<1>9. Cored(t, Top(t), B, cache', heap, stored', errors)
  BY <1>0, <1>1, <1>2, <1>3, <1>6, <1>7, <1>8, HeapOK, JoinsCore DEF B, l
<1>10. /\ CoreNow' /\ Adds(Top(t), B, Calls')
       /\ Kept(q, heap, stored', pending', heap', stored') /\ OnlyLayer(l)
  BY <1>1, <1>9, CoredAfter DEF OnlyLayer, l
<1> QED
  BY <1>1, <1>10 DEF l, B, Unchanged

\* What a step of t ends with, given its calls.
LEMMA TilesAlone ==
    ASSUME Shape, Shape', NEW t \in Thread, Only(t), NEW st, Becomes(t, st), NEW h, NEW e,
           Core(pending', cache', h, stored', e, Range(st)), errors' = e, heap' \in {h, Collected(h)}
    PROVE  /\ CoreNow' /\ Calls' = Range(st)
           /\ Kept(pending', h, stored', pending', heap', stored')
<1>2. Calls' = Range(st)
  BY CallsAfter DEF Shape
<1>3. There'
  BY CallsThere, PTL
<1>4. \A i \in DOMAIN heap' : heap'[i] = h[i]
  BY CollectedAgrees
<1> DEFINE q == pending'
           k == cache'
           h2 == heap'
           s == stored'
           D == DOMAIN heap'
           F == Calls'
<1>5. /\ Core(q, k, h, s, e, F) /\ PendingIn(q, D) /\ CacheIn(k, D) /\ CallsIn(F, D)
      /\ \A f \in F : CallOK(f)
      /\ \A i \in D : h2[i] = h[i]
  BY <1>2, <1>3, <1>4 DEF There
<1> HIDE DEF q, k, h2, s, D, F
<1>6. Core(q, k, h2, s, e, F) /\ Kept(q, h, s, q, h2, s)
  BY <1>5, TilesAgree
<1> QED
  BY <1>2, <1>6 DEF q, k, h2, s, F, CoreNow

LEMMA TilesAfter ==
    ASSUME Shape, Shape', Alone, NEW t \in Thread, stack[t] # << >>, NEW st, Becomes(t, st), NEW h, NEW e,
           Core(pending', cache', h, stored', e, Range(st)), errors' = e, heap' \in {h, Collected(h)}
    PROVE  /\ CoreNow' /\ Calls' = Range(st)
           /\ Kept(pending', h, stored', pending', heap', stored')
<1>1. Only(t)
  BY OneStack DEF Only
<1> QED
  BY <1>1, TilesAlone

\* The pixel a step of t paints, and the others.
Painted(t, q, h, s) ==
    /\ \A m \in Lod, x \in Pos : <<m, x>> # <<Top(t).lod, TopPos(t)>> =>
            Same(pending, heap, stored, q, h, s, m, x)
    /\ \A px \in Pixel : px # Head(Top(t).todo).px => \A v :
            Holds(pending, heap, stored, Top(t).lod, TopPos(t), px, v) =>
            Holds(q, h, s, Top(t).lod, TopPos(t), px, v)
    /\ Holds(q, h, s, Top(t).lod, TopPos(t), Head(Top(t).todo).px, Top(t).value)
    /\ Exists(q, s, Top(t).lod, TopPos(t))

LEMMA PaintedOn ==
    ASSUME NEW t, NEW q, NEW h, NEW s, NEW q2, NEW h2, NEW s2,
           Painted(t, q, h, s), Kept(q, h, s, q2, h2, s2),
           Top(t).lod \in Lod, TopPos(t) \in Pos, Head(Top(t).todo).px \in Pixel
    PROVE  Painted(t, q2, h2, s2)
<1> DEFINE l == Top(t).lod
           p == TopPos(t)
           z == Head(Top(t).todo).px
<1>1. \A m \in Lod, x \in Pos : Same(q, h, s, q2, h2, s2, m, x)
  BY DEF Kept
<1>2. ASSUME NEW m \in Lod, NEW x \in Pos, <<m, x>> # <<l, p>>
      PROVE  Same(pending, heap, stored, q2, h2, s2, m, x)
  <2>1. Same(pending, heap, stored, q, h, s, m, x)
    BY <1>2 DEF Painted
  <2> QED
    BY <1>1, <2>1 DEF Same
<1>3. \A px \in Pixel : \A v : Holds(q, h, s, l, p, px, v) => Holds(q2, h2, s2, l, p, px, v)
  BY <1>1 DEF Same
<1>4. ASSUME NEW px \in Pixel, px # z, NEW v, Holds(pending, heap, stored, l, p, px, v)
      PROVE  Holds(q2, h2, s2, l, p, px, v)
  <2>1. Holds(q, h, s, l, p, px, v)
    BY <1>4 DEF Painted
  <2> QED
    BY <1>3, <2>1
<1>5. Holds(q, h, s, l, p, z, Top(t).value) /\ Exists(q, s, l, p)
  BY DEF Painted
<1>6. Holds(q2, h2, s2, l, p, z, Top(t).value) /\ Exists(q2, s2, l, p)
  <2>1. Holds(q2, h2, s2, l, p, z, Top(t).value)
    BY <1>3, <1>5
  <2>2. Exists(q2, s2, l, p)
    BY <1>1, <1>5 DEF Same
  <2> QED
    BY <2>1, <2>2
<1> QED
  BY <1>2, <1>4, <1>6 DEF Painted

LEMMA PixelCore ==
    ASSUME Shape, Alone, CoreNow, NEW t \in Thread, stack[t] # << >>, Top(t).at = "pixel",
           Sets(Top(t)), CallOK(Top(t)), NEW h, h = PaintedTiles(t)
    PROVE  /\ Core(pending, cache, h, stored, errors, Range(Below(t)))
           /\ Painted(t, pending, h, stored)
<1> DEFINE l == Top(t).lod
           p == TopPos(t)
           n == Top(t).id
           z == Head(Top(t).todo).px
           v == Top(t).value
           B == Range(Below(t))
           q == pending
           D == DOMAIN heap
<1>0. Typed
  BY DEF Shape
<1>2. l \in Lod /\ p \in Pos /\ p = Head(Top(t).todo).pos /\ z \in Pixel /\ v \in Nat
  BY HeadOfSet DEF CallOK, TopPos
<1>3. /\ Calls = {Top(t)} \cup B /\ \A f \in Calls : CallOK(f)
      /\ Waiting(B) /\ Under(B, l)
  BY OneStack
<1>4. n \in IdsIn(q, l, p)
  BY <1>2, <1>3 DEF CoreNow, Core, Setting
<1>5. There
  BY CallsThere
<1>6. \A m \in Lod, x \in Pos : /\ \A i \in IdsIn(q, m, x) : <<m, x, i>> \in D
                               /\ \A i \in Ids(q, cache, Calls, m, x) : <<m, x, i>> \in D
  <2> DEFINE F == Calls
             k == cache
  <2>1. PendingIn(q, D) /\ CacheIn(k, D) /\ CallsIn(F, D) /\ \A f \in F : CallOK(f)
    BY <1>5 DEF There
  <2> HIDE DEF q, D, F, k
  <2>2. \A m \in Lod, x \in Pos : /\ \A i \in IdsIn(q, m, x) : <<m, x, i>> \in D
                                 /\ \A i \in Ids(q, k, F, m, x) : <<m, x, i>> \in D
    BY <2>1, IdsThere
  <2> QED
    BY <2>2 DEF F, k
<1>7. heap \in [D -> TilePixels]
  BY <1>0 DEF Typed
<1>8. h = [heap EXCEPT ![<<l, p, n>>] = [heap[<<l, p, n>>] EXCEPT ![z] = v]]
  BY DEF PaintedTiles
<1>9. <<l, p, n>> \in D
  BY <1>2, <1>4, <1>6
<1> HIDE DEF l, p, n, z, v, B, D
<1>10. /\ \A i \in D : i # <<l, p, n>> => h[i] = heap[i]
       /\ h[<<l, p, n>>] = [heap[<<l, p, n>>] EXCEPT ![z] = v]
  BY <1>7, <1>8, <1>9
<1>11. heap[<<l, p, n>>] \in [Pixel -> Nat]
  BY <1>7, <1>9 DEF TilePixels
<1>12. h[<<l, p, n>>][z] = v /\ \A px \in Pixel : px # z => h[<<l, p, n>>][px] = heap[<<l, p, n>>][px]
  BY <1>2, <1>10, <1>11
<1>13. Core(q, cache, heap, stored, errors, B)
  BY <1>3, CoreOver DEF CoreNow
<1>14. \A m \in Lod, x \in Pos : <<m, x>> # <<l, p>> =>
            \A i \in Ids(q, cache, Calls, m, x) : h[<<m, x, i>>] = heap[<<m, x, i>>]
  BY <1>6, <1>10
<1>15. Clean(q, cache, h, stored, B)
  <2> SUFFICES ASSUME NEW m \in Lod, NEW x \in Pos, IdsIn(q, m, x) = {}, NEW i \in Ids(q, cache, B, m, x)
               PROVE  h[<<m, x, i>>] = FileOf(stored, m, x)
    BY DEF Clean
  <2>1. <<m, x>> # <<l, p>>
    BY <1>4
  <2>2. i \in Ids(q, cache, Calls, m, x)
    BY <1>3 DEF Ids, IdsOf
  <2>3. heap[<<m, x, i>>] = FileOf(stored, m, x)
    BY <1>13 DEF Core, Clean
  <2> QED
    BY <1>14, <2>1, <2>2, <2>3
<1>16. ASSUME NEW f \in B, Saves(f) PROVE Saving(q, h, stored, errors, f)
  <2>1. Saving(q, heap, stored, errors, f)
    BY <1>13, <1>16 DEF Core
  <2>2. CallOK(f) /\ f.lod < l
    BY <1>3, <1>16 DEF Under
  <2>3. f.lod \in Nat /\ l \in Nat
    BY <1>2, <2>2 DEF CallOK, Lod
  <2>4. Head(f.todo) \in Range(f.todo)
    BY <1>16, <2>2, HeadOfSave
  <2>5. TileId(f, Head(f.todo)) \in D
    BY <1>3, <1>5, <1>16, <2>4, HeldBySave DEF There, CallsIn, TileId, D
  <2>6. TileId(f, Head(f.todo)) # <<l, p, n>>
    BY <2>2, <2>3 DEF TileId
  <2>7. h[TileId(f, Head(f.todo))] = heap[TileId(f, Head(f.todo))]
    BY <1>10, <2>5, <2>6
  <2> QED
    BY <2>1, <2>7 DEF Saving
<1>17. Core(q, cache, h, stored, errors, B)
  BY <1>13, <1>15, <1>16 DEF Core
<1>18. \A m \in Lod, x \in Pos : <<m, x>> # <<l, p>> => Same(q, heap, stored, q, h, stored, m, x)
  <2> SUFFICES ASSUME NEW m \in Lod, NEW x \in Pos, <<m, x>> # <<l, p>>
               PROVE  Same(q, heap, stored, q, h, stored, m, x)
    OBVIOUS
  <2>1. \A i \in IdsIn(q, m, x) : h[<<m, x, i>>] = heap[<<m, x, i>>]
    BY <1>6, <1>10
  <2> QED
    BY <2>1 DEF Same, Holds
<1>19. \A i \in IdsIn(q, l, p) : i = n
  <2>1. n \in Ids(q, cache, Calls, l, p) /\ IdsIn(q, l, p) \subseteq Ids(q, cache, Calls, l, p)
    BY <1>4 DEF Ids
  <2> QED
    BY <1>2, <2>1 DEF CoreNow, Core, Single
<1>20. Holds(q, h, stored, l, p, z, v) /\ Exists(q, stored, l, p)
  BY <1>4, <1>12, <1>19 DEF Holds, Exists
<1>21. ASSUME NEW px \in Pixel, px # z, NEW w, Holds(q, heap, stored, l, p, px, w)
       PROVE  Holds(q, h, stored, l, p, px, w)
  BY <1>4, <1>12, <1>19, <1>21 DEF Holds
<1> QED
  BY <1>17, <1>18, <1>20, <1>21 DEF Painted, l, p, z, v, B

LEMMA SetPixelCore ==
    ASSUME Shape, Shape', Alone, CoreNow, dropped' = FALSE, NEW t \in Thread, SetPixel(t)
    PROVE  /\ CoreNow' /\ Painted(t, pending', heap', stored') /\ OnlyLayer(Top(t).lod)
           /\ \/ Len(Top(t).todo) = 1 /\ Calls' = Range(Below(t))
              \/ \E call : NextTile(t, call) /\ Adds(call, Range(Below(t)), Calls')
<1> DEFINE l == Top(t).lod
           B == Range(Below(t))
           q == pending
           h == PaintedTiles(t)
<1>0. Typed /\ Stacks /\ References
  BY DEF Shape
<1>1. /\ stack[t] # << >> /\ Top(t).at = "pixel" /\ Sets(Top(t)) /\ CallOK(Top(t))
      /\ TilesOK(h)
      /\ \/ /\ Len(Top(t).todo) = 1
            /\ Becomes(t, Below(t))
            /\ pending' = pending /\ errors' = errors
         \/ /\ \E call : NextTile(t, call) /\ Enters(t, call, Below(t), h)
      /\ heap' = Collected(h)
      /\ UNCHANGED <<cache, stored>>
  BY <1>0, SetPixelDoes
<1>2. /\ Core(q, cache, h, stored, errors, B) /\ Painted(t, q, h, stored)
      /\ Under(B, l)
  BY <1>1, PixelCore, OneStack
<1>3. l \in Lod /\ TopPos(t) \in Pos /\ Head(Top(t).todo).px \in Pixel
  BY <1>1, HeadOfSet DEF CallOK, TopPos
<1> HIDE DEF h, l
<1>4. CASE /\ Len(Top(t).todo) = 1
           /\ Becomes(t, Below(t))
           /\ pending' = pending /\ errors' = errors
  <2>1. Core(pending', cache', h, stored', errors, B)
    BY <1>1, <1>2, <1>4
  <2>2. CoreNow' /\ Calls' = B /\ Kept(pending', h, stored', pending', heap', stored')
    BY <1>1, <1>4, <2>1, TilesAfter
  <2>3. Painted(t, pending', h, stored')
    BY <1>1, <1>2, <1>4
  <2>4. Painted(t, pending', heap', stored')
    BY <1>3, <2>2, <2>3, PaintedOn DEF l
  <2> QED
    BY <1>4, <2>2, <2>4 DEF OnlyLayer
<1>5. ASSUME NEW call, NextTile(t, call), Enters(t, call, Below(t), h)
      PROVE  /\ CoreNow' /\ Painted(t, pending', heap', stored') /\ OnlyLayer(Top(t).lod)
             /\ Adds(call, B, Calls')
  <2>1. CallOK(call) /\ Sets(call) /\ call.lod = l
    BY <1>5 DEF NextTile, l
  <2>2. Cored(t, call, B, cache, h, stored, errors) /\ errors' = errors
    BY <1>0, <1>1, <1>2, <1>5, <2>1, EntersCore
  <2>3. Cored(t, call, B, cache', h, stored', errors)
    BY <1>1, <2>2
  <2>4. /\ CoreNow' /\ Adds(call, B, Calls')
        /\ Kept(pending, h, stored', pending', heap', stored')
        /\ \A m \in Lod : m # call.lod => pending'[m] = pending[m]
    BY <1>1, <2>2, <2>3, CoredAfter
  <2>5. Painted(t, pending, h, stored')
    BY <1>1, <1>2
  <2>6. Painted(t, pending', heap', stored')
    BY <1>3, <2>4, <2>5, PaintedOn DEF l
  <2> QED
    BY <2>1, <2>4, <2>6 DEF OnlyLayer, l
<1> QED
  BY <1>1, <1>4, <1>5

Done(f) == Len(Groups) - f.group

\* The tile a save is about, and a call that brings a group of it into the next layer.
Subject(f) == heap[TileId(f, Head(f.todo))]
Brings(k, c) ==
    /\ CallOK(c) /\ Sets(c) /\ c.lod = k.lod + 1
    /\ c.value = Average(Subject(k), Groups[Done(k)])
    /\ Range(c.todo) = ParentTargets(Head(k.todo).pos, Done(k))
CascadeOf(f, k) ==
    CallOK(k) /\ Saves(k) /\ k.at = "cascade" /\ k.lod = f.lod /\ k.todo = f.todo

\* A save that cascades is about what is stored.
LEMMA SameSaving ==
    ASSUME NEW q, NEW h, NEW s, NEW e, NEW f, Saving(q, h, s, e, f), f.at = "cascade", NEW k,
           k.at = "cascade", k.lod = f.lod, k.todo = f.todo
    PROVE  Saving(q, h, s, e, k)
BY DEF Saving, TileId

LEMMA CascadesCore ==
    ASSUME Shape, Shape', Alone, dropped' = FALSE, NEW t \in Thread, stack[t] # << >>,
           NEW call, CascadeOf(Top(t), call), CascadesInto(t, call, Below(t)),
           Core(pending, cache, heap, stored', errors, Range(Below(t))),
           Saving(pending, heap, stored', errors, call),
           stored'[call.lod + 1] = stored[call.lod + 1], UNCHANGED <<cache, heap>>,
           call.group \in 1..Len(Groups)
    PROVE  /\ CoreNow' /\ Kept(pending, heap, stored', pending', heap', stored')
           /\ OnlyLayer(call.lod + 1)
           /\ \E k, c : /\ CascadeOf(Top(t), k) /\ k.group = call.group - 1 /\ Brings(k, c)
                        /\ Adds(c, {k} \cup Range(Below(t)), Calls')
<1> DEFINE l == call.lod
           B == Range(Below(t))
<1>0. Typed /\ Stacks /\ References
  BY DEF Shape
<1>1. PICK k, b, c :
        /\ CallOK(k) /\ k.at = "cascade" /\ k.lod = l /\ k.todo = call.todo
        /\ k.group = call.group - 1
        /\ Range(b) = {k} \cup B
        /\ CallOK(c) /\ Sets(c) /\ c.lod = l + 1
        /\ c.value = Average(Encoded(heap, l, Head(call.todo)), NextGroup(call.group))
        /\ Range(c.todo) = ParentTargets(Head(call.todo).pos, Len(Groups) + 1 - call.group)
        /\ Enters(t, c, b, heap)
  BY DEF CascadesInto
<1>2. /\ Saves(k) /\ CascadeOf(Top(t), k) /\ l = Top(t).lod /\ call.at = "cascade" /\ l \in Nat
  BY <1>1 DEF CascadeOf, Saves, CallOK, Lod
<1>3. Waiting(B) /\ Under(B, l + 1)
  BY <1>2, OneStack
<1>4. Done(k) = Len(Groups) + 1 - call.group
  <2>1. Len(Groups) \in Nat
    BY GroupsAre
  <2> QED
    BY <1>1, <2>1 DEF Done
<1>5. Brings(k, c)
  BY <1>1, <1>4 DEF Brings, Subject, TileId, Encoded, NextGroup
<1>6. Under(Range(b), l + 1)
  <2>1. k.lod < l + 1
    BY <1>1, <1>2
  <2> QED
    BY <1>1, <1>3, <2>1 DEF Under
<1>7. Saving(pending, heap, stored', errors, k)
  BY <1>1, <1>2, SameSaving
<1>8. Core(pending, cache, heap, stored', errors, Range(b))
  <2> DEFINE s == stored'
  <2>1. Core(pending, cache, heap, s, errors, B) /\ Saving(pending, heap, s, errors, k)
    BY <1>7
  <2> HIDE DEF s, B
  <2>2. Core(pending, cache, heap, s, errors, {k} \cup B)
    BY <1>2, <1>3, <2>1, CoreSaves
  <2> QED
    BY <1>1, <2>2 DEF s, B
<1>9. Cored(t, c, Range(b), cache, heap, stored', errors) /\ errors' = errors
  <2> DEFINE s == stored'
  <2>1. /\ Core(pending, cache, heap, s, errors, Range(b)) /\ s[c.lod] = stored[c.lod]
        /\ Under(Range(b), c.lod)
    BY <1>1, <1>6, <1>8
  <2> HIDE DEF s
  <2>2. Cored(t, c, Range(b), cache, heap, s, errors) /\ errors' = errors
    BY <1>0, <1>1, <2>1, HeapOK, EntersCore
  <2> QED
    BY <2>2 DEF s
<1>10. Cored(t, c, Range(b), cache', heap, stored', errors)
  BY <1>9
<1>11. /\ CoreNow' /\ Adds(c, Range(b), Calls')
       /\ Kept(pending, heap, stored', pending', heap', stored')
       /\ \A m \in Lod : m # c.lod => pending'[m] = pending[m]
  BY <1>9, <1>10, CoredAfter
<1>12. OnlyLayer(l + 1)
  BY <1>1, <1>11 DEF OnlyLayer
<1> QED
  BY <1>1, <1>2, <1>5, <1>11, <1>12

LEMMA CascadeCore ==
    ASSUME Shape, Shape', Alone, CoreNow, dropped' = FALSE, NEW t \in Thread, Cascade(t)
    PROVE  /\ CoreNow' /\ Unchanged /\ OnlyLayer(Top(t).lod + 1) /\ UNCHANGED stored
           /\ \E k, c : /\ CascadeOf(Top(t), k) /\ k.group = Top(t).group - 1 /\ Brings(k, c)
                        /\ Adds(c, {k} \cup Range(Below(t)), Calls')
<1> DEFINE f == Top(t)
           B == Range(Below(t))
<1>0. Typed /\ Stacks /\ References
  BY DEF Shape
<1>1. /\ stack[t] # << >> /\ f.at = "cascade" /\ Saves(f) /\ CallOK(f)
      /\ f.group \in 1..Len(Groups) /\ CascadesInto(t, f, Below(t))
      /\ UNCHANGED <<cache, heap, stored>>
  BY <1>0, CascadeDoes
<1>2. Calls = {f} \cup B /\ Waiting(B)
  BY <1>1, OneStack
<1>3. CascadeOf(f, f)
  BY <1>1 DEF CascadeOf
<1>4. Core(pending, cache, heap, stored, errors, B) /\ Saving(pending, heap, stored, errors, f)
  <2>1. Core(pending, cache, heap, stored, errors, B)
    BY <1>2, CoreOver DEF CoreNow
  <2>2. Saving(pending, heap, stored, errors, f)
    BY <1>1, <1>2 DEF CoreNow, Core
  <2> QED
    BY <2>1, <2>2
<1>5. Core(pending, cache, heap, stored', errors, B) /\ Saving(pending, heap, stored', errors, f)
  BY <1>1, <1>4
<1>6. stored'[f.lod + 1] = stored[f.lod + 1]
  BY <1>1
<1> HIDE DEF f
<1>7. /\ CoreNow' /\ Kept(pending, heap, stored', pending', heap', stored')
      /\ OnlyLayer(f.lod + 1)
      /\ \E k, c : /\ CascadeOf(f, k) /\ k.group = f.group - 1 /\ Brings(k, c)
                   /\ Adds(c, {k} \cup Range(Below(t)), Calls')
  BY <1>1, <1>3, <1>5, <1>6, CascadesCore DEF f
<1>8. Unchanged
  BY <1>1, <1>7 DEF Unchanged
<1> QED
  BY <1>1, <1>7, <1>8 DEF f

StoredAs(t, s) == s = [stored EXCEPT ![Top(t).lod][TopPos(t)] = Top(t).data]

\* What is stored changes for a tile that has changes: nothing shows it.
LEMMA StoresCore ==
    ASSUME Shape, Alone, CoreNow, NEW t \in Thread, stack[t] # << >>, Top(t).at = "write",
           Saves(Top(t)), CallOK(Top(t)), NEW s, StoredAs(t, s),
           NEW k, CascadeOf(Top(t), k)
    PROVE  /\ Core(pending, cache, heap, s, errors, Range(Below(t)))
           /\ Saving(pending, heap, s, errors, k)
           /\ Kept(pending, heap, stored, pending, heap, s)
           /\ s[Top(t).lod][TopPos(t)] = Subject(Top(t))
           /\ \A m \in Lod, x \in Pos : <<m, x>> # <<Top(t).lod, TopPos(t)>> => s[m][x] = stored[m][x]
           /\ \A m : m # Top(t).lod => s[m] = stored[m]
<1> DEFINE f == Top(t)
           l == f.lod
           p == TopPos(t)
           B == Range(Below(t))
           q == pending
<1>0. Typed
  BY DEF Shape
<1>1. l \in Lod /\ p \in Pos /\ p = Head(f.todo).pos /\ Head(f.todo) \in Range(f.todo)
  BY HeadOfSave DEF CallOK, TopPos
<1>2. Calls = {f} \cup B /\ Waiting(B) /\ \A g \in B : Saves(g) => g.lod < l
  BY OneStack
<1>3. Core(q, cache, heap, stored, errors, B)
  BY <1>2, CoreOver DEF CoreNow
<1>4. Saving(q, heap, stored, errors, f)
  BY <1>2 DEF CoreNow, Core
<1>5. Head(f.todo).id \in IdsIn(q, l, p)
  BY <1>1, <1>4 DEF Saving, IdsIn
<1>6. stored \in [Lod -> [Pos -> TilePixels \cup {Missing}]]
  BY <1>0 DEF Typed
<1> HIDE DEF l, p, f, B
<1>7. /\ s[l][p] = f.data
      /\ \A m \in Lod, x \in Pos : <<m, x>> # <<l, p>> => s[m][x] = stored[m][x]
      /\ \A m \in Lod : m # l => s[m] = stored[m]
  BY <1>1, <1>6 DEF f, l, p, StoredAs
<1>8. \A m : m # l => s[m] = stored[m]
  BY DEF f, l, StoredAs
<1>9. \A m \in Lod, x \in Pos : IdsIn(q, m, x) = {} => FileOf(s, m, x) = FileOf(stored, m, x)
  BY <1>5, <1>7 DEF FileOf
<1>10. Clean(q, cache, heap, s, B)
  BY <1>3, <1>9 DEF Core, Clean
<1>11. ASSUME NEW g \in B, Saves(g) PROVE Saving(q, heap, s, errors, g)
  <2>1. g.lod < l /\ Saving(q, heap, stored, errors, g)
    BY <1>2, <1>3, <1>11 DEF Core
  <2>2. l \in Nat
    BY <1>1 DEF Lod
  <2>3. g.lod # l
    BY <2>1, <2>2
  <2> QED
    BY <1>8, <2>1, <2>3 DEF Saving
<1>12. Core(q, cache, heap, s, errors, B)
  BY <1>2, <1>3, <1>10, <1>11 DEF Core, Setting, Waiting
<1>13. f.data = heap[TileId(f, Head(f.todo))]
  BY <1>4 DEF Saving, f
<1>14. k.at = "cascade" /\ k.lod = l /\ k.todo = f.todo /\ f.lod = l
  BY DEF CascadeOf, f, l
<1>15. Saving(q, heap, s, errors, k)
  <2>1. TileId(k, Head(k.todo)) = TileId(f, Head(f.todo))
    BY <1>14 DEF TileId
  <2>2. s[k.lod][Head(k.todo).pos] = heap[TileId(k, Head(k.todo))]
    BY <1>1, <1>7, <1>13, <1>14, <2>1
  <2> QED
    BY <1>4, <1>14, <2>2 DEF Saving
<1>16. Kept(q, heap, stored, q, heap, s)
  <2> SUFFICES ASSUME NEW m \in Lod, NEW x \in Pos PROVE Same(q, heap, stored, q, heap, s, m, x)
    BY DEF Kept
  <2>1. Exists(q, stored, m, x) => Exists(q, s, m, x)
    BY <1>5, <1>7 DEF Exists
  <2> QED
    BY <1>9, <2>1 DEF Same, Holds
<1> QED
  BY <1>7, <1>8, <1>12, <1>13, <1>15, <1>16 DEF f, l, p, B, Subject

\* What a write changes is stored, and nothing else.
StoresTop(t) ==
    /\ stored'[Top(t).lod][TopPos(t)] = Subject(Top(t))
    /\ \A m \in Lod, x \in Pos : <<m, x>> # <<Top(t).lod, TopPos(t)>> => stored'[m][x] = stored[m][x]

LEMMA WriteTileCore ==
    ASSUME Shape, Shape', Alone, CoreNow, dropped' = FALSE, NEW t \in Thread, WriteTile(t)
    PROVE  /\ CoreNow' /\ Unchanged /\ OnlyLayer(Top(t).lod + 1) /\ StoresTop(t)
           /\ \/ /\ GroupsOf(Top(t).lod) = 0
                 /\ \E k : CascadeOf(Top(t), k) /\ k.group = 0 /\ Calls' = {k} \cup Range(Below(t))
              \/ \E k, c : /\ CascadeOf(Top(t), k) /\ k.group = GroupsOf(Top(t).lod) - 1 /\ Brings(k, c)
                           /\ Adds(c, {k} \cup Range(Below(t)), Calls')
<1> DEFINE f == Top(t)
           l == Top(t).lod
           B == Range(Below(t))
           s == stored'
<1>0. Typed /\ Stacks /\ References
  BY DEF Shape
<1>1. PICK call :
        /\ Wrote(f, call)
        /\ \/ /\ call.group = 0
              /\ \E st : Becomes(t, st) /\ Nested(t, st) /\ Range(st) = {call} \cup B
              /\ pending' = pending /\ errors' = errors /\ dropped' = dropped
           \/ /\ call.group \in 1..Len(Groups) /\ l + 1 \in Lod
              /\ CascadesInto(t, call, Below(t))
  BY <1>0, WriteTileDoes
<1>2. /\ stack[t] # << >> /\ f.at = "write" /\ Saves(f) /\ CallOK(f)
      /\ StoredAs(t, s)
      /\ UNCHANGED <<cache, heap>>
  BY <1>0, WriteTileDoes DEF StoredAs
<1>3. CascadeOf(f, call) /\ call.group = GroupsOf(l) /\ call.lod = l /\ Saves(call) /\ call.at = "cascade"
  BY <1>1 DEF Wrote, CascadeOf
<1>4. Waiting(B)
  BY <1>2, OneStack
<1>5. l \in Nat /\ l + 1 # l
  BY <1>2 DEF CallOK, Lod
<1> HIDE DEF s
<1>6. /\ Core(pending, cache, heap, s, errors, B)
      /\ Saving(pending, heap, s, errors, call)
      /\ Kept(pending, heap, stored, pending, heap, s)
      /\ s[l][TopPos(t)] = Subject(f)
      /\ \A m \in Lod, x \in Pos : <<m, x>> # <<l, TopPos(t)>> => s[m][x] = stored[m][x]
      /\ \A m : m # l => s[m] = stored[m]
  BY <1>2, <1>3, StoresCore
<1>7. s[call.lod + 1] = stored[call.lod + 1]
  BY <1>3, <1>5, <1>6
<1>8. StoresTop(t)
  BY <1>6 DEF StoresTop, s
<1>9. CASE /\ call.group = 0
           /\ \E st : Becomes(t, st) /\ Nested(t, st) /\ Range(st) = {call} \cup B
           /\ pending' = pending /\ errors' = errors /\ dropped' = dropped
  <2>1. PICK st : Becomes(t, st) /\ Range(st) = {call} \cup B
    BY <1>9
  <2>2. Core(pending, cache, heap, s, errors, {call} \cup B)
    BY <1>3, <1>4, <1>6, CoreSaves
  <2>3. Core(pending', cache', heap, stored', errors, Range(st))
    BY <1>2, <1>9, <2>1, <2>2 DEF s
  <2>4. heap' \in {heap, Collected(heap)} /\ errors' = errors
    BY <1>2, <1>9
  <2>5. CoreNow' /\ Calls' = Range(st) /\ Kept(pending', heap, stored', pending', heap', stored')
    BY <1>2, <2>1, <2>3, <2>4, TilesAfter
  <2>6. Unchanged
    BY <1>2, <1>6, <1>9 DEF Unchanged, s
  <2>7. OnlyLayer(l + 1)
    BY <1>9 DEF OnlyLayer
  <2> QED
    BY <1>3, <1>8, <1>9, <2>1, <2>5, <2>6, <2>7
<1>10. CASE /\ call.group \in 1..Len(Groups) /\ l + 1 \in Lod
            /\ CascadesInto(t, call, Below(t))
  <2>1. /\ Core(pending, cache, heap, stored', errors, B)
        /\ Saving(pending, heap, stored', errors, call)
        /\ stored'[call.lod + 1] = stored[call.lod + 1]
    BY <1>6, <1>7 DEF s
  <2> HIDE DEF f, l
  <2>2. /\ CoreNow' /\ Kept(pending, heap, stored', pending', heap', stored')
        /\ OnlyLayer(call.lod + 1)
        /\ \E k, c : /\ CascadeOf(f, k) /\ k.group = call.group - 1 /\ Brings(k, c)
                     /\ Adds(c, {k} \cup B, Calls')
    BY <1>2, <1>3, <1>10, <2>1, CascadesCore DEF f
  <2>3. Unchanged
    <3>1. Kept(pending, heap, stored, pending, heap, stored')
      BY <1>6 DEF s
    <3> QED
      BY <2>2, <3>1, KeptOn DEF Unchanged
  <2> QED
    BY <1>3, <1>8, <2>2, <2>3 DEF f, l
<1> QED
  BY <1>1, <1>9, <1>10

\* The rest of a sequence with one change per tile.
LEMMA TailOnePos ==
    ASSUME NEW S, NEW s \in Seq(S), s # << >>, OnePos(s)
    PROVE  OnePos(Tail(s)) /\ \A c \in Range(Tail(s)) : c.pos # Head(s).pos
<1> DEFINE n == Len(Tail(s))
<1>1. /\ Head(s) = s[1] /\ Len(s) \in Nat \ {0} /\ Len(Tail(s)) = Len(s) - 1 /\ DOMAIN s = 1..Len(s)
      /\ \A i \in 1..n : Tail(s)[i] = s[i + 1] /\ i + 1 \in 1..Len(s)
  BY Elements
<1>2. Tail(s) \in Seq(S)
  BY Elements
<1>3. DOMAIN Tail(s) = 1..n /\ \A c \in Range(Tail(s)) : \E i \in 1..n : c = Tail(s)[i]
  BY <1>2, Elements
<1>4. ASSUME NEW i \in 1..n, NEW j \in 1..n, Tail(s)[i].pos = Tail(s)[j].pos
      PROVE  i = j
  <2>1. s[i + 1].pos = s[j + 1].pos /\ i + 1 \in DOMAIN s /\ j + 1 \in DOMAIN s
    BY <1>1, <1>4
  <2>2. i + 1 = j + 1
    BY <2>1 DEF OnePos
  <2> QED
    BY <1>1, <2>2
<1>5. ASSUME NEW c \in Range(Tail(s)), c.pos = Head(s).pos
      PROVE  FALSE
  <2>1. PICK i \in 1..n : c = Tail(s)[i]
    BY <1>3, <1>5
  <2>2. s[i + 1].pos = s[1].pos /\ i + 1 \in DOMAIN s /\ 1 \in DOMAIN s
    BY <1>1, <1>5, <2>1
  <2>3. i + 1 = 1
    BY <2>2 DEF OnePos
  <2> QED
    BY <1>1, <2>3
<1> QED
  BY <1>3, <1>4, <1>5 DEF OnePos

\* Todo is what is left to save of the changes of a layer.
Left(todo, changes, e) ==
    /\ Range(todo) \subseteq Range(changes) /\ OnePos(todo)
    /\ e = 0 => Range(changes) \subseteq Range(todo)

\* The calls of t once a save has left todo.
GoesOn(t, l, todo) ==
    \/ todo = << >> /\ Calls' = Range(Below(t))
    \/ \E k : /\ CallOK(k) /\ Saves(k) /\ k.at = "write" /\ k.lod = l /\ k.todo = todo
              /\ Calls' = {k} \cup Range(Below(t))

\* Without having given up, the changes are the new ones.
LEMMA NotGivenUp ==
    ASSUME PendingOK(pending), NEW t, NEW l \in Lod, NEW todo, NEW changes, NEW below,
           SavesOnTo(t, l, todo, changes, below), dropped' = FALSE
    PROVE  pending'[l] = changes /\ OnlyLayer(l)
<1>1. pending' = [pending EXCEPT ![l] = changes]
  BY DEF SavesOnTo
<1> QED
  BY <1>1 DEF PendingOK, OnlyLayer

LEMMA SavesOnCore ==
    ASSUME Shape, Shape', Alone, NEW t \in Thread, stack[t] # << >>, Waiting(Range(Below(t))),
           NEW l, NEW todo, NEW changes, SavesOnTo(t, l, todo, changes, Below(t)),
           Core(pending', cache', heap, stored', errors', Range(Below(t))),
           Left(todo, pending'[l], errors'),
           heap' \in {heap, Collected(heap)}
    PROVE  /\ CoreNow' /\ Kept(pending', heap, stored', pending', heap', stored')
           /\ GoesOn(t, l, todo)
<1> DEFINE B == Range(Below(t))
           q == pending'
           c == cache'
           s == stored'
           e == errors'
<1>1. CASE /\ todo = << >>
           /\ Becomes(t, Below(t))
  BY <1>1, TilesAfter DEF GoesOn
<1>2. ASSUME NEW k, NEW st, CallOK(k), Saves(k), k.at = "write", k.lod = l, k.todo = todo,
             k.data = Encoded(heap, l, Head(todo)),
             Becomes(t, st), Range(st) = {k} \cup B
      PROVE  /\ CoreNow' /\ Kept(pending', heap, stored', pending', heap', stored')
             /\ GoesOn(t, l, todo)
  <2>1. Saving(q, heap, s, e, k)
    BY <1>2 DEF Saving, Left, Encoded, TileId
  <2>2. Core(q, c, heap, s, e, B)
    OBVIOUS
  <2> HIDE DEF q, c, s, e, B
  <2>3. Core(q, c, heap, s, e, {k} \cup B)
    BY <1>2, <2>1, <2>2, CoreSaves DEF B
  <2>4. Core(pending', cache', heap, stored', errors', Range(st))
    BY <1>2, <2>3 DEF q, c, s, e
  <2>5. /\ CoreNow' /\ Calls' = Range(st)
        /\ Kept(pending', heap, stored', pending', heap', stored')
    BY <1>2, <2>4, TilesAfter
  <2> QED
    BY <1>2, <2>5 DEF GoesOn, B
<1> QED
  BY <1>1, <1>2 DEF SavesOnTo

\* More errors ask for less.
LEMMA CoreErrs ==
    ASSUME NEW q, NEW k, NEW h, NEW s, NEW e, NEW e2, NEW F, Core(q, k, h, s, e, F), e2 # 0
    PROVE  Core(q, k, h, s, e2, F)
BY DEF Core, Saving

LEMMA WriteFailsCore ==
    ASSUME Shape, Shape', Alone, CoreNow, dropped' = FALSE, NEW t \in Thread, WriteFails(t)
    PROVE  /\ CoreNow' /\ Unchanged /\ pending' = pending /\ UNCHANGED stored
           /\ GoesOn(t, Top(t).lod, Tail(Top(t).todo))
<1> DEFINE f == Top(t)
           l == Top(t).lod
           todo == Tail(Top(t).todo)
           B == Range(Below(t))
<1>0. Typed /\ Stacks /\ References
  BY DEF Shape
<1>1. /\ stack[t] # << >> /\ f.at = "write" /\ Saves(f) /\ CallOK(f)
      /\ errors' = errors + 1
      /\ SavesOnTo(t, l, todo, pending[l], Below(t))
      /\ heap' = Collected(heap)
      /\ UNCHANGED <<cache, stored>>
  BY <1>0, WriteFailsDoes
<1>2. Calls = {f} \cup B /\ Waiting(B)
  BY <1>1, OneStack
<1>3. l \in Lod /\ PendingOK(pending)
  BY <1>0, <1>1 DEF CallOK, Typed
<1>4. pending' = pending
  <2>1. pending' = [pending EXCEPT ![l] = pending[l]]
    BY <1>1 DEF SavesOnTo
  <2> QED
    BY <1>3, <2>1 DEF PendingOK
<1>5. errors' # 0
  BY <1>0, <1>1 DEF Typed
<1>6. Core(pending, cache, heap, stored, errors', B)
  <2> DEFINE e == errors'
             F == Calls
  <2>1. Core(pending, cache, heap, stored, errors, F) /\ B \subseteq F
    BY <1>2 DEF CoreNow
  <2> HIDE DEF e, F, B
  <2>2. Core(pending, cache, heap, stored, errors, B)
    BY <1>2, <2>1, CoreOver
  <2>3. e # 0
    BY <1>5 DEF e
  <2>4. Core(pending, cache, heap, stored, e, B)
    BY <2>2, <2>3, CoreErrs
  <2> QED
    BY <2>4 DEF e, B
<1>7. Saving(pending, heap, stored, errors, f)
  BY <1>1, <1>2 DEF CoreNow, Core
<1>8. Left(todo, pending'[l], errors')
  <2> DEFINE todos == f.todo
  <2>1. todos \in Seq(PendingChange) /\ todos # << >>
    BY <1>1, HeadOfSave
  <2>2. Range(todos) \subseteq Range(pending[l]) /\ OnePos(todos)
    BY <1>7 DEF Saving
  <2> HIDE DEF todos
  <2>3. Range(Tail(todos)) \subseteq Range(todos)
    BY <2>1, Elements
  <2>4. OnePos(Tail(todos))
    BY <2>1, <2>2, TailOnePos
  <2> QED
    BY <1>4, <1>5, <2>2, <2>3, <2>4 DEF Left, todos
<1>9. Core(pending', cache', heap, stored', errors', B)
  BY <1>1, <1>4, <1>6
<1>10. heap' \in {heap, Collected(heap)}
  BY <1>1
<1> HIDE DEF l, todo
<1>11. /\ CoreNow' /\ Kept(pending', heap, stored', pending', heap', stored')
       /\ GoesOn(t, l, todo)
  BY <1>1, <1>2, <1>8, <1>9, <1>10, SavesOnCore
<1>12. Unchanged
  BY <1>1, <1>4, <1>11 DEF Unchanged
<1> QED
  BY <1>1, <1>4, <1>11, <1>12 DEF l, todo

\* The tile at p of layer l has no changes any more, the others have what they had.
FreedIn(q, q2, l, p) ==
    /\ IdsIn(q2, l, p) = {}
    /\ \A m \in Lod, x \in Pos : <<m, x>> # <<l, p>> => IdsIn(q2, m, x) = IdsIn(q, m, x)

\* The layers that the calls save have the changes they had.
SavesKeep(q, q2, B) == \A g \in B : Saves(g) => q2[g.lod] = q[g.lod]

\* The changes of a layer without that of the tile at p, which is stored as it is.
LEMMA CoreFrees ==
    ASSUME NEW q, NEW q2, NEW k, NEW h, NEW s, NEW e, NEW F, NEW B, Core(q, k, h, s, e, F), B \subseteq F,
           Waiting(B), NEW l \in Lod, NEW p \in Pos, NEW n \in IdsIn(q, l, p),
           ShowsFile(h, s, l, p, n), s[l][p] # Missing, FreedIn(q, q2, l, p), SavesKeep(q, q2, B)
    PROVE  Core(q2, k, h, s, e, B) /\ Kept(q, h, s, q2, h, s)
<1>0. /\ IdsIn(q2, l, p) = {}
      /\ \A m \in Lod, x \in Pos : <<m, x>> # <<l, p>> => IdsIn(q2, m, x) = IdsIn(q, m, x)
  BY DEF FreedIn
<1>1. \A m \in Lod, x \in Pos : Ids(q2, k, B, m, x) \subseteq Ids(q, k, F, m, x)
  BY <1>0 DEF Ids, IdsOf
<1>2. \A i \in Ids(q, k, F, l, p) : i = n
  <2>1. n \in Ids(q, k, F, l, p)
    BY DEF Ids
  <2> QED
    BY <2>1 DEF Core, Single
<1>3. h[<<l, p, n>>] = FileOf(s, l, p)
  BY DEF ShowsFile
<1>4. Single(q2, k, B)
  BY <1>1 DEF Core, Single
<1>5. Clean(q2, k, h, s, B)
  <2> SUFFICES ASSUME NEW m \in Lod, NEW x \in Pos, IdsIn(q2, m, x) = {}, NEW i \in Ids(q2, k, B, m, x)
               PROVE  h[<<m, x, i>>] = FileOf(s, m, x)
    BY DEF Clean
  <2>0. i \in Ids(q, k, F, m, x)
    BY <1>1
  <2>1. CASE <<m, x>> = <<l, p>>
    <3>1. m = l /\ x = p
      BY <2>1
    <3>2. i = n
      BY <1>2, <2>0, <3>1
    <3> QED
      BY <1>3, <3>1, <3>2
  <2>2. CASE <<m, x>> # <<l, p>>
    <3>1. IdsIn(q, m, x) = {}
      BY <1>0, <2>2
    <3> QED
      BY <2>0, <3>1 DEF Core, Clean
  <2> QED
    BY <2>1, <2>2
<1>6. \A g \in B : Saves(g) => Saving(q2, h, s, e, g)
  BY DEF Core, Saving, SavesKeep
<1>7. \A g \in B : Setting(q2, k, s, B, g)
  BY DEF Setting, Waiting
<1>8. Kept(q, h, s, q2, h, s)
  <2> SUFFICES ASSUME NEW m \in Lod, NEW x \in Pos PROVE Same(q, h, s, q2, h, s, m, x)
    BY DEF Kept
  <2>1. CASE <<m, x>> # <<l, p>>
    <3>1. IdsIn(q2, m, x) = IdsIn(q, m, x)
      BY <1>0, <2>1
    <3> QED
      BY <3>1 DEF Same, Holds, Exists
  <2>2. CASE m = l /\ x = p
    <3>1. Exists(q2, s, l, p)
      BY DEF Exists
    <3>2. ASSUME NEW px \in Pixel, NEW v, Holds(q, h, s, l, p, px, v)
          PROVE  Holds(q2, h, s, l, p, px, v)
      <4>1. h[<<l, p, n>>][px] = v
        BY <3>2 DEF Holds
      <4> QED
        BY <1>0, <1>3, <4>1 DEF Holds
    <3> QED
      BY <2>2, <3>1, <3>2 DEF Same
  <2> QED
    BY <2>1, <2>2
<1> QED
  BY <1>4, <1>5, <1>6, <1>7, <1>8 DEF Core

\* pendingChanges.delete takes away the change of the tile at p only.
LEMMA FreedIds ==
    ASSUME NEW l \in Lod, NEW p \in Pos, NEW q, Freed(pending[l], q[l], p),
           \A m \in Lod : m # l => q[m] = pending[m]
    PROVE  FreedIn(pending, q, l, p)
<1>1. Range(q[l]) = {c \in Range(pending[l]) : c.pos # p}
  BY DEF Freed
<1>2. IdsIn(q, l, p) = {}
  BY <1>1 DEF IdsIn
<1>3. ASSUME NEW x \in Pos, x # p PROVE IdsIn(q, l, x) = IdsIn(pending, l, x)
  <2>1. {d \in Range(q[l]) : d.pos = x} = {d \in Range(pending[l]) : d.pos = x}
    BY <1>1, <1>3
  <2> QED
    BY <2>1 DEF IdsIn
<1>4. \A m \in Lod, x \in Pos : m # l => IdsIn(q, m, x) = IdsIn(pending, m, x)
  BY DEF IdsIn
<1> QED
  BY <1>2, <1>3, <1>4 DEF FreedIn

\* The rest is what is left.
LEMMA LeftAfter ==
    ASSUME NEW todo \in Seq(PendingChange), todo # << >>, NEW q, NEW r, NEW e,
           Range(todo) \subseteq Range(q), OnePos(todo), e = 0 => Range(q) \subseteq Range(todo),
           Freed(q, r, Head(todo).pos)
    PROVE  Left(Tail(todo), r, e)
<1>1. Range(r) = {c \in Range(q) : c.pos # Head(todo).pos}
  BY DEF Freed
<1>2. OnePos(Tail(todo)) /\ \A c \in Range(Tail(todo)) : c.pos # Head(todo).pos
  BY TailOnePos
<1>3. Range(todo) = {Head(todo)} \cup Range(Tail(todo))
  BY Elements
<1> QED
  BY <1>1, <1>2, <1>3 DEF Left

\* What is left once a tile is saved.
LEMMA EndTileLeft ==
    ASSUME Shape, Alone, CoreNow, NEW t \in Thread, EndTile(t)
    PROVE  Left(Tail(Top(t).todo), Without(Top(t).lod, TopPos(t)), errors)
<1> DEFINE l == Top(t).lod
           p == TopPos(t)
           all == Top(t).todo
           q == pending[l]
           r == Without(l, p)
<1>0. Typed /\ Stacks /\ References
  BY DEF Shape
<1>1. stack[t] # << >> /\ Saves(Top(t)) /\ CallOK(Top(t))
  BY <1>0, EndTileDoes
<1>2. /\ l \in Lod /\ p \in Pos /\ PendingOK(pending) /\ p = Head(all).pos
      /\ all \in Seq(PendingChange) /\ all # << >>
  BY <1>0, <1>1, HeadOfSave DEF CallOK, Typed, TopPos
<1>3. Freed(q, r, p)
  BY <1>2, Free
<1>4. Saving(pending, heap, stored, errors, Top(t))
  BY <1>1, OneStack DEF CoreNow, Core
<1>5. Range(all) \subseteq Range(q) /\ OnePos(all) /\ (errors = 0 => Range(q) \subseteq Range(all))
  BY <1>4 DEF Saving
<1> HIDE DEF all, q, r
<1>6. Freed(q, r, Head(all).pos)
  BY <1>2, <1>3
<1>7. Left(Tail(all), r, errors)
  BY <1>2, <1>5, <1>6, LeftAfter
<1> QED
  BY <1>7 DEF all, r

LEMMA EndTileCore ==
    ASSUME Shape, Shape', Alone, CoreNow, dropped' = FALSE, NEW t \in Thread, EndTile(t)
    PROVE  /\ CoreNow' /\ Unchanged /\ OnlyLayer(Top(t).lod) /\ UNCHANGED <<stored, errors>>
           /\ GoesOn(t, Top(t).lod, Tail(Top(t).todo))
           /\ Left(Tail(Top(t).todo), pending'[Top(t).lod], errors)
<1> DEFINE f == Top(t)
           l == Top(t).lod
           p == TopPos(t)
           todo == Tail(Top(t).todo)
           B == Range(Below(t))
           n == Head(Top(t).todo).id
<1>0. Typed /\ Stacks /\ References
  BY DEF Shape
<1>1. /\ stack[t] # << >> /\ f.at = "cascade" /\ Saves(f) /\ CallOK(f)
      /\ SavesOnTo(t, l, todo, Without(l, p), Below(t))
      /\ heap' = Collected(heap)
      /\ UNCHANGED <<cache, stored, errors>>
  BY <1>0, EndTileDoes DEF envVars
<1>2. Calls = {f} \cup B /\ Waiting(B) /\ \A g \in B : Saves(g) => g.lod < l
  BY <1>1, OneStack
<1>3. /\ l \in Lod /\ PendingOK(pending) /\ p \in Pos /\ p = Head(f.todo).pos /\ l \in Nat
      /\ Head(f.todo) \in Range(f.todo) /\ f.todo \in Seq(PendingChange) /\ f.todo # << >>
  BY <1>0, <1>1, HeadOfSave DEF CallOK, Typed, TopPos, Lod
<1>4. pending'[l] = Without(l, p) /\ OnlyLayer(l)
  <2> DEFINE changes == Without(l, p)
  <2>1. SavesOnTo(t, l, todo, changes, Below(t))
    BY <1>1
  <2> HIDE DEF changes, l, p, todo
  <2> QED
    BY <1>3, <2>1, NotGivenUp DEF changes
<1>5. Freed(pending[l], pending'[l], p)
  BY <1>3, <1>4, Free
<1>6. Saving(pending, heap, stored, errors, f)
  BY <1>1, <1>2 DEF CoreNow, Core
<1>7. Left(todo, pending'[l], errors)
  BY <1>4, EndTileLeft
<1>8. n \in IdsIn(pending, l, p)
  BY <1>3, <1>6 DEF Saving, IdsIn
<1>9. stored[l][p] = heap[<<l, p, n>>]
  BY <1>1, <1>3, <1>6 DEF Saving, TileId
<1>10. stored[l][p] \in TilePixels
  <2>1. <<l, p, n>> \in DOMAIN heap
    BY <1>0, <1>3, <1>8, IdsAre DEF References
  <2> QED
    BY <1>0, <1>9, <2>1 DEF Typed
<1>11. stored[l][p] # Missing /\ ShowsFile(heap, stored, l, p, n)
  BY <1>9, <1>10, BlankIsTile DEF ShowsFile, FileOf
<1>12. \A g \in B : Saves(g) => pending'[g.lod] = pending[g.lod]
  <2>1. ASSUME NEW g \in B, Saves(g) PROVE pending'[g.lod] = pending[g.lod]
    <3>1. g.lod < l /\ CallOK(g)
      BY <1>1, <1>2, <2>1, OneStack
    <3>2. g.lod \in Lod /\ g.lod # l
      BY <1>3, <3>1 DEF CallOK, Lod
    <3> QED
      BY <1>4, <3>2 DEF OnlyLayer
  <2> QED
    BY <2>1
<1>13. FreedIn(pending, pending', l, p)
  <2> DEFINE q == pending'
  <2>1. Freed(pending[l], q[l], p) /\ \A m \in Lod : m # l => q[m] = pending[m]
    BY <1>4, <1>5 DEF OnlyLayer
  <2> HIDE DEF q, l, p
  <2>2. FreedIn(pending, q, l, p)
    BY <1>3, <2>1, FreedIds
  <2> QED
    BY <2>2 DEF q
<1>14. Core(pending', cache, heap, stored, errors, B) /\ Kept(pending, heap, stored, pending', heap, stored)
  <2> DEFINE q2 == pending'
             F == Calls
  <2>1. /\ Core(pending, cache, heap, stored, errors, F) /\ B \subseteq F /\ Waiting(B)
        /\ FreedIn(pending, q2, l, p)
        /\ SavesKeep(pending, q2, B)
    BY <1>2, <1>12, <1>13 DEF CoreNow, SavesKeep
  <2> HIDE DEF q2, F, B, l, p, n
  <2>2. Core(q2, cache, heap, stored, errors, B) /\ Kept(pending, heap, stored, q2, heap, stored)
    BY <1>3, <1>8, <1>11, <2>1, CoreFrees
  <2> QED
    BY <2>2 DEF q2
<1>15. Core(pending', cache', heap, stored', errors', B)
  BY <1>1, <1>14
<1>16. heap' \in {heap, Collected(heap)} /\ Left(todo, pending'[l], errors')
  BY <1>1, <1>7
<1> HIDE DEF l, todo, p
<1>17. /\ CoreNow' /\ Kept(pending', heap, stored', pending', heap', stored')
       /\ GoesOn(t, l, todo)
  BY <1>1, <1>2, <1>15, <1>16, SavesOnCore
<1>18. Kept(pending, heap, stored, pending', heap, stored')
  BY <1>1, <1>14
<1>19. Unchanged
  BY <1>17, <1>18, KeptOn DEF Unchanged
<1> QED
  BY <1>1, <1>4, <1>7, <1>17, <1>19 DEF l, todo

-----------------------------------------------------------------------------
(* The steps of the manager and of the environment, with one worker *)

\* Neither a call is under way nor a tile is pending or cached.
NoCalls == Calls = {} /\ \A t \in Thread : Only(t)

\* Without calls.
LEMMA NoneUnderWay ==
    ASSUME stack["writer"] = << >>, stack["saver"] = << >>
    PROVE  NoCalls
<1>1. Range(<< >>) = {}
  BY DEF Range
<1> QED
  BY <1>1 DEF NoCalls, Calls, Thread, Only

LEMMA WriteCore ==
    ASSUME Shape, Shape', Alone, CoreNow, dropped' = FALSE, Write
    PROVE  /\ CoreNow' /\ Unchanged /\ OnlyLayer(1) /\ NoCalls
           /\ \E call : NextWrite(call) /\ Adds(call, {}, Calls')
<1>0. Typed /\ Stacks /\ References /\ Phases
  BY DEF Shape
<1>1. /\ stack["writer"] = << >> /\ queue # << >> /\ UNCHANGED <<cache, heap, stored>>
  BY <1>0, WriteDoes
<1>2. PICK call : NextWrite(call) /\ Enters("writer", call, << >>, heap)
  BY <1>0, WriteDoes
<1>3. stack["saver"] = << >>
  BY <1>0, <1>1 DEF Alone, Phases
<1>4. NoCalls /\ Only("writer") /\ "writer" \in Thread
  BY <1>1, <1>3, NoneUnderWay DEF NoCalls, Thread
<1>5. Range(<< >>) = {}
  BY DEF Range
<1>6. Core(pending, cache, heap, stored, errors, Range(<< >>))
  BY <1>4, <1>5 DEF CoreNow, NoCalls
<1>7. CallOK(call) /\ Sets(call) /\ call.lod = 1 /\ Under(Range(<< >>), call.lod)
  BY <1>2, <1>5 DEF NextWrite, Under
<1>8. Cored("writer", call, Range(<< >>), cache, heap, stored, errors) /\ errors' = errors
  BY <1>0, <1>2, <1>6, <1>7, HeapOK, EntersCore
<1>9. Cored("writer", call, {}, cache', heap, stored', errors)
  BY <1>1, <1>5, <1>8
<1>10. heap' \in {heap, Collected(heap)}
  BY <1>1
<1>11. /\ CoreNow' /\ Adds(call, {}, Calls')
       /\ Kept(pending, heap, stored', pending', heap', stored')
       /\ \A m \in Lod : m # call.lod => pending'[m] = pending[m]
  BY <1>4, <1>8, <1>9, <1>10, CoredAlone
<1>12. Unchanged
  BY <1>1, <1>11 DEF Unchanged
<1> QED
  BY <1>2, <1>4, <1>7, <1>11, <1>12 DEF OnlyLayer

\* A save of a layer begins, or there is nothing to save.
LEMMA SaveLayerCore ==
    ASSUME Shape, Shape', Alone, CoreNow, SaveLayer
    PROVE  /\ CoreNow' /\ NoCalls /\ UNCHANGED <<pending, heap, stored>>
           /\ \/ pending[layer] = << >> /\ Calls' = {}
              \/ \E f : Saves(f) /\ CallOK(f) /\ f.lod = layer /\ Calls' = {f}
<1>0. Typed /\ Stacks /\ References /\ Phases
  BY DEF Shape
<1>1. /\ phase = "save" /\ stack["saver"] = << >> /\ layer <= LodCount
      /\ Becomes("saver", IF pending[layer] = << >> THEN << >> ELSE <<SaveCall(heap, layer)>>)
      /\ UNCHANGED <<pending, cache, heap, stored, errors>>
  BY DEF SaveLayer, LayerToSave, tileVars, envVars
<1>2. stack["writer"] = << >>
  BY <1>1 DEF Alone
<1>3. NoCalls /\ Only("saver") /\ "saver" \in Thread
  BY <1>1, <1>2, NoneUnderWay DEF NoCalls, Thread
<1>4. Core(pending, cache, heap, stored, errors, {})
  BY <1>3 DEF CoreNow, NoCalls
<1>5. layer \in Lod
  BY <1>0, <1>1 DEF Typed, Lod
<1>6. CASE pending[layer] = << >>
  <2>1. Becomes("saver", << >>) /\ Range(<< >>) = {}
    BY <1>1, <1>6 DEF Range
  <2>2. Calls' = {}
    BY <1>0, <1>3, <2>1, CallsAfter
  <2>3. CoreNow'
    BY <1>1, <1>4, <2>2 DEF CoreNow
  <2> QED
    BY <1>1, <1>3, <1>6, <2>2, <2>3
<1>7. CASE pending[layer] # << >>
  <2> DEFINE f == SaveCall(heap, layer)
             l == layer
  <2>1. Becomes("saver", <<f>>) /\ Range(<<f>>) = {f}
    BY <1>1, <1>7 DEF Range
  <2>2. Calls' = {f}
    BY <1>0, <1>3, <2>1, CallsAfter
  <2>3. PendingOK(pending) /\ PendingIn(pending, DOMAIN heap) /\ TilesOK(heap)
    BY <1>0, HeapOK DEF Typed, References
  <2>4. /\ CallOK(f) /\ Saves(f) /\ f.at = "write" /\ f.lod = l /\ f.todo = pending[l]
        /\ f.data = Encoded(heap, l, Head(pending[l]))
    BY <1>5, <1>7, <2>3, SaveCallOK
  <2> HIDE DEF f
  <2>5. Saving(pending, heap, stored, errors, f)
    <3>1. OnePos(pending[l])
      BY <1>5, <2>3 DEF PendingOK
    <3> QED
      BY <2>4, <3>1 DEF Saving, Encoded, TileId
  <2>6. Core(pending, cache, heap, stored, errors, {f} \cup {})
    <3>1. Waiting({})
      BY DEF Waiting
    <3> QED
      BY <1>4, <2>4, <2>5, <3>1, CoreSaves
  <2>7. CoreNow'
    BY <1>1, <2>2, <2>6 DEF CoreNow
  <2> QED
    BY <1>1, <1>3, <2>2, <2>4, <2>7
<1> QED
  BY <1>6, <1>7

\* No instances and no calls.
LEMMA CoreEmpty ==
    ASSUME NEW q, NEW k, NEW h, NEW s, NEW e,
           \A l \in Lod : q[l] = << >> /\ \A p \in Pos : k[l][p] = 0
    PROVE  Core(q, k, h, s, e, {})
<1>1. Range(<< >>) = {}
  BY DEF Range
<1>2. \A l \in Lod, p \in Pos : Ids(q, k, {}, l, p) = {}
  <2> SUFFICES ASSUME NEW l \in Lod, NEW p \in Pos PROVE Ids(q, k, {}, l, p) = {}
    OBVIOUS
  <2>1. IdsIn(q, l, p) = {}
    BY <1>1 DEF IdsIn
  <2>2. IdsOf({}, l, p) = {}
    BY DEF IdsOf
  <2> QED
    BY <2>1, <2>2 DEF Ids
<1> QED
  BY <1>2 DEF Core, Single, Clean

LEMMA DiscardCore == ASSUME Shape, Discard PROVE CoreNow' /\ phase' = "delete" /\ Calls' = {}
<1>0. Phases
  BY DEF Shape
<1>1. /\ phase = "purge" /\ stack["writer"] = << >> /\ stack' = stack
      /\ \A l \in Lod : pending'[l] = << >> /\ \A p \in Pos : cache'[l][p] = 0
      /\ phase' = "delete"
  BY DEF Discard, Drained
<1>2. stack["saver"] = << >>
  BY <1>0, <1>1 DEF Phases
<1>3. Calls = {}
  BY <1>1, <1>2, NoneUnderWay DEF NoCalls
<1>4. Calls' = {}
  BY <1>1, <1>3 DEF Calls
<1> DEFINE q == pending'
           k == cache'
           h == heap'
           s == stored'
           e == errors'
<1>5. \A l \in Lod : q[l] = << >> /\ \A p \in Pos : k[l][p] = 0
  BY <1>1
<1> HIDE DEF q, k, h, s, e
<1>6. Core(q, k, h, s, e, {})
  BY <1>5, CoreEmpty
<1> QED
  BY <1>1, <1>4, <1>6 DEF CoreNow, q, k, h, s, e

LEMMA DeleteStoredCore ==
    ASSUME Shape, DeleteStored
    PROVE  /\ CoreNow' /\ NoCalls /\ Calls' = {} /\ UNCHANGED <<want, pending>>
           /\ \A l \in Lod, p \in Pos : stored'[l][p] = Missing
           /\ \A l \in Lod : pending[l] = << >>
           /\ \A c \in Cell : want[c] = 0
<1>0. Phases
  BY DEF Shape
<1>1. /\ phase = "delete" /\ UNCHANGED <<stack, pending, cache, want>>
      /\ \A l \in Lod, p \in Pos : stored'[l][p] = Missing
  BY DEF DeleteStored, ghosts
<1>2. /\ stack["writer"] = << >> /\ stack["saver"] = << >>
      /\ \A l \in Lod : pending[l] = << >> /\ \A p \in Pos : cache[l][p] = 0
      /\ \A c \in Cell : want[c] = 0
  BY <1>0, <1>1 DEF Phases
<1>3. NoCalls
  BY <1>2, NoneUnderWay
<1>4. Calls' = {}
  BY <1>1, <1>3 DEF Calls, NoCalls
<1> DEFINE q == pending'
           k == cache'
           h == heap'
           s == stored'
           e == errors'
<1>5. \A l \in Lod : q[l] = << >> /\ \A p \in Pos : k[l][p] = 0
  BY <1>1, <1>2
<1> HIDE DEF q, k, h, s, e
<1>6. Core(q, k, h, s, e, {})
  BY <1>5, CoreEmpty
<1> QED
  BY <1>1, <1>2, <1>3, <1>4, <1>6 DEF CoreNow, q, k, h, s, e

\* Cached tiles that go.
LEMMA CoreExpires ==
    ASSUME NEW q, NEW k, NEW k2, NEW h, NEW s, NEW e, NEW F, Core(q, k, h, s, e, F),
           \A l \in Lod, p \in Pos : k2[l][p] \in {0, k[l][p]},
           \A f \in F : CallOK(f)
    PROVE  Core(q, k2, h, s, e, F)
<1>1. \A l \in Lod, p \in Pos : Ids(q, k2, F, l, p) \subseteq Ids(q, k, F, l, p)
  BY DEF Ids
<1>2. Single(q, k2, F) /\ Clean(q, k2, h, s, F)
  BY <1>1 DEF Core, Single, Clean
<1>3. ASSUME NEW f \in F, Sets(f) PROVE Setting(q, k2, s, F, f)
  <2>1. f.lod \in Lod /\ Head(f.todo).pos \in Pos
    BY <1>3, HeadOfSet DEF CallOK
  <2>2. Setting(q, k, s, F, f)
    BY <1>3 DEF Core
  <2> QED
    BY <1>1, <2>1, <2>2 DEF Setting
<1> QED
  BY <1>2, <1>3 DEF Core

LEMMA ExpireCore ==
    ASSUME Shape, Shape', CoreNow, NEW l \in Lod, NEW p \in Pos, Expire(l, p)
    PROVE  CoreNow' /\ Unchanged /\ Calls' = Calls /\ UNCHANGED <<pending, stored>>
<1>0. Typed
  BY DEF Shape
<1>1. /\ cache' = [cache EXCEPT ![l][p] = 0] /\ heap' = Collected(heap)
      /\ UNCHANGED <<pending, stack, stored, errors>>
  BY DEF Expire, envVars
<1>2. Calls' = Calls
  BY <1>1 DEF Calls
<1>3. There'
  BY CallsThere, PTL
<1>4. \A i \in DOMAIN heap' : heap'[i] = heap[i]
  BY <1>1, CollectedAgrees
<1>5. \A m \in Lod, x \in Pos : cache'[m][x] \in {0, cache[m][x]}
  BY <1>0, <1>1 DEF Typed
<1> DEFINE k == cache'
           h2 == heap'
           D == DOMAIN heap'
           F == Calls'
<1>6. /\ PendingIn(pending, D) /\ CacheIn(k, D) /\ CallsIn(F, D) /\ \A f \in F : CallOK(f)
      /\ \A i \in D : h2[i] = heap[i]
      /\ \A m \in Lod, x \in Pos : k[m][x] \in {0, cache[m][x]}
  BY <1>1, <1>3, <1>4, <1>5 DEF There
<1>7. Core(pending, cache, heap, stored, errors, F)
  BY <1>2 DEF CoreNow
<1> HIDE DEF k, h2, D, F
<1>8. Core(pending, k, heap, stored, errors, F)
  BY <1>6, <1>7, CoreExpires
<1>9. Core(pending, k, h2, stored, errors, F) /\ Kept(pending, heap, stored, pending, h2, stored)
  BY <1>6, <1>8, TilesAgree
<1> QED
  BY <1>1, <1>2, <1>9 DEF CoreNow, Unchanged, k, h2, F

\* The steps that leave the calls and the tiles alone.
Quiet == (\E s \in Writes[threads] : Set(s)) \/ Save \/ Purge \/ SaveFlushed \/ SaveEnds

LEMMA QuietCore ==
    ASSUME CoreNow, Quiet
    PROVE  CoreNow' /\ Unchanged /\ Calls' = Calls /\ UNCHANGED <<pending, stored>>
<1>1. UNCHANGED <<stack, pending, cache, heap, stored, errors>>
  BY DEF Quiet, Set, Save, Purge, SaveFlushed, SaveEnds, tileVars, envVars
<1>2. Calls' = Calls
  BY <1>1 DEF Calls
<1>3. Kept(pending, heap, stored, pending, heap, stored)
  BY DEF Kept, Same
<1> QED
  BY <1>1, <1>2, <1>3 DEF CoreNow, Unchanged

-----------------------------------------------------------------------------
(* Saves exclude writes, and what is given up *)

\* What every step of a call leaves alone.
LEMMA StepFrame ==
    ASSUME Typed, Stacks, References, NEW t \in Thread, Step(t)
    PROVE  /\ stack[t] # << >> /\ (\E st : Becomes(t, st))
           /\ UNCHANGED <<queue, phase, layer, threads, want>>
           /\ dropped' = FALSE => dropped = FALSE
<1>0. dropped \in BOOLEAN
  BY DEF Typed
<1> USE DEF ghosts, envVars
<1>1. CASE KeepTile(t)
  BY <1>1, KeepTileDoes DEF Joins
<1>2. CASE AddChange(t)
  BY <1>2, AddChangeDoes DEF Joins
<1>3. ASSUME NEW f, NEW b, NEW h, Enters(t, f, b, h)
      PROVE  (\E st : Becomes(t, st)) /\ (dropped' = FALSE => dropped = FALSE)
  <2>1. \E st : Becomes(t, st)
    BY <1>3 DEF Enters, Joins, LoadsTile
  <2>2. dropped' = dropped \/ dropped' = TRUE
    BY <1>3 DEF Enters, LoadsTile
  <2> QED
    BY <2>1, <2>2
<1>4. CASE SetPixel(t)
  BY <1>3, <1>4, SetPixelDoes
<1>5. CASE WriteTile(t)
  BY <1>3, <1>5, WriteTileDoes DEF CascadesInto
<1>6. CASE Cascade(t)
  BY <1>3, <1>6, CascadeDoes DEF CascadesInto
<1>7. ASSUME NEW l, NEW todo, NEW changes, NEW b, SavesOnTo(t, l, todo, changes, b)
      PROVE  (\E st : Becomes(t, st)) /\ (dropped' = FALSE => dropped = FALSE)
  <2>1. \E st : Becomes(t, st)
    BY <1>7 DEF SavesOnTo
  <2>2. dropped' = dropped \/ dropped' = (dropped \/ GivesUp(changes))
    BY <1>7 DEF SavesOnTo
  <2>3. dropped' = FALSE => dropped = FALSE
    BY <1>0, <2>2, Zenon
  <2> QED
    BY <2>1, <2>3
<1>8. CASE WriteFails(t)
  BY <1>7, <1>8, WriteFailsDoes
<1>9. CASE EndTile(t)
  BY <1>7, <1>9, EndTileDoes
<1> QED
  BY <1>1, <1>2, <1>4, <1>5, <1>6, <1>8, <1>9 DEF Step

LEMMA AloneStep ==
    ASSUME Shape, threads = 1, Alone, [Next]_vars
    PROVE  Alone'
<1>0. Typed /\ Stacks /\ References
  BY DEF Shape
<1>1. ASSUME NEW t \in Thread, Step(t) PROVE Alone'
  <2>1. /\ stack[t] # << >> /\ (\E st : Becomes(t, st))
        /\ UNCHANGED <<queue, phase, layer, threads, want>>
    BY <1>0, <1>1, StepFrame
  <2>2. \A u \in Thread \ {t} : stack'[u] = stack[u]
    BY <1>0, <2>1, StacksAfter
  <2> QED
    BY <2>1, <2>2 DEF Alone, Thread
<1>2. CASE Write
  <2>1. queue # << >> /\ phase' = phase
    BY <1>0, <1>2, WriteDoes
  <2> QED
    BY <2>1 DEF Alone
<1>3. CASE SaveLayer
  <2>1. \E st : Becomes("saver", st)
    BY <1>3 DEF SaveLayer
  <2>2. stack'["writer"] = stack["writer"]
    BY <1>0, <2>1, StacksAfter DEF Thread
  <2> QED
    BY <1>3, <2>2 DEF SaveLayer, Alone
<1>4. CASE Discard \/ SaveFlushed
  BY <1>4 DEF Discard, SaveFlushed, Drained, Alone
<1>5. CASE SaveEnds \/ DeleteStored \/ DeleteStops \/ Save \/ Purge
  BY <1>5 DEF SaveEnds, DeleteStored, DeleteStops, Save, Purge, Alone
<1>6. CASE \E s \in Writes[threads] : Set(s)
  <2>1. phase' \notin {"save", "saved", "delete", "purged", "cut"}
    BY <1>6 DEF Set
  <2> QED
    BY <2>1 DEF Alone
<1>7. CASE \E l \in Lod, p \in Pos : Expire(l, p)
  BY <1>7 DEF Expire, Alone
<1>8. CASE UNCHANGED vars
  BY <1>8 DEF vars, Alone
<1> QED
  BY <1>1, <1>2, <1>3, <1>4, <1>5, <1>6, <1>7, <1>8 DEF Next, Manage, Environment

\* Errors are counted up, and what is lost without one is given up by a save.
LEMMA ErrorsGrow ==
    ASSUME Shape, [Next]_vars
    PROVE  /\ errors' \in {errors, errors + 1}
           /\ \/ errors' = errors /\ dropped' = dropped
              \/ errors' = errors + 1
              \/ \E t \in Thread : EndTile(t)
<1> DEFINE Calm == errors' = errors /\ dropped' = dropped
<1>0. Typed /\ Stacks /\ References
  BY DEF Shape
<1>1. ASSUME NEW t, NEW f, NEW b, NEW h, Enters(t, f, b, h)
      PROVE  Calm \/ errors' = errors + 1
  BY <1>1 DEF Enters, LoadsTile
<1>2. ASSUME NEW t \in Thread, Step(t)
      PROVE  Calm \/ errors' = errors + 1 \/ (EndTile(t) /\ errors' = errors)
  <2>1. CASE KeepTile(t)
    BY <1>0, <2>1, KeepTileDoes DEF ghosts, envVars
  <2>2. CASE AddChange(t)
    BY <1>0, <2>2, AddChangeDoes DEF ghosts, envVars
  <2>3. CASE SetPixel(t)
    BY <1>0, <1>1, <2>3, SetPixelDoes
  <2>4. CASE WriteTile(t)
    BY <1>0, <1>1, <2>4, WriteTileDoes DEF CascadesInto
  <2>5. CASE Cascade(t)
    BY <1>0, <1>1, <2>5, CascadeDoes DEF CascadesInto
  <2>6. CASE WriteFails(t)
    BY <1>0, <2>6, WriteFailsDoes
  <2>7. CASE EndTile(t)
    BY <1>0, <2>7, EndTileDoes DEF envVars
  <2> QED
    BY <1>2, <2>1, <2>2, <2>3, <2>4, <2>5, <2>6, <2>7 DEF Step
<1>3. CASE Write
  BY <1>0, <1>1, <1>3, WriteDoes
<1>4. CASE SaveFlushed \/ SaveLayer \/ SaveEnds \/ Discard \/ DeleteStored
  BY <1>4 DEF SaveFlushed, SaveLayer, SaveEnds, Discard, DeleteStored, ghosts, envVars
<1>5. CASE Environment
  BY <1>5 DEF Environment, Set, Save, Purge, DeleteStops, Expire, ghosts, envVars
<1>6. CASE UNCHANGED vars
  BY <1>6 DEF vars, ghosts, envVars
<1> QED
  BY <1>2, <1>3, <1>4, <1>5, <1>6 DEF Next, Manage

\* What is given up follows an error.
GaveUp == dropped => errors > 0

LEMMA GaveUpStep ==
    ASSUME Shape, Alone, GaveUp, dropped \/ CoreNow, [Next]_vars
    PROVE  GaveUp'
<1>0. Typed /\ Stacks /\ References /\ errors \in Nat
  BY DEF Shape, Typed
<1> DEFINE Calm == errors' = errors /\ dropped' = dropped
<1>1. Calm \/ errors' = errors + 1 \/ \E t \in Thread : EndTile(t)
  BY ErrorsGrow
<1>2. CASE Calm
  BY <1>2 DEF GaveUp
<1>3. CASE errors' = errors + 1
  BY <1>0, <1>3 DEF GaveUp
<1>4. ASSUME NEW t \in Thread, EndTile(t), dropped', errors = 0 PROVE FALSE
  <2> DEFINE todo == Tail(Top(t).todo)
             changes == Without(Top(t).lod, TopPos(t))
  <2>1. CoreNow /\ dropped = FALSE
    BY <1>0, <1>4 DEF GaveUp, Typed
  <2>2. Left(todo, changes, errors)
    BY <1>4, <2>1, EndTileLeft
  <2>3. SavesOnTo(t, Top(t).lod, todo, changes, Below(t)) /\ stack[t] # << >> /\ CallOK(Top(t)) /\ Saves(Top(t))
    BY <1>0, <1>4, EndTileDoes
  <2>4. todo = << >> /\ GivesUp(changes)
    BY <1>4, <2>1, <2>3 DEF SavesOnTo
  <2>5. Range(changes) = {}
    <3>1. Range(<< >>) = {}
      BY DEF Range
    <3> QED
      BY <1>4, <2>2, <2>4, <3>1 DEF Left
  <2>6. changes \in Seq(PendingChange)
    <3>1. Top(t).lod \in Lod /\ TopPos(t) \in Pos /\ PendingOK(pending)
      BY <1>0, <2>3, HeadOfSave DEF CallOK, TopPos, Typed
    <3> QED
      BY <3>1, Free DEF Freed
  <2> HIDE DEF changes
  <2>7. changes = << >>
    BY <2>5, <2>6, Elements
  <2>8. MaxPending \in Nat \ {0}
    BY Sizes
  <2> QED
    BY <2>4, <2>7, <2>8 DEF GivesUp
<1>5. ASSUME NEW t \in Thread, EndTile(t) PROVE errors' = errors
  BY <1>0, <1>5, EndTileDoes DEF envVars
<1>6. ASSUME NEW t \in Thread, EndTile(t) PROVE GaveUp'
  <2>1. dropped' => errors # 0
    BY <1>4, <1>6
  <2>2. errors # 0 => errors' > 0
    BY <1>0, <1>5, <1>6
  <2> QED
    BY <2>1, <2>2, Zenon DEF GaveUp
<1> QED
  BY <1>1, <1>2, <1>3, <1>6

-----------------------------------------------------------------------------
(* What the tiles show *)

\* A call of F has yet to write the pixel of the tile at p of layer l.
Ahead(F, l, p, px) == \E f \in F : Sets(f) /\ f.lod = l /\ Place(p, px) \in Range(f.todo)

\* Group i of the tile at p of layer l has yet to reach the place tg in the next layer.
Behind(F, l, p, i, tg) ==
    \E f \in F : /\ f.at = "cascade" /\ f.lod = l /\ Head(f.todo).pos = p
                 /\ i > Done(f) \/ (i = Done(f) /\ Ahead(F, l + 1, tg.pos, tg.px))

Shows(q, h, s, l, p, i, tg) ==
    /\ Holds(q, h, s, l + 1, tg.pos, tg.px, Average(s[l][p], Groups[i]))
    /\ Exists(q, s, l + 1, tg.pos)

\* The first layer shows what was written, but for what calls have yet to write.
WantedIn(q, h, s, w, F) ==
    \A p \in Pos, px \in Pixel :
        Holds(q, h, s, 1, p, px, w[CellAt(p, px)]) \/ Ahead(F, 1, p, px)
AheadIn(w, F) ==
    \A f \in F : Sets(f) /\ f.lod = 1 =>
        \A tg \in Range(f.todo) : w[CellAt(tg.pos, tg.px)] = f.value

\* The next layer shows what is stored, averaged, but for what calls have yet to write.
AveragedIn(q, h, s, F) ==
    \A l \in Lod \ {LodCount}, p \in Pos : s[l][p] # Missing =>
        \A i \in 1..Len(Groups) : \A tg \in ParentTargets(p, i) :
            Shows(q, h, s, l, p, i, tg) \/ Behind(F, l, p, i, tg)

\* Call g brings what f writes.
From(s, g, f) ==
    /\ g.at = "cascade" /\ g.lod = f.lod - 1 /\ Done(g) \in 1..Len(Groups)
    /\ f.value = Average(s[g.lod][Head(g.todo).pos], Groups[Done(g)])
    /\ Range(f.todo) \subseteq ParentTargets(Head(g.todo).pos, Done(g))
CascadedIn(s, F) == \A f \in F : Sets(f) /\ f.lod # 1 => \E g \in F : From(s, g, f)

WantedNow == phase = "delete" \/ WantedIn(pending, heap, stored, want, Calls)
AveragedNow == phase = "delete" \/ AveragedIn(pending, heap, stored, Calls)
SetsNow == AheadIn(want, Calls) /\ CascadedIn(stored, Calls)

\* The set calls of F, and the cascades, are among those of G.
Carries(F, G) ==
    \A f \in F : Sets(f) =>
        \E g \in G : Sets(g) /\ g.lod = f.lod /\ g.todo = f.todo /\ g.value = f.value
CascadesStay(F, G) == \A f \in F : f.at = "cascade" => f \in G
FirstFrom(G, F) ==
    \A g \in G : Sets(g) /\ g.lod = 1 =>
        \E f \in F : Sets(f) /\ f.lod = 1 /\ g.todo = f.todo /\ g.value = f.value

BehindStays(F, G) ==
    \A l \in Lod \ {LodCount}, p \in Pos : \A i \in 1..Len(Groups) : \A tg \in ParentTargets(p, i) :
        Behind(F, l, p, i, tg) => Behind(G, l, p, i, tg)

\* A tile is stored as it was, or all its groups have yet to reach the next layer.
StoredOr(s, s2, G) ==
    \A l \in Lod \ {LodCount}, p \in Pos :
        \/ s2[l][p] = s[l][p]
        \/ \A i \in 1..Len(Groups) : \A tg \in ParentTargets(p, i) : Behind(G, l, p, i, tg)

LEMMA AheadCarried ==
    ASSUME NEW F, NEW G, Carries(F, G), NEW l, NEW p, NEW px, Ahead(F, l, p, px)
    PROVE  Ahead(G, l, p, px)
BY DEF Carries, Ahead

LEMMA BehindCarried ==
    ASSUME NEW F, NEW G, Carries(F, G), CascadesStay(F, G)
    PROVE  BehindStays(F, G)
<1> SUFFICES ASSUME NEW l, NEW p, NEW i, NEW tg, Behind(F, l, p, i, tg)
             PROVE  Behind(G, l, p, i, tg)
  BY DEF BehindStays
<1>1. PICK f \in F : /\ f.at = "cascade" /\ f.lod = l /\ Head(f.todo).pos = p
                     /\ i > Done(f) \/ (i = Done(f) /\ Ahead(F, l + 1, tg.pos, tg.px))
  BY DEF Behind
<1>2. f \in G
  BY <1>1 DEF CascadesStay
<1>3. Ahead(F, l + 1, tg.pos, tg.px) => Ahead(G, l + 1, tg.pos, tg.px)
  BY AheadCarried
<1> QED
  BY <1>1, <1>2, <1>3 DEF Behind

LEMMA WantedKept ==
    ASSUME NEW q, NEW h, NEW s, NEW w, NEW F, NEW q2, NEW h2, NEW s2, NEW G,
           WantedIn(q, h, s, w, F), Kept(q, h, s, q2, h2, s2), Carries(F, G)
    PROVE  WantedIn(q2, h2, s2, w, G)
<1>1. 1 \in Lod
  BY Sizes DEF Lod
<1> SUFFICES ASSUME NEW p \in Pos, NEW px \in Pixel
             PROVE  Holds(q2, h2, s2, 1, p, px, w[CellAt(p, px)]) \/ Ahead(G, 1, p, px)
  BY DEF WantedIn
<1>2. CASE Ahead(F, 1, p, px)
  BY <1>2, AheadCarried
<1>3. CASE Holds(q, h, s, 1, p, px, w[CellAt(p, px)])
  <2>1. Same(q, h, s, q2, h2, s2, 1, p)
    BY <1>1 DEF Kept
  <2> QED
    BY <1>3, <2>1 DEF Same
<1> QED
  BY <1>2, <1>3 DEF WantedIn

LEMMA AheadKept ==
    ASSUME NEW w, NEW F, NEW G, AheadIn(w, F), FirstFrom(G, F)
    PROVE  AheadIn(w, G)
BY DEF AheadIn, FirstFrom

\* A place in the next layer.
LEMMA NextPlace ==
    ASSUME NEW l \in Lod \ {LodCount}, NEW p \in Pos, NEW i \in 1..Len(Groups), NEW tg \in ParentTargets(p, i)
    PROVE  /\ l + 1 \in Lod /\ tg.pos \in Pos /\ tg.px \in Pixel /\ tg = Place(tg.pos, tg.px)
           /\ i \in Nat /\ l \in Nat /\ LodCount \in Nat /\ l # LodCount
<1>1. LodCount \in Nat \ {0} /\ l \in 1..LodCount /\ l # LodCount
  BY Sizes DEF Lod
<1>2. l + 1 \in Lod /\ l \in Nat
  BY <1>1 DEF Lod
<1>3. tg \in Target
  BY ParentTargetsTyped
<1>4. tg.pos \in Pos /\ tg.px \in Pixel /\ tg = Place(tg.pos, tg.px)
  BY <1>3 DEF Target, Place
<1>5. Len(Groups) \in Nat
  BY GroupsAre
<1> QED
  BY <1>1, <1>2, <1>4, <1>5

LEMMA AveragedKept ==
    ASSUME NEW q, NEW h, NEW s, NEW F, NEW q2, NEW h2, NEW s2, NEW G,
           AveragedIn(q, h, s, F), Kept(q, h, s, q2, h2, s2),
           StoredOr(s, s2, G), BehindStays(F, G)
    PROVE  AveragedIn(q2, h2, s2, G)
<1> SUFFICES ASSUME NEW l \in Lod \ {LodCount}, NEW p \in Pos, s2[l][p] # Missing,
                    NEW i \in 1..Len(Groups), NEW tg \in ParentTargets(p, i)
             PROVE  Shows(q2, h2, s2, l, p, i, tg) \/ Behind(G, l, p, i, tg)
  BY DEF AveragedIn
<1>1. l + 1 \in Lod /\ tg.pos \in Pos /\ tg.px \in Pixel
  BY NextPlace
<1>2. CASE Behind(G, l, p, i, tg)
  BY <1>2
<1>3. CASE s2[l][p] = s[l][p] /\ Behind(F, l, p, i, tg)
  BY <1>3 DEF BehindStays
<1>4. CASE s2[l][p] = s[l][p] /\ Shows(q, h, s, l, p, i, tg)
  <2>1. Same(q, h, s, q2, h2, s2, l + 1, tg.pos)
    BY <1>1 DEF Kept
  <2> QED
    BY <1>1, <1>4, <2>1 DEF Same, Shows
<1>5. s2[l][p] = s[l][p] \/ Behind(G, l, p, i, tg)
  BY DEF StoredOr
<1> QED
  BY <1>2, <1>3, <1>4, <1>5 DEF AveragedIn

Told == WantedNow /\ AveragedNow /\ SetsNow

\* A step that changes nothing that is shown.
LEMMA ToldKept ==
    ASSUME Told, Unchanged, want' = want, phase' # "delete" => phase # "delete",
           Carries(Calls, Calls'), FirstFrom(Calls', Calls), StoredOr(stored, stored', Calls'),
           BehindStays(Calls, Calls'), CascadedIn(stored', Calls')
    PROVE  Told'
<1> DEFINE q == pending
           h == heap
           s == stored
           w == want
           F == Calls
           q2 == pending'
           h2 == heap'
           s2 == stored'
           G == Calls'
<1>1. /\ Kept(q, h, s, q2, h2, s2) /\ Carries(F, G) /\ FirstFrom(G, F) /\ StoredOr(s, s2, G)
      /\ BehindStays(F, G) /\ AheadIn(w, F)
      /\ phase' # "delete" => WantedIn(q, h, s, w, F) /\ AveragedIn(q, h, s, F)
  BY DEF Unchanged, Told, WantedNow, AveragedNow, SetsNow
<1>2. w = want'
  OBVIOUS
<1> HIDE DEF q, h, s, w, F, q2, h2, s2, G
<1>3. AheadIn(w, G)
  BY <1>1, AheadKept
<1>4. phase' # "delete" => WantedIn(q2, h2, s2, w, G)
  BY <1>1, WantedKept
<1>5. phase' # "delete" => AveragedIn(q2, h2, s2, G)
  BY <1>1, AveragedKept
<1>6. AheadIn(want', G) /\ (phase' # "delete" => WantedIn(q2, h2, s2, want', G))
  BY <1>2, <1>3, <1>4
<1> QED
  BY <1>5, <1>6 DEF Told, WantedNow, AveragedNow, SetsNow, q2, h2, s2, G

LEMMA FromSame ==
    ASSUME NEW s, NEW g, NEW f, NEW f2, From(s, g, f), f2.lod = f.lod, f2.value = f.value,
           Range(f2.todo) \subseteq Range(f.todo)
    PROVE  From(s, g, f2)
BY DEF From

\* What brings the sets below the innermost call, or that call, is below it.
LEMMA BelowFrom ==
    ASSUME Shape, Alone, NEW t \in Thread, stack[t] # << >>, NEW f \in Calls, Sets(f), f.lod # 1,
           CascadedIn(stored, Calls)
    PROVE  \E g \in Range(Below(t)) : From(stored, g, f)
<1> DEFINE B == Range(Below(t))
<1>1. /\ Calls = {Top(t)} \cup B /\ CallOK(Top(t)) /\ CallOK(f)
      /\ Under(B, Top(t).lod + 1)
  BY OneStack
<1>2. PICK g \in Calls : From(stored, g, f)
  BY DEF CascadedIn
<1>3. g.at = "cascade" /\ g.lod = f.lod - 1
  BY <1>2 DEF From
<1>4. Top(t).lod \in Nat /\ f.lod \in Nat
  BY <1>1 DEF CallOK, Lod
<1>5. f.lod < Top(t).lod + 1
  BY <1>1, <1>4 DEF Under
<1>6. g # Top(t)
  BY <1>3, <1>4, <1>5
<1> QED
  BY <1>1, <1>2, <1>6

\* The innermost set goes on.
LEMMA FollowsTold ==
    ASSUME Shape, Alone, Told, NEW t \in Thread, stack[t] # << >>, Sets(Top(t)),
           Unchanged, want' = want, phase' = phase, stored' = stored,
           Adds(Top(t), Range(Below(t)), Calls')
    PROVE  Told'
<1> DEFINE B == Range(Below(t))
           F == Calls
           G == Calls'
<1>1. F = {Top(t)} \cup B /\ Top(t).at # "cascade"
  BY OneStack, Kinds
<1>2. PICK g \in G :
        /\ Follows(Top(t), g) /\ B \subseteq G
        /\ \A f \in G : f \in B \/ f = g \/ (Saves(f) /\ f.at = "write" /\ f.lod = Top(t).lod)
  BY DEF Adds
<1>3. /\ Sets(g) /\ g.lod = Top(t).lod /\ g.todo = Top(t).todo /\ g.value = Top(t).value
  BY <1>2 DEF Follows
<1>4. \A f \in G : Sets(f) => f \in B \/ f = g
  BY <1>2, Kinds
<1>5. CascadedIn(stored, F)
  BY DEF Told, SetsNow
<1> HIDE DEF B, F, G
<1>6. Carries(F, G) /\ CascadesStay(F, G) /\ FirstFrom(G, F)
  BY <1>1, <1>2, <1>3, <1>4 DEF Carries, CascadesStay, FirstFrom
<1>7. CascadedIn(stored, G)
  <2> SUFFICES ASSUME NEW f \in G, Sets(f), f.lod # 1 PROVE \E k \in G : From(stored, k, f)
    BY DEF CascadedIn
  <2>1. PICK f2 \in F : Sets(f2) /\ f.lod = f2.lod /\ f.todo = f2.todo /\ f.value = f2.value
    BY <1>1, <1>3, <1>4
  <2>2. PICK k \in B : From(stored, k, f2)
    BY <1>5, <2>1, BelowFrom DEF B, F
  <2>3. From(stored, k, f)
    BY <2>1, <2>2, FromSame
  <2> QED
    BY <1>2, <2>2, <2>3
<1>8. BehindStays(F, G)
  BY <1>6, BehindCarried
<1>9. StoredOr(stored, stored', G) /\ CascadedIn(stored', G)
  BY <1>7 DEF StoredOr
<1> QED
  BY <1>6, <1>8, <1>9, ToldKept DEF F, G

\* No cascade is about the innermost call's layer but its own, and none of the sets
\* below it is of the next.
LEMMA NotAhead ==
    ASSUME Shape, Alone, NEW t \in Thread, stack[t] # << >>, NEW p, NEW px
    PROVE  ~Ahead(Range(Below(t)), Top(t).lod + 1, p, px)
<1>1. Under(Range(Below(t)), Top(t).lod + 1) /\ CallOK(Top(t))
  BY OneStack
<1>2. \A f \in Range(Below(t)) : f.lod # Top(t).lod + 1
  <2> SUFFICES ASSUME NEW f \in Range(Below(t)) PROVE f.lod # Top(t).lod + 1
    OBVIOUS
  <2>1. f.lod < Top(t).lod + 1 /\ f.lod \in Nat /\ Top(t).lod \in Nat
    BY <1>1 DEF Under, CallOK, Lod
  <2> QED
    BY <2>1
<1> QED
  BY <1>2 DEF Ahead

\* A save goes on with the next tile, or ends.
LEMMA GoesOnTold ==
    ASSUME Shape, Alone, Told, NEW t \in Thread, stack[t] # << >>, Saves(Top(t)),
           Top(t).at = "write" \/ Done(Top(t)) = Len(Groups),
           Unchanged, want' = want, phase' = phase, stored' = stored,
           NEW l, NEW todo, GoesOn(t, l, todo)
    PROVE  Told'
<1> DEFINE B == Range(Below(t))
           F == Calls
           G == Calls'
<1>1. F = {Top(t)} \cup B
  BY OneStack
<1>2. B \subseteq G /\ \A f \in G : Sets(f) => f \in B
  BY Kinds DEF GoesOn
<1>3. ~Sets(Top(t)) /\ CascadedIn(stored, F)
  BY Kinds DEF Told, SetsNow
<1>4. \A p, px : ~Ahead(B, Top(t).lod + 1, p, px)
  BY NotAhead
<1> HIDE DEF B, F, G
<1>5. Carries(F, G) /\ FirstFrom(G, F) /\ Carries(F, B)
  BY <1>1, <1>2, <1>3 DEF Carries, FirstFrom
<1>6. CascadedIn(stored, G)
  <2> SUFFICES ASSUME NEW f \in G, Sets(f), f.lod # 1 PROVE \E k \in G : From(stored, k, f)
    BY DEF CascadedIn
  <2>1. f \in F
    BY <1>1, <1>2
  <2>2. PICK k \in B : From(stored, k, f)
    BY <1>3, <2>1, BelowFrom DEF B, F
  <2> QED
    BY <1>2, <2>2
<1>7. BehindStays(F, G)
  <2> SUFFICES ASSUME NEW m \in Lod \ {LodCount}, NEW p \in Pos, NEW i \in 1..Len(Groups),
                      NEW tg \in ParentTargets(p, i), Behind(F, m, p, i, tg)
               PROVE  Behind(G, m, p, i, tg)
    BY DEF BehindStays
  <2>1. PICK f \in F : /\ f.at = "cascade" /\ f.lod = m /\ Head(f.todo).pos = p
                       /\ i > Done(f) \/ (i = Done(f) /\ Ahead(F, m + 1, tg.pos, tg.px))
    BY DEF Behind
  <2>2. f # Top(t)
    <3>1. CASE Top(t).at = "write"
      BY <2>1, <3>1
    <3>2. CASE Done(Top(t)) = Len(Groups) /\ f = Top(t)
      <4>1. ~(i > Done(f))
        <5>1. Len(Groups) \in Nat /\ i <= Len(Groups) /\ i \in Nat
          BY GroupsAre, NextPlace
        <5> QED
          BY <3>2, <5>1
      <4>2. Ahead(F, Top(t).lod + 1, tg.pos, tg.px)
        BY <2>1, <3>2, <4>1
      <4>3. Ahead(B, Top(t).lod + 1, tg.pos, tg.px)
        BY <1>5, <4>2, AheadCarried
      <4> QED
        BY <1>4, <4>3
    <3> QED
      BY <3>1, <3>2
  <2>3. f \in G
    BY <1>1, <1>2, <2>2
  <2>4. Ahead(F, m + 1, tg.pos, tg.px) => Ahead(G, m + 1, tg.pos, tg.px)
    BY <1>5, AheadCarried
  <2> QED
    BY <2>1, <2>3, <2>4 DEF Behind
<1>8. StoredOr(stored, stored', G) /\ CascadedIn(stored', G)
  BY <1>6 DEF StoredOr
<1> QED
  BY <1>5, <1>7, <1>8, ToldKept DEF F, G

\* What is brought into the next layer is behind, and so is all that comes after it.
LEMMA BroughtBehind ==
    ASSUME NEW f, NEW k, NEW c, NEW B, NEW G, CascadeOf(f, k), Brings(k, c), Adds(c, B, G), k \in B,
           k.lod \in Lod \ {LodCount}, Head(k.todo).pos \in Pos,
           NEW i \in 1..Len(Groups), NEW tg \in ParentTargets(Head(k.todo).pos, i),
           i > Done(k) \/ i = Done(k)
    PROVE  Behind(G, k.lod, Head(k.todo).pos, i, tg)
<1>1. PICK g \in G : Follows(c, g) /\ B \subseteq G
  BY DEF Adds
<1>2. k \in G /\ k.at = "cascade"
  BY <1>1 DEF CascadeOf
<1>3. tg = Place(tg.pos, tg.px)
  BY NextPlace
<1>4. ASSUME i = Done(k) PROVE Ahead(G, k.lod + 1, tg.pos, tg.px)
  <2>1. Sets(g) /\ g.lod = k.lod + 1 /\ Range(g.todo) = ParentTargets(Head(k.todo).pos, i)
    BY <1>1, <1>4 DEF Follows, Brings
  <2> QED
    BY <1>1, <1>3, <2>1 DEF Ahead
<1> QED
  BY <1>2, <1>4 DEF Behind

\* What is stored of the tiles that are averaged stays.
BelowStays(B) ==
    \A g \in B : g.at = "cascade" =>
        stored'[g.lod][Head(g.todo).pos] = stored[g.lod][Head(g.todo).pos]

LEMMA BringsTold ==
    ASSUME Shape, Alone, Told, NEW t \in Thread, stack[t] # << >>, Saves(Top(t)),
           Unchanged, want' = want, phase' = phase,
           NEW k, NEW c, CascadeOf(Top(t), k), Brings(k, c),
           Adds(c, {k} \cup Range(Below(t)), Calls'), Done(k) \in 1..Len(Groups),
           BelowStays(Range(Below(t))), stored'[k.lod][Head(k.todo).pos] = Subject(k),
           StoredOr(stored, stored', Calls'), BehindStays(Calls, Calls')
    PROVE  Told'
<1> DEFINE B == Range(Below(t))
           F == Calls
           G == Calls'
           s == stored'
<1>1. F = {Top(t)} \cup B /\ ~Sets(Top(t))
  BY OneStack, Kinds
<1>2. PICK g \in G :
        /\ Follows(c, g) /\ {k} \cup B \subseteq G
        /\ \A f \in G : f \in {k} \cup B \/ f = g \/ (Saves(f) /\ f.at = "write" /\ f.lod = c.lod)
  BY DEF Adds
<1>3. ~Sets(k) /\ k.at = "cascade" /\ k.lod \in Nat \ {0}
  BY Kinds DEF CascadeOf, CallOK, Lod
<1>4. \A f \in G : Sets(f) => f \in B \/ f = g
  BY <1>2, <1>3, Kinds
<1>5. CascadedIn(stored, F)
  BY DEF Told, SetsNow
<1>6. /\ Sets(g) /\ g.lod = k.lod + 1 /\ g.value = Average(Subject(k), Groups[Done(k)])
      /\ Range(g.todo) = ParentTargets(Head(k.todo).pos, Done(k))
  BY <1>2 DEF Follows, Brings
<1> HIDE DEF B, F, G, s
<1>7. From(s, k, g)
  <2>1. k.lod = g.lod - 1
    BY <1>3, <1>6
  <2> QED
    BY <1>3, <1>6, <2>1 DEF From, s
<1>8. g.lod # 1
  BY <1>3, <1>6
<1>9. Carries(F, G) /\ FirstFrom(G, F)
  BY <1>1, <1>2, <1>4, <1>8 DEF Carries, FirstFrom
<1>10. CascadedIn(s, G)
  <2> SUFFICES ASSUME NEW f \in G, Sets(f), f.lod # 1 PROVE \E x \in G : From(s, x, f)
    BY DEF CascadedIn
  <2>1. CASE f = g
    BY <1>2, <1>7, <2>1
  <2>2. CASE f \in B
    <3>1. f \in F
      BY <1>1, <2>2
    <3>2. PICK x \in B : From(stored, x, f)
      BY <1>5, <3>1, BelowFrom DEF B, F
    <3>3. From(s, x, f)
      BY <3>2 DEF From, BelowStays, B, s
    <3> QED
      BY <1>2, <3>2, <3>3
  <2> QED
    BY <1>4, <2>1, <2>2
<1> QED
  BY <1>9, <1>10, ToldKept DEF F, G, s

LEMMA CascadeTold ==
    ASSUME Shape, Shape', Alone, CoreNow, Told, dropped' = FALSE, NEW t \in Thread, Cascade(t)
    PROVE  Told'
<1> DEFINE B == Range(Below(t))
           F == Calls
           G == Calls'
           f == Top(t)
<1>0. Typed /\ Stacks /\ References
  BY DEF Shape
<1>1. /\ stack[t] # << >> /\ f.at = "cascade" /\ Saves(f) /\ CallOK(f) /\ f.group \in 1..Len(Groups)
      /\ want' = want /\ phase' = phase /\ stored' = stored
  BY <1>0, CascadeDoes
<1>2. PICK k, c : /\ CascadeOf(f, k) /\ k.group = f.group - 1 /\ Brings(k, c)
                  /\ Adds(c, {k} \cup B, G)
  BY CascadeCore
<1>3. Unchanged
  BY CascadeCore
<1>4. F = {f} \cup B /\ ~Sets(f)
  BY <1>1, OneStack, Kinds
<1>5. Len(Groups) \in Nat
  BY GroupsAre
<1>6. Done(k) \in 1..Len(Groups) /\ Done(k) = Done(f) + 1 /\ Done(f) \in Nat
  BY <1>1, <1>2, <1>5 DEF Done
<1>7. stored[f.lod][Head(f.todo).pos] = Subject(f)
  BY <1>1, <1>4 DEF CoreNow, Core, Saving, Subject
<1>8. k.lod = f.lod /\ k.todo = f.todo /\ k.at = "cascade"
  BY <1>2 DEF CascadeOf
<1>9. stored'[k.lod][Head(k.todo).pos] = Subject(k)
  BY <1>1, <1>7, <1>8 DEF Subject, TileId
<1>10. BelowStays(B) /\ StoredOr(stored, stored', G)
  BY <1>1 DEF BelowStays, StoredOr
<1>11. \A p, px : ~Ahead(B, f.lod + 1, p, px)
  BY <1>1, NotAhead
<1>12. {k} \cup B \subseteq G
  BY <1>2 DEF Adds
<1>13. k.lod \in Lod /\ Head(k.todo).pos \in Pos
  BY <1>1, <1>8, HeadOfSave DEF CallOK
<1> HIDE DEF B, F, G, f
<1>14. Carries(F, B) /\ Carries(F, G)
  BY <1>4, <1>12 DEF Carries
<1>15. BehindStays(F, G)
  <2> SUFFICES ASSUME NEW m \in Lod \ {LodCount}, NEW p \in Pos, NEW i \in 1..Len(Groups),
                      NEW tg \in ParentTargets(p, i), Behind(F, m, p, i, tg)
               PROVE  Behind(G, m, p, i, tg)
    BY DEF BehindStays
  <2>1. PICK x \in F : /\ x.at = "cascade" /\ x.lod = m /\ Head(x.todo).pos = p
                       /\ i > Done(x) \/ (i = Done(x) /\ Ahead(F, m + 1, tg.pos, tg.px))
    BY DEF Behind
  <2>2. CASE x \in B
    <3>1. Ahead(F, m + 1, tg.pos, tg.px) => Ahead(G, m + 1, tg.pos, tg.px)
      BY <1>14, AheadCarried
    <3> QED
      BY <1>12, <2>1, <2>2, <3>1 DEF Behind
  <2>3. CASE x = f
    <3>1. i > Done(f)
      <4>1. Ahead(F, f.lod + 1, tg.pos, tg.px) => Ahead(B, f.lod + 1, tg.pos, tg.px)
        BY <1>14, AheadCarried
      <4> QED
        BY <1>11, <2>1, <2>3, <4>1
    <3>2. i > Done(k) \/ i = Done(k)
      BY <1>6, <3>1
    <3>3. k.lod = m /\ Head(k.todo).pos = p
      BY <1>8, <2>1, <2>3
    <3>4. k \in {k} \cup B
      OBVIOUS
    <3> QED
      BY <1>2, <1>13, <3>2, <3>3, <3>4, BroughtBehind DEF G
  <2> QED
    BY <1>4, <2>1, <2>2, <2>3
<1> QED
  BY <1>1, <1>2, <1>3, <1>6, <1>9, <1>10, <1>15, BringsTold DEF B, F, G, f

LEMMA WriteTileTold ==
    ASSUME Shape, Shape', Alone, CoreNow, Told, dropped' = FALSE, NEW t \in Thread, WriteTile(t)
    PROVE  Told'
<1> DEFINE B == Range(Below(t))
           F == Calls
           G == Calls'
           f == Top(t)
           l == Top(t).lod
           p == TopPos(t)
<1>0. Typed /\ Stacks /\ References
  BY DEF Shape
<1>1. /\ stack[t] # << >> /\ f.at = "write" /\ Saves(f) /\ CallOK(f)
      /\ want' = want /\ phase' = phase
  BY <1>0, WriteTileDoes
<1>2. /\ Unchanged /\ StoresTop(t)
      /\ \/ GroupsOf(l) = 0 /\ \E k : CascadeOf(f, k) /\ k.group = 0 /\ G = {k} \cup B
         \/ \E k, c : /\ CascadeOf(f, k) /\ k.group = GroupsOf(l) - 1 /\ Brings(k, c)
                      /\ Adds(c, {k} \cup B, G)
  BY WriteTileCore
<1>3. /\ F = {f} \cup B /\ ~Sets(f) /\ \A g \in B : Saves(g) => g.lod < l /\ CallOK(g)
  BY <1>1, OneStack, Kinds
<1>4. l \in Lod /\ p \in Pos /\ p = Head(f.todo).pos /\ l \in Nat
  BY <1>1, HeadOfSave DEF CallOK, TopPos, Lod
<1>5. /\ stored'[l][p] = Subject(f)
      /\ \A m \in Lod, x \in Pos : <<m, x>> # <<l, p>> => stored'[m][x] = stored[m][x]
  BY <1>2 DEF StoresTop
<1>6. BelowStays(B)
  <2> SUFFICES ASSUME NEW g \in B, g.at = "cascade"
               PROVE  stored'[g.lod][Head(g.todo).pos] = stored[g.lod][Head(g.todo).pos]
    BY DEF BelowStays
  <2>1. Saves(g) /\ CallOK(g) /\ g.lod < l
    BY <1>3, Kinds
  <2>2. g.lod \in Lod /\ g.lod # l /\ Head(g.todo).pos \in Pos
    BY <1>4, <2>1, HeadOfSave DEF CallOK, Lod
  <2> QED
    BY <1>5, <2>2
<1>7. GroupsOf(l) \in 0..Len(Groups) /\ Len(Groups) \in Nat /\ (l # LodCount => GroupsOf(l) = Len(Groups))
  BY <1>4, GroupsAre, Sizes DEF GroupsOf, Lod
<1> HIDE DEF B, F, G, f, l, p
<1>8. ASSUME NEW k, CascadeOf(f, k), {k} \cup B \subseteq G
      PROVE  /\ Carries(F, G) /\ BehindStays(F, G)
             /\ stored'[k.lod][Head(k.todo).pos] = Subject(k)
             /\ k.lod = l /\ Head(k.todo).pos = p
             /\ k.group \in Nat /\ ~Sets(k)
  <2>1. k.lod = l /\ k.todo = f.todo /\ f.lod = l
    BY <1>8 DEF CascadeOf, l, f
  <2>2. Carries(F, G) /\ CascadesStay(F, G)
    BY <1>1, <1>3, <1>8 DEF Carries, CascadesStay
  <2>3. Subject(k) = Subject(f)
    BY <2>1 DEF Subject, TileId
  <2>4. k.group \in Nat
    <3>1. k.group \in 0..GroupsOf(k.lod)
      BY <1>8 DEF CascadeOf, CallOK
    <3> QED
      BY <1>7, <2>1, <3>1
  <2>5. ~Sets(k)
    BY <1>8, Kinds DEF CascadeOf
  <2> QED
    BY <1>4, <1>5, <2>1, <2>2, <2>3, <2>4, <2>5, BehindCarried
<1>9. ASSUME GroupsOf(l) = 0, NEW k, CascadeOf(f, k), G = {k} \cup B
      PROVE  Told'
  <2>1. /\ Carries(F, G) /\ BehindStays(F, G) /\ ~Sets(k)
    BY <1>8, <1>9
  <2>2. FirstFrom(G, F)
    BY <1>3, <1>9, <2>1 DEF FirstFrom
  <2>3. StoredOr(stored, stored', G)
    <3> SUFFICES ASSUME NEW m \in Lod \ {LodCount}, NEW x \in Pos, stored'[m][x] # stored[m][x],
                        NEW i \in 1..Len(Groups)
                 PROVE  FALSE
      BY DEF StoredOr
    <3>1. m = l
      BY <1>5
    <3>2. Len(Groups) = 0
      BY <1>7, <1>9, <3>1
    <3> QED
      BY <3>2
  <2>4. CascadedIn(stored', G)
    <3> SUFFICES ASSUME NEW x \in G, Sets(x), x.lod # 1 PROVE \E y \in G : From(stored', y, x)
      BY DEF CascadedIn
    <3>1. x \in F /\ CascadedIn(stored, F)
      BY <1>3, <1>9, <2>1 DEF Told, SetsNow, F
    <3>2. PICK y \in B : From(stored, y, x)
      BY <1>1, <3>1, BelowFrom DEF B, F
    <3>3. From(stored', y, x)
      BY <1>6, <3>2 DEF From, BelowStays
    <3> QED
      BY <1>9, <3>2, <3>3
  <2> QED
    BY <1>1, <1>2, <2>1, <2>2, <2>3, <2>4, ToldKept DEF F, G
<1>10. ASSUME NEW k, NEW c, CascadeOf(f, k), k.group = GroupsOf(l) - 1, Brings(k, c),
              Adds(c, {k} \cup B, G)
       PROVE  Told'
  <2>0. {k} \cup B \subseteq G
    BY <1>10 DEF Adds
  <2>1. /\ BehindStays(F, G) /\ stored'[k.lod][Head(k.todo).pos] = Subject(k)
        /\ k.lod = l /\ Head(k.todo).pos = p /\ k.group \in Nat
    BY <1>8, <1>10, <2>0
  <2>2. Done(k) \in 1..Len(Groups)
    BY <1>7, <1>10, <2>1 DEF Done
  <2>3. StoredOr(stored, stored', G)
    <3> SUFFICES ASSUME NEW m \in Lod \ {LodCount}, NEW x \in Pos, stored'[m][x] # stored[m][x],
                        NEW i \in 1..Len(Groups), NEW tg \in ParentTargets(x, i)
                 PROVE  Behind(G, m, x, i, tg)
      BY DEF StoredOr
    <3>1. m = l /\ x = p
      BY <1>5
    <3>2. Done(k) = 1
      BY <1>7, <1>10, <2>1, <3>1 DEF Done
    <3>3. i > Done(k) \/ i = Done(k)
      BY <1>7, <3>2
    <3>4. k \in {k} \cup B
      OBVIOUS
    <3>5. k.lod \in Lod \ {LodCount} /\ Head(k.todo).pos \in Pos /\ tg \in ParentTargets(Head(k.todo).pos, i)
      BY <2>1, <3>1
    <3>6. Behind(G, k.lod, Head(k.todo).pos, i, tg)
      BY <1>10, <3>3, <3>4, <3>5, BroughtBehind
    <3> QED
      BY <2>1, <3>1, <3>6
  <2> QED
    BY <1>1, <1>2, <1>6, <1>10, <2>1, <2>2, <2>3, BringsTold DEF B, F, G, f
<1> QED
  BY <1>2, <1>9, <1>10

\* The sets of G do what is left of those of F.
SetsFrom(G, F) ==
    \A g \in G : Sets(g) =>
        \E f \in F : /\ Sets(f) /\ g.lod = f.lod /\ g.value = f.value
                     /\ Range(g.todo) \subseteq Range(f.todo)

\* What is painted, and what is not.
LEMMA PaintedHolds ==
    ASSUME NEW t, NEW q, NEW h, NEW s, Painted(t, q, h, s), CallOK(Top(t)), Sets(Top(t)),
           NEW m \in Lod, NEW p \in Pos, NEW px \in Pixel
    PROVE  /\ m = Top(t).lod /\ Place(p, px) = Head(Top(t).todo) =>
                Holds(q, h, s, m, p, px, Top(t).value) /\ Exists(q, s, m, p)
           /\ ~(m = Top(t).lod /\ Place(p, px) = Head(Top(t).todo)) =>
                \A v : Holds(pending, heap, stored, m, p, px, v) => Holds(q, h, s, m, p, px, v)
           /\ Exists(pending, stored, m, p) => Exists(q, s, m, p)
<1> DEFINE l == Top(t).lod
           x == TopPos(t)
           z == Head(Top(t).todo).px
<1>1. Head(Top(t).todo) = Place(x, z)
  BY HeadOfSet DEF Target, Place, TopPos
<1>2. ASSUME <<m, p>> # <<l, x>>
      PROVE  Same(pending, heap, stored, q, h, s, m, p) /\ ~(m = l /\ Place(p, px) = Head(Top(t).todo))
  <2>1. Same(pending, heap, stored, q, h, s, m, p)
    BY <1>2 DEF Painted
  <2>2. ~(m = l /\ Place(p, px) = Head(Top(t).todo))
    BY <1>1, <1>2 DEF Place
  <2> QED
    BY <2>1, <2>2
<1>3. ASSUME m = l /\ p = x
      PROVE  /\ Holds(q, h, s, m, p, z, Top(t).value) /\ Exists(q, s, m, p)
             /\ (Place(p, px) = Head(Top(t).todo)) = (px = z)
             /\ px # z => \A v : Holds(pending, heap, stored, m, p, px, v) => Holds(q, h, s, m, p, px, v)
  <2>1. Holds(q, h, s, m, p, z, Top(t).value) /\ Exists(q, s, m, p)
    BY <1>3 DEF Painted
  <2>2. Place(p, px) = Head(Top(t).todo) => px = z
    BY DEF Place
  <2>3. px = z => Place(p, px) = Head(Top(t).todo)
    BY <1>1, <1>3
  <2>4. px # z => \A v : Holds(pending, heap, stored, m, p, px, v) => Holds(q, h, s, m, p, px, v)
    BY <1>3 DEF Painted
  <2> QED
    BY <2>1, <2>2, <2>3, <2>4
<1> HIDE DEF x, z
<1>4. CASE <<m, p>> # <<l, x>>
  BY <1>2, <1>4 DEF Same
<1>5. CASE m = l /\ p = x
  BY <1>3, <1>5
<1> QED
  BY <1>4, <1>5

LEMMA SetPixelTold ==
    ASSUME Shape, Shape', Alone, CoreNow, Told, dropped' = FALSE, NEW t \in Thread, SetPixel(t)
    PROVE  Told'
<1> DEFINE B == Range(Below(t))
           F == Calls
           G == Calls'
           f == Top(t)
           q == pending'
           h == heap'
<1>0. Typed /\ Stacks /\ References
  BY DEF Shape
<1>1. /\ stack[t] # << >> /\ Sets(f) /\ CallOK(f)
      /\ want' = want /\ phase' = phase /\ stored' = stored
  BY <1>0, SetPixelDoes
<1>2. /\ Painted(t, q, h, stored')
      /\ \/ Len(f.todo) = 1 /\ G = B
         \/ \E call : NextTile(t, call) /\ Adds(call, B, G)
  BY SetPixelCore
<1>3. Painted(t, q, h, stored)
  BY <1>1, <1>2
<1>4. F = {f} \cup B /\ f.at # "cascade" /\ \A g \in F : CallOK(g)
  BY <1>1, OneStack, Kinds
<1>5. AheadIn(want, F) /\ CascadedIn(stored, F)
  BY DEF Told, SetsNow
<1>6. f.lod \in Lod /\ Head(f.todo) \in Range(f.todo)
  BY <1>1, HeadOfSet DEF CallOK
<1>7. Range(f.todo) = {Head(f.todo)} \cup Range(Tail(f.todo)) /\ (Len(f.todo) = 1 => Tail(f.todo) = << >>)
  BY <1>1, HeadOfSet, Elements
<1>8. /\ B \subseteq G
      /\ Range(Tail(f.todo)) # {} =>
            \E g \in G : Sets(g) /\ g.lod = f.lod /\ g.todo = Tail(f.todo) /\ g.value = f.value
      /\ SetsFrom(G, F)
  <2>1. CASE Len(f.todo) = 1 /\ G = B
    <3>1. Range(Tail(f.todo)) = {}
      BY <1>7, <2>1 DEF Range
    <3>2. \A g \in G : g \in F
      BY <1>4, <2>1
    <3> HIDE DEF B, F, G, f
    <3> QED
      BY <2>1, <3>1, <3>2 DEF SetsFrom
  <2>2. ASSUME NEW call, NextTile(t, call), Adds(call, B, G)
        PROVE  /\ B \subseteq G
               /\ Range(Tail(f.todo)) # {} =>
                     \E g \in G : Sets(g) /\ g.lod = f.lod /\ g.todo = Tail(f.todo) /\ g.value = f.value
               /\ SetsFrom(G, F)
    <3>1. call.lod = f.lod /\ call.todo = Tail(f.todo) /\ call.value = f.value
      BY <2>2 DEF NextTile
    <3>2. PICK g \in G :
            /\ Follows(call, g) /\ B \subseteq G
            /\ \A x \in G : x \in B \/ x = g \/ (Saves(x) /\ x.at = "write" /\ x.lod = call.lod)
      BY <2>2 DEF Adds
    <3>3. Sets(g) /\ g.lod = f.lod /\ g.todo = Tail(f.todo) /\ g.value = f.value
      BY <3>1, <3>2 DEF Follows
    <3>4. \A x \in G : Sets(x) => x \in B \/ x = g
      BY <3>2, Kinds
    <3>5. Range(g.todo) \subseteq Range(f.todo)
      BY <1>7, <3>3
    <3> HIDE DEF B, F, G, f
    <3>6. SetsFrom(G, F)
      BY <1>1, <1>4, <3>3, <3>4, <3>5 DEF SetsFrom
    <3> QED
      BY <3>2, <3>3, <3>6
  <2> QED
    BY <1>2, <2>1, <2>2
<1> HIDE DEF B, F, G, q, h
<1>9. \A m, p, px : Ahead(F, m, p, px) =>
            Ahead(G, m, p, px) \/ (m = f.lod /\ Place(p, px) = Head(f.todo))
  <2> SUFFICES ASSUME NEW m, NEW p, NEW px, Ahead(F, m, p, px)
               PROVE  Ahead(G, m, p, px) \/ (m = f.lod /\ Place(p, px) = Head(f.todo))
    OBVIOUS
  <2>1. PICK x \in F : Sets(x) /\ x.lod = m /\ Place(p, px) \in Range(x.todo)
    BY DEF Ahead
  <2>2. CASE x \in B
    BY <1>8, <2>1, <2>2 DEF Ahead
  <2>3. CASE x = f
    <3>1. CASE Place(p, px) \in Range(Tail(f.todo))
      BY <1>8, <2>1, <2>3, <3>1 DEF Ahead
    <3> QED
      BY <1>7, <2>1, <2>3, <3>1
  <2> QED
    BY <1>4, <2>1, <2>2, <2>3
<1>10. AheadIn(want, G)
  <2> SUFFICES ASSUME NEW x \in G, Sets(x), x.lod = 1, NEW tg \in Range(x.todo)
               PROVE  want[CellAt(tg.pos, tg.px)] = x.value
    BY DEF AheadIn
  <2>1. PICK y \in F : /\ Sets(y) /\ x.lod = y.lod /\ x.value = y.value
                       /\ Range(x.todo) \subseteq Range(y.todo)
    BY <1>8 DEF SetsFrom
  <2> QED
    BY <1>5, <2>1 DEF AheadIn
<1>11. CascadedIn(stored, G)
  <2> SUFFICES ASSUME NEW x \in G, Sets(x), x.lod # 1 PROVE \E k \in G : From(stored, k, x)
    BY DEF CascadedIn
  <2>1. PICK y \in F : /\ Sets(y) /\ x.lod = y.lod /\ x.value = y.value
                       /\ Range(x.todo) \subseteq Range(y.todo)
    BY <1>8 DEF SetsFrom
  <2>2. PICK k \in B : From(stored, k, y)
    BY <1>1, <1>5, <2>1, BelowFrom DEF B, F
  <2>3. From(stored, k, x)
    BY <2>1, <2>2, FromSame
  <2> QED
    BY <1>8, <2>2, <2>3
<1>12. WantedIn(pending, heap, stored, want, F) => WantedIn(q, h, stored, want, G)
  <2> SUFFICES ASSUME WantedIn(pending, heap, stored, want, F), NEW p \in Pos, NEW px \in Pixel
               PROVE  Holds(q, h, stored, 1, p, px, want[CellAt(p, px)]) \/ Ahead(G, 1, p, px)
    BY DEF WantedIn
  <2>0. 1 \in Lod
    BY Sizes DEF Lod
  <2>1. CASE f.lod = 1 /\ Place(p, px) = Head(f.todo)
    <3>1. Holds(q, h, stored, 1, p, px, f.value)
      BY <1>1, <1>3, <2>0, <2>1, PaintedHolds
    <3>2. Head(f.todo).pos = p /\ Head(f.todo).px = px
      BY <2>1 DEF Place
    <3>3. want[CellAt(p, px)] = f.value
      BY <1>1, <1>4, <1>5, <1>6, <2>1, <3>2 DEF AheadIn
    <3> QED
      BY <3>1, <3>3
  <2>2. CASE ~(1 = f.lod /\ Place(p, px) = Head(f.todo))
    <3>1. Ahead(F, 1, p, px) => Ahead(G, 1, p, px)
      BY <1>9, <2>2
    <3>2. \A v : Holds(pending, heap, stored, 1, p, px, v) => Holds(q, h, stored, 1, p, px, v)
      BY <1>1, <1>3, <2>0, <2>2, PaintedHolds
    <3> QED
      BY <3>1, <3>2 DEF WantedIn
  <2> QED
    BY <2>1, <2>2
<1>13. AveragedIn(pending, heap, stored, F) => AveragedIn(q, h, stored, G)
  <2> SUFFICES ASSUME AveragedIn(pending, heap, stored, F), NEW m \in Lod \ {LodCount}, NEW p \in Pos,
                      stored[m][p] # Missing, NEW i \in 1..Len(Groups), NEW tg \in ParentTargets(p, i)
               PROVE  Shows(q, h, stored, m, p, i, tg) \/ Behind(G, m, p, i, tg)
    BY DEF AveragedIn
  <2>0. /\ m + 1 \in Lod /\ tg.pos \in Pos /\ tg.px \in Pixel /\ tg = Place(tg.pos, tg.px)
        /\ m \in Nat
    BY NextPlace
  <2>1. CASE m + 1 = f.lod /\ tg = Head(f.todo)
    <3>1. Holds(q, h, stored, m + 1, tg.pos, tg.px, f.value) /\ Exists(q, stored, m + 1, tg.pos)
      BY <1>1, <1>3, <2>0, <2>1, PaintedHolds
    <3>2. f.lod # 1
      BY <2>0, <2>1, Sizes DEF Lod
    <3>3. PICK g \in F : From(stored, g, f)
      BY <1>1, <1>4, <1>5, <3>2 DEF CascadedIn
    <3>4. g.lod = m /\ tg \in ParentTargets(Head(g.todo).pos, Done(g)) /\ Done(g) \in 1..Len(Groups)
      BY <1>6, <2>0, <2>1, <3>3 DEF From
    <3>5. Head(g.todo).pos \in Pos
      BY <1>4, <3>3, HeadOfSave, Kinds DEF From
    <3>6. Head(g.todo).pos = p /\ Done(g) = i
      BY <3>4, <3>5, ParentTargetsApart
    <3>7. f.value = Average(stored[m][p], Groups[i])
      BY <3>3, <3>4, <3>6 DEF From
    <3> QED
      BY <3>1, <3>7 DEF Shows
  <2>2. CASE ~(m + 1 = f.lod /\ tg = Head(f.todo))
    <3>1. CASE Behind(F, m, p, i, tg)
      <4>1. PICK x \in F : /\ x.at = "cascade" /\ x.lod = m /\ Head(x.todo).pos = p
                           /\ i > Done(x) \/ (i = Done(x) /\ Ahead(F, m + 1, tg.pos, tg.px))
        BY <3>1 DEF Behind
      <4>2. x \in G
        BY <1>4, <1>8, <4>1
      <4>3. Ahead(F, m + 1, tg.pos, tg.px) => Ahead(G, m + 1, tg.pos, tg.px)
        BY <1>9, <2>0, <2>2
      <4> QED
        BY <4>1, <4>2, <4>3 DEF Behind
    <3>2. CASE Shows(pending, heap, stored, m, p, i, tg)
      <4>1. \A v : Holds(pending, heap, stored, m + 1, tg.pos, tg.px, v) =>
                   Holds(q, h, stored, m + 1, tg.pos, tg.px, v)
        BY <1>1, <1>3, <2>0, <2>2, PaintedHolds
      <4>2. Exists(pending, stored, m + 1, tg.pos) => Exists(q, stored, m + 1, tg.pos)
        BY <1>1, <1>3, <2>0, PaintedHolds
      <4> QED
        BY <3>2, <4>1, <4>2 DEF Shows
    <3> QED
      BY <3>1, <3>2 DEF AveragedIn
  <2> QED
    BY <2>1, <2>2
<1>14. WantedNow' /\ AveragedNow'
  BY <1>1, <1>12, <1>13 DEF Told, WantedNow, AveragedNow, F, G, q, h
<1>15. SetsNow'
  BY <1>1, <1>10, <1>11 DEF SetsNow, G
<1> QED
  BY <1>14, <1>15 DEF Told

\* The next cell, and the places that show it.
LEMMA NextTargets ==
    ASSUME Typed, queue # << >>, NEW call, NextWrite(call)
    PROVE  LET c == Head(queue).cell IN
           /\ c \in Cell /\ Head(queue).value = call.value
           /\ \A tg \in Range(call.todo) : CellAt(tg.pos, tg.px) = c
           /\ \A p \in Pos, px \in Pixel : CellAt(p, px) = c => Place(p, px) \in Range(call.todo)
<1> DEFINE c == Head(queue).cell
           p == TileOf(c)
           px == LocalOf(c)
<1>1. /\ c \in Int \X Int /\ Targets(p, px) \in Seq(Target) /\ Targets(p, px) # << >>
      /\ p \in Int \X Int /\ px \in Pixel
  BY NextCell
<1>2. call.todo = Targets(p, px) /\ call.value = Head(queue).value /\ CallOK(call) /\ Sets(call)
  BY DEF NextWrite
<1> HIDE DEF c
<1>3. CellAt(p, px) = c
  BY <1>1, CellIsAt
<1> HIDE DEF p, px
<1>4. \A tg \in Range(call.todo) : CellAt(tg.pos, tg.px) = c /\ tg.px \in Pixel
  BY <1>1, <1>2, <1>3, TargetsShowCell
<1>5. Head(call.todo) \in Range(call.todo) /\ Head(call.todo) \in Target
  BY <1>2, HeadOfSet
<1>6. c \in Cell
  BY <1>4, <1>5 DEF Target, Cell
<1>7. \A x \in Pos, y \in Pixel : CellAt(x, y) = c => Place(x, y) \in Range(call.todo)
  BY <1>1, <1>2, TargetsCover, PosAssumption DEF p, px
<1> QED
  BY <1>2, <1>4, <1>6, <1>7 DEF c

LEMMA WriteTold ==
    ASSUME Shape, Shape', Alone, CoreNow, Told, dropped' = FALSE, Write
    PROVE  Told'
<1> DEFINE G == Calls'
           q == pending'
           h == heap'
           s == stored'
           w == want'
           c == Head(queue).cell
<1>0. Typed /\ Stacks /\ References /\ Phases
  BY DEF Shape
<1>1. /\ queue # << >> /\ want' = [want EXCEPT ![c] = Head(queue).value]
      /\ phase' = phase /\ stored' = stored
  BY <1>0, WriteDoes
<1>2. PICK call : NextWrite(call) /\ Adds(call, {}, G)
  BY WriteCore
<1>3. Unchanged /\ Calls = {}
  BY WriteCore DEF NoCalls
<1>4. /\ c \in Cell /\ Head(queue).value = call.value
      /\ \A tg \in Range(call.todo) : CellAt(tg.pos, tg.px) = c
      /\ \A p \in Pos, px \in Pixel : CellAt(p, px) = c => Place(p, px) \in Range(call.todo)
  BY <1>0, <1>1, <1>2, NextTargets
<1>5. w[c] = call.value /\ \A x \in Cell \ {c} : w[x] = want[x]
  BY <1>0, <1>1, <1>4 DEF Typed
<1>6. phase # "delete"
  BY <1>0, <1>1 DEF Phases
<1>7. WantedIn(pending, heap, stored, want, {}) /\ AveragedIn(pending, heap, stored, {})
  BY <1>3, <1>6 DEF Told, WantedNow, AveragedNow
<1>8. Kept(pending, heap, stored, q, h, s) /\ s = stored
  BY <1>1, <1>3 DEF Unchanged
<1>9. PICK g \in G :
        /\ Sets(g) /\ g.lod = 1 /\ g.todo = call.todo /\ g.value = call.value
        /\ \A f \in G : Sets(f) => f = g
  <2>1. PICK g \in G :
          /\ Follows(call, g)
          /\ \A f \in G : f \in {} \/ f = g \/ (Saves(f) /\ f.at = "write" /\ f.lod = call.lod)
    BY <1>2 DEF Adds
  <2>2. Sets(g) /\ g.lod = 1 /\ g.todo = call.todo /\ g.value = call.value
    BY <1>2, <2>1 DEF Follows, NextWrite
  <2> QED
    BY <2>1, <2>2, Kinds
<1> HIDE DEF G, q, h, s, w, c
<1>10. WantedIn(q, h, s, w, G)
  <2> SUFFICES ASSUME NEW p \in Pos, NEW px \in Pixel
               PROVE  Holds(q, h, s, 1, p, px, w[CellAt(p, px)]) \/ Ahead(G, 1, p, px)
    BY DEF WantedIn
  <2>1. CASE CellAt(p, px) = c
    BY <1>4, <1>9, <2>1 DEF Ahead
  <2>2. CASE CellAt(p, px) # c
    <3>1. CellAt(p, px) \in Cell
      BY DEF Cell
    <3>2. w[CellAt(p, px)] = want[CellAt(p, px)]
      BY <1>5, <2>2, <3>1
    <3>3. Holds(pending, heap, stored, 1, p, px, want[CellAt(p, px)])
      BY <1>7 DEF WantedIn, Ahead
    <3>4. 1 \in Lod
      BY Sizes DEF Lod
    <3>5. Same(pending, heap, stored, q, h, s, 1, p)
      BY <1>8, <3>4 DEF Kept
    <3> QED
      BY <3>2, <3>3, <3>5 DEF Same
  <2> QED
    BY <2>1, <2>2
<1>11. AheadIn(w, G)
  BY <1>4, <1>5, <1>9 DEF AheadIn
<1>12. CascadedIn(s, G)
  BY <1>9 DEF CascadedIn
<1>13. AveragedIn(q, h, s, G)
  <2>1. StoredOr(stored, s, G)
    BY <1>8 DEF StoredOr
  <2>2. BehindStays({}, G)
    BY DEF BehindStays, Behind
  <2> QED
    BY <1>7, <1>8, <2>1, <2>2, AveragedKept
<1> QED
  BY <1>10, <1>11, <1>12, <1>13 DEF Told, WantedNow, AveragedNow, SetsNow, G, q, h, s, w

LEMMA SaveLayerTold ==
    ASSUME Shape, Shape', Alone, CoreNow, Told, SaveLayer
    PROVE  Told'
<1>1. /\ Calls = {} /\ UNCHANGED <<pending, heap, stored>>
      /\ Calls' = {} \/ \E f : Saves(f) /\ Calls' = {f}
  BY SaveLayerCore DEF NoCalls
<1>2. want' = want /\ phase' = phase
  BY DEF SaveLayer, ghosts
<1>3. \A f \in Calls' : ~Sets(f)
  BY <1>1, Kinds
<1>4. Unchanged
  BY <1>1 DEF Unchanged, Kept, Same
<1>5. Carries(Calls, Calls')
  BY <1>1 DEF Carries
<1>6. FirstFrom(Calls', Calls)
  BY <1>3 DEF FirstFrom
<1>7. StoredOr(stored, stored', Calls')
  BY <1>1 DEF StoredOr
<1>8. BehindStays(Calls, Calls')
  BY <1>1 DEF BehindStays, Behind
<1>9. CascadedIn(stored', Calls')
  BY <1>3 DEF CascadedIn
<1> QED
  BY <1>2, <1>4, <1>5, <1>6, <1>7, <1>8, <1>9, ToldKept

\* The calls are the same.
LEMMA SameCallsTold ==
    ASSUME Told, Unchanged, Calls' = Calls, stored' = stored, want' = want,
           phase' # "delete" => phase # "delete"
    PROVE  Told'
<1> DEFINE F == Calls
           G == Calls'
<1>1. F = G /\ CascadedIn(stored, F)
  BY DEF Told, SetsNow
<1> HIDE DEF F, G
<1>2. /\ Carries(F, G) /\ FirstFrom(G, F) /\ BehindStays(F, G) /\ CascadedIn(stored, G)
      /\ StoredOr(stored, stored', G)
  BY <1>1 DEF Carries, FirstFrom, BehindStays, StoredOr
<1>3. CascadedIn(stored', G)
  BY <1>2
<1> QED
  BY <1>2, <1>3, ToldKept DEF F, G

LEMMA ExpireTold ==
    ASSUME Shape, Shape', CoreNow, Told, NEW l \in Lod, NEW p \in Pos, Expire(l, p)
    PROVE  Told'
<1>1. want' = want /\ phase' = phase
  BY DEF Expire, ghosts
<1> QED
  BY <1>1, ExpireCore, SameCallsTold

LEMMA QuietTold ==
    ASSUME CoreNow, Told, Quiet
    PROVE  Told'
<1>1. want' = want
  BY DEF Quiet, Set, Save, Purge, SaveFlushed, SaveEnds, ghosts
<1>2. phase' # "delete" => phase # "delete"
  BY DEF Quiet, Set, Save, Purge, SaveFlushed, SaveEnds
<1> QED
  BY <1>1, <1>2, QuietCore, SameCallsTold

\* Without calls none is ahead of the tiles, nor has one of them set to write.
LEMMA SetsNone == ASSUME NEW w, NEW s PROVE AheadIn(w, {}) /\ CascadedIn(s, {})
BY DEF AheadIn, CascadedIn

LEMMA DiscardTold ==
    ASSUME Shape, Discard
    PROVE  Told'
<1>1. Calls' = {} /\ phase' = "delete"
  BY DiscardCore
<1>2. SetsNow'
  BY <1>1, SetsNone DEF SetsNow
<1> QED
  BY <1>1, <1>2 DEF Told, WantedNow, AveragedNow

\* Where nothing is pending or stored every cell shows nothing, and nothing was written.
LEMMA ToldEmpty ==
    ASSUME NEW q, NEW h, NEW s, NEW w,
           \A l \in Lod : q[l] = << >> /\ \A p \in Pos : s[l][p] = Missing,
           \A c \in Cell : w[c] = 0
    PROVE  WantedIn(q, h, s, w, {}) /\ AveragedIn(q, h, s, {})
<1>1. WantedIn(q, h, s, w, {})
  <2> SUFFICES ASSUME NEW p \in Pos, NEW px \in Pixel PROVE Holds(q, h, s, 1, p, px, w[CellAt(p, px)])
    BY DEF WantedIn
  <2>1. CellAt(p, px) \in Cell
    BY DEF Cell
  <2>2. 1 \in Lod
    BY Sizes DEF Lod
  <2>3. FileOf(s, 1, p)[px] = 0
    BY <2>2 DEF FileOf, Blank
  <2>4. IdsIn(q, 1, p) = {}
    <3>1. Range(<< >>) = {}
      BY DEF Range
    <3> QED
      BY <2>2, <3>1 DEF IdsIn
  <2> QED
    BY <2>1, <2>3, <2>4 DEF Holds
<1> QED
  BY <1>1 DEF AveragedIn

LEMMA DeleteStoredTold ==
    ASSUME Shape, DeleteStored
    PROVE  Told'
<1> DEFINE q == pending'
           h == heap'
           s == stored'
           w == want'
<1>1. /\ Calls' = {}
      /\ \A l \in Lod : q[l] = << >> /\ \A p \in Pos : s[l][p] = Missing
      /\ \A c \in Cell : w[c] = 0
  BY DeleteStoredCore
<1>2. SetsNow'
  BY <1>1, SetsNone DEF SetsNow
<1> HIDE DEF q, h, s, w
<1>3. WantedIn(q, h, s, w, {}) /\ AveragedIn(q, h, s, {})
  BY <1>1, ToldEmpty
<1> QED
  BY <1>1, <1>2, <1>3 DEF Told, WantedNow, AveragedNow, q, h, s, w

-----------------------------------------------------------------------------
(* What a save has saved *)

\* The calls of a save that comes to layer n next are of the layer before, or of later ones.
SavesTo(F, n) == \A f \in F : IF Sets(f) THEN f.lod >= n ELSE f.lod >= n - 1

\* The layers before have no changes but those they are saving.
SavedTo(q, F, n) == \A l \in Lod : l < n => q[l] = << >> \/ \E f \in F : Saves(f) /\ f.lod = l

SavedNow ==
    /\ phase # "save" => layer = 1
    /\ phase = "save" => SavesTo(Calls, layer)
    /\ errors = 0 => /\ phase = "save" => SavedTo(pending, Calls, layer)
                     /\ phase = "saved" => \A l \in Lod : pending[l] = << >>

SavesStay(F, G) == \A f \in F : Saves(f) => \E g \in G : Saves(g) /\ g.lod = f.lod

LEMMA SavedStays ==
    ASSUME NEW q, NEW q2, NEW F, NEW G, NEW n, SavedTo(q, F, n), SavesStay(F, G),
           \A l \in Lod : l < n => q2[l] = q[l]
    PROVE  SavedTo(q2, G, n)
BY DEF SavedTo, SavesStay

\* A call of layer n or later goes on top.
LEMMA SavesAdds ==
    ASSUME NEW n \in Nat, NEW B, SavesTo(B, n), NEW c, NEW G, Adds(c, B, G), c.lod >= n
    PROVE  SavesTo(G, n) /\ B \subseteq G
<1>1. PICK g \in G :
        /\ Follows(c, g) /\ B \subseteq G
        /\ \A f \in G : f \in B \/ f = g \/ (Saves(f) /\ f.at = "write" /\ f.lod = c.lod)
  BY DEF Adds
<1>2. Sets(g) /\ g.lod = c.lod /\ c.lod \in Nat
  BY <1>1 DEF Follows, CallOK, Lod
<1>3. c.lod >= n - 1
  BY <1>2
<1> QED
  BY <1>1, <1>2, <1>3, Kinds DEF SavesTo

\* The calls of a step in phase "save".
LEMMA StepSaved ==
    ASSUME Shape, Shape', Alone, CoreNow, SavedNow, dropped' = FALSE, errors' \in {errors, errors + 1},
           NEW t \in Thread, Step(t)
    PROVE  SavedNow'
<1> DEFINE f == Top(t)
           B == Range(Below(t))
           F == Calls
           G == Calls'
           q == pending
           q2 == pending'
           n == layer
<1>0. Typed /\ Stacks /\ References /\ Phases /\ errors \in Nat /\ n \in Nat
  BY Sizes DEF Shape, Typed
<1>1. stack[t] # << >> /\ UNCHANGED <<phase, layer>>
  BY <1>0, StepFrame
<1>2. CASE phase # "save"
  <2>1. phase # "saved"
    BY <1>0, <1>1, <1>2 DEF Phases, Alone, Thread
  <2> QED
    BY <1>1, <1>2, <2>1 DEF SavedNow
<1>3. CASE phase = "save"
  <2>1. /\ F = {f} \cup B /\ CallOK(f) /\ f.lod \in Nat /\ \A g \in B : CallOK(g)
    BY <1>1, OneStack DEF CallOK, Lod
  <2>2. SavesTo(F, n) /\ (errors = 0 => SavedTo(q, F, n))
    BY <1>3 DEF SavedNow
  <2>3. SavesTo(B, n)
    BY <2>1, <2>2 DEF SavesTo
  <2>4. errors' = 0 => errors = 0
    BY <1>0
  <2>5. SUFFICES SavesTo(G, n) /\ (errors' = 0 => SavedTo(q2, G, n))
    BY <1>1, <1>3 DEF SavedNow
  <2> HIDE DEF B, F, G, q, q2, n
  <2>6. ASSUME NEW m \in Nat, m >= n, OnlyLayer(m), SavesStay(F, G)
        PROVE  errors' = 0 => SavedTo(q2, G, n)
    <3>1. \A l \in Lod : l < n => q2[l] = q[l]
      <4> SUFFICES ASSUME NEW l \in Lod, l < n PROVE q2[l] = q[l]
        OBVIOUS
      <4>1. l # m
        BY <1>0, <2>6 DEF Lod
      <4> QED
        BY <2>6, <4>1 DEF OnlyLayer, q, q2
    <3> QED
      BY <2>2, <2>4, <2>6, <3>1, SavedStays
  <2>7. CASE KeepTile(t) \/ AddChange(t) \/ SetPixel(t)
    <3>1. Sets(f) /\ OnlyLayer(f.lod) /\ \/ G = B
                                         \/ \E c : c.lod = f.lod /\ Adds(c, B, G)
      BY <1>0, <2>7, KeepTileDoes, KeepTileCore, AddChangeDoes, AddChangeCore, SetPixelDoes, SetPixelCore
      DEF NextTile, B, G
    <3>2. f.lod >= n
      BY <2>1, <2>2, <3>1 DEF SavesTo
    <3>3. SavesTo(G, n) /\ B \subseteq G
      BY <1>0, <2>3, <3>1, <3>2, SavesAdds
    <3>4. SavesStay(F, G)
      BY <2>1, <3>1, <3>3, Kinds DEF SavesStay
    <3> QED
      BY <2>1, <2>6, <3>1, <3>2, <3>3, <3>4
  <2>8. CASE WriteTile(t) \/ Cascade(t)
    <3>1. /\ Saves(f) /\ OnlyLayer(f.lod + 1)
          /\ \E k : /\ CascadeOf(f, k)
                    /\ \/ G = {k} \cup B
                       \/ \E c : c.lod = k.lod + 1 /\ Adds(c, {k} \cup B, G)
      BY <1>0, <2>8, WriteTileDoes, WriteTileCore, CascadeDoes, CascadeCore DEF Brings, B, G
    <3>2. PICK k : /\ CascadeOf(f, k)
                   /\ \/ G = {k} \cup B
                      \/ \E c : c.lod = k.lod + 1 /\ Adds(c, {k} \cup B, G)
      BY <3>1
    <3>3. Saves(k) /\ k.lod = f.lod /\ ~Sets(k) /\ ~Sets(f)
      BY <3>1, <3>2, Kinds DEF CascadeOf
    <3>4. f.lod >= n - 1
      BY <2>1, <2>2, <3>3 DEF SavesTo
    <3>5. SavesTo({k} \cup B, n)
      BY <2>3, <3>3, <3>4 DEF SavesTo
    <3>6. f.lod + 1 >= n /\ f.lod + 1 \in Nat
      BY <1>0, <2>1, <3>4
    <3>7. SavesTo(G, n) /\ {k} \cup B \subseteq G
      BY <1>0, <3>2, <3>3, <3>5, <3>6, SavesAdds
    <3>8. SavesStay(F, G)
      BY <2>1, <3>3, <3>7 DEF SavesStay
    <3> QED
      BY <2>6, <3>1, <3>6, <3>7, <3>8
  <2>9. CASE WriteFails(t) \/ EndTile(t)
    <3> DEFINE todo == Tail(f.todo)
               l == f.lod
    <3>1. /\ Saves(f) /\ GoesOn(t, l, todo)
          /\ \/ errors' = errors + 1
             \/ OnlyLayer(l) /\ errors' = errors /\ Left(todo, q2[l], errors)
      BY <1>0, <2>9, WriteFailsDoes, WriteFailsCore, EndTileDoes, EndTileCore DEF q2
    <3>2. l >= n - 1
      BY <2>1, <2>2, <3>1, Kinds DEF SavesTo
    <3> HIDE DEF todo
    <3>3. \/ todo = << >> /\ G = B
          \/ \E k : Saves(k) /\ k.lod = l /\ G = {k} \cup B
      BY <3>1 DEF GoesOn, G, B
    <3>4. SavesTo(G, n)
      BY <2>3, <3>2, <3>3, Kinds DEF SavesTo
    <3>5. ASSUME errors' = 0 PROVE SavedTo(q2, G, n)
      <4>0. /\ OnlyLayer(l) /\ Left(todo, q2[l], errors) /\ errors = 0 /\ SavedTo(q, F, n)
        BY <1>0, <2>2, <2>4, <3>1, <3>5
      <4> SUFFICES ASSUME NEW m \in Lod, m < n
                   PROVE  q2[m] = << >> \/ \E g \in G : Saves(g) /\ g.lod = m
        BY DEF SavedTo
      <4>1. CASE m # l
        <5>1. q2[m] = q[m]
          BY <4>0, <4>1 DEF OnlyLayer, q, q2
        <5>2. q[m] = << >> \/ \E g \in F : Saves(g) /\ g.lod = m
          BY <4>0 DEF SavedTo
        <5>3. B \subseteq G
          BY <3>3
        <5> QED
          BY <2>1, <4>1, <5>1, <5>2, <5>3
      <4>2. CASE m = l /\ todo = << >>
        <5>1. Range(<< >>) = {}
          BY DEF Range
        <5> DEFINE r == q2[m]
        <5>2. Range(r) = {}
          BY <4>0, <4>2, <5>1 DEF Left
        <5>3. r \in Seq(PendingChange)
          BY DEF Shape, Typed, PendingOK, q2
        <5> HIDE DEF r
        <5>4. r = << >>
          BY <5>2, <5>3, Elements
        <5> QED
          BY <5>4 DEF r
      <4>3. CASE m = l /\ todo # << >>
        BY <3>3, <4>3
      <4> QED
        BY <4>1, <4>2, <4>3
    <3> QED
      BY <3>4, <3>5
  <2> QED
    BY <2>7, <2>8, <2>9 DEF Step
<1> QED
  BY <1>2, <1>3

\* The steps of the manager and of the environment.
LEMMA OtherSaved ==
    ASSUME Shape, Shape', threads = 1, Alone, CoreNow, SavedNow, dropped' = FALSE,
           errors' \in {errors, errors + 1}, Manage \/ Environment
    PROVE  SavedNow'
<1>0. Typed /\ Stacks /\ References /\ Phases /\ errors \in Nat /\ layer \in Nat /\ LodCount \in Nat
  BY Sizes DEF Shape, Typed
<1>1. errors' = 0 => errors = 0
  BY <1>0
<1>2. CASE Write
  <2>1. queue # << >> /\ UNCHANGED <<phase, layer>>
    BY <1>0, <1>2, WriteDoes
  <2>2. phase \notin {"save", "saved"}
    BY <2>1 DEF Alone
  <2> QED
    BY <2>1, <2>2 DEF SavedNow
<1>3. CASE SaveFlushed
  <2>1. /\ phase = "flush" /\ stack["writer"] = << >> /\ phase' = "save"
        /\ UNCHANGED <<stack, layer>>
    BY <1>3 DEF SaveFlushed, Drained
  <2>2. stack["saver"] = << >> /\ layer = 1
    BY <1>0, <2>1 DEF Phases, SavedNow
  <2>3. Calls' = {}
    <3>1. Calls = {}
      BY <2>1, <2>2, NoneUnderWay DEF NoCalls
    <3> QED
      BY <2>1, <3>1 DEF Calls
  <2>4. SavesTo(Calls', layer') /\ SavedTo(pending', Calls', layer')
    BY <2>1, <2>2, <2>3 DEF SavesTo, SavedTo, Lod
  <2> QED
    BY <2>1, <2>4 DEF SavedNow
<1>4. CASE SaveLayer
  <2>1. phase = "save" /\ phase' = "save" /\ layer' = layer + 1
    BY <1>4 DEF SaveLayer
  <2>2. /\ Calls = {} /\ pending' = pending
        /\ \/ pending[layer] = << >> /\ Calls' = {}
           \/ \E f : Saves(f) /\ CallOK(f) /\ f.lod = layer /\ Calls' = {f}
    BY <1>4, SaveLayerCore DEF NoCalls
  <2>3. SavesTo(Calls', layer')
    BY <1>0, <2>1, <2>2, Kinds DEF SavesTo
  <2>4. ASSUME errors' = 0 PROVE SavedTo(pending', Calls', layer')
    <3> SUFFICES ASSUME NEW l \in Lod, l < layer + 1
                 PROVE  pending[l] = << >> \/ \E f \in Calls' : Saves(f) /\ f.lod = l
      BY <2>1, <2>2 DEF SavedTo
    <3>1. CASE l = layer
      BY <2>2, <3>1
    <3>2. CASE l # layer
      <4>1. l < layer
        BY <1>0, <3>2 DEF Lod
      <4>2. SavedTo(pending, {}, layer)
        BY <1>1, <2>1, <2>2, <2>4 DEF SavedNow
      <4> QED
        BY <4>1, <4>2 DEF SavedTo
    <3> QED
      BY <3>1, <3>2
  <2> QED
    BY <2>1, <2>3, <2>4 DEF SavedNow
<1>5. CASE SaveEnds
  <2>1. /\ phase = "save" /\ stack["saver"] = << >> /\ layer > LodCount /\ layer' = 1
        /\ phase' = "saved" /\ pending' = pending
    BY <1>5 DEF SaveEnds, tileVars
  <2>2. Calls = {}
    BY <2>1, NoneUnderWay DEF NoCalls, Alone
  <2>3. ASSUME errors' = 0, NEW l \in Lod PROVE pending[l] = << >>
    <3>1. SavedTo(pending, {}, layer)
      BY <1>1, <2>1, <2>2, <2>3 DEF SavedNow
    <3>2. l < layer
      BY <1>0, <2>1 DEF Lod
    <3> QED
      BY <3>1, <3>2 DEF SavedTo
  <2> QED
    BY <2>1, <2>3 DEF SavedNow
<1>6. CASE Discard \/ DeleteStored \/ DeleteStops \/ Save \/ Purge
  <2>1. phase # "save" /\ phase' \notin {"save", "saved"} /\ layer' = layer
    BY <1>6 DEF Discard, DeleteStored, DeleteStops, Save, Purge
  <2> QED
    BY <2>1 DEF SavedNow
<1>7. CASE \E s \in Writes[threads] : Set(s)
  <2>1. phase # "save" /\ phase' \notin {"save", "saved"} /\ layer' = layer
    BY <1>7 DEF Set
  <2> QED
    BY <2>1 DEF SavedNow
<1>8. CASE \E l \in Lod, p \in Pos : Expire(l, p)
  <2>1. UNCHANGED <<phase, layer, stack, pending>>
    BY <1>8 DEF Expire
  <2>2. Calls' = Calls
    BY <2>1 DEF Calls
  <2> QED
    BY <1>1, <2>1, <2>2 DEF SavedNow
<1> QED
  BY <1>2, <1>3, <1>4, <1>5, <1>6, <1>7, <1>8 DEF Manage, Environment

-----------------------------------------------------------------------------
(* The invariant of one worker *)

OneWorker ==
    threads = 1 => /\ Alone /\ GaveUp
                   /\ ~dropped => CoreNow /\ Told /\ SavedNow

LEMMA OneWorkerInit == Init => Shape /\ OneWorker
<1> SUFFICES ASSUME Init PROVE Shape /\ OneWorker
  OBVIOUS
<1>1. Shape
  BY ShapeInit
<1>2. /\ stack["writer"] = << >> /\ stack["saver"] = << >> /\ phase = "idle" /\ layer = 1
      /\ dropped = FALSE
      /\ \A l \in Lod : pending[l] = << >> /\ \A p \in Pos : cache[l][p] = 0 /\ stored[l][p] = Missing
      /\ \A c \in Cell : want[c] = 0
  BY DEF Init, Thread
<1>3. Calls = {}
  BY <1>2, NoneUnderWay DEF NoCalls
<1>4. CoreNow
  <2>1. Core(pending, cache, heap, stored, errors, {})
    BY <1>2, CoreEmpty
  <2> QED
    BY <1>3, <2>1 DEF CoreNow
<1>5. WantedIn(pending, heap, stored, want, {}) /\ AveragedIn(pending, heap, stored, {})
  BY <1>2, ToldEmpty
<1>6. Told
  BY <1>3, <1>5, SetsNone DEF Told, WantedNow, AveragedNow, SetsNow
<1> QED
  BY <1>1, <1>2, <1>4, <1>6 DEF OneWorker, Alone, GaveUp, SavedNow

LEMMA StepTold ==
    ASSUME Shape, Shape', Alone, CoreNow, Told, dropped' = FALSE, NEW t \in Thread, Step(t)
    PROVE  CoreNow' /\ Told'
<1>0. Typed /\ Stacks /\ References
  BY DEF Shape
<1>1. want' = want /\ phase' = phase
  BY <1>0, StepFrame
<1>2. CASE KeepTile(t)
  <2>1. stack[t] # << >> /\ Sets(Top(t)) /\ stored' = stored
    BY <1>0, <1>2, KeepTileDoes
  <2> QED
    BY <1>1, <1>2, <2>1, KeepTileCore, FollowsTold
<1>3. CASE AddChange(t)
  <2>1. stack[t] # << >> /\ Sets(Top(t)) /\ stored' = stored
    BY <1>0, <1>3, AddChangeDoes
  <2> QED
    BY <1>1, <1>3, <2>1, AddChangeCore, FollowsTold
<1>4. CASE SetPixel(t)
  BY <1>4, SetPixelCore, SetPixelTold
<1>5. CASE WriteTile(t)
  BY <1>5, WriteTileCore, WriteTileTold
<1>6. CASE Cascade(t)
  BY <1>6, CascadeCore, CascadeTold
<1>7. CASE WriteFails(t)
  <2>1. stack[t] # << >> /\ Saves(Top(t)) /\ Top(t).at = "write"
    BY <1>0, <1>7, WriteFailsDoes
  <2> QED
    BY <1>1, <1>7, <2>1, WriteFailsCore, GoesOnTold
<1>8. CASE EndTile(t)
  <2>1. stack[t] # << >> /\ Saves(Top(t)) /\ Top(t).group = 0
    BY <1>0, <1>8, EndTileDoes DEF EndTile
  <2>2. Done(Top(t)) = Len(Groups)
    BY <2>1, GroupsAre DEF Done
  <2> QED
    BY <1>1, <1>8, <2>1, <2>2, EndTileCore, GoesOnTold
<1> QED
  BY <1>2, <1>3, <1>4, <1>5, <1>6, <1>7, <1>8 DEF Step

LEMMA OtherTold ==
    ASSUME Shape, Shape', Alone, CoreNow, Told, dropped' = FALSE, Manage \/ Environment
    PROVE  CoreNow' /\ Told'
<1>1. CASE Write
  BY <1>1, WriteCore, WriteTold
<1>2. CASE SaveLayer
  BY <1>2, SaveLayerCore, SaveLayerTold
<1>3. CASE Discard
  BY <1>3, DiscardCore, DiscardTold
<1>4. CASE DeleteStored
  BY <1>4, DeleteStoredCore, DeleteStoredTold
<1>5. CASE \E l \in Lod, p \in Pos : Expire(l, p)
  BY <1>5, ExpireCore, ExpireTold
<1>6. CASE Quiet
  BY <1>6, QuietCore, QuietTold
<1>7. ~DeleteStops
  BY DEF DeleteStops
<1> QED
  BY <1>1, <1>2, <1>3, <1>4, <1>5, <1>6, <1>7 DEF Manage, Environment, Quiet

\* Nothing is found again once it is lost, and the pool keeps its size.
LEMMA LostStays ==
    ASSUME Shape, [Next]_vars
    PROVE  threads' = threads /\ (dropped' = FALSE => dropped = FALSE)
<1>0. Typed /\ Stacks /\ References
  BY DEF Shape
<1>1. CASE \E t \in Thread : Step(t)
  BY <1>0, <1>1, StepFrame
<1>2. CASE Write
  <2>1. threads' = threads
    BY <1>0, <1>2, WriteDoes
  <2>2. dropped' = dropped \/ dropped' = TRUE
    BY <1>0, <1>2, WriteDoes DEF Enters, LoadsTile
  <2> QED
    BY <2>1, <2>2
<1>3. CASE SaveFlushed \/ SaveLayer \/ SaveEnds \/ Discard \/ DeleteStored \/ Environment
  BY <1>3 DEF SaveFlushed, SaveLayer, SaveEnds, Discard, DeleteStored, Environment, Set, Save, Purge,
              DeleteStops, Expire, ghosts, envVars
<1>4. CASE UNCHANGED vars
  BY <1>4 DEF vars, ghosts, envVars
<1> QED
  BY <1>1, <1>2, <1>3, <1>4 DEF Next, Manage

LEMMA OneWorkerStep ==
    ASSUME Shape, OneWorker, [Next]_vars
    PROVE  Shape' /\ OneWorker'
<1>1. Shape'
  BY ShapeStep
<1>2. CASE UNCHANGED vars
  BY <1>1, <1>2 DEF vars, tileVars, ghosts, envVars, OneWorker, Alone, GaveUp, CoreNow, Told,
                    WantedNow, AveragedNow, SetsNow, SavedNow, Calls
<1>3. CASE Next
  <2> SUFFICES ASSUME threads' = 1 PROVE OneWorker'
    BY <1>1 DEF OneWorker
  <2>1. threads = 1 /\ (dropped' = FALSE => dropped = FALSE) /\ errors' \in {errors, errors + 1}
    BY <1>3, LostStays, ErrorsGrow
  <2>2. Alone /\ GaveUp /\ (~dropped => CoreNow /\ Told /\ SavedNow)
    BY <2>1 DEF OneWorker
  <2>3. Alone' /\ GaveUp'
    BY <1>3, <2>1, <2>2, AloneStep, GaveUpStep
  <2>4. ASSUME dropped' = FALSE PROVE CoreNow' /\ Told' /\ SavedNow'
    <3>1. CoreNow /\ Told /\ SavedNow
      BY <2>1, <2>2, <2>4
    <3>2. CASE \E t \in Thread : Step(t)
      BY <1>1, <2>1, <2>2, <2>4, <3>1, <3>2, StepTold, StepSaved
    <3>3. CASE Manage \/ Environment
      BY <1>1, <2>1, <2>2, <2>4, <3>1, <3>3, OtherTold, OtherSaved
    <3> QED
      BY <1>3, <3>2, <3>3 DEF Next
  <2>5. dropped' \in BOOLEAN
    BY <1>1 DEF Shape, Typed
  <2>6. ~dropped' => CoreNow' /\ Told' /\ SavedNow'
    BY <2>4, <2>5
  <2> QED
    BY <2>3, <2>6 DEF OneWorker
<1> QED
  BY <1>1, <1>2, <1>3

\* The shape of the calls and the tiles, and with one worker what the calls have left to do.
THEOREM OneWorkerInvariant == Spec => [](Shape /\ OneWorker)
<1>1. Init => Shape /\ OneWorker
  BY OneWorkerInit
<1>2. Shape /\ OneWorker /\ [Next]_vars => (Shape /\ OneWorker)'
  BY OneWorkerStep
<1> QED
  BY <1>1, <1>2, PTL DEF Spec

-----------------------------------------------------------------------------
(* What it implies *)

\* A save sets no pixels of the first layer.
LEMMA SaverSetsLater ==
    ASSUME Stacks, NEW f \in Range(stack["saver"]), Sets(f)
    PROVE  f.lod # 1
<1> DEFINE s == stack["saver"]
<1>1. Nested("saver", s)
  BY DEF Stacks, Thread
<1>2. f \in Range(s)
  OBVIOUS
<1> HIDE DEF s
<1>3. s \in Seq(Range(s))
  BY <1>1 DEF Nested
<1>4. PICK i \in 1..Len(s) : f = s[i]
  BY <1>2, <1>3, Elements
<1>5. Len(s) \in Nat
  BY <1>3, Elements
<1>6. i # Len(s)
  BY <1>1, <1>4, Kinds DEF Nested, Base
<1>7. i + 1 \in 1..Len(s)
  BY <1>5, <1>6
<1>8. MadeBy(s[i], s[i + 1]) /\ CallOK(s[i + 1]) /\ CallOK(f)
  BY <1>1, <1>4, <1>7 DEF Nested
<1>9. s[i + 1].lod = f.lod - 1
  BY <1>4, <1>8, Kinds DEF MadeBy
<1>10. s[i + 1].lod \in Lod /\ f.lod \in Lod
  BY <1>8 DEF CallOK
<1> QED
  BY <1>9, <1>10, Sizes DEF Lod

\* What a reader is given is what the tile holds.
LEMMA ShownHolds ==
    ASSUME CoreNow, NEW l \in Lod, NEW p \in Pos, NEW px, NEW v,
           Holds(pending, heap, stored, l, p, px, v)
    PROVE  Shown(l, p)[px] = v
<1> DEFINE ids == IdsIn(pending, l, p)
<1>1. PendingIds(l, p) = ids
  BY DEF PendingIds, IdsIn
<1>2. CASE ids # {}
  <2>1. (CHOOSE id \in ids : TRUE) \in ids
    BY <1>2
  <2>2. heap[<<l, p, CHOOSE id \in ids : TRUE>>][px] = v
    BY <2>1 DEF Holds
  <2> QED
    BY <1>1, <1>2, <2>2 DEF Shown
<1>3. CASE ids = {}
  <2>1. FileOf(stored, l, p)[px] = v
    BY <1>3 DEF Holds
  <2>2. cache[l][p] # 0 => heap[<<l, p, cache[l][p]>>] = FileOf(stored, l, p)
    BY <1>3 DEF CoreNow, Core, Clean, Ids
  <2> QED
    BY <1>1, <1>3, <2>1, <2>2 DEF Shown, FileOf
<1> QED
  BY <1>2, <1>3

LEMMA LosesNothing == Shape /\ OneWorker => OneWorkerLosesNothing
<1> SUFFICES ASSUME Shape, OneWorker, threads = 1 PROVE OneWorkerLosesNothing
  BY DEF OneWorkerLosesNothing
<1>1. GaveUp
  BY DEF OneWorker
<1>2. ASSUME ~dropped PROVE PixelsKept
  <2> SUFFICES ASSUME phase # "delete", stack["writer"] = << >>, NEW p \in Pos, NEW px \in Pixel
               PROVE  Shown(1, p)[px] = want[CellAt(p, px)]
    BY DEF PixelsKept
  <2>1. CoreNow /\ WantedIn(pending, heap, stored, want, Calls)
    BY <1>2 DEF OneWorker, Told, WantedNow
  <2>2. ~Ahead(Calls, 1, p, px)
    <3>1. Range(<< >>) = {}
      BY DEF Range
    <3>2. Calls = Range(stack["saver"])
      BY <3>1 DEF Calls
    <3>3. \A f \in Calls : Sets(f) => f.lod # 1
      BY <3>2, SaverSetsLater DEF Shape
    <3> QED
      BY <3>3 DEF Ahead
  <2>3. Holds(pending, heap, stored, 1, p, px, want[CellAt(p, px)])
    BY <2>1, <2>2 DEF WantedIn
  <2>4. 1 \in Lod
    BY Sizes DEF Lod
  <2> QED
    BY <2>1, <2>3, <2>4, ShownHolds
<1>3. dropped \/ PixelsKept
  BY <1>2
<1> QED
  BY <1>1, <1>3 DEF OneWorkerLosesNothing, GaveUp

LEMMA IsComplete == Shape /\ OneWorker => SaveIsComplete
<1> SUFFICES ASSUME Shape, OneWorker, threads = 1, phase = "saved", ~dropped PROVE SaveIsComplete
  BY DEF SaveIsComplete
<1>1. /\ CoreNow /\ SavedNow /\ WantedIn(pending, heap, stored, want, Calls)
      /\ AveragedIn(pending, heap, stored, Calls) /\ Alone
  BY DEF OneWorker, Told, WantedNow, AveragedNow
<1>2. errors = 0 => \A l \in Lod : pending[l] = << >>
  BY <1>1 DEF SavedNow
<1>3. Calls = {}
  <2>1. stack["writer"] = << >> /\ stack["saver"] = << >>
    BY <1>1 DEF Alone, Shape, Phases
  <2> QED
    BY <2>1, NoneUnderWay DEF NoCalls
<1>4. ASSUME \A l \in Lod : pending[l] = << >>
      PROVE  /\ \A p \in Pos, px \in Pixel :
                    want[CellAt(p, px)] = IF stored[1][p] = Missing THEN 0 ELSE stored[1][p][px]
             /\ CascadeStored
  <2>1. \A l \in Lod, p \in Pos : IdsIn(pending, l, p) = {}
    <3>1. Range(<< >>) = {}
      BY DEF Range
    <3> QED
      BY <1>4, <3>1 DEF IdsIn
  <2>2. ASSUME NEW p \in Pos, NEW px \in Pixel
        PROVE  want[CellAt(p, px)] = IF stored[1][p] = Missing THEN 0 ELSE stored[1][p][px]
    <3>1. Holds(pending, heap, stored, 1, p, px, want[CellAt(p, px)])
      BY <1>1, <1>3, <2>2 DEF WantedIn, Ahead
    <3>2. 1 \in Lod
      BY Sizes DEF Lod
    <3>3. FileOf(stored, 1, p)[px] = want[CellAt(p, px)]
      BY <2>1, <3>1, <3>2 DEF Holds
    <3> QED
      BY <3>3 DEF FileOf, Blank
  <2>3. ASSUME NEW l \in Lod \ {LodCount}, NEW p \in Pos, stored[l][p] # Missing,
               NEW g \in Range(Groups),
               NEW target \in Range(Targets(ParentTile(p), ParentPixel(p, g)))
        PROVE  /\ stored[l + 1][target.pos] # Missing
               /\ stored[l + 1][target.pos][target.px] = Average(stored[l][p], g)
    <3>1. PICK i \in 1..Len(Groups) : g = Groups[i]
      BY GroupsAre, Elements
    <3>2. target \in ParentTargets(p, i)
      BY <3>1 DEF ParentTargets
    <3>3. l + 1 \in Lod /\ target.pos \in Pos
      BY <3>2, NextPlace
    <3>4. Shows(pending, heap, stored, l, p, i, target)
      BY <1>1, <1>3, <2>3, <3>2 DEF AveragedIn, Behind
    <3>5. FileOf(stored, l + 1, target.pos)[target.px] = Average(stored[l][p], g)
      BY <2>1, <3>1, <3>3, <3>4 DEF Shows, Holds
    <3>6. stored[l + 1][target.pos] # Missing
      BY <2>1, <3>3, <3>4 DEF Shows, Exists
    <3> QED
      BY <3>5, <3>6 DEF FileOf
  <2> QED
    BY <2>2, <2>3 DEF CascadeStored
<1> QED
  BY <1>2, <1>4 DEF SaveIsComplete

\* With one worker every cell shows what was written to it last, its seams included,
\* whatever is saved, fails to be saved or expires, unless a read or writes failed.
THEOREM OneWorkerLosesNothingAlways == Spec => []OneWorkerLosesNothing
BY OneWorkerInvariant, LosesNothing, PTL

\* With one worker a save without errors leaves nothing pending; and where nothing is
\* pending behind a save every layer is stored, averaged from the one before.
THEOREM SaveIsCompleteAlways == Spec => []SaveIsComplete
BY OneWorkerInvariant, IsComplete, PTL

=============================================================================
