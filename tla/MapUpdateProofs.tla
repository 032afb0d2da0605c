-------------------------- MODULE MapUpdateProofs ---------------------------
(***************************************************************************)
(* Proofs about MapUpdate, and about what a map update stores, for any       *)
(* regions, tiles, sub-tasks, crews, cells and cache sizes.                  *)
(*                                                                           *)
(* The argument for HashesBehindTiles. A tile that is not left has a         *)
(* claimant: it is drawn, or in the hand of a worker (TilesAccounted), but   *)
(* for a region whose scan found nothing to do, whose tiles are given up     *)
(* together and whose hashes nobody will record. The call that completes a   *)
(* region found no tile left and itself the last on a tile (LastToLeave), so *)
(* when it records the hashes every tile is drawn.                           *)
(*                                                                           *)
(* The argument for SavesOnce. A save was called only behind its flag, and a *)
(* flag stays set (Counted); the chain gains a worker that was not in a save *)
(* and loses the one whose save ends (ChainOfSavers).                        *)
(*                                                                           *)
(* The argument for what is stored. Whatever was in memory is stored, or in  *)
(* a cell that is still cached (CellsHold): so a save that nobody disturbs   *)
(* stores, part by part, all the memory there is (PartsSaved). A single      *)
(* worker is in a save, in a region or in neither. The first save therefore  *)
(* comes before the first tile (NotBegun), the last one behind the last tile *)
(* (LastSaved), and a save that gets to the hashes has stored the tiles      *)
(* before them.                                                              *)
(***************************************************************************)
EXTENDS MapUpdate, SequenceTheorems, FiniteSetTheorems, TLAPS

Pc == {"out", "claim", "tile", "complete", "saving"}

\* What the arguments need to know of the types.
Typed ==
    /\ left \in [Region -> Nat] /\ \A r \in Region : left[r] <= Tiles[r]
    /\ pc \in [Worker -> Pc]
    /\ at \in [Worker -> Region \cup SaveTask \cup {Nobody}]
    /\ tile \in [Worker -> Nat]
    /\ memory \in [Part -> SUBSET Item]
    /\ saveChain \in Seq(Worker)
    /\ calls \in [SaveTask -> Nat]
    /\ crew \in SUBSET Worker

\* Who is in a region's doWork() has a region at hand.
InRegion == \A w \in Worker : pc[w] \in {"claim", "tile", "complete"} => at[w] \in Region

\* Tiles are claimed from the top.
ClaimedAbove ==
    \A w \in Worker : pc[w] = "tile" => tile[w] \in left[at[w]] + 1 .. Tiles[at[w]]

\* Behind the call that completes a region nobody draws it.
LastToLeave ==
    \A w \in Worker : pc[w] = "complete" => left[at[w]] = 0 /\ OnTile(at[w]) = {}

\* Hashes are recorded of a region without tiles left.
HashesLast == \A r \in Region : Hashes(r) \in memory["chunks"] => left[r] = 0

Drawn(r, t) == <<r, t>> \in memory["lowres"] /\ <<r, t>> \in memory["tiles"]
InHand(r, t) == \E w \in Worker : pc[w] = "tile" /\ at[w] = r /\ tile[w] = t
Skipped(r) ==
    /\ left[r] = 0
    /\ Hashes(r) \notin memory["chunks"]
    /\ \A w \in Worker : at[w] = r => pc[w] \notin {"tile", "complete"}

\* Every tile that is not left is drawn or in somebody's hand.
TilesAccounted ==
    \A r \in Region :
        \/ \A t \in left[r] + 1 .. Tiles[r] : Drawn(r, t) \/ InHand(r, t)
        \/ Skipped(r)

RegionInv ==
    /\ InRegion /\ ClaimedAbove /\ LastToLeave /\ HashesLast
    /\ TilesAccounted /\ HashesBehindTiles

\* A save is called at most once, and not before its flag is set.
Counted == \A s \in SaveTask : calls[s] <= 1 /\ (s \notin saved => calls[s] = 0)

\* The chain holds those who are in a save, each once.
ChainOfSavers ==
    /\ IsInjective(saveChain)
    /\ \A w \in Worker : pc[w] = "saving" <=> w \in Range(saveChain)

\* The inductive invariant.
UpdateInv == Typed /\ RegionInv /\ Counted /\ ChainOfSavers

-----------------------------------------------------------------------------
(* Lemmas *)

\* What there is to know of a region are its tiles and its hashes.
LEMMA ItemsOfRegion ==
    ASSUME NEW r \in Region
    PROVE  Hashes(r) \in Item /\ \A t \in 1..Tiles[r] : <<r, t>> \in Item
<1>1. Hashes(r) \in TilesOf(r) \cup {Hashes(r)}
  OBVIOUS
<1>2. \A t \in 1..Tiles[r] : <<r, t>> \in TilesOf(r) \cup {Hashes(r)}
  BY DEF TilesOf
<1>3. TilesOf(r) \cup {Hashes(r)} \subseteq Item
  BY DEF Item
<1> QED
  BY <1>1, <1>2, <1>3

\* Every region has a tile.
LEMMA TilesPositive == \A r \in Region : Tiles[r] \in Nat \ {0}
BY UpdateAssumption

\* Claims take tiles away.
LEMMA TakeTiles ==
    ASSUME NEW f \in [Region -> Nat], NEW q \in Region, NEW n \in Nat, n <= f[q],
           \A r \in Region : f[r] <= Tiles[r]
    PROVE  /\ [f EXCEPT ![q] = n] \in [Region -> Nat]
           /\ \A r \in Region : [f EXCEPT ![q] = n][r] <= Tiles[r]
<1>1. \A r \in Region : [f EXCEPT ![q] = n][r] = IF r = q THEN n ELSE f[r]
  OBVIOUS
<1>2. \A r \in Region : f[r] \in Nat /\ Tiles[r] \in Nat
  BY TilesPositive
<1> QED
  BY <1>1, <1>2

\* A tile is not a hash, and what was there before is not of a region.
LEMMA HashesApart ==
    ASSUME NEW r \in Region
    PROVE  /\ Hashes(r) \notin Before
           /\ \A s \in Region : Hashes(r) = Hashes(s) <=> r = s
BY UpdateAssumption DEF Hashes, Before

\* A worker that is not in the chain may join it.
LEMMA JoinChain ==
    ASSUME NEW q \in Seq(Worker), IsInjective(q), NEW w \in Worker, w \notin Range(q)
    PROVE  /\ Append(q, w) \in Seq(Worker)
           /\ IsInjective(Append(q, w))
           /\ Range(Append(q, w)) = Range(q) \cup {w}
<1>1. /\ Append(q, w) \in Seq(Worker)
      /\ Len(Append(q, w)) = Len(q) + 1
      /\ \A i \in 1..Len(q) : Append(q, w)[i] = q[i]
      /\ Append(q, w)[Len(q) + 1] = w
  BY AppendProperties
<1>2. Len(q) \in Nat /\ DOMAIN q = 1..Len(q) /\ DOMAIN Append(q, w) = 1..Len(q) + 1
  BY <1>1
<1>3. \A i \in 1..Len(q) : q[i] # w
  BY <1>2 DEF Range
<1>4. IsInjective(Append(q, w))
  BY <1>1, <1>2, <1>3 DEF IsInjective
<1>5. Range(Append(q, w)) = Range(q) \cup {w}
  BY <1>1, <1>2 DEF Range
<1> QED
  BY <1>1, <1>4, <1>5

\* The first of the chain may leave it.
LEMMA LeaveChain ==
    ASSUME NEW q \in Seq(Worker), IsInjective(q), q # << >>
    PROVE  /\ Tail(q) \in Seq(Worker)
           /\ IsInjective(Tail(q))
           /\ Range(Tail(q)) = Range(q) \ {Head(q)}
<1>1. /\ Tail(q) \in Seq(Worker)
      /\ Len(Tail(q)) = Len(q) - 1
      /\ \A i \in 1..Len(q) - 1 : Tail(q)[i] = q[i + 1]
      /\ Head(q) = q[1]
  BY HeadTailProperties
<1>2. /\ Len(q) \in Nat \ {0}
      /\ DOMAIN q = 1..Len(q)
      /\ DOMAIN Tail(q) = 1..Len(q) - 1
  BY <1>1, EmptySeq
<1>3. IsInjective(Tail(q))
  BY <1>1, <1>2 DEF IsInjective
<1>4. Range(Tail(q)) \subseteq Range(q) \ {Head(q)}
  BY <1>1, <1>2 DEF Range, IsInjective
<1>5. ASSUME NEW v \in Range(q) \ {Head(q)}
      PROVE  v \in Range(Tail(q))
  <2>1. PICK i \in 1..Len(q) : q[i] = v
    BY <1>2 DEF Range
  <2>2. i - 1 \in 1..Len(q) - 1 /\ Tail(q)[i - 1] = v
    BY <1>1, <1>2, <1>5, <2>1
  <2> QED
    BY <1>2, <2>2 DEF Range
<1> QED
  BY <1>1, <1>3, <1>4, <1>5

-----------------------------------------------------------------------------
(* The invariant *)

LEMMA InitUpdateInv == Init => UpdateInv
<1> SUFFICES ASSUME Init PROVE UpdateInv
  OBVIOUS
<1> USE DEF Init
<1>1. Typed
  <2>1. memory \in [Part -> SUBSET Item]
    BY DEF Item
  <2> QED
    BY <2>1, UpdateAssumption DEF Typed, Pc
<1>2. InRegion /\ ClaimedAbove /\ LastToLeave
  BY DEF InRegion, ClaimedAbove, LastToLeave
<1>3. HashesLast /\ HashesBehindTiles
  BY HashesApart DEF HashesLast, HashesBehindTiles, Part
<1>4. TilesAccounted
  BY UpdateAssumption DEF TilesAccounted
<1>5. Counted
  BY DEF Counted
<1>6. ChainOfSavers
  BY DEF ChainOfSavers, IsInjective, Range
<1> QED
  BY <1>1, <1>2, <1>3, <1>4, <1>5, <1>6 DEF UpdateInv, RegionInv

\* The sub-task at the cursor is one of them.
LEMMA CurrentSubtask ==
    ASSUME HasMoreWork, index \in Nat \ {0}
    PROVE  Current \in Region \cup SaveTask
BY UpdateAssumption DEF HasMoreWork, Current

\* The actions one by one.
LEMMA NextActions ==
    ASSUME [Next]_vars, crew \in SUBSET Worker
    PROVE  \/ UNCHANGED vars
           \/ Cancel
           \/ \E w \in Worker :
                \/ Advance(w) \/ EnterSave(w) \/ EnterRegion(w)
                \/ SavePart(w) \/ Claim(w) \/ Refuse(w) \/ ScanEndsRegion(w)
                \/ FinishTile(w) \/ Complete(w)
BY DEF Next, DoWork, Step

LEMMA TypedStep == UpdateInv /\ [Next]_vars => Typed'
<1> SUFFICES ASSUME UpdateInv, [Next]_vars PROVE Typed'
  OBVIOUS
<1>0. Typed /\ InRegion /\ ClaimedAbove /\ ChainOfSavers
  BY DEF UpdateInv, RegionInv
<1> USE <1>0 DEF Typed, Pc
<1>1. CASE UNCHANGED vars
  BY <1>1 DEF vars, taskVars, callVars, mapVars
<1>2. CASE Cancel
  BY <1>2 DEF Cancel, callVars, mapVars
<1>3. ASSUME NEW w \in Worker, Advance(w)
      PROVE  Typed'
  BY <1>3 DEF Advance, callVars, mapVars
<1>4. ASSUME NEW w \in Worker, EnterSave(w)
      PROVE  Typed'
  BY <1>4, AppendProperties DEF EnterSave
<1>5. ASSUME NEW w \in Worker, EnterRegion(w)
      PROVE  Typed'
  BY <1>5 DEF EnterRegion, taskVars, mapVars
<1>6. ASSUME NEW w \in Worker, SavePart(w)
      PROVE  Typed'
  BY <1>6, LeaveChain DEF SavePart, taskVars, ChainOfSavers
<1>7. ASSUME NEW w \in Worker, Claim(w)
      PROVE  Typed'
  <2>1. at[w] \in Region
    BY <1>7 DEF Claim, InRegion
  <2>2. left' \in [Region -> Nat] /\ \A r \in Region : left'[r] <= Tiles[r]
    <3>1. left' = [left EXCEPT ![at[w]] = left[at[w]] - 1] /\ left[at[w]] \in Nat \ {0}
      BY <1>7, <2>1 DEF Claim, TileToClaim
    <3>2. left[at[w]] - 1 \in Nat /\ left[at[w]] - 1 <= left[at[w]]
      BY <3>1
    <3> QED
      BY ONLY <1>0, <2>1, <3>1, <3>2, TakeTiles DEF Typed
  <2> QED
    BY <1>7, <2>2 DEF Claim
<1>8. ASSUME NEW w \in Worker, Refuse(w)
      PROVE  Typed'
  BY <1>8 DEF Refuse, taskVars, mapVars
<1>9. ASSUME NEW w \in Worker, ScanEndsRegion(w)
      PROVE  Typed'
  <2>1. at[w] \in Region
    BY <1>9 DEF ScanEndsRegion, InRegion
  <2>2. left' = [left EXCEPT ![at[w]] = 0] \/ left' = left
    BY <1>9 DEF ScanEndsRegion
  <2>3. left' \in [Region -> Nat] /\ \A r \in Region : left'[r] <= Tiles[r]
    <3>1. 0 \in Nat /\ 0 <= left[at[w]]
      BY <2>1
    <3>2. CASE left' = [left EXCEPT ![at[w]] = 0]
      BY ONLY <1>0, <2>1, <3>1, <3>2, TakeTiles DEF Typed
    <3>3. CASE left' = left
      BY <3>3
    <3> QED
      BY <2>2, <3>2, <3>3
  <2> QED
    BY <1>9, <2>3 DEF ScanEndsRegion
<1>10. ASSUME NEW w \in Worker, FinishTile(w)
       PROVE  Typed'
  <2>1. at[w] \in Region /\ tile[w] \in 1..Tiles[at[w]]
    BY <1>10, UpdateAssumption DEF FinishTile, InRegion, ClaimedAbove
  <2>2. <<at[w], tile[w]>> \in Item
    BY <2>1, ItemsOfRegion
  <2>3. memory' \in [Part -> SUBSET Item]
    BY <1>10, <2>2 DEF FinishTile
  <2> QED
    BY <1>10, <2>3 DEF FinishTile, taskVars
<1>11. ASSUME NEW w \in Worker, Complete(w)
       PROVE  Typed'
  <2>1. Hashes(at[w]) \in Item
    BY <1>11, ItemsOfRegion DEF Complete, InRegion
  <2>2. memory' \in [Part -> SUBSET Item]
    BY <1>11, <2>1 DEF Complete
  <2>3. Append(saveChain, w) \in Seq(Worker)
    BY AppendProperties
  <2>4. saveChain' \in Seq(Worker)
    BY <1>11, <2>3 DEF Complete
  <2> QED
    BY <1>11, <2>2, <2>4 DEF Complete, taskVars
<1> QED
  BY NextActions, <1>1, <1>2, <1>3, <1>4, <1>5, <1>6, <1>7, <1>8, <1>9, <1>10, <1>11

\* Joining the chain and entering a save go together, as do leaving both.
LEMMA SavesStep == UpdateInv /\ [Next]_vars => Counted' /\ ChainOfSavers'
<1> SUFFICES ASSUME UpdateInv, [Next]_vars PROVE Counted' /\ ChainOfSavers'
  OBVIOUS
<1>0. Typed /\ Counted /\ ChainOfSavers
  BY DEF UpdateInv
<1> USE <1>0
<1>1. CASE UNCHANGED vars
  BY <1>1 DEF vars, taskVars, callVars, mapVars, Counted, ChainOfSavers
<1>2. CASE Cancel
  BY <1>2 DEF Cancel, callVars, mapVars, Counted, ChainOfSavers
<1>3. ASSUME NEW w \in Worker, Advance(w)
      PROVE  Counted' /\ ChainOfSavers'
  BY <1>3 DEF Advance, callVars, mapVars, Counted, ChainOfSavers
<1>4. ASSUME NEW w \in Worker, EnterSave(w)
      PROVE  Counted' /\ ChainOfSavers'
  <2>1. Current \in SaveTask /\ Current \notin saved
    BY <1>4, UpdateAssumption DEF EnterSave, SubtaskHasMoreWork
  <2>2. Counted'
    BY <1>4, <2>1 DEF EnterSave, Counted, Flagged, Typed
  <2>3. w \notin Range(saveChain)
    BY <1>4 DEF EnterSave, ChainOfSavers
  <2>4. IsInjective(saveChain') /\ Range(saveChain') = Range(saveChain) \cup {w}
    BY <1>4, <2>3, JoinChain DEF EnterSave, ChainOfSavers, Typed
  <2>5. ChainOfSavers'
    BY <1>4, <2>4 DEF EnterSave, ChainOfSavers, Typed
  <2> QED
    BY <2>2, <2>5
<1>5. ASSUME NEW w \in Worker, EnterRegion(w)
      PROVE  Counted' /\ ChainOfSavers'
  BY <1>5 DEF EnterRegion, taskVars, mapVars, Counted, ChainOfSavers, Typed
<1>6. ASSUME NEW w \in Worker, SavePart(w)
      PROVE  Counted' /\ ChainOfSavers'
  <2>1. Counted'
    BY <1>6 DEF SavePart, taskVars, Counted
  <2>2. /\ IsInjective(Tail(saveChain))
        /\ Range(Tail(saveChain)) = Range(saveChain) \ {w}
    BY <1>6, LeaveChain DEF SavePart, ChainOfSavers, Typed
  <2>3. ChainOfSavers'
    BY <1>6, <2>2 DEF SavePart, ChainOfSavers, Typed
  <2> QED
    BY <2>1, <2>3
<1>7. ASSUME NEW w \in Worker, Claim(w)
      PROVE  Counted' /\ ChainOfSavers'
  BY <1>7 DEF Claim, Counted, ChainOfSavers, Typed
<1>8. ASSUME NEW w \in Worker, Refuse(w)
      PROVE  Counted' /\ ChainOfSavers'
  BY <1>8 DEF Refuse, taskVars, mapVars, Counted, ChainOfSavers, Typed
<1>9. ASSUME NEW w \in Worker, ScanEndsRegion(w)
      PROVE  Counted' /\ ChainOfSavers'
  BY <1>9 DEF ScanEndsRegion, Counted, ChainOfSavers, Typed
<1>10. ASSUME NEW w \in Worker, FinishTile(w)
       PROVE  Counted' /\ ChainOfSavers'
  BY <1>10 DEF FinishTile, taskVars, Counted, ChainOfSavers, Typed
<1>11. ASSUME NEW w \in Worker, Complete(w)
       PROVE  Counted' /\ ChainOfSavers'
  <2>1. Counted'
    BY <1>11 DEF Complete, taskVars, Counted
  <2>2. w \notin Range(saveChain)
    BY <1>11 DEF Complete, ChainOfSavers
  <2>3. /\ IsInjective(Append(saveChain, w))
        /\ Range(Append(saveChain, w)) = Range(saveChain) \cup {w}
    BY <2>2, JoinChain DEF ChainOfSavers, Typed
  <2>4. ChainOfSavers'
    BY <1>11, <2>3 DEF Complete, ChainOfSavers, Typed
  <2> QED
    BY <2>1, <2>4
<1> QED
  BY NextActions, <1>1, <1>2, <1>3, <1>4, <1>5, <1>6, <1>7, <1>8, <1>9, <1>10, <1>11
     DEF Typed

\* A step that draws, claims and completes nothing leaves what is known of the regions.
LEMMA RegionsLeftAlone ==
    ASSUME UpdateInv, Typed', UNCHANGED <<left, memory, tile>>,
           \A w \in Worker :
                \/ pc'[w] = pc[w] /\ at'[w] = at[w]
                \/ /\ pc[w] \notin {"tile", "complete"}
                   /\ pc'[w] \notin {"tile", "complete"}
                   /\ pc'[w] = "claim" => at'[w] \in Region
    PROVE  RegionInv'
<1>0. Typed /\ RegionInv
  BY DEF UpdateInv
<1>1. InRegion' /\ ClaimedAbove'
  BY <1>0 DEF RegionInv, InRegion, ClaimedAbove
<1>2. \A r : OnTile(r)' = OnTile(r)
  BY DEF OnTile
<1>3. LastToLeave'
  BY <1>0, <1>2 DEF RegionInv, LastToLeave
<1>4. HashesLast' /\ HashesBehindTiles'
  BY <1>0 DEF RegionInv, HashesLast, HashesBehindTiles
<1>5. ASSUME NEW r \in Region
      PROVE  /\ \A t : Drawn(r, t) => Drawn(r, t)'
             /\ \A t : InHand(r, t) => InHand(r, t)'
             /\ Skipped(r) => Skipped(r)'
  <2>1. \A t : Drawn(r, t) => Drawn(r, t)'
    BY DEF Drawn
  <2>2. \A t : InHand(r, t) => InHand(r, t)'
    BY DEF InHand
  <2>3. Skipped(r) => Skipped(r)'
    BY DEF Skipped
  <2> QED
    BY <2>1, <2>2, <2>3
<1>6. TilesAccounted'
  BY <1>0, <1>5 DEF RegionInv, TilesAccounted
<1> QED
  BY <1>1, <1>3, <1>4, <1>6 DEF RegionInv

\* The tile that is claimed goes from those left to a hand.
LEMMA ClaimRegions ==
    ASSUME UpdateInv, Typed', NEW w \in Worker, Claim(w)
    PROVE  RegionInv'
<1>0. Typed /\ RegionInv
  BY DEF UpdateInv
<1> DEFINE q == at[w]
<1>1. /\ q \in Region /\ left[q] \in Nat \ {0} /\ left[q] <= Tiles[q]
      /\ left' = [left EXCEPT ![q] = left[q] - 1]
      /\ tile' = [tile EXCEPT ![w] = left[q]]
      /\ pc' = [pc EXCEPT ![w] = "tile"] /\ pc[w] = "claim"
      /\ at' = at /\ memory' = memory
  BY <1>0 DEF Claim, TileToClaim, Typed, RegionInv, InRegion
<1>2. /\ left'[q] = left[q] - 1 /\ \A r \in Region \ {q} : left'[r] = left[r]
      /\ pc'[w] = "tile" /\ tile'[w] = left[q]
      /\ \A v \in Worker \ {w} : pc'[v] = pc[v] /\ tile'[v] = tile[v]
  BY <1>0, <1>1 DEF Typed
<1> HIDE DEF q
<1>3. InRegion'
  BY <1>0, <1>1, <1>2 DEF RegionInv, InRegion, q
<1>4. ClaimedAbove'
  <2> SUFFICES ASSUME NEW v \in Worker, pc'[v] = "tile"
               PROVE  tile'[v] \in left'[at[v]] + 1 .. Tiles[at[v]]
    BY <1>1 DEF ClaimedAbove
  <2>1. CASE v = w
    BY <1>1, <1>2, <2>1, UpdateAssumption DEF q
  <2>2. CASE v # w
    <3>1. at[v] \in Region /\ tile[v] \in left[at[v]] + 1 .. Tiles[at[v]]
      BY <1>0, <1>2, <2>2 DEF RegionInv, InRegion, ClaimedAbove
    <3>2. left'[at[v]] <= left[at[v]] /\ left'[at[v]] \in Nat /\ left[at[v]] \in Nat
      BY <1>0, <1>1, <1>2, <3>1 DEF Typed
    <3> QED
      BY <1>2, <2>2, <3>1, <3>2, UpdateAssumption
  <2> QED
    BY <2>1, <2>2
<1>5. LastToLeave'
  <2> SUFFICES ASSUME NEW v \in Worker, pc'[v] = "complete"
               PROVE  left'[at[v]] = 0 /\ \A u \in Worker : ~(pc'[u] = "tile" /\ at[u] = at[v])
    BY <1>1 DEF LastToLeave, OnTile
  <2>1. /\ pc[v] = "complete" /\ at[v] \in Region /\ left[at[v]] = 0
        /\ \A u \in Worker : ~(pc[u] = "tile" /\ at[u] = at[v])
    BY <1>0, <1>2 DEF RegionInv, LastToLeave, OnTile, InRegion
  <2>2. at[v] # q
    BY <1>1, <2>1
  <2> QED
    BY <1>2, <2>1, <2>2 DEF q
<1>6. HashesLast'
  BY <1>0, <1>1, <1>2 DEF RegionInv, HashesLast
<1>7. HashesBehindTiles'
  BY <1>0, <1>1 DEF RegionInv, HashesBehindTiles
<1>8. TilesAccounted'
  <2> SUFFICES ASSUME NEW r \in Region
               PROVE  \/ \A t \in left'[r] + 1 .. Tiles[r] : Drawn(r, t)' \/ InHand(r, t)'
                      \/ Skipped(r)'
    BY DEF TilesAccounted
  <2>1. \A t : Drawn(r, t) => Drawn(r, t)'
    BY <1>1 DEF Drawn
  <2>2. \A t : InHand(r, t) => InHand(r, t)'
    BY <1>1, <1>2 DEF InHand
  <2>3. CASE Skipped(r)
    <3>1. r # q
      BY <1>1, <2>3 DEF Skipped
    <3> QED
      BY <1>1, <1>2, <2>3, <3>1 DEF Skipped, q
  <2>4. CASE ~Skipped(r)
    <3>1. \A t \in left[r] + 1 .. Tiles[r] : Drawn(r, t) \/ InHand(r, t)
      BY <1>0, <2>4 DEF RegionInv, TilesAccounted
    <3>2. r = q => \E v \in Worker : pc'[v] = "tile" /\ at'[v] = r /\ tile'[v] = left[q]
      BY <1>1, <1>2 DEF q
    <3>3. ASSUME NEW t \in left'[r] + 1 .. Tiles[r]
          PROVE  Drawn(r, t)' \/ InHand(r, t)'
      <4>1. CASE t \in left[r] + 1 .. Tiles[r]
        BY <2>1, <2>2, <3>1, <4>1
      <4>2. CASE t \notin left[r] + 1 .. Tiles[r]
        <5>1. r = q /\ t = left[q]
          BY <1>0, <1>1, <1>2, <4>2, TilesPositive DEF Typed
        <5> QED
          BY <3>2, <5>1 DEF InHand
      <4> QED
        BY <4>1, <4>2
    <3> QED
      BY <3>3
  <2> QED
    BY <2>3, <2>4
<1> QED
  BY <1>3, <1>4, <1>5, <1>6, <1>7, <1>8 DEF RegionInv

\* A scan that finds nothing to do gives up all tiles of a region nobody has begun.
LEMMA SkipRegions ==
    ASSUME UpdateInv, Typed', NEW w \in Worker, ScanEndsRegion(w)
    PROVE  RegionInv'
<1>0. Typed /\ RegionInv
  BY DEF UpdateInv
<1> DEFINE q == at[w]
<1>1. /\ q \in Region /\ left[q] = Tiles[q] /\ Tiles[q] \in Nat \ {0}
      /\ left' = [left EXCEPT ![q] = 0] \/ left' = left
      /\ tile' = tile /\ memory' = memory
      /\ pc' = [pc EXCEPT ![w] = "out"] /\ pc[w] = "claim"
      /\ at' = [at EXCEPT ![w] = Nobody]
  BY <1>0, TilesPositive DEF ScanEndsRegion, RegionInv, InRegion
<1>2. /\ pc'[w] = "out"
      /\ \A v \in Worker \ {w} : pc'[v] = pc[v] /\ at'[v] = at[v]
  BY <1>0, <1>1 DEF Typed
<1>3. CASE left' = left
  <2>1. \A v \in Worker :
            \/ pc'[v] = pc[v] /\ at'[v] = at[v]
            \/ /\ pc[v] \notin {"tile", "complete"}
               /\ pc'[v] \notin {"tile", "complete"}
               /\ pc'[v] = "claim" => at'[v] \in Region
    BY <1>1, <1>2
  <2>2. UNCHANGED <<left, memory, tile>>
    BY <1>1, <1>3
  <2> QED
    BY <2>1, <2>2, RegionsLeftAlone
<1>4. CASE left' = [left EXCEPT ![q] = 0]
  <2>1. left'[q] = 0 /\ \A r \in Region \ {q} : left'[r] = left[r]
    BY <1>0, <1>1, <1>4 DEF Typed
  <2> HIDE DEF q
  <2>2. \A v \in Worker : pc[v] \in {"tile", "complete"} => at[v] \in Region \ {q}
    <3> SUFFICES ASSUME NEW v \in Worker, pc[v] \in {"tile", "complete"}, at[v] = q
                 PROVE  FALSE
      BY <1>0 DEF RegionInv, InRegion
    <3>1. CASE pc[v] = "tile"
      BY <1>0, <1>1, <3>1 DEF RegionInv, ClaimedAbove, Typed
    <3>2. CASE pc[v] = "complete"
      BY <1>0, <1>1, <3>2 DEF RegionInv, LastToLeave
    <3> QED
      BY <3>1, <3>2
  <2>3. InRegion'
    BY <1>0, <1>2 DEF RegionInv, InRegion
  <2>4. ClaimedAbove'
    BY <1>0, <1>1, <1>2, <2>1, <2>2 DEF RegionInv, ClaimedAbove
  <2>5. LastToLeave'
    <3> SUFFICES ASSUME NEW v \in Worker, pc'[v] = "complete"
                 PROVE  /\ left'[at'[v]] = 0
                        /\ \A u \in Worker : ~(pc'[u] = "tile" /\ at'[u] = at'[v])
      BY DEF LastToLeave, OnTile
    <3>1. /\ pc[v] = "complete" /\ at'[v] = at[v] /\ at[v] \in Region \ {q}
          /\ left[at[v]] = 0
          /\ \A u \in Worker : ~(pc[u] = "tile" /\ at[u] = at[v])
      BY <1>0, <1>2, <2>2 DEF RegionInv, LastToLeave, OnTile
    <3> QED
      BY <1>2, <2>1, <3>1
  <2>6. HashesLast' /\ HashesBehindTiles'
    BY <1>0, <1>1, <2>1 DEF RegionInv, HashesLast, HashesBehindTiles
  <2>7. TilesAccounted'
    <3> SUFFICES ASSUME NEW r \in Region
                 PROVE  \/ \A t \in left'[r] + 1 .. Tiles[r] : Drawn(r, t)' \/ InHand(r, t)'
                        \/ Skipped(r)'
      BY DEF TilesAccounted
    <3>1. CASE r = q
      <4>1. Hashes(q) \notin memory["chunks"]
        BY <1>0, <1>1 DEF RegionInv, HashesLast
      <4>2. \A v \in Worker : at'[v] = q => pc'[v] \notin {"tile", "complete"}
        BY <1>2, <2>2
      <4> QED
        BY <1>1, <2>1, <3>1, <4>1, <4>2 DEF Skipped
    <3>2. CASE r # q
      <4>1. \A t : Drawn(r, t) => Drawn(r, t)'
        BY <1>1 DEF Drawn
      <4>2. \A t : InHand(r, t) => InHand(r, t)'
        BY <1>1, <1>2 DEF InHand
      <4>3. Skipped(r) => Skipped(r)'
        BY <1>1, <1>2, <2>1, <3>2 DEF Skipped
      <4> QED
        BY <1>0, <2>1, <3>2, <4>1, <4>2, <4>3 DEF RegionInv, TilesAccounted
    <3> QED
      BY <3>1, <3>2
  <2> QED
    BY <2>3, <2>4, <2>5, <2>6, <2>7 DEF RegionInv
<1> QED
  BY <1>1, <1>3, <1>4

\* The tile goes from the hand to the map; who leaves last goes on to complete.
LEMMA FinishRegions ==
    ASSUME UpdateInv, Typed', NEW w \in Worker, FinishTile(w)
    PROVE  RegionInv'
<1>0. Typed /\ RegionInv
  BY DEF UpdateInv
<1> DEFINE q == at[w]
           x == <<q, tile[w]>>
<1>1. /\ q \in Region /\ pc[w] = "tile"
      /\ left' = left /\ tile' = tile
      /\ memory' = [memory EXCEPT !["lowres"] = @ \cup {x}, !["tiles"] = @ \cup {x}]
      /\ \/ LastOut(w) /\ pc' = [pc EXCEPT ![w] = "complete"] /\ at' = at
         \/ pc' = [pc EXCEPT ![w] = "out"] /\ at' = [at EXCEPT ![w] = Nobody]
  BY <1>0 DEF FinishTile, taskVars, RegionInv, InRegion
<1>2. /\ memory'["lowres"] = memory["lowres"] \cup {x}
      /\ memory'["tiles"] = memory["tiles"] \cup {x}
      /\ memory'["chunks"] = memory["chunks"]
  BY <1>0, <1>1 DEF Typed, Part
<1>3. /\ pc'[w] \in {"complete", "out"}
      /\ pc'[w] = "complete" => LastOut(w) /\ at'[w] = q
      /\ \A v \in Worker \ {w} : pc'[v] = pc[v] /\ at'[v] = at[v]
  BY <1>0, <1>1 DEF Typed
<1> HIDE DEF q, x
<1>4. InRegion'
  BY <1>0, <1>1, <1>3 DEF RegionInv, InRegion
<1>5. ClaimedAbove'
  BY <1>0, <1>1, <1>3 DEF RegionInv, ClaimedAbove
<1>6. LastToLeave'
  <2> SUFFICES ASSUME NEW v \in Worker, pc'[v] = "complete"
               PROVE  /\ left[at'[v]] = 0
                      /\ \A u \in Worker : ~(pc'[u] = "tile" /\ at'[u] = at'[v])
    BY <1>1 DEF LastToLeave, OnTile
  <2>1. CASE v = w
    <3>1. left[q] = 0 /\ OnTile(q) = {w} /\ at'[v] = q
      BY <1>3, <2>1 DEF LastOut, q
    <3> QED
      BY <1>3, <3>1 DEF OnTile
  <2>2. CASE v # w
    BY <1>0, <1>3, <2>2 DEF RegionInv, LastToLeave, OnTile
  <2> QED
    BY <2>1, <2>2
<1>7. HashesLast' /\ HashesBehindTiles'
  BY <1>0, <1>1, <1>2 DEF RegionInv, HashesLast, HashesBehindTiles
<1>8. TilesAccounted'
  <2> SUFFICES ASSUME NEW r \in Region
               PROVE  \/ \A t \in left[r] + 1 .. Tiles[r] : Drawn(r, t)' \/ InHand(r, t)'
                      \/ Skipped(r)'
    BY <1>1 DEF TilesAccounted
  <2>1. \A t : Drawn(r, t) => Drawn(r, t)'
    BY <1>2 DEF Drawn
  <2>2. \A t : InHand(r, t) => InHand(r, t)' \/ Drawn(r, t)'
    <3> SUFFICES ASSUME NEW t, InHand(r, t) PROVE InHand(r, t)' \/ Drawn(r, t)'
      OBVIOUS
    <3>1. PICK v \in Worker : pc[v] = "tile" /\ at[v] = r /\ tile[v] = t
      BY DEF InHand
    <3>2. CASE v = w
      BY <1>2, <3>1, <3>2 DEF Drawn, q, x
    <3>3. CASE v # w
      BY <1>1, <1>3, <3>1, <3>3 DEF InHand
    <3> QED
      BY <3>2, <3>3
  <2>3. Skipped(r) => Skipped(r)'
    <3> SUFFICES ASSUME Skipped(r) PROVE Skipped(r)'
      OBVIOUS
    <3>1. r # q
      BY <1>1 DEF Skipped, q
    <3>2. \A v \in Worker : at'[v] = r => pc'[v] \notin {"tile", "complete"}
      BY <1>3, <3>1 DEF Skipped
    <3> QED
      BY <1>1, <1>2, <3>2 DEF Skipped
  <2> QED
    BY <1>0, <2>1, <2>2, <2>3 DEF RegionInv, TilesAccounted
<1> QED
  BY <1>4, <1>5, <1>6, <1>7, <1>8 DEF RegionInv

\* Behind the last who drew a region, all of it is drawn when its hashes are recorded.
LEMMA CompleteRegions ==
    ASSUME UpdateInv, Typed', NEW w \in Worker, Complete(w)
    PROVE  RegionInv'
<1>0. Typed /\ RegionInv
  BY DEF UpdateInv
<1> DEFINE q == at[w]
<1>1. /\ q \in Region /\ pc[w] = "complete"
      /\ left' = left /\ tile' = tile
      /\ memory' = [memory EXCEPT !["chunks"] = @ \cup {Hashes(q)}]
      /\ \/ pc' = [pc EXCEPT ![w] = "saving"] /\ at' = at
         \/ pc' = [pc EXCEPT ![w] = "out"] /\ at' = [at EXCEPT ![w] = Nobody]
  BY <1>0 DEF Complete, taskVars, RegionInv, InRegion
<1>2. /\ memory'["lowres"] = memory["lowres"]
      /\ memory'["tiles"] = memory["tiles"]
      /\ memory'["chunks"] = memory["chunks"] \cup {Hashes(q)}
  BY <1>0, <1>1 DEF Typed, Part
<1>3. /\ pc'[w] \in {"saving", "out"}
      /\ \A v \in Worker \ {w} : pc'[v] = pc[v] /\ at'[v] = at[v]
  BY <1>0, <1>1 DEF Typed
<1>4. left[q] = 0 /\ \A v \in Worker : ~(pc[v] = "tile" /\ at[v] = q)
  BY <1>0, <1>1 DEF RegionInv, LastToLeave, OnTile
<1>5. \A t \in 1..Tiles[q] : Drawn(q, t)
  BY <1>0, <1>1, <1>4 DEF RegionInv, TilesAccounted, Skipped, InHand
<1> HIDE DEF q
<1>6. InRegion' /\ ClaimedAbove'
  BY <1>0, <1>1, <1>3 DEF RegionInv, InRegion, ClaimedAbove
<1>7. LastToLeave'
  BY <1>0, <1>1, <1>3 DEF RegionInv, LastToLeave, OnTile
<1>8. HashesLast'
  BY <1>0, <1>1, <1>2, <1>4, HashesApart DEF RegionInv, HashesLast
<1>9. HashesBehindTiles'
  <2> SUFFICES ASSUME NEW r \in Region, Hashes(r) \in memory'["chunks"]
               PROVE  TilesOf(r) \subseteq memory["lowres"] \cap memory["tiles"]
    BY <1>2 DEF HashesBehindTiles
  <2>1. CASE r = q
    BY <1>5, <2>1 DEF TilesOf, Drawn
  <2>2. CASE r # q
    BY <1>0, <1>1, <1>2, <2>2, HashesApart DEF RegionInv, HashesBehindTiles
  <2> QED
    BY <2>1, <2>2
<1>10. TilesAccounted'
  <2> SUFFICES ASSUME NEW r \in Region
               PROVE  \/ \A t \in left[r] + 1 .. Tiles[r] : Drawn(r, t)' \/ InHand(r, t)'
                      \/ Skipped(r)'
    BY <1>1 DEF TilesAccounted
  <2>1. \A t : Drawn(r, t) => Drawn(r, t)'
    BY <1>2 DEF Drawn
  <2>2. \A t : InHand(r, t) => InHand(r, t)'
    BY <1>1, <1>3 DEF InHand
  <2>3. Skipped(r) => Skipped(r)'
    <3> SUFFICES ASSUME Skipped(r) PROVE Skipped(r)'
      OBVIOUS
    <3>1. r # q
      BY <1>1 DEF Skipped, q
    <3>2. \A v \in Worker : at'[v] = r => pc'[v] \notin {"tile", "complete"}
      BY <1>3 DEF Skipped
    <3> QED
      BY <1>1, <1>2, <3>1, <3>2, HashesApart DEF Skipped
  <2> QED
    BY <1>0, <2>1, <2>2, <2>3 DEF RegionInv, TilesAccounted
<1> QED
  BY <1>6, <1>7, <1>8, <1>9, <1>10 DEF RegionInv

LEMMA RegionStep == UpdateInv /\ [Next]_vars => RegionInv'
<1> SUFFICES ASSUME UpdateInv, [Next]_vars PROVE RegionInv'
  OBVIOUS
<1>1. Typed' /\ Typed
  BY TypedStep DEF UpdateInv
<1>2. CASE UNCHANGED vars
  BY <1>1, <1>2, RegionsLeftAlone DEF vars, taskVars, callVars, mapVars
<1>3. CASE Cancel
  BY <1>1, <1>3, RegionsLeftAlone DEF Cancel, callVars, mapVars
<1>4. ASSUME NEW w \in Worker,
             Advance(w) \/ EnterSave(w) \/ EnterRegion(w) \/ SavePart(w) \/ Refuse(w)
      PROVE  RegionInv'
  <2>1. UNCHANGED <<left, memory, tile>>
    BY <1>4 DEF Advance, EnterSave, EnterRegion, SavePart, Refuse, taskVars, callVars, mapVars
  <2>2. /\ \A v \in Worker \ {w} : pc'[v] = pc[v] /\ at'[v] = at[v]
        /\ \/ pc'[w] = pc[w] /\ at'[w] = at[w]
           \/ /\ pc[w] \notin {"tile", "complete"}
              /\ pc'[w] \notin {"tile", "complete"}
              /\ pc'[w] = "claim" => at'[w] \in Region
    <3>1. CASE Advance(w)
      BY <3>1 DEF Advance, callVars
    <3>2. CASE EnterSave(w)
      BY <1>1, <3>2 DEF EnterSave, Typed
    <3>3. CASE EnterRegion(w)
      BY <1>1, <3>3 DEF EnterRegion, Typed
    <3>4. CASE SavePart(w)
      <4>1. pc[w] = "saving"
        <5>1. saveChain \in Seq(Worker) /\ saveChain # << >> /\ w = saveChain[1]
          BY <1>1, <3>4 DEF SavePart, Typed
        <5>2. w \in Range(saveChain)
          BY <5>1 DEF Range
        <5> QED
          BY <5>2 DEF UpdateInv, ChainOfSavers
      <4>2. \/ pc' = [pc EXCEPT ![w] = "out"] /\ at' = [at EXCEPT ![w] = Nobody]
            \/ pc' = pc /\ at' = at
        BY <3>4 DEF SavePart
      <4> QED
        BY <1>1, <4>1, <4>2 DEF Typed
    <3>5. CASE Refuse(w)
      BY <1>1, <3>5 DEF Refuse, Typed
    <3> QED
      BY <1>4, <3>1, <3>2, <3>3, <3>4, <3>5
  <2> QED
    BY <1>1, <2>1, <2>2, RegionsLeftAlone
<1> QED
  BY <1>1, <1>2, <1>3, <1>4, NextActions, ClaimRegions, SkipRegions, FinishRegions,
     CompleteRegions DEF Typed

\* The invariant of a whole-map update holds at every state.
THEOREM UpdateInvariant == Spec => []UpdateInv
<1>1. UpdateInv /\ [Next]_vars => UpdateInv'
  BY TypedStep, SavesStep, RegionStep DEF UpdateInv
<1> QED
  BY InitUpdateInv, <1>1, PTL DEF Spec

\* However many workers enter a MapSaveTask, it saves once, and the chain of
\* BmMap.save holds every save that is wanted exactly once.
THEOREM SavesOnceAlways == Spec => []SavesOnce
<1>1. UpdateInv => SavesOnce
  BY DEF UpdateInv, Counted, ChainOfSavers, SavesOnce
<1> QED
  BY UpdateInvariant, <1>1, PTL

\* The hashes of a region are recorded behind the last of its tiles, whatever the
\* interleaving of claims, renders, cancellations and saves.
THEOREM HashesBehindTilesAlways == Spec => []HashesBehindTiles
<1>1. UpdateInv => HashesBehindTiles
  BY DEF UpdateInv, RegionInv
<1> QED
  BY UpdateInvariant, <1>1, PTL

-----------------------------------------------------------------------------
(* Types *)

CellsOf(p) == {CellOf[p][r] : r \in Region \cup {"before"}}

\* The cells of a part in memory: at least one, and no more than the cache takes.
CellsBounded ==
    /\ DOMAIN cells = DOMAIN CellOf
    /\ \A p \in DOMAIN CellOf : cells[p] \in Seq(CellsOf(p)) /\ Len(cells[p]) \in 1..CacheSize

StoredOK == stored \in [Part -> SUBSET Item]

CursorOK ==
    /\ crew \in Crews
    /\ index \in 1..Len(Subtasks) + 1
    /\ saved \subseteq SaveTask
    /\ cancelled \subseteq Region
    /\ part \in 1..Len(SaveOrder)

\* UpdateInv with the rest of the types.
TypedInv == UpdateInv /\ CursorOK /\ CellsBounded /\ StoredOK

\* A cell that is looked at becomes the youngest of the cache, and the eldest of a full
\* cache leaves it (CellStorage.cell).
LEMMA OpenedFits ==
    ASSUME NEW S, NEW q \in Seq(S), Len(q) \in 1..CacheSize, NEW c \in S
    PROVE  /\ Kept(Append(Without(q, c), c)) \in Seq(S)
           /\ Len(Kept(Append(Without(q, c), c))) \in 1..CacheSize
<1> DEFINE o == Without(q, c)
<1>1. CacheSize \in Nat \ {0} /\ Len(q) \in Nat /\ DOMAIN q = 1..Len(q)
  BY UpdateAssumption
<1>2. o \in Seq(S) /\ Len(o) \in Nat /\ Len(o) <= CacheSize
  <2>1. CASE o = q
    BY <1>1, <2>1
  <2>2. CASE o # q
    <3>1. PICK i \in DOMAIN q : o = RemoveAt(q, i)
      BY <2>2 DEF Without
    <3> DEFINE front == SubSeq(q, 1, i - 1)
               back == SubSeq(q, i + 1, Len(q))
    <3>2. i \in 1..Len(q)
      BY <1>1
    <3>3. /\ 1 \in Int /\ i - 1 \in Int /\ i + 1 \in Int /\ Len(q) \in Int
          /\ \A j \in 1..i - 1 : q[j] \in S
          /\ \A j \in i + 1..Len(q) : q[j] \in S
      BY <1>1, <3>2
    <3>4. front \in Seq(S) /\ Len(front) = IF 1 <= i - 1 THEN i - 1 - 1 + 1 ELSE 0
      BY <3>3, SubSeqProperties
    <3>5. back \in Seq(S) /\ Len(back) = IF i + 1 <= Len(q) THEN Len(q) - (i + 1) + 1 ELSE 0
      BY <3>3, SubSeqProperties
    <3>6. Len(front) + Len(back) = Len(q) - 1 /\ Len(front) \in Nat /\ Len(back) \in Nat
      BY <1>1, <3>2, <3>4, <3>5
    <3>7. o = front \o back
      BY <3>1 DEF RemoveAt
    <3>8. o \in Seq(S) /\ Len(o) = Len(front) + Len(back)
      BY <3>4, <3>5, <3>7, ConcatProperties
    <3> QED
      BY <1>1, <3>6, <3>8
  <2> QED
    BY <2>1, <2>2
<1>3. Append(o, c) \in Seq(S) /\ Len(Append(o, c)) = Len(o) + 1 /\ Append(o, c) # << >>
  BY <1>2, AppendProperties
<1>4. Tail(Append(o, c)) \in Seq(S) /\ Len(Tail(Append(o, c))) = Len(o)
  BY <1>2, <1>3, HeadTailProperties
<1> QED
  BY <1>1, <1>2, <1>3, <1>4 DEF Kept

\* Looking at a cell keeps the caches and what is stored in shape.
LEMMA AccessFits ==
    ASSUME CellsBounded, StoredOK, NEW P \in SUBSET Part, NEW r \in Region,
           NEW m \in [Part -> SUBSET Item], Access(P, r, m)
    PROVE  CellsBounded' /\ StoredOK'
<1>1. DOMAIN cells' = DOMAIN CellOf
  BY DEF Access, CellsBounded
<1>2. ASSUME NEW p \in DOMAIN CellOf
      PROVE  cells'[p] \in Seq(CellsOf(p)) /\ Len(cells'[p]) \in 1..CacheSize
  <2>1. cells'[p] = IF p \in P THEN Kept(Opened(p, r)) ELSE cells[p]
    BY DEF Access, CellsBounded
  <2>2. CellOf[p][r] \in CellsOf(p)
    BY DEF CellsOf
  <2>3. cells[p] \in Seq(CellsOf(p)) /\ Len(cells[p]) \in 1..CacheSize
    BY DEF CellsBounded
  <2> QED
    BY <2>1, <2>2, <2>3, OpenedFits DEF Opened
<1>3. CellsBounded'
  BY <1>1, <1>2 DEF CellsBounded, CellsOf
<1>4. \A p \in Part : stored'[p] \subseteq Item
  BY DEF Access, Content, StoredOK
<1> QED
  BY <1>3, <1>4 DEF Access, StoredOK

LEMMA CursorStep == UpdateInv /\ CursorOK /\ [Next]_vars => CursorOK'
<1> SUFFICES ASSUME UpdateInv, CursorOK, [Next]_vars PROVE CursorOK'
  OBVIOUS
<1> USE DEF CursorOK, taskVars, callVars, mapVars
<1>0. crew \in SUBSET Worker
  BY DEF UpdateInv, Typed
<1>1. CASE UNCHANGED vars
  BY <1>1 DEF vars
<1>2. CASE Cancel
  BY <1>2 DEF Cancel
<1>3. ASSUME NEW w \in Worker, Advance(w)
      PROVE  CursorOK'
  <2>1. index \in 1..Len(Subtasks) /\ Len(Subtasks) \in Nat
    BY <1>3, UpdateAssumption DEF Advance, HasMoreWork
  <2>2. index' \in 1..Len(Subtasks) + 1
    BY <1>3, <2>1 DEF Advance
  <2> QED
    BY <1>3, <2>2 DEF Advance
<1>4. ASSUME NEW w \in Worker, EnterSave(w)
      PROVE  CursorOK'
  BY <1>4 DEF EnterSave, Flagged
<1>5. ASSUME NEW w \in Worker, EnterRegion(w) \/ Claim(w) \/ Refuse(w) \/ FinishTile(w) \/ Complete(w)
      PROVE  CursorOK'
  BY <1>5 DEF EnterRegion, Claim, Refuse, FinishTile, Complete
<1>6. ASSUME NEW w \in Worker, SavePart(w)
      PROVE  CursorOK'
  <2>1. part' \in 1..Len(SaveOrder)
    BY <1>6 DEF SavePart, LastPart, SaveOrder
  <2> QED
    BY <1>6, <2>1 DEF SavePart
<1>7. ASSUME NEW w \in Worker, ScanEndsRegion(w)
      PROVE  CursorOK'
  <2>1. at[w] \in Region
    BY <1>7 DEF UpdateInv, RegionInv, InRegion, ScanEndsRegion
  <2> QED
    BY <1>7, <2>1 DEF ScanEndsRegion
<1> QED
  BY <1>0, <1>1, <1>2, <1>3, <1>4, <1>5, <1>6, <1>7, NextActions

LEMMA CellsStep == UpdateInv /\ CursorOK /\ CellsBounded /\ StoredOK /\ [Next]_vars => CellsBounded' /\ StoredOK'
<1> SUFFICES ASSUME UpdateInv, CursorOK, CellsBounded, StoredOK, [Next]_vars
             PROVE  CellsBounded' /\ StoredOK'
  OBVIOUS
<1>0. crew \in SUBSET Worker /\ memory \in [Part -> SUBSET Item]
  BY DEF UpdateInv, Typed
<1>1. ASSUME UNCHANGED <<cells, stored>>
      PROVE  CellsBounded' /\ StoredOK'
  BY <1>1 DEF CellsBounded, StoredOK
<1>2. CASE Cancel \/ UNCHANGED vars
  BY <1>1, <1>2 DEF Cancel, vars, mapVars
<1>3. ASSUME NEW w \in Worker, Advance(w) \/ EnterSave(w) \/ EnterRegion(w) \/ Refuse(w)
      PROVE  CellsBounded' /\ StoredOK'
  BY <1>1, <1>3 DEF Advance, EnterSave, EnterRegion, Refuse, mapVars
<1>4. ASSUME NEW w \in Worker, SavePart(w)
      PROVE  CellsBounded' /\ StoredOK'
  <2>1. SaveOrder[part] \in Part
    BY DEF CursorOK, SaveOrder, Part
  <2>2. Unsaved(SaveOrder[part]) \subseteq Item
    BY <1>0, <2>1 DEF Unsaved, Content
  <2>3. StoredOK'
    BY <1>4, <2>1, <2>2 DEF SavePart, StoredOK
  <2>4. UNCHANGED cells
    BY <1>4 DEF SavePart
  <2> QED
    BY <2>3, <2>4 DEF CellsBounded
<1>5. ASSUME NEW w \in Worker, Claim(w) \/ ScanEndsRegion(w) \/ FinishTile(w) \/ Complete(w)
      PROVE  CellsBounded' /\ StoredOK'
  <2>1. at[w] \in Region
    BY <1>5 DEF UpdateInv, RegionInv, InRegion, Claim, ScanEndsRegion, FinishTile, Complete
  <2>2. \/ \E P \in SUBSET Part : Access(P, at[w], memory)
        \/ UNCHANGED <<cells, stored>>
    BY <1>5 DEF Claim, ScanEndsRegion, FinishTile, Complete, Scans, Part
  <2> QED
    BY <1>0, <1>1, <2>1, <2>2, AccessFits
<1> QED
  BY <1>0, <1>2, <1>3, <1>4, <1>5, NextActions

\* TypedInv holds in every reachable state.
LEMMA TypedInvariant == Spec => []TypedInv
<1>1. Init => TypedInv
  <2> SUFFICES ASSUME Init PROVE TypedInv
    OBVIOUS
  <2>1. UpdateInv
    BY InitUpdateInv
  <2>2. CursorOK
    BY UpdateAssumption DEF Init, CursorOK, FirstIndex, SaveOrder
  <2>3. CellsBounded
    <3>1. ASSUME NEW p \in DOMAIN CellOf
          PROVE  cells[p] \in Seq(CellsOf(p)) /\ Len(cells[p]) \in 1..CacheSize
      <4>1. cells[p] = <<CellOf[p]["before"]>> /\ CellOf[p]["before"] \in CellsOf(p)
        BY DEF Init, CellsOf
      <4> QED
        BY <4>1, UpdateAssumption
    <3> QED
      BY <3>1 DEF Init, CellsBounded
  <2>4. StoredOK
    BY DEF Init, StoredOK
  <2> QED
    BY <2>1, <2>2, <2>3, <2>4 DEF TypedInv
<1>2. TypedInv /\ [Next]_vars => TypedInv'
  BY TypedStep, SavesStep, RegionStep, CursorStep, CellsStep DEF UpdateInv, TypedInv
<1> QED
  BY <1>1, <1>2, PTL DEF Spec

\* The types of the variables: the caches of cells never hold more than they may, and
\* what is stored is what was in memory.
THEOREM TypeCorrect == Spec => []TypeOK
<1>1. TypedInv => TypeOK
  BY DEF TypedInv, UpdateInv, Typed, CursorOK, CellsBounded, StoredOK, TypeOK, Pc
<1> QED
  BY <1>1, TypedInvariant, PTL

-----------------------------------------------------------------------------
(* What is stored *)

\* A cell is in a cache once.
CellsOnce == \A p \in DOMAIN CellOf : IsInjective(cells[p])

\* What is known of r is stored, or its cell is in memory.
CellsHold ==
    \A p \in DOMAIN CellOf : \A x \in memory[p] :
        x \in stored[p] \/ CellOf[p][x[1]] \in Range(cells[p])

StoredInMemory == \A p \in Part : stored[p] \subseteq memory[p]

\* The invariant of the storage, for any crew.
StoreInv == CellsOnce /\ CellsHold /\ StoredInMemory

-----------------------------------------------------------------------------
(* The caches of cells *)

\* A sequence without one of its elements.
LEMMA WithoutKeeps ==
    ASSUME NEW S, NEW q \in Seq(S), IsInjective(q), NEW c
    PROVE  /\ Without(q, c) \in Seq(S) /\ IsInjective(Without(q, c))
           /\ Range(Without(q, c)) = Range(q) \ {c}
<1> DEFINE o == Without(q, c)
<1>1. Len(q) \in Nat /\ DOMAIN q = 1..Len(q) /\ \A i \in 1..Len(q) : q[i] \in S
  OBVIOUS
<1>2. CASE ~\E i \in DOMAIN q : q[i] = c
  BY <1>2 DEF Without, Range
<1>3. CASE \E i \in DOMAIN q : q[i] = c
  <2>1. PICK i \in DOMAIN q : o = RemoveAt(q, i) /\ q[i] = c
    BY <1>3 DEF Without
  <2> DEFINE front == SubSeq(q, 1, i - 1)
             back == SubSeq(q, i + 1, Len(q))
  <2>2. i \in 1..Len(q)
    BY <1>1
  <2>3. /\ 1 \in Int /\ i - 1 \in Int /\ i + 1 \in Int /\ Len(q) \in Int
        /\ \A j \in 1..i - 1 : q[j] \in S
        /\ \A j \in i + 1..Len(q) : q[j] \in S
    BY <1>1, <2>2
  <2>4. /\ front \in Seq(S) /\ Len(front) = IF 1 <= i - 1 THEN i - 1 - 1 + 1 ELSE 0
        /\ \A j \in 1..i - 1 - 1 + 1 : front[j] = q[1 + j - 1]
    BY <2>3, SubSeqProperties
  <2>5. /\ back \in Seq(S)
        /\ Len(back) = IF i + 1 <= Len(q) THEN Len(q) - (i + 1) + 1 ELSE 0
        /\ \A j \in 1..Len(q) - (i + 1) + 1 : back[j] = q[i + 1 + j - 1]
    BY <2>3, SubSeqProperties
  <2>6. Len(front) = i - 1 /\ Len(back) = Len(q) - i
    BY <1>1, <2>2, <2>4, <2>5
  <2>7. o = front \o back
    BY <2>1 DEF RemoveAt
  <2> HIDE DEF front, back, o
  <2>8. /\ o \in Seq(S) /\ Len(o) = Len(front) + Len(back)
        /\ \A j \in 1..Len(front) + Len(back) :
             o[j] = IF j <= Len(front) THEN front[j] ELSE back[j - Len(front)]
    BY <2>4, <2>5, <2>7, ConcatProperties
  <2>9. Len(o) = Len(q) - 1 /\ DOMAIN o = 1..Len(q) - 1
    BY <1>1, <2>2, <2>6, <2>8
  <2>10. ASSUME NEW j \in 1..Len(q) - 1 PROVE o[j] = IF j < i THEN q[j] ELSE q[j + 1]
    <3>1. o[j] = IF j <= i - 1 THEN front[j] ELSE back[j - (i - 1)]
      BY <1>1, <2>2, <2>6, <2>8
    <3>2. CASE j < i
      BY <1>1, <2>2, <2>4, <3>1, <3>2
    <3>3. CASE ~(j < i)
      <4> DEFINE k == j - (i - 1)
      <4>1. k \in 1..Len(q) - (i + 1) + 1 /\ i + 1 + k - 1 = j + 1
        BY <1>1, <2>2, <3>3
      <4>2. o[j] = back[k]
        BY <1>1, <2>2, <3>1, <3>3
      <4> HIDE DEF k
      <4>3. back[k] = q[i + 1 + k - 1]
        BY <2>5, <4>1
      <4> QED
        BY <1>1, <2>2, <3>3, <4>1, <4>2, <4>3
    <3> QED
      BY <3>2, <3>3
  <2>11. \A j \in 1..Len(q) - 1 : \E k \in 1..Len(q) :
            k # i /\ o[j] = q[k] /\ k = IF j < i THEN j ELSE j + 1
    <3> SUFFICES ASSUME NEW j \in 1..Len(q) - 1
                 PROVE  \E k \in 1..Len(q) :
                          k # i /\ o[j] = q[k] /\ k = IF j < i THEN j ELSE j + 1
      OBVIOUS
    <3>1. CASE j < i
      BY <1>1, <2>2, <2>10, <3>1
    <3>2. CASE ~(j < i)
      <4>1. j + 1 \in 1..Len(q) /\ j + 1 # i
        BY <1>1, <2>2, <3>2
      <4> QED
        BY <2>10, <3>2, <4>1
    <3> QED
      BY <3>1, <3>2
  <2>12. IsInjective(o)
    <3>1. ASSUME NEW j \in 1..Len(q) - 1, NEW l \in 1..Len(q) - 1, o[j] = o[l]
          PROVE  j = l
      <4>1. PICK k \in 1..Len(q) : o[j] = q[k] /\ k = IF j < i THEN j ELSE j + 1
        BY <2>11
      <4>2. PICK m \in 1..Len(q) : o[l] = q[m] /\ m = IF l < i THEN l ELSE l + 1
        BY <2>11
      <4>3. k = m
        BY <1>1, <3>1, <4>1, <4>2 DEF IsInjective
      <4> QED
        BY <1>1, <2>2, <4>1, <4>2, <4>3
    <3> QED
      BY <2>9, <3>1 DEF IsInjective
  <2>13. Range(o) \subseteq Range(q) \ {c}
    <3> SUFFICES ASSUME NEW j \in 1..Len(q) - 1 PROVE o[j] \in Range(q) /\ o[j] # c
      BY <2>9 DEF Range
    <3>1. PICK k \in 1..Len(q) : k # i /\ o[j] = q[k]
      BY <2>11
    <3> QED
      BY <1>1, <2>1, <3>1 DEF Range, IsInjective
  <2>14. ASSUME NEW d \in Range(q) \ {c} PROVE d \in Range(o)
    <3>1. PICK k \in 1..Len(q) : q[k] = d
      BY <1>1 DEF Range
    <3>2. k # i
      BY <2>1, <2>14, <3>1
    <3>3. CASE k < i
      <4>1. k \in 1..Len(q) - 1 /\ o[k] = d
        BY <1>1, <2>2, <2>10, <3>1, <3>3
      <4> QED
        BY <2>9, <4>1 DEF Range
    <3>4. CASE k > i
      <4>1. k - 1 \in 1..Len(q) - 1 /\ o[k - 1] = d
        BY <1>1, <2>2, <2>10, <3>1, <3>4
      <4> QED
        BY <2>9, <4>1 DEF Range
    <3> QED
      BY <1>1, <2>2, <3>2, <3>3, <3>4
  <2> QED
    BY <2>8, <2>12, <2>13, <2>14 DEF o
<1> QED
  BY <1>2, <1>3

\* A cell that is looked at is in the cache; the others stay, but for one evicted.
LEMMA OpenedHolds ==
    ASSUME NEW S, NEW q \in Seq(S), IsInjective(q), NEW c \in S
    PROVE  LET o == Append(Without(q, c), c)
           IN  /\ o \in Seq(S) /\ IsInjective(o)
               /\ IsInjective(Kept(o)) /\ c \in Range(Kept(o))
               /\ \A d \in Range(q) : d \in Range(Kept(o)) \/ d \in Evicted(o)
<1> DEFINE b == Without(q, c)
           o == Append(b, c)
<1>1. b \in Seq(S) /\ IsInjective(b) /\ Range(b) = Range(q) \ {c}
  BY WithoutKeeps
<1> HIDE DEF b
<1>2. /\ Len(b) \in Nat /\ DOMAIN b = 1..Len(b)
      /\ o \in Seq(S) /\ Len(o) = Len(b) + 1 /\ DOMAIN o = 1..Len(b) + 1
      /\ o[Len(b) + 1] = c /\ o # << >> /\ \A i \in 1..Len(b) : o[i] = b[i]
  BY <1>1, AppendProperties
<1> HIDE DEF o
<1>3. \A i \in 1..Len(b) : b[i] # c
  BY <1>1, <1>2 DEF Range
<1>4. IsInjective(o)
  BY <1>1, <1>2, <1>3 DEF IsInjective
<1>5. Range(o) = Range(b) \cup {c}
  BY <1>2 DEF Range
<1>6. CASE ~(Len(o) > CacheSize)
  BY <1>1, <1>2, <1>4, <1>5, <1>6 DEF Kept, o, b
<1>7. CASE Len(o) > CacheSize
  <2>1. Len(b) >= 1
    BY <1>2, <1>7, UpdateAssumption
  <2>2. /\ Tail(o) \in Seq(S) /\ Len(Tail(o)) = Len(b) /\ DOMAIN Tail(o) = 1..Len(b)
        /\ Head(o) = o[1] /\ \A i \in 1..Len(b) : Tail(o)[i] = o[i + 1]
    BY <1>2, HeadTailProperties
  <2>3. IsInjective(Tail(o))
    BY <1>2, <1>4, <2>2 DEF IsInjective
  <2>4. c \in Range(Tail(o))
    BY <1>2, <2>1, <2>2 DEF Range
  <2>5. ASSUME NEW d \in Range(q), d # Head(o) PROVE d \in Range(Tail(o))
    <3>1. PICK i \in 1..Len(b) + 1 : o[i] = d
      BY <1>1, <1>2, <1>5 DEF Range
    <3>2. i - 1 \in 1..Len(b) /\ Tail(o)[i - 1] = d
      BY <1>2, <2>2, <2>5, <3>1
    <3> QED
      BY <2>2, <3>2 DEF Range
  <2>6. Kept(o) = Tail(o) /\ Evicted(o) = {Head(o)}
    BY <1>7 DEF Kept, Evicted
  <2> QED
    BY <1>2, <1>4, <2>3, <2>4, <2>5, <2>6 DEF o, b
<1> QED
  BY <1>6, <1>7

-----------------------------------------------------------------------------
(* What is stored, with any crew *)

\* The parts whose memory is in cells.
LEMMA CellParts == DOMAIN CellOf = {"tiles", "chunks"} /\ DOMAIN CellOf \subseteq Part
BY UpdateAssumption DEF Part

\* Looking at the cells of r keeps the storage true, whatever becomes known of r.
LEMMA AccessHolds ==
    ASSUME CellsBounded, StoredOK, StoreInv, memory \in [Part -> SUBSET Item],
           NEW P \in SUBSET DOMAIN CellOf, NEW r \in Region, Access(P, r, memory),
           \A p \in Part : memory[p] \subseteq memory'[p],
           \A p \in DOMAIN CellOf : \A x \in memory'[p] \ memory[p] : p \in P /\ x[1] = r
    PROVE  StoreInv' /\ \A p \in Part : stored[p] \subseteq stored'[p]
<1>1. ASSUME NEW p \in DOMAIN CellOf, p \notin P
      PROVE  cells'[p] = cells[p] /\ stored'[p] = stored[p]
  BY <1>1, CellParts DEF Access, CellsBounded, StoredOK
<1>2. ASSUME NEW p \in P
      PROVE  /\ cells'[p] = Kept(Opened(p, r))
             /\ stored'[p] = stored[p] \cup Content(p, memory[p], Evicted(Opened(p, r)))
  BY <1>2, CellParts DEF Access, CellsBounded
<1>3. ASSUME NEW p \in P
      PROVE  /\ IsInjective(Kept(Opened(p, r))) /\ CellOf[p][r] \in Range(Kept(Opened(p, r)))
             /\ \A d \in Range(cells[p]) :
                  d \in Range(Kept(Opened(p, r))) \/ d \in Evicted(Opened(p, r))
  <2>1. CellOf[p][r] \in CellsOf(p) /\ cells[p] \in Seq(CellsOf(p)) /\ IsInjective(cells[p])
    BY DEF CellsBounded, CellsOf, StoreInv, CellsOnce
  <2> QED
    BY <2>1, OpenedHolds DEF Opened
<1>4. CellsOnce'
  BY <1>1, <1>2, <1>3 DEF CellsOnce, StoreInv
<1>5. ASSUME NEW p \in Part
      PROVE  stored[p] \subseteq stored'[p] /\ stored'[p] \subseteq memory'[p]
  <2>1. stored'[p] \in {stored[p], stored[p] \cup Content(p, memory[p], Evicted(Opened(p, r)))}
    BY DEF Access
  <2>2. Content(p, memory[p], Evicted(Opened(p, r))) \subseteq memory[p]
    BY DEF Content
  <2> QED
    BY <2>1, <2>2 DEF StoreInv, StoredInMemory
<1>6. ASSUME NEW p \in DOMAIN CellOf, NEW x \in memory'[p]
      PROVE  x \in stored'[p] \/ CellOf[p][x[1]] \in Range(cells'[p])
  <2>1. CASE x \in memory[p] /\ p \notin P
    BY <1>1, <2>1 DEF StoreInv, CellsHold
  <2>2. CASE x \in memory[p] /\ p \in P
    <3>1. x \in stored[p] \/ CellOf[p][x[1]] \in Range(cells[p])
      BY <2>2 DEF StoreInv, CellsHold
    <3>2. CellOf[p][x[1]] \in Evicted(Opened(p, r)) =>
              x \in Content(p, memory[p], Evicted(Opened(p, r)))
      BY <2>2 DEF Content
    <3> QED
      BY <1>2, <1>3, <2>2, <3>1, <3>2
  <2>3. CASE x \notin memory[p]
    BY <1>2, <1>3, <2>3
  <2> QED
    BY <2>1, <2>2, <2>3
<1> QED
  BY <1>4, <1>5, <1>6 DEF StoreInv, CellsHold, StoredInMemory

\* A save of a part stores more of what is in memory.
LEMMA SavePartHolds ==
    ASSUME TypedInv, StoreInv, NEW w \in Worker, SavePart(w)
    PROVE  /\ StoreInv' /\ \A p \in Part : stored[p] \subseteq stored'[p]
           /\ memory[SaveOrder[part]] \subseteq stored'[SaveOrder[part]]
<1> DEFINE p == SaveOrder[part]
<1>1. p \in Part /\ stored \in [Part -> SUBSET Item]
  BY DEF TypedInv, CursorOK, SaveOrder, Part, StoredOK
<1>2. memory' = memory /\ cells' = cells /\ stored' = [stored EXCEPT ![p] = @ \cup Unsaved(p)]
  BY DEF SavePart
<1> HIDE DEF p
<1>3. Unsaved(p) \subseteq memory[p]
  BY DEF Unsaved, Content
<1>4. memory[p] \subseteq stored[p] \cup Unsaved(p)
  <2>1. CASE p = "lowres"
    BY <2>1 DEF Unsaved
  <2>2. CASE p # "lowres"
    <3>1. p \in DOMAIN CellOf
      BY <1>1, <2>2, CellParts DEF Part
    <3> SUFFICES ASSUME NEW x \in memory[p], x \notin stored[p] PROVE x \in Unsaved(p)
      OBVIOUS
    <3>2. CellOf[p][x[1]] \in Range(cells[p])
      BY <3>1 DEF StoreInv, CellsHold
    <3> QED
      BY <2>2, <3>2 DEF Unsaved, Content, Range
  <2> QED
    BY <2>1, <2>2
<1>5. \A o \in Part : stored[o] \subseteq stored'[o] /\ stored'[o] \subseteq stored[o] \cup memory[o]
  BY <1>1, <1>2, <1>3
<1>6. memory[p] \subseteq stored'[p]
  BY <1>1, <1>2, <1>4
<1>7. CellsHold'
  BY <1>2, <1>5, CellParts DEF CellsHold, StoreInv
<1>8. CellsOnce' /\ StoredInMemory'
  BY <1>2, <1>5 DEF CellsOnce, StoredInMemory, StoreInv
<1> QED
  BY <1>5, <1>6, <1>7, <1>8 DEF StoreInv, p

\* The steps inside a region: the cells of the region that are looked at.
LEMMA RegionAccess ==
    ASSUME TypedInv, StoreInv, NEW w \in Worker,
           Claim(w) \/ ScanEndsRegion(w) \/ FinishTile(w) \/ Complete(w)
    PROVE  StoreInv' /\ \A p \in Part : stored[p] \subseteq stored'[p]
<1>1. /\ at[w] \in Region /\ memory \in [Part -> SUBSET Item]
      /\ CellsBounded /\ StoredOK
  BY DEF TypedInv, UpdateInv, Typed, RegionInv, InRegion, Claim, ScanEndsRegion,
         FinishTile, Complete
<1>2. ASSUME memory' = memory, Scans(w)
      PROVE  StoreInv' /\ \A p \in Part : stored[p] \subseteq stored'[p]
  <2>1. CASE Access({"tiles", "chunks"}, at[w], memory)
    BY <1>1, <1>2, <2>1, CellParts, AccessHolds
  <2>2. CASE UNCHANGED <<cells, stored>>
    BY <1>2, <2>2 DEF StoreInv, CellsOnce, CellsHold, StoredInMemory
  <2> QED
    BY <1>2, <2>1, <2>2 DEF Scans
<1>3. CASE Claim(w)
  BY <1>2, <1>3 DEF Claim
<1>4. CASE ScanEndsRegion(w)
  <2>1. memory' = memory /\ (Scans(w) \/ UNCHANGED <<cells, stored>>)
    BY <1>4 DEF ScanEndsRegion
  <2>2. CASE UNCHANGED <<cells, stored>>
    BY <2>1, <2>2 DEF StoreInv, CellsOnce, CellsHold, StoredInMemory
  <2> QED
    BY <1>2, <2>1, <2>2
<1>5. CASE FinishTile(w)
  <2>1. /\ Access({"tiles"}, at[w], memory)
        /\ memory' = [memory EXCEPT !["lowres"] = @ \cup {<<at[w], tile[w]>>},
                                    !["tiles"] = @ \cup {<<at[w], tile[w]>>}]
    BY <1>5 DEF FinishTile
  <2>2. \A p \in Part : memory[p] \subseteq memory'[p]
    BY <1>1, <2>1
  <2>3. \A p \in DOMAIN CellOf : \A x \in memory'[p] \ memory[p] :
            p \in {"tiles"} /\ x[1] = at[w]
    BY <1>1, <2>1, CellParts
  <2> QED
    BY <1>1, <2>1, <2>2, <2>3, CellParts, AccessHolds
<1>6. CASE Complete(w)
  <2>1. /\ Access({"chunks"}, at[w], memory)
        /\ memory' = [memory EXCEPT !["chunks"] = @ \cup {Hashes(at[w])}]
    BY <1>6 DEF Complete
  <2>2. \A p \in Part : memory[p] \subseteq memory'[p]
    BY <1>1, <2>1
  <2>3. \A p \in DOMAIN CellOf : \A x \in memory'[p] \ memory[p] :
            p \in {"chunks"} /\ x[1] = at[w]
    BY <1>1, <2>1, CellParts DEF Hashes
  <2> QED
    BY <1>1, <2>1, <2>2, <2>3, CellParts, AccessHolds
<1> QED
  BY <1>3, <1>4, <1>5, <1>6

\* The other actions leave the map alone.
LEMMA MapLeftAlone ==
    ASSUME NEW w, Advance(w) \/ EnterSave(w) \/ EnterRegion(w) \/ Refuse(w) \/ Cancel
                  \/ UNCHANGED vars
    PROVE  memory' = memory /\ stored' = stored /\ cells' = cells
BY DEF Advance, EnterSave, EnterRegion, Refuse, Cancel, vars, mapVars

\* The inductive step of StoreInv; what is stored stays stored.
LEMMA StoreStep ==
    TypedInv /\ StoreInv /\ [Next]_vars
        => StoreInv' /\ \A p \in Part : stored[p] \subseteq stored'[p]
<1> SUFFICES ASSUME TypedInv, StoreInv, [Next]_vars
             PROVE  StoreInv' /\ \A p \in Part : stored[p] \subseteq stored'[p]
  OBVIOUS
<1>1. crew \in SUBSET Worker
  BY DEF TypedInv, UpdateInv, Typed
<1>2. ASSUME memory' = memory, stored' = stored, cells' = cells
      PROVE  StoreInv' /\ \A p \in Part : stored[p] \subseteq stored'[p]
  BY <1>2 DEF StoreInv, CellsOnce, CellsHold, StoredInMemory
<1> QED
  BY <1>1, <1>2, NextActions, MapLeftAlone, SavePartHolds, RegionAccess

\* What is in memory is stored or in a cached cell, in every reachable state.
THEOREM StoreInvariant == Spec => []StoreInv
<1>1. Init => StoreInv
  <2> SUFFICES ASSUME Init PROVE StoreInv
    OBVIOUS
  <2>1. \A p \in DOMAIN CellOf : cells[p] = <<CellOf[p]["before"]>> /\ memory[p] = Before
    BY CellParts DEF Init
  <2>2. CellsOnce
    BY <2>1 DEF CellsOnce, IsInjective
  <2>3. CellsHold
    <3> SUFFICES ASSUME NEW p \in DOMAIN CellOf, NEW x \in memory[p]
                 PROVE  CellOf[p][x[1]] \in Range(cells[p])
      BY DEF CellsHold
    <3>1. x[1] = "before"
      BY <2>1 DEF Before
    <3>2. DOMAIN cells[p] = {1} /\ cells[p][1] = CellOf[p]["before"]
      BY <2>1
    <3> QED
      BY <3>1, <3>2 DEF Range
  <2>4. StoredInMemory
    BY DEF Init, StoredInMemory
  <2> QED
    BY <2>2, <2>3, <2>4 DEF StoreInv
<1> QED
  BY <1>1, StoreStep, TypedInvariant, PTL DEF Spec

-----------------------------------------------------------------------------
(* A single worker *)

\* The running save has stored all of the parts it is past.
PartsSaved == \A q \in 1..part - 1 : memory[SaveOrder[q]] \subseteq stored[SaveOrder[q]]

\* w alone works on the update.
Solo(w) ==
    /\ crew = {w}
    /\ \A v \in Worker \ {w} : pc[v] = "out"
    /\ IF pc[w] = "saving" THEN PartsSaved ELSE part = 1

\* A crew of one is somebody.
LEMMA AloneIsSomebody ==
    ASSUME crew \in SUBSET Worker, Alone
    PROVE  \E w \in Worker : crew = {w}
<1>1. IsFiniteSet(crew)
  BY UpdateAssumption, FS_Subset
<1> QED
  BY <1>1, FS_Singleton DEF Alone

\* The crew is the same throughout.
LEMMA CrewFixed == [Next]_vars => crew' = crew
BY DEF Next, DoWork, Step, vars, Cancel, Advance, EnterSave, EnterRegion, SavePart,
       Claim, Refuse, ScanEndsRegion, FinishTile, Complete

\* The actions of a single worker.
LEMMA SoloActions ==
    ASSUME NEW w, crew = {w}, [Next]_vars
    PROVE  \/ UNCHANGED vars \/ Cancel
           \/ Advance(w) \/ EnterSave(w) \/ EnterRegion(w)
           \/ SavePart(w) \/ Claim(w) \/ Refuse(w) \/ ScanEndsRegion(w)
           \/ FinishTile(w) \/ Complete(w)
BY DEF Next, DoWork, Step

\* A worker in a save is the one the chain lets go on.
LEMMA SaverSaves ==
    ASSUME TypedInv, NEW w \in Worker, SavePart(w)
    PROVE  pc[w] = "saving"
<1>1. saveChain # << >> /\ Head(saveChain) = w /\ saveChain \in Seq(Worker)
  BY DEF SavePart, TypedInv, UpdateInv, Typed
<1>2. w \in Range(saveChain)
  BY <1>1 DEF Range
<1> QED
  BY <1>2 DEF TypedInv, UpdateInv, ChainOfSavers

\* The inductive step of Solo.
LEMMA SoloStep ==
    ASSUME TypedInv, StoreInv, [Next]_vars, NEW w \in Worker, Solo(w)
    PROVE  Solo(w)'
<1>1. /\ pc \in [Worker -> Pc] /\ part \in 1..3 /\ crew = {w} /\ crew' = crew
      /\ \A v \in Worker \ {w} : pc[v] = "out"
      /\ IF pc[w] = "saving" THEN PartsSaved ELSE part = 1
  BY CrewFixed DEF Solo, TypedInv, UpdateInv, Typed, CursorOK, SaveOrder
<1>2. CASE \/ UNCHANGED vars \/ Cancel \/ Advance(w) \/ EnterRegion(w) \/ Claim(w)
           \/ Refuse(w) \/ ScanEndsRegion(w) \/ FinishTile(w)
  <2>1. CASE UNCHANGED vars \/ Cancel \/ Advance(w)
    <3>1. pc' = pc /\ part' = part /\ memory' = memory /\ stored' = stored
      BY <2>1 DEF vars, callVars, mapVars, Cancel, Advance
    <3> QED
      BY <1>1, <3>1 DEF Solo, PartsSaved
  <2>2. CASE \/ EnterRegion(w) \/ Claim(w) \/ Refuse(w) \/ ScanEndsRegion(w)
             \/ FinishTile(w)
    <3>1. part' = part /\ pc[w] # "saving"
      BY <2>2 DEF EnterRegion, Claim, Refuse, ScanEndsRegion, FinishTile, mapVars
    <3>2. \E to \in {"out", "claim", "tile", "complete"} : pc' = [pc EXCEPT ![w] = to]
      BY <2>2 DEF EnterRegion, Claim, Refuse, ScanEndsRegion, FinishTile
    <3> QED
      BY <1>1, <3>1, <3>2 DEF Solo
  <2> QED
    BY <1>2, <2>1, <2>2
<1>3. CASE EnterSave(w) \/ Complete(w)
  <2>1. part' = part /\ pc[w] # "saving"
    BY <1>3 DEF EnterSave, Complete
  <2>2. \E to \in {"out", "saving"} : pc' = [pc EXCEPT ![w] = to]
    BY <1>3 DEF EnterSave, Complete
  <2> QED
    BY <1>1, <2>1, <2>2 DEF Solo, PartsSaved
<1>4. CASE SavePart(w)
  <2>1. /\ \A p \in Part : stored[p] \subseteq stored'[p]
        /\ memory[SaveOrder[part]] \subseteq stored'[SaveOrder[part]]
    BY <1>4, SavePartHolds
  <2>2. pc[w] = "saving" /\ memory' = memory
    BY <1>4, SaverSaves DEF SavePart
  <2>3. CASE LastPart
    <3>1. part' = 1 /\ pc' = [pc EXCEPT ![w] = "out"]
      BY <1>4, <2>3 DEF SavePart
    <3> QED
      BY <1>1, <3>1 DEF Solo
  <2>4. CASE ~LastPart
    <3>1. part' = part + 1 /\ pc' = pc
      BY <1>4, <2>4 DEF SavePart
    <3>2. ASSUME NEW q \in 1..part' - 1
          PROVE  memory[SaveOrder[q]] \subseteq stored'[SaveOrder[q]]
      <4>1. q \in 1..part - 1 \/ q = part
        BY <1>1, <3>1
      <4>2. \A i \in 1..3 : SaveOrder[i] \in Part
        BY DEF SaveOrder, Part
      <4> QED
        BY <1>1, <2>1, <2>2, <4>1, <4>2 DEF PartsSaved
    <3> QED
      BY <1>1, <2>2, <3>1, <3>2 DEF Solo, PartsSaved
  <2> QED
    BY <2>3, <2>4
<1> QED
  BY <1>1, <1>2, <1>3, <1>4, SoloActions

\* Whoever is alone is alone to the end.
LEMMA SoloInvariant == Spec => [](\A w \in Worker : crew = {w} => Solo(w))
<1>1. Init => \A w \in Worker : crew = {w} => Solo(w)
  BY DEF Init, Solo
<1>2. TypedInv /\ StoreInv /\ (\A w \in Worker : crew = {w} => Solo(w)) /\ [Next]_vars
        => (\A w \in Worker : crew = {w} => Solo(w))'
  <2> SUFFICES ASSUME TypedInv, StoreInv, [Next]_vars, NEW w \in Worker, crew' = {w},
                      crew = {w} => Solo(w)
               PROVE  Solo(w)'
    OBVIOUS
  <2>1. crew' = crew
    BY CrewFixed
  <2> QED
    BY <2>1, SoloStep
<1> QED
  BY <1>1, <1>2, TypedInvariant, StoreInvariant, PTL DEF Spec

\* The end of an undisturbed save finds the whole memory stored.
LEMMA SaveEndsStored ==
    ASSUME TypedInv, StoreInv, NEW w \in Worker, Solo(w), SavePart(w), LastPart
    PROVE  \A p \in Part : memory[p] \subseteq stored'[p]
<1>1. /\ \A p \in Part : stored[p] \subseteq stored'[p]
      /\ memory[SaveOrder[part]] \subseteq stored'[SaveOrder[part]]
  BY SavePartHolds
<1>2. PartsSaved
  BY SaverSaves DEF Solo
<1>3. part = 3
  BY DEF TypedInv, CursorOK, LastPart, SaveOrder
<1>4. SaveOrder[1] = "lowres" /\ SaveOrder[2] = "tiles" /\ SaveOrder[3] = "chunks"
  BY DEF SaveOrder
<1> QED
  BY <1>1, <1>2, <1>3, <1>4 DEF PartsSaved, Part

-----------------------------------------------------------------------------
(* The first save and the last *)

\* The list of MapUpdatePreparationTask: a save at both ends, no task twice.
SavesAtBothEnds ==
    /\ Subtasks # << >> /\ IsInjective(Subtasks)
    /\ Subtasks[1] \in SaveTask /\ Subtasks[Len(Subtasks)] \in SaveTask

LastSave == Subtasks[Len(Subtasks)]

Checkpointed == \A p \in Part : Before \subseteq stored[p]

\* The update has drawn nothing, and the first save is due or running.
NotBegun(w) ==
    /\ memory = [p \in Part |-> Before]
    /\ pc[w] \in {"out", "saving"}
    /\ \/ cancelled = Region
       \/ index = 1 /\ (Subtasks[1] \in saved => pc[w] = "saving")

\* No tile is drawn ahead of the first save.
LEMMA CheckpointStep ==
    ASSUME SavesAtBothEnds, TypedInv, StoreInv, [Next]_vars, NEW w \in Worker, Solo(w),
           Checkpointed \/ NotBegun(w)
    PROVE  Checkpointed' \/ NotBegun(w)'
<1>1. CASE Checkpointed
  BY <1>1, StoreStep DEF Checkpointed
<1>2. CASE NotBegun(w)
  <2>1. pc \in [Worker -> Pc] /\ crew = {w} /\ Region \cap SaveTask = {}
    BY UpdateAssumption DEF Solo, TypedInv, UpdateInv, Typed
  <2>2. CASE UNCHANGED vars
    BY <1>2, <2>2 DEF vars, taskVars, callVars, mapVars, NotBegun
  <2>3. CASE Cancel
    BY <1>2, <2>3 DEF Cancel, callVars, mapVars, NotBegun
  <2>4. CASE Advance(w)
    <3>1. cancelled = Region
      BY <1>2, <2>1, <2>4 DEF Advance, NotBegun, SubtaskHasMoreWork, Current, SavesAtBothEnds
    <3> QED
      BY <1>2, <2>4, <3>1 DEF Advance, callVars, mapVars, NotBegun
  <2>5. CASE EnterSave(w)
    BY <1>2, <2>1, <2>5 DEF EnterSave, NotBegun
  <2>6. CASE EnterRegion(w)
    <3>1. Current \in Region /\ Current \notin cancelled
      BY <2>6 DEF EnterRegion, SubtaskHasMoreWork
    <3> QED
      BY <1>2, <2>1, <3>1 DEF NotBegun, Current, SavesAtBothEnds
  <2>7. CASE SavePart(w)
    <3>1. CASE LastPart
      BY <1>2, <2>7, <3>1, SaveEndsStored DEF NotBegun, Checkpointed
    <3>2. CASE ~LastPart
      BY <1>2, <2>7, <3>2 DEF SavePart, taskVars, NotBegun
    <3> QED
      BY <3>1, <3>2
  <2>8. ~(Claim(w) \/ Refuse(w) \/ ScanEndsRegion(w) \/ FinishTile(w) \/ Complete(w))
    BY <1>2 DEF NotBegun, Claim, Refuse, ScanEndsRegion, FinishTile, Complete
  <2> QED
    BY <2>1, <2>2, <2>3, <2>4, <2>5, <2>6, <2>7, <2>8, SoloActions
<1> QED
  BY <1>1, <1>2

\* Behind the last save nothing is left to store.
LastSaved(w) ==
    \/ cancelled = Region
    \/ LastSave \notin saved /\ index <= Len(Subtasks)
    \/ /\ LastSave \in saved /\ index >= Len(Subtasks)
       /\ \/ pc[w] = "saving"
          \/ pc[w] = "out" /\ \A p \in Part : memory[p] \subseteq stored[p]

\* The inductive step of LastSaved.
LEMMA LastSavedStep ==
    ASSUME SavesAtBothEnds, TypedInv, StoreInv, [Next]_vars, NEW w \in Worker, Solo(w),
           LastSaved(w)
    PROVE  LastSaved(w)'
<1>1. /\ pc \in [Worker -> Pc] /\ crew = {w} /\ Region \cap SaveTask = {}
      /\ index \in 1..Len(Subtasks) + 1 /\ Len(Subtasks) \in Nat \ {0}
      /\ cancelled \subseteq Region /\ LastSave \in SaveTask
  BY UpdateAssumption DEF Solo, TypedInv, UpdateInv, Typed, CursorOK, SavesAtBothEnds, LastSave
<1>2. ASSUME HasMoreWork, index >= Len(Subtasks) PROVE Current = LastSave
  BY <1>1, <1>2 DEF HasMoreWork, Current, LastSave
<1>3. CASE Cancel
  BY <1>3 DEF Cancel, LastSaved
<1>4. CASE UNCHANGED vars
  BY <1>4 DEF vars, taskVars, callVars, mapVars, LastSaved
<1>5. CASE Advance(w)
  <2>1. /\ HasMoreWork /\ ~SubtaskHasMoreWork(Current) /\ index' = index + 1 /\ pc[w] = "out"
        /\ saved' = saved /\ cancelled' = cancelled /\ pc' = pc
        /\ memory' = memory /\ stored' = stored
    BY <1>5 DEF Advance, callVars, mapVars
  <2>2. CASE LastSave \notin saved /\ index <= Len(Subtasks)
    <3>1. index # Len(Subtasks)
      BY <1>1, <1>2, <2>1, <2>2 DEF SubtaskHasMoreWork
    <3> QED
      BY <1>1, <2>1, <2>2, <3>1 DEF LastSaved
  <2>3. CASE ~(LastSave \notin saved /\ index <= Len(Subtasks))
    BY <1>1, <2>1, <2>3 DEF LastSaved
  <2> QED
    BY <2>2, <2>3
<1>6. CASE EnterSave(w)
  <2>1. /\ HasMoreWork /\ Current \in SaveTask /\ Current \notin saved
        /\ saved' = saved \cup {Current} /\ index' = index /\ cancelled' = cancelled
        /\ pc' = [pc EXCEPT ![w] = "saving"]
    BY <1>1, <1>6 DEF EnterSave, SubtaskHasMoreWork, Flagged
  <2>2. CASE index >= Len(Subtasks)
    BY <1>1, <2>1, <1>2, <2>2 DEF LastSaved
  <2>3. CASE ~(index >= Len(Subtasks))
    <3>1. Current # LastSave
      BY <1>1, <2>3 DEF Current, LastSave, SavesAtBothEnds, IsInjective
    <3> QED
      BY <1>1, <2>1, <2>3, <3>1 DEF LastSaved
  <2> QED
    BY <2>2, <2>3
<1>7. CASE EnterRegion(w)
  <2>1. /\ HasMoreWork /\ Current \in Region /\ pc[w] = "out"
        /\ saved' = saved /\ index' = index /\ cancelled' = cancelled
    BY <1>7 DEF EnterRegion, taskVars
  <2>2. ~(index >= Len(Subtasks))
    BY <1>1, <1>2, <2>1
  <2> QED
    BY <1>1, <2>1, <2>2 DEF LastSaved
<1>8. CASE SavePart(w)
  <2>1. /\ saved' = saved /\ index' = index /\ cancelled' = cancelled /\ memory' = memory
        /\ pc[w] = "saving"
    BY <1>8, SaverSaves DEF SavePart, taskVars
  <2>2. CASE LastPart
    <3>1. pc' = [pc EXCEPT ![w] = "out"] /\ \A p \in Part : memory[p] \subseteq stored'[p]
      BY <1>8, <2>2, SaveEndsStored DEF SavePart
    <3> QED
      BY <1>1, <2>1, <3>1 DEF LastSaved
  <2>3. CASE ~LastPart
    <3>1. pc' = pc
      BY <1>8, <2>3 DEF SavePart
    <3> QED
      BY <2>1, <3>1 DEF LastSaved
  <2> QED
    BY <2>2, <2>3
<1>9. CASE Claim(w) \/ Refuse(w) \/ ScanEndsRegion(w) \/ FinishTile(w) \/ Complete(w)
  <2>1. /\ pc[w] \notin {"out", "saving"} /\ saved' = saved /\ index' = index
        /\ cancelled \subseteq cancelled'
    BY <1>9 DEF Claim, Refuse, ScanEndsRegion, FinishTile, Complete, taskVars
  <2>2. cancelled' \subseteq Region
    BY CursorStep DEF TypedInv, CursorOK
  <2> QED
    BY <1>1, <2>1, <2>2 DEF LastSaved
<1> QED
  BY <1>1, <1>3, <1>4, <1>5, <1>6, <1>7, <1>8, <1>9, SoloActions

-----------------------------------------------------------------------------
(* What a crash leaves *)

\* The cells of hashes all fit the cache.
HashCellsFit ==
    IsFiniteSet(CellsOf("chunks")) /\ Cardinality(CellsOf("chunks")) <= CacheSize

\* Where the hashes of a region are stored, so are all of its tiles.
Consistent ==
    \A r \in Region : Hashes(r) \in stored["chunks"] =>
        TilesOf(r) \subseteq stored["lowres"] \cap stored["tiles"]

\* Then no cell of hashes is ever evicted.
LEMMA NoHashesEvicted ==
    ASSUME HashCellsFit, TypedInv, StoreInv, NEW r \in Region
    PROVE  Evicted(Opened("chunks", r)) = {}
<1> DEFINE o == Opened("chunks", r)
<1>1. /\ CellOf["chunks"][r] \in CellsOf("chunks") /\ cells["chunks"] \in Seq(CellsOf("chunks"))
      /\ IsInjective(cells["chunks"])
  BY CellParts DEF TypedInv, CellsBounded, CellsOf, StoreInv, CellsOnce
<1>2. o \in Seq(CellsOf("chunks")) /\ IsInjective(o)
  BY <1>1, OpenedHolds DEF Opened
<1> HIDE DEF o
<1>3. Len(o) \in Nat /\ o \in Injection(1..Len(o), CellsOf("chunks"))
  BY <1>2 DEF Injection
<1>4. Cardinality(1..Len(o)) <= Cardinality(CellsOf("chunks"))
  BY <1>3, FS_Injection DEF HashCellsFit
<1>5. Cardinality(1..Len(o)) = Len(o)
  <2>1. 1 \in Int /\ Len(o) \in Int /\ Len(o) >= 0
    BY <1>3
  <2>2. Cardinality(1..Len(o)) = IF 1 > Len(o) THEN 0 ELSE Len(o) - 1 + 1
    BY <2>1, FS_Interval
  <2> QED
    BY <1>3, <2>2
<1>6. Cardinality(CellsOf("chunks")) \in Nat /\ CacheSize \in Nat
  BY FS_CardinalityType, UpdateAssumption DEF HashCellsFit
<1>7. ~(Len(o) > CacheSize)
  BY <1>3, <1>4, <1>5, <1>6 DEF HashCellsFit
<1> QED
  BY <1>7 DEF Evicted, o

\* The inductive step of Consistent.
LEMMA ConsistentStep ==
    ASSUME HashCellsFit, TypedInv, StoreInv, [Next]_vars, NEW w \in Worker, Solo(w),
           Consistent
    PROVE  Consistent'
<1>1. /\ \A p \in Part : stored[p] \subseteq stored'[p]
      /\ stored \in [Part -> SUBSET Item] /\ part \in 1..3
      /\ SaveOrder[1] = "lowres" /\ SaveOrder[2] = "tiles" /\ SaveOrder[3] = "chunks"
  BY StoreStep DEF TypedInv, StoredOK, CursorOK, SaveOrder
<1>2. ASSUME stored'["chunks"] = stored["chunks"] PROVE Consistent'
  BY <1>1, <1>2 DEF Consistent, Part
<1>3. CASE SavePart(w)
  <2>1. stored' = [stored EXCEPT ![SaveOrder[part]] = @ \cup Unsaved(SaveOrder[part])]
    BY <1>3 DEF SavePart
  <2>2. CASE part # 3
    <3>1. SaveOrder[part] # "chunks"
      BY <1>1, <2>2
    <3> QED
      BY <1>1, <1>2, <2>1, <3>1 DEF Part
  <2>3. CASE part = 3
    <3>1. memory["lowres"] \subseteq stored["lowres"] /\ memory["tiles"] \subseteq stored["tiles"]
      BY <1>1, <1>3, <2>3, SaverSaves DEF Solo, PartsSaved
    <3>2. stored'["chunks"] \subseteq memory["chunks"]
      <4>1. stored'["chunks"] = stored["chunks"] \cup Unsaved("chunks")
        BY <1>1, <2>1, <2>3 DEF Part
      <4> QED
        BY <4>1 DEF Unsaved, Content, StoreInv, StoredInMemory, Part
    <3>3. HashesBehindTiles
      BY DEF TypedInv, UpdateInv, RegionInv
    <3> QED
      BY <1>1, <3>1, <3>2, <3>3 DEF Consistent, HashesBehindTiles, Part
  <2> QED
    BY <2>2, <2>3
<1>4. CASE Claim(w) \/ ScanEndsRegion(w) \/ FinishTile(w) \/ Complete(w)
  <2>1. at[w] \in Region
    BY <1>4 DEF TypedInv, UpdateInv, RegionInv, InRegion, Claim, ScanEndsRegion,
                FinishTile, Complete
  <2>2. \/ \E P \in SUBSET Part : Access(P, at[w], memory)
        \/ UNCHANGED <<cells, stored>>
    BY <1>4 DEF Claim, ScanEndsRegion, FinishTile, Complete, Scans, Part
  <2>3. Content("chunks", memory["chunks"], {}) = {}
    BY DEF Content
  <2>4. stored'["chunks"] = stored["chunks"]
    BY <2>1, <2>2, <2>3, NoHashesEvicted DEF Access, Part
  <2> QED
    BY <1>2, <2>4
<1> QED
  BY <1>2, <1>3, <1>4, SoloActions, MapLeftAlone DEF Solo

-----------------------------------------------------------------------------
(* The theorems *)

\* "an update interrupted halfway has a checkpoint on disk from before it started"
\* (MapUpdateTask.ts), with one worker and a save at the front.
THEOREM CheckpointAlwaysFirst ==
    ASSUME SavesAtBothEnds PROVE Spec => []CheckpointFirst
<1> DEFINE Inv == \A w \in Worker : crew = {w} => Checkpointed \/ NotBegun(w)
           Solos == \A w \in Worker : crew = {w} => Solo(w)
<1>1. Init => Inv
  BY DEF Init, NotBegun, FirstIndex
<1>2. TypedInv /\ StoreInv /\ Solos /\ Inv /\ [Next]_vars => Inv'
  <2> SUFFICES ASSUME TypedInv, StoreInv, Solos, Inv, [Next]_vars, NEW w \in Worker, crew' = {w}
               PROVE  Checkpointed' \/ NotBegun(w)'
    OBVIOUS
  <2>1. crew' = crew
    BY CrewFixed
  <2> QED
    BY <2>1, CheckpointStep
<1>3. TypedInv /\ Inv => CheckpointFirst
  <2> SUFFICES ASSUME TypedInv, Inv, Alone, NEW r \in Region,
                      TilesOf(r) \cap memory["tiles"] # {}, NEW p \in Part
               PROVE  Before \subseteq stored[p]
    BY DEF CheckpointFirst
  <2>1. PICK w \in Worker : crew = {w}
    BY AloneIsSomebody DEF TypedInv, UpdateInv, Typed
  <2>2. ~NotBegun(w)
    BY UpdateAssumption DEF NotBegun, TilesOf, Before, Part
  <2> QED
    BY <2>1, <2>2 DEF Checkpointed
<1> QED
  BY <1>1, <1>2, <1>3, TypedInvariant, StoreInvariant, SoloInvariant, PTL DEF Spec

\* "the trailing one commits the update itself" (MapUpdatePreparationTask.ts), with one
\* worker, whatever cells it evicted on the way.
THEOREM UpdateAlwaysCommitted ==
    ASSUME SavesAtBothEnds PROVE Spec => []UpdateCommittedAlone
<1> DEFINE Inv == \A w \in Worker : crew = {w} => LastSaved(w)
           Solos == \A w \in Worker : crew = {w} => Solo(w)
<1>1. Init => Inv
  <2>1. 1 <= Len(Subtasks)
    BY UpdateAssumption DEF SavesAtBothEnds
  <2> QED
    BY <2>1 DEF Init, LastSaved, FirstIndex
<1>2. TypedInv /\ StoreInv /\ Solos /\ Inv /\ [Next]_vars => Inv'
  <2> SUFFICES ASSUME TypedInv, StoreInv, Solos, Inv, [Next]_vars, NEW w \in Worker, crew' = {w}
               PROVE  LastSaved(w)'
    OBVIOUS
  <2>1. crew' = crew
    BY CrewFixed
  <2> QED
    BY <2>1, LastSavedStep
<1>3. TypedInv /\ StoreInv /\ Inv => UpdateCommittedAlone
  <2> SUFFICES ASSUME TypedInv, StoreInv, Inv, Alone, Over, cancelled # Region
               PROVE  stored = memory
    BY DEF UpdateCommittedAlone, UpdateCommitted
  <2>1. PICK w \in Worker : crew = {w}
    BY AloneIsSomebody DEF TypedInv, UpdateInv, Typed
  <2>2. LastSaved(w) /\ pc[w] = "out" /\ ~HasMoreWork
    BY <2>1 DEF Over
  <2>3. \A p \in Part : memory[p] \subseteq stored[p]
    BY <2>2 DEF LastSaved, HasMoreWork
  <2>4. memory \in [Part -> SUBSET Item] /\ stored \in [Part -> SUBSET Item]
    BY DEF TypedInv, UpdateInv, Typed, StoredOK
  <2>5. \A p \in Part : memory[p] = stored[p]
    BY <2>3 DEF StoreInv, StoredInMemory
  <2> QED
    BY <2>4, <2>5
<1> QED
  BY <1>1, <1>2, <1>3, TypedInvariant, StoreInvariant, SoloInvariant, PTL DEF Spec

\* A crash at any point leaves a storage that can be resumed from, with one worker and a
\* cache that all the cells of hashes fit.
THEOREM StorageAlwaysConsistent ==
    ASSUME HashCellsFit PROVE Spec => []StorageConsistent
<1> DEFINE Inv == \A w \in Worker : crew = {w} => Consistent
           Solos == \A w \in Worker : crew = {w} => Solo(w)
<1>1. Init => Inv
  BY DEF Init, Consistent, Part
<1>2. TypedInv /\ StoreInv /\ Solos /\ Inv /\ [Next]_vars => Inv'
  <2> SUFFICES ASSUME TypedInv, StoreInv, Solos, Inv, [Next]_vars, NEW w \in Worker, crew' = {w}
               PROVE  Consistent'
    OBVIOUS
  <2>1. crew' = crew
    BY CrewFixed
  <2> QED
    BY <2>1, ConsistentStep
<1>3. TypedInv /\ Inv => StorageConsistent
  <2> SUFFICES ASSUME TypedInv, Inv, Alone PROVE Consistent
    BY DEF StorageConsistent, Consistent
  <2>1. PICK w \in Worker : crew = {w}
    BY AloneIsSomebody DEF TypedInv, UpdateInv, Typed
  <2> QED
    BY <2>1
<1> QED
  BY <1>1, <1>2, <1>3, TypedInvariant, StoreInvariant, SoloInvariant, PTL DEF Spec

=============================================================================
