------------------------- MODULE RegionUpdateProofs -------------------------
(***************************************************************************)
(* Proofs about RegionUpdate, for any number of workers, tiles and chunks,   *)
(* any layout and strategy, and every mix of the hazards; and then about a   *)
(* Quiet setting, where no chunk is deleted, expires or is invalidated from  *)
(* outside and no read fails.                                                *)
(*                                                                           *)
(* The argument. The claim chain lists every call that waits for a claim     *)
(* once, so that only one is in #init, and the cursor is then still in front *)
(* of the first tile (ChainOfClaims, InitAtHead). A claim passes one tile    *)
(* from the cursor to one hand, the finally block passes it on to the done   *)
(* ones (HandedOut), and the count of the hands tells the last one to leave  *)
(* (LastToLeave). A plan fits the state of its tile as long as the tile is   *)
(* not done (PlansFit), so that whatever #processTile settles on is true of  *)
(* the hires tile, and stays true until it is written (StatesTrue).          *)
(*                                                                           *)
(* The argument in a Quiet setting. A stamp never shrinks, and whatever the  *)
(* cache holds of a chunk is a stamp it had (CacheSound). The listing drops  *)
(* what it lists, so that from then on everything cached of an own chunk is  *)
(* what was listed or younger (HashesSound); a chunk that a tile has awaited *)
(* stays cached until the tile is drawn (ChunksStay), because only a listing *)
(* drops chunks and no tile is in hand then. Hence a drawn tile is at least  *)
(* as young as the hashes that are going to be recorded, a tile that is left *)
(* alone was already (PlansSound), and the hashes are recorded behind all of *)
(* them (RecordsSound).                                                      *)
(***************************************************************************)
EXTENDS RegionUpdate, FiniteSetTheorems, SequenceTheorems, TLAPS

\* The types of the variables, by what they belong to.
WorldOK ==
    /\ setting \in Settings
    /\ clock \in Stamp
    /\ world \in [Chunk -> Stamp]

CacheOK ==
    /\ cached \in [Chunk -> Stamp \cup {NotCached, Errored}]
    /\ flight \in [Chunk -> Stamp \cup {NotCached, Errored, Reading}]
    /\ todo \in [Worker -> SUBSET Chunk]
    /\ on \in [Worker -> Chunk \cup {NoChunk}]
    /\ errors \in 0..MaxErrors

StoredOK ==
    /\ known \in [Own -> Stamp]
    /\ listed \in BOOLEAN
    /\ state \in [Tile -> TileState]
    /\ result \in [Worker -> TileState]
    /\ DOMAIN image = Tile
    /\ \A t \in Tile : image[t] = NoImage \/ image[t] \in [Footprint[t] -> Stamp \cup {Errored}]

PlanOK ==
    /\ over \in BOOLEAN
    /\ cancelled \in BOOLEAN
    /\ hashes = NoHashes \/ hashes \in [Own -> Stamp]
    /\ actions = NoActions \/ actions \in [Tile -> [action : Action, state : TileState]]
    /\ layout \in Layouts
    /\ force \in Strategies
    /\ scannedAt \in Stamp
    /\ passes \in 0..MaxPasses

CallsOK ==
    /\ cursor \in 1..TileCount + 1
    /\ chain \in Seq(Worker)
    /\ pc \in [Worker -> CallPc]
    /\ tile \in [Worker -> Tile]
    /\ done \subseteq Tile

\* A call joins the chain, and has it until its claim is settled.
Waits(p) == p \in {"claim", "scan", "warm", "inited"}
ChainOfClaims ==
    /\ IsInjective(chain)
    /\ \A w \in Worker : Waits(pc[w]) <=> w \in Range(chain)

\* Whoever is in #init is the first of the chain and has the first tile to claim.
Inits(p) == p \in {"scan", "warm", "inited"}
InitAtHead ==
    \A w \in Worker : Inits(pc[w]) =>
        /\ chain # << >> /\ Head(chain) = w
        /\ cursor = 1 /\ tile[w] = 1
        /\ pc[w] # "scan" => actions # NoActions

InHand(t) == \E w \in OnTile : tile[w] = t

\* What the cursor has passed is done or in one worker's hand.
HandedOut ==
    /\ \A v, w \in OnTile : v # w => tile[v] # tile[w]
    /\ \A t \in done : ~InHand(t)
    /\ \A t \in Tile : t \in done \/ InHand(t) <=> t < cursor
    /\ atWork = Cardinality(OnTile)

\* The cursor is in front of a tile until the task is over.
CursorInPlace ==
    /\ ~over => cursor <= TileCount
    /\ over => cursor \in {1, TileCount + 1}
    /\ (~over /\ cursor # 1) \/ OnTile # {} => actions # NoActions

\* Behind the call that completes the region nobody is on a tile.
LastToLeave ==
    \A w \in Worker : pc[w] = "complete" =>
        over /\ cursor = TileCount + 1 /\ OnTile = {}

\* What a resolved action may be.
PlanFor(a, s, l) ==
    /\ a \in [action : Action, state : TileState]
    /\ a.action = "RENDER" => a.state \in {"RENDERED", "RENDERED_EDGE"} /\ l # "OUTSIDE"
    /\ a.action = "DELETE" => a.state = "OUT_OF_BOUNDS"
    /\ a.action = "NONE" =>
        /\ a.state = s
        /\ l = "OUTSIDE" => s \in {"OUT_OF_BOUNDS", "NOT_GENERATED", "CHUNK_ERROR"}

\* Until a tile is done its plan fits the state it was made for.
PlansFit ==
    actions # NoActions => \A t \in Tile : t \in done \/ PlanFor(actions[t], state[t], layout[t])

Renders == \A w \in Worker : pc[w] \in {"preload", "render"} => Planning(w).action = "RENDER"

\* A state that tells of the tile whether it has its hires model.
Truthful(s, i) ==
    /\ s \in {"RENDERED", "RENDERED_EDGE"} => i # NoImage
    /\ s \in {"OUT_OF_BOUNDS", "NOT_GENERATED", "CHUNK_ERROR"} => i = NoImage

\* The stored state is truthful until the state to be written is.
StatesTrue ==
    ~StorageErrors =>
        /\ \A t \in Tile : (\A w \in Worker : pc[w] = "write" => tile[w] # t) =>
                Truthful(state[t], image[t])
        /\ \A w \in Worker : pc[w] = "write" =>
                /\ Truthful(result[w], image[tile[w]])
                /\ layout[tile[w]] = "OUTSIDE" => image[tile[w]] = NoImage

\* Tiles outside have no model once they are done, or there was nothing to do.
OutsideGone ==
    ~StorageErrors =>
        \A t \in Tile : layout[t] = "OUTSIDE" /\ (t \in done \/ (over /\ cursor = 1 /\ passes > 0))
            => image[t] = NoImage

Tells == PlansFit /\ Renders /\ StatesTrue /\ OutsideGone

Control == CallsOK /\ ChainOfClaims /\ InitAtHead /\ HandedOut /\ CursorInPlace /\ LastToLeave

-----------------------------------------------------------------------------
(* Lemmas about the setting *)

\* What RegionAssumption says of the region at hand: a row of tiles, each of which lies
\* on some chunk.
LEMMA SettingFacts ==
    ASSUME setting \in Settings
    PROVE  /\ Own \subseteq Chunk /\ IsFiniteSet(Own)
           /\ TileCount \in Nat \ {0} /\ Tile = 1..TileCount
           /\ \A t \in Tile : Footprint[t] \subseteq Chunk /\ Footprint[t] # {}
           /\ Layouts \subseteq [Tile -> Situation]
           /\ Strategies \subseteq Strategy
           /\ MaxClock \in Nat \ {0} /\ MaxPasses \in Nat /\ MaxErrors \in Nat
<1>1. /\ setting.own \subseteq Chunk
      /\ setting.footprint \in Seq((SUBSET Chunk) \ {{}}) /\ setting.footprint # << >>
      /\ setting.layouts \subseteq [DOMAIN setting.footprint -> Situation]
      /\ setting.strategies \subseteq Strategy
      /\ setting.maxClock \in Nat \ {0} /\ setting.maxPasses \in Nat /\ setting.maxErrors \in Nat
  BY RegionAssumption
<1>2. IsFiniteSet(Own)
  BY <1>1, RegionAssumption, FS_Subset DEF Own
<1>3. /\ Len(setting.footprint) \in Nat \ {0}
      /\ Tile = 1..Len(setting.footprint)
  BY <1>1, EmptySeq DEF Tile
<1>4. TileCount = Len(setting.footprint)
  <2>1. Cardinality(1..Len(setting.footprint)) = Len(setting.footprint)
    BY ONLY <1>3, FS_Interval
  <2> QED
    BY <1>3, <2>1 DEF TileCount
<1>5. ASSUME NEW t \in Tile
      PROVE  Footprint[t] \subseteq Chunk /\ Footprint[t] # {}
  <2>1. setting.footprint[t] \in (SUBSET Chunk) \ {{}}
    BY <1>1, <1>3, ElementOfSeq
  <2> QED
    BY <2>1 DEF Footprint
<1> QED
  BY <1>1, <1>2, <1>3, <1>4, <1>5
     DEF Own, Layouts, Strategies, MaxClock, MaxPasses, MaxErrors, Tile

\* A tile is rejected for a chunk with an error, or one that is not generated.
LEMMA Rejects ==
    ASSUME NEW w \in Worker, RejectTile(w), Footprint[tile[w]] # {}
    PROVE  \/ Settled(w, "CHUNK_ERROR")
           \/ Settled(w, "NOT_GENERATED") /\ \E c \in Footprint[tile[w]] : Seen(tile[w])[c] = 0
BY DEF RejectTile, Rejected, Bad, Generated

\* The setting stays, and what it says with it.
LEMMA SettingStays ==
    ASSUME [Next]_vars
    PROVE  /\ setting' = setting
           /\ Own' = Own /\ Tile' = Tile /\ TileCount' = TileCount
           /\ Footprint' = Footprint /\ Stamp' = Stamp
           /\ Layouts' = Layouts /\ Strategies' = Strategies
           /\ MaxPasses' = MaxPasses /\ MaxErrors' = MaxErrors
           /\ StorageErrors' = StorageErrors
<1>1. setting' = setting
  BY DEF vars, worldVars, Next, World, Cache, Claiming, ProcessTile, Claim, NewTask, Cancel,
         EnterWork, Modify, DeleteChunk, ReadElsewhere, ReadChunk, PublishChunk, Expire,
         NeighbourScan, Refuse, ListChunks, ListFails, Scan, Warm, ClaimTile, KeepTile,
         DeleteTile, RenderTile, AwaitChunk, RejectTile, BeginRender, Draw, TileFails,
         WriteState, Complete
<1> QED
  BY <1>1 DEF Own, Tile, TileCount, Footprint, Stamp, MaxClock, Layouts, Strategies,
              MaxPasses, MaxErrors, StorageErrors

\* The actions one by one.
LEMMA NextActions ==
    ASSUME [Next]_vars
    PROVE  \/ UNCHANGED vars
           \/ \E c \in Chunk :
                \/ Modify(c) \/ DeleteChunk(c) \/ ReadElsewhere(c) \/ ReadChunk(c)
                \/ PublishChunk(c) \/ Expire(c)
           \/ NeighbourScan \/ NewTask \/ Cancel
           \/ \E w \in Worker :
                \/ EnterWork(w) \/ Refuse(w) \/ ListChunks(w) \/ ListFails(w) \/ Scan(w)
                \/ Warm(w) \/ Claim(w)
                \/ KeepTile(w) \/ DeleteTile(w) \/ RenderTile(w) \/ AwaitChunk(w)
                \/ RejectTile(w) \/ BeginRender(w) \/ Draw(w) \/ TileFails(w)
                \/ WriteState(w) \/ Complete(w)
BY DEF Next, World, Cache, Claiming, ProcessTile

-----------------------------------------------------------------------------
(* Types *)

\* The stamps of the world stay within the clock.
LEMMA WorldStep == WorldOK /\ [Next]_vars => WorldOK'
<1> SUFFICES ASSUME WorldOK, [Next]_vars PROVE WorldOK'
  OBVIOUS
<1>1. setting' = setting /\ Stamp' = Stamp
  BY SettingStays
<1>2. MaxClock \in Nat /\ Stamp = 0..MaxClock
  BY SettingFacts DEF WorldOK, Stamp
<1>3. ASSUME NEW c \in Chunk, Modify(c)
      PROVE  WorldOK'
  <2>1. clock + 1 \in Stamp
    BY <1>2, <1>3 DEF Modify, WorldOK
  <2> QED
    BY <1>1, <1>3, <2>1 DEF Modify, WorldOK
<1>4. ASSUME NEW c \in Chunk, DeleteChunk(c)
      PROVE  WorldOK'
  BY <1>1, <1>2, <1>4 DEF DeleteChunk, WorldOK
<1>5. CASE clock' = clock /\ world' = world
  BY <1>1, <1>5 DEF WorldOK
<1>6. \/ clock' = clock /\ world' = world
      \/ \E c \in Chunk : Modify(c) \/ DeleteChunk(c)
  BY NextActions DEF vars, worldVars, NewTask, Cancel, EnterWork, ReadElsewhere, ReadChunk,
       PublishChunk, Expire, NeighbourScan, Refuse, ListChunks, ListFails, Scan, Warm, Claim,
       ClaimTile, KeepTile, DeleteTile, RenderTile, AwaitChunk, RejectTile, BeginRender,
       Draw, TileFails, WriteState, Complete
<1> QED
  BY <1>3, <1>4, <1>5, <1>6

\* Cache entries, loads under way and awaited chunks keep their types (ChunkGrid).
LEMMA CacheStep == WorldOK /\ CallsOK /\ CacheOK /\ [Next]_vars => CacheOK'
<1> SUFFICES ASSUME WorldOK, CallsOK, CacheOK, [Next]_vars PROVE CacheOK'
  OBVIOUS
<1>1. Stamp' = Stamp /\ MaxErrors' = MaxErrors
  BY SettingStays
<1>2. /\ MaxErrors \in Nat /\ MaxClock \in Nat /\ Stamp = 0..MaxClock
      /\ \A t \in Tile : Footprint[t] \subseteq Chunk
      /\ IsFiniteSet(Own) /\ Own \subseteq Chunk
  BY SettingFacts DEF WorldOK, Stamp
<1> USE <1>1 DEF CacheOK
<1>3. ASSUME NEW S \in SUBSET Chunk
      PROVE  LoadsStarted(S) \in [Chunk -> Stamp \cup {NotCached, Errored, Reading}]
  BY DEF LoadsStarted
<1>4. ASSUME NEW S \in SUBSET Chunk
      PROVE  /\ InvalidateChunkCache(S) =>
                  /\ cached' \in [Chunk -> Stamp \cup {NotCached, Errored}]
                  /\ flight' \in [Chunk -> Stamp \cup {NotCached, Errored, Reading}]
             /\ Answered(S) \in [Worker -> Chunk \cup {NoChunk}]
  BY DEF InvalidateChunkCache, Answered
<1>5. ASSUME NEW c \in Chunk, ReadElsewhere(c)
      PROVE  CacheOK'
  BY <1>3, <1>5 DEF ReadElsewhere, callVars
<1>6. ASSUME NEW c \in Chunk, ReadChunk(c)
      PROVE  CacheOK'
  <2>1. world[c] \in Stamp
    BY DEF WorldOK
  <2>2. errors' \in 0..MaxErrors
    BY <1>2, <1>6 DEF ReadChunk
  <2> QED
    BY <1>6, <2>1, <2>2 DEF ReadChunk, callVars
<1>7. ASSUME NEW c \in Chunk, PublishChunk(c)
      PROVE  CacheOK'
  <2>1. flight[c] \in Stamp \cup {NotCached, Errored}
    BY <1>7 DEF PublishChunk
  <2> QED
    BY <1>4, <1>7, <2>1 DEF PublishChunk
<1>8. ASSUME NEW c \in Chunk, Expire(c)
      PROVE  CacheOK'
  BY <1>8 DEF Expire, callVars
<1>9. CASE NeighbourScan
  BY <1>4, <1>9 DEF NeighbourScan
<1>10. ASSUME NEW w \in Worker, ListChunks(w)
       PROVE  CacheOK'
  BY <1>2, <1>4, <1>10 DEF ListChunks
<1>11. ASSUME NEW w \in Worker, Warm(w)
       PROVE  CacheOK'
  <2>1. PICK C \in SUBSET {c \in Own : world[c] # 0} :
          /\ Cardinality({c \in Own : world[c] # 0} \ C) <= MaxErrors - errors
          /\ errors' = errors + Cardinality({c \in Own : world[c] # 0} \ C)
          /\ cached' = [c \in Chunk |-> IF c \in C THEN world[c] ELSE cached[c]]
    BY <1>11 DEF Warm
  <2>2. Cardinality({c \in Own : world[c] # 0} \ C) \in Nat
    <3>1. {c \in Own : world[c] # 0} \ C \subseteq Own
      OBVIOUS
    <3> QED
      BY <1>2, <3>1, FS_Subset, FS_CardinalityType
  <2>3. errors' \in 0..MaxErrors
    BY <1>2, <2>1, <2>2
  <2>4. cached' \in [Chunk -> Stamp \cup {NotCached, Errored}]
    BY <2>1 DEF WorldOK
  <2> QED
    BY <1>11, <2>3, <2>4 DEF Warm
<1>12. ASSUME NEW w \in Worker, RenderTile(w) \/ BeginRender(w)
       PROVE  CacheOK'
  <2>1. Footprint[tile[w]] \in SUBSET Chunk
    BY <1>2 DEF CallsOK
  <2>2. flight' = flight \/ flight' = LoadsStarted(Footprint[tile[w]])
    BY <1>12 DEF RenderTile, BeginRender, cacheVars
  <2> QED
    BY <1>3, <1>12, <2>1, <2>2 DEF RenderTile, BeginRender, ToLoad, cacheVars
<1>13. ASSUME NEW w \in Worker, AwaitChunk(w)
       PROVE  CacheOK'
  <2>1. PICK c \in todo[w] :
          /\ todo' = [todo EXCEPT ![w] = @ \ {c}]
          /\ flight' = LoadsStarted({c})
          /\ on' = [on EXCEPT ![w] = IF cached[c] = NotCached THEN c ELSE NoChunk]
    BY <1>13 DEF AwaitChunk
  <2>2. c \in Chunk
    BY <2>1
  <2> QED
    BY <1>3, <1>13, <2>1, <2>2 DEF AwaitChunk
<1>14. ASSUME NEW w \in Worker, RejectTile(w) \/ Draw(w)
       PROVE  CacheOK'
  <2>1. Footprint[tile[w]] \in SUBSET Chunk
    BY <1>2 DEF CallsOK
  <2>2. errors' \in 0..MaxErrors
    BY <1>2, <1>14 DEF RejectTile, Draw, Unrender, Stored
  <2>3. PICK S \in SUBSET Chunk : flight' = LoadsStarted(S)
    BY <1>14, <2>1 DEF RejectTile, Draw
  <2> QED
    BY <1>3, <1>14, <2>2, <2>3 DEF RejectTile, Draw
<1>15. ASSUME NEW w \in Worker, ListFails(w) \/ DeleteTile(w) \/ TileFails(w)
       PROVE  CacheOK'
  <2>1. errors' \in 0..MaxErrors
    BY <1>2, <1>15 DEF ListFails, DeleteTile, TileFails, Unrender, Stored
  <2> QED
    BY <1>15, <2>1 DEF ListFails, DeleteTile, TileFails, cacheVars
<1>16. CASE UNCHANGED <<cached, flight, todo, on, errors>>
  BY <1>16
<1>17. \/ UNCHANGED <<cached, flight, todo, on, errors>>
       \/ \E c \in Chunk : ReadElsewhere(c) \/ ReadChunk(c) \/ PublishChunk(c) \/ Expire(c)
       \/ NeighbourScan
       \/ \E w \in Worker :
            \/ ListChunks(w) \/ ListFails(w) \/ Warm(w) \/ DeleteTile(w) \/ RenderTile(w)
            \/ AwaitChunk(w) \/ RejectTile(w) \/ BeginRender(w) \/ Draw(w) \/ TileFails(w)
  BY NextActions DEF vars, cacheVars, callVars, Modify, DeleteChunk, NewTask, Cancel, EnterWork,
       Refuse, Scan, Claim, ClaimTile, KeepTile, WriteState, Complete
<1> QED
  BY <1>5, <1>6, <1>7, <1>8, <1>9, <1>10, <1>11, <1>12, <1>13, <1>14, <1>15, <1>16, <1>17

\* findActionAndNextState answers a plan that fits the state and the boundaries.
LEMMA FoundAction ==
    ASSUME NEW s \in TileState, NEW changed \in BOOLEAN, NEW l \in Situation
    PROVE  PlanFor(FindActionAndNextState(s, changed, l), s, l)
<1> USE DEF PlanFor, Resolved, TileState, Action, Situation
<1> DEFINE found == FindActionAndNextState(s, changed, l)
           newly == IF l = "INSIDE" THEN Resolved("RENDER", "RENDERED")
                    ELSE IF l = "EDGE" THEN Resolved("RENDER", "RENDERED_EDGE")
                    ELSE Resolved("DELETE", "OUT_OF_BOUNDS")
<1>1. found = Resolved("NONE", s) \/ found = newly
  BY DEF FindActionAndNextState
<1>2. found = Resolved("NONE", s) =>
        (l = "OUTSIDE" => s \in {"OUT_OF_BOUNDS", "NOT_GENERATED", "CHUNK_ERROR"})
  BY DEF FindActionAndNextState
<1> QED
  BY <1>1, <1>2

\* The fields of the task keep their types.
LEMMA PlanStep == WorldOK /\ StoredOK /\ PlanOK /\ [Next]_vars => PlanOK'
<1> SUFFICES ASSUME WorldOK, StoredOK, PlanOK, [Next]_vars PROVE PlanOK'
  OBVIOUS
<1>1. /\ Own' = Own /\ Tile' = Tile /\ Stamp' = Stamp /\ Layouts' = Layouts
      /\ Strategies' = Strategies /\ MaxPasses' = MaxPasses
  BY SettingStays
<1>2. /\ MaxPasses \in Nat /\ Own \subseteq Chunk /\ Layouts \subseteq [Tile -> Situation]
  BY SettingFacts DEF WorldOK
<1> USE <1>1 DEF PlanOK
<1>3. CASE NewTask
  <2>1. passes' \in 0..MaxPasses
    BY <1>2, <1>3 DEF NewTask
  <2>2. force' \in Strategies /\ layout' \in Layouts /\ over' = FALSE /\ cancelled' = FALSE
        /\ hashes' = NoHashes /\ actions' = NoActions /\ scannedAt' = scannedAt
    BY <1>3 DEF NewTask
  <2> QED
    BY <2>1, <2>2
<1>4. CASE Cancel
  BY <1>4 DEF Cancel, history
<1>5. ASSUME NEW w \in Worker, ListChunks(w)
      PROVE  PlanOK'
  <2>1. hashes' \in [Own -> Stamp]
    BY <1>2, <1>5 DEF ListChunks, WorldOK
  <2> QED
    BY <1>5, <2>1 DEF ListChunks, WorldOK
<1>6. ASSUME NEW w \in Worker, ListFails(w)
      PROVE  PlanOK'
  BY <1>6 DEF ListFails, history
<1>7. ASSUME NEW w \in Worker, Scan(w)
      PROVE  PlanOK'
  <2>1. ASSUME NEW t \in Tile
        PROVE  FindActionAndNextState(state[t], Forced(state[t]) \/ ChunksHaveChanges(t), layout[t])
                  \in [action : Action, state : TileState]
    <3>1. state[t] \in TileState /\ layout[t] \in Situation
      BY <1>2 DEF StoredOK
    <3>2. (Forced(state[t]) \/ ChunksHaveChanges(t)) \in BOOLEAN
      BY DEF Forced, ChunksHaveChanges
    <3> QED
      BY <3>1, <3>2, FoundAction DEF PlanFor
  <2>2. actions' \in [Tile -> [action : Action, state : TileState]]
    BY <1>7, <2>1 DEF Scan
  <2>3. over' \in BOOLEAN
    BY <1>7 DEF Scan
  <2> QED
    BY <1>7, <2>2, <2>3 DEF Scan, history
<1>8. ASSUME NEW w \in Worker, NEW t, ClaimTile(w, t)
      PROVE  PlanOK'
  BY <1>8 DEF ClaimTile, LastTile, history
<1>9. ASSUME NEW w \in Worker, Complete(w)
      PROVE  PlanOK'
  BY <1>9 DEF Complete, history
<1>10. CASE UNCHANGED <<over, cancelled, hashes, actions, layout, force, scannedAt, passes>>
  BY <1>10
<1>11. ASSUME NEW w \in Worker, KeepTile(w) \/ DeleteTile(w) \/ RenderTile(w) \/ AwaitChunk(w)
                  \/ RejectTile(w) \/ BeginRender(w) \/ Draw(w) \/ TileFails(w) \/ WriteState(w)
       PROVE  UNCHANGED <<over, cancelled, hashes, actions, layout, force, scannedAt, passes>>
  BY <1>11 DEF taskVars, history, KeepTile, DeleteTile, RenderTile, AwaitChunk, RejectTile,
       BeginRender, Draw, TileFails, WriteState
<1>12. ASSUME NEW c \in Chunk, Modify(c) \/ DeleteChunk(c) \/ ReadElsewhere(c) \/ ReadChunk(c)
                  \/ PublishChunk(c) \/ Expire(c)
       PROVE  UNCHANGED <<over, cancelled, hashes, actions, layout, force, scannedAt, passes>>
  BY <1>12 DEF taskVars, history, Modify, DeleteChunk, ReadElsewhere, ReadChunk,
       PublishChunk, Expire
<1>13. ASSUME NEW w \in Worker, EnterWork(w) \/ Refuse(w) \/ Warm(w)
       PROVE  UNCHANGED <<over, cancelled, hashes, actions, layout, force, scannedAt, passes>>
  BY <1>13 DEF taskVars, history, EnterWork, Refuse, Warm
<1>14. CASE NeighbourScan \/ UNCHANGED vars
  BY <1>14 DEF taskVars, history, NeighbourScan, vars
<1>15. ASSUME NEW w \in Worker, Claim(w)
       PROVE  PlanOK'
  BY <1>8, <1>15 DEF Claim
<1> QED
  BY NextActions, <1>3, <1>4, <1>5, <1>6, <1>7, <1>9, <1>10, <1>11, <1>12, <1>13, <1>14, <1>15

\* Whoever is on a tile has a plan for it.
LEMMA PlanOfTile ==
    ASSUME PlanOK, CallsOK, CursorInPlace, NEW w \in OnTile
    PROVE  tile[w] \in Tile /\ Planning(w) \in [action : Action, state : TileState]
<1>1. w \in Worker /\ actions # NoActions
  BY DEF OnTile, CursorInPlace
<1> QED
  BY <1>1 DEF PlanOK, CallsOK, Planning

\* The image of a tile has its type again.
LEMMA StoredImage ==
    ASSUME NEW t \in Tile, NEW new, Stored(t, new), DOMAIN image = Tile,
           \A u \in Tile : image[u] = NoImage \/ image[u] \in [Footprint[u] -> Stamp \cup {Errored}],
           new = NoImage \/ new \in [Footprint[t] -> Stamp \cup {Errored}]
    PROVE  /\ DOMAIN image' = Tile
           /\ \A u \in Tile : image'[u] = NoImage
                                \/ image'[u] \in [Footprint[u] -> Stamp \cup {Errored}]
BY DEF Stored

\* Tile states, hashes and hires tiles keep their types; a state is written only from
\* a result of #processTile.
LEMMA StoredStep ==
    WorldOK /\ CacheOK /\ StoredOK /\ PlanOK /\ CallsOK /\ CursorInPlace /\ [Next]_vars => StoredOK'
<1> SUFFICES ASSUME WorldOK, CacheOK, StoredOK, PlanOK, CallsOK, CursorInPlace, [Next]_vars
             PROVE  StoredOK'
  OBVIOUS
<1>1. /\ Own' = Own /\ Tile' = Tile /\ Stamp' = Stamp /\ Footprint' = Footprint
  BY SettingStays
<1>2. MaxClock \in Nat /\ Stamp = 0..MaxClock /\ \A t \in Tile : Footprint[t] \subseteq Chunk
  BY SettingFacts DEF WorldOK, Stamp
<1> USE <1>1 DEF StoredOK
<1>3. ASSUME NEW w \in Worker, NEW s \in TileState, Settled(w, s)
      PROVE  result' \in [Worker -> TileState]
  BY <1>3 DEF Settled
<1>4. ASSUME NEW w \in Worker, KeepTile(w)
      PROVE  StoredOK'
  <2>1. Planning(w).state \in TileState
    BY <1>4, PlanOfTile DEF KeepTile, OnTile
  <2> QED
    BY <1>3, <1>4, <2>1 DEF KeepTile, storedVars
<1>5. ASSUME NEW w \in Worker, DeleteTile(w)
      PROVE  StoredOK'
  <2>1. tile[w] \in Tile /\ Planning(w).state \in TileState
    BY <1>5, PlanOfTile DEF DeleteTile, OnTile
  <2>2. Stored(tile[w], NoImage)
    BY <1>5 DEF DeleteTile, Unrender
  <2>3. /\ DOMAIN image' = Tile
        /\ \A u \in Tile : image'[u] = NoImage \/ image'[u] \in [Footprint[u] -> Stamp \cup {Errored}]
    BY ONLY <2>1, <2>2, StoredOK, StoredImage DEF StoredOK
  <2> QED
    BY <1>3, <1>5, <2>1, <2>3 DEF DeleteTile
<1>6. ASSUME NEW w \in Worker, RejectTile(w)
      PROVE  StoredOK'
  <2>1. tile[w] \in Tile
    BY DEF CallsOK
  <2>2. \E s \in TileState : Settled(w, s)
    BY <1>6 DEF RejectTile, TileState
  <2>3. Stored(tile[w], NoImage)
    BY <1>6 DEF RejectTile, Unrender
  <2>4. /\ DOMAIN image' = Tile
        /\ \A u \in Tile : image'[u] = NoImage \/ image'[u] \in [Footprint[u] -> Stamp \cup {Errored}]
    BY ONLY <2>1, <2>3, StoredOK, StoredImage DEF StoredOK
  <2> QED
    BY <1>3, <1>6, <2>2, <2>4 DEF RejectTile
<1>7. ASSUME NEW w \in Worker, Draw(w)
      PROVE  StoredOK'
  <2>1. tile[w] \in Tile /\ Planning(w).state \in TileState
    BY <1>7, PlanOfTile DEF Draw, OnTile
  <2>2. Stored(tile[w], Seen(tile[w]))
    BY <1>7 DEF Draw
  <2>3. Seen(tile[w]) \in [Footprint[tile[w]] -> Stamp \cup {Errored}]
    BY <1>2, <2>1 DEF Seen, CacheOK
  <2>4. /\ DOMAIN image' = Tile
        /\ \A u \in Tile : image'[u] = NoImage \/ image'[u] \in [Footprint[u] -> Stamp \cup {Errored}]
    BY ONLY <2>1, <2>2, <2>3, StoredOK, StoredImage DEF StoredOK
  <2> QED
    BY <1>3, <1>7, <2>1, <2>4 DEF Draw
<1>8. ASSUME NEW w \in Worker, TileFails(w)
      PROVE  StoredOK'
  <2>1. StateOnFailure(w) \in TileState
    BY DEF StateOnFailure, TileState
  <2> QED
    BY <1>3, <1>8, <2>1 DEF TileFails, storedVars
<1>9. ASSUME NEW w \in Worker, WriteState(w)
      PROVE  StoredOK'
  BY <1>9 DEF WriteState
<1>10. ASSUME NEW w \in Worker, Complete(w)
       PROVE  StoredOK'
  <2>1. known' \in [Own -> Stamp]
    BY <1>10 DEF Complete, RecordedHashes, PlanOK
  <2>2. listed' \in BOOLEAN
    BY <1>10 DEF Complete
  <2> QED
    BY <1>10, <2>1, <2>2 DEF Complete
<1>11. CASE UNCHANGED <<known, listed, state, image, result>>
  BY <1>11
<1>12. \/ UNCHANGED <<known, listed, state, image, result>>
       \/ \E w \in Worker :
            \/ KeepTile(w) \/ DeleteTile(w) \/ RejectTile(w) \/ Draw(w) \/ TileFails(w)
            \/ WriteState(w) \/ Complete(w)
  BY NextActions DEF vars, storedVars, callVars, Modify, DeleteChunk, ReadElsewhere, ReadChunk,
       PublishChunk, Expire, NeighbourScan, NewTask, Cancel, EnterWork, Refuse, ListChunks,
       ListFails, Scan, Warm, Claim, ClaimTile, RenderTile, AwaitChunk, BeginRender
<1> QED
  BY <1>4, <1>5, <1>6, <1>7, <1>8, <1>9, <1>10, <1>11, <1>12
-----------------------------------------------------------------------------
(* The claim chain and the cursor *)

\* A call that waits for nothing may join the chain.
LEMMA JoinChain ==
    ASSUME NEW q \in Seq(Worker), IsInjective(q), NEW w \in Worker, w \notin Range(q)
    PROVE  /\ Append(q, w) \in Seq(Worker)
           /\ IsInjective(Append(q, w))
           /\ Range(Append(q, w)) = Range(q) \cup {w}
           /\ q # << >> => Append(q, w) # << >> /\ Head(Append(q, w)) = Head(q)
<1>1. /\ Append(q, w) \in Seq(Worker)
      /\ Len(Append(q, w)) = Len(q) + 1
      /\ \A i \in 1..Len(q) : Append(q, w)[i] = q[i]
      /\ Append(q, w)[Len(q) + 1] = w
  BY AppendProperties
<1>2. Len(q) \in Nat /\ DOMAIN q = 1..Len(q) /\ DOMAIN Append(q, w) = 1..Len(q) + 1
  BY <1>1
<1>3. \A i \in 1..Len(q) : q[i] # w
  BY <1>2 DEF Range
<1>4. IsInjective(Append(q, w))
  BY <1>1, <1>2, <1>3 DEF IsInjective
<1>5. Range(Append(q, w)) = Range(q) \cup {w}
  BY <1>1, <1>2 DEF Range
<1> QED
  BY <1>1, <1>4, <1>5, HeadTailAppend

\* The first of the chain may leave it.
LEMMA LeaveChain ==
    ASSUME NEW q \in Seq(Worker), IsInjective(q), q # << >>
    PROVE  /\ Tail(q) \in Seq(Worker)
           /\ IsInjective(Tail(q))
           /\ Range(Tail(q)) = Range(q) \ {Head(q)}
<1>1. /\ Tail(q) \in Seq(Worker)
      /\ Len(Tail(q)) = Len(q) - 1
      /\ \A i \in 1..Len(q) - 1 : Tail(q)[i] = q[i + 1]
      /\ Head(q) = q[1]
  BY HeadTailProperties
<1>2. /\ Len(q) \in Nat \ {0}
      /\ DOMAIN q = 1..Len(q)
      /\ DOMAIN Tail(q) = 1..Len(q) - 1
  BY <1>1, EmptySeq
<1>3. IsInjective(Tail(q))
  BY <1>1, <1>2 DEF IsInjective
<1>4. Range(Tail(q)) \subseteq Range(q) \ {Head(q)}
  BY <1>1, <1>2 DEF Range, IsInjective
<1>5. ASSUME NEW v \in Range(q) \ {Head(q)}
      PROVE  v \in Range(Tail(q))
  <2>1. PICK i \in 1..Len(q) : q[i] = v
    BY <1>2 DEF Range
  <2>2. i - 1 \in 1..Len(q) - 1 /\ Tail(q)[i - 1] = v
    BY <1>1, <1>2, <1>5, <2>1
  <2> QED
    BY <1>2, <2>2 DEF Range
<1> QED
  BY <1>1, <1>3, <1>4, <1>5

\* A call on its tile goes from one await to the next.
MovesOnTile(w) ==
    /\ pc[w] \in {"tile", "preload", "render"}
    /\ \E p \in {"preload", "render", "write"} : pc' = [pc EXCEPT ![w] = p]
    /\ UNCHANGED <<cursor, atWork, over, actions, chain, tile, done>>

\* What the steps do to the claims.
LEMMA ControlSteps ==
    ASSUME [Next]_vars
    PROVE  \/ UNCHANGED <<cursor, atWork, over, actions, chain, pc, tile, done>>
           \/ NewTask
           \/ \E w \in Worker :
                \/ EnterWork(w) \/ Refuse(w) \/ ListChunks(w) \/ ListFails(w) \/ Scan(w)
                \/ Warm(w) \/ Claim(w) \/ MovesOnTile(w) \/ WriteState(w) \/ Complete(w)
<1>1. ASSUME NEW c \in Chunk, Modify(c) \/ DeleteChunk(c) \/ ReadElsewhere(c) \/ ReadChunk(c)
                  \/ PublishChunk(c) \/ Expire(c)
      PROVE  UNCHANGED <<cursor, atWork, over, actions, chain, pc, tile, done>>
  BY <1>1 DEF taskVars, callVars, history, Modify, DeleteChunk, ReadElsewhere, ReadChunk,
       PublishChunk, Expire
<1>2. CASE NeighbourScan \/ Cancel \/ UNCHANGED vars
  BY <1>2 DEF taskVars, callVars, history, NeighbourScan, Cancel, vars
<1>3. ASSUME NEW w \in Worker, AwaitChunk(w)
      PROVE  UNCHANGED <<cursor, atWork, over, actions, chain, pc, tile, done>>
  BY <1>3 DEF taskVars, history, AwaitChunk
<1>4. ASSUME NEW w \in Worker, KeepTile(w) \/ DeleteTile(w) \/ RenderTile(w)
                  \/ RejectTile(w) \/ BeginRender(w) \/ Draw(w) \/ TileFails(w)
      PROVE  MovesOnTile(w)
  BY <1>4 DEF taskVars, history, KeepTile, DeleteTile, RenderTile, RejectTile,
       BeginRender, Draw, TileFails, Settled, MovesOnTile
<1> QED
  BY NextActions, <1>1, <1>2, <1>3, <1>4

\* What is in hand stays there.
LEMMA HandsKept ==
    ASSUME HandedOut, OnTile' = OnTile, \A w \in OnTile : tile'[w] = tile[w],
           done' = done, cursor' = cursor, atWork' = atWork, Tile' = Tile
    PROVE  HandedOut'
BY DEF HandedOut, InHand

\* With the first tile to be claimed nobody is on one.
LEMMA NobodyBeforeTheFirst ==
    ASSUME WorldOK, CallsOK, HandedOut, cursor = 1
    PROVE  OnTile = {}
<1>1. ASSUME NEW w \in OnTile PROVE FALSE
  <2>1. w \in Worker /\ tile[w] \in Tile
    BY DEF OnTile, CallsOK
  <2>2. InHand(tile[w])
    BY DEF InHand
  <2>3. tile[w] < 1
    BY <2>1, <2>2 DEF HandedOut
  <2> QED
    BY <2>1, <2>3, SettingFacts DEF WorldOK
<1> QED
  BY <1>1

\* Whoever is on a tile has one that the cursor has passed.
LEMMA TileInHandPassed ==
    ASSUME CallsOK, HandedOut, NEW w \in OnTile
    PROVE  tile[w] \in Tile /\ tile[w] < cursor /\ tile[w] \notin done
<1>1. w \in Worker /\ tile[w] \in Tile
  BY DEF OnTile, CallsOK
<1>2. InHand(tile[w])
  BY DEF InHand
<1> QED
  BY <1>1, <1>2 DEF HandedOut

\* A claim is settled: the call that has its turn leaves the chain, and nobody else
\* was in #init.
LEMMA ClaimLeaves ==
    ASSUME CallsOK, ChainOfClaims, InitAtHead, NEW w \in Worker, ItsTurn(w), ClaimSettled(w),
           NEW p, ~Waits(p), ~Inits(p), pc' = [pc EXCEPT ![w] = p]
    PROVE  /\ chain' \in Seq(Worker) /\ ChainOfClaims'
           /\ \A v \in Worker : ~Inits(pc'[v])
<1>1. chain \in Seq(Worker) /\ IsInjective(chain) /\ chain # << >> /\ Head(chain) = w
  BY DEF CallsOK, ChainOfClaims, ItsTurn
<1>2. /\ chain' \in Seq(Worker) /\ IsInjective(chain')
      /\ Range(chain') = Range(chain) \ {w}
  BY <1>1, LeaveChain DEF ClaimSettled
<1>3. \A v \in Worker : pc'[v] = IF v = w THEN p ELSE pc[v]
  BY DEF CallsOK
<1>4. \A v \in Worker : Waits(pc'[v]) <=> v \in Range(chain')
  BY <1>2, <1>3 DEF ChainOfClaims
<1>5. ASSUME NEW v \in Worker, v # w PROVE ~Inits(pc[v])
  BY <1>1, <1>5 DEF InitAtHead
<1> QED
  BY <1>2, <1>3, <1>4, <1>5 DEF ChainOfClaims

\* A call enters: it joins the chain and holds no tile.
LEMMA EnterControl ==
    ASSUME WorldOK, Control, Tile' = Tile, TileCount' = TileCount,
           NEW w \in Worker, EnterWork(w)
    PROVE  Control'
<1> USE DEF Control
<1>1. /\ \A v \in Worker : pc'[v] = IF v = w THEN "claim" ELSE pc[v]
      /\ pc[w] = "out" /\ chain' = Append(chain, w)
      /\ UNCHANGED <<cursor, atWork, over, actions, tile, done>>
  BY DEF EnterWork, CallsOK, taskVars, history
<1>2. w \notin Range(chain)
  BY <1>1 DEF ChainOfClaims, Waits
<1>3. /\ chain' \in Seq(Worker) /\ IsInjective(chain')
      /\ Range(chain') = Range(chain) \cup {w}
      /\ chain # << >> => chain' # << >> /\ Head(chain') = Head(chain)
  BY <1>1, <1>2, JoinChain DEF CallsOK, ChainOfClaims
<1>4. OnTile' = OnTile
  BY <1>1 DEF OnTile
<1>5. CallsOK'
  BY <1>1, <1>3 DEF EnterWork, CallsOK, CallPc
<1>6. ChainOfClaims'
  BY <1>1, <1>3 DEF ChainOfClaims, Waits
<1>7. InitAtHead'
  BY <1>1, <1>3 DEF InitAtHead, Inits
<1>8. HandedOut'
  BY <1>1, <1>4, HandsKept
<1>9. CursorInPlace' /\ LastToLeave'
  BY <1>1, <1>4 DEF CursorInPlace, LastToLeave
<1> QED
  BY <1>5, <1>6, <1>7, <1>8, <1>9

\* A claim is refused, or fails with the listing.
LEMMA RefuseControl ==
    ASSUME WorldOK, Control, Tile' = Tile, TileCount' = TileCount,
           NEW w \in Worker, Refuse(w) \/ ListFails(w)
    PROVE  Control'
<1> USE DEF Control
<1>1. /\ ItsTurn(w) /\ ClaimSettled(w) /\ pc' = [pc EXCEPT ![w] = "out"]
      /\ pc[w] \in {"claim", "inited"}
      /\ UNCHANGED <<cursor, atWork, over, actions, tile, done>>
  BY DEF Refuse, ListFails, taskVars, history
<1>2. \A v \in Worker : pc'[v] = IF v = w THEN "out" ELSE pc[v]
  BY <1>1 DEF CallsOK
<1>3. OnTile' = OnTile
  BY <1>1, <1>2 DEF OnTile
<1>4. /\ chain' \in Seq(Worker) /\ ChainOfClaims'
      /\ \A v \in Worker : ~Inits(pc'[v])
  <2>1. ~Waits("out") /\ ~Inits("out")
    BY DEF Waits, Inits
  <2> QED
    BY <1>1, <2>1, ClaimLeaves
<1>5. CallsOK' /\ InitAtHead'
  BY <1>1, <1>4 DEF CallsOK, CallPc, InitAtHead
<1>6. HandedOut'
  BY <1>1, <1>3, HandsKept
<1>7. CursorInPlace' /\ LastToLeave'
  BY <1>1, <1>2, <1>3 DEF CursorInPlace, LastToLeave
<1> QED
  BY <1>4, <1>5, <1>6, <1>7

\* #init goes on, with the first tile before it.
LEMMA InitControl ==
    ASSUME WorldOK, PlanOK, Control, Tile' = Tile, TileCount' = TileCount,
           NEW w \in Worker, ListChunks(w) \/ Scan(w) \/ Warm(w), over' \in BOOLEAN
    PROVE  Control'
<1> USE DEF Control
<1>0. TileCount \in Nat \ {0} /\ Tile = 1..TileCount
  BY SettingFacts DEF WorldOK
<1>1. /\ cursor = 1 /\ chain # << >> /\ Head(chain) = w
      /\ pc[w] \in {"claim", "scan", "warm"}
      /\ UNCHANGED <<cursor, atWork, chain, done>>
  BY DEF ListChunks, Scan, Warm, ItsTurn, taskVars, history, InitAtHead, Inits
<1>2. PICK q \in {"scan", "warm", "inited"} : pc' = [pc EXCEPT ![w] = q]
  BY DEF ListChunks, Scan, Warm
<1>3. \A v \in Worker : pc'[v] = IF v = w THEN q ELSE pc[v]
  BY <1>2 DEF CallsOK
<1>4. tile' \in [Worker -> Tile] /\ tile'[w] = 1 /\ \A v \in Worker \ {w} : tile'[v] = tile[v]
  <2>1. CASE ListChunks(w)
    BY <1>0, <1>1, <2>1 DEF ListChunks, CallsOK
  <2>2. CASE Scan(w) \/ Warm(w)
    BY <1>1, <2>2 DEF Scan, Warm, InitAtHead, Inits, CallsOK
  <2> QED
    BY <2>1, <2>2
<1>5. OnTile = {}
  BY <1>1, NobodyBeforeTheFirst
<1>6. OnTile' = {}
  BY <1>1, <1>3, <1>5 DEF OnTile
<1>7. CallsOK'
  BY <1>1, <1>2, <1>4 DEF CallsOK, CallPc
<1>8. ChainOfClaims'
  BY <1>1, <1>3 DEF ChainOfClaims, Waits
<1>9. InitAtHead'
  <2>1. q # "scan" => actions' # NoActions
    <3>1. CASE ListChunks(w)
      BY <1>2, <3>1 DEF ListChunks, CallsOK
    <3>2. CASE Scan(w)
      <4>1. DOMAIN actions' = Tile /\ 1 \in Tile
        BY <1>0, <3>2 DEF Scan
      <4>2. DOMAIN NoActions = {}
        BY DEF NoActions
      <4> QED
        BY <4>1, <4>2
    <3>3. CASE Warm(w)
      BY <3>3 DEF Warm, InitAtHead, Inits, taskVars
    <3> QED
      BY <3>1, <3>2, <3>3
  <2>2. \A v \in Worker \ {w} : ~Inits(pc[v])
    BY <1>1 DEF InitAtHead
  <2> QED
    BY <1>1, <1>3, <1>4, <2>1, <2>2 DEF InitAtHead, Inits
<1>10. HandedOut'
  BY <1>1, <1>5, <1>6, HandsKept
<1>11. CursorInPlace'
  BY <1>0, <1>1, <1>6 DEF CursorInPlace
<1>12. LastToLeave'
  BY <1>0, <1>1, <1>3 DEF LastToLeave
<1> QED
  BY <1>7, <1>8, <1>9, <1>10, <1>11, <1>12

\* A new task: nobody is inside.
LEMMA NewTaskControl ==
    ASSUME WorldOK, Control, Tile' = Tile, TileCount' = TileCount, NewTask
    PROVE  Control'
<1> USE DEF Control
<1>0. TileCount \in Nat \ {0} /\ Tile = 1..TileCount
  BY SettingFacts DEF WorldOK
<1>1. /\ \A w \in Worker : pc[w] = "out"
      /\ cursor' = 1 /\ atWork' = 0 /\ over' = FALSE /\ actions' = NoActions /\ done' = {}
      /\ UNCHANGED <<chain, pc, tile>>
  BY DEF NewTask, callVars
<1>2. OnTile' = {}
  BY <1>1 DEF OnTile
<1>3. CallsOK'
  BY <1>0, <1>1 DEF CallsOK
<1>4. ChainOfClaims' /\ InitAtHead' /\ LastToLeave'
  BY <1>1 DEF ChainOfClaims, InitAtHead, Inits, LastToLeave
<1>5. HandedOut'
  BY <1>0, <1>1, <1>2, FS_EmptySet DEF HandedOut, InHand
<1>6. CursorInPlace'
  BY <1>0, <1>1, <1>2 DEF CursorInPlace
<1> QED
  BY <1>3, <1>4, <1>5, <1>6

\* A tile is claimed: it is the one at the cursor.
LEMMA ClaimControl ==
    ASSUME WorldOK, Control, Tile' = Tile, TileCount' = TileCount, NEW w \in Worker, Claim(w)
    PROVE  Control'
<1> USE DEF Control
<1>0. TileCount \in Nat \ {0} /\ Tile = 1..TileCount
  BY SettingFacts DEF WorldOK
<1>1. /\ ClaimTile(w, cursor) /\ pc[w] \in {"claim", "inited"}
      /\ actions # NoActions
  <2>1. ASSUME NEW t, ClaimTile(w, t) PROVE ~over
    BY <2>1 DEF ClaimTile, HasMoreWork
  <2> QED
    BY <2>1 DEF Claim, InitAtHead, Inits, CursorInPlace
<1>2. /\ ItsTurn(w) /\ ClaimSettled(w) /\ ~over /\ pc' = [pc EXCEPT ![w] = "tile"]
      /\ cursor' = cursor + 1 /\ over' = (cursor >= TileCount) /\ atWork' = atWork + 1
      /\ tile' = [tile EXCEPT ![w] = cursor]
      /\ UNCHANGED <<actions, done>>
  BY <1>1 DEF ClaimTile, HasMoreWork, LastTile, history
<1>3. cursor \in 1..TileCount
  BY <1>0, <1>2 DEF CursorInPlace, CallsOK
<1>4. /\ \A v \in Worker : pc'[v] = IF v = w THEN "tile" ELSE pc[v]
      /\ \A v \in Worker : tile'[v] = IF v = w THEN cursor ELSE tile[v]
  BY <1>2 DEF CallsOK
<1>5. OnTile' = OnTile \cup {w} /\ w \notin OnTile
  BY <1>1, <1>4 DEF OnTile
<1>6. /\ chain' \in Seq(Worker) /\ ChainOfClaims'
      /\ \A v \in Worker : ~Inits(pc'[v])
  <2>1. ~Waits("tile") /\ ~Inits("tile")
    BY DEF Waits, Inits
  <2> QED
    BY <1>2, <2>1, ClaimLeaves
<1>7. CallsOK'
  BY <1>0, <1>2, <1>3, <1>6 DEF CallsOK, CallPc
<1>8. InitAtHead'
  BY <1>6 DEF InitAtHead
<1>9. HandedOut'
  <2>1. \A v \in OnTile : tile[v] \in Tile /\ tile[v] < cursor /\ tile'[v] = tile[v]
    BY <1>4, <1>5, TileInHandPassed DEF OnTile
  <2>2. \A t \in Tile : InHand(t)' <=> InHand(t) \/ t = cursor
    BY <1>4, <1>5, <2>1 DEF InHand
  <2>3. \A t \in done : t \in Tile /\ t < cursor
    BY DEF HandedOut, CallsOK
  <2>4. \A u, v \in OnTile' : u # v => tile'[u] # tile'[v]
    BY <1>3, <1>4, <1>5, <2>1 DEF HandedOut
  <2>5. \A t \in done' : ~InHand(t)'
    BY <1>0, <1>2, <1>3, <2>2, <2>3 DEF HandedOut
  <2>6. \A t \in Tile : t \in done' \/ InHand(t)' <=> t < cursor'
    BY <1>0, <1>2, <1>3, <2>2 DEF HandedOut
  <2>7. atWork' = Cardinality(OnTile')
    <3>1. IsFiniteSet(OnTile)
      BY RegionAssumption, FS_Subset DEF OnTile
    <3> QED
      BY <1>2, <1>5, <3>1, FS_AddElement DEF HandedOut
  <2> QED
    BY <2>4, <2>5, <2>6, <2>7 DEF HandedOut
<1>10. CursorInPlace'
  <2>1. actions' # NoActions
    BY <1>1, <1>2
  <2>2. over' <=> cursor >= TileCount
    BY <1>2
  <2>3. ~over' => cursor' <= TileCount
    BY ONLY <1>0, <1>2, <1>3, <2>2
  <2>4. over' => cursor' = TileCount + 1
    BY ONLY <1>0, <1>2, <1>3, <2>2
  <2> QED
    BY <2>1, <2>3, <2>4 DEF CursorInPlace
<1>11. LastToLeave'
  BY <1>2, <1>4 DEF LastToLeave
<1> QED
  BY <1>6, <1>7, <1>8, <1>9, <1>10, <1>11

\* A call on its tile goes on: nothing changes hands.
LEMMA MoveControl ==
    ASSUME WorldOK, Control, Tile' = Tile, TileCount' = TileCount,
           NEW w \in Worker, MovesOnTile(w)
    PROVE  Control'
<1> USE DEF Control
<1>1. PICK p \in {"preload", "render", "write"} : pc' = [pc EXCEPT ![w] = p]
  BY DEF MovesOnTile
<1>2. /\ \A v \in Worker : pc'[v] = IF v = w THEN p ELSE pc[v]
      /\ pc[w] \in {"tile", "preload", "render"}
      /\ UNCHANGED <<cursor, atWork, over, actions, chain, tile, done>>
  BY <1>1 DEF MovesOnTile, CallsOK
<1>3. OnTile' = OnTile
  BY <1>2 DEF OnTile
<1>4. CallsOK'
  BY <1>1, <1>2 DEF CallsOK, CallPc
<1>5. ChainOfClaims' /\ InitAtHead'
  BY <1>2 DEF ChainOfClaims, Waits, InitAtHead, Inits
<1>6. HandedOut'
  BY <1>2, <1>3, HandsKept
<1>7. CursorInPlace' /\ LastToLeave'
  BY <1>2, <1>3 DEF CursorInPlace, LastToLeave
<1> QED
  BY <1>4, <1>5, <1>6, <1>7

\* A tile is done, and the last call to leave completes the region.
LEMMA WriteControl ==
    ASSUME WorldOK, Control, Tile' = Tile, TileCount' = TileCount,
           NEW w \in Worker, WriteState(w)
    PROVE  Control'
<1> USE DEF Control
<1>0. TileCount \in Nat \ {0} /\ Tile = 1..TileCount
  BY SettingFacts DEF WorldOK
<1>1. /\ pc[w] = "write" /\ done' = done \cup {tile[w]} /\ atWork' = atWork - 1
      /\ UNCHANGED <<cursor, over, actions, chain, tile>>
  BY DEF WriteState
<1>2. PICK p \in {"complete", "out"} :
        /\ pc' = [pc EXCEPT ![w] = p]
        /\ p = "complete" => atWork - 1 <= 0 /\ over
  BY DEF WriteState, LastOut
<1>3. \A v \in Worker : pc'[v] = IF v = w THEN p ELSE pc[v]
  BY <1>2 DEF CallsOK
<1>4. OnTile' = OnTile \ {w} /\ w \in OnTile
  BY <1>1, <1>3 DEF OnTile
<1>5. tile[w] \in Tile /\ tile[w] < cursor
  BY <1>4, TileInHandPassed
<1>6. IsFiniteSet(OnTile) /\ IsFiniteSet(OnTile')
  BY <1>4, RegionAssumption, FS_Subset DEF OnTile
<1>7. atWork' = Cardinality(OnTile')
  BY <1>1, <1>4, <1>6, FS_RemoveElement DEF HandedOut
<1>8. CallsOK'
  BY <1>1, <1>2, <1>5 DEF CallsOK, CallPc
<1>9. ChainOfClaims' /\ InitAtHead'
  BY <1>1, <1>3 DEF ChainOfClaims, Waits, InitAtHead, Inits
<1>10. HandedOut'
  <2>1. \A t \in Tile : InHand(t) <=> InHand(t)' \/ t = tile[w]
    BY <1>1, <1>4 DEF InHand
  <2>2. ~InHand(tile[w])'
    BY <1>1, <1>4 DEF InHand, HandedOut
  <2>3. \A t \in done' : ~InHand(t)'
    BY <1>1, <2>1, <2>2 DEF HandedOut, CallsOK
  <2>4. \A t \in Tile : t \in done' \/ InHand(t)' <=> t < cursor'
    BY <1>1, <1>5, <2>1 DEF HandedOut
  <2>5. \A u, v \in OnTile' : u # v => tile'[u] # tile'[v]
    BY <1>1, <1>4 DEF HandedOut
  <2> QED
    BY <1>7, <2>3, <2>4, <2>5 DEF HandedOut
<1>11. CursorInPlace'
  BY <1>1, <1>4 DEF CursorInPlace
<1>12. LastToLeave'
  <2>1. \A v \in Worker \ {w} : pc[v] # "complete"
    BY <1>4 DEF LastToLeave
  <2>2. ASSUME p = "complete"
        PROVE  over /\ cursor = TileCount + 1 /\ OnTile' = {}
    <3>1. Cardinality(OnTile') \in Nat /\ Cardinality(OnTile') <= 0
      BY <1>1, <1>2, <1>6, <1>7, <2>2, FS_CardinalityType
    <3>2. Cardinality(OnTile') = 0
      BY <3>1
    <3>3. OnTile' = {}
      BY <1>6, <3>2, FS_EmptySet
    <3>4. over /\ cursor # 1
      BY <1>0, <1>2, <1>5, <2>2
    <3> QED
      BY <3>3, <3>4 DEF CursorInPlace
  <2> QED
    BY <1>1, <1>3, <2>1, <2>2 DEF LastToLeave
<1> QED
  BY <1>8, <1>9, <1>10, <1>11, <1>12

\* The region is completed.
LEMMA CompleteControl ==
    ASSUME WorldOK, Control, Tile' = Tile, TileCount' = TileCount,
           NEW w \in Worker, Complete(w)
    PROVE  Control'
<1> USE DEF Control
<1>0. TileCount \in Nat \ {0}
  BY SettingFacts DEF WorldOK
<1>1. /\ pc[w] = "complete" /\ pc' = [pc EXCEPT ![w] = "out"]
      /\ UNCHANGED <<cursor, atWork, over, chain, tile, done>>
  BY DEF Complete, history
<1>2. over /\ cursor = TileCount + 1 /\ OnTile = {}
  BY <1>1 DEF LastToLeave
<1>3. \A v \in Worker : pc'[v] = IF v = w THEN "out" ELSE pc[v]
  BY <1>1 DEF CallsOK
<1>4. OnTile' = {}
  BY <1>2, <1>3 DEF OnTile
<1>5. CallsOK'
  BY <1>1 DEF CallsOK, CallPc
<1>6. ChainOfClaims'
  BY <1>1, <1>3 DEF ChainOfClaims, Waits
<1>7. InitAtHead'
  BY <1>0, <1>1, <1>2, <1>3 DEF InitAtHead, Inits
<1>8. HandedOut'
  BY <1>1, <1>2, <1>4, HandsKept
<1>9. CursorInPlace' /\ LastToLeave'
  BY <1>1, <1>2, <1>3, <1>4 DEF CursorInPlace, LastToLeave
<1> QED
  BY <1>5, <1>6, <1>7, <1>8, <1>9

\* Every step keeps the claims and the hands in order.
LEMMA ControlStep == WorldOK /\ StoredOK /\ PlanOK /\ Control /\ [Next]_vars => Control'
<1> SUFFICES ASSUME WorldOK, StoredOK, PlanOK, Control, [Next]_vars PROVE Control'
  OBVIOUS
<1>1. Tile' = Tile /\ TileCount' = TileCount
  BY SettingStays
<1>2. CASE UNCHANGED <<cursor, atWork, over, actions, chain, pc, tile, done>>
  <2>1. OnTile' = OnTile
    BY <1>2 DEF OnTile
  <2>2. HandedOut'
    BY <1>1, <1>2, <2>1, HandsKept DEF Control
  <2>3. CallsOK' /\ ChainOfClaims' /\ InitAtHead'
    BY <1>1, <1>2 DEF Control, CallsOK, ChainOfClaims, InitAtHead
  <2>4. CursorInPlace' /\ LastToLeave'
    BY <1>1, <1>2, <2>1 DEF Control, CursorInPlace, LastToLeave
  <2> QED
    BY <2>2, <2>3, <2>4 DEF Control
<1>3. CASE NewTask
  BY <1>1, <1>3, NewTaskControl
<1>4. ASSUME NEW w \in Worker, EnterWork(w) PROVE Control'
  BY <1>1, <1>4, EnterControl
<1>5. ASSUME NEW w \in Worker, Refuse(w) \/ ListFails(w) PROVE Control'
  BY <1>1, <1>5, RefuseControl
<1>6. ASSUME NEW w \in Worker, ListChunks(w) \/ Scan(w) \/ Warm(w) PROVE Control'
  <2>1. over' \in BOOLEAN
    BY PlanStep DEF PlanOK
  <2> QED
    BY <1>1, <1>6, <2>1, InitControl
<1>7. ASSUME NEW w \in Worker, Claim(w) PROVE Control'
  BY <1>1, <1>7, ClaimControl
<1>8. ASSUME NEW w \in Worker, MovesOnTile(w) PROVE Control'
  BY <1>1, <1>8, MoveControl
<1>9. ASSUME NEW w \in Worker, WriteState(w) PROVE Control'
  BY <1>1, <1>9, WriteControl
<1>10. ASSUME NEW w \in Worker, Complete(w) PROVE Control'
  BY <1>1, <1>10, CompleteControl
<1> QED
  BY ControlSteps, <1>2, <1>3, <1>4, <1>5, <1>6, <1>7, <1>8, <1>9, <1>10
-----------------------------------------------------------------------------
(* What the states tell *)

\* Nobody else is on the tile of a call.
LEMMA AloneOnTile ==
    ASSUME Control, NEW w \in OnTile
    PROVE  /\ tile[w] \in Tile /\ tile[w] \notin done /\ tile[w] < cursor
           /\ \A v \in Worker \ {w} : pc[v] = "write" => tile[v] # tile[w]
<1>1. \A v \in Worker : pc[v] = "write" => v \in OnTile
  BY DEF OnTile
<1> QED
  BY <1>1, TileInHandPassed DEF Control, HandedOut

\* A call on its tile comes to the state it is to write; of the other tiles nothing
\* changes.
SettlesTruly(w, s) ==
    /\ w \in OnTile /\ pc[w] # "write"
    /\ s \in TileState /\ Settled(w, s)
    /\ DOMAIN image' = Tile
    /\ \A t \in Tile \ {tile[w]} : image'[t] = image[t]
    /\ ~StorageErrors =>
        /\ Truthful(s, image'[tile[w]])
        /\ layout[tile[w]] = "OUTSIDE" => image'[tile[w]] = NoImage
    /\ UNCHANGED <<state, layout, actions, tile, done, over, cursor, passes>>

\* A call that settles truly leaves every stored or settled state true.
LEMMA SettledTells ==
    ASSUME WorldOK, StoredOK, Control, Tells, Tile' = Tile, StorageErrors' = StorageErrors,
           NEW w \in Worker, NEW s, SettlesTruly(w, s)
    PROVE  Tells'
<1>1. /\ \A v \in Worker : pc'[v] = IF v = w THEN "write" ELSE pc[v]
      /\ \A v \in Worker : result'[v] = IF v = w THEN s ELSE result[v]
      /\ UNCHANGED <<state, layout, actions, tile, done, over, cursor, passes>>
  BY DEF SettlesTruly, Settled, Control, CallsOK, StoredOK
<1>2. /\ tile[w] \in Tile /\ tile[w] \notin done /\ cursor # 1
      /\ \A v \in Worker \ {w} : pc[v] = "write" => tile[v] # tile[w]
  <2>1. w \in OnTile /\ cursor \in Int /\ Tile \subseteq Nat \ {0}
    BY SettingFacts DEF SettlesTruly, Control, CallsOK, WorldOK
  <2>2. /\ tile[w] \in Tile /\ tile[w] \notin done /\ tile[w] < cursor
        /\ \A v \in Worker \ {w} : pc[v] = "write" => tile[v] # tile[w]
    BY <2>1, AloneOnTile
  <2>3. tile[w] \in Nat \ {0} /\ tile[w] < cursor
    BY <2>1, <2>2
  <2>4. cursor # 1
    BY ONLY <2>1, <2>3
  <2> QED
    BY <2>2, <2>4
<1>3. PlansFit'
  BY <1>1 DEF Tells, PlansFit
<1>4. Renders'
  BY <1>1 DEF Tells, Renders, Planning
<1>5. \A v \in Worker : tile[v] \in Tile
  BY DEF Control, CallsOK
<1>6. StatesTrue'
  <2> SUFFICES ASSUME ~StorageErrors
               PROVE  /\ \A t \in Tile : (\A v \in Worker : pc'[v] = "write" => tile[v] # t) =>
                            Truthful(state[t], image'[t])
                      /\ \A v \in Worker : pc'[v] = "write" =>
                            /\ Truthful(result'[v], image'[tile[v]])
                            /\ layout[tile[v]] = "OUTSIDE" => image'[tile[v]] = NoImage
    BY <1>1 DEF StatesTrue, Truthful
  <2>1. ASSUME NEW t \in Tile, \A v \in Worker : pc'[v] = "write" => tile[v] # t
        PROVE  Truthful(state[t], image'[t])
    <3>1. t # tile[w] /\ \A v \in Worker : pc[v] = "write" => tile[v] # t
      BY <1>1, <2>1 DEF SettlesTruly
    <3> QED
      BY <3>1 DEF Tells, StatesTrue, SettlesTruly
  <2>2. ASSUME NEW v \in Worker, pc'[v] = "write"
        PROVE  /\ Truthful(result'[v], image'[tile[v]])
               /\ layout[tile[v]] = "OUTSIDE" => image'[tile[v]] = NoImage
    <3>1. CASE v = w
      BY <1>1, <3>1 DEF SettlesTruly
    <3>2. CASE v # w
      <4>1. pc[v] = "write" /\ tile[v] # tile[w] /\ result'[v] = result[v]
        BY <1>1, <1>2, <2>2, <3>2
      <4>2. image'[tile[v]] = image[tile[v]]
        BY <1>5, <4>1 DEF SettlesTruly
      <4> QED
        BY <4>1, <4>2 DEF Tells, StatesTrue
    <3> QED
      BY <3>1, <3>2
  <2> QED
    BY <2>1, <2>2
<1>7. OutsideGone'
  BY <1>1, <1>2 DEF Tells, OutsideGone, SettlesTruly
<1> QED
  BY <1>3, <1>4, <1>6, <1>7 DEF Tells

\* The plan of a tile in hand fits it, and its stored state is true.
LEMMA PlanInHand ==
    ASSUME Control, Tells, NEW w \in OnTile, pc[w] # "write"
    PROVE  /\ PlanFor(Planning(w), state[tile[w]], layout[tile[w]])
           /\ ~StorageErrors => Truthful(state[tile[w]], image[tile[w]])
<1>1. /\ tile[w] \in Tile /\ tile[w] \notin done
      /\ \A v \in Worker : pc[v] = "write" => tile[v] # tile[w]
  BY AloneOnTile
<1>2. actions # NoActions
  BY DEF Control, CursorInPlace
<1> QED
  BY <1>1, <1>2 DEF Tells, PlansFit, StatesTrue, Planning

\* Every way out of #processTile settles truly.
LEMMA WaysOut ==
    ASSUME WorldOK, CacheOK, StoredOK, PlanOK, Control, Tells, Tile' = Tile, NEW w \in Worker,
           KeepTile(w) \/ DeleteTile(w) \/ RejectTile(w) \/ Draw(w) \/ TileFails(w)
    PROVE  \E s \in TileState : SettlesTruly(w, s)
<1>1. w \in OnTile /\ pc[w] # "write" /\ pc[w] \in {"tile", "preload", "render"}
  BY DEF OnTile, KeepTile, DeleteTile, RejectTile, Draw, TileFails
<1>2. /\ PlanFor(Planning(w), state[tile[w]], layout[tile[w]])
      /\ ~StorageErrors => Truthful(state[tile[w]], image[tile[w]])
  BY <1>1, PlanInHand
<1>3. tile[w] \in Tile /\ Planning(w).state \in TileState /\ DOMAIN image = Tile
  BY <1>1, PlanOfTile DEF Control, StoredOK
<1>4. UNCHANGED <<state, layout, actions, tile, done, over, cursor, passes>>
  BY DEF KeepTile, DeleteTile, RejectTile, Draw, TileFails, storedVars, taskVars, history
<1>5. pc[w] \in {"preload", "render"} => layout[tile[w]] # "OUTSIDE"
  BY <1>2 DEF Tells, Renders, PlanFor
<1>6. ASSUME NEW new, Stored(tile[w], new)
      PROVE  /\ DOMAIN image' = Tile
             /\ \A t \in Tile \ {tile[w]} : image'[t] = image[t]
             /\ ~StorageErrors => image'[tile[w]] = new
  BY <1>3, <1>6 DEF Stored
<1>7. CASE KeepTile(w)
  <2>1. Settled(w, Planning(w).state) /\ image' = image /\ Planning(w).action = "NONE"
    BY <1>7 DEF KeepTile, storedVars
  <2>2. ~StorageErrors => Truthful(Planning(w).state, image[tile[w]])
    BY <1>2, <2>1 DEF PlanFor
  <2>3. ~StorageErrors /\ layout[tile[w]] = "OUTSIDE" => image[tile[w]] = NoImage
    BY <1>2, <2>1 DEF PlanFor, Truthful
  <2>4. SettlesTruly(w, Planning(w).state)
    BY <1>1, <1>3, <1>4, <2>1, <2>2, <2>3 DEF SettlesTruly
  <2> QED
    BY <1>3, <2>4
<1>8. CASE DeleteTile(w)
  <2>1. /\ Settled(w, Planning(w).state) /\ Stored(tile[w], NoImage)
        /\ Planning(w).state = "OUT_OF_BOUNDS"
    BY <1>2, <1>8 DEF DeleteTile, Unrender, PlanFor
  <2>2. SettlesTruly(w, Planning(w).state)
    BY <1>1, <1>3, <1>4, <1>6, <2>1 DEF SettlesTruly, Truthful
  <2> QED
    BY <1>3, <2>2
<1>9. CASE RejectTile(w)
  <2>1. PICK s \in {"CHUNK_ERROR", "NOT_GENERATED"} : Settled(w, s) /\ Stored(tile[w], NoImage)
    BY <1>9 DEF RejectTile, Unrender
  <2>2. s \in TileState
    BY <2>1 DEF TileState
  <2>3. SettlesTruly(w, s)
    BY <1>1, <1>3, <1>4, <1>6, <2>1, <2>2 DEF SettlesTruly, Truthful
  <2> QED
    BY <2>2, <2>3
<1>10. CASE Draw(w)
  <2>1. /\ Settled(w, Planning(w).state) /\ Stored(tile[w], Seen(tile[w])) /\ pc[w] = "render"
    BY <1>10 DEF Draw
  <2>2. Planning(w).state \in {"RENDERED", "RENDERED_EDGE"}
    BY <1>2, <2>1 DEF PlanFor, Tells, Renders
  <2>3. Seen(tile[w]) # NoImage
    <3>1. DOMAIN Seen(tile[w]) = Footprint[tile[w]] /\ Footprint[tile[w]] # {}
      BY <1>3, SettingFacts DEF Seen, WorldOK
    <3>2. DOMAIN NoImage = {}
      BY DEF NoImage
    <3> QED
      BY <3>1, <3>2
  <2>4. SettlesTruly(w, Planning(w).state)
    BY <1>1, <1>3, <1>4, <1>5, <1>6, <2>1, <2>2, <2>3 DEF SettlesTruly, Truthful
  <2> QED
    BY <1>3, <2>4
<1>11. CASE TileFails(w)
  <2>1. Settled(w, "RENDER_ERROR") /\ image' = image /\ pc[w] = "render"
    BY <1>11 DEF TileFails, StateOnFailure, storedVars
  <2>2. SettlesTruly(w, "RENDER_ERROR")
    BY <1>1, <1>3, <1>4, <1>5, <2>1 DEF SettlesTruly, Truthful, TileState
  <2> QED
    BY <2>2 DEF TileState
<1> QED
  BY <1>7, <1>8, <1>9, <1>10, <1>11

\* The steps that leave alone what the states are about: a call that is not on a tile
\* goes on, or one that is has still to settle.
LEMMA OffTileTells ==
    ASSUME WorldOK, Control, Tells, Tile' = Tile, StorageErrors' = StorageErrors,
           NEW w \in Worker,
           EnterWork(w) \/ Refuse(w) \/ ListFails(w) \/ ListChunks(w) \/ Warm(w) \/ Claim(w)
    PROVE  Tells'
<1>1. PICK p \in {"claim", "out", "scan", "inited", "tile"} : pc' = [pc EXCEPT ![w] = p]
  BY DEF EnterWork, Refuse, ListFails, ListChunks, Warm, Claim, ClaimTile
<1>2. /\ pc[w] \notin {"preload", "render", "write"}
      /\ \A v \in Worker : pc'[v] = IF v = w THEN p ELSE pc[v]
      /\ \A v \in Worker \ {w} : tile'[v] = tile[v]
  BY <1>1 DEF Control, CallsOK, EnterWork, Refuse, ListFails, ListChunks, Warm, Claim, ClaimTile
<1>3. UNCHANGED <<state, image, result, layout, actions, done, passes>>
  BY DEF EnterWork, Refuse, ListFails, ListChunks, Warm, Claim, ClaimTile, storedVars, taskVars, history
<1>4. PlansFit'
  BY <1>3 DEF Tells, PlansFit
<1>5. Renders'
  BY <1>1, <1>2, <1>3 DEF Tells, Renders, Planning
<1>6. StatesTrue'
  BY <1>1, <1>2, <1>3 DEF Tells, StatesTrue
<1>7. over' /\ cursor' = 1 => over /\ cursor = 1
  <2>1. CASE Claim(w)
    <3>1. cursor' # 1
      <4>1. PICK t \in {cursor, tile[w]} : ClaimTile(w, t)
        BY <2>1 DEF Claim
      <4>2. t \in Nat \ {0} /\ cursor' = t + 1
        BY <4>1, SettingFacts DEF Control, CallsOK, ClaimTile, WorldOK
      <4> QED
        BY <4>2
    <3> QED
      BY <3>1
  <2>2. CASE ~Claim(w)
    BY <2>2 DEF EnterWork, Refuse, ListFails, ListChunks, Warm, taskVars
  <2> QED
    BY <2>1, <2>2
<1>8. OutsideGone'
  BY <1>3, <1>7 DEF Tells, OutsideGone
<1> QED
  BY <1>4, <1>5, <1>6, <1>8 DEF Tells

\* Every tile gets its plan.  With nothing to do the tiles outside have no model.
LEMMA ScanTells ==
    ASSUME WorldOK, StoredOK, PlanOK, Control, Tells, Tile' = Tile, StorageErrors' = StorageErrors,
           NEW w \in Worker, Scan(w)
    PROVE  Tells'
<1>1. PICK p \in {"warm", "inited"} : pc' = [pc EXCEPT ![w] = p]
  BY DEF Scan
<1>2. /\ pc[w] = "scan" /\ \A v \in Worker : pc'[v] = IF v = w THEN p ELSE pc[v]
      /\ UNCHANGED <<state, image, result, layout, tile, done, cursor, passes>>
  BY <1>1 DEF Control, CallsOK, Scan, storedVars, history
<1>3. OnTile = {}
  BY <1>2, NobodyBeforeTheFirst DEF Control, InitAtHead, Inits
<1>4. \A v \in Worker : pc'[v] \notin {"preload", "render", "write"} /\ pc[v] # "write"
  BY <1>1, <1>2, <1>3 DEF OnTile
<1>5. \A t \in Tile : PlanFor(actions'[t], state[t], layout[t])
  <2> SUFFICES ASSUME NEW t \in Tile PROVE PlanFor(actions'[t], state[t], layout[t])
    OBVIOUS
  <2>1. state[t] \in TileState /\ layout[t] \in Situation
    BY SettingFacts DEF StoredOK, PlanOK, WorldOK
  <2>2. (Forced(state[t]) \/ ChunksHaveChanges(t)) \in BOOLEAN
    BY DEF Forced, ChunksHaveChanges
  <2>3. actions'[t] = FindActionAndNextState(state[t],
                        Forced(state[t]) \/ ChunksHaveChanges(t), layout[t])
    BY DEF Scan
  <2> QED
    BY <2>1, <2>2, <2>3, FoundAction
<1>6. PlansFit'
  BY <1>2, <1>5 DEF PlansFit
<1>7. Renders'
  BY <1>4 DEF Renders
<1>8. StatesTrue'
  BY <1>2, <1>4 DEF Tells, StatesTrue
<1>9. OutsideGone'
  <2> SUFFICES ASSUME ~StorageErrors, NEW t \in Tile, layout[t] = "OUTSIDE", t \in done \/ over'
               PROVE  image[t] = NoImage
    BY <1>2 DEF OutsideGone
  <2>1. CASE t \in done
    BY <2>1 DEF Tells, OutsideGone
  <2>2. CASE over'
    <3>1. actions'[t].action \notin {"RENDER", "DELETE"}
      BY <2>2 DEF Scan, Planned
    <3>2. actions'[t].action = "NONE"
      BY <1>5, <3>1 DEF PlanFor, Action
    <3>3. state[t] \in {"OUT_OF_BOUNDS", "NOT_GENERATED", "CHUNK_ERROR"}
      BY <1>5, <3>2 DEF PlanFor
    <3> QED
      BY <1>4, <3>3 DEF Tells, StatesTrue, Truthful
  <2> QED
    BY <2>1, <2>2
<1> QED
  BY <1>6, <1>7, <1>8, <1>9 DEF Tells

\* A state is written: it was true when it was settled, and still is.
LEMMA WriteTells ==
    ASSUME WorldOK, StoredOK, Control, Tells, Tile' = Tile, StorageErrors' = StorageErrors,
           NEW w \in Worker, WriteState(w)
    PROVE  Tells'
<1>1. PICK p \in {"complete", "out"} : pc' = [pc EXCEPT ![w] = p]
  BY DEF WriteState
<1>2. /\ pc[w] = "write" /\ \A v \in Worker : pc'[v] = IF v = w THEN p ELSE pc[v]
      /\ done' = done \cup {tile[w]}
      /\ \A t \in Tile : state'[t] = IF t = tile[w] THEN result[w] ELSE state[t]
      /\ UNCHANGED <<image, result, layout, actions, tile, over, cursor, passes>>
  BY <1>1 DEF Control, CallsOK, StoredOK, WriteState
<1>3. /\ tile[w] \in Tile
      /\ \A v \in Worker \ {w} : pc[v] = "write" => tile[v] # tile[w]
  BY <1>2, AloneOnTile DEF OnTile
<1>4. PlansFit'
  BY <1>2 DEF Tells, PlansFit
<1>5. Renders'
  BY <1>1, <1>2 DEF Tells, Renders, Planning
<1>6. ~StorageErrors =>
        /\ Truthful(result[w], image[tile[w]])
        /\ layout[tile[w]] = "OUTSIDE" => image[tile[w]] = NoImage
  BY <1>2 DEF Tells, StatesTrue
<1>7. StatesTrue'
  <2> SUFFICES ASSUME ~StorageErrors
               PROVE  /\ \A t \in Tile : (\A v \in Worker : pc'[v] = "write" => tile[v] # t) =>
                            Truthful(state'[t], image[t])
                      /\ \A v \in Worker : pc'[v] = "write" =>
                            /\ Truthful(result[v], image[tile[v]])
                            /\ layout[tile[v]] = "OUTSIDE" => image[tile[v]] = NoImage
    BY <1>2 DEF StatesTrue, Truthful
  <2>1. ASSUME NEW t \in Tile, \A v \in Worker : pc'[v] = "write" => tile[v] # t
        PROVE  Truthful(state'[t], image[t])
    <3>1. CASE t = tile[w]
      BY <1>2, <1>6, <3>1
    <3>2. CASE t # tile[w]
      <4>1. \A v \in Worker : pc[v] = "write" => tile[v] # t
        BY <1>2, <2>1, <3>2
      <4> QED
        BY <1>2, <3>2, <4>1 DEF Tells, StatesTrue
    <3> QED
      BY <3>1, <3>2
  <2>2. \A v \in Worker : pc'[v] = "write" => pc[v] = "write"
    BY <1>1, <1>2
  <2> QED
    BY <2>1, <2>2 DEF Tells, StatesTrue
<1>8. OutsideGone'
  BY <1>2, <1>6 DEF Tells, OutsideGone
<1> QED
  BY <1>4, <1>5, <1>7, <1>8 DEF Tells

\* Every step keeps plans and states true.
LEMMA TellsStep ==
    WorldOK /\ CacheOK /\ StoredOK /\ PlanOK /\ Control /\ Tells /\ [Next]_vars => Tells'
<1> SUFFICES ASSUME WorldOK, CacheOK, StoredOK, PlanOK, Control, Tells, [Next]_vars PROVE Tells'
  OBVIOUS
<1>1. Tile' = Tile /\ StorageErrors' = StorageErrors
  BY SettingStays
<1>2. ASSUME UNCHANGED <<state, image, result, layout, actions, pc, tile, done, over, cursor, passes>>
      PROVE  Tells'
  BY <1>1, <1>2 DEF Tells, PlansFit, Renders, StatesTrue, OutsideGone, Truthful, PlanFor, Planning
<1>3. ASSUME NEW c \in Chunk, Modify(c) \/ DeleteChunk(c) \/ ReadElsewhere(c) \/ ReadChunk(c)
                  \/ PublishChunk(c) \/ Expire(c)
      PROVE  Tells'
  <2>1. UNCHANGED <<state, image, result, layout, actions, pc, tile, done, over, cursor, passes>>
    BY <1>3 DEF storedVars, taskVars, callVars, history, Modify, DeleteChunk, ReadElsewhere,
         ReadChunk, PublishChunk, Expire
  <2> QED
    BY <1>2, <2>1
<1>4. CASE NeighbourScan \/ Cancel \/ UNCHANGED vars
  <2>1. UNCHANGED <<state, image, result, layout, actions, pc, tile, done, over, cursor, passes>>
    BY <1>4 DEF storedVars, taskVars, callVars, history, NeighbourScan, Cancel, vars
  <2> QED
    BY <1>2, <2>1
<1>5. ASSUME NEW w \in Worker, AwaitChunk(w)
      PROVE  Tells'
  <2>1. UNCHANGED <<state, image, result, layout, actions, pc, tile, done, over, cursor, passes>>
    BY <1>5 DEF storedVars, taskVars, history, AwaitChunk
  <2> QED
    BY <1>2, <2>1
<1>6. CASE NewTask
  <2>1. /\ \A w \in Worker : pc'[w] = "out" /\ pc[w] = "out"
        /\ actions' = NoActions /\ done' = {} /\ over' = FALSE
        /\ UNCHANGED <<state, image, result, tile>>
    BY <1>6 DEF NewTask, storedVars, callVars
  <2> QED
    BY <1>1, <2>1 DEF Tells, PlansFit, Renders, StatesTrue, OutsideGone
<1>7. ASSUME NEW w \in Worker, RenderTile(w) \/ BeginRender(w)
      PROVE  Tells'
  <2>1. PICK p \in {"preload", "render"} : pc' = [pc EXCEPT ![w] = p]
    BY <1>7 DEF RenderTile, BeginRender
  <2>2. /\ Planning(w).action = "RENDER" /\ pc[w] # "write"
        /\ \A v \in Worker : pc'[v] = IF v = w THEN p ELSE pc[v]
        /\ UNCHANGED <<state, image, result, layout, actions, tile, done, over, cursor, passes>>
    BY <1>7, <2>1 DEF RenderTile, BeginRender, Tells, Renders, Control, CallsOK, storedVars, taskVars, history
  <2> QED
    BY <1>1, <2>1, <2>2 DEF Tells, PlansFit, Renders, StatesTrue, OutsideGone, Planning
<1>8. ASSUME NEW w \in Worker, KeepTile(w) \/ DeleteTile(w) \/ RejectTile(w) \/ Draw(w) \/ TileFails(w)
      PROVE  Tells'
  BY <1>1, <1>8, WaysOut, SettledTells
<1>9. ASSUME NEW w \in Worker,
             EnterWork(w) \/ Refuse(w) \/ ListFails(w) \/ ListChunks(w) \/ Warm(w) \/ Claim(w)
      PROVE  Tells'
  BY <1>1, <1>9, OffTileTells
<1>10. ASSUME NEW w \in Worker, Scan(w) PROVE Tells'
  BY <1>1, <1>10, ScanTells
<1>11. ASSUME NEW w \in Worker, WriteState(w) PROVE Tells'
  BY <1>1, <1>11, WriteTells
<1>12. ASSUME NEW w \in Worker, Complete(w)
       PROVE  Tells'
  <2>1. OnTile = {} /\ pc[w] = "complete" /\ pc' = [pc EXCEPT ![w] = "out"]
    BY <1>12 DEF Complete, Control, LastToLeave
  <2>2. /\ \A v \in Worker : pc'[v] = IF v = w THEN "out" ELSE pc[v]
        /\ actions' = NoActions
        /\ UNCHANGED <<state, image, result, layout, tile, done, over, cursor, passes>>
    BY <1>12, <2>1 DEF Complete, Control, CallsOK, history
  <2>3. \A v \in Worker : pc[v] \notin {"preload", "render", "write"}
    BY <2>1 DEF OnTile
  <2> QED
    BY <1>1, <2>2, <2>3 DEF Tells, PlansFit, Renders, StatesTrue, OutsideGone
<1> QED
  BY NextActions, <1>3, <1>4, <1>5, <1>6, <1>7, <1>8, <1>9, <1>10, <1>11, <1>12

-----------------------------------------------------------------------------
(* The invariant *)

\* The inductive invariant.
RegionInv == WorldOK /\ CacheOK /\ StoredOK /\ PlanOK /\ Control /\ Tells

\* Nobody is in doWork(), nothing was ever done.
LEMMA InitRegionInv == Init => RegionInv
<1> SUFFICES ASSUME Init PROVE RegionInv
  OBVIOUS
<1> USE DEF Init
<1>1. setting \in Settings
  OBVIOUS
<1>2. /\ Own \subseteq Chunk
      /\ TileCount \in Nat \ {0} /\ Tile = 1..TileCount
      /\ Layouts \subseteq [Tile -> Situation]
      /\ MaxClock \in Nat \ {0} /\ MaxPasses \in Nat /\ MaxErrors \in Nat
  BY <1>1, SettingFacts
<1>3. 0 \in Stamp /\ 1 \in Stamp /\ 1 \in Tile
  BY <1>2 DEF Stamp
<1>4. WorldOK
  BY <1>3 DEF WorldOK
<1>5. CacheOK
  BY <1>2 DEF CacheOK
<1>6. StoredOK
  BY <1>3 DEF StoredOK, TileState
<1>7. PlanOK
  <2>1. passes \in 0..MaxPasses /\ scannedAt \in Stamp
    BY <1>2, <1>3
  <2>2. over \in BOOLEAN /\ cancelled \in BOOLEAN
    OBVIOUS
  <2>3. hashes = NoHashes /\ actions = NoActions /\ layout \in Layouts /\ force \in Strategies
    OBVIOUS
  <2> QED
    BY <2>1, <2>2, <2>3 DEF PlanOK
<1>8. OnTile = {}
  BY DEF OnTile
<1>9. CallsOK
  <2>1. << >> \in Seq(Worker)
    OBVIOUS
  <2>2. 1 \in 1..TileCount + 1
    BY <1>2
  <2> QED
    BY <1>3, <2>1, <2>2 DEF CallsOK, CallPc
<1>10. ChainOfClaims
  <2>1. IsInjective(<< >>) /\ Range(<< >>) = {}
    BY DEF IsInjective, Range
  <2> QED
    BY <2>1 DEF ChainOfClaims, Waits
<1>11. InitAtHead /\ LastToLeave
  BY DEF InitAtHead, LastToLeave, Inits
<1>12. HandedOut
  <2>1. \A t \in Tile : ~(t < 1)
    BY <1>2
  <2>2. Cardinality({}) = 0
    BY FS_EmptySet
  <2> QED
    BY <1>8, <2>1, <2>2 DEF HandedOut, InHand
<1>13. CursorInPlace
  BY <1>8 DEF CursorInPlace
<1>14. Tells
  BY DEF Tells, PlansFit, Renders, StatesTrue, OutsideGone, Truthful
<1> QED
  BY <1>4, <1>5, <1>6, <1>7, <1>9, <1>10, <1>11, <1>12, <1>13, <1>14 DEF RegionInv, Control

\* Every reachable state has the invariant.
THEOREM RegionInvariant == Spec => []RegionInv
<1>1. RegionInv /\ [Next]_vars => RegionInv'
  <2> SUFFICES ASSUME RegionInv, [Next]_vars PROVE RegionInv'
    OBVIOUS
  <2>1. WorldOK /\ CacheOK /\ StoredOK /\ PlanOK /\ Control /\ Tells
    BY DEF RegionInv
  <2>2. CallsOK /\ CursorInPlace
    BY <2>1 DEF Control
  <2>3. StoredOK'
    BY <2>1, <2>2, StoredStep
  <2> QED
    BY <2>1, <2>2, <2>3, WorldStep, CacheStep, PlanStep, ControlStep, TellsStep DEF RegionInv
<1> QED
  BY InitRegionInv, <1>1, PTL DEF Spec

-----------------------------------------------------------------------------
(* What it gives *)

\* Only #complete records chunk hashes.
LEMMA KnownChanges ==
    ASSUME [Next]_vars, known' # known
    PROVE  \E w \in Worker : Complete(w)
<1>1. \A c \in Chunk :
        ~(Modify(c) \/ DeleteChunk(c) \/ ReadElsewhere(c) \/ ReadChunk(c) \/ PublishChunk(c) \/ Expire(c))
  BY DEF Modify, DeleteChunk, ReadElsewhere, ReadChunk, PublishChunk, Expire, storedVars
<1>2. ~NeighbourScan /\ ~NewTask /\ ~Cancel /\ ~UNCHANGED vars
  BY DEF NeighbourScan, NewTask, Cancel, vars, storedVars
<1>3. \A w \in Worker :
        ~(EnterWork(w) \/ Refuse(w) \/ ListFails(w) \/ ListChunks(w) \/ Scan(w) \/ Warm(w) \/ Claim(w))
  BY DEF EnterWork, Refuse, ListFails, ListChunks, Scan, Warm, Claim, ClaimTile, storedVars
<1>4. \A w \in Worker :
        ~(KeepTile(w) \/ DeleteTile(w) \/ RenderTile(w) \/ AwaitChunk(w) \/ RejectTile(w)
          \/ BeginRender(w) \/ Draw(w) \/ TileFails(w) \/ WriteState(w))
  BY DEF KeepTile, DeleteTile, RenderTile, AwaitChunk, RejectTile, BeginRender, Draw, TileFails,
       WriteState, storedVars
<1> QED
  BY <1>1, <1>2, <1>3, <1>4, NextActions

\* The types of the variables: the cursor ends right behind the last tile, and never
\* more calls than there are workers hold a tile (WorldRegionUpdateTask's fields).
THEOREM TypeCorrect == Spec => []TypeOK
<1>1. RegionInv => TypeOK
  <2> SUFFICES ASSUME RegionInv PROVE TypeOK
    OBVIOUS
  <2>1. WorldOK /\ CacheOK /\ StoredOK /\ PlanOK /\ CallsOK
    BY DEF RegionInv, Control
  <2>2. atWork \in 0..Cardinality(Worker)
    <3>1. OnTile \subseteq Worker /\ IsFiniteSet(Worker)
      BY RegionAssumption DEF OnTile
    <3>2. Cardinality(OnTile) \in Nat /\ Cardinality(OnTile) <= Cardinality(Worker)
      BY <3>1, FS_Subset, FS_CardinalityType
    <3>3. Cardinality(Worker) \in Nat
      BY <3>1, FS_CardinalityType
    <3>4. atWork = Cardinality(OnTile)
      BY DEF RegionInv, Control, HandedOut
    <3> QED
      BY <3>2, <3>3, <3>4
  <2> QED
    BY <2>1, <2>2 DEF TypeOK, WorldOK, CacheOK, StoredOK, PlanOK, CallsOK
<1> QED
  BY <1>1, RegionInvariant, PTL

\* claimTile hands every tile of the region out once, to one call, however many
\* workers call doWork() of the task and wherever they are suspended.
THEOREM TilesClaimedOnceAlways == Spec => []TilesClaimedOnce
<1>1. RegionInv => TilesClaimedOnce
  <2> SUFFICES ASSUME RegionInv PROVE TilesClaimedOnce
    OBVIOUS
  <2>1. HandedOut /\ CallsOK /\ WorldOK
    BY DEF RegionInv, Control
  <2>2. Tile = 1..TileCount /\ TileCount \in Nat /\ cursor \in 1..TileCount + 1
    BY <2>1, SettingFacts DEF CallsOK, WorldOK
  <2>3. \A t : t \in 1..(cursor - 1) <=> t \in Tile /\ t < cursor
    BY <2>2
  <2>4. done \cup {tile[w] : w \in OnTile} = {t \in Tile : t \in done \/ InHand(t)}
    BY <2>1 DEF InHand, CallsOK, OnTile
  <2>5. done \cup {tile[w] : w \in OnTile} = 1..(cursor - 1)
    BY <2>1, <2>3, <2>4 DEF HandedOut
  <2> QED
    BY <2>1, <2>5 DEF TilesClaimedOnce, HandedOut, InHand
<1> QED
  BY <1>1, RegionInvariant, PTL

\* #complete records the chunk hashes only when all the tiles of the region are done
\* and no call is on one any more: a cancellation before that leaves the old hashes,
\* and the next update looks at the tiles again.
THEOREM RecordedAfterAllTilesAlways == Spec => RecordedAfterAllTiles
<1>1. RegionInv /\ [Next]_vars => [known' # known => OnTile = {} /\ done = Tile]_vars
  <2> SUFFICES ASSUME RegionInv, [Next]_vars, known' # known
               PROVE  OnTile = {} /\ done = Tile
    OBVIOUS
  <2>1. \E w \in Worker : Complete(w)
    BY KnownChanges
  <2>2. LastToLeave /\ HandedOut /\ CallsOK /\ WorldOK
    BY DEF RegionInv, Control
  <2>3. OnTile = {} /\ cursor = TileCount + 1
    BY <2>1, <2>2 DEF Complete, LastToLeave
  <2>4. \A t \in Tile : t < cursor
    BY <2>2, <2>3, SettingFacts DEF WorldOK
  <2>5. \A t \in Tile : t \in done
    BY <2>2, <2>3, <2>4 DEF HandedOut, InHand
  <2> QED
    BY <2>2, <2>3, <2>5 DEF CallsOK
<1> QED
  BY RegionInvariant, <1>1, PTL DEF Spec, RecordedAfterAllTiles

\* The stored state of a tile tells what the storage holds of it, as long as storing
\* hires tiles does not fail: through failing renders and reads, cancellations, chunks
\* that are deleted and a cache that forgets (#processTile's finally block).
THEOREM StatesTellAlways == Spec => [](~StorageErrors => StateTellsOfTile)
<1>1. RegionInv => (~StorageErrors => StateTellsOfTile)
  BY DEF RegionInv, Tells, StatesTrue, StateTellsOfTile, OnTile, Truthful
<1> QED
  BY <1>1, RegionInvariant, PTL

\* Behind an update that was not cancelled no tile outside the render boundaries has a
\* hires model, as long as the storage does not fail to delete one.
THEOREM OutsideUnrenderedAlways == Spec => [](~StorageErrors => OutsideTilesUnrendered)
<1>1. RegionInv => (~StorageErrors => OutsideTilesUnrendered)
  <2> SUFFICES ASSUME RegionInv, ~StorageErrors, passes > 0, over,
                      \A w \in Worker : pc[w] = "out",
                      NEW t \in Tile, layout[t] = "OUTSIDE"
               PROVE  image[t] = NoImage
    BY DEF OutsideTilesUnrendered
  <2>1. OnTile = {}
    BY DEF OnTile
  <2>2. cursor = 1 \/ cursor = TileCount + 1
    BY DEF RegionInv, Control, CursorInPlace
  <2>3. CASE cursor = 1
    BY <2>3 DEF RegionInv, Tells, OutsideGone
  <2>4. CASE cursor = TileCount + 1
    <3>1. t < cursor
      BY <2>4, SettingFacts DEF RegionInv, WorldOK
    <3>2. t \in done
      BY <2>1, <3>1 DEF RegionInv, Control, HandedOut, InHand
    <3> QED
      BY <3>2 DEF RegionInv, Tells, OutsideGone
  <2> QED
    BY <2>2, <2>3, <2>4
<1> QED
  BY <1>1, RegionInvariant, PTL

-----------------------------------------------------------------------------
(* Without hazards *)

OwnOf(t) == Footprint[t] \cap Own

\* A stamp the chunk had at some time; a chunk of a neighbour is always generated.
Past(v, c) == v \in 0..world[c] /\ (c \notin Own => v # 0)

\* What the world says of the chunk at the listing or behind it.
Fresh(v, c) == v = hashes[c] \/ v > scannedAt

WorldSound ==
    /\ scannedAt <= clock
    /\ \A c \in Chunk : world[c] <= clock /\ (c \notin Own => world[c] # 0)
    /\ \A c \in Own : known[c] <= world[c]

CacheSound ==
    \A c \in Chunk :
        /\ cached[c] = NotCached \/ Past(cached[c], c)
        /\ flight[c] \in {NotCached, Reading} \/ Past(flight[c], c)

HashesSound ==
    hashes # NoHashes => \A c \in Own :
        /\ hashes[c] <= scannedAt /\ hashes[c] <= world[c] /\ known[c] <= hashes[c]
        /\ Fresh(world[c], c)
        /\ cached[c] = NotCached \/ Fresh(cached[c], c)
        /\ flight[c] \in {NotCached, Reading} \/ Fresh(flight[c], c)

\* While there is a plan there are the hashes it was made from.
PlanHasHashes ==
    actions # NoActions \/ (\E w \in Worker : pc[w] = "scan") => hashes # NoHashes \/ Own = {}

\* A plan is used by the call that made it before another is made.
PlanAwaited ==
    actions # NoActions /\ cursor = 1 /\ HasMoreWork =>
        \E w \in Worker : pc[w] \in {"warm", "inited"}

\* A tile's chunks are still to be awaited, being awaited, or in the cache.
ChunksStay ==
    \A w \in Worker : pc[w] \in {"preload", "render"} =>
        \A c \in Footprint[tile[w]] : c \in todo[w] \/ on[w] = c \/ cached[c] # NotCached

ImagesSound ==
    \A t \in Tile : image[t] # NoImage => \A c \in OwnOf(t) : image[t][c] <= world[c]

\* A state of a tile with the own chunks C and the model i is as the hashes h say: its
\* model is not older than they are, or one of its chunks is not generated.
AsRecorded(s, i, h, C) ==
    /\ s \in {"RENDERED", "RENDERED_EDGE"} => i # NoImage /\ \A c \in C : h[c] <= i[c]
    /\ s = "NOT_GENERATED" => \E c \in C : h[c] = 0

\* Only an unchanged tile is left alone.
PlansSound ==
    actions # NoActions => \A t \in Tile \ done :
        /\ actions[t].action = "NONE"
        /\ state[t] \in {"RENDERED", "RENDERED_EDGE", "NOT_GENERATED"}
        => \A c \in OwnOf(t) : known[c] = hashes[c]

\* A state is as the recorded hashes say, and one that is settled in this pass also as
\* those say that are going to be recorded.
RecordsSound ==
    /\ \A t \in Tile : (\A w \in Worker : pc[w] = "write" => tile[w] # t) =>
            AsRecorded(state[t], image[t], known, OwnOf(t))
    /\ \A w \in Worker : pc[w] = "write" =>
            /\ AsRecorded(result[w], image[tile[w]], known, OwnOf(tile[w]))
            /\ hashes # NoHashes =>
                    AsRecorded(result[w], image[tile[w]], hashes, OwnOf(tile[w]))
    /\ hashes # NoHashes => \A t \in done : AsRecorded(state[t], image[t], hashes, OwnOf(t))

ChunksSound == WorldSound /\ CacheSound /\ HashesSound
LoadsSound == PlanHasHashes /\ PlanAwaited /\ ChunksStay
TilesSound == ImagesSound /\ PlansSound /\ RecordsSound

QuietInv == Quiet => ChunksSound /\ LoadsSound /\ TilesSound


-----------------------------------------------------------------------------
(* Chunks *)

\* A Quiet setting allows none of the hazards.
LEMMA QuietMeans ==
    ASSUME Quiet
    PROVE  ~ReadErrors /\ ~Deletes /\ ~Expires /\ ~Overlaps /\ ~StorageErrors
BY DEF Quiet, ReadErrors, Deletes, Expires, Overlaps, StorageErrors

\* What the types say of the numbers at hand.
LEMMA Numbers ==
    ASSUME WorldOK, CacheOK, StoredOK, PlanOK
    PROVE  /\ clock \in Nat /\ scannedAt \in Nat
           /\ \A c \in Chunk : world[c] \in Nat
           /\ \A c \in Own : c \in Chunk /\ known[c] \in Nat
           /\ hashes # NoHashes => \A c \in Own : hashes[c] \in Nat
           /\ \A v \in Stamp : v \in Nat
           /\ NotCached \notin Nat /\ Reading \notin Nat /\ Errored \notin Nat
<1>1. MaxClock \in Nat /\ Own \subseteq Chunk
  BY SettingFacts DEF WorldOK
<1>2. Stamp \subseteq Nat
  BY <1>1 DEF Stamp
<1>3. NotCached \notin Nat /\ Reading \notin Nat /\ Errored \notin Nat
  BY DEF NotCached, Reading, Errored
<1> QED
  BY <1>1, <1>2, <1>3 DEF WorldOK, StoredOK, PlanOK

\* A step that leaves the world, the recorded and the listed hashes alone, and changes
\* loads and cache entries only to what the world lists or to what was loaded.
LEMMA CacheMoves ==
    ASSUME WorldOK, CacheOK, StoredOK, PlanOK, ChunksSound, Own' = Own,
           UNCHANGED <<clock, world, known, hashes, scannedAt>>,
           \A c \in Chunk :
              /\ cached'[c] \in {NotCached, cached[c], world[c]} \/ (cached'[c] = flight[c] /\ flight[c] # Reading)
              /\ flight'[c] \in {NotCached, Reading, flight[c], world[c]}
    PROVE  ChunksSound'
<1>1. CacheSound'
  BY Numbers DEF ChunksSound, WorldSound, CacheSound, Past
<1>2. HashesSound'
  BY Numbers DEF ChunksSound, HashesSound, Fresh
<1>3. WorldSound'
  BY DEF ChunksSound, WorldSound
<1> QED
  BY <1>1, <1>2, <1>3 DEF ChunksSound

\* A modification gives the chunk a younger stamp than any.
LEMMA ModifySound ==
    ASSUME WorldOK, CacheOK, StoredOK, PlanOK, ChunksSound, Own' = Own, NEW c \in Chunk, Modify(c)
    PROVE  ChunksSound' /\ \A d \in Chunk : world[d] <= world'[d]
<1>1. /\ clock' = clock + 1
      /\ \A d \in Chunk : world'[d] = IF d = c THEN clock + 1 ELSE world[d]
      /\ UNCHANGED <<known, hashes, scannedAt, cached, flight>>
  BY DEF Modify, WorldOK, cacheVars, storedVars, taskVars, history
<1>2. \A d \in Chunk : world[d] <= world'[d]
  BY <1>1, Numbers DEF ChunksSound, WorldSound
<1>3. WorldSound'
  BY <1>1, <1>2, Numbers DEF ChunksSound, WorldSound
<1>4. CacheSound'
  BY <1>1, <1>2, Numbers DEF ChunksSound, CacheSound, Past, WorldSound
<1>5. HashesSound'
  BY <1>1, <1>2, Numbers DEF ChunksSound, HashesSound, WorldSound, Fresh
<1> QED
  BY <1>2, <1>3, <1>4, <1>5 DEF ChunksSound

\* #init lists the world as it is; a chunk that it does not list was never generated.
LEMMA ListSound ==
    ASSUME WorldOK, CacheOK, StoredOK, PlanOK, ChunksSound, Own' = Own,
           NEW w \in Worker, ListChunks(w)
    PROVE  ChunksSound'
<1>1. /\ hashes' = [c \in Own |-> world[c]] /\ scannedAt' = clock
      /\ UNCHANGED <<clock, world, known>>
  BY DEF ListChunks, worldVars, storedVars
<1>2. ASSUME NEW c \in Chunk
      PROVE  /\ cached'[c] \in {NotCached, cached[c]} /\ flight'[c] \in {NotCached, flight[c]}
             /\ c \in Own /\ world[c] # 0 => cached'[c] = NotCached /\ flight'[c] = NotCached
  BY DEF ListChunks, InvalidateChunkCache
<1>3. WorldSound'
  BY <1>1, Numbers DEF ChunksSound, WorldSound
<1>4. CacheSound'
  BY <1>1, <1>2 DEF ChunksSound, CacheSound, Past
<1>5. HashesSound'
  <2> SUFFICES ASSUME NEW c \in Own
               PROVE  /\ hashes'[c] <= clock /\ hashes'[c] <= world[c] /\ known[c] <= hashes'[c]
                      /\ world[c] = hashes'[c]
                      /\ cached'[c] = NotCached \/ cached'[c] = hashes'[c]
                      /\ flight'[c] \in {NotCached, Reading} \/ flight'[c] = hashes'[c]
    BY <1>1 DEF HashesSound, Fresh
  <2>1. hashes'[c] = world[c] /\ c \in Chunk /\ world[c] \in Nat
    BY <1>1, Numbers
  <2>2. CASE world[c] # 0
    BY <1>2, <2>1, <2>2 DEF ChunksSound, WorldSound
  <2>3. CASE world[c] = 0
    <3>1. cached[c] = NotCached \/ cached[c] = 0
      BY <2>1, <2>3 DEF ChunksSound, CacheSound, Past
    <3>2. flight[c] \in {NotCached, Reading} \/ flight[c] = 0
      BY <2>1, <2>3 DEF ChunksSound, CacheSound, Past
    <3> QED
      BY <1>2, <2>1, <2>3, <3>1, <3>2 DEF ChunksSound, WorldSound
  <2> QED
    BY <2>2, <2>3
<1> QED
  BY <1>3, <1>4, <1>5 DEF ChunksSound

\* #complete records what was listed.
LEMMA CompleteSound ==
    ASSUME WorldOK, CacheOK, StoredOK, PlanOK, ChunksSound, Own' = Own,
           NEW w \in Worker, Complete(w)
    PROVE  ChunksSound'
<1>1. /\ known' = RecordedHashes /\ hashes' = NoHashes
      /\ UNCHANGED <<clock, world, cached, flight, scannedAt>>
  BY DEF Complete, worldVars, cacheVars, history
<1>2. \A c \in Own : known'[c] <= world[c]
  BY <1>1 DEF RecordedHashes, ChunksSound, WorldSound, HashesSound
<1>3. WorldSound'
  BY <1>1, <1>2 DEF ChunksSound, WorldSound
<1>4. CacheSound'
  BY <1>1 DEF ChunksSound, CacheSound, Past
<1>5. HashesSound'
  BY <1>1 DEF HashesSound
<1> QED
  BY <1>3, <1>4, <1>5 DEF ChunksSound

\* Whatever happens, the chunks stay sound, and stamps do not shrink.
LEMMA ChunksStep ==
    ASSUME RegionInv, Quiet, ChunksSound, [Next]_vars
    PROVE  ChunksSound' /\ \A c \in Chunk : world[c] <= world'[c]
<1>1. /\ WorldOK /\ CacheOK /\ StoredOK /\ PlanOK /\ CallsOK
      /\ Own' = Own /\ \A t \in Tile : Footprint[t] \subseteq Chunk
  BY SettingStays, SettingFacts DEF RegionInv, Control, WorldOK
<1>2. \A c \in Chunk : world[c] \in Nat
  BY <1>1, Numbers
<1>3. ASSUME NEW S \in SUBSET Chunk, NEW c \in Chunk
      PROVE  LoadsStarted(S)[c] \in {Reading, flight[c]}
  BY DEF LoadsStarted
<1>4. ASSUME UNCHANGED <<clock, world, known, hashes, scannedAt>>,
             \A c \in Chunk :
                /\ cached'[c] \in {NotCached, cached[c], world[c]} \/ (cached'[c] = flight[c] /\ flight[c] # Reading)
                /\ flight'[c] \in {NotCached, Reading, flight[c], world[c]}
      PROVE  ChunksSound' /\ \A c \in Chunk : world[c] <= world'[c]
  BY <1>1, <1>2, <1>4, CacheMoves
<1>5. ASSUME NEW c \in Chunk, Modify(c)
      PROVE  ChunksSound' /\ \A d \in Chunk : world[d] <= world'[d]
  BY <1>1, <1>5, ModifySound
<1>6. ~NeighbourScan /\ \A c \in Chunk : ~DeleteChunk(c) /\ ~Expire(c)
  BY QuietMeans DEF DeleteChunk, Expire, NeighbourScan
<1>7. ASSUME NEW c \in Chunk, ReadElsewhere(c) \/ ReadChunk(c) \/ PublishChunk(c)
      PROVE  ChunksSound' /\ \A d \in Chunk : world[d] <= world'[d]
  <2>1. UNCHANGED <<clock, world, known, hashes, scannedAt>>
    BY <1>7 DEF ReadElsewhere, ReadChunk, PublishChunk, worldVars, storedVars, taskVars, history
  <2>2. CASE ReadElsewhere(c)
    <3>1. cached' = cached /\ flight' = LoadsStarted({c})
      BY <2>2 DEF ReadElsewhere
    <3>2. \A d \in Chunk : flight'[d] \in {Reading, flight[d]}
      BY <1>3, <3>1
    <3> QED
      BY <1>4, <2>1, <3>1, <3>2
  <2>3. CASE ReadChunk(c)
    <3>1. cached' = cached /\ flight' = [flight EXCEPT ![c] = world[c]]
      BY <2>3, QuietMeans DEF ReadChunk
    <3>2. \A d \in Chunk : flight'[d] \in {flight[d], world[d]}
      BY <1>1, <3>1 DEF CacheOK
    <3> QED
      BY <1>4, <2>1, <3>1, <3>2
  <2>4. CASE PublishChunk(c)
    <3>1. /\ cached' = [cached EXCEPT ![c] = flight[c]] /\ flight' = [flight EXCEPT ![c] = NotCached]
          /\ flight[c] # Reading
      BY <2>4 DEF PublishChunk
    <3>2. \A d \in Chunk : /\ cached'[d] = cached[d] \/ (cached'[d] = flight[d] /\ flight[d] # Reading)
                           /\ flight'[d] \in {flight[d], NotCached}
      BY <1>1, <3>1 DEF CacheOK
    <3> QED
      BY <1>4, <2>1, <3>2
  <2> QED
    BY <1>7, <2>2, <2>3, <2>4
<1>8. ASSUME NEW w \in Worker, AwaitChunk(w) \/ RejectTile(w) \/ BeginRender(w) \/ Draw(w)
      PROVE  ChunksSound' /\ \A d \in Chunk : world[d] <= world'[d]
  <2>1. UNCHANGED <<clock, world, known, hashes, scannedAt, cached>>
    BY <1>8 DEF AwaitChunk, RejectTile, BeginRender, Draw, worldVars, storedVars, taskVars, history
  <2>2. \E S \in SUBSET Chunk : flight' = LoadsStarted(S)
    BY <1>1, <1>8 DEF AwaitChunk, RejectTile, BeginRender, Draw, CacheOK, CallsOK
  <2>3. \A d \in Chunk : flight'[d] \in {Reading, flight[d]}
    BY <1>3, <2>2
  <2> QED
    BY <1>4, <2>1, <2>3
<1>9. ASSUME NEW w \in Worker, ListChunks(w) \/ Complete(w)
      PROVE  ChunksSound' /\ \A d \in Chunk : world[d] <= world'[d]
  <2>1. world' = world
    BY <1>9 DEF ListChunks, Complete, worldVars
  <2> QED
    BY <1>1, <1>2, <1>9, <2>1, ListSound, CompleteSound
<1>10. CASE NewTask
  <2>1. /\ hashes' = NoHashes /\ UNCHANGED <<clock, world, known, scannedAt, cached, flight>>
    BY <1>10 DEF NewTask, worldVars, cacheVars, storedVars
  <2> QED
    BY <1>1, <1>2, <2>1 DEF ChunksSound, WorldSound, CacheSound, HashesSound, Past
<1>11. ASSUME UNCHANGED <<clock, world, known, hashes, scannedAt, cached, flight>>
       PROVE  ChunksSound' /\ \A c \in Chunk : world[c] <= world'[c]
  BY <1>4, <1>11
<1>12. CASE Cancel \/ UNCHANGED vars
  BY <1>11, <1>12 DEF Cancel, vars, worldVars, cacheVars, storedVars, taskVars, history
<1>13. ASSUME NEW w \in Worker,
              \/ EnterWork(w) \/ Refuse(w) \/ ListFails(w) \/ Scan(w) \/ Claim(w)
              \/ KeepTile(w) \/ DeleteTile(w) \/ RenderTile(w) \/ TileFails(w) \/ WriteState(w)
       PROVE  ChunksSound' /\ \A c \in Chunk : world[c] <= world'[c]
  BY <1>11, <1>13 DEF EnterWork, Refuse, ListFails, Scan, Claim, ClaimTile, KeepTile,
       DeleteTile, RenderTile, TileFails, WriteState, worldVars, cacheVars, storedVars, taskVars,
       history
<1>14. ASSUME NEW w \in Worker, Warm(w)
       PROVE  ChunksSound' /\ \A c \in Chunk : world[c] <= world'[c]
  <2>1. UNCHANGED <<clock, world, known, hashes, scannedAt, flight>>
    BY <1>14 DEF Warm, worldVars, storedVars, taskVars, history
  <2>2. \A c \in Chunk : cached'[c] \in {cached[c], world[c]}
    BY <1>14 DEF Warm
  <2> QED
    BY <1>4, <2>1, <2>2
<1> QED
  BY NextActions, <1>5, <1>6, <1>7, <1>8, <1>9, <1>10, <1>12, <1>13, <1>14

-----------------------------------------------------------------------------
(* Loads *)

\* Nothing was read by a call that lists chunks or waits to: no tile is in hand.
LEMMA ListedAlone ==
    ASSUME RegionInv, NEW w \in Worker, ListChunks(w) \/ pc[w] = "scan"
    PROVE  OnTile = {} /\ cursor = 1
<1>1. cursor = 1
  BY DEF ListChunks, RegionInv, Control, InitAtHead, Inits
<1> QED
  BY <1>1, NobodyBeforeTheFirst DEF RegionInv, Control

\* Hashes are listed before there is a plan, and forgotten together with it.
LEMMA PlanHasHashesStep ==
    ASSUME RegionInv, PlanHasHashes, [Next]_vars
    PROVE  PlanHasHashes'
<1>1. WorldOK /\ CallsOK /\ InitAtHead /\ Own' = Own /\ TileCount \in Nat \ {0}
  BY SettingStays, SettingFacts DEF RegionInv, Control, WorldOK
<1>2. ASSUME NEW w \in Worker, ListChunks(w)
      PROVE  PlanHasHashes'
  <2>1. hashes' = [c \in Own |-> world[c]]
    BY <1>2 DEF ListChunks
  <2>2. DOMAIN hashes' = Own /\ DOMAIN NoHashes = {}
    BY <2>1 DEF NoHashes
  <2> QED
    BY <1>1, <2>2 DEF PlanHasHashes
<1>3. CASE NewTask
  BY <1>3 DEF NewTask, PlanHasHashes, callVars
<1>4. ASSUME NEW w \in Worker, Complete(w)
      PROVE  PlanHasHashes'
  <2>1. cursor # 1
    BY <1>1, <1>4 DEF Complete, RegionInv, Control, LastToLeave
  <2>2. \A v \in Worker : pc[v] # "scan"
    BY <1>1, <2>1 DEF InitAtHead, Inits
  <2>3. actions' = NoActions /\ \A v \in Worker : pc'[v] # "scan"
    BY <1>1, <1>4, <2>2 DEF Complete, CallsOK
  <2> QED
    BY <2>3 DEF PlanHasHashes
<1>5. ASSUME NEW w \in Worker, Scan(w)
      PROVE  PlanHasHashes'
  BY <1>1, <1>5 DEF Scan, PlanHasHashes
<1>6. ASSUME UNCHANGED <<hashes, actions>>, \A v \in Worker : pc'[v] = "scan" => pc[v] = "scan"
      PROVE  PlanHasHashes'
  BY <1>1, <1>6 DEF PlanHasHashes
<1>7. ASSUME NEW c \in Chunk, Modify(c) \/ DeleteChunk(c) \/ ReadElsewhere(c) \/ ReadChunk(c)
                  \/ PublishChunk(c) \/ Expire(c)
      PROVE  PlanHasHashes'
  BY <1>6, <1>7 DEF taskVars, callVars, Modify, DeleteChunk, ReadElsewhere, ReadChunk,
       PublishChunk, Expire
<1>8. CASE NeighbourScan \/ Cancel \/ UNCHANGED vars
  BY <1>6, <1>8 DEF taskVars, callVars, NeighbourScan, Cancel, vars
<1>9. ASSUME NEW w \in Worker,
             \/ EnterWork(w) \/ Refuse(w) \/ ListFails(w) \/ Warm(w) \/ Claim(w)
             \/ KeepTile(w) \/ DeleteTile(w) \/ RenderTile(w) \/ AwaitChunk(w)
             \/ RejectTile(w) \/ BeginRender(w) \/ Draw(w) \/ TileFails(w) \/ WriteState(w)
      PROVE  PlanHasHashes'
  <2>1. UNCHANGED <<hashes, actions>>
    BY <1>9 DEF taskVars, EnterWork, Refuse, ListFails, Warm, Claim, ClaimTile, KeepTile,
         DeleteTile, RenderTile, AwaitChunk, RejectTile, BeginRender, Draw, TileFails, WriteState
  <2>2. pc' = pc \/ \E p : p # "scan" /\ pc' = [pc EXCEPT ![w] = p]
    BY <1>9 DEF EnterWork, Refuse, ListFails, Warm, Claim, ClaimTile, KeepTile, Settled,
         DeleteTile, RenderTile, AwaitChunk, RejectTile, BeginRender, Draw, TileFails, WriteState
  <2>3. \A v \in Worker : pc'[v] = "scan" => pc[v] = "scan"
    BY <1>1, <2>2 DEF CallsOK
  <2> QED
    BY <1>6, <2>1, <2>3
<1> QED
  BY NextActions, <1>2, <1>3, <1>4, <1>5, <1>7, <1>8, <1>9

\* What a tile has awaited stays cached while it is in hand.
LEMMA ChunksStayStep ==
    ASSUME RegionInv, Quiet, ChunksSound, ChunksStay, [Next]_vars
    PROVE  ChunksStay'
<1>1. /\ WorldOK /\ CacheOK /\ StoredOK /\ PlanOK /\ CallsOK
      /\ Footprint' = Footprint /\ Own \subseteq Chunk
      /\ \A t \in Tile : Footprint[t] \subseteq Chunk
  BY SettingStays, SettingFacts DEF RegionInv, Control, WorldOK
<1>2. \A c \in Chunk : world[c] # NotCached
  BY <1>1, Numbers
<1>3. ASSUME \A v \in Worker : pc'[v] \in {"preload", "render"} =>
                pc[v] \in {"preload", "render"} /\ tile'[v] = tile[v],
             UNCHANGED <<todo, on>>,
             \A c \in Chunk : cached'[c] = cached[c] \/ cached'[c] # NotCached
      PROVE  ChunksStay'
  BY <1>1, <1>3 DEF ChunksStay, CallsOK
<1>4. ASSUME NEW c \in Chunk, Modify(c) \/ ReadElsewhere(c) \/ ReadChunk(c)
      PROVE  ChunksStay'
  BY <1>3, <1>4 DEF callVars, cacheVars, Modify, ReadElsewhere, ReadChunk
<1>5. ~NeighbourScan /\ \A c \in Chunk : ~DeleteChunk(c) /\ ~Expire(c)
  BY QuietMeans DEF DeleteChunk, Expire, NeighbourScan
<1>6. CASE Cancel \/ UNCHANGED vars
  BY <1>3, <1>6 DEF callVars, cacheVars, Cancel, vars
<1>7. CASE NewTask
  BY <1>7 DEF NewTask, ChunksStay, callVars
<1>8. ASSUME NEW c \in Chunk, PublishChunk(c)
      PROVE  ChunksStay'
  <2>1. UNCHANGED <<pc, tile, todo>> /\ flight[c] # NotCached
    BY <1>8 DEF PublishChunk
  <2>2. \A d \in Chunk : cached'[d] = IF d = c THEN flight[c] ELSE cached[d]
    BY <1>1, <1>8 DEF PublishChunk, CacheOK
  <2>3. \A v \in Worker : on'[v] = IF on[v] = c THEN NoChunk ELSE on[v]
    BY <1>8 DEF PublishChunk, Answered
  <2> QED
    BY <1>1, <2>1, <2>2, <2>3 DEF ChunksStay, CallsOK
<1>9. ASSUME NEW w \in Worker, ListChunks(w)
      PROVE  ChunksStay'
  <2>1. OnTile = {}
    BY <1>9, ListedAlone
  <2>2. \A v \in Worker : pc'[v] \notin {"preload", "render"}
    BY <1>1, <1>9, <2>1 DEF OnTile, ListChunks, CallsOK
  <2> QED
    BY <2>2 DEF ChunksStay
<1>10. ASSUME NEW w \in Worker, RenderTile(w) \/ BeginRender(w)
       PROVE  ChunksStay'
  <2>1. /\ todo' = [todo EXCEPT ![w] = Footprint[tile[w]]]
        /\ \E p : pc' = [pc EXCEPT ![w] = p]
        /\ UNCHANGED <<tile, on, cached>>
    BY <1>10 DEF RenderTile, BeginRender, ToLoad, cacheVars
  <2>2. \A v \in Worker : v # w => pc'[v] = pc[v] /\ todo'[v] = todo[v]
    BY <1>1, <2>1 DEF CallsOK, CacheOK
  <2>3. todo'[w] = Footprint[tile[w]]
    BY <1>1, <2>1 DEF CacheOK
  <2> QED
    BY <1>1, <2>1, <2>2, <2>3 DEF ChunksStay
<1>11. ASSUME NEW w \in Worker, AwaitChunk(w)
       PROVE  ChunksStay'
  <2>1. PICK c \in todo[w] :
            /\ todo' = [todo EXCEPT ![w] = @ \ {c}]
            /\ on' = [on EXCEPT ![w] = IF cached[c] = NotCached THEN c ELSE NoChunk]
    BY <1>11 DEF AwaitChunk
  <2>2. UNCHANGED <<pc, tile, cached>> /\ on[w] = NoChunk
    BY <1>11 DEF AwaitChunk
  <2>3. \A v \in Worker : v # w => todo'[v] = todo[v] /\ on'[v] = on[v]
    BY <1>1, <2>1 DEF CacheOK
  <2>4. /\ todo'[w] = todo[w] \ {c}
        /\ on'[w] = IF cached[c] = NotCached THEN c ELSE NoChunk
    BY <1>1, <2>1 DEF CacheOK
  <2>5. \A d \in Chunk : d # NoChunk
    BY RegionAssumption
  <2> QED
    BY <1>1, <2>1, <2>2, <2>3, <2>4, <2>5 DEF ChunksStay, CallsOK
<1>12. ASSUME NEW w \in Worker, Warm(w)
       PROVE  ChunksStay'
  <2>1. pc' = [pc EXCEPT ![w] = "inited"] /\ UNCHANGED <<tile, todo, on>>
    BY <1>12 DEF Warm
  <2>2. \A c \in Chunk : cached'[c] \in {cached[c], world[c]}
    BY <1>12 DEF Warm
  <2>3. \A v \in Worker : pc'[v] \in {"preload", "render"} => pc[v] \in {"preload", "render"}
    BY <1>1, <2>1 DEF CallsOK
  <2> QED
    BY <1>2, <1>3, <2>1, <2>2, <2>3
<1>13. ASSUME NEW w \in Worker,
              \/ EnterWork(w) \/ Refuse(w) \/ ListFails(w) \/ Scan(w) \/ Claim(w)
              \/ KeepTile(w) \/ DeleteTile(w) \/ RejectTile(w) \/ Draw(w) \/ TileFails(w)
              \/ WriteState(w) \/ Complete(w)
       PROVE  ChunksStay'
  <2>1. UNCHANGED <<todo, on, cached>>
    BY <1>13 DEF callVars, cacheVars, EnterWork, Refuse, ListFails, Scan, Claim, ClaimTile, KeepTile,
         DeleteTile, RejectTile, Draw, TileFails, WriteState, Complete
  <2>2. \E p : p \notin {"preload", "render"} /\ pc' = [pc EXCEPT ![w] = p]
    BY <1>13 DEF EnterWork, Refuse, ListFails, Scan, Claim, ClaimTile, KeepTile, Settled,
         DeleteTile, RejectTile, Draw, TileFails, WriteState, Complete
  <2>3. \A v \in Worker : v # w => tile'[v] = tile[v]
    BY <1>1, <1>13 DEF CallsOK, EnterWork, Refuse, ListFails, Scan, Claim, ClaimTile, KeepTile,
         DeleteTile, RejectTile, Draw, TileFails, WriteState, Complete
  <2>4. \A v \in Worker : pc'[v] \in {"preload", "render"} => v # w /\ pc[v] \in {"preload", "render"}
    BY <1>1, <2>2 DEF CallsOK
  <2> QED
    BY <1>3, <2>1, <2>3, <2>4
<1> QED
  BY NextActions, <1>4, <1>5, <1>6, <1>7, <1>8, <1>9, <1>10, <1>11, <1>12, <1>13

\* A plan waits for nobody but the call that made it.
LEMMA PlanAwaitedStep ==
    ASSUME RegionInv, PlanAwaited, [Next]_vars
    PROVE  PlanAwaited'
<1>1. /\ WorldOK /\ CallsOK /\ InitAtHead /\ CursorInPlace
      /\ Tile = 1..TileCount /\ TileCount \in Nat \ {0} /\ cursor \in Nat
  BY SettingFacts DEF RegionInv, Control, WorldOK, CallsOK
<1>2. ASSUME UNCHANGED <<actions, cursor, over, cancelled>>,
             \A v \in Worker : pc[v] \in {"warm", "inited"} => pc'[v] \in {"warm", "inited"}
      PROVE  PlanAwaited'
  BY <1>1, <1>2 DEF PlanAwaited, HasMoreWork
<1>3. ASSUME NEW c \in Chunk, Modify(c) \/ DeleteChunk(c) \/ ReadElsewhere(c) \/ ReadChunk(c)
                  \/ PublishChunk(c) \/ Expire(c)
      PROVE  PlanAwaited'
  BY <1>2, <1>3 DEF taskVars, callVars, Modify, DeleteChunk, ReadElsewhere, ReadChunk,
       PublishChunk, Expire
<1>4. CASE NeighbourScan \/ UNCHANGED vars
  BY <1>2, <1>4 DEF taskVars, callVars, NeighbourScan, vars
<1>5. ASSUME cancelled' \/ actions' = NoActions \/ cursor' # 1
      PROVE  PlanAwaited'
  BY <1>5 DEF PlanAwaited, HasMoreWork
<1>6. CASE Cancel \/ NewTask \/ \E w \in Worker : Complete(w) \/ ListFails(w)
  BY <1>5, <1>6 DEF Cancel, NewTask, Complete, ListFails
<1>7. ASSUME NEW w \in Worker, Refuse(w)
      PROVE  PlanAwaited'
  BY <1>7 DEF Refuse, PlanAwaited, HasMoreWork, taskVars
<1>8. ASSUME NEW w \in Worker, Scan(w) \/ Warm(w)
      PROVE  PlanAwaited'
  <2>1. pc'[w] \in {"warm", "inited"}
    BY <1>1, <1>8 DEF Scan, Warm, CallsOK
  <2> QED
    BY <2>1 DEF PlanAwaited
<1>9. ASSUME NEW w \in Worker, Claim(w)
      PROVE  PlanAwaited'
  <2>1. PICK t \in {cursor, tile[w]} : ClaimTile(w, t)
    BY <1>9 DEF Claim
  <2>2. t \in Nat \ {0} /\ cursor' = t + 1
    BY <1>1, <2>1 DEF CallsOK, ClaimTile
  <2> QED
    BY <1>5, <2>2
<1>10. ASSUME NEW w \in Worker,
             \/ EnterWork(w) \/ ListChunks(w)
             \/ KeepTile(w) \/ DeleteTile(w) \/ RenderTile(w) \/ AwaitChunk(w)
             \/ RejectTile(w) \/ BeginRender(w) \/ Draw(w) \/ TileFails(w) \/ WriteState(w)
      PROVE  PlanAwaited'
  <2>1. UNCHANGED <<actions, cursor, over, cancelled>>
    BY <1>10 DEF taskVars, EnterWork, ListChunks, KeepTile,
         DeleteTile, RenderTile, AwaitChunk, RejectTile, BeginRender, Draw, TileFails, WriteState
  <2>2. pc[w] \notin {"warm", "inited"} /\ (pc' = pc \/ \E p : pc' = [pc EXCEPT ![w] = p])
    BY <1>10 DEF EnterWork, ListChunks, KeepTile, Settled,
         DeleteTile, RenderTile, AwaitChunk, RejectTile, BeginRender, Draw, TileFails, WriteState
  <2>3. \A v \in Worker : pc[v] \in {"warm", "inited"} => pc'[v] \in {"warm", "inited"}
    BY <1>1, <2>2 DEF CallsOK
  <2> QED
    BY <1>2, <2>1, <2>3
<1> QED
  BY NextActions, <1>3, <1>4, <1>6, <1>7, <1>8, <1>9, <1>10

\* The loads and the plan they are for stay sound.
LEMMA LoadsStep ==
    ASSUME RegionInv, Quiet, ChunksSound, LoadsSound, [Next]_vars
    PROVE  LoadsSound'
BY PlanHasHashesStep, PlanAwaitedStep, ChunksStayStep DEF LoadsSound

-----------------------------------------------------------------------------
(* Tiles *)

\* What a tile sees once its chunks are loaded is what the scan listed or younger.
LEMMA SeenFresh ==
    ASSUME RegionInv, Quiet, ChunksSound, LoadsSound,
           NEW w \in Worker, pc[w] \in {"preload", "render"}, Loaded(w)
    PROVE  \A c \in Footprint[tile[w]] :
                /\ Seen(tile[w])[c] = cached[c] /\ Past(cached[c], c)
                /\ c \in Own => hashes # NoHashes /\ Fresh(cached[c], c)
<1>1. /\ WorldOK /\ CallsOK /\ CursorInPlace
      /\ \A t \in Tile : Footprint[t] \subseteq Chunk
      /\ tile[w] \in Tile /\ w \in OnTile
  BY SettingFacts DEF RegionInv, Control, WorldOK, CallsOK, OnTile
<1>2. actions # NoActions
  BY <1>1 DEF CursorInPlace
<1>3. hashes # NoHashes \/ Own = {}
  BY <1>2 DEF LoadsSound, PlanHasHashes
<1> SUFFICES ASSUME NEW c \in Footprint[tile[w]]
             PROVE  /\ Seen(tile[w])[c] = cached[c] /\ Past(cached[c], c)
                    /\ c \in Own => hashes # NoHashes /\ Fresh(cached[c], c)
  OBVIOUS
<1>4. c \in Chunk /\ c # NoChunk
  BY <1>1, RegionAssumption
<1>5. cached[c] # NotCached
  BY <1>4 DEF LoadsSound, ChunksStay, Loaded
<1>6. Seen(tile[w])[c] = cached[c]
  BY <1>5 DEF Seen
<1>7. Past(cached[c], c)
  BY <1>4, <1>5 DEF ChunksSound, CacheSound
<1>8. c \in Own => hashes # NoHashes /\ Fresh(cached[c], c)
  BY <1>3, <1>5 DEF ChunksSound, HashesSound
<1> QED
  BY <1>6, <1>7, <1>8

\* Hires tiles are stored and taken out by the call that has the tile.
LEMMA ImageChanges ==
    ASSUME [Next]_vars
    PROVE  \/ image' = image
           \/ \E w \in Worker : (DeleteTile(w) \/ RejectTile(w)) /\ Stored(tile[w], NoImage)
           \/ \E w \in Worker : Draw(w) /\ Stored(tile[w], Seen(tile[w]))
<1>1. ASSUME NEW c \in Chunk, Modify(c) \/ DeleteChunk(c) \/ ReadElsewhere(c) \/ ReadChunk(c)
                  \/ PublishChunk(c) \/ Expire(c)
      PROVE  image' = image
  BY <1>1 DEF storedVars, Modify, DeleteChunk, ReadElsewhere, ReadChunk, PublishChunk, Expire
<1>2. CASE NeighbourScan \/ NewTask \/ Cancel \/ UNCHANGED vars
  BY <1>2 DEF storedVars, NeighbourScan, NewTask, Cancel, vars
<1>3. ASSUME NEW w \in Worker,
             \/ EnterWork(w) \/ Refuse(w) \/ ListChunks(w) \/ ListFails(w) \/ Scan(w)
             \/ Warm(w) \/ Claim(w) \/ KeepTile(w) \/ RenderTile(w) \/ AwaitChunk(w)
             \/ BeginRender(w) \/ TileFails(w) \/ WriteState(w) \/ Complete(w)
      PROVE  image' = image
  BY <1>3 DEF storedVars, EnterWork, Refuse, ListChunks, ListFails, Scan, Warm, Claim, ClaimTile,
       KeepTile, RenderTile, AwaitChunk, BeginRender, TileFails, WriteState, Complete
<1>4. ASSUME NEW w \in Worker, DeleteTile(w) \/ RejectTile(w) \/ Draw(w)
      PROVE  \/ (DeleteTile(w) \/ RejectTile(w)) /\ Stored(tile[w], NoImage)
             \/ Draw(w) /\ Stored(tile[w], Seen(tile[w]))
  BY <1>4 DEF DeleteTile, RejectTile, Draw, Unrender
<1> QED
  BY NextActions, <1>1, <1>2, <1>3, <1>4

\* No tile shows more than the world lists.
LEMMA ImagesStep ==
    ASSUME RegionInv, Quiet, ChunksSound, LoadsSound, ImagesSound, [Next]_vars
    PROVE  ImagesSound'
<1>1. /\ WorldOK /\ CacheOK /\ StoredOK /\ PlanOK /\ CallsOK
      /\ Tile' = Tile /\ Footprint' = Footprint /\ Own' = Own
  BY SettingStays DEF RegionInv, Control
<1>2. \A c \in Own : c \in Chunk /\ world[c] \in Nat /\ world[c] <= world'[c]
  BY <1>1, ChunksStep, Numbers
<1>3. world' \in [Chunk -> Stamp] /\ Stamp' = Stamp /\ Stamp \subseteq Nat
  BY <1>1, SettingStays, WorldStep, Numbers DEF WorldOK
<1> SUFFICES ASSUME NEW t \in Tile, image'[t] # NoImage, NEW c \in OwnOf(t)
             PROVE  image'[t][c] <= world'[c]
  BY <1>1 DEF ImagesSound, OwnOf
<1>4. c \in Own /\ c \in Footprint[t] /\ c \in Chunk /\ world'[c] \in Nat
  BY <1>2, <1>3 DEF OwnOf
<1>5. CASE image'[t] = image[t]
  <2>1. image[t][c] <= world[c] /\ image[t][c] \in Nat \cup {Errored}
    BY <1>1, <1>3, <1>4, <1>5 DEF ImagesSound, StoredOK
  <2> QED
    BY <1>2, <1>4, <1>5, <2>1 DEF Errored
<1>6. ASSUME NEW w \in Worker, Draw(w), image'[t] = Seen(tile[w]), tile[w] = t
      PROVE  image'[t][c] <= world'[c]
  <2>1. Seen(t)[c] = cached[c] /\ Past(cached[c], c)
    BY <1>4, <1>6, SeenFresh DEF Draw
  <2> QED
    BY <1>2, <1>4, <1>6, <2>1 DEF Past
<1>7. ASSUME NEW w \in Worker, NEW new, Stored(tile[w], new)
      PROVE  image'[t] = image[t] \/ (tile[w] = t /\ image'[t] = new)
  BY <1>1, <1>7 DEF Stored, StoredOK
<1> QED
  BY <1>5, <1>6, <1>7, ImageChanges

\* The steps that leave alone what the states are about.
LEMMA RecordsKept ==
    ASSUME RegionInv, PlansSound, RecordsSound, [Next]_vars,
           UNCHANGED <<known, hashes, actions, state, image, result, done>>,
           \A v \in Worker : /\ pc[v] = "write" <=> pc'[v] = "write"
                             /\ pc[v] = "write" => tile'[v] = tile[v]
    PROVE  PlansSound' /\ RecordsSound'
<1>1. Tile' = Tile /\ Footprint' = Footprint /\ Own' = Own
  BY SettingStays
<1>2. PlansSound'
  BY <1>1 DEF PlansSound, OwnOf
<1>3. \A t \in Tile : (\A w \in Worker : pc'[w] = "write" => tile'[w] # t) =>
            (\A w \in Worker : pc[w] = "write" => tile[w] # t)
  OBVIOUS
<1>4. RecordsSound'
  BY <1>1, <1>3 DEF RecordsSound, OwnOf
<1> QED
  BY <1>2, <1>4

\* A call that has its tile settles on a state that is as the hashes say.
LEMMA SettledRecords ==
    ASSUME RegionInv, PlansSound, RecordsSound, [Next]_vars,
           NEW w \in OnTile, pc[w] # "write", NEW s, Settled(w, s),
           UNCHANGED <<known, hashes, actions, state, tile, done>>,
           \A t \in Tile \ {tile[w]} : image'[t] = image[t],
           AsRecorded(s, image'[tile[w]], known, OwnOf(tile[w])),
           hashes # NoHashes => AsRecorded(s, image'[tile[w]], hashes, OwnOf(tile[w]))
    PROVE  PlansSound' /\ RecordsSound'
<1>1. /\ Tile' = Tile /\ Footprint' = Footprint /\ Own' = Own
      /\ w \in Worker /\ CallsOK /\ StoredOK /\ done \subseteq Tile
  BY SettingStays DEF RegionInv, Control, CallsOK, OnTile
<1>2. /\ \A v \in Worker : pc'[v] = IF v = w THEN "write" ELSE pc[v]
      /\ \A v \in Worker : result'[v] = IF v = w THEN s ELSE result[v]
      /\ \A v \in Worker : tile[v] \in Tile
  BY <1>1 DEF Settled, CallsOK, StoredOK
<1>3. /\ tile[w] \in Tile /\ tile[w] \notin done
      /\ \A v \in Worker \ {w} : pc[v] = "write" => tile[v] # tile[w]
  BY AloneOnTile DEF RegionInv
<1>4. PlansSound'
  BY <1>1 DEF PlansSound, OwnOf
<1>5. ASSUME NEW t \in Tile, \A v \in Worker : pc'[v] = "write" => tile[v] # t
      PROVE  AsRecorded(state[t], image'[t], known, OwnOf(t))
  <2>1. t # tile[w] /\ \A v \in Worker : pc[v] = "write" => tile[v] # t
    BY <1>1, <1>2, <1>5
  <2> QED
    BY <2>1 DEF RecordsSound
<1>6. ASSUME NEW v \in Worker, pc'[v] = "write"
      PROVE  /\ AsRecorded(result'[v], image'[tile[v]], known, OwnOf(tile[v]))
             /\ hashes # NoHashes =>
                    AsRecorded(result'[v], image'[tile[v]], hashes, OwnOf(tile[v]))
  <2>1. CASE v = w
    BY <1>2, <2>1
  <2>2. CASE v # w
    <3>1. pc[v] = "write" /\ result'[v] = result[v] /\ image'[tile[v]] = image[tile[v]]
      BY <1>2, <1>3, <1>6, <2>2
    <3> QED
      BY <3>1 DEF RecordsSound
  <2> QED
    BY <2>1, <2>2
<1>7. hashes # NoHashes =>
        \A t \in done : AsRecorded(state[t], image'[t], hashes, OwnOf(t))
  BY <1>1, <1>3 DEF RecordsSound
<1>8. RecordsSound'
  BY <1>1, <1>5, <1>6, <1>7 DEF RecordsSound, OwnOf
<1> QED
  BY <1>4, <1>8

\* An unforced and unchanged tile is one whose hashes are the recorded ones.
LEMMA UnchangedAction ==
    ASSUME NEW s \in {"RENDERED", "RENDERED_EDGE", "NOT_GENERATED"}, NEW l \in Situation,
           NEW changed \in BOOLEAN, FindActionAndNextState(s, changed, l).action = "NONE"
    PROVE  ~changed
BY DEF FindActionAndNextState, Resolved, Situation

\* Every way out of #processTile settles as the hashes say.
LEMMA WaysOutRecord ==
    ASSUME RegionInv, Quiet, ChunksSound, LoadsSound, PlansSound, RecordsSound, [Next]_vars,
           NEW w \in Worker,
           KeepTile(w) \/ DeleteTile(w) \/ RejectTile(w) \/ Draw(w) \/ TileFails(w)
    PROVE  PlansSound' /\ RecordsSound'
<1>1. w \in OnTile /\ pc[w] # "write"
  BY DEF OnTile, KeepTile, DeleteTile, RejectTile, Draw, TileFails
<1>2. /\ WorldOK /\ CacheOK /\ StoredOK /\ PlanOK /\ CallsOK /\ Tile' = Tile
      /\ DOMAIN image = Tile /\ tile[w] \in Tile /\ tile[w] \notin done
      /\ \A v \in Worker : pc[v] = "write" => tile[v] # tile[w]
  BY <1>1, AloneOnTile, SettingStays DEF RegionInv, Control, StoredOK
<1>3. PlanFor(Planning(w), state[tile[w]], layout[tile[w]])
  BY <1>1, PlanInHand DEF RegionInv
<1>4. UNCHANGED <<known, hashes, actions, state, tile, done>>
  BY DEF KeepTile, DeleteTile, RejectTile, Draw, TileFails, storedVars, taskVars, history
<1>5. ASSUME NEW new, Stored(tile[w], new)
      PROVE  /\ \A t \in Tile \ {tile[w]} : image'[t] = image[t]
             /\ image'[tile[w]] = new
  BY <1>2, <1>5, QuietMeans DEF Stored
<1>6. ASSUME NEW s, Settled(w, s), s \notin {"RENDERED", "RENDERED_EDGE", "NOT_GENERATED"},
             \A t \in Tile \ {tile[w]} : image'[t] = image[t]
      PROVE  PlansSound' /\ RecordsSound'
  <2>1. \A h : AsRecorded(s, image'[tile[w]], h, OwnOf(tile[w]))
    BY <1>6 DEF AsRecorded
  <2> QED
    BY <1>1, <1>4, <1>6, <2>1, SettledRecords
<1>7. CASE KeepTile(w)
  <2>1. /\ Settled(w, state[tile[w]]) /\ image' = image /\ Planning(w).action = "NONE"
    BY <1>3, <1>7 DEF KeepTile, storedVars, PlanFor
  <2>2. AsRecorded(state[tile[w]], image[tile[w]], known, OwnOf(tile[w]))
    BY <1>2 DEF RecordsSound
  <2>3. actions # NoActions
    BY <1>1 DEF RegionInv, Control, CursorInPlace
  <2>4. AsRecorded(state[tile[w]], image[tile[w]], hashes, OwnOf(tile[w]))
    BY <1>2, <2>1, <2>2, <2>3 DEF PlansSound, Planning, AsRecorded
  <2> QED
    BY <1>1, <1>4, <2>1, <2>2, <2>4, SettledRecords
<1>8. CASE DeleteTile(w)
  <2>1. /\ Settled(w, "OUT_OF_BOUNDS") /\ Stored(tile[w], NoImage)
    BY <1>3, <1>8 DEF DeleteTile, Unrender, PlanFor
  <2> QED
    BY <1>5, <1>6, <2>1
<1>9. CASE TileFails(w)
  <2>1. Settled(w, "RENDER_ERROR") /\ image' = image
    BY <1>9 DEF TileFails, StateOnFailure, storedVars
  <2> QED
    BY <1>6, <2>1
<1>10. CASE RejectTile(w)
  <2>1. /\ Stored(tile[w], NoImage) /\ pc[w] \in {"preload", "render"} /\ Loaded(w)
        /\ Footprint[tile[w]] # {}
    BY <1>2, <1>10, SettingFacts DEF RejectTile, Unrender, WorldOK
  <2>2. CASE Settled(w, "CHUNK_ERROR")
    BY <1>5, <1>6, <2>1, <2>2
  <2>3. CASE ~Settled(w, "CHUNK_ERROR")
    <3>1. Settled(w, "NOT_GENERATED") /\ \E c \in Footprint[tile[w]] : Seen(tile[w])[c] = 0
      BY <1>10, <2>1, <2>3, Rejects
    <3>2. PICK c \in Footprint[tile[w]] : Seen(tile[w])[c] = 0
      BY <3>1
    <3>3. /\ Past(0, c)
          /\ c \in Own => hashes # NoHashes /\ Fresh(0, c)
      BY <2>1, <3>2, SeenFresh
    <3>4. c \in OwnOf(tile[w]) /\ c \in Own /\ hashes # NoHashes /\ Fresh(0, c)
      BY <3>2, <3>3 DEF Past, OwnOf
    <3>5. hashes[c] = 0
      BY <1>2, <3>4, Numbers DEF Fresh
    <3>6. known[c] = 0
      BY <1>2, <3>4, <3>5, Numbers DEF ChunksSound, HashesSound
    <3>7. \A i : /\ AsRecorded("NOT_GENERATED", i, known, OwnOf(tile[w]))
                 /\ AsRecorded("NOT_GENERATED", i, hashes, OwnOf(tile[w]))
      BY <3>4, <3>5, <3>6 DEF AsRecorded
    <3> QED
      BY <1>1, <1>4, <1>5, <2>1, <3>1, <3>7, SettledRecords
  <2> QED
    BY <2>2, <2>3
<1>11. CASE Draw(w)
  <2>1. /\ Settled(w, Planning(w).state) /\ Stored(tile[w], Seen(tile[w]))
        /\ pc[w] \in {"preload", "render"} /\ Loaded(w)
    BY <1>11 DEF Draw
  <2>2. Planning(w).state \in {"RENDERED", "RENDERED_EDGE"}
    BY <1>3, <2>1 DEF PlanFor, RegionInv, Tells, Renders
  <2>3. Seen(tile[w]) # NoImage
    <3>1. DOMAIN Seen(tile[w]) = Footprint[tile[w]] /\ Footprint[tile[w]] # {}
      BY <1>2, SettingFacts DEF Seen, WorldOK
    <3>2. DOMAIN NoImage = {}
      BY DEF NoImage
    <3> QED
      BY <3>1, <3>2
  <2>4. ASSUME NEW c \in OwnOf(tile[w])
        PROVE  hashes[c] <= Seen(tile[w])[c] /\ known[c] <= Seen(tile[w])[c]
    <3>1. /\ c \in Own /\ hashes # NoHashes
          /\ Seen(tile[w])[c] = cached[c] /\ Past(cached[c], c) /\ Fresh(cached[c], c)
      BY <2>1, <2>4, SeenFresh DEF OwnOf
    <3>2. /\ hashes[c] <= scannedAt /\ known[c] <= hashes[c]
          /\ hashes[c] \in Nat /\ known[c] \in Nat /\ scannedAt \in Nat /\ world[c] \in Nat
      BY <1>2, <3>1, Numbers DEF ChunksSound, HashesSound
    <3>3. cached[c] \in Nat
      BY <3>1, <3>2 DEF Past
    <3> QED
      BY <3>1, <3>2, <3>3 DEF Fresh
  <2>5. /\ AsRecorded(Planning(w).state, Seen(tile[w]), known, OwnOf(tile[w]))
        /\ AsRecorded(Planning(w).state, Seen(tile[w]), hashes, OwnOf(tile[w]))
    BY <2>2, <2>3, <2>4 DEF AsRecorded
  <2> QED
    BY <1>1, <1>4, <1>5, <2>1, <2>5, SettledRecords
<1> QED
  BY <1>7, <1>8, <1>9, <1>10, <1>11

\* A written state is one that was settled.
LEMMA WriteRecords ==
    ASSUME RegionInv, PlansSound, RecordsSound, [Next]_vars, NEW w \in Worker, WriteState(w)
    PROVE  PlansSound' /\ RecordsSound'
<1>1. /\ Tile' = Tile /\ Footprint' = Footprint /\ Own' = Own
      /\ CallsOK /\ StoredOK /\ w \in OnTile
  BY SettingStays DEF RegionInv, Control, OnTile, WriteState
<1>2. /\ pc[w] = "write" /\ \A v \in Worker : v # w => pc'[v] = pc[v]
      /\ pc'[w] # "write" /\ done' = done \cup {tile[w]}
      /\ \A t \in Tile : state'[t] = IF t = tile[w] THEN result[w] ELSE state[t]
      /\ UNCHANGED <<known, hashes, actions, image, result, tile>>
  BY <1>1 DEF CallsOK, StoredOK, WriteState
<1>3. /\ tile[w] \in Tile /\ done \subseteq Tile
      /\ \A v \in Worker \ {w} : pc[v] = "write" => tile[v] # tile[w]
  BY <1>1, AloneOnTile DEF RegionInv, CallsOK
<1>4. PlansSound'
  BY <1>1, <1>2 DEF PlansSound, OwnOf
<1>5. ASSUME NEW t \in Tile, \A v \in Worker : pc'[v] = "write" => tile[v] # t
      PROVE  AsRecorded(state'[t], image[t], known, OwnOf(t))
  <2>1. CASE t = tile[w]
    BY <1>2, <2>1 DEF RecordsSound
  <2>2. CASE t # tile[w]
    <3>1. \A v \in Worker : pc[v] = "write" => tile[v] # t
      BY <1>2, <1>5, <2>2
    <3> QED
      BY <1>2, <2>2, <3>1 DEF RecordsSound
  <2> QED
    BY <2>1, <2>2
<1>6. hashes # NoHashes =>
        \A t \in done' : AsRecorded(state'[t], image[t], hashes, OwnOf(t))
  BY <1>2, <1>3 DEF RecordsSound
<1>7. \A v \in Worker : pc'[v] = "write" => pc[v] = "write"
  BY <1>2
<1>8. RecordsSound'
  BY <1>1, <1>2, <1>5, <1>6, <1>7 DEF RecordsSound, OwnOf
<1> QED
  BY <1>4, <1>8

\* The listed hashes are recorded behind the last tile.
LEMMA CompleteRecords ==
    ASSUME RegionInv, PlansSound, RecordsSound, [Next]_vars, NEW w \in Worker, Complete(w)
    PROVE  PlansSound' /\ RecordsSound'
<1>1. /\ Tile' = Tile /\ Footprint' = Footprint /\ Own' = Own /\ CallsOK /\ WorldOK
      /\ OnTile = {} /\ cursor = TileCount + 1
  BY SettingStays DEF RegionInv, Control, LastToLeave, Complete
<1>2. \A t \in Tile : t \in done
  <2>1. \A t \in Tile : t < cursor
    BY <1>1, SettingFacts DEF WorldOK
  <2> QED
    BY <1>1, <2>1 DEF RegionInv, Control, HandedOut, InHand
<1>3. /\ \A v \in Worker : pc[v] # "write"
      /\ \A v \in Worker : pc'[v] # "write"
  BY <1>1 DEF OnTile, Complete, CallsOK
<1>4. /\ known' = RecordedHashes /\ hashes' = NoHashes /\ actions' = NoActions
      /\ UNCHANGED <<state, image, result, done>>
  BY DEF Complete, history
<1>5. \A t \in Tile : AsRecorded(state[t], image[t], known', OwnOf(t))
  BY <1>2, <1>3, <1>4 DEF RecordsSound, RecordedHashes
<1>6. RecordsSound'
  BY <1>1, <1>3, <1>4, <1>5 DEF RecordsSound, OwnOf
<1> QED
  BY <1>4, <1>6 DEF PlansSound

\* New hashes are listed when no tile is done or in hand and no plan is made.
LEMMA ListRecords ==
    ASSUME RegionInv, LoadsSound, PlansSound, RecordsSound, [Next]_vars,
           NEW w \in Worker, ListChunks(w)
    PROVE  PlansSound' /\ RecordsSound'
<1>1. /\ Tile' = Tile /\ Footprint' = Footprint /\ Own' = Own /\ CallsOK /\ WorldOK
      /\ OnTile = {} /\ cursor = 1
  BY ListedAlone, SettingStays DEF RegionInv, Control
<1>2. \A t \in Tile : t \notin done
  BY <1>1, SettingFacts DEF RegionInv, Control, HandedOut, WorldOK
<1>3. actions = NoActions
  <2>1. \A v \in Worker : pc[v] \notin {"warm", "inited"}
    BY DEF RegionInv, Control, InitAtHead, Inits, ListChunks, ItsTurn
  <2> QED
    BY <1>1, <2>1 DEF LoadsSound, PlanAwaited, ListChunks
<1>4. /\ \A v \in Worker : pc[v] # "write"
      /\ \A v \in Worker : pc'[v] # "write"
  BY <1>1 DEF OnTile, ListChunks, CallsOK
<1>5. done = {} /\ UNCHANGED <<known, actions, state, image, done>>
  BY <1>1, <1>2 DEF ListChunks, storedVars, CallsOK
<1>6. RecordsSound'
  BY <1>1, <1>4, <1>5 DEF RecordsSound, OwnOf
<1> QED
  BY <1>3, <1>5, <1>6 DEF PlansSound

\* A tile is left alone because its chunks are as they were recorded.
LEMMA ScanRecords ==
    ASSUME RegionInv, PlansSound, RecordsSound, [Next]_vars, NEW w \in Worker, Scan(w)
    PROVE  PlansSound' /\ RecordsSound'
<1>1. /\ Tile' = Tile /\ Footprint' = Footprint /\ Own' = Own
      /\ CallsOK /\ WorldOK /\ StoredOK /\ PlanOK /\ OnTile = {}
  BY ListedAlone, SettingStays DEF RegionInv, Control, Scan
<1>2. /\ \A v \in Worker : pc[v] # "write"
      /\ \A v \in Worker : pc'[v] # "write"
  BY <1>1 DEF OnTile, Scan, CallsOK
<1>3. UNCHANGED <<known, hashes, state, image, done>>
  BY DEF Scan, storedVars, history
<1>4. ASSUME NEW t \in Tile, actions'[t].action = "NONE",
             state[t] \in {"RENDERED", "RENDERED_EDGE", "NOT_GENERATED"}
      PROVE  \A c \in OwnOf(t) : known[c] = hashes[c]
  <2>1. layout[t] \in Situation
    BY <1>1, SettingFacts DEF PlanOK, WorldOK
  <2>2. actions'[t] = FindActionAndNextState(state[t],
                        Forced(state[t]) \/ ChunksHaveChanges(t), layout[t])
    BY DEF Scan
  <2>3. (Forced(state[t]) \/ ChunksHaveChanges(t)) \in BOOLEAN
    BY DEF Forced, ChunksHaveChanges
  <2>4. ~(Forced(state[t]) \/ ChunksHaveChanges(t))
    BY <1>4, <2>1, <2>2, <2>3, UnchangedAction
  <2> QED
    BY <2>4 DEF ChunksHaveChanges, OwnOf
<1>5. PlansSound'
  BY <1>1, <1>3, <1>4 DEF PlansSound, OwnOf
<1>6. RecordsSound'
  BY <1>1, <1>2, <1>3 DEF RecordsSound, OwnOf
<1> QED
  BY <1>5, <1>6

\* Every step keeps plans, states and hashes together.
LEMMA TilesStep ==
    ASSUME RegionInv, Quiet, ChunksSound, LoadsSound, TilesSound, [Next]_vars
    PROVE  TilesSound'
<1> USE DEF TilesSound
<1>1. ImagesSound' /\ CallsOK
  BY ImagesStep DEF RegionInv, Control
<1> SUFFICES PlansSound' /\ RecordsSound'
  BY <1>1
<1>2. ASSUME UNCHANGED <<known, hashes, actions, state, image, result, done>>,
             \A v \in Worker : /\ pc[v] = "write" <=> pc'[v] = "write"
                               /\ pc[v] = "write" => tile'[v] = tile[v]
      PROVE  PlansSound' /\ RecordsSound'
  BY <1>2, RecordsKept
<1>3. ASSUME NEW c \in Chunk, Modify(c) \/ DeleteChunk(c) \/ ReadElsewhere(c) \/ ReadChunk(c)
                  \/ PublishChunk(c) \/ Expire(c)
      PROVE  PlansSound' /\ RecordsSound'
  BY <1>2, <1>3 DEF storedVars, taskVars, callVars, history, Modify, DeleteChunk, ReadElsewhere,
       ReadChunk, PublishChunk, Expire
<1>4. CASE NeighbourScan \/ Cancel \/ UNCHANGED vars
  BY <1>2, <1>4 DEF storedVars, taskVars, callVars, history, NeighbourScan, Cancel, vars
<1>5. CASE NewTask
  <2>1. /\ actions' = NoActions /\ hashes' = NoHashes /\ UNCHANGED <<known, state, image>>
        /\ \A v \in Worker : pc[v] = "out" /\ pc'[v] = "out"
    BY <1>5 DEF NewTask, storedVars, callVars
  <2>2. Tile' = Tile /\ Footprint' = Footprint /\ Own' = Own
    BY SettingStays
  <2> QED
    BY <2>1, <2>2 DEF PlansSound, RecordsSound, OwnOf
<1>6. ASSUME NEW w \in Worker,
             \/ EnterWork(w) \/ Refuse(w) \/ ListFails(w) \/ Warm(w) \/ Claim(w)
             \/ RenderTile(w) \/ AwaitChunk(w) \/ BeginRender(w)
      PROVE  PlansSound' /\ RecordsSound'
  <2>1. UNCHANGED <<known, hashes, actions, state, image, result, done>>
    BY <1>6 DEF storedVars, taskVars, history, EnterWork, Refuse, ListFails, Warm, Claim,
         ClaimTile, RenderTile, AwaitChunk, BeginRender
  <2>2. /\ pc[w] # "write"
        /\ pc' = pc \/ \E p : p # "write" /\ pc' = [pc EXCEPT ![w] = p]
    BY <1>6 DEF EnterWork, Refuse, ListFails, Warm, Claim, ClaimTile, RenderTile, AwaitChunk,
         BeginRender
  <2>3. tile' = tile \/ \E t : tile' = [tile EXCEPT ![w] = t]
    BY <1>6 DEF EnterWork, Refuse, ListFails, Warm, Claim, ClaimTile, RenderTile, AwaitChunk,
         BeginRender
  <2>4. \A v \in Worker : /\ pc[v] = "write" <=> pc'[v] = "write"
                          /\ pc[v] = "write" => tile'[v] = tile[v]
    BY <1>1, <2>2, <2>3 DEF CallsOK
  <2> QED
    BY <1>2, <2>1, <2>4
<1>7. ASSUME NEW w \in Worker,
             KeepTile(w) \/ DeleteTile(w) \/ RejectTile(w) \/ Draw(w) \/ TileFails(w)
      PROVE  PlansSound' /\ RecordsSound'
  BY <1>7, WaysOutRecord
<1>8. ASSUME NEW w \in Worker, WriteState(w) \/ Complete(w) \/ ListChunks(w) \/ Scan(w)
      PROVE  PlansSound' /\ RecordsSound'
  BY <1>8, WriteRecords, CompleteRecords, ListRecords, ScanRecords
<1> QED
  BY NextActions, <1>1, <1>3, <1>4, <1>5, <1>6, <1>7, <1>8

-----------------------------------------------------------------------------
(* The invariant, and what it gives *)

\* Nothing was read, listed or recorded.
LEMMA InitQuiet == Init => QuietInv
<1> SUFFICES ASSUME Init PROVE QuietInv
  OBVIOUS
<1>1. /\ WorldOK /\ Own \subseteq Chunk
      /\ setting \in Settings
  BY InitRegionInv, SettingFacts DEF RegionInv, WorldOK
<1>2. /\ clock = 1 /\ scannedAt = 0 /\ hashes = NoHashes /\ actions = NoActions
      /\ \A c \in Chunk : /\ world[c] \in {0, 1} /\ (c \notin Own => world[c] = 1)
                          /\ cached[c] = NotCached /\ flight[c] = NotCached
      /\ \A c \in Own : known[c] = 0
      /\ \A w \in Worker : pc[w] = "out"
      /\ \A t \in Tile : state[t] = "UNKNOWN" /\ image[t] = NoImage
  BY DEF Init
<1>3. ChunksSound
  BY <1>1, <1>2 DEF ChunksSound, WorldSound, CacheSound, HashesSound
<1>4. LoadsSound
  BY <1>2 DEF LoadsSound, PlanHasHashes, PlanAwaited, ChunksStay
<1>5. TilesSound
  BY <1>2 DEF TilesSound, ImagesSound, PlansSound, RecordsSound, AsRecorded
<1> QED
  BY <1>3, <1>4, <1>5 DEF QuietInv

\* Every reachable state of a Quiet setting has the invariant.
THEOREM QuietInvariant == Spec => []QuietInv
<1>1. RegionInv /\ QuietInv /\ [Next]_vars => QuietInv'
  <2> SUFFICES ASSUME RegionInv, QuietInv, [Next]_vars, Quiet' PROVE QuietInv'
    BY DEF QuietInv
  <2>1. Quiet
    BY SettingStays DEF Quiet
  <2> QED
    BY <2>1, ChunksStep, LoadsStep, TilesStep DEF QuietInv
<1> QED
  BY InitQuiet, RegionInvariant, <1>1, PTL DEF Spec

\* Where the recorded hashes equal what the world lists now, so that the next update
\* skips the tile, a rendered tile shows what the world lists now: #complete never
\* records a chunk that a tile it covers has missed (WorldRegionUpdateTask.ts).
THEOREM RecordedIsCurrentAlways == Spec => []RecordedIsCurrent
<1>1. RegionInv /\ QuietInv => RecordedIsCurrent
  <2> SUFFICES ASSUME RegionInv, QuietInv, Quiet, NEW t \in Tile,
                      state[t] \in {"RENDERED", "RENDERED_EDGE"},
                      \A w \in OnTile : tile[w] # t,
                      \A c \in Footprint[t] \cap Own : known[c] = world[c],
                      NEW c \in Footprint[t] \cap Own
               PROVE  image[t] # NoImage /\ image[t][c] = world[c]
    BY DEF RecordedIsCurrent
  <2>1. \A w \in Worker : pc[w] = "write" => tile[w] # t
    BY DEF OnTile
  <2>2. AsRecorded(state[t], image[t], known, OwnOf(t))
    BY <2>1 DEF QuietInv, TilesSound, RecordsSound
  <2>3. image[t] # NoImage /\ world[c] <= image[t][c]
    BY <2>2 DEF AsRecorded, OwnOf
  <2>4. image[t][c] <= world[c]
    BY <2>3 DEF QuietInv, TilesSound, ImagesSound, OwnOf
  <2>5. WorldOK /\ CacheOK /\ StoredOK /\ PlanOK /\ c \in Footprint[t] /\ c \in Own
    BY DEF RegionInv
  <2>6. image[t][c] \in Nat \cup {Errored} /\ world[c] \in Nat
    BY <2>3, <2>5, Numbers DEF StoredOK
  <2> QED
    BY <2>3, <2>4, <2>6 DEF Errored
<1> QED
  BY <1>1, RegionInvariant, QuietInvariant, PTL

\* A tile whose chunks are all generated is not recorded as ungenerated: what a missing
\* chunk reads as is never taken for what the world lists (preloadTileChunks).
THEOREM GeneratedTilesKeptAlways == Spec => []GeneratedTilesKeptQuiet
<1>1. QuietInv => GeneratedTilesKeptQuiet
  <2> SUFFICES ASSUME QuietInv, Quiet, NEW t \in Tile, state[t] = "NOT_GENERATED",
                      \A w \in OnTile : tile[w] # t,
                      \A c \in Footprint[t] \cap Own : known[c] = world[c]
               PROVE  \E c \in Footprint[t] : world[c] = 0
    BY DEF GeneratedTilesKeptQuiet, GeneratedTilesKept
  <2>1. \A w \in Worker : pc[w] = "write" => tile[w] # t
    BY DEF OnTile
  <2>2. AsRecorded(state[t], image[t], known, OwnOf(t))
    BY <2>1 DEF QuietInv, TilesSound, RecordsSound
  <2>3. PICK c \in OwnOf(t) : known[c] = 0
    BY <2>2 DEF AsRecorded
  <2> QED
    BY <2>3 DEF OwnOf
<1> QED
  BY <1>1, QuietInvariant, PTL

\* No tile is drawn from a chunk that is older than the scan whose hashes are going to
\* be recorded, wherever the workers and the loads are suspended when chunks change.
THEOREM DrawnFreshAlways == Spec => NoStaleTerrainQuiet
<1>1. RegionInv /\ QuietInv /\ [Next]_vars => [Quiet => DrawnFresh]_vars
  <2> SUFFICES ASSUME RegionInv, QuietInv, Quiet, NEW w \in Worker, Draw(w),
                      NEW c \in Footprint[tile[w]] \cap Own
               PROVE  Seen(tile[w])[c] = hashes[c] \/ Seen(tile[w])[c] > scannedAt
    BY DEF DrawnFresh
  <2>1. Seen(tile[w])[c] = cached[c] /\ Fresh(cached[c], c)
    BY SeenFresh DEF Draw, QuietInv
  <2> QED
    BY <2>1 DEF Fresh
<1> QED
  BY RegionInvariant, QuietInvariant, <1>1, PTL DEF Spec, NoStaleTerrainQuiet

=============================================================================
