------------------------------ MODULE CellStorage ------------------------------
(***************************************************************************)
(* The render state of a map in bounded caches of cells: CellStorage.ts in   *)
(* engine/src/map/renderstate/ under MapTileState, MapChunkState and         *)
(* MapRegionState.  A cell that is missing is loaded and one too many is     *)
(* written and dropped, both with awaits in between.                         *)
(*                                                                          *)
(* A caller of get or set is at                                              *)
(*   "read"    awaiting the file of the cell it misses                       *)
(*   "insert"  awaiting its decompression; data is what it read              *)
(*   "evict"   awaiting the write of data, a cell it put out of the cache    *)
(*   "return"  about to look at the cell it was given                        *)
(***************************************************************************)
EXTENDS Integers, Sequences, FiniteSets, SequencesExt

CONSTANTS
    Pos,         \* the positions of cells
    Slot,        \* what a cell keeps a value for: tiles, chunks or regions
    Value,       \* the values set, with 0, what a fresh cell has everywhere
    CacheSize,   \* CACHE_SIZE
    Callers,     \* the numbers of workers to look at
    MaxCalls,    \* bound: MaxCalls[n] calls with n workers
    MaxSaves,    \* bound: saves
    MaxErrors    \* bound: reads and writes that fail

Missing == << >>   \* no file, no victim

ASSUME CellStorageAssumption ==
    /\ Missing \notin Pos
    /\ Value \subseteq Nat /\ 0 \in Value
    /\ CacheSize \in Nat \ {0}
    /\ Callers \subseteq Nat \ {0}
    /\ MaxCalls \in [Callers -> Nat]
    /\ {MaxSaves, MaxErrors} \subseteq Nat

VARIABLES
    callers,   \* the number of workers
    cells,     \* the cache: positions with their instance, the eldest first
    heap,      \* the instances: what they hold, and modified
    stored,    \* the files, Missing for none
    call,      \* what each worker's call is at
    saving,    \* what a save has to write, the first with its bytes; what it could not
    want,      \* what was set last
    raced,     \* the cells loaded or evicted while somebody else used them
    failed,    \* the cells that could not be read, or not be written when evicted
    calls, saves, errors

cacheVars == <<cells, heap, stored>>
ghosts == <<want, raced, failed>>
bounds == <<calls, saves, errors>>
vars == <<callers, cacheVars, call, saving, ghosts, bounds>>

Fresh == [s \in Slot |-> 0]
Content == [Slot -> Value]
Get == -1
Idle == [at |-> "idle"]
Worker == 1..callers

Saving == saving.todo # << >>

-----------------------------------------------------------------------------
(* Cells in use *)

\* Somebody other than caller c works on the cell at p.
UsedBesides(c, p) ==
    \/ \E d \in Worker \ {c} : call[d] # Idle /\ (call[d].pos = p \/ call[d].victim = p)
    \/ \E e \in Range(saving.todo) : e.pos = p

Races(c, p) == IF UsedBesides(c, p) THEN {p} ELSE {}

\* Instances nothing refers to any more are gone.
Collected(h) ==
    LET live == {<<e.pos, e.id>> : e \in Range(cells') \cup Range(saving'.todo)}
                \cup {<<call'[c].pos, call'[c].id>> : c \in {d \in Worker : call'[d].at # "idle"}}
    IN [i \in DOMAIN h \cap live |-> h[i]]

NewId(p) == CHOOSE n \in 1..Cardinality(DOMAIN heap) + 1 :
    /\ <<p, n>> \notin DOMAIN heap
    /\ \A m \in 1..n - 1 : <<p, m>> \in DOMAIN heap

Cached(p) == {e.id : e \in {f \in Range(cells) : f.pos = p}}

-----------------------------------------------------------------------------
(* cell, get and set *)

\* A hit is deleted and inserted again, and so becomes the youngest.
Youngest(i) == Append(RemoveAt(cells, i), cells[i])

\* get(s) of the cell at p if v = Get, or set(s, v): a hit is found at once, a miss
\* is read.  delete(s) is set(s, 0).
Call(c, p, s, v) ==
    /\ call[c] = Idle
    /\ calls < MaxCalls[callers]
    /\ callers = 1 => ~Saving
    /\ calls' = calls + 1
    /\ \/ /\ \E i \in DOMAIN cells :
                /\ cells[i].pos = p
                /\ cells' = Youngest(i)
                /\ call' = [call EXCEPT ![c] = [at |-> "return", pos |-> p, slot |-> s,
                       value |-> v, id |-> cells[i].id, data |-> Fresh, victim |-> Missing]]
          /\ UNCHANGED raced
       \/ /\ Cached(p) = {}
          /\ call' = [call EXCEPT ![c] = [at |-> "read", pos |-> p, slot |-> s,
                 value |-> v, id |-> 0, data |-> Fresh, victim |-> Missing]]
          /\ raced' = raced \cup Races(c, p)
          /\ UNCHANGED cells
    /\ UNCHANGED <<callers, heap, stored, saving, want, failed, saves, errors>>

\* What the file of the cell at p says; without one the cell is fresh.
File(p) == IF stored[p] = Missing THEN Fresh ELSE stored[p]

ReadCell(c) ==
    /\ call[c].at = "read"
    /\ call' = [call EXCEPT ![c].at = "insert", ![c].data = File(call[c].pos)]
    /\ UNCHANGED <<callers, cacheVars, saving, ghosts, bounds>>

\* The file cannot be read, or not be decoded and is deleted: a fresh cell is used.
ReadFails(c) ==
    /\ call[c].at = "read"
    /\ stored[call[c].pos] # Missing
    /\ errors < MaxErrors
    /\ errors' = errors + 1
    /\ failed' = failed \cup {call[c].pos}
    /\ call' = [call EXCEPT ![c].at = "insert", ![c].data = Fresh]
    /\ stored' \in {stored, [stored EXCEPT ![call[c].pos] = Missing]}
    /\ UNCHANGED <<callers, cells, heap, saving, want, raced, calls, saves>>

\* Fault: an entry that came meanwhile stays, besides the new one.
InsertedTwice(p, id) == Append(cells, [pos |-> p, id |-> id])

\* Map.set: an entry that came meanwhile is replaced where it is.
Inserted(p, id) ==
    LET entry == [pos |-> p, id |-> id]
    IN IF Cached(p) = {} THEN Append(cells, entry)
       ELSE [i \in DOMAIN cells |-> IF cells[i].pos = p THEN entry ELSE cells[i]]

\* saveCell writes modified cells only.
NeedsWrite(i) == heap[i].modified

\* The instances, with one that is not modified.
WithNew(new, data) ==
    [i \in DOMAIN heap \cup {new} |->
        IF i = new THEN [data |-> data, modified |-> FALSE] ELSE heap[i]]

\* The cell is put into the cache, and the eldest out of it if there are too many.
Insert(c) ==
    /\ call[c].at = "insert"
    /\ LET p == call[c].pos
           id == NewId(p)
           all == Inserted(p, id)
           full == Len(all) > CacheSize
           eldest == Head(all)
           gone == <<eldest.pos, eldest.id>>
           \* with room for one cell at least, the eldest is not the one inserted
           write == full /\ NeedsWrite(gone)
       IN /\ cells' = IF full THEN Tail(all) ELSE all
          /\ raced' = raced \cup (IF full THEN Races(c, eldest.pos) ELSE {})
                            \cup Races(c, p)
          /\ call' = [call EXCEPT ![c] = [@ EXCEPT
                    !.at = IF write THEN "evict" ELSE "return",
                    !.id = id,
                    !.victim = IF write THEN eldest.pos ELSE Missing,
                    !.data = IF write THEN heap[gone].data ELSE Fresh]]
          /\ UNCHANGED saving
          /\ heap' = Collected(WithNew(<<p, id>>, call[c].data))
    /\ UNCHANGED <<callers, stored, want, failed, bounds>>

\* The evicted cell is written, or the error is logged and its changes are gone.
EvictCell(c) ==
    /\ call[c].at = "evict"
    /\ \/ /\ stored' = [stored EXCEPT ![call[c].victim] = call[c].data]
          /\ UNCHANGED <<failed, errors>>
       \/ /\ errors < MaxErrors
          /\ errors' = errors + 1
          /\ failed' = failed \cup {call[c].victim}
          /\ UNCHANGED stored
    /\ call' = [call EXCEPT ![c].at = "return", ![c].victim = Missing, ![c].data = Fresh]
    /\ UNCHANGED <<callers, cells, heap, saving, want, raced, calls, saves>>

\* Fault: only the first change of a cell marks it.
MarkedOnce(i, s, v) == [heap[i] EXCEPT !.data[s] = v, !.modified = heap[i].data = Fresh]

\* set marks a cell whose value it changes; nothing ever clears the mark.
Marked(i, s, v) ==
    [heap[i] EXCEPT !.data[s] = v, !.modified = @ \/ heap[i].data[s] # v]

\* The caller gets its cell and reads it, or sets its value.
Return(c) ==
    /\ call[c].at = "return"
    /\ LET k == call[c]
           i == <<k.pos, k.id>>
           set == k.value # Get
       IN /\ call' = [call EXCEPT ![c] = Idle]
          /\ want' = IF set THEN [want EXCEPT ![k.pos][k.slot] = k.value] ELSE want
          /\ UNCHANGED <<cells, saving>>
          /\ heap' = Collected(IF set THEN [heap EXCEPT ![i] = Marked(i, k.slot, k.value)]
                               ELSE heap)
    /\ UNCHANGED <<callers, stored, raced, failed, bounds>>

-----------------------------------------------------------------------------
(* save and reset *)

\* save() goes on to the first of these entries that needs a write; its bytes are
\* taken then.
SavesOn(todo, unsaved) ==
    LET modified(e) == NeedsWrite(<<e.pos, e.id>>)
        next == SelectInSeq(todo, modified)
    IN IF next = 0 THEN [todo |-> << >>, data |-> Fresh, unsaved |-> unsaved]
       ELSE [todo |-> SubSeq(todo, next, Len(todo)),
             data |-> heap[<<todo[next].pos, todo[next].id>>].data, unsaved |-> unsaved]

\* A save of the entries the cache has now.  A single worker saves between calls.
Save ==
    /\ ~Saving
    /\ saves < MaxSaves
    /\ callers = 1 => \A c \in Worker : call[c] = Idle
    /\ saves' = saves + 1
    /\ saving' = SavesOn(cells, {})
    /\ UNCHANGED <<callers, cacheVars, call, ghosts, calls, errors>>

\* Fault: a write clears the mark, also of what was set since its bytes were taken.
WrittenClean(i) == [heap EXCEPT ![i].modified = FALSE]

\* A write leaves the instances alone: a cell once changed is written by every save.
Written(i) == heap

\* The entry is written, or the error is logged and the cell kept, still modified.
SaveWrite ==
    /\ Saving
    /\ UNCHANGED <<cells, call>>
    /\ LET p == Head(saving.todo).pos
           i == <<p, Head(saving.todo).id>>
       IN \/ /\ stored' = [stored EXCEPT ![p] = saving.data]
             /\ saving' = SavesOn(Tail(saving.todo), saving.unsaved)
             /\ heap' = Collected(Written(i))
             /\ UNCHANGED errors
          \/ /\ errors < MaxErrors
             /\ errors' = errors + 1
             /\ saving' = SavesOn(Tail(saving.todo), saving.unsaved \cup {p})
             /\ heap' = Collected(heap)
             /\ UNCHANGED stored
    /\ UNCHANGED <<callers, ghosts, calls, saves>>

\* A purge: the files are deleted, the cells dropped; nobody else uses the map.
Purge ==
    /\ ~Saving /\ \A c \in Worker : call[c] = Idle
    /\ stored # [p \in Pos |-> Missing]
    /\ stored' = [p \in Pos |-> Missing]
    /\ cells' = << >>
    /\ UNCHANGED <<call, saving>>
    /\ heap' = Collected(heap)
    /\ want' = [p \in Pos |-> Fresh] /\ raced' = {} /\ failed' = {}
    /\ UNCHANGED <<callers, bounds>>

-----------------------------------------------------------------------------
Init ==
    /\ callers \in Callers
    /\ cells = << >> /\ heap = << >>
    /\ stored = [p \in Pos |-> Missing]
    /\ call = [c \in Worker |-> Idle]
    /\ saving = [todo |-> << >>, data |-> Fresh, unsaved |-> {}]
    /\ want = [p \in Pos |-> Fresh] /\ raced = {} /\ failed = {}
    /\ calls = 0 /\ saves = 0 /\ errors = 0

Next ==
    \/ \E c \in Worker :
          \/ \E p \in Pos, s \in Slot, v \in Value \cup {Get} : Call(c, p, s, v)
          \/ ReadCell(c) \/ ReadFails(c) \/ Insert(c) \/ EvictCell(c) \/ Return(c)
    \/ Save \/ SaveWrite \/ Purge

Spec == Init /\ [][Next]_vars

-----------------------------------------------------------------------------
(* Properties *)

\* The cache holds at most CACHE_SIZE cells, one for a position, and whatever it,
\* a worker or a save refers to is an instance; the rest has its type.
TypeOK ==
    /\ Len(cells) <= CacheSize
    /\ \A i, j \in DOMAIN cells : cells[i].pos = cells[j].pos => i = j
    /\ \A e \in Range(cells) \cup Range(saving.todo) : <<e.pos, e.id>> \in DOMAIN heap
    /\ \A c \in Worker :
          call[c].at \in {"evict", "return"} => <<call[c].pos, call[c].id>> \in DOMAIN heap
    /\ heap \in [DOMAIN heap -> [data : Content, modified : BOOLEAN]]
    /\ stored \in [Pos -> Content \cup {Missing}]
    /\ want \in [Pos -> Content]
    /\ raced \cup failed \cup saving.unsaved \subseteq Pos

InFlight == {call[c].victim : c \in {d \in Worker : call[d].at = "evict"}}

\* What the next get would find in the cell at p.
Shown(p) ==
    IF Cached(p) # {} THEN heap[<<p, CHOOSE id \in Cached(p) : TRUE>>].data
    ELSE File(p)

\* What was set is found again, in the cache or in its file, whatever was evicted,
\* loaded and saved since: a cell goes wrong only if it was loaded or evicted while
\* somebody else worked on it, or if its file failed to be read or, at an eviction,
\* written.  A save that fails loses nothing.
OnlyRacedCellsLose ==
    \A p \in Pos \ (raced \cup failed \cup InFlight) : Shown(p) = want[p]

SaveEnds == (Saving \/ saves' # saves) /\ saving'.todo = << >>

\* A save of a single worker's cells leaves in the files everything that was set,
\* deleted values too: what the cache holds now and what it has put out before, but
\* for cells whose file failed.  One that fails does not keep the others from being
\* written.
SavedIsStored ==
    [][callers = 1 /\ SaveEnds =>
         \A p \in Pos \ (failed \cup saving'.unsaved) :
             File(p)' = want[p]]_vars
=============================================================================
