-------------------------- MODULE MarketBookProofs --------------------------
(***************************************************************************)
(* Proofs about Market: what the two workers and the Cancel input thread   *)
(* do to the resting orders and to the id maps.                            *)
(***************************************************************************)
EXTENDS MarketProofs

-----------------------------------------------------------------------------
(* The inductive invariant: the id maps follow the lists *)

\* The requests the two workers have in hand, and the book each works on.
Newcomer == req[cur["New"]].body
Victim == req[cur["Cancel"]].body
OwnBook == BookOf(Newcomer.side)
Facing == Opposite(OwnBook)
VictimBook == BookOf(Victim.side)

\* A resting order is mapped, but for one that has just joined its level, one
\* that is about to leave it, and one that a misread entry left in its list.
RestingMapped ==
  \A b \in Books, o \in OrderIds : rest[b][o] # NoOrder =>
    \/ o \in idmap[b]
    \/ wpc["New"] = "map" /\ b = OwnBook /\ o = Newcomer.id
    \/ wpc["Cancel"] = "erase" /\ b = VictimBook /\ o = Victim.id
    \/ FALSE \in FreedReads /\ o \in strays

\* Unless erased nodes are misread, only the id of an order filled an
\* instant ago is mapped to nothing.
MappedResting ==
  FALSE \notin FreedReads =>
    \A b \in Books : \A o \in idmap[b] :
      \/ rest[b][o] # NoOrder
      \/ wpc["New"] = "unmap" /\ b = Facing /\ o = note["New"]

OneMap == idmap["bid"] \cap idmap["ask"] = {}

\* The id of an order being placed stays out of both maps until it rests.
NewcomerUnmapped ==
  wpc["New"] \in {"fill", "unmap", "map"} => \A b \in Books : Newcomer.id \notin idmap[b]

\* The node whose id is read again has been erased ...
UnmapErased ==
  wpc["New"] = "unmap" => note["New"] \in OrderIds /\ rest[Facing][note["New"]] = NoOrder

\* ... the order whose id joins the map rests ...
MapRests == wpc["New"] = "map" => rest[OwnBook][Newcomer.id] # NoOrder

\* ... and the order a cancel is about to erase has the quantity it was checked for.
EraseChecked ==
  wpc["Cancel"] = "erase" =>
    /\ Victim.id \notin idmap[VictimBook]
    /\ rest[VictimBook][Victim.id] # NoOrder => rest[VictimBook][Victim.id].qty = Victim.qty

MapInv == RestingMapped /\ MappedResting /\ OneMap /\ NewcomerUnmapped

PointInv == UnmapErased /\ MapRests /\ EraseChecked

-----------------------------------------------------------------------------
(* What a step leaves alone *)

\* A request that was received never changes.
LEMMA RequestsKept ==
  ASSUME TypeOK, [Next]_vars
  PROVE  \A i \in DOMAIN req : i \in DOMAIN req' /\ req'[i] = req[i]
<1> DEFINE R == [body : Requests, known : BOOLEAN]
<1>1. req \in Seq(R)
  BY DEF TypeOK, RouterTypes
<1>2. CASE RouterReceive
  <2>1. PICK x : req' = Append(req, x)
    BY <1>2 DEF RouterReceive
  <2> HIDE DEF R
  <2>. QED BY <1>1, <2>1
<1>3. CASE req' = req
  BY <1>3
<1>4. ASSUME NEW u \in Units, Worker(u) PROVE req' = req
  BY <1>4 DEF Worker, WorkerPop, LockSpin, LockSet, WorkerReport, NewOrderHolds, NewOrderCheck,
     NewOrderFill, NewOrderUnmap, NewOrderRest, NewOrderMap, NewOrderUnlock, CancelHolds,
     CancelCheck, CancelErase, routerVars
<1>5. RouterAppend \/ NewOrderOnInput \/ CancelInput => req' = req
  BY DEF RouterAppend, NewOrderOnInput, CancelInput, CancelOnInput, CancelGetOrder, CancelPush,
     routerVars
<1>. QED BY <1>2, <1>3, <1>4, <1>5 DEF Next, vars, routerVars

\* What the workers have in hand is a request of their unit, of a known side.
LEMMA InHandTyped ==
  ASSUME TypeOK, OrderInv, NEW u \in Units, wpc[u] # "idle"
  PROVE  LET r == req[cur[u]].body
         IN /\ cur[u] \in DOMAIN req /\ r.id \in OrderIds /\ r.side \in Sides /\ r.qty \in 1..MaxQty
            /\ BookOf(r.side) \in Books /\ Opposite(BookOf(r.side)) \in Books
            /\ BookOf(r.side) # Opposite(BookOf(r.side))
            /\ Books = {BookOf(r.side), Opposite(BookOf(r.side))}
<1> DEFINE r == req[cur[u]].body
<1>1. cur[u] \in DOMAIN req /\ r.side \in Sides
  BY DEF OrderInv, QueueInv, CurOrdered, Workable, Belongs, TypeOK, RouterTypes
<1>2. r \in Request
  BY <1>1, ReceivedRequests
<1>. QED BY <1>1, <1>2 DEF Request, BookOf, Opposite, Books

\* A step of one worker, or of an input thread, that changes no book and no
\* point at which a worker is about to change one.
LEMMA BookFrame ==
  ASSUME TypeOK, OrderInv, MapInv, PointInv, UNCHANGED bookVars,
         \A i \in DOMAIN req : i \in DOMAIN req' /\ req'[i] = req[i],
         \A u \in Units : wpc'[u] \in {"fill", "unmap", "map", "erase"} =>
            wpc[u] = wpc'[u] /\ cur'[u] = cur[u] /\ note'[u] = note[u],
         \A u \in Units : wpc[u] \in {"unmap", "map", "erase"} => wpc'[u] = wpc[u]
  PROVE  MapInv' /\ PointInv'
<1> USE DEF Units, bookVars
<1>1. wpc'["New"] \in {"fill", "unmap", "map"} =>
        /\ Newcomer' = Newcomer /\ OwnBook' = OwnBook /\ Facing' = Facing
        /\ note'["New"] = note["New"] /\ wpc["New"] = wpc'["New"]
  BY InHandTyped DEF Newcomer, OwnBook, Facing
<1>2. wpc'["Cancel"] = "erase" =>
        Victim' = Victim /\ VictimBook' = VictimBook /\ wpc["Cancel"] = "erase"
  BY InHandTyped DEF Victim, VictimBook
<1>3. RestingMapped'
  BY <1>1, <1>2 DEF MapInv, RestingMapped
<1>4. MappedResting'
  BY <1>1 DEF MapInv, MappedResting
<1>5. OneMap' /\ NewcomerUnmapped'
  BY <1>1 DEF MapInv, OneMap, NewcomerUnmapped
<1>6. PointInv'
  BY <1>1, <1>2 DEF PointInv, UnmapErased, MapRests, EraseChecked
<1>. QED BY <1>3, <1>4, <1>5, <1>6 DEF MapInv

\* The input threads and the steps around the lock change no book.
LEMMA OutsideKeeps ==
  ASSUME TypeOK, OrderInv, MapInv, PointInv, [Next]_vars,
         ~NewOrderHolds, ~CancelHolds
  PROVE  MapInv' /\ PointInv'
<1>1. UNCHANGED bookVars
  BY DEF Next, vars, bookVars, RouterReceive, RouterAppend, NewOrderOnInput, CancelInput, CancelOnInput,
     CancelGetOrder, CancelPush, Worker, WorkerPop, LockSpin, LockSet, WorkerReport
<1>2. ASSUME NEW u \in Units
      PROVE  /\ wpc'[u] \in {"fill", "unmap", "map", "erase"} =>
                  wpc[u] = wpc'[u] /\ cur'[u] = cur[u] /\ note'[u] = note[u]
             /\ wpc[u] \in {"unmap", "map", "erase"} => wpc'[u] = wpc[u]
  <2>1. /\ wpc \in [Units -> WorkerPoints] /\ cur \in [Units -> Nat]
        /\ note \in [Units -> ReplyKinds \cup OrderIds \cup {"none"}]
    BY DEF TypeOK, WorkerTypes, NoteTypes
  <2>2. CASE UNCHANGED <<wpc, cur, note>>
    BY <2>2
  <2>3. ASSUME NEW v \in Units, WorkerPop(v) \/ LockSpin(v) \/ LockSet(v) \/ WorkerReport(v)
        PROVE  /\ \A w \in Units : w # v => wpc'[w] = wpc[w] /\ cur'[w] = cur[w] /\ note'[w] = note[w]
               /\ wpc[v] \notin HoldsLock
               /\ wpc'[v] \in {"empty", "front", "flag", "set", "cs", "idle", "dead"}
    BY <2>1, <2>3 DEF WorkerPop, LockSpin, LockSet, WorkerReport, GoTo, HoldsLock
  <2>4. ASSUME NEW v \in Units, Worker(v)
        PROVE  WorkerPop(v) \/ LockSpin(v) \/ LockSet(v) \/ WorkerReport(v)
    BY <2>4 DEF Worker
  <2>5. RouterReceive \/ RouterAppend \/ NewOrderOnInput \/ CancelInput \/ UNCHANGED vars
        => UNCHANGED <<wpc, cur, note>>
    BY DEF vars, workerVars, RouterReceive, RouterAppend, NewOrderOnInput, CancelInput, CancelOnInput,
       CancelGetOrder, CancelPush
  <2>. QED BY <2>2, <2>3, <2>4, <2>5 DEF Next, HoldsLock
<1>. QED BY <1>1, <1>2, RequestsKept, BookFrame

-----------------------------------------------------------------------------
(* What the workers do while they hold the QueueMutex *)

\* While one worker is at work on the book the other is outside.
LEMMA Alone ==
  ASSUME TypeOK, OrderInv, NEW u \in Units, NEW v \in Units, u # v, wpc[u] \in HoldsLock
  PROVE  wpc[v] \notin HoldsLock \cup {"flag", "set"}
BY FirstUnique

\* The NewOrder worker moves from one point to another, the Cancel worker stays
\* outside, and nothing else that the invariant speaks of changes.
LEMMA NewOrderFrame ==
  ASSUME TypeOK, OrderInv, NewOrderHolds
  PROVE  /\ "New" \in Units /\ wpc["New"] # "idle" /\ wpc["New"] \in HoldsLock
         /\ wpc["Cancel"] # "erase" /\ wpc'["Cancel"] = wpc["Cancel"]
         /\ wpc'["New"] # "idle" => /\ cur' = cur /\ Newcomer' = Newcomer
                                    /\ OwnBook' = OwnBook /\ Facing' = Facing
<1> USE DEF Units
<1>0. wpc \in [Units -> WorkerPoints] /\ cur \in [Units -> Nat]
  BY DEF TypeOK, WorkerTypes
<1>1. /\ wpc["New"] \in HoldsLock /\ wpc["New"] # "idle" /\ wpc'["Cancel"] = wpc["Cancel"]
      /\ req' = req /\ (wpc'["New"] # "idle" => cur' = cur)
  BY <1>0 DEF NewOrderHolds, NewOrderCheck, NewOrderFill, NewOrderUnmap, NewOrderRest, NewOrderMap,
     NewOrderUnlock, UnlockThenReport, GoTo, HoldsLock, routerVars
<1>2. wpc["Cancel"] # "erase"
  BY <1>1, Alone DEF HoldsLock
<1>. QED BY <1>1, <1>2 DEF Newcomer, OwnBook, Facing

\* The order is refused or acknowledged: its id is in neither map.
LEMMA NewOrderCheckKeeps ==
  ASSUME TypeOK, OrderInv, MapInv, PointInv, NewOrderCheck
  PROVE  MapInv' /\ PointInv'
<1>0. NewOrderHolds
  BY DEF NewOrderHolds
<1>1. /\ UNCHANGED <<rest, idmap, strays>> /\ wpc["New"] = "cs" /\ wpc'["New"] \in {"fill", "report"}
      /\ wpc'["New"] = "fill" => \A b \in Books : Newcomer.id \notin idmap[b]
  <2>1. wpc \in [Units -> WorkerPoints] /\ "New" \in Units
    BY DEF TypeOK, WorkerTypes, Units
  <2>. QED BY <2>1 DEF NewOrderCheck, UnlockThenReport, GoTo, bookVars, Newcomer, Books
<1>2. RestingMapped' /\ MappedResting'
  BY <1>0, <1>1, NewOrderFrame DEF MapInv, RestingMapped, MappedResting
<1>3. OneMap' /\ NewcomerUnmapped'
  BY <1>0, <1>1, NewOrderFrame DEF MapInv, OneMap, NewcomerUnmapped
<1>4. PointInv'
  BY <1>0, <1>1, NewOrderFrame DEF PointInv, UnmapErased, MapRests, EraseChecked
<1>. QED BY <1>2, <1>3, <1>4 DEF MapInv

\* A resting order is filled: erased from its list, or reduced.
LEMMA NewOrderFillKeeps ==
  ASSUME TypeOK, OrderInv, MapInv, PointInv, NewOrderFill
  PROVE  MapInv' /\ PointInv'
<1>0. NewOrderHolds
  BY DEF NewOrderHolds
<1>1. Facing \in Books /\ OwnBook \in Books
  BY <1>0, NewOrderFrame, InHandTyped DEF Facing, OwnBook, Newcomer
<1>2. PICK o \in OrderIds :
        LET q == rest[Facing][o].qty
            full == q <= left
        IN /\ rest[Facing][o] # NoOrder
           /\ rest' = [rest EXCEPT ![Facing][o] =
                         IF full THEN NoOrder ELSE [@ EXCEPT !.qty = q - left]]
           /\ note' = IF full THEN [note EXCEPT !["New"] = o] ELSE note
           /\ wpc' = [wpc EXCEPT !["New"] = IF full THEN "unmap" ELSE "fill"]
  BY DEF NewOrderFill, GoTo, Facing, OwnBook, Newcomer
<1> DEFINE full == rest[Facing][o].qty <= left
<1>3. /\ wpc["New"] = "fill" /\ wpc'["New"] = IF full THEN "unmap" ELSE "fill"
      /\ full => note'["New"] = o
      /\ idmap' = idmap /\ strays' = strays
  BY <1>2 DEF NewOrderFill, TypeOK, WorkerTypes, NoteTypes, Units
<1>4. /\ \A c \in Books, i \in OrderIds : c # Facing \/ i # o => rest'[c][i] = rest[c][i]
      /\ full => rest'[Facing][o] = NoOrder
      /\ ~full => rest'[Facing][o] # NoOrder
  <2>1. rest \in [Books -> [OrderIds -> Order \cup {NoOrder}]]
    BY DEF TypeOK, BookTypes
  <2>2. rest[Facing][o] \in Order
    BY <1>1, <1>2, <2>1
  <2> DEFINE node == [rest[Facing][o] EXCEPT !.qty = rest[Facing][o].qty - left]
  <2>3. node.side \in Sides
    BY <2>2 DEF Order
  <2>4. node # NoOrder
    <3>1. NoOrder.side \notin Sides
      BY DEF NoOrder, Sides
    <3> HIDE DEF node, NoOrder
    <3>. QED BY <2>3, <3>1
  <2> HIDE DEF NoOrder
  <2>. QED BY <1>1, <1>2, <2>1, <2>4
<1> HIDE DEF full
<1>5. RestingMapped'
  BY <1>0, <1>2, <1>3, <1>4, NewOrderFrame DEF MapInv, RestingMapped
<1>6. MappedResting'
  BY <1>0, <1>2, <1>3, <1>4, NewOrderFrame DEF MapInv, MappedResting, BookTypes, TypeOK
<1>7. OneMap' /\ NewcomerUnmapped'
  BY <1>0, <1>3, NewOrderFrame DEF MapInv, OneMap, NewcomerUnmapped
<1>8. PointInv'
  BY <1>0, <1>2, <1>3, <1>4, NewOrderFrame DEF PointInv, UnmapErased, MapRests, EraseChecked
<1>. QED BY <1>5, <1>6, <1>7, <1>8 DEF MapInv

\* The id of the order filled leaves its map, if it still reads as it was.
LEMMA NewOrderUnmapKeeps ==
  ASSUME TypeOK, OrderInv, MapInv, PointInv, NewOrderUnmap
  PROVE  MapInv' /\ PointInv'
<1>0. NewOrderHolds
  BY DEF NewOrderHolds
<1>1. Facing \in Books
  BY <1>0, NewOrderFrame, InHandTyped DEF Facing, OwnBook, Newcomer
<1>2. PICK intact \in FreedReads :
        idmap' = IF intact THEN [idmap EXCEPT ![Facing] = @ \ {note["New"]}] ELSE idmap
  BY DEF NewOrderUnmap, Facing, OwnBook, Newcomer
<1>3. wpc["New"] = "unmap" /\ wpc'["New"] = "fill" /\ rest' = rest /\ strays' = strays
  BY DEF NewOrderUnmap, GoTo, TypeOK, WorkerTypes, Units
<1>4. /\ \A c \in Books : c # Facing => idmap'[c] = idmap[c]
      /\ intact => idmap'[Facing] = idmap[Facing] \ {note["New"]}
      /\ ~intact => idmap' = idmap
      /\ \A c \in Books : idmap'[c] \subseteq idmap[c]
  BY <1>1, <1>2 DEF TypeOK, BookTypes
<1>5. intact \in BOOLEAN /\ (FALSE \notin FreedReads => intact)
  BY <1>2, FreedAssumption
<1>6. RestingMapped'
  BY <1>0, <1>3, <1>4, <1>5, NewOrderFrame DEF MapInv, PointInv, RestingMapped, UnmapErased
<1>7. MappedResting'
  BY <1>0, <1>3, <1>4, <1>5, NewOrderFrame DEF MapInv, MappedResting
<1>8. OneMap' /\ NewcomerUnmapped'
  BY <1>0, <1>3, <1>4, NewOrderFrame DEF MapInv, OneMap, NewcomerUnmapped, Books
<1>9. PointInv'
  BY <1>0, <1>3, NewOrderFrame DEF PointInv, UnmapErased, MapRests, EraseChecked
<1>. QED BY <1>6, <1>7, <1>8, <1>9 DEF MapInv

\* What is left of the order joins its price level, before its id joins the map.
LEMMA NewOrderRestKeeps ==
  ASSUME TypeOK, OrderInv, MapInv, PointInv, NewOrderRest
  PROVE  MapInv' /\ PointInv'
<1>0. NewOrderHolds
  BY DEF NewOrderHolds
<1>1. OwnBook \in Books /\ Newcomer.id \in OrderIds /\ Newcomer.side \in Sides
  BY <1>0, NewOrderFrame, InHandTyped DEF OwnBook, Newcomer
<1> DEFINE node == [side |-> Newcomer.side, qty |-> left]
<1>2. /\ rest' = [rest EXCEPT ![OwnBook][Newcomer.id] = node]
      /\ wpc["New"] = "fill" /\ wpc'["New"] = "map" /\ idmap' = idmap
      /\ strays' = strays
  BY DEF NewOrderRest, GoTo, TypeOK, WorkerTypes, Units, OwnBook, Newcomer
<1>3. node # NoOrder
  <2>1. node.side \in Sides /\ NoOrder.side \notin Sides
    BY <1>1 DEF NoOrder, Sides
  <2> HIDE DEF node, NoOrder
  <2>. QED BY <2>1
<1> HIDE DEF node
<1>4. /\ \A c \in Books, i \in OrderIds : c # OwnBook \/ i # Newcomer.id => rest'[c][i] = rest[c][i]
      /\ rest'[OwnBook][Newcomer.id] # NoOrder
  BY <1>1, <1>2, <1>3 DEF TypeOK, BookTypes
<1>5. RestingMapped'
  BY <1>0, <1>2, <1>4, NewOrderFrame DEF MapInv, RestingMapped
<1>6. MappedResting'
  BY <1>0, <1>2, <1>4, NewOrderFrame DEF MapInv, MappedResting, TypeOK, BookTypes
<1>7. OneMap' /\ NewcomerUnmapped'
  BY <1>0, <1>2, NewOrderFrame DEF MapInv, OneMap, NewcomerUnmapped
<1>8. PointInv'
  BY <1>0, <1>2, <1>4, NewOrderFrame DEF PointInv, UnmapErased, MapRests, EraseChecked
<1>. QED BY <1>5, <1>6, <1>7, <1>8 DEF MapInv

\* The id of an order that rests joins the map of its side.
LEMMA NewOrderMapKeeps ==
  ASSUME TypeOK, OrderInv, MapInv, PointInv, NewOrderMap
  PROVE  MapInv' /\ PointInv'
<1>0. NewOrderHolds
  BY DEF NewOrderHolds
<1>1. OwnBook \in Books /\ Newcomer.id \in OrderIds
  BY <1>0, NewOrderFrame, InHandTyped DEF OwnBook, Newcomer
<1>2. /\ idmap' = [idmap EXCEPT ![OwnBook] = @ \cup {Newcomer.id}]
      /\ wpc["New"] = "map" /\ wpc'["New"] = "done" /\ rest' = rest
      /\ strays' = strays
  BY DEF NewOrderMap, GoTo, TypeOK, WorkerTypes, Units, OwnBook, Newcomer
<1>3. /\ \A c \in Books : c # OwnBook => idmap'[c] = idmap[c]
      /\ idmap'[OwnBook] = idmap[OwnBook] \cup {Newcomer.id}
  BY <1>1, <1>2 DEF TypeOK, BookTypes
<1>4. rest[OwnBook][Newcomer.id] # NoOrder /\ \A b \in Books : Newcomer.id \notin idmap[b]
  BY <1>2 DEF PointInv, MapRests, MapInv, NewcomerUnmapped
<1>5. RestingMapped'
  BY <1>0, <1>2, <1>3, NewOrderFrame DEF MapInv, RestingMapped
<1>6. MappedResting'
  BY <1>0, <1>2, <1>3, <1>4, NewOrderFrame DEF MapInv, MappedResting
<1>7. OneMap' /\ NewcomerUnmapped'
  BY <1>0, <1>1, <1>2, <1>3, <1>4, NewOrderFrame DEF MapInv, OneMap, NewcomerUnmapped, Books
<1>8. PointInv'
  BY <1>0, <1>2, NewOrderFrame DEF PointInv, UnmapErased, MapRests, EraseChecked
<1>. QED BY <1>5, <1>6, <1>7, <1>8 DEF MapInv

\* unlock() changes no book.
LEMMA NewOrderUnlockKeeps ==
  ASSUME TypeOK, OrderInv, MapInv, PointInv, NewOrderUnlock
  PROVE  MapInv' /\ PointInv'
<1>0. NewOrderHolds
  BY DEF NewOrderHolds
<1>1. /\ wpc["New"] \in {"done", "fill"} /\ wpc'["New"] = "idle" /\ UNCHANGED <<rest, idmap, strays>>
  BY DEF NewOrderUnlock, GoTo, TypeOK, WorkerTypes, Units, bookVars
<1>2. RestingMapped' /\ MappedResting'
  BY <1>0, <1>1, NewOrderFrame DEF MapInv, RestingMapped, MappedResting
<1>3. OneMap' /\ NewcomerUnmapped' /\ PointInv'
  BY <1>0, <1>1, NewOrderFrame DEF MapInv, OneMap, NewcomerUnmapped, PointInv, UnmapErased, MapRests,
     EraseChecked
<1>. QED BY <1>2, <1>3 DEF MapInv

\* The same of the Cancel worker.
LEMMA CancelFrame ==
  ASSUME TypeOK, OrderInv, CancelHolds
  PROVE  /\ "Cancel" \in Units /\ wpc["Cancel"] # "idle" /\ wpc["Cancel"] \in HoldsLock
         /\ wpc["New"] \notin HoldsLock /\ wpc'["New"] = wpc["New"]
         /\ Victim' = Victim /\ VictimBook' = VictimBook
         /\ VictimBook \in Books /\ Victim.id \in OrderIds /\ Victim.side \in Sides
<1> USE DEF Units
<1>0. wpc \in [Units -> WorkerPoints]
  BY DEF TypeOK, WorkerTypes
<1>1. /\ wpc["Cancel"] \in HoldsLock /\ wpc["Cancel"] # "idle" /\ wpc'["New"] = wpc["New"]
      /\ UNCHANGED <<req, cur>>
  BY <1>0 DEF CancelHolds, CancelCheck, CancelErase, UnlockThenReport, GoTo, HoldsLock, routerVars
<1>2. wpc["New"] \notin HoldsLock
  BY <1>1, Alone
<1>3. VictimBook \in Books /\ Victim.id \in OrderIds /\ Victim.side \in Sides
  BY <1>1, InHandTyped DEF Victim, VictimBook
<1>. QED BY <1>1, <1>2, <1>3 DEF Victim, VictimBook

\* The order a cancel names is in the map of its side only: what it is tested
\* against is the node that it is going to erase.
LEMMA CancelCheckKeeps ==
  ASSUME TypeOK, OrderInv, MapInv, PointInv, CancelCheck
  PROVE  MapInv' /\ PointInv'
<1>0. CancelHolds
  BY DEF CancelHolds
<1>1. /\ wpc["Cancel"] = "cs" /\ rest' = rest /\ strays' = strays
      /\ wpc["New"] \notin {"fill", "unmap", "map"} /\ wpc'["New"] \notin {"fill", "unmap", "map"}
  BY <1>0, CancelFrame DEF CancelCheck, HoldsLock
<1>2. CASE wpc'["Cancel"] # "erase"
  <2>1. idmap' = idmap
    BY <1>2 DEF CancelCheck, GoTo, TypeOK, WorkerTypes, Units
  <2>. QED BY <1>1, <1>2, <2>1 DEF MapInv, RestingMapped, MappedResting, OneMap, NewcomerUnmapped, PointInv,
              UnmapErased, MapRests, EraseChecked
<1>3. CASE wpc'["Cancel"] = "erase"
  <2>1. /\ idmap' = [idmap EXCEPT ![VictimBook] = @ \ {Victim.id}]
        /\ Victim.id \in idmap[VictimBook]
        /\ \E o \in Nodes(Victim.id) : o.qty = Victim.qty
    BY <1>3 DEF CancelCheck, UnlockThenReport, GoTo, TypeOK, WorkerTypes, Units, InMap, Victim, VictimBook
  <2>2. /\ \A c \in Books : c # VictimBook => idmap'[c] = idmap[c]
        /\ idmap'[VictimBook] = idmap[VictimBook] \ {Victim.id}
    BY <1>0, <2>1, CancelFrame DEF TypeOK, BookTypes
  <2>3. rest[VictimBook][Victim.id] # NoOrder => rest[VictimBook][Victim.id].qty = Victim.qty
    <3>1. VictimBook = IF Victim.id \in idmap["bid"] THEN "bid" ELSE "ask"
      BY <1>0, <2>1, CancelFrame DEF MapInv, OneMap, Books
    <3> HIDE DEF NoOrder
    <3>. QED BY <2>1, <3>1 DEF Nodes
  <2>4. EraseChecked'
    BY <1>0, <1>1, <2>2, <2>3, CancelFrame DEF EraseChecked
  <2>5. RestingMapped'
    BY <1>0, <1>1, <1>3, <2>2, CancelFrame DEF MapInv, RestingMapped
  <2>6. MappedResting'
    BY <1>0, <1>1, <2>2, CancelFrame DEF MapInv, MappedResting
  <2>7. OneMap'
    BY <1>0, <2>2, CancelFrame DEF MapInv, OneMap, Books
  <2>. QED BY <1>1, <2>4, <2>5, <2>6, <2>7 DEF MapInv, NewcomerUnmapped, PointInv, UnmapErased, MapRests
<1>. QED BY <1>2, <1>3

\* The order leaves its list, its id has left the map; or the entry that says
\* where it rests is misread, and it stays.
LEMMA CancelEraseKeeps ==
  ASSUME TypeOK, OrderInv, MapInv, PointInv, CancelErase
  PROVE  MapInv' /\ PointInv'
<1>0. CancelHolds
  BY DEF CancelHolds
<1>1. /\ wpc["Cancel"] = "erase" /\ idmap' = idmap /\ wpc'["Cancel"] \in {"wrecked", "report"}
      /\ wpc["New"] \notin {"fill", "unmap", "map"} /\ wpc'["New"] \notin {"fill", "unmap", "map"}
  BY <1>0, CancelFrame DEF CancelErase, UnlockThenReport, GoTo, HoldsLock, TypeOK, WorkerTypes
<1>2. PICK intact \in FreedReads :
        \/ /\ intact /\ rest' = [rest EXCEPT ![VictimBook][Victim.id] = NoOrder] /\ strays' = strays
        \/ intact /\ rest' = rest /\ rest[VictimBook][Victim.id] = NoOrder /\ strays' = strays
        \/ ~intact /\ rest' = rest /\ strays' = strays \cup {Victim.id}
  BY DEF CancelErase, UnlockThenReport, GoTo, TypeOK, WorkerTypes, Units, Victim, VictimBook
<1>3. /\ \A c \in Books, i \in OrderIds : c # VictimBook \/ i # Victim.id => rest'[c][i] = rest[c][i]
      /\ rest'[VictimBook][Victim.id] # NoOrder => FALSE \in FreedReads /\ Victim.id \in strays'
      /\ \A i \in strays : i \in strays'
      /\ \A c \in Books, i \in OrderIds :
           c # VictimBook \/ i # Victim.id => (rest[c][i] # NoOrder => rest'[c][i] # NoOrder)
  <2>1. rest \in [Books -> [OrderIds -> Order \cup {NoOrder}]]
    BY DEF TypeOK, BookTypes
  <2>2. ~intact => FALSE \in FreedReads
    BY <1>2, FreedAssumption
  <2> HIDE DEF NoOrder
  <2>. QED BY <1>0, <1>2, <2>1, <2>2, CancelFrame
<1>4. Victim.id \notin idmap[VictimBook]
  BY <1>1 DEF PointInv, EraseChecked
<1>5. RestingMapped'
  <2> SUFFICES ASSUME NEW b \in Books, NEW o \in OrderIds, rest'[b][o] # NoOrder
               PROVE  \/ o \in idmap'[b]
                      \/ FALSE \in FreedReads /\ o \in strays'
    BY DEF RestingMapped
  <2>1. CASE b = VictimBook /\ o = Victim.id
    BY <1>0, <1>3, <2>1, CancelFrame
  <2>2. CASE b # VictimBook \/ o # Victim.id
    <3>1. rest[b][o] # NoOrder
      BY <1>3, <2>2
    <3>2. o \in idmap[b] \/ (FALSE \in FreedReads /\ o \in strays)
      BY <1>1, <2>2, <3>1 DEF MapInv, RestingMapped
    <3>. QED BY <1>1, <1>3, <3>2
  <2>. QED BY <2>1, <2>2
<1>6. MappedResting'
  BY <1>0, <1>1, <1>3, <1>4, CancelFrame DEF MapInv, MappedResting, TypeOK, BookTypes
<1>7. OneMap' /\ NewcomerUnmapped' /\ PointInv'
  BY <1>1 DEF MapInv, OneMap, NewcomerUnmapped, PointInv, UnmapErased, MapRests, EraseChecked
<1>. QED BY <1>5, <1>6, <1>7 DEF MapInv

-----------------------------------------------------------------------------
(* The invariant, and what follows *)

\* The id maps follow the lists, at every point of the workers.
LEMMA MapInvariantHolds == Spec => [](TypeOK /\ OrderInv /\ MapInv /\ PointInv)
<1>1. Init => MapInv /\ PointInv
  BY DEF Init, MapInv, RestingMapped, MappedResting, OneMap, NewcomerUnmapped, PointInv, UnmapErased,
     MapRests, EraseChecked, Books, Units
<1>2. TypeOK /\ OrderInv /\ MapInv /\ PointInv /\ [Next]_vars => (MapInv /\ PointInv)'
  BY OutsideKeeps, NewOrderCheckKeeps, NewOrderFillKeeps, NewOrderUnmapKeeps, NewOrderRestKeeps,
     NewOrderMapKeeps, NewOrderUnlockKeeps, CancelCheckKeeps, CancelEraseKeeps
     DEF NewOrderHolds, CancelHolds
<1>. QED BY <1>1, <1>2, InvariantHolds, PTL DEF Spec

\* While no worker is in the book, every resting order is in the id map of its
\* side unless it was reported canceled by mistake, and the map names nothing
\* else unless erased nodes are misread.
THEOREM MapsFollowBook == Spec => []MapFindsTheBook
<1>1. TypeOK /\ MapInv => MapFindsTheBook
  BY DEF MapFindsTheBook, MapInv, RestingMapped, MappedResting, HoldsLock, Units, TypeOK, BookTypes
<1>. QED BY <1>1, MapInvariantHolds, PTL

\* A cancel that will be reported done has erased the order it tested, and
\* nothing else, unless the entry it read after erasing it was misread.
THEOREM CancelledAsAsked == Spec => CancelTakesTheAskedQuantity
<1> DEFINE Taken ==
      wpc["Cancel"] = "erase" /\ wpc'["Cancel"] = "report" =>
        LET r == req[cur["Cancel"]].body
            b == BookOf(r.side)
        IN \/ /\ rest[b][r.id] # NoOrder /\ rest[b][r.id].qty = r.qty
              /\ rest' = [rest EXCEPT ![b][r.id] = NoOrder]
           \/ rest' = rest /\ r.id \in strays'
<1>1. TypeOK /\ OrderInv /\ PointInv /\ [Next]_vars => Taken
  <2> SUFFICES ASSUME TypeOK, OrderInv, PointInv, [Next]_vars,
                      wpc["Cancel"] = "erase", wpc'["Cancel"] = "report"
               PROVE  \/ /\ rest[VictimBook][Victim.id] # NoOrder
                         /\ rest[VictimBook][Victim.id].qty = Victim.qty
                         /\ rest' = [rest EXCEPT ![VictimBook][Victim.id] = NoOrder]
                      \/ rest' = rest /\ Victim.id \in strays'
    BY DEF Victim, VictimBook
  <2>1. wpc \in [Units -> WorkerPoints]
    BY DEF TypeOK, WorkerTypes
  <2>2. ~NewOrderHolds
    BY CancelFrame, NewOrderFrame, Alone DEF HoldsLock, Units
  <2>3. CancelErase
    BY <2>1, <2>2 DEF Next, vars, workerVars, RouterReceive, RouterAppend, NewOrderOnInput,
       CancelInput, CancelOnInput, CancelGetOrder, CancelPush, Worker, WorkerPop, LockSpin, LockSet,
       WorkerReport, CancelHolds, CancelCheck, GoTo, Units
  <2>4. \/ /\ rest[VictimBook][Victim.id] # NoOrder
           /\ rest' = [rest EXCEPT ![VictimBook][Victim.id] = NoOrder]
        \/ rest' = rest /\ Victim.id \in strays'
    BY <2>1, <2>3 DEF CancelErase, GoTo, Units, Victim, VictimBook
  <2>. QED BY <2>4 DEF PointInv, EraseChecked
<1>. QED BY <1>1, MapInvariantHolds, PTL DEF Spec, CancelTakesTheAskedQuantity
=============================================================================
