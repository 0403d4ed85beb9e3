----------------------------- MODULE AllocPool -----------------------------
(***************************************************************************)
(* AllocPool, the allocator of the real-time thread (World_Alloc and its   *)
(* relatives) and of the interpreter: boundary tags, free chunks in bins   *)
(* by size, areas of memory taken from the system.  The unit is kAlign     *)
(* (16 bytes): a chunk is a header of two units and the caller's memory,   *)
(* and the sizes asked for are those that RequestToSize has rounded up.    *)
(* The bins are those of the code on a smaller scale: one per size below   *)
(* SmallBins, then PerOctave for each doubling of the size.                *)
(***************************************************************************)
EXTENDS Naturals, SequencesExt, Functions, FiniteSets

CONSTANTS
  SmallBins, PerOctave, LastBin,  \* kNumSmallBins, the 8 of BinIndex, kNumAllocBins - 1
  AreaInit,                       \* mAreaInitSize
  AreaMores,                      \* bound: the values of mAreaMoreSize, 0 if the pool cannot grow
  Areas,                          \* bound: areas the system has memory for, besides the first
  Sizes,                          \* bound: the chunk sizes asked for
  Stride                          \* the distance of two areas

HeaderSize == 2                   \* sizeof(AllocChunk)
MinSize == 2                      \* kMinAllocSize

ASSUME BinsAssumption ==
  /\ SmallBins \in Nat /\ LastBin \in Nat /\ SmallBins <= LastBin
  /\ PerOctave \in 1 .. SmallBins /\ SmallBins % PerOctave = 0

ASSUME SizesAssumption ==
  /\ Stride \in Nat
  /\ Areas \subseteq Nat \ {0} /\ IsFiniteSet(Areas)
  /\ Sizes \subseteq MinSize .. (Stride - 1)
  /\ {AreaInit} \union AreaMores \subseteq {0} \union (MinSize .. (Stride - 1))

VARIABLES pool, live, event
vars == <<pool, live, event>>

Tag(n, used) == [size |-> n, used |-> used]
EndMark == Tag(0, TRUE)
Base(k) == k * Stride

Written(f, X, v) == [x \in DOMAIN f \union X |-> IF x \in X THEN v ELSE f[x]]

----------------------------------------------------------------------------
\* The bins.

Index == 0 .. LastBin

\* Twice the size is PerOctave bins further.
BinIndex(n) ==
  LET Bin[m \in 0 .. n] == IF m < 2 * SmallBins
                           THEN SmallBins - PerOctave + m \div (SmallBins \div PerOctave)
                           ELSE PerOctave + Bin[m \div 2]
  IN  IF n < SmallBins THEN n ELSE IF Bin[n] > LastBin THEN LastBin ELSE Bin[n]

\* Error caught by the runs: a large bin is not kept in the order of the sizes.
LinkFreeUnsorted(p, c) ==
  LET i == BinIndex(p.tag[c].size)
  IN  [p EXCEPT !.bins[i] = <<c>> \o @, !.marked = @ \union {i}]

\* A small bin is first in, first out; a large one descends, and its last is tried first.
LinkFree(p, c) ==
  LET n == p.tag[c].size
      i == BinIndex(n)
      larger == {k \in DOMAIN p.bins[i] : p.tag[p.bins[i][k]].size > n}
  IN  IF i < SmallBins \/ p.bins[i] = <<>>
      THEN [p EXCEPT !.bins[i] = <<c>> \o @, !.marked = @ \union {i}]
      ELSE [p EXCEPT !.bins[i] = InsertAt(@, Cardinality(larger) + 1, c)]

UnlinkFree(p, c) ==
  LET i == BinIndex(p.tag[c].size)
      k == CHOOSE k \in DOMAIN p.bins[i] : p.bins[i][k] = c
      bin == RemoveAt(p.bins[i], k)
  IN  [p EXCEPT !.bins[i] = bin, !.marked = IF bin = <<>> THEN @ \ {i} ELSE @]

\* The bins that Alloc looks into: those of the size, then those that are marked.
Searched(p, n) ==
  LET i == BinIndex(n)
  IN  {i} \union (IF i < SmallBins - 1 THEN {i + 1} ELSE {}) \union {k \in p.marked : k > i}

\* Its choice: the first that is large enough, from the lowest bin, from the end of the bin.
FirstFit(p, n) ==
  LET fits(i) == {k \in DOMAIN p.bins[i] : p.tag[p.bins[i][k]].size >= n}
      found == {i \in Searched(p, n) : fits(i) # {}}
      bin == CHOOSE i \in found : \A k \in found : i <= k
      last == CHOOSE k \in fits(bin) : \A j \in fits(bin) : j <= k
  IN  IF found = {} THEN {} ELSE {p.bins[bin][last]}

----------------------------------------------------------------------------
\* Headers and areas.  A header that a chunk swallows is the caller's memory.

SetSize(p, c, n, used) ==
  LET kept == {a \in DOMAIN p.tag : a <= c \/ a >= c + n}
      keptPrev == {a \in DOMAIN p.prevTag : a <= c \/ a >= c + n}
  IN  [p EXCEPT !.tag = Written(Restrict(@, kept), {c}, Tag(n, used)),
                !.prevTag = Written(Restrict(@, keptPrev), {c + n}, Tag(n, used))]

NewArea(p, k, n) ==
  LET q == [p EXCEPT !.tag = Written(@, {Base(k) + n}, EndMark),
                     !.prevTag = Written(@, {Base(k)}, EndMark),
                     !.areas = Written(@, {k}, n)]
  IN  SetSize(q, Base(k), n, FALSE)

\* Error caught by the runs: the mark before the first chunk is compared without its bit.
IsAreaWithoutBit(p, c) ==
  p.prevTag[c] = Tag(0, FALSE) /\ p.tag[c + p.tag[c].size] = EndMark

IsArea(p, c) ==
  p.prevTag[c] = EndMark /\ p.tag[c + p.tag[c].size] = EndMark

FreeArea(p, c) ==
  LET k == CHOOSE k \in DOMAIN p.areas : Base(k) = c
      outside == DOMAIN p.tag \ (c .. c + p.areas[k])
  IN  [p EXCEPT !.tag = Restrict(@, outside), !.prevTag = Restrict(@, outside),
                !.areas = Restrict(@, DOMAIN @ \ {k})]

\* Error caught by the runs: the chunk behind is not merged.
ReleaseForwardOnly(p, c) ==
  LET n == p.tag[c].size
      next == c + n
      q == IF p.tag[next].used THEN p ELSE UnlinkFree(p, next)
      r == SetSize(q, c, IF p.tag[next].used THEN n ELSE n + p.tag[next].size, FALSE)
  IN  IF p.areaMore # 0 /\ IsArea(r, c) THEN FreeArea(r, c) ELSE LinkFree(r, c)

\* Free: merge with the neighbours that are free, give a whole area back to the system.
Release(p, c) ==
  LET n == p.tag[c].size
      before == ~p.prevTag[c].used
      after == ~p.tag[c + n].used
      first == IF before THEN c - p.prevTag[c].size ELSE c
      end == IF after THEN c + n + p.tag[c + n].size ELSE c + n
      p1 == IF before THEN UnlinkFree(p, first) ELSE p
      p2 == IF after THEN UnlinkFree(p1, c + n) ELSE p1
      p3 == SetSize(p2, first, end - first, FALSE)
  IN  IF p.areaMore # 0 /\ IsArea(p3, first) THEN FreeArea(p3, first) ELSE LinkFree(p3, first)

----------------------------------------------------------------------------
\* Alloc: the pool afterwards and the set of the one chunk that is handed out,
\* empty when it throws.

\* split: the tail becomes a free chunk, of whatever size.
Split(p, c, n) ==
  LET rest == p.tag[c].size - n
  IN  [pool |-> SetSize(LinkFree(SetSize(p, c + n, rest, FALSE), c + n), c, n, TRUE), chunk |-> {c}]

Whole(p, c) == [pool |-> SetSize(p, c, p.tag[c].size, TRUE), chunk |-> {c}]

TakeFree(p, c, n) ==
  IF p.tag[c].size - n >= MinSize THEN Split(UnlinkFree(p, c), c, n) ELSE Whole(UnlinkFree(p, c), c)

Nothing(p) == [pool |-> p, chunk |-> {}]

\* The system gives the first place it has; without memory, mAllocArea returns NULL and
\* NewArea throws.
TakeNew(p, n) ==
  LET places == Areas \ DOMAIN p.areas
      k == CHOOSE k \in places : \A j \in places : k <= j
  IN  IF places = {} \/ (p.areaMore = 0 /\ (DOMAIN p.areas # {} \/ n > AreaInit)) THEN Nothing(p)
      ELSE IF p.areaMore = 0 THEN Split(NewArea(p, k, AreaInit), Base(k), n)
      ELSE IF n > p.areaMore THEN Whole(NewArea(p, k, n), Base(k))
      ELSE Split(NewArea(p, k, p.areaMore), Base(k), n)

Take(p, n) ==
  IF FirstFit(p, n) = {} THEN TakeNew(p, n)
  ELSE TakeFree(p, CHOOSE c \in FirstFit(p, n) : TRUE, n)

\* The end of Realloc: a chunk of size m at d gets size n, and a tail worth it is freed.
Shrink(p, d, m, n) ==
  IF m - n >= MinSize
  THEN Release(SetSize(SetSize(p, d + n, m - n, TRUE), d, n, TRUE), d + n)
  ELSE SetSize(p, d, m, TRUE)

\* What Realloc has written when it moves old, the caller's units, down to d: the links and
\* sizes of the tail that it has split off.
Spoils(old, d, m, n) == m - n >= MinSize /\ old \intersect {d + n, d + n + 1} # {}

----------------------------------------------------------------------------
\* The operations.

Quiet == [refused |-> 0, spoiled |-> FALSE]

EmptyPool(more) == [tag |-> <<>>, prevTag |-> <<>>, areas |-> <<>>, areaMore |-> more,
                    bins |-> [i \in Index |-> <<>>], marked |-> {}]

Init ==
  /\ \E more \in AreaMores :
       pool = IF AreaInit = 0 THEN EmptyPool(more)
              ELSE LinkFree(NewArea(EmptyPool(more), 0, AreaInit), Base(0))
  /\ live = <<>>
  /\ event = Quiet

\* live: what each caller holds and the size it asked for.  event: what the last call
\* refused, and whether it has overwritten the memory it was to keep.
Alloc(n) ==
  LET r == Take(pool, n)
  IN  /\ pool' = r.pool
      /\ live' = Written(live, r.chunk, n)
      /\ event' = [Quiet EXCEPT !.refused = IF r.chunk = {} THEN n ELSE 0]

Free(c) ==
  /\ c \in DOMAIN live
  /\ pool' = Release(pool, c)
  /\ live' = Restrict(live, DOMAIN live \ {c})
  /\ event' = Quiet

\* Realloc where the chunk is: smaller, or into the free chunk after it.
ReallocInPlace(c, n) ==
  LET old == pool.tag[c].size
      next == c + old
      forward == IF old < n THEN pool.tag[next].size ELSE 0
  IN  /\ c \in DOMAIN live
      /\ old < n => (~pool.tag[next].used /\ old + forward >= n)
      /\ pool' = Shrink(IF old < n THEN UnlinkFree(pool, next) ELSE pool, c, old + forward, n)
      /\ live' = [live EXCEPT ![c] = n]
      /\ event' = Quiet

\* Realloc into the free chunk before it, with the one after it if that is free too.
ReallocBackward(c, n) ==
  LET old == pool.tag[c].size
      next == c + old
      forward == IF pool.tag[next].used THEN 0 ELSE pool.tag[next].size
      prev == c - pool.prevTag[c].size
      room == (c - prev) + old + forward
      p == IF pool.tag[next].used THEN pool ELSE UnlinkFree(pool, next)
  IN  /\ c \in DOMAIN live
      /\ old + forward < n
      /\ ~pool.prevTag[c].used /\ room >= n
      /\ pool' = Shrink(UnlinkFree(p, prev), prev, room, n)
      /\ live' = Written(Restrict(live, DOMAIN live \ {c}), {prev}, n)
      /\ event' = [Quiet EXCEPT !.spoiled =
                     Spoils(c + HeaderSize .. c + live[c] - 1, prev, room, n)]

\* Realloc by Alloc, memcpy and Free.
ReallocByCopy(c, n) ==
  LET old == pool.tag[c].size
      forward == IF pool.tag[c + old].used THEN 0 ELSE pool.tag[c + old].size
      backward == IF pool.prevTag[c].used THEN 0 ELSE pool.prevTag[c].size
      r == Take(pool, n)
  IN  /\ c \in DOMAIN live
      /\ backward + old + forward < n
      /\ IF r.chunk = {}
         THEN /\ UNCHANGED <<pool, live>>
              /\ event' = [Quiet EXCEPT !.refused = n]
         ELSE /\ pool' = Release(r.pool, c)
              /\ live' = Written(Restrict(live, DOMAIN live \ {c}), r.chunk, n)
              /\ event' = Quiet

\* FreeAll, at the end of a compilation: whatever the callers hold is gone.  Only the
\* interpreter calls it and FreeAllInternal; its pools grow.
FreeAll ==
  /\ pool.areaMore # 0
  /\ pool' = EmptyPool(pool.areaMore)
  /\ live' = <<>>
  /\ event' = Quiet

\* FreeAllInternal, when the class library is compiled anew: the areas stay, and are
\* linked in the order in which they are in the list, here in any.
FreeAllInternal ==
  LET n == Cardinality(DOMAIN pool.areas)
      AreaFree(p, k) == LinkFree(NewArea(p, k, pool.areas[k]), Base(k))
  IN  /\ pool.areaMore # 0
      /\ \E area \in Bijection(1 .. n, DOMAIN pool.areas) :
           LET First[i \in 0 .. n] == IF i = 0 THEN EmptyPool(pool.areaMore)
                                      ELSE AreaFree(First[i - 1], area[i])
           IN  pool' = First[n]
      /\ live' = <<>>
      /\ event' = Quiet

Next ==
  \/ \E n \in Sizes : Alloc(n)
  \/ \E c \in DOMAIN live :
       \/ Free(c)
       \/ \E n \in Sizes : ReallocInPlace(c, n) \/ ReallocBackward(c, n) \/ ReallocByCopy(c, n)
  \/ FreeAll \/ FreeAllInternal

Spec == Init /\ [][Next]_vars

----------------------------------------------------------------------------
\* Properties.

Chunks == {c \in DOMAIN pool.tag : pool.tag[c] # EndMark}
FreeChunks == {c \in Chunks : ~pool.tag[c].used}

\* The two copies of every size agree (DoCheckChunk), and every header starts where
\* another chunk or an area starts.
HeadersAgree ==
  /\ \A c \in Chunks : /\ c + pool.tag[c].size \in DOMAIN pool.tag
                       /\ pool.prevTag[c + pool.tag[c].size] = pool.tag[c]
  /\ DOMAIN pool.prevTag = DOMAIN pool.tag
  /\ DOMAIN pool.tag = {Base(k) : k \in DOMAIN pool.areas}
                         \union {c + pool.tag[c].size : c \in Chunks}

\* A free chunk has a legal size and no free neighbour (DoCheckFreeChunk).
Consolidated ==
  \A c \in FreeChunks : /\ pool.tag[c].size >= MinSize
                        /\ pool.prevTag[c].used
                        /\ pool.tag[c + pool.tag[c].size].used

\* The bins hold the free chunks, each once and in the bin of its size, the smallest at the
\* end; the bit of a bin tells whether it is empty (DoCheckBin).
BinsExact ==
  \A i \in Index :
    LET bin == pool.bins[i]
    IN  /\ i \in pool.marked <=> bin # <<>>
        /\ ToSet(bin) = {c \in FreeChunks : BinIndex(pool.tag[c].size) = i}
        /\ \A k \in DOMAIN bin : \A j \in 1 .. k - 1 :
             bin[j] # bin[k] /\ pool.tag[bin[j]].size >= pool.tag[bin[k]].size

\* The chunks in use are those that a caller holds, none with more than a unit to spare.
RoomGiven ==
  /\ Chunks \ FreeChunks = DOMAIN live
  /\ \A c \in DOMAIN live : pool.tag[c].size \in {live[c], live[c] + 1}

\* The assertions of DoCheckPool and more, after every call: no two owners ever share a unit
\* and no unit is lost.
PoolWhole == HeadersAgree /\ Consolidated /\ BinsExact /\ RoomGiven

\* A request takes the smallest free chunk that is large enough, and it takes a new area or
\* throws only when no free chunk is.
BestFit ==
  [][\A n \in Sizes :
       LET enough == {c \in FreeChunks : pool.tag[c].size >= n}
           given == DOMAIN live' \ DOMAIN live
       IN  (Alloc(n) /\ enough # {}) =>
             \E c \in given : c \in enough /\ \A d \in enough : pool.tag[c].size <= pool.tag[d].size]_vars

\* A pool that grows gives an area back with the last chunk of it that is in use; only
\* FreeAllInternal leaves areas in which nothing is in use.
Occupied(k) == \E c \in DOMAIN live : c \in Base(k) .. (Base(k) + Stride - 1)
AreasGivenBack ==
  [][pool.areaMore # 0 /\ ~FreeAllInternal =>
       \A k \in DOMAIN pool'.areas : Occupied(k) => Occupied(k)']_vars

\* Realloc keeps the memory it moves.
ContentsKept == ~event.spoiled

============================================================================
