------------------------ MODULE VideoUpscale_proofs -------------------------
(***************************************************************************)
(* What a worker of the video upscaling never does, for any source, cuts,  *)
(* margins, providers, threads and keys.                                   *)
(*                                                                         *)
(* Two things carry the proof: a slot is free, the key of one thread, or   *)
(* lent to a thread of an abandoned job (Balanced), and threads are at work only while the executor is   *)
(* open (Placed).  What a film shows follows from the shape of the parts.  *)
(***************************************************************************)
EXTENDS VideoUpscale, TLAPS, FiniteSetTheorems, WellFoundedInduction

\* Parts that begin where the one before ends and cover the source.
ShapeOf(w) ==
    /\ w \in Seq([from : Nat, frames : Nat \ {0}])
    /\ Len(w) \in 1..MaxParts
    /\ w[1].from = 0
    /\ w[Len(w)].from + w[Len(w)].frames = SourceFrames
    /\ \A i \in 1..Len(w) : w[i].frames =< Ceiling - HeadContext
    /\ \A i \in 1..(Len(w) - 1) : w[i + 1].from = w[i].from + w[i].frames

\* A cut makes such parts.
LEMMA CutsHaveShape ==
    ASSUME NEW c \in Cuts
    PROVE  ShapeOf(PartsOf(c))
<1> DEFINE n == Len(c) - 1
<1> DEFINE w == PartsOf(c)
<1>1. /\ c \in Seq(Nat) /\ Len(c) \in 2..(MaxParts + 1)
      /\ c[1] = 0 /\ c[Len(c)] = SourceFrames
      /\ \A i \in 1..(Len(c) - 1) :
            c[i] < c[i + 1] /\ c[i + 1] - c[i] =< Ceiling - HeadContext
      /\ MaxParts \in Nat
  BY CutsAssumption
<1>2. n \in Nat /\ n \in 1..MaxParts /\ n + 1 = Len(c)
  BY <1>1
<1>3. \A i \in 1..n : c[i] \in Nat /\ c[i + 1] \in Nat /\ c[i + 1] - c[i] \in Nat \ {0}
  BY <1>1, <1>2
<1>4. w = [i \in 1..n |-> [from |-> c[i], frames |-> c[i + 1] - c[i]]]
  BY DEF PartsOf
<1>5. w \in [1..n -> [from : Nat, frames : Nat \ {0}]]
  BY <1>3, <1>4
<1>6. w \in Seq([from : Nat, frames : Nat \ {0}]) /\ Len(w) = n
  <2> DEFINE S == [from : Nat, frames : Nat \ {0}]
  <2>1. w \in [1..n -> S]
    BY <1>5
  <2> HIDE DEF w, n, S
  <2>2. w \in Seq(S) /\ Len(w) = n
    BY <1>2, <2>1
  <2> QED BY <2>2 DEF S
<1>7. \A i \in 1..n : w[i].from = c[i] /\ w[i].frames = c[i + 1] - c[i]
  BY <1>4
<1>8. /\ w[1].from = 0 /\ w[n].from + w[n].frames = SourceFrames
      /\ \A i \in 1..n : w[i].frames =< Ceiling - HeadContext
  BY <1>1, <1>2, <1>3, <1>7
<1>9. ASSUME NEW i \in 1..(n - 1) PROVE w[i + 1].from = w[i].from + w[i].frames
  <2>1. i \in 1..n /\ i + 1 \in 1..n
    BY <1>2
  <2> QED BY <2>1, <1>3, <1>7
<1> HIDE DEF w
<1> QED BY <1>2, <1>6, <1>8, <1>9 DEF ShapeOf, w

\* How long the pieces of an upload are.
LEMMA Lengths ==
    ASSUME ShapeOf(parts), NEW i \in 1..Len(parts)
    PROVE  /\ parts[i].from \in Nat /\ parts[i].frames \in Nat \ {0}
           /\ Lead(i) \in Nat /\ Lead(i) =< HeadContext
           /\ i # 1 => i - 1 \in 1..Len(parts) /\ Lead(i) =< parts[i - 1].frames
           /\ Margin(i) \in Nat /\ UploadFrames(i) =< Ceiling
           /\ TailReal(i) \in Nat /\ TailReal(i) =< Margin(i)
           /\ i = Len(parts) => TailReal(i) = 0
           /\ i # Len(parts) => i + 1 \in 1..Len(parts) /\ TailReal(i) =< parts[i + 1].frames
           /\ KeepTo(i) = Lead(i) + parts[i].frames
           /\ UploadFrames(i) = KeepTo(i) + Margin(i)
<1>1. /\ parts \in Seq([from : Nat, frames : Nat \ {0}]) /\ Len(parts) \in Nat
      /\ \A j \in 1..Len(parts) : parts[j].frames =< Ceiling - HeadContext
      /\ HeadContext \in Nat /\ TailMargin \in Nat /\ Ceiling \in Nat
  BY FramesAssumption DEF ShapeOf
<1>2. \A j \in 1..Len(parts) : parts[j].from \in Nat /\ parts[j].frames \in Nat \ {0}
  <2> DEFINE S == [from : Nat, frames : Nat \ {0}]
  <2>0. parts \in Seq(S)
    BY <1>1
  <2> HIDE DEF S
  <2>1. \A j \in 1..Len(parts) : parts[j] \in S
    BY <2>0
  <2> QED BY <2>1 DEF S
<1>3. /\ parts[i].frames \in Nat /\ parts[i].frames =< Ceiling - HeadContext
      /\ HeadContext \in Nat /\ TailMargin \in Nat /\ Ceiling \in Nat
  BY <1>1, <1>2
<1>4. /\ Lead(i) \in Nat /\ Lead(i) =< HeadContext
      /\ i # 1 => i - 1 \in 1..Len(parts) /\ Lead(i) =< parts[i - 1].frames
  <2>1. CASE i = 1
    BY <1>1, <2>1 DEF Lead
  <2>2. CASE i # 1
    <3>1. i - 1 \in 1..Len(parts)
      BY <1>1, <2>2
    <3>2. parts[i - 1].frames \in Nat
      BY <1>2, <3>1
    <3>3. Lead(i) = Lesser(HeadContext, parts[i - 1].frames)
      BY <2>2 DEF Lead
    <3>4. /\ Lead(i) \in {HeadContext, parts[i - 1].frames}
          /\ Lead(i) =< HeadContext /\ Lead(i) =< parts[i - 1].frames
      BY <1>3, <3>2, <3>3 DEF Lesser
    <3> QED BY <1>3, <3>1, <3>2, <3>4
  <2> QED BY <2>1, <2>2
<1>5. Margin(i) \in Nat /\ Lead(i) + parts[i].frames + Margin(i) =< Ceiling
  <2> DEFINE left == Ceiling - Lead(i) - parts[i].frames
  <2>0. Lead(i) \in Nat /\ Lead(i) =< HeadContext
    BY <1>4
  <2>1. left \in Nat
    BY <1>3, <2>0
  <2>2. Margin(i) = Lesser(TailMargin, left)
    <3>1. Margin(i) = IF left < 0 THEN 0 ELSE Lesser(TailMargin, left)
      BY Zenon DEF Margin
    <3> HIDE DEF left
    <3> QED BY <2>1, <3>1
  <2>3. Margin(i) \in Nat /\ Margin(i) =< left
    <3> HIDE DEF left
    <3> QED BY <1>3, <2>1, <2>2 DEF Lesser
  <2> QED BY <1>3, <2>0, <2>3
<1>6. /\ TailReal(i) \in Nat /\ TailReal(i) =< Margin(i)
      /\ i = Len(parts) => TailReal(i) = 0
      /\ i # Len(parts) => i + 1 \in 1..Len(parts) /\ TailReal(i) =< parts[i + 1].frames
  <2>1. CASE i = Len(parts)
    BY <1>5, <2>1 DEF TailReal
  <2>2. CASE i # Len(parts)
    <3>1. i + 1 \in 1..Len(parts)
      BY <1>1, <2>2
    <3>2. parts[i + 1].frames \in Nat
      BY <1>2, <3>1
    <3>3. TailReal(i) = Lesser(Margin(i), parts[i + 1].frames)
      BY <2>2 DEF TailReal
    <3> QED BY <1>5, <2>2, <3>1, <3>2, <3>3 DEF Lesser
  <2> QED BY <2>1, <2>2
<1> QED BY <1>2, <1>4, <1>5, <1>6 DEF KeepTo, UploadFrames

\* A position in the middle of an upload shows the part.
LEMMA MiddleIsThePart ==
    ASSUME ShapeOf(parts), NEW i \in 1..Len(parts), NEW q \in 1..parts[i].frames
    PROVE  FrameAt(i, Lead(i) + q - 1) = parts[i].from + q - 1
<1>1. parts[i].from \in Nat /\ parts[i].frames \in Nat /\ Lead(i) \in Nat
      /\ KeepTo(i) = Lead(i) + parts[i].frames
  BY Lengths
<1>2. ~(Lead(i) + q - 1 < Lead(i)) /\ Lead(i) + q - 1 < KeepTo(i)
  BY <1>1
<1> QED BY <1>1, <1>2 DEF FrameAt

\* Uploads are within the ceiling and follow the source, frame by frame.
LEMMA ShapedUploadsFit ==
    ASSUME ShapeOf(parts)
    PROVE  UploadsFit
<1> SUFFICES ASSUME NEW i \in 1..Len(parts)
             PROVE  /\ UploadFrames(i) =< Ceiling
                    /\ \A p \in 0..(UploadFrames(i) - 2) :
                        FrameAt(i, p + 1) = FrameAt(i, p)
                          + (IF (i = 1 /\ p < Lead(i)) \/ p + 1 >= KeepTo(i) + TailReal(i)
                             THEN 0 ELSE 1)
  BY DEF UploadsFit
<1>1. UploadFrames(i) =< Ceiling
  BY Lengths
<1>2. ASSUME NEW p \in 0..(UploadFrames(i) - 2)
      PROVE  FrameAt(i, p + 1) = FrameAt(i, p)
               + (IF (i = 1 /\ p < Lead(i)) \/ p + 1 >= KeepTo(i) + TailReal(i) THEN 0 ELSE 1)
  <2> DEFINE h == Lead(i)  b == parts[i].frames  f == parts[i].from  r == TailReal(i)
  <2>1. /\ h \in Nat /\ b \in Nat \ {0} /\ f \in Nat /\ r \in Nat /\ p \in Nat
        /\ KeepTo(i) = h + b
        /\ i = Len(parts) => r = 0
    BY Lengths
  <2>2. parts[1].from = 0 /\ (i = 1 => f = 0)
    BY DEF ShapeOf
  <2>3. i # 1 => /\ parts[i - 1].from + parts[i - 1].frames = f
                 /\ parts[i - 1].from \in Nat /\ parts[i - 1].frames \in Nat
    <3> SUFFICES ASSUME i # 1 PROVE /\ parts[i - 1].from + parts[i - 1].frames = f
                                    /\ parts[i - 1].from \in Nat /\ parts[i - 1].frames \in Nat
      OBVIOUS
    <3>1. i - 1 \in 1..Len(parts)
      BY Lengths
    <3>2. i - 1 \in 1..(Len(parts) - 1) /\ (i - 1) + 1 = i
      BY <3>1 DEF ShapeOf
    <3>3. parts[(i - 1) + 1].from = parts[i - 1].from + parts[i - 1].frames
      BY <3>2 DEF ShapeOf
    <3> QED BY <3>1, <3>2, <3>3, Lengths
  <2>4. r # 0 => parts[i + 1].from = f + b
    <3> SUFFICES ASSUME r # 0 PROVE parts[i + 1].from = f + b
      OBVIOUS
    <3>1. i \in 1..(Len(parts) - 1)
      BY <2>1 DEF ShapeOf
    <3> QED BY <3>1 DEF ShapeOf
  <2> DEFINE At0(x) == IF x < h THEN IF i = 1 THEN 0 ELSE f - h + x
                       ELSE IF x < h + b THEN f + x - h
                       ELSE IF r = 0 THEN f + b - 1
                       ELSE f + b + Lesser(x - (h + b), r - 1)
  <2>5. \A x \in Nat : FrameAt(i, x) = At0(x)
    <3> SUFFICES ASSUME NEW x \in Nat PROVE FrameAt(i, x) = At0(x)
      OBVIOUS
    <3>1. CASE x < h
      BY <3>1, <2>1, <2>2, <2>3 DEF FrameAt
    <3>2. CASE ~(x < h)
      BY <3>2, <2>1, <2>4 DEF FrameAt
    <3> QED BY <3>1, <3>2
  <2>6. FrameAt(i, p) = At0(p) /\ FrameAt(i, p + 1) = At0(p + 1)
    BY <2>1, <2>5
  <2>7. At0(p + 1) = At0(p) + (IF (i = 1 /\ p < h) \/ p + 1 >= h + b + r THEN 0 ELSE 1)
    <3>1. /\ h \in Nat /\ b \in Nat \ {0} /\ f \in Nat /\ r \in Nat /\ p \in Nat
          /\ i = 1 => f = 0
      BY <2>1, <2>2
    <3> HIDE DEF h, b, f, r
    <3>2. CASE p + 1 < h + b
      BY <3>1, <3>2
    <3>3. CASE p + 1 = h + b
      BY <3>1, <3>3 DEF Lesser
    <3>4. CASE p + 1 > h + b /\ r = 0
      BY <3>1, <3>4
    <3>5. CASE p + 1 > h + b /\ r # 0
      BY <3>1, <3>5 DEF Lesser
    <3> QED BY <3>1, <3>2, <3>3, <3>4, <3>5
  <2> QED BY <2>1, <2>6, <2>7
<1> QED BY <1>1, <1>2

-----------------------------------------------------------------------------
(* The invariant.                                                          *)

\* A slot is free, or the key of one thread, or with a thread of an abandoned job.
BalancedOf(f, g, l) == \A k \in Keys : f[k] + Cardinality(Holders(g, k)) + l[k] = PerKey
Balanced == BalancedOf(free, seg, lent)

\* Keys are held where orders are placed and followed, and nowhere else; a thread
\* at work is at one of its attempts.
KeysInUse == \A s \in Segs :
    /\ seg[s].key # NoKey => seg[s].step \in {"posting", "polling"}
    /\ s \in AtWork => seg[s].attempt \in 1..MaxAttempts

\* Threads are at work while the executor is open, on parts there are.
Placed ==
    /\ phase \notin {"running", "leaving"} => AtWork = {}
    /\ phase = "preparing" => seg = AllQueued
    /\ phase \in {"running", "leaving", "merging"} =>
           /\ parts # <<>>
           /\ \A s \in Segs : seg[s].step # "queued" => s \in 1..Len(parts)

UpscaleInv == UpscaleTypeOK /\ Balanced /\ KeysInUse /\ Placed /\ FilmIsTheSource

\* Parts in the directory have the shape of a cut.
LEMMA PartsHaveShape ==
    ASSUME UpscaleTypeOK, parts # <<>>
    PROVE  ShapeOf(parts)
BY CutsHaveShape DEF UpscaleTypeOK

\* No thread, no holder: every slot is free, or lent.
LEMMA NobodyHolds ==
    ASSUME UpscaleTypeOK, KeysInUse, AtWork = {}
    PROVE  /\ \A k \in Keys : Holders(seg, k) = {}
           /\ Balanced => \A k \in Keys : free[k] + lent[k] = PerKey
<1>1. \A k \in Keys : k # NoKey
  BY LimitsAssumption DEF Keys, NoKey
<1>2. \A s \in Segs : seg[s].key = NoKey
  BY DEF KeysInUse, AtWork
<1>3. \A k \in Keys : Holders(seg, k) = {}
  BY <1>1, <1>2 DEF Holders
<1>4. ASSUME Balanced, NEW k \in Keys PROVE free[k] + lent[k] = PerKey
  <2>1. Cardinality(Holders(seg, k)) = 0
    BY <1>3, FS_EmptySet
  <2>2. free[k] \in 0..PerKey /\ lent[k] \in 0..PerKey /\ free[k] + 0 + lent[k] = PerKey
    BY <2>1, <1>4 DEF Balanced, BalancedOf, UpscaleTypeOK
  <2> QED BY <2>2, LimitsAssumption
<1> QED BY <1>3, <1>4

\* Threads that have not begun hold no slot.
LEMMA QuietIsBalanced ==
    ASSUME NEW f \in [Keys -> 0..PerKey], NEW l \in [Keys -> 0..PerKey],
           \A k \in Keys : f[k] + l[k] = PerKey
    PROVE  BalancedOf(f, AllQueued, l)
<1> SUFFICES ASSUME NEW k \in Keys
             PROVE  f[k] + Cardinality(Holders(AllQueued, k)) + l[k] = PerKey
  BY DEF BalancedOf
<1>1. Holders(AllQueued, k) = {}
  BY LimitsAssumption DEF Holders, AllQueued, Queued, At, Keys, NoKey
<1>2. Cardinality(Holders(AllQueued, k)) = 0
  BY <1>1, FS_EmptySet
<1>3. f[k] \in Nat /\ l[k] \in Nat /\ f[k] + l[k] = PerKey
  BY LimitsAssumption
<1> QED BY <1>2, <1>3

\* A process that begins has all its slots.
LEMMA FreshIsBalanced ==
    /\ AllFree \in [Keys -> 0..PerKey] /\ NoneLent \in [Keys -> 0..PerKey]
    /\ BalancedOf(AllFree, AllQueued, NoneLent)
<1>1. AllFree \in [Keys -> 0..PerKey] /\ NoneLent \in [Keys -> 0..PerKey]
  BY LimitsAssumption DEF AllFree, NoneLent
<1>2. \A k \in Keys : AllFree[k] + NoneLent[k] = PerKey
  BY LimitsAssumption DEF AllFree, NoneLent
<1> QED BY <1>1, <1>2, QuietIsBalanced

\* Holders of a key are finitely many.
LEMMA HoldersAreFinite ==
    ASSUME NEW g, NEW k
    PROVE  IsFiniteSet(Holders(g, k)) /\ Cardinality(Holders(g, k)) \in Nat
<1>1. IsFiniteSet(Segs)
  BY FS_Interval, CutsAssumption DEF Segs
<1>2. IsFiniteSet(Holders(g, k))
  BY <1>1, FS_Subset DEF Holders
<1> QED BY <1>2, FS_CardinalityType

\* A step of a thread that keeps its key, or has none, moves no slot.
LEMMA KeysKept ==
    ASSUME BalancedOf(free, seg, lent), NEW g, \A s \in Segs : g[s].key = seg[s].key
    PROVE  BalancedOf(free, g, lent)
<1>1. \A k \in Keys : Holders(g, k) = Holders(seg, k)
  BY DEF Holders
<1> QED BY <1>1 DEF BalancedOf

\* Taking a slot that is free.
LEMMA Taking ==
    ASSUME UpscaleTypeOK, Balanced,
           NEW s \in Segs, NEW k \in Keys, seg[s].key = NoKey, free[k] > 0, Take(s, k), lent' = lent
    PROVE  /\ free' \in [Keys -> 0..PerKey]
           /\ Balanced'
<1>1. /\ seg' = [seg EXCEPT ![s] = At("posting", seg[s].attempt, <<0, 0>>, k)]
      /\ free' = [free EXCEPT ![k] = free[k] - 1]
  BY DEF Take
<1>2. DOMAIN seg = Segs /\ DOMAIN free = Keys /\ free \in [Keys -> 0..PerKey] /\ PerKey \in Nat
  BY LimitsAssumption DEF UpscaleTypeOK
<1>3. seg'[s].key = k /\ \A t \in Segs : t # s => seg'[t].key = seg[t].key
  BY <1>1, <1>2 DEF At
<1>4. k # NoKey
  BY LimitsAssumption DEF Keys, NoKey
<1>5. free' \in [Keys -> 0..PerKey]
  <2>1. free[k] - 1 \in 0..PerKey
    BY <1>2
  <2> QED BY <1>1, <1>2, <2>1
<1>6. ASSUME NEW j \in Keys
      PROVE  free'[j] + Cardinality(Holders(seg', j)) + lent[j] = PerKey
  <2>1. /\ IsFiniteSet(Holders(seg, j)) /\ Cardinality(Holders(seg, j)) \in Nat
        /\ free[j] + Cardinality(Holders(seg, j)) + lent[j] = PerKey
        /\ free[j] \in 0..PerKey /\ lent[j] \in Nat
    BY <1>2, HoldersAreFinite DEF Balanced, BalancedOf, UpscaleTypeOK
  <2>2. CASE j = k
    <3>1. Holders(seg', j) = Holders(seg, j) \cup {s} /\ s \notin Holders(seg, j)
      BY <1>3, <1>4, <2>2 DEF Holders
    <3>2. Cardinality(Holders(seg', j)) = Cardinality(Holders(seg, j)) + 1
      BY <2>1, <3>1, FS_AddElement
    <3>3. free'[j] = free[j] - 1
      BY <1>1, <1>2, <2>2
    <3> QED BY <1>2, <2>1, <3>2, <3>3
  <2>3. CASE j # k
    <3>1. Holders(seg', j) = Holders(seg, j)
      <4>1. j # NoKey
        BY LimitsAssumption DEF Keys, NoKey
      <4> QED BY <1>3, <2>3, <4>1 DEF Holders
    <3>2. free'[j] = free[j]
      BY <1>1, <1>2, <2>3
    <3> QED BY <2>1, <3>1, <3>2
  <2> QED BY <2>2, <2>3
<1> QED BY <1>5, <1>6 DEF Balanced, BalancedOf

\* Giving back the slot of a thread that goes on without one.
LEMMA Giving ==
    ASSUME UpscaleTypeOK, Balanced, NEW s \in Segs, Release(s),
           NEW r, r.key = NoKey, seg' = [seg EXCEPT ![s] = r], lent' = lent
    PROVE  /\ free' \in [Keys -> 0..PerKey]
           /\ Balanced'
<1> DEFINE k == seg[s].key
<1>1. /\ DOMAIN seg = Segs /\ DOMAIN free = Keys /\ free \in [Keys -> 0..PerKey]
      /\ PerKey \in Nat /\ k \in 0..NumKeys
  BY LimitsAssumption DEF UpscaleTypeOK
<1>2. seg'[s].key = NoKey /\ \A t \in Segs : t # s => seg'[t].key = seg[t].key
  BY <1>1
<1>3. CASE k = NoKey
  <2>1. free' = free
    BY <1>3 DEF Release
  <2>2. \A t \in Segs : seg'[t].key = seg[t].key
    BY <1>2, <1>3
  <2>3. BalancedOf(free, seg', lent)
    BY <2>2, KeysKept DEF Balanced
  <2> QED BY <1>1, <2>1, <2>3 DEF Balanced
<1>4. CASE k # NoKey
  <2>1. k \in Keys /\ free' = [free EXCEPT ![k] = free[k] + 1]
    BY <1>1, <1>4, LimitsAssumption DEF Release, Keys, NoKey
  <2>2. ASSUME NEW j \in Keys
        PROVE  free'[j] \in 0..PerKey /\ free'[j] + Cardinality(Holders(seg', j)) + lent[j] = PerKey
    <3>1. /\ IsFiniteSet(Holders(seg, j)) /\ Cardinality(Holders(seg, j)) \in Nat
          /\ free[j] + Cardinality(Holders(seg, j)) + lent[j] = PerKey
          /\ free[j] \in 0..PerKey /\ lent[j] \in Nat
      BY <1>1, HoldersAreFinite DEF Balanced, BalancedOf, UpscaleTypeOK
    <3>2. j # NoKey
      BY LimitsAssumption DEF Keys, NoKey
    <3>3. CASE j = k
      <4>1. Holders(seg', j) = Holders(seg, j) \ {s} /\ s \in Holders(seg, j)
        BY <1>2, <3>2, <3>3 DEF Holders
      <4>2. Cardinality(Holders(seg', j)) = Cardinality(Holders(seg, j)) - 1
        BY <3>1, <4>1, FS_RemoveElement
      <4>3. Cardinality(Holders(seg', j)) \in Nat
        BY HoldersAreFinite
      <4>4. free'[j] = free[j] + 1
        BY <1>1, <2>1, <3>3
      <4> QED BY <1>1, <3>1, <4>2, <4>3, <4>4
    <3>4. CASE j # k
      <4>1. Holders(seg', j) = Holders(seg, j)
        BY <1>2, <3>2, <3>4 DEF Holders
      <4>2. free'[j] = free[j]
        BY <1>1, <2>1, <3>4
      <4> QED BY <3>1, <4>1, <4>2
    <3> QED BY <3>3, <3>4
  <2>3. free' \in [Keys -> 0..PerKey]
    BY <1>1, <2>1, <2>2
  <2> QED BY <2>2, <2>3 DEF Balanced, BalancedOf
<1> QED BY <1>3, <1>4

-----------------------------------------------------------------------------
(* Steps of the threads.                                                   *)

Threads == [step : Steps, attempt : 0..MaxAttempts,
            at : (0..(NumKeys - 1)) \X (0..(NumKeys - 1)), key : 0..NumKeys]

\* What a thread may become.
Sound(r) ==
    /\ r \in Threads /\ r.step # "queued"
    /\ r.key # NoKey => r.step \in {"posting", "polling"}
    /\ r.step \notin {"done", "failed"} => r.attempt \in 1..MaxAttempts

LEMMA SoundStates ==
    ASSUME NEW step \in Steps, NEW attempt \in 0..MaxAttempts, NEW key \in 0..NumKeys,
           NEW start \in 0..(NumKeys - 1), NEW offset \in 0..(NumKeys - 1),
           step # "queued", key # NoKey => step \in {"posting", "polling"},
           step \notin {"done", "failed"} => attempt \in 1..MaxAttempts
    PROVE  Sound(At(step, attempt, <<start, offset>>, key))
BY DEF Sound, At, Threads

\* An attempt begins, or there is none left.
LEMMA NextAttemptIsSound ==
    ASSUME NEW a \in 0..MaxAttempts
    PROVE  LET r == IF a < MaxAttempts THEN Enter(a + 1) ELSE At("failed", 0, <<0, 0>>, NoKey)
           IN  Sound(r) /\ r.key = NoKey
<1>1. /\ NoKey \in 0..NumKeys /\ 0 \in 0..(NumKeys - 1) /\ 0 \in 0..MaxAttempts
      /\ MaxAttempts \in Nat
      /\ {"failed", "rotate", "posting"} \subseteq Steps
  BY LimitsAssumption DEF NoKey, Steps
<1>2. Sound(At("failed", 0, <<0, 0>>, NoKey)) /\ At("failed", 0, <<0, 0>>, NoKey).key = NoKey
  BY <1>1, SoundStates DEF At
<1>3. ASSUME a < MaxAttempts PROVE Sound(Enter(a + 1)) /\ Enter(a + 1).key = NoKey
  <2>1. a + 1 \in 1..MaxAttempts /\ a + 1 \in 0..MaxAttempts
    BY <1>1, <1>3
  <2>2. Sound(At("rotate", a + 1, <<0, 0>>, NoKey)) /\ Sound(At("posting", a + 1, <<0, 0>>, NoKey))
    BY <1>1, <2>1, SoundStates
  <2> QED BY <2>2 DEF Enter, At
<1> QED BY <1>2, <1>3

\* A thread that moves, with the slots in balance, keeps the invariant.
LEMMA ThreadMoves ==
    ASSUME UpscaleInv, NEW s \in Segs, NEW r, Sound(r),
           s \in 1..Len(parts), phase \in {"running", "leaving"},
           seg' = [seg EXCEPT ![s] = r],
           free' \in [Keys -> 0..PerKey], Balanced',
           kept' \in [Segs -> Nat], rotation' \in 0..(NumKeys - 1),
           adrift' \in SUBSET Segs,
           UNCHANGED <<phase, order, parts, film, stray, lent>>
    PROVE  UpscaleInv'
<1>1. seg \in [Segs -> Threads] /\ r \in Threads
  BY DEF UpscaleInv, UpscaleTypeOK, Threads, Sound
<1>2. seg' \in [Segs -> Threads] /\ seg'[s] = r /\ \A t \in Segs : t # s => seg'[t] = seg[t]
  BY <1>1
<1>3. UpscaleTypeOK'
  BY <1>2 DEF UpscaleInv, UpscaleTypeOK, Threads
<1>4. KeysInUse'
  BY <1>2 DEF UpscaleInv, KeysInUse, Sound, AtWork
<1>5. Placed'
  BY <1>2 DEF UpscaleInv, Placed
<1>6. FilmIsTheSource'
  BY DEF UpscaleInv, FilmIsTheSource
<1> QED BY <1>3, <1>4, <1>5, <1>6 DEF UpscaleInv

\* What is known of a thread at work.
LEMMA WorkerFacts ==
    ASSUME UpscaleInv, NEW s \in AtWork
    PROVE  /\ s \in Segs /\ s \in 1..Len(parts) /\ phase \in {"running", "leaving"}
           /\ seg[s] \in Threads /\ seg[s].attempt \in 1..MaxAttempts
           /\ parts # <<>> /\ free \in [Keys -> 0..PerKey]
           /\ kept \in [Segs -> Nat] /\ rotation \in 0..(NumKeys - 1)
           /\ adrift \in SUBSET Segs
           /\ Paying(s) \in SUBSET Segs
           /\ seg[s].step \notin {"posting", "polling"} => seg[s].key = NoKey
<1>1. s \in Segs /\ seg[s].step \notin {"queued", "done", "failed"}
  BY DEF AtWork
<1>2. phase \in {"running", "leaving"}
  BY DEF UpscaleInv, Placed
<1>3. seg[s].attempt \in 1..MaxAttempts
  BY <1>1 DEF UpscaleInv, KeysInUse
<1>4. seg[s] \in Threads
  BY <1>1 DEF UpscaleInv, UpscaleTypeOK, Threads
<1>5. Paying(s) \in SUBSET Segs
  BY <1>1, <1>3 DEF Paying
<1> QED BY <1>1, <1>2, <1>3, <1>4, <1>5 DEF UpscaleInv, UpscaleTypeOK, Placed, KeysInUse

\* The end of an attempt, whoever caused it.
LEMMA AttemptFails ==
    ASSUME UpscaleInv, NEW s \in AtWork, FailAttempt(s),
           adrift' \in SUBSET Segs,
           UNCHANGED <<phase, order, parts, kept, rotation, film, stray, lent>>
    PROVE  UpscaleInv'
<1> DEFINE r == IF seg[s].attempt < MaxAttempts THEN Enter(seg[s].attempt + 1)
                ELSE At("failed", 0, <<0, 0>>, NoKey)
<1>1. seg[s].attempt \in 0..MaxAttempts
  BY WorkerFacts
<1>2. Sound(r) /\ r.key = NoKey
  BY <1>1, NextAttemptIsSound
<1>3. seg' = [seg EXCEPT ![s] = r] /\ Release(s)
  BY DEF FailAttempt
<1> HIDE DEF r
<1>4. free' \in [Keys -> 0..PerKey] /\ Balanced'
  BY <1>2, <1>3, Giving, WorkerFacts DEF UpscaleInv
<1>5. kept' \in [Segs -> Nat] /\ rotation' \in 0..(NumKeys - 1)
  BY WorkerFacts
<1> QED BY <1>2, <1>3, <1>4, <1>5, ThreadMoves, WorkerFacts

\* Places in the scan are keys.
LEMMA PlacesAreKeys ==
    ASSUME NEW start \in 0..(NumKeys - 1), NEW offset \in 0..(NumKeys - 1)
    PROVE  KeyAt(start, offset) \in Keys
<1>1. start + offset \in Nat /\ NumKeys \in Nat /\ NumKeys > 0
  BY LimitsAssumption
<1>2. (start + offset) % NumKeys \in 0..(NumKeys - 1)
  BY <1>1
<1> QED BY <1>1, <1>2 DEF KeyAt, Keys

\* Steps of a thread keep the invariant.
LEMMA ThreadKeepsInv ==
    ASSUME UpscaleInv, NEW s \in Segs, Thread(s)
    PROVE  UpscaleInv'
<1> USE DEF Thread
<1>0. /\ NoKey \in 0..NumKeys /\ 0 \in 0..(NumKeys - 1) /\ 0 \in 0..MaxAttempts
      /\ MaxAttempts \in Nat /\ NumKeys \in Nat \ {0}
  BY LimitsAssumption DEF NoKey
<1>a. ASSUME seg[s].step \in {"rotate", "scanning", "blocked", "posting", "polling", "fetching"}
      PROVE  s \in AtWork
  BY <1>a DEF AtWork
<1>1. CASE StartSegment(s)
  <2>1. /\ s \in 1..Len(parts) /\ phase \in {"running", "leaving"} /\ seg[s].step = "queued"
        /\ seg' = [seg EXCEPT ![s] = Enter(1)]
        /\ UNCHANGED <<phase, order, parts, kept, free, rotation, adrift, film, stray, lent>>
    BY <1>1 DEF StartSegment
  <2>2. Sound(Enter(0 + 1)) /\ Enter(0 + 1).key = NoKey
    BY <1>0, NextAttemptIsSound, LimitsAssumption
  <2>3. Sound(Enter(1)) /\ Enter(1).key = NoKey
    BY <2>2
  <2>4. \A t \in Segs : seg'[t].key = seg[t].key
    BY <2>1, <2>3 DEF UpscaleInv, UpscaleTypeOK, KeysInUse
  <2>5. Balanced' /\ free' \in [Keys -> 0..PerKey] /\ kept' \in [Segs -> Nat]
        /\ rotation' \in 0..(NumKeys - 1) /\ adrift' \in SUBSET Segs
    BY <2>1, <2>4, KeysKept DEF UpscaleInv, UpscaleTypeOK, Balanced
  <2> QED BY <2>1, <2>3, <2>5, ThreadMoves
<1>2. CASE PickStart(s)
  <2>1. s \in AtWork
    BY <1>2, <1>a DEF PickStart
  <2> DEFINE r == At("scanning", seg[s].attempt, <<rotation, 0>>, NoKey)
  <2>2. /\ seg' = [seg EXCEPT ![s] = r] /\ rotation' = (rotation + 1) % NumKeys
        /\ seg[s].step = "rotate"
        /\ UNCHANGED <<phase, order, parts, kept, free, adrift, film, stray, lent>>
    BY <1>2 DEF PickStart
  <2>3. Sound(r)
    <3>1. "scanning" \in Steps /\ rotation \in 0..(NumKeys - 1)
          /\ seg[s].attempt \in 1..MaxAttempts /\ seg[s].attempt \in 0..MaxAttempts
      BY <2>1, WorkerFacts DEF Steps
    <3> QED BY <1>0, <3>1, SoundStates
  <2>4. rotation' \in 0..(NumKeys - 1)
    <3>1. rotation + 1 \in Nat
      BY <2>1, WorkerFacts
    <3> QED BY <1>0, <2>2, <3>1
  <2>5. \A t \in Segs : seg'[t].key = seg[t].key
    BY <2>1, <2>2, WorkerFacts DEF UpscaleInv, UpscaleTypeOK, At
  <2> HIDE DEF r
  <2>6. Balanced' /\ free' \in [Keys -> 0..PerKey] /\ kept' \in [Segs -> Nat]
        /\ adrift' \in SUBSET Segs
    BY <2>2, <2>5, KeysKept DEF UpscaleInv, UpscaleTypeOK, Balanced
  <2> QED BY <2>1, <2>2, <2>3, <2>4, <2>6, ThreadMoves, WorkerFacts
<1>b. ASSUME s \in AtWork, seg[s].key = NoKey, NEW k \in Keys, free[k] > 0, Take(s, k),
             UNCHANGED <<phase, order, parts, kept, rotation, adrift, film, stray, lent>>
      PROVE  UpscaleInv'
  <2> DEFINE r == At("posting", seg[s].attempt, <<0, 0>>, k)
  <2>1. seg' = [seg EXCEPT ![s] = r]
    BY <1>b DEF Take
  <2>2. Sound(r)
    <3>1. "posting" \in Steps /\ k \in 0..NumKeys
          /\ seg[s].attempt \in 1..MaxAttempts /\ seg[s].attempt \in 0..MaxAttempts
      BY <1>0, <1>b, WorkerFacts DEF Steps, Keys
    <3> QED BY <1>0, <3>1, SoundStates
  <2> HIDE DEF r
  <2>3. free' \in [Keys -> 0..PerKey] /\ Balanced'
    BY <1>b, Taking DEF UpscaleInv
  <2>4. kept' \in [Segs -> Nat] /\ rotation' \in 0..(NumKeys - 1)
        /\ adrift' \in SUBSET Segs
    BY <1>b DEF UpscaleInv, UpscaleTypeOK
  <2> QED BY <1>b, <2>1, <2>2, <2>3, <2>4, ThreadMoves, WorkerFacts
<1>3. CASE TryKey(s)
  <2> DEFINE start == seg[s].at[1]  offset == seg[s].at[2]  k == KeyAt(start, offset)
  <2>1. /\ seg[s].step = "scanning"
        /\ UNCHANGED <<phase, order, parts, kept, rotation, adrift, film, stray, lent>>
    BY <1>3 DEF TryKey
  <2>2. s \in AtWork
    BY <2>1, <1>a
  <2>3. /\ start \in 0..(NumKeys - 1) /\ offset \in 0..(NumKeys - 1)
        /\ seg[s].attempt \in 1..MaxAttempts /\ seg[s].attempt \in 0..MaxAttempts
        /\ seg[s].key = NoKey
    BY <2>1, <2>2, WorkerFacts DEF Threads
  <2>4. k \in Keys
    BY <2>3, PlacesAreKeys
  <2>5. CASE free[k] > 0 /\ Take(s, k)
    BY <2>1, <2>2, <2>3, <2>4, <2>5, <1>b
  <2>6. CASE ~(free[k] > 0 /\ Take(s, k))
    <3> DEFINE r == IF offset + 1 < NumKeys
                    THEN At("scanning", seg[s].attempt, <<start, offset + 1>>, NoKey)
                    ELSE At("blocked", seg[s].attempt, <<start, 0>>, NoKey)
    <3>1. seg' = [seg EXCEPT ![s] = r] /\ free' = free
      BY <1>3, <2>6 DEF TryKey
    <3>2. Sound(r) /\ r.key = NoKey
      <4>1. {"scanning", "blocked"} \subseteq Steps
        BY DEF Steps
      <4>2. ASSUME offset + 1 < NumKeys
            PROVE  Sound(At("scanning", seg[s].attempt, <<start, offset + 1>>, NoKey))
        <5>1. offset + 1 \in 0..(NumKeys - 1)
          BY <1>0, <2>3, <4>2
        <5> QED BY <1>0, <2>3, <4>1, <5>1, SoundStates
      <4>3. Sound(At("blocked", seg[s].attempt, <<start, 0>>, NoKey))
        BY <1>0, <2>3, <4>1, SoundStates
      <4> QED BY <4>2, <4>3 DEF At
    <3> HIDE DEF r
    <3>3. \A t \in Segs : seg'[t].key = seg[t].key
      BY <2>3, <3>1, <3>2 DEF UpscaleInv, UpscaleTypeOK
    <3>4. Balanced' /\ free' \in [Keys -> 0..PerKey] /\ kept' \in [Segs -> Nat]
          /\ rotation' \in 0..(NumKeys - 1) /\ adrift' \in SUBSET Segs
      BY <2>1, <3>1, <3>3, KeysKept DEF UpscaleInv, UpscaleTypeOK, Balanced
    <3> QED BY <2>1, <2>2, <3>1, <3>2, <3>4, ThreadMoves, WorkerFacts
  <2> QED BY <2>5, <2>6
<1>4. CASE TakeKey(s)
  <2>1. /\ seg[s].step = "blocked" /\ free[KeyAt(seg[s].at[1], 0)] > 0
        /\ Take(s, KeyAt(seg[s].at[1], 0))
        /\ UNCHANGED <<phase, order, parts, kept, rotation, adrift, film, stray, lent>>
    BY <1>4 DEF TakeKey
  <2>2. s \in AtWork
    BY <2>1, <1>a
  <2>3. seg[s].at[1] \in 0..(NumKeys - 1) /\ seg[s].key = NoKey
    BY <2>1, <2>2, WorkerFacts DEF Threads
  <2>4. KeyAt(seg[s].at[1], 0) \in Keys
    BY <1>0, <2>3, PlacesAreKeys
  <2> QED BY <2>1, <2>2, <2>3, <2>4, <1>b
<1>5. CASE PostTaken(s)
  <2> DEFINE r == [seg[s] EXCEPT !.step = "polling"]
  <2>1. /\ seg[s].step = "posting" /\ adrift' = adrift
        /\ seg' = [seg EXCEPT ![s] = r]
        /\ UNCHANGED <<phase, order, parts, kept, free, rotation, film, stray, lent>>
    BY <1>5 DEF PostTaken
  <2>2. s \in AtWork
    BY <2>1, <1>a
  <2>3. Sound(r) /\ r.key = seg[s].key
    BY <2>2, WorkerFacts DEF Sound, Threads, Steps
  <2> HIDE DEF r
  <2>4. \A t \in Segs : seg'[t].key = seg[t].key
    BY <2>1, <2>3 DEF UpscaleInv, UpscaleTypeOK
  <2>5. Balanced' /\ free' \in [Keys -> 0..PerKey] /\ kept' \in [Segs -> Nat]
        /\ rotation' \in 0..(NumKeys - 1)
    BY <2>1, <2>4, KeysKept DEF UpscaleInv, UpscaleTypeOK, Balanced
  <2>6. adrift' \in SUBSET Segs
    BY <2>1, <2>2, WorkerFacts
  <2> QED BY <2>1, <2>2, <2>3, <2>5, <2>6, ThreadMoves, WorkerFacts
<1>6. CASE PostFails(s)
  <2>1. s \in AtWork
    BY <1>6, <1>a DEF PostFails
  <2>2. adrift' \in SUBSET Segs
    BY <1>6, <2>1, WorkerFacts DEF PostFails
  <2> QED BY <1>6, <2>1, <2>2, AttemptFails DEF PostFails
<1>7. CASE PollFailed(s)
  <2>1. s \in AtWork
    BY <1>7, <1>a DEF PollFailed
  <2>2. adrift' \in SUBSET Segs
    BY <1>7, <2>1, WorkerFacts DEF PollFailed
  <2> QED BY <1>7, <2>1, <2>2, AttemptFails DEF PollFailed
<1>8. CASE PollBroken(s)
  <2>1. s \in AtWork
    BY <1>8, <1>a DEF PollBroken
  <2>2. adrift' \in SUBSET Segs
    BY <1>8, <2>1, WorkerFacts DEF PollBroken
  <2> QED BY <1>8, <2>1, <2>2, AttemptFails DEF PollBroken
<1>9. CASE PollDone(s)
  <2> DEFINE r == At("fetching", seg[s].attempt, <<0, 0>>, NoKey)
  <2>1. /\ seg[s].step = "polling" /\ adrift' = adrift
        /\ seg' = [seg EXCEPT ![s] = r] /\ Release(s)
        /\ UNCHANGED <<phase, order, parts, kept, rotation, film, stray, lent>>
    BY <1>9 DEF PollDone
  <2>2. s \in AtWork
    BY <2>1, <1>a
  <2>3. Sound(r) /\ r.key = NoKey
    <3>1. "fetching" \in Steps
          /\ seg[s].attempt \in 1..MaxAttempts /\ seg[s].attempt \in 0..MaxAttempts
      BY <2>2, WorkerFacts DEF Steps
    <3>2. Sound(r)
      BY <1>0, <3>1, SoundStates
    <3> QED BY <3>2 DEF At
  <2> HIDE DEF r
  <2>4. free' \in [Keys -> 0..PerKey] /\ Balanced'
    BY <2>1, <2>3, Giving DEF UpscaleInv
  <2>5. kept' \in [Segs -> Nat] /\ rotation' \in 0..(NumKeys - 1)
        /\ adrift' \in SUBSET Segs
    BY <2>1, <2>2, WorkerFacts
  <2> QED BY <2>1, <2>2, <2>3, <2>4, <2>5, ThreadMoves, WorkerFacts
<1>10. CASE Fetch(s)
  <2> DEFINE r == At("done", 0, <<0, 0>>, NoKey)
  <2>1. /\ seg[s].step = "fetching"
        /\ seg' = [seg EXCEPT ![s] = r]
        /\ UNCHANGED <<phase, order, parts, free, rotation, adrift, film, stray, lent>>
    BY <1>10 DEF Fetch
  <2>2. s \in AtWork
    BY <2>1, <1>a
  <2>3. PICK grid \in 0..UploadFrames(s) : kept' = [kept EXCEPT ![s] = KeptOf(s, grid)]
    BY <1>10 DEF Fetch
  <2>4. Lead(s) \in Nat /\ KeepTo(s) = Lead(s) + parts[s].frames
        /\ parts[s].frames \in Nat /\ UploadFrames(s) = KeepTo(s) + Margin(s) /\ Margin(s) \in Nat
    BY <2>2, WorkerFacts, PartsHaveShape, Lengths DEF UpscaleInv
  <2>5. KeptOf(s, grid) \in Nat
    BY <2>4 DEF KeptOf, Lesser
  <2>6. kept' \in [Segs -> Nat]
    BY <2>2, <2>3, <2>5, WorkerFacts
  <2>7. Sound(r) /\ r.key = NoKey
    <3>1. "done" \in Steps
      BY DEF Steps
    <3>2. Sound(r)
      BY <1>0, <3>1, SoundStates
    <3> QED BY <3>2 DEF At
  <2> HIDE DEF r
  <2>8. \A t \in Segs : seg'[t].key = seg[t].key
    BY <2>1, <2>2, <2>7, WorkerFacts DEF UpscaleInv, UpscaleTypeOK
  <2>9. Balanced' /\ free' \in [Keys -> 0..PerKey] /\ rotation' \in 0..(NumKeys - 1)
        /\ adrift' \in SUBSET Segs
    BY <2>1, <2>8, KeysKept DEF UpscaleInv, UpscaleTypeOK, Balanced
  <2> QED BY <2>1, <2>2, <2>6, <2>7, <2>9, ThreadMoves, WorkerFacts
<1>11. CASE FetchFails(s)
  <2>1. s \in AtWork
    BY <1>11, <1>a DEF FetchFails
  <2>2. adrift' \in SUBSET Segs
    BY <1>11, <2>1, WorkerFacts DEF FetchFails
  <2> QED BY <1>11, <2>1, <2>2, AttemptFails DEF FetchFails
<1> QED BY <1>1, <1>2, <1>3, <1>4, <1>5, <1>6, <1>7, <1>8, <1>9, <1>10, <1>11
        DEF Acquire, Post, Poll, Download

-----------------------------------------------------------------------------
(* Steps of the main thread and of the process.                            *)

\* When the executor is left nobody is at work.
LEMMA NobodyLeft ==
    ASSUME UpscaleInv, phase \in {"running", "leaving"},
           \A s \in 1..Len(parts) : seg[s].step \in {"done", "failed"}
    PROVE  AtWork = {}
BY DEF UpscaleInv, Placed, AtWork

\* The job goes from one phase to another, or ends; threads and slots rest.
LEMMA PhaseMoves ==
    ASSUME UpscaleInv,
           phase' \in {"idle", "preparing", "running", "leaving", "merging"},
           phase' \notin {"running", "leaving"} => AtWork = {},
           phase' # "preparing",
           phase' \in {"running", "leaving", "merging"} =>
               parts # <<>> /\ parts' = parts /\ phase \in {"running", "leaving"},
           parts' \in {PartsOf(c) : c \in Cuts} \cup {<<>>},
           order' \in Orders \cup {<<>>}, kept' \in [Segs -> Nat],
           UNCHANGED <<seg, free, rotation, adrift, film, stray, lent>>
    PROVE  UpscaleInv'
<1>1. UpscaleTypeOK'
  BY DEF UpscaleInv, UpscaleTypeOK
<1>2. Balanced' /\ KeysInUse' /\ AtWork' = AtWork
  BY DEF UpscaleInv, Balanced, BalancedOf, Holders, KeysInUse, AtWork
<1>3. Placed'
  BY <1>2 DEF UpscaleInv, Placed
<1>4. FilmIsTheSource'
  BY DEF UpscaleInv, FilmIsTheSource
<1> QED BY <1>1, <1>2, <1>3, <1>4 DEF UpscaleInv

\* A new job, with threads that have not begun.
LEMMA ReceiveKeepsInv ==
    ASSUME UpscaleInv, Receive
    PROVE  UpscaleInv'
<1>1. AtWork = {} /\ \A k \in Keys : free[k] + lent[k] = PerKey
  BY NobodyHolds DEF UpscaleInv, Placed, Receive
<1>2. AllQueued \in [Segs -> Threads]
  BY LimitsAssumption DEF AllQueued, Queued, At, Threads, Steps, NoKey
<1>3. UpscaleTypeOK'
  BY <1>2 DEF Receive, UpscaleInv, UpscaleTypeOK, Threads, NothingKept
<1>4. Balanced'
  <2>1. free \in [Keys -> 0..PerKey] /\ lent \in [Keys -> 0..PerKey]
    BY DEF UpscaleInv, UpscaleTypeOK
  <2>2. BalancedOf(free, AllQueued, lent)
    BY <1>1, <2>1, QuietIsBalanced
  <2> QED BY <2>2 DEF Receive, Balanced
<1>5. AtWork' = {} /\ KeysInUse'
  BY DEF Receive, AtWork, KeysInUse, AllQueued, Queued, At, NoKey
<1>6. Placed'
  BY <1>5 DEF Receive, Placed
<1>7. FilmIsTheSource'
  BY DEF Receive, FilmIsTheSource
<1> QED BY <1>3, <1>4, <1>5, <1>6, <1>7 DEF UpscaleInv

\* The parts are cut anew; no thread has begun.
LEMMA SplitKeepsInv ==
    ASSUME UpscaleInv, Split
    PROVE  UpscaleInv'
<1>1. PICK c \in Cuts : parts' = PartsOf(c)
  BY DEF Split
<1>2. parts' # <<>>
  <2>1. Len(parts') \in 1..MaxParts
    BY <1>1, CutsHaveShape DEF ShapeOf
  <2> QED BY <2>1, CutsAssumption
<1>3. UpscaleTypeOK'
  BY <1>1 DEF Split, UpscaleInv, UpscaleTypeOK
<1>4. Balanced' /\ KeysInUse' /\ AtWork' = AtWork
  BY DEF Split, UpscaleInv, Balanced, BalancedOf, Holders, KeysInUse, AtWork
<1>5. \A s \in Segs : seg'[s].step = "queued"
  BY DEF Split, UpscaleInv, Placed, AllQueued, Queued, At
<1>6. Placed'
  BY <1>2, <1>4, <1>5 DEF Split, UpscaleInv, Placed
<1>7. FilmIsTheSource'
  BY DEF Split, UpscaleInv, FilmIsTheSource
<1> QED BY <1>3, <1>4, <1>6, <1>7 DEF UpscaleInv

\* Whole pieces, in the order of the parts, are the source.
LEMMA PiecesAreTheSource ==
    ASSUME ShapeOf(parts), film' = [s \in 1..Len(parts) |-> Piece(s)],
           \A s \in 1..Len(parts) : kept[s] = parts[s].frames
    PROVE  /\ FilmIsTheSource'
           /\ \E n \in Segs : film' \in [1..n -> Seq(Nat)]
<1> DEFINE n == Len(parts)
<1>1. n \in 1..MaxParts /\ n \in Nat /\ n > 0
  BY CutsAssumption DEF ShapeOf
<1>2. ASSUME NEW s \in 1..n
      PROVE  /\ parts[s].from \in Nat /\ parts[s].frames \in Nat \ {0}
             /\ film'[s] \in Seq(Nat) /\ Len(film'[s]) = parts[s].frames
             /\ \A q \in 1..parts[s].frames : film'[s][q] = parts[s].from + q - 1
  <2>1. parts[s].from \in Nat /\ parts[s].frames \in Nat \ {0}
    BY Lengths
  <2> DEFINE m == parts[s].frames  piece == [q \in 1..m |-> parts[s].from + q - 1]
  <2>2. film'[s] = [q \in 1..m |-> FrameAt(s, Lead(s) + q - 1)]
    BY DEF Piece
  <2>3. \A q \in 1..m : FrameAt(s, Lead(s) + q - 1) = parts[s].from + q - 1
    BY MiddleIsThePart
  <2>4. film'[s] = piece
    BY <2>2, <2>3
  <2>5. piece \in [1..m -> Nat]
    BY <2>1
  <2>6. piece \in Seq(Nat) /\ Len(piece) = m
    <3> HIDE DEF m, piece
    <3>1. m \in Nat
      BY <2>1 DEF m
    <3> QED BY <2>5, <3>1, <2>4 DEF piece
  <2> QED BY <2>1, <2>4, <2>6
<1>3. ASSUME NEW s \in 1..n
      PROVE  /\ parts[s].from \in Nat /\ parts[s].frames \in Nat
             /\ 1 \in 1..parts[s].frames /\ parts[s].frames \in 1..parts[s].frames
             /\ Len(film'[s]) = parts[s].frames
  <2>1. parts[s].from \in Nat /\ parts[s].frames \in Nat \ {0} /\ Len(film'[s]) = parts[s].frames
    BY <1>2
  <2> QED BY <2>1
<1>4. film' \in [1..n -> Seq(Nat)]
  BY <1>2
<1>5. Len(film') = n
  BY <1>1
<1>6. FilmIsTheSource'
  <2>1. \A s \in 1..n : film'[s] # <<>>
    BY <1>2
  <2>2. film'[1][1] = 0
    <3>1. 1 \in 1..n
      BY <1>1
    <3>2. 1 \in 1..parts[1].frames
      BY <1>3, <3>1
    <3>3. film'[1][1] = parts[1].from + 1 - 1
      BY <1>2, <3>1, <3>2
    <3> QED BY <3>3 DEF ShapeOf
  <2>3. \A s \in 1..n : \A q \in 1..(Len(film'[s]) - 1) : film'[s][q + 1] = film'[s][q] + 1
    <3> SUFFICES ASSUME NEW s \in 1..n, NEW q \in 1..(Len(film'[s]) - 1)
                 PROVE  film'[s][q + 1] = film'[s][q] + 1
      OBVIOUS
    <3>1. q \in 1..parts[s].frames /\ q + 1 \in 1..parts[s].frames /\ parts[s].from \in Nat
      BY <1>3
    <3>2. film'[s][q] = parts[s].from + q - 1 /\ film'[s][q + 1] = parts[s].from + (q + 1) - 1
      BY <1>2, <3>1
    <3> QED BY <3>1, <3>2
  <2>4. \A s \in 1..(n - 1) : film'[s + 1][1] = film'[s][Len(film'[s])] + 1
    <3> SUFFICES ASSUME NEW s \in 1..(n - 1)
                 PROVE  film'[s + 1][1] = film'[s][Len(film'[s])] + 1
      OBVIOUS
    <3>1. s \in 1..n /\ s + 1 \in 1..n
      BY <1>1
    <3>2. /\ 1 \in 1..parts[s + 1].frames /\ Len(film'[s]) = parts[s].frames
          /\ parts[s].frames \in 1..parts[s].frames
          /\ parts[s].from \in Nat /\ parts[s].frames \in Nat /\ parts[s + 1].from \in Nat
      BY <1>3, <3>1
    <3>3. film'[s + 1][1] = parts[s + 1].from + 1 - 1
      BY <1>2, <3>1, <3>2
    <3>4. film'[s][parts[s].frames] = parts[s].from + parts[s].frames - 1
      BY <1>2, <3>1, <3>2
    <3>5. parts[s + 1].from = parts[s].from + parts[s].frames
      BY DEF ShapeOf
    <3> QED BY <3>2, <3>3, <3>4, <3>5
  <2>5. film'[n][Len(film'[n])] = SourceFrames - 1
    <3>1. n \in 1..n
      BY <1>1
    <3>2. /\ Len(film'[n]) = parts[n].frames /\ parts[n].frames \in 1..parts[n].frames
          /\ parts[n].from \in Nat /\ parts[n].frames \in Nat
      BY <1>3, <3>1
    <3>3. film'[n][parts[n].frames] = parts[n].from + parts[n].frames - 1
      BY <1>2, <3>1, <3>2
    <3>4. parts[n].from + parts[n].frames = SourceFrames
      BY DEF ShapeOf
    <3> QED BY <3>2, <3>3, <3>4
  <2> HIDE DEF n
  <2> QED BY <1>5, <2>1, <2>2, <2>3, <2>4, <2>5 DEF FilmIsTheSource
<1> QED BY <1>1, <1>4, <1>6 DEF Segs

\* The film is published and the directory removed.
LEMMA MergeKeepsInv ==
    ASSUME UpscaleInv, Merge
    PROVE  UpscaleInv'
<1>1. AtWork = {} /\ ShapeOf(parts)
  BY PartsHaveShape DEF Merge, UpscaleInv, Placed
<1>2. FilmIsTheSource' /\ \E n \in Segs : film' \in [1..n -> Seq(Nat)]
  BY <1>1, PiecesAreTheSource DEF Merge
<1>3. UpscaleTypeOK'
  <2>1. NothingKept \in [Segs -> Nat]
    BY DEF NothingKept
  <2> QED BY <1>2, <2>1 DEF Merge, End, UpscaleInv, UpscaleTypeOK
<1>4. Balanced' /\ KeysInUse' /\ AtWork' = AtWork
  BY DEF Merge, UpscaleInv, Balanced, BalancedOf, Holders, KeysInUse, AtWork
<1>5. Placed'
  BY <1>1, <1>4 DEF Merge, End, Placed
<1> QED BY <1>2, <1>3, <1>4, <1>5 DEF UpscaleInv

\* What the threads of an abandoned job hold is lent.
LEMMA AbandonedKeepsInv ==
    ASSUME UpscaleInv, Abandoned
    PROVE  UpscaleInv'
<1>1. /\ phase' = "idle" /\ parts' = <<>> /\ order' = <<>> /\ kept' = NothingKept
      /\ seg' = AllQueued
      /\ stray' = stray + Cardinality(OnTheWay)
      /\ lent' = [k \in Keys |-> lent[k] + Cardinality(Holders(seg, k))]
      /\ UNCHANGED <<free, rotation, adrift, film>>
  BY DEF Abandoned, End
<1>2. free \in [Keys -> 0..PerKey] /\ lent \in [Keys -> 0..PerKey] /\ stray \in Nat
  BY DEF UpscaleInv, UpscaleTypeOK
<1>3. ASSUME NEW k \in Keys PROVE lent'[k] \in 0..PerKey /\ free[k] + lent'[k] = PerKey
  <2>1. /\ Cardinality(Holders(seg, k)) \in Nat /\ free[k] \in 0..PerKey /\ lent[k] \in 0..PerKey
        /\ free[k] + Cardinality(Holders(seg, k)) + lent[k] = PerKey
    BY <1>2, HoldersAreFinite DEF UpscaleInv, Balanced, BalancedOf
  <2>2. lent'[k] = lent[k] + Cardinality(Holders(seg, k))
    BY <1>1
  <2> QED BY <2>1, <2>2, LimitsAssumption
<1>4. lent' \in [Keys -> 0..PerKey]
  BY <1>1, <1>3
<1>5. Balanced'
  <2>1. BalancedOf(free, AllQueued, lent')
    BY <1>2, <1>3, <1>4, QuietIsBalanced
  <2> QED BY <1>1, <2>1 DEF Balanced
<1>6. stray' \in Nat
  <2>1. IsFiniteSet(Segs) /\ OnTheWay \subseteq Segs
    BY FS_Interval, CutsAssumption DEF Segs, OnTheWay
  <2>2. Cardinality(OnTheWay) \in Nat
    BY <2>1, FS_Subset, FS_CardinalityType
  <2> QED BY <1>1, <1>2, <2>2
<1>7. AllQueued \in [Segs -> Threads] /\ NothingKept \in [Segs -> Nat]
  BY LimitsAssumption DEF AllQueued, NothingKept, Queued, At, Threads, Steps, NoKey
<1>8. UpscaleTypeOK'
  BY <1>1, <1>4, <1>6, <1>7 DEF UpscaleInv, UpscaleTypeOK, Threads
<1>9. AtWork' = {} /\ KeysInUse'
  BY <1>1 DEF AtWork, KeysInUse, AllQueued, Queued, At, NoKey
<1>10. Placed' /\ FilmIsTheSource'
  BY <1>1, <1>9 DEF UpscaleInv, Placed, FilmIsTheSource
<1> QED BY <1>5, <1>8, <1>9, <1>10 DEF UpscaleInv

\* Threads that were left behind take slots and give them back.
LEMMA StrayKeepsInv ==
    ASSUME UpscaleInv, Stray
    PROVE  UpscaleInv'
<1>1. /\ free \in [Keys -> 0..PerKey] /\ lent \in [Keys -> 0..PerKey] /\ stray \in Nat
      /\ rotation \in 0..(NumKeys - 1) /\ PerKey \in Nat
  BY LimitsAssumption DEF UpscaleInv, UpscaleTypeOK
<1>2. ASSUME UNCHANGED jobVars, stray' \in Nat, rotation' \in 0..(NumKeys - 1),
             free' \in [Keys -> 0..PerKey], lent' \in [Keys -> 0..PerKey],
             \A k \in Keys : free'[k] + lent'[k] = free[k] + lent[k]
      PROVE  UpscaleInv'
  <2>1. UpscaleTypeOK'
    BY <1>2 DEF jobVars, UpscaleInv, UpscaleTypeOK
  <2>2. ASSUME NEW k \in Keys
        PROVE  free'[k] + Cardinality(Holders(seg', k)) + lent'[k] = PerKey
    <3>1. /\ Cardinality(Holders(seg, k)) \in Nat
          /\ free[k] \in Nat /\ lent[k] \in Nat /\ free'[k] \in Nat /\ lent'[k] \in Nat
          /\ free[k] + Cardinality(Holders(seg, k)) + lent[k] = PerKey
      BY <1>1, <1>2, HoldersAreFinite DEF UpscaleInv, Balanced, BalancedOf
    <3>2. Holders(seg', k) = Holders(seg, k) /\ free'[k] + lent'[k] = free[k] + lent[k]
      BY <1>2 DEF jobVars, Holders
    <3> QED BY <1>1, <3>1, <3>2
  <2>3. AtWork' = AtWork /\ KeysInUse' /\ Placed' /\ FilmIsTheSource'
    BY <1>2 DEF jobVars, UpscaleInv, AtWork, KeysInUse, Placed, FilmIsTheSource
  <2> QED BY <2>1, <2>2, <2>3 DEF UpscaleInv, Balanced, BalancedOf
<1>3. CASE StrayEnds
  BY <1>1, <1>2, <1>3 DEF StrayEnds
<1>a. ASSUME NEW k \in Keys
      PROVE  /\ free[k] \in 0..PerKey /\ lent[k] \in 0..PerKey
             /\ free[k] + lent[k] =< PerKey
  <2>1. Cardinality(Holders(seg, k)) \in Nat
        /\ free[k] + Cardinality(Holders(seg, k)) + lent[k] = PerKey
    BY HoldersAreFinite DEF UpscaleInv, Balanced, BalancedOf
  <2> QED BY <1>1, <2>1
<1>4. ASSUME NEW k \in Keys, StrayTakes(k) PROVE UpscaleInv'
  <2>1. /\ stray > 0 /\ free[k] > 0 /\ stray' = stray - 1
        /\ lent' = [lent EXCEPT ![k] = lent[k] + 1] /\ free' = [free EXCEPT ![k] = free[k] - 1]
        /\ rotation' \in {rotation, (rotation + 1) % NumKeys} /\ UNCHANGED jobVars
    BY <1>4 DEF StrayTakes
  <2>2. lent[k] + 1 \in 0..PerKey /\ free[k] - 1 \in 0..PerKey
    BY <1>1, <1>a, <2>1
  <2>3. /\ free' \in [Keys -> 0..PerKey] /\ lent' \in [Keys -> 0..PerKey]
        /\ \A j \in Keys : free'[j] + lent'[j] = free[j] + lent[j]
    BY <1>1, <2>1, <2>2
  <2>4. rotation' \in 0..(NumKeys - 1)
    BY <1>1, <2>1, LimitsAssumption
  <2> QED BY <1>1, <1>2, <2>1, <2>3, <2>4
<1>5. ASSUME NEW k \in Keys, StrayReturns(k) PROVE UpscaleInv'
  <2>1. /\ lent[k] > 0
        /\ lent' = [lent EXCEPT ![k] = lent[k] - 1] /\ free' = [free EXCEPT ![k] = free[k] + 1]
        /\ UNCHANGED <<jobVars, rotation, stray>>
    BY <1>5 DEF StrayReturns
  <2>2. lent[k] - 1 \in 0..PerKey /\ free[k] + 1 \in 0..PerKey
    BY <1>1, <1>a, <2>1
  <2>3. /\ free' \in [Keys -> 0..PerKey] /\ lent' \in [Keys -> 0..PerKey]
        /\ \A j \in Keys : free'[j] + lent'[j] = free[j] + lent[j]
    BY <1>1, <2>1, <2>2
  <2> QED BY <1>1, <1>2, <2>1, <2>3
<1> QED BY <1>3, <1>4, <1>5 DEF Stray

\* The process is gone, and what its threads held with it.
LEMMA DieKeepsInv ==
    ASSUME UpscaleInv, Die
    PROVE  UpscaleInv'
<1>1. /\ AllQueued \in [Segs -> Threads] /\ 0 \in 0..(NumKeys - 1)
      /\ AllFree \in [Keys -> 0..PerKey] /\ NoneLent \in [Keys -> 0..PerKey]
      /\ NothingKept \in [Segs -> Nat]
  BY LimitsAssumption, FreshIsBalanced DEF AllQueued, NothingKept, Queued, At, Threads, Steps, NoKey
<1>2. UpscaleTypeOK'
  BY <1>1 DEF Die, UpscaleInv, UpscaleTypeOK, Threads
<1>3. Balanced'
  BY FreshIsBalanced DEF Die, Balanced
<1>4. AtWork' = {} /\ KeysInUse'
  BY DEF Die, AtWork, KeysInUse, AllQueued, Queued, At, NoKey
<1>5. Placed' /\ FilmIsTheSource'
  BY <1>4 DEF Die, UpscaleInv, Placed, FilmIsTheSource
<1> QED BY <1>2, <1>3, <1>4, <1>5 DEF UpscaleInv

LEMMA InitMakesInv ==
    ASSUME Init
    PROVE  UpscaleInv
<1>1. /\ AllQueued \in [Segs -> Threads] /\ 0 \in 0..(NumKeys - 1)
      /\ AllFree \in [Keys -> 0..PerKey] /\ NoneLent \in [Keys -> 0..PerKey]
      /\ NothingKept \in [Segs -> Nat]
  BY LimitsAssumption, FreshIsBalanced DEF AllQueued, NothingKept, Queued, At, Threads, Steps, NoKey
<1>2. UpscaleTypeOK
  BY <1>1 DEF Init, UpscaleTypeOK, Threads
<1>3. Balanced
  BY FreshIsBalanced DEF Init, Balanced
<1>4. AtWork = {} /\ KeysInUse
  BY DEF Init, AtWork, KeysInUse, AllQueued, Queued, At, NoKey
<1>5. Placed /\ FilmIsTheSource
  BY <1>4 DEF Init, Placed, FilmIsTheSource
<1> QED BY <1>2, <1>3, <1>4, <1>5 DEF UpscaleInv

\* Every step keeps the invariant.
LEMMA NextKeepsInv ==
    ASSUME UpscaleInv, [Next]_vars
    PROVE  UpscaleInv'
<1>0. parts \in {PartsOf(c) : c \in Cuts} \cup {<<>>} /\ <<>> \in {PartsOf(c) : c \in Cuts} \cup {<<>>}
  BY DEF UpscaleInv, UpscaleTypeOK
<1>1. CASE Receive
  BY <1>1, ReceiveKeepsInv
<1>2. ASSUME NEW s \in Segs, Thread(s) PROVE UpscaleInv'
  BY <1>2, ThreadKeepsInv
<1>a. NothingKept \in [Segs -> Nat] /\ kept \in [Segs -> Nat] /\ order \in Orders \cup {<<>>}
  BY DEF NothingKept, UpscaleInv, UpscaleTypeOK
<1>3. CASE PrepareFails \/ MergeFails
  <2>1. AtWork = {} /\ phase' = "idle" /\ parts' = <<>> /\ order' = <<>> /\ kept' = NothingKept
        /\ UNCHANGED <<seg, free, rotation, adrift, film, stray, lent>>
    BY <1>3 DEF PrepareFails, MergeFails, End, UpscaleInv, Placed
  <2> QED BY <1>0, <1>a, <2>1, PhaseMoves
<1>4. CASE Split
  BY <1>4, SplitKeepsInv
<1>5. CASE Interrupted
  <2>1. phase = "running" /\ phase' = "leaving" /\ parts' = parts /\ parts # <<>>
        /\ UNCHANGED <<order, seg, kept, free, rotation, adrift, film, stray, lent>>
    BY <1>5 DEF Interrupted, UpscaleInv, Placed
  <2> QED BY <1>0, <1>a, <2>1, PhaseMoves
<1>6. CASE Left
  <2>1. AtWork = {} /\ phase' = "idle" /\ parts' = <<>> /\ order' = <<>> /\ kept' = NothingKept
        /\ UNCHANGED <<seg, free, rotation, adrift, film, stray, lent>>
    BY <1>6, NobodyLeft DEF Left, End
  <2> QED BY <1>0, <1>a, <2>1, PhaseMoves
<1>7. CASE AllDone
  <2>1. /\ AtWork = {} /\ phase = "running" /\ phase' = "merging"
        /\ parts' = parts /\ parts # <<>>
        /\ UNCHANGED <<order, seg, kept, free, rotation, adrift, film, stray, lent>>
    BY <1>7, NobodyLeft DEF AllDone, UpscaleInv, Placed
  <2> QED BY <1>0, <1>a, <2>1, PhaseMoves
<1>8. CASE Merge
  BY <1>8, MergeKeepsInv
<1>9. CASE Die
  BY <1>9, DieKeepsInv
<1>11. CASE Abandoned
  BY <1>11, AbandonedKeepsInv
<1>12. CASE Stray
  BY <1>12, StrayKeepsInv
<1>10. CASE UNCHANGED vars
  <2>1. UpscaleTypeOK' /\ FilmIsTheSource'
    BY <1>10 DEF vars, UpscaleInv, UpscaleTypeOK, FilmIsTheSource
  <2>2. Balanced' /\ KeysInUse' /\ AtWork' = AtWork
    BY <1>10 DEF vars, UpscaleInv, Balanced, BalancedOf, Holders, KeysInUse, AtWork
  <2>3. Placed'
    BY <1>10, <2>2 DEF vars, UpscaleInv, Placed
  <2> QED BY <2>1, <2>2, <2>3 DEF UpscaleInv
<1> QED BY <1>1, <1>2, <1>3, <1>4, <1>5, <1>6, <1>7, <1>8, <1>9, <1>10, <1>11, <1>12 DEF Next, Main, FutureFailed

-----------------------------------------------------------------------------
(* Theorems.                                                               *)

\* The inductive invariant: slots are free or held by one thread, and threads are
\* at work only while the executor of their job is open.
THEOREM UpscaleInvariant == Spec => []UpscaleInv
<1>1. Init => UpscaleInv
  BY InitMakesInv
<1>2. UpscaleInv /\ [Next]_vars => UpscaleInv'
  BY NextKeepsInv
<1> QED BY <1>1, <1>2, PTL DEF Spec

\* Every variable keeps its type: no semaphore is below zero or above its limit.
THEOREM UpscaleTypes == Spec => []UpscaleTypeOK
<1>1. UpscaleInv => UpscaleTypeOK
  BY DEF UpscaleInv
<1> QED BY <1>1, UpscaleInvariant, PTL

\* A published film shows each frame of the source once and in order, for any
\* cut, context, margin, and whatever the providers returned.
THEOREM FilmIsWhole == Spec => []FilmIsTheSource
<1>1. UpscaleInv => FilmIsTheSource
  BY DEF UpscaleInv
<1> QED BY <1>1, UpscaleInvariant, PTL

\* Every upload fits the platform's limit and follows the source frame by frame.
THEOREM UploadsAlwaysFit == Spec => []UploadsFit
<1>1. UpscaleInv => UploadsFit
  <2> SUFFICES ASSUME UpscaleInv PROVE UploadsFit
    OBVIOUS
  <2>1. CASE parts = <<>>
    BY <2>1 DEF UploadsFit
  <2>2. CASE parts # <<>>
    BY <2>2, PartsHaveShape, ShapedUploadsFit DEF UpscaleInv
  <2> QED BY <2>1, <2>2
<1> QED BY <1>1, UpscaleInvariant, PTL

\* A job that is over has no thread at work, and the slots that are not free are those
\* of threads that soft time limits left behind.
THEOREM QuietAtTheEnd == Spec => []QuietWhenOver
<1>1. UpscaleInv => QuietWhenOver
  BY NobodyHolds DEF UpscaleInv, Placed, QuietWhenOver
<1> QED BY <1>1, UpscaleInvariant, PTL

\* The threads with an order of key k in hand: posting it, or following it.
OrdersOf(k) == {s \in Segs : seg[s].step \in {"posting", "polling"} /\ seg[s].key = k}

\* No account has more orders in hand than its slots, those of abandoned jobs included,
\* however its threads wait, fail and change accounts (an order given up while it goes
\* on at the provider is in nobody's hand).
THEOREM AccountsWithinLimit ==
    Spec => [](\A k \in Keys : Cardinality(OrdersOf(k)) + lent[k] <= PerKey)
<1>1. UpscaleInv => \A k \in Keys : Cardinality(OrdersOf(k)) + lent[k] <= PerKey
  <2> SUFFICES ASSUME UpscaleInv, NEW k \in Keys
               PROVE  Cardinality(OrdersOf(k)) + lent[k] <= PerKey
    OBVIOUS
  <2>1. IsFiniteSet(Holders(seg, k)) /\ Cardinality(Holders(seg, k)) \in Nat
    BY HoldersAreFinite
  <2>2. OrdersOf(k) \subseteq Holders(seg, k)
    BY DEF OrdersOf, Holders
  <2>3. /\ Cardinality(OrdersOf(k)) \in Nat
        /\ Cardinality(OrdersOf(k)) <= Cardinality(Holders(seg, k))
    BY <2>1, <2>2, FS_Subset, FS_CardinalityType
  <2>4. /\ free[k] \in 0..PerKey /\ lent[k] \in 0..PerKey
        /\ free[k] + Cardinality(Holders(seg, k)) + lent[k] = PerKey
    BY DEF UpscaleInv, UpscaleTypeOK, Balanced, BalancedOf
  <2> QED BY <2>1, <2>3, <2>4, LimitsAssumption
<1> QED BY <1>1, UpscaleInvariant, PTL

-----------------------------------------------------------------------------
(* Threads do not wait for each other in a circle, and do not turn in one. *)

\* The key a blocked thread waits for.
WaitsFor(s) == KeyAt(seg[s].at[1], 0)

\* The guards of the steps of a thread, and of those of the job itself.
ThreadMayGo(s) ==
    \/ seg[s].step \in {"rotate", "scanning", "posting", "polling", "fetching"}
    \/ seg[s].step = "blocked" /\ free[WaitsFor(s)] > 0
    \/ /\ phase \in {"running", "leaving"} /\ s \in 1..Len(parts) /\ seg[s].step = "queued"
       /\ \A t \in 1..(s - 1) : seg[t].step # "queued"
       /\ Cardinality(AtWork) < Width

MainMayGo ==
    \/ phase \in {"preparing", "merging"}
    \/ phase = "running" /\ \/ \A s \in 1..Len(parts) : seg[s].step = "done"
                            \/ \E s \in 1..Len(parts) : seg[s].step = "failed"
    \/ phase = "leaving" /\ \A s \in 1..Len(parts) : seg[s].step \in {"done", "failed"}

\* Who waits for a slot waits for a thread that has an order to place or to follow,
\* of this job or of an abandoned one.
WaitsForAWorker ==
    \A s \in Segs : seg[s].step = "blocked" /\ free[WaitsFor(s)] = 0 =>
        \/ \E t \in Segs : seg[t].key = WaitsFor(s) /\ seg[t].step \in {"posting", "polling"}
        \/ lent[WaitsFor(s)] > 0

NoStandstill ==
    phase # "idle" =>
        \/ MainMayGo
        \/ \E s \in Segs : ThreadMayGo(s)
        \/ \E k \in Keys : lent[k] > 0

\* A slot that is not free has a thread at an upstream provider.
LEMMA BlockedHasWorker ==
    ASSUME UpscaleInv
    PROVE  WaitsForAWorker
<1> SUFFICES ASSUME NEW s \in Segs, seg[s].step = "blocked", free[WaitsFor(s)] = 0,
                    ~(lent[WaitsFor(s)] > 0)
             PROVE  \E t \in Segs : seg[t].key = WaitsFor(s) /\ seg[t].step \in {"posting", "polling"}
  BY DEF WaitsForAWorker
<1> DEFINE k == WaitsFor(s)
<1>1. k \in Keys
  <2>1. seg[s].at[1] \in 0..(NumKeys - 1) /\ 0 \in 0..(NumKeys - 1)
    BY LimitsAssumption DEF UpscaleInv, UpscaleTypeOK
  <2> QED BY <2>1, PlacesAreKeys DEF WaitsFor
<1>2. 0 + Cardinality(Holders(seg, k)) + lent[k] = PerKey /\ Cardinality(Holders(seg, k)) \in Nat
      /\ lent[k] \in Nat
  BY <1>1, HoldersAreFinite DEF UpscaleInv, UpscaleTypeOK, Balanced, BalancedOf
<1>3. Cardinality(Holders(seg, k)) # 0
  BY <1>2, LimitsAssumption
<1>4. PICK t \in Segs : seg[t].key = k
  BY <1>3, FS_EmptySet DEF Holders
<1>5. seg[t].key # NoKey
  BY <1>1, <1>4, LimitsAssumption DEF Keys, NoKey
<1> QED BY <1>4, <1>5 DEF UpscaleInv, KeysInUse

\* The first of the parts that wait for a thread.
LEMMA FirstQueued ==
    ASSUME ShapeOf(parts), NEW u \in 1..Len(parts), seg[u].step = "queued"
    PROVE  \E s \in 1..Len(parts) :
             seg[s].step = "queued" /\ \A t \in 1..(s - 1) : seg[t].step # "queued"
<1> DEFINE T == {t \in 1..Len(parts) : seg[t].step = "queued"}
           R == OpToRel(<, Nat)
<1>1. T \subseteq Nat /\ T # {} /\ Len(parts) \in Nat
  BY DEF ShapeOf
<1>2. IsWellFoundedOn(R, Nat)
  BY NatLessThanWellFounded
<1>3. PICK s \in T : \A t \in T : <<t, s>> \notin R
  <2> HIDE DEF R, T
  <2> QED BY <1>1, <1>2, WFMin
<1>4. ASSUME NEW t \in 1..(s - 1), seg[t].step = "queued" PROVE FALSE
  <2>1. t \in T /\ t < s /\ t \in Nat /\ s \in Nat
    BY <1>1, <1>4
  <2>2. <<t, s>> \in R
    BY <2>1 DEF OpToRel
  <2> QED BY <1>3, <2>1, <2>2
<1> QED BY <1>3, <1>4

LEMMA SomebodyMayGo ==
    ASSUME UpscaleInv
    PROVE  NoStandstill
<1> SUFFICES ASSUME phase \in {"running", "leaving"}, ~MainMayGo, \A k \in Keys : ~(lent[k] > 0)
             PROVE  \E s \in Segs : ThreadMayGo(s)
  BY DEF NoStandstill, MainMayGo, UpscaleInv, UpscaleTypeOK
<1>1. ShapeOf(parts) /\ 1..Len(parts) \subseteq Segs
  <2>1. ShapeOf(parts)
    BY PartsHaveShape DEF UpscaleInv, Placed
  <2> QED BY <2>1, CutsAssumption DEF ShapeOf, Segs
<1>2. PICK u \in 1..Len(parts) : seg[u].step \notin {"done", "failed"}
  BY DEF MainMayGo
<1>3. CASE \E s \in AtWork : seg[s].step # "blocked"
  BY <1>3 DEF AtWork, ThreadMayGo, UpscaleInv, UpscaleTypeOK, Steps
<1>4. CASE \E s \in AtWork : seg[s].step = "blocked"
  <2>1. PICK s \in Segs : seg[s].step = "blocked"
    BY <1>4 DEF AtWork
  <2>2. CASE free[WaitsFor(s)] = 0
    <3>1. seg[s].at[1] \in 0..(NumKeys - 1) /\ 0 \in 0..(NumKeys - 1)
      BY LimitsAssumption DEF UpscaleInv, UpscaleTypeOK
    <3>2. ~(lent[WaitsFor(s)] > 0)
      BY <3>1, PlacesAreKeys DEF WaitsFor
    <3> QED BY <2>1, <2>2, <3>2, BlockedHasWorker DEF WaitsForAWorker, ThreadMayGo
  <2>3. CASE free[WaitsFor(s)] # 0
    <3>1. seg[s].at[1] \in 0..(NumKeys - 1) /\ 0 \in 0..(NumKeys - 1)
      BY LimitsAssumption DEF UpscaleInv, UpscaleTypeOK
    <3>2. free[WaitsFor(s)] \in 0..PerKey /\ PerKey \in Nat
      BY <3>1, PlacesAreKeys, LimitsAssumption DEF WaitsFor, UpscaleInv, UpscaleTypeOK
    <3>3. free[WaitsFor(s)] > 0
      BY <2>3, <3>2
    <3> QED BY <2>1, <3>3 DEF ThreadMayGo
  <2> QED BY <2>2, <2>3
<1>5. CASE AtWork = {}
  <2>1. seg[u].step = "queued"
    BY <1>1, <1>2, <1>5 DEF AtWork
  <2>2. PICK s \in 1..Len(parts) :
          seg[s].step = "queued" /\ \A t \in 1..(s - 1) : seg[t].step # "queued"
    BY <1>1, <2>1, FirstQueued
  <2>3. Cardinality(AtWork) < Width
    BY <1>5, FS_EmptySet, LimitsAssumption
  <2> QED BY <1>1, <2>2, <2>3 DEF ThreadMayGo
<1> QED BY <1>3, <1>4, <1>5

\* While a job is on, somebody's next step is open: the semaphores of the accounts and the
\* width of the pool let no set of threads wait for each other.  (It may be a thread of an
\* abandoned job that has to go on, with an order of its own at a provider.)
THEOREM NobodyWaitsInACircle == Spec => [](NoStandstill /\ WaitsForAWorker)
<1> QED BY UpscaleInvariant, SomebodyMayGo, BlockedHasWorker, PTL

\* The steps of an attempt, in their order, and what it is to be further than before.
Over == {"done", "failed"}
Busy == {"rotate", "scanning", "blocked", "posting", "polling", "fetching"}
Place == [rotate |-> 1, scanning |-> 2, blocked |-> 3, posting |-> 4, polling |-> 5, fetching |-> 6]

Later(b, a) ==
    \/ a.step = "queued" /\ b.step \in Busy
    \/ a.step \in Busy /\ b.step \in Over
    \/ /\ a.step \in Busy /\ b.step \in Busy
       /\ \/ b.attempt > a.attempt
          \/ /\ b.attempt = a.attempt
             /\ \/ Place[b.step] > Place[a.step]
                \/ b.step = a.step /\ b.at[2] > a.at[2]

\* Threads only go on: through the scan of the keys, an attempt, and the attempts; they are
\* set back by a new job, by the end of an abandoned one and by the loss of the process alone.
ThreadsAdvance ==
    [][\/ seg' = AllQueued /\ "idle" \in {phase, phase'}
       \/ \A s \in Segs : seg'[s] # seg[s] => Later(seg'[s], seg[s])]_vars

\* A thread that fails an attempt is at the next one, or has failed.
LEMMA FailureAdvances ==
    ASSUME UpscaleInv, NEW s \in Segs, FailAttempt(s), seg[s].step \in Busy
    PROVE  \A t \in Segs : seg'[t] # seg[t] => Later(seg'[t], seg[t])
<1>1. /\ seg' = [seg EXCEPT ![s] = IF seg[s].attempt < MaxAttempts THEN Enter(seg[s].attempt + 1)
                                    ELSE At("failed", 0, <<0, 0>>, NoKey)]
      /\ DOMAIN seg = Segs
  BY DEF FailAttempt, UpscaleInv, UpscaleTypeOK
<1>2. seg[s].attempt \in Nat
  BY LimitsAssumption DEF UpscaleInv, UpscaleTypeOK
<1>3. \/ seg'[s].step = "failed"
      \/ seg'[s].step \in {"rotate", "posting"} /\ seg'[s].attempt = seg[s].attempt + 1
  BY <1>1 DEF Enter, At
<1>4. Later(seg'[s], seg[s])
  BY <1>2, <1>3 DEF Later, Over, Busy
<1> QED BY <1>1, <1>4

LEMMA ThreadAdvances ==
    ASSUME UpscaleInv, NEW s \in Segs, Thread(s)
    PROVE  \A t \in Segs : seg'[t] # seg[t] => Later(seg'[t], seg[t])
<1>1. DOMAIN seg = Segs
  BY DEF UpscaleInv, UpscaleTypeOK
<1>2. ASSUME NEW r, seg' = [seg EXCEPT ![s] = r], Later(r, seg[s])
      PROVE  \A t \in Segs : seg'[t] # seg[t] => Later(seg'[t], seg[t])
  BY <1>1, <1>2
<1>3. CASE StartSegment(s)
  <2>1. seg' = [seg EXCEPT ![s] = Enter(1)] /\ seg[s].step = "queued"
    BY <1>3 DEF StartSegment
  <2>2. Later(Enter(1), seg[s])
    BY <2>1 DEF Later, Enter, At, Busy
  <2> QED BY <1>2, <2>1, <2>2
<1>4. CASE PickStart(s)
  <2>1. /\ seg' = [seg EXCEPT ![s] = At("scanning", seg[s].attempt, <<rotation, 0>>, NoKey)]
        /\ seg[s].step = "rotate"
    BY <1>4 DEF PickStart
  <2>2. Later(At("scanning", seg[s].attempt, <<rotation, 0>>, NoKey), seg[s])
    BY <2>1 DEF Later, At, Busy, Place
  <2> QED BY <1>2, <2>1, <2>2
<1>5. ASSUME NEW k, Take(s, k), seg[s].step \in {"scanning", "blocked"}
      PROVE  \A t \in Segs : seg'[t] # seg[t] => Later(seg'[t], seg[t])
  <2>1. seg' = [seg EXCEPT ![s] = At("posting", seg[s].attempt, <<0, 0>>, k)]
    BY <1>5 DEF Take
  <2>2. Later(At("posting", seg[s].attempt, <<0, 0>>, k), seg[s])
    BY <1>5 DEF Later, At, Busy, Place
  <2> QED BY <1>2, <2>1, <2>2
<1>6. CASE TryKey(s)
  <2> DEFINE start == seg[s].at[1]  offset == seg[s].at[2]
  <2>1. seg[s].step = "scanning" /\ offset \in Nat
    BY <1>6, LimitsAssumption DEF TryKey, UpscaleInv, UpscaleTypeOK
  <2>2. CASE Take(s, KeyAt(start, offset))
    BY <1>5, <2>1, <2>2
  <2>3. CASE ~Take(s, KeyAt(start, offset))
    <3> DEFINE r == IF offset + 1 < NumKeys
                    THEN At("scanning", seg[s].attempt, <<start, offset + 1>>, NoKey)
                    ELSE At("blocked", seg[s].attempt, <<start, 0>>, NoKey)
    <3>1. seg' = [seg EXCEPT ![s] = r]
      BY <1>6, <2>3 DEF TryKey
    <3>2. Later(At("scanning", seg[s].attempt, <<start, offset + 1>>, NoKey), seg[s])
      BY <2>1 DEF Later, At, Busy
    <3>3. Later(At("blocked", seg[s].attempt, <<start, 0>>, NoKey), seg[s])
      BY <2>1 DEF Later, At, Busy, Place
    <3> QED BY <1>2, <3>1, <3>2, <3>3
  <2> QED BY <2>2, <2>3
<1>7. CASE TakeKey(s)
  BY <1>5, <1>7 DEF TakeKey
<1>8. CASE PostTaken(s)
  <2>1. seg' = [seg EXCEPT ![s] = [seg[s] EXCEPT !.step = "polling"]] /\ seg[s].step = "posting"
    BY <1>8 DEF PostTaken
  <2>2. Later([seg[s] EXCEPT !.step = "polling"], seg[s])
    BY <2>1 DEF Later, Busy, Place, UpscaleInv, UpscaleTypeOK
  <2> QED BY <1>2, <2>1, <2>2
<1>9. CASE PollDone(s)
  <2>1. /\ seg' = [seg EXCEPT ![s] = At("fetching", seg[s].attempt, <<0, 0>>, NoKey)]
        /\ seg[s].step = "polling"
    BY <1>9 DEF PollDone
  <2>2. Later(At("fetching", seg[s].attempt, <<0, 0>>, NoKey), seg[s])
    BY <2>1 DEF Later, At, Busy, Place
  <2> QED BY <1>2, <2>1, <2>2
<1>10. CASE Fetch(s)
  <2>1. seg' = [seg EXCEPT ![s] = At("done", 0, <<0, 0>>, NoKey)] /\ seg[s].step = "fetching"
    BY <1>10 DEF Fetch
  <2>2. Later(At("done", 0, <<0, 0>>, NoKey), seg[s])
    BY <2>1 DEF Later, At, Busy, Over
  <2> QED BY <1>2, <2>1, <2>2
<1>11. CASE PostFails(s) \/ PollFailed(s) \/ PollBroken(s) \/ FetchFails(s)
  BY <1>11, FailureAdvances DEF PostFails, PollFailed, PollBroken, FetchFails, Busy
<1> QED BY <1>3, <1>4, <1>6, <1>7, <1>8, <1>9, <1>10, <1>11
        DEF Thread, Acquire, Post, Poll, Download

\* No thread does again what it has done: its way through a job is as long as its attempts
\* times the keys, so that the job, whose threads never wait in a circle, is a finite one.
THEOREM ThreadsOnlyAdvance == Spec => ThreadsAdvance
<1> DEFINE Advance == \/ seg' = AllQueued /\ "idle" \in {phase, phase'}
                      \/ \A s \in Segs : seg'[s] # seg[s] => Later(seg'[s], seg[s])
<1>1. UpscaleInv /\ [Next]_vars => [Advance]_vars
  <2> SUFFICES ASSUME UpscaleInv, Next PROVE Advance
    OBVIOUS
  <2>1. CASE Receive \/ Abandoned \/ Die
    BY <2>1 DEF Receive, Abandoned, End, Die
  <2>4. CASE Stray
    BY <2>4 DEF Stray, StrayEnds, StrayTakes, StrayReturns, jobVars
  <2>2. CASE \E s \in Segs : Thread(s)
    BY <2>2, ThreadAdvances
  <2>3. CASE Main \/ Interrupted
    BY <2>3 DEF Main, FutureFailed, Interrupted, PrepareFails, Split, Left, AllDone, Merge, MergeFails
  <2> QED BY <2>1, <2>2, <2>3, <2>4 DEF Next
<1>2. QED BY <1>1, UpscaleInvariant, PTL DEF Spec, ThreadsAdvance
=============================================================================
