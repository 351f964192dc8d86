----------------------------- MODULE TrackProofs -----------------------------
(***************************************************************************)
(* Theorems about Track for every interval of the incremental save, every  *)
(* set of files and every size of the arrays: the incremental log is       *)
(* ordered and free of duplicates, and at most one timer stores points.    *)
(***************************************************************************)
EXTENDS Track, SequenceTheorems, FiniteSetTheorems, FunctionTheorems,
        WellFoundedInduction, TLAPS

-----------------------------------------------------------------------------
(* The inductive invariant of the incremental save.                        *)

Ascending(s) == \A j, k \in DOMAIN s : j < k => s[j] < s[k]

Types ==
    /\ trackcoord \in Seq(Point)
    /\ incremental \in Seq(Nat)
    /\ old_trackcoordnr \in Nat
    /\ count \in Nat

\* Points are numbered upwards, and numbers given are never given again.
PointsAscend ==
    /\ \A k \in DOMAIN trackcoord : trackcoord[k].n <= count
    /\ \A j, k \in DOMAIN trackcoord : j < k => trackcoord[j].n < trackcoord[k].n

\* Whatever comes behind the mark in memory is younger than the whole file.
LogBehind ==
    \A j \in DOMAIN incremental :
        /\ incremental[j] <= count
        /\ \A k \in DOMAIN trackcoord :
              k > old_trackcoordnr => incremental[j] < trackcoord[k].n

Inv == Types /\ PointsAscend /\ LogBehind /\ Ascending(incremental)

-----------------------------------------------------------------------------
\* Two ascending sequences give one if the second starts above the first.
LEMMA AscendingConcat ==
    ASSUME NEW s \in Seq(Nat), NEW t \in Seq(Nat), Ascending(s), Ascending(t),
           \A j \in DOMAIN s, k \in DOMAIN t : s[j] < t[k]
    PROVE  Ascending(s \o t)
<1> DEFINE u == s \o t
<1>1. /\ Len(s) \in Nat /\ DOMAIN s = 1 .. Len(s)
      /\ Len(t) \in Nat /\ DOMAIN t = 1 .. Len(t)
  OBVIOUS
<1>2. /\ u \in Seq(Nat) /\ Len(u) = Len(s) + Len(t)
      /\ \A k \in 1 .. Len(s) + Len(t) :
            u[k] = IF k <= Len(s) THEN s[k] ELSE t[k - Len(s)]
  BY ConcatProperties
<1>3. DOMAIN u = 1 .. Len(s) + Len(t)
  BY <1>2
<1> HIDE DEF u
<1>4. SUFFICES ASSUME NEW j \in DOMAIN u, NEW k \in DOMAIN u, j < k
               PROVE  u[j] < u[k]
  BY DEF Ascending, u
<1>5. j \in 1 .. Len(s) + Len(t) /\ k \in 1 .. Len(s) + Len(t)
  BY <1>3
<1>6. CASE k <= Len(s)
  <2>1. j \in 1 .. Len(s) /\ k \in 1 .. Len(s)
    BY <1>1, <1>4, <1>6, <1>5
  <2>2. u[j] = s[j] /\ u[k] = s[k]
    <3>1. j <= Len(s) /\ k <= Len(s)
      BY <1>1, <2>1
    <3>2. u[j] = IF j <= Len(s) THEN s[j] ELSE t[j - Len(s)]
      BY <1>2, <1>5
    <3>3. u[k] = IF k <= Len(s) THEN s[k] ELSE t[k - Len(s)]
      BY <1>2, <1>5
    <3>4. QED
      BY <3>1, <3>2, <3>3
  <2>3. QED
    BY <1>1, <1>4, <2>1, <2>2 DEF Ascending
<1>7. CASE j <= Len(s) /\ k > Len(s)
  <2>1. j \in DOMAIN s /\ k - Len(s) \in DOMAIN t
    <3>1. j \in 1 .. Len(s) /\ k - Len(s) \in 1 .. Len(t)
      BY <1>1, <1>7, <1>5
    <3>2. QED
      BY <1>1, <3>1
  <2>2. u[j] = s[j] /\ u[k] = t[k - Len(s)]
    <3>1. ~(k <= Len(s))
      BY <1>1, <1>5, <1>7
    <3>2. u[j] = IF j <= Len(s) THEN s[j] ELSE t[j - Len(s)]
      BY <1>2, <1>5
    <3>3. u[k] = IF k <= Len(s) THEN s[k] ELSE t[k - Len(s)]
      BY <1>2, <1>5
    <3>4. QED
      BY <1>7, <3>1, <3>2, <3>3
  <2>3. QED
    BY <2>1, <2>2
<1>8. CASE j > Len(s)
  <2>1. j - Len(s) \in DOMAIN t /\ k - Len(s) \in DOMAIN t /\ j - Len(s) < k - Len(s)
    <3>1. /\ j - Len(s) \in 1 .. Len(t) /\ k - Len(s) \in 1 .. Len(t)
          /\ j - Len(s) < k - Len(s)
      BY <1>1, <1>4, <1>8, <1>5
    <3>2. QED
      BY <1>1, <3>1
  <2>2. u[j] = t[j - Len(s)] /\ u[k] = t[k - Len(s)]
    <3>1. ~(j <= Len(s)) /\ ~(k <= Len(s))
      BY <1>1, <1>4, <1>8, <1>5
    <3>2. u[j] = IF j <= Len(s) THEN s[j] ELSE t[j - Len(s)]
      BY <1>2, <1>5
    <3>3. u[k] = IF k <= Len(s) THEN s[k] ELSE t[k - Len(s)]
      BY <1>2, <1>5
    <3>4. QED
      BY <3>1, <3>2, <3>3
  <2>3. QED
    BY <2>1, <2>2 DEF Ascending
<1>9. QED
  BY <1>1, <1>6, <1>7, <1>8, <1>5

\* What an incremental save leaves behind, given an array whose last point is
\* new and whose other points are the old ones.
LEMMA SaveKeepsOrder ==
    ASSUME Types, LogBehind, Ascending(incremental),
           NEW ps \in Seq(Point), NEW c \in Nat, Len(ps) > 0, c = count + 1,
           ps[Len(ps)].n = c,
           \A k \in DOMAIN ps : ps[k].n <= c,
           \A j, k \in DOMAIN ps : j < k => ps[j].n < ps[k].n,
           \A k \in 1 .. Len(ps) - 1 : k \in DOMAIN trackcoord /\ ps[k] = trackcoord[k],
           NEW ok \in BOOLEAN, IncrementalSave(ps, ok),
           trackcoord' = ps, count' = c
    PROVE  Inv'
<1> DEFINE nr == Len(ps)
           new == SubSeq(ps, old_trackcoordnr + 1, nr - 1)
           ns == [k \in DOMAIN new |-> new[k].n]
<1>1. /\ nr \in Nat /\ DOMAIN ps = 1 .. nr /\ old_trackcoordnr \in Nat
      /\ incremental \in Seq(Nat) /\ count \in Nat
      /\ DOMAIN incremental = 1 .. Len(incremental) /\ Len(incremental) \in Nat
  BY DEF Types
<1>2. \A k \in DOMAIN ps : ps[k] \in Point /\ ps[k].n \in Nat
  <2>1. \A k \in DOMAIN ps : ps[k] \in Point
    OBVIOUS
  <2>2. \A x \in Point : x.n \in Nat
    BY DEF Point
  <2>3. QED
    BY <2>1, <2>2
<1>3. PointsAscend'
  BY DEF PointsAscend
<1>4. \A j \in DOMAIN incremental : incremental[j] \in Nat /\ incremental[j] <= count
  BY <1>1 DEF LogBehind
<1>5. CASE UNCHANGED saving
  <2>1. Types'
    BY <1>1, <1>5 DEF Types, saving
  <2>2. LogBehind'
    <3>1. ASSUME NEW j \in DOMAIN incremental, NEW k \in DOMAIN ps,
                 k > old_trackcoordnr
          PROVE  incremental[j] < ps[k].n
      <4>1. CASE k = nr
        BY <1>1, <1>4, <4>1
      <4>2. CASE k # nr
        <5>1. k \in DOMAIN trackcoord /\ ps[k] = trackcoord[k]
          BY <1>1, <4>2
        <5>2. QED
          BY <3>1, <5>1 DEF LogBehind
      <4>3. QED
        BY <4>1, <4>2
    <3>2. \A j \in DOMAIN incremental : incremental[j] <= c
      BY <1>1, <1>4
    <3>3. QED
      BY <1>5, <3>1, <3>2 DEF LogBehind, saving
  <2>3. QED
    BY <1>3, <1>5, <2>1, <2>2 DEF Inv, saving, Ascending
<1>6. CASE incremental' = incremental \o ns /\ old_trackcoordnr' = nr - 1
  <2>1. /\ new \in Seq(Point)
        /\ Len(new) = IF old_trackcoordnr + 1 <= nr - 1
                      THEN nr - 1 - (old_trackcoordnr + 1) + 1 ELSE 0
        /\ \A k \in 1 .. nr - 1 - (old_trackcoordnr + 1) + 1 :
              new[k] = ps[old_trackcoordnr + 1 + k - 1]
    <3>1. /\ old_trackcoordnr + 1 \in Int /\ nr - 1 \in Int
          /\ \A k \in old_trackcoordnr + 1 .. nr - 1 : ps[k] \in Point
      BY <1>1, <1>2
    <3>2. QED
      BY <3>1, SubSeqProperties
  <2>2. /\ DOMAIN new = 1 .. Len(new) /\ Len(new) \in Nat
        /\ \A k \in DOMAIN new : /\ new[k] = ps[old_trackcoordnr + k]
                                 /\ old_trackcoordnr + k \in 1 .. nr - 1
    <3> HIDE DEF new
    <3>1. DOMAIN new = 1 .. Len(new) /\ Len(new) \in Nat
      BY <2>1
    <3>2. \A k \in DOMAIN new :
             /\ k \in 1 .. nr - 1 - (old_trackcoordnr + 1) + 1
             /\ old_trackcoordnr + 1 + k - 1 = old_trackcoordnr + k
             /\ old_trackcoordnr + k \in 1 .. nr - 1
      <4>1. TAKE k \in DOMAIN new
      <4>2. k \in 1 .. Len(new)
        BY <3>1
      <4>3. CASE old_trackcoordnr + 1 <= nr - 1
        <5>1. Len(new) = nr - 1 - (old_trackcoordnr + 1) + 1
          BY <2>1, <4>3
        <5>2. nr \in Nat /\ old_trackcoordnr \in Nat
          BY <1>1
        <5>3. Len(new) = nr - 1 - old_trackcoordnr /\ k \in Nat
          BY <4>2, <5>1, <5>2
        <5> HIDE DEF nr, ns
        <5>4. k \in 1 .. nr - 1 - old_trackcoordnr
          BY <4>2, <5>3
        <5>5. QED
          BY <5>2, <5>4
      <4>4. CASE ~(old_trackcoordnr + 1 <= nr - 1)
        <5>1. Len(new) = 0
          BY <2>1, <4>4
        <5>2. QED
          BY <4>2, <5>1
      <4>5. QED
        BY <4>3, <4>4
    <3>3. QED
      BY <2>1, <3>1, <3>2
  <2> HIDE DEF new
  <2>3. \A k \in DOMAIN new : ns[k] = ps[old_trackcoordnr + k].n /\ ns[k] \in Nat
    <3>1. TAKE k \in DOMAIN new
    <3>2. ns[k] = new[k].n
      OBVIOUS
    <3> HIDE DEF ns
    <3>3. new[k] = ps[old_trackcoordnr + k] /\ old_trackcoordnr + k \in 1 .. nr - 1
      BY <2>2
    <3>4. old_trackcoordnr + k \in DOMAIN ps
      BY <1>1, <3>3
    <3>5. QED
      BY <1>2, <3>2, <3>3, <3>4
  <2>4. ns \in Seq(Nat) /\ DOMAIN ns = 1 .. Len(new) /\ Len(ns) = Len(new)
    <3>1. ns \in [1 .. Len(new) -> Nat]
      BY <2>2, <2>3
    <3>2. QED
      BY <2>2, <3>1
  <2> HIDE DEF ns
  <2>5. Ascending(ns)
    <3>1. SUFFICES ASSUME NEW j \in DOMAIN ns, NEW k \in DOMAIN ns, j < k
                   PROVE  ns[j] < ns[k]
      BY DEF Ascending
    <3>2. j \in DOMAIN new /\ k \in DOMAIN new /\ j \in Nat /\ k \in Nat
      BY <2>2, <2>4
    <3>3. old_trackcoordnr + j < old_trackcoordnr + k
      BY <1>1, <3>1, <3>2
    <3>4. /\ old_trackcoordnr + j \in DOMAIN ps
          /\ old_trackcoordnr + k \in DOMAIN ps
      BY <1>1, <2>2, <3>2
    <3>5. QED
      BY <2>3, <3>2, <3>3, <3>4
  <2>6. \A j \in DOMAIN incremental, k \in DOMAIN ns : incremental[j] < ns[k]
    <3>1. TAKE j \in DOMAIN incremental, k \in DOMAIN ns
    <3>2. k \in DOMAIN new /\ k \in Nat /\ k > 0
      BY <2>2, <2>4
    <3> DEFINE m == old_trackcoordnr + k
    <3>3. m \in 1 .. nr - 1 /\ m > old_trackcoordnr
      BY <1>1, <2>2, <3>2
    <3>4. m \in DOMAIN trackcoord /\ ps[m] = trackcoord[m]
      BY <3>3
    <3>5. incremental[j] < trackcoord[m].n
      BY <3>3, <3>4 DEF LogBehind
    <3>6. QED
      BY <2>3, <3>2, <3>4, <3>5
  <2>7. Ascending(incremental')
    BY <1>1, <1>6, <2>4, <2>5, <2>6, AscendingConcat
  <2>8. /\ incremental' \in Seq(Nat)
        /\ \A j \in DOMAIN incremental' : incremental'[j] < c
    <3>1. /\ incremental' \in Seq(Nat)
          /\ Len(incremental') = Len(incremental) + Len(ns)
          /\ \A j \in 1 .. Len(incremental) + Len(ns) :
                incremental'[j] = IF j <= Len(incremental) THEN incremental[j]
                                  ELSE ns[j - Len(incremental)]
      BY <1>1, <1>6, <2>4, ConcatProperties
    <3>2. \A k \in DOMAIN ns : ns[k] < c
      <4>1. TAKE k \in DOMAIN ns
      <4>2. k \in DOMAIN new /\ old_trackcoordnr + k \in 1 .. nr - 1
        BY <2>2, <2>4
      <4>3. ns[k] = ps[old_trackcoordnr + k].n
        BY <2>3, <4>2
      <4>4. ps[old_trackcoordnr + k].n < ps[nr].n
        <5>1. /\ old_trackcoordnr + k \in DOMAIN ps /\ nr \in DOMAIN ps
              /\ old_trackcoordnr + k < nr
          BY <1>1, <4>2
        <5>2. QED
          BY <5>1
      <4>5. QED
        BY <4>3, <4>4
    <3>3. ASSUME NEW j \in DOMAIN incremental'
          PROVE  incremental'[j] < c
      <4>1. j \in 1 .. Len(incremental) + Len(ns)
        BY <3>1
      <4>2. CASE j <= Len(incremental)
        BY <1>1, <1>4, <3>1, <4>1, <4>2
      <4>3. CASE j > Len(incremental)
        <5>1. j - Len(incremental) \in DOMAIN ns
          BY <1>1, <2>2, <2>4, <4>1, <4>3
        <5>2. incremental'[j] = ns[j - Len(incremental)]
          BY <1>1, <3>1, <4>1, <4>3
        <5>3. QED
          BY <3>2, <5>1, <5>2
      <4>4. QED
        BY <1>1, <4>1, <4>2, <4>3
    <3>4. QED
      BY <3>1, <3>3
  <2>9. LogBehind'
    <3>1. \A k \in DOMAIN ps : k > nr - 1 => ps[k].n = c
      BY <1>1
    <3>2. \A j \in DOMAIN incremental' : incremental'[j] \in Nat /\ incremental'[j] <= c
      BY <2>8
    <3>3. QED
      BY <1>6, <2>8, <3>1, <3>2 DEF LogBehind
  <2>10. Types'
    BY <1>1, <1>6, <2>8 DEF Types
  <2>11. QED
    BY <1>3, <2>7, <2>9, <2>10 DEF Inv, Ascending
<1>7. QED
  BY <1>5, <1>6 DEF IncrementalSave

-----------------------------------------------------------------------------
(* The invariant holds initially and every step preserves it.              *)

LEMMA FixType ==
    \A x \in Fix : x.valid \in BOOLEAN /\ x.at \in Places \cup {"nowhere"}
<1>1. TAKE x \in Fix
<1>2. CASE x \in [valid : {TRUE}, at : Places]
  <2>1. x.valid \in {TRUE} /\ x.at \in Places
    BY <1>2
  <2>2. QED
    BY <2>1
<1>3. CASE x = Break
  BY <1>3 DEF Break
<1>4. QED
  BY <1>2, <1>3 DEF Fix

LEMMA InitInv == Init => Inv
<1> SUFFICES ASSUME Init PROVE Inv
  OBVIOUS
<1>1. /\ trackcoord = <<>> /\ incremental = <<>>
      /\ old_trackcoordnr = 0 /\ count = 0
  BY DEF Init
<1>2. DOMAIN trackcoord = {} /\ DOMAIN incremental = {}
  BY <1>1
<1>3. Types
  BY <1>1 DEF Types
<1>4. QED
  BY <1>2, <1>3 DEF Inv, PointsAscend, LogBehind, Ascending

\* A stored point is younger than all others.
LEMMA StoreTrackInv ==
    ASSUME Inv, NEW fix \in Fix, StoreTrack(fix)
    PROVE  Inv'
<1> DEFINE pt == [n |-> count + 1, valid |-> fix.valid, at |-> fix.at]
           ps == Append(trackcoord, pt)
<1>1. /\ trackcoord \in Seq(Point) /\ count \in Nat
      /\ Len(trackcoord) \in Nat /\ DOMAIN trackcoord = 1 .. Len(trackcoord)
  BY DEF Inv, Types
<1>2. pt \in Point /\ pt.n = count + 1
  <2>1. fix.valid \in BOOLEAN /\ fix.at \in Places \cup {"nowhere"}
    BY FixType
  <2>2. QED
    BY <1>1, <2>1 DEF Point
<1>3. trackcoord' = ps /\ count' = count + 1
  BY DEF StoreTrack
<1> HIDE DEF pt
<1>4. /\ ps \in Seq(Point) /\ Len(ps) = Len(trackcoord) + 1
      /\ DOMAIN ps = 1 .. Len(trackcoord) + 1
      /\ ps[Len(trackcoord) + 1] = pt
      /\ \A k \in 1 .. Len(trackcoord) : ps[k] = trackcoord[k]
  BY <1>1, <1>2
<1> HIDE DEF ps
<1>5. \A k \in DOMAIN ps :
         k \in DOMAIN trackcoord \/ (k = Len(trackcoord) + 1 /\ ps[k] = pt)
  BY <1>1, <1>4
<1>6. \A k \in DOMAIN trackcoord :
         /\ ps[k] = trackcoord[k] /\ k < Len(trackcoord) + 1
         /\ trackcoord[k].n \in Nat /\ trackcoord[k].n <= count
  <2>1. \A k \in DOMAIN trackcoord : trackcoord[k] \in Point
    BY <1>1
  <2>2. \A x \in Point : x.n \in Nat
    BY DEF Point
  <2>3. QED
    BY <1>1, <1>4, <2>1, <2>2 DEF Inv, PointsAscend
<1>7. \A k \in DOMAIN ps : ps[k].n <= count + 1
  BY <1>1, <1>2, <1>5, <1>6
<1>8. \A j, k \in DOMAIN ps : j < k => ps[j].n < ps[k].n
  <2>1. SUFFICES ASSUME NEW j \in DOMAIN ps, NEW k \in DOMAIN ps, j < k
                 PROVE  ps[j].n < ps[k].n
    OBVIOUS
  <2>2. j \in DOMAIN trackcoord
    BY <1>1, <1>4, <2>1
  <2>3. CASE k \in DOMAIN trackcoord
    BY <1>6, <2>1, <2>2, <2>3 DEF Inv, PointsAscend
  <2>4. CASE k = Len(trackcoord) + 1 /\ ps[k] = pt
    BY <1>1, <1>2, <1>6, <2>2, <2>4
  <2>5. QED
    BY <1>5, <2>3, <2>4
<1>9. \E ok \in BOOLEAN : IncrementalSave(ps, ok)
  <2>1. CASE \E ok \in Writable : IncrementalSave(trackcoord', ok)
    BY <1>3, <2>1 DEF Writable
  <2>2. CASE UNCHANGED saving
    <3>1. IncrementalSave(ps, FALSE)
      BY <2>2 DEF IncrementalSave
    <3>2. QED
      BY <3>1
  <2>3. QED
    BY <2>1, <2>2 DEF StoreTrack
<1>10. PICK ok \in BOOLEAN : IncrementalSave(ps, ok)
  BY <1>9
<1>11. /\ Len(ps) > 0 /\ ps[Len(ps)].n = count + 1 /\ count + 1 \in Nat
       /\ \A k \in 1 .. Len(ps) - 1 : k \in DOMAIN trackcoord /\ ps[k] = trackcoord[k]
  BY <1>1, <1>2, <1>4
<1>12. QED
  BY <1>3, <1>4, <1>7, <1>8, <1>10, <1>11, SaveKeepsOrder DEF Inv

\* Loaded points have new numbers, so they are younger than the file.
LEMMA LoadedInv ==
    ASSUME Inv, NEW f \in Seq(Fix), NEW room, Loaded(f, room), UNCHANGED saving
    PROVE  Inv'
<1> DEFINE ps == Numbered(f, count)
<1>1. /\ count \in Nat /\ Len(f) \in Nat /\ DOMAIN f = 1 .. Len(f)
      /\ incremental \in Seq(Nat) /\ old_trackcoordnr \in Nat
      /\ DOMAIN incremental = 1 .. Len(incremental)
  BY DEF Inv, Types
<1>2. /\ trackcoord' = ps /\ count' = count + Len(f)
      /\ incremental' = incremental /\ old_trackcoordnr' = old_trackcoordnr
  BY DEF Loaded, saving
<1>3. \A k \in 1 .. Len(f) : ps[k] \in Point /\ ps[k].n = count + k
  <2>1. TAKE k \in 1 .. Len(f)
  <2>2. f[k] \in Fix
    BY <1>1
  <2>3. f[k].valid \in BOOLEAN /\ f[k].at \in Places \cup {"nowhere"}
    BY <2>2, FixType
  <2>4. ps[k] = [n |-> count + k, valid |-> f[k].valid, at |-> f[k].at]
    BY <1>1 DEF Numbered
  <2>5. QED
    BY <1>1, <2>3, <2>4 DEF Point
<1>4. ps \in Seq(Point) /\ DOMAIN ps = 1 .. Len(f)
  <2>1. ps = [k \in 1 .. Len(f) |-> ps[k]]
    BY <1>1 DEF Numbered
  <2>2. ps \in [1 .. Len(f) -> Point]
    BY <1>3, <2>1
  <2>3. QED
    BY <1>1, <2>2
<1> HIDE DEF ps
<1>5. Types'
  BY <1>1, <1>2, <1>4 DEF Types
<1>6. PointsAscend'
  BY <1>1, <1>2, <1>3, <1>4 DEF PointsAscend
<1>7. \A j \in DOMAIN incremental : incremental[j] \in Nat /\ incremental[j] <= count
  BY <1>1 DEF Inv, LogBehind
<1>8. LogBehind'
  BY <1>1, <1>2, <1>3, <1>4, <1>7 DEF LogBehind
<1>9. QED
  BY <1>2, <1>5, <1>6, <1>8 DEF Inv, Ascending

LEMMA ClearedInv ==
    ASSUME Inv, Cleared, UNCHANGED saving
    PROVE  Inv'
<1>1. trackcoord' = <<>> /\ count' = count
  BY DEF Cleared
<1>2. DOMAIN trackcoord' = {} /\ trackcoord' \in Seq(Point)
  BY <1>1
<1>3. QED
  BY <1>1, <1>2 DEF Inv, Types, PointsAscend, LogBehind, Ascending, saving

LEMMA SameInv ==
    ASSUME Inv, UNCHANGED <<trackcoord, count, saving>>
    PROVE  Inv'
BY DEF Inv, Types, PointsAscend, LogBehind, Ascending, saving

LEMMA NextInv == Inv /\ [Next]_vars => Inv'
<1> SUFFICES ASSUME Inv, [Next]_vars PROVE Inv'
  OBVIOUS
<1>1. ASSUME NEW fix \in Fix, StoreTrack(fix) PROVE Inv'
  BY <1>1, StoreTrackInv
<1>2. \A f \in Files \cup GpxFiles : f \in Seq(Fix) /\ Append(f, Break) \in Seq(Fix)
  <2>1. Break \in Fix
    BY DEF Fix
  <2>2. QED
    BY <2>1, TrackAssumption
<1>3. ASSUME NEW f \in Files, GetTrackFile(f) PROVE Inv'
  BY <1>2, <1>3, LoadedInv DEF GetTrackFile
<1>4. ASSUME NEW f \in GpxFiles, GpxRead(f) PROVE Inv'
  <2> DEFINE g == IF f = <<>> THEN f ELSE Append(f, Break)
  <2>1. g \in Seq(Fix)
    BY <1>2
  <2>2. Loaded(g, Chunk) /\ UNCHANGED saving
    BY <1>4 DEF GpxRead
  <2> HIDE DEF g
  <2>3. QED
    BY <2>1, <2>2, LoadedInv
<1>5. ASSUME NEW clear \in BOOLEAN, TrackAutosave(clear) PROVE Inv'
  <2>1. UNCHANGED saving
    BY <1>5 DEF TrackAutosave
  <2>2. CASE Cleared
    BY <2>1, <2>2, ClearedInv
  <2>3. CASE UNCHANGED arrays
    BY <2>1, <2>3, SameInv DEF arrays
  <2>4. QED
    BY <1>5, <2>2, <2>3 DEF TrackAutosave
<1>6. CASE TrackClear
  BY <1>6, ClearedInv DEF TrackClear
<1>7. CASE MasterAgent \/ ViewChanged
  BY <1>7, SameInv DEF MasterAgent, ViewChanged
<1>8. CASE SaveGpx \/ SetTrackInterval \/ ToggleSaveTrack \/ NextMinute
  BY <1>8, SameInv DEF SaveGpx, SetTrackInterval, ToggleSaveTrack, NextMinute, arrays
<1>9. CASE UNCHANGED vars
  BY <1>9, SameInv DEF vars, arrays
<1>10. QED
  BY <1>1, <1>3, <1>4, <1>5, <1>6, <1>7, <1>8, <1>9 DEF Next

(* The incremental log never repeats or reorders points, although its mark *)
(* old_trackcoordnr is not reset with the array (track.c:450-488,562-585). *)
THEOREM LogInOrder == Spec => []IncrementalOrdered
<1>1. Inv => IncrementalOrdered
  BY DEF Inv, Ascending, IncrementalOrdered
<1>2. QED
  BY <1>1, InitInv, NextInv, PTL DEF Spec

-----------------------------------------------------------------------------
LEMMA TimerStep == OneTimer /\ [Next]_vars => OneTimer'
<1> SUFFICES ASSUME OneTimer, [Next]_vars PROVE OneTimer'
  OBVIOUS
<1>1. ASSUME NEW ok, GpxWrite(ok) PROVE OneTimer'
  BY <1>1 DEF GpxWrite, OneTimer, timer
<1>2. CASE UNCHANGED timer
  BY <1>2 DEF OneTimer, timer
<1>3. CASE SetTrackInterval
  BY <1>3 DEF SetTrackInterval, OneTimer
<1>4. ASSUME NEW fix \in Fix, StoreTrack(fix) PROVE UNCHANGED timer
  BY <1>4 DEF StoreTrack
<1>5. ASSUME NEW f, GetTrackFile(f) \/ GpxRead(f) PROVE UNCHANGED timer
  BY <1>5 DEF GetTrackFile, GpxRead
<1>6. CASE MasterAgent \/ ViewChanged \/ TrackClear \/ ToggleSaveTrack \/ NextMinute
  BY <1>2, <1>6 DEF MasterAgent, ViewChanged, TrackClear, ToggleSaveTrack, NextMinute
<1>7. CASE UNCHANGED vars
  BY <1>2, <1>7 DEF vars
<1>8. QED
  BY <1>1, <1>2, <1>3, <1>4, <1>5, <1>6, <1>7 DEF Next, TrackAutosave, SaveGpx

(* However often tracks are exported, autosaved and restarted, there are   *)
(* never two timers that store points (gpx.c:867-870, 975).                *)
THEOREM NeverTwoTimers == Spec => []OneTimer
<1>1. Init => OneTimer
  BY DEF Init, OneTimer
<1>2. QED
  BY <1>1, TimerStep, PTL DEF Spec

-----------------------------------------------------------------------------
(* Segments and their ends.                                                *)

Segment == [x1 : Point, x2 : Point]

\* A function on 1 .. n is a sequence of length n.
LEMMA FunctionIsSeq ==
    ASSUME NEW S, NEW n \in Nat, NEW s \in [1 .. n -> S]
    PROVE  s \in Seq(S) /\ Len(s) = n /\ DOMAIN s = 1 .. n
OBVIOUS

\* Counting a finite set of numbers upwards gives each of its members.
LEMMA NthExists ==
    ASSUME NEW S \in SUBSET Nat, IsFiniteSet(S), NEW j \in 1 .. Cardinality(S)
    PROVE  Nth(S, j) \in S
<1> DEFINE upTo(k) == {i \in S : i <= k}
           f == [k \in S |-> Cardinality(upTo(k))]
           T == 1 .. Cardinality(S)
<1>1. Cardinality(S) \in Nat /\ IsFiniteSet(T) /\ Cardinality(T) = Cardinality(S)
  <2>1. Cardinality(S) \in Nat
    BY FS_CardinalityType
  <2>2. QED
    BY <2>1, FS_Interval
<1>2. \A k \in S : /\ IsFiniteSet(upTo(k)) /\ Cardinality(upTo(k)) \in T
  <2>1. TAKE k \in S
  <2>2. IsFiniteSet(upTo(k)) /\ Cardinality(upTo(k)) <= Cardinality(S)
    BY FS_Subset
  <2>3. k \in upTo(k)
    OBVIOUS
  <2> HIDE DEF upTo
  <2>4. Cardinality(upTo(k)) \in Nat /\ Cardinality(upTo(k)) # 0
    BY <2>2, <2>3, FS_CardinalityType, FS_EmptySet
  <2>5. QED
    BY <1>1, <2>2, <2>4
<1>3. \A a, b \in S : f[a] = f[b] => a = b
  <2>1. ASSUME NEW a \in S, NEW b \in S, a < b
        PROVE  Cardinality(upTo(a)) # Cardinality(upTo(b))
    <3>1. upTo(a) \in SUBSET upTo(b) /\ b \in upTo(b) /\ b \notin upTo(a)
      <4>1. a \in Nat /\ b \in Nat /\ b <= b /\ ~(b <= a)
        BY <2>1
      <4>2. \A i \in S : i <= a => i <= b
        BY <2>1
      <4>3. QED
        BY <4>1, <4>2
    <3>2. IsFiniteSet(upTo(b)) /\ upTo(a) # upTo(b)
      BY <1>2, <3>1
    <3> HIDE DEF upTo
    <3>3. QED
      BY <3>1, <3>2, FS_Subset
  <2>2. ASSUME NEW a \in S, NEW b \in S, f[a] = f[b] PROVE a = b
    <3>1. Cardinality(upTo(a)) = Cardinality(upTo(b))
      BY <2>2
    <3>2. ~(a < b) /\ ~(b < a)
      BY <2>1, <3>1
    <3>3. QED
      BY <3>2
  <2>3. QED
    BY <2>2
<1>4. f \in [S -> T]
  BY <1>2
<1> HIDE DEF f, T
<1>5. f \in Injection(S, T)
  BY <1>3, <1>4, Fun_IsInj
<1>6. f \in Surjection(S, T)
  BY <1>1, <1>5, FS_Injection
<1>7. PICK k \in S : f[k] = j
  <2>1. \A t \in T : \E k \in S : f[k] = t
    BY <1>6, Fun_SurjectionProperties
  <2>2. QED
    BY <2>1 DEF T
<1>8. Cardinality({i \in S : i <= k}) = j
  BY <1>7 DEF f
<1>9. QED
  BY <1>8 DEF Nth

\* A segment that rebuildtracklist computes ends at a valid point.
LEMMA RebuiltEnds ==
    ASSUME NEW ps \in Seq(Point), NEW old, NEW view,
           NEW r, r = Rebuilt(ps, old, TRUE, view)
    PROVE  /\ r \in Seq(Segment)
           /\ \A k \in DOMAIN r : r[k].x2.valid
<1> DEFINE J == Joined(ps, view)
<1>1. /\ J \in SUBSET Nat
      /\ \A k \in J : /\ k \in 1 .. Len(ps) /\ k + 1 \in 1 .. Len(ps)
                      /\ ps[k + 1].valid
  BY DEF Joined
<1>2. IsFiniteSet(J) /\ Cardinality(J) \in Nat
  <2>1. J \in SUBSET (1 .. Len(ps)) /\ Len(ps) \in Nat
    BY <1>1
  <2>2. IsFiniteSet(1 .. Len(ps))
    BY <2>1, FS_Interval
  <2> HIDE DEF J
  <2>3. IsFiniteSet(J)
    BY <2>1, <2>2, FS_Subset
  <2>4. QED
    BY <2>3, FS_CardinalityType
<1>3. r = [j \in 1 .. Cardinality(J) |->
              [x1 |-> ps[Nth(J, j)], x2 |-> ps[Nth(J, j) + 1]]]
  BY DEF Rebuilt
<1> HIDE DEF J
<1>4. \A j \in 1 .. Cardinality(J) : Nth(J, j) \in J
  BY <1>1, <1>2, NthExists
<1>5. \A j \in 1 .. Cardinality(J) :
         r[j] \in Segment /\ r[j].x2.valid
  <2>1. TAKE j \in 1 .. Cardinality(J)
  <2> DEFINE i == Nth(J, j)
  <2>2. i \in J
    BY <1>4
  <2>3. r[j] = [x1 |-> ps[i], x2 |-> ps[i + 1]]
    BY <1>3
  <2> HIDE DEF i
  <2>4. ps[i] \in Point /\ ps[i + 1] \in Point /\ ps[i + 1].valid
    BY <1>1, <2>2
  <2> DEFINE seg == [x1 |-> ps[i], x2 |-> ps[i + 1]]
  <2>5. seg \in Segment /\ seg.x2 = ps[i + 1]
    BY <2>4 DEF Segment
  <2>6. r[j] = seg
    BY <2>3
  <2> HIDE DEF seg
  <2>7. QED
    BY <2>4, <2>5, <2>6
<1>6. r \in [1 .. Cardinality(J) -> Segment]
  BY <1>3, <1>5
<1>7. QED
  <2>1. DOMAIN r = 1 .. Cardinality(J)
    BY <1>3
  <2>2. r \in Seq(Segment)
    BY <1>2, <1>6, FunctionIsSeq
  <2>3. QED
    BY <1>5, <2>1, <2>2

\* Only the last segment may have no end yet.
SegmentsEnd ==
    /\ track \in Seq(Segment)
    /\ \A k \in 1 .. Len(track) - 1 : track[k].x2.valid

LEMMA HalfBounds == \A n \in Nat : 2 * (n \div 2) \in 0 .. n
OBVIOUS

\* storepoint keeps the ends of the segments it leaves.
LEMMA ExtendedEnds ==
    ASSUME SegmentsEnd, NEW p \in Point, NEW moved,
           track' = Extended(p, moved)
    PROVE  SegmentsEnd'
<1> DEFINE nr == Len(track)
           new == [x1 |-> p, x2 |-> Unset]
           old == [track EXCEPT ![nr].x2 = p]
<1>1. track \in Seq(Segment) /\ nr \in Nat /\ DOMAIN track = 1 .. nr
  BY DEF SegmentsEnd
<1>2. new \in Segment
  BY DEF Segment, Point, Unset
<1>3. CASE track' = SubSeq(track, 1, 2 * (nr \div 2))
  <2> DEFINE m == 2 * (nr \div 2)
  <2>1. m \in Nat /\ m <= nr
    BY <1>1, HalfBounds
  <2> HIDE DEF m, nr
  <2>2. /\ SubSeq(track, 1, m) \in Seq(Segment) /\ Len(SubSeq(track, 1, m)) = m
        /\ \A k \in 1 .. m : SubSeq(track, 1, m)[k] = track[k]
    <3>1. \A k \in 1 .. m : track[k] \in Segment
      BY <1>1, <2>1 DEF nr
    <3>2. QED
      BY <2>1, <3>1, SubSeqProperties
  <2>3. track' = SubSeq(track, 1, m)
    BY <1>3 DEF m
  <2>4. \A k \in 1 .. m - 1 : k \in 1 .. nr - 1 /\ track'[k] = track[k]
    BY <1>1, <2>1, <2>2, <2>3
  <2>5. QED
    BY <2>2, <2>3, <2>4 DEF SegmentsEnd, nr
<1>4. CASE track' = <<new>>
  <2> HIDE DEF new
  <2>1. track' \in Seq(Segment) /\ Len(track') = 1
    BY <1>2, <1>4
  <2>2. QED
    BY <2>1 DEF SegmentsEnd
<1>5. CASE nr > 0 /\ p.valid /\ track' = Append(old, new)
  <2> HIDE DEF new
  <2>1. old = [track EXCEPT ![nr] = [track[nr] EXCEPT !.x2 = p]]
    OBVIOUS
  <2>2. track[nr] \in Segment
    BY <1>1, <1>5
  <2>3. DEFINE seg == [track[nr] EXCEPT !.x2 = p]
  <2>4. seg \in Segment /\ seg.x2 = p
    BY <2>2 DEF Segment
  <2>5. old = [track EXCEPT ![nr] = seg]
    BY <2>1
  <2> HIDE DEF seg, old
  <2>6. /\ old \in Seq(Segment) /\ Len(old) = nr
        /\ \A k \in 1 .. nr : old[k] = IF k = nr THEN seg ELSE track[k]
    BY <1>1, <1>5, <2>4, <2>5
  <2>7. /\ track' \in Seq(Segment) /\ Len(track') = nr + 1
        /\ \A k \in 1 .. nr : track'[k] = old[k]
    <3>1. track' = Append(old, new)
      BY <1>5
    <3> HIDE DEF nr
    <3>2. QED
      BY <1>2, <2>6, <3>1, AppendProperties
  <2>8. \A k \in 1 .. nr : track'[k].x2.valid
    <3>1. TAKE k \in 1 .. nr
    <3>2. CASE k = nr
      BY <1>1, <1>5, <2>4, <2>6, <2>7, <3>2
    <3>3. CASE k # nr
      <4>1. track'[k] = track[k] /\ k \in 1 .. nr - 1
        <5>1. track'[k] = old[k] /\ old[k] = track[k]
          BY <2>6, <2>7, <3>3
        <5>2. nr \in Nat
          BY <1>1
        <5> HIDE DEF nr
        <5>3. k \in 1 .. nr - 1
          BY <3>3, <5>2
        <5>4. QED
          BY <5>1, <5>3
      <4>2. QED
        BY <4>1 DEF SegmentsEnd
    <3>4. QED
      BY <3>2, <3>3
  <2>9. QED
    BY <1>1, <2>7, <2>8 DEF SegmentsEnd
<1>6. CASE track' = track
  BY <1>6 DEF SegmentsEnd
<1>7. QED
  BY <1>3, <1>4, <1>5, <1>6 DEF Extended

LEMMA SegmentsStep == Inv /\ Inv' /\ SegmentsEnd /\ [Next]_vars => SegmentsEnd'
<1> SUFFICES ASSUME Inv, Inv', SegmentsEnd, [Next]_vars PROVE SegmentsEnd'
  OBVIOUS
<1>1. trackcoord \in Seq(Point) /\ trackcoord' \in Seq(Point) /\ count \in Nat
  BY DEF Inv, Types
<1>2. ASSUME track' = <<>> PROVE SegmentsEnd'
  BY <1>2 DEF SegmentsEnd
<1>3. ASSUME track' = track PROVE SegmentsEnd'
  BY <1>3 DEF SegmentsEnd
<1>4. ASSUME NEW ps \in Seq(Point), NEW old, NEW view,
             track' = Rebuilt(ps, old, TRUE, view)
      PROVE  SegmentsEnd'
  <2>1. /\ track' \in Seq(Segment) /\ \A k \in DOMAIN track' : track'[k].x2.valid
    BY <1>4, RebuiltEnds
  <2>2. \A k \in 1 .. Len(track') - 1 : k \in DOMAIN track'
    BY <2>1
  <2>3. QED
    BY <2>1, <2>2 DEF SegmentsEnd
<1>5. ASSUME NEW fix \in Fix, StoreTrack(fix) PROVE SegmentsEnd'
  <2> DEFINE p == [n |-> count + 1, valid |-> fix.valid, at |-> fix.at]
  <2>1. p \in Point
    BY <1>1, FixType DEF Point
  <2>2. PICK moved \in Moved(p) : track' = Extended(p, moved)
    BY <1>5 DEF StoreTrack
  <2>3. QED
    BY <2>1, <2>2, ExtendedEnds
<1>6. ASSUME NEW f, NEW room, Loaded(f, room) PROVE SegmentsEnd'
  <2>1. PICK shown \in BOOLEAN, view \in SUBSET Places :
           track' = Rebuilt(trackcoord', <<>>, shown, view)
    BY <1>6 DEF Loaded
  <2>2. CASE shown = TRUE
    BY <1>1, <1>4, <2>1, <2>2
  <2>3. CASE shown = FALSE
    BY <1>2, <2>1, <2>3 DEF Rebuilt
  <2>4. QED
    BY <2>2, <2>3
<1>7. CASE \E f \in Files : GetTrackFile(f)
  BY <1>6, <1>7 DEF GetTrackFile
<1>8. CASE \E f \in GpxFiles : GpxRead(f)
  BY <1>6, <1>8 DEF GpxRead
<1>9. CASE ViewChanged
  BY <1>1, <1>4, <1>9 DEF ViewChanged
<1>10. ASSUME NEW clear \in BOOLEAN, TrackAutosave(clear) PROVE SegmentsEnd'
  BY <1>2, <1>3, <1>10 DEF TrackAutosave, Cleared, arrays
<1>11. CASE TrackClear
  BY <1>2, <1>11 DEF TrackClear, Cleared
<1>12. CASE \/ MasterAgent \/ SaveGpx \/ SetTrackInterval \/ ToggleSaveTrack
            \/ NextMinute \/ UNCHANGED vars
  BY <1>3, <1>12 DEF MasterAgent, SaveGpx, SetTrackInterval, ToggleSaveTrack,
                     NextMinute, arrays, vars
<1>13. QED
  BY <1>5, <1>7, <1>8, <1>9, <1>10, <1>11, <1>12 DEF Next

(* Whatever is recorded, broken off, loaded, zoomed and cleared: no        *)
(* segment is drawn whose end has not been written yet.  drawtracks may    *)
(* count in pairs because storepoint drops an odd last segment at a break  *)
(* (track.c:178-218, 305).                                                 *)
THEOREM NoOpenSegmentDrawn == Spec => []DrawnComplete
<1>1. Init => SegmentsEnd
  BY DEF Init, SegmentsEnd
<1>2. SegmentsEnd => DrawnComplete
  <2> SUFFICES ASSUME SegmentsEnd, NEW k \in 1 .. Drawn PROVE track[k].x2 # Unset
    BY DEF DrawnComplete
  <2>1. Len(track) \in Nat
    BY DEF SegmentsEnd
  <2>2. k \in 1 .. Len(track) - 1
    BY <2>1, HalfBounds DEF Drawn
  <2>3. track[k].x2.valid
    BY <2>2 DEF SegmentsEnd
  <2>4. QED
    BY <2>3 DEF Unset
<1>3. QED
  BY <1>1, <1>2, InitInv, NextInv, SegmentsStep, PTL DEF Spec

-----------------------------------------------------------------------------
(* The arrays and their room.                                              *)

\* Every set of natural numbers has a least member: what follows uses it in
\* the place of induction.
LEMMA LeastNumber ==
    ASSUME NEW S \in SUBSET Nat, S # {}
    PROVE  \E m \in S : \A k \in S : m <= k
<1> DEFINE R == OpToRel(<, Nat)
<1>1. IsWellFoundedOn(R, Nat)
  BY NatLessThanWellFounded
<1>2. \A x, y \in Nat : y < x => <<y, x>> \in R
  BY DEF OpToRel
<1> HIDE DEF R
<1>3. PICK m \in S : \A y \in S : ~(<<y, m>> \in R)
  BY <1>1, WFMin
<1>4. \A y \in S : ~(y < m)
  BY <1>2, <1>3
<1>5. QED
  BY <1>4

\* One turn of the loop of gettrackfile: the room for j points made of x.
Enlarged(x, j) == IF 2 * j > x - Margin THEN x + Chunk ELSE x

\* The first n turns of that loop, and how they begin.
Loops(n) ==
    {g \in [0 .. n -> Int] :
        g[0] = Chunk /\ \A j \in 1 .. n : g[j] = Enlarged(g[j - 1], j)}

LEMMA ChunkType == Chunk \in Nat /\ Margin \in Nat /\ 2 <= Chunk /\ Margin <= Chunk
BY TrackAssumption

LEMMA LoopsExist == \A n \in Nat : Loops(n) # {}
<1> DEFINE S == {n \in Nat : Loops(n) = {}}
<1>1. SUFFICES ASSUME S # {} PROVE FALSE
  OBVIOUS
<1>2. PICK m \in S : \A k \in S : m <= k
  BY <1>1, LeastNumber
<1>3. m \in Nat /\ Loops(m) = {}
  BY <1>2
<1>4. CASE m = 0
  <2> DEFINE g == [j \in 0 .. 0 |-> Chunk]
  <2>1. g \in [0 .. 0 -> Int] /\ g[0] = Chunk
    BY ChunkType
  <2>2. g \in Loops(0)
    BY <2>1 DEF Loops
  <2>3. QED
    BY <1>3, <1>4, <2>2
<1>5. CASE m # 0
  <2>1. m - 1 \in Nat /\ m - 1 \notin S
    BY <1>2, <1>3, <1>5
  <2>2. PICK g : g \in Loops(m - 1)
    BY <2>1
  <2>3. /\ g \in [0 .. m - 1 -> Int] /\ g[0] = Chunk
        /\ \A j \in 1 .. m - 1 : g[j] = Enlarged(g[j - 1], j)
    BY <2>2 DEF Loops
  <2> DEFINE h == [j \in 0 .. m |-> IF j = m THEN Enlarged(g[m - 1], m) ELSE g[j]]
  <2>4. Enlarged(g[m - 1], m) \in Int
    BY <1>3, <2>1, <2>3, ChunkType DEF Enlarged
  <2>5. /\ h \in [0 .. m -> Int]
        /\ h[m] = Enlarged(g[m - 1], m)
        /\ \A j \in 0 .. m - 1 : h[j] = g[j]
    BY <1>3, <2>3, <2>4
  <2> HIDE DEF h
  <2>6. \A j \in 1 .. m : h[j] = Enlarged(h[j - 1], j)
    <3>1. TAKE j \in 1 .. m
    <3>2. j - 1 \in 0 .. m - 1 /\ h[j - 1] = g[j - 1]
      BY <1>3, <2>5
    <3>3. CASE j = m
      BY <2>5, <3>2, <3>3
    <3>4. CASE j # m
      <4>1. j \in 1 .. m - 1 /\ j \in 0 .. m - 1
        BY <1>3, <3>4
      <4>2. QED
        BY <2>3, <2>5, <3>2, <4>1
    <3>5. QED
      BY <3>3, <3>4
  <2>7. 0 \in 0 .. m - 1
    BY <2>1
  <2>8. h \in Loops(m)
    BY <2>3, <2>5, <2>6, <2>7 DEF Loops
  <2>9. QED
    BY <1>3, <2>8
<1>6. QED
  BY <1>4, <1>5

\* A longer run of the loop begins like a shorter one.
LEMMA LoopsAgree ==
    ASSUME NEW n \in Nat, NEW m \in Nat, n <= m,
           NEW g \in Loops(n), NEW h \in Loops(m)
    PROVE  \A j \in 0 .. n : g[j] = h[j]
<1> DEFINE S == {j \in 0 .. n : g[j] # h[j]}
<1>1. SUFFICES ASSUME S # {} PROVE FALSE
  OBVIOUS
<1>2. PICK j \in S : \A k \in S : j <= k
  <2>1. S \in SUBSET Nat
    OBVIOUS
  <2> HIDE DEF S
  <2>2. QED
    BY <1>1, <2>1, LeastNumber
<1>3. j \in 0 .. n /\ g[j] # h[j]
  BY <1>2
<1>4. g[0] = Chunk /\ h[0] = Chunk
  BY DEF Loops
<1>5. j \in 1 .. n /\ j \in 1 .. m /\ j - 1 \in 0 .. n /\ j - 1 \notin S
  BY <1>2, <1>3, <1>4
<1>6. g[j] = Enlarged(g[j - 1], j) /\ h[j] = Enlarged(h[j - 1], j)
  BY <1>5 DEF Loops
<1>7. g[j - 1] = h[j - 1]
  BY <1>5
<1>8. QED
  BY <1>3, <1>6, <1>7

\* What the recursion of RoomFor computes.
LEMMA RoomForRecursion ==
    /\ RoomFor(0) = Chunk
    /\ \A n \in Nat \ {0} : RoomFor(n) = Enlarged(RoomFor(n - 1), n)
<1> DEFINE run == [n \in Nat |-> CHOOSE g : g \in Loops(n)]
           room == [n \in Nat |-> run[n][n]]
           Body(f) == [j \in Nat |->
                          IF j = 0 THEN Chunk
                          ELSE IF 2 * j > f[j - 1] - Margin THEN f[j - 1] + Chunk
                          ELSE f[j - 1]]
<1>1. \A n \in Nat : run[n] \in Loops(n)
  BY LoopsExist
<1>2. room[0] = Chunk
  BY <1>1 DEF Loops
<1>3. \A n \in Nat \ {0} : room[n] = Enlarged(room[n - 1], n)
  <2>1. TAKE n \in Nat \ {0}
  <2>2. n \in Nat /\ n - 1 \in Nat /\ n - 1 <= n /\ n \in 1 .. n /\ n - 1 \in 0 .. n - 1
    OBVIOUS
  <2>3. run[n] \in Loops(n) /\ run[n - 1] \in Loops(n - 1)
    BY <1>1, <2>2
  <2>4. room[n] = run[n][n] /\ room[n - 1] = run[n - 1][n - 1]
    BY <2>2
  <2> HIDE DEF run, room
  <2>5. run[n][n] = Enlarged(run[n][n - 1], n)
    BY <2>2, <2>3 DEF Loops
  <2>6. run[n - 1][n - 1] = run[n][n - 1]
    BY <2>2, <2>3, LoopsAgree
  <2>7. QED
    BY <2>4, <2>5, <2>6
<1>4. room = Body(room)
  <2>1. \A j \in Nat : room[j] = Body(room)[j]
    BY <1>2, <1>3 DEF Enlarged
  <2>2. room = [j \in Nat |-> room[j]] /\ Body(room) = [j \in Nat |-> Body(room)[j]]
    OBVIOUS
  <2>3. QED
    BY <2>1, <2>2
<1> HIDE DEF room
<1> DEFINE r == CHOOSE f : f = Body(f)
<1>5. r = Body(r)
  <2> HIDE DEF Body
  <2>1. \E f : f = Body(f)
    BY <1>4
  <2>2. QED
    BY <2>1
<1>6. \A n \in Nat : RoomFor(n) = r[n]
  BY DEF RoomFor
<1> HIDE DEF r
<1>7. r[0] = Chunk
  BY <1>5
<1>8. \A n \in Nat \ {0} : r[n] = Enlarged(r[n - 1], n)
  BY <1>5 DEF Enlarged
<1>9. QED
  BY <1>6, <1>7, <1>8

\* The loop of gettrackfile leaves room for twice the points and the margin.
LEMMA RoomForEnough ==
    \A n \in Nat : RoomFor(n) \in Nat /\ 2 * n + Margin <= RoomFor(n)
<1> DEFINE Good(n) == RoomFor(n) \in Nat /\ 2 * n + Margin <= RoomFor(n)
           S == {n \in Nat : ~Good(n)}
<1>1. SUFFICES ASSUME S # {} PROVE FALSE
  OBVIOUS
<1>2. PICK m \in S : \A k \in S : m <= k
  <2>1. S \in SUBSET Nat
    OBVIOUS
  <2> HIDE DEF S
  <2>2. QED
    BY <1>1, <2>1, LeastNumber
<1>3. m \in Nat /\ ~Good(m)
  BY <1>2
<1>4. m # 0
  BY <1>3, RoomForRecursion, ChunkType
<1>5. m - 1 \in Nat /\ Good(m - 1)
  BY <1>2, <1>3, <1>4
<1> DEFINE x == RoomFor(m - 1)
<1>6. RoomFor(m) = Enlarged(x, m)
  BY <1>3, <1>4, RoomForRecursion
<1>7. x \in Nat /\ 2 * (m - 1) + Margin <= x
  BY <1>5
<1> HIDE DEF x
<1>8. RoomFor(m) = IF 2 * m > x - Margin THEN x + Chunk ELSE x
  BY <1>6 DEF Enlarged
<1>9. RoomFor(m) \in Nat /\ 2 * m + Margin <= RoomFor(m)
  BY <1>3, <1>7, <1>8, ChunkType
<1>10. QED
  BY <1>3, <1>9

\* What the program relies on without checking: a GPX track fits into the
\* array that is allocated for it.
GpxTracksShort == \A f \in GpxFiles : Len(f) + 1 + Burst <= Chunk

\* There is always room for the points that may come before masteragent_cb.
RoomLeft ==
    /\ trackcoordlimit \in Nat /\ recent \in 0 .. Burst
    /\ Len(trackcoord) + Burst <= trackcoordlimit + recent

LEMMA SizeTypes ==
    /\ Start \in Nat /\ Chunk \in Nat /\ Growth \in Nat /\ Margin \in Nat
    /\ Burst \in Nat /\ 0 < Burst /\ Burst <= Margin /\ Margin <= Start
    /\ Margin <= Growth /\ Margin <= Chunk /\ 2 <= Chunk /\ Burst < Chunk
BY TrackAssumption

LEMMA RoomStep ==
    ASSUME GpxTracksShort, Inv, RoomLeft, [Next]_vars
    PROVE  RoomLeft'
<1>1. /\ trackcoord \in Seq(Point) /\ Len(trackcoord) \in Nat
      /\ trackcoordlimit \in Nat /\ recent \in Nat /\ recent <= Burst
      /\ Len(trackcoord) + Burst <= trackcoordlimit + recent
  BY SizeTypes DEF Inv, Types, RoomLeft
<1>2. CASE \E fix \in Fix : StoreTrack(fix)
  <2>1. /\ Len(trackcoord') = Len(trackcoord) + 1
        /\ recent' = recent + 1 /\ recent < Burst
        /\ trackcoordlimit' = trackcoordlimit
    BY <1>1, <1>2 DEF StoreTrack
  <2>2. QED
    BY <1>1, <2>1, SizeTypes DEF RoomLeft
<1>3. ASSUME NEW f \in Seq(Fix), NEW room \in Nat, Loaded(f, room),
             Len(f) + Burst <= room, recent' = recent
      PROVE  RoomLeft'
  <2>1. Len(trackcoord') = Len(f)
    BY <1>3 DEF Loaded, Numbered
  <2>2. trackcoordlimit' = room
    BY <1>3 DEF Loaded
  <2>3. QED
    BY <1>1, <1>3, <2>1, <2>2, SizeTypes DEF RoomLeft
<1>4. Break \in Fix /\ \A f \in Files \cup GpxFiles : f \in Seq(Fix)
  BY TrackAssumption DEF Fix
<1>5. ASSUME NEW f \in Seq(Fix)
      PROVE  /\ Append(f, Break) \in Seq(Fix) /\ Len(f) \in Nat
             /\ Len(Append(f, Break)) = Len(f) + 1
  BY <1>4
<1>6. ASSUME NEW f \in Files, GetTrackFile(f) PROVE RoomLeft'
  <2>1. /\ f \in Seq(Fix) /\ Append(f, Break) \in Seq(Fix) /\ Len(f) \in Nat
        /\ Len(Append(f, Break)) = Len(f) + 1
    BY <1>4, <1>5
  <2>2. RoomFor(Len(f)) \in Nat /\ 2 * Len(f) + Margin <= RoomFor(Len(f))
    BY <2>1, RoomForEnough
  <2>3. Len(f) + 1 + Burst <= RoomFor(Len(f))
    <3>1. CASE Len(f) = 0
      BY <3>1, RoomForRecursion, SizeTypes
    <3>2. CASE Len(f) # 0
      BY <2>1, <2>2, <3>2, SizeTypes
    <3>3. QED
      BY <3>1, <3>2
  <2>4. Loaded(Append(f, Break), RoomFor(Len(f))) /\ recent' = recent
    BY <1>6 DEF GetTrackFile
  <2>5. QED
    BY <1>3, <2>1, <2>2, <2>3, <2>4
<1>7. ASSUME NEW f \in GpxFiles, GpxRead(f) PROVE RoomLeft'
  <2> DEFINE g == IF f = <<>> THEN f ELSE Append(f, Break)
  <2>1. f \in Seq(Fix) /\ Len(f) \in Nat /\ Len(f) + 1 + Burst <= Chunk
    BY <1>4, <1>5 DEF GpxTracksShort
  <2>2. g \in Seq(Fix) /\ Len(g) \in Nat /\ Len(g) <= Len(f) + 1
    BY <1>5, <2>1
  <2>3. Loaded(g, Chunk) /\ recent' = recent
    BY <1>7 DEF GpxRead
  <2> HIDE DEF g
  <2>4. Len(g) + Burst <= Chunk
    BY <2>1, <2>2, SizeTypes
  <2>5. QED
    BY <1>3, <2>2, <2>3, <2>4, SizeTypes
<1>8. ASSUME Cleared, recent' = recent PROVE RoomLeft'
  <2>1. Len(trackcoord') = 0 /\ trackcoordlimit' = Chunk
    BY <1>8 DEF Cleared
  <2>2. QED
    BY <1>1, <1>8, <2>1, SizeTypes DEF RoomLeft
<1>9. ASSUME UNCHANGED <<trackcoord, trackcoordlimit, recent>> PROVE RoomLeft'
  BY <1>9 DEF RoomLeft
<1>10. CASE MasterAgent
  <2>1. /\ trackcoord' = trackcoord /\ recent' = 0
        /\ trackcoordlimit' =
             IF Len(trackcoord) > trackcoordlimit - Margin
             THEN trackcoordlimit + Growth ELSE trackcoordlimit
    BY <1>10 DEF MasterAgent
  <2>2. QED
    BY <1>1, <2>1, SizeTypes DEF RoomLeft
<1>11. ASSUME NEW clear \in BOOLEAN, TrackAutosave(clear) PROVE RoomLeft'
  BY <1>8, <1>9, <1>11 DEF TrackAutosave, arrays
<1>12. CASE TrackClear
  BY <1>8, <1>12 DEF TrackClear
<1>13. CASE \/ ViewChanged \/ SaveGpx \/ SetTrackInterval \/ ToggleSaveTrack
            \/ NextMinute \/ UNCHANGED vars
  BY <1>9, <1>13 DEF ViewChanged, SaveGpx, SetTrackInterval, ToggleSaveTrack,
                     NextMinute, arrays, vars
<1>14. QED
  BY <1>2, <1>6, <1>7, <1>10, <1>11, <1>12, <1>13 DEF Next

(* The points never outgrow their array although it is enlarged by a timer *)
(* and not where points are stored (gpsdrive.c:721-727), and whatever the  *)
(* length of the track files that gettrackfile reads (track.c:615-630);    *)
(* GPX tracks have to fit, since nothing is enlarged for them.             *)
THEOREM PointsHaveRoom ==
    ASSUME GpxTracksShort
    PROVE  Spec => []PointsFit
<1>1. Init => RoomLeft
  BY SizeTypes DEF Init, RoomLeft
<1>2. Inv /\ RoomLeft => PointsFit
  <2> SUFFICES ASSUME Inv, RoomLeft PROVE PointsFit
    OBVIOUS
  <2>1. Len(trackcoord) \in Nat
    BY DEF Inv, Types
  <2>2. QED
    BY <2>1, SizeTypes DEF RoomLeft, PointsFit
<1>3. Inv /\ RoomLeft /\ [Next]_vars => RoomLeft'
  BY RoomStep
<1>4. QED
  BY <1>1, <1>2, <1>3, InitInv, NextInv, PTL DEF Spec

=============================================================================
