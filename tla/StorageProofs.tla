----------------------------- MODULE StorageProofs -----------------------------
(***************************************************************************)
(* Theorems about what is kept on the disk: the file of maps (MapStore),   *)
(* for all maps, directories and bounds, and the settings with their file  *)
(* (Settings), for all groups of settings.  What others write to the file  *)
(* of maps is never overlooked, and a download never takes a map out of    *)
(* it; settings that are marked are saved, and shown as they are.          *)
(***************************************************************************)
EXTENDS MapStore, Settings, SequenceTheorems, WellFoundedInduction, TLAPS

-----------------------------------------------------------------------------
(* What others wrote is never overlooked.                                  *)

\* No NASA maps are made, and nobody writes in the second of the stamp.
Careful == HaveNasa = FALSE /\ SameSecond = FALSE

\* The directory is one of those that have a file, which InSync reads.
Inv ==
    /\ dir \in Dirs
    /\ DOMAIN files = Dirs /\ DOMAIN mtime = Dirs
    /\ InSync

LEMMA InitInv == Init => Inv
BY MapStoreAssumption DEF Init, Inv, InSync, Matches, Contents, MapStoreAssumption

\* After a read the list is that of the file, or the guard is set.
LEMMA LoadInv ==
    ASSUME Inv, Load, UNCHANGED dir
    PROVE  Inv'
<1>1. CASE CanLoad
  BY <1>1 DEF Load, CanLoad, Contents, Inv, InSync, Matches
<1>2. CASE ~CanLoad
  BY <1>2 DEF Load, CanLoad, disk, Inv, InSync, Matches, Contents
<1> QED BY <1>1, <1>2

\* After a write the file is the list, or the program has ended.
LEMMA SaveInv ==
    ASSUME Inv, Save(maps'), UNCHANGED dir
    PROVE  Inv'
BY DEF Save, Inv, InSync, Matches, Contents, disk

\* A step that leaves the list, the file and the flags alone.
LEMMA UntouchedInv ==
    ASSUME Inv, UNCHANGED <<disk, dir, maps, stamp, needreload, loading, running>>
    PROVE  Inv'
BY DEF disk, Inv, InSync, Matches, Contents

LEMMA Append_koordsInv ==
    ASSUME Careful, Inv, NEW d \in Dirs, NEW n \in Maps, Append_koords(d, n)
    PROVE  Inv'
BY DEF Careful, Append_koords, Contents, Inv, InSync, Matches, state

LEMMA CheckAndReloadInv ==
    ASSUME Inv, NEW st, CheckAndReload(st)
    PROVE  Inv'
<1>1. CASE (needreload \/ st # stamp) /\ ~asking
  BY <1>1, LoadInv DEF CheckAndReload
<1>2. CASE ~((needreload \/ st # stamp) /\ ~asking)
  BY <1>2 DEF CheckAndReload, Inv, InSync, Matches, Contents, disk
<1> QED BY <1>1, <1>2

LEMMA DownloadInv ==
    ASSUME Inv, NEW n \in Maps, NEW ok \in BOOLEAN, Download(n, ok)
    PROVE  Inv'
<1>1. CASE ok \/ n \in pictures[dir]
  BY <1>1, SaveInv DEF Download
<1>2. CASE ~(ok \/ n \in pictures[dir])
  BY <1>2, UntouchedInv DEF Download
<1> QED BY <1>1, <1>2

\* Without the pictures of the NASA none is being made.
LEMMA NoCropStep ==
    ASSUME HaveNasa = FALSE, cropping = 0, [Next]_vars
    PROVE  cropping' = 0
BY DEF Next, vars, crop, Tick, Append_koords, CheckAndReload, LoadLater,
       SetMapDir, Restart, StartDownload, Download, KeepMap, OverwriteMap,
       OpenImport, CloseImport, Import, CrashInSave, BeginNasa, SkipNasa, EndNasa

\* One step per action.
LEMMA NextInv ==
    ASSUME Careful, cropping = 0, Inv, [Next]_vars
    PROVE  Inv'
<1>1. CASE UNCHANGED vars
  BY <1>1, UntouchedInv DEF vars, state
<1>2. CASE Tick
  BY <1>2, UntouchedInv DEF Tick, state
<1>3. ASSUME NEW d \in Dirs, NEW n \in Maps, Append_koords(d, n) PROVE Inv'
  BY <1>3, Append_koordsInv
<1>4. ASSUME NEW st \in 0 .. MaxTime, CheckAndReload(st) PROVE Inv'
  BY <1>4, CheckAndReloadInv
<1>5. CASE LoadLater
  BY <1>5, LoadInv DEF LoadLater
<1>6. ASSUME NEW d \in Dirs, SetMapDir(d) PROVE Inv'
  BY <1>6 DEF SetMapDir, Inv, InSync, disk
<1>7. ASSUME NEW d \in Dirs, Restart(d) PROVE Inv'
  BY <1>7 DEF Restart, Inv, InSync, Matches, Contents
<1>8. ASSUME NEW n \in Maps, NEW ok \in BOOLEAN, StartDownload(n, ok) PROVE Inv'
  <2>1. CASE n \in pictures[dir]
    BY <1>8, <2>1, UntouchedInv DEF StartDownload, state
  <2>2. CASE n \notin pictures[dir]
    BY <1>8, <2>2, DownloadInv DEF StartDownload
  <2> QED BY <2>1, <2>2
<1>9. CASE KeepMap
  BY <1>9, UntouchedInv DEF KeepMap, state
<1>10. ASSUME NEW ok \in BOOLEAN, OverwriteMap(ok) PROVE Inv'
  BY <1>10, SaveInv, UntouchedInv DEF OverwriteMap, Download
<1>11. CASE OpenImport \/ CloseImport
  BY <1>11, UntouchedInv DEF OpenImport, CloseImport, state
<1>12. ASSUME NEW n \in Maps, Import(n) PROVE Inv'
  BY <1>12, SaveInv DEF Import
<1>13. ASSUME NEW ok \in BOOLEAN, BeginNasa(ok) PROVE Inv'
  BY <1>13 DEF BeginNasa, Careful
<1>14. CASE SkipNasa \/ EndNasa
  BY <1>14 DEF SkipNasa, EndNasa, Careful
<1>15. ASSUME NEW n \in Maps, NEW k \in 0 .. MaxMaps, CrashInSave(n, k) PROVE Inv'
  BY <1>15 DEF CrashInSave, SaveCrashes, Inv, InSync
<1> QED
  BY <1>1, <1>2, <1>3, <1>4, <1>5, <1>6, <1>7, <1>8, <1>9, <1>10, <1>11, <1>12,
     <1>13, <1>14, <1>15 DEF Next

\* map_koord_check_and_reload overlooks nothing: as long as no NASA maps are
\* made and nobody writes the file within the second of the stamp, the list is
\* that of the file whenever the stamp is, for every number of maps,
\* directories, windows and pending timers.
THEOREM NothingOverlooked == Careful => (Spec => []InSync)
<1> SUFFICES ASSUME Careful PROVE Spec => []InSync
  OBVIOUS
<1> USE DEF Careful
<1>1. Init => Inv /\ cropping = 0
  BY InitInv DEF Init
<1>2. (Inv /\ cropping = 0) /\ [Next]_vars => (Inv /\ cropping = 0)'
  BY NextInv, NoCropStep
<1>3. Inv => InSync
  BY DEF Inv
<1> QED BY <1>1, <1>2, <1>3, PTL DEF Spec

-----------------------------------------------------------------------------
(* The loop that deletes the entries of NASA maps.                         *)

\* The least of a set of numbers.
LEMMA LeastNumber ==
    ASSUME NEW S \in SUBSET Nat, S # {}
    PROVE  \E m \in S : \A k \in S : m <= k
<1> DEFINE R == OpToRel(<, Nat)
<1>1. IsWellFoundedOn(R, Nat)
  BY NatLessThanWellFounded
<1>2. \A x, y \in Nat : y < x => <<y, x>> \in R
  BY DEF OpToRel
<1> HIDE DEF R
<1>3. PICK m \in S : \A y \in S : ~(<<y, m>> \in R)
  BY <1>1, WFMin
<1>4. \A y \in S : ~(y < m)
  BY <1>2, <1>3
<1> QED BY <1>4

\* What the first m turns of a loop leave, whose turn i makes step[i][x] of x.
Turns(T, first, step, m) ==
    {f \in [0 .. m -> T] : f[0] = first /\ \A i \in 1 .. m : f[i] = step[i][f[i - 1]]}

LEMMA TurnsExist ==
    ASSUME NEW T, NEW first \in T, NEW n \in Nat, NEW step \in [1 .. n -> [T -> T]]
    PROVE  Turns(T, first, step, n) # {}
<1> DEFINE S == {m \in 0 .. n : Turns(T, first, step, m) = {}}
<1>1. SUFFICES ASSUME S # {} PROVE FALSE
  OBVIOUS
<1>2. PICK m \in S : \A k \in S : m <= k
  <2>1. S \in SUBSET Nat
    OBVIOUS
  <2> HIDE DEF S
  <2> QED BY <1>1, <2>1, LeastNumber
<1>3. m \in 0 .. n /\ Turns(T, first, step, m) = {}
  BY <1>2
<1>4. CASE m = 0
  <2> DEFINE g == [i \in 0 .. 0 |-> first]
  <2>1. g \in Turns(T, first, step, 0)
    BY DEF Turns
  <2> QED BY <1>3, <1>4, <2>1
<1>5. CASE m # 0
  <2>1. m \in Nat /\ m \in 1 .. n /\ m - 1 \in Nat /\ m - 1 \in 0 .. n /\ m - 1 \notin S
    BY <1>2, <1>3, <1>5
  <2>2. PICK g : g \in Turns(T, first, step, m - 1)
    BY <2>1
  <2>3. /\ g \in [0 .. m - 1 -> T] /\ g[0] = first
        /\ \A i \in 1 .. m - 1 : g[i] = step[i][g[i - 1]]
    BY <2>2 DEF Turns
  <2> HIDE DEF S
  <2> DEFINE last == step[m][g[m - 1]]
             h == [i \in 0 .. m |-> IF i = m THEN last ELSE g[i]]
  <2>4. last \in T
    <3>1. g[m - 1] \in T
      BY <2>1, <2>3
    <3>2. step[m] \in [T -> T]
      BY <2>1
    <3> QED BY <3>1, <3>2
  <2>5. h \in [0 .. m -> T] /\ h[m] = last /\ \A i \in 0 .. m - 1 : h[i] = g[i]
    <3> HIDE DEF last
    <3> QED BY <2>1, <2>3, <2>4
  <2> HIDE DEF h
  <2>6. h[0] = first
    BY <2>1, <2>3, <2>5
  <2>7. \A i \in 1 .. m : h[i] = step[i][h[i - 1]]
    <3>1. TAKE i \in 1 .. m
    <3>2. i - 1 \in 0 .. m - 1 /\ h[i - 1] = g[i - 1]
      BY <2>1, <2>5
    <3>3. CASE i = m
      BY <2>5, <3>2, <3>3
    <3>4. CASE i # m
      <4>1. i \in 1 .. m - 1 /\ i \in 0 .. m - 1
        BY <2>1, <3>4
      <4> QED BY <2>3, <2>5, <3>2, <4>1
    <3> QED BY <3>3, <3>4
  <2>8. h \in Turns(T, first, step, m)
    BY <2>5, <2>6, <2>7 DEF Turns
  <2> QED BY <1>3, <2>8
<1> QED BY <1>4, <1>5

\* What is left of a list is a list of its entries.
LEMMA WithoutNasaType ==
    ASSUME NEW S, NEW ms \in Seq(S)
    PROVE  WithoutNasa(ms) \in Seq(S)
<1> DEFINE n == Len(ms)
           T == Seq(S)
           Row == CHOOSE f : f = [i \in 0 .. n |->
                     IF i = 0 \/ ms[i] # Nasa THEN 0 ELSE f[i - 1] + 1]
           Body(f) == [i \in 0 .. n |->
                          IF i = 0 THEN <<>>
                          ELSE IF Row[i] % 2 = 1 THEN f[i - 1] ELSE Append(f[i - 1], ms[i])]
           First == CHOOSE f : f = Body(f)
<1>1. WithoutNasa(ms) = First[n]
  BY DEF WithoutNasa
<1>2. n \in Nat /\ \A i \in 1 .. n : ms[i] \in S
  OBVIOUS
<1>3. <<>> \in T /\ \A x \in T, i \in 1 .. n : Append(x, ms[i]) \in T
  BY <1>2
<1> HIDE DEF n, T, Row
<1>4. \E f : f = Body(f)
  <2> DEFINE step == [i \in 1 .. n |->
                         [x \in T |-> IF Row[i] % 2 = 1 THEN x ELSE Append(x, ms[i])]]
  <2>1. step \in [1 .. n -> [T -> T]]
    BY <1>3
  <2>2. PICK f : f \in Turns(T, <<>>, step, n)
    <3>1. n \in Nat /\ <<>> \in T
      BY <1>2, <1>3
    <3> HIDE DEF step
    <3> DEFINE runs == Turns(T, <<>>, step, n)
    <3>2. runs # {}
      BY <2>1, <3>1, TurnsExist, Zenon
    <3> HIDE DEF runs
    <3>3. \E f : f \in runs
      BY <3>2
    <3> QED BY <3>3 DEF runs
  <2>3. f \in [0 .. n -> T] /\ f[0] = <<>> /\ \A i \in 1 .. n : f[i] = step[i][f[i - 1]]
    BY <2>2 DEF Turns
  <2>4. \A i \in 1 .. n :
            f[i] = IF Row[i] % 2 = 1 THEN f[i - 1] ELSE Append(f[i - 1], ms[i])
    <3>1. TAKE i \in 1 .. n
    <3>2. f[i - 1] \in T
      BY <1>2, <2>3
    <3> QED BY <2>3, <3>2
  <2>5. \A i \in 0 .. n : f[i] = Body(f)[i]
    <3>1. TAKE i \in 0 .. n
    <3>2. CASE i = 0
      BY <2>3, <3>2
    <3>3. CASE i # 0
      <4>1. i \in 1 .. n
        BY <1>2, <3>3
      <4> QED BY <2>4, <3>3, <4>1
    <3> QED BY <3>2, <3>3
  <2>6. f = [i \in 0 .. n |-> f[i]] /\ Body(f) = [i \in 0 .. n |-> Body(f)[i]]
    BY <2>3
  <2>7. f = Body(f)
    BY <2>5, <2>6
  <2> HIDE DEF Body
  <2> QED BY <2>7
<1>5. First = Body(First)
  <2> HIDE DEF Body
  <2> QED BY <1>4
<1> HIDE DEF First
<1>6. /\ First[0] = <<>>
      /\ \A i \in 1 .. n :
            First[i] = IF Row[i] % 2 = 1 THEN First[i - 1] ELSE Append(First[i - 1], ms[i])
  <2>1. \A g : \A i \in 0 .. n :
            Body(g)[i] = IF i = 0 THEN <<>>
                         ELSE IF Row[i] % 2 = 1 THEN g[i - 1] ELSE Append(g[i - 1], ms[i])
    OBVIOUS
  <2> HIDE DEF Body
  <2>2. \A i \in 0 .. n : First[i] = Body(First)[i]
    BY <1>5
  <2>3. \A i \in 0 .. n :
            First[i] = IF i = 0 THEN <<>>
                       ELSE IF Row[i] % 2 = 1 THEN First[i - 1] ELSE Append(First[i - 1], ms[i])
    BY <2>1, <2>2
  <2>4. 0 \in 0 .. n /\ \A i \in 1 .. n : i \in 0 .. n /\ i # 0
    BY <1>2
  <2> QED BY <2>3, <2>4
<1> HIDE DEF Body
<1> DEFINE Bad == {i \in 0 .. n : First[i] \notin T}
<1>7. Bad = {}
  <2>1. SUFFICES ASSUME Bad # {} PROVE FALSE
    OBVIOUS
  <2>2. PICK m \in Bad : \A k \in Bad : m <= k
    <3>1. Bad \in SUBSET Nat
      BY <1>2
    <3> HIDE DEF Bad
    <3> QED BY <2>1, <3>1, LeastNumber
  <2>3. m \in 0 .. n /\ First[m] \notin T
    BY <2>2
  <2>4. m # 0
    BY <1>3, <1>6, <2>3
  <2>5. m \in 1 .. n /\ m - 1 \in 0 .. n /\ m - 1 \notin Bad
    BY <1>2, <2>2, <2>3, <2>4
  <2>6. First[m - 1] \in T
    BY <2>5
  <2> QED BY <1>3, <1>6, <2>3, <2>5, <2>6
<1>8. First[n] \in T
  BY <1>2, <1>7
<1> QED BY <1>1, <1>8 DEF T

\* In particular it has no map the list did not have.
LEMMA WithoutNasaNames ==
    ASSUME NEW ms \in Seq(Names)
    PROVE  /\ WithoutNasa(ms) \in Seq(Names)
           /\ ToSet(WithoutNasa(ms)) \subseteq ToSet(ms)
<1>1. WithoutNasa(ms) \in Seq(Names)
  BY WithoutNasaType
<1>2. ms \in Seq(ToSet(ms))
  BY DEF ToSet
<1>3. WithoutNasa(ms) \in Seq(ToSet(ms))
  BY <1>2, WithoutNasaType
<1> HIDE DEF ToSet
<1>4. \A S : \A s \in Seq(S) : ToSet(s) \subseteq S
  BY DEF ToSet
<1> QED BY <1>1, <1>3, <1>4

-----------------------------------------------------------------------------
(* A download never takes a map out of the file.                           *)

IsFiles(f) == DOMAIN f = Dirs /\ \A d \in Dirs : f[d] = NoMaps \/ f[d] \in Seq(Names)

\* Files and the list are sequences of names.
Types ==
    /\ IsFiles(files) /\ dir \in Dirs
    /\ maps \in Seq(Names) /\ wanted \in Maps
    /\ imports \in Nat

LEMMA AppendKeeps ==
    ASSUME NEW s \in Seq(Names), NEW n \in Maps
    PROVE  Append(s, n) \in Seq(Names) /\ ToSet(s) \subseteq ToSet(Append(s, n))
BY DEF ToSet, Names

LEMMA ContentsType ==
    ASSUME IsFiles(files), NEW d \in Dirs
    PROVE  Contents(d) \in Seq(Names)
BY DEF IsFiles, Contents

LEMMA LoadTypes ==
    ASSUME Types, Load
    PROVE  IsFiles(files') /\ maps' \in Seq(Names)
BY ContentsType DEF Types, IsFiles, Load, disk

LEMMA SaveTypes ==
    ASSUME Types, maps' \in Seq(Names), Save(maps')
    PROVE  IsFiles(files')
BY DEF Types, IsFiles, Save, disk

LEMMA CrashTypes ==
    ASSUME Types, NEW n \in Maps, NEW k \in 0 .. MaxMaps, CrashInSave(n, k)
    PROVE  Types'
<1>1. PICK ms \in Seq(Names) : SaveCrashes(ms, k)
  BY AppendKeeps, ContentsType DEF CrashInSave, Types
<1>2. SubSeq(ms, 1, k) \in Seq(Names)
  BY <1>1 DEF SaveCrashes
<1>3. IsFiles(files')
  BY <1>1, <1>2 DEF SaveCrashes, Types, IsFiles
<1> QED BY <1>3 DEF CrashInSave, Types, windows

LEMMA DownloadTypes ==
    ASSUME Types, NEW n \in Maps, NEW ok \in BOOLEAN, Download(n, ok)
    PROVE  IsFiles(files') /\ maps' \in Seq(Names) /\ UNCHANGED <<dir, imports>>
<1>1. CASE ok \/ n \in pictures[dir]
  <2>1. (IF CanLoad THEN Contents(dir) ELSE maps) \in Seq(Names)
    BY ContentsType DEF Types
  <2>2. maps' \in Seq(Names) /\ Save(maps')
    BY <1>1, <2>1, AppendKeeps DEF Download
  <2> QED BY <1>1, <2>2, SaveTypes DEF Download
<1>2. CASE ~(ok \/ n \in pictures[dir])
  BY <1>2 DEF Download, Types, disk
<1> QED BY <1>1, <1>2

LEMMA InitTypes == Init => Types
<1> SUFFICES ASSUME Init PROVE Types
  OBVIOUS
<1>1. PICK f \in {<<>>} \cup {<<n>> : n \in Maps} :
        files = [d \in Dirs |-> IF d = HomeDir THEN f ELSE NoMaps] /\ maps = f
  BY DEF Init
<1>2. f \in Seq(Names)
  <2>1. CASE f = <<>>
    BY <2>1
  <2>2. ASSUME NEW n \in Maps, f = <<n>> PROVE f \in Seq(Names)
    BY <2>2 DEF Names
  <2> QED BY <2>1, <2>2
<1> QED BY <1>1, <1>2, MapStoreAssumption DEF Init, Types, IsFiles, MapStoreAssumption

\* What create_nasa does to the list: it puts no map there but its own.
LEMMA NasaTypes ==
    ASSUME maps \in Seq(Names), (\E ok \in BOOLEAN : BeginNasa(ok)) \/ SkipNasa \/ EndNasa
    PROVE  /\ maps' \in Seq(Names)
           /\ ToSet(maps') \subseteq ToSet(maps) \cup {Nasa, NoFile, Unwritten}
<1>1. ASSUME NEW ok \in BOOLEAN, BeginNasa(ok)
      PROVE  /\ maps' \in Seq(Names)
             /\ ToSet(maps') \subseteq ToSet(maps) \cup {NoFile, Unwritten}
  <2> DEFINE ms == WithoutNasa(maps)
  <2>1. ms \in Seq(Names) /\ ToSet(ms) \subseteq ToSet(maps)
    BY WithoutNasaNames
  <2>2. PICK n \in {NoFile, Unwritten} : maps' = Append(ms, n)
    BY <1>1 DEF BeginNasa
  <2> HIDE DEF ms
  <2>3. Append(ms, n) \in Seq(Names) /\ ToSet(Append(ms, n)) \subseteq ToSet(ms) \cup {n}
    BY <2>1 DEF ToSet, Names
  <2> QED BY <2>1, <2>2, <2>3
<1>2. CASE EndNasa
  <2>1. maps' = [i \in 1 .. Len(maps) |-> IF i = cropping THEN Nasa ELSE maps[i]]
    BY <1>2 DEF EndNasa
  <2>2. \A i \in 1 .. Len(maps) : maps[i] \in Names
    OBVIOUS
  <2>3. maps' \in Seq(Names) /\ Len(maps') = Len(maps)
    BY <2>1, <2>2 DEF Names
  <2>4. \A i \in 1 .. Len(maps) : maps'[i] \in {maps[i], Nasa}
    BY <2>1
  <2> QED BY <2>3, <2>4 DEF ToSet
<1>3. CASE SkipNasa
  BY <1>3, WithoutNasaNames DEF SkipNasa
<1> QED BY <1>1, <1>2, <1>3

\* One step per action.
LEMMA NextTypes ==
    ASSUME Types, [Next]_vars
    PROVE  Types'
<1>1. CASE UNCHANGED vars
  BY <1>1 DEF vars, windows, disk, Types, IsFiles
<1>2. CASE Tick
  BY <1>2 DEF Tick, windows, disk, Types, IsFiles
<1>3. ASSUME NEW d \in Dirs, NEW n \in Maps, Append_koords(d, n) PROVE Types'
  <2>1. Append(Contents(d), n) \in Seq(Names)
    BY ContentsType, AppendKeeps DEF Types
  <2> QED BY <1>3, <2>1 DEF Append_koords, windows, Types, IsFiles
<1>4. ASSUME NEW st \in 0 .. MaxTime, CheckAndReload(st) PROVE Types'
  <2>1. CASE (needreload \/ st # stamp) /\ ~asking
    BY <1>4, <2>1, LoadTypes DEF CheckAndReload, windows, Types
  <2>2. CASE ~((needreload \/ st # stamp) /\ ~asking)
    BY <1>4, <2>2 DEF CheckAndReload, windows, disk, Types, IsFiles
  <2> QED BY <2>1, <2>2
<1>5. CASE LoadLater
  BY <1>5, LoadTypes DEF LoadLater, windows, Types
<1>6. ASSUME NEW d \in Dirs, SetMapDir(d) PROVE Types'
  BY <1>6 DEF SetMapDir, windows, disk, Types, IsFiles
<1>7. ASSUME NEW d \in Dirs, Restart(d) PROVE Types'
  BY <1>7, ContentsType DEF Restart, Types, IsFiles
<1>8. ASSUME NEW n \in Maps, NEW ok \in BOOLEAN, StartDownload(n, ok) PROVE Types'
  <2>1. CASE n \in pictures[dir]
    BY <1>8, <2>1 DEF StartDownload, disk, Types, IsFiles
  <2>2. CASE n \notin pictures[dir]
    BY <1>8, <2>2, DownloadTypes DEF StartDownload, Types
  <2> QED BY <2>1, <2>2
<1>9. CASE KeepMap
  BY <1>9 DEF KeepMap, disk, Types, IsFiles
<1>10. ASSUME NEW ok \in BOOLEAN, OverwriteMap(ok) PROVE Types'
  <2>1. wanted \in Maps /\ Download(wanted, ok) /\ wanted' = wanted
    BY <1>10 DEF OverwriteMap, Types
  <2> QED BY <2>1, DownloadTypes DEF Types
<1>11. CASE OpenImport \/ CloseImport
  BY <1>11 DEF OpenImport, CloseImport, disk, Types, IsFiles
<1>12. ASSUME NEW n \in Maps, Import(n) PROVE Types'
  <2>1. maps' \in Seq(Names) /\ Save(maps')
    BY <1>12, AppendKeeps DEF Import, Types
  <2> QED BY <1>12, <2>1, SaveTypes DEF Import, Types
<1>13. CASE (\E ok \in BOOLEAN : BeginNasa(ok)) \/ SkipNasa \/ EndNasa
  <2>1. maps' \in Seq(Names)
    BY <1>13, NasaTypes DEF Types
  <2> QED BY <1>13, <2>1 DEF BeginNasa, SkipNasa, EndNasa, windows, disk, Types, IsFiles
<1>14. ASSUME NEW n \in Maps, NEW k \in 0 .. MaxMaps, CrashInSave(n, k) PROVE Types'
  BY <1>14, CrashTypes
<1> QED
  BY <1>1, <1>2, <1>3, <1>4, <1>5, <1>6, <1>7, <1>8, <1>9, <1>10, <1>11, <1>12,
     <1>13, <1>14 DEF Next

\* What DownloadKeeps says of one step.
Keeps == \A d \in Dirs : files[d] # NoMaps => ToSet(files[d]) \subseteq ToSet(files'[d])

LEMMA LoadKeeps ==
    ASSUME Types, Load
    PROVE  Keeps
BY DEF Types, IsFiles, Keeps, Load, Contents, disk

\* The map comes behind what was read.
LEMMA DownloadMapKeeps ==
    ASSUME Types, ~loading, NEW n \in Maps, NEW ok \in BOOLEAN, Download(n, ok)
    PROVE  Keeps
<1>1. CASE UNCHANGED files
  BY <1>1 DEF Keeps
<1>2. CASE files' # files
  <2>1. dir \notin ReadOnly /\ Save(maps') /\ CanLoad
    BY <1>2 DEF Download, Save, disk, CanLoad
  <2>2. maps' = Append(Contents(dir), n)
    BY <1>2, <2>1 DEF Download, disk
  <2>3. files' = [files EXCEPT ![dir] = Append(Contents(dir), n)]
    BY <2>1, <2>2 DEF Save
  <2>4. ToSet(Contents(dir)) \subseteq ToSet(Append(Contents(dir), n))
    BY ContentsType, AppendKeeps DEF Types
  <2> QED BY <2>3, <2>4 DEF Keeps, Types, IsFiles, Contents
<1> QED BY <1>1, <1>2

LEMMA NextKeeps ==
    ASSUME Types, [Next]_vars, imports' = imports, ~loading, running'
    PROVE  Keeps
<1>1. CASE UNCHANGED files
  BY <1>1 DEF Keeps
<1>2. ASSUME NEW d \in Dirs, NEW n \in Maps, Append_koords(d, n) PROVE Keeps
  <2>1. ToSet(Contents(d)) \subseteq ToSet(Append(Contents(d), n))
    BY ContentsType, AppendKeeps DEF Types
  <2> QED BY <1>2, <2>1 DEF Append_koords, Keeps, Types, IsFiles, Contents
<1>3. ASSUME NEW st \in 0 .. MaxTime, CheckAndReload(st) PROVE Keeps
  <2>1. CASE (needreload \/ st # stamp) /\ ~asking
    BY <1>3, <2>1, LoadKeeps DEF CheckAndReload
  <2>2. CASE ~((needreload \/ st # stamp) /\ ~asking)
    BY <1>3, <2>2, <1>1 DEF CheckAndReload, disk
  <2> QED BY <2>1, <2>2
<1>4. CASE LoadLater
  BY <1>4, LoadKeeps DEF LoadLater
<1>5. ASSUME NEW d \in Dirs, Restart(d) PROVE Keeps
  BY <1>5 DEF Restart, Keeps, Types, IsFiles, Contents
<1>6. ASSUME NEW n \in Maps, NEW ok \in BOOLEAN, StartDownload(n, ok) PROVE Keeps
  BY <1>6, <1>1, DownloadMapKeeps DEF StartDownload, disk
<1>7. ASSUME NEW ok \in BOOLEAN, OverwriteMap(ok) PROVE Keeps
  BY <1>7, DownloadMapKeeps DEF OverwriteMap, Types
<1>8. ASSUME NEW n \in Maps, Import(n) PROVE Keeps
  BY <1>8 DEF Import, Types
<1>9. CASE Tick \/ (\E d \in Dirs : SetMapDir(d)) \/ KeepMap \/ OpenImport
           \/ CloseImport \/ (\E ok \in BOOLEAN : BeginNasa(ok)) \/ SkipNasa \/ EndNasa
  BY <1>9, <1>1 DEF Tick, SetMapDir, KeepMap, OpenImport, CloseImport, BeginNasa,
     SkipNasa, EndNasa, disk
<1>10. CASE UNCHANGED vars
  BY <1>10, <1>1 DEF vars, disk
<1>11. ASSUME NEW n \in Maps, NEW k \in 0 .. MaxMaps, CrashInSave(n, k) PROVE Keeps
  BY <1>11 DEF CrashInSave, SaveCrashes
<1> QED
  BY <1>2, <1>3, <1>4, <1>5, <1>6, <1>7, <1>8, <1>9, <1>10, <1>11 DEF Next

\* mapdl_download never takes a map out of the file, and neither does any other
\* step of a program that goes on but the import: for all maps, directories and bounds,
\* also while NASA maps are made, whose unfinished entries are in the list only.
THEOREM DownloadsKeepMaps == Spec => DownloadKeeps
<1>1. Types /\ [Next]_vars => [imports' = imports /\ ~loading /\ running' => Keeps]_vars
  BY NextKeeps
<1> QED BY <1>1, InitTypes, NextTypes, PTL DEF Spec, DownloadKeeps, Keeps

-----------------------------------------------------------------------------
(* The list has no map that the file has not.                              *)

LEMMA LoadNoPhantom ==
    ASSUME Types, Load, UNCHANGED dir
    PROVE  NoPhantom'
BY DEF Types, IsFiles, Load, NoPhantom, Contents

LEMMA SaveNoPhantom ==
    ASSUME Types, maps' \in Seq(Names), Save(maps'), UNCHANGED dir
    PROVE  NoPhantom'
<1>1. CASE dir \in ReadOnly
  BY <1>1 DEF Save, NoPhantom
<1>2. CASE dir \notin ReadOnly
  <2>1. files'[dir'] = maps'
    BY <1>2 DEF Save, Types, IsFiles
  <2>2. maps' # NoMaps
    BY MapStoreAssumption DEF MapStoreAssumption
  <2>3. Contents(dir)' = maps'
    BY <2>1, <2>2 DEF Contents
  <2> QED BY <2>3 DEF NoPhantom
<1> QED BY <1>1, <1>2

LEMMA SameNoPhantom ==
    ASSUME NoPhantom, UNCHANGED <<disk, dir, maps, needreload, loading, running>>
    PROVE  NoPhantom'
BY DEF disk, NoPhantom, Contents

LEMMA DownloadNoPhantom ==
    ASSUME Types, NoPhantom, NEW n \in Maps, NEW ok \in BOOLEAN, Download(n, ok)
    PROVE  NoPhantom'
<1>1. CASE ok \/ n \in pictures[dir]
  BY <1>1, DownloadTypes, SaveNoPhantom DEF Download
<1>2. CASE ~(ok \/ n \in pictures[dir])
  BY <1>2, SameNoPhantom DEF Download
<1> QED BY <1>1, <1>2

LEMMA NextNoPhantom ==
    ASSUME Types, NoPhantom, [Next]_vars
    PROVE  NoPhantom'
<1>1. CASE UNCHANGED vars
  BY <1>1, SameNoPhantom DEF vars, state
<1>2. CASE Tick \/ KeepMap \/ OpenImport \/ CloseImport
  BY <1>2, SameNoPhantom DEF Tick, KeepMap, OpenImport, CloseImport, state
<1>3. ASSUME NEW d \in Dirs, NEW n \in Maps, Append_koords(d, n) PROVE NoPhantom'
  <2>1. Contents(d) \in Seq(Names)
    BY ContentsType DEF Types
  <2>2. /\ Append(Contents(d), n) \in Seq(Names)
        /\ ToSet(Contents(d)) \subseteq ToSet(Append(Contents(d), n))
    BY <2>1, AppendKeeps
  <2>3. NoMaps \notin Seq(Names)
    BY MapStoreAssumption DEF MapStoreAssumption
  <2>4. ToSet(Contents(dir)) \subseteq ToSet(Contents(dir)')
    BY <1>3, <2>2, <2>3 DEF Append_koords, Contents, Types, IsFiles
  <2> QED BY <1>3, <2>4 DEF Append_koords, NoPhantom, state
<1>4. ASSUME NEW st \in 0 .. MaxTime, CheckAndReload(st) PROVE NoPhantom'
  <2>1. CASE (needreload \/ st # stamp) /\ ~asking
    BY <1>4, <2>1, LoadNoPhantom DEF CheckAndReload
  <2>2. CASE ~((needreload \/ st # stamp) /\ ~asking)
    BY <1>4, <2>2 DEF CheckAndReload, NoPhantom, Contents, disk
  <2> QED BY <2>1, <2>2
<1>5. CASE LoadLater
  BY <1>5, LoadNoPhantom DEF LoadLater
<1>6. ASSUME NEW d \in Dirs, SetMapDir(d) PROVE NoPhantom'
  BY <1>6 DEF SetMapDir, NoPhantom
<1>7. ASSUME NEW d \in Dirs, Restart(d) PROVE NoPhantom'
  BY <1>7 DEF Restart, NoPhantom, Contents, Types, IsFiles
<1>8. ASSUME NEW n \in Maps, NEW ok \in BOOLEAN, StartDownload(n, ok) PROVE NoPhantom'
  <2>1. CASE n \in pictures[dir]
    BY <1>8, <2>1, SameNoPhantom DEF StartDownload, state
  <2>2. CASE n \notin pictures[dir]
    BY <1>8, <2>2, DownloadNoPhantom DEF StartDownload
  <2> QED BY <2>1, <2>2
<1>9. ASSUME NEW ok \in BOOLEAN, OverwriteMap(ok) PROVE NoPhantom'
  BY <1>9, DownloadNoPhantom DEF OverwriteMap, Types
<1>10. ASSUME NEW n \in Maps, Import(n) PROVE NoPhantom'
  BY <1>10, AppendKeeps, SaveNoPhantom DEF Import, Types
<1>11. CASE (\E ok \in BOOLEAN : BeginNasa(ok)) \/ SkipNasa \/ EndNasa
  <2>1. ToSet(maps') \subseteq ToSet(maps) \cup {Nasa, NoFile, Unwritten}
    BY <1>11, NasaTypes DEF Types
  <2>2. UNCHANGED <<disk, dir, needreload, loading, running>>
    BY <1>11 DEF BeginNasa, SkipNasa, EndNasa, state
  <2> QED BY <2>1, <2>2 DEF disk, NoPhantom, Contents
<1>12. ASSUME NEW n \in Maps, NEW k \in 0 .. MaxMaps, CrashInSave(n, k) PROVE NoPhantom'
  BY <1>12 DEF CrashInSave, SaveCrashes, NoPhantom
<1> QED
  BY <1>1, <1>2, <1>3, <1>4, <1>5, <1>6, <1>7, <1>8, <1>9, <1>10, <1>11, <1>12 DEF Next

\* Every map that a download or an import put into the list is in the file when
\* nothing is to be read again: for all maps, directories and bounds, also while a map
\* is cut out of the NASA pictures and the main loop runs.
THEOREM ListIsInFile == Spec => []NoPhantom
<1>1. Init => NoPhantom
  BY InitTypes, MapStoreAssumption
     DEF Init, NoPhantom, Contents, MapStoreAssumption, Types, IsFiles
<1>2. Types /\ NoPhantom /\ [Next]_vars => NoPhantom'
  BY NextNoPhantom
<1> QED BY <1>1, <1>2, InitTypes, NextTypes, PTL DEF Spec

-----------------------------------------------------------------------------
(* The names of the settings.                                              *)

\* The controls of the window, by their kinds.
LEMMA TheChecks ==
  Checks =
    {"mapnik_caching", "showgrid", "showshadow", "showzoom", "showscalebar",
     "rotating_compass", "showdestline", "showway", "showbatt", "showtemp",
     "showbutton_zoom", "showbutton_scaler", "showbutton_mute", "showbutton_find",
     "showbutton_route", "showbutton_map", "showbutton_trackrestart",
     "showbutton_trackclear", "showbutton_explore", "showbutton_addwpt", "track_autoclean",
     "showfriends", "speech", "sound_direction", "sound_distance", "sound_speed",
     "sound_gps"}
BY DEF Checks, Window, GeneralTab, MapFeatures, OtherFeatures, MainButtons, TrackButtons, TrackTab,
       ColorsTab, NightFrame, NavigationTab, WaypointFrames, PoiFrames, FriendsFrame,
       FriendsServerFrame, SpeechFrame, SpeechOutput

LEMMA TheLists ==
  Lists =
    {"simmode", "posmarker", "distmode", "altmode", "coordmode", "buttonsmode",
     "style_track", "style_route", "nightmode", "travelmode", "quickpoint_mode",
     "icon_theme", "speech_module", "speech_voice"}
BY DEF Lists, Window, GeneralTab, MapFeatures, OtherFeatures, MainButtons, TrackButtons, TrackTab,
       ColorsTab, NightFrame, NavigationTab, WaypointFrames, PoiFrames, FriendsFrame,
       FriendsServerFrame, SpeechFrame, SpeechOutput

LEMMA TheNumbers ==
  Numbers =
    {"maxcpuload", "track_interval", "track_autointerval", "quickpoint_num",
     "poi_results_max", "poi_searchradius", "friends_maxsecs", "speech_speed",
     "speech_pitch"}
BY DEF Numbers, Window, GeneralTab, MapFeatures, OtherFeatures, MainButtons, TrackButtons, TrackTab,
       ColorsTab, NightFrame, NavigationTab, WaypointFrames, PoiFrames, FriendsFrame,
       FriendsServerFrame, SpeechFrame, SpeechOutput

LEMMA TheEntries ==
  Entries =
    {"dir_maps", "dir_tracks", "track_autoprefix", "color_track", "color_route",
     "color_friends", "color_wplabel", "color_dashboard", "font_friends", "font_wplabel",
     "font_dashboard", "wp_file", "quickpoint_text", "quickpoint_type", "poi_filter",
     "poi_label", "friends_name", "friends_serverfqn", "friends_serverip"}
BY DEF Entries, Window, GeneralTab, MapFeatures, OtherFeatures, MainButtons, TrackButtons, TrackTab,
       ColorsTab, NightFrame, NavigationTab, WaypointFrames, PoiFrames, FriendsFrame,
       FriendsServerFrame, SpeechFrame, SpeechOutput

\* What the proofs use of them.
LEMMA Kinds ==
  /\ {"showgrid", "showfriends", "show_controls", "show_compass", "show_dashboard", "speech",
      "use_database", "storetz"} \subseteq AllChecks
  /\ {"friends_maxsecs", "track_interval", "track_autointerval", "messagenumber",
      "quickpoint_num"} \subseteq (Numbers \cup Elsewhere.number) \ AllChecks
  /\ {"friends_name", "friends_id", "coordmode", "nightmode", "speech_module", "speech_voice",
      "friends_serverip", "MapnikStatusInt"} \cap AllChecks = {}
  /\ (Fonts \cup TmpFonts) \cap (AllChecks \cup Numbers \cup Elsewhere.number) = {}
  /\ Fonts \cup TmpFonts \subseteq Texts
  /\ "track_autointerval" \notin Checks \cup Lists \cup Entries
  /\ "messagenumber" \notin Controls
  /\ "storetz" \notin Texts /\ {"friends_id", "friends_name"} \subseteq Texts
BY TheChecks, TheLists, TheNumbers, TheEntries
   DEF AllChecks, Texts, Controls, Elsewhere, Fonts, TmpFonts

LEMMA ValuesAre ==
  ASSUME NEW k
  PROVE  /\ Values(k) \subseteq 0 .. 3 /\ 0 \in Values(k) /\ 1 \in Values(k)
         /\ k \in AllChecks => Values(k) = 0 .. 1
         /\ k \notin AllChecks => 2 \in Values(k)
         /\ k \in (Numbers \cup Elsewhere.number) \ AllChecks => Values(k) = 0 .. 3
BY DEF Values

LEMMA DefaultIn ==
  ASSUME NEW k
  PROVE  Default(k) \in Values(k)
<1>1. CASE k = "friends_maxsecs"
  BY <1>1, Kinds, ValuesAre DEF Default
<1>2. CASE k # "friends_maxsecs"
  BY <1>2, ValuesAre DEF Default
<1>3. QED
  BY <1>1, <1>2

LEMMA OtherFonts ==
  ASSUME NEW k \in Fonts \cup TmpFonts
  PROVE  OtherFont(k) \in Fonts \cup TmpFonts /\ OtherFont(OtherFont(k)) = k
BY DEF OtherFont, Fonts, TmpFonts

\* The line of k holds the value of k, unless it is one of those.
LEMMA LinesHold ==
  ASSUME NEW v, NEW p, NEW k
  PROVE  /\ k \notin {"show_compass", "MapnikStatusInt", "timezone"} \cup Fonts \cup TmpFonts =>
                Written(v, p, k) = v[k]
         /\ k \in Fonts \cup TmpFonts =>
                Written(v, p, k) = IF p /\ OtherFont(k) \in DOMAIN v THEN v[OtherFont(k)] ELSE v[k]
         /\ k = "timezone" =>
                Written(v, p, k) =
                    IF "storetz" \in DOMAIN v /\ v["storetz"] # 1 THEN Absent ELSE v[k]
         /\ k = "show_compass" => Written(v, p, k) \in {0, 1, v[k]}
         /\ k = "MapnikStatusInt" => Written(v, p, k) = IF v[k] > 1 THEN 1 ELSE 0
<1>1. CASE k \in Fonts \cup TmpFonts
  BY <1>1 DEF Written, Fonts, TmpFonts
<1>2. CASE k \notin Fonts \cup TmpFonts
  BY <1>2 DEF Written
<1>3. QED
  BY <1>1, <1>2

\* Two sequences as one.
LEMMA Joining ==
  ASSUME NEW S, NEW f \in Seq(S), NEW g \in Seq(S)
  PROVE  /\ DOMAIN (f \o g) = 1 .. Len(f) + Len(g)
         /\ \A i \in DOMAIN (f \o g) : (f \o g)[i] = IF i <= Len(f) THEN f[i] ELSE g[i - Len(f)]
OBVIOUS

\* storetz is written before timezone.
LEMMA ZoneFollows ==
  /\ Position["storetz"] \in Nat /\ Position["timezone"] \in Nat
  /\ Position["storetz"] < Position["timezone"]
<1> DEFINE S == {FirstLines[i] : i \in 1 .. 36} \cup {LastLines[i] : i \in 1 .. 72}
<1>1. FirstLines \in Seq(S) /\ LastLines \in Seq(S)
  <2>1. FirstLines = [i \in 1 .. 36 |-> FirstLines[i]]
    BY DEF FirstLines
  <2>2. LastLines = [i \in 1 .. 72 |-> LastLines[i]]
    BY DEF LastLines
  <2>3. QED
    BY <2>1, <2>2
<1>2. Len(FirstLines) = 36 /\ Len(LastLines) = 72
  BY DEF FirstLines, LastLines
<1>3. \A i \in 1 .. 36 : FirstLines[i] \notin {"storetz", "timezone"}
  BY DEF FirstLines
<1>4. /\ \A i \in 1 .. 72 : LastLines[i] = "storetz" <=> i = 29
      /\ \A i \in 1 .. 72 : LastLines[i] = "timezone" <=> i = 30
  BY DEF LastLines
<1> HIDE DEF S
<1>5. /\ DOMAIN Lines = 1 .. 108
      /\ \A i \in 1 .. 108 : Lines[i] = IF i <= 36 THEN FirstLines[i] ELSE LastLines[i - 36]
  <2>1. /\ DOMAIN Lines = 1 .. Len(FirstLines) + Len(LastLines)
        /\ \A i \in DOMAIN Lines :
              Lines[i] = IF i <= Len(FirstLines)
                         THEN FirstLines[i] ELSE LastLines[i - Len(FirstLines)]
    BY <1>1, Joining DEF Lines
  <2>2. QED
    BY <1>2, <2>1
<1>6. /\ \A i \in 1 .. 108 : Lines[i] = "storetz" <=> i = 65
      /\ \A i \in 1 .. 108 : Lines[i] = "timezone" <=> i = 66
  BY <1>3, <1>4, <1>5
<1>7. Position["storetz"] = 65 /\ Position["timezone"] = 66
  BY <1>5, <1>6 DEF Position
<1>8. QED
  BY <1>7

-----------------------------------------------------------------------------
(* The values that settings have.                                          *)

Valued(v) == DOMAIN v = focus /\ \A k \in focus : v[k] \in Values(k)

\* A line of the file holds a value of its setting, or is not there.
Filed(f) == DOMAIN f = focus /\ \A k \in focus : f[k] \in Values(k) \cup {Absent}

SettingTypes ==
    /\ Valued(value) /\ Filed(file) /\ DOMAIN shown = focus
    /\ autosave \in 0 .. 3
    /\ open => started

LEMMA FontValues ==
  ASSUME NEW k \in Fonts \cup TmpFonts
  PROVE  Values(k) = 0 .. 2 /\ Values(OtherFont(k)) = 0 .. 2
<1>1. \A x \in Fonts \cup TmpFonts : Values(x) = 0 .. 2
  BY Kinds DEF Values
<1>2. QED
  BY <1>1, OtherFonts

LEMMA WrittenIn ==
  ASSUME NEW v, Valued(v), NEW p, NEW k \in focus
  PROVE  Written(v, p, k) \in Values(k) \cup {Absent}
<1>1. v[k] \in Values(k) /\ 0 \in Values(k) /\ 1 \in Values(k)
  BY ValuesAre DEF Valued
<1>2. CASE k \in Fonts \cup TmpFonts
  <2>1. OtherFont(k) \in DOMAIN v => v[OtherFont(k)] \in Values(k)
    BY <1>2, FontValues DEF Valued
  <2>2. QED
    BY <1>1, <1>2, <2>1, LinesHold
<1>3. CASE k \in {"timezone", "show_compass", "MapnikStatusInt"}
  BY <1>1, <1>3, LinesHold
<1>4. CASE k \notin {"show_compass", "MapnikStatusInt", "timezone"} \cup Fonts \cup TmpFonts
  BY <1>1, <1>4, LinesHold
<1>5. QED
  BY <1>2, <1>3, <1>4

LEMMA ImageFiled ==
  ASSUME NEW v, Valued(v), NEW p
  PROVE  Filed(Image(v, p)) /\ \A k \in focus : Image(v, p)[k] = Written(v, p, k)
BY WrittenIn DEF Image, Filed, Valued

LEMMA ReadIn ==
  ASSUME NEW f, Filed(f), NEW p, NEW k \in focus
  PROVE  ReadConfig(f, p, k) \in Values(k)
<1>1. Line(f, k) \in Values(k)
  BY DefaultIn DEF Line, Filed
<1>2. CASE k \in Fonts \cup TmpFonts /\ OtherFont(k) \in DOMAIN f
  <2>1. f[OtherFont(k)] \in Values(k) \cup {Absent}
    BY <1>2, FontValues DEF Filed
  <2>2. QED
    BY <1>1, <2>1, DefaultIn DEF ReadConfig
<1>3. CASE ~(k \in Fonts \cup TmpFonts /\ OtherFont(k) \in DOMAIN f)
  BY <1>1, <1>3 DEF ReadConfig
<1>4. QED
  BY <1>2, <1>3

\* One setting, or some of them, get values of theirs.
LEMMA ExceptValued ==
  ASSUME Valued(value), NEW k, NEW x, k \in focus => x \in Values(k)
  PROVE  Valued([value EXCEPT ![k] = x])
BY DEF Valued

LEMMA SetTypes ==
  ASSUME SettingTypes, NEW changes, Set(changes),
         \A k \in focus \cap DOMAIN changes : changes[k] \in Values(k)
  PROVE  Valued(value') /\ DOMAIN shown' = focus /\ focus' = focus /\ open' = open
BY DEF SettingTypes, Valued, Set

LEMMA StartTypes ==
  ASSUME SettingTypes, NEW option \in BOOLEAN, NEW works \in BOOLEAN, Start(option, works)
  PROVE  SettingTypes'
<1>1. focus' = focus /\ file' = file /\ shown' = shown /\ open' = open /\ ~open
  BY DEF Start, window, SettingTypes
<1>2. \A k \in focus : ReadConfig(file, option, k) \in Values(k)
  BY ReadIn DEF SettingTypes
<1>3. DOMAIN value' = focus /\ \A k \in focus : value'[k] \in Values(k)
  BY <1>2, ValuesAre DEF Start
<1>4. autosave' \in 0 .. 3
  BY <1>3, ValuesAre DEF Start
<1>5. QED
  BY <1>1, <1>3, <1>4 DEF SettingTypes, Valued, Filed

LEMMA StopTypes ==
  ASSUME SettingTypes, Stop, Filed(file')
  PROVE  SettingTypes'
BY DEF SettingTypes, Stop, Valued, Filed

LEMMA WindowTypes ==
  ASSUME SettingTypes, NEW k \in focus, InWindow(k)
  PROVE  SettingTypes'
<1>1. focus' = focus /\ open' = open /\ started' = started /\ file' = file /\ autosave' = autosave
  BY DEF InWindow, Toggle, Choose, Spin, Enter, Set, process
<1>2. Valued(value') /\ DOMAIN shown' = focus
  <2>1. CASE Toggle(k)
    <3>1. k \in AllChecks /\ value[k] \in 0 .. 1
      BY <2>1, ValuesAre DEF Toggle, AllChecks, SettingTypes, Valued
    <3>2. 1 - value[k] \in Values(k)
      BY <3>1, ValuesAre
    <3>3. QED
      BY <2>1, <3>2 DEF Toggle, SettingTypes, Valued
  <2>2. ASSUME NEW v \in Values(k), Choose(k, v) PROVE Valued(value') /\ DOMAIN shown' = focus
    BY <2>2, SetTypes DEF Choose, One
  <2>3. ASSUME NEW v \in Values(k), Spin(k, v) PROVE Valued(value') /\ DOMAIN shown' = focus
    BY <2>3, ValuesAre DEF Spin, SettingTypes, Valued
  <2>4. ASSUME NEW v \in Values(k), Enter(k, v) PROVE Valued(value') /\ DOMAIN shown' = focus
    BY <2>4, SetTypes DEF Enter, One
  <2>5. QED
    BY <2>1, <2>2, <2>3, <2>4 DEF InWindow
<1>3. QED
  BY <1>1, <1>2 DEF SettingTypes, Valued, Filed

LEMMA ElsewhereTypes ==
  ASSUME SettingTypes, NEW k \in focus, FromElsewhere(k)
  PROVE  SettingTypes'
<1>1. PICK x, marks : Change(k, x, marks) /\ x \in Values(k)
  <2>1. CASE MarkedKey(k) \/ UnmarkedKey(k)
    <3>1. k \in AllChecks /\ value[k] \in 0 .. 1
      BY <2>1, Kinds, ValuesAre DEF MarkedKey, UnmarkedKey, SettingTypes, Valued
    <3>2. 1 - value[k] \in Values(k)
      BY <3>1, ValuesAre
    <3>3. QED
      BY <2>1, <3>2 DEF MarkedKey, UnmarkedKey
  <2>2. ASSUME NEW v \in Values(k), MainButton(k, v) \/ UnmarkedButton(k, v)
        PROVE  \E marks : Change(k, v, marks)
    BY <2>2 DEF MainButton, UnmarkedButton
  <2>3. QED
    BY <2>1, <2>2 DEF FromElsewhere
<1>2. QED
  BY <1>1 DEF Change, SettingTypes, Valued, Filed, process

\* The controls with a handler of their own, and what counts up.
LEMMA SpecialTypes ==
  ASSUME SettingTypes,
         \/ ShowFriends \/ NextMessage \/ QuickWaypoint
         \/ \E v \in 0 .. 2 : Special(v)
         \/ \E v \in 0 .. 3 : SpinMaxsecs(v) \/ SpinAutosave(v)
         \/ \E v \in 1 .. 2 : SpinInterval(v)
  PROVE  SettingTypes'
<1>1. \A k \in focus : value[k] \in Values(k) /\ value[k] \in 0 .. 3
  BY ValuesAre DEF SettingTypes, Valued
<1>2. /\ "showfriends" \in focus => value["showfriends"] \in 0 .. 1
      /\ {0, 1} \subseteq Values("showfriends")
      /\ 2 \in Values("friends_name")
      /\ \A k \in {"speech_module", "speech_voice", "nightmode", "friends_serverip"} :
             0 .. 2 \subseteq Values(k)
      /\ \A k \in {"friends_maxsecs", "track_interval", "track_autointerval", "messagenumber",
                   "quickpoint_num"} : Values(k) = 0 .. 3
  BY <1>1, Kinds, ValuesAre
<1>3. CASE ShowFriends
  BY <1>1, <1>2, <1>3 DEF ShowFriends, SettingTypes, Valued, Filed, process, YourName
<1>4. CASE NextMessage
  BY <1>1, <1>2, <1>4 DEF NextMessage, Change, SettingTypes, Valued, Filed, process
<1>5. CASE QuickWaypoint
  BY <1>1, <1>2, <1>5 DEF QuickWaypoint, Change, SettingTypes, Valued, Filed, process
<1>6. ASSUME NEW v \in 0 .. 2, Special(v) PROVE SettingTypes'
  <2>1. CASE ChooseModule(v)
    <3> DEFINE c == [k \in {"speech_module", "speech_voice"} |->
                        IF k = "speech_voice" THEN 0 ELSE v]
    <3>1. Set(c) /\ autosave' = autosave /\ file' = file /\ started' = started
      BY <2>1 DEF ChooseModule, Set, process
    <3>2. \A k \in focus \cap DOMAIN c : c[k] \in Values(k)
      BY <1>2
    <3> HIDE DEF c
    <3>3. QED
      BY <3>1, <3>2, SetTypes DEF SettingTypes, Valued, Filed
  <2>2. CASE ChooseNight(v)
    <3>1. Set(One("nightmode", v)) /\ autosave' = autosave /\ file' = file /\ started' = started
      BY <2>2 DEF ChooseNight, Set, process
    <3>2. \A k \in focus \cap DOMAIN One("nightmode", v) : One("nightmode", v)[k] \in Values(k)
      BY <1>2 DEF One
    <3>3. QED
      BY <3>1, <3>2, SetTypes DEF SettingTypes, Valued, Filed
  <2>3. CASE Lookup(v)
    BY <1>1, <1>2, <2>3 DEF Lookup, SettingTypes, Valued, Filed, process
  <2>4. QED
    BY <1>6, <2>1, <2>2, <2>3 DEF Special
<1>7. ASSUME NEW v \in 0 .. 3, SpinMaxsecs(v) \/ SpinAutosave(v) PROVE SettingTypes'
  <2>1. CASE SpinMaxsecs(v)
    BY <1>1, <1>2, <2>1 DEF SpinMaxsecs, SettingTypes, Valued, Filed, process, Cap
  <2>2. CASE SpinAutosave(v)
    <3>1. /\ Set(One("track_autointerval", v)) /\ autosave' = 0 /\ file' = file
          /\ started' = started
      BY <2>2 DEF SpinAutosave, Set, process
    <3>2. \A k \in focus \cap DOMAIN One("track_autointerval", v) :
             One("track_autointerval", v)[k] \in Values(k)
      BY <1>2 DEF One
    <3>3. QED
      BY <3>1, <3>2, SetTypes DEF SettingTypes, Valued, Filed
  <2>3. QED
    BY <1>7, <2>1, <2>2
<1>8. ASSUME NEW v \in 1 .. 2, SpinInterval(v) PROVE SettingTypes'
  BY <1>1, <1>2, <1>8 DEF SpinInterval, SettingTypes, Valued, Filed, process, Cap
<1>9. QED
  BY <1>3, <1>4, <1>5, <1>6, <1>7, <1>8

LEMMA SettingTypesKept ==
  ASSUME SettingTypes, SettingsNext
  PROVE  SettingTypes'
<1>1. CASE \E option, works \in BOOLEAN : Start(option, works)
  BY <1>1, StartTypes
<1>2. CASE Quit \/ Crash
  BY <1>2, ImageFiled, StopTypes DEF Quit, Crash, SettingTypes
<1>3. CASE SaveConfig
  BY <1>3, ImageFiled DEF SaveConfig, SettingTypes, Valued, Filed, window
<1>4. ASSUME NEW n \in 0 .. Len(Lines), CrashInWrite(n) PROVE SettingTypes'
  <2>1. Filed(file')
    BY <1>4, WrittenIn DEF CrashInWrite, SettingTypes, Filed
  <2>2. QED
    BY <1>4, <2>1, StopTypes DEF CrashInWrite
<1>5. CASE OpenWindow
  BY <1>5, ValuesAre, Kinds DEF OpenWindow, Preset, SettingTypes, Valued, Filed, process
<1>6. CASE CloseWindow
  BY <1>6, ValuesAre DEF CloseWindow, SettingTypes, Valued, Filed, process
<1>7. CASE NightTimer \/ Twilight
  BY <1>7 DEF NightTimer, Twilight, SettingTypes, Valued, Filed, process, window
<1>8. QED
  BY <1>1, <1>2, <1>3, <1>4, <1>5, <1>6, <1>7, WindowTypes, ElsewhereTypes, SpecialTypes
     DEF SettingsNext

LEMMA SettingTypesInit == SettingsInit => SettingTypes
<1> SUFFICES ASSUME SettingsInit PROVE SettingTypes
  OBVIOUS
<1>1. Valued(value) /\ DOMAIN shown = focus /\ autosave = 0 /\ ~open
  BY DefaultIn DEF SettingsInit, Valued
<1>2. Filed(file)
  <2>1. CASE file = Missing(focus)
    BY <2>1 DEF Missing, Filed
  <2>2. ASSUME NEW v \in [focus -> 0 .. 3], \A k \in focus : v[k] \in Values(k),
               file = Image(v, FALSE)
        PROVE  Filed(file)
    BY <2>2, ImageFiled DEF Valued
  <2>3. QED
    BY <2>1, <2>2 DEF SettingsInit
<1>3. QED
  BY <1>1, <1>2 DEF SettingTypes

-----------------------------------------------------------------------------
(* The window.                                                             *)

LEMMA ShownStep ==
  ASSUME SettingTypes, ShownIsSet, SettingsNext
  PROVE  ShownIsSet'
<1> SUFFICES ASSUME open', NEW c \in (focus' \cap Controls) \ Loose
             PROVE  shown'[c] = value'[c]
  BY DEF ShownIsSet
<1> USE DEF SettingTypes, Valued, ShownIsSet
<1>1. CASE \E option, works \in BOOLEAN : Start(option, works)
  BY <1>1 DEF Start, window
<1>2. CASE Quit \/ Crash \/ \E n \in 0 .. Len(Lines) : CrashInWrite(n)
  BY <1>2 DEF Quit, Crash, CrashInWrite, Stop
<1>3. CASE SaveConfig
  BY <1>3 DEF SaveConfig, window
<1>4. CASE OpenWindow
  BY <1>4 DEF OpenWindow, Preset, Loose
<1>5. CASE CloseWindow
  BY <1>5 DEF CloseWindow
<1>6. ASSUME NEW k \in focus, InWindow(k) PROVE shown'[c] = value'[c]
  <2>1. CASE Toggle(k)
    BY <2>1 DEF Toggle
  <2>2. ASSUME NEW v \in Values(k), Choose(k, v) \/ Enter(k, v) PROVE shown'[c] = value'[c]
    BY <2>2 DEF Choose, Enter, Set, One
  <2>3. ASSUME NEW v \in Values(k), Spin(k, v) PROVE shown'[c] = value'[c]
    BY <2>3 DEF Spin, Loose
  <2>4. QED
    BY <1>6, <2>1, <2>2, <2>3 DEF InWindow
<1>7. ASSUME NEW k \in focus, FromElsewhere(k) PROVE shown'[c] = value'[c]
  BY <1>7 DEF FromElsewhere, MarkedKey, UnmarkedKey, MainButton, UnmarkedButton, Change
<1>8. CASE ShowFriends
  BY <1>8 DEF ShowFriends
<1>9. ASSUME NEW v \in 0 .. 2, Special(v) PROVE shown'[c] = value'[c]
  BY <1>9 DEF Special, ChooseModule, ChooseNight, Lookup, Set, One
<1>10. ASSUME NEW v \in 0 .. 3, SpinMaxsecs(v) \/ SpinAutosave(v) PROVE shown'[c] = value'[c]
  BY <1>10 DEF SpinMaxsecs, SpinAutosave, Set, One
<1>11. ASSUME NEW v \in 1 .. 2, SpinInterval(v) PROVE shown'[c] = value'[c]
  BY <1>11 DEF SpinInterval, Loose
<1>12. CASE NextMessage
  BY <1>12, Kinds DEF NextMessage, Change
<1>13. CASE QuickWaypoint
  BY <1>13 DEF QuickWaypoint, Change
<1>14. CASE NightTimer \/ Twilight
  BY <1>14 DEF NightTimer, Twilight, window
<1>15. QED
  BY <1>1, <1>2, <1>3, <1>4, <1>5, <1>6, <1>7, <1>8, <1>9, <1>10, <1>11, <1>12, <1>13, <1>14
     DEF SettingsNext

-----------------------------------------------------------------------------
(* The timer of the autosave.                                              *)

Interval == value["track_autointerval"]

\* While the window is open the timer may be off, but does not run without an interval.
TimerFits ==
    started /\ "track_autointerval" \in focus =>
        /\ open => (autosave > 0 => Interval > 0)
        /\ ~open => (autosave > 0 <=> Interval > 0)

LEMMA TimerStep ==
  ASSUME SettingTypes, TimerFits, SettingsNext
  PROVE  TimerFits'
<1> DEFINE Same == /\ started' = started /\ open' = open /\ autosave' = autosave
                   /\ focus' = focus /\ Interval' = Interval
           Good == /\ open' => (autosave' > 0 => Interval' > 0)
                   /\ ~open' => (autosave' > 0 <=> Interval' > 0)
<1> SUFFICES ASSUME started', "track_autointerval" \in focus' PROVE Good
  BY DEF TimerFits
<1>1. "track_autointerval" \in focus => Interval \in 0 .. 3
  BY ValuesAre DEF SettingTypes, Valued, Interval
<1> USE DEF SettingTypes, Valued, TimerFits, Interval
<1>2. CASE \E option, works \in BOOLEAN : Start(option, works)
  BY <1>2 DEF Start, window
<1>3. CASE Quit \/ Crash \/ \E n \in 0 .. Len(Lines) : CrashInWrite(n)
  BY <1>3 DEF Quit, Crash, CrashInWrite, Stop
<1>4. CASE CloseWindow
  BY <1>1, <1>4 DEF CloseWindow, process
<1>5. CASE OpenWindow
  BY <1>1, <1>5 DEF OpenWindow, process
<1>6. ASSUME NEW v \in 0 .. 3, SpinAutosave(v) PROVE autosave' = 0 /\ open'
  BY <1>6 DEF SpinAutosave, Set
<1>7. ASSUME NEW v \in 1 .. 2, SpinInterval(v)
      PROVE  /\ open /\ open' /\ started /\ focus' = focus /\ autosave' = autosave
             /\ Interval > 0 => Interval' > 0
  BY <1>1, <1>7 DEF SpinInterval, process, Cap
<1>8. Same => Good
  OBVIOUS
<1>9. ASSUME NEW k \in focus, InWindow(k) \/ FromElsewhere(k)
      PROVE  Same
  <2>1. CASE InWindow(k)
    <3>1. k # "track_autointerval"
      BY <2>1, Kinds DEF InWindow, Toggle, Choose, Spin, Enter
    <3>2. QED
      BY <2>1, <3>1 DEF InWindow, Toggle, Choose, Spin, Enter, Set, One, process
  <2>2. CASE FromElsewhere(k)
    <3>1. k # "track_autointerval"
      BY <2>2 DEF FromElsewhere, MarkedKey, UnmarkedKey, MainButton, UnmarkedButton
    <3>2. QED
      BY <2>2, <3>1
         DEF FromElsewhere, MarkedKey, UnmarkedKey, MainButton, UnmarkedButton, Change, process
  <2>3. QED
    BY <1>9, <2>1, <2>2
<1>10. ASSUME \/ SaveConfig \/ ShowFriends \/ NextMessage \/ QuickWaypoint
              \/ NightTimer \/ Twilight
              \/ \E v \in 0 .. 2 : Special(v)
              \/ \E v \in 0 .. 3 : SpinMaxsecs(v)
       PROVE  Same
  BY <1>10 DEF SaveConfig, ShowFriends, NextMessage, QuickWaypoint, NightTimer, Twilight, Special,
               ChooseModule, ChooseNight, Lookup, SpinMaxsecs, Set, One, Change, process, window
<1>11. ASSUME NEW v \in 0 .. 3, SpinAutosave(v) PROVE Good
  BY <1>6, <1>11
<1>12. ASSUME NEW v \in 1 .. 2, SpinInterval(v) PROVE Good
  <2>1. "track_autointerval" \in focus
    BY <1>12 DEF SpinInterval
  <2>2. QED
    BY <1>7, <1>12, <2>1
<1> HIDE DEF SettingTypes, Valued, TimerFits, Interval, Good
<1>13. \A k \in focus : InWindow(k) \/ FromElsewhere(k) => Same
  BY <1>9
<1> HIDE DEF Same
<1>14. QED
  BY <1>2, <1>3, <1>4, <1>5, <1>8, <1>10, <1>11, <1>12, <1>13 DEF SettingsNext

-----------------------------------------------------------------------------
(* The file.                                                               *)

\* The time zone is in the file only together with the wish to keep it.
ZoneFits ==
    {"storetz", "timezone"} \subseteq focus =>
        file["timezone"] = Absent \/ file["storetz"] = 1

FileInv == SettingTypes /\ ZoneFits /\ NothingToLose

LEMMA ImageZone ==
  ASSUME NEW v, Valued(v), NEW p, {"storetz", "timezone"} \subseteq focus
  PROVE  Image(v, p)["timezone"] = Absent \/ Image(v, p)["storetz"] = 1
<1>1. /\ Image(v, p)["timezone"] = Written(v, p, "timezone")
      /\ Image(v, p)["storetz"] = Written(v, p, "storetz")
  BY ImageFiled
<1>2. Written(v, p, "storetz") = v["storetz"]
  BY LinesHold DEF Fonts, TmpFonts
<1>3. Written(v, p, "timezone") = Absent \/ v["storetz"] = 1
  BY LinesHold DEF Valued
<1>4. QED
  BY <1>1, <1>2, <1>3

LEMMA ZoneStep ==
  ASSUME SettingTypes, ZoneFits, SettingsNext
  PROVE  ZoneFits'
<1>1. focus' = focus
  BY DEF SettingsNext, Start, Quit, Crash, CrashInWrite, Stop, SaveConfig, OpenWindow, CloseWindow,
         InWindow, Toggle, Choose, Spin, Enter, FromElsewhere, MarkedKey, UnmarkedKey, MainButton,
         UnmarkedButton, Change, ShowFriends, Special, ChooseModule, ChooseNight, Lookup,
         SpinMaxsecs, SpinAutosave, SpinInterval, NextMessage, QuickWaypoint, NightTimer, Twilight,
         Set
<1> SUFFICES ASSUME {"storetz", "timezone"} \subseteq focus
             PROVE  file'["timezone"] = Absent \/ file'["storetz"] = 1
  BY <1>1 DEF ZoneFits
<1>2. CASE file' = file
  BY <1>2 DEF ZoneFits
<1>3. CASE file' = Image(value, pda)
  BY <1>3, ImageZone DEF SettingTypes
<1>4. ASSUME NEW n \in 0 .. Len(Lines), CrashInWrite(n)
      PROVE  file'["timezone"] = Absent \/ file'["storetz"] = 1
  <2>1. CASE Position["timezone"] <= n
    <3>1. Position["storetz"] <= n
      BY <2>1, ZoneFollows
    <3>2. /\ file'["timezone"] = Written(value, pda, "timezone")
          /\ file'["storetz"] = Written(value, pda, "storetz")
      BY <1>4, <2>1, <3>1 DEF CrashInWrite
    <3>3. /\ Image(value, pda)["timezone"] = Written(value, pda, "timezone")
          /\ Image(value, pda)["storetz"] = Written(value, pda, "storetz")
      BY ImageFiled DEF SettingTypes
    <3>4. QED
      BY <3>2, <3>3, ImageZone DEF SettingTypes
  <2>2. CASE ~(Position["timezone"] <= n)
    BY <1>4, <2>2 DEF CrashInWrite
  <2>3. QED
    BY <2>1, <2>2
<1>5. QED
  BY <1>2, <1>3, <1>4
     DEF SettingsNext, Start, Quit, Crash, SaveConfig, OpenWindow, CloseWindow, window, process,
         InWindow, Toggle, Choose, Spin, Enter, FromElsewhere, MarkedKey, UnmarkedKey, MainButton,
         UnmarkedButton, Change, ShowFriends, Special, ChooseModule, ChooseNight, Lookup,
         SpinMaxsecs, SpinAutosave, SpinInterval, NextMessage, QuickWaypoint, NightTimer, Twilight,
         Set

\* The settings of which NothingToLose speaks.
Kept == focus \ (Unmarked \cup IF pda THEN Fonts \cup TmpFonts ELSE {})

\* Two sets of settings that agree on k say the same on its line.
LEMMA SameLine ==
  ASSUME NEW v, NEW w, Valued(v), Valued(w), NEW k \in Kept, v[k] = w[k],
         k = "timezone" /\ "storetz" \in focus => v["storetz"] = w["storetz"]
  PROVE  Line(Image(v, pda), k) = Line(Image(w, pda), k)
<1>1. k \in focus /\ k \notin {"show_compass", "MapnikStatusInt"}
  BY DEF Kept, Unmarked
<1>2. k \in Fonts \cup TmpFonts => ~pda
  BY DEF Kept
<1>3. Written(v, pda, k) = Written(w, pda, k)
  BY <1>1, <1>2, LinesHold DEF Valued
<1>4. Image(v, pda)[k] = Image(w, pda)[k]
  BY <1>1, <1>3, ImageFiled
<1>5. QED
  BY <1>4 DEF Line

\* What is read is what is written, where nothing is marked at the start.
LEMMA StartKeeps ==
  ASSUME SettingTypes, ZoneFits, NEW option \in BOOLEAN, NEW works \in BOOLEAN,
         Start(option, works)
  PROVE  NothingToLose'
<1> SUFFICES ASSUME ~needtosave', NEW k \in Kept'
             PROVE  Line(file, k) = Line(Image(value', pda'), k)
  BY DEF NothingToLose, Kept, Start
<1>1. focus' = focus /\ file' = file /\ pda' = (option \/ SmallScreen)
  BY DEF Start
<1>2. SettingTypes'
  BY StartTypes
<1>3. k \in focus /\ k \notin Unmarked /\ (k \in Fonts \cup TmpFonts => ~pda' /\ ~option)
  BY <1>1 DEF Kept
<1>4. \A x \in focus : x \notin Unmarked /\ (x \in Fonts \cup TmpFonts => ~option) =>
                           value'[x] = Line(file, x)
  <2> TAKE x \in focus
  <2> HAVE x \notin Unmarked /\ (x \in Fonts \cup TmpFonts => ~option)
  <2>1. ReadConfig(file, option, x) = Line(file, x)
    BY DEF ReadConfig
  <2>2. x \notin {"use_database", "speech"}
    BY DEF Unmarked
  <2>3. x = "friends_id" => ReadConfig(file, option, x) # 0
    BY DEF Start
  <2>4. QED
    BY <2>1, <2>2, <2>3 DEF Start
<1>5. value'[k] = Line(file, k) /\ Line(file, k) \in Values(k)
  <2>1. Line(file, k) \in Values(k)
    BY <1>3, DefaultIn DEF Line, SettingTypes, Filed
  <2>2. QED
    BY <1>3, <1>4, <2>1
<1>6. Line(file, k) # Absent
  BY <1>5, ValuesAre, SettingsAssumption
<1>7. Image(value', pda')[k] = Written(value', pda', k)
  <2>1. DOMAIN value' = focus
    BY <1>1, <1>2 DEF SettingTypes, Valued
  <2>2. QED
    BY <1>3, <2>1 DEF Image
<1>8. CASE k # "timezone"
  <2>1. Written(value', pda', k) = value'[k]
    BY <1>3, <1>8, LinesHold DEF Unmarked
  <2>2. QED
    BY <1>5, <1>7, <2>1 DEF Line
<1>9. CASE k = "timezone"
  <2>1. CASE "storetz" \in focus /\ value'["storetz"] # 1
    <3>1. value'["storetz"] = Line(file, "storetz")
      BY <1>4, <2>1 DEF Unmarked, Fonts, TmpFonts
    <3>2. file["storetz"] # 1
      BY <2>1, <3>1, Kinds, SettingsAssumption DEF Line
    <3>3. file[k] = Absent
      BY <1>3, <1>9, <2>1, <3>2 DEF ZoneFits
    <3>4. Written(value', pda', k) = Absent
      BY <1>1, <1>2, <1>9, <2>1, LinesHold DEF SettingTypes, Valued
    <3>5. QED
      BY <1>7, <3>3, <3>4 DEF Line
  <2>2. CASE ~("storetz" \in focus /\ value'["storetz"] # 1)
    <3>1. Written(value', pda', k) = value'[k]
      BY <1>1, <1>2, <1>9, <2>2, LinesHold DEF SettingTypes, Valued
    <3>2. QED
      BY <1>5, <1>7, <3>1 DEF Line
  <2>3. QED
    BY <2>1, <2>2
<1>10. QED
  BY <1>8, <1>9

\* A handler that marks nothing changes only what is never marked, or puts the placeholder
\* for a name.
LEMMA QuietStep ==
  ASSUME SettingTypes, SettingsNext, started, started', ~needtosave'
  PROVE  /\ focus' = focus /\ pda' = pda
         /\ \/ file' = Image(value, pda) /\ value' = value
            \/ /\ file' = file /\ ~needtosave
               /\ \A k \in focus \ Unmarked :
                     value'[k] = value[k] \/ (k = "friends_name" /\ value'[k] = YourName)
<1> DEFINE Quiet == /\ focus' = focus /\ pda' = pda /\ file' = file /\ ~needtosave
                    /\ \A k \in focus \ Unmarked :
                          value'[k] = value[k] \/ (k = "friends_name" /\ value'[k] = YourName)
<1> USE DEF SettingTypes, Valued, process, window
<1>1. ~(\E option, works \in BOOLEAN : Start(option, works)) /\ ~Quit /\ ~Crash
      /\ ~(\E n \in 0 .. Len(Lines) : CrashInWrite(n))
  BY DEF Start, Quit, Crash, CrashInWrite, Stop
<1>2. CASE SaveConfig
  BY <1>2 DEF SaveConfig
<1>3. CASE OpenWindow
  BY <1>3 DEF OpenWindow, Armed, Unmarked
<1>4. CASE CloseWindow \/ NightTimer \/ Twilight
  BY <1>4 DEF CloseWindow, NightTimer, Twilight
<1>5. \A k \in focus : ~InWindow(k)
  BY DEF InWindow, Toggle, Choose, Spin, Enter, Set
<1>6. ASSUME NEW k \in focus, FromElsewhere(k) PROVE Quiet
  BY <1>6 DEF FromElsewhere, MarkedKey, UnmarkedKey, MainButton, UnmarkedButton, Change, Unmarked
<1>7. CASE ShowFriends
  BY <1>7 DEF ShowFriends
<1>8. ASSUME NEW v \in 0 .. 2, Special(v) PROVE Quiet
  BY <1>8 DEF Special, ChooseModule, ChooseNight, Lookup, Set, Unmarked
<1>9. ASSUME NEW v \in 0 .. 3, SpinMaxsecs(v) \/ SpinAutosave(v) PROVE Quiet
  BY <1>9 DEF SpinMaxsecs, SpinAutosave, Set, Unmarked
<1>10. ~(\E v \in 1 .. 2 : SpinInterval(v)) /\ ~NextMessage
  BY DEF SpinInterval, NextMessage, Change
<1>11. CASE QuickWaypoint
  BY <1>11 DEF QuickWaypoint, Change, Unmarked
<1> HIDE DEF SettingTypes, Valued, process, window
<1>12. QED
  BY <1>1, <1>2, <1>3, <1>4, <1>5, <1>6, <1>7, <1>8, <1>9, <1>10, <1>11 DEF SettingsNext

LEMMA FileStep ==
  ASSUME FileInv, SettingsNext
  PROVE  FileInv'
<1>1. SettingTypes /\ SettingTypes' /\ ZoneFits /\ ZoneFits' /\ NothingToLose
  BY SettingTypesKept, ZoneStep DEF FileInv
<1>2. CASE ~started' \/ needtosave'
  BY <1>1, <1>2 DEF FileInv, NothingToLose
<1>3. CASE started' /\ ~needtosave' /\ ~started
  <2>1. \E option, works \in BOOLEAN : Start(option, works)
    BY <1>3 DEF SettingsNext, Quit, Crash, SaveConfig, CrashInWrite, OpenWindow, CloseWindow, Stop,
                InWindow, Toggle, Choose, Spin, Enter, FromElsewhere, MarkedKey, UnmarkedKey,
                MainButton, UnmarkedButton, Change, ShowFriends, Special, ChooseModule,
                ChooseNight, Lookup, SpinMaxsecs, SpinAutosave, SpinInterval, NextMessage,
                QuickWaypoint, NightTimer, Twilight, Set, process
  <2>2. QED
    BY <1>1, <2>1, StartKeeps DEF FileInv
<1>4. CASE started' /\ ~needtosave' /\ started
  <2>1. /\ focus' = focus /\ pda' = pda
        /\ \/ file' = Image(value, pda) /\ value' = value
           \/ /\ file' = file /\ ~needtosave
              /\ \A k \in focus \ Unmarked :
                    value'[k] = value[k] \/ (k = "friends_name" /\ value'[k] = YourName)
    BY <1>1, <1>4, QuietStep
  <2>2. Valued(value) /\ DOMAIN value' = focus /\ \A k \in focus : value'[k] \in Values(k)
    BY <1>1, <2>1 DEF SettingTypes, Valued
  <2>3. ASSUME NEW k \in Kept
        PROVE  \/ Line(file', k) = Line(Image(value', pda), k)
               \/ k = "friends_name" /\ value'[k] = YourName
    <3>1. CASE file' = Image(value, pda) /\ value' = value
      BY <3>1
    <3>2. CASE ~(file' = Image(value, pda) /\ value' = value)
      <4>1. /\ file' = file /\ ~needtosave
            /\ value'[k] = value[k] \/ (k = "friends_name" /\ value'[k] = YourName)
        BY <2>1, <3>2 DEF Kept
      <4>2. \/ Line(file, k) = Line(Image(value, pda), k)
            \/ k = "friends_name" /\ value[k] = YourName
        BY <1>1, <1>4, <4>1 DEF NothingToLose, Kept
      <4>3. k = "timezone" /\ "storetz" \in focus => value'["storetz"] = value["storetz"]
        BY <2>1, <3>2 DEF Unmarked
      <4>4. Valued(value')
        BY <2>2 DEF Valued
      <4>5. value'[k] = value[k] => Line(Image(value', pda), k) = Line(Image(value, pda), k)
        BY <2>2, <4>3, <4>4, SameLine
      <4>6. QED
        BY <4>1, <4>2, <4>5
    <3>3. QED
      BY <3>1, <3>2
  <2>4. QED
    BY <1>1, <2>1, <2>3 DEF FileInv, NothingToLose, Kept
<1>5. QED
  BY <1>2, <1>3, <1>4

LEMMA FileInit == SettingsInit => FileInv
<1> SUFFICES ASSUME SettingsInit PROVE FileInv
  OBVIOUS
<1>1. SettingTypes /\ NothingToLose
  BY SettingTypesInit DEF SettingsInit, NothingToLose
<1>2. ZoneFits
  <2>1. CASE file = Missing(focus)
    BY <2>1 DEF Missing, ZoneFits
  <2>2. ASSUME NEW v \in [focus -> 0 .. 3], \A k \in focus : v[k] \in Values(k),
               file = Image(v, FALSE)
        PROVE  ZoneFits
    BY <2>2, ImageZone DEF Valued, ZoneFits
  <2>3. QED
    BY <2>1, <2>2 DEF SettingsInit
<1>3. QED
  BY <1>1, <1>2 DEF FileInv

\* What writeconfig wrote is read again, in the mode in which it was written.
LEMMA RestartReads ==
  ASSUME SettingTypes, SettingsNext, ~started, started', file = Image(value, pda), pda' = pda,
         ~SmallScreen, NEW k \in focus
  PROVE  Volatile(k) \/ value'[k] = value[k]
<1> SUFFICES ASSUME ~Volatile(k) PROVE value'[k] = value[k]
  OBVIOUS
<1>1. PICK option, works \in BOOLEAN : Start(option, works)
  BY DEF SettingsNext, Quit, Crash, SaveConfig, CrashInWrite, OpenWindow, CloseWindow, Stop,
         InWindow, Toggle, Choose, Spin, Enter, FromElsewhere, MarkedKey, UnmarkedKey, MainButton,
         UnmarkedButton, Change, ShowFriends, Special, ChooseModule, ChooseNight, Lookup,
         SpinMaxsecs, SpinAutosave, SpinInterval, NextMessage, QuickWaypoint, NightTimer, Twilight,
         Set, process, SettingTypes
<1>2. pda = option
  BY <1>1 DEF Start
<1>3. /\ k \notin {"show_compass", "timezone", "speech", "use_database"}
      /\ k = "MapnikStatusInt" => ~(value[k] > 0)
      /\ k \in Texts => value[k] # 0
  BY DEF Volatile
<1>4. /\ value[k] \in Values(k) /\ value[k] \in 0 .. 3 /\ value[k] # Absent
      /\ \A x \in focus : file[x] = Written(value, pda, x)
  BY ValuesAre, SettingsAssumption, ImageFiled DEF SettingTypes, Valued
<1>5. ReadConfig(file, option, k) = value[k]
  <2>1. CASE k \in Fonts \cup TmpFonts
    <3>1. k \in Texts /\ OtherFont(k) \in Fonts \cup TmpFonts /\ OtherFont(OtherFont(k)) = k
      BY <2>1, Kinds, OtherFonts
    <3>2. DOMAIN file = focus /\ DOMAIN value = focus
      BY DEF SettingTypes, Valued, Filed
    <3>3. CASE pda /\ OtherFont(k) \in focus
      <4>1. file[OtherFont(k)] = value[k]
        <5> DEFINE o == OtherFont(k)
        <5>1. file[o] = Written(value, pda, o) /\ o \in Fonts \cup TmpFonts /\ OtherFont(o) = k
          BY <1>4, <3>1, <3>3
        <5> HIDE DEF o
        <5>2. Written(value, pda, o) = value[k]
          BY <3>2, <3>3, <5>1, LinesHold
        <5>3. QED
          BY <5>1, <5>2 DEF o
      <4>2. QED
        BY <1>2, <1>3, <1>4, <2>1, <3>1, <3>2, <3>3, <4>1 DEF ReadConfig
    <3>4. CASE ~(pda /\ OtherFont(k) \in focus)
      <4>1. file[k] = value[k]
        BY <1>4, <2>1, <3>2, <3>4, LinesHold
      <4>2. QED
        BY <1>2, <1>3, <1>4, <2>1, <3>2, <3>4, <4>1 DEF ReadConfig, Line
    <3>5. QED
      BY <3>3, <3>4
  <2>2. CASE k \notin Fonts \cup TmpFonts
    <3>1. file[k] = value[k]
      BY <1>3, <1>4, <2>2, LinesHold
    <3>2. QED
      BY <1>3, <1>4, <2>2, <3>1 DEF ReadConfig, Line
  <2>3. QED
    BY <2>1, <2>2
<1>6. k = "friends_id" => value[k] # 0
  BY <1>3, Kinds
<1>7. QED
  BY <1>1, <1>3, <1>5, <1>6 DEF Start

-----------------------------------------------------------------------------
(* The theorems.                                                           *)

\* Whatever crashed before, how much of the file was left, and whichever window, key,
\* button or message changed it: a setting that the handlers mark is in the file, as a
\* restart will read it, as soon as nothing is marked (settings.c, masteragent_cb).
THEOREM SettingsAreSaved == SettingsFairSpec => []NothingToLose
<1>1. FileInv /\ [SettingsNext]_settingsVars => FileInv'
  <2> SUFFICES ASSUME FileInv, [SettingsNext]_settingsVars PROVE FileInv'
    OBVIOUS
  <2>1. CASE UNCHANGED settingsVars
    BY <2>1 DEF FileInv, SettingTypes, Valued, Filed, ZoneFits, NothingToLose, settingsVars
  <2>2. QED
    BY <2>1, FileStep
<1>2. FileInv => NothingToLose
  BY DEF FileInv
<1>3. QED
  BY <1>1, <1>2, FileInit, PTL DEF SettingsFairSpec, SettingsSpec

\* Every control shows what is set, in every order in which they are used: a check button,
\* which negates the setting, never does the opposite of what it says.
THEOREM ControlsShowSettings == SettingsFairSpec => []ShownIsSet
<1> DEFINE ShownInv == SettingTypes /\ ShownIsSet
<1>1. SettingsInit => ShownInv
  BY SettingTypesInit DEF SettingsInit, ShownIsSet
<1>2. ShownInv /\ [SettingsNext]_settingsVars => ShownInv'
  <2> SUFFICES ASSUME ShownInv, [SettingsNext]_settingsVars PROVE ShownInv'
    OBVIOUS
  <2>1. CASE UNCHANGED settingsVars
    BY <2>1 DEF SettingTypes, Valued, Filed, ShownIsSet, settingsVars
  <2>2. QED
    BY <2>1, SettingTypesKept, ShownStep
<1>3. ShownInv => ShownIsSet
  OBVIOUS
<1> HIDE DEF ShownInv
<1>4. QED
  BY <1>1, <1>2, <1>3, PTL DEF SettingsFairSpec, SettingsSpec

\* The timer that saves the track stops with every change of its interval, and the end of
\* the window always starts it again (settrkautoint_cb, settings_close_cb).
THEOREM TimerIsArmed == SettingsFairSpec => []AutosaveArmed
<1> DEFINE TimerInv == SettingTypes /\ TimerFits
<1>1. SettingsInit => TimerInv
  BY SettingTypesInit DEF SettingsInit, TimerFits
<1>2. TimerInv /\ [SettingsNext]_settingsVars => TimerInv'
  <2> SUFFICES ASSUME TimerInv, [SettingsNext]_settingsVars PROVE TimerInv'
    OBVIOUS
  <2>1. CASE UNCHANGED settingsVars
    BY <2>1 DEF SettingTypes, Valued, Filed, TimerFits, Interval, settingsVars
  <2>2. QED
    BY <2>1, SettingTypesKept, TimerStep
<1>3. TimerInv => AutosaveArmed
  BY DEF TimerFits, Interval, AutosaveArmed
<1> HIDE DEF TimerInv
<1>4. QED
  BY <1>1, <1>2, <1>3, PTL DEF SettingsFairSpec, SettingsSpec

\* Where the screen does not choose the mode after the file was read, a restart in the same
\* mode finds every setting that is not volatile, in PDA mode also the fonts, which are
\* exchanged twice (writeconfig, readconfig).
THEOREM RestartFindsSettings ==
  ASSUME ~SmallScreen
  PROVE  SettingsFairSpec => Restored
<1>1. SettingTypes /\ [SettingsNext]_settingsVars => SettingTypes'
  <2> SUFFICES ASSUME SettingTypes, [SettingsNext]_settingsVars PROVE SettingTypes'
    OBVIOUS
  <2>1. CASE UNCHANGED settingsVars
    BY <2>1 DEF SettingTypes, Valued, Filed, settingsVars
  <2>2. QED
    BY <2>1, SettingTypesKept
<1> DEFINE Reads == ~started /\ started' /\ file = Image(value, pda) /\ pda' = pda =>
                        \A k \in focus : Volatile(k) \/ value'[k] = value[k]
<1>2. SettingTypes /\ SettingsNext => Reads
  BY RestartReads
<1>3. SettingTypes /\ [SettingsNext]_settingsVars => [Reads]_settingsVars
  BY <1>2
<1> HIDE DEF Reads
<1>4. SettingsFairSpec => [][Reads]_settingsVars
  BY <1>1, <1>3, SettingTypesInit, PTL DEF SettingsFairSpec, SettingsSpec
<1>5. QED
  BY <1>4 DEF Restored, Reads

================================================================================
