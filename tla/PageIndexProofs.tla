---------------------------- MODULE PageIndexProofs ----------------------------
(***************************************************************************)
(* Theorems about the page index, for any folder, any goroutines and any   *)
(* bounds: every variable keeps its type, the builds of a key are          *)
(* single-flight, fingerprints are honest, the change log tells of every   *)
(* page that changes, and a handled event stays visible.  The last part is *)
(* about the builds by themselves: a refresh returns what it asked for, a  *)
(* mark is kept until its write shows, and a reader gets what was written  *)
(* before its call, each as long as the interleavings that the code lets   *)
(* break it do not happen.  A hypothesis of the theorem names them.        *)
(***************************************************************************)
EXTENDS PageIndex, SequenceTheorems, FiniteSetTheorems, WellFoundedInduction, TLAPS

-----------------------------------------------------------------------------
(* Types *)

\* The initial values.
LEMMA Initials ==
  /\ NoCall \in Calls /\ NoBuild \in Builds /\ NoFileRead \in FileReads
  /\ NoEntry \in Entry /\ NoDelta \in [Files -> Delta]
  /\ NoRead \in [seq : Nat, fp : Fps, page : Pages]
<1>1. NoPage \in Pages /\ NoFp \in Fps /\ ZeroFp \in Fps
  BY PageIndexAssumption DEF Pages, Fps, NoPage, NoFp, ZeroFp
<1>2. NoRead \in [seq : Nat, fp : Fps, page : Pages]
  BY <1>1 DEF NoRead
<1>3. NoDelta \in [Files -> Delta]
  BY <1>1 DEF NoDelta, Delta
<1>4. NoCall \in Calls
  BY <1>1 DEF NoCall, Calls
<1>5. NoBuild \in Builds
  BY <1>1, <1>2, <1>3 DEF NoBuild, Builds, Kinds
<1>6. NoFileRead \in FileReads /\ NoEntry \in Entry
  BY <1>1 DEF NoFileRead, FileReads, NoEntry, Entry
<1> QED
  BY <1>2, <1>3, <1>4, <1>5, <1>6

\* What a stat and a read of a file can return.
LEMMA DiskTypes ==
  ASSUME DiskTypeOK, NEW f \in Files
  PROVE  /\ Version(f) \in 1 .. MaxVersion /\ Version(f) \in Nat
         /\ Stat(f) \in Fps /\ PageAt(f, Version(f)) \in Pages
<1>1. Version(f) \in 1 .. MaxVersion /\ MaxVersion \in Nat
  BY PageIndexAssumption DEF DiskTypeOK
<1> QED
  BY <1>1 DEF Stat, PageAt, Fps, Pages, ZeroFp, NoPage

\* recordChangeLocked keeps the change log's bound.
LEMMA RecordChangeType ==
  ASSUME PageTypeOK, NEW names \in SUBSET Files, NEW bounded \in BOOLEAN,
         RecordChange(names, bounded)
  PROVE  /\ revision' \in Nat
         /\ changeLog' \in Seq(Changes) /\ Len(changeLog') <= MaxChangeLog
<1> DEFINE r == [rev |-> revision + 1, names |-> names, bounded |-> bounded]
           log == Append(changeLog, r)
<1>1. /\ changeLog \in Seq(Changes) /\ Len(changeLog) <= MaxChangeLog /\ revision \in Nat
      /\ r \in Changes /\ MaxChangeLog \in Nat \ {0}
  BY PageIndexAssumption DEF PageTypeOK, Changes
<1>2. /\ revision' = revision + 1
      /\ changeLog' = IF Len(log) > MaxChangeLog
                        THEN SubSeq(log, Len(log) - MaxChangeLog + 1, Len(log)) ELSE log
  BY DEF RecordChange
<1> HIDE DEF r
<1>3. log \in Seq(Changes) /\ Len(log) = Len(changeLog) + 1 /\ Len(log) \in Nat
  BY <1>1, AppendProperties, LenProperties
<1> HIDE DEF log
<1>4. CASE Len(log) > MaxChangeLog
  <2> DEFINE m == Len(log) - MaxChangeLog + 1
             n == Len(log)
  <2>1. /\ m \in Int /\ n \in Int /\ m <= n /\ n - m + 1 = MaxChangeLog
        /\ m .. n \subseteq 1 .. Len(log)
    BY <1>1, <1>3, <1>4
  <2>2. \A i \in m .. n : log[i] \in Changes
    BY <1>3, <2>1, ElementOfSeq
  <2>3. changeLog' = SubSeq(log, m, n)
    BY <1>2, <1>4
  <2> HIDE DEF m, n
  <2>4. SubSeq(log, m, n) \in Seq(Changes) /\ Len(SubSeq(log, m, n)) = n - m + 1
    BY <2>1, <2>2, SubSeqProperties
  <2>5. Len(SubSeq(log, m, n)) <= MaxChangeLog
    BY <1>1, <2>1, <2>4
  <2>6. revision' \in Nat
    BY <1>1, <1>2
  <2> QED
    BY <2>3, <2>4, <2>5, <2>6, Zenon
<1>5. CASE ~(Len(log) > MaxChangeLog)
  BY <1>1, <1>2, <1>3, <1>5
<1> QED
  BY <1>4, <1>5

\* A group of variables a step leaves alone keeps its type.
LEMMA Frame ==
  ASSUME TypeOK
  PROVE  /\ UNCHANGED diskVars  => DiskTypeOK'
         /\ UNCHANGED pageVars  => PageTypeOK'
         /\ UNCHANGED loadVars  => LoadTypeOK'
         /\ UNCHANGED markVars  => MarkTypeOK'
         /\ UNCHANGED readSeq   => readSeq' \in Nat
         /\ UNCHANGED slotVars  => SlotTypeOK'
         /\ UNCHANGED procVars  => ProcTypeOK'
         /\ UNCHANGED boundVars => BoundTypeOK'
         /\ UNCHANGED floorVars => FloorTypeOK'
<1>1. UNCHANGED diskVars => DiskTypeOK'
  BY DEF TypeOK, DiskTypeOK, diskVars, Version
<1>2. UNCHANGED pageVars => PageTypeOK'
  BY DEF TypeOK, PageTypeOK, pageVars
<1>3. /\ UNCHANGED loadVars => LoadTypeOK'
      /\ UNCHANGED markVars => MarkTypeOK'
      /\ UNCHANGED readSeq => readSeq' \in Nat
  BY DEF TypeOK, LoadTypeOK, loadVars, MarkTypeOK, markVars
<1>4. /\ UNCHANGED slotVars => SlotTypeOK'
      /\ UNCHANGED procVars => ProcTypeOK'
  BY DEF TypeOK, SlotTypeOK, slotVars, ProcTypeOK, procVars
<1>5. /\ UNCHANGED boundVars => BoundTypeOK'
      /\ UNCHANGED floorVars => FloorTypeOK'
  BY DEF TypeOK, BoundTypeOK, boundVars, FloorTypeOK, floorVars
<1> QED
  BY <1>1, <1>2, <1>3, <1>4, <1>5

-----------------------------------------------------------------------------
(* The inductive invariant *)

FilePcs == ReadPcs \cup {"markfile", "markfolder"}

\* A goroutine that is about to stat, read, apply or mark a file knows which.
RdFile == \A p \in Procs : pc[p] \in FilePcs => rd[p].file \in Files

Inv == TypeOK /\ RdFile /\ SingleFlight

\* A goroutine that runs no build moves to a place where it runs none.
LEMMA MoveOut ==
  ASSUME pc \in [Procs -> Pcs], SlotTypeOK, SingleFlight,
         NEW p \in Procs, NEW x \in Pcs \ (OwnerPcs \cup {"queued", "wait"}),
         inflight # p, pc[p] # "queued",
         pc' = [pc EXCEPT ![p] = x], UNCHANGED slotVars,
         \A q \in Procs \ {p} : call'[q] = call[q]
  PROVE  SingleFlight'
BY DEF SingleFlight, SlotTypeOK, slotVars, OwnerPcs, ReadPcs, Pcs

\* The goroutine that runs the build goes on with it.
LEMMA MoveIn ==
  ASSUME pc \in [Procs -> Pcs], SlotTypeOK, SingleFlight,
         NEW p \in Procs, NEW x \in OwnerPcs \cup ReadPcs,
         inflight = p,
         pc' = [pc EXCEPT ![p] = x], UNCHANGED slotVars, call' = call
  PROVE  SingleFlight'
BY DEF SingleFlight, SlotTypeOK, slotVars, OwnerPcs, ReadPcs, Pcs

\* Which of the two moves.
LEMMA Owner ==
  ASSUME SingleFlight, NEW p \in Procs
  PROVE  /\ pc[p] \in OwnerPcs => inflight = p
         /\ pc[p] \notin OwnerPcs \cup ReadPcs => inflight # p
BY DEF SingleFlight

\* A goroutine's move that leaves rd alone.
LEMMA RdKept ==
  ASSUME pc \in [Procs -> Pcs], RdFile, NEW p \in Procs, NEW x,
         pc' = [pc EXCEPT ![p] = x], rd' = rd,
         x \in FilePcs => pc[p] \in FilePcs
  PROVE  RdFile'
BY DEF RdFile

-----------------------------------------------------------------------------
(* The initial states *)

\* The index starts empty, over files of one version each.
LEMMA InitInv == Init => Inv
<1> SUFFICES ASSUME Init PROVE Inv
  OBVIOUS
<1>1. NoPage \in Pages /\ NoFp \in Fps
  BY PageIndexAssumption DEF Pages, Fps, NoPage, NoFp
<1>2. DiskTypeOK
  <2>1. \A f \in Files : \E s \in EditStates : disk[f] = <<s>>
    BY DEF Init
  <2>2. \A s \in EditStates : <<s>> \in Seq(States) /\ Len(<<s>>) = 1
    BY PageIndexAssumption DEF States
  <2>3. disk \in [Files -> Seq(States)]
    BY <2>1, <2>2 DEF Init
  <2>4. \A f \in Files : Version(f) \in 1 .. MaxVersion
    <3>1. 1 \in 1 .. MaxVersion
      BY PageIndexAssumption
    <3> QED
      BY <2>1, <2>2, <3>1, Zenon DEF Version
  <2>5. store \in [Files -> Entry] /\ bucket \in BOOLEAN
    BY Initials DEF Init
  <2> QED
    BY <2>3, <2>4, <2>5 DEF DiskTypeOK
<1>3. PageTypeOK
  <2>1. changeLog \in Seq(Changes) /\ Len(changeLog) <= MaxChangeLog
    BY EmptySeq, PageIndexAssumption DEF Init
  <2> QED
    BY <1>1, <2>1 DEF Init, PageTypeOK, EmptyIndex
<1>4. LoadTypeOK /\ MarkTypeOK /\ readSeq \in Nat /\ SlotTypeOK /\ BoundTypeOK /\ FloorTypeOK
  <2>1. LoadTypeOK /\ readSeq \in Nat /\ SlotTypeOK /\ BoundTypeOK /\ FloorTypeOK
    BY DEF Init, EmptyIndex, LoadTypeOK, SlotTypeOK, BoundTypeOK, FloorTypeOK
  <2>2. \A f \in Files : writeMarked[f] = 0
    BY DEF Init, EmptyIndex
  <2>3. requestSeq = 0 /\ 0 <= 0
    BY DEF Init
  <2>4. \A f \in Files : writeMarked[f] <= requestSeq
    BY <2>2, <2>3
  <2> QED
    BY <2>1, <2>4 DEF Init, EmptyIndex, MarkTypeOK
<1>5. ProcTypeOK
  BY Initials DEF Init, EmptyIndex, ProcTypeOK, Pcs
<1>6. \A p \in Procs : pc[p] = "idle"
  BY DEF Init, EmptyIndex
<1>7. RdFile
  BY <1>6 DEF RdFile, FilePcs, ReadPcs
<1>8. SingleFlight
  BY <1>6, PageIndexAssumption DEF Init, SingleFlight, OwnerPcs, ReadPcs
<1> QED
  BY <1>2, <1>3, <1>4, <1>5, <1>7, <1>8 DEF Inv, TypeOK

-----------------------------------------------------------------------------
(* Marks *)

\* A request does not put a mark beyond the newest request.
LEMMA MarksKept ==
  ASSUME MarkTypeOK, requestSeq' \in Nat, requestSeq' >= requestSeq,
         writeMarked' = writeMarked
  PROVE  \A f \in Files : writeMarked'[f] <= requestSeq'
BY DEF MarkTypeOK

\* A folder mark.
LEMMA MarkFolderType ==
  ASSUME TypeOK, MarkFolder
  PROVE  /\ requestSeq' \in Nat /\ requestSeq' >= requestSeq
         /\ dirtySeq' \in Nat /\ revision' \in Nat
         /\ changeLog' \in Seq(Changes) /\ Len(changeLog') <= MaxChangeLog
<1>1. PageTypeOK /\ requestSeq \in Nat /\ dirtySeq \in Nat
  BY DEF TypeOK, MarkTypeOK
<1>2. CASE known
  <2>1. requestSeq' = requestSeq + 1 /\ dirtySeq' = requestSeq + 1 /\ RecordChange({}, FALSE)
    BY <1>2 DEF MarkFolder
  <2>2. revision' \in Nat /\ changeLog' \in Seq(Changes) /\ Len(changeLog') <= MaxChangeLog
    <3>1. {} \in SUBSET Files /\ FALSE \in BOOLEAN
      OBVIOUS
    <3> QED
      BY <1>1, <2>1, <3>1, RecordChangeType, Zenon
  <2> QED
    BY <1>1, <2>1, <2>2
<1>3. CASE ~known
  BY <1>1, <1>3 DEF MarkFolder, PageTypeOK
<1> QED
  BY <1>2, <1>3

\* MarkDirty and ForceReload change no goroutine's position.
LEMMA FolderMarkInv ==
  ASSUME Inv, MarkDirty \/ ForceReload
  PROVE  Inv'
<1>1. TypeOK /\ RdFile /\ SingleFlight
  BY DEF Inv
<1>2. UNCHANGED <<diskVars, snapshot, hasSnapshot, fingerprints, fileReadSeq, loadVars,
                  dirtyResolvedSeq, reloadResolvedSeq, writeMarked, readSeq, slotVars,
                  procVars, boundVars, seenFloor>>
  BY DEF MarkDirty, ForceReload
<1>3. revision' \in Nat /\ changeLog' \in Seq(Changes) /\ Len(changeLog') <= MaxChangeLog
      /\ requestSeq' \in Nat /\ dirtySeq' \in Nat /\ reloadSeq' \in Nat
      /\ requestSeq' >= requestSeq
  <2>1. CASE MarkDirty
    <3>1. MarkFolder /\ reloadSeq' = reloadSeq
      BY <2>1 DEF MarkDirty
    <3> QED
      BY <1>1, <3>1, MarkFolderType DEF TypeOK, MarkTypeOK
  <2>2. CASE ForceReload
    <3>1. /\ requestSeq' = requestSeq + 1 /\ reloadSeq' = requestSeq + 1
          /\ dirtySeq' = dirtySeq /\ RecordChange({}, FALSE)
      BY <2>2 DEF ForceReload
    <3>2. PageTypeOK /\ requestSeq \in Nat /\ dirtySeq \in Nat
      BY <1>1 DEF TypeOK, MarkTypeOK
    <3>3. {} \in SUBSET Files /\ FALSE \in BOOLEAN
      OBVIOUS
    <3>4. revision' \in Nat /\ changeLog' \in Seq(Changes) /\ Len(changeLog') <= MaxChangeLog
      BY <3>1, <3>2, <3>3, RecordChangeType, Zenon
    <3> QED
      BY <3>1, <3>2, <3>4
  <2> QED
    BY <2>1, <2>2
<1>4. PageTypeOK' /\ MarkTypeOK'
  <2>1. PageTypeOK'
    BY <1>1, <1>2, <1>3 DEF TypeOK, PageTypeOK
  <2>2. MarkTypeOK'
    BY <1>1, <1>2, <1>3, MarksKept DEF TypeOK, MarkTypeOK
  <2> QED
    BY <2>1, <2>2
<1>5. FloorTypeOK'
  <2>1. markFloor' = [f \in Files |-> Version(f)]
    BY DEF MarkDirty, ForceReload
  <2> QED
    BY <1>1, <1>2, <2>1, DiskTypes DEF TypeOK, FloorTypeOK
<1>6. TypeOK'
  BY <1>1, <1>2, <1>4, <1>5, Frame DEF TypeOK
<1>7. RdFile' /\ SingleFlight'
  BY <1>1, <1>2 DEF RdFile, SingleFlight, procVars, slotVars
<1> QED
  BY <1>6, <1>7 DEF Inv

\* MarkFileDirty, up to the lookup of the name.
LEMMA BeginMarkFileInv ==
  ASSUME Inv, NEW p \in Procs, NEW f \in Files, BeginMarkFile(p, f)
  PROVE  Inv'
<1>1. TypeOK /\ RdFile /\ SingleFlight /\ ProcTypeOK /\ SlotTypeOK
  BY DEF Inv, TypeOK
<1>2. PICK x \in {"markfile", "markfolder"} : pc' = [pc EXCEPT ![p] = x]
  BY DEF BeginMarkFile
<1>3. /\ pc[p] = "idle"
      /\ rd' = [rd EXCEPT ![p].file = f]
      /\ UNCHANGED <<diskVars, pageVars, loadVars, markVars, readSeq, slotVars, call,
                     build, boundVars, floorVars>>
  BY DEF BeginMarkFile
<1>4. rd' \in [Procs -> FileReads] /\ rd'[p].file = f
  BY <1>1, <1>3 DEF ProcTypeOK, FileReads
<1>5. ProcTypeOK'
  BY <1>1, <1>2, <1>3, <1>4 DEF ProcTypeOK, Pcs
<1>6. TypeOK'
  BY <1>1, <1>3, <1>5, Frame DEF TypeOK
<1>7. RdFile'
  <2>1. \A q \in Procs \ {p} : rd'[q] = rd[q] /\ pc'[q] = pc[q]
    BY <1>1, <1>2, <1>3 DEF ProcTypeOK
  <2> QED
    BY <1>1, <1>4, <2>1 DEF RdFile
<1>8. SingleFlight'
  <2>1. inflight # p
    BY <1>1, <1>3, Owner DEF OwnerPcs, ReadPcs
  <2> QED
    BY <1>1, <1>2, <1>3, <2>1, MoveOut DEF ProcTypeOK, OwnerPcs, Pcs
<1> QED
  BY <1>6, <1>7, <1>8 DEF Inv

\* MarkFileDirty's mark, of the file or of its folder.
LEMMA MarkFileInv ==
  ASSUME Inv, NEW p \in Procs, EndMarkFile(p) \/ WidenMarkFile(p)
  PROVE  Inv'
<1>1. TypeOK /\ RdFile /\ SingleFlight /\ ProcTypeOK /\ SlotTypeOK
  BY DEF Inv, TypeOK
<1> DEFINE f == rd[p].file
<1>2. pc[p] \in {"markfile", "markfolder"} /\ f \in Files
  BY <1>1 DEF EndMarkFile, WidenMarkFile, RdFile, FilePcs
<1>3. /\ pc' = [pc EXCEPT ![p] = "idle"]
      /\ rd' = [rd EXCEPT ![p] = NoFileRead]
      /\ markFloor' = [markFloor EXCEPT ![f] = Version(f)]
      /\ UNCHANGED <<diskVars, snapshot, hasSnapshot, fingerprints, fileReadSeq,
                     storeLoaded, storedBaseline, dirtyResolvedSeq, reloadSeq,
                     reloadResolvedSeq, readSeq, slotVars, call, build, boundVars,
                     seenFloor>>
  BY DEF EndMarkFile, WidenMarkFile, loadVars
<1> HIDE DEF f
<1>4. /\ revision' \in Nat /\ changeLog' \in Seq(Changes) /\ Len(changeLog') <= MaxChangeLog
      /\ requestSeq' \in Nat /\ dirtySeq' \in Nat /\ writeMarked' \in [Files -> Nat]
      /\ \A g \in Files : writeMarked'[g] <= requestSeq'
      /\ known' \in BOOLEAN
  <2>1. CASE EndMarkFile(p)
    <3>1. /\ known' = TRUE /\ requestSeq' = requestSeq + 1 /\ dirtySeq' = dirtySeq
          /\ writeMarked' = [writeMarked EXCEPT ![f] = requestSeq + 1]
          /\ RecordChange({f}, TRUE)
      BY <2>1 DEF EndMarkFile, f
    <3>2. PageTypeOK /\ requestSeq \in Nat /\ dirtySeq \in Nat /\ writeMarked \in [Files -> Nat]
      BY <1>1 DEF TypeOK, MarkTypeOK
    <3>3. {f} \in SUBSET Files /\ TRUE \in BOOLEAN
      BY <1>2
    <3>4. revision' \in Nat /\ changeLog' \in Seq(Changes) /\ Len(changeLog') <= MaxChangeLog
      BY <3>1, <3>2, <3>3, RecordChangeType, Zenon
    <3>5. requestSeq + 1 \in Nat
      BY <3>2
    <3>6. writeMarked' \in [Files -> Nat]
      BY <3>1, <3>2, <3>5
    <3>7. \A g \in Files : writeMarked'[g] <= requestSeq'
      <4>1. \A g \in Files : writeMarked[g] \in Nat /\ writeMarked[g] <= requestSeq
        BY <1>1 DEF TypeOK, MarkTypeOK
      <4> QED
        BY <3>1, <3>2, <4>1
    <3> QED
      BY <3>1, <3>2, <3>4, <3>5, <3>6, <3>7
  <2>2. CASE WidenMarkFile(p)
    <3>1. MarkFolder /\ writeMarked' = writeMarked /\ known' = known
      BY <2>2 DEF WidenMarkFile, loadVars
    <3>2. /\ revision' \in Nat /\ changeLog' \in Seq(Changes)
          /\ Len(changeLog') <= MaxChangeLog
          /\ requestSeq' \in Nat /\ requestSeq' >= requestSeq /\ dirtySeq' \in Nat
      BY <1>1, <3>1, MarkFolderType
    <3>3. MarkTypeOK /\ writeMarked \in [Files -> Nat] /\ known \in BOOLEAN
      BY <1>1 DEF TypeOK, MarkTypeOK, LoadTypeOK
    <3> QED
      BY <3>1, <3>2, <3>3, MarksKept
  <2> QED
    BY <2>1, <2>2
<1>5. PageTypeOK' /\ MarkTypeOK' /\ LoadTypeOK'
  BY <1>1, <1>3, <1>4 DEF TypeOK, PageTypeOK, MarkTypeOK, LoadTypeOK
<1>6. FloorTypeOK'
  BY <1>1, <1>2, <1>3, DiskTypes DEF TypeOK, FloorTypeOK
<1>7. ProcTypeOK'
  BY <1>1, <1>3, Initials DEF ProcTypeOK, Pcs
<1>8. TypeOK'
  BY <1>1, <1>3, <1>5, <1>6, <1>7, Frame DEF TypeOK
<1>9. RdFile'
  <2>1. pc'[p] = "idle" /\ \A q \in Procs \ {p} : rd'[q] = rd[q] /\ pc'[q] = pc[q]
    BY <1>1, <1>3 DEF ProcTypeOK
  <2> QED
    BY <1>1, <2>1 DEF RdFile, FilePcs, ReadPcs
<1>10. SingleFlight'
  <2>1. inflight # p
    BY <1>1, <1>2, Owner DEF OwnerPcs, ReadPcs
  <2> QED
    BY <1>1, <1>2, <1>3, <2>1, MoveOut DEF ProcTypeOK, OwnerPcs, Pcs
<1> QED
  BY <1>8, <1>9, <1>10 DEF Inv

-----------------------------------------------------------------------------
(* ensure *)

\* A goroutine between two builds moves on with a new record of its call.
LEMMA CallMove ==
  ASSUME Inv, NEW p \in Procs, NEW c \in Calls,
         NEW x \in Pcs \ (OwnerPcs \cup FilePcs \cup {"queued", "wait"}),
         pc[p] \notin OwnerPcs \cup ReadPcs \cup {"queued"},
         pc' = [pc EXCEPT ![p] = x], call' = [call EXCEPT ![p] = c],
         UNCHANGED <<slotVars, build, rd>>
  PROVE  ProcTypeOK' /\ RdFile' /\ SingleFlight'
<1>1. TypeOK /\ RdFile /\ SingleFlight /\ ProcTypeOK /\ SlotTypeOK
  BY DEF Inv, TypeOK
<1>2. ProcTypeOK'
  BY <1>1 DEF ProcTypeOK
<1>3. RdFile'
  BY <1>1, RdKept DEF ProcTypeOK
<1>4. SingleFlight'
  <2>1. inflight # p /\ pc[p] # "queued"
    BY <1>1, Owner
  <2>2. \A q \in Procs \ {p} : call'[q] = call[q]
    BY <1>1 DEF ProcTypeOK
  <2> QED
    BY <1>1, <2>1, <2>2, MoveOut DEF ProcTypeOK
<1> QED
  BY <1>2, <1>3, <1>4

\* The places of ensure are none of a build's.
LEMMA EnsurePcs ==
  /\ {"idle", "loop", "return"} \subseteq Pcs \ (OwnerPcs \cup FilePcs \cup {"queued", "wait"})
  /\ \A x \in {"idle", "loop", "return", "wait", "persist", "savefile"} :
       x \notin OwnerPcs \cup ReadPcs \cup {"queued"}
BY DEF Pcs, OwnerPcs, FilePcs, ReadPcs

\* ListPages and Build enter ensure.
LEMMA BeginListInv ==
  ASSUME Inv, NEW p \in Procs, BeginList(p)
  PROVE  Inv'
<1>1. TypeOK
  BY DEF Inv
<1> DEFINE c == [NoCall EXCEPT !.need = requestSeq, !.floor = markFloor]
<1>2. /\ pc[p] = "idle" /\ known' = TRUE
      /\ pc' = [pc EXCEPT ![p] = "loop"] /\ call' = [call EXCEPT ![p] = c]
      /\ UNCHANGED <<diskVars, pageVars, storeLoaded, storedBaseline, markVars, readSeq,
                     slotVars, build, rd, boundVars, floorVars>>
  BY DEF BeginList
<1>3. c \in Calls
  BY <1>1, Initials DEF TypeOK, MarkTypeOK, FloorTypeOK, Calls
<1> HIDE DEF c
<1>4. ProcTypeOK' /\ RdFile' /\ SingleFlight'
  BY <1>2, <1>3, CallMove, EnsurePcs
<1>5. LoadTypeOK'
  BY <1>1, <1>2 DEF TypeOK, LoadTypeOK
<1> QED
  BY <1>1, <1>2, <1>4, <1>5, Frame DEF Inv, TypeOK

\* A refresh enters ensure.
LEMMA EnterRefreshInv ==
  ASSUME Inv, NEW p \in Procs, NEW floor \in [Files -> Nat],
         pc[p] = "idle", EnterRefresh(p, floor), BoundTypeOK'
  PROVE  Inv'
<1>1. TypeOK /\ requestSeq + 1 \in Nat
  BY DEF Inv, TypeOK, MarkTypeOK
<1> DEFINE c == [NoCall EXCEPT !.need = requestSeq + 1, !.floor = floor]
<1>2. /\ known' = TRUE /\ requestSeq' = requestSeq + 1
      /\ pc' = [pc EXCEPT ![p] = "loop"] /\ call' = [call EXCEPT ![p] = c]
      /\ UNCHANGED <<diskVars, pageVars, storeLoaded, storedBaseline, dirtySeq,
                     dirtyResolvedSeq, reloadSeq, reloadResolvedSeq, writeMarked, readSeq,
                     slotVars, build, rd, floorVars>>
  BY DEF EnterRefresh
<1>3. c \in Calls
  <2>1. \A n \in Nat : [NoCall EXCEPT !.need = n, !.floor = floor] \in Calls
    BY Initials DEF Calls
  <2> QED
    BY <1>1, <2>1
<1> HIDE DEF c
<1>4. ProcTypeOK' /\ RdFile' /\ SingleFlight'
  BY <1>2, <1>3, CallMove, EnsurePcs
<1>5. LoadTypeOK'
  BY <1>1, <1>2 DEF TypeOK, LoadTypeOK
<1>6. MarkTypeOK'
  <2>1. MarkTypeOK /\ requestSeq' \in Nat /\ requestSeq' >= requestSeq
    BY <1>1, <1>2 DEF TypeOK, MarkTypeOK
  <2>2. \A f \in Files : writeMarked'[f] <= requestSeq'
    BY <1>2, <2>1, MarksKept
  <2> QED
    BY <1>2, <2>1, <2>2 DEF MarkTypeOK
<1> QED
  BY <1>1, <1>2, <1>4, <1>5, <1>6, Frame DEF Inv, TypeOK

\* Refresh.
LEMMA BeginRefreshInv ==
  ASSUME Inv, NEW p \in Procs, BeginRefresh(p)
  PROVE  Inv'
<1>1. [f \in Files |-> Version(f)] \in [Files -> Nat]
  BY DiskTypes DEF Inv, TypeOK
<1>2. BoundTypeOK'
  BY Frame DEF BeginRefresh, Inv
<1> QED
  BY <1>1, <1>2, EnterRefreshInv DEF BeginRefresh

\* A goroutine that had nothing to wait for, gives up or returns.
LEMMA ServeInv ==
  ASSUME Inv, NEW p \in Procs, Serve(p)
  PROVE  Inv'
<1>1. TypeOK /\ ProcTypeOK /\ PageTypeOK
  BY DEF Inv, TypeOK
<1> DEFINE pages == IF call[p].first THEN snapshot ELSE call[p].pages
           c == [NoCall EXCEPT !.pages = pages, !.floor = call[p].floor]
<1>2. /\ pc[p] = "loop"
      /\ pc' = [pc EXCEPT ![p] = "return"] /\ call' = [call EXCEPT ![p] = c]
      /\ UNCHANGED <<diskVars, pageVars, loadVars, markVars, readSeq, slotVars, build, rd,
                     boundVars, floorVars>>
  BY DEF Serve
<1>3. c \in Calls
  <2>1. pages \in [Files -> Pages] /\ call[p].floor \in [Files -> Nat]
    BY <1>1 DEF ProcTypeOK, PageTypeOK, Calls
  <2> HIDE DEF pages
  <2> QED
    BY <2>1, Initials DEF Calls
<1> HIDE DEF c
<1>4. ProcTypeOK' /\ RdFile' /\ SingleFlight'
  BY <1>2, <1>3, CallMove, EnsurePcs
<1> QED
  BY <1>1, <1>2, <1>4, Frame DEF Inv, TypeOK

\* A call that returns, or gives up waiting, leaves builds and marks alone.
LEMMA ReturnInv ==
  ASSUME Inv, NEW p \in Procs, Cancel(p) \/ Return(p)
  PROVE  Inv'
<1>1. TypeOK /\ ProcTypeOK /\ FloorTypeOK
  BY DEF Inv, TypeOK
<1>2. /\ pc[p] \in {"wait", "return"}
      /\ pc' = [pc EXCEPT ![p] = "idle"] /\ call' = [call EXCEPT ![p] = NoCall]
      /\ UNCHANGED <<diskVars, pageVars, loadVars, markVars, readSeq, slotVars, build, rd,
                     boundVars, markFloor>>
  BY DEF Cancel, Return, floorVars
<1>3. ProcTypeOK' /\ RdFile' /\ SingleFlight'
  BY <1>2, CallMove, EnsurePcs, Initials
<1>4. FloorTypeOK'
  <2>1. CASE Cancel(p)
    BY <1>1, <2>1, Frame DEF Cancel
  <2>2. CASE Return(p)
    <3>1. call[p].floor \in [Files -> Nat]
      BY <1>1 DEF ProcTypeOK, Calls
    <3>2. [f \in Files |-> Later(seenFloor[f], call[p].floor[f])] \in [Files -> Nat]
      BY <1>1, <3>1 DEF FloorTypeOK, Later
    <3> QED
      BY <1>1, <1>2, <2>2, <3>2 DEF Return, FloorTypeOK
  <2> QED
    BY <2>1, <2>2
<1> QED
  BY <1>1, <1>2, <1>3, <1>4, Frame DEF Inv, TypeOK

\* A set of naturals has a least element.
LEMMA NatMin ==
  ASSUME NEW T \in SUBSET Nat, T # {}
  PROVE  \E x \in T : \A y \in T : x <= y
<1> DEFINE less == {ss \in Nat \X Nat : ss[1] < ss[2]}
<1>1. IsWellFoundedOn(less, Nat)
  BY NatLessThanWellFounded, Zenon DEF OpToRel
<1>2. PICK x \in T : \A y \in T : ~(<<y, x>> \in less)
  BY <1>1, WFMin, Zenon
<1>3. \A y \in T : ~(y < x)
  BY <1>2
<1> QED
  BY <1>3

\* The newest mark exists, marks being bounded by the newest request, and no mark is newer.
LEMMA MaxMarkedSeqType ==
  ASSUME MarkTypeOK, MarkedFiles # {}
  PROVE  MaxMarkedSeq \in Nat /\ \A f \in MarkedFiles : writeMarked[f] <= MaxMarkedSeq
<1> DEFINE seqs == {writeMarked[f] : f \in MarkedFiles}
           gaps == {n \in Nat : \E s \in seqs : s = requestSeq - n}
<1>1. /\ requestSeq \in Nat /\ MarkedFiles \subseteq Files
      /\ \A f \in Files : writeMarked[f] \in Nat /\ writeMarked[f] <= requestSeq
  BY DEF MarkTypeOK, MarkedFiles
<1>2. \A s \in seqs : s \in Nat /\ requestSeq - s \in gaps
  BY <1>1
<1>3. gaps \in SUBSET Nat /\ gaps # {}
  BY <1>2
<1>4. PICK n \in gaps : \A m \in gaps : n <= m
  BY <1>3, NatMin
<1>5. PICK s \in seqs : s = requestSeq - n
  BY <1>4
<1>6. \A t \in seqs : t <= s
  <2> SUFFICES ASSUME NEW t \in seqs PROVE t <= s
    OBVIOUS
  <2>1. n \in Nat /\ s \in Nat /\ t \in Nat /\ n <= requestSeq - t
    BY <1>2, <1>4, <1>5
  <2> QED
    BY <1>1, <1>5, <2>1
<1>7. \E x \in seqs : \A f \in MarkedFiles : writeMarked[f] <= x
  BY <1>5, <1>6
<1>8. MaxMarkedSeq \in seqs /\ \A f \in MarkedFiles : writeMarked[f] <= MaxMarkedSeq
  BY <1>7 DEF MaxMarkedSeq
<1> QED
  BY <1>2, <1>8

\* pendingLocked returns a kind of build and a request.
LEMMA PendingType ==
  ASSUME TypeOK, NEW refresh
  PROVE  Pending(refresh).kind \in Kinds /\ Pending(refresh).need \in Nat
<1>1. /\ requestSeq \in Nat /\ reloadSeq \in Nat /\ dirtySeq \in Nat /\ 0 \in Nat
      /\ MarkedFiles # {} => MaxMarkedSeq \in Nat
  BY MaxMarkedSeqType DEF TypeOK, MarkTypeOK
<1>2. /\ {"hydrate", "cold", "statdiff", "reload", "filereads"} \subseteq Kinds
  BY DEF Kinds
<1>3. CASE ~hasSnapshot /\ UseStore /\ ~storeLoaded
  BY <1>1, <1>2, <1>3 DEF Pending
<1>4. CASE ~hasSnapshot /\ (~UseStore \/ storeLoaded)
  BY <1>1, <1>2, <1>4 DEF Pending
<1>5. CASE hasSnapshot /\ refresh
  BY <1>1, <1>2, <1>5 DEF Pending
<1>6. CASE hasSnapshot /\ ~refresh
  BY <1>1, <1>2, <1>6 DEF Pending
<1> QED
  BY <1>3, <1>4, <1>5, <1>6

\* acquireLocked: whoever waits, waits on a build that somebody runs or has queued,
\* and a new build is started or queued in a free slot only.
LEMMA AcquireInv ==
  ASSUME Inv, NEW p \in Procs, Acquire(p)
  PROVE  Inv'
<1>1. TypeOK /\ RdFile /\ SingleFlight /\ ProcTypeOK /\ SlotTypeOK /\ requestSeq \in Nat
  BY DEF Inv, TypeOK, MarkTypeOK
<1> DEFINE w == Pending(IsRefresh(p))
           c(q) == [call[p] EXCEPT !.on = q, !.want = w.need]
           b == [NoBuild EXCEPT !.kind = w.kind, !.startSeq = requestSeq]
<1>2. /\ pc[p] = "loop"
      /\ UNCHANGED <<diskVars, pageVars, loadVars, markVars, readSeq, rd, boundVars,
                     floorVars>>
  BY DEF Acquire
<1>3. \/ /\ \E q \in {inflight, followUp} \ {None} : call' = [call EXCEPT ![p] = c(q)]
         /\ pc' = [pc EXCEPT ![p] = "wait"]
         /\ UNCHANGED <<slotVars, build>>
      \/ /\ followUp = None /\ inflight # None /\ followUp' = p /\ inflight' = inflight
         /\ call' = [call EXCEPT ![p] = c(p)] /\ build' = [build EXCEPT ![p] = b]
         /\ pc' = [pc EXCEPT ![p] = "queued"]
      \/ /\ followUp = None /\ inflight = None /\ inflight' = p /\ followUp' = followUp
         /\ call' = [call EXCEPT ![p] = c(p)] /\ build' = [build EXCEPT ![p] = b]
         /\ pc' = [pc EXCEPT ![p] = "start"]
  BY <1>1 DEF Acquire, ProcTypeOK, Calls
<1>4. w.kind \in Kinds /\ w.need \in Nat
  BY <1>1, PendingType
<1> HIDE DEF w
<1>5. \A q \in Procs \cup {None} : c(q) \in Calls /\ c(q).on = q
  BY <1>1, <1>4 DEF ProcTypeOK, Calls
<1>6. b \in Builds
  BY <1>1, <1>4, Initials DEF Builds
<1> HIDE DEF b, c
<1>7. ProcTypeOK' /\ SlotTypeOK'
  BY <1>1, <1>2, <1>3, <1>5, <1>6 DEF ProcTypeOK, SlotTypeOK, slotVars, Pcs
<1>8. RdFile'
  <2>1. PICK x \in {"wait", "queued", "start"} : pc' = [pc EXCEPT ![p] = x]
    BY <1>3
  <2> QED
    BY <1>1, <1>2, <2>1, RdKept DEF ProcTypeOK, FilePcs, ReadPcs
<1>9. SingleFlight'
  <2>1. None \notin Procs /\ inflight # p /\ followUp # p
    BY <1>1, <1>2, PageIndexAssumption DEF SingleFlight, OwnerPcs, ReadPcs
  <2>2. CASE /\ \E q \in {inflight, followUp} \ {None} : call' = [call EXCEPT ![p] = c(q)]
             /\ pc' = [pc EXCEPT ![p] = "wait"]
             /\ UNCHANGED <<slotVars, build>>
    <3>1. /\ call'[p].on \in {inflight, followUp} \ {None}
          /\ \A q \in Procs \ {p} : call'[q] = call[q] /\ pc'[q] = pc[q]
          /\ pc'[p] = "wait" /\ inflight' = inflight /\ followUp' = followUp
      BY <1>1, <1>5, <2>2 DEF ProcTypeOK, SlotTypeOK, slotVars
    <3> QED
      BY <1>1, <2>1, <3>1 DEF SingleFlight, OwnerPcs, ReadPcs
  <2>3. CASE /\ followUp = None /\ inflight # None /\ followUp' = p /\ inflight' = inflight
             /\ call' = [call EXCEPT ![p] = c(p)] /\ build' = [build EXCEPT ![p] = b]
             /\ pc' = [pc EXCEPT ![p] = "queued"]
    <3>1. /\ \A q \in Procs \ {p} : call'[q] = call[q] /\ pc'[q] = pc[q]
          /\ pc'[p] = "queued"
      BY <1>1, <2>3 DEF ProcTypeOK
    <3> QED
      BY <1>1, <2>1, <2>3, <3>1 DEF SingleFlight, OwnerPcs, ReadPcs
  <2>4. CASE /\ followUp = None /\ inflight = None /\ inflight' = p /\ followUp' = followUp
             /\ call' = [call EXCEPT ![p] = c(p)] /\ build' = [build EXCEPT ![p] = b]
             /\ pc' = [pc EXCEPT ![p] = "start"]
    <3>1. /\ \A q \in Procs \ {p} : call'[q] = call[q] /\ pc'[q] = pc[q]
          /\ pc'[p] = "start"
      BY <1>1, <2>4 DEF ProcTypeOK
    <3> QED
      BY <1>1, <2>1, <2>4, <3>1 DEF SingleFlight, OwnerPcs, ReadPcs
  <2> QED
    BY <1>3, <2>2, <2>3, <2>4
<1> QED
  BY <1>1, <1>2, <1>7, <1>8, <1>9, Frame DEF Inv, TypeOK

-----------------------------------------------------------------------------
(* execute: listings *)

\* The goroutine that runs the build moves on with a new record of it.
LEMMA OwnerMove ==
  ASSUME Inv, NEW p \in Procs, NEW b \in Builds, NEW x \in OwnerPcs, pc[p] \in OwnerPcs,
         pc' = [pc EXCEPT ![p] = x], build' = [build EXCEPT ![p] = b],
         UNCHANGED <<slotVars, call, rd>>
  PROVE  ProcTypeOK' /\ RdFile' /\ SingleFlight'
<1>1. TypeOK /\ RdFile /\ SingleFlight /\ ProcTypeOK /\ SlotTypeOK
  BY DEF Inv, TypeOK
<1>2. x \in Pcs /\ x \notin FilePcs
  BY DEF OwnerPcs, Pcs, FilePcs, ReadPcs
<1>3. ProcTypeOK'
  BY <1>1, <1>2 DEF ProcTypeOK
<1>4. RdFile'
  BY <1>1, <1>2, RdKept DEF ProcTypeOK
<1>5. SingleFlight'
  BY <1>1, Owner, MoveIn DEF ProcTypeOK
<1> QED
  BY <1>3, <1>4, <1>5

\* The fields of a build have their types.
LEMMA BuildTypes ==
  ASSUME TypeOK, NEW p \in Procs
  PROVE  /\ build[p] \in Builds
         /\ build[p].startSeq \in Nat /\ build[p].full \in BOOLEAN
         /\ build[p].names \in SUBSET Files /\ build[p].todo \in SUBSET Files
         /\ build[p].fps \in [Files -> Fps]
         /\ build[p].reads \in [Files -> [seq : Nat, fp : Fps, page : Pages]]
         /\ build[p].delta \in [Files -> Delta] /\ build[p].pages \in [Files -> Pages]
BY DEF TypeOK, ProcTypeOK, Builds

\* executeHydrate.
LEMMA HydrateInv ==
  ASSUME Inv, NEW p \in Procs, Hydrate(p)
  PROVE  Inv'
<1>1. TypeOK /\ ProcTypeOK /\ DiskTypeOK /\ PageTypeOK /\ LoadTypeOK /\ BoundTypeOK
  BY DEF Inv, TypeOK
<1>2. /\ pc[p] = "start" /\ storeLoaded' = TRUE
      /\ pc' = [pc EXCEPT ![p] = "seeded"]
      /\ UNCHANGED <<diskVars, hasSnapshot, fileReadSeq, revision, changeLog, known,
                     markVars, readSeq, slotVars, call, build, rd, events, crashes,
                     floorVars>>
  BY DEF Hydrate
<1>3. /\ snapshot' \in [Files -> Pages] /\ fingerprints' \in [Files -> Fps]
      /\ storedBaseline' \in BOOLEAN
  <2>1. /\ [f \in Files |-> store[f].page] \in [Files -> Pages]
        /\ [f \in Files |-> store[f].fp] \in [Files -> Fps]
    BY <1>1 DEF DiskTypeOK, Entry
  <2> QED
    BY <1>1, <2>1 DEF Hydrate, PageTypeOK, LoadTypeOK
<1>4. faults' \in Nat
  BY <1>1 DEF Hydrate, Fault, BoundTypeOK
<1>5. PageTypeOK' /\ LoadTypeOK' /\ BoundTypeOK'
  BY <1>1, <1>2, <1>3, <1>4 DEF PageTypeOK, LoadTypeOK, BoundTypeOK
<1>6. build[p] \in Builds /\ build' = [build EXCEPT ![p] = build[p]]
  BY <1>1, <1>2 DEF ProcTypeOK
<1>7. ProcTypeOK' /\ RdFile' /\ SingleFlight'
  BY <1>2, <1>6, OwnerMove DEF OwnerPcs
<1> QED
  BY <1>1, <1>2, <1>5, <1>7, Frame DEF Inv, TypeOK

\* The first steps of a listing.
LEMMA StartListingInv ==
  ASSUME Inv, NEW p \in Procs, StartListing(p)
  PROVE  Inv'
<1>1. TypeOK /\ ProcTypeOK /\ MarkTypeOK /\ readSeq \in Nat
  BY DEF Inv, TypeOK
<1> DEFINE full == build[p].kind \in {"cold", "reload"} \/ ~(hasSnapshot \/ storedBaseline)
           forced == IF full THEN {} ELSE MarkedFiles
           b == [build[p] EXCEPT !.startSeq = requestSeq, !.full = full,
                                 !.forced = forced, !.listingSeq = readSeq + 1]
<1>2. /\ pc[p] \in OwnerPcs /\ build' = [build EXCEPT ![p] = b]
      /\ pc' = [pc EXCEPT ![p] = "readdir"]
      /\ writeMarked' = [f \in Files |-> 0] /\ readSeq' = readSeq + 1
      /\ UNCHANGED <<diskVars, pageVars, loadVars, requestSeq, dirtySeq, dirtyResolvedSeq,
                     reloadSeq, reloadResolvedSeq, slotVars, call, rd, boundVars, floorVars>>
  BY <1>1 DEF StartListing, ProcTypeOK, Builds, OwnerPcs
<1>3. b \in Builds
  <2>1. full \in BOOLEAN /\ forced \in SUBSET Files /\ readSeq + 1 \in Nat
    BY <1>1 DEF MarkedFiles
  <2> HIDE DEF full, forced
  <2> QED
    BY <1>1, <2>1, BuildTypes DEF Builds, MarkTypeOK
<1> HIDE DEF b
<1>4. ProcTypeOK' /\ RdFile' /\ SingleFlight'
  BY <1>2, <1>3, OwnerMove DEF OwnerPcs
<1>5. MarkTypeOK' /\ readSeq' \in Nat
  <2>1. \A f \in Files : writeMarked'[f] <= requestSeq'
    BY <1>1, <1>2 DEF MarkTypeOK
  <2> QED
    BY <1>1, <1>2, <2>1 DEF MarkTypeOK
<1> QED
  BY <1>1, <1>2, <1>4, <1>5, Frame DEF Inv, TypeOK

\* Reading the directory and its stats only fills the caller's listing.
LEMMA ListFilesInv ==
  ASSUME Inv, NEW p \in Procs, ReadDir(p) \/ StatDir(p)
  PROVE  Inv'
<1>1. TypeOK /\ ProcTypeOK /\ DiskTypeOK
  BY DEF Inv, TypeOK
<1>2. /\ pc[p] \in OwnerPcs
      /\ UNCHANGED <<diskVars, pageVars, loadVars, markVars, readSeq, slotVars, call, rd,
                     boundVars, floorVars>>
  BY DEF ReadDir, StatDir, OwnerPcs
<1>3. PICK x \in OwnerPcs : pc' = [pc EXCEPT ![p] = x]
  BY DEF ReadDir, StatDir, OwnerPcs
<1>4. \E b \in Builds : build' = [build EXCEPT ![p] = b]
  <2>1. CASE ReadDir(p)
    <3> DEFINE names == {f \in Files : Now(f) # "gone"}
    <3>1. build' = [build EXCEPT ![p] = [build[p] EXCEPT !.names = names]]
      BY <1>1, <2>1 DEF ReadDir, ProcTypeOK, Builds
    <3>2. names \in SUBSET Files
      OBVIOUS
    <3> HIDE DEF names
    <3>3. [build[p] EXCEPT !.names = names] \in Builds
      BY <1>1, <3>2, BuildTypes DEF Builds
    <3> QED
      BY <3>1, <3>3
  <2>2. CASE StatDir(p)
    <3> DEFINE fps == [f \in Files |-> IF f \in build[p].names THEN Stat(f) ELSE NoFp]
    <3>1. build' = [build EXCEPT ![p] = [build[p] EXCEPT !.fps = fps]]
      BY <1>1, <2>2 DEF StatDir, ProcTypeOK, Builds
    <3>2. fps \in [Files -> Fps]
      <4>1. \A f \in Files : Stat(f) \in Fps
        BY <1>1, DiskTypes
      <4>2. NoFp \in Fps
        BY PageIndexAssumption DEF Fps, NoFp
      <4> QED
        BY <4>1, <4>2
    <3> HIDE DEF fps
    <3>3. [build[p] EXCEPT !.fps = fps] \in Builds
      BY <1>1, <3>2, BuildTypes DEF Builds
    <3> QED
      BY <3>1, <3>3
  <2> QED
    BY <2>1, <2>2
<1>5. ProcTypeOK' /\ RdFile' /\ SingleFlight'
  BY <1>2, <1>3, <1>4, OwnerMove
<1> QED
  BY <1>1, <1>2, <1>5, Frame DEF Inv, TypeOK

\* The comparison of a listing with the recorded fingerprints.
LEMMA DiffInv ==
  ASSUME Inv, NEW p \in Procs, Diff(p)
  PROVE  Inv'
<1>1. TypeOK /\ ProcTypeOK /\ PageTypeOK /\ MarkTypeOK
  BY DEF Inv, TypeOK
<1> DEFINE todo == IF build[p].full THEN build[p].names ELSE ToRead(build[p])
           b1 == [build[p] EXCEPT !.pages = snapshot]
           b2 == [build[p] EXCEPT !.todo = todo, !.forced = {}, !.fps = NoBuild.fps]
<1>2. /\ pc[p] \in OwnerPcs
      /\ UNCHANGED <<diskVars, pageVars, loadVars, requestSeq, dirtySeq, reloadSeq,
                     reloadResolvedSeq, writeMarked, readSeq, slotVars, call, rd, boundVars,
                     floorVars>>
  BY DEF Diff, OwnerPcs
<1>3. /\ build' = [build EXCEPT ![p] = b1] \/ build' = [build EXCEPT ![p] = b2]
      /\ dirtyResolvedSeq' \in {dirtyResolvedSeq, build[p].startSeq}
  BY <1>1 DEF Diff, ProcTypeOK, Builds, ResolvedSeq
<1>4. PICK x \in OwnerPcs : pc' = [pc EXCEPT ![p] = x]
  BY DEF Diff, OwnerPcs
<1>5. todo \in SUBSET Files
  BY <1>1, BuildTypes DEF ToRead
<1>6. NoBuild.fps \in [Files -> Fps]
  BY Initials DEF Builds
<1> HIDE DEF todo
<1>7. b1 \in Builds /\ b2 \in Builds
  BY <1>1, <1>5, <1>6, BuildTypes DEF Builds, PageTypeOK
<1> HIDE DEF b1, b2
<1>8. ProcTypeOK' /\ RdFile' /\ SingleFlight'
  BY <1>2, <1>3, <1>4, <1>7, OwnerMove
<1>9. MarkTypeOK'
  BY <1>1, <1>2, <1>3, BuildTypes DEF MarkTypeOK
<1> QED
  BY <1>1, <1>2, <1>8, <1>9, Frame DEF Inv, TypeOK

\* A failed listing.
LEMMA FailListingInv ==
  ASSUME Inv, NEW p \in Procs, FailListing(p)
  PROVE  Inv'
<1>1. TypeOK /\ ProcTypeOK /\ PageTypeOK /\ LoadTypeOK /\ BoundTypeOK
  BY DEF Inv, TypeOK
<1> DEFINE b == [build[p] EXCEPT !.err = TRUE]
<1>2. /\ pc[p] \in OwnerPcs /\ pc' = [pc EXCEPT ![p] = "release"]
      /\ build' = [build EXCEPT ![p] = b] /\ storedBaseline' = FALSE
      /\ faults' = faults + 1
      /\ UNCHANGED <<diskVars, fileReadSeq, revision, changeLog, known, storeLoaded,
                     markVars, readSeq, slotVars, call, rd, events, crashes, floorVars>>
  BY <1>1 DEF FailListing, Fault, OwnerPcs, ProcTypeOK, Builds
<1>3. /\ snapshot' \in [Files -> Pages] /\ fingerprints' \in [Files -> Fps]
      /\ hasSnapshot' \in BOOLEAN
  <2>1. NoPage \in Pages /\ NoFp \in Fps
    BY PageIndexAssumption DEF Pages, Fps, NoPage, NoFp
  <2> QED
    BY <1>1, <2>1 DEF FailListing, PageTypeOK
<1>4. PageTypeOK' /\ LoadTypeOK' /\ BoundTypeOK'
  <2>1. PageTypeOK'
    BY <1>1, <1>2, <1>3 DEF PageTypeOK
  <2>2. LoadTypeOK'
    BY <1>1, <1>2 DEF LoadTypeOK
  <2>3. faults' = faults + 1 /\ events' = events /\ crashes' = crashes
    BY <1>2
  <2>4. BoundTypeOK'
    BY <1>1, <2>3 DEF BoundTypeOK
  <2> QED
    BY <2>1, <2>2, <2>4
<1>5. b \in Builds
  BY <1>1, BuildTypes DEF Builds
<1> HIDE DEF b
<1>6. ProcTypeOK' /\ RdFile' /\ SingleFlight'
  BY <1>2, <1>5, OwnerMove DEF OwnerPcs
<1> QED
  BY <1>1, <1>2, <1>4, <1>6, Frame DEF Inv, TypeOK

\* What a listing's merge leaves.
LEMMA MergeTypes ==
  ASSUME TypeOK, NEW p \in Procs
  PROVE  /\ MergedPages(build[p]) \in [Files -> Pages]
         /\ MergedFingerprints(build[p]) \in [Files -> Fps]
         /\ ListingDelta(build[p]) \in [Files -> Delta]
         /\ ListingChangedNames(build[p]) \in SUBSET Files
<1> DEFINE b == build[p]
<1>1. /\ \A f \in Files : b.reads[f].page \in Pages /\ b.reads[f].fp \in Fps
      /\ \A f \in Files : snapshot[f] \in Pages /\ fingerprints[f] \in Fps
  BY BuildTypes DEF TypeOK, PageTypeOK
<1>2. NoPage \in Pages /\ NoFp \in Fps
  BY PageIndexAssumption DEF Pages, Fps, NoPage, NoFp
<1>3. MergedPages(b) \in [Files -> Pages]
  BY <1>1, <1>2 DEF MergedPages
<1>4. MergedFingerprints(b) \in [Files -> Fps]
  BY <1>1, <1>2 DEF MergedFingerprints
<1>5. ListingDelta(b) \in [Files -> Delta]
  <2>1. \A f \in Files : Put(b.reads[f]) \in Delta /\ NoDelta[f] \in Delta
    BY <1>1, Initials DEF Put, Delta
  <2>2. Delete \in Delta
    BY <1>2 DEF Delete, Delta
  <2> QED
    BY <2>1, <2>2 DEF ListingDelta
<1>6. ListingChangedNames(b) \in SUBSET Files
  BY DEF ListingChangedNames
<1> QED
  BY <1>3, <1>4, <1>5, <1>6

\* The merge.
LEMMA MergeInv ==
  ASSUME Inv, NEW p \in Procs, Merge(p)
  PROVE  Inv'
<1>1. TypeOK /\ ProcTypeOK /\ PageTypeOK /\ LoadTypeOK /\ MarkTypeOK
  BY DEF Inv, TypeOK
<1> DEFINE b == [build[p] EXCEPT !.pages = MergedPages(build[p]),
                                 !.delta = ListingDelta(build[p])]
<1>2. /\ pc[p] \in OwnerPcs /\ pc' = [pc EXCEPT ![p] = "release"]
      /\ build' = [build EXCEPT ![p] = b]
      /\ snapshot' = MergedPages(build[p])
      /\ fingerprints' = MergedFingerprints(build[p])
      /\ hasSnapshot' = TRUE /\ storedBaseline' = FALSE
      /\ dirtyResolvedSeq' = build[p].startSeq
      /\ reloadResolvedSeq' \in {build[p].startSeq, reloadResolvedSeq}
      /\ UNCHANGED <<diskVars, known, storeLoaded, requestSeq, dirtySeq, reloadSeq,
                     writeMarked, readSeq, slotVars, call, rd, boundVars, floorVars>>
  BY <1>1 DEF Merge, OwnerPcs, ProcTypeOK, Builds, ResolvedSeq
<1>3. fileReadSeq' \in [Files -> Nat]
  <2>1. fileReadSeq' = [f \in Files |-> IF Applied(build[p], f) THEN build[p].reads[f].seq
                                        ELSE fileReadSeq[f]]
    BY DEF Merge
  <2>2. \A f \in Files : build[p].reads[f].seq \in Nat /\ fileReadSeq[f] \in Nat
    BY <1>1, BuildTypes DEF PageTypeOK
  <2> QED
    BY <2>1, <2>2
<1>4. /\ revision' \in Nat
      /\ changeLog' \in Seq(Changes) /\ Len(changeLog') <= MaxChangeLog
  <2> DEFINE names == ListingChangedNames(build[p])
             bounded == ~build[p].full /\ hasSnapshot
  <2>1. RecordChange(names, bounded) \/ UNCHANGED <<revision, changeLog>>
    BY DEF Merge
  <2>2. names \in SUBSET Files /\ bounded \in BOOLEAN
    BY <1>1, MergeTypes
  <2> HIDE DEF names, bounded
  <2>3. CASE RecordChange(names, bounded)
    BY <1>1, <2>2, <2>3, RecordChangeType, Zenon
  <2>4. CASE UNCHANGED <<revision, changeLog>>
    BY <1>1, <2>4 DEF PageTypeOK
  <2> QED
    BY <2>1, <2>3, <2>4
<1>5. PageTypeOK' /\ LoadTypeOK'
  BY <1>1, <1>2, <1>3, <1>4, MergeTypes DEF PageTypeOK, LoadTypeOK
<1>6. MarkTypeOK'
  BY <1>1, <1>2, BuildTypes DEF MarkTypeOK
<1>7. b \in Builds
  BY <1>1, MergeTypes, BuildTypes DEF Builds
<1> HIDE DEF b
<1>8. ProcTypeOK' /\ RdFile' /\ SingleFlight'
  BY <1>2, <1>7, OwnerMove DEF OwnerPcs
<1> QED
  BY <1>1, <1>2, <1>5, <1>6, <1>8, Frame DEF Inv, TypeOK

-----------------------------------------------------------------------------
(* execute: single-file reads *)

\* executeFileReads takes the marks out.
LEMMA StartFileReadsInv ==
  ASSUME Inv, NEW p \in Procs, StartFileReads(p)
  PROVE  Inv'
<1>1. TypeOK /\ ProcTypeOK /\ MarkTypeOK
  BY DEF Inv, TypeOK
<1> DEFINE b == [build[p] EXCEPT !.startSeq = requestSeq, !.todo = MarkedFiles]
<1>2. /\ pc[p] \in OwnerPcs /\ build' = [build EXCEPT ![p] = b]
      /\ writeMarked' = [f \in Files |-> 0]
      /\ UNCHANGED <<diskVars, pageVars, loadVars, requestSeq, dirtySeq, dirtyResolvedSeq,
                     reloadSeq, reloadResolvedSeq, readSeq, slotVars, call, rd, boundVars,
                     floorVars>>
  BY <1>1 DEF StartFileReads, ProcTypeOK, Builds, OwnerPcs
<1>3. PICK x \in OwnerPcs : pc' = [pc EXCEPT ![p] = x]
  BY DEF StartFileReads, OwnerPcs
<1>4. b \in Builds
  <2>1. MarkedFiles \in SUBSET Files
    BY DEF MarkedFiles
  <2> QED
    BY <1>1, <2>1, BuildTypes DEF Builds, MarkTypeOK
<1> HIDE DEF b
<1>5. ProcTypeOK' /\ RdFile' /\ SingleFlight'
  BY <1>2, <1>3, <1>4, OwnerMove
<1>6. MarkTypeOK'
  <2>1. \A f \in Files : writeMarked'[f] <= requestSeq'
    BY <1>1, <1>2 DEF MarkTypeOK
  <2> QED
    BY <1>1, <1>2, <2>1 DEF MarkTypeOK
<1> QED
  BY <1>1, <1>2, <1>5, <1>6, Frame DEF Inv, TypeOK

\* A goroutine goes on with, or starts, the read of a file.
LEMMA ReadMove ==
  ASSUME Inv, NEW p \in Procs, NEW x \in ReadPcs, NEW r \in FileReads, r.file \in Files,
         pc[p] \in ReadPcs \cup {"idle", "collect"},
         pc' = [pc EXCEPT ![p] = x], rd' = [rd EXCEPT ![p] = r],
         build' \in [Procs -> Builds], UNCHANGED <<slotVars, call>>
  PROVE  ProcTypeOK' /\ RdFile' /\ SingleFlight'
<1>1. TypeOK /\ RdFile /\ SingleFlight /\ ProcTypeOK /\ SlotTypeOK
  BY DEF Inv, TypeOK
<1>2. ProcTypeOK'
  BY <1>1 DEF ProcTypeOK, ReadPcs, Pcs
<1>3. RdFile'
  <2>1. rd'[p] = r /\ \A q \in Procs \ {p} : rd'[q] = rd[q] /\ pc'[q] = pc[q]
    BY <1>1 DEF ProcTypeOK
  <2> QED
    BY <1>1, <2>1 DEF RdFile
<1>4. CASE inflight = p
  BY <1>1, <1>2, <1>3, <1>4, MoveIn DEF ProcTypeOK
<1>5. CASE inflight # p
  <2>1. x \in Pcs \ (OwnerPcs \cup {"queued", "wait"}) /\ pc[p] # "queued"
    BY DEF ReadPcs, OwnerPcs, Pcs
  <2> QED
    BY <1>1, <1>2, <1>3, <1>5, <2>1, MoveOut DEF ProcTypeOK
<1> QED
  BY <1>4, <1>5

\* A goroutine has finished the read of a file.
LEMMA ReadDone ==
  ASSUME Inv, NEW p \in Procs, pc[p] \in ReadPcs,
         NEW x \in Pcs \ (FilePcs \cup {"queued", "wait"}),
         inflight = p <=> x \in OwnerPcs,
         pc' = [pc EXCEPT ![p] = x], rd' = [rd EXCEPT ![p] = NoFileRead],
         build' \in [Procs -> Builds], UNCHANGED <<slotVars, call>>
  PROVE  ProcTypeOK' /\ RdFile' /\ SingleFlight'
<1>1. TypeOK /\ RdFile /\ SingleFlight /\ ProcTypeOK /\ SlotTypeOK
  BY DEF Inv, TypeOK
<1>2. ProcTypeOK'
  BY <1>1, Initials DEF ProcTypeOK
<1>3. RdFile'
  <2>1. pc'[p] = x /\ \A q \in Procs \ {p} : rd'[q] = rd[q] /\ pc'[q] = pc[q]
    BY <1>1 DEF ProcTypeOK
  <2> QED
    BY <1>1, <2>1 DEF RdFile
<1>4. CASE inflight = p
  BY <1>1, <1>2, <1>3, <1>4, MoveIn DEF ProcTypeOK
<1>5. CASE inflight # p
  <2>1. pc[p] # "queued"
    BY DEF ReadPcs
  <2> QED
    BY <1>1, <1>2, <1>3, <1>5, <2>1, MoveOut DEF ProcTypeOK
<1> QED
  BY <1>4, <1>5

\* The next file of a build.
LEMMA NextFileInv ==
  ASSUME Inv, NEW p \in Procs, NEW f \in Files, NextFile(p, f)
  PROVE  Inv'
<1>1. TypeOK /\ ProcTypeOK /\ readSeq \in Nat /\ readSeq + 1 \in Nat
  BY DEF Inv, TypeOK
<1> DEFINE r == [rd[p] EXCEPT !.file = f, !.seq = readSeq + 1]
           b == [build[p] EXCEPT !.todo = build[p].todo \ {f}]
<1>2. /\ pc[p] = "collect" /\ pc' = [pc EXCEPT ![p] = "stat"] /\ readSeq' = readSeq + 1
      /\ UNCHANGED <<diskVars, pageVars, loadVars, markVars, slotVars, call, boundVars,
                     floorVars>>
  BY DEF NextFile
<1>3. rd' = [rd EXCEPT ![p] = r] /\ build' = [build EXCEPT ![p] = b]
  BY <1>1 DEF NextFile, ProcTypeOK, FileReads, Builds
<1>4. r \in FileReads /\ r.file \in Files
  <2>1. rd[p] \in FileReads
    BY <1>1 DEF ProcTypeOK
  <2>2. \A n \in Nat : [rd[p] EXCEPT !.file = f, !.seq = n] \in FileReads
    BY <2>1 DEF FileReads
  <2>3. r.file = f
    BY <2>1 DEF FileReads
  <2> QED
    BY <1>1, <2>2, <2>3
<1>5. build' \in [Procs -> Builds]
  <2>1. b \in Builds
    BY <1>1, BuildTypes DEF Builds
  <2> HIDE DEF b
  <2> QED
    BY <1>1, <1>3, <2>1 DEF ProcTypeOK
<1> HIDE DEF r, b
<1>6. ProcTypeOK' /\ RdFile' /\ SingleFlight'
  BY <1>2, <1>3, <1>4, <1>5, ReadMove DEF ReadPcs
<1> QED
  BY <1>1, <1>2, <1>6, Frame DEF Inv, TypeOK

\* A read handed to the listing it belongs to, or to its application.
LEMMA DeliverInv ==
  ASSUME Inv, NEW p \in Procs, NEW r \in FileReads, r.file \in Files,
         pc[p] \in {"stat", "read"}, Deliver(p, r), UNCHANGED <<slotVars, call>>
  PROVE  ProcTypeOK' /\ RdFile' /\ SingleFlight'
<1>1. TypeOK /\ ProcTypeOK
  BY DEF Inv, TypeOK
<1>2. CASE IsListing(p)
  <2> DEFINE e == [seq |-> r.seq, fp |-> r.fp, page |-> r.page]
             reads == [build[p].reads EXCEPT ![r.file] = e]
             b == [build[p] EXCEPT !.reads = reads]
  <2>1. /\ inflight = p /\ rd' = [rd EXCEPT ![p] = NoFileRead]
        /\ build' = [build EXCEPT ![p] = b]
    BY <1>1, <1>2 DEF Deliver, IsListing, ProcTypeOK, Builds
  <2>2. PICK x \in {"merge", "collect"} : pc' = [pc EXCEPT ![p] = x]
    BY <1>2 DEF Deliver
  <2>3. e \in [seq : Nat, fp : Fps, page : Pages]
    BY DEF FileReads
  <2> HIDE DEF e
  <2>4. reads \in [Files -> [seq : Nat, fp : Fps, page : Pages]]
    BY <1>1, <2>3, BuildTypes
  <2> HIDE DEF reads
  <2>5. b \in Builds
    BY <1>1, <2>4, BuildTypes DEF Builds
  <2> HIDE DEF b
  <2>6. build' \in [Procs -> Builds]
    BY <1>1, <2>1, <2>5 DEF ProcTypeOK
  <2>7. x \in Pcs \ (FilePcs \cup {"queued", "wait"}) /\ x \in OwnerPcs
    BY DEF Pcs, FilePcs, ReadPcs, OwnerPcs
  <2> QED
    BY <2>1, <2>2, <2>6, <2>7, ReadDone DEF ReadPcs
<1>3. CASE ~IsListing(p)
  <2>1. /\ rd' = [rd EXCEPT ![p] = r] /\ pc' = [pc EXCEPT ![p] = "apply"]
        /\ build' \in [Procs -> Builds]
    BY <1>1, <1>3 DEF Deliver, ProcTypeOK
  <2> QED
    BY <2>1, ReadMove DEF ReadPcs
<1> QED
  BY <1>2, <1>3

\* Taking a file's fingerprint only moves its reader.
LEMMA StatFileInv ==
  ASSUME Inv, NEW p \in Procs, StatFile(p)
  PROVE  Inv'
<1>1. TypeOK /\ ProcTypeOK /\ DiskTypeOK
  BY DEF Inv, TypeOK
<1> DEFINE fp == Stat(rd[p].file)
           r == [rd[p] EXCEPT !.fp = fp]
<1>2. /\ pc[p] = "stat"
      /\ UNCHANGED <<diskVars, pageVars, loadVars, markVars, readSeq, slotVars, call,
                     boundVars, floorVars>>
  BY DEF StatFile
<1>3. rd[p].file \in Files /\ rd[p] \in FileReads
  BY <1>1, <1>2 DEF Inv, RdFile, FilePcs, ReadPcs, ProcTypeOK
<1>4. fp \in Fps
  BY <1>1, <1>3, DiskTypes
<1>5. \/ Deliver(p, r)
      \/ /\ rd' = [rd EXCEPT ![p] = r] /\ pc' = [pc EXCEPT ![p] = "read"]
         /\ build' = build
  BY <1>1 DEF StatFile, ProcTypeOK, FileReads
<1> HIDE DEF fp
<1>6. r \in FileReads /\ r.file \in Files
  BY <1>3, <1>4 DEF FileReads
<1> HIDE DEF r
<1>7. ProcTypeOK' /\ RdFile' /\ SingleFlight'
  <2>1. CASE Deliver(p, r)
    BY <1>2, <1>6, <2>1, DeliverInv
  <2>2. CASE /\ rd' = [rd EXCEPT ![p] = r] /\ pc' = [pc EXCEPT ![p] = "read"]
             /\ build' = build
    BY <1>1, <1>2, <1>6, <2>2, ReadMove DEF ReadPcs, ProcTypeOK
  <2> QED
    BY <1>5, <2>1, <2>2
<1> QED
  BY <1>1, <1>2, <1>7, Frame DEF Inv, TypeOK

\* Reading a file only moves its reader.
LEMMA ReadFileInv ==
  ASSUME Inv, NEW p \in Procs, ReadFile(p)
  PROVE  Inv'
<1>1. TypeOK /\ ProcTypeOK /\ DiskTypeOK /\ BoundTypeOK
  BY DEF Inv, TypeOK
<1> DEFINE pg == PageAt(rd[p].file, Version(rd[p].file))
           r == [rd[p] EXCEPT !.page = pg]
<1>2. /\ pc[p] = "read"
      /\ UNCHANGED <<diskVars, pageVars, loadVars, markVars, readSeq, slotVars, call,
                     events, crashes, floorVars>>
  BY DEF ReadFile
<1>3. rd[p].file \in Files /\ rd[p] \in FileReads
  BY <1>1, <1>2 DEF Inv, RdFile, FilePcs, ReadPcs, ProcTypeOK
<1>4. pg \in Pages
  BY <1>1, <1>3, DiskTypes
<1>5. /\ Deliver(p, r) \/ Deliver(p, rd[p])
      /\ faults' \in {faults, faults + 1}
  BY DEF ReadFile, Fault
<1> HIDE DEF pg
<1>6. r \in FileReads /\ r.file \in Files
  BY <1>3, <1>4 DEF FileReads
<1> HIDE DEF r
<1>7. ProcTypeOK' /\ RdFile' /\ SingleFlight'
  BY <1>2, <1>3, <1>5, <1>6, DeliverInv
<1>8. BoundTypeOK'
  BY <1>1, <1>2, <1>5 DEF BoundTypeOK
<1> QED
  BY <1>1, <1>2, <1>7, <1>8, Frame DEF Inv, TypeOK

\* applyFileReadLocked.
LEMMA ApplyFileReadInv ==
  ASSUME Inv, NEW p \in Procs, ApplyFileRead(p)
  PROVE  Inv'
<1>1. TypeOK /\ ProcTypeOK /\ PageTypeOK /\ FloorTypeOK
  BY DEF Inv, TypeOK
<1> DEFINE r == rd[p]
           f == r.file
           late == r.seq < fileReadSeq[f]
           delta == IF late THEN build[p].delta
                    ELSE [build[p].delta EXCEPT ![f] = IF r.fp = ZeroFp THEN Delete ELSE Put(r)]
           b == [build[p] EXCEPT !.delta = Saved(delta)]
           x == IF inflight = p
                  THEN IF build[p].todo = {} THEN "release" ELSE "collect"
                  ELSE IF Saves(delta) THEN "savefile" ELSE "idle"
<1>2. /\ pc[p] = "apply"
      /\ rd' = [rd EXCEPT ![p] = NoFileRead]
      /\ UNCHANGED <<diskVars, hasSnapshot, loadVars, markVars, readSeq, slotVars, call,
                     boundVars, markFloor>>
  BY DEF ApplyFileRead
<1>3. pc' = [pc EXCEPT ![p] = x] /\ build' = [build EXCEPT ![p] = b]
  BY <1>1 DEF ApplyFileRead, ProcTypeOK, Builds
<1>4. /\ f \in Files /\ r \in FileReads
      /\ r.seq \in Nat /\ r.fp \in Fps /\ r.page \in Pages /\ r.from \in Nat
  BY <1>1, <1>2 DEF Inv, RdFile, FilePcs, ReadPcs, ProcTypeOK, FileReads
<1>5. delta \in [Files -> Delta]
  <2>1. NoPage \in Pages /\ NoFp \in Fps
    BY PageIndexAssumption DEF Pages, Fps, NoPage, NoFp
  <2>2. Delete \in Delta /\ Put(r) \in Delta
    BY <1>4, <2>1 DEF Delete, Put, Delta
  <2> QED
    BY <1>1, <1>4, <2>2, BuildTypes
<1> HIDE DEF delta
<1>6. b \in Builds
  <2>1. Saved(delta) \in [Files -> Delta]
    BY <1>5, Initials DEF Saved
  <2> QED
    BY <1>1, <2>1, BuildTypes DEF Builds
<1> HIDE DEF b
<1>7. build' \in [Procs -> Builds]
  BY <1>1, <1>3, <1>6 DEF ProcTypeOK
<1>8. /\ x \in Pcs \ (FilePcs \cup {"queued", "wait"})
      /\ inflight = p <=> x \in OwnerPcs
  BY DEF Pcs, FilePcs, ReadPcs, OwnerPcs
<1> HIDE DEF x
<1>9. ProcTypeOK' /\ RdFile' /\ SingleFlight'
  BY <1>2, <1>3, <1>7, <1>8, ReadDone DEF ReadPcs
<1>10. PageTypeOK'
  <2>1. CASE late
    BY <1>1, <1>2, <2>1 DEF ApplyFileRead, PageTypeOK
  <2>2. CASE ~late
    <3>1. /\ fileReadSeq' = [fileReadSeq EXCEPT ![f] = r.seq]
          /\ snapshot' = [snapshot EXCEPT ![f] = r.page]
          /\ fingerprints' = [fingerprints EXCEPT ![f] = RecordedFp(r)]
          /\ RecordChange({f}, TRUE)
      BY <2>2 DEF ApplyFileRead
    <3>2. RecordedFp(r) \in Fps
      BY <1>4, PageIndexAssumption DEF RecordedFp, Fps, NoFp
    <3>3. {f} \in SUBSET Files /\ TRUE \in BOOLEAN
      BY <1>4
    <3>4. revision' \in Nat /\ changeLog' \in Seq(Changes) /\ Len(changeLog') <= MaxChangeLog
      BY <1>1, <3>1, <3>3, RecordChangeType, Zenon
    <3>5. /\ fileReadSeq' \in [Files -> Nat] /\ snapshot' \in [Files -> Pages]
          /\ fingerprints' \in [Files -> Fps]
      BY <1>1, <1>4, <3>1, <3>2 DEF PageTypeOK
    <3> QED
      BY <1>1, <1>2, <3>4, <3>5 DEF PageTypeOK
  <2> QED
    BY <2>1, <2>2
<1>11. FloorTypeOK'
  <2>1. seenFloor' = seenFloor \/ seenFloor' = [seenFloor EXCEPT ![f] = Later(@, r.from)]
    BY DEF ApplyFileRead
  <2>2. Later(seenFloor[f], r.from) \in Nat
    BY <1>1, <1>4 DEF FloorTypeOK, Later
  <2> QED
    BY <1>1, <1>2, <2>1, <2>2 DEF FloorTypeOK
<1> QED
  BY <1>1, <1>2, <1>9, <1>10, <1>11, Frame DEF Inv, TypeOK

\* RefreshFile.
LEMMA BeginRefreshFileInv ==
  ASSUME Inv, NEW p \in Procs, NEW f \in Files, BeginRefreshFile(p, f)
  PROVE  Inv'
<1>1. TypeOK /\ ProcTypeOK /\ DiskTypeOK /\ BoundTypeOK /\ readSeq + 1 \in Nat
  BY DEF Inv, TypeOK
<1>2. pc[p] = "idle" /\ events' = events + 1 /\ UNCHANGED <<faults, crashes>>
  BY DEF BeginRefreshFile
<1>3. BoundTypeOK'
  BY <1>1, <1>2 DEF BoundTypeOK
<1>4. Version(f) \in Nat
  BY <1>1, DiskTypes
<1>5. CASE EnterRefresh(p, [NoCall.floor EXCEPT ![f] = Version(f)])
  <2>1. NoCall.floor \in [Files -> Nat]
    BY Initials DEF Calls
  <2>2. [NoCall.floor EXCEPT ![f] = Version(f)] \in [Files -> Nat]
    BY <1>4, <2>1
  <2> QED
    BY <1>2, <1>3, <1>5, <2>2, EnterRefreshInv
<1> DEFINE r == [NoFileRead EXCEPT !.file = f, !.seq = readSeq + 1, !.from = Version(f)]
<1>6. CASE /\ readSeq' = readSeq + 1
           /\ rd' = [rd EXCEPT ![p] = r]
           /\ pc' = [pc EXCEPT ![p] = "stat"]
           /\ UNCHANGED <<diskVars, pageVars, loadVars, markVars, slotVars, call, build,
                          floorVars>>
  <2>1. \A m, n \in Nat :
          LET q == [NoFileRead EXCEPT !.file = f, !.seq = m, !.from = n]
          IN  q \in FileReads /\ q.file = f
    BY Initials DEF FileReads
  <2>2. r \in FileReads /\ r.file \in Files
    BY <1>1, <1>4, <2>1
  <2> HIDE DEF r
  <2>3. ProcTypeOK' /\ RdFile' /\ SingleFlight'
    BY <1>1, <1>2, <1>6, <2>2, ReadMove DEF ReadPcs, ProcTypeOK
  <2> QED
    BY <1>1, <1>3, <1>6, <2>3, Frame DEF Inv, TypeOK
<1> QED
  BY <1>5, <1>6 DEF BeginRefreshFile

-----------------------------------------------------------------------------
(* The end of a build *)

\* A goroutine whose build, or whose wait for one, is over is back in ensure.
LEMMA AfterAwaitPcs ==
  \A c : AfterAwait(c) \in {"return", "loop"}
BY DEF AfterAwait

\* What a waiter becomes when its build ends is a position and a call again.
LEMMA AwaitedType ==
  ASSUME TypeOK, NEW q \in Procs, NEW b \in Builds, NEW pages \in [Files -> Pages]
  PROVE  Awaited(q, b, pages) \in Calls
<1>1. call[q] \in Calls /\ b.err \in BOOLEAN
  BY DEF TypeOK, ProcTypeOK, Builds
<1>2. call[q].floor \in [Files -> Nat] /\ call[q].need \in Nat /\ (~b.err) \in BOOLEAN
  BY <1>1 DEF Calls
<1> QED
  BY <1>2, Initials DEF Awaited, Calls

\* release: the finished build's goroutine and its waiters leave, and the queued
\* build, with its waiters, takes the slot.
LEMMA ReleaseInv ==
  ASSUME Inv, NEW p \in Procs, Release(p)
  PROVE  Inv'
<1>1. /\ TypeOK /\ RdFile /\ SingleFlight /\ ProcTypeOK /\ SlotTypeOK /\ PageTypeOK
      /\ MarkTypeOK
  BY DEF Inv, TypeOK
<1> DEFINE b == build[p]
           pages == IF b.err \/ b.kind # "filereads" THEN b.pages ELSE snapshot
           Woken(q) == pc[q] = "wait" /\ call[q].on = p
           NewBuild(q) == IF q = p THEN [NoBuild EXCEPT !.delta = Saved(b.delta)]
                          ELSE IF q = followUp
                            THEN [build[q] EXCEPT !.startSeq = requestSeq]
                          ELSE build[q]
           NewCall(q) == IF q = p \/ Woken(q) THEN Awaited(q, b, pages) ELSE call[q]
           NewPc(q) == IF q = p /\ Saves(b.delta) THEN "persist"
                       ELSE IF q = p \/ Woken(q) THEN AfterAwait(Awaited(q, b, pages))
                       ELSE IF q = followUp THEN "start" ELSE pc[q]
<1>2. /\ pc[p] = "release" /\ inflight' = followUp /\ followUp' = None
      /\ pc' = [q \in Procs |-> NewPc(q)]
      /\ call' = [q \in Procs |-> NewCall(q)]
      /\ build' = [q \in Procs |-> NewBuild(q)]
      /\ UNCHANGED <<diskVars, pageVars, loadVars, markVars, readSeq, rd, boundVars,
                     floorVars>>
  BY DEF Release
<1>3. pages \in [Files -> Pages]
  BY <1>1, BuildTypes DEF PageTypeOK
<1> HIDE DEF pages
<1>4. \A q \in Procs : NewCall(q) \in Calls
  <2> SUFFICES ASSUME NEW q \in Procs PROVE NewCall(q) \in Calls
    OBVIOUS
  <2>1. Awaited(q, b, pages) \in Calls /\ call[q] \in Calls
    BY <1>1, <1>3, AwaitedType, BuildTypes DEF ProcTypeOK
  <2> QED
    BY <2>1
<1>5. \A q \in Procs : NewBuild(q) \in Builds
  <2> SUFFICES ASSUME NEW q \in Procs PROVE NewBuild(q) \in Builds
    OBVIOUS
  <2>1. Saved(b.delta) \in [Files -> Delta]
    BY <1>1, BuildTypes, Initials DEF Saved
  <2>2. [NoBuild EXCEPT !.delta = Saved(b.delta)] \in Builds
    BY <2>1, Initials DEF Builds
  <2>3. build[q] \in Builds /\ requestSeq \in Nat
    BY <1>1, BuildTypes DEF MarkTypeOK
  <2>4. [build[q] EXCEPT !.startSeq = requestSeq] \in Builds
    BY <2>3 DEF Builds
  <2> QED
    BY <2>2, <2>3, <2>4
<1>6. \A q \in Procs :
        /\ q = p => NewPc(q) \in {"persist", "return", "loop"}
        /\ Woken(q) /\ q # p => NewPc(q) \in {"return", "loop"}
        /\ q = followUp /\ q # p /\ ~Woken(q) => NewPc(q) = "start"
        /\ q \notin {p, followUp} /\ ~Woken(q) => NewPc(q) = pc[q]
        /\ ~Woken(q) /\ q # p => NewCall(q) = call[q]
  BY AfterAwaitPcs
<1> HIDE DEF NewPc, NewCall, NewBuild
<1>7. \A q \in Procs : pc'[q] = NewPc(q) /\ call'[q] = NewCall(q)
  BY <1>2
<1>8. ProcTypeOK' /\ SlotTypeOK'
  <2>1. \A q \in Procs : NewPc(q) \in Pcs
    BY <1>1, <1>6 DEF ProcTypeOK, Pcs
  <2>2. pc' \in [Procs -> Pcs] /\ call' \in [Procs -> Calls] /\ build' \in [Procs -> Builds]
    BY <1>2, <1>4, <1>5, <2>1
  <2> QED
    BY <1>1, <1>2, <2>2 DEF ProcTypeOK, SlotTypeOK
<1>9. RdFile'
  <2> SUFFICES ASSUME NEW q \in Procs, pc'[q] \in FilePcs PROVE rd'[q].file \in Files
    BY DEF RdFile
  <2>1. pc[q] \in FilePcs
    BY <1>6, <1>7 DEF FilePcs, ReadPcs
  <2> QED
    BY <1>1, <1>2, <2>1 DEF RdFile
<1>10. SingleFlight'
  <2>1. inflight = p /\ followUp # p /\ None \notin Procs
    BY <1>1, <1>2, PageIndexAssumption DEF SingleFlight, OwnerPcs
  <2>2. \A q \in Procs : q = followUp => pc[q] = "queued" /\ ~Woken(q)
    BY <1>1 DEF SingleFlight
  <2>3. \A q \in Procs : pc[q] \in OwnerPcs => q = p
    BY <1>1, <2>1 DEF SingleFlight
  <2>4. followUp' # None => inflight' \notin {None, followUp'}
    BY <1>2
  <2> SUFFICES ASSUME NEW q \in Procs
               PROVE  /\ inflight' = q => pc'[q] \in OwnerPcs \cup ReadPcs
                      /\ pc'[q] \in OwnerPcs => inflight' = q
                      /\ followUp' = q <=> pc'[q] = "queued"
                      /\ pc'[q] = "wait" => call'[q].on \in {inflight', followUp'} \ {None}
    BY <2>4 DEF SingleFlight
  <2>5. CASE q = p
    BY <1>2, <1>6, <1>7, <2>1, <2>5 DEF OwnerPcs, ReadPcs
  <2>6. CASE q # p /\ Woken(q)
    BY <1>2, <1>6, <1>7, <2>1, <2>2, <2>6 DEF OwnerPcs, ReadPcs
  <2>7. CASE q # p /\ q = followUp
    BY <1>2, <1>6, <1>7, <2>1, <2>2, <2>7 DEF OwnerPcs, ReadPcs
  <2>8. CASE q \notin {p, followUp} /\ ~Woken(q)
    <3>1. pc'[q] = pc[q] /\ call'[q] = call[q]
      BY <1>6, <1>7, <2>8
    <3>2. pc[q] # "queued" /\ pc[q] \notin OwnerPcs
      BY <1>1, <2>3, <2>8 DEF SingleFlight
    <3>3. pc[q] = "wait" => call[q].on = followUp /\ followUp # None
      BY <1>1, <2>1, <2>8 DEF SingleFlight
    <3> QED
      BY <1>2, <2>1, <2>8, <3>1, <3>2, <3>3
  <2> QED
    BY <2>2, <2>5, <2>6, <2>7, <2>8
<1> QED
  BY <1>1, <1>2, <1>8, <1>9, <1>10, Frame DEF Inv, TypeOK

\* writeThrough.
LEMMA PersistInv ==
  ASSUME Inv, NEW p \in Procs, Persist(p)
  PROVE  Inv'
<1>1. TypeOK /\ ProcTypeOK /\ DiskTypeOK /\ BoundTypeOK
  BY DEF Inv, TypeOK
<1>2. /\ pc[p] \in {"persist", "savefile"}
      /\ build' = [build EXCEPT ![p] = NoBuild]
      /\ UNCHANGED <<disk, pageVars, loadVars, markVars, readSeq, slotVars, call, rd, events,
                     crashes, floorVars>>
  BY DEF Persist
<1>3. PICK x \in {"idle", "return", "loop"} : pc' = [pc EXCEPT ![p] = x]
  BY AfterAwaitPcs DEF Persist
<1>4. store' \in [Files -> Entry] /\ bucket' \in BOOLEAN
  <2> DEFINE delta == build[p].delta
             new == [f \in Files |->
                       CASE delta[f].op = "put"    -> [fp |-> delta[f].fp, page |-> delta[f].page]
                         [] delta[f].op = "delete" -> NoEntry
                         [] delta[f].op = "keep"   -> store[f]]
  <2>1. \/ store' = new /\ bucket' = TRUE
        \/ UNCHANGED <<store, bucket>>
    BY DEF Persist
  <2>2. \A f \in Files : /\ delta[f].op \in {"put", "delete", "keep"}
                         /\ [fp |-> delta[f].fp, page |-> delta[f].page] \in Entry
                         /\ store[f] \in Entry /\ NoEntry \in Entry
    BY <1>1, BuildTypes, Initials DEF Delta, Entry, DiskTypeOK
  <2> HIDE DEF delta
  <2>3. new \in [Files -> Entry]
    BY <2>2
  <2> QED
    BY <1>1, <2>1, <2>3 DEF DiskTypeOK
<1>5. DiskTypeOK'
  BY <1>1, <1>2, <1>4 DEF DiskTypeOK, Version
<1>6. BoundTypeOK'
  BY <1>1, <1>2 DEF Persist, Fault, BoundTypeOK
<1>7. ProcTypeOK'
  BY <1>1, <1>2, <1>3, Initials DEF ProcTypeOK, Pcs
<1>8. RdFile'
  BY <1>1, <1>2, <1>3, RdKept DEF Inv, ProcTypeOK, FilePcs, ReadPcs
<1>9. SingleFlight'
  <2>1. inflight # p /\ pc[p] # "queued"
    BY <1>2, Owner, EnsurePcs DEF Inv
  <2>2. x \in Pcs \ (OwnerPcs \cup {"queued", "wait"})
    BY DEF Pcs, OwnerPcs
  <2> QED
    BY <1>1, <1>2, <1>3, <2>1, <2>2, MoveOut DEF Inv, TypeOK, ProcTypeOK
<1> QED
  BY <1>1, <1>2, <1>5, <1>6, <1>7, <1>8, <1>9, Frame DEF Inv, TypeOK

-----------------------------------------------------------------------------
(* The environment *)

\* An edit adds a version to one file.
LEMMA EditInv ==
  ASSUME Inv, NEW f \in Files, NEW s \in EditStates, Edit(f, s)
  PROVE  Inv'
<1>1. TypeOK /\ DiskTypeOK
  BY DEF Inv, TypeOK
<1>2. /\ disk' = [disk EXCEPT ![f] = Append(@, s)] /\ Version(f) < MaxVersion
      /\ UNCHANGED <<store, bucket, pageVars, loadVars, markVars, readSeq, slotVars,
                     procVars, boundVars, floorVars>>
  BY DEF Edit
<1>3. /\ s \in States /\ disk[f] \in Seq(States) /\ MaxVersion \in Nat
      /\ Len(disk[f]) \in 1 .. MaxVersion /\ Len(disk[f]) < MaxVersion
  BY <1>1, <1>2, PageIndexAssumption DEF DiskTypeOK, States, Version
<1> DEFINE d == Append(disk[f], s)
<1>4. d \in Seq(States) /\ Len(d) = Len(disk[f]) + 1
  BY <1>3, AppendProperties
<1>5. Len(d) \in 1 .. MaxVersion
  BY <1>3, <1>4
<1> HIDE DEF d
<1>6. disk' = [disk EXCEPT ![f] = d]
  BY <1>2 DEF d
<1>7. DiskTypeOK'
  <2>1. disk' \in [Files -> Seq(States)]
    BY <1>1, <1>4, <1>6 DEF DiskTypeOK
  <2>2. \A g \in Files : disk'[g] = IF g = f THEN d ELSE disk[g]
    BY <1>1, <1>6 DEF DiskTypeOK
  <2>3. \A g \in Files : Len(disk'[g]) \in 1 .. MaxVersion
    BY <1>1, <1>5, <2>2, Zenon DEF DiskTypeOK, Version
  <2> QED
    BY <1>1, <1>2, <2>1, <2>3 DEF DiskTypeOK, Version
<1>8. RdFile' /\ SingleFlight'
  BY <1>2 DEF Inv, RdFile, SingleFlight, procVars, slotVars
<1> QED
  BY <1>1, <1>2, <1>7, <1>8, Frame DEF Inv, TypeOK

\* A restart empties the index and keeps the folder and the store.
LEMMA CrashInv ==
  ASSUME Inv, Crash
  PROVE  Inv'
<1>1. TypeOK /\ DiskTypeOK /\ BoundTypeOK
  BY DEF Inv, TypeOK
<1>2. NoPage \in Pages /\ NoFp \in Fps
  BY PageIndexAssumption DEF Pages, Fps, NoPage, NoFp
<1>3. DiskTypeOK'
  BY <1>1, Frame DEF Crash
<1>4. PageTypeOK'
  <2>1. changeLog' \in Seq(Changes) /\ Len(changeLog') <= MaxChangeLog
    BY EmptySeq, PageIndexAssumption DEF Crash
  <2> QED
    BY <1>2, <2>1 DEF Crash, PageTypeOK, EmptyIndex
<1>5. LoadTypeOK' /\ readSeq' \in Nat /\ SlotTypeOK'
  BY DEF Crash, EmptyIndex, LoadTypeOK, SlotTypeOK
<1>6. MarkTypeOK'
  <2>1. requestSeq' = 0 /\ 0 <= 0 /\ \A f \in Files : writeMarked'[f] = 0
    BY DEF Crash, EmptyIndex
  <2>2. \A f \in Files : writeMarked'[f] <= requestSeq'
    BY <2>1
  <2> QED
    BY <2>2 DEF Crash, EmptyIndex, MarkTypeOK
<1>7. BoundTypeOK'
  BY <1>1 DEF Crash, BoundTypeOK
<1>8. FloorTypeOK'
  BY <1>1, DiskTypes DEF Crash, FloorTypeOK
<1>9. ProcTypeOK'
  BY Initials DEF Crash, EmptyIndex, ProcTypeOK, Pcs
<1>10. \A p \in Procs : pc'[p] = "idle"
  BY DEF Crash, EmptyIndex
<1>11. RdFile'
  BY <1>10 DEF RdFile, FilePcs, ReadPcs
<1>12. SingleFlight'
  BY <1>10, PageIndexAssumption DEF Crash, SingleFlight, OwnerPcs, ReadPcs
<1> QED
  BY <1>3, <1>4, <1>5, <1>6, <1>7, <1>8, <1>9, <1>11, <1>12 DEF Inv, TypeOK

-----------------------------------------------------------------------------
(* The theorems *)

\* Every step keeps the invariant.
LEMMA NextInv ==
  ASSUME Inv, [Next]_vars
  PROVE  Inv'
<1>1. ASSUME NEW p \in Procs, Begin(p) PROVE Inv'
  BY <1>1, BeginListInv, BeginRefreshInv, BeginRefreshFileInv, BeginMarkFileInv DEF Begin
<1>2. ASSUME NEW p \in Procs, Step(p) PROVE Inv'
  BY <1>2, MarkFileInv, ServeInv, AcquireInv, ReturnInv, HydrateInv, StartListingInv,
     ListFilesInv, DiffInv, FailListingInv, MergeInv, StartFileReadsInv, NextFileInv,
     StatFileInv, ReadFileInv, ApplyFileReadInv, ReleaseInv, PersistInv DEF Step
<1>3. ASSUME NEW p \in Procs, Cancel(p) PROVE Inv'
  BY <1>3, ReturnInv
<1>4. ASSUME Environment PROVE Inv'
  BY <1>4, EditInv, FolderMarkInv, CrashInv DEF Environment
<1>5. CASE UNCHANGED vars
  <2>1. UNCHANGED <<diskVars, pageVars, loadVars, markVars, readSeq, slotVars, procVars,
                    boundVars, floorVars>>
    BY <1>5 DEF vars
  <2>2. TypeOK'
    BY <2>1, Frame DEF Inv, TypeOK
  <2>3. RdFile' /\ SingleFlight'
    BY <2>1 DEF Inv, RdFile, SingleFlight, procVars, slotVars
  <2> QED
    BY <2>2, <2>3 DEF Inv
<1> QED
  BY <1>1, <1>2, <1>3, <1>4, <1>5 DEF Next

\* Inv always holds.
THEOREM Invariant == Spec => []Inv
<1>1. Init => Inv
  BY InitInv
<1>2. Inv /\ [Next]_vars => Inv'
  BY NextInv
<1> QED
  BY <1>1, <1>2, PTL DEF Spec

\* The index's variables keep their types whatever ListPages, Refresh, RefreshFile,
\* the marks, the rescans and the restarts do; the change log never outgrows its bound.
THEOREM IndexTypes == Spec => []TypeOK
<1>1. Inv => TypeOK
  BY DEF Inv
<1> QED
  BY <1>1, Invariant, PTL

\* acquireLocked and release run the builds of a key one at a time: at most one more
\* is queued, each slot belongs to a goroutine that is really building or queued, and
\* nobody waits on a build that has no goroutine.
THEOREM IndexSingleFlight == Spec => []SingleFlight
<1>1. Inv => SingleFlight
  BY DEF Inv
<1> QED
  BY <1>1, Invariant, PTL

-----------------------------------------------------------------------------
(* Honest fingerprints *)

(***************************************************************************)
(* A fingerprint travels with its page: from the stat before a read, into  *)
(* the listing's reads or the single-file read, into the snapshot or the   *)
(* store's delta, into the store, and back with a hydration.  The pair is  *)
(* good at every stop, and stays good because a file only gains versions.  *)
(***************************************************************************)

\* A fingerprint is no newer than the page beside it, unless that page could not be
\* read, and a page has one.
Good(f, fp, pg) ==
  /\ fp > ZeroFp => Shows(pg, f, fp) \/ ReadFailed(pg)
  /\ pg # NoPage => fp > ZeroFp

\* The single-file read a goroutine is making: nothing is parsed before the fingerprint
\* is taken.
ReadGood(p) ==
  /\ pc[p] # "apply" => rd[p].page = NoPage
  /\ pc[p] = "read" => rd[p].fp \in 1 .. Version(rd[p].file)
  /\ pc[p] = "apply" => Good(rd[p].file, rd[p].fp, rd[p].page)

BuildGood(b) == \A f \in Files : /\ Good(f, b.reads[f].fp, b.reads[f].page)
                                 /\ Good(f, b.delta[f].fp, b.delta[f].page)

PagesGood == \A f \in Files : Good(f, fingerprints[f], snapshot[f])
StoreGood == \A f \in Files : Good(f, store[f].fp, store[f].page)

HonestInv == PagesGood /\ StoreGood /\ \A p \in Procs : BuildGood(build[p]) /\ ReadGood(p)

\* What has no fingerprint and no page is good.
LEMMA BlankGood ==
  /\ \A f \in Files : Good(f, NoFp, NoPage) /\ Good(f, ZeroFp, NoPage)
  /\ BuildGood(NoBuild) /\ NoFileRead.page = NoPage
  /\ \A f \in Files : Good(f, NoEntry.fp, NoEntry.page)
  /\ \A f \in Files : Good(f, NoDelta[f].fp, NoDelta[f].page)
<1>1. \A f \in Files : Good(f, NoFp, NoPage) /\ Good(f, ZeroFp, NoPage)
  BY DEF Good, NoFp, ZeroFp
<1>2. \A f \in Files : /\ NoBuild.reads[f] = NoRead /\ NoBuild.delta[f] = NoDelta[f]
                       /\ NoDelta[f].fp = NoFp /\ NoDelta[f].page = NoPage
  BY DEF NoBuild, NoDelta
<1>3. NoRead.fp = NoFp /\ NoRead.page = NoPage /\ NoEntry.fp = NoFp /\ NoEntry.page = NoPage
      /\ NoFileRead.page = NoPage
  BY DEF NoRead, NoEntry, NoFileRead
<1> QED
  BY <1>1, <1>2, <1>3 DEF BuildGood

\* A step that leaves the files alone keeps every pair good.
LEMMA GoodStays ==
  ASSUME faults \in Nat, faults' \in Nat, faults' >= faults, disk' = disk,
         NEW f, NEW fp, NEW pg, Good(f, fp, pg)
  PROVE  Good(f, fp, pg)'
BY DEF Good, Shows, PageAt, Version, ReadFailed

\* An edit keeps every pair good: the file's versions stay what they were.
LEMMA EditGood ==
  ASSUME Inv, NEW g \in Files, NEW s \in EditStates, Edit(g, s),
         NEW f \in Files, NEW fp \in Fps, NEW pg, Good(f, fp, pg)
  PROVE  /\ Good(f, fp, pg)'
         /\ Version(f)' >= Version(f)
<1>1. /\ disk \in [Files -> Seq(States)] /\ disk' = [disk EXCEPT ![g] = Append(@, s)]
      /\ s \in States /\ faults' = faults
  BY PageIndexAssumption DEF Inv, TypeOK, DiskTypeOK, Edit, boundVars, States
<1> DEFINE d == Append(disk[g], s)
<1>2. /\ Len(d) = Len(disk[g]) + 1 /\ Len(disk[g]) \in Nat
      /\ \A w \in 1 .. Len(disk[g]) : d[w] = disk[g][w]
  BY <1>1, AppendProperties, LenProperties
<1> HIDE DEF d
<1>3. disk'[f] = IF f = g THEN d ELSE disk[f]
  BY <1>1 DEF d
<1>4. /\ Len(disk[f]) \in Nat /\ Len(disk'[f]) \in Nat /\ Len(disk'[f]) >= Len(disk[f])
      /\ \A w \in 1 .. Len(disk[f]) : disk'[f][w] = disk[f][w]
  BY <1>1, <1>2, <1>3, LenProperties
<1>5. ASSUME fp > ZeroFp, Shows(pg, f, fp)
      PROVE  Shows(pg, f, fp)'
  <2>1. PICK w \in fp .. Len(disk[f]) : pg = PageAt(f, w)
    BY <1>5 DEF Shows, Version
  <2>2. w \in 1 .. Len(disk[f]) /\ w \in fp .. Len(disk'[f])
    BY <1>4, <1>5, <2>1 DEF Fps, ZeroFp
  <2>3. PageAt(f, w)' = PageAt(f, w)
    BY <1>4, <2>2 DEF PageAt
  <2> QED
    BY <2>1, <2>2, <2>3 DEF Shows, Version
<1> QED
  BY <1>1, <1>4, <1>5 DEF Good, ReadFailed, Version

\* One goroutine moves and leaves the files alone; the others may be woken.
LEMMA HonestMove ==
  ASSUME TypeOK, HonestInv, NEW p \in Procs,
         disk' = disk, faults' \in Nat, faults' >= faults,
         \A f \in Files : Good(f, fingerprints'[f], snapshot'[f]),
         \A f \in Files : Good(f, store'[f].fp, store'[f].page),
         BuildGood(build'[p]) \/ BuildGood(build[p])',
         pc'[p] # "apply" => rd'[p].page = NoPage,
         pc'[p] = "read" => rd'[p].fp \in 1 .. Version(rd'[p].file),
         pc'[p] = "apply" => \/ Good(rd'[p].file, rd'[p].fp, rd'[p].page)
                            \/ Good(rd[p].file, rd[p].fp, rd[p].page)',
         \A q \in Procs \ {p} :
           /\ build'[q].reads = build[q].reads /\ build'[q].delta = build[q].delta
           /\ rd'[q] = rd[q]
           /\ pc'[q] = pc[q] \/ {pc[q], pc'[q]} \cap {"read", "apply"} = {}
  PROVE  HonestInv'
<1>1. faults \in Nat
  BY DEF TypeOK, BoundTypeOK
<1>2. PagesGood' /\ StoreGood'
  <2>1. ASSUME NEW f \in Files
        PROVE  Good(f, fingerprints[f], snapshot[f])' /\ Good(f, store[f].fp, store[f].page)'
    BY <1>1 DEF Good, Shows, PageAt, Version, ReadFailed
  <2> QED
    BY <2>1 DEF PagesGood, StoreGood
<1>3. ASSUME NEW q \in Procs
      PROVE  BuildGood(build[q])'
  <2>1. CASE BuildGood(build'[q])
    <3>1. ASSUME NEW f \in Files
          PROVE  /\ Good(f, build[q].reads[f].fp, build[q].reads[f].page)'
                 /\ Good(f, build[q].delta[f].fp, build[q].delta[f].page)'
      <4>1. /\ Good(f, build'[q].reads[f].fp, build'[q].reads[f].page)
            /\ Good(f, build'[q].delta[f].fp, build'[q].delta[f].page)
        BY <2>1 DEF BuildGood
      <4> QED
        BY <1>1, <4>1 DEF Good, Shows, PageAt, Version, ReadFailed
    <3> QED
      BY <3>1 DEF BuildGood
  <2>2. q # p => BuildGood(build'[q])
    BY DEF HonestInv, BuildGood
  <2> QED
    BY <2>1, <2>2
<1>4. ASSUME NEW q \in Procs
      PROVE  ReadGood(q)'
  <2>1. /\ pc'[q] # "apply" => rd'[q].page = NoPage
        /\ pc'[q] = "read" => rd'[q].fp \in 1 .. Version(rd'[q].file)
        /\ pc'[q] = "apply" => \/ Good(rd'[q].file, rd'[q].fp, rd'[q].page)
                               \/ Good(rd[q].file, rd[q].fp, rd[q].page)'
    <3>1. CASE q = p
      BY <3>1
    <3>2. CASE q # p
      BY <3>2 DEF HonestInv, ReadGood
    <3> QED
      BY <3>1, <3>2
  <2>2. Good(rd'[q].file, rd'[q].fp, rd'[q].page) => Good(rd[q].file, rd[q].fp, rd[q].page)'
    BY <1>1 DEF Good, Shows, PageAt, Version, ReadFailed
  <2>3. pc'[q] = "read" => rd'[q].fp \in 1 .. Version(rd[q].file)'
    BY <2>1 DEF Version
  <2> QED
    BY <2>1, <2>2, <2>3 DEF ReadGood
<1> QED
  BY <1>2, <1>3, <1>4 DEF HonestInv

\* A goroutine that moves between two reads, with the pages and its build's reads and
\* delta as they were.
LEMMA QuietMove ==
  ASSUME TypeOK, HonestInv, NEW p \in Procs,
         UNCHANGED <<disk, faults, snapshot, fingerprints, store>>,
         \A q \in Procs : /\ build'[q].reads = build[q].reads
                          /\ build'[q].delta = build[q].delta,
         rd'[p].page = rd[p].page \/ rd'[p].page = NoPage,
         pc[p] # "apply", pc'[p] \notin {"read", "apply"},
         \A q \in Procs \ {p} :
           /\ rd'[q] = rd[q]
           /\ pc'[q] = pc[q] \/ {pc[q], pc'[q]} \cap {"read", "apply"} = {}
  PROVE  HonestInv'
<1>1. faults \in Nat
  BY DEF TypeOK, BoundTypeOK
<1>2. /\ \A f \in Files : Good(f, fingerprints'[f], snapshot'[f])
      /\ \A f \in Files : Good(f, store'[f].fp, store'[f].page)
      /\ BuildGood(build'[p]) /\ rd'[p].page = NoPage
  BY DEF HonestInv, PagesGood, StoreGood, BuildGood, ReadGood
<1> QED
  BY <1>1, <1>2, HonestMove

\* Whoever only moves its call or its build's bookkeeping moves quietly.
LEMMA EnsureHonest ==
  ASSUME Inv, HonestInv, NEW p \in Procs,
         \/ BeginList(p) \/ BeginRefresh(p) \/ Serve(p) \/ Cancel(p) \/ Return(p)
         \/ StartListing(p) \/ ReadDir(p) \/ StatDir(p) \/ Diff(p) \/ StartFileReads(p)
  PROVE  HonestInv'
<1>1. TypeOK /\ pc \in [Procs -> Pcs] /\ build \in [Procs -> Builds]
  BY DEF Inv, TypeOK, ProcTypeOK
<1>2. UNCHANGED <<disk, faults, snapshot, fingerprints, store, rd>>
  BY DEF BeginList, BeginRefresh, EnterRefresh, Serve, Cancel, Return, StartListing, ReadDir,
         StatDir, Diff, StartFileReads, diskVars, pageVars, boundVars
<1>3. pc[p] \notin {"read", "apply"}
  BY DEF BeginList, BeginRefresh, Serve, Cancel, Return, StartListing, ReadDir, StatDir,
         Diff, StartFileReads
<1>4. \E x \in Pcs \ {"read", "apply"} : pc' = [pc EXCEPT ![p] = x]
  BY DEF BeginList, BeginRefresh, EnterRefresh, Serve, Cancel, Return, StartListing, ReadDir,
         StatDir, Diff, StartFileReads, Pcs
<1>5. \A q \in Procs : build'[q].reads = build[q].reads /\ build'[q].delta = build[q].delta
  <2>1. CASE BeginList(p) \/ BeginRefresh(p) \/ Serve(p) \/ Cancel(p) \/ Return(p)
    <3>1. build' = build
      BY <2>1 DEF BeginList, BeginRefresh, EnterRefresh, Serve, Cancel, Return
    <3> QED
      BY <3>1
  <2>2. CASE StartListing(p)
    BY <1>1, <2>2 DEF StartListing, Builds
  <2>3. CASE ReadDir(p)
    BY <1>1, <2>3 DEF ReadDir, Builds
  <2>4. CASE StatDir(p)
    BY <1>1, <2>4 DEF StatDir, Builds
  <2>5. CASE Diff(p)
    <3>1. PICK d : \/ build' = [build EXCEPT ![p].pages = d]
                  \/ build' = [build EXCEPT ![p].todo = d, ![p].forced = {},
                                           ![p].fps = NoBuild.fps]
      BY <2>5 DEF Diff
    <3>2. CASE build' = [build EXCEPT ![p].pages = d]
      BY <1>1, <3>2 DEF Builds
    <3>3. CASE build' = [build EXCEPT ![p].todo = d, ![p].forced = {}, ![p].fps = NoBuild.fps]
      BY <1>1, <3>3 DEF Builds
    <3> QED
      BY <3>1, <3>2, <3>3
  <2>6. CASE StartFileReads(p)
    BY <1>1, <2>6 DEF StartFileReads, Builds
  <2> QED
    BY <2>1, <2>2, <2>3, <2>4, <2>5, <2>6
<1> QED
  BY <1>1, <1>2, <1>3, <1>4, <1>5, QuietMove

\* Marks, and the begin of a file's read.
LEMMA MarkHonest ==
  ASSUME Inv, HonestInv, NEW p \in Procs, NEW f \in Files,
         \/ BeginMarkFile(p, f) \/ EndMarkFile(p) \/ WidenMarkFile(p)
         \/ NextFile(p, f) \/ BeginRefreshFile(p, f)
  PROVE  HonestInv'
<1>1. /\ TypeOK /\ pc \in [Procs -> Pcs] /\ build \in [Procs -> Builds]
      /\ rd \in [Procs -> FileReads]
  BY DEF Inv, TypeOK, ProcTypeOK
<1>2. UNCHANGED <<disk, faults, snapshot, fingerprints, store>>
  BY DEF BeginMarkFile, EndMarkFile, WidenMarkFile, NextFile, BeginRefreshFile, EnterRefresh,
         diskVars, pageVars, boundVars
<1>3. pc[p] \notin {"read", "apply"}
  BY DEF BeginMarkFile, EndMarkFile, WidenMarkFile, NextFile, BeginRefreshFile
<1>4. \E x \in Pcs \ {"read", "apply"} : pc' = [pc EXCEPT ![p] = x]
  BY DEF BeginMarkFile, EndMarkFile, WidenMarkFile, NextFile, BeginRefreshFile, EnterRefresh,
         Pcs
<1>5. \A q \in Procs : build'[q].reads = build[q].reads /\ build'[q].delta = build[q].delta
  <2>1. CASE NextFile(p, f)
    BY <1>1, <2>1 DEF NextFile, Builds
  <2>2. CASE ~NextFile(p, f)
    <3>1. build' = build
      BY <2>2 DEF BeginMarkFile, EndMarkFile, WidenMarkFile, BeginRefreshFile, EnterRefresh
    <3> QED
      BY <3>1
  <2> QED
    BY <2>1, <2>2
<1>6. /\ rd'[p].page = rd[p].page \/ rd'[p].page = NoPage
      /\ \A q \in Procs \ {p} : rd'[q] = rd[q]
  <2>1. \/ rd' = rd
        \/ rd' = [rd EXCEPT ![p].file = f]
        \/ rd' = [rd EXCEPT ![p] = NoFileRead]
        \/ rd' = [rd EXCEPT ![p].file = f, ![p].seq = readSeq + 1]
        \/ rd' = [rd EXCEPT ![p] = [NoFileRead EXCEPT !.file = f, !.seq = readSeq + 1,
                                                      !.from = Version(f)]]
    BY DEF BeginMarkFile, EndMarkFile, WidenMarkFile, NextFile, BeginRefreshFile, EnterRefresh
  <2> DEFINE fresh == [NoFileRead EXCEPT !.file = f, !.seq = readSeq + 1, !.from = Version(f)]
  <2>2. fresh.page = NoPage /\ NoFileRead.page = NoPage
    BY DEF NoFileRead
  <2> HIDE DEF fresh
  <2>3. \A q \in Procs \ {p} : rd'[q] = rd[q]
    BY <1>1, <2>1 DEF fresh
  <2>4. rd'[p].page = rd[p].page \/ rd'[p].page = NoPage
    <3>1. CASE rd' = rd
      BY <3>1
    <3>2. CASE rd' = [rd EXCEPT ![p].file = f]
      BY <1>1, <3>2 DEF FileReads
    <3>3. CASE rd' = [rd EXCEPT ![p] = NoFileRead]
      BY <1>1, <2>2, <3>3
    <3>4. CASE rd' = [rd EXCEPT ![p].file = f, ![p].seq = readSeq + 1]
      BY <1>1, <3>4 DEF FileReads
    <3>5. CASE rd' = [rd EXCEPT ![p] = fresh]
      BY <1>1, <2>2, <3>5
    <3> QED
      BY <2>1, <3>1, <3>2, <3>3, <3>4, <3>5 DEF fresh
  <2> QED
    BY <2>3, <2>4
<1> QED
  BY <1>1, <1>2, <1>3, <1>4, <1>5, <1>6, QuietMove

\* acquireLocked may start from a fresh build.
LEMMA AcquireHonest ==
  ASSUME Inv, HonestInv, NEW p \in Procs, Acquire(p)
  PROVE  HonestInv'
<1>1. TypeOK /\ pc \in [Procs -> Pcs] /\ build \in [Procs -> Builds] /\ faults \in Nat
  BY DEF Inv, TypeOK, ProcTypeOK, BoundTypeOK
<1> DEFINE own == [NoBuild EXCEPT !.kind = Pending(IsRefresh(p)).kind, !.startSeq = requestSeq]
<1>2. /\ pc[p] = "loop" /\ UNCHANGED <<disk, faults, snapshot, fingerprints, store, rd>>
      /\ build' = build \/ build' = [build EXCEPT ![p] = own]
  BY DEF Acquire, diskVars, pageVars, boundVars
<1>3. \E x \in {"wait", "queued", "start"} : pc' = [pc EXCEPT ![p] = x]
  BY DEF Acquire
<1>4. BuildGood(own)
  <2>1. own.reads = NoBuild.reads /\ own.delta = NoBuild.delta
    BY DEF NoBuild
  <2> QED
    BY <2>1, BlankGood DEF BuildGood
<1> HIDE DEF own
<1>5. BuildGood(build'[p]) /\ \A q \in Procs \ {p} : build'[q] = build[q]
  BY <1>1, <1>2, <1>4 DEF HonestInv
<1>6. /\ \A f \in Files : Good(f, fingerprints'[f], snapshot'[f])
      /\ \A f \in Files : Good(f, store'[f].fp, store'[f].page)
      /\ rd'[p].page = NoPage
  BY <1>2 DEF HonestInv, PagesGood, StoreGood, ReadGood
<1>7. pc'[p] \notin {"read", "apply"} /\ \A q \in Procs \ {p} : pc'[q] = pc[q]
  BY <1>1, <1>3
<1> QED
  BY <1>1, <1>2, <1>5, <1>6, <1>7, HonestMove

\* executeHydrate and failListing: the pairs of the store, or none.
LEMMA SeedHonest ==
  ASSUME Inv, HonestInv, NEW p \in Procs, Hydrate(p) \/ FailListing(p)
  PROVE  HonestInv'
<1>1. TypeOK /\ pc \in [Procs -> Pcs] /\ build \in [Procs -> Builds] /\ faults \in Nat
  BY DEF Inv, TypeOK, ProcTypeOK, BoundTypeOK
<1>2. /\ UNCHANGED <<disk, store, rd>> /\ pc[p] \notin {"read", "apply"}
      /\ faults' \in {faults, faults + 1}
      /\ build' = build \/ build' = [build EXCEPT ![p].err = TRUE]
  BY DEF Hydrate, FailListing, diskVars, Fault
<1>3. \E x \in {"seeded", "release"} : pc' = [pc EXCEPT ![p] = x]
  BY DEF Hydrate, FailListing
<1>4. \A f \in Files : Good(f, fingerprints'[f], snapshot'[f])
  <2>1. \/ \A f \in Files : fingerprints'[f] = store[f].fp /\ snapshot'[f] = store[f].page
        \/ \A f \in Files : fingerprints'[f] = NoFp /\ snapshot'[f] = NoPage
        \/ UNCHANGED <<fingerprints, snapshot>>
    BY DEF Hydrate, FailListing
  <2> QED
    BY <2>1, BlankGood DEF HonestInv, PagesGood, StoreGood
<1>5. BuildGood(build'[p]) /\ \A q \in Procs \ {p} : build'[q] = build[q]
  <2>1. CASE build' = build
    BY <2>1 DEF HonestInv
  <2>2. CASE build' = [build EXCEPT ![p].err = TRUE]
    <3>1. /\ build'[p].reads = build[p].reads /\ build'[p].delta = build[p].delta
          /\ \A q \in Procs \ {p} : build'[q] = build[q]
      BY <1>1, <2>2 DEF Builds
    <3> QED
      BY <3>1 DEF HonestInv, BuildGood
  <2> QED
    BY <1>2, <2>1, <2>2
<1>6. (\A f \in Files : Good(f, store'[f].fp, store'[f].page)) /\ rd'[p].page = NoPage
  BY <1>2 DEF HonestInv, StoreGood, ReadGood
<1>7. pc'[p] \notin {"read", "apply"} /\ \A q \in Procs \ {p} : pc'[q] = pc[q]
  BY <1>1, <1>3
<1> QED
  BY <1>1, <1>2, <1>4, <1>5, <1>6, <1>7, HonestMove

\* The merge keeps a page together with its fingerprint, and drops both.
LEMMA MergeHonest ==
  ASSUME Inv, HonestInv, NEW p \in Procs, Merge(p)
  PROVE  HonestInv'
<1>1. TypeOK /\ pc \in [Procs -> Pcs] /\ build \in [Procs -> Builds] /\ faults \in Nat
  BY DEF Inv, TypeOK, ProcTypeOK, BoundTypeOK
<1> DEFINE b == build[p]
<1>2. /\ pc[p] = "merge" /\ pc' = [pc EXCEPT ![p] = "release"]
      /\ UNCHANGED <<disk, store, faults, rd>>
      /\ snapshot' = MergedPages(b) /\ fingerprints' = MergedFingerprints(b)
      /\ build' = [build EXCEPT ![p].pages = MergedPages(b), ![p].delta = ListingDelta(b)]
  BY DEF Merge, diskVars, boundVars
<1>3. BuildGood(b) /\ PagesGood
  BY DEF HonestInv
<1> HIDE DEF b
<1>4. ASSUME NEW f \in Files
      PROVE  Good(f, fingerprints'[f], snapshot'[f])
  BY <1>2, <1>3, BlankGood DEF MergedPages, MergedFingerprints, BuildGood, PagesGood
<1>5. ASSUME NEW f \in Files
      PROVE  Good(f, ListingDelta(b)[f].fp, ListingDelta(b)[f].page)
  <2>1. \/ ListingDelta(b)[f] = Put(b.reads[f]) \/ ListingDelta(b)[f] = Delete
        \/ ListingDelta(b)[f] = NoDelta[f]
    BY DEF ListingDelta
  <2> QED
    BY <1>3, <2>1, BlankGood DEF Put, Delete, BuildGood
<1>6. BuildGood(build'[p]) /\ \A q \in Procs \ {p} : build'[q] = build[q]
  <2>1. build'[p].reads = b.reads /\ build'[p].delta = ListingDelta(b)
    BY <1>1, <1>2 DEF Builds, b
  <2> QED
    BY <1>1, <1>2, <1>3, <1>5, <2>1 DEF BuildGood
<1>7. (\A f \in Files : Good(f, store'[f].fp, store'[f].page)) /\ rd'[p].page = NoPage
  BY <1>2 DEF HonestInv, StoreGood, ReadGood
<1>8. pc'[p] = "release" /\ \A q \in Procs \ {p} : pc'[q] = pc[q]
  BY <1>1, <1>2
<1> QED
  BY <1>1, <1>2, <1>4, <1>6, <1>7, <1>8, HonestMove

\* A finished read is handed on with its fingerprint.
LEMMA DeliverHonest ==
  ASSUME Inv, HonestInv, NEW p \in Procs, NEW r \in FileReads, r.file \in Files,
         Good(r.file, r.fp, r.page)', Deliver(p, r),
         UNCHANGED <<disk, store, snapshot, fingerprints>>,
         faults' \in {faults, faults + 1}
  PROVE  HonestInv'
<1>1. /\ TypeOK /\ pc \in [Procs -> Pcs] /\ build \in [Procs -> Builds] /\ faults \in Nat
      /\ rd \in [Procs -> FileReads]
  BY DEF Inv, TypeOK, ProcTypeOK, BoundTypeOK
<1>2. /\ \A f \in Files : Good(f, fingerprints'[f], snapshot'[f])
      /\ \A f \in Files : Good(f, store'[f].fp, store'[f].page)
      /\ BuildGood(build[p])
  BY DEF HonestInv, PagesGood, StoreGood
<1>3. CASE IsListing(p)
  <2> DEFINE e == [seq |-> r.seq, fp |-> r.fp, page |-> r.page]
  <2>1. /\ rd' = [rd EXCEPT ![p] = NoFileRead]
        /\ build' = [build EXCEPT ![p].reads[r.file] = e]
        /\ \E x \in {"merge", "collect"} : pc' = [pc EXCEPT ![p] = x]
    BY <1>3 DEF Deliver
  <2>2. e.fp = r.fp /\ e.page = r.page
    OBVIOUS
  <2> HIDE DEF e
  <2>3. /\ build'[p].delta = build[p].delta
        /\ build'[p].reads = [build[p].reads EXCEPT ![r.file] = e]
        /\ \A q \in Procs \ {p} : build'[q] = build[q]
    BY <1>1, <2>1 DEF Builds
  <2>4. \A f \in Files : build'[p].reads[f] = IF f = r.file THEN e ELSE build[p].reads[f]
    BY <1>1, <2>3 DEF Builds
  <2>5. BuildGood(build[p])'
    <3>1. ASSUME NEW f \in Files
          PROVE  /\ Good(f, build[p].reads[f].fp, build[p].reads[f].page)'
                 /\ Good(f, build[p].delta[f].fp, build[p].delta[f].page)'
      <4>1. /\ Good(f, build[p].reads[f].fp, build[p].reads[f].page)
            /\ Good(f, build[p].delta[f].fp, build[p].delta[f].page)
        BY <1>2 DEF BuildGood
      <4> QED
        BY <1>1, <2>2, <2>3, <2>4, <4>1 DEF Good, Shows, PageAt, Version, ReadFailed
    <3> QED
      BY <3>1 DEF BuildGood
  <2>6. /\ rd'[p].page = NoPage /\ pc'[p] \notin {"read", "apply"}
        /\ \A q \in Procs \ {p} : rd'[q] = rd[q] /\ pc'[q] = pc[q]
    BY <1>1, <2>1, BlankGood
  <2> QED
    BY <1>1, <1>2, <2>3, <2>5, <2>6, HonestMove
<1>4. CASE ~IsListing(p)
  <2>1. rd' = [rd EXCEPT ![p] = r] /\ pc' = [pc EXCEPT ![p] = "apply"] /\ build' = build
    BY <1>4 DEF Deliver
  <2>2. /\ rd'[p] = r /\ pc'[p] = "apply" /\ build'[p] = build[p]
        /\ \A q \in Procs \ {p} : rd'[q] = rd[q] /\ pc'[q] = pc[q] /\ build'[q] = build[q]
    BY <1>1, <2>1
  <2>3. Good(rd[p].file, rd[p].fp, rd[p].page)'
    BY <2>2 DEF Good, Shows, PageAt, Version, ReadFailed
  <2> QED
    BY <1>1, <1>2, <2>2, <2>3, HonestMove
<1> QED
  BY <1>3, <1>4

\* The fingerprint is taken first, and the read shows the file at that version or later.
LEMMA ReadHonest ==
  ASSUME Inv, HonestInv, NEW p \in Procs, StatFile(p) \/ ReadFile(p)
  PROVE  HonestInv'
<1>1. /\ TypeOK /\ DiskTypeOK /\ pc \in [Procs -> Pcs] /\ build \in [Procs -> Builds]
      /\ faults \in Nat /\ rd \in [Procs -> FileReads]
  BY DEF Inv, TypeOK, ProcTypeOK, BoundTypeOK
<1> DEFINE f == rd[p].file
<1>2. f \in Files /\ rd[p] \in FileReads
  BY <1>1 DEF StatFile, ReadFile, Inv, RdFile, FilePcs, ReadPcs
<1>3. /\ Version(f) \in Nat /\ Version(f) >= 1
      /\ Stat(f) \in Fps /\ PageAt(f, Version(f)) \in Pages
      /\ Stat(f) # ZeroFp => Stat(f) = Version(f)
  BY <1>1, <1>2, DiskTypes DEF Stat
<1>4. /\ UNCHANGED <<disk, store, snapshot, fingerprints>> /\ faults' \in {faults, faults + 1}
      /\ \A g \in Files : Good(g, fingerprints'[g], snapshot'[g])
      /\ \A g \in Files : Good(g, store'[g].fp, store'[g].page)
      /\ BuildGood(build[p]) /\ ReadGood(p)
  BY DEF StatFile, ReadFile, diskVars, pageVars, boundVars, Fault, HonestInv, PagesGood, StoreGood
<1> HIDE DEF f
<1>5. CASE StatFile(p)
  <2>1. PICK r \in FileReads : /\ r = [rd[p] EXCEPT !.fp = Stat(f)]
                               /\ r.file = f /\ r.fp = Stat(f) /\ r.page = rd[p].page
    <3> DEFINE e == [rd[p] EXCEPT !.fp = Stat(f)]
    <3>1. e \in FileReads /\ e.file = f /\ e.fp = Stat(f) /\ e.page = rd[p].page
      BY <1>2, <1>3 DEF FileReads, f
    <3> QED
      BY <3>1
  <2>2. /\ pc[p] = "stat" /\ r.page = NoPage /\ faults' = faults
        /\ \/ Stat(f) = ZeroFp /\ Deliver(p, r)
           \/ /\ Stat(f) # ZeroFp /\ rd' = [rd EXCEPT ![p] = r]
              /\ pc' = [pc EXCEPT ![p] = "read"] /\ build' = build
    BY <1>1, <1>4, <1>5, <2>1 DEF StatFile, FileReads, ReadGood, boundVars, f
  <2>3. CASE Stat(f) = ZeroFp /\ Deliver(p, r)
    <3>1. Good(r.file, r.fp, r.page)'
      BY <2>1, <2>2, <2>3 DEF Good, ZeroFp
    <3> QED
      BY <1>2, <1>4, <2>1, <2>3, <3>1, DeliverHonest
  <2>4. CASE /\ Stat(f) # ZeroFp /\ rd' = [rd EXCEPT ![p] = r]
             /\ pc' = [pc EXCEPT ![p] = "read"] /\ build' = build
    <3>1. /\ rd'[p] = r /\ pc'[p] = "read" /\ build'[p] = build[p]
          /\ \A q \in Procs \ {p} : rd'[q] = rd[q] /\ pc'[q] = pc[q] /\ build'[q] = build[q]
      BY <1>1, <2>4
    <3>2. rd'[p].fp = Version(f) /\ rd'[p].file = f /\ rd'[p].page = NoPage
      BY <1>3, <2>1, <2>2, <2>4, <3>1
    <3>3. rd'[p].fp \in 1 .. Version(rd'[p].file)
      BY <1>3, <3>2
    <3> QED
      BY <1>1, <1>4, <2>2, <3>1, <3>2, <3>3, HonestMove
  <2> QED
    BY <2>2, <2>3, <2>4
<1>6. CASE ReadFile(p)
  <2>1. /\ pc[p] = "read" /\ rd[p].fp \in 1 .. Version(f) /\ rd[p].page = NoPage
        /\ \/ Deliver(p, [rd[p] EXCEPT !.page = PageAt(f, Version(f))]) /\ faults' = faults
           \/ Deliver(p, rd[p]) /\ Fault("read")
    BY <1>4, <1>6 DEF ReadFile, ReadGood, f
  <2>2. CASE /\ Deliver(p, [rd[p] EXCEPT !.page = PageAt(f, Version(f))])
             /\ faults' = faults
    <3>1. PICK r \in FileReads : /\ r = [rd[p] EXCEPT !.page = PageAt(f, Version(f))]
                                 /\ r.file = f /\ r.fp = rd[p].fp
                                 /\ r.page = PageAt(f, Version(f))
      <4> DEFINE e == [rd[p] EXCEPT !.page = PageAt(f, Version(f))]
      <4>1. /\ e \in FileReads /\ e.file = f /\ e.fp = rd[p].fp
            /\ e.page = PageAt(f, Version(f))
        BY <1>2, <1>3 DEF FileReads, f
      <4> QED
        BY <4>1
    <3>2. Shows(r.page, f, r.fp)
      BY <1>3, <2>1, <3>1 DEF Shows
    <3>3. Good(r.file, r.fp, r.page)
      BY <2>1, <3>1, <3>2 DEF Good, ZeroFp
    <3>4. Good(r.file, r.fp, r.page)'
      BY <1>1, <1>4, <2>2, <3>3, GoodStays
    <3> QED
      BY <1>2, <1>4, <2>2, <3>1, <3>4, DeliverHonest
  <2>3. CASE Deliver(p, rd[p]) /\ Fault("read")
    <3>1. PICK r \in FileReads : r = rd[p]
      BY <1>2
    <3>2. ReadFailed(r.page)' /\ faults' \in Nat
      BY <1>1, <2>1, <2>3, <3>1 DEF Fault, ReadFailed
    <3>3. Good(r.file, r.fp, r.page)'
      BY <2>1, <3>1, <3>2 DEF Good
    <3> QED
      BY <1>2, <1>4, <2>3, <3>1, <3>3, DeliverHonest DEF f
  <2> QED
    BY <2>1, <2>2, <2>3
<1> QED
  BY <1>5, <1>6

\* applyFileReadLocked records no fingerprint for a file that is gone, and deletes its
\* entry.
LEMMA ApplyHonest ==
  ASSUME Inv, HonestInv, NEW p \in Procs, ApplyFileRead(p)
  PROVE  HonestInv'
<1> DEFINE r == rd[p]
           f == r.file
           late == r.seq < fileReadSeq[f]
           delta == IF late THEN build[p].delta
                    ELSE [build[p].delta EXCEPT ![f] = IF r.fp = ZeroFp THEN Delete ELSE Put(r)]
<1>1. /\ TypeOK /\ PageTypeOK /\ pc \in [Procs -> Pcs] /\ build \in [Procs -> Builds]
      /\ rd \in [Procs -> FileReads] /\ faults \in Nat
  BY DEF Inv, TypeOK, ProcTypeOK, BoundTypeOK
<1>2. /\ pc[p] = "apply" /\ rd' = [rd EXCEPT ![p] = NoFileRead]
      /\ UNCHANGED <<disk, store, faults>>
      /\ build' = [build EXCEPT ![p].delta = Saved(delta)]
      /\ \E x \in {"release", "collect", "savefile", "idle"} : pc' = [pc EXCEPT ![p] = x]
  BY DEF ApplyFileRead, diskVars, boundVars
<1>3. f \in Files /\ r.fp \in Fps /\ Good(f, r.fp, r.page) /\ BuildGood(build[p])
  BY <1>1, <1>2 DEF Inv, RdFile, FilePcs, ReadPcs, FileReads, HonestInv, ReadGood
<1>4. ASSUME NEW g \in Files
      PROVE  Good(g, fingerprints'[g], snapshot'[g])
  <2>1. \/ UNCHANGED <<snapshot, fingerprints>>
        \/ /\ snapshot' = [snapshot EXCEPT ![f] = r.page]
           /\ fingerprints' = [fingerprints EXCEPT ![f] = RecordedFp(r)]
    BY DEF ApplyFileRead
  <2>2. Good(g, fingerprints[g], snapshot[g])
    BY DEF HonestInv, PagesGood
  <2>3. Good(f, RecordedFp(r), r.page)
    BY <1>3 DEF Good, RecordedFp, NoFp, ZeroFp
  <2> QED
    BY <1>1, <1>3, <2>1, <2>2, <2>3 DEF PageTypeOK
<1>5. ASSUME NEW g \in Files
      PROVE  Good(g, Saved(delta)[g].fp, Saved(delta)[g].page)
  <2>1. Good(g, build[p].delta[g].fp, build[p].delta[g].page)
    BY <1>3 DEF BuildGood
  <2>2. build[p].delta \in [Files -> Delta]
    BY <1>1 DEF Builds
  <2>3. Good(f, Delete.fp, Delete.page) /\ Good(f, Put(r).fp, Put(r).page)
    BY <1>3, BlankGood DEF Delete, Put
  <2>4. Good(g, delta[g].fp, delta[g].page)
    <3>1. CASE late
      BY <2>1, <3>1
    <3>2. CASE ~late /\ g # f
      BY <2>1, <2>2, <3>2
    <3>3. CASE ~late /\ g = f
      <4>1. delta[g] = IF r.fp = ZeroFp THEN Delete ELSE Put(r)
        BY <2>2, <3>3
      <4> QED
        BY <2>3, <3>3, <4>1
    <3> QED
      BY <3>1, <3>2, <3>3
  <2> HIDE DEF delta
  <2> QED
    BY <2>4, BlankGood DEF Saved
<1> HIDE DEF delta, r, f
<1>6. /\ BuildGood(build'[p]) /\ \A q \in Procs \ {p} : build'[q] = build[q]
  <2>1. build'[p].delta = Saved(delta) /\ build'[p].reads = build[p].reads
    BY <1>1, <1>2 DEF Builds
  <2> QED
    BY <1>1, <1>2, <1>3, <1>5, <2>1 DEF BuildGood
<1>7. /\ rd'[p].page = NoPage /\ pc'[p] \notin {"read", "apply"}
      /\ \A q \in Procs \ {p} : rd'[q] = rd[q] /\ pc'[q] = pc[q]
      /\ \A g \in Files : Good(g, store'[g].fp, store'[g].page)
  BY <1>1, <1>2, BlankGood DEF HonestInv, StoreGood
<1> QED
  BY <1>1, <1>2, <1>4, <1>6, <1>7, HonestMove

\* release keeps what the store is still to be given, and promotes the follow-up.
LEMMA ReleaseHonest ==
  ASSUME Inv, HonestInv, NEW p \in Procs, Release(p)
  PROVE  HonestInv'
<1>1. /\ TypeOK /\ pc \in [Procs -> Pcs] /\ build \in [Procs -> Builds] /\ faults \in Nat
      /\ SingleFlight
  BY DEF Inv, TypeOK, ProcTypeOK, BoundTypeOK
<1> DEFINE b == build[p]
           kept == [NoBuild EXCEPT !.delta = Saved(b.delta)]
<1>2. /\ pc[p] = "release" /\ UNCHANGED <<disk, faults, snapshot, fingerprints, store, rd>>
      /\ build' = [q \in Procs |-> IF q = p THEN kept
                                   ELSE IF q = followUp
                                     THEN [build[q] EXCEPT !.startSeq = requestSeq]
                                   ELSE build[q]]
  BY DEF Release, diskVars, pageVars, boundVars
<1>3. BuildGood(kept)
  <2>1. kept.reads = NoBuild.reads /\ kept.delta = Saved(b.delta)
    BY DEF NoBuild
  <2>2. BuildGood(b)
    BY DEF HonestInv
  <2> HIDE DEF b, kept
  <2> QED
    BY <2>1, <2>2, BlankGood DEF BuildGood, Saved
<1> HIDE DEF kept, b
<1>4. /\ BuildGood(build'[p])
      /\ \A q \in Procs \ {p} : /\ build'[q].reads = build[q].reads
                                /\ build'[q].delta = build[q].delta
  BY <1>1, <1>2, <1>3 DEF Builds
<1>5. pc'[p] \notin {"read", "apply"}
  BY AfterAwaitPcs DEF Release
<1>6. ASSUME NEW q \in Procs \ {p}
      PROVE  pc'[q] = pc[q] \/ {pc[q], pc'[q]} \cap {"read", "apply"} = {}
  <2>1. q = followUp => pc[q] = "queued"
    BY <1>1 DEF SingleFlight
  <2>2. PICK pages : pc'[q] = IF pc[q] = "wait" /\ call[q].on = p
                                THEN AfterAwait(Awaited(q, build[p], pages))
                                ELSE IF q = followUp THEN "start" ELSE pc[q]
    BY DEF Release
  <2>3. AfterAwait(Awaited(q, build[p], pages)) \in {"return", "loop"}
    BY AfterAwaitPcs
  <2> QED
    BY <2>1, <2>2, <2>3
<1>7. /\ \A f \in Files : Good(f, fingerprints'[f], snapshot'[f])
      /\ \A f \in Files : Good(f, store'[f].fp, store'[f].page)
      /\ rd'[p].page = NoPage
  BY <1>2 DEF HonestInv, PagesGood, StoreGood, ReadGood
<1>8. /\ faults' \in Nat /\ faults' >= faults /\ disk' = disk
      /\ \A q \in Procs : rd'[q] = rd[q]
  BY <1>1, <1>2
<1> QED
  BY <1>1, <1>4, <1>5, <1>6, <1>7, <1>8, HonestMove

\* writeThrough stores the delta's pairs.
LEMMA PersistHonest ==
  ASSUME Inv, HonestInv, NEW p \in Procs, Persist(p)
  PROVE  HonestInv'
<1>1. /\ TypeOK /\ pc \in [Procs -> Pcs] /\ build \in [Procs -> Builds] /\ faults \in Nat
  BY DEF Inv, TypeOK, ProcTypeOK, BoundTypeOK
<1> DEFINE delta == build[p].delta
           new == [f \in Files |->
                    CASE delta[f].op = "put"    -> [fp |-> delta[f].fp, page |-> delta[f].page]
                      [] delta[f].op = "delete" -> NoEntry
                      [] delta[f].op = "keep"   -> store[f]]
<1>2. /\ pc[p] \in {"persist", "savefile"} /\ UNCHANGED <<disk, snapshot, fingerprints, rd>>
      /\ build' = [build EXCEPT ![p] = NoBuild]
      /\ store' = new \/ store' = store
      /\ faults' \in {faults, faults + 1}
  BY DEF Persist, pageVars, Fault
<1>3. PICK x \in {"idle", "return", "loop"} : pc' = [pc EXCEPT ![p] = x]
  BY AfterAwaitPcs DEF Persist
<1>4. ASSUME NEW f \in Files
      PROVE  Good(f, store'[f].fp, store'[f].page)
  <2>1. /\ delta[f].op \in {"put", "delete", "keep"}
        /\ Good(f, delta[f].fp, delta[f].page) /\ Good(f, store[f].fp, store[f].page)
    BY <1>1 DEF Builds, Delta, HonestInv, BuildGood, StoreGood
  <2> HIDE DEF delta
  <2>2. CASE store' = new
    <3>1. \/ store'[f] = [fp |-> delta[f].fp, page |-> delta[f].page]
          \/ store'[f] = NoEntry \/ store'[f] = store[f]
      BY <2>1, <2>2
    <3> HIDE DEF new
    <3> QED
      BY <2>1, <3>1, BlankGood
  <2>3. CASE store' = store
    BY <2>1, <2>3
  <2> QED
    BY <1>2, <2>2, <2>3
<1> HIDE DEF new, delta
<1>5. /\ \A f \in Files : Good(f, fingerprints'[f], snapshot'[f])
      /\ rd'[p].page = NoPage /\ pc'[p] \notin {"read", "apply"} /\ BuildGood(build'[p])
      /\ \A q \in Procs \ {p} : pc'[q] = pc[q] /\ build'[q] = build[q]
  BY <1>1, <1>2, <1>3, BlankGood DEF HonestInv, PagesGood, ReadGood
<1>6. /\ faults' \in Nat /\ faults' >= faults /\ disk' = disk
      /\ \A q \in Procs : rd'[q] = rd[q]
  BY <1>1, <1>2
<1> QED
  BY <1>1, <1>4, <1>5, <1>6, HonestMove

\* Folder-level marks, edits, restarts and stuttering.
LEMMA EnvironmentHonest ==
  ASSUME Inv, HonestInv, Environment \/ UNCHANGED vars
  PROVE  HonestInv'
<1>1. /\ TypeOK /\ DiskTypeOK /\ PageTypeOK /\ pc \in [Procs -> Pcs]
      /\ build \in [Procs -> Builds] /\ faults \in Nat
      /\ rd \in [Procs -> FileReads]
  BY DEF Inv, TypeOK, ProcTypeOK, BoundTypeOK
<1>2. CASE MarkDirty \/ ForceReload \/ UNCHANGED vars
  <2>1. UNCHANGED <<disk, faults, snapshot, fingerprints, store, pc, build, rd>>
    BY <1>2 DEF MarkDirty, ForceReload, vars, diskVars, pageVars, procVars, boundVars
  <2> QED
    BY <2>1 DEF HonestInv, PagesGood, StoreGood, BuildGood, ReadGood, Good, Shows, PageAt,
                Version, ReadFailed
<1>3. CASE Crash
  <2>1. /\ UNCHANGED <<disk, faults, store>>
        /\ \A f \in Files : snapshot'[f] = NoPage /\ fingerprints'[f] = NoFp
        /\ \A q \in Procs : pc'[q] = "idle" /\ build'[q] = NoBuild /\ rd'[q] = NoFileRead
    BY <1>3 DEF Crash, EmptyIndex, diskVars
  <2>2. PagesGood'
    BY <2>1 DEF PagesGood, Good, NoFp, ZeroFp
  <2>3. StoreGood'
    BY <2>1 DEF HonestInv, StoreGood, Good, Shows, PageAt, Version, ReadFailed
  <2>4. ASSUME NEW q \in Procs
        PROVE  BuildGood(build[q])'
    <3>1. ASSUME NEW f \in Files
          PROVE  /\ build'[q].reads[f].fp = NoFp /\ build'[q].reads[f].page = NoPage
                 /\ build'[q].delta[f].fp = NoFp /\ build'[q].delta[f].page = NoPage
      BY <2>1 DEF NoBuild, NoRead, NoDelta
    <3> QED
      BY <3>1 DEF BuildGood, Good, NoFp, ZeroFp
  <2>5. ASSUME NEW q \in Procs
        PROVE  ReadGood(q)'
    BY <2>1, BlankGood DEF ReadGood
  <2> QED
    BY <2>2, <2>3, <2>4, <2>5 DEF HonestInv
<1>4. CASE \E g \in Files, s \in EditStates : Edit(g, s)
  <2>1. PICK g \in Files, s \in EditStates : Edit(g, s)
    BY <1>4
  <2>2. UNCHANGED <<snapshot, fingerprints, store, pc, build, rd>>
    BY <2>1 DEF Edit, pageVars, procVars
  <2>3. PagesGood'
    <3>1. ASSUME NEW f \in Files
          PROVE  Good(f, fingerprints[f], snapshot[f])'
      <4>1. PICK fp \in Fps, pg \in Pages : fp = fingerprints[f] /\ pg = snapshot[f]
        BY <1>1 DEF PageTypeOK
      <4>2. Good(f, fp, pg)
        BY <4>1 DEF HonestInv, PagesGood
      <4>3. Good(f, fp, pg)'
        BY <2>1, <4>2, EditGood
      <4> QED
        BY <2>2, <4>1, <4>3 DEF Good, Shows, PageAt, Version, ReadFailed
    <3> QED
      BY <3>1 DEF PagesGood
  <2>4. StoreGood'
    <3>1. ASSUME NEW f \in Files
          PROVE  Good(f, store[f].fp, store[f].page)'
      <4>1. PICK fp \in Fps, pg \in Pages : fp = store[f].fp /\ pg = store[f].page
        BY <1>1 DEF DiskTypeOK, Entry
      <4>2. Good(f, fp, pg)
        BY <4>1 DEF HonestInv, StoreGood
      <4>3. Good(f, fp, pg)'
        BY <2>1, <4>2, EditGood
      <4> QED
        BY <2>2, <4>1, <4>3 DEF Good, Shows, PageAt, Version, ReadFailed
    <3> QED
      BY <3>1 DEF StoreGood
  <2>5. ASSUME NEW q \in Procs
        PROVE  BuildGood(build[q])'
    <3>1. ASSUME NEW f \in Files
          PROVE  /\ Good(f, build[q].reads[f].fp, build[q].reads[f].page)'
                 /\ Good(f, build[q].delta[f].fp, build[q].delta[f].page)'
      <4>1. PICK fp \in Fps, pg \in Pages :
              fp = build[q].reads[f].fp /\ pg = build[q].reads[f].page
        BY <1>1 DEF Builds
      <4>2. PICK fq \in Fps, qg \in Pages :
              fq = build[q].delta[f].fp /\ qg = build[q].delta[f].page
        BY <1>1 DEF Builds, Delta
      <4>3. Good(f, fp, pg) /\ Good(f, fq, qg)
        BY <4>1, <4>2 DEF HonestInv, BuildGood
      <4>4. Good(f, fp, pg)' /\ Good(f, fq, qg)'
        BY <2>1, <4>3, EditGood
      <4> QED
        BY <2>2, <4>1, <4>2, <4>4 DEF Good, Shows, PageAt, Version, ReadFailed
    <3> QED
      BY <3>1 DEF BuildGood
  <2>6. ASSUME NEW q \in Procs
        PROVE  ReadGood(q)'
    <3>1. CASE pc[q] \notin {"read", "apply"}
      BY <2>2, <3>1 DEF HonestInv, ReadGood
    <3>2. CASE pc[q] \in {"read", "apply"}
      <4>1. PICK f \in Files, fp \in Fps, pg \in Pages :
              f = rd[q].file /\ fp = rd[q].fp /\ pg = rd[q].page
        BY <1>1, <3>2 DEF FileReads, Inv, RdFile, FilePcs, ReadPcs
      <4>2. Good(f, NoFp, NoPage) /\ NoFp \in Fps
        BY BlankGood, PageIndexAssumption DEF Fps, NoFp
      <4>3. Version(f)' >= Version(f)
        BY <2>1, <4>2, EditGood
      <4>4. pc[q] = "apply" => Good(f, fp, pg)'
        <5>1. pc[q] = "apply" => Good(f, fp, pg)
          BY <4>1 DEF HonestInv, ReadGood
        <5> QED
          BY <2>1, <5>1, EditGood
      <4>5. pc[q] = "read" => fp \in 1 .. Version(f)'
        <5>1. pc[q] = "read" => fp \in 1 .. Version(f)
          BY <4>1 DEF HonestInv, ReadGood
        <5>2. Version(f) \in Nat /\ Version(f)' \in Nat
          BY <1>1, <2>1, DiskTypes, EditInv DEF Inv, TypeOK, DiskTypeOK
        <5> QED
          BY <4>3, <5>1, <5>2
      <4>6. pc'[q] = "apply" => Good(rd[q].file, rd[q].fp, rd[q].page)'
        BY <2>2, <4>1, <4>4 DEF Good, Shows, PageAt, Version, ReadFailed
      <4>7. pc'[q] = "read" => rd'[q].fp \in 1 .. Version(rd[q].file)'
        BY <2>2, <4>1, <4>5 DEF Version
      <4>8. pc'[q] # "apply" => rd'[q].page = NoPage
        BY <2>2 DEF HonestInv, ReadGood
      <4> QED
        BY <4>6, <4>7, <4>8 DEF ReadGood
    <3> QED
      BY <3>1, <3>2
  <2> QED
    BY <2>3, <2>4, <2>5, <2>6 DEF HonestInv
<1> QED
  BY <1>2, <1>3, <1>4 DEF Environment

\* Every step keeps every pair good.
LEMMA NextHonest ==
  ASSUME Inv, HonestInv, [Next]_vars
  PROVE  HonestInv'
<1>1. ASSUME NEW p \in Procs, Begin(p) PROVE HonestInv'
  BY <1>1, EnsureHonest, MarkHonest DEF Begin
<1>2. ASSUME NEW p \in Procs, Step(p) PROVE HonestInv'
  <2>1. CASE EndMarkFile(p) \/ WidenMarkFile(p)
    <3>1. PICK f \in Files : rd[p].file = f
      BY <2>1 DEF EndMarkFile, WidenMarkFile, Inv, RdFile, FilePcs
    <3> QED
      BY <2>1, MarkHonest
  <2>2. CASE Serve(p) \/ Return(p) \/ StartListing(p) \/ ReadDir(p) \/ StatDir(p) \/ Diff(p)
             \/ StartFileReads(p)
    BY <2>2, EnsureHonest
  <2>3. CASE Acquire(p) \/ Hydrate(p) \/ FailListing(p) \/ Merge(p)
    BY <2>3, AcquireHonest, SeedHonest, MergeHonest
  <2>4. CASE \E f \in Files : NextFile(p, f)
    BY <2>4, MarkHonest
  <2>5. CASE StatFile(p) \/ ReadFile(p) \/ ApplyFileRead(p) \/ Release(p) \/ Persist(p)
    BY <2>5, ReadHonest, ApplyHonest, ReleaseHonest, PersistHonest
  <2> QED
    BY <1>2, <2>1, <2>2, <2>3, <2>4, <2>5 DEF Step
<1>3. ASSUME NEW p \in Procs, Cancel(p) PROVE HonestInv'
  BY <1>3, EnsureHonest
<1>4. CASE Environment \/ UNCHANGED vars
  BY <1>4, EnvironmentHonest
<1> QED
  BY <1>1, <1>2, <1>3, <1>4 DEF Next

\* The index starts with no pages and no fingerprints.
LEMMA InitHonest == Init => HonestInv
<1> SUFFICES ASSUME Init PROVE HonestInv
  OBVIOUS
<1>1. /\ \A f \in Files : /\ snapshot[f] = NoPage /\ fingerprints[f] = NoFp
                          /\ store[f] = NoEntry
      /\ \A q \in Procs : pc[q] = "idle" /\ build[q] = NoBuild /\ rd[q] = NoFileRead
  BY DEF Init, EmptyIndex
<1> QED
  BY <1>1, BlankGood DEF HonestInv, PagesGood, StoreGood, ReadGood

\* HonestInv always holds.
THEOREM PairsGood == Spec => []HonestInv
<1>1. Init => HonestInv
  BY InitHonest
<1>2. Inv /\ HonestInv /\ [Next]_vars => HonestInv'
  BY NextHonest
<1> QED
  BY <1>1, <1>2, Invariant, PTL DEF Spec

\* Whatever reads, merges, hydrations, write-throughs and edits interleave, a fingerprint
\* in memory or in the store is never newer than the page recorded with it (unless the
\* read failed), and a published page has one: the next stat-diff cannot overlook a page
\* that fell behind its file.
THEOREM HonestFingerprints == Spec => []FingerprintHonest
<1>1. HonestInv => FingerprintHonest
  BY DEF HonestInv, PagesGood, StoreGood, Good, FingerprintHonest
<1> QED
  BY <1>1, PairsGood, PTL

-----------------------------------------------------------------------------
(* Attributed changes *)

\* What recordChangeLocked appends is retained, and is what ChangedPagesSince tells of it.
LEMMA RecordTold ==
  ASSUME PageTypeOK, NEW names \in SUBSET Files, NEW bounded \in BOOLEAN,
         RecordChange(names, bounded), NEW r \in {revision}
  PROVE  /\ revision' > revision
         /\ ChangedPagesSince(r)'.ok => /\ bounded
                                        /\ names \subseteq ChangedPagesSince(r)'.names
<1> DEFINE e == [rev |-> revision + 1, names |-> names, bounded |-> bounded]
           log == Append(changeLog, e)
<1>1. /\ changeLog \in Seq(Changes) /\ revision \in Nat /\ r = revision
      /\ e \in Changes /\ MaxChangeLog \in Nat \ {0}
  BY PageIndexAssumption DEF PageTypeOK, Changes
<1>2. /\ revision' = revision + 1
      /\ changeLog' = IF Len(log) > MaxChangeLog
                        THEN SubSeq(log, Len(log) - MaxChangeLog + 1, Len(log)) ELSE log
  BY DEF RecordChange
<1>3. e.rev = revision + 1 /\ e.names = names /\ e.bounded = bounded
  OBVIOUS
<1> HIDE DEF e
<1>4. /\ log \in Seq(Changes) /\ Len(log) \in Nat /\ Len(log) >= 1 /\ log[Len(log)] = e
  <2>1. /\ log \in Seq(Changes) /\ Len(log) = Len(changeLog) + 1
        /\ log[Len(changeLog) + 1] = e /\ Len(changeLog) \in Nat
    BY <1>1, AppendProperties, LenProperties
  <2> QED
    BY <2>1
<1> HIDE DEF log
<1>5. PICK i : i \in DOMAIN changeLog' /\ changeLog'[i] = e
  <2>1. CASE Len(log) > MaxChangeLog
    <3> DEFINE m == Len(log) - MaxChangeLog + 1
               n == Len(log)
    <3>1. /\ m \in Int /\ n \in Int /\ m <= n /\ n - m + 1 = MaxChangeLog
          /\ m + MaxChangeLog - 1 = n /\ \A j \in m .. n : j \in 1 .. Len(log)
      BY <1>1, <1>4, <2>1
    <3>2. changeLog' = SubSeq(log, m, n)
      BY <1>2, <2>1
    <3> HIDE DEF m
    <3>3. \A j \in m .. n : log[j] \in Changes
      BY <1>4, <3>1, ElementOfSeq
    <3>4. /\ SubSeq(log, m, n) \in Seq(Changes)
          /\ Len(SubSeq(log, m, n)) = MaxChangeLog
          /\ \A j \in 1 .. MaxChangeLog : SubSeq(log, m, n)[j] = log[m + j - 1]
      BY <3>1, <3>3, SubSeqProperties
    <3>5. MaxChangeLog \in DOMAIN SubSeq(log, m, n) /\ MaxChangeLog \in 1 .. MaxChangeLog
      BY <1>1, <3>4, LenProperties
    <3>6. SubSeq(log, m, n)[MaxChangeLog] = e
      BY <1>4, <3>1, <3>4, <3>5
    <3> QED
      BY <3>2, <3>5, <3>6
  <2>2. CASE ~(Len(log) > MaxChangeLog)
    <3>1. Len(log) \in DOMAIN log
      BY <1>4, LenProperties
    <3> QED
      BY <1>2, <1>4, <2>2, <3>1
  <2> QED
    BY <2>1, <2>2
<1>6. revision' > revision /\ r < revision' /\ e.rev > r
  BY <1>1, <1>2, <1>3
<1>7. ASSUME ChangedPagesSince(r)'.ok
      PROVE  bounded /\ names \subseteq ChangedPagesSince(r)'.names
  <2> DEFINE after == {k \in DOMAIN changeLog' : changeLog'[k].rev > r}
  <2>1. /\ \A k \in after : changeLog'[k].bounded
        /\ ChangedPagesSince(r)'.names = UNION {changeLog'[k].names : k \in after}
    BY <1>6, <1>7 DEF ChangedPagesSince
  <2>2. i \in after
    BY <1>5, <1>6
  <2> QED
    BY <1>3, <1>5, <2>1, <2>2
<1> QED
  BY <1>6, <1>7

\* A step that moves a published page names its file in the change log, or says that the
\* change cannot be bounded.
LEMMA StepAttributed ==
  ASSUME Inv, PagesGood, [Next]_vars, hasSnapshot, hasSnapshot', ~storedBaseline',
         NEW f \in Files, snapshot'[f] # snapshot[f], NEW r \in {revision}
  PROVE  /\ revision' > revision
         /\ ChangedPagesSince(r)'.ok => f \in ChangedPagesSince(r)'.names
<1>1. /\ TypeOK /\ PageTypeOK /\ build \in [Procs -> Builds] /\ rd \in [Procs -> FileReads]
  BY DEF Inv, TypeOK, ProcTypeOK
<1>2. PICK p \in Procs : ApplyFileRead(p) \/ Merge(p)
  <2>1. ASSUME NEW p \in Procs
        PROVE  ~(\/ BeginList(p) \/ BeginRefresh(p) \/ Serve(p) \/ Cancel(p) \/ Return(p)
                 \/ StartListing(p) \/ ReadDir(p) \/ StatDir(p) \/ Diff(p)
                 \/ StartFileReads(p) \/ EndMarkFile(p) \/ WidenMarkFile(p) \/ Acquire(p)
                 \/ StatFile(p) \/ ReadFile(p) \/ Release(p) \/ Persist(p))
    BY DEF BeginList, BeginRefresh, EnterRefresh, Serve, Cancel, Return, StartListing, ReadDir,
           StatDir, Diff, StartFileReads, EndMarkFile, WidenMarkFile, Acquire, StatFile,
           ReadFile, Release, Persist, pageVars
  <2>2. ASSUME NEW p \in Procs, NEW g \in Files
        PROVE  ~(BeginRefreshFile(p, g) \/ BeginMarkFile(p, g) \/ NextFile(p, g))
    BY DEF BeginRefreshFile, BeginMarkFile, NextFile, EnterRefresh, pageVars
  <2>3. ASSUME NEW p \in Procs
        PROVE  ~(Hydrate(p) \/ FailListing(p))
    BY DEF Hydrate, FailListing
  <2>4. ~(Environment \/ UNCHANGED vars)
    BY DEF Environment, Edit, MarkDirty, ForceReload, Crash, EmptyIndex, vars, pageVars
  <2> QED
    BY <2>1, <2>2, <2>3, <2>4 DEF Next, Begin, Step
<1>3. CASE ApplyFileRead(p)
  <2> DEFINE g == rd[p].file
  <2>1. /\ snapshot' = [snapshot EXCEPT ![g] = rd[p].page] /\ RecordChange({g}, TRUE)
    BY <1>3 DEF ApplyFileRead
  <2>2. g = f
    BY <1>1, <2>1 DEF PageTypeOK
  <2> HIDE DEF g
  <2>3. {f} \in SUBSET Files /\ TRUE \in BOOLEAN /\ RecordChange({f}, TRUE)
    BY <2>1, <2>2
  <2>4. /\ revision' > revision
        /\ ChangedPagesSince(r)'.ok => {f} \subseteq ChangedPagesSince(r)'.names
    BY <1>1, <2>3, RecordTold, Zenon
  <2> QED
    BY <2>4
<1>4. CASE Merge(p)
  <2>1. PICK b \in Builds : b = build[p]
    BY <1>1
  <2>2. /\ snapshot' = MergedPages(b)
        /\ RecordChange(ListingChangedNames(b), ~b.full /\ hasSnapshot)
    BY <1>4, <2>1 DEF Merge
  <2> DEFINE names == ListingChangedNames(b)
             bounded == ~b.full /\ hasSnapshot
  <2>3. names \in SUBSET Files /\ bounded \in BOOLEAN
    BY <1>1 DEF ListingChangedNames, Builds, PageTypeOK
  <2>4. ~b.full => f \in names
    <3>1. snapshot'[f] = IF Applied(b, f) THEN b.reads[f].page
                         ELSE IF Gone(b, f) THEN NoPage ELSE snapshot[f]
      BY <2>2 DEF MergedPages
    <3>2. Good(f, fingerprints[f], snapshot[f])
      BY DEF PagesGood
    <3>3. b.reads[f].seq > 0 \/ Dropped(b, f)
      BY <3>1, <3>2 DEF Applied, Dropped, Good
    <3>4. ListingDelta(b)[f].op # "keep"
      BY <3>3 DEF ListingDelta, Put, Delete
    <3> QED
      BY <3>4 DEF ListingChangedNames
  <2>5. RecordChange(names, bounded)
    BY <2>2
  <2> HIDE DEF names
  <2>6. bounded => ~b.full
    OBVIOUS
  <2> HIDE DEF bounded
  <2>7. /\ revision' > revision
        /\ ChangedPagesSince(r)'.ok => /\ bounded
                                       /\ names \subseteq ChangedPagesSince(r)'.names
    BY <1>1, <2>3, <2>5, RecordTold, Zenon
  <2> QED
    BY <2>4, <2>6, <2>7
<1> QED
  BY <1>2, <1>3, <1>4

\* Whatever the merges, spliced reads, hydrations and failures interleave to, a caller that
\* keeps what it derived from the pages at one revision is told by ChangedPagesSince of
\* every page that changes in the next step, or told that the change cannot be bounded.
THEOREM ChangesAttributed == Spec => ChangeAttributed
<1>1. ASSUME Inv, HonestInv, [Next]_vars
      PROVE  [hasSnapshot /\ hasSnapshot' /\ ~storedBaseline' =>
                \A f \in Files : snapshot'[f] # snapshot[f] =>
                  /\ revision' > revision
                  /\ \A r \in {revision} : LET told == ChangedPagesSince(r)'
                                           IN told.ok => f \in told.names]_vars
  <2>1. PagesGood
    BY <1>1 DEF HonestInv
  <2> QED
    BY <1>1, <2>1, StepAttributed
<1> QED
  BY <1>1, Invariant, PairsGood, PTL DEF Spec, ChangeAttributed
-----------------------------------------------------------------------------
(* Visible events *)

(***************************************************************************)
(* Every read takes its sequence number before it looks at the file, so    *)
(* what a read with number s brings home is at least as new as the file    *)
(* was when any read with a number up to s began.  The snapshot's page     *)
(* carries the number of the read it came from, and a read or a listing    *)
(* may replace it only if its own number is no smaller.  The versions a    *)
(* page with number s owes are therefore those of the events whose reads   *)
(* began by then, finished or not, and no step adds to what a number that  *)
(* has been given out owes.                                                *)
(***************************************************************************)

\* pg shows f as it was at version v or later, or could not be read.
Recent(pg, f, v) == Shows(pg, f, v) \/ ReadFailed(pg)

\* RefreshFile(f) is reading: no build is.
Reading(q, f) == q # inflight /\ pc[q] \in ReadPcs /\ rd[q].file = f

\* The versions a page of f read under number s owes: those of the events that have
\* returned, if nothing newer was applied, and those of the events that are still reading.
Due(f, s) ==
  {v \in 1 .. Version(f) :
     \/ v = seenFloor[f] /\ fileReadSeq[f] <= s
     \/ \E q \in Procs : Reading(q, f) /\ rd[q].seq <= s /\ v = rd[q].from}

Meets(f, s, pg) == \A v \in Due(f, s) : Recent(pg, f, v)

\* What the snapshot holds for f pays what its number owes.
Settled(f) == Meets(f, fileReadSeq[f], snapshot[f])

SeqVis == \A f \in Files : fileReadSeq[f] <= readSeq /\ seenFloor[f] \in 1 .. Version(f)

PubVis == hasSnapshot /\ ~storedBaseline => \A f \in Files : Settled(f)

\* A read under way has a number and, if it is an event's, the version it owes; a
\* listing applies nothing before its merge.
ReadVis(p) ==
  pc[p] \in ReadPcs =>
    /\ rd[p].seq \in 1 .. readSeq
    /\ p # inflight => rd[p].from \in 1 .. Version(rd[p].file)
    /\ pc[p] = "apply" => ~IsListing(p) /\ Meets(rd[p].file, rd[p].seq, rd[p].page)

\* A build that has not started has read nothing, and only listings list.
FreshPcs == {"queued", "start", "seeded"}
ScanPcs  == {"seeded", "readdir", "statdir", "diff", "merge"}
Unread(p) == /\ pc[p] \in FreshPcs => \A f \in Files : build[p].reads[f].seq = 0
             /\ pc[p] \in ScanPcs => build[p].kind # "filereads"

ListPcs == {"readdir", "statdir", "diff", "collect", "merge"} \cup ReadPcs
ReadingPcs == {"collect", "merge"} \cup ReadPcs

\* A listing in its read phase that has not re-read f, and will not.
Kept(p, f) ==
  /\ f \in build[p].names \ build[p].todo /\ build[p].reads[f].seq = 0
  /\ ~(pc[p] \in ReadPcs /\ rd[p].file = f)

\* A listing's own read of f.
OwnVis(p, f) ==
  build[p].reads[f].seq > 0 =>
    /\ build[p].reads[f].seq \in (build[p].listingSeq + 1) .. readSeq
    /\ Meets(f, build[p].reads[f].seq, build[p].reads[f].page)

\* The listing may report f as not there.
Absent(p, f) == Meets(f, build[p].listingSeq, NoPage)

\* The fingerprint a listing took is no older than what the listing's number owes.
StatVis(p, f) ==
  /\ build[p].fps[f] = ZeroFp => Absent(p, f)
  /\ build[p].fps[f] # ZeroFp =>
       build[p].fps[f] > ZeroFp /\ \A v \in Due(f, build[p].listingSeq) : v <= build[p].fps[f]

\* What a running listing knows of f: its own read of it, that it was not there, the
\* fingerprint it had, and that a page it will keep is settled.
FileVis(p, f) ==
  /\ OwnVis(p, f)
  /\ pc[p] # "readdir" /\ f \notin build[p].names => Absent(p, f)
  /\ pc[p] = "diff" /\ f \in build[p].names => StatVis(p, f)
  /\ fileReadSeq[f] >= build[p].listingSeq => Settled(f)
  /\ pc[p] \in ReadingPcs /\ Kept(p, f) => Settled(f)

Listing(p) == IsListing(p) /\ pc[p] \in ListPcs

ListVis(p) ==
  Listing(p) =>
    /\ build[p].listingSeq <= readSeq
    /\ pc[p] \in ReadPcs => rd[p].seq > build[p].listingSeq
    /\ pc[p] = "merge" => build[p].todo = {}
    /\ \A f \in Files : FileVis(p, f)

VisInv == SeqVis /\ PubVis /\ \A p \in Procs : ReadVis(p) /\ Unread(p) /\ ListVis(p)

\* A step that gives out no number twice and forgets no version: files only gain versions,
\* numbers only grow, and seenFloor is raised only by a read that is applied or late.
Calm ==
  /\ readSeq' \in Nat /\ readSeq' >= readSeq
  /\ \A f \in Files :
       /\ Version(f)' \in Nat /\ Version(f)' >= Version(f)
       /\ \A v \in 1 .. Version(f), pg \in Pages : Recent(pg, f, v) => Recent(pg, f, v)'
       /\ fileReadSeq'[f] \in Nat /\ fileReadSeq'[f] >= fileReadSeq[f]
       /\ fileReadSeq'[f] <= readSeq'
       /\ \/ seenFloor'[f] = seenFloor[f]
          \/ \E q \in Procs : /\ Reading(q, f) /\ seenFloor'[f] = rd[q].from
                              /\ rd[q].seq <= fileReadSeq'[f]
  /\ \A q \in Procs, f \in Files :
       Reading(q, f)' => \/ /\ Reading(q, f) /\ rd'[q].seq = rd[q].seq
                            /\ rd'[q].from = rd[q].from
                         \/ rd'[q].seq \in Nat /\ rd'[q].seq > readSeq

\* The types the arguments below need.
LEMMA VisTypes ==
  ASSUME Inv
  PROVE  /\ readSeq \in Nat
         /\ \A f \in Files : /\ Version(f) \in 1 .. MaxVersion /\ Version(f) \in Nat
                             /\ fileReadSeq[f] \in Nat /\ snapshot[f] \in Pages
                             /\ seenFloor[f] \in Nat /\ fingerprints[f] \in Fps
         /\ \A p \in Procs : /\ rd[p].seq \in Nat /\ rd[p].from \in Nat /\ rd[p].page \in Pages
                             /\ rd[p].fp \in Fps
                             /\ build[p].listingSeq \in Nat
                             /\ pc[p] \in ReadPcs => rd[p].file \in Files
                             /\ \A f \in Files : /\ build[p].reads[f].seq \in Nat
                                                 /\ build[p].reads[f].page \in Pages
                                                 /\ build[p].fps[f] \in Fps
<1>1. /\ DiskTypeOK /\ readSeq \in Nat /\ PageTypeOK /\ seenFloor \in [Files -> Nat]
      /\ build \in [Procs -> Builds] /\ rd \in [Procs -> FileReads] /\ RdFile
  BY DEF Inv, TypeOK, ProcTypeOK, FloorTypeOK
<1>2. \A f \in Files : /\ Version(f) \in 1 .. MaxVersion /\ Version(f) \in Nat
                       /\ fileReadSeq[f] \in Nat /\ snapshot[f] \in Pages
                       /\ seenFloor[f] \in Nat /\ fingerprints[f] \in Fps
  BY <1>1, DiskTypes DEF PageTypeOK
<1>3. ASSUME NEW p \in Procs
      PROVE  /\ rd[p].seq \in Nat /\ rd[p].from \in Nat /\ rd[p].page \in Pages
             /\ rd[p].fp \in Fps /\ (pc[p] \in ReadPcs => rd[p].file \in Files)
  BY <1>1 DEF FileReads, RdFile, FilePcs
<1>4. ASSUME NEW p \in Procs
      PROVE  /\ build[p].listingSeq \in Nat
             /\ \A f \in Files : /\ build[p].reads[f].seq \in Nat
                                 /\ build[p].reads[f].page \in Pages
                                 /\ build[p].fps[f] \in Fps
  <2>1. /\ build[p].listingSeq \in Nat /\ build[p].fps \in [Files -> Fps]
        /\ build[p].reads \in [Files -> [seq : Nat, fp : Fps, page : Pages]]
    BY <1>1 DEF Builds
  <2> QED
    BY <2>1
<1> QED
  BY <1>1, <1>2, <1>3, <1>4

\* No step adds to what a number that has been given out owes.
LEMMA DueStays ==
  ASSUME Inv, SeqVis, \A p \in Procs : ReadVis(p), Calm,
         NEW f \in Files, NEW s \in Nat, s <= readSeq
  PROVE  \A v \in Due(f, s)' : v \in Due(f, s)
<1> SUFFICES ASSUME NEW v \in Due(f, s)' PROVE v \in Due(f, s)
  OBVIOUS
<1>1. /\ readSeq \in Nat /\ Version(f) \in Nat /\ fileReadSeq[f] \in Nat
      /\ fileReadSeq'[f] \in Nat /\ fileReadSeq'[f] >= fileReadSeq[f]
      /\ seenFloor[f] \in 1 .. Version(f)
      /\ \A q \in Procs : rd[q].seq \in Nat
  BY VisTypes DEF Calm, SeqVis
<1>2. ASSUME NEW q \in Procs, Reading(q, f), rd[q].seq <= s
      PROVE  rd[q].from \in Due(f, s)
  <2>1. rd[q].from \in 1 .. Version(f)
    BY <1>2 DEF Reading, ReadVis
  <2> QED
    BY <1>2, <2>1 DEF Due
<1>3. CASE v = seenFloor'[f] /\ fileReadSeq'[f] <= s
  <2>1. fileReadSeq[f] <= s
    BY <1>1, <1>3
  <2>2. CASE seenFloor'[f] = seenFloor[f]
    BY <1>1, <1>3, <2>1, <2>2 DEF Due
  <2>3. CASE \E q \in Procs : /\ Reading(q, f) /\ seenFloor'[f] = rd[q].from
                              /\ rd[q].seq <= fileReadSeq'[f]
    <3>1. PICK q \in Procs : /\ Reading(q, f) /\ seenFloor'[f] = rd[q].from
                             /\ rd[q].seq <= fileReadSeq'[f]
      BY <2>3
    <3>2. rd[q].seq <= s
      BY <1>1, <1>3, <3>1
    <3> QED
      BY <1>2, <1>3, <3>1, <3>2
  <2> QED
    BY <2>2, <2>3 DEF Calm
<1>4. CASE \E q \in Procs : Reading(q, f)' /\ rd'[q].seq <= s /\ v = rd'[q].from
  <2>1. PICK q \in Procs : Reading(q, f)' /\ rd'[q].seq <= s /\ v = rd'[q].from
    BY <1>4
  <2>2. \/ Reading(q, f) /\ rd'[q].seq = rd[q].seq /\ rd'[q].from = rd[q].from
        \/ rd'[q].seq \in Nat /\ rd'[q].seq > readSeq
    BY <2>1 DEF Calm
  <2>3. CASE Reading(q, f) /\ rd'[q].seq = rd[q].seq /\ rd'[q].from = rd[q].from
    BY <1>2, <2>1, <2>3
  <2>4. CASE rd'[q].seq > readSeq /\ rd'[q].seq \in Nat
    BY <1>1, <2>1, <2>4
  <2> QED
    BY <2>2, <2>3, <2>4
<1> QED
  BY <1>3, <1>4 DEF Due

\* A page that pays what a number owes goes on paying it.
LEMMA MeetsStays ==
  ASSUME Inv, SeqVis, \A p \in Procs : ReadVis(p), Calm,
         NEW f \in Files, NEW s \in Nat, s <= readSeq, NEW pg \in Pages, Meets(f, s, pg)
  PROVE  Meets(f, s, pg)'
<1> SUFFICES ASSUME NEW v \in Due(f, s)' PROVE Recent(pg, f, v)'
  BY DEF Meets
<1>1. v \in Due(f, s)
  BY DueStays
<1>2. Recent(pg, f, v) /\ v \in 1 .. Version(f)
  BY <1>1 DEF Meets, Due
<1> QED
  BY <1>2 DEF Calm

\* A smaller number owes no more.
LEMMA MeetsDown ==
  ASSUME Inv, NEW f \in Files, NEW s \in Nat, NEW t \in Nat, t <= s, NEW pg, Meets(f, s, pg)
  PROVE  Meets(f, t, pg)
<1>1. fileReadSeq[f] \in Nat /\ \A q \in Procs : rd[q].seq \in Nat
  BY VisTypes
<1>2. ASSUME NEW v \in Due(f, t) PROVE v \in Due(f, s)
  BY <1>1, <1>2 DEF Due
<1> QED
  BY <1>2 DEF Meets

\* Reading the file now pays everything.
LEMMA MeetsNow ==
  ASSUME Inv, NEW f \in Files, NEW s, NEW pg,
         pg = PageAt(f, Version(f)) \/ ReadFailed(pg)
  PROVE  Meets(f, s, pg)
<1>1. Version(f) \in Nat
  BY VisTypes
<1>2. ASSUME NEW v \in 1 .. Version(f) PROVE Recent(pg, f, v)
  BY <1>1 DEF Recent, Shows
<1> QED
  BY <1>2 DEF Meets, Due

\* So does finding no file.
LEMMA GoneNow ==
  ASSUME Inv, NEW f \in Files, NEW s, Now(f) = "gone"
  PROVE  Meets(f, s, NoPage)
<1>1. PageAt(f, Version(f)) = NoPage
  BY DEF PageAt, Now
<1> QED
  BY <1>1, MeetsNow

\* A fingerprint pays for its page.
LEMMA MeetsByFp ==
  ASSUME Inv, NEW f \in Files, NEW s, NEW fp \in Fps, NEW pg, Good(f, fp, pg), fp > ZeroFp,
         \A v \in Due(f, s) : v <= fp
  PROVE  Meets(f, s, pg)
<1>1. Version(f) \in Nat /\ fp \in Int
  BY VisTypes, PageIndexAssumption DEF Fps
<1>2. ASSUME NEW v \in Due(f, s) PROVE Recent(pg, f, v)
  <2>1. v \in Nat /\ v <= fp
    BY <1>1, <1>2 DEF Due
  <2> QED
    BY <1>1, <2>1 DEF Good, Recent, Shows
<1> QED
  BY <1>2 DEF Meets

\* A listing's read stays what it is.
LEMMA OwnVisStays ==
  ASSUME Inv, SeqVis, \A q \in Procs : ReadVis(q), Calm, NEW p \in Procs, NEW f \in Files,
         OwnVis(p, f), build'[p].reads[f] = build[p].reads[f],
         build'[p].listingSeq = build[p].listingSeq
  PROVE  OwnVis(p, f)'
<1> DEFINE s == build[p].reads[f].seq
           pg == build[p].reads[f].page
           l == build[p].listingSeq
<1>1. /\ readSeq \in Nat /\ l \in Nat /\ s \in Nat /\ pg \in Pages
      /\ readSeq' \in Nat /\ readSeq' >= readSeq
  BY VisTypes DEF Calm
<1>2. \A x \in Nat, y \in Pages : x <= readSeq /\ Meets(f, x, y) => Meets(f, x, y)'
  BY MeetsStays
<1>3. s' = s /\ pg' = pg /\ l' = l
  OBVIOUS
<1>4. s > 0 => s \in (l + 1) .. readSeq /\ Meets(f, s, pg)
  BY DEF OwnVis
<1> HIDE DEF s, pg, l
<1>5. s > 0 => s \in (l + 1) .. readSeq'
  BY <1>1, <1>4
<1>6. s > 0 => Meets(f, s, pg)'
  BY <1>1, <1>2, <1>3, <1>4 DEF Meets
<1> QED
  BY <1>3, <1>5, <1>6 DEF OwnVis, s, pg, l

\* What a listing's number owes does not grow.
LEMMA AbsentStays ==
  ASSUME Inv, SeqVis, \A q \in Procs : ReadVis(q), Calm, NEW p \in Procs, NEW f \in Files,
         build[p].listingSeq <= readSeq, build'[p].listingSeq = build[p].listingSeq
  PROVE  /\ Absent(p, f) => Absent(p, f)'
         /\ \A v \in Due(f, build[p].listingSeq)' : v \in Due(f, build[p].listingSeq)
<1> DEFINE s == build[p].listingSeq
<1>1. s' = s /\ s \in Nat /\ s <= readSeq
  BY VisTypes
<1>2. \A x \in Nat : x <= readSeq => \A v \in Due(f, x)' : v \in Due(f, x)
  BY DueStays
<1>3. \A x \in Nat : x <= readSeq /\ Meets(f, x, NoPage) => Meets(f, x, NoPage)'
  BY MeetsStays, PageIndexAssumption DEF NoPage, Pages
<1> HIDE DEF s
<1>4. \A v \in Due(f, s)' : v \in Due(f, s)
  BY <1>1, <1>2
<1>5. Meets(f, s, NoPage) => Meets(f, s, NoPage)'
  BY <1>1, <1>3 DEF Meets, NoPage
<1> QED
  BY <1>4, <1>5 DEF Absent, s

\* A page the step leaves alone stays settled.
LEMMA SettledStays ==
  ASSUME Inv, SeqVis, \A p \in Procs : ReadVis(p), Calm, NEW f \in Files,
         snapshot'[f] = snapshot[f], fileReadSeq'[f] = fileReadSeq[f], Settled(f)
  PROVE  Settled(f)'
<1>1. /\ fileReadSeq[f] \in Nat /\ fileReadSeq[f] <= readSeq /\ snapshot[f] \in Pages
  BY VisTypes DEF SeqVis
<1>2. \A x \in Nat, y \in Pages : x <= readSeq /\ Meets(f, x, y) => Meets(f, x, y)'
  BY MeetsStays
<1> DEFINE s == fileReadSeq[f]
           pg == snapshot[f]
<1>3. s' = s /\ pg' = pg
  OBVIOUS
<1> HIDE DEF s, pg
<1>4. Meets(f, s, pg) => Meets(f, s, pg)'
  BY <1>1, <1>2, <1>3 DEF Meets, s, pg
<1> QED
  BY <1>4 DEF Settled, s, pg

\* What a listing that does not move knows stays true, as long as the pages that change
\* are settled.
LEMMA FileVisStays ==
  ASSUME Inv, SeqVis, \A q \in Procs : ReadVis(q), Calm, NEW p \in Procs, NEW f \in Files,
         build[p].listingSeq <= readSeq, FileVis(p, f),
         pc'[p] = pc[p], rd'[p] = rd[p],
         build'[p].reads = build[p].reads, build'[p].names = build[p].names,
         build'[p].fps = build[p].fps, build'[p].todo = build[p].todo,
         build'[p].listingSeq = build[p].listingSeq,
         \/ snapshot'[f] = snapshot[f] /\ fileReadSeq'[f] = fileReadSeq[f]
         \/ Settled(f)'
  PROVE  FileVis(p, f)'
<1>1. fileReadSeq[f] \in Nat /\ build[p].listingSeq \in Nat
  BY VisTypes
<1>2. OwnVis(p, f)' /\ (Absent(p, f) => Absent(p, f)')
  BY OwnVisStays, AbsentStays DEF FileVis
<1>3. StatVis(p, f) => StatVis(p, f)'
  <2>1. \A v \in Due(f, build[p].listingSeq)' : v \in Due(f, build[p].listingSeq)
    BY AbsentStays
  <2> QED
    BY <1>2, <2>1 DEF StatVis
<1>4. Settled(f) => Settled(f)'
  BY SettledStays
<1>5. Kept(p, f)' <=> Kept(p, f)
  BY DEF Kept
<1>6. fileReadSeq'[f] >= build'[p].listingSeq => Settled(f)'
  BY <1>1, <1>4 DEF FileVis
<1>7. pc'[p] \in ReadingPcs /\ Kept(p, f)' => Settled(f)'
  BY <1>4, <1>5 DEF FileVis
<1>8. pc'[p] # "readdir" /\ f \notin build'[p].names => Absent(p, f)'
  BY <1>2 DEF FileVis
<1>9. pc'[p] = "diff" /\ f \in build'[p].names => StatVis(p, f)'
  BY <1>3 DEF FileVis
<1> QED
  BY <1>2, <1>6, <1>7, <1>8, <1>9 DEF FileVis

\* Numbers and floors stay in their ranges.
LEMMA SeqVisStays ==
  ASSUME Inv, SeqVis, \A p \in Procs : ReadVis(p), Calm
  PROVE  SeqVis'
<1> SUFFICES ASSUME NEW f \in Files
             PROVE  fileReadSeq'[f] <= readSeq' /\ seenFloor'[f] \in 1 .. Version(f)'
  BY DEF SeqVis
<1>1. /\ Version(f) \in Nat /\ Version(f)' \in Nat /\ Version(f)' >= Version(f)
      /\ fileReadSeq'[f] <= readSeq'
  BY VisTypes DEF Calm
<1>2. seenFloor'[f] \in 1 .. Version(f)
  <2>1. CASE seenFloor'[f] = seenFloor[f]
    BY <2>1 DEF SeqVis
  <2>2. ASSUME NEW q \in Procs, Reading(q, f), seenFloor'[f] = rd[q].from
        PROVE  seenFloor'[f] \in 1 .. Version(f)
    BY <2>2 DEF Reading, ReadVis
  <2> QED
    BY <2>1, <2>2 DEF Calm
<1> QED
  BY <1>1, <1>2

\* A read under way stays what it is while its goroutine does not move.
LEMMA ReadVisStays ==
  ASSUME Inv, SeqVis, \A p \in Procs : ReadVis(p), Calm, NEW q \in Procs,
         pc'[q] \in ReadPcs => pc'[q] = pc[q] /\ (inflight' = q <=> inflight = q),
         rd'[q] = rd[q], build'[q].kind = build[q].kind
  PROVE  ReadVis(q)'
<1> SUFFICES ASSUME pc'[q] \in ReadPcs PROVE ReadVis(q)'
  BY DEF ReadVis
<1> DEFINE r == rd[q]
<1>1. /\ pc'[q] = pc[q] /\ r' = r /\ r.seq \in 1 .. readSeq /\ r.file \in Files
      /\ r.seq \in Nat /\ r.page \in Pages /\ readSeq \in Nat /\ readSeq' \in Nat
      /\ readSeq' >= readSeq /\ (inflight' = q <=> inflight = q)
  BY VisTypes DEF ReadVis, Calm
<1>2. r.seq \in 1 .. readSeq' /\ r.seq <= readSeq
  BY <1>1
<1>3. q # inflight => r.from \in 1 .. Version(r.file)'
  <2>1. /\ Version(r.file) \in Nat /\ Version(r.file)' \in Nat
        /\ Version(r.file)' >= Version(r.file)
    BY <1>1, VisTypes DEF Calm, Version
  <2> QED
    BY <1>1, <2>1 DEF ReadVis
<1>4. pc[q] = "apply" => ~IsListing(q)' /\ Meets(r.file, r.seq, r.page)'
  <2>1. \A f \in Files, x \in Nat, y \in Pages :
          x <= readSeq /\ Meets(f, x, y) => Meets(f, x, y)'
    BY MeetsStays
  <2>2. pc[q] = "apply" => ~IsListing(q)' /\ Meets(r.file, r.seq, r.page)
    BY <1>1 DEF ReadVis, IsListing
  <2> DEFINE f == r.file
             s == r.seq
             pg == r.page
  <2>3. f' = f /\ s' = s /\ pg' = pg
    BY <1>1
  <2>4. f \in Files /\ s \in Nat /\ s <= readSeq /\ pg \in Pages
    BY <1>1, <1>2
  <2> HIDE DEF f, s, pg
  <2>5. Meets(f, s, pg) => Meets(f, s, pg)'
    BY <2>1, <2>3, <2>4 DEF Meets, Due, Reading, Recent, Shows, ReadFailed, PageAt, Version
  <2> QED
    BY <2>2, <2>5 DEF f, s, pg
<1> QED
  BY <1>1, <1>2, <1>3, <1>4 DEF ReadVis

\* One goroutine moves; the others may be woken or promoted.
LEMMA VisMove ==
  ASSUME Inv, VisInv, Calm, NEW p \in Procs,
         \A q \in Procs \ {p} :
           /\ rd'[q] = rd[q]
           /\ build'[q].reads = build[q].reads /\ build'[q].names = build[q].names
           /\ build'[q].fps = build[q].fps /\ build'[q].todo = build[q].todo
           /\ build'[q].listingSeq = build[q].listingSeq /\ build'[q].kind = build[q].kind
           /\ \/ pc'[q] = pc[q] \/ pc'[q] \in {"return", "loop"}
              \/ pc[q] = "queued" /\ pc'[q] = "start"
           /\ pc'[q] \in ListPcs => (inflight' = q <=> inflight = q)
           /\ pc'[q] \in ListPcs /\ inflight' = q =>
                \A f \in Files : \/ snapshot'[f] = snapshot[f] /\ fileReadSeq'[f] = fileReadSeq[f]
                                 \/ Settled(f)',
         ReadVis(p)', Unread(p)', ListVis(p)', PubVis'
  PROVE  VisInv'
<1>1. SeqVis /\ \A q \in Procs : ReadVis(q)
  BY DEF VisInv
<1>2. SeqVis'
  BY <1>1, SeqVisStays
<1>3. ASSUME NEW q \in Procs \ {p} PROVE ReadVis(q)'
  <2>1. /\ rd'[q] = rd[q] /\ build'[q].kind = build[q].kind
        /\ pc'[q] \in ReadPcs => pc'[q] = pc[q] /\ (inflight' = q <=> inflight = q)
    BY <1>3 DEF ReadPcs, ListPcs
  <2> QED
    BY <1>1, <1>3, <2>1, ReadVisStays
<1>4. ASSUME NEW q \in Procs \ {p} PROVE Unread(q)'
  <2>1. /\ pc'[q] \in FreshPcs => pc[q] \in FreshPcs
        /\ pc'[q] \in ScanPcs => pc[q] \in ScanPcs
    BY <1>4 DEF FreshPcs, ScanPcs
  <2>2. build'[q].reads = build[q].reads /\ build'[q].kind = build[q].kind /\ Unread(q)
    BY <1>4 DEF VisInv
  <2> QED
    BY <2>1, <2>2 DEF Unread
<1>5. ASSUME NEW q \in Procs \ {p}, Listing(q)'
      PROVE  /\ build'[q].listingSeq <= readSeq'
             /\ pc'[q] \in ReadPcs => rd'[q].seq > build'[q].listingSeq
             /\ pc'[q] = "merge" => build'[q].todo = {}
             /\ \A f \in Files : FileVis(q, f)'
  <2>1. /\ pc'[q] = pc[q] /\ rd'[q] = rd[q] /\ inflight' = q /\ inflight = q
        /\ pc[q] \in ListPcs
        /\ build'[q].listingSeq = build[q].listingSeq /\ build'[q].todo = build[q].todo
    BY <1>5 DEF Listing, IsListing, ListPcs, ReadPcs
  <2>2. Listing(q)
    BY <1>5, <2>1 DEF Listing, IsListing
  <2>3. /\ build[q].listingSeq <= readSeq
        /\ pc[q] \in ReadPcs => rd[q].seq > build[q].listingSeq
        /\ pc[q] = "merge" => build[q].todo = {}
        /\ \A f \in Files : FileVis(q, f)
    BY <1>5, <2>2 DEF VisInv, ListVis
  <2>4. build[q].listingSeq \in Nat /\ readSeq \in Nat /\ readSeq' \in Nat /\ readSeq' >= readSeq
    BY <1>5, VisTypes DEF Calm
  <2>5. ASSUME NEW f \in Files PROVE FileVis(q, f)'
    <3>1. /\ build'[q].reads = build[q].reads /\ build'[q].names = build[q].names
          /\ build'[q].fps = build[q].fps
          /\ \/ snapshot'[f] = snapshot[f] /\ fileReadSeq'[f] = fileReadSeq[f]
             \/ Settled(f)'
      BY <1>5, <2>1
    <3> QED
      BY <1>1, <1>5, <2>1, <2>3, <3>1, FileVisStays
  <2>6. build'[q].listingSeq <= readSeq'
    BY <2>1, <2>3, <2>4
  <2> QED
    BY <2>1, <2>3, <2>5, <2>6
<1>6. ASSUME NEW q \in Procs \ {p} PROVE ListVis(q)'
  <2>1. CASE Listing(q)'
    BY <1>5, <1>6, <2>1 DEF ListVis
  <2>2. CASE ~Listing(q)'
    BY <2>2 DEF ListVis
  <2> QED
    BY <2>1, <2>2
<1> QED
  BY <1>2, <1>3, <1>4, <1>6 DEF VisInv

\* A step that leaves files, numbers and floors alone and starts no event's read is calm.
LEMMA CalmStep ==
  ASSUME Inv, SeqVis, faults' \in Nat, faults' >= faults,
         UNCHANGED <<disk, readSeq, seenFloor, fileReadSeq>>,
         \A q \in Procs : pc'[q] \in ReadPcs /\ q # inflight' =>
           pc[q] \in ReadPcs /\ q # inflight /\ rd'[q].file = rd[q].file
             /\ rd'[q].seq = rd[q].seq /\ rd'[q].from = rd[q].from
  PROVE  Calm
<1>1. /\ readSeq \in Nat /\ faults \in Nat
      /\ \A f \in Files : Version(f) \in Nat /\ fileReadSeq[f] \in Nat
  BY VisTypes DEF Inv, TypeOK, BoundTypeOK
<1>2. ASSUME NEW f \in Files, NEW v, NEW pg, Recent(pg, f, v)
      PROVE  Recent(pg, f, v)'
  BY <1>1, <1>2 DEF Recent, Shows, PageAt, Version, ReadFailed
<1>3. \A f \in Files : Version(f)' = Version(f)
  BY DEF Version
<1>4. ASSUME NEW q \in Procs, NEW f \in Files, Reading(q, f)'
      PROVE  Reading(q, f) /\ rd'[q].seq = rd[q].seq /\ rd'[q].from = rd[q].from
  BY <1>4 DEF Reading
<1>5. ASSUME NEW f \in Files
      PROVE  /\ Version(f)' \in Nat /\ Version(f)' >= Version(f)
             /\ \A v \in 1 .. Version(f), pg \in Pages : Recent(pg, f, v) => Recent(pg, f, v)'
             /\ fileReadSeq'[f] \in Nat /\ fileReadSeq'[f] >= fileReadSeq[f]
             /\ fileReadSeq'[f] <= readSeq' /\ seenFloor'[f] = seenFloor[f]
  BY <1>1, <1>2, <1>3 DEF SeqVis
<1> QED
  BY <1>1, <1>4, <1>5 DEF Calm

\* A goroutine that moves outside its reads and leaves the pages alone.
LEMMA QuietVis ==
  ASSUME Inv, VisInv, NEW p \in Procs, faults' \in Nat, faults' >= faults,
         UNCHANGED <<disk, readSeq, seenFloor, fileReadSeq, snapshot, hasSnapshot,
                     storedBaseline>>,
         pc[p] \notin ReadPcs, pc'[p] \notin ReadPcs,
         \A q \in Procs \ {p} :
           /\ rd'[q] = rd[q]
           /\ build'[q].reads = build[q].reads /\ build'[q].names = build[q].names
           /\ build'[q].fps = build[q].fps /\ build'[q].todo = build[q].todo
           /\ build'[q].listingSeq = build[q].listingSeq /\ build'[q].kind = build[q].kind
           /\ \/ pc'[q] = pc[q] \/ pc'[q] \in {"return", "loop"}
              \/ pc[q] = "queued" /\ pc'[q] = "start"
           /\ pc'[q] \in ListPcs => (inflight' = q <=> inflight = q),
         Unread(p)', ListVis(p)'
  PROVE  VisInv'
<1>1. SeqVis /\ PubVis /\ \A q \in Procs : ReadVis(q)
  BY DEF VisInv
<1>2. \A q \in Procs : pc'[q] \in ReadPcs /\ q # inflight' =>
           pc[q] \in ReadPcs /\ q # inflight /\ rd'[q].file = rd[q].file
             /\ rd'[q].seq = rd[q].seq /\ rd'[q].from = rd[q].from
  BY DEF ReadPcs, ListPcs
<1>3. Calm
  BY <1>1, <1>2, CalmStep
<1>4. PubVis'
  BY <1>1, <1>3, SettledStays DEF PubVis
<1>5. ReadVis(p)'
  BY DEF ReadVis
<1> QED
  BY <1>3, <1>4, <1>5, VisMove

\* So does a goroutine that is not part of a build afterwards.
LEMMA OutsideVis ==
  ASSUME Inv, VisInv, NEW p \in Procs, faults' \in Nat, faults' >= faults,
         UNCHANGED <<disk, readSeq, seenFloor, fileReadSeq, snapshot, hasSnapshot,
                     storedBaseline, inflight>>,
         pc[p] \notin ReadPcs, pc'[p] \notin ListPcs \cup FreshPcs,
         \A q \in Procs \ {p} : rd'[q] = rd[q] /\ build'[q] = build[q] /\ pc'[q] = pc[q]
  PROVE  VisInv'
<1>1. Unread(p)' /\ ListVis(p)' /\ pc'[p] \notin ReadPcs
  BY DEF Unread, ListVis, Listing, ListPcs, FreshPcs, ScanPcs
<1> QED
  BY <1>1, QuietVis

\* Marks, and calls that begin, serve, give up or return, move outside the builds.  A
\* RefreshFile that refreshed a cold folder raises the floors as it returns.
LEMMA CallVis ==
  ASSUME Inv, VisInv, NEW p \in Procs, NEW f,
         \/ BeginList(p) \/ BeginRefresh(p) \/ Serve(p) \/ Cancel(p)
         \/ Return(p) /\ ~(p \in Watchers /\ call[p].ok)
         \/ BeginMarkFile(p, f) \/ EndMarkFile(p) \/ WidenMarkFile(p) \/ Persist(p)
         \/ BeginRefreshFile(p, f) /\ ~hasSnapshot
  PROVE  VisInv'
<1>1. /\ pc \in [Procs -> Pcs] /\ build \in [Procs -> Builds] /\ rd \in [Procs -> FileReads]
      /\ faults \in Nat
  BY DEF Inv, TypeOK, ProcTypeOK, BoundTypeOK
<1>2. /\ UNCHANGED <<disk, readSeq, seenFloor, fileReadSeq, snapshot, hasSnapshot,
                     storedBaseline, inflight>>
      /\ faults' \in {faults, faults + 1}
  BY DEF BeginList, BeginRefresh, EnterRefresh, Serve, Cancel, Return,
         BeginMarkFile, EndMarkFile, WidenMarkFile, Persist, BeginRefreshFile,
         diskVars, pageVars, loadVars, boundVars,
         slotVars, floorVars, Fault
<1>3. /\ pc[p] \in {"idle", "loop", "wait", "return", "markfile", "markfolder", "persist",
                    "savefile"}
      /\ \E x \in {"idle", "loop", "return", "markfile", "markfolder"} :
           pc' = [pc EXCEPT ![p] = x]
  BY AfterAwaitPcs DEF BeginList, BeginRefresh, EnterRefresh, Serve, Cancel, Return,
         BeginMarkFile, EndMarkFile, WidenMarkFile, Persist, BeginRefreshFile
<1>4. /\ build' = build \/ build' = [build EXCEPT ![p] = NoBuild]
      /\ \/ rd' = rd \/ rd' = [rd EXCEPT ![p] = NoFileRead]
         \/ rd' = [rd EXCEPT ![p].file = f]
  BY DEF BeginList, BeginRefresh, EnterRefresh, Serve, Cancel, Return,
         BeginMarkFile, EndMarkFile, WidenMarkFile, Persist, BeginRefreshFile
<1>5. \A q \in Procs \ {p} : rd'[q] = rd[q] /\ build'[q] = build[q] /\ pc'[q] = pc[q]
  BY <1>1, <1>3, <1>4
<1>6. pc[p] \notin ReadPcs /\ pc'[p] \notin ListPcs \cup FreshPcs
  BY <1>1, <1>3 DEF ReadPcs, ListPcs, FreshPcs
<1>7. faults' \in Nat /\ faults' >= faults
  BY <1>1, <1>2
<1> QED
  BY <1>2, <1>5, <1>6, <1>7, OutsideVis

\* The goroutine that owns the running build moves: nobody else's read is disturbed.
LEMMA OwnerVis ==
  ASSUME Inv, VisInv, NEW p \in Procs, inflight = p, inflight' = p,
         faults' \in Nat, faults' >= faults, UNCHANGED <<disk, seenFloor>>,
         readSeq' \in Nat, readSeq' >= readSeq,
         \A f \in Files : /\ fileReadSeq'[f] \in Nat /\ fileReadSeq'[f] >= fileReadSeq[f]
                          /\ fileReadSeq'[f] <= readSeq',
         \A q \in Procs \ {p} : pc'[q] = pc[q] /\ rd'[q] = rd[q] /\ build'[q] = build[q]
  PROVE  /\ Calm
         /\ ReadVis(p)' /\ Unread(p)' /\ ListVis(p)' /\ PubVis' => VisInv'
<1>1. readSeq \in Nat /\ faults \in Nat /\ \A f \in Files : Version(f) \in Nat
  BY VisTypes DEF Inv, TypeOK, BoundTypeOK
<1>2. ASSUME NEW f \in Files, NEW v, NEW pg, Recent(pg, f, v)
      PROVE  Recent(pg, f, v)'
  BY <1>1, <1>2 DEF Recent, Shows, PageAt, Version, ReadFailed
<1>3. \A f \in Files : Version(f)' = Version(f)
  BY DEF Version
<1>4. ASSUME NEW q \in Procs, NEW f \in Files, Reading(q, f)'
      PROVE  Reading(q, f) /\ rd'[q].seq = rd[q].seq /\ rd'[q].from = rd[q].from
  BY <1>4 DEF Reading
<1>5. ASSUME NEW f \in Files
      PROVE  /\ Version(f)' \in Nat /\ Version(f)' >= Version(f)
             /\ \A v \in 1 .. Version(f), pg \in Pages : Recent(pg, f, v) => Recent(pg, f, v)'
             /\ seenFloor'[f] = seenFloor[f]
  BY <1>1, <1>2, <1>3
<1>6. Calm
  BY <1>1, <1>4, <1>5 DEF Calm
<1> QED
  BY <1>6, VisMove

\* acquireLocked: a build that is queued or started has read nothing.
LEMMA AcquireVis ==
  ASSUME Inv, VisInv, NEW p \in Procs, Acquire(p)
  PROVE  VisInv'
<1>1. /\ pc \in [Procs -> Pcs] /\ build \in [Procs -> Builds] /\ faults \in Nat /\ SingleFlight
  BY DEF Inv, TypeOK, ProcTypeOK, BoundTypeOK
<1> DEFINE own == [NoBuild EXCEPT !.kind = Pending(IsRefresh(p)).kind, !.startSeq = requestSeq]
<1>2. /\ pc[p] = "loop"
      /\ UNCHANGED <<disk, readSeq, seenFloor, fileReadSeq, snapshot, hasSnapshot,
                     storedBaseline, faults, rd>>
  BY DEF Acquire, diskVars, pageVars, loadVars, floorVars, boundVars
<1>3. /\ inflight' = inflight \/ (inflight = None /\ inflight' = p)
      /\ \/ pc' = [pc EXCEPT ![p] = "wait"] /\ build' = build
         \/ /\ \E x \in {"queued", "start"} : pc' = [pc EXCEPT ![p] = x]
            /\ build' = [build EXCEPT ![p] = own]
  BY DEF Acquire, slotVars
<1>4. \A f \in Files : own.reads[f].seq = 0
  BY DEF NoBuild, NoRead
<1> HIDE DEF own
<1>5. \A q \in Procs \ {p} : /\ rd'[q] = rd[q] /\ build'[q] = build[q] /\ pc'[q] = pc[q]
                             /\ inflight' = q <=> inflight = q
  BY <1>1, <1>2, <1>3, PageIndexAssumption
<1>6. pc'[p] \in {"wait", "queued", "start"} /\ (pc'[p] # "wait" => build'[p] = own)
  BY <1>1, <1>3
<1>7. Unread(p)' /\ ListVis(p)'
  BY <1>4, <1>6 DEF Unread, ListVis, Listing, ListPcs, ReadPcs, FreshPcs, ScanPcs
<1>8. pc[p] \notin ReadPcs /\ pc'[p] \notin ReadPcs /\ faults' \in Nat /\ faults' >= faults
  BY <1>1, <1>2, <1>6 DEF ReadPcs
<1> QED
  BY <1>2, <1>5, <1>7, <1>8, QuietVis

\* release promotes a follow-up that has read nothing.
LEMMA ReleaseVis ==
  ASSUME Inv, VisInv, NEW p \in Procs, Release(p)
  PROVE  VisInv'
<1>1. /\ pc \in [Procs -> Pcs] /\ build \in [Procs -> Builds] /\ faults \in Nat /\ SingleFlight
  BY DEF Inv, TypeOK, ProcTypeOK, BoundTypeOK
<1>2. /\ pc[p] = "release" /\ inflight = p /\ inflight' = followUp
      /\ UNCHANGED <<disk, readSeq, seenFloor, fileReadSeq, snapshot, hasSnapshot,
                     storedBaseline, faults, rd>>
  BY <1>1, Owner DEF Release, diskVars, pageVars, loadVars, floorVars, boundVars, OwnerPcs
<1>3. pc'[p] \in {"persist", "return", "loop"}
  BY AfterAwaitPcs DEF Release
<1>4. ASSUME NEW q \in Procs \ {p}
      PROVE  \/ pc'[q] = pc[q] \/ pc'[q] \in {"return", "loop"}
             \/ pc[q] = "queued" /\ pc'[q] = "start"
  <2>1. q = followUp => pc[q] = "queued"
    BY <1>1 DEF SingleFlight
  <2>2. PICK pages : pc'[q] = IF pc[q] = "wait" /\ call[q].on = p
                                THEN AfterAwait(Awaited(q, build[p], pages))
                                ELSE IF q = followUp THEN "start" ELSE pc[q]
    BY DEF Release
  <2>3. AfterAwait(Awaited(q, build[p], pages)) \in {"return", "loop"}
    BY AfterAwaitPcs
  <2> QED
    BY <2>1, <2>2, <2>3
<1>5. ASSUME NEW q \in Procs \ {p}
      PROVE  pc'[q] \in ListPcs => (inflight' = q <=> inflight = q)
  <2>1. q = followUp => pc'[q] \in {"start", "return", "loop"}
    <3>1. q = followUp => pc[q] = "queued"
      BY <1>1 DEF SingleFlight
    <3>2. q = followUp => pc'[q] = "start"
      BY <3>1 DEF Release
    <3> QED
      BY <3>2
  <2> QED
    BY <1>2, <1>5, <2>1 DEF ListPcs, ReadPcs
<1>6. ASSUME NEW q \in Procs \ {p}
      PROVE  /\ build'[q].reads = build[q].reads /\ build'[q].names = build[q].names
             /\ build'[q].fps = build[q].fps /\ build'[q].todo = build[q].todo
             /\ build'[q].listingSeq = build[q].listingSeq /\ build'[q].kind = build[q].kind
  <2>1. build'[q] \in {build[q], [build[q] EXCEPT !.startSeq = requestSeq]}
    BY DEF Release
  <2> QED
    BY <1>1, <2>1 DEF Builds
<1>7. Unread(p)' /\ ListVis(p)'
  BY <1>3 DEF Unread, ListVis, Listing, ListPcs, ReadPcs, FreshPcs, ScanPcs
<1>8. /\ pc[p] \notin ReadPcs /\ pc'[p] \notin ReadPcs /\ faults' \in Nat /\ faults' >= faults
      /\ \A q \in Procs : rd'[q] = rd[q]
  BY <1>1, <1>2, <1>3 DEF ReadPcs
<1> QED
  BY <1>2, <1>4, <1>5, <1>6, <1>7, <1>8, QuietVis

\* executeHydrate's seed is a baseline and settles nothing; neither does a failed listing.
LEMMA SeedVis ==
  ASSUME Inv, VisInv, NEW p \in Procs, Hydrate(p) \/ FailListing(p)
  PROVE  VisInv'
<1>1. /\ pc \in [Procs -> Pcs] /\ build \in [Procs -> Builds] /\ faults \in Nat /\ SingleFlight
      /\ storedBaseline \in BOOLEAN
  BY DEF Inv, TypeOK, ProcTypeOK, BoundTypeOK, LoadTypeOK
<1>2. /\ pc[p] \in {"start", "readdir", "collect"} /\ inflight = p /\ inflight' = p
      /\ UNCHANGED <<disk, readSeq, seenFloor, fileReadSeq, rd>>
      /\ faults' \in {faults, faults + 1}
  BY <1>1, Owner DEF Hydrate, FailListing, diskVars, pageVars, slotVars, floorVars, Fault, OwnerPcs
<1>3. \/ pc[p] = "start" /\ pc' = [pc EXCEPT ![p] = "seeded"] /\ build' = build
      \/ pc' = [pc EXCEPT ![p] = "release"] /\ build' = [build EXCEPT ![p].err = TRUE]
  BY DEF Hydrate, FailListing
<1>4. \A q \in Procs \ {p} : pc'[q] = pc[q] /\ rd'[q] = rd[q] /\ build'[q] = build[q]
  BY <1>1, <1>2, <1>3
<1>5. /\ faults' \in Nat /\ faults' >= faults /\ readSeq' \in Nat /\ readSeq' >= readSeq
      /\ \A f \in Files : /\ fileReadSeq'[f] \in Nat /\ fileReadSeq'[f] >= fileReadSeq[f]
                          /\ fileReadSeq'[f] <= readSeq'
  BY <1>1, <1>2, VisTypes DEF VisInv, SeqVis
<1>6. Calm
  BY <1>2, <1>4, <1>5, OwnerVis
<1>7. PubVis'
  <2>1. CASE storedBaseline' \/ ~hasSnapshot'
    BY <2>1 DEF PubVis
  <2>2. CASE UNCHANGED <<snapshot, hasSnapshot, storedBaseline>>
    BY <1>2, <1>6, <2>2, SettledStays DEF PubVis, VisInv
  <2>3. \/ storedBaseline' \/ ~hasSnapshot' \/ UNCHANGED <<snapshot, hasSnapshot, storedBaseline>>
    BY <1>1 DEF Hydrate, FailListing
  <2> QED
    BY <2>1, <2>2, <2>3
<1>8. ReadVis(p)' /\ Unread(p)' /\ ListVis(p)'
  <2>1. \/ pc[p] = "start" /\ pc'[p] = "seeded" /\ build' = build /\ build[p].kind = "hydrate"
        \/ pc'[p] = "release"
    BY <1>1, <1>3 DEF Hydrate, FailListing
  <2>2. pc[p] = "start" => \A f \in Files : build[p].reads[f].seq = 0
    BY DEF VisInv, Unread, FreshPcs
  <2> QED
    BY <2>1, <2>2 DEF ReadVis, Unread, ListVis, Listing, ListPcs, ReadPcs, FreshPcs, ScanPcs
<1> QED
  BY <1>2, <1>4, <1>5, <1>7, <1>8, OwnerVis

\* A build's step that reads no file and leaves the pages alone.
LEMMA ListStep ==
  ASSUME Inv, VisInv, NEW p \in Procs, inflight = p, inflight' = p,
         UNCHANGED <<disk, faults, seenFloor, fileReadSeq, snapshot, hasSnapshot,
                     storedBaseline, rd>>,
         readSeq' \in {readSeq, readSeq + 1},
         NEW x \in Pcs \ (FreshPcs \cup ReadPcs), pc' = [pc EXCEPT ![p] = x],
         \A q \in Procs \ {p} : build'[q] = build[q],
         x \in ScanPcs => build'[p].kind # "filereads"
  PROVE  /\ Calm
         /\ ListVis(p)' => VisInv'
<1>1. pc \in [Procs -> Pcs] /\ faults \in Nat /\ readSeq \in Nat
  BY DEF Inv, TypeOK, ProcTypeOK, BoundTypeOK
<1>2. pc'[p] = x /\ \A q \in Procs \ {p} : pc'[q] = pc[q] /\ rd'[q] = rd[q] /\ build'[q] = build[q]
  BY <1>1
<1>3. /\ faults' \in Nat /\ faults' >= faults /\ readSeq' \in Nat /\ readSeq' >= readSeq
  BY <1>1
<1>4. ASSUME NEW f \in Files
      PROVE  /\ fileReadSeq'[f] \in Nat /\ fileReadSeq'[f] >= fileReadSeq[f]
             /\ fileReadSeq'[f] <= readSeq'
  BY <1>1, <1>3, VisTypes DEF VisInv, SeqVis
<1>5. Calm
  BY <1>2, <1>3, <1>4, OwnerVis
<1>6. PubVis'
  BY <1>5, SettledStays DEF PubVis, VisInv
<1>7. ReadVis(p)' /\ Unread(p)'
  BY <1>2 DEF ReadVis, Unread
<1>8. ListVis(p)' => VisInv'
  BY <1>2, <1>3, <1>4, <1>6, <1>7, OwnerVis
<1> QED
  BY <1>5, <1>8

\* executeListing's start: its number is larger than any that was applied.
LEMMA StartListingVis ==
  ASSUME Inv, VisInv, NEW p \in Procs, StartListing(p)
  PROVE  VisInv'
<1>1. /\ pc \in [Procs -> Pcs] /\ build \in [Procs -> Builds] /\ SingleFlight /\ readSeq \in Nat
  BY DEF Inv, TypeOK, ProcTypeOK
<1>2. /\ pc[p] \in {"start", "seeded"} /\ inflight = p /\ inflight' = p
      /\ UNCHANGED <<disk, faults, seenFloor, fileReadSeq, snapshot, hasSnapshot,
                     storedBaseline, rd>>
      /\ readSeq' = readSeq + 1 /\ pc' = [pc EXCEPT ![p] = "readdir"]
  BY <1>1, Owner DEF StartListing, diskVars, pageVars, loadVars, slotVars, floorVars, boundVars,
         OwnerPcs
<1>3. /\ build'[p].reads = build[p].reads /\ build'[p].listingSeq = readSeq + 1
      /\ \A q \in Procs \ {p} : build'[q] = build[q]
  BY <1>1 DEF StartListing, Builds
<1>4. /\ "readdir" \in Pcs \ (FreshPcs \cup ReadPcs) /\ readSeq' \in {readSeq, readSeq + 1}
      /\ build'[p].kind # "filereads"
  <2>1. build[p].kind # "filereads" /\ build'[p].kind = build[p].kind
    BY <1>1 DEF StartListing, Builds, VisInv, Unread, ScanPcs
  <2> QED
    BY <1>2, <2>1 DEF Pcs, FreshPcs, ReadPcs
<1>5. pc'[p] = "readdir"
  BY <1>1, <1>2
<1>6. ASSUME NEW f \in Files PROVE FileVis(p, f)'
  <2>1. build'[p].reads[f].seq = 0
    BY <1>2, <1>3 DEF VisInv, Unread, FreshPcs
  <2>2. ~(fileReadSeq'[f] >= build'[p].listingSeq)
    BY <1>1, <1>2, <1>3, VisTypes DEF VisInv, SeqVis
  <2> QED
    BY <1>5, <2>1, <2>2 DEF FileVis, OwnVis, ReadingPcs, ReadPcs
<1>7. ListVis(p)'
  <2>1. build'[p].listingSeq <= readSeq'
    BY <1>1, <1>2, <1>3
  <2> QED
    BY <1>5, <1>6, <2>1 DEF ListVis, ReadPcs
<1> QED
  BY <1>2, <1>3, <1>4, <1>7, ListStep

\* ListFiles: a name that is not listed is not there, and a fingerprint is of now.
LEMMA ListFilesVis ==
  ASSUME Inv, VisInv, NEW p \in Procs, ReadDir(p) \/ StatDir(p)
  PROVE  VisInv'
<1>1. /\ pc \in [Procs -> Pcs] /\ build \in [Procs -> Builds] /\ SingleFlight /\ readSeq \in Nat
      /\ DiskTypeOK
  BY DEF Inv, TypeOK, ProcTypeOK
<1>2. /\ inflight = p /\ inflight' = p
      /\ UNCHANGED <<disk, faults, seenFloor, fileReadSeq, snapshot, hasSnapshot,
                     storedBaseline, rd, readSeq>>
  BY <1>1, Owner DEF ReadDir, StatDir, diskVars, pageVars, loadVars, slotVars, floorVars,
         boundVars, OwnerPcs
<1>3. \/ /\ pc[p] = "readdir" /\ pc' = [pc EXCEPT ![p] = "statdir"]
         /\ build'[p].names = {f \in Files : Now(f) # "gone"}
      \/ /\ pc[p] = "statdir" /\ pc' = [pc EXCEPT ![p] = "diff"]
         /\ build'[p].names = build[p].names
         /\ \A f \in build[p].names : build'[p].fps[f] = Stat(f)
  BY <1>1 DEF ReadDir, StatDir, Builds
<1>4. /\ build'[p].reads = build[p].reads /\ build'[p].listingSeq = build[p].listingSeq
      /\ build'[p].todo = build[p].todo /\ build'[p].kind = build[p].kind
      /\ \A q \in Procs \ {p} : build'[q] = build[q]
  BY <1>1 DEF ReadDir, StatDir, Builds
<1>5. /\ {"statdir", "diff"} \subseteq Pcs \ (FreshPcs \cup ReadPcs)
      /\ readSeq' \in {readSeq, readSeq + 1} /\ build'[p].kind # "filereads"
  BY <1>2, <1>3, <1>4 DEF Pcs, FreshPcs, ReadPcs, VisInv, Unread, ScanPcs
<1>6. \E x \in {"statdir", "diff"} : pc' = [pc EXCEPT ![p] = x]
  BY <1>3
<1>7. PICK x \in Pcs \ (FreshPcs \cup ReadPcs) : pc' = [pc EXCEPT ![p] = x]
  BY <1>5, <1>6
<1>8. Calm
  BY <1>2, <1>4, <1>5, <1>7, ListStep
<1>9. ASSUME Listing(p) PROVE ListVis(p)'
  <2>1. /\ build[p].listingSeq <= readSeq /\ \A f \in Files : FileVis(p, f)
        /\ SeqVis /\ \A q \in Procs : ReadVis(q)
    BY <1>9 DEF VisInv, ListVis
  <2>2. pc'[p] \in {"statdir", "diff"} /\ pc'[p] \notin ReadPcs /\ pc'[p] \notin ReadingPcs
    BY <1>1, <1>3 DEF ReadPcs, ReadingPcs
  <2>3. ASSUME NEW f \in Files PROVE FileVis(p, f)'
    <3>1. OwnVis(p, f)' /\ (Absent(p, f) => Absent(p, f)')
      BY <1>4, <1>8, <2>1, OwnVisStays, AbsentStays DEF FileVis
    <3>2. fileReadSeq'[f] >= build'[p].listingSeq => Settled(f)'
      BY <1>2, <1>4, <1>8, <2>1, SettledStays DEF FileVis
    <3>3. f \notin build'[p].names => Absent(p, f)'
      <4>1. CASE pc[p] = "readdir"
        <5>1. f \notin build'[p].names => Now(f) = "gone"
          BY <1>3, <4>1
        <5> QED
          BY <3>1, <5>1, GoneNow DEF Absent
      <4>2. CASE pc[p] = "statdir"
        BY <1>3, <2>1, <3>1, <4>2 DEF FileVis
      <4> QED
        BY <1>3, <4>1, <4>2
    <3>4. ASSUME pc'[p] = "diff", f \in build'[p].names PROVE StatVis(p, f)'
      <4>1. build'[p].fps[f] = Stat(f)
        BY <1>1, <1>3, <3>4
      <4>2. CASE Stat(f) = ZeroFp
        <5>1. Now(f) = "gone"
          BY <1>1, <4>2, DiskTypes DEF Stat, ZeroFp
        <5>2. Absent(p, f)'
          BY <3>1, <5>1, GoneNow DEF Absent
        <5> QED
          BY <4>1, <4>2, <5>2 DEF StatVis
      <4>3. CASE Stat(f) # ZeroFp
        <5>1. Stat(f) = Version(f) /\ Version(f) \in Nat
          BY <1>1, <4>3, DiskTypes DEF Stat
        <5>2. \A v \in Due(f, build[p].listingSeq)' : v \in Due(f, build[p].listingSeq)
          BY <1>4, <1>8, <2>1, AbsentStays
        <5>3. \A v \in Due(f, build[p].listingSeq) : v <= Version(f)
          BY <5>1 DEF Due
        <5>4. \A v \in Due(f, build[p].listingSeq)' : v <= build'[p].fps[f]
          BY <4>1, <5>1, <5>2, <5>3
        <5>5. build'[p].fps[f] > ZeroFp /\ build'[p].fps[f] # ZeroFp
          BY <4>1, <4>3, <5>1 DEF ZeroFp
        <5> QED
          BY <5>4, <5>5 DEF StatVis
      <4> QED
        BY <4>2, <4>3
    <3> QED
      BY <2>2, <3>1, <3>2, <3>3, <3>4 DEF FileVis
  <2>4. build'[p].listingSeq <= readSeq'
    BY <1>2, <1>4, <2>1
  <2> QED
    BY <2>2, <2>3, <2>4 DEF ListVis
<1>10. Listing(p)' => Listing(p)
  BY <1>2, <1>3, <1>4 DEF Listing, IsListing, ListPcs
<1>11. ListVis(p)'
  BY <1>9, <1>10 DEF ListVis
<1> QED
  BY <1>2, <1>4, <1>5, <1>7, <1>11, ListStep

\* A file the comparison leaves out is settled: its recorded fingerprint is the one the
\* listing took.
LEMMA DiffSettled ==
  ASSUME Inv, HonestInv, NEW p \in Procs, NEW f \in Files, f \in build[p].names,
         pc[p] = "diff", FileVis(p, f), fingerprints[f] = build[p].fps[f]
  PROVE  Settled(f)
<1>1. /\ fileReadSeq[f] \in Nat /\ build[p].listingSeq \in Nat /\ fingerprints[f] \in Fps
      /\ StatVis(p, f) /\ (fileReadSeq[f] >= build[p].listingSeq => Settled(f))
      /\ Good(f, fingerprints[f], snapshot[f])
  BY VisTypes DEF FileVis, HonestInv, PagesGood
<1>2. Meets(f, build[p].listingSeq, snapshot[f])
  <2>1. CASE build[p].fps[f] = ZeroFp
    <3>1. snapshot[f] = NoPage
      BY <1>1, <2>1 DEF Good, ZeroFp
    <3> QED
      BY <1>1, <2>1, <3>1 DEF StatVis, Absent
  <2>2. CASE build[p].fps[f] # ZeroFp
    BY <1>1, <2>2, MeetsByFp DEF StatVis
  <2> QED
    BY <2>1, <2>2
<1>3. CASE fileReadSeq[f] < build[p].listingSeq
  BY <1>1, <1>2, <1>3, MeetsDown DEF Settled
<1> QED
  BY <1>1, <1>3

\* Diff decides from what ListFiles saw, and owes what it decides.
LEMMA DiffVis ==
  ASSUME Inv, HonestInv, VisInv, NEW p \in Procs, Diff(p)
  PROVE  VisInv'
<1>1. /\ pc \in [Procs -> Pcs] /\ build \in [Procs -> Builds] /\ SingleFlight /\ readSeq \in Nat
  BY DEF Inv, TypeOK, ProcTypeOK
<1>2. /\ pc[p] = "diff" /\ inflight = p /\ inflight' = p
      /\ UNCHANGED <<disk, faults, seenFloor, fileReadSeq, snapshot, hasSnapshot,
                     storedBaseline, rd, readSeq>>
  BY <1>1, Owner DEF Diff, diskVars, pageVars, loadVars, slotVars, floorVars, boundVars, OwnerPcs
<1> DEFINE todo == IF build[p].full THEN build[p].names ELSE ToRead(build[p])
<1>3. \/ pc' = [pc EXCEPT ![p] = "release"]
      \/ /\ build'[p].todo = todo /\ build'[p].names = build[p].names
         /\ pc' = [pc EXCEPT ![p] = IF todo = {} THEN "merge" ELSE "collect"]
  BY <1>1 DEF Diff, Builds
<1>4. /\ build'[p].reads = build[p].reads /\ build'[p].listingSeq = build[p].listingSeq
      /\ build'[p].kind = build[p].kind
      /\ \A q \in Procs \ {p} : build'[q] = build[q]
  BY <1>1 DEF Diff, Builds
<1>5. /\ {"release", "merge", "collect"} \subseteq Pcs \ (FreshPcs \cup ReadPcs)
      /\ readSeq' \in {readSeq, readSeq + 1} /\ build'[p].kind # "filereads"
  BY <1>2, <1>4 DEF Pcs, FreshPcs, ReadPcs, VisInv, Unread, ScanPcs
<1>6. PICK x \in {"release", "merge", "collect"} : pc' = [pc EXCEPT ![p] = x]
  BY <1>3
<1>7. Calm
  BY <1>2, <1>4, <1>5, <1>6, ListStep
<1>8. ASSUME NEW f \in build[p].names, f \notin todo
      PROVE  fingerprints[f] = build[p].fps[f]
  BY <1>8 DEF ToRead
<1> HIDE DEF todo
<1>9. ASSUME Listing(p), pc'[p] # "release" PROVE ListVis(p)'
  <2>1. /\ build[p].listingSeq <= readSeq /\ \A f \in Files : FileVis(p, f)
        /\ SeqVis /\ \A q \in Procs : ReadVis(q)
    BY <1>9 DEF VisInv, ListVis
  <2>2. /\ pc'[p] \in {"collect", "merge"} /\ pc'[p] \notin ReadPcs
        /\ build'[p].todo = todo /\ build'[p].names = build[p].names
        /\ pc'[p] = "merge" => build'[p].todo = {}
    BY <1>1, <1>3, <1>9 DEF ReadPcs
  <2>3. ASSUME NEW f \in Files PROVE FileVis(p, f)'
    <3>1. OwnVis(p, f)' /\ (Absent(p, f) => Absent(p, f)')
      BY <1>4, <1>7, <2>1, OwnVisStays, AbsentStays DEF FileVis
    <3>2. Settled(f) => Settled(f)'
      BY <1>2, <1>7, <2>1, SettledStays
    <3>3. Kept(p, f)' => Settled(f)
      BY <1>2, <1>8, <2>1, <2>2, DiffSettled DEF Kept
    <3>4. fileReadSeq'[f] >= build'[p].listingSeq => Settled(f)'
      BY <1>2, <1>4, <2>1, <3>2 DEF FileVis
    <3>5. f \notin build'[p].names => Absent(p, f)'
      BY <1>2, <2>1, <2>2, <3>1 DEF FileVis
    <3>6. pc'[p] # "diff"
      BY <2>2
    <3> QED
      BY <3>1, <3>2, <3>3, <3>4, <3>5, <3>6 DEF FileVis
  <2>4. build'[p].listingSeq <= readSeq'
    BY <1>2, <1>4, <2>1
  <2> QED
    BY <2>2, <2>3, <2>4 DEF ListVis
<1>10. Listing(p)' => Listing(p) /\ pc'[p] # "release"
  BY <1>2, <1>4 DEF Listing, IsListing, ListPcs, ReadPcs
<1>11. ListVis(p)'
  BY <1>9, <1>10 DEF ListVis
<1> QED
  BY <1>2, <1>4, <1>5, <1>6, <1>11, ListStep

\* A page that pays what a number owes settles its file when it is recorded under that
\* number or a smaller one.
LEMMA SettledBy ==
  ASSUME Inv, SeqVis, \A q \in Procs : ReadVis(q), Calm, NEW f \in Files,
         NEW s \in Nat, s <= readSeq, NEW pg \in Pages, Meets(f, s, pg),
         fileReadSeq'[f] <= s, snapshot'[f] = pg
  PROVE  Settled(f)'
<1>1. fileReadSeq'[f] \in Nat /\ readSeq \in Nat
  BY VisTypes DEF Calm
<1>2. PICK t \in Nat : t = fileReadSeq'[f]
  BY <1>1
<1>3. t <= readSeq /\ t <= s
  BY <1>1, <1>2
<1>4. Meets(f, t, pg)
  BY <1>3, MeetsDown
<1>5. Meets(f, t, pg)'
  BY <1>3, <1>4, MeetsStays
<1> QED
  BY <1>2, <1>5 DEF Settled, Meets

\* executeListing's merge settles every file: with its own read, because the file was not
\* there, or because what it keeps is settled.
LEMMA MergeVis ==
  ASSUME Inv, VisInv, NEW p \in Procs, Merge(p)
  PROVE  VisInv'
<1> DEFINE b == build[p]
<1>1. /\ pc \in [Procs -> Pcs] /\ build \in [Procs -> Builds] /\ SingleFlight /\ readSeq \in Nat
      /\ faults \in Nat
  BY DEF Inv, TypeOK, ProcTypeOK, BoundTypeOK
<1>2. /\ pc[p] = "merge" /\ inflight = p /\ inflight' = p
      /\ UNCHANGED <<disk, faults, seenFloor, rd, readSeq>>
      /\ pc' = [pc EXCEPT ![p] = "release"]
      /\ snapshot' = MergedPages(b)
      /\ fileReadSeq' = [f \in Files |-> IF Applied(b, f) THEN b.reads[f].seq
                                         ELSE fileReadSeq[f]]
      /\ build' = [build EXCEPT ![p].pages = MergedPages(b), ![p].delta = ListingDelta(b)]
  BY <1>1, Owner DEF Merge, diskVars, slotVars, floorVars, boundVars, OwnerPcs
<1>3. /\ SeqVis /\ (\A q \in Procs : ReadVis(q)) /\ b.listingSeq <= readSeq /\ b.todo = {}
      /\ \A f \in Files : FileVis(p, f)
  <2>1. Listing(p)
    BY <1>2 DEF Listing, IsListing, ListPcs, VisInv, Unread, ScanPcs
  <2> QED
    BY <1>2, <2>1 DEF VisInv, ListVis
<1>4. b.listingSeq \in Nat /\ \A f \in Files : b.reads[f].seq \in Nat /\ b.reads[f].page \in Pages
  BY VisTypes
<1>5. /\ pc'[p] = "release"
      /\ \A q \in Procs \ {p} : pc'[q] = pc[q] /\ rd'[q] = rd[q] /\ build'[q] = build[q]
  BY <1>1, <1>2
<1>6. b.names \in SUBSET Files /\ \A f \in Files : OwnVis(p, f)
  BY <1>1, <1>3 DEF Builds, FileVis
<1>7. ASSUME NEW f \in Files
      PROVE  /\ fileReadSeq'[f] \in Nat /\ fileReadSeq'[f] >= fileReadSeq[f]
             /\ fileReadSeq'[f] <= readSeq'
  <2>1. /\ fileReadSeq[f] \in Nat /\ fileReadSeq[f] <= readSeq /\ b.reads[f].seq \in Nat
        /\ b.reads[f].seq > 0 => b.reads[f].seq <= readSeq
    BY <1>1, <1>3, <1>4, <1>6, VisTypes DEF OwnVis, SeqVis
  <2>2. CASE Applied(b, f)
    BY <1>2, <2>1, <2>2 DEF Applied
  <2>3. CASE ~Applied(b, f)
    BY <1>2, <2>1, <2>3
  <2> QED
    BY <2>2, <2>3
<1>8. faults' \in Nat /\ faults' >= faults /\ readSeq' \in Nat /\ readSeq' >= readSeq
  BY <1>1, <1>2
<1>9. Calm
  BY <1>2, <1>5, <1>7, <1>8, OwnerVis
<1>10. ASSUME NEW f \in Files PROVE Settled(f)'
  <2>1. /\ FileVis(p, f) /\ fileReadSeq[f] \in Nat /\ fileReadSeq[f] <= readSeq
        /\ snapshot[f] \in Pages /\ NoPage \in Pages
    BY <1>3, VisTypes, PageIndexAssumption DEF SeqVis, NoPage, Pages
  <2>2. CASE Applied(b, f)
    <3>1. /\ snapshot'[f] = b.reads[f].page /\ fileReadSeq'[f] = b.reads[f].seq
          /\ b.reads[f].seq > 0
      BY <1>2, <2>2 DEF MergedPages, Applied
    <3>2. b.reads[f].seq <= readSeq /\ Meets(f, b.reads[f].seq, b.reads[f].page)
      BY <1>1, <1>4, <1>6, <3>1 DEF OwnVis
    <3>3. fileReadSeq'[f] <= b.reads[f].seq
      BY <1>4, <3>1
    <3> HIDE DEF b
    <3> QED
      BY <1>3, <1>4, <1>9, <3>1, <3>2, <3>3, SettledBy
  <2>3. CASE ~Applied(b, f) /\ Settled(f) /\ (Gone(b, f) => snapshot[f] = NoPage)
    <3>1. snapshot'[f] = snapshot[f] /\ fileReadSeq'[f] = fileReadSeq[f]
      BY <1>2, <2>3 DEF MergedPages
    <3> QED
      BY <1>3, <1>9, <2>3, <3>1, SettledStays
  <2>4. CASE ~Applied(b, f) /\ Gone(b, f) /\ fileReadSeq[f] < b.listingSeq
    <3>1. snapshot'[f] = NoPage /\ fileReadSeq'[f] = fileReadSeq[f] /\ f \notin b.names
      BY <1>2, <2>4 DEF MergedPages, Gone
    <3>2. Meets(f, b.listingSeq, NoPage) /\ fileReadSeq'[f] <= b.listingSeq
      BY <1>2, <1>4, <2>1, <2>4, <3>1 DEF FileVis, Absent
    <3> HIDE DEF b
    <3> QED
      BY <1>3, <1>4, <1>9, <2>1, <3>1, <3>2, SettledBy
  <2>5. ASSUME ~Applied(b, f) PROVE Settled(f)'
    <3>1. CASE f \notin b.names /\ fileReadSeq[f] >= b.listingSeq
      <4>1. Settled(f)
        BY <2>1, <3>1 DEF FileVis
      <4>2. Gone(b, f) => snapshot[f] = NoPage
        BY <1>4, <2>1, <3>1 DEF Gone
      <4> QED
        BY <2>3, <2>5, <4>1, <4>2
    <3>2. CASE f \notin b.names /\ fileReadSeq[f] < b.listingSeq
      <4>1. Gone(b, f)
        BY <1>4, <2>1, <3>2 DEF Gone
      <4> QED
        BY <2>4, <2>5, <3>2, <4>1
    <3>3. CASE f \in b.names /\ b.reads[f].seq > 0
      <4>1. fileReadSeq[f] > b.reads[f].seq
        BY <1>4, <2>1, <2>5, <3>3 DEF Applied
      <4>2. b.reads[f].seq >= b.listingSeq
        BY <1>1, <1>4, <1>6, <3>3 DEF OwnVis
      <4>3. Settled(f) /\ ~Gone(b, f)
        BY <1>4, <2>1, <3>3, <4>1, <4>2 DEF FileVis, Gone
      <4> QED
        BY <2>3, <2>5, <4>3
    <3>4. CASE f \in b.names /\ ~(b.reads[f].seq > 0)
      <4>1. b.reads[f].seq = 0
        BY <1>4, <3>4
      <4>2. Kept(p, f) /\ pc[p] \in ReadingPcs
        BY <1>2, <1>3, <3>4, <4>1 DEF Kept, ReadPcs, ReadingPcs
      <4>3. Settled(f) /\ ~Gone(b, f)
        BY <2>1, <3>4, <4>2 DEF FileVis, Gone
      <4> QED
        BY <2>3, <2>5, <4>3
    <3> QED
      BY <1>4, <2>1, <3>1, <3>2, <3>3, <3>4
  <2> QED
    BY <2>2, <2>5
<1>11. PubVis'
  BY <1>10 DEF PubVis
<1>12. ReadVis(p)' /\ Unread(p)' /\ ListVis(p)'
  BY <1>5 DEF ReadVis, Unread, ListVis, Listing, ListPcs, ReadPcs, FreshPcs, ScanPcs
<1> QED
  BY <1>2, <1>5, <1>7, <1>8, <1>11, <1>12, OwnerVis

\* executeFileReads starts: it is no listing.
LEMMA StartFileReadsVis ==
  ASSUME Inv, VisInv, NEW p \in Procs, StartFileReads(p)
  PROVE  VisInv'
<1>1. /\ pc \in [Procs -> Pcs] /\ build \in [Procs -> Builds] /\ SingleFlight /\ readSeq \in Nat
  BY DEF Inv, TypeOK, ProcTypeOK
<1>2. /\ pc[p] = "start" /\ build[p].kind = "filereads" /\ inflight = p /\ inflight' = p
      /\ UNCHANGED <<disk, faults, seenFloor, fileReadSeq, snapshot, hasSnapshot,
                     storedBaseline, rd, readSeq>>
  BY <1>1, Owner DEF StartFileReads, diskVars, pageVars, loadVars, slotVars, floorVars, boundVars,
         OwnerPcs
<1>3. /\ build'[p].kind = "filereads" /\ \A q \in Procs \ {p} : build'[q] = build[q]
  BY <1>1 DEF StartFileReads, Builds
<1>4. PICK x \in {"release", "collect"} : pc' = [pc EXCEPT ![p] = x]
  BY DEF StartFileReads
<1>5. /\ x \in Pcs \ (FreshPcs \cup ReadPcs) /\ x \notin ScanPcs
      /\ readSeq' \in {readSeq, readSeq + 1}
  BY <1>2 DEF Pcs, FreshPcs, ReadPcs, ScanPcs
<1>6. ListVis(p)'
  BY <1>3 DEF ListVis, Listing, IsListing
<1> QED
  BY <1>2, <1>3, <1>4, <1>5, <1>6, ListStep

\* A listing in its read phase goes on: what it keeps, it kept before.
LEMMA ReadPhase ==
  ASSUME Inv, VisInv, Calm, NEW p \in Procs, NEW f \in Files, Listing(p),
         pc[p] \in ReadingPcs, pc'[p] \in ReadingPcs, OwnVis(p, f)',
         build'[p].names = build[p].names, build'[p].listingSeq = build[p].listingSeq,
         UNCHANGED <<snapshot, fileReadSeq>>,
         Kept(p, f)' => Kept(p, f)
  PROVE  FileVis(p, f)'
<1>1. /\ SeqVis /\ (\A q \in Procs : ReadVis(q)) /\ build[p].listingSeq <= readSeq
      /\ FileVis(p, f)
  BY DEF VisInv, ListVis
<1>2. (Absent(p, f) => Absent(p, f)') /\ (Settled(f) => Settled(f)')
  BY <1>1, AbsentStays, SettledStays
<1>3. {pc[p], pc'[p]} \cap {"readdir", "diff"} = {}
  BY DEF ReadingPcs, ReadPcs
<1>4. f \notin build'[p].names => Absent(p, f)'
  BY <1>1, <1>2, <1>3 DEF FileVis
<1>5. fileReadSeq'[f] >= build'[p].listingSeq => Settled(f)'
  BY <1>1, <1>2 DEF FileVis
<1>6. Kept(p, f)' => Settled(f)'
  BY <1>1, <1>2 DEF FileVis
<1> QED
  BY <1>3, <1>4, <1>5, <1>6 DEF FileVis

\* The next file's read takes a number of its own.
LEMMA NextFileVis ==
  ASSUME Inv, VisInv, NEW p \in Procs, NEW f \in Files, NextFile(p, f)
  PROVE  VisInv'
<1>1. /\ pc \in [Procs -> Pcs] /\ build \in [Procs -> Builds] /\ rd \in [Procs -> FileReads]
      /\ SingleFlight /\ readSeq \in Nat /\ faults \in Nat
  BY DEF Inv, TypeOK, ProcTypeOK, BoundTypeOK
<1>2. /\ pc[p] = "collect" /\ inflight = p /\ inflight' = p
      /\ UNCHANGED <<disk, faults, seenFloor, fileReadSeq, snapshot, hasSnapshot,
                     storedBaseline>>
      /\ readSeq' = readSeq + 1 /\ pc' = [pc EXCEPT ![p] = "stat"]
  BY <1>1, Owner DEF NextFile, diskVars, pageVars, loadVars, slotVars, floorVars, boundVars,
         OwnerPcs
<1>3. /\ build'[p].reads = build[p].reads /\ build'[p].names = build[p].names
      /\ build'[p].listingSeq = build[p].listingSeq /\ build'[p].kind = build[p].kind
      /\ build'[p].todo = build[p].todo \ {f}
      /\ \A q \in Procs \ {p} : build'[q] = build[q]
  BY <1>1 DEF NextFile, Builds
<1>4. /\ rd'[p].file = f /\ rd'[p].seq = readSeq + 1
      /\ \A q \in Procs \ {p} : rd'[q] = rd[q]
  BY <1>1 DEF NextFile, FileReads
<1>5. pc'[p] = "stat" /\ \A q \in Procs \ {p} : pc'[q] = pc[q]
  BY <1>1, <1>2
<1>6. faults' \in Nat /\ faults' >= faults /\ readSeq' \in Nat /\ readSeq' >= readSeq
  BY <1>1, <1>2
<1>7. ASSUME NEW g \in Files
      PROVE  /\ fileReadSeq'[g] \in Nat /\ fileReadSeq'[g] >= fileReadSeq[g]
             /\ fileReadSeq'[g] <= readSeq'
  BY <1>1, <1>2, VisTypes DEF VisInv, SeqVis
<1>8. Calm
  BY <1>2, <1>3, <1>4, <1>5, <1>6, <1>7, OwnerVis
<1>9. PubVis'
  BY <1>2, <1>8, SettledStays DEF PubVis, VisInv
<1>10. ReadVis(p)' /\ Unread(p)'
  <2>1. rd'[p].seq \in 1 .. readSeq'
    BY <1>1, <1>2, <1>4
  <2> QED
    BY <1>2, <1>5, <2>1 DEF ReadVis, Unread, FreshPcs, ScanPcs
<1>11. ASSUME Listing(p) PROVE ListVis(p)'
  <2>1. build[p].listingSeq <= readSeq /\ build[p].listingSeq \in Nat
    BY <1>11, VisTypes DEF VisInv, ListVis
  <2>2. build'[p].listingSeq <= readSeq' /\ rd'[p].seq > build'[p].listingSeq
    BY <1>1, <1>2, <1>3, <1>4, <2>1
  <2>3. ASSUME NEW g \in Files PROVE FileVis(p, g)'
    <3>1. OwnVis(p, g)'
      BY <1>3, <1>8, <1>11, OwnVisStays DEF VisInv, ListVis, FileVis
    <3>2. Kept(p, g)' => Kept(p, g)
      BY <1>2, <1>3, <1>4, <1>5 DEF Kept, ReadPcs
    <3>3. pc[p] \in ReadingPcs /\ pc'[p] \in ReadingPcs
      BY <1>2, <1>5 DEF ReadingPcs, ReadPcs
    <3> QED
      BY <1>2, <1>3, <1>8, <1>11, <3>1, <3>2, <3>3, ReadPhase
  <2> QED
    BY <1>5, <2>2, <2>3 DEF ListVis
<1>12. Listing(p)' => Listing(p)
  BY <1>2, <1>3 DEF Listing, IsListing, ListPcs
<1>13. ListVis(p)'
  BY <1>11, <1>12 DEF ListVis
<1> QED
  BY <1>2, <1>3, <1>4, <1>5, <1>6, <1>7, <1>9, <1>10, <1>13, OwnerVis

\* What a read brings home pays everything.
LEMMA ReadNow ==
  ASSUME Inv, disk' = disk, NEW f \in Files, NEW s, NEW pg,
         pg = PageAt(f, Version(f)) \/ ReadFailed(pg)'
  PROVE  Meets(f, s, pg)'
<1>1. Version(f) \in Nat /\ Version(f)' = Version(f)
  BY VisTypes DEF Version
<1>2. ASSUME NEW v \in 1 .. Version(f) PROVE Recent(pg, f, v)'
  <2>1. CASE pg = PageAt(f, Version(f))
    BY <1>1, <2>1 DEF Recent, Shows, PageAt, Version
  <2>2. CASE ReadFailed(pg)'
    BY <2>2 DEF Recent
  <2> QED
    BY <2>1, <2>2
<1>3. \A v \in Due(f, s)' : v \in 1 .. Version(f)
  BY <1>1 DEF Due
<1> QED
  BY <1>2, <1>3 DEF Meets

\* A goroutine that reads moves on and leaves the pages alone.
LEMMA ReadStep ==
  ASSUME Inv, VisInv, NEW p \in Procs, pc[p] \in ReadPcs, faults' \in Nat, faults' >= faults,
         UNCHANGED <<disk, readSeq, seenFloor, fileReadSeq, snapshot, hasSnapshot,
                     storedBaseline, inflight>>,
         pc'[p] \in ReadPcs => rd'[p].file = rd[p].file /\ rd'[p].seq = rd[p].seq
                                 /\ rd'[p].from = rd[p].from,
         \A q \in Procs \ {p} : rd'[q] = rd[q] /\ build'[q] = build[q] /\ pc'[q] = pc[q]
  PROVE  /\ Calm
         /\ ReadVis(p)' /\ Unread(p)' /\ ListVis(p)' => VisInv'
<1>1. SeqVis /\ PubVis /\ \A q \in Procs : ReadVis(q)
  BY DEF VisInv
<1>2. \A q \in Procs : pc'[q] \in ReadPcs /\ q # inflight' =>
           pc[q] \in ReadPcs /\ q # inflight /\ rd'[q].file = rd[q].file
             /\ rd'[q].seq = rd[q].seq /\ rd'[q].from = rd[q].from
  OBVIOUS
<1>3. Calm
  BY <1>1, <1>2, CalmStep
<1>4. PubVis'
  BY <1>1, <1>3, SettledStays DEF PubVis
<1> QED
  BY <1>3, <1>4, VisMove

\* A finished read is delivered with a page as new as its number owes.
LEMMA DeliverVis ==
  ASSUME Inv, VisInv, NEW p \in Procs, NEW r \in FileReads, pc[p] \in {"stat", "read"},
         r.file = rd[p].file, r.seq = rd[p].seq, r.from = rd[p].from, Deliver(p, r),
         faults' \in Nat, faults' >= faults,
         UNCHANGED <<disk, readSeq, seenFloor, fileReadSeq, snapshot, hasSnapshot,
                     storedBaseline, inflight>>,
         r.page = PageAt(r.file, Version(r.file)) \/ ReadFailed(r.page)'
  PROVE  VisInv'
<1>1. /\ pc \in [Procs -> Pcs] /\ build \in [Procs -> Builds] /\ rd \in [Procs -> FileReads]
      /\ readSeq \in Nat
  BY DEF Inv, TypeOK, ProcTypeOK
<1>2. /\ pc[p] \in ReadPcs /\ r.file \in Files /\ ReadVis(p) /\ ListVis(p)
      /\ r.seq \in 1 .. readSeq /\ r.page \in Pages /\ r.seq \in Nat
  BY VisTypes DEF ReadPcs, VisInv, ReadVis, FileReads
<1>3. PICK f \in Files : f = r.file
  BY <1>2
<1>4. \A s : Meets(f, s, r.page)'
  BY <1>3, ReadNow
<1>5. CASE IsListing(p)
  <2>1. /\ build' = [build EXCEPT ![p].reads[r.file] =
                        [seq |-> r.seq, fp |-> r.fp, page |-> r.page]]
        /\ rd' = [rd EXCEPT ![p] = NoFileRead]
        /\ pc' = [pc EXCEPT ![p] = IF build[p].todo = {} THEN "merge" ELSE "collect"]
    BY <1>5 DEF Deliver
  <2>2. build[p].reads \in [Files -> [seq : Nat, fp : Fps, page : Pages]]
    BY <1>1 DEF Builds
  <2>3. /\ build'[p].reads[f].seq = r.seq /\ build'[p].reads[f].page = r.page
        /\ \A g \in Files \ {f} : build'[p].reads[g] = build[p].reads[g]
    BY <1>1, <1>3, <2>1, <2>2 DEF Builds
  <2>4. /\ build'[p].names = build[p].names /\ build'[p].todo = build[p].todo
        /\ build'[p].listingSeq = build[p].listingSeq /\ build'[p].kind = build[p].kind
        /\ \A q \in Procs \ {p} : rd'[q] = rd[q] /\ build'[q] = build[q] /\ pc'[q] = pc[q]
    BY <1>1, <2>1 DEF Builds
  <2>5. /\ pc'[p] \in {"merge", "collect"} /\ (pc'[p] = "merge" => build'[p].todo = {})
        /\ pc'[p] \notin ReadPcs
    BY <1>1, <2>1, <2>4 DEF ReadPcs
  <2>6. Calm
    BY <1>2, <2>4, <2>5, ReadStep
  <2>7. Listing(p)
    BY <1>2, <1>5 DEF Listing, ListPcs
  <2>8. /\ build[p].listingSeq <= readSeq /\ r.seq > build[p].listingSeq
        /\ build[p].listingSeq \in Nat /\ \A g \in Files : FileVis(p, g)
    BY <1>2, <2>7, VisTypes DEF ListVis
  <2>9. ASSUME NEW g \in Files PROVE FileVis(p, g)'
    <3>1. CASE g = f
      <4>1. r.seq \in (build[p].listingSeq + 1) .. readSeq /\ r.seq > 0
        BY <1>1, <1>2, <2>8
      <4>2. PICK s \in Nat : s = r.seq
        BY <1>2
      <4>3. OwnVis(p, g)'
        BY <1>4, <2>3, <2>4, <3>1, <4>1, <4>2 DEF OwnVis, Meets
      <4>4. ~Kept(p, g)'
        BY <2>3, <3>1, <4>1 DEF Kept
      <4>5. pc[p] \in ReadingPcs /\ pc'[p] \in ReadingPcs
        BY <1>2, <2>5 DEF ReadingPcs
      <4> QED
        BY <2>4, <2>6, <2>7, <4>3, <4>4, <4>5, ReadPhase
    <3>2. CASE g # f
      <4>1. OwnVis(p, g)'
        BY <2>3, <2>4, <2>6, <2>8, <3>2, OwnVisStays DEF VisInv, FileVis
      <4>2. Kept(p, g)' => Kept(p, g)
        BY <1>3, <2>3, <2>4, <3>2 DEF Kept
      <4>3. pc[p] \in ReadingPcs /\ pc'[p] \in ReadingPcs
        BY <1>2, <2>5 DEF ReadingPcs
      <4> QED
        BY <2>4, <2>6, <2>7, <4>1, <4>2, <4>3, ReadPhase
    <3> QED
      BY <3>1, <3>2
  <2>10. ReadVis(p)' /\ Unread(p)' /\ ListVis(p)'
    <3>1. build'[p].kind # "filereads"
      BY <1>5, <2>4 DEF IsListing
    <3> QED
      BY <2>4, <2>5, <2>8, <2>9, <3>1 DEF ReadVis, Unread, ListVis, FreshPcs
  <2> QED
    BY <1>2, <2>4, <2>5, <2>10, ReadStep
<1>6. CASE ~IsListing(p)
  <2>1. /\ build' = build /\ rd' = [rd EXCEPT ![p] = r] /\ pc' = [pc EXCEPT ![p] = "apply"]
    BY <1>6 DEF Deliver
  <2>2. /\ rd'[p] = r /\ pc'[p] = "apply"
        /\ \A q \in Procs \ {p} : rd'[q] = rd[q] /\ build'[q] = build[q] /\ pc'[q] = pc[q]
    BY <1>1, <2>1
  <2>3. Unread(p)' /\ ListVis(p)'
    BY <1>6, <2>1, <2>2 DEF Unread, ListVis, Listing, IsListing, FreshPcs, ScanPcs
  <2>4. ReadVis(p)'
    <3>1. p # inflight => r.from \in 1 .. Version(r.file)'
      BY <1>2 DEF ReadVis, Version
    <3>2. PICK s \in Nat, pg \in Pages : s = r.seq /\ pg = r.page
      BY <1>2
    <3>3. Meets(f, s, pg)'
      BY <1>4, <3>2
    <3>4. Meets(rd[p].file, rd[p].seq, rd[p].page)'
      BY <1>3, <2>2, <3>2, <3>3 DEF Meets, Due, Reading, Recent, Shows, ReadFailed, PageAt, Version
    <3> QED
      BY <1>2, <1>6, <2>1, <2>2, <3>1, <3>4 DEF ReadVis, Version, IsListing
  <2> QED
    BY <1>2, <2>2, <2>3, <2>4, ReadStep
<1> QED
  BY <1>5, <1>6

\* The stat and the read of one file.
LEMMA ReadFileVis ==
  ASSUME Inv, HonestInv, VisInv, NEW p \in Procs, StatFile(p) \/ ReadFile(p)
  PROVE  VisInv'
<1>1. /\ pc \in [Procs -> Pcs] /\ build \in [Procs -> Builds] /\ rd \in [Procs -> FileReads]
      /\ DiskTypeOK /\ faults \in Nat
  BY DEF Inv, TypeOK, ProcTypeOK, BoundTypeOK
<1>2. /\ pc[p] \in {"stat", "read"}
      /\ UNCHANGED <<disk, readSeq, seenFloor, fileReadSeq, snapshot, hasSnapshot,
                     storedBaseline, inflight>>
  BY DEF StatFile, ReadFile, diskVars, pageVars, loadVars, slotVars, floorVars
<1>3. /\ pc[p] \in ReadPcs /\ rd[p].file \in Files /\ rd[p].page = NoPage /\ rd[p] \in FileReads
      /\ NoPage \in Pages /\ ZeroFp \in Fps
  BY <1>1, <1>2, VisTypes, PageIndexAssumption
     DEF ReadPcs, HonestInv, ReadGood, NoPage, Pages, ZeroFp, Fps
<1>4. PICK f \in Files : f = rd[p].file
  BY <1>3
<1>5. CASE StatFile(p) /\ Stat(f) = ZeroFp
  <2>1. PICK r \in FileReads : r = [rd[p] EXCEPT !.fp = ZeroFp]
    BY <1>3 DEF FileReads
  <2>2. r.file = rd[p].file /\ r.seq = rd[p].seq /\ r.from = rd[p].from /\ r.page = NoPage
    BY <1>3, <2>1 DEF FileReads
  <2>3. Deliver(p, r) /\ faults' = faults
    BY <1>4, <1>5, <2>1 DEF StatFile, boundVars
  <2>4. Now(f) = "gone"
    BY <1>1, <1>5, DiskTypes DEF Stat, ZeroFp
  <2>5. r.page = PageAt(r.file, Version(r.file))
    BY <1>4, <2>2, <2>4 DEF PageAt, Now
  <2>6. faults' \in Nat /\ faults' >= faults
    BY <1>1, <2>3
  <2> QED
    BY <1>2, <2>2, <2>3, <2>5, <2>6, DeliverVis
<1>6. CASE StatFile(p) /\ Stat(f) # ZeroFp
  <2>1. /\ rd' = [rd EXCEPT ![p].fp = Stat(f)] /\ pc' = [pc EXCEPT ![p] = "read"]
        /\ build' = build /\ faults' = faults /\ pc[p] = "stat"
    BY <1>4, <1>6 DEF StatFile, boundVars
  <2>2. /\ rd'[p].file = rd[p].file /\ rd'[p].seq = rd[p].seq /\ rd'[p].from = rd[p].from
        /\ pc'[p] = "read"
        /\ \A q \in Procs \ {p} : rd'[q] = rd[q] /\ build'[q] = build[q] /\ pc'[q] = pc[q]
    BY <1>1, <2>1 DEF FileReads
  <2>3. faults' \in Nat /\ faults' >= faults /\ readSeq' = readSeq
    BY <1>1, <1>2, <2>1
  <2>4. Calm
    BY <1>2, <1>3, <2>2, <2>3, ReadStep
  <2>5. ReadVis(p)'
    <3>1. ReadVis(p)
      BY DEF VisInv
    <3> QED
      BY <1>2, <1>3, <2>2, <3>1 DEF ReadVis, Version
  <2>6. Unread(p)'
    BY <2>2 DEF Unread, FreshPcs, ScanPcs
  <2>7. ASSUME Listing(p) PROVE ListVis(p)'
    <3>1. /\ build[p].listingSeq <= readSeq /\ rd[p].seq > build[p].listingSeq
          /\ \A g \in Files : FileVis(p, g)
      BY <1>3, <2>7 DEF VisInv, ListVis
    <3>2. ASSUME NEW g \in Files PROVE FileVis(p, g)'
      <4>1. OwnVis(p, g)'
        BY <2>1, <2>4, <3>1, OwnVisStays DEF VisInv, FileVis
      <4>2. Kept(p, g)' => Kept(p, g)
        BY <1>3, <2>1, <2>2 DEF Kept, ReadPcs
      <4>3. pc[p] \in ReadingPcs /\ pc'[p] \in ReadingPcs
        BY <1>3, <2>2 DEF ReadingPcs, ReadPcs
      <4> QED
        BY <1>2, <2>1, <2>4, <2>7, <4>1, <4>2, <4>3, ReadPhase
    <3> QED
      BY <2>1, <2>2, <2>3, <3>1, <3>2 DEF ListVis
  <2>8. Listing(p)' => Listing(p)
    BY <1>2, <1>3, <2>1 DEF Listing, IsListing, ListPcs
  <2>9. ListVis(p)'
    BY <2>7, <2>8 DEF ListVis
  <2> QED
    BY <1>2, <1>3, <2>2, <2>3, <2>5, <2>6, <2>9, ReadStep
<1>7. CASE ReadFile(p)
  <2>1. CASE /\ Deliver(p, [rd[p] EXCEPT !.page = PageAt(f, Version(f))]) /\ faults' = faults
    <3>1. PICK r \in FileReads : r = [rd[p] EXCEPT !.page = PageAt(f, Version(f))]
      BY <1>1, <1>3, DiskTypes DEF FileReads
    <3>2. /\ r.file = rd[p].file /\ r.seq = rd[p].seq /\ r.from = rd[p].from
          /\ r.page = PageAt(f, Version(f))
      BY <1>3, <3>1 DEF FileReads
    <3>3. /\ Deliver(p, r) /\ faults' \in Nat /\ faults' >= faults
          /\ r.page = PageAt(r.file, Version(r.file))
      BY <1>1, <1>4, <2>1, <3>1, <3>2
    <3> QED
      BY <1>2, <3>2, <3>3, DeliverVis
  <2>2. CASE Deliver(p, rd[p]) /\ Fault("read")
    <3>1. PICK r \in FileReads : r = rd[p]
      BY <1>3
    <3>2. /\ Deliver(p, r) /\ faults' \in Nat /\ faults' >= faults /\ faults' > 0
          /\ "read" \in FaultKinds
      BY <1>1, <2>2, <3>1 DEF Fault
    <3>3. r.file = rd[p].file /\ r.seq = rd[p].seq /\ r.from = rd[p].from /\ r.page = NoPage
      BY <1>3, <3>1
    <3>4. ReadFailed(r.page)'
      BY <3>2, <3>3 DEF ReadFailed, NoPage
    <3> QED
      BY <1>2, <3>2, <3>3, <3>4, DeliverVis
  <2> QED
    BY <1>4, <1>7, <2>1, <2>2 DEF ReadFile
<1> QED
  BY <1>4, <1>5, <1>6, <1>7

\* applyFileReadLocked: a read that is applied pays what its number owes, and a late one
\* only reports a version that has been paid.
LEMMA ApplyVis ==
  ASSUME Inv, VisInv, NEW p \in Procs, ApplyFileRead(p)
  PROVE  VisInv'
<1>1. /\ pc \in [Procs -> Pcs] /\ build \in [Procs -> Builds] /\ rd \in [Procs -> FileReads]
      /\ readSeq \in Nat /\ faults \in Nat /\ PageTypeOK /\ seenFloor \in [Files -> Nat]
  BY DEF Inv, TypeOK, ProcTypeOK, BoundTypeOK, FloorTypeOK
<1>2. /\ pc[p] = "apply" /\ rd' = [rd EXCEPT ![p] = NoFileRead]
      /\ UNCHANGED <<disk, faults, readSeq, hasSnapshot, storedBaseline, inflight>>
      /\ \E x \in {"release", "collect", "savefile", "idle"} : pc' = [pc EXCEPT ![p] = x]
      /\ \E d : build' = [build EXCEPT ![p].delta = d]
      /\ inflight = p => pc'[p] \in {"release", "collect"}
  BY <1>1 DEF ApplyFileRead, diskVars, loadVars, slotVars, boundVars
<1>3. /\ rd[p].file \in Files /\ rd[p].seq \in Nat /\ rd[p].page \in Pages /\ rd[p].from \in Nat
      /\ rd[p].seq \in 1 .. readSeq /\ Meets(rd[p].file, rd[p].seq, rd[p].page)
      /\ SeqVis /\ (\A q \in Procs : ReadVis(q))
  BY <1>2, VisTypes DEF VisInv, ReadVis, ReadPcs
<1>4. PICK f \in Files, s \in Nat, pg \in Pages, from \in Nat :
        f = rd[p].file /\ s = rd[p].seq /\ pg = rd[p].page /\ from = rd[p].from
  BY <1>3
<1>5. s <= readSeq /\ Meets(f, s, pg) /\ fileReadSeq[f] \in Nat /\ fileReadSeq[f] <= readSeq
  BY <1>1, <1>3, <1>4, VisTypes DEF SeqVis
<1>6. \/ s < fileReadSeq[f] /\ UNCHANGED <<snapshot, fileReadSeq>>
      \/ /\ s >= fileReadSeq[f] /\ fileReadSeq' = [fileReadSeq EXCEPT ![f] = s]
         /\ snapshot' = [snapshot EXCEPT ![f] = pg]
  <2>1. IF s < fileReadSeq[f]
          THEN UNCHANGED <<snapshot, fingerprints, fileReadSeq, revision, changeLog>>
          ELSE /\ fileReadSeq' = [fileReadSeq EXCEPT ![f] = s]
               /\ snapshot' = [snapshot EXCEPT ![f] = pg]
    BY <1>4 DEF ApplyFileRead
  <2> QED
    BY <1>5, <2>1
<1>7. \/ seenFloor' = seenFloor
      \/ inflight # p /\ seenFloor' = [seenFloor EXCEPT ![f] = Later(seenFloor[f], from)]
  BY <1>4 DEF ApplyFileRead
<1>8. /\ pc'[p] \in {"release", "collect", "savefile", "idle"}
      /\ \A q \in Procs \ {p} : pc'[q] = pc[q] /\ rd'[q] = rd[q] /\ build'[q] = build[q]
      /\ build'[p].kind = build[p].kind
  <2>1. PICK d : build' = [build EXCEPT ![p].delta = d]
    BY <1>2
  <2> QED
    BY <1>1, <1>2, <2>1 DEF Builds
<1>9. \A g \in Files \ {f} : /\ fileReadSeq'[g] = fileReadSeq[g] /\ snapshot'[g] = snapshot[g]
                             /\ seenFloor'[g] = seenFloor[g]
  BY <1>1, <1>6, <1>7 DEF PageTypeOK
<1>10. /\ fileReadSeq'[f] \in Nat /\ fileReadSeq'[f] >= fileReadSeq[f]
       /\ fileReadSeq'[f] <= readSeq /\ s <= fileReadSeq'[f]
  BY <1>1, <1>5, <1>6 DEF PageTypeOK
<1>11. \/ seenFloor'[f] = seenFloor[f]
       \/ Reading(p, f) /\ seenFloor'[f] = rd[p].from
  BY <1>1, <1>2, <1>4, <1>7 DEF Later, Reading, ReadPcs
<1>12. Calm
  <2>1. ASSUME NEW q \in Procs, NEW g \in Files, Reading(q, g)'
        PROVE  Reading(q, g) /\ rd'[q].seq = rd[q].seq /\ rd'[q].from = rd[q].from
    <3>1. q # p
      BY <1>8, <2>1 DEF Reading, ReadPcs
    <3> QED
      BY <1>2, <1>8, <2>1, <3>1 DEF Reading
  <2>2. ASSUME NEW g \in Files, NEW v, NEW y, Recent(y, g, v)
        PROVE  Recent(y, g, v)'
    BY <1>2, <2>2 DEF Recent, Shows, PageAt, Version, ReadFailed
  <2>3. ASSUME NEW g \in Files
        PROVE  /\ Version(g)' \in Nat /\ Version(g)' >= Version(g)
               /\ fileReadSeq'[g] \in Nat /\ fileReadSeq'[g] >= fileReadSeq[g]
               /\ fileReadSeq'[g] <= readSeq'
    <3>1. Version(g) \in Nat /\ Version(g)' = Version(g)
      BY <1>2, VisTypes DEF Version
    <3>2. fileReadSeq[g] \in Nat /\ fileReadSeq[g] <= readSeq
      BY <1>3, VisTypes DEF SeqVis
    <3>3. CASE g = f
      BY <1>2, <1>10, <3>1, <3>3
    <3>4. CASE g # f
      BY <1>2, <1>9, <3>1, <3>2, <3>4
    <3> QED
      BY <3>3, <3>4
  <2>4. ASSUME NEW g \in Files
        PROVE  \/ seenFloor'[g] = seenFloor[g]
               \/ \E q \in Procs : /\ Reading(q, g) /\ seenFloor'[g] = rd[q].from
                                   /\ rd[q].seq <= fileReadSeq'[g]
    BY <1>4, <1>9, <1>10, <1>11
  <2>5. readSeq' \in Nat /\ readSeq' >= readSeq
    BY <1>1, <1>2
  <2> QED
    BY <2>1, <2>2, <2>3, <2>4, <2>5 DEF Calm
<1>13. ASSUME NEW g \in Files
       PROVE  \/ snapshot'[g] = snapshot[g] /\ fileReadSeq'[g] = fileReadSeq[g]
              \/ Settled(g)'
  <2>1. CASE g = f /\ s >= fileReadSeq[f]
    <3>1. snapshot'[f] = pg /\ fileReadSeq'[f] <= s
      BY <1>1, <1>5, <1>6, <2>1 DEF PageTypeOK
    <3> QED
      BY <1>3, <1>5, <1>12, <2>1, <3>1, SettledBy
  <2>2. CASE g # f \/ s < fileReadSeq[f]
    BY <1>5, <1>6, <1>9, <2>2
  <2> QED
    BY <1>5, <2>1, <2>2
<1>14. PubVis'
  BY <1>2, <1>3, <1>12, <1>13, SettledStays DEF PubVis, VisInv
<1>15. ReadVis(p)' /\ Unread(p)' /\ ListVis(p)'
  <2>1. ~Listing(p)'
    <3>1. inflight = p => build[p].kind = "filereads"
      BY <1>2, <1>3 DEF ReadVis, ReadPcs, IsListing
    <3> QED
      BY <1>2, <1>8, <3>1 DEF Listing, IsListing, ListPcs, ReadPcs
  <2> QED
    BY <1>8, <2>1 DEF ReadVis, Unread, ListVis, ReadPcs, FreshPcs, ScanPcs
<1> QED
  BY <1>2, <1>8, <1>12, <1>13, <1>14, <1>15, VisMove

\* RefreshFile of a key with a snapshot begins a read: its number is new, and its version
\* is the file's.
LEMMA BeginRefreshFileVis ==
  ASSUME Inv, VisInv, NEW p \in Procs, NEW f \in Files, BeginRefreshFile(p, f), hasSnapshot
  PROVE  VisInv'
<1>1. /\ pc \in [Procs -> Pcs] /\ rd \in [Procs -> FileReads] /\ readSeq \in Nat /\ faults \in Nat
      /\ SingleFlight /\ SeqVis /\ PubVis /\ \A q \in Procs : ReadVis(q)
  BY DEF Inv, TypeOK, ProcTypeOK, BoundTypeOK, VisInv
<1> DEFINE r == [NoFileRead EXCEPT !.file = f, !.seq = readSeq + 1, !.from = Version(f)]
<1>2. /\ pc[p] = "idle" /\ pc' = [pc EXCEPT ![p] = "stat"] /\ rd' = [rd EXCEPT ![p] = r]
      /\ readSeq' = readSeq + 1
      /\ UNCHANGED <<disk, faults, seenFloor, fileReadSeq, snapshot, hasSnapshot,
                     storedBaseline, inflight, build>>
  BY DEF BeginRefreshFile, diskVars, pageVars, loadVars, slotVars, floorVars
<1>3. r.file = f /\ r.seq = readSeq + 1 /\ r.from = Version(f)
  BY DEF NoFileRead
<1> HIDE DEF r
<1>4. /\ pc'[p] = "stat" /\ rd'[p] = r /\ inflight # p
      /\ \A q \in Procs \ {p} : rd'[q] = rd[q] /\ build'[q] = build[q] /\ pc'[q] = pc[q]
  BY <1>1, <1>2, Owner DEF OwnerPcs, ReadPcs
<1>5. Calm
  <2>1. ASSUME NEW q \in Procs, NEW g \in Files, Reading(q, g)'
        PROVE  \/ Reading(q, g) /\ rd'[q].seq = rd[q].seq /\ rd'[q].from = rd[q].from
               \/ rd'[q].seq \in Nat /\ rd'[q].seq > readSeq
    <3>1. CASE q = p
      BY <1>1, <1>3, <1>4, <3>1
    <3>2. CASE q # p
      BY <1>2, <1>4, <2>1, <3>2 DEF Reading
    <3> QED
      BY <3>1, <3>2
  <2>2. ASSUME NEW g \in Files, NEW v, NEW y, Recent(y, g, v)
        PROVE  Recent(y, g, v)'
    BY <1>2, <2>2 DEF Recent, Shows, PageAt, Version, ReadFailed
  <2>3. ASSUME NEW g \in Files
        PROVE  /\ Version(g)' \in Nat /\ Version(g)' >= Version(g)
               /\ fileReadSeq'[g] \in Nat /\ fileReadSeq'[g] >= fileReadSeq[g]
               /\ fileReadSeq'[g] <= readSeq' /\ seenFloor'[g] = seenFloor[g]
    <3>1. Version(g) \in Nat /\ Version(g)' = Version(g)
      BY <1>2, VisTypes DEF Version
    <3>2. fileReadSeq[g] \in Nat /\ fileReadSeq[g] <= readSeq
      BY <1>1, VisTypes DEF SeqVis
    <3> QED
      BY <1>1, <1>2, <3>1, <3>2
  <2>4. readSeq' \in Nat /\ readSeq' >= readSeq
    BY <1>1, <1>2
  <2> QED
    BY <2>1, <2>2, <2>3, <2>4 DEF Calm
<1>6. PubVis'
  BY <1>1, <1>2, <1>5, SettledStays DEF PubVis
<1>7. ReadVis(p)' /\ Unread(p)' /\ ListVis(p)'
  <2>1. rd'[p].seq \in 1 .. readSeq' /\ rd'[p].from \in 1 .. Version(f)'
    <3>1. Version(f) \in 1 .. MaxVersion /\ Version(f)' = Version(f) /\ Version(f) \in Nat
      BY <1>2, VisTypes DEF Version
    <3> QED
      BY <1>1, <1>2, <1>3, <1>4, <3>1
  <2>2. rd'[p].file = f
    BY <1>3, <1>4
  <2> QED
    BY <1>2, <1>4, <2>1, <2>2
       DEF ReadVis, Unread, ListVis, Listing, IsListing, FreshPcs, ScanPcs, Version
<1> QED
  BY <1>2, <1>4, <1>5, <1>6, <1>7, VisMove

\* The environment: a mark moves nothing, an edit adds a version, and a restart forgets
\* every read and every page.
LEMMA EnvironmentVis ==
  ASSUME Inv, VisInv, Environment \/ UNCHANGED vars
  PROVE  VisInv'
<1>1. SeqVis /\ PubVis /\ (\A q \in Procs : ReadVis(q) /\ Unread(q) /\ ListVis(q))
      /\ readSeq \in Nat /\ faults \in Nat
  BY DEF VisInv, Inv, TypeOK, BoundTypeOK
<1>2. CASE MarkDirty \/ ForceReload \/ UNCHANGED vars
  <2>1. UNCHANGED <<disk, faults, readSeq, seenFloor, fileReadSeq, snapshot, hasSnapshot,
                    storedBaseline, inflight, pc, rd, build>>
    BY <1>2 DEF MarkDirty, ForceReload, vars, diskVars, pageVars, loadVars, slotVars, procVars,
                boundVars, floorVars
  <2>2. /\ SeqVis' /\ PubVis'
    BY <1>1, <2>1 DEF SeqVis, PubVis, Settled, Meets, Due, Reading, Recent, Shows, ReadFailed,
                      PageAt, Version
  <2>3. ASSUME NEW q \in Procs PROVE ReadVis(q)' /\ Unread(q)'
    BY <1>1, <2>1 DEF ReadVis, Unread, IsListing, Meets, Due, Reading, Recent, Shows,
                      ReadFailed, PageAt, Version
  <2>4. Calm
    <3>1. faults' \in Nat /\ faults' >= faults
      BY <1>1, <2>1
    <3> QED
      BY <1>1, <2>1, <3>1, CalmStep
  <2>5. ASSUME NEW q \in Procs PROVE ListVis(q)'
    <3>1. ASSUME Listing(q), NEW f \in Files PROVE FileVis(q, f)'
      BY <1>1, <2>1, <2>4, <3>1, FileVisStays DEF ListVis
    <3> QED
      BY <1>1, <2>1, <3>1 DEF ListVis, Listing, IsListing
  <2> QED
    BY <2>2, <2>3, <2>5 DEF VisInv
<1>3. CASE \E g \in Files, s \in EditStates : Edit(g, s)
  <2>1. PICK g \in Files, s \in EditStates : Edit(g, s)
    BY <1>3
  <2>2. UNCHANGED <<faults, readSeq, seenFloor, fileReadSeq, snapshot, hasSnapshot,
                    storedBaseline, inflight, pc, rd, build>>
    BY <2>1 DEF Edit, pageVars, loadVars, slotVars, procVars, boundVars, floorVars
  <2>3. ASSUME NEW f \in Files
        PROVE  /\ Version(f)' \in Nat /\ Version(f)' >= Version(f)
               /\ \A v \in 1 .. Version(f), pg \in Pages : Recent(pg, f, v) => Recent(pg, f, v)'
    <3>1. Version(f) \in 1 .. MaxVersion /\ Version(f) \in Nat /\ MaxVersion \in Nat
      BY VisTypes, PageIndexAssumption
    <3>2. ASSUME NEW v \in 1 .. Version(f), NEW pg \in Pages, Recent(pg, f, v)
          PROVE  Recent(pg, f, v)'
      <4>1. v \in Fps /\ v > ZeroFp
        BY <3>1, <3>2 DEF Fps, ZeroFp
      <4>2. Good(f, v, pg)
        BY <3>2, <4>1 DEF Good, Recent
      <4>3. Good(f, v, pg)'
        BY <2>1, <4>1, <4>2, EditGood
      <4> QED
        BY <4>1, <4>3 DEF Good, Recent
    <3>3. Version(f)' \in Nat /\ Version(f)' >= Version(f)
      <4>1. NoFp \in Fps /\ Good(f, NoFp, NoPage)
        BY BlankGood, PageIndexAssumption DEF NoFp, Fps
      <4>2. Version(f)' >= Version(f)
        BY <2>1, <4>1, EditGood
      <4>3. DiskTypeOK'
        BY <2>1, EditInv DEF Inv, TypeOK
      <4> QED
        BY <4>2, <4>3 DEF DiskTypeOK
    <3> QED
      BY <3>2, <3>3
  <2>4. Calm
    <3>1. ASSUME NEW q \in Procs, NEW f \in Files, Reading(q, f)'
          PROVE  Reading(q, f) /\ rd'[q].seq = rd[q].seq /\ rd'[q].from = rd[q].from
      BY <2>2, <3>1 DEF Reading
    <3>2. ASSUME NEW f \in Files
          PROVE  /\ fileReadSeq'[f] \in Nat /\ fileReadSeq'[f] >= fileReadSeq[f]
                 /\ fileReadSeq'[f] <= readSeq' /\ seenFloor'[f] = seenFloor[f]
      BY <1>1, <2>2, VisTypes DEF SeqVis
    <3>3. readSeq' \in Nat /\ readSeq' >= readSeq
      BY <1>1, <2>2
    <3> QED
      BY <2>3, <3>1, <3>2, <3>3 DEF Calm
  <2>5. PubVis' /\ SeqVis'
    BY <1>1, <2>2, <2>4, SettledStays, SeqVisStays DEF PubVis
  <2>6. ASSUME NEW q \in Procs PROVE ReadVis(q)' /\ Unread(q)' /\ ListVis(q)'
    <3>1. ReadVis(q)' /\ Unread(q)'
      BY <1>1, <2>2, <2>4, ReadVisStays DEF Unread
    <3>2. ASSUME Listing(q), NEW f \in Files PROVE FileVis(q, f)'
      BY <1>1, <2>2, <2>4, <3>2, FileVisStays DEF ListVis
    <3> QED
      BY <1>1, <2>2, <3>1, <3>2 DEF ListVis, Listing, IsListing
  <2> QED
    BY <2>5, <2>6 DEF VisInv
<1>4. CASE Crash
  <2>1. /\ disk' = disk /\ readSeq' = 0 /\ hasSnapshot' = FALSE
        /\ \A q \in Procs : pc'[q] = "idle"
        /\ \A f \in Files : fileReadSeq'[f] = 0 /\ seenFloor'[f] = Version(f)
    BY <1>4 DEF Crash, EmptyIndex, diskVars
  <2>2. SeqVis'
    <3>1. \A f \in Files : /\ Version(f)' = Version(f) /\ Version(f) \in Nat
                            /\ Version(f) \in 1 .. MaxVersion
      BY <2>1, VisTypes DEF Version
    <3> QED
      BY <2>1, <3>1 DEF SeqVis
  <2>3. PubVis' /\ \A q \in Procs : ReadVis(q)' /\ Unread(q)' /\ ListVis(q)'
    BY <2>1 DEF PubVis, ReadVis, Unread, ListVis, Listing, ListPcs, ReadPcs, FreshPcs, ScanPcs
  <2> QED
    BY <2>2, <2>3 DEF VisInv
<1> QED
  BY <1>2, <1>3, <1>4 DEF Environment

\* A RefreshFile that found a cold key, and refreshed the folder, returns.
ColdReturn(p) == p \in Watchers /\ Return(p) /\ call[p].ok

\* No step but the return of a cold key's RefreshFile breaks the invariant.
LEMMA NextVis ==
  ASSUME Inv, HonestInv, VisInv, [Next]_vars, \A p \in Procs : ~ColdReturn(p)
  PROVE  VisInv'
<1>1. ASSUME NEW p \in Procs, Begin(p) PROVE VisInv'
  <2>1. CASE BeginList(p) \/ BeginRefresh(p) \/ \E f \in Files : BeginMarkFile(p, f)
    BY <2>1, CallVis
  <2>2. CASE \E f \in Files : BeginRefreshFile(p, f)
    <3>1. PICK f \in Files : BeginRefreshFile(p, f)
      BY <2>2
    <3> QED
      BY <3>1, CallVis, BeginRefreshFileVis
  <2> QED
    BY <1>1, <2>1, <2>2 DEF Begin
<1>2. ASSUME NEW p \in Procs, Step(p) PROVE VisInv'
  <2>1. CASE EndMarkFile(p) \/ WidenMarkFile(p) \/ Serve(p) \/ Persist(p)
    BY <2>1, CallVis
  <2>2. CASE Return(p)
    <3>1. ~(p \in Watchers /\ call[p].ok)
      BY <2>2 DEF ColdReturn
    <3> QED
      BY <2>2, <3>1, CallVis
  <2>3. CASE Acquire(p) \/ Hydrate(p) \/ FailListing(p) \/ Release(p)
    BY <2>3, AcquireVis, SeedVis, ReleaseVis
  <2>4. CASE StartListing(p) \/ ReadDir(p) \/ StatDir(p) \/ Diff(p) \/ Merge(p)
    BY <2>4, StartListingVis, ListFilesVis, DiffVis, MergeVis
  <2>5. CASE StartFileReads(p) \/ (\E f \in Files : NextFile(p, f)) \/ StatFile(p)
             \/ ReadFile(p) \/ ApplyFileRead(p)
    BY <2>5, StartFileReadsVis, NextFileVis, ReadFileVis, ApplyVis
  <2> QED
    BY <1>2, <2>1, <2>2, <2>3, <2>4, <2>5 DEF Step
<1>3. ASSUME NEW p \in Procs, Cancel(p) PROVE VisInv'
  BY <1>3, CallVis
<1>4. CASE Environment \/ UNCHANGED vars
  BY <1>4, EnvironmentVis
<1> QED
  BY <1>1, <1>2, <1>3, <1>4 DEF Next

\* It holds of an index that has read nothing.
LEMMA InitVis == Init => VisInv
<1> SUFFICES ASSUME Init PROVE VisInv
  OBVIOUS
<1>1. /\ readSeq = 0 /\ hasSnapshot = FALSE /\ \A q \in Procs : pc[q] = "idle"
      /\ \A f \in Files : fileReadSeq[f] = 0 /\ seenFloor[f] = 1
  BY DEF Init, EmptyIndex
<1>2. \A f \in Files : Version(f) \in Nat /\ Version(f) \in 1 .. MaxVersion
  BY InitInv, VisTypes
<1>3. SeqVis
  BY <1>1, <1>2 DEF SeqVis
<1>4. PubVis /\ \A q \in Procs : ReadVis(q) /\ Unread(q) /\ ListVis(q)
  BY <1>1 DEF PubVis, ReadVis, Unread, ListVis, Listing, ListPcs, ReadPcs, FreshPcs, ScanPcs
<1> QED
  BY <1>3, <1>4 DEF VisInv

\* A RefreshFile that finds a snapshot is never undone: once it has returned, whatever is
\* published shows its file as it was when the event was handled or later (or could not be
\* read), however the reads, listings, merges, hydrations, failures and restarts under way
\* interleave; and what a restarted process publishes is no older than its start.  The
\* hypothesis leaves out the events that meet a key without a snapshot and become a refresh
\* of the folder.
THEOREM WarmEventsVisible ==
  Spec /\ [][\A p \in Procs : ~ColdReturn(p)]_vars => []EventVisible
<1>1. Init => VisInv
  BY InitVis
<1>2. Inv /\ HonestInv /\ VisInv /\ [Next]_vars /\ [\A p \in Procs : ~ColdReturn(p)]_vars
        => VisInv'
  <2>1. SUFFICES ASSUME Inv, HonestInv, VisInv, [Next]_vars,
                        [\A p \in Procs : ~ColdReturn(p)]_vars
                 PROVE  VisInv'
    OBVIOUS
  <2>2. CASE UNCHANGED vars
    BY <2>1, <2>2, EnvironmentVis
  <2> QED
    BY <2>1, <2>2, NextVis
<1>3. Inv /\ VisInv => EventVisible
  <2>1. SUFFICES ASSUME Inv, VisInv, hasSnapshot /\ ~storedBaseline, NEW f \in Files
                 PROVE  Recent(snapshot[f], f, seenFloor[f])
    BY DEF EventVisible, Recent
  <2>2. Settled(f) /\ seenFloor[f] \in 1 .. Version(f) /\ fileReadSeq[f] \in Nat
    BY <2>1, VisTypes DEF VisInv, PubVis, SeqVis
  <2> QED
    BY <2>2 DEF Settled, Meets, Due
<1> QED
  BY <1>1, <1>2, <1>3, Invariant, PairsGood, PTL DEF Spec

-----------------------------------------------------------------------------
(* Listings and re-reads by themselves *)

(***************************************************************************)
(* What a build promises while no event's read interferes.  A version v of *)
(* a file is honoured by a running build if whatever the build publishes   *)
(* shows the file as it was at v or later, or could not be read.  A        *)
(* listing honours every version there is when it starts; a re-read of     *)
(* marked files honours those that the snapshot shows already or that it   *)
(* goes on to read.  This is proved once, for any v, and used three times: *)
(* for the versions that refreshes, marks and readers ask for.             *)
(***************************************************************************)

RunPcs == ListPcs \cup {"release"}

\* The build p runs is past its start.
Runs(p) == inflight = p /\ pc[p] \in RunPcs

\* It has yet to read f.
Unseen(p, f) == f \in build[p].todo \/ (pc[p] \in ReadPcs /\ rd[p].file = f)

\* The pages a running build relies on for f: a listing on the file's absence or its own
\* read, or on the snapshot if it does not read the file, a re-read on the snapshot and on
\* the page it is about to apply, and both, in the end, on what they publish.
Stakes(p, f) ==
  LET b == build[p]
      listed == f \in b.names
  IN {pg \in Pages :
        \/ /\ b.kind # "filereads"
           /\ \/ pg = NoPage /\ ~listed /\ pc[p] \in ListPcs \ {"readdir"}
              \/ pg = NoPage /\ listed /\ pc[p] = "diff" /\ b.fps[f] = ZeroFp
              \/ /\ listed /\ pc[p] \in ReadingPcs /\ ~Unseen(p, f)
                 /\ pg = IF b.reads[f].seq > 0 THEN b.reads[f].page ELSE snapshot[f]
              \/ pg \in {b.pages[f], snapshot[f]} /\ pc[p] = "release" /\ ~b.err
        \/ /\ b.kind = "filereads"
           /\ \/ pg = snapshot[f] /\ (~Unseen(p, f) \/ pc[p] = "release")
              \/ pg = rd[p].page /\ pc[p] = "apply" /\ rd[p].file = f}

\* The build honours version v of f: none of these pages is older, and neither is the
\* fingerprint a listing is about to compare.
Honours(p, f, v) ==
  /\ \A pg \in Stakes(p, f) : Recent(pg, f, v)
  /\ build[p].kind # "filereads" /\ pc[p] = "diff" /\ f \in build[p].names =>
       build[p].fps[f] = ZeroFp \/ build[p].fps[f] >= v

\* Nobody but the running build reads, and its reads are the latest of their files.
SoloRead(p) ==
  pc[p] \in ReadPcs => /\ inflight = p
                       /\ rd[p].seq \in 1 .. readSeq /\ fileReadSeq[rd[p].file] <= rd[p].seq
                       /\ pc[p] = "apply" => build[p].kind = "filereads"

SoloBuild(p) == /\ pc[p] \in {"readdir", "statdir", "diff"} =>
                     \A f \in Files : build[p].reads[f].seq = 0
                /\ pc[p] = "diff" => \A f \in build[p].names : build[p].fps[f] # NoFp
                /\ pc[p] = "merge" => build[p].todo = {}
                /\ inflight = p => build[p].startSeq <= requestSeq

SoloList(p) ==
  Listing(p) =>
    /\ build[p].listingSeq <= readSeq
    /\ pc[p] \in ReadPcs => rd[p].seq > build[p].listingSeq
    /\ \A f \in Files : /\ fileReadSeq[f] < build[p].listingSeq
                        /\ build[p].reads[f].seq > 0 =>
                             build[p].reads[f].seq \in (build[p].listingSeq + 1) .. readSeq

Solo(p) == SoloRead(p) /\ Unread(p) /\ SoloBuild(p) /\ SoloList(p)

SoloInv == (\A f \in Files : fileReadSeq[f] <= readSeq) /\ \A p \in Procs : Solo(p)

\* A RefreshFile that finds a snapshot reads its file.
WarmRead(p) == hasSnapshot /\ \E f \in Files : BeginRefreshFile(p, f)

\* Files only gain versions, and what shows one goes on showing it.
Grows == \A f \in Files : /\ Version(f)' \in Nat /\ Version(f)' >= Version(f)
                          /\ \A v \in 1 .. Version(f), pg \in Pages :
                               Recent(pg, f, v) => Recent(pg, f, v)'

\* A step outside the running build: whoever is part of one afterwards has not moved, or
\* has a build that has read nothing.
Aside ==
  /\ UNCHANGED <<snapshot, fileReadSeq, readSeq>>
  /\ requestSeq' \in Nat /\ requestSeq' >= requestSeq
  /\ \A q \in Procs :
       \/ /\ pc'[q] = pc[q] /\ build'[q] = build[q] /\ rd'[q] = rd[q]
          /\ inflight' = q <=> inflight = q
       \/ pc'[q] \notin RunPcs \cup FreshPcs /\ inflight' # q
       \/ /\ pc'[q] \in {"start", "queued"} /\ build'[q].startSeq <= requestSeq'
          /\ \A f \in Files : build'[q].reads[f].seq = 0

\* A step of the running build: everybody else stays where he is.
Alone(p) ==
  /\ inflight = p /\ UNCHANGED <<inflight, followUp, call, requestSeq, disk>>
  /\ \A q \in Procs \ {p} : pc'[q] = pc[q] /\ build'[q] = build[q] /\ rd'[q] = rd[q]

\* Steps that leave the files alone let them grow.
LEMMA GrowsQuiet ==
  ASSUME Inv, disk' = disk, faults' \in {faults, faults + 1}
  PROVE  Grows
<1>1. faults \in Nat /\ \A f \in Files : Version(f) \in Nat
  BY VisTypes DEF Inv, TypeOK, BoundTypeOK
<1>2. faults' \in Nat /\ faults' >= faults
  BY <1>1
<1>3. ASSUME NEW f \in Files, NEW v, NEW pg, Recent(pg, f, v)
      PROVE  Recent(pg, f, v)'
  BY <1>1, <1>2, <1>3 DEF Recent, Shows, PageAt, Version, ReadFailed
<1>4. \A f \in Files : Version(f)' = Version(f)
  BY DEF Version
<1> QED
  BY <1>1, <1>3, <1>4 DEF Grows

\* So does an edit.
LEMMA GrowsEdit ==
  ASSUME Inv, NEW g \in Files, NEW s \in EditStates, Edit(g, s)
  PROVE  Grows
<1> SUFFICES ASSUME NEW f \in Files
             PROVE  /\ Version(f)' \in Nat /\ Version(f)' >= Version(f)
                    /\ \A v \in 1 .. Version(f), pg \in Pages :
                         Recent(pg, f, v) => Recent(pg, f, v)'
  BY DEF Grows
<1>1. Version(f) \in 1 .. MaxVersion /\ Version(f) \in Nat /\ MaxVersion \in Nat
  BY VisTypes, PageIndexAssumption
<1>2. ASSUME NEW v \in 1 .. Version(f), NEW pg \in Pages, Recent(pg, f, v)
      PROVE  Recent(pg, f, v)'
  <2>1. v \in Fps /\ v > ZeroFp
    BY <1>1, <1>2 DEF Fps, ZeroFp
  <2>2. Good(f, v, pg)
    BY <1>2, <2>1 DEF Good, Recent
  <2>3. Good(f, v, pg)'
    BY <2>1, <2>2, EditGood
  <2> QED
    BY <2>1, <2>3 DEF Good, Recent
<1>3. NoFp \in Fps /\ Good(f, NoFp, NoPage)
  BY BlankGood, PageIndexAssumption DEF NoFp, Fps
<1>4. Version(f)' >= Version(f)
  BY <1>3, EditGood
<1>5. DiskTypeOK'
  BY EditInv DEF Inv, TypeOK
<1> QED
  BY <1>2, <1>4, <1>5 DEF DiskTypeOK

\* Every step lets the files grow.
LEMMA StepGrows ==
  ASSUME Inv, [Next]_vars
  PROVE  Grows
<1>1. ASSUME NEW p \in Procs, Begin(p) PROVE disk' = disk /\ faults' \in {faults, faults + 1}
  BY <1>1 DEF Begin, BeginList, BeginRefresh, BeginRefreshFile, BeginMarkFile, EnterRefresh,
              diskVars, boundVars
<1>2. ASSUME NEW p \in Procs, Step(p) PROVE disk' = disk /\ faults' \in {faults, faults + 1}
  <2>1. CASE EndMarkFile(p) \/ WidenMarkFile(p) \/ Serve(p) \/ Acquire(p) \/ Return(p)
    BY <2>1 DEF EndMarkFile, WidenMarkFile, Serve, Acquire, Return, diskVars, boundVars
  <2>2. CASE Hydrate(p) \/ StartListing(p) \/ ReadDir(p) \/ StatDir(p) \/ Diff(p)
             \/ FailListing(p) \/ Merge(p)
    BY <2>2 DEF Hydrate, StartListing, ReadDir, StatDir, Diff, FailListing, Merge, diskVars,
                boundVars, Fault
  <2>3. CASE StartFileReads(p) \/ (\E f \in Files : NextFile(p, f)) \/ StatFile(p)
             \/ ReadFile(p) \/ ApplyFileRead(p) \/ Release(p) \/ Persist(p)
    BY <2>3 DEF StartFileReads, NextFile, StatFile, ReadFile, ApplyFileRead, Release, Persist,
                diskVars, boundVars, Fault
  <2> QED
    BY <1>2, <2>1, <2>2, <2>3 DEF Step
<1>3. ASSUME NEW p \in Procs, Cancel(p) PROVE disk' = disk /\ faults' = faults
  BY <1>3 DEF Cancel, diskVars, boundVars
<1>4. ASSUME MarkDirty \/ ForceReload \/ Crash \/ UNCHANGED vars
      PROVE  disk' = disk /\ faults' = faults
  BY <1>4 DEF MarkDirty, ForceReload, Crash, vars, diskVars, boundVars
<1> QED
  BY <1>1, <1>2, <1>3, <1>4, GrowsQuiet, GrowsEdit DEF Next, Environment

\* The steps of calls and marks outside the builds; an event of a cold key begins one too.
CallStep(p) ==
  \/ p \in Readers /\ BeginList(p)
  \/ p \notin Readers /\ BeginRefresh(p)
  \/ p \notin Readers /\ ~hasSnapshot /\ \E f \in Files : BeginRefreshFile(p, f)
  \/ Serve(p) \/ Cancel(p) \/ Return(p)
  \/ EndMarkFile(p) \/ WidenMarkFile(p) \/ Persist(p)
  \/ \E f \in Files : BeginMarkFile(p, f)

\* Marks, and calls that begin, serve, give up, return or write through, are outside.
LEMMA CallAside ==
  ASSUME Inv, NEW p \in Procs, CallStep(p)
  PROVE  Aside /\ inflight # p /\ inflight' = inflight
<1>1. /\ pc \in [Procs -> Pcs] /\ build \in [Procs -> Builds] /\ rd \in [Procs -> FileReads]
      /\ requestSeq \in Nat /\ SingleFlight
  BY DEF Inv, TypeOK, ProcTypeOK, MarkTypeOK
<1>2. /\ UNCHANGED <<snapshot, fileReadSeq, readSeq, inflight>>
      /\ requestSeq' \in {requestSeq, requestSeq + 1}
  BY DEF CallStep, BeginList, BeginRefresh, EnterRefresh, Serve, Cancel, Return,
         BeginMarkFile, EndMarkFile, WidenMarkFile, MarkFolder, Persist, BeginRefreshFile,
         pageVars, slotVars, markVars
<1>3. /\ pc[p] \in {"idle", "loop", "wait", "return", "markfile", "markfolder", "persist",
                    "savefile"}
      /\ \E x \in {"idle", "loop", "return", "markfile", "markfolder"} :
           pc' = [pc EXCEPT ![p] = x]
  BY AfterAwaitPcs DEF CallStep, BeginList, BeginRefresh, EnterRefresh, Serve, Cancel, Return,
         BeginMarkFile, EndMarkFile, WidenMarkFile, Persist, BeginRefreshFile
<1>4. /\ build' = build \/ build' = [build EXCEPT ![p] = NoBuild]
      /\ \/ rd' = rd \/ rd' = [rd EXCEPT ![p] = NoFileRead]
         \/ \E f : rd' = [rd EXCEPT ![p].file = f]
  BY DEF CallStep, BeginList, BeginRefresh, EnterRefresh, Serve, Cancel, Return,
         BeginMarkFile, EndMarkFile, WidenMarkFile, Persist, BeginRefreshFile
<1>5. \A q \in Procs \ {p} : rd'[q] = rd[q] /\ build'[q] = build[q] /\ pc'[q] = pc[q]
  BY <1>1, <1>3, <1>4
<1>6. pc'[p] \notin RunPcs \cup FreshPcs /\ inflight # p
  BY <1>1, <1>3 DEF ReadPcs, ListPcs, FreshPcs, RunPcs, SingleFlight, OwnerPcs
<1>7. requestSeq' \in Nat /\ requestSeq' >= requestSeq
  BY <1>1, <1>2
<1> QED
  BY <1>2, <1>5, <1>6, <1>7 DEF Aside

\* acquireLocked is outside: a build that is queued or started has read nothing.
LEMMA AcquireAside ==
  ASSUME Inv, NEW p \in Procs, Acquire(p)
  PROVE  /\ Aside
         /\ \/ inflight' = inflight
            \/ inflight = None /\ inflight' = p /\ pc'[p] = "start"
<1>1. /\ pc \in [Procs -> Pcs] /\ build \in [Procs -> Builds] /\ SingleFlight
      /\ requestSeq \in Nat
  BY DEF Inv, TypeOK, ProcTypeOK, MarkTypeOK
<1> DEFINE own == [NoBuild EXCEPT !.kind = Pending(IsRefresh(p)).kind, !.startSeq = requestSeq]
<1>2. /\ pc[p] = "loop" /\ UNCHANGED <<snapshot, fileReadSeq, readSeq, requestSeq, rd>>
  BY DEF Acquire, pageVars, markVars
<1>3. /\ \/ inflight' = inflight
         \/ inflight = None /\ inflight' = p /\ pc' = [pc EXCEPT ![p] = "start"]
      /\ \/ pc' = [pc EXCEPT ![p] = "wait"] /\ build' = build /\ inflight' = inflight
         \/ /\ \E x \in {"queued", "start"} : pc' = [pc EXCEPT ![p] = x]
            /\ build' = [build EXCEPT ![p] = own]
  BY DEF Acquire, slotVars
<1>4. own.startSeq = requestSeq /\ \A f \in Files : own.reads[f].seq = 0
  BY DEF NoBuild, NoRead
<1> HIDE DEF own
<1>5. \A q \in Procs \ {p} : /\ rd'[q] = rd[q] /\ build'[q] = build[q] /\ pc'[q] = pc[q]
                             /\ inflight' = q <=> inflight = q
  BY <1>1, <1>2, <1>3, PageIndexAssumption
<1>6. inflight # p
  BY <1>1, <1>2 DEF SingleFlight, OwnerPcs, ReadPcs
<1>7. \/ pc'[p] = "wait" /\ inflight' # p
      \/ pc'[p] \in {"queued", "start"} /\ build'[p] = own
  BY <1>1, <1>3, <1>6
<1>8. /\ "wait" \notin RunPcs \cup FreshPcs /\ requestSeq' \in Nat /\ requestSeq' >= requestSeq
      /\ own.startSeq <= requestSeq'
  BY <1>1, <1>2, <1>4 DEF ReadPcs, ListPcs, FreshPcs, RunPcs
<1>9. Aside
  BY <1>2, <1>4, <1>5, <1>7, <1>8 DEF Aside
<1> QED
  BY <1>1, <1>3, <1>9

\* Steps outside the goroutines.
QuietStep == \/ \E f \in Files, s \in EditStates : Edit(f, s)
             \/ MarkDirty \/ ForceReload \/ UNCHANGED vars

\* So are edits, folder marks and stuttering.
LEMMA QuietAside ==
  ASSUME Inv, QuietStep
  PROVE  Aside /\ UNCHANGED <<inflight, followUp, pc, build, rd, call>>
<1>1. UNCHANGED <<snapshot, fileReadSeq, readSeq, inflight, followUp, pc, build, rd, call>>
  BY DEF QuietStep, Edit, MarkDirty, ForceReload, vars, pageVars, slotVars, procVars
<1>2. requestSeq' \in {requestSeq, requestSeq + 1} /\ requestSeq \in Nat
  BY DEF QuietStep, Edit, MarkDirty, MarkFolder, ForceReload, vars, markVars, Inv, TypeOK, MarkTypeOK
<1>3. requestSeq' \in Nat /\ requestSeq' >= requestSeq
  BY <1>2
<1> QED
  BY <1>1, <1>3 DEF Aside

\* Which steps of the running build there are, and that it runs them alone.
BuildStep(p) ==
  \/ Hydrate(p) \/ StartListing(p) \/ ReadDir(p) \/ StatDir(p) \/ Diff(p)
  \/ FailListing(p) \/ Merge(p) \/ StartFileReads(p) \/ (\E f \in Files : NextFile(p, f))
  \/ StatFile(p) \/ ReadFile(p) \/ ApplyFileRead(p)

\* A build step belongs to the running build and moves nobody else.
LEMMA BuildAlone ==
  ASSUME Inv, SoloInv, NEW p \in Procs, BuildStep(p)
  PROVE  Alone(p)
<1>1. /\ pc \in [Procs -> Pcs] /\ build \in [Procs -> Builds] /\ rd \in [Procs -> FileReads]
      /\ SingleFlight
  BY DEF Inv, TypeOK, ProcTypeOK
<1>2. /\ UNCHANGED <<inflight, followUp, call, requestSeq, disk>>
      /\ pc[p] \in OwnerPcs \cup ReadPcs
      /\ \E x : pc' = [pc EXCEPT ![p] = x]
      /\ rd' = rd \/ \E r : rd' = [rd EXCEPT ![p] = r]
      /\ build' = build \/ \E b : build' = [build EXCEPT ![p] = b]
  <2>1. CASE Hydrate(p) \/ StartListing(p) \/ ReadDir(p) \/ StatDir(p)
    BY <2>1 DEF Hydrate, StartListing, ReadDir, StatDir, diskVars, slotVars, markVars, OwnerPcs
  <2>2. CASE Diff(p) \/ FailListing(p) \/ Merge(p)
    BY <2>2 DEF Diff, FailListing, Merge, diskVars, slotVars, markVars, OwnerPcs
  <2>3. CASE StartFileReads(p) \/ \E f \in Files : NextFile(p, f)
    BY <2>3 DEF StartFileReads, NextFile, diskVars, slotVars, markVars, OwnerPcs
  <2>4. CASE StatFile(p) \/ ReadFile(p)
    BY <2>4 DEF StatFile, ReadFile, Deliver, diskVars, slotVars, markVars, ReadPcs
  <2>5. CASE ApplyFileRead(p)
    BY <2>5 DEF ApplyFileRead, diskVars, slotVars, markVars, ReadPcs
  <2> QED
    BY <2>1, <2>2, <2>3, <2>4, <2>5 DEF BuildStep
<1>3. \A q \in Procs \ {p} : pc'[q] = pc[q] /\ build'[q] = build[q] /\ rd'[q] = rd[q]
  BY <1>1, <1>2
<1>4. inflight = p
  BY <1>1, <1>2 DEF SoloInv, Solo, SoloRead, SingleFlight
<1> QED
  BY <1>2, <1>3, <1>4 DEF Alone

\* A step outside keeps the build's reads the latest.
LEMMA AsideSolo ==
  ASSUME Inv, SoloInv, Aside
  PROVE  SoloInv'
<1>1. /\ readSeq' = readSeq /\ fileReadSeq' = fileReadSeq /\ requestSeq \in Nat
      /\ requestSeq' \in Nat /\ requestSeq' >= requestSeq
  BY DEF Aside, Inv, TypeOK, MarkTypeOK
<1>2. ASSUME NEW q \in Procs PROVE Solo(q)'
  <2>1. CASE /\ pc'[q] = pc[q] /\ build'[q] = build[q] /\ rd'[q] = rd[q]
             /\ inflight' = q <=> inflight = q
    <3>1. Solo(q) /\ build[q].startSeq \in Nat
      BY DEF SoloInv, Inv, TypeOK, ProcTypeOK, Builds
    <3>2. SoloRead(q)' /\ Unread(q)' /\ SoloList(q)'
      BY <1>1, <2>1, <3>1 DEF Solo, SoloRead, Unread, SoloList, Listing, IsListing
    <3>3. SoloBuild(q)'
      BY <1>1, <2>1, <3>1 DEF Solo, SoloBuild
    <3> QED
      BY <3>2, <3>3 DEF Solo
  <2>2. CASE pc'[q] \notin RunPcs \cup FreshPcs /\ inflight' # q
    BY <2>2 DEF Solo, SoloRead, Unread, SoloBuild, SoloList, Listing, RunPcs, FreshPcs, ListPcs,
                ReadPcs, ScanPcs
  <2>3. CASE /\ pc'[q] \in {"start", "queued"} /\ build'[q].startSeq <= requestSeq'
             /\ \A f \in Files : build'[q].reads[f].seq = 0
    BY <2>3 DEF Solo, SoloRead, Unread, SoloBuild, SoloList, Listing, ListPcs, ReadPcs, ScanPcs
  <2> QED
    BY <2>1, <2>2, <2>3 DEF Aside
<1> QED
  BY <1>1, <1>2 DEF SoloInv

\* A build step keeps everybody else's part of it.
LEMMA AloneSolo ==
  ASSUME Inv, SoloInv, NEW p \in Procs, Alone(p), Solo(p)',
         \A f \in Files : fileReadSeq'[f] <= readSeq'
  PROVE  SoloInv'
<1>1. ASSUME NEW q \in Procs \ {p} PROVE Solo(q)'
  <2>1. /\ pc'[q] = pc[q] /\ build'[q] = build[q] /\ rd'[q] = rd[q] /\ inflight # q /\ inflight' # q
        /\ Solo(q)
    BY <1>1 DEF Alone, SoloInv
  <2> QED
    BY <2>1 DEF Solo, SoloRead, Unread, SoloBuild, SoloList, Listing, IsListing
<1> QED
  BY <1>1 DEF SoloInv

\* The types of the running build.
LEMMA SoloTypes ==
  ASSUME Inv, NEW p \in Procs
  PROVE  /\ pc \in [Procs -> Pcs] /\ build \in [Procs -> Builds] /\ rd \in [Procs -> FileReads]
         /\ readSeq \in Nat /\ requestSeq \in Nat /\ SingleFlight
         /\ build[p].startSeq \in Nat /\ build[p].listingSeq \in Nat
         /\ \A f \in Files : build[p].reads[f].seq \in Nat /\ fileReadSeq[f] \in Nat
BY VisTypes DEF Inv, TypeOK, ProcTypeOK, MarkTypeOK, Builds

\* Hydrations and failures read nothing, and a listing starts above every read.
LEMMA StartSolo ==
  ASSUME Inv, SoloInv, NEW p \in Procs, Hydrate(p) \/ FailListing(p) \/ StartListing(p)
  PROVE  SoloInv'
<1>1. /\ pc \in [Procs -> Pcs] /\ build \in [Procs -> Builds] /\ readSeq \in Nat
      /\ requestSeq \in Nat /\ Alone(p) /\ Solo(p) /\ build[p].startSeq \in Nat
  BY SoloTypes, BuildAlone DEF BuildStep, SoloInv
<1>2. CASE Hydrate(p)
  <2>1. /\ pc[p] = "start" /\ pc'[p] = "seeded" /\ UNCHANGED <<readSeq, fileReadSeq, build>>
        /\ build[p].kind = "hydrate" /\ requestSeq' = requestSeq
    BY <1>1, <1>2 DEF Hydrate, Alone
  <2>2. Solo(p)'
    BY <1>1, <2>1 DEF Alone, Solo, SoloRead, Unread, SoloBuild, SoloList, Listing, ListPcs, ReadPcs,
                      FreshPcs, ScanPcs
  <2>3. \A f \in Files : fileReadSeq'[f] <= readSeq'
    BY <2>1 DEF SoloInv
  <2> QED
    BY <1>1, <2>2, <2>3, AloneSolo
<1>3. CASE FailListing(p)
  <2>1. /\ pc'[p] = "release" /\ UNCHANGED <<readSeq, fileReadSeq>>
        /\ build'[p].startSeq = build[p].startSeq /\ requestSeq' = requestSeq
    BY <1>1, <1>3 DEF FailListing, Builds, Alone
  <2>2. Solo(p)'
    BY <1>1, <2>1 DEF Alone, Solo, SoloRead, Unread, SoloBuild, SoloList, Listing, ListPcs, ReadPcs,
                      FreshPcs, ScanPcs
  <2>3. \A f \in Files : fileReadSeq'[f] <= readSeq'
    BY <2>1 DEF SoloInv
  <2> QED
    BY <1>1, <2>2, <2>3, AloneSolo
<1>4. CASE StartListing(p)
  <2>1. /\ pc[p] \in {"start", "seeded"} /\ pc'[p] = "readdir" /\ readSeq' = readSeq + 1
        /\ fileReadSeq' = fileReadSeq /\ build'[p].startSeq = requestSeq
        /\ build'[p].listingSeq = readSeq + 1 /\ build'[p].reads = build[p].reads
        /\ build'[p].kind = build[p].kind /\ requestSeq' = requestSeq
    BY <1>1, <1>4 DEF StartListing, Builds, Alone, pageVars
  <2>2. build[p].kind # "filereads"
    BY <1>1, <1>4 DEF StartListing, Solo, Unread, ScanPcs
  <2>3. ASSUME NEW f \in Files
        PROVE  fileReadSeq'[f] <= readSeq' /\ fileReadSeq'[f] < build'[p].listingSeq
    BY <1>1, <2>1, SoloTypes DEF SoloInv
  <2>4. \A f \in Files : build[p].reads[f].seq = 0
    BY <1>1, <2>1 DEF Solo, Unread, FreshPcs
  <2>5. Solo(p)'
    BY <1>1, <2>1, <2>2, <2>3, <2>4 DEF Solo, SoloRead, Unread, SoloBuild, SoloList, ReadPcs,
                      FreshPcs, ScanPcs
  <2> QED
    BY <1>1, <2>3, <2>5, AloneSolo
<1> QED
  BY <1>2, <1>3, <1>4

\* Listing names, taking fingerprints and comparing them reads no file.
LEMMA ListSolo ==
  ASSUME Inv, SoloInv, NEW p \in Procs, ReadDir(p) \/ StatDir(p) \/ Diff(p)
  PROVE  SoloInv'
<1>1. /\ pc \in [Procs -> Pcs] /\ build \in [Procs -> Builds] /\ readSeq \in Nat
      /\ Alone(p) /\ Solo(p)
  BY SoloTypes, BuildAlone DEF BuildStep, SoloInv
<1>2. /\ pc[p] \in {"readdir", "statdir", "diff"}
      /\ pc'[p] \in {"statdir", "diff", "release", "merge", "collect"}
      /\ UNCHANGED <<readSeq, fileReadSeq, rd>>
      /\ build'[p].startSeq = build[p].startSeq /\ build'[p].listingSeq = build[p].listingSeq
      /\ build'[p].reads = build[p].reads /\ build'[p].kind = build[p].kind
      /\ pc'[p] = "merge" => build'[p].todo = {}
      /\ pc'[p] = "diff" => \A f \in build'[p].names : build'[p].fps[f] # NoFp
  <2>1. CASE ReadDir(p)
    BY <1>1, <2>1 DEF ReadDir, Builds, pageVars
  <2>2. CASE StatDir(p)
    <3>1. \A f \in Files : Stat(f) # NoFp
      BY VisTypes DEF Stat, NoFp, ZeroFp
    <3>2. /\ build'[p].names = build[p].names /\ build[p].names \subseteq Files
          /\ \A f \in build[p].names : build'[p].fps[f] = Stat(f)
      BY <1>1, <2>2 DEF StatDir, Builds
    <3>3. \A f \in build'[p].names : build'[p].fps[f] # NoFp
      BY <3>1, <3>2
    <3> QED
      BY <1>1, <2>2, <3>3 DEF StatDir, Builds, pageVars
  <2>3. CASE Diff(p)
    BY <1>1, <2>3 DEF Diff, Builds, pageVars
  <2> QED
    BY <2>1, <2>2, <2>3
<1>3. Listing(p) /\ build[p].kind # "filereads"
  BY <1>1, <1>2 DEF Listing, IsListing, ListPcs, Alone, Solo, Unread, ScanPcs
<1>4. Solo(p)'
  BY <1>1, <1>2, <1>3 DEF Alone, Solo, SoloRead, Unread, SoloBuild, SoloList, ReadPcs,
                    FreshPcs, ScanPcs
<1>5. \A f \in Files : fileReadSeq'[f] <= readSeq'
  BY <1>2 DEF SoloInv
<1> QED
  BY <1>1, <1>4, <1>5, AloneSolo

\* The merge records the numbers of the listing's reads.
LEMMA MergeSolo ==
  ASSUME Inv, SoloInv, NEW p \in Procs, Merge(p)
  PROVE  SoloInv'
<1> DEFINE b == build[p]
<1>1. /\ pc \in [Procs -> Pcs] /\ build \in [Procs -> Builds] /\ readSeq \in Nat
      /\ Alone(p) /\ Solo(p)
  BY SoloTypes, BuildAlone DEF BuildStep, SoloInv
<1>2. /\ pc[p] = "merge" /\ pc'[p] = "release" /\ readSeq' = readSeq
      /\ fileReadSeq' = [f \in Files |-> IF Applied(b, f) THEN b.reads[f].seq
                                         ELSE fileReadSeq[f]]
      /\ build'[p].startSeq = build[p].startSeq
  BY <1>1 DEF Merge, Builds
<1>3. Listing(p)
  BY <1>1, <1>2 DEF Listing, IsListing, ListPcs, Alone, Solo, Unread, ScanPcs
<1>4. ASSUME NEW f \in Files PROVE fileReadSeq'[f] <= readSeq'
  <2>1. CASE Applied(b, f)
    <3>1. b.reads[f].seq \in (b.listingSeq + 1) .. readSeq
      BY <1>1, <1>3, <2>1 DEF Solo, SoloList, Applied
    <3> QED
      BY <1>1, <1>2, <2>1, <3>1, SoloTypes
  <2>2. CASE ~Applied(b, f)
    BY <1>2, <2>2 DEF SoloInv
  <2> QED
    BY <2>1, <2>2
<1>5. Solo(p)'
  BY <1>1, <1>2 DEF Alone, Solo, SoloRead, Unread, SoloBuild, SoloList, Listing, ListPcs, ReadPcs,
                    FreshPcs, ScanPcs
<1> QED
  BY <1>1, <1>4, <1>5, AloneSolo

\* executeFileReads takes the marked files, and each read in turn takes the next number.
LEMMA TakeSolo ==
  ASSUME Inv, SoloInv, NEW p \in Procs, StartFileReads(p) \/ \E f \in Files : NextFile(p, f)
  PROVE  SoloInv'
<1>1. /\ pc \in [Procs -> Pcs] /\ build \in [Procs -> Builds] /\ rd \in [Procs -> FileReads]
      /\ readSeq \in Nat /\ requestSeq \in Nat /\ Alone(p) /\ Solo(p)
  BY SoloTypes, BuildAlone DEF BuildStep, SoloInv
<1>2. CASE StartFileReads(p)
  <2>1. /\ pc'[p] \in {"release", "collect"} /\ UNCHANGED <<readSeq, fileReadSeq, rd>>
        /\ build'[p].startSeq = requestSeq /\ build'[p].kind = "filereads"
        /\ requestSeq' = requestSeq
    BY <1>1, <1>2 DEF StartFileReads, Builds, pageVars, Alone
  <2>2. Solo(p)'
    BY <1>1, <2>1 DEF Solo, SoloRead, Unread, SoloBuild, SoloList, Listing, IsListing, ReadPcs,
                      FreshPcs, ScanPcs
  <2>3. \A f \in Files : fileReadSeq'[f] <= readSeq'
    BY <2>1 DEF SoloInv
  <2> QED
    BY <1>1, <2>2, <2>3, AloneSolo
<1>3. CASE \E f \in Files : NextFile(p, f)
  <2>1. PICK f \in Files : NextFile(p, f)
    BY <1>3
  <2>2. /\ pc[p] = "collect" /\ pc'[p] = "stat" /\ readSeq' = readSeq + 1
        /\ fileReadSeq' = fileReadSeq /\ rd'[p].file = f /\ rd'[p].seq = readSeq + 1
        /\ build'[p].startSeq = build[p].startSeq /\ build'[p].listingSeq = build[p].listingSeq
        /\ build'[p].reads = build[p].reads /\ build'[p].kind = build[p].kind
    <3>1. /\ pc[p] = "collect" /\ pc'[p] = "stat" /\ readSeq' = readSeq + 1
          /\ fileReadSeq' = fileReadSeq
      BY <1>1, <2>1 DEF NextFile, pageVars
    <3>2. /\ build \in [Procs -> Builds] /\ rd \in [Procs -> FileReads]
          /\ rd' = [rd EXCEPT ![p].file = f, ![p].seq = readSeq + 1]
          /\ build' = [build EXCEPT ![p].todo = @ \ {f}]
      BY <1>1, <2>1 DEF NextFile
    <3>3. rd'[p].file = f /\ rd'[p].seq = readSeq + 1
      BY <3>2 DEF FileReads
    <3>4. /\ build'[p].startSeq = build[p].startSeq /\ build'[p].kind = build[p].kind
          /\ build'[p].listingSeq = build[p].listingSeq /\ build'[p].reads = build[p].reads
      BY <3>2 DEF Builds
    <3> QED
      BY <3>1, <3>3, <3>4
  <2>3. ASSUME NEW g \in Files
        PROVE  /\ fileReadSeq'[g] \in Nat /\ fileReadSeq'[g] <= readSeq
               /\ fileReadSeq'[g] <= readSeq'
    BY <1>1, <2>2, SoloTypes DEF SoloInv
  <2>4. SoloRead(p)' /\ Unread(p)' /\ SoloBuild(p)'
    BY <1>1, <2>2, <2>3 DEF Alone, Solo, SoloRead, Unread, SoloBuild, ReadPcs, FreshPcs, ScanPcs
  <2>5. ASSUME Listing(p)' PROVE SoloList(p)'
    <3>1. Listing(p)
      BY <1>1, <2>2, <2>5 DEF Listing, IsListing, ListPcs, Alone
    <3>2. /\ build[p].listingSeq <= readSeq /\ build[p].listingSeq \in Nat
          /\ \A g \in Files : /\ fileReadSeq[g] < build[p].listingSeq /\ build[p].reads[g].seq \in Nat
                              /\ build[p].reads[g].seq > 0 =>
                                   build[p].reads[g].seq \in (build[p].listingSeq + 1) .. readSeq
      BY <1>1, <3>1, SoloTypes DEF Solo, SoloList
    <3>3. build'[p].listingSeq <= readSeq' /\ rd'[p].seq > build'[p].listingSeq
      BY <1>1, <2>2, <3>2
    <3>4. \A g \in Files : build'[p].reads[g].seq > 0 =>
            build'[p].reads[g].seq \in (build'[p].listingSeq + 1) .. readSeq'
      BY <1>1, <2>2, <3>2
    <3> QED
      BY <2>2, <3>2, <3>3, <3>4 DEF SoloList
  <2>6. Solo(p)'
    BY <2>4, <2>5 DEF Solo, SoloList
  <2> QED
    BY <1>1, <2>3, <2>6, AloneSolo
<1> QED
  BY <1>2, <1>3

\* A finished read keeps its number.
LEMMA DeliverSolo ==
  ASSUME Inv, SoloInv, NEW p \in Procs, NEW r \in FileReads, pc[p] \in {"stat", "read"},
         r.file = rd[p].file, r.seq = rd[p].seq, Deliver(p, r), Alone(p),
         UNCHANGED <<readSeq, fileReadSeq>>
  PROVE  SoloInv'
<1>1. /\ pc \in [Procs -> Pcs] /\ build \in [Procs -> Builds] /\ rd \in [Procs -> FileReads]
      /\ readSeq \in Nat /\ requestSeq \in Nat /\ Solo(p) /\ build[p].listingSeq \in Nat
  BY SoloTypes DEF SoloInv
<1>2. /\ inflight = p /\ r.seq \in 1 .. readSeq /\ r.file \in Files
      /\ fileReadSeq[r.file] <= r.seq
  BY <1>1, VisTypes DEF Solo, SoloRead, ReadPcs
<1>3. CASE IsListing(p)
  <2>1. /\ build' = [build EXCEPT ![p].reads[r.file] =
                        [seq |-> r.seq, fp |-> r.fp, page |-> r.page]]
        /\ pc' = [pc EXCEPT ![p] = IF build[p].todo = {} THEN "merge" ELSE "collect"]
    BY <1>3 DEF Deliver
  <2>2. build[p].reads \in [Files -> [seq : Nat, fp : Fps, page : Pages]]
    BY <1>1 DEF Builds
  <2>3. /\ build'[p].startSeq = build[p].startSeq /\ build'[p].listingSeq = build[p].listingSeq
        /\ build'[p].kind = build[p].kind /\ build'[p].todo = build[p].todo
        /\ build'[p].reads = [build[p].reads EXCEPT ![r.file] =
                                [seq |-> r.seq, fp |-> r.fp, page |-> r.page]]
    BY <1>1, <2>1 DEF Builds
  <2>4. /\ pc'[p] \in {"merge", "collect"} /\ (pc'[p] = "merge" => build'[p].todo = {})
    BY <1>1, <2>1, <2>3
  <2>5. Listing(p) /\ r.seq > build[p].listingSeq /\ build[p].kind # "filereads"
    BY <1>1, <1>3 DEF Listing, IsListing, ListPcs, ReadPcs, Solo, SoloList
  <2>6. ASSUME NEW g \in Files, build'[p].reads[g].seq > 0
        PROVE  build'[p].reads[g].seq \in (build[p].listingSeq + 1) .. readSeq
    <3>1. CASE g = r.file
      BY <1>1, <1>2, <2>2, <2>3, <2>5, <3>1
    <3>2. CASE g # r.file
      BY <1>1, <2>2, <2>3, <2>5, <2>6, <3>2 DEF Solo, SoloList
    <3> QED
      BY <3>1, <3>2
  <2>7. Solo(p)'
    BY <1>1, <2>3, <2>4, <2>5, <2>6 DEF Alone, Solo, SoloRead, Unread, SoloBuild, SoloList,
                      ReadPcs, FreshPcs, ScanPcs
  <2>8. \A f \in Files : fileReadSeq'[f] <= readSeq'
    BY DEF SoloInv
  <2> QED
    BY <2>7, <2>8, AloneSolo
<1>4. CASE ~IsListing(p)
  <2>1. build' = build /\ rd'[p] = r /\ pc'[p] = "apply"
    BY <1>1, <1>4 DEF Deliver
  <2>2. build[p].kind = "filereads"
    BY <1>2, <1>4 DEF IsListing
  <2>3. Solo(p)'
    BY <1>1, <1>2, <2>1, <2>2 DEF Alone, Solo, SoloRead, Unread, SoloBuild, SoloList, Listing,
                      IsListing, FreshPcs, ScanPcs
  <2>4. \A f \in Files : fileReadSeq'[f] <= readSeq'
    BY DEF SoloInv
  <2> QED
    BY <2>3, <2>4, AloneSolo
<1> QED
  BY <1>3, <1>4

\* The stat and the read of one file.
LEMMA ReadSolo ==
  ASSUME Inv, SoloInv, NEW p \in Procs, StatFile(p) \/ ReadFile(p)
  PROVE  SoloInv'
<1>1. /\ pc \in [Procs -> Pcs] /\ build \in [Procs -> Builds] /\ rd \in [Procs -> FileReads]
      /\ readSeq \in Nat /\ Alone(p) /\ Solo(p)
  BY SoloTypes, BuildAlone DEF BuildStep, SoloInv
<1>2. /\ pc[p] \in {"stat", "read"} /\ UNCHANGED <<readSeq, fileReadSeq>> /\ rd[p].file \in Files
  BY VisTypes DEF StatFile, ReadFile, pageVars, ReadPcs
<1>3. Stat(rd[p].file) \in Fps /\ ZeroFp \in Fps
  BY <1>2, DiskTypes, PageIndexAssumption DEF Stat, Fps, ZeroFp, Inv, TypeOK
<1>4. PageAt(rd[p].file, Version(rd[p].file)) \in Pages
  BY <1>2, VisTypes, PageIndexAssumption DEF PageAt, Pages, NoPage
<1>5. CASE StatFile(p) /\ Stat(rd[p].file) = ZeroFp
  <2> DEFINE r == [rd[p] EXCEPT !.fp = ZeroFp]
  <2>1. r \in FileReads /\ r.file = rd[p].file /\ r.seq = rd[p].seq
    BY <1>1, <1>3 DEF FileReads
  <2>2. Deliver(p, r)
    BY <1>5 DEF StatFile
  <2> HIDE DEF r
  <2> QED
    BY <1>1, <1>2, <2>1, <2>2, DeliverSolo
<1>6. CASE StatFile(p) /\ Stat(rd[p].file) # ZeroFp
  <2>1. /\ pc[p] = "stat" /\ pc'[p] = "read" /\ build' = build
        /\ rd'[p].file = rd[p].file /\ rd'[p].seq = rd[p].seq
    BY <1>1, <1>6 DEF StatFile, FileReads
  <2>2. Solo(p)'
    BY <1>1, <1>2, <2>1 DEF Alone, Solo, SoloRead, Unread, SoloBuild, SoloList, Listing, IsListing,
                      ListPcs, ReadPcs, FreshPcs, ScanPcs
  <2>3. \A f \in Files : fileReadSeq'[f] <= readSeq'
    BY <1>2 DEF SoloInv
  <2> QED
    BY <1>1, <2>2, <2>3, AloneSolo
<1>7. CASE ReadFile(p)
  <2>1. PICK r \in {[rd[p] EXCEPT !.page = PageAt(rd[p].file, Version(rd[p].file))], rd[p]} :
               Deliver(p, r)
    BY <1>7 DEF ReadFile
  <2>2. r \in FileReads /\ r.file = rd[p].file /\ r.seq = rd[p].seq
    BY <1>1, <1>4, <2>1 DEF FileReads
  <2> QED
    BY <1>1, <1>2, <2>1, <2>2, DeliverSolo
<1> QED
  BY <1>5, <1>6, <1>7

\* executeFileReads applies one of its reads.
LEMMA ApplySolo ==
  ASSUME Inv, SoloInv, NEW p \in Procs, ApplyFileRead(p)
  PROVE  SoloInv'
<1>1. /\ pc \in [Procs -> Pcs] /\ build \in [Procs -> Builds] /\ rd \in [Procs -> FileReads]
      /\ readSeq \in Nat /\ Alone(p) /\ Solo(p) /\ pc[p] = "apply" /\ rd[p].file \in Files
      /\ fileReadSeq \in [Files -> Nat]
  BY SoloTypes, BuildAlone, VisTypes
     DEF BuildStep, SoloInv, ApplyFileRead, ReadPcs, Inv, TypeOK, PageTypeOK
<1>2. /\ pc'[p] \in {"release", "collect"} /\ readSeq' = readSeq
      /\ build'[p].startSeq = build[p].startSeq /\ build'[p].kind = build[p].kind
  BY <1>1 DEF ApplyFileRead, Builds, Alone
<1>3. fileReadSeq' \in {fileReadSeq, [fileReadSeq EXCEPT ![rd[p].file] = rd[p].seq]}
  BY DEF ApplyFileRead
<1>4. rd[p].seq \in 1 .. readSeq /\ build[p].kind = "filereads"
  BY <1>1 DEF Solo, SoloRead, ReadPcs
<1>5. \A f \in Files : fileReadSeq'[f] <= readSeq'
  BY <1>1, <1>2, <1>3, <1>4 DEF SoloInv
<1>6. Solo(p)'
  BY <1>1, <1>2, <1>4 DEF Alone, Solo, SoloRead, Unread, SoloBuild, SoloList, Listing, IsListing,
                    ReadPcs, FreshPcs, ScanPcs
<1> QED
  BY <1>1, <1>5, <1>6, AloneSolo

\* release is outside the builds: it wakes the waiters and promotes a follow-up that has
\* read nothing.
LEMMA ReleaseAside ==
  ASSUME Inv, SoloInv, NEW p \in Procs, Release(p)
  PROVE  /\ Aside /\ inflight = p /\ inflight' = followUp /\ followUp' = None
         /\ pc'[p] \in {"persist", "return", "loop"}
         /\ \A q \in Procs \ {p} :
              \/ pc[q] = "wait" /\ call[q].on = p /\ pc'[q] \in {"return", "loop"}
              \/ q = followUp /\ pc[q] = "queued" /\ pc'[q] = "start"
              \/ /\ ~(pc[q] = "wait" /\ call[q].on = p) /\ q # followUp
                 /\ pc'[q] = pc[q] /\ build'[q] = build[q]
<1>1. /\ pc \in [Procs -> Pcs] /\ build \in [Procs -> Builds] /\ SingleFlight
      /\ requestSeq \in Nat
  BY DEF Inv, TypeOK, ProcTypeOK, MarkTypeOK
<1>2. /\ pc[p] = "release" /\ inflight = p /\ inflight' = followUp /\ followUp' = None
      /\ UNCHANGED <<readSeq, fileReadSeq, snapshot, requestSeq, rd>>
  BY <1>1, Owner DEF Release, pageVars, markVars, OwnerPcs
<1>3. pc'[p] \in {"persist", "return", "loop"} /\ followUp # p
  BY <1>1, <1>2, AfterAwaitPcs, PageIndexAssumption DEF Release, SingleFlight
<1>4. ASSUME NEW q \in Procs \ {p}
      PROVE  \/ pc[q] = "wait" /\ call[q].on = p /\ pc'[q] \in {"return", "loop"} /\ q # followUp
             \/ /\ q = followUp /\ pc[q] = "queued" /\ pc'[q] = "start"
                /\ build'[q] = [build[q] EXCEPT !.startSeq = requestSeq]
             \/ /\ ~(pc[q] = "wait" /\ call[q].on = p) /\ q # followUp
                /\ pc'[q] = pc[q] /\ build'[q] = build[q]
  <2>1. q = followUp => pc[q] = "queued"
    BY <1>1 DEF SingleFlight
  <2>2. PICK pages : pc'[q] = IF pc[q] = "wait" /\ call[q].on = p
                                THEN AfterAwait(Awaited(q, build[p], pages))
                                ELSE IF q = followUp THEN "start" ELSE pc[q]
    BY DEF Release
  <2>3. AfterAwait(Awaited(q, build[p], pages)) \in {"return", "loop"}
    BY AfterAwaitPcs
  <2>4. build'[q] = IF q = followUp THEN [build[q] EXCEPT !.startSeq = requestSeq] ELSE build[q]
    BY DEF Release
  <2> QED
    BY <2>1, <2>2, <2>3, <2>4
<1>5. ASSUME NEW q \in Procs
      PROVE  \/ /\ pc'[q] = pc[q] /\ build'[q] = build[q] /\ rd'[q] = rd[q]
                /\ inflight' = q <=> inflight = q
             \/ pc'[q] \notin RunPcs \cup FreshPcs /\ inflight' # q
             \/ /\ pc'[q] \in {"start", "queued"} /\ build'[q].startSeq <= requestSeq'
                /\ \A f \in Files : build'[q].reads[f].seq = 0
  <2>1. CASE q = p \/ (q # followUp /\ pc'[q] \in {"return", "loop"})
    BY <1>2, <1>3, <2>1 DEF RunPcs, ListPcs, ReadPcs, FreshPcs
  <2>2. CASE /\ q # p /\ q = followUp /\ pc[q] = "queued" /\ pc'[q] = "start"
             /\ build'[q] = [build[q] EXCEPT !.startSeq = requestSeq]
    <3>1. build'[q].startSeq = requestSeq /\ build'[q].reads = build[q].reads
      BY <1>1, <2>2 DEF Builds
    <3>2. \A f \in Files : build[q].reads[f].seq = 0
      BY <2>2 DEF SoloInv, Solo, Unread, FreshPcs
    <3> QED
      BY <1>1, <1>2, <2>2, <3>1, <3>2
  <2>3. CASE q # p /\ q # followUp /\ pc'[q] = pc[q] /\ build'[q] = build[q]
    BY <1>2, <2>3
  <2> QED
    BY <1>4, <2>1, <2>2, <2>3
<1>6. requestSeq' \in Nat /\ requestSeq' >= requestSeq
  BY <1>1, <1>2
<1>7. Aside
  BY <1>2, <1>5, <1>6 DEF Aside
<1> QED
  BY <1>2, <1>3, <1>4, <1>7

\* An index that was just constructed runs nothing.
LEMMA EmptySolo ==
  /\ Init => SoloInv
  /\ Crash => SoloInv'
<1>1. ASSUME Init PROVE SoloInv
  <2>1. /\ readSeq = 0 /\ inflight = None /\ \A q \in Procs : pc[q] = "idle"
        /\ \A f \in Files : fileReadSeq[f] = 0
    BY <1>1 DEF Init, EmptyIndex
  <2> QED
    BY <2>1, PageIndexAssumption DEF SoloInv, Solo, SoloRead, Unread, SoloBuild, SoloList, Listing,
                    ListPcs, ReadPcs, FreshPcs, ScanPcs
<1>2. ASSUME Crash PROVE SoloInv'
  <2>1. /\ readSeq' = 0 /\ inflight' = None /\ \A q \in Procs : pc'[q] = "idle"
        /\ \A f \in Files : fileReadSeq'[f] = 0
    BY <1>2 DEF Crash, EmptyIndex
  <2> QED
    BY <2>1, PageIndexAssumption DEF SoloInv, Solo, SoloRead, Unread, SoloBuild, SoloList, Listing,
                    ListPcs, ReadPcs, FreshPcs, ScanPcs
<1> QED
  BY <1>1, <1>2

\* A step is one of the running build, the end of a build, a crash, or outside.
LEMMA StepShape ==
  ASSUME Inv, [Next]_vars, \A p \in Procs : ~WarmRead(p)
  PROVE  \/ \E p \in Procs : BuildStep(p) \/ Release(p) \/ Acquire(p) \/ CallStep(p)
         \/ QuietStep \/ Crash
<1>1. ASSUME NEW p \in Procs, Begin(p) PROVE CallStep(p)
  BY <1>1, PageIndexAssumption DEF Begin, WarmRead, CallStep
<1>2. ASSUME NEW p \in Procs, Step(p)
      PROVE  BuildStep(p) \/ Release(p) \/ Acquire(p) \/ CallStep(p)
  BY <1>2 DEF Step, BuildStep, CallStep
<1>3. ASSUME NEW p \in Procs, Cancel(p) PROVE CallStep(p)
  BY <1>3 DEF CallStep
<1> QED
  BY <1>1, <1>2, <1>3 DEF Next, Environment, QuietStep

\* While no event is read, the build's reads stay the latest.
LEMMA NextSolo ==
  ASSUME Inv, SoloInv, [Next]_vars, \A p \in Procs : ~WarmRead(p)
  PROVE  SoloInv'
<1>1. ASSUME NEW p \in Procs, BuildStep(p) PROVE SoloInv'
  BY <1>1, StartSolo, ListSolo, MergeSolo, TakeSolo, ReadSolo, ApplySolo DEF BuildStep
<1>2. ASSUME NEW p \in Procs, Release(p) \/ Acquire(p) \/ CallStep(p) PROVE SoloInv'
  BY <1>2, ReleaseAside, AcquireAside, CallAside, AsideSolo
<1>3. ASSUME QuietStep PROVE SoloInv'
  BY <1>3, QuietAside, AsideSolo
<1> QED
  BY <1>1, <1>2, <1>3, StepShape, EmptySolo

\* A page that shows the file as it is, or could not be read, is as recent as anybody asks.
LEMMA RecentNow ==
  ASSUME Inv, NEW f \in Files, NEW v \in 1 .. Version(f), NEW pg,
         disk' = disk, pg = PageAt(f, Version(f)) \/ ReadFailed(pg)'
  PROVE  Recent(pg, f, v)'
<1>1. Version(f) \in Nat /\ Version(f)' = Version(f)
  BY VisTypes DEF Version
<1>2. CASE pg = PageAt(f, Version(f))
  BY <1>1, <1>2 DEF Recent, Shows, PageAt, Version
<1> QED
  BY <1>2 DEF Recent

\* A file that is not there is shown by no page.
LEMMA AbsentNow ==
  ASSUME Inv, NEW f \in Files, NEW v \in 1 .. Version(f), disk' = disk, Now(f) = "gone"
  PROVE  Recent(NoPage, f, v)'
<1>1. NoPage = PageAt(f, Version(f))
  BY DEF PageAt, Now
<1> QED
  BY <1>1, RecentNow

\* The stakes of a build are pages.
LEMMA StakesPages ==
  ASSUME NEW p, NEW f, NEW pg \in Stakes(p, f)
  PROVE  pg \in Pages
BY DEF Stakes

\* A build honours what it did if what it relies on now it relied on before, or has just
\* looked up.
LEMMA HonoursStay ==
  ASSUME Grows, NEW p \in Procs, NEW f \in Files, NEW v \in 1 .. Version(f), Honours(p, f, v),
         \A pg \in Stakes(p, f)' : pg \in Stakes(p, f) \/ Recent(pg, f, v)',
         build'[p].kind # "filereads" /\ pc'[p] = "diff" /\ f \in build'[p].names =>
           build'[p].fps[f] = ZeroFp \/ build'[p].fps[f] >= v
  PROVE  Honours(p, f, v)'
<1>1. ASSUME NEW pg \in Stakes(p, f)' PROVE Recent(pg, f, v)'
  <2>1. CASE pg \in Stakes(p, f)
    BY <2>1, StakesPages DEF Honours, Grows
  <2> QED
    BY <2>1
<1> QED
  BY <1>1 DEF Honours

\* A step outside the build changes nothing of what it relies on.
LEMMA AsideHonours ==
  ASSUME Inv, Grows, Aside, NEW p \in Procs, Runs(p)'
  PROVE  /\ Runs(p) /\ pc'[p] = pc[p] /\ build'[p] = build[p]
         /\ \A f \in Files : \A v \in 1 .. Version(f) : Honours(p, f, v) => Honours(p, f, v)'
<1>1. pc'[p] \in RunPcs /\ inflight' = p
  BY DEF Runs
<1>2. /\ pc'[p] = pc[p] /\ build'[p] = build[p] /\ rd'[p] = rd[p] /\ inflight = p
      /\ snapshot' = snapshot
  BY <1>1 DEF Aside, RunPcs, ListPcs, ReadPcs
<1>3. Runs(p)
  BY <1>1, <1>2 DEF Runs
<1>4. ASSUME NEW f \in Files, NEW v \in 1 .. Version(f), Honours(p, f, v)
      PROVE  Honours(p, f, v)'
  <2>1. Stakes(p, f)' = Stakes(p, f)
    BY <1>2 DEF Stakes, Unseen
  <2>2. build'[p].kind # "filereads" /\ pc'[p] = "diff" /\ f \in build'[p].names =>
           build'[p].fps[f] = ZeroFp \/ build'[p].fps[f] >= v
    BY <1>2, <1>4 DEF Honours
  <2> QED
    BY <1>4, <2>1, <2>2, HonoursStay
<1> QED
  BY <1>2, <1>3, <1>4

\* A listing starts without relying on anything.
LEMMA StartListingHonours ==
  ASSUME Inv, SoloInv, NEW p \in Procs, StartListing(p)
  PROVE  /\ Runs(p)' /\ build'[p].kind # "filereads" /\ build'[p].startSeq = requestSeq
         /\ pc'[p] = "readdir" /\ \A f \in Files : \A v : Honours(p, f, v)'
<1>1. /\ pc \in [Procs -> Pcs] /\ build \in [Procs -> Builds] /\ Alone(p) /\ Solo(p)
  BY SoloTypes, BuildAlone DEF BuildStep, SoloInv
<1>2. /\ pc'[p] = "readdir" /\ build'[p].kind = build[p].kind /\ build'[p].startSeq = requestSeq
  BY <1>1 DEF StartListing, Builds
<1>3. build[p].kind # "filereads"
  BY <1>1 DEF StartListing, Solo, Unread, ScanPcs
<1>4. ASSUME NEW f \in Files PROVE Stakes(p, f)' = {}
  BY <1>2, <1>3 DEF Stakes, ReadingPcs, ReadPcs
<1>5. ASSUME NEW f \in Files, NEW v PROVE Honours(p, f, v)'
  BY <1>2, <1>4 DEF Honours
<1>6. Runs(p)'
  BY <1>1, <1>2 DEF Runs, RunPcs, ListPcs, Alone
<1> QED
  BY <1>2, <1>3, <1>5, <1>6

\* A re-read of the marked files relies on the snapshot for the others.
LEMMA StartFileReadsHonours ==
  ASSUME Inv, SoloInv, Grows, NEW p \in Procs, StartFileReads(p)
  PROVE  /\ Runs(p)' /\ build'[p].kind = "filereads" /\ build'[p].startSeq = requestSeq
         /\ \A f \in Files : \A v \in 1 .. Version(f) :
              writeMarked[f] > 0 \/ Recent(snapshot[f], f, v) => Honours(p, f, v)'
<1>1. /\ pc \in [Procs -> Pcs] /\ build \in [Procs -> Builds] /\ Alone(p)
  BY SoloTypes, BuildAlone DEF BuildStep, SoloInv
<1>2. /\ pc'[p] \in {"release", "collect"} /\ build'[p].kind = "filereads"
      /\ build'[p].startSeq = requestSeq /\ build'[p].todo = MarkedFiles /\ snapshot' = snapshot
      /\ pc'[p] = "release" => MarkedFiles = {}
  BY <1>1 DEF StartFileReads, Builds, pageVars
<1>3. ASSUME NEW f \in Files, NEW v \in 1 .. Version(f),
             writeMarked[f] > 0 \/ Recent(snapshot[f], f, v)
      PROVE  Honours(p, f, v)'
  <2>1. ASSUME NEW pg \in Stakes(p, f)' PROVE Recent(pg, f, v)'
    <3>1. pg \in Pages /\ pg = snapshot[f] /\ f \notin MarkedFiles
      BY <1>2, <2>1 DEF Stakes, Unseen, ReadPcs
    <3>2. ~(writeMarked[f] > 0)
      BY <3>1 DEF MarkedFiles
    <3> QED
      BY <1>3, <3>1, <3>2 DEF Grows
  <2> QED
    BY <1>2, <2>1 DEF Honours
<1>4. Runs(p)'
  BY <1>1, <1>2 DEF Runs, RunPcs, ListPcs, Alone
<1> QED
  BY <1>2, <1>3, <1>4

\* What a finished build publishes it relies on.
LEMMA ReleaseStakes ==
  ASSUME Inv, NEW p \in Procs, NEW f \in Files, NEW v, Honours(p, f, v), pc[p] = "release",
         ~build[p].err
  PROVE  /\ Recent(snapshot[f], f, v)
         /\ build[p].kind # "filereads" => Recent(build[p].pages[f], f, v)
<1>1. /\ snapshot[f] \in Pages /\ build[p].pages[f] \in Pages
  <2>1. build[p].pages \in [Files -> Pages]
    BY DEF Inv, TypeOK, ProcTypeOK, Builds
  <2> QED
    BY <2>1, VisTypes
<1>2. /\ snapshot[f] \in Stakes(p, f)
      /\ build[p].kind # "filereads" => build[p].pages[f] \in Stakes(p, f)
  BY <1>1 DEF Stakes
<1> QED
  BY <1>2 DEF Honours

\* ReadDir and StatDir: an unlisted file is gone, and a fingerprint is the file's latest.
LEMMA ListFilesHonours ==
  ASSUME Inv, SoloInv, Grows, NEW p \in Procs, ReadDir(p) \/ StatDir(p),
         NEW f \in Files, NEW v \in 1 .. Version(f), Honours(p, f, v)
  PROVE  Honours(p, f, v)'
<1>1. /\ pc \in [Procs -> Pcs] /\ build \in [Procs -> Builds] /\ disk' = disk
      /\ Version(f) \in Nat /\ v \in Nat /\ v <= Version(f) /\ Version(f) > 0
  BY VisTypes, SoloTypes DEF ReadDir, StatDir, diskVars
<1>2. CASE ReadDir(p)
  <2>1. /\ pc'[p] = "statdir" /\ build'[p].names = {g \in Files : Now(g) # "gone"}
        /\ build'[p].kind = build[p].kind /\ pc[p] = "readdir"
    BY <1>1, <1>2 DEF ReadDir, Builds
  <2>2. build[p].kind # "filereads"
    BY <2>1 DEF SoloInv, Solo, Unread, ScanPcs
  <2>3. ASSUME NEW pg \in Stakes(p, f)' PROVE Recent(pg, f, v)'
    <3>1. pg = NoPage /\ f \notin build'[p].names
      BY <2>1, <2>2, <2>3 DEF Stakes, ReadingPcs, ReadPcs
    <3> QED
      BY <1>1, <2>1, <3>1, AbsentNow
  <2> QED
    BY <2>1, <2>3, HonoursStay
<1>3. CASE StatDir(p)
  <2>1. /\ pc'[p] = "diff" /\ pc[p] = "statdir" /\ build'[p].names = build[p].names
        /\ build'[p].kind = build[p].kind
        /\ f \in build[p].names => build'[p].fps[f] = Stat(f)
    BY <1>1, <1>3 DEF StatDir, Builds
  <2>2. build[p].kind # "filereads"
    BY <2>1 DEF SoloInv, Solo, Unread, ScanPcs
  <2>3. Stat(f) = ZeroFp => Now(f) = "gone"
    BY <1>1 DEF Stat, ZeroFp
  <2>4. Stat(f) = ZeroFp \/ Stat(f) >= v
    BY <1>1 DEF Stat
  <2>5. ASSUME NEW pg \in Stakes(p, f)' PROVE pg \in Stakes(p, f) \/ Recent(pg, f, v)'
    <3>1. /\ pg \in Pages /\ pg = NoPage
          /\ f \notin build[p].names \/ build'[p].fps[f] = ZeroFp
      BY <2>1, <2>2, <2>5 DEF Stakes, ReadingPcs, ReadPcs
    <3>2. CASE f \notin build[p].names
      BY <2>1, <2>2, <3>1, <3>2 DEF Stakes, ListPcs
    <3>3. CASE f \in build[p].names
      BY <1>1, <2>1, <2>3, <3>1, <3>3, AbsentNow
    <3> QED
      BY <3>2, <3>3
  <2> QED
    BY <2>1, <2>4, <2>5, HonoursStay
<1> QED
  BY <1>2, <1>3

\* A listed file that the comparison leaves out is shown as it was when the listing looked.
LEMMA DiffRecent ==
  ASSUME Inv, HonestInv, SoloInv, NEW p \in Procs, pc[p] = "diff", NEW f \in Files,
         f \in build[p].names, fingerprints[f] = build[p].fps[f],
         NEW v \in 1 .. Version(f), Honours(p, f, v)
  PROVE  Recent(snapshot[f], f, v)
<1>1. /\ Version(f) \in Nat /\ v \in Nat /\ v > 0 /\ fingerprints[f] \in Int
      /\ Good(f, fingerprints[f], snapshot[f]) /\ build[p].kind # "filereads"
  BY VisTypes, PageIndexAssumption
     DEF HonestInv, PagesGood, SoloInv, Solo, Unread, ScanPcs, Fps
<1>2. CASE build[p].fps[f] = ZeroFp
  <2>1. snapshot[f] = NoPage
    BY <1>1, <1>2 DEF Good, ZeroFp
  <2>2. NoPage \in Stakes(p, f)
    BY <1>1, <1>2, PageIndexAssumption DEF Stakes, Pages, NoPage
  <2> QED
    BY <2>1, <2>2 DEF Honours
<1>3. CASE build[p].fps[f] # ZeroFp
  <2>1. fingerprints[f] >= v
    BY <1>1, <1>3 DEF Honours
  <2>2. Shows(snapshot[f], f, fingerprints[f]) \/ ReadFailed(snapshot[f])
    BY <1>1, <2>1 DEF Good, ZeroFp
  <2> QED
    BY <1>1, <2>1, <2>2 DEF Recent, Shows
<1> QED
  BY <1>2, <1>3

\* The unchanged pass compares two counts and the listed names' fingerprints: together they
\* leave no recorded name unlisted.
LEMMA SameNames ==
  ASSUME Inv, SoloInv, NEW p \in Procs, pc[p] = "diff", ToRead(build[p]) = {},
         Cardinality(build[p].names) = Cardinality(Recorded)
  PROVE  build[p].names = Recorded
<1>1. build[p].names \subseteq Files
  BY DEF Inv, TypeOK, ProcTypeOK, Builds
<1>2. ASSUME NEW g \in build[p].names PROVE fingerprints[g] # NoFp
  <2>1. fingerprints[g] = build[p].fps[g]
    BY DEF ToRead
  <2>2. build[p].fps[g] # NoFp
    BY DEF SoloInv, Solo, SoloBuild
  <2> QED
    BY <2>1, <2>2
<1>3. Recorded \in SUBSET Files /\ build[p].names \in SUBSET Recorded
  BY <1>1, <1>2 DEF Recorded
<1>4. IsFiniteSet(Recorded)
  BY <1>3, FilesAssumption, FS_Subset
<1> QED
  BY <1>3, <1>4, FS_Subset

\* Diff keeps what the listing honours: what it leaves out the snapshot shows.
LEMMA DiffHonours ==
  ASSUME Inv, HonestInv, SoloInv, Grows, NEW p \in Procs, Diff(p),
         NEW f \in Files, NEW v \in 1 .. Version(f), Honours(p, f, v)
  PROVE  Honours(p, f, v)'
<1> DEFINE todo == IF build[p].full THEN build[p].names ELSE ToRead(build[p])
<1>1. /\ pc \in [Procs -> Pcs] /\ build \in [Procs -> Builds] /\ snapshot' = snapshot
      /\ pc[p] = "diff" /\ snapshot[f] \in Pages
  BY VisTypes, SoloTypes DEF Diff, pageVars
<1>2. /\ build[p].kind # "filereads" /\ build[p].reads[f].seq = 0
  BY <1>1 DEF SoloInv, Solo, Unread, ScanPcs, SoloBuild
<1>3. CASE pc'[p] = "release"
  <2>1. /\ ToRead(build[p]) = {} /\ Cardinality(build[p].names) = Cardinality(Recorded)
        /\ build' = [build EXCEPT ![p].pages = snapshot]
    BY <1>1, <1>3 DEF Diff
  <2>2. build'[p].pages = snapshot /\ build'[p].kind = build[p].kind
    BY <1>1, <2>1 DEF Builds
  <2>3. Recent(snapshot[f], f, v)
    <3>1. CASE f \in build[p].names
      <4>1. fingerprints[f] = build[p].fps[f]
        BY <2>1, <3>1 DEF ToRead
      <4> QED
        BY <1>1, <3>1, <4>1, DiffRecent
    <3>2. CASE f \notin build[p].names
      <4>1. fingerprints[f] = NoFp
        BY <1>1, <2>1, <3>2, SameNames DEF Recorded
      <4>2. Good(f, fingerprints[f], snapshot[f])
        BY DEF HonestInv, PagesGood
      <4>3. snapshot[f] = NoPage
        BY <4>1, <4>2 DEF Good, NoFp, ZeroFp
      <4>4. NoPage \in Stakes(p, f)
        BY <1>1, <1>2, <3>2, <4>3 DEF Stakes, ListPcs
      <4> QED
        BY <4>3, <4>4 DEF Honours
    <3> QED
      BY <3>1, <3>2
  <2>4. ASSUME NEW pg \in Stakes(p, f)' PROVE Recent(pg, f, v)'
    <3>1. pg = snapshot[f]
      BY <1>1, <1>2, <1>3, <2>2, <2>4 DEF Stakes, ReadingPcs, ReadPcs, ListPcs
    <3> QED
      BY <1>1, <2>3, <3>1 DEF Grows
  <2> QED
    BY <1>3, <2>4, HonoursStay
<1>4. CASE pc'[p] # "release"
  <2>1. /\ build' = [build EXCEPT ![p].todo = todo, ![p].forced = {}, ![p].fps = NoBuild.fps]
        /\ pc' = [pc EXCEPT ![p] = IF todo = {} THEN "merge" ELSE "collect"]
    BY <1>1, <1>4 DEF Diff
  <2> HIDE DEF todo
  <2>2. /\ build'[p].todo = todo /\ build'[p].names = build[p].names
        /\ build'[p].reads = build[p].reads /\ build'[p].kind = build[p].kind
    BY <1>1, <2>1 DEF Builds
  <2>3. pc'[p] \in {"merge", "collect"}
    BY <1>1, <2>1
  <2>4. ASSUME NEW pg \in Stakes(p, f)' PROVE pg \in Stakes(p, f) \/ Recent(pg, f, v)'
    <3>1. CASE f \notin build[p].names
      <4>1. pg = NoPage /\ pg \in Pages
        BY <1>2, <2>2, <2>3, <2>4, <3>1 DEF Stakes
      <4> QED
        BY <1>1, <1>2, <3>1, <4>1 DEF Stakes, ListPcs
    <3>2. CASE f \in build[p].names
      <4>1. pg = snapshot[f] /\ f \notin todo
        BY <1>1, <1>2, <2>2, <2>3, <2>4, <3>2 DEF Stakes, Unseen
      <4>2. fingerprints[f] = build[p].fps[f]
        BY <3>2, <4>1 DEF todo, ToRead
      <4>3. Recent(snapshot[f], f, v)
        BY <1>1, <3>2, <4>2, DiffRecent
      <4> QED
        BY <1>1, <4>1, <4>3 DEF Grows
    <3> QED
      BY <3>1, <3>2
  <2> QED
    BY <2>3, <2>4, HonoursStay
<1> QED
  BY <1>3, <1>4

\* snapshotMerge takes the listing's own read or its absence, and keeps the snapshot's page
\* only where the listing read nothing.
LEMMA MergeHonours ==
  ASSUME Inv, SoloInv, Grows, NEW p \in Procs, Merge(p),
         NEW f \in Files, NEW v \in 1 .. Version(f), Honours(p, f, v)
  PROVE  Honours(p, f, v)'
<1> DEFINE b == build[p]
<1>1. /\ pc \in [Procs -> Pcs] /\ build \in [Procs -> Builds] /\ Alone(p) /\ Solo(p)
      /\ pc[p] = "merge" /\ snapshot[f] \in Pages /\ b.reads[f].page \in Pages
      /\ fileReadSeq[f] \in Nat /\ b.reads[f].seq \in Nat /\ b.listingSeq \in Nat
  BY VisTypes, SoloTypes, BuildAlone DEF BuildStep, SoloInv, Merge
<1>2. /\ pc'[p] = "release" /\ snapshot' = MergedPages(b)
      /\ build' = [build EXCEPT ![p].pages = MergedPages(b), ![p].delta = ListingDelta(b)]
  BY <1>1 DEF Merge
<1>3. build'[p].pages = MergedPages(b) /\ build'[p].kind = build[p].kind
  BY <1>1, <1>2 DEF Builds
<1>4. build[p].kind # "filereads" /\ build[p].todo = {} /\ Listing(p)
  BY <1>1 DEF Solo, Unread, ScanPcs, SoloBuild, Listing, IsListing, ListPcs, Alone
<1>5. /\ fileReadSeq[f] < b.listingSeq
      /\ b.reads[f].seq > 0 => b.reads[f].seq > b.listingSeq
  BY <1>1, <1>4, VisTypes DEF Solo, SoloList
<1>6. MergedPages(b)[f] \in Stakes(p, f)
  <2>1. CASE f \in b.names /\ b.reads[f].seq > 0
    <3>1. MergedPages(b)[f] = b.reads[f].page
      BY <1>1, <1>5, <2>1 DEF MergedPages, Applied
    <3> QED
      BY <1>1, <1>4, <2>1, <3>1 DEF Stakes, Unseen, ReadingPcs, ReadPcs
  <2>2. CASE f \in b.names /\ ~(b.reads[f].seq > 0)
    <3>1. MergedPages(b)[f] = snapshot[f]
      BY <2>2 DEF MergedPages, Applied, Gone
    <3> QED
      BY <1>1, <1>4, <2>2, <3>1 DEF Stakes, Unseen, ReadingPcs, ReadPcs
  <2>3. CASE f \notin b.names
    <3>1. MergedPages(b)[f] = NoPage /\ NoPage \in Pages
      BY <1>1, <1>5, <2>3, PageIndexAssumption DEF MergedPages, Applied, Gone, NoPage, Pages
    <3> QED
      BY <1>1, <1>4, <2>3, <3>1 DEF Stakes, ListPcs
  <2> QED
    BY <2>1, <2>2, <2>3
<1>7. ASSUME NEW pg \in Stakes(p, f)' PROVE pg \in Stakes(p, f)
  <2>1. pg = MergedPages(b)[f]
    BY <1>2, <1>3, <1>4, <1>7 DEF Stakes, ReadingPcs, ReadPcs, ListPcs
  <2> QED
    BY <1>6, <2>1
<1> QED
  BY <1>2, <1>7, HonoursStay

\* Taking the next file, and its fingerprint, relies on nothing new.
LEMMA NextFileHonours ==
  ASSUME Inv, SoloInv, Grows, NEW p \in Procs, NEW g \in Files, NextFile(p, g),
         NEW f \in Files, NEW v \in 1 .. Version(f), Honours(p, f, v)
  PROVE  Honours(p, f, v)'
<1>1. /\ pc \in [Procs -> Pcs] /\ build \in [Procs -> Builds] /\ rd \in [Procs -> FileReads]
  BY SoloTypes
<1>2. /\ pc[p] = "collect" /\ pc'[p] = "stat" /\ snapshot' = snapshot /\ g \in build[p].todo
      /\ rd' = [rd EXCEPT ![p].file = g, ![p].seq = readSeq + 1]
      /\ build' = [build EXCEPT ![p].todo = @ \ {g}]
  BY <1>1 DEF NextFile, pageVars
<1>3. rd'[p].file = g
  BY <1>1, <1>2 DEF FileReads
<1>4. /\ build'[p].todo = build[p].todo \ {g} /\ build'[p].names = build[p].names
      /\ build'[p].reads = build[p].reads /\ build'[p].kind = build[p].kind
  BY <1>1, <1>2 DEF Builds
<1>5. Unseen(p, f)' <=> Unseen(p, f)
  BY <1>2, <1>3, <1>4 DEF Unseen, ReadPcs
<1>6. ASSUME NEW pg \in Stakes(p, f)' PROVE pg \in Stakes(p, f)
  BY <1>2, <1>4, <1>5, <1>6 DEF Stakes, ReadingPcs, ReadPcs, ListPcs
<1> QED
  BY <1>2, <1>6, HonoursStay

\* A finished read is relied on, and shows the file as it is.
LEMMA DeliverHonours ==
  ASSUME Inv, SoloInv, Grows, NEW p \in Procs, NEW r \in FileReads, pc[p] \in {"stat", "read"},
         r.file = rd[p].file, r.seq = rd[p].seq, Deliver(p, r), UNCHANGED <<disk, snapshot>>,
         r.page = PageAt(r.file, Version(r.file)) \/ ReadFailed(r.page)',
         NEW f \in Files, NEW v \in 1 .. Version(f), Honours(p, f, v)
  PROVE  Honours(p, f, v)'
<1>1. /\ pc \in [Procs -> Pcs] /\ build \in [Procs -> Builds] /\ rd \in [Procs -> FileReads]
      /\ r.seq \in 1 .. readSeq /\ r.seq > 0 /\ inflight = p /\ pc[p] \in ReadPcs
  BY SoloTypes DEF SoloInv, Solo, SoloRead, ReadPcs
<1>2. f = r.file => Recent(r.page, f, v)'
  <2>1. PICK pg : pg = r.page
    OBVIOUS
  <2>2. f = r.file => Recent(pg, f, v)'
    BY <2>1, RecentNow
  <2> QED
    BY <2>1, <2>2
<1>3. CASE IsListing(p)
  <2>1. /\ build' = [build EXCEPT ![p].reads[r.file] =
                        [seq |-> r.seq, fp |-> r.fp, page |-> r.page]]
        /\ pc' = [pc EXCEPT ![p] = IF build[p].todo = {} THEN "merge" ELSE "collect"]
    BY <1>3 DEF Deliver
  <2>2. build[p].reads \in [Files -> [seq : Nat, fp : Fps, page : Pages]]
    BY <1>1 DEF Builds
  <2>3. /\ build'[p].kind = build[p].kind /\ build'[p].todo = build[p].todo
        /\ build'[p].names = build[p].names
        /\ build'[p].reads = [build[p].reads EXCEPT ![r.file] =
                                [seq |-> r.seq, fp |-> r.fp, page |-> r.page]]
    BY <1>1, <2>1 DEF Builds
  <2>4. pc'[p] \in {"merge", "collect"} /\ build[p].kind # "filereads"
    BY <1>1, <1>3, <2>1 DEF IsListing
  <2>5. ASSUME NEW pg \in Stakes(p, f)' PROVE pg \in Stakes(p, f) \/ Recent(pg, f, v)'
    <3>1. CASE f \notin build[p].names
      <4>1. pg = NoPage /\ pg \in Pages
        BY <2>3, <2>4, <2>5, <3>1 DEF Stakes
      <4> QED
        BY <1>1, <2>4, <3>1, <4>1 DEF Stakes, ListPcs, ReadPcs
    <3>2. CASE f \in build[p].names /\ f = r.file
      <4>1. build'[p].reads[f].seq > 0 /\ build'[p].reads[f].page = r.page
        BY <1>1, <2>2, <2>3, <3>2
      <4>2. pg = r.page
        BY <2>3, <2>4, <2>5, <3>2, <4>1 DEF Stakes
      <4> QED
        BY <1>2, <3>2, <4>2
    <3>3. CASE f \in build[p].names /\ f # r.file
      <4>1. build'[p].reads[f] = build[p].reads[f]
        BY <2>2, <2>3, <3>3
      <4>2. ~Unseen(p, f)' => ~Unseen(p, f)
        BY <2>3, <2>4, <3>3 DEF Unseen
      <4>3. /\ pg \in Pages /\ ~Unseen(p, f)
            /\ pg = IF build[p].reads[f].seq > 0 THEN build[p].reads[f].page ELSE snapshot[f]
        BY <2>3, <2>4, <2>5, <3>3, <4>1, <4>2 DEF Stakes
      <4> QED
        BY <1>1, <2>4, <3>3, <4>3 DEF Stakes, ReadingPcs
    <3> QED
      BY <3>1, <3>2, <3>3
  <2> QED
    BY <2>4, <2>5, HonoursStay
<1>4. CASE ~IsListing(p)
  <2>1. build' = build /\ rd'[p] = r /\ pc'[p] = "apply" /\ build[p].kind = "filereads"
    BY <1>1, <1>4 DEF Deliver, IsListing
  <2>2. ASSUME NEW pg \in Stakes(p, f)' PROVE pg \in Stakes(p, f) \/ Recent(pg, f, v)'
    <3>1. CASE f = r.file
      <4>1. Unseen(p, f)'
        BY <2>1, <3>1 DEF Unseen, ReadPcs
      <4>2. pg = r.page
        BY <2>1, <2>2, <4>1 DEF Stakes
      <4> QED
        BY <1>2, <3>1, <4>2
    <3>2. CASE f # r.file
      <4>1. ~Unseen(p, f)' => ~Unseen(p, f)
        BY <2>1, <3>2 DEF Unseen
      <4>2. pg \in Pages /\ pg = snapshot[f] /\ ~Unseen(p, f)
        BY <2>1, <2>2, <3>2, <4>1 DEF Stakes
      <4> QED
        BY <2>1, <4>2 DEF Stakes
    <3> QED
      BY <3>1, <3>2
  <2> QED
    BY <2>1, <2>2, HonoursStay
<1> QED
  BY <1>3, <1>4

\* The stat and the read of one file.
LEMMA ReadHonours ==
  ASSUME Inv, HonestInv, SoloInv, Grows, NEW p \in Procs, StatFile(p) \/ ReadFile(p),
         NEW f \in Files, NEW v \in 1 .. Version(f), Honours(p, f, v)
  PROVE  Honours(p, f, v)'
<1>1. /\ pc \in [Procs -> Pcs] /\ build \in [Procs -> Builds] /\ rd \in [Procs -> FileReads]
      /\ faults \in Nat
  BY SoloTypes DEF Inv, TypeOK, BoundTypeOK
<1>2. /\ pc[p] \in {"stat", "read"} /\ UNCHANGED <<disk, snapshot>>
  BY DEF StatFile, ReadFile, diskVars, pageVars
<1>3. /\ rd[p].file \in Files /\ rd[p].page = NoPage /\ rd[p] \in FileReads
      /\ NoPage \in Pages /\ ZeroFp \in Fps
  BY <1>1, <1>2, VisTypes, PageIndexAssumption
     DEF ReadPcs, HonestInv, ReadGood, NoPage, Pages, ZeroFp, Fps
<1>4. PICK g \in Files : g = rd[p].file
  BY <1>3
<1>5. PageAt(g, Version(g)) \in Pages /\ Version(g) \in Nat /\ Version(g) > 0
  BY VisTypes, PageIndexAssumption DEF PageAt, Pages, NoPage
<1>6. CASE StatFile(p) /\ Stat(g) = ZeroFp
  <2>1. PICK r \in FileReads : r = [rd[p] EXCEPT !.fp = ZeroFp]
    BY <1>3 DEF FileReads
  <2>2. r.file = rd[p].file /\ r.seq = rd[p].seq /\ r.page = NoPage
    BY <1>3, <2>1 DEF FileReads
  <2>3. Deliver(p, r)
    BY <1>4, <1>6, <2>1 DEF StatFile
  <2>4. Now(g) = "gone"
    BY <1>5, <1>6 DEF Stat, ZeroFp
  <2>5. r.page = PageAt(r.file, Version(r.file))
    BY <1>4, <2>2, <2>4 DEF PageAt, Now
  <2> QED
    BY <1>2, <2>2, <2>3, <2>5, DeliverHonours
<1>7. CASE StatFile(p) /\ Stat(g) # ZeroFp
  <2>1. /\ pc[p] = "stat" /\ pc'[p] = "read" /\ build' = build
        /\ rd' = [rd EXCEPT ![p].fp = Stat(g)]
    BY <1>1, <1>4, <1>7 DEF StatFile
  <2>2. rd'[p].file = rd[p].file
    BY <1>1, <2>1 DEF FileReads
  <2>3. Unseen(p, f)' <=> Unseen(p, f)
    BY <2>1, <2>2 DEF Unseen, ReadPcs
  <2>4. ASSUME NEW pg \in Stakes(p, f)' PROVE pg \in Stakes(p, f)
    BY <1>2, <2>1, <2>3, <2>4 DEF Stakes, ReadingPcs, ReadPcs, ListPcs
  <2> QED
    BY <2>1, <2>4, HonoursStay
<1>8. CASE ReadFile(p)
  <2>1. CASE Deliver(p, [rd[p] EXCEPT !.page = PageAt(g, Version(g))])
    <3>1. PICK r \in FileReads : r = [rd[p] EXCEPT !.page = PageAt(g, Version(g))]
      BY <1>3, <1>5 DEF FileReads
    <3>2. r.file = rd[p].file /\ r.seq = rd[p].seq /\ r.page = PageAt(g, Version(g))
      BY <1>3, <3>1 DEF FileReads
    <3>3. Deliver(p, r) /\ r.page = PageAt(r.file, Version(r.file))
      BY <1>4, <2>1, <3>1, <3>2
    <3> QED
      BY <1>2, <3>2, <3>3, DeliverHonours
  <2>2. CASE Deliver(p, rd[p]) /\ Fault("read")
    <3>1. PICK r \in FileReads : r = rd[p]
      BY <1>3
    <3>2. Deliver(p, r) /\ faults' > 0 /\ "read" \in FaultKinds
      BY <1>1, <2>2, <3>1 DEF Fault
    <3>3. r.file = rd[p].file /\ r.seq = rd[p].seq /\ r.page = NoPage
      BY <1>3, <3>1
    <3>4. ReadFailed(r.page)'
      BY <3>2, <3>3 DEF ReadFailed, NoPage
    <3> QED
      BY <1>2, <3>2, <3>3, <3>4, DeliverHonours
  <2> QED
    BY <1>4, <1>8, <2>1, <2>2 DEF ReadFile
<1> QED
  BY <1>4, <1>6, <1>7, <1>8

\* executeFileReads applies its read over the snapshot's page: no later read was applied.
LEMMA ApplyHonours ==
  ASSUME Inv, SoloInv, Grows, NEW p \in Procs, ApplyFileRead(p),
         NEW f \in Files, NEW v \in 1 .. Version(f), Honours(p, f, v)
  PROVE  Honours(p, f, v)'
<1>1. /\ pc \in [Procs -> Pcs] /\ build \in [Procs -> Builds] /\ pc[p] = "apply"
      /\ rd[p].file \in Files /\ Solo(p) /\ rd[p].seq \in Nat /\ rd[p].page \in Pages
      /\ fileReadSeq[rd[p].file] \in Nat /\ snapshot \in [Files -> Pages]
  BY SoloTypes, VisTypes DEF ApplyFileRead, SoloInv, ReadPcs, Inv, TypeOK, PageTypeOK
<1>2. inflight = p /\ build[p].kind = "filereads" /\ ~(rd[p].seq < fileReadSeq[rd[p].file])
  BY <1>1 DEF Solo, SoloRead, ReadPcs
<1>3. /\ snapshot' = [snapshot EXCEPT ![rd[p].file] = rd[p].page]
      /\ pc' = [pc EXCEPT ![p] = IF build[p].todo = {} THEN "release" ELSE "collect"]
  BY <1>2 DEF ApplyFileRead
<1>4. build'[p].kind = build[p].kind /\ build'[p].todo = build[p].todo
  BY <1>1 DEF ApplyFileRead, Builds
<1>5. pc'[p] \in {"release", "collect"} /\ (pc'[p] = "release" => build[p].todo = {})
  BY <1>1, <1>3
<1>6. ASSUME NEW pg \in Stakes(p, f)' PROVE pg \in Stakes(p, f)
  <2>1. pg \in Pages /\ pg = snapshot'[f] /\ f \notin build[p].todo
    BY <1>2, <1>4, <1>5, <1>6 DEF Stakes, Unseen
  <2>2. CASE f = rd[p].file
    BY <1>1, <1>2, <1>3, <2>1, <2>2 DEF Stakes
  <2>3. CASE f # rd[p].file
    <3>1. ~Unseen(p, f) /\ pg = snapshot[f]
      BY <1>1, <1>3, <2>1, <2>3 DEF Unseen
    <3> QED
      BY <1>2, <2>1, <3>1 DEF Stakes
  <2> QED
    BY <2>2, <2>3
<1> QED
  BY <1>5, <1>6, HonoursStay

\* A listing that fails publishes nothing.
LEMMA FailHonours ==
  ASSUME Inv, SoloInv, NEW p \in Procs, FailListing(p)
  PROVE  \A f \in Files : \A v : Honours(p, f, v)'
<1>1. /\ pc \in [Procs -> Pcs] /\ build \in [Procs -> Builds] /\ Solo(p)
  BY SoloTypes DEF SoloInv
<1>2. /\ pc'[p] = "release" /\ build' = [build EXCEPT ![p].err = TRUE]
  BY <1>1 DEF FailListing
<1>3. build[p].kind # "filereads"
  BY <1>1 DEF FailListing, Solo, Unread, ScanPcs
<1>4. build'[p].err = TRUE /\ build'[p].kind = build[p].kind
  BY <1>1, <1>2 DEF Builds
<1>5. ASSUME NEW f \in Files, NEW v PROVE Honours(p, f, v)'
  <2>1. Stakes(p, f)' = {}
    BY <1>2, <1>3, <1>4 DEF Stakes, ReadingPcs, ReadPcs, ListPcs
  <2> QED
    BY <1>2, <2>1 DEF Honours
<1> QED
  BY <1>5

\* A running build keeps what it honours until it is released.
LEMMA HonoursStep ==
  ASSUME Inv, HonestInv, SoloInv, Grows, NEW p \in Procs, BuildStep(p), Runs(p)
  PROVE  /\ Runs(p)' /\ build'[p].kind = build[p].kind
         /\ build'[p].startSeq = build[p].startSeq
         /\ \A f \in Files : \A v \in 1 .. Version(f) : Honours(p, f, v) => Honours(p, f, v)'
<1>1. /\ pc \in [Procs -> Pcs] /\ build \in [Procs -> Builds] /\ Alone(p)
      /\ pc[p] \notin {"start", "seeded"}
  BY SoloTypes, BuildAlone DEF Runs, RunPcs, ListPcs, ReadPcs
<1>2. ~Hydrate(p) /\ ~StartListing(p) /\ ~StartFileReads(p)
  BY <1>1 DEF Hydrate, StartListing, StartFileReads
<1>3. /\ pc'[p] \in RunPcs /\ build'[p].kind = build[p].kind
      /\ build'[p].startSeq = build[p].startSeq
  <2>1. CASE ReadDir(p) \/ StatDir(p)
    BY <1>1, <2>1 DEF ReadDir, StatDir, Builds, RunPcs, ListPcs
  <2>2. CASE Diff(p)
    BY <1>1, <2>2 DEF Diff, Builds, RunPcs, ListPcs
  <2>3. CASE FailListing(p) \/ Merge(p)
    BY <1>1, <2>3 DEF FailListing, Merge, Builds, RunPcs, ListPcs
  <2>4. CASE \E f \in Files : NextFile(p, f)
    BY <1>1, <2>4 DEF NextFile, Builds, RunPcs, ListPcs, ReadPcs
  <2>5. CASE StatFile(p) \/ ReadFile(p)
    <3>1. \/ build' = build
          \/ \E g, x : build' = [build EXCEPT ![p].reads[g] = x]
      BY <2>5 DEF StatFile, ReadFile, Deliver
    <3>2. build'[p].kind = build[p].kind /\ build'[p].startSeq = build[p].startSeq
      BY <1>1, <3>1 DEF Builds
    <3>3. \E x \in {"read", "apply", "merge", "collect"} : pc' = [pc EXCEPT ![p] = x]
      BY <2>5 DEF StatFile, ReadFile, Deliver
    <3> QED
      BY <1>1, <3>2, <3>3 DEF RunPcs, ListPcs, ReadPcs
  <2>6. CASE ApplyFileRead(p)
    BY <1>1, <2>6 DEF ApplyFileRead, Builds, RunPcs, ListPcs, Alone
  <2> QED
    BY <1>2, <2>1, <2>2, <2>3, <2>4, <2>5, <2>6 DEF BuildStep
<1>4. ASSUME NEW f \in Files, NEW v \in 1 .. Version(f), Honours(p, f, v)
      PROVE  Honours(p, f, v)'
  BY <1>2, <1>4, ListFilesHonours, DiffHonours, MergeHonours, NextFileHonours, ReadHonours,
     ApplyHonours, FailHonours DEF BuildStep
<1>5. Runs(p)'
  BY <1>1, <1>3 DEF Runs, Alone
<1> QED
  BY <1>3, <1>4, <1>5

\* What every step does to the builds that run after it: a build goes on honouring what it
\* did, a listing starts by honouring everything, and a re-read starts.
Carries ==
  \A p \in Procs : Runs(p)' =>
    \/ /\ Runs(p) /\ build'[p].kind = build[p].kind /\ build'[p].startSeq = build[p].startSeq
       /\ \A f \in Files : \A v \in 1 .. Version(f) : Honours(p, f, v) => Honours(p, f, v)'
    \/ StartListing(p) /\ \A f \in Files : \A v : Honours(p, f, v)'
    \/ StartFileReads(p) /\ build'[p].kind = "filereads"

\* Every step does.
LEMMA StepCarries ==
  ASSUME Inv, HonestInv, SoloInv, Grows, Aside \/ \E p \in Procs : BuildStep(p)
  PROVE  Carries
<1>1. CASE Aside
  BY <1>1, AsideHonours DEF Carries
<1>2. ASSUME NEW p \in Procs, BuildStep(p) PROVE Carries
  <2>1. Alone(p)
    BY <1>2, BuildAlone
  <2>2. ASSUME NEW q \in Procs, Runs(q)' PROVE q = p
    BY <2>1, <2>2 DEF Runs, Alone
  <2>3. CASE Runs(p)
    BY <1>2, <2>2, <2>3, HonoursStep DEF Carries
  <2>4. CASE ~Runs(p) /\ Runs(p)'
    <3>1. pc[p] \notin RunPcs
      BY <2>1, <2>4 DEF Runs, Alone
    <3>2. pc'[p] \in RunPcs /\ pc \in [Procs -> Pcs]
      BY <2>4, SoloTypes DEF Runs
    <3>3. ~Hydrate(p)
      BY <3>2 DEF Hydrate, RunPcs, ListPcs, ReadPcs
    <3>4. StartListing(p) \/ StartFileReads(p)
      BY <1>2, <3>1, <3>3 DEF BuildStep, ReadDir, StatDir, Diff, FailListing, Merge, NextFile,
             StatFile, ReadFile, ApplyFileRead, RunPcs, ListPcs, ReadPcs
    <3> QED
      BY <2>2, <3>4, StartListingHonours, StartFileReadsHonours DEF Carries
  <2> QED
    BY <2>2, <2>3, <2>4 DEF Carries
<1> QED
  BY <1>1, <1>2

-----------------------------------------------------------------------------
(* Refreshes *)

(***************************************************************************)
(* A refresh is numbered when it is called and waits for a listing whose   *)
(* start is no older.  Every such listing honours the versions the call    *)
(* found, and so does what the refresh is handed in the end.  A refresh    *)
(* that ensure lets go at the head of its loop, because newer requests     *)
(* have come in since, is handed whatever build it last waited for, and    *)
(* an event's read may put an older page back between a listing's          *)
(* comparison and its merge: the theorem is about what happens without.    *)
(***************************************************************************)

\* The refresh is inside ensure's loop or runs a build for it.
Asking(q) == \/ pc[q] \in {"loop", "wait", "queued"} \/ inflight = q
             \/ pc[q] = "persist" /\ ~call[q].first

\* It waits for a build, its own or another's.
Awaits(q) == pc[q] \in {"wait", "queued"} \/ inflight = q

\* Its answer is settled.
Answered(q) == (pc[q] = "return" \/ (pc[q] = "persist" /\ call[q].first)) /\ call[q].ok

RefCall(q) ==
  LET c == call[q] IN
  /\ Asking(q) => c.need > 0
  /\ Awaits(q) => c.want >= c.need
  /\ c.need <= requestSeq
  /\ \A f \in Files : c.floor[f] \in 1 .. Version(f)
  /\ Answered(q) => \A f \in Files : Recent(c.pages[f], f, c.floor[f])

\* Whatever listing has started since honours what it asked for.
RefServed(q) ==
  \A p \in Procs :
    Runs(p) /\ build[p].kind # "filereads" /\ call[q].need \in 1 .. build[p].startSeq =>
      \A f \in Files : Honours(p, f, call[q].floor[f])

RefInv == \A q \in Procs \ Readers : RefCall(q) /\ RefServed(q)

\* The types of a call.
LEMMA CallTypes ==
  ASSUME Inv, NEW q \in Procs
  PROVE  /\ call[q] \in Calls /\ call[q].need \in Nat /\ call[q].want \in Nat
         /\ \A f \in Files : call[q].pages[f] \in Pages /\ call[q].floor[f] \in Nat
         /\ requestSeq \in Nat /\ build[q].startSeq \in Nat
<1>1. call[q] \in Calls /\ requestSeq \in Nat /\ build[q].startSeq \in Nat
  BY DEF Inv, TypeOK, ProcTypeOK, MarkTypeOK, Builds
<1>2. call[q].pages \in [Files -> Pages] /\ call[q].floor \in [Files -> Nat]
      /\ call[q].need \in Nat /\ call[q].want \in Nat
  BY <1>1 DEF Calls
<1> QED
  BY <1>1, <1>2

\* A call that nobody touches stays as it is.
LEMMA RefCallStays ==
  ASSUME Inv, Grows, NEW q \in Procs, RefCall(q), call'[q] = call[q],
         requestSeq' \in Nat, requestSeq' >= requestSeq,
         Asking(q)' => Asking(q), Awaits(q)' => Awaits(q), Answered(q)' => Answered(q)
  PROVE  RefCall(q)'
<1>1. /\ call[q].need \in Nat /\ requestSeq \in Nat
      /\ \A f \in Files : call[q].pages[f] \in Pages /\ call[q].floor[f] \in Nat
      /\ \A f \in Files : Version(f) \in Nat
  BY CallTypes, VisTypes
<1>2. call'[q].need <= requestSeq'
  BY <1>1 DEF RefCall
<1>3. ASSUME NEW f \in Files PROVE call'[q].floor[f] \in 1 .. Version(f)'
  BY <1>1 DEF RefCall, Grows
<1>4. ASSUME NEW f \in Files, Answered(q)' PROVE Recent(call[q].pages[f], f, call[q].floor[f])'
  <2>1. PICK pg \in Pages, v \in 1 .. Version(f) : pg = call[q].pages[f] /\ v = call[q].floor[f]
    BY <1>1 DEF RefCall
  <2>2. Recent(pg, f, v)'
    BY <1>4, <2>1 DEF RefCall, Grows
  <2> QED
    BY <2>1, <2>2
<1> QED
  BY <1>2, <1>3, <1>4 DEF RefCall

\* What has been honoured for a call stays honoured.
LEMMA RefServedStays ==
  ASSUME Inv, Grows, Carries, NEW q \in Procs, RefCall(q), RefServed(q),
         call'[q].need \in {call[q].need, 0}, call'[q].floor = call[q].floor
  PROVE  RefServed(q)'
<1>1. \A f \in Files : call[q].floor[f] \in 1 .. Version(f)
  BY DEF RefCall
<1>2. ASSUME NEW p \in Procs, Runs(p)', build'[p].kind # "filereads",
             call'[q].need \in 1 .. build'[p].startSeq, NEW f \in Files
      PROVE  Honours(p, f, call[q].floor[f])'
  <2>1. call'[q].need = call[q].need
    BY <1>2
  <2>2. PICK v \in 1 .. Version(f) : v = call[q].floor[f] /\ v = call'[q].floor[f]
    BY <1>1
  <2>3. Honours(p, f, v)'
    BY <1>2, <2>1, <2>2 DEF Carries, RefServed
  <2> QED
    BY <2>2, <2>3
<1> QED
  BY <1>2 DEF RefServed

\* A call that has just begun asks for a listing that has not started, and one that is over
\* asks for nothing.
LEMMA RefNew ==
  ASSUME Inv, SoloInv, Grows, Carries, NEW q \in Procs, inflight' # q,
         call'[q].need \in {0, requestSeq + 1}, requestSeq' >= call'[q].need,
         requestSeq' \in Nat,
         \/ pc'[q] = "loop" /\ call'[q].need = requestSeq + 1
         \/ pc'[q] = "idle",
         \A p \in Procs : ~StartListing(p),
         \A f \in Files : call'[q].floor[f] \in 1 .. Version(f)
  PROVE  RefCall(q)' /\ RefServed(q)'
<1>1. requestSeq \in Nat /\ \A f \in Files : Version(f) \in Nat
  BY CallTypes, VisTypes
<1>2. \A f \in Files : call'[q].floor[f] \in 1 .. Version(f)'
  BY <1>1 DEF Grows
<1>3. RefCall(q)'
  BY <1>1, <1>2 DEF RefCall, Asking, Awaits, Answered
<1>4. ASSUME NEW p \in Procs, Runs(p)', build'[p].kind # "filereads"
      PROVE  ~(call'[q].need \in 1 .. build'[p].startSeq)
  <2>1. Runs(p) /\ build'[p].startSeq = build[p].startSeq
    BY <1>4 DEF Carries
  <2>2. build[p].startSeq <= requestSeq /\ build[p].startSeq \in Nat
    BY <2>1, CallTypes DEF SoloInv, Solo, SoloBuild, Runs
  <2> QED
    BY <1>1, <2>1, <2>2
<1> QED
  BY <1>3, <1>4 DEF RefServed

\* A step of the running build leaves the calls alone.
LEMMA BuildRef ==
  ASSUME Inv, Inv', HonestInv, SoloInv, Grows, RefInv, NEW p \in Procs, BuildStep(p)
  PROVE  RefInv'
<1>1. Alone(p) /\ Carries /\ requestSeq' = requestSeq /\ requestSeq \in Nat
  BY BuildAlone, StepCarries, SoloTypes DEF Alone
<1>2. ASSUME NEW q \in Procs \ Readers PROVE RefCall(q)' /\ RefServed(q)'
  <2>1. RefCall(q) /\ RefServed(q) /\ call' = call /\ inflight' = inflight /\ inflight = p
    BY <1>1, <1>2 DEF RefInv, Alone
  <2>2. /\ Asking(q)' => Asking(q)
        /\ Awaits(q)' => Awaits(q)
        /\ Answered(q)' => Answered(q)
    <3>1. CASE q = p
      <4>1. pc'[p] \in OwnerPcs \cup ReadPcs
        BY <2>1 DEF Inv, SingleFlight
      <4> QED
        BY <2>1, <3>1, <4>1 DEF Asking, Awaits, Answered, OwnerPcs, ReadPcs
    <3>2. CASE q # p
      <4>1. pc'[q] = pc[q]
        BY <1>1, <3>2 DEF Alone
      <4> QED
        BY <2>1, <4>1 DEF Asking, Awaits, Answered
    <3> QED
      BY <3>1, <3>2
  <2>3. requestSeq' \in Nat /\ requestSeq' >= requestSeq
    BY <1>1
  <2> QED
    BY <1>1, <2>1, <2>2, <2>3, RefCallStays, RefServedStays
<1> QED
  BY <1>2 DEF RefInv

\* Other goroutines' calls stay as they are when one goroutine moves.
LEMMA OthersRef ==
  ASSUME Inv, Grows, Carries, RefInv, NEW p \in Procs, requestSeq' \in Nat,
         requestSeq' >= requestSeq,
         \A q \in Procs \ {p} : /\ pc'[q] = pc[q] /\ call'[q] = call[q]
                                /\ inflight' = q => inflight = q,
         p \notin Readers => RefCall(p)' /\ RefServed(p)'
  PROVE  RefInv'
<1>1. ASSUME NEW q \in Procs \ Readers, q # p PROVE RefCall(q)' /\ RefServed(q)'
  <2>1. RefCall(q) /\ RefServed(q) /\ pc'[q] = pc[q] /\ call'[q] = call[q]
        /\ (inflight' = q => inflight = q)
    BY <1>1 DEF RefInv
  <2>2. /\ Asking(q)' => Asking(q)
        /\ Awaits(q)' => Awaits(q)
        /\ Answered(q)' => Answered(q)
    BY <2>1 DEF Asking, Awaits, Answered
  <2> QED
    BY <2>1, <2>2, RefCallStays, RefServedStays
<1> QED
  BY <1>1 DEF RefInv

\* Calls begin, give up, return, mark and write through.
LEMMA CallRef ==
  ASSUME Inv, HonestInv, SoloInv, Grows, RefInv, NEW p \in Procs, CallStep(p),
         Serve(p) => p \in Readers
  PROVE  RefInv'
<1>1. /\ Aside /\ inflight # p /\ inflight' = inflight /\ Carries
      /\ requestSeq' \in Nat /\ requestSeq' >= requestSeq
  BY CallAside, StepCarries DEF Aside
<1>2. /\ pc \in [Procs -> Pcs] /\ call \in [Procs -> Calls] /\ requestSeq \in Nat
      /\ \A g \in Files : Version(g) \in Nat /\ Version(g) > 0
  BY VisTypes DEF Inv, TypeOK, ProcTypeOK, MarkTypeOK
<1>3. /\ \E x : pc' = [pc EXCEPT ![p] = x]
      /\ call' = call \/ \E x : call' = [call EXCEPT ![p] = x]
  BY DEF CallStep, BeginList, BeginRefresh, EnterRefresh, Serve, Cancel, Return,
         BeginMarkFile, EndMarkFile, WidenMarkFile, Persist, BeginRefreshFile
<1>4. \A q \in Procs \ {p} : pc'[q] = pc[q] /\ call'[q] = call[q]
  BY <1>2, <1>3
<1>5. \A q \in Procs : ~StartListing(q)
  <2>1. SingleFlight
    BY DEF Inv
  <2>2. ASSUME NEW q \in Procs, StartListing(q) PROVE pc'[q] = "readdir" /\ inflight = q
    BY <1>2, <2>1, <2>2 DEF StartListing, SingleFlight, OwnerPcs
  <2>3. ASSUME NEW q \in Procs, StartListing(q) PROVE FALSE
    <3>1. q # p /\ pc'[q] = pc[q]
      BY <1>1, <1>4, <2>2, <2>3
    <3> QED
      BY <2>2, <2>3, <3>1 DEF StartListing
  <2> QED
    BY <2>3
<1>6. CASE BeginRefresh(p) \/ \E f \in Files : BeginRefreshFile(p, f) /\ ~hasSnapshot
  <2>1. PICK floor : /\ EnterRefresh(p, floor)
                     /\ \/ floor = [g \in Files |-> Version(g)]
                        \/ \E f \in Files : floor = [NoCall.floor EXCEPT ![f] = Version(f)]
    BY <1>6 DEF BeginRefresh, BeginRefreshFile
  <2>2. \A g \in Files : floor[g] \in 1 .. Version(g)
    BY <1>2, <2>1 DEF NoCall
  <2>3. /\ requestSeq' = requestSeq + 1 /\ pc' = [pc EXCEPT ![p] = "loop"]
        /\ call' = [call EXCEPT ![p] = [NoCall EXCEPT !.need = requestSeq + 1, !.floor = floor]]
    BY <2>1 DEF EnterRefresh
  <2>4. pc'[p] = "loop" /\ call'[p] = [NoCall EXCEPT !.need = requestSeq + 1, !.floor = floor]
    BY <1>2, <2>3
  <2>5. call'[p].need = requestSeq + 1 /\ call'[p].floor = floor
    BY <2>4 DEF NoCall
  <2>6. RefCall(p)' /\ RefServed(p)'
    BY <1>1, <1>2, <1>5, <2>2, <2>3, <2>4, <2>5, RefNew
  <2> QED
    BY <1>1, <1>4, <2>6, OthersRef
<1>7. CASE Cancel(p) \/ Return(p)
  <2>1. pc'[p] = "idle" /\ call'[p] = NoCall
    BY <1>2, <1>7 DEF Cancel, Return
  <2>2. call'[p].need = 0 /\ \A g \in Files : call'[p].floor[g] = 1
    BY <2>1 DEF NoCall
  <2>3. \A g \in Files : call'[p].floor[g] \in 1 .. Version(g)
    BY <1>2, <2>2
  <2>4. RefCall(p)' /\ RefServed(p)'
    BY <1>1, <1>2, <1>5, <2>1, <2>2, <2>3, RefNew
  <2> QED
    BY <1>1, <1>4, <2>4, OthersRef
<1>8. CASE \/ \E f \in Files : BeginMarkFile(p, f)
           \/ EndMarkFile(p) \/ WidenMarkFile(p) \/ Persist(p)
  <2>1. /\ call' = call
        /\ \/ pc'[p] \in {"markfile", "markfolder", "idle"}
           \/ pc[p] = "persist" /\ pc'[p] = AfterAwait(call[p])
    BY <1>2, <1>8 DEF BeginMarkFile, EndMarkFile, WidenMarkFile, Persist
  <2>2. /\ Asking(p)' => Asking(p)
        /\ Awaits(p)' => Awaits(p)
        /\ Answered(p)' => Answered(p)
    BY <1>1, <2>1 DEF Asking, Awaits, Answered, AfterAwait
  <2>3. p \notin Readers => RefCall(p) /\ RefServed(p)
    BY DEF RefInv
  <2>4. p \notin Readers => RefCall(p)' /\ RefServed(p)'
    BY <1>1, <2>1, <2>2, <2>3, RefCallStays, RefServedStays
  <2> QED
    BY <1>1, <1>4, <2>4, OthersRef
<1>9. CASE p \in Readers
  BY <1>1, <1>4, <1>9, OthersRef
<1> QED
  BY <1>6, <1>7, <1>8, <1>9 DEF CallStep

\* acquireLocked: a refresh waits for whatever has been requested by now.
LEMMA AcquireRef ==
  ASSUME Inv, HonestInv, SoloInv, Grows, RefInv, NEW p \in Procs, Acquire(p)
  PROVE  RefInv'
<1>1. /\ Aside /\ Carries /\ requestSeq' \in Nat /\ requestSeq' >= requestSeq
      /\ inflight' = inflight \/ inflight' = p
  BY AcquireAside, StepCarries DEF Aside
<1>2. pc \in [Procs -> Pcs] /\ call \in [Procs -> Calls] /\ requestSeq \in Nat
  BY DEF Inv, TypeOK, ProcTypeOK, MarkTypeOK
<1> DEFINE w == Pending(IsRefresh(p))
<1>3. /\ pc[p] = "loop"
      /\ \E x \in {"wait", "queued", "start"} : pc' = [pc EXCEPT ![p] = x]
      /\ \E q : call' = [call EXCEPT ![p].on = q, ![p].want = w.need]
  BY DEF Acquire
<1>4. ASSUME p \notin Readers PROVE w.need = requestSeq
  <2>1. IsRefresh(p) /\ hasSnapshot \in BOOLEAN /\ UseStore \in BOOLEAN /\ storeLoaded \in BOOLEAN
    BY <1>4, PageIndexAssumption DEF IsRefresh, Inv, TypeOK, PageTypeOK, LoadTypeOK
  <2> QED
    BY <2>1 DEF Pending
<1> HIDE DEF w
<1>5. /\ pc'[p] \in {"wait", "queued", "start"} /\ call'[p].want = w.need
      /\ call'[p].need = call[p].need /\ call'[p].floor = call[p].floor
      /\ \A q \in Procs \ {p} : pc'[q] = pc[q] /\ call'[q] = call[q]
  BY <1>2, <1>3 DEF Calls
<1>6. ASSUME p \notin Readers PROVE RefCall(p)' /\ RefServed(p)'
  <2>1. RefCall(p) /\ RefServed(p) /\ Asking(p)
    BY <1>3, <1>6 DEF RefInv, Asking
  <2>2. /\ call[p].need > 0 /\ call[p].need <= requestSeq /\ call[p].need \in Nat
        /\ \A f \in Files : /\ call[p].floor[f] \in 1 .. Version(f)
                            /\ Version(f) \in Nat /\ Version(f)' \in Nat /\ Version(f)' >= Version(f)
    BY <2>1, CallTypes, VisTypes DEF RefCall, Grows
  <2>3. /\ call'[p].want >= call'[p].need /\ call'[p].need <= requestSeq' /\ call'[p].need > 0
        /\ \A f \in Files : call'[p].floor[f] \in 1 .. Version(f)'
    BY <1>1, <1>2, <1>4, <1>5, <1>6, <2>2
  <2>4. ~Answered(p)'
    BY <1>5 DEF Answered
  <2>5. RefCall(p)'
    BY <2>3, <2>4 DEF RefCall
  <2> QED
    BY <1>1, <1>5, <2>1, <2>5, RefServedStays
<1> QED
  BY <1>1, <1>5, <1>6, OthersRef

\* What release hands to the owner and the waiters of a build.
LEMMA ReleaseCalls ==
  ASSUME Inv, NEW p \in Procs, Release(p), NEW q \in Procs
  PROVE  LET b == build[p]
             Told == q = p \/ (pc[q] = "wait" /\ call[q].on = p)
         IN /\ ~Told => call'[q] = call[q]
            /\ Told =>
                 /\ call'[q].pages = IF b.err \/ b.kind # "filereads" THEN b.pages ELSE snapshot
                 /\ call'[q].floor = call[q].floor
                 /\ IF Returns(q, b)
                      THEN /\ call'[q].need = 0 /\ call'[q].first /\ call'[q].ok = ~b.err
                           /\ pc'[q] \in {"return", "persist"}
                      ELSE /\ call'[q].need = call[q].need /\ ~call'[q].first /\ call'[q].ok
                           /\ pc'[q] \in {"loop", "persist"}
<1> DEFINE b == build[p]
           pages == IF b.err \/ b.kind # "filereads" THEN b.pages ELSE snapshot
           told == q = p \/ (pc[q] = "wait" /\ call[q].on = p)
<1>1. /\ call'[q] = IF told THEN Awaited(q, b, pages) ELSE call[q]
      /\ told => pc'[q] \in {"persist", AfterAwait(Awaited(q, b, pages))}
  BY DEF Release
<1> HIDE DEF b, pages
<1>2. /\ Awaited(q, b, pages).pages = pages
      /\ Awaited(q, b, pages).floor = call[q].floor
      /\ Returns(q, b) => /\ Awaited(q, b, pages).need = 0 /\ Awaited(q, b, pages).first
                          /\ Awaited(q, b, pages).ok = ~b.err
      /\ ~Returns(q, b) => /\ Awaited(q, b, pages).need = call[q].need
                           /\ ~Awaited(q, b, pages).first /\ Awaited(q, b, pages).ok
  BY DEF Awaited, NoCall
<1>3. /\ Returns(q, b) => AfterAwait(Awaited(q, b, pages)) = "return"
      /\ ~Returns(q, b) => AfterAwait(Awaited(q, b, pages)) = "loop"
  BY <1>2 DEF AfterAwait
<1>4. /\ ~told => call'[q] = call[q]
      /\ told => /\ call'[q].pages = pages /\ call'[q].floor = call[q].floor
                 /\ IF Returns(q, b)
                      THEN /\ call'[q].need = 0 /\ call'[q].first /\ call'[q].ok = ~b.err
                           /\ pc'[q] \in {"return", "persist"}
                      ELSE /\ call'[q].need = call[q].need /\ ~call'[q].first /\ call'[q].ok
                           /\ pc'[q] \in {"loop", "persist"}
  BY <1>1, <1>2, <1>3
<1> QED
  BY <1>4 DEF b, pages

\* release: a refresh that returns was covered by a listing that honours what it asked for.
LEMMA ReleaseRef ==
  ASSUME Inv, HonestInv, SoloInv, Grows, RefInv, NEW p \in Procs, Release(p)
  PROVE  RefInv'
<1>1. /\ Aside /\ inflight = p /\ inflight' = followUp /\ Carries
      /\ requestSeq' \in Nat /\ requestSeq' >= requestSeq /\ pc[p] = "release"
      /\ pc'[p] \in {"persist", "return", "loop"} /\ followUp # p
  BY ReleaseAside, StepCarries, PageIndexAssumption DEF Aside, Release, Inv, SingleFlight
<1>2. ASSUME NEW q \in Procs \ Readers PROVE RefCall(q)' /\ RefServed(q)'
  <2>1. RefCall(q) /\ RefServed(q)
    BY <1>2 DEF RefInv
  <2>2. CASE q = p \/ (pc[q] = "wait" /\ call[q].on = p)
    <3>1. /\ call'[q].pages = IF build[p].err \/ build[p].kind # "filereads"
                                THEN build[p].pages ELSE snapshot
          /\ call'[q].floor = call[q].floor
          /\ \/ /\ Returns(q, build[p])
                /\ call'[q].need = 0 /\ call'[q].first /\ call'[q].ok = ~build[p].err
                /\ pc'[q] \in {"return", "persist"}
             \/ /\ call'[q].need = call[q].need /\ ~call'[q].first
                /\ pc'[q] \in {"loop", "persist"}
      BY <2>2, ReleaseCalls
    <3>2. Asking(q) /\ Awaits(q) /\ inflight' # q
      <4>1. followUp = q => pc[q] = "queued"
        BY DEF Inv, SingleFlight
      <4> QED
        BY <1>1, <2>2, <4>1 DEF Asking, Awaits
    <3>3. /\ call[q].need > 0 /\ call[q].want >= call[q].need /\ call[q].need <= requestSeq
          /\ call[q].need \in Nat /\ call[q].want \in Nat /\ build[p].startSeq \in Nat
          /\ requestSeq \in Nat
          /\ \A f \in Files : /\ call[q].floor[f] \in 1 .. Version(f)
                              /\ Version(f) \in Nat /\ Version(f)' \in Nat
                              /\ Version(f)' >= Version(f)
      BY <2>1, <3>2, CallTypes, VisTypes DEF RefCall, Grows
    <3>4. /\ call'[q].need <= requestSeq'
          /\ \A f \in Files : call'[q].floor[f] \in 1 .. Version(f)'
      BY <1>1, <3>1, <3>3
    <3>5. ~Awaits(q)' /\ (Asking(q)' => call'[q].need > 0)
      BY <3>1, <3>2, <3>3 DEF Awaits, Asking
    <3>6. ASSUME Answered(q)', NEW f \in Files
          PROVE  Recent(call[q].pages[f], f, call[q].floor[f])'
      <4>1. Returns(q, build[p]) /\ ~build[p].err
        BY <3>1, <3>6 DEF Answered
      <4>2. build[p].startSeq >= call[q].want /\ build[p].kind # "filereads"
        BY <4>1 DEF Returns, Covered, Covers
      <4>3. call[q].need \in 1 .. build[p].startSeq
        BY <3>3, <4>2
      <4>4. Honours(p, f, call[q].floor[f])
        BY <1>1, <2>1, <4>2, <4>3 DEF RefServed, Runs, RunPcs
      <4>5. Recent(build[p].pages[f], f, call[q].floor[f])
        BY <1>1, <4>1, <4>2, <4>4, ReleaseStakes
      <4>6. build[p].pages[f] \in Pages
        <5>1. build[p].pages \in [Files -> Pages]
          BY DEF Inv, TypeOK, ProcTypeOK, Builds
        <5> QED
          BY <5>1
      <4>7. PICK pg \in Pages, v \in 1 .. Version(f) :
              pg = build[p].pages[f] /\ v = call[q].floor[f]
        BY <3>3, <4>6
      <4>8. Recent(pg, f, v)'
        BY <4>5, <4>7 DEF Grows
      <4>9. pg = call'[q].pages[f] /\ v = call'[q].floor[f]
        BY <3>1, <4>2, <4>7
      <4> QED
        BY <4>8, <4>9
    <3>7. RefCall(q)'
      BY <3>4, <3>5, <3>6 DEF RefCall
    <3> QED
      BY <1>1, <2>1, <3>1, <3>7, RefServedStays
  <2>3. CASE q # p /\ ~(pc[q] = "wait" /\ call[q].on = p)
    <3>1. call'[q] = call[q]
      BY <2>3, ReleaseCalls
    <3>2. \/ q = followUp /\ pc[q] = "queued" /\ pc'[q] = "start"
          \/ q # followUp /\ pc'[q] = pc[q]
      BY <2>3, ReleaseAside
    <3>3. /\ Asking(q)' => Asking(q)
          /\ Awaits(q)' => Awaits(q)
          /\ Answered(q)' => Answered(q)
      BY <1>1, <2>3, <3>1, <3>2 DEF Asking, Awaits, Answered
    <3> QED
      BY <1>1, <2>1, <3>1, <3>3, RefCallStays, RefServedStays
  <2> QED
    BY <2>2, <2>3
<1> QED
  BY <1>2 DEF RefInv

\* Edits and folder marks do not touch the calls.
LEMMA QuietRef ==
  ASSUME Inv, HonestInv, SoloInv, Grows, RefInv, QuietStep
  PROVE  RefInv'
<1>1. /\ Aside /\ UNCHANGED <<inflight, followUp, pc, build, rd, call>> /\ Carries
      /\ requestSeq' \in Nat /\ requestSeq' >= requestSeq
  BY QuietAside, StepCarries DEF Aside
<1>2. ASSUME NEW q \in Procs \ Readers PROVE RefCall(q)' /\ RefServed(q)'
  <2>1. RefCall(q) /\ RefServed(q)
    BY <1>2 DEF RefInv
  <2>2. /\ Asking(q)' => Asking(q)
        /\ Awaits(q)' => Awaits(q)
        /\ Answered(q)' => Answered(q)
    BY <1>1 DEF Asking, Awaits, Answered
  <2> QED
    BY <1>1, <2>1, <2>2, RefCallStays, RefServedStays
<1> QED
  BY <1>2 DEF RefInv

\* A process that has just started has no calls.
LEMMA EmptyRef ==
  /\ Inv /\ Init => RefInv
  /\ Inv /\ Inv' /\ Crash => RefInv'
<1>1. NoCall.need = 0 /\ \A f \in Files : NoCall.floor[f] = 1
  BY DEF NoCall
<1>2. ASSUME Inv, Init PROVE RefInv
  <2>1. /\ requestSeq = 0 /\ inflight = None
        /\ \A q \in Procs : pc[q] = "idle" /\ call[q] = NoCall
    BY <1>2 DEF Init, EmptyIndex
  <2>2. \A f \in Files : Version(f) \in Nat /\ Version(f) > 0
    BY <1>2, VisTypes
  <2> QED
    BY <1>1, <2>1, <2>2, PageIndexAssumption
       DEF RefInv, RefCall, RefServed, Runs, Asking, Awaits, Answered
<1>3. ASSUME Inv, Inv', Crash PROVE RefInv'
  <2>1. /\ requestSeq' = 0 /\ inflight' = None
        /\ \A q \in Procs : pc'[q] = "idle" /\ call'[q] = NoCall
    BY <1>3 DEF Crash, EmptyIndex
  <2>2. \A f \in Files : Version(f)' \in Nat /\ Version(f)' > 0
    BY <1>3 DEF Inv, TypeOK, DiskTypeOK
  <2> QED
    BY <1>1, <2>1, <2>2, PageIndexAssumption
       DEF RefInv, RefCall, RefServed, Runs, Asking, Awaits, Answered
<1> QED
  BY <1>2, <1>3

\* No event's read runs beside a build, and no refresh is let go at the head of the loop.
UndisturbedRefresh(p) == ~WarmRead(p) /\ ~(p \notin Readers /\ Serve(p))

\* Every such step keeps the invariant.
LEMMA NextRef ==
  ASSUME Inv, Inv', HonestInv, SoloInv, RefInv, [Next]_vars,
         \A p \in Procs : UndisturbedRefresh(p)
  PROVE  RefInv'
<1>1. Grows /\ \A p \in Procs : ~WarmRead(p)
  BY StepGrows DEF UndisturbedRefresh
<1>2. ASSUME NEW p \in Procs, CallStep(p) PROVE RefInv'
  BY <1>1, <1>2, CallRef DEF UndisturbedRefresh
<1>3. ASSUME NEW p \in Procs, BuildStep(p) \/ Release(p) \/ Acquire(p) PROVE RefInv'
  BY <1>1, <1>3, BuildRef, ReleaseRef, AcquireRef
<1>4. ASSUME QuietStep \/ Crash PROVE RefInv'
  BY <1>1, <1>4, QuietRef, EmptyRef
<1> QED
  BY <1>1, <1>2, <1>3, <1>4, StepShape

\* A refresh that returns has seen every file as it was when it was called or later, or has
\* excluded one that it could not read, as long as events leave the folder to the builds
\* and no refresh is let go early: this is ensure's refresh path, acquireLocked, covers,
\* executeListing and release together.
THEOREM RefreshesListed ==
  Spec /\ [][\A p \in Procs : UndisturbedRefresh(p)]_vars => []RefreshListed
<1>1. Init => SoloInv
  BY EmptySolo
<1>2. Inv /\ Init => RefInv
  BY EmptyRef
<1>3. /\ Inv /\ Inv' /\ HonestInv /\ SoloInv /\ RefInv /\ [Next]_vars
      /\ [\A p \in Procs : UndisturbedRefresh(p)]_vars
      => SoloInv' /\ RefInv'
  <2> SUFFICES ASSUME Inv, Inv', HonestInv, SoloInv, RefInv, [Next]_vars,
                      [\A p \in Procs : UndisturbedRefresh(p)]_vars
               PROVE  SoloInv' /\ RefInv'
    OBVIOUS
  <2>1. CASE \A p \in Procs : UndisturbedRefresh(p)
    BY <2>1, NextSolo, NextRef DEF UndisturbedRefresh
  <2>2. CASE UNCHANGED vars
    BY <2>2, QuietAside, AsideSolo, QuietRef, StepGrows DEF QuietStep
  <2> QED
    BY <2>1, <2>2
<1>4. RefInv => RefreshListed
  BY DEF RefInv, RefCall, RefreshListed, Answered, Recent
<1> QED
  BY <1>1, <1>2, <1>3, <1>4, Invariant, PairsGood, PTL DEF Spec

-----------------------------------------------------------------------------
(* Marks *)

(***************************************************************************)
(* A mark is given up by the build that takes it, and only for a page that *)
(* is as new as the write: the build honours the version each mark was     *)
(* made for, or the mark was made after the build took its number and      *)
(* outlives it.  failListing gives up the marks its listing took, and an   *)
(* event's read may put an older page back: the theorem is about what      *)
(* happens without.                                                        *)
(***************************************************************************)

\* A mark of f that nobody has resolved, and one that was made since build p took its number.
Noted(f) == \/ writeMarked[f] > 0 \/ dirtySeq > dirtyResolvedSeq
            \/ reloadSeq > reloadResolvedSeq
Since(p, f) == \/ writeMarked[f] > 0 \/ dirtySeq > build[p].startSeq
               \/ reloadSeq > build[p].startSeq

\* A listing that has yet to resolve its marks.
Scans(p) == build[p].kind # "filereads" /\ pc[p] # "release"

\* Nobody has started on the marks.
Resting == \A p \in Procs : inflight = p => pc[p] = "start"

MarkRun(p) ==
  Runs(p) =>
    /\ Scans(p) => /\ dirtyResolvedSeq <= build[p].startSeq
                   /\ reloadResolvedSeq <= build[p].startSeq
    /\ \A f \in Files : \/ IF Scans(p) THEN Since(p, f) ELSE Noted(f)
                        \/ Honours(p, f, markFloor[f])

MarkShown ==
  hasSnapshot /\ Resting =>
    \A f \in Files : Noted(f) \/ Recent(snapshot[f], f, markFloor[f])

\* Nothing happens to a key the index has never seen.
KnownKey == \/ known
            \/ /\ ~hasSnapshot /\ inflight = None
               /\ \A p \in Procs : pc[p] \in {"idle", "markfile", "markfolder"}

MarkSeqs == /\ dirtyResolvedSeq <= requestSeq /\ reloadResolvedSeq <= requestSeq
            /\ \A f \in Files : markFloor[f] \in 1 .. Version(f)

\* No listing has failed, and only published pages are re-read.
MarkBuild(p) == ~build[p].err /\ (build[p].kind = "filereads" => hasSnapshot)

MarkInv == /\ MarkSeqs /\ KnownKey /\ MarkShown
           /\ \A p \in Procs : MarkBuild(p) /\ MarkRun(p)

\* The types of the marks.
LEMMA MarkTypes ==
  ASSUME Inv
  PROVE  /\ requestSeq \in Nat /\ dirtySeq \in Nat /\ dirtyResolvedSeq \in Nat
         /\ reloadSeq \in Nat /\ reloadResolvedSeq \in Nat /\ hasSnapshot \in BOOLEAN
         /\ \A f \in Files : /\ writeMarked[f] \in Nat /\ markFloor[f] \in Nat
                             /\ writeMarked[f] <= requestSeq
                             /\ Version(f) \in Nat /\ Version(f) > 0
         /\ \A p \in Procs : build[p].startSeq \in Nat
<1>1. writeMarked \in [Files -> Nat] /\ markFloor \in [Files -> Nat]
  BY DEF Inv, TypeOK, MarkTypeOK, FloorTypeOK
<1>2. \A f \in Files : Version(f) \in Nat /\ Version(f) > 0
  BY VisTypes
<1> QED
  BY <1>1, <1>2, CallTypes DEF Inv, TypeOK, MarkTypeOK, PageTypeOK

\* Marks are added, or left alone.
Remembers ==
  /\ UNCHANGED <<dirtyResolvedSeq, reloadResolvedSeq>>
  /\ \A f \in Files :
       \/ writeMarked'[f] > 0 \/ dirtySeq' > requestSeq \/ reloadSeq' > requestSeq
       \/ /\ markFloor'[f] = markFloor[f] /\ writeMarked'[f] = writeMarked[f]
          /\ dirtySeq' = dirtySeq /\ reloadSeq' = reloadSeq

\* A step outside the build leaves it the marks it has.
LEMMA AsideMarkRun ==
  ASSUME Inv, Inv', SoloInv, Grows, Aside, Remembers, MarkInv, NEW p \in Procs
  PROVE  MarkRun(p)'
<1> SUFFICES ASSUME Runs(p)' PROVE MarkRun(p)'
  BY DEF MarkRun
<1>1. /\ Runs(p) /\ pc'[p] = pc[p] /\ build'[p] = build[p]
      /\ \A f \in Files : \A v \in 1 .. Version(f) : Honours(p, f, v) => Honours(p, f, v)'
  BY AsideHonours
<1>2. MarkRun(p) /\ (Scans(p)' <=> Scans(p)) /\ MarkSeqs
  BY <1>1 DEF MarkInv, Scans
<1>3. build[p].startSeq <= requestSeq
  BY <1>1 DEF SoloInv, Solo, SoloBuild, Runs
<1>4. ASSUME NEW f \in Files
      PROVE  \/ IF Scans(p)' THEN Since(p, f)' ELSE Noted(f)'
             \/ Honours(p, f, markFloor[f])'
  <2>1. CASE writeMarked'[f] > 0 \/ dirtySeq' > requestSeq \/ reloadSeq' > requestSeq
    <3>1. /\ dirtyResolvedSeq' <= requestSeq /\ reloadResolvedSeq' <= requestSeq
          /\ build'[p].startSeq <= requestSeq
      BY <1>1, <1>2, <1>3 DEF Remembers, MarkSeqs
    <3>2. /\ dirtySeq' \in Nat /\ reloadSeq' \in Nat /\ requestSeq \in Nat
          /\ dirtyResolvedSeq' \in Nat /\ reloadResolvedSeq' \in Nat /\ build'[p].startSeq \in Nat
      BY <1>1, MarkTypes DEF Inv, TypeOK, MarkTypeOK
    <3>3. Since(p, f)' /\ Noted(f)'
      BY <2>1, <3>1, <3>2 DEF Since, Noted
    <3> QED
      BY <3>3
  <2>2. CASE /\ markFloor'[f] = markFloor[f] /\ writeMarked'[f] = writeMarked[f]
             /\ dirtySeq' = dirtySeq /\ reloadSeq' = reloadSeq
    <3>1. (Since(p, f) => Since(p, f)') /\ (Noted(f) => Noted(f)')
      BY <1>1, <2>2 DEF Since, Noted, Remembers
    <3>2. PICK v \in 1 .. Version(f) : v = markFloor[f]
      BY <1>2 DEF MarkSeqs
    <3>3. Honours(p, f, v) => Honours(p, f, markFloor[f])'
      BY <1>1, <2>2, <3>2
    <3> QED
      BY <1>1, <1>2, <3>1, <3>2, <3>3 DEF MarkRun
  <2> QED
    BY <2>1, <2>2 DEF Remembers
<1>5. Scans(p)' => /\ dirtyResolvedSeq' <= build'[p].startSeq
                   /\ reloadResolvedSeq' <= build'[p].startSeq
  BY <1>1, <1>2 DEF MarkRun, Remembers
<1> QED
  BY <1>4, <1>5 DEF MarkRun

\* The pages of a key at rest stay what they are until a build starts.
LEMMA ShownStays ==
  ASSUME Inv, Inv', Grows, Remembers, MarkInv, Resting' => Resting,
         UNCHANGED <<snapshot, hasSnapshot>>
  PROVE  MarkShown'
<1> SUFFICES ASSUME hasSnapshot', Resting', NEW f \in Files
             PROVE  Noted(f)' \/ Recent(snapshot[f], f, markFloor[f])'
  BY DEF MarkShown
<1>1. Noted(f) \/ Recent(snapshot[f], f, markFloor[f])
  BY DEF MarkInv, MarkShown
<1>2. /\ dirtyResolvedSeq' <= requestSeq /\ reloadResolvedSeq' <= requestSeq
      /\ requestSeq \in Nat /\ dirtyResolvedSeq' \in Nat /\ reloadResolvedSeq' \in Nat
      /\ dirtySeq' \in Nat /\ reloadSeq' \in Nat
  BY MarkTypes DEF MarkInv, MarkSeqs, Remembers, Inv, TypeOK, MarkTypeOK
<1>3. CASE writeMarked'[f] > 0 \/ dirtySeq' > requestSeq \/ reloadSeq' > requestSeq
  BY <1>2, <1>3 DEF Noted
<1>4. CASE /\ markFloor'[f] = markFloor[f] /\ writeMarked'[f] = writeMarked[f]
           /\ dirtySeq' = dirtySeq /\ reloadSeq' = reloadSeq
  <2>1. Noted(f) => Noted(f)'
    BY <1>4 DEF Noted, Remembers
  <2>2. PICK v \in 1 .. Version(f), pg \in Pages : v = markFloor[f] /\ pg = snapshot[f]
    BY VisTypes DEF MarkInv, MarkSeqs
  <2>3. Recent(pg, f, v) => Recent(snapshot[f], f, markFloor[f])'
    <3>1. Recent(pg, f, v) => Recent(pg, f, v)'
      BY DEF Grows
    <3>2. pg = snapshot'[f] /\ v = markFloor'[f]
      BY <1>4, <2>2
    <3> QED
      BY <3>1, <3>2
  <2> QED
    BY <1>1, <2>1, <2>2, <2>3
<1> QED
  BY <1>3, <1>4 DEF Remembers

\* Numbers only grow, and floors are versions.
LEMMA SeqsStay ==
  ASSUME Inv, Grows, MarkSeqs, UNCHANGED <<dirtyResolvedSeq, reloadResolvedSeq>>,
         requestSeq' \in Nat, requestSeq' >= requestSeq,
         \A f \in Files : markFloor'[f] \in {markFloor[f], Version(f)}
  PROVE  MarkSeqs'
<1>1. /\ requestSeq \in Nat /\ dirtyResolvedSeq \in Nat /\ reloadResolvedSeq \in Nat
      /\ \A f \in Files : Version(f) \in Nat /\ Version(f) > 0 /\ markFloor[f] \in Nat
  BY MarkTypes
<1>2. dirtyResolvedSeq' <= requestSeq' /\ reloadResolvedSeq' <= requestSeq'
  BY <1>1 DEF MarkSeqs
<1>3. \A f \in Files : markFloor'[f] \in 1 .. Version(f)'
  BY <1>1 DEF MarkSeqs, Grows
<1> QED
  BY <1>2, <1>3 DEF MarkSeqs

\* Calls and marks outside the builds add marks.
LEMMA CallMark ==
  ASSUME Inv, Inv', SoloInv, Grows, MarkInv, NEW p \in Procs, CallStep(p)
  PROVE  MarkInv'
<1>1. /\ Aside /\ inflight # p /\ inflight' = inflight
      /\ requestSeq' \in Nat /\ requestSeq' >= requestSeq /\ snapshot' = snapshot
  BY CallAside DEF Aside
<1>2. /\ pc \in [Procs -> Pcs] /\ build \in [Procs -> Builds] /\ requestSeq \in Nat
      /\ writeMarked \in [Files -> Nat] /\ markFloor \in [Files -> Nat]
  BY DEF Inv, TypeOK, ProcTypeOK, MarkTypeOK, FloorTypeOK
<1>3. /\ UNCHANGED <<dirtyResolvedSeq, reloadResolvedSeq, hasSnapshot>>
      /\ \E x : pc' = [pc EXCEPT ![p] = x]
      /\ build' = build \/ build' = [build EXCEPT ![p] = NoBuild]
      /\ known' = known \/ known' = TRUE
  BY DEF CallStep, BeginList, BeginRefresh, EnterRefresh, Serve, Cancel, Return,
         BeginMarkFile, EndMarkFile, WidenMarkFile, MarkFolder, Persist, BeginRefreshFile,
         pageVars, markVars,
         loadVars
<1>4. ASSUME ~EndMarkFile(p), ~WidenMarkFile(p)
      PROVE  UNCHANGED <<markFloor, writeMarked, dirtySeq, reloadSeq>>
  BY <1>4 DEF CallStep, BeginList, BeginRefresh, EnterRefresh, Serve, Cancel, Return,
              BeginMarkFile, Persist, BeginRefreshFile, markVars, floorVars
<1>5. /\ \A f \in Files : markFloor'[f] \in {markFloor[f], Version(f)}
      /\ Remembers \/ (~known /\ known' = known)
  <2>1. CASE ~EndMarkFile(p) /\ ~WidenMarkFile(p)
    BY <1>3, <1>4, <2>1 DEF Remembers
  <2>2. CASE EndMarkFile(p)
    <3>1. PICK g \in Files : g = rd[p].file
      BY <2>2 DEF EndMarkFile, Inv, RdFile, FilePcs
    <3>2. /\ writeMarked' = [writeMarked EXCEPT ![g] = requestSeq + 1]
          /\ markFloor' = [markFloor EXCEPT ![g] = Version(g)]
          /\ UNCHANGED <<dirtySeq, reloadSeq>>
      BY <2>2, <3>1 DEF EndMarkFile
    <3>3. ASSUME NEW f \in Files
          PROVE  /\ markFloor'[f] \in {markFloor[f], Version(f)}
                 /\ \/ writeMarked'[f] > 0
                    \/ markFloor'[f] = markFloor[f] /\ writeMarked'[f] = writeMarked[f]
      BY <1>2, <3>2
    <3> QED
      BY <1>3, <3>2, <3>3 DEF Remembers
  <2>3. CASE WidenMarkFile(p)
    <3>1. PICK g \in Files : g = rd[p].file
      BY <2>3 DEF WidenMarkFile, Inv, RdFile, FilePcs
    <3>2. /\ markFloor' = [markFloor EXCEPT ![g] = Version(g)] /\ MarkFolder /\ known' = known
      BY <2>3, <3>1 DEF WidenMarkFile, loadVars
    <3>3. \A f \in Files : markFloor'[f] \in {markFloor[f], Version(f)}
      BY <1>2, <3>2
    <3>4. CASE known
      BY <1>2, <1>3, <3>2, <3>3, <3>4 DEF MarkFolder, Remembers
    <3> QED
      BY <3>2, <3>3, <3>4
  <2> QED
    BY <2>1, <2>2, <2>3
<1>6. MarkSeqs'
  BY <1>1, <1>3, <1>5, SeqsStay DEF MarkInv
<1>7. KnownKey'
  <2>1. CASE known
    BY <1>3, <2>1 DEF KnownKey
  <2>2. CASE ~known /\ ~known'
    <3>1. /\ ~hasSnapshot /\ inflight = None
          /\ \A q \in Procs : pc[q] \in {"idle", "markfile", "markfolder"}
      BY <2>2 DEF MarkInv, KnownKey
    <3>2. (\E f \in Files : BeginMarkFile(p, f)) \/ WidenMarkFile(p)
      BY <2>2, <3>1 DEF CallStep, BeginList, BeginRefresh, EnterRefresh, Serve, Cancel, Return,
             EndMarkFile, Persist, BeginRefreshFile
    <3>3. pc'[p] \in {"idle", "markfile", "markfolder"}
      BY <1>2, <3>2 DEF BeginMarkFile, WidenMarkFile
    <3> QED
      BY <1>1, <1>2, <1>3, <3>1, <3>3 DEF KnownKey
  <2>3. known \in BOOLEAN
    BY DEF Inv, TypeOK, LoadTypeOK
  <2> QED
    BY <1>3, <2>1, <2>2, <2>3 DEF KnownKey
<1>8. ASSUME NEW q \in Procs PROVE MarkBuild(q)'
  <2>1. MarkBuild(q) /\ ~NoBuild.err /\ NoBuild.kind # "filereads"
    BY DEF MarkInv, NoBuild
  <2>2. build'[q] = build[q] \/ build'[q] = NoBuild
    BY <1>2, <1>3
  <2> QED
    BY <1>3, <2>1, <2>2 DEF MarkBuild
<1>9. Resting' => Resting
  BY <1>1, <1>2, <1>3 DEF Resting
<1>10. CASE Remembers
  BY <1>1, <1>3, <1>6, <1>7, <1>8, <1>9, <1>10, AsideMarkRun, ShownStays DEF MarkInv
<1>11. CASE ~known /\ known' = known
  <2>1. ~hasSnapshot' /\ inflight' = None
    BY <1>1, <1>3, <1>11 DEF MarkInv, KnownKey
  <2> QED
    BY <1>6, <1>7, <1>8, <2>1, PageIndexAssumption DEF MarkInv, MarkShown, MarkRun, Runs
<1> QED
  BY <1>5, <1>10, <1>11

\* So do folder marks and reloads; edits change no mark.
LEMMA QuietMark ==
  ASSUME Inv, Inv', SoloInv, Grows, MarkInv, QuietStep
  PROVE  MarkInv'
<1>1. /\ Aside /\ UNCHANGED <<inflight, followUp, pc, build, rd, call>>
      /\ requestSeq' \in Nat /\ requestSeq' >= requestSeq /\ snapshot' = snapshot
  BY QuietAside DEF Aside
<1>2. requestSeq \in Nat /\ markFloor \in [Files -> Nat] /\ known \in BOOLEAN
  BY DEF Inv, TypeOK, MarkTypeOK, FloorTypeOK, LoadTypeOK
<1>3. /\ UNCHANGED <<dirtyResolvedSeq, reloadResolvedSeq, hasSnapshot, known>>
      /\ \A f \in Files : markFloor'[f] \in {markFloor[f], Version(f)}
  BY DEF QuietStep, Edit, MarkDirty, MarkFolder, ForceReload, vars, pageVars, markVars, loadVars,
         floorVars
<1>4. Remembers \/ ~known
  <2>1. CASE MarkDirty \/ ForceReload
    <3>1. ~known \/ dirtySeq' = requestSeq + 1 \/ reloadSeq' = requestSeq + 1
      BY <2>1 DEF MarkDirty, MarkFolder, ForceReload
    <3>2. ~known \/ dirtySeq' > requestSeq \/ reloadSeq' > requestSeq
      BY <1>2, <3>1
    <3> QED
      BY <1>3, <3>2 DEF Remembers
  <2>2. CASE ~MarkDirty /\ ~ForceReload
    BY <1>3, <2>2 DEF QuietStep, Edit, vars, markVars, floorVars, Remembers
  <2> QED
    BY <2>1, <2>2
<1>5. MarkSeqs'
  BY <1>1, <1>3, SeqsStay DEF MarkInv
<1>6. KnownKey' /\ \A q \in Procs : MarkBuild(q)'
  BY <1>1, <1>3 DEF MarkInv, KnownKey, MarkBuild
<1>7. Resting' => Resting
  BY <1>1 DEF Resting
<1>8. CASE Remembers
  BY <1>1, <1>3, <1>5, <1>6, <1>7, <1>8, AsideMarkRun, ShownStays DEF MarkInv
<1>9. CASE ~known
  <2>1. ~hasSnapshot' /\ inflight' = None
    BY <1>1, <1>3, <1>9 DEF MarkInv, KnownKey
  <2> QED
    BY <1>5, <1>6, <2>1, PageIndexAssumption DEF MarkInv, MarkShown, MarkRun, Runs
<1> QED
  BY <1>4, <1>8, <1>9

\* acquireLocked touches no mark, and queues a re-read only of published pages.
LEMMA AcquireMark ==
  ASSUME Inv, Inv', SoloInv, Grows, MarkInv, NEW p \in Procs, Acquire(p)
  PROVE  MarkInv'
<1>1. /\ Aside /\ requestSeq' \in Nat /\ requestSeq' >= requestSeq
      /\ \/ inflight' = inflight
         \/ inflight = None /\ inflight' = p /\ pc'[p] = "start"
  BY AcquireAside DEF Aside
<1>2. /\ pc \in [Procs -> Pcs] /\ build \in [Procs -> Builds] /\ pc[p] = "loop"
      /\ hasSnapshot \in BOOLEAN /\ UseStore \in BOOLEAN /\ storeLoaded \in BOOLEAN
  BY PageIndexAssumption DEF Inv, TypeOK, ProcTypeOK, PageTypeOK, LoadTypeOK, Acquire
<1>3. /\ UNCHANGED <<dirtyResolvedSeq, reloadResolvedSeq, hasSnapshot, known, snapshot, markFloor,
                     writeMarked, dirtySeq, reloadSeq>>
      /\ \E x : pc' = [pc EXCEPT ![p] = x]
  BY DEF Acquire, pageVars, markVars, loadVars, floorVars
<1> DEFINE w == Pending(IsRefresh(p))
           own == [NoBuild EXCEPT !.kind = w.kind, !.startSeq = requestSeq]
<1>4. build' = build \/ build' = [build EXCEPT ![p] = own]
  BY DEF Acquire
<1>5. ~own.err /\ own.kind = w.kind
  BY DEF NoBuild
<1>6. w.kind = "filereads" => hasSnapshot
  BY <1>2 DEF Pending
<1> HIDE DEF own, w
<1>7. Remembers
  BY <1>3 DEF Remembers
<1>8. MarkSeqs'
  BY <1>1, <1>3, SeqsStay DEF MarkInv
<1>9. known
  BY <1>2 DEF MarkInv, KnownKey
<1>10. ASSUME NEW q \in Procs PROVE MarkBuild(q)'
  <2>1. MarkBuild(q)
    BY DEF MarkInv
  <2>2. build'[q] = build[q] \/ build'[q] = own
    BY <1>2, <1>4
  <2> QED
    BY <1>3, <1>5, <1>6, <2>1, <2>2 DEF MarkBuild
<1>11. Resting' => Resting
  <2>1. inflight # p
    BY <1>2 DEF Inv, SingleFlight, OwnerPcs, ReadPcs
  <2> QED
    BY <1>1, <1>2, <1>3, <2>1, PageIndexAssumption DEF Resting
<1> QED
  BY <1>1, <1>3, <1>7, <1>8, <1>9, <1>10, <1>11, AsideMarkRun, ShownStays DEF MarkInv, KnownKey

\* release: the pages a finished build leaves show what its marks were made for.
LEMMA ReleaseMark ==
  ASSUME Inv, Inv', SoloInv, Grows, MarkInv, NEW p \in Procs, Release(p)
  PROVE  MarkInv'
<1>1. /\ Aside /\ requestSeq' \in Nat /\ requestSeq' >= requestSeq /\ inflight = p
      /\ inflight' = followUp /\ pc[p] = "release" /\ followUp # p
  BY ReleaseAside, PageIndexAssumption DEF Aside, Release, Inv, SingleFlight
<1>2. build \in [Procs -> Builds]
  BY DEF Inv, TypeOK, ProcTypeOK
<1>3. /\ UNCHANGED <<dirtyResolvedSeq, reloadResolvedSeq, hasSnapshot, known, snapshot, markFloor,
                     writeMarked, dirtySeq, reloadSeq>>
  BY DEF Release, pageVars, markVars, loadVars, floorVars
<1>4. Remembers
  BY <1>3 DEF Remembers
<1>5. MarkSeqs'
  BY <1>1, <1>3, SeqsStay DEF MarkInv
<1>6. known
  BY <1>1, PageIndexAssumption DEF MarkInv, KnownKey
<1>7. ASSUME NEW q \in Procs PROVE MarkBuild(q)'
  <2>1. MarkBuild(q)
    BY DEF MarkInv
  <2>2. /\ build'[q].err \in {build[q].err, FALSE}
        /\ build'[q].kind \in {build[q].kind, "cold"}
    <3>1. \/ build'[q] = build[q]
          \/ build'[q] = [build[q] EXCEPT !.startSeq = requestSeq]
          \/ \E d : build'[q] = [NoBuild EXCEPT !.delta = d]
      BY DEF Release
    <3> QED
      BY <1>2, <3>1 DEF Builds, NoBuild
  <2> QED
    BY <1>3, <2>1, <2>2 DEF MarkBuild
<1>8. MarkShown'
  <2> SUFFICES ASSUME hasSnapshot', NEW f \in Files
               PROVE  Noted(f)' \/ Recent(snapshot[f], f, markFloor[f])'
    BY DEF MarkShown
  <2>1. Noted(f) \/ Honours(p, f, markFloor[f])
    BY <1>1 DEF MarkInv, MarkRun, Runs, RunPcs, Scans
  <2>2. Noted(f) => Noted(f)'
    BY <1>3 DEF Noted
  <2>3. ASSUME Honours(p, f, markFloor[f]) PROVE Recent(snapshot[f], f, markFloor[f])'
    <3>1. Recent(snapshot[f], f, markFloor[f])
      BY <1>1, <2>3, ReleaseStakes DEF MarkInv, MarkBuild
    <3>2. PICK v \in 1 .. Version(f), pg \in Pages : v = markFloor[f] /\ pg = snapshot[f]
      BY VisTypes DEF MarkInv, MarkSeqs
    <3>3. Recent(pg, f, v)'
      BY <3>1, <3>2 DEF Grows
    <3>4. pg = snapshot'[f] /\ v = markFloor'[f]
      BY <1>3, <3>2
    <3> QED
      BY <3>3, <3>4
  <2> QED
    BY <2>1, <2>2, <2>3
<1> QED
  BY <1>1, <1>3, <1>4, <1>5, <1>6, <1>7, <1>8, AsideMarkRun DEF MarkInv, KnownKey

\* What a build step may do to the marks.
LEMMA BuildMarks ==
  ASSUME Inv, SoloInv, NEW p \in Procs, BuildStep(p), ~FailListing(p)
  PROVE  /\ UNCHANGED <<requestSeq, dirtySeq, reloadSeq, markFloor, known>>
         /\ hasSnapshot' = hasSnapshot \/ hasSnapshot' = TRUE
         /\ build'[p].err = build[p].err /\ build'[p].kind = build[p].kind
         /\ pc'[p] # "start"
         /\ \/ StartListing(p) \/ StartFileReads(p) \/ writeMarked' = writeMarked
         /\ \/ UNCHANGED <<dirtyResolvedSeq, reloadResolvedSeq>>
            \/ /\ pc[p] \in {"diff", "merge"} /\ dirtyResolvedSeq' = build[p].startSeq
               /\ reloadResolvedSeq' \in {reloadResolvedSeq, build[p].startSeq}
<1>1. pc \in [Procs -> Pcs] /\ build \in [Procs -> Builds] /\ Alone(p)
  BY SoloTypes, BuildAlone
<1>2. CASE Hydrate(p) \/ StartListing(p) \/ ReadDir(p) \/ StatDir(p)
  <2>1. CASE Hydrate(p)
    BY <1>1, <2>1 DEF Hydrate, markVars, floorVars
  <2>2. CASE StartListing(p)
    <3>1. /\ UNCHANGED <<requestSeq, dirtySeq, reloadSeq, markFloor, known, hasSnapshot,
                         dirtyResolvedSeq, reloadResolvedSeq>>
          /\ pc'[p] = "readdir"
      BY <1>1, <2>2 DEF StartListing, pageVars, loadVars, floorVars
    <3>2. build'[p].err = build[p].err /\ build'[p].kind = build[p].kind
      BY <1>1, <2>2 DEF StartListing, Builds
    <3> QED
      BY <2>2, <3>1, <3>2
  <2>3. CASE ReadDir(p)
    BY <1>1, <2>3 DEF ReadDir, Builds, markVars, pageVars, loadVars, floorVars
  <2>4. CASE StatDir(p)
    BY <1>1, <2>4 DEF StatDir, Builds, markVars, pageVars, loadVars, floorVars
  <2> QED
    BY <1>2, <2>1, <2>2, <2>3, <2>4
<1>3. CASE Diff(p)
  BY <1>1, <1>3 DEF Diff, Builds, markVars, pageVars, loadVars, floorVars, ResolvedSeq
<1>4. CASE Merge(p)
  <2>1. /\ pc'[p] = "release" /\ pc[p] = "merge"
        /\ UNCHANGED <<requestSeq, dirtySeq, reloadSeq, markFloor, known, writeMarked>>
        /\ hasSnapshot' = TRUE /\ dirtyResolvedSeq' = build[p].startSeq
        /\ reloadResolvedSeq' \in {reloadResolvedSeq, build[p].startSeq}
    BY <1>1, <1>4 DEF Merge, floorVars, ResolvedSeq
  <2>2. PICK x, y : build' = [build EXCEPT ![p].pages = x, ![p].delta = y]
    BY <1>4 DEF Merge
  <2>3. build'[p].err = build[p].err /\ build'[p].kind = build[p].kind
    BY <1>1, <2>2 DEF Builds
  <2> QED
    BY <2>1, <2>3
<1>5. CASE StartFileReads(p) \/ \E f \in Files : NextFile(p, f)
  <2>1. CASE StartFileReads(p)
    <3>1. /\ UNCHANGED <<requestSeq, dirtySeq, reloadSeq, markFloor, known, hasSnapshot,
                         dirtyResolvedSeq, reloadResolvedSeq>>
          /\ pc'[p] # "start"
      BY <1>1, <2>1 DEF StartFileReads, pageVars, loadVars, floorVars
    <3>2. build'[p].err = build[p].err /\ build'[p].kind = build[p].kind
      BY <1>1, <2>1 DEF StartFileReads, Builds
    <3> QED
      BY <2>1, <3>1, <3>2
  <2>2. CASE \E f \in Files : NextFile(p, f)
    <3>1. /\ UNCHANGED <<requestSeq, dirtySeq, reloadSeq, markFloor, known, hasSnapshot,
                         dirtyResolvedSeq, reloadResolvedSeq, writeMarked>>
          /\ pc'[p] = "stat"
      BY <1>1, <2>2 DEF NextFile, markVars, pageVars, loadVars, floorVars
    <3>2. build'[p].err = build[p].err /\ build'[p].kind = build[p].kind
      BY <1>1, <2>2 DEF NextFile, Builds
    <3> QED
      BY <3>1, <3>2
  <2> QED
    BY <1>5, <2>1, <2>2
<1>6. CASE StatFile(p) \/ ReadFile(p)
  <2>1. /\ UNCHANGED <<requestSeq, dirtySeq, reloadSeq, markFloor, known, writeMarked,
                       hasSnapshot, dirtyResolvedSeq, reloadResolvedSeq>>
    BY <1>6 DEF StatFile, ReadFile, markVars, pageVars, loadVars, floorVars
  <2>2. /\ \E x \in {"read", "apply", "merge", "collect"} : pc' = [pc EXCEPT ![p] = x]
        /\ \/ build' = build
           \/ \E g, x : build' = [build EXCEPT ![p].reads[g] = x]
    BY <1>6 DEF StatFile, ReadFile, Deliver
  <2>3. build'[p].err = build[p].err /\ build'[p].kind = build[p].kind
    BY <1>1, <2>2 DEF Builds
  <2>4. pc'[p] # "start"
    BY <1>1, <2>2
  <2> QED
    BY <2>1, <2>3, <2>4
<1>7. CASE ApplyFileRead(p)
  BY <1>1, <1>7 DEF ApplyFileRead, Builds, markVars, loadVars, Alone
<1> QED
  BY <1>2, <1>3, <1>4, <1>5, <1>6, <1>7 DEF BuildStep

\* A build takes the marks, honours them, and resolves those made before it started.
LEMMA BuildMark ==
  ASSUME Inv, Inv', HonestInv, SoloInv, Grows, MarkInv, NEW p \in Procs, BuildStep(p),
         ~FailListing(p)
  PROVE  MarkInv'
<1>1. /\ Alone(p) /\ inflight = p /\ inflight' = p
  BY BuildAlone DEF Alone
<1>2. /\ UNCHANGED <<requestSeq, dirtySeq, reloadSeq, markFloor, known>>
      /\ hasSnapshot' = hasSnapshot \/ hasSnapshot' = TRUE
      /\ build'[p].err = build[p].err /\ build'[p].kind = build[p].kind /\ pc'[p] # "start"
      /\ \/ StartListing(p) \/ StartFileReads(p) \/ writeMarked' = writeMarked
      /\ \/ UNCHANGED <<dirtyResolvedSeq, reloadResolvedSeq>>
         \/ /\ pc[p] \in {"diff", "merge"} /\ dirtyResolvedSeq' = build[p].startSeq
            /\ reloadResolvedSeq' \in {reloadResolvedSeq, build[p].startSeq}
  BY BuildMarks
<1>3. /\ requestSeq \in Nat /\ dirtySeq \in Nat /\ dirtyResolvedSeq \in Nat
      /\ reloadSeq \in Nat /\ reloadResolvedSeq \in Nat /\ build[p].startSeq \in Nat
      /\ build[p].startSeq <= requestSeq /\ MarkSeqs /\ MarkRun(p) /\ MarkBuild(p)
  BY <1>1, MarkTypes DEF SoloInv, Solo, SoloBuild, MarkInv
<1>4. MarkSeqs'
  <2>1. dirtyResolvedSeq' <= requestSeq' /\ reloadResolvedSeq' <= requestSeq'
    BY <1>2, <1>3 DEF MarkSeqs
  <2>2. \A f \in Files : Version(f) \in Nat /\ Version(f)' \in Nat /\ Version(f)' >= Version(f)
    BY MarkTypes DEF Grows
  <2>3. \A f \in Files : markFloor'[f] \in 1 .. Version(f)'
    BY <1>2, <1>3, <2>2 DEF MarkSeqs
  <2> QED
    BY <2>1, <2>3 DEF MarkSeqs
<1>5. KnownKey'
  BY <1>1, <1>2, PageIndexAssumption DEF MarkInv, KnownKey
<1>6. MarkShown'
  BY <1>1, <1>2 DEF MarkShown, Resting
<1>7. ASSUME NEW q \in Procs PROVE MarkBuild(q)'
  <2>1. MarkBuild(q)
    BY DEF MarkInv
  <2>2. build'[q].err = build[q].err /\ build'[q].kind = build[q].kind
    BY <1>1, <1>2 DEF Alone
  <2> QED
    BY <1>2, <2>1, <2>2 DEF MarkBuild
<1>8. MarkRun(p)'
  <2> SUFFICES ASSUME Runs(p)' PROVE MarkRun(p)'
    BY DEF MarkRun
  <2>1. CASE StartListing(p)
    <3>1. /\ build'[p].startSeq = requestSeq /\ pc'[p] = "readdir" /\ build'[p].kind # "filereads"
          /\ \A f \in Files : \A v : Honours(p, f, v)'
      BY <2>1, StartListingHonours
    <3>2. ASSUME NEW f \in Files PROVE Honours(p, f, markFloor[f])'
      <4>1. PICK v : v = markFloor'[f]
        OBVIOUS
      <4>2. Honours(p, f, v)'
        BY <3>1
      <4> QED
        BY <4>1, <4>2
    <3>3. UNCHANGED <<dirtyResolvedSeq, reloadResolvedSeq>>
      BY <2>1 DEF StartListing
    <3> QED
      BY <1>3, <3>1, <3>2, <3>3 DEF MarkRun, MarkSeqs
  <2>2. CASE StartFileReads(p)
    <3>1. /\ build'[p].kind = "filereads" /\ ~Scans(p)'
          /\ \A f \in Files : \A v \in 1 .. Version(f) :
               writeMarked[f] > 0 \/ Recent(snapshot[f], f, v) => Honours(p, f, v)'
      BY <2>2, StartFileReadsHonours DEF Scans
    <3>2. /\ hasSnapshot /\ Resting /\ UNCHANGED <<dirtyResolvedSeq, reloadResolvedSeq>>
      BY <1>1, <1>3, <2>2 DEF StartFileReads, MarkBuild, Resting
    <3>3. ASSUME NEW f \in Files PROVE Noted(f)' \/ Honours(p, f, markFloor[f])'
      <4>1. Noted(f) \/ Recent(snapshot[f], f, markFloor[f])
        BY <3>2 DEF MarkInv, MarkShown
      <4>2. PICK v \in 1 .. Version(f) : v = markFloor[f] /\ v = markFloor'[f]
        BY <1>2, <1>3 DEF MarkSeqs
      <4>3. CASE writeMarked[f] > 0 \/ Recent(snapshot[f], f, v)
        <5>1. Honours(p, f, v)'
          BY <3>1, <4>3
        <5> QED
          BY <4>2, <5>1
      <4>4. CASE dirtySeq > dirtyResolvedSeq \/ reloadSeq > reloadResolvedSeq
        BY <1>2, <3>2, <4>4 DEF Noted
      <4> QED
        BY <4>1, <4>2, <4>3, <4>4 DEF Noted
    <3> QED
      BY <3>1, <3>3 DEF MarkRun
  <2>3. CASE ~StartListing(p) /\ ~StartFileReads(p)
    <3>1. Runs(p)
      <4>1. pc'[p] \in RunPcs /\ pc \in [Procs -> Pcs]
        BY SoloTypes DEF Runs
      <4>2. ~Hydrate(p)
        BY <4>1 DEF Hydrate, RunPcs, ListPcs, ReadPcs
      <4> QED
        BY <1>1, <2>3, <4>2 DEF BuildStep, ReadDir, StatDir, Diff, FailListing, Merge, NextFile,
               StatFile, ReadFile, ApplyFileRead, Runs, RunPcs, ListPcs, ReadPcs
    <3>2. pc[p] # "release"
      BY <2>3 DEF BuildStep, Hydrate, ReadDir, StatDir, Diff, FailListing, Merge, NextFile,
               StatFile, ReadFile, ApplyFileRead
    <3>3. /\ build'[p].startSeq = build[p].startSeq
          /\ \A f \in Files : \A v \in 1 .. Version(f) : Honours(p, f, v) => Honours(p, f, v)'
      BY <3>1, HonoursStep
    <3>4. ASSUME NEW f \in Files PROVE Honours(p, f, markFloor[f]) => Honours(p, f, markFloor[f])'
      <4>1. PICK v \in 1 .. Version(f) : v = markFloor[f] /\ v = markFloor'[f]
        BY <1>2, <1>3 DEF MarkSeqs
      <4>2. Honours(p, f, v) => Honours(p, f, v)'
        BY <3>3
      <4> QED
        BY <4>1, <4>2
    <3>5. CASE Scans(p)
      <4>1. /\ dirtyResolvedSeq <= build[p].startSeq /\ reloadResolvedSeq <= build[p].startSeq
            /\ \A f \in Files : Since(p, f) \/ Honours(p, f, markFloor[f])
        BY <1>3, <3>1, <3>5 DEF MarkRun
      <4>2. /\ dirtyResolvedSeq' <= build[p].startSeq /\ reloadResolvedSeq' <= build[p].startSeq
            /\ dirtyResolvedSeq' \in Nat /\ reloadResolvedSeq' \in Nat
        BY <1>2, <1>3, <4>1
      <4>3. ASSUME NEW f \in Files, Since(p, f) PROVE Since(p, f)' /\ Noted(f)'
        BY <1>2, <1>3, <2>3, <3>3, <4>2, <4>3 DEF Since, Noted
      <4> QED
        BY <3>3, <3>4, <4>1, <4>2, <4>3 DEF MarkRun
    <3>6. CASE ~Scans(p)
      <4>1. build[p].kind = "filereads"
        BY <3>2, <3>6 DEF Scans
      <4>2. pc[p] \notin {"diff", "merge"}
        BY <4>1 DEF SoloInv, Solo, Unread, ScanPcs
      <4>3. ~Scans(p)' /\ \A f \in Files : Noted(f) => Noted(f)'
        BY <1>2, <2>3, <4>1, <4>2 DEF Scans, Noted
      <4>4. \A f \in Files : Noted(f) \/ Honours(p, f, markFloor[f])
        BY <1>3, <3>1, <3>6 DEF MarkRun
      <4> QED
        BY <3>4, <4>3, <4>4 DEF MarkRun
    <3> QED
      BY <3>5, <3>6
  <2> QED
    BY <2>1, <2>2, <2>3
<1>9. ASSUME NEW q \in Procs, q # p PROVE MarkRun(q)'
  BY <1>1, <1>9 DEF MarkRun, Runs
<1> QED
  BY <1>4, <1>5, <1>6, <1>7, <1>8, <1>9 DEF MarkInv

\* A process that has just started has no marks and no pages.
LEMMA EmptyMark ==
  /\ Inv /\ Init => MarkInv
  /\ Inv /\ Inv' /\ Crash => MarkInv'
<1>1. ~NoBuild.err /\ NoBuild.kind # "filereads"
  BY DEF NoBuild
<1>2. ASSUME Inv, Init PROVE MarkInv
  <2>1. /\ requestSeq = 0 /\ dirtyResolvedSeq = 0 /\ reloadResolvedSeq = 0 /\ inflight = None
        /\ ~hasSnapshot /\ \A f \in Files : markFloor[f] = 1
        /\ \A q \in Procs : pc[q] = "idle" /\ build[q] = NoBuild
    BY <1>2 DEF Init, EmptyIndex
  <2>2. \A f \in Files : Version(f) \in Nat /\ Version(f) > 0
    BY <1>2, VisTypes
  <2>3. MarkSeqs
    BY <2>1, <2>2 DEF MarkSeqs
  <2> QED
    BY <1>1, <2>1, <2>3, PageIndexAssumption
       DEF MarkInv, KnownKey, MarkShown, MarkBuild, MarkRun, Runs
<1>3. ASSUME Inv, Inv', Crash PROVE MarkInv'
  <2>1. /\ requestSeq' = 0 /\ dirtyResolvedSeq' = 0 /\ reloadResolvedSeq' = 0 /\ inflight' = None
        /\ ~hasSnapshot' /\ disk' = disk /\ \A f \in Files : markFloor'[f] = Version(f)
        /\ \A q \in Procs : pc'[q] = "idle" /\ build'[q] = NoBuild
    BY <1>3 DEF Crash, EmptyIndex, diskVars
  <2>2. \A f \in Files : Version(f)' \in Nat /\ Version(f)' > 0 /\ Version(f)' = Version(f)
    BY <1>3, <2>1 DEF Inv, TypeOK, DiskTypeOK, Version
  <2>3. MarkSeqs'
    BY <2>1, <2>2 DEF MarkSeqs
  <2> QED
    BY <1>1, <2>1, <2>3, PageIndexAssumption
       DEF MarkInv, KnownKey, MarkShown, MarkBuild, MarkRun, Runs
<1> QED
  BY <1>2, <1>3

\* No event's read runs beside a build, and no listing fails.
UndisturbedMark(p) == ~WarmRead(p) /\ ~FailListing(p)

\* Every such step keeps the invariant.
LEMMA NextMark ==
  ASSUME Inv, Inv', HonestInv, SoloInv, MarkInv, [Next]_vars,
         \A p \in Procs : UndisturbedMark(p)
  PROVE  MarkInv'
<1>1. Grows /\ \A p \in Procs : ~WarmRead(p)
  BY StepGrows DEF UndisturbedMark
<1>2. ASSUME NEW p \in Procs, BuildStep(p) PROVE MarkInv'
  BY <1>1, <1>2, BuildMark DEF UndisturbedMark
<1>3. ASSUME NEW p \in Procs, CallStep(p) \/ Release(p) \/ Acquire(p) PROVE MarkInv'
  BY <1>1, <1>3, CallMark, ReleaseMark, AcquireMark
<1>4. ASSUME QuietStep \/ Crash PROVE MarkInv'
  BY <1>1, <1>4, QuietMark, EmptyMark
<1> QED
  BY <1>1, <1>2, <1>3, <1>4, StepShape

\* The mark is there, or the page shows it, or the running build reads on.
LEMMA MarkInvKept ==
  ASSUME Inv, SoloInv, MarkInv
  PROVE  MarkKept
<1> SUFFICES ASSUME hasSnapshot, NEW f \in Files
             PROVE  \/ Recent(snapshot[f], f, markFloor[f]) \/ Noted(f)
                    \/ \E p \in Procs : WillRead(p, f)
  BY DEF MarkKept, Recent, Noted
<1>1. CASE Resting
  BY <1>1 DEF MarkInv, MarkShown
<1>2. ASSUME NEW p \in Procs, inflight = p, pc[p] # "start", ~WillRead(p, f)
      PROVE  Recent(snapshot[f], f, markFloor[f]) \/ Noted(f)
  <2>1. pc[p] \in {"collect", "release"} \cup ReadPcs /\ snapshot[f] \in Pages
    BY <1>2, VisTypes DEF Inv, SingleFlight, OwnerPcs, WillRead
  <2>2. Runs(p) /\ MarkRun(p) /\ ~build[p].err
    BY <1>2, <2>1 DEF Runs, RunPcs, ListPcs, MarkInv, MarkBuild
  <2>3. CASE pc[p] = "release"
    BY <2>2, <2>3, ReleaseStakes DEF MarkRun, Scans
  <2>4. CASE pc[p] # "release"
    <3>1. build[p].kind = "filereads" /\ ~Unseen(p, f)
      BY <1>2, <2>1, <2>4 DEF WillRead, IsListing, Unseen
    <3>2. snapshot[f] \in Stakes(p, f)
      BY <2>1, <3>1 DEF Stakes
    <3> QED
      BY <2>2, <3>1, <3>2 DEF MarkRun, Scans, Honours
  <2> QED
    BY <2>3, <2>4
<1> QED
  BY <1>1, <1>2 DEF Resting

\* A mark is never lost: as long as events leave the folder to the builds and no listing
\* fails, the published page shows the write a mark was made for, or the mark or the build
\* that took it is still there.  This is about MarkFileDirty, MarkDirty and ForceReload, the
\* builds that take their marks, and the numbers that resolve them.
THEOREM MarksKeptUntilShown ==
  Spec /\ [][\A p \in Procs : UndisturbedMark(p)]_vars => []MarkKept
<1>1. Init => SoloInv
  BY EmptySolo
<1>2. Inv /\ Init => MarkInv
  BY EmptyMark
<1>3. /\ Inv /\ Inv' /\ HonestInv /\ SoloInv /\ MarkInv /\ [Next]_vars
      /\ [\A p \in Procs : UndisturbedMark(p)]_vars
      => SoloInv' /\ MarkInv'
  <2> SUFFICES ASSUME Inv, Inv', HonestInv, SoloInv, MarkInv, [Next]_vars,
                      [\A p \in Procs : UndisturbedMark(p)]_vars
               PROVE  SoloInv' /\ MarkInv'
    OBVIOUS
  <2>1. CASE \A p \in Procs : UndisturbedMark(p)
    BY <2>1, NextSolo, NextMark DEF UndisturbedMark
  <2>2. CASE UNCHANGED vars
    BY <2>2, QuietAside, AsideSolo, QuietMark, StepGrows DEF QuietStep
  <2> QED
    BY <2>1, <2>2
<1>4. Inv /\ SoloInv /\ MarkInv => MarkKept
  BY MarkInvKept
<1> QED
  BY <1>1, <1>2, <1>3, <1>4, Invariant, PairsGood, PTL DEF Spec

-----------------------------------------------------------------------------
(* Readers *)

(***************************************************************************)
(* As long as every mark is an exact file mark, a reader gets what was     *)
(* written before its call: an unresolved mark makes it wait, for a build  *)
(* whose number is no older than the mark, and a build it waits for        *)
(* honours whatever had been marked when it began to.  pendingLocked looks *)
(* for marks and for re-reads, and not for a listing that took the marks:  *)
(* a reader that is served the snapshot while one is under way may get the *)
(* page from before the write, and the theorem is about what happens       *)
(* without.                                                                *)
(***************************************************************************)

FileMarksOnly == dirtySeq = 0 /\ reloadSeq = 0

\* A mark that is still there was made after the running build took the others.
MarkAge(p) ==
  Runs(p) => \A f \in Files : writeMarked[f] > 0 => writeMarked[f] > build[p].startSeq

\* A reader asks for no more than has been marked.
Floors(q) == \A f \in Files : call[q].floor[f] \in 1 .. markFloor[f]

\* The reader has pages to return.
HasPages(q) == /\ pc[q] \in {"persist", "return"} \/ (pc[q] = "loop" /\ ~call[q].first)
               /\ call[q].ok \/ ~call[q].first

ReaderAnswer(q) ==
  HasPages(q) => \A f \in Files : Recent(call[q].pages[f], f, call[q].floor[f])

\* It runs build p, or waits for it.
Depends(q, p) == q = p \/ (pc[q] = "wait" /\ call[q].on = p)

ReaderWaits(q) ==
  \A p \in Procs : Runs(p) /\ Depends(q, p) =>
    \A f \in Files : Honours(p, f, call[q].floor[f])

ReaderInv ==
  /\ \A p \in Procs : MarkAge(p)
  /\ \A q \in Readers : Floors(q) /\ (FileMarksOnly => ReaderAnswer(q) /\ ReaderWaits(q))

\* Whoever honours a version honours the ones before it.
LEMMA HonoursDown ==
  ASSUME Inv, NEW f \in Files, NEW v \in Nat, NEW u \in 1 .. v
  PROVE  /\ \A pg : Recent(pg, f, v) => Recent(pg, f, u)
         /\ \A p \in Procs : Honours(p, f, v) => Honours(p, f, u)
<1>1. Version(f) \in Nat
  BY VisTypes
<1>2. \A pg : Recent(pg, f, v) => Recent(pg, f, u)
  BY <1>1 DEF Recent, Shows
<1>3. ASSUME NEW p \in Procs, Honours(p, f, v) PROVE Honours(p, f, u)
  <2>1. build[p].fps[f] \in Int
    BY VisTypes, PageIndexAssumption DEF Fps
  <2>2. build[p].fps[f] >= v => build[p].fps[f] >= u
    BY <2>1
  <2> QED
    BY <1>2, <1>3, <2>2 DEF Honours
<1> QED
  BY <1>2, <1>3

\* Marks are numbered, and what they were made for grows.
MarksGrow ==
  /\ dirtySeq' \in {dirtySeq, requestSeq + 1} /\ reloadSeq' \in {reloadSeq, requestSeq + 1}
  /\ \A f \in Files : /\ markFloor'[f] \in {markFloor[f], Version(f)}
                      /\ writeMarked'[f] \in {writeMarked[f], requestSeq + 1, 0}

\* What grows for the readers.
LEMMA GrowFacts ==
  ASSUME Inv, MarkInv, MarksGrow
  PROVE  /\ FileMarksOnly' => FileMarksOnly
         /\ \A f \in Files : /\ markFloor[f] \in Nat /\ markFloor'[f] \in Nat
                             /\ markFloor'[f] >= markFloor[f]
<1>1. /\ requestSeq \in Nat /\ dirtySeq \in Nat /\ reloadSeq \in Nat
      /\ \A f \in Files : markFloor[f] \in Nat /\ Version(f) \in Nat
  BY MarkTypes
<1>2. FileMarksOnly' => FileMarksOnly
  BY <1>1 DEF MarksGrow, FileMarksOnly
<1>3. ASSUME NEW f \in Files PROVE markFloor'[f] \in Nat /\ markFloor'[f] >= markFloor[f]
  BY <1>1 DEF MarksGrow, MarkInv, MarkSeqs
<1> QED
  BY <1>1, <1>2, <1>3

\* With file marks only, a note is a file's mark.
LEMMA OnlyFileMarks ==
  ASSUME Inv, FileMarksOnly
  PROVE  /\ \A f \in Files : Noted(f) => writeMarked[f] > 0
         /\ \A p \in Procs, f \in Files : Since(p, f) => writeMarked[f] > 0
BY MarkTypes DEF FileMarksOnly, Noted, Since

\* A reader nobody touches keeps asking for what it asked for.
LEMMA FloorsStay ==
  ASSUME Inv, MarkInv, MarksGrow, NEW q \in Procs, Floors(q), call'[q].floor = call[q].floor
  PROVE  Floors(q)'
<1>1. ASSUME NEW f \in Files PROVE call'[q].floor[f] \in 1 .. markFloor'[f]
  <2>1. /\ markFloor[f] \in Nat /\ markFloor'[f] \in Nat /\ markFloor'[f] >= markFloor[f]
        /\ call[q].floor[f] \in 1 .. markFloor[f]
    BY GrowFacts DEF Floors
  <2> QED
    BY <2>1
<1> QED
  BY <1>1 DEF Floors

\* What it asks for is a version of the file.
LEMMA FloorTypes ==
  ASSUME Inv, MarkInv, NEW q \in Procs, Floors(q), NEW f \in Files
  PROVE  /\ call[q].floor[f] \in 1 .. Version(f) /\ markFloor[f] \in Nat
         /\ call[q].floor[f] \in 1 .. markFloor[f]
<1>1. /\ Version(f) \in Nat /\ markFloor[f] \in 1 .. Version(f)
      /\ call[q].floor[f] \in 1 .. markFloor[f]
  BY MarkTypes DEF MarkInv, MarkSeqs, Floors
<1> QED
  BY <1>1

\* Its pages stay as new as they were.
LEMMA AnswerStays ==
  ASSUME Inv, Grows, MarkInv, NEW q \in Procs, Floors(q), ReaderAnswer(q),
         call'[q].pages = call[q].pages, call'[q].floor = call[q].floor,
         HasPages(q)' => HasPages(q)
  PROVE  ReaderAnswer(q)'
<1>1. ASSUME HasPages(q)', NEW f \in Files
      PROVE  Recent(call[q].pages[f], f, call[q].floor[f])'
  <2>1. PICK v \in 1 .. Version(f), pg \in Pages : v = call[q].floor[f] /\ pg = call[q].pages[f]
    BY FloorTypes, CallTypes
  <2>2. Recent(pg, f, v)'
    BY <1>1, <2>1 DEF ReaderAnswer, Grows
  <2> QED
    BY <2>1, <2>2
<1> QED
  BY <1>1 DEF ReaderAnswer

\* A re-read starts by honouring what has been marked, with file marks only.
LEMMA ReReadHonours ==
  ASSUME Inv, SoloInv, Grows, MarkInv, FileMarksOnly, NEW p \in Procs, StartFileReads(p),
         NEW f \in Files, NEW u \in 1 .. markFloor[f]
  PROVE  Honours(p, f, u)'
<1>1. hasSnapshot /\ Resting
  <2>1. inflight = p /\ pc[p] = "start" /\ build[p].kind = "filereads"
    BY BuildAlone DEF BuildStep, Alone, StartFileReads
  <2> QED
    BY <2>1 DEF MarkInv, MarkBuild, Resting
<1>2. writeMarked[f] > 0 \/ Recent(snapshot[f], f, markFloor[f])
  BY <1>1, OnlyFileMarks DEF MarkInv, MarkShown
<1>3. markFloor[f] \in Nat /\ markFloor[f] \in 1 .. Version(f) /\ Version(f) \in Nat
  BY MarkTypes DEF MarkInv, MarkSeqs
<1>4. writeMarked[f] > 0 \/ Recent(snapshot[f], f, u)
  BY <1>2, <1>3, HonoursDown
<1>5. u \in 1 .. Version(f)
  BY <1>3
<1> QED
  BY <1>4, <1>5, StartFileReadsHonours

\* What a reader depends on goes on honouring what it asked for.
LEMMA WaitsStay ==
  ASSUME Inv, SoloInv, Grows, Carries, MarkInv, FileMarksOnly, NEW q \in Procs, Floors(q),
         ReaderWaits(q), call'[q].floor = call[q].floor,
         \A p \in Procs : Runs(p)' /\ Depends(q, p)' => Depends(q, p)
  PROVE  ReaderWaits(q)'
<1>1. ASSUME NEW p \in Procs, Runs(p)', Depends(q, p)', NEW f \in Files
      PROVE  Honours(p, f, call[q].floor[f])'
  <2>1. PICK v \in 1 .. Version(f) : v = call[q].floor[f] /\ v \in 1 .. markFloor[f]
    BY FloorTypes
  <2>2. CASE Runs(p) /\ (Honours(p, f, v) => Honours(p, f, v)')
    <3>1. Honours(p, f, v)
      BY <1>1, <2>1, <2>2 DEF ReaderWaits
    <3> QED
      BY <2>1, <2>2, <3>1
  <2>3. CASE StartListing(p) /\ Honours(p, f, v)'
    BY <2>1, <2>3
  <2>4. CASE StartFileReads(p)
    <3>1. Honours(p, f, v)'
      BY <2>1, <2>4, ReReadHonours
    <3> QED
      BY <2>1, <3>1
  <2> QED
    BY <1>1, <2>2, <2>3, <2>4 DEF Carries
<1> QED
  BY <1>1 DEF ReaderWaits

\* A mark made during a build is younger than it.
LEMMA AsideAge ==
  ASSUME Inv, SoloInv, Grows, Aside, MarksGrow, NEW p \in Procs, MarkAge(p)
  PROVE  MarkAge(p)'
<1> SUFFICES ASSUME Runs(p)', NEW f \in Files, writeMarked'[f] > 0
             PROVE  writeMarked'[f] > build'[p].startSeq
  BY DEF MarkAge
<1>1. Runs(p) /\ build'[p] = build[p]
  BY AsideHonours
<1>2. /\ build[p].startSeq <= requestSeq /\ build[p].startSeq \in Nat /\ requestSeq \in Nat
      /\ writeMarked[f] \in Nat
  BY <1>1, MarkTypes DEF SoloInv, Solo, SoloBuild, Runs
<1>3. writeMarked[f] > 0 => writeMarked[f] > build[p].startSeq
  BY <1>1 DEF MarkAge
<1> QED
  BY <1>1, <1>2, <1>3 DEF MarksGrow

\* A reader that does not move keeps what it has.
LEMMA ReaderKept ==
  ASSUME Inv, SoloInv, Grows, Carries, MarkInv, MarksGrow, ReaderInv, NEW q \in Readers,
         call'[q] = call[q], HasPages(q)' => HasPages(q),
         \A p \in Procs : Runs(p)' /\ Depends(q, p)' => Depends(q, p)
  PROVE  Floors(q)' /\ (FileMarksOnly' => ReaderAnswer(q)' /\ ReaderWaits(q)')
<1>1. /\ q \in Procs /\ Floors(q) /\ (FileMarksOnly => ReaderAnswer(q) /\ ReaderWaits(q))
      /\ FileMarksOnly' => FileMarksOnly
  BY GrowFacts DEF ReaderInv, Procs
<1> QED
  BY <1>1, FloorsStay, AnswerStays, WaitsStay

\* A build step leaves the readers where they are.
LEMMA BuildReader ==
  ASSUME Inv, Inv', HonestInv, SoloInv, Grows, MarkInv, ReaderInv, NEW p \in Procs, BuildStep(p),
         ~FailListing(p)
  PROVE  ReaderInv'
<1>1. /\ Alone(p) /\ inflight = p /\ inflight' = p /\ call' = call /\ Carries
      /\ UNCHANGED <<requestSeq, dirtySeq, reloadSeq, markFloor>>
      /\ StartListing(p) \/ StartFileReads(p) \/ writeMarked' = writeMarked
  BY BuildAlone, StepCarries, BuildMarks DEF Alone
<1>2. StartListing(p) \/ StartFileReads(p) => \A f \in Files : writeMarked'[f] = 0
  BY DEF StartListing, StartFileReads
<1>3. MarksGrow
  BY <1>1, <1>2 DEF MarksGrow
<1>4. ASSUME NEW q \in Procs PROVE MarkAge(q)'
  <2> SUFFICES ASSUME Runs(q)', NEW f \in Files, writeMarked'[f] > 0
               PROVE  writeMarked'[f] > build'[q].startSeq
    BY DEF MarkAge
  <2>1. q = p
    BY <1>1 DEF Runs
  <2>2. ~StartListing(q) /\ ~StartFileReads(q)
    BY <1>2, <2>1
  <2>3. Runs(q) /\ build'[q].startSeq = build[q].startSeq
    BY <1>1, <2>2 DEF Carries
  <2> QED
    BY <1>1, <2>1, <2>2, <2>3 DEF ReaderInv, MarkAge
<1>5. ASSUME NEW q \in Readers
      PROVE  Floors(q)' /\ (FileMarksOnly' => ReaderAnswer(q)' /\ ReaderWaits(q)')
  <2>1. HasPages(q)' => HasPages(q)
    <3>1. CASE q = p
      <4>1. pc'[p] \in OwnerPcs \cup ReadPcs
        BY <1>1 DEF Inv, SingleFlight
      <4> QED
        BY <3>1, <4>1 DEF HasPages, OwnerPcs, ReadPcs
    <3>2. CASE q # p
      <4>1. pc'[q] = pc[q]
        BY <1>1, <3>2 DEF Alone, Procs
      <4> QED
        BY <1>1, <4>1 DEF HasPages
    <3> QED
      BY <3>1, <3>2
  <2>2. ASSUME NEW x \in Procs, Runs(x)', Depends(q, x)' PROVE Depends(q, x)
    <3>1. x = p
      BY <1>1, <2>2 DEF Runs
    <3>2. q = p \/ pc'[q] = pc[q]
      BY <1>1 DEF Alone, Procs
    <3> QED
      BY <1>1, <2>2, <3>1, <3>2 DEF Depends
  <2> QED
    BY <1>1, <1>3, <2>1, <2>2, ReaderKept
<1> QED
  BY <1>4, <1>5 DEF ReaderInv

\* When one goroutine moves outside the builds, the readers among the others stay.
LEMMA OthersReader ==
  ASSUME Inv, SoloInv, Grows, Aside, Carries, MarkInv, MarksGrow, ReaderInv, NEW p \in Procs,
         \A q \in Procs \ {p} : pc'[q] = pc[q] /\ call'[q] = call[q],
         p \in Readers => Floors(p)' /\ (FileMarksOnly' => ReaderAnswer(p)' /\ ReaderWaits(p)')
  PROVE  ReaderInv'
<1>1. \A q \in Procs : MarkAge(q)'
  BY AsideAge DEF ReaderInv
<1>2. ASSUME NEW q \in Readers, q # p
      PROVE  Floors(q)' /\ (FileMarksOnly' => ReaderAnswer(q)' /\ ReaderWaits(q)')
  <2>1. pc'[q] = pc[q] /\ call'[q] = call[q]
    BY <1>2 DEF Procs
  <2>2. HasPages(q)' => HasPages(q)
    BY <2>1 DEF HasPages
  <2>3. \A x \in Procs : Depends(q, x)' => Depends(q, x)
    BY <2>1 DEF Depends
  <2> QED
    BY <2>1, <2>2, <2>3, ReaderKept
<1> QED
  BY <1>1, <1>2 DEF ReaderInv

\* Edits and folder marks move nobody.
LEMMA QuietReader ==
  ASSUME Inv, HonestInv, SoloInv, Grows, MarkInv, ReaderInv, QuietStep
  PROVE  ReaderInv'
<1>1. /\ Aside /\ UNCHANGED <<inflight, followUp, pc, build, rd, call>> /\ Carries
  BY QuietAside, StepCarries
<1>2. /\ dirtySeq' \in {dirtySeq, requestSeq + 1} /\ reloadSeq' \in {reloadSeq, requestSeq + 1}
      /\ writeMarked' = writeMarked
      /\ \A f \in Files : markFloor'[f] \in {markFloor[f], Version(f)}
  BY DEF QuietStep, Edit, MarkDirty, MarkFolder, ForceReload, vars, markVars, floorVars
<1>3. MarksGrow
  BY <1>2 DEF MarksGrow
<1>4. \A q \in Procs : MarkAge(q)'
  BY <1>1, <1>3, AsideAge DEF ReaderInv
<1>5. ASSUME NEW q \in Readers
      PROVE  Floors(q)' /\ (FileMarksOnly' => ReaderAnswer(q)' /\ ReaderWaits(q)')
  <2>1. HasPages(q)' => HasPages(q)
    BY <1>1 DEF HasPages
  <2>2. \A x \in Procs : Depends(q, x)' => Depends(q, x)
    BY <1>1 DEF Depends
  <2> QED
    BY <1>1, <1>3, <2>1, <2>2, ReaderKept
<1> QED
  BY <1>4, <1>5 DEF ReaderInv

\* A reader is served the snapshot when there is nothing to wait for: while no build is
\* under way, or one has just ended, it shows what was marked.
LEMMA ServeShows ==
  ASSUME Inv, MarkInv, FileMarksOnly, NEW p \in Readers, Serve(p), call[p].first,
         \A q \in Procs : inflight = q => pc[q] \in {"start", "release"}, NEW f \in Files
  PROVE  Recent(snapshot[f], f, markFloor[f])
<1>1. /\ hasSnapshot \in BOOLEAN /\ UseStore \in BOOLEAN /\ storeLoaded \in BOOLEAN
      /\ ~IsRefresh(p) /\ ~Pending(IsRefresh(p)).any
  BY PageIndexAssumption DEF Inv, TypeOK, PageTypeOK, LoadTypeOK, IsRefresh, Serve
<1>2. hasSnapshot /\ MarkedFiles = {}
  BY <1>1 DEF Pending
<1>3. ~(writeMarked[f] > 0) /\ ~Noted(f)
  BY <1>2, OnlyFileMarks DEF MarkedFiles
<1>4. CASE Resting
  BY <1>2, <1>3, <1>4 DEF MarkInv, MarkShown
<1>5. ASSUME NEW q \in Procs, inflight = q, pc[q] = "release"
      PROVE  Recent(snapshot[f], f, markFloor[f])
  <2>1. Honours(q, f, markFloor[f]) /\ ~build[q].err
    BY <1>3, <1>5 DEF MarkInv, MarkRun, MarkBuild, Scans, Runs, RunPcs
  <2> QED
    BY <1>5, <2>1, ReleaseStakes
<1> QED
  BY <1>4, <1>5 DEF Resting

\* A reader that joins the running build has seen no mark younger than it.
LEMMA JoinHonours ==
  ASSUME Inv, MarkInv, ReaderInv, FileMarksOnly, NEW q \in Readers, NEW p \in Procs, Runs(p),
         Pending(IsRefresh(q)).any,
         build[p].startSeq >= Pending(IsRefresh(q)).need, NEW f \in Files
  PROVE  Honours(p, f, markFloor[f])
<1>1. /\ hasSnapshot \in BOOLEAN /\ UseStore \in BOOLEAN /\ storeLoaded \in BOOLEAN
      /\ ~IsRefresh(q)
  BY PageIndexAssumption DEF Inv, TypeOK, PageTypeOK, LoadTypeOK, IsRefresh
<1>2. /\ build[p].startSeq \in Nat /\ writeMarked[f] \in Nat /\ writeMarked[f] <= requestSeq
      /\ requestSeq \in Nat
      /\ writeMarked \in [Files -> Nat] /\ reloadSeq = 0 /\ reloadResolvedSeq \in Nat
  BY MarkTypes DEF FileMarksOnly, Inv, TypeOK, MarkTypeOK
<1>3. ASSUME writeMarked[f] > 0 PROVE FALSE
  <2>1. writeMarked[f] > build[p].startSeq
    BY <1>3 DEF ReaderInv, MarkAge
  <2>2. f \in MarkedFiles
    BY <1>3 DEF MarkedFiles
  <2>3. CASE ~hasSnapshot
    <3>1. Pending(IsRefresh(q)).need = requestSeq
      BY <1>1, <2>3 DEF Pending
    <3> QED
      BY <1>2, <2>1, <3>1
  <2>4. CASE hasSnapshot
    <3>1. Pending(IsRefresh(q)).need = MaxMarkedSeq
      BY <1>1, <1>2, <2>2, <2>4 DEF Pending
    <3>2. MaxMarkedSeq \in Nat /\ writeMarked[f] <= MaxMarkedSeq
      BY <1>2, <2>2, MaxMarkedSeqType DEF Inv, TypeOK
    <3> QED
      BY <1>2, <2>1, <3>1, <3>2
  <2> QED
    BY <1>1, <2>3, <2>4
<1> QED
  BY <1>3, OnlyFileMarks DEF MarkInv, MarkRun

\* A reader that is served the first time it looks while a listing is under way.
ServedEarly(p) == /\ p \in Readers /\ Serve(p) /\ call[p].first
                  /\ \E q \in Procs : inflight = q /\ pc[q] \notin {"start", "release"}

\* A reader's call begins, is served, or ends.
LEMMA CallReader ==
  ASSUME Inv, HonestInv, SoloInv, Grows, MarkInv, ReaderInv, NEW p \in Procs, CallStep(p),
         ~ServedEarly(p)
  PROVE  ReaderInv'
<1>1. /\ Aside /\ inflight # p /\ inflight' = inflight /\ Carries
  BY CallAside, StepCarries
<1>2. /\ pc \in [Procs -> Pcs] /\ call \in [Procs -> Calls] /\ requestSeq \in Nat
      /\ writeMarked \in [Files -> Nat] /\ markFloor \in [Files -> Nat]
      /\ \A f \in Files : Version(f) \in Nat /\ markFloor[f] \in 1 .. Version(f)
  BY MarkTypes DEF Inv, TypeOK, ProcTypeOK, MarkTypeOK, FloorTypeOK, MarkInv, MarkSeqs
<1>3. /\ \E x \in {"idle", "loop", "return", "markfile", "markfolder"} :
           pc' = [pc EXCEPT ![p] = x]
      /\ call' = call \/ \E x : call' = [call EXCEPT ![p] = x]
  BY AfterAwaitPcs DEF CallStep, BeginList, BeginRefresh, EnterRefresh, Serve, Cancel, Return,
         BeginMarkFile, EndMarkFile, WidenMarkFile, Persist, BeginRefreshFile
<1>4. /\ \A q \in Procs \ {p} : pc'[q] = pc[q] /\ call'[q] = call[q]
      /\ pc'[p] # "wait"
  BY <1>2, <1>3
<1>5. MarksGrow
  <2>1. CASE ~EndMarkFile(p) /\ ~WidenMarkFile(p)
    BY <2>1 DEF CallStep, BeginList, BeginRefresh, EnterRefresh, Serve, Cancel, Return,
                BeginMarkFile, Persist, BeginRefreshFile, markVars, floorVars, MarksGrow
  <2>2. CASE EndMarkFile(p)
    <3>1. PICK g \in Files : g = rd[p].file
      BY <2>2 DEF EndMarkFile, Inv, RdFile, FilePcs
    <3>2. /\ writeMarked' = [writeMarked EXCEPT ![g] = requestSeq + 1]
          /\ markFloor' = [markFloor EXCEPT ![g] = Version(g)]
          /\ UNCHANGED <<dirtySeq, reloadSeq>>
      BY <2>2, <3>1 DEF EndMarkFile
    <3> QED
      BY <1>2, <3>2 DEF MarksGrow
  <2>3. CASE WidenMarkFile(p)
    <3>1. PICK g \in Files : g = rd[p].file
      BY <2>3 DEF WidenMarkFile, Inv, RdFile, FilePcs
    <3>2. /\ markFloor' = [markFloor EXCEPT ![g] = Version(g)]
          /\ dirtySeq' \in {dirtySeq, requestSeq + 1} /\ UNCHANGED <<reloadSeq, writeMarked>>
      BY <2>3, <3>1 DEF WidenMarkFile, MarkFolder
    <3> QED
      BY <1>2, <3>2 DEF MarksGrow
  <2> QED
    BY <2>1, <2>2, <2>3
<1>6. ReaderWaits(p)'
  BY <1>1, <1>4 DEF ReaderWaits, Depends, Runs
<1>7. ASSUME p \in Readers
      PROVE  Floors(p)' /\ (FileMarksOnly' => ReaderAnswer(p)')
  <2>1. /\ Floors(p) /\ (FileMarksOnly => ReaderAnswer(p)) /\ (FileMarksOnly' => FileMarksOnly)
    BY <1>5, <1>7, GrowFacts DEF ReaderInv
  <2>2. CASE BeginList(p)
    <3>1. pc'[p] = "loop" /\ call'[p] = [NoCall EXCEPT !.need = requestSeq, !.floor = markFloor]
          /\ markFloor' = markFloor
      BY <1>2, <2>2 DEF BeginList, floorVars
    <3>2. call'[p].first /\ call'[p].floor = markFloor
      BY <3>1 DEF NoCall
    <3>3. Floors(p)'
      BY <1>2, <3>1, <3>2 DEF Floors
    <3> QED
      BY <3>1, <3>2, <3>3 DEF ReaderAnswer, HasPages
  <2>3. CASE Cancel(p) \/ Return(p)
    <3>1. pc'[p] = "idle" /\ call'[p] = NoCall /\ markFloor' = markFloor
      BY <1>2, <2>3 DEF Cancel, Return, floorVars
    <3>2. \A f \in Files : call'[p].floor[f] = 1
      BY <3>1 DEF NoCall
    <3>3. Floors(p)'
      BY <1>2, <3>1, <3>2 DEF Floors
    <3> QED
      BY <3>1, <3>3 DEF ReaderAnswer, HasPages
  <2>4. CASE \/ \E f \in Files : BeginMarkFile(p, f)
             \/ EndMarkFile(p) \/ WidenMarkFile(p) \/ Persist(p)
    <3>1. /\ call' = call
          /\ \/ pc'[p] \in {"markfile", "markfolder", "idle"}
             \/ pc[p] = "persist" /\ pc'[p] = AfterAwait(call[p])
      BY <1>2, <2>4 DEF BeginMarkFile, EndMarkFile, WidenMarkFile, Persist
    <3>2. HasPages(p)' => HasPages(p)
      BY <3>1 DEF HasPages, AfterAwait
    <3> QED
      BY <1>5, <2>1, <3>1, <3>2, FloorsStay, AnswerStays
  <2>5. CASE Serve(p)
    <3>1. /\ call'[p] = [NoCall EXCEPT
                 !.pages = IF call[p].first THEN snapshot ELSE call[p].pages,
                 !.floor = call[p].floor]
          /\ UNCHANGED <<dirtySeq, reloadSeq, snapshot>> /\ pc[p] = "loop"
      BY <1>2, <2>5 DEF Serve, markVars, pageVars
    <3>2. /\ call'[p].floor = call[p].floor
          /\ call'[p].pages = IF call[p].first THEN snapshot ELSE call[p].pages
      BY <3>1 DEF NoCall
    <3>3. Floors(p)'
      BY <1>5, <2>1, <3>2, FloorsStay
    <3>4. ASSUME FileMarksOnly', NEW f \in Files
          PROVE  Recent(call[p].pages[f], f, call[p].floor[f])'
      <4>1. PICK v \in 1 .. Version(f), pg \in Pages :
              v = call[p].floor[f] /\ pg = call'[p].pages[f] /\ v \in 1 .. markFloor[f]
        BY <2>1, <3>2, FloorTypes, CallTypes, VisTypes
      <4>2. Recent(pg, f, v)
        <5>1. CASE call[p].first
          <6>1. \A q \in Procs : inflight = q => pc[q] \in {"start", "release"}
            BY <1>7, <2>5, <5>1 DEF ServedEarly
          <6>2. Recent(snapshot[f], f, markFloor[f])
            BY <1>7, <2>1, <2>5, <3>4, <5>1, <6>1, ServeShows
          <6> QED
            BY <1>2, <3>2, <4>1, <5>1, <6>2, HonoursDown
        <5>2. CASE ~call[p].first
          BY <2>1, <3>1, <3>2, <3>4, <4>1, <5>2 DEF ReaderAnswer, HasPages
        <5> QED
          BY <5>1, <5>2
      <4>3. Recent(pg, f, v)'
        BY <4>1, <4>2 DEF Grows
      <4> QED
        BY <3>2, <4>1, <4>3
    <3> QED
      BY <3>3, <3>4 DEF ReaderAnswer
  <2> QED
    BY <1>7, <2>2, <2>3, <2>4, <2>5 DEF CallStep
<1> QED
  BY <1>1, <1>4, <1>5, <1>6, <1>7, OthersReader

\* A reader joins the running build, joins or queues the next one, or starts its own.
LEMMA AcquireReader ==
  ASSUME Inv, HonestInv, SoloInv, Grows, MarkInv, ReaderInv, NEW p \in Procs, Acquire(p)
  PROVE  ReaderInv'
<1>1. /\ Aside /\ Carries
      /\ \/ inflight' = inflight
         \/ inflight = None /\ inflight' = p /\ pc'[p] = "start"
  BY AcquireAside, StepCarries
<1>2. /\ pc \in [Procs -> Pcs] /\ call \in [Procs -> Calls] /\ SingleFlight
  BY DEF Inv, TypeOK, ProcTypeOK
<1> DEFINE w == Pending(IsRefresh(p))
           joins == inflight # None /\ Covers(build[inflight].kind, build[inflight].startSeq,
                                              w.kind, w.need)
<1>3. /\ pc[p] = "loop" /\ w.any
      /\ \E x \in {"wait", "queued", "start"} : pc' = [pc EXCEPT ![p] = x]
      /\ \E q : call' = [call EXCEPT ![p].on = q, ![p].want = w.need]
      /\ UNCHANGED <<dirtySeq, reloadSeq, markFloor, writeMarked>>
  BY DEF Acquire, markVars, floorVars
<1>4. \/ joins /\ call' = [call EXCEPT ![p].on = inflight, ![p].want = w.need]
      \/ followUp # None /\ call' = [call EXCEPT ![p].on = followUp, ![p].want = w.need]
      \/ call' = [call EXCEPT ![p].on = p, ![p].want = w.need]
  BY DEF Acquire
<1>5. joins => build[inflight].startSeq >= w.need
  BY DEF Covers
<1> HIDE DEF w, joins
<1>6. /\ pc'[p] \in {"wait", "queued", "start"} /\ call'[p].floor = call[p].floor
      /\ call'[p].pages = call[p].pages
      /\ \A q \in Procs \ {p} : pc'[q] = pc[q] /\ call'[q] = call[q]
  BY <1>2, <1>3 DEF Calls
<1>7. \/ joins /\ call'[p].on = inflight
      \/ followUp # None /\ call'[p].on = followUp
      \/ call'[p].on = p
  BY <1>2, <1>4 DEF Calls
<1>8. MarksGrow
  BY <1>3 DEF MarksGrow
<1>9. ASSUME p \in Readers
      PROVE  Floors(p)' /\ (FileMarksOnly' => ReaderAnswer(p)' /\ ReaderWaits(p)')
  <2>1. Floors(p)' /\ Floors(p)
    BY <1>6, <1>8, <1>9, FloorsStay DEF ReaderInv
  <2>2. ReaderAnswer(p)'
    BY <1>6 DEF ReaderAnswer, HasPages
  <2>3. ASSUME FileMarksOnly', NEW x \in Procs, Runs(x)', Depends(p, x)', NEW f \in Files
        PROVE  Honours(x, f, call[p].floor[f])'
    <3>1. Runs(x) /\ \A v \in 1 .. Version(f) : Honours(x, f, v) => Honours(x, f, v)'
      BY <1>1, <2>3, AsideHonours
    <3>2. x # p /\ inflight = x /\ x \in Procs
      BY <1>2, <1>3, <3>1 DEF Runs, SingleFlight, OwnerPcs, ReadPcs
    <3>3. call'[p].on = x
      BY <2>3, <3>2 DEF Depends
    <3>4. joins
      BY <1>2, <1>7, <3>2, <3>3 DEF SingleFlight
    <3>5. FileMarksOnly
      BY <1>3, <2>3 DEF FileMarksOnly
    <3>6. Honours(x, f, markFloor[f])
      BY <1>3, <1>5, <1>9, <3>1, <3>2, <3>4, <3>5, JoinHonours DEF w
    <3>7. PICK v \in 1 .. Version(f) : v = call[p].floor[f] /\ v \in 1 .. markFloor[f]
      BY <2>1, FloorTypes
    <3>8. markFloor[f] \in Nat
      BY MarkTypes
    <3>9. Honours(x, f, v)'
      BY <3>1, <3>6, <3>7, <3>8, HonoursDown
    <3> QED
      BY <1>6, <3>7, <3>9
  <2> QED
    BY <2>1, <2>2, <2>3 DEF ReaderWaits
<1> QED
  BY <1>1, <1>6, <1>8, <1>9, OthersReader

\* A reader that a build has ended for gets pages that show what it asked for.
LEMMA ReleaseReader ==
  ASSUME Inv, HonestInv, SoloInv, Grows, MarkInv, ReaderInv, NEW p \in Procs, Release(p)
  PROVE  ReaderInv'
<1>1. /\ Aside /\ Carries /\ inflight = p /\ inflight' = followUp /\ followUp # p
      /\ pc[p] = "release" /\ SingleFlight
  BY ReleaseAside, StepCarries, PageIndexAssumption DEF Release, Inv, SingleFlight
<1>2. /\ UNCHANGED <<dirtySeq, reloadSeq, markFloor, writeMarked, snapshot>>
  BY DEF Release, markVars, floorVars, pageVars
<1>3. MarksGrow
  BY <1>2 DEF MarksGrow
<1>4. \A q \in Procs : MarkAge(q)' /\ ~Runs(q)'
  <2>1. ASSUME NEW q \in Procs PROVE ~Runs(q)'
    <3>1. inflight' = q => pc[q] = "queued" /\ q # p
      BY <1>1 DEF SingleFlight
    <3>2. Runs(q)' => pc'[q] = pc[q] /\ inflight' = q
      BY <1>1, AsideHonours DEF Runs
    <3> QED
      BY <3>1, <3>2 DEF Runs, RunPcs, ListPcs, ReadPcs
  <2> QED
    BY <2>1 DEF MarkAge
<1>5. ASSUME NEW q \in Readers
      PROVE  Floors(q)' /\ (FileMarksOnly' => ReaderAnswer(q)' /\ ReaderWaits(q)')
  <2>1. /\ q \in Procs /\ Floors(q) /\ (FileMarksOnly => ReaderAnswer(q) /\ ReaderWaits(q))
        /\ FileMarksOnly' => FileMarksOnly
    BY <1>3, GrowFacts DEF ReaderInv, Procs
  <2>2. ReaderWaits(q)'
    BY <1>4 DEF ReaderWaits
  <2>3. CASE Depends(q, p)
    <3>1. /\ call'[q].pages = IF build[p].err \/ build[p].kind # "filereads"
                                THEN build[p].pages ELSE snapshot
          /\ call'[q].floor = call[q].floor
      BY <2>1, <2>3, ReleaseCalls DEF Depends
    <3>2. ASSUME FileMarksOnly', NEW f \in Files
          PROVE  Recent(call[q].pages[f], f, call[q].floor[f])'
      <4>1. /\ Honours(p, f, call[q].floor[f]) /\ ~build[p].err
        BY <1>1, <2>1, <2>3, <3>2 DEF ReaderWaits, Runs, RunPcs, MarkInv, MarkBuild
      <4>2. /\ snapshot[f] \in Pages /\ build[p].pages[f] \in Pages
        BY VisTypes DEF Inv, TypeOK, ProcTypeOK, Builds
      <4>3. PICK v \in 1 .. Version(f), pg \in Pages :
              v = call[q].floor[f] /\ pg = call'[q].pages[f]
        BY <2>1, <3>1, <4>2, FloorTypes
      <4>4. Recent(pg, f, v)
        BY <1>1, <3>1, <4>1, <4>3, ReleaseStakes
      <4>5. Recent(pg, f, v)'
        BY <4>4 DEF Grows
      <4> QED
        BY <3>1, <4>3, <4>5
    <3>3. Floors(q)'
      BY <1>3, <2>1, <3>1, FloorsStay
    <3> QED
      BY <2>2, <3>2, <3>3 DEF ReaderAnswer
  <2>4. CASE ~Depends(q, p)
    <3>1. call'[q] = call[q] /\ q # p
      BY <2>1, <2>4, ReleaseCalls DEF Depends
    <3>2. pc'[q] = pc[q] \/ pc'[q] = "start"
      BY <2>1, <2>4, <3>1, ReleaseAside DEF Depends
    <3>3. HasPages(q)' => HasPages(q)
      BY <3>1, <3>2 DEF HasPages
    <3>4. Floors(q)'
      BY <1>3, <2>1, <3>1, FloorsStay
    <3>5. FileMarksOnly' => ReaderAnswer(q)'
      BY <2>1, <3>1, <3>3, AnswerStays
    <3> QED
      BY <2>2, <3>4, <3>5
  <2> QED
    BY <2>3, <2>4
<1> QED
  BY <1>4, <1>5 DEF ReaderInv

\* A process that has just started has no readers.
LEMMA EmptyReader ==
  /\ Inv /\ Init => ReaderInv
  /\ Inv /\ Crash => ReaderInv'
<1>1. \A f \in Files : NoCall.floor[f] = 1
  BY DEF NoCall
<1>2. ASSUME Inv, Init PROVE ReaderInv
  <2>1. /\ inflight = None /\ \A f \in Files : markFloor[f] = 1
        /\ \A q \in Procs : pc[q] = "idle" /\ call[q] = NoCall
    BY <1>2 DEF Init, EmptyIndex
  <2> QED
    BY <1>1, <2>1, PageIndexAssumption
       DEF ReaderInv, MarkAge, Runs, Floors, ReaderAnswer, HasPages, ReaderWaits, Procs
<1>3. ASSUME Inv, Crash PROVE ReaderInv'
  <2>1. /\ inflight' = None /\ \A f \in Files : markFloor'[f] = Version(f)
        /\ \A q \in Procs : pc'[q] = "idle" /\ call'[q] = NoCall
    BY <1>3 DEF Crash, EmptyIndex
  <2>2. \A f \in Files : 1 \in 1 .. Version(f)
    BY <1>3, VisTypes
  <2> QED
    BY <1>1, <2>1, <2>2, PageIndexAssumption
       DEF ReaderInv, MarkAge, Runs, Floors, ReaderAnswer, HasPages, ReaderWaits, Procs
<1> QED
  BY <1>2, <1>3

\* No event's read runs beside a build, no listing fails, and no reader is served while a
\* listing is under way.
UndisturbedRead(p) == UndisturbedMark(p) /\ ~ServedEarly(p)

\* Every such step keeps the invariant.
LEMMA NextReader ==
  ASSUME Inv, Inv', HonestInv, SoloInv, MarkInv, ReaderInv, [Next]_vars,
         \A p \in Procs : UndisturbedRead(p)
  PROVE  ReaderInv'
<1>1. Grows /\ \A p \in Procs : ~WarmRead(p) /\ ~FailListing(p) /\ ~ServedEarly(p)
  BY StepGrows DEF UndisturbedRead, UndisturbedMark
<1>2. ASSUME NEW p \in Procs, BuildStep(p) PROVE ReaderInv'
  BY <1>1, <1>2, BuildReader
<1>3. ASSUME NEW p \in Procs, CallStep(p) \/ Release(p) \/ Acquire(p) PROVE ReaderInv'
  BY <1>1, <1>3, CallReader, ReleaseReader, AcquireReader
<1>4. ASSUME QuietStep \/ Crash PROVE ReaderInv'
  BY <1>1, <1>4, QuietReader, EmptyReader
<1> QED
  BY <1>1, <1>2, <1>3, <1>4, StepShape

\* A reader gets what was written before its call: with exact file marks only, as long as
\* events leave the folder to the builds, no listing fails and no reader is served while one
\* is under way, the pages of ListPages show every file at the version its last mark was
\* made for, or later.  This is about MarkFileDirty, pendingLocked, build.covers and ensure.
THEOREM FileMarksServed ==
  Spec /\ [][\A p \in Procs : UndisturbedRead(p)]_vars => []FileMarkServed
<1>1. Init => SoloInv
  BY EmptySolo
<1>2. Inv /\ Init => MarkInv /\ ReaderInv
  BY EmptyMark, EmptyReader
<1>3. /\ Inv /\ Inv' /\ HonestInv /\ SoloInv /\ MarkInv /\ ReaderInv /\ [Next]_vars
      /\ [\A p \in Procs : UndisturbedRead(p)]_vars
      => SoloInv' /\ MarkInv' /\ ReaderInv'
  <2> SUFFICES ASSUME Inv, Inv', HonestInv, SoloInv, MarkInv, ReaderInv, [Next]_vars,
                      [\A p \in Procs : UndisturbedRead(p)]_vars
               PROVE  SoloInv' /\ MarkInv' /\ ReaderInv'
    OBVIOUS
  <2>1. CASE \A p \in Procs : UndisturbedRead(p)
    <3>1. \A p \in Procs : UndisturbedMark(p) /\ ~WarmRead(p)
      BY <2>1 DEF UndisturbedRead, UndisturbedMark
    <3> QED
      BY <2>1, <3>1, NextSolo, NextMark, NextReader
  <2>2. CASE UNCHANGED vars
    BY <2>2, QuietAside, AsideSolo, QuietMark, QuietReader, StepGrows DEF QuietStep
  <2> QED
    BY <2>1, <2>2
<1>4. ReaderInv => FileMarkServed
  BY DEF ReaderInv, FileMarksOnly, ReaderAnswer, HasPages, FileMarkServed, ReadYourWrites,
         Recent
<1> QED
  BY <1>1, <1>2, <1>3, <1>4, Invariant, PairsGood, PTL DEF Spec

==============================================================================
