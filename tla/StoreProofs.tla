---------------------------- MODULE StoreProofs ----------------------------
(* What TLAPS proves about Store, for every set of keys, values and ttls.   *)
EXTENDS Store, TLAPS

Writing(f) == pc[f] \in {"create", "write", "rename"}

\* flushMu is held by exactly the flusher that is inside Flush, and by none
\* when the process is down.
LockInv ==
  /\ \A f \in Flushers : (Writing(f) \/ pc[f] = "marshal") <=> flushMu = f
  /\ \A f \in Flushers : pc[f] = "rename" => tmp = raw[f]
  /\ ~up => flushMu = NoOne /\ ~dirty /\ \A f \in Flushers : called[f] = 0

\* The snapshot being written is at least as new as the file and as the
\* flusher's call, and equal to the map when nothing changed since.
SnapshotInv ==
  \A f \in Flushers : Writing(f) =>
    /\ called[f] <= raw[f].ver
    /\ disk.ver <= raw[f].ver
    /\ raw[f].ver <= ver
    /\ ~dirty => raw[f].data = data /\ raw[f].ver = ver

\* With no snapshot being written, a clear flag means the file is the map.
SavedInv ==
  /\ up => disk.ver <= ver
  /\ \A f \in Flushers : up => called[f] <= ver
  /\ up /\ ~dirty /\ (\A f \in Flushers : ~Writing(f)) =>
       disk.data = data /\ disk.ver = ver

Inv == TypeOK /\ LockInv /\ SnapshotInv /\ SavedInv /\ FlushedIsDurable

LEMMA UnixNat == ASSUME NEW t \in Nat PROVE Unix(t) \in Nat
BY StoreAssumption DEF Unix

LEMMA EmptyType == Empty \in Snapshot
BY DEF Empty, Snapshot

LEMMA PrunedType ==
  ASSUME NEW d \in [Keys -> Entry \cup {Absent}]
  PROVE  Pruned(d) \in [Keys -> Entry \cup {Absent}]
BY DEF Pruned

\* The initial state: empty file, empty map.
LEMMA InitInv == Init => Inv
<1> SUFFICES ASSUME Init PROVE Inv OBVIOUS
<1>1. TypeOK
  BY EmptyType, StoreAssumption DEF Init, TypeOK, Places, Snapshot, Empty
<1>2. LockInv
  BY StoreAssumption DEF Init, LockInv, Writing, Flushers, Run, Main
<1>3. SnapshotInv /\ SavedInv /\ FlushedIsDurable
  BY DEF Init, SnapshotInv, SavedInv, FlushedIsDurable, Writing, Flushers, Empty
<1> QED BY <1>1, <1>2, <1>3 DEF Inv

\* A change of the map made under mu, with everything else left alone.
LEMMA ChangeInv ==
  ASSUME Inv, up, NEW d \in [Keys -> Entry \cup {Absent}], Change(d),
         UNCHANGED <<now, files, process, flushes>>
  PROVE  Inv'
<1>1. TypeOK'
  BY DEF Inv, TypeOK, Change, files, process, flushes
<1>2. LockInv'
  BY DEF Inv, LockInv, Writing, Change, files, process, flushes
<1>3. SnapshotInv'
  BY DEF Inv, TypeOK, SnapshotInv, Snapshot, Writing, Change, files, process, flushes
<1>4. SavedInv' /\ FlushedIsDurable'
  BY DEF Inv, TypeOK, SavedInv, FlushedIsDurable, Snapshot, Writing, Change, files, process, flushes
<1> QED BY <1>1, <1>2, <1>3, <1>4 DEF Inv

LEMMA SetInv ==
  ASSUME Inv, NEW k \in Keys, NEW v \in Values, NEW ttl \in Ttls, Set(k, v, ttl)
  PROVE  Inv'
<1> DEFINE e == [value |-> v, expires |-> Expiry(ttl),
                 due |-> IF ttl = 0 THEN 0 ELSE now + ttl]
<1>0. ttl \in Nat /\ now + ttl \in Nat
  BY StoreAssumption DEF Inv, TypeOK
<1>1. e \in Entry
  BY <1>0, UnixNat DEF Expiry, Entry
<1>2. [data EXCEPT ![k] = e] \in [Keys -> Entry \cup {Absent}]
  BY <1>1 DEF Inv, TypeOK
<1> QED BY <1>2, ChangeInv DEF Set

LEMMA RemoveInv ==
  ASSUME Inv, NEW k \in Keys, Get(k) \/ Delete(k)
  PROVE  Inv'
<1>1. [data EXCEPT ![k] = Absent] \in [Keys -> Entry \cup {Absent}]
  BY DEF Inv, TypeOK
<1> QED BY <1>1, ChangeInv DEF Get, Delete

\* A flusher calls Flush after a step that left the map alone or changed it
\* under mu.
LEMMA CallInv ==
  ASSUME Inv, up, NEW f \in Flushers, pc[f] = "idle", CallFlush(f),
         UNCHANGED <<now, files, process>>, last' \in BOOLEAN,
         UNCHANGED memory
         \/ \E d \in [Keys -> Entry \cup {Absent}] : Change(d)
  PROVE  Inv'
<1> USE DEF Inv
<1>1. /\ data' \in [Keys -> Entry \cup {Absent}]
      /\ ver' \in Nat /\ ver <= ver' /\ dirty' \in BOOLEAN
      /\ ~dirty' => data' = data /\ ver' = ver /\ ~dirty
  <2>1. CASE UNCHANGED memory
    BY <2>1 DEF TypeOK, memory
  <2>2. ASSUME NEW d \in [Keys -> Entry \cup {Absent}], Change(d)
        PROVE  /\ data' \in [Keys -> Entry \cup {Absent}]
               /\ ver' \in Nat /\ ver <= ver' /\ dirty' = TRUE
    BY <2>2 DEF TypeOK, Change
  <2> QED BY <2>1, <2>2
<1>2. TypeOK'
  BY <1>1 DEF TypeOK, Places, CallFlush, files, process
<1>3. ASSUME NEW g \in Flushers
      PROVE  /\ Writing(g)' = Writing(g)
             /\ (pc[g] = "marshal")' = (pc[g] = "marshal")
             /\ (pc[g] = "rename")' = (pc[g] = "rename")
  BY DEF TypeOK, Writing, CallFlush
<1>4. LockInv'
  BY <1>1, <1>3 DEF LockInv, CallFlush, files, process
<1>5. SnapshotInv'
  <2>1. SUFFICES ASSUME NEW g \in Flushers, Writing(g)
                 PROVE  /\ called'[g] <= raw[g].ver
                        /\ disk.ver <= raw[g].ver
                        /\ raw[g].ver <= ver'
                        /\ ~dirty' => raw[g].data = data' /\ raw[g].ver = ver'
    BY <1>3 DEF SnapshotInv, CallFlush, files
  <2>2. g # f
    BY <2>1 DEF Writing
  <2>3. called'[g] = called[g]
    BY <2>2 DEF TypeOK, CallFlush
  <2> QED BY <1>1, <2>1, <2>3 DEF SnapshotInv, TypeOK, Snapshot
<1>6. SavedInv'
  <2>1. disk.ver <= ver'
    BY <1>1 DEF SavedInv, TypeOK, Snapshot
  <2>2. \A g \in Flushers : called'[g] <= ver'
    BY <1>1 DEF SavedInv, TypeOK, CallFlush
  <2>3. ASSUME ~dirty', \A g \in Flushers : ~Writing(g)
        PROVE  disk.data = data' /\ disk.ver = ver'
    BY <1>1, <2>3 DEF SavedInv
  <2> QED BY <1>3, <2>1, <2>2, <2>3 DEF SavedInv, files, process
<1>7. FlushedIsDurable'
  BY DEF FlushedIsDurable, CallFlush, files
<1> QED BY <1>2, <1>4, <1>5, <1>6, <1>7

LEMMA RunTickInv == ASSUME Inv, RunTick PROVE Inv'
<1>1. UNCHANGED memory \/ \E d \in [Keys -> Entry \cup {Absent}] : Change(d)
  BY PrunedType DEF RunTick, Prune, Inv, TypeOK
<1> QED BY <1>1, CallInv DEF RunTick, Inv, TypeOK, Flushers

LEMMA DoneInv == ASSUME Inv, RunDone \/ MainDone PROVE Inv'
BY CallInv DEF RunDone, MainDone, Inv, TypeOK, Flushers

LEMMA LockFlushInv == ASSUME Inv, NEW f \in Flushers, LockFlush(f) PROVE Inv'
<1> USE DEF Inv
<1>1. TypeOK'
  BY DEF TypeOK, Places, LockFlush, memory, files, process
<1>2. \A g \in Flushers : Writing(g)' = Writing(g)
  BY DEF LockFlush, TypeOK, Writing
<1>3. LockInv'
  BY <1>2, StoreAssumption DEF LockInv, LockFlush, TypeOK, memory, files, process
<1>4. SnapshotInv' /\ SavedInv' /\ FlushedIsDurable'
  BY <1>2 DEF SnapshotInv, SavedInv, FlushedIsDurable, LockFlush, memory, files, process
<1> QED BY <1>1, <1>3, <1>4

\* Flush returns; the snapshot it held, if any, was dealt with before.
LEMMA ReturnFacts ==
  ASSUME Inv, NEW f \in Flushers, Return(f), flushMu = f
  PROVE  /\ flushMu' = NoOne /\ pc' \in [Flushers -> Places]
         /\ raw' \in [Flushers -> Snapshot] /\ called' \in [Flushers -> Nat]
         /\ \A g \in Flushers : ~Writing(g)' /\ pc'[g] # "marshal" /\ pc'[g] # "rename"
         /\ \A g \in Flushers : called'[g] <= called[g]
<1>1. ASSUME NEW g \in Flushers, g # f
      PROVE  ~Writing(g) /\ pc[g] # "marshal"
  BY <1>1 DEF Inv, LockInv
<1>2. pc' \in [Flushers -> Places]
  BY DEF Return, Inv, TypeOK, Places
<1>3. ASSUME NEW g \in Flushers
      PROVE  ~Writing(g)' /\ pc'[g] # "marshal" /\ pc'[g] # "rename"
  BY <1>1 DEF Return, Inv, TypeOK, Writing
<1> QED BY <1>2, <1>3, EmptyType DEF Return, Inv, TypeOK

\* Marshal with nothing dirty: the other flusher's snapshot is in the file.
LEMMA MarshalInv == ASSUME Inv, NEW f \in Flushers, Marshal(f) PROVE Inv'
<1> USE DEF Inv
<1>0. flushMu = f /\ up
  BY DEF Marshal, LockInv
<1>a. \A g \in Flushers : ~Writing(g)
  BY <1>0 DEF Marshal, LockInv, Writing
<1>1. CASE ~dirty /\ ReturnNil(f) /\ UNCHANGED <<memory, files>>
  <2>1. disk.ver = ver /\ called[f] <= ver
    BY <1>0, <1>1, <1>a DEF SavedInv
  <2>2. FlushedIsDurable'
    BY <1>1, <2>1 DEF FlushedIsDurable, ReturnNil, files
  <2>3. TypeOK'
    BY <1>0, <1>1, ReturnFacts DEF TypeOK, ReturnNil, Return, memory, files, process
  <2>4. LockInv' /\ SnapshotInv'
    BY <1>0, <1>1, ReturnFacts, StoreAssumption
       DEF LockInv, SnapshotInv, ReturnNil, Return, memory, process
  <2>5. SavedInv'
    BY <1>0, <1>1, <1>a, ReturnFacts DEF SavedInv, TypeOK, ReturnNil, Return, memory, files, process
  <2> QED BY <2>2, <2>3, <2>4, <2>5
<1>2. CASE dirty /\ Marshal(f) /\ pc' = [pc EXCEPT ![f] = "create"]
  <2>1. /\ raw' = [raw EXCEPT ![f] = [data |-> data, ver |-> ver]] /\ dirty' = FALSE
        /\ UNCHANGED <<now, data, ver, files, process, flushMu, last, called, acked, fails>>
    BY <1>2 DEF Marshal
  <2>2. TypeOK'
    BY <1>2, <2>1 DEF TypeOK, Places, Snapshot, files, process
  <2>3. \A g \in Flushers : Writing(g)' <=> g = f
    BY <1>2, <1>a DEF TypeOK, Writing
  <2>4. LockInv'
    BY <1>0, <1>2, <2>1, <2>3, StoreAssumption DEF LockInv, TypeOK, files, process, Writing
  <2>5. SnapshotInv'
    BY <1>0, <2>1, <2>3 DEF SnapshotInv, SavedInv, TypeOK, files
  <2>6. SavedInv' /\ FlushedIsDurable'
    BY <2>1, <2>3 DEF SavedInv, FlushedIsDurable, TypeOK, files, process
  <2> QED BY <2>2, <2>4, <2>5, <2>6
<1> QED BY <1>1, <1>2 DEF Marshal

LEMMA TmpInv ==
  ASSUME Inv, NEW f \in Flushers, CreateTmp(f) \/ WriteTmp(f)
  PROVE  Inv'
<1> USE DEF Inv
<1>1. /\ UNCHANGED <<now, memory, disk, process, flushMu, raw, last, called, acked, fails>>
      /\ flushMu = f
  BY DEF CreateTmp, WriteTmp, LockInv, Writing
<1>2. TypeOK'
  BY <1>1 DEF CreateTmp, WriteTmp, TypeOK, Places, memory, process
<1>3. \A g \in Flushers : Writing(g)' = Writing(g)
  BY DEF CreateTmp, WriteTmp, TypeOK, Writing
<1>4. LockInv'
  <2>1. \A g \in Flushers : (pc[g] = "marshal")' = (pc[g] = "marshal")
    BY DEF CreateTmp, WriteTmp, TypeOK
  <2>2. ASSUME NEW g \in Flushers, pc'[g] = "rename" PROVE tmp' = raw'[g]
    <3>1. g = f
      BY <1>1, <2>2, <1>3 DEF LockInv, Writing
    <3> QED BY <1>1, <2>2, <3>1 DEF CreateTmp, WriteTmp, TypeOK
  <2> QED BY <1>1, <1>3, <2>1, <2>2 DEF LockInv, memory, process
<1>5. SnapshotInv' /\ SavedInv' /\ FlushedIsDurable'
  BY <1>1, <1>3 DEF SnapshotInv, SavedInv, FlushedIsDurable, memory, process
<1> QED BY <1>2, <1>4, <1>5

\* The rename puts the newest snapshot in place.
LEMMA RenameInv == ASSUME Inv, NEW f \in Flushers, Rename(f) PROVE Inv'
<1> USE DEF Inv
<1>1. /\ flushMu = f /\ up /\ Writing(f) /\ disk' = raw[f] /\ Return(f)
      /\ UNCHANGED <<memory, process, now, last>>
  BY DEF Rename, ReturnNil, Return, LockInv, Writing
<1>2. /\ called[f] <= raw[f].ver /\ disk.ver <= raw[f].ver /\ raw[f].ver <= ver
      /\ ~dirty => raw[f].data = data /\ raw[f].ver = ver
      /\ raw[f] \in Snapshot
  BY <1>1 DEF SnapshotInv, TypeOK
<1>3. TypeOK'
  BY <1>1, <1>2, ReturnFacts DEF TypeOK, Rename, ReturnNil, memory, process
<1>4. LockInv' /\ SnapshotInv'
  BY <1>1, ReturnFacts, StoreAssumption DEF LockInv, SnapshotInv, memory, process
<1>5. SavedInv'
  BY <1>1, <1>2, ReturnFacts DEF SavedInv, TypeOK, memory, process
<1>6. FlushedIsDurable'
  BY <1>1, <1>2 DEF FlushedIsDurable, TypeOK, Snapshot, Rename, ReturnNil
<1> QED BY <1>3, <1>4, <1>5, <1>6

LEMMA FailInv == ASSUME Inv, NEW f \in Flushers, Fail(f) PROVE Inv'
<1> USE DEF Inv
<1>1. /\ flushMu = f /\ up /\ dirty' = TRUE /\ Return(f)
      /\ UNCHANGED <<data, ver, files, acked, process, now, last>>
      /\ fails' = fails + 1
  BY DEF Fail, Return, LockInv, Writing
<1>2. TypeOK'
  BY <1>1, ReturnFacts DEF TypeOK, files, process
<1>3. LockInv' /\ SnapshotInv'
  BY <1>1, ReturnFacts, StoreAssumption DEF LockInv, SnapshotInv, process
<1>4. SavedInv' /\ FlushedIsDurable'
  BY <1>1, ReturnFacts DEF SavedInv, FlushedIsDurable, TypeOK, files, process
<1> QED BY <1>2, <1>3, <1>4

LEMMA ProcessInv == ASSUME Inv, Stop \/ Exit \/ Crash \/ Open \/ Clock PROVE Inv'
<1> USE DEF Inv
<1>1. CASE Stop \/ Clock
  <2>1. UNCHANGED <<memory, files, flushes, up, starts>>
    BY <1>1 DEF Stop, Clock, process
  <2>2. TypeOK'
    <3>1. now' \in Nat
      BY <1>1 DEF Stop, Clock, TypeOK
    <3>2. stopping' \in BOOLEAN
      BY <1>1 DEF Stop, Clock, TypeOK, process
    <3> QED BY <2>1, <3>1, <3>2 DEF TypeOK, memory, files, flushes
  <2>3. LockInv' /\ SnapshotInv' /\ SavedInv' /\ FlushedIsDurable'
    BY <2>1 DEF LockInv, SnapshotInv, SavedInv, FlushedIsDurable, Writing, memory, files, flushes
  <2> QED BY <2>2, <2>3
<1>2. CASE Exit \/ Crash
  <2>1. Gone
    BY <1>2 DEF Exit, Crash
  <2>2. TypeOK'
    BY <2>1, EmptyType DEF Gone, TypeOK, Places, Snapshot, files
  <2>3. LockInv' /\ SnapshotInv' /\ SavedInv' /\ FlushedIsDurable'
    BY <2>1, StoreAssumption
       DEF Gone, LockInv, SnapshotInv, SavedInv, FlushedIsDurable, Writing, files
  <2> QED BY <2>2, <2>3
<1>3. CASE Open
  <2>1. /\ UNCHANGED <<now, files, flushes, stopping>> /\ ~up /\ up' = TRUE
        /\ flushMu = NoOne
    BY <1>3 DEF Open, LockInv
  <2>2. /\ data' \in [Keys -> Entry \cup {Absent}] /\ ver' \in Nat /\ dirty' \in BOOLEAN
        /\ starts' \in Nat /\ disk.ver <= ver' /\ disk.ver \in Nat
        /\ ~dirty' => disk.data = data' /\ disk.ver = ver'
    <3> DEFINE kept == Pruned(disk.data)
    <3>1. disk.data \in [Keys -> Entry \cup {Absent}] /\ disk.ver \in Nat
      BY DEF TypeOK, Snapshot
    <3>2. kept \in [Keys -> Entry \cup {Absent}]
      BY <3>1, PrunedType
    <3>3. /\ data' = kept /\ dirty' = (kept # disk.data) /\ starts' = starts + 1
          /\ ver' = IF kept = disk.data THEN disk.ver ELSE disk.ver + 1
      BY <1>3 DEF Open
    <3> HIDE DEF kept
    <3>4. CASE kept = disk.data
      <4>1. dirty' = FALSE /\ ver' = disk.ver
        BY <3>3, <3>4
      <4> QED BY <4>1, <3>1, <3>2, <3>3, <3>4 DEF TypeOK
    <3>5. CASE kept # disk.data
      <4>1. dirty' = TRUE /\ ver' = disk.ver + 1
        BY <3>3, <3>5
      <4> QED BY <4>1, <3>1, <3>2, <3>3 DEF TypeOK
    <3> QED BY <3>4, <3>5
  <2>3. \A f \in Flushers : ~Writing(f) /\ pc[f] # "marshal"
    BY <2>1, StoreAssumption DEF LockInv
  <2>4. TypeOK'
    BY <2>1, <2>2 DEF TypeOK, files, flushes
  <2>5. LockInv' /\ SnapshotInv' /\ FlushedIsDurable'
    BY <2>1, <2>3 DEF LockInv, SnapshotInv, FlushedIsDurable, Writing, files, flushes
  <2>6. SavedInv'
    BY <2>1, <2>2, <2>3 DEF SavedInv, LockInv, TypeOK, Writing, files, flushes
  <2> QED BY <2>4, <2>5, <2>6
<1> QED BY <1>1, <1>2, <1>3

\* Every step keeps the inductive invariant.
LEMMA NextInv == Inv /\ [Next]_vars => Inv'
<1> SUFFICES ASSUME Inv, [Next]_vars PROVE Inv' OBVIOUS
<1>1. CASE UNCHANGED vars
  BY <1>1 DEF vars, Inv, TypeOK, LockInv, SnapshotInv, SavedInv, FlushedIsDurable, Writing
<1>2. ASSUME NEW f \in Flushers, FlushStep(f) PROVE Inv'
  BY <1>2, LockFlushInv, MarshalInv, TmpInv, RenameInv, FailInv DEF FlushStep
<1> QED BY <1>1, <1>2, SetInv, RemoveInv, RunTickInv, DoneInv, ProcessInv DEF Next

\* In every reachable state the file at path is a complete snapshot and every
\* variable has its type.
THEOREM TypeCorrect == Spec => []TypeOK
<1>1. Inv => TypeOK BY DEF Inv
<1> QED BY <1>1, InitInv, NextInv, PTL DEF Spec

\* store.go:124-126: a Flush that returned nil is durable, for any number of
\* flushes, failures, crashes and restarts.
THEOREM Durability == Spec => []FlushedIsDurable
<1>1. Inv => FlushedIsDurable BY DEF Inv
<1> QED BY <1>1, InitInv, NextInv, PTL DEF Spec

\* A clear dirty flag outside a flush means that the file is the map.
THEOREM CleanIsSaved == Spec => []CleanMeansSaved
<1>1. Inv => CleanMeansSaved
  BY StoreAssumption DEF Inv, CleanMeansSaved, SavedInv, LockInv
<1> QED BY <1>1, InitInv, NextInv, PTL DEF Spec

\* The file never goes back to an older snapshot.
THEOREM FileMonotone == Spec => NeverOlder
<1>1. Inv /\ [Next]_vars => [disk'.ver >= disk.ver]_disk
  <2> SUFFICES ASSUME Inv, Next, disk' # disk PROVE disk'.ver >= disk.ver
    BY DEF vars
  <2>1. PICK f \in Flushers : Rename(f)
    BY DEF Next, FlushStep, Set, Get, Delete, RunTick, RunDone, MainDone, LockFlush,
           Marshal, CreateTmp, WriteTmp, Fail, Stop, Exit, Crash, Gone, Open, Clock, files
  <2>2. disk' = raw[f] /\ Writing(f) /\ raw[f] \in Snapshot /\ disk \in Snapshot
    BY <2>1 DEF Rename, Inv, LockInv, Writing, TypeOK
  <2> QED BY <2>2 DEF Inv, SnapshotInv, Snapshot
<1> QED BY <1>1, InitInv, NextInv, PTL DEF Spec, NeverOlder
-----------------------------------------------------------------------------
(* Deadlines.  An entry with a deadline keeps the second it falls in, and   *)
(* that second is never 0, which would mean "no deadline": the clock starts *)
(* after second 0.  Entries reach the map also from the file, so the fact   *)
(* is kept for the snapshots on their way there and back too.               *)

Dated(e) == e # Absent /\ e.due # 0 => e.expires = Unix(e.due) /\ e.due >= TicksPerSecond

AllDated(d) == \A k \in Keys : Dated(d[k])

DeadlineInv ==
  /\ now >= TicksPerSecond
  /\ AllDated(data) /\ AllDated(disk.data)
  /\ \A f \in Flushers : AllDated(raw[f].data)
  /\ tmp # Torn => AllDated(tmp.data)

LEMMA EmptyDated == AllDated(Empty.data)
BY DEF AllDated, Dated, Empty

LEMMA PrunedDated ==
  ASSUME NEW d, AllDated(d)
  PROVE  AllDated(Pruned(d))
BY DEF AllDated, Dated, Pruned

\* Comparing whole seconds errs by less than one of them, and to one side.
LEMMA SecondsOrder ==
  ASSUME NEW s \in Nat, NEW t \in Nat
  PROVE  IF Unix(s) >= Unix(t) THEN s + TicksPerSecond > t ELSE s < t
BY StoreAssumption DEF Unix

LEMMA SecondsPositive ==
  ASSUME NEW t \in Nat, t >= TicksPerSecond
  PROVE  Unix(t) # 0
BY StoreAssumption DEF Unix

LEMMA InitDated == Init => DeadlineInv
BY EmptyDated, StoreAssumption DEF Init, DeadlineInv

\* The map alone changes, to one whose entries are dated.
LEMMA DataDated ==
  ASSUME DeadlineInv, AllDated(data'), UNCHANGED <<now, files, raw>>
  PROVE  DeadlineInv'
BY DEF DeadlineInv, AllDated, Dated, files

LEMMA SetDated ==
  ASSUME Inv, DeadlineInv, NEW k \in Keys, NEW v \in Values, NEW ttl \in Ttls, Set(k, v, ttl)
  PROVE  DeadlineInv'
<1> DEFINE e == [value |-> v, expires |-> Expiry(ttl),
                 due |-> IF ttl = 0 THEN 0 ELSE now + ttl]
<1>1. ttl \in Nat /\ now \in Nat /\ TicksPerSecond \in Nat /\ now >= TicksPerSecond
  BY StoreAssumption DEF Inv, TypeOK, DeadlineInv
<1>2. Dated(e)
  <2>1. CASE ttl = 0
    BY <2>1 DEF Dated
  <2>2. CASE ttl # 0
    <3>1. e.expires = Unix(now + ttl) /\ e.due = now + ttl
      BY <2>2 DEF Expiry
    <3>2. now + ttl >= TicksPerSecond
      BY <1>1
    <3> QED BY <3>1, <3>2 DEF Dated
  <2> QED BY <2>1, <2>2
<1>3. data' = [data EXCEPT ![k] = e] /\ UNCHANGED <<now, files, raw>>
  BY DEF Set, Change, flushes
<1>4. \A j \in Keys : data'[j] = IF j = k THEN e ELSE data[j]
  BY <1>3 DEF Inv, TypeOK
<1> HIDE DEF e
<1>5. AllDated(data')
  BY <1>2, <1>4 DEF AllDated, DeadlineInv
<1> QED BY <1>3, <1>5, DataDated

LEMMA RemoveDated ==
  ASSUME Inv, DeadlineInv, NEW k \in Keys, Get(k) \/ Delete(k)
  PROVE  DeadlineInv'
<1>1. data' = [data EXCEPT ![k] = Absent] /\ UNCHANGED <<now, files, raw>>
  BY DEF Get, Delete, Change, flushes
<1>2. AllDated(data')
  BY <1>1 DEF AllDated, Dated, DeadlineInv, Inv, TypeOK
<1> QED BY <1>1, <1>2, DataDated

\* A flush carries the map to the file entry by entry.
LEMMA FlushDated ==
  ASSUME Inv, DeadlineInv, NEW f \in Flushers, FlushStep(f)
  PROVE  DeadlineInv'
<1>1. UNCHANGED <<now, data>>
  BY DEF FlushStep, LockFlush, Marshal, CreateTmp, WriteTmp, Rename, Fail,
         ReturnNil, Return, memory
<1>2. ASSUME NEW g \in Flushers
      PROVE  raw'[g] = raw[g] \/ raw'[g] = Empty \/ raw'[g].data = data
  BY DEF FlushStep, LockFlush, Marshal, CreateTmp, WriteTmp, Rename, Fail,
         ReturnNil, Return, memory, Inv, TypeOK
<1>3. tmp' = tmp \/ tmp' = Torn \/ tmp' = raw[f]
  BY DEF FlushStep, LockFlush, Marshal, CreateTmp, WriteTmp, Rename, Fail, files
<1>4. disk' = disk \/ disk' = raw[f]
  BY DEF FlushStep, LockFlush, Marshal, CreateTmp, WriteTmp, Rename, Fail, files,
         Inv, LockInv
<1>5. \A g \in Flushers : AllDated(raw'[g].data)
  BY <1>2, EmptyDated DEF DeadlineInv
<1>6. (tmp' # Torn => AllDated(tmp'.data)) /\ AllDated(disk'.data)
  BY <1>3, <1>4 DEF DeadlineInv
<1> QED BY <1>1, <1>5, <1>6 DEF DeadlineInv

LEMMA NextDated == Inv /\ DeadlineInv /\ [Next]_vars => DeadlineInv'
<1> SUFFICES ASSUME Inv, DeadlineInv, [Next]_vars PROVE DeadlineInv' OBVIOUS
<1>1. CASE UNCHANGED vars \/ RunDone \/ MainDone \/ Stop
  <2>1. UNCHANGED <<now, data, files, raw>>
    BY <1>1 DEF vars, RunDone, MainDone, Stop, CallFlush, memory, files, flushes
  <2> QED BY <2>1 DEF DeadlineInv, files
<1>2. CASE RunTick
  <2>1. UNCHANGED <<now, files, raw>> /\ (data' = data \/ data' = Pruned(data))
    BY <1>2 DEF RunTick, Prune, Change, CallFlush, memory
  <2>2. AllDated(data')
    BY <2>1, PrunedDated DEF DeadlineInv
  <2> QED BY <2>1, <2>2, DataDated
<1>3. CASE Exit \/ Crash
  <2>1. /\ UNCHANGED <<now, files>> /\ data' = Empty.data
        /\ raw' = [f \in Flushers |-> Empty]
    BY <1>3 DEF Exit, Crash, Gone
  <2> QED BY <2>1, EmptyDated DEF DeadlineInv, files
<1>4. CASE Open
  <2>1. UNCHANGED <<now, files, raw>> /\ data' = Pruned(disk.data)
    BY <1>4 DEF Open, flushes
  <2>2. AllDated(data')
    BY <2>1, PrunedDated DEF DeadlineInv
  <2> QED BY <2>1, <2>2, DataDated
<1>5. CASE Clock
  <2>1. UNCHANGED <<data, files, raw>> /\ now' >= TicksPerSecond
    BY <1>5, StoreAssumption DEF Clock, memory, flushes, Inv, TypeOK, DeadlineInv
  <2> QED BY <2>1 DEF DeadlineInv, files
<1> QED BY <1>1, <1>2, <1>3, <1>4, <1>5, SetDated, RemoveDated, FlushDated DEF Next

\* store.go:64, 78: for every tick rate and every ttl, an entry is never
\* served at or after now + ttl and is dropped less than a second before it,
\* also when it came back from the file of an earlier process.
THEOREM ExpiryCorrect == Spec => []ExpiryWithinASecond
<1>1. Inv /\ DeadlineInv => ExpiryWithinASecond
  <2> SUFFICES ASSUME Inv, DeadlineInv, NEW k \in Keys,
                      data[k] # Absent, data[k].due # 0
               PROVE  IF ExpiredAt(data[k], now) THEN now + TicksPerSecond > data[k].due
                                                 ELSE now < data[k].due
    BY DEF ExpiryWithinASecond
  <2>1. /\ data[k].due \in Nat /\ now \in Nat
        /\ data[k].expires = Unix(data[k].due) /\ data[k].due >= TicksPerSecond
    BY DEF Inv, TypeOK, Entry, DeadlineInv, AllDated, Dated
  <2>2. data[k].expires # 0
    BY <2>1, SecondsPositive
  <2>3. ExpiredAt(data[k], now) <=> Unix(now) >= Unix(data[k].due)
    BY <2>1, <2>2 DEF ExpiredAt
  <2> QED BY <2>1, <2>3, SecondsOrder
<1> QED BY <1>1, InitInv, NextInv, InitDated, NextDated, PTL DEF Spec
=============================================================================
