------------------------------- MODULE Store -------------------------------
(***************************************************************************)
(* internal/store/store.go: the key-value store behind the gateway's       *)
(* remembered routes.  Data lives in memory and is snapshotted to a JSON   *)
(* file by two callers of Flush: the Run goroutine (every interval and     *)
(* once when ctx ends) and main's deferred Flush, after which the process  *)
(* exits.                                                                  *)
(*                                                                         *)
(* A key stands for one bucket/key pair.  Time is in ticks, TicksPerSecond *)
(* of them to the second, because Set truncates the deadline to seconds.   *)
(* mu is held for exactly one step; flushMu across the steps of a flush.   *)
(* A process crash keeps what was renamed into place; a machine crash      *)
(* (the code never calls fsync) is not modelled.                           *)
(***************************************************************************)
EXTENDS Integers

CONSTANTS
  Keys,            \* bucket/key pairs
  Values,
  Ttls,            \* the ttl arguments of Set, in ticks; 0 keeps forever
  TicksPerSecond,
  MaxTime,         \* bound on the clock
  MaxVer,          \* bound on the number of changes made by callers
  MaxFails,        \* bound on the number of failing file operations
  MaxStarts,       \* bound on process starts
  Absent,          \* no entry under this key
  Torn,            \* a file whose write has not completed
  NoOne            \* flushMu is free

Run == "run"       \* the goroutine of Store.Run
Main == "main"     \* the deferred Flush of main
Flushers == {Run, Main}

Entry == [value : Values, expires : Nat, due : Nat]

ASSUME StoreAssumption ==
  /\ TicksPerSecond \in Nat \ {0}
  /\ Ttls \subseteq Nat
  /\ Absent \notin Entry
  /\ NoOne \notin Flushers
  /\ MaxTime \in Nat /\ MaxVer \in Nat /\ MaxFails \in Nat /\ MaxStarts \in Nat

Snapshot == [data : [Keys -> Entry \cup {Absent}], ver : Nat]

ASSUME TornAssumption == Torn \notin Snapshot

VARIABLES
  now,       \* the clock, in ticks
  data,      \* Store.data
  dirty,     \* Store.dirty
  flushMu,   \* the flusher holding Store.flushMu, or NoOne
  pc,        \* where each flusher is
  raw,       \* the marshalled snapshot each flusher holds
  tmp,       \* path + ".tmp"
  disk,      \* path; a missing file reads as the empty snapshot
  up,        \* the process is running
  stopping,  \* ctx is done
  last,      \* Run's current flush is the one it makes when ctx ends
  starts, fails,
  ver,       \* history: number of changes made to data
  called,    \* history: ver when the flusher called Flush
  acked      \* history: the newest ver a Flush that returned nil was called with

vars == <<now, data, dirty, flushMu, pc, raw, tmp, disk, up, stopping, last,
          starts, fails, ver, called, acked>>
memory == <<data, dirty, ver>>
files == <<tmp, disk>>
process == <<up, stopping, starts>>
flushes == <<flushMu, pc, raw, last, called, acked, fails>>

Empty == [data |-> [k \in Keys |-> Absent], ver |-> 0]

Unix(t) == t \div TicksPerSecond

ExpiryRoundedUp(ttl) ==
  IF ttl = 0 THEN 0 ELSE Unix(now + ttl + TicksPerSecond - 1)

Expiry(ttl) == IF ttl = 0 THEN 0 ELSE Unix(now + ttl)

ExpiredAt(e, t) == e # Absent /\ e.expires # 0 /\ Unix(t) >= e.expires

Pruned(d) == [k \in Keys |-> IF ExpiredAt(d[k], now) THEN Absent ELSE d[k]]

Init ==
  /\ now = TicksPerSecond            \* Unix() is not 0
  /\ data = Empty.data /\ dirty = FALSE /\ ver = 0
  /\ flushMu = NoOne
  /\ pc = [f \in Flushers |-> "idle"]
  /\ raw = [f \in Flushers |-> Empty]
  /\ tmp = Torn /\ disk = Empty
  /\ up = TRUE /\ stopping = FALSE /\ last = FALSE
  /\ starts = 1 /\ fails = 0
  /\ called = [f \in Flushers |-> 0]
  /\ acked = 0

-----------------------------------------------------------------------------
(* Operations on the map.  Each holds mu throughout.                        *)

ChangeUnmarked(d) == data' = d /\ ver' = ver + 1 /\ UNCHANGED dirty

Change(d) == data' = d /\ dirty' = TRUE /\ ver' = ver + 1

Set(k, v, ttl) ==
  /\ up /\ ver < MaxVer
  /\ Change([data EXCEPT ![k] =
       [value |-> v, expires |-> Expiry(ttl), due |-> IF ttl = 0 THEN 0 ELSE now + ttl]])
  /\ UNCHANGED <<now, files, process, flushes>>

\* Get of an expired entry removes it; any other Get only reads.
Get(k) ==
  /\ up /\ ExpiredAt(data[k], now)
  /\ Change([data EXCEPT ![k] = Absent])
  /\ UNCHANGED <<now, files, process, flushes>>

Delete(k) ==
  /\ up /\ data[k] # Absent
  /\ Change([data EXCEPT ![k] = Absent])
  /\ UNCHANGED <<now, files, process, flushes>>

Prune ==
  IF Pruned(data) = data THEN UNCHANGED memory ELSE Change(Pruned(data))

-----------------------------------------------------------------------------
(* Flush, step by step.                                                     *)

CallFlush(f) ==
  /\ pc' = [pc EXCEPT ![f] = "lock"]
  /\ called' = [called EXCEPT ![f] = ver']
  /\ UNCHANGED <<flushMu, raw, acked, fails>>

\* A tick of Run's ticker.  The select may take it although ctx is done.
RunTick ==
  /\ up /\ pc[Run] = "idle"
  /\ Prune
  /\ CallFlush(Run)
  /\ UNCHANGED <<now, files, process, last>>

\* Run sees ctx.Done: it flushes once more and returns.
RunDone ==
  /\ up /\ stopping /\ pc[Run] = "idle"
  /\ last' = TRUE
  /\ UNCHANGED <<now, memory, files, process>>
  /\ CallFlush(Run)

\* Serve has returned; main's deferred function calls Flush.
MainDone ==
  /\ up /\ stopping /\ pc[Main] = "idle"
  /\ UNCHANGED <<now, memory, files, process, last>>
  /\ CallFlush(Main)

LockFlushIgnored(f) ==
  /\ up /\ pc[f] = "lock"
  /\ flushMu' = f
  /\ pc' = [pc EXCEPT ![f] = "marshal"]
  /\ UNCHANGED <<now, memory, files, process, raw, last, called, acked, fails>>

LockFlush(f) ==
  /\ up /\ pc[f] = "lock"
  /\ flushMu = NoOne
  /\ flushMu' = f
  /\ pc' = [pc EXCEPT ![f] = "marshal"]
  /\ UNCHANGED <<now, memory, files, process, raw, last, called, acked, fails>>

\* Flush returns: flushMu is released.  Run goes back to its select unless
\* ctx has ended; main is about to exit.
Return(f) ==
  /\ flushMu' = NoOne
  /\ pc' = [pc EXCEPT ![f] = IF f = Main \/ last THEN "done" ELSE "idle"]
  /\ raw' = [raw EXCEPT ![f] = Empty]
  /\ called' = [called EXCEPT ![f] = 0]
  /\ UNCHANGED <<now, process, last>>

ReturnNil(f) ==
  /\ Return(f)
  /\ acked' = IF called[f] > acked THEN called[f] ELSE acked
  /\ UNCHANGED fails

\* json.Marshal under mu, or nothing to do.
Marshal(f) ==
  /\ up /\ pc[f] = "marshal"
  /\ \/ /\ ~dirty
        /\ ReturnNil(f)
        /\ UNCHANGED <<memory, files>>
     \/ /\ dirty
        /\ raw' = [raw EXCEPT ![f] = [data |-> data, ver |-> ver]]
        /\ dirty' = FALSE
        /\ pc' = [pc EXCEPT ![f] = "create"]
        /\ UNCHANGED <<now, data, ver, files, process, flushMu, last, called, acked, fails>>

\* os.WriteFile truncates the temporary file ...
CreateTmp(f) ==
  /\ up /\ pc[f] = "create"
  /\ tmp' = Torn
  /\ pc' = [pc EXCEPT ![f] = "write"]
  /\ UNCHANGED <<now, memory, disk, process, flushMu, raw, last, called, acked, fails>>

\* ... and writes it out.
WriteTmp(f) ==
  /\ up /\ pc[f] = "write"
  /\ tmp' = raw[f]
  /\ pc' = [pc EXCEPT ![f] = "rename"]
  /\ UNCHANGED <<now, memory, disk, process, flushMu, raw, last, called, acked, fails>>

RenameEarly(f) ==
  /\ up /\ pc[f] \in {"write", "rename"}
  /\ disk' = tmp
  /\ tmp' = Torn
  /\ ReturnNil(f)
  /\ UNCHANGED memory

Rename(f) ==
  /\ up /\ pc[f] = "rename"
  /\ disk' = tmp
  /\ tmp' = Torn
  /\ ReturnNil(f)
  /\ UNCHANGED memory

FailDropped(f) ==
  /\ up /\ pc[f] \in {"create", "write", "rename"}
  /\ fails < MaxFails /\ fails' = fails + 1
  /\ Return(f)
  /\ UNCHANGED <<memory, files, acked>>

\* MkdirAll, WriteFile or Rename fails: the change is marked unsaved again.
Fail(f) ==
  /\ up /\ pc[f] \in {"create", "write", "rename"}
  /\ fails < MaxFails /\ fails' = fails + 1
  /\ dirty' = TRUE
  /\ Return(f)
  /\ UNCHANGED <<data, ver, files, acked>>

-----------------------------------------------------------------------------
(* The process and its environment.                                         *)

\* SIGTERM: ctx is cancelled.
Stop ==
  /\ up /\ ~stopping
  /\ stopping' = TRUE
  /\ UNCHANGED <<now, memory, files, flushes, up, starts>>

\* The process is gone, and its memory with it.
Gone ==
  /\ up' = FALSE /\ stopping' = FALSE /\ last' = FALSE
  /\ data' = Empty.data /\ dirty' = FALSE /\ ver' = 0
  /\ flushMu' = NoOne
  /\ pc' = [f \in Flushers |-> "idle"]
  /\ raw' = [f \in Flushers |-> Empty]
  /\ called' = [f \in Flushers |-> 0]
  /\ UNCHANGED <<now, files, starts, acked, fails>>

Exit == up /\ pc[Main] = "done" /\ Gone

Crash == up /\ Gone

\* Open: read path, then Prune.
Open ==
  LET kept == Pruned(disk.data) IN
  /\ ~up /\ starts < MaxStarts
  /\ up' = TRUE /\ starts' = starts + 1
  /\ data' = kept
  /\ dirty' = (kept # disk.data)
  /\ ver' = IF kept = disk.data THEN disk.ver ELSE disk.ver + 1
  /\ UNCHANGED <<now, files, flushes, stopping>>

Clock ==
  /\ now < MaxTime
  /\ now' = now + 1
  /\ UNCHANGED <<memory, files, process, flushes>>

\* Every flusher with a temporary file of its own, and no flushMu.
FlushStepOwnTmp(f) ==
  \/ LockFlushIgnored(f) \/ Marshal(f) \/ CreateTmp(f) \/ WriteTmp(f) \/ Fail(f)
  \/ /\ up /\ pc[f] = "rename"
     /\ disk' = raw[f]
     /\ ReturnNil(f)
     /\ UNCHANGED <<memory, tmp>>

FlushStep(f) ==
  LockFlush(f) \/ Marshal(f) \/ CreateTmp(f) \/ WriteTmp(f) \/ Rename(f) \/ Fail(f)

Next ==
  \/ \E k \in Keys : (\E v \in Values, ttl \in Ttls : Set(k, v, ttl)) \/ Get(k) \/ Delete(k)
  \/ RunTick \/ RunDone \/ MainDone
  \/ \E f \in Flushers : FlushStep(f)
  \/ Stop \/ Exit \/ Crash \/ Open \/ Clock

Spec == Init /\ [][Next]_vars

\* The ticker keeps firing, Serve returns once ctx is done, a goroutine inside
\* Flush keeps running and flushMu is handed over.  No fairness for callers, failures, Stop or Crash.
Fairness ==
  /\ WF_vars(RunTick) /\ WF_vars(RunDone) /\ WF_vars(MainDone) /\ WF_vars(Exit)
  /\ \A f \in Flushers : SF_vars(LockFlush(f)) /\ WF_vars(FlushStep(f))

FairSpec == Spec /\ Fairness

-----------------------------------------------------------------------------
Places == {"idle", "lock", "marshal", "create", "write", "rename", "done"}

\* Every variable has its type.  The file at path is in particular always a
\* complete snapshot that Open can read back: write fills a temporary file
\* and renames it (store.go:152-163).
TypeOK ==
  /\ now \in Nat
  /\ data \in [Keys -> Entry \cup {Absent}]
  /\ dirty \in BOOLEAN
  /\ flushMu \in Flushers \cup {NoOne}
  /\ pc \in [Flushers -> Places]
  /\ raw \in [Flushers -> Snapshot]
  /\ tmp \in Snapshot \cup {Torn}
  /\ disk \in Snapshot
  /\ up \in BOOLEAN /\ stopping \in BOOLEAN /\ last \in BOOLEAN
  /\ starts \in Nat /\ fails \in Nat
  /\ ver \in Nat /\ called \in [Flushers -> Nat] /\ acked \in Nat

\* The dirty flag can be trusted (store.go:127-150): when it is clear and no
\* flush is under way, the file holds exactly the map in memory, whatever
\* was set during earlier flushes and whichever of them failed.
CleanMeansSaved ==
  up /\ ~dirty /\ flushMu = NoOne => disk.data = data

\* A Flush that returned nil is durable (the comment of Flush,
\* store.go:124-126): every change made before the call is in the file, also
\* when the call found nothing dirty because another flush had marshalled it,
\* and it stays there through crashes and restarts.
FlushedIsDurable == acked <= disk.ver

\* The file never goes back to an older snapshot (flushMu, store.go:28-29):
\* a slow flush cannot overwrite what a later one saved.
NeverOlder == [][disk'.ver >= disk.ver]_disk

\* Set truncates the deadline to whole seconds and Get compares whole seconds
\* (store.go:64, 78): an entry is never served at or after now + ttl, and is
\* dropped less than one second before it.
ExpiryWithinASecond ==
  \A k \in Keys : data[k] # Absent /\ data[k].due # 0 =>
    IF ExpiredAt(data[k], now) THEN now + TicksPerSecond > data[k].due
                               ELSE now < data[k].due

\* Run (store.go:166-183) eventually saves every change while the process
\* lives and file operations do not keep failing.
EventuallySaved ==
  \A n \in 1..MaxVer : (up /\ ver >= n) ~> (disk.ver >= n \/ ~up)
=============================================================================
