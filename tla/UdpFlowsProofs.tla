--------------------------- MODULE UdpFlowsProofs ---------------------------
(***************************************************************************)
(* Safety of UdpFlows for every number of ports, clients and flow objects: *)
(* the shared counter, the sockets of flows that leave the table while     *)
(* their goroutines dial or relay, and how far the shared cap is passed.   *)
(***************************************************************************)
EXTENDS UdpFlows, FiniteSetTheorems, TLAPS

Busy == {p \in Ports : mu[p] # Free}

(* The parts of the invariant.                                              *)

\* The entry serve is about to fill is empty: u.mu is held meanwhile.
SlotKept == \A p \in Ports : mu[p] # Free => flows[p][mu[p]] = NoFlow

\* A goroutine that relays has attached its socket.
RelayUp == \A f \in Flows : at[f] = "relay" => up[f]

\* Every port that is admitting a flow checked the counter before.
Reserved == count + Cardinality(Busy) <= MaxUDPFlows + Cardinality(Ports) - 1

FlowInv ==
  TypeOK /\ SlotKept /\ CountMatches /\ RelayUp /\ NoOrphanSocket /\ Reserved

-----------------------------------------------------------------------------
(* Counting.                                                                *)

LEMMA EntriesFinite == IsFiniteSet(Entries) /\ Cardinality(Entries) \in Nat
<1>1. IsFiniteSet(Ports \X Clients)
  BY UdpAssumption, FS_Product
<1>2. IsFiniteSet(Entries)
  BY <1>1, FS_Subset DEF Entries
<1> QED
  BY <1>2, FS_CardinalityType

LEMMA BusyFinite ==
  /\ IsFiniteSet(Busy) /\ Cardinality(Busy) \in Nat
  /\ Cardinality(Ports) \in Nat
  /\ Cardinality(Busy) <= Cardinality(Ports)
<1>1. IsFiniteSet(Busy) /\ Cardinality(Busy) <= Cardinality(Ports)
  BY UdpAssumption, FS_Subset DEF Busy
<1> QED
  BY <1>1, UdpAssumption, FS_CardinalityType

\* An empty entry is filled.
LEMMA FillCounts ==
  ASSUME TypeOK, CountMatches, NEW p \in Ports, NEW c \in Clients, NEW f \in Flows,
         flows[p][c] = NoFlow, flows' = [flows EXCEPT ![p][c] = f]
  PROVE  Cardinality(Entries)' = count + 1
<1>1. Entries' = Entries \cup {<<p, c>>} /\ <<p, c>> \notin Entries
  BY UdpAssumption DEF Entries, TypeOK
<1>2. Cardinality(Entries') = Cardinality(Entries) + 1
  BY <1>1, EntriesFinite, FS_AddElement
<1> QED
  BY <1>2 DEF CountMatches

\* A flow leaves the table.
LEMMA LeaveCounts ==
  ASSUME TypeOK, CountMatches, NEW f \in Flows, InTable(f),
         flows' = [flows EXCEPT ![f[1]][f[2]] = NoFlow]
  PROVE  Cardinality(Entries)' = count - 1 /\ count - 1 \in Nat
<1>0. f[1] \in Ports /\ f[2] \in Clients
  BY DEF Flows
<1>1. Entries' = Entries \ {<<f[1], f[2]>>} /\ <<f[1], f[2]>> \in Entries
  BY <1>0, UdpAssumption DEF Entries, TypeOK, InTable
<1>2. Cardinality(Entries') = Cardinality(Entries) - 1
  BY <1>1, EntriesFinite, FS_RemoveElement
<1>3. Cardinality(Entries) \in Nat /\ Cardinality(Entries) # 0
  BY <1>1, EntriesFinite, FS_EmptySet
<1> QED
  BY <1>2, <1>3 DEF CountMatches

\* A port forgets its entries at once.
LEMMA ForgetCounts ==
  ASSUME TypeOK, CountMatches, NEW p \in Ports,
         flows' = [flows EXCEPT ![p] = [c \in Clients |-> NoFlow]]
  PROVE  /\ Cardinality(Entries)' = count - Cardinality(EntriesOf(p))
         /\ count - Cardinality(EntriesOf(p)) \in Nat
         /\ Cardinality(EntriesOf(p)) \in Nat
<1>1. Entries' = Entries \ EntriesOf(p)
  BY DEF Entries, EntriesOf, TypeOK
<1>2. EntriesOf(p) \subseteq Entries
  BY DEF EntriesOf
<1>3. /\ IsFiniteSet(EntriesOf(p))
      /\ Cardinality(EntriesOf(p)) <= Cardinality(Entries)
  BY <1>2, EntriesFinite, FS_Subset
<1>4. Entries \cap EntriesOf(p) = EntriesOf(p)
  BY <1>2
<1>5. Cardinality(Entries') = Cardinality(Entries) - Cardinality(EntriesOf(p))
  <2>1. Cardinality(Entries \ EntriesOf(p))
          = Cardinality(Entries) - Cardinality(Entries \cap EntriesOf(p))
    BY EntriesFinite, FS_Difference
  <2> QED
    BY <1>1, <1>4, <2>1
<1>6. Cardinality(EntriesOf(p)) \in Nat
  BY <1>3, FS_CardinalityType
<1> QED
  BY <1>3, <1>5, <1>6, EntriesFinite DEF CountMatches

\* The ports that are admitting.
LEMMA AdmitBusy ==
  ASSUME TypeOK, NEW p \in Ports, NEW c \in Clients, mu' = [mu EXCEPT ![p] = c]
  PROVE  Cardinality(Busy') <= Cardinality(Ports) /\ Cardinality(Busy') \in Nat
<1>1. IsFiniteSet(Busy') /\ Cardinality(Busy') <= Cardinality(Ports)
  BY UdpAssumption, FS_Subset DEF Busy
<1> QED
  BY <1>1, FS_CardinalityType

LEMMA InsertBusy ==
  ASSUME TypeOK, NEW p \in Ports, mu[p] # Free, mu' = [mu EXCEPT ![p] = Free]
  PROVE  Cardinality(Busy') = Cardinality(Busy) - 1
<1>1. Busy' = Busy \ {p} /\ p \in Busy
  BY DEF Busy, TypeOK
<1> QED
  BY <1>1, BusyFinite, FS_RemoveElement

-----------------------------------------------------------------------------
(* What the steps keep.                                                     *)

\* A flow's detaching leaves every other flow where it is.
LEMMA DetachKeeps ==
  ASSUME FlowInv, NEW f \in Flows, Detach(f), mu' = mu
  PROVE  /\ flows' \in [Ports -> [Clients -> Flows \cup {NoFlow}]]
         /\ count' \in Nat /\ count' <= count
         /\ count' = Cardinality(Entries)'
         /\ SlotKept'
         /\ \A g \in Flows : g # f => (InTable(g)' <=> InTable(g))
         /\ ~InTable(f)'
<1> USE DEF FlowInv
<1>0. f[1] \in Ports /\ f[2] \in Clients /\ f # NoFlow
  BY UdpAssumption DEF Flows
<1>1. CASE InTable(f)
  <2>1. /\ flows' = [flows EXCEPT ![f[1]][f[2]] = NoFlow]
        /\ count' = count - 1
    BY <1>1 DEF Detach
  <2>2. flows' \in [Ports -> [Clients -> Flows \cup {NoFlow}]]
    BY <1>0, <2>1 DEF TypeOK
  <2>3. count' \in Nat /\ count' <= count /\ count' = Cardinality(Entries)'
    <3>1. Cardinality(Entries)' = count - 1 /\ count - 1 \in Nat
      BY <1>1, <2>1, LeaveCounts
    <3> QED
      BY <2>1, <3>1 DEF TypeOK
  <2>4. SlotKept'
    <3> SUFFICES ASSUME NEW p \in Ports, mu[p] # Free PROVE flows'[p][mu[p]] = NoFlow
      BY DEF SlotKept
    <3>1. mu[p] \in Clients /\ flows[p][mu[p]] = NoFlow
      BY DEF SlotKept, TypeOK
    <3>2. p # f[1]
      BY DEF Detach
    <3> QED
      BY <1>0, <2>1, <3>1, <3>2 DEF TypeOK
  <2>5. ASSUME NEW g \in Flows, g # f PROVE InTable(g)' <=> InTable(g)
    <3>1. g[1] \in Ports /\ g[2] \in Clients /\ g # NoFlow
      BY UdpAssumption DEF Flows
    <3>2. CASE g[1] = f[1] /\ g[2] = f[2]
      BY <1>0, <1>1, <2>1, <2>5, <3>1, <3>2 DEF InTable, TypeOK
    <3>3. CASE ~(g[1] = f[1] /\ g[2] = f[2])
      BY <1>0, <2>1, <3>1, <3>3 DEF InTable, TypeOK
    <3> QED
      BY <3>2, <3>3
  <2>6. ~InTable(f)'
    BY <1>0, <2>1 DEF InTable, TypeOK
  <2> QED
    BY <2>2, <2>3, <2>4, <2>5, <2>6
<1>2. CASE ~InTable(f)
  <2>1. flows' = flows /\ count' = count
    BY <1>2 DEF Detach
  <2>2. Entries' = Entries
    BY <2>1 DEF Entries
  <2> QED
    BY <1>2, <2>1, <2>2 DEF InTable, SlotKept, CountMatches, TypeOK
<1> QED
  BY <1>1, <1>2

\* A lower counter and no new admission keep the reservation.
LEMMA ReservedKept ==
  ASSUME FlowInv, mu' = mu, count' \in Nat, count' <= count
  PROVE  Reserved'
<1>1. Busy' = Busy
  BY DEF Busy
<1> QED
  BY <1>1, BusyFinite, UdpAssumption DEF FlowInv, Reserved, TypeOK

\* A step that leaves table, locks and counter alone.
LEMMA TableKept ==
  ASSUME FlowInv, UNCHANGED <<flows, mu, count>>
  PROVE  (SlotKept /\ CountMatches /\ Reserved)' /\ \A f : InTable(f)' <=> InTable(f)
<1>1. Entries' = Entries /\ Busy' = Busy
  BY DEF Entries, Busy
<1> QED
  BY <1>1 DEF FlowInv, SlotKept, CountMatches, Reserved, InTable

-----------------------------------------------------------------------------
(* One lemma per action.                                                    *)

LEMMA AdmitStep ==
  ASSUME FlowInv, NEW p \in Ports, NEW c \in Clients, Admit(p, c)
  PROVE  FlowInv'
<1> USE DEF FlowInv
<1>1. TypeOK'
  BY DEF Admit, TypeOK
<1>2. SlotKept'
  BY UdpAssumption DEF Admit, SlotKept, TypeOK
<1>3. CountMatches'
  <2>1. Entries' = Entries
    BY DEF Admit, Entries
  <2> QED
    BY <2>1 DEF Admit, CountMatches
<1>4. RelayUp' /\ NoOrphanSocket'
  BY DEF Admit, RelayUp, NoOrphanSocket, InTable
<1>5. Reserved'
  <2>1. Cardinality(Busy') <= Cardinality(Ports) /\ Cardinality(Busy') \in Nat
    BY AdmitBusy DEF Admit
  <2>2. count' = count /\ count < MaxUDPFlows /\ count \in Nat /\ Cardinality(Ports) \in Nat
    BY BusyFinite, UdpAssumption DEF Admit, FlowsFull, TypeOK
  <2> QED
    BY <2>1, <2>2, UdpAssumption DEF Reserved
<1> QED
  BY <1>1, <1>2, <1>3, <1>4, <1>5

LEMMA InsertStep ==
  ASSUME FlowInv, NEW p \in Ports, NEW f \in Flows, Insert(p, f)
  PROVE  FlowInv'
<1> USE DEF FlowInv
<1>0. /\ f[1] = p /\ f[2] \in Clients /\ f # NoFlow
      /\ mu[p] = f[2] /\ flows[p][f[2]] = NoFlow /\ mu[p] # Free
  BY UdpAssumption DEF Insert, SlotKept, Flows
<1>1. TypeOK'
  BY <1>0 DEF Insert, TypeOK
<1>2. SlotKept'
  BY <1>0 DEF Insert, SlotKept, TypeOK
<1>3. CountMatches'
  BY <1>0, FillCounts DEF Insert, CountMatches
<1>4. RelayUp'
  BY DEF Insert, RelayUp, TypeOK
<1>5. NoOrphanSocket'
  <2> SUFFICES ASSUME NEW g \in Flows, sock[g] = "open"
               PROVE  at'[g] = "dialed" \/ (at'[g] = "relay" /\ InTable(g)')
    BY DEF Insert, NoOrphanSocket
  <2>1. g[1] \in Ports /\ g[2] \in Clients /\ g # NoFlow
    BY UdpAssumption DEF Flows
  <2>2. at[g] = "dialed" \/ (at[g] = "relay" /\ InTable(g))
    BY DEF NoOrphanSocket
  <2>3. g # f /\ at'[g] = at[g]
    BY <2>2 DEF Insert, Unused, TypeOK
  <2>4. InTable(g) => InTable(g)'
    BY <1>0, <2>1 DEF Insert, InTable, TypeOK
  <2> QED
    BY <2>2, <2>3, <2>4
<1>6. Reserved'
  <2>1. Cardinality(Busy') = Cardinality(Busy) - 1 /\ count' = count + 1
    BY <1>0, InsertBusy DEF Insert
  <2> QED
    BY <2>1, BusyFinite, UdpAssumption DEF Reserved, TypeOK
<1> QED
  BY <1>1, <1>2, <1>3, <1>4, <1>5, <1>6

LEMMA GoroutineStep ==
  ASSUME FlowInv, NEW f \in Flows, Goroutine(f)
  PROVE  FlowInv'
<1> USE DEF FlowInv
<1>1. ASSUME NEW ok \in BOOLEAN, Dialed(f, ok) PROVE FlowInv'
  <2>1. TypeOK'
    BY <1>1 DEF Dialed, TypeOK
  <2>2. (SlotKept /\ CountMatches /\ Reserved)' /\ \A g : InTable(g)' <=> InTable(g)
    BY <1>1, TableKept DEF Dialed
  <2>3. RelayUp'
    BY <1>1 DEF Dialed, RelayUp, TypeOK
  <2>4. NoOrphanSocket'
    BY <1>1, <2>2 DEF Dialed, NoOrphanSocket, TypeOK
  <2> QED
    BY <2>1, <2>2, <2>3, <2>4
<1>2. CASE Attach(f)
  <2>1. TypeOK'
    BY <1>2 DEF Attach, TypeOK
  <2>2. (SlotKept /\ CountMatches /\ Reserved)' /\ \A g : InTable(g)' <=> InTable(g)
    BY <1>2, TableKept DEF Attach
  <2>3. RelayUp'
    BY <1>2 DEF Attach, RelayUp, TypeOK
  <2>4. NoOrphanSocket'
    BY <1>2, <2>2 DEF Attach, NoOrphanSocket, Stale, TypeOK
  <2> QED
    BY <2>1, <2>2, <2>3, <2>4
<1>3. CASE ReadClosed(f)
  <2>1. TypeOK'
    BY <1>3 DEF ReadClosed, TypeOK
  <2>2. (SlotKept /\ CountMatches /\ Reserved)' /\ \A g : InTable(g)' <=> InTable(g)
    BY <1>3, TableKept DEF ReadClosed
  <2>3. RelayUp' /\ NoOrphanSocket'
    BY <1>3, <2>2 DEF ReadClosed, RelayUp, NoOrphanSocket, TypeOK
  <2> QED
    BY <2>1, <2>2, <2>3
<1>4. CASE Remove(f)
  <2>1. /\ flows' \in [Ports -> [Clients -> Flows \cup {NoFlow}]]
        /\ count' \in Nat /\ count' <= count
        /\ count' = Cardinality(Entries)'
        /\ SlotKept'
        /\ \A g \in Flows : g # f => (InTable(g)' <=> InTable(g))
    BY <1>4, DetachKeeps DEF Remove
  <2>2. TypeOK'
    BY <1>4, <2>1 DEF Remove, TypeOK
  <2>3. Reserved' /\ CountMatches'
    BY <1>4, <2>1, ReservedKept DEF Remove, CountMatches
  <2>4. RelayUp'
    BY <1>4 DEF Remove, RelayUp, TypeOK
  <2>5. NoOrphanSocket'
    BY <1>4, <2>1 DEF Remove, NoOrphanSocket, TypeOK
  <2> QED
    BY <2>1, <2>2, <2>3, <2>4, <2>5
<1> QED
  BY <1>1, <1>2, <1>3, <1>4 DEF Goroutine

LEMMA TrafficStep ==
  ASSUME FlowInv, NEW f \in Flows, NEW quiet \in BOOLEAN, Traffic(f, quiet)
  PROVE  FlowInv'
<1> USE DEF FlowInv
<1>1. TypeOK'
  BY DEF Traffic, TypeOK
<1>2. (SlotKept /\ CountMatches /\ Reserved)' /\ \A g : InTable(g)' <=> InTable(g)
  BY TableKept DEF Traffic
<1>3. RelayUp' /\ NoOrphanSocket'
  BY <1>2 DEF Traffic, RelayUp, NoOrphanSocket
<1> QED
  BY <1>1, <1>2, <1>3

LEMMA CollectStep ==
  ASSUME FlowInv, NEW p \in Ports, Collect(p)
  PROVE  FlowInv'
<1> USE DEF FlowInv
<1>1. TypeOK'
  BY DEF Collect, TypeOK
<1>2. (SlotKept /\ CountMatches /\ Reserved)' /\ \A g : InTable(g)' <=> InTable(g)
  BY TableKept DEF Collect
<1>3. RelayUp' /\ NoOrphanSocket'
  BY <1>2 DEF Collect, RelayUp, NoOrphanSocket
<1> QED
  BY <1>1, <1>2, <1>3

LEMMA ExpireStep ==
  ASSUME FlowInv, NEW p \in Ports, NEW f \in Flows, Expire(p, f)
  PROVE  FlowInv'
<1> USE DEF FlowInv
<1>1. /\ flows' \in [Ports -> [Clients -> Flows \cup {NoFlow}]]
      /\ count' \in Nat /\ count' <= count
      /\ count' = Cardinality(Entries)'
      /\ SlotKept'
      /\ \A g \in Flows : g # f => (InTable(g)' <=> InTable(g))
  BY DetachKeeps DEF Expire
<1>2. TypeOK'
  BY <1>1 DEF Expire, TypeOK
<1>3. Reserved' /\ CountMatches'
  BY <1>1, ReservedKept DEF Expire, CountMatches
<1>4. RelayUp'
  BY DEF Expire, RelayUp
<1>5. NoOrphanSocket'
  BY <1>1 DEF Expire, NoOrphanSocket, RelayUp, TypeOK
<1> QED
  BY <1>1, <1>2, <1>3, <1>4, <1>5

LEMMA CloseStep ==
  ASSUME FlowInv, NEW p \in Ports, Close(p)
  PROVE  FlowInv'
<1> USE DEF FlowInv
<1>1. /\ Cardinality(Entries)' = count'
      /\ count' \in Nat /\ count' <= count
  <2>1. /\ Cardinality(Entries)' = count - Cardinality(EntriesOf(p))
        /\ count - Cardinality(EntriesOf(p)) \in Nat
        /\ Cardinality(EntriesOf(p)) \in Nat
    BY ForgetCounts DEF Close
  <2> QED
    BY <2>1 DEF Close, TypeOK
<1>2. TypeOK'
  BY <1>1 DEF Close, TypeOK
<1>3. Reserved' /\ CountMatches'
  BY <1>1, ReservedKept DEF Close, CountMatches
<1>4. SlotKept'
  BY DEF Close, SlotKept, TypeOK
<1>5. RelayUp'
  BY DEF Close, RelayUp
<1>6. NoOrphanSocket'
  <2> SUFFICES ASSUME NEW g \in Flows, sock'[g] = "open"
               PROVE  at[g] = "dialed" \/ (at[g] = "relay" /\ InTable(g)')
    BY DEF Close, NoOrphanSocket
  <2>1. sock[g] = "open" /\ ~(g[1] = p /\ InTable(g) /\ up[g])
    BY DEF Close
  <2>2. at[g] = "relay" => InTable(g) /\ g[1] # p
    BY <2>1 DEF NoOrphanSocket, RelayUp
  <2>3. g[1] # p => (InTable(g)' <=> InTable(g))
    BY DEF Close, InTable, TypeOK, Flows
  <2> QED
    BY <2>1, <2>2, <2>3 DEF NoOrphanSocket
<1> QED
  BY <1>1, <1>2, <1>3, <1>4, <1>5, <1>6

LEMMA FlowInvInit == Init => FlowInv
<1> SUFFICES ASSUME Init PROVE FlowInv
  OBVIOUS
<1>1. TypeOK
  BY DEF Init, TypeOK
<1>2. Entries = {} /\ Busy = {}
  BY DEF Init, Entries, Busy
<1>3. CountMatches /\ Reserved
  BY <1>2, FS_EmptySet, BusyFinite, UdpAssumption DEF CountMatches, Reserved, Init
<1>4. SlotKept /\ RelayUp /\ NoOrphanSocket
  BY DEF Init, SlotKept, RelayUp, NoOrphanSocket
<1> QED
  BY <1>1, <1>3, <1>4 DEF FlowInv

LEMMA FlowInvStep == FlowInv /\ [Next]_vars => FlowInv'
<1> SUFFICES ASSUME FlowInv, [Next]_vars PROVE FlowInv'
  OBVIOUS
<1>1. CASE UNCHANGED vars
  <2>1. Entries' = Entries /\ Busy' = Busy
    BY <1>1 DEF vars, Entries, Busy
  <2> QED
    BY <1>1, <2>1 DEF vars, FlowInv, TypeOK, SlotKept, CountMatches, RelayUp,
                     NoOrphanSocket, Reserved, InTable
<1>2. CASE Next
  BY <1>2, AdmitStep, InsertStep, GoroutineStep, TrafficStep, CollectStep, ExpireStep, CloseStep
     DEF Next, Serve
<1> QED
  BY <1>1, <1>2

LEMMA FlowInvAlways == Spec => []FlowInv
BY FlowInvInit, FlowInvStep, PTL DEF Spec

-----------------------------------------------------------------------------
\* Every variable of the ports keeps its type; the shared counter is never
\* negative (forward.go:237, 274), for every number of ports, clients and flows.
THEOREM UdpTypes == Spec => []TypeOK
BY FlowInvAlways, PTL DEF FlowInv

\* The shared counter is the number of flows of all ports (forward.go:157,
\* 237, 274): expiry, a goroutine's own remove and Close may meet on one flow,
\* and it is subtracted once.
THEOREM CountMatchesAlways == Spec => []CountMatches
BY FlowInvAlways, PTL DEF FlowInv

\* No upstream socket stays open for a flow that left the table
\* (forward.go:200-207), whether it left during the dial or while relaying.
THEOREM NoOrphanSocketAlways == Spec => []NoOrphanSocket
BY FlowInvAlways, PTL DEF FlowInv

\* The shared cap is passed by at most one flow for each other port
\* (forward.go:184): every port that is past the check holds its own lock.
THEOREM OvershootBoundedAlways == Spec => []OvershootBounded
<1>1. FlowInv => OvershootBounded
  BY BusyFinite, UdpAssumption DEF FlowInv, Reserved, OvershootBounded, TypeOK
<1> QED
  BY <1>1, FlowInvAlways, PTL
=============================================================================
