------------------------------ MODULE UdpFlows ------------------------------
(***************************************************************************)
(* The udpPort of internal/sideport/forward.go: one upstream socket per    *)
(* client address, a goroutine per flow, idle expiry by the manager's      *)
(* sweep and Close by release or drop, for the udpPorts that are open at   *)
(* the same time and share Manager.flows.                                  *)
(*                                                                         *)
(* A flow object is named by its port, its client and a number: comparing  *)
(* pointers is comparing names, so a name is used again only when nothing  *)
(* refers to it.  u.mu is held for one step, except by serve, which reads  *)
(* the shared counter and then adds to it.  Dialing (Manager.dial, module  *)
(* SidePorts) succeeds or fails.                                           *)
(***************************************************************************)
EXTENDS Integers, FiniteSets

CONSTANTS
  Ports,             \* udpPort objects
  Clients,           \* client addresses
  Numbers,           \* tell the flow objects of one client apart
  MaxFlowsPerPort,
  MaxUDPFlows,
  MaxLive,           \* bound on the flow goroutines at one time
  NoFlow, Free

Flows == Ports \X Clients \X Numbers

ASSUME UdpAssumption ==
  /\ IsFiniteSet(Ports) /\ IsFiniteSet(Clients)
  /\ MaxFlowsPerPort \in Nat \ {0} /\ MaxUDPFlows \in Nat \ {0}
  /\ MaxLive \in Nat
  /\ NoFlow \notin Flows /\ Free \notin Clients

VARIABLES
  closed,    \* udpPort.closed
  flows,     \* udpPort.flows
  mu,        \* the client serve is admitting while it holds u.mu, or Free
  count,     \* Manager.flows
  at,        \* where each flow's goroutine is
  up,        \* flow.up is set
  sock,      \* the upstream socket dial returned
  idle,      \* flow.last lies before the cutoff
  expiring   \* flows expire collected and has yet to remove

vars == <<closed, flows, mu, count, at, up, sock, idle, expiring>>

Init ==
  /\ closed = [p \in Ports |-> FALSE]
  /\ flows = [p \in Ports |-> [c \in Clients |-> NoFlow]]
  /\ mu = [p \in Ports |-> Free]
  /\ count = 0
  /\ at = [f \in Flows |-> "none"]
  /\ up = [f \in Flows |-> FALSE]
  /\ sock = [f \in Flows |-> "none"]
  /\ idle = [f \in Flows |-> FALSE]
  /\ expiring = [p \in Ports |-> {}]

Entries == {e \in Ports \X Clients : flows[e[1]][e[2]] # NoFlow}

EntriesOf(p) == {e \in Entries : e[1] = p}

InTable(f) == flows[f[1]][f[2]] = f

-----------------------------------------------------------------------------
(* serve.                                                                   *)

PortFull(p) == Cardinality(EntriesOf(p)) >= MaxFlowsPerPort

FlowsFullNever == FALSE

FlowsFull == count >= MaxUDPFlows

Unused(f) == at[f] = "none" /\ f \notin expiring[f[1]]

Live == {f \in Flows : at[f] # "none"}

\* Room for one more flow within the bounds.
Room(p, c) ==
  /\ \E n \in Numbers : Unused(<<p, c, n>>)
  /\ Cardinality(Live) + Cardinality({q \in Ports : mu[q] # Free}) < MaxLive

\* A datagram of a new client is admitted; a refused one changes nothing.
Admit(p, c) ==
  /\ mu[p] = Free /\ flows[p][c] = NoFlow
  /\ ~closed[p] /\ ~PortFull(p) /\ ~FlowsFull
  /\ Room(p, c)
  /\ mu' = [mu EXCEPT ![p] = c]
  /\ UNCHANGED <<closed, flows, count, at, up, sock, idle, expiring>>

\* The flow is entered, counted and started.
Insert(p, f) ==
  /\ mu[p] # Free /\ f[1] = p /\ f[2] = mu[p] /\ Unused(f)
  /\ flows' = [flows EXCEPT ![p][f[2]] = f]
  /\ count' = count + 1
  /\ mu' = [mu EXCEPT ![p] = Free]
  /\ at' = [at EXCEPT ![f] = "dial"]
  /\ UNCHANGED <<closed, up, sock, idle, expiring>>

-----------------------------------------------------------------------------
(* The flow's goroutine: start.                                             *)

\* The dial's answer.
Dialed(f, ok) ==
  /\ at[f] = "dial"
  /\ at' = [at EXCEPT ![f] = IF ok THEN "dialed" ELSE "remove"]
  /\ sock' = [sock EXCEPT ![f] = IF ok THEN "open" ELSE "none"]
  /\ UNCHANGED <<closed, flows, mu, count, up, idle, expiring>>

StaleClosedOnly(f) == closed[f[1]]

\* The flow was expired, or its port closed, while the dial was under way.
Stale(f) == closed[f[1]] \/ ~InTable(f)

Attach(f) ==
  /\ at[f] = "dialed" /\ mu[f[1]] = Free
  /\ at' = [at EXCEPT ![f] = IF Stale(f) THEN "none" ELSE "relay"]
  /\ sock' = [sock EXCEPT ![f] = IF Stale(f) THEN "none" ELSE @]
  /\ up' = [up EXCEPT ![f] = ~Stale(f)]
  /\ idle' = [idle EXCEPT ![f] = @ /\ ~Stale(f)]
  /\ UNCHANGED <<closed, flows, mu, count, expiring>>

\* Traffic in either direction, or UDPIdle without any.
Traffic(f, quiet) ==
  /\ InTable(f) /\ idle[f] # quiet
  /\ idle' = [idle EXCEPT ![f] = quiet]
  /\ UNCHANGED <<closed, flows, mu, count, at, up, sock, expiring>>

\* Read fails with ErrClosed; other errors are retried.
ReadClosed(f) ==
  /\ at[f] = "relay" /\ sock[f] = "closed"
  /\ at' = [at EXCEPT ![f] = "remove"]
  /\ UNCHANGED <<closed, flows, mu, count, up, sock, idle, expiring>>

DetachTwice(f) ==
  /\ mu[f[1]] = Free
  /\ count' = count - 1
  /\ flows' = IF InTable(f) THEN [flows EXCEPT ![f[1]][f[2]] = NoFlow] ELSE flows

\* remove, inside u.mu.
Detach(f) ==
  /\ mu[f[1]] = Free
  /\ IF InTable(f)
     THEN /\ flows' = [flows EXCEPT ![f[1]][f[2]] = NoFlow]
          /\ count' = count - 1
     ELSE UNCHANGED <<flows, count>>

\* start ends with remove, which also closes the socket; what is left of the
\* flow is not read again.
Remove(f) ==
  /\ at[f] = "remove"
  /\ Detach(f)
  /\ at' = [at EXCEPT ![f] = "none"]
  /\ sock' = [sock EXCEPT ![f] = "none"]
  /\ up' = [up EXCEPT ![f] = FALSE]
  /\ idle' = [idle EXCEPT ![f] = FALSE]
  /\ UNCHANGED <<closed, mu, expiring>>

-----------------------------------------------------------------------------
(* expire and Close.                                                        *)

\* expire collects the idle flows under u.mu ...
Collect(p) ==
  /\ mu[p] = Free /\ expiring[p] = {}
  /\ \E f \in Flows : f[1] = p /\ idle[f] /\ InTable(f)
  /\ expiring' = [expiring EXCEPT ![p] =
       {f \in Flows : f[1] = p /\ idle[f] /\ InTable(f)}]
  /\ UNCHANGED <<closed, flows, mu, count, at, up, sock, idle>>

\* ... and removes them one by one.
Expire(p, f) ==
  /\ f \in expiring[p]
  /\ Detach(f)
  /\ expiring' = [expiring EXCEPT ![p] = @ \ {f}]
  /\ sock' = [sock EXCEPT ![f] = IF up[f] THEN "closed" ELSE @]
  /\ UNCHANGED <<closed, mu, at, up, idle>>

\* Close forgets every flow and closes the sockets that are attached.
Close(p) ==
  /\ ~closed[p] /\ mu[p] = Free
  /\ closed' = [closed EXCEPT ![p] = TRUE]
  /\ count' = count - Cardinality(EntriesOf(p))
  /\ flows' = [flows EXCEPT ![p] = [c \in Clients |-> NoFlow]]
  /\ sock' = [f \in Flows |->
       IF f[1] = p /\ InTable(f) /\ up[f] THEN "closed" ELSE sock[f]]
  /\ UNCHANGED <<mu, at, up, idle, expiring>>

Goroutine(f) ==
  \/ \E ok \in BOOLEAN : Dialed(f, ok)
  \/ Attach(f) \/ ReadClosed(f) \/ Remove(f)

Serve(p) == \E f \in Flows : Insert(p, f)

Next ==
  \/ \E p \in Ports :
       \/ \E c \in Clients : Admit(p, c)
       \/ Serve(p) \/ Collect(p) \/ Close(p)
       \/ \E f \in Flows : Expire(p, f)
  \/ \E f \in Flows : Goroutine(f) \/ \E quiet \in BOOLEAN : Traffic(f, quiet)

Spec == Init /\ [][Next]_vars

-----------------------------------------------------------------------------
\* Every variable has its type.
TypeOK ==
  /\ closed \in [Ports -> BOOLEAN]
  /\ flows \in [Ports -> [Clients -> Flows \cup {NoFlow}]]
  /\ mu \in [Ports -> Clients \cup {Free}]
  /\ count \in Nat
  /\ at \in [Flows -> {"none", "dial", "dialed", "relay", "remove"}]
  /\ up \in [Flows -> BOOLEAN]
  /\ sock \in [Flows -> {"none", "open", "closed"}]
  /\ idle \in [Flows -> BOOLEAN]
  /\ expiring \in [Ports -> SUBSET Flows]

\* The shared counter is the number of flows of all ports (forward.go:157,
\* 237, 274): expiry, the goroutine's own remove and Close may meet on one
\* flow, and it is subtracted once.
CountMatches == count = Cardinality(Entries)

\* No upstream socket and no goroutine is leaked (forward.go:200-207): an open
\* socket belongs to a flow of the table, or its goroutine has yet to find
\* out that the flow was expired or the port closed during the dial; a relay
\* whose flow left the table reads from a closed socket and ends.
NoOrphanSocket ==
  \A f \in Flows : sock[f] = "open" => at[f] = "dialed" \/ (at[f] = "relay" /\ InTable(f))

\* "MaxUDPFlows caps UDP flows across all ports" (sideport.go:45), but admit
\* checks the shared counter under the lock of its own port only
\* (forward.go:184): each other port may overshoot by one flow, and no more.
OvershootBounded == count <= MaxUDPFlows + Cardinality(Ports) - 1
=============================================================================
