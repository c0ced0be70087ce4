------------------------------ MODULE TcpPort ------------------------------
(***************************************************************************)
(* The tcpPort of internal/sideport/forward.go: connections of one public  *)
(* port, at most MaxFlowsPerPort of them, copied in both directions until  *)
(* both ends have finished or Close, called by release or drop, ends them. *)
(* t.mu is held for one step; dialing (Manager.dial, module SidePorts)     *)
(* succeeds or fails.                                                      *)
(***************************************************************************)
EXTENDS Integers, FiniteSets

CONSTANTS
  Conns,              \* accepted connections and their goroutines
  MaxFlowsPerPort

ASSUME TcpAssumption == IsFiniteSet(Conns) /\ MaxFlowsPerPort \in Nat \ {0}

Sides == {"client", "backend"}

VARIABLES
  closed,     \* tcpPort.closed
  conns,      \* tcpPort.conns
  closing,    \* the connections Close took out of conns and has yet to close
  listening,  \* the listener is open
  sem,        \* tokens in tcpPort.sem
  at,         \* where each connection's goroutine is
  open,       \* the sides of each connection whose socket is open
  copying     \* the sides each connection still copies from

vars == <<closed, conns, closing, listening, sem, at, open, copying>>

Init ==
  /\ closed = FALSE /\ conns = {} /\ closing = {} /\ listening = TRUE
  /\ sem = 0
  /\ at = [c \in Conns |-> "none"]
  /\ open = [c \in Conns |-> {}]
  /\ copying = [c \in Conns |-> {}]

SemFull == sem >= MaxFlowsPerPort

\* The name c is not in use: no goroutine, and Close is not about to close it.
Unused(c) == at[c] = "none" /\ closing \cap ({c} \X Sides) = {}

\* serve: a connection beyond the cap is closed at once and changes nothing.
Accept(c) ==
  /\ listening /\ Unused(c) /\ ~SemFull
  /\ sem' = sem + 1
  /\ at' = [at EXCEPT ![c] = "dial"]
  /\ open' = [open EXCEPT ![c] = {"client"}]
  /\ UNCHANGED <<closed, conns, closing, listening, copying>>

\* handle returns: its deferred calls close both sockets, untrack them
\* and give the token back.
Finish(c) ==
  /\ at' = [at EXCEPT ![c] = "none"]
  /\ open' = [open EXCEPT ![c] = {}]
  /\ copying' = [copying EXCEPT ![c] = {}]
  /\ conns' = conns \ ({c} \X Sides)
  /\ sem' = sem - 1

DialFailedKeepsToken(c) ==
  /\ at[c] = "dial"
  /\ at' = [at EXCEPT ![c] = "none"]
  /\ open' = [open EXCEPT ![c] = {}]
  /\ UNCHANGED <<closed, conns, closing, listening, sem, copying>>

DialFailed(c) ==
  /\ at[c] = "dial"
  /\ Finish(c)
  /\ UNCHANGED <<closed, closing, listening>>

DialOk(c) ==
  /\ at[c] = "dial"
  /\ at' = [at EXCEPT ![c] = "client"]
  /\ open' = [open EXCEPT ![c] = Sides]
  /\ UNCHANGED <<closed, conns, closing, listening, sem, copying>>

\* The goroutine's next step after tracking a side.
After(side) == IF side = "client" THEN "backend" ELSE "copy"

TrackUnchecked(c, side) ==
  /\ at[c] = side
  /\ conns' = conns \cup {<<c, side>>}
  /\ at' = [at EXCEPT ![c] = After(side)]
  /\ copying' = [copying EXCEPT ![c] = IF side = "client" THEN {} ELSE Sides]
  /\ UNCHANGED <<closed, closing, listening, sem, open>>

\* track refuses once the port is closed, and handle returns; after the
\* second side both copies start.
Track(c, side) ==
  /\ at[c] = side
  /\ IF closed THEN Finish(c)
     ELSE /\ conns' = conns \cup {<<c, side>>}
          /\ at' = [at EXCEPT ![c] = After(side)]
          /\ copying' = [copying EXCEPT ![c] = IF side = "client" THEN {} ELSE Sides]
          /\ UNCHANGED <<sem, open>>
  /\ UNCHANGED <<closed, closing, listening>>

\* A side sends EOF or fails; the other direction may go on (closeWrite).
CopyEnds(c, side) ==
  /\ at[c] = "copy" /\ side \in copying[c]
  /\ copying' = [copying EXCEPT ![c] = @ \ {side}]
  /\ UNCHANGED <<closed, conns, closing, listening, sem, at, open>>

\* A socket that was closed ends the copies that use it.
CopyCut(c) == open[c] # Sides /\ \E side \in Sides : CopyEnds(c, side)

\* Both copies are over.
Done(c) ==
  /\ at[c] = "copy" /\ copying[c] = {}
  /\ Finish(c)
  /\ UNCHANGED <<closed, closing, listening>>

\* Close: take the tracked connections under mu, ...
CloseTake ==
  /\ ~closed
  /\ closed' = TRUE /\ closing' = conns /\ conns' = {}
  /\ UNCHANGED <<listening, sem, at, open, copying>>

\* ... close the listener, ...
CloseListener ==
  /\ closed /\ listening
  /\ listening' = FALSE
  /\ UNCHANGED <<closed, conns, closing, sem, at, open, copying>>

\* ... then the connections, one by one.
CloseConn(c, side) ==
  /\ ~listening /\ <<c, side>> \in closing
  /\ closing' = closing \ {<<c, side>>}
  /\ open' = [open EXCEPT ![c] = @ \ {side}]
  /\ UNCHANGED <<closed, conns, listening, sem, at, copying>>

Goroutine(c) ==
  \/ DialFailed(c) \/ DialOk(c) \/ Done(c)
  \/ \E side \in Sides : Track(c, side)

Closing == CloseListener \/ \E c \in Conns, side \in Sides : CloseConn(c, side)

Next ==
  \/ \E c \in Conns :
       \/ Accept(c) \/ Goroutine(c)
       \/ \E side \in Sides : CopyEnds(c, side)
  \/ CloseTake \/ Closing

Spec == Init /\ [][Next]_vars

\* Goroutines run on, dials end (5 s timeout), a copy from or to a closed
\* socket ends, and Close returns.  Peers owe nothing.
Fairness ==
  /\ \A c \in Conns : WF_vars(Goroutine(c)) /\ WF_vars(CopyCut(c))
  /\ WF_vars(Closing)

FairSpec == Spec /\ Fairness

-----------------------------------------------------------------------------
\* Every variable has its type.
TypeOK ==
  /\ closed \in BOOLEAN /\ listening \in BOOLEAN
  /\ conns \in SUBSET (Conns \X Sides) /\ closing \in SUBSET (Conns \X Sides)
  /\ sem \in 0..MaxFlowsPerPort
  /\ at \in [Conns -> {"none", "dial", "client", "backend", "copy"}]
  /\ open \in [Conns -> SUBSET Sides]
  /\ copying \in [Conns -> SUBSET Sides]

\* Close has returned.
CloseReturned == closed /\ ~listening /\ closing = {}

\* "Close stops accepting and ends open connections" (forward.go:24): when it
\* has returned no connection is relayed over an open socket, although
\* handlers may have been between dial and track.
NoneSurvives ==
  CloseReturned => \A c \in Conns : at[c] = "copy" => open[c] = {}

\* The port's token count is the number of live handlers (forward.go:59-70):
\* a failed dial, a refused track and a finished relay each give it back once,
\* so the cap neither leaks away nor is passed.
TokensMatch == sem = Cardinality({c \in Conns : at[c] # "none"})

\* After Close every handler ends and its sockets are closed (forward.go:74-104),
\* even when neither peer ever sends EOF.
HandlersEnd == closed ~> (\A c \in Conns : at[c] = "none" /\ open[c] = {})
=============================================================================
