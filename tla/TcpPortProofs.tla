--------------------------- MODULE TcpPortProofs ----------------------------
(***************************************************************************)
(* Safety of TcpPort for every set of connections and every cap.  The      *)
(* token count is counted over the handlers, and every open socket of a    *)
(* handler that has tracked it is one Close still knows of.                *)
(***************************************************************************)
EXTENDS TcpPort, FiniteSetTheorems, TLAPS

Handlers == {c \in Conns : at[c] # "none"}

(* The token count.                                                         *)

LEMMA StartCounts ==
  ASSUME TypeOK, TokensMatch, NEW c \in Conns, at[c] = "none",
         NEW p \in {"dial", "client", "backend", "copy"}, at' = [at EXCEPT ![c] = p]
  PROVE  Cardinality({d \in Conns : at[d] # "none"})' = sem + 1
<1>1. Handlers' = Handlers \cup {c} /\ c \notin Handlers
  BY DEF Handlers, TypeOK
<1>2. IsFiniteSet(Handlers)
  BY TcpAssumption, FS_Subset DEF Handlers
<1>3. Cardinality(Handlers') = Cardinality(Handlers) + 1
  BY <1>1, <1>2, FS_AddElement
<1> QED
  BY <1>3 DEF Handlers, TokensMatch

LEMMA EndCounts ==
  ASSUME TypeOK, TokensMatch, NEW c \in Conns, at[c] # "none",
         at' = [at EXCEPT ![c] = "none"]
  PROVE  /\ Cardinality({d \in Conns : at[d] # "none"})' = sem - 1
         /\ sem > 0
<1>1. Handlers' = Handlers \ {c} /\ c \in Handlers
  BY DEF Handlers, TypeOK
<1>2. IsFiniteSet(Handlers)
  BY TcpAssumption, FS_Subset DEF Handlers
<1>3. Cardinality(Handlers') = Cardinality(Handlers) - 1
  BY <1>1, <1>2, FS_RemoveElement
<1>4. Cardinality(Handlers) \in Nat /\ Cardinality(Handlers) # 0
  BY <1>1, <1>2, FS_CardinalityType, FS_EmptySet
<1> QED
  BY <1>3, <1>4 DEF Handlers, TokensMatch

LEMMA StayCounts ==
  ASSUME TypeOK, TokensMatch, NEW c \in Conns, at[c] # "none",
         NEW p \in {"dial", "client", "backend", "copy"}, at' = [at EXCEPT ![c] = p]
  PROVE  Cardinality({d \in Conns : at[d] # "none"})' = sem
<1>1. Handlers' = Handlers
  BY DEF Handlers, TypeOK
<1> QED
  BY <1>1 DEF Handlers, TokensMatch

LEMMA FinishTokens ==
  ASSUME TypeOK, TokensMatch, NEW c \in Conns, at[c] # "none", Finish(c),
         UNCHANGED <<closed, closing, listening>>
  PROVE  (TypeOK /\ TokensMatch)'
<1>1. TokensMatch' /\ sem > 0
  BY EndCounts DEF Finish, TokensMatch
<1> QED
  BY <1>1, TcpAssumption DEF Finish, TypeOK

LEMMA TokensInit == Init => TypeOK /\ TokensMatch
<1> SUFFICES ASSUME Init PROVE TypeOK /\ TokensMatch
  OBVIOUS
<1>1. TypeOK
  <2>1. sem \in 0..MaxFlowsPerPort
    BY TcpAssumption DEF Init
  <2>2. /\ closed \in BOOLEAN /\ listening \in BOOLEAN
        /\ conns \in SUBSET (Conns \X Sides) /\ closing \in SUBSET (Conns \X Sides)
    BY DEF Init
  <2>3. /\ at \in [Conns -> {"none", "dial", "client", "backend", "copy"}]
        /\ open \in [Conns -> SUBSET Sides] /\ copying \in [Conns -> SUBSET Sides]
    BY DEF Init
  <2> QED
    BY <2>1, <2>2, <2>3 DEF TypeOK
<1>2. {c \in Conns : at[c] # "none"} = {}
  BY DEF Init
<1> QED
  BY <1>1, <1>2, FS_EmptySet DEF Init, TokensMatch

LEMMA TokensStep == TypeOK /\ TokensMatch /\ [Next]_vars => (TypeOK /\ TokensMatch)'
<1> SUFFICES ASSUME TypeOK, TokensMatch, [Next]_vars PROVE (TypeOK /\ TokensMatch)'
  OBVIOUS
<1>1. ASSUME NEW c \in Conns, Accept(c) PROVE (TypeOK /\ TokensMatch)'
  <2>1. TokensMatch'
    BY <1>1, StartCounts DEF Accept, Unused, TokensMatch
  <2> QED
    BY <1>1, <2>1, TcpAssumption DEF Accept, SemFull, TypeOK, Sides
<1>2. ASSUME NEW c \in Conns, DialFailed(c) PROVE (TypeOK /\ TokensMatch)'
  BY <1>2, FinishTokens DEF DialFailed
<1>3. ASSUME NEW c \in Conns, DialOk(c) PROVE (TypeOK /\ TokensMatch)'
  <2>1. TokensMatch'
    BY <1>3, StayCounts DEF DialOk, TokensMatch
  <2> QED
    BY <1>3, <2>1 DEF DialOk, TypeOK
<1>4. ASSUME NEW c \in Conns, NEW side \in Sides, Track(c, side) PROVE (TypeOK /\ TokensMatch)'
  <2>1. at[c] # "none" /\ After(side) \in {"dial", "client", "backend", "copy"}
    BY <1>4 DEF Track, Sides, After
  <2>2. CASE closed
    BY <1>4, <2>1, <2>2, FinishTokens DEF Track
  <2>3. CASE ~closed
    <3>1. TokensMatch'
      BY <1>4, <2>1, <2>3, StayCounts DEF Track, TokensMatch
    <3> QED
      BY <1>4, <2>1, <2>3, <3>1 DEF Track, TypeOK
  <2> QED
    BY <2>2, <2>3
<1>5. ASSUME NEW c \in Conns, NEW side \in Sides, CopyEnds(c, side)
      PROVE  (TypeOK /\ TokensMatch)'
  BY <1>5 DEF CopyEnds, TypeOK, TokensMatch
<1>6. ASSUME NEW c \in Conns, Done(c) PROVE (TypeOK /\ TokensMatch)'
  BY <1>6, FinishTokens DEF Done
<1>7. CASE CloseTake
  BY <1>7 DEF CloseTake, TypeOK, TokensMatch
<1>8. CASE CloseListener
  BY <1>8 DEF CloseListener, TypeOK, TokensMatch
<1>9. ASSUME NEW c \in Conns, NEW side \in Sides, CloseConn(c, side)
      PROVE  (TypeOK /\ TokensMatch)'
  BY <1>9 DEF CloseConn, TypeOK, TokensMatch
<1>10. CASE UNCHANGED vars
  BY <1>10 DEF vars, TypeOK, TokensMatch
<1> QED
  BY <1>1, <1>2, <1>3, <1>4, <1>5, <1>6, <1>7, <1>8, <1>9, <1>10 DEF Next, Goroutine, Closing

\* Every variable of a port keeps its type; the token count stays within
\* MaxFlowsPerPort (forward.go:58-71), for every number of connections.
THEOREM TcpTypes == Spec => []TypeOK
BY TokensInit, TokensStep, PTL DEF Spec

\* The token count is the number of live handlers (forward.go:59-70),
\* whichever way each of them ends.
THEOREM TokensMatchAlways == Spec => []TokensMatch
BY TokensInit, TokensStep, PTL DEF Spec

-----------------------------------------------------------------------------
(* Close.                                                                   *)

\* Close closes what it took, and nothing is tracked after it.
Taken ==
  /\ closed => conns = {}
  /\ ~closed => closing = {} /\ listening

\* The sides a handler at this point has tracked.
TrackedAt(p) ==
  CASE p = "backend" -> {"client"}
    [] p = "copy" -> Sides
    [] OTHER -> {}

\* A tracked side that is open is still known to the port.
TrackedKnown ==
  \A c \in Conns : \A side \in TrackedAt(at[c]) :
    side \in open[c] => <<c, side>> \in conns \cup closing

CloseInv == TypeOK /\ Taken /\ TrackedKnown

\* Handler c returned: nothing of it is left, and the others keep theirs.
LEMMA FinishKnown ==
  ASSUME CloseInv, NEW c \in Conns, Finish(c), UNCHANGED <<closed, closing, listening>>
  PROVE  (Taken /\ TrackedKnown)'
<1>1. Taken'
  BY DEF CloseInv, Taken, Finish
<1>2. ASSUME NEW d \in Conns, NEW side \in TrackedAt(at[d])', (side \in open[d])'
      PROVE  (<<d, side>> \in conns \cup closing)'
  <2>1. d # c
    BY <1>2 DEF Finish, CloseInv, TypeOK
  <2>2. at'[d] = at[d] /\ open'[d] = open[d]
    BY <2>1 DEF Finish, CloseInv, TypeOK
  <2> QED
    BY <1>2, <2>1, <2>2 DEF Finish, CloseInv, TrackedKnown
<1> QED
  BY <1>1, <1>2 DEF TrackedKnown

LEMMA CloseStep == CloseInv /\ [Next]_vars => (Taken /\ TrackedKnown)'
<1> SUFFICES ASSUME CloseInv, [Next]_vars PROVE (Taken /\ TrackedKnown)'
  OBVIOUS
<1> USE DEF CloseInv
<1>1. ASSUME NEW c \in Conns, Accept(c) PROVE (Taken /\ TrackedKnown)'
  BY <1>1 DEF Accept, Taken, TrackedKnown, TrackedAt, TypeOK
<1>2. ASSUME NEW c \in Conns, DialFailed(c) PROVE (Taken /\ TrackedKnown)'
  BY <1>2, FinishKnown DEF DialFailed
<1>3. ASSUME NEW c \in Conns, DialOk(c) PROVE (Taken /\ TrackedKnown)'
  BY <1>3 DEF DialOk, Taken, TrackedKnown, TrackedAt, TypeOK
<1>4. ASSUME NEW c \in Conns, NEW side \in Sides, Track(c, side) PROVE (Taken /\ TrackedKnown)'
  <2>1. CASE closed
    BY <1>4, <2>1, FinishKnown DEF Track
  <2>2. CASE ~closed
    <3>1. Taken'
      BY <1>4, <2>2 DEF Track, Taken
    <3>2. TrackedKnown'
      BY <1>4, <2>2 DEF Track, TrackedKnown, TrackedAt, After, Sides, TypeOK
    <3> QED
      BY <3>1, <3>2
  <2> QED
    BY <2>1, <2>2
<1>5. ASSUME NEW c \in Conns, NEW side \in Sides, CopyEnds(c, side)
      PROVE  (Taken /\ TrackedKnown)'
  BY <1>5 DEF CopyEnds, Taken, TrackedKnown
<1>6. ASSUME NEW c \in Conns, Done(c) PROVE (Taken /\ TrackedKnown)'
  BY <1>6, FinishKnown DEF Done
<1>7. CASE CloseTake
  BY <1>7 DEF CloseTake, Taken, TrackedKnown
<1>8. CASE CloseListener
  BY <1>8 DEF CloseListener, Taken, TrackedKnown
<1>9. ASSUME NEW c \in Conns, NEW side \in Sides, CloseConn(c, side)
      PROVE  (Taken /\ TrackedKnown)'
  <2>1. Taken'
    BY <1>9 DEF CloseConn, Taken
  <2>2. TrackedKnown'
    BY <1>9 DEF CloseConn, TrackedKnown, TrackedAt, Sides, TypeOK
  <2> QED
    BY <2>1, <2>2
<1>10. CASE UNCHANGED vars
  BY <1>10 DEF vars, Taken, TrackedKnown
<1> QED
  BY <1>1, <1>2, <1>3, <1>4, <1>5, <1>6, <1>7, <1>8, <1>9, <1>10 DEF Next, Goroutine, Closing

\* "Close stops accepting and ends open connections" (forward.go:24): once it
\* has returned no handler relays over an open socket, wherever the handlers
\* were between accept, dial and the two calls of track.
THEOREM NoneSurvivesAlways == Spec => []NoneSurvives
<1>1. Init => Taken /\ TrackedKnown
  BY DEF Init, Taken, TrackedKnown, TrackedAt
<1>2. CloseInv => NoneSurvives
  BY DEF CloseInv, NoneSurvives, CloseReturned, Taken, TrackedKnown, TrackedAt, TypeOK
<1> QED
  BY <1>1, <1>2, TcpTypes, CloseStep, PTL DEF Spec, CloseInv
=============================================================================
