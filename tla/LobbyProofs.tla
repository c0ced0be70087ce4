---------------------------- MODULE LobbyProofs -----------------------------
(***************************************************************************)
(* Safety of LobbySession for every capacity of the channel, every length  *)
(* of the waits within WaitsAssumption and any number of frames: where     *)
(* the session has got to says what the client sent before and how much    *)
(* time has passed.                                                        *)
(***************************************************************************)
EXTENDS LobbySession, TLAPS

Places == SendPlaces \cup Waits \cup {"ended"}

(* The parts of the invariant.                                              *)

\* What is in the channel or about to be put there was received.
FramesSeen ==
  /\ reader \in Frames => reader \in got
  /\ \A i \in 1..Len(frames) : frames[i] \in got

\* Each kind of session has places of its own, and came there by the client's
\* acknowledgements.
PhaseInv ==
  /\ pc \in {"query", "probe", "common", "probeMore", "transfer", "drain", "show", "dialog"} =>
       kind = "lobby" /\ "ack" \in got
  /\ pc \in {"registry", "finish"} => kind = "limbo" /\ "ack" \in got
  /\ pc \in {"spawn", "menuText", "menu"} =>
       kind = "oldLimbo" \/ (kind = "limbo" /\ {"ack", "finish"} \subseteq got)
  /\ pc = "keepalive" =>
       \/ kind = "lobby" /\ "ack" \in got
       \/ kind = "limbo" /\ {"ack", "finish"} \subseteq got
       \/ kind = "oldLimbo"
  /\ pc = "ack" => kind # "oldLimbo"

SeqInv == TypeOK /\ FramesSeen

-----------------------------------------------------------------------------
(* The channel.                                                             *)

LEMMA ReceivedFrames ==
  ASSUME SeqInv, NEW f \in Frames, Received(f)
  PROVE  /\ f \in got
         /\ frames' \in Seq(Frames) /\ Len(frames') <= Cap
         /\ \A i \in 1..Len(frames') : frames'[i] \in got
<1>1. frames \in Seq(Frames) /\ frames # <<>> /\ Len(frames) \in Nat /\ Len(frames) # 0
  BY DEF SeqInv, TypeOK, Received
<1>2. f = frames[1] /\ frames' = Tail(frames)
  BY <1>1 DEF Received
<1>3. f \in got
  BY <1>1, <1>2 DEF SeqInv, FramesSeen
<1>4. frames' \in Seq(Frames) /\ Len(frames') = Len(frames) - 1
  BY <1>1, <1>2
<1>5. \A i \in 1..Len(frames') : frames'[i] = frames[i + 1]
  BY <1>1, <1>2
<1>6. Len(frames') <= Cap
  BY <1>1, <1>4, WaitsAssumption DEF SeqInv, TypeOK
<1>7. \A i \in 1..Len(frames') : frames'[i] \in got
  BY <1>1, <1>4, <1>5 DEF SeqInv, FramesSeen
<1> QED
  BY <1>3, <1>4, <1>6, <1>7

LEMMA PutFrames ==
  ASSUME SeqInv, Put
  PROVE  /\ frames' \in Seq(Frames) /\ Len(frames') <= Cap
         /\ \A i \in 1..Len(frames') : frames'[i] \in got
<1>1. frames \in Seq(Frames) /\ Len(frames) \in Nat /\ reader \in Frames /\ reader \in got
  BY DEF SeqInv, TypeOK, FramesSeen, Put
<1>2. frames' = Append(frames, reader) /\ Len(frames') = Len(frames) + 1
  BY <1>1 DEF Put
<1>3. frames' \in Seq(Frames)
  BY <1>1, <1>2
<1>4. Len(frames') <= Cap
  BY <1>1, <1>2, WaitsAssumption DEF SeqInv, TypeOK, Put, ChannelFull
<1>5. ASSUME NEW i \in 1..Len(frames') PROVE frames'[i] \in got
  BY <1>1, <1>2 DEF SeqInv, FramesSeen
<1> QED
  BY <1>3, <1>4, <1>5

-----------------------------------------------------------------------------
(* How the session moves: a step of the session leaves clock and kind alone *)
(* and either stays, or goes to a place that follows the one it is at.      *)

\* What may follow p.
Follows(p, q) ==
  \/ q = "ended"
  \/ p = "login" /\ q = "ack" /\ kind # "oldLimbo"
  \/ p = "login" /\ q = "spawn" /\ kind = "oldLimbo"
  \/ p = "ack" /\ q = "query" /\ kind = "lobby" /\ "ack" \in got
  \/ p = "ack" /\ q = "registry" /\ kind # "lobby" /\ "ack" \in got
  \/ p = "query" /\ q = "probe"
  \/ p = "probe" /\ q = "common"
  \/ p = "common" /\ q = "probeMore"
  \/ p \in {"probe", "probeMore"} /\ q \in {"transfer", "tell", "show"}
  \/ p = "show" /\ q = "dialog"
  \/ p = "dialog" /\ q \in {"transfer", "tell", "keepalive"}
  \/ p = "keepalive" /\ q = "dialog" /\ kind = "lobby"
  \/ p = "keepalive" /\ q = "menu" /\ kind # "lobby"
  \/ p = "transfer" /\ q = "drain"
  \/ p = "registry" /\ q = "finish"
  \/ p = "finish" /\ q = "spawn" /\ "finish" \in got
  \/ p = "spawn" /\ q = "menuText"
  \/ p = "menuText" /\ q = "menu"
  \/ p = "menu" /\ q \in {"tell", "menuText", "keepalive"}

Goes == \E q \in Places : GoTo(q) /\ Follows(pc, q)

LEMMA AfterSendFollows ==
  ASSUME pc \in SendPlaces, TypeOK
  PROVE  AfterSend \in Places /\ Follows(pc, AfterSend)
BY DEF SendPlaces, Waits, Places, AfterSend, Follows, TypeOK

\* Every step of the session.
LEMMA SessionMoves ==
  ASSUME SeqInv, Session \/ SendResumes, blocked => pc \in SendPlaces
  PROVE  /\ UNCHANGED <<kind, now, reader, client, got, read, slow>>
         /\ frames' \in Seq(Frames) /\ Len(frames') <= Cap
         /\ \A i \in 1..Len(frames') : frames'[i] \in got
         /\ beat' \in BOOLEAN /\ told' \in BOOLEAN
         /\ Goes \/ Stay
         /\ blocked' = FALSE \/ (blocked' = blocked /\ pc \in Waits)
<1> USE DEF SeqInv
<1>0. /\ frames \in Seq(Frames) /\ Len(frames) <= Cap
      /\ \A i \in 1..Len(frames) : frames[i] \in got
  BY DEF TypeOK, FramesSeen
<1>1. ASSUME pc \in SendPlaces, Sent PROVE Goes
  BY <1>1, AfterSendFollows DEF Sent, Goes
<1>2. CASE Send \/ SendResumes
  BY <1>0, <1>1, <1>2 DEF Send, SendResumes, Sent, TypeOK, pump
<1>3. CASE SendFails
  <2>1. Goes
    BY <1>3, AfterSendFollows DEF SendFails, Goes, Places, Follows
  <2> QED
    BY <1>0, <1>3, <2>1 DEF SendFails, TypeOK, pump
<1>4. CASE KeepAlive
  <2>1. Goes
    BY <1>4 DEF KeepAlive, Goes, Places, SendPlaces, Follows
  <2> QED
    BY <1>0, <1>4, <2>1 DEF KeepAlive, TypeOK, pump, Waits
<1>5. ASSUME pc \in {"probe", "probeMore"}, AfterProbe(pc) PROVE Goes
  BY <1>5 DEF AfterProbe, Goes, Places, SendPlaces, Follows
<1>6. CASE Timeout
  <2>1. Goes
    BY <1>5, <1>6 DEF Timeout, AfterTimeout, Goes, Places, SendPlaces, Follows
  <2> QED
    BY <1>0, <1>6, <2>1 DEF Timeout, Overdue, TypeOK, pump
<1>7. CASE ChannelClosed
  <2>1. Goes
    BY <1>5, <1>7 DEF ChannelClosed, Goes, Places, Follows
  <2> QED
    BY <1>0, <1>7, <2>1 DEF ChannelClosed, TypeOK, pump
<1>8. ASSUME NEW f \in Frames, Received(f), pc \in Waits, Goes \/ Stay
      PROVE  /\ UNCHANGED <<kind, now, reader, client, got, read, slow>>
             /\ frames' \in Seq(Frames) /\ Len(frames') <= Cap
             /\ \A i \in 1..Len(frames') : frames'[i] \in got
             /\ beat' \in BOOLEAN /\ told' \in BOOLEAN
             /\ Goes \/ Stay
             /\ blocked' = FALSE \/ (blocked' = blocked /\ pc \in Waits)
  BY <1>8, ReceivedFrames DEF Received, TypeOK
<1>9. CASE WaitLoginAck
  <2>1. PICK f \in Frames : pc = "ack" /\ Received(f) /\ IF f = "ack" THEN AfterLogin ELSE Stay
    BY <1>9 DEF WaitLoginAck
  <2>2. f \in got
    BY <2>1, ReceivedFrames
  <2>3. Goes \/ Stay
    BY <2>1, <2>2 DEF AfterLogin, Goes, Places, SendPlaces, Follows
  <2> QED
    BY <1>8, <2>1, <2>3 DEF Waits
<1>10. CASE WaitFinish
  <2>1. PICK f \in Frames : pc = "finish" /\ Received(f) /\ IF f = "finish" THEN GoTo("spawn") ELSE Stay
    BY <1>10 DEF WaitFinish
  <2>2. f \in got
    BY <2>1, ReceivedFrames
  <2>3. Goes \/ Stay
    BY <2>1, <2>2 DEF Goes, Places, SendPlaces, Follows
  <2> QED
    BY <1>8, <2>1, <2>3 DEF Waits
<1>11. CASE Collect
  BY <1>8, <1>11 DEF Collect, Waits
<1>12. CASE DialogLoop
  <2>1. PICK f \in Frames :
          /\ pc = "dialog" /\ Received(f)
          /\ Stay \/ GoTo("transfer") \/ GoTo("tell")
    BY <1>12 DEF DialogLoop
  <2>2. Goes \/ Stay
    BY <2>1 DEF Goes, Places, SendPlaces, Follows
  <2> QED
    BY <1>8, <2>1, <2>2 DEF Waits
<1>13. CASE LimboLoop
  <2>1. PICK f \in Frames :
          /\ pc = "menu" /\ Received(f)
          /\ Stay \/ GoTo("tell") \/ GoTo("menuText")
    BY <1>13 DEF LimboLoop
  <2>2. Goes \/ Stay
    BY <2>1 DEF Goes, Places, SendPlaces, Follows
  <2> QED
    BY <1>8, <2>1, <2>2 DEF Waits
<1> QED
  BY <1>2, <1>3, <1>4, <1>6, <1>7, <1>9, <1>10, <1>11, <1>12, <1>13 DEF Session

-----------------------------------------------------------------------------
(* The invariant: types, channel and phase.                                 *)

\* Only a send blocks, and the connection is open until the session ends.
SendInv ==
  /\ blocked => pc \in SendPlaces /\ slow
  /\ open <=> pc # "ended"

LobbyInv == TypeOK /\ FramesSeen /\ PhaseInv /\ SendInv

LEMMA GoToFields ==
  ASSUME TypeOK, NEW q \in Places, GoTo(q)
  PROVE  /\ pc' = q /\ open' = (open /\ q # "ended")
         /\ pc' \in Places /\ open' \in BOOLEAN /\ since' \in 0..now
BY WaitsAssumption DEF TypeOK, GoTo, Deadline

LEMMA SessionInv ==
  ASSUME LobbyInv, Session \/ SendResumes
  PROVE  LobbyInv'
<1> USE DEF LobbyInv
<1>0. blocked => pc \in SendPlaces
  BY DEF SendInv
<1>1. /\ UNCHANGED <<kind, now, reader, client, got, read, slow>>
      /\ frames' \in Seq(Frames) /\ Len(frames') <= Cap
      /\ \A i \in 1..Len(frames') : frames'[i] \in got
      /\ beat' \in BOOLEAN /\ told' \in BOOLEAN
      /\ Goes \/ Stay
      /\ blocked' = FALSE \/ (blocked' = blocked /\ pc \in Waits)
  BY <1>0, SessionMoves DEF SeqInv
<1>2. ~blocked'
  BY <1>0, <1>1 DEF SendPlaces, Waits
<1>3. FramesSeen'
  BY <1>1 DEF FramesSeen
<1>4. CASE Goes
  <2>1. PICK q \in Places : GoTo(q) /\ Follows(pc, q)
    BY <1>4 DEF Goes
  <2>2. /\ pc' = q /\ open' = (open /\ q # "ended")
        /\ pc' \in Places /\ open' \in BOOLEAN /\ since' \in 0..now
    BY <2>1, GoToFields
  <2>3. TypeOK'
    BY <1>1, <1>2, <2>2 DEF TypeOK, Places, Deadline
  <2>4. PhaseInv'
    BY <1>1, <2>1, <2>2 DEF PhaseInv, Follows, TypeOK
  <2>5. SendInv'
    <3>1. pc # "ended"
      BY <2>1, <1>0 DEF Session, Send, SendResumes, SendFails, WaitLoginAck, WaitFinish, Collect,
           DialogLoop, LimboLoop, KeepAlive, Timeout, Overdue, ChannelClosed, SendPlaces, Waits
    <3> QED
      BY <1>2, <2>2, <3>1 DEF SendInv
  <2> QED
    BY <1>3, <2>3, <2>4, <2>5
<1>5. CASE Stay
  <2>1. TypeOK'
    BY <1>1, <1>2, <1>5 DEF TypeOK, Stay, Deadline
  <2>2. PhaseInv' /\ SendInv'
    BY <1>1, <1>2, <1>5 DEF Stay, PhaseInv, SendInv
  <2> QED
    BY <1>3, <2>1, <2>2
<1> QED
  BY <1>1, <1>4, <1>5

LEMMA OtherInv ==
  ASSUME LobbyInv,
         SendBlocks \/ (\E f \in Frames : ReadFrame(f)) \/ Put \/ ReadFails \/ ClientGone \/ Tick
  PROVE  LobbyInv'
<1> USE DEF LobbyInv
<1>1. CASE SendBlocks
  <2>1. TypeOK'
    BY <1>1 DEF SendBlocks, TypeOK, Deadline, pump
  <2> QED
    BY <1>1, <2>1 DEF SendBlocks, FramesSeen, PhaseInv, SendInv, pump
<1>2. ASSUME NEW f \in Frames, ReadFrame(f) PROVE LobbyInv'
  <2>1. TypeOK'
    BY <1>2, WaitsAssumption DEF ReadFrame, TypeOK, Deadline, Frames
  <2>2. FramesSeen'
    BY <1>2 DEF ReadFrame, FramesSeen
  <2>3. PhaseInv' /\ SendInv'
    BY <1>2 DEF ReadFrame, PhaseInv, SendInv
  <2> QED
    BY <2>1, <2>2, <2>3
<1>3. CASE Put
  <2>1. /\ frames' \in Seq(Frames) /\ Len(frames') <= Cap
        /\ \A i \in 1..Len(frames') : frames'[i] \in got
    BY <1>3, PutFrames DEF SeqInv
  <2>2. TypeOK'
    BY <1>3, <2>1 DEF Put, TypeOK, Deadline
  <2>3. FramesSeen'
    BY <1>3, <2>1 DEF Put, FramesSeen, Frames
  <2>4. PhaseInv' /\ SendInv'
    BY <1>3 DEF Put, PhaseInv, SendInv
  <2> QED
    BY <2>2, <2>3, <2>4
<1>4. CASE ReadFails
  <2>1. TypeOK'
    BY <1>4 DEF ReadFails, TypeOK, Deadline
  <2>2. FramesSeen' /\ PhaseInv' /\ SendInv'
    BY <1>4 DEF ReadFails, FramesSeen, PhaseInv, SendInv, Frames
  <2> QED
    BY <2>1, <2>2
<1>5. CASE ClientGone
  <2>1. TypeOK'
    BY <1>5 DEF ClientGone, TypeOK, Deadline, pump
  <2>2. FramesSeen' /\ PhaseInv' /\ SendInv'
    BY <1>5 DEF ClientGone, FramesSeen, PhaseInv, SendInv, pump
  <2> QED
    BY <2>1, <2>2
<1>6. CASE Tick
  <2>1. Deadline' = Deadline /\ Deadline \in Nat
    BY <1>6, WaitsAssumption DEF Tick, Deadline
  <2>2. now' \in 0..Deadline' /\ since' \in 0..now' /\ beat' \in BOOLEAN
    BY <1>6, <2>1 DEF Tick, TypeOK
  <2>3. TypeOK'
    BY <1>6, <2>2 DEF Tick, TypeOK, pump
  <2>4. FramesSeen' /\ PhaseInv' /\ SendInv'
    BY <1>6 DEF Tick, FramesSeen, PhaseInv, SendInv, pump
  <2> QED
    BY <2>3, <2>4
<1> QED
  BY <1>1, <1>2, <1>3, <1>4, <1>5, <1>6

LEMMA LobbyInit == Init => LobbyInv
<1> SUFFICES ASSUME Init PROVE LobbyInv
  OBVIOUS
<1>1. frames \in Seq(Frames) /\ Len(frames) = 0
  BY DEF Init
<1>2. Deadline \in Nat /\ Cap \in Nat /\ MaxFrames \in Nat
  BY WaitsAssumption DEF Deadline
<1>3. now \in 0..Deadline /\ since \in 0..now /\ read \in 0..MaxFrames
  BY <1>2 DEF Init
<1>4. TypeOK
  <2>1. /\ kind \in {"lobby", "limbo", "oldLimbo"}
        /\ pc \in SendPlaces \cup Waits \cup {"ended"}
        /\ reader \in Frames \cup {"reading", "done"}
        /\ blocked \in BOOLEAN /\ beat \in BOOLEAN /\ open \in BOOLEAN
        /\ told \in BOOLEAN /\ slow \in BOOLEAN
        /\ client \in {"there", "gone"} /\ got \subseteq Frames
    BY DEF Init, SendPlaces
  <2>2. Len(frames) <= Cap
    BY <1>1, <1>2, WaitsAssumption
  <2> QED
    BY <1>1, <1>3, <2>1, <2>2 DEF TypeOK
<1> QED
  BY <1>1, <1>4 DEF Init, LobbyInv, FramesSeen, PhaseInv, SendInv, Frames

LEMMA LobbyStep == LobbyInv /\ [Next]_vars => LobbyInv'
<1> SUFFICES ASSUME LobbyInv, [Next]_vars PROVE LobbyInv'
  OBVIOUS
<1>1. CASE UNCHANGED vars
  BY <1>1 DEF vars, LobbyInv, TypeOK, FramesSeen, PhaseInv, SendInv, Deadline
<1>2. CASE Next
  BY <1>2, SessionInv, OtherInv DEF Next
<1> QED
  BY <1>1, <1>2

LEMMA LobbyInvAlways == Spec => []LobbyInv
BY LobbyInit, LobbyStep, PTL DEF Spec

\* Every variable of a session keeps its type: the channel never holds more
\* than its capacity, and the clock never passes the connection's deadline.
THEOREM LobbyTypes == Spec => []TypeOK
BY LobbyInvAlways, PTL DEF LobbyInv

\* Packets of the configuration phase are sent only to a client that
\* acknowledged the login (lobby.go:211-224, limbo.go:154-170), packets of the
\* play phase only to one that finished the configuration (limbo.go:174).
THEOREM PhaseAgreedAlways == Spec => []PhaseAgreed
<1>1. LobbyInv => PhaseAgreed
  BY DEF LobbyInv, PhaseInv, PhaseAgreed
<1> QED
  BY <1>1, LobbyInvAlways, PTL

-----------------------------------------------------------------------------
(* Time.                                                                    *)

\* When a lobby session without slow sends is at each place, at the latest.
Late(p) ==
  CASE p \in {"login", "ack"} -> 0
    [] p \in {"query", "probe"} -> AckWait
    [] p \in {"common", "probeMore"} -> AckWait + ProbeWindow
    [] p \in {"show", "dialog", "keepalive"} -> AckWait + 2 * ProbeWindow
    [] OTHER -> AckWait + 2 * ProbeWindow + DialogWait

\* A wait began by then and lasts for its limit at most; a send is over at once.
OnTime ==
  kind = "lobby" /\ ~slow /\ pc # "ended" =>
    IF pc \in Waits \cup {"keepalive"}
    THEN since <= Late(pc) /\ now - since <= (IF pc = "keepalive" THEN DialogWait ELSE Limit(pc))
    ELSE now <= Late(pc)

\* The pump ends only when the connection is of no use any more.
DoneInv == reader = "done" => Broken

\* A session that waits for the client to leave has sent the transfer.
ToldInv == pc = "drain" => told

TimeInv == LobbyInv /\ OnTime /\ DoneInv /\ ToldInv

LEMMA WaitTypes ==
  /\ AckWait \in Nat /\ ProbeWindow \in Nat /\ DialogWait \in Nat /\ TransferWait \in Nat
  /\ AckWait + 2 * ProbeWindow + DialogWait + TransferWait < LobbyDeadline
  /\ LobbyDeadline \in Nat
BY WaitsAssumption

\* Every place of a lobby session is left before the deadline.
LEMMA BeforeDeadline ==
  ASSUME LobbyInv, OnTime, kind = "lobby", ~slow, pc # "ended"
  PROVE  now < Deadline
<1>1. now \in Nat /\ since \in Nat /\ since <= now /\ Deadline = LobbyDeadline
  BY WaitTypes DEF LobbyInv, TypeOK, Deadline
<1>2. pc \notin {"registry", "finish", "spawn", "menuText", "menu"}
  BY DEF LobbyInv, PhaseInv
<1>3. CASE pc \in {"ack", "probe", "probeMore", "dialog", "drain", "keepalive"}
  <2>1. since <= Late(pc) /\ now - since <= (IF pc = "keepalive" THEN DialogWait ELSE Limit(pc))
    BY <1>3 DEF OnTime, Waits
  <2> QED
    BY <1>1, <1>3, <2>1, WaitTypes DEF Late, Limit
<1>4. CASE pc \in {"login", "query", "common", "transfer", "tell", "show"}
  <2>1. now <= Late(pc)
    BY <1>4 DEF OnTime, Waits
  <2> QED
    BY <1>1, <1>4, <2>1, WaitTypes DEF Late
<1> QED
  BY <1>2, <1>3, <1>4 DEF LobbyInv, TypeOK, SendPlaces, Waits

\* A move of the session keeps it on time.
LEMMA GoesOnTime ==
  ASSUME LobbyInv, OnTime, NEW q \in Places, GoTo(q), Follows(pc, q),
         UNCHANGED <<kind, now, slow>>
  PROVE  OnTime'
<1> SUFFICES ASSUME kind = "lobby", ~slow, q # "ended"
             PROVE  IF q \in Waits \cup {"keepalive"}
                    THEN /\ since' <= Late(q)
                         /\ now - since' <= (IF q = "keepalive" THEN DialogWait ELSE Limit(q)')
                    ELSE now <= Late(q)
  BY DEF OnTime, GoTo
<1>1. now \in Nat /\ since \in Nat /\ since <= now
  BY WaitTypes DEF LobbyInv, TypeOK, Deadline
<1>2. since' = IF q \in Waits /\ pc # "keepalive" THEN now ELSE since
  BY DEF GoTo
<1>3. Limit(q)' = Limit(q)
  BY DEF Limit
<1>4. pc \notin {"registry", "finish", "spawn", "menuText", "menu", "ended"}
  BY DEF LobbyInv, PhaseInv, Follows
<1>5. IF pc \in Waits \cup {"keepalive"}
      THEN since <= Late(pc) /\ now - since <= (IF pc = "keepalive" THEN DialogWait ELSE Limit(pc))
      ELSE now <= Late(pc)
  BY <1>4 DEF OnTime
<1>6. CASE pc \in {"login", "query", "common", "show", "transfer", "tell"}
  BY <1>1, <1>2, <1>3, <1>5, <1>6, WaitTypes DEF Follows, Late, Limit, Waits
<1>7. CASE pc \in {"ack", "probe", "probeMore"}
  BY <1>1, <1>2, <1>3, <1>5, <1>7, WaitTypes DEF Follows, Late, Limit, Waits
<1>8. CASE pc \in {"dialog", "keepalive", "drain"}
  BY <1>1, <1>2, <1>3, <1>5, <1>8, WaitTypes DEF Follows, Late, Limit, Waits
<1> QED
  BY <1>4, <1>6, <1>7, <1>8 DEF LobbyInv, TypeOK, SendPlaces, Waits

\* The session tells before it waits for the client to leave.
LEMMA SessionTold ==
  ASSUME LobbyInv, ToldInv, Session \/ SendResumes
  PROVE  ToldInv'
<1> SUFFICES ASSUME pc' = "drain" PROVE told'
  BY DEF ToldInv
<1>1. told => told'
  BY DEF Session, SendResumes, Send, Sent, SendFails, WaitLoginAck, WaitFinish, Collect, DialogLoop,
         LimboLoop, Received, KeepAlive, Timeout, ChannelClosed
<1>2. CASE pc = "drain"
  BY <1>1, <1>2 DEF ToldInv
<1>3. CASE pc # "drain"
  <2>1. Goes
    BY <1>3, SessionMoves DEF LobbyInv, SeqInv, SendInv, Stay
  <2>2. pc = "transfer"
    BY <2>1 DEF Goes, GoTo, Follows
  <2>3. Sent \/ SendFails
    BY <2>2 DEF Session, SendResumes, Send, WaitLoginAck, WaitFinish, Collect, DialogLoop,
           LimboLoop, KeepAlive, Timeout, Overdue, ChannelClosed, Waits
  <2>4. ~SendFails
    BY <2>2 DEF SendFails, GoTo, Checked
  <2> QED
    BY <2>2, <2>3, <2>4 DEF Sent
<1> QED
  BY <1>2, <1>3

LEMMA TimeSession ==
  ASSUME TimeInv, Session \/ SendResumes
  PROVE  TimeInv'
<1> USE DEF TimeInv
<1>1. /\ UNCHANGED <<kind, now, reader, client, got, read, slow>>
      /\ Goes \/ Stay
  BY SessionMoves DEF LobbyInv, SeqInv, SendInv
<1>2. OnTime'
  <2>1. CASE Goes
    BY <1>1, <2>1, GoesOnTime DEF Goes
  <2>2. CASE Stay
    BY <1>1, <2>2 DEF Stay, OnTime, Limit
  <2> QED
    BY <1>1, <2>1, <2>2
<1>3. ~open => ~open'
  BY <1>1 DEF Goes, GoTo, Stay
<1>4. DoneInv'
  BY <1>1, <1>3 DEF DoneInv, Broken, Deadline
<1> QED
  BY <1>2, <1>4, SessionInv, SessionTold

LEMMA TimeOther ==
  ASSUME TimeInv,
         SendBlocks \/ (\E f \in Frames : ReadFrame(f)) \/ Put \/ ReadFails \/ ClientGone \/ Tick
  PROVE  TimeInv'
<1> USE DEF TimeInv
<1>0. LobbyInv'
  BY OtherInv
<1>1. CASE SendBlocks
  BY <1>0, <1>1 DEF SendBlocks, OnTime, DoneInv, ToldInv, Broken, Deadline, pump
<1>2. ASSUME NEW f \in Frames, ReadFrame(f) PROVE TimeInv'
  BY <1>0, <1>2 DEF ReadFrame, OnTime, Limit, DoneInv, ToldInv, Frames
<1>3. CASE Put
  BY <1>0, <1>3 DEF Put, OnTime, Limit, DoneInv, ToldInv
<1>4. CASE ReadFails
  BY <1>0, <1>4 DEF ReadFails, OnTime, Limit, DoneInv, ToldInv, Broken, Deadline
<1>5. CASE ClientGone
  BY <1>0, <1>5 DEF ClientGone, OnTime, Limit, DoneInv, ToldInv, Broken, pump
<1>6. CASE Tick
  <2>1. DoneInv' /\ ToldInv'
    <3>1. now # Deadline /\ reader' = reader /\ client' = client /\ open' = open
      BY <1>6 DEF Tick, LobbyInv, TypeOK, pump
    <3> QED
      BY <1>6, <3>1 DEF Tick, DoneInv, ToldInv, Broken
  <2>2. OnTime'
    <3> SUFFICES ASSUME kind = "lobby", ~slow, pc # "ended" PROVE OnTime'
      BY <1>6 DEF Tick, OnTime
    <3>1. pc \in Waits /\ ~Overdue
      BY <1>6 DEF Tick, LobbyInv, SendInv
    <3>2. now \in Nat /\ since \in Nat
      BY WaitTypes DEF LobbyInv, TypeOK, Deadline
    <3>3. pc \in {"ack", "probe", "probeMore", "dialog", "drain"}
      BY <3>1 DEF LobbyInv, PhaseInv, Waits
    <3>4. Limit(pc) \in Nat /\ Limit(pc)' = Limit(pc)
      BY <1>6, <3>3, WaitTypes DEF Tick, Limit
    <3>5. since <= Late(pc) /\ now + 1 - since <= Limit(pc)
      BY <3>1, <3>2, <3>3, <3>4 DEF OnTime, Overdue
    <3>6. pc' = pc /\ kind' = kind /\ since' = since /\ now' = now + 1 /\ pc # "keepalive"
      BY <1>6, <3>3 DEF Tick
    <3> QED
      BY <3>1, <3>2, <3>3, <3>5, <3>6, WaitTypes DEF OnTime, Limit, Late
  <2> QED
    BY <1>0, <2>1, <2>2
<1> QED
  BY <1>1, <1>2, <1>3, <1>4, <1>5, <1>6

LEMMA TimeStep == TimeInv /\ [Next]_vars => TimeInv'
<1> SUFFICES ASSUME TimeInv, [Next]_vars PROVE TimeInv'
  OBVIOUS
<1>1. CASE UNCHANGED vars
  <2>1. LobbyInv'
    BY <1>1, LobbyStep DEF TimeInv
  <2> QED
    BY <1>1, <2>1 DEF vars, TimeInv, OnTime, Limit, DoneInv, ToldInv, Broken, Deadline
<1>2. CASE Next
  BY <1>2, TimeSession, TimeOther DEF Next
<1> QED
  BY <1>1, <1>2

LEMMA EndStep ==
  ASSUME TimeInv, Next, kind = "lobby", pc \notin {"ack", "ended"}, pc' = "ended",
         client = "there", ~slow
  PROVE  told'
<1> USE DEF TimeInv
<1>1. ~Broken
  BY BeforeDeadline DEF Broken, LobbyInv, SendInv, TypeOK
<1>2. CASE Send \/ SendResumes
  <2>1. pc \in SendPlaces /\ Sent
    BY <1>2 DEF Send, SendResumes, LobbyInv, SendInv
  <2>2. AfterSend = "ended"
    BY <2>1 DEF Sent, GoTo
  <2>3. pc = "tell"
    BY <2>1, <2>2 DEF AfterSend, SendPlaces
  <2> QED
    BY <2>1, <2>3 DEF Sent
<1>3. ~SendFails /\ ~ChannelClosed
  BY <1>1 DEF SendFails, ChannelClosed, DoneInv
<1>4. CASE Timeout
  <2>1. pc # "finish"
    BY DEF LobbyInv, PhaseInv
  <2>2. pc = "drain"
    BY <1>4, <2>1 DEF Timeout, AfterTimeout, AfterProbe, GoTo
  <2> QED
    BY <1>4, <2>2 DEF Timeout, ToldInv
<1>5. ~(WaitLoginAck \/ WaitFinish \/ Collect \/ DialogLoop \/ LimboLoop \/ KeepAlive)
  BY DEF WaitLoginAck, WaitFinish, Collect, DialogLoop, LimboLoop, KeepAlive, GoTo, Stay
<1>6. ~(SendBlocks \/ (\E f \in Frames : ReadFrame(f)) \/ Put \/ ReadFails \/ ClientGone \/ Tick)
  BY DEF SendBlocks, ReadFrame, Put, ReadFails, ClientGone, Tick
<1> QED
  BY <1>2, <1>3, <1>4, <1>5, <1>6 DEF Next, Session

\* A lobby client that is there and reads what it is sent is told goodbye or
\* transferred before its connection is closed (lobby.go:205), for all waits
\* that fit into the deadline: no sequence of probes, dialogs, keep-alives
\* and frames lets the deadline cut it off.
THEOREM NeverCutOffAlways == Spec => NeverCutOff
<1>1. Init => TimeInv
  <2>1. Init => LobbyInv
    BY LobbyInit
  <2>2. Init => OnTime /\ DoneInv /\ ToldInv
    BY WaitTypes DEF Init, OnTime, DoneInv, ToldInv, Late, Waits
  <2> QED
    BY <2>1, <2>2 DEF TimeInv
<1>2. TimeInv /\ [Next]_vars =>
        [kind = "lobby" /\ pc \notin {"ack", "ended"} /\ pc' = "ended" /\ client = "there" /\ ~slow
           => told']_vars
  BY EndStep
<1> QED
  BY <1>1, <1>2, TimeStep, PTL DEF Spec, NeverCutOff
=============================================================================
