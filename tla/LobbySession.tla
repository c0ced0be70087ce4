---------------------------- MODULE LobbySession ----------------------------
(***************************************************************************)
(* One session of the lobby (internal/router/lobby.go) or of the limbo     *)
(* (internal/limbo): the session goroutine, the goroutine that pumps the   *)
(* client's frames into a bounded channel, the client, the timers and the  *)
(* deadline of the connection.  Module Router says where the player is     *)
(* sent; this module says when the session waits, for what, and that it    *)
(* ends, which is when Router's lobby slot comes back.                     *)
(***************************************************************************)
EXTENDS Integers, Sequences

CONSTANTS
  Cap,             \* capacity of the channel of frames
  AckWait,         \* waitLoginAck
  ProbeWindow,     \* cfg.ProbeWindow
  DialogWait,      \* dialogLoop
  TransferWait,    \* transfer
  LimboWait,       \* limbo's waitFor
  LobbyDeadline, LimboDeadline,
  MaxFrames        \* bound on the frames a client sends

\* The waits of a lobby fit into the deadline (10 s, twice the probe window,
\* 5 min and 5 s against 6 min: the code's constants do for windows below 22 s).
ASSUME WaitsAssumption ==
  /\ {Cap, AckWait, ProbeWindow, DialogWait, TransferWait, LimboWait} \subseteq Nat \ {0}
  /\ MaxFrames \in Nat
  /\ AckWait + 2 * ProbeWindow + DialogWait + TransferWait < LobbyDeadline
  /\ LobbyDeadline \in Nat /\ LimboDeadline \in Nat

VARIABLES
  kind,     \* "lobby", "limbo", or "oldLimbo" for clients before 1.20.2
  pc,       \* where the session is
  blocked,  \* its send waits for a client that does not read
  since,    \* when its timer was armed
  beat,     \* the keep-alive ticker has fired
  now,
  frames,   \* the channel
  reader,   \* the pump: "reading", "done", or the frame it is putting
  open,     \* the gateway has not closed the connection
  client,   \* "there", or "gone": it closed, or sent what is no frame
  got,      \* history: the kinds of frames received
  read,     \* history: their number
  told,     \* history: the client was sent a farewell or a transfer
  slow      \* history: a send had to wait

vars == <<kind, pc, blocked, since, beat, now, frames, reader, open, client, got, read, told, slow>>
pump == <<frames, reader, got, read>>

Frames == {"ack", "finish", "click", "leave", "other"}
SendPlaces == {"login", "query", "common", "transfer", "tell", "show", "keepalive",
               "registry", "spawn", "menuText"}
\* Where an error of the send ends the session; elsewhere it is ignored.
Checked == {"login", "transfer", "show", "keepalive", "registry", "spawn"}
Waits == {"ack", "probe", "probeMore", "dialog", "drain", "finish", "menu"}
Deadline == IF kind = "lobby" THEN LobbyDeadline ELSE LimboDeadline

Init ==
  /\ kind \in {"lobby", "limbo", "oldLimbo"}
  /\ pc = "login" /\ blocked = FALSE /\ since = 0 /\ beat = FALSE /\ now = 0
  /\ frames = <<>> /\ reader = "reading"
  /\ open = TRUE /\ client = "there"
  /\ got = {} /\ read = 0 /\ told = FALSE /\ slow = FALSE

-----------------------------------------------------------------------------
(* readFrames, and the same goroutine in limbo.Serve.  Frames are buffered  *)
(* below it, so some still come after the connection has failed.            *)

ReadFrame(f) ==
  /\ reader = "reading" /\ read < MaxFrames
  /\ reader' = f /\ got' = got \cup {f} /\ read' = read + 1
  /\ UNCHANGED <<kind, pc, blocked, since, beat, now, frames, open, client, told, slow>>

ChannelFull == Len(frames) = Cap

Put ==
  /\ reader \in Frames /\ ~ChannelFull
  /\ frames' = Append(frames, reader) /\ reader' = "reading"
  /\ UNCHANGED <<kind, pc, blocked, since, beat, now, open, client, got, read, told, slow>>

Broken == client = "gone" \/ now = Deadline \/ ~open

ReadFailsRetried ==
  /\ reader = "reading" /\ Broken
  /\ UNCHANGED vars

ReadFailsNoDeadline ==
  /\ reader = "reading" /\ (client = "gone" \/ ~open)
  /\ reader' = "done"
  /\ UNCHANGED <<kind, pc, blocked, since, beat, now, frames, open, client, got, read, told, slow>>

ReadFails ==
  /\ reader = "reading" /\ Broken
  /\ reader' = "done"
  /\ UNCHANGED <<kind, pc, blocked, since, beat, now, frames, open, client, got, read, told, slow>>

-----------------------------------------------------------------------------
(* Sends.                                                                   *)

\* The deferred functions of handle close the connection.
GoTo(place) ==
  /\ pc' = place
  /\ open' = (open /\ place # "ended")
  /\ since' = IF place \in Waits /\ pc # "keepalive" THEN now ELSE since

AfterSend ==
  CASE pc = "login" -> IF kind = "oldLimbo" THEN "spawn" ELSE "ack"
    [] pc = "query" -> "probe"
    [] pc = "common" -> "probeMore"
    [] pc = "transfer" -> "drain"
    [] pc = "tell" -> "ended"
    [] pc = "show" -> "dialog"
    [] pc = "registry" -> "finish"
    [] pc = "spawn" -> "menuText"
    [] pc = "menuText" -> "menu"
    [] OTHER -> IF kind = "lobby" THEN "dialog" ELSE "menu"

Sent ==
  /\ now < Deadline
  /\ GoTo(AfterSend)
  /\ blocked' = FALSE
  /\ told' = (told \/ pc \in {"transfer", "tell"})
  /\ UNCHANGED <<kind, beat, now, pump, client, slow>>

Send == pc \in SendPlaces /\ ~blocked /\ Sent

SendBlocks ==
  /\ pc \in SendPlaces /\ ~blocked /\ now < Deadline
  /\ blocked' = TRUE /\ slow' = TRUE
  /\ UNCHANGED <<kind, pc, since, beat, now, pump, open, client, told>>

SendResumes == blocked /\ Sent

SendFails ==
  /\ pc \in SendPlaces /\ Broken
  /\ GoTo(IF pc \in Checked THEN "ended" ELSE AfterSend)
  /\ blocked' = FALSE
  /\ UNCHANGED <<kind, beat, now, pump, client, told, slow>>

-----------------------------------------------------------------------------
(* Waits for a frame or a timer.                                            *)

Received(f) ==
  /\ frames # <<>> /\ Head(frames) = f /\ frames' = Tail(frames)
  /\ UNCHANGED <<kind, blocked, beat, now, reader, client, got, read, told, slow>>

Stay == UNCHANGED <<pc, open, since>>

AfterLogin == GoTo(IF kind = "lobby" THEN "query" ELSE "registry")

WaitLoginAckAny ==
  \E f \in Frames : pc = "ack" /\ Received(f) /\ AfterLogin

\* waitLoginAck and the first waitFor skip every other frame.
WaitLoginAck ==
  \E f \in Frames : pc = "ack" /\ Received(f) /\ IF f = "ack" THEN AfterLogin ELSE Stay

WaitFinish ==
  \E f \in Frames : pc = "finish" /\ Received(f) /\ IF f = "finish" THEN GoTo("spawn") ELSE Stay

\* probeClient collects, transfer waits for the client to close.
Collect ==
  \E f \in Frames : pc \in {"probe", "probeMore", "drain"} /\ Received(f) /\ Stay

DialogLoopRearmed ==
  \E f \in Frames :
    /\ pc = "dialog" /\ Received(f)
    /\ \/ f \notin {"click", "leave"} /\ GoTo("dialog")
       \/ f = "click" /\ (GoTo("transfer") \/ GoTo("tell"))
       \/ f = "leave" /\ GoTo("tell")

\* A click transfers, or tells that the server is not available any more.
DialogLoop ==
  \E f \in Frames :
    /\ pc = "dialog" /\ Received(f)
    /\ \/ f \notin {"click", "leave"} /\ Stay
       \/ f = "click" /\ (GoTo("transfer") \/ GoTo("tell"))
       \/ f = "leave" /\ GoTo("tell")

\* The limbo's loop: a command chooses, or is answered in the chat.
LimboLoop ==
  \E f \in Frames :
    /\ pc = "menu" /\ Received(f)
    /\ \/ f # "click" /\ Stay
       \/ f = "click" /\ (GoTo("tell") \/ GoTo("menuText"))

KeepAlive ==
  /\ pc \in {"dialog", "menu"} /\ beat
  /\ beat' = FALSE /\ GoTo("keepalive")
  /\ UNCHANGED <<kind, blocked, now, pump, client, told, slow>>

\* After the first probe a Fabric client that named no channel is asked for them.
AfterProbe(place) ==
  \/ place = "probe" /\ GoTo("common")
  \/ GoTo("transfer") \/ GoTo("tell") \/ GoTo("show")

Limit(place) ==
  CASE place = "ack" -> IF kind = "lobby" THEN AckWait ELSE LimboWait
    [] place = "finish" -> LimboWait
    [] place \in {"probe", "probeMore"} -> ProbeWindow
    [] place = "dialog" -> DialogWait
    [] place = "drain" -> TransferWait
    [] OTHER -> LimboDeadline + 1     \* the limbo's loop has no timer

Overdue == pc \in Waits /\ now - since >= Limit(pc)

AfterTimeout ==
  \/ pc \in {"ack", "finish", "drain"} /\ GoTo("ended")
  \/ pc \in {"probe", "probeMore"} /\ AfterProbe(pc)
  \/ pc = "dialog" /\ GoTo("tell")

Timeout ==
  /\ Overdue /\ AfterTimeout
  /\ UNCHANGED <<kind, blocked, beat, now, pump, client, told, slow>>

\* The channel is closed and empty.
ChannelClosed ==
  /\ pc \in Waits /\ frames = <<>> /\ reader = "done"
  /\ IF pc \in {"probe", "probeMore"} THEN AfterProbe(pc) ELSE GoTo("ended")
  /\ UNCHANGED <<kind, blocked, beat, now, pump, client, told, slow>>

-----------------------------------------------------------------------------
ClientGone ==
  /\ client = "there" /\ client' = "gone"
  /\ UNCHANGED <<kind, pc, blocked, since, beat, now, pump, open, told, slow>>

\* Only waiting takes time, and a timer that is due goes off.
Tick ==
  /\ now < Deadline
  /\ pc \in Waits \cup {"ended"} \/ blocked
  /\ ~Overdue
  /\ now' = now + 1 /\ beat' = (pc \in {"dialog", "menu"})
  /\ UNCHANGED <<kind, pc, blocked, since, pump, open, client, told, slow>>

Session ==
  \/ Send \/ SendFails \/ WaitLoginAck \/ WaitFinish \/ Collect \/ DialogLoop \/ LimboLoop
  \/ KeepAlive \/ Timeout \/ ChannelClosed

Next ==
  \/ Session \/ SendBlocks \/ SendResumes
  \/ (\E f \in Frames : ReadFrame(f)) \/ Put \/ ReadFails
  \/ ClientGone \/ Tick

\* Goroutines run and time passes; the client owes nothing.
Fairness == WF_vars(Session) /\ WF_vars(Put) /\ WF_vars(ReadFails) /\ WF_vars(Tick)

Spec == Init /\ [][Next]_vars /\ Fairness

-----------------------------------------------------------------------------
\* Every variable has its type.
TypeOK ==
  /\ kind \in {"lobby", "limbo", "oldLimbo"}
  /\ pc \in SendPlaces \cup Waits \cup {"ended"}
  /\ frames \in Seq(Frames) /\ Len(frames) <= Cap
  /\ reader \in Frames \cup {"reading", "done"}
  /\ now \in 0..Deadline /\ since \in 0..now /\ read \in 0..MaxFrames
  /\ blocked \in BOOLEAN /\ beat \in BOOLEAN /\ open \in BOOLEAN
  /\ told \in BOOLEAN /\ slow \in BOOLEAN
  /\ client \in {"there", "gone"} /\ got \subseteq Frames

\* Gateway and client agree on the phase of the protocol: packets of the
\* configuration phase go out only after the client acknowledged the login
\* (lobby.go:211-224, limbo.go:154-170), packets of the play phase only after
\* it finished the configuration (limbo.go:174), whatever else it sent before.
PhaseAgreed ==
  /\ pc \in {"query", "probe", "common", "probeMore", "transfer", "drain", "show", "dialog",
             "registry", "finish"} => "ack" \in got
  /\ kind = "limbo" /\ pc \in {"spawn", "menuText", "menu"} => {"ack", "finish"} \subseteq got

\* A lobby client that is still there and reads what it is sent is never cut
\* off: its session says goodbye or transfers it before the deadline of the
\* connection set in lobby.go:205; only a login it never acknowledged ends
\* without a word.
NeverCutOff ==
  [][kind = "lobby" /\ pc \notin {"ack", "ended"} /\ pc' = "ended" /\ client = "there" /\ ~slow
       => told']_vars

\* Every session ends, so its slot is released (lobby.go:23): also when the
\* client reads nothing while the pump is stuck on a full channel.
SessionEnds == <>(pc = "ended")

\* After the session the pump ends as well, unless frames it had already
\* read fill the channel nobody drains any more (lobby.go:197, limbo.go:111).
ReaderEnds == (pc = "ended") ~> (reader = "done" \/ ChannelFull)
=============================================================================
