------------------------------- MODULE Broker -------------------------------
(***************************************************************************)
(* internal/api/global.go with the server jars that long-poll it           *)
(* (Commands.java pollLoop): cross-server chat messages, numbered by the   *)
(* gateway, kept in a ring, fetched by each jar from the position it last  *)
(* saw.                                                                    *)
(*                                                                         *)
(* A message is its number.  The ring's numbers are consecutive, so it is  *)
(* kept as a set.  b.notify is replaced by every publish and by nothing    *)
(* else, so a channel is named by the value of seq while it was current;   *)
(* publish closes it after it released mu.  Memory of the gateway is lost  *)
(* when it restarts: epoch numbers its runs.                               *)
(***************************************************************************)
EXTENDS Integers

CONSTANTS
  Jars,
  RingMax,       \* broker.max
  MaxSeq,        \* bound on the messages of one run of the gateway
  MaxRestarts,   \* bound on gateway restarts
  MaxFails,      \* bound on failing polls
  NoReply, NotJoined

ASSUME BrokerAssumption ==
  /\ RingMax \in Nat \ {0}
  /\ MaxSeq \in Nat /\ MaxRestarts \in Nat /\ MaxFails \in Nat

Message == Nat \X Nat                  \* epoch and seq
Reply == [epoch : Nat, msgs : SUBSET Nat, seq : Nat]

ASSUME NoneAssumption == NoReply \notin Reply /\ NotJoined \notin Message

VARIABLES
  epoch,
  seq,        \* broker.seq, and the name of broker.notify
  ring,       \* broker.ring
  unclosed,   \* replaced channels that publish has yet to close
  at,         \* where each jar's poll is
  ch,         \* the channel a waiting poll selects on
  reply,      \* the answer on its way to the jar
  globalSeq,  \* the jar's position
  joined,     \* history: the position the jar learnt when it started
  shown,      \* history: what the jar showed its players
  fails

vars == <<epoch, seq, ring, unclosed, at, ch, reply, globalSeq, joined, shown, fails>>
broker == <<epoch, seq, ring, unclosed>>
jar == <<globalSeq, joined, shown>>

Init ==
  /\ epoch = 0 /\ seq = 0 /\ ring = {} /\ unclosed = {}
  /\ at = [j \in Jars |-> "init"]
  /\ ch = [j \in Jars |-> 0]
  /\ reply = [j \in Jars |-> NoReply]
  /\ globalSeq = [j \in Jars |-> 0]
  /\ joined = [j \in Jars |-> NotJoined]
  /\ shown = [j \in Jars |-> {}]
  /\ fails = 0

-----------------------------------------------------------------------------
(* The gateway.                                                             *)

KeptOneLess(r, n) == {s \in r : s > n - RingMax + 1}

\* The newest RingMax messages.
Kept(r, n) == {s \in r : s > n - RingMax}

Published(n) == seq' = n /\ ring' = Kept(ring \cup {n}, n)

\* postGlobal, accepted: publish up to Unlock ...
Publish ==
  /\ seq < MaxSeq
  /\ Published(seq + 1)
  /\ unclosed' = unclosed \cup {seq}
  /\ UNCHANGED <<epoch, at, ch, reply, jar, fails>>

\* ... and close(old).
CloseOld(c) ==
  /\ c \in unclosed
  /\ unclosed' = unclosed \ {c}
  /\ UNCHANGED <<epoch, seq, ring, at, ch, reply, jar, fails>>

NewerOrEqual(j) == {s \in ring : s >= globalSeq[j]}

NewerButOne(j) == {s \in ring : s > globalSeq[j] + 1}

\* since(after), under mu; a jar always asks for what follows its position.
Newer(j) == {s \in ring : s > globalSeq[j]}

Answer(j) ==
  /\ reply' = [reply EXCEPT ![j] = [epoch |-> epoch, msgs |-> Newer(j), seq |-> seq]]
  /\ at' = [at EXCEPT ![j] = "reply"]

\* A poll without "after": current.
Current(j) ==
  /\ at[j] = "init"
  /\ reply' = [reply EXCEPT ![j] = [epoch |-> epoch, msgs |-> {}, seq |-> seq]]
  /\ at' = [at EXCEPT ![j] = "position"]
  /\ UNCHANGED <<broker, ch, jar, fails>>

\* The head of wait's loop.
Since(j) ==
  /\ at[j] = "since"
  /\ IF Newer(j) # {} THEN Answer(j)
     ELSE at' = [at EXCEPT ![j] = "notify"] /\ UNCHANGED reply
  /\ UNCHANGED <<broker, ch, jar, fails>>

\* mu again, to read b.notify.
ReadNotify(j) ==
  /\ at[j] = "notify"
  /\ ch' = [ch EXCEPT ![j] = seq]
  /\ at' = [at EXCEPT ![j] = "select"]
  /\ UNCHANGED <<broker, reply, jar, fails>>

Closed(c) == c # seq /\ c \notin unclosed

Wake(j) ==
  /\ at[j] = "select" /\ Closed(ch[j])
  /\ at' = [at EXCEPT ![j] = "since"]
  /\ UNCHANGED <<broker, ch, reply, jar, fails>>

\* The 25 s deadline.
TimeOut(j) ==
  /\ at[j] = "select"
  /\ Answer(j)
  /\ UNCHANGED <<broker, ch, jar, fails>>

Again(j) == IF joined[j] = NotJoined THEN "init" ELSE "since"

\* The gateway restarts: open polls fail, answers already sent may arrive.
Restart ==
  /\ epoch < MaxRestarts
  /\ epoch' = epoch + 1
  /\ seq' = 0 /\ ring' = {} /\ unclosed' = {}
  /\ at' = [j \in Jars |-> IF at[j] \in {"reply", "position"} THEN at[j] ELSE Again(j)]
  /\ UNCHANGED <<ch, reply, jar, fails>>

-----------------------------------------------------------------------------
(* The jars: pollLoop.                                                      *)

\* The first answer is the position to start from.
Join(j) ==
  /\ at[j] = "position"
  /\ globalSeq' = [globalSeq EXCEPT ![j] = reply[j].seq]
  /\ joined' = [joined EXCEPT ![j] = <<reply[j].epoch, reply[j].seq>>]
  /\ at' = [at EXCEPT ![j] = "since"]
  /\ reply' = [reply EXCEPT ![j] = NoReply]
  /\ UNCHANGED <<broker, ch, shown, fails>>

\* Later ones are broadcast, and the position moves on.
Show(j) ==
  /\ at[j] = "reply"
  /\ shown' = [shown EXCEPT ![j] = @ \cup ({reply[j].epoch} \X reply[j].msgs)]
  /\ globalSeq' = [globalSeq EXCEPT ![j] = IF reply[j].seq > @ THEN reply[j].seq ELSE @]
  /\ at' = [at EXCEPT ![j] = "since"]
  /\ reply' = [reply EXCEPT ![j] = NoReply]
  /\ UNCHANGED <<broker, ch, joined, fails>>

\* The poll fails on its way out, in the gateway or on its way back; the jar
\* sleeps and asks again.
Lose(j) ==
  /\ at[j] \in {"notify", "select", "reply", "position"}
  /\ fails < MaxFails /\ fails' = fails + 1
  /\ at' = [at EXCEPT ![j] = Again(j)]
  /\ reply' = [reply EXCEPT ![j] = NoReply]
  /\ UNCHANGED <<broker, ch, jar>>

Poll(j) ==
  \/ Current(j) \/ Since(j) \/ ReadNotify(j) \/ Wake(j) \/ TimeOut(j)
  \/ Join(j) \/ Show(j)

Next ==
  \/ Publish \/ Restart
  \/ \E c \in unclosed : CloseOld(c)
  \/ \E j \in Jars : Poll(j) \/ Lose(j)

Spec == Init /\ [][Next]_vars

\* Handlers and pollLoop keep running, and the deadline comes.
Fairness ==
  /\ \A j \in Jars : WF_vars(Poll(j))
  /\ WF_vars(\E c \in unclosed : CloseOld(c))

FairSpec == Spec /\ Fairness

-----------------------------------------------------------------------------
Places == {"init", "position", "since", "notify", "select", "reply"}

\* Every variable has its type; the ring holds messages that were numbered.
TypeOK ==
  /\ epoch \in Nat /\ seq \in Nat /\ fails \in Nat
  /\ ring \in SUBSET (1..seq)
  /\ unclosed \in SUBSET Nat
  /\ at \in [Jars -> Places]
  /\ ch \in [Jars -> Nat]
  /\ reply \in [Jars -> Reply \cup {NoReply}]
  /\ globalSeq \in [Jars -> Nat]
  /\ joined \in [Jars -> Message \cup {NotJoined}]
  /\ shown \in [Jars -> SUBSET Message]

Before(m, n) == m[1] < n[1] \/ (m[1] = n[1] /\ m[2] < n[2])

\* No player reads a message twice or after a later one (global.go:57-67,
\* Commands.java:418-423): everything a jar shows is newer than all it has
\* shown, although polls fail, are repeated and outlive the gateway.
ShownInOrder ==
  [][\A j \in Jars : Show(j) =>
       \A n \in reply[j].msgs, m \in shown[j] : Before(m, <<reply[j].epoch, n>>)]_vars

\* A jar's position passes over a message it did not show only when the ring
\* had dropped it (global.go:38-40): since returns the messages and the seq
\* of one moment.
SkippedOnlyDropped ==
  [][\A j \in Jars : Show(j) =>
       \A n \in (globalSeq[j] + 1)..globalSeq'[j] :
         n \in reply[j].msgs \/ n <= reply[j].seq - RingMax]_vars

\* What lies beyond a jar's position is eventually shown to its players
\* (global.go:71-88, Commands.java:417-423), unless the ring dropped it or the
\* gateway restarted first: a missed wakeup or a failed poll only delays it.
\* (An answer the previous run of the gateway sent may still move the
\* position, so there must be none on its way.)
Delivered ==
  \A j \in Jars, e \in 0..MaxRestarts, n \in 1..MaxSeq :
    (/\ epoch = e /\ n <= seq /\ joined[j] # NotJoined /\ globalSeq[j] < n
     /\ reply[j] = NoReply \/ reply[j].epoch = e)
      ~> (<<e, n>> \in shown[j] \/ epoch # e \/ n \notin ring)

\* "Each jar then polls with the last seq it saw and shows new messages to
\* its players" (docs/owner-api.md:187-188): every message published after
\* the jar learnt its position is shown, unless the ring or the gateway
\* loses it first.
NewAreShown ==
  \A j \in Jars, e \in 0..MaxRestarts, n \in 1..MaxSeq :
    (epoch = e /\ n <= seq /\ joined[j] # NotJoined /\ Before(joined[j], <<e, n>>))
      ~> (<<e, n>> \in shown[j] \/ epoch # e \/ n \notin ring)
=============================================================================
