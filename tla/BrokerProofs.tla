---------------------------- MODULE BrokerProofs ----------------------------
(***************************************************************************)
(* Safety of Broker for every number of jars, every size of the ring and   *)
(* any number of messages, failed polls and restarts of the gateway.  The  *)
(* invariant relates the answer on its way to a jar, the jar's position    *)
(* and what it has shown.                                                  *)
(***************************************************************************)
EXTENDS Broker, TLAPS

(* The parts of the invariant.                                              *)

\* The ring holds exactly the newest messages.
RingInv == ring = {n \in 1..seq : n > seq - RingMax}

\* A jar that has not joined yet has shown nothing.
JoinInv(j) ==
  /\ at[j] \in {"init", "position"} <=> joined[j] = NotJoined
  /\ joined[j] = NotJoined => shown[j] = {}

\* Whatever was shown lies behind the jar's position and is not of the future.
ShownInv(j) == \A m \in shown[j] : m[1] <= epoch /\ m[2] <= globalSeq[j]

\* An answer on its way continues from the jar's position, which stays where
\* it is meanwhile.
ReplyInv(j) ==
  /\ at[j] \in {"reply", "position"} => reply[j] \in Reply /\ reply[j].epoch <= epoch
  /\ at[j] = "reply" =>
       /\ \A n \in reply[j].msgs : globalSeq[j] < n /\ n <= reply[j].seq
       /\ \A m \in shown[j] : m[1] <= reply[j].epoch
       /\ \A n \in (globalSeq[j] + 1)..reply[j].seq :
            n \in reply[j].msgs \/ n <= reply[j].seq - RingMax

JarInv(j) == JoinInv(j) /\ ShownInv(j) /\ ReplyInv(j)

BrokerInv == TypeOK /\ RingInv /\ \A j \in Jars : JarInv(j)

-----------------------------------------------------------------------------
(* The gateway.                                                             *)

\* A step that leaves the jars and their polls alone.
LEMMA JarsKept ==
  ASSUME BrokerInv, UNCHANGED <<epoch, at, reply, jar>>, NEW j \in Jars
  PROVE  JarInv(j)'
BY DEF BrokerInv, JarInv, JoinInv, ShownInv, ReplyInv, jar

LEMMA PublishInv == ASSUME BrokerInv, Publish PROVE BrokerInv'
<1> USE BrokerAssumption DEF BrokerInv
<1>1. seq \in Nat /\ seq' = seq + 1
  BY DEF TypeOK, Publish, Published
<1>2. RingInv'
  BY <1>1 DEF RingInv, Publish, Published, Kept
<1>3. ring' \in SUBSET (1..seq')
  BY <1>2 DEF RingInv
<1>4. TypeOK'
  BY <1>1, <1>3 DEF TypeOK, Publish, jar
<1> QED
  BY <1>2, <1>4, JarsKept DEF Publish

LEMMA CloseOldInv == ASSUME BrokerInv, NEW c \in unclosed, CloseOld(c) PROVE BrokerInv'
<1> USE DEF BrokerInv
<1>1. TypeOK' /\ RingInv'
  BY DEF TypeOK, RingInv, CloseOld, jar
<1> QED
  BY <1>1, JarsKept DEF CloseOld

LEMMA RestartInv == ASSUME BrokerInv, Restart PROVE BrokerInv'
<1> USE BrokerAssumption DEF BrokerInv
<1>1. RingInv'
  BY DEF RingInv, Restart
<1>2. TypeOK'
  BY DEF TypeOK, Restart, Again, Places, jar
<1>3. ASSUME NEW j \in Jars PROVE JarInv(j)'
  <2>1. JarInv(j) /\ epoch \in Nat /\ epoch' = epoch + 1 /\ shown[j] \in SUBSET Message
    BY DEF TypeOK, Restart
  <2>2. /\ reply' = reply /\ globalSeq' = globalSeq /\ joined' = joined /\ shown' = shown
        /\ at'[j] = IF at[j] \in {"reply", "position"} THEN at[j] ELSE Again(j)
    BY DEF Restart, jar
  <2>3. JoinInv(j)'
    BY <2>1, <2>2 DEF JarInv, JoinInv, Again
  <2>4. ShownInv(j)'
    BY <2>1, <2>2 DEF JarInv, ShownInv, Message
  <2>5. ReplyInv(j)'
    BY <2>1, <2>2 DEF JarInv, ReplyInv, Again, Reply
  <2> QED
    BY <2>3, <2>4, <2>5 DEF JarInv
<1> QED
  BY <1>1, <1>2, <1>3

-----------------------------------------------------------------------------
(* One jar's poll moves; the gateway and the other jars stay.               *)

\* Poll i changes, and nothing of any other jar.
OnlyJar(i) ==
  /\ UNCHANGED broker
  /\ \A j \in Jars \ {i} :
       /\ at'[j] = at[j] /\ reply'[j] = reply[j] /\ globalSeq'[j] = globalSeq[j]
       /\ joined'[j] = joined[j] /\ shown'[j] = shown[j]

LEMMA OneJar ==
  ASSUME BrokerInv, NEW i \in Jars, OnlyJar(i), TypeOK', JarInv(i)'
  PROVE  BrokerInv'
<1> USE DEF BrokerInv
<1>1. RingInv'
  BY DEF RingInv, OnlyJar, broker
<1>2. ASSUME NEW j \in Jars, j # i PROVE JarInv(j)'
  BY <1>2 DEF OnlyJar, broker, JarInv, JoinInv, ShownInv, ReplyInv
<1> QED
  BY <1>1, <1>2

\* What since and the deadline answer.
LEMMA AnswerInv ==
  ASSUME BrokerInv, NEW j \in Jars, Answer(j), at[j] \in {"since", "select"},
         UNCHANGED <<broker, ch, jar, fails>>
  PROVE  BrokerInv'
<1> USE BrokerAssumption DEF BrokerInv
<1> DEFINE r == [epoch |-> epoch, msgs |-> Newer(j), seq |-> seq]
<1>0. JarInv(j) /\ globalSeq[j] \in Nat /\ seq \in Nat /\ epoch \in Nat
  BY DEF TypeOK
<1>1. Newer(j) = {n \in 1..seq : n > seq - RingMax /\ n > globalSeq[j]}
  BY DEF Newer, RingInv
<1>2. r \in Reply /\ r.epoch = epoch /\ r.msgs = Newer(j) /\ r.seq = seq
  BY <1>0, <1>1 DEF Reply
<1> HIDE DEF r
<1>3. reply' = [reply EXCEPT ![j] = r] /\ at' = [at EXCEPT ![j] = "reply"]
  BY DEF Answer, r
<1>4. TypeOK'
  BY <1>2, <1>3 DEF TypeOK, Places, broker, jar
<1>5. /\ reply'[j] = r /\ at'[j] = "reply" /\ globalSeq' = globalSeq /\ shown' = shown
      /\ joined' = joined /\ epoch' = epoch
  BY <1>3 DEF TypeOK, broker, jar
<1>6. JoinInv(j)' /\ ShownInv(j)'
  BY <1>0, <1>5 DEF JarInv, JoinInv, ShownInv
<1>7. ReplyInv(j)'
  <2>1. \A n \in r.msgs : globalSeq[j] < n /\ n <= r.seq
    BY <1>0, <1>1, <1>2
  <2>2. \A m \in shown[j] : m[1] <= r.epoch
    BY <1>0, <1>2 DEF JarInv, ShownInv
  <2>3. \A n \in (globalSeq[j] + 1)..r.seq : n \in r.msgs \/ n <= r.seq - RingMax
    BY <1>0, <1>1, <1>2
  <2> QED
    BY <1>0, <1>2, <1>5, <2>1, <2>2, <2>3 DEF ReplyInv
<1>8. OnlyJar(j)
  BY <1>3 DEF OnlyJar, broker, jar, TypeOK
<1> QED
  BY <1>4, <1>6, <1>7, <1>8, OneJar DEF JarInv

\* A poll moves on within the gateway or fails: nothing is on its way.
LEMMA MoveInv ==
  ASSUME BrokerInv, TypeOK', NEW j \in Jars, OnlyJar(j), UNCHANGED jar,
         IF joined[j] = NotJoined THEN at'[j] = "init" ELSE at'[j] \in {"since", "notify", "select"}
  PROVE  BrokerInv'
<1>1. JarInv(j)'
  BY DEF BrokerInv, JarInv, JoinInv, ShownInv, ReplyInv, OnlyJar, broker, jar
<1> QED
  BY <1>1, OneJar

LEMMA CurrentInv == ASSUME BrokerInv, NEW j \in Jars, Current(j) PROVE BrokerInv'
<1> USE DEF BrokerInv
<1> DEFINE r == [epoch |-> epoch, msgs |-> {}, seq |-> seq]
<1>0. JarInv(j) /\ seq \in Nat /\ epoch \in Nat
  BY DEF TypeOK
<1>1. r \in Reply /\ r.epoch = epoch
  BY <1>0 DEF Reply
<1> HIDE DEF r
<1>2. /\ reply' = [reply EXCEPT ![j] = r] /\ at' = [at EXCEPT ![j] = "position"]
      /\ UNCHANGED <<broker, ch, jar, fails>>
  BY DEF Current, r
<1>3. TypeOK'
  BY <1>1, <1>2 DEF TypeOK, Places, broker, jar
<1>4. /\ reply'[j] = r /\ at'[j] = "position" /\ at[j] = "init"
      /\ globalSeq' = globalSeq /\ shown' = shown /\ joined' = joined /\ epoch' = epoch
  BY <1>2 DEF Current, TypeOK, broker, jar
<1>5. JarInv(j)'
  BY <1>0, <1>1, <1>4 DEF JarInv, JoinInv, ShownInv, ReplyInv
<1>6. OnlyJar(j)
  BY <1>2 DEF Current, OnlyJar, broker, jar, TypeOK
<1> QED
  BY <1>3, <1>5, <1>6, OneJar

LEMMA GatewayPollInv ==
  ASSUME BrokerInv, NEW j \in Jars, Since(j) \/ ReadNotify(j) \/ Wake(j) \/ TimeOut(j) \/ Lose(j)
  PROVE  BrokerInv'
<1> USE DEF BrokerInv
<1>0. at[j] \in {"since", "notify", "select"} => joined[j] # NotJoined
  BY DEF JarInv, JoinInv
<1>1. CASE Since(j)
  <2>1. CASE Newer(j) # {}
    BY <1>1, <2>1, AnswerInv DEF Since
  <2>2. CASE Newer(j) = {}
    <3>1. TypeOK' /\ OnlyJar(j) /\ at'[j] = "notify"
      BY <1>1, <2>2 DEF Since, TypeOK, Places, OnlyJar, broker, jar
    <3> QED
      BY <1>1, <1>0, <3>1, MoveInv DEF Since
  <2> QED
    BY <2>1, <2>2
<1>2. CASE ReadNotify(j)
  <2>1. TypeOK' /\ OnlyJar(j) /\ at'[j] = "select"
    BY <1>2 DEF ReadNotify, TypeOK, Places, OnlyJar, broker, jar
  <2> QED
    BY <1>0, <1>2, <2>1, MoveInv DEF ReadNotify
<1>3. CASE Wake(j)
  <2>1. TypeOK' /\ OnlyJar(j) /\ at'[j] = "since"
    BY <1>3 DEF Wake, TypeOK, Places, OnlyJar, broker, jar
  <2> QED
    BY <1>0, <1>3, <2>1, MoveInv DEF Wake
<1>4. CASE TimeOut(j)
  BY <1>4, AnswerInv DEF TimeOut
<1>5. CASE Lose(j)
  <2>1. TypeOK' /\ OnlyJar(j) /\ at'[j] = Again(j)
    BY <1>5 DEF Lose, Again, TypeOK, Places, OnlyJar, broker, jar
  <2> QED
    BY <1>5, <2>1, MoveInv DEF Lose, Again
<1> QED
  BY <1>1, <1>2, <1>3, <1>4, <1>5

LEMMA JoinStep == ASSUME BrokerInv, NEW j \in Jars, Join(j) PROVE BrokerInv'
<1> USE NoneAssumption DEF BrokerInv
<1>0. JarInv(j) /\ reply[j] \in Reply /\ at[j] = "position"
  BY DEF Join, JarInv, ReplyInv
<1>1. /\ reply[j].seq \in Nat /\ reply[j].epoch \in Nat
      /\ <<reply[j].epoch, reply[j].seq>> \in Message
  BY <1>0 DEF Reply, Message
<1>2. shown[j] = {}
  BY <1>0 DEF JarInv, JoinInv
<1>3. TypeOK'
  BY <1>1 DEF Join, TypeOK, Places, broker
<1>4. /\ at'[j] = "since" /\ shown'[j] = {}
      /\ joined'[j] = <<reply[j].epoch, reply[j].seq>>
  BY <1>2 DEF Join, TypeOK
<1>5. JarInv(j)'
  BY <1>1, <1>4 DEF JarInv, JoinInv, ShownInv, ReplyInv
<1>6. OnlyJar(j)
  BY DEF Join, OnlyJar, broker, TypeOK
<1> QED
  BY <1>3, <1>5, <1>6, OneJar

LEMMA ShowStep == ASSUME BrokerInv, NEW j \in Jars, Show(j) PROVE BrokerInv'
<1> USE DEF BrokerInv
<1> DEFINE r == reply[j]
           g == globalSeq[j]
<1>0. JarInv(j) /\ r \in Reply /\ at[j] = "reply" /\ g \in Nat /\ epoch \in Nat
  BY DEF Show, JarInv, ReplyInv, TypeOK
<1>1. r.seq \in Nat /\ r.epoch \in Nat /\ r.msgs \in SUBSET Nat /\ r.epoch <= epoch
  BY <1>0 DEF Reply, JarInv, ReplyInv
<1>2. {r.epoch} \X r.msgs \subseteq Message
  BY <1>1 DEF Message
<1>3. TypeOK'
  BY <1>0, <1>1, <1>2 DEF Show, TypeOK, Places, broker
<1>4. /\ at'[j] = "since" /\ joined'[j] = joined[j] /\ epoch' = epoch
      /\ shown'[j] = shown[j] \cup ({r.epoch} \X r.msgs)
      /\ globalSeq'[j] = IF r.seq > g THEN r.seq ELSE g
  BY DEF Show, TypeOK, broker
<1>5. JoinInv(j)' /\ ReplyInv(j)'
  BY <1>0, <1>4 DEF JarInv, JoinInv, ReplyInv
<1>6. ShownInv(j)'
  <2> SUFFICES ASSUME NEW m \in shown'[j] PROVE m[1] <= epoch /\ m[2] <= globalSeq'[j]
    BY <1>4 DEF ShownInv
  <2>1. CASE m \in shown[j]
    <3>1. m \in Message /\ m[1] <= epoch /\ m[2] <= g
      BY <1>0, <2>1 DEF JarInv, ShownInv, TypeOK
    <3> QED
      BY <1>0, <1>1, <1>4, <3>1 DEF Message
  <2>2. CASE m \in {r.epoch} \X r.msgs
    <3>1. m[1] = r.epoch /\ m[2] \in r.msgs /\ m[2] \in Nat /\ m[2] <= r.seq
      BY <1>0, <1>1, <2>2 DEF JarInv, ReplyInv
    <3> QED
      BY <1>0, <1>1, <1>4, <3>1
  <2> QED
    BY <1>4, <2>1, <2>2
<1>7. OnlyJar(j)
  BY DEF Show, OnlyJar, broker, TypeOK
<1> QED
  BY <1>3, <1>5, <1>6, <1>7, OneJar DEF JarInv

LEMMA BrokerInit == Init => BrokerInv
<1> SUFFICES ASSUME Init PROVE BrokerInv
  OBVIOUS
<1>1. TypeOK
  BY DEF Init, TypeOK, Places
<1>2. RingInv
  BY BrokerAssumption DEF Init, RingInv
<1>3. ASSUME NEW j \in Jars PROVE JarInv(j)
  BY DEF Init, JarInv, JoinInv, ShownInv, ReplyInv
<1> QED
  BY <1>1, <1>2, <1>3 DEF BrokerInv

LEMMA BrokerStep == BrokerInv /\ [Next]_vars => BrokerInv'
<1> SUFFICES ASSUME BrokerInv, [Next]_vars PROVE BrokerInv'
  OBVIOUS
<1>1. CASE UNCHANGED vars
  <2>1. TypeOK' /\ RingInv'
    BY <1>1 DEF vars, BrokerInv, TypeOK, RingInv
  <2> QED
    BY <1>1, <2>1, JarsKept DEF vars, jar, BrokerInv
<1>2. CASE Next
  BY <1>2, PublishInv, RestartInv, CloseOldInv, CurrentInv, GatewayPollInv, JoinStep, ShowStep
     DEF Next, Poll
<1> QED
  BY <1>1, <1>2

LEMMA BrokerInvAlways == Spec => []BrokerInv
BY BrokerInit, BrokerStep, PTL DEF Spec

-----------------------------------------------------------------------------
\* Positions, answers and messages keep their types; the ring holds numbers
\* that were given out.
THEOREM BrokerTypes == Spec => []TypeOK
BY BrokerInvAlways, PTL DEF BrokerInv

LEMMA ShowOrder ==
  ASSUME BrokerInv, NEW j \in Jars, Show(j), NEW n \in reply[j].msgs, NEW m \in shown[j]
  PROVE  Before(m, <<reply[j].epoch, n>>)
<1>1. JarInv(j) /\ at[j] = "reply" /\ m \in Message /\ globalSeq[j] \in Nat
  BY DEF BrokerInv, Show, TypeOK
<1>2. reply[j] \in Reply /\ reply[j].epoch \in Nat /\ n \in Nat
  BY <1>1 DEF JarInv, ReplyInv, Reply
<1>3. m[1] <= reply[j].epoch /\ m[2] <= globalSeq[j] /\ globalSeq[j] < n
  BY <1>1 DEF JarInv, ReplyInv, ShownInv
<1> QED
  BY <1>1, <1>2, <1>3 DEF Before, Message

\* No player reads a message twice or after a later one (global.go:57-67,
\* Commands.java:418-423), for every number of jars, failed polls and restarts.
THEOREM ShownInOrderAlways == Spec => ShownInOrder
<1>1. BrokerInv /\ [Next]_vars =>
        [\A j \in Jars : Show(j) =>
           \A n \in reply[j].msgs, m \in shown[j] : Before(m, <<reply[j].epoch, n>>)]_vars
  BY ShowOrder
<1> QED
  BY <1>1, BrokerInvAlways, PTL DEF Spec, ShownInOrder

LEMMA ShowSkips ==
  ASSUME BrokerInv, NEW j \in Jars, Show(j), NEW n \in (globalSeq[j] + 1)..globalSeq'[j]
  PROVE  n \in reply[j].msgs \/ n <= reply[j].seq - RingMax
<1>1. JarInv(j) /\ at[j] = "reply" /\ globalSeq[j] \in Nat
  BY DEF BrokerInv, Show, TypeOK
<1>2. reply[j].seq \in Nat
  BY <1>1 DEF JarInv, ReplyInv, Reply
<1>3. globalSeq'[j] = IF reply[j].seq > globalSeq[j] THEN reply[j].seq ELSE globalSeq[j]
  BY DEF Show, BrokerInv, TypeOK
<1>4. n \in (globalSeq[j] + 1)..reply[j].seq
  BY <1>1, <1>2, <1>3
<1> QED
  BY <1>1, <1>4 DEF JarInv, ReplyInv

\* A jar passes over a message only when the ring had dropped it
\* (global.go:38-40), for every size of the ring.
THEOREM SkippedOnlyDroppedAlways == Spec => SkippedOnlyDropped
<1>1. BrokerInv /\ [Next]_vars =>
        [\A j \in Jars : Show(j) =>
           \A n \in (globalSeq[j] + 1)..globalSeq'[j] :
             n \in reply[j].msgs \/ n <= reply[j].seq - RingMax]_vars
  BY ShowSkips
<1> QED
  BY <1>1, BrokerInvAlways, PTL DEF Spec, SkippedOnlyDropped
=============================================================================
