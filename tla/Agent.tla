------------------------------- MODULE Agent -------------------------------
(***************************************************************************)
(* internal/agent: the sidecar that keeps a server registered and runs the *)
(* owner's callback (the hook) for every change of a side port assignment, *)
(* with the network, the gateway as the agent sees it, and crashes.        *)
(*                                                                         *)
(* A heartbeat is a PUT whose answer carries the assignments; a call that  *)
(* fails may still be served later, also after the DELETE of the shutdown. *)
(* What was applied survives a restart in the state file.  The gateway's   *)
(* side (modules Registry and SidePorts) is reduced to: keep an assignment,*)
(* or make one with the preferred port if it is free.                      *)
(***************************************************************************)
EXTENDS Integers, FiniteSets

CONSTANTS
  Names,        \* side port names
  Ports,        \* public ports
  MaxStarts,    \* bound on starts of the agent
  MaxForgets    \* bound on restarts of the gateway

Absent == 0     \* no entry
Error == -1     \* SidePortState "error"
Released == -2  \* SidePortState "released"
States == Ports \cup {Absent, Error}

ASSUME AgentAssumption ==
  /\ Ports \subseteq Nat \ {Absent}
  /\ MaxStarts \in Nat /\ MaxForgets \in Nat

VARIABLES
  pc,         \* the agent: "down" or a place in Run
  declared,   \* srv.SidePorts of the configuration
  applied,    \* hooks.applied
  file,       \* the state file
  answer,     \* the side ports in the gateway's answer
  todo,       \* names apply has yet to look at
  changed,    \* apply's variable
  cancelled,  \* the context is done
  net,        \* requests on their way, live while the agent waits
  registered, \* the registry has the server
  assigned,   \* the gateway's assignments
  starts, forgets,
  mod,        \* history: the state of the last callback that succeeded
  unsaved,    \* history: names whose last callback is not in the file
  lost,       \* history: names for which that was so when the agent ended
  clean       \* history: the agent's last end was an answered DELETE

vars == <<pc, declared, applied, file, answer, todo, changed, cancelled, net,
          registered, assigned, starts, forgets, mod, unsaved, lost, clean>>
hooks == <<applied, file, mod, unsaved>>
gateway == <<registered, assigned, forgets>>
round == <<answer, todo, changed>>

Nothing == [n \in Names |-> Absent]

Request == [op : {"PUT", "DELETE"}, names : SUBSET Names, prefer : [Names -> Ports \cup {Absent}],
            live : BOOLEAN]

Init ==
  /\ pc = "down" /\ declared = {} /\ applied = Nothing /\ file = Nothing
  /\ answer = Nothing /\ todo = {} /\ changed = FALSE /\ cancelled = FALSE
  /\ net = {} /\ registered = FALSE /\ assigned = Nothing
  /\ starts = 0 /\ forgets = 0
  /\ mod = Nothing /\ unsaved = {} /\ lost = {} /\ clean = FALSE

\* The agent stops waiting for its request, which is lost or still on its way.
Abandoned == {{m \in net : ~m.live}, {[m EXCEPT !.live = FALSE] : m \in net}}

-----------------------------------------------------------------------------
StartFresh(names) ==
  /\ pc = "down" /\ starts < MaxStarts /\ starts' = starts + 1
  /\ pc' = "put" /\ declared' = names /\ applied' = Nothing /\ cancelled' = FALSE
  /\ clean' = FALSE /\ UNCHANGED <<file, round, net, gateway, mod, unsaved, lost>>

\* newHooks reads the state file.
Start(names) ==
  /\ pc = "down" /\ starts < MaxStarts /\ starts' = starts + 1
  /\ pc' = "put" /\ declared' = names /\ applied' = file /\ cancelled' = FALSE
  /\ clean' = FALSE /\ UNCHANGED <<file, round, net, gateway, mod, unsaved, lost>>

\* prefer: the last assigned port is asked for again.
Prefer == [n \in Names |-> IF n \in declared /\ applied[n] \in Ports THEN applied[n] ELSE Absent]

\* call sends nothing once the context is done.
Put ==
  /\ pc = "put"
  /\ IF cancelled THEN pc' = "select" /\ UNCHANGED net
     ELSE /\ pc' = "call"
          /\ net' = net \cup {[op |-> "PUT", names |-> declared, prefer |-> Prefer, live |-> TRUE]}
  /\ UNCHANGED <<declared, hooks, round, cancelled, gateway, starts, lost, clean>>

\* A refusal, the 10 s of the client, a broken connection, or the context.
CallFails ==
  /\ pc = "call" /\ pc' = "select"
  /\ net' \in Abandoned
  /\ UNCHANGED <<declared, hooks, round, cancelled, gateway, starts, lost, clean>>

Want(n) == IF n \in declared THEN answer[n] ELSE Released

\* apply: the names whose state changed, and those no longer declared.
Apply ==
  /\ pc = "answer" /\ pc' = "apply"
  /\ todo' = {n \in declared : applied[n] # answer[n]}
             \cup {n \in Names \ declared : applied[n] # Absent}
  /\ changed' = FALSE
  /\ UNCHANGED <<declared, hooks, answer, cancelled, net, gateway, starts, lost, clean>>

\* Declared side ports come before those that are gone.
Turn(n) == n \in todo /\ (n \in declared \/ todo \cap declared = {})

\* run succeeds; the entry of a side port that is gone is deleted.
RunHook(n) ==
  /\ pc = "apply" /\ Turn(n) /\ ~cancelled
  /\ applied' = [applied EXCEPT ![n] = IF n \in declared THEN answer[n] ELSE Absent]
  /\ mod' = [mod EXCEPT ![n] = Want(n)]
  /\ changed' = TRUE /\ unsaved' = unsaved \cup {n} /\ lost' = lost \ {n}
  /\ todo' = todo \ {n}
  /\ UNCHANGED <<pc, declared, file, answer, cancelled, net, gateway, starts, clean>>

HookFailsForgotten(n) ==
  /\ pc = "apply" /\ Turn(n)
  /\ todo' = todo \ {n}
  /\ applied' = [applied EXCEPT ![n] = IF n \in declared THEN answer[n] ELSE Absent]
  /\ UNCHANGED <<pc, declared, file, mod, unsaved, answer, changed, cancelled, net, gateway, starts, lost, clean>>

\* A non-zero exit, the 30 s, or the context: retried at the next heartbeat.
HookFails(n) ==
  /\ pc = "apply" /\ Turn(n)
  /\ todo' = todo \ {n}
  /\ UNCHANGED <<pc, declared, hooks, answer, changed, cancelled, net, gateway, starts, lost, clean>>

\* save writes a temporary file and renames it; an error is logged.
Save ==
  /\ pc = "apply" /\ todo = {} /\ changed
  /\ \/ file' = applied /\ unsaved' = {}
     \/ UNCHANGED <<file, unsaved>>
  /\ pc' = "select" /\ changed' = FALSE /\ answer' = Nothing
  /\ UNCHANGED <<declared, applied, mod, todo, cancelled, net, gateway, starts, lost, clean>>

NothingChanged ==
  /\ pc = "apply" /\ todo = {} /\ ~changed
  /\ pc' = "select" /\ answer' = Nothing
  /\ UNCHANGED <<declared, hooks, todo, changed, cancelled, net, gateway, starts, lost, clean>>

\* The ticker, also while the context is done: select picks either.
NextHeartbeat ==
  /\ pc = "select" /\ pc' = "put"
  /\ UNCHANGED <<declared, hooks, round, cancelled, net, gateway, starts, lost, clean>>

SelectDoneEarly ==
  /\ pc \in {"select", "call"} /\ cancelled /\ pc' = "delete"
  /\ net' = net \cup {[op |-> "DELETE", names |-> {}, prefer |-> Nothing, live |-> TRUE]}
  /\ UNCHANGED <<declared, hooks, round, cancelled, gateway, starts, lost, clean>>

SelectDone ==
  /\ pc = "select" /\ cancelled /\ pc' = "delete"
  /\ net' = net \cup {[op |-> "DELETE", names |-> {}, prefer |-> Nothing, live |-> TRUE]}
  /\ UNCHANGED <<declared, hooks, round, cancelled, gateway, starts, lost, clean>>

\* The process is gone, with everything but the file.
Down ==
  /\ pc' = "down" /\ declared' = {} /\ applied' = Nothing
  /\ answer' = Nothing /\ todo' = {} /\ changed' = FALSE
  /\ lost' = lost \cup unsaved /\ unsaved' = {}

\* The DELETE fails, or is not answered within 5 s.
DeleteFails ==
  /\ pc = "delete" /\ Down
  /\ net' \in Abandoned
  /\ UNCHANGED <<file, mod, cancelled, gateway, starts, clean>>

\* SIGTERM.
Cancel ==
  /\ pc # "down" /\ ~cancelled /\ cancelled' = TRUE
  /\ UNCHANGED <<pc, declared, hooks, round, net, gateway, starts, lost, clean>>

Crash ==
  /\ pc # "down" /\ Down
  /\ net' \in Abandoned
  /\ UNCHANGED <<file, mod, cancelled, gateway, starts, clean>>

-----------------------------------------------------------------------------
(* The gateway.                                                             *)

\* Side ports not named are released; a port is kept, or the preferred one is
\* given if it is not taken by others, or another, or none.
Assignments(m) ==
  {a \in [Names -> States] :
     \E taken \in SUBSET Ports : \A n \in Names :
       IF n \notin m.names THEN a[n] = Absent
       ELSE IF assigned[n] \in Ports THEN a[n] = assigned[n]
       ELSE IF m.prefer[n] \in Ports \ taken THEN a[n] = m.prefer[n]
       ELSE a[n] \in (Ports \ taken) \cup {Error}}

NoneShared(a) == \A n, k \in Names : n # k /\ a[n] \in Ports => a[n] # a[k]

\* The answer reaches the agent if it still waits.
ServePut(m) ==
  /\ m \in net /\ m.op = "PUT" /\ net' = net \ {m}
  /\ registered' = TRUE
  /\ \E a \in Assignments(m) : NoneShared(a) /\ assigned' = a
  /\ IF m.live THEN pc' = "answer" /\ answer' = assigned'
     ELSE UNCHANGED <<pc, answer>>
  /\ UNCHANGED <<declared, hooks, todo, changed, cancelled, forgets, starts, lost, clean>>

ServeDelete(m) ==
  /\ m \in net /\ m.op = "DELETE" /\ net' = net \ {m}
  /\ registered' = FALSE /\ assigned' = Nothing
  /\ IF m.live THEN Down /\ clean' = TRUE
     ELSE UNCHANGED <<pc, declared, applied, round, lost, unsaved, clean>>
  /\ UNCHANGED <<file, mod, cancelled, forgets, starts>>

Drop(m) ==
  /\ m \in net /\ ~m.live /\ net' = net \ {m}
  /\ UNCHANGED <<pc, declared, hooks, round, cancelled, gateway, starts, lost, clean>>

\* The lease runs out; the assignment is kept for its grace period.
Expire ==
  /\ registered /\ registered' = FALSE
  /\ UNCHANGED <<pc, declared, hooks, round, cancelled, net, assigned, forgets, starts, lost, clean>>

\* The gateway restarts, a grace period ends, or a port that was held cannot
\* be opened again.
Forget ==
  /\ forgets < MaxForgets /\ forgets' = forgets + 1
  /\ registered' = FALSE /\ assigned' = Nothing
  /\ UNCHANGED <<pc, declared, hooks, round, cancelled, net, starts, lost, clean>>

-----------------------------------------------------------------------------
Run ==
  \/ Put \/ Apply \/ Save \/ NothingChanged \/ CallFails \/ DeleteFails
  \/ \E n \in Names : RunHook(n) \/ HookFails(n)

Next ==
  \/ Run \/ NextHeartbeat \/ SelectDone \/ Cancel \/ Crash
  \/ \E names \in SUBSET Names : Start(names)
  \/ \E m \in net : ServePut(m) \/ ServeDelete(m) \/ Drop(m)
  \/ Expire \/ Forget

Served == \E m \in net : m.live /\ (ServePut(m) \/ ServeDelete(m))
Arrives == \E m \in net : ~m.live /\ (ServePut(m) \/ ServeDelete(m) \/ Drop(m))

\* The loop runs on; a heartbeat repeated for ever is answered some time and
\* a hook retried for ever succeeds some time; a request on its way arrives or
\* is lost.
Fairness ==
  /\ WF_vars(Run) /\ WF_vars(NextHeartbeat \/ SelectDone) /\ SF_vars(SelectDone)
  /\ SF_vars(Served) /\ WF_vars(Arrives)
  /\ \A n \in Names : SF_vars(RunHook(n))

Spec == Init /\ [][Next]_vars /\ Fairness

-----------------------------------------------------------------------------
\* Every variable has its type.
TypeOK ==
  /\ pc \in {"down", "put", "call", "answer", "apply", "select", "delete"}
  /\ {declared, todo, unsaved, lost} \subseteq SUBSET Names
  /\ {applied, file, answer, assigned} \subseteq [Names -> States]
  /\ mod \in [Names -> States \cup {Released}]
  /\ {changed, cancelled, registered, clean} \subseteq BOOLEAN
  /\ net \subseteq Request
  /\ starts \in 0..MaxStarts /\ forgets \in 0..MaxForgets

\* "remembers what it applied, so restarts don't re-run it" (hooks.go:32-34):
\* the callback is not run twice in a row for one state, whatever crashes,
\* failures and changes of the configuration came between, unless the agent
\* ended between a run and its save.
NoNeedlessRun ==
  [][\A n \in Names : RunHook(n) => mod[n] # Want(n) \/ n \in lost]_vars

\* "runs the callback for every change" (hooks.go:71-72): once faults cease,
\* the callback has been told of the assignment the gateway forwards, and of
\* every side port that is gone, for as long as the agent runs; again unless
\* the agent ended between a run and its save (then a restarted agent believes
\* the older state of the file).
HooksConverge ==
  <>[](pc # "down" => \A n \in Names \ lost :
         IF n \in declared THEN mod[n] = assigned[n] ELSE mod[n] \in {Absent, Released})

\* "If it stops, the server disappears after registrationTTL, or immediately
\* on a clean shutdown" (README.md:276-277): once the gateway has answered the
\* DELETE of a shutdown the server is gone.  A PUT the agent gave up
\* (agent.go:86) can be served after that DELETE.
GoneAfterStop == clean => ~registered

\* That is the only way: Run waits for each heartbeat's outcome before the
\* DELETE (agent.go:66-92), so after an answered DELETE nothing but a PUT that
\* failed on the agent's side and was still under way brings the server back.
BackOnlyByGivenUpPut ==
  [][clean /\ ~registered /\ registered' =>
       \E m \in net \ net' : m.op = "PUT" /\ ~m.live]_vars

\* HooksConverge without the exception: the callback was told of what the
\* gateway forwards, also after an end between a run and its save
\* (hooks.go:170-186).
EveryChangeTold ==
  <>[](pc # "down" => \A n \in Names :
         IF n \in declared THEN mod[n] = assigned[n] ELSE mod[n] \in {Absent, Released})
=============================================================================
