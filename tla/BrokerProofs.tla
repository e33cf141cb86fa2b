---------------------------- MODULE BrokerProofs ----------------------------
(***************************************************************************)
(* Theorems about Broker, for any number of browsers, agents, groups,      *)
(* sockets and commands in flight.                                         *)
(***************************************************************************)
EXTENDS Broker, TLAPS

\* A socket carries an executor only after its hello, until it is closed.
SilentSocketsCarryNone ==
  \A c \in Conns : ~socket[c].greeted => executors[c] = Nobody

\* A command is pending only at a browser that is connected, for an agent that is
\* there, or for the broker itself.
PendingIsCurrent ==
  \A r \in Pending : /\ pending[r].executorId \in Connected
                     /\ pending[r].agentId \in Live \cup {BrokerItself}

IInv ==
  /\ TypeOK
  /\ RegistryConsistent
  /\ SilentSocketsCarryNone
  /\ PendingIsCurrent
  /\ OwnershipIsCurrent
  /\ PendingOwnsGroup
  /\ StrandedOnlyByReplacement

-----------------------------------------------------------------------------
(* The values that stand for nothing, and the two helpers that change the  *)
(* pending commands.                                                       *)

LEMMA NobodyIsNone ==
  /\ \A c \in Conns : c # Nobody
  /\ \A b \in Browsers : b # Nobody
  /\ \A a \in Agents : a # Nobody /\ a # BrokerItself
  /\ \A g \in Groups : g # Nobody
  /\ BrokerItself # Nobody
  BY NobodyAssumption, BrokerAssumption DEF NobodyAssumption, BrokerAssumption

LEMMA NoneIsOutside ==
  /\ \A o \in Owned : o # NoOwner
  /\ \A k \in Commands : k # NoCommand
  /\ \A s \in Sockets : s # NoSocket
  /\ \A w \in Wires : w # Idle
  BY NobodyIsNone DEF Owned, NoOwner, Commands, NoCommand, Sockets, NoSocket, Wires, Idle

LEMMA ClearFacts ==
  ASSUME TypeOK, NEW STATE R, Clear(R)
  PROVE  /\ pending' \in [Reqs -> Commands \cup {NoCommand}]
         /\ Pending' = Pending \ R
         /\ \A r \in Pending' : pending'[r] = pending[r]
         /\ released' = released \ R /\ released' \subseteq Pending'
         /\ stranded' = stranded \ R /\ stranded' \subseteq Pending'
  BY DEF TypeOK, Clear, Pending

LEMMA SendFacts ==
  ASSUME TypeOK, NEW r \in Reqs, NEW a \in Agents \cup {BrokerItself}, NEW b \in Browsers,
         NEW c \in Conns, NEW action \in Actions, NEW g \in Groups \cup {Nobody},
         SendToExecutor(r, a, b, c, action, g)
  PROVE  /\ pending' \in [Reqs -> Commands \cup {NoCommand}]
         /\ wire' \in [Reqs -> Wires \cup {Idle}]
         /\ r \notin Pending
         /\ Pending' = Pending \cup {r}
         /\ pending'[r] = [agentId |-> a, executorId |-> b, action |-> action, group |-> g]
         /\ wire'[r].over = c
         /\ \A q \in Pending : pending'[q] = pending[q] /\ wire'[q] = wire[q]
<1> DEFINE sent == [agentId |-> a, executorId |-> b, action |-> action, group |-> g]
           frame == [at |-> "sent", over |-> c, to |-> b, group |-> g, saw |-> {}]
<1>1. sent \in Commands /\ frame \in Wires
  BY DEF Commands, Wires
<1>2. sent # NoCommand
  BY <1>1, NoneIsOutside
<1>3. r \notin Pending
  BY DEF SendToExecutor, Free, Pending
<1>4. pending' = [pending EXCEPT ![r] = sent] /\ wire' = [wire EXCEPT ![r] = frame]
  BY DEF SendToExecutor
<1>5. frame.over = c
  OBVIOUS
<1> HIDE DEF sent, frame
<1>6. Pending' = Pending \cup {r}
  BY <1>2, <1>4 DEF TypeOK, Pending
<1>7. \A q \in Pending : pending'[q] = pending[q] /\ wire'[q] = wire[q]
  BY <1>3, <1>4 DEF TypeOK, Pending
<1> QED
  BY <1>1, <1>3, <1>4, <1>5, <1>6, <1>7 DEF TypeOK, sent

-----------------------------------------------------------------------------
(* Type correctness.  That a stale connection can be closed (a hello marks *)
(* its socket) needs the registry: a connection has a socket.              *)

LEMMA GroupsTyped ==
  ASSUME TypeOK
  PROVE  /\ \A b \in Browsers : GroupsWithout(b) \in [Groups -> Owned \cup {NoOwner}]
         /\ \A b \in Browsers : \A seen : Rebuilt(b, seen) \in [Groups -> Owned \cup {NoOwner}]
         /\ \A a \in Agents : Orphaned(a) \in [Groups -> Owned \cup {NoOwner}]
         /\ \A a \in Agents, b \in Browsers, g \in Groups :
              Claimed(a, b, g) \in [Groups -> Owned \cup {NoOwner}]
<1>1. \A o \in Owned \cup {NoOwner} : [o EXCEPT !.agentId = Nobody] \in Owned \cup {NoOwner}
  BY DEF Owned, NoOwner
<1>2. \A a \in Agents \cup {Nobody}, b \in Browsers : [executorId |-> b, agentId |-> a] \in Owned
  BY DEF Owned
<1>3. \A b \in Browsers : GroupsWithout(b) \in [Groups -> Owned \cup {NoOwner}]
  BY DEF TypeOK, GroupsWithout
<1>4. \A b \in Browsers : \A seen : Rebuilt(b, seen) \in [Groups -> Owned \cup {NoOwner}]
  BY <1>2 DEF TypeOK, Rebuilt
<1>5. \A a \in Agents : Orphaned(a) \in [Groups -> Owned \cup {NoOwner}]
  BY <1>1 DEF TypeOK, Orphaned
<1>6. \A a \in Agents, b \in Browsers, g \in Groups :
        Claimed(a, b, g) \in [Groups -> Owned \cup {NoOwner}]
  BY <1>2 DEF TypeOK, Claimed
<1> QED
  BY <1>3, <1>4, <1>5, <1>6

LEMMA PriorIsGreeted ==
  ASSUME TypeOK, RegistryConsistent, SilentSocketsCarryNone,
         NEW b \in Browsers, executorById[b] # Nobody
  PROVE  socket[executorById[b]].greeted /\ socket[executorById[b]] \in Sockets
<1>1. executorById[b] \in Conns /\ executors[executorById[b]] = b
  BY DEF TypeOK, RegistryConsistent
<1>2. socket[executorById[b]].greeted
  BY <1>1, NobodyIsNone DEF SilentSocketsCarryNone
<1> QED
  BY <1>1, <1>2 DEF TypeOK, NoSocket

LEMMA TypeStep == IInv /\ [Next]_vars => TypeOK'
<1> SUFFICES ASSUME IInv, [Next]_vars PROVE TypeOK'
  OBVIOUS
<1>0. TypeOK
  BY DEF IInv
<1>1. ASSUME NEW c \in Conns, SocketCloses(c) PROVE TypeOK'
  <2>1. socket' \in [Conns -> Sockets \cup {NoSocket}] /\ ws' \in [Browsers -> Conns \cup {Nobody}]
        /\ tabs' = tabs
    BY <1>0, <1>1 DEF SocketCloses, TypeOK
  <2>2. \A w \in Wires : w.at = "running" => [w EXCEPT !.over = Nobody] \in Wires
    BY DEF Wires
  <2>3. \A r \in Reqs : wire[r].at = "running" => wire[r] \in Wires
    BY <1>0 DEF TypeOK, Idle
  <2>4. wire' \in [Reqs -> Wires \cup {Idle}]
    BY <1>0, <1>1, <2>2, <2>3 DEF SocketCloses, TypeOK
  <2>5. CASE ExecutorCloses(c)
    <3> DEFINE b == executors[c]
    <3>1. b \in Browsers
      BY <1>0, <2>5 DEF ExecutorCloses, TypeOK
    <3>2. pending' \in [Reqs -> Commands \cup {NoCommand}]
          /\ released' \subseteq Pending' /\ stranded' \subseteq Pending'
      BY <1>0, <2>5, ClearFacts DEF ExecutorCloses, RejectGone, TypeOK, Pending
    <3>3. groupOwner' \in [Groups -> Owned \cup {NoOwner}]
      BY <1>0, <2>5, <3>1, GroupsTyped DEF ExecutorCloses, TypeOK
    <3>4. executors' \in [Conns -> Browsers \cup {Nobody}]
          /\ executorById' \in [Browsers -> Conns \cup {Nobody}]
          /\ primaryExecutorId' \in Browsers \cup {Nobody}
      BY <1>0, <2>5 DEF ExecutorCloses, TypeOK
    <3> QED
      BY <1>0, <2>1, <2>4, <2>5, <3>2, <3>3, <3>4 DEF ExecutorCloses, TypeOK
  <2>6. CASE UNCHANGED brokerVars
    BY <1>0, <2>1, <2>4, <2>6 DEF TypeOK, brokerVars, Pending
  <2> QED
    BY <1>1, <2>5, <2>6 DEF SocketCloses
<1>2. ASSUME NEW c \in Conns, NEW r \in Reqs, HelloExtension(c, r) PROVE TypeOK'
  <2> DEFINE b == socket[c].by
             prior == executorById[b]
  <2>1. socket[c] \in Sockets /\ b \in Browsers
    BY <1>0, <1>2 DEF HelloExtension, TypeOK, Sockets
  <2>2. SendToExecutor(r, BrokerItself, b, c, "rebuild", Nobody)
    BY <1>2 DEF HelloExtension
  <2>3. /\ pending' \in [Reqs -> Commands \cup {NoCommand}]
        /\ wire' \in [Reqs -> Wires \cup {Idle}]
        /\ Pending' = Pending \cup {r}
    BY <1>0, <2>1, <2>2, SendFacts DEF Actions
  <2>4. released' \subseteq Pending' /\ stranded' \subseteq Pending'
    BY <1>0, <1>2, <2>3 DEF HelloExtension, PendingAt, TypeOK
  <2>5. \A d \in Conns : d = prior => socket[d] \in Sockets
    BY <1>0, <2>1, PriorIsGreeted, NobodyIsNone DEF IInv
  <2>6. \A s \in Sockets : [s EXCEPT !.greeted = TRUE] \in Sockets
                          /\ [s EXCEPT !.closing = TRUE] \in Sockets
    BY DEF Sockets
  <2>7. socket' \in [Conns -> Sockets \cup {NoSocket}]
    BY <1>0, <1>2, <2>1, <2>5, <2>6 DEF HelloExtension, TypeOK
  <2>8. /\ executors' \in [Conns -> Browsers \cup {Nobody}]
        /\ executorById' \in [Browsers -> Conns \cup {Nobody}]
        /\ primaryExecutorId' \in Browsers \cup {Nobody}
    BY <1>0, <1>2, <2>1 DEF HelloExtension, Register, TypeOK
  <2> QED
    BY <1>0, <1>2, <2>3, <2>4, <2>7, <2>8 DEF HelloExtension, TypeOK
<1>3. ASSUME NEW r \in Reqs, HandleResult(r) PROVE TypeOK'
  <2>1. wire' \in [Reqs -> Wires \cup {Idle}]
    BY <1>0, <1>3 DEF HandleResult, TypeOK
  <2>2. CASE Settles(r)
    <3>1. pending[r].executorId \in Browsers
      BY <1>0, <2>2 DEF Settles, TypeOK, Pending, Commands
    <3>2. groupOwner' \in [Groups -> Owned \cup {NoOwner}]
      BY <1>0, <1>3, <2>2, <3>1, GroupsTyped DEF HandleResult, TypeOK
    <3>3. Clear({r})
      BY <1>3, <2>2 DEF HandleResult
    <3> QED
      BY <1>0, <1>3, <2>1, <3>2, <3>3, ClearFacts DEF HandleResult, TypeOK, browserVars
  <2>3. CASE ~Settles(r)
    BY <1>0, <1>3, <2>1, <2>3 DEF HandleResult, TypeOK, browserVars, Pending
  <2> QED
    BY <2>2, <2>3
<1>4. ASSUME NEW r \in Reqs, Abandon(r) PROVE TypeOK'
  BY <1>0, <1>4, ClearFacts DEF Abandon, TypeOK, browserVars
<1>5. ASSUME NEW r \in Reqs, Accept(r) PROVE TypeOK'
  <2>1. wire[r] \in Wires
    BY <1>0, <1>5 DEF Accept, TypeOK, Idle
  <2>2. [wire[r] EXCEPT !.at = "running"] \in Wires
    BY <2>1 DEF Wires
  <2>3. wire' = [wire EXCEPT ![r] = [wire[r] EXCEPT !.at = "running"]]
    BY <1>5 DEF Accept
  <2>4. wire' \in [Reqs -> Wires \cup {Idle}]
    BY <1>0, <2>2, <2>3 DEF TypeOK
  <2> QED
    BY <1>0, <1>5, <2>4 DEF Accept, TypeOK, brokerVars, browserVars, Pending
<1>6. ASSUME NEW r \in Reqs, Finish(r) PROVE TypeOK'
  <2> DEFINE b == wire[r].to
             seen == IF pending[r].action = "rebuild" THEN tabs[b] ELSE {}
  <2>1. wire[r] \in Wires
    BY <1>0, <1>6 DEF Finish, TypeOK, Idle
  <2>2. b \in Browsers /\ tabs[b] \subseteq Groups
    BY <1>0, <2>1 DEF TypeOK, Wires
  <2>3. [wire[r] EXCEPT !.at = "lost"] \in Wires
    BY <2>1 DEF Wires
  <2>4. [wire[r] EXCEPT !.at = "replied", !.saw = seen] \in Wires
    BY <2>1, <2>2 DEF Wires
  <2>5. wire' = [wire EXCEPT ![r] =
                   IF wire[r].over = Nobody THEN Idle
                   ELSE IF ~socket[wire[r].over].alive THEN [wire[r] EXCEPT !.at = "lost"]
                   ELSE [wire[r] EXCEPT !.at = "replied", !.saw = seen]]
    BY <1>6 DEF Finish
  <2> HIDE DEF seen
  <2>6. wire' \in [Reqs -> Wires \cup {Idle}]
    BY <1>0, <2>3, <2>4, <2>5 DEF TypeOK
  <2>7. wire[r].group \in Groups \cup {Nobody}
    BY <2>1 DEF Wires
  <2>8. tabs' \in [Browsers -> SUBSET Groups]
    BY <1>0, <1>6, <2>2, <2>7 DEF Finish, TypeOK
  <2> QED
    BY <1>0, <1>6, <2>6, <2>8 DEF Finish, TypeOK, brokerVars, Pending
<1>7. ASSUME NEW a \in Agents, HelloAgent(a) PROVE TypeOK'
  BY <1>0, <1>7 DEF HelloAgent, Live, TypeOK, browserVars, Pending
<1>8. ASSUME NEW a \in Agents, AgentCloses(a) PROVE TypeOK'
  BY <1>0, <1>8, ClearFacts, GroupsTyped DEF AgentCloses, TypeOK, browserVars
<1>9. ASSUME NEW a \in Agents, Release(a) PROVE TypeOK'
  BY <1>0, <1>9, GroupsTyped DEF Release, Sent, TypeOK, browserVars, Pending
<1>10. ASSUME NEW a \in Agents, NEW r \in Reqs, GlobalCommand(a, r) PROVE TypeOK'
  <2>1. PICK b \in Browsers : /\ b \in Connected
                              /\ \/ SendToExecutor(r, a, b, executorById[b], "cookies", Nobody)
                                 \/ SendToExecutor(r, BrokerItself, b, executorById[b], "tabs", Nobody)
    BY <1>10 DEF GlobalCommand, PickExecutor
  <2>2. executorById[b] \in Conns
    BY <1>0, <2>1 DEF Connected, TypeOK
  <2>3. /\ pending' \in [Reqs -> Commands \cup {NoCommand}]
        /\ wire' \in [Reqs -> Wires \cup {Idle}]
        /\ Pending' = Pending \cup {r}
    BY <1>0, <2>1, <2>2, SendFacts DEF Actions
  <2> QED
    BY <1>0, <1>10, <2>3 DEF GlobalCommand, TypeOK, browserVars
<1>11. ASSUME NEW a \in Agents, NEW r \in Reqs, NEW g \in Groups, NEW opens \in BOOLEAN,
              GroupCommand(a, r, opens, g)
       PROVE  TypeOK'
  <2>1. PICK b \in Browsers :
          /\ groupOwner' = Claimed(a, b, g)
          /\ \/ b \in Connected /\ SendToExecutor(r, a, b, executorById[b], "group", g)
             \/ UNCHANGED <<pending, wire>>
    BY <1>11 DEF GroupCommand
  <2>2. b \in Connected => executorById[b] \in Conns
    BY <1>0 DEF Connected, TypeOK
  <2>3. /\ pending' \in [Reqs -> Commands \cup {NoCommand}]
        /\ wire' \in [Reqs -> Wires \cup {Idle}]
        /\ Pending \subseteq Pending'
    <3>1. CASE b \in Connected /\ SendToExecutor(r, a, b, executorById[b], "group", g)
      BY <1>0, <2>2, <3>1, SendFacts DEF Actions
    <3>2. CASE UNCHANGED <<pending, wire>>
      BY <1>0, <3>2 DEF TypeOK, Pending
    <3> QED
      BY <2>1, <3>1, <3>2
  <2> QED
    BY <1>0, <1>11, <2>1, <2>3, GroupsTyped DEF GroupCommand, TypeOK, browserVars
<1>12. ASSUME NEW b \in Browsers, HangUp(b) PROVE TypeOK'
  <2>1. ws[b] \in Conns
    BY <1>0, <1>12 DEF HangUp, TypeOK
  <2>2. \A s \in Sockets \cup {NoSocket} : [s EXCEPT !.alive = FALSE] \in Sockets \cup {NoSocket}
    <3>1. \A s \in Sockets : [s EXCEPT !.alive = FALSE] \in Sockets
      BY DEF Sockets
    <3>2. [NoSocket EXCEPT !.alive = FALSE] = NoSocket
      <4>1. NoSocket.alive = FALSE /\ NoSocket = [x \in DOMAIN NoSocket |-> NoSocket[x]]
        BY DEF NoSocket
      <4> QED
        BY <4>1
    <3> QED
      BY <3>1, <3>2
  <2>3. socket' = [socket EXCEPT ![ws[b]] = [socket[ws[b]] EXCEPT !.alive = FALSE]]
    BY <1>12 DEF HangUp
  <2>4. socket' \in [Conns -> Sockets \cup {NoSocket}]
    BY <1>0, <2>1, <2>2, <2>3 DEF TypeOK
  <2> QED
    BY <1>0, <1>12, <2>4 DEF HangUp, TypeOK, brokerVars, Pending
<1>13. ASSUME NEW b \in Browsers, NEW c \in Conns, Dial(b, c) PROVE TypeOK'
  <2>1. [NoSocket EXCEPT !.by = b, !.alive = TRUE] \in Sockets
    BY DEF Sockets, NoSocket
  <2>2. socket' \in [Conns -> Sockets \cup {NoSocket}] /\ ws' \in [Browsers -> Conns \cup {Nobody}]
    BY <1>0, <1>13, <2>1 DEF Dial, TypeOK
  <2> QED
    BY <1>0, <1>13, <2>2 DEF Dial, TypeOK, brokerVars, Pending
<1>14. ASSUME NEW b \in Browsers, NEW g \in Groups, TabsClosed(b, g) PROVE TypeOK'
  BY <1>0, <1>14 DEF TabsClosed, TypeOK, brokerVars, Pending
<1>15. ASSUME Stop PROVE TypeOK'
  BY <1>0, <1>15, ClearFacts DEF Stop, TypeOK, browserVars
<1>16. CASE UNCHANGED vars
  BY <1>0, <1>16 DEF vars, brokerVars, browserVars, TypeOK, Pending
<1> QED
  BY <1>1, <1>2, <1>3, <1>4, <1>5, <1>6, <1>7, <1>8, <1>9, <1>10, <1>11, <1>12, <1>13, <1>14,
     <1>15, <1>16 DEF Next

-----------------------------------------------------------------------------
(* The registry.  Only a hello, a close and the stop change it.            *)

LEMMA RegistryFrame ==
  ASSUME [Next]_vars,
         \A c \in Conns : ~SocketCloses(c) /\ \A r \in Reqs : ~HelloExtension(c, r),
         ~Stop
  PROVE  UNCHANGED <<executors, executorById, primaryExecutorId>>
<1>1. ASSUME NEW r \in Reqs, HandleResult(r) \/ Abandon(r) \/ Accept(r) \/ Finish(r)
      PROVE  UNCHANGED <<executors, executorById, primaryExecutorId>>
  BY <1>1 DEF HandleResult, Abandon, Accept, Finish, brokerVars
<1>2. ASSUME NEW a \in Agents, HelloAgent(a) \/ AgentCloses(a) \/ Release(a)
      PROVE  UNCHANGED <<executors, executorById, primaryExecutorId>>
  BY <1>2 DEF HelloAgent, AgentCloses, Release
<1>3. ASSUME NEW a \in Agents, NEW r \in Reqs,
             \/ GlobalCommand(a, r)
             \/ \E g \in Groups, opens \in BOOLEAN : GroupCommand(a, r, opens, g)
      PROVE  UNCHANGED <<executors, executorById, primaryExecutorId>>
  BY <1>3 DEF GlobalCommand, GroupCommand
<1>4. ASSUME NEW b \in Browsers,
             HangUp(b) \/ (\E c \in Conns : Dial(b, c)) \/ (\E g \in Groups : TabsClosed(b, g))
      PROVE  UNCHANGED <<executors, executorById, primaryExecutorId>>
  BY <1>4 DEF HangUp, Dial, TabsClosed, brokerVars
<1>5. CASE UNCHANGED vars
  BY <1>5 DEF vars, brokerVars
<1> QED
  BY <1>1, <1>2, <1>3, <1>4, <1>5 DEF Next

LEMMA RegistryStep == IInv /\ [Next]_vars => RegistryConsistent'
<1> SUFFICES ASSUME IInv, [Next]_vars PROVE RegistryConsistent'
  OBVIOUS
<1>0. TypeOK /\ RegistryConsistent /\ SilentSocketsCarryNone
  BY DEF IInv
<1>1. ASSUME NEW c \in Conns, SocketCloses(c) PROVE RegistryConsistent'
  <2>1. CASE ExecutorCloses(c)
    <3> DEFINE b == executors[c]
    <3>1. b \in Browsers /\ executorById[b] = c
      BY <1>0, <2>1 DEF ExecutorCloses, TypeOK, RegistryConsistent
    <3>2. /\ executors' = [executors EXCEPT ![c] = Nobody]
          /\ executorById' = [executorById EXCEPT ![b] = Nobody]
      BY <2>1, <3>1 DEF ExecutorCloses
    <3>3. \A d \in Conns, x \in Browsers : executors'[d] = x <=> executorById'[x] = d
      BY <1>0, <3>1, <3>2, NobodyIsNone DEF TypeOK, RegistryConsistent
    <3>4. Connected' = Connected \ {b} /\ b \in Connected
      BY <1>0, <3>1, <3>2, NobodyIsNone DEF TypeOK, Connected
    <3>5. primaryExecutorId' \in Connected' \/ (primaryExecutorId' = Nobody /\ Connected' = {})
      <4>1. CASE primaryExecutorId = b
        BY <2>1, <4>1 DEF ExecutorCloses, Connected
      <4>2. CASE primaryExecutorId # b
        BY <1>0, <2>1, <3>4, <4>2 DEF ExecutorCloses, RegistryConsistent
      <4> QED
        BY <4>1, <4>2
    <3> QED
      BY <3>3, <3>5 DEF RegistryConsistent
  <2>2. CASE UNCHANGED brokerVars
    BY <1>0, <2>2 DEF brokerVars, RegistryConsistent, Connected
  <2> QED
    BY <1>1, <2>1, <2>2 DEF SocketCloses
<1>2. ASSUME NEW c \in Conns, NEW r \in Reqs, HelloExtension(c, r) PROVE RegistryConsistent'
  <2> DEFINE b == socket[c].by
  <2>1. b \in Browsers /\ executors[c] = Nobody
    BY <1>0, <1>2 DEF HelloExtension, TypeOK, Sockets, SilentSocketsCarryNone
  <2>2. executors' = Register(c, b) /\ executorById' = [executorById EXCEPT ![b] = c]
    BY <1>2 DEF HelloExtension
  <2>3. \A d \in Conns, x \in Browsers : executors'[d] = x <=> executorById'[x] = d
    BY <1>0, <2>1, <2>2, NobodyIsNone DEF Register, TypeOK, RegistryConsistent
  <2>4. Connected' = Connected \cup {b}
    BY <1>0, <2>1, <2>2, NobodyIsNone DEF TypeOK, Connected
  <2> QED
    BY <1>2, <2>3, <2>4 DEF HelloExtension, RegistryConsistent
<1>3. ASSUME Stop PROVE RegistryConsistent'
  BY <1>3, NobodyIsNone DEF Stop, RegistryConsistent, Connected
<1>4. CASE UNCHANGED <<executors, executorById, primaryExecutorId>>
  BY <1>0, <1>4 DEF RegistryConsistent, Connected
<1> QED
  BY <1>1, <1>2, <1>3, <1>4, RegistryFrame

LEMMA SilentStep == IInv /\ [Next]_vars => SilentSocketsCarryNone'
<1> SUFFICES ASSUME IInv, [Next]_vars PROVE SilentSocketsCarryNone'
  OBVIOUS
<1>0. TypeOK /\ RegistryConsistent /\ SilentSocketsCarryNone
  BY DEF IInv
<1>1. ASSUME NEW c \in Conns, SocketCloses(c) PROVE SilentSocketsCarryNone'
  <2>1. executors'[c] = Nobody /\ \A d \in Conns \ {c} : executors'[d] = executors[d]
    BY <1>0, <1>1 DEF SocketCloses, ExecutorCloses, brokerVars, TypeOK
  <2>2. \A d \in Conns \ {c} : socket'[d] = socket[d]
    BY <1>0, <1>1 DEF SocketCloses, TypeOK
  <2> QED
    BY <1>0, <2>1, <2>2 DEF SilentSocketsCarryNone
<1>2. ASSUME NEW c \in Conns, NEW r \in Reqs, HelloExtension(c, r) PROVE SilentSocketsCarryNone'
  <2> DEFINE b == socket[c].by
             prior == executorById[b]
  <2>1. socket[c] \in Sockets
    BY <1>0, <1>2 DEF HelloExtension, TypeOK
  <2>2. socket'[c].greeted
    <3>1. socket'[c] = [socket[c] EXCEPT !.greeted = TRUE]
      BY <1>2 DEF HelloExtension
    <3> QED
      BY <2>1, <3>1 DEF Sockets
  <2>3. executors' = Register(c, b)
    BY <1>2 DEF HelloExtension
  <2>4. ASSUME NEW d \in Conns, d # c, ~socket'[d].greeted PROVE executors'[d] = Nobody
    <3>1. CASE d = prior
      BY <2>3, <2>4, <3>1 DEF Register
    <3>2. CASE d # prior
      <4>1. socket'[d] = socket[d]
        BY <1>2, <2>4, <3>2 DEF HelloExtension
      <4> QED
        BY <1>0, <2>3, <2>4, <3>2, <4>1 DEF Register, SilentSocketsCarryNone
    <3> QED
      BY <3>1, <3>2
  <2> QED
    BY <2>2, <2>4 DEF SilentSocketsCarryNone
<1>3. ASSUME Stop PROVE SilentSocketsCarryNone'
  BY <1>3 DEF Stop, SilentSocketsCarryNone
<1>4. ASSUME NEW b \in Browsers, HangUp(b) PROVE SilentSocketsCarryNone'
  <2>1. ws[b] \in Conns
    BY <1>0, <1>4 DEF HangUp, TypeOK
  <2>2. socket' = [socket EXCEPT ![ws[b]] = [socket[ws[b]] EXCEPT !.alive = FALSE]]
    BY <1>4 DEF HangUp
  <2>3. \A s \in Sockets : [s EXCEPT !.alive = FALSE].greeted = s.greeted
    BY DEF Sockets
  <2>4. [NoSocket EXCEPT !.alive = FALSE].greeted = NoSocket.greeted
    BY DEF NoSocket
  <2>5. \A d \in Conns : socket'[d].greeted = socket[d].greeted
    BY <1>0, <2>1, <2>2, <2>3, <2>4 DEF TypeOK
  <2> QED
    BY <1>0, <1>4, <2>5 DEF HangUp, brokerVars, SilentSocketsCarryNone
<1>5. ASSUME NEW b \in Browsers, NEW c \in Conns, Dial(b, c) PROVE SilentSocketsCarryNone'
  <2>1. executors[c] = Nobody
    BY <1>0, <1>5 DEF Dial, NoSocket, SilentSocketsCarryNone
  <2>2. \A d \in Conns \ {c} : socket'[d] = socket[d]
    BY <1>0, <1>5 DEF Dial, TypeOK
  <2> QED
    BY <1>0, <1>5, <2>1, <2>2 DEF Dial, brokerVars, SilentSocketsCarryNone
<1>6. CASE UNCHANGED <<executors, socket>>
  BY <1>0, <1>6 DEF SilentSocketsCarryNone
<1>7. ASSUME NEW r \in Reqs, HandleResult(r) \/ Abandon(r) \/ Accept(r) \/ Finish(r)
      PROVE  UNCHANGED <<executors, socket>>
  BY <1>7 DEF HandleResult, Abandon, Accept, Finish, brokerVars, browserVars
<1>8. ASSUME NEW a \in Agents,
             \/ HelloAgent(a) \/ AgentCloses(a) \/ Release(a)
             \/ \E r \in Reqs :
                  \/ GlobalCommand(a, r)
                  \/ \E g \in Groups, opens \in BOOLEAN : GroupCommand(a, r, opens, g)
      PROVE  UNCHANGED <<executors, socket>>
  BY <1>8 DEF HelloAgent, AgentCloses, Release, GlobalCommand, GroupCommand, browserVars
<1>9. ASSUME NEW b \in Browsers, \E g \in Groups : TabsClosed(b, g)
      PROVE  UNCHANGED <<executors, socket>>
  BY <1>9 DEF TabsClosed, brokerVars
<1>10. CASE UNCHANGED vars
  BY <1>6, <1>10 DEF vars, brokerVars, browserVars
<1> QED
  BY <1>1, <1>2, <1>3, <1>4, <1>5, <1>6, <1>7, <1>8, <1>9, <1>10 DEF Next

-----------------------------------------------------------------------------
(* What the steps that change commands and groups do to them.              *)

LEMMA ClosingFacts ==
  ASSUME IInv, NEW c \in Conns, ExecutorCloses(c)
  PROVE  /\ executors[c] \in Browsers /\ executorById[executors[c]] = c
         /\ executorById' = [executorById EXCEPT ![executors[c]] = Nobody]
         /\ Connected' = Connected \ {executors[c]}
         /\ groupOwner' = GroupsWithout(executors[c])
         /\ Clear(PendingAt(executors[c]))
         /\ Live' = Live
<1>1. executors[c] \in Browsers /\ executorById[executors[c]] = c
  BY DEF ExecutorCloses, IInv, TypeOK, RegistryConsistent
<1>2. executorById' = [executorById EXCEPT ![executors[c]] = Nobody]
  BY <1>1 DEF ExecutorCloses
<1>3. Connected' = Connected \ {executors[c]}
  BY <1>1, <1>2, NobodyIsNone DEF IInv, TypeOK, Connected
<1> QED
  BY <1>1, <1>2, <1>3 DEF ExecutorCloses, RejectGone, Live

LEMMA HelloFacts ==
  ASSUME IInv, NEW c \in Conns, NEW r \in Reqs, HelloExtension(c, r)
  PROVE  /\ socket[c].by \in Browsers
         /\ executorById' = [executorById EXCEPT ![socket[c].by] = c]
         /\ Connected' = Connected \cup {socket[c].by}
         /\ Pending' = Pending \cup {r} /\ r \notin Pending
         /\ pending'[r].agentId = BrokerItself
         /\ pending'[r].executorId = socket[c].by
         /\ pending'[r].group = Nobody
         /\ wire'[r].over = c
         /\ \A q \in Pending : pending'[q] = pending[q] /\ wire'[q] = wire[q]
         /\ stranded' = stranded \cup PendingAt(socket[c].by)
         /\ Live' = Live /\ UNCHANGED <<groupOwner, released>>
<1> DEFINE b == socket[c].by
<1>1. b \in Browsers
  BY DEF HelloExtension, IInv, TypeOK, Sockets
<1>2. executorById' = [executorById EXCEPT ![b] = c]
  BY DEF HelloExtension
<1>3. Connected' = Connected \cup {b}
  BY <1>1, <1>2, NobodyIsNone DEF IInv, TypeOK, Connected
<1>4. SendToExecutor(r, BrokerItself, b, c, "rebuild", Nobody)
  BY DEF HelloExtension
<1>5. /\ Pending' = Pending \cup {r} /\ r \notin Pending
      /\ pending'[r] = [agentId |-> BrokerItself, executorId |-> b, action |-> "rebuild",
                        group |-> Nobody]
      /\ wire'[r].over = c
      /\ \A q \in Pending : pending'[q] = pending[q] /\ wire'[q] = wire[q]
  BY <1>1, <1>4, SendFacts DEF IInv, Actions
<1> QED
  BY <1>1, <1>2, <1>3, <1>5 DEF HelloExtension, Live

LEMMA ResultFacts ==
  ASSUME IInv, NEW r \in Reqs, HandleResult(r)
  PROVE  /\ \/ r \in Pending /\ Clear({r})
            \/ ~Settles(r) /\ UNCHANGED <<pending, released, stranded>>
         /\ \A g \in Groups : groupOwner[g] # NoOwner => groupOwner'[g] = groupOwner[g]
         /\ \A g \in Groups : groupOwner[g] = NoOwner =>
              \/ groupOwner'[g] = NoOwner
              \/ groupOwner'[g].executorId \in Connected /\ groupOwner'[g].agentId = Nobody
         /\ Connected' = Connected /\ Live' = Live
<1>1. r \in Pending /\ Settles(r) => pending[r].executorId \in Connected
  BY DEF IInv, PendingIsCurrent
<1>2. CASE Settles(r)
  <2>1. r \in Pending
    BY <1>2 DEF Settles
  <2>2. \/ groupOwner' = Rebuilt(pending[r].executorId, wire[r].saw)
        \/ groupOwner' = groupOwner
    BY <1>2 DEF HandleResult
  <2> QED
    BY <1>1, <1>2, <2>1, <2>2 DEF HandleResult, Rebuilt, Connected, Live
<1>3. CASE ~Settles(r)
  BY <1>3 DEF HandleResult, Connected, Live
<1> QED
  BY <1>2, <1>3

LEMMA GlobalFacts ==
  ASSUME IInv, NEW a \in Agents, NEW r \in Reqs, GlobalCommand(a, r)
  PROVE  /\ Pending' = Pending \cup {r} /\ r \notin Pending
         /\ pending'[r].agentId \in Live \cup {BrokerItself}
         /\ pending'[r].executorId \in Connected
         /\ pending'[r].group = Nobody
         /\ wire'[r].over = executorById[pending'[r].executorId]
         /\ \A q \in Pending : pending'[q] = pending[q] /\ wire'[q] = wire[q]
<1>1. PICK b \in Connected :
        \/ SendToExecutor(r, a, b, executorById[b], "cookies", Nobody)
        \/ SendToExecutor(r, BrokerItself, b, executorById[b], "tabs", Nobody)
  BY DEF GlobalCommand, PickExecutor
<1>2. a \in Live /\ b \in Browsers /\ executorById[b] \in Conns
  BY DEF GlobalCommand, Connected, IInv, TypeOK
<1>3. /\ Pending' = Pending \cup {r} /\ r \notin Pending
      /\ \/ pending'[r] = [agentId |-> a, executorId |-> b, action |-> "cookies",
                           group |-> Nobody]
         \/ pending'[r] = [agentId |-> BrokerItself, executorId |-> b, action |-> "tabs",
                           group |-> Nobody]
      /\ wire'[r].over = executorById[b]
      /\ \A q \in Pending : pending'[q] = pending[q] /\ wire'[q] = wire[q]
  <2>1. CASE SendToExecutor(r, a, b, executorById[b], "cookies", Nobody)
    BY <1>2, <2>1, SendFacts DEF IInv, Actions
  <2>2. CASE SendToExecutor(r, BrokerItself, b, executorById[b], "tabs", Nobody)
    BY <1>2, <2>2, SendFacts DEF IInv, Actions
  <2> QED
    BY <1>1, <2>1, <2>2
<1> QED
  BY <1>2, <1>3

\* Agent a's command r for group g, at browser b, either claims the group only,
\* or is pending as its claim says.
Outcome(a, r, g, b) ==
  /\ a \in Live /\ MayDrive(a, g)
  /\ groupOwner[g] # NoOwner => b = groupOwner[g].executorId
  /\ groupOwner'[g] = [executorId |-> b, agentId |-> a]
  /\ \A h \in Groups \ {g} : groupOwner'[h] = groupOwner[h]
  /\ \/ UNCHANGED <<pending, wire>>
     \/ /\ Pending' = Pending \cup {r} /\ r \notin Pending
        /\ pending'[r] = [agentId |-> a, executorId |-> b, action |-> "group", group |-> g]
        /\ wire'[r].over = executorById[b]
        /\ \A q \in Pending : pending'[q] = pending[q] /\ wire'[q] = wire[q]

LEMMA GroupFacts ==
  ASSUME IInv, NEW a \in Agents, NEW r \in Reqs, NEW g \in Groups, NEW opens \in BOOLEAN,
         GroupCommand(a, r, opens, g)
  PROVE  \E b \in Connected : Outcome(a, r, g, b)
<1>1. PICK b \in Browsers :
        /\ ResolvesTo(b, opens, g)
        /\ groupOwner' = Claimed(a, b, g)
        /\ \/ b \in Connected /\ SendToExecutor(r, a, b, executorById[b], "group", g)
           \/ UNCHANGED <<pending, wire>>
  BY DEF GroupCommand
<1>2. b \in Connected /\ (groupOwner[g] # NoOwner => b = groupOwner[g].executorId)
  BY <1>1 DEF ResolvesTo, PickExecutor, IInv, OwnershipIsCurrent
<1>3. executorById[b] \in Conns
  BY <1>2 DEF Connected, IInv, TypeOK
<1>4. /\ groupOwner'[g] = [executorId |-> b, agentId |-> a]
      /\ \A h \in Groups \ {g} : groupOwner'[h] = groupOwner[h]
  BY <1>1 DEF Claimed, IInv, TypeOK
<1>5. ASSUME SendToExecutor(r, a, b, executorById[b], "group", g)
      PROVE  /\ Pending' = Pending \cup {r} /\ r \notin Pending
             /\ pending'[r] = [agentId |-> a, executorId |-> b, action |-> "group", group |-> g]
             /\ wire'[r].over = executorById[b]
             /\ \A q \in Pending : pending'[q] = pending[q] /\ wire'[q] = wire[q]
  BY <1>3, <1>5, SendFacts DEF IInv, Actions
<1>6. a \in Live /\ MayDrive(a, g)
  BY DEF GroupCommand
<1> QED
  BY <1>1, <1>2, <1>4, <1>5, <1>6 DEF Outcome

-----------------------------------------------------------------------------
(* Pending commands are current.                                           *)

\* The steps that touch neither the broker's commands nor its groups.
Quiet == \/ \E r \in Reqs : Accept(r) \/ Finish(r)
         \/ \E b \in Browsers : \/ HangUp(b)
                                \/ \E c \in Conns : Dial(b, c)
                                \/ \E g \in Groups : TabsClosed(b, g)
         \/ UNCHANGED vars

LEMMA QuietFrame == Quiet => UNCHANGED brokerVars
  BY DEF Quiet, Accept, Finish, HangUp, Dial, TabsClosed, vars

LEMMA CurrentStep == IInv /\ [Next]_vars => PendingIsCurrent'
<1> SUFFICES ASSUME IInv, [Next]_vars PROVE PendingIsCurrent'
  OBVIOUS
<1>0. TypeOK /\ PendingIsCurrent
  BY DEF IInv
<1>1. ASSUME NEW c \in Conns, SocketCloses(c) PROVE PendingIsCurrent'
  <2>1. CASE ExecutorCloses(c)
    <3>1. /\ Connected' = Connected \ {executors[c]} /\ Live' = Live
          /\ Clear(PendingAt(executors[c]))
      BY <2>1, ClosingFacts
    <3>2. /\ Pending' = Pending \ PendingAt(executors[c])
          /\ \A q \in Pending' : pending'[q] = pending[q]
      BY <1>0, <3>1, ClearFacts
    <3> QED
      BY <1>0, <3>1, <3>2 DEF PendingIsCurrent, PendingAt
  <2>2. CASE UNCHANGED brokerVars
    BY <1>0, <2>2 DEF brokerVars, PendingIsCurrent, Pending, Connected, Live
  <2> QED
    BY <1>1, <2>1, <2>2 DEF SocketCloses
<1>2. ASSUME NEW c \in Conns, NEW r \in Reqs, HelloExtension(c, r) PROVE PendingIsCurrent'
  BY <1>0, <1>2, HelloFacts DEF PendingIsCurrent
<1>3. ASSUME NEW r \in Reqs, HandleResult(r) PROVE PendingIsCurrent'
  <2>1. Pending' \subseteq Pending /\ \A q \in Pending' : pending'[q] = pending[q]
    BY <1>0, <1>3, ResultFacts, ClearFacts DEF Pending
  <2> QED
    BY <1>0, <1>3, <2>1, ResultFacts DEF PendingIsCurrent
<1>4. ASSUME NEW r \in Reqs, Abandon(r) PROVE PendingIsCurrent'
  BY <1>0, <1>4, ClearFacts DEF Abandon, PendingIsCurrent, Connected, Live
<1>5. ASSUME NEW a \in Agents, HelloAgent(a) PROVE PendingIsCurrent'
  BY <1>0, <1>5 DEF HelloAgent, PendingIsCurrent, Pending, Connected, Live
<1>6. ASSUME NEW a \in Agents, AgentCloses(a) PROVE PendingIsCurrent'
  <2>1. Pending' = Pending \ Sent(a) /\ \A q \in Pending' : pending'[q] = pending[q]
    BY <1>0, <1>6, ClearFacts DEF AgentCloses
  <2>2. Connected' = Connected /\ Live \ {a} \subseteq Live'
    BY <1>6 DEF AgentCloses, Connected, Live
  <2> QED
    BY <1>0, <2>1, <2>2 DEF PendingIsCurrent, Sent
<1>7. ASSUME NEW a \in Agents, Release(a) PROVE PendingIsCurrent'
  BY <1>0, <1>7 DEF Release, PendingIsCurrent, Pending, Connected, Live
<1>8. ASSUME NEW a \in Agents, NEW r \in Reqs, GlobalCommand(a, r) PROVE PendingIsCurrent'
  <2>1. Connected' = Connected /\ Live' = Live
    BY <1>8 DEF GlobalCommand, Connected, Live
  <2> QED
    BY <1>0, <1>8, <2>1, GlobalFacts DEF PendingIsCurrent
<1>9. ASSUME NEW a \in Agents, NEW r \in Reqs, NEW g \in Groups, NEW opens \in BOOLEAN,
             GroupCommand(a, r, opens, g)
      PROVE  PendingIsCurrent'
  <2>1. Connected' = Connected /\ Live' = Live
    BY <1>9 DEF GroupCommand, Connected, Live
  <2>2. CASE UNCHANGED <<pending, wire>>
    BY <1>0, <2>1, <2>2 DEF PendingIsCurrent, Pending
  <2>3. PICK b \in Connected : Outcome(a, r, g, b)
    BY <1>9, GroupFacts
  <2> QED
    BY <1>0, <2>1, <2>2, <2>3 DEF PendingIsCurrent, Outcome
<1>10. ASSUME Stop PROVE PendingIsCurrent'
  BY <1>0, <1>10, ClearFacts DEF Stop, PendingIsCurrent, Pending
<1>11. CASE Quiet
  BY <1>0, <1>11, QuietFrame DEF brokerVars, PendingIsCurrent, Pending, Connected, Live
<1> QED
  BY <1>1, <1>2, <1>3, <1>4, <1>5, <1>6, <1>7, <1>8, <1>9, <1>10, <1>11 DEF Next, Quiet

-----------------------------------------------------------------------------
(* Groups lead to connected browsers and agents that are there.            *)

LEMMA OwnershipStep == IInv /\ [Next]_vars => OwnershipIsCurrent'
<1> SUFFICES ASSUME IInv, [Next]_vars PROVE OwnershipIsCurrent'
  OBVIOUS
<1>0. TypeOK /\ OwnershipIsCurrent
  BY DEF IInv
<1>1. ASSUME NEW c \in Conns, SocketCloses(c) PROVE OwnershipIsCurrent'
  <2>1. CASE ExecutorCloses(c)
    BY <1>0, <2>1, ClosingFacts DEF OwnershipIsCurrent, GroupsWithout
  <2>2. CASE UNCHANGED brokerVars
    BY <1>0, <2>2 DEF brokerVars, OwnershipIsCurrent, Connected, Live
  <2> QED
    BY <1>1, <2>1, <2>2 DEF SocketCloses
<1>2. ASSUME NEW c \in Conns, NEW r \in Reqs, HelloExtension(c, r) PROVE OwnershipIsCurrent'
  BY <1>0, <1>2, HelloFacts DEF OwnershipIsCurrent
<1>3. ASSUME NEW r \in Reqs, HandleResult(r) PROVE OwnershipIsCurrent'
  BY <1>0, <1>3, ResultFacts DEF OwnershipIsCurrent
<1>4. ASSUME NEW r \in Reqs, Abandon(r) PROVE OwnershipIsCurrent'
  BY <1>0, <1>4 DEF Abandon, OwnershipIsCurrent, Connected, Live
<1>5. ASSUME NEW a \in Agents, HelloAgent(a) PROVE OwnershipIsCurrent'
  BY <1>0, <1>5 DEF HelloAgent, OwnershipIsCurrent, Connected, Live
<1>6. ASSUME NEW a \in Agents, Orphaned(a) = groupOwner', Connected' = Connected,
             Live \ {a} \subseteq Live'
      PROVE  OwnershipIsCurrent'
  <2>1. \A o \in Owned : [o EXCEPT !.agentId = Nobody].executorId = o.executorId
                        /\ [o EXCEPT !.agentId = Nobody].agentId = Nobody
    BY DEF Owned
  <2>2. ASSUME NEW g \in Groups, groupOwner'[g] # NoOwner
        PROVE  /\ groupOwner'[g].executorId \in Connected
               /\ groupOwner'[g].agentId \in Live' \cup {Nobody}
    <3>1. groupOwner[g] # NoOwner /\ groupOwner[g] \in Owned
      BY <1>0, <1>6, <2>2, NobodyIsNone DEF Orphaned, NoOwner, TypeOK
    <3> QED
      BY <1>0, <1>6, <2>1, <3>1 DEF Orphaned, OwnershipIsCurrent
  <2> QED
    BY <1>6, <2>2 DEF OwnershipIsCurrent
<1>7. ASSUME NEW a \in Agents, AgentCloses(a) \/ Release(a) PROVE OwnershipIsCurrent'
  BY <1>6, <1>7 DEF AgentCloses, Release, Connected, Live
<1>8. ASSUME NEW a \in Agents, NEW r \in Reqs, GlobalCommand(a, r) PROVE OwnershipIsCurrent'
  BY <1>0, <1>8 DEF GlobalCommand, OwnershipIsCurrent, Connected, Live
<1>9. ASSUME NEW a \in Agents, NEW r \in Reqs, NEW g \in Groups, NEW opens \in BOOLEAN,
             GroupCommand(a, r, opens, g)
      PROVE  OwnershipIsCurrent'
  <2>1. Connected' = Connected /\ Live' = Live
    BY <1>9 DEF GroupCommand, Connected, Live
  <2>2. PICK b \in Connected : Outcome(a, r, g, b)
    BY <1>9, GroupFacts
  <2> QED
    BY <1>0, <2>1, <2>2 DEF OwnershipIsCurrent, Outcome
<1>10. ASSUME Stop PROVE OwnershipIsCurrent'
  BY <1>10 DEF Stop, OwnershipIsCurrent
<1>11. CASE Quiet
  BY <1>0, <1>11, QuietFrame DEF brokerVars, OwnershipIsCurrent, Connected, Live
<1> QED
  BY <1>1, <1>2, <1>3, <1>4, <1>5, <1>7, <1>8, <1>9, <1>10, <1>11 DEF Next, Quiet

-----------------------------------------------------------------------------
(* A command that is pending in a group pins its owner: whoever claims the *)
(* group is the owner himself, in the same browser.                        *)

LEMMA PinnedStep == IInv /\ [Next]_vars => PendingOwnsGroup'
<1> SUFFICES ASSUME IInv, [Next]_vars PROVE PendingOwnsGroup'
  OBVIOUS
<1>0. TypeOK /\ PendingOwnsGroup /\ PendingIsCurrent
  BY DEF IInv
<1>1. ASSUME NEW q \in Pending
      PROVE  /\ pending[q].agentId # Nobody /\ pending[q].executorId \in Browsers
             /\ pending[q].group \in Groups \cup {Nobody}
  BY <1>0, <1>1, NobodyIsNone DEF TypeOK, Pending, Commands
<1>2. ASSUME Pending' \subseteq Pending, Pending' \cap released \subseteq released',
             \A q \in Pending' : pending'[q] = pending[q],
             \A q \in Pending' \ released', g \in Groups :
               pending[q].group = g /\ groupOwner[g] = [executorId |-> pending[q].executorId,
                                                       agentId |-> pending[q].agentId]
               => groupOwner'[g] = groupOwner[g]
      PROVE  PendingOwnsGroup'
  BY <1>0, <1>1, <1>2 DEF PendingOwnsGroup
<1>3. ASSUME NEW STATE R, Clear(R)
      PROVE  /\ Pending' = Pending \ R /\ Pending' \cap released \subseteq released'
             /\ \A q \in Pending' : pending'[q] = pending[q]
  BY <1>0, <1>3, ClearFacts
<1>4. ASSUME NEW c \in Conns, SocketCloses(c) PROVE PendingOwnsGroup'
  <2>1. CASE ExecutorCloses(c)
    <3>1. Clear(PendingAt(executors[c])) /\ groupOwner' = GroupsWithout(executors[c])
      BY <2>1, ClosingFacts
    <3>2. Pending' = Pending \ PendingAt(executors[c])
      BY <1>3, <3>1
    <3>3. ASSUME NEW q \in Pending', NEW g \in Groups,
                 groupOwner[g].executorId = pending[q].executorId
          PROVE  groupOwner'[g] = groupOwner[g]
      BY <3>1, <3>2, <3>3 DEF PendingAt, GroupsWithout
    <3> QED
      BY <1>2, <1>3, <3>1, <3>2, <3>3
  <2>2. CASE UNCHANGED brokerVars
    BY <1>0, <2>2 DEF brokerVars, PendingOwnsGroup, Pending
  <2> QED
    BY <1>4, <2>1, <2>2 DEF SocketCloses
<1>5. ASSUME NEW c \in Conns, NEW r \in Reqs, HelloExtension(c, r) PROVE PendingOwnsGroup'
  BY <1>0, <1>5, HelloFacts DEF PendingOwnsGroup
<1>6. ASSUME NEW r \in Reqs, HandleResult(r) PROVE PendingOwnsGroup'
  <2>1. /\ Pending' \subseteq Pending /\ Pending' \cap released \subseteq released'
        /\ \A q \in Pending' : pending'[q] = pending[q]
    <3>1. CASE Clear({r})
      BY <1>3, <3>1
    <3>2. CASE UNCHANGED <<pending, released, stranded>>
      BY <3>2 DEF Pending
    <3> QED
      BY <1>6, <3>1, <3>2, ResultFacts
  <2>2. ASSUME NEW q \in Pending', NEW g \in Groups,
               groupOwner[g] = [executorId |-> pending[q].executorId,
                                agentId |-> pending[q].agentId]
        PROVE  groupOwner'[g] = groupOwner[g]
    <3>1. groupOwner[g] # NoOwner
      BY <1>1, <2>1, <2>2, NobodyIsNone DEF NoOwner
    <3> QED
      BY <1>6, <3>1, ResultFacts
  <2> QED
    BY <1>2, <2>1, <2>2
<1>7. ASSUME NEW r \in Reqs, Abandon(r) PROVE PendingOwnsGroup'
  BY <1>2, <1>3, <1>7 DEF Abandon
<1>8. ASSUME NEW a \in Agents, HelloAgent(a) PROVE PendingOwnsGroup'
  BY <1>0, <1>8 DEF HelloAgent, PendingOwnsGroup, Pending
<1>9. ASSUME NEW a \in Agents, AgentCloses(a) PROVE PendingOwnsGroup'
  <2>1. Clear(Sent(a)) /\ groupOwner' = Orphaned(a)
    BY <1>9 DEF AgentCloses
  <2>2. Pending' = Pending \ Sent(a)
    BY <1>3, <2>1
  <2>3. ASSUME NEW q \in Pending', NEW g \in Groups, groupOwner[g].agentId = pending[q].agentId
        PROVE  groupOwner'[g] = groupOwner[g]
    BY <2>1, <2>2, <2>3 DEF Sent, Orphaned
  <2> QED
    BY <1>2, <1>3, <2>1, <2>2, <2>3
<1>10. ASSUME NEW a \in Agents, Release(a) PROVE PendingOwnsGroup'
  <2>1. groupOwner' = Orphaned(a) /\ released' = released \cup Sent(a) /\ pending' = pending
    BY <1>10 DEF Release
  <2>2. Pending' = Pending
    BY <2>1 DEF Pending
  <2>3. ASSUME NEW q \in Pending \ released', NEW g \in Groups,
               groupOwner[g].agentId = pending[q].agentId
        PROVE  groupOwner'[g] = groupOwner[g]
    BY <2>1, <2>3 DEF Sent, Orphaned
  <2> QED
    BY <1>2, <2>1, <2>2, <2>3
<1>11. ASSUME NEW a \in Agents, NEW r \in Reqs, GlobalCommand(a, r) PROVE PendingOwnsGroup'
  <2>1. UNCHANGED <<groupOwner, released>>
    BY <1>11 DEF GlobalCommand
  <2> QED
    BY <1>0, <1>11, <2>1, GlobalFacts DEF PendingOwnsGroup
<1>12. ASSUME NEW a \in Agents, NEW r \in Reqs, NEW g \in Groups, NEW opens \in BOOLEAN,
              GroupCommand(a, r, opens, g)
       PROVE  PendingOwnsGroup'
  <2>1. released' = released
    BY <1>12 DEF GroupCommand
  <2>2. PICK b \in Connected : Outcome(a, r, g, b)
    BY <1>12, GroupFacts
  <2> USE DEF Outcome
  <2>3. ASSUME NEW q \in Pending \ released, NEW h \in Groups, pending[q].group = h
        PROVE  groupOwner'[h] = [executorId |-> pending[q].executorId,
                                 agentId |-> pending[q].agentId]
    <3>1. groupOwner[h] = [executorId |-> pending[q].executorId,
                           agentId |-> pending[q].agentId]
      BY <1>0, <2>3, NobodyIsNone DEF PendingOwnsGroup
    <3>2. CASE h = g
      <4>1. groupOwner[g] # NoOwner
        BY <1>1, <3>1, <3>2, NobodyIsNone DEF NoOwner
      <4>2. a = pending[q].agentId
        BY <1>1, <2>2, <3>1, <3>2 DEF MayDrive
      <4> QED
        BY <2>2, <3>1, <3>2, <4>1, <4>2
    <3>3. CASE h # g
      BY <2>2, <3>1, <3>3
    <3> QED
      BY <3>2, <3>3
  <2>4. CASE UNCHANGED <<pending, wire>>
    BY <1>1, <2>1, <2>3, <2>4 DEF PendingOwnsGroup, Pending
  <2>5. CASE ~UNCHANGED <<pending, wire>>
    <3>1. Pending' = Pending \cup {r}
      BY <2>2, <2>5
    <3>2. groupOwner'[pending'[r].group] = [executorId |-> pending'[r].executorId,
                                           agentId |-> pending'[r].agentId]
      BY <2>2, <2>5
    <3>3. ASSUME NEW q \in Pending \ released, pending'[q].group # Nobody
          PROVE  groupOwner'[pending'[q].group] = [executorId |-> pending'[q].executorId,
                                                  agentId |-> pending'[q].agentId]
      BY <1>1, <2>2, <2>3, <2>5, <3>3
    <3> QED
      BY <2>1, <3>1, <3>2, <3>3 DEF PendingOwnsGroup
  <2> QED
    BY <2>4, <2>5
<1>13. ASSUME Stop PROVE PendingOwnsGroup'
  <2>1. Pending' = {}
    BY <1>3, <1>13 DEF Stop, Pending
  <2> QED
    BY <2>1 DEF PendingOwnsGroup
<1>14. CASE Quiet
  BY <1>0, <1>14, QuietFrame DEF brokerVars, PendingOwnsGroup, Pending
<1> QED
  BY <1>4, <1>5, <1>6, <1>7, <1>8, <1>9, <1>10, <1>11, <1>12, <1>13, <1>14 DEF Next, Quiet

-----------------------------------------------------------------------------
(* Only the replacement of a live registration strands a command.          *)

LEMMA StrandedStep == IInv /\ [Next]_vars => StrandedOnlyByReplacement'
<1> SUFFICES ASSUME IInv, [Next]_vars PROVE StrandedOnlyByReplacement'
  OBVIOUS
<1>0. TypeOK /\ RegistryConsistent /\ StrandedOnlyByReplacement
  BY DEF IInv
\* The socket of a command that is not stranded carries its executor.
<1>1. ASSUME NEW q \in Pending \ stranded
      PROVE  /\ wire[q].over \in Conns
             /\ executors[wire[q].over] = pending[q].executorId
             /\ pending[q].executorId \in Browsers
  BY <1>0, <1>1 DEF StrandedOnlyByReplacement, OnItsSocket, Connected, TypeOK,
     RegistryConsistent
<1>2. ASSUME Pending' \subseteq Pending, Pending' \cap stranded \subseteq stranded',
             \A q \in Pending' : pending'[q] = pending[q],
             \A q \in Pending' \ stranded : /\ wire'[q].over = wire[q].over
                                           /\ executorById'[pending[q].executorId]
                                              = executorById[pending[q].executorId]
      PROVE  StrandedOnlyByReplacement'
  BY <1>0, <1>2 DEF StrandedOnlyByReplacement, OnItsSocket, Connected
<1>3. ASSUME NEW STATE R, Clear(R)
      PROVE  /\ Pending' = Pending \ R /\ Pending' \cap stranded \subseteq stranded'
             /\ \A q \in Pending' : pending'[q] = pending[q]
  BY <1>0, <1>3, ClearFacts
<1>4. ASSUME NEW c \in Conns, SocketCloses(c) PROVE StrandedOnlyByReplacement'
  <2>1. \A q \in Reqs : wire[q].over # c => wire'[q] = wire[q]
    BY <1>4 DEF SocketCloses
  <2>2. CASE ExecutorCloses(c)
    <3> DEFINE b == executors[c]
    <3>1. /\ executorById' = [executorById EXCEPT ![b] = Nobody]
          /\ Clear(PendingAt(b))
      BY <2>2, ClosingFacts
    <3>2. Pending' = Pending \ PendingAt(b)
      BY <1>3, <3>1
    <3>3. ASSUME NEW q \in Pending' \ stranded
          PROVE  /\ wire'[q] = wire[q]
                 /\ executorById'[pending[q].executorId] = executorById[pending[q].executorId]
      <4>1. q \in Pending \ stranded /\ q \in Reqs /\ pending[q].executorId # b
        BY <3>2, <3>3 DEF PendingAt, Pending
      <4> QED
        BY <1>0, <1>1, <2>1, <3>1, <4>1 DEF TypeOK
    <3> QED
      BY <1>2, <1>3, <3>1, <3>2, <3>3
  <2>3. CASE executors[c] = Nobody /\ UNCHANGED brokerVars
    <3>1. ASSUME NEW q \in Pending \ stranded PROVE wire'[q] = wire[q]
      BY <1>1, <2>1, <2>3, <3>1, NobodyIsNone DEF Pending
    <3> QED
      BY <1>2, <2>3, <3>1 DEF brokerVars, Pending
  <2> QED
    BY <1>4, <2>2, <2>3 DEF SocketCloses
<1>5. ASSUME NEW c \in Conns, NEW r \in Reqs, HelloExtension(c, r)
      PROVE  StrandedOnlyByReplacement'
  <2> DEFINE b == socket[c].by
  <2>1. executorById'[b] = c /\ b \in Connected'
    BY <1>0, <1>5, HelloFacts DEF TypeOK
  <2>2. OnItsSocket(r)'
    BY <1>5, <2>1, HelloFacts DEF OnItsSocket
  <2>3. ASSUME NEW q \in Pending \ stranded' PROVE OnItsSocket(q)'
    <3>1. pending[q].executorId # b /\ q \in Pending \ stranded
      BY <1>5, <2>3, HelloFacts DEF PendingAt
    <3>2. executorById'[pending[q].executorId] = executorById[pending[q].executorId]
      BY <1>0, <1>1, <1>5, <3>1, HelloFacts DEF TypeOK
    <3> QED
      BY <1>0, <1>5, <3>1, <3>2, HelloFacts DEF OnItsSocket, StrandedOnlyByReplacement
  <2> QED
    BY <1>5, <2>2, <2>3, HelloFacts DEF StrandedOnlyByReplacement
<1>6. ASSUME NEW r \in Reqs, HandleResult(r) PROVE StrandedOnlyByReplacement'
  <2>1. /\ wire' = [wire EXCEPT ![r] = Idle] /\ executorById' = executorById
    BY <1>6 DEF HandleResult
  <2>2. \A q \in Reqs \ {r} : wire'[q] = wire[q]
    BY <2>1
  <2>3. CASE r \in Pending /\ Clear({r})
    BY <1>2, <1>3, <2>1, <2>2, <2>3 DEF Pending
  <2>4. CASE ~Settles(r) /\ UNCHANGED <<pending, released, stranded>>
    <3>1. r \notin Pending \ stranded
      BY <1>1, <2>4, NobodyIsNone DEF Settles
    <3> QED
      BY <1>2, <2>1, <2>2, <2>4, <3>1 DEF Pending
  <2> QED
    BY <1>6, <2>3, <2>4, ResultFacts
<1>7. ASSUME NEW r \in Reqs, Abandon(r) PROVE StrandedOnlyByReplacement'
  BY <1>2, <1>3, <1>7 DEF Abandon
<1>8. ASSUME NEW r \in Reqs, Accept(r) \/ Finish(r) PROVE StrandedOnlyByReplacement'
  <2>1. UNCHANGED brokerVars /\ wire[r] \in Wires
    BY <1>0, <1>8 DEF Accept, Finish, TypeOK, Idle
  <2>2. \A q \in Reqs : wire'[q].over = wire[q].over
    <3>1. CASE Accept(r)
      <4>1. wire' = [wire EXCEPT ![r] = [wire[r] EXCEPT !.at = "running"]]
        BY <3>1 DEF Accept
      <4> QED
        BY <1>0, <2>1, <4>1 DEF TypeOK, Wires
    <3>2. CASE Finish(r)
      <4>1. PICK seen :
              wire' = [wire EXCEPT ![r] =
                         IF wire[r].over = Nobody THEN Idle
                         ELSE IF ~socket[wire[r].over].alive THEN [wire[r] EXCEPT !.at = "lost"]
                         ELSE [wire[r] EXCEPT !.at = "replied", !.saw = seen]]
        BY <3>2 DEF Finish
      <4>2. Idle.over = Nobody
        BY DEF Idle
      <4>3. \A q \in Reqs \ {r} : wire'[q] = wire[q]
        BY <4>1
      <4>4. [wire[r] EXCEPT !.at = "lost"].over = wire[r].over
            /\ [wire[r] EXCEPT !.at = "replied", !.saw = seen].over = wire[r].over
        BY <2>1 DEF Wires
      <4> QED
        BY <1>0, <4>1, <4>2, <4>3, <4>4 DEF TypeOK
    <3> QED
      BY <1>8, <3>1, <3>2
  <2> QED
    BY <1>2, <2>1, <2>2 DEF brokerVars, Pending
<1>9. ASSUME NEW a \in Agents, HelloAgent(a) \/ Release(a) PROVE StrandedOnlyByReplacement'
  BY <1>2, <1>9 DEF HelloAgent, Release, Pending
<1>10. ASSUME NEW a \in Agents, AgentCloses(a) PROVE StrandedOnlyByReplacement'
  BY <1>2, <1>3, <1>10 DEF AgentCloses
<1>11. ASSUME NEW a \in Agents, NEW r \in Reqs, GlobalCommand(a, r)
       PROVE  StrandedOnlyByReplacement'
  <2>1. UNCHANGED <<executorById, stranded>> /\ Connected' = Connected
    BY <1>11 DEF GlobalCommand, Connected
  <2> QED
    BY <1>0, <1>11, <2>1, GlobalFacts DEF StrandedOnlyByReplacement, OnItsSocket
<1>12. ASSUME NEW a \in Agents, NEW r \in Reqs, NEW g \in Groups, NEW opens \in BOOLEAN,
              GroupCommand(a, r, opens, g)
       PROVE  StrandedOnlyByReplacement'
  <2>1. UNCHANGED <<executorById, stranded>> /\ Connected' = Connected
    BY <1>12 DEF GroupCommand, Connected
  <2>2. PICK b \in Connected : Outcome(a, r, g, b)
    BY <1>12, GroupFacts
  <2>3. CASE UNCHANGED <<pending, wire>>
    BY <1>0, <2>1, <2>3 DEF StrandedOnlyByReplacement, OnItsSocket, Pending
  <2>4. CASE ~UNCHANGED <<pending, wire>>
    BY <1>0, <2>1, <2>2, <2>4 DEF StrandedOnlyByReplacement, OnItsSocket, Outcome
  <2> QED
    BY <2>3, <2>4
<1>13. ASSUME Stop PROVE StrandedOnlyByReplacement'
  <2>1. Pending' = {}
    BY <1>3, <1>13 DEF Stop, Pending
  <2> QED
    BY <2>1 DEF StrandedOnlyByReplacement
<1>14. ASSUME NEW b \in Browsers,
              \/ HangUp(b)
              \/ \E c \in Conns : Dial(b, c)
              \/ \E g \in Groups : TabsClosed(b, g)
       PROVE  StrandedOnlyByReplacement'
  BY <1>2, <1>14 DEF HangUp, Dial, TabsClosed, brokerVars, Pending
<1>15. CASE UNCHANGED vars
  BY <1>2, <1>15 DEF vars, brokerVars, Pending
<1> QED
  BY <1>4, <1>5, <1>6, <1>7, <1>8, <1>9, <1>10, <1>11, <1>12, <1>13, <1>14, <1>15 DEF Next

-----------------------------------------------------------------------------
(* The theorems.                                                           *)

LEMMA IInvInit == Init => IInv
<1> SUFFICES ASSUME Init PROVE IInv
  OBVIOUS
<1>1. Pending = {} /\ Connected = {}
  BY DEF Init, Pending, Connected
<1>2. TypeOK
  BY <1>1 DEF Init, TypeOK
<1>3. RegistryConsistent
  BY <1>1, NobodyIsNone DEF Init, RegistryConsistent
<1> QED
  BY <1>1, <1>2, <1>3 DEF Init, IInv, SilentSocketsCarryNone, PendingIsCurrent,
     OwnershipIsCurrent, PendingOwnsGroup, StrandedOnlyByReplacement

LEMMA IInvStep == IInv /\ [Next]_vars => IInv'
  BY TypeStep, RegistryStep, SilentStep, CurrentStep, OwnershipStep, PinnedStep, StrandedStep
     DEF IInv

LEMMA Inductive == Spec => []IInv
  BY IInvInit, IInvStep, PTL DEF Spec

\* The maps of the broker, its sockets and frames keep their types
\* (broker.ts:111-129).
THEOREM TypeCorrect == Spec => []TypeOK
<1>1. IInv => TypeOK
  BY DEF IInv
<1> QED
  BY <1>1, Inductive, PTL

\* The two registries of executors agree and there is a primary whenever a
\* browser is connected, however reconnects and closes cross
\* (broker.ts:252-266, 329-356).
THEOREM RegistryStaysConsistent == Spec => []RegistryConsistent
<1>1. IInv => RegistryConsistent
  BY DEF IInv
<1> QED
  BY <1>1, Inductive, PTL

\* No group is left to an agent or a browser that has gone
\* (broker.ts:336-374, 681-700).
THEOREM OwnershipStaysCurrent == Spec => []OwnershipIsCurrent
<1>1. IInv => OwnershipIsCurrent
  BY DEF IInv
<1> QED
  BY <1>1, Inductive, PTL

\* Two agents never drive one group at a time: a command in flight pins the owner
\* of its group (broker.ts:413-449, 573-591).
THEOREM CommandsPinTheirGroup == Spec => []PendingOwnsGroup
<1>1. IInv => PendingOwnsGroup
  BY DEF IInv
<1> QED
  BY <1>1, Inductive, PTL

\* But for the replacement of a live registration, a pending command always has
\* a socket that settles it (broker.ts:257-266, 345-349).
THEOREM NothingElseStrands == Spec => []StrandedOnlyByReplacement
<1>1. IInv => StrandedOnlyByReplacement
  BY DEF IInv
<1> QED
  BY <1>1, Inductive, PTL

LEMMA OwnerKeepsGroup ==
  ASSUME IInv, [Next]_vars, NEW g \in Groups, groupOwner[g].agentId # Nobody
  PROVE  groupOwner'[g].agentId \in {groupOwner[g].agentId, Nobody}
<1>0. groupOwner[g] \in Owned /\ groupOwner[g] # NoOwner
  BY DEF IInv, TypeOK, NoOwner
<1>1. ASSUME NEW c \in Conns, SocketCloses(c)
      PROVE  groupOwner'[g].agentId \in {groupOwner[g].agentId, Nobody}
  BY <1>1, ClosingFacts DEF SocketCloses, brokerVars, GroupsWithout, NoOwner
<1>2. ASSUME NEW r \in Reqs, HandleResult(r)
      PROVE  groupOwner'[g] = groupOwner[g]
  BY <1>0, <1>2, ResultFacts
<1>3. ASSUME NEW a \in Agents, AgentCloses(a) \/ Release(a)
      PROVE  groupOwner'[g].agentId \in {groupOwner[g].agentId, Nobody}
  <2>1. [groupOwner[g] EXCEPT !.agentId = Nobody].agentId = Nobody
    BY <1>0 DEF Owned
  <2>2. groupOwner' = Orphaned(a)
    BY <1>3 DEF AgentCloses, Release
  <2> QED
    BY <2>1, <2>2 DEF Orphaned
<1>4. ASSUME NEW a \in Agents, NEW r \in Reqs, NEW h \in Groups, NEW opens \in BOOLEAN,
             GroupCommand(a, r, opens, h)
      PROVE  groupOwner'[g].agentId = groupOwner[g].agentId
  <2>1. PICK b \in Connected : Outcome(a, r, h, b)
    BY <1>4, GroupFacts
  <2> QED
    BY <2>1 DEF Outcome, MayDrive
<1>5. ASSUME Stop PROVE groupOwner'[g].agentId = Nobody
  BY <1>5 DEF Stop, NoOwner
<1>6. ASSUME NEW c \in Conns, NEW r \in Reqs, HelloExtension(c, r)
      PROVE  groupOwner' = groupOwner
  BY <1>6 DEF HelloExtension
<1>7. ASSUME NEW r \in Reqs, Abandon(r) PROVE groupOwner' = groupOwner
  BY <1>7 DEF Abandon
<1>8. ASSUME NEW a \in Agents, HelloAgent(a) \/ \E r \in Reqs : GlobalCommand(a, r)
      PROVE  groupOwner' = groupOwner
  BY <1>8 DEF HelloAgent, GlobalCommand
<1>9. CASE Quiet
  BY <1>9, QuietFrame DEF brokerVars
<1> QED
  BY <1>1, <1>2, <1>3, <1>4, <1>5, <1>6, <1>7, <1>8, <1>9 DEF Next, Quiet

\* A group never passes from an agent straight to another (broker.ts:413-449).
THEOREM NobodyTakesOver == Spec => NoTakeover
<1>1. IInv /\ [Next]_vars =>
        [\A g \in Groups : groupOwner[g].agentId # Nobody =>
           groupOwner'[g].agentId \in {groupOwner[g].agentId, Nobody}]_vars
  BY OwnerKeepsGroup
<1> QED
  BY <1>1, Inductive, PTL DEF Spec, NoTakeover
=============================================================================
