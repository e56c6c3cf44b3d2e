------------------------- MODULE SyslogInputProofs -------------------------
(***************************************************************************)
(* The listeners, for any number of sources, connections and slots: the    *)
(* semaphore counts the served connections, Close reaches every open one,  *)
(* and nothing is left when it returns.                                    *)
(***************************************************************************)
EXTENDS SyslogInput, FiniteSetTheorems, TLAPS

Carrying == {"admit", "track", "spawn"}

\* An accept loop between Accept and the go statement holds an open connection
\* of its own, without a handler, tracked from trackConnection on.
HandInv ==
    \A s \in Sources :
        /\ socket[s] = "none" => loop[s] = "none"
        /\ loop[s] \in Carrying <=> hand[s] \in Conns
        /\ hand[s] \in Conns =>
             /\ s \in TCP
             /\ owner[hand[s]] = s
             /\ handler[hand[s]] = "none"
             /\ conn[hand[s]] = "open"
             /\ hand[s] \in conns <=> loop[s] = "spawn"

\* The phases of a connection, its handler and its place in the map agree.
ConnInv ==
    \A c \in Conns :
        /\ conn[c] = "none" => handler[c] = "none"
        /\ handler[c] # "none" => owner[c] \in TCP
        /\ handler[c] \in {"closed", "untracked", "released", "done"} => conn[c] = "closed"
        /\ handler[c] \in {"read", "submit", "closed"} => c \in conns
        /\ conn[c] = "open" /\ handler[c] = "none" => \E s \in TCP : hand[s] = c
        /\ c \in conns => \/ handler[c] \in {"read", "submit", "closed"}
                          \/ handler[c] = "none" /\ \E s \in TCP : hand[s] = c

\* Once Close copies the connections every loop has ended for good, and when it
\* returns so has every handler.
MainInv ==
    /\ main \in {"closingConns", "returned"} =>
         LoopsDone /\ \A s \in Sources : socket[s] # "open"
    /\ main = "returned" => HandlersDone

Inv == TypeOK /\ HandInv /\ ConnInv /\ MainInv /\ SlotsMatchConnections

\* The set of holders is finite, so that its cardinality is a number.
LEMMA HoldersFinite ==
  ASSUME NEW S \in SUBSET Conns
  PROVE  IsFiniteSet(S) /\ Cardinality(S) \in Nat
  BY FS_Subset, FS_CardinalityType, ManagerAssumption

\* Initially nothing is open and no slot is taken.
LEMMA InitInv == Init => Inv
  <1> SUFFICES ASSUME Init PROVE Inv
    OBVIOUS
  <1>1. TypeOK
    <2>1. 0 \in 0..MaxConnections /\ 0 \in 0..MaxBuffered
      BY ManagerAssumption
    <2>2. sem \in [TCP -> 0..MaxConnections] /\ buffered \in [Conns -> 0..MaxBuffered]
      BY <2>1 DEF Init
    <2> QED
      BY Zenon, <2>2 DEF Init, TypeOK
  <1>2. HandInv /\ ConnInv /\ MainInv
    BY ManagerAssumption DEF Init, HandInv, ConnInv, MainInv, Carrying
  <1>3. ASSUME NEW s \in TCP PROVE sem[s] = Cardinality(Holders(s))
    <2>1. Holders(s) = {}
      BY DEF Init, Holders, Sources
    <2> QED
      BY <2>1, FS_EmptySet DEF Init
  <1> QED
    BY <1>1, <1>2, <1>3 DEF Inv, SlotsMatchConnections

\* The steps of Start and Close keep the control invariants.
LEMMA MainControl ==
  ASSUME Inv, Main
  PROVE  HandInv' /\ ConnInv' /\ MainInv'
  <1> USE DEF Inv, TypeOK, HandInv, ConnInv, MainInv, mainVars, loopVars, connVars
  <1>1. ASSUME NEW s \in Sources, StartSource(s) PROVE HandInv' /\ ConnInv' /\ MainInv'
    <2>1. /\ socket' = [socket EXCEPT ![s] = "open"]
          /\ loop' = [loop EXCEPT ![s] = "receive"] /\ loop[s] \notin Carrying
          /\ UNCHANGED <<hand, main, conn, owner, handler, conns>> /\ main = "starting"
      BY <1>1 DEF StartSource, Carrying
    <2>2. HandInv'
      BY <2>1 DEF Carrying
    <2> QED
      BY <2>1, <2>2
  <1>2. ASSUME NEW s \in Sources, CloseSource(s) PROVE HandInv' /\ ConnInv' /\ MainInv'
    BY <1>2 DEF CloseSource, LoopsDone, HandlersDone
  <1>3. CASE Started \/ StartFails \/ Shutdown
    BY <1>3 DEF Started, StartFails, Shutdown
  <1>4. CASE CopyConnections
    BY <1>4 DEF CopyConnections, LoopsDone
  <1>5. CASE CloseReturn
    BY <1>5 DEF CloseReturn, LoopsDone, HandlersDone
  <1>6. ASSUME NEW c \in Conns, CloseConnection(c) PROVE HandInv' /\ ConnInv' /\ MainInv'
    <2>1. \A s \in Sources : hand[s] \notin Conns
      BY <1>6 DEF CloseConnection, LoopsDone, Carrying
    <2> QED
      BY <1>6, <2>1 DEF CloseConnection, LoopsDone, HandlersDone
  <1> QED
    BY Zenon, <1>1, <1>2, <1>3, <1>4, <1>5, <1>6 DEF Main

\* So do those of the receive and accept loops.
LEMMA LoopControl ==
  ASSUME Inv, NEW s \in Sources, (s \in UDP /\ UDPLoop(s)) \/ (s \in TCP /\ TCPLoop(s))
  PROVE  HandInv' /\ ConnInv' /\ MainInv'
  <1> USE DEF Inv, TypeOK, HandInv, ConnInv, MainInv, mainVars, loopVars, connVars, Goto
  <1>0. main \notin {"closingConns", "returned"}
    BY Zenon DEF UDPLoop, TCPLoop, UDPReceives, UDPSubmitted, LoopEnds, Accept, AcquireSlot,
       RefuseConnection, trackConnection, Spawn, LoopsDone
  <1>1. CASE UDPReceives(s) \/ UDPSubmitted(s) \/ LoopEnds(s)
    BY <1>0, <1>1 DEF UDPReceives, UDPSubmitted, LoopEnds, Carrying
  <1>2. ASSUME NEW c \in Conns, s \in TCP, Accept(s, c)
        PROVE  HandInv' /\ ConnInv' /\ MainInv'
    <2>1. \A r \in Sources : hand[r] # c
      BY <1>2 DEF Accept
    <2>2. c \notin conns /\ handler[c] = "none"
      BY <1>2, <2>1 DEF Accept, Sources
    <2>3. HandInv'
      BY <1>2, <2>1, <2>2 DEF Accept, Carrying
    <2>4. ConnInv'
      BY <1>2, <2>1, <2>2 DEF Accept, Carrying, Sources
    <2> QED
      BY Zenon, <1>0, <1>2, <2>3, <2>4 DEF Accept
  <1>3. CASE AcquireSlot(s)
    BY <1>0, <1>3 DEF AcquireSlot, Carrying
  <1>4. ASSUME s \in TCP, RefuseConnection(s) PROVE HandInv' /\ ConnInv' /\ MainInv'
    <2>1. hand[s] \in Conns /\ \A r \in Sources : hand[r] = hand[s] => r = s
      BY <1>4 DEF RefuseConnection, Carrying
    <2>2. hand[s] \notin conns /\ handler[hand[s]] = "none"
      BY <1>4, <2>1 DEF RefuseConnection
    <2>3. HandInv'
      BY <1>4, <2>1, <2>2, ManagerAssumption DEF RefuseConnection, Carrying
    <2>4. ConnInv'
      BY <1>4, <2>1, <2>2 DEF RefuseConnection, Sources
    <2> QED
      BY <1>0, <1>4, <2>3, <2>4 DEF RefuseConnection
  <1>5. ASSUME s \in TCP, trackConnection(s) PROVE HandInv' /\ ConnInv' /\ MainInv'
    <2>1. hand[s] \in Conns /\ \A r \in Sources : hand[r] = hand[s] => r = s
      BY <1>5 DEF trackConnection, Carrying
    <2>3. HandInv'
      BY SMTT(30), <1>5, <2>1 DEF trackConnection, Carrying
    <2>4. ConnInv'
      BY <1>5, <2>1 DEF trackConnection, Sources
    <2> QED
      BY Zenon, <1>0, <1>5, <2>3, <2>4 DEF trackConnection
  <1>6. ASSUME s \in TCP, Spawn(s) PROVE HandInv' /\ ConnInv' /\ MainInv'
    <2>1. hand[s] \in Conns /\ \A r \in Sources : hand[r] = hand[s] => r = s
      BY <1>6 DEF Spawn, Carrying
    <2>2. hand[s] \in conns /\ conn[hand[s]] = "open" /\ owner[hand[s]] \in TCP
      BY <1>6, <2>1 DEF Spawn
    <2>3. HandInv'
      BY <1>6, <2>1, ManagerAssumption DEF Spawn, Carrying
    <2>4. ConnInv'
      BY <1>6, <2>1, <2>2 DEF Spawn, Sources
    <2> QED
      BY Zenon, <1>0, <1>6, <2>3, <2>4 DEF Spawn
  <1> QED
    BY Zenon, <1>1, <1>2, <1>3, <1>4, <1>5, <1>6 DEF UDPLoop, TCPLoop

\* And those of the connection handlers, which no accept loop holds any more.
LEMMA HandlerControl ==
  ASSUME Inv, NEW c \in Conns, Handler(c)
  PROVE  HandInv' /\ ConnInv' /\ MainInv'
  <1> USE DEF Inv, TypeOK, HandInv, ConnInv, MainInv, mainVars, loopVars, connVars
  <1>0. handler[c] \notin {"none", "done"} /\ \A s \in Sources : hand[s] # c
    BY DEF Handler, Fill, ReadFrame, Submitted, HandlerReturns, untrackConnection,
       ReleaseSlot, HandlerDone
  <1>1. main # "returned"
    BY Zenon, <1>0 DEF HandlersDone
  <1>2. CASE Fill(c)
    BY <1>2 DEF Fill, LoopsDone, HandlersDone
  <1>3. CASE ReadFrame(c) \/ Submitted(c)
    BY SMTT(30), <1>0, <1>1, <1>3 DEF ReadFrame, Submitted, LoopsDone
  <1>4. CASE HandlerReturns(c)
    BY SMTT(30), <1>0, <1>1, <1>4 DEF HandlerReturns, LoopsDone
  <1>5. CASE untrackConnection(c)
    BY SMTT(30), <1>0, <1>1, <1>5 DEF untrackConnection, LoopsDone, Sources
  <1>6. CASE ReleaseSlot(c) \/ HandlerDone(c)
    BY <1>0, <1>1, <1>6 DEF ReleaseSlot, HandlerDone, LoopsDone
  <1> QED
    BY ZenonT(60), <1>2, <1>3, <1>4, <1>5, <1>6 DEF Handler

\* A released slot was held by the connection that releases it.
LEMMA ReleasedWasHeld ==
  ASSUME Inv, NEW c \in Conns, ReleaseSlot(c)
  PROVE  /\ owner[c] \in TCP
         /\ c \in Holders(owner[c])
         /\ sem[owner[c]] \in 1..MaxConnections
  <1>1. owner[c] \in TCP /\ c \in Holders(owner[c])
    BY DEF Inv, ConnInv, ReleaseSlot, Holders
  <1>2. sem[owner[c]] = Cardinality(Holders(owner[c])) /\ sem[owner[c]] \in 0..MaxConnections
    BY <1>1 DEF Inv, TypeOK, SlotsMatchConnections
  <1>3. Holders(owner[c]) \in SUBSET Conns
    BY DEF Holders
  <1>4. Cardinality(Holders(owner[c])) # 0
    BY Zenon, <1>1, <1>3, HoldersFinite, FS_EmptySet
  <1> QED
    BY <1>1, <1>2, <1>4

\* Every step keeps the types; the semaphore stays between 0 and its capacity.
LEMMA StepType ==
  ASSUME Inv, [Next]_vars
  PROVE  TypeOK'
  <1> USE DEF Inv, TypeOK, mainVars, loopVars, connVars, Goto
  <1>1. ASSUME NEW s \in Sources, UDPReceives(s) \/ UDPSubmitted(s) \/ LoopEnds(s)
        PROVE  TypeOK'
    BY ZenonT(60), <1>1 DEF UDPReceives, UDPSubmitted, LoopEnds
  <1>2. ASSUME NEW s \in TCP, TCPLoop(s) PROVE TypeOK'
    <2>0. s \in Sources
      BY DEF Sources
    <2>1. ASSUME NEW c \in Conns, Accept(s, c) PROVE TypeOK'
      BY <2>0, <2>1 DEF Accept
    <2>2. CASE AcquireSlot(s)
      <3>1. sem[s] + 1 \in 0..MaxConnections
        BY <2>2, ManagerAssumption DEF AcquireSlot, SlotFree
      <3> QED
        BY <2>0, <2>2, <3>1 DEF AcquireSlot
    <2>3. CASE RefuseConnection(s)
      BY Zenon, <2>0, <2>3 DEF RefuseConnection
    <2>4. CASE trackConnection(s)
      <3>1. hand[s] \in Conns
        BY Zenon, <2>0, <2>4 DEF trackConnection, HandInv, Carrying
      <3> QED
        BY <2>0, <2>4, <3>1 DEF trackConnection
    <2>5. CASE Spawn(s)
      BY Zenon, <2>0, <2>5 DEF Spawn
    <2> QED
      BY Zenon, <1>1, <1>2, <2>0, <2>1, <2>2, <2>3, <2>4, <2>5 DEF TCPLoop
  <1>3. ASSUME NEW c \in Conns, Handler(c) PROVE TypeOK'
    <2>1. CASE Fill(c)
      <3>1. PICK n \in 1..MaxBuffered : buffered' = [buffered EXCEPT ![c] = n]
        BY Zenon, <2>1 DEF Fill
      <3>2. n \in 0..MaxBuffered
        BY <3>1, ManagerAssumption
      <3> QED
        BY <2>1, <3>1, <3>2 DEF Fill
    <2>2. CASE ReadFrame(c)
      <3>1. buffered[c] - 1 \in 0..MaxBuffered
        BY <2>2, ManagerAssumption DEF ReadFrame
      <3> QED
        BY Zenon, <2>2, <3>1 DEF ReadFrame
    <2>3. CASE ReleaseSlot(c)
      <3>1. owner[c] \in TCP /\ sem[owner[c]] - 1 \in 0..MaxConnections
        BY <2>3, ReleasedWasHeld, ManagerAssumption
      <3> QED
        BY Zenon, <2>3, <3>1 DEF ReleaseSlot
    <2>4. CASE Submitted(c) \/ HandlerReturns(c) \/ untrackConnection(c) \/ HandlerDone(c)
      BY ZenonT(60), <2>4 DEF Submitted, HandlerReturns, untrackConnection, HandlerDone
    <2> QED
      BY ZenonT(60), <1>3, <2>1, <2>2, <2>3, <2>4 DEF Handler
  <1>4. CASE Main
    BY ZenonT(60), <1>4 DEF Main, StartSource, CloseSource, Started, StartFails, Shutdown,
       CopyConnections, CloseReturn, CloseConnection
  <1>5. CASE UNCHANGED vars
    BY <1>5 DEF vars
  <1> QED
    BY Zenon, <1>1, <1>2, <1>3, <1>4, <1>5 DEF Next, UDPLoop, Sources, Rest

\* The semaphore follows the set of served connections step by step.
LEMMA StepSlots ==
  ASSUME Inv, [Next]_vars
  PROVE  SlotsMatchConnections'
  <1> SUFFICES ASSUME NEW t \in TCP
               PROVE  sem'[t] = Cardinality(Holders(t)')
    BY Zenon DEF SlotsMatchConnections
  <1>0. sem[t] = Cardinality(Holders(t)) /\ Holders(t) \in SUBSET Conns /\ t \in Sources
    BY DEF Inv, SlotsMatchConnections, Holders, Sources
  <1> USE DEF Inv, TypeOK, mainVars, loopVars, connVars, Goto
  <1>1. ASSUME NEW s \in Sources, UDPReceives(s) \/ UDPSubmitted(s) \/ LoopEnds(s)
        PROVE  sem'[t] = sem[t] /\ Holders(t)' = Holders(t)
    BY ZenonT(60), <1>0, <1>1 DEF UDPReceives, UDPSubmitted, LoopEnds, Holders
  <1>2. ASSUME NEW s \in TCP, NEW c \in Conns, Accept(s, c)
        PROVE  sem'[t] = sem[t] /\ Holders(t)' = Holders(t)
    <2>1. handler[c] = "none" /\ hand[t] # c /\ s \in Sources
      BY <1>0, <1>2 DEF Accept, HandInv, ConnInv, Sources
    <2>2. t = s => loop'[t] = "admit" /\ loop[t] = "receive"
      BY <1>0, <1>2 DEF Accept
    <2>3. t # s => loop'[t] = loop[t] /\ hand'[t] = hand[t]
      BY <1>0, <1>2 DEF Accept
    <2> QED
      BY ZenonT(60), <1>0, <1>2, <2>1, <2>2, <2>3 DEF Accept, Holders
  <1>3. ASSUME NEW s \in TCP, AcquireSlot(s)
        PROVE  sem'[t] = Cardinality(Holders(t)')
    <2>1. /\ s \in Sources /\ hand[s] \in Conns /\ owner[hand[s]] = s
          /\ handler[hand[s]] = "none" /\ loop[s] = "admit"
      BY Zenon, <1>3 DEF AcquireSlot, HandInv, Carrying, Sources
    <2>2. CASE t = s
      <3>1. hand[s] \notin Holders(s) /\ Holders(s)' = Holders(s) \cup {hand[s]}
        BY <1>3, <2>1 DEF AcquireSlot, Holders
      <3>2. Cardinality(Holders(s) \cup {hand[s]}) = Cardinality(Holders(s)) + 1
        BY Zenon, <1>0, <2>2, <3>1, HoldersFinite, FS_AddElement
      <3> QED
        BY Zenon, <1>0, <1>3, <2>2, <3>1, <3>2 DEF AcquireSlot
    <2>3. CASE t # s
      <3>1. Holders(t)' = Holders(t)
        BY Zenon, <1>0, <1>3, <2>1, <2>3 DEF AcquireSlot, Holders
      <3> QED
        BY Zenon, <1>0, <1>3, <2>3, <3>1 DEF AcquireSlot
    <2> QED
      BY Zenon, <2>2, <2>3
  <1>4. ASSUME NEW s \in TCP, RefuseConnection(s) \/ trackConnection(s) \/ Spawn(s)
        PROVE  sem'[t] = sem[t] /\ Holders(t)' = Holders(t)
    <2>1. /\ s \in Sources /\ hand[s] \in Conns /\ owner[hand[s]] = s
          /\ handler[hand[s]] = "none"
      BY Zenon, <1>4 DEF RefuseConnection, trackConnection, Spawn, HandInv, Carrying, Sources
    <2>2. CASE RefuseConnection(s)
      BY Zenon, <1>0, <2>1, <2>2 DEF RefuseConnection, Holders
    <2>3. CASE trackConnection(s)
      BY ZenonT(60), <1>0, <2>1, <2>3 DEF trackConnection, Holders
    <2>4. CASE Spawn(s)
      BY SMTT(30), <1>0, <2>1, <2>4, ManagerAssumption DEF Spawn, Holders
    <2> QED
      BY Zenon, <1>4, <2>2, <2>3, <2>4
  <1>5. ASSUME NEW c \in Conns,
               Fill(c) \/ ReadFrame(c) \/ Submitted(c) \/ HandlerReturns(c)
                 \/ untrackConnection(c) \/ HandlerDone(c)
        PROVE  sem'[t] = sem[t] /\ Holders(t)' = Holders(t)
    BY <1>0, <1>5 DEF Fill, ReadFrame, Submitted, HandlerReturns, untrackConnection,
       HandlerDone, Holders
  <1>6. ASSUME NEW c \in Conns, ReleaseSlot(c)
        PROVE  sem'[t] = Cardinality(Holders(t)')
    <2>0. \A s \in Sources : hand[s] # c
      BY <1>6 DEF HandInv, ReleaseSlot
    <2>1. owner[c] \in TCP /\ c \in Holders(owner[c])
      BY Zenon, <1>6, ReleasedWasHeld
    <2>2. CASE t = owner[c]
      <3>1. Holders(t)' = Holders(t) \ {c}
        BY Zenon, <1>0, <1>6, <2>0, <2>1, <2>2 DEF ReleaseSlot, Holders
      <3>2. Cardinality(Holders(t) \ {c}) = Cardinality(Holders(t)) - 1
        BY Zenon, <1>0, <2>1, <2>2, HoldersFinite, FS_RemoveElement
      <3> QED
        BY Zenon, <1>0, <1>6, <2>2, <3>1, <3>2 DEF ReleaseSlot
    <2>3. CASE t # owner[c]
      <3>1. Holders(t)' = Holders(t)
        BY Zenon, <1>0, <1>6, <2>1, <2>3 DEF ReleaseSlot, Holders
      <3> QED
        BY Zenon, <1>0, <1>6, <2>1, <2>3, <3>1 DEF ReleaseSlot
    <2> QED
      BY Zenon, <2>2, <2>3
  <1>7. CASE Main
    <2>1. ASSUME NEW s \in Sources, StartSource(s)
          PROVE  sem'[t] = sem[t] /\ Holders(t)' = Holders(t)
      <3>1. loop[s] = "none"
        BY ZenonT(60), <2>1 DEF StartSource, HandInv
      <3> QED
        BY Zenon, <1>0, <2>1, <3>1 DEF StartSource, Holders
    <2>2. ASSUME ~ \E s \in Sources : StartSource(s)
          PROVE  sem'[t] = sem[t] /\ Holders(t)' = Holders(t)
      BY SMTT(30), <1>7, <2>2 DEF Main, CloseSource, Started, StartFails, Shutdown, CopyConnections,
         CloseReturn, CloseConnection, Holders
    <2> QED
      BY Zenon, <1>0, <2>1, <2>2
  <1>8. CASE UNCHANGED vars
    BY <1>0, <1>8 DEF vars, Holders
  <1> QED
    BY Zenon, <1>0, <1>1, <1>2, <1>3, <1>4, <1>5, <1>6, <1>7, <1>8
       DEF Next, UDPLoop, TCPLoop, Handler, Sources, Rest

\* The inductive invariant of the listeners.
THEOREM ManagerInvariant == Spec => []Inv
  <1>1. Init => Inv
    BY InitInv
  <1>2. Inv /\ [Next]_vars => Inv'
    <2> SUFFICES ASSUME Inv, [Next]_vars PROVE HandInv' /\ ConnInv' /\ MainInv'
      BY ZenonT(60), StepType, StepSlots DEF Inv
    <2>1. CASE UNCHANGED vars
      BY <2>1 DEF Inv, HandInv, ConnInv, MainInv, LoopsDone, HandlersDone, vars, mainVars,
         loopVars, connVars
    <2>2. ASSUME NEW s \in UDP, UDPLoop(s) PROVE HandInv' /\ ConnInv' /\ MainInv'
      <3>1. s \in Sources
        BY DEF Sources
      <3>2. (s \in UDP /\ UDPLoop(s)) \/ (s \in TCP /\ TCPLoop(s))
        BY <2>2
      <3> QED
        BY <3>1, <3>2, LoopControl
    <2>3. ASSUME NEW s \in TCP, TCPLoop(s) PROVE HandInv' /\ ConnInv' /\ MainInv'
      <3>1. s \in Sources
        BY DEF Sources
      <3>2. (s \in UDP /\ UDPLoop(s)) \/ (s \in TCP /\ TCPLoop(s))
        BY <2>3
      <3> QED
        BY <3>1, <3>2, LoopControl
    <2>4. ASSUME NEW c \in Conns, Handler(c) PROVE HandInv' /\ ConnInv' /\ MainInv'
      BY <2>4, HandlerControl
    <2> QED
      BY <2>1, <2>2, <2>3, <2>4, MainControl DEF Next, Rest
  <1> QED
    BY <1>1, <1>2, PTL DEF Spec

\* Type correctness: a semaphore never exceeds its capacity or drops below zero.
THEOREM ManagerTypeOK == Spec => []TypeOK
  <1>1. Inv => TypeOK
    BY DEF Inv
  <1> QED
    BY <1>1, ManagerInvariant, PTL

\* Slots taken and connections served agree, for any number of connections.
THEOREM ManagerSlots == Spec => []SlotsMatchConnections
  <1>1. Inv => SlotsMatchConnections
    BY DEF Inv
  <1> QED
    BY <1>1, ManagerInvariant, PTL

\* Close can reach every open connection.
THEOREM ManagerOpenIsReachable == Spec => []OpenIsReachable
  <1>1. Inv => OpenIsReachable
    BY DEF Inv, TypeOK, ConnInv, OpenIsReachable
  <1> QED
    BY <1>1, ManagerInvariant, PTL

\* When Close has returned, the manager holds and runs nothing.
THEOREM ManagerCloseLeavesNothing == Spec => []CloseLeavesNothing
  <1>1. Inv => CloseLeavesNothing
    <2> SUFFICES ASSUME Inv, main = "returned" PROVE CloseLeavesNothing
      BY DEF CloseLeavesNothing
    <2>1. LoopsDone /\ HandlersDone /\ \A s \in Sources : socket[s] # "open"
      BY DEF Inv, MainInv
    <2>2. \A s \in Sources : hand[s] \notin Conns
      BY <2>1 DEF Inv, HandInv, LoopsDone, Carrying
    <2>3. \A c \in Conns : c \notin conns /\ conn[c] # "open"
      BY <2>1, <2>2 DEF Inv, ConnInv, TypeOK, HandlersDone, Sources
    <2>4. ASSUME NEW s \in TCP PROVE sem[s] = 0
      <3>1. Holders(s) = {}
        BY <2>1, <2>2 DEF Holders, HandlersDone, Sources
      <3> QED
        BY <3>1, FS_EmptySet DEF Inv, SlotsMatchConnections
    <2> QED
      BY <2>1, <2>3, <2>4 DEF CloseLeavesNothing, Inv, TypeOK
  <1> QED
    BY <1>1, ManagerInvariant, PTL

\* The slots taken are those of the connections served, at most max_connections.
THEOREM ManagerSlotsExact == Spec => []SlotsAreExact
  <1>1. Inv => SlotsAreExact
    BY ManagerAssumption DEF Inv, TypeOK, SlotsAreExact
  <1> QED
    BY <1>1, ManagerInvariant, PTL
-----------------------------------------------------------------------------
(* Parsing, for any set of priorities *)

\* The name under which Registry.Parse looks up the parser.
Chosen == IF parser = "auto" THEN Parser!Detect(message) ELSE parser

\* The parser's event comes from the chosen parser, the entry from the event.
ParserInv ==
    /\ parser \in {"auto", "rfc3164", "rfc5424"}
    /\ message \in Parser!Message
    /\ worker \in {"parse", "normalize", "done", "dropped"}
    /\ worker \in {"normalize", "done"} => event \in Parser!ParseAs(Chosen, message)
    /\ worker = "dropped" => \/ Parser!ParseAs(Chosen, message) = {}
                             \/ event \in Parser!ParseAs(Chosen, message)
    /\ worker = "done" =>
         entry = [format |-> event.format, time |-> event.time,
                  inferred |-> event.inferred, pri |-> event.pri,
                  named |-> Parser!Names(event),
                  status |-> IF event.format = "unknown" THEN "unknown" ELSE "parsed"]

\* A priority has at most three digits.
LEMMA PriorityIsShort == \A n \in 0..191 : Parser!Digits(n) <= 3
<1> SUFFICES ASSUME NEW n \in 0..191
             PROVE  Parser!Digits(n) <= 3
  OBVIOUS
<1>1. n # NotNumber /\ ~(n < 0) /\ ~(n > 999)
  BY SMTT(30), ParserAssumption
<1>2. CASE n \in 0..9
  BY <1>1, <1>2 DEF Parser!Digits
<1>3. CASE n \in 10..99
  BY SMTT(30), <1>1, <1>3 DEF Parser!Digits
<1>4. CASE n \in 100..191
  BY <1>1, <1>4 DEF Parser!Digits
<1> QED
  BY <1>2, <1>3, <1>4

\* Detect finds the format that a parser accepts, if no line break ends the message.
LEMMA DetectFindsFormat ==
    ASSUME NEW m \in Parser!Message, ~m.newline,
           NEW f \in {"rfc3164", "rfc5424"}, Parser!ParseAs(f, m) # {}
    PROVE  Parser!Detect(m) = f
<1>1. m.pri \in 0..191
  BY Zenon DEF Parser!ParseAs, Parser!RFC3164, Parser!RFC5424, Parser!priority
<1>2. m.pri # NotNumber /\ m.pri # NoPri /\ m.pri >= 0
  BY <1>1, ParserAssumption
<1>3. Parser!HasPri(m)
  BY <1>1, <1>2, PriorityIsShort DEF Parser!HasPri
<1>4. CASE f = "rfc3164"
  <2>1. Parser!MatchesPattern([m EXCEPT !.newline = FALSE])
    BY Zenon, <1>4 DEF Parser!ParseAs, Parser!RFC3164
  <2>2. m.body = "date"
    BY Zenon, <2>1 DEF Parser!MatchesPattern, Parser!Message
  <2>3. Parser!MatchesPattern(m)
    BY <1>2, <1>3, <2>2 DEF Parser!MatchesPattern
  <2> QED
    BY <1>2, <1>3, <1>4, <2>2, <2>3 DEF Parser!Detect
<1>5. CASE f = "rfc5424"
  <2>1. m.body = "1 "
    BY Zenon, <1>5 DEF Parser!ParseAs, Parser!RFC5424
  <2> QED
    BY Zenon, <1>2, <1>3, <1>5, <2>1 DEF Parser!Detect, Parser!MatchesPattern
<1> QED
  BY <1>4, <1>5

\* What Registry.Parse looks up is the name of a parser or of no known format.
LEMMA ChosenIsKnown ==
    ASSUME parser \in {"auto", "rfc3164", "rfc5424"}
    PROVE  Chosen \in {"rfc3164", "rfc5424", "unknown"}
  BY DEF Chosen, Parser!Detect, Parser!MatchesPattern

\* An event has the format of the parser that made it.  Unless that is unknown it
\* has one priority, with names for both parts; a time of receipt is an inferred
\* one, and only RFC 5424 gives one that is not.
LEMMA EventsAreHonest ==
    ASSUME NEW f \in {"rfc3164", "rfc5424", "unknown"}, NEW m \in Parser!Message,
           NEW e \in Parser!ParseAs(f, m)
    PROVE  /\ e.format = f
           /\ f # "unknown" => e.pri # {}
           /\ f = "unknown" => e.pri = {}
           /\ Parser!Names(e) = e.pri
           /\ e.time = "received" => e.inferred
           /\ ~e.inferred => m.stamp = "time" /\ f = "rfc5424"
<1>1. CASE f = "unknown"
  <2>1. e = Parser!Event("unknown", {}, "received", TRUE)
    BY <1>1 DEF Parser!ParseAs
  <2> QED
    BY <1>1, <2>1 DEF Parser!Event, Parser!Names
<1>2. ASSUME f # "unknown"
      PROVE  \E p \in Parser!priority(m.pri) : e.pri = {p}
  <2>1. CASE f = "rfc3164"
    <3>1. e \in Parser!RFC3164(m)
      BY <2>1 DEF Parser!ParseAs
    <3> QED
      BY <3>1 DEF Parser!RFC3164, Parser!Event
  <2>2. CASE f = "rfc5424"
    <3>1. PICK p \in Parser!priority(m.pri) :
            e = Parser!Event("rfc5424", {p}, IF m.stamp = "nil" THEN "received" ELSE "stamp",
                             m.stamp = "nil")
      BY <2>2, Zenon DEF Parser!ParseAs, Parser!RFC5424
    <3> QED
      BY <3>1, Zenon DEF Parser!Event
  <2> QED
    BY <1>2, <2>1, <2>2
<1>3. ASSUME NEW p \in Parser!priority(m.pri)
      PROVE  p.facility \in Parser!FacilityNames /\ p.severity \in Parser!SeverityNames
  <2>1. m.pri \in 0..191 /\ p.facility = m.pri \div 8 /\ p.severity = m.pri % 8
    BY <1>3 DEF Parser!priority
  <2> QED
    BY <2>1 DEF Parser!FacilityNames, Parser!SeverityNames
<1>4. f # "unknown" => e.pri # {} /\ Parser!Names(e) = e.pri
  BY <1>2, <1>3 DEF Parser!Names
<1>5. CASE f = "rfc3164"
  <2>1. e.format = "rfc3164" /\ e.inferred = TRUE
    BY <1>5 DEF Parser!ParseAs, Parser!RFC3164, Parser!Event
  <2> QED
    BY <1>4, <1>5, <2>1
<1>6. CASE f = "rfc5424"
  <2>1. /\ e.format = "rfc5424" /\ m.stamp # "bad"
        /\ e.time = IF m.stamp = "nil" THEN "received" ELSE "stamp"
        /\ e.inferred = (m.stamp = "nil")
    <3>1. e \in Parser!RFC5424(m)
      BY <1>6 DEF Parser!ParseAs
    <3>2. PICK p \in Parser!priority(m.pri) :
            /\ m.stamp # "bad"
            /\ e = Parser!Event("rfc5424", {p}, IF m.stamp = "nil" THEN "received" ELSE "stamp",
                               m.stamp = "nil")
      BY <3>1, Zenon DEF Parser!RFC5424
    <3> QED
      BY <3>2, Zenon DEF Parser!Event
  <2>2. m.stamp \in {"nil", "time", "bad"}
    BY Zenon DEF Parser!Message
  <2> QED
    BY Zenon, <1>4, <1>6, <2>1, <2>2
<1> QED
  BY <1>1, <1>5, <1>6

\* A worker begins without an event.
LEMMA ParserStarts == Parser!Init => ParserInv
  BY SMTT(30) DEF Parser!Init, ParserInv

\* Registry.Parse and Normalize preserve the invariant.
LEMMA ParserKeeps == ParserInv /\ [Parser!Next]_(Parser!vars) => ParserInv'
<1> SUFFICES ASSUME ParserInv, [Parser!Next]_(Parser!vars)
             PROVE  ParserInv'
  BY Zenon
<1> USE DEF ParserInv
<1>1. CASE Parser!Parse
  <2>1. parser' = parser /\ message' = message /\ worker = "parse" /\ Chosen' = Chosen
    BY Zenon, <1>1 DEF Parser!Parse, Chosen
  <2>2. \/ event' \in Parser!ParseAs(Chosen, message) /\ worker' = "normalize"
        \/ Parser!ParseAs(Chosen, message) = {} /\ worker' = "dropped"
    BY Zenon, <1>1 DEF Parser!Parse, Chosen
  <2> QED
    BY Zenon, <2>1, <2>2
<1>2. CASE Parser!Normalize
  <2>1. /\ parser' = parser /\ message' = message /\ event' = event /\ Chosen' = Chosen
        /\ worker = "normalize" /\ worker' \in {"done", "dropped"}
    BY Zenon, <1>2 DEF Parser!Normalize, Chosen
  <2>2. worker' = "done" =>
          entry' = [format |-> event.format, time |-> event.time,
                    inferred |-> event.inferred, pri |-> event.pri,
                    named |-> Parser!Names(event),
                    status |-> IF event.format = "unknown" THEN "unknown" ELSE "parsed"]
    BY Zenon, <1>2 DEF Parser!Normalize
  <2>3. worker' = "done" => entry' =
          [format |-> event'.format, time |-> event'.time,
           inferred |-> event'.inferred, pri |-> event'.pri,
           named |-> Parser!Names(event)',
           status |-> IF event'.format = "unknown" THEN "unknown" ELSE "parsed"]
    BY Zenon, <2>1, <2>2 DEF Parser!Names
  <2> QED
    BY Zenon, <2>1, <2>3
<1>3. CASE UNCHANGED Parser!vars
  BY Zenon, <1>3 DEF Parser!vars, Chosen, Parser!Names
<1> QED
  BY <1>1, <1>2, <1>3 DEF Parser!Next, Parser!Rest

\* Detect, Parse and Normalize agree: see ParsingIsFaithful.
LEMMA ParserInvIsFaithful == ParserInv => ParsingIsFaithful
<1> SUFFICES ASSUME ParserInv
             PROVE  Parser!ParsingIsFaithful
  BY Zenon DEF ParsingIsFaithful
<1> USE DEF ParserInv
<1>1. Chosen \in {"rfc3164", "rfc5424", "unknown"}
  BY Zenon, ChosenIsKnown
<1>2. ASSUME worker \in {"done", "dropped"}, parser = "auto", ~message.newline,
             NEW f \in {"rfc3164", "rfc5424"}, Parser!ParseAs(f, message) # {}
      PROVE  event.format = f
  <2>1. Chosen = f
    BY Zenon, <1>2, DetectFindsFormat DEF Chosen
  <2>2. event \in Parser!ParseAs(f, message)
    BY Zenon, <1>2, <2>1
  <2> QED
    BY Zenon, <2>2, EventsAreHonest
<1>3. Parser!AutoTakesWhatParsersTake
  BY Zenon, <1>2 DEF Parser!AutoTakesWhatParsersTake
<1>4. ASSUME worker = "done"
      PROVE  /\ event.format = Chosen
             /\ Chosen # "unknown" => event.pri # {}
             /\ Chosen = "unknown" => event.pri = {}
             /\ Parser!Names(event) = event.pri
             /\ event.time = "received" => event.inferred
             /\ ~event.inferred => message.stamp = "time" /\ Chosen = "rfc5424"
  BY Zenon, <1>1, <1>4, EventsAreHonest
<1>5. worker = "done" =>
        /\ entry.format = event.format /\ entry.time = event.time
        /\ entry.inferred = event.inferred /\ entry.pri = event.pri
        /\ entry.named = Parser!Names(event)
        /\ entry.status = IF event.format = "unknown" THEN "unknown" ELSE "parsed"
  OBVIOUS
<1>6. Parser!TimeIsHonest
  BY ZenonT(60), <1>4, <1>5 DEF Parser!TimeIsHonest
<1>7. Parser!PriorityIsNamed
  BY <1>4, <1>5 DEF Parser!PriorityIsNamed
<1> QED
  BY <1>3, <1>6, <1>7 DEF Parser!ParsingIsFaithful

\* Detect, the parsers and Normalize agree on every message, whatever the number in
\* its brackets: an auto source takes what a fixed parser would take, a time of
\* receipt is never passed off as the sender's, and every priority has its names.
THEOREM ParsersAgree == Parser!Spec => []ParsingIsFaithful
<1>1. Parser!Init => ParserInv
  BY ParserStarts
<1>2. ParserInv /\ [Parser!Next]_(Parser!vars) => ParserInv'
  BY ParserKeeps
<1>3. ParserInv => ParsingIsFaithful
  BY ParserInvIsFaithful
<1> QED
  BY <1>1, <1>2, <1>3, PTL DEF Parser!Spec
-----------------------------------------------------------------------------
(* The year of a time stamp, for any years, days and times of receipt *)

\* A year has 365 days, a leap year one more, and two in a row are not leap years.
LEMMA YearsFollow ==
    ASSUME NEW y \in Nat \ {0}
    PROVE  /\ Year!Jan1(y) \in Nat
           /\ Year!Jan1(y + 1) = Year!Jan1(y) + (IF Year!Leap(y) THEN 366 ELSE 365)
           /\ ~(Year!Leap(y) /\ Year!Leap(y + 1))
<1>1. Year!Jan1(y) \in Nat
  BY DEF Year!Jan1
<1>2. Year!Jan1(y + 1) = Year!Jan1(y) + (IF Year!Leap(y) THEN 366 ELSE 365)
  BY DEF Year!Jan1, Year!Leap
<1>3. ~(Year!Leap(y) /\ Year!Leap(y + 1))
  BY DEF Year!Leap
<1> QED
  BY <1>1, <1>2, <1>3

\* A later year begins after an earlier one has ended.
LEMMA YearsAreOrdered ==
    ASSUME NEW y \in Nat \ {0}, NEW z \in Nat \ {0}, y < z
    PROVE  Year!Jan1(y + 1) <= Year!Jan1(z)
  BY DEF Year!Jan1

\* The place of a day in its year.
Offset(y, s) == Year!DaysBefore(s.month, y) + s.day - 1

\* A day that its month has lies in its year.
LEMMA OffsetInYear ==
    ASSUME NEW y \in Nat \ {0}, NEW s \in Year!Stamps, Year!Parses(y, s)
    PROVE  Offset(y, s) \in 0..(IF Year!Leap(y) THEN 365 ELSE 364)
  BY DEF Offset, Year!Stamps, Year!Months, Year!Parses, Year!DaysBefore, Year!DaysIn

\* The parts of a stamp are numbers.
LEMMA StampParts ==
    ASSUME NEW s \in Year!Stamps
    PROVE  s.month \in 1..12 /\ s.day \in 0..99 /\ s.clock \in 0..1
<1>1. s.month \in 1..12 /\ s.day \in Days /\ s.clock \in 0..1
  BY DEF Year!Stamps, Year!Months
<1>2. Days \subseteq 0..99
  BY YearAssumption
<1> QED
  BY Zenon, <1>1, <1>2

\* A time lies in its year.
LEMMA TimeInYear ==
    ASSUME NEW y \in Nat \ {0}, NEW s \in Year!Stamps, Year!Parses(y, s)
    PROVE  /\ Year!Time(y, s) \in Nat
           /\ 2 * Year!Jan1(y) <= Year!Time(y, s)
           /\ Year!Time(y, s) < 2 * Year!Jan1(y + 1)
<1>1. s.month \in 1..12 /\ s.day \in 0..99 /\ s.clock \in 0..1
  BY StampParts
<1>2. Offset(y, s) \in 0..(IF Year!Leap(y) THEN 365 ELSE 364)
  BY OffsetInYear
<1>3. /\ Year!Jan1(y) \in Nat
      /\ Year!Jan1(y + 1) = Year!Jan1(y) + (IF Year!Leap(y) THEN 366 ELSE 365)
  BY YearsFollow
<1>4. Year!DaysBefore(s.month, y) \in Nat /\ s.day \in Nat
  BY <1>1 DEF Year!DaysBefore
<1>5. Year!Time(y, s) = 2 * (Year!Jan1(y) + Offset(y, s)) + s.clock
  BY <1>3, <1>4 DEF Year!Time, Offset
<1> QED
  BY <1>1, <1>2, <1>3, <1>5

\* The same stamp comes again after 366 days at the latest.
LEMMA StampsComeAgain ==
    ASSUME NEW y \in Nat \ {0}, NEW s \in Year!Stamps,
           Year!Parses(y, s), Year!Parses(y + 1, s)
    PROVE  Year!Time(y + 1, s) - Year!Time(y, s) <= 732
<1>1. s.month \in 1..12 /\ s.day \in 0..99 /\ s.clock \in 0..1
  BY StampParts
<1>2. /\ Year!Jan1(y) \in Nat
      /\ Year!Jan1(y + 1) = Year!Jan1(y) + (IF Year!Leap(y) THEN 366 ELSE 365)
      /\ ~(Year!Leap(y) /\ Year!Leap(y + 1))
  BY YearsFollow
<1>3. Year!DaysBefore(s.month, y) \in Nat
  BY <1>1 DEF Year!DaysBefore
<1>4. Year!DaysBefore(s.month, y + 1) <= Year!DaysBefore(s.month, y)
        + (IF Year!Leap(y + 1) /\ ~Year!Leap(y) THEN 1 ELSE 0)
  BY <1>1 DEF Year!DaysBefore
<1>5. Year!DaysBefore(s.month, y + 1) \in Nat
  BY <1>1 DEF Year!DaysBefore
<1> QED
  BY <1>1, <1>2, <1>3, <1>4, <1>5 DEF Year!Time

\* The years tried so far accept the stamp, and none of their times is nearer to
\* the receipt, which lies in its year, than the best one.
YearInv ==
    /\ stamp \in Year!Stamps
    /\ year \in Received
    /\ base \in Nat /\ 2 * Year!Jan1(year) <= base /\ base < 2 * Year!Jan1(year + 1)
    /\ tried \in 0..3
    /\ result \in {"none", "time", "error"}
    /\ result = "time" => tried = 3
    /\ tried = 0 => best = -1
    /\ result # "error" /\ tried # 0 => best \in {Year!Time(year - 2 + k, stamp) : k \in 1..tried}
    /\ result # "error" =>
         \A k \in 1..tried :
            /\ Year!Parses(year - 2 + k, stamp)
            /\ Year!Distance(best, base) <= Year!Distance(Year!Time(year - 2 + k, stamp), base)

\* A message is received in the year of its receipt.
LEMMA YearStarts == Year!Init => YearInv
<1> SUFFICES ASSUME Year!Init
             PROVE  YearInv
  OBVIOUS
<1>1. PICK now \in Year!Stamps : Year!Parses(year, now) /\ base = Year!Time(year, now)
  BY DEF Year!Init
<1>2. year \in Nat \ {0}
  BY YearAssumption DEF Year!Init
<1>3. base \in Nat /\ 2 * Year!Jan1(year) <= base /\ base < 2 * Year!Jan1(year + 1)
  BY <1>1, <1>2, TimeInYear
<1> QED
  BY <1>3 DEF Year!Init, YearInv

\* An iteration of the loop compares one more year; the return changes nothing else.
LEMMA YearKeeps == YearInv /\ [Year!Next]_(Year!vars) => YearInv'
<1> SUFFICES ASSUME YearInv, [Year!Next]_(Year!vars)
             PROVE  YearInv'
  OBVIOUS
<1>0. stamp \in Year!Stamps /\ year \in Received /\ base \in Nat /\ tried \in 0..3
  BY DEF YearInv
<1>1. year \in Nat \ {0, 1}
  BY <1>0, YearAssumption
<1>2. CASE Year!TryYear
  <2> DEFINE y == year - 2 + (tried + 1)
             t == Year!Time(y, stamp)
  <2>1. /\ stamp' = stamp /\ year' = year /\ base' = base
        /\ result = "none" /\ tried \in 0..2 /\ tried' = tried + 1
    BY SMTT(30), <1>0, <1>2 DEF Year!TryYear, Year!Candidates
  <2>0. /\ tried = 0 => best = -1
        /\ tried # 0 => best \in {Year!Time(year - 2 + k, stamp) : k \in 1..tried}
        /\ \A k \in 1..tried :
              /\ Year!Parses(year - 2 + k, stamp)
              /\ Year!Distance(best, base) <= Year!Distance(Year!Time(year - 2 + k, stamp), base)
    BY <2>1 DEF YearInv
  <2>2. y \in Nat \ {0} /\ Year!Candidates[tried + 1] = y
    BY <1>1, <2>1 DEF Year!Candidates
  <2>3. CASE ~Year!Parses(y, stamp)
    <3>1. result' = "error"
      BY ZenonT(60), <1>2, <2>2, <2>3 DEF Year!TryYear
    <3> QED
      BY <2>1, <3>1 DEF YearInv
  <2>4. CASE Year!Parses(y, stamp)
    <3>1. /\ result' = "none"
          /\ best' = IF Year!Closer(t) THEN t ELSE best
      BY Zenon, <1>2, <2>1, <2>2, <2>4 DEF Year!TryYear
    <3>2. t \in Nat
      BY Zenon, <1>0, <2>2, <2>4, TimeInYear
    <3>3. \A k \in 1..tried : Year!Time(year - 2 + k, stamp) \in Nat
      <4> TAKE k \in 1..tried
      <4>1. year - 2 + k \in Nat \ {0}
        BY <1>1, <2>1
      <4>2. Year!Parses(year - 2 + k, stamp)
        BY Zenon, <2>0
      <4> QED
        BY Zenon, <1>0, <4>1, <4>2, TimeInYear
    <3>4. tried # 0 => best \in Nat
      BY Zenon, <2>0, <2>1, <3>3
    <3>5. best' \in {Year!Time(year - 2 + k, stamp) : k \in 1..(tried + 1)}
      <4>1. CASE best' = t
        BY SMTT(30), <2>1, <4>1
      <4>2. CASE best' = best /\ tried # 0
        BY SMTT(30), <2>0, <2>1, <4>2
      <4> QED
        BY Zenon, <2>0, <3>1, <4>1, <4>2 DEF Year!Closer
    <3>6. Year!Distance(best', base) <= Year!Distance(t, base)
      BY SMTT(30), <1>0, <2>0, <2>1, <3>1, <3>2, <3>4 DEF Year!Closer, Year!Distance
    <3>7. \A k \in 1..tried :
            Year!Distance(best', base) <= Year!Distance(Year!Time(year - 2 + k, stamp), base)
      <4> TAKE k \in 1..tried
      <4>1. tried # 0 /\ best \in Nat /\ Year!Time(year - 2 + k, stamp) \in Nat
        BY <2>1, <3>3, <3>4
      <4>2. Year!Distance(best, base) <= Year!Distance(Year!Time(year - 2 + k, stamp), base)
        BY Zenon, <2>0
      <4> QED
        BY <1>0, <3>1, <3>2, <4>1, <4>2 DEF Year!Closer, Year!Distance
    <3>8. \A k \in 1..(tried + 1) :
            /\ Year!Parses(year - 2 + k, stamp)
            /\ Year!Distance(best', base) <= Year!Distance(Year!Time(year - 2 + k, stamp), base)
      <4> TAKE k \in 1..(tried + 1)
      <4>1. k \in 1..tried \/ k = tried + 1
        BY <2>1
      <4> QED
        BY ZenonT(60), <2>0, <2>4, <3>6, <3>7, <4>1
    <3> QED
      BY <2>1, <3>1, <3>5, <3>8 DEF YearInv
  <2> QED
    BY Zenon, <2>3, <2>4
<1>3. CASE Year!Return
  BY ZenonT(60), <1>3 DEF YearInv, Year!Return, Year!Candidates
<1>4. CASE UNCHANGED Year!vars
  BY <1>4 DEF YearInv, Year!vars
<1> QED
  BY Zenon, <1>2, <1>3, <1>4 DEF Year!Next, Year!Rest

\* The nearest of three years in a row is the nearest of all, and at most 183 days off.
LEMMA YearInvIsNearest == YearInv => NearestOfAllYears
<1> SUFFICES ASSUME YearInv, result = "time"
             PROVE  /\ \A y \in Years : Year!Parses(y, stamp) =>
                         Year!Distance(best, base) <= Year!Distance(Year!Time(y, stamp), base)
                    /\ Year!Distance(best, base) <= 366
  BY Zenon DEF NearestOfAllYears, Year!NearestOfAllYears
<1> DEFINE T(y) == Year!Time(y, stamp)
           D(y) == Year!Distance(T(y), base)
<1>0. /\ stamp \in Year!Stamps /\ year \in Received
      /\ base \in Nat /\ 2 * Year!Jan1(year) <= base /\ base < 2 * Year!Jan1(year + 1)
  BY DEF YearInv
<1>1. year \in Nat \ {0, 1}
  BY Zenon, <1>0, YearAssumption
<1>2. \A k \in 1..3 : Year!Parses(year - 2 + k, stamp) /\ Year!Distance(best, base) <= D(year - 2 + k)
  BY DEF YearInv
<1>3. /\ Year!Parses(year - 1, stamp) /\ Year!Distance(best, base) <= D(year - 1)
      /\ Year!Parses(year, stamp) /\ Year!Distance(best, base) <= D(year)
      /\ Year!Parses(year + 1, stamp) /\ Year!Distance(best, base) <= D(year + 1)
  <2>1. year - 2 + 1 = year - 1 /\ year - 2 + 2 = year /\ year - 2 + 3 = year + 1
    BY <1>1
  <2> QED
    BY <1>2, <2>1
<1>4. ASSUME NEW y \in Nat \ {0}, Year!Parses(y, stamp)
      PROVE  T(y) \in Nat /\ 2 * Year!Jan1(y) <= T(y) /\ T(y) < 2 * Year!Jan1(y + 1)
  BY ZenonT(60), <1>0, <1>4, TimeInYear
<1>5. T(year - 1) \in Nat /\ T(year) \in Nat /\ T(year + 1) \in Nat
  BY <1>1, <1>3, <1>4
<1>6. \A y \in Nat \ {0} : Year!Jan1(y) \in Nat
  BY YearsFollow
<1>7. T(year - 1) < base /\ base < T(year + 1)
  <2>1. T(year - 1) < 2 * Year!Jan1((year - 1) + 1) /\ (year - 1) + 1 = year
    BY <1>1, <1>3, <1>4
  <2>2. 2 * Year!Jan1(year + 1) <= T(year + 1)
    BY <1>1, <1>3, <1>4
  <2> QED
    BY SMTT(30), <1>0, <1>1, <1>5, <1>6, <2>1, <2>2
<1>8. best \in Nat
  <2>1. best \in {T(year - 2 + k) : k \in 1..tried} /\ tried = 3
    BY DEF YearInv
  <2>2. PICK k \in 1..3 : best = T(year - 2 + k)
    BY <2>1, Zenon
  <2> QED
    BY SMTT(30), <1>1, <1>2, <1>4, <2>2
<1>9. ASSUME NEW y \in Years, Year!Parses(y, stamp)
      PROVE  Year!Distance(best, base) <= D(y)
  <2>1. y \in Nat \ {0}
    BY YearAssumption
  <2>2. T(y) \in Nat
    BY Zenon, <1>4, <1>9, <2>1
  <2>3. CASE y \in {year - 1, year, year + 1}
    BY ZenonT(60), <1>3, <2>3
  <2>4. CASE y < year - 1
    <3>1. Year!Jan1(y + 1) <= Year!Jan1(year - 1)
      BY SMTT(30), <1>1, <2>1, <2>4, YearsAreOrdered
    <3>2. T(y) <= T(year - 1)
      BY SMTT(30), <1>1, <1>3, <1>4, <1>5, <1>6, <1>9, <2>1, <2>2, <3>1
    <3>3. D(year - 1) <= D(y)
      BY SMTT(30), <1>0, <1>5, <1>7, <2>2, <3>2 DEF Year!Distance
    <3> QED
      BY <1>0, <1>3, <1>5, <1>8, <2>2, <3>3 DEF Year!Distance
  <2>5. CASE y > year + 1
    <3>1. Year!Jan1((year + 1) + 1) <= Year!Jan1(y)
      <4>1. year + 1 \in Nat \ {0} /\ year + 1 < y
        BY SMTT(30), <1>1, <2>1, <2>5
      <4> QED
        BY <2>1, <4>1, YearsAreOrdered, Zenon
    <3>2. T(year + 1) <= T(y)
      BY SMTT(30), <1>1, <1>3, <1>4, <1>5, <1>6, <1>9, <2>1, <2>2, <3>1
    <3>3. D(year + 1) <= D(y)
      BY SMTT(30), <1>0, <1>5, <1>7, <2>2, <3>2 DEF Year!Distance
    <3> QED
      BY <1>0, <1>3, <1>5, <1>8, <2>2, <3>3 DEF Year!Distance
  <2> QED
    BY <1>1, <2>1, <2>3, <2>4, <2>5
<1>10. T(year) - T(year - 1) <= 732 /\ T(year + 1) - T(year) <= 732
  <2>1. year - 1 \in Nat \ {0} /\ (year - 1) + 1 = year
    BY <1>1
  <2>2. T(year) - T(year - 1) <= 732
    BY ZenonT(60), <1>0, <1>3, <2>1, StampsComeAgain
  <2> QED
    BY <1>0, <1>1, <1>3, <2>2, StampsComeAgain
<1>11. Year!Distance(best, base) <= 366
  <2>1. CASE T(year) <= base
    BY <1>0, <1>3, <1>5, <1>7, <1>8, <1>10, <2>1 DEF Year!Distance
  <2>2. CASE base < T(year)
    BY <1>0, <1>3, <1>5, <1>7, <1>8, <1>10, <2>2 DEF Year!Distance
  <2> QED
    BY <1>0, <1>5, <2>1, <2>2
<1> QED
  BY <1>9, <1>11

\* nearestRFC3164Time tries three years, and yet none of any years is nearer to the
\* time of receipt, for every stamp that it accepts and every time of receipt.
THEOREM NearestYearIsFound == Year!Spec => []NearestOfAllYears
<1>1. Year!Init => YearInv
  BY YearStarts
<1>2. YearInv /\ [Year!Next]_(Year!vars) => YearInv'
  BY YearKeeps
<1>3. YearInv => NearestOfAllYears
  BY YearInvIsNearest
<1> QED
  BY <1>1, <1>2, <1>3, PTL DEF Year!Spec
=============================================================================
