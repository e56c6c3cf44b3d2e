--------------------------- MODULE SyslogManager ---------------------------
(***************************************************************************)
(* The syslog listeners of backend/internal/transport/syslog/manager.go:   *)
(* Start, one receive loop per UDP source, one accept loop per TCP source  *)
(* with its connection semaphore, one handler goroutine per connection,    *)
(* and Close, which main calls at shutdown and Start on a failed source.   *)
(*                                                                         *)
(* A frame is a unit of `buffered', the complete or broken frames that a   *)
(* handler's bufio.Reader already holds: they are served even after the    *)
(* socket is closed.  Pipeline.Submit either admits a frame or returns an  *)
(* error within the enqueue timeout (FrameQueue's EnqueueReturns); which   *)
(* of the two is left open here.  acceptWG and connWG are the loops and    *)
(* handlers that have not ended.                                           *)
(***************************************************************************)
EXTENDS Naturals, FiniteSets

CONSTANTS UDP, TCP,        \* the enabled sources, by protocol
          Conns,           \* connections that clients open
          MaxConnections,  \* max_connections of a TCP source
          MaxBuffered,     \* frames one read from a socket may deliver
          NoConn           \* what an accept loop holds between connections

Sources == UDP \cup TCP

ASSUME ManagerAssumption ==
    /\ UDP \cap TCP = {}
    /\ IsFiniteSet(Conns)
    /\ MaxConnections \in Nat \ {0}
    /\ MaxBuffered \in Nat \ {0}
    /\ NoConn \notin Conns

VARIABLES main,      \* progress of Start and of Close
          socket,    \* each source's listening socket
          loop,      \* each source's goroutine
          hand,      \* the connection an accept loop has just accepted
          sem,       \* length of each TCP source's semaphore channel
          conn,      \* each connection's socket
          owner,     \* the source that accepted it
          handler,   \* its goroutine
          buffered,  \* frames in its reader
          conns,     \* the map of tracked connections
          toClose,   \* Close's copy of that map, less what it has closed
          closeErr   \* an error was joined into Close's result

mainVars == <<main, toClose, closeErr>>
loopVars == <<socket, loop, hand>>
connVars == <<conn, owner, handler, buffered, conns>>
vars == <<mainVars, loopVars, sem, connVars>>

TypeOK ==
    /\ main \in {"starting", "running", "closing", "closingConns", "returned"}
    /\ socket \in [Sources -> {"none", "open", "closed"}]
    /\ loop \in [Sources -> {"none", "receive", "submit", "admit", "track",
                             "spawn", "exited"}]
    /\ hand \in [Sources -> Conns \cup {NoConn}]
    /\ sem \in [TCP -> 0..MaxConnections]
    /\ conn \in [Conns -> {"none", "open", "closed"}]
    /\ owner \in [Conns -> TCP \cup {NoConn}]
    /\ handler \in [Conns -> {"none", "read", "submit", "closed", "untracked",
                              "released", "done"}]
    /\ buffered \in [Conns -> 0..MaxBuffered]
    /\ conns \in SUBSET Conns
    /\ toClose \in SUBSET Conns
    /\ closeErr \in BOOLEAN

Init ==
    /\ main = "starting"
    /\ socket = [s \in Sources |-> "none"]
    /\ loop = [s \in Sources |-> "none"]
    /\ hand = [s \in Sources |-> NoConn]
    /\ sem = [s \in TCP |-> 0]
    /\ conn = [c \in Conns |-> "none"]
    /\ owner = [c \in Conns |-> NoConn]
    /\ handler = [c \in Conns |-> "none"]
    /\ buffered = [c \in Conns |-> 0]
    /\ conns = {} /\ toClose = {} /\ closeErr = FALSE
-----------------------------------------------------------------------------
(* Start; the order of the sources is that of the configuration, any here *)

StartSource(s) ==
    /\ main = "starting"
    /\ socket[s] = "none"
    /\ socket' = [socket EXCEPT ![s] = "open"]
    /\ loop' = [loop EXCEPT ![s] = "receive"]
    /\ UNCHANGED <<mainVars, hand, sem, connVars>>

Started ==
    /\ main = "starting"
    /\ \A s \in Sources : socket[s] # "none"
    /\ main' = "running"
    /\ UNCHANGED <<toClose, closeErr, loopVars, sem, connVars>>

\* A source whose address cannot be bound makes Start close the others.
StartFails ==
    /\ main = "starting"
    /\ \E s \in Sources : socket[s] = "none"
    /\ main' = "closing"
    /\ UNCHANGED <<toClose, closeErr, loopVars, sem, connVars>>
-----------------------------------------------------------------------------
(* startUDP's goroutine *)

Goto(s, place) == loop' = [loop EXCEPT ![s] = place]

\* An oversized datagram is rejected and counted, and the loop reads on.
UDPReceives(s) ==
    /\ loop[s] = "receive"
    /\ socket[s] = "open"
    /\ Goto(s, "submit")
    /\ UNCHANGED <<mainVars, socket, hand, sem, connVars>>

\* Whatever Submit returns.
UDPSubmitted(s) ==
    /\ loop[s] = "submit"
    /\ Goto(s, "receive")
    /\ UNCHANGED <<mainVars, socket, hand, sem, connVars>>

\* ReadFromUDP or Accept fails: always on a closed socket, but any error ends
\* the loop, and the socket then stays open until Close.
LoopEnds(s) ==
    /\ loop[s] = "receive"
    /\ Goto(s, "exited")
    /\ UNCHANGED <<mainVars, socket, hand, sem, connVars>>
-----------------------------------------------------------------------------
(* startTCP's goroutine *)

Accept(s, c) ==
    /\ loop[s] = "receive"
    /\ socket[s] = "open"
    /\ conn[c] = "none"
    /\ conn' = [conn EXCEPT ![c] = "open"]
    /\ owner' = [owner EXCEPT ![c] = s]
    /\ hand' = [hand EXCEPT ![s] = c]
    /\ Goto(s, "admit")
    /\ UNCHANGED <<mainVars, socket, sem, handler, buffered, conns>>

SlotFreeOffByOne(s) == sem[s] <= MaxConnections

SlotFree(s) == sem[s] < MaxConnections

AcquireSlot(s) ==
    /\ loop[s] = "admit"
    /\ SlotFree(s)
    /\ sem' = [sem EXCEPT ![s] = @ + 1]
    /\ Goto(s, "track")
    /\ UNCHANGED <<mainVars, socket, hand, connVars>>

\* The default case of the select: Dropped{admission, connection_limit}.
RefuseConnection(s) ==
    /\ loop[s] = "admit"
    /\ ~SlotFree(s)
    /\ conn' = [conn EXCEPT ![hand[s]] = "closed"]
    /\ hand' = [hand EXCEPT ![s] = NoConn]
    /\ Goto(s, "receive")
    /\ UNCHANGED <<mainVars, socket, sem, owner, handler, buffered, conns>>

trackConnection(s) ==
    /\ loop[s] = "track"
    /\ conns' = conns \cup {hand[s]}
    /\ Goto(s, "spawn")
    /\ UNCHANGED <<mainVars, socket, hand, sem, conn, owner, handler, buffered>>

\* connWG.Add(1) and the go statement.
Spawn(s) ==
    /\ loop[s] = "spawn"
    /\ handler' = [handler EXCEPT ![hand[s]] = "read"]
    /\ hand' = [hand EXCEPT ![s] = NoConn]
    /\ Goto(s, "receive")
    /\ UNCHANGED <<mainVars, socket, sem, conn, owner, buffered, conns>>
-----------------------------------------------------------------------------
(* handleTCP and the deferred calls around it *)

\* The reader asks the socket for more only when it holds no complete frame.
Fill(c) ==
    /\ handler[c] = "read"
    /\ conn[c] = "open"
    /\ buffered[c] = 0
    /\ \E n \in 1..MaxBuffered : buffered' = [buffered EXCEPT ![c] = n]
    /\ UNCHANGED <<mainVars, loopVars, sem, conn, owner, handler, conns>>

\* readFrame returns a payload; an empty one is skipped without a Submit.
ReadFrame(c) ==
    /\ handler[c] = "read"
    /\ buffered[c] > 0
    /\ buffered' = [buffered EXCEPT ![c] = @ - 1]
    /\ \/ handler' = [handler EXCEPT ![c] = "submit"]
       \/ UNCHANGED handler
    /\ UNCHANGED <<mainVars, loopVars, sem, conn, owner, conns>>

Submitted(c) ==
    /\ handler[c] = "submit"
    /\ handler' = [handler EXCEPT ![c] = "read"]
    /\ UNCHANGED <<mainVars, loopVars, sem, conn, owner, buffered, conns>>

ReturnsWithoutClose(c) ==
    /\ handler[c] \in {"read", "submit"}
    /\ handler' = [handler EXCEPT ![c] = "closed"]
    /\ UNCHANGED <<mainVars, loopVars, sem, conn, owner, buffered, conns>>

\* handleTCP returns and closes the connection: a failed Submit, a frame that
\* is broken or too large, or an end, error or deadline of the socket.
HandlerReturns(c) ==
    /\ handler[c] \in {"read", "submit"}
    /\ handler' = [handler EXCEPT ![c] = "closed"]
    /\ conn' = [conn EXCEPT ![c] = "closed"]
    /\ UNCHANGED <<mainVars, loopVars, sem, owner, buffered, conns>>

untrackConnection(c) ==
    /\ handler[c] = "closed"
    /\ conns' = conns \ {c}
    /\ handler' = [handler EXCEPT ![c] = "untracked"]
    /\ UNCHANGED <<mainVars, loopVars, sem, conn, owner, buffered>>

SlotNotReleased(c) ==
    /\ handler[c] = "untracked"
    /\ handler' = [handler EXCEPT ![c] = "released"]
    /\ UNCHANGED <<mainVars, loopVars, sem, conn, owner, buffered, conns>>

ReleaseSlot(c) ==
    /\ handler[c] = "untracked"
    /\ sem' = [sem EXCEPT ![owner[c]] = @ - 1]
    /\ handler' = [handler EXCEPT ![c] = "released"]
    /\ UNCHANGED <<mainVars, loopVars, conn, owner, buffered, conns>>

\* connWG.Done()
HandlerDone(c) ==
    /\ handler[c] = "released"
    /\ handler' = [handler EXCEPT ![c] = "done"]
    /\ UNCHANGED <<mainVars, loopVars, sem, conn, owner, buffered, conns>>
-----------------------------------------------------------------------------
(* Close *)

LoopsDone == \A s \in Sources : loop[s] \in {"none", "exited"}

HandlersDone == \A c \in Conns : handler[c] \in {"none", "done"}

\* main: accepting is off, then sources.Close().
Shutdown ==
    /\ main = "running"
    /\ main' = "closing"
    /\ UNCHANGED <<toClose, closeErr, loopVars, sem, connVars>>

CloseSource(s) ==
    /\ main = "closing"
    /\ socket[s] = "open"
    /\ socket' = [socket EXCEPT ![s] = "closed"]
    /\ UNCHANGED <<mainVars, loop, hand, sem, connVars>>

CopyWithoutWaiting ==
    /\ main = "closing"
    /\ \A s \in Sources : socket[s] # "open"
    /\ main' = "closingConns"
    /\ toClose' = conns
    /\ UNCHANGED <<closeErr, loopVars, sem, connVars>>

\* acceptWG.Wait() returns; the tracked connections are copied under the lock.
CopyConnections ==
    /\ main = "closing"
    /\ \A s \in Sources : socket[s] # "open"
    /\ LoopsDone
    /\ main' = "closingConns"
    /\ toClose' = conns
    /\ UNCHANGED <<closeErr, loopVars, sem, connVars>>

\* Closing a connection that its handler has closed already is an error.
CloseConnection(c) ==
    /\ main = "closingConns"
    /\ c \in toClose
    /\ toClose' = toClose \ {c}
    /\ closeErr' = (closeErr \/ conn[c] = "closed")
    /\ conn' = [conn EXCEPT ![c] = "closed"]
    /\ UNCHANGED <<main, loopVars, sem, owner, handler, buffered, conns>>

\* connWG.Wait() returns.
CloseReturn ==
    /\ main = "closingConns"
    /\ toClose = {}
    /\ HandlersDone
    /\ main' = "returned"
    /\ UNCHANGED <<toClose, closeErr, loopVars, sem, connVars>>

UDPLoop(s) == UDPReceives(s) \/ UDPSubmitted(s) \/ LoopEnds(s)

TCPLoop(s) ==
    \/ \E c \in Conns : Accept(s, c)
    \/ AcquireSlot(s) \/ RefuseConnection(s)
    \/ trackConnection(s) \/ Spawn(s) \/ LoopEnds(s)

Handler(c) ==
    \/ Fill(c) \/ ReadFrame(c) \/ Submitted(c) \/ HandlerReturns(c)
    \/ untrackConnection(c) \/ ReleaseSlot(c) \/ HandlerDone(c)

Main ==
    \/ \E s \in Sources : StartSource(s) \/ CloseSource(s)
    \/ Started \/ StartFails \/ Shutdown
    \/ CopyConnections \/ CloseReturn
    \/ \E c \in Conns : CloseConnection(c)

Rest == main = "returned" /\ UNCHANGED vars

Next ==
    \/ \E s \in UDP : UDPLoop(s)
    \/ \E s \in TCP : TCPLoop(s)
    \/ \E c \in Conns : Handler(c)
    \/ Main
    \/ Rest

Spec == Init /\ [][Next]_vars

(* A goroutine that is not waiting for its peer runs on: a loop whose socket *)
(* is closed fails its read, a handler serves what it has buffered and then  *)
(* fails its read, Submit returns within the enqueue timeout.  Peers need    *)
(* not connect, send or hang up, and nobody has to call Close.               *)
AwaitsPeer(c) == handler[c] = "read" /\ conn[c] = "open" /\ buffered[c] = 0

Fairness ==
    /\ \A s \in UDP :
         WF_vars(UDPLoop(s) /\ (loop[s] # "receive" \/ socket[s] = "closed"))
    /\ \A s \in TCP :
         WF_vars(TCPLoop(s) /\ (loop[s] # "receive" \/ socket[s] = "closed"))
    /\ \A c \in Conns : WF_vars(Handler(c) /\ ~AwaitsPeer(c))
    /\ \A s \in Sources : WF_vars(CloseSource(s))
    /\ \A c \in Conns : WF_vars(CloseConnection(c))
    /\ WF_vars(CopyConnections \/ CloseReturn)

FairSpec == Spec /\ Fairness
-----------------------------------------------------------------------------
(* Properties *)

\* Connections of s that occupy a slot of its semaphore.
Holders(s) ==
    {c \in Conns : /\ owner[c] = s
                   /\ \/ hand[s] = c /\ loop[s] \in {"track", "spawn"}
                      \/ handler[c] \in {"read", "submit", "closed", "untracked"}}

\* The semaphore of a TCP source counts exactly its connections that are being
\* served: no slot leaks, on any way out of handleTCP, and none is given twice,
\* so connections are refused only while max_connections are really served.
SlotsMatchConnections == \A s \in TCP : sem[s] = Cardinality(Holders(s))

\* Close can reach every open connection: it is tracked, or still in the hand of
\* an accept loop that Close waits for.
OpenIsReachable ==
    \A c \in Conns : conn[c] = "open" => c \in conns \/ \E s \in TCP : hand[s] = c

\* When Close returns nothing of the manager is left: no socket is open, no loop
\* or handler runs that could still call Submit, no slot is taken.
CloseLeavesNothing ==
    main = "returned" =>
        /\ \A s \in Sources : socket[s] # "open"
        /\ LoopsDone /\ HandlersDone
        /\ \A c \in Conns : conn[c] # "open"
        /\ conns = {}
        /\ \A s \in TCP : sem[s] = 0

\* Close returns even if no peer ever sends or hangs up.
CloseReturns == main = "closing" ~> main = "returned"

\* integration_test.go:116 takes a nil error of Close for granted.
CloseIsClean == main = "returned" => ~closeErr

\* Slots are those of the connections being served, and never more than
\* max_connections: the semaphore of receiveTCP bounds what its source serves.
SlotsAreExact ==
    SlotsMatchConnections /\ \A s \in TCP : sem[s] <= MaxConnections
=============================================================================
