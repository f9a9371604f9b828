----------------------------- MODULE RealtimeHook -----------------------------
(***************************************************************************)
(* useRealtime, the hook through which a page of the dashboard listens: it *)
(* opens a WebSocket when the page mounts, reconnects after a delay when   *)
(* one closes, and closes the current one when the page goes.  The delay   *)
(* (1 s growing to 10 s) is abstracted to a timer that fires some time.    *)
(***************************************************************************)
EXTENDS Naturals, FiniteSets

CONSTANTS
  None,
  Sockets,
  Pages,     \* the components that call the hook, each with its own refs
  MaxMounts  \* how often one component's effect runs (2 in React's StrictMode)

VARIABLES
  mounted,    \* whether the page's effect is in force
  mounts,     \* how often it has run (bound)
  socketRef,  \* the socket the page knows
  isConnected,
  timers,     \* the reconnect timers pending for a page
  lastTimer,  \* whether the one reconnectTimeoutRef names is among them
  socket,     \* the browser's side of every socket: [state, page]
  threw       \* whether a connect() of the page has ended in its catch

hookVars == <<mounted, mounts, socketRef, isConnected, timers, lastTimer, socket, threw>>

Unused == [state |-> "none", page |-> None]

HookTypeOK ==
  /\ mounted \in [Pages -> BOOLEAN] /\ lastTimer \in [Pages -> BOOLEAN]
  /\ mounts \in [Pages -> 0 .. MaxMounts]
  /\ socketRef \in [Pages -> Sockets \cup {None}]
  /\ isConnected \in [Pages -> BOOLEAN] /\ threw \in [Pages -> BOOLEAN]
  /\ timers \in [Pages -> Nat]
  /\ \A p \in Pages : lastTimer[p] => timers[p] > 0
  /\ socket \in [Sockets -> [state: {"none", "connecting", "open", "closing"},
                             page: Pages \cup {None}]]

HookInit ==
  /\ mounted = [p \in Pages |-> FALSE] /\ lastTimer = mounted /\ threw = mounted
  /\ mounts = [p \in Pages |-> 0]
  /\ socketRef = [p \in Pages |-> None]
  /\ isConnected = [p \in Pages |-> FALSE]
  /\ timers = [p \in Pages |-> 0]
  /\ socket = [s \in Sockets |-> Unused]

\* The sockets with the page's current one closed, if it has one.  Mutant:
\* the old connection is not cleaned up.
CloseNothing(p) == socket

CloseCurrent(p) ==
  [s \in Sockets |-> IF s = socketRef[p] THEN [socket[s] EXCEPT !.state = "closing"]
                     ELSE socket[s]]

\* connect(): close the current socket and open s.
Connect(p, s) ==
  /\ socket[s].state = "none"
  /\ socket' = [CloseCurrent(p) EXCEPT ![s] = [state |-> "connecting", page |-> p]]
  /\ socketRef' = [socketRef EXCEPT ![p] = s]
  /\ UNCHANGED <<isConnected, threw>>

\* The browser refuses to make one: the current socket is closed all the same,
\* and only its close event, if there was one, leads to another attempt.
ConnectThrows(p) ==
  /\ socket' = CloseCurrent(p)
  /\ socketRef' = [socketRef EXCEPT ![p] = None]
  /\ isConnected' = [isConnected EXCEPT ![p] = FALSE]
  /\ threw' = [threw EXCEPT ![p] = TRUE]

\* The effect runs, with what its connect() does.
Mount(p, connect) ==
  /\ ~mounted[p] /\ mounts[p] < MaxMounts
  /\ mounted' = [mounted EXCEPT ![p] = TRUE]
  /\ mounts' = [mounts EXCEPT ![p] = @ + 1]
  /\ connect
  /\ UNCHANGED <<timers, lastTimer>>

\* The cleanup clears the timer it knows and closes the current socket.
Unmount(p) ==
  /\ mounted[p]
  /\ mounted' = [mounted EXCEPT ![p] = FALSE]
  /\ timers' = IF lastTimer[p] THEN [timers EXCEPT ![p] = @ - 1] ELSE timers
  /\ lastTimer' = [lastTimer EXCEPT ![p] = FALSE]
  /\ socket' = CloseCurrent(p)
  /\ socketRef' = [socketRef EXCEPT ![p] = None]
  /\ UNCHANGED <<mounts, isConnected, threw>>

OnOpen(s) ==
  /\ socket[s].state = "connecting"
  /\ socket' = [socket EXCEPT ![s].state = "open"]
  /\ isConnected' = [isConnected EXCEPT ![socket[s].page] = TRUE]
  /\ UNCHANGED <<mounted, mounts, socketRef, timers, lastTimer, threw>>

\* Every closed socket schedules a reconnect, whoever closed it and why.
CloseAndRetry(s, retry) ==
  LET p == socket[s].page IN
  /\ socket[s].state # "none"
  /\ socket' = [socket EXCEPT ![s] = Unused]
  /\ isConnected' = [isConnected EXCEPT ![p] = FALSE]
  /\ timers' = IF retry THEN [timers EXCEPT ![p] = @ + 1] ELSE timers
  /\ lastTimer' = IF retry THEN [lastTimer EXCEPT ![p] = TRUE] ELSE lastTimer
  \* The model reuses the identity: a ref to the closed socket closes nothing.
  /\ socketRef' = [q \in Pages |-> IF socketRef[q] = s THEN None ELSE socketRef[q]]
  /\ UNCHANGED <<mounted, mounts, threw>>

\* Mutant: only a connection that was open is tried again.
OnCloseOnce(s) == CloseAndRetry(s, socket[s].state = "open")

OnClose(s) == CloseAndRetry(s, TRUE)

\* A timer fires, the one the ref names or an older one, with what its
\* connect() does.
Reconnect(p, connect) ==
  /\ timers[p] > 0
  /\ timers' = [timers EXCEPT ![p] = @ - 1]
  /\ \E last \in BOOLEAN :
       /\ last => lastTimer[p]
       /\ ~last => timers[p] > (IF lastTimer[p] THEN 1 ELSE 0)
       /\ lastTimer' = [lastTimer EXCEPT ![p] = @ /\ ~last]
  /\ connect
  /\ UNCHANGED <<mounted, mounts>>

-----------------------------------------------------------------------------
Live(p) == {s \in Sockets : socket[s].page = p /\ socket[s].state \in {"connecting", "open"}}

\* A component holds at most one socket that is connecting or open, the one
\* its ref names: also after its page has gone, when only the next timer closes
\* what the last one opened, and after a second mount, whose socket the timers
\* of the first one replace.
OneSocketPerPage == \A p \in Pages : Live(p) \subseteq {socketRef[p]}

\* A page on its first mount is connected again and again: no close, failed
\* attempt or restart of the backend ends the reconnecting.  A constructor that
\* throws may: the catch schedules nothing.  After a second mount the sockets of
\* the two close each other and each close schedules the next attempt, so that
\* nothing is claimed.
PageReconnects ==
  \A p \in Pages :
    mounted[p] /\ mounts[p] = 1 ~> isConnected[p] \/ ~mounted[p] \/ threw[p]
=============================================================================
