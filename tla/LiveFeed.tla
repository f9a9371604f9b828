------------------------------- MODULE LiveFeed -------------------------------
(***************************************************************************)
(* The live feed end to end: the pages' hooks open and close the           *)
(* WebSockets the backend serves, SSE clients come and go as they like,    *)
(* and other processes add rows.                                           *)
(***************************************************************************)
EXTENDS Realtime

CONSTANTS Pages, MaxMounts

ASSUME LiveFeedAssumption == MaxMounts \in Nat

VARIABLES mounted, mounts, socketRef, isConnected, timers, lastTimer, socket, threw

Hook == INSTANCE RealtimeHook

hookVars == <<mounted, mounts, socketRef, isConnected, timers, lastTimer, socket, threw>>
feedVars == <<vars, hookVars>>

Init == RealtimeInit /\ Hook!HookInit

\* A new socket: any identity neither side uses.
Spare == {s \in Sockets : conn[s] = "out" /\ socket[s].state = "none"}
New == CHOOSE s \in Spare : TRUE

PageMounts ==
  /\ Spare # {} /\ \E p \in Pages : Hook!Mount(p, Hook!Connect(p, New))
  /\ UNCHANGED vars

PageUnmounts ==
  /\ \E p \in Pages : Hook!Unmount(p)
  /\ UNCHANGED vars

TimerFires ==
  /\ Spare # {} /\ \E p \in Pages : Hook!Reconnect(p, Hook!Connect(p, New))
  /\ UNCHANGED vars

\* The constructor of WebSocket throws when a page mounts or a timer fires.
ConstructorThrows ==
  /\ \E p \in Pages :
       \/ Hook!Mount(p, Hook!ConnectThrows(p))
       \/ Hook!Reconnect(p, Hook!ConnectThrows(p))
  /\ Fault("constructor")
  /\ UNCHANGED <<rows, mark, watch, clientVars, castVars>>

Served == {"joining", "open"}

Accepts(s) ==
  /\ socket[s].state = "connecting" /\ Accept(s)
  /\ UNCHANGED hookVars

Opens(s) ==
  /\ conn[s] \in Served /\ Hook!OnOpen(s)
  /\ UNCHANGED vars

\* The browser hears that its socket is closed: it closed it, or the backend
\* no longer serves it.
Closes(s) ==
  /\ socket[s].state \in (IF conn[s] \in Served THEN {"closing"} ELSE {"open", "closing"})
  /\ Hook!OnClose(s)
  /\ UNCHANGED vars

\* An attempt to connect fails, or the connection breaks.
Breaks(s) ==
  /\ socket[s].state \in {"connecting", "open"} /\ Hook!OnClose(s)
  /\ Fault("network")
  /\ UNCHANGED <<rows, mark, watch, clientVars, castVars>>

\* The handler hears of it.
Hangs(s) ==
  /\ socket[s].state \in {"none", "closing"} /\ Lose(s)
  /\ UNCHANGED hookVars

Server(A) == A /\ UNCHANGED hookVars

\* The steps the backend takes by itself.
Watches == Server(Initialize \/ Fetch \/ FetchFails \/ TakeRow \/ Push \/ EndPoll)
Sends(s) == Server(Send(s))
Serves(c) == Server(IF c \in Sockets THEN Join(c) \/ Leave(c)
                    ELSE EnterStream(c) \/ Deliver(c))

\* The steps of the others.
Happens ==
  Server(\/ \E k \in Kinds : Insert(k)
         \/ LookupFails
         \/ \E q \in Streams : Subscribe(q) \/ Abandon(q)
         \/ Restart)

Next ==
  \/ Watches
  \/ \E s \in Sockets : Sends(s)
  \/ \E c \in Clients : Serves(c)
  \/ Happens
  \/ PageMounts
  \/ PageUnmounts
  \/ TimerFires
  \/ ConstructorThrows
  \/ \E s \in Sockets : Accepts(s)
  \/ \E s \in Sockets : Opens(s)
  \/ \E s \in Sockets : Closes(s)
  \/ \E s \in Sockets : Breaks(s)
  \/ \E s \in Sockets : Hangs(s)

\* The loop runs every task that is ready.  A handler that waits for the lock
\* gets it although the broadcast takes it again and again (asyncio's lock is
\* fair), and a client that does not read reads again or is cut off by
\* uvicorn's keepalive, so that every send returns.  The browser runs its timers and close events.
Fairness ==
  /\ WF_feedVars(Watches)
  /\ \A s \in Sockets :
       /\ WF_feedVars(Sends(s)) /\ SF_feedVars(Serves(s))
       /\ WF_feedVars(Accepts(s)) /\ WF_feedVars(Opens(s))
       /\ WF_feedVars(Closes(s)) /\ WF_feedVars(Hangs(s))
  /\ WF_feedVars(TimerFires)

Spec == Init /\ [][Next]_feedVars /\ Fairness

FeedTypeOK == TypeOK /\ Hook!HookTypeOK
OneSocketPerPage == Hook!OneSocketPerPage
PageReconnects == Hook!PageReconnects
=============================================================================
