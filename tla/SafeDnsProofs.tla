--------------------------- MODULE SafeDnsProofs ---------------------------
(***************************************************************************)
(* Proofs about SafeDns, whatever overlaps and fails and for every window, *)
(* clock bound and number of threads and requests: type correctness, and   *)
(* what keeps a window that was armed with nothing else in flight.         *)
(***************************************************************************)
EXTENDS SafeDns, FiniteSetTheorems, TLAPS

\* Every step leaves the fields of a request it does not name alone.
LEMMA GotoType ==
  ASSUME api \in [Threads -> Request], NEW t \in Threads, NEW pc \in ApiPCs,
         Goto(t, pc)
  PROVE  /\ api' \in [Threads -> Request]
         /\ api'[t].pc = pc /\ api'[t].mode = api[t].mode
         /\ api'[t].expires = api[t].expires
         /\ api'[t].stale = api[t].stale /\ api'[t].since = api[t].since
         /\ \A u \in Threads \ {t} : api'[u] = api[u]
  BY DEF Goto, Request

LEMMA RespondType ==
  ASSUME api \in [Threads -> Request], NEW t \in Threads, Respond(t)
  PROVE  /\ api' \in [Threads -> Request]
         /\ api'[t] = NoRequest
         /\ \A u \in Threads \ {t} : api'[u] = api[u]
  BY SafeDnsAssumption DEF Respond, Request, NoRequest, ApiPCs, Time

LEMMA ReturnStatusType ==
  ASSUME api \in [Threads -> Request], NEW t \in Threads, ReturnStatus(t)
  PROVE  /\ api' \in [Threads -> Request]
         /\ api'[t].pc = "info" /\ api'[t].since = api[t].since
         /\ \A u \in Threads \ {t} : api'[u] = api[u]
<1> DEFINE r == [NoRequest EXCEPT !.pc = "info", !.since = api[t].since]
<1>1. r \in Request /\ r.pc = "info" /\ r.since = api[t].since
  BY SafeDnsAssumption DEF NoRequest, Request, ApiPCs, Time
<1>2. api' = [api EXCEPT ![t] = r]
  BY DEF ReturnStatus
<1> HIDE DEF r
<1> QED
  BY <1>1, <1>2

LEMMA FaultType ==
  ASSUME struck \subseteq FaultKinds, Cardinality(struck) <= MaxFaults,
         NEW kind, Fault(kind)
  PROVE  struck' \subseteq FaultKinds /\ Cardinality(struck') <= MaxFaults
<1>1. IsFiniteSet(FaultKinds)
  <2>1. ASSUME NEW a, NEW b, NEW c, NEW d PROVE IsFiniteSet({a, b, c, d})
    <3>1. IsFiniteSet({a, b})
      <4>1. IsFiniteSet({a} \cup {b})
        BY FS_Singleton, FS_AddElement
      <4>2. {a} \cup {b} = {a, b}
        OBVIOUS
      <4> QED
        BY <4>1, <4>2
    <3>2. IsFiniteSet({a, b} \cup {c})
      BY <3>1, FS_AddElement
    <3>3. IsFiniteSet(({a, b} \cup {c}) \cup {d})
      BY <3>2, FS_AddElement
    <3>4. ({a, b} \cup {c}) \cup {d} = {a, b, c, d}
      OBVIOUS
    <3> QED
      BY <3>3, <3>4
  <2> DEFINE left == {"refused", "lost", "timeout", "readonly"}
             right == {"full", "unreadable", "revert", "crash"}
  <2>2. IsFiniteSet(left) /\ IsFiniteSet(right)
    BY <2>1
  <2>3. IsFiniteSet(left \cup right)
    <3> HIDE DEF left, right
    <3> QED
      BY <2>2, FS_Union
  <2>4. FaultKinds = left \cup right
    BY DEF FaultKinds
  <2> QED
    BY <2>3, <2>4
<1>2. IsFiniteSet(struck)
  BY <1>1, FS_Subset
<1>3. struck' = struck \cup {kind} /\ kind \notin struck
  BY DEF Fault
<1>4. Cardinality(struck') = Cardinality(struck) + 1 /\ Cardinality(struck) \in Nat
  BY <1>2, <1>3, FS_AddElement, FS_CardinalityType
<1> QED
  BY <1>3, <1>4, SafeDnsAssumption DEF Fault

(***************************************************************************)
(* What holds of every request at a time: the window it is about to write  *)
(* ends within the clock's bound, since it began at most one tick ago.     *)
(***************************************************************************)
Timely(r, time) ==
  /\ r \in Request
  /\ r.pc # "idle" => r.since <= time /\ time <= r.since + 1
  /\ r.pc = "switch" => r.mode \in Mode
  /\ r.pc = "switch" /\ r.mode = "dnsmasq" => r.since + 1 + Window <= MaxTime
  /\ r.pc = "stamp" => r.since + 1 + Window <= MaxTime
  /\ r.pc \in {"truncate", "write"} => r.expires \in Time

SharedOK ==
  /\ router \in Mode \cup {"custom"}
  /\ deadline \in Time \cup {None, Empty}
  /\ now \in Time
  /\ timer \in Check
  /\ posts \in 0 .. MaxPosts
  /\ orphans \subseteq Mode
  /\ struck \subseteq FaultKinds /\ Cardinality(struck) <= MaxFaults

TypeInv ==
  /\ SharedOK
  /\ api \in [Threads -> Request]
  /\ \A t \in Threads : Timely(api[t], now)

CleanOK == clean \in BOOLEAN

LEMMA TypeInvImplies == TypeInv /\ CleanOK => TypeOK
<1> SUFFICES ASSUME TypeInv, clean \in BOOLEAN PROVE TypeOK
  BY DEF CleanOK
<1>1. \A t \in Threads :
        /\ api[t].pc = "switch" => api[t].mode # None
        /\ api[t].pc \in {"truncate", "write"} => api[t].expires # None
  BY SafeDnsAssumption DEF TypeInv, Timely, Mode, Time
<1> QED
  BY <1>1, Zenon DEF TypeInv, SharedOK, TypeOK

LEMMA CleanStep == CleanOK /\ [Next]_vars => CleanOK'
<1> SUFFICES ASSUME clean \in BOOLEAN, [Next]_vars PROVE clean' \in BOOLEAN
  BY Zenon DEF CleanOK
<1>1. ASSUME NEW t \in Threads, WriteDeadline(t) PROVE clean' \in BOOLEAN
  <2>1. Undisturbed(t) \in BOOLEAN
    BY Zenon DEF Undisturbed
  <2> QED
    BY <1>1, <2>1, Zenon DEF WriteDeadline
<1>2. ASSUME clean' = FALSE \/ clean' = clean PROVE clean' \in BOOLEAN
  BY <1>2, Zenon
<1>3. \/ \E t \in Threads : WriteDeadline(t)
      \/ clean' = FALSE
      \/ clean' = clean
  BY Zenon DEF Next, vars, PostMode, GetStatus, ApiStep, ApiFault, Switch,
         StampDeadline, TruncateDeadline, ClearDeadline, ReadDeadline, ReadRouter,
         DropDeadline, SwitchLost, SwitchRefused, SwitchTimesOut, WriteFails,
         ClearFails, RouterUnreachable, RouterUnreadable, OrphanEnds, ApiCrash,
         HostRestarts, StartCheck, Checking, ReadContent, Revert, RemoveDeadline,
         CheckFault, RevertFails, RemoveFails, PanelChange, Tick
<1> QED
  BY <1>1, <1>2, <1>3, Zenon

\* A step of one request owes its new state only.
LEMMA RequestStep ==
  ASSUME TypeInv, SharedOK', UNCHANGED now, NEW t \in Threads,
         api' \in [Threads -> Request],
         \A u \in Threads \ {t} : api'[u] = api[u],
         Timely(api'[t], now)
  PROVE  TypeInv'
<1>1. \A u \in Threads : Timely(api'[u], now)
  BY DEF TypeInv
<1> QED
  BY <1>1 DEF TypeInv

\* A request that goes on keeps its mode and its time.
LEMMA GotoStep ==
  ASSUME TypeInv, SharedOK', UNCHANGED now, NEW t \in Threads,
         NEW pc \in ApiPCs \ {"switch"}, Goto(t, pc), api[t].pc # "idle",
         pc = "stamp" => api[t].pc = "switch" /\ api[t].mode = "dnsmasq",
         pc \in {"truncate", "write"} => api[t].expires \in Time
  PROVE  TypeInv'
<1>1. Timely(api[t], now) /\ api \in [Threads -> Request]
  BY DEF TypeInv
<1>2. /\ api' \in [Threads -> Request]
      /\ api'[t].pc = pc /\ api'[t].expires = api[t].expires
      /\ api'[t].since = api[t].since
      /\ \A u \in Threads \ {t} : api'[u] = api[u]
  BY <1>1, GotoType
<1>3. Timely(api'[t], now)
  BY <1>1, <1>2 DEF Timely
<1> QED
  BY <1>2, <1>3, RequestStep

\* A request that is answered is gone.
LEMMA RespondStep ==
  ASSUME TypeInv, SharedOK', UNCHANGED now, NEW t \in Threads, Respond(t)
  PROVE  TypeInv'
<1>1. api \in [Threads -> Request]
  BY DEF TypeInv
<1>2. /\ api' \in [Threads -> Request]
      /\ api'[t] = NoRequest
      /\ \A u \in Threads \ {t} : api'[u] = api[u]
  BY <1>1, RespondType
<1>3. api'[t] \in Request /\ api'[t].pc = "idle"
  <2>1. api'[t] \in Request
    BY <1>2
  <2>2. NoRequest.pc = "idle"
    BY DEF NoRequest
  <2> QED
    BY <1>2, <2>1, <2>2
<1>4. Timely(api'[t], now)
  BY <1>3 DEF Timely
<1> QED
  BY <1>2, <1>4, RequestStep

LEMMA ReturnStatusStep ==
  ASSUME TypeInv, SharedOK', UNCHANGED now, NEW t \in Threads, ReturnStatus(t),
         api[t].pc # "idle"
  PROVE  TypeInv'
<1>1. Timely(api[t], now) /\ api \in [Threads -> Request]
  BY DEF TypeInv
<1>2. /\ api' \in [Threads -> Request]
      /\ api'[t].pc = "info" /\ api'[t].since = api[t].since
      /\ \A u \in Threads \ {t} : api'[u] = api[u]
  BY <1>1, ReturnStatusType
<1>3. Timely(api'[t], now)
  BY <1>1, <1>2 DEF Timely
<1> QED
  BY <1>2, <1>3, RequestStep

LEMMA FaultShared ==
  ASSUME SharedOK, NEW kind, Fault(kind)
  PROVE  struck' \subseteq FaultKinds /\ Cardinality(struck') <= MaxFaults
  BY FaultType DEF SharedOK

\* The deadline set_mode writes is one the clock reaches.
LEMMA WindowInTime ==
  ASSUME TypeInv, NEW t \in Threads, api[t].pc = "stamp"
  PROVE  now + Window \in Time
<1>1. Timely(api[t], now) /\ now \in Nat
  BY DEF TypeInv, SharedOK, Time
<1>2. /\ now <= api[t].since + 1 /\ api[t].since + 1 + Window <= MaxTime
      /\ api[t].since \in Nat
  BY <1>1 DEF Timely, Request, Time
<1> QED
  BY <1>1, <1>2, SafeDnsAssumption DEF Time

\* The state that requests, the check and the router share.
LEMMA SharedStep == ASSUME TypeInv, [Next]_vars PROVE SharedOK'
<1> USE SafeDnsAssumption DEF SharedOK
<1>0. SharedOK
  BY DEF TypeInv
<1>1. ASSUME NEW t \in Threads, NEW mode \in Mode, PostMode(t, mode)
      PROVE  SharedOK'
  BY <1>0, <1>1 DEF PostMode
<1>2. ASSUME NEW t \in Threads, GetStatus(t) \/ StampDeadline(t) \/ ReadDeadline(t)
                                  \/ ReadRouter(t)
      PROVE  SharedOK'
  BY <1>0, <1>2 DEF GetStatus, StampDeadline, ReadDeadline, ReadRouter
<1>3. ASSUME NEW t \in Threads, Switch(t) PROVE SharedOK'
  <2>1. api[t].mode \in Mode
    BY <1>3 DEF Switch, TypeInv, Timely
  <2> QED
    BY <1>0, <1>3, <2>1 DEF Switch
<1>4. ASSUME NEW t \in Threads,
             TruncateDeadline(t) \/ ClearDeadline(t) \/ DropDeadline(t)
      PROVE  SharedOK'
  BY <1>0, <1>4 DEF TruncateDeadline, ClearDeadline, DropDeadline
<1>5. ASSUME NEW t \in Threads, WriteDeadline(t) PROVE SharedOK'
  <2>1. api[t].expires \in Time
    BY <1>5 DEF WriteDeadline, TypeInv, Timely
  <2> QED
    BY <1>0, <1>5, <2>1 DEF WriteDeadline
<1>6. ASSUME NEW t \in Threads, ApiFault(t) PROVE SharedOK'
  <2>1. struck' \subseteq FaultKinds /\ Cardinality(struck') <= MaxFaults
    BY <1>0, <1>6, FaultShared
    DEF ApiFault, SwitchLost, SwitchRefused, SwitchTimesOut, WriteFails,
        ClearFails, RouterUnreachable, RouterUnreadable
  <2>2. UNCHANGED <<router, deadline, now, timer, posts, clean>>
    BY <1>6 DEF ApiFault, SwitchLost, SwitchRefused, SwitchTimesOut, WriteFails,
                ClearFails, RouterUnreachable, RouterUnreadable
  <2>3. orphans' \subseteq Mode
    <3>1. CASE SwitchTimesOut(t)
      <4>1. api[t].mode \in Mode
        BY <3>1 DEF SwitchTimesOut, TypeInv, Timely
      <4> QED
        BY <1>0, <3>1, <4>1 DEF SwitchTimesOut
    <3>2. CASE UNCHANGED orphans
      BY <1>0, <3>2
    <3> QED
      BY <1>6, <3>1, <3>2
      DEF ApiFault, SwitchLost, SwitchRefused, WriteFails, ClearFails,
          RouterUnreachable, RouterUnreadable
  <2> QED
    BY <1>0, <2>1, <2>2, <2>3
<1>7. CASE ApiCrash \/ HostRestarts \/ CheckFault
  <2>1. struck' \subseteq FaultKinds /\ Cardinality(struck') <= MaxFaults
    BY <1>0, <1>7, FaultShared
    DEF ApiCrash, HostRestarts, CheckFault, RevertFails, RemoveFails
  <2>2. timer' \in Check
    BY <1>0, <1>7 DEF ApiCrash, HostRestarts, CheckFault, RevertFails,
                      RemoveFails, Check, NoCheck, Time
  <2> QED
    BY <1>0, <1>7, <2>1, <2>2
    DEF ApiCrash, HostRestarts, CheckFault, RevertFails, RemoveFails
<1>8. CASE StartCheck \/ Checking
  <2>1. timer' \in Check
    BY <1>0, <1>8 DEF StartCheck, Checking, ReadContent, Revert, RemoveDeadline,
                      Check, NoCheck, Time
  <2> QED
    BY <1>0, <1>8, <2>1
    DEF StartCheck, Checking, ReadContent, Revert, RemoveDeadline, Mode
<1>9. CASE PanelChange \/ (\E mode \in orphans : OrphanEnds(mode)) \/ UNCHANGED vars
  BY <1>0, <1>9 DEF PanelChange, OrphanEnds, Mode, vars
<1>10. CASE Tick
  BY <1>0, <1>10 DEF Tick, Time
<1> QED
  BY <1>1, <1>2, <1>3, <1>4, <1>5, <1>6, <1>7, <1>8, <1>9, <1>10
  DEF Next, ApiStep

LEMMA StepTypes == ASSUME TypeInv, [Next]_vars PROVE TypeInv'
<1> USE SafeDnsAssumption
<1>0. /\ SharedOK /\ SharedOK' /\ api \in [Threads -> Request]
      /\ \A t \in Threads : Timely(api[t], now)
  BY SharedStep DEF TypeInv
<1>1. ASSUME NEW t \in Threads, NEW mode \in Mode, PostMode(t, mode)
      PROVE  TypeInv'
  <2> DEFINE r == [NoRequest EXCEPT !.pc = "switch", !.mode = mode, !.since = now]
  <2>1. r \in Request /\ r.pc = "switch" /\ r.mode = mode /\ r.since = now
    BY <1>0 DEF NoRequest, Request, ApiPCs, SharedOK
  <2>2. api' = [api EXCEPT ![t] = r] /\ UNCHANGED now
        /\ (mode = "dnsmasq" => now + 1 + Window <= MaxTime)
    BY <1>1 DEF PostMode
  <2> HIDE DEF r
  <2>3. /\ api' \in [Threads -> Request] /\ api'[t] = r
        /\ \A u \in Threads \ {t} : api'[u] = api[u]
    BY <1>0, <2>1, <2>2
  <2>4. Timely(r, now)
    BY <1>0, <2>1, <2>2 DEF Timely, SharedOK, Time
  <2> QED
    BY <1>0, <2>2, <2>3, <2>4, RequestStep
<1>2. ASSUME NEW t \in Threads, GetStatus(t) PROVE TypeInv'
  <2> DEFINE r == [NoRequest EXCEPT !.pc = "info", !.since = now]
  <2>1. r \in Request /\ r.pc = "info" /\ r.since = now
    BY <1>0 DEF NoRequest, Request, ApiPCs, SharedOK
  <2>2. api' = [api EXCEPT ![t] = r] /\ UNCHANGED now
    BY <1>2 DEF GetStatus
  <2> HIDE DEF r
  <2>3. /\ api' \in [Threads -> Request] /\ api'[t] = r
        /\ \A u \in Threads \ {t} : api'[u] = api[u]
    BY <1>0, <2>1, <2>2
  <2>4. Timely(r, now)
    BY <1>0, <2>1 DEF Timely, SharedOK, Time
  <2> QED
    BY <1>0, <2>2, <2>3, <2>4, RequestStep
<1>3. ASSUME NEW t \in Threads, Switch(t) \/ SwitchLost(t) PROVE TypeInv'
  <2>1. /\ api[t].pc = "switch" /\ api[t].mode \in {"dnsmasq", "router"}
        /\ UNCHANGED now
        /\ Goto(t, IF api[t].mode = "dnsmasq" THEN "stamp" ELSE "clear")
    BY <1>0, <1>3 DEF Switch, SwitchLost, AfterSwitch, Timely, Mode
  <2>2. CASE api[t].mode = "dnsmasq"
    BY <1>0, <2>1, <2>2, GotoStep DEF ApiPCs
  <2>3. CASE api[t].mode = "router"
    BY <1>0, <2>1, <2>3, GotoStep DEF ApiPCs
  <2> QED
    BY <2>1, <2>2, <2>3
<1>4. ASSUME NEW t \in Threads,
             SwitchRefused(t) \/ SwitchTimesOut(t) \/ RouterUnreachable(t)
               \/ DropDeadline(t)
      PROVE  TypeInv'
  BY <1>0, <1>4, RespondStep
  DEF SwitchRefused, SwitchTimesOut, RouterUnreachable, DropDeadline
<1>5. ASSUME NEW t \in Threads, TruncateDeadline(t) PROVE TypeInv'
  BY <1>0, <1>5, GotoStep DEF TruncateDeadline, Timely, ApiPCs
<1>6. ASSUME NEW t \in Threads, WriteDeadline(t) \/ WriteFails(t) \/ ClearDeadline(t)
      PROVE  TypeInv'
  <2>1. ReturnStatus(t) /\ api[t].pc # "idle" /\ UNCHANGED now
    BY <1>6 DEF WriteDeadline, WriteFails, ClearDeadline
  <2> QED
    BY <1>0, <2>1, ReturnStatusStep
<1>7. ASSUME NEW t \in Threads,
             ClearFails(t) \/ ReadRouter(t) \/ RouterUnreadable(t)
      PROVE  TypeInv'
  <2>1. /\ api[t].pc # "idle" /\ UNCHANGED now
        /\ ReturnStatus(t) \/ Goto(t, "drop") \/ Respond(t)
    BY <1>7 DEF ClearFails, ReadRouter, RouterUnreadable
  <2> QED
    BY <1>0, <2>1, GotoStep, ReturnStatusStep, RespondStep DEF ApiPCs
<1>8. ASSUME NEW t \in Threads, ReadDeadline(t) PROVE TypeInv'
  <2>1. Timely(api[t], now) /\ api[t].pc = "info" /\ UNCHANGED now
    BY <1>0, <1>8 DEF ReadDeadline
  <2>2. /\ api' \in [Threads -> Request]
        /\ api'[t].pc = "read" /\ api'[t].since = api[t].since
        /\ \A u \in Threads \ {t} : api'[u] = api[u]
    <3> DEFINE stale == deadline \in Time
    <3>1. api' = [api EXCEPT ![t] = [api[t] EXCEPT !.pc = "read", !.stale = stale]]
      BY <1>8, Zenon DEF ReadDeadline
    <3>2. stale \in BOOLEAN
      OBVIOUS
    <3> HIDE DEF stale
    <3>3. [api[t] EXCEPT !.pc = "read", !.stale = stale] \in Request
      BY <1>0, <3>2 DEF Request, ApiPCs
    <3> QED
      BY <1>0, <3>1, <3>3 DEF Request
  <2>3. Timely(api'[t], now)
    BY <2>1, <2>2 DEF Timely
  <2> QED
    BY <1>0, <2>1, <2>2, <2>3, RequestStep
<1>13. ASSUME NEW t \in Threads, StampDeadline(t) PROVE TypeInv'
  <2>1. Timely(api[t], now) /\ api[t].pc = "stamp" /\ UNCHANGED now
    BY <1>0, <1>13 DEF StampDeadline
  <2> DEFINE expires == now + Window
             r == [api[t] EXCEPT !.pc = "truncate", !.expires = expires]
  <2>2. expires \in Time
    BY <1>0, <2>1, WindowInTime
  <2>3. api' = [api EXCEPT ![t] = r]
    BY <1>13, Zenon DEF StampDeadline
  <2> HIDE DEF expires
  <2>4. /\ r \in Request /\ r.pc = "truncate" /\ r.expires = expires
        /\ r.since = api[t].since
    BY <1>0, <2>2 DEF Request, ApiPCs
  <2> HIDE DEF r
  <2>5. /\ api' \in [Threads -> Request] /\ api'[t] = r
        /\ \A u \in Threads \ {t} : api'[u] = api[u]
    BY <1>0, <2>3, <2>4
  <2>6. Timely(r, now)
    BY <2>1, <2>2, <2>4 DEF Timely
  <2> QED
    BY <1>0, <2>1, <2>5, <2>6, RequestStep
\* The other steps leave the requests alone, or end them all.
<1>9. ASSUME UNCHANGED <<api, now>> PROVE TypeInv'
  BY <1>0, <1>9 DEF TypeInv
<1>10. CASE ApiCrash \/ HostRestarts
  <2>1. /\ api' = [t \in Threads |-> NoRequest] /\ UNCHANGED now
        /\ NoRequest \in Request /\ NoRequest.pc = "idle"
    BY <1>10 DEF ApiCrash, HostRestarts, NoRequest, Request, ApiPCs, Time
  <2>2. Timely(NoRequest, now)
    BY <2>1 DEF Timely
  <2> QED
    BY <1>0, <2>1, <2>2 DEF TypeInv
<1>11. CASE \/ StartCheck \/ Checking \/ CheckFault \/ PanelChange
            \/ \E mode \in orphans : OrphanEnds(mode)
            \/ UNCHANGED vars
  BY <1>9, <1>11
  DEF StartCheck, Checking, ReadContent, Revert, RemoveDeadline, CheckFault,
      RevertFails, RemoveFails, PanelChange, OrphanEnds, vars
<1>12. CASE Tick
  <2>1. /\ now' = now + 1 /\ api' = api /\ now \in Nat
        /\ \A t \in Threads : api[t].pc # "idle" => api[t].since = now
    BY <1>0, <1>12 DEF Tick, SharedOK, Time
  <2>2. \A t \in Threads : Timely(api[t], now + 1)
    BY <1>0, <2>1 DEF Timely
  <2> QED
    BY <1>0, <2>1, <2>2 DEF TypeInv
<1> QED
  BY <1>1, <1>2, <1>3, <1>4, <1>5, <1>6, <1>7, <1>8, <1>10, <1>11, <1>12,
     <1>13
  DEF Next, ApiStep, ApiFault

LEMMA InitTypes == Init => TypeInv
<1> SUFFICES ASSUME Init PROVE TypeInv
  OBVIOUS
<1>1. NoRequest \in Request /\ NoRequest.pc = "idle" /\ NoCheck \in Check
  BY SafeDnsAssumption DEF NoRequest, Request, ApiPCs, NoCheck, Check, Time
<1>2. Cardinality({}) = 0
  BY FS_EmptySet
<1>3. /\ router = "router" /\ deadline = None /\ now = 0 /\ timer = NoCheck
      /\ posts = 0 /\ orphans = {} /\ struck = {}
  BY Zenon DEF Init
<1>5. SharedOK
  BY <1>1, <1>2, <1>3, SafeDnsAssumption DEF SharedOK, Time, Mode
<1>4. Timely(NoRequest, now)
  BY <1>1 DEF Timely
<1> QED
  BY <1>1, <1>4, <1>5 DEF Init, TypeInv

\* Every state is well typed, whatever requests overlap and whichever faults
\* strike (TypeOK): the deadline set_mode writes is one the clock reaches.
THEOREM TypeCorrect == Spec => []TypeOK
<1>1. TypeInv /\ [Next]_vars => TypeInv'
  BY StepTypes
<1>2. Init => CleanOK
  BY Zenon DEF Init, CleanOK
<1> QED
  BY <1>1, <1>2, InitTypes, CleanStep, TypeInvImplies, PTL DEF Spec

-----------------------------------------------------------------------------
(***************************************************************************)
(* A window armed with nothing else in flight.  Whatever starts afterwards *)
(* reads the deadline and the router as the window has left them: a status *)
(* poll that sees the LAN filtered removes nothing, and a check switches   *)
(* only when the time has come.                                            *)
(***************************************************************************)
Kept ==
  /\ orphans = {}
  /\ \A t \in Threads : api[t].pc \in {"idle", "info", "read", "drop"}
  /\ Filtered => /\ deadline \in Time
                 /\ \A t \in Threads : api[t].pc # "drop"
                 /\ timer.pc # "remove"
                 /\ timer.pc = "switch" => Expired

GuardInv == TypeInv /\ (Guarded => Kept)

\* Only the write of a deadline makes a window clean, and no fault is taken back.
LEMMA GuardedBefore ==
  ASSUME [Next]_vars, Guarded', \A t \in Threads : ~WriteDeadline(t)
  PROVE  /\ Guarded
         /\ ~PanelChange
         /\ \A t \in Threads : /\ \A mode \in Mode : ~PostMode(t, mode)
                               /\ ~RouterUnreadable(t)
         /\ ~RevertFails
  BY DEF Next, vars, Guarded, PostMode, GetStatus, ApiStep, ApiFault, Switch,
         StampDeadline, TruncateDeadline, ClearDeadline, ReadDeadline, ReadRouter,
         DropDeadline, SwitchLost, SwitchRefused, SwitchTimesOut, WriteFails,
         ClearFails, RouterUnreachable, RouterUnreadable, OrphanEnds, ApiCrash,
         HostRestarts, StartCheck, Checking, ReadContent, Revert, RemoveDeadline,
         CheckFault, RevertFails, RemoveFails, PanelChange, Tick, Fault

LEMMA GuardStep == ASSUME GuardInv, [Next]_vars PROVE GuardInv'
<1>1. TypeInv /\ TypeInv'
  BY StepTypes DEF GuardInv
<1>2. /\ api \in [Threads -> Request] /\ api' \in [Threads -> Request]
      /\ deadline \in Time \cup {None, Empty} /\ now \in Nat /\ timer \in Check
  BY <1>1 DEF TypeInv, SharedOK, Time
<1> SUFFICES ASSUME Guarded' PROVE Kept'
  BY <1>1 DEF GuardInv
<1>3. ASSUME NEW t \in Threads, WriteDeadline(t) PROVE Kept'
  <2>1. /\ Undisturbed(t) /\ UNCHANGED <<orphans, timer>>
        /\ deadline' \in Time
    BY <1>1, <1>3 DEF WriteDeadline, Guarded, TypeInv, Timely
  <2>2. /\ api'[t].pc = "info"
        /\ \A u \in Threads \ {t} : api'[u] = api[u]
    BY <1>2, <1>3, ReturnStatusType DEF WriteDeadline
  <2> QED
    BY <2>1, <2>2 DEF Kept, Undisturbed
<1> SUFFICES ASSUME \A t \in Threads : ~WriteDeadline(t) PROVE Kept'
  BY <1>3
<1>4. Kept
  BY GuardedBefore DEF GuardInv
\* A request on its way is a status poll.
<1>5. ASSUME NEW t \in Threads, api[t].pc \in {"idle", "info", "read", "drop"},
             GetStatus(t) \/ ApiStep(t) \/ ApiFault(t)
      PROVE  Kept'
  <2>1. CASE GetStatus(t) \/ ReadDeadline(t)
    <3>1. /\ api'[t].pc \in {"info", "read"}
          /\ \A u \in Threads \ {t} : api'[u] = api[u]
      <4>1. ASSUME NEW r, api' = [api EXCEPT ![t] = r]
            PROVE  api'[t] = r /\ \A u \in Threads \ {t} : api'[u] = api[u]
        BY <1>2, <4>1
      <4>2. CASE GetStatus(t)
        <5> DEFINE r == [NoRequest EXCEPT !.pc = "info", !.since = now]
        <5>1. api' = [api EXCEPT ![t] = r]
          BY <4>2 DEF GetStatus
        <5>2. r.pc = "info"
          BY DEF NoRequest
        <5> HIDE DEF r
        <5> QED
          BY <4>1, <5>1, <5>2
      <4>3. CASE ReadDeadline(t)
        <5> DEFINE stale == deadline \in Time
                   r == [api[t] EXCEPT !.pc = "read", !.stale = stale]
        <5>1. api' = [api EXCEPT ![t] = r]
          BY <4>3, Zenon DEF ReadDeadline
        <5> HIDE DEF stale
        <5>2. r.pc = "read"
          BY <1>2 DEF Request
        <5> HIDE DEF r
        <5> QED
          BY <4>1, <5>1, <5>2
      <4> QED
        BY <2>1, <4>2, <4>3
    <3>2. UNCHANGED <<router, deadline, now, timer, orphans>>
      BY <2>1 DEF GetStatus, ReadDeadline
    <3> QED
      BY <1>4, <3>1, <3>2 DEF Kept, Filtered, Expired
  <2>2. CASE ReadRouter(t) \/ DropDeadline(t) \/ ClearFails(t) \/ RouterUnreachable(t)
    <3>1. /\ UNCHANGED <<router, now, timer, orphans>>
          /\ deadline' = deadline \/ ~Filtered
          /\ \/ Goto(t, "drop") /\ ~Filtered
             \/ Respond(t)
      BY <1>4, <1>5, <2>2
      DEF ReadRouter, DropDeadline, ClearFails, RouterUnreachable, Kept, Filtered
    <3>2. /\ \/ api'[t].pc = "idle"
             \/ api'[t].pc = "drop" /\ ~Filtered
          /\ \A u \in Threads \ {t} : api'[u] = api[u]
      BY <1>2, <3>1, GotoType, RespondType DEF ApiPCs, NoRequest
    <3> QED
      BY <1>4, <3>1, <3>2 DEF Kept, Filtered, Expired
  <2> QED
    BY <1>5, <2>1, <2>2, GuardedBefore
    DEF ApiStep, ApiFault, Switch, StampDeadline, TruncateDeadline, ClearDeadline,
        SwitchLost, SwitchRefused, SwitchTimesOut, WriteFails
<1>6. CASE ApiCrash \/ HostRestarts
  BY <1>4, <1>6 DEF ApiCrash, HostRestarts, Kept, Filtered, Expired, NoRequest, NoCheck
<1>7. CASE StartCheck \/ Checking \/ RemoveFails
  <2>1. UNCHANGED <<api, now, orphans>>
    BY <1>7 DEF StartCheck, Checking, ReadContent, Revert, RemoveDeadline, RemoveFails
  <2>2. CASE StartCheck \/ RemoveFails \/ RemoveDeadline
    <3>1. /\ UNCHANGED router /\ timer'.pc \in {"content", "idle"}
          /\ deadline' = deadline \/ ~Filtered
      BY <1>4, <2>2 DEF StartCheck, RemoveFails, RemoveDeadline, NoCheck, Kept
    <3> QED
      BY <1>4, <2>1, <3>1 DEF Kept, Filtered
  <2>3. CASE ReadContent
    <3>1. UNCHANGED <<router, deadline>>
      BY <2>3 DEF ReadContent
    <3>2. Filtered => timer'.pc \in {"idle", "switch"}
                      /\ (timer'.pc = "switch" => Expired)
      BY <1>2, <1>4, <2>3 DEF ReadContent, Kept, NoCheck, Check, Expired, Time
    <3> QED
      BY <1>4, <2>1, <3>1, <3>2 DEF Kept, Filtered, Expired
  <2>4. CASE Revert
    <3>1. ~Filtered'
      BY <2>4 DEF Revert, Filtered
    <3> QED
      BY <1>4, <2>1, <3>1 DEF Kept
  <2> QED
    BY <1>7, <2>2, <2>3, <2>4 DEF Checking
<1>8. CASE Tick \/ UNCHANGED vars
  <2>1. UNCHANGED <<router, deadline, api, timer, orphans>> /\ now <= now'
    BY <1>2, <1>8 DEF Tick, vars
  <2>2. Expired => Expired'
    BY <1>1, <1>2, <2>1 DEF Expired, Time, TypeInv, SharedOK
  <2> QED
    BY <1>4, <2>1, <2>2 DEF Kept, Filtered
<1> QED
  BY <1>4, <1>5, <1>6, <1>7, <1>8, GuardedBefore DEF Next, CheckFault, Kept

LEMMA GuardInit == Init => GuardInv
  BY InitTypes DEF Init, GuardInv, Guarded

\* A window armed with nothing else in flight stays armed while it filters
\* (get_status, router-dns-revert-check.sh), whatever polls and checks overlap.
THEOREM WindowTheorem == Spec => []WindowStaysArmed
<1>1. GuardInv /\ [Next]_vars => GuardInv'
  BY GuardStep
<1>2. GuardInv => WindowStaysArmed
  BY DEF GuardInv, Kept, WindowStaysArmed
<1> QED
  BY <1>1, <1>2, GuardInit, PTL DEF Spec

\* While such a window is open no step turns the filter off or touches its
\* deadline but a request for another mode or a change at the router itself.
THEOREM OpenWindowTheorem == Spec => OpenWindowKept
<1>1. GuardInv /\ [Next]_vars => GuardInv'
  BY GuardStep
<1>2. ASSUME GuardInv, [Next]_vars, Guarded, Guarded', Filtered,
             deadline \in Time, ~Expired
      PROVE  Filtered' /\ deadline' = deadline
  <2>1. Kept
    BY <1>2 DEF GuardInv
  <2>2. /\ \A t \in Threads : api[t].pc \in {"idle", "info", "read"}
        /\ timer.pc \notin {"remove", "switch"} /\ orphans = {}
    BY <1>2, <2>1 DEF Kept
  <2>3. \A t \in Threads : ~WriteDeadline(t)
    BY <2>2 DEF WriteDeadline
  <2>4. UNCHANGED <<router, deadline>>
    BY <1>2, <2>2, <2>3, GuardedBefore
    DEF Next, vars, GetStatus, ApiStep, ApiFault, Switch,
        StampDeadline, TruncateDeadline, ClearDeadline, ReadDeadline, ReadRouter,
        DropDeadline, SwitchLost, SwitchRefused, SwitchTimesOut, WriteFails,
        ClearFails, RouterUnreachable, RouterUnreadable, OrphanEnds, ApiCrash,
        HostRestarts, StartCheck, Checking, ReadContent, Revert, RemoveDeadline,
        CheckFault, RevertFails, RemoveFails, Tick
  <2> QED
    BY <1>2, <2>4 DEF Filtered
<1>3. GuardInv /\ [Next]_vars
        => [Guarded /\ Guarded' /\ Filtered /\ deadline \in Time /\ ~Expired
              => Filtered' /\ deadline' = deadline]_vars
  BY <1>2
<1> QED
  BY <1>1, <1>3, GuardInit, PTL DEF Spec, OpenWindowKept

=============================================================================
