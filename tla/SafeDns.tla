------------------------------ MODULE SafeDns ------------------------------
(***************************************************************************)
(* The Safe-DNS switch and its failsafe.  POST /api/router-dns/mode points *)
(* the router at this host's dnsmasq and writes a deadline file; a systemd *)
(* timer runs router-dns-revert-check.sh, which points the router back     *)
(* when the deadline has passed.  Requests run in a thread pool, the check *)
(* is a process of its own, and the file is their only shared state beside *)
(* the router; nothing locks either.                                       *)
(***************************************************************************)
EXTENDS Naturals, FiniteSets

CONSTANTS
  Threads,     \* API worker threads
  Window,      \* ROUTER_DNS_MAX_HOURS, in ticks
  MaxTime,     \* bound on the clock
  MaxPosts,    \* bound on POST /mode requests
  ByHand,      \* the servers someone sets at the router itself
  Faults,      \* the faults that may happen, a subset of FaultKinds
  MaxFaults,   \* bound on how many do, each kind once
  None,        \* no file, or no mode
  Empty        \* a file with no number in it

FaultKinds ==
  {"refused", "lost", "timeout", "readonly", "full", "unreadable", "revert", "crash"}

ASSUME SafeDnsAssumption ==
  /\ Window \in Nat \ {0} /\ MaxTime \in Nat /\ MaxPosts \in Nat
  /\ ByHand \subseteq {"dnsmasq", "router", "custom"}
  /\ Faults \subseteq FaultKinds /\ MaxFaults \in Nat
  /\ None \notin 0 .. MaxTime /\ Empty \notin 0 .. MaxTime /\ None # Empty
  /\ None \notin {"dnsmasq", "router"}

VARIABLES
  router,     \* the DNS server the router advertises
  deadline,   \* content of the deadline file
  now,        \* the wall clock
  api,        \* thread -> its request
  timer,      \* router-dns-revert-check.sh
  posts,      \* POST /mode requests so far
  orphans,    \* switch commands that outlived the request that ran them
  struck,     \* the kinds of fault that happened
  clean       \* history: nothing that had decided before the deadline was
              \* written was left to act, and nobody has switched since

vars == <<router, deadline, now, api, timer, posts, orphans, struck, clean>>

Mode == {"dnsmasq", "router"}
Time == 0 .. MaxTime

ApiPCs ==
  {"idle", "switch", "stamp", "truncate", "write", "clear", "info", "read", "drop"}
Request == [pc : ApiPCs, mode : Mode \cup {None}, expires : Time \cup {None},
            stale : BOOLEAN, since : Time]
NoRequest ==
  [pc |-> "idle", mode |-> None, expires |-> None, stale |-> FALSE, since |-> 0]

Check == [pc : {"idle", "content", "switch", "remove"}, since : Time]
NoCheck == [pc |-> "idle", since |-> 0]

TypeOK ==
  /\ router \in Mode \cup {"custom"}
  /\ deadline \in Time \cup {None, Empty}
  /\ now \in Time
  /\ api \in [Threads -> Request]
  /\ \A t \in Threads :
       /\ api[t].pc = "switch" => api[t].mode # None
       /\ api[t].pc \in {"truncate", "write"} => api[t].expires # None
  /\ timer \in Check
  /\ posts \in 0 .. MaxPosts
  /\ orphans \subseteq Mode
  /\ struck \subseteq FaultKinds /\ Cardinality(struck) <= MaxFaults
  /\ clean \in BOOLEAN

Init ==
  /\ router = "router" /\ deadline = None /\ now = 0
  /\ api = [t \in Threads |-> NoRequest]
  /\ timer = NoCheck
  /\ posts = 0 /\ orphans = {} /\ struck = {} /\ clean = FALSE

Quiet == timer.pc = "idle" /\ \A t \in Threads : api[t].pc = "idle"

\* No other request, check or left-over switch has read what it acts on and
\* not acted yet.
Undisturbed(t) ==
  /\ orphans = {}
  /\ timer.pc \notin {"switch", "remove"}
  /\ \A u \in Threads \ {t} : api[u].pc \in {"idle", "info", "read"}

Fault(kind) ==
  /\ kind \in Faults
  /\ kind \notin struck
  /\ Cardinality(struck) < MaxFaults
  /\ struck' = struck \cup {kind}

Goto(t, pc) == api' = [api EXCEPT ![t].pc = pc]
Respond(t) == api' = [api EXCEPT ![t] = NoRequest]

\* set_mode returns get_status().
ReturnStatus(t) ==
  api' = [api EXCEPT ![t] = [NoRequest EXCEPT !.pc = "info", !.since = api[t].since]]

(***************************************************************************)
(* set_mode.                                                               *)
(***************************************************************************)
\* Mutant: the request forgets the mode it was asked for.
PostModeUnset(t, mode) ==
  /\ api[t].pc = "idle"
  /\ posts < MaxPosts
  /\ mode = "dnsmasq" => now + 1 + Window <= MaxTime
  /\ posts' = posts + 1
  /\ clean' = FALSE
  /\ api' = [api EXCEPT ![t] = [NoRequest EXCEPT !.pc = "switch", !.since = now]]
  /\ UNCHANGED <<router, deadline, now, timer, orphans, struck>>

\* The bound on the clock leaves room for every window that is opened, at the
\* latest a tick from now.
PostMode(t, mode) ==
  /\ api[t].pc = "idle"
  /\ posts < MaxPosts
  /\ mode = "dnsmasq" => now + 1 + Window <= MaxTime
  /\ posts' = posts + 1
  /\ clean' = FALSE
  /\ api' = [api EXCEPT ![t] = [NoRequest EXCEPT !.pc = "switch", !.mode = mode,
                                                 !.since = now]]
  /\ UNCHANGED <<router, deadline, now, timer, orphans, struck>>

AfterSwitch(t) == Goto(t, IF api[t].mode = "dnsmasq" THEN "stamp" ELSE "clear")

\* router-dns.sh on|off.
Switch(t) ==
  /\ api[t].pc = "switch"
  /\ router' = api[t].mode
  /\ AfterSwitch(t)
  /\ UNCHANGED <<deadline, now, timer, posts, orphans, struck, clean>>

\* The request to the router fails and the script still exits 0
\* (curl ... || echo "FAILED").
SwitchLost(t) ==
  /\ api[t].pc = "switch"
  /\ Fault("lost")
  /\ AfterSwitch(t)
  /\ UNCHANGED <<router, deadline, now, timer, posts, orphans, clean>>

\* No session key: exit 1, and a 502.
SwitchRefused(t) ==
  /\ api[t].pc = "switch"
  /\ Fault("refused")
  /\ Respond(t)
  /\ UNCHANGED <<router, deadline, now, timer, posts, orphans, clean>>

\* subprocess.run gives up after 60 s: a 502.  It kills the script, not the
\* curl it runs.
SwitchTimesOut(t) ==
  /\ api[t].pc = "switch"
  /\ Fault("timeout")
  /\ orphans' = orphans \cup {api[t].mode}
  /\ Respond(t)
  /\ UNCHANGED <<router, deadline, now, timer, posts, clean>>

OrphanEnds(mode) ==
  /\ mode \in orphans
  /\ orphans' = orphans \ {mode}
  /\ router' \in {router, mode}
  /\ UNCHANGED <<deadline, now, api, timer, posts, struck, clean>>

\* The epoch is computed before _write_deadline is called.
StampDeadline(t) ==
  /\ api[t].pc = "stamp"
  /\ api' = [api EXCEPT ![t].pc = "truncate", ![t].expires = now + Window]
  /\ UNCHANGED <<router, deadline, now, timer, posts, orphans, struck, clean>>

\* _write_deadline: write_text truncates the file, then writes it.
TruncateDeadline(t) ==
  /\ api[t].pc = "truncate"
  /\ deadline' = Empty
  /\ Goto(t, "write")
  /\ UNCHANGED <<router, now, timer, posts, orphans, struck, clean>>

WriteDeadline(t) ==
  /\ api[t].pc = "write"
  /\ deadline' = api[t].expires
  /\ clean' = Undisturbed(t)
  /\ ReturnStatus(t)
  /\ UNCHANGED <<router, now, timer, posts, orphans, struck>>

\* An OSError, from open or from write, is logged and swallowed.
WriteFails(t) ==
  /\ \/ api[t].pc = "truncate" /\ Fault("readonly")
     \/ api[t].pc = "write" /\ Fault("full")
  /\ ReturnStatus(t)
  /\ UNCHANGED <<router, deadline, now, timer, posts, orphans, clean>>

ClearDeadline(t) ==
  /\ api[t].pc = "clear"
  /\ deadline' = None
  /\ ReturnStatus(t)
  /\ UNCHANGED <<router, now, timer, posts, orphans, struck, clean>>

\* So is one from unlink, here and in get_status.
ClearFails(t) ==
  /\ Fault("readonly")
  /\ \/ api[t].pc = "clear" /\ ReturnStatus(t)
     \/ api[t].pc = "drop" /\ Respond(t)
  /\ UNCHANGED <<router, deadline, now, timer, posts, orphans, clean>>

(***************************************************************************)
(* get_status, a request of its own and the end of set_mode.               *)
(***************************************************************************)
GetStatus(t) ==
  /\ api[t].pc = "idle"
  /\ api' = [api EXCEPT ![t] = [NoRequest EXCEPT !.pc = "info", !.since = now]]
  /\ UNCHANGED <<router, deadline, now, timer, posts, orphans, struck, clean>>

\* _deadline_info, then _read_router_dns.
ReadDeadline(t) ==
  /\ api[t].pc = "info"
  /\ api' = [api EXCEPT ![t].pc = "read", ![t].stale = deadline \in Time]
  /\ UNCHANGED <<router, deadline, now, timer, posts, orphans, struck, clean>>

\* Mutant: the deadline is dropped whatever the router says.
ReadRouterAlwaysDrop(t) ==
  /\ api[t].pc = "read"
  /\ IF api[t].stale THEN Goto(t, "drop") ELSE Respond(t)
  /\ UNCHANGED <<router, deadline, now, timer, posts, orphans, struck, clean>>

ReadRouter(t) ==
  /\ api[t].pc = "read"
  /\ IF router # "dnsmasq" /\ api[t].stale THEN Goto(t, "drop") ELSE Respond(t)
  /\ UNCHANGED <<router, deadline, now, timer, posts, orphans, struck, clean>>

RouterUnreachable(t) ==
  /\ api[t].pc = "read"
  /\ Fault("refused")
  /\ Respond(t)
  /\ UNCHANGED <<router, deadline, now, timer, posts, orphans, clean>>

\* A page without the two fields is mode "unknown", which is not "dnsmasq".
RouterUnreadable(t) ==
  /\ api[t].pc = "read"
  /\ Fault("unreadable")
  /\ IF api[t].stale THEN Goto(t, "drop") ELSE Respond(t)
  /\ UNCHANGED <<router, deadline, now, timer, posts, orphans, clean>>

DropDeadline(t) ==
  /\ api[t].pc = "drop"
  /\ deadline' = None
  /\ Respond(t)
  /\ UNCHANGED <<router, now, timer, posts, orphans, struck, clean>>

ApiStep(t) ==
  \/ Switch(t) \/ StampDeadline(t) \/ TruncateDeadline(t) \/ WriteDeadline(t)
  \/ ClearDeadline(t) \/ ReadDeadline(t) \/ ReadRouter(t) \/ DropDeadline(t)

ApiFault(t) ==
  \/ SwitchLost(t) \/ SwitchRefused(t) \/ SwitchTimesOut(t)
  \/ WriteFails(t) \/ ClearFails(t)
  \/ RouterUnreachable(t) \/ RouterUnreadable(t)

\* The API process dies with every request it was serving.
ApiCrash ==
  /\ Fault("crash")
  /\ \E t \in Threads : api[t].pc # "idle"
  /\ api' = [t \in Threads |-> NoRequest]
  /\ UNCHANGED <<router, deadline, now, timer, posts, orphans, clean>>

\* The host goes down: what is on disk and in the router stays.
HostRestarts ==
  /\ Fault("crash")
  /\ ~Quiet \/ orphans # {}
  /\ api' = [t \in Threads |-> NoRequest]
  /\ timer' = NoCheck
  /\ orphans' = {}
  /\ UNCHANGED <<router, deadline, now, posts, clean>>

(***************************************************************************)
(* router-dns-revert-check.sh.  Without a deadline that has passed it does *)
(* nothing; one that is no number, or is gone again, is removed.           *)
(***************************************************************************)
\* Without a file there is nothing to do.
StartCheck ==
  /\ timer.pc = "idle"
  /\ deadline # None
  /\ timer' = [pc |-> "content", since |-> now]
  /\ UNCHANGED <<router, deadline, now, api, posts, orphans, struck, clean>>

\* Mutants: the comparison is the wrong way round; the file is removed without
\* the switch.
ReadContentEarly ==
  /\ timer.pc = "content"
  /\ timer' = IF deadline \notin Time THEN [timer EXCEPT !.pc = "remove"]
              ELSE IF deadline < now THEN NoCheck
              ELSE [timer EXCEPT !.pc = "switch"]
  /\ UNCHANGED <<router, deadline, now, api, posts, orphans, struck, clean>>

ReadContentForgets ==
  /\ timer.pc = "content"
  /\ timer' = IF deadline \in Time /\ now < deadline THEN NoCheck
              ELSE [timer EXCEPT !.pc = "remove"]
  /\ UNCHANGED <<router, deadline, now, api, posts, orphans, struck, clean>>

ReadContent ==
  /\ timer.pc = "content"
  /\ timer' = IF deadline \notin Time THEN [timer EXCEPT !.pc = "remove"]
              ELSE IF now < deadline THEN NoCheck
              ELSE [timer EXCEPT !.pc = "switch"]
  /\ UNCHANGED <<router, deadline, now, api, posts, orphans, struck, clean>>

Revert ==
  /\ timer.pc = "switch"
  /\ router' = "router"
  /\ timer' = [timer EXCEPT !.pc = "remove"]
  /\ UNCHANGED <<deadline, now, api, posts, orphans, struck, clean>>

\* The status of `router-dns.sh off | tail' is tail's: the script goes on.
RevertFails ==
  /\ timer.pc = "switch"
  /\ Fault("revert")
  /\ timer' = [timer EXCEPT !.pc = "remove"]
  /\ UNCHANGED <<router, deadline, now, api, posts, orphans, clean>>

RemoveDeadline ==
  /\ timer.pc = "remove"
  /\ deadline' = None
  /\ timer' = NoCheck
  /\ UNCHANGED <<router, now, api, posts, orphans, struck, clean>>

\* rm -f ... || true
RemoveFails ==
  /\ timer.pc = "remove"
  /\ Fault("readonly")
  /\ timer' = NoCheck
  /\ UNCHANGED <<router, deadline, now, api, posts, orphans, clean>>

Checking == ReadContent \/ Revert \/ RemoveDeadline
CheckFault == RevertFails \/ RemoveFails

\* Someone sets the server at the router itself, in its panel or with
\* `sudo router-dns.sh on|off' (external): no deadline is written or cleared.
PanelChange ==
  /\ router' \in ByHand \ {router}
  /\ clean' = FALSE
  /\ UNCHANGED <<deadline, now, api, timer, posts, orphans, struck>>

\* A request or a check takes less than a tick, so it spans at most one.
Tick ==
  /\ now < MaxTime
  /\ \A t \in Threads : api[t].pc # "idle" => api[t].since = now
  /\ timer.pc # "idle" => timer.since = now
  /\ now' = now + 1
  /\ UNCHANGED <<router, deadline, api, timer, posts, orphans, struck, clean>>

Next ==
  \/ \E t \in Threads :
       \/ \E mode \in Mode : PostMode(t, mode)
       \/ GetStatus(t) \/ ApiStep(t) \/ ApiFault(t)
  \/ \E mode \in orphans : OrphanEnds(mode)
  \/ ApiCrash \/ HostRestarts \/ StartCheck \/ Checking \/ CheckFault
  \/ PanelChange \/ Tick

Spec == Init /\ [][Next]_vars

\* A request that was accepted is served; time passes; the timer fires every
\* 5 minutes and a check that has started ends.
FairSpec ==
  /\ Spec
  /\ \A t \in Threads : WF_vars(ApiStep(t))
  /\ WF_vars(StartCheck) /\ WF_vars(Checking)
  /\ WF_vars(Tick)

(***************************************************************************)
(* Properties.                                                             *)
(***************************************************************************)
Filtered == router = "dnsmasq"
Expired == deadline \in Time /\ deadline <= now

\* A window that was armed with nothing else in flight stays armed until the
\* LAN is unfiltered: whatever status polls and checks overlap it from then on,
\* none of them takes its deadline away.  (A router page that cannot be read
\* and a revert that fails do, and so may a request or a check that had decided
\* before the window was armed.)
Guarded == clean /\ struck \cap {"unreadable", "revert"} = {}

WindowStaysArmed == Guarded /\ Filtered => deadline \in Time

\* Nor does any step cut such a window short before its time: while it is open
\* the router keeps filtering and the deadline stays the one it was opened
\* with, until someone asks for another mode.
OpenWindowKept ==
  [][ Guarded /\ Guarded' /\ Filtered /\ deadline \in Time /\ ~Expired
        => Filtered' /\ deadline' = deadline ]_vars

\* "revert command failed - deadline kept so the next tick retries"
\* (router-dns-revert-check.sh): the file goes only once the router is back.
RevertRetried ==
  [][ RemoveDeadline /\ Expired => ~Filtered ]_vars

\* A filter whose deadline has passed is turned off, or its window restarted,
\* whatever requests overlap the check and whichever of them is refused.  The
\* failsafe stands no other fault (RevertRetried is one of the reasons), nor a
\* filter turned on by hand while an old deadline is being cleared.
ExpiredReverts ==
  Filtered /\ Expired
    ~> \/ ~Filtered
       \/ deadline \in Time /\ ~Expired
       \/ struck \ {"refused"} # {}

\* "in case you forget it on" (README.md): filtering that was armed with
\* nothing else in flight ends, unless someone switches again.
FilteringEnds ==
  clean /\ Filtered
    ~> \/ ~clean
       \/ ~Filtered
       \/ struck \cap {"unreadable", "revert"} # {}

=============================================================================
