-------------------------------- MODULE Access --------------------------------
(***************************************************************************)
(* Who may ask: the rate limiter and origin check in front of every        *)
(* request (core/security_middleware.py), the parent's sessions            *)
(* (core/auth.py) and the requests that open, close and renew them         *)
(* (api/routers/auth.py).  The middleware runs on the event loop, one      *)
(* request at a time; the handlers run in threads, so their steps          *)
(* interleave.  The password lives twice, in the process and in the .env   *)
(* file of the repository's root, which a restart reads unless the         *)
(* environment or another working directory gives it another password.  A  *)
(* time is a number of ticks.                                              *)
(***************************************************************************)
EXTENDS Integers, Sequences, FiniteSets

CONSTANTS Threads, Passwords,
          Keys,          \* of the limiter: the first X-Forwarded-For value,
                         \* as the caller sent it, or else the peer's address
          Default,       \* config.py's own PARENT_PASSWORD
          Short,         \* the passwords of fewer than six characters
          NonAscii,      \* those secrets.compare_digest refuses to compare
          Reread,        \* what is read back from a password's line in .env
          Window,        \* of the rate limiter, 60 s
          LoginLimit,    \* 5 in a window
          GeneralLimit,  \* 120 in a window
          Lifetime,      \* SESSION_EXPIRE_HOURS
          MaxTime, MaxRequests, MaxRestarts

Missing == "missing"

ASSUME AccessAssumption ==
  /\ Missing \notin Passwords
  /\ Default \in Passwords /\ Short \subseteq Passwords /\ NonAscii \subseteq Passwords
  /\ Reread \in [Passwords -> Passwords]
  /\ Window \in Nat /\ LoginLimit \in Nat /\ GeneralLimit \in Nat /\ Lifetime \in Nat
  /\ MaxTime \in Nat /\ MaxRequests \in Nat /\ MaxRestarts \in Nat

VARIABLES
  now,       \* the clock
  history,   \* RateLimiter: the times of each key's requests, by limit
  admitted,  \* history variable: all the logins of each key that passed it, and
             \* after how many restarts
  sessions,  \* SessionRegistry._sessions
  password,  \* settings.PARENT_PASSWORD
  env,       \* .env: is it there, its password, are its other lines there
  outside,   \* the password a restart takes from elsewhere, if it does
  req,       \* the request each thread is at
  broken,    \* history variable: rewrites of .env overlapped or one was cut short
  made, restarts

limiter == <<history, admitted, made>>
vars == <<now, limiter, sessions, password, env, outside, req, broken, restarts>>

Limits == {"login", "general"}

Env == [exists: BOOLEAN, pw: Passwords \cup {Missing}, rest: BOOLEAN]
Session == [token: 0 .. MaxRequests, pw: Passwords, until: Nat, raced: BOOLEAN]
Points == {"idle", "verify", "create", "validate", "revoke", "remove",
           "check", "read", "open", "fill", "set", "clear", "log"}
Request == [pc: Points, pw: Passwords, new: Passwords, token: 0 .. MaxRequests,
            raced: BOOLEAN, rest: BOOLEAN]
Idle == [pc |-> "idle", pw |-> Default, new |-> Default, token |-> 0,
         raced |-> FALSE, rest |-> FALSE]

\* Types.  Those of the limiter's lists are LimiterTypes in AccessProofs.
TypeOK ==
  /\ now \in 0 .. MaxTime /\ made \in 0 .. MaxRequests /\ restarts \in 0 .. MaxRestarts
  /\ outside \in Passwords \cup {Missing}
  /\ sessions \subseteq Session /\ password \in Passwords /\ env \in Env
  /\ req \in [Threads -> Request] /\ broken \in BOOLEAN

\* Settings(): the password of the environment or of the .env in the working
\* directory, where that is not the root, or else of the root's .env, by way of
\* the unit's EnvironmentFile or python-dotenv, or else the default.
Effective(file) ==
  IF outside # Missing THEN outside
  ELSE IF file.exists /\ file.pw # Missing THEN Reread[file.pw] ELSE Default

Init ==
  /\ now = 0 /\ made = 0 /\ restarts = 0 /\ broken = FALSE
  /\ history = [l \in Limits |-> [k \in Keys |-> <<>>]]
  /\ admitted = [k \in Keys |-> <<>>]
  /\ env \in {[exists |-> FALSE, pw |-> Missing, rest |-> FALSE]}
             \cup {[exists |-> TRUE, pw |-> p, rest |-> TRUE] : p \in {Missing, Default}}
  /\ outside \in {Missing, Default}
  /\ sessions = {} /\ password = Effective(env)
  /\ req = [t \in Threads |-> Idle]

-----------------------------------------------------------------------------
(* The middleware.                                                         *)

\* is_allowed: what is left of the key's times when those out of the window
\* are dropped.  Mutant: a login may be the one too many.
Recent(times) ==
  LET kept[i \in 0 .. Len(times)] ==
        IF i = 0 THEN <<>>
        ELSE IF now - times[i] < Window THEN Append(kept[i - 1], times[i])
        ELSE kept[i - 1]
  IN  kept[Len(times)]
InWindow(limit, key) == Recent(history[limit][key])
LimitOf(limit) == IF limit = "login" THEN LoginLimit ELSE GeneralLimit
AllowedOneMore(limit, key) == Len(InWindow(limit, key)) <= LimitOf(limit)
Allowed(limit, key) == Len(InWindow(limit, key)) < LimitOf(limit)

\* A request that is refused is not counted.
Counted(limit, key) ==
  LET recent == InWindow(limit, key) IN
  /\ history' = [history EXCEPT ![limit][key] =
                   IF Allowed(limit, key) THEN Append(recent, now) ELSE recent]
  /\ admitted' = IF limit = "login" /\ Allowed(limit, key)
                 THEN [admitted EXCEPT ![key] = Append(@, [at |-> now, run |-> restarts])] ELSE admitted

\* dispatch: the limiter (429), then the origin of a request that changes
\* something (403, but it has been counted), then the handler.
Dispatch(t, limit, key, foreign, request) ==
  /\ req[t].pc = "idle" /\ made < MaxRequests /\ made' = made + 1
  /\ Counted(limit, key)
  /\ req' = IF Allowed(limit, key) /\ ~foreign THEN [req EXCEPT ![t] = request] ELSE req
  /\ UNCHANGED <<now, sessions, password, env, outside, broken, restarts>>

Login(t, key, pw, foreign) ==
  Dispatch(t, "login", key, foreign,
           [Idle EXCEPT !.pc = "verify", !.pw = pw, !.token = made + 1])
Logout(t, key, token, foreign) ==
  Dispatch(t, "general", key, foreign, [Idle EXCEPT !.pc = "revoke", !.token = token])
Status(t, key, token) ==
  Dispatch(t, "general", key, FALSE, [Idle EXCEPT !.pc = "validate", !.token = token])
ChangePassword(t, key, pw, new, foreign) ==
  Dispatch(t, "general", key, foreign,
           [Idle EXCEPT !.pc = "check", !.pw = pw, !.new = new])

-----------------------------------------------------------------------------
(* The handlers.                                                           *)

At(t, pc) == req[t].pc = pc
To(t, pc) == req' = [req EXCEPT ![t].pc = pc]
End(t) == req' = [req EXCEPT ![t] = Idle]

\* verify_password: compare_digest raises a TypeError (500, no row) when either
\* string has a character that is not ASCII.
Comparable(t) == {req[t].pw, password} \cap NonAscii = {}

\* login
VerifyLogin(t) ==
  /\ At(t, "verify")
  /\ \/ ~Comparable(t) /\ End(t)
     \/ /\ Comparable(t)
        /\ To(t, IF req[t].pw = password THEN "create" ELSE "log")
  /\ UNCHANGED <<now, limiter, sessions, password, env, outside, broken, restarts>>

\* create_session; the password was compared one step before.
CreateSession(t) ==
  /\ At(t, "create") /\ To(t, "log")
  /\ sessions' = sessions \cup {[token |-> req[t].token, pw |-> req[t].pw,
                                 until |-> now + Lifetime, raced |-> req[t].raced]}
  /\ UNCHANGED <<now, limiter, password, env, outside, broken, restarts>>

\* The row of the audit log is a transaction of its own; another writer's lock
\* can make it fail (500), and what was done before stays done.  No other step
\* reads the rows, which are left out.
Log(t) ==
  /\ At(t, "log") /\ End(t)
  /\ UNCHANGED <<now, limiter, sessions, password, env, outside, broken, restarts>>

\* auth_status, require_parent_auth: validate_token drops what has expired.
Validate(t) ==
  /\ At(t, "validate") /\ End(t)
  /\ sessions' = {s \in sessions : s.token = req[t].token => now <= s.until}
  /\ UNCHANGED <<now, limiter, password, env, outside, broken, restarts>>

\* logout: revoke_token looks the token up and then deletes it, a KeyError
\* (500, no row) where another thread has dropped it between.
Revoke(t) ==
  /\ At(t, "revoke")
  /\ To(t, IF \E s \in sessions : s.token = req[t].token THEN "remove" ELSE "log")
  /\ UNCHANGED <<now, limiter, sessions, password, env, outside, broken, restarts>>

Remove(t) ==
  LET held == {s \in sessions : s.token = req[t].token} IN
  /\ At(t, "remove") /\ sessions' = sessions \ held
  /\ IF held # {} THEN To(t, "log") ELSE End(t)
  /\ UNCHANGED <<now, limiter, password, env, outside, broken, restarts>>

\* change_password: the old password (400, or 500) and the length of the new
\* one (400).
Check(t) ==
  /\ At(t, "check")
  /\ IF Comparable(t) /\ req[t].pw = password /\ req[t].new \notin Short THEN To(t, "read") ELSE End(t)
  /\ UNCHANGED <<now, limiter, sessions, password, env, outside, broken, restarts>>

\* Its lines, with the password replaced or added; 500 without a file.
Rewriting == {"open", "fill", "set"}
ReadEnv(t) ==
  /\ At(t, "read")
  /\ IF env.exists
     THEN /\ req' = [req EXCEPT ![t].pc = "open", ![t].rest = env.rest]
          /\ broken' = (broken \/ \E u \in Threads : req[u].pc \in Rewriting)
     ELSE End(t) /\ UNCHANGED broken
  /\ UNCHANGED <<now, limiter, sessions, password, env, outside, restarts>>

\* Mutant of the next: the process's password is set before the file is.
OpenEnvSet(t) ==
  /\ At(t, "open") /\ password' = req[t].new
  /\ \/ env' = [env EXCEPT !.pw = Missing, !.rest = FALSE] /\ To(t, "fill")
     \/ End(t) /\ UNCHANGED env
  /\ UNCHANGED <<now, limiter, sessions, outside, broken, restarts>>

\* write_text empties the file and then writes it; the first may be denied,
\* the second may find the disk full.
OpenEnv(t) ==
  /\ At(t, "open")
  /\ \/ env' = [env EXCEPT !.pw = Missing, !.rest = FALSE] /\ To(t, "fill")
     \/ End(t) /\ UNCHANGED env
  /\ UNCHANGED <<now, limiter, sessions, password, outside, broken, restarts>>

FillEnv(t) ==
  /\ At(t, "fill")
  /\ \/ env' = [env EXCEPT !.pw = req[t].new, !.rest = req[t].rest] /\ To(t, "set") /\ UNCHANGED broken
     \/ End(t) /\ broken' = TRUE /\ UNCHANGED env
  /\ UNCHANGED <<now, limiter, sessions, password, outside, restarts>>

\* A login that has been verified and has no session yet will open one with
\* the old password.
SetPassword(t) ==
  /\ At(t, "set") /\ password' = req[t].new
  /\ req' = [u \in Threads |-> IF u = t THEN [req[u] EXCEPT !.pc = "clear"]
                               ELSE IF req[u].pc = "create" THEN [req[u] EXCEPT !.raced = TRUE]
                               ELSE req[u]]
  /\ UNCHANGED <<now, limiter, sessions, env, outside, broken, restarts>>

\* Mutant of the next: only what has expired is dropped.
ClearExpired(t) ==
  /\ At(t, "clear") /\ sessions' = {s \in sessions : now <= s.until} /\ To(t, "log")
  /\ UNCHANGED <<now, limiter, password, env, outside, broken, restarts>>

\* session_registry.clear()
Clear(t) ==
  /\ At(t, "clear") /\ sessions' = {} /\ To(t, "log")
  /\ UNCHANGED <<now, limiter, password, env, outside, broken, restarts>>

Tick ==
  /\ now < MaxTime /\ now' = now + 1
  /\ UNCHANGED <<limiter, sessions, password, env, outside, req, broken, restarts>>

\* The registry and the limiter live in memory; settings are read again.
Restart ==
  /\ restarts < MaxRestarts /\ restarts' = restarts + 1
  /\ sessions' = {} /\ password' = Effective(env)
  /\ history' = [l \in Limits |-> [k \in Keys |-> <<>>]]
  /\ req' = [t \in Threads |-> Idle]
  /\ broken' = (broken \/ \E t \in Threads : req[t].pc = "fill")
  /\ UNCHANGED <<now, admitted, made, env, outside>>

Ask(t) ==
  \E key \in Keys, foreign \in BOOLEAN :
    \/ \E p \in Passwords : Login(t, key, p, foreign)
    \/ \E k \in 1 .. made : Logout(t, key, k, foreign) \/ Status(t, key, k)
    \/ \E p, n \in Passwords : ChangePassword(t, key, p, n, foreign)

Handle(t) ==
  \/ VerifyLogin(t) \/ CreateSession(t) \/ Log(t) \/ Validate(t) \/ Revoke(t) \/ Remove(t)
  \/ Check(t) \/ ReadEnv(t) \/ OpenEnv(t) \/ FillEnv(t) \/ SetPassword(t) \/ Clear(t)

Next == (\E t \in Threads : Ask(t) \/ Handle(t)) \/ Tick \/ Restart

Spec == Init /\ [][Next]_vars

-----------------------------------------------------------------------------

\* No key gets more than LoginLimit logins past the limiter within a window,
\* wherever the window begins, unless the API restarted in it: the limiter's
\* lists live in memory (core/security_middleware.py).
LoginsBounded ==
  \A k \in Keys : \A i \in 1 .. Len(admitted[k]) - LoginLimit :
    \/ admitted[k][i + LoginLimit].at - admitted[k][i].at >= Window
    \/ admitted[k][i + LoginLimit].run # admitted[k][i].run

\* "Invalidate all existing sessions so the old password can't be reused from
\* another browser/tab after the change" (routers/auth.py): once a change is
\* through, every session was opened with the password that is in force, but
\* for a login that was between its comparison and its session at the time.
SessionsCurrent ==
  \A s \in sessions : s.pw = password \/ s.raced \/ \E t \in Threads : req[t].pc = "clear"

\* Unless two rewrites of .env overlapped or one was cut short, the file has
\* its other lines, and a restart goes on with the password in force: where the
\* root's .env decides, and the password survives being written as a line of it.
PasswordKept ==
  ~broken /\ (\A t \in Threads : req[t].pc \notin {"fill", "set"})
    => /\ env.exists => env.rest
       /\ outside = Missing /\ Reread[password] = password => Effective(env) = password
=============================================================================
