---------------------------- MODULE AccessProofs ----------------------------
(***************************************************************************)
(* Proofs about Access: that a password change leaves no session of the    *)
(* old password, that a restart will go on with the password in force      *)
(* where the root's .env decides and gives it back as it was written, and  *)
(* that the limiter lets no key have more logins in a window than its      *)
(* limit between two restarts, for every set of threads, keys and          *)
(* passwords.                                                              *)
(***************************************************************************)
EXTENDS Access, FiniteSetTheorems, TLAPS

(***************************************************************************)
(* A login that is about to open a session has compared its password with  *)
(* the one in force, or was overtaken by a change.                         *)
(***************************************************************************)
LoginsVerified ==
  \A t \in Threads : At(t, "create") => req[t].pw = password \/ req[t].raced

(***************************************************************************)
(* Who is rewriting the file is alone, holds lines that are complete, and  *)
(* has put its password there before it sets the process's own.            *)
(***************************************************************************)
Written == env.exists /\ env.pw = password
Agrees == (env.exists => env.rest) /\ (outside = Missing => Effective(env) = password \/ Written)
RewriterAlone ==
  \A t, u \in Threads : req[t].pc \in Rewriting /\ req[u].pc \in Rewriting => t = u
RewriterHolds ==
  \A t \in Threads :
    /\ req[t].pc \in Rewriting => env.exists
    /\ req[t].pc \in {"open", "fill"} => req[t].rest
    /\ req[t].pc = "set" => env.pw = req[t].new /\ env.rest
Kept == (\A t \in Threads : req[t].pc \notin {"fill", "set"}) => Agrees
FileInv == ~broken => RewriterAlone /\ RewriterHolds /\ Kept

-----------------------------------------------------------------------------
(* A request that moves on or ends; the others are where they were.        *)

LEMMA IdleType == Idle \in Request
  BY AccessAssumption DEF Idle, Request, Points

LEMMA ToType ==
  ASSUME req \in [Threads -> Request], NEW t \in Threads, NEW pc \in Points, To(t, pc)
  PROVE  /\ req' \in [Threads -> Request]
         /\ req'[t] = [req[t] EXCEPT !.pc = pc]
         /\ req'[t].pc = pc /\ req'[t].pw = req[t].pw /\ req'[t].new = req[t].new
         /\ req'[t].raced = req[t].raced /\ req'[t].rest = req[t].rest
         /\ \A u \in Threads \ {t} : req'[u] = req[u]
  BY DEF To, Request

LEMMA EndType ==
  ASSUME req \in [Threads -> Request], NEW t \in Threads, End(t)
  PROVE  /\ req' \in [Threads -> Request]
         /\ req'[t].pc = "idle"
         /\ \A u \in Threads \ {t} : req'[u] = req[u]
  BY IdleType DEF End, Idle

\* What a restart reads is a password.
LEMMA EffectiveType ==
  ASSUME env \in Env, outside \in Passwords \cup {Missing}
  PROVE  Effective(env) \in Passwords
  BY AccessAssumption DEF Effective, Env

\* A request that passes the middleware starts at the first step of its handler.
First == {"verify", "revoke", "validate", "check"}
LEMMA AskType ==
  ASSUME TypeOK, NEW t \in Threads, Ask(t)
  PROVE  /\ req[t].pc = "idle" /\ made' \in 0 .. MaxRequests
         /\ req' \in [Threads -> Request]
         /\ req'[t].pc \in First \cup {"idle"}
         /\ \A u \in Threads \ {t} : req'[u] = req[u]
         /\ UNCHANGED <<now, sessions, password, env, outside, restarts, broken>>
<1> DEFINE Start(r) == /\ r \in Request /\ r.pc \in First
<1>1. \E limit, key, foreign, r : Dispatch(t, limit, key, foreign, r) /\ Start(r)
  <2> PICK c \in Keys, foreign \in BOOLEAN :
           \/ \E p \in Passwords : Login(t, c, p, foreign)
           \/ \E k \in 1 .. made : Logout(t, c, k, foreign) \/ Status(t, c, k)
           \/ \E p, n \in Passwords : ChangePassword(t, c, p, n, foreign)
    BY DEF Ask
  <2>1. CASE \E p \in Passwords : Login(t, c, p, foreign)
    <3> PICK p \in Passwords : Login(t, c, p, foreign)
      BY <2>1
    <3> DEFINE r == [Idle EXCEPT !.pc = "verify", !.pw = p, !.token = made + 1]
    <3>1. Dispatch(t, "login", c, foreign, r)
      BY DEF Login
    <3>2. made + 1 \in 0 .. MaxRequests
      BY <3>1, AccessAssumption DEF Dispatch, TypeOK
    <3>3. Start(r)
      BY <3>2, IdleType DEF Idle, Request, Points, First
    <3> QED
      BY <3>1, <3>3
  <2>2. CASE \E k \in 1 .. made : Logout(t, c, k, foreign) \/ Status(t, c, k)
    <3> PICK k \in 1 .. made : Logout(t, c, k, foreign) \/ Status(t, c, k)
      BY <2>2
    <3>1. k \in 0 .. MaxRequests
      BY AccessAssumption DEF TypeOK
    <3> DEFINE r == [Idle EXCEPT !.pc = "revoke", !.token = k]
               s == [Idle EXCEPT !.pc = "validate", !.token = k]
    <3>2. Dispatch(t, "general", c, foreign, r) \/ Dispatch(t, "general", c, FALSE, s)
      BY DEF Logout, Status
    <3>3. Start(r) /\ Start(s)
      BY <3>1, IdleType DEF Idle, Request, Points, First
    <3> QED
      BY <3>2, <3>3
  <2>3. CASE \E p, n \in Passwords : ChangePassword(t, c, p, n, foreign)
    <3> PICK p \in Passwords, n \in Passwords : ChangePassword(t, c, p, n, foreign)
      BY <2>3
    <3> DEFINE r == [Idle EXCEPT !.pc = "check", !.pw = p, !.new = n]
    <3>1. Dispatch(t, "general", c, foreign, r)
      BY DEF ChangePassword
    <3>2. Start(r)
      BY IdleType DEF Idle, Request, Points, First
    <3> QED
      BY <3>1, <3>2
  <2> QED
    BY <2>1, <2>2, <2>3
<1>2. PICK limit, key, foreign, r : Dispatch(t, limit, key, foreign, r) /\ Start(r)
  BY <1>1
<1>3. /\ req[t].pc = "idle" /\ made < MaxRequests /\ made' = made + 1
      /\ req' = [req EXCEPT ![t] = r] \/ req' = req
      /\ UNCHANGED <<now, sessions, password, env, outside, restarts, broken>>
  BY <1>2 DEF Dispatch
<1> QED
  BY <1>2, <1>3, AccessAssumption DEF TypeOK

-----------------------------------------------------------------------------
(* What no step disturbs, step by step.                                    *)

LEMMA InitInv == Init => TypeOK /\ SessionsCurrent /\ LoginsVerified /\ FileInv
<1> SUFFICES ASSUME Init
             PROVE  TypeOK /\ SessionsCurrent /\ LoginsVerified /\ FileInv
  OBVIOUS
<1>0. env \in {[exists |-> FALSE, pw |-> Missing, rest |-> FALSE],
               [exists |-> TRUE, pw |-> Missing, rest |-> TRUE],
               [exists |-> TRUE, pw |-> Default, rest |-> TRUE]}
  BY DEF Init
<1>1. env \in Env
  <2>1. /\ [exists |-> FALSE, pw |-> Missing, rest |-> FALSE] \in Env
        /\ [exists |-> TRUE, pw |-> Missing, rest |-> TRUE] \in Env
        /\ [exists |-> TRUE, pw |-> Default, rest |-> TRUE] \in Env
    BY AccessAssumption DEF Env
  <2> QED
    BY <1>0, <2>1
<1>1a. env.exists => env.rest
  BY <1>0
<1>2. TypeOK
  <2>1. req \in [Threads -> Request]
    BY IdleType DEF Init
  <2>2. password \in Passwords
    BY <1>1, EffectiveType, AccessAssumption DEF Init
  <2>3. /\ now \in 0 .. MaxTime /\ made \in 0 .. MaxRequests /\ restarts \in 0 .. MaxRestarts
        /\ outside \in Passwords \cup {Missing}
    BY AccessAssumption DEF Init
  <2>4. sessions \subseteq Session /\ broken \in BOOLEAN
    BY DEF Init
  <2> QED
    BY <1>1, <2>1, <2>2, <2>3, <2>4 DEF TypeOK
<1>3. SessionsCurrent
  BY DEF Init, SessionsCurrent
<1>4. \A t \in Threads : req[t].pc = "idle"
  BY DEF Init, Idle
<1>5. LoginsVerified /\ RewriterAlone /\ RewriterHolds
  BY <1>4 DEF LoginsVerified, At, RewriterAlone, RewriterHolds, Rewriting
<1>6. Agrees
  BY <1>1a DEF Init, Agrees
<1> QED
  BY <1>2, <1>3, <1>5, <1>6 DEF FileInv, Kept

LEMMA TypeStep == TypeOK /\ [Next]_vars => TypeOK'
<1> SUFFICES ASSUME TypeOK, [Next]_vars PROVE TypeOK'
  OBVIOUS
<1> USE DEF TypeOK
<1>1. ASSUME NEW t \in Threads, Ask(t) PROVE TypeOK'
  BY <1>1, AskType
<1>2. ASSUME NEW t \in Threads, Handle(t) PROVE TypeOK'
  <2>1. CASE VerifyLogin(t)
    BY <2>1, ToType, EndType DEF VerifyLogin, limiter, Points
  <2>2. CASE CreateSession(t)
    <3>1. req' \in [Threads -> Request]
      BY <2>2, ToType DEF CreateSession, Points
    <3>2. /\ req[t].token \in 0 .. MaxRequests /\ req[t].pw \in Passwords
          /\ req[t].raced \in BOOLEAN /\ now + Lifetime \in Nat
      BY AccessAssumption DEF Request
    <3>3. [token |-> req[t].token, pw |-> req[t].pw,
           until |-> now + Lifetime, raced |-> req[t].raced] \in Session
      BY <3>2 DEF Session
    <3> QED
      BY <2>2, <3>1, <3>3 DEF CreateSession, limiter
  <2>3. CASE Log(t)
    BY <2>3, EndType DEF Log, limiter
  <2>4. CASE Validate(t)
    BY <2>4, EndType DEF Validate, limiter
  <2>5. CASE Revoke(t)
    BY <2>5, ToType DEF Revoke, limiter, Points
  <2>6. CASE Remove(t)
    BY <2>6, ToType, EndType DEF Remove, limiter, Points
  <2>7. CASE Check(t)
    BY <2>7, ToType, EndType DEF Check, limiter, Points
  <2>8. CASE ReadEnv(t)
    <3>1. req' \in [Threads -> Request]
      BY <2>8, EndType DEF ReadEnv, Request, Points, Env
    <3> QED
      BY <2>8, <3>1 DEF ReadEnv, limiter
  <2>9. CASE OpenEnv(t)
    BY <2>9, ToType, EndType DEF OpenEnv, limiter, Points, Env
  <2>10. CASE FillEnv(t)
    <3>1. req[t].new \in Passwords /\ req[t].rest \in BOOLEAN
      BY DEF Request
    <3> QED
      BY <2>10, <3>1, ToType, EndType DEF FillEnv, limiter, Points, Env
  <2>11. CASE SetPassword(t)
    <3>1. req' \in [Threads -> Request]
      BY <2>11, ZenonT(60) DEF SetPassword, Request, Points
    <3>2. req[t].new \in Passwords
      BY DEF Request
    <3> QED
      BY <2>11, <3>1, <3>2 DEF SetPassword, limiter
  <2>12. CASE Clear(t)
    BY <2>12, ToType DEF Clear, limiter, Points
  <2> QED
    BY <1>2, <2>1, <2>2, <2>3, <2>4, <2>5, <2>6, <2>7, <2>8, <2>9, <2>10, <2>11, <2>12 DEF Handle
<1>3. CASE Tick
  BY <1>3, AccessAssumption DEF Tick, limiter
<1>4. CASE Restart
  <2>1. restarts' \in 0 .. MaxRestarts
    BY <1>4, AccessAssumption DEF Restart
  <2>2. password' \in Passwords /\ req' \in [Threads -> Request]
    BY <1>4, IdleType, EffectiveType DEF Restart
  <2> QED
    BY <1>4, <2>1, <2>2 DEF Restart
<1>5. CASE UNCHANGED vars
  BY <1>5 DEF vars, limiter
<1> QED
  BY <1>1, <1>2, <1>3, <1>4, <1>5 DEF Next

(***************************************************************************)
(* Sessions: only SetPassword changes what a session should have, and from *)
(* then on the thread that changed it is at "clear".                       *)
(***************************************************************************)
SessionsInv == SessionsCurrent /\ LoginsVerified

LEMMA SessionsStep == TypeOK /\ SessionsInv /\ [Next]_vars => SessionsInv'
<1> SUFFICES ASSUME TypeOK, SessionsInv, [Next]_vars PROVE SessionsInv'
  OBVIOUS
<1> USE DEF TypeOK, SessionsInv
\* A step that opens no session, sets no password and leaves "clear" alone.
<1>0. ASSUME NEW t \in Threads, req[t].pc # "clear",
             sessions' \subseteq sessions, UNCHANGED password,
             \A u \in Threads \ {t} : req'[u] = req[u],
             req'[t].pc = "create" => req'[t].pw = password \/ req'[t].raced
      PROVE  SessionsInv'
  <2>1. SessionsCurrent'
    BY <1>0 DEF SessionsCurrent
  <2>2. LoginsVerified'
    BY <1>0 DEF LoginsVerified, At
  <2> QED
    BY <2>1, <2>2
<1>1. ASSUME NEW t \in Threads, Ask(t) PROVE SessionsInv'
  <2>1. req'[t].pc # "create"
    BY <1>1, AskType DEF First
  <2> QED
    BY <1>0, <1>1, <2>1, AskType
<1>2. ASSUME NEW t \in Threads, Handle(t) PROVE SessionsInv'
  <2>1. CASE VerifyLogin(t)
    <3>1. /\ req[t].pc = "verify" /\ UNCHANGED <<sessions, password>>
          /\ \A u \in Threads \ {t} : req'[u] = req[u]
      BY <2>1, ToType, EndType DEF VerifyLogin, At, Points
    <3>2. req'[t].pc = "create" => req'[t].pw = password
      BY <2>1, ToType, EndType DEF VerifyLogin, Points
    <3> QED
      BY <1>0, <3>1, <3>2
  <2>2. CASE CreateSession(t)
    <3> DEFINE new == [token |-> req[t].token, pw |-> req[t].pw,
                       until |-> now + Lifetime, raced |-> req[t].raced]
    <3>1. /\ req[t].pc = "create" /\ sessions' = sessions \cup {new} /\ UNCHANGED password
          /\ To(t, "log")
      BY <2>2 DEF CreateSession, At
    <3>2. req'[t].pc = "log" /\ \A u \in Threads \ {t} : req'[u] = req[u]
      BY <3>1, ToType DEF Points
    <3>3. new.pw = password \/ new.raced
      BY <3>1 DEF LoginsVerified, At
    <3>4. SessionsCurrent'
      <4> HIDE DEF new
      <4> QED
        BY <3>1, <3>2, <3>3 DEF SessionsCurrent
    <3>5. LoginsVerified'
      BY <3>1, <3>2 DEF LoginsVerified, At
    <3> QED
      BY <3>4, <3>5
  <2>3. CASE Log(t)
    BY <1>0, <2>3, EndType DEF Log, At
  <2>4. CASE Validate(t)
    BY <1>0, <2>4, EndType DEF Validate, At
  <2>5. CASE Revoke(t)
    BY <1>0, <2>5, ToType DEF Revoke, At, Points
  <2>6. CASE Remove(t)
    BY <1>0, <2>6, ToType, EndType DEF Remove, At, Points
  <2>7. CASE Check(t)
    BY <1>0, <2>7, ToType, EndType DEF Check, At, Points
  <2>8. CASE ReadEnv(t)
    <3>1. /\ req[t].pc = "read" /\ UNCHANGED <<sessions, password>>
          /\ req'[t].pc # "create" /\ \A u \in Threads \ {t} : req'[u] = req[u]
      BY <2>8, EndType DEF ReadEnv, At, Request
    <3> QED
      BY <1>0, <3>1
  <2>9. CASE OpenEnv(t)
    BY <1>0, <2>9, ToType, EndType DEF OpenEnv, At, Points
  <2>10. CASE FillEnv(t)
    BY <1>0, <2>10, ToType, EndType DEF FillEnv, At, Points
  <2>11. CASE SetPassword(t)
    <3>1. req'[t].pc = "clear"
      BY <2>11 DEF SetPassword, Request
    <3>2. \A u \in Threads : req'[u].pc = "create" => req'[u].raced
      BY <2>11, <3>1 DEF SetPassword, Request
    <3> QED
      BY <3>1, <3>2 DEF SessionsCurrent, LoginsVerified, At
  <2>12. CASE Clear(t)
    <3>1. /\ sessions' = {} /\ UNCHANGED password
          /\ req'[t].pc = "log" /\ \A u \in Threads \ {t} : req'[u] = req[u]
      BY <2>12, ToType DEF Clear, Points
    <3> QED
      BY <3>1 DEF SessionsCurrent, LoginsVerified, At
  <2> QED
    BY <1>2, <2>1, <2>2, <2>3, <2>4, <2>5, <2>6, <2>7, <2>8, <2>9, <2>10, <2>11, <2>12 DEF Handle
<1>3. CASE Tick
  BY <1>3 DEF Tick, SessionsCurrent, LoginsVerified, At
<1>4. CASE Restart
  BY <1>4 DEF Restart, SessionsCurrent, LoginsVerified, At, Idle
<1>5. CASE UNCHANGED vars
  BY <1>5 DEF vars, SessionsCurrent, LoginsVerified, At
<1> QED
  BY <1>1, <1>2, <1>3, <1>4, <1>5 DEF Next

(***************************************************************************)
(* The file: as long as no two rewrites have overlapped, there is one      *)
(* rewriter at most, and every other step leaves file and password alone.  *)
(***************************************************************************)
LEMMA FileStep == TypeOK /\ FileInv /\ [Next]_vars => FileInv'
<1> SUFFICES ASSUME TypeOK, FileInv, [Next]_vars, ~broken'
             PROVE  (RewriterAlone /\ RewriterHolds /\ Kept)'
  BY DEF FileInv
<1> USE DEF TypeOK
\* A step of a thread that is not rewriting, and does not begin to.
<1>0. ASSUME NEW t \in Threads, req[t].pc \notin Rewriting, req'[t].pc \notin Rewriting,
             \A u \in Threads \ {t} : req'[u] = req[u],
             UNCHANGED <<env, outside, password, broken>>
      PROVE  (RewriterAlone /\ RewriterHolds /\ Kept)'
  <2>1. RewriterAlone /\ RewriterHolds /\ Kept
    BY <1>0 DEF FileInv
  <2>2. \A u \in Threads : req'[u].pc \in Rewriting => req'[u] = req[u]
    BY <1>0
  <2>3. RewriterAlone'
    BY <2>1, <2>2 DEF RewriterAlone
  <2>4. RewriterHolds'
    BY <1>0, <2>1, <2>2 DEF RewriterHolds, Rewriting
  <2>5. Kept'
    <3>1. \A u \in Threads : req[u].pc \in {"fill", "set"} => req'[u] = req[u]
      BY <1>0 DEF Rewriting
    <3> QED
      BY <1>0, <2>1, <3>1 DEF Kept, Agrees, Written, Effective
  <2> QED
    BY <2>3, <2>4, <2>5
<1>1. ASSUME NEW t \in Threads, Ask(t) PROVE (RewriterAlone /\ RewriterHolds /\ Kept)'
  <2>1. req[t].pc \notin Rewriting /\ req'[t].pc \notin Rewriting
    BY <1>1, AskType DEF First, Rewriting
  <2> QED
    BY <1>0, <1>1, <2>1, AskType
<1>2. ASSUME NEW t \in Threads, Handle(t) PROVE (RewriterAlone /\ RewriterHolds /\ Kept)'
  <2>1. CASE VerifyLogin(t)
    <3>1. /\ req[t].pc = "verify" /\ UNCHANGED <<env, outside, password, broken>>
          /\ req'[t].pc \in {"create", "log", "idle"}
          /\ \A u \in Threads \ {t} : req'[u] = req[u]
      BY <2>1, ToType, EndType DEF VerifyLogin, At, Points
    <3> QED
      BY <1>0, <3>1 DEF Rewriting
  <2>2. CASE CreateSession(t)
    BY <1>0, <2>2, ToType DEF CreateSession, At, Points, Rewriting
  <2>3. CASE Log(t)
    BY <1>0, <2>3, EndType DEF Log, At, Rewriting
  <2>4. CASE Validate(t)
    BY <1>0, <2>4, EndType DEF Validate, At, Rewriting
  <2>5. CASE Revoke(t)
    BY <1>0, <2>5, ToType DEF Revoke, At, Points, Rewriting
  <2>6. CASE Remove(t)
    BY <1>0, <2>6, ToType, EndType DEF Remove, At, Points, Rewriting
  <2>7. CASE Check(t)
    BY <1>0, <2>7, ToType, EndType DEF Check, At, Points, Rewriting
  <2>8. CASE ReadEnv(t)
    <3>1. CASE ~env.exists
      BY <1>0, <2>8, <3>1, EndType DEF ReadEnv, At, Rewriting
    <3>2. CASE env.exists
      <4>1. /\ ~broken /\ \A u \in Threads : req[u].pc \notin Rewriting
            /\ UNCHANGED <<env, outside, password>>
        BY <2>8, <3>2 DEF ReadEnv
      <4>2. req'[t].pc = "open" /\ req'[t].rest = env.rest
        BY <2>8, <3>2 DEF ReadEnv, Request, Env
      <4>3. \A u \in Threads \ {t} : req'[u] = req[u]
        BY <2>8, <3>2 DEF ReadEnv
      <4>4. Agrees
        BY <4>1 DEF FileInv, Kept, Rewriting
      <4>5. RewriterAlone'
        BY <4>1, <4>3 DEF RewriterAlone
      <4>6. RewriterHolds'
        BY <3>2, <4>1, <4>2, <4>3, <4>4 DEF RewriterHolds, Agrees, Rewriting
      <4>7. Kept'
        BY <4>1, <4>4 DEF Kept, Agrees, Written, Effective
      <4> QED
        BY <4>5, <4>6, <4>7
    <3> QED
      BY <3>1, <3>2
  <2>9. CASE OpenEnv(t)
    <3>1. /\ req[t].pc = "open" /\ ~broken /\ UNCHANGED <<outside, password>>
          /\ RewriterAlone /\ RewriterHolds /\ Kept
      BY <2>9 DEF OpenEnv, At, FileInv
    <3>2. \A u \in Threads \ {t} : req[u].pc \notin Rewriting
      BY <3>1 DEF RewriterAlone, Rewriting
    <3>3. env.exists /\ req[t].rest
      BY <3>1 DEF RewriterHolds, Rewriting
    <3>4. Agrees
      BY <3>1, <3>2 DEF Kept, Rewriting
    <3>5. CASE env' = [env EXCEPT !.pw = Missing, !.rest = FALSE] /\ To(t, "fill")
      <4>1. /\ req'[t].pc = "fill" /\ req'[t].rest = req[t].rest
            /\ \A u \in Threads \ {t} : req'[u] = req[u]
        BY <3>5, ToType DEF Points
      <4>2. env'.exists
        BY <3>3, <3>5 DEF Env
      <4> QED
        BY <3>2, <3>3, <4>1, <4>2 DEF RewriterAlone, RewriterHolds, Kept, Rewriting
    <3>6. CASE End(t) /\ UNCHANGED env
      <4>1. req'[t].pc = "idle" /\ \A u \in Threads \ {t} : req'[u] = req[u]
        BY <3>6, EndType
      <4>2. Agrees'
        BY <3>1, <3>4, <3>6 DEF Agrees, Written, Effective
      <4> QED
        BY <3>2, <4>1, <4>2 DEF RewriterAlone, RewriterHolds, Kept, Rewriting
    <3> QED
      BY <2>9, <3>5, <3>6 DEF OpenEnv
  <2>10. CASE FillEnv(t)
    <3>1. /\ req[t].pc = "fill" /\ UNCHANGED <<password, broken>>
          /\ env' = [env EXCEPT !.pw = req[t].new, !.rest = req[t].rest] /\ To(t, "set")
      BY <2>10 DEF FillEnv, At
    <3>2. RewriterAlone /\ RewriterHolds
      BY <3>1 DEF FileInv
    <3>3. \A u \in Threads \ {t} : req[u].pc \notin Rewriting
      BY <3>1, <3>2 DEF RewriterAlone, Rewriting
    <3>4. env.exists /\ req[t].rest
      BY <3>1, <3>2 DEF RewriterHolds, Rewriting
    <3>5. /\ req'[t].pc = "set" /\ req'[t].new = req[t].new
          /\ \A u \in Threads \ {t} : req'[u] = req[u]
      BY <3>1, ToType DEF Points
    <3>6. env'.exists /\ env'.pw = req[t].new /\ env'.rest
      BY <3>1, <3>4 DEF Env
    <3> QED
      BY <3>3, <3>5, <3>6 DEF RewriterAlone, RewriterHolds, Kept, Rewriting
  <2>11. CASE SetPassword(t)
    <3>1. /\ req[t].pc = "set" /\ password' = req[t].new /\ UNCHANGED <<env, broken>>
      BY <2>11 DEF SetPassword, At
    <3>2. RewriterAlone /\ RewriterHolds
      BY <3>1 DEF FileInv
    <3>3. \A u \in Threads \ {t} : req[u].pc \notin Rewriting
      BY <3>1, <3>2 DEF RewriterAlone, Rewriting
    <3>4. env.exists /\ env.pw = req[t].new /\ env.rest
      BY <3>1, <3>2 DEF RewriterHolds, Rewriting
    <3>5. \A u \in Threads : req'[u].pc \notin Rewriting
      BY <2>11, <3>3 DEF SetPassword, Request, Rewriting
    <3>6. Agrees'
      BY <3>1, <3>4 DEF Agrees, Written
    <3> QED
      BY <3>5, <3>6 DEF RewriterAlone, RewriterHolds, Kept, Rewriting
  <2>12. CASE Clear(t)
    BY <1>0, <2>12, ToType DEF Clear, At, Points, Rewriting
  <2> QED
    BY <1>2, <2>1, <2>2, <2>3, <2>4, <2>5, <2>6, <2>7, <2>8, <2>9, <2>10, <2>11, <2>12 DEF Handle
<1>3. CASE Tick
  BY <1>3 DEF Tick, FileInv, RewriterAlone, RewriterHolds, Kept, Agrees, Written, Effective
<1>4. CASE Restart
  <2>1. /\ ~broken /\ \A t \in Threads : req[t].pc # "fill"
        /\ UNCHANGED <<env, outside>> /\ password' = Effective(env)
    BY <1>4 DEF Restart
  <2>2. \A t \in Threads : req'[t].pc = "idle"
    BY <1>4 DEF Restart, Idle
  <2>3. env.exists => env.rest
    <3>1. CASE \E t \in Threads : req[t].pc = "set"
      BY <2>1, <3>1 DEF FileInv, RewriterHolds
    <3>2. CASE \A t \in Threads : req[t].pc # "set"
      BY <2>1, <3>2 DEF FileInv, Kept, Agrees
    <3> QED
      BY <3>1, <3>2
  <2>4. Agrees'
    BY <2>1, <2>3 DEF Agrees, Effective
  <2> QED
    BY <2>2, <2>4 DEF RewriterAlone, RewriterHolds, Kept, Rewriting
<1>5. CASE UNCHANGED vars
  BY <1>5 DEF vars, FileInv, RewriterAlone, RewriterHolds, Kept, Agrees, Written, Effective
<1> QED
  BY <1>1, <1>2, <1>3, <1>4, <1>5 DEF Next

-----------------------------------------------------------------------------
(* Recursion over the indices of a sequence.                               *)

\* A non-empty set of naturals has a smallest element.
LEMMA SmallestExists ==
  ASSUME NEW M \in Nat, NEW S \in SUBSET (0 .. M), S # {}
  PROVE  \E x \in S : \A y \in S : x <= y
<1> DEFINE Lower(x) == {y \in S : y < x}
           T == {Lower(x) : x \in S}
           R == StrictSubsetOrdering(S)
<1>1. IsFiniteSet(S)
  BY FS_BoundedSetOfNaturals
<1>2. T \subseteq FiniteSubsetsOf(S) /\ T # {}
  <2>1. \A x \in S : Lower(x) \in SUBSET S /\ IsFiniteSet(Lower(x))
    BY <1>1, FS_Subset
  <2> QED
    BY <2>1 DEF FiniteSubsetsOf
<1>3. PICK t \in T : \A u \in T : ~ (<<u, t>> \in R)
  <2> HIDE DEF T, R
  <2>1. IsWellFoundedOn(R, FiniteSubsetsOf(S))
    BY FS_StrictSubsetOrderingWellFounded DEF R
  <2> QED
    BY <1>2, <2>1, WFMin
<1>4. PICK x \in S : t = Lower(x)
  OBVIOUS
<1>5. \A z \in S : z \in Nat
  OBVIOUS
<1>6. \A y \in S : x <= y
  <2> SUFFICES ASSUME NEW y \in S, y < x PROVE FALSE
    BY <1>5
  <2>1. \A z \in S : z < y => z < x
    BY <1>5
  <2>2. ~ (y < y)
    BY <1>5
  <2>3. Lower(y) \subseteq Lower(x) /\ y \in Lower(x) /\ y \notin Lower(y)
    BY <2>1, <2>2
  <2>4. Lower(y) \in T /\ Lower(x) \in SUBSET S /\ Lower(y) \in SUBSET S
    OBVIOUS
  <2> HIDE DEF Lower, T
  <2> QED
    BY <1>3, <1>4, <2>3, <2>4 DEF StrictSubsetOrdering
<1> QED
  BY <1>6

\* Induction up to N, for a property given as the set of numbers that have it.
LEMMA UpTo ==
  ASSUME NEW N \in Nat, NEW S \in SUBSET (0 .. N),
         0 \in S, \A n \in 1 .. N : n - 1 \in S => n \in S
  PROVE  S = 0 .. N
<1> DEFINE Bad == (0 .. N) \ S
<1>1. SUFFICES ASSUME Bad # {} PROVE FALSE
  BY <1>1
<1>2. PICK m \in Bad : \A n \in Bad : m <= n
  BY <1>1, SmallestExists
<1>3. m \in 1 .. N /\ m - 1 \in 0 .. N
  OBVIOUS
<1>4. m - 1 \in S
  BY <1>2, <1>3
<1> QED
  BY <1>3, <1>4

\* f starts with s0 and goes on, at each i, as F[i] says: for every F there is
\* such an f.
Steps(N, S) == [1 .. N -> [S -> S]]
Results(N, S) == [0 .. N -> S]
Folds(f, s0, N, F) == f[0] = s0 /\ \A i \in 1 .. N : f[i] = F[i][f[i - 1]]

LEMMA FoldExists ==
  ASSUME NEW S, NEW s0 \in S, NEW N \in Nat, NEW F \in Steps(N, S)
  PROVE  \E f \in Results(N, S) : Folds(f, s0, N, F)
<1> USE DEF Steps
<1> DEFINE Good(n, f) == f[0] = s0 /\ \A i \in 1 .. n : f[i] = F[i][f[i - 1]]
           Had == {n \in 0 .. N : \E f \in [0 .. n -> S] : Good(n, f)}
<1>1. 0 \in Had
  <2>1. [n \in 0 .. 0 |-> s0] \in [0 .. 0 -> S] /\ Good(0, [n \in 0 .. 0 |-> s0])
    OBVIOUS
  <2> HIDE DEF Good
  <2>2. \E f \in [0 .. 0 -> S] : Good(0, f)
    BY <2>1
  <2> QED
    BY <2>2
<1>2. ASSUME NEW m \in 1 .. N, m - 1 \in Had PROVE m \in Had
  <2>1. PICK f \in [0 .. m - 1 -> S] : Good(m - 1, f)
    BY <1>2
  <2> DEFINE g == [n \in 0 .. m |-> IF n = m THEN F[m][f[m - 1]] ELSE f[n]]
  <2>2. g \in [0 .. m -> S]
    <3>1. f[m - 1] \in S
      OBVIOUS
    <3>2. F[m][f[m - 1]] \in S
      BY <3>1
    <3> QED
      BY <3>2
  <2>3. g[0] = s0
    BY <2>1
  <2>4. ASSUME NEW i \in 1 .. m PROVE g[i] = F[i][g[i - 1]]
    <3>1. g[i - 1] = f[i - 1]
      OBVIOUS
    <3>2. CASE i = m
      <4>1. g[m] = F[m][f[m - 1]]
        OBVIOUS
      <4> HIDE DEF g
      <4> QED
        BY <3>1, <3>2, <4>1
    <3>3. CASE i # m
      <4>1. i \in 1 .. m - 1 /\ g[i] = f[i]
        BY <3>3
      <4> QED
        BY <2>1, <3>1, <4>1
    <3> QED
      BY <3>2, <3>3
  <2>5. Good(m, g)
    BY <2>3, <2>4
  <2> HIDE DEF Good, g
  <2>6. \E e \in [0 .. m -> S] : Good(m, e)
    BY <2>2, <2>5
  <2> QED
    BY <2>6
<1>3. Had = 0 .. N
  <2> HIDE DEF Had
  <2>1. Had \in SUBSET (0 .. N)
    BY DEF Had
  <2> QED
    BY <1>1, <1>2, <2>1, UpTo
<1>4. \E f \in [0 .. N -> S] : Good(N, f)
  <2> HIDE DEF Good
  <2>1. N \in 0 .. N
    OBVIOUS
  <2> QED
    BY <1>3, <2>1
<1> QED
  BY <1>4 DEF Results, Folds

-----------------------------------------------------------------------------
(* The window.  A key's times are in order, so that dropping the old ones  *)
(* leaves an end of the list.                                              *)

Ascending(times) == \A i, j \in 1 .. Len(times) : i <= j => times[i] <= times[j]

\* short is what is left of long without its first k entries, which are all
\* out of the window.
Leaves(long, k, short) ==
  /\ k \in 0 .. Len(long) /\ Len(short) = Len(long) - k
  /\ \A i \in 1 .. Len(short) : short[i] = long[k + i]
  /\ \A i \in 1 .. k : now - long[i] >= Window

\* The equation that defines the local function of Recent.
IsKept(kept, times) ==
  kept = [i \in 0 .. Len(times) |->
            IF i = 0 THEN <<>>
            ELSE IF now - times[i] < Window THEN Append(kept[i - 1], times[i]) ELSE kept[i - 1]]

LEMMA KeptExists ==
  ASSUME NEW times \in Seq(Nat)
  PROVE  \E kept : IsKept(kept, times) /\ Recent(times) = kept[Len(times)]
<1> DEFINE N == Len(times)
           F == [i \in 1 .. N |-> [s \in Seq(Nat) |->
                   IF now - times[i] < Window THEN Append(s, times[i]) ELSE s]]
<1>1. F \in [1 .. N -> [Seq(Nat) -> Seq(Nat)]]
  <2>1. ASSUME NEW i \in 1 .. N, NEW s \in Seq(Nat)
        PROVE  (IF now - times[i] < Window THEN Append(s, times[i]) ELSE s) \in Seq(Nat)
    <3>1. Append(s, times[i]) \in Seq(Nat)
      OBVIOUS
    <3> QED
      BY <3>1
  <2> QED
    BY <2>1
<1>2. N \in Nat /\ <<>> \in Seq(Nat)
  OBVIOUS
<1>3. PICK f \in [0 .. N -> Seq(Nat)] : f[0] = <<>> /\ \A i \in 1 .. N : f[i] = F[i][f[i - 1]]
  <2> DEFINE S == Seq(Nat)
             none == <<>>
  <2> HIDE DEF F, N, S, none
  <2>1. N \in Nat /\ none \in S /\ F \in Steps(N, S)
    BY <1>1, <1>2 DEF S, none, Steps
  <2>2. \E f \in Results(N, S) : Folds(f, none, N, F)
    BY <2>1, FoldExists
  <2> QED
    BY <2>2 DEF S, none, Results, Folds
<1>4. ASSUME NEW i \in 1 .. N
      PROVE  f[i] = IF now - times[i] < Window THEN Append(f[i - 1], times[i]) ELSE f[i - 1]
  <2>1. f[i - 1] \in Seq(Nat)
    <3>1. i - 1 \in 0 .. N
      BY <1>2
    <3> QED
      BY <3>1
  <2> QED
    BY <1>3, <2>1
<1>5. IsKept(f, times)
  <2>1. \A i \in 0 .. N : i # 0 => i \in 1 .. N
    BY <1>2
  <2> QED
    BY <1>3, <1>4, <2>1 DEF IsKept
<1> QED
  BY <1>5 DEF Recent, IsKept

\* What the window leaves of an ascending list.
LEMMA RecentLeaves ==
  ASSUME NEW times \in Seq(Nat), Ascending(times), now \in Nat
  PROVE  Recent(times) \in Seq(Nat) /\ \E k : Leaves(times, k, Recent(times))
<1> DEFINE N == Len(times)
           In == {i \in 1 .. N : now - times[i] < Window}
<1>1. N \in Nat /\ Window \in Nat /\ \A i \in 1 .. N : times[i] \in Nat
  BY AccessAssumption
<1>1a. \A i \in 1 .. N : now - times[i] < Window \/ now - times[i] >= Window
  BY <1>1
<1>2. PICK k \in 0 .. N : /\ \A i \in 1 .. k : now - times[i] >= Window
                          /\ \A i \in k + 1 .. N : now - times[i] < Window
  <2>1. CASE In = {}
    <3>1. \A i \in 1 .. N : now - times[i] >= Window
      BY <1>1a, <2>1
    <3> QED
      BY <1>1, <3>1
  <2>2. CASE In # {}
    <3>1. In \in SUBSET (0 .. N)
      BY <1>1
    <3>2. PICK x \in In : \A y \in In : x <= y
      BY <1>1, <2>2, <3>1, SmallestExists
    <3>3. ASSUME NEW i \in 1 .. x - 1 PROVE now - times[i] >= Window
      <4>1. i \in 1 .. N /\ ~ (x <= i)
        BY <1>1
      <4> QED
        BY <1>1a, <3>2, <4>1
    <3>4. ASSUME NEW i \in x .. N PROVE now - times[i] < Window
      <4>1. x \in 1 .. N /\ i \in 1 .. N /\ x <= i
        BY <1>1
      <4>2. times[x] <= times[i] /\ now - times[x] < Window
        BY <4>1 DEF Ascending
      <4>3. times[x] \in Nat /\ times[i] \in Nat
        BY <1>1, <4>1
      <4> QED
        BY <1>1, <4>2, <4>3
    <3>5. x - 1 \in 0 .. N /\ (x - 1) + 1 = x
      BY <1>1
    <3> QED
      BY <3>3, <3>4, <3>5
  <2> QED
    BY <2>1, <2>2
<1>3. PICK kept : IsKept(kept, times) /\ Recent(times) = kept[N]
  BY KeptExists
<1> DEFINE Fine(s, n) == /\ s \in Seq(Nat) /\ Len(s) = IF n <= k THEN 0 ELSE n - k
                         /\ \A i \in 1 .. Len(s) : s[i] = times[k + i]
           S == {n \in 0 .. N : Fine(kept[n], n)}
<1>4. S = 0 .. N
  <2>1. 0 \in S
    BY <1>1, <1>3 DEF IsKept
  <2>2. ASSUME NEW n \in 1 .. N, n - 1 \in S PROVE n \in S
    <3>0. n \in 0 .. N /\ n # 0
      BY <1>1
    <3>1. /\ kept[n] = IF now - times[n] < Window THEN Append(kept[n - 1], times[n]) ELSE kept[n - 1]
          /\ Fine(kept[n - 1], n - 1)
      <4>1. Fine(kept[n - 1], n - 1)
        BY <2>2
      <4>2. kept[n] = IF now - times[n] < Window THEN Append(kept[n - 1], times[n]) ELSE kept[n - 1]
        BY <1>3, <3>0, ZenonT(30) DEF IsKept
      <4> QED
        BY <4>1, <4>2
    <3> HIDE DEF Fine
    <3>2. CASE n <= k
      <4>1. kept[n] = kept[n - 1]
        BY <1>1, <1>2, <3>1, <3>2
      <4>2. Fine(kept[n - 1], n)
        BY <1>1, <3>1, <3>2 DEF Fine
      <4> QED
        BY <1>1, <4>1, <4>2
    <3>3. CASE n > k
      <4>1. kept[n] = Append(kept[n - 1], times[n])
        BY <1>1, <1>2, <3>1, <3>3
      <4>2. /\ kept[n - 1] \in Seq(Nat) /\ Len(kept[n - 1]) = (n - 1) - k
            /\ \A i \in 1 .. (n - 1) - k : kept[n - 1][i] = times[k + i]
        <5>1. n - 1 <= k => (n - 1) - k = 0
          BY <1>1, <3>3
        <5>2. /\ kept[n - 1] \in Seq(Nat) /\ Len(kept[n - 1]) = (n - 1) - k
              /\ \A i \in 1 .. Len(kept[n - 1]) : kept[n - 1][i] = times[k + i]
          BY <3>1, <5>1 DEF Fine
        <5> QED
          BY <5>2
      <4>3. kept[n] \in Seq(Nat) /\ Len(kept[n]) = n - k
        BY <1>1, <4>1, <4>2
      <4>4. ASSUME NEW i \in 1 .. n - k PROVE kept[n][i] = times[k + i]
        <5>1. CASE i = n - k
          <6>1. i = Len(kept[n - 1]) + 1 /\ k + i = n
            BY <1>1, <4>2, <5>1
          <6>2. Append(kept[n - 1], times[n])[Len(kept[n - 1]) + 1] = times[n]
            BY <1>1, <4>2
          <6> QED
            BY <4>1, <6>1, <6>2
        <5>2. CASE i # n - k
          <6>1. i \in 1 .. (n - 1) - k /\ i \in 1 .. Len(kept[n - 1])
            BY <1>1, <4>2, <5>2
          <6>2. Append(kept[n - 1], times[n])[i] = kept[n - 1][i]
            BY <1>1, <4>2, <6>1
          <6> QED
            BY <4>1, <4>2, <6>1, <6>2
        <5> QED
          BY <5>1, <5>2
      <4>5. Fine(kept[n], n)
        BY <3>3, <4>3, <4>4 DEF Fine
      <4> QED
        BY <1>1, <4>5
    <3> QED
      BY <1>1, <3>2, <3>3
  <2> HIDE DEF S
  <2>3. S \in SUBSET (0 .. N)
    BY DEF S
  <2> QED
    BY <1>1, <2>1, <2>2, <2>3, UpTo
<1>5. Fine(Recent(times), N)
  <2>1. N \in S
    BY <1>1, <1>4
  <2> QED
    BY <1>3, <2>1
<1>6. Leaves(times, k, Recent(times))
  BY <1>1, <1>2, <1>5 DEF Leaves
<1> QED
  BY <1>5, <1>6

(***************************************************************************)
(* The limiter's lists are in order and not ahead of the clock; a key's    *)
(* login list is what is left of all its logins when those are dropped     *)
(* that are out of the window or of an earlier run of the API; and the     *)
(* logins themselves are as LoginsBounded says.                            *)
(***************************************************************************)
InOrder(times) ==
  times \in Seq(Nat) /\ Ascending(times) /\ \A i \in 1 .. Len(times) : times[i] <= now
Entry == [at: Nat, run: Nat]
Gone(e) == now - e.at >= Window \/ e.run # restarts
Covers(logins, k, short) ==
  /\ k \in 0 .. Len(logins) /\ Len(short) = Len(logins) - k
  /\ \A i \in 1 .. Len(short) : short[i] = logins[k + i].at
  /\ \A i \in 1 .. k : Gone(logins[i])
Bounded(logins) ==
  \A i \in 1 .. Len(logins) - LoginLimit :
    \/ logins[i + LoginLimit].at - logins[i].at >= Window
    \/ logins[i + LoginLimit].run # logins[i].run

LimiterTypes ==
  history \in [Limits -> [Keys -> Seq(Nat)]] /\ admitted \in [Keys -> Seq(Entry)]
ListsInOrder == \A l \in Limits, c \in Keys : InOrder(history[l][c])
RunsPast == \A c \in Keys : \A i \in 1 .. Len(admitted[c]) : admitted[c][i].run <= restarts
LoginsListed == \A c \in Keys : \E k \in Nat : Covers(admitted[c], k, history["login"][c])
LimiterInv == LimiterTypes /\ ListsInOrder /\ RunsPast /\ LoginsListed /\ LoginsBounded

LEMMA RecentInOrder ==
  ASSUME now \in Nat, NEW times, InOrder(times)
  PROVE  InOrder(Recent(times)) /\ \E k \in Nat : Leaves(times, k, Recent(times))
<1>1. times \in Seq(Nat) /\ Ascending(times) /\ Len(times) \in Nat
  BY DEF InOrder
<1> DEFINE r == Recent(times)
<1>2. r \in Seq(Nat) /\ \E k : Leaves(times, k, r)
  BY <1>1, RecentLeaves
<1> HIDE DEF r
<1>3. PICK k : Leaves(times, k, r)
  BY <1>2
<1>4. k \in 0 .. Len(times) /\ Len(r) = Len(times) - k
  BY <1>3 DEF Leaves
<1>5. \A i \in 1 .. Len(r) : k + i \in 1 .. Len(times) /\ r[i] = times[k + i]
  BY <1>1, <1>3, <1>4 DEF Leaves
<1>6. Ascending(r)
  <2> SUFFICES ASSUME NEW i \in 1 .. Len(r), NEW j \in 1 .. Len(r), i <= j PROVE r[i] <= r[j]
    BY DEF Ascending
  <2>1. k + i <= k + j
    BY <1>1, <1>4
  <2> QED
    BY <1>1, <1>5, <2>1 DEF Ascending
<1>7. \A i \in 1 .. Len(r) : r[i] <= now
  BY <1>5 DEF InOrder
<1>8. InOrder(r)
  BY <1>2, <1>6, <1>7 DEF InOrder
<1>9. k \in Nat
  BY <1>1, <1>4
<1> QED
  BY <1>3, <1>8, <1>9 DEF r

LEMMA AppendInOrder ==
  ASSUME now \in Nat, NEW times, InOrder(times)
  PROVE  /\ InOrder(Append(times, now)) /\ Len(Append(times, now)) = Len(times) + 1
         /\ \A i \in 1 .. Len(times) : Append(times, now)[i] = times[i]
         /\ Append(times, now)[Len(times) + 1] = now
<1> DEFINE a == Append(times, now)
<1>1. times \in Seq(Nat) /\ Len(times) \in Nat
  BY DEF InOrder
<1>2. /\ a \in Seq(Nat) /\ Len(a) = Len(times) + 1
      /\ \A i \in 1 .. Len(times) : a[i] = times[i]
      /\ a[Len(times) + 1] = now
  BY <1>1
<1> HIDE DEF a
<1>3. \A i \in 1 .. Len(a) : a[i] <= now
  <2> SUFFICES ASSUME NEW i \in 1 .. Len(a) PROVE a[i] <= now
    OBVIOUS
  <2>1. CASE i = Len(times) + 1
    BY <1>2, <2>1
  <2>2. CASE i \in 1 .. Len(times)
    BY <1>2, <2>2 DEF InOrder
  <2> QED
    BY <1>1, <1>2, <2>1, <2>2
<1>4. Ascending(a)
  <2> SUFFICES ASSUME NEW i \in 1 .. Len(a), NEW j \in 1 .. Len(a), i <= j PROVE a[i] <= a[j]
    BY DEF Ascending
  <2>1. CASE j = Len(times) + 1
    BY <1>2, <1>3, <2>1
  <2>2. CASE j \in 1 .. Len(times)
    <3>1. i \in 1 .. Len(times)
      BY <1>1, <1>2, <2>2
    <3> QED
      BY <1>2, <2>2, <3>1 DEF InOrder, Ascending
  <2> QED
    BY <1>1, <1>2, <2>1, <2>2
<1>5. InOrder(a)
  BY <1>2, <1>3, <1>4 DEF InOrder
<1> QED
  BY <1>2, <1>5 DEF a

\* A login more.
LEMMA AppendEntry ==
  ASSUME NEW a \in Seq(Entry), NEW e \in Entry
  PROVE  /\ Append(a, e) \in Seq(Entry) /\ Len(Append(a, e)) = Len(a) + 1 /\ Len(a) \in Nat
         /\ \A i \in 1 .. Len(a) : Append(a, e)[i] = a[i] /\ a[i] \in Entry
         /\ Append(a, e)[Len(a) + 1] = e
<1> DEFINE S == Entry
<1> HIDE DEF S
<1>1. /\ a \in Seq(S) /\ e \in S
  BY DEF S
<1>2. /\ Append(a, e) \in Seq(S) /\ Len(Append(a, e)) = Len(a) + 1 /\ Len(a) \in Nat
      /\ \A i \in 1 .. Len(a) : Append(a, e)[i] = a[i] /\ a[i] \in S
      /\ Append(a, e)[Len(a) + 1] = e
  BY <1>1
<1> QED
  BY <1>2 DEF S

\* Dropping twice is dropping once, and both lists grow alike.
LEMMA CoversOnce ==
  ASSUME NEW a \in Seq(Entry), NEW h \in Seq(Nat), NEW r \in Seq(Nat), NEW k \in Nat, NEW l \in Nat,
         now \in Nat, Covers(a, k, h), Leaves(h, l, r)
  PROVE  Covers(a, k + l, r)
<1>1. /\ Len(a) \in Nat /\ Len(h) = Len(a) - k /\ k \in 0 .. Len(a)
      /\ l \in 0 .. Len(h) /\ Len(r) = Len(h) - l
  BY DEF Covers, Leaves
<1>2. k + l \in 0 .. Len(a) /\ Len(r) = Len(a) - (k + l)
  BY <1>1
<1>3. ASSUME NEW i \in 1 .. Len(r) PROVE r[i] = a[(k + l) + i].at
  <2>1. l + i \in 1 .. Len(h) /\ k + (l + i) = (k + l) + i
    BY <1>1
  <2>2. r[i] = h[l + i] /\ h[l + i] = a[k + (l + i)].at
    BY <2>1 DEF Covers, Leaves
  <2> QED
    BY <2>1, <2>2
<1>4. ASSUME NEW i \in 1 .. k + l PROVE Gone(a[i])
  <2>1. CASE i <= k
    BY <2>1 DEF Covers
  <2>2. CASE i > k
    <3>1. i - k \in 1 .. l /\ i - k \in 1 .. Len(h) /\ k + (i - k) = i
      BY <1>1, <2>2
    <3>2. h[i - k] = a[k + (i - k)].at /\ now - h[i - k] >= Window
      BY <3>1 DEF Covers, Leaves
    <3> QED
      BY <3>1, <3>2 DEF Gone
  <2> QED
    BY <2>1, <2>2
<1> QED
  BY <1>2, <1>3, <1>4 DEF Covers

LEMMA CoversGrows ==
  ASSUME NEW a \in Seq(Entry), NEW h, NEW k \in Nat, now \in Nat, restarts \in Nat,
         InOrder(h), Covers(a, k, h)
  PROVE  Covers(Append(a, [at |-> now, run |-> restarts]), k, Append(h, now))
<1> DEFINE e == [at |-> now, run |-> restarts]
           b == Append(a, e)
           g == Append(h, now)
<1>1. /\ Len(a) \in Nat /\ Len(h) \in Nat
      /\ k \in 0 .. Len(a) /\ Len(h) = Len(a) - k
  BY DEF Covers, InOrder
<1>2. e \in Entry /\ e.at = now
  BY DEF Entry
<1>3. /\ Len(b) = Len(a) + 1 /\ (\A i \in 1 .. Len(a) : b[i] = a[i]) /\ b[Len(a) + 1] = e
      /\ Len(g) = Len(h) + 1 /\ (\A i \in 1 .. Len(h) : g[i] = h[i]) /\ g[Len(h) + 1] = now
  <2> HIDE DEF e
  <2> QED
    BY <1>2, AppendInOrder, AppendEntry
<1> HIDE DEF b, g, e
<1>4. ASSUME NEW i \in 1 .. Len(g) PROVE g[i] = b[k + i].at
  <2>1. CASE i = Len(h) + 1
    <3>1. k + i = Len(a) + 1
      BY <1>1, <2>1
    <3> QED
      BY <1>2, <1>3, <2>1, <3>1
  <2>2. CASE i \in 1 .. Len(h)
    <3>1. k + i \in 1 .. Len(a)
      BY <1>1, <2>2
    <3>2. h[i] = a[k + i].at
      BY <2>2 DEF Covers
    <3> QED
      BY <1>3, <2>2, <3>1, <3>2
  <2> QED
    BY <1>1, <1>3, <2>1, <2>2
<1>5. ASSUME NEW i \in 1 .. k PROVE Gone(b[i])
  <2>1. i \in 1 .. Len(a)
    BY <1>1
  <2>2. Gone(a[i])
    BY DEF Covers
  <2> QED
    BY <1>3, <2>1, <2>2
<1>6. k \in 0 .. Len(b) /\ Len(g) = Len(b) - k
  BY <1>1, <1>3
<1>7. Covers(b, k, g)
  BY <1>4, <1>5, <1>6 DEF Covers
<1> QED
  BY <1>7 DEF b, g, e

\* A login that finds fewer than LoginLimit in the window is bounded.
LEMMA LoginBounded ==
  ASSUME now \in Nat, restarts \in Nat, NEW a \in Seq(Entry), NEW r, NEW k \in Nat,
         Covers(a, k, r), Len(r) < LoginLimit, Bounded(a)
  PROVE  Bounded(Append(a, [at |-> now, run |-> restarts]))
<1> DEFINE e == [at |-> now, run |-> restarts]
           b == Append(a, e)
<1>1. e \in Entry /\ e.at = now /\ e.run = restarts
  BY DEF Entry
<1>2. /\ LoginLimit \in Nat /\ Len(r) = Len(a) - k /\ k \in 0 .. Len(a)
  BY AccessAssumption DEF Covers
<1>3. /\ Len(a) \in Nat
      /\ Len(b) = Len(a) + 1 /\ (\A i \in 1 .. Len(a) : b[i] = a[i]) /\ b[Len(a) + 1] = e
  <2> HIDE DEF e
  <2> QED
    BY <1>1, AppendEntry
<1> HIDE DEF b, e
<1> DEFINE Apart(x, y) == y.at - x.at >= Window \/ y.run # x.run
<1>4. ASSUME NEW i \in 1 .. Len(b) - LoginLimit PROVE Apart(b[i], b[i + LoginLimit])
  <2>0. LoginLimit > 0
    BY <1>2, <1>3
  <2>1. CASE i + LoginLimit = Len(a) + 1
    <3>1. i \in 1 .. k /\ i \in 1 .. Len(a)
      BY <1>2, <1>3, <2>0, <2>1
    <3>2. Gone(a[i])
      BY <3>1 DEF Covers
    <3>3. b[i] = a[i] /\ b[i + LoginLimit] = e
      BY <1>3, <2>1, <3>1
    <3> QED
      BY <1>1, <3>2, <3>3 DEF Gone
  <2>2. CASE i + LoginLimit # Len(a) + 1
    <3>1. /\ i \in 1 .. Len(a) - LoginLimit /\ i \in 1 .. Len(a)
          /\ i + LoginLimit \in 1 .. Len(a)
      <4> DEFINE n == Len(a)
                 m == Len(b)
      <4>1. n \in Nat /\ LoginLimit \in Nat /\ m = n + 1 /\ i \in 1 .. m - LoginLimit
        BY <1>2, <1>3
      <4>2. i + LoginLimit # n + 1
        BY <2>2
      <4> HIDE DEF n, m
      <4>3. /\ i \in 1 .. n - LoginLimit /\ i \in 1 .. n
            /\ i + LoginLimit \in 1 .. n
        BY <2>0, <4>1, <4>2
      <4> QED
        BY <4>3 DEF n
    <3>2. Apart(a[i], a[i + LoginLimit])
      BY <3>1 DEF Bounded
    <3>3. b[i] = a[i] /\ b[i + LoginLimit] = a[i + LoginLimit]
      BY <1>3, <3>1
    <3> QED
      BY <3>2, <3>3
  <2> QED
    BY <2>1, <2>2
<1>5. Bounded(b)
  BY <1>4 DEF Bounded
<1> QED
  BY <1>5 DEF b, e

LEMMA CountedKeeps ==
  ASSUME now \in Nat, restarts \in Nat, LimiterInv, NEW limit \in Limits, NEW key \in Keys,
         Counted(limit, key), UNCHANGED <<now, restarts>>
  PROVE  LimiterInv'
<1> DEFINE h == history[limit][key]
           a == admitted[key]
           r == Recent(h)
           e == [at |-> now, run |-> restarts]
           kept == IF Allowed(limit, key) THEN Append(r, now) ELSE r
           through == limit = "login" /\ Allowed(limit, key)
           b == Append(a, e)
<1>0. a \in Seq(Entry) /\ e \in Entry /\ e.run = restarts
  BY DEF LimiterInv, LimiterTypes, Entry
<1>1. InOrder(h)
  BY DEF LimiterInv, ListsInOrder
<1>2. InOrder(r) /\ \E l \in Nat : Leaves(h, l, r)
  BY <1>1, RecentInOrder
<1>3. InOrder(Append(r, now))
  BY <1>2, AppendInOrder
<1>4. InOrder(kept) /\ kept \in Seq(Nat)
  BY <1>2, <1>3 DEF InOrder
<1>4a. /\ b \in Seq(Entry) /\ Len(b) = Len(a) + 1 /\ Len(a) \in Nat
       /\ \A i \in 1 .. Len(a) : b[i] = a[i]
       /\ b[Len(a) + 1] = e
  <2> HIDE DEF a, e
  <2> QED
    BY <1>0, AppendEntry
<1>5. /\ history' = [history EXCEPT ![limit][key] = kept]
      /\ admitted' = IF through THEN [admitted EXCEPT ![key] = b] ELSE admitted
  BY DEF Counted, InWindow
<1>6. LimiterTypes
  BY DEF LimiterInv
<1>7. LimiterTypes'
  <2> HIDE DEF kept, b, through
  <2> QED
    BY <1>4, <1>4a, <1>5, <1>6 DEF LimiterTypes
<1>8. /\ \A l \in Limits, c \in Keys :
           history'[l][c] = IF l = limit /\ c = key THEN kept ELSE history[l][c]
      /\ \A c \in Keys : admitted'[c] = IF through /\ c = key THEN b ELSE admitted[c]
  <2> HIDE DEF kept, b, through
  <2> QED
    BY <1>5, <1>6 DEF LimiterTypes
<1>9. ListsInOrder'
  <2> HIDE DEF kept
  <2> SUFFICES ASSUME NEW l \in Limits, NEW c \in Keys PROVE InOrder(history[l][c])'
    BY DEF ListsInOrder
  <2>1. InOrder(history'[l][c])
    BY <1>4, <1>8 DEF LimiterInv, ListsInOrder
  <2> QED
    BY <2>1 DEF InOrder, Ascending
<1>10. RunsPast'
  <2> SUFFICES ASSUME NEW c \in Keys, NEW i \in 1 .. Len(admitted'[c])
               PROVE  admitted'[c][i].run <= restarts
    BY DEF RunsPast
  <2>1. \A j \in 1 .. Len(admitted[c]) : admitted[c][j].run <= restarts
    BY DEF LimiterInv, RunsPast
  <2>2. CASE through /\ c = key
    <3>1. admitted'[c] = b
      BY <1>8, <2>2
    <3> HIDE DEF b, e
    <3>2. \A j \in 1 .. Len(b) : b[j] = e \/ (j \in 1 .. Len(a) /\ b[j] = a[j])
      BY <1>4a
    <3>3. i \in 1 .. Len(b)
      BY <3>1
    <3>4. CASE b[i] = e
      BY <1>0, <3>1, <3>4
    <3>5. CASE i \in 1 .. Len(a) /\ b[i] = a[i]
      BY <2>1, <2>2, <3>1, <3>5
    <3> QED
      BY <3>2, <3>3, <3>4, <3>5
  <2>3. CASE ~ (through /\ c = key)
    <3>1. admitted'[c] = admitted[c]
      BY <1>8, <2>3
    <3> QED
      BY <2>1, <3>1
  <2> QED
    BY <2>2, <2>3
<1>11. ASSUME limit = "login"
       PROVE  \E k \in Nat : Covers(a, k, r)
  <2>1. PICK k \in Nat : Covers(a, k, h)
    BY <1>11 DEF LimiterInv, LoginsListed
  <2>2. PICK l \in Nat : Leaves(h, l, r)
    BY <1>2
  <2>3. h \in Seq(Nat) /\ r \in Seq(Nat)
    BY <1>1, <1>2 DEF InOrder
  <2>4. Covers(a, k + l, r)
    <3> HIDE DEF a, h, r
    <3> QED
      BY <1>0, <2>1, <2>2, <2>3, CoversOnce
  <2> QED
    BY <2>4
<1>12. LoginsListed'
  <2> SUFFICES ASSUME NEW c \in Keys
               PROVE  \E k \in Nat : Covers(admitted'[c], k, history'["login"][c])
    BY DEF LoginsListed, Covers, Gone
  <2>1. CASE limit = "login" /\ c = key
    <3>1. PICK k \in Nat : Covers(a, k, r)
      BY <1>11, <2>1
    <3>2. CASE Allowed(limit, key)
      <4>1. Covers(b, k, Append(r, now))
        <5> HIDE DEF a, r
        <5> QED
          BY <1>0, <1>2, <3>1, CoversGrows
      <4>2. admitted'[c] = b /\ history'["login"][c] = Append(r, now)
        BY <1>8, <2>1, <3>2 DEF Limits
      <4> HIDE DEF b, r
      <4> QED
        BY <4>1, <4>2
    <3>3. CASE ~Allowed(limit, key)
      <4>1. admitted'[c] = a /\ history'["login"][c] = r
        BY <1>8, <2>1, <3>3 DEF Limits
      <4> HIDE DEF a, r
      <4> QED
        BY <3>1, <4>1
    <3> QED
      BY <3>2, <3>3
  <2>2. CASE ~ (limit = "login" /\ c = key)
    <3>1. admitted'[c] = admitted[c] /\ history'["login"][c] = history["login"][c]
      BY <1>8, <2>2 DEF Limits
    <3> QED
      BY <3>1 DEF LimiterInv, LoginsListed
  <2> QED
    BY <2>1, <2>2
<1>13. LoginsBounded'
  <2> SUFFICES ASSUME NEW c \in Keys PROVE Bounded(admitted'[c])
    BY DEF LoginsBounded, Bounded
  <2>0. Bounded(admitted[c])
    BY DEF LimiterInv, LoginsBounded, Bounded
  <2>1. CASE through /\ c = key
    <3>1. PICK k \in Nat : Covers(a, k, r)
      BY <1>11, <2>1
    <3>2. Len(r) < LoginLimit
      BY <2>1 DEF Allowed, InWindow, LimitOf
    <3>3. admitted'[c] = b
      BY <1>8, <2>1
    <3>4. Bounded(b)
      <4>1. Bounded(a)
        BY <2>0, <2>1
      <4> HIDE DEF a, r
      <4> QED
        BY <1>0, <3>1, <3>2, <4>1, LoginBounded
    <3> HIDE DEF b
    <3> QED
      BY <3>3, <3>4
  <2>2. CASE ~ (through /\ c = key)
    <3>1. admitted'[c] = admitted[c]
      BY <1>8, <2>2
    <3> QED
      BY <2>0, <3>1
  <2> QED
    BY <2>1, <2>2
<1> QED
  BY <1>7, <1>9, <1>10, <1>12, <1>13 DEF LimiterInv

\* As time passes, what was out of the window stays out.
LEMMA TimeKeeps ==
  ASSUME now \in Nat, now' \in Nat, now <= now', LimiterInv,
         UNCHANGED <<history, admitted, restarts>>
  PROVE  LimiterInv'
<1>1. ASSUME NEW times, InOrder(times) PROVE InOrder(times)'
  <2>1. \A i \in 1 .. Len(times) : times[i] \in Nat /\ times[i] <= now
    BY <1>1 DEF InOrder
  <2>2. \A i \in 1 .. Len(times) : times[i] <= now'
    BY <2>1
  <2> QED
    BY <1>1, <2>2 DEF InOrder, Ascending
<1>2. LimiterTypes' /\ RunsPast' /\ LoginsBounded'
  BY DEF LimiterInv, LimiterTypes, RunsPast, LoginsBounded
<1>3. ListsInOrder'
  <2> SUFFICES ASSUME NEW l \in Limits, NEW c \in Keys PROVE InOrder(history[l][c])'
    BY DEF ListsInOrder
  <2>1. InOrder(history[l][c])
    BY DEF LimiterInv, ListsInOrder
  <2> QED
    BY <1>1, <2>1 DEF InOrder, Ascending
<1>4. ASSUME NEW e \in Entry, Gone(e)
      PROVE  now' - e.at >= Window \/ e.run # restarts'
  <2>1. e.at \in Nat /\ Window \in Nat
    BY AccessAssumption DEF Entry
  <2> QED
    BY <1>4, <2>1 DEF Gone
<1>5. LoginsListed'
  <2> SUFFICES ASSUME NEW c \in Keys
               PROVE  \E k \in Nat : Covers(admitted[c], k, history["login"][c])'
    BY DEF LoginsListed
  <2>1. PICK k \in Nat : Covers(admitted[c], k, history["login"][c])
    BY DEF LimiterInv, LoginsListed
  <2>2. admitted[c] \in Seq(Entry)
    BY DEF LimiterInv, LimiterTypes
  <2>3. \A i \in 1 .. k : admitted[c][i] \in Entry /\ Gone(admitted[c][i])
    BY <2>1, <2>2 DEF Covers
  <2>4. Covers(admitted[c], k, history["login"][c])'
    BY <1>4, <2>1, <2>3 DEF Covers, Gone
  <2> QED
    BY <2>4
<1> QED
  BY <1>2, <1>3, <1>5 DEF LimiterInv

LEMMA InitLimiter == Init => LimiterInv
<1> SUFFICES ASSUME Init PROVE LimiterInv
  OBVIOUS
<1>0. /\ "login" \in Limits /\ LoginLimit \in Nat
      /\ history = [l \in Limits |-> [c \in Keys |-> <<>>]]
      /\ admitted = [c \in Keys |-> <<>>]
  BY AccessAssumption DEF Init, Limits
<1>1. LimiterTypes
  BY <1>0 DEF LimiterTypes
<1>2. InOrder(<<>>) /\ Covers(<<>>, 0, <<>>)
  BY DEF InOrder, Ascending, Covers
<1>3. \A l \in Limits, c \in Keys : history[l][c] = <<>> /\ admitted[c] = <<>>
  BY <1>0
<1>4. ListsInOrder /\ LoginsListed /\ RunsPast
  BY <1>0, <1>2, <1>3 DEF ListsInOrder, LoginsListed, RunsPast
<1>5. LoginsBounded
  BY <1>0 DEF LoginsBounded
<1> QED
  BY <1>1, <1>4, <1>5 DEF LimiterInv

LEMMA LimiterStep == TypeOK /\ LimiterInv /\ [Next]_vars => LimiterInv'
<1> SUFFICES ASSUME TypeOK, LimiterInv, [Next]_vars PROVE LimiterInv'
  OBVIOUS
<1>0. now \in Nat /\ restarts \in Nat
  BY AccessAssumption DEF TypeOK
<1>1. ASSUME NEW t \in Threads, Ask(t) PROVE LimiterInv'
  <2>1. \E l \in Limits, c \in Keys : Counted(l, c) /\ UNCHANGED <<now, restarts>>
    BY <1>1 DEF Ask, Login, Logout, Status, ChangePassword, Dispatch, Limits
  <2> QED
    BY <1>0, <2>1, CountedKeeps
<1>2. ASSUME NEW t \in Threads, Handle(t) PROVE LimiterInv'
  <2>1. UNCHANGED <<now, limiter, restarts>>
    BY <1>2 DEF Handle, VerifyLogin, CreateSession, Log, Validate, Revoke, Remove, Check, ReadEnv,
                OpenEnv, FillEnv, SetPassword, Clear
  <2> QED
    BY <1>0, <2>1, TimeKeeps DEF limiter
<1>3. CASE Tick
  <2>1. now' = now + 1 /\ UNCHANGED <<limiter, restarts>>
    BY <1>3 DEF Tick
  <2> QED
    BY <1>0, <2>1, TimeKeeps DEF limiter
<1>4. CASE Restart
  <2>1. /\ restarts' = restarts + 1 /\ UNCHANGED <<now, admitted>>
        /\ history' = [l \in Limits |-> [c \in Keys |-> <<>>]]
    BY <1>4 DEF Restart
  <2>2. \A l \in Limits, c \in Keys : history'[l][c] = <<>>
    BY <2>1
  <2>3. LimiterTypes' /\ LoginsBounded'
    BY <2>1 DEF LimiterInv, LimiterTypes, LoginsBounded
  <2>4. ListsInOrder'
    <3>1. InOrder(<<>>)'
      BY DEF InOrder, Ascending
    <3> QED
      BY <2>2, <3>1 DEF ListsInOrder, InOrder, Ascending
  <2>5. ASSUME NEW c \in Keys
        PROVE  /\ \E k \in Nat : Covers(admitted[c], k, history["login"][c])'
               /\ \A i \in 1 .. Len(admitted[c]) : admitted[c][i].run <= restarts'
    <3> DEFINE a == admitted[c]
    <3>1. a \in Seq(Entry) /\ \A i \in 1 .. Len(a) : a[i].run <= restarts
      BY DEF LimiterInv, LimiterTypes, RunsPast
    <3>2. a' = a /\ history'["login"][c] = <<>> /\ Len(a) \in Nat
      BY <2>1, <2>2, <3>1 DEF Limits
    <3>3. /\ Len(a) \in 0 .. Len(a) /\ Len(<<>>) = Len(a) - Len(a)
          /\ \A i \in 1 .. Len(a) : Gone(a[i])'
          /\ \A i \in 1 .. Len(a) : a[i].run <= restarts'
      <4> HIDE DEF a
      <4>1. \A i \in 1 .. Len(a) : a[i] \in Entry
        BY <3>1
      <4> QED
        BY <1>0, <2>1, <3>1, <3>2, <4>1 DEF Gone, Entry
    <3> QED
      BY <3>2, <3>3 DEF Covers
  <2> QED
    BY <2>1, <2>3, <2>4, <2>5 DEF LimiterInv, LoginsListed, RunsPast
<1>5. CASE UNCHANGED vars
  BY <1>0, <1>5, TimeKeeps DEF vars, limiter
<1> QED
  BY <1>1, <1>2, <1>3, <1>4, <1>5 DEF Next

-----------------------------------------------------------------------------

(***************************************************************************)
(* Every reachable state is well-typed and satisfies the invariants.       *)
(***************************************************************************)
THEOREM AccessInv == Spec => [](TypeOK /\ SessionsInv /\ FileInv /\ LimiterInv)
<1> DEFINE Inv == TypeOK /\ SessionsInv /\ FileInv /\ LimiterInv
<1>1. Init => Inv
  BY InitInv, InitLimiter DEF SessionsInv
<1>2. Inv /\ [Next]_vars => Inv'
  BY TypeStep, SessionsStep, FileStep, LimiterStep
<1> QED
  BY <1>1, <1>2, PTL DEF Spec

(***************************************************************************)
(* The sessions, the file, the password and the requests of Access have    *)
(* their types in every reachable state.                                   *)
(***************************************************************************)
THEOREM TypeCorrect == Spec => []TypeOK
  BY AccessInv, PTL

(***************************************************************************)
(* After a password change (routers/auth.py) every session was opened with *)
(* the password in force, but for the logins it overtook: whatever the     *)
(* number of threads and requests, and wherever a restart falls.           *)
(***************************************************************************)
THEOREM SessionsTheorem == Spec => []SessionsCurrent
<1>1. SessionsInv => SessionsCurrent
  BY DEF SessionsInv
<1> QED
  BY AccessInv, <1>1, PTL

(***************************************************************************)
(* Unless two rewrites of .env overlapped or one was cut short, it keeps   *)
(* its other lines, and a restart goes on with the password in force, if   *)
(* the root's .env is what the settings are read from and the password is  *)
(* one that is read back as it was written: after any number of changes    *)
(* and restarts, those between which it was another included.              *)
(***************************************************************************)
THEOREM PasswordTheorem == Spec => []PasswordKept
<1>1. TypeOK /\ FileInv => PasswordKept
  BY AccessAssumption DEF TypeOK, FileInv, Kept, Agrees, Written, Effective, PasswordKept
<1> QED
  BY AccessInv, <1>1, PTL

(***************************************************************************)
(* No key gets more than LoginLimit logins past the limiter                *)
(* (core/security_middleware.py) within a window, wherever the window      *)
(* begins, unless the API restarted in it: for every window and limit, the *)
(* limit 0 included.  A key is what the caller says in X-Forwarded-For.    *)
(***************************************************************************)
THEOREM LoginsTheorem == Spec => []LoginsBounded
<1>1. LimiterInv => LoginsBounded
  BY DEF LimiterInv
<1> QED
  BY AccessInv, <1>1, PTL
=============================================================================
