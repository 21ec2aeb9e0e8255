------------------------------- MODULE SignIn -------------------------------
(***************************************************************************)
(* Signing in to opstrax-supplyops-v1 and out again (auth.js), for one     *)
(* user and one surface: tenants and the platform have tables and caches   *)
(* of their own and the same code.                                         *)
(*                                                                         *)
(* The callback of a login waits for the identity provider three times; up *)
(* to the first wait and after the last it runs on its own, as every other *)
(* handler does. Expired rows are deleted by cleanupExpired before a       *)
(* session is looked up, and no query would find them either way: they are *)
(* kept here. Redis is written and never read.                             *)
(***************************************************************************)
EXTENDS Integers, FiniteSets

CONSTANTS
  Attempts,    \* bound: login requests ever made
  Callbacks,   \* bound: callbacks in progress at once
  SessionIds,  \* bound: sessions ever made
  RequestTtl, SessionTtl, CacheTtl,   \* lifetimes
  LastTick,    \* bound: time
  Free         \* a callback that is not in progress

ASSUME SignInAssumption ==
  /\ IsFiniteSet(Attempts) /\ IsFiniteSet(Callbacks) /\ IsFiniteSet(SessionIds)
  /\ {RequestTtl, SessionTtl, CacheTtl} \subseteq Nat \ {0} /\ LastTick \in Nat
  /\ Free \notin Attempts

VARIABLES
  clock,
  person,      \* the row of users, and when it last became inactive
  attempt,     \* rows of auth_login_requests
  callback,    \* the callbacks in progress, by the attempt that each is of
  login,       \* rows of auth_sessions
  cached       \* _sessionCache: until when each session is in it

SignInVars == <<clock, person, attempt, callback, login, cached>>

Times == 0..(LastTick + RequestTtl + SessionTtl + CacheTtl)
NoLogin == [status |-> "NONE"]
LoginRow == [status : {"LIVE", "REVOKED"}, until : Times]
AttemptRow == [status : {"NONE", "OPEN", "USED"}, until : Times]

SignInInit ==
  /\ clock = 0
  /\ person = [active |-> TRUE, since |-> 0]
  /\ attempt = [a \in Attempts |-> [status |-> "NONE", until |-> 0]]
  /\ callback = [c \in Callbacks |-> Free]
  /\ login = [s \in SessionIds |-> NoLogin]
  /\ cached = [s \in SessionIds |-> 0]

-----------------------------------------------------------------------------
Tick ==
  /\ clock < LastTick
  /\ clock' = clock + 1
  /\ UNCHANGED <<person, attempt, callback, login, cached>>

\* No handler writes users.active: it is set in the database.
ChangePerson ==
  /\ person' = [active |-> ~person.active, since |-> clock]
  /\ UNCHANGED <<clock, attempt, callback, login, cached>>

\* getLoginUrl: the request is stored before the provider is asked for its URL.
GetLoginUrl(a) ==
  /\ attempt[a].status = "NONE"
  /\ attempt' = [attempt EXCEPT ![a] =
       [status |-> "OPEN", until |-> clock + RequestTtl]]
  /\ UNCHANGED <<clock, person, callback, login, cached>>

\* completeSurfaceLogin up to its first wait: two callbacks may read one request.
BeginLogin(c, a) ==
  /\ callback[c] = Free
  /\ attempt[a].status = "OPEN" /\ attempt[a].until > clock
  /\ callback' = [callback EXCEPT ![c] = a]
  /\ UNCHANGED <<clock, person, attempt, login, cached>>

\* The provider refuses, or what it says does not hold, or the process restarts.
AbandonLogin(c) ==
  /\ callback[c] # Free
  /\ callback' = [callback EXCEPT ![c] = Free]
  /\ UNCHANGED <<clock, person, attempt, login, cached>>

\* After the last wait. The expiry of the request is not looked at again, nor
\* whether another callback made a session of it meanwhile.
CompleteLogin(c, s) ==
  /\ callback[c] # Free
  /\ person.active
  /\ login[s] = NoLogin
  /\ login' = [login EXCEPT ![s] = [status |-> "LIVE", until |-> clock + SessionTtl]]
  /\ attempt' = [attempt EXCEPT ![callback[c]].status = "USED"]
  /\ callback' = [callback EXCEPT ![c] = Free]
  /\ UNCHANGED <<clock, person, cached>>

\* createDemoSession, outside production: for the active user that is named, or
\* for one of the tenant, disabled or not, when none is.
CreateDemoSession(s) ==
  /\ login[s] = NoLogin
  /\ login' = [login EXCEPT ![s] = [status |-> "LIVE", until |-> clock + SessionTtl]]
  /\ UNCHANGED <<clock, person, attempt, callback, cached>>

-----------------------------------------------------------------------------
InCache(s) == cached[s] > 0 /\ clock <= cached[s]
Valid(s) == login[s].status = "LIVE" /\ login[s].until > clock /\ person.active
\* readSession answers with s.
Answered(s) == InCache(s) \/ Valid(s)

\* Only what the cache did not answer is stored there.
ReadSession(s) ==
  /\ ~InCache(s)
  /\ login[s] # NoLogin /\ Valid(s)
  /\ cached' = [cached EXCEPT ![s] = clock + CacheTtl]
  /\ UNCHANGED <<clock, person, attempt, callback, login>>

\* Fault for LogoutSession: the cache is left to expire.
LogoutSessionCached(s) ==
  /\ login[s] # NoLogin
  /\ login' = [login EXCEPT ![s].status = "REVOKED"]
  /\ UNCHANGED <<clock, person, attempt, callback, cached>>
LogoutSession(s) ==
  /\ login[s] # NoLogin
  /\ login' = [login EXCEPT ![s].status = "REVOKED"]
  /\ cached' = [cached EXCEPT ![s] = 0]
  /\ UNCHANGED <<clock, person, attempt, callback>>

RestartServer ==
  /\ callback' = [c \in Callbacks |-> Free]
  /\ cached' = [s \in SessionIds |-> 0]
  /\ UNCHANGED <<clock, person, attempt, login>>

SignInNext ==
  \/ Tick \/ ChangePerson \/ RestartServer
  \/ \E a \in Attempts : GetLoginUrl(a) \/ \E c \in Callbacks : BeginLogin(c, a)
  \/ \E c \in Callbacks : AbandonLogin(c) \/ \E s \in SessionIds : CompleteLogin(c, s)
  \/ \E s \in SessionIds : CreateDemoSession(s) \/ ReadSession(s) \/ LogoutSession(s)

SignInSpec == SignInInit /\ [][SignInNext]_SignInVars

-----------------------------------------------------------------------------
SignInTypes ==
  /\ clock \in 0..LastTick
  /\ person \in [active : BOOLEAN, since : 0..LastTick]
  /\ attempt \in [Attempts -> AttemptRow]
  /\ callback \in [Callbacks -> Attempts \cup {Free}]
  /\ login \in [SessionIds -> LoginRow \cup {NoLogin}]
  /\ cached \in [SessionIds -> Times]

(* Whoever signs in, out, in twice at once, and however often the server    *)
(* restarts: a session that was logged out is not answered again, and one  *)
(* that expired, or whose user was disabled, is answered for no longer     *)
(* than the cache keeps it.                                                *)
SessionsAreCurrent ==
  \A s \in SessionIds : login[s] # NoLogin /\ Answered(s) =>
    /\ login[s].status = "LIVE"
    /\ clock <= login[s].until + CacheTtl
    /\ ~person.active => clock <= person.since + CacheTtl
=============================================================================
