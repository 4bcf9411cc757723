------------------------------ MODULE OAuthStates ------------------------------
(***************************************************************************)
(* The sign-in with GitHub, internal/auth/github.go and the two handlers   *)
(* of api/handlers_auth.go: a login gets a random state, the callback      *)
(* brings it back and is answered with a session.  The states live in      *)
(* memory, under GitHubAuth.mu, and the stale ones are purged when the     *)
(* next login starts.  The same callback may arrive twice, at once.        *)
(*                                                                         *)
(* Only the states are shared: a session is a signed cookie, which the     *)
(* process does not keep.  A random state is a new one, so it is a number; *)
(* ages are measured by the monotonic clock.                               *)
(***************************************************************************)
EXTENDS Integers

CONSTANTS
    Callbacks,   \* callback requests that may run at the same time
    Lifetime,    \* fifteen minutes
    MaxLogins,   \* bound: logins started
    MaxElapsed   \* bound: steps of time

ASSUME LifetimeAssumption == Lifetime \in Nat
ASSUME LoginsAssumption   == MaxLogins \in Nat /\ MaxElapsed \in Nat \ {0}

VARIABLES
    authUp,      \* the process runs
    states,      \* GitHubAuth.states
    issued,      \* history: when a state was made, 0 for never
    elapsed,     \* external: the time
    callback,    \* the state a callback request has claimed, or 0
    sessions,    \* history: sessions issued for a state
    spent        \* history: states that were claimed or forgotten by a restart

oauthVars == <<authUp, states, issued, elapsed, callback, sessions, spent>>

States == 1..MaxLogins

OAuthTypeOK ==
    /\ authUp \in BOOLEAN /\ elapsed \in 1..MaxElapsed
    /\ states \in SUBSET States /\ spent \in SUBSET States
    /\ issued \in [States -> 0..MaxElapsed]
    /\ callback \in [Callbacks -> States \cup {0}]
    /\ sessions \in [States -> Nat]

OAuthInit ==
    /\ authUp = TRUE /\ states = {} /\ elapsed = 1 /\ spent = {}
    /\ issued = [s \in States |-> 0]
    /\ callback = [c \in Callbacks |-> 0]
    /\ sessions = [s \in States |-> 0]

-----------------------------------------------------------------------------

\* The purge of AuthURL.
Stale(s) == elapsed - issued[s] > Lifetime

\* AuthURL
AuthURL(s) ==
    /\ authUp /\ issued[s] = 0 /\ \A x \in States: issued[x] = 0 => s <= x
    /\ issued' = [issued EXCEPT ![s] = elapsed]
    /\ states' = {x \in states: ~Stale(x)} \cup {s}
    /\ UNCHANGED <<authUp, elapsed, callback, sessions, spent>>

\* Mutant: the state stays until the session is issued.
ClaimLater(c, s) ==
    /\ authUp /\ callback[c] = 0 /\ s \in states
    /\ callback' = [callback EXCEPT ![c] = s]
    /\ UNCHANGED <<authUp, states, issued, elapsed, sessions, spent>>

\* Exchange, the part under the lock.  Any other callback is refused at once.
Claim(c, s) ==
    /\ authUp /\ callback[c] = 0 /\ s \in states
    /\ callback' = [callback EXCEPT ![c] = s]
    /\ states' = states \ {s} /\ spent' = spent \cup {s}
    /\ UNCHANGED <<authUp, issued, elapsed, sessions>>

\* The token, the user and the list of allowed users: a session, or one failed.
ExchangeReturns(c) ==
    /\ callback[c] # 0
    /\ callback' = [callback EXCEPT ![c] = 0]
    /\ sessions' \in {sessions, [sessions EXCEPT ![callback[c]] = @ + 1]}
    /\ UNCHANGED <<authUp, states, issued, elapsed, spent>>

OAuthPass ==
    /\ elapsed < MaxElapsed
    /\ elapsed' = elapsed + 1
    /\ UNCHANGED <<authUp, states, issued, callback, sessions, spent>>

OAuthCrash ==
    /\ authUp
    /\ authUp' = FALSE
    /\ states' = {} /\ spent' = spent \cup states
    /\ callback' = [c \in Callbacks |-> 0]
    /\ UNCHANGED <<issued, elapsed, sessions>>

OAuthRestart ==
    /\ ~authUp
    /\ authUp' = TRUE
    /\ UNCHANGED <<states, issued, elapsed, callback, sessions, spent>>

OAuthNext ==
    \/ \E s \in States: AuthURL(s) \/ \E c \in Callbacks: Claim(c, s)
    \/ \E c \in Callbacks: ExchangeReturns(c)
    \/ OAuthPass \/ OAuthCrash \/ OAuthRestart

OAuthSpec == OAuthInit /\ [][OAuthNext]_oauthVars

-----------------------------------------------------------------------------
(* Properties.                                                             *)

\* A state is good for one session, however often and however close together its
\* callback arrives (Exchange deletes it in the region that looks it up), and who
\* comes back within fifteen minutes is let in whatever other logins do: only a
\* callback or a restart takes a fresh state away.
StateIsGoodOnce ==
    \A s \in States:
        /\ sessions[s] <= 1
        /\ issued[s] # 0 /\ elapsed - issued[s] <= Lifetime => s \in states \cup spent
=============================================================================
