-------------------------------- MODULE Backend --------------------------------
(***************************************************************************)
(* What the process keeps outside the VPN manager: the access store, the   *)
(* configuration and the states of the sign-in, in one process that may be *)
(* killed at any time and is started again by the container (run of        *)
(* main.go).  A file of access records that is not accepted disables the   *)
(* bot and nothing else.                                                   *)
(***************************************************************************)
EXTENDS AccessStore, ConfigStore, OAuthStates

CONSTANTS
    MaxCalls,    \* bound: calls in a behaviour
    MaxCrashes   \* bound: times the process is killed

ASSUME CallsAssumption == MaxCalls \in Nat /\ MaxCrashes \in Nat

VARIABLES
    calls,       \* calls so far
    crashes      \* times the process was killed

vars == <<accessVars, configVars, oauthVars, calls, crashes>>

Init == AccessInit /\ ConfigInit /\ OAuthInit /\ calls = 0 /\ crashes = 0

NextCall == calls < MaxCalls /\ calls' = calls + 1 /\ UNCHANGED crashes
NoCall   == UNCHANGED <<calls, crashes>>

AccessCall == NextCall /\ \E u \in Users: Start(u) \/ \E v \in Verbs: Decide(u, v)
AccessStep == NoCall /\ (HandlerStep \/ Recipients \/ SetBack)

ConfigCall ==
    /\ NextCall
    /\ \E r \in Requests:
         \/ UploadCert(r)
         \/ \E p \in Profiles, s \in Secrets, a, c \in BOOLEAN: Update(r, p, s, a, c)
ConfigStep == NoCall /\ \E r \in Requests: SaveStep(r)

OAuthCall ==
    /\ NextCall
    /\ \E s \in States: AuthURL(s) \/ \E c \in Callbacks: Claim(c, s)
OAuthStep == NoCall /\ \E c \in Callbacks: ExchangeReturns(c)

\* Time passes for the wall clock and for the monotonic one; only the first of
\* them can be set back.
Pass == NoCall /\ Tick /\ OAuthPass /\ UNCHANGED configVars

Crash ==
    /\ crashes < MaxCrashes /\ crashes' = crashes + 1 /\ UNCHANGED calls
    /\ AccessCrash /\ ConfigCrash /\ OAuthCrash

\* run: cfgMgr.Load, NewGitHubAuth, then the bot with its access store.
Restart == NoCall /\ AccessRestart /\ Load /\ OAuthRestart

Next == \/ Crash \/ Restart \/ Pass
        \/ (AccessCall \/ AccessStep) /\ UNCHANGED <<configVars, oauthVars>>
        \/ (ConfigCall \/ ConfigStep) /\ UNCHANGED <<accessVars, oauthVars>>
        \/ (OAuthCall \/ OAuthStep) /\ UNCHANGED <<accessVars, configVars>>

Spec == Init /\ [][Next]_vars

-----------------------------------------------------------------------------
(* Properties.                                                             *)

\* The variables have their types, and the three parts are up together; the bot
\* may be disabled alone.
TypeOK ==
    /\ AccessTypeOK /\ ConfigTypeOK /\ OAuthTypeOK
    /\ up = authUp /\ (bot = "down") = ~up
    /\ calls \in 0..MaxCalls /\ crashes \in 0..MaxCrashes
=============================================================================
