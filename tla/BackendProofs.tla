----------------------------- MODULE BackendProofs -----------------------------
(***************************************************************************)
(* The process of main.go for any number of users, requests, callbacks,    *)
(* failures and crashes.  First the configuration and the sign-in states,  *)
(* each on its own as AccessStoreProofs has the access store; then Backend *)
(* is its three parts side by side, so what holds of each of them holds of *)
(* the process as a whole.                                                 *)
(***************************************************************************)
EXTENDS Backend, AccessStoreProofs

-----------------------------------------------------------------------------
(* The configuration.  The one saved last is the one in use, and           *)
(* auto-reconnect is never stored without a secret.                        *)

\* The types that the steps below need.
ConfigTypes ==
    /\ request \in [Requests -> [pc: {"idle", "save", "write", "assign"}, copy: Config]]
    /\ saver \in SUBSET Requests
    /\ cfg \in Config /\ cfgFile.config \in Config

\* Who writes has the lock, alone; a process that is down has no requests.
LockInv ==
    /\ \A r \in Requests: r \in saver <=> request[r].pc \in {"write", "assign"}
    /\ \A q, r \in saver: q = r
    /\ ~up => saver = {} /\ \A r \in Requests: request[r].pc = "idle"

\* What a writer leaves behind at each step.
WriterInv ==
    \A r \in Requests:
        /\ request[r].pc = "write" => cfgFile = Torn
        /\ request[r].pc = "assign" => cfgFile # Torn /\ saved = request[r].copy

\* A file that is whole is the one saved last.
FileInv == cfgFile # Torn => cfgFile.config = saved

\* Auto-reconnect has a secret, in every copy.
Sound(c) == c.autoReconnect => c.otpSecret
SoundInv ==
    /\ Sound(cfg) /\ Sound(cfgFile.config)
    /\ \A r \in Requests: Sound(request[r].copy)

SaverInv == LockInv /\ WriterInv /\ FileInv /\ SavedIsUsed
ConfigInv == ConfigTypes /\ SaverInv /\ SoundInv

LEMMA DefaultIsConfig == Default \in Config /\ Sound(Default)
BY DEF Default, Config, Sound

LEMMA FileConfigs ==
  /\ NoFile # Torn /\ NoFile.config = Default /\ Torn.config = Default
  /\ \A c : Whole(c) # Torn /\ Whole(c).config = c
BY DEF NoFile, Torn, Whole

LEMMA ConfigInvInit == ConfigInit => ConfigInv
<1> SUFFICES ASSUME ConfigInit PROVE ConfigInv OBVIOUS
<1>1. /\ up = TRUE /\ cfg = Default /\ cfgFile = NoFile /\ saver = {} /\ saved = Default
      /\ request = [r \in Requests |-> [pc |-> "idle", copy |-> Default]]
  BY DEF ConfigInit, Done
<1>2. \A r \in Requests: request[r].pc = "idle" /\ request[r].copy = Default BY <1>1
<1>3. ConfigTypes BY <1>1, DefaultIsConfig, FileConfigs DEF ConfigTypes
<1>4. SaverInv
  BY <1>1, <1>2, FileConfigs DEF SaverInv, LockInv, WriterInv, FileInv, SavedIsUsed
<1>5. SoundInv BY <1>1, <1>2, DefaultIsConfig, FileConfigs DEF SoundInv
<1> QED BY <1>3, <1>4, <1>5 DEF ConfigInv

\* A handler takes a copy and changes it, and nothing else moves.
LEMMA CopyKeeps ==
  ASSUME ConfigInv, up, NEW r \in Requests, request[r].pc = "idle", NEW c \in Config, Sound(c),
         request' = [request EXCEPT ![r] = [pc |-> "save", copy |-> c]],
         UNCHANGED <<up, cfg, cfgFile, saver, saved>>
  PROVE  ConfigInv'
<1>1. /\ request'[r].pc = "save" /\ request'[r].copy = c
      /\ \A q \in Requests \ {r}: request'[q] = request[q]
  BY DEF ConfigInv, ConfigTypes
<1>2. ConfigTypes' BY DEF ConfigInv, ConfigTypes
<1>3. SaverInv'
  BY <1>1 DEF ConfigInv, SaverInv, LockInv, WriterInv, FileInv, SavedIsUsed
<1>4. SoundInv' BY <1>1 DEF ConfigInv, SoundInv
<1> QED BY <1>2, <1>3, <1>4 DEF ConfigInv

\* A request that ends without having changed the memory: every save of it failed.
LEMMA FailKeeps ==
  ASSUME ConfigInv, NEW r \in Requests, SaveFails(r), saver \subseteq {r},
         UNCHANGED <<up, cfg, cfgFile, saved>>, cfgFile = Torn \/ saver = {}
  PROVE  ConfigInv'
<1>1. request' = [request EXCEPT ![r] = Done] /\ saver' = {} BY DEF SaveFails
<1>2. /\ request'[r].pc = "idle" /\ request'[r].copy = Default
      /\ \A q \in Requests \ {r}: request'[q] = request[q]
  BY <1>1 DEF ConfigInv, ConfigTypes, Done
<1>3. ConfigTypes' BY <1>1, DefaultIsConfig DEF ConfigInv, ConfigTypes, Done
<1>4. SaverInv'
  BY <1>1, <1>2 DEF ConfigInv, SaverInv, LockInv, WriterInv, FileInv, SavedIsUsed
<1>5. SoundInv' BY <1>2, DefaultIsConfig DEF ConfigInv, SoundInv
<1> QED BY <1>3, <1>4, <1>5 DEF ConfigInv

LEMMA UpdateKeeps ==
  ASSUME ConfigInv, NEW r \in Requests, NEW p \in Profiles, NEW s \in Secrets,
         NEW a \in BOOLEAN, NEW c \in BOOLEAN, Update(r, p, s, a, c)
  PROVE  ConfigInv'
<1> DEFINE has  == IF s = "keep" THEN cfg.otpSecret ELSE s = "set"
           copy == [profile |-> p, otpSecret |-> has,
                    autoReconnect |-> AutoReconnect(a, has), certFile |-> c]
<1>1. up /\ request[r].pc = "idle" /\ UNCHANGED <<up, cfg, cfgFile, saver, saved>>
      /\ request' = [request EXCEPT ![r] = [pc |-> "save", copy |-> copy]]
  BY DEF Update
<1>2. has \in BOOLEAN BY DEF ConfigInv, ConfigTypes, Config
<1>3. AutoReconnect(a, has) \in BOOLEAN BY <1>2 DEF AutoReconnect
<1>4. copy \in Config BY <1>2, <1>3 DEF Config
<1>5. Sound(copy) BY DEF Sound, AutoReconnect
<1> HIDE DEF copy
<1> QED BY <1>1, <1>4, <1>5, CopyKeeps

LEMMA UploadKeeps ==
  ASSUME ConfigInv, NEW r \in Requests, UploadCert(r)
  PROVE  ConfigInv'
<1> DEFINE copy == [cfg EXCEPT !.certFile = TRUE]
<1>1. up /\ request[r].pc = "idle" /\ UNCHANGED <<up, cfg, cfgFile, saver, saved>>
      /\ request' = [request EXCEPT ![r] = [pc |-> "save", copy |-> copy]]
  BY DEF UploadCert
<1>2. copy \in Config BY DEF ConfigInv, ConfigTypes, Config
<1>3. Sound(copy) BY DEF ConfigInv, ConfigTypes, SoundInv, Sound, Config
<1> HIDE DEF copy
<1> QED BY <1>1, <1>2, <1>3, CopyKeeps

LEMMA OpenKeeps ==
  ASSUME ConfigInv, NEW r \in Requests, OpenFile(r)
  PROVE  ConfigInv'
<1>1. request[r].pc = "save" /\ saver = {} /\ UNCHANGED <<up, cfg, saved>> BY DEF OpenFile
<1>2. CASE Goto(r, "write") /\ saver' = {r} /\ cfgFile' = Torn
  <2>1. /\ request'[r].pc = "write" /\ request'[r].copy = request[r].copy
        /\ \A q \in Requests \ {r}: request'[q] = request[q]
    BY <1>2 DEF Goto, ConfigInv, ConfigTypes
  <2>2. ConfigTypes'
    BY <1>1, <1>2, FileConfigs, DefaultIsConfig DEF Goto, ConfigInv, ConfigTypes
  <2>3. up BY <1>1 DEF ConfigInv, SaverInv, LockInv
  <2>4. \A q \in Requests: request[q].pc \notin {"write", "assign"}
    BY <1>1 DEF ConfigInv, SaverInv, LockInv
  <2>5. SaverInv'
    BY <1>1, <1>2, <2>1, <2>3, <2>4
    DEF ConfigInv, SaverInv, LockInv, WriterInv, FileInv, SavedIsUsed
  <2>6. SoundInv'
    BY <1>1, <1>2, <2>1, FileConfigs, DefaultIsConfig DEF ConfigInv, SoundInv
  <2> QED BY <2>2, <2>5, <2>6 DEF ConfigInv
<1>3. CASE SaveFails(r) /\ UNCHANGED cfgFile BY <1>1, <1>3, FailKeeps
<1> QED BY <1>2, <1>3 DEF OpenFile

LEMMA WriteKeeps ==
  ASSUME ConfigInv, NEW r \in Requests, WriteFile(r)
  PROVE  ConfigInv'
<1>1. request[r].pc = "write" /\ UNCHANGED <<up, cfg>> BY DEF WriteFile
<1>2. saver = {r} /\ cfgFile = Torn
      /\ \A q \in Requests \ {r}: request[q].pc \notin {"write", "assign"}
  BY <1>1 DEF ConfigInv, ConfigTypes, SaverInv, LockInv, WriterInv
<1>3. CASE /\ cfgFile' = Whole(request[r].copy) /\ saved' = request[r].copy
           /\ Goto(r, "assign") /\ saver' = saver
  <2>1. /\ request'[r].pc = "assign" /\ request'[r].copy = request[r].copy
        /\ \A q \in Requests \ {r}: request'[q] = request[q]
    BY <1>3 DEF Goto, ConfigInv, ConfigTypes
  <2>2. cfgFile' # Torn /\ cfgFile'.config = request[r].copy BY <1>3, FileConfigs
  <2>3. request[r].copy \in Config BY DEF ConfigInv, ConfigTypes
  <2>4. ConfigTypes' BY <1>1, <1>3, <2>2, <2>3 DEF Goto, ConfigInv, ConfigTypes
  <2>5. SaverInv'
    BY <1>1, <1>2, <1>3, <2>1, <2>2
    DEF ConfigInv, SaverInv, LockInv, WriterInv, FileInv, SavedIsUsed
  <2>6. SoundInv' BY <1>1, <2>1, <2>2 DEF ConfigInv, SoundInv
  <2> QED BY <2>4, <2>5, <2>6 DEF ConfigInv
<1>4. CASE SaveFails(r) /\ UNCHANGED <<cfgFile, saved>> BY <1>1, <1>2, <1>4, FailKeeps
<1> QED BY <1>3, <1>4 DEF WriteFile

LEMMA AssignKeeps ==
  ASSUME ConfigInv, NEW r \in Requests, AssignConfig(r)
  PROVE  ConfigInv'
<1>1. /\ request[r].pc = "assign" /\ cfg' = request[r].copy
      /\ request' = [request EXCEPT ![r] = Done] /\ saver' = {}
      /\ UNCHANGED <<up, cfgFile, saved>>
  BY DEF AssignConfig
<1>2. /\ saved = request[r].copy /\ request[r].copy \in Config /\ Sound(request[r].copy)
      /\ \A q \in Requests \ {r}: request[q].pc \notin {"write", "assign"}
  BY <1>1 DEF ConfigInv, ConfigTypes, SaverInv, LockInv, WriterInv, SoundInv
<1>3. /\ request'[r].pc = "idle" /\ request'[r].copy = Default
      /\ \A q \in Requests \ {r}: request'[q] = request[q]
  BY <1>1 DEF ConfigInv, ConfigTypes, Done
<1>4. ConfigTypes' BY <1>1, <1>2, DefaultIsConfig DEF ConfigInv, ConfigTypes, Done
<1>5. SaverInv'
  BY <1>1, <1>2, <1>3 DEF ConfigInv, SaverInv, LockInv, WriterInv, FileInv, SavedIsUsed
<1>6. SoundInv' BY <1>1, <1>2, <1>3, DefaultIsConfig DEF ConfigInv, SoundInv
<1> QED BY <1>4, <1>5, <1>6 DEF ConfigInv

LEMMA ConfigProcessKeeps ==
  ASSUME ConfigInv, ConfigCrash \/ Load
  PROVE  ConfigInv'
<1>1. CASE ConfigCrash
  <2>1. /\ up' = FALSE /\ cfg' = Default /\ saver' = {} /\ UNCHANGED <<cfgFile, saved>>
        /\ request' = [r \in Requests |-> [pc |-> "idle", copy |-> Default]]
    BY <1>1 DEF ConfigCrash, Done
  <2>2. \A r \in Requests: request'[r].pc = "idle" /\ request'[r].copy = Default BY <2>1
  <2>3. ConfigTypes' BY <2>1, DefaultIsConfig DEF ConfigInv, ConfigTypes
  <2>4. SaverInv'
    BY <2>1, <2>2 DEF ConfigInv, SaverInv, LockInv, WriterInv, FileInv, SavedIsUsed
  <2>5. SoundInv' BY <2>1, <2>2, DefaultIsConfig DEF ConfigInv, SoundInv
  <2> QED BY <2>3, <2>4, <2>5 DEF ConfigInv
<1>2. CASE Load
  <2>1. ~up /\ up' /\ cfg' = cfgFile.config /\ UNCHANGED <<cfgFile, request, saver, saved>>
    BY <1>2 DEF Load
  <2>2. ConfigTypes' BY <2>1 DEF ConfigInv, ConfigTypes
  <2>3. SaverInv' BY <2>1 DEF ConfigInv, SaverInv, LockInv, WriterInv, FileInv, SavedIsUsed
  <2>4. SoundInv' BY <2>1 DEF ConfigInv, SoundInv
  <2> QED BY <2>2, <2>3, <2>4 DEF ConfigInv
<1> QED BY <1>1, <1>2

LEMMA ConfigInvNext == ConfigInv /\ [ConfigNext]_configVars => ConfigInv'
<1> SUFFICES ASSUME ConfigInv, [ConfigNext]_configVars PROVE ConfigInv' OBVIOUS
<1>1. ASSUME NEW r \in Requests, NEW p \in Profiles, NEW s \in Secrets, NEW a \in BOOLEAN,
             NEW c \in BOOLEAN, Update(r, p, s, a, c)
      PROVE  ConfigInv'
  BY <1>1, UpdateKeeps
<1>2. ASSUME NEW r \in Requests, UploadCert(r) \/ SaveStep(r) PROVE ConfigInv'
  BY <1>2, UploadKeeps, OpenKeeps, WriteKeeps, AssignKeeps DEF SaveStep
<1>3. CASE ConfigCrash \/ Load BY <1>3, ConfigProcessKeeps
<1>4. CASE UNCHANGED configVars
  BY <1>4 DEF configVars, ConfigInv, ConfigTypes, SaverInv, LockInv, WriterInv, FileInv,
              SavedIsUsed, SoundInv
<1> QED BY <1>1, <1>2, <1>3, <1>4 DEF ConfigNext

THEOREM ConfigInvariant == ConfigSpec => []ConfigInv
BY ConfigInvInit, ConfigInvNext, PTL DEF ConfigSpec

\* What was saved last is what the next Connect uses (Save, Load), however requests
\* overlap and wherever the process is killed, unless the file was cut off.
THEOREM SavedProfileIsUsed == ConfigSpec => []SavedIsUsed
<1>1. ConfigInv => SavedIsUsed BY DEF ConfigInv, SaverInv
<1> QED BY <1>1, ConfigInvariant, PTL

\* Neither the memory nor the file ever reconnects without a secret
\* (handleUpdateConfig), also when overlapping requests set one and clear the other.
THEOREM ReconnectHasSecret == ConfigSpec => []AutoNeedsSecret
<1>1. ConfigInv => AutoNeedsSecret BY DEF ConfigInv, SoundInv, Sound, AutoNeedsSecret
<1> QED BY <1>1, ConfigInvariant, PTL

-----------------------------------------------------------------------------
(* The sign-in states.  A state is good for one session, and stays known   *)
(* for its lifetime until it is used.                                      *)

AuthTypes ==
    /\ elapsed \in Nat \ {0}
    /\ states \in SUBSET States /\ spent \in SUBSET States
    /\ issued \in [States -> Nat]
    /\ callback \in [Callbacks -> States \cup {0}]
    /\ sessions \in [States -> Nat]

\* A state is not made yet, or known, or with one callback, or used up.
Unclaimed(s) == sessions[s] = 0 /\ \A c \in Callbacks: callback[c] # s

UseInv ==
    \A s \in States:
        /\ issued[s] = 0 => s \notin states /\ Unclaimed(s)
        /\ s \in states => Unclaimed(s)
        /\ \A c \in Callbacks: callback[c] = s => sessions[s] = 0
        /\ \A c, d \in Callbacks: callback[c] = s /\ callback[d] = s => c = d
        /\ sessions[s] <= 1

\* Only stale states are forgotten.
KnownInv ==
    \A s \in States: issued[s] # 0 /\ elapsed - issued[s] <= Lifetime => s \in states \cup spent

AuthInv == AuthTypes /\ UseInv /\ KnownInv

LEMMA ZeroIsNoState == 0 \notin States
BY DEF States

LEMMA AuthInvInit == OAuthInit => AuthInv
BY ZeroIsNoState DEF OAuthInit, AuthInv, AuthTypes, UseInv, Unclaimed, KnownInv

LEMMA LoginKeeps ==
  ASSUME AuthInv, NEW s \in States, AuthURL(s)
  PROVE  AuthInv'
<1>1. /\ issued[s] = 0 /\ issued' = [issued EXCEPT ![s] = elapsed]
      /\ states' = {x \in states: ~Stale(x)} \cup {s}
      /\ UNCHANGED <<elapsed, callback, sessions, spent>>
  BY DEF AuthURL
<1>2. AuthTypes' BY <1>1 DEF AuthInv, AuthTypes
<1>3. issued'[s] # 0 /\ \A x \in States \ {s}: issued'[x] = issued[x]
  BY <1>1 DEF AuthInv, AuthTypes
<1>4. UseInv'
  <2>1. \A x \in states': x = s \/ x \in states BY <1>1
  <2> QED BY <1>1, <1>3, <2>1 DEF AuthInv, UseInv, Unclaimed
<1>5. KnownInv'
  <2> SUFFICES ASSUME NEW x \in States, issued'[x] # 0, elapsed - issued'[x] <= Lifetime
               PROVE  x \in states' \cup spent
    BY <1>1 DEF KnownInv
  <2>1. CASE x = s BY <1>1, <2>1
  <2>2. CASE x # s
    <3>1. x \in states \cup spent BY <1>3, <2>2 DEF AuthInv, KnownInv
    <3>2. ~Stale(x) BY <1>3, <2>2, LifetimeAssumption DEF Stale, AuthInv, AuthTypes
    <3> QED BY <1>1, <3>1, <3>2
  <2> QED BY <2>1, <2>2
<1> QED BY <1>2, <1>4, <1>5 DEF AuthInv

LEMMA ClaimKeeps ==
  ASSUME AuthInv, NEW c \in Callbacks, NEW s \in States, Claim(c, s)
  PROVE  AuthInv'
<1>1. /\ callback[c] = 0 /\ s \in states /\ callback' = [callback EXCEPT ![c] = s]
      /\ states' = states \ {s} /\ spent' = spent \cup {s}
      /\ UNCHANGED <<issued, elapsed, sessions>>
  BY DEF Claim
<1>2. AuthTypes' BY <1>1 DEF AuthInv, AuthTypes
<1>3. KnownInv' BY <1>1 DEF AuthInv, KnownInv
<1>4. Unclaimed(s) /\ issued[s] # 0 BY <1>1 DEF AuthInv, UseInv
<1>5. callback'[c] = s /\ \A d \in Callbacks \ {c}: callback'[d] = callback[d] /\ callback[d] # s
  BY <1>1, <1>4 DEF AuthInv, AuthTypes, Unclaimed
<1>6. \A x \in States \ {s}: \A d \in Callbacks: callback'[d] = x => callback[d] = x BY <1>5
<1>7. UseInv' BY <1>1, <1>4, <1>5, <1>6 DEF AuthInv, UseInv, Unclaimed
<1> QED BY <1>2, <1>3, <1>7 DEF AuthInv

LEMMA ExchangeKeeps ==
  ASSUME AuthInv, NEW c \in Callbacks, ExchangeReturns(c)
  PROVE  AuthInv'
<1>1. /\ callback[c] # 0 /\ callback' = [callback EXCEPT ![c] = 0]
      /\ sessions' \in {sessions, [sessions EXCEPT ![callback[c]] = @ + 1]}
      /\ UNCHANGED <<states, issued, elapsed, spent>>
  BY DEF ExchangeReturns
<1>2. PICK s \in States: s = callback[c] BY <1>1 DEF AuthInv, AuthTypes
<1>3. sessions[s] = 0 /\ s \notin states /\ issued[s] # 0
      /\ \A d \in Callbacks \ {c}: callback[d] # s
  BY <1>2 DEF AuthInv, UseInv, Unclaimed
<1>4. callback'[c] = 0 /\ \A d \in Callbacks \ {c}: callback'[d] = callback[d]
  BY <1>1 DEF AuthInv, AuthTypes
<1>5. sessions'[s] \in {0, 1} /\ \A x \in States \ {s}: sessions'[x] = sessions[x]
  BY <1>1, <1>2, <1>3 DEF AuthInv, AuthTypes
<1>6. AuthTypes' BY <1>1, <1>2 DEF AuthInv, AuthTypes
<1>7. KnownInv' BY <1>1 DEF AuthInv, KnownInv
<1>8. \A d \in Callbacks: callback'[d] # s BY <1>3, <1>4, ZeroIsNoState
<1>9. \A x \in States: \A d \in Callbacks: callback'[d] = x => d # c /\ callback[d] = x
  BY <1>4, ZeroIsNoState
<1>10. UseInv'
  <2> SUFFICES ASSUME NEW x \in States
               PROVE  /\ issued[x] = 0 => x \notin states /\ Unclaimed(x)'
                      /\ x \in states => Unclaimed(x)'
                      /\ \A d \in Callbacks: callback'[d] = x => sessions'[x] = 0
                      /\ \A d, e \in Callbacks: callback'[d] = x /\ callback'[e] = x => d = e
                      /\ sessions'[x] <= 1
    BY <1>1 DEF UseInv
  <2>1. CASE x = s BY <1>3, <1>5, <1>8, <2>1
  <2>2. CASE x # s BY <1>5, <1>9, <2>2 DEF AuthInv, UseInv, Unclaimed
  <2> QED BY <2>1, <2>2
<1> QED BY <1>6, <1>7, <1>10 DEF AuthInv

LEMMA AuthInvNext == AuthInv /\ [OAuthNext]_oauthVars => AuthInv'
<1> SUFFICES ASSUME AuthInv, [OAuthNext]_oauthVars PROVE AuthInv' OBVIOUS
<1>1. ASSUME NEW s \in States, AuthURL(s) PROVE AuthInv' BY <1>1, LoginKeeps
<1>2. ASSUME NEW c \in Callbacks, NEW s \in States, Claim(c, s) PROVE AuthInv' BY <1>2, ClaimKeeps
<1>3. ASSUME NEW c \in Callbacks, ExchangeReturns(c) PROVE AuthInv' BY <1>3, ExchangeKeeps
<1>4. CASE OAuthPass
  <2>1. elapsed' = elapsed + 1 /\ UNCHANGED <<states, issued, callback, sessions, spent>>
    BY <1>4 DEF OAuthPass
  <2>2. AuthTypes' BY <2>1 DEF AuthInv, AuthTypes
  <2>3. UseInv' BY <2>1 DEF AuthInv, UseInv, Unclaimed
  <2>4. KnownInv' BY <2>1, LifetimeAssumption DEF AuthInv, AuthTypes, KnownInv
  <2> QED BY <2>2, <2>3, <2>4 DEF AuthInv
<1>5. CASE OAuthCrash
  <2>1. states' = {} /\ spent' = spent \cup states /\ callback' = [c \in Callbacks |-> 0]
        /\ UNCHANGED <<issued, elapsed, sessions>>
    BY <1>5 DEF OAuthCrash
  <2>2. AuthTypes' BY <2>1 DEF AuthInv, AuthTypes
  <2>3. UseInv' BY <2>1, ZeroIsNoState DEF AuthInv, UseInv, Unclaimed
  <2>4. KnownInv' BY <2>1 DEF AuthInv, KnownInv
  <2> QED BY <2>2, <2>3, <2>4 DEF AuthInv
<1>6. CASE OAuthRestart \/ UNCHANGED oauthVars
  <2>1. UNCHANGED <<states, issued, elapsed, callback, sessions, spent>>
    BY <1>6 DEF OAuthRestart, oauthVars
  <2> QED BY <2>1 DEF AuthInv, AuthTypes, UseInv, Unclaimed, KnownInv
<1> QED BY <1>1, <1>2, <1>3, <1>4, <1>5, <1>6 DEF OAuthNext

\* A state is accepted once, from however many callbacks at once (Exchange), and a
\* fresh one is always accepted (AuthURL purges stale ones only).
THEOREM StatesAreGoodOnce == OAuthSpec => []StateIsGoodOnce
<1>1. OAuthSpec => []AuthInv BY AuthInvInit, AuthInvNext, PTL DEF OAuthSpec
<1>2. AuthInv => StateIsGoodOnce BY DEF AuthInv, UseInv, KnownInv, StateIsGoodOnce
<1> QED BY <1>1, <1>2, PTL

-----------------------------------------------------------------------------
(* The three parts together.                                               *)

LEMMA PartsInit == Init => AccessInit /\ ConfigInit /\ OAuthInit
BY DEF Init

\* Each step of the process is a step of each part or leaves it alone.
LEMMA PartsNext ==
  ASSUME [Next]_vars
  PROVE  [AccessNext]_accessVars /\ [ConfigNext]_configVars /\ [OAuthNext]_oauthVars
<1>1. CASE Crash BY <1>1 DEF Crash, AccessNext, ConfigNext, OAuthNext
<1>2. CASE Restart BY <1>2 DEF Restart, AccessNext, ConfigNext, OAuthNext
<1>3. CASE Pass BY <1>3 DEF Pass, AccessNext, OAuthNext
<1>4. CASE (AccessCall \/ AccessStep) /\ UNCHANGED <<configVars, oauthVars>>
  BY <1>4 DEF AccessCall, AccessStep, AccessNext
<1>5. CASE (ConfigCall \/ ConfigStep) /\ UNCHANGED <<accessVars, oauthVars>>
  BY <1>5 DEF ConfigCall, ConfigStep, ConfigNext
<1>6. CASE (OAuthCall \/ OAuthStep) /\ UNCHANGED <<accessVars, configVars>>
  BY <1>6 DEF OAuthCall, OAuthStep, OAuthNext
<1>7. CASE UNCHANGED vars BY <1>7 DEF vars
<1> QED BY <1>1, <1>2, <1>3, <1>4, <1>5, <1>6, <1>7 DEF Next

\* One process with the three of them: no part takes a step it could not take alone.
THEOREM BackendIsItsParts == Spec => AccessSpec /\ ConfigSpec /\ OAuthSpec
BY PartsInit, PartsNext, PTL DEF Spec, AccessSpec, ConfigSpec, OAuthSpec

\* What is kept through kill and restart of the whole process (run of main.go).
BackendInv == MemoryIsFile /\ LoadsUnlessSetBack /\ SavedIsUsed /\ AutoNeedsSecret /\ StateIsGoodOnce

\* The process keeps its promises about files, decisions and sign-ins, for any
\* number of users, requests, callbacks, failures and crashes.
THEOREM BackendIsSafe == Spec => []BackendInv /\ ImplementsDurable
<1>1. MemoryIsFile /\ LoadsUnlessSetBack /\ SavedIsUsed /\ AutoNeedsSecret /\ StateIsGoodOnce
        => BackendInv
  BY DEF BackendInv
<1> QED BY <1>1, BackendIsItsParts, MemoryMatchesFile, FileLoads, SavedProfileIsUsed,
           ReconnectHasSecret, StatesAreGoodOnce, StoreIsDurable, PTL

-----------------------------------------------------------------------------
(* Type correctness of the process.                                        *)

AccessHand == [pc: {"idle", "write", "rename", "tell", "card"}, user: Users,
               old: Record, asks: BOOLEAN]

LEMMA IdleIsTyped == NoRecord \in Record /\ Idle \in AccessHand /\ Idle.pc = "idle"
<1>1. NoRecord \in Record BY ClockAssumption DEF NoRecord, Record, Statuses, Time, Nil
<1>2. (CHOOSE u \in Users: TRUE) \in Users BY ClockAssumption
<1> QED BY <1>1, <1>2 DEF Idle, AccessHand

\* A save that begins, and one that fails.
LEMMA UpsertTypes ==
  ASSUME AccessTypeOK, NEW u \in Users, NEW record \in Record, NEW asks \in BOOLEAN,
         Upsert(u, record, asks)
  PROVE  users' \in [Users -> Record] /\ hand' \in AccessHand
<1>1. users \in [Users -> Record] BY DEF AccessTypeOK
<1> QED BY <1>1 DEF Upsert, AccessHand

LEMMA FailureTypes ==
  ASSUME AccessTypeOK, NextFailure
  PROVE  failures' \in 0..MaxFailures
BY ClockAssumption DEF AccessTypeOK, NextFailure

LEMMA RollbackTypes ==
  ASSUME AccessTypeOK, Rollback
  PROVE  users' \in [Users -> Record] /\ hand' \in AccessHand
<1>1. users \in [Users -> Record] /\ hand \in AccessHand BY DEF AccessTypeOK, AccessHand
<1>2. hand.user \in Users /\ hand.old \in Record BY <1>1 DEF AccessHand
<1> QED BY <1>1, <1>2, IdleIsTyped DEF Rollback

LEMMA HandGoesOn ==
  ASSUME AccessTypeOK, NEW pc \in {"idle", "write", "rename", "tell", "card"}
  PROVE  [hand EXCEPT !.pc = pc] \in AccessHand
<1>1. hand \in AccessHand BY DEF AccessTypeOK, AccessHand
<1> QED BY <1>1 DEF AccessHand

LEMMA AccessCallTypes ==
  ASSUME AccessTypeOK, NEW u \in Users, Start(u) \/ \E v \in Verbs: Decide(u, v)
  PROVE  AccessTypeOK'
<1>1. users[u] \in Record /\ clock \in Time BY DEF AccessTypeOK
<1>2. CASE Start(u) /\ users[u].status = "none"
  <2> DEFINE record == [status |-> "pending", requestedAt |-> clock, decidedAt |-> Nil]
  <2>1. record \in Record BY <1>1, ClockAssumption DEF Record, Statuses, Nil, Time
  <2>2. Upsert(u, record, TRUE) BY <1>2 DEF Start
  <2> HIDE DEF record
  <2>3. users' \in [Users -> Record] /\ hand' \in AccessHand BY <2>1, <2>2, UpsertTypes
  <2> QED BY <1>2, <2>3 DEF Start, AccessTypeOK, AccessHand
<1>3. CASE Start(u) /\ users[u].status # "none"
  <2>1. hand' = [Idle EXCEPT !.pc = "tell", !.user = u] /\ users' = users BY <1>3 DEF Start
  <2>2. hand' \in AccessHand BY <2>1, IdleIsTyped DEF AccessHand
  <2> QED BY <1>3, <2>1, <2>2 DEF Start, AccessTypeOK, AccessHand
<1>4. ASSUME NEW v \in Verbs, Decide(u, v) PROVE AccessTypeOK'
  <2> DEFINE decided == [users[u] EXCEPT !.status = IF v = "approve" THEN "approved" ELSE "denied",
                                         !.decidedAt = clock]
             record  == IF v = "revoke" THEN NoRecord ELSE decided
  <2>1. Upsert(u, record, FALSE) BY <1>4 DEF Decide
  <2>2. decided \in Record BY <1>1 DEF Record, Statuses
  <2>3. record \in Record BY <2>2, IdleIsTyped
  <2> HIDE DEF record
  <2>4. users' \in [Users -> Record] /\ hand' \in AccessHand BY <2>1, <2>3, UpsertTypes
  <2> QED BY <1>4, <2>4 DEF Decide, AccessTypeOK, AccessHand
<1> QED BY <1>2, <1>3, <1>4

LEMMA SaveTypes ==
  ASSUME AccessTypeOK, WriteTemp \/ Rename
  PROVE  AccessTypeOK'
<1>1. CASE WriteTemp /\ hand' = [hand EXCEPT !.pc = "rename"] /\ UNCHANGED <<users, failures>>
  <2>1. hand' \in AccessHand BY <1>1, HandGoesOn
  <2> QED BY <1>1, <2>1 DEF WriteTemp, AccessTypeOK, AccessHand
<1>2. CASE (WriteTemp \/ Rename) /\ NextFailure /\ Rollback /\ UNCHANGED file
  <2>1. /\ users' \in [Users -> Record] /\ hand' \in AccessHand
        /\ failures' \in 0..MaxFailures
    BY <1>2, RollbackTypes, FailureTypes
  <2>2. UNCHANGED <<bot, clock, setBack, told, cards, seen>> BY <1>2 DEF WriteTemp, Rename
  <2> QED BY <1>2, <2>1, <2>2 DEF AccessTypeOK, AccessHand
<1>3. CASE /\ Rename /\ file' = users /\ UNCHANGED <<users, failures>>
           /\ (hand' = Idle \/ hand' = [hand EXCEPT !.pc = "tell"])
  <2>1. hand' \in AccessHand BY <1>3, HandGoesOn, IdleIsTyped
  <2> QED BY <1>3, <2>1 DEF Rename, AccessTypeOK, AccessHand
<1> QED BY <1>1, <1>2, <1>3 DEF WriteTemp, Rename

LEMMA MessageTypes ==
  ASSUME AccessTypeOK, TellUser \/ SendCard
  PROVE  AccessTypeOK'
<1>1. hand.user \in Users /\ users[hand.user].status \in Statuses
  BY DEF AccessTypeOK, Record
<1>2. hand' \in AccessHand BY HandGoesOn, IdleIsTyped DEF TellUser, SendCard
<1>3. failures' \in 0..MaxFailures
  BY FailureTypes DEF TellUser, SendCard, AccessTypeOK
<1>4. told' \in [Users -> Statuses] BY <1>1 DEF TellUser, SendCard, AccessTypeOK
<1>5. cards' \in SUBSET Users BY <1>1 DEF TellUser, SendCard, AccessTypeOK
<1>6. UNCHANGED <<bot, users, file, clock, setBack, seen>> BY DEF TellUser, SendCard
<1> QED BY <1>2, <1>3, <1>4, <1>5, <1>6 DEF AccessTypeOK, AccessHand

LEMMA AccessTypesNext ==
  ASSUME AccessTypeOK, [AccessNext]_accessVars
  PROVE  AccessTypeOK'
<1>1. ASSUME NEW u \in Users, Start(u) \/ \E v \in Verbs: Decide(u, v) PROVE AccessTypeOK'
  BY <1>1, AccessCallTypes
<1>2. CASE HandlerStep BY <1>2, SaveTypes, MessageTypes DEF HandlerStep
<1>3. CASE AccessCrash
  <2>1. users' \in [Users -> Record] /\ hand' \in AccessHand
    BY <1>3, IdleIsTyped DEF AccessCrash
  <2> QED BY <1>3, <2>1 DEF AccessCrash, AccessTypeOK, AccessHand
<1>4. CASE AccessRestart BY <1>4 DEF AccessRestart, AccessTypeOK
<1>5. CASE Tick
  <2>1. clock' \in Time BY <1>5, ClockAssumption DEF Tick, AccessTypeOK, Time
  <2> QED BY <1>5, <2>1 DEF Tick, AccessTypeOK
<1>6. CASE SetBack
  <2>1. clock' \in Time /\ setBack' \in BOOLEAN
    BY <1>6, ClockAssumption DEF SetBack, AccessTypeOK, Time
  <2> QED BY <1>6, <2>1 DEF SetBack, AccessTypeOK
<1>7. CASE Recipients BY <1>7 DEF Recipients, AccessTypeOK
<1>8. CASE UNCHANGED accessVars BY <1>8 DEF accessVars, AccessTypeOK
<1> QED BY <1>1, <1>2, <1>3, <1>4, <1>5, <1>6, <1>7, <1>8 DEF AccessNext

LEMMA ConfigTypesNext ==
  ASSUME ConfigTypeOK, ConfigInv', [ConfigNext]_configVars
  PROVE  ConfigTypeOK'
<1>1. request' \in [Requests -> [pc: {"idle", "save", "write", "assign"}, copy: Config]]
      /\ saver' \in SUBSET Requests /\ cfg' \in Config
  BY DEF ConfigInv, ConfigTypes
<1>2. ASSUME UNCHANGED <<up, cfgFile, saved, saveFailures>> PROVE ConfigTypeOK'
  BY <1>1, <1>2 DEF ConfigTypeOK
<1>3. ASSUME NEW r \in Requests, SaveFails(r) PROVE saveFailures' \in 0..MaxSaveFailures
  BY <1>3, SavesAssumption DEF SaveFails, ConfigTypeOK
<1>4. ASSUME NEW r \in Requests, OpenFile(r) PROVE ConfigTypeOK'
  <2>1. saveFailures' \in 0..MaxSaveFailures /\ (cfgFile' = Torn \/ cfgFile' = cfgFile)
    BY <1>3, <1>4 DEF OpenFile, ConfigTypeOK
  <2> QED BY <1>1, <1>4, <2>1 DEF OpenFile, ConfigTypeOK
<1>5. ASSUME NEW r \in Requests, WriteFile(r) PROVE ConfigTypeOK'
  <2>1. request[r].copy \in Config BY DEF ConfigTypeOK
  <2>2. saveFailures' \in 0..MaxSaveFailures /\ saved' \in Config
        /\ (cfgFile' = Whole(request[r].copy) \/ cfgFile' = cfgFile)
    BY <1>3, <1>5, <2>1 DEF WriteFile, ConfigTypeOK
  <2> QED BY <1>1, <1>5, <2>1, <2>2 DEF WriteFile, ConfigTypeOK
<1>6. ASSUME NEW r \in Requests, UploadCert(r) \/ AssignConfig(r) PROVE ConfigTypeOK'
  BY <1>2, <1>6 DEF UploadCert, AssignConfig
<1>7. ASSUME NEW r \in Requests, NEW p \in Profiles, NEW s \in Secrets, NEW a \in BOOLEAN,
             NEW c \in BOOLEAN, Update(r, p, s, a, c)
      PROVE  ConfigTypeOK'
  BY <1>2, <1>7 DEF Update
<1>8. CASE ConfigCrash \/ Load BY <1>1, <1>8 DEF ConfigCrash, Load, ConfigTypeOK
<1>9. CASE UNCHANGED configVars BY <1>2, <1>9 DEF configVars
<1> QED BY <1>4, <1>5, <1>6, <1>7, <1>8, <1>9 DEF ConfigNext, SaveStep

LEMMA OAuthTypesNext ==
  ASSUME OAuthTypeOK, AuthInv', [OAuthNext]_oauthVars
  PROVE  OAuthTypeOK'
<1>1. /\ states' \in SUBSET States /\ spent' \in SUBSET States
      /\ callback' \in [Callbacks -> States \cup {0}] /\ sessions' \in [States -> Nat]
  BY DEF AuthInv, AuthTypes
<1>2. authUp' \in BOOLEAN
  BY DEF OAuthTypeOK, OAuthNext, AuthURL, Claim, ExchangeReturns, OAuthPass, OAuthCrash,
         OAuthRestart, oauthVars
<1>3. elapsed' \in 1..MaxElapsed
  BY LoginsAssumption
  DEF OAuthTypeOK, OAuthNext, AuthURL, Claim, ExchangeReturns, OAuthPass, OAuthCrash,
      OAuthRestart, oauthVars
<1>4. issued' \in [States -> 0..MaxElapsed]
  <2>1. issued' = issued \/ \E s \in States: issued' = [issued EXCEPT ![s] = elapsed]
    BY DEF OAuthNext, AuthURL, Claim, ExchangeReturns, OAuthPass, OAuthCrash, OAuthRestart, oauthVars
  <2> QED BY <2>1, LoginsAssumption DEF OAuthTypeOK
<1> QED BY <1>1, <1>2, <1>3, <1>4 DEF OAuthTypeOK

\* The parts are up together; a bot that its file disabled is not down.
TogetherInv ==
    /\ up = authUp /\ (bot = "down") = ~up
    /\ calls \in 0..MaxCalls /\ crashes \in 0..MaxCrashes

LEMMA TogetherNext ==
  ASSUME TogetherInv, ConfigTypeOK, [Next]_vars
  PROVE  TogetherInv'
<1>1. ASSUME NextCall PROVE calls' \in 0..MaxCalls /\ crashes' \in 0..MaxCrashes
  BY <1>1, CallsAssumption DEF NextCall, TogetherInv
<1>2. ASSUME NoCall PROVE calls' \in 0..MaxCalls /\ crashes' \in 0..MaxCrashes
  BY <1>2 DEF NoCall, TogetherInv
<1>3. CASE Crash
  <2>1. calls' \in 0..MaxCalls /\ crashes' \in 0..MaxCrashes
    BY <1>3, CallsAssumption DEF Crash, TogetherInv
  <2> QED BY <1>3, <2>1 DEF Crash, AccessCrash, ConfigCrash, OAuthCrash, TogetherInv
<1>4. CASE Restart
  <2>1. up' = TRUE /\ authUp' = TRUE /\ bot' # "down"
    BY <1>4 DEF Restart, AccessRestart, Load, OAuthRestart
  <2> QED BY <1>2, <1>4, <2>1 DEF Restart, TogetherInv
<1>5. ASSUME UNCHANGED <<bot, up, authUp>>,
             calls' \in 0..MaxCalls /\ crashes' \in 0..MaxCrashes
      PROVE  TogetherInv'
  BY <1>5 DEF TogetherInv
<1>6. CASE Pass BY <1>2, <1>5, <1>6 DEF Pass, Tick, OAuthPass, configVars
<1>7. CASE (AccessCall \/ AccessStep) /\ UNCHANGED <<configVars, oauthVars>>
  <2>1. bot' = bot /\ up' = up /\ authUp' = authUp
    BY <1>7 DEF AccessCall, AccessStep, Start, Decide, HandlerStep, WriteTemp, Rename, TellUser,
                SendCard, Recipients, SetBack, configVars, oauthVars
  <2> QED BY <1>1, <1>2, <1>5, <1>7, <2>1 DEF AccessCall, AccessStep
<1>8. CASE (ConfigCall \/ ConfigStep) /\ UNCHANGED <<accessVars, oauthVars>>
  <2>1. bot' = bot /\ up' = up /\ authUp' = authUp
    BY <1>8 DEF ConfigCall, ConfigStep, Update, UploadCert, SaveStep, OpenFile, WriteFile,
                AssignConfig, accessVars, oauthVars
  <2> QED BY <1>1, <1>2, <1>5, <1>8, <2>1 DEF ConfigCall, ConfigStep
<1>9. CASE (OAuthCall \/ OAuthStep) /\ UNCHANGED <<accessVars, configVars>>
  <2>1. bot' = bot /\ up' = up /\ authUp' = authUp
    BY <1>9 DEF OAuthCall, OAuthStep, AuthURL, Claim, ExchangeReturns, accessVars, configVars
  <2> QED BY <1>1, <1>2, <1>5, <1>9, <2>1 DEF OAuthCall, OAuthStep
<1>10. CASE UNCHANGED vars
  BY <1>10 DEF vars, accessVars, configVars, oauthVars, TogetherInv
<1> QED BY <1>3, <1>4, <1>6, <1>7, <1>8, <1>9, <1>10 DEF Next

\* Every variable keeps its type through calls, kills and restarts (run of
\* main.go), and the parts go down and come up together.
THEOREM BackendTypes == Spec => []TypeOK
<1> DEFINE Parts == StoreInv /\ ConfigInv /\ AuthInv
           Typed == AccessTypeOK /\ ConfigTypeOK /\ OAuthTypeOK /\ TogetherInv
<1>1. Init => Parts BY PartsInit, StoreInvInit, ConfigInvInit, AuthInvInit
<1>2. Parts /\ [Next]_vars => Parts' BY PartsNext, StoreInvNext, ConfigInvNext, AuthInvNext
<1>3. Init => Typed
  <2> SUFFICES ASSUME Init PROVE Typed OBVIOUS
  <2>1. AccessTypeOK
    <3>1. AccessInit BY DEF Init
    <3>2. users \in [Users -> Record] /\ file \in [Users -> Record] /\ hand \in AccessHand
      BY <3>1, IdleIsTyped DEF AccessInit
    <3>3. clock \in Time /\ failures \in 0..MaxFailures /\ told \in [Users -> Statuses]
      BY <3>1, ClockAssumption DEF AccessInit, Time, Statuses
    <3> QED BY <3>1, <3>2, <3>3 DEF AccessInit, AccessTypeOK, AccessHand
  <2>2. ConfigTypeOK
    BY DefaultIsConfig, SavesAssumption DEF Init, ConfigInit, ConfigTypeOK, Done
  <2>3. OAuthTypeOK BY LoginsAssumption DEF Init, OAuthInit, OAuthTypeOK
  <2>4. TogetherInv
    BY CallsAssumption DEF Init, AccessInit, ConfigInit, OAuthInit, TogetherInv
  <2> QED BY <2>1, <2>2, <2>3, <2>4
<1>4. Parts /\ Typed /\ [Next]_vars => Typed'
  BY <1>2, PartsNext, AccessTypesNext, ConfigTypesNext, OAuthTypesNext, TogetherNext
<1>5. Parts /\ Typed => TypeOK BY DEF TypeOK, TogetherInv
<1> QED BY <1>1, <1>2, <1>3, <1>4, <1>5, PTL DEF Spec
=============================================================================
