------------------------------ MODULE ConfigStore ------------------------------
(***************************************************************************)
(* The configuration, internal/config/config.go, and the two HTTP handlers *)
(* that change it, handleUpdateConfig and handleCertUpload: each takes a   *)
(* copy (Get), changes it and saves it (Save), with no lock in between.    *)
(* The file is written in place by os.WriteFile, which empties it first: a *)
(* failure or a crash in between leaves a file that Load cannot decode.    *)
(*                                                                         *)
(* The profile (portal, user name, password and the rest) is a version     *)
(* number; the TOTP secret and the certificate are there or not.           *)
(***************************************************************************)
EXTENDS Integers

CONSTANTS
    Requests,      \* HTTP requests that may run at the same time
    Profiles,      \* profiles a request may carry, other than 0
    MaxSaveFailures

ASSUME SavesAssumption == MaxSaveFailures \in Nat

VARIABLES
    up,            \* the process runs
    cfg,           \* Manager.cfg
    cfgFile,       \* external: the decoded file
    request,       \* the handlers
    saver,         \* the request that holds Manager.mu to write
    saved,         \* history: the configuration written last, in full
    saveFailures   \* file operations that failed

configVars == <<up, cfg, cfgFile, request, saver, saved, saveFailures>>

Config  == [profile: Profiles \cup {0}, otpSecret: BOOLEAN, autoReconnect: BOOLEAN, certFile: BOOLEAN]
Default == [profile |-> 0, otpSecret |-> FALSE, autoReconnect |-> FALSE, certFile |-> FALSE]
NoFile  == [kind |-> "none", config |-> Default]
Torn    == [kind |-> "torn", config |-> Default]   \* empty or cut off
Whole(config) == [kind |-> "whole", config |-> config]
Done    == [pc |-> "idle", copy |-> Default]

\* The secret of a request: a new one, the old one is kept, or it is cleared.
Secrets == {"set", "keep", "clear"}

ConfigTypeOK ==
    /\ up \in BOOLEAN
    /\ cfg \in Config /\ saved \in Config
    /\ cfgFile \in {NoFile, Torn} \cup {Whole(c): c \in Config}
    /\ request \in [Requests -> [pc: {"idle", "save", "write", "assign"}, copy: Config]]
    /\ saver \in SUBSET Requests
    /\ saveFailures \in 0..MaxSaveFailures

ConfigInit ==
    /\ up = TRUE
    /\ cfg = Default /\ cfgFile = NoFile
    /\ request = [r \in Requests |-> Done]
    /\ saver = {} /\ saved = Default
    /\ saveFailures = 0

-----------------------------------------------------------------------------

Goto(r, pc) == request' = [request EXCEPT ![r].pc = pc]

\* Mutant: the wish is stored as it is.
AutoAsWished(wish, secret) == wish
AutoReconnect(wish, secret) == wish /\ secret

\* handleUpdateConfig up to Save.  A request without a certificate file clears it.
Update(r, profile, secret, auto, cert) ==
    LET has == IF secret = "keep" THEN cfg.otpSecret ELSE secret = "set"
    IN  /\ up /\ request[r].pc = "idle" /\ saver = {}
        /\ request' = [request EXCEPT ![r] =
             [pc |-> "save", copy |-> [profile |-> profile, otpSecret |-> has,
                                       autoReconnect |-> AutoReconnect(auto, has), certFile |-> cert]]]
        /\ UNCHANGED <<up, cfg, cfgFile, saver, saved, saveFailures>>

\* handleCertUpload up to Save, whose error it drops.
UploadCert(r) ==
    /\ up /\ request[r].pc = "idle" /\ saver = {}
    /\ request' = [request EXCEPT ![r] = [pc |-> "save", copy |-> [cfg EXCEPT !.certFile = TRUE]]]
    /\ UNCHANGED <<up, cfg, cfgFile, saver, saved, saveFailures>>

SaveFails(r) ==
    /\ saveFailures < MaxSaveFailures /\ saveFailures' = saveFailures + 1
    /\ request' = [request EXCEPT ![r] = Done]
    /\ saver' = {}

\* Mutant: Save changes the memory before it writes.
OpenFileLate(r) ==
    /\ request[r].pc = "save" /\ saver = {}
    /\ cfg' = request[r].copy
    /\ \/ Goto(r, "write") /\ saver' = {r} /\ cfgFile' = Torn /\ UNCHANGED saveFailures
       \/ SaveFails(r) /\ UNCHANGED cfgFile
    /\ UNCHANGED <<up, saved>>

\* Save: os.WriteFile opens the file with O_TRUNC ...
OpenFile(r) ==
    /\ request[r].pc = "save" /\ saver = {}
    /\ \/ Goto(r, "write") /\ saver' = {r} /\ cfgFile' = Torn /\ UNCHANGED saveFailures
       \/ SaveFails(r) /\ UNCHANGED cfgFile
    /\ UNCHANGED <<up, cfg, saved>>

\* ... and writes it.
WriteFile(r) ==
    /\ request[r].pc = "write"
    /\ \/ /\ cfgFile' = Whole(request[r].copy) /\ saved' = request[r].copy
          /\ Goto(r, "assign") /\ UNCHANGED <<saver, saveFailures>>
       \/ SaveFails(r) /\ UNCHANGED <<cfgFile, saved>>
    /\ UNCHANGED <<up, cfg>>

AssignConfig(r) ==
    /\ request[r].pc = "assign"
    /\ cfg' = request[r].copy
    /\ request' = [request EXCEPT ![r] = Done] /\ saver' = {}
    /\ UNCHANGED <<up, cfgFile, saved, saveFailures>>

SaveStep(r) == OpenFile(r) \/ WriteFile(r) \/ AssignConfig(r)

ConfigCrash ==
    /\ up
    /\ up' = FALSE /\ cfg' = Default
    /\ request' = [r \in Requests |-> Done] /\ saver' = {}
    /\ UNCHANGED <<cfgFile, saved, saveFailures>>

\* Load: a missing file and one that cannot be decoded give the defaults, which
\* NoFile and Torn hold.
Load ==
    /\ ~up
    /\ up' = TRUE
    /\ cfg' = cfgFile.config
    /\ UNCHANGED <<cfgFile, request, saver, saved, saveFailures>>

ConfigNext ==
    \/ \E r \in Requests:
         \/ \E p \in Profiles, s \in Secrets, a \in BOOLEAN, c \in BOOLEAN: Update(r, p, s, a, c)
         \/ UploadCert(r) \/ SaveStep(r)
    \/ ConfigCrash \/ Load

ConfigSpec == ConfigInit /\ [][ConfigNext]_configVars

-----------------------------------------------------------------------------
(* Properties.                                                             *)

\* The profile in use is the one that was saved last, through every overlap of
\* requests, failed save and restart, except for a file that was cut off.
SavedIsUsed == up /\ saver = {} /\ cfgFile # Torn => cfg = saved

\* "Enable auto-reconnect only when a saved TOTP seed exists" (docs/deployment.md):
\* also when one request clears the secret while another keeps it.
AutoNeedsSecret ==
    /\ cfg.autoReconnect => cfg.otpSecret
    /\ cfgFile.config.autoReconnect => cfgFile.config.otpSecret
=============================================================================
