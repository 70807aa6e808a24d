---------------------------- MODULE ServerStart ----------------------------
(***************************************************************************)
(* The start of the server: cmd/goreverselb/server.go, the user store of   *)
(* pkg/helpers/configStorage.go and the ssh host key of pkg/muxtunnel.go   *)
(* (loadOrCreateSSHKey).                                                   *)
(*                                                                         *)
(* Both are files in the working directory that are written in place:      *)
(* WriteFile truncates the file and then writes it.  The store is written  *)
(* by every start, the key by the first one.  The process can die at any   *)
(* point, and the administrator edits the store while it is down.          *)
(***************************************************************************)
EXTENDS Naturals, FiniteSets

CONSTANTS
    Users,          \* user ids
    DefaultUserID,  \* the one every start needs
    MaxFaults,      \* bound: crashes and failing reads and writes
    MaxKeys         \* bound: host keys ever generated

ASSUME StartAssumption == DefaultUserID \in Users /\ MaxFaults \in Nat /\ MaxKeys \in Nat

VARIABLES
    pc,             \* where the main goroutine is, "down" without a process
    mtx,            \* ConfigFile.mtx is held
    configUsers,    \* the keys of configData.Users
    appConfig,      \* ConfigFile.AppConfig points to configData
    signer,         \* the host key of this process, 0 if none
    store,          \* user_store.yaml: how it parses, and the users in it
    keyFile,        \* revlb_ssh_host_key: a key, or NoFile or Cut
    faults,         \* number of faults so far
    \* history
    known,          \* the users the administrator keeps in the store
    harmed,         \* a fault hit the store itself
    served          \* host keys the service ran with

memVars == <<mtx, configUsers, appConfig, signer>>
fileVars == <<store, keyFile>>
historyVars == <<known, harmed, served>>
startVars == <<pc, memVars, fileVars, faults, historyVars>>

NoFile == 0
Cut == MaxKeys + 1
Keys == 1..MaxKeys

File(kind, users) == [kind |-> kind, users |-> users]

(* "malformed" is no YAML at all; "mistyped" is YAML with a value of the   *)
(* wrong type, of which the decoder fills in what it can.                  *)
StoreKinds == {"missing", "parses", "malformed", "mistyped"}

StartInit ==
    /\ pc = "down"
    /\ mtx = FALSE
    /\ configUsers = {}
    /\ appConfig = FALSE
    /\ signer = 0
    /\ store = File("missing", {})
    /\ keyFile = NoFile
    /\ faults = 0
    /\ known = {DefaultUserID}
    /\ harmed = FALSE
    /\ served = {}

Exit ==
    /\ pc' = "down"
    /\ mtx' = FALSE
    /\ configUsers' = {}
    /\ appConfig' = FALSE
    /\ signer' = 0

Fault == faults < MaxFaults /\ faults' = faults + 1

-----------------------------------------------------------------------------
(* LoadConfig                                                              *)

Start ==
    /\ pc = "down"
    /\ pc' = "load"
    /\ UNCHANGED <<memVars, fileVars, faults, historyVars>>

(* Mutant: the mutex is released after initCB and SaveExplicit. *)
KeepsLock == TRUE

(* The mutex is released before initCB: SaveExplicit takes it again. *)
MtxAfterReadFails == FALSE

(* Mutant: the store is initialised by every start. *)
InitialiseAlways == TRUE

MustInitialise == store.kind = "missing"

(* The file cannot be read: initCB makes the default user. *)
ReadFileFails ==
    /\ pc = "load"
    /\ \/ MustInitialise /\ UNCHANGED <<faults, harmed>>
       \/ ~MustInitialise /\ Fault /\ harmed' = TRUE
    /\ configUsers' = {DefaultUserID}
    /\ mtx' = MtxAfterReadFails
    /\ pc' = "initialise"
    /\ UNCHANGED <<appConfig, signer, fileVars, known, served>>

(* An error of Unmarshal leaves AppConfig unset, and is ignored. *)
Unmarshal ==
    /\ pc = "load"
    /\ ~MustInitialise
    /\ \/ store.kind = "parses" /\ configUsers' = store.users
       \/ store.kind = "malformed" /\ configUsers' = {}
       \/ store.kind = "mistyped" /\ configUsers' \in SUBSET store.users
    /\ appConfig' = (store.kind = "parses")
    /\ pc' = "token"
    /\ UNCHANGED <<mtx, signer, fileVars, faults, historyVars>>

(* configData.Users[DefaultUserID].Token = cfg.Token *)
SetToken ==
    /\ pc = "token"
    /\ DefaultUserID \in configUsers
    /\ pc' = "save"
    /\ UNCHANGED <<memVars, fileVars, faults, historyVars>>

NoDefaultUser ==
    /\ pc = "token"
    /\ DefaultUserID \notin configUsers
    /\ Exit
    /\ UNCHANGED <<fileVars, faults, historyVars>>

-----------------------------------------------------------------------------
(* SaveExplicit, called by LoadConfig ("initialise") and by Save ("save").  *)
(* Their callers ignore the error.                                         *)

AfterSave == IF pc \in {"initialise", "writeInitial"} THEN "token" ELSE "key"

(* WriteFile opens the file, which empties it. *)
Truncate ==
    /\ pc \in {"initialise", "save"}
    /\ ~mtx
    /\ mtx' = TRUE
    /\ appConfig' = (appConfig \/ pc = "initialise")
    /\ store' = File("parses", {})
    /\ pc' = IF pc = "initialise" THEN "writeInitial" ELSE "write"
    /\ UNCHANGED <<configUsers, signer, keyFile, faults, historyVars>>

OpenFails ==
    /\ pc \in {"initialise", "save"}
    /\ ~mtx
    /\ Fault
    /\ appConfig' = (appConfig \/ pc = "initialise")
    /\ pc' = AfterSave
    /\ UNCHANGED <<mtx, configUsers, signer, fileVars, historyVars>>

(* A nil AppConfig is written as null. *)
Write ==
    /\ pc \in {"writeInitial", "write"}
    /\ store' = File("parses", IF appConfig THEN configUsers ELSE {})
    /\ harmed' = (harmed \/ ~appConfig)
    /\ mtx' = FALSE
    /\ pc' = AfterSave
    /\ UNCHANGED <<configUsers, appConfig, signer, keyFile, faults, known, served>>

(* What a file that was cut while it was written may contain. *)
CutStores == {File("parses", us) : us \in SUBSET configUsers} \cup {File("malformed", {})}

WriteFails ==
    /\ pc \in {"writeInitial", "write"}
    /\ Fault
    /\ store' \in CutStores
    /\ harmed' = TRUE
    /\ mtx' = FALSE
    /\ pc' = AfterSave
    /\ UNCHANGED <<configUsers, appConfig, signer, keyFile, known, served>>

-----------------------------------------------------------------------------
(* NewMuxTunnelService: the host key and the listener.  Every error ends   *)
(* the process.                                                            *)

LoadKey ==
    /\ pc = "key"
    /\ keyFile \in Keys
    /\ signer' = keyFile
    /\ pc' = "listen"
    /\ UNCHANGED <<mtx, configUsers, appConfig, fileVars, faults, historyVars>>

(* The key cannot be parsed; or it cannot be read, or the certificate that *)
(* is made before it fails.                                                *)
KeyUnusable ==
    /\ pc = "key"
    /\ \/ keyFile = Cut /\ UNCHANGED faults
       \/ Fault
    /\ Exit
    /\ UNCHANGED <<fileVars, historyVars>>

(* A key nobody has seen is generated, and its file created. *)
GenerateKey ==
    /\ pc = "key"
    /\ keyFile = NoFile
    /\ signer' \in Keys \ served
    /\ keyFile' = Cut
    /\ pc' = "writeKey"
    /\ UNCHANGED <<mtx, configUsers, appConfig, store, faults, historyVars>>

WriteKey ==
    /\ pc = "writeKey"
    /\ keyFile' = signer
    /\ pc' = "listen"
    /\ UNCHANGED <<memVars, store, faults, historyVars>>

(* Mutant: the service goes on with a key it could not save. *)
KeyNotSavedGoesOn == pc' = "listen" /\ UNCHANGED memVars

KeyNotSaved == Exit

(* The error of WriteFile is returned. *)
WriteKeyFails ==
    /\ pc = "writeKey"
    /\ Fault
    /\ KeyNotSaved
    /\ UNCHANGED <<fileVars, historyVars>>

Listen ==
    /\ pc = "listen"
    /\ pc' = "running"
    /\ served' = served \cup {signer}
    /\ UNCHANGED <<memVars, fileVars, faults, known, harmed>>

ListenFails ==
    /\ pc = "listen"
    /\ Exit
    /\ UNCHANGED <<fileVars, faults, historyVars>>

(* SIGINT or SIGTERM while it runs.  Nothing is saved. *)
Stop ==
    /\ pc = "running"
    /\ Exit
    /\ UNCHANGED <<fileVars, faults, historyVars>>

-----------------------------------------------------------------------------
(* The process dies anywhere; in the middle of a write the file is cut.    *)
Crash ==
    /\ pc # "down"
    /\ Fault
    /\ Exit
    /\ IF pc \in {"writeInitial", "write"}
       THEN store' \in CutStores /\ harmed' = TRUE
       ELSE UNCHANGED <<store, harmed>>
    /\ UNCHANGED <<keyFile, known, served>>

(* The administrator rewrites the store, with or without a mistake in it.  *)
(* The default user stays in it.                                           *)
Edit ==
    /\ pc = "down"
    /\ \E us \in SUBSET Users, kind \in StoreKinds \ {"missing"} :
        /\ DefaultUserID \in us
        /\ known' = us
        /\ store' = File(kind, us)
        /\ harmed' = FALSE
    /\ UNCHANGED <<pc, memVars, keyFile, faults, served>>

-----------------------------------------------------------------------------

Server ==
    \/ ReadFileFails \/ Unmarshal \/ SetToken \/ NoDefaultUser
    \/ Truncate \/ OpenFails \/ Write \/ WriteFails
    \/ LoadKey \/ KeyUnusable \/ GenerateKey \/ WriteKey \/ WriteKeyFails
    \/ Listen \/ ListenFails

StartNext == Start \/ Server \/ Stop \/ Crash \/ Edit

StartSpec == StartInit /\ [][StartNext]_startVars

(* The server is started whenever it is down and gets through each step;   *)
(* the port it listens on is not taken for ever.                           *)
StartFairSpec ==
    StartSpec /\ WF_startVars(Start) /\ WF_startVars(Server) /\ SF_startVars(Listen)

-----------------------------------------------------------------------------
(* Properties.                                                             *)

Writing == pc \in {"initialise", "writeInitial", "write"}

(* Every start rewrites the store.  As long as no fault hit the store      *)
(* itself - the process died between truncation and write, the write or    *)
(* the first read failed, or the file had a value of the wrong type, which *)
(* makes Save write null - the users the administrator put there are the   *)
(* ones the service runs with and stay in the file, wherever the process   *)
(* is stopped.                                                             *)
UsersSurvive ==
    ~harmed =>
        /\ store.kind = "missing" => known = {DefaultUserID}
        /\ pc = "running" /\ store.kind = "parses" => configUsers = known
        /\ store.kind # "missing" /\ ~Writing => store.users = known

(* The service never runs with a host key that the next start will not     *)
(* find, and never with two different ones: an ssh client that remembers   *)
(* the key is not turned away, wherever the process died before.           *)
HostKeyStable == pc = "running" => keyFile = signer /\ served = {signer}

(* A file that no start may get past: no default user, mistakes, or a host *)
(* key that was cut.  Only an administrator helps.                         *)
Refuses ==
    \/ store.kind \in {"malformed", "mistyped"}
    \/ store.kind # "missing" /\ DefaultUserID \notin store.users
    \/ keyFile = Cut

(* A server that is down runs again, wherever it was stopped, but for the  *)
(* two files a crash may have cut and the mistakes of the administrator.   *)
StartsAgain == pc = "down" ~> (pc = "running" \/ Refuses)

=============================================================================
