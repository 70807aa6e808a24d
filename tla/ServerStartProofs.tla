-------------------------- MODULE ServerStartProofs --------------------------
(***************************************************************************)
(* Proofs about ServerStart, for any set of users and any number of faults *)
(* and host keys: wherever the process dies, the service never runs with   *)
(* two host keys, and it loses no user unless a fault hit the store.       *)
(***************************************************************************)
EXTENDS ServerStart, TLAPS

StartStates ==
    {"down", "load", "initialise", "writeInitial", "token", "save", "write",
     "key", "writeKey", "listen", "running"}

(* The values the state of a start can have. *)
StartTypeOK ==
    /\ pc \in StartStates
    /\ mtx \in BOOLEAN /\ appConfig \in BOOLEAN /\ harmed \in BOOLEAN
    /\ configUsers \subseteq Users
    /\ known \subseteq Users
    /\ signer \in Keys \cup {0}
    /\ store \in [kind : StoreKinds, users : SUBSET Users]
    /\ keyFile \in Keys \cup {NoFile, Cut}
    /\ faults \in Nat
    /\ served \subseteq Keys

(* The key of the service is in its file from before it listens, and a     *)
(* file that has a key is never written again.                             *)
KeyInv ==
    /\ served # {} => keyFile \in Keys /\ served = {keyFile}
    /\ pc = "writeKey" => keyFile = Cut /\ signer \in Keys
    /\ pc \in {"listen", "running"} => signer = keyFile /\ signer \in Keys
    /\ pc = "running" => served = {signer}

(* What the process has in memory, and what it would save, is what the     *)
(* administrator keeps in the store, from the moment it is read.           *)
StoreInv ==
    ~harmed =>
        /\ store.kind = "missing" => known = {DefaultUserID}
        /\ store.kind # "missing" /\ ~Writing => store.users = known
        /\ pc = "initialise" => store.kind = "missing" /\ configUsers = known
        /\ pc = "writeInitial" => appConfig /\ configUsers = known
        /\ pc = "write" /\ appConfig => configUsers = known
        /\ pc \in {"token", "save"} /\ store.kind # "parses" /\ store.kind # "missing" =>
            ~appConfig
        /\ pc \in {"token", "save", "key", "writeKey", "listen", "running"}
            /\ store.kind \in {"parses", "missing"} => configUsers = known

(* The inductive invariant. *)
StartInv == StartTypeOK /\ KeyInv /\ StoreInv

-----------------------------------------------------------------------------

(* What stands for no file, and for a file that was cut, is no key. *)
LEMMA FileStates == NoFile \notin Keys /\ Cut \notin Keys
  BY StartAssumption DEF NoFile, Cut, Keys

(* An exit keeps the files, and what is said of them without a process. *)
LEMMA ExitKeeps ==
    ASSUME StartInv, pc # "down", ~Writing, Exit, UNCHANGED <<fileVars, historyVars>>,
           faults' \in Nat
    PROVE  StartInv'
  <1>1. StartTypeOK'
    BY DEF StartInv, StartTypeOK, StartStates, Exit, fileVars, historyVars, Keys
  <1>2. KeyInv'
    BY DEF StartInv, KeyInv, Exit, fileVars, historyVars, Keys
  <1>3. StoreInv'
    BY DEF StartInv, StoreInv, Writing, Exit, fileVars, historyVars
  <1>. QED BY <1>1, <1>2, <1>3 DEF StartInv

(* LoadConfig preserves the invariant. *)
LEMMA LoadKeeps ==
    ASSUME StartInv, Start \/ ReadFileFails \/ Unmarshal \/ SetToken \/ NoDefaultUser
    PROVE  StartInv'
  <1>. USE DEF memVars, fileVars, historyVars
  <1>1. CASE Start
    BY <1>1
    DEF StartInv, StartTypeOK, StartStates, KeyInv, StoreInv, Start, Writing, Keys, Cut
  <1>2. CASE ReadFileFails
    <2>1. StartTypeOK' /\ KeyInv'
      <3>1. faults' \in Nat
        BY <1>2 DEF StartInv, StartTypeOK, ReadFileFails, Fault
      <3>2. harmed' \in BOOLEAN
        BY <1>2 DEF StartInv, StartTypeOK, ReadFileFails
      <3>. QED
        BY <1>2, <3>1, <3>2, StartAssumption
        DEF StartInv, StartTypeOK, StartStates, KeyInv, ReadFileFails, MtxAfterReadFails,
            Keys, Cut
    <2>2. StoreInv'
      BY <1>2 DEF StartInv, StartTypeOK, StoreInv, ReadFileFails, MustInitialise, Writing
    <2>. QED BY <2>1, <2>2 DEF StartInv
  <1>3. CASE Unmarshal
    <2>0. configUsers' \subseteq Users
      BY <1>3 DEF StartInv, StartTypeOK, Unmarshal
    <2>1. StartTypeOK' /\ KeyInv'
      BY <1>3, <2>0 DEF StartInv, StartTypeOK, StartStates, KeyInv, Unmarshal, Keys, Cut
    <2>2. StoreInv'
      BY <1>3 DEF StartInv, StartTypeOK, StoreKinds, StoreInv, Unmarshal, MustInitialise, Writing
    <2>. QED BY <2>1, <2>2 DEF StartInv
  <1>4. CASE SetToken
    BY <1>4
    DEF StartInv, StartTypeOK, StartStates, KeyInv, StoreInv, SetToken, Writing, Keys, Cut
  <1>5. CASE NoDefaultUser
    BY <1>5, ExitKeeps DEF NoDefaultUser, StartInv, StartTypeOK, Writing
  <1>. QED BY <1>1, <1>2, <1>3, <1>4, <1>5

(* SaveExplicit preserves the invariant: between truncation and write the  *)
(* users are in memory only, and a fault there harms the store.            *)
LEMMA SaveKeeps ==
    ASSUME StartInv, Truncate \/ OpenFails \/ Write \/ WriteFails
    PROVE  StartInv'
  <1>. USE DEF memVars, fileVars, historyVars
  <1>1. CASE Truncate
    <2>1. StartTypeOK' /\ KeyInv'
      BY <1>1
      DEF StartInv, StartTypeOK, StartStates, KeyInv, Truncate, File, StoreKinds, Keys, Cut
    <2>2. StoreInv'
      BY <1>1 DEF StartInv, StartTypeOK, StoreKinds, StoreInv, Truncate, File, Writing
    <2>. QED BY <2>1, <2>2 DEF StartInv
  <1>2. CASE OpenFails
    <2>1. StartTypeOK' /\ KeyInv'
      BY <1>2 DEF StartInv, StartTypeOK, StartStates, KeyInv, OpenFails, AfterSave, Fault, Keys, Cut
    <2>2. StoreInv'
      BY <1>2 DEF StartInv, StartTypeOK, StoreInv, OpenFails, AfterSave, Writing
    <2>. QED BY <2>1, <2>2 DEF StartInv
  <1>3. CASE Write
    <2>1. StartTypeOK' /\ KeyInv'
      BY <1>3
      DEF StartInv, StartTypeOK, StartStates, KeyInv, Write, AfterSave, File, StoreKinds, Keys, Cut
    <2>2. StoreInv'
      BY <1>3 DEF StartInv, StartTypeOK, StoreInv, Write, AfterSave, File, Writing
    <2>. QED BY <2>1, <2>2 DEF StartInv
  <1>4. CASE WriteFails
    <2>0. store' \in [kind : StoreKinds, users : SUBSET Users]
      BY <1>4 DEF WriteFails, CutStores, File, StoreKinds, StartInv, StartTypeOK
    <2>1. StartTypeOK' /\ KeyInv'
      <3>1. faults' \in Nat
        BY <1>4 DEF StartInv, StartTypeOK, WriteFails, Fault
      <3>. QED
        BY <1>4, <2>0, <3>1
        DEF StartInv, StartTypeOK, StartStates, KeyInv, WriteFails, AfterSave, Keys, Cut
    <2>2. StoreInv'
      BY <1>4 DEF StoreInv, WriteFails
    <2>. QED BY <2>1, <2>2 DEF StartInv
  <1>. QED BY <1>1, <1>2, <1>3, <1>4

(* So does NewMuxTunnelService: a new key is generated only when no file   *)
(* is there, that is, when the service never ran.                          *)
LEMMA KeyKeeps ==
    ASSUME StartInv,
           \/ LoadKey \/ KeyUnusable \/ GenerateKey \/ WriteKey \/ WriteKeyFails
           \/ Listen \/ ListenFails \/ Stop
    PROVE  StartInv'
  <1>. USE DEF memVars, fileVars, historyVars
  <1>1. CASE LoadKey
    <2>1. StartTypeOK' /\ KeyInv'
      BY <1>1 DEF StartInv, StartTypeOK, StartStates, KeyInv, LoadKey, Keys, Cut
    <2>2. StoreInv'
      BY <1>1 DEF StartInv, StoreInv, LoadKey, Writing
    <2>. QED BY <2>1, <2>2 DEF StartInv
  <1>2. CASE GenerateKey
    <2>1. StartTypeOK' /\ KeyInv'
      BY <1>2, FileStates DEF StartInv, StartTypeOK, StartStates, KeyInv, GenerateKey, Keys, Cut
    <2>2. StoreInv'
      BY <1>2 DEF StartInv, StoreInv, GenerateKey, Writing
    <2>. QED BY <2>1, <2>2 DEF StartInv
  <1>3. CASE WriteKey
    <2>1. StartTypeOK' /\ KeyInv'
      BY <1>3, FileStates DEF StartInv, StartTypeOK, StartStates, KeyInv, WriteKey, Keys, Cut
    <2>2. StoreInv'
      BY <1>3 DEF StartInv, StoreInv, WriteKey, Writing
    <2>. QED BY <2>1, <2>2 DEF StartInv
  <1>4. CASE Listen
    <2>1. StartTypeOK' /\ KeyInv'
      BY <1>4 DEF StartInv, StartTypeOK, StartStates, KeyInv, Listen, Keys, Cut
    <2>2. StoreInv'
      BY <1>4 DEF StartInv, StoreInv, Listen, Writing
    <2>. QED BY <2>1, <2>2 DEF StartInv
  <1>5. CASE KeyUnusable \/ WriteKeyFails \/ ListenFails \/ Stop
    <2>1. pc # "down" /\ ~Writing /\ Exit /\ UNCHANGED <<fileVars, historyVars>>
      BY <1>5 DEF KeyUnusable, WriteKeyFails, KeyNotSaved, ListenFails, Stop, Writing
    <2>2. faults' \in Nat
      BY <1>5 DEF KeyUnusable, WriteKeyFails, ListenFails, Stop, Fault, StartInv, StartTypeOK
    <2>. QED BY <2>1, <2>2, ExitKeeps
  <1>. QED BY <1>1, <1>2, <1>3, <1>4, <1>5

(* And so do a crash at any point and an edit of the store. *)
LEMMA OutsideKeeps ==
    ASSUME StartInv, Crash \/ Edit
    PROVE  StartInv'
  <1>. USE DEF memVars, fileVars, historyVars
  <1>1. CASE Crash
    <2>1. StartTypeOK' /\ KeyInv'
      <3>1. store' \in [kind : StoreKinds, users : SUBSET Users]
        BY <1>1 DEF Crash, CutStores, File, StoreKinds, StartInv, StartTypeOK
      <3>2. harmed' \in BOOLEAN
        BY <1>1 DEF Crash, StartInv, StartTypeOK
      <3>3. faults' \in Nat
        BY <1>1 DEF StartInv, StartTypeOK, Crash, Fault
      <3>. QED
        BY <1>1, <3>1, <3>2, <3>3
        DEF StartInv, StartTypeOK, StartStates, KeyInv, Crash, Exit, Keys, Cut
    <2>2. StoreInv'
      BY <1>1 DEF StartInv, StoreInv, Crash, Exit, Writing
    <2>. QED BY <2>1, <2>2 DEF StartInv
  <1>2. CASE Edit
    <2>. PICK us \in SUBSET Users, kind \in StoreKinds \ {"missing"} :
              known' = us /\ store' = File(kind, us) /\ harmed' = FALSE
      BY <1>2 DEF Edit
    <2>1. StartTypeOK' /\ KeyInv'
      BY <1>2 DEF StartInv, StartTypeOK, StartStates, KeyInv, Edit, File, Keys, Cut
    <2>2. StoreInv'
      BY <1>2 DEF StartInv, StartTypeOK, StoreInv, Edit, File, Writing
    <2>. QED BY <2>1, <2>2 DEF StartInv
  <1>. QED BY <1>1, <1>2

(* The inductive invariant holds across every sequence of starts, faults   *)
(* and edits.                                                              *)
THEOREM StartInvariance == StartSpec => []StartInv
  <1>1. StartInit => StartInv
    <2>1. StartInit => StartTypeOK
      <3>1. File("missing", {}) \in [kind : StoreKinds, users : SUBSET Users]
        BY DEF File, StoreKinds
      <3>2. {DefaultUserID} \subseteq Users
        BY StartAssumption
      <3>. SUFFICES ASSUME StartInit PROVE StartTypeOK
        OBVIOUS
      <3>3. /\ mtx \in BOOLEAN /\ appConfig \in BOOLEAN /\ harmed \in BOOLEAN
        BY Zenon DEF StartInit
      <3>4. /\ pc \in StartStates /\ configUsers \subseteq Users /\ known \subseteq Users
            /\ signer \in Keys \cup {0} /\ keyFile \in Keys \cup {NoFile, Cut}
            /\ faults \in Nat /\ served \subseteq Keys
        BY <3>2 DEF StartInit, StartStates
      <3>5. store \in [kind : StoreKinds, users : SUBSET Users]
        BY <3>1 DEF StartInit
      <3>. QED BY <3>3, <3>4, <3>5 DEF StartTypeOK
    <2>2. StartInit => KeyInv /\ StoreInv
      BY DEF StartInit, KeyInv, StoreInv, File, Writing
    <2>. QED BY <2>1, <2>2 DEF StartInv
  <1>2. StartInv /\ [StartNext]_startVars => StartInv'
    <2>. SUFFICES ASSUME StartInv, [StartNext]_startVars PROVE StartInv'
      OBVIOUS
    <2>1. CASE UNCHANGED startVars
      BY <2>1
      DEF startVars, memVars, fileVars, historyVars, StartInv, StartTypeOK, KeyInv, StoreInv,
          Writing, Keys, Cut
    <2>2. CASE StartNext
      BY <2>2, LoadKeeps, SaveKeeps, KeyKeeps, OutsideKeeps DEF StartNext, Server
    <2>. QED BY <2>1, <2>2
  <1>. QED BY <1>1, <1>2, PTL DEF StartSpec

(* The host key an ssh client has seen is the one of every later run,      *)
(* wherever loadOrCreateSSHKey was interrupted before.                     *)
THEOREM HostKeyIsStable == StartSpec => []HostKeyStable
  <1>1. StartInv => HostKeyStable
    BY DEF StartInv, KeyInv, HostKeyStable
  <1>. QED BY <1>1, StartInvariance, PTL

(* No start loses a user the administrator keeps, unless a fault hit the   *)
(* store while it was read or rewritten.                                   *)
THEOREM UsersAreKept == StartSpec => []UsersSurvive
  <1>1. StartInv => UsersSurvive
    BY DEF StartInv, StoreInv, UsersSurvive
  <1>. QED BY <1>1, StartInvariance, PTL

=============================================================================
