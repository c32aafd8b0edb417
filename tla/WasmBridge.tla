------------------------------ MODULE WasmBridge ------------------------------
(* RealHermesCrypto (crypto_wasm_bridge.js), the only door to the Rust core:  *)
(* init fetches, checks and starts the module, shared by all its callers;     *)
(* every method of the API first asserts that this has succeeded             *)
(* ("POLITICA: FAIL-CLOSED").                                                 *)
CONSTANTS Callers, None

VARIABLES
  ready,
  mode,         \* uninitialized, wasm_active or wasm_unavailable
  initPromise,  \* how far the one attempt in progress has come, or None
  bytes,        \* what the attempt has fetched: genuine or altered
  waiting,      \* callers of init that await the attempt
  loaded,       \* what the instance behind rustCrypto was built from
  outcome       \* caller -> how its last call ended

vars == <<ready, mode, initPromise, bytes, waiting, loaded, outcome>>

(* The methods by what they do after the assertion: a call into the core, or  *)
(* an exception because the core has no such function yet.                    *)
UtilityMethods == {"constantTimeXOR", "constantTimeCompare", "secureZeroize",
  "generateVaultSalt", "unlockVault", "lockVault"}
MessageMethods == {"sealMessage", "openMessage", "encryptPayload", "decryptPayload",
  "sealForContact", "openFromContact", "createGroup"}
BackupMethods == {"backupVault", "restoreVault", "encryptBackupData", "decryptBackupData"}
SessionMethods == {"createSession", "exportRatchetState", "importRatchetState",
  "generatePreKeyBundle", "createSessionFromBundle", "acceptSessionHandshake",
  "verifyIdentity", "rotateGroupKey", "encryptGroupMessage", "decryptGroupMessage",
  "encryptLocalDatabaseChunk", "decryptLocalDatabaseChunk"}
RecoveryMethods == {"generateMnemonic", "deriveRecoveryKey", "encryptWithRecoveryKey",
  "decryptWithRecoveryKey", "deriveRecoveryProof", "digest", "computeAdminSig",
  "generateIdentityKeys", "decryptGroupEphemeralImage", "runSelfTests"}
NotImplemented == {"deriveGroupKey", "generateMediaKey", "encryptMedia", "decryptMedia"}

Implemented == UtilityMethods \cup MessageMethods \cup BackupMethods
               \cup SessionMethods \cup RecoveryMethods

Init ==
  /\ ready = FALSE /\ mode = "uninitialized"
  /\ initPromise = None /\ bytes = None /\ loaded = None
  /\ waiting = {}
  /\ outcome = [c \in Callers |-> None]

(* init: at once when ready, else on the promise of the attempt in progress.  *)
InitCall(c) ==
  /\ c \notin waiting
  /\ IF ready
     THEN outcome' = [outcome EXCEPT ![c] = "ready"] /\ UNCHANGED <<initPromise, waiting>>
     ELSE /\ initPromise' = IF initPromise = None THEN "fetch" ELSE initPromise
          /\ waiting' = waiting \cup {c}
          /\ outcome' = [outcome EXCEPT ![c] = None]
  /\ UNCHANGED <<ready, mode, bytes, loaded>>

(* The binary arrives, whatever the server or a cache gives out.              *)
Fetched(b) ==
  /\ initPromise = "fetch"
  /\ bytes' = b
  /\ initPromise' = "hash"
  /\ UNCHANGED <<ready, mode, waiting, loaded, outcome>>

(* Mutant: a wrong hash is only logged.                                       *)
HashCheckedLoosely ==
  /\ initPromise = "hash"
  /\ initPromise' = "load"
  /\ UNCHANGED <<ready, mode, bytes, waiting, loaded, outcome>>

(* Its SHA-256 is the one generated in the build.                             *)
HashChecked ==
  /\ initPromise = "hash" /\ bytes = "genuine"
  /\ initPromise' = "load"
  /\ UNCHANGED <<ready, mode, bytes, waiting, loaded, outcome>>

(* The glue instantiates the very bytes that were checked.                    *)
Loaded ==
  /\ initPromise = "load"
  /\ loaded' = bytes
  /\ initPromise' = "selftest"
  /\ UNCHANGED <<ready, mode, bytes, waiting, outcome>>

Answered(how) == [c \in Callers |-> IF c \in waiting THEN how ELSE outcome[c]]

SelfTestPassed ==
  /\ initPromise = "selftest"
  /\ ready' = TRUE /\ mode' = "wasm_active"
  /\ initPromise' = None
  /\ waiting' = {}
  /\ outcome' = Answered("ready")
  /\ UNCHANGED <<bytes, loaded>>

(* Mutant: the promise of a failed attempt is kept.                           *)
AttemptFailedForGood ==
  /\ initPromise # None
  /\ initPromise = "hash" => bytes = "altered"
  /\ ready' = FALSE /\ mode' = "wasm_unavailable"
  /\ outcome' = Answered("rejected")
  /\ UNCHANGED <<initPromise, waiting, bytes, loaded>>

(* Any stage may fail (a hash only on other bytes); the promise is forgotten, *)
(* so that a later call makes another attempt.                                *)
AttemptFailed ==
  /\ initPromise # None
  /\ initPromise = "hash" => bytes = "altered"
  /\ ready' = FALSE /\ mode' = "wasm_unavailable"
  /\ initPromise' = None
  /\ waiting' = {}
  /\ outcome' = Answered("rejected")
  /\ UNCHANGED <<bytes, loaded>>

(* _assertReady                                                               *)
AssertReady == ready

(* A method of the API.                                                       *)
Invoke(c, m) ==
  /\ c \notin waiting
  /\ outcome' = [outcome EXCEPT ![c] =
       IF ~AssertReady THEN "not ready"
       ELSE IF m \in NotImplemented THEN "not implemented" ELSE "executed"]
  /\ UNCHANGED <<ready, mode, initPromise, bytes, waiting, loaded>>

Next ==
  \/ \E c \in Callers :
       \/ InitCall(c)
       \/ \E m \in Implemented \cup NotImplemented : Invoke(c, m)
  \/ \E b \in {"genuine", "altered"} : Fetched(b)
  \/ HashChecked \/ Loaded \/ SelfTestPassed \/ AttemptFailed

(* The stages of an attempt end: the fetch by its timeout (api.js), the rest  *)
(* by themselves.                                                             *)
Attempt ==
  (\E b \in {"genuine", "altered"} : Fetched(b))
  \/ HashChecked \/ Loaded \/ SelfTestPassed \/ AttemptFailed

Fairness == WF_vars(Attempt)

Spec == Init /\ [][Next]_vars /\ Fairness

-----------------------------------------------------------------------------
TypeOK ==
  /\ ready \in BOOLEAN
  /\ mode \in {"uninitialized", "wasm_active", "wasm_unavailable"}
  /\ initPromise \in {None, "fetch", "hash", "load", "selftest"}
  /\ bytes \in {None, "genuine", "altered"} /\ loaded \in {None, "genuine", "altered"}
  /\ waiting \subseteq Callers
  /\ outcome \in [Callers -> {None, "ready", "rejected", "executed",
                              "not ready", "not implemented"}]

(* Nothing is ever computed by a module that was not checked to the end: an   *)
(* operation runs only once an attempt has passed every stage on genuine      *)
(* bytes, however attempts failed and were repeated before.                   *)
OnlyVerified ==
  \A c \in Callers : outcome[c] = "executed" =>
    loaded = "genuine" /\ mode = "wasm_active"

(* Whoever awaits init gets an answer, although all share one promise.        *)
InitAnswers == \A c \in Callers : c \in waiting ~> c \notin waiting
=============================================================================
