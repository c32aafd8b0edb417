---------------------------- MODULE MCDeviceProofs ----------------------------
(* The parts of a device, for any users, passwords, phrases, devices, items  *)
(* and bounds. Each part has an inductive invariant of its own; a step of the*)
(* device is a step of one part or of none, so that all hold together.       *)
EXTENDS MCDevice, Sequences, WellFoundedInduction, TLAPS

-----------------------------------------------------------------------------
(* The vault. A call that asks for the password inside a session is alone    *)
(* until it is over; a call that goes on waits for nothing else; the flag is *)
(* up for a user only, and a call that was told yes finds it up.             *)
Alone == {"change", "disable", "reopen", "mark"}

VaultUsers ==
  /\ userId = None => session.user = None
  /\ isUnlocked \/ unlocking # None \/ opened # None => userId # None
  /\ \A c \in Calls : vaultCalls[c].pc # "idle" => userId # None

VaultCalls ==
  /\ opened # None => ready
  /\ \A c \in Calls : vaultCalls[c].pc = "unlocking" => unlocking # None
  /\ \A c \in Calls : vaultCalls[c].pc = "resumed" =>
       ready /\ unlocking = None /\ (vaultCalls[c].ok => isUnlocked)
  /\ \A c, d \in Calls :
       vaultCalls[c].op \in Alone => ready /\ (d # c => vaultCalls[d].pc = "idle")

VaultInv == Vault!TypeOK /\ VaultUsers /\ VaultCalls /\ Vault!FlagMeansKey

(* The vault of the current user is that of userId: the copy kept for a      *)
(* reload says no one when userId does.                                      *)
LEMMA VaultCurrent ==
  VaultInv => /\ Vault!Current = userId
              /\ userId # None => userId \in People
BY DEF VaultInv, VaultUsers, Vault!Current, Vault!TypeOK

(* A page opens with it.                                                     *)
LEMMA VaultInit == Vault!Init => VaultInv
<1> SUFFICES ASSUME Vault!Init PROVE VaultInv
  OBVIOUS
<1>1. Vault!TypeOK
  BY DEF Vault!Init, Vault!TypeOK, Vault!Idle, Vault!NoSession
<1>2. VaultUsers
  BY DEF Vault!Init, VaultUsers, Vault!Idle, Vault!NoSession
<1>3. VaultCalls
  BY DEF Vault!Init, VaultCalls, Vault!Idle, Alone
<1> QED BY <1>1, <1>2, <1>3 DEF Vault!Init, VaultInv, Vault!FlagMeansKey

(* Calls are well-formed, and one is idle when its place says so.            *)
LEMMA CallShape ==
  ASSUME Vault!TypeOK, NEW c \in Calls
  PROVE  /\ vaultCalls[c].pc \in {"idle", "unlocking", "resumed"}
         /\ vaultCalls[c].pc = "idle" <=> vaultCalls[c] = Vault!Idle
         /\ vaultCalls[c].op = "idle" <=> vaultCalls[c] = Vault!Idle
         /\ vaultCalls[c].pc # "idle" =>
              /\ vaultCalls[c].user \in People
              /\ vaultCalls[c].pass \in Passwords \cup {Default}
              /\ vaultCalls[c].ok \in BOOLEAN
<1>1. \/ vaultCalls[c] = Vault!Idle
      \/ vaultCalls[c] \in [op : Vault!Ops \cup {"reopen", "mark"}, pc : {"unlocking", "resumed"},
           user : People, pass : Passwords \cup {Default}, ok : BOOLEAN]
  BY DEF Vault!TypeOK
<1> QED BY <1>1 DEF Vault!Idle, Vault!Ops

(* A call in progress.                                                       *)
Asking == [op : Vault!Ops \cup {"reopen", "mark"}, pc : {"unlocking", "resumed"},
           user : People, pass : Passwords \cup {Default}, ok : BOOLEAN]

(* The types of the vault are kept by every step, the calls of several flows *)
(* ended by one unlocking included.                                          *)
LEMMA VaultTypes == VaultInv /\ [Vault!Next]_vaultVars => Vault!TypeOK'
<1> SUFFICES ASSUME VaultInv, [Vault!Next]_vaultVars PROVE Vault!TypeOK'
  OBVIOUS
<1> USE DEF Vault!TypeOK
<1>0. Vault!TypeOK BY DEF VaultInv
<1>1. Vault!Current = userId /\ (userId # None => userId \in People)
  BY VaultCurrent
<1>2. \A c \in Calls : vaultCalls[c].pc # "idle" => userId \in People
  BY <1>1 DEF VaultInv, VaultUsers
<1>3. \A c \in Calls : vaultCalls[c].pc # "idle" =>
        /\ vaultCalls[c].user \in People
        /\ vaultCalls[c].pass \in Passwords \cup {Default}
  BY <1>0, CallShape
<1>4. unlocking # None => userId \in People
  BY <1>1 DEF VaultInv, VaultUsers
<1>5. opened # None => userId \in People
  BY <1>1 DEF VaultInv, VaultUsers
<1>6. CASE UNCHANGED vaultVars BY <1>0, <1>6 DEF vaultVars
<1>7. CASE Vault!BridgeReady
  BY <1>0, <1>7 DEF Vault!BridgeReady, Vault!vault, Vault!disk
<1>8. CASE Vault!BridgeFails
  BY <1>0, <1>8 DEF Vault!BridgeFails, Vault!vault, Vault!disk, Vault!NoSession
<1>9. CASE Vault!DoUnlock
  <2>1. /\ vaultKey' \in Vault!Keys /\ isUnlocked' \in BOOLEAN /\ unlocking' = None
        /\ vaultMarker' \in [People -> Vault!Keys \cup {None}]
    BY <1>0, <1>1, <1>4, <1>9 DEF Vault!DoUnlock, Vault!Outcome, Vault!Keys
  <2>2. PICK ok \in BOOLEAN : vaultCalls' = [c \in Calls |->
           IF vaultCalls[c].pc = "unlocking" THEN [vaultCalls[c] EXCEPT !.pc = "resumed", !.ok = ok]
           ELSE vaultCalls[c]]
    BY <1>9, <2>1 DEF Vault!DoUnlock
  <2>3. \A c \in Calls : vaultCalls'[c] \in {Vault!Idle} \cup Asking
    <3> TAKE c \in Calls
    <3> DEFINE is == vaultCalls'[c]
    <3>0. is = IF vaultCalls[c].pc = "unlocking"
               THEN [vaultCalls[c] EXCEPT !.pc = "resumed", !.ok = ok] ELSE vaultCalls[c]
      BY <2>2
    <3>1. CASE vaultCalls[c] = Vault!Idle
      BY <3>0, <3>1 DEF Vault!Idle
    <3>2. CASE vaultCalls[c] \in Asking
      <4>1. PICK r \in Asking : r = vaultCalls[c] BY <3>2
      <4>2. r \in Asking /\ [r EXCEPT !.pc = "resumed", !.ok = ok] \in Asking
        BY <4>1 DEF Asking
      <4>3. is = r \/ is = [r EXCEPT !.pc = "resumed", !.ok = ok] BY <3>0, <4>1
      <4> QED BY <4>2, <4>3
    <3>3. vaultCalls[c] \in {Vault!Idle} \cup Asking BY <1>0 DEF Asking
    <3> QED BY <3>1, <3>2, <3>3
  <2>4. vaultCalls' \in [Calls -> {Vault!Idle} \cup Asking]
    BY <2>2, <2>3
  <2> QED BY <1>0, <1>9, <2>1, <2>4 DEF Vault!DoUnlock, Asking
<1>10. CASE Vault!Save
  BY <1>0, <1>1, <1>5, <1>10 DEF Vault!Save, Vault!Put, Vault!vault
<1>11. CASE Vault!Logout
  BY <1>0, <1>11 DEF Vault!Logout, Vault!LeftSession, Vault!NoSession, Vault!disk
<1>12. CASE Vault!Forget
  BY <1>0, <1>12 DEF Vault!Forget, Vault!vault
<1>13. ASSUME NEW b \in Calls, NEW f \in Calls, Vault!Reload(b, f) PROVE Vault!TypeOK'
  <2>1. \A c \in Calls : vaultCalls'[c] \in {Vault!Idle} \cup Asking
    <3> TAKE c \in Calls
    <3>1. CASE session.user = None
      BY <1>13, <3>1 DEF Vault!Reload
    <3>2. CASE session.user # None /\ c = b
      BY <1>0, <1>13, <3>2 DEF Vault!Reload, Vault!Call, Asking, Vault!Ops
    <3>3. CASE session.user # None /\ c # b /\ c = f /\ session.pass # None
      <4>1. session.user \in People /\ session.pass \in Passwords \cup {Default}
        BY <1>0, <3>3
      <4>2. vaultCalls'[c] = Vault!Call("restore", session.user, session.pass)
        BY <1>13, <3>3 DEF Vault!Reload
      <4> QED BY <4>1, <4>2 DEF Vault!Call, Asking, Vault!Ops
    <3>4. CASE session.user # None /\ c # b /\ ~(c = f /\ session.pass # None)
      BY <1>13, <3>4 DEF Vault!Reload
    <3> QED BY <3>1, <3>2, <3>3, <3>4
  <2>2. vaultCalls' \in [Calls -> {Vault!Idle} \cup Asking]
    BY <1>13, <2>1 DEF Vault!Reload
  <2> QED BY <1>0, <1>13, <2>2 DEF Vault!Reload, Vault!disk, Asking
<1>14. ASSUME NEW c \in Calls, NEW u \in People, NEW p \in Passwords,
              NEW op \in {"login", "register"}, Vault!Enter(c, op, u, p)
       PROVE  Vault!TypeOK'
  BY <1>0, <1>14 DEF Vault!Enter, Vault!Call, Vault!Ops, Vault!SetUserId, Vault!Unlock,
    Vault!disk
<1>15. ASSUME NEW c \in Calls, NEW p \in Passwords,
              NEW op \in {"change", "disable"}, Vault!Confirm(c, op, p)
       PROVE  Vault!TypeOK'
  BY <1>0, <1>1, <1>5, <1>15 DEF Vault!Confirm, Vault!Call, Vault!Ops, Vault!Unlock,
    Vault!disk, Vault!vault
<1>16. ASSUME NEW c \in Calls, NEW op \in {"save", "load"}, Vault!Background(c, op)
       PROVE  Vault!TypeOK'
  BY <1>0, <1>1, <1>5, <1>16 DEF Vault!Background, Vault!Call, Vault!Ops, Vault!Unlock,
    Vault!disk, Vault!vault
<1>17. ASSUME NEW c \in Calls, NEW p \in Passwords, Vault!ChangeStarted(c, p)
       PROVE  Vault!TypeOK'
  <2>1. userId \in People BY <1>2, <1>17 DEF Vault!ChangeStarted, Vault!Resumed
  <2>2. [Vault!Call("reopen", userId, p) EXCEPT !.ok = FALSE] \in Asking
    BY <2>1 DEF Vault!Call, Asking
  <2>3. vaultCalls' \in [Calls -> {Vault!Idle} \cup Asking]
    BY <1>0, <1>1, <1>17, <2>2 DEF Vault!ChangeStarted, Vault!Ends, Asking
  <2>4. unlocking' = unlocking \/ unlocking' \in [user : People, pass : Passwords \cup {Default}]
    BY <1>1, <1>17, <2>1 DEF Vault!ChangeStarted, Vault!Unlock
  <2>5. isUnlocked' \in BOOLEAN /\ vaultKey' \in Vault!Keys \cup {None}
    BY <1>0, <1>17 DEF Vault!ChangeStarted, Vault!vault
  <2> QED
    BY <1>0, <1>17, <2>3, <2>4, <2>5 DEF Vault!ChangeStarted, Vault!disk, Asking
<1>18. ASSUME NEW c \in Calls, Vault!Opened(c) PROVE Vault!TypeOK'
  BY <1>0, <1>3, <1>18 DEF Vault!Opened, Vault!Resumed, Vault!Ends, Vault!vault, Vault!disk
<1>19. ASSUME NEW c \in Calls, Vault!Registered(c) PROVE Vault!TypeOK'
  BY <1>0, <1>1, <1>2, <1>3, <1>19 DEF Vault!Registered, Vault!Resumed, Vault!Ends, Vault!Put,
    Vault!vault
<1>20. ASSUME NEW c \in Calls, Vault!RegisterRefused(c) PROVE Vault!TypeOK'
  BY <1>0, <1>20 DEF Vault!RegisterRefused, Vault!Ends, Vault!vault, Vault!disk
<1>21. ASSUME NEW c \in Calls, Vault!Saved(c) PROVE Vault!TypeOK'
  BY <1>0, <1>1, <1>2, <1>21 DEF Vault!Saved, Vault!Resumed, Vault!Ends, Vault!Put, Vault!vault
<1>22. ASSUME NEW c \in Calls, Vault!Loaded(c) PROVE Vault!TypeOK'
  BY <1>0, <1>1, <1>2, <1>22 DEF Vault!Loaded, Vault!Resumed, Vault!Ends, Vault!vault
<1>23. ASSUME NEW c \in Calls, Vault!Reopened(c) PROVE Vault!TypeOK'
  <2>1. userId \in People /\ vaultCalls[c] \in Asking
    BY <1>0, <1>2, <1>23 DEF Vault!Reopened, Vault!Resumed, Vault!Idle, Asking
  <2>2. vaultCalls' \in [Calls -> {Vault!Idle} \cup Asking]
    BY <1>0, <1>23, <2>1 DEF Vault!Reopened, Asking
  <2>3. kv' \in [People -> Vault!Keys \cup {None}] /\ ls' \in [People -> Vault!Keys \cup {None}]
    BY <1>0, <1>1, <1>23 DEF Vault!Reopened, Vault!Put
  <2>4. unlocking' = unlocking \/ unlocking' \in [user : People, pass : Passwords \cup {Default}]
    BY <1>1, <1>23, <2>1 DEF Vault!Reopened, Vault!Unlock
  <2> QED BY <1>0, <1>23, <2>2, <2>3, <2>4 DEF Vault!Reopened, Vault!vault, Asking
<1>24. ASSUME NEW c \in Calls, Vault!Marked(c) PROVE Vault!TypeOK'
  BY <1>0, <1>1, <1>2, <1>3, <1>24 DEF Vault!Marked, Vault!Resumed, Vault!Ends, Vault!vault
<1>25. ASSUME NEW c \in Calls, Vault!Disabled(c) PROVE Vault!TypeOK'
  <2>1. vaultCalls' \in [Calls -> {Vault!Idle} \cup Asking]
    BY <1>0, <1>25 DEF Vault!Disabled, Vault!Ends, Asking
  <2>2. CASE vaultCalls[c].ok
    <3>1. /\ kv' \in [People -> Vault!Keys \cup {None}]
          /\ ls' \in [People -> Vault!Keys \cup {None}]
          /\ vaultMarker' \in [People -> Vault!Keys \cup {None}]
      BY <1>0, <1>25, <2>2 DEF Vault!Disabled
    <3>2. isUnlocked' = FALSE /\ vaultKey' = None /\ opened' = None
          /\ session' = [user |-> None, pass |-> None]
      BY <1>25, <2>2, Zenon DEF Vault!Disabled, Vault!LeftSession, Vault!NoSession
    <3> QED BY <1>0, <1>25, <2>1, <3>1, <3>2 DEF Vault!Disabled, Asking
  <2>3. CASE ~vaultCalls[c].ok
    BY <1>0, <1>25, <2>1, <2>3 DEF Vault!Disabled, Vault!vault, Vault!disk, Asking
  <2> QED BY <2>2, <2>3
<1> QED
  BY <1>6, <1>7, <1>8, <1>9, <1>10, <1>11, <1>12, <1>13, <1>14, <1>15, <1>16, <1>17, <1>18,
     <1>19, <1>20, <1>21, <1>22, <1>23, <1>24, <1>25 DEF Vault!Next

(* Nothing is open, opening or asked for without a user.                     *)
LEMMA VaultUsersStep == VaultInv /\ [Vault!Next]_vaultVars => VaultUsers'
<1> SUFFICES ASSUME VaultInv, [Vault!Next]_vaultVars PROVE VaultUsers'
  OBVIOUS
<1> USE NoneAssumption DEF VaultUsers
<1>0. VaultUsers /\ Vault!TypeOK BY DEF VaultInv
<1>1. Vault!Current = userId /\ (userId # None => userId \in People)
  BY VaultCurrent
<1>2. \A c \in Calls : /\ vaultCalls[c].pc # "idle" => userId \in People
                       /\ vaultCalls[c].pc # "idle" => vaultCalls[c].user \in People
                       /\ vaultCalls[c].pc = "idle" <=> vaultCalls[c] = Vault!Idle
  BY <1>0, <1>1, CallShape
<1>3. vaultCalls \in [Calls -> {Vault!Idle} \cup Asking]
  BY <1>0 DEF Vault!TypeOK, Asking
<1>6. CASE UNCHANGED vaultVars BY <1>0, <1>6 DEF vaultVars
<1>7. CASE Vault!BridgeReady
  BY <1>0, <1>7 DEF Vault!BridgeReady, Vault!vault, Vault!disk
<1>8. CASE Vault!BridgeFails
  BY <1>0, <1>8 DEF Vault!BridgeFails, Vault!vault, Vault!disk, Vault!NoSession, Vault!Idle
<1>9. CASE Vault!DoUnlock
  <2>1. \A c \in Calls : vaultCalls'[c].pc # "idle" => vaultCalls[c].pc # "idle"
    BY <1>9, <1>3 DEF Vault!DoUnlock
  <2> QED BY <1>0, <1>1, <1>9, <2>1 DEF Vault!DoUnlock
<1>10. CASE Vault!Save BY <1>0, <1>10 DEF Vault!Save, Vault!vault
<1>11. CASE Vault!Logout
  BY <1>0, <1>11 DEF Vault!Logout, Vault!LeftSession, Vault!NoSession, Vault!disk
<1>12. CASE Vault!Forget
  BY <1>0, <1>12 DEF Vault!Forget, Vault!vault
<1>13. ASSUME NEW b \in Calls, NEW f \in Calls, Vault!Reload(b, f) PROVE VaultUsers'
  <2>1. session.user = None => \A c \in Calls : vaultCalls'[c].pc = "idle"
    BY <1>13 DEF Vault!Reload, Vault!Idle
  <2> QED BY <1>0, <1>13, <2>1 DEF Vault!Reload
<1>14. ASSUME NEW c \in Calls, NEW u \in People, NEW p \in Passwords,
              NEW op \in {"login", "register"}, Vault!Enter(c, op, u, p)
       PROVE  VaultUsers'
  BY <1>14 DEF Vault!Enter, Vault!SetUserId
<1>15. ASSUME NEW c \in Calls, NEW p \in Passwords,
              NEW op \in {"change", "disable"}, Vault!Confirm(c, op, p)
       PROVE  VaultUsers'
  BY <1>0, <1>15 DEF Vault!Confirm, Vault!vault
<1>16. ASSUME NEW c \in Calls, NEW op \in {"save", "load"}, Vault!Background(c, op)
       PROVE  VaultUsers'
  BY <1>0, <1>16 DEF Vault!Background, Vault!vault
<1>17. ASSUME NEW c \in Calls, NEW p \in Passwords, Vault!ChangeStarted(c, p)
       PROVE  VaultUsers'
  BY <1>0, <1>2, <1>17 DEF Vault!ChangeStarted, Vault!Resumed
<1>18. ASSUME NEW c \in Calls, Vault!Opened(c) PROVE VaultUsers'
  <2>1. userId # None BY <1>0, <1>18 DEF Vault!Opened, Vault!Resumed
  <2> QED BY <1>18, <2>1 DEF Vault!Opened, Vault!vault, Vault!Idle
<1>19. ASSUME NEW c \in Calls, Vault!Registered(c) PROVE VaultUsers'
  <2>1. userId # None BY <1>0, <1>19 DEF Vault!Registered, Vault!Resumed
  <2> QED BY <1>19, <2>1 DEF Vault!Registered
<1>20. ASSUME NEW c \in Calls, Vault!RegisterRefused(c) PROVE VaultUsers'
  BY <1>0, <1>2, <1>20 DEF Vault!RegisterRefused, Vault!Resumed, Vault!vault
<1>21. ASSUME NEW c \in Calls, Vault!Saved(c) PROVE VaultUsers'
  BY <1>0, <1>2, <1>21 DEF Vault!Saved, Vault!Resumed, Vault!vault
<1>22. ASSUME NEW c \in Calls, Vault!Loaded(c) PROVE VaultUsers'
  BY <1>0, <1>2, <1>22 DEF Vault!Loaded, Vault!Resumed, Vault!vault
<1>23. ASSUME NEW c \in Calls, Vault!Reopened(c) PROVE VaultUsers'
  BY <1>0, <1>2, <1>23 DEF Vault!Reopened, Vault!Resumed, Vault!vault
<1>24. ASSUME NEW c \in Calls, Vault!Marked(c) PROVE VaultUsers'
  BY <1>0, <1>2, <1>24 DEF Vault!Marked, Vault!Resumed, Vault!vault
<1>25. ASSUME NEW c \in Calls, Vault!Disabled(c) PROVE VaultUsers'
  BY <1>0, <1>2, <1>25 DEF Vault!Disabled, Vault!Resumed, Vault!vault
<1> QED
  BY <1>6, <1>7, <1>8, <1>9, <1>10, <1>11, <1>12, <1>13, <1>14, <1>15, <1>16, <1>17, <1>18,
     <1>19, <1>20, <1>21, <1>22, <1>23, <1>24, <1>25 DEF Vault!Next

(* A call that resumes finds the vault as its unlocking left it.             *)
LEMMA VaultCallsStep == VaultInv /\ [Vault!Next]_vaultVars => VaultCalls'
<1> SUFFICES ASSUME VaultInv, [Vault!Next]_vaultVars PROVE VaultCalls'
  OBVIOUS
<1> USE NoneAssumption DEF VaultCalls
<1>0. VaultCalls /\ Vault!TypeOK BY DEF VaultInv
<1>1. Vault!Current = userId /\ (userId # None => userId \in People)
  BY VaultCurrent
<1>2. \A c \in Calls :
        /\ vaultCalls[c].pc \in {"idle", "unlocking", "resumed"}
        /\ vaultCalls[c].pc = "idle" <=> vaultCalls[c] = Vault!Idle
        /\ vaultCalls[c].op = "idle" <=> vaultCalls[c] = Vault!Idle
        /\ vaultCalls[c].pc # "idle" => userId \in People
  BY <1>0, <1>1, CallShape DEF VaultInv, VaultUsers
<1>3. vaultCalls \in [Calls -> {Vault!Idle} \cup Asking]
  BY <1>0 DEF Vault!TypeOK, Asking
(* A new event is handled only when no call goes on or is alone.             *)
<1>4. Vault!Quiet => \A c \in Calls : /\ vaultCalls[c].pc # "resumed"
                                      /\ vaultCalls[c].op \notin Alone
  BY <1>0, <1>2 DEF Vault!Quiet, Alone
<1>5. Vault!Quiet /\ opened # None => unlocking = None /\ \A c \in Calls : vaultCalls[c] = Vault!Idle
  BY <1>0, <1>2, <1>4 DEF Vault!Quiet
<1>6. CASE UNCHANGED vaultVars BY <1>0, <1>6 DEF vaultVars
<1>7. CASE Vault!BridgeReady
  BY <1>0, <1>7 DEF Vault!BridgeReady, Vault!vault
<1>8. CASE Vault!BridgeFails
  <2>1. \A c \in Calls : vaultCalls[c].pc # "resumed" /\ vaultCalls[c].op \notin Alone
    BY <1>0, <1>8 DEF Vault!BridgeFails
  <2>2. \A c \in Calls : vaultCalls'[c] = Vault!Idle
    BY <1>2, <1>8, <2>1 DEF Vault!BridgeFails
  <2> QED BY <1>0, <1>8, <2>2 DEF Vault!BridgeFails, Vault!Idle, Alone
<1>9. CASE Vault!DoUnlock
  <2>1. PICK ok \in BOOLEAN : /\ isUnlocked' = ok
          /\ vaultCalls' = [c \in Calls |->
               IF vaultCalls[c].pc = "unlocking" THEN [vaultCalls[c] EXCEPT !.pc = "resumed", !.ok = ok]
               ELSE vaultCalls[c]]
    BY <1>9 DEF Vault!DoUnlock, Vault!Outcome
  <2>2. \A c \in Calls : /\ vaultCalls'[c].op = vaultCalls[c].op
                         /\ vaultCalls'[c].pc # "unlocking"
                         /\ vaultCalls'[c].pc = "idle" <=> vaultCalls[c].pc = "idle"
                         /\ vaultCalls[c].pc = "unlocking" => vaultCalls'[c].ok = ok
    <3> TAKE c \in Calls
    <3> DEFINE is == vaultCalls'[c]
    <3>0. is = IF vaultCalls[c].pc = "unlocking"
               THEN [vaultCalls[c] EXCEPT !.pc = "resumed", !.ok = ok] ELSE vaultCalls[c]
      BY <2>1
    <3>1. CASE vaultCalls[c] = Vault!Idle
      BY <3>0, <3>1 DEF Vault!Idle
    <3>2. CASE vaultCalls[c] \in Asking
      BY <3>0, <3>2 DEF Asking
    <3> QED BY <1>3, <3>1, <3>2
  <2>3. \A c \in Calls : vaultCalls[c].pc # "resumed" BY <1>0, <1>9 DEF Vault!DoUnlock
  <2>4. ready /\ UNCHANGED <<ready, opened>> /\ unlocking' = None BY <1>9 DEF Vault!DoUnlock
  <2>5. \A c \in Calls : vaultCalls'[c].pc = "resumed" => vaultCalls[c].pc = "unlocking"
    BY <1>2, <2>2, <2>3
  <2> QED BY <1>0, <2>1, <2>2, <2>4, <2>5
<1>10. CASE Vault!Save BY <1>0, <1>10 DEF Vault!Save, Vault!vault
<1>11. CASE Vault!Logout
  BY <1>0, <1>4, <1>11 DEF Vault!Logout, Vault!LeftSession, Vault!disk
<1>12. CASE Vault!Forget
  BY <1>0, <1>12 DEF Vault!Forget, Vault!vault
<1>13. ASSUME NEW b \in Calls, NEW f \in Calls, Vault!Reload(b, f) PROVE VaultCalls'
  <2>1. \A c \in Calls : /\ vaultCalls'[c].pc # "resumed"
                         /\ vaultCalls'[c].op \notin Alone
                         /\ vaultCalls'[c].pc = "unlocking" => session.user # None
    BY <1>13 DEF Vault!Reload, Vault!Call, Vault!Idle, Alone
  <2>2. session.user # None => unlocking' # None
    BY <1>0, <1>13 DEF Vault!Reload, Vault!TypeOK
  <2>3. opened' = None BY <1>13 DEF Vault!Reload
  <2> QED BY <2>1, <2>2, <2>3
(* The events that start a call wait until nothing goes on.                  *)
<1>14. ASSUME NEW c \in Calls, NEW u \in People, NEW p \in Passwords,
              NEW op \in {"login", "register"}, Vault!Enter(c, op, u, p)
       PROVE  VaultCalls'
  <2>1. Vault!Quiet /\ UNCHANGED <<ready, opened>>
        /\ unlocking' = (IF unlocking = None THEN [user |-> u, pass |-> p] ELSE unlocking)
        /\ vaultCalls' = [vaultCalls EXCEPT ![c] = Vault!Call(op, u, p)]
    BY <1>14 DEF Vault!Enter, Vault!Unlock
  <2>2. unlocking' # None BY <2>1
  <2>3. \A d \in Calls : vaultCalls'[d] = vaultCalls[d] \/ vaultCalls'[d] = Vault!Call(op, u, p)
    BY <2>1, <1>3
  <2>4. \A d \in Calls : vaultCalls'[d].pc # "resumed" /\ vaultCalls'[d].op \notin Alone
    BY <2>1, <2>3, <1>4 DEF Vault!Call, Alone
  <2> QED BY <1>0, <2>1, <2>2, <2>4
<1>15. ASSUME NEW c \in Calls, NEW p \in Passwords,
              NEW op \in {"change", "disable"}, Vault!Confirm(c, op, p)
       PROVE  VaultCalls'
  <2>1. Vault!Quiet /\ opened # None /\ UNCHANGED <<ready, opened, isUnlocked>>
        /\ userId \in People /\ unlocking = None
        /\ unlocking' = [user |-> userId, pass |-> p]
        /\ vaultCalls' = [vaultCalls EXCEPT ![c] = Vault!Call(op, userId, p)]
    BY <1>1, <1>5, <1>15 DEF Vault!Confirm, Vault!Unlock, Vault!vault, VaultInv, VaultUsers
  <2>2. unlocking' # None BY <2>1
  <2>3. /\ \A d \in Calls : d # c => vaultCalls'[d] = Vault!Idle
        /\ vaultCalls'[c].pc = "unlocking"
    BY <2>1, <1>3, <1>5 DEF Vault!Call
  <2> QED BY <1>0, <2>1, <2>2, <2>3 DEF Vault!Idle, Alone
<1>16. ASSUME NEW c \in Calls, NEW op \in {"save", "load"}, Vault!Background(c, op)
       PROVE  VaultCalls'
  <2>1. Vault!Quiet /\ opened # None /\ UNCHANGED <<ready, opened, isUnlocked>>
        /\ userId \in People /\ unlocking = None
        /\ unlocking' = [user |-> userId, pass |-> Default]
        /\ vaultCalls' = [vaultCalls EXCEPT ![c] = Vault!Call(op, userId, Default)]
    BY <1>1, <1>5, <1>16 DEF Vault!Background, Vault!Unlock, Vault!vault, VaultInv, VaultUsers
  <2>2. unlocking' # None BY <2>1
  <2>3. /\ \A d \in Calls : d # c => vaultCalls'[d] = Vault!Idle
        /\ vaultCalls'[c].pc = "unlocking"
    BY <2>1, <1>3, <1>5 DEF Vault!Call
  <2> QED BY <1>0, <2>1, <2>2, <2>3 DEF Vault!Idle, Alone
<1>17. ASSUME NEW c \in Calls, NEW p \in Passwords, Vault!ChangeStarted(c, p)
       PROVE  VaultCalls'
  <2>1. /\ vaultCalls[c].pc = "resumed" /\ vaultCalls[c].op = "change"
        /\ UNCHANGED <<ready, opened>> /\ userId \in People /\ unlocking = None /\ ready
        /\ \A d \in Calls : d # c => vaultCalls[d].pc = "idle" /\ vaultCalls[d] = Vault!Idle
    BY <1>0, <1>2, <1>17 DEF Vault!ChangeStarted, Vault!Resumed, Alone
  <2>2. CASE vaultCalls[c].ok
    <3>1. /\ unlocking' = [user |-> userId, pass |-> p]
          /\ vaultCalls' = [vaultCalls EXCEPT ![c] = [Vault!Call("reopen", userId, p) EXCEPT !.ok = FALSE]]
      BY <1>1, <1>17, <2>1, <2>2 DEF Vault!ChangeStarted, Vault!Unlock
    <3>2. /\ \A d \in Calls : d # c => vaultCalls'[d] = Vault!Idle
          /\ vaultCalls'[c].pc = "unlocking"
      BY <2>1, <3>1, <1>3 DEF Vault!Call
    <3>3. unlocking' # None BY <2>1, <3>1
    <3> QED BY <2>1, <3>2, <3>3 DEF Vault!Idle, Alone
  <2>3. CASE ~vaultCalls[c].ok
    <3>1. /\ UNCHANGED <<unlocking, isUnlocked>>
          /\ \A d \in Calls : vaultCalls'[d] = Vault!Idle
      BY <1>3, <1>17, <2>1, <2>3 DEF Vault!ChangeStarted, Vault!Ends, Vault!vault
    <3> QED BY <2>1, <3>1 DEF Vault!Idle, Alone
  <2> QED BY <2>2, <2>3
(* What a call does when it is over leaves the others as they are.           *)
<1>18. ASSUME NEW c \in Calls, UNCHANGED <<isUnlocked, ready, unlocking>>, Vault!Ends(c),
              opened' # None => ready
       PROVE  VaultCalls'
  <2>1. \A d \in Calls : vaultCalls'[d] = IF d = c THEN Vault!Idle ELSE vaultCalls[d]
    BY <1>3, <1>18 DEF Vault!Ends
  <2> QED BY <1>0, <1>18, <2>1 DEF Vault!Idle, Alone
<1>19. ASSUME NEW c \in Calls, Vault!Opened(c) \/ Vault!Registered(c) PROVE VaultCalls'
  <2>1. ready BY <1>0, <1>19 DEF Vault!Opened, Vault!Registered, Vault!Resumed
  <2> QED BY <1>18, <1>19, <2>1 DEF Vault!Opened, Vault!Registered, Vault!vault
<1>20. ASSUME NEW c \in Calls, Vault!RegisterRefused(c) PROVE VaultCalls'
  BY <1>0, <1>18, <1>20 DEF Vault!RegisterRefused, Vault!vault
<1>21. ASSUME NEW c \in Calls, Vault!Saved(c) PROVE VaultCalls'
  BY <1>0, <1>18, <1>21 DEF Vault!Saved, Vault!vault
<1>22. ASSUME NEW c \in Calls, Vault!Loaded(c) PROVE VaultCalls'
  BY <1>0, <1>18, <1>22 DEF Vault!Loaded, Vault!vault
<1>23. ASSUME NEW c \in Calls, Vault!Reopened(c) PROVE VaultCalls'
  <2>1. /\ vaultCalls[c] \in Asking /\ vaultCalls[c].pc = "resumed" /\ vaultCalls[c].op = "reopen"
        /\ UNCHANGED <<ready, opened, isUnlocked>> /\ userId \in People /\ unlocking = None /\ ready
        /\ \A d \in Calls : d # c => vaultCalls[d].pc = "idle" /\ vaultCalls[d] = Vault!Idle
    BY <1>0, <1>2, <1>3, <1>23 DEF Vault!Reopened, Vault!Resumed, Alone, Vault!Idle, Vault!vault
  <2>2. CASE isUnlocked
    <3>1. /\ unlocking' = unlocking
          /\ vaultCalls' = [vaultCalls EXCEPT ![c].op = "mark"]
      BY <1>23, <2>2 DEF Vault!Reopened
    <3>2. /\ \A d \in Calls : d # c => vaultCalls'[d] = Vault!Idle
          /\ vaultCalls'[c].pc = "resumed"
      BY <2>1, <3>1, <1>3 DEF Asking
    <3> QED BY <2>1, <2>2, <3>1, <3>2 DEF Vault!Idle, Alone
  <2>3. CASE ~isUnlocked
    <3>1. /\ unlocking' = [user |-> userId, pass |-> Default]
          /\ vaultCalls' = [vaultCalls EXCEPT ![c].op = "mark", ![c].pc = "unlocking"]
      BY <1>1, <1>23, <2>1, <2>3 DEF Vault!Reopened, Vault!Unlock
    <3>2. /\ \A d \in Calls : d # c => vaultCalls'[d] = Vault!Idle
          /\ vaultCalls'[c].pc = "unlocking"
      BY <2>1, <3>1, <1>3 DEF Asking
    <3>3. unlocking' # None BY <2>1, <3>1
    <3> QED BY <2>1, <3>2, <3>3 DEF Vault!Idle, Alone
  <2> QED BY <2>2, <2>3
<1>24. ASSUME NEW c \in Calls, Vault!Marked(c) PROVE VaultCalls'
  BY <1>0, <1>18, <1>24 DEF Vault!Marked, Vault!vault
<1>25. ASSUME NEW c \in Calls, Vault!Disabled(c) PROVE VaultCalls'
  <2>1. /\ \A d \in Calls : d # c => vaultCalls[d] = Vault!Idle
        /\ opened' \in {opened, None} /\ UNCHANGED <<ready, unlocking>>
    BY <1>0, <1>2, <1>25, Zenon DEF Vault!Disabled, Vault!Resumed, Alone, Vault!LeftSession
  <2>2. \A d \in Calls : vaultCalls'[d] = Vault!Idle
    BY <1>3, <1>25, <2>1 DEF Vault!Disabled, Vault!Ends
  <2> QED BY <1>0, <2>1, <2>2 DEF Vault!Idle, Alone
<1> QED
  BY <1>6, <1>7, <1>8, <1>9, <1>10, <1>11, <1>12, <1>13, <1>14, <1>15, <1>16, <1>17,
     <1>19, <1>20, <1>21, <1>22, <1>23, <1>24, <1>25 DEF Vault!Next

(* No step leaves the flag up with another key, writes what the marker's key *)
(* does not open, or replaces a marker behind the user's back.               *)
SealedStep ==
  \A u \in People :
    /\ kv'[u] \notin {kv[u], None} => kv'[u] = vaultMarker[u] \/ vaultMarker[u] = None
    /\ ls'[u] \notin {ls[u], None} => ls'[u] = vaultMarker[u] \/ vaultMarker[u] = None

MarkerStep ==
  \A u \in People : vaultMarker[u] # None /\ vaultMarker'[u] # vaultMarker[u] =>
    vaultMarker'[u] = None \/ \E c \in Calls : vaultCalls[c].op = "mark"

(* Every step of the vault keeps all three.                                  *)
LEMMA VaultSteps ==
  VaultInv /\ Vault!Next => /\ SealedStep
                            /\ MarkerStep
                            /\ Vault!FlagMeansKey'
<1> SUFFICES ASSUME VaultInv, Vault!Next PROVE SealedStep /\ MarkerStep /\ Vault!FlagMeansKey'
  OBVIOUS
<1> DEFINE Good == SealedStep /\ MarkerStep /\ Vault!FlagMeansKey'
<1>0. Vault!TypeOK BY DEF VaultInv
<1>1. Vault!Current = userId /\ (userId # None => userId \in People)
  BY VaultCurrent
<1>2. \A c \in Calls : vaultCalls[c].pc # "idle" => userId \in People
  BY <1>1 DEF VaultInv, VaultUsers
<1>3. isUnlocked => userId \in People /\ (vaultMarker[userId] # None => vaultKey = vaultMarker[userId])
  BY <1>1 DEF VaultInv, VaultUsers, Vault!FlagMeansKey
<1>4. unlocking # None => userId \in People
  BY <1>1 DEF VaultInv, VaultUsers
<1>5. \A c \in Calls : vaultCalls[c].pc = "resumed" /\ vaultCalls[c].ok => isUnlocked
  BY DEF VaultInv, VaultCalls
<1>6. VaultUsers' /\ Vault!TypeOK'
  BY VaultUsersStep, VaultTypes
<1>7. Vault!Current' = userId' /\ (isUnlocked' => userId' \in People)
  BY <1>6 DEF VaultUsers, Vault!TypeOK, Vault!Current
(* Steps that leave what is stored alone.                                    *)
<1>8. ASSUME UNCHANGED <<vaultMarker, kv, ls>>,
             isUnlocked' => isUnlocked /\ vaultKey' = vaultKey /\ userId' = userId
      PROVE  Good
  BY <1>0, <1>3, <1>7, <1>8 DEF SealedStep, MarkerStep, Vault!FlagMeansKey
(* Steps that may store the key of an open vault.                            *)
<1>9. ASSUME UNCHANGED <<vaultMarker, isUnlocked, vaultKey, userId>>,
             \/ isUnlocked /\ Vault!Put(userId, vaultKey)
             \/ UNCHANGED <<kv, ls>>
      PROVE  Good
  <2>1. SealedStep
    BY <1>0, <1>3, <1>9 DEF SealedStep, Vault!Put, Vault!TypeOK
  <2> QED BY <1>0, <1>3, <1>7, <1>9, <2>1 DEF MarkerStep, Vault!FlagMeansKey
<1>10. CASE Vault!BridgeReady
  BY <1>8, <1>10 DEF Vault!BridgeReady, Vault!vault, Vault!disk
<1>11. CASE Vault!BridgeFails
  BY <1>8, <1>11 DEF Vault!BridgeFails, Vault!vault, Vault!disk
<1>12. CASE Vault!DoUnlock
  <2>1. userId \in People /\ UNCHANGED <<userId, kv, ls>>
    BY <1>4, <1>12 DEF Vault!DoUnlock
  <2>2. \/ /\ vaultMarker[userId] = None
           /\ vaultMarker' = [vaultMarker EXCEPT ![userId] = vaultKey']
        \/ /\ vaultMarker[userId] # None
           /\ vaultMarker' = [vaultMarker EXCEPT ![userId] = vaultMarker[userId]]
           /\ isUnlocked' = (vaultMarker[userId] = vaultKey')
    BY <1>1, <1>12 DEF Vault!DoUnlock, Vault!Outcome
  <2>3. Vault!FlagMeansKey'
    BY <1>0, <1>7, <2>1, <2>2 DEF Vault!FlagMeansKey, Vault!TypeOK
  <2>4. SealedStep /\ MarkerStep
    BY <1>0, <2>1, <2>2 DEF SealedStep, MarkerStep, Vault!TypeOK
  <2> QED BY <2>3, <2>4
<1>13. CASE Vault!Save
  BY <1>1, <1>9, <1>13 DEF Vault!Save, Vault!vault
<1>14. CASE Vault!Logout
  BY <1>8, <1>14 DEF Vault!Logout, Vault!LeftSession, Vault!disk
<1>15. CASE Vault!Forget
  BY <1>0, <1>7, <1>15 DEF Vault!Forget, Vault!vault, SealedStep, MarkerStep, Vault!FlagMeansKey
<1>16. ASSUME NEW b \in Calls, NEW f \in Calls, Vault!Reload(b, f) PROVE Good
  BY <1>8, <1>16 DEF Vault!Reload, Vault!disk
<1>17. ASSUME NEW c \in Calls, NEW u \in People, NEW p \in Passwords,
              NEW op \in {"login", "register"}, Vault!Enter(c, op, u, p)
       PROVE  Good
  BY <1>8, <1>17 DEF Vault!Enter, Vault!SetUserId, Vault!disk
<1>18. ASSUME NEW c \in Calls, NEW p \in Passwords,
              NEW op \in {"change", "disable"}, Vault!Confirm(c, op, p)
       PROVE  Good
  BY <1>8, <1>18 DEF Vault!Confirm, Vault!disk, Vault!vault
<1>19. ASSUME NEW c \in Calls, NEW op \in {"save", "load"}, Vault!Background(c, op)
       PROVE  Good
  BY <1>8, <1>19 DEF Vault!Background, Vault!disk, Vault!vault
<1>20. ASSUME NEW c \in Calls, NEW p \in Passwords, Vault!ChangeStarted(c, p)
       PROVE  Good
  BY <1>8, <1>20 DEF Vault!ChangeStarted, Vault!disk, Vault!vault
<1>21. ASSUME NEW c \in Calls, Vault!Opened(c) PROVE Good
  BY <1>8, <1>21 DEF Vault!Opened, Vault!disk, Vault!vault
<1>22. ASSUME NEW c \in Calls, Vault!Registered(c) PROVE Good
  BY <1>1, <1>9, <1>22 DEF Vault!Registered, Vault!vault
<1>23. ASSUME NEW c \in Calls, Vault!RegisterRefused(c) PROVE Good
  BY <1>8, <1>23 DEF Vault!RegisterRefused, Vault!disk, Vault!vault
<1>24. ASSUME NEW c \in Calls, Vault!Saved(c) PROVE Good
  BY <1>1, <1>5, <1>9, <1>24 DEF Vault!Saved, Vault!Resumed, Vault!vault
<1>25. ASSUME NEW c \in Calls, Vault!Loaded(c) PROVE Good
  <2>1. UNCHANGED <<vaultMarker, isUnlocked, vaultKey, userId>>
        /\ \/ /\ isUnlocked
              /\ kv' = [kv EXCEPT ![userId] = vaultKey] /\ ls' = [ls EXCEPT ![userId] = None]
           \/ UNCHANGED <<kv, ls>>
    BY <1>1, <1>5, <1>25 DEF Vault!Loaded, Vault!Resumed, Vault!vault
  <2>2. SealedStep
    BY <1>0, <1>3, <2>1 DEF SealedStep, Vault!TypeOK
  <2> QED BY <1>0, <1>3, <1>7, <2>1, <2>2 DEF MarkerStep, Vault!FlagMeansKey
<1>26. ASSUME NEW c \in Calls, Vault!Reopened(c) PROVE Good
  BY <1>1, <1>9, <1>26 DEF Vault!Reopened, Vault!vault
<1>27. ASSUME NEW c \in Calls, Vault!Marked(c) PROVE Good
  <2>1. UNCHANGED <<isUnlocked, vaultKey, userId, kv, ls>> /\ userId \in People
        /\ vaultCalls[c].op = "mark"
        /\ \/ vaultMarker' = [vaultMarker EXCEPT ![userId] = vaultKey]
           \/ UNCHANGED vaultMarker
    BY <1>1, <1>2, <1>27 DEF Vault!Marked, Vault!Resumed, Vault!vault
  <2> QED
    BY <1>0, <1>3, <1>7, <2>1 DEF SealedStep, MarkerStep, Vault!FlagMeansKey, Vault!TypeOK
<1>28. ASSUME NEW c \in Calls, Vault!Disabled(c) PROVE Good
  <2>1. CASE vaultCalls[c].ok
    <3>1. userId \in People /\ UNCHANGED userId /\ isUnlocked' = FALSE
          /\ kv' = [kv EXCEPT ![userId] = None] /\ ls' = [ls EXCEPT ![userId] = None]
          /\ vaultMarker' = [vaultMarker EXCEPT ![userId] = None]
      BY <1>1, <1>2, <1>28, <2>1 DEF Vault!Disabled, Vault!Resumed, Vault!LeftSession
    <3> QED
      BY <1>0, <3>1 DEF SealedStep, MarkerStep, Vault!FlagMeansKey, Vault!TypeOK
  <2>2. CASE ~vaultCalls[c].ok
    BY <1>8, <1>28, <2>2 DEF Vault!Disabled, Vault!vault, Vault!disk
  <2> QED BY <2>1, <2>2
<1> QED
  BY <1>10, <1>11, <1>12, <1>13, <1>14, <1>15, <1>16, <1>17, <1>18, <1>19, <1>20, <1>21,
     <1>22, <1>23, <1>24, <1>25, <1>26, <1>27, <1>28 DEF Vault!Next

-----------------------------------------------------------------------------
(* The lists of a login.                                                     *)
Freed == {"filtered", "shown", "in"}

SessionInv ==
  /\ Login!TypeOK
  /\ sessionList.data \subseteq sessionList.names
  /\ writing => phase \in {"filtered", "in"} /\ disk.names = sessionList.names
  /\ phase = "loaded" =>
       /\ sessionList.names \subseteq disk.names \cup disk.data
       /\ sessionList.data \subseteq disk.data
  /\ phase \in Freed => Self \notin sessionList.names
  /\ phase \in {"loaded"} \cup Freed /\ ~hiccup /\ ~writing => sessionList = Login!Joined(disk)
  /\ Self \in disk.names => Self \in disk.data
  /\ phase = "filtered" /\ writing => Self \in disk.data

(* Two lists are the same when their names and their data are.               *)
LEMMA SameLists ==
  ASSUME NEW a \in Login!Lists, NEW b \in Login!Lists, a.names = b.names, a.data = b.data
  PROVE  a = b
BY DEF Login!Lists

(* A page opens with it.                                                     *)
LEMMA SessionInit == Login!Init => SessionInv
<1> SUFFICES ASSUME Login!Init PROVE SessionInv
  OBVIOUS
<1>1. /\ disk \in Login!Lists /\ disk.names = disk.data
      /\ sessionList = [names |-> {}, data |-> {}]
      /\ sessionList \in Login!Lists
  BY DEF Login!Init, Login!Lists, Login!Empty
<1>2. view = "auth" /\ phase = "out" /\ cached = FALSE /\ writing = FALSE /\ hiccup = FALSE
  BY DEF Login!Init
<1>3. Login!TypeOK BY <1>1, <1>2 DEF Login!TypeOK
<1>4. sessionList.data \subseteq sessionList.names BY <1>1
<1> QED BY <1>1, <1>2, <1>3, <1>4 DEF SessionInv, Freed

LoginStep == phase # "in" /\ Self \notin disk.names \cup disk.data => disk' = disk

(* Every step keeps it, and no step before the session is open writes.       *)
LEMMA SessionStep ==
  SessionInv /\ [Login!Next]_sessionVars => SessionInv' /\ LoginStep
<1> SUFFICES ASSUME SessionInv, [Login!Next]_sessionVars PROVE SessionInv' /\ LoginStep
  OBVIOUS
<1> USE DEF SessionInv, Login!TypeOK
<1>0. /\ disk \in Login!Lists /\ sessionList \in Login!Lists
      /\ disk = [names |-> disk.names, data |-> disk.data]
      /\ sessionList = [names |-> sessionList.names, data |-> sessionList.data]
  BY DEF Login!Lists
<1>1. \A l \in Login!Lists, p \in People \cup {Self} :
        /\ Login!Joined(l) \in Login!Lists /\ Login!Without(l, p) \in Login!Lists
        /\ Login!Joined(l).names = l.names \cup l.data /\ Login!Joined(l).data = l.data
        /\ Login!Without(l, p).names = l.names \ {p} /\ Login!Without(l, p).data = l.data \ {p}
  BY DEF Login!Lists, Login!Joined, Login!Without
<1>3. CASE UNCHANGED sessionVars
  BY <1>3 DEF sessionVars, LoginStep, Login!Joined
<1>4. CASE Login!WriteData
  <2>1. /\ disk' \in Login!Lists /\ disk'.names = sessionList.names /\ disk'.data = sessionList.data
        /\ UNCHANGED <<view, phase, cached, sessionList, hiccup>> /\ writing' = FALSE
        /\ phase \in {"filtered", "in"}
    BY <1>0, <1>4 DEF Login!WriteData, Login!Lists
  <2>2. Login!Joined(disk') = sessionList
    <3>1. sessionList.names \cup sessionList.data = sessionList.names OBVIOUS
    <3>2. Login!Joined(disk') \in Login!Lists /\ Login!Joined(disk').names = sessionList.names
          /\ Login!Joined(disk').data = sessionList.data
      <4> DEFINE d == disk'
      <4>1. d \in Login!Lists /\ d.names = sessionList.names /\ d.data = sessionList.data BY <2>1
      <4> HIDE DEF d
      <4>2. Login!Joined(d) \in Login!Lists /\ Login!Joined(d).names = sessionList.names
            /\ Login!Joined(d).data = sessionList.data
        BY <1>1, <3>1, <4>1 DEF Login!Lists
      <4> QED BY <4>2 DEF d
    <3> QED BY <1>0, <3>2, SameLists
  <2> QED BY <1>4, <2>1, <2>2 DEF LoginStep, Freed, Login!WriteData, Login!Joined
<1>5. CASE Login!Login
  BY <1>5 DEF Login!Login, LoginStep, Freed
<1>6. CASE Login!Load
  <2>1. PICK ns \in {disk.names, {}}, ds \in {disk.data, {}} :
          sessionList' = Login!Joined([names |-> ns, data |-> ds])
    BY <1>6 DEF Login!Load
  <2>2. [names |-> ns, data |-> ds] \in Login!Lists
    BY <1>0 DEF Login!Lists
  <2>3. /\ sessionList' \in Login!Lists /\ sessionList'.names = ns \cup ds
        /\ sessionList'.data = ds
    BY <1>1, <2>1, <2>2
  <2>4. /\ UNCHANGED <<view, cached, disk, writing>> /\ phase = "loading" /\ phase' = "loaded"
        /\ hiccup' = (sessionList' # Login!Joined(disk)) /\ ~writing
    BY <1>6 DEF Login!Load
  <2>5. hiccup' \in BOOLEAN /\ (~hiccup' => sessionList' = Login!Joined(disk'))
    BY <2>4 DEF Login!Joined
  <2> QED BY <1>0, <2>3, <2>4, <2>5 DEF LoginStep, Freed
<1>7. CASE Login!Filter
  <2>1. /\ sessionList' = Login!Without(sessionList, Self)
        /\ phase = "loaded" /\ phase' = "filtered" /\ UNCHANGED <<view, cached, hiccup>>
        /\ ~writing
    BY <1>7 DEF Login!Filter
  <2>2. /\ sessionList' \in Login!Lists /\ sessionList'.names = sessionList.names \ {Self}
        /\ sessionList'.data = sessionList.data \ {Self}
    BY <1>0, <1>1, <2>1
  <2>3. CASE sessionList' # sessionList
    <3>1. Self \in sessionList.names
      <4> SUFFICES ASSUME Self \notin sessionList.names PROVE FALSE
        OBVIOUS
      <4>1. sessionList.names \ {Self} = sessionList.names OBVIOUS
      <4>2. sessionList.data \ {Self} = sessionList.data OBVIOUS
      <4> QED BY <1>0, <2>2, <2>3, <4>1, <4>2, SameLists
    <3>2. Self \in disk.data
      BY <2>1, <3>1
    <3>3. Login!SaveNames BY <1>7, <2>3 DEF Login!Filter
    <3>4. /\ disk' \in Login!Lists /\ writing' = TRUE
          /\ disk'.names = sessionList'.names /\ disk'.data = disk.data
      BY <1>0, <2>2, <3>3 DEF Login!SaveNames, Login!Lists
    <3> QED BY <2>1, <2>2, <3>2, <3>4 DEF LoginStep, Freed
  <2>4. CASE sessionList' = sessionList
    <3>1. UNCHANGED <<disk, writing>> BY <1>7, <2>4 DEF Login!Filter
    <3> QED BY <2>1, <2>2, <2>4, <3>1 DEF LoginStep, Freed, Login!Joined
  <2> QED BY <2>3, <2>4
<1>8. CASE Login!Shown
  BY <1>8 DEF Login!Shown, LoginStep, Freed, Login!Joined
<1>9. CASE Login!Aborted
  BY <1>9 DEF Login!Aborted, LoginStep, Freed
<1>10. CASE Login!ImportFails
  BY <1>10 DEF Login!ImportFails, LoginStep, Freed
<1>11. CASE Login!Enter
  BY <1>11 DEF Login!Enter, LoginStep, Freed, Login!Joined
<1>12. CASE Login!Logout
  BY <1>12 DEF Login!Logout, LoginStep, Freed, Login!Empty, Login!Lists
<1>13. CASE Login!Reload
  BY <1>13 DEF Login!Reload, LoginStep, Freed, Login!Empty, Login!Lists
<1>14. ASSUME NEW p \in (People \cup {Self}) \ {Self}, Login!Accept(p) \/ Login!Remove(p)
       PROVE  SessionInv' /\ LoginStep
  <2>1. /\ sessionList' \in Login!Lists /\ sessionList'.data \subseteq sessionList'.names
        /\ Self \notin sessionList'.names
        /\ phase = "in" /\ Login!SaveNames /\ UNCHANGED <<view, phase, cached, hiccup>>
    BY <1>0, <1>1, <1>14 DEF Login!Accept, Login!Remove, Login!Lists, Freed
  <2>2. /\ disk' \in Login!Lists /\ writing' = TRUE
        /\ disk'.names = sessionList'.names /\ disk'.data = disk.data
    BY <1>0, <2>1 DEF Login!SaveNames, Login!Lists
  <2> QED BY <2>1, <2>2 DEF LoginStep, Freed
<1> QED
  BY <1>3, <1>4, <1>5, <1>6, <1>7, <1>8, <1>9, <1>10, <1>11, <1>12, <1>13, <1>14
  DEF Login!Next

(* The contacts shown are those stored.                                      *)
LEMMA SessionHolds == SessionInv => Login!TypeOK /\ Login!StoredAsShown
BY DEF SessionInv, Login!StoredAsShown, Freed

-----------------------------------------------------------------------------
(* The recovery from the cloud. The object remembers a phrase with its user; *)
(* a generation is for the open session; while nothing was switched or       *)
(* muddled, the phrase remembered and the marker of this device are proven,  *)
(* and what a backup has read is of one user.                                *)
CloudMemory ==
  /\ mnemonic = None <=> rsUser = None
  /\ \A c \in Uploads : cloudCalls[c].pc # "idle" => mnemonic # None
  /\ gen.pc # "none" => gen.user = user /\ user # None
  /\ gen.pc \in {"showing", "proving"} => gen.phrase # None
  /\ \A u \in People : proof[u] # None => proof[u] \in proven[u]

CloudPhrases ==
  /\ ~switched /\ ~muddled /\ mnemonic # None => mnemonic \in proven[rsUser]
  /\ ~muddled => \A u \in People : cloudMarker[u] # None =>
       \/ cloudMarker[u] \in proven[u]
       \/ gen.pc \in {"showing", "proving"} /\ gen.user = u /\ gen.phrase = cloudMarker[u]

CloudBackups ==
  \A c \in Uploads :
    /\ ~switched /\ cloudCalls[c].pc # "idle" /\ user # None => cloudCalls[c].of = user
    /\ cloudCalls[c].pc = "sealed" =>
         /\ cloudCalls[c].phrase # None /\ cloudCalls[c].by # None
         /\ ~switched /\ cloudCalls[c].to # None => cloudCalls[c].by = cloudCalls[c].to
         /\ ~switched /\ ~muddled => cloudCalls[c].phrase \in proven[cloudCalls[c].by]

CloudInv ==
  /\ Cloud!TypeOK
  /\ Cloud!OneTimer
  /\ CloudMemory
  /\ ~switched => (user # None /\ mnemonic # None => rsUser = user)
  /\ CloudPhrases /\ CloudBackups
  /\ Cloud!BackupsCanBeOpened

(* A page opens with it.                                                     *)
LEMMA CloudInit == Cloud!Init => CloudInv
<1> SUFFICES ASSUME Cloud!Init PROVE CloudInv
  OBVIOUS
<1>1. Cloud!TypeOK
  BY DEF Cloud!Init, Cloud!TypeOK, Cloud!Idle, Cloud!NoGen, Cloud!MaybeUser, Cloud!MaybePhrase
<1>2. Cloud!OneTimer /\ CloudMemory
  BY DEF Cloud!Init, Cloud!OneTimer, CloudMemory, Cloud!Idle, Cloud!NoGen
<1> QED
  BY <1>1, <1>2 DEF Cloud!Init, CloudInv, CloudPhrases, CloudBackups,
    Cloud!BackupsCanBeOpened, Cloud!Idle, Cloud!NoGen

(* The state of one backup in progress.                                     *)
CloudCall == [pc : {"idle", "collected", "sealed"}, of : People \cup {None},
  phrase : Things \cup {None}, by : People \cup {None}, to : People \cup {None}]

(* A backup goes from one place to the next.                                 *)
LEMMA CallGoesOn ==
  ASSUME NEW r \in CloudCall, NEW u \in People \cup {None}, NEW v \in People \cup {None},
         NEW p \in Things \cup {None}
  PROVE  /\ [r EXCEPT !.pc = "collected", !.of = u] \in CloudCall
         /\ [r EXCEPT !.pc = "sealed", !.phrase = p, !.by = v, !.to = u] \in CloudCall
BY DEF CloudCall

(* Every step keeps it.                                                      *)
LEMMA CloudStep == CloudInv /\ [Cloud!Next]_cloudVars => CloudInv'
<1> SUFFICES ASSUME CloudInv, [Cloud!Next]_cloudVars PROVE CloudInv'
  OBVIOUS
<1> USE NoneAssumption DEF Cloud!OneTimer, Cloud!MaybeUser, Cloud!MaybePhrase,
  Cloud!memory, Cloud!timer, Cloud!server
<1>0. /\ Cloud!TypeOK /\ Cloud!OneTimer /\ CloudMemory /\ CloudPhrases /\ CloudBackups
      /\ Cloud!BackupsCanBeOpened
      /\ ~switched => (user # None /\ mnemonic # None => rsUser = user)
  BY DEF CloudInv
<1>1. /\ user \in People \cup {None} /\ rsUser \in People \cup {None}
      /\ mnemonic \in Things \cup {None}
      /\ cloudCalls \in [Uploads -> [pc : {"idle", "collected", "sealed"}, of : People \cup {None},
           phrase : Things \cup {None}, by : People \cup {None}, to : People \cup {None}]]
      /\ gen \in [pc : {"none", "begun", "showing", "proving"}, user : People \cup {None},
           phrase : Things \cup {None}, first : BOOLEAN]
      /\ cloudMarker \in [People -> Things \cup {None}]
  BY <1>0 DEF Cloud!TypeOK
<1>2. CASE UNCHANGED cloudVars
  BY <1>0, <1>2 DEF cloudVars, CloudInv, Cloud!TypeOK, CloudMemory, CloudPhrases, CloudBackups,
    Cloud!BackupsCanBeOpened
<1>3. CASE Cloud!Generate
  BY <1>0, <1>1, <1>3
  DEF CloudInv, Cloud!TypeOK, CloudMemory, CloudPhrases, CloudBackups, Cloud!BackupsCanBeOpened,
    Cloud!Generate, Cloud!NoGen
<1>4. CASE Cloud!Confirmed
  BY <1>0, <1>1, <1>4
  DEF CloudInv, Cloud!TypeOK, CloudMemory, CloudPhrases, CloudBackups, Cloud!BackupsCanBeOpened,
    Cloud!Confirmed
<1>5. CASE Cloud!ProofRegistered
  BY <1>0, <1>1, <1>5
  DEF CloudInv, Cloud!TypeOK, CloudMemory, CloudPhrases, CloudBackups, Cloud!BackupsCanBeOpened,
    Cloud!ProofRegistered, Cloud!StartAutoBackup, Cloud!Remembers, Cloud!NoGen
<1>6. CASE Cloud!GenerateFails
  BY <1>0, <1>1, <1>6
  DEF CloudInv, Cloud!TypeOK, CloudMemory, CloudPhrases, CloudBackups, Cloud!BackupsCanBeOpened,
    Cloud!GenerateFails, Cloud!NoGen
<1>7. CASE Cloud!Logout
  BY <1>0, <1>1, <1>7
  DEF CloudInv, Cloud!TypeOK, CloudMemory, CloudPhrases, CloudBackups, Cloud!BackupsCanBeOpened,
    Cloud!Logout, Cloud!NoGen
<1>8. ASSUME NEW u \in People, Cloud!Register(u)
  PROVE  CloudInv'
  BY <1>0, <1>1, <1>8
  DEF CloudInv, Cloud!TypeOK, CloudMemory, CloudPhrases, CloudBackups, Cloud!BackupsCanBeOpened,
    Cloud!Register, Cloud!Opens, Cloud!Idle, Cloud!NoGen
<1>9. ASSUME NEW u \in People, Cloud!Login(u)
  PROVE  CloudInv'
  BY <1>0, <1>1, <1>9
  DEF CloudInv, Cloud!TypeOK, CloudMemory, CloudPhrases, CloudBackups, Cloud!BackupsCanBeOpened,
    Cloud!Login, Cloud!StartAutoBackup, Cloud!Opens, Cloud!Idle, Cloud!NoGen
<1>10. ASSUME NEW p \in Things, Cloud!Marked(p)
  PROVE  CloudInv'
  <2>1. Cloud!TypeOK' /\ Cloud!OneTimer' /\ CloudMemory'
    BY <1>0, <1>1, <1>10 DEF CloudInv, Cloud!TypeOK, Cloud!OneTimer, CloudMemory, Cloud!Marked
  <2>2. gen.user \in People BY <1>0, <1>1, <1>10 DEF CloudMemory, Cloud!Marked
  <2>3. CloudPhrases' BY <1>0, <1>1, <1>10, <2>2 DEF Cloud!TypeOK, CloudPhrases, Cloud!Marked
  <2>4. CloudBackups' /\ Cloud!BackupsCanBeOpened'
    BY <1>0, <1>10 DEF CloudInv, CloudBackups, Cloud!BackupsCanBeOpened, Cloud!Marked
  <2> QED BY <1>0, <1>10, <2>1, <2>3, <2>4 DEF CloudInv, Cloud!Marked
<1>11. ASSUME NEW p \in Things, Cloud!Restore(p)
  PROVE  CloudInv'
  <2>1. /\ user \in People /\ gen.pc = "none" /\ cloudMarker[user] = p /\ p # None
        /\ mnemonic' = p /\ rsUser' = user
        /\ UNCHANGED <<user, cloudCalls, gen, fresh, cloudMarker, proof, proven, cloudCloud, kept,
                       switched, muddled>>
    <3>1. /\ user # None /\ gen = Cloud!NoGen /\ cloudMarker[user] = p
          /\ mnemonic' = p /\ rsUser' = user
          /\ UNCHANGED <<user, cloudCalls, gen, fresh, cloudMarker, proof, proven, cloudCloud, kept,
                         switched, muddled>>
      BY <1>11, Zenon DEF Cloud!Restore, Cloud!Remembers
    <3>2. gen.pc = "none" /\ user \in People BY <1>1, <3>1 DEF Cloud!NoGen
    <3> QED BY <1>11, <3>1, <3>2
  <2>2. ~muddled => p \in proven[user]
    BY <1>0, <2>1 DEF CloudPhrases
  <2>3. /\ timers' = (IF running' THEN 1 ELSE 0) /\ timers' \in Nat /\ running' \in BOOLEAN
    <3>1. \/ running' = TRUE /\ timers' = (IF running THEN timers ELSE timers + 1)
          \/ running' = running /\ timers' = timers
      BY <1>11 DEF Cloud!Restore, Cloud!StartAutoBackup
    <3>2. running \in BOOLEAN /\ timers = (IF running THEN 1 ELSE 0)
      BY <1>0 DEF Cloud!TypeOK
    <3>3. timers \in {0, 1} /\ (running = TRUE => timers = 1) /\ (running = FALSE => timers = 0)
      BY <3>2
    <3>4. CASE running' = TRUE /\ timers' = 1 BY <3>4
    <3>5. CASE running' = running /\ timers' = timers BY <3>2, <3>3, <3>5
    <3>6. (IF running THEN timers ELSE timers + 1) = 1
      <4>1. CASE running = TRUE BY <3>3, <4>1
      <4>2. CASE running = FALSE BY <3>3, <4>2
      <4> QED BY <3>2, <4>1, <4>2
    <3> QED BY <3>1, <3>4, <3>5, <3>6
  <2>4. Cloud!TypeOK' BY <1>0, <2>1, <2>3 DEF Cloud!TypeOK
  <2>5. CloudMemory' /\ CloudPhrases'
    BY <1>0, <2>1, <2>2 DEF CloudMemory, CloudPhrases
  <2>6. CloudBackups' /\ Cloud!BackupsCanBeOpened'
    BY <1>0, <2>1 DEF CloudBackups, Cloud!BackupsCanBeOpened
  <2> QED BY <2>1, <2>3, <2>4, <2>5, <2>6 DEF CloudInv
<1>12. ASSUME NEW u \in People, NEW p \in Things, Cloud!RestorePreAuth(u, p)
  PROVE  CloudInv'
  BY <1>0, <1>1, <1>12
  DEF CloudInv, Cloud!TypeOK, CloudMemory, CloudPhrases, CloudBackups, Cloud!BackupsCanBeOpened,
    Cloud!RestorePreAuth, Cloud!StartAutoBackup, Cloud!Remembers, Cloud!Recovered, Cloud!Opens, Cloud!Idle, Cloud!NoGen
<1>13. ASSUME NEW u \in People, NEW p \in Things, Cloud!RestoreGivenUp(u, p)
  PROVE  CloudInv'
  BY <1>0, <1>1, <1>13
  DEF CloudInv, Cloud!TypeOK, CloudMemory, CloudPhrases, CloudBackups, Cloud!BackupsCanBeOpened,
    Cloud!RestoreGivenUp, Cloud!Remembers, Cloud!Recovered, Cloud!NoGen
<1>14. ASSUME NEW c \in Uploads, Cloud!Backup(c)
  PROVE  CloudInv'
  <2>1. /\ cloudCalls' = [cloudCalls EXCEPT ![c].pc = "collected", ![c].of = user]
        /\ mnemonic # None
        /\ UNCHANGED <<user, mnemonic, rsUser, running, timers, gen, fresh, cloudMarker, proof, proven,
                       cloudCloud, kept, switched, muddled>>
    BY <1>14 DEF Cloud!Backup
  <2>6. cloudCalls' \in [Uploads -> CloudCall]
    <3> DEFINE call == [cloudCalls[c] EXCEPT !.pc = "collected", !.of = user]
    <3>0. cloudCalls[c] \in CloudCall BY <1>1 DEF CloudCall
    <3>1. call \in CloudCall BY <1>1, <3>0, CallGoesOn
    <3>2. cloudCalls' = [cloudCalls EXCEPT ![c] = call] BY <1>1, <1>14, <2>1
    <3> QED BY <1>1, <3>1, <3>2 DEF CloudCall
  <2>2. \A d \in Uploads :
          \/ cloudCalls'[d] = cloudCalls[d]
          \/ cloudCalls'[d].pc = "collected" /\ cloudCalls'[d].of = user
    BY <1>1, <2>1
  <2>3. Cloud!TypeOK' BY <1>0, <2>1, <2>6 DEF Cloud!TypeOK, CloudCall
  <2>4. CloudMemory' /\ CloudPhrases' BY <1>0, <2>1 DEF CloudMemory, CloudPhrases
  <2>5. CloudBackups'
    <3> SUFFICES ASSUME NEW d \in Uploads
                 PROVE  /\ ~switched' /\ cloudCalls'[d].pc # "idle" /\ user' # None => cloudCalls'[d].of = user'
                        /\ cloudCalls'[d].pc = "sealed" =>
                             /\ cloudCalls'[d].phrase # None /\ cloudCalls'[d].by # None
                             /\ ~switched' /\ cloudCalls'[d].to # None => cloudCalls'[d].by = cloudCalls'[d].to
                             /\ ~switched' /\ ~muddled' => cloudCalls'[d].phrase \in proven'[cloudCalls'[d].by]
      BY DEF CloudBackups
    <3>1. CASE cloudCalls'[d] = cloudCalls[d] BY <1>0, <2>1, <3>1 DEF CloudBackups
    <3>2. CASE cloudCalls'[d].pc = "collected" /\ cloudCalls'[d].of = user BY <2>1, <3>2
    <3> QED BY <2>2, <3>1, <3>2
  <2> QED BY <1>0, <2>1, <2>3, <2>4, <2>5 DEF CloudInv, Cloud!BackupsCanBeOpened
<1>15. ASSUME NEW c \in Uploads, Cloud!Sealed(c)
  PROVE  CloudInv'
  <2>1. /\ cloudCalls' = [cloudCalls EXCEPT ![c].pc = "sealed", ![c].phrase = mnemonic,
                                           ![c].by = rsUser, ![c].to = user]
        /\ cloudCalls[c].pc = "collected"
        /\ UNCHANGED <<user, mnemonic, rsUser, running, timers, gen, fresh, cloudMarker, proof, proven,
                       cloudCloud, kept, switched, muddled>>
    BY <1>15 DEF Cloud!Sealed
  <2>2. mnemonic # None /\ rsUser # None BY <1>0, <2>1 DEF CloudMemory
  <2>7. cloudCalls' \in [Uploads -> CloudCall]
    <3> DEFINE call == [cloudCalls[c] EXCEPT !.pc = "sealed", !.phrase = mnemonic,
                          !.by = rsUser, !.to = user]
    <3>0. cloudCalls[c] \in CloudCall BY <1>1 DEF CloudCall
    <3>1. call \in CloudCall BY <1>1, <3>0, CallGoesOn
    <3>2. cloudCalls' = [cloudCalls EXCEPT ![c] = call] BY <1>1, <1>15, <2>1
    <3> QED BY <1>1, <3>1, <3>2 DEF CloudCall
  <2>3. \A d \in Uploads :
          \/ cloudCalls'[d] = cloudCalls[d]
          \/ /\ cloudCalls[d].pc = "collected"
             /\ cloudCalls'[d].pc = "sealed" /\ cloudCalls'[d].of = cloudCalls[d].of
             /\ cloudCalls'[d].phrase = mnemonic /\ cloudCalls'[d].by = rsUser
             /\ cloudCalls'[d].to = user
    BY <1>1, <2>1
  <2>4. Cloud!TypeOK' BY <1>0, <2>1, <2>7 DEF Cloud!TypeOK, CloudCall
  <2>5. CloudMemory' /\ CloudPhrases' BY <1>0, <2>1, <2>2 DEF CloudMemory, CloudPhrases
  <2>6. CloudBackups'
    <3> SUFFICES ASSUME NEW d \in Uploads
                 PROVE  /\ ~switched' /\ cloudCalls'[d].pc # "idle" /\ user' # None => cloudCalls'[d].of = user'
                        /\ cloudCalls'[d].pc = "sealed" =>
                             /\ cloudCalls'[d].phrase # None /\ cloudCalls'[d].by # None
                             /\ ~switched' /\ cloudCalls'[d].to # None => cloudCalls'[d].by = cloudCalls'[d].to
                             /\ ~switched' /\ ~muddled' => cloudCalls'[d].phrase \in proven'[cloudCalls'[d].by]
      BY DEF CloudBackups
    <3>1. CASE cloudCalls'[d] = cloudCalls[d] BY <1>0, <2>1, <3>1 DEF CloudBackups
    <3>2. CASE cloudCalls'[d] # cloudCalls[d]
      <4>1. /\ cloudCalls[d].pc = "collected"
            /\ cloudCalls'[d].pc = "sealed" /\ cloudCalls'[d].of = cloudCalls[d].of
            /\ cloudCalls'[d].phrase = mnemonic /\ cloudCalls'[d].by = rsUser
            /\ cloudCalls'[d].to = user
        BY <2>3, <3>2
      <4>2. ~switched /\ user # None => cloudCalls[d].of = user
        BY <1>0, <4>1 DEF CloudBackups
      <4>3. ~switched /\ ~muddled => mnemonic \in proven[rsUser]
        BY <1>0, <2>2 DEF CloudPhrases
      <4>4. ~switched /\ user # None => rsUser = user
        BY <1>0, <2>2
      <4> QED BY <2>1, <2>2, <4>1, <4>2, <4>3, <4>4
    <3> QED BY <3>1, <3>2
  <2> QED BY <1>0, <2>1, <2>4, <2>5, <2>6 DEF CloudInv, Cloud!BackupsCanBeOpened
<1>16. ASSUME NEW c \in Uploads, Cloud!Uploaded(c)
  PROVE  CloudInv'
  BY <1>0, <1>1, <1>16
  DEF CloudInv, Cloud!TypeOK, CloudMemory, CloudPhrases, CloudBackups, Cloud!BackupsCanBeOpened,
    Cloud!Uploaded, Cloud!Ends, Cloud!Idle
<1>17. ASSUME NEW c \in Uploads, Cloud!UploadRefused(c)
  PROVE  CloudInv'
  BY <1>0, <1>1, <1>17
  DEF CloudInv, Cloud!TypeOK, CloudMemory, CloudPhrases, CloudBackups, Cloud!BackupsCanBeOpened,
    Cloud!UploadRefused, Cloud!Ends, Cloud!Idle
<1>18. ASSUME NEW lost \in BOOLEAN, Cloud!Reload(lost)
  PROVE  CloudInv'
  BY <1>0, <1>1, <1>18
  DEF CloudInv, Cloud!TypeOK, CloudMemory, CloudPhrases, CloudBackups, Cloud!BackupsCanBeOpened,
    Cloud!Reload, Cloud!Idle, Cloud!NoGen
<1> QED
  BY <1>2, <1>3, <1>4, <1>5, <1>6, <1>7, <1>8, <1>9, <1>10, <1>11, <1>12, <1>13, <1>14, <1>15, <1>16, <1>17, <1>18 DEF Cloud!Next

-----------------------------------------------------------------------------
(* Counting up to N reaches every number up to N: an induction over a set,   *)
(* by its smallest exception.                                                *)
LEMMA Counting ==
  ASSUME NEW N \in Nat, NEW T, 0 \in T, \A n \in 0..N : n \in T /\ n < N => n + 1 \in T
  PROVE  \A n \in 0..N : n \in T
<1> DEFINE X == {n \in 0..N : n \notin T}
<1> DEFINE R == OpToRel(<, Nat)
<1> SUFFICES ASSUME X # {} PROVE FALSE
  OBVIOUS
<1>1. PICK x \in X : \A y \in X : ~(<<y, x>> \in R)
  <2>1. IsWellFoundedOn(R, Nat) BY NatLessThanWellFounded
  <2>2. X \subseteq Nat OBVIOUS
  <2> HIDE DEF X, R
  <2> QED BY <2>1, <2>2, WFMin
<1>2. x # 0 /\ x - 1 \in 0..N OBVIOUS
<1>3. <<x - 1, x>> \in R BY <1>2 DEF OpToRel
<1>4. x - 1 \in T BY <1>1, <1>2, <1>3
<1> QED BY <1>2, <1>4

(* What is in a sequence.                                                    *)
LEMMA InSequence ==
  ASSUME NEW S, NEW s \in Seq(S)
  PROVE  /\ \A x : x \in Versions!ToSet(s) <=> \E k \in 1..Len(s) : s[k] = x
         /\ Versions!ToSet(s) \subseteq S
BY DEF Versions!ToSet

(* What is in a sequence with one more entry.                                *)
LEMMA InAppend ==
  ASSUME NEW S, NEW s \in Seq(S), NEW e \in S
  PROVE  /\ Append(s, e) \in Seq(S)
         /\ \A x : x \in Versions!ToSet(Append(s, e)) <=> x \in Versions!ToSet(s) \/ x = e
<1>1. Append(s, e) \in Seq(S) /\ Len(Append(s, e)) = Len(s) + 1 /\ Len(s) \in Nat
  OBVIOUS
<1>2. \A k \in 1..Len(s) : Append(s, e)[k] = s[k] OBVIOUS
<1>3. Append(s, e)[Len(s) + 1] = e OBVIOUS
<1>4. \A x : (\E k \in 1..(Len(s) + 1) : Append(s, e)[k] = x) <=>
             (\E k \in 1..Len(s) : s[k] = x) \/ x = e
  BY <1>1, <1>2, <1>3
<1>5. \A x : x \in Versions!ToSet(Append(s, e)) <=> \E k \in 1..(Len(s) + 1) : Append(s, e)[k] = x
  BY <1>1, InSequence
<1> QED BY <1>1, <1>4, <1>5, InSequence

-----------------------------------------------------------------------------
(* The merge of two lists. The loop that collects what was not seen is       *)
(* defined for every list, and collects exactly what is in it.               *)
MergeLoop(all, m, k) ==
  m = [n \in 0..k |-> IF n = 0 THEN <<>> ELSE Versions!Seen(m[n - 1], all[n])]

(* The loop of _mergeArrays comes to an end for every list.                  *)
LEMMA MergeLoopRuns ==
  ASSUME NEW S, NEW all \in Seq(S)
  PROVE  \E m : MergeLoop(all, m, Len(all))
<1> DEFINE T == {k \in 0..Len(all) : \E m : MergeLoop(all, m, k)}
<1>0. Len(all) \in Nat OBVIOUS
<1>1. 0 \in T
  <2> DEFINE z == [n \in 0..0 |-> <<>>]
  <2>1. MergeLoop(all, z, 0) BY DEF MergeLoop
  <2> HIDE DEF z
  <2> QED BY <2>1, <1>0
<1>2. ASSUME NEW k \in 0..Len(all), k \in T, k < Len(all) PROVE k + 1 \in T
  <2>1. PICK m : MergeLoop(all, m, k) BY <1>2
  <2> DEFINE g == [n \in 0..(k + 1) |-> IF n = k + 1 THEN Versions!Seen(m[k], all[k + 1]) ELSE m[n]]
  <2>2. \A n \in 0..(k + 1) : g[n] = IF n = 0 THEN <<>> ELSE Versions!Seen(g[n - 1], all[n])
    <3> TAKE n \in 0..(k + 1)
    <3>1. CASE n = k + 1 BY <3>1, <1>0
    <3>2. CASE n \in 0..k
      <4>1. m[n] = IF n = 0 THEN <<>> ELSE Versions!Seen(m[n - 1], all[n])
        BY <2>1, <3>2 DEF MergeLoop
      <4> QED BY <4>1, <3>2
    <3> QED BY <3>1, <3>2
  <2>3. MergeLoop(all, g, k + 1) BY <2>2 DEF MergeLoop
  <2>4. k + 1 \in 0..Len(all) BY <1>0, <1>2
  <2> HIDE DEF g
  <2> QED BY <2>3, <2>4
<1>3. \A k \in 0..Len(all) : k \in T
  <2> HIDE DEF T
  <2> QED BY <1>0, <1>1, <1>2, Counting
<1> QED BY <1>0, <1>3

(* _mergeArrays keeps every item of the two lists and invents none.          *)
LEMMA MergeArraysUnion ==
  ASSUME NEW S, NEW local \in Seq(S), NEW remote \in Seq(S)
  PROVE  /\ Versions!MergeArrays(local, remote) \in Seq(S)
         /\ Versions!ToSet(Versions!MergeArrays(local, remote)) =
              Versions!ToSet(local) \cup Versions!ToSet(remote)
<1> DEFINE all == local \o remote
<1> DEFINE M == CHOOSE m : m = [n \in 0..Len(all) |->
                  IF n = 0 THEN <<>> ELSE Versions!Seen(m[n - 1], all[n])]
<1>0. all \in Seq(S) /\ Len(all) \in Nat /\ Len(all) = Len(local) + Len(remote)
  OBVIOUS
<1>1. M = [n \in 0..Len(all) |-> IF n = 0 THEN <<>> ELSE Versions!Seen(M[n - 1], all[n])]
  <2>1. \E m : m = [n \in 0..Len(all) |-> IF n = 0 THEN <<>> ELSE Versions!Seen(m[n - 1], all[n])]
    <3> HIDE DEF all
    <3> QED BY <1>0, MergeLoopRuns DEF MergeLoop
  <2> QED BY <2>1, Zenon
<1>2. Versions!MergeArrays(local, remote) = M[Len(all)]
  BY DEF Versions!MergeArrays
<1> HIDE DEF M, all
<1> DEFINE T == {k \in 0..Len(all) : /\ M[k] \in Seq(S)
                                    /\ \A x : x \in Versions!ToSet(M[k]) <=> \E n \in 1..k : all[n] = x}
<1>3. 0 \in T
  <2>1. M[0] = <<>> BY <1>0, <1>1
  <2>2. M[0] \in Seq(S) /\ \A x : x \notin Versions!ToSet(M[0]) BY <2>1 DEF Versions!ToSet
  <2>3. 0 \in 0..Len(all) BY <1>0
  <2> QED BY <2>2, <2>3
<1>4. ASSUME NEW k \in 0..Len(all), k \in T, k < Len(all) PROVE k + 1 \in T
  <2>1. k + 1 \in 1..Len(all) /\ all[k + 1] \in S BY <1>0, <1>4
  <2>2. M[k + 1] = Versions!Seen(M[k], all[k + 1]) BY <1>1, <2>1
  <2>3. M[k] \in Seq(S) /\ \A x : x \in Versions!ToSet(M[k]) <=> \E n \in 1..k : all[n] = x
    BY <1>4
  <2>4. CASE all[k + 1] \in Versions!ToSet(M[k])
    BY <2>1, <2>2, <2>3, <2>4 DEF Versions!Seen
  <2>5. CASE all[k + 1] \notin Versions!ToSet(M[k])
    <3>1. M[k + 1] = Append(M[k], all[k + 1]) BY <2>2, <2>5 DEF Versions!Seen
    <3>2. M[k + 1] \in Seq(S) /\ \A x : x \in Versions!ToSet(M[k + 1]) <=> x \in Versions!ToSet(M[k]) \/ x = all[k + 1]
      BY <2>1, <2>3, <3>1, InAppend
    <3> QED BY <2>1, <2>3, <3>2
  <2> QED BY <2>4, <2>5
<1>5. Len(all) \in T
  <2> HIDE DEF T
  <2>1. \A k \in 0..Len(all) : k \in T /\ k < Len(all) => k + 1 \in T BY <1>4
  <2>2. \A k \in 0..Len(all) : k \in T BY <1>0, <1>3, <2>1, Counting
  <2> QED BY <1>0, <2>2
<1>6. \A x : x \in Versions!ToSet(M[Len(all)]) <=> \E n \in 1..Len(all) : all[n] = x
  BY <1>5
<1>7. \A x : (\E n \in 1..Len(all) : all[n] = x) <=>
             (\E n \in 1..Len(local) : local[n] = x) \/ (\E n \in 1..Len(remote) : remote[n] = x)
  <2> TAKE x
  <2>1. ASSUME NEW n \in 1..Len(local), local[n] = x PROVE \E k \in 1..Len(all) : all[k] = x
    <3>1. n \in 1..Len(all) /\ all[n] = x BY <1>0, <2>1 DEF all
    <3> QED BY <3>1
  <2>2. ASSUME NEW n \in 1..Len(remote), remote[n] = x PROVE \E k \in 1..Len(all) : all[k] = x
    <3>1. Len(local) + n \in 1..Len(all) /\ all[Len(local) + n] = x BY <1>0, <2>2 DEF all
    <3> QED BY <3>1
  <2>3. ASSUME NEW k \in 1..Len(all), all[k] = x
        PROVE (\E n \in 1..Len(local) : local[n] = x) \/ (\E n \in 1..Len(remote) : remote[n] = x)
    <3>1. CASE k <= Len(local) BY <1>0, <2>3, <3>1 DEF all
    <3>2. CASE k > Len(local)
      <4>1. k - Len(local) \in 1..Len(remote) /\ remote[k - Len(local)] = x BY <1>0, <2>3, <3>2 DEF all
      <4> QED BY <4>1
    <3> QED BY <1>0, <3>1, <3>2
  <2> QED BY <2>1, <2>2, <2>3
<1>8. \A x : x \in Versions!ToSet(M[Len(all)]) <=> x \in Versions!ToSet(local) \cup Versions!ToSet(remote)
  BY <1>6, <1>7, InSequence
<1> QED BY <1>2, <1>5, <1>8

-----------------------------------------------------------------------------
(* The versions. What is listed comes from Items, and every clock counts     *)
(* every device.                                                             *)
Backup == [list : Seq(Things), array : BOOLEAN, clock : Versions!Clocks]

VersionsInv ==
  /\ versionsList \in [People -> Seq(Things)]
  /\ array \in [People -> BOOLEAN]
  /\ img \in [People -> Versions!Maps] /\ versionsClock \in [People -> Versions!Clocks]
  /\ versionsCloud # None => versionsCloud \in Backup
  /\ now \in 0..MaxEdits

(* Devices begin with it.                                                    *)
LEMMA VersionsInit == Versions!Init => VersionsInv
BY BoundsAssumption DEF Versions!Init, VersionsInv, Versions!Maps, Versions!Clocks, Versions!Zero

(* The merge of two clocks is a clock, and at least as far as each.          *)
LEMMA MergeClocksType ==
  ASSUME NEW a \in Versions!Clocks, NEW b \in Versions!Clocks
  PROVE  /\ Versions!MergeClocks(a, b) \in Versions!Clocks
         /\ \A d \in People : /\ a[d] <= Versions!MergeClocks(a, b)[d]
                              /\ b[d] <= Versions!MergeClocks(a, b)[d]
                              /\ Versions!MergeClocks(a, b)[d] \in {a[d], b[d]}
<1>1. \A d \in People : a[d] \in 0..MaxClock /\ b[d] \in 0..MaxClock BY DEF Versions!Clocks
<1> QED BY <1>1, BoundsAssumption DEF Versions!MergeClocks, Versions!Larger, Versions!Clocks

(* Contacts are added behind those that are there.                           *)
LEMMA MergeContactsPrefix ==
  ASSUME NEW a \in Seq(Things), NEW b \in Seq(Things)
  PROVE  /\ Versions!MergeContacts(a, b) \in Seq(Things)
         /\ Versions!IsPrefix(a, Versions!MergeContacts(a, b))
<1> DEFINE rest == SubSeq(b, Len(a) + 1, Len(b))
<1>1. rest \in Seq(Things) OBVIOUS
<1>2. Versions!MergeContacts(a, b) = a \o rest BY DEF Versions!MergeContacts
<1> HIDE DEF rest
<1>3. a \o rest \in Seq(Things) /\ Len(a) <= Len(a \o rest) BY <1>1
<1>4. SubSeq(a \o rest, 1, Len(a)) = SubSeq(a, 1, Len(a)) BY <1>1
<1> QED BY <1>2, <1>3, <1>4 DEF Versions!IsPrefix

(* Edits, backups and restores keep lists and clocks well-formed.            *)
LEMMA VersionsStep == VersionsInv /\ [Versions!Next]_versionsVars => VersionsInv'
<1> SUFFICES ASSUME VersionsInv, [Versions!Next]_versionsVars PROVE VersionsInv'
  OBVIOUS
<1> USE BoundsAssumption DEF VersionsInv
<1>1. CASE UNCHANGED versionsVars BY <1>1 DEF versionsVars
<1>2. ASSUME NEW d \in People, Versions!Restore(d) PROVE VersionsInv'
  <2>1. versionsCloud \in Backup /\ UNCHANGED <<img, versionsCloud, now>>
    BY <1>2 DEF Versions!Restore
  <2>2. \/ UNCHANGED <<versionsList, array, versionsClock>>
        \/ Versions!Apply(d, versionsCloud.list, versionsCloud.array, versionsCloud.clock)
        \/ Versions!Apply(d, Versions!MergeContacts(versionsList[d], versionsCloud.list), FALSE,
                         Versions!MergeClocks(versionsClock[d], versionsCloud.clock))
    BY <1>2 DEF Versions!Restore
  <2>3. /\ Versions!MergeContacts(versionsList[d], versionsCloud.list) \in Seq(Things)
        /\ Versions!MergeClocks(versionsClock[d], versionsCloud.clock) \in Versions!Clocks
    BY <2>1, MergeClocksType, MergeContactsPrefix DEF Backup
  <2> QED BY <2>1, <2>2, <2>3 DEF Versions!Apply, Backup
<1>3. ASSUME NEW d \in People, Versions!Reload(d) PROVE VersionsInv'
  BY <1>3 DEF Versions!Reload, Versions!Zero, Versions!Clocks
<1>4. ASSUME NEW d \in People, NEW taken \in BOOLEAN, Versions!AutoBackup(d, taken) PROVE VersionsInv'
  <2>1. [versionsClock[d] EXCEPT ![d] = @ + 1] \in Versions!Clocks
    BY <1>4 DEF Versions!AutoBackup, Versions!Clocks
  <2>2. versionsClock' = [versionsClock EXCEPT ![d] = [versionsClock[d] EXCEPT ![d] = @ + 1]]
    BY <1>4 DEF Versions!AutoBackup
  <2>3. versionsClock' \in [People -> Versions!Clocks] BY <2>1, <2>2
  <2>4. versionsCloud' = versionsCloud \/ versionsCloud' \in Backup
    BY <1>4, <2>3 DEF Versions!AutoBackup, Backup
  <2> QED BY <1>4, <2>3, <2>4 DEF Versions!AutoBackup
<1>5. ASSUME NEW d \in People, NEW i \in Things, Versions!AddContact(d, i) PROVE VersionsInv'
  BY <1>5 DEF Versions!AddContact
<1>6. ASSUME NEW d \in People, NEW i \in Things, Versions!AddImage(d, i) PROVE VersionsInv'
  <2>1. now' \in 0..MaxEdits /\ img' = [img EXCEPT ![d] = [img[d] EXCEPT ![i] = now']]
    BY <1>6 DEF Versions!AddImage
  <2>2. [img[d] EXCEPT ![i] = now'] \in Versions!Maps BY <2>1 DEF Versions!Maps
  <2> QED BY <1>6, <2>1, <2>2 DEF Versions!AddImage
<1> QED BY <1>1, <1>2, <1>3, <1>4, <1>5, <1>6 DEF Versions!Next

(* A restore over a concurrent state adds behind what is there.              *)
ConcurrentStep ==
  \A d \in People :
    versionsCloud # None /\ Versions!Compare(versionsClock[d], versionsCloud.clock) = "concurrent"
      => Versions!IsPrefix(versionsList[d], versionsList'[d])

(* Every step that meets a concurrent backup keeps what is listed here.      *)
LEMMA VersionsKeep == VersionsInv /\ Versions!Next => ConcurrentStep
<1> SUFFICES ASSUME VersionsInv, Versions!Next, NEW d \in People, versionsCloud # None,
                    Versions!Compare(versionsClock[d], versionsCloud.clock) = "concurrent"
             PROVE  Versions!IsPrefix(versionsList[d], versionsList'[d])
  BY DEF ConcurrentStep
<1> USE DEF VersionsInv
<1>0. versionsList[d] \in Seq(Things) OBVIOUS
<1>1. CASE versionsList'[d] = versionsList[d]
  BY <1>0, <1>1 DEF Versions!IsPrefix
<1>2. ASSUME NEW e \in People, Versions!Restore(e) PROVE Versions!IsPrefix(versionsList[d], versionsList'[d])
  <2>1. CASE e # d
    BY <1>1, <1>2, <2>1 DEF Versions!Restore, Versions!Apply
  <2>2. CASE e = d
    <3>1. versionsList' = [versionsList EXCEPT ![d] = Versions!MergeContacts(versionsList[d], versionsCloud.list)]
      BY <1>2, <2>2 DEF Versions!Restore, Versions!Apply
    <3>2. versionsCloud.list \in Seq(Things) BY DEF Backup
    <3> QED BY <1>0, <3>1, <3>2, MergeContactsPrefix
  <2> QED BY <2>1, <2>2
<1>3. ASSUME NEW e \in People, NEW i \in Things, Versions!AddContact(e, i)
      PROVE  Versions!IsPrefix(versionsList[d], versionsList'[d])
  <2>1. CASE e # d BY <1>1, <1>3, <2>1 DEF Versions!AddContact
  <2>2. CASE e = d
    <3>1. versionsList'[d] = Append(versionsList[d], i) BY <1>3, <2>2 DEF Versions!AddContact
    <3> QED BY <1>0, <3>1 DEF Versions!IsPrefix
  <2> QED BY <2>1, <2>2
<1> QED
  BY <1>1, <1>2, <1>3 DEF Versions!Next, Versions!Reload, Versions!AutoBackup, Versions!AddImage

-----------------------------------------------------------------------------
(* What the two implementations answer, for the clocks of any two devices.   *)
LEMMA Compared ==
  ASSUME NEW a \in Versions!Clocks, NEW b \in Versions!Clocks
  PROVE  Versions!CompareClocks(a, b) =
           CASE a = b                               -> "equal"
             [] Versions!LessEq(a, b) /\ a # b      -> "before"
             [] Versions!LessEq(b, a) /\ a # b      -> "after"
             [] OTHER                               -> "concurrent"
<1>1. \A d \in People : a[d] \in Nat /\ b[d] \in Nat
  BY BoundsAssumption DEF Versions!Clocks
<1>2. a = b <=> \A d \in People : a[d] = b[d]
  BY DEF Versions!Clocks
<1>3. Versions!LessEq(a, b) <=> ~\E d \in People : a[d] > b[d]
  BY <1>1 DEF Versions!LessEq
<1>4. Versions!LessEq(b, a) <=> ~\E d \in People : b[d] > a[d]
  BY <1>1 DEF Versions!LessEq
<1>5. Versions!LessEq(a, b) /\ Versions!LessEq(b, a) <=> a = b
  BY <1>1, <1>2 DEF Versions!LessEq
<1> QED
  BY <1>3, <1>4, <1>5 DEF Versions!CompareClocks

(* Well-formed states are compared and merged as the order of their clocks   *)
(* asks, whatever steps led to them.                                         *)
LEMMA VersionsHold == VersionsInv => Versions!TypeOK /\ Versions!VersionsAgree
<1> SUFFICES ASSUME VersionsInv PROVE Versions!TypeOK /\ Versions!VersionsAgree
  OBVIOUS
<1>1. Versions!TypeOK
  <2>1. \A d \in People : Versions!ToSet(versionsList[d]) \subseteq Things
    BY InSequence DEF VersionsInv
  <2>2. versionsCloud # None => versionsCloud.clock \in Versions!Clocks
                               /\ Versions!ToSet(versionsCloud.list) \subseteq Things
    BY InSequence DEF VersionsInv, Backup
  <2> QED BY <2>1, <2>2 DEF VersionsInv, Versions!TypeOK
<1>2. Versions!ComparedRight
  BY Compared DEF VersionsInv, Versions!ComparedRight
<1>3. Versions!ResolvedCoversBoth
  <2> SUFFICES ASSUME NEW d \in People, NEW e \in People
               PROVE  LET c == Versions!ResolveConflict(Versions!Snapshot(d), Versions!Snapshot(e)).clock IN
                      /\ Versions!LessEq(versionsClock[d], c) /\ Versions!LessEq(versionsClock[e], c)
                      /\ \A x \in People : c[x] \in {versionsClock[d][x], versionsClock[e][x]}
    BY DEF Versions!ResolvedCoversBoth
  <2> DEFINE a == versionsClock[d]
             b == versionsClock[e]
             c == Versions!ResolveConflict(Versions!Snapshot(d), Versions!Snapshot(e)).clock
  <2>1. a \in Versions!Clocks /\ b \in Versions!Clocks BY DEF VersionsInv
  <2>2. \A x \in People : a[x] \in Nat /\ b[x] \in Nat
    BY <2>1, BoundsAssumption DEF Versions!Clocks
  <2>3. CASE Versions!CompareClocks(a, b) \in {"equal", "after"}
    <3>1. c = a BY <2>3 DEF Versions!ResolveConflict, Versions!Snapshot
    <3>2. Versions!LessEq(b, a)
      BY <2>2, <2>3 DEF Versions!CompareClocks, Versions!LessEq
    <3> QED BY <2>2, <3>1, <3>2 DEF Versions!LessEq
  <2>4. CASE Versions!CompareClocks(a, b) = "before"
    <3>1. c = b BY <2>4 DEF Versions!ResolveConflict, Versions!Snapshot
    <3>2. Versions!LessEq(a, b)
      BY <2>2, <2>4 DEF Versions!CompareClocks, Versions!LessEq
    <3> QED BY <2>2, <3>1, <3>2 DEF Versions!LessEq
  <2>5. CASE Versions!CompareClocks(a, b) \notin {"equal", "after", "before"}
    <3>1. c = Versions!MergeClocks(a, b)
      BY <2>5 DEF Versions!ResolveConflict, Versions!Snapshot
    <3> QED BY <2>1, <3>1, MergeClocksType DEF Versions!LessEq
  <2> QED BY <2>3, <2>4, <2>5
<1>4. Versions!MergedIsNewest
  <2> SUFFICES ASSUME NEW d \in People, NEW e \in People,
                      Versions!CompareClocks(versionsClock[d], versionsClock[e]) = "concurrent"
               PROVE  LET r == Versions!ResolveConflict(Versions!Snapshot(d), Versions!Snapshot(e)) IN
                      /\ Versions!ToSet(r.list) = Versions!ToSet(versionsList[d]) \cup Versions!ToSet(versionsList[e])
                      /\ \A i \in Things : \A x \in {d, e} : r.img[i] >= img[x][i]
                      /\ \A i \in Things : r.img[i] \in {img[d][i], img[e][i]}
    BY DEF Versions!MergedIsNewest
  <2> DEFINE r == Versions!ResolveConflict(Versions!Snapshot(d), Versions!Snapshot(e))
  <2>1. r.list = Versions!MergeArrays(versionsList[d], versionsList[e])
        /\ r.img = Versions!MergeMaps(img[d], img[e])
    BY DEF Versions!ResolveConflict, Versions!Snapshot
  <2>2. Versions!ToSet(r.list) = Versions!ToSet(versionsList[d]) \cup Versions!ToSet(versionsList[e])
    BY <2>1, MergeArraysUnion DEF VersionsInv
  <2>3. \A i \in Things : img[d][i] \in Nat /\ img[e][i] \in Nat
    BY BoundsAssumption DEF VersionsInv, Versions!Maps
  <2>4. \A i \in Things : r.img[i] >= img[d][i] /\ r.img[i] >= img[e][i]
                          /\ r.img[i] \in {img[d][i], img[e][i]}
    BY <2>1, <2>3 DEF Versions!MergeMaps
  <2> QED BY <2>2, <2>4
<1> QED BY <1>1, <1>2, <1>3, <1>4 DEF Versions!VersionsAgree

-----------------------------------------------------------------------------
(* The backups on the device. The loop that leaves one backup out of a list. *)
FilterLoop(all, i, m, k) ==
  m = [n \in 0..k |-> IF n = 0 THEN <<>> ELSE Backups!Unless(m[n - 1], i, all[n])]

LEMMA FilterLoopRuns ==
  ASSUME NEW S, NEW all \in Seq(S), NEW i
  PROVE  \E m : FilterLoop(all, i, m, Len(all))
<1> DEFINE T == {k \in 0..Len(all) : \E m : FilterLoop(all, i, m, k)}
<1>0. Len(all) \in Nat OBVIOUS
<1>1. 0 \in T
  <2> DEFINE z == [n \in 0..0 |-> <<>>]
  <2>1. FilterLoop(all, i, z, 0) BY DEF FilterLoop
  <2> HIDE DEF z
  <2> QED BY <2>1, <1>0
<1>2. ASSUME NEW k \in 0..Len(all), k \in T, k < Len(all) PROVE k + 1 \in T
  <2>1. PICK m : FilterLoop(all, i, m, k) BY <1>2
  <2> DEFINE g == [n \in 0..(k + 1) |-> IF n = k + 1 THEN Backups!Unless(m[k], i, all[k + 1]) ELSE m[n]]
  <2>2. \A n \in 0..(k + 1) : g[n] = IF n = 0 THEN <<>> ELSE Backups!Unless(g[n - 1], i, all[n])
    <3> TAKE n \in 0..(k + 1)
    <3>1. CASE n = k + 1 BY <3>1, <1>0
    <3>2. CASE n \in 0..k
      <4>1. m[n] = IF n = 0 THEN <<>> ELSE Backups!Unless(m[n - 1], i, all[n])
        BY <2>1, <3>2 DEF FilterLoop
      <4> QED BY <4>1, <3>2
    <3> QED BY <3>1, <3>2
  <2>3. FilterLoop(all, i, g, k + 1) BY <2>2 DEF FilterLoop
  <2>4. k + 1 \in 0..Len(all) BY <1>0, <1>2
  <2> HIDE DEF g
  <2> QED BY <2>3, <2>4
<1>3. \A k \in 0..Len(all) : k \in T
  <2> HIDE DEF T
  <2> QED BY <1>0, <1>1, <1>2, Counting
<1> QED BY <1>0, <1>3

(* What taking identifier i out of a list leaves: the other entries, each no *)
(* farther from the end than it was.                                         *)
LeavesOthers(S, all, i, left) ==
  /\ left \in Seq(S)
  /\ Len(left) <= Len(all)
  /\ \A n \in 1..Len(all) : all[n] # i => \E j \in 1..Len(left) : left[j] = all[n]
  /\ \A j \in 1..Len(left) : \E n \in 1..Len(all) :
       all[n] = left[j] /\ Len(all) - n >= Len(left) - j

(* The filter of deleteBackup and its legacy twin leaves exactly those.      *)
LEMMA WithoutKeeps ==
  ASSUME NEW S, NEW all \in Seq(S), NEW i
  PROVE  LeavesOthers(S, all, i, Backups!Without(all, i))
<1> DEFINE M == CHOOSE m : m = [n \in 0..Len(all) |->
                  IF n = 0 THEN <<>> ELSE Backups!Unless(m[n - 1], i, all[n])]
<1>0. Len(all) \in Nat
  OBVIOUS
<1>1. M = [n \in 0..Len(all) |-> IF n = 0 THEN <<>> ELSE Backups!Unless(M[n - 1], i, all[n])]
  <2>1. \E m : m = [n \in 0..Len(all) |-> IF n = 0 THEN <<>> ELSE Backups!Unless(m[n - 1], i, all[n])]
    <3>1. \E m : FilterLoop(all, i, m, Len(all)) BY FilterLoopRuns
    <3> QED BY <3>1 DEF FilterLoop
  <2> QED BY <2>1, Zenon
<1>2. Backups!Without(all, i) = M[Len(all)]
  BY DEF Backups!Without
<1> HIDE DEF M
<1> DEFINE Good(k, s) ==
      /\ s \in Seq(S) /\ Len(s) <= k
      /\ \A n \in 1..k : all[n] # i => \E j \in 1..Len(s) : s[j] = all[n]
      /\ \A j \in 1..Len(s) : \E n \in 1..k : all[n] = s[j] /\ k - n >= Len(s) - j
<1> DEFINE T == {k \in 0..Len(all) : Good(k, M[k])}
<1>3. 0 \in T
  <2>1. M[0] = <<>> BY <1>0, <1>1
  <2>2. Good(0, M[0]) BY <2>1
  <2>3. 0 \in 0..Len(all) BY <1>0
  <2> QED BY <2>2, <2>3
<1>4. ASSUME NEW k \in 0..Len(all), k \in T, k < Len(all) PROVE k + 1 \in T
  <2>1. k + 1 \in 1..Len(all) /\ all[k + 1] \in S BY <1>0, <1>4
  <2>2. M[k + 1] = Backups!Unless(M[k], i, all[k + 1]) BY <1>1, <2>1
  <2>3. Good(k, M[k]) BY <1>4
  <2>4. CASE all[k + 1] = i
    <3>1. M[k + 1] = M[k] BY <2>2, <2>4 DEF Backups!Unless
    <3>2. \A j \in 1..Len(M[k]) : \E n \in 1..(k + 1) : all[n] = M[k][j] /\ (k + 1) - n >= Len(M[k]) - j
      BY <2>3
    <3>3. Good(k + 1, M[k + 1]) BY <2>3, <2>4, <3>1, <3>2
    <3>4. k + 1 \in 0..Len(all) BY <2>1
    <3> HIDE DEF Good
    <3> QED BY <3>3, <3>4
  <2>5. CASE all[k + 1] # i
    <3> DEFINE s == M[k]
               t == Append(s, all[k + 1])
    <3>1. M[k + 1] = t BY <2>2, <2>5 DEF Backups!Unless
    <3>2. /\ s \in Seq(S) /\ Len(s) \in Nat /\ t \in Seq(S) /\ Len(t) = Len(s) + 1
          /\ \A j \in 1..Len(s) : t[j] = s[j]
          /\ t[Len(s) + 1] = all[k + 1]
      BY <2>1, <2>3
    <3>3. \A n \in 1..k : all[n] # i => \E j \in 1..Len(s) : s[j] = all[n] BY <2>3
    <3>4. \A j \in 1..Len(s) : \E n \in 1..k : all[n] = s[j] /\ k - n >= Len(s) - j BY <2>3
    <3>5. Len(s) <= k BY <2>3
    <3> HIDE DEF s, t
    <3>6. \A n \in 1..(k + 1) : all[n] # i => \E j \in 1..Len(t) : t[j] = all[n]
      <4> SUFFICES ASSUME NEW n \in 1..(k + 1), all[n] # i PROVE \E j \in 1..Len(t) : t[j] = all[n]
        OBVIOUS
      <4>1. CASE n = k + 1 BY <3>2, <4>1
      <4>2. CASE n \in 1..k BY <3>2, <3>3, <4>2
      <4> QED BY <4>1, <4>2
    <3>7. \A j \in 1..Len(t) : \E n \in 1..(k + 1) : all[n] = t[j] /\ (k + 1) - n >= Len(t) - j
      <4> TAKE j \in 1..Len(t)
      <4>1. CASE j = Len(s) + 1
        <5>1. k + 1 \in 1..(k + 1) /\ all[k + 1] = t[j] /\ (k + 1) - (k + 1) >= Len(t) - j
          BY <3>2, <4>1
        <5> QED BY <5>1
      <4>2. CASE j \in 1..Len(s)
        <5>1. PICK n \in 1..k : all[n] = s[j] /\ k - n >= Len(s) - j BY <3>4, <4>2
        <5>2. n \in 1..(k + 1) /\ all[n] = t[j] /\ (k + 1) - n >= Len(t) - j BY <3>2, <4>2, <5>1
        <5> QED BY <5>2
      <4> QED BY <3>2, <4>1, <4>2
    <3>8. Len(t) <= k + 1 /\ t \in Seq(S) BY <3>2, <3>5
    <3>9. Good(k + 1, M[k + 1]) BY <3>1, <3>6, <3>7, <3>8
    <3>10. k + 1 \in 0..Len(all) BY <2>1
    <3> HIDE DEF Good
    <3> QED BY <3>9, <3>10
  <2> QED BY <2>4, <2>5
<1>5. Len(all) \in T
  <2> HIDE DEF T
  <2>1. \A k \in 0..Len(all) : k \in T /\ k < Len(all) => k + 1 \in T BY <1>4
  <2>2. \A k \in 0..Len(all) : k \in T BY <1>0, <1>3, <2>1, Counting
  <2> QED BY <1>0, <2>2
<1>6. Good(Len(all), M[Len(all)]) BY <1>5
<1> QED BY <1>2, <1>6 DEF LeavesOthers

(* The newest entries of a list that is at most one too long: all but,       *)
(* perhaps, the first.                                                       *)
LEMMA LastOfKeeps ==
  ASSUME NEW S, NEW s \in Seq(S), Len(s) <= MaxIndex + 1
  PROVE  LET cut == IF Len(s) > MaxIndex THEN 1 ELSE 0 IN
         /\ Backups!LastOf(s) \in Seq(S)
         /\ Len(Backups!LastOf(s)) = Len(s) - cut
         /\ Len(Backups!LastOf(s)) <= MaxIndex
         /\ \A k \in 1..(Len(s) - cut) : Backups!LastOf(s)[k] = s[k + cut]
<1> DEFINE cut == IF Len(s) > MaxIndex THEN 1 ELSE 0
<1>1. MaxIndex \in Nat /\ Len(s) \in Nat BY BoundsAssumption
<1>2. cut \in {0, 1} /\ cut <= Len(s) /\ Len(s) - cut <= MaxIndex BY <1>1
<1>3. Backups!LastOf(s) = SubSeq(s, cut + 1, Len(s))
  <2>1. CASE Len(s) > MaxIndex
    <3>1. Len(s) - MaxIndex = 1 BY <1>1, <2>1
    <3> QED BY <2>1, <3>1 DEF Backups!LastOf
  <2>2. CASE ~(Len(s) > MaxIndex)
    BY <2>2 DEF Backups!LastOf
  <2> QED BY <2>1, <2>2
<1> HIDE DEF cut
<1>4. /\ SubSeq(s, cut + 1, Len(s)) \in Seq(S)
      /\ Len(SubSeq(s, cut + 1, Len(s))) = Len(s) - cut
      /\ \A k \in 1..(Len(s) - cut) : SubSeq(s, cut + 1, Len(s))[k] = s[k + cut]
  BY <1>1, <1>2
<1> QED BY <1>2, <1>3, <1>4 DEF cut

(* A call and what it carries; the operations that make a backup.            *)
BackupCall == [op : {"none", "create", "scheduled", "event", "delete", "restore"},
  pc : {"idle", "clock", "collected", "index", "delete", "opening", "writing"},
  id : 0..MaxMade, clock : 0..MaxMade, idx : Seq(Backups!Ids), at : 0..Parts]
Making == {"create", "scheduled", "event"}
Listed(i, s) == \E k \in 1..Len(s) : s[k] = i

BackupTypes ==
  /\ index \in Seq(Backups!Ids) /\ legacy \in Seq(Backups!Ids) /\ done \in Seq(Backups!Ids)
  /\ Len(index) <= MaxIndex /\ Len(legacy) <= MaxIndex
  /\ backupsCalls \in [Calls -> BackupCall]
  /\ open \in BOOLEAN /\ enabled \in BOOLEAN /\ custom \in BOOLEAN /\ busy \in BOOLEAN
  /\ backupsClock \in 0..MaxMade /\ made \in 0..MaxMade
  /\ stamps \in [Backups!Ids -> 0..MaxMade] /\ deleted \subseteq Backups!Ids
  /\ data \in [1..Parts -> {"old", "new"}] /\ memory \in {"old", "new"}
  /\ told \in {"none", "restored", "refused", "failed"} /\ disturbed \in BOOLEAN

(* Where each operation can be.                                              *)
BackupPlaces ==
  \A c \in Calls :
    /\ backupsCalls[c].pc \in {"clock", "collected", "index"} <=> backupsCalls[c].op \in Making
    /\ backupsCalls[c].pc = "delete" <=> backupsCalls[c].op = "delete"
    /\ backupsCalls[c].pc \in {"opening", "writing"} <=> backupsCalls[c].op = "restore"
    /\ backupsCalls[c].pc = "idle" => backupsCalls[c] = Backups!Idle
    /\ backupsCalls[c].pc = "writing" => backupsCalls[c].at \in 1..Parts
    /\ backupsCalls[c].op = "delete" => backupsCalls[c].id \in Backups!Ids
    /\ Len(backupsCalls[c].idx) <= MaxIndex

(* One backup for the events, whose end releases their guard; one restore.   *)
BackupGuards ==
  /\ Backups!OneForEvents
  /\ Backups!GuardIsReleased
  /\ \A c \in Calls : backupsCalls[c].op = "restore" =>
       told = "none" /\ \A d \in Calls \ {c} : backupsCalls[d].op # "restore"

(* Backups are numbered as they begin, and each is reported once; what is    *)
(* listed has been reported.                                                 *)
BackupNumbers ==
  /\ backupsClock <= made
  /\ \A c \in Calls : backupsCalls[c].op \in Making =>
       /\ backupsCalls[c].id \in 1..made
       /\ ~Listed(backupsCalls[c].id, done)
       /\ \A d \in Calls \ {c} : backupsCalls[d].op \in Making => backupsCalls[d].id # backupsCalls[c].id
  /\ \A c \in Calls : backupsCalls[c].pc = "clock" => backupsCalls[c].clock < backupsCalls[c].id
  /\ \A n \in 1..Len(done) : done[n] <= made
  /\ \A k \in 1..Len(index) : Listed(index[k], done)
  /\ \A c \in Calls : \A k \in 1..Len(backupsCalls[c].idx) : Listed(backupsCalls[c].idx[k], done)

(* While nothing crossed, what an operation read is still so when it writes; *)
(* and the entries that a long list has lost are older than those it has.    *)
BackupCalls ==
  /\ \A c \in Calls : backupsCalls[c].pc # "idle" => open
  /\ \A c \in Calls : backupsCalls[c].pc = "clock" =>
       /\ backupsCalls[c].clock = backupsClock
       /\ \A d \in Calls \ {c} : backupsCalls[d].pc # "clock"
  /\ \A c \in Calls : backupsCalls[c].pc \in {"index", "delete"} =>
       /\ backupsCalls[c].idx = index
       /\ \A d \in Calls \ {c} : backupsCalls[d].pc \notin {"index", "delete"}

BackupStamps ==
  /\ \A i \in Backups!Ids : stamps[i] <= backupsClock
  /\ \A i, j \in Backups!Ids : i # j /\ stamps[i] # 0 => stamps[i] # stamps[j]

BackupLists ==
  /\ \A n \in 1..Len(done) :
       Listed(done[n], index) \/ done[n] \in deleted \/ Len(done) - n >= MaxIndex
  /\ \A n \in 1..Len(done), k \in 1..Len(index) :
       done[n] = index[k] => n <= Len(done) - (Len(index) - k)

BackupRestores ==
  /\ \A c \in Calls : backupsCalls[c].pc = "writing" =>
       \A k \in 1..Parts : k < backupsCalls[c].at => data[k] = "new"
  /\ told \in {"none", "refused"} /\ (\A c \in Calls : backupsCalls[c].pc # "writing") =>
       \A k \in 1..Parts : data[k] = "old"
  /\ told = "restored" => \A k \in 1..Parts : data[k] = "new"

BackupsInv ==
  /\ BackupTypes /\ BackupPlaces /\ BackupGuards /\ BackupNumbers
  /\ ~disturbed => BackupCalls /\ BackupStamps /\ BackupLists /\ BackupRestores

(* The device begins with it.                                                *)
LEMMA BackupsInit == Backups!Init => BackupsInv
<1> SUFFICES ASSUME Backups!Init PROVE BackupsInv
  OBVIOUS
<1> USE BoundsAssumption DEF Backups!Init, Backups!Ids
<1>1. /\ <<>> \in Seq(Backups!Ids) /\ Len(<<>>) = 0
      /\ Backups!Idle \in BackupCall
  BY DEF BackupCall, Backups!Idle
<1>2. BackupTypes
  <2>1. MaxMade \in Nat /\ MaxIndex \in Nat BY BoundsAssumption
  <2>2. 0 \in 0..MaxMade /\ 0 <= MaxIndex BY <2>1
  <2>3. /\ backupsCalls \in [Calls -> BackupCall]
        /\ stamps \in [1..MaxMade -> 0..MaxMade] /\ data \in [1..Parts -> {"old", "new"}]
    BY <1>1, <2>2
  <2> QED BY <1>1, <2>2, <2>3 DEF BackupTypes
<1>3. BackupPlaces BY <1>1 DEF BackupPlaces, Backups!Idle, Making
<1>4. BackupGuards BY DEF BackupGuards, Backups!OneForEvents, Backups!GuardIsReleased, Backups!Idle
<1>5. BackupNumbers BY <1>1 DEF BackupNumbers, Backups!Idle, Making
<1>6. BackupCalls /\ BackupStamps /\ BackupLists /\ BackupRestores
  BY <1>1 DEF BackupCalls, BackupStamps, BackupLists, BackupRestores, Backups!Idle
<1> QED BY <1>2, <1>3, <1>4, <1>5, <1>6 DEF BackupsInv

(* The guards only read which operation a call is, the event's flag and what *)
(* the user was told.                                                        *)
LEMMA GuardsKept ==
  ASSUME BackupGuards, UNCHANGED <<busy, told>>,
         \A d \in Calls : backupsCalls'[d].op = backupsCalls[d].op
  PROVE  BackupGuards'
<1>1. Backups!OneForEvents' BY DEF BackupGuards, Backups!OneForEvents
<1>2. Backups!GuardIsReleased' BY DEF BackupGuards, Backups!GuardIsReleased
<1> QED BY <1>1, <1>2 DEF BackupGuards

(* What a call becomes.                                                      *)
LEMMA CallBecomes ==
  /\ Backups!Idle \in BackupCall
  /\ [Backups!Idle EXCEPT !.op = "restore", !.pc = "opening"] \in BackupCall
  /\ \A op \in Making, i \in 0..MaxMade, k \in 0..MaxMade :
       [Backups!Idle EXCEPT !.op = op, !.pc = "clock", !.id = i, !.clock = k] \in BackupCall
  /\ \A i \in 0..MaxMade, s \in Seq(Backups!Ids) :
       [Backups!Idle EXCEPT !.op = "delete", !.pc = "delete", !.id = i, !.idx = s] \in BackupCall
  /\ \A r \in BackupCall : [r EXCEPT !.pc = "collected"] \in BackupCall
  /\ \A r \in BackupCall, s \in Seq(Backups!Ids) :
       [r EXCEPT !.pc = "index", !.idx = s] \in BackupCall
  /\ \A r \in BackupCall : [r EXCEPT !.pc = "writing", !.at = 1] \in BackupCall
  /\ \A r \in BackupCall, a \in 0..Parts : [r EXCEPT !.at = a] \in BackupCall
<1>1. <<>> \in Seq(Backups!Ids) OBVIOUS
<1>2. 0 \in 0..MaxMade /\ 0 \in 0..Parts /\ 1 \in 0..Parts BY BoundsAssumption
<1>3. Backups!Idle \in BackupCall BY <1>1, <1>2 DEF BackupCall, Backups!Idle
<1>4. ASSUME NEW op \in Making, NEW i \in 0..MaxMade, NEW k \in 0..MaxMade
      PROVE  [Backups!Idle EXCEPT !.op = op, !.pc = "clock", !.id = i, !.clock = k] \in BackupCall
  BY <1>1, <1>2 DEF BackupCall, Backups!Idle, Making
<1>5. ASSUME NEW i \in 0..MaxMade, NEW s \in Seq(Backups!Ids)
      PROVE  [Backups!Idle EXCEPT !.op = "delete", !.pc = "delete", !.id = i, !.idx = s] \in BackupCall
  BY <1>1, <1>2 DEF BackupCall, Backups!Idle
<1>6. [Backups!Idle EXCEPT !.op = "restore", !.pc = "opening"] \in BackupCall
  BY <1>1, <1>2 DEF BackupCall, Backups!Idle
<1>7. ASSUME NEW r \in BackupCall, NEW s \in Seq(Backups!Ids), NEW a \in 0..Parts
      PROVE  /\ [r EXCEPT !.pc = "collected"] \in BackupCall
             /\ [r EXCEPT !.pc = "index", !.idx = s] \in BackupCall
             /\ [r EXCEPT !.pc = "writing", !.at = 1] \in BackupCall
             /\ [r EXCEPT !.at = a] \in BackupCall
  BY <1>2 DEF BackupCall
<1> QED BY <1>1, <1>2, <1>3, <1>4, <1>5, <1>6, <1>7

(* The vault is closed or opened.                                            *)
LEMMA TogglesStep ==
  ASSUME BackupsInv, Backups!VaultToggles
  PROVE  BackupsInv'
<1> USE DEF Backups!Ids
<1>0. /\ BackupTypes /\ BackupPlaces /\ BackupGuards /\ BackupNumbers
      /\ ~disturbed => BackupCalls /\ BackupStamps /\ BackupLists /\ BackupRestores
      /\ {MaxMade, MaxIndex} \subseteq Nat /\ Parts \in Nat \ {0}
  BY BoundsAssumption DEF BackupsInv
<1>1. /\ open' = ~open
      /\ disturbed' = (disturbed \/ \E c \in Calls : backupsCalls[c] # Backups!Idle)
      /\ UNCHANGED <<enabled, custom, busy, index, backupsClock, legacy, made, stamps,
                     done, deleted, data, memory, told>> /\ UNCHANGED backupsCalls
  BY <1>0 DEF BackupTypes, BackupPlaces, Backups!VaultToggles, Backups!settings, Backups!backups, Backups!content
<1>3. BackupTypes'
  BY <1>0, <1>1 DEF BackupTypes
<1>4. BackupPlaces'
  BY <1>0, <1>1 DEF BackupTypes, BackupPlaces, Making, Backups!Idle
<1>5. BackupGuards'
  BY <1>0, <1>1 DEF BackupTypes, BackupPlaces, BackupGuards, Making, Backups!OneForEvents, Backups!GuardIsReleased
<1>6. BackupNumbers'
  BY <1>0, <1>1 DEF BackupTypes, BackupPlaces, BackupNumbers, Making, Listed
<1>7. ASSUME ~disturbed' PROVE BackupCalls' /\ BackupStamps' /\ BackupLists' /\ BackupRestores'
  <2>0. ~disturbed /\ BackupCalls /\ BackupStamps /\ BackupLists /\ BackupRestores
    BY <1>0, <1>1, <1>7
  <2>1. BackupCalls'
    BY <1>0, <1>1, <1>7, <2>0 DEF BackupTypes, BackupPlaces, BackupCalls, Backups!Idle, Making
  <2>2. BackupStamps'
    BY <1>0, <1>1, <1>7, <2>0 DEF BackupTypes, BackupPlaces, BackupStamps, Making
  <2>3. BackupLists'
    BY <1>0, <1>1, <1>7, <2>0 DEF BackupTypes, BackupPlaces, BackupLists, Listed, Making
  <2>4. BackupRestores'
    BY <1>0, <1>1, <1>7, <2>0 DEF BackupTypes, BackupPlaces, BackupRestores, Making
  <2> QED BY <2>1, <2>2, <2>3, <2>4
<1> QED BY <1>3, <1>4, <1>5, <1>6, <1>7 DEF BackupsInv

(* The settings change.                                                      *)
LEMMA SettingsStep ==
  ASSUME BackupsInv, Backups!Settings
  PROVE  BackupsInv'
<1> USE DEF Backups!Ids
<1>0. /\ BackupTypes /\ BackupPlaces /\ BackupGuards /\ BackupNumbers
      /\ ~disturbed => BackupCalls /\ BackupStamps /\ BackupLists /\ BackupRestores
      /\ {MaxMade, MaxIndex} \subseteq Nat /\ Parts \in Nat \ {0}
  BY BoundsAssumption DEF BackupsInv
<1>1. /\ enabled' \in BOOLEAN /\ custom' \in BOOLEAN
      /\ UNCHANGED <<open, busy, index, backupsClock, legacy, made, stamps, done,
                     deleted, data, memory, told, disturbed>> /\ UNCHANGED backupsCalls
  BY <1>0 DEF BackupTypes, BackupPlaces, Backups!Settings, Backups!settings, Backups!backups, Backups!content
<1>3. BackupTypes'
  BY <1>0, <1>1 DEF BackupTypes
<1>4. BackupPlaces'
  BY <1>0, <1>1 DEF BackupTypes, BackupPlaces, Making, Backups!Idle
<1>5. BackupGuards'
  BY <1>0, <1>1 DEF BackupTypes, BackupPlaces, BackupGuards, Making, Backups!OneForEvents, Backups!GuardIsReleased
<1>6. BackupNumbers'
  BY <1>0, <1>1 DEF BackupTypes, BackupPlaces, BackupNumbers, Making, Listed
<1>7. ASSUME ~disturbed' PROVE BackupCalls' /\ BackupStamps' /\ BackupLists' /\ BackupRestores'
  <2>0. ~disturbed /\ BackupCalls /\ BackupStamps /\ BackupLists /\ BackupRestores
    BY <1>0, <1>1, <1>7
  <2>1. BackupCalls'
    BY <1>0, <1>1, <1>7, <2>0 DEF BackupTypes, BackupPlaces, BackupCalls, Backups!Idle, Making
  <2>2. BackupStamps'
    BY <1>0, <1>1, <1>7, <2>0 DEF BackupTypes, BackupPlaces, BackupStamps, Making
  <2>3. BackupLists'
    BY <1>0, <1>1, <1>7, <2>0 DEF BackupTypes, BackupPlaces, BackupLists, Listed, Making
  <2>4. BackupRestores'
    BY <1>0, <1>1, <1>7, <2>0 DEF BackupTypes, BackupPlaces, BackupRestores, Making
  <2> QED BY <2>1, <2>2, <2>3, <2>4
<1> QED BY <1>3, <1>4, <1>5, <1>6, <1>7 DEF BackupsInv

(* A manager saves what it has in memory.                                    *)
LEMMA ManagerStep ==
  ASSUME BackupsInv, NEW k \in 1..Parts, Backups!ManagerSaves(k)
  PROVE  BackupsInv'
<1> USE DEF Backups!Ids
<1>0. /\ BackupTypes /\ BackupPlaces /\ BackupGuards /\ BackupNumbers
      /\ ~disturbed => BackupCalls /\ BackupStamps /\ BackupLists /\ BackupRestores
      /\ {MaxMade, MaxIndex} \subseteq Nat /\ Parts \in Nat \ {0}
  BY BoundsAssumption DEF BackupsInv
<1>1. /\ data' \in [1..Parts -> {"old", "new"}]
      /\ disturbed' = TRUE
      /\ UNCHANGED <<open, enabled, custom, busy, index, backupsClock, legacy, made,
                     stamps, done, deleted, memory, told>> /\ UNCHANGED backupsCalls
  BY <1>0 DEF BackupTypes, BackupPlaces, Backups!ManagerSaves, Backups!settings, Backups!backups, Backups!content
<1>3. BackupTypes'
  BY <1>0, <1>1 DEF BackupTypes
<1>4. BackupPlaces'
  BY <1>0, <1>1 DEF BackupTypes, BackupPlaces, Making, Backups!Idle
<1>5. BackupGuards'
  BY <1>0, <1>1 DEF BackupTypes, BackupPlaces, BackupGuards, Making, Backups!OneForEvents, Backups!GuardIsReleased
<1>6. BackupNumbers'
  BY <1>0, <1>1 DEF BackupTypes, BackupPlaces, BackupNumbers, Making, Listed
<1>7. ASSUME ~disturbed' PROVE BackupCalls' /\ BackupStamps' /\ BackupLists' /\ BackupRestores'
  BY <1>1, <1>7
<1> QED BY <1>3, <1>4, <1>5, <1>6, <1>7 DEF BackupsInv

(* The old list loses an entry.                                              *)
LEMMA LegacyStep ==
  ASSUME BackupsInv, NEW i \in Backups!Ids, Backups!DeleteLegacy(i)
  PROVE  BackupsInv'
<1> USE DEF Backups!Ids
<1>0. /\ BackupTypes /\ BackupPlaces /\ BackupGuards /\ BackupNumbers
      /\ ~disturbed => BackupCalls /\ BackupStamps /\ BackupLists /\ BackupRestores
      /\ {MaxMade, MaxIndex} \subseteq Nat /\ Parts \in Nat \ {0}
  BY BoundsAssumption DEF BackupsInv
<1>1. /\ legacy' = Backups!Without(legacy, i)
      /\ UNCHANGED <<open, enabled, custom, busy, index, backupsClock, made, stamps,
                     done, deleted, data, memory, told, disturbed>> /\ UNCHANGED backupsCalls
  BY <1>0 DEF BackupTypes, BackupPlaces, Backups!DeleteLegacy, Backups!settings, Backups!content
<1>3. BackupTypes'
  <2>1. legacy' \in Seq(Backups!Ids) /\ Len(legacy') <= Len(legacy)
    <3>1. legacy \in Seq(Backups!Ids) BY <1>0 DEF BackupTypes
    <3> HIDE DEF Backups!Ids
    <3>2. LeavesOthers(Backups!Ids, legacy, i, Backups!Without(legacy, i)) BY <3>1, WithoutKeeps
    <3> QED BY <1>1, <3>2 DEF LeavesOthers
  <2>2. Len(legacy) \in Nat /\ Len(legacy') \in Nat BY <1>0, <2>1 DEF BackupTypes
  <2> QED BY <1>0, <1>1, <2>1, <2>2 DEF BackupTypes
<1>4. BackupPlaces'
  BY <1>0, <1>1 DEF BackupTypes, BackupPlaces, Making, Backups!Idle
<1>5. BackupGuards'
  BY <1>0, <1>1 DEF BackupTypes, BackupPlaces, BackupGuards, Making, Backups!OneForEvents, Backups!GuardIsReleased
<1>6. BackupNumbers'
  BY <1>0, <1>1 DEF BackupTypes, BackupPlaces, BackupNumbers, Making, Listed
<1>7. ASSUME ~disturbed' PROVE BackupCalls' /\ BackupStamps' /\ BackupLists' /\ BackupRestores'
  <2>0. ~disturbed /\ BackupCalls /\ BackupStamps /\ BackupLists /\ BackupRestores
    BY <1>0, <1>1, <1>7
  <2>1. BackupCalls'
    BY <1>0, <1>1, <1>7, <2>0 DEF BackupTypes, BackupPlaces, BackupCalls, Backups!Idle, Making
  <2>2. BackupStamps'
    BY <1>0, <1>1, <1>7, <2>0 DEF BackupTypes, BackupPlaces, BackupStamps, Making
  <2>3. BackupLists'
    BY <1>0, <1>1, <1>7, <2>0 DEF BackupTypes, BackupPlaces, BackupLists, Listed, Making
  <2>4. BackupRestores'
    BY <1>0, <1>1, <1>7, <2>0 DEF BackupTypes, BackupPlaces, BackupRestores, Making
  <2> QED BY <2>1, <2>2, <2>3, <2>4
<1> QED BY <1>3, <1>4, <1>5, <1>6, <1>7 DEF BackupsInv

(* The page is loaded again.                                                 *)
LEMMA BackupsReload ==
  ASSUME BackupsInv, Backups!Reload
  PROVE  BackupsInv'
<1> USE DEF Backups!Ids
<1>0. /\ BackupTypes /\ BackupPlaces /\ BackupGuards /\ BackupNumbers
      /\ ~disturbed => BackupCalls /\ BackupStamps /\ BackupLists /\ BackupRestores
      /\ {MaxMade, MaxIndex} \subseteq Nat /\ Parts \in Nat \ {0}
  BY BoundsAssumption DEF BackupsInv
<1>1. /\ backupsCalls' = [c \in Calls |-> Backups!Idle]
      /\ busy' = FALSE /\ memory' \in {"old", "new"}
      /\ disturbed' = (disturbed \/ \E c \in Calls : backupsCalls[c].pc \in {"writing", "index", "clock", "delete"})
      /\ UNCHANGED <<open, enabled, custom, index, backupsClock, legacy, made, stamps,
                     done, deleted, data, told>>
  BY <1>0 DEF BackupTypes, BackupPlaces, Backups!Reload, Backups!settings, Backups!backups, Backups!content
<1>2. /\ backupsCalls' \in [Calls -> BackupCall]
      /\ \A c \in Calls : /\ backupsCalls'[c] = Backups!Idle /\ backupsCalls'[c].op = "none"
                         /\ backupsCalls'[c].pc = "idle" /\ Len(backupsCalls'[c].idx) = 0
  BY <1>0, <1>1, CallBecomes DEF BackupTypes, Backups!Idle
<1>3. BackupTypes'
  BY <1>0, <1>1, <1>2 DEF BackupTypes
<1>4. BackupPlaces'
  BY <1>0, <1>1, <1>2 DEF BackupTypes, BackupPlaces, Making, Backups!Idle
<1>5. BackupGuards'
  BY <1>0, <1>1, <1>2 DEF BackupTypes, BackupPlaces, BackupGuards, Making, Backups!OneForEvents, Backups!GuardIsReleased
<1>6. BackupNumbers'
  BY <1>0, <1>1, <1>2 DEF BackupTypes, BackupPlaces, BackupNumbers, Making, Listed
<1>7. ASSUME ~disturbed' PROVE BackupCalls' /\ BackupStamps' /\ BackupLists' /\ BackupRestores'
  <2>0. ~disturbed /\ BackupCalls /\ BackupStamps /\ BackupLists /\ BackupRestores
    BY <1>0, <1>1, <1>7
  <2>1. BackupCalls'
    BY <1>0, <1>1, <1>2, <1>7, <2>0 DEF BackupTypes, BackupPlaces, BackupCalls, Backups!Idle, Making
  <2>2. BackupStamps'
    BY <1>0, <1>1, <1>2, <1>7, <2>0 DEF BackupTypes, BackupPlaces, BackupStamps, Making
  <2>3. BackupLists'
    BY <1>0, <1>1, <1>2, <1>7, <2>0 DEF BackupTypes, BackupPlaces, BackupLists, Listed, Making
  <2>4. BackupRestores'
    BY <1>0, <1>1, <1>2, <1>7, <2>0 DEF BackupTypes, BackupPlaces, BackupRestores, Making
  <2> QED BY <2>1, <2>2, <2>3, <2>4
<1> QED BY <1>3, <1>4, <1>5, <1>6, <1>7 DEF BackupsInv

(* A backup that fails, or is only downloaded, ends.                         *)
LEMMA FailsStep ==
  ASSUME BackupsInv, NEW c \in Calls, Backups!Fails(c) \/ Backups!Downloaded(c)
  PROVE  BackupsInv'
<1> USE DEF Backups!Ids
<1>0. /\ BackupTypes /\ BackupPlaces /\ BackupGuards /\ BackupNumbers
      /\ ~disturbed => BackupCalls /\ BackupStamps /\ BackupLists /\ BackupRestores
      /\ {MaxMade, MaxIndex} \subseteq Nat /\ Parts \in Nat \ {0}
  BY BoundsAssumption DEF BackupsInv
<1>1. /\ backupsCalls' = [backupsCalls EXCEPT ![c] = Backups!Idle]
      /\ busy' = (busy /\ backupsCalls[c].op # "event")
      /\ backupsCalls[c].pc = "collected"
      /\ UNCHANGED <<open, enabled, custom, index, backupsClock, legacy, made, stamps,
                     done, deleted, data, memory, told, disturbed>>
  BY <1>0 DEF BackupTypes, BackupPlaces, Backups!Fails, Backups!Downloaded, Backups!At, Backups!Ends, Backups!settings, Backups!backups, Backups!content
<1>2. /\ backupsCalls' \in [Calls -> BackupCall]
      /\ \A d \in Calls \ {c} : backupsCalls'[d] = backupsCalls[d]
      /\ backupsCalls'[c] = Backups!Idle /\ backupsCalls'[c].op = "none" /\ backupsCalls'[c].pc = "idle"
      /\ backupsCalls'[c].idx = <<>> /\ Len(backupsCalls'[c].idx) = 0
  BY <1>0, <1>1, CallBecomes DEF BackupTypes, Backups!Idle
<1>3. BackupTypes'
  BY <1>0, <1>1, <1>2 DEF BackupTypes
<1>4. BackupPlaces'
  BY <1>0, <1>1, <1>2 DEF BackupTypes, BackupPlaces, Making, Backups!Idle
<1>5. BackupGuards'
  <2>1. Backups!OneForEvents /\ Backups!GuardIsReleased BY <1>0 DEF BackupGuards
  <2>2. Backups!OneForEvents'
    <3> SUFFICES ASSUME NEW d \in Calls, backupsCalls'[d].op = "event"
                 PROVE  busy' /\ \A e \in Calls \ {d} : backupsCalls'[e].op # "event"
      BY DEF Backups!OneForEvents
    <3>1. d # c /\ backupsCalls[d].op = "event" BY <1>2
    <3>2. busy /\ \A e \in Calls \ {d} : backupsCalls[e].op # "event" BY <2>1, <3>1 DEF Backups!OneForEvents
    <3> QED BY <1>1, <1>2, <3>1, <3>2
  <2>3. Backups!GuardIsReleased'
    <3> SUFFICES ASSUME busy' PROVE \E d \in Calls : backupsCalls'[d].op = "event"
      BY DEF Backups!GuardIsReleased
    <3>1. PICK d \in Calls : backupsCalls[d].op = "event" BY <1>1, <2>1 DEF Backups!GuardIsReleased
    <3>2. d # c BY <1>1, <3>1
    <3> QED BY <1>2, <3>1, <3>2
  <2> QED BY <1>0, <1>1, <1>2, <2>2, <2>3 DEF BackupGuards
<1>6. BackupNumbers'
  BY <1>0, <1>1, <1>2 DEF BackupTypes, BackupPlaces, BackupNumbers, Making, Listed
<1>7. ASSUME ~disturbed' PROVE BackupCalls' /\ BackupStamps' /\ BackupLists' /\ BackupRestores'
  <2>0. ~disturbed /\ BackupCalls /\ BackupStamps /\ BackupLists /\ BackupRestores
    BY <1>0, <1>1, <1>7
  <2>1. BackupCalls'
    BY <1>0, <1>1, <1>2, <1>7, <2>0 DEF BackupTypes, BackupPlaces, BackupCalls, Backups!Idle, Making
  <2>2. BackupStamps'
    BY <1>0, <1>1, <1>2, <1>7, <2>0 DEF BackupTypes, BackupPlaces, BackupStamps, Making
  <2>3. BackupLists'
    BY <1>0, <1>1, <1>2, <1>7, <2>0 DEF BackupTypes, BackupPlaces, BackupLists, Listed, Making
  <2>4. BackupRestores'
    BY <1>0, <1>1, <1>2, <1>7, <2>0 DEF BackupTypes, BackupPlaces, BackupRestores, Making
  <2> QED BY <2>1, <2>2, <2>3, <2>4
<1> QED BY <1>3, <1>4, <1>5, <1>6, <1>7 DEF BackupsInv

(* The counter is written back.                                              *)
LEMMA ClockStep ==
  ASSUME BackupsInv, NEW c \in Calls, Backups!ClockSaved(c)
  PROVE  BackupsInv'
<1> USE DEF Backups!Ids
<1>0. /\ BackupTypes /\ BackupPlaces /\ BackupGuards /\ BackupNumbers
      /\ ~disturbed => BackupCalls /\ BackupStamps /\ BackupLists /\ BackupRestores
      /\ {MaxMade, MaxIndex} \subseteq Nat /\ Parts \in Nat \ {0}
  BY BoundsAssumption DEF BackupsInv
<1>1. /\ backupsCalls[c].pc = "clock"
      /\ backupsClock' = IF open THEN backupsCalls[c].clock + 1 ELSE backupsClock
      /\ stamps' = [stamps EXCEPT ![backupsCalls[c].id] = backupsCalls[c].clock + 1]
      /\ backupsCalls' = [backupsCalls EXCEPT ![c].pc = "collected"]
      /\ UNCHANGED <<open, enabled, custom, busy, index, legacy, made, done,
                     deleted, data, memory, told, disturbed>>
  BY <1>0 DEF BackupTypes, BackupPlaces, Backups!ClockSaved, Backups!At, Backups!settings, Backups!backups, Backups!content
<1>8. /\ backupsCalls[c].op \in Making /\ backupsCalls[c].id \in 1..made
      /\ ~Listed(backupsCalls[c].id, done)
      /\ backupsCalls[c].clock \in 0..MaxMade /\ backupsCalls[c].clock < backupsCalls[c].id
      /\ backupsCalls[c].clock + 1 \in 1..made /\ made \in 0..MaxMade /\ backupsClock \in 0..MaxMade
  BY <1>0, <1>1 DEF BackupTypes, BackupPlaces, BackupNumbers, BackupCall
<1>2. /\ backupsCalls' \in [Calls -> BackupCall]
      /\ \A d \in Calls \ {c} : backupsCalls'[d] = backupsCalls[d]
      /\ backupsCalls'[c].op = backupsCalls[c].op /\ backupsCalls'[c].id = backupsCalls[c].id
      /\ backupsCalls'[c].pc = "collected"
      /\ backupsCalls'[c].idx = backupsCalls[c].idx
  <2> DEFINE new == [backupsCalls[c] EXCEPT !.pc = "collected"]
  <2>1. backupsCalls' = [backupsCalls EXCEPT ![c] = new]
    BY <1>0, <1>1 DEF BackupTypes
  <2>2. backupsCalls[c] \in BackupCall BY <1>0 DEF BackupTypes
  <2>3. new \in BackupCall
    BY <1>0, <1>1, <2>2, CallBecomes DEF BackupTypes, Making
  <2>4. backupsCalls' \in [Calls -> BackupCall] /\ backupsCalls'[c] = new
    BY <1>0, <2>1, <2>3 DEF BackupTypes
  <2> QED BY <1>0, <2>1, <2>2, <2>4 DEF BackupTypes, BackupCall, Backups!Idle
<1>3. BackupTypes'
  <2>1. backupsClock' \in 0..MaxMade
    <3>1. CASE open BY <1>0, <1>1, <1>8, <3>1
    <3>2. CASE ~open BY <1>0, <1>1, <1>8, <3>2
    <3> QED BY <3>1, <3>2
  <2>2. stamps' \in [1..MaxMade -> 0..MaxMade] BY <1>0, <1>1, <1>8 DEF BackupTypes
  <2> QED BY <1>0, <1>1, <1>2, <2>1, <2>2 DEF BackupTypes
<1>4. BackupPlaces'
  BY <1>0, <1>1, <1>2 DEF BackupTypes, BackupPlaces, Making, Backups!Idle
<1>5. BackupGuards'
  <2>1. \A d \in Calls : backupsCalls'[d].op = backupsCalls[d].op BY <1>2
  <2> QED BY <1>0, <1>1, <2>1, GuardsKept
<1>6. BackupNumbers'
  <2>1. backupsClock' <= made
    <3>1. CASE open BY <1>1, <1>8, <3>1
    <3>2. CASE ~open BY <1>0, <1>1, <3>2 DEF BackupNumbers
    <3> QED BY <3>1, <3>2
  <2>2. \A d \in Calls : /\ backupsCalls'[d].op = backupsCalls[d].op /\ backupsCalls'[d].id = backupsCalls[d].id
                         /\ backupsCalls'[d].idx = backupsCalls[d].idx
                         /\ backupsCalls'[d].pc = "clock" => backupsCalls'[d] = backupsCalls[d]
    BY <1>2
  <2> QED BY <1>0, <1>1, <2>1, <2>2 DEF BackupNumbers, Listed
<1>7. ASSUME ~disturbed' PROVE BackupCalls' /\ BackupStamps' /\ BackupLists' /\ BackupRestores'
  <2>0. ~disturbed /\ BackupCalls /\ BackupStamps /\ BackupLists /\ BackupRestores
    BY <1>0, <1>1, <1>7
  <2>1. BackupCalls'
    BY <1>0, <1>1, <1>2, <1>7, <2>0 DEF BackupTypes, BackupPlaces, BackupCalls, Backups!Idle, Making
  <2>2. BackupStamps'
    <3>1. open /\ backupsCalls[c].clock = backupsClock BY <1>1, <2>0 DEF BackupCalls
    <3>2. backupsClock' = backupsClock + 1 BY <1>1, <3>1
    <3>3. \A i \in 1..MaxMade : stamps[i] \in 0..MaxMade /\ stamps[i] <= backupsClock
      BY <1>0, <2>0 DEF BackupTypes, BackupStamps
    <3>4. \A i \in 1..MaxMade : IF i = backupsCalls[c].id THEN stamps'[i] = backupsClock + 1
                                                         ELSE stamps'[i] = stamps[i]
      BY <1>0, <1>1, <1>8, <3>1 DEF BackupTypes
    <3> QED BY <1>8, <2>0, <3>2, <3>3, <3>4 DEF BackupStamps
  <2>3. BackupLists'
    BY <1>0, <1>1, <1>2, <1>7, <2>0 DEF BackupTypes, BackupPlaces, BackupLists, Listed, Making
  <2>4. BackupRestores'
    BY <1>0, <1>1, <1>2, <1>7, <2>0 DEF BackupTypes, BackupPlaces, BackupRestores, Making
  <2> QED BY <2>1, <2>2, <2>3, <2>4
<1> QED BY <1>3, <1>4, <1>5, <1>6, <1>7 DEF BackupsInv

(* The index is read.                                                        *)
LEMMA IndexReadStep ==
  ASSUME BackupsInv, NEW c \in Calls, Backups!IndexRead(c)
  PROVE  BackupsInv'
<1> USE DEF Backups!Ids
<1>0. /\ BackupTypes /\ BackupPlaces /\ BackupGuards /\ BackupNumbers
      /\ ~disturbed => BackupCalls /\ BackupStamps /\ BackupLists /\ BackupRestores
      /\ {MaxMade, MaxIndex} \subseteq Nat /\ Parts \in Nat \ {0}
  BY BoundsAssumption DEF BackupsInv
<1>1. /\ backupsCalls[c].pc = "collected"
      /\ backupsCalls' = [backupsCalls EXCEPT ![c].pc = "index", ![c].idx = IF open THEN index ELSE <<>>]
      /\ disturbed' \in BOOLEAN
      /\ ~disturbed' => /\ ~disturbed /\ open
                      /\ \A d \in Calls \ {c} : backupsCalls[d].pc \notin {"index", "delete"}
      /\ UNCHANGED <<open, enabled, custom, busy, index, backupsClock, legacy, made,
                     stamps, done, deleted, data, memory, told>>
  BY <1>0 DEF BackupTypes, BackupPlaces, Backups!IndexRead, Backups!At, Backups!Crosses, Backups!Others, Backups!settings, Backups!backups, Backups!content
<1>8. (IF open THEN index ELSE <<>>) \in Seq(Backups!Ids)
  <2>1. <<>> \in Seq(Backups!Ids) OBVIOUS
  <2>2. index \in Seq(Backups!Ids) BY <1>0 DEF BackupTypes
  <2> QED BY <2>1, <2>2
<1>2. /\ backupsCalls' \in [Calls -> BackupCall]
      /\ \A d \in Calls \ {c} : backupsCalls'[d] = backupsCalls[d]
      /\ backupsCalls'[c].op = backupsCalls[c].op /\ backupsCalls'[c].id = backupsCalls[c].id
      /\ backupsCalls'[c].pc = "index"
      /\ backupsCalls'[c].idx = IF open THEN index ELSE <<>>
  <2> DEFINE new == [backupsCalls[c] EXCEPT !.pc = "index", !.idx = IF open THEN index ELSE <<>>]
  <2>1. backupsCalls' = [backupsCalls EXCEPT ![c] = new]
    BY <1>0, <1>1 DEF BackupTypes
  <2>2. backupsCalls[c] \in BackupCall BY <1>0 DEF BackupTypes
  <2>3. new \in BackupCall
    BY <1>0, <1>1, <2>2, <1>8, CallBecomes DEF BackupTypes, Making
  <2>4. backupsCalls' \in [Calls -> BackupCall] /\ backupsCalls'[c] = new
    BY <1>0, <2>1, <2>3 DEF BackupTypes
  <2> QED BY <1>0, <2>1, <2>2, <2>4 DEF BackupTypes, BackupCall, Backups!Idle
<1>3. BackupTypes'
  BY <1>0, <1>1, <1>2 DEF BackupTypes
<1>4. BackupPlaces'
  BY <1>0, <1>1, <1>2 DEF BackupTypes, BackupPlaces, Making, Backups!Idle
<1>5. BackupGuards'
  <2>1. \A d \in Calls : backupsCalls'[d].op = backupsCalls[d].op BY <1>2
  <2> QED BY <1>0, <1>1, <2>1, GuardsKept
<1>6. BackupNumbers'
  <2>1. \A d \in Calls : /\ backupsCalls'[d].op = backupsCalls[d].op /\ backupsCalls'[d].id = backupsCalls[d].id
                         /\ backupsCalls'[d].pc = "clock" => backupsCalls'[d] = backupsCalls[d]
    BY <1>2
  <2>2. \A k \in 1..Len(backupsCalls'[c].idx) : Listed(backupsCalls'[c].idx[k], done)
    <3>1. CASE open BY <1>0, <1>2, <3>1 DEF BackupNumbers
    <3>2. CASE ~open BY <1>2, <3>2
    <3> QED BY <3>1, <3>2
  <2>3. \A d \in Calls : \A k \in 1..Len(backupsCalls'[d].idx) : Listed(backupsCalls'[d].idx[k], done)
    BY <1>0, <1>2, <2>2 DEF BackupNumbers
  <2>4. \A d \in Calls : backupsCalls'[d].pc = "clock" => backupsCalls'[d].clock < backupsCalls'[d].id
    BY <1>0, <2>1 DEF BackupNumbers
  <2>5. \A d \in Calls : backupsCalls'[d].op \in Making =>
          /\ backupsCalls'[d].id \in 1..made
          /\ ~Listed(backupsCalls'[d].id, done)
          /\ \A e \in Calls \ {d} : backupsCalls'[e].op \in Making => backupsCalls'[e].id # backupsCalls'[d].id
    BY <1>0, <2>1 DEF BackupNumbers
  <2>6. /\ backupsClock' <= made' /\ \A n \in 1..Len(done') : done'[n] <= made'
        /\ \A k \in 1..Len(index') : Listed(index'[k], done')
    BY <1>0, <1>1 DEF BackupNumbers
  <2>7. made' = made /\ done' = done BY <1>1
  <2> QED BY <2>3, <2>4, <2>5, <2>6, <2>7 DEF BackupNumbers, Listed
<1>7. ASSUME ~disturbed' PROVE BackupCalls' /\ BackupStamps' /\ BackupLists' /\ BackupRestores'
  <2>0. ~disturbed /\ BackupCalls /\ BackupStamps /\ BackupLists /\ BackupRestores
    BY <1>0, <1>1, <1>7
  <2>1. BackupCalls'
    BY <1>0, <1>1, <1>2, <1>7, <2>0 DEF BackupTypes, BackupPlaces, BackupCalls, Backups!Idle, Making
  <2>2. BackupStamps'
    BY <1>0, <1>1, <1>2, <1>7, <2>0 DEF BackupTypes, BackupPlaces, BackupStamps, Making
  <2>3. BackupLists'
    BY <1>0, <1>1, <1>2, <1>7, <2>0 DEF BackupTypes, BackupPlaces, BackupLists, Listed, Making
  <2>4. BackupRestores'
    BY <1>0, <1>1, <1>2, <1>7, <2>0 DEF BackupTypes, BackupPlaces, BackupRestores, Making
  <2> QED BY <2>1, <2>2, <2>3, <2>4
<1> QED BY <1>3, <1>4, <1>5, <1>6, <1>7 DEF BackupsInv

(* A backup begins: a number of its own, and the guard if it is for an event. *)
LEMMA BeginStep ==
  ASSUME BackupsInv, NEW c \in Calls, NEW op \in Making, Backups!Begin(c, op),
         busy' = (busy \/ op = "event"), op = "event" => ~busy
  PROVE  BackupsInv'
<1> USE DEF Backups!Ids
<1>0. /\ BackupTypes /\ BackupPlaces /\ BackupGuards /\ BackupNumbers
      /\ ~disturbed => BackupCalls /\ BackupStamps /\ BackupLists /\ BackupRestores
      /\ {MaxMade, MaxIndex} \subseteq Nat /\ Parts \in Nat \ {0}
  BY BoundsAssumption DEF BackupsInv
<1>1. /\ backupsCalls[c] = Backups!Idle
      /\ made < MaxMade /\ made' = made + 1
      /\ backupsCalls' = [backupsCalls EXCEPT ![c] = [Backups!Idle EXCEPT !.op = op, !.pc = "clock",
                                  !.id = made + 1, !.clock = IF open THEN backupsClock ELSE 0]]
      /\ disturbed' \in BOOLEAN
      /\ ~disturbed' => ~disturbed /\ open /\ \A d \in Calls \ {c} : backupsCalls[d].pc \notin {"clock"}
      /\ UNCHANGED <<open, enabled, custom, index, backupsClock, legacy, stamps, done,
                     deleted, data, memory, told>>
      /\ busy' = (busy \/ op = "event") /\ (op = "event" => ~busy)
  BY <1>0 DEF BackupTypes, BackupPlaces, Backups!Begin, Backups!Crosses, Backups!Others, Backups!settings, Backups!backups, Backups!content
<1>9. backupsCalls[c].op = "none" /\ backupsCalls[c].pc = "idle" BY <1>1 DEF Backups!Idle
<1>8. made \in 0..MaxMade /\ made + 1 \in 1..MaxMade /\ (IF open THEN backupsClock ELSE 0) \in 0..MaxMade
      /\ (IF open THEN backupsClock ELSE 0) <= made
  <2>1. backupsClock \in 0..MaxMade /\ backupsClock <= made /\ made \in 0..MaxMade
    BY <1>0 DEF BackupTypes, BackupNumbers
  <2>2. CASE open BY <1>0, <1>1, <2>1, <2>2
  <2>3. CASE ~open BY <1>0, <1>1, <2>1, <2>3
  <2> QED BY <2>2, <2>3
<1>2. /\ backupsCalls' \in [Calls -> BackupCall]
      /\ \A d \in Calls \ {c} : backupsCalls'[d] = backupsCalls[d]
      /\ backupsCalls'[c].op = op /\ backupsCalls'[c].pc = "clock" /\ backupsCalls'[c].id = made + 1
      /\ backupsCalls'[c].clock = (IF open THEN backupsClock ELSE 0)
      /\ backupsCalls'[c].idx = <<>> /\ Len(backupsCalls'[c].idx) = 0
  <2> DEFINE new == [Backups!Idle EXCEPT !.op = op, !.pc = "clock",
                !.id = made + 1, !.clock = IF open THEN backupsClock ELSE 0]
  <2>1. backupsCalls' = [backupsCalls EXCEPT ![c] = new]
    BY <1>0, <1>1 DEF BackupTypes
  <2>2. backupsCalls[c] \in BackupCall BY <1>0 DEF BackupTypes
  <2>3. new \in BackupCall
    <3>1. made + 1 \in 0..MaxMade BY <1>8
    <3>2. \A k \in 0..MaxMade : [Backups!Idle EXCEPT !.op = op, !.pc = "clock",
             !.id = made + 1, !.clock = k] \in BackupCall
      BY <3>1, CallBecomes
    <3> QED BY <1>8, <3>2
  <2>4. backupsCalls' \in [Calls -> BackupCall] /\ backupsCalls'[c] = new
    BY <1>0, <2>1, <2>3 DEF BackupTypes
  <2> QED BY <1>0, <2>1, <2>2, <2>4 DEF BackupTypes, BackupCall, Backups!Idle
<1>3. BackupTypes'
  BY <1>0, <1>1, <1>2, <1>9 DEF BackupTypes
<1>4. BackupPlaces'
  BY <1>0, <1>1, <1>2, <1>9 DEF BackupTypes, BackupPlaces, Making, Backups!Idle
<1>5. BackupGuards'
  <2>1. Backups!OneForEvents /\ Backups!GuardIsReleased BY <1>0 DEF BackupGuards
  <2>2. Backups!OneForEvents'
    <3> SUFFICES ASSUME NEW d \in Calls, backupsCalls'[d].op = "event"
                 PROVE  busy' /\ \A e \in Calls \ {d} : backupsCalls'[e].op # "event"
      BY DEF Backups!OneForEvents
    <3>1. CASE d = c
      <4>1. op = "event" /\ ~busy BY <1>1, <1>2, <3>1
      <4>2. \A e \in Calls : backupsCalls[e].op # "event" BY <2>1, <4>1 DEF Backups!OneForEvents
      <4> QED BY <1>1, <1>2, <3>1, <4>1, <4>2
    <3>2. CASE d # c
      <4>1. backupsCalls[d].op = "event" BY <1>2, <3>2
      <4>2. busy /\ \A e \in Calls \ {d} : backupsCalls[e].op # "event" BY <2>1, <4>1 DEF Backups!OneForEvents
      <4>3. op # "event" BY <1>1, <4>2
      <4> QED BY <1>1, <1>2, <3>2, <4>2, <4>3
    <3> QED BY <3>1, <3>2
  <2>3. Backups!GuardIsReleased'
    <3> SUFFICES ASSUME busy' PROVE \E d \in Calls : backupsCalls'[d].op = "event"
      BY DEF Backups!GuardIsReleased
    <3>1. CASE op = "event" BY <1>2, <3>1
    <3>2. CASE op # "event"
      <4>1. PICK d \in Calls : backupsCalls[d].op = "event" BY <1>1, <2>1, <3>2 DEF Backups!GuardIsReleased
      <4>2. d # c BY <1>9, <4>1
      <4> QED BY <1>2, <4>1, <4>2
    <3> QED BY <3>1, <3>2
  <2> QED BY <1>0, <1>1, <1>2, <2>2, <2>3 DEF BackupGuards, Making
<1>6. BackupNumbers'
  <2>1. ~Listed(made + 1, done) BY <1>0, <1>1, <1>8 DEF BackupNumbers, BackupTypes, Listed
  <2>2. \A d \in Calls \ {c} : backupsCalls[d].op \in Making => backupsCalls[d].id \in 1..made
    BY <1>0 DEF BackupNumbers
  <2>3. /\ backupsClock <= made + 1
        /\ \A n \in 1..Len(done) : done[n] <= made + 1
    BY <1>0, <1>1 DEF BackupNumbers, BackupTypes
  <2>4. \A d \in Calls : backupsCalls'[d].pc = "clock" => backupsCalls'[d].clock < backupsCalls'[d].id
    BY <1>0, <1>1, <1>2, <1>8 DEF BackupNumbers
  <2>5. \A d \in Calls : \A k \in 1..Len(backupsCalls'[d].idx) : Listed(backupsCalls'[d].idx[k], done)
    BY <1>0, <1>2 DEF BackupNumbers
  <2>6. \A d \in Calls : backupsCalls'[d].op \in Making =>
          /\ backupsCalls'[d].id \in 1..(made + 1)
          /\ ~Listed(backupsCalls'[d].id, done)
          /\ \A e \in Calls \ {d} : backupsCalls'[e].op \in Making => backupsCalls'[e].id # backupsCalls'[d].id
    <3> TAKE d \in Calls
    <3>1. CASE d = c BY <1>2, <1>8, <2>1, <2>2, <3>1
    <3>2. CASE d # c
      <4>1. backupsCalls'[d] = backupsCalls[d] BY <1>2, <3>2
      <4>2. backupsCalls[d].op \in Making =>
              /\ backupsCalls[d].id \in 1..made /\ backupsCalls[d].id # made + 1
              /\ ~Listed(backupsCalls[d].id, done)
              /\ \A e \in Calls \ {d} : backupsCalls[e].op \in Making => backupsCalls[e].id # backupsCalls[d].id
        BY <1>0, <1>8, <2>2, <3>2 DEF BackupNumbers
      <4>3. \A e \in Calls \ {d} : e = c \/ backupsCalls'[e] = backupsCalls[e] BY <1>2
      <4>4. 1..made \subseteq 1..(made + 1) BY <1>8
      <4> QED BY <1>2, <4>1, <4>2, <4>3, <4>4
    <3> QED BY <3>1, <3>2
  <2>7. \A k \in 1..Len(index) : Listed(index[k], done) BY <1>0 DEF BackupNumbers
  <2>8. made' = made + 1 /\ done' = done /\ index' = index /\ backupsClock' = backupsClock BY <1>1
  <2> QED BY <2>3, <2>4, <2>5, <2>6, <2>7, <2>8 DEF BackupNumbers, Listed
<1>7. ASSUME ~disturbed' PROVE BackupCalls' /\ BackupStamps' /\ BackupLists' /\ BackupRestores'
  <2>0. ~disturbed /\ BackupCalls /\ BackupStamps /\ BackupLists /\ BackupRestores
    BY <1>0, <1>1, <1>7
  <2>1. BackupCalls'
    BY <1>0, <1>1, <1>2, <1>9, <1>7, <2>0 DEF BackupTypes, BackupPlaces, BackupCalls, Backups!Idle, Making
  <2>2. BackupStamps'
    BY <1>0, <1>1, <1>2, <1>9, <1>7, <2>0 DEF BackupTypes, BackupPlaces, BackupStamps, Making
  <2>3. BackupLists'
    BY <1>0, <1>1, <1>2, <1>9, <1>7, <2>0 DEF BackupTypes, BackupPlaces, BackupLists, Listed, Making
  <2>4. BackupRestores'
    BY <1>0, <1>1, <1>2, <1>9, <1>7, <2>0 DEF BackupTypes, BackupPlaces, BackupRestores, Making
  <2> QED BY <2>1, <2>2, <2>3, <2>4
<1> QED BY <1>3, <1>4, <1>5, <1>6, <1>7 DEF BackupsInv

(* A step that begins and ends no backup keeps the numbers.                  *)
LEMMA NumbersKept ==
  ASSUME BackupNumbers, NEW c \in Calls,
         \A d \in Calls \ {c} : backupsCalls'[d] = backupsCalls[d],
         UNCHANGED <<backupsClock, made, done, index>>,
         backupsCalls'[c].op \notin Making, backupsCalls'[c].pc # "clock",
         \A k \in 1..Len(backupsCalls'[c].idx) : Listed(backupsCalls'[c].idx[k], done)
  PROVE  BackupNumbers'
<1>1. \A d \in Calls : \A k \in 1..Len(backupsCalls'[d].idx) : Listed(backupsCalls'[d].idx[k], done)
  BY DEF BackupNumbers
<1>2. \A d \in Calls : backupsCalls'[d].pc = "clock" => backupsCalls'[d].clock < backupsCalls'[d].id
  BY DEF BackupNumbers
<1>3. \A d \in Calls : backupsCalls'[d].op \in Making =>
        /\ backupsCalls'[d].id \in 1..made
        /\ ~Listed(backupsCalls'[d].id, done)
        /\ \A e \in Calls \ {d} : backupsCalls'[e].op \in Making => backupsCalls'[e].id # backupsCalls'[d].id
  BY DEF BackupNumbers
<1>4. /\ backupsClock' <= made' /\ \A n \in 1..Len(done') : done'[n] <= made'
      /\ \A k \in 1..Len(index') : Listed(index'[k], done')
  BY DEF BackupNumbers
<1> QED BY <1>1, <1>2, <1>3, <1>4 DEF BackupNumbers, Listed

(* A deletion reads the index.                                               *)
LEMMA DeleteStep ==
  ASSUME BackupsInv, NEW c \in Calls, NEW i \in Backups!Ids, Backups!Delete(c, i)
  PROVE  BackupsInv'
<1> USE DEF Backups!Ids
<1>0. /\ BackupTypes /\ BackupPlaces /\ BackupGuards /\ BackupNumbers
      /\ ~disturbed => BackupCalls /\ BackupStamps /\ BackupLists /\ BackupRestores
      /\ {MaxMade, MaxIndex} \subseteq Nat /\ Parts \in Nat \ {0}
  BY BoundsAssumption DEF BackupsInv
<1>1. /\ backupsCalls[c] = Backups!Idle
      /\ backupsCalls' = [backupsCalls EXCEPT ![c] =
           [Backups!Idle EXCEPT !.op = "delete", !.pc = "delete", !.id = i, !.idx = index]]
      /\ disturbed' \in BOOLEAN /\ open
      /\ ~disturbed' => ~disturbed /\ \A d \in Calls \ {c} : backupsCalls[d].pc \notin {"index", "delete"}
      /\ UNCHANGED <<open, enabled, custom, busy, index, backupsClock, legacy, made,
                     stamps, done, deleted, data, memory, told>>
  BY <1>0 DEF BackupTypes, BackupPlaces, Backups!Delete, Backups!Crosses, Backups!Others, Backups!settings, Backups!backups, Backups!content
<1>9. backupsCalls[c].op = "none" /\ backupsCalls[c].pc = "idle" BY <1>1 DEF Backups!Idle
<1>8. i \in 0..MaxMade /\ index \in Seq(Backups!Ids) BY <1>0 DEF BackupTypes
<1>2. /\ backupsCalls' \in [Calls -> BackupCall]
      /\ \A d \in Calls \ {c} : backupsCalls'[d] = backupsCalls[d]
      /\ backupsCalls'[c].op = "delete" /\ backupsCalls'[c].pc = "delete" /\ backupsCalls'[c].id = i
      /\ backupsCalls'[c].idx = index
  <2> DEFINE new == [Backups!Idle EXCEPT !.op = "delete", !.pc = "delete", !.id = i, !.idx = index]
  <2>1. backupsCalls' = [backupsCalls EXCEPT ![c] = new]
    BY <1>0, <1>1 DEF BackupTypes
  <2>2. backupsCalls[c] \in BackupCall BY <1>0 DEF BackupTypes
  <2>3. new \in BackupCall
    BY <1>0, <1>1, <2>2, <1>8, CallBecomes DEF BackupTypes, Making
  <2>4. backupsCalls' \in [Calls -> BackupCall] /\ backupsCalls'[c] = new
    BY <1>0, <2>1, <2>3 DEF BackupTypes
  <2> QED BY <1>0, <2>1, <2>2, <2>4 DEF BackupTypes, BackupCall, Backups!Idle
<1>3. BackupTypes'
  BY <1>0, <1>1, <1>2, <1>9 DEF BackupTypes
<1>4. BackupPlaces'
  BY <1>0, <1>1, <1>2, <1>9 DEF BackupTypes, BackupPlaces, Making, Backups!Idle
<1>5. BackupGuards'
  BY <1>0, <1>1, <1>2, <1>9 DEF BackupTypes, BackupPlaces, BackupGuards, Making, Backups!OneForEvents, Backups!GuardIsReleased
<1>6. BackupNumbers'
  <2>1. \A k \in 1..Len(backupsCalls'[c].idx) : Listed(backupsCalls'[c].idx[k], done)
    BY <1>0, <1>2 DEF BackupNumbers
  <2> QED BY <1>0, <1>1, <1>2, <2>1, NumbersKept DEF Making
<1>7. ASSUME ~disturbed' PROVE BackupCalls' /\ BackupStamps' /\ BackupLists' /\ BackupRestores'
  <2>0. ~disturbed /\ BackupCalls /\ BackupStamps /\ BackupLists /\ BackupRestores
    BY <1>0, <1>1, <1>7
  <2>1. BackupCalls'
    BY <1>0, <1>1, <1>2, <1>9, <1>7, <2>0 DEF BackupTypes, BackupPlaces, BackupCalls, Backups!Idle, Making
  <2>2. BackupStamps'
    BY <1>0, <1>1, <1>2, <1>9, <1>7, <2>0 DEF BackupTypes, BackupPlaces, BackupStamps, Making
  <2>3. BackupLists'
    BY <1>0, <1>1, <1>2, <1>9, <1>7, <2>0 DEF BackupTypes, BackupPlaces, BackupLists, Listed, Making
  <2>4. BackupRestores'
    BY <1>0, <1>1, <1>2, <1>9, <1>7, <2>0 DEF BackupTypes, BackupPlaces, BackupRestores, Making
  <2> QED BY <2>1, <2>2, <2>3, <2>4
<1> QED BY <1>3, <1>4, <1>5, <1>6, <1>7 DEF BackupsInv

(* A restore begins.                                                         *)
LEMMA RestoreStep ==
  ASSUME BackupsInv, NEW c \in Calls, Backups!Restore(c)
  PROVE  BackupsInv'
<1> USE DEF Backups!Ids
<1>0. /\ BackupTypes /\ BackupPlaces /\ BackupGuards /\ BackupNumbers
      /\ ~disturbed => BackupCalls /\ BackupStamps /\ BackupLists /\ BackupRestores
      /\ {MaxMade, MaxIndex} \subseteq Nat /\ Parts \in Nat \ {0}
  BY BoundsAssumption DEF BackupsInv
<1>1. /\ backupsCalls[c] = Backups!Idle
      /\ told = "none" /\ \A d \in Calls \ {c} : backupsCalls[d].op # "restore"
      /\ backupsCalls' = [backupsCalls EXCEPT ![c] =
           [Backups!Idle EXCEPT !.op = "restore", !.pc = "opening"]]
      /\ disturbed' \in BOOLEAN
      /\ ~disturbed' => ~disturbed /\ open
      /\ UNCHANGED <<open, enabled, custom, busy, index, backupsClock, legacy, made,
                     stamps, done, deleted, data, memory, told>>
  BY <1>0 DEF BackupTypes, BackupPlaces, Backups!Restore, Backups!Crosses, Backups!Others, Backups!settings, Backups!backups, Backups!content
<1>9. backupsCalls[c].op = "none" /\ backupsCalls[c].pc = "idle" BY <1>1 DEF Backups!Idle
<1>2. /\ backupsCalls' \in [Calls -> BackupCall]
      /\ \A d \in Calls \ {c} : backupsCalls'[d] = backupsCalls[d]
      /\ backupsCalls'[c].op = "restore" /\ backupsCalls'[c].pc = "opening"
      /\ backupsCalls'[c].idx = <<>> /\ Len(backupsCalls'[c].idx) = 0
  <2> DEFINE new == [Backups!Idle EXCEPT !.op = "restore", !.pc = "opening"]
  <2>1. backupsCalls' = [backupsCalls EXCEPT ![c] = new]
    BY <1>0, <1>1 DEF BackupTypes
  <2>2. backupsCalls[c] \in BackupCall BY <1>0 DEF BackupTypes
  <2>3. new \in BackupCall
    BY <1>0, <1>1, <2>2, CallBecomes DEF BackupTypes, Making
  <2>4. backupsCalls' \in [Calls -> BackupCall] /\ backupsCalls'[c] = new
    BY <1>0, <2>1, <2>3 DEF BackupTypes
  <2> QED BY <1>0, <2>1, <2>2, <2>4 DEF BackupTypes, BackupCall, Backups!Idle
<1>3. BackupTypes'
  BY <1>0, <1>1, <1>2, <1>9 DEF BackupTypes
<1>4. BackupPlaces'
  BY <1>0, <1>1, <1>2, <1>9 DEF BackupTypes, BackupPlaces, Making, Backups!Idle
<1>5. BackupGuards'
  BY <1>0, <1>1, <1>2, <1>9 DEF BackupTypes, BackupPlaces, BackupGuards, Making, Backups!OneForEvents, Backups!GuardIsReleased
<1>6. BackupNumbers'
  <2>1. \A k \in 1..Len(backupsCalls'[c].idx) : Listed(backupsCalls'[c].idx[k], done)
    BY <1>0, <1>2 DEF BackupNumbers
  <2> QED BY <1>0, <1>1, <1>2, <2>1, NumbersKept DEF Making
<1>7. ASSUME ~disturbed' PROVE BackupCalls' /\ BackupStamps' /\ BackupLists' /\ BackupRestores'
  <2>0. ~disturbed /\ BackupCalls /\ BackupStamps /\ BackupLists /\ BackupRestores
    BY <1>0, <1>1, <1>7
  <2>1. BackupCalls'
    BY <1>0, <1>1, <1>2, <1>9, <1>7, <2>0 DEF BackupTypes, BackupPlaces, BackupCalls, Backups!Idle, Making
  <2>2. BackupStamps'
    BY <1>0, <1>1, <1>2, <1>9, <1>7, <2>0 DEF BackupTypes, BackupPlaces, BackupStamps, Making
  <2>3. BackupLists'
    BY <1>0, <1>1, <1>2, <1>9, <1>7, <2>0 DEF BackupTypes, BackupPlaces, BackupLists, Listed, Making
  <2>4. BackupRestores'
    BY <1>0, <1>1, <1>2, <1>9, <1>7, <2>0 DEF BackupTypes, BackupPlaces, BackupRestores, Making
  <2> QED BY <2>1, <2>2, <2>3, <2>4
<1> QED BY <1>3, <1>4, <1>5, <1>6, <1>7 DEF BackupsInv

(* A list with one more entry: the entry comes last.                         *)
LEMMA OneMore ==
  ASSUME NEW S, NEW s \in Seq(S), NEW e \in S
  PROVE  /\ Append(s, e) \in Seq(S) /\ Len(s) \in Nat /\ Len(Append(s, e)) = Len(s) + 1
         /\ \A k \in 1..Len(s) : Append(s, e)[k] = s[k]
         /\ Append(s, e)[Len(s) + 1] = e
         /\ \A i : Listed(i, Append(s, e)) <=> Listed(i, s) \/ i = e
<1>1. /\ Append(s, e) \in Seq(S) /\ Len(s) \in Nat /\ Len(Append(s, e)) = Len(s) + 1
      /\ \A k \in 1..Len(s) : Append(s, e)[k] = s[k]
      /\ Append(s, e)[Len(s) + 1] = e
  OBVIOUS
<1>2. ASSUME NEW t, Len(t) = Len(s) + 1, \A k \in 1..Len(s) : t[k] = s[k], t[Len(s) + 1] = e, NEW i
      PROVE  Listed(i, t) <=> Listed(i, s) \/ i = e
  <2>1. \A k \in 1..(Len(s) + 1) : k \in 1..Len(s) \/ k = Len(s) + 1 BY <1>1
  <2>2. 1..Len(s) \subseteq 1..(Len(s) + 1) /\ Len(s) + 1 \in 1..(Len(s) + 1) BY <1>1
  <2> QED BY <1>2, <2>1, <2>2 DEF Listed
<1> QED BY <1>1, <1>2

(* The index with one more backup, cut to the newest. What was listed is     *)
(* listed, or it was the oldest of a full index; and the distance from the   *)
(* end of what is reported grows with that from the end of the index.        *)
LEMMA SavedLists ==
  ASSUME NEW S, NEW idx \in Seq(S), NEW all \in Seq(S), NEW i \in S, Len(idx) <= MaxIndex,
         ~Listed(i, all), \A k \in 1..Len(idx) : Listed(idx[k], all), NEW gone,
         \A n \in 1..Len(all) : Listed(all[n], idx) \/ all[n] \in gone \/ Len(all) - n >= MaxIndex,
         \A n \in 1..Len(all), k \in 1..Len(idx) : all[n] = idx[k] => n <= Len(all) - (Len(idx) - k),
         NEW new, NEW done2, new = Backups!LastOf(Append(idx, i)), done2 = Append(all, i)
  PROVE  /\ \A n \in 1..Len(done2) :
              Listed(done2[n], new) \/ done2[n] \in gone \/ Len(done2) - n >= MaxIndex
         /\ \A n \in 1..Len(done2), k \in 1..Len(new) :
              done2[n] = new[k] => n <= Len(done2) - (Len(new) - k)
<1> DEFINE s == Append(idx, i)
           cut == IF Len(s) > MaxIndex THEN 1 ELSE 0
<1>1. /\ s \in Seq(S) /\ Len(idx) \in Nat /\ Len(s) = Len(idx) + 1 /\ s[Len(idx) + 1] = i
      /\ \A k \in 1..Len(idx) : s[k] = idx[k]
  BY OneMore
<1>2. MaxIndex \in Nat BY BoundsAssumption
<1>3. /\ cut \in {0, 1} /\ Len(new) = Len(idx) + 1 - cut
      /\ \A k \in 1..(Len(idx) + 1 - cut) : new[k] = s[k + cut]
      /\ cut = 0 => Len(idx) + 1 <= MaxIndex
      /\ cut = 1 => Len(idx) = MaxIndex
  <2>0. new = Backups!LastOf(s) /\ s \in Seq(S) /\ Len(s) <= MaxIndex + 1
    BY <1>1, <1>2
  <2> HIDE DEF s
  <2>1. /\ Len(new) = Len(s) - cut /\ \A k \in 1..(Len(s) - cut) : new[k] = s[k + cut]
    BY <2>0, LastOfKeeps
  <2>2. CASE Len(s) > MaxIndex BY <1>1, <1>2, <2>1, <2>2
  <2>3. CASE ~(Len(s) > MaxIndex) BY <1>1, <1>2, <2>1, <2>3
  <2> QED BY <2>2, <2>3
<1>4. /\ Len(all) \in Nat /\ Len(done2) = Len(all) + 1 /\ done2[Len(all) + 1] = i
      /\ \A n \in 1..Len(all) : done2[n] = all[n]
  BY OneMore
<1> HIDE DEF s, cut
<1>5. ASSUME NEW n \in 1..Len(done2)
      PROVE  Listed(done2[n], new) \/ done2[n] \in gone \/ Len(done2) - n >= MaxIndex
  <2>1. CASE n = Len(all) + 1
    <3>1. CASE MaxIndex = 0 BY <1>2, <1>4, <2>1, <3>1
    <3>2. CASE MaxIndex > 0
      <4>1. Len(new) \in 1..Len(new) /\ new[Len(new)] = i BY <1>1, <1>2, <1>3, <3>2
      <4> QED BY <1>4, <2>1, <4>1 DEF Listed
    <3> QED BY <1>2, <3>1, <3>2
  <2>2. CASE n \in 1..Len(all)
    <3>1. CASE Listed(all[n], idx)
      <4>1. PICK k \in 1..Len(idx) : idx[k] = all[n] BY <3>1 DEF Listed
      <4>2. CASE k > cut
        <5>1. k - cut \in 1..Len(new) /\ new[k - cut] = all[n] BY <1>1, <1>3, <4>1, <4>2
        <5> QED BY <1>4, <2>2, <5>1 DEF Listed
      <4>3. CASE ~(k > cut)
        <5>1. cut = 1 /\ k = 1 /\ Len(idx) = MaxIndex BY <1>1, <1>3, <4>3
        <5>2. n <= Len(all) - (Len(idx) - k) BY <2>2, <4>1
        <5> QED BY <1>1, <1>2, <1>4, <5>1, <5>2
      <4> QED BY <4>2, <4>3
    <3>2. CASE all[n] \in gone BY <1>4, <2>2, <3>2
    <3>3. CASE Len(all) - n >= MaxIndex BY <1>2, <1>4, <2>2, <3>3
    <3> QED BY <2>2, <3>1, <3>2, <3>3
  <2> QED BY <1>4, <2>1, <2>2
<1>6. ASSUME NEW n \in 1..Len(done2), NEW k \in 1..Len(new), done2[n] = new[k]
      PROVE  n <= Len(done2) - (Len(new) - k)
  <2>1. k + cut \in 1..(Len(idx) + 1) /\ new[k] = s[k + cut] BY <1>1, <1>3
  <2>2. CASE k + cut = Len(idx) + 1 BY <1>1, <1>3, <1>4, <2>2
  <2>3. CASE k + cut \in 1..Len(idx)
    <3>1. new[k] = idx[k + cut] BY <1>1, <2>1, <2>3
    <3>2. n # Len(all) + 1
      <4>1. Listed(idx[k + cut], all) BY <2>3
      <4> QED BY <1>4, <1>6, <3>1, <4>1
    <3>3. n \in 1..Len(all) /\ all[n] = idx[k + cut] BY <1>4, <1>6, <3>1, <3>2
    <3>4. n <= Len(all) - (Len(idx) - (k + cut)) BY <2>3, <3>3
    <3> QED BY <1>1, <1>3, <1>4, <3>4
  <2> QED BY <1>1, <2>1, <2>2, <2>3
<1> QED BY <1>5, <1>6

(* The index is written back, and the backup reported.                       *)
LEMMA IndexSavedStep ==
  ASSUME BackupsInv, NEW c \in Calls, Backups!IndexSaved(c)
  PROVE  BackupsInv'
<1> USE DEF Backups!Ids
<1>0. /\ BackupTypes /\ BackupPlaces /\ BackupGuards /\ BackupNumbers
      /\ ~disturbed => BackupCalls /\ BackupStamps /\ BackupLists /\ BackupRestores
      /\ {MaxMade, MaxIndex} \subseteq Nat /\ Parts \in Nat \ {0}
  BY BoundsAssumption DEF BackupsInv
<1>1. /\ backupsCalls' = [backupsCalls EXCEPT ![c] = Backups!Idle]
      /\ busy' = (busy /\ backupsCalls[c].op # "event")
      /\ backupsCalls[c].pc = "index"
      /\ index' = IF open THEN Backups!LastOf(Append(backupsCalls[c].idx, backupsCalls[c].id)) ELSE index
      /\ legacy' = legacy \/ legacy' = Backups!LastOf(Append(legacy, backupsCalls[c].id))
      /\ done' = Append(done, backupsCalls[c].id)
      /\ UNCHANGED <<open, enabled, custom, backupsClock, made, stamps, deleted, data,
                     memory, told, disturbed>>
  BY <1>0 DEF BackupTypes, BackupPlaces, Backups!IndexSaved, Backups!At, Backups!Ends, Backups!settings, Backups!backups, Backups!content
<1>8. /\ backupsCalls[c].op \in Making /\ backupsCalls[c].id \in 1..made
      /\ backupsCalls[c].id \in Backups!Ids /\ ~Listed(backupsCalls[c].id, done)
      /\ backupsCalls[c].idx \in Seq(Backups!Ids) /\ Len(backupsCalls[c].idx) <= MaxIndex
      /\ \A k \in 1..Len(backupsCalls[c].idx) : Listed(backupsCalls[c].idx[k], done)
      /\ index \in Seq(Backups!Ids) /\ legacy \in Seq(Backups!Ids) /\ done \in Seq(Backups!Ids)
  BY <1>0, <1>1 DEF BackupTypes, BackupPlaces, BackupNumbers, BackupCall
<1>10. ASSUME NEW s \in Seq(Backups!Ids), Len(s) <= MaxIndex
       PROVE  /\ Backups!LastOf(Append(s, backupsCalls[c].id)) \in Seq(Backups!Ids)
              /\ Len(Backups!LastOf(Append(s, backupsCalls[c].id))) <= MaxIndex
              /\ \A k \in 1..Len(Backups!LastOf(Append(s, backupsCalls[c].id))) :
                   Listed(Backups!LastOf(Append(s, backupsCalls[c].id))[k], Append(s, backupsCalls[c].id))
  <2> DEFINE t == Append(s, backupsCalls[c].id)
             cut == IF Len(t) > MaxIndex THEN 1 ELSE 0
  <2>1. t \in Seq(Backups!Ids) /\ Len(t) \in Nat /\ Len(t) <= MaxIndex + 1
    BY <1>0, <1>8, <1>10, OneMore
  <2>2. /\ Backups!LastOf(t) \in Seq(Backups!Ids) /\ Len(Backups!LastOf(t)) <= MaxIndex
        /\ Len(Backups!LastOf(t)) = Len(t) - cut /\ cut \in {0, 1}
        /\ \A k \in 1..(Len(t) - cut) : Backups!LastOf(t)[k] = t[k + cut]
    BY <2>1, LastOfKeeps
  <2> HIDE DEF t, cut
  <2>3. \A k \in 1..Len(Backups!LastOf(t)) : k + cut \in 1..Len(t) /\ Backups!LastOf(t)[k] = t[k + cut]
    BY <2>1, <2>2
  <2> QED BY <2>2, <2>3 DEF Listed, t
<1>2. /\ backupsCalls' \in [Calls -> BackupCall]
      /\ \A d \in Calls \ {c} : backupsCalls'[d] = backupsCalls[d]
      /\ backupsCalls'[c] = Backups!Idle /\ backupsCalls'[c].op = "none" /\ backupsCalls'[c].pc = "idle"
      /\ backupsCalls'[c].idx = <<>> /\ Len(backupsCalls'[c].idx) = 0
  BY <1>0, <1>1, CallBecomes DEF BackupTypes, Backups!Idle
<1>3. BackupTypes'
  <2>1. index' \in Seq(Backups!Ids) /\ Len(index') <= MaxIndex
    <3>1. CASE open BY <1>1, <1>8, <1>10, <3>1
    <3>2. CASE ~open BY <1>0, <1>1, <1>8, <3>2 DEF BackupTypes
    <3> QED BY <3>1, <3>2
  <2>2. legacy' \in Seq(Backups!Ids) /\ Len(legacy') <= MaxIndex
    BY <1>0, <1>1, <1>8, <1>10 DEF BackupTypes
  <2>3. done' \in Seq(Backups!Ids) BY <1>1, <1>8, OneMore
  <2> QED BY <1>0, <1>1, <1>2, <2>1, <2>2, <2>3 DEF BackupTypes
<1>4. BackupPlaces'
  BY <1>0, <1>1, <1>2 DEF BackupTypes, BackupPlaces, Making, Backups!Idle
<1>5. BackupGuards'
  <2>1. Backups!OneForEvents /\ Backups!GuardIsReleased BY <1>0 DEF BackupGuards
  <2>2. Backups!OneForEvents'
    <3> SUFFICES ASSUME NEW d \in Calls, backupsCalls'[d].op = "event"
                 PROVE  busy' /\ \A e \in Calls \ {d} : backupsCalls'[e].op # "event"
      BY DEF Backups!OneForEvents
    <3>1. d # c /\ backupsCalls[d].op = "event" BY <1>2
    <3>2. busy /\ \A e \in Calls \ {d} : backupsCalls[e].op # "event" BY <2>1, <3>1 DEF Backups!OneForEvents
    <3> QED BY <1>1, <1>2, <3>1, <3>2
  <2>3. Backups!GuardIsReleased'
    <3> SUFFICES ASSUME busy' PROVE \E d \in Calls : backupsCalls'[d].op = "event"
      BY DEF Backups!GuardIsReleased
    <3>1. PICK d \in Calls : backupsCalls[d].op = "event" BY <1>1, <2>1 DEF Backups!GuardIsReleased
    <3>2. d # c BY <1>1, <3>1
    <3> QED BY <1>2, <3>1, <3>2
  <2> QED BY <1>0, <1>1, <1>2, <2>2, <2>3 DEF BackupGuards
<1>6. BackupNumbers'
  <2>1. /\ \A i : Listed(i, done') <=> Listed(i, done) \/ i = backupsCalls[c].id
        /\ Len(done) \in Nat /\ Len(done') = Len(done) + 1 /\ done'[Len(done) + 1] = backupsCalls[c].id
        /\ \A n \in 1..Len(done) : done'[n] = done[n]
    <3> HIDE DEF Backups!Ids
    <3>1. \A i : Listed(i, Append(done, backupsCalls[c].id)) <=> Listed(i, done) \/ i = backupsCalls[c].id
      BY <1>8, OneMore
    <3> QED BY <1>1, <1>8, <3>1, OneMore
  <2>2. \A n \in 1..Len(done') : done'[n] <= made
    <3> TAKE n \in 1..Len(done')
    <3>1. CASE n = Len(done) + 1 BY <1>8, <2>1, <3>1
    <3>2. CASE n \in 1..Len(done) BY <1>0, <2>1, <3>2 DEF BackupNumbers
    <3> QED BY <2>1, <3>1, <3>2
  <2>3. \A k \in 1..Len(index') : Listed(index'[k], done')
    <3>1. CASE ~open BY <1>0, <1>1, <2>1, <3>1 DEF BackupNumbers
    <3>2. CASE open
      <4> HIDE DEF Backups!Ids
      <4>1. index' = Backups!LastOf(Append(backupsCalls[c].idx, backupsCalls[c].id)) BY <1>1, <3>2
      <4>2. \A k \in 1..Len(index') : Listed(index'[k], Append(backupsCalls[c].idx, backupsCalls[c].id))
        BY <1>8, <1>10, <4>1
      <4>3. \A i : Listed(i, Append(backupsCalls[c].idx, backupsCalls[c].id)) <=>
                     Listed(i, backupsCalls[c].idx) \/ i = backupsCalls[c].id
        BY <1>8, OneMore
      <4>4. \A i : Listed(i, backupsCalls[c].idx) => Listed(i, done) BY <1>8 DEF Listed
      <4> QED BY <2>1, <4>2, <4>3, <4>4
    <3> QED BY <3>1, <3>2
  <2>4. \A d \in Calls : \A k \in 1..Len(backupsCalls'[d].idx) : Listed(backupsCalls'[d].idx[k], done')
    BY <1>0, <1>2, <2>1 DEF BackupNumbers
  <2>5. \A d \in Calls : backupsCalls'[d].pc = "clock" => backupsCalls'[d].clock < backupsCalls'[d].id
    BY <1>0, <1>2 DEF BackupNumbers
  <2>6. \A d \in Calls : backupsCalls'[d].op \in Making =>
          /\ backupsCalls'[d].id \in 1..made
          /\ ~Listed(backupsCalls'[d].id, done')
          /\ \A e \in Calls \ {d} : backupsCalls'[e].op \in Making => backupsCalls'[e].id # backupsCalls'[d].id
    <3> SUFFICES ASSUME NEW d \in Calls, backupsCalls'[d].op \in Making
                 PROVE  /\ backupsCalls'[d].id \in 1..made
                        /\ ~Listed(backupsCalls'[d].id, done')
                        /\ \A e \in Calls \ {d} :
                             backupsCalls'[e].op \in Making => backupsCalls'[e].id # backupsCalls'[d].id
      OBVIOUS
    <3>1. d # c /\ backupsCalls'[d] = backupsCalls[d] BY <1>2 DEF Making
    <3>2. /\ backupsCalls[d].id \in 1..made /\ ~Listed(backupsCalls[d].id, done)
          /\ \A e \in Calls \ {d} : backupsCalls[e].op \in Making => backupsCalls[e].id # backupsCalls[d].id
      BY <1>0, <3>1 DEF BackupNumbers
    <3>3. backupsCalls[d].id # backupsCalls[c].id BY <1>8, <3>1, <3>2
    <3>4. \A e \in Calls \ {d} : backupsCalls'[e].op \in Making => backupsCalls'[e] = backupsCalls[e]
      BY <1>2 DEF Making
    <3> QED BY <2>1, <3>1, <3>2, <3>3, <3>4
  <2>7. made' = made /\ backupsClock' = backupsClock /\ backupsClock <= made
    BY <1>0, <1>1 DEF BackupNumbers
  <2> QED BY <2>2, <2>3, <2>4, <2>5, <2>6, <2>7 DEF BackupNumbers, Listed
<1>7. ASSUME ~disturbed' PROVE BackupCalls' /\ BackupStamps' /\ BackupLists' /\ BackupRestores'
  <2>0. ~disturbed /\ BackupCalls /\ BackupStamps /\ BackupLists /\ BackupRestores
    BY <1>0, <1>1, <1>7
  <2>1. BackupCalls'
    <3>1. \A d \in Calls \ {c} : backupsCalls'[d].pc \notin {"index", "delete"}
      BY <1>1, <1>2, <2>0 DEF BackupCalls
    <3> QED BY <1>1, <1>2, <2>0, <3>1 DEF BackupCalls
  <2>2. BackupStamps'
    BY <1>0, <1>1, <1>2, <1>7, <2>0 DEF BackupTypes, BackupPlaces, BackupStamps, Making
  <2>3. BackupLists'
    <3>1. open /\ backupsCalls[c].idx = index BY <1>1, <2>0 DEF BackupCalls
    <3>2. index' = Backups!LastOf(Append(index, backupsCalls[c].id)) BY <1>1, <3>1
    <3>3. \A k \in 1..Len(index) : Listed(index[k], done) BY <1>8, <3>1
    <3>4. /\ \A n \in 1..Len(done) :
               Listed(done[n], index) \/ done[n] \in deleted \/ Len(done) - n >= MaxIndex
          /\ \A n \in 1..Len(done), k \in 1..Len(index) :
               done[n] = index[k] => n <= Len(done) - (Len(index) - k)
      BY <2>0 DEF BackupLists
    <3>5. Len(index) <= MaxIndex BY <1>8, <3>1
    <3>6. /\ \A n \in 1..Len(done') :
               Listed(done'[n], index') \/ done'[n] \in deleted \/ Len(done') - n >= MaxIndex
          /\ \A n \in 1..Len(done'), k \in 1..Len(index') :
               done'[n] = index'[k] => n <= Len(done') - (Len(index') - k)
      <4> HIDE DEF Backups!Ids
      <4>1. /\ index \in Seq(Backups!Ids) /\ done \in Seq(Backups!Ids) /\ backupsCalls[c].id \in Backups!Ids
            /\ ~Listed(backupsCalls[c].id, done) /\ done' = Append(done, backupsCalls[c].id)
        BY <1>1, <1>8
      <4> QED BY <3>2, <3>3, <3>4, <3>5, <4>1, SavedLists, ZenonT(60)
    <3>7. deleted' = deleted BY <1>1
    <3> QED BY <3>6, <3>7 DEF BackupLists, Listed
  <2>4. BackupRestores'
    BY <1>0, <1>1, <1>2, <1>7, <2>0 DEF BackupTypes, BackupPlaces, BackupRestores, Making
  <2> QED BY <2>1, <2>2, <2>3, <2>4
<1> QED BY <1>3, <1>4, <1>5, <1>6, <1>7 DEF BackupsInv

(* The index is written back without the entry.                              *)
LEMMA DeleteSavedStep ==
  ASSUME BackupsInv, NEW c \in Calls, Backups!DeleteSaved(c)
  PROVE  BackupsInv'
<1> USE DEF Backups!Ids
<1>0. /\ BackupTypes /\ BackupPlaces /\ BackupGuards /\ BackupNumbers
      /\ ~disturbed => BackupCalls /\ BackupStamps /\ BackupLists /\ BackupRestores
      /\ {MaxMade, MaxIndex} \subseteq Nat /\ Parts \in Nat \ {0}
  BY BoundsAssumption DEF BackupsInv
<1>1. /\ backupsCalls' = [backupsCalls EXCEPT ![c] = Backups!Idle]
      /\ busy' = (busy /\ backupsCalls[c].op # "event")
      /\ backupsCalls[c].pc = "delete"
      /\ index' = IF open THEN Backups!Without(backupsCalls[c].idx, backupsCalls[c].id) ELSE index
      /\ deleted' = deleted \cup {backupsCalls[c].id}
      /\ UNCHANGED <<open, enabled, custom, backupsClock, legacy, made, stamps, done,
                     data, memory, told, disturbed>>
  BY <1>0 DEF BackupTypes, BackupPlaces, Backups!DeleteSaved, Backups!At, Backups!Ends, Backups!settings, Backups!backups, Backups!content
<1>8. /\ backupsCalls[c].op = "delete" /\ backupsCalls[c].id \in Backups!Ids
      /\ backupsCalls[c].idx \in Seq(Backups!Ids) /\ Len(backupsCalls[c].idx) <= MaxIndex
      /\ Len(backupsCalls[c].idx) \in Nat
      /\ \A k \in 1..Len(backupsCalls[c].idx) : Listed(backupsCalls[c].idx[k], done)
      /\ index \in Seq(Backups!Ids) /\ done \in Seq(Backups!Ids)
  BY <1>0, <1>1 DEF BackupTypes, BackupPlaces, BackupNumbers, BackupCall
<1>10. /\ Backups!Without(backupsCalls[c].idx, backupsCalls[c].id) \in Seq(Backups!Ids)
       /\ Len(Backups!Without(backupsCalls[c].idx, backupsCalls[c].id)) \in Nat
       /\ Len(Backups!Without(backupsCalls[c].idx, backupsCalls[c].id)) <= Len(backupsCalls[c].idx)
       /\ \A n \in 1..Len(backupsCalls[c].idx) : backupsCalls[c].idx[n] # backupsCalls[c].id =>
            \E j \in 1..Len(Backups!Without(backupsCalls[c].idx, backupsCalls[c].id)) :
              Backups!Without(backupsCalls[c].idx, backupsCalls[c].id)[j] = backupsCalls[c].idx[n]
       /\ \A j \in 1..Len(Backups!Without(backupsCalls[c].idx, backupsCalls[c].id)) :
            \E n \in 1..Len(backupsCalls[c].idx) :
              /\ backupsCalls[c].idx[n] = Backups!Without(backupsCalls[c].idx, backupsCalls[c].id)[j]
              /\ Len(backupsCalls[c].idx) - n >=
                   Len(Backups!Without(backupsCalls[c].idx, backupsCalls[c].id)) - j
  <2> HIDE DEF Backups!Ids
  <2> DEFINE old == backupsCalls[c].idx
             gone == backupsCalls[c].id
             rng == Backups!Ids
             left == Backups!Without(old, gone)
  <2>0. old \in Seq(rng) BY <1>8
  <2> HIDE DEF old, gone, rng
  <2>3. LeavesOthers(rng, old, gone, left) BY <2>0, WithoutKeeps
  <2>1. /\ left \in Seq(rng) /\ Len(left) <= Len(old)
        /\ \A n \in 1..Len(old) : old[n] # gone => \E j \in 1..Len(left) : left[j] = old[n]
        /\ \A j \in 1..Len(left) : \E n \in 1..Len(old) :
             old[n] = left[j] /\ Len(old) - n >= Len(left) - j
    BY <2>3, Zenon DEF LeavesOthers
  <2>2. Len(left) \in Nat BY <2>1
  <2> QED BY <2>1, <2>2, Zenon DEF old, gone, rng
<1>2. /\ backupsCalls' \in [Calls -> BackupCall]
      /\ \A d \in Calls \ {c} : backupsCalls'[d] = backupsCalls[d]
      /\ backupsCalls'[c] = Backups!Idle /\ backupsCalls'[c].op = "none" /\ backupsCalls'[c].pc = "idle"
      /\ backupsCalls'[c].idx = <<>> /\ Len(backupsCalls'[c].idx) = 0
  BY <1>0, <1>1, CallBecomes DEF BackupTypes, Backups!Idle
<1>3. BackupTypes'
  <2>1. index' \in Seq(Backups!Ids) /\ Len(index') <= MaxIndex
    <3>1. CASE open BY <1>0, <1>1, <1>8, <1>10, <3>1
    <3>2. CASE ~open BY <1>0, <1>1, <1>8, <3>2 DEF BackupTypes
    <3> QED BY <3>1, <3>2
  <2> QED BY <1>0, <1>1, <1>2, <1>8, <2>1 DEF BackupTypes
<1>4. BackupPlaces'
  BY <1>0, <1>1, <1>2 DEF BackupTypes, BackupPlaces, Making, Backups!Idle
<1>5. BackupGuards'
  <2>1. Backups!OneForEvents /\ Backups!GuardIsReleased BY <1>0 DEF BackupGuards
  <2>2. Backups!OneForEvents'
    <3> SUFFICES ASSUME NEW d \in Calls, backupsCalls'[d].op = "event"
                 PROVE  busy' /\ \A e \in Calls \ {d} : backupsCalls'[e].op # "event"
      BY DEF Backups!OneForEvents
    <3>1. d # c /\ backupsCalls[d].op = "event" BY <1>2
    <3>2. busy /\ \A e \in Calls \ {d} : backupsCalls[e].op # "event" BY <2>1, <3>1 DEF Backups!OneForEvents
    <3> QED BY <1>1, <1>2, <3>1, <3>2
  <2>3. Backups!GuardIsReleased'
    <3> SUFFICES ASSUME busy' PROVE \E d \in Calls : backupsCalls'[d].op = "event"
      BY DEF Backups!GuardIsReleased
    <3>1. PICK d \in Calls : backupsCalls[d].op = "event" BY <1>1, <2>1 DEF Backups!GuardIsReleased
    <3>2. d # c BY <1>1, <3>1
    <3> QED BY <1>2, <3>1, <3>2
  <2> QED BY <1>0, <1>1, <1>2, <2>2, <2>3 DEF BackupGuards
<1>6. BackupNumbers'
  <2>1. \A k \in 1..Len(index') : Listed(index'[k], done)
    <3>1. CASE ~open BY <1>0, <1>1, <3>1 DEF BackupNumbers
    <3>2. CASE open
      <4> TAKE k \in 1..Len(index')
      <4>1. index' = Backups!Without(backupsCalls[c].idx, backupsCalls[c].id) BY <1>1, <3>2
      <4>2. PICK n \in 1..Len(backupsCalls[c].idx) : backupsCalls[c].idx[n] = index'[k]
        BY <1>10, <4>1
      <4> QED BY <1>8, <4>2
    <3> QED BY <3>1, <3>2
  <2>2. \A d \in Calls : \A k \in 1..Len(backupsCalls'[d].idx) : Listed(backupsCalls'[d].idx[k], done)
    BY <1>0, <1>2 DEF BackupNumbers
  <2>3. \A d \in Calls : backupsCalls'[d].pc = "clock" => backupsCalls'[d].clock < backupsCalls'[d].id
    BY <1>0, <1>2 DEF BackupNumbers
  <2>4. \A d \in Calls : backupsCalls'[d].op \in Making =>
          /\ backupsCalls'[d].id \in 1..made
          /\ ~Listed(backupsCalls'[d].id, done)
          /\ \A e \in Calls \ {d} : backupsCalls'[e].op \in Making => backupsCalls'[e].id # backupsCalls'[d].id
    <3>1. \A d \in Calls : backupsCalls'[d].op \in Making => backupsCalls'[d] = backupsCalls[d]
      BY <1>2 DEF Making
    <3> QED BY <1>0, <3>1 DEF BackupNumbers
  <2>5. /\ made' = made /\ backupsClock' = backupsClock /\ backupsClock <= made /\ done' = done
        /\ \A n \in 1..Len(done) : done[n] <= made
    BY <1>0, <1>1 DEF BackupNumbers
  <2> QED BY <2>1, <2>2, <2>3, <2>4, <2>5 DEF BackupNumbers, Listed
<1>7. ASSUME ~disturbed' PROVE BackupCalls' /\ BackupStamps' /\ BackupLists' /\ BackupRestores'
  <2>0. ~disturbed /\ BackupCalls /\ BackupStamps /\ BackupLists /\ BackupRestores
    BY <1>0, <1>1, <1>7
  <2>1. BackupCalls'
    <3>1. \A d \in Calls \ {c} : backupsCalls'[d].pc \notin {"index", "delete"}
      BY <1>1, <1>2, <2>0 DEF BackupCalls
    <3> QED BY <1>1, <1>2, <2>0, <3>1 DEF BackupCalls
  <2>2. BackupStamps'
    BY <1>0, <1>1, <1>2, <1>7, <2>0 DEF BackupTypes, BackupPlaces, BackupStamps, Making
  <2>3. BackupLists'
    <3>1. open /\ backupsCalls[c].idx = index BY <1>1, <2>0 DEF BackupCalls
    <3>2. /\ \A n \in 1..Len(index) : index[n] # backupsCalls[c].id => \E j \in 1..Len(index') : index'[j] = index[n]
          /\ \A j \in 1..Len(index') : \E n \in 1..Len(index) :
               index[n] = index'[j] /\ Len(index) - n >= Len(index') - j
          /\ Len(index) \in Nat /\ Len(index') \in Nat /\ Len(done) \in Nat
      BY <1>1, <1>8, <1>10, <3>1
    <3>3. \A n \in 1..Len(done) :
            Listed(done[n], index') \/ done[n] \in deleted' \/ Len(done) - n >= MaxIndex
      <4> SUFFICES ASSUME NEW n \in 1..Len(done), ~(Len(done) - n >= MaxIndex), done[n] \notin deleted'
                   PROVE  Listed(done[n], index')
        OBVIOUS
      <4>1. Listed(done[n], index) /\ done[n] # backupsCalls[c].id BY <1>1, <2>0 DEF BackupLists
      <4> QED BY <3>2, <4>1 DEF Listed
    <3>4. \A n \in 1..Len(done), k \in 1..Len(index') :
            done[n] = index'[k] => n <= Len(done) - (Len(index') - k)
      <4> SUFFICES ASSUME NEW n \in 1..Len(done), NEW k \in 1..Len(index'), done[n] = index'[k]
                   PROVE  n <= Len(done) - (Len(index') - k)
        OBVIOUS
      <4>1. PICK j \in 1..Len(index) : index[j] = index'[k] /\ Len(index) - j >= Len(index') - k BY <3>2
      <4>2. n <= Len(done) - (Len(index) - j) BY <2>0, <4>1 DEF BackupLists
      <4> QED BY <3>2, <4>1, <4>2
    <3>5. done' = done BY <1>1
    <3> QED BY <3>3, <3>4, <3>5 DEF BackupLists, Listed
  <2>4. BackupRestores'
    BY <1>0, <1>1, <1>2, <1>7, <2>0 DEF BackupTypes, BackupPlaces, BackupRestores, Making
  <2> QED BY <2>1, <2>2, <2>3, <2>4
<1> QED BY <1>3, <1>4, <1>5, <1>6, <1>7 DEF BackupsInv

(* A file is refused: nothing of it was written.                             *)
LEMMA RefusedStep ==
  ASSUME BackupsInv, NEW c \in Calls, Backups!Accepted(c, FALSE)
  PROVE  BackupsInv'
<1> USE DEF Backups!Ids
<1>0. /\ BackupTypes /\ BackupPlaces /\ BackupGuards /\ BackupNumbers
      /\ ~disturbed => BackupCalls /\ BackupStamps /\ BackupLists /\ BackupRestores
      /\ {MaxMade, MaxIndex} \subseteq Nat /\ Parts \in Nat \ {0}
  BY BoundsAssumption DEF BackupsInv
<1>1. /\ backupsCalls' = [backupsCalls EXCEPT ![c] = Backups!Idle]
      /\ backupsCalls[c].pc = "opening" /\ told' = "refused"
      /\ UNCHANGED <<open, enabled, custom, busy, index, backupsClock, legacy, made,
                     stamps, done, deleted, data, memory, disturbed>>
  BY <1>0 DEF BackupTypes, BackupPlaces, Backups!Accepted, Backups!At, Backups!settings, Backups!backups, Backups!content
<1>2. /\ backupsCalls' \in [Calls -> BackupCall]
      /\ \A d \in Calls \ {c} : backupsCalls'[d] = backupsCalls[d]
      /\ backupsCalls'[c] = Backups!Idle /\ backupsCalls'[c].op = "none" /\ backupsCalls'[c].pc = "idle"
      /\ backupsCalls'[c].idx = <<>> /\ Len(backupsCalls'[c].idx) = 0
  BY <1>0, <1>1, CallBecomes DEF BackupTypes, Backups!Idle
<1>3. BackupTypes'
  BY <1>0, <1>1, <1>2 DEF BackupTypes
<1>4. BackupPlaces'
  BY <1>0, <1>1, <1>2 DEF BackupTypes, BackupPlaces, Making, Backups!Idle
<1>5. BackupGuards'
  <2>1. backupsCalls[c].op = "restore" BY <1>0, <1>1 DEF BackupPlaces
  <2>2. \A d \in Calls \ {c} : backupsCalls[d].op # "restore" BY <1>0, <2>1 DEF BackupGuards
  <2>3. Backups!OneForEvents' BY <1>0, <1>1, <1>2 DEF BackupGuards, Backups!OneForEvents
  <2>4. Backups!GuardIsReleased'
    <3> SUFFICES ASSUME busy' PROVE \E d \in Calls : backupsCalls'[d].op = "event"
      BY DEF Backups!GuardIsReleased
    <3>1. PICK d \in Calls : backupsCalls[d].op = "event"
      BY <1>0, <1>1 DEF BackupGuards, Backups!GuardIsReleased
    <3> QED BY <1>2, <2>1, <3>1
  <2> QED BY <1>2, <2>2, <2>3, <2>4 DEF BackupGuards
<1>6. BackupNumbers'
  <2>1. \A k \in 1..Len(backupsCalls'[c].idx) : Listed(backupsCalls'[c].idx[k], done)
    BY <1>0, <1>2 DEF BackupNumbers
  <2> QED BY <1>0, <1>1, <1>2, <2>1, NumbersKept DEF Making
<1>7. ASSUME ~disturbed' PROVE BackupCalls' /\ BackupStamps' /\ BackupLists' /\ BackupRestores'
  <2>0. ~disturbed /\ BackupCalls /\ BackupStamps /\ BackupLists /\ BackupRestores
    BY <1>0, <1>1, <1>7
  <2>1. BackupCalls'
    BY <1>0, <1>1, <1>2, <1>7, <2>0 DEF BackupTypes, BackupPlaces, BackupCalls, Backups!Idle, Making
  <2>2. BackupStamps'
    BY <1>0, <1>1, <1>2, <1>7, <2>0 DEF BackupTypes, BackupPlaces, BackupStamps, Making
  <2>3. BackupLists'
    BY <1>0, <1>1, <1>2, <1>7, <2>0 DEF BackupTypes, BackupPlaces, BackupLists, Listed, Making
  <2>4. BackupRestores'
    <3>1. backupsCalls[c].op = "restore" BY <1>0, <1>1 DEF BackupPlaces
    <3>2. told = "none" /\ \A d \in Calls \ {c} : backupsCalls[d].op # "restore" BY <1>0, <3>1 DEF BackupGuards
    <3>3. \A d \in Calls : backupsCalls[d].pc # "writing" BY <1>0, <1>1, <3>2 DEF BackupPlaces
    <3>4. \A k \in 1..Parts : data[k] = "old" BY <2>0, <3>2, <3>3 DEF BackupRestores
    <3>5. \A d \in Calls : backupsCalls'[d].pc # "writing" BY <1>2, <3>3
    <3> QED BY <1>1, <3>4, <3>5 DEF BackupRestores
  <2> QED BY <2>1, <2>2, <2>3, <2>4
<1> QED BY <1>3, <1>4, <1>5, <1>6, <1>7 DEF BackupsInv

(* A file is accepted: the writing begins.                                   *)
LEMMA AcceptedStep ==
  ASSUME BackupsInv, NEW c \in Calls, Backups!Accepted(c, TRUE)
  PROVE  BackupsInv'
<1> USE DEF Backups!Ids
<1>0. /\ BackupTypes /\ BackupPlaces /\ BackupGuards /\ BackupNumbers
      /\ ~disturbed => BackupCalls /\ BackupStamps /\ BackupLists /\ BackupRestores
      /\ {MaxMade, MaxIndex} \subseteq Nat /\ Parts \in Nat \ {0}
  BY BoundsAssumption DEF BackupsInv
<1>1. /\ backupsCalls[c].pc = "opening"
      /\ backupsCalls' = [backupsCalls EXCEPT ![c].pc = "writing", ![c].at = 1]
      /\ UNCHANGED <<open, enabled, custom, busy, index, backupsClock, legacy, made,
                     stamps, done, deleted, data, memory, told, disturbed>>
  BY <1>0 DEF BackupTypes, BackupPlaces, Backups!Accepted, Backups!At, Backups!settings, Backups!backups, Backups!content
<1>8. backupsCalls[c].op = "restore" /\ told = "none"
      /\ \A d \in Calls \ {c} : backupsCalls[d].op # "restore" /\ backupsCalls[d].pc # "writing"
  BY <1>0, <1>1 DEF BackupPlaces, BackupGuards
<1>2. /\ backupsCalls' \in [Calls -> BackupCall]
      /\ \A d \in Calls \ {c} : backupsCalls'[d] = backupsCalls[d]
      /\ backupsCalls'[c].op = backupsCalls[c].op /\ backupsCalls'[c].id = backupsCalls[c].id
      /\ backupsCalls'[c].pc = "writing"
      /\ backupsCalls'[c].idx = backupsCalls[c].idx /\ backupsCalls'[c].at = 1
  <2> DEFINE new == [backupsCalls[c] EXCEPT !.pc = "writing", !.at = 1]
  <2>1. backupsCalls' = [backupsCalls EXCEPT ![c] = new]
    BY <1>0, <1>1 DEF BackupTypes
  <2>2. backupsCalls[c] \in BackupCall BY <1>0 DEF BackupTypes
  <2>3. new \in BackupCall
    BY <1>0, <1>1, <2>2, CallBecomes DEF BackupTypes, Making
  <2>4. backupsCalls' \in [Calls -> BackupCall] /\ backupsCalls'[c] = new
    BY <1>0, <2>1, <2>3 DEF BackupTypes
  <2> QED BY <1>0, <2>1, <2>2, <2>4 DEF BackupTypes, BackupCall, Backups!Idle
<1>3. BackupTypes'
  BY <1>0, <1>1, <1>2 DEF BackupTypes
<1>4. BackupPlaces'
  BY <1>0, <1>1, <1>2 DEF BackupTypes, BackupPlaces, Making, Backups!Idle
<1>5. BackupGuards'
  <2>1. \A d \in Calls : backupsCalls'[d].op = backupsCalls[d].op BY <1>2
  <2> QED BY <1>0, <1>1, <2>1, GuardsKept
<1>6. BackupNumbers'
  <2>1. \A k \in 1..Len(backupsCalls'[c].idx) : Listed(backupsCalls'[c].idx[k], done)
    BY <1>0, <1>2 DEF BackupNumbers
  <2> QED BY <1>0, <1>1, <1>2, <1>8, <2>1, NumbersKept DEF Making
<1>7. ASSUME ~disturbed' PROVE BackupCalls' /\ BackupStamps' /\ BackupLists' /\ BackupRestores'
  <2>0. ~disturbed /\ BackupCalls /\ BackupStamps /\ BackupLists /\ BackupRestores
    BY <1>0, <1>1, <1>7
  <2>1. BackupCalls'
    BY <1>0, <1>1, <1>2, <1>7, <2>0 DEF BackupTypes, BackupPlaces, BackupCalls, Backups!Idle, Making
  <2>2. BackupStamps'
    BY <1>0, <1>1, <1>2, <1>7, <2>0 DEF BackupTypes, BackupPlaces, BackupStamps, Making
  <2>3. BackupLists'
    BY <1>0, <1>1, <1>2, <1>7, <2>0 DEF BackupTypes, BackupPlaces, BackupLists, Listed, Making
  <2>4. BackupRestores'
    BY <1>0, <1>1, <1>2, <1>7, <2>0 DEF BackupTypes, BackupPlaces, BackupRestores, Making
  <2> QED BY <2>1, <2>2, <2>3, <2>4
<1> QED BY <1>3, <1>4, <1>5, <1>6, <1>7 DEF BackupsInv

(* A write throws.                                                           *)
LEMMA WriteFailsStep ==
  ASSUME BackupsInv, NEW c \in Calls, Backups!WriteFails(c)
  PROVE  BackupsInv'
<1> USE DEF Backups!Ids
<1>0. /\ BackupTypes /\ BackupPlaces /\ BackupGuards /\ BackupNumbers
      /\ ~disturbed => BackupCalls /\ BackupStamps /\ BackupLists /\ BackupRestores
      /\ {MaxMade, MaxIndex} \subseteq Nat /\ Parts \in Nat \ {0}
  BY BoundsAssumption DEF BackupsInv
<1>1. /\ backupsCalls' = [backupsCalls EXCEPT ![c] = Backups!Idle]
      /\ backupsCalls[c].pc = "writing" /\ told' = "failed"
      /\ UNCHANGED <<open, enabled, custom, busy, index, backupsClock, legacy, made,
                     stamps, done, deleted, data, memory, disturbed>>
  BY <1>0 DEF BackupTypes, BackupPlaces, Backups!WriteFails, Backups!At, Backups!settings, Backups!backups, Backups!content
<1>2. /\ backupsCalls' \in [Calls -> BackupCall]
      /\ \A d \in Calls \ {c} : backupsCalls'[d] = backupsCalls[d]
      /\ backupsCalls'[c] = Backups!Idle /\ backupsCalls'[c].op = "none" /\ backupsCalls'[c].pc = "idle"
      /\ backupsCalls'[c].idx = <<>> /\ Len(backupsCalls'[c].idx) = 0
  BY <1>0, <1>1, CallBecomes DEF BackupTypes, Backups!Idle
<1>3. BackupTypes'
  BY <1>0, <1>1, <1>2 DEF BackupTypes
<1>4. BackupPlaces'
  BY <1>0, <1>1, <1>2 DEF BackupTypes, BackupPlaces, Making, Backups!Idle
<1>5. BackupGuards'
  <2>1. backupsCalls[c].op = "restore" BY <1>0, <1>1 DEF BackupPlaces
  <2>2. \A d \in Calls \ {c} : backupsCalls[d].op # "restore" BY <1>0, <2>1 DEF BackupGuards
  <2>3. Backups!OneForEvents' BY <1>0, <1>1, <1>2 DEF BackupGuards, Backups!OneForEvents
  <2>4. Backups!GuardIsReleased'
    <3> SUFFICES ASSUME busy' PROVE \E d \in Calls : backupsCalls'[d].op = "event"
      BY DEF Backups!GuardIsReleased
    <3>1. PICK d \in Calls : backupsCalls[d].op = "event"
      BY <1>0, <1>1 DEF BackupGuards, Backups!GuardIsReleased
    <3> QED BY <1>2, <2>1, <3>1
  <2> QED BY <1>2, <2>2, <2>3, <2>4 DEF BackupGuards
<1>6. BackupNumbers'
  <2>1. \A k \in 1..Len(backupsCalls'[c].idx) : Listed(backupsCalls'[c].idx[k], done)
    BY <1>0, <1>2 DEF BackupNumbers
  <2> QED BY <1>0, <1>1, <1>2, <2>1, NumbersKept DEF Making
<1>7. ASSUME ~disturbed' PROVE BackupCalls' /\ BackupStamps' /\ BackupLists' /\ BackupRestores'
  <2>0. ~disturbed /\ BackupCalls /\ BackupStamps /\ BackupLists /\ BackupRestores
    BY <1>0, <1>1, <1>7
  <2>1. BackupCalls'
    BY <1>0, <1>1, <1>2, <1>7, <2>0 DEF BackupTypes, BackupPlaces, BackupCalls, Backups!Idle, Making
  <2>2. BackupStamps'
    BY <1>0, <1>1, <1>2, <1>7, <2>0 DEF BackupTypes, BackupPlaces, BackupStamps, Making
  <2>3. BackupLists'
    BY <1>0, <1>1, <1>2, <1>7, <2>0 DEF BackupTypes, BackupPlaces, BackupLists, Listed, Making
  <2>4. BackupRestores'
    <3>1. backupsCalls[c].op = "restore" BY <1>0, <1>1 DEF BackupPlaces
    <3>2. \A d \in Calls \ {c} : backupsCalls[d].op # "restore" BY <1>0, <3>1 DEF BackupGuards
    <3>3. \A d \in Calls : backupsCalls'[d].pc # "writing" BY <1>0, <1>2, <3>2 DEF BackupPlaces
    <3> QED BY <1>1, <3>3 DEF BackupRestores
  <2> QED BY <2>1, <2>2, <2>3, <2>4
<1> QED BY <1>3, <1>4, <1>5, <1>6, <1>7 DEF BackupsInv

(* An item is written, and there are more.                                   *)
LEMMA WriteStep ==
  ASSUME BackupsInv, NEW c \in Calls, Backups!Write(c), backupsCalls[c].at # Parts
  PROVE  BackupsInv'
<1> USE DEF Backups!Ids
<1>0. /\ BackupTypes /\ BackupPlaces /\ BackupGuards /\ BackupNumbers
      /\ ~disturbed => BackupCalls /\ BackupStamps /\ BackupLists /\ BackupRestores
      /\ {MaxMade, MaxIndex} \subseteq Nat /\ Parts \in Nat \ {0}
  BY BoundsAssumption DEF BackupsInv
<1>1. /\ backupsCalls[c].pc = "writing"
      /\ data' = (IF open THEN [data EXCEPT ![backupsCalls[c].at] = "new"] ELSE data)
      /\ backupsCalls' = [backupsCalls EXCEPT ![c].at = @ + 1]
      /\ UNCHANGED <<open, enabled, custom, busy, index, backupsClock, legacy, made,
                     stamps, done, deleted, memory, told, disturbed>>
  BY <1>0 DEF BackupTypes, BackupPlaces, Backups!Write, Backups!At, Backups!settings, Backups!backups, Backups!content
<1>8. backupsCalls[c].op = "restore" /\ told = "none"
      /\ \A d \in Calls \ {c} : backupsCalls[d].op # "restore" /\ backupsCalls[d].pc # "writing"
  BY <1>0, <1>1 DEF BackupPlaces, BackupGuards
<1>10. backupsCalls[c].at \in 1..Parts /\ backupsCalls[c].at + 1 \in 1..Parts
  <2>1. backupsCalls[c].at \in 1..Parts /\ backupsCalls[c].at # Parts BY <1>0, <1>1 DEF BackupPlaces
  <2> QED BY <1>0, <2>1
<1>2. /\ backupsCalls' \in [Calls -> BackupCall]
      /\ \A d \in Calls \ {c} : backupsCalls'[d] = backupsCalls[d]
      /\ backupsCalls'[c].op = backupsCalls[c].op /\ backupsCalls'[c].id = backupsCalls[c].id
      /\ backupsCalls'[c].pc = "writing"
      /\ backupsCalls'[c].idx = backupsCalls[c].idx /\ backupsCalls'[c].at = backupsCalls[c].at + 1
  <2>5. backupsCalls[c].at + 1 \in 0..Parts BY <1>0, <1>10
  <2> DEFINE new == [backupsCalls[c] EXCEPT !.at = backupsCalls[c].at + 1]
  <2>1. backupsCalls' = [backupsCalls EXCEPT ![c] = new]
    BY <1>0, <1>1 DEF BackupTypes
  <2>2. backupsCalls[c] \in BackupCall BY <1>0 DEF BackupTypes
  <2>3. new \in BackupCall
    BY <1>0, <1>1, <2>2, <1>10, <2>5, CallBecomes DEF BackupTypes, Making
  <2>6. backupsCalls' \in [Calls -> BackupCall] /\ backupsCalls'[c] = new
    BY <1>0, <2>1, <2>3 DEF BackupTypes
  <2>7. PICK r \in BackupCall : r = backupsCalls[c] BY <2>2
  <2>8. LET s == [r EXCEPT !.at = r.at + 1]
        IN  s.op = r.op /\ s.id = r.id /\ s.pc = r.pc /\ s.idx = r.idx /\ s.at = r.at + 1
    BY DEF BackupCall
  <2>9. \A d \in Calls \ {c} : backupsCalls'[d] = backupsCalls[d]
    BY <1>0, <2>1 DEF BackupTypes
  <2> QED BY <1>1, <2>6, <2>7, <2>8, <2>9
<1>3. BackupTypes'
  BY <1>0, <1>1, <1>2 DEF BackupTypes
<1>4. BackupPlaces'
  BY <1>0, <1>1, <1>2, <1>8, <1>10 DEF BackupTypes, BackupPlaces, Making, Backups!Idle
<1>5. BackupGuards'
  <2>1. \A d \in Calls : backupsCalls'[d].op = backupsCalls[d].op BY <1>2
  <2> QED BY <1>0, <1>1, <2>1, GuardsKept
<1>6. BackupNumbers'
  <2>1. \A k \in 1..Len(backupsCalls'[c].idx) : Listed(backupsCalls'[c].idx[k], done)
    BY <1>0, <1>2 DEF BackupNumbers
  <2> QED BY <1>0, <1>1, <1>2, <1>8, <2>1, NumbersKept DEF Making
<1>7. ASSUME ~disturbed' PROVE BackupCalls' /\ BackupStamps' /\ BackupLists' /\ BackupRestores'
  <2>0. ~disturbed /\ BackupCalls /\ BackupStamps /\ BackupLists /\ BackupRestores
    BY <1>0, <1>1, <1>7
  <2>1. BackupCalls'
    BY <1>0, <1>1, <1>2, <1>7, <2>0 DEF BackupTypes, BackupPlaces, BackupCalls, Backups!Idle, Making
  <2>2. BackupStamps'
    BY <1>0, <1>1, <1>2, <1>7, <2>0 DEF BackupTypes, BackupPlaces, BackupStamps, Making
  <2>3. BackupLists'
    BY <1>0, <1>1, <1>2, <1>7, <2>0 DEF BackupTypes, BackupPlaces, BackupLists, Listed, Making
  <2>4. BackupRestores'
    <3>1. open BY <1>1, <2>0 DEF BackupCalls
    <3>2. \A k \in 1..Parts : k < backupsCalls[c].at => data[k] = "new" BY <1>1, <2>0 DEF BackupRestores
    <3>3. \A k \in 1..Parts : k < backupsCalls[c].at + 1 => data'[k] = "new"
      BY <1>0, <1>1, <1>10, <3>1, <3>2 DEF BackupTypes
    <3>4. backupsCalls'[c].pc = "writing" /\ told' = "none" BY <1>1, <1>2, <1>8
    <3>5. \A d \in Calls \ {c} : backupsCalls'[d].pc # "writing" BY <1>2, <1>8
    <3> QED BY <1>2, <3>3, <3>4, <3>5 DEF BackupRestores
  <2> QED BY <2>1, <2>2, <2>3, <2>4
<1> QED BY <1>3, <1>4, <1>5, <1>6, <1>7 DEF BackupsInv

(* The last item is written.                                                 *)
LEMMA WrittenStep ==
  ASSUME BackupsInv, NEW c \in Calls, Backups!Write(c), backupsCalls[c].at = Parts
  PROVE  BackupsInv'
<1> USE DEF Backups!Ids
<1>0. /\ BackupTypes /\ BackupPlaces /\ BackupGuards /\ BackupNumbers
      /\ ~disturbed => BackupCalls /\ BackupStamps /\ BackupLists /\ BackupRestores
      /\ {MaxMade, MaxIndex} \subseteq Nat /\ Parts \in Nat \ {0}
  BY BoundsAssumption DEF BackupsInv
<1>1. /\ backupsCalls' = [backupsCalls EXCEPT ![c] = Backups!Idle]
      /\ backupsCalls[c].pc = "writing" /\ told' = "restored"
      /\ data' = (IF open THEN [data EXCEPT ![backupsCalls[c].at] = "new"] ELSE data)
      /\ UNCHANGED <<open, enabled, custom, busy, index, backupsClock, legacy, made,
                     stamps, done, deleted, memory, disturbed>>
  BY <1>0 DEF BackupTypes, BackupPlaces, Backups!Write, Backups!At, Backups!settings, Backups!backups, Backups!content
<1>8. backupsCalls[c].op = "restore" /\ told = "none"
      /\ \A d \in Calls \ {c} : backupsCalls[d].op # "restore" /\ backupsCalls[d].pc # "writing"
  BY <1>0, <1>1 DEF BackupPlaces, BackupGuards
<1>2. /\ backupsCalls' \in [Calls -> BackupCall]
      /\ \A d \in Calls \ {c} : backupsCalls'[d] = backupsCalls[d]
      /\ backupsCalls'[c] = Backups!Idle /\ backupsCalls'[c].op = "none" /\ backupsCalls'[c].pc = "idle"
      /\ backupsCalls'[c].idx = <<>> /\ Len(backupsCalls'[c].idx) = 0
  BY <1>0, <1>1, CallBecomes DEF BackupTypes, Backups!Idle
<1>3. BackupTypes'
  BY <1>0, <1>1, <1>2 DEF BackupTypes
<1>4. BackupPlaces'
  BY <1>0, <1>1, <1>2 DEF BackupTypes, BackupPlaces, Making, Backups!Idle
<1>5. BackupGuards'
  <2>1. backupsCalls[c].op = "restore" BY <1>0, <1>1 DEF BackupPlaces
  <2>2. \A d \in Calls \ {c} : backupsCalls[d].op # "restore" BY <1>0, <2>1 DEF BackupGuards
  <2>3. Backups!OneForEvents' BY <1>0, <1>1, <1>2 DEF BackupGuards, Backups!OneForEvents
  <2>4. Backups!GuardIsReleased'
    <3> SUFFICES ASSUME busy' PROVE \E d \in Calls : backupsCalls'[d].op = "event"
      BY DEF Backups!GuardIsReleased
    <3>1. PICK d \in Calls : backupsCalls[d].op = "event"
      BY <1>0, <1>1 DEF BackupGuards, Backups!GuardIsReleased
    <3> QED BY <1>2, <2>1, <3>1
  <2> QED BY <1>2, <2>2, <2>3, <2>4 DEF BackupGuards
<1>6. BackupNumbers'
  <2>1. \A k \in 1..Len(backupsCalls'[c].idx) : Listed(backupsCalls'[c].idx[k], done)
    BY <1>0, <1>2 DEF BackupNumbers
  <2> QED BY <1>0, <1>1, <1>2, <2>1, NumbersKept DEF Making
<1>7. ASSUME ~disturbed' PROVE BackupCalls' /\ BackupStamps' /\ BackupLists' /\ BackupRestores'
  <2>0. ~disturbed /\ BackupCalls /\ BackupStamps /\ BackupLists /\ BackupRestores
    BY <1>0, <1>1, <1>7
  <2>1. BackupCalls'
    BY <1>0, <1>1, <1>2, <1>7, <2>0 DEF BackupTypes, BackupPlaces, BackupCalls, Backups!Idle, Making
  <2>2. BackupStamps'
    BY <1>0, <1>1, <1>2, <1>7, <2>0 DEF BackupTypes, BackupPlaces, BackupStamps, Making
  <2>3. BackupLists'
    BY <1>0, <1>1, <1>2, <1>7, <2>0 DEF BackupTypes, BackupPlaces, BackupLists, Listed, Making
  <2>4. BackupRestores'
    <3>1. open BY <1>1, <2>0 DEF BackupCalls
    <3>2. \A k \in 1..Parts : k < Parts => data[k] = "new" BY <1>1, <2>0 DEF BackupRestores
    <3>3. \A k \in 1..Parts : data'[k] = "new" BY <1>0, <1>1, <3>1, <3>2 DEF BackupTypes
    <3>4. \A d \in Calls : backupsCalls'[d].pc # "writing" BY <1>2, <1>8
    <3> QED BY <1>1, <3>3, <3>4 DEF BackupRestores
  <2> QED BY <2>1, <2>2, <2>3, <2>4
<1> QED BY <1>3, <1>4, <1>5, <1>6, <1>7 DEF BackupsInv

(* Every step keeps the invariant of the backups.                            *)
LEMMA BackupsStep == BackupsInv /\ [Backups!Next]_backupsVars => BackupsInv'
<1> SUFFICES ASSUME BackupsInv, [Backups!Next]_backupsVars PROVE BackupsInv'
  OBVIOUS
<1>1. CASE UNCHANGED backupsVars
  <2>1. UNCHANGED <<open, enabled, custom, busy, index, backupsClock, legacy, backupsCalls, made,
                    stamps, done, deleted, data, memory, told, disturbed>>
    BY <1>1 DEF backupsVars
  <2>2. BackupTypes' /\ BackupPlaces' BY <2>1 DEF BackupsInv, BackupTypes, BackupPlaces
  <2>3. BackupGuards' BY <2>1 DEF BackupsInv, BackupGuards, Backups!OneForEvents, Backups!GuardIsReleased
  <2>4. BackupNumbers' BY <2>1 DEF BackupsInv, BackupNumbers, Listed
  <2>5. ~disturbed' => BackupCalls' /\ BackupStamps' /\ BackupLists' /\ BackupRestores'
    BY <2>1 DEF BackupsInv, BackupCalls, BackupStamps, BackupLists, BackupRestores, Listed
  <2> QED BY <2>2, <2>3, <2>4, <2>5 DEF BackupsInv
<1>2. CASE Backups!Reload \/ Backups!VaultToggles \/ Backups!Settings
  BY <1>2, BackupsReload, TogglesStep, SettingsStep
<1>3. ASSUME NEW k \in 1..Parts, Backups!ManagerSaves(k) PROVE BackupsInv'
  BY <1>3, ManagerStep
<1>4. ASSUME NEW i \in Backups!Ids, Backups!DeleteLegacy(i) PROVE BackupsInv'
  BY <1>4, LegacyStep
<1>5. ASSUME NEW c \in Calls, Backups!Create(c) \/ Backups!Scheduled(c) \/ Backups!Trigger(c)
      PROVE  BackupsInv'
  <2>0. busy \in BOOLEAN BY DEF BackupsInv, BackupTypes
  <2>1. CASE Backups!Create(c)
    <3>1. Backups!Begin(c, "create") /\ busy' = (busy \/ "create" = "event")
      BY <2>0, <2>1 DEF Backups!Create
    <3> QED BY <3>1, BeginStep DEF Making
  <2>2. CASE Backups!Scheduled(c)
    <3>1. Backups!Begin(c, "scheduled") /\ busy' = (busy \/ "scheduled" = "event")
      BY <2>0, <2>2 DEF Backups!Scheduled
    <3> QED BY <3>1, BeginStep DEF Making
  <2>3. CASE Backups!Trigger(c)
    <3>1. Backups!Begin(c, "event") /\ busy' = (busy \/ "event" = "event") /\ ~busy
      BY <2>0, <2>3 DEF Backups!Trigger
    <3> QED BY <3>1, BeginStep DEF Making
  <2> QED BY <1>5, <2>1, <2>2, <2>3
<1>6. ASSUME NEW c \in Calls, Backups!ClockSaved(c) \/ Backups!Fails(c) \/ Backups!Downloaded(c)
      PROVE  BackupsInv'
  BY <1>6, ClockStep, FailsStep
<1>7. ASSUME NEW c \in Calls, Backups!IndexRead(c) \/ Backups!IndexSaved(c) \/ Backups!DeleteSaved(c)
      PROVE  BackupsInv'
  BY <1>7, IndexReadStep, IndexSavedStep, DeleteSavedStep
<1>8. ASSUME NEW c \in Calls, NEW i \in Backups!Ids, Backups!Delete(c, i) PROVE BackupsInv'
  BY <1>8, DeleteStep
<1>9. ASSUME NEW c \in Calls, Backups!Restore(c) \/ Backups!Write(c) \/ Backups!WriteFails(c)
      PROVE  BackupsInv'
  BY <1>9, RestoreStep, WriteStep, WrittenStep, WriteFailsStep
<1>10. ASSUME NEW c \in Calls, NEW good \in BOOLEAN, Backups!Accepted(c, good) PROVE BackupsInv'
  <2>1. CASE good = TRUE BY <1>10, <2>1, AcceptedStep
  <2>2. CASE good = FALSE BY <1>10, <2>2, RefusedStep
  <2> QED BY <2>1, <2>2
<1> QED
  BY <1>1, <1>2, <1>3, <1>4, <1>5, <1>6, <1>7, <1>8, <1>9, <1>10 DEF Backups!Next

(* What the user is told is so.                                              *)
LEMMA BackupsHold == BackupsInv => Backups!TypeOK /\ Backups!BackupsHonest
<1> SUFFICES ASSUME BackupsInv PROVE Backups!TypeOK /\ Backups!BackupsHonest
  OBVIOUS
<1>0. /\ BackupTypes /\ BackupPlaces /\ BackupGuards /\ BackupNumbers
      /\ ~disturbed => BackupCalls /\ BackupStamps /\ BackupLists /\ BackupRestores
  BY DEF BackupsInv
<1>1. ASSUME NEW s \in Seq(Backups!Ids)
      PROVE  /\ Backups!ToSet(s) \subseteq Backups!Ids
             /\ \A i : Listed(i, s) => i \in Backups!ToSet(s)
  <2> HIDE DEF Backups!Ids
  <2> QED BY <1>1 DEF Backups!ToSet, Listed
<1>2. Backups!TypeOK
  <2>1. \A c \in Calls : backupsCalls[c] \in BackupCall BY <1>0 DEF BackupTypes
  <2>2. \A c \in Calls :
       /\ backupsCalls[c].op \in {"none", "create", "scheduled", "event", "delete", "restore"}
       /\ backupsCalls[c].pc \in {"idle", "clock", "collected", "index", "delete", "opening", "writing"}
    BY <2>1 DEF BackupCall
  <2> QED BY <1>0, <1>1, <2>2 DEF BackupTypes, Backups!TypeOK
<1>3. Backups!OneForEvents /\ Backups!GuardIsReleased BY <1>0 DEF BackupGuards
<1>4. Backups!CompleteIsListed
  <2>1. index \in Seq(Backups!Ids) BY <1>0 DEF BackupTypes
  <2> QED BY <1>0, <1>1, <2>1 DEF BackupLists, Backups!CompleteIsListed
<1>5. Backups!VersionsDiffer BY <1>0 DEF BackupStamps, Backups!VersionsDiffer
<1>6. Backups!RestoreIsHonest
  <2> SUFFICES ASSUME ~disturbed
               PROVE  /\ told = "refused" => \A k \in 1..Parts : data[k] = "old"
                      /\ told = "restored" => \A k \in 1..Parts : data[k] = "new"
    BY DEF Backups!RestoreIsHonest
  <2>1. told # "none" => \A c \in Calls : backupsCalls[c].pc # "writing"
    BY <1>0 DEF BackupGuards, BackupPlaces
  <2> QED BY <1>0, <2>1 DEF BackupRestores
<1> QED BY <1>2, <1>3, <1>4, <1>5, <1>6 DEF Backups!BackupsHonest
-----------------------------------------------------------------------------
(* All parts together.                                                       *)
IInv == VaultInv /\ SessionInv /\ CloudInv /\ VersionsInv /\ BackupsInv

(* A step of the device is a step or a stutter of each part.                 *)
LEMMA PartsStep ==
  [Next]_vars => /\ [Vault!Next]_vaultVars /\ [Login!Next]_sessionVars
                 /\ [Cloud!Next]_cloudVars /\ [Versions!Next]_versionsVars
                 /\ [Backups!Next]_backupsVars
BY DEF Next, vars

(* The strengthening holds at the start and is kept by every step.           *)
LEMMA IInvInit == Init => IInv
BY VaultInit, SessionInit, CloudInit, VersionsInit, BackupsInit DEF Init, IInv

(* One part moves at a time.                                                 *)
LEMMA IInvStep == IInv /\ [Next]_vars => IInv'
<1> SUFFICES ASSUME IInv, [Next]_vars PROVE IInv'
  OBVIOUS
<1>1. VaultInv'
  <2>1. VaultInv /\ [Vault!Next]_vaultVars BY PartsStep DEF IInv
  <2>2. CASE Vault!Next
    BY <2>1, <2>2, VaultTypes, VaultUsersStep, VaultCallsStep, VaultSteps DEF VaultInv
  <2>3. CASE UNCHANGED vaultVars
    BY <2>1, <2>3, VaultTypes, VaultUsersStep, VaultCallsStep
    DEF VaultInv, vaultVars, Vault!FlagMeansKey, Vault!Current
  <2> QED BY <2>1, <2>2, <2>3
<1>2. SessionInv' BY PartsStep, SessionStep DEF IInv
<1>3. CloudInv' BY PartsStep, CloudStep DEF IInv
<1>4. VersionsInv' BY PartsStep, VersionsStep DEF IInv
<1>5. BackupsInv' BY PartsStep, BackupsStep DEF IInv
<1> QED BY <1>1, <1>2, <1>3, <1>4, <1>5 DEF IInv

(* The inductive invariant of a device, for any constants.                   *)
THEOREM Inductive == Spec => []IInv
BY IInvInit, IInvStep, PTL DEF Spec

(* In every order of logins, reloads, password changes, failures of the      *)
(* bridge and calls that end together, an open vault has the key its user's  *)
(* marker asks for.                                                          *)
THEOREM OpenMeansKey == Spec => []FlagMeansKey
<1>1. IInv => FlagMeansKey BY DEF IInv, VaultInv, FlagMeansKey
<1> QED BY <1>1, Inductive, PTL

(* However logins, cached lists, refused reads and saves interleave, the     *)
(* contacts in memory are those the next login will read.                    *)
THEOREM ShownIsStored == Spec => []StoredAsShown
<1>1. IInv => StoredAsShown BY SessionHolds DEF IInv, StoredAsShown
<1> QED BY <1>1, Inductive, PTL

(* One timer makes the backups for the cloud, and what is under a user's hash*)
(* there opens with a phrase he has confirmed.                               *)
THEOREM CloudKept == Spec => []RecoveryKept
<1>1. IInv => RecoveryKept BY DEF IInv, CloudInv, RecoveryKept, Cloud!RecoveryKept
<1> QED BY <1>1, Inductive, PTL

(* For any clocks of any number of devices the two comparisons agree, and a  *)
(* merge has all that either state listed.                                   *)
THEOREM ClocksAgree == Spec => []VersionsAgree
<1>1. IInv => VersionsAgree BY VersionsHold DEF IInv, VersionsAgree
<1> QED BY <1>1, Inductive, PTL

(* A backup said to be complete is listed, no two have one version, the guard*)
(* of the events is released, and a restore did what it reported.            *)
THEOREM BackupsAreHonest == Spec => []BackupsHonest
<1>1. IInv => BackupsHonest BY BackupsHold DEF IInv, BackupsHonest
<1> QED BY <1>1, Inductive, PTL

(* No step takes away what is kept: what is stored is sealed for its owner,  *)
(* only a change of password replaces a marker, a login writes nothing, and a*)
(* restore over a concurrent state keeps what is listed.                     *)
THEOREM NothingTakenAway == Spec => StepsKeepData
<1>1. IInv /\ [Next]_vars => [SealedStep]_vaultVars /\ [MarkerStep]_vaultVars
  BY PartsStep, VaultSteps DEF IInv
<1>2. IInv /\ [Next]_vars => [LoginStep]_sessionVars
  BY PartsStep, SessionStep DEF IInv
<1>3. IInv /\ [Next]_vars => [ConcurrentStep]_versionsVars
  BY PartsStep, VersionsKeep DEF IInv
<1>4. [][SealedStep]_vaultVars => Vault!SealedForOwner
  BY DEF SealedStep, vaultVars, Vault!SealedForOwner, Vault!vars
<1>5. [][MarkerStep]_vaultVars => Vault!MarkerStays
  BY DEF MarkerStep, vaultVars, Vault!MarkerStays, Vault!vars
<1>6. [][LoginStep]_sessionVars => Login!LoginWritesNothing
  BY DEF LoginStep, sessionVars, Login!LoginWritesNothing, Login!vars
<1>7. [][ConcurrentStep]_versionsVars => Versions!ConcurrentKeepsLocal
  BY DEF ConcurrentStep, versionsVars, Versions!ConcurrentKeepsLocal, Versions!vars
<1> QED BY <1>1, <1>2, <1>3, <1>4, <1>5, <1>6, <1>7, Inductive, PTL DEF Spec, StepsKeepData
=============================================================================
