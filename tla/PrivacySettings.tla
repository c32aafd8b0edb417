---------------------------- MODULE PrivacySettings ----------------------------
(* What a user lets others see: read receipts, typing, being online. The      *)
(* choice is kept twice, as state.privacySettings (auth_ui.js, vault key      *)
(* privacy_settings) and in the settings of privacy_settings.js with the      *)
(* options of backups (vault key hermes_privacy_settings), and once more in   *)
(* window.disableReadReceipts. All three outlive a session of the page.       *)
EXTENDS Naturals
CONSTANTS Users, None
VARIABLES
  user,
  shown,      \* state.privacySettings, or None
  settings,   \* privacySettings.settings: receipts and one option of backups
  disabled,   \* window.disableReadReceipts
  vault,      \* user -> the two entries of the vault, None when absent
  pending,    \* updatePrivacy has assigned its choice and awaits the save
  choice,     \* user -> the last choice that was reported as saved, or None
  socket,     \* the socket is authenticated
  online,     \* what the server was told with it
  late,       \* whose message is being processed (its delivery is being told)
  crossed     \* another user has logged in meanwhile

vars == <<user, shown, settings, disabled, vault, pending, choice, socket, online,
          late, crossed>>
chosen == <<shown, settings, disabled>>
arriving == <<late, crossed>>
channel == <<socket, online>>

Choices == [receipts : BOOLEAN, typing : BOOLEAN, online : BOOLEAN]
Default == [receipts |-> TRUE, typing |-> TRUE, online |-> TRUE]
Settings == [receipts : BOOLEAN, option : BOOLEAN]

Init ==
  /\ user = None /\ shown = Default
  /\ settings = [receipts |-> TRUE, option |-> FALSE] /\ disabled = FALSE
  /\ vault = [u \in Users |-> [privacy |-> None, settings |-> None]]
  /\ pending = FALSE /\ choice = [u \in Users |-> None]
  /\ socket = FALSE /\ online = FALSE /\ late = None /\ crossed = FALSE

-----------------------------------------------------------------------------
(* Mutant: only the choice in memory counts, which a logout removes.          *)
MayTellByShown == shown = None \/ shown.receipts

(* The guard of every read receipt: of a chat that is opened, and of a        *)
(* message that arrives in it.                                                *)
MayTell == (shown = None \/ shown.receipts) /\ ~disabled

(* The guard of the typing indicator.                                         *)
MayType == shown = None \/ shown.typing

(* What the authentication of the socket says of being online.                *)
ShowOnline == shown = None \/ shown.online

(* doLoginTransition: what the vault has replaces what the page has; the two  *)
(* copies are brought together, and disableReadReceipts is not.               *)
Login(u) ==
  LET v == vault[u]
      loaded == IF v.settings = None THEN settings ELSE v.settings IN
  /\ user = None
  /\ user' = u
  /\ shown' = IF v.privacy = None THEN shown ELSE v.privacy
  /\ disabled' = ~loaded.receipts
  /\ settings' = IF shown' = None THEN loaded ELSE [loaded EXCEPT !.receipts = shown'.receipts]
  /\ crossed' = (crossed \/ late \notin {None, u})
  /\ UNCHANGED <<vault, pending, choice, channel, late>>

(* A toggle of the settings dialog: in memory at once.                        *)
Choose(c) ==
  /\ user # None /\ ~pending
  /\ c # (IF shown = None THEN Default ELSE shown)
  /\ shown' = c /\ pending' = TRUE
  /\ UNCHANGED <<user, settings, disabled, vault, choice, channel, arriving>>

Stored(privacy, s) == vault' = [vault EXCEPT ![user] = [privacy |-> privacy, settings |-> s]]

(* The rest of updatePrivacy: both entries, the flag, and the socket is       *)
(* closed, to come back with the new choice.                                  *)
Chosen ==
  /\ pending /\ pending' = FALSE
  /\ settings' = [settings EXCEPT !.receipts = shown.receipts]
  /\ disabled' = ~shown.receipts
  /\ Stored(shown, settings')
  /\ choice' = [choice EXCEPT ![user] = shown]
  /\ socket' = FALSE
  /\ UNCHANGED <<user, shown, online, arriving>>

(* privacySettings.set for the options of backups: saved and applied whole.   *)
SetOption(b) ==
  /\ user # None /\ settings.option # b
  /\ settings' = [settings EXCEPT !.option = b]
  /\ Stored(vault[user].privacy, settings')
  /\ disabled' = ~settings.receipts
  /\ UNCHANGED <<user, shown, pending, choice, channel, arriving>>

(* fullClearCache forgets one of the three. updatePrivacy stops at a choice   *)
(* that is no longer there, before or after it was written.                   *)
Logout(written) ==
  /\ user # None
  /\ IF pending /\ written THEN Stored(shown, vault[user].settings) ELSE UNCHANGED vault
  /\ choice' = IF pending THEN [choice EXCEPT ![user] = None] ELSE choice
  /\ user' = None /\ shown' = None /\ pending' = FALSE /\ socket' = FALSE
  /\ UNCHANGED <<settings, disabled, online, arriving>>

Reload ==
  /\ user' = None /\ shown' = Default
  /\ settings' = [receipts |-> TRUE, option |-> FALSE] /\ disabled' = FALSE
  /\ choice' = IF pending THEN [choice EXCEPT ![user] = None] ELSE choice
  /\ pending' = FALSE /\ socket' = FALSE /\ late' = None /\ crossed' = FALSE
  /\ UNCHANGED <<vault, online>>

-----------------------------------------------------------------------------
(* The socket opens and authenticates.                                        *)
Connect ==
  /\ user # None /\ ~socket
  /\ socket' = TRUE /\ online' = ShowOnline
  /\ UNCHANGED <<user, chosen, vault, pending, choice, arriving>>

(* A message in the open chat: first its delivery is told, and awaited.       *)
Arrives ==
  /\ user # None /\ late = None
  /\ late' = user
  /\ UNCHANGED <<user, chosen, vault, pending, choice, channel, crossed>>

(* Then, by what holds now, that it was read.                                 *)
Told ==
  /\ late # None
  /\ late' = None /\ crossed' = FALSE
  /\ UNCHANGED <<user, chosen, vault, pending, choice, channel>>

Next ==
  \/ \E u \in Users : Login(u)
  \/ \E c \in Choices : Choose(c)
  \/ \E b \in BOOLEAN : SetOption(b) \/ Logout(b)
  \/ Chosen \/ Reload \/ Connect \/ Arrives \/ Told

Spec == Init /\ [][Next]_vars

-----------------------------------------------------------------------------
MaybeUser == Users \cup {None}
MaybeChoice == Choices \cup {None}

TypeOK ==
  /\ user \in MaybeUser /\ shown \in MaybeChoice /\ settings \in Settings
  /\ disabled \in BOOLEAN
  /\ vault \in [Users -> [privacy : MaybeChoice, settings : Settings \cup {None}]]
  /\ pending \in BOOLEAN /\ choice \in [Users -> MaybeChoice]
  /\ socket \in BOOLEAN /\ online \in BOOLEAN
  /\ late \in MaybeUser /\ crossed \in BOOLEAN

HasChosen(u, c) == choice[u] # None /\ ~pending /\ ~choice[u][c]

(* A user who was told that receipts and typing are off is not betrayed by    *)
(* any of the copies: not in a later session, not after another user's, not   *)
(* by a message whose processing outlasts the session (unless another user    *)
(* has logged in under it: the choice of that one decides).                   *)
OffIsOff ==
  /\ \A u \in {user, late} \ {None} :
       HasChosen(u, "receipts") /\ ~(crossed /\ u = late) => ~MayTell
  /\ user # None /\ HasChosen(user, "typing") => ~MayType

(* The server shows a user as he last chose, whenever his socket came up.     *)
ShownAsChosen ==
  socket /\ ~pending /\ choice[user] # None => online = choice[user].online

(* What a user switched off stays off, for his peers and on the server.      *)
ChoiceIsKept == OffIsOff /\ ShownAsChosen

-----------------------------------------------------------------------------
(* What the repository says and the code does not keep: TLC refutes it.      *)

(* Each user has a choice of his own ("Configuracion de privacidad del        *)
(* usuario"): who never chose sends receipts. Not so after another user's     *)
(* session, whose settings stay on the page.                                  *)
ChoiceIsOwn ==
  user # None /\ vault[user].privacy = None /\ choice[user] = None /\ ~pending => MayTell
=============================================================================
