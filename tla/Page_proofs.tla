------------------------------ MODULE Page_proofs ------------------------------
(*****************************************************************************)
(* What is proved of the vault and of the key store, for any passwords, keys, *)
(* connections and number of requests (VaultInv gives the properties of the  *)
(* vault, KeyInv NamedKeysStay and ListInv KeyListSettles), and of the page as *)
(* a whole: it behaves as each of its parts does.                            *)
(*****************************************************************************)
EXTENDS MCPage, ListPages_proofs, ToolPages_proofs, TLAPS

--------------------------------------------------------------------------------
(*****************************************************************************)
(* The vault.                                                                *)
(*****************************************************************************)

Shape ==
    /\ VaultPageTypeOK
    /\ \A r \in VaultCalls :
        /\ vaultCalls[r].kind = "setup" => vaultCalls[r].pw \in LongPasswords
        /\ vaultCalls[r].kind = "unlock" => vaultCalls[r].pw \in Passwords

\* The page asks for an unlock only once it has been told of a hash, and no hash
\* is ever taken away: handleVaultUnlock's path without a hash is never taken.
ConfiguredMeansHash ==
    /\ vaultConfigured => vaultHash # NoPassword
    /\ \A r \in VaultCalls :
        /\ vaultCalls[r].kind = "unlock" => vaultHash # NoPassword
        /\ vaultCalls[r].configured => vaultHash # NoPassword
        /\ vaultCalls[r].kind = "setup" /\ vaultCalls[r].at \in {"stored", "done"} =>
                vaultHash # NoPassword

\* What a set-up knows as long as it is the only one at work, and an unlock.
OneSetup ==
    /\ \A r, s \in SetupsAtWork : r = s
    /\ \A r \in VaultCalls :
        /\ vaultCalls[r].kind = "setup" /\ vaultCalls[r].at = "checked" =>
                vaultHash = NoPassword
        /\ vaultCalls[r].kind = "setup" /\ vaultCalls[r].at = "stored" =>
                vaultHash = vaultCalls[r].pw
        /\ vaultCalls[r].kind = "unlock" /\ vaultCalls[r].at = "checked" =>
                vaultHash = vaultCalls[r].pw

VaultInv ==
    /\ Shape
    /\ ConfiguredMeansHash
    /\ setupsOverlapped \/ (OneSetup /\ EverySecretOpens)

LEMMA InitHolds == VaultPageInit => VaultInv
<1> SUFFICES ASSUME VaultPageInit PROVE VaultInv
  OBVIOUS
<1> USE DEF VaultPageInit
<1>1. \A r \in VaultCalls : vaultCalls[r] = VaultIdle
  OBVIOUS
<1>2. VaultIdle \in VaultCall
  BY DEF VaultIdle, VaultCall, VaultKinds
<1>3. Shape
  <2>1. sealedWith \subseteq Passwords
    BY VaultPageAssumption
  <2>2. VaultPageTypeOK
    BY <1>2, <2>1 DEF VaultPageTypeOK
  <2>3. QED
    BY <1>1, <2>2 DEF Shape, VaultIdle
<1>4. ConfiguredMeansHash
  BY <1>1 DEF ConfiguredMeansHash, VaultIdle
<1>5. OneSetup /\ EverySecretOpens
  BY <1>1 DEF OneSetup, EverySecretOpens, SetupsAtWork, VaultIdle
<1>6. QED
  BY <1>3, <1>4, <1>5 DEF VaultInv

\* A request is sent, or answered and over.
LEMMA SendKeeps ==
  ASSUME VaultInv, NEW call, VaultSends(call),
         call \in VaultCall, call.at = "sent", ~call.configured,
         call.kind = "setup" => call.pw \in LongPasswords,
         call.kind = "unlock" => call.pw \in Passwords /\ vaultConfigured,
         UNCHANGED vaultDaemon, UNCHANGED vaultConfigured,
         VaultPageTypeOK'
  PROVE  VaultInv'
<1>1. PICK r \in VaultCalls : vaultCalls' = [vaultCalls EXCEPT ![r] = call]
  BY DEF VaultSends
<1>2. \A s \in VaultCalls : vaultCalls'[s] = IF s = r THEN call ELSE vaultCalls[s]
  BY <1>1 DEF VaultInv, Shape, VaultPageTypeOK
<1>3. Shape'
  BY <1>2 DEF VaultInv, Shape
<1>4. ConfiguredMeansHash'
  BY <1>2 DEF VaultInv, ConfiguredMeansHash, vaultDaemon
<1>5. (setupsOverlapped \/ (OneSetup /\ EverySecretOpens))'
  BY <1>2 DEF VaultInv, OneSetup, EverySecretOpens, SetupsAtWork, vaultDaemon
<1>6. QED
  BY <1>3, <1>4, <1>5 DEF VaultInv

\* A request is over: its record is idle again, and the daemon did not move.
LEMMA AnswerKeeps ==
  ASSUME VaultInv, NEW r \in VaultCalls,
         vaultCalls' = [vaultCalls EXCEPT ![r] = VaultIdle],
         UNCHANGED vaultDaemon,
         vaultConfigured' => vaultHash # NoPassword,
         vaultLocked' \in BOOLEAN, vaultConfigured' \in BOOLEAN,
         vaultModalOpen' \in BOOLEAN, modalLoading' \in BOOLEAN
  PROVE  VaultInv'
<1>1. \A s \in VaultCalls : vaultCalls'[s] = IF s = r THEN VaultIdle ELSE vaultCalls[s]
  BY DEF VaultInv, Shape, VaultPageTypeOK
<1>2. VaultIdle \in VaultCall
  BY DEF VaultIdle, VaultCall, VaultKinds
<1>3. VaultPageTypeOK'
  BY <1>2 DEF VaultInv, Shape, VaultPageTypeOK, vaultDaemon
<1>4. Shape'
  BY <1>1, <1>3 DEF VaultInv, Shape, VaultIdle
<1>5. ConfiguredMeansHash'
  BY <1>1 DEF VaultInv, ConfiguredMeansHash, vaultDaemon, VaultIdle
<1>6. (setupsOverlapped \/ (OneSetup /\ EverySecretOpens))'
  BY <1>1 DEF VaultInv, OneSetup, EverySecretOpens, SetupsAtWork, vaultDaemon, VaultIdle
<1>7. QED
  BY <1>4, <1>5, <1>6 DEF VaultInv

\* A request moves on in the daemon: what VaultAt leaves of the records.
LEMMA AtEffect ==
  ASSUME VaultInv, NEW r \in VaultCalls, NEW at, VaultAt(r, at),
         at \in {"idle", "sent", "checked", "stored", "read", "done", "refused"}
  PROVE  /\ vaultCalls' \in [VaultCalls -> VaultCall]
         /\ \A s \in VaultCalls : s # r => vaultCalls'[s] = vaultCalls[s]
         /\ vaultCalls'[r] = [vaultCalls[r] EXCEPT !.at = at]
         /\ vaultCalls'[r].at = at
         /\ \A s \in VaultCalls :
                /\ vaultCalls'[s].kind = vaultCalls[s].kind
                /\ vaultCalls'[s].pw = vaultCalls[s].pw
                /\ vaultCalls'[s].configured = vaultCalls[s].configured
<1>1. vaultCalls \in [VaultCalls -> VaultCall]
  BY DEF VaultInv, Shape, VaultPageTypeOK
<1>2. QED
  BY <1>1 DEF VaultAt, VaultCall

LEMMA ShownKept ==
  ASSUME VaultInv, UNCHANGED vaultShown,
         vaultCalls' \in [VaultCalls -> VaultCall],
         vaultHash' \in LongPasswords \cup {NoPassword},
         masterKey' \in Passwords \cup {NoPassword},
         sealedWith' \subseteq Passwords, setupsOverlapped' \in BOOLEAN,
         \A s \in VaultCalls :
            /\ vaultCalls'[s].kind = vaultCalls[s].kind
            /\ vaultCalls'[s].pw = vaultCalls[s].pw
  PROVE  Shape'
<1>1. VaultPageTypeOK'
  BY DEF VaultInv, Shape, VaultPageTypeOK, vaultShown
<1>2. QED
  BY <1>1 DEF VaultInv, Shape

--------------------------------------------------------------------------------
(* The page's steps *)

LEMMA PageKeeps ==
  ASSUME VaultInv,
         \/ \E from \in {"modal", "page"} : FetchSettings(from)
         \/ \E pw \in Passwords : ModalSubmit(pw) \/ SettingsSubmit(pw)
         \/ ModalToggled \/ SaveSecret
  PROVE  VaultInv'
<1>0. VaultIdle \in VaultCall /\ ~VaultIdle.configured /\ VaultIdle.pw = NoPassword
  BY DEF VaultIdle, VaultCall, VaultKinds
<1>1. ASSUME NEW call \in VaultCall, VaultSends(call), call.at = "sent", ~call.configured,
             call.kind = "setup" => call.pw \in LongPasswords,
             call.kind = "unlock" => call.pw \in Passwords /\ vaultConfigured,
             UNCHANGED vaultDaemon, UNCHANGED <<vaultLocked, vaultConfigured, vaultModalOpen>>,
             modalLoading' \in BOOLEAN
      PROVE  VaultInv'
  <2>1. VaultPageTypeOK'
    BY <1>1 DEF VaultSends, VaultInv, Shape, VaultPageTypeOK, vaultDaemon
  <2>2. UNCHANGED vaultConfigured
    BY <1>1
  <2>3. QED
    BY <1>1, <2>1, <2>2, SendKeeps
<1>2. ASSUME NEW from \in {"modal", "page"}, FetchSettings(from)
      PROVE  VaultInv'
  <2> DEFINE call == [VaultIdle EXCEPT !.kind = "fetch", !.at = "sent", !.from = from]
  <2>1. call \in VaultCall /\ call.kind = "fetch" /\ call.at = "sent" /\ ~call.configured
    BY <1>0 DEF VaultCall, VaultKinds
  <2>2. VaultSends(call)
    BY <1>2 DEF FetchSettings
  <2>3. modalLoading' \in BOOLEAN /\ UNCHANGED <<vaultLocked, vaultConfigured, vaultModalOpen>>
        /\ UNCHANGED vaultDaemon
    BY <1>2 DEF FetchSettings, vaultShown, VaultInv, Shape, VaultPageTypeOK
  <2> HIDE DEF call
  <2>4. QED
    BY <1>1, <2>1, <2>2, <2>3
<1>3. ASSUME NEW pw \in Passwords, NEW from \in {"modal", "page"}, PasswordGiven(pw, from),
             UNCHANGED vaultDaemon, UNCHANGED <<vaultLocked, vaultConfigured, vaultModalOpen>>,
             modalLoading' \in BOOLEAN
      PROVE  VaultInv'
  <2> DEFINE kind == IF vaultConfigured THEN "unlock" ELSE "setup"
             call == [VaultIdle EXCEPT !.at = "sent", !.from = from, !.pw = pw, !.kind = kind]
  <2>1. kind \in VaultKinds
    BY DEF VaultKinds
  <2>2. VaultSends(call)
    BY <1>3 DEF PasswordGiven
  <2>3. /\ kind = "setup" => pw \in LongPasswords
        /\ kind = "unlock" => pw \in Passwords /\ vaultConfigured
    BY <1>3 DEF PasswordGiven
  <2> HIDE DEF kind
  <2>4. /\ call \in VaultCall /\ call.kind = kind /\ call.pw = pw
        /\ call.at = "sent" /\ ~call.configured
    BY <1>0, <2>1 DEF VaultCall
  <2> HIDE DEF call
  <2>5. QED
    BY <1>1, <1>3, <2>2, <2>3, <2>4
<1>4. ASSUME NEW pw \in Passwords, ModalSubmit(pw)
      PROVE  VaultInv'
  BY <1>3, <1>4 DEF ModalSubmit
<1>5. ASSUME NEW pw \in Passwords, SettingsSubmit(pw)
      PROVE  VaultInv'
  BY <1>3, <1>5 DEF SettingsSubmit, vaultShown, VaultInv, Shape, VaultPageTypeOK
<1>6. CASE ModalToggled
  BY <1>6 DEF ModalToggled, vaultDaemon, VaultInv, Shape, VaultPageTypeOK, ConfiguredMeansHash,
              OneSetup, EverySecretOpens, SetupsAtWork
<1>7. CASE SaveSecret
  <2> DEFINE call == [VaultIdle EXCEPT !.kind = "save", !.at = "sent"]
  <2>1. call \in VaultCall /\ call.kind = "save" /\ call.at = "sent" /\ ~call.configured
    BY <1>0 DEF VaultCall, VaultKinds
  <2>2. VaultSends(call)
    BY <1>7 DEF SaveSecret
  <2>3. modalLoading' \in BOOLEAN /\ UNCHANGED <<vaultLocked, vaultConfigured, vaultModalOpen>>
        /\ UNCHANGED vaultDaemon
    BY <1>7 DEF SaveSecret, vaultShown, VaultInv, Shape, VaultPageTypeOK
  <2> HIDE DEF call
  <2>4. QED
    BY <1>1, <2>1, <2>2, <2>3
<1>8. QED
  BY <1>2, <1>4, <1>5, <1>6, <1>7

LEMMA AnswersKeep ==
  ASSUME VaultInv, NEW r \in VaultCalls,
         VaultOpened(r) \/ SettingsFetched(r) \/ VaultAnswered(r)
  PROVE  VaultInv'
<1>0. /\ vaultCalls[r] \in VaultCall
      /\ vaultLocked \in BOOLEAN /\ vaultConfigured \in BOOLEAN
      /\ vaultModalOpen \in BOOLEAN /\ modalLoading \in BOOLEAN
  BY DEF VaultInv, Shape, VaultPageTypeOK
<1>1. CASE VaultOpened(r)
  <2>1. vaultHash # NoPassword
    BY <1>1 DEF VaultOpened, VaultInv, ConfiguredMeansHash
  <2>2. QED
    BY <1>0, <1>1, <2>1, AnswerKeeps DEF VaultOpened
<1>2. CASE SettingsFetched(r)
  <2>1. vaultConfigured' => vaultHash # NoPassword
    BY <1>2 DEF SettingsFetched, VaultInv, ConfiguredMeansHash
  <2>2. vaultLocked' \in BOOLEAN /\ vaultConfigured' \in BOOLEAN
        /\ vaultModalOpen' \in BOOLEAN /\ modalLoading' \in BOOLEAN
    BY <1>0, <1>2 DEF SettingsFetched, VaultCall
  <2>3. vaultCalls' = [vaultCalls EXCEPT ![r] = VaultIdle] /\ UNCHANGED vaultDaemon
    BY <1>2 DEF SettingsFetched
  <2>4. QED
    BY <2>1, <2>2, <2>3, AnswerKeeps
<1>3. CASE VaultAnswered(r)
  <2>1. vaultConfigured' => vaultHash # NoPassword
    BY <1>3 DEF VaultAnswered, VaultInv, ConfiguredMeansHash
  <2>2. QED
    BY <1>0, <1>3, <2>1, AnswerKeeps DEF VaultAnswered
<1>4. QED
  BY <1>1, <1>2, <1>3

--------------------------------------------------------------------------------
(* The daemon's steps *)

LEMMA SetupChecksKeeps ==
  ASSUME VaultInv, NEW r \in VaultCalls, SetupChecks(r)
  PROVE  VaultInv'
<1> DEFINE at == IF vaultHash = NoPassword THEN "checked" ELSE "refused"
<1>1. VaultAt(r, at) /\ at \in {"checked", "refused"}
  BY DEF SetupChecks
<1>2. /\ vaultCalls' \in [VaultCalls -> VaultCall]
      /\ \A s \in VaultCalls : s # r => vaultCalls'[s] = vaultCalls[s]
      /\ vaultCalls'[r].at = at
      /\ \A s \in VaultCalls :
                /\ vaultCalls'[s].kind = vaultCalls[s].kind
                /\ vaultCalls'[s].pw = vaultCalls[s].pw
                /\ vaultCalls'[s].configured = vaultCalls[s].configured
  BY <1>1, AtEffect
<1>3. Shape'
  BY <1>2, ShownKept DEF SetupChecks, VaultInv, Shape, VaultPageTypeOK
<1>4. ConfiguredMeansHash'
  BY <1>2 DEF SetupChecks, VaultInv, ConfiguredMeansHash, vaultShown
<1>5. ASSUME ~setupsOverlapped' PROVE OneSetup' /\ EverySecretOpens'
  <2>1. SetupsAtWork = {} /\ OneSetup /\ EverySecretOpens
    BY <1>5 DEF SetupChecks, VaultInv
  <2>2. SetupsAtWork' \subseteq {r}
    BY <1>2, <2>1 DEF SetupsAtWork
  <2>3. UNCHANGED <<vaultHash, masterKey, sealedWith>> /\ vaultCalls[r].kind = "setup"
    BY DEF SetupChecks
  <2>4. EverySecretOpens'
    BY <1>5, <2>1, <2>3 DEF SetupChecks, EverySecretOpens
  <2>5. at = "checked" => vaultHash = NoPassword
    OBVIOUS
  <2>6. OneSetup'
    <3>1. ASSUME NEW s \in VaultCalls \ {r} PROVE vaultCalls'[s] = vaultCalls[s]
      BY <1>2
    <3>2. /\ vaultCalls'[r].kind = "setup" /\ vaultCalls'[r].at \in {"checked", "refused"}
          /\ vaultCalls'[r].at = "checked" => vaultHash' = NoPassword
      BY <1>1, <1>2, <2>3, <2>5
    <3> HIDE DEF at
    <3>3. QED
      BY <2>1, <2>2, <2>3, <3>1, <3>2 DEF OneSetup
  <2>7. QED
    BY <2>4, <2>6
<1>6. QED
  BY <1>3, <1>4, <1>5 DEF VaultInv

LEMMA SetupStoresKeeps ==
  ASSUME VaultInv, NEW r \in VaultCalls, SetupStores(r)
  PROVE  VaultInv'
<1>1. /\ vaultCalls' \in [VaultCalls -> VaultCall]
      /\ \A s \in VaultCalls : s # r => vaultCalls'[s] = vaultCalls[s]
      /\ vaultCalls'[r].at = "stored"
      /\ \A s \in VaultCalls :
                /\ vaultCalls'[s].kind = vaultCalls[s].kind
                /\ vaultCalls'[s].pw = vaultCalls[s].pw
                /\ vaultCalls'[s].configured = vaultCalls[s].configured
  BY AtEffect DEF SetupStores
<1>2. vaultHash' = vaultCalls[r].pw /\ vaultHash' \in LongPasswords /\ vaultHash' # NoPassword
  BY VaultPageAssumption DEF SetupStores, VaultInv, Shape
<1>3. Shape'
  BY <1>1, <1>2, ShownKept DEF SetupStores, VaultInv, Shape, VaultPageTypeOK
<1>4. ConfiguredMeansHash'
  BY <1>2 DEF ConfiguredMeansHash
<1>5. ASSUME ~setupsOverlapped' PROVE OneSetup' /\ EverySecretOpens'
  <2>1. OneSetup /\ EverySecretOpens /\ vaultHash = NoPassword /\ r \in SetupsAtWork
    BY <1>5 DEF SetupStores, VaultInv, OneSetup, SetupsAtWork
  <2>2. SetupsAtWork' = {r}
    BY <1>1, <2>1 DEF SetupsAtWork, OneSetup
  <2>3. sealedWith = {} /\ masterKey = NoPassword
    <3>1. NoPassword \notin sealedWith
      BY VaultPageAssumption DEF VaultInv, Shape, VaultPageTypeOK
    <3>2. QED
      BY <1>5, <2>1, <3>1 DEF EverySecretOpens, SetupStores
  <2>4. \A s \in VaultCalls : vaultCalls[s].kind # "unlock"
    BY <2>1 DEF VaultInv, ConfiguredMeansHash
  <2>5. QED
    BY <1>1, <1>2, <2>2, <2>3, <2>4 DEF SetupStores, OneSetup, EverySecretOpens, SetupsAtWork
<1>6. QED
  BY <1>3, <1>4, <1>5 DEF VaultInv

\* A step that opens the vault, with the password of the stored hash.
LEMMA UnlockKeeps ==
  ASSUME VaultInv, NEW r \in VaultCalls, SetupUnlocks(r) \/ UnlockUnlocks(r)
  PROVE  VaultInv'
<1>0. /\ VaultAt(r, "done") /\ masterKey' = vaultCalls[r].pw
      /\ UNCHANGED <<vaultHash, sealedWith, setupsOverlapped, vaultShown>>
  BY DEF SetupUnlocks, UnlockUnlocks
<1>1. /\ vaultCalls' \in [VaultCalls -> VaultCall]
      /\ \A s \in VaultCalls : s # r => vaultCalls'[s] = vaultCalls[s]
      /\ vaultCalls'[r].at = "done"
      /\ \A s \in VaultCalls :
                /\ vaultCalls'[s].kind = vaultCalls[s].kind
                /\ vaultCalls'[s].pw = vaultCalls[s].pw
                /\ vaultCalls'[s].configured = vaultCalls[s].configured
  BY <1>0, AtEffect
<1>2. Shape'
  <2>1. masterKey' \in Passwords
    BY <1>0, VaultPageAssumption DEF SetupUnlocks, UnlockUnlocks, VaultInv, Shape
  <2>2. QED
    BY <1>0, <1>1, <2>1, ShownKept DEF VaultInv, Shape, VaultPageTypeOK
<1>3. ConfiguredMeansHash'
  BY <1>0, <1>1 DEF SetupUnlocks, UnlockUnlocks, VaultInv, ConfiguredMeansHash, vaultShown
<1>4. ASSUME ~setupsOverlapped' PROVE OneSetup' /\ EverySecretOpens'
  <2>1. OneSetup /\ EverySecretOpens
    BY <1>0, <1>4 DEF VaultInv
  <2>2. vaultCalls[r].pw = vaultHash
    BY <2>1 DEF SetupUnlocks, UnlockUnlocks, OneSetup
  <2>3. SetupsAtWork' \subseteq SetupsAtWork
    BY <1>1 DEF SetupsAtWork
  <2>4. OneSetup'
    BY <1>0, <1>1, <2>1, <2>3 DEF OneSetup
  <2>5. EverySecretOpens'
    BY <1>0, <1>4, <2>1, <2>2 DEF EverySecretOpens
  <2>6. QED
    BY <2>4, <2>5
<1>5. QED
  BY <1>2, <1>3, <1>4 DEF VaultInv

LEMMA UnlockChecksKeeps ==
  ASSUME VaultInv, NEW r \in VaultCalls, UnlockChecks(r)
  PROVE  VaultInv'
<1> DEFINE at == IF vaultHash \in {NoPassword, vaultCalls[r].pw} THEN "checked" ELSE "refused"
<1>1. VaultAt(r, at) /\ at \in {"checked", "refused"}
  BY DEF UnlockChecks
<1>2. /\ vaultCalls' \in [VaultCalls -> VaultCall]
      /\ \A s \in VaultCalls : s # r => vaultCalls'[s] = vaultCalls[s]
      /\ vaultCalls'[r].at = at
      /\ \A s \in VaultCalls :
                /\ vaultCalls'[s].kind = vaultCalls[s].kind
                /\ vaultCalls'[s].pw = vaultCalls[s].pw
                /\ vaultCalls'[s].configured = vaultCalls[s].configured
  BY <1>1, AtEffect
<1>3. Shape'
  BY <1>2, ShownKept DEF UnlockChecks, vaultDaemon, VaultInv, Shape, VaultPageTypeOK
<1>4. ConfiguredMeansHash'
  BY <1>2 DEF UnlockChecks, vaultDaemon, VaultInv, ConfiguredMeansHash, vaultShown
<1>5. ASSUME ~setupsOverlapped' PROVE OneSetup' /\ EverySecretOpens'
  <2>1. OneSetup /\ EverySecretOpens
    BY <1>5 DEF UnlockChecks, vaultDaemon, VaultInv
  <2>2. SetupsAtWork' = SetupsAtWork
    BY <1>2 DEF SetupsAtWork, UnlockChecks
  <2>3. at = "checked" => vaultHash = vaultCalls[r].pw
    BY DEF UnlockChecks, VaultInv, ConfiguredMeansHash
  <2>4. QED
    BY <1>2, <2>1, <2>2, <2>3 DEF UnlockChecks, vaultDaemon, OneSetup, EverySecretOpens
<1>6. QED
  BY <1>3, <1>4, <1>5 DEF VaultInv

LEMMA LockKeeps ==
  ASSUME VaultInv, VaultLocks
  PROVE  VaultInv'
<1>1. /\ vaultCalls' \in [VaultCalls -> VaultCall]
      /\ \A s \in VaultCalls :
            /\ vaultCalls'[s].at \in {vaultCalls[s].at, "refused"}
            /\ vaultCalls'[s].kind = vaultCalls[s].kind
            /\ vaultCalls'[s].pw = vaultCalls[s].pw
            /\ vaultCalls'[s].configured = vaultCalls[s].configured
  <2>1. vaultCalls \in [VaultCalls -> VaultCall]
    BY DEF VaultInv, Shape, VaultPageTypeOK
  <2>2. QED
    BY <2>1 DEF VaultLocks, VaultCall
<1>2. Shape'
  BY <1>1, ShownKept DEF VaultLocks, VaultInv, Shape, VaultPageTypeOK
<1>3. ConfiguredMeansHash'
  BY <1>1 DEF VaultLocks, VaultInv, ConfiguredMeansHash, vaultShown
<1>4. ASSUME ~setupsOverlapped' PROVE OneSetup' /\ EverySecretOpens'
  <2>1. OneSetup /\ EverySecretOpens
    BY <1>4 DEF VaultLocks, VaultInv
  <2>2. SetupsAtWork' \subseteq SetupsAtWork
    BY <1>1 DEF SetupsAtWork
  <2>3. OneSetup'
    BY <1>1, <2>1, <2>2 DEF VaultLocks, OneSetup
  <2>4. EverySecretOpens'
    BY <1>4, <2>1 DEF VaultLocks, EverySecretOpens
  <2>5. QED
    BY <2>3, <2>4
<1>5. QED
  BY <1>2, <1>3, <1>4 DEF VaultInv

LEMMA SealKeeps ==
  ASSUME VaultInv, NEW r \in VaultCalls, SealSecret(r)
  PROVE  VaultInv'
<1>1. PICK at \in {"refused", "done"} : VaultAt(r, at)
  BY DEF SealSecret
<1>2. /\ vaultCalls' \in [VaultCalls -> VaultCall]
      /\ \A s \in VaultCalls : s # r => vaultCalls'[s] = vaultCalls[s]
      /\ \A s \in VaultCalls :
                /\ vaultCalls'[s].kind = vaultCalls[s].kind
                /\ vaultCalls'[s].pw = vaultCalls[s].pw
                /\ vaultCalls'[s].configured = vaultCalls[s].configured
  BY <1>1, AtEffect
<1>3. Shape'
  BY <1>2, ShownKept DEF SealSecret, VaultInv, Shape, VaultPageTypeOK
<1>4. ConfiguredMeansHash'
  BY <1>2 DEF SealSecret, VaultInv, ConfiguredMeansHash, vaultShown
<1>5. ASSUME ~setupsOverlapped' PROVE OneSetup' /\ EverySecretOpens'
  <2>1. OneSetup /\ EverySecretOpens
    BY <1>5 DEF SealSecret, VaultInv
  <2>2. SetupsAtWork' = SetupsAtWork
    BY <1>2 DEF SetupsAtWork, SealSecret
  <2>3. QED
    BY <1>2, <1>5, <2>1, <2>2 DEF SealSecret, OneSetup, EverySecretOpens
<1>6. QED
  BY <1>3, <1>4, <1>5 DEF VaultInv

LEMMA StatusKeeps ==
  ASSUME VaultInv, NEW r \in VaultCalls, StatusReadsHash(r) \/ StatusReadsLock(r)
  PROVE  VaultInv'
<1>1. /\ vaultCalls' \in [VaultCalls -> VaultCall]
      /\ \A s \in VaultCalls : s # r => vaultCalls'[s] = vaultCalls[s]
      /\ vaultCalls'[r].configured => vaultHash # NoPassword
      /\ \A s \in VaultCalls :
                /\ vaultCalls'[s].kind = vaultCalls[s].kind
                /\ vaultCalls'[s].pw = vaultCalls[s].pw
      /\ vaultCalls[r].kind = "fetch"
  <2>1. vaultCalls \in [VaultCalls -> VaultCall]
    BY DEF VaultInv, Shape, VaultPageTypeOK
  <2>2. CASE StatusReadsHash(r)
    <3>1. vaultCalls' = [vaultCalls EXCEPT ![r] =
            [vaultCalls[r] EXCEPT !.at = "read", !.configured = (vaultHash # NoPassword)]]
      BY <2>1, <2>2 DEF StatusReadsHash
    <3>2. QED
      BY <2>1, <2>2, <3>1 DEF StatusReadsHash, VaultCall
  <2>3. CASE StatusReadsLock(r)
    <3>1. vaultCalls' = [vaultCalls EXCEPT ![r] =
            [vaultCalls[r] EXCEPT !.at = "done", !.locked = (masterKey = NoPassword)]]
      BY <2>1, <2>3 DEF StatusReadsLock
    <3>2. vaultCalls[r].configured => vaultHash # NoPassword
      BY DEF VaultInv, ConfiguredMeansHash
    <3>3. QED
      BY <2>1, <2>3, <3>1, <3>2 DEF StatusReadsLock, VaultCall
  <2>4. QED
    BY <2>2, <2>3
<1>2. UNCHANGED vaultDaemon /\ UNCHANGED vaultShown
  BY DEF StatusReadsHash, StatusReadsLock
<1>3. Shape'
  BY <1>1, <1>2, ShownKept DEF vaultDaemon, VaultInv, Shape, VaultPageTypeOK
<1>4. ConfiguredMeansHash'
  BY <1>1, <1>2 DEF vaultDaemon, vaultShown, VaultInv, ConfiguredMeansHash
<1>5. (setupsOverlapped \/ (OneSetup /\ EverySecretOpens))'
  <2>1. SetupsAtWork' = SetupsAtWork
    BY <1>1 DEF SetupsAtWork
  <2>2. QED
    BY <1>1, <1>2, <2>1 DEF vaultDaemon, VaultInv, OneSetup, EverySecretOpens
<1>6. QED
  BY <1>3, <1>4, <1>5 DEF VaultInv

--------------------------------------------------------------------------------
LEMMA VaultStep == VaultInv /\ [VaultPageNext]_vaultVars => VaultInv'
<1> SUFFICES ASSUME VaultInv, [VaultPageNext]_vaultVars PROVE VaultInv'
  OBVIOUS
<1>1. CASE UNCHANGED vaultVars
  BY <1>1 DEF vaultVars, vaultDaemon, vaultShown, VaultInv, Shape, VaultPageTypeOK,
              ConfiguredMeansHash, OneSetup, EverySecretOpens, SetupsAtWork
<1>2. CASE VaultLocks
  BY <1>2, LockKeeps
<1>3. ASSUME NEW r \in VaultCalls,
             \/ SetupChecks(r) \/ SetupStores(r) \/ SetupUnlocks(r)
             \/ UnlockChecks(r) \/ UnlockUnlocks(r) \/ SealSecret(r)
             \/ StatusReadsHash(r) \/ StatusReadsLock(r)
             \/ VaultOpened(r) \/ SettingsFetched(r) \/ VaultAnswered(r)
      PROVE  VaultInv'
  BY <1>3, SetupChecksKeeps, SetupStoresKeeps, UnlockKeeps, UnlockChecksKeeps, SealKeeps,
     StatusKeeps, AnswersKeep
<1>4. CASE \/ \E from \in {"modal", "page"} : FetchSettings(from)
           \/ \E pw \in Passwords : ModalSubmit(pw) \/ SettingsSubmit(pw)
           \/ ModalToggled \/ SaveSecret
  BY <1>4, PageKeeps
<1>5. QED
  BY <1>1, <1>2, <1>3, <1>4 DEF VaultPageNext

LEMMA VaultInvariant == VaultPageSpec => []VaultInv
BY InitHolds, VaultStep, PTL DEF VaultPageSpec

\* The vault's variables keep their types.
THEOREM VaultTypes == VaultPageSpec => []VaultPageTypeOK
<1>1. VaultInv => VaultPageTypeOK
  BY DEF VaultInv, Shape
<1>2. QED
  BY VaultInvariant, <1>1, PTL

\* Whatever order set-ups, unlocks, locks, restarts and saves take, nothing is
\* encrypted with a key that the accepted password does not give, unless two
\* set-ups overlapped.
THEOREM SecretsOpen == VaultPageSpec => []EverySecretOpens
<1>1. VaultInv => EverySecretOpens
  BY DEF VaultInv, EverySecretOpens
<1>2. QED
  BY VaultInvariant, <1>1, PTL

\* handleVaultUnlock lets any password through while no hash is stored, but the
\* page asks for an unlock only after a hash was stored.
THEOREM NoUnlockWithoutHash ==
  VaultPageSpec => [](\A r \in VaultCalls :
                        vaultCalls[r].kind = "unlock" => vaultHash # NoPassword)
<1>1. VaultInv => \A r \in VaultCalls : vaultCalls[r].kind = "unlock" => vaultHash # NoPassword
  BY DEF VaultInv, ConfiguredMeansHash
<1>2. QED
  BY VaultInvariant, <1>1, PTL

--------------------------------------------------------------------------------
(*****************************************************************************)
(* The key store.                                                            *)
(*****************************************************************************)

\* A deletion that has counted found no connection naming its key, and a connection
\* that came to name the key since was saved late.
CountHolds ==
    \A r \in KeyCalls, c \in KeyUsers \ savedLate :
        keyCalls[r].at = "counted" /\ keyCalls[r].on # NoKey => keyOf[c] # keyCalls[r].on

SavesHaveUsers == \A r \in KeyCalls : keyCalls[r].kind = "save" => keyCalls[r].user \in KeyUsers

KeyInv == KeyPageTypeOK /\ SavesHaveUsers /\ CountHolds /\ NamedKeysStay

\* What a step leaves of it that touches neither the keys nor who names them, and
\* lets no deletion count.
LEMMA CallsMove ==
  ASSUME KeyInv, UNCHANGED <<dbKeys, keyOf, savedLate>>, KeyPageTypeOK',
         \A r \in KeyCalls : keyCalls'[r].at = "counted" =>
                keyCalls[r].at = "counted" /\ keyCalls'[r].on = keyCalls[r].on,
         SavesHaveUsers'
  PROVE  KeyInv'
  BY DEF KeyInv, CountHolds, NamedKeysStay

LEMMA IdleKeyCall == KeyIdle \in
        [kind : KeyKinds, at : {"idle", "sent", "counted", "done", "refused"},
         on : KeyIds \cup {NoKey}, form : KeyForms \cup {NoForm},
         user : KeyUsers \cup {NoKey}, got : SUBSET KeyIds]
      /\ KeyIdle.at = "idle" /\ KeyIdle.kind = "none"
  BY DEF KeyIdle, KeyKinds, NoForm

LEMMA InitKeys == KeyPageInit => KeyInv
<1> SUFFICES ASSUME KeyPageInit PROVE KeyInv
  OBVIOUS
<1> USE DEF KeyPageInit
<1>1. \A r \in KeyCalls : keyCalls[r] = KeyIdle
  OBVIOUS
<1>2. KeyPageTypeOK
  BY IdleKeyCall DEF KeyPageTypeOK
<1>3. SavesHaveUsers /\ CountHolds /\ NamedKeysStay
  BY <1>1, IdleKeyCall DEF SavesHaveUsers, CountHolds, NamedKeysStay
<1>4. QED
  BY <1>2, <1>3 DEF KeyInv

--------------------------------------------------------------------------------
(* The page's steps *)

LEMMA KeySendKeeps ==
  ASSUME KeyInv, NEW kind \in KeyKinds, NEW on \in KeyIds \cup {NoKey},
         NEW form \in KeyForms \cup {NoForm}, NEW user \in KeyUsers \cup {NoKey},
         kind = "save" => user \in KeyUsers,
         KeySends(kind, on, form, user), UNCHANGED keyDaemon,
         UNCHANGED <<keys, openForms, offeredKeys, keysOvertaken>>,
         keysLoading' \in BOOLEAN, keysError' \in BOOLEAN, busyForms' \subseteq KeyForms
  PROVE  KeyInv'
<1> DEFINE call == [kind |-> kind, at |-> "sent", on |-> on, form |-> form, user |-> user,
                    got |-> {}]
<1>1. PICK r \in KeyCalls : keyCalls' = [keyCalls EXCEPT ![r] = call]
  BY DEF KeySends
<1>2. KeyPageTypeOK'
  BY <1>1 DEF KeyInv, KeyPageTypeOK, keyDaemon
<1>3. \A s \in KeyCalls : keyCalls'[s] = keyCalls[s] \/ keyCalls'[s].at = "sent"
  BY <1>1 DEF KeyInv, KeyPageTypeOK
<1>4. SavesHaveUsers'
  BY <1>1 DEF KeyInv, KeyPageTypeOK, SavesHaveUsers
<1>5. QED
  BY <1>2, <1>3, <1>4, CallsMove DEF keyDaemon

LEMMA KeyPageKeeps ==
  ASSUME KeyInv,
         \/ FetchKeys \/ ConnectionFormOpens
         \/ \E f \in KeyForms : KeyFormToggled(f) \/ SubmitKeyForm(f)
         \/ \E k \in KeyIds : DeleteKeyClicked(k) \/ \E c \in KeyUsers : SaveWithKey(c, k)
  PROVE  KeyInv'
<1>0. /\ keysLoading \in BOOLEAN /\ keysError \in BOOLEAN /\ busyForms \subseteq KeyForms
      /\ {"list", "create", "delete", "save"} \subseteq KeyKinds
  BY DEF KeyInv, KeyPageTypeOK, KeyKinds
<1>1. CASE FetchKeys
  BY <1>0, <1>1, KeySendKeeps DEF FetchKeys
<1>2. CASE ConnectionFormOpens
  <2>1. KeyPageTypeOK'
    BY <1>2 DEF ConnectionFormOpens, keyDaemon, KeyInv, KeyPageTypeOK
  <2>2. QED
    BY <1>2, <2>1, CallsMove DEF ConnectionFormOpens, keyDaemon, KeyInv, SavesHaveUsers
<1>3. ASSUME NEW f \in KeyForms, KeyFormToggled(f) PROVE KeyInv'
  <2>1. KeyPageTypeOK'
    BY <1>3 DEF KeyFormToggled, keyDaemon, KeyInv, KeyPageTypeOK
  <2>2. QED
    BY <1>3, <2>1, CallsMove DEF KeyFormToggled, keyDaemon, KeyInv, SavesHaveUsers
<1>4. ASSUME NEW f \in KeyForms, SubmitKeyForm(f) PROVE KeyInv'
  BY <1>0, <1>4, KeySendKeeps DEF SubmitKeyForm
<1>5. ASSUME NEW k \in KeyIds, DeleteKeyClicked(k) PROVE KeyInv'
  BY <1>0, <1>5, KeySendKeeps DEF DeleteKeyClicked
<1>6. ASSUME NEW k \in KeyIds, NEW c \in KeyUsers, SaveWithKey(c, k) PROVE KeyInv'
  BY <1>0, <1>6, KeySendKeeps DEF SaveWithKey, keyShown
<1>7. QED
  BY <1>1, <1>2, <1>3, <1>4, <1>5, <1>6

--------------------------------------------------------------------------------
(* The daemon's steps and the answers *)

LEMMA KeyAtEffect ==
  ASSUME KeyInv, NEW r \in KeyCalls, NEW at \in {"counted", "done", "refused"}, KeyAt(r, at)
  PROVE  /\ keyCalls' \in [KeyCalls ->
                [kind : KeyKinds, at : {"idle", "sent", "counted", "done", "refused"},
                 on : KeyIds \cup {NoKey}, form : KeyForms \cup {NoForm},
                 user : KeyUsers \cup {NoKey}, got : SUBSET KeyIds]]
         /\ keyCalls'[r].at = at
         /\ \A s \in KeyCalls : keyCalls'[s].on = keyCalls[s].on
         /\ \A s \in KeyCalls : s # r => keyCalls'[s] = keyCalls[s]
         /\ SavesHaveUsers'
  BY DEF KeyAt, KeyInv, KeyPageTypeOK, SavesHaveUsers

LEMMA ListKeeps ==
  ASSUME KeyInv, NEW r \in KeyCalls, ListKeys(r)
  PROVE  KeyInv'
<1>1. CASE KeyAt(r, "refused")
  <2>1. KeyPageTypeOK'
    BY <1>1, KeyAtEffect DEF ListKeys, keyDaemon, keyShown, KeyInv, KeyPageTypeOK
  <2>2. QED
    BY <1>1, <2>1, KeyAtEffect, CallsMove DEF ListKeys, keyDaemon
<1>2. CASE keyCalls' = [keyCalls EXCEPT ![r].at = "done", ![r].got = dbKeys]
  <2>1. dbKeys \subseteq KeyIds /\ keyCalls \in [KeyCalls ->
                [kind : KeyKinds, at : {"idle", "sent", "counted", "done", "refused"},
                 on : KeyIds \cup {NoKey}, form : KeyForms \cup {NoForm},
                 user : KeyUsers \cup {NoKey}, got : SUBSET KeyIds]]
    BY DEF KeyInv, KeyPageTypeOK
  <2>2. keyCalls' = [keyCalls EXCEPT ![r] =
                [keyCalls[r] EXCEPT !.at = "done", !.got = dbKeys]]
    BY <1>2, <2>1
  <2>3. /\ keyCalls' \in [KeyCalls ->
                [kind : KeyKinds, at : {"idle", "sent", "counted", "done", "refused"},
                 on : KeyIds \cup {NoKey}, form : KeyForms \cup {NoForm},
                 user : KeyUsers \cup {NoKey}, got : SUBSET KeyIds]]
        /\ keyCalls'[r].at = "done" /\ keyCalls'[r].kind = "list"
        /\ \A s \in KeyCalls : s # r => keyCalls'[s] = keyCalls[s]
    BY <2>1, <2>2 DEF ListKeys
  <2>4. KeyPageTypeOK'
    BY <2>3 DEF ListKeys, keyDaemon, keyShown, KeyInv, KeyPageTypeOK
  <2>5. SavesHaveUsers'
    BY <2>3 DEF KeyInv, SavesHaveUsers
  <2>6. QED
    BY <2>3, <2>4, <2>5, CallsMove DEF ListKeys, keyDaemon
<1>3. QED
  BY <1>1, <1>2 DEF ListKeys

LEMMA CreateKeeps ==
  ASSUME KeyInv, NEW r \in KeyCalls, CreateKey(r)
  PROVE  KeyInv'
<1>1. PICK at \in {"done", "refused"} : KeyAt(r, at)
  BY DEF CreateKey
<1>2. /\ dbKeys \subseteq dbKeys' /\ dbKeys' \subseteq keysGiven' /\ keysGiven' \subseteq KeyIds
      /\ UNCHANGED <<keyOf, savedLate, keyShown>>
  BY DEF CreateKey, KeyInv, KeyPageTypeOK
<1>3. KeyPageTypeOK'
  BY <1>1, <1>2, KeyAtEffect DEF keyShown, KeyInv, KeyPageTypeOK
<1>4. CountHolds'
  BY <1>1, <1>2, KeyAtEffect DEF KeyInv, CountHolds
<1>5. NamedKeysStay'
  BY <1>2 DEF KeyInv, NamedKeysStay
<1>6. QED
  BY <1>1, <1>3, <1>4, <1>5, KeyAtEffect DEF KeyInv

LEMMA CountKeeps ==
  ASSUME KeyInv, NEW r \in KeyCalls, DeleteKeyCounts(r)
  PROVE  KeyInv'
<1> DEFINE at == IF \E c \in KeyUsers : keyOf[c] = keyCalls[r].on THEN "refused" ELSE "counted"
<1>1. KeyAt(r, at) /\ at \in {"refused", "counted"}
  BY DEF DeleteKeyCounts
<1>2. at = "counted" => \A c \in KeyUsers : keyOf[c] # keyCalls[r].on
  OBVIOUS
<1> HIDE DEF at
<1>3. KeyPageTypeOK'
  BY <1>1, KeyAtEffect DEF DeleteKeyCounts, keyDaemon, keyShown, KeyInv, KeyPageTypeOK
<1>4. CountHolds'
  BY <1>1, <1>2, KeyAtEffect DEF DeleteKeyCounts, keyDaemon, KeyInv, CountHolds
<1>5. NamedKeysStay'
  BY DEF DeleteKeyCounts, keyDaemon, KeyInv, NamedKeysStay
<1>6. QED
  BY <1>1, <1>3, <1>4, <1>5, KeyAtEffect DEF KeyInv

LEMMA DeleteKeeps ==
  ASSUME KeyInv, NEW r \in KeyCalls, DeleteKeyDeletes(r)
  PROVE  KeyInv'
<1>1. KeyAt(r, "done") /\ dbKeys' = dbKeys \ {keyCalls[r].on}
      /\ UNCHANGED <<keyOf, keysGiven, savedLate, keyShown>>
  BY DEF DeleteKeyDeletes
<1>2. KeyPageTypeOK'
  BY <1>1, KeyAtEffect DEF keyShown, KeyInv, KeyPageTypeOK
<1>3. CountHolds'
  BY <1>1, KeyAtEffect DEF KeyInv, CountHolds
<1>4. NamedKeysStay'
  BY <1>1 DEF DeleteKeyDeletes, KeyInv, CountHolds, NamedKeysStay
<1>5. QED
  BY <1>1, <1>2, <1>3, <1>4, KeyAtEffect DEF KeyInv

LEMMA SaveKeeps ==
  ASSUME KeyInv, NEW r \in KeyCalls, SaveConnection(r)
  PROVE  KeyInv'
<1> DEFINE call == keyCalls[r]
<1>1. /\ keyOf' = [keyOf EXCEPT ![call.user] = call.on]
      /\ savedLate' = IF call.on \in KeysGoing THEN savedLate \cup {call.user}
                      ELSE savedLate \ {call.user}
      /\ keyCalls' = [keyCalls EXCEPT ![r] = KeyIdle]
      /\ UNCHANGED <<dbKeys, keysGiven, keyShown>>
      /\ call.kind = "save"
  BY DEF SaveConnection
<1>2. call.user \in KeyUsers /\ call.on \in KeyIds \cup {NoKey}
  BY <1>1 DEF KeyInv, KeyPageTypeOK, SavesHaveUsers
<1> HIDE DEF call
<1>3. /\ keyCalls'[r] = KeyIdle /\ \A s \in KeyCalls : s # r => keyCalls'[s] = keyCalls[s]
      /\ keyOf'[call.user] = call.on /\ \A c \in KeyUsers : c # call.user => keyOf'[c] = keyOf[c]
  BY <1>1, <1>2 DEF KeyInv, KeyPageTypeOK
<1>4. KeyPageTypeOK'
  BY <1>1, <1>2, IdleKeyCall DEF KeyInv, KeyPageTypeOK, keyShown
<1>5. SavesHaveUsers'
  BY <1>3, IdleKeyCall DEF KeyInv, SavesHaveUsers
<1>6. CASE call.on \in KeysGoing
  <2>1. savedLate' = savedLate \cup {call.user}
    BY <1>1, <1>6
  <2>2. CountHolds' /\ NamedKeysStay'
    BY <1>1, <1>3, <2>1, IdleKeyCall DEF KeyInv, CountHolds, NamedKeysStay
  <2>3. QED
    BY <1>4, <1>5, <2>2 DEF KeyInv
<1>7. CASE call.on \notin KeysGoing
  <2>1. savedLate' = savedLate \ {call.user}
    BY <1>1, <1>7
  <2>2. call.on \in dbKeys \cup {NoKey}
    BY <1>2, <1>7 DEF KeysGoing
  <2>3. \A s \in KeyCalls : keyCalls[s].at = "counted" => keyCalls[s].on # call.on
    BY <1>7 DEF KeysGoing
  <2>4. CountHolds'
    BY <1>3, <2>1, <2>3, IdleKeyCall DEF KeyInv, CountHolds
  <2>5. NamedKeysStay'
    BY <1>1, <1>3, <2>1, <2>2 DEF KeyInv, NamedKeysStay
  <2>6. QED
    BY <1>4, <1>5, <2>4, <2>5 DEF KeyInv
<1>8. QED
  BY <1>6, <1>7

LEMMA KeyAnswersKeep ==
  ASSUME KeyInv, NEW r \in KeyCalls, KeyChanged(r) \/ KeyChangeRefused(r) \/ KeysListed(r)
  PROVE  KeyInv'
<1> DEFINE Calls ==
        [kind : KeyKinds, at : {"idle", "sent", "counted", "done", "refused"},
         on : KeyIds \cup {NoKey}, form : KeyForms \cup {NoForm},
         user : KeyUsers \cup {NoKey}, got : SUBSET KeyIds]
<1>0. keyCalls \in [KeyCalls -> Calls]
  BY DEF KeyInv, KeyPageTypeOK
<1>1. /\ UNCHANGED keyDaemon
      /\ keys' \subseteq KeyIds /\ UNCHANGED offeredKeys
      /\ keysLoading' \in BOOLEAN /\ keysError' \in BOOLEAN /\ keysOvertaken' \in BOOLEAN
      /\ openForms' \subseteq KeyForms /\ busyForms' \subseteq KeyForms
  BY <1>0 DEF KeyChanged, KeyChangeRefused, KeysListed, KeyInv, KeyPageTypeOK
<1>2. PICK call \in Calls :
        /\ call.at # "counted" /\ call.kind # "save"
        /\ keyCalls' = [keyCalls EXCEPT ![r] = call]
  <2>1. CASE KeyChanged(r)
    <3> DEFINE call == [keyCalls[r] EXCEPT !.kind = "list", !.at = "sent", !.on = NoKey]
    <3>1. call \in Calls /\ call.at = "sent" /\ call.kind = "list"
      BY <1>0 DEF KeyKinds
    <3>2. keyCalls' = [keyCalls EXCEPT ![r] = call]
      BY <1>0, <2>1 DEF KeyChanged
    <3> HIDE DEF call, Calls
    <3>3. QED
      BY <3>1, <3>2
  <2>2. CASE KeyChangeRefused(r)
    BY <2>2, IdleKeyCall DEF KeyChangeRefused
  <2>3. CASE KeysListed(r)
    <3> DEFINE again == [KeyIdle EXCEPT !.kind = "list", !.at = "sent"]
    <3>1. again \in Calls /\ again.at = "sent" /\ again.kind = "list"
      BY IdleKeyCall DEF KeyKinds
    <3>2. \/ keyCalls' = [keyCalls EXCEPT ![r] = again]
          \/ keyCalls' = [keyCalls EXCEPT ![r] = KeyIdle]
      BY <2>3 DEF KeysListed
    <3>3. KeyIdle \in Calls
      BY IdleKeyCall
    <3> HIDE DEF again, Calls
    <3>4. QED
      BY <3>1, <3>2, <3>3, IdleKeyCall
  <2>4. QED
    BY <2>1, <2>2, <2>3
<1>3. keyCalls' \in [KeyCalls -> Calls] /\ keyCalls'[r] = call
      /\ \A s \in KeyCalls : s # r => keyCalls'[s] = keyCalls[s]
  BY <1>0, <1>2
<1>4. KeyPageTypeOK'
  BY <1>1, <1>3 DEF KeyInv, KeyPageTypeOK, keyDaemon
<1> HIDE DEF Calls
<1>5. SavesHaveUsers'
  BY <1>2, <1>3 DEF KeyInv, SavesHaveUsers
<1>6. QED
  BY <1>1, <1>2, <1>3, <1>4, <1>5, CallsMove DEF keyDaemon

--------------------------------------------------------------------------------
LEMMA KeyStep == KeyInv /\ [KeyPageNext]_keyVars => KeyInv'
<1> SUFFICES ASSUME KeyInv, [KeyPageNext]_keyVars PROVE KeyInv'
  OBVIOUS
<1>1. CASE UNCHANGED keyVars
  BY <1>1 DEF keyVars, keyDaemon, keyShown, KeyInv, KeyPageTypeOK, SavesHaveUsers, CountHolds,
              NamedKeysStay
<1>2. ASSUME NEW r \in KeyCalls,
             \/ ListKeys(r) \/ CreateKey(r) \/ DeleteKeyCounts(r) \/ DeleteKeyDeletes(r)
             \/ SaveConnection(r) \/ KeyChanged(r) \/ KeyChangeRefused(r) \/ KeysListed(r)
      PROVE  KeyInv'
  BY <1>2, ListKeeps, CreateKeeps, CountKeeps, DeleteKeeps, SaveKeeps, KeyAnswersKeep
<1>3. CASE \/ FetchKeys \/ ConnectionFormOpens
           \/ \E f \in KeyForms : KeyFormToggled(f) \/ SubmitKeyForm(f)
           \/ \E k \in KeyIds : DeleteKeyClicked(k) \/ \E c \in KeyUsers : SaveWithKey(c, k)
  BY <1>3, KeyPageKeeps
<1>4. QED
  BY <1>1, <1>2, <1>3 DEF KeyPageNext

LEMMA KeyInvariant == KeyPageSpec => []KeyInv
BY InitKeys, KeyStep, PTL DEF KeyPageSpec

--------------------------------------------------------------------------------
(* The list of the page *)

\* A call that will list the keys as they are now, or report an error.
TellsKeys(r) ==
    \/ keyCalls[r].kind \in {"create", "delete"}
    \/ keyCalls[r].kind = "list" /\ (keyCalls[r].at = "done" => keyCalls[r].got = dbKeys)

KeysTold ==
    \/ \E r \in KeyCalls : TellsKeys(r)
    \/ keys = dbKeys \/ keysError \/ keysOvertaken

\* The spinner turns for a list that is under way.
LoadsAList == keysLoading => \E r \in KeyCalls : keyCalls[r].kind = "list"

OnlyDeletesCount == \A r \in KeyCalls : keyCalls[r].at = "counted" => keyCalls[r].kind = "delete"

ListInv == KeysTold /\ LoadsAList /\ OnlyDeletesCount

\* A call of the page.
KeyCall == [kind : KeyKinds, at : {"idle", "sent", "counted", "done", "refused"},
            on : KeyIds \cup {NoKey}, form : KeyForms \cup {NoForm},
            user : KeyUsers \cup {NoKey}, got : SUBSET KeyIds]

LEMMA InitList == KeyPageInit => ListInv
<1> SUFFICES ASSUME KeyPageInit PROVE ListInv
  OBVIOUS
<1>1. \A r \in KeyCalls : keyCalls[r] = KeyIdle
  BY DEF KeyPageInit
<1>2. QED
  BY <1>1, IdleKeyCall DEF KeyPageInit, ListInv, KeysTold, LoadsAList, OnlyDeletesCount

\* A new call stands in the place of an idle one, which tells of nothing.
LEMMA SendListed ==
  ASSUME KeyInv, ListInv, NEW kind \in KeyKinds, NEW on, NEW form, NEW user,
         KeySends(kind, on, form, user), UNCHANGED <<dbKeys, keys, keysOvertaken>>,
         \/ kind \in {"list", "create", "delete"}
         \/ UNCHANGED keysError,
         kind = "list" \/ UNCHANGED keysLoading
  PROVE  ListInv'
<1> DEFINE call == [kind |-> kind, at |-> "sent", on |-> on, form |-> form, user |-> user,
                    got |-> {}]
<1>1. PICK r \in KeyCalls :
        keyCalls[r].kind = "none" /\ keyCalls' = [keyCalls EXCEPT ![r] = call]
  BY DEF KeySends
<1>2. call.kind = kind /\ call.at = "sent"
  OBVIOUS
<1> HIDE DEF call
<1>3. keyCalls'[r] = call /\ \A s \in KeyCalls \ {r} : keyCalls'[s] = keyCalls[s]
  BY <1>1 DEF KeyInv, KeyPageTypeOK
<1>4. KeysTold'
  BY <1>1, <1>2, <1>3 DEF ListInv, KeysTold, TellsKeys
<1>5. LoadsAList' /\ OnlyDeletesCount'
  BY <1>1, <1>2, <1>3 DEF ListInv, LoadsAList, OnlyDeletesCount
<1>6. QED
  BY <1>4, <1>5 DEF ListInv

LEMMA PageListed ==
  ASSUME KeyInv, ListInv,
         \/ FetchKeys \/ ConnectionFormOpens
         \/ \E f \in KeyForms : KeyFormToggled(f) \/ SubmitKeyForm(f)
         \/ \E k \in KeyIds : DeleteKeyClicked(k) \/ \E c \in KeyUsers : SaveWithKey(c, k)
  PROVE  ListInv'
<1>0. {"list", "create", "delete", "save"} \subseteq KeyKinds
  BY DEF KeyKinds
<1>1. CASE FetchKeys
  BY <1>0, <1>1, SendListed DEF FetchKeys, keyDaemon
<1>2. ASSUME ConnectionFormOpens \/ \E f \in KeyForms : KeyFormToggled(f) PROVE ListInv'
  BY <1>2 DEF ConnectionFormOpens, KeyFormToggled, keyDaemon, ListInv, KeysTold, TellsKeys,
              LoadsAList, OnlyDeletesCount
<1>3. ASSUME NEW f \in KeyForms, SubmitKeyForm(f) PROVE ListInv'
  BY <1>0, <1>3, SendListed DEF SubmitKeyForm, keyDaemon
<1>4. ASSUME NEW k \in KeyIds, DeleteKeyClicked(k) PROVE ListInv'
  BY <1>0, <1>4, SendListed DEF DeleteKeyClicked, keyDaemon
<1>5. ASSUME NEW k \in KeyIds, NEW c \in KeyUsers, SaveWithKey(c, k) PROVE ListInv'
  BY <1>0, <1>5, SendListed DEF SaveWithKey, keyDaemon, keyShown
<1>6. QED
  BY <1>1, <1>2, <1>3, <1>4, <1>5

\* The daemon's answers: one that changes the keys is to a call that will tell of it.
LEMMA DaemonListed ==
  ASSUME KeyInv, ListInv, NEW r \in KeyCalls,
         \/ ListKeys(r) \/ CreateKey(r) \/ DeleteKeyCounts(r) \/ DeleteKeyDeletes(r)
         \/ SaveConnection(r)
  PROVE  ListInv'
<1>0. keyCalls \in [KeyCalls -> KeyCall]
  BY DEF KeyInv, KeyPageTypeOK, KeyCall
<1>1. UNCHANGED <<keys, keysError, keysOvertaken, keysLoading>>
  BY DEF ListKeys, CreateKey, DeleteKeyCounts, DeleteKeyDeletes, SaveConnection, keyShown
<1>2. \A s \in KeyCalls \ {r} : keyCalls'[s] = keyCalls[s]
  BY <1>0 DEF ListKeys, CreateKey, DeleteKeyCounts, DeleteKeyDeletes, SaveConnection, KeyAt
<1>3. CASE SaveConnection(r)
  <2>1. keyCalls[r].kind = "save" /\ keyCalls'[r] = KeyIdle /\ dbKeys' = dbKeys
    BY <1>0, <1>3 DEF SaveConnection
  <2>2. QED
    BY <1>1, <1>2, <2>1, IdleKeyCall DEF ListInv, KeysTold, TellsKeys, LoadsAList, OnlyDeletesCount
<1>4. CASE ListKeys(r)
  <2>1. /\ dbKeys' = dbKeys /\ keyCalls[r].kind = "list" /\ keyCalls'[r].kind = "list"
        /\ keyCalls'[r].at \in {"done", "refused"}
        /\ keyCalls'[r].at = "done" => keyCalls'[r].got = dbKeys
    BY <1>0, <1>4 DEF ListKeys, KeyAt, KeyCall, keyDaemon
  <2>2. QED
    BY <1>1, <1>2, <2>1 DEF ListInv, KeysTold, TellsKeys, LoadsAList, OnlyDeletesCount
<1>5. CASE CreateKey(r) \/ DeleteKeyCounts(r) \/ DeleteKeyDeletes(r)
  <2>1. /\ keyCalls[r].kind \in {"create", "delete"} /\ keyCalls'[r].kind = keyCalls[r].kind
        /\ keyCalls'[r].at = "counted" => keyCalls[r].kind = "delete"
    BY <1>0, <1>5 DEF CreateKey, DeleteKeyCounts, DeleteKeyDeletes, KeyAt, KeyCall, ListInv,
                      OnlyDeletesCount
  <2>2. QED
    BY <1>1, <1>2, <2>1 DEF ListInv, KeysTold, TellsKeys, LoadsAList, OnlyDeletesCount
<1>6. QED
  BY <1>3, <1>4, <1>5

LEMMA AnswersListed ==
  ASSUME KeyInv, ListInv, NEW r \in KeyCalls,
         KeyChanged(r) \/ KeyChangeRefused(r) \/ KeysListed(r)
  PROVE  ListInv'
<1>0. keyCalls \in [KeyCalls -> KeyCall]
  BY DEF KeyInv, KeyPageTypeOK, KeyCall
<1>1. dbKeys' = dbKeys
  BY DEF KeyChanged, KeyChangeRefused, KeysListed, keyDaemon
<1>2. \A s \in KeyCalls \ {r} : keyCalls'[s] = keyCalls[s]
  BY <1>0 DEF KeyChanged, KeyChangeRefused, KeysListed
<1>3. CASE KeyChanged(r)
  <2>1. keyCalls'[r].kind = "list" /\ keyCalls'[r].at = "sent"
    BY <1>0, <1>3 DEF KeyChanged, KeyCall
  <2>2. QED
    BY <1>1, <1>2, <1>3, <2>1 DEF KeyChanged, ListInv, KeysTold, TellsKeys, LoadsAList,
                                  OnlyDeletesCount
<1>4. CASE KeyChangeRefused(r)
  <2>1. keyCalls'[r] = KeyIdle /\ keyCalls[r].kind \in {"create", "delete"}
    BY <1>0, <1>4 DEF KeyChangeRefused
  <2>2. QED
    BY <1>1, <1>2, <1>4, <2>1, IdleKeyCall
    DEF KeyChangeRefused, ListInv, KeysTold, LoadsAList, OnlyDeletesCount
<1>5. CASE KeysListed(r)
  <2> DEFINE again == keyCalls[r].form # NoForm
  <2>1. /\ keyCalls[r].kind = "list" /\ keyCalls[r].at \in {"done", "refused"}
        /\ keys' = IF keyCalls[r].at = "done" THEN keyCalls[r].got ELSE keys
        /\ keysLoading' = again
        /\ keysOvertaken' = (keysOvertaken \/ (keys = dbKeys /\ keys' # dbKeys))
        /\ keysError' = (~again /\ (keysError \/ keyCalls[r].at = "refused"))
    BY <1>5 DEF KeysListed
  <2>2. CASE again
    <3>1. keyCalls'[r].kind = "list" /\ keyCalls'[r].at = "sent"
      BY <1>0, <1>5, <2>2, IdleKeyCall DEF KeysListed, KeyIdle
    <3>2. QED
      BY <1>1, <1>2, <3>1 DEF ListInv, KeysTold, TellsKeys, LoadsAList, OnlyDeletesCount
  <2>3. CASE ~again
    <3>1. keyCalls'[r] = KeyIdle
      BY <1>0, <1>5, <2>3 DEF KeysListed
    <3>2. KeysTold'
      <4>1. CASE keyCalls[r].at = "refused" \/ keysError
        BY <2>1, <2>3, <4>1 DEF KeysTold
      <4>2. CASE keysOvertaken \/ keys = dbKeys
        BY <1>1, <2>1, <4>2 DEF KeysTold
      <4>3. CASE keyCalls[r].at = "done" /\ TellsKeys(r)
        BY <1>1, <2>1, <4>3 DEF KeysTold, TellsKeys
      <4>4. ASSUME NEW s \in KeyCalls \ {r}, TellsKeys(s) PROVE KeysTold'
        BY <1>1, <1>2, <4>4 DEF KeysTold, TellsKeys
      <4>5. QED
        BY <2>1, <4>1, <4>2, <4>3, <4>4 DEF ListInv, KeysTold
    <3>3. LoadsAList' /\ OnlyDeletesCount'
      BY <1>2, <2>1, <2>3, <3>1, IdleKeyCall DEF ListInv, LoadsAList, OnlyDeletesCount
    <3>4. QED
      BY <3>2, <3>3 DEF ListInv
  <2>4. QED
    BY <2>2, <2>3
<1>6. QED
  BY <1>3, <1>4, <1>5

LEMMA ListStep == KeyInv /\ ListInv /\ [KeyPageNext]_keyVars => ListInv'
<1> SUFFICES ASSUME KeyInv, ListInv, [KeyPageNext]_keyVars PROVE ListInv'
  OBVIOUS
<1>1. CASE UNCHANGED keyVars
  BY <1>1 DEF keyVars, keyDaemon, keyShown, ListInv, KeysTold, TellsKeys, LoadsAList,
              OnlyDeletesCount
<1>2. CASE KeyPageNext
  BY <1>2, PageListed, DaemonListed, AnswersListed DEF KeyPageNext
<1>3. QED
  BY <1>1, <1>2

--------------------------------------------------------------------------------
\* The variables of the key store and of its page keep their types.
THEOREM KeyTypes == KeyPageSpec => []KeyPageTypeOK
<1>1. KeyInv => KeyPageTypeOK
  BY DEF KeyInv
<1>2. QED
  BY KeyInvariant, <1>1, PTL

\* A deletion takes no key from a connection that named it in time: only one saved
\* between the count and the delete, or after it, is left without its key.
THEOREM KeysStay == KeyPageSpec => []NamedKeysStay
<1>1. KeyInv => NamedKeysStay
  BY DEF KeyInv
<1>2. QED
  BY KeyInvariant, <1>1, PTL

\* When every call of the store has been answered nothing spins, and the page lists the
\* daemon's keys or shows an error, unless an older list came after a newer one.
THEOREM KeysSettle == KeyPageSpec => []KeyListSettles
<1>1. ListInv => KeyListSettles
  BY DEF ListInv, KeyListSettles, KeysTold, TellsKeys, LoadsAList
<1>2. KeyPageSpec => []ListInv
  BY KeyInvariant, InitList, ListStep, PTL DEF KeyPageSpec
<1>3. QED
  BY <1>1, <1>2, PTL

--------------------------------------------------------------------------------
(*****************************************************************************)
(* The page.                                                                 *)
(*****************************************************************************)

\* A step of the page is one of the part that moves; the other parts stand still.
LEMMA PartsInitially ==
    Init => /\ ConnPageInit /\ FilePageInit /\ TunnelPageInit /\ ProxyGraphInit
            /\ RouteTraceInit /\ GroupPageInit /\ VaultPageInit /\ KeyPageInit
            /\ ProxyFormsInit /\ TerminalTabsInit
            /\ part \in Parts
BY DEF Init

LEMMA PartsMove ==
    [Next]_vars =>
        /\ [ConnPageNext]_connPageVars /\ [FilePageNext]_filePageVars
        /\ [TunnelPageNext]_tunnelPageVars /\ [ProxyGraphNext]_proxyGraphVars
        /\ [RouteTraceNext]_routeTraceVars /\ [GroupPageNext]_groupPageVars
        /\ [VaultPageNext]_vaultVars /\ [KeyPageNext]_keyVars
        /\ [ProxyFormsNext]_proxyFormsVars /\ [TerminalTabsNext]_tabVars
        /\ UNCHANGED part
BY DEF Next, vars, partVars

\* What is proved of a part holds of the page as the run explores it: every behaviour
\* of the page is a behaviour of each of its parts.
THEOREM PageRunsItsParts ==
    Spec => /\ ConnPageSpec /\ FilePageSpec /\ TunnelPageSpec /\ ProxyGraphSpec
            /\ RouteTraceSpec /\ GroupPageSpec /\ VaultPageSpec /\ KeyPageSpec
            /\ ProxyFormsSpec /\ TerminalTabsSpec
BY PartsInitially, PartsMove, PTL
DEF Spec, ConnPageSpec, FilePageSpec, TunnelPageSpec, ProxyGraphSpec, RouteTraceSpec,
    GroupPageSpec, VaultPageSpec, KeyPageSpec, ProxyFormsSpec, TerminalTabsSpec

\* The variables of whichever part moves keep their types.
THEOREM PageTypes == Spec => []TypeOK
<1>1. Spec => [](part \in Parts)
  <2>1. part \in Parts /\ [Next]_vars => (part \in Parts)'
    BY PartsMove
  <2>2. QED
    BY <2>1, PartsInitially, PTL DEF Spec
<1>2. /\ ConnPageTypeOK /\ FilePageTypeOK /\ TunnelPageTypeOK /\ ProxyGraphTypeOK
      /\ RouteTraceTypeOK /\ GroupPageTypeOK /\ VaultPageTypeOK /\ KeyPageTypeOK
      /\ ProxyFormsTypeOK /\ TerminalTabsTypeOK
      /\ part \in Parts
      => TypeOK
  BY DEF Parts, TypeOK
<1>3. QED
  BY <1>1, <1>2, PageRunsItsParts, ConnectionTypes, FilePageTypes, TunnelPageTypes,
     ProxyGraphTypes, RouteTypes, GroupPageTypes, VaultTypes, KeyTypes, ProxyFormsTypes,
     TabsTypes, PTL
================================================================================
