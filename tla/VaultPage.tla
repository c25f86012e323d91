------------------------------- MODULE VaultPage -------------------------------
(***************************************************************************)
(* The vault that encrypts saved credentials: its handlers in server.go,   *)
(* the key in memory (crypto.Vault), the hash in the settings table, and   *)
(* the page that sets it up and unlocks it: settingsStore.ts, the modal of *)
(* VaultUnlockModal.tsx and the page of Settings.tsx.  A key is told by    *)
(* the password it is derived from, and so is a hash.                      *)
(***************************************************************************)
CONSTANTS
    Passwords, LongPasswords,     \* all that are typed, those of 8 characters
    VaultCalls,                   \* requests of the page under way at a time
    NoPassword

ASSUME VaultPageAssumption ==
    LongPasswords \subseteq Passwords /\ NoPassword \notin Passwords

VARIABLES
    (* the daemon *)
    vaultHash,     \* the password whose hash is stored
    masterKey,     \* the password the key in memory is derived from
    sealedWith,    \* the passwords whose keys encrypted the stored credentials
    (* the page *)
    vaultLocked, vaultConfigured, vaultModalOpen,
    modalLoading,
    vaultCalls,
    (* history *)
    setupsOverlapped   \* a set-up began while another one was at work

vaultDaemon == <<vaultHash, masterKey, sealedWith, setupsOverlapped>>
vaultShown == <<vaultLocked, vaultConfigured, vaultModalOpen, modalLoading>>
vaultVars == <<vaultDaemon, vaultShown, vaultCalls>>

VaultKinds == {"fetch", "setup", "unlock", "save"}
\* from is where the request was made, locked and configured what a status
\* reply carries.
VaultCall ==
    [kind : VaultKinds \cup {"none"},
     at : {"idle", "sent", "checked", "stored", "read", "done", "refused"},
     from : {"modal", "page"}, pw : Passwords \cup {NoPassword},
     locked : BOOLEAN, configured : BOOLEAN]
VaultIdle ==
    [kind |-> "none", at |-> "idle", from |-> "page", pw |-> NoPassword,
     locked |-> FALSE, configured |-> FALSE]

VaultPageTypeOK ==
    /\ vaultHash \in LongPasswords \cup {NoPassword}
    /\ masterKey \in Passwords \cup {NoPassword}
    /\ sealedWith \subseteq Passwords
    /\ vaultLocked \in BOOLEAN /\ vaultConfigured \in BOOLEAN
    /\ vaultModalOpen \in BOOLEAN /\ modalLoading \in BOOLEAN
    /\ vaultCalls \in [VaultCalls -> VaultCall]
    /\ setupsOverlapped \in BOOLEAN

VaultPageInit ==
    /\ vaultHash \in LongPasswords \cup {NoPassword}
    /\ masterKey = NoPassword
    /\ sealedWith = {vaultHash} \ {NoPassword}
    /\ vaultLocked = TRUE /\ vaultConfigured = FALSE
    /\ vaultModalOpen = FALSE /\ modalLoading = FALSE
    /\ vaultCalls = [r \in VaultCalls |-> VaultIdle]
    /\ setupsOverlapped = FALSE

--------------------------------------------------------------------------------
(* The page asks *)

VaultSends(call) ==
    \E r \in VaultCalls :
        /\ vaultCalls[r].kind = "none"
        /\ vaultCalls' = [vaultCalls EXCEPT ![r] = call]

\* fetch of the store, when the modal or a page mounts.
FetchSettings(from) ==
    /\ VaultSends([VaultIdle EXCEPT !.kind = "fetch", !.at = "sent", !.from = from])
    /\ UNCHANGED <<vaultDaemon, vaultShown>>

\* The modal shows up in front of any page while there is something to do in it.
ModalVisible == vaultModalOpen /\ (vaultLocked \/ ~vaultConfigured)

\* Opened by the pages' notes and by a connect that needs the vault; closed by Later.
ModalToggled ==
    /\ ~modalLoading
    /\ vaultModalOpen' = ~vaultModalOpen
    /\ UNCHANGED <<vaultDaemon, vaultCalls, vaultLocked, vaultConfigured, modalLoading>>

\* The request a password leads to; a short one is good only for an unlock.
PasswordGiven(pw, from) ==
    /\ vaultConfigured \/ pw \in LongPasswords
    /\ VaultSends([VaultIdle EXCEPT !.at = "sent", !.from = from, !.pw = pw,
                   !.kind = IF vaultConfigured THEN "unlock" ELSE "setup"])

\* handleSubmit of the modal, whose buttons wait for the answer.
ModalSubmit(pw) ==
    /\ ModalVisible /\ ~modalLoading
    /\ PasswordGiven(pw, "modal")
    /\ modalLoading' = TRUE
    /\ UNCHANGED <<vaultDaemon, vaultLocked, vaultConfigured, vaultModalOpen>>

\* handleVault of the settings page, whose button does not.
SettingsSubmit(pw) ==
    /\ ~ModalVisible
    /\ PasswordGiven(pw, "page")
    /\ UNCHANGED <<vaultDaemon, vaultShown>>

\* A connection or a key is saved with a secret, which the forms allow when the
\* page takes the vault for open.
SaveSecret ==
    /\ vaultConfigured /\ ~vaultLocked
    /\ VaultSends([VaultIdle EXCEPT !.kind = "save", !.at = "sent"])
    /\ UNCHANGED <<vaultDaemon, vaultShown>>

--------------------------------------------------------------------------------
(* The daemon answers *)

VaultAt(r, at) == vaultCalls' = [vaultCalls EXCEPT ![r].at = at]

SetupsAtWork ==
    {r \in VaultCalls : vaultCalls[r].kind = "setup" /\ vaultCalls[r].at \in {"checked", "stored"}}

\* handleVaultSetup as it would be without its look at the stored hash.
SetupChecksNothing(r) ==
    /\ vaultCalls[r].kind = "setup" /\ vaultCalls[r].at = "sent"
    /\ VaultAt(r, "checked")
    /\ setupsOverlapped' = (setupsOverlapped \/ SetupsAtWork # {})
    /\ UNCHANGED <<vaultHash, masterKey, sealedWith, vaultShown>>

\* handleVaultSetup looks for a hash ...
SetupChecks(r) ==
    /\ vaultCalls[r].kind = "setup" /\ vaultCalls[r].at = "sent"
    /\ VaultAt(r, IF vaultHash = NoPassword THEN "checked" ELSE "refused")
    /\ setupsOverlapped' = (setupsOverlapped \/ SetupsAtWork # {})
    /\ UNCHANGED <<vaultHash, masterKey, sealedWith, vaultShown>>

\* ... stores its own ...
SetupStores(r) ==
    /\ vaultCalls[r].kind = "setup" /\ vaultCalls[r].at = "checked"
    /\ vaultHash' = vaultCalls[r].pw
    /\ VaultAt(r, "stored")
    /\ UNCHANGED <<masterKey, sealedWith, setupsOverlapped, vaultShown>>

\* ... and unlocks.
SetupUnlocks(r) ==
    /\ vaultCalls[r].kind = "setup" /\ vaultCalls[r].at = "stored"
    /\ masterKey' = vaultCalls[r].pw
    /\ VaultAt(r, "done")
    /\ UNCHANGED <<vaultHash, sealedWith, setupsOverlapped, vaultShown>>

\* handleVaultUnlock compares the password with the hash, if there is one ...
UnlockChecks(r) ==
    /\ vaultCalls[r].kind = "unlock" /\ vaultCalls[r].at = "sent"
    /\ VaultAt(r, IF vaultHash \in {NoPassword, vaultCalls[r].pw} THEN "checked" ELSE "refused")
    /\ UNCHANGED <<vaultDaemon, vaultShown>>

\* ... and derives the key from it.
UnlockUnlocks(r) ==
    /\ vaultCalls[r].kind = "unlock" /\ vaultCalls[r].at = "checked"
    /\ masterKey' = vaultCalls[r].pw
    /\ VaultAt(r, "done")
    /\ UNCHANGED <<vaultHash, sealedWith, setupsOverlapped, vaultShown>>

\* handleVaultLock, which no page asks for, and a daemon that starts again.
VaultLocks ==
    /\ masterKey' = NoPassword
    /\ \/ UNCHANGED vaultCalls
       \/ vaultCalls' = [r \in VaultCalls |->
            IF vaultCalls[r].kind = "none" THEN vaultCalls[r]
            ELSE [vaultCalls[r] EXCEPT !.at = "refused"]]
    /\ UNCHANGED <<vaultHash, sealedWith, setupsOverlapped, vaultShown>>

\* encryptConnectionSecrets and the key handlers.
SealSecret(r) ==
    /\ vaultCalls[r].kind = "save" /\ vaultCalls[r].at = "sent"
    /\ VaultAt(r, IF masterKey = NoPassword THEN "refused" ELSE "done")
    /\ sealedWith' = sealedWith \cup ({masterKey} \ {NoPassword})
    /\ UNCHANGED <<vaultHash, masterKey, setupsOverlapped, vaultShown>>

\* handleVaultStatus reads the hash ...
StatusReadsHash(r) ==
    /\ vaultCalls[r].kind = "fetch" /\ vaultCalls[r].at = "sent"
    /\ vaultCalls' = [vaultCalls EXCEPT ![r].at = "read",
                                        ![r].configured = (vaultHash # NoPassword)]
    /\ UNCHANGED <<vaultDaemon, vaultShown>>

\* ... and then whether the vault is locked.
StatusReadsLock(r) ==
    /\ vaultCalls[r].kind = "fetch" /\ vaultCalls[r].at = "read"
    /\ vaultCalls' = [vaultCalls EXCEPT ![r].at = "done",
                                        ![r].locked = (masterKey = NoPassword)]
    /\ UNCHANGED <<vaultDaemon, vaultShown>>

--------------------------------------------------------------------------------
(* The answers arrive *)

\* unlockVault and setupVault after their await, and the form they came from.
VaultOpened(r) ==
    LET call == vaultCalls[r]
    IN  /\ call.kind \in {"setup", "unlock"} /\ call.at = "done"
        /\ vaultLocked' = FALSE /\ vaultModalOpen' = FALSE
        /\ vaultConfigured' = (vaultConfigured \/ call.kind = "setup")
        /\ modalLoading' = (modalLoading /\ call.from # "modal")
        /\ vaultCalls' = [vaultCalls EXCEPT ![r] = VaultIdle]
        /\ UNCHANGED vaultDaemon

\* fetch after its await; the modal's one then opens the modal.
SettingsFetched(r) ==
    LET call == vaultCalls[r]
    IN  /\ call.kind = "fetch" /\ call.at = "done"
        /\ vaultLocked' = call.locked /\ vaultConfigured' = call.configured
        /\ vaultModalOpen' = (vaultModalOpen \/
                (call.from = "modal" /\ (call.locked \/ ~call.configured)))
        /\ vaultCalls' = [vaultCalls EXCEPT ![r] = VaultIdle]
        /\ UNCHANGED <<vaultDaemon, modalLoading>>

\* Saved, or refused: the form shows the error and only the modal has more to do.
VaultAnswered(r) ==
    LET call == vaultCalls[r]
    IN  /\ call.at = "refused" \/ (call.kind = "save" /\ call.at = "done")
        /\ modalLoading' = (modalLoading /\
                ~(call.from = "modal" /\ call.kind \in {"setup", "unlock"}))
        /\ vaultCalls' = [vaultCalls EXCEPT ![r] = VaultIdle]
        /\ UNCHANGED <<vaultDaemon, vaultLocked, vaultConfigured, vaultModalOpen>>

VaultPageNext ==
    \/ \E from \in {"modal", "page"} : FetchSettings(from)
    \/ \E pw \in Passwords : ModalSubmit(pw) \/ SettingsSubmit(pw)
    \/ ModalToggled \/ SaveSecret \/ VaultLocks
    \/ \E r \in VaultCalls :
        \/ SetupChecks(r) \/ SetupStores(r) \/ SetupUnlocks(r)
        \/ UnlockChecks(r) \/ UnlockUnlocks(r) \/ SealSecret(r)
        \/ StatusReadsHash(r) \/ StatusReadsLock(r)
        \/ VaultOpened(r) \/ SettingsFetched(r) \/ VaultAnswered(r)

VaultPageSpec == VaultPageInit /\ [][VaultPageNext]_vaultVars

--------------------------------------------------------------------------------
\* Every stored credential, and every one the key in memory will encrypt, can be
\* decrypted with the password the vault accepts, unless two set-ups overlapped
\* (handleVaultSetup looks, stores and unlocks in three steps).
EverySecretOpens ==
    setupsOverlapped \/ sealedWith \cup ({masterKey} \ {NoPassword}) \subseteq {vaultHash}

================================================================================
