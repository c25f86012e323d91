-------------------------------- MODULE KeyPage --------------------------------
(***************************************************************************)
(* The stored SSH keys: keyStore.ts and KeyManager.tsx on the page,        *)
(* keys.go on the daemon, and the connections that name a key.  A key is   *)
(* deleted when no connection is counted that names it; whether a          *)
(* connection's key exists is not looked at when the connection is saved.  *)
(* A form of the page is one for generating or one for importing; the      *)
(* vault's part in them is in VaultPage.                                   *)
(***************************************************************************)
CONSTANTS
    KeyIds,        \* ids the daemon can give to keys, each once
    KeyUsers,      \* saved connections
    KeyForms,      \* the forms: generate and import
    KeyCalls,      \* requests under way at a time
    NoKey

ASSUME KeyPageAssumption == NoKey \notin KeyIds /\ KeyIds \cap KeyUsers = {}

VARIABLES
    (* the daemon *)
    dbKeys, keyOf,     \* the keys table, and the key each saved connection names
    keysGiven,         \* ids given out
    (* the page *)
    keys, keysLoading, keysError,
    openForms, busyForms,
    offeredKeys,       \* what the form of a connection offers: the list of its mount
    keyCalls,
    (* history *)
    savedLate,         \* connections saved with a key that was going or gone
    keysOvertaken      \* a list reply arrived after a newer one

keyDaemon == <<dbKeys, keyOf, keysGiven, savedLate>>
keyShown == <<keys, keysLoading, keysError, openForms, busyForms, offeredKeys, keysOvertaken>>
keyVars == <<keyDaemon, keyShown, keyCalls>>

KeyKinds == {"none", "list", "create", "delete", "save"}
NoForm == "none"
KeyIdle == [kind |-> "none", at |-> "idle", on |-> NoKey, form |-> NoForm,
            user |-> NoKey, got |-> {}]

KeyPageTypeOK ==
    /\ dbKeys \subseteq keysGiven /\ keysGiven \subseteq KeyIds
    /\ keyOf \in [KeyUsers -> KeyIds \cup {NoKey}]
    /\ keys \subseteq KeyIds /\ offeredKeys \subseteq KeyIds
    /\ keysLoading \in BOOLEAN /\ keysError \in BOOLEAN /\ keysOvertaken \in BOOLEAN
    /\ openForms \subseteq KeyForms /\ busyForms \subseteq KeyForms
    /\ savedLate \subseteq KeyUsers
    /\ keyCalls \in [KeyCalls ->
        [kind : KeyKinds, at : {"idle", "sent", "counted", "done", "refused"},
         on : KeyIds \cup {NoKey}, form : KeyForms \cup {NoForm},
         user : KeyUsers \cup {NoKey}, got : SUBSET KeyIds]]

KeyPageInit ==
    /\ keysGiven \in SUBSET KeyIds /\ dbKeys = keysGiven
    /\ keyOf = [c \in KeyUsers |-> NoKey]
    /\ keys = dbKeys /\ offeredKeys = dbKeys       \* the page has mounted and listed them
    /\ keysLoading = FALSE /\ keysError = FALSE
    /\ openForms = {} /\ busyForms = {}
    /\ keyCalls = [r \in KeyCalls |-> KeyIdle]
    /\ savedLate = {} /\ keysOvertaken = FALSE

--------------------------------------------------------------------------------
(* The page asks *)

KeySends(kind, on, form, user) ==
    \E r \in KeyCalls :
        /\ keyCalls[r].kind = "none"
        /\ keyCalls' = [keyCalls EXCEPT ![r] = [kind |-> kind, at |-> "sent", on |-> on,
                                               form |-> form, user |-> user, got |-> {}]]

\* fetch of the store when the page mounts again.
FetchKeys ==
    /\ KeySends("list", NoKey, NoForm, NoKey)
    /\ keysLoading' = TRUE /\ keysError' = FALSE
    /\ UNCHANGED <<keyDaemon, keys, openForms, busyForms, offeredKeys, keysOvertaken>>

\* The Generate and Import buttons, Cancel.
KeyFormToggled(f) ==
    /\ openForms' = (openForms \ {f}) \cup ({f} \ openForms)
    /\ UNCHANGED <<keyDaemon, keyCalls, keys, keysLoading, keysError, busyForms, offeredKeys,
                   keysOvertaken>>

\* handleSubmit of a form, and generate or importKey up to their first await.
SubmitKeyForm(f) ==
    /\ f \in openForms \ busyForms
    /\ KeySends("create", NoKey, f, NoKey)
    /\ busyForms' = busyForms \cup {f}
    /\ keysError' = FALSE
    /\ UNCHANGED <<keyDaemon, keys, keysLoading, openForms, offeredKeys, keysOvertaken>>

\* handleDelete of the page, confirmed.
DeleteKeyClicked(k) ==
    /\ k \in keys
    /\ KeySends("delete", k, NoForm, NoKey)
    /\ keysError' = FALSE
    /\ UNCHANGED <<keyDaemon, keys, keysLoading, openForms, busyForms, offeredKeys,
                   keysOvertaken>>

\* A connection is added, or edited, with one of the keys its form offers.
SaveWithKey(c, k) ==
    /\ k \in offeredKeys
    /\ KeySends("save", k, NoForm, c)
    /\ UNCHANGED <<keyDaemon, keyShown>>

\* The form of a connection opens and has loaded the keys.
ConnectionFormOpens ==
    /\ offeredKeys' = dbKeys
    /\ UNCHANGED <<keyDaemon, keyCalls, keys, keysLoading, keysError, openForms, busyForms,
                   keysOvertaken>>

--------------------------------------------------------------------------------
(* The daemon answers *)

KeyAt(r, at) == keyCalls' = [keyCalls EXCEPT ![r].at = at]

ListKeys(r) ==
    /\ keyCalls[r].kind = "list" /\ keyCalls[r].at = "sent"
    /\ \/ keyCalls' = [keyCalls EXCEPT ![r].at = "done", ![r].got = dbKeys]
       \/ KeyAt(r, "refused")
    /\ UNCHANGED <<keyDaemon, keyShown>>

\* handleGenerateKey and handleImportKey; refused when the vault is locked or the key
\* is not one.
CreateKey(r) ==
    /\ keyCalls[r].kind = "create" /\ keyCalls[r].at = "sent"
    /\ \/ \E k \in KeyIds \ keysGiven :
            /\ keysGiven' = keysGiven \cup {k} /\ dbKeys' = dbKeys \cup {k}
            /\ KeyAt(r, "done")
       \/ KeyAt(r, "refused") /\ UNCHANGED <<keysGiven, dbKeys>>
    /\ UNCHANGED <<keyOf, savedLate, keyShown>>

\* handleDeleteKey as it would be without its look at the count.
DeleteKeyUncounted(r) ==
    /\ keyCalls[r].kind = "delete" /\ keyCalls[r].at = "sent"
    /\ KeyAt(r, "counted")
    /\ UNCHANGED <<keyDaemon, keyShown>>

\* handleDeleteKey counts the connections that name the key ...
DeleteKeyCounts(r) ==
    /\ keyCalls[r].kind = "delete" /\ keyCalls[r].at = "sent"
    /\ KeyAt(r, IF \E c \in KeyUsers : keyOf[c] = keyCalls[r].on THEN "refused" ELSE "counted")
    /\ UNCHANGED <<keyDaemon, keyShown>>

\* ... and deletes it, also when it is gone.
DeleteKeyDeletes(r) ==
    /\ keyCalls[r].at = "counted"
    /\ dbKeys' = dbKeys \ {keyCalls[r].on}
    /\ KeyAt(r, "done")
    /\ UNCHANGED <<keyOf, keysGiven, savedLate, keyShown>>

KeysGoing ==
    (KeyIds \ dbKeys) \cup
        {keyCalls[r].on : r \in {q \in KeyCalls : keyCalls[q].at = "counted"}}

\* handleCreateConnection and handleUpdateConnection.
SaveConnection(r) ==
    LET call == keyCalls[r]
    IN  /\ call.kind = "save" /\ call.at = "sent"
        /\ keyOf' = [keyOf EXCEPT ![call.user] = call.on]
        /\ savedLate' = IF call.on \in KeysGoing THEN savedLate \cup {call.user}
                        ELSE savedLate \ {call.user}
        /\ keyCalls' = [keyCalls EXCEPT ![r] = KeyIdle]
        /\ UNCHANGED <<dbKeys, keysGiven, keyShown>>

--------------------------------------------------------------------------------
(* The answers arrive *)

\* The key is made or deleted, and the store lists the keys.
KeyChanged(r) ==
    /\ keyCalls[r].kind \in {"create", "delete"} /\ keyCalls[r].at = "done"
    /\ keyCalls' = [keyCalls EXCEPT ![r].kind = "list", ![r].at = "sent", ![r].on = NoKey]
    /\ keysLoading' = TRUE /\ keysError' = FALSE
    /\ UNCHANGED <<keyDaemon, keys, openForms, busyForms, offeredKeys, keysOvertaken>>

KeyChangeRefused(r) ==
    /\ keyCalls[r].kind \in {"create", "delete"} /\ keyCalls[r].at = "refused"
    /\ keysError' = TRUE
    /\ busyForms' = busyForms \ {keyCalls[r].form}
    /\ keyCalls' = [keyCalls EXCEPT ![r] = KeyIdle]
    /\ UNCHANGED <<keyDaemon, keys, keysLoading, openForms, offeredKeys, keysOvertaken>>

\* fetch after its await as it would be if a failed list only ended the loading.
KeysListedSilently(r) ==
    LET call == keyCalls[r]
    IN  /\ call.kind = "list" /\ call.at \in {"done", "refused"}
        /\ keys' = IF call.at = "done" THEN call.got ELSE keys
        /\ keysOvertaken' = (keysOvertaken \/ (keys = dbKeys /\ keys' # dbKeys))
        /\ keysLoading' = FALSE
        /\ openForms' = openForms \ {call.form} /\ busyForms' = busyForms \ {call.form}
        /\ keyCalls' = [keyCalls EXCEPT ![r] = KeyIdle]
        /\ UNCHANGED <<keyDaemon, keysError, offeredKeys>>

\* fetch after its await; a form that waited for it closes and onCreated lists again.
KeysListed(r) ==
    LET call == keyCalls[r]
        again == call.form # NoForm
    IN  /\ call.kind = "list" /\ call.at \in {"done", "refused"}
        /\ keys' = IF call.at = "done" THEN call.got ELSE keys
        /\ keysOvertaken' = (keysOvertaken \/ (keys = dbKeys /\ keys' # dbKeys))
        /\ keysLoading' = again
        /\ keysError' = (~again /\ (keysError \/ call.at = "refused"))
        /\ openForms' = openForms \ {call.form} /\ busyForms' = busyForms \ {call.form}
        /\ keyCalls' = [keyCalls EXCEPT ![r] =
                IF again THEN [KeyIdle EXCEPT !.kind = "list", !.at = "sent"] ELSE KeyIdle]
        /\ UNCHANGED <<keyDaemon, offeredKeys>>

KeyPageNext ==
    \/ FetchKeys \/ ConnectionFormOpens
    \/ \E f \in KeyForms : KeyFormToggled(f) \/ SubmitKeyForm(f)
    \/ \E k \in KeyIds : DeleteKeyClicked(k) \/ \E c \in KeyUsers : SaveWithKey(c, k)
    \/ \E r \in KeyCalls :
        \/ ListKeys(r) \/ CreateKey(r) \/ DeleteKeyCounts(r) \/ DeleteKeyDeletes(r)
        \/ SaveConnection(r) \/ KeyChanged(r) \/ KeyChangeRefused(r) \/ KeysListed(r)

KeyPageSpec == KeyPageInit /\ [][KeyPageNext]_keyVars

--------------------------------------------------------------------------------
\* The key a saved connection names exists, unless the connection was saved when the
\* key was going or gone (handleDeleteKey counts first and deletes afterwards).
NamedKeysStay ==
    \A c \in KeyUsers \ savedLate : keyOf[c] \in dbKeys \cup {NoKey}

\* With no call of the store under way the page lists the daemon's keys, or shows an
\* error, unless two list replies came in the wrong order.
KeyListSettles ==
    (\A r \in KeyCalls : keyCalls[r].kind \in {"none", "save"})
        => ~keysLoading /\ (keys = dbKeys \/ keysError \/ keysOvertaken)

================================================================================
