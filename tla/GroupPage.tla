------------------------------ MODULE GroupPage ------------------------------
(***************************************************************************)
(* Groups and the saved connections in them: groupStore.ts, the parts of   *)
(* connectionStore.ts that read and write rows, the sidebar and the list,  *)
(* and the daemon's rows.  The daemon reads a row, changes it and saves it *)
(* whole in two steps; saving a row that has gone meanwhile inserts it     *)
(* again.  A request of the store that changes groups or rows is followed  *)
(* by one that lists them, in the same call.                               *)
(***************************************************************************)
EXTENDS FiniteSets, Integers

CONSTANTS
    Saved,          \* saved connections
    GroupIds,      \* ids the daemon can give to groups, each once
    GroupCalls,    \* calls of the stores under way at a time
    NoGroup, Ungrouped, NoRow

ASSUME GroupPageAssumption ==
    /\ Cardinality({NoGroup, Ungrouped, NoRow}) = 3
    /\ {NoGroup, Ungrouped, NoRow} \cap (GroupIds \cup Saved) = {}

VARIABLES
    (* the daemon *)
    dbGroups,      \* the groups table
    dbRows,        \* row -> its group_id, or NoRow when it is deleted
    (* the page *)
    groups, connections,      \* as the last list replies had them
    selectedGroupId,
    groupForm,     \* the form is open
    groupCalls,
    (* history *)
    created,       \* ids given out
    groupsUnlisted,    \* a list of groups failed, and none was right since
    groupsOvertaken,   \* a list reply arrived after a newer one
    crossed        \* rows saved after they, or the group they go to, were deleted

groupPageVars == <<dbGroups, dbRows, groups, connections, selectedGroupId, groupForm,
                   groupCalls, created, groupsUnlisted, groupsOvertaken, crossed>>
dbVars == <<dbGroups, dbRows, created>>
groupHistory == <<groupsUnlisted, groupsOvertaken, crossed>>

Kinds == {"create", "update", "remove", "listGroups", "assign", "delete", "listRows"}
\* on is the group or row, to the group a row goes to or the selection at the
\* click, got what a list reply carries.
IdleCall == [kind |-> "none", at |-> "idle", on |-> NoRow, to |-> NoGroup, form |-> FALSE,
             got |-> <<>>]
GroupTargets == GroupIds \cup {NoGroup}

GroupPageTypeOK ==
    /\ dbGroups \subseteq created /\ created \subseteq GroupIds
    /\ dbRows \in [Saved -> GroupTargets \cup {NoRow}]
    /\ groups \subseteq GroupIds
    /\ connections \in [Saved -> GroupTargets \cup {NoRow}]
    /\ selectedGroupId \in GroupTargets \cup {Ungrouped}
    /\ groupForm \in BOOLEAN
    /\ \A r \in GroupCalls :
        /\ groupCalls[r].kind \in Kinds \cup {"none"}
        /\ groupCalls[r].at \in {"idle", "sent", "read", "answered", "refused"}
    /\ groupsUnlisted \in BOOLEAN /\ groupsOvertaken \in BOOLEAN
    /\ crossed \subseteq Saved

GroupPageInit ==
    /\ created \in SUBSET GroupIds /\ dbGroups = created
    /\ dbRows \in [Saved -> dbGroups \cup {NoGroup}]
    /\ groups = dbGroups /\ connections = dbRows
    /\ selectedGroupId = NoGroup
    /\ groupForm = FALSE
    /\ groupCalls = [r \in GroupCalls |-> IdleCall]
    /\ groupsUnlisted = FALSE /\ groupsOvertaken = FALSE /\ crossed = {}

--------------------------------------------------------------------------------
(* What the page shows *)

\* filterConnections.
Filtered ==
    {c \in Saved : connections[c] # NoRow /\
        \/ selectedGroupId = NoGroup
        \/ selectedGroupId = Ungrouped /\ connections[c] = NoGroup
        \/ connections[c] = selectedGroupId}

\* groupBySection: a section for each group that has rows, and one for the others.
Section(g) == {c \in Filtered : connections[c] = g}

\* ConnectionList: sections only in the view of all, and only if there are groups.
Shown ==
    IF selectedGroupId = NoGroup /\ groups # {}
    THEN UNION {Section(g) : g \in groups \cup {NoGroup}}
    ELSE Filtered

\* The number beside a group in the sidebar.
Count(g) == Cardinality({c \in Saved : connections[c] = g})

\* The entries of the sidebar.
Selectable ==
    groups \cup {NoGroup} \cup
        (IF Count(NoGroup) > 0 /\ groups # {} THEN {Ungrouped} ELSE {})

--------------------------------------------------------------------------------
(* Calls *)

GroupSends(kind, on, to, form) ==
    \E r \in GroupCalls :
        /\ groupCalls[r].at = "idle"
        /\ groupCalls' = [groupCalls EXCEPT ![r] = [kind |-> kind, at |-> "sent", on |-> on,
                                                  to |-> to, form |-> form, got |-> <<>>]]

SelectGroup ==
    /\ selectedGroupId' \in Selectable
    /\ UNCHANGED <<dbVars, groups, connections, groupForm, groupCalls, groupHistory>>

\* openCreate, openEdit, Cancel.
GroupFormToggled ==
    /\ groupForm' = ~groupForm
    /\ UNCHANGED <<dbVars, groups, connections, selectedGroupId, groupCalls, groupHistory>>

\* The form's loading.
GroupSaving == \E r \in GroupCalls : groupCalls[r].form

\* handleSubmit of the form, up to its await.
SubmitGroupForm ==
    /\ groupForm /\ ~GroupSaving
    /\ \/ GroupSends("create", NoRow, NoGroup, TRUE)
       \/ \E g \in groups : GroupSends("update", g, NoGroup, TRUE)
    /\ UNCHANGED <<dbVars, groups, connections, selectedGroupId, groupForm, groupHistory>>

\* The sidebar's handleDelete, which keeps the selection of the moment.
DeleteGroupClicked(g) ==
    /\ g \in groups
    /\ GroupSends("remove", g, selectedGroupId, FALSE)
    /\ UNCHANGED <<dbVars, groups, connections, selectedGroupId, groupForm, groupHistory>>

\* The select of a card: assignGroup puts back the page's whole copy of the row.
AssignGroup(c, g) ==
    /\ c \in Shown /\ g \in groups \cup {NoGroup}
    /\ GroupSends("assign", c, g, FALSE)
    /\ UNCHANGED <<dbVars, groups, connections, selectedGroupId, groupForm, groupHistory>>

\* connectionStore's remove.
RemoveRow(c) ==
    /\ c \in Shown
    /\ GroupSends("delete", c, NoGroup, FALSE)
    /\ UNCHANGED <<dbVars, groups, connections, selectedGroupId, groupForm, groupHistory>>

--------------------------------------------------------------------------------
(* The daemon *)

pageVars == <<groups, connections, selectedGroupId, groupForm>>

\* A store as it would be if it did not list again after a change.
NextListsNothing(r) == groupCalls' = [groupCalls EXCEPT ![r] = IdleCall]

\* The daemon has done it, its answer has come and the store goes on to list groups
\* or rows; only what handleDelete still has to do is kept.
NextLists(r) ==
    LET kind == groupCalls[r].kind
        rows == kind \in {"assign", "delete"}
    IN  groupCalls' = [groupCalls EXCEPT ![r].at = "sent",
            ![r].kind = IF rows THEN "listRows" ELSE "listGroups",
            ![r].on = IF kind = "remove" THEN @ ELSE NoRow, ![r].to = IF rows THEN NoGroup ELSE @]

CreateGroup(r) ==
    /\ groupCalls[r].kind = "create" /\ groupCalls[r].at = "sent"
    /\ \E g \in GroupIds \ created :
        created' = created \cup {g} /\ dbGroups' = dbGroups \cup {g}
    /\ NextLists(r)
    /\ UNCHANGED <<dbRows, pageVars, groupHistory>>

\* handleUpdateGroup and handleUpdateConnection read the row ...
ReadRow(r) ==
    LET call == groupCalls[r]
    IN  /\ call.kind \in {"update", "assign"} /\ call.at = "sent"
        /\ groupCalls' = [groupCalls EXCEPT ![r].at =
                IF call.on \in dbGroups \cup {c \in Saved : dbRows[c] # NoRow}
                THEN "read" ELSE "refused"]
        /\ UNCHANGED <<dbVars, pageVars, groupHistory>>

\* ... and save it whole, also when it, or the group it names, has gone.
SaveRow(r) ==
    LET call == groupCalls[r]
    IN  /\ call.at = "read"
        /\ IF call.kind = "update"
           THEN /\ dbGroups' = dbGroups \cup {call.on}
                /\ UNCHANGED <<dbRows, crossed>>
           ELSE /\ dbRows' = [dbRows EXCEPT ![call.on] = call.to]
                /\ crossed' = IF dbRows[call.on] # NoRow /\ call.to \in dbGroups \cup {NoGroup}
                              THEN crossed ELSE crossed \cup {call.on}
                /\ UNCHANGED dbGroups
        /\ NextLists(r)
        /\ UNCHANGED <<created, pageVars, groupsUnlisted, groupsOvertaken>>

\* DeleteGroup as it would be without the update of the rows.
DeleteGroupOnly(r) ==
    /\ groupCalls[r].kind = "remove" /\ groupCalls[r].at = "sent"
    /\ dbGroups' = dbGroups \ {groupCalls[r].on}
    /\ NextLists(r)
    /\ UNCHANGED <<dbRows, created, pageVars, groupHistory>>

\* DeleteGroup, one transaction.
DeleteGroup(r) ==
    LET g == groupCalls[r].on
    IN  /\ groupCalls[r].kind = "remove" /\ groupCalls[r].at = "sent"
        /\ dbRows' = [c \in Saved |-> IF dbRows[c] = g THEN NoGroup ELSE dbRows[c]]
        /\ dbGroups' = dbGroups \ {g}
        /\ NextLists(r)
        /\ UNCHANGED <<created, pageVars, groupHistory>>

DeleteConnection(r) ==
    /\ groupCalls[r].kind = "delete" /\ groupCalls[r].at = "sent"
    /\ dbRows' = [dbRows EXCEPT ![groupCalls[r].on] = NoRow]
    /\ NextLists(r)
    /\ UNCHANGED <<dbGroups, created, pageVars, groupHistory>>

ListRows(r) ==
    /\ groupCalls[r].kind \in {"listGroups", "listRows"} /\ groupCalls[r].at = "sent"
    /\ \E at \in {"answered", "refused"} :
        groupCalls' = [groupCalls EXCEPT ![r].at = at, ![r].got = IF at = "refused" THEN <<>>
            ELSE <<IF groupCalls[r].kind = "listGroups" THEN dbGroups ELSE dbRows>>]
    /\ UNCHANGED <<dbVars, pageVars, groupHistory>>

--------------------------------------------------------------------------------
(* Replies *)

\* A refused update: the form stays open; a refused assignGroup throws.
ChangeRefused(r) ==
    /\ groupCalls[r].kind \in {"update", "assign"} /\ groupCalls[r].at = "refused"
    /\ groupCalls' = [groupCalls EXCEPT ![r] = IdleCall]
    /\ UNCHANGED <<dbVars, pageVars, groupHistory>>

\* fetch of groupStore after its await: a failure stays in the store, and nothing
\* shows it.  What waited for it goes on either way: the form closes, or handleDelete
\* leaves the group that was selected at the click.
GroupsListed(r) ==
    LET call == groupCalls[r]
    IN  /\ call.kind = "listGroups" /\ call.at \in {"answered", "refused"}
        /\ groupCalls' = [groupCalls EXCEPT ![r] = IdleCall]
        /\ IF call.at = "answered"
           THEN /\ groups' = call.got[1]
                /\ groupsOvertaken' = (groupsOvertaken \/ (groups = dbGroups /\ groups' # dbGroups))
                /\ groupsUnlisted' = (groupsUnlisted /\ groups' # dbGroups)
           ELSE groupsUnlisted' = TRUE /\ UNCHANGED <<groups, groupsOvertaken>>
        /\ groupForm' = (groupForm /\ ~call.form)
        /\ selectedGroupId' = IF call.on # NoRow /\ call.to = call.on THEN NoGroup
                              ELSE selectedGroupId
        /\ UNCHANGED <<dbVars, connections, crossed>>

\* fetch of connectionStore after its await.
RowsListed(r) ==
    LET call == groupCalls[r]
    IN  /\ call.kind = "listRows" /\ call.at \in {"answered", "refused"}
        /\ connections' = IF call.at = "answered" THEN call.got[1] ELSE connections
        /\ groupCalls' = [groupCalls EXCEPT ![r] = IdleCall]
        /\ UNCHANGED <<dbVars, groups, selectedGroupId, groupForm, groupHistory>>

GroupPageNext ==
    \/ SelectGroup \/ GroupFormToggled \/ SubmitGroupForm
    \/ \E g \in GroupIds : DeleteGroupClicked(g)
    \/ \E c \in Saved : RemoveRow(c) \/ \E g \in GroupTargets : AssignGroup(c, g)
    \/ \E r \in GroupCalls :
        \/ CreateGroup(r) \/ ReadRow(r) \/ SaveRow(r) \/ DeleteGroup(r) \/ DeleteConnection(r)
        \/ ListRows(r) \/ ChangeRefused(r) \/ GroupsListed(r)
        \/ RowsListed(r)

GroupPageSpec == GroupPageInit /\ [][GroupPageNext]_groupPageVars

--------------------------------------------------------------------------------
\* A saved connection names a group that exists, unless the page assigned it one
\* that was deleted meanwhile.
RowsKeepTheirGroups ==
    \A c \in Saved \ crossed : dbRows[c] \in dbGroups \cup {NoGroup, NoRow}

\* With none of its calls for groups under way the sidebar lists the daemon's groups,
\* as the page's own changes left them, unless a list failed since it had them right,
\* which the page keeps to itself, or two list replies came in the wrong order.
GroupListSettles ==
    (\A r \in GroupCalls : groupCalls[r].kind \notin {"create", "update", "remove", "listGroups"})
        => groups = dbGroups \/ groupsUnlisted \/ groupsOvertaken

================================================================================
