------------------------------- MODULE FilePage -------------------------------
(***************************************************************************)
(* The file manager: fileStore.ts and FileManager.tsx with its tree,       *)
(* breadcrumbs and delete dialog.  The store keeps one connection, one     *)
(* path and one list of entries; every change of the first two sends a     *)
(* request, and a reply fills the third whichever request it answers.  A   *)
(* directory may hold any of the names when it is listed.  Uploads are in  *)
(* UploadPipeline; what they do here is to refresh the list at the end.    *)
(***************************************************************************)
EXTENDS Integers, FiniteSets, Sequences, SequencesExt

CONSTANTS
    FileConns,    \* connections the page can select
    NoFileConn,
    ListCalls,    \* list requests that can be under way at a time
    Nodes,        \* remote paths, as sequences of names, without the root
    DirNodes,     \* those that are directories
    HomeDirs      \* answers of the home request

ASSUME FilePageAssumption ==
    /\ NoFileConn \notin FileConns
    /\ DirNodes \subseteq Nodes
    /\ \A p \in Nodes : Len(p) \in Nat \ {0}
    /\ \A p \in DirNodes : \A n \in 0..Len(p) : SubSeq(p, 1, n) \in DirNodes \cup {<<>>}
    /\ HomeDirs \subseteq DirNodes \cup {<<>>}

VARIABLES
    (* fileStore.ts *)
    fileConn, currentPath, fileEntries, fileLoading,
    (* FileManager.tsx *)
    selectedPaths, deleteOpen,
    deleteRun,      \* the loop of handleDeleteSelected
    (* requests *)
    homeCalls,      \* connections whose home is asked for
    lists,          \* each list request
    deletingFile,   \* the file whose DEL is under way, or the root for none
    (* history *)
    shownFrom,      \* connection and path the entries are from
    chosenFrom,     \* the connection that listed the selected rows
    overlapped      \* a list request was under way when the page moved on

filePageVars == <<fileConn, currentPath, fileEntries, fileLoading, selectedPaths,
                  deleteOpen, deleteRun, homeCalls, lists, deletingFile,
                  shownFrom, chosenFrom, overlapped>>

AnyFileConn == FileConns \cup {NoFileConn}
AnyDir == DirNodes \cup {<<>>}
NoList == [conn |-> NoFileConn, path |-> <<>>, sent |-> FALSE]
NoRun == [conn |-> NoFileConn, left |-> {}, failed |-> FALSE]

FilePageTypeOK ==
    /\ fileConn \in AnyFileConn /\ currentPath \in AnyDir
    /\ fileEntries \subseteq Nodes /\ fileLoading \in BOOLEAN
    /\ selectedPaths \subseteq Nodes
    /\ deleteOpen \in BOOLEAN
    /\ deleteRun \in [conn : AnyFileConn, left : SUBSET Nodes, failed : BOOLEAN]
    /\ homeCalls \subseteq FileConns
    /\ lists \in [ListCalls -> [conn : AnyFileConn, path : AnyDir, sent : BOOLEAN]]
    /\ deletingFile \in Nodes \cup {<<>>}
    /\ shownFrom \in AnyFileConn \X AnyDir
    /\ chosenFrom \in AnyFileConn
    /\ overlapped \in BOOLEAN

FilePageInit ==
    /\ fileConn = NoFileConn /\ currentPath = <<>>
    /\ fileEntries = {} /\ fileLoading = FALSE
    /\ selectedPaths = {} /\ deleteOpen = FALSE
    /\ deleteRun = NoRun
    /\ homeCalls = {}
    /\ lists = [l \in ListCalls |-> NoList]
    /\ deletingFile = <<>>
    /\ shownFrom = <<NoFileConn, <<>>>>
    /\ chosenFrom = NoFileConn
    /\ overlapped = FALSE

storeVars == <<fileConn, currentPath, fileEntries, fileLoading>>
deleteVars == <<deleteOpen, deleteRun>>
requestVars == <<homeCalls, deletingFile>>

--------------------------------------------------------------------------------
(* Paths *)

\* The ".." row of the tree leads here; the root has none.
ParentOf(path) == Front(path)

\* pathToBreadcrumbs: the root and every prefix of the path; the last is inert.
Breadcrumbs(path) == {SubSeq(path, 1, n) : n \in 0..Len(path)}

\* What a listing of a directory may return.
Listings(dir) == SUBSET {p \in Nodes : Front(p) = dir}

Beneath(p, dir) == Len(p) > Len(dir) /\ IsPrefix(dir, p)

\* pathsToDelete: a path inside another chosen one goes with it.
PathsToDelete(paths) == {p \in paths : ~\E q \in paths : Beneath(p, q)}

ListsUnderWay == {l \in ListCalls : lists[l].sent}

\* To be asked where the page moves on: a reply under way, or rows chosen while
\* one was, can meet the page it moves to.
Overlaps ==
    ListsUnderWay # {} \/ (overlapped /\ (selectedPaths' # {} \/ deleteRun # NoRun))

\* The effect that empties the selection, as if it watched the path only.
SelectionAfterPathOnly(c, path) == IF path = currentPath THEN selectedPaths ELSE {}

\* The effect on connId and currentPath empties the selection.
SelectionAfter(c, path) ==
    IF c = fileConn /\ path = currentPath THEN selectedPaths ELSE {}

--------------------------------------------------------------------------------
(* fileStore.ts *)

\* navigate, up to its await, for the connection of this moment, leaving sel.
Load(path, sel) ==
    /\ selectedPaths' = sel
    /\ IF fileConn = NoFileConn
       THEN UNCHANGED <<storeVars, lists, overlapped>>
       ELSE /\ \E l \in ListCalls :
                /\ ~lists[l].sent
                /\ lists' = [lists EXCEPT ![l] = [conn |-> fileConn, path |-> path,
                                                  sent |-> TRUE]]
            /\ currentPath' = path
            /\ fileEntries' = {}
            /\ fileLoading' = TRUE
            /\ overlapped' = Overlaps
            /\ UNCHANGED fileConn
    /\ UNCHANGED <<shownFrom, chosenFrom>>

Navigate(path) ==
    Load(path, IF fileConn = NoFileConn THEN selectedPaths ELSE SelectionAfter(fileConn, path))

\* setConnId as it would be if it left the rows of the connection before.
SetConnIdKeepsRows(c) ==
    /\ c # fileConn
    /\ ~deleteOpen
    /\ fileConn' = c
    /\ fileEntries' = fileEntries
    /\ selectedPaths' = SelectionAfter(c, currentPath)
    /\ overlapped' = Overlaps
    /\ IF c = NoFileConn
       THEN currentPath' = <<>> /\ fileLoading' = FALSE /\ UNCHANGED homeCalls
       ELSE /\ fileLoading' = TRUE
            /\ homeCalls' = homeCalls \cup {c}
            /\ UNCHANGED currentPath
    /\ UNCHANGED <<deleteVars, lists, deletingFile, shownFrom, chosenFrom>>

\* setConnId, up to its await.
SetConnId(c) ==
    /\ c # fileConn
    /\ ~deleteOpen
    /\ fileConn' = c
    /\ fileEntries' = {}
    /\ selectedPaths' = SelectionAfter(c, currentPath)
    /\ overlapped' = Overlaps
    /\ IF c = NoFileConn
       THEN currentPath' = <<>> /\ fileLoading' = FALSE /\ UNCHANGED homeCalls
       ELSE /\ fileLoading' = TRUE
            /\ homeCalls' = homeCalls \cup {c}
            /\ UNCHANGED currentPath
    /\ UNCHANGED <<deleteVars, lists, deletingFile, shownFrom, chosenFrom>>

\* setConnId goes on: the home, or the root if the request failed, of the
\* connection that was chosen, on the one that is.
HomeReply(c) ==
    /\ c \in homeCalls
    /\ homeCalls' = homeCalls \ {c}
    /\ \E path \in HomeDirs \cup {<<>>} : Navigate(path)
    /\ UNCHANGED <<deleteVars, deletingFile>>

\* navigate goes on, well: nothing compares the reply with what is shown by now.
ListReplyOk(l) ==
    /\ lists[l].sent
    /\ fileEntries' \in Listings(lists[l].path)
    /\ fileLoading' = FALSE
    /\ shownFrom' = <<lists[l].conn, lists[l].path>>
    /\ lists' = [lists EXCEPT ![l] = NoList]
    /\ UNCHANGED <<fileConn, currentPath, selectedPaths, deleteVars, requestVars,
                   overlapped, chosenFrom>>

\* navigate goes on, badly; CONNECTION_LOST also unselects the connection.
ListReplyError(l) ==
    /\ lists[l].sent
    /\ fileEntries' = {}
    /\ fileLoading' = FALSE
    /\ fileConn' \in {fileConn, NoFileConn}
    /\ selectedPaths' = SelectionAfter(fileConn', currentPath)
    /\ lists' = [lists EXCEPT ![l] = NoList]
    /\ UNCHANGED <<currentPath, deleteVars, requestVars, shownFrom, overlapped, chosenFrom>>

\* onConnectionLost, from a connection_down event; the spinner stays.
FileConnectionLost ==
    /\ fileConn # NoFileConn
    /\ fileConn' = NoFileConn
    /\ fileEntries' = {}
    /\ selectedPaths' = SelectionAfter(NoFileConn, currentPath)
    /\ UNCHANGED <<currentPath, fileLoading, deleteVars, requestVars, lists, shownFrom,
                   overlapped, chosenFrom>>

--------------------------------------------------------------------------------
(* FileManager.tsx: what the dialog does not cover *)

TreeShown == fileConn # NoFileConn /\ ~fileLoading /\ ~deleteOpen

\* The toolbar, its breadcrumbs and the tree's rows.
UserNavigates ==
    /\ ~deleteOpen
    /\ \/ \E p \in Breadcrumbs(currentPath) \ {currentPath} : Navigate(p)
       \/ TreeShown /\ currentPath # <<>> /\ Navigate(ParentOf(currentPath))
       \/ TreeShown /\ \E p \in fileEntries \cap DirNodes : Navigate(p)
    /\ UNCHANGED <<deleteVars, requestVars>>

\* The refresh button, the end of handleMkdir, and the effect that runs when the
\* last upload ended.
Refresh ==
    /\ Navigate(currentPath)
    /\ UNCHANGED <<deleteVars, requestVars>>

ToggleSelect(p) ==
    /\ TreeShown
    /\ p \in fileEntries
    /\ selectedPaths' = IF p \in selectedPaths THEN selectedPaths \ {p}
                        ELSE selectedPaths \cup {p}
    /\ chosenFrom' = shownFrom[1]
    /\ UNCHANGED <<storeVars, deleteVars, requestVars, lists, shownFrom, overlapped>>

\* handleSelectAll
SelectAll ==
    /\ fileConn # NoFileConn /\ ~deleteOpen /\ fileEntries # {}
    /\ selectedPaths' = IF fileEntries \subseteq selectedPaths THEN {} ELSE fileEntries
    /\ chosenFrom' = shownFrom[1]
    /\ UNCHANGED <<storeVars, deleteVars, requestVars, lists, shownFrom, overlapped>>

--------------------------------------------------------------------------------
(* Deleting and creating *)

\* Delete Selected opens the dialog.
OpenDelete ==
    /\ fileConn # NoFileConn /\ ~deleteOpen /\ selectedPaths # {}
    /\ deleteOpen' = TRUE
    /\ UNCHANGED <<storeVars, selectedPaths, deleteRun, requestVars, lists, shownFrom,
                   overlapped, chosenFrom>>

\* The dialog's Cancel, and a click beside it, which a running loop disables.
CancelDelete ==
    /\ deleteOpen /\ deleteRun = NoRun
    /\ deleteOpen' = FALSE
    /\ UNCHANGED <<storeVars, selectedPaths, deleteRun, requestVars, lists,
                   shownFrom, overlapped, chosenFrom>>

\* handleDeleteSelected begins: connection and paths are those of the click.
DeleteBegins ==
    /\ deleteOpen /\ deleteRun = NoRun
    /\ fileConn # NoFileConn /\ selectedPaths # {}
    /\ deleteRun' = [conn |-> fileConn, left |-> PathsToDelete(selectedPaths), failed |-> FALSE]
    /\ UNCHANGED <<storeVars, selectedPaths, deleteOpen, requestVars, lists, shownFrom, overlapped, chosenFrom>>

\* One turn of the loop: the path goes, or the request fails, as it does for a
\* path that an earlier try has deleted.
DeleteTurn(p) ==
    /\ p \in deleteRun.left
    /\ \E fails \in BOOLEAN :
        deleteRun' = [deleteRun EXCEPT !.left = @ \ {p}, !.failed = @ \/ fails]
    /\ UNCHANGED <<storeVars, selectedPaths, deleteOpen, requestVars, lists, shownFrom,
                   chosenFrom, overlapped>>

\* The loop is over, with errors: the dialog stays, over an unchanged selection.
DeleteFails ==
    /\ deleteRun # NoRun /\ deleteRun.left = {} /\ deleteRun.failed
    /\ deleteRun' = NoRun
    /\ UNCHANGED <<storeVars, selectedPaths, deleteOpen, requestVars, lists, shownFrom,
                   overlapped, chosenFrom>>

\* The loop is over, without: the selection goes, and the list is refreshed.
DeleteSucceeds ==
    /\ deleteRun # NoRun /\ deleteRun.left = {} /\ ~deleteRun.failed
    /\ deleteRun' = NoRun
    /\ deleteOpen' = FALSE
    /\ Load(currentPath, {})
    /\ UNCHANGED requestVars

\* handleSingleDelete: a file's DEL, confirmed.
DeleteFile(p) ==
    /\ deletingFile = <<>>
    /\ TreeShown /\ p \in fileEntries \ DirNodes
    /\ deletingFile' = p
    /\ UNCHANGED <<storeVars, selectedPaths, deleteVars, homeCalls, lists, shownFrom,
                   chosenFrom, overlapped>>

\* It went: refresh the page of this moment.  Or it was refused.
DeleteFileReply ==
    /\ deletingFile # <<>>
    /\ deletingFile' = <<>>
    /\ \/ Load(currentPath, selectedPaths \ {deletingFile})
       \/ UNCHANGED <<storeVars, selectedPaths, lists, shownFrom, chosenFrom, overlapped>>
    /\ UNCHANGED <<deleteVars, homeCalls>>

FilePageNext ==
    \/ \E c \in AnyFileConn : SetConnId(c)
    \/ \E c \in FileConns : HomeReply(c)
    \/ \E l \in ListCalls : ListReplyOk(l) \/ ListReplyError(l)
    \/ FileConnectionLost \/ UserNavigates \/ Refresh \/ SelectAll
    \/ \E p \in Nodes : ToggleSelect(p) \/ DeleteTurn(p) \/ DeleteFile(p)
    \/ OpenDelete \/ CancelDelete \/ DeleteBegins \/ DeleteFails \/ DeleteSucceeds
    \/ DeleteFileReply

FilePageSpec == FilePageInit /\ [][FilePageNext]_filePageVars

--------------------------------------------------------------------------------
\* The rows shown are the listing of the connection and the path the page names,
\* unless the page moved on with a list request under way: then the older reply
\* may come last, or first, and fill the page of another directory or host.
RowsBelongToThePage ==
    fileConn # NoFileConn /\ fileEntries # {} /\ ~overlapped =>
        shownFrom = <<fileConn, currentPath>>

\* What the dialog deletes was listed by the connection it is deleted on, unless
\* requests overlapped: the selection is emptied whenever the page or the
\* connection changes, and the loop keeps to the connection it began with.
DeletesHitListedPaths ==
    deleteRun # NoRun /\ ~overlapped => chosenFrom = deleteRun.conn

================================================================================
