--------------------------- MODULE ToolPages_proofs ----------------------------
(*****************************************************************************)
(* What is proved of the other tools of the page: the file manager, the      *)
(* terminal tabs, the route trace, the connection graph and the proxy forms. *)
(* Each part states the inductive invariant of its component and draws the   *)
(* properties from it.                                                       *)
(*****************************************************************************)
EXTENDS FilePage, TerminalTabs, RouteTrace, ProxyGraph, ProxyForms,
        FiniteSetTheorems, WellFoundedInduction, TLAPS

--------------------------------------------------------------------------------
(*****************************************************************************)
(* The file manager: FileInv.                                                *)
(*****************************************************************************)

\* Of a page that no request overlapped, every request under way asks for what it
\* shows, and the selected rows were listed by its connection.
AnswersFit ==
    fileConn # NoFileConn /\ ~overlapped =>
        \A l \in ListsUnderWay : lists[l].conn = fileConn /\ lists[l].path = currentPath

ChosenHere ==
    fileConn # NoFileConn /\ selectedPaths # {} /\ ~overlapped => chosenFrom = fileConn

\* The dialog stays while its loop runs, and covers the rows and the selector.
DialogStays == deleteRun # NoRun => deleteOpen

FileInv ==
    /\ FilePageTypeOK
    /\ AnswersFit /\ ChosenHere /\ DialogStays
    /\ RowsBelongToThePage /\ DeletesHitListedPaths

--------------------------------------------------------------------------------
\* Every breadcrumb of a directory is one, and so is its parent.
LEMMA DirsAbove ==
    ASSUME NEW path \in AnyDir
    PROVE  /\ Breadcrumbs(path) \subseteq AnyDir
           /\ path # <<>> => ParentOf(path) \in AnyDir
<1>1. CASE path \in DirNodes
  <2>1. Len(path) \in Nat \ {0} BY <1>1, FilePageAssumption
  <2>2. \A n \in 0..Len(path) : SubSeq(path, 1, n) \in AnyDir
    BY <1>1, FilePageAssumption DEF AnyDir
  <2>3. Len(path) - 1 \in 0..Len(path) BY <2>1
  <2>4. QED
    BY <2>2, <2>3 DEF Breadcrumbs, ParentOf, Front
<1>2. CASE path = <<>>
  <2>1. Len(<<>>) = 0 /\ SubSeq(<<>>, 1, 0) = <<>> OBVIOUS
  <2>2. \A n \in 0..Len(path) : SubSeq(path, 1, n) = <<>> BY <1>2, <2>1
  <2>3. QED
    BY <1>2, <2>2 DEF Breadcrumbs, AnyDir
<1>3. QED
  BY <1>1, <1>2 DEF AnyDir

LEMMA InitFiles == FilePageInit => FileInv
<1> SUFFICES ASSUME FilePageInit PROVE FileInv
  OBVIOUS
<1> USE DEF FilePageInit
<1>1. FilePageTypeOK
  BY DEF FilePageTypeOK, AnyFileConn, AnyDir, NoList, NoRun
<1>2. QED
  BY <1>1 DEF FileInv, AnswersFit, ChosenHere, DialogStays, RowsBelongToThePage,
              DeletesHitListedPaths

--------------------------------------------------------------------------------
\* A load empties the rows, and the request it sends is for the page it leaves.
LEMMA LoadKeeps ==
    ASSUME FileInv, NEW path \in AnyDir, NEW sel \in SUBSET selectedPaths, Load(path, sel),
           \/ UNCHANGED deleteVars
           \/ deleteOpen' = FALSE /\ deleteRun' = NoRun,
           homeCalls' \subseteq FileConns, deletingFile' \in Nodes \cup {<<>>}
    PROVE  FileInv'
<1> USE DEF FileInv, deleteVars
<1>0. /\ selectedPaths' = sel /\ selectedPaths \subseteq Nodes
      /\ fileConn' = fileConn /\ UNCHANGED <<shownFrom, chosenFrom>>
      /\ NoRun \in [conn : AnyFileConn, left : SUBSET Nodes, failed : BOOLEAN]
  BY DEF Load, storeVars, FilePageTypeOK, NoRun, AnyFileConn
<1>1. CASE fileConn = NoFileConn
  <2>1. UNCHANGED <<currentPath, fileEntries, fileLoading, lists, overlapped>>
    BY <1>1 DEF Load, storeVars
  <2>2. FilePageTypeOK'
    BY <1>0, <2>1 DEF FilePageTypeOK
  <2>3. QED
    BY <1>0, <1>1, <2>1, <2>2 DEF AnswersFit, ChosenHere, DialogStays, RowsBelongToThePage,
                             DeletesHitListedPaths
<1>2. CASE fileConn # NoFileConn
  <2> DEFINE new == [conn |-> fileConn, path |-> path, sent |-> TRUE]
  <2>1. PICK l \in ListCalls : ~lists[l].sent /\ lists' = [lists EXCEPT ![l] = new]
    BY <1>2 DEF Load
  <2>2. /\ currentPath' = path /\ fileEntries' = {} /\ fileLoading' = TRUE
        /\ overlapped' = Overlaps
    BY <1>2 DEF Load
  <2>3. lists \in [ListCalls -> [conn : AnyFileConn, path : AnyDir, sent : BOOLEAN]]
        /\ fileConn \in AnyFileConn
    BY DEF FilePageTypeOK
  <2>4. /\ lists'[l] = new
        /\ \A k \in ListCalls \ {l} : lists'[k] = lists[k]
    BY <2>1, <2>3
  <2>5. FilePageTypeOK'
    <3>1. lists' \in [ListCalls -> [conn : AnyFileConn, path : AnyDir, sent : BOOLEAN]]
      BY <2>1, <2>3
    <3>2. Overlaps \in BOOLEAN
      BY DEF Overlaps, FilePageTypeOK
    <3>3. QED
      BY <1>0, <2>2, <2>3, <3>1, <3>2 DEF FilePageTypeOK
  <2>6. ~overlapped' => /\ ListsUnderWay = {}
                        /\ overlapped => selectedPaths' = {} /\ deleteRun = NoRun
    BY <2>2 DEF Overlaps
  <2>7. AnswersFit'
    BY <1>0, <2>2, <2>4, <2>6 DEF AnswersFit, ListsUnderWay
  <2>8. ChosenHere'
    BY <1>0, <1>2, <2>6 DEF ChosenHere
  <2>9. DeletesHitListedPaths' /\ DialogStays' /\ RowsBelongToThePage'
    BY <1>0, <2>2, <2>6 DEF DeletesHitListedPaths, DialogStays, RowsBelongToThePage
  <2>10. QED
    BY <2>5, <2>7, <2>8, <2>9
<1>3. QED
  BY <1>1, <1>2

LEMMA NavigateKeeps ==
    ASSUME FileInv, NEW path \in AnyDir, Navigate(path), UNCHANGED deleteVars,
           homeCalls' \subseteq FileConns, deletingFile' \in Nodes \cup {<<>>}
    PROVE  FileInv'
<1>1. PICK sel \in SUBSET selectedPaths : Load(path, sel)
  BY DEF Navigate, SelectionAfter
<1>2. QED
  BY <1>1, LoadKeeps

LEMMA SetConnIdKeeps ==
    ASSUME FileInv, NEW c \in AnyFileConn, SetConnId(c)
    PROVE  FileInv'
<1> USE DEF FileInv, SetConnId, deleteVars
<1>1. FilePageTypeOK'
  <2>1. Overlaps \in BOOLEAN
    BY DEF Overlaps, FilePageTypeOK
  <2>2. homeCalls' \subseteq FileConns /\ currentPath' \in AnyDir /\ fileLoading' \in BOOLEAN
    BY DEF FilePageTypeOK, AnyFileConn, AnyDir
  <2>3. QED
    BY <2>1, <2>2 DEF FilePageTypeOK, SelectionAfter
<1>2. selectedPaths' = {} /\ deleteRun = NoRun /\ deleteRun' = NoRun /\ fileEntries' = {}
  BY DEF SelectionAfter, DialogStays
<1>3. ~overlapped' => ListsUnderWay = {} /\ ListsUnderWay' = {}
  BY DEF Overlaps, ListsUnderWay
<1>4. AnswersFit'
  BY <1>3 DEF AnswersFit
<1>5. QED
  BY <1>1, <1>2, <1>4 DEF ChosenHere, DialogStays, RowsBelongToThePage, DeletesHitListedPaths

LEMMA HomeReplyKeeps ==
    ASSUME FileInv, NEW c \in FileConns, HomeReply(c)
    PROVE  FileInv'
<1>1. PICK path \in HomeDirs \cup {<<>>} : Navigate(path)
  BY DEF HomeReply
<1>2. path \in AnyDir
  BY FilePageAssumption DEF AnyDir
<1>3. QED
  BY <1>1, <1>2, NavigateKeeps DEF HomeReply, FileInv, FilePageTypeOK

\* A reply takes its request away.
LEMMA Replied ==
    ASSUME FileInv, NEW l \in ListCalls, lists' = [lists EXCEPT ![l] = NoList]
    PROVE  /\ lists' \in [ListCalls -> [conn : AnyFileConn, path : AnyDir, sent : BOOLEAN]]
           /\ \A k \in ListCalls : lists'[k].sent => lists[k].sent /\ lists'[k] = lists[k]
<1>1. NoList \in [conn : AnyFileConn, path : AnyDir, sent : BOOLEAN] /\ ~NoList.sent
  BY DEF NoList, AnyFileConn, AnyDir
<1>2. QED
  BY <1>1 DEF FileInv, FilePageTypeOK

LEMMA ListReplyOkKeeps ==
    ASSUME FileInv, NEW l \in ListCalls, ListReplyOk(l)
    PROVE  FileInv'
<1> USE DEF FileInv, ListReplyOk, deleteVars, requestVars
<1>1. /\ lists' \in [ListCalls -> [conn : AnyFileConn, path : AnyDir, sent : BOOLEAN]]
      /\ \A k \in ListCalls : lists'[k].sent => lists[k].sent /\ lists'[k] = lists[k]
  BY Replied
<1>2. FilePageTypeOK'
  <2>1. fileEntries' \subseteq Nodes
    BY DEF Listings
  <2>2. shownFrom' \in AnyFileConn \X AnyDir
    BY DEF FilePageTypeOK
  <2>3. QED
    BY <1>1, <2>1, <2>2 DEF FilePageTypeOK
<1>3. RowsBelongToThePage'
  BY DEF AnswersFit, ListsUnderWay, RowsBelongToThePage
<1>4. AnswersFit'
  BY <1>1 DEF AnswersFit, ListsUnderWay
<1>5. QED
  BY <1>2, <1>3, <1>4 DEF ChosenHere, DialogStays, DeletesHitListedPaths

LEMMA ListReplyErrorKeeps ==
    ASSUME FileInv, NEW l \in ListCalls, ListReplyError(l)
    PROVE  FileInv'
<1> USE DEF FileInv, ListReplyError, deleteVars, requestVars
<1>1. /\ lists' \in [ListCalls -> [conn : AnyFileConn, path : AnyDir, sent : BOOLEAN]]
      /\ \A k \in ListCalls : lists'[k].sent => lists[k].sent /\ lists'[k] = lists[k]
  BY Replied
<1>2. FilePageTypeOK'
  BY <1>1 DEF FilePageTypeOK, SelectionAfter, AnyFileConn
<1>3. RowsBelongToThePage'
  BY DEF RowsBelongToThePage
<1>4. AnswersFit'
  BY <1>1 DEF AnswersFit, ListsUnderWay
<1>5. ChosenHere'
  BY DEF ChosenHere, SelectionAfter
<1>6. QED
  BY <1>2, <1>3, <1>4, <1>5 DEF DialogStays, DeletesHitListedPaths

LEMMA FileConnectionLostKeeps ==
    ASSUME FileInv, FileConnectionLost
    PROVE  FileInv'
<1> USE DEF FileInv, FileConnectionLost, deleteVars, requestVars
<1>1. FilePageTypeOK'
  BY DEF FilePageTypeOK, SelectionAfter, AnyFileConn
<1>2. QED
  BY <1>1 DEF AnswersFit, ChosenHere, DialogStays, RowsBelongToThePage, DeletesHitListedPaths

--------------------------------------------------------------------------------
(* The user *)

LEMMA UserNavigatesKeeps ==
    ASSUME FileInv, UserNavigates \/ Refresh
    PROVE  FileInv'
<1>1. PICK path \in AnyDir : Navigate(path)
  <2>1. currentPath \in AnyDir
    BY DEF FileInv, FilePageTypeOK
  <2>2. CASE Refresh
    BY <2>1, <2>2 DEF Refresh
  <2>3. CASE UserNavigates
    BY <2>1, <2>3, DirsAbove DEF UserNavigates, AnyDir
  <2>4. QED
    BY <2>2, <2>3
<1>2. UNCHANGED <<deleteVars, requestVars>>
  BY DEF UserNavigates, Refresh
<1>3. QED
  BY <1>1, <1>2, NavigateKeeps DEF FileInv, FilePageTypeOK, requestVars

\* Rows are chosen of the list shown, which is the page's unless requests overlapped.
LEMMA SelectKeeps ==
    ASSUME FileInv, SelectAll \/ \E p \in Nodes : ToggleSelect(p)
    PROVE  FileInv'
<1> USE DEF FileInv
<1>1. /\ fileConn # NoFileConn /\ ~deleteOpen /\ fileEntries # {}
      /\ selectedPaths' \subseteq Nodes
      /\ chosenFrom' = shownFrom[1]
      /\ UNCHANGED <<storeVars, deleteVars, requestVars, lists, shownFrom, overlapped>>
  BY DEF SelectAll, ToggleSelect, TreeShown, FilePageTypeOK
<1>2. FilePageTypeOK'
  BY <1>1 DEF FilePageTypeOK, storeVars, deleteVars, requestVars
<1>3. ~overlapped => shownFrom[1] = fileConn
  BY <1>1 DEF RowsBelongToThePage
<1>4. QED
  BY <1>1, <1>2, <1>3 DEF AnswersFit, ListsUnderWay, ChosenHere, DialogStays,
        RowsBelongToThePage, DeletesHitListedPaths, storeVars, deleteVars, requestVars

LEMMA DialogKeeps ==
    ASSUME FileInv,
           \/ OpenDelete \/ CancelDelete \/ DeleteBegins \/ DeleteFails
           \/ \E p \in Nodes : DeleteTurn(p)
    PROVE  FileInv'
<1> USE DEF FileInv, storeVars, requestVars
<1>1. UNCHANGED <<storeVars, selectedPaths, requestVars, lists, shownFrom, overlapped, chosenFrom>>
  BY DEF OpenDelete, CancelDelete, DeleteBegins, DeleteFails, DeleteTurn
<1>2. /\ deleteRun \in [conn : AnyFileConn, left : SUBSET Nodes, failed : BOOLEAN]
      /\ NoRun \in [conn : AnyFileConn, left : SUBSET Nodes, failed : BOOLEAN]
      /\ NoRun.left = {} /\ deleteOpen \in BOOLEAN /\ selectedPaths \subseteq Nodes
      /\ fileConn \in AnyFileConn
  BY DEF FilePageTypeOK, NoRun, AnyFileConn
<1>3. ASSUME NEW p \in Nodes, DeleteTurn(p)
      PROVE  /\ deleteRun # NoRun /\ deleteRun'.conn = deleteRun.conn
             /\ deleteRun' \in [conn : AnyFileConn, left : SUBSET Nodes, failed : BOOLEAN]
             /\ deleteOpen' = deleteOpen
  <2>1. deleteRun # NoRun
    BY <1>2, <1>3 DEF DeleteTurn
  <2>2. PICK fails \in BOOLEAN :
            deleteRun' = [deleteRun EXCEPT !.left = @ \ {p}, !.failed = @ \/ fails]
    BY <1>3 DEF DeleteTurn
  <2>3. (deleteRun.failed \/ fails) \in BOOLEAN /\ deleteRun.left \ {p} \subseteq Nodes
    BY <1>2
  <2>4. QED
    BY <1>2, <1>3, <2>1, <2>2, <2>3 DEF DeleteTurn
<1>4. deleteOpen' \in BOOLEAN /\ DialogStays'
      /\ deleteRun' \in [conn : AnyFileConn, left : SUBSET Nodes, failed : BOOLEAN]
  <2>1. CASE \E p \in Nodes : DeleteTurn(p)
    BY <1>2, <1>3, <2>1 DEF DialogStays
  <2>2. CASE DeleteBegins
    <3>1. PathsToDelete(selectedPaths) \subseteq Nodes
      BY <1>2 DEF PathsToDelete
    <3>2. QED
      BY <1>2, <2>2, <3>1 DEF DeleteBegins, DialogStays
  <2>3. CASE OpenDelete \/ CancelDelete \/ DeleteFails
    BY <1>2, <2>3 DEF OpenDelete, CancelDelete, DeleteFails, DialogStays
  <2>4. QED
    BY <2>1, <2>2, <2>3
<1>5. DeletesHitListedPaths'
  <2>1. CASE DeleteBegins
    BY <2>1, <1>1 DEF DeleteBegins, ChosenHere, DeletesHitListedPaths
  <2>2. CASE \E p \in Nodes : DeleteTurn(p)
    BY <1>1, <1>3, <2>2 DEF DeletesHitListedPaths
  <2>3. CASE OpenDelete \/ CancelDelete \/ DeleteFails
    BY <2>3, <1>1 DEF OpenDelete, CancelDelete, DeleteFails, DeletesHitListedPaths
  <2>4. QED
    BY <2>1, <2>2, <2>3
<1>6. FilePageTypeOK'
  BY <1>1, <1>4 DEF FilePageTypeOK
<1>7. QED
  BY <1>1, <1>4, <1>5, <1>6 DEF AnswersFit, ListsUnderWay, ChosenHere, RowsBelongToThePage

LEMMA DeleteSucceedsKeeps ==
    ASSUME FileInv, DeleteSucceeds
    PROVE  FileInv'
<1>1. currentPath \in AnyDir /\ {} \in SUBSET selectedPaths
  BY DEF FileInv, FilePageTypeOK
<1>2. QED
  BY <1>1, LoadKeeps DEF DeleteSucceeds, FileInv, FilePageTypeOK, requestVars

LEMMA DeleteFileKeeps ==
    ASSUME FileInv, DeleteFileReply \/ \E p \in Nodes : DeleteFile(p)
    PROVE  FileInv'
<1>1. currentPath \in AnyDir /\ selectedPaths \ {deletingFile} \in SUBSET selectedPaths
  BY DEF FileInv, FilePageTypeOK
<1>2. UNCHANGED <<deleteVars, homeCalls>> /\ deletingFile' \in Nodes \cup {<<>>}
  BY DEF DeleteFileReply, DeleteFile
<1>3. CASE DeleteFileReply /\ Load(currentPath, selectedPaths \ {deletingFile})
  BY <1>1, <1>2, <1>3, LoadKeeps DEF FileInv, FilePageTypeOK
<1>4. CASE UNCHANGED <<storeVars, selectedPaths, lists, shownFrom, chosenFrom, overlapped>>
  <2>1. FilePageTypeOK'
    BY <1>2, <1>4 DEF FileInv, FilePageTypeOK, storeVars, deleteVars
  <2>2. QED
    BY <1>2, <1>4, <2>1 DEF FileInv, storeVars, deleteVars, AnswersFit, ListsUnderWay,
            ChosenHere, DialogStays, RowsBelongToThePage, DeletesHitListedPaths
<1>5. QED
  BY <1>3, <1>4 DEF DeleteFileReply, DeleteFile

--------------------------------------------------------------------------------
LEMMA FileStep == FileInv /\ [FilePageNext]_filePageVars => FileInv'
<1> SUFFICES ASSUME FileInv, [FilePageNext]_filePageVars PROVE FileInv'
  OBVIOUS
<1>1. CASE UNCHANGED filePageVars
  BY <1>1 DEF filePageVars, FileInv, FilePageTypeOK, AnswersFit, ListsUnderWay, ChosenHere,
              DialogStays, RowsBelongToThePage, DeletesHitListedPaths
<1>2. CASE FilePageNext
  BY <1>2, SetConnIdKeeps, HomeReplyKeeps, ListReplyOkKeeps, ListReplyErrorKeeps,
     FileConnectionLostKeeps, UserNavigatesKeeps, SelectKeeps, DialogKeeps,
     DeleteSucceedsKeeps, DeleteFileKeeps
  DEF FilePageNext
<1>3. QED
  BY <1>1, <1>2

LEMMA FileInvariant == FilePageSpec => []FileInv
BY InitFiles, FileStep, PTL DEF FilePageSpec

\* The variables of the file manager keep their types; its path stays a directory.
THEOREM FilePageTypes == FilePageSpec => []FilePageTypeOK
<1>1. FileInv => FilePageTypeOK
  BY DEF FileInv
<1>2. QED
  BY FileInvariant, <1>1, PTL

\* The rows are those of the directory and the host that the page names, unless a
\* list request was under way when it moved on.
THEOREM RowsBelong == FilePageSpec => []RowsBelongToThePage
<1>1. FileInv => RowsBelongToThePage
  BY DEF FileInv
<1>2. QED
  BY FileInvariant, <1>1, PTL

\* With the same proviso nothing is deleted on a host that did not list it.
THEOREM DeletesHit == FilePageSpec => []DeletesHitListedPaths
<1>1. FileInv => DeletesHitListedPaths
  BY DEF FileInv
<1>2. QED
  BY FileInvariant, <1>1, PTL

--------------------------------------------------------------------------------
(*****************************************************************************)
(* The terminal tabs: TabsInv.                                               *)
(*****************************************************************************)

TabCall ==
    [kind : {"none", "create", "reconnect", "kill", "gone"},
     at : {"idle", "sent", "done", "refused"},
     tab : TabIds \cup {NoTab}, session : SessionIds \cup {NoSession}]

\* A call has a session once the daemon has given it one, a kill from the start.
SessionsOfCalls ==
    \A r \in TabCalls :
        LET call == tabCalls[r]
        IN  /\ call.at = "done" =>
                call.kind \in {"create", "reconnect", "gone"} /\ call.session \in SessionIds
            /\ call.kind = "kill" => call.at = "sent" /\ call.session \in SessionIds
            /\ call.at # "done" /\ call.kind # "kill" => call.session = NoSession

NoTabTwice == \A i, j \in 1..Len(tabs) : tabs[i] = tabs[j] => i = j

TabsHaveSessions == \A b \in ToSet(tabs) : tabSession[b] \in SessionIds

TabsInv ==
    TerminalTabsTypeOK /\ SessionsOfCalls /\ NoTabTwice /\ TabsHaveSessions /\ SessionsHaveTabs

--------------------------------------------------------------------------------
LEMMA IdleTab == TabIdle \in TabCall /\ TabIdle.at = "idle" /\ TabIdle.kind = "none"
                  /\ TabIdle.session = NoSession
BY DEF TabIdle, TabCall

\* The filter takes one tab and leaves the others, each once.
LEMMA OthersStay ==
    ASSUME tabs \in Seq(TabIds), NoTabTwice, NEW b \in ToSet(tabs)
    PROVE  /\ TabsWithout(b) \in Seq(ToSet(tabs))
           /\ ToSet(TabsWithout(b)) \subseteq ToSet(tabs)
           /\ \A c \in ToSet(tabs) \ {b} : c \in ToSet(TabsWithout(b))
           /\ \A i, j \in 1..Len(TabsWithout(b)) :
                TabsWithout(b)[i] = TabsWithout(b)[j] => i = j
<1> DEFINE n == CHOOSE i \in 1..Len(tabs) : tabs[i] = b
           rest == SubSeq(tabs, 1, n - 1) \o SubSeq(tabs, n + 1, Len(tabs))
<1>1. n \in 1..Len(tabs) /\ tabs[n] = b
  <2>1. \E i \in 1..Len(tabs) : tabs[i] = b
    BY DEF ToSet
  <2>2. QED
    BY <2>1
<1>2. TabsWithout(b) = rest
  BY DEF TabsWithout, RemoveAt
<1> HIDE DEF n
<1>3. Len(tabs) \in Nat /\ \A i \in 1..Len(tabs) : tabs[i] \in ToSet(tabs)
  BY DEF ToSet
<1>4. /\ Len(rest) = Len(tabs) - 1
      /\ \A i \in 1..Len(rest) : rest[i] = IF i < n THEN tabs[i] ELSE tabs[i + 1]
  <2> DEFINE before == SubSeq(tabs, 1, n - 1)
             after == SubSeq(tabs, n + 1, Len(tabs))
  <2>1. before \in Seq(TabIds) /\ Len(before) = n - 1
        /\ \A i \in 1..(n - 1) : before[i] = tabs[i]
    BY <1>1, <1>3
  <2>2. after \in Seq(TabIds) /\ Len(after) = Len(tabs) - n
        /\ \A i \in 1..(Len(tabs) - n) : after[i] = tabs[i + n]
    BY <1>1, <1>3
  <2>3. rest = before \o after
    OBVIOUS
  <2> HIDE DEF before, after, rest
  <2>4. Len(rest) = Len(tabs) - 1 /\ rest \in Seq(TabIds)
    BY <1>1, <1>3, <2>1, <2>2, <2>3
  <2>5. ASSUME NEW i \in 1..Len(rest)
        PROVE  rest[i] = IF i < n THEN tabs[i] ELSE tabs[i + 1]
    <3>1. CASE i < n
      BY <1>1, <1>3, <2>1, <2>2, <2>3, <2>4, <3>1
    <3>2. CASE ~(i < n)
      <4>1. rest[i] = after[i - (n - 1)]
        BY <1>1, <1>3, <2>1, <2>2, <2>3, <2>4, <3>2
      <4>2. i - (n - 1) \in 1..(Len(tabs) - n) /\ (i - (n - 1)) + n = i + 1
        BY <1>1, <1>3, <2>4, <3>2
      <4>3. QED
        BY <2>2, <3>2, <4>1, <4>2
    <3>3. QED
      BY <3>1, <3>2
  <2>6. QED
    BY <2>4, <2>5
<1>5. rest \in Seq(TabIds)
  BY <1>1, <1>3
<1> HIDE DEF rest
<1>6. \A i \in 1..Len(rest) : rest[i] \in ToSet(tabs)
  BY <1>1, <1>3, <1>4
<1>7. rest \in Seq(ToSet(tabs))
  BY <1>5, <1>6
<1>8. \A c \in ToSet(tabs) \ {b} : c \in ToSet(rest)
  <2> SUFFICES ASSUME NEW c \in ToSet(tabs) \ {b} PROVE c \in ToSet(rest)
    OBVIOUS
  <2>1. PICK i \in 1..Len(tabs) : tabs[i] = c
    BY DEF ToSet
  <2>2. i # n
    BY <1>1, <2>1
  <2>3. \E k \in 1..Len(rest) : rest[k] = c
    <3>1. CASE i < n
      BY <1>1, <1>3, <1>4, <2>1, <3>1
    <3>2. CASE i > n
      <4>1. i - 1 \in 1..Len(rest) /\ ~(i - 1 < n) /\ (i - 1) + 1 = i
        BY <1>1, <1>3, <1>4, <3>2
      <4>2. QED
        BY <1>4, <2>1, <4>1
    <3>3. QED
      BY <1>1, <2>2, <3>1, <3>2
  <2>4. QED
    BY <1>5, <2>3 DEF ToSet
<1>9. \A i, j \in 1..Len(rest) : rest[i] = rest[j] => i = j
  <2> SUFFICES ASSUME NEW i \in 1..Len(rest), NEW j \in 1..Len(rest), rest[i] = rest[j]
               PROVE  i = j
    OBVIOUS
  <2>1. PICK k \in 1..Len(tabs) :
            rest[i] = tabs[k] /\ k # n /\ (k = i \/ k = i + 1) /\ (k = i <=> i < n)
    BY <1>1, <1>3, <1>4
  <2>2. PICK l \in 1..Len(tabs) :
            rest[j] = tabs[l] /\ l # n /\ (l = j \/ l = j + 1) /\ (l = j <=> j < n)
    BY <1>1, <1>3, <1>4
  <2>3. k = l
    BY <2>1, <2>2 DEF NoTabTwice
  <2>4. QED
    BY <1>1, <2>1, <2>2, <2>3
<1>10. ToSet(rest) \subseteq ToSet(tabs)
  BY <1>5, <1>6 DEF ToSet
<1>11. QED
  BY <1>2, <1>7, <1>8, <1>9, <1>10

LEMMA InitTabs == TerminalTabsInit => TabsInv
<1> SUFFICES ASSUME TerminalTabsInit PROVE TabsInv
  OBVIOUS
<1> USE DEF TerminalTabsInit
<1>1. ToSet(tabs) = {} /\ Len(tabs) = 0
  BY DEF ToSet
<1>2. tabCalls \in [TabCalls -> TabCall] /\ \A r \in TabCalls : tabCalls[r] = TabIdle
  BY IdleTab
<1>3. TerminalTabsTypeOK
  BY <1>1, <1>2 DEF TerminalTabsTypeOK, TabCall
<1>4. QED
  BY <1>1, <1>2, <1>3, IdleTab DEF TabsInv, SessionsOfCalls, NoTabTwice, TabsHaveSessions,
                                   SessionsHaveTabs

--------------------------------------------------------------------------------
\* What becomes of the calls when one of them does.
LEMMA OneCallMoves ==
    ASSUME TabsInv, NEW r \in TabCalls, NEW call \in TabCall,
           tabCalls' = [tabCalls EXCEPT ![r] = call],
           call.at = "done" =>
                call.kind \in {"create", "reconnect", "gone"} /\ call.session \in SessionIds,
           call.kind = "kill" => call.at = "sent" /\ call.session \in SessionIds,
           call.at # "done" /\ call.kind # "kill" => call.session = NoSession
    PROVE  /\ tabCalls' \in [TabCalls -> TabCall]
           /\ tabCalls'[r] = call
           /\ \A q \in TabCalls \ {r} : tabCalls'[q] = tabCalls[q]
           /\ SessionsOfCalls'
<1>1. tabCalls \in [TabCalls -> TabCall]
  BY DEF TabsInv, TerminalTabsTypeOK, TabCall
<1>2. /\ tabCalls' \in [TabCalls -> TabCall]
      /\ tabCalls'[r] = call
      /\ \A q \in TabCalls \ {r} : tabCalls'[q] = tabCalls[q]
  BY <1>1
<1>3. QED
  BY <1>2 DEF TabsInv, SessionsOfCalls

LEMMA AskKeepsTabs ==
    ASSUME TabsInv, NewTab \/ \E b \in TabIds : ReconnectTab(b) \/ SelectTab(b)
    PROVE  TabsInv'
<1> USE DEF TabsInv
<1>1. UNCHANGED <<daemonSessions, sessionsGiven, tabs, tabSession, tabsOpened, abandoned>>
  BY DEF NewTab, ReconnectTab, SelectTab
<1>2. activeTabId' \in ToSet(tabs) \cup {NoTab}
  BY DEF NewTab, ReconnectTab, SelectTab, TerminalTabsTypeOK
<1>3. CASE UNCHANGED tabCalls
  BY <1>1, <1>2, <1>3 DEF TerminalTabsTypeOK, SessionsOfCalls, NoTabTwice, TabsHaveSessions,
                          SessionsHaveTabs
<1>4. ASSUME NEW kind \in {"create", "reconnect"}, NEW b \in TabIds \cup {NoTab},
             TabSends(kind, b, NoSession)
      PROVE  TabsInv'
  <2> DEFINE call == [kind |-> kind, at |-> "sent", tab |-> b, session |-> NoSession]
  <2>1. PICK r \in TabCalls :
            tabCalls[r].kind = "none" /\ tabCalls' = [tabCalls EXCEPT ![r] = call]
    BY <1>4 DEF TabSends
  <2>2. call \in TabCall /\ call.at = "sent" /\ call.kind = kind /\ call.session = NoSession
    BY DEF TabCall
  <2> HIDE DEF call
  <2>3. /\ tabCalls' \in [TabCalls -> TabCall] /\ SessionsOfCalls'
        /\ \A q \in TabCalls \ {r} : tabCalls'[q] = tabCalls[q]
    BY <2>1, <2>2, OneCallMoves
  <2>4. tabCalls[r].session \notin daemonSessions
    BY <2>1, TerminalTabsAssumption DEF SessionsOfCalls, TerminalTabsTypeOK
  <2>5. QED
    BY <1>1, <1>2, <2>3, <2>4 DEF TerminalTabsTypeOK, TabCall, NoTabTwice, TabsHaveSessions,
                                  SessionsHaveTabs
<1>5. QED
  BY <1>3, <1>4 DEF NewTab, ReconnectTab, SelectTab

\* A closed tab leaves its session to the kill.
LEMMA RemoveTabKeepsTabs ==
    ASSUME TabsInv, NEW b \in TabIds, RemoveTab(b)
    PROVE  TabsInv'
<1> USE DEF TabsInv, RemoveTab
<1>1. tabs \in Seq(TabIds) /\ b \in ToSet(tabs)
  BY DEF TerminalTabsTypeOK
<1>2. /\ tabs' \in Seq(ToSet(tabs))
      /\ ToSet(tabs') \subseteq ToSet(tabs)
      /\ \A c \in ToSet(tabs) \ {b} : c \in ToSet(tabs')
      /\ NoTabTwice'
  BY <1>1, OthersStay DEF NoTabTwice
<1> DEFINE call == [kind |-> "kill", at |-> "sent", tab |-> b, session |-> tabSession[b]]
<1>3. PICK r \in TabCalls :
        tabCalls[r].kind = "none" /\ tabCalls' = [tabCalls EXCEPT ![r] = call]
  BY DEF TabSends
<1>4. tabSession[b] \in SessionIds
  BY DEF TabsHaveSessions
<1>5. /\ call \in TabCall /\ call.at = "sent" /\ call.kind = "kill"
      /\ call.session = tabSession[b]
  BY <1>4 DEF TabCall
<1> HIDE DEF call
<1>6. /\ tabCalls' \in [TabCalls -> TabCall] /\ SessionsOfCalls' /\ tabCalls'[r] = call
      /\ \A q \in TabCalls \ {r} : tabCalls'[q] = tabCalls[q]
  BY <1>3, <1>4, <1>5, OneCallMoves
<1>7. TerminalTabsTypeOK'
  <2>1. activeTabId' \in ToSet(tabs') \cup {NoTab}
    BY <1>2 DEF ToSet
  <2>2. ToSet(tabs) \subseteq tabsOpened
    BY DEF TerminalTabsTypeOK, ToSet
  <2>3. tabs' \in Seq(tabsOpened)
    BY <1>2, <2>2
  <2>4. QED
    BY <1>6, <2>1, <2>3 DEF TerminalTabsTypeOK, TabCall
<1>8. SessionsHaveTabs'
  <2>1. tabCalls[r].session \notin daemonSessions
    BY <1>3, TerminalTabsAssumption DEF SessionsOfCalls, TerminalTabsTypeOK
  <2>2. QED
    BY <1>2, <1>5, <1>6, <2>1 DEF SessionsHaveTabs
<1>9. TabsHaveSessions'
  BY <1>2 DEF TabsHaveSessions
<1>10. QED
  BY <1>2, <1>6, <1>7, <1>8, <1>9

LEMMA SessionCreatedKeepsTabs ==
    ASSUME TabsInv, NEW r \in TabCalls, SessionCreated(r)
    PROVE  TabsInv'
<1> USE DEF TabsInv, SessionCreated
<1>1. tabCalls[r] \in TabCall /\ tabCalls[r].session \notin daemonSessions
  BY TerminalTabsAssumption DEF SessionsOfCalls, TerminalTabsTypeOK, TabCall
<1>2. CASE tabCalls' = [tabCalls EXCEPT ![r].at = "refused"]
           /\ UNCHANGED <<daemonSessions, sessionsGiven>>
  <2> DEFINE call == [tabCalls[r] EXCEPT !.at = "refused"]
  <2>1. call \in TabCall /\ call.at = "refused" /\ call.kind = tabCalls[r].kind
        /\ call.session = tabCalls[r].session /\ call.session = NoSession
    BY <1>1 DEF TabCall, SessionsOfCalls
  <2>2. tabCalls' = [tabCalls EXCEPT ![r] = call]
    BY <1>2
  <2> HIDE DEF call
  <2>3. /\ tabCalls' \in [TabCalls -> TabCall] /\ SessionsOfCalls'
        /\ \A q \in TabCalls \ {r} : tabCalls'[q] = tabCalls[q]
    BY <2>1, <2>2, OneCallMoves
  <2>4. QED
    BY <1>1, <1>2, <2>3 DEF TerminalTabsTypeOK, TabCall, NoTabTwice, TabsHaveSessions,
                            SessionsHaveTabs
<1>3. ASSUME NEW s \in SessionIds \ sessionsGiven,
             daemonSessions' = daemonSessions \cup {s},
             sessionsGiven' = sessionsGiven \cup {s},
             tabCalls' = [tabCalls EXCEPT ![r].at = "done", ![r].session = s]
      PROVE  TabsInv'
  <2> DEFINE call == [tabCalls[r] EXCEPT !.at = "done", !.session = s]
  <2>1. call \in TabCall /\ call.at = "done" /\ call.kind = tabCalls[r].kind /\ call.session = s
    BY <1>1 DEF TabCall
  <2>2. tabCalls' = [tabCalls EXCEPT ![r] = call]
    BY <1>3 DEF TerminalTabsTypeOK
  <2> HIDE DEF call
  <2>3. /\ tabCalls' \in [TabCalls -> TabCall] /\ SessionsOfCalls' /\ tabCalls'[r] = call
        /\ \A q \in TabCalls \ {r} : tabCalls'[q] = tabCalls[q]
    BY <2>1, <2>2, OneCallMoves
  <2>4. QED
    <3>1. UNCHANGED <<tabs, tabSession, activeTabId, tabsOpened, abandoned>>
      OBVIOUS
    <3>2. TerminalTabsTypeOK'
      BY <1>3, <2>3, <3>1 DEF TerminalTabsTypeOK, TabCall
    <3>3. SessionsHaveTabs'
      <4>1. \E q \in TabCalls : tabCalls'[q].session = s
        BY <2>1, <2>3
      <4>2. ASSUME NEW t \in daemonSessions
            PROVE  \/ \E b \in ToSet(tabs) : tabSession[b] = t
                   \/ \E q \in TabCalls : tabCalls'[q].session = t
                   \/ t \in abandoned
        <5>1. CASE \E q \in TabCalls : tabCalls[q].session = t
          BY <1>1, <2>3, <5>1
        <5>2. QED
          BY <5>1 DEF SessionsHaveTabs
      <4>3. QED
        BY <1>3, <3>1, <4>1, <4>2 DEF SessionsHaveTabs
    <3>4. QED
      BY <2>3, <3>1, <3>2, <3>3 DEF NoTabTwice, TabsHaveSessions
<1>4. QED
  BY <1>2, <1>3

\* A call that is over; the tabs are as they were, but for those the caller tells of.
LEMMA CallOver ==
    ASSUME TabsInv, NEW r \in TabCalls, tabCalls' = [tabCalls EXCEPT ![r] = TabIdle]
    PROVE  /\ tabCalls' \in [TabCalls -> TabCall] /\ SessionsOfCalls'
           /\ \A q \in TabCalls \ {r} : tabCalls'[q] = tabCalls[q]
BY IdleTab, OneCallMoves

LEMMA SessionKilledKeepsTabs ==
    ASSUME TabsInv, NEW r \in TabCalls,
           SessionKilled(r) \/ SessionUnheard(r) \/ TabCallRefused(r)
    PROVE  TabsInv'
<1> USE DEF TabsInv, SessionKilled, SessionUnheard, TabCallRefused
<1>1. /\ tabCalls' \in [TabCalls -> TabCall] /\ SessionsOfCalls'
      /\ \A q \in TabCalls \ {r} : tabCalls'[q] = tabCalls[q]
  BY CallOver
<1>2. daemonSessions' \subseteq daemonSessions /\ abandoned \subseteq abandoned'
      /\ abandoned' \subseteq SessionIds
  BY DEF SessionsOfCalls, TerminalTabsTypeOK
<1>3. \A s \in daemonSessions' : tabCalls[r].session = s => s \in abandoned'
  <2>1. CASE SessionKilled(r)
    BY <2>1
  <2>2. CASE TabCallRefused(r)
    BY <2>2, TerminalTabsAssumption DEF SessionsOfCalls, TerminalTabsTypeOK
  <2>3. CASE SessionUnheard(r)
    BY <2>3
  <2>4. QED
    BY <2>1, <2>2, <2>3
<1>4. TerminalTabsTypeOK'
  BY <1>1, <1>2 DEF TerminalTabsTypeOK, TabCall
<1>5. QED
  BY <1>1, <1>2, <1>3, <1>4 DEF NoTabTwice, TabsHaveSessions, SessionsHaveTabs

\* A new tab, opened for the first time, takes the session of the call.
LEMMA TabAddedKeepsTabs ==
    ASSUME TabsInv, NEW r \in TabCalls, TabAdded(r)
    PROVE  TabsInv'
<1> USE DEF TabsInv, TabAdded
<1>1. PICK b \in TabIds \ tabsOpened :
        /\ tabs' = Append(tabs, b) /\ tabsOpened' = tabsOpened \cup {b}
        /\ tabSession' = [tabSession EXCEPT ![b] = tabCalls[r].session]
        /\ activeTabId' = b
  OBVIOUS
<1>2. tabs \in Seq(tabsOpened) /\ ToSet(tabs) \subseteq tabsOpened
  BY DEF TerminalTabsTypeOK, ToSet
<1>3. tabs' \in Seq(tabsOpened') /\ ToSet(tabs') = ToSet(tabs) \cup {b}
  BY <1>1, <1>2 DEF ToSet
<1>4. NoTabTwice'
  BY <1>1, <1>2 DEF NoTabTwice, ToSet
<1>5. /\ tabCalls' \in [TabCalls -> TabCall] /\ SessionsOfCalls'
      /\ \A q \in TabCalls \ {r} : tabCalls'[q] = tabCalls[q]
  BY CallOver
<1>6. tabCalls[r].session \in SessionIds
  BY DEF SessionsOfCalls
<1>7. /\ tabSession' \in [TabIds -> SessionIds \cup {NoSession}]
      /\ tabSession'[b] = tabCalls[r].session
      /\ \A c \in ToSet(tabs) : tabSession'[c] = tabSession[c]
  BY <1>1, <1>2, <1>6 DEF TerminalTabsTypeOK
<1>8. TerminalTabsTypeOK'
  BY <1>1, <1>3, <1>5, <1>7 DEF TerminalTabsTypeOK, TabCall
<1>9. TabsHaveSessions'
  BY <1>3, <1>6, <1>7 DEF TabsHaveSessions
<1>10. SessionsHaveTabs'
  BY <1>3, <1>5, <1>7 DEF SessionsHaveTabs
<1>11. QED
  BY <1>4, <1>5, <1>8, <1>9, <1>10

\* A reconnect abandons the session it replaces, or its own.
LEMMA TabSessionUpdatedKeepsTabs ==
    ASSUME TabsInv, NEW r \in TabCalls, TabSessionUpdated(r)
    PROVE  TabsInv'
<1> USE DEF TabsInv, TabSessionUpdated
<1> DEFINE b == tabCalls[r].tab
           s == tabCalls[r].session
<1>1. /\ tabCalls' \in [TabCalls -> TabCall] /\ SessionsOfCalls'
      /\ \A q \in TabCalls \ {r} : tabCalls'[q] = tabCalls[q]
  BY CallOver
<1>2. s \in SessionIds /\ ToSet(tabs) \subseteq TabIds
  BY DEF SessionsOfCalls, TerminalTabsTypeOK, ToSet
<1>3. CASE b \in ToSet(tabs)
  <2>1. /\ tabSession' \in [TabIds -> SessionIds \cup {NoSession}] /\ tabSession'[b] = s
        /\ \A c \in ToSet(tabs) \ {b} : tabSession'[c] = tabSession[c]
        /\ abandoned' = abandoned \cup {tabSession[b]}
    BY <1>2, <1>3 DEF TerminalTabsTypeOK
  <2>2. abandoned' \subseteq SessionIds
    BY <1>3, <2>1 DEF TerminalTabsTypeOK, TabsHaveSessions
  <2>3. TerminalTabsTypeOK'
    BY <1>1, <2>1, <2>2 DEF TerminalTabsTypeOK, TabCall
  <2>4. SessionsHaveTabs'
    BY <1>1, <1>3, <2>1 DEF SessionsHaveTabs
  <2>5. QED
    BY <1>1, <1>2, <2>1, <2>3, <2>4 DEF NoTabTwice, TabsHaveSessions
<1>4. CASE b \notin ToSet(tabs)
  <2>1. tabSession' = tabSession /\ abandoned' = abandoned \cup {s}
    BY <1>4
  <2>2. TerminalTabsTypeOK'
    BY <1>1, <1>2, <2>1 DEF TerminalTabsTypeOK, TabCall
  <2>3. QED
    BY <1>1, <2>1, <2>2 DEF NoTabTwice, TabsHaveSessions, SessionsHaveTabs
<1>5. QED
  BY <1>3, <1>4

\* A reload abandons the sessions of all tabs; those of the calls stay theirs.
LEMMA TabsReloadKeepsTabs ==
    ASSUME TabsInv, TabsReload
    PROVE  TabsInv'
<1> USE DEF TabsInv, TabsReload
<1>1. tabs' \in Seq(tabsOpened') /\ ToSet(tabs') = {} /\ Len(tabs') = 0
  BY DEF ToSet
<1>2. tabCalls \in [TabCalls -> TabCall]
  BY DEF TerminalTabsTypeOK, TabCall
<1>3. ASSUME NEW r \in TabCalls
      PROVE  /\ tabCalls'[r] \in TabCall
             /\ tabCalls'[r].at = tabCalls[r].at /\ tabCalls'[r].session = tabCalls[r].session
             /\ tabCalls[r].kind \in {"create", "reconnect"} => tabCalls'[r].kind = "gone"
             /\ tabCalls[r].kind \notin {"create", "reconnect"} =>
                    tabCalls'[r].kind = tabCalls[r].kind
  <2>1. tabCalls[r] \in TabCall
    BY <1>2
  <2>2. QED
    BY <2>1 DEF TabCall
<1>4. tabCalls' \in [TabCalls -> TabCall]
  BY <1>3
<1>5. SessionsOfCalls'
  BY <1>3 DEF SessionsOfCalls
<1>6. abandoned' \subseteq SessionIds
  BY DEF TabsHaveSessions, TerminalTabsTypeOK
<1>7. TerminalTabsTypeOK'
  BY <1>1, <1>4, <1>6 DEF TerminalTabsTypeOK, TabCall
<1>8. SessionsHaveTabs'
  BY <1>3 DEF SessionsHaveTabs
<1>9. QED
  BY <1>1, <1>5, <1>7, <1>8 DEF NoTabTwice, TabsHaveSessions

--------------------------------------------------------------------------------
LEMMA TabsStep == TabsInv /\ [TerminalTabsNext]_tabVars => TabsInv'
<1> SUFFICES ASSUME TabsInv, [TerminalTabsNext]_tabVars PROVE TabsInv'
  OBVIOUS
<1>1. CASE UNCHANGED tabVars
  BY <1>1 DEF tabVars, TabsInv, TerminalTabsTypeOK, SessionsOfCalls, NoTabTwice,
              TabsHaveSessions, SessionsHaveTabs
<1>2. CASE TerminalTabsNext
  BY <1>2, AskKeepsTabs, RemoveTabKeepsTabs, SessionCreatedKeepsTabs, SessionKilledKeepsTabs,
     TabAddedKeepsTabs, TabSessionUpdatedKeepsTabs, TabsReloadKeepsTabs
  DEF TerminalTabsNext
<1>3. QED
  BY <1>1, <1>2

LEMMA TabsInvariant == TerminalTabsSpec => []TabsInv
BY InitTabs, TabsStep, PTL DEF TerminalTabsSpec

\* The variables of the terminal page keep their types.
THEOREM TabsTypes == TerminalTabsSpec => []TerminalTabsTypeOK
<1>1. TabsInv => TerminalTabsTypeOK
  BY DEF TabsInv
<1>2. QED
  BY TabsInvariant, <1>1, PTL

\* The daemon keeps no session that neither a tab shows nor a request is about, except
\* those that a page reload, a reconnect, a lost answer or a lost kill abandoned.
THEOREM NoSessionForgotten == TerminalTabsSpec => []SessionsHaveTabs
<1>1. TabsInv => SessionsHaveTabs
  BY DEF TabsInv
<1>2. QED
  BY TabsInvariant, <1>1, PTL

--------------------------------------------------------------------------------
(*****************************************************************************)
(* The route trace: RouteInv.                                                *)
(*****************************************************************************)

Statuses == {"local", "gateway", "alive", "timeout", "target"}

\* Hops that may stand below a result traced via.
HopsTell(via, hops) ==
    /\ hops \in Seq(Statuses)
    /\ via = "ssh" => hops[2] = "gateway"
    /\ \A i \in 1..Len(hops) : hops[i] = "target" => i = Len(hops)

ResultOf(run) == [run : {run}, via : {"ssh", "local"}, hops : Seq(Statuses)]

\* The result shown is of the last trace, and no other is under way.
ResultFits ==
    result # <<>> =>
        /\ lastRun \in Trace /\ ~tracing
        /\ result = <<result[1]>> /\ result[1] \in ResultOf(lastRun)
        /\ HopsTell(result[1].via, result[1].hops)

TracesFit ==
    /\ tracing = (traces # {})
    /\ traces \subseteq {lastRun}
    /\ lastRun \in Trace => lastRun.conn = traceConn \/ lastRun.moved

RouteInv == RouteTraceTypeOK /\ TracesFit /\ ResultFits

--------------------------------------------------------------------------------
LEMMA OneAfterTheOther ==
    ASSUME NEW S, NEW s \in Seq(S), NEW t \in Seq(S)
    PROVE  /\ s \o t \in Seq(S) /\ Len(s \o t) = Len(s) + Len(t)
           /\ \A i \in 1..Len(s) : (s \o t)[i] = s[i]
OBVIOUS

\* A result or none.
LEMMA OneAtMost == Len(<<>>) <= 1 /\ \A x : Len(<<x>>) <= 1
OBVIOUS

LEMMA NoTraceIsNone == NoTrace \notin Trace
BY RouteTraceAssumption DEF NoTrace, Trace

\* Marking the target changes the last hop at most.
LEMMA MarksTheLast ==
    ASSUME NEW hops \in Seq(Statuses \ {"target"}), hops # <<>>
    PROVE  /\ MarkTarget(hops) \in Seq(Statuses)
           /\ Len(MarkTarget(hops)) = Len(hops)
           /\ \A i \in 1..(Len(hops) - 1) : MarkTarget(hops)[i] = hops[i]
<1> DEFINE front == SubSeq(hops, 1, Len(hops) - 1)
           marked == front \o <<"target">>
<1>1. hops \in Seq(Statuses) /\ Len(hops) \in Nat \ {0}
  OBVIOUS
<1>2. front \in Seq(Statuses) /\ Len(front) = Len(hops) - 1
      /\ \A i \in 1..(Len(hops) - 1) : front[i] = hops[i]
  <2> DEFINE n == Len(hops) - 1
  <2>1. n \in 0..Len(hops)
    BY <1>1
  <2> HIDE DEF n
  <2>2. SubSeq(hops, 1, n) \in Seq(Statuses) /\ Len(SubSeq(hops, 1, n)) = n
        /\ \A i \in 1..n : SubSeq(hops, 1, n)[i] = hops[i]
    BY <1>1, <2>1
  <2>3. QED
    BY <2>2 DEF n
<1> HIDE DEF front
<1>3. <<"target">> \in Seq(Statuses)
  BY DEF Statuses
<1>4. marked \in Seq(Statuses) /\ Len(marked) = Len(hops)
      /\ \A i \in 1..(Len(hops) - 1) : marked[i] = hops[i]
  BY <1>1, <1>2, <1>3
<1>5. MarkTarget(hops) = marked \/ MarkTarget(hops) = hops
  BY DEF MarkTarget, Front, front
<1>6. QED
  BY <1>1, <1>4, <1>5

LEMMA SshTells ==
    ASSUME NEW answer \in Answers \cup {<<>>}
    PROVE  HopsTell(RunViaSSH(answer).via, RunViaSSH(answer).hops)
<1> DEFINE known == <<"local", "gateway">>
           hops == known \o answer
<1>1. known \in Seq(Statuses \ {"target"}) /\ Len(known) = 2
      /\ known[1] = "local" /\ known[2] = "gateway"
  BY DEF Statuses
<1>2. CASE answer = <<>>
  <2>1. RunViaSSH(answer).hops = known /\ RunViaSSH(answer).via = "ssh"
    BY <1>2 DEF RunViaSSH
  <2>2. QED
    BY <1>1, <2>1 DEF HopsTell, Statuses
<1>3. CASE answer \in Answers
  <2>1. answer \in Seq(Statuses \ {"target"}) /\ answer # <<>> /\ Len(answer) \in Nat \ {0}
    BY <1>3, RouteTraceAssumption DEF Statuses
  <2> HIDE DEF known
  <2>2. /\ hops \in Seq(Statuses \ {"target"}) /\ Len(hops) = 2 + Len(answer)
        /\ hops[2] = "gateway"
    <3>1. 2 \in 1..Len(known)
      BY <1>1
    <3>2. /\ hops \in Seq(Statuses \ {"target"}) /\ Len(hops) = Len(known) + Len(answer)
          /\ \A i \in 1..Len(known) : hops[i] = known[i]
      BY <1>1, <2>1, OneAfterTheOther
    <3>3. QED
      BY <1>1, <3>1, <3>2
  <2>3. /\ hops # <<>> /\ 2 \in 1..(Len(hops) - 1)
        /\ \A i \in 1..Len(hops) : hops[i] # "target"
    BY <2>1, <2>2
  <2> HIDE DEF hops
  <2>4. /\ MarkTarget(hops) \in Seq(Statuses)
        /\ Len(MarkTarget(hops)) = Len(hops)
        /\ \A i \in 1..(Len(hops) - 1) : MarkTarget(hops)[i] = hops[i]
    BY <2>2, <2>3, MarksTheLast
  <2>5. RunViaSSH(answer).hops = MarkTarget(hops) /\ RunViaSSH(answer).via = "ssh"
    BY <2>1 DEF RunViaSSH, hops, known
  <2>6. MarkTarget(hops)[2] = "gateway"
    BY <2>2, <2>3, <2>4
  <2>7. \A i \in 1..Len(hops) : MarkTarget(hops)[i] = "target" => i = Len(hops)
    BY <2>2, <2>3, <2>4
  <2>8. QED
    BY <2>4, <2>5, <2>6, <2>7 DEF HopsTell
<1>4. QED
  BY <1>2, <1>3

LEMMA LocalTells ==
    ASSUME NEW answer \in Answers \cup {<<>>}
    PROVE  /\ HopsTell(RunLocal(answer).via, RunLocal(answer).hops)
           /\ HopsTell(PingFails.via, PingFails.hops)
<1>1. HopsTell(PingFails.via, PingFails.hops)
  BY DEF PingFails, HopsTell, Statuses
<1> DEFINE hops == IF answer = <<>> THEN <<"alive">> ELSE answer
           all == <<"local">> \o MarkTarget(hops)
<1>2. /\ hops \in Seq(Statuses \ {"target"}) /\ hops # <<>> /\ Len(hops) \in Nat \ {0}
      /\ \A i \in 1..Len(hops) : hops[i] # "target"
  <2>1. hops \in Seq({"alive", "timeout"}) /\ hops # <<>>
    <3>1. CASE answer = <<>>
      BY <3>1
    <3>2. CASE answer \in Answers
      BY <3>2, RouteTraceAssumption
    <3>3. QED
      BY <3>1, <3>2
  <2> HIDE DEF hops
  <2>2. QED
    BY <2>1 DEF Statuses
<1>3. RunLocal(answer).hops = all /\ RunLocal(answer).via = "local"
  BY DEF RunLocal
<1> HIDE DEF hops
<1>4. /\ MarkTarget(hops) \in Seq(Statuses)
      /\ Len(MarkTarget(hops)) = Len(hops)
      /\ \A i \in 1..(Len(hops) - 1) : MarkTarget(hops)[i] # "target"
  BY <1>2, MarksTheLast
<1>5. /\ all \in Seq(Statuses) /\ Len(all) = Len(hops) + 1 /\ all[1] = "local"
      /\ \A i \in 2..Len(all) : all[i] = MarkTarget(hops)[i - 1]
  BY <1>2, <1>4 DEF Statuses
<1>6. \A i \in 1..Len(all) : all[i] = "target" => i = Len(all)
  <2> SUFFICES ASSUME NEW i \in 1..Len(all), all[i] = "target" PROVE i = Len(all)
    OBVIOUS
  <2>1. i # 1 /\ i \in 2..Len(all)
    BY <1>2, <1>5
  <2>2. i - 1 \notin 1..(Len(hops) - 1)
    BY <1>4, <1>5, <2>1
  <2>3. QED
    BY <1>2, <1>5, <2>1, <2>2
<1>7. QED
  BY <1>1, <1>3, <1>5, <1>6 DEF HopsTell

--------------------------------------------------------------------------------
LEMMA InitRoute == RouteTraceInit => RouteInv
<1> SUFFICES ASSUME RouteTraceInit PROVE RouteInv
  OBVIOUS
<1> USE NoTraceIsNone, RouteTraceAssumption, OneAtMost DEF RouteTraceInit
<1>1. HostOf[traceConn] \in TraceHosts /\ Len(<<>>) = 0
  OBVIOUS
<1>2. RouteTraceTypeOK
  BY <1>1 DEF RouteTraceTypeOK
<1>3. QED
  BY <1>2 DEF RouteInv, TracesFit, ResultFits

LEMMA RunTraceKeeps ==
    ASSUME RouteInv, RunTrace \/ HostTyped \/ ClientsChange \/ TabReopened
    PROVE  RouteInv'
<1> USE RouteTraceAssumption, NoTraceIsNone, OneAtMost DEF RouteInv
<1>1. CASE HostTyped \/ ClientsChange
  BY <1>1 DEF HostTyped, ClientsChange, RouteTraceTypeOK, TracesFit, ResultFits
<1>2. CASE TabReopened
  BY <1>2 DEF TabReopened, RouteTraceTypeOK, TracesFit, ResultFits
<1>3. CASE RunTrace
  <2> DEFINE run == [conn |-> traceConn, target |-> host, moved |-> FALSE]
  <2>1. CASE host = NoHost
    BY <1>3, <2>1 DEF RunTrace, RouteTraceTypeOK, TracesFit, ResultFits
  <2>2. CASE host # NoHost
    <3>1. run \in Trace /\ run.conn = traceConn
      BY <2>2 DEF RouteTraceTypeOK, Trace
    <3>2. /\ traces' = traces \cup {run} /\ lastRun' = run /\ tracing' = TRUE
          /\ traceError' = FALSE /\ result' = <<>> /\ traces = {}
          /\ UNCHANGED <<traceConn, host, connUp>>
      BY <1>3, <2>2 DEF RunTrace, TracesFit
    <3> HIDE DEF run
    <3>3. QED
      BY <3>1, <3>2 DEF RouteTraceTypeOK, TracesFit, ResultFits
  <2>3. QED
    BY <2>1, <2>2
<1>4. QED
  BY <1>1, <1>2, <1>3

\* Another proxy marks what was asked before.
LEMMA ProxySelectedKeeps ==
    ASSUME RouteInv, ProxySelected
    PROVE  RouteInv'
<1> USE DEF RouteInv, ProxySelected
<1> DEFINE moved == [lastRun EXCEPT !.moved = TRUE]
<1>1. CASE lastRun = NoTrace
  <2>1. traces = {} /\ result = <<>>
    BY <1>1, NoTraceIsNone DEF RouteTraceTypeOK, TracesFit, ResultFits
  <2>2. traces' = {} /\ result' = <<>> /\ lastRun' = NoTrace
    BY <1>1, <2>1
  <2>3. QED
    BY <2>1, <2>2, NoTraceIsNone DEF RouteTraceTypeOK, TracesFit, ResultFits
<1>2. CASE lastRun # NoTrace
  <2>1. lastRun \in Trace
    BY <1>2 DEF RouteTraceTypeOK
  <2>2. moved \in Trace /\ moved.moved = TRUE /\ lastRun' = moved
    BY <1>2, <2>1 DEF Trace
  <2>3. traces' \subseteq {moved} /\ (traces' = {} <=> traces = {})
    BY DEF TracesFit
  <2> HIDE DEF moved
  <2>4. TracesFit'
    BY <2>2, <2>3 DEF TracesFit
  <2>5. RouteTraceTypeOK'
    BY <2>2, <2>3, OneAtMost DEF RouteTraceTypeOK
  <2>6. ResultFits'
    <3>1. CASE result = <<>>
      BY <3>1 DEF ResultFits
    <3>2. CASE result # <<>>
      <4> DEFINE old == result[1]
                 new == [old EXCEPT !.run.moved = TRUE]
      <4>1. old \in ResultOf(lastRun) /\ HopsTell(old.via, old.hops) /\ ~tracing
        BY <3>2 DEF ResultFits
      <4>2. result' = <<new>>
        BY <3>2
      <4>3. new \in ResultOf(moved) /\ new.via = old.via /\ new.hops = old.hops
        BY <2>1, <4>1 DEF moved, ResultOf, Trace
      <4> HIDE DEF new
      <4>4. result'[1] = new
        BY <4>2
      <4>5. QED
        BY <2>2, <4>1, <4>2, <4>3, <4>4 DEF ResultFits
    <3>3. QED
      BY <3>1, <3>2
  <2>7. QED
    BY <2>4, <2>5, <2>6
<1>3. QED
  BY <1>1, <1>2

\* The one trace under way ends, and its answer is the result, if there is one.
LEMMA TraceEndsKeeps ==
    ASSUME RouteInv, NEW t \in traces, TraceEnds(t)
    PROVE  RouteInv'
<1> USE DEF RouteInv, TraceEnds
<1>1. t = lastRun /\ lastRun \in Trace /\ tracing /\ result = <<>>
  BY DEF TracesFit, RouteTraceTypeOK, ResultFits
<1>2. traces' = {} /\ tracing' = FALSE /\ UNCHANGED <<traceConn, host, connUp, lastRun>>
  BY <1>1 DEF TracesFit
<1>3. TracesFit'
  BY <1>2 DEF TracesFit
<1>4. CASE UNCHANGED result /\ traceError' = TRUE
  BY <1>1, <1>2, <1>3, <1>4 DEF RouteTraceTypeOK, ResultFits
<1>5. ASSUME NEW answer \in Answers \cup {<<>>},
             NEW r \in {RunViaSSH(answer), RunLocal(answer), PingFails},
             result' = <<[run |-> t, via |-> r.via, hops |-> r.hops]>>,
             traceError' = r.error
      PROVE  RouteInv'
  <2>1. HopsTell(r.via, r.hops)
    BY <1>5, SshTells, LocalTells
  <2>2. r.error \in BOOLEAN
    <3>1. CASE r = RunViaSSH(answer)
      BY <3>1 DEF RunViaSSH
    <3>2. CASE r = RunLocal(answer)
      BY <3>2 DEF RunLocal
    <3>3. CASE r = PingFails
      BY <3>3 DEF PingFails
    <3>4. QED
      BY <1>5, <3>1, <3>2, <3>3
  <2>3. result'[1] \in ResultOf(lastRun) /\ result'[1].via = r.via /\ result'[1].hops = r.hops
    <3>1. r.via \in {"ssh", "local"}
      BY <1>5 DEF RunViaSSH, RunLocal, PingFails
    <3>2. result'[1] = [run |-> t, via |-> r.via, hops |-> r.hops]
      BY <1>5
    <3>3. QED
      BY <1>1, <2>1, <3>1, <3>2 DEF ResultOf, HopsTell
  <2>4. ResultFits'
    BY <1>1, <1>2, <1>5, <2>1, <2>3 DEF ResultFits
  <2>5. RouteTraceTypeOK'
    BY <1>2, <1>5, <2>2, OneAtMost DEF RouteTraceTypeOK
  <2>6. QED
    BY <1>3, <2>4, <2>5
<1>6. QED
  BY <1>4, <1>5

--------------------------------------------------------------------------------
LEMMA RouteStep == RouteInv /\ [RouteTraceNext]_routeTraceVars => RouteInv'
<1> SUFFICES ASSUME RouteInv, [RouteTraceNext]_routeTraceVars PROVE RouteInv'
  OBVIOUS
<1>1. CASE UNCHANGED routeTraceVars
  BY <1>1 DEF routeTraceVars, RouteInv, RouteTraceTypeOK, TracesFit, ResultFits
<1>2. CASE RouteTraceNext
  BY <1>2, RunTraceKeeps, ProxySelectedKeeps, TraceEndsKeeps DEF RouteTraceNext
<1>3. QED
  BY <1>1, <1>2

LEMMA RouteInvariant == RouteTraceSpec => []RouteInv
BY InitRoute, RouteStep, PTL DEF RouteTraceSpec

\* What the invariant says of the hops is what the tab draws of them.
LEMMA RouteShows == RouteInv => ShowsTheLastTrace
<1> SUFFICES ASSUME RouteInv PROVE ShowsTheLastTrace
  OBVIOUS
<1> USE DEF RouteInv
<1>1. tracing = (traces # {}) /\ (tracing => TabShows = "spinner")
  <2>1. tracing => result = <<>>
    BY DEF ResultFits
  <2>2. QED
    BY <2>1 DEF TracesFit, TabShows
<1>2. ASSUME TabShows = "hops"
      PROVE  LET hops == result[1].hops
             IN  /\ result[1].run = lastRun
                 /\ ChainShown.target = lastRun.target
                 /\ lastRun.conn = traceConn \/ lastRun.moved
                 /\ ChainShown.via = "ssh" => hops[2] = "gateway" /\ HopColor(hops[2]) = "purple"
                 /\ \A i \in 1..Len(hops) : HopColor(hops[i]) = "cyan" =>
                     /\ i = ChainShown.hops
                     /\ LineBroken(i - 1) => hops[i - 1] = "timeout"
  <2> DEFINE hops == result[1].hops
  <2>1. result # <<>>
    BY <1>2 DEF TabShows
  <2>2. result[1].run = lastRun /\ HopsTell(result[1].via, hops) /\ lastRun \in Trace
    BY <2>1 DEF ResultFits, ResultOf
  <2>3. ChainShown.target = lastRun.target /\ ChainShown.via = result[1].via
        /\ ChainShown.hops = Len(hops)
    BY <2>2 DEF ChainShown
  <2>4. lastRun.conn = traceConn \/ lastRun.moved
    BY <2>2 DEF TracesFit
  <2>5. HopColor("gateway") = "purple"
    BY DEF HopColor
  <2>6. ASSUME NEW i \in 1..Len(hops), HopColor(hops[i]) = "cyan"
        PROVE  i = Len(hops) /\ (LineBroken(i - 1) => hops[i - 1] = "timeout")
    <3>1. hops[i] = "target"
      BY <2>6 DEF HopColor
    <3>2. LineBroken(i - 1) => "timeout" \in {hops[i - 1], hops[i]}
      <4>1. (i - 1) + 1 = i
        BY <2>2 DEF HopsTell
      <4>2. QED
        BY <4>1 DEF LineBroken
    <3>3. QED
      BY <2>2, <3>1, <3>2 DEF HopsTell
  <2> HIDE DEF hops
  <2>7. HopsTell(result[1].via, hops) => (result[1].via = "ssh" => hops[2] = "gateway")
    BY DEF HopsTell
  <2>8. QED
    BY <2>2, <2>3, <2>4, <2>5, <2>6, <2>7 DEF hops
<1>3. QED
  BY <1>1, <1>2 DEF ShowsTheLastTrace

\* The variables of the Route Trace tab keep their types; it shows one result at most.
THEOREM RouteTypes == RouteTraceSpec => []RouteTraceTypeOK
<1>1. RouteInv => RouteTraceTypeOK
  BY DEF RouteInv
<1>2. QED
  BY RouteInvariant, <1>1, PTL

\* The tab shows no older answer than the last trace's, under the proxy it was asked
\* through or with one selected since, and draws gateway, target and broken lines where
\* the tracer's answer, whatever it was, has them.
THEOREM LastTraceShown == RouteTraceSpec => []ShowsTheLastTrace
BY RouteInvariant, RouteShows, PTL

--------------------------------------------------------------------------------
(*****************************************************************************)
(* The connection graph: TrackerInv and GraphInv.                            *)
(*****************************************************************************)

\* The connections to a destination: those that are open, and all there were.
OpenTo(d) == {c \in openConns : destination[c] = d}
MadeTo(d) == {c \in Routed : destination[c] = d}

TrackerTypes ==
    /\ openConns \subseteq Routed
    /\ destination \in [Routed -> Dests \cup {NoDest}]
    /\ destStats \in [Dests -> [total : Nat, active : Nat]]

\* The counters count them, and a connection that is open has been made.
TrackerInv ==
    /\ TrackerTypes
    /\ \A c \in openConns : destination[c] # NoDest
    /\ \A d \in Dests : /\ destStats[d].active = Cardinality(OpenTo(d))
                        /\ destStats[d].total = Cardinality(MadeTo(d))

LEMMA FewConnections ==
    ASSUME openConns \subseteq Routed
    PROVE  \A d : /\ IsFiniteSet(OpenTo(d)) /\ IsFiniteSet(MadeTo(d))
                  /\ Cardinality(OpenTo(d)) \in Nat /\ Cardinality(MadeTo(d)) \in Nat
                  /\ Cardinality(OpenTo(d)) <= Cardinality(MadeTo(d))
<1> SUFFICES ASSUME NEW d
             PROVE  /\ IsFiniteSet(OpenTo(d)) /\ IsFiniteSet(MadeTo(d))
                    /\ Cardinality(OpenTo(d)) \in Nat /\ Cardinality(MadeTo(d)) \in Nat
                    /\ Cardinality(OpenTo(d)) <= Cardinality(MadeTo(d))
  OBVIOUS
<1>1. MadeTo(d) \subseteq Routed /\ OpenTo(d) \subseteq MadeTo(d)
  BY DEF MadeTo, OpenTo
<1>2. IsFiniteSet(MadeTo(d))
  BY <1>1, ProxyGraphAssumption, FS_Subset
<1>3. IsFiniteSet(OpenTo(d)) /\ Cardinality(OpenTo(d)) <= Cardinality(MadeTo(d))
  BY <1>1, <1>2, FS_Subset
<1>4. QED
  BY <1>2, <1>3, FS_CardinalityType

LEMMA InitTracker == ProxyGraphInit => TrackerInv
<1> SUFFICES ASSUME ProxyGraphInit PROVE TrackerInv
  OBVIOUS
<1> USE DEF ProxyGraphInit
<1>1. TrackerTypes
  BY DEF TrackerTypes
<1>2. ASSUME NEW d \in Dests PROVE OpenTo(d) = {} /\ MadeTo(d) = {}
  BY ProxyGraphAssumption DEF OpenTo, MadeTo
<1>3. QED
  BY <1>1, <1>2, FS_EmptySet DEF TrackerInv

--------------------------------------------------------------------------------
LEMMA RegisterKeeps ==
    ASSUME TrackerInv, NEW c \in Routed, NEW d \in Dests, Register(c, d)
    PROVE  TrackerInv'
<1> USE DEF TrackerInv, TrackerTypes, Register
<1>1. TrackerTypes'
  OBVIOUS
<1>2. c \notin openConns /\ destination[c] = NoDest /\ d # NoDest
  BY ProxyGraphAssumption
<1>3. /\ destination'[c] = d
      /\ \A b \in Routed \ {c} : destination'[b] = destination[b]
  OBVIOUS
<1>4. OpenTo(d)' = OpenTo(d) \cup {c} /\ MadeTo(d)' = MadeTo(d) \cup {c}
      /\ c \notin OpenTo(d) /\ c \notin MadeTo(d)
  BY <1>2, <1>3 DEF OpenTo, MadeTo
<1>5. ASSUME NEW e \in Dests \ {d} PROVE OpenTo(e)' = OpenTo(e) /\ MadeTo(e)' = MadeTo(e)
  BY <1>2, <1>3, ProxyGraphAssumption DEF OpenTo, MadeTo
<1>6. /\ Cardinality(OpenTo(d)') = Cardinality(OpenTo(d)) + 1
      /\ Cardinality(MadeTo(d)') = Cardinality(MadeTo(d)) + 1
  BY <1>4, FewConnections, FS_AddElement
<1>7. /\ destStats'[d].active = destStats[d].active + 1
      /\ destStats'[d].total = destStats[d].total + 1
      /\ \A e \in Dests \ {d} : destStats'[e] = destStats[e]
  OBVIOUS
<1>8. \A b \in openConns' : destination'[b] # NoDest
  BY <1>2, <1>3
<1>9. ASSUME NEW e \in Dests
      PROVE  /\ destStats'[e].active = Cardinality(OpenTo(e)')
             /\ destStats'[e].total = Cardinality(MadeTo(e)')
  <2>1. CASE e = d
    BY <1>6, <1>7, <2>1
  <2>2. CASE e # d
    BY <1>5, <1>7, <2>2
  <2>3. QED
    BY <2>1, <2>2
<1>10. QED
  BY <1>1, <1>8, <1>9

\* Whichever close unregisters the connection is the one that is counted.
LEMMA UnregisterKeeps ==
    ASSUME TrackerInv, NEW c \in Routed, Unregister(c)
    PROVE  TrackerInv'
<1> USE DEF TrackerInv, TrackerTypes, Unregister
<1>1. \A e \in Dests : MadeTo(e)' = MadeTo(e)
  BY DEF MadeTo
<1>2. CASE c \notin openConns
  <2>1. openConns' = openConns /\ destStats' = destStats /\ destination' = destination
    BY <1>2
  <2>2. \A e \in Dests : OpenTo(e)' = OpenTo(e)
    BY <2>1 DEF OpenTo
  <2>3. QED
    BY <1>1, <2>1, <2>2
<1>3. CASE c \in openConns
  <2>0. PICK d \in Dests : d = destination[c]
    BY <1>3
  <2>1. d \in Dests /\ c \in OpenTo(d)
    BY <1>3, <2>0 DEF OpenTo
  <2>2. OpenTo(d)' = OpenTo(d) \ {c}
    BY <1>3, <2>0 DEF OpenTo
  <2>3. ASSUME NEW e \in Dests \ {d} PROVE OpenTo(e)' = OpenTo(e)
    BY <1>3, <2>0 DEF OpenTo
  <2>4. Cardinality(OpenTo(d)') = Cardinality(OpenTo(d)) - 1
    BY <2>1, <2>2, FewConnections, FS_RemoveElement
  <2>5. Cardinality(OpenTo(d)') \in Nat
    <3>1. openConns' \subseteq Routed
      OBVIOUS
    <3>2. IsFiniteSet(OpenTo(d)')
      BY <2>2, FewConnections, FS_Subset
    <3>3. QED
      BY <3>2, FS_CardinalityType
  <2>6. destStats' = [destStats EXCEPT ![d].active = @ - 1]
    BY <1>3, <2>0
  <2>7. /\ destStats'[d].active = Cardinality(OpenTo(d)')
        /\ destStats'[d].total = destStats[d].total
        /\ \A e \in Dests \ {d} : destStats'[e] = destStats[e]
    BY <2>1, <2>4, <2>6
  <2>8. TrackerTypes'
    <3>1. destStats[d].active - 1 \in Nat
      BY <2>1, <2>4, <2>5
    <3>2. destStats' \in [Dests -> [total : Nat, active : Nat]]
      BY <2>1, <2>6, <3>1
    <3>3. QED
      BY <3>2
  <2>9. ASSUME NEW e \in Dests
        PROVE  /\ destStats'[e].active = Cardinality(OpenTo(e)')
               /\ destStats'[e].total = Cardinality(MadeTo(e)')
    <3>1. CASE e = d
      BY <1>1, <2>1, <2>7, <3>1
    <3>2. CASE e # d
      <4>1. e \in Dests \ {d}
        BY <3>2
      <4>2. OpenTo(e)' = OpenTo(e) /\ MadeTo(e)' = MadeTo(e) /\ destStats'[e] = destStats[e]
        BY <1>1, <2>3, <2>7, <4>1
      <4>3. QED
        BY <4>2
    <3>3. QED
      BY <3>1, <3>2
  <2>10. \A b \in openConns' : destination'[b] # NoDest
    OBVIOUS
  <2>11. QED
    BY <2>8, <2>9, <2>10
<1>4. QED
  BY <1>2, <1>3

--------------------------------------------------------------------------------
LEMMA TrackerStep == TrackerInv /\ [ProxyGraphNext]_proxyGraphVars => TrackerInv'
<1> SUFFICES ASSUME TrackerInv, [ProxyGraphNext]_proxyGraphVars PROVE TrackerInv'
  OBVIOUS
<1>1. CASE UNCHANGED <<openConns, destination, destStats>>
  BY <1>1 DEF TrackerInv, TrackerTypes, OpenTo, MadeTo
<1>2. CASE UNCHANGED proxyGraphVars
  BY <1>1, <1>2 DEF proxyGraphVars
<1>3. ASSUME NEW c \in Routed,
             (\E d \in Dests : Register(c, d)) \/ CloseBegins(c) \/ Unregister(c)
      PROVE  TrackerInv'
  BY <1>1, <1>3, RegisterKeeps, UnregisterKeeps DEF CloseBegins
<1>4. CASE \/ SnapshotArrives
           \/ NodeClicked \/ RowClicked \/ Dismissed \/ TogglesClicked \/ GraphTabClicked
  BY <1>1, <1>4 DEF SnapshotArrives, NodeClicked, RowClicked, Dismissed, TogglesClicked,
                    GraphTabClicked, trackerVars
<1>5. QED
  BY <1>2, <1>3, <1>4 DEF ProxyGraphNext

--------------------------------------------------------------------------------
\* The snapshot's rows, each with the counts its destination had when it was taken:
\* of the connections it lists, which have been made.
CountedThen(d) == {c \in snapshot.connections : destination[c] = d}

RowTellsTruth(n) ==
    /\ n.id = NodeOf[n.dest]
    /\ n.active = Cardinality(CountedThen(n.dest))
    /\ n.active <= n.total /\ n.total <= Cardinality(Routed)

GraphRows == [dest : Dests, id : GraphNodes, active : Nat, total : Nat \ {0}]

SnapshotFits ==
    /\ snapshot \in [graph : Seq(GraphRows), connections : SUBSET Routed]
    /\ \A c \in snapshot.connections : destination[c] # NoDest
    /\ \A i \in 1..Len(graph) : RowTellsTruth(graph[i])

ViewFits ==
    /\ closing \in [Routed -> 0..2]
    /\ graphTab \in {"topology", "trace"}
    /\ filter \in {"active", "all"} /\ showAll \in BOOLEAN
    /\ selectedNodeId \in GraphNodes \cup {NoNode}

GraphInv == TrackerInv /\ SnapshotFits /\ ViewFits

LEMMA InitGraph == ProxyGraphInit => GraphInv
<1> SUFFICES ASSUME ProxyGraphInit PROVE GraphInv
  OBVIOUS
<1>1. TrackerInv
  BY InitTracker
<1>2. SnapshotFits
  <2>1. graph = <<>> /\ snapshot.connections = {}
    BY DEF ProxyGraphInit, graph
  <2>2. snapshot \in [graph : Seq(GraphRows), connections : SUBSET Routed]
    BY DEF ProxyGraphInit
  <2>3. QED
    BY <2>1, <2>2 DEF SnapshotFits
<1>3. ViewFits
  <2>1. closing \in [Routed -> 0..2]
    BY DEF ProxyGraphInit
  <2>2. showAll \in BOOLEAN
    BY Zenon DEF ProxyGraphInit
  <2>3. QED
    BY <2>1, <2>2 DEF ProxyGraphInit, ViewFits
<1>4. QED
  BY <1>1, <1>2, <1>3 DEF GraphInv

\* Only finitely many destinations are listed: each had a connection.
LEMMA FewListed ==
    ASSUME TrackerInv
    PROVE  IsFiniteSet({d \in Dests : ListedConns(d)})
<1> DEFINE made == {c \in Routed : destination[c] # NoDest}
           f == [c \in made |-> destination[c]]
           met == {f[c] : c \in made}
<1>1. IsFiniteSet(made)
  BY ProxyGraphAssumption, FS_Subset
<1>2. f \in Surjection(made, met)
  BY DEF Surjection
<1>3. IsFiniteSet(met)
  BY <1>1, <1>2, FS_Surjection
<1>4. ASSUME NEW d \in Dests, ListedConns(d) PROVE d \in met
  <2>1. Cardinality(MadeTo(d)) # 0
    BY <1>4 DEF TrackerInv, TrackerTypes, ListedConns
  <2>2. PICK c \in MadeTo(d) : TRUE
    BY <2>1, FS_EmptySet
  <2>3. c \in made /\ f[c] = d
    BY <2>2, ProxyGraphAssumption DEF MadeTo
  <2>4. QED
    BY <2>3
<1>5. {d \in Dests : ListedConns(d)} \subseteq met
  BY <1>4
<1>6. QED
  BY <1>3, <1>5, FS_Subset

LEMMA SnapshotTellsTruth ==
    ASSUME GraphInv, SnapshotArrives
    PROVE  SnapshotFits'
<1> DEFINE listed == {d \in Dests : ListedConns(d)}
           n == Cardinality(listed)
<1>1. PICK order \in SetToSeqs(listed) :
        snapshot' = [graph |-> GraphOf(order), connections |-> openConns]
  BY DEF SnapshotArrives
<1>2. n \in Nat
  BY FewListed, FS_CardinalityType DEF GraphInv
<1>3. order \in [1..n -> listed]
  BY <1>1 DEF SetToSeqs
<1>4. order \in Seq(listed) /\ Len(order) = n
  <2>1. order = [i \in 1..n |-> order[i]] /\ \A i \in 1..n : order[i] \in listed
    BY <1>3
  <2> HIDE DEF listed, n
  <2>2. [i \in 1..n |-> order[i]] \in Seq(listed) /\ Len([i \in 1..n |-> order[i]]) = n
    BY <1>2, <2>1
  <2>3. QED
    BY <2>1, <2>2
<1>5. UNCHANGED <<openConns, destination, destStats>>
  BY DEF SnapshotArrives, trackerVars
<1>6. ASSUME NEW d \in listed
      PROVE  /\ destStats[d].active = Cardinality(OpenTo(d)) /\ destStats[d].active \in Nat
             /\ destStats[d].active <= destStats[d].total
             /\ destStats[d].total \in Nat \ {0}
             /\ destStats[d].total <= Cardinality(Routed)
  <2>1. MadeTo(d) \subseteq Routed /\ Cardinality(MadeTo(d)) <= Cardinality(Routed)
    <3>1. MadeTo(d) \subseteq Routed
      BY DEF MadeTo
    <3>2. QED
      BY <3>1, ProxyGraphAssumption, FS_Subset
  <2>2. QED
    BY <2>1, FewConnections, FS_CardinalityType, ProxyGraphAssumption
    DEF GraphInv, TrackerInv, TrackerTypes, ListedConns
<1>7. \A i \in 1..n : order[i] \in listed
  BY <1>3
<1>8. graph' = [i \in 1..n |-> [dest |-> order[i], id |-> NodeOf[order[i]],
                active |-> destStats[order[i]].active, total |-> destStats[order[i]].total]]
  BY <1>1, <1>4 DEF graph, GraphOf
<1>9. ASSUME NEW i \in 1..n PROVE graph'[i] \in GraphRows
  <2>1. NodeOf[order[i]] \in GraphNodes
    BY <1>7 DEF GraphNodes
  <2>2. QED
    BY <1>6, <1>7, <1>8, <2>1 DEF GraphRows
<1>10. graph' \in Seq(GraphRows) /\ Len(graph') = n
  BY <1>2, <1>8, <1>9
<1>11. snapshot' \in [graph : Seq(GraphRows), connections : SUBSET Routed]
  BY <1>1, <1>10 DEF graph, GraphInv, TrackerInv, TrackerTypes
<1>12. \A d : CountedThen(d)' = OpenTo(d)
  BY <1>1, <1>5 DEF CountedThen, OpenTo
<1>13. ASSUME NEW i \in 1..n PROVE RowTellsTruth(graph[i])'
  BY <1>6, <1>7, <1>8, <1>12 DEF RowTellsTruth
<1>14. \A c \in snapshot'.connections : destination'[c] # NoDest
  BY <1>1, <1>5 DEF GraphInv, TrackerInv
<1>15. QED
  BY <1>10, <1>11, <1>13, <1>14 DEF SnapshotFits

\* A connection made later changes nothing of what the snapshot counted.
LEMMA SnapshotStays ==
    ASSUME GraphInv, UNCHANGED snapshot,
           \A c \in snapshot.connections : destination'[c] = destination[c]
    PROVE  SnapshotFits'
<1>1. \A d : CountedThen(d)' = CountedThen(d)
  BY DEF CountedThen
<1>2. QED
  BY <1>1 DEF GraphInv, SnapshotFits, RowTellsTruth, graph

--------------------------------------------------------------------------------
(* The rows of the page *)

LEMMA LastOfSome ==
    ASSUME NEW n \in Nat, NEW places \in SUBSET (1..n), places # {}
    PROVE  \E i \in places : \A j \in places : j <= i
<1> DEFINE F == {n - i : i \in places}
<1>1. F # {} /\ F \subseteq Nat
  <2>1. \A i \in places : i \in 1..n /\ n - i \in Nat
    OBVIOUS
  <2>2. QED
    BY <2>1
<1>2. PICK m \in F : \A q \in F : ~(q < m)
  <2>1. PICK m \in F : \A q \in F : <<q, m>> \notin OpToRel(<, Nat)
    BY <1>1, WFMin, NatLessThanWellFounded, Zenon
  <2>2. QED
    BY <1>1, <2>1, Zenon DEF OpToRel
<1>3. PICK i \in places : m = n - i
  OBVIOUS
<1>4. ASSUME NEW j \in places PROVE j <= i
  <2>1. ~(n - j < m)
    BY <1>2
  <2>2. i \in 1..n /\ j \in 1..n
    OBVIOUS
  <2>3. QED
    BY <1>3, <2>1, <2>2
<1>5. QED
  BY <1>4

\* A row takes its counts from a row with the same node, the last.
LEMMA EdgesAreRows ==
    ASSUME SnapshotFits, NEW i \in 1..Len(graph)
    PROVE  \E k \in 1..Len(graph) :
            /\ graph[k].id = graph[i].id
            /\ AllDestNodes[i] = [graph[i] EXCEPT !.active = graph[k].active,
                                                  !.total = graph[k].total]
<1> DEFINE n == Len(graph)
           same == {k \in 1..n : graph[k].id = graph[i].id}
           IsLast(k) == /\ graph[k].id = graph[i].id
                        /\ \A j \in (k + 1)..n : graph[j].id # graph[i].id
<1>1. n \in Nat
  BY DEF SnapshotFits, graph
<1>2. \E k \in same : \A j \in same : j <= k
  <2>1. same \in SUBSET (1..n) /\ same # {}
    OBVIOUS
  <2> HIDE DEF same
  <2>2. QED
    BY <1>1, <2>1, LastOfSome
<1>3. \E k \in 1..n : IsLast(k)
  BY <1>1, <1>2
<1>4. PICK k \in 1..n : k = (CHOOSE j \in 1..n : IsLast(j)) /\ IsLast(k)
  <2> HIDE DEF IsLast
  <2>1. QED
    BY <1>3
<1>5. EdgeOf(graph[i].id) = graph[k]
  BY <1>4 DEF EdgeOf
<1>6. AllDestNodes[i] = [graph[i] EXCEPT !.active = graph[k].active,
                                         !.total = graph[k].total]
  BY <1>5 DEF AllDestNodes
<1>7. QED
  BY <1>4, <1>6

LEMMA RowsTyped ==
    ASSUME SnapshotFits
    PROVE  /\ Len(graph) \in Nat
           /\ \A i \in 1..Len(graph) :
                /\ graph[i] \in GraphRows /\ AllDestNodes[i] \in GraphRows
                /\ AllDestNodes[i].id = graph[i].id /\ AllDestNodes[i].dest = graph[i].dest
                /\ AllDestNodes[i].active <= AllDestNodes[i].total
<1>1. graph \in Seq(GraphRows) /\ Len(graph) \in Nat
  BY DEF SnapshotFits, graph
<1>2. ASSUME NEW i \in 1..Len(graph)
      PROVE  /\ graph[i] \in GraphRows /\ AllDestNodes[i] \in GraphRows
             /\ AllDestNodes[i].id = graph[i].id /\ AllDestNodes[i].dest = graph[i].dest
             /\ AllDestNodes[i].active <= AllDestNodes[i].total
  <2>1. PICK k \in 1..Len(graph) :
            AllDestNodes[i] = [graph[i] EXCEPT !.active = graph[k].active,
                                               !.total = graph[k].total]
    BY EdgesAreRows
  <2>2. graph[i] \in GraphRows /\ graph[k] \in GraphRows /\ graph[k].active <= graph[k].total
    BY <1>1 DEF SnapshotFits, RowTellsTruth
  <2>3. QED
    BY <2>1, <2>2 DEF GraphRows
<1>3. QED
  BY <1>1, <1>2

LEMMA OwnRows ==
    ASSUME SnapshotFits, OwnNodes, NEW i \in 1..Len(graph)
    PROVE  AllDestNodes[i] = graph[i]
<1>1. PICK k \in 1..Len(graph) :
        /\ graph[k].id = graph[i].id
        /\ AllDestNodes[i] = [graph[i] EXCEPT !.active = graph[k].active,
                                              !.total = graph[k].total]
  BY EdgesAreRows
<1>2. k = i
  BY <1>1 DEF OwnNodes
<1>3. QED
  BY <1>1, <1>2, RowsTyped DEF GraphRows

LEMMA Shares ==
    ASSUME NEW x \in Nat, NEW t \in Nat \ {0}
    PROVE  /\ x \div t \in Nat
           /\ x >= t => x \div t > 0
           /\ x < t => x \div t = 0
OBVIOUS

\* The ring of a node with connections shows something just when one is open.
LEMMA RingTells ==
    ASSUME NEW n \in GraphRows, n.active <= n.total
    PROVE  RingFilled(n) > 0 <=> n.active > 0
<1> DEFINE a == n.active
           t == n.total
           x == a * Segments + t - 1
<1>1. a \in Nat /\ t \in Nat \ {0} /\ Segments \in Nat \ {0}
  BY ProxyGraphAssumption DEF GraphRows
<1> HIDE DEF a, t
<1>2. x \in Nat /\ (a > 0 => x >= t) /\ (a = 0 => x < t)
  <2>1. CASE a = 0
    BY <1>1, <2>1
  <2>2. CASE a > 0
    <3>1. a * Segments \in Nat /\ a * Segments >= 1
      BY <1>1, <2>2
    <3>2. QED
      BY <1>1, <2>2, <3>1
  <2>3. QED
    BY <1>1, <2>1, <2>2
<1>3. x \div t \in Nat /\ (a > 0 => x \div t > 0) /\ (a = 0 => x \div t = 0)
  BY <1>1, <1>2, Shares
<1>4. RingFilled(n) = IF x \div t > Segments THEN Segments ELSE x \div t
  BY <1>1 DEF RingFilled, a, t
<1> HIDE DEF x
<1>5. QED
  BY <1>1, <1>3, <1>4 DEF a

--------------------------------------------------------------------------------
LEMMA ClicksKeep ==
    ASSUME GraphInv,
           NodeClicked \/ RowClicked \/ Dismissed \/ TogglesClicked \/ GraphTabClicked
    PROVE  ViewFits' /\ UNCHANGED <<trackerVars, snapshot>>
<1>1. ASSUME NEW i \in SortedDests PROVE Toggled(AllDestNodes[i].id) \in GraphNodes \cup {NoNode}
  <2>1. i \in 1..Len(graph)
    BY DEF SortedDests
  <2>2. AllDestNodes[i].id \in GraphNodes
    BY <2>1, RowsTyped DEF GraphInv, GraphRows
  <2>3. QED
    BY <2>2 DEF Toggled
<1>2. DisplayDests \subseteq SortedDests
  BY DEF DisplayDests
<1> USE DEF GraphInv, ViewFits, trackerVars
<1>3. CASE NodeClicked
  BY <1>1, <1>2, <1>3 DEF NodeClicked
<1>4. CASE RowClicked
  BY <1>1, <1>4 DEF RowClicked
<1>5. CASE Dismissed
  BY <1>5 DEF Dismissed
<1>6. CASE TogglesClicked
  <2>1. filter' \in {"active", "all"} /\ showAll' \in BOOLEAN
    BY <1>6, Zenon DEF TogglesClicked
  <2>2. QED
    BY <1>6, <2>1 DEF TogglesClicked
<1>7. CASE GraphTabClicked
  <2>1. filter' \in {"active", "all"} /\ showAll' \in BOOLEAN
    BY <1>7, Zenon DEF GraphTabClicked
  <2>2. QED
    BY <1>7, <2>1 DEF GraphTabClicked
<1>8. QED
  BY <1>3, <1>4, <1>5, <1>6, <1>7

LEMMA GraphStep == GraphInv /\ [ProxyGraphNext]_proxyGraphVars => GraphInv'
<1> SUFFICES ASSUME GraphInv, [ProxyGraphNext]_proxyGraphVars PROVE GraphInv'
  OBVIOUS
<1>1. TrackerInv'
  BY TrackerStep DEF GraphInv
<1>2. ASSUME UNCHANGED viewVars, UNCHANGED graphTab, closing' \in [Routed -> 0..2] PROVE ViewFits'
  BY <1>2 DEF GraphInv, ViewFits, viewVars
<1>3. ASSUME UNCHANGED <<snapshot, destination>> PROVE SnapshotFits'
  BY <1>3, SnapshotStays
<1>4. CASE UNCHANGED proxyGraphVars
  BY <1>1, <1>2, <1>3, <1>4 DEF proxyGraphVars, viewVars, GraphInv, ViewFits
<1>5. ASSUME NEW c \in Routed, NEW d \in Dests, Register(c, d) PROVE GraphInv'
  <2>1. \A b \in snapshot.connections : destination'[b] = destination[b]
    BY <1>5 DEF Register, GraphInv, SnapshotFits, TrackerInv, TrackerTypes
  <2>2. UNCHANGED <<snapshot, viewVars, graphTab, closing>>
    BY <1>5 DEF Register
  <2>3. SnapshotFits'
    BY <2>1, <2>2, SnapshotStays
  <2>4. QED
    BY <1>1, <1>2, <2>2, <2>3 DEF GraphInv, ViewFits
<1>6. ASSUME NEW c \in Routed, CloseBegins(c) PROVE GraphInv'
  BY <1>1, <1>2, <1>3, <1>6 DEF CloseBegins, GraphInv, ViewFits
<1>7. ASSUME NEW c \in Routed, Unregister(c) PROVE GraphInv'
  BY <1>1, <1>2, <1>3, <1>7 DEF Unregister, GraphInv, ViewFits
<1>8. CASE SnapshotArrives
  BY <1>1, <1>2, <1>8, SnapshotTellsTruth DEF SnapshotArrives, trackerVars, GraphInv, ViewFits
<1>9. CASE NodeClicked \/ RowClicked \/ Dismissed \/ TogglesClicked \/ GraphTabClicked
  BY <1>1, <1>3, <1>9, ClicksKeep DEF trackerVars, GraphInv
<1>10. QED
  BY <1>4, <1>5, <1>6, <1>7, <1>8, <1>9 DEF ProxyGraphNext

LEMMA GraphInvariant == ProxyGraphSpec => []GraphInv
BY InitGraph, GraphStep, PTL DEF ProxyGraphSpec

\* What is ahead of a row is ahead of the rows that it goes before.
LEMMA CutKeepsTheBusiest ==
    ASSUME SnapshotFits, NEW i \in SortedDests \ DisplayDests, NEW j \in DisplayDests
    PROVE  ~Before(AllDestNodes[i], AllDestNodes[j])
<1> SUFFICES ASSUME Before(AllDestNodes[i], AllDestNodes[j]) PROVE FALSE
  OBVIOUS
<1>1. i \in SortedDests /\ j \in SortedDests
  BY DEF DisplayDests
<1>2. \A k \in SortedDests : k \in 1..Len(graph) /\ AllDestNodes[k].active \in Nat
                                /\ AllDestNodes[k].total \in Nat
  BY RowsTyped DEF SortedDests, GraphRows
<1>3. SortedAhead(i) \subseteq SortedAhead(j)
  BY <1>1, <1>2 DEF SortedAhead, Before
<1>4. IsFiniteSet(SortedAhead(j))
  <2>1. SortedAhead(j) \subseteq 1..Len(graph)
    BY <1>2 DEF SortedAhead
  <2>2. IsFiniteSet(1..Len(graph))
    <3>1. 1 \in Int /\ Len(graph) \in Int
      BY RowsTyped
    <3>2. QED
      BY <3>1, FS_Interval
  <2>3. QED
    BY <2>1, <2>2, FS_Subset
<1>5. /\ Cardinality(SortedAhead(i)) <= Cardinality(SortedAhead(j))
      /\ Cardinality(SortedAhead(i)) \in Nat /\ Cardinality(SortedAhead(j)) \in Nat
  BY <1>3, <1>4, FS_Subset, FS_CardinalityType
<1>6. ~showAll /\ ~(Cardinality(SortedAhead(i)) < MaxNodes)
  BY <1>1 DEF DisplayDests
<1>7. Cardinality(SortedAhead(j)) < MaxNodes
  BY <1>6 DEF DisplayDests
<1>8. QED
  BY <1>5, <1>6, <1>7, ProxyGraphAssumption

LEMMA NodesTell ==
    ASSUME SnapshotFits, OwnNodes, NEW i \in DisplayDests
    PROVE  LET n == AllDestNodes[i]
               drawn == NodeDrawn(n)
           IN  /\ (drawn.tier = "inner") = (drawn.ring > 0)
               /\ (drawn.icon = "globe") = (drawn.ring > 0)
               /\ \A e \in EdgesDrawn :
                    e.id = n.id => (EdgeDrawn(e) = "solid") = (drawn.ring > 0)
<1> DEFINE n == AllDestNodes[i]
           drawn == NodeDrawn(n)
<1>1. i \in 1..Len(graph) /\ n = graph[i]
  BY OwnRows DEF DisplayDests, SortedDests
<1>2. drawn.ring > 0 <=> n.active > 0
  BY <1>1, RowsTyped, RingTells DEF NodeDrawn
<1>3. (drawn.tier = "inner" <=> n.active > 0) /\ (drawn.icon = "globe" <=> n.active > 0)
  BY DEF NodeDrawn, TierOf, NodeIcon
<1>4. ASSUME NEW e \in EdgesDrawn, e.id = n.id PROVE EdgeDrawn(e) = "solid" <=> n.active > 0
  <2>1. PICK k \in 1..Len(graph) : e = graph[k]
    BY RowsTyped DEF EdgesDrawn, ToSet
  <2>2. k = i
    BY <1>1, <1>4, <2>1 DEF OwnNodes
  <2>3. QED
    BY <1>1, <2>1, <2>2 DEF EdgeDrawn
<1> HIDE DEF n, drawn
<1>5. (drawn.tier = "inner") = (drawn.ring > 0) /\ (drawn.icon = "globe") = (drawn.ring > 0)
  BY <1>2, <1>3
<1>6. \A e \in EdgesDrawn : e.id = n.id => (EdgeDrawn(e) = "solid") = (drawn.ring > 0)
  BY <1>2, <1>4
<1>7. QED
  BY <1>5, <1>6 DEF n, drawn

LEMMA PanelTells ==
    ASSUME SnapshotFits, OwnNodes, PanelShown
    PROVE  Cardinality(SelectedConnections) =
            IF NodeDrawn(SelectedNode).ring > 0 THEN NodeDrawn(SelectedNode).badge ELSE 0
<1>1. PICK i \in SelectedNodes : TRUE
  BY DEF PanelShown
<1>2. i \in 1..Len(graph) /\ AllDestNodes[i] = graph[i]
  BY OwnRows DEF SelectedNodes, DisplayDests, SortedDests
<1>3. ASSUME NEW k \in SelectedNodes PROVE k = i
  <2>1. k \in 1..Len(graph) /\ AllDestNodes[k] = graph[k]
    BY OwnRows DEF SelectedNodes, DisplayDests, SortedDests
  <2>2. QED
    BY <1>2, <2>1 DEF SelectedNodes, OwnNodes
<1>4. SelectedNodes \cap SortedAhead(i) = {}
  <2>1. AllDestNodes[i].active \in Nat /\ AllDestNodes[i].total \in Nat
    BY <1>2, RowsTyped DEF GraphRows
  <2>2. i \notin SortedAhead(i)
    BY <1>2, <2>1 DEF SortedAhead, Before
  <2>3. QED
    BY <1>3, <2>2
<1>5. SelectedNode = graph[i]
  BY <1>1, <1>2, <1>3, <1>4 DEF SelectedNode
<1>6. SelectedConnections = CountedThen(graph[i].dest)
  BY <1>5 DEF SelectedConnections, CountedThen
<1>7. Cardinality(SelectedConnections) = graph[i].active /\ graph[i].active \in Nat
  BY <1>2, <1>6, RowsTyped DEF SnapshotFits, RowTellsTruth, GraphRows
<1>8. NodeDrawn(graph[i]).ring > 0 <=> graph[i].active > 0
  BY <1>2, RowsTyped, RingTells DEF NodeDrawn
<1>9. graph[i].active > 0 => NodeDrawn(graph[i]).badge = graph[i].active
  BY DEF NodeDrawn
<1>10. QED
  BY <1>5, <1>7, <1>8, <1>9

--------------------------------------------------------------------------------
\* The variables of the tracker and of the graph keep their types: no counter goes
\* below zero or beyond the connections there were.
THEOREM ProxyGraphTypes == ProxyGraphSpec => []ProxyGraphTypeOK
<1>1. GraphInv => ProxyGraphTypeOK
  <2> SUFFICES ASSUME GraphInv PROVE ProxyGraphTypeOK
    OBVIOUS
  <2>1. Cardinality(Routed) \in Nat
    BY ProxyGraphAssumption, FS_CardinalityType
  <2>2. ASSUME NEW d \in Dests
        PROVE  destStats[d] \in [total : 0..Cardinality(Routed), active : 0..Cardinality(Routed)]
    <3>1. MadeTo(d) \subseteq Routed
      BY DEF MadeTo
    <3>2. Cardinality(MadeTo(d)) <= Cardinality(Routed)
      BY <3>1, ProxyGraphAssumption, FS_Subset
    <3>3. QED
      BY <2>1, <3>2, FewConnections DEF GraphInv, TrackerInv, TrackerTypes
  <2>3. destStats \in [Dests -> [total : 0..Cardinality(Routed), active : 0..Cardinality(Routed)]]
    BY <2>2 DEF GraphInv, TrackerInv, TrackerTypes
  <2>4. ASSUME NEW i \in 1..Len(graph) PROVE graph[i] \in GraphRow
    <3>1. graph[i] \in GraphRows
      BY RowsTyped DEF GraphInv
    <3>2. graph[i].active <= graph[i].total /\ graph[i].total <= Cardinality(Routed)
      BY DEF GraphInv, SnapshotFits, RowTellsTruth
    <3>3. /\ graph[i].active \in 0..Cardinality(Routed)
          /\ graph[i].total \in 0..Cardinality(Routed)
      BY <2>1, <3>1, <3>2 DEF GraphRows
    <3>4. QED
      BY <3>1, <3>3 DEF GraphRows, GraphRow
  <2>5. ToSet(snapshot.graph) \subseteq GraphRow
    BY <2>4, RowsTyped DEF GraphInv, ToSet, graph
  <2>6. QED
    BY <2>3, <2>5
    DEF GraphInv, TrackerInv, TrackerTypes, SnapshotFits, ViewFits, ProxyGraphTypeOK
<1>2. QED
  BY <1>1, GraphInvariant, PTL

\* The tracker counts as open to a destination the connections that are, however often
\* and from whichever side each is closed, and never more than there were.
THEOREM TrackerCounts == ProxyGraphSpec => []CountersBalance
<1>1. TrackerInv => CountersBalance
  BY FewConnections DEF TrackerInv, TrackerTypes, CountersBalance, OpenTo
<1>2. QED
  BY InitTracker, TrackerStep, <1>1, PTL DEF ProxyGraphSpec

\* For any number of destinations and whatever nodes they share: the cut leaves out none
\* that is busier than one it keeps; and circle, icon, ring, edge, badge and panel agree
\* where no two of them share a node.
THEOREM GraphTells == ProxyGraphSpec => []GraphTellsTheCounts
<1>1. GraphInv => GraphTellsTheCounts
  <2> SUFFICES ASSUME GraphInv PROVE GraphTellsTheCounts
    OBVIOUS
  <2>1. \A i \in SortedDests \ DisplayDests, j \in DisplayDests :
            ~Before(AllDestNodes[i], AllDestNodes[j])
    BY CutKeepsTheBusiest DEF GraphInv
  <2>2. QED
    BY <2>1, NodesTell, PanelTells DEF GraphInv, GraphTellsTheCounts
<1>2. QED
  BY <1>1, GraphInvariant, PTL

--------------------------------------------------------------------------------
(*****************************************************************************)
(* The proxy forms: FormsInv.                                                *)
(*****************************************************************************)

ProxyRow == {Gone} \cup [type : {"socks5", "local"}, port : FormPorts, suggested : BOOLEAN]
FormCall ==
    [at : {"idle", "sent", "ok", "failed"}, type : {"none", "socks5", "local"},
     port : FormPorts \cup {0}, suggested : BOOLEAN, seen : SUBSET FormPorts,
     row : SUBSET ProxyIds]

\* A call asks for a row; a suggested port is none of those its list had in use.
CallsAsk ==
    /\ formCalls \in [FormCalls -> FormCall]
    /\ \A r \in FormCalls :
        LET call == formCalls[r]
        IN  /\ call.at # "idle" => call.type # "none" /\ call.port \in FormPorts
            /\ call.at \in {"sent", "failed"} => call.row = {}
            /\ call.suggested => call.type = "socks5" /\ call.port \notin call.seen

\* So is the port in a form that nobody has typed in, and the page's list is of bare rows.
FormFits ==
    /\ socksForm \in {FormClosed} \cup
            [open : {TRUE}, port : FormPorts, typed : BOOLEAN, waits : SUBSET FormCalls]
    /\ forwardOpen \in BOOLEAN
    /\ socksForm.open /\ ~socksForm.typed => socksForm.port \notin UsedPorts(rowsListed)

ProxyRowsFit ==
    /\ proxyRows \in [ProxyIds -> ProxyRow] /\ rowsListed \in [ProxyIds -> ProxyRow]
    /\ \A t \in ProxyIds : proxyRows[t].suggested => proxyRows[t].type = "socks5"

FormsInv == CallsAsk /\ FormFits /\ ProxyRowsFit /\ SuggestedPortsDiffer

--------------------------------------------------------------------------------
(* The suggestion *)

OpenForms == [open : {TRUE}, port : FormPorts, typed : BOOLEAN, waits : SUBSET FormCalls]
Forms == {FormClosed} \cup OpenForms

LEMMA OpenIsOpen ==
    ASSUME NEW form \in Forms, form.open
    PROVE  form \in OpenForms
<1>1. ~FormClosed.open
  BY DEF FormClosed
<1>2. QED
  BY <1>1 DEF Forms

LEMMA GoneIsARow ==
    Gone.type = "none" /\ Gone.suggested = FALSE /\ Gone.port = 0 /\ Gone \in ProxyRow
BY DEF Gone, ProxyRow

LEMMA PortNumbers ==
    /\ Cardinality(ProxyIds) \in Nat /\ FormPorts \subseteq Nat
    /\ FirstPort..(FirstPort + Cardinality(ProxyIds)) \subseteq FormPorts
<1>1. Cardinality(ProxyIds) \in Nat
  BY ProxyFormsAssumption, FS_CardinalityType
<1>2. FirstPort \in Nat /\ TypedPorts \subseteq Nat
  BY ProxyFormsAssumption
<1>3. FirstPort..(FirstPort + Cardinality(ProxyIds)) \subseteq Nat
  BY <1>1, <1>2
<1>4. QED
  BY <1>1, <1>2, <1>3 DEF FormPorts

\* The ports in use are no more than the proxies.
LEMMA PortsInUse ==
    ASSUME NEW rows \in [ProxyIds -> ProxyRow]
    PROVE  /\ IsFiniteSet(UsedPorts(rows))
           /\ Cardinality(UsedPorts(rows)) <= Cardinality(ProxyIds)
           /\ UsedPorts(rows) \subseteq FormPorts
<1> DEFINE T == {u \in ProxyIds : rows[u].type = "socks5"}
           f == [u \in T |-> rows[u].port]
<1>1. IsFiniteSet(T) /\ Cardinality(T) <= Cardinality(ProxyIds)
  BY ProxyFormsAssumption, FS_Subset
<1>2. f \in Surjection(T, UsedPorts(rows))
  BY DEF UsedPorts, Surjection
<1>3. IsFiniteSet(UsedPorts(rows)) /\ Cardinality(UsedPorts(rows)) <= Cardinality(T)
  BY <1>1, <1>2, FS_Surjection
<1>4. \A u \in T : rows[u].port \in FormPorts
  BY GoneIsARow DEF ProxyRow
<1>5. UsedPorts(rows) \subseteq FormPorts
  BY <1>4 DEF UsedPorts
<1>6. /\ Cardinality(T) \in Nat /\ Cardinality(ProxyIds) \in Nat
      /\ Cardinality(UsedPorts(rows)) \in Nat
  BY <1>1, <1>3, ProxyFormsAssumption, FS_CardinalityType
<1>7. QED
  BY <1>1, <1>3, <1>5, <1>6

\* Among one port more than there can be proxies a first one is free.
LEMMA SuggestsAFreePort ==
    ASSUME NEW rows \in [ProxyIds -> ProxyRow]
    PROVE  /\ NextSocksPort(rows) \in FormPorts
           /\ NextSocksPort(rows) \notin UsedPorts(rows)
<1> DEFINE n == Cardinality(ProxyIds)
           P == FirstPort..(FirstPort + n)
           F == P \ UsedPorts(rows)
<1>1. n \in Nat /\ FirstPort \in Nat
  BY PortNumbers, ProxyFormsAssumption
<1>2. F # {}
  <2> SUFFICES ASSUME P \subseteq UsedPorts(rows) PROVE FALSE
    OBVIOUS
  <2>1. Cardinality(P) <= Cardinality(UsedPorts(rows))
    BY PortsInUse, FS_Subset
  <2>2. Cardinality(P) = n + 1
    BY <1>1, FS_Interval
  <2>3. Cardinality(UsedPorts(rows)) \in Nat /\ Cardinality(UsedPorts(rows)) <= n
    BY PortsInUse, FS_CardinalityType
  <2>4. QED
    BY <1>1, <2>1, <2>2, <2>3
<1>3. F \subseteq Nat
  BY <1>1
<1>4. PICK p \in F : \A q \in F : ~(q < p)
  <2>1. PICK m \in F : \A q \in F : <<q, m>> \notin OpToRel(<, Nat)
    BY <1>2, <1>3, WFMin, NatLessThanWellFounded, Zenon
  <2>2. QED
    BY <1>3, <2>1, Zenon DEF OpToRel
<1>5. p \in P /\ p \notin UsedPorts(rows)
  OBVIOUS
<1>6. \A q \in FirstPort..(p - 1) : q \in UsedPorts(rows)
  BY <1>1, <1>3, <1>4
<1>7. NextSocksPort(rows) \in P /\ NextSocksPort(rows) \notin UsedPorts(rows)
  BY <1>5, <1>6 DEF NextSocksPort
<1>8. QED
  BY <1>7, PortNumbers

LEMMA FreshFits ==
    ASSUME NEW rows \in [ProxyIds -> ProxyRow]
    PROVE  FreshForm(rows) \in Forms /\ FreshForm(rows).port \notin UsedPorts(rows)
BY SuggestsAFreePort DEF FreshForm, Forms, OpenForms

\* Lists under one key have the same ports in use.
LEMMA OneKeyOnePorts ==
    ASSUME NEW rows \in [ProxyIds -> ProxyRow], NEW others \in [ProxyIds -> ProxyRow],
           SocksKey(rows) = SocksKey(others)
    PROVE  UsedPorts(rows) = UsedPorts(others)
<1>1. \A p : p \in UsedPorts(rows) <=> \E t \in ProxyIds : <<t, p>> \in SocksKey(rows)
  BY DEF UsedPorts, SocksKey
<1>2. \A p : p \in UsedPorts(others) <=> \E t \in ProxyIds : <<t, p>> \in SocksKey(others)
  BY DEF UsedPorts, SocksKey
<1>3. QED
  BY <1>1, <1>2

\* So the form that a list leaves alone still fits it.
LEMMA FormAfterFits ==
    ASSUME FormsInv, NEW rows \in [ProxyIds -> ProxyRow]
    PROVE  /\ FormAfter(rows) \in Forms
           /\ FormAfter(rows).open /\ ~FormAfter(rows).typed
                => FormAfter(rows).port \notin UsedPorts(rows)
<1>1. rowsListed \in [ProxyIds -> ProxyRow] /\ socksForm \in Forms
  BY DEF FormsInv, ProxyRowsFit, FormFits, Forms, OpenForms
<1>2. CASE FormAfter(rows) = FreshForm(rows)
  BY <1>2, FreshFits
<1>3. CASE FormAfter(rows) = socksForm
           /\ (socksForm.open => SocksKey(rows) = SocksKey(rowsListed))
  BY <1>1, <1>3, OneKeyOnePorts DEF FormsInv, FormFits
<1>4. QED
  BY <1>2, <1>3 DEF FormAfter

\* What the page knows of the rows: whose ports they are, not how they came to them.
LEMMA BareRows ==
    ASSUME NEW rows \in [ProxyIds -> ProxyRow]
    PROVE  /\ Bare(rows) \in [ProxyIds -> ProxyRow]
           /\ UsedPorts(Bare(rows)) = UsedPorts(rows)
<1>1. ASSUME NEW t \in ProxyIds
      PROVE  /\ Bare(rows)[t] \in ProxyRow
             /\ Bare(rows)[t].type = rows[t].type /\ Bare(rows)[t].port = rows[t].port
  <2>1. rows[t] \in ProxyRow /\ Bare(rows)[t] = [rows[t] EXCEPT !.suggested = FALSE]
    BY DEF Bare
  <2>2. CASE rows[t] = Gone
    <3>1. Gone \in [type : {"none"}, port : {0}, suggested : {FALSE}]
      BY DEF Gone
    <3>2. \A g \in [type : {"none"}, port : {0}, suggested : {FALSE}] :
            [g EXCEPT !.suggested = FALSE] = g
      OBVIOUS
    <3>3. [Gone EXCEPT !.suggested = FALSE] = Gone
      BY <3>1, <3>2
    <3>4. QED
      BY <2>1, <2>2, <3>3, GoneIsARow
  <2>3. CASE rows[t] # Gone
    BY <2>1, <2>3 DEF ProxyRow
  <2>4. QED
    BY <2>2, <2>3
<1>2. Bare(rows) \in [ProxyIds -> ProxyRow]
  BY <1>1 DEF Bare
<1>3. UsedPorts(Bare(rows)) = UsedPorts(rows)
  BY <1>1 DEF UsedPorts
<1>4. QED
  BY <1>2, <1>3

LEMMA IdleForm == FormIdle \in FormCall /\ FormIdle.at = "idle" /\ ~FormIdle.suggested
BY DEF FormIdle, FormCall

LEMMA InitForms == ProxyFormsInit => FormsInv
<1> SUFFICES ASSUME ProxyFormsInit PROVE FormsInv
  OBVIOUS
<1> USE DEF ProxyFormsInit
<1>1. \A r \in FormCalls : formCalls[r] = FormIdle
  OBVIOUS
<1>2. CallsAsk
  BY <1>1, IdleForm DEF CallsAsk
<1>3. FormFits
  BY DEF FormFits, FormClosed
<1>4. \A t \in ProxyIds : proxyRows[t] = Gone
  OBVIOUS
<1>5. ProxyRowsFit /\ SuggestedPortsDiffer
  BY <1>4, GoneIsARow DEF ProxyRowsFit, SuggestedPortsDiffer
<1>6. QED
  BY <1>2, <1>3, <1>5 DEF FormsInv

--------------------------------------------------------------------------------
(* The forms *)

LEMMA TogglesKeepForms ==
    ASSUME FormsInv,
           SocksFormToggled \/ ForwardFormToggled \/ \E p \in TypedPorts : PortTyped(p)
    PROVE  FormsInv'
<1> USE DEF FormsInv
<1>1. UNCHANGED <<proxyRows, rowsListed, formCalls>> /\ forwardOpen' \in BOOLEAN
  BY DEF SocksFormToggled, ForwardFormToggled, PortTyped, FormFits
<1>2. socksForm \in Forms /\ rowsListed \in [ProxyIds -> ProxyRow]
  BY DEF FormFits, ProxyRowsFit, Forms, OpenForms
<1>3. /\ socksForm' \in Forms
      /\ socksForm'.open /\ ~socksForm'.typed => socksForm'.port \notin UsedPorts(rowsListed)
  <2>1. CASE SocksFormToggled
    <3>1. FormClosed \in Forms /\ ~FormClosed.open
      BY DEF Forms, FormClosed
    <3>2. QED
      BY <1>2, <2>1, <3>1, FreshFits DEF SocksFormToggled
  <2>2. CASE ForwardFormToggled
    BY <1>2, <2>2 DEF ForwardFormToggled, FormFits
  <2>3. ASSUME NEW p \in TypedPorts, PortTyped(p)
        PROVE  socksForm' \in Forms /\ socksForm'.typed
    <3>1. p \in FormPorts
      BY DEF FormPorts
    <3>2. QED
      BY <1>2, <2>3, <3>1, OpenIsOpen DEF PortTyped, Forms, OpenForms
  <2>4. QED
    BY <2>1, <2>2, <2>3
<1>4. FormFits'
  BY <1>1, <1>3 DEF FormFits, Forms, OpenForms, UsedPorts
<1>5. QED
  BY <1>1, <1>4 DEF CallsAsk, ProxyRowsFit, SuggestedPortsDiffer

\* A call that asks, as CallsAsk has it, may take the place of another.
LEMMA CallsAskStill ==
    ASSUME CallsAsk, NEW r \in FormCalls, NEW call \in FormCall,
           formCalls' = [formCalls EXCEPT ![r] = call],
           call.at # "idle" => call.type # "none" /\ call.port \in FormPorts,
           call.at \in {"sent", "failed"} => call.row = {},
           call.suggested => call.type = "socks5" /\ call.port \notin call.seen
    PROVE  CallsAsk'
<1>1. /\ formCalls' \in [FormCalls -> FormCall] /\ formCalls'[r] = call
      /\ \A q \in FormCalls \ {r} : formCalls'[q] = formCalls[q]
  BY DEF CallsAsk
<1>2. QED
  BY <1>1 DEF CallsAsk

LEMMA SubmitsKeepForms ==
    ASSUME FormsInv, NEW r \in FormCalls,
           SubmitSocks(r) \/ \E p \in TypedPorts : SubmitForward(r, p)
    PROVE  FormsInv'
<1> USE DEF FormsInv
<1>1. UNCHANGED <<proxyRows, rowsListed, forwardOpen>>
  BY DEF SubmitSocks, SubmitForward
<1>2. socksForm \in Forms /\ rowsListed \in [ProxyIds -> ProxyRow]
  BY DEF FormFits, ProxyRowsFit, Forms, OpenForms
<1>3. CASE SubmitSocks(r)
  <2> DEFINE call == [at |-> "sent", type |-> "socks5", port |-> socksForm.port, row |-> {},
                     suggested |-> ~socksForm.typed,
                     seen |-> IF socksForm.typed THEN {} ELSE UsedPorts(rowsListed)]
  <2>1. socksForm.open /\ socksForm.port \in FormPorts /\ socksForm.typed \in BOOLEAN
    BY <1>2, <1>3, OpenIsOpen DEF SubmitSocks, OpenForms
  <2>2. UsedPorts(rowsListed) \subseteq FormPorts
    BY <1>2, PortsInUse
  <2>3. /\ call \in FormCall
        /\ call.at = "sent" /\ call.type = "socks5" /\ call.port = socksForm.port
        /\ call.row = {}
        /\ call.suggested => ~socksForm.typed /\ call.seen = UsedPorts(rowsListed)
    BY <2>1, <2>2 DEF FormCall
  <2>4. formCalls' = [formCalls EXCEPT ![r] = call]
    BY <1>3 DEF SubmitSocks, FormSends
  <2> HIDE DEF call
  <2>5. CallsAsk'
    BY <2>1, <2>3, <2>4, CallsAskStill DEF FormFits
  <2>6. /\ socksForm' \in Forms /\ socksForm'.open = socksForm.open
        /\ socksForm'.typed = socksForm.typed /\ socksForm'.port = socksForm.port
    BY <1>2, <1>3, <2>1, OpenIsOpen DEF SubmitSocks, Forms, OpenForms
  <2>7. FormFits'
    BY <1>1, <2>6 DEF FormFits, Forms, OpenForms, UsedPorts
  <2>8. QED
    BY <1>1, <2>5, <2>7 DEF ProxyRowsFit, SuggestedPortsDiffer
<1>4. ASSUME NEW p \in TypedPorts, SubmitForward(r, p) PROVE FormsInv'
  <2> DEFINE call == [FormIdle EXCEPT !.at = "sent", !.type = "local", !.port = p]
  <2>1. call \in FormCall /\ call.at = "sent" /\ call.type = "local" /\ call.port \in FormPorts
        /\ call.row = {} /\ ~call.suggested
    BY DEF FormIdle, FormCall, FormPorts
  <2>2. formCalls' = [formCalls EXCEPT ![r] = call]
    BY <1>4 DEF SubmitForward, FormSends
  <2> HIDE DEF call
  <2>3. CallsAsk'
    BY <2>1, <2>2, CallsAskStill
  <2>4. QED
    BY <1>1, <1>4, <2>3 DEF SubmitForward, FormFits, UsedPorts, ProxyRowsFit, SuggestedPortsDiffer
<1>5. QED
  BY <1>3, <1>4

--------------------------------------------------------------------------------
(* The daemon *)

\* A row that counts as suggested has a port that no SOCKS proxy has.
LEMMA RowCreatedKeepsForms ==
    ASSUME FormsInv, NEW r \in FormCalls, RowCreated(r)
    PROVE  FormsInv'
<1> USE DEF FormsInv, RowCreated
<1> DEFINE call == formCalls[r]
<1>1. /\ call \in FormCall /\ call.at = "sent" /\ call.type \in {"socks5", "local"}
      /\ call.port \in FormPorts /\ call.suggested \in BOOLEAN /\ call.row = {}
      /\ call.suggested => call.type = "socks5" /\ call.port \notin call.seen
  BY DEF CallsAsk, FormCall
<1>2. UNCHANGED <<rowsListed, socksForm, forwardOpen>>
  OBVIOUS
<1>3. FormFits'
  BY <1>2 DEF FormFits, UsedPorts
<1>4. CASE formCalls' = [formCalls EXCEPT ![r].at = "failed"] /\ UNCHANGED proxyRows
  <2> DEFINE new == [call EXCEPT !.at = "failed"]
  <2>1. /\ new \in FormCall /\ new.at = "failed" /\ new.type = call.type /\ new.port = call.port
        /\ new.suggested = call.suggested /\ new.seen = call.seen /\ new.row = call.row
    BY <1>1 DEF FormCall
  <2>2. formCalls' = [formCalls EXCEPT ![r] = new]
    BY <1>4
  <2> HIDE DEF new
  <2>3. CallsAsk'
    BY <1>1, <2>1, <2>2, CallsAskStill
  <2>4. QED
    BY <1>2, <1>3, <1>4, <2>3 DEF ProxyRowsFit, SuggestedPortsDiffer
<1>5. ASSUME NEW t \in ProxyIds,
             proxyRows' = [proxyRows EXCEPT ![t] =
                    [type |-> call.type, port |-> call.port,
                     suggested |-> call.suggested /\ call.seen = UsedPorts(proxyRows)]],
             formCalls' = [formCalls EXCEPT ![r].at = "ok", ![r].row = {t}]
      PROVE  FormsInv'
  <2> DEFINE new == [call EXCEPT !.at = "ok", !.row = {t}]
             row == [type |-> call.type, port |-> call.port,
                     suggested |-> call.suggested /\ call.seen = UsedPorts(proxyRows)]
  <2>1. /\ new \in FormCall /\ new.at = "ok" /\ new.type = call.type /\ new.port = call.port
        /\ new.suggested = call.suggested /\ new.seen = call.seen
    BY <1>1 DEF FormCall
  <2>2. formCalls' = [formCalls EXCEPT ![r] = new]
    BY <1>5 DEF CallsAsk
  <2>3. /\ row \in ProxyRow /\ row.type = call.type /\ row.port = call.port
        /\ row.suggested => call.suggested /\ call.seen = UsedPorts(proxyRows)
    BY <1>1 DEF ProxyRow
  <2>4. proxyRows' = [proxyRows EXCEPT ![t] = row]
    BY <1>5
  <2> HIDE DEF new, row
  <2>5. CallsAsk'
    BY <1>1, <2>1, <2>2, CallsAskStill
  <2>6. /\ proxyRows' \in [ProxyIds -> ProxyRow] /\ proxyRows'[t] = row
        /\ \A u \in ProxyIds \ {t} : proxyRows'[u] = proxyRows[u]
    BY <2>3, <2>4 DEF ProxyRowsFit
  <2>7. ProxyRowsFit'
    BY <1>1, <1>2, <2>3, <2>6 DEF ProxyRowsFit
  <2>8. ASSUME NEW u \in ProxyIds \ {t}, proxyRows[u].suggested, row.suggested
        PROVE  proxyRows[u].port # row.port
    <3>1. proxyRows[u].port \in UsedPorts(proxyRows)
      BY <2>8 DEF ProxyRowsFit, UsedPorts
    <3>2. QED
      BY <1>1, <2>3, <2>8, <3>1
  <2>9. SuggestedPortsDiffer'
    BY <2>6, <2>8 DEF SuggestedPortsDiffer
  <2>10. QED
    BY <1>3, <2>5, <2>7, <2>9
<1>6. QED
  BY <1>4, <1>5

LEMMA RowDeletedKeepsForms ==
    ASSUME FormsInv, NEW t \in ProxyIds, RowDeleted(t)
    PROVE  FormsInv'
<1> USE DEF FormsInv, RowDeleted
<1>1. /\ proxyRows' \in [ProxyIds -> ProxyRow] /\ proxyRows'[t] = Gone
      /\ \A u \in ProxyIds \ {t} : proxyRows'[u] = proxyRows[u]
  BY GoneIsARow DEF ProxyRowsFit
<1>2. ProxyRowsFit' /\ SuggestedPortsDiffer'
  BY <1>1, GoneIsARow DEF ProxyRowsFit, SuggestedPortsDiffer
<1>3. QED
  BY <1>2 DEF CallsAsk, FormFits, UsedPorts

--------------------------------------------------------------------------------
(* The page *)

LEMMA RowsReachPageKeepsForms ==
    ASSUME FormsInv, RowsReachPage
    PROVE  FormsInv'
<1> USE DEF FormsInv, RowsReachPage
<1>1. proxyRows \in [ProxyIds -> ProxyRow]
  BY DEF ProxyRowsFit
<1>2. rowsListed' \in [ProxyIds -> ProxyRow] /\ UsedPorts(rowsListed') = UsedPorts(proxyRows)
  BY <1>1, BareRows
<1>3. /\ socksForm' \in Forms
      /\ socksForm'.open /\ ~socksForm'.typed => socksForm'.port \notin UsedPorts(proxyRows)
  BY <1>1, FormAfterFits
<1>4. FormFits'
  BY <1>2, <1>3 DEF FormFits, Forms, OpenForms, UsedPorts
<1>5. QED
  BY <1>2, <1>4 DEF CallsAsk, ProxyRowsFit, SuggestedPortsDiffer

LEMMA FormAnsweredKeepsForms ==
    ASSUME FormsInv, NEW r \in FormCalls, FormAnswered(r)
    PROVE  FormsInv'
<1> USE DEF FormsInv, FormAnswered
<1> DEFINE call == formCalls[r]
<1>1. /\ call \in FormCall /\ call.at \in {"ok", "failed"} /\ call.type \in {"socks5", "local"}
      /\ call.port \in FormPorts /\ (call.at = "failed" => call.row = {})
  BY DEF CallsAsk, FormCall
<1>2. CallsAsk'
  BY IdleForm, CallsAskStill
<1>3. rowsListed \in [ProxyIds -> ProxyRow] /\ socksForm \in Forms /\ forwardOpen \in BOOLEAN
  BY DEF ProxyRowsFit, FormFits, Forms, OpenForms
<1>4. rowsListed' \in [ProxyIds -> ProxyRow]
  <2>1. [type |-> call.type, port |-> call.port, suggested |-> FALSE] \in ProxyRow
    BY <1>1 DEF ProxyRow
  <2>2. QED
    BY <1>3, <2>1
<1>5. call.at = "failed" => rowsListed' = rowsListed
  BY <1>1, <1>3, <1>4
<1>6. /\ socksForm' \in Forms
      /\ socksForm'.open /\ ~socksForm'.typed => socksForm'.port \notin UsedPorts(rowsListed')
  <2>1. CASE call.type = "local"
    BY <1>4, <2>1, FormAfterFits
  <2>2. CASE call.type # "local" /\ call.at = "ok"
    BY <2>2 DEF Forms, FormClosed
  <2>3. CASE call.type # "local" /\ call.at = "failed"
    <3>1. socksForm' = [socksForm EXCEPT !.waits = @ \ {r}]
      BY <2>3
    <3>2. /\ socksForm' \in Forms /\ socksForm'.port = socksForm.port
          /\ socksForm'.open = socksForm.open /\ socksForm'.typed = socksForm.typed
      <4>1. CASE socksForm = FormClosed
        <5>1. FormClosed \in [open : {FALSE}, port : {0}, typed : {FALSE}, waits : {{}}]
          BY DEF FormClosed
        <5>2. \A f \in [open : {FALSE}, port : {0}, typed : {FALSE}, waits : {{}}] :
                [f EXCEPT !.waits = @ \ {r}] = f
          OBVIOUS
        <5>3. QED
          BY <1>3, <3>1, <4>1, <5>1, <5>2
      <4>2. CASE socksForm # FormClosed
        BY <1>3, <3>1, <4>2 DEF Forms, OpenForms
      <4>3. QED
        BY <4>1, <4>2
    <3>3. QED
      BY <1>5, <2>3, <3>2 DEF FormFits
  <2>4. QED
    BY <1>1, <2>1, <2>2, <2>3
<1>7. forwardOpen' \in BOOLEAN /\ UNCHANGED proxyRows
  BY <1>3
<1>8. FormFits'
  BY <1>6, <1>7 DEF FormFits, Forms, OpenForms, UsedPorts
<1>9. QED
  BY <1>2, <1>4, <1>7, <1>8 DEF ProxyRowsFit, SuggestedPortsDiffer

--------------------------------------------------------------------------------
LEMMA FormsStep == FormsInv /\ [ProxyFormsNext]_proxyFormsVars => FormsInv'
<1> SUFFICES ASSUME FormsInv, [ProxyFormsNext]_proxyFormsVars PROVE FormsInv'
  OBVIOUS
<1>1. CASE UNCHANGED proxyFormsVars
  BY <1>1 DEF proxyFormsVars, FormsInv, CallsAsk, FormFits, UsedPorts, ProxyRowsFit,
              SuggestedPortsDiffer
<1>2. CASE ProxyFormsNext
  BY <1>2, TogglesKeepForms, SubmitsKeepForms, RowCreatedKeepsForms, RowDeletedKeepsForms,
     RowsReachPageKeepsForms, FormAnsweredKeepsForms
  DEF ProxyFormsNext
<1>3. QED
  BY <1>1, <1>2

LEMMA FormsInvariant == ProxyFormsSpec => []FormsInv
BY InitForms, FormsStep, PTL DEF ProxyFormsSpec

\* The variables of the proxy forms keep their types; ports stay in the range suggested
\* from or are typed.
THEOREM ProxyFormsTypes == ProxyFormsSpec => []ProxyFormsTypeOK
<1>1. FormsInv => ProxyFormsTypeOK
  <2> SUFFICES ASSUME FormsInv PROVE ProxyFormsTypeOK
    OBVIOUS
  <2>1. \A t \in ProxyIds : proxyRows[t] \in ProxyRow /\ rowsListed[t] \in ProxyRow
    BY DEF FormsInv, ProxyRowsFit
  <2>2. \A r \in FormCalls :
        /\ formCalls[r].at \in {"idle", "sent", "ok", "failed"}
        /\ formCalls[r].type \in {"none", "socks5", "local"}
        /\ formCalls[r].port \in FormPorts \cup {0}
        /\ formCalls[r].seen \subseteq FormPorts
        /\ formCalls[r].row \subseteq ProxyIds
    BY DEF FormsInv, CallsAsk, FormCall
  <2>3. QED
    BY <2>1, <2>2 DEF FormsInv, FormFits, ProxyRow, ProxyFormsTypeOK
<1>2. QED
  BY FormsInvariant, <1>1, PTL

\* Two proxies made with suggested ports from lists that still held have different ones.
THEOREM SuggestionsDiffer == ProxyFormsSpec => []SuggestedPortsDiffer
<1>1. FormsInv => SuggestedPortsDiffer
  BY DEF FormsInv
<1>2. QED
  BY FormsInvariant, <1>1, PTL
================================================================================
