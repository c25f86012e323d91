---------------------------- MODULE TerminalSession ----------------------------
(***************************************************************************)
(* One terminal session: the goroutine that pumps the shell's output into  *)
(* a buffer and to the attached page, the handlers of the pages' sockets,  *)
(* and the three places that tell a page of the end.  A pane opens a       *)
(* socket when it is shown and closes it when the user leaves the page;    *)
(* coming back opens the next one on the same session, while the handler   *)
(* of the last may not have noticed yet.                                   *)
(*                                                                         *)
(* A write to a socket takes two steps, its begin and its end.  Writes of  *)
(* two goroutines on one socket at a time may garble it: the WebSocket     *)
(* library allows one writer, and what it does with two (the browser gives *)
(* up, or the library panics and ends the daemon) is left as a socket on   *)
(* which nothing more need arrive.                                         *)
(***************************************************************************)
EXTENDS Integers, FiniteSets, Sequences

CONSTANTS
    SocketMax,    \* sockets the pages open on the session at most
    Watchers,     \* waitClose and, when the connection goes, the manager's loss handling
    OutputMax,    \* chunks the shell writes at most
    BufferMax     \* chunks the output buffer keeps (500 KB in the code)

ASSUME TerminalAssumption ==
    /\ SocketMax \in Nat
    /\ Watchers # {} /\ "pump" \notin Watchers
    /\ OutputMax \in Nat /\ BufferMax \in Nat \ {0}

VARIABLES
    (* TerminalSession and Manager.sessions *)
    outputBuf,    \* the chunks kept, numbered as the shell wrote them
    produced,     \* chunks read so far
    wsConn,       \* the page's socket
    wsMu,         \* who holds it: "free", "pump", "attach"
    closed,       \* Close was called
    inSessions,   \* Manager.sessions has it
    shellAlive,
    (* goroutines *)
    pump,         \* pumpOutput
    handler,      \* handleTerminalWS of each socket
    notice,       \* notifyDisconnected, by each of its callers
    noticeTo,     \* and the socket it has read
    (* the browser *)
    page,         \* each socket as its pane has it
    shown,        \* what each pane's terminal has written
    told,         \* the panes that say the session is disconnected
    (* history *)
    garbled,      \* sockets with two writers at a time
    displaced,    \* sockets whose place in wsConn another socket's handler took
    endSocket     \* the socket that was attached when the shell ended

terminalVars == <<outputBuf, produced, wsConn, wsMu, closed, inSessions, shellAlive, pump,
                  handler, notice, noticeTo, page, shown, told, garbled, displaced, endSocket>>

\* The sockets, numbered as the pages open them.
Sockets == 1..SocketMax
NoSocket == 0
Notifiers == {"pump"} \cup Watchers
AnySocket == Sockets \cup {NoSocket}
Chunks == 1..OutputMax

TypeOK ==
    /\ outputBuf \in Seq(Chunks) /\ Len(outputBuf) <= BufferMax
    /\ produced \in 0..OutputMax
    /\ wsConn \in AnySocket
    /\ wsMu \in {"free", "pump", "attach"}
    /\ closed \in BOOLEAN /\ inSessions \in BOOLEAN /\ shellAlive \in BOOLEAN
    /\ pump \in {"reading", "sending", "writing", "over"}
    /\ handler \in [Sockets -> {"none", "attaching", "buffering", "greeting", "serving", "gone"}]
    /\ notice \in [Notifiers -> {"idle", "due", "telling", "done"}]
    /\ noticeTo \in [Notifiers -> AnySocket]
    /\ page \in [Sockets -> {"new", "open", "left"}]
    /\ shown \in [Sockets -> Seq(Chunks)]
    /\ told \subseteq Sockets
    /\ garbled \subseteq Sockets /\ displaced \subseteq Sockets
    /\ endSocket \in AnySocket

Init ==
    /\ outputBuf = <<>> /\ produced = 0
    /\ wsConn = NoSocket /\ wsMu = "free"
    /\ closed = FALSE /\ inSessions = TRUE /\ shellAlive = TRUE
    /\ pump = "reading"
    /\ handler = [w \in Sockets |-> "none"]
    /\ notice = [n \in Notifiers |-> "idle"]
    /\ noticeTo = [n \in Notifiers |-> NoSocket]
    /\ page = [w \in Sockets |-> "new"]
    /\ shown = [w \in Sockets |-> <<>>]
    /\ told = {} /\ garbled = {} /\ displaced = {}
    /\ endSocket = NoSocket

sessionVars == <<outputBuf, produced, closed, inSessions, shellAlive>>
lockVars == <<wsConn, wsMu>>
noticeVars == <<notice, noticeTo>>
pageVars == <<page, shown, told>>

--------------------------------------------------------------------------------
(* Writers of a socket *)

\* Those that hold wsMu while they write, and those that do not.
LockedWriters(w) ==
    {x \in {"pump", "attach"} :
        \/ x = "pump" /\ pump = "writing" /\ wsConn = w
        \/ x = "attach" /\ handler[w] = "buffering"}

OtherWriters(w) ==
    {n \in Notifiers : notice[n] = "telling" /\ noticeTo[n] = w}
        \cup {x \in {"greeting"} : handler[w] = "greeting"}

\* A write to w begins; the write of another, if one is under way, may be hit.
WriteBegins(w) ==
    \/ UNCHANGED garbled
    \/ /\ LockedWriters(w) \cup OtherWriters(w) # {}
       /\ garbled' = garbled \cup {w}

\* Whether what is written to w arrives: told, the browser has closed the socket.
Listens(w) == w # NoSocket /\ page[w] = "open" /\ w \notin told
Arrives(w, reaches) == reaches => Listens(w)
MustArrive(w, reaches) == Listens(w) /\ w \notin garbled => reaches

--------------------------------------------------------------------------------
(* The shell and its output *)

\* writeToClient, first half, as it would be if no chunk went.
PumpReadsKeepingAll ==
    /\ pump = "reading" /\ ~closed /\ shellAlive
    /\ produced < OutputMax
    /\ produced' = produced + 1
    /\ outputBuf' = Append(outputBuf, produced + 1)
    /\ pump' = "sending"
    /\ UNCHANGED <<lockVars, closed, inSessions, shellAlive, handler, noticeVars, pageVars,
                   garbled, displaced, endSocket>>

\* writeToClient, first half: the chunk is kept, the oldest ones go.
PumpReads ==
    /\ pump = "reading" /\ ~closed /\ shellAlive
    /\ produced < OutputMax
    /\ produced' = produced + 1
    /\ LET kept == Append(outputBuf, produced + 1)
       IN  outputBuf' = IF Len(kept) > BufferMax THEN Tail(kept) ELSE kept
    /\ pump' = "sending"
    /\ UNCHANGED <<lockVars, closed, inSessions, shellAlive, handler, noticeVars, pageVars,
                   garbled, displaced, endSocket>>

\* writeToClient, second half: under wsMu, to the socket of that moment.
PumpSends ==
    /\ pump = "sending" /\ wsMu = "free"
    /\ IF wsConn = NoSocket
       THEN pump' = "reading" /\ UNCHANGED <<wsMu, garbled>>
       ELSE pump' = "writing" /\ wsMu' = "pump" /\ WriteBegins(wsConn)
    /\ UNCHANGED <<sessionVars, wsConn, handler, noticeVars, pageVars, displaced, endSocket>>

PumpSent ==
    /\ pump = "writing"
    /\ pump' = "reading"
    /\ wsMu' = "free"
    /\ \E reaches \in BOOLEAN :
        /\ Arrives(wsConn, reaches) /\ MustArrive(wsConn, reaches)
        /\ shown' = IF reaches THEN [shown EXCEPT ![wsConn] = Append(@, produced)] ELSE shown
    /\ UNCHANGED <<sessionVars, wsConn, handler, noticeVars, page, told, garbled,
                   displaced, endSocket>>

\* The read fails: the shell has ended.  After Close the loop ends without a word.
PumpEnds ==
    /\ pump = "reading" /\ (closed \/ ~shellAlive)
    /\ pump' = "over"
    /\ \/ notice' = [notice EXCEPT !["pump"] = "due"] /\ ~shellAlive
       \/ closed /\ UNCHANGED notice
    /\ UNCHANGED <<sessionVars, lockVars, handler, noticeTo, pageVars, garbled, displaced,
                   endSocket>>

\* The shell ends, by itself or with the connection; some watcher, each in time,
\* goes on to tell the page.
ShellEnds ==
    /\ shellAlive
    /\ shellAlive' = FALSE
    /\ endSocket' = wsConn
    /\ \E watch \in SUBSET Watchers \ {{}} :
        notice' = [n \in Notifiers |-> IF n \in watch THEN "due" ELSE notice[n]]
    /\ UNCHANGED <<outputBuf, produced, closed, inSessions, lockVars, pump, handler, noticeTo,
                   pageVars, garbled, displaced>>

--------------------------------------------------------------------------------
(* notifyDisconnected *)

\* notifyDisconnected as it would be if it detached the page before it read wsConn.
NoticeBeginsDetached(n) ==
    /\ notice[n] = "due" /\ wsMu = "free"
    /\ wsConn' = NoSocket
    /\ notice' = [notice EXCEPT ![n] = "done"]
    /\ UNCHANGED <<sessionVars, wsMu, pump, handler, noticeTo, pageVars, garbled, displaced,
                   endSocket>>

\* Under wsMu it reads wsConn, then writes to what it has read without the lock.
NoticeBegins(n) ==
    /\ notice[n] = "due" /\ wsMu = "free"
    /\ noticeTo' = [noticeTo EXCEPT ![n] = wsConn]
    /\ IF wsConn = NoSocket
       THEN notice' = [notice EXCEPT ![n] = "done"] /\ UNCHANGED garbled
       ELSE notice' = [notice EXCEPT ![n] = "telling"] /\ WriteBegins(wsConn)
    /\ UNCHANGED <<sessionVars, lockVars, pump, handler, pageVars, displaced, endSocket>>

\* The message and the close frame are written; the pane marks itself.
NoticeTold(n) ==
    /\ notice[n] = "telling"
    /\ notice' = [notice EXCEPT ![n] = "done"]
    /\ \E reaches \in BOOLEAN :
        /\ Arrives(noticeTo[n], reaches) /\ MustArrive(noticeTo[n], reaches)
        /\ told' = IF reaches THEN told \cup {noticeTo[n]} ELSE told
    /\ UNCHANGED <<sessionVars, lockVars, pump, handler, noticeTo, page, shown, garbled,
                   displaced, endSocket>>

--------------------------------------------------------------------------------
(* Pages come and go *)

\* initTerminal: a session that is gone closes the socket at once.
PageOpens(w) ==
    /\ page[w] = "new"
    /\ \A v \in 1..(w - 1) : page[v] = "left"
    /\ page' = [page EXCEPT ![w] = "open"]
    /\ IF inSessions
       THEN handler' = [handler EXCEPT ![w] = "attaching"] /\ UNCHANGED told
       ELSE told' = told \cup {w} /\ UNCHANGED handler
    /\ UNCHANGED <<sessionVars, lockVars, pump, noticeVars, shown, garbled, displaced, endSocket>>

\* The pane's cleanup, or a broken network, which the pane's onclose notes.
PageLeaves(w) ==
    /\ page[w] = "open"
    /\ page' = [page EXCEPT ![w] = "left"]
    /\ UNCHANGED <<sessionVars, lockVars, pump, handler, noticeVars, shown, told, garbled,
                   displaced, endSocket>>

\* The handler of w takes the place of another socket, if one has it.
Displaces(w) == displaced \cup ({wsConn} \ {w, NoSocket})

\* AttachWebSocket takes wsMu and begins to write the buffer.
AttachLocks(w) ==
    /\ handler[w] = "attaching" /\ wsMu = "free"
    /\ wsMu' = "attach"
    /\ handler' = [handler EXCEPT ![w] = "buffering"]
    /\ WriteBegins(w)
    /\ UNCHANGED <<sessionVars, wsConn, pump, noticeVars, pageVars, displaced, endSocket>>

\* AttachWebSocket as it would be if it let wsMu go between the buffer and wsConn.
AttachSetsLater(w) ==
    /\ handler[w] = "buffering"
    /\ \/ /\ wsMu = "attach"
          /\ wsMu' = "free"
          /\ shown' = [shown EXCEPT ![w] = @ \o outputBuf]
          /\ UNCHANGED <<handler, wsConn, displaced>>
       \/ /\ wsMu = "free"
          /\ handler' = [handler EXCEPT ![w] = "greeting"]
          /\ wsConn' = w
          /\ displaced' = Displaces(w)
          /\ UNCHANGED <<wsMu, shown>>
    /\ UNCHANGED <<sessionVars, pump, noticeVars, page, told, garbled, endSocket>>

\* AttachWebSocket as it would be if it left a socket that is attached in its place.
AttachSetsIfFree(w) ==
    /\ handler[w] = "buffering"
    /\ handler' = [handler EXCEPT ![w] = "greeting"]
    /\ wsConn' = IF wsConn = NoSocket THEN w ELSE wsConn
    /\ wsMu' = "free"
    /\ shown' = [shown EXCEPT ![w] = @ \o outputBuf]
    /\ UNCHANGED <<sessionVars, pump, noticeVars, page, told, garbled, displaced, endSocket>>

\* AttachWebSocket has written the buffer and sets wsConn.
AttachSets(w) ==
    /\ handler[w] = "buffering"
    /\ handler' = [handler EXCEPT ![w] = "greeting"]
    /\ wsConn' = w
    /\ wsMu' = "free"
    /\ \E reaches \in BOOLEAN :
        /\ Arrives(w, reaches) /\ MustArrive(w, reaches)
        /\ shown' = IF reaches THEN [shown EXCEPT ![w] = @ \o outputBuf] ELSE shown
    /\ displaced' = Displaces(w)
    /\ UNCHANGED <<sessionVars, pump, noticeVars, page, told, garbled, endSocket>>

\* The "connected" message is written, without wsMu.
GreetEnds(w) ==
    /\ handler[w] = "greeting"
    /\ handler' = [handler EXCEPT ![w] = "serving"]
    /\ UNCHANGED <<sessionVars, lockVars, pump, noticeVars, pageVars, garbled, displaced, endSocket>>

\* ReadMessage fails, the socket is closed: the deferred DetachWebSocket clears whatever wsConn is.
Detach(w) ==
    /\ handler[w] = "serving" /\ ~Listens(w) /\ wsMu = "free"
    /\ handler' = [handler EXCEPT ![w] = "gone"]
    /\ wsConn' = NoSocket
    /\ displaced' = Displaces(w)
    /\ UNCHANGED <<sessionVars, wsMu, pump, noticeVars, pageVars, garbled, endSocket>>

\* KillSession takes the session from the map; its Close detaches the page, under
\* wsMu, and ends the shell if that has not ended by itself.
KillSession ==
    /\ inSessions /\ wsMu = "free"
    /\ inSessions' = FALSE
    /\ closed' = TRUE
    /\ wsConn' = NoSocket
    /\ shellAlive' = FALSE
    /\ IF shellAlive
       THEN \E n \in Watchers : notice' = [notice EXCEPT ![n] = "due"]
       ELSE UNCHANGED notice
    /\ UNCHANGED <<outputBuf, produced, wsMu, pump, handler, noticeTo, pageVars, garbled,
                   displaced, endSocket>>

PumpNext == PumpReads \/ PumpSends \/ PumpSent \/ PumpEnds
NoticeNext(n) == NoticeBegins(n) \/ NoticeTold(n)
HandlerNext(w) == AttachLocks(w) \/ AttachSets(w) \/ GreetEnds(w) \/ Detach(w)

Next ==
    \/ PumpNext \/ ShellEnds \/ KillSession
    \/ \E n \in Notifiers : NoticeNext(n)
    \/ \E w \in Sockets : PageOpens(w) \/ PageLeaves(w) \/ HandlerNext(w)

Spec == Init /\ [][Next]_terminalVars

\* Goroutines that can go on are scheduled.
Fairness ==
    /\ WF_terminalVars(PumpNext)
    /\ \A n \in Notifiers : WF_terminalVars(NoticeNext(n))
    /\ \A w \in Sockets : WF_terminalVars(HandlerNext(w))

FairSpec == Spec /\ Fairness

--------------------------------------------------------------------------------
\* What an attached pane shows is the output up to the last chunk sent, without a
\* gap since its first; at most the chunk that was kept, but not sent, when its
\* socket was attached comes twice.
CatchUpHasNoGap ==
    \A w \in Sockets \ garbled :
        LET s == shown[w]
        IN  /\ wsConn = w /\ Listens(w) /\ pump = "reading" /\ produced > 0 =>
                    s # <<>> /\ s[Len(s)] = produced
            /\ \A i \in 1..(Len(s) - 1) : s[i + 1] \in {s[i], s[i] + 1}
            /\ Cardinality({i \in 1..(Len(s) - 1) : s[i + 1] = s[i]}) <= 1

\* A page that is attached stays attached until it leaves or the session is
\* killed, unless the handler of a page that left comes late.
AttachedUnlessDisplaced ==
    \A w \in Sockets :
        handler[w] \in {"greeting", "serving"} /\ Listens(w) /\ ~closed =>
            wsConn = w \/ w \in displaced

\* architecture.md: "Reopen browser -> reconnect WS -> receive buffer catch-up +
\* live output": a page that came back and has had the buffer gets the output.
ReopenedPageGetsOutput ==
    \A w \in Sockets : handler[w] = "serving" /\ Listens(w) /\ ~closed => wsConn = w

\* The page that is attached when the shell ends is told of it, unless it leaves,
\* its socket is garbled, another handler detaches it or the session is killed.
EndIsTold ==
    \A w \in Sockets : endSocket = w ~>
        w \in told \cup garbled \cup displaced \/ page[w] = "left" \/ closed

================================================================================
