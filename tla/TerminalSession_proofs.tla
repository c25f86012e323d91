------------------------- MODULE TerminalSession_proofs -------------------------
(***************************************************************************)
(* Types, CatchUpHasNoGap and AttachedUnlessDisplaced of a session, for    *)
(* any number of sockets, any output and any length of the buffer.         *)
(***************************************************************************)
EXTENDS TerminalSession, FiniteSetTheorems, TLAPS

\* wsMu is held by the pump while it writes and by the one handler that writes the buffer.
LockInv ==
    /\ pump = "writing" <=> wsMu = "pump"
    /\ pump = "writing" => wsConn # NoSocket
    /\ \A w \in Sockets : handler[w] = "buffering" => wsMu = "attach"
    /\ \A v, w \in Sockets : handler[v] = "buffering" /\ handler[w] = "buffering" => v = w

\* The buffer is the end of the output, and not empty once there is some.
BufferInv ==
    /\ \A i \in 1..Len(outputBuf) : outputBuf[i] = produced - Len(outputBuf) + i
    /\ produced > 0 => Len(outputBuf) > 0
    /\ produced = 0 => Len(outputBuf) = 0
    /\ pump \in {"sending", "writing"} => produced > 0

\* A socket whose handler has not written the buffer yet shows nothing and is not attached.
FreshInv ==
    \A w \in Sockets :
        /\ page[w] = "new" => handler[w] = "none"
        /\ handler[w] \in {"none", "attaching", "buffering"} => shown[w] = <<>> /\ wsConn # w

Repeats(s) == {i \in 1..(Len(s) - 1) : s[i + 1] = s[i]}
RepeatsOnce(s) ==
    /\ \A i \in 1..(Len(s) - 1) : s[i + 1] \in {s[i], s[i] + 1}
    /\ \A i, j \in Repeats(s) : i = j

\* What an attached pane has: everything, or everything but the chunk in the pump's
\* hand; it may have that one already, out of the buffer, but then no other twice.
UpToDate(s) == IF produced = 0 THEN s = <<>> ELSE s # <<>> /\ s[Len(s)] = produced
OneBehind(s) ==
    \/ s # <<>> /\ s[Len(s)] = produced /\ Repeats(s) = {}
    \/ s # <<>> /\ s[Len(s)] = produced - 1
    \/ s = <<>> /\ produced = 1

ShownInv ==
    \A w \in Sockets \ garbled :
        /\ RepeatsOnce(shown[w])
        /\ wsConn = w /\ Listens(w) =>
            /\ pump = "reading" => UpToDate(shown[w])
            /\ pump \in {"sending", "writing"} => OneBehind(shown[w])

SessionInv ==
    TypeOK /\ LockInv /\ BufferInv /\ FreshInv /\ ShownInv /\ AttachedUnlessDisplaced

--------------------------------------------------------------------------------
(* Sequences of chunks *)

LEMMA SocketsNat == SocketMax \in Nat /\ NoSocket \notin Sockets /\ Sockets \subseteq Nat
  BY TerminalAssumption DEF Sockets, NoSocket

LEMMA EmptyRepeatsOnce == RepeatsOnce(<<>>) /\ Repeats(<<>>) = {}
  BY DEF RepeatsOnce, Repeats

\* A stretch of the output has no gap and no repetition.
LEMMA StretchRepeatsNothing ==
  ASSUME NEW s \in Seq(Chunks), NEW k \in Int, \A i \in 1..Len(s) : s[i] = k + i
  PROVE  RepeatsOnce(s) /\ Repeats(s) = {}
<1>1. \A i \in 1..(Len(s) - 1) : s[i + 1] = s[i] + 1 /\ s[i] \in Int
  OBVIOUS
<1>2. Repeats(s) = {}
  BY <1>1 DEF Repeats
<1>3. QED
  BY <1>1, <1>2 DEF RepeatsOnce

LEMMA AppendEnds ==
  ASSUME NEW s \in Seq(Chunks), NEW x \in Chunks
  PROVE  Append(s, x) # <<>> /\ Append(s, x)[Len(Append(s, x))] = x
<1>1. Len(Append(s, x)) = Len(s) + 1 /\ Len(s) \in Nat /\ Append(s, x)[Len(s) + 1] = x
  OBVIOUS
<1>2. Append(s, x) # <<>>
  BY <1>1
<1>3. QED
  BY <1>1, <1>2

\* One more chunk, the next one or the last one again if none came twice so far.
LEMMA AppendRepeatsOnce ==
  ASSUME NEW s \in Seq(Chunks), RepeatsOnce(s), NEW x \in Chunks,
         \/ s # <<>> /\ s[Len(s)] = x /\ Repeats(s) = {}
         \/ s # <<>> /\ s[Len(s)] = x - 1
         \/ s = <<>>
  PROVE  RepeatsOnce(Append(s, x))
<1> DEFINE t == Append(s, x)
<1>1. /\ Len(t) = Len(s) + 1 /\ Len(s) \in Nat
      /\ \A i \in 1..Len(s) : t[i] = s[i]
      /\ t[Len(s) + 1] = x
  OBVIOUS
<1>2. x \in Int /\ \A i \in 1..Len(s) : s[i] \in Int
  BY TerminalAssumption DEF Chunks
<1> SUFFICES RepeatsOnce(t)
  OBVIOUS
<1> HIDE DEF t
<1>3. CASE s = <<>>
  BY <1>1, <1>3 DEF RepeatsOnce, Repeats
<1>4. CASE s # <<>>
  <2>1. Len(s) > 0
    BY <1>4
  <2>2. \A i \in 1..(Len(s) - 1) : t[i + 1] = s[i + 1] /\ t[i] = s[i]
    BY <1>1
  <2>3. t[Len(s)] = s[Len(s)]
    BY <1>1, <2>1
  <2>4. \A i \in 1..(Len(t) - 1) : t[i + 1] \in {t[i], t[i] + 1}
    <3> SUFFICES ASSUME NEW i \in 1..(Len(t) - 1) PROVE t[i + 1] \in {t[i], t[i] + 1}
      OBVIOUS
    <3>1. CASE i = Len(s)
      BY <1>1, <1>2, <1>4, <2>1, <2>3, <3>1
    <3>2. CASE i # Len(s)
      BY <1>1, <2>2, <3>2 DEF RepeatsOnce
    <3>3. QED
      BY <3>1, <3>2
  <2>5. \A i \in Repeats(t) : i \in Repeats(s) \/ (i = Len(s) /\ s[Len(s)] = x)
    <3> SUFFICES ASSUME NEW i \in Repeats(t)
                 PROVE  i \in Repeats(s) \/ (i = Len(s) /\ s[Len(s)] = x)
      OBVIOUS
    <3>1. i \in 1..Len(s) /\ t[i + 1] = t[i]
      BY <1>1 DEF Repeats
    <3>2. CASE i = Len(s)
      BY <1>1, <2>3, <3>1, <3>2
    <3>3. CASE i # Len(s)
      BY <1>1, <2>2, <3>1, <3>3 DEF Repeats
    <3>4. QED
      BY <3>2, <3>3
  <2>6. s[Len(s)] = x => Repeats(s) = {}
    BY <1>2, <1>4, <2>1
  <2>7. \A i, j \in Repeats(t) : i = j
    BY <2>5, <2>6 DEF RepeatsOnce
  <2>8. QED
    BY <2>4, <2>7 DEF RepeatsOnce
<1>5. QED
  BY <1>3, <1>4

LEMMA InitSession == Init => SessionInv
<1> SUFFICES ASSUME Init PROVE SessionInv
  OBVIOUS
<1> USE DEF Init
<1>1. TypeOK
  <2>1. outputBuf \in Seq(Chunks) /\ Len(outputBuf) <= BufferMax /\ produced \in 0..OutputMax
    BY TerminalAssumption
  <2>2. shown \in [Sockets -> Seq(Chunks)]
    OBVIOUS
  <2>3. noticeTo \in [Notifiers -> AnySocket] /\ wsConn \in AnySocket /\ endSocket \in AnySocket
    BY DEF AnySocket
  <2>4. /\ handler \in [Sockets -> {"none", "attaching", "buffering", "greeting", "serving", "gone"}]
        /\ notice \in [Notifiers -> {"idle", "due", "telling", "done"}]
        /\ page \in [Sockets -> {"new", "open", "left"}]
    OBVIOUS
  <2>5. QED
    BY <2>1, <2>2, <2>3, <2>4 DEF TypeOK
<1>2. LockInv /\ FreshInv /\ BufferInv
  BY SocketsNat DEF LockInv, FreshInv, BufferInv
<1>3. ShownInv /\ AttachedUnlessDisplaced
  BY EmptyRepeatsOnce DEF ShownInv, AttachedUnlessDisplaced, Listens
<1>4. QED
  BY <1>1, <1>2, <1>3 DEF SessionInv

--------------------------------------------------------------------------------
(* What the steps that neither read nor send a chunk leave of the invariant *)

LEMMA BufferKept ==
  ASSUME BufferInv, UNCHANGED <<outputBuf, produced>>,
         pump' \in {"sending", "writing"} => pump \in {"sending", "writing"}
  PROVE  BufferInv'
  BY DEF BufferInv

LEMMA ShownKept ==
  ASSUME ShownInv, UNCHANGED <<outputBuf, produced, shown>>, garbled \subseteq garbled',
         \A w \in Sockets : wsConn' = w /\ Listens(w)' => wsConn = w /\ Listens(w),
         \/ UNCHANGED pump \/ pump' = "over"
         \/ pump = "sending" /\ pump' = "writing"
         \/ pump = "sending" /\ wsConn' = NoSocket
  PROVE  ShownInv'
<1>1. \A w \in Sockets : UpToDate(shown[w])' = UpToDate(shown[w])
  BY DEF UpToDate
<1>2. \A w \in Sockets : OneBehind(shown[w])' = OneBehind(shown[w])
  BY DEF OneBehind
<1>3. \A w \in Sockets : shown'[w] = shown[w]
  OBVIOUS
<1>4. QED
  BY <1>1, <1>2, <1>3, SocketsNat DEF ShownInv

LEMMA AttachedKept ==
  ASSUME AttachedUnlessDisplaced,
         \A w \in Sockets : Listens(w)' => Listens(w),
         \A w \in Sockets : handler'[w] \in {"greeting", "serving"} =>
                                handler[w] \in {"greeting", "serving"},
         closed => closed', displaced \subseteq displaced',
         closed' \/ UNCHANGED wsConn
  PROVE  AttachedUnlessDisplaced'
  BY DEF AttachedUnlessDisplaced

LEMMA WriteGarbles ==
  ASSUME NEW w \in Sockets, garbled \subseteq Sockets, WriteBegins(w)
  PROVE  garbled \subseteq garbled' /\ garbled' \subseteq Sockets
  BY DEF WriteBegins

--------------------------------------------------------------------------------
(* The pump *)

LEMMA PumpReadsKeeps ==
  ASSUME SessionInv, PumpReads
  PROVE  SessionInv'
<1> DEFINE kept == Append(outputBuf, produced + 1)
<1>0. /\ outputBuf \in Seq(Chunks) /\ Len(outputBuf) \in Nat /\ Len(outputBuf) <= BufferMax
      /\ produced \in 0..OutputMax /\ produced + 1 \in Chunks
      /\ BufferMax \in Nat \ {0} /\ OutputMax \in Nat
  BY TerminalAssumption DEF SessionInv, TypeOK, PumpReads, Chunks
<1>1. /\ kept \in Seq(Chunks) /\ Len(kept) = Len(outputBuf) + 1
      /\ \A i \in 1..Len(kept) : kept[i] = produced + 1 - Len(kept) + i
  BY <1>0 DEF SessionInv, BufferInv
<1>2. outputBuf' = IF Len(kept) > BufferMax THEN Tail(kept) ELSE kept
  BY DEF PumpReads
<1> HIDE DEF kept
<1>3. /\ outputBuf' \in Seq(Chunks) /\ Len(outputBuf') <= BufferMax /\ Len(outputBuf') > 0
      /\ \A i \in 1..Len(outputBuf') : outputBuf'[i] = produced + 1 - Len(outputBuf') + i
  <2>1. CASE Len(kept) > BufferMax
    <3>1. /\ Tail(kept) \in Seq(Chunks) /\ Len(Tail(kept)) = Len(kept) - 1
          /\ \A i \in 1..(Len(kept) - 1) : Tail(kept)[i] = kept[i + 1]
      BY <1>0, <1>1, <2>1
    <3>2. /\ outputBuf' = Tail(kept) /\ Len(outputBuf') = Len(kept) - 1
          /\ Len(kept) \in Nat
      BY <1>0, <1>1, <1>2, <2>1, <3>1
    <3>3. Len(outputBuf') <= BufferMax /\ Len(outputBuf') > 0
      BY <1>0, <1>1, <2>1, <3>2
    <3>4. \A i \in 1..Len(outputBuf') : outputBuf'[i] = produced + 1 - Len(outputBuf') + i
      <4> SUFFICES ASSUME NEW i \in 1..Len(outputBuf')
                   PROVE  outputBuf'[i] = produced + 1 - Len(outputBuf') + i
        OBVIOUS
      <4>1. outputBuf'[i] = kept[i + 1] /\ i + 1 \in 1..Len(kept)
        BY <3>1, <3>2
      <4>2. kept[i + 1] = produced + 1 - Len(kept) + (i + 1)
        BY <1>1, <4>1
      <4>3. produced + 1 - Len(kept) + (i + 1) = produced + 1 - Len(outputBuf') + i
        <5>1. /\ produced \in Int /\ Len(kept) \in Int
              /\ Len(outputBuf') \in Int /\ Len(outputBuf') = Len(kept) - 1
          BY <1>0, <3>1, <3>2
        <5>2. i \in Int
          BY <5>1
        <5>3. \A a, b, c, d \in Int : c = b - 1 => a + 1 - b + (d + 1) = a + 1 - c + d
          OBVIOUS
        <5>4. QED
          BY <5>1, <5>2, <5>3
      <4>4. QED
        BY <4>1, <4>2, <4>3
    <3>5. QED
      BY <3>1, <3>2, <3>3, <3>4
  <2>2. CASE ~(Len(kept) > BufferMax)
    <3>1. outputBuf' = kept
      BY <1>2, <2>2
    <3>2. Len(kept) \in Nat /\ Len(kept) <= BufferMax /\ Len(kept) > 0
      BY <1>0, <1>1, <2>2
    <3>3. QED
      BY <1>1, <3>1, <3>2, Zenon
  <2>3. QED
    BY <2>1, <2>2
<1>4. TypeOK'
  BY <1>0, <1>3 DEF PumpReads, SessionInv, TypeOK, lockVars, noticeVars, pageVars, Chunks
<1>5. LockInv' /\ FreshInv' /\ AttachedUnlessDisplaced'
  BY DEF PumpReads, SessionInv, LockInv, FreshInv, AttachedUnlessDisplaced, Listens,
         lockVars, noticeVars, pageVars
<1>6. BufferInv'
  <2>1. produced' = produced + 1 /\ produced' > 0 /\ produced' # 0
    BY <1>0 DEF PumpReads
  <2>2. \A i \in 1..Len(outputBuf') : outputBuf'[i] = produced' - Len(outputBuf') + i
    <3>1. produced \in Int /\ Len(outputBuf') \in Int
      BY <1>0, <1>3
    <3>2. \A a, b, c \in Int : a + 1 - b + c = (a + 1) - b + c
      OBVIOUS
    <3>3. QED
      BY <1>3, <2>1, <3>1, <3>2
  <2>3. QED
    BY <1>3, <2>1, <2>2 DEF BufferInv
<1>7. ShownInv'
  <2> SUFFICES ASSUME NEW w \in Sockets \ garbled', wsConn' = w /\ Listens(w)'
               PROVE  OneBehind(shown[w])'
    BY DEF PumpReads, SessionInv, ShownInv, lockVars, pageVars
  <2>1. UpToDate(shown[w]) /\ shown'[w] = shown[w] /\ produced' = produced + 1
    BY DEF PumpReads, SessionInv, ShownInv, Listens, lockVars, pageVars
  <2>2. QED
    BY <1>0, <2>1 DEF UpToDate, OneBehind
<1>8. QED
  BY <1>4, <1>5, <1>6, <1>7 DEF SessionInv

LEMMA PumpSendsKeeps ==
  ASSUME SessionInv, PumpSends
  PROVE  SessionInv'
<1>1. /\ UNCHANGED <<sessionVars, wsConn, handler, noticeVars, pageVars, displaced, endSocket>>
      /\ pump = "sending" /\ wsMu = "free"
      /\ \/ wsConn = NoSocket /\ pump' = "reading" /\ UNCHANGED <<wsMu, garbled>>
         \/ wsConn # NoSocket /\ pump' = "writing" /\ wsMu' = "pump"
  BY DEF PumpSends
<1>2. garbled \subseteq garbled' /\ garbled' \subseteq Sockets
  BY <1>1, WriteGarbles DEF PumpSends, SessionInv, TypeOK, AnySocket
<1>3. TypeOK'
  BY <1>1, <1>2 DEF SessionInv, TypeOK, sessionVars, noticeVars, pageVars
<1>4. LockInv'
  BY <1>1 DEF SessionInv, LockInv
<1>5. FreshInv'
  BY <1>1 DEF SessionInv, FreshInv, pageVars
<1>6. AttachedUnlessDisplaced'
  BY <1>1 DEF SessionInv, AttachedUnlessDisplaced, Listens, pageVars, sessionVars
<1>7. BufferInv'
  BY <1>1, BufferKept DEF SessionInv, sessionVars
<1>8. ShownInv'
  BY <1>1, <1>2, ShownKept DEF SessionInv, Listens, sessionVars, pageVars
<1>9. QED
  BY <1>3, <1>4, <1>5, <1>6, <1>7, <1>8 DEF SessionInv

LEMMA PumpSentKeeps ==
  ASSUME SessionInv, PumpSent
  PROVE  SessionInv'
<1>1. /\ UNCHANGED <<sessionVars, wsConn, handler, noticeVars, page, told, garbled,
                     displaced, endSocket>>
      /\ pump = "writing" /\ pump' = "reading" /\ wsMu' = "free" /\ wsMu = "pump"
  BY DEF PumpSent, SessionInv, LockInv
<1>2. wsConn \in Sockets /\ produced \in Chunks /\ produced > 0
  BY <1>1, TerminalAssumption DEF SessionInv, LockInv, BufferInv, TypeOK, AnySocket, Chunks
<1>3. PICK reaches \in BOOLEAN :
        /\ Arrives(wsConn, reaches) /\ MustArrive(wsConn, reaches)
        /\ shown' = IF reaches THEN [shown EXCEPT ![wsConn] = Append(@, produced)] ELSE shown
  BY DEF PumpSent
<1>4. shown \in [Sockets -> Seq(Chunks)]
  BY DEF SessionInv, TypeOK
<1>5. /\ shown' \in [Sockets -> Seq(Chunks)]
      /\ \A w \in Sockets : w # wsConn => shown'[w] = shown[w]
      /\ shown'[wsConn] = IF reaches THEN Append(shown[wsConn], produced) ELSE shown[wsConn]
  BY <1>2, <1>3, <1>4
<1>6. TypeOK'
  BY <1>1, <1>5 DEF SessionInv, TypeOK, sessionVars, noticeVars
<1>7. LockInv'
  BY <1>1 DEF SessionInv, LockInv
<1>8. FreshInv'
  BY <1>1, <1>2, <1>5 DEF SessionInv, FreshInv
<1>9. AttachedUnlessDisplaced'
  BY <1>1 DEF SessionInv, AttachedUnlessDisplaced, Listens, sessionVars
<1>10. BufferInv'
  BY <1>1, BufferKept DEF SessionInv, sessionVars
<1>11. ShownInv'
  <2> SUFFICES ASSUME NEW w \in Sockets \ garbled'
               PROVE  /\ RepeatsOnce(shown'[w])
                      /\ wsConn' = w /\ Listens(w)' => UpToDate(shown[w])'
    BY <1>1 DEF ShownInv
  <2>1. w \notin garbled /\ (Listens(w)' <=> Listens(w))
    BY <1>1 DEF Listens
  <2>2. CASE w # wsConn
    BY <1>1, <1>5, <2>1, <2>2 DEF SessionInv, ShownInv
  <2>3. CASE w = wsConn /\ ~reaches
    <3>1. ~Listens(w)
      BY <1>3, <2>1, <2>3 DEF MustArrive
    <3>2. QED
      BY <1>5, <2>1, <2>3, <3>1 DEF SessionInv, ShownInv
  <2>4. CASE w = wsConn /\ reaches
    <3>1. Listens(w) /\ OneBehind(shown[w]) /\ RepeatsOnce(shown[w])
      BY <1>1, <1>3, <2>1, <2>4 DEF Arrives, SessionInv, ShownInv
    <3>2. RepeatsOnce(Append(shown[w], produced))
      BY <1>2, <1>4, <3>1, AppendRepeatsOnce DEF OneBehind
    <3>3. shown'[w] = Append(shown[w], produced)
      BY <1>5, <2>4
    <3>4. /\ Append(shown[w], produced) # <<>>
          /\ Append(shown[w], produced)[Len(Append(shown[w], produced))] = produced
      <4>1. shown[w] \in Seq(Chunks)
        BY <1>4
      <4>2. QED
        BY <1>2, <4>1, AppendEnds
    <3>5. UpToDate(shown[w])'
      BY <1>1, <1>2, <3>3, <3>4 DEF UpToDate, sessionVars
    <3>6. QED
      BY <3>2, <3>3, <3>5
  <2>5. QED
    BY <2>2, <2>3, <2>4
<1>12. QED
  BY <1>6, <1>7, <1>8, <1>9, <1>10, <1>11 DEF SessionInv

LEMMA PumpEndsKeeps ==
  ASSUME SessionInv, PumpEnds
  PROVE  SessionInv'
<1>1. /\ UNCHANGED <<sessionVars, lockVars, handler, noticeTo, pageVars, garbled, displaced,
                     endSocket>>
      /\ pump = "reading" /\ pump' = "over"
  BY DEF PumpEnds
<1>2. TypeOK'
  <2>1. notice' \in [Notifiers -> {"idle", "due", "telling", "done"}]
    BY DEF PumpEnds, SessionInv, TypeOK
  <2>2. QED
    BY <1>1, <2>1 DEF SessionInv, TypeOK, sessionVars, lockVars, pageVars
<1>3. LockInv' /\ FreshInv'
  BY <1>1 DEF SessionInv, LockInv, FreshInv, lockVars, pageVars
<1>4. BufferInv'
  BY <1>1, BufferKept DEF SessionInv, sessionVars
<1>5. ShownInv'
  BY <1>1, ShownKept DEF SessionInv, Listens, sessionVars, lockVars, pageVars
<1>6. AttachedUnlessDisplaced'
  BY <1>1 DEF SessionInv, AttachedUnlessDisplaced, Listens, sessionVars, lockVars, pageVars
<1>7. QED
  BY <1>2, <1>3, <1>4, <1>5, <1>6 DEF SessionInv

--------------------------------------------------------------------------------
(* The end of the shell, the notices, and a kill *)

LEMMA ShellEndsKeeps ==
  ASSUME SessionInv, ShellEnds
  PROVE  SessionInv'
<1>1. /\ UNCHANGED <<outputBuf, produced, closed, inSessions, lockVars, pump, handler,
                     noticeTo, pageVars, garbled, displaced>>
      /\ shellAlive' = FALSE /\ endSocket' = wsConn
  BY DEF ShellEnds
<1>2. TypeOK'
  <2>1. notice' \in [Notifiers -> {"idle", "due", "telling", "done"}]
    BY DEF ShellEnds, SessionInv, TypeOK
  <2>2. QED
    BY <1>1, <2>1 DEF SessionInv, TypeOK, lockVars, pageVars
<1>3. LockInv' /\ FreshInv'
  BY <1>1 DEF SessionInv, LockInv, FreshInv, lockVars, pageVars
<1>4. BufferInv'
  BY <1>1, BufferKept DEF SessionInv
<1>5. ShownInv'
  BY <1>1, ShownKept DEF SessionInv, Listens, lockVars, pageVars
<1>6. AttachedUnlessDisplaced'
  BY <1>1 DEF SessionInv, AttachedUnlessDisplaced, Listens, lockVars, pageVars
<1>7. QED
  BY <1>2, <1>3, <1>4, <1>5, <1>6 DEF SessionInv

LEMMA KillSessionKeeps ==
  ASSUME SessionInv, KillSession
  PROVE  SessionInv'
<1>1. /\ UNCHANGED <<outputBuf, produced, wsMu, pump, handler, noticeTo, pageVars, garbled,
                     displaced, endSocket>>
      /\ wsMu = "free" /\ wsConn' = NoSocket /\ closed' = TRUE
      /\ inSessions' = FALSE /\ shellAlive' = FALSE
  BY DEF KillSession
<1>2. TypeOK'
  <2>1. notice' \in [Notifiers -> {"idle", "due", "telling", "done"}]
    BY DEF KillSession, SessionInv, TypeOK
  <2>2. QED
    BY <1>1, <2>1 DEF SessionInv, TypeOK, AnySocket, pageVars
<1>3. LockInv'
  BY <1>1 DEF SessionInv, LockInv
<1>4. FreshInv'
  BY <1>1, SocketsNat DEF SessionInv, FreshInv, pageVars
<1>5. BufferInv'
  BY <1>1, BufferKept DEF SessionInv
<1>6. ShownInv'
  BY <1>1, SocketsNat, ShownKept DEF SessionInv, pageVars
<1>7. AttachedUnlessDisplaced'
  BY <1>1 DEF AttachedUnlessDisplaced
<1>8. QED
  BY <1>2, <1>3, <1>4, <1>5, <1>6, <1>7 DEF SessionInv

LEMMA NoticeBeginsKeeps ==
  ASSUME SessionInv, NEW n \in Notifiers, NoticeBegins(n)
  PROVE  SessionInv'
<1>1. /\ UNCHANGED <<sessionVars, lockVars, pump, handler, pageVars, displaced, endSocket>>
      /\ noticeTo' = [noticeTo EXCEPT ![n] = wsConn]
  BY DEF NoticeBegins
<1>2. garbled \subseteq garbled' /\ garbled' \subseteq Sockets
  BY WriteGarbles DEF NoticeBegins, SessionInv, TypeOK, AnySocket
<1>3. TypeOK'
  <2>1. notice' \in [Notifiers -> {"idle", "due", "telling", "done"}]
    BY DEF NoticeBegins, SessionInv, TypeOK
  <2>2. noticeTo' \in [Notifiers -> AnySocket]
    BY <1>1 DEF SessionInv, TypeOK
  <2>3. QED
    BY <1>1, <1>2, <2>1, <2>2 DEF SessionInv, TypeOK, sessionVars, lockVars, pageVars
<1>4. LockInv' /\ FreshInv'
  BY <1>1 DEF SessionInv, LockInv, FreshInv, lockVars, pageVars
<1>5. BufferInv'
  BY <1>1, BufferKept DEF SessionInv, sessionVars
<1>6. ShownInv'
  BY <1>1, <1>2, ShownKept DEF SessionInv, Listens, sessionVars, lockVars, pageVars
<1>7. AttachedUnlessDisplaced'
  BY <1>1 DEF SessionInv, AttachedUnlessDisplaced, Listens, sessionVars, lockVars, pageVars
<1>8. QED
  BY <1>3, <1>4, <1>5, <1>6, <1>7 DEF SessionInv

LEMMA NoticeToldKeeps ==
  ASSUME SessionInv, NEW n \in Notifiers, NoticeTold(n)
  PROVE  SessionInv'
<1>1. /\ UNCHANGED <<sessionVars, lockVars, pump, handler, noticeTo, page, shown, garbled,
                     displaced, endSocket>>
      /\ notice' = [notice EXCEPT ![n] = "done"]
  BY DEF NoticeTold
<1>2. told \subseteq told' /\ told' \subseteq Sockets
  BY DEF NoticeTold, Arrives, Listens, NoSocket, SessionInv, TypeOK, AnySocket
<1>3. \A w \in Sockets : Listens(w)' => Listens(w)
  BY <1>1, <1>2 DEF Listens
<1>4. TypeOK'
  BY <1>1, <1>2 DEF SessionInv, TypeOK, sessionVars, lockVars
<1>5. LockInv' /\ FreshInv'
  BY <1>1 DEF SessionInv, LockInv, FreshInv, lockVars
<1>6. BufferInv'
  BY <1>1, BufferKept DEF SessionInv, sessionVars
<1>7. ShownInv'
  BY <1>1, <1>3, ShownKept DEF SessionInv, sessionVars, lockVars
<1>8. AttachedUnlessDisplaced'
  BY <1>1, <1>3, AttachedKept DEF SessionInv, sessionVars, lockVars
<1>9. QED
  BY <1>4, <1>5, <1>6, <1>7, <1>8 DEF SessionInv

--------------------------------------------------------------------------------
(* The pages and their handlers *)

LEMMA PageOpensKeeps ==
  ASSUME SessionInv, NEW w \in Sockets, PageOpens(w)
  PROVE  SessionInv'
<1>1. /\ UNCHANGED <<sessionVars, lockVars, pump, noticeVars, shown, garbled, displaced,
                     endSocket>>
      /\ page' = [page EXCEPT ![w] = "open"] /\ handler[w] = "none"
      /\ \/ handler' = [handler EXCEPT ![w] = "attaching"] /\ UNCHANGED told
         \/ told' = told \cup {w} /\ UNCHANGED handler
  BY DEF PageOpens, SessionInv, FreshInv
<1>2. TypeOK'
  BY <1>1 DEF SessionInv, TypeOK, sessionVars, lockVars, noticeVars
<1>3. /\ \A v \in Sockets : v # w => (Listens(v)' => Listens(v)) /\ handler'[v] = handler[v]
                                     /\ page'[v] = page[v]
      /\ handler'[w] \in {"none", "attaching"} /\ page'[w] = "open"
      /\ wsConn # w
  BY <1>1 DEF Listens, SessionInv, TypeOK, FreshInv
<1>4. LockInv'
  BY <1>1, <1>3 DEF SessionInv, LockInv, lockVars
<1>5. FreshInv'
  BY <1>1, <1>3 DEF SessionInv, FreshInv, lockVars
<1>6. BufferInv'
  BY <1>1, BufferKept DEF SessionInv, sessionVars
<1>7. ShownInv'
  BY <1>1, <1>3, ShownKept DEF SessionInv, sessionVars, lockVars
<1>8. AttachedUnlessDisplaced'
  BY <1>1, <1>3 DEF SessionInv, AttachedUnlessDisplaced, sessionVars, lockVars
<1>9. QED
  BY <1>2, <1>4, <1>5, <1>6, <1>7, <1>8 DEF SessionInv

LEMMA PageLeavesKeeps ==
  ASSUME SessionInv, NEW w \in Sockets, PageLeaves(w)
  PROVE  SessionInv'
<1>1. /\ UNCHANGED <<sessionVars, lockVars, pump, handler, noticeVars, shown, told, garbled,
                     displaced, endSocket>>
      /\ page' = [page EXCEPT ![w] = "left"]
  BY DEF PageLeaves
<1>2. TypeOK'
  BY <1>1 DEF SessionInv, TypeOK, sessionVars, lockVars, noticeVars
<1>3. \A v \in Sockets : (Listens(v)' => Listens(v)) /\ page'[v] \in {page[v], "left"}
  BY <1>1 DEF Listens, SessionInv, TypeOK
<1>4. LockInv'
  BY <1>1 DEF SessionInv, LockInv, lockVars
<1>5. FreshInv'
  BY <1>1, <1>3 DEF SessionInv, FreshInv, lockVars
<1>6. BufferInv'
  BY <1>1, BufferKept DEF SessionInv, sessionVars
<1>7. ShownInv'
  BY <1>1, <1>3, ShownKept DEF SessionInv, sessionVars, lockVars
<1>8. AttachedUnlessDisplaced'
  BY <1>1, <1>3, AttachedKept DEF SessionInv, sessionVars, lockVars
<1>9. QED
  BY <1>2, <1>4, <1>5, <1>6, <1>7, <1>8 DEF SessionInv

LEMMA AttachLocksKeeps ==
  ASSUME SessionInv, NEW w \in Sockets, AttachLocks(w)
  PROVE  SessionInv'
<1>1. /\ UNCHANGED <<sessionVars, wsConn, pump, noticeVars, pageVars, displaced, endSocket>>
      /\ handler[w] = "attaching" /\ wsMu = "free" /\ wsMu' = "attach"
      /\ handler' = [handler EXCEPT ![w] = "buffering"]
  BY DEF AttachLocks
<1>2. garbled \subseteq garbled' /\ garbled' \subseteq Sockets
  BY WriteGarbles DEF AttachLocks, SessionInv, TypeOK
<1>3. TypeOK'
  BY <1>1, <1>2 DEF SessionInv, TypeOK, sessionVars, noticeVars, pageVars
<1>4. handler'[w] = "buffering" /\ \A v \in Sockets : v # w => handler'[v] = handler[v]
  BY <1>1 DEF SessionInv, TypeOK
<1>5. LockInv'
  BY <1>1, <1>4 DEF SessionInv, LockInv
<1>6. FreshInv'
  BY <1>1, <1>4 DEF SessionInv, FreshInv, pageVars
<1>7. BufferInv'
  BY <1>1, BufferKept DEF SessionInv, sessionVars
<1>8. ShownInv'
  BY <1>1, <1>2, ShownKept DEF SessionInv, Listens, sessionVars, pageVars
<1>9. AttachedUnlessDisplaced'
  BY <1>1, <1>4 DEF SessionInv, AttachedUnlessDisplaced, Listens, sessionVars, pageVars
<1>10. QED
  BY <1>3, <1>5, <1>6, <1>7, <1>8, <1>9 DEF SessionInv

LEMMA AttachSetsKeeps ==
  ASSUME SessionInv, NEW w \in Sockets, AttachSets(w)
  PROVE  SessionInv'
<1>1. /\ UNCHANGED <<sessionVars, pump, noticeVars, page, told, garbled, endSocket>>
      /\ handler[w] = "buffering" /\ wsMu = "attach" /\ wsMu' = "free" /\ wsConn' = w
      /\ handler' = [handler EXCEPT ![w] = "greeting"]
      /\ displaced' = displaced \cup ({wsConn} \ {w, NoSocket})
      /\ shown[w] = <<>> /\ pump # "writing"
  BY DEF AttachSets, Displaces, SessionInv, LockInv, FreshInv
<1>2. PICK reaches \in BOOLEAN :
        /\ Arrives(w, reaches) /\ MustArrive(w, reaches)
        /\ shown' = IF reaches THEN [shown EXCEPT ![w] = @ \o outputBuf] ELSE shown
  BY DEF AttachSets
<1>3. /\ shown \in [Sockets -> Seq(Chunks)] /\ outputBuf \in Seq(Chunks)
      /\ produced \in 0..OutputMax /\ OutputMax \in Nat
  BY TerminalAssumption DEF SessionInv, TypeOK
<1>4. <<>> \o outputBuf = outputBuf
  BY <1>3
<1>5. /\ shown' \in [Sockets -> Seq(Chunks)]
      /\ \A v \in Sockets : v # w => shown'[v] = shown[v]
      /\ shown'[w] = IF reaches THEN outputBuf ELSE <<>>
  BY <1>1, <1>2, <1>3, <1>4
<1>6. TypeOK'
  BY <1>1, <1>5 DEF SessionInv, TypeOK, AnySocket, sessionVars, noticeVars
<1>7. handler'[w] = "greeting" /\ \A v \in Sockets : v # w => handler'[v] = handler[v]
  BY <1>1 DEF SessionInv, TypeOK
<1>8. LockInv'
  BY <1>1, <1>7, SocketsNat DEF SessionInv, LockInv
<1>9. FreshInv'
  <2>1. page[w] # "new"
    BY <1>1 DEF SessionInv, FreshInv
  <2>2. QED
    BY <1>1, <1>5, <1>7, <2>1 DEF SessionInv, FreshInv
<1>10. BufferInv'
  BY <1>1, BufferKept DEF SessionInv, sessionVars
<1>11. ShownInv'
  <2>1. /\ RepeatsOnce(outputBuf) /\ Repeats(outputBuf) = {}
    <3>1. /\ produced - Len(outputBuf) \in Int
          /\ \A i \in 1..Len(outputBuf) : outputBuf[i] = (produced - Len(outputBuf)) + i
      BY <1>3 DEF SessionInv, BufferInv
    <3>2. QED
      BY <1>3, <3>1, StretchRepeatsNothing
  <2>2. produced > 0 => outputBuf # <<>> /\ outputBuf[Len(outputBuf)] = produced
    <3> SUFFICES ASSUME produced > 0
                 PROVE  outputBuf # <<>> /\ outputBuf[Len(outputBuf)] = produced
      OBVIOUS
    <3>1. Len(outputBuf) \in Nat /\ Len(outputBuf) > 0
      BY <1>3 DEF SessionInv, BufferInv
    <3>2. outputBuf[Len(outputBuf)] = produced - Len(outputBuf) + Len(outputBuf)
      BY <3>1 DEF SessionInv, BufferInv
    <3>3. QED
      BY <1>3, <3>1, <3>2
  <2>3. produced = 0 => outputBuf = <<>>
    BY <1>3 DEF SessionInv, BufferInv
  <2>4. ASSUME NEW v \in Sockets \ garbled', v # w PROVE RepeatsOnce(shown'[v])
    BY <1>1, <1>5, <2>4 DEF SessionInv, ShownInv
  <2>5. RepeatsOnce(shown'[w])
    BY <1>5, <2>1, EmptyRepeatsOnce
  <2>6. ASSUME w \notin garbled', Listens(w)'
        PROVE  /\ pump' = "reading" => UpToDate(shown[w])'
               /\ pump' \in {"sending", "writing"} => OneBehind(shown[w])'
    <3>1. Listens(w) /\ w \notin garbled
      BY <1>1, <2>6 DEF Listens
    <3>2. shown'[w] = outputBuf
      BY <1>2, <1>5, <3>1 DEF MustArrive
    <3>3. produced' = produced /\ pump' = pump
      BY <1>1 DEF sessionVars
    <3>4. pump \in {"sending", "writing"} => produced > 0
      BY DEF SessionInv, BufferInv
    <3>5. UpToDate(shown[w])'
      BY <1>3, <2>2, <2>3, <3>2, <3>3 DEF UpToDate
    <3>6. produced > 0 => OneBehind(shown[w])'
      BY <2>1, <2>2, <3>2, <3>3 DEF OneBehind
    <3>7. QED
      BY <3>3, <3>4, <3>5, <3>6
  <2>7. QED
    BY <1>1, <2>4, <2>5, <2>6 DEF ShownInv
<1>12. AttachedUnlessDisplaced'
  BY <1>1, <1>7, SocketsNat DEF SessionInv, AttachedUnlessDisplaced, Listens, sessionVars
<1>13. QED
  BY <1>6, <1>8, <1>9, <1>10, <1>11, <1>12 DEF SessionInv

LEMMA GreetEndsKeeps ==
  ASSUME SessionInv, NEW w \in Sockets, GreetEnds(w)
  PROVE  SessionInv'
<1>1. /\ UNCHANGED <<sessionVars, lockVars, pump, noticeVars, pageVars, garbled, displaced,
                     endSocket>>
      /\ handler[w] = "greeting" /\ handler' = [handler EXCEPT ![w] = "serving"]
  BY DEF GreetEnds
<1>2. TypeOK'
  BY <1>1 DEF SessionInv, TypeOK, sessionVars, lockVars, noticeVars, pageVars
<1>3. handler'[w] = "serving" /\ \A v \in Sockets : v # w => handler'[v] = handler[v]
  BY <1>1 DEF SessionInv, TypeOK
<1>4. LockInv' /\ FreshInv'
  BY <1>1, <1>3 DEF SessionInv, LockInv, FreshInv, lockVars, pageVars
<1>5. BufferInv'
  BY <1>1, BufferKept DEF SessionInv, sessionVars
<1>6. ShownInv'
  BY <1>1, ShownKept DEF SessionInv, Listens, sessionVars, lockVars, pageVars
<1>7. AttachedUnlessDisplaced'
  BY <1>1, <1>3 DEF SessionInv, AttachedUnlessDisplaced, Listens, sessionVars, lockVars, pageVars
<1>8. QED
  BY <1>2, <1>4, <1>5, <1>6, <1>7 DEF SessionInv

LEMMA DetachKeeps ==
  ASSUME SessionInv, NEW w \in Sockets, Detach(w)
  PROVE  SessionInv'
<1>1. /\ UNCHANGED <<sessionVars, wsMu, pump, noticeVars, pageVars, garbled, endSocket>>
      /\ handler[w] = "serving" /\ handler' = [handler EXCEPT ![w] = "gone"]
      /\ wsMu = "free" /\ wsConn' = NoSocket
      /\ displaced' = displaced \cup ({wsConn} \ {w, NoSocket})
  BY DEF Detach, Displaces
<1>2. TypeOK'
  BY <1>1 DEF SessionInv, TypeOK, AnySocket, sessionVars, noticeVars, pageVars
<1>3. handler'[w] = "gone" /\ \A v \in Sockets : v # w => handler'[v] = handler[v]
  BY <1>1 DEF SessionInv, TypeOK
<1>4. LockInv'
  BY <1>1, <1>3 DEF SessionInv, LockInv
<1>5. FreshInv'
  BY <1>1, <1>3, SocketsNat DEF SessionInv, FreshInv, pageVars
<1>6. BufferInv'
  BY <1>1, BufferKept DEF SessionInv, sessionVars
<1>7. ShownInv'
  BY <1>1, SocketsNat, ShownKept DEF SessionInv, sessionVars, pageVars
<1>8. AttachedUnlessDisplaced'
  BY <1>1, <1>3, SocketsNat DEF SessionInv, AttachedUnlessDisplaced, Listens, sessionVars, pageVars
<1>9. QED
  BY <1>2, <1>4, <1>5, <1>6, <1>7, <1>8 DEF SessionInv

--------------------------------------------------------------------------------
LEMMA SessionStep == SessionInv /\ [Next]_terminalVars => SessionInv'
<1> SUFFICES ASSUME SessionInv, [Next]_terminalVars PROVE SessionInv'
  OBVIOUS
<1>1. CASE PumpNext
  BY <1>1, PumpReadsKeeps, PumpSendsKeeps, PumpSentKeeps, PumpEndsKeeps DEF PumpNext
<1>2. CASE ShellEnds \/ KillSession
  BY <1>2, ShellEndsKeeps, KillSessionKeeps
<1>3. ASSUME NEW n \in Notifiers, NoticeNext(n) PROVE SessionInv'
  BY <1>3, NoticeBeginsKeeps, NoticeToldKeeps DEF NoticeNext
<1>4. ASSUME NEW w \in Sockets, PageOpens(w) \/ PageLeaves(w) \/ HandlerNext(w)
      PROVE  SessionInv'
  BY <1>4, PageOpensKeeps, PageLeavesKeeps, AttachLocksKeeps, AttachSetsKeeps, GreetEndsKeeps,
     DetachKeeps DEF HandlerNext
<1>5. CASE UNCHANGED terminalVars
  <2>1. TypeOK' /\ LockInv' /\ BufferInv' /\ FreshInv'
    BY <1>5 DEF terminalVars, SessionInv, TypeOK, LockInv, BufferInv, FreshInv
  <2>2. ShownInv'
    BY <1>5, ShownKept DEF terminalVars, SessionInv, Listens
  <2>3. AttachedUnlessDisplaced'
    BY <1>5 DEF terminalVars, SessionInv, AttachedUnlessDisplaced, Listens
  <2>4. QED
    BY <2>1, <2>2, <2>3 DEF SessionInv
<1>6. QED
  BY <1>1, <1>2, <1>3, <1>4, <1>5 DEF Next

LEMMA SessionInvariant == Spec => []SessionInv
BY InitSession, SessionStep, PTL DEF Spec

\* The session's variables keep their types; the buffer never outgrows its limit.
THEOREM SessionTypes == Spec => []TypeOK
<1>1. SessionInv => TypeOK
  BY DEF SessionInv
<1>2. QED
  BY SessionInvariant, <1>1, PTL

\* Only the late handler of another page takes an attached page from its session.
THEOREM StaysAttached == Spec => []AttachedUnlessDisplaced
<1>1. SessionInv => AttachedUnlessDisplaced
  BY DEF SessionInv
<1>2. QED
  BY SessionInvariant, <1>1, PTL

\* A page that attaches at any moment has the buffer and then the output without a
\* gap, and at most one chunk of it twice.
THEOREM NoGap == Spec => []CatchUpHasNoGap
<1>1. SessionInv => CatchUpHasNoGap
  <2> SUFFICES ASSUME SessionInv, NEW w \in Sockets \ garbled
               PROVE  /\ wsConn = w /\ Listens(w) /\ pump = "reading" /\ produced > 0 =>
                            shown[w] # <<>> /\ shown[w][Len(shown[w])] = produced
                      /\ \A i \in 1..(Len(shown[w]) - 1) :
                            shown[w][i + 1] \in {shown[w][i], shown[w][i] + 1}
                      /\ Cardinality({i \in 1..(Len(shown[w]) - 1) :
                            shown[w][i + 1] = shown[w][i]}) <= 1
    BY DEF CatchUpHasNoGap
  <2>1. wsConn = w /\ Listens(w) /\ pump = "reading" => UpToDate(shown[w])
    BY DEF SessionInv, ShownInv
  <2>2. RepeatsOnce(shown[w])
    BY DEF SessionInv, ShownInv
  <2>3. Cardinality(Repeats(shown[w])) <= 1
    <3>1. CASE Repeats(shown[w]) = {}
      BY <3>1, FS_EmptySet
    <3>2. ASSUME NEW i \in Repeats(shown[w])
          PROVE  Cardinality(Repeats(shown[w])) <= 1
      <4>1. Repeats(shown[w]) = {i}
        BY <2>2, <3>2 DEF RepeatsOnce
      <4>2. Cardinality({i}) = 1
        BY FS_Singleton
      <4>3. QED
        BY <4>1, <4>2
    <3>3. QED
      BY <3>1, <3>2
  <2>4. QED
    BY <2>1, <2>2, <2>3 DEF UpToDate, RepeatsOnce, Repeats
<1>2. QED
  BY SessionInvariant, <1>1, PTL

================================================================================
