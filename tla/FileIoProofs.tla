---------------------------- MODULE FileIoProofs ----------------------------
(***************************************************************************)
(* Proofs about FileIo, for any threads, handles, lengths and offsets.     *)
(* That a read gets its own bytes needs an image that holds the table and  *)
(* the file: nobody looks whether the stream delivered.  Behind them the   *)
(* look-up that hands the calls their file, Xdvdfs, for any names, trees   *)
(* and padding.                                                            *)
(***************************************************************************)
EXTENDS DiscFiles, WellFoundedInduction, TLAPS

Places == {"none", "table", "open", "copy", "status", "apc", "event", "done"}
Calls == [at: Places, handle: Nat, op: Nat, apc: BOOLEAN, event: BOOLEAN]
LogEntries == [kind: {"read", "seek"}, handle: Handles, byteOffset: Int, first: Nat,
               count: Nat, got: Int, status: {"none", "success"}]

Typed ==
    /\ handleTable \subseteq 1..opened /\ opened \in 0..MaxHandles
    /\ fileState \in [Handles -> Positions]
    /\ call \in [Threads -> Calls]
    /\ fileMutex \in Threads \cup {NoThread} /\ tellg \in Nat
    /\ log \in Seq(LogEntries) /\ Len(log) <= MaxOps
    /\ queued \subseteq DOMAIN log /\ signaled \subseteq DOMAIN log

\* The stream's mutex is held around its seek and its read.
MutexHeld == \A t \in Threads: call[t].at \in {"table", "copy"} => fileMutex = t

\* A call in progress has its entry in the log; nothing is logged during a copy.
HasEntry ==
    \A t \in Threads:
        /\ call[t].at \in {"copy", "status", "apc", "event", "done"} => call[t].op \in DOMAIN log
        /\ call[t].at = "copy" => call[t].op = Len(log) /\ call[t].handle = log[Len(log)].handle

\* Only handles given out have a position, and only they are read.
WasOpened ==
    /\ \A h \in Handles: fileState[h] # NoEntry => h <= opened
    /\ \A i \in DOMAIN log: log[i].handle <= opened

\* The position of a handle is where its last read or seek ended, but during the copy.
LastOf(i) == \A k \in (i + 1)..Len(log): log[k].handle # log[i].handle
AtItsEnd ==
    \A i \in DOMAIN log:
        LastOf(i) => \/ fileState[log[i].handle] = log[i].first + log[i].count
                     \/ \E t \in Threads: call[t].at = "copy" /\ call[t].op = i

\* The caller is told behind the status block.
ToldAfter ==
    /\ \A t \in Threads: call[t].at \in {"apc", "event"} => log[call[t].op].status = "success"
    /\ \A i \in queued \cup signaled: log[i].status = "success"

CallInv == Typed /\ MutexHeld /\ HasEntry /\ WasOpened /\ AtItsEnd /\ ToldAfter /\ ReadsTile

\* A log with one more entry
LEMMA Appended ==
    ASSUME NEW S, NEW s \in Seq(S), NEW e \in S
    PROVE  /\ Append(s, e) \in Seq(S) /\ Len(Append(s, e)) = Len(s) + 1
           /\ DOMAIN s = 1..Len(s) /\ DOMAIN Append(s, e) = 1..(Len(s) + 1)
           /\ \A i \in DOMAIN s: Append(s, e)[i] = s[i]
           /\ Append(s, e)[Len(s) + 1] = e
OBVIOUS

LEMMA EntryTyped ==
    ASSUME log \in Seq(LogEntries), NEW i \in DOMAIN log
    PROVE  /\ log[i] \in LogEntries /\ log[i].handle \in Handles
           /\ log[i].first \in Nat /\ log[i].count \in Nat
<1>1. log[i] \in LogEntries
  OBVIOUS
<1> QED
  BY <1>1 DEF LogEntries

LEMMA CallInit == Init => CallInv
<1> SUFFICES ASSUME Init PROVE CallInv
  OBVIOUS
<1>1. NoCall \in Calls /\ NoCall.at = "none"
  BY Zenon DEF NoCall, Call, Calls, Places
<1>2. Typed
  BY <1>1, FileAssumption DEF Init, Typed, Positions, NoEntry
<1>3. \A t \in Threads: call[t].at = "none"
  BY <1>1 DEF Init
<1>4. DOMAIN log = {} /\ queued \cup signaled = {}
  BY DEF Init
<1> QED
  BY <1>2, <1>3, <1>4
  DEF CallInv, MutexHeld, HasEntry, WasOpened, AtItsEnd, ToldAfter, ReadsTile, Init, NoEntry

-----------------------------------------------------------------------------
(* Steps that leave the log and the positions alone. *)

\* The calls a step may leave behind when it logs nothing: none that copies or that
\* fills a status block, and one that tells only behind a filled one.
LEMMA QuietStep ==
    ASSUME CallInv, NEW t \in Threads, NEW c \in Calls, call[t].at # "copy",
           call' = [call EXCEPT ![t] = c], UNCHANGED <<log, fileState>>,
           opened' = opened /\ handleTable' \subseteq handleTable,
           fileMutex' \in Threads \cup {NoThread}, tellg' \in Nat,
           queued' \subseteq DOMAIN log, signaled' \subseteq DOMAIN log,
           \A i \in queued' \cup signaled': log[i].status = "success",
           c.at \notin {"copy", "status"},
           c.at = "table" => fileMutex' = t,
           \A u \in Threads \ {t}: call[u].at \in {"table", "copy"} => fileMutex' = fileMutex,
           c.at \in {"apc", "event", "done"} => c.op \in DOMAIN log,
           c.at \in {"apc", "event"} => log[c.op].status = "success"
    PROVE  CallInv'
<1>1. call'[t] = c /\ \A u \in Threads \ {t}: call'[u] = call[u]
  BY DEF CallInv, Typed
<1>2. call' \in [Threads -> Calls]
  BY DEF CallInv, Typed
<1>3. Typed'
  BY <1>2 DEF CallInv, Typed
<1>4. MutexHeld'
  BY <1>1 DEF CallInv, MutexHeld
<1>5. HasEntry'
  BY <1>1 DEF CallInv, HasEntry
<1>6. WasOpened' /\ ReadsTile'
  BY DEF CallInv, WasOpened, ReadsTile
<1>7. AtItsEnd'
  BY <1>1 DEF CallInv, AtItsEnd, LastOf
<1>8. ToldAfter'
  BY <1>1 DEF CallInv, ToldAfter
<1> QED
  BY <1>3, <1>4, <1>5, <1>6, <1>7, <1>8 DEF CallInv

LEMMA NoCallTyped == NoCall \in Calls /\ NoCall.at = "none"
BY Zenon DEF NoCall, Call, Calls, Places

\* A call that goes on
LEMMA GoesTyped ==
    ASSUME NEW c \in Calls, NEW at \in Places
    PROVE  /\ [c EXCEPT !.at = at] \in Calls
           /\ [c EXCEPT !.at = at].at = at /\ [c EXCEPT !.at = at].op = c.op
           /\ [c EXCEPT !.at = at].handle = c.handle
BY DEF Calls

LEMMA LookUpStep == ASSUME CallInv, NEW t \in Threads, LookUp(t) PROVE CallInv'
<1> DEFINE c == Call("table", 0, 0, FALSE, FALSE)
<1>1. c \in Calls /\ c.at = "table"
  BY Zenon DEF Call, Calls, Places
<1>2. call[t].at = "none"
  BY NoCallTyped DEF LookUp, Idle
<1>3. tellg' \in Nat
  BY FileAssumption DEF LookUp, Seek, CallInv, Typed
<1>4. /\ call' = [call EXCEPT ![t] = c] /\ fileMutex = NoThread /\ fileMutex' = t
      /\ UNCHANGED <<log, fileState, handleTable, opened, queued, signaled>>
  BY DEF LookUp, Moves, handles, completion
<1>5. \A u \in Threads: call[u].at \notin {"table", "copy"}
  BY <1>4, FileAssumption DEF CallInv, MutexHeld
<1> HIDE DEF c
<1> QED
  BY <1>1, <1>2, <1>3, <1>4, <1>5, QuietStep DEF CallInv, Typed, ToldAfter

LEMMA ReadTableStep == ASSUME CallInv, NEW t \in Threads, ReadTable(t) PROVE CallInv'
<1>1. call[t].at = "table" /\ call[t] \in Calls
  BY DEF ReadTable, At, CallInv, Typed
<1>2. PICK c \in Calls: call' = [call EXCEPT ![t] = c] /\ c.at \in {"none", "open"}
  <2> DEFINE c == [call[t] EXCEPT !.at = "open"]
  <2>1. call' = [call EXCEPT ![t] = NoCall] \/ call' = [call EXCEPT ![t] = c]
    BY Zenon DEF ReadTable, Moves, Goes
  <2>2. c \in Calls /\ c.at = "open"
    BY <1>1, GoesTyped DEF Places
  <2> HIDE DEF c
  <2> QED
    BY <2>1, <2>2, NoCallTyped
<1>3. tellg' \in Nat
  BY FileAssumption DEF ReadTable, CallInv, Typed
<1>4. /\ fileMutex' = NoThread
      /\ UNCHANGED <<log, fileState, handleTable, opened, queued, signaled>>
  BY DEF ReadTable, handles, completion
<1>5. \A u \in Threads \ {t}: call[u].at \notin {"table", "copy"}
  BY <1>1 DEF CallInv, MutexHeld
<1> QED
  BY <1>1, <1>2, <1>3, <1>4, <1>5, QuietStep DEF CallInv, Typed, ToldAfter

LEMMA CloseStep ==
    ASSUME CallInv, NEW t \in Threads, NEW h \in Handles, NtClose(t, h) PROVE CallInv'
<1>1. /\ handleTable' \subseteq handleTable
      /\ UNCHANGED <<fileState, opened, call, fileMutex, tellg, log, queued, signaled>>
  BY DEF NtClose, stream, completion
<1> QED
  BY <1>1 DEF CallInv, Typed, MutexHeld, HasEntry, WasOpened, AtItsEnd, LastOf, ToldAfter,
     ReadsTile

\* QueueApc, SignalEvent and Returns
LEMMA TellStep ==
    ASSUME CallInv, NEW t \in Threads, QueueApc(t) \/ SignalEvent(t) \/ Returns(t)
    PROVE  CallInv'
<1>1. /\ call[t] \in Calls /\ call[t].at \in {"apc", "event", "done"}
      /\ UNCHANGED <<log, fileState, handleTable, opened, fileMutex, tellg>>
  BY DEF QueueApc, SignalEvent, Returns, At, handles, stream, CallInv, Typed
<1>2. call[t].op \in DOMAIN log
  BY <1>1 DEF CallInv, HasEntry
<1>3. CASE QueueApc(t)
  <2>1. log[call[t].op].status = "success"
    BY <1>3 DEF QueueApc, At, CallInv, ToldAfter
  <2>2. PICK c \in Calls: /\ call' = [call EXCEPT ![t] = c] /\ c.at \in {"event", "done"}
                          /\ c.op = call[t].op
    <3>1. PICK next \in {"event", "done"}:
             call' = [call EXCEPT ![t] = [call[t] EXCEPT !.at = next]]
      BY <1>3, Zenon DEF QueueApc, Goes, Moves
    <3>2. next \in Places
      BY DEF Places
    <3> DEFINE c == [call[t] EXCEPT !.at = next]
    <3>3. c \in Calls /\ c.at = next /\ c.op = call[t].op
      BY <1>1, <3>2, GoesTyped
    <3>4. call' = [call EXCEPT ![t] = c] /\ c.at \in {"event", "done"}
      BY <3>1, <3>3, Zenon
    <3> HIDE DEF c
    <3> QED
      BY <3>3, <3>4
  <2>3. queued' = queued \cup {call[t].op} /\ signaled' = signaled
    BY <1>3 DEF QueueApc
  <2> QED
    BY <1>1, <1>2, <2>1, <2>2, <2>3, QuietStep DEF CallInv, Typed, ToldAfter
<1>4. CASE SignalEvent(t)
  <2>1. log[call[t].op].status = "success"
    BY <1>4 DEF SignalEvent, At, CallInv, ToldAfter
  <2>2. PICK c \in Calls: /\ call' = [call EXCEPT ![t] = c] /\ c.at = "done"
                          /\ c.op = call[t].op
    BY <1>1, <1>4, GoesTyped DEF SignalEvent, Goes, Moves, Places
  <2>3. signaled' = signaled \cup {call[t].op} /\ queued' = queued
    BY <1>4 DEF SignalEvent
  <2> QED
    BY <1>1, <1>2, <2>1, <2>2, <2>3, QuietStep DEF CallInv, Typed, ToldAfter
<1>5. CASE Returns(t)
  <2>1. call' = [call EXCEPT ![t] = NoCall] /\ UNCHANGED <<queued, signaled>>
    BY <1>5 DEF Returns, Moves, completion
  <2> QED
    BY <1>1, <2>1, NoCallTyped, QuietStep DEF CallInv, Typed, ToldAfter
<1> QED
  BY <1>3, <1>4, <1>5

-----------------------------------------------------------------------------
(* Steps that give a handle a position: a file opened, and an entry logged. *)

LEMMA CreateStep == ASSUME CallInv, NEW t \in Threads, NtCreateFile(t) PROVE CallInv'
<1>1. /\ call[t].at = "open" /\ opened + 1 \in Handles /\ opened' = opened + 1
      /\ handleTable' = handleTable \cup {opened + 1}
      /\ fileState' = [fileState EXCEPT ![opened + 1] = 0]
      /\ call' = [call EXCEPT ![t] = NoCall]
      /\ UNCHANGED <<fileMutex, tellg, log, queued, signaled>>
  BY FileAssumption DEF NtCreateFile, At, Moves, Handles, stream, completion, CallInv, Typed
<1>2. call' \in [Threads -> Calls] /\ call'[t].at = "none"
      /\ \A u \in Threads \ {t}: call'[u] = call[u]
  BY <1>1, NoCallTyped DEF CallInv, Typed
<1>3. fileState' \in [Handles -> Positions] /\ fileState'[opened + 1] = 0
      /\ \A h \in Handles \ {opened + 1}: fileState'[h] = fileState[h]
  BY <1>1 DEF CallInv, Typed, Positions
<1>4. Typed'
  BY <1>1, <1>2, <1>3 DEF CallInv, Typed, Handles
<1>5. MutexHeld' /\ HasEntry' /\ ToldAfter' /\ ReadsTile'
  BY <1>1, <1>2 DEF CallInv, MutexHeld, HasEntry, ToldAfter, ReadsTile
<1>6. \A i \in DOMAIN log: log[i].handle \in Handles /\ log[i].handle <= opened
  BY EntryTyped DEF CallInv, Typed, WasOpened
<1>7. WasOpened'
  BY <1>1, <1>3, <1>6 DEF CallInv, WasOpened, Typed, Handles
<1>8. AtItsEnd'
  <2> SUFFICES ASSUME NEW i \in DOMAIN log, LastOf(i)
               PROVE  \/ fileState'[log[i].handle] = log[i].first + log[i].count
                      \/ \E u \in Threads: call'[u].at = "copy" /\ call'[u].op = i
    BY <1>1 DEF AtItsEnd, LastOf
  <2>1. fileState'[log[i].handle] = fileState[log[i].handle]
    BY <1>3, <1>6 DEF CallInv, Typed
  <2> QED
    BY <1>1, <1>2, <2>1 DEF CallInv, AtItsEnd
<1> QED
  BY <1>4, <1>5, <1>7, <1>8 DEF CallInv

\* An entry is logged while nothing is copied: it begins where the last one ended, and
\* either is copied for from now on or has its end stored at once.
LEMMA LogStep ==
    ASSUME CallInv, StateFree, NEW t \in Threads, NEW c \in Calls, NEW e \in LogEntries,
           Len(log) < MaxOps, log' = Append(log, e), e.handle <= opened,
           e.byteOffset = Current => e.first = fileState[e.handle],
           call' = [call EXCEPT ![t] = c],
           UNCHANGED <<handleTable, opened, queued, signaled>>,
           tellg' \in Nat, fileMutex' \in Threads \cup {NoThread},
           c.at \in {"none", "copy", "status"}, c.at # "none" => c.op = Len(log) + 1,
           c.at = "copy" => c.handle = e.handle /\ fileMutex' = t /\ fileState' = fileState,
           c.at # "copy" => fileState' = [fileState EXCEPT ![e.handle] = e.first + e.count],
           \A u \in Threads \ {t}: call[u].at = "table" => fileMutex' = fileMutex
    PROVE  CallInv'
<1>1. call' \in [Threads -> Calls] /\ call'[t] = c /\ \A u \in Threads \ {t}: call'[u] = call[u]
  BY DEF CallInv, Typed
<1>2. \A u \in Threads: call[u].at # "copy"
  BY DEF StateFree, At
<1>3. /\ log' \in Seq(LogEntries) /\ Len(log') = Len(log) + 1 /\ Len(log) \in Nat
      /\ DOMAIN log = 1..Len(log) /\ DOMAIN log' = 1..(Len(log) + 1)
      /\ \A i \in DOMAIN log: log'[i] = log[i]
      /\ log'[Len(log) + 1] = e
  BY Appended DEF CallInv, Typed
<1>4. /\ e.handle \in Handles /\ e.first \in Nat /\ e.count \in Nat
      /\ \A i \in DOMAIN log: log[i].handle \in Handles
  BY EntryTyped DEF LogEntries, CallInv, Typed
<1>5. fileState' \in [Handles -> Positions]
      /\ \A h \in Handles \ {e.handle}: fileState'[h] = fileState[h]
  BY <1>4 DEF CallInv, Typed, Positions
<1>6. Typed'
  BY <1>1, <1>3, <1>5, FileAssumption DEF CallInv, Typed
<1>7. MutexHeld'
  BY <1>1, <1>2 DEF CallInv, MutexHeld
<1>8. HasEntry'
  BY <1>1, <1>2, <1>3 DEF CallInv, HasEntry
<1>9. WasOpened'
  BY <1>3, <1>4, <1>5 DEF CallInv, WasOpened
<1>10. ToldAfter'
  BY <1>1, <1>3 DEF CallInv, ToldAfter, HasEntry, Typed
<1>11. AtItsEnd'
  <2> SUFFICES ASSUME NEW i \in DOMAIN log', LastOf(i)'
               PROVE  \/ fileState'[log'[i].handle] = log'[i].first + log'[i].count
                      \/ \E u \in Threads: call'[u].at = "copy" /\ call'[u].op = i
    BY DEF AtItsEnd
  <2>1. CASE i = Len(log) + 1
    BY <1>1, <1>3, <1>4, <2>1 DEF CallInv, Typed
  <2>2. CASE i # Len(log) + 1
    <3>1. i \in DOMAIN log /\ LastOf(i) /\ log[i].handle # e.handle
      BY <1>3, <2>2 DEF LastOf
    <3>2. fileState[log[i].handle] = log[i].first + log[i].count
      BY <1>2, <3>1 DEF CallInv, AtItsEnd
    <3> QED
      BY <1>3, <1>4, <1>5, <3>1, <3>2
  <2> QED
    BY <2>1, <2>2
<1>12. ReadsTile'
  <2> SUFFICES ASSUME NEW i \in DOMAIN log', NEW j \in DOMAIN log', i < j,
                      log'[i].handle = log'[j].handle, log'[j].byteOffset = Current,
                      \A k \in (i + 1)..(j - 1): log'[k].handle # log'[i].handle
               PROVE  log'[j].first = log'[i].first + log'[i].count
    BY DEF ReadsTile
  <2>1. CASE j = Len(log) + 1
    <3>1. i \in DOMAIN log /\ LastOf(i) /\ log[i].handle = e.handle
      BY <1>3, <2>1 DEF LastOf
    <3>2. fileState[e.handle] = log[i].first + log[i].count
      BY <1>2, <3>1 DEF CallInv, AtItsEnd
    <3> QED
      BY <1>3, <2>1, <3>1, <3>2
  <2>2. CASE j # Len(log) + 1
    <3>1. i \in DOMAIN log /\ j \in DOMAIN log
      BY <1>3, <2>2
    <3>2. \A k \in (i + 1)..(j - 1): k \in DOMAIN log
      BY <1>3, <2>2
    <3>3. \A k \in (i + 1)..(j - 1): log[k].handle # log[i].handle
      BY <1>3, <3>1, <3>2
    <3>4. log[i].handle = log[j].handle /\ log[j].byteOffset = Current
      BY <1>3, <3>1
    <3>5. log[j].first = log[i].first + log[i].count
      BY <3>1, <3>3, <3>4 DEF CallInv, ReadsTile
    <3> QED
      BY <1>3, <3>1, <3>5
  <2> QED
    BY <2>1, <2>2
<1> QED
  BY <1>6, <1>7, <1>8, <1>9, <1>10, <1>11, <1>12 DEF CallInv

LEMMA SeekStep ==
    ASSUME CallInv, NEW t \in Threads, NEW h \in Handles, NEW o \in Offsets,
           NtSetInformationFile(t, h, o)
    PROVE  CallInv'
<1> DEFINE e == Entry("seek", h, o, o, 0)
<1>1. /\ Idle(t) /\ StateFree /\ Len(log) < MaxOps /\ fileState[h] # NoEntry
      /\ log' = Append(log, e) /\ fileState' = [fileState EXCEPT ![h] = o]
      /\ UNCHANGED <<call, handleTable, opened, fileMutex, tellg, queued, signaled>>
  BY DEF NtSetInformationFile, stream, completion
<1>2. o \in Nat
  BY FileAssumption
<1>3. e \in LogEntries /\ e.handle = h /\ e.byteOffset = o /\ e.first = o /\ e.count = 0
  BY <1>2 DEF Entry, LogEntries, NoEntry
<1>4. h <= opened
  BY <1>1 DEF CallInv, WasOpened
<1>5. call[t] \in Calls /\ call' = [call EXCEPT ![t] = call[t]] /\ call[t].at = "none"
  BY <1>1, NoCallTyped DEF CallInv, Typed, Idle
<1> HIDE DEF e
<1>6. o + 0 = o /\ o # Current
  BY <1>2 DEF Current
<1> QED
  BY <1>1, <1>3, <1>4, <1>5, <1>6, LogStep DEF CallInv, Typed

\* What is to be read lies in the file.
LEMMA BytesInside ==
    ASSUME NEW offset \in Nat, NEW length \in Nat
    PROVE  /\ BytesToRead(offset, length) \in Nat
           /\ BytesToRead(offset, length) > 0 =>
                 offset + BytesToRead(offset, length) <= FileSize
BY FileAssumption DEF BytesToRead

\* What a read logs
LEMMA ReadFacts ==
    ASSUME CallInv, NEW t \in Threads, NEW h \in Handles, NEW o \in Offsets \cup {Current},
           NEW l \in Lengths, NEW a \in BOOLEAN, NEW b \in BOOLEAN,
           ReadBegins(t, h, o, l, a, b)
    PROVE  \E e \in LogEntries:
             /\ StateFree /\ Len(log) < MaxOps /\ call[t].at = "none" /\ log' = Append(log, e)
             /\ e.handle = h /\ h <= opened /\ e.status = "none"
             /\ o = Current => e.first = fileState[h]
             /\ e.byteOffset = o
             /\ e.count > 0 =>
                   /\ e.first + e.count <= FileSize
                   /\ fileMutex = NoThread /\ fileMutex' = t /\ Seek(Start + e.first)
                   /\ call' = [call EXCEPT ![t] = Call("copy", h, Len(log) + 1, a, b)]
                   /\ fileState' = fileState
             /\ e.count = 0 =>
                   /\ fileState' = [fileState EXCEPT ![h] = e.first]
                   /\ call' = [call EXCEPT ![t] = Call("status", h, Len(log) + 1, a, b)]
                   /\ UNCHANGED <<fileMutex, tellg>>
<1> DEFINE offset == IF o = Current THEN fileState[h] ELSE o
           count == BytesToRead(offset, l)
           e == Entry("read", h, o, offset, count)
<1>1. fileState[h] \in Nat /\ h <= opened
  BY DEF ReadBegins, CallInv, Typed, Positions, WasOpened
<1>2. offset \in Nat /\ l \in Nat /\ o \in Int
  <2>1. Offsets \subseteq Nat /\ Lengths \subseteq Nat
    BY FileAssumption
  <2>2. CASE o = Current
    BY <1>1, <2>1, <2>2 DEF Current
  <2>3. CASE o # Current
    BY <2>1, <2>3
  <2> QED
    BY <2>2, <2>3
<1>3. count \in Nat /\ (count > 0 => offset + count <= FileSize)
  BY <1>2, BytesInside
<1>4. o = Current => offset = fileState[h]
  OBVIOUS
<1>5. /\ Idle(t) /\ StateFree /\ Len(log) < MaxOps /\ log' = Append(log, e)
      /\ IF count > 0
         THEN /\ fileMutex = NoThread /\ fileMutex' = t /\ Seek(Start + offset)
              /\ call' = [call EXCEPT ![t] = Call("copy", h, Len(log) + 1, a, b)]
              /\ UNCHANGED fileState
         ELSE /\ fileState' = [fileState EXCEPT ![h] = offset]
              /\ call' = [call EXCEPT ![t] = Call("status", h, Len(log) + 1, a, b)]
              /\ UNCHANGED <<fileMutex, tellg>>
  BY Zenon DEF ReadBegins, Moves
<1>6. call[t].at = "none"
  BY <1>5, NoCallTyped DEF Idle
<1> HIDE DEF offset, count
<1>7. /\ e \in LogEntries /\ e.handle = h /\ e.byteOffset = o /\ e.first = offset
      /\ e.count = count /\ e.status = "none"
  BY <1>2, <1>3 DEF Entry, LogEntries, NoEntry
<1> HIDE DEF e
<1>8. (count > 0 \/ count = 0) /\ ~(count > 0 /\ count = 0)
  BY <1>3
<1> QED
  BY <1>1, <1>3, <1>4, <1>5, <1>6, <1>7, <1>8

LEMMA ReadStep ==
    ASSUME CallInv, NEW t \in Threads, NEW h \in Handles, NEW o \in Offsets \cup {Current},
           NEW l \in Lengths, NEW a \in BOOLEAN, NEW b \in BOOLEAN,
           ReadBegins(t, h, o, l, a, b)
    PROVE  CallInv'
<1>1. PICK e \in LogEntries:
             /\ StateFree /\ Len(log) < MaxOps /\ call[t].at = "none" /\ log' = Append(log, e)
             /\ e.handle = h /\ h <= opened /\ e.status = "none"
             /\ o = Current => e.first = fileState[h]
             /\ e.byteOffset = o
             /\ e.count > 0 =>
                   /\ e.first + e.count <= FileSize
                   /\ fileMutex = NoThread /\ fileMutex' = t /\ Seek(Start + e.first)
                   /\ call' = [call EXCEPT ![t] = Call("copy", h, Len(log) + 1, a, b)]
                   /\ fileState' = fileState
             /\ e.count = 0 =>
                   /\ fileState' = [fileState EXCEPT ![h] = e.first]
                   /\ call' = [call EXCEPT ![t] = Call("status", h, Len(log) + 1, a, b)]
                   /\ UNCHANGED <<fileMutex, tellg>>
  BY ReadFacts, SMTT(30)
<1>2. UNCHANGED <<handleTable, opened, queued, signaled>>
  BY DEF ReadBegins, completion
<1>3. e.first \in Nat /\ e.count \in Nat /\ Len(log) + 1 \in Nat /\ h \in Nat
  BY DEF LogEntries, CallInv, Typed, Handles
<1>4. CASE e.count > 0
  <2> DEFINE c == Call("copy", h, Len(log) + 1, a, b)
  <2>1. c \in Calls /\ c.at = "copy" /\ c.op = Len(log) + 1 /\ c.handle = h
    BY <1>3 DEF Call, Calls, Places
  <2>2. \A u \in Threads: call[u].at # "table"
    BY <1>1, <1>4, FileAssumption DEF CallInv, MutexHeld
  <2>3. tellg' \in Nat
    <3>1. Seek(Start + e.first)
      BY <1>1, <1>4
    <3>2. tellg \in Nat /\ Start + e.first \in Nat
      <4>1. tellg \in Nat
        BY DEF CallInv, Typed
      <4>2. Start \in Nat
        BY FileAssumption
      <4> QED
        BY <1>3, <4>1, <4>2
    <3> QED
      BY <3>1, <3>2 DEF Seek
  <2>4. /\ call' = [call EXCEPT ![t] = c] /\ fileMutex' = t /\ fileState' = fileState
    BY <1>1, <1>4
  <2> HIDE DEF c
  <2> QED
    BY <1>1, <1>2, <2>1, <2>2, <2>3, <2>4, LogStep
<1>5. CASE e.count = 0
  <2> DEFINE c == Call("status", h, Len(log) + 1, a, b)
  <2>1. c \in Calls /\ c.at = "status" /\ c.op = Len(log) + 1
    BY <1>3 DEF Call, Calls, Places
  <2>2. /\ call' = [call EXCEPT ![t] = c] /\ UNCHANGED <<fileMutex, tellg>>
        /\ fileState' = [fileState EXCEPT ![e.handle] = e.first + e.count]
    BY <1>1, <1>3, <1>5
  <2> HIDE DEF c
  <2> QED
    BY <1>1, <1>2, <2>1, <2>2, LogStep DEF CallInv, Typed
<1> QED
  BY <1>3, <1>4, <1>5

-----------------------------------------------------------------------------
(* Steps that fill an entry. *)

\* An entry keeps what it says of the range that was asked for.
LEMMA FillStep ==
    ASSUME CallInv, NEW op \in DOMAIN log, NEW e \in LogEntries, log' = [log EXCEPT ![op] = e],
           e.handle = log[op].handle, e.byteOffset = log[op].byteOffset,
           e.first = log[op].first, e.count = log[op].count,
           log[op].status = "success" => e.status = "success"
    PROVE  /\ log' \in Seq(LogEntries) /\ Len(log') = Len(log) /\ DOMAIN log' = DOMAIN log
           /\ \A i \in DOMAIN log:
                 /\ log'[i].handle = log[i].handle /\ log'[i].byteOffset = log[i].byteOffset
                 /\ log'[i].first = log[i].first /\ log'[i].count = log[i].count
                 /\ log[i].status = "success" => log'[i].status = "success"
           /\ log'[op] = e
           /\ ReadsTile'
<1>1. /\ log' \in Seq(LogEntries) /\ Len(log') = Len(log) /\ DOMAIN log' = DOMAIN log
      /\ log'[op] = e /\ \A i \in DOMAIN log \ {op}: log'[i] = log[i]
      /\ Len(log) \in Nat /\ DOMAIN log = 1..Len(log)
  BY DEF CallInv, Typed
<1>2. \A i \in DOMAIN log:
         /\ log'[i].handle = log[i].handle /\ log'[i].byteOffset = log[i].byteOffset
         /\ log'[i].first = log[i].first /\ log'[i].count = log[i].count
         /\ log[i].status = "success" => log'[i].status = "success"
  BY <1>1
<1>3. ReadsTile'
  <2> SUFFICES ASSUME NEW i \in DOMAIN log', NEW j \in DOMAIN log', i < j,
                      log'[i].handle = log'[j].handle, log'[j].byteOffset = Current,
                      \A k \in (i + 1)..(j - 1): log'[k].handle # log'[i].handle
               PROVE  log'[j].first = log'[i].first + log'[i].count
    BY DEF ReadsTile
  <2>1. \A k \in (i + 1)..(j - 1): k \in DOMAIN log
    BY <1>1
  <2> QED
    BY <1>1, <1>2, <2>1 DEF CallInv, ReadsTile
<1> QED
  BY <1>1, <1>2, <1>3

\* The log after a copy: the bytes that arrived are noted, if any did.
LEMMA CopyFacts ==
    ASSUME CallInv, NEW t \in Threads, CopyEnds(t)
    PROVE  /\ call[t].at = "copy" /\ call[t].op = Len(log) /\ Len(log) \in DOMAIN log
           /\ call[t].handle = log[Len(log)].handle
           /\ log' \in Seq(LogEntries) /\ Len(log') = Len(log) /\ DOMAIN log' = DOMAIN log
           /\ \A i \in DOMAIN log:
                 /\ log'[i].handle = log[i].handle /\ log'[i].byteOffset = log[i].byteOffset
                 /\ log'[i].first = log[i].first /\ log'[i].count = log[i].count
                 /\ log[i].status = "success" => log'[i].status = "success"
           /\ tellg' \in Nat /\ ReadsTile'
<1>1. call[t].at = "copy" /\ call[t].op = Len(log) /\ Len(log) \in DOMAIN log
      /\ call[t].handle = log[Len(log)].handle
  BY DEF CopyEnds, At, CallInv, HasEntry
<1>2. log[Len(log)] \in LogEntries /\ log[Len(log)].count \in Nat /\ tellg \in Nat
  BY <1>1, EntryTyped DEF CallInv, Typed
<1>3. CASE UNCHANGED <<log, tellg>>
  BY <1>1, <1>2, <1>3 DEF CallInv, Typed, ReadsTile
<1>4. CASE /\ log' = [log EXCEPT ![Len(log)].got = tellg]
           /\ tellg' = tellg + log[Len(log)].count
  <2> DEFINE e == [log[Len(log)] EXCEPT !.got = tellg]
  <2>1. /\ e \in LogEntries
        /\ e.handle = log[Len(log)].handle /\ e.byteOffset = log[Len(log)].byteOffset
        /\ e.first = log[Len(log)].first /\ e.count = log[Len(log)].count
        /\ e.status = log[Len(log)].status
    BY <1>2 DEF LogEntries
  <2>2. log' = [log EXCEPT ![Len(log)] = e]
    BY <1>4
  <2>3. tellg' \in Nat
    BY <1>2, <1>4
  <2>4. log[Len(log)].status = "success" => e.status = "success"
    BY <2>1
  <2> HIDE DEF e
  <2>5. /\ log' \in Seq(LogEntries) /\ Len(log') = Len(log) /\ DOMAIN log' = DOMAIN log
        /\ \A i \in DOMAIN log:
              /\ log'[i].handle = log[i].handle /\ log'[i].byteOffset = log[i].byteOffset
              /\ log'[i].first = log[i].first /\ log'[i].count = log[i].count
              /\ log[i].status = "success" => log'[i].status = "success"
        /\ ReadsTile'
    BY <1>1, <2>1, <2>2, <2>4, FillStep
  <2> QED
    BY <1>1, <2>3, <2>5
<1> QED
  BY <1>1, <1>3, <1>4 DEF CopyEnds, Copied

LEMMA CopyStep == ASSUME CallInv, NEW t \in Threads, CopyEnds(t) PROVE CallInv'
<1> DEFINE last == log[Len(log)]
           c == [call[t] EXCEPT !.at = "status"]
<1>1. /\ call[t].at = "copy" /\ call[t].op = Len(log) /\ Len(log) \in DOMAIN log
      /\ call[t].handle = last.handle
      /\ log' \in Seq(LogEntries) /\ Len(log') = Len(log) /\ DOMAIN log' = DOMAIN log
      /\ \A i \in DOMAIN log:
            /\ log'[i].handle = log[i].handle /\ log'[i].byteOffset = log[i].byteOffset
            /\ log'[i].first = log[i].first /\ log'[i].count = log[i].count
            /\ log[i].status = "success" => log'[i].status = "success"
      /\ tellg' \in Nat /\ ReadsTile'
  BY CopyFacts
<1>2. last.handle \in Handles /\ last.first \in Nat /\ last.count \in Nat
  BY <1>1, EntryTyped DEF CallInv, Typed
<1>3. /\ fileMutex' = NoThread /\ call' = [call EXCEPT ![t] = c]
      /\ fileState' = [fileState EXCEPT ![last.handle] = last.first + last.count]
      /\ UNCHANGED <<handleTable, opened, queued, signaled>>
  BY <1>1 DEF CopyEnds, Goes, Moves, completion
<1>4. c \in Calls /\ c.at = "status" /\ c.op = Len(log)
  <2>1. call[t] \in Calls /\ "status" \in Places
    BY DEF CallInv, Typed, Places
  <2>2. c \in Calls /\ c.at = "status" /\ c.op = call[t].op
    BY <2>1, GoesTyped, Zenon
  <2> QED
    BY <1>1, <2>2
<1>5. /\ fileState' \in [Handles -> Positions]
      /\ fileState'[last.handle] = last.first + last.count
      /\ \A h \in Handles \ {last.handle}: fileState'[h] = fileState[h]
  BY <1>2, <1>3 DEF CallInv, Typed, Positions
<1> HIDE DEF last, c
<1>6. call' \in [Threads -> Calls] /\ call'[t] = c /\ \A u \in Threads \ {t}: call'[u] = call[u]
  BY <1>3, <1>4 DEF CallInv, Typed
<1>7. \A u \in Threads \ {t}: call[u].at \notin {"table", "copy"}
  BY <1>1 DEF CallInv, MutexHeld
<1>8. Typed'
  BY <1>1, <1>3, <1>5, <1>6 DEF CallInv, Typed
<1>9. MutexHeld' /\ HasEntry' /\ ToldAfter'
  BY <1>1, <1>3, <1>4, <1>6, <1>7 DEF CallInv, MutexHeld, HasEntry, ToldAfter, Typed
<1>10. \A i \in DOMAIN log: log[i].handle \in Handles /\ log[i].handle <= opened
  BY EntryTyped DEF CallInv, Typed, WasOpened
<1>11. WasOpened'
  BY <1>1, <1>2, <1>3, <1>5, <1>10 DEF CallInv, WasOpened, last
<1>12. AtItsEnd'
  <2> SUFFICES ASSUME NEW i \in DOMAIN log, LastOf(i)'
               PROVE  fileState'[log'[i].handle] = log'[i].first + log'[i].count
    BY <1>1 DEF AtItsEnd
  <2>1. CASE i = Len(log)
    BY <1>1, <1>5, <2>1 DEF last
  <2>2. CASE i # Len(log)
    <3>1. /\ Len(log) \in (i + 1)..Len(log') /\ \A k \in (i + 1)..Len(log): k \in DOMAIN log
      BY <1>1, <2>2 DEF CallInv, Typed
    <3>2. log[i].handle # last.handle /\ LastOf(i)
      BY <1>1, <3>1 DEF LastOf, last
    <3>3. fileState[log[i].handle] = log[i].first + log[i].count
      BY <1>1, <1>7, <2>2, <3>2 DEF CallInv, AtItsEnd
    <3> QED
      BY <1>1, <1>5, <1>10, <3>2, <3>3
  <2> QED
    BY <2>1, <2>2
<1> QED
  BY <1>1, <1>8, <1>9, <1>11, <1>12 DEF CallInv

LEMMA StatusStep == ASSUME CallInv, NEW t \in Threads, StoreStatus(t) PROVE CallInv'
<1> DEFINE op == call[t].op
           e == [log[op] EXCEPT !.status = "success"]
<1>1. call[t] \in Calls /\ call[t].at = "status" /\ op \in DOMAIN log
  BY DEF StoreStatus, At, CallInv, HasEntry, Typed
<1>2. log[op] \in LogEntries
  BY <1>1, EntryTyped DEF CallInv, Typed
<1>3. /\ e \in LogEntries /\ e.handle = log[op].handle /\ e.byteOffset = log[op].byteOffset
      /\ e.first = log[op].first /\ e.count = log[op].count /\ e.status = "success"
  BY <1>2 DEF LogEntries
<1>4. PICK next \in {"apc", "event", "done"}:
         call' = [call EXCEPT ![t] = [call[t] EXCEPT !.at = next]]
  BY Zenon DEF StoreStatus, Goes, Moves
<1>5. next \in Places
  BY DEF Places
<1> DEFINE c == [call[t] EXCEPT !.at = next]
<1>6. c \in Calls /\ c.at = next /\ c.op = op
  BY <1>1, <1>5, GoesTyped
<1>7. /\ log' = [log EXCEPT ![op] = e] /\ call' = [call EXCEPT ![t] = c]
      /\ UNCHANGED <<handleTable, fileState, opened, fileMutex, tellg, queued, signaled>>
  BY <1>1, <1>4 DEF StoreStatus, handles, stream, completion
<1> HIDE DEF op, e, c
<1>8. /\ log' \in Seq(LogEntries) /\ Len(log') = Len(log) /\ DOMAIN log' = DOMAIN log
      /\ \A i \in DOMAIN log:
            /\ log'[i].handle = log[i].handle /\ log'[i].byteOffset = log[i].byteOffset
            /\ log'[i].first = log[i].first /\ log'[i].count = log[i].count
            /\ log[i].status = "success" => log'[i].status = "success"
      /\ log'[op] = e /\ ReadsTile'
  BY <1>1, <1>3, <1>7, FillStep
<1>9. call' \in [Threads -> Calls] /\ call'[t] = c /\ \A u \in Threads \ {t}: call'[u] = call[u]
  BY <1>6, <1>7 DEF CallInv, Typed
<1>10. Typed'
  BY <1>7, <1>8, <1>9 DEF CallInv, Typed
<1>11. MutexHeld' /\ HasEntry'
  BY <1>1, <1>6, <1>7, <1>8, <1>9 DEF CallInv, MutexHeld, HasEntry
<1>12. ToldAfter'
  BY <1>1, <1>3, <1>6, <1>7, <1>8, <1>9 DEF CallInv, ToldAfter, HasEntry, Typed
<1>13. WasOpened'
  BY <1>7, <1>8 DEF CallInv, WasOpened
<1>14. AtItsEnd'
  <2> SUFFICES ASSUME NEW i \in DOMAIN log, LastOf(i)'
               PROVE  \/ fileState[log[i].handle] = log[i].first + log[i].count
                      \/ \E u \in Threads: call'[u].at = "copy" /\ call'[u].op = i
    BY <1>7, <1>8 DEF AtItsEnd
  <2>1. \A k \in (i + 1)..Len(log): k \in DOMAIN log
    BY DEF CallInv, Typed
  <2>2. LastOf(i)
    BY <1>8, <2>1 DEF LastOf
  <2> QED
    BY <1>1, <1>9, <2>2 DEF CallInv, AtItsEnd
<1> QED
  BY <1>8, <1>10, <1>11, <1>12, <1>13, <1>14 DEF CallInv

-----------------------------------------------------------------------------
LEMMA CallStep == CallInv /\ [Next]_vars => CallInv'
<1> SUFFICES ASSUME CallInv, [Next]_vars PROVE CallInv'
  OBVIOUS
<1>1. CASE UNCHANGED vars
  BY <1>1 DEF vars, CallInv, Typed, MutexHeld, HasEntry, WasOpened, AtItsEnd, LastOf,
     ToldAfter, ReadsTile
<1>2. ASSUME NEW t \in Threads, LookUp(t) \/ ReadTable(t) \/ NtCreateFile(t) PROVE CallInv'
  BY <1>2, LookUpStep, ReadTableStep, CreateStep
<1>3. ASSUME NEW t \in Threads, NEW h \in Handles, NtClose(t, h) PROVE CallInv'
  BY <1>3, CloseStep
<1>4. ASSUME NEW t \in Threads, NEW h \in Handles, NEW o \in Offsets,
             NtSetInformationFile(t, h, o)
      PROVE  CallInv'
  BY <1>4, SeekStep
<1>5. ASSUME NEW t \in Threads, NtReadFile(t) PROVE CallInv'
  <2>1. ASSUME NEW h \in Handles, NEW o \in Offsets \cup {Current}, NEW l \in Lengths,
               NEW a \in BOOLEAN, NEW e \in BOOLEAN, ReadBegins(t, h, o, l, a, e)
        PROVE  CallInv'
    BY <2>1, ReadStep
  <2>2. CASE CopyEnds(t)
    BY <2>2, CopyStep
  <2>3. CASE StoreStatus(t)
    BY <2>3, StatusStep
  <2>4. CASE QueueApc(t) \/ SignalEvent(t) \/ Returns(t)
    BY <2>4, TellStep
  <2> QED
    BY <1>5, <2>1, <2>2, <2>3, <2>4, Zenon DEF NtReadFile
<1> QED
  BY <1>1, <1>2, <1>3, <1>4, <1>5, Zenon DEF Next

\* The flag of a failed stream
FlagTyped == failbit \in BOOLEAN

LEMMA FlagStep == FlagTyped /\ [Next]_vars => FlagTyped'
<1> SUFFICES ASSUME FlagTyped, [Next]_vars PROVE failbit' \in {failbit, TRUE}
  BY Zenon DEF FlagTyped
<1>1. CASE UNCHANGED vars
  BY <1>1, Zenon DEF vars
<1>2. ASSUME NEW t \in Threads, LookUp(t) \/ ReadTable(t) \/ NtCreateFile(t)
      PROVE  failbit' \in {failbit, TRUE}
  BY <1>2, Zenon DEF LookUp, ReadTable, NtCreateFile, stream
<1>3. ASSUME NEW t \in Threads, NEW h \in Handles, NtClose(t, h)
      PROVE  failbit' \in {failbit, TRUE}
  BY <1>3, Zenon DEF NtClose, stream
<1>4. ASSUME NEW t \in Threads, NEW h \in Handles, NEW o \in Offsets,
             NtSetInformationFile(t, h, o)
      PROVE  failbit' \in {failbit, TRUE}
  BY <1>4, Zenon DEF NtSetInformationFile, stream
<1>5. ASSUME NEW t \in Threads, CopyEnds(t) \/ StoreStatus(t)
      PROVE  failbit' \in {failbit, TRUE}
  BY <1>5, Zenon DEF CopyEnds, Copied, StoreStatus, stream
<1>6. ASSUME NEW t \in Threads, QueueApc(t) \/ SignalEvent(t) \/ Returns(t)
      PROVE  failbit' \in {failbit, TRUE}
  BY <1>6, Zenon DEF QueueApc, SignalEvent, Returns, stream
<1>7. ASSUME NEW t \in Threads, NtReadFile(t) PROVE failbit' \in {failbit, TRUE}
  <2>1. ASSUME NEW h \in Handles, NEW o \in Offsets \cup {Current}, NEW l \in Lengths,
               NEW a \in BOOLEAN, NEW e \in BOOLEAN, ReadBegins(t, h, o, l, a, e)
        PROVE  failbit' \in {failbit, TRUE}
    <3>1. UNCHANGED failbit
      BY <2>1 DEF ReadBegins
    <3> QED
      BY <3>1, Zenon
  <2> QED
    BY <1>5, <1>6, <1>7, <2>1, Zenon DEF NtReadFile
<1> QED
  BY <1>1, <1>2, <1>3, <1>4, <1>7, Zenon DEF Next

\* Every reachable state of the file calls is well typed, and a read that copies holds
\* the stream.
THEOREM TypeCorrect == Spec => []TypeOK
<1>1. Init => FlagTyped
  BY Zenon DEF Init, FlagTyped
<1>2. CallInv /\ FlagTyped => TypeOK
  <2> SUFFICES ASSUME CallInv, FlagTyped PROVE TypeOK
    OBVIOUS
  <2>1. \A t \in Threads: call[t].at \in Places /\ (call[t].at = "copy" => fileMutex = t)
    BY DEF CallInv, Typed, MutexHeld, Calls
  <2>2. queued \subseteq Ops /\ signaled \subseteq Ops
    BY FileAssumption DEF CallInv, Typed, Ops
  <2> QED
    BY <2>1, <2>2 DEF CallInv, Typed, FlagTyped, TypeOK, At, Places
<1> QED
  BY <1>1, <1>2, CallInit, CallStep, FlagStep, PTL DEF Spec

\* Reads without an offset tile the file, for any threads that share the handle.
THEOREM ReadsAlwaysTile == Spec => []ReadsTile
<1>1. CallInv => ReadsTile
  BY DEF CallInv
<1> QED
  BY <1>1, CallInit, CallStep, PTL DEF Spec

\* Whoever is told of a read finds the status block filled.
THEOREM ToldBehindTheStatus == Spec => []ToldWhenDone
<1>1. CallInv => ToldWhenDone
  BY DEF CallInv, ToldAfter, ToldWhenDone
<1> QED
  BY <1>1, CallInit, CallStep, PTL DEF Spec

-----------------------------------------------------------------------------
(* What arrives. *)

\* The image holds the directory table and the file.
WholeImage == Table + TableSize <= ImageSize /\ Start + FileSize <= ImageSize

\* Between its seek and its read a call finds the stream where it has put it, and the
\* range of an entry lies in the file.
InPlace ==
    /\ ~failbit
    /\ \A t \in Threads:
          /\ call[t].at = "table" => tellg = Table
          /\ call[t].at = "copy" => /\ tellg = Start + log[call[t].op].first
                                    /\ log[call[t].op].count > 0
          /\ call[t].at = "status" =>
                (log[call[t].op].count > 0 =>
                    log[call[t].op].got = Start + log[call[t].op].first)
    /\ \A i \in DOMAIN log: log[i].count > 0 => log[i].first + log[i].count <= FileSize
    /\ GotItsBytes

LEMMA InPlaceInit == Init => InPlace
<1> SUFFICES ASSUME Init PROVE InPlace
  OBVIOUS
<1>1. \A t \in Threads: call[t].at = "none"
  BY NoCallTyped DEF Init
<1> QED
  BY <1>1 DEF Init, InPlace, GotItsBytes

\* A call that does nothing to the stream or the log and does not begin to use them
LEMMA AsideStep ==
    ASSUME CallInv, InPlace, NEW t \in Threads, NEW c \in Calls, call' = [call EXCEPT ![t] = c],
           c.at \notin {"table", "copy", "status"}, UNCHANGED <<log, tellg, failbit>>
    PROVE  InPlace'
<1>1. call'[t] = c /\ \A u \in Threads \ {t}: call'[u] = call[u]
  BY DEF CallInv, Typed
<1> QED
  BY <1>1 DEF InPlace, GotItsBytes

LEMMA LookUpInPlace ==
    ASSUME CallInv, InPlace, NEW t \in Threads, LookUp(t) PROVE InPlace'
<1> DEFINE c == Call("table", 0, 0, FALSE, FALSE)
<1>1. c.at = "table"
  BY Zenon DEF Call
<1>2. /\ call' = [call EXCEPT ![t] = c] /\ fileMutex = NoThread /\ tellg' = Table
      /\ UNCHANGED <<log, failbit>>
  BY DEF LookUp, Moves, Seek, InPlace
<1> HIDE DEF c
<1>3. call'[t] = c /\ \A u \in Threads \ {t}: call'[u] = call[u]
  BY <1>2 DEF CallInv, Typed
<1>4. \A u \in Threads: call[u].at \notin {"table", "copy"}
  BY <1>2, FileAssumption DEF CallInv, MutexHeld
<1> QED
  BY <1>1, <1>2, <1>3, <1>4 DEF InPlace, GotItsBytes

LEMMA TableInPlace ==
    ASSUME WholeImage, CallInv, InPlace, NEW t \in Threads, ReadTable(t) PROVE InPlace'
<1>1. call[t].at = "table" /\ tellg = Table
  BY DEF ReadTable, At, InPlace
<1>2. \A u \in Threads \ {t}: call[u].at \notin {"table", "copy"}
  BY <1>1 DEF CallInv, MutexHeld
<1>3. ~(failbit \/ tellg + TableSize > ImageSize)
  BY <1>1, FileAssumption DEF WholeImage, InPlace
<1>4. /\ call' = [call EXCEPT ![t] = [call[t] EXCEPT !.at = "open"]]
      /\ UNCHANGED <<failbit, log>>
  BY <1>1, <1>3 DEF ReadTable, Goes, Moves
<1>5. call'[t].at = "open" /\ \A u \in Threads \ {t}: call'[u] = call[u]
  BY <1>1, <1>4, GoesTyped DEF CallInv, Typed, Places
<1> QED
  BY <1>2, <1>4, <1>5 DEF InPlace, GotItsBytes

LEMMA ReadInPlace ==
    ASSUME CallInv, InPlace, NEW t \in Threads, NEW h \in Handles,
           NEW o \in Offsets \cup {Current}, NEW l \in Lengths, NEW a \in BOOLEAN,
           NEW b \in BOOLEAN, ReadBegins(t, h, o, l, a, b)
    PROVE  InPlace'
<1>1. PICK e \in LogEntries:
             /\ StateFree /\ Len(log) < MaxOps /\ call[t].at = "none" /\ log' = Append(log, e)
             /\ e.handle = h /\ h <= opened /\ e.status = "none"
             /\ o = Current => e.first = fileState[h]
             /\ e.byteOffset = o
             /\ e.count > 0 =>
                   /\ e.first + e.count <= FileSize
                   /\ fileMutex = NoThread /\ fileMutex' = t /\ Seek(Start + e.first)
                   /\ call' = [call EXCEPT ![t] = Call("copy", h, Len(log) + 1, a, b)]
                   /\ fileState' = fileState
             /\ e.count = 0 =>
                   /\ fileState' = [fileState EXCEPT ![h] = e.first]
                   /\ call' = [call EXCEPT ![t] = Call("status", h, Len(log) + 1, a, b)]
                   /\ UNCHANGED <<fileMutex, tellg>>
  BY ReadFacts, SMTT(30)
<1>2. UNCHANGED failbit
  BY DEF ReadBegins
<1>3. e.first \in Nat /\ e.count \in Nat
  BY DEF LogEntries
<1>4. /\ DOMAIN log' = DOMAIN log \cup {Len(log) + 1} /\ Len(log) + 1 \notin DOMAIN log
      /\ \A i \in DOMAIN log: log'[i] = log[i]
      /\ log'[Len(log) + 1] = e
  BY <1>1, Appended DEF CallInv, Typed
<1>5. \A u \in Threads:
         call[u].at \in {"copy", "status"} => call[u].op \in DOMAIN log
  BY DEF CallInv, HasEntry
<1>6. /\ \A i \in DOMAIN log': log'[i].count > 0 => log'[i].first + log'[i].count <= FileSize
      /\ GotItsBytes'
  BY <1>1, <1>3, <1>4 DEF InPlace, GotItsBytes
<1>7. CASE e.count > 0
  <2> DEFINE c == Call("copy", h, Len(log) + 1, a, b)
  <2>1. c.at = "copy" /\ c.op = Len(log) + 1
    BY DEF Call
  <2>2. call' = [call EXCEPT ![t] = c] /\ fileMutex = NoThread /\ Seek(Start + e.first)
    BY <1>1, <1>7
  <2>3. tellg' = Start + e.first
    BY <2>2 DEF Seek, InPlace
  <2> HIDE DEF c
  <2>4. call'[t] = c /\ \A u \in Threads \ {t}: call'[u] = call[u]
    BY <2>2 DEF CallInv, Typed
  <2>5. \A u \in Threads: call[u].at \notin {"table", "copy"}
    BY <2>2, FileAssumption DEF CallInv, MutexHeld
  <2> QED
    BY <1>2, <1>4, <1>5, <1>6, <1>7, <2>1, <2>3, <2>4, <2>5 DEF InPlace
<1>8. CASE e.count = 0
  <2> DEFINE c == Call("status", h, Len(log) + 1, a, b)
  <2>1. c.at = "status" /\ c.op = Len(log) + 1
    BY DEF Call
  <2>2. call' = [call EXCEPT ![t] = c] /\ UNCHANGED tellg
    BY <1>1, <1>8
  <2> HIDE DEF c
  <2>3. call'[t] = c /\ \A u \in Threads \ {t}: call'[u] = call[u]
    BY <2>2 DEF CallInv, Typed
  <2> QED
    BY <1>2, <1>4, <1>5, <1>6, <1>8, <2>1, <2>2, <2>3 DEF InPlace
<1> QED
  BY <1>3, <1>7, <1>8

LEMMA EndsInside ==
    ASSUME NEW start \in Nat, NEW first \in Nat, NEW count \in Nat, NEW size \in Nat,
           NEW image \in Nat, first + count <= size, start + size <= image,
           NEW at, at = start + first
    PROVE  ~(at + count > image)
OBVIOUS

LEMMA CopyInPlace ==
    ASSUME WholeImage, CallInv, InPlace, NEW t \in Threads, CopyEnds(t) PROVE InPlace'
<1> DEFINE op == Len(log)
           c == [call[t] EXCEPT !.at = "status"]
           e == [log[op] EXCEPT !.got = tellg]
<1>1. call[t].at = "copy" /\ call[t].op = op /\ op \in DOMAIN log
  BY DEF CopyEnds, At, CallInv, HasEntry
<1>2. tellg = Start + log[op].first
  BY <1>1 DEF InPlace
<1>3. log[op] \in LogEntries /\ log[op].first \in Nat /\ log[op].count \in Nat /\ tellg \in Nat
  BY <1>1, EntryTyped DEF CallInv, Typed
<1>4. ~(failbit \/ tellg + log[op].count > ImageSize)
  <2>1. log[op].count > 0 => log[op].first + log[op].count <= FileSize
    BY <1>1 DEF InPlace
  <2>2. Start \in Nat /\ FileSize \in Nat /\ ImageSize \in Nat /\ Start + FileSize <= ImageSize
    BY FileAssumption DEF WholeImage
  <2>3. log[op].count > 0
    BY <1>1 DEF InPlace
  <2>4. ~(tellg + log[op].count > ImageSize)
    BY <1>2, <1>3, <2>1, <2>2, <2>3, EndsInside, Zenon
  <2>5. ~failbit
    BY DEF InPlace
  <2> QED
    BY <2>4, <2>5, Zenon
<1>5. log' = [log EXCEPT ![op].got = tellg] /\ UNCHANGED failbit
      /\ call' = [call EXCEPT ![t] = c]
  BY <1>1, <1>4 DEF CopyEnds, Copied, Goes, Moves
<1>6. /\ e \in LogEntries /\ e.handle = log[op].handle /\ e.byteOffset = log[op].byteOffset
      /\ e.first = log[op].first /\ e.count = log[op].count /\ e.status = log[op].status
      /\ e.got = tellg
  BY <1>3 DEF LogEntries
<1>7. log' = [log EXCEPT ![op] = e]
  BY <1>5
<1>8. c.at = "status" /\ c.op = op
  BY <1>1, GoesTyped DEF CallInv, Typed, Places
<1> HIDE DEF c, e, op
<1>9. /\ DOMAIN log' = DOMAIN log /\ log'[op] = e
      /\ \A i \in DOMAIN log \ {op}: log'[i] = log[i]
  BY <1>1, <1>7 DEF CallInv, Typed
<1>10. call'[t] = c /\ \A u \in Threads \ {t}: call'[u] = call[u]
  BY <1>5 DEF CallInv, Typed
<1>11. \A u \in Threads \ {t}: call[u].at \notin {"table", "copy"}
  BY <1>1 DEF CallInv, MutexHeld
<1>12. /\ \A i \in DOMAIN log': log'[i].count > 0 => log'[i].first + log'[i].count <= FileSize
       /\ GotItsBytes'
  BY <1>2, <1>6, <1>9 DEF InPlace, GotItsBytes
<1>13. \A u \in Threads: call'[u].at = "status" =>
          (log'[call'[u].op].count > 0 =>
              log'[call'[u].op].got = Start + log'[call'[u].op].first)
  <2> SUFFICES ASSUME NEW u \in Threads, call'[u].at = "status",
                      log'[call'[u].op].count > 0
               PROVE  log'[call'[u].op].got = Start + log'[call'[u].op].first
    OBVIOUS
  <2>1. CASE call'[u].op = op
    BY <1>2, <1>6, <1>9, <2>1
  <2>2. CASE call'[u].op # op
    <3>1. u # t /\ call'[u] = call[u]
      BY <1>8, <1>10, <2>2
    <3>2. call[u].op \in DOMAIN log
      BY <3>1 DEF CallInv, HasEntry
    <3> QED
      BY <1>9, <2>2, <3>1, <3>2 DEF InPlace
  <2> QED
    BY <2>1, <2>2
<1> QED
  BY <1>4, <1>5, <1>8, <1>10, <1>11, <1>12, <1>13 DEF InPlace

LEMMA StatusInPlace ==
    ASSUME CallInv, InPlace, NEW t \in Threads, StoreStatus(t) PROVE InPlace'
<1> DEFINE op == call[t].op
           e == [log[op] EXCEPT !.status = "success"]
<1>1. call[t] \in Calls /\ call[t].at = "status" /\ op \in DOMAIN log
  BY DEF StoreStatus, At, CallInv, HasEntry, Typed
<1>2. log[op] \in LogEntries
  BY <1>1, EntryTyped DEF CallInv, Typed
<1>3. /\ e.first = log[op].first /\ e.count = log[op].count /\ e.got = log[op].got
  BY <1>2 DEF LogEntries
<1>4. PICK next \in {"apc", "event", "done"}:
         call' = [call EXCEPT ![t] = [call[t] EXCEPT !.at = next]]
  BY Zenon DEF StoreStatus, Goes, Moves
<1>5. call'[t].at = next /\ \A u \in Threads \ {t}: call'[u] = call[u]
  <2>1. next \in Places
    BY DEF Places
  <2> QED
    BY <1>1, <1>4, <2>1, GoesTyped DEF CallInv, Typed
<1>6. log' = [log EXCEPT ![op] = e] /\ UNCHANGED <<tellg, failbit>>
  BY <1>1 DEF StoreStatus, stream
<1> HIDE DEF e
<1>7. /\ DOMAIN log' = DOMAIN log
      /\ \A i \in DOMAIN log: /\ log'[i].first = log[i].first /\ log'[i].count = log[i].count
                              /\ log'[i].got = log[i].got
                              /\ i # op => log'[i] = log[i]
  BY <1>1, <1>3, <1>6 DEF CallInv, Typed
<1>8. log[op].count > 0 => log[op].got = Start + log[op].first
  BY <1>1 DEF InPlace
<1>9. \A i \in DOMAIN log: log[i].count > 0 => log[i].first + log[i].count <= FileSize
  BY DEF InPlace
<1>10. GotItsBytes'
  <2> SUFFICES ASSUME NEW i \in DOMAIN log, log'[i].status = "success", log'[i].count > 0
               PROVE  /\ log'[i].got = Start + log'[i].first
                      /\ log'[i].first + log'[i].count <= FileSize
    BY <1>7 DEF GotItsBytes
  <2>1. CASE i = op
    BY <1>7, <1>8, <1>9, <2>1
  <2>2. CASE i # op
    BY <1>7, <2>2 DEF InPlace, GotItsBytes
  <2> QED
    BY <2>1, <2>2
<1>11. \A u \in Threads: call[u].at \in {"copy", "status"} => call[u].op \in DOMAIN log
  BY DEF CallInv, HasEntry
<1> HIDE DEF op
<1> QED
  BY <1>4, <1>5, <1>6, <1>7, <1>9, <1>10, <1>11 DEF InPlace

LEMMA BytesStep == WholeImage /\ CallInv /\ InPlace /\ [Next]_vars => InPlace'
<1> SUFFICES ASSUME WholeImage, CallInv, InPlace, [Next]_vars PROVE InPlace'
  OBVIOUS
<1>1. CASE UNCHANGED vars
  BY <1>1 DEF vars, InPlace, GotItsBytes
<1>2. ASSUME NEW t \in Threads, LookUp(t) \/ ReadTable(t) PROVE InPlace'
  BY <1>2, LookUpInPlace, TableInPlace
<1>3. ASSUME NEW t \in Threads, NtCreateFile(t) PROVE InPlace'
  <2>1. call' = [call EXCEPT ![t] = NoCall] /\ UNCHANGED <<log, tellg, failbit>>
    BY <1>3 DEF NtCreateFile, Moves, stream
  <2> QED
    BY <2>1, NoCallTyped, AsideStep
<1>4. ASSUME NEW t \in Threads, NEW h \in Handles, NtClose(t, h) PROVE InPlace'
  <2>1. UNCHANGED <<call, log, tellg, failbit>>
    BY <1>4 DEF NtClose, stream
  <2> QED
    BY <2>1 DEF InPlace, GotItsBytes
<1>5. ASSUME NEW t \in Threads, NEW h \in Handles, NEW o \in Offsets,
             NtSetInformationFile(t, h, o)
      PROVE  InPlace'
  <2> DEFINE e == Entry("seek", h, o, o, 0)
  <2>1. o \in Nat
    BY FileAssumption
  <2>2. log' = Append(log, e) /\ UNCHANGED <<call, tellg, failbit>>
    BY <1>5 DEF NtSetInformationFile, stream
  <2>3. e \in LogEntries /\ e.count = 0
    BY <2>1 DEF Entry, LogEntries, NoEntry
  <2> HIDE DEF e
  <2>4. /\ DOMAIN log' = DOMAIN log \cup {Len(log) + 1}
        /\ \A i \in DOMAIN log: log'[i] = log[i]
        /\ log'[Len(log) + 1] = e
    BY <2>2, <2>3, Appended DEF CallInv, Typed
  <2>5. \A u \in Threads: call[u].at \in {"copy", "status"} => call[u].op \in DOMAIN log
    BY DEF CallInv, HasEntry
  <2> QED
    BY <2>2, <2>3, <2>4, <2>5 DEF InPlace, GotItsBytes
<1>6. ASSUME NEW t \in Threads, NtReadFile(t) PROVE InPlace'
  <2>1. ASSUME NEW h \in Handles, NEW o \in Offsets \cup {Current}, NEW l \in Lengths,
               NEW a \in BOOLEAN, NEW e \in BOOLEAN, ReadBegins(t, h, o, l, a, e)
        PROVE  InPlace'
    BY <2>1, ReadInPlace
  <2>2. CASE CopyEnds(t)
    BY <2>2, CopyInPlace
  <2>3. CASE StoreStatus(t)
    BY <2>3, StatusInPlace
  <2>4. CASE QueueApc(t) \/ SignalEvent(t)
    <3>1. PICK next \in {"event", "done"}:
             call' = [call EXCEPT ![t] = [call[t] EXCEPT !.at = next]]
      BY <2>4, Zenon DEF QueueApc, SignalEvent, Goes, Moves
    <3>2. next \in Places /\ call[t] \in Calls
      BY DEF Places, CallInv, Typed
    <3> DEFINE c == [call[t] EXCEPT !.at = next]
    <3>3. c \in Calls /\ c.at = next
      BY <3>2, GoesTyped
    <3>4. call' = [call EXCEPT ![t] = c] /\ c.at \in {"event", "done"}
      BY <3>1, <3>3, Zenon
    <3>5. UNCHANGED <<log, tellg, failbit>>
      BY <2>4 DEF QueueApc, SignalEvent, stream
    <3> HIDE DEF c
    <3> QED
      BY <3>3, <3>4, <3>5, AsideStep
  <2>5. CASE Returns(t)
    <3>1. call' = [call EXCEPT ![t] = NoCall] /\ UNCHANGED <<log, tellg, failbit>>
      BY <2>5 DEF Returns, Moves, stream
    <3> QED
      BY <3>1, NoCallTyped, AsideStep
  <2> QED
    BY <1>6, <2>1, <2>2, <2>3, <2>4, <2>5, Zenon DEF NtReadFile
<1> QED
  BY <1>1, <1>2, <1>3, <1>4, <1>5, <1>6, Zenon DEF Next

\* On an image that is whole, a read that reports success has got the bytes it asked for,
\* whatever other reads and look-ups use the stream.
THEOREM ReadsGetTheirBytes == ASSUME WholeImage PROVE Spec => []GotItsBytes
<1>1. InPlace => GotItsBytes
  BY DEF InPlace
<1>2. CallInv /\ InPlace /\ [Next]_vars => InPlace'
  BY BytesStep
<1> QED
  BY <1>1, <1>2, CallInit, CallStep, InPlaceInit, PTL DEF Spec

-----------------------------------------------------------------------------
(* The look-up of a path, which hands the file calls their entry: Xdvdfs,   *)
(* for any disc.                                                            *)

\* A set of naturals has a least element: what induction there is rests on this.
LEMMA LeastOf ==
    ASSUME NEW T \in SUBSET Nat, T # {}
    PROVE  \E x \in T: \A y \in T: x <= y
<1> DEFINE R == OpToRel(<, Nat)
<1>1. IsWellFoundedOn(R, Nat)
  BY NatLessThanWellFounded
<1>2. \A x, y \in Nat: <<x, y>> \in R <=> x < y
  BY DEF OpToRel
<1> HIDE DEF R
<1>3. PICK x \in T: \A y \in T: <<y, x>> \notin R
  BY <1>1, WFMin
<1>4. ASSUME NEW y \in T
      PROVE  x <= y
  <2>1. x \in Nat /\ y \in Nat
    OBVIOUS
  <2>2. ~(y < x)
    BY <1>2, <1>3, <2>1, Zenon
  <2> QED BY <2>1, <2>2
<1> QED BY <1>4

\* What is known of the disc and of the call: both tables are tables.
DiscTyped ==
    /\ root \in Tables(MaxEntries) /\ sub \in Tables(MaxEntries - 1)
    /\ path \in UNION {[1..k -> Names]: k \in 0..2}
    /\ part \in 1..2 /\ slot \in 0..MaxEntries
    /\ phase \in {"tree", "linear", "found", "missing", "done"}

\* A search in the subdirectory is for the second part, behind a directory that was found.
Reached ==
    /\ path = <<>> => part = 1 /\ phase \in {"tree", "done"}
    /\ path # <<>> => part <= Len(path)
    /\ part = 2 => Has(root, path[1]) /\ The(root, path[1]) = subName

FoundIt ==
    phase = "found" => current \in Entries(Searched) /\ Same(current, Want)

\* The walk is never beside an entry of exactly the name that is wanted.
Comes(table, n, i) == \A j \in DOMAIN table: table[j] = n => j = i \/ j \in Below(table, i)
WalkComes ==
    phase = "tree" =>
        /\ Entries(Searched) # {} => Readable
        /\ path # <<>> => Comes(Searched, Want, slot + 1)

\* It gives up when there is no such entry, and the scan then looks for another case.
WalkMissed == phase \in {"linear", "missing"} => Want \notin Entries(Searched)

ScanPassed ==
    phase = "linear" =>
        /\ slot <= Len(Searched)
        /\ \A j \in 1..slot:
              Searched[j] # Padding /\ ~Same(Searched[j], Want)

\* An entry the scan missed lies behind padding.
ScanMissed ==
    phase = "missing" =>
        \A j \in DOMAIN Searched:
            Same(Searched[j], Want) =>
                \E i \in DOMAIN Searched: i < j /\ Searched[i] = Padding

LookUpInv ==
    /\ DiscTyped /\ Reached /\ FoundIt
    /\ WalkComes /\ WalkMissed /\ ScanPassed /\ ScanMissed
    /\ ResolvesRight

LEMMA TableTyped ==
    ASSUME XdvdfsAssumption, NEW n \in Nat, NEW table \in Tables(n)
    PROVE  /\ Len(table) \in 0..n /\ DOMAIN table = 1..Len(table)
           /\ \A i \in DOMAIN table: table[i] \in Names \cup {0} /\ table[i] \in Nat
           /\ IsTable(table)
<1>1. PICK k \in 0..n: table \in [1..k -> Names \cup {0}] /\ IsTable(table)
  BY DEF Tables, Padding
<1>2. table \in Seq(Names \cup {0}) /\ Len(table) = k
  BY <1>1
<1>3. Names \cup {0} \subseteq Nat
  BY DEF XdvdfsAssumption
<1>4. Len(table) \in 0..n /\ DOMAIN table = 1..Len(table)
  BY <1>2
<1>5. \A i \in DOMAIN table: table[i] \in Names \cup {0}
  BY <1>2
<1> QED
  BY <1>1, <1>3, <1>4, <1>5

\* Where an entry lies
LEMMA EntryHasSlot ==
    ASSUME NEW table, NEW e
    PROVE  e \in Entries(table) <=> e # 0 /\ \E i \in DOMAIN table: table[i] = e
BY DEF Entries, Padding

\* A name without case is that of one entry.
LEMMA OneEntry ==
    ASSUME NEW table, IsTable(table), NEW n, NEW e \in Entries(table),
           Same(e, n)
    PROVE  Has(table, n) /\ The(table, n) = e
<1>1. Has(table, n)
  BY DEF Has
<1>2. ASSUME NEW d \in Entries(table), Same(d, n)
      PROVE  d = e
  <2>1. PICK i \in DOMAIN table: table[i] = e
    BY EntryHasSlot
  <2>2. PICK j \in DOMAIN table: table[j] = d
    BY EntryHasSlot
  <2>3. Same(table[i], table[j])
    BY <1>2, <2>1, <2>2 DEF Same
  <2>4. i = j
    BY <2>3 DEF IsTable
  <2> QED
    BY <2>1, <2>2, <2>4
<1>3. The(table, n) \in Entries(table) /\ Same(The(table, n), n)
  BY DEF The
<1> QED
  BY <1>1, <1>2, <1>3

\* A link leads to the first slot of the set, and there is one but for the empty set.
LEMMA LinkLeadsToFirst ==
    ASSUME NEW i \in Nat \ {0}, NEW S \in SUBSET Nat, \A j \in S: j > i
    PROVE  /\ S # {} => /\ Link(S) # 0 /\ Link(S) \in Nat /\ Link(S) + 1 \in S
                        /\ \A k \in S: Link(S) + 1 <= k
           /\ S = {} => Link(S) = 0
<1>1. ASSUME S # {}
      PROVE  /\ Link(S) # 0 /\ Link(S) \in Nat /\ Link(S) + 1 \in S
             /\ \A k \in S: Link(S) + 1 <= k
  <2> DEFINE m == CHOOSE j \in S: \A k \in S: j <= k
  <2>1. \E j \in S: \A k \in S: j <= k
    BY <1>1, LeastOf
  <2>2. m \in S /\ \A k \in S: m <= k
    BY <2>1
  <2>3. Link(S) = m - 1
    BY <1>1 DEF Link
  <2> HIDE DEF m
  <2>4. m \in Nat /\ m > 1
    BY <2>2
  <2>5. Link(S) + 1 = m
    BY <2>3, <2>4
  <2> QED
    BY <2>2, <2>3, <2>4, <2>5
<1>2. S = {} => Link(S) = 0
  BY DEF Link
<1> QED
  BY <1>1, <1>2

\* Slots before the first one of a subtree do not separate two of its slots.
LEMMA StaysBelow ==
    ASSUME NEW table, DOMAIN table = 1..Len(table), Len(table) \in Nat,
           \A k \in DOMAIN table: table[k] \in Nat,
           NEW i \in DOMAIN table,
           NEW m \in Below(table, i), NEW j \in Below(table, i),
           table[m] < table[i] <=> table[j] < table[i],
           table[m] # table[i], table[j] # table[i],
           \A k \in Below(table, i):
               k < m => table[k] = table[i] \/ ~(table[k] < table[i] <=> table[m] < table[i]),
           m < j
    PROVE  j \in Below(table, m)
<1>1. /\ m \in (i + 1)..Len(table) /\ j \in (i + 1)..Len(table)
      /\ table[m] # 0 /\ table[j] # 0
  BY DEF Below, Padding
<1>2. \A k \in 1..(i - 1): table[k] # 0 =>
          /\ table[k] < table[i] <=> table[k] < table[m]
          /\ table[k] < table[i] <=> table[k] < table[j]
  BY DEF Below, Padding
<1>3. ASSUME NEW k \in 1..(m - 1), table[k] # 0
      PROVE  table[k] < table[m] <=> table[k] < table[j]
  <2>1. k \in DOMAIN table /\ table[k] \in Nat /\ table[i] \in Nat
        /\ table[m] \in Nat /\ table[j] \in Nat
    BY <1>1
  <2>2. CASE k < i
    BY <1>2, <1>3, <2>2
  <2>3. CASE k = i
    BY <2>1, <2>3
  <2>4. CASE k > i /\ k \in Below(table, i)
    <3>1. table[k] = table[i] \/ ~(table[k] < table[i] <=> table[m] < table[i])
      BY <1>3, <2>4, <1>1
    <3> QED
      BY <2>1, <3>1
  <2>5. CASE k > i /\ k \notin Below(table, i)
    <3>1. k \in (i + 1)..Len(table)
      BY <1>1, <1>3, <2>5
    <3>2. PICK q \in 1..(i - 1):
            table[q] # 0 /\ ~(table[q] < table[i] <=> table[q] < table[k])
      BY <1>3, <2>5, <3>1 DEF Below, Padding
    <3>3. table[q] \in Nat
      BY <3>2, <1>1
    <3>4. /\ table[q] < table[i] <=> table[q] < table[m]
          /\ table[q] < table[i] <=> table[q] < table[j]
      BY <1>2, <3>2
    <3>5. CASE table[q] < table[i]
      <4>1. ~(table[q] < table[k]) /\ table[q] < table[m] /\ table[q] < table[j]
        BY <3>2, <3>4, <3>5
      <4> QED
        BY <2>1, <3>3, <4>1
    <3>6. CASE ~(table[q] < table[i])
      <4>1. table[q] < table[k] /\ ~(table[q] < table[m]) /\ ~(table[q] < table[j])
        BY <3>2, <3>4, <3>6
      <4> QED
        BY <2>1, <3>3, <4>1
    <3> QED
      BY <3>5, <3>6
  <2> QED
    BY <2>1, <2>2, <2>3, <2>4, <2>5, <1>1
<1> QED
  BY <1>1, <1>3 DEF Below, Padding

\* The part that is wanted
LEMMA PathTyped ==
    ASSUME DiscTyped, Reached, path # <<>>
    PROVE  Len(path) \in {1, 2} /\ part \in {1, 2} /\ part <= Len(path) /\ Want \in Names
<1>1. PICK k \in 0..2: path \in [1..k -> Names]
  BY DEF DiscTyped
<1>2. Len(path) = k /\ path \in Seq(Names)
  BY <1>1
<1>3. k # 0
  BY <1>2
<1>4. part \in {1, 2} /\ part <= k
  BY <1>2 DEF Reached, DiscTyped
<1> QED
  BY <1>1, <1>2, <1>3, <1>4 DEF Want

\* The table that is searched and the name that is wanted
LEMMA InTable ==
    ASSUME XdvdfsAssumption, DiscTyped, Reached
    PROVE  /\ MaxEntries \in Nat /\ slot \in Nat
           /\ Len(Searched) \in 0..MaxEntries /\ DOMAIN Searched = 1..Len(Searched)
           /\ \A i \in DOMAIN Searched: Searched[i] \in Nat
           /\ IsTable(Searched)
           /\ path # <<>> => Want \in Names /\ Want \in Nat /\ Want # 0
<1>1. MaxEntries \in Nat /\ MaxEntries - 1 \in Nat /\ Names \subseteq Nat \ {0}
  BY DEF XdvdfsAssumption
<1>4. slot \in Nat
  BY <1>1 DEF DiscTyped
<1>2. CASE part = 1
  <2>1. Searched = root /\ root \in Tables(MaxEntries)
    BY <1>2 DEF Searched, DiscTyped
  <2> QED
    BY <1>1, <1>4, <2>1, TableTyped, PathTyped
<1>3. CASE part # 1
  <2>1. Searched = sub /\ sub \in Tables(MaxEntries - 1)
    BY <1>3 DEF Searched, DiscTyped
  <2>2. Len(sub) \in 0..(MaxEntries - 1) => Len(sub) \in 0..MaxEntries
    BY <1>1
  <2> QED
    BY <1>1, <1>4, <2>1, <2>2, TableTyped, PathTyped
<1> QED
  BY <1>2, <1>3

\* A step of the walk comes nearer to the entry of exactly the wanted name.
LEMMA WalkStep ==
    ASSUME NEW table, DOMAIN table = 1..Len(table), Len(table) \in Nat,
           \A k \in DOMAIN table: table[k] \in Nat,
           NEW n \in Nat \ {0}, NEW i \in DOMAIN table, table[i] # n, Comes(table, n, i),
           NEW child, child = IF n < table[i] THEN Left(table, i) ELSE Right(table, i)
    PROVE  /\ child \in Nat
           /\ child # 0 => child > i - 1
           /\ child = 0 => \A j \in DOMAIN table: table[j] # n
           /\ child # 0 => /\ child + 1 \in DOMAIN table /\ table[child + 1] # 0
                           /\ Comes(table, n, child + 1)
<1> DEFINE S == {j \in Below(table, i):
                    IF n < table[i] THEN table[j] < table[i] ELSE table[j] > table[i]}
<1>1. child = Link(S)
  <2>1. CASE n < table[i]
    BY <2>1 DEF Left
  <2>2. CASE ~(n < table[i])
    BY <2>2 DEF Right
  <2> QED
    BY <2>1, <2>2
<1>2. \A j \in Below(table, i): j \in (i + 1)..Len(table) /\ table[j] # 0
  BY DEF Below, Padding
<1>3. S \in SUBSET Nat /\ \A j \in S: j > i
  BY <1>2
<1>4. \A j \in S: j \in Below(table, i)
                  /\ (table[j] < table[i] <=> n < table[i]) /\ table[j] # table[i]
  <2> SUFFICES ASSUME NEW j \in S
               PROVE  j \in Below(table, i)
                      /\ (table[j] < table[i] <=> n < table[i]) /\ table[j] # table[i]
    OBVIOUS
  <2>1. j \in DOMAIN table /\ table[j] \in Nat /\ table[i] \in Nat
    BY <1>2
  <2> QED
    BY <2>1
<1>5. \A j \in Below(table, i): j \notin S =>
          table[j] = table[i] \/ ~(table[j] < table[i] <=> n < table[i])
  <2> SUFFICES ASSUME NEW j \in Below(table, i), j \notin S
               PROVE  table[j] = table[i] \/ ~(table[j] < table[i] <=> n < table[i])
    OBVIOUS
  <2>1. j \in DOMAIN table /\ table[j] \in Nat /\ table[i] \in Nat
    BY <1>2
  <2> QED
    BY <2>1
<1>6. \A j \in DOMAIN table: table[j] = n => j \in S
  <2> SUFFICES ASSUME NEW j \in DOMAIN table, table[j] = n
               PROVE  j \in S
    OBVIOUS
  <2>1. j \in Below(table, i)
    BY DEF Comes
  <2>2. table[i] \in Nat
    OBVIOUS
  <2> QED
    BY <2>1, <2>2
<1> HIDE DEF S
<1>7. /\ S # {} => child # 0 /\ child \in Nat /\ child + 1 \in S /\ \A k \in S: child + 1 <= k
      /\ S = {} => child = 0
  BY <1>1, <1>3, LinkLeadsToFirst
<1>8. child \in Nat /\ (child = 0 => \A j \in DOMAIN table: table[j] # n)
  BY <1>6, <1>7
<1>9. ASSUME child # 0
      PROVE  /\ child > i - 1 /\ child + 1 \in DOMAIN table /\ table[child + 1] # 0
             /\ Comes(table, n, child + 1)
  <2>1. child + 1 \in S /\ \A k \in S: child + 1 <= k
    BY <1>7, <1>9
  <2>2. child + 1 \in DOMAIN table /\ table[child + 1] # 0
    BY <1>2, <1>4, <2>1
  <2>3. ASSUME NEW j \in DOMAIN table, table[j] = n, j # child + 1
        PROVE  j \in Below(table, child + 1)
    <3>1. j \in S /\ child + 1 < j
      BY <1>6, <2>1, <2>3, <1>8
    <3>2. \A k \in Below(table, i): k < child + 1 =>
              table[k] = table[i] \/ ~(table[k] < table[i] <=> table[child + 1] < table[i])
      <4> SUFFICES ASSUME NEW k \in Below(table, i), k < child + 1
                   PROVE  table[k] = table[i]
                          \/ ~(table[k] < table[i] <=> table[child + 1] < table[i])
        OBVIOUS
      <4>1. k \notin S
        BY <2>1, <1>2, <1>8
      <4> QED
        BY <4>1, <1>4, <1>5, <2>1
    <3> QED
      BY <3>1, <3>2, <2>1, <1>4, StaysBelow
  <2>4. child > i - 1
    BY <1>3, <1>8, <2>1
  <2> QED
    BY <2>2, <2>3, <2>4 DEF Comes
<1> QED
  BY <1>8, <1>9

LEMMA DiscInitInv ==
    ASSUME XdvdfsAssumption, LookUpInit
    PROVE  LookUpInv
<1>1. /\ root \in Tables(MaxEntries) /\ sub \in Tables(MaxEntries - 1)
      /\ path \in UNION {[1..k -> Names]: k \in 0..2}
      /\ part = 1 /\ phase = "tree" /\ slot = 0
  BY DEF LookUpInit
<1>2. DiscTyped
  BY <1>1 DEF DiscTyped
<1>3. Reached
  <2>1. path # <<>> => 1 <= Len(path)
    <3>1. PICK k \in 0..2: path \in [1..k -> Names]
      BY <1>1
    <3>2. Len(path) = k /\ path \in Seq(Names)
      BY <3>1
    <3> QED
      BY <3>1, <3>2
  <2> QED
    BY <1>1, <2>1 DEF Reached
<1>4. WalkComes
  <2>1. /\ Len(Searched) \in Nat /\ DOMAIN Searched = 1..Len(Searched)
        /\ IsTable(Searched)
    BY <1>2, <1>3, InTable
  <2>2. Entries(Searched) # {} => Readable
    <3> SUFFICES ASSUME Entries(Searched) # {} PROVE Readable
      OBVIOUS
    <3>1. PICK i \in DOMAIN Searched: TRUE
      BY DEF Entries
    <3>2. 1 <= Len(Searched)
      BY <2>1, <3>1
    <3>3. Searched[1] # Padding
      BY <2>1 DEF IsTable
    <3> QED
      BY <1>1, <3>2, <3>3 DEF Readable, Size
  <2>3. path # <<>> => Comes(Searched, Want, 1)
    <3> SUFFICES ASSUME path # <<>>, NEW j \in DOMAIN Searched, Searched[j] = Want, j # 1
                 PROVE  j \in Below(Searched, 1)
      BY DEF Comes
    <3>1. Want # 0
      BY <1>2, <1>3, InTable
    <3> QED
      BY <2>1, <3>1 DEF Below, Padding
  <2> QED
    BY <1>1, <2>2, <2>3 DEF WalkComes
<1> QED
  BY <1>1, <1>2, <1>3, <1>4
  DEF LookUpInv, FoundIt, WalkMissed, ScanPassed, ScanMissed, ResolvesRight

\* A step of SearchDirectory stays in its table.
LEMMA SearchFrame ==
    ASSUME UNCHANGED <<root, sub, subName, path, part>>
    PROVE  Searched' = Searched /\ Want' = Want
BY DEF Searched, Want

LEMMA SearchTypes ==
    ASSUME DiscTyped, Reached, UNCHANGED <<root, sub, subName, path, part>>, path # <<>>,
           slot' \in 0..MaxEntries, phase' \in {"tree", "linear", "found", "missing"}
    PROVE  DiscTyped' /\ Reached' /\ ResolvesRight'
BY DEF DiscTyped, Reached, ResolvesRight, Has, The, Entries, Same,
       Padding

LEMMA TreeStepInv ==
    ASSUME XdvdfsAssumption, LookUpInv, path # <<>>, TreeStep
    PROVE  LookUpInv'
<1> USE DEF LookUpInv
<1>1. /\ phase = "tree" /\ phase' = "tree" /\ Readable /\ ~Match
      /\ slot' = Child /\ Child # 0
      /\ UNCHANGED <<root, sub, subName, path, part>>
  BY DEF TreeStep, disc
<1>2. /\ Len(Searched) \in Nat /\ DOMAIN Searched = 1..Len(Searched)
      /\ \A i \in DOMAIN Searched: Searched[i] \in Nat
      /\ Want \in Nat \ {0} /\ slot \in Nat
      /\ MaxEntries \in Nat /\ Len(Searched) <= MaxEntries
  BY InTable
<1>3. slot \in Nat /\ slot + 1 \in DOMAIN Searched /\ Searched[slot + 1] # 0
  BY <1>1, <1>2 DEF DiscTyped, Readable, Size, Padding
<1>4. Searched[slot + 1] # Want
  BY <1>1, <1>2, <1>3 DEF Match, There, Same, Padding
<1>5. Child = IF Want < Searched[slot + 1]
                   THEN Left(Searched, slot + 1) ELSE Right(Searched, slot + 1)
  BY DEF Child, There
<1>6. Comes(Searched, Want, slot + 1)
  BY <1>1 DEF WalkComes
<1>7. /\ Child \in Nat /\ Child + 1 \in DOMAIN Searched
      /\ Searched[Child + 1] # 0
      /\ Comes(Searched, Want, Child + 1)
  BY <1>1, <1>2, <1>3, <1>4, <1>5, <1>6, WalkStep
<1>8. Searched' = Searched /\ Want' = Want
  BY <1>1, SearchFrame
<1>9. WalkComes'
  <2>1. Child + 1 <= Len(Searched)
    BY <1>2, <1>7
  <2>2. Readable'
    BY <1>1, <1>7, <1>8, <2>1 DEF Readable, Size, Padding
  <2>3. Comes(Searched, Want, slot + 1)'
    BY <1>1, <1>7, <1>8 DEF Comes, Below, Padding
  <2> QED
    BY <2>2, <2>3 DEF WalkComes
<1>10. DiscTyped' /\ Reached' /\ ResolvesRight'
  <2>1. Child + 1 \in 1..Len(Searched)
    BY <1>2, <1>7
  <2>2. slot' \in 0..MaxEntries
    BY <1>1, <1>2, <1>7, <2>1
  <2> QED
    BY <1>1, <2>2, SearchTypes
<1> QED
  BY <1>1, <1>9, <1>10 DEF FoundIt, WalkMissed, ScanPassed, ScanMissed

LEMMA TreeGivesUpInv ==
    ASSUME XdvdfsAssumption, LookUpInv, path # <<>>, TreeGivesUp
    PROVE  LookUpInv'
<1> USE DEF LookUpInv
<1>1. /\ phase = "tree" /\ phase' = "linear" /\ ~Match
      /\ (Readable => Child = 0)
      /\ slot' = 0 /\ UNCHANGED <<root, sub, subName, path, part>>
  BY DEF TreeGivesUp, disc
<1>2. /\ Len(Searched) \in Nat /\ DOMAIN Searched = 1..Len(Searched)
      /\ \A i \in DOMAIN Searched: Searched[i] \in Nat
      /\ Want \in Nat \ {0} /\ slot \in Nat
      /\ MaxEntries \in Nat /\ Len(Searched) <= MaxEntries
  BY InTable
<1>3. Want \notin Entries(Searched)
  <2> SUFFICES ASSUME Want \in Entries(Searched) PROVE FALSE
    OBVIOUS
  <2>1. Readable /\ Child = 0
    BY <1>1 DEF WalkComes
  <2>2. slot \in Nat /\ slot + 1 \in DOMAIN Searched /\ Searched[slot + 1] # 0
    BY <1>2, <2>1 DEF DiscTyped, Readable, Size, Padding
  <2>3. Searched[slot + 1] # Want
    BY <1>1, <1>2, <2>1, <2>2 DEF Match, There, Same, Padding
  <2>4. Child = IF Want < Searched[slot + 1]
                     THEN Left(Searched, slot + 1) ELSE Right(Searched, slot + 1)
    BY DEF Child, There
  <2>5. Comes(Searched, Want, slot + 1)
    BY <1>1 DEF WalkComes
  <2>6. \A j \in DOMAIN Searched: Searched[j] # Want
    BY <1>2, <2>1, <2>2, <2>3, <2>4, <2>5, WalkStep
  <2> QED
    BY <2>6, EntryHasSlot
<1>4. Searched' = Searched /\ Want' = Want
  BY <1>1, SearchFrame
<1>5. WalkMissed'
  BY <1>3, <1>4 DEF WalkMissed, Entries, Padding
<1>6. ScanPassed'
  BY <1>1, <1>2, <1>4 DEF ScanPassed
<1>7. DiscTyped' /\ Reached' /\ ResolvesRight'
  BY <1>1, SearchTypes
<1> QED
  BY <1>1, <1>5, <1>6, <1>7 DEF FoundIt, WalkComes, ScanMissed

LEMMA LinearStepInv ==
    ASSUME XdvdfsAssumption, LookUpInv, path # <<>>, LinearStep
    PROVE  LookUpInv'
<1> USE DEF LookUpInv
<1>1. /\ phase = "linear" /\ phase' = "linear" /\ Readable /\ ~Match
      /\ slot' = slot + 1 /\ UNCHANGED <<root, sub, subName, path, part>>
  BY DEF LinearStep, disc
<1>2. Len(Searched) \in Nat /\ DOMAIN Searched = 1..Len(Searched) /\ slot \in Nat
      /\ MaxEntries \in Nat /\ Len(Searched) <= MaxEntries
  BY InTable
<1>3. Searched' = Searched /\ Want' = Want
  BY <1>1, SearchFrame
<1>4. WalkMissed'
  BY <1>1, <1>3 DEF WalkMissed, Entries, Padding
<1>5. ScanPassed'
  <2>1. slot + 1 <= Len(Searched) /\ Searched[slot + 1] # Padding
        /\ ~Same(Searched[slot + 1], Want)
    BY <1>1 DEF Readable, Match, There, Size
  <2>2. \A j \in 1..slot:
            Searched[j] # Padding /\ ~Same(Searched[j], Want)
    BY <1>1 DEF ScanPassed
  <2>3. \A j \in 1..(slot + 1):
            Searched[j] # Padding /\ ~Same(Searched[j], Want)
    BY <1>2, <2>1, <2>2
  <2> QED
    BY <1>1, <1>3, <2>1, <2>3 DEF ScanPassed, Same, Padding
<1>6. DiscTyped' /\ Reached' /\ ResolvesRight'
  <2>1. slot + 1 <= Len(Searched)
    BY <1>1 DEF Readable, Size
  <2>2. slot' \in 0..MaxEntries
    BY <1>1, <1>2, <2>1
  <2> QED
    BY <1>1, <2>2, SearchTypes
<1> QED
  BY <1>1, <1>4, <1>5, <1>6 DEF FoundIt, WalkComes, ScanMissed

LEMMA LinearGivesUpInv ==
    ASSUME XdvdfsAssumption, LookUpInv, path # <<>>, LinearGivesUp
    PROVE  LookUpInv'
<1> USE DEF LookUpInv
<1>1. /\ phase = "linear" /\ phase' = "missing" /\ ~Readable
      /\ slot' = slot /\ UNCHANGED <<root, sub, subName, path, part>>
  BY DEF LinearGivesUp, disc
<1>2. Len(Searched) \in Nat /\ DOMAIN Searched = 1..Len(Searched) /\ slot \in Nat
      /\ MaxEntries \in Nat /\ Len(Searched) <= MaxEntries
  BY InTable
<1>3. Searched' = Searched /\ Want' = Want
  BY <1>1, SearchFrame
<1>4. WalkMissed'
  BY <1>1, <1>3 DEF WalkMissed, Entries, Padding
<1>5. ASSUME NEW j \in DOMAIN Searched, Same(Searched[j], Want)
      PROVE  \E i \in DOMAIN Searched: i < j /\ Searched[i] = Padding
  <2>1. \A k \in 1..slot: ~Same(Searched[k], Want)
    BY <1>1 DEF ScanPassed
  <2>2. slot < j
    BY <1>2, <1>5, <2>1
  <2>3. slot + 1 \in DOMAIN Searched
    BY <1>2, <2>2
  <2>4. Searched[slot + 1] = Padding
    BY <1>1, <1>2, <2>3 DEF Readable, Size
  <2>5. Searched[j] # Padding
    BY <1>5 DEF Same
  <2>6. slot + 1 < j
    BY <1>2, <2>2, <2>4, <2>5
  <2> QED
    BY <2>3, <2>4, <2>6
<1>6. ScanMissed'
  BY <1>3, <1>5 DEF ScanMissed, Same, Padding
<1>7. DiscTyped' /\ Reached' /\ ResolvesRight'
  <2>1. slot' \in 0..MaxEntries
    BY <1>1 DEF DiscTyped
  <2> QED
    BY <1>1, <2>1, SearchTypes
<1> QED
  BY <1>1, <1>4, <1>6, <1>7 DEF FoundIt, WalkComes, ScanPassed

LEMMA FoundInv ==
    ASSUME XdvdfsAssumption, LookUpInv, path # <<>>, Found
    PROVE  LookUpInv'
<1> USE DEF LookUpInv
<1>1. /\ phase \in {"tree", "linear"} /\ phase' = "found" /\ Match
      /\ current' = Searched[slot + 1]
      /\ slot' = slot /\ UNCHANGED <<root, sub, subName, path, part>>
  BY DEF Found, disc, There
<1>2. Len(Searched) \in Nat /\ DOMAIN Searched = 1..Len(Searched) /\ slot \in Nat
      /\ MaxEntries \in Nat /\ Len(Searched) <= MaxEntries
  BY InTable
<1>3. /\ slot + 1 <= Len(Searched) /\ Searched[slot + 1] # 0
      /\ Same(Searched[slot + 1], Want)
  BY <1>1 DEF Match, Readable, There, Size, Padding
<1>4. slot + 1 \in DOMAIN Searched
  BY <1>2, <1>3
<1>5. Searched[slot + 1] \in Entries(Searched)
  BY <1>3, <1>4, EntryHasSlot
<1>6. Searched' = Searched /\ Want' = Want
  BY <1>1, SearchFrame
<1>7. FoundIt'
  BY <1>1, <1>3, <1>5, <1>6 DEF FoundIt, Entries, Same, Padding
<1>8. DiscTyped' /\ Reached' /\ ResolvesRight'
  <2>1. slot' \in 0..MaxEntries
    BY <1>1 DEF DiscTyped
  <2> QED
    BY <1>1, <2>1, SearchTypes
<1> QED
  BY <1>1, <1>7, <1>8 DEF WalkComes, WalkMissed, ScanPassed, ScanMissed

\* The answer of a call that is over stays, and is right when it was right.
LEMMA DoneInv ==
    ASSUME LookUpInv, phase' = "done", UNCHANGED <<root, sub, subName, path, part, slot>>,
           \/ outcome' = Denotes(path)
           \/ outcome' = <<FALSE>> /\ Hidden(Searched, Want)
    PROVE  LookUpInv'
<1>1. DiscTyped'
  BY DEF LookUpInv, DiscTyped
<1>2. Reached'
  BY DEF LookUpInv, Reached, Has, The, Entries, Same, Padding
<1>3. Searched' = Searched /\ Want' = Want
  BY SearchFrame
<1>4. Hidden(Searched, Want)' = Hidden(Searched, Want)
  BY <1>3 DEF Hidden, Same, Padding
<1>5. Denotes(path)' = Denotes(path)
  BY DEF Denotes, Has, The, Entries, Same, Padding
<1>6. ResolvesRight'
  BY <1>4, <1>5 DEF ResolvesRight
<1> QED
  BY <1>1, <1>2, <1>6 DEF LookUpInv, FoundIt, WalkComes, WalkMissed, ScanPassed, ScanMissed

\* What the path stands for, by how far the call has come
LEMMA StandsFor ==
    ASSUME XdvdfsAssumption, DiscTyped, Reached, path # <<>>
    PROVE  /\ ~Has(Searched, Want) => Denotes(path) = <<FALSE>>
           /\ Len(path) = part /\ Has(Searched, Want) =>
                Denotes(path) = <<TRUE, part, The(Searched, Want)>>
           /\ Len(path) > part /\ The(Searched, Want) # subName =>
                Denotes(path) = <<FALSE>>
<1>1. Len(path) \in {1, 2} /\ part \in {1, 2} /\ part <= Len(path)
  BY PathTyped
<1>2. CASE part = 1
  <2>1. Searched = root /\ Want = path[1]
    BY <1>2 DEF Searched, Want
  <2>2. ~Has(root, path[1]) => Denotes(path) = <<FALSE>>
    BY DEF Denotes
  <2>3. Len(path) = 1 /\ Has(root, path[1]) =>
          Denotes(path) = <<TRUE, 1, The(root, path[1])>>
    BY DEF Denotes
  <2>4. Len(path) # 1 /\ The(root, path[1]) # subName => Denotes(path) = <<FALSE>>
    BY DEF Denotes
  <2>5. Len(path) > part => Len(path) # 1
    BY <1>1, <1>2
  <2> QED
    BY <1>2, <2>1, <2>2, <2>3, <2>4, <2>5
<1>3. CASE part = 2
  <2>1. Searched = sub /\ Want = path[2] /\ Len(path) = 2
    BY <1>1, <1>3 DEF Searched, Want
  <2>2. Has(root, path[1]) /\ The(root, path[1]) = subName
    BY <1>3 DEF Reached
  <2>6. Len(path) # 1
    BY <2>1
  <2>3. ~Has(sub, path[2]) => Denotes(path) = <<FALSE>>
    BY <2>6, <2>2 DEF Denotes
  <2>4. Has(sub, path[2]) => Denotes(path) = <<TRUE, 2, The(sub, path[2])>>
    BY <2>6, <2>2 DEF Denotes
  <2>5. ~(Len(path) > part)
    BY <1>3, <2>1
  <2> QED
    BY <1>3, <2>1, <2>3, <2>4, <2>5
<1> QED
  BY <1>1, <1>2, <1>3

LEMMA EmptyPathInv ==
    ASSUME LookUpInv, EmptyPath
    PROVE  LookUpInv'
<1>1. /\ path = <<>> /\ phase' = "done" /\ outcome' = <<FALSE>>
      /\ UNCHANGED <<root, sub, subName, path, part, slot>>
  BY DEF EmptyPath, Answers, disc
<1>2. Denotes(path) = <<FALSE>>
  BY <1>1 DEF Denotes
<1> QED
  BY <1>1, <1>2, DoneInv

LEMMA NotFoundInv ==
    ASSUME XdvdfsAssumption, LookUpInv, NotFound
    PROVE  LookUpInv'
<1> USE DEF LookUpInv
<1>1. /\ phase = "missing" /\ phase' = "done" /\ outcome' = <<FALSE>>
      /\ UNCHANGED <<root, sub, subName, path, part, slot>>
  BY DEF NotFound, Answers, disc
<1>2. path # <<>>
  BY <1>1 DEF Reached
<1>3. CASE ~Has(Searched, Want)
  <2>1. Denotes(path) = <<FALSE>>
    BY <1>2, <1>3, StandsFor
  <2> QED
    BY <1>1, <2>1, DoneInv
<1>4. CASE Has(Searched, Want)
  <2>1. PICK e \in Entries(Searched): Same(e, Want)
    BY <1>4 DEF Has
  <2>2. PICK j \in DOMAIN Searched: Searched[j] = e
    BY EntryHasSlot
  <2>3. PICK i \in DOMAIN Searched: i < j /\ Searched[i] = Padding
    BY <1>1, <2>1, <2>2 DEF ScanMissed
  <2>4. e # Want
    BY <1>1 DEF WalkMissed
  <2>5. Hidden(Searched, Want)
    BY <2>1, <2>2, <2>3, <2>4 DEF Hidden
  <2> QED
    BY <1>1, <2>5, DoneInv
<1> QED
  BY <1>3, <1>4

\* What was found is the entry of that name.
LEMMA FoundIsThe ==
    ASSUME XdvdfsAssumption, DiscTyped, Reached, FoundIt, phase = "found"
    PROVE  /\ path # <<>> /\ Has(Searched, Want)
           /\ The(Searched, Want) = current
<1>1. current \in Entries(Searched) /\ Same(current, Want)
  BY DEF FoundIt
<1>2. IsTable(Searched)
  BY InTable
<1> QED
  BY <1>1, <1>2, OneEntry DEF Reached

LEMMA LastPartInv ==
    ASSUME XdvdfsAssumption, LookUpInv, LastPart
    PROVE  LookUpInv'
<1> USE DEF LookUpInv
<1>1. /\ phase = "found" /\ Len(path) = part
      /\ phase' = "done" /\ outcome' = <<TRUE, part, current>>
      /\ UNCHANGED <<root, sub, subName, path, part, slot>>
  BY DEF LastPart, Answers, disc
<1>2. outcome' = Denotes(path)
  BY <1>1, FoundIsThe, StandsFor
<1> QED
  BY <1>1, <1>2, DoneInv

LEMMA PastFileInv ==
    ASSUME XdvdfsAssumption, LookUpInv, PastFile
    PROVE  LookUpInv'
<1> USE DEF LookUpInv
<1>1. /\ phase = "found" /\ Len(path) > part /\ ~IsDirectory
      /\ phase' = "done" /\ outcome' = <<FALSE>>
      /\ UNCHANGED <<root, sub, subName, path, part, slot>>
  BY DEF PastFile, Answers, disc
<1>2. path # <<>> /\ The(Searched, Want) = current
  BY <1>1, FoundIsThe
<1>3. part = 1
  <2> DEFINE l == Len(path)
  <2>1. l \in 1..2 /\ part \in 1..2 /\ l > part
    BY <1>1, <1>2, PathTyped
  <2> HIDE DEF l
  <2> QED
    BY <2>1
<1>4. current # subName
  BY <1>1, <1>3 DEF IsDirectory
<1>5. outcome' = Denotes(path)
  BY <1>1, <1>2, <1>4, StandsFor
<1> QED
  BY <1>1, <1>5, DoneInv

LEMMA DescendInv ==
    ASSUME XdvdfsAssumption, LookUpInv, Descend
    PROVE  LookUpInv'
<1> USE DEF LookUpInv
<1>1. /\ phase = "found" /\ Len(path) > part /\ part = 1 /\ current = subName
      /\ part' = 2 /\ phase' = "tree" /\ slot' = 0
      /\ UNCHANGED <<root, sub, subName, path>>
  BY DEF Descend, IsDirectory, disc
<1>2. /\ path # <<>> /\ Has(root, path[1])
      /\ The(root, path[1]) = subName
  <2>1. Searched = root /\ Want = path[1]
    BY <1>1 DEF Searched, Want
  <2> QED
    BY <1>1, <2>1, FoundIsThe
<1>3. Len(path) = 2
  <2> DEFINE l == Len(path)
  <2>1. l \in 1..2 /\ l > 1
    BY <1>1, <1>2, PathTyped
  <2> HIDE DEF l
  <2>2. l = 2
    BY <2>1
  <2> QED
    BY <2>2 DEF l
<1>4. DiscTyped'
  BY <1>1 DEF DiscTyped
<1>5. Reached'
  BY <1>1, <1>2, <1>3
  DEF Reached, Has, The, Entries, Same, Padding
<1>6. Searched' = sub /\ Want' = path[2]
  BY <1>1 DEF Searched, Want
<1>7. /\ Len(sub) \in Nat /\ DOMAIN sub = 1..Len(sub) /\ IsTable(sub)
      /\ path[2] # 0
  <2>1. MaxEntries - 1 \in Nat
    BY DEF XdvdfsAssumption
  <2>2. Len(sub) \in Nat /\ DOMAIN sub = 1..Len(sub) /\ IsTable(sub)
    BY <2>1, TableTyped DEF DiscTyped
  <2>3. path[2] \in Names
    <3>1. PICK k \in 0..2: path \in [1..k -> Names]
      BY DEF DiscTyped
    <3>2. Len(path) = k
      BY <3>1
    <3> QED
      BY <1>3, <3>1, <3>2
  <2> QED
    BY <2>2, <2>3 DEF XdvdfsAssumption
<1>8. WalkComes'
  <2>1. (Entries(Searched) # {} => Readable)'
    <3> SUFFICES ASSUME Entries(sub) # {}
                 PROVE  1 <= Len(sub) /\ sub[1] # 0
      BY <1>1, <1>6 DEF Readable, Size, Entries, Padding
    <3>1. PICK i \in DOMAIN sub: TRUE
      BY DEF Entries
    <3> QED
      BY <1>7, <3>1 DEF IsTable, Padding
  <2>2. Comes(sub, path[2], 1)
    BY <1>7 DEF Comes, Below, Padding
  <2>3. Comes(Searched, Want, slot + 1)'
    BY <1>1, <1>6, <2>2 DEF Comes, Below, Padding
  <2> QED
    BY <2>1, <2>3 DEF WalkComes
<1> QED
  BY <1>1, <1>4, <1>5, <1>8
  DEF FoundIt, WalkMissed, ScanPassed, ScanMissed, ResolvesRight

LEMMA ResolveStep ==
    ASSUME XdvdfsAssumption, LookUpInv, [LookUpNext]_lookUpVars
    PROVE  LookUpInv'
<1>1. CASE SearchDirectory
  <2>1. path # <<>>
    BY <1>1 DEF SearchDirectory
  <2> QED
    BY <1>1, <2>1, TreeStepInv, TreeGivesUpInv, LinearStepInv, LinearGivesUpInv, FoundInv
    DEF SearchDirectory
<1>2. CASE ResolvePath
  BY <1>2, EmptyPathInv, NotFoundInv, LastPartInv, PastFileInv, DescendInv
  DEF ResolvePath
<1>3. CASE UNCHANGED lookUpVars
  <2> USE DEF LookUpInv
  <2>1. UNCHANGED <<root, sub, subName, path, part, phase, slot, current, outcome>>
    BY <1>3 DEF lookUpVars
  <2>2. Searched' = Searched /\ Want' = Want
    BY <2>1, SearchFrame
  <2>3. DiscTyped'
    BY <2>1 DEF DiscTyped
  <2>4. Reached'
    BY <2>1 DEF Reached, Has, The, Entries, Same, Padding
  <2>5. FoundIt' /\ WalkMissed' /\ ScanPassed' /\ ScanMissed'
    BY <2>1, <2>2
    DEF FoundIt, WalkMissed, ScanPassed, ScanMissed, Entries, Same, Padding
  <2>6. WalkComes'
    BY <2>1, <2>2
    DEF WalkComes, Comes, Readable, Size, Below, Entries, Padding
  <2>7. Hidden(Searched, Want)' = Hidden(Searched, Want)
    BY <2>2 DEF Hidden, Same, Padding
  <2>8. Denotes(path)' = Denotes(path)
    BY <2>1 DEF Denotes, Has, The, Entries, Same, Padding
  <2>9. ResolvesRight'
    BY <2>1, <2>7, <2>8 DEF ResolvesRight
  <2> QED
    BY <2>3, <2>4, <2>5, <2>6, <2>9
<1> QED
  BY <1>1, <1>2, <1>3 DEF LookUpNext

\* ResolvePath returns the entry that the path names without case, on any disc and for any
\* order of its names, whatever way the walk takes; only behind padding may it miss an
\* entry, and then one that is spelled in another case.
THEOREM LookUpsResolveRight ==
    LookUpSpec => []ResolvesRight
<1>1. LookUpInit => LookUpInv
  BY XdvdfsAssumption, DiscInitInv
<1>2. LookUpInv /\ [LookUpNext]_lookUpVars => LookUpInv'
  BY XdvdfsAssumption, ResolveStep
<1>3. LookUpInv => ResolvesRight
  BY DEF LookUpInv
<1> QED
  BY <1>1, <1>2, <1>3, PTL DEF LookUpSpec

\* What a look-up may still have to do, at most: turns of the loops and returns
ToDo(ph, i) ==
    CASE ph = "tree" -> 2 * MaxEntries + 4 - i
      [] ph = "linear" -> MaxEntries + 3 - i
      [] ph \in {"found", "missing"} -> 1
      [] ph = "done" -> 0
Work == ToDo(phase, slot) + IF part = 1 THEN 2 * MaxEntries + 4 ELSE 0

LEMMA LeftIs ==
    ASSUME MaxEntries \in Nat, NEW i \in 0..MaxEntries
    PROVE  /\ ToDo("tree", i) = 2 * MaxEntries + 4 - i
           /\ ToDo("linear", i) = MaxEntries + 3 - i
           /\ ToDo("found", i) = 1 /\ ToDo("missing", i) = 1 /\ ToDo("done", i) = 0
<1>1. ToDo("tree", i) = 2 * MaxEntries + 4 - i
  BY DEF ToDo
<1>2. ToDo("linear", i) = MaxEntries + 3 - i
  BY DEF ToDo
<1>3. ToDo("found", i) = 1 /\ ToDo("missing", i) = 1
  BY DEF ToDo
<1>4. ToDo("done", i) = 0
  BY DEF ToDo
<1> QED
  BY <1>1, <1>2, <1>3, <1>4

LEMMA LeftTyped ==
    ASSUME MaxEntries \in Nat, NEW i \in 0..MaxEntries,
           NEW ph \in {"tree", "linear", "found", "missing", "done"}
    PROVE  ToDo(ph, i) \in 0..(2 * MaxEntries + 4)
<1>1. CASE ph = "tree"
  BY <1>1, LeftIs
<1>2. CASE ph = "linear"
  BY <1>2, LeftIs
<1>3. CASE ph \in {"found", "missing", "done"}
  BY <1>3, LeftIs
<1> QED
  BY <1>1, <1>2, <1>3

\* The walk goes forward in the table.
LEMMA TreeStepAdvances ==
    ASSUME XdvdfsAssumption, LookUpInv, path # <<>>, TreeStep
    PROVE  slot' > slot
<1> USE DEF LookUpInv
<1>1. /\ phase = "tree" /\ Readable /\ ~Match
      /\ slot' = Child /\ Child # 0
  BY DEF TreeStep
<1>2. /\ Len(Searched) \in Nat /\ DOMAIN Searched = 1..Len(Searched)
      /\ \A i \in DOMAIN Searched: Searched[i] \in Nat
      /\ Want \in Nat \ {0} /\ slot \in Nat
  BY InTable
<1>3. slot + 1 \in DOMAIN Searched /\ Searched[slot + 1] # 0
  BY <1>1, <1>2 DEF Readable, Size, Padding
<1>4. Searched[slot + 1] # Want
  BY <1>1, <1>2, <1>3 DEF Match, There, Same, Padding
<1>5. Child = IF Want < Searched[slot + 1]
                   THEN Left(Searched, slot + 1) ELSE Right(Searched, slot + 1)
  BY DEF Child, There
<1>6. Comes(Searched, Want, slot + 1)
  BY <1>1 DEF WalkComes
<1>7. Child > slot + 1 - 1
  BY <1>1, <1>2, <1>3, <1>4, <1>5, <1>6, WalkStep
<1> QED
  BY <1>1, <1>2, <1>7

\* A step either leaves less to do in its table, or has come to the other table.
LEMMA LessWork ==
    ASSUME XdvdfsAssumption, DiscTyped, DiscTyped',
           \/ part' = part /\ ToDo(phase', slot') < ToDo(phase, slot)
           \/ part = 1 /\ part' = 2 /\ phase = "found" /\ phase' = "tree"
    PROVE  Work' < Work
<1>1. MaxEntries \in Nat
  BY DEF XdvdfsAssumption
<1>2. ToDo(phase, slot) \in 0..(2 * MaxEntries + 4)
  BY <1>1, LeftTyped DEF DiscTyped
<1>3. ToDo(phase', slot') \in 0..(2 * MaxEntries + 4) /\ slot' \in 0..MaxEntries
  BY <1>1, LeftTyped DEF DiscTyped
<1>4. Work' = ToDo(phase', slot') + IF part' = 1 THEN 2 * MaxEntries + 4 ELSE 0
  BY DEF Work
<1>5. CASE part' = part /\ ToDo(phase', slot') < ToDo(phase, slot)
  BY <1>1, <1>2, <1>3, <1>4, <1>5 DEF Work
<1>6. CASE part = 1 /\ part' = 2 /\ phase = "found" /\ phase' = "tree"
  <2>1. ToDo(phase, slot) = 1
    BY <1>1, <1>6, LeftIs DEF DiscTyped
  <2>2. Work' = ToDo(phase', slot') /\ Work = 1 + (2 * MaxEntries + 4)
    BY <1>3, <1>4, <1>6, <2>1 DEF Work
  <2> QED
    BY <1>1, <1>3, <2>2
<1> QED
  BY <1>5, <1>6

LEMMA SearchWorks ==
    ASSUME XdvdfsAssumption, LookUpInv, LookUpInv', SearchDirectory
    PROVE  Work' < Work
<1> USE DEF LookUpInv
<1>1. MaxEntries \in Nat /\ slot \in 0..MaxEntries /\ slot' \in 0..MaxEntries
  BY DEF XdvdfsAssumption, DiscTyped
<1>2. CASE TreeStep
  <2>1. phase = "tree" /\ phase' = "tree" /\ part' = part /\ path # <<>>
    BY <1>2 DEF TreeStep, SearchDirectory
  <2>2. slot' > slot
    BY <1>2, <2>1, TreeStepAdvances
  <2>3. ToDo(phase', slot') < ToDo(phase, slot)
    BY <1>1, <2>1, <2>2, LeftIs
  <2> QED
    BY <2>1, <2>3, LessWork
<1>3. CASE TreeGivesUp
  <2>1. phase = "tree" /\ phase' = "linear" /\ part' = part /\ slot' = 0
    BY <1>3 DEF TreeGivesUp
  <2>2. ToDo(phase', slot') < ToDo(phase, slot)
    BY <1>1, <2>1, LeftIs
  <2> QED
    BY <2>1, <2>2, LessWork
<1>4. CASE LinearStep
  <2>1. phase = "linear" /\ phase' = "linear" /\ part' = part /\ slot' = slot + 1
    BY <1>4 DEF LinearStep
  <2>2. ToDo(phase', slot') < ToDo(phase, slot)
    BY <1>1, <2>1, LeftIs
  <2> QED
    BY <2>1, <2>2, LessWork
<1>5. CASE LinearGivesUp \/ Found
  <2>1. phase \in {"tree", "linear"} /\ phase' \in {"missing", "found"} /\ part' = part
    BY <1>5 DEF LinearGivesUp, Found
  <2>2. ToDo(phase', slot') < ToDo(phase, slot)
    BY <1>1, <2>1, LeftIs
  <2> QED
    BY <2>1, <2>2, LessWork
<1> QED
  BY <1>2, <1>3, <1>4, <1>5 DEF SearchDirectory

LEMMA ReturnWorks ==
    ASSUME XdvdfsAssumption, LookUpInv, LookUpInv', ResolvePath
    PROVE  Work' < Work
<1> USE DEF LookUpInv
<1>1. MaxEntries \in Nat /\ slot \in 0..MaxEntries /\ slot' \in 0..MaxEntries
  BY DEF XdvdfsAssumption, DiscTyped
<1>2. CASE EmptyPath \/ NotFound \/ LastPart \/ PastFile
  <2>1. phase \in {"tree", "missing", "found"} /\ phase' = "done" /\ part' = part
    BY <1>2 DEF EmptyPath, NotFound, LastPart, PastFile, Answers
  <2>2. ToDo(phase', slot') < ToDo(phase, slot)
    BY <1>1, <2>1, LeftIs
  <2> QED
    BY <2>1, <2>2, LessWork
<1>3. CASE Descend
  <2>1. phase = "found" /\ phase' = "tree" /\ part = 1 /\ part' = 2
    BY <1>3 DEF Descend, IsDirectory
  <2> QED
    BY <2>1, LessWork
<1> QED
  BY <1>2, <1>3 DEF ResolvePath

\* No look-up goes around in a table: each turn of a loop and each return leaves less to
\* do, whatever the links of the table lead to.  So only finitely many steps are taken;
\* that one can be taken until there is an answer is left to the run.
THEOREM LookUpsComeToAnEnd ==
    LookUpSpec => [](Work \in Nat) /\ [][Work' < Work]_lookUpVars
<1>1. LookUpInit => LookUpInv
  BY XdvdfsAssumption, DiscInitInv
<1>2. LookUpInv /\ [LookUpNext]_lookUpVars => LookUpInv'
  BY XdvdfsAssumption, ResolveStep
<1>3. LookUpInv => Work \in Nat
  <2> SUFFICES ASSUME DiscTyped PROVE Work \in Nat
    BY DEF LookUpInv
  <2>1. MaxEntries \in Nat
    BY XdvdfsAssumption DEF XdvdfsAssumption
  <2>2. ToDo(phase, slot) \in 0..(2 * MaxEntries + 4)
    BY <2>1, LeftTyped DEF DiscTyped
  <2> QED
    BY <2>1, <2>2 DEF Work
<1>4. LookUpInv /\ LookUpInv' /\ [LookUpNext]_lookUpVars => [Work' < Work]_lookUpVars
  BY XdvdfsAssumption, SearchWorks, ReturnWorks DEF LookUpNext
<1> QED
  BY <1>1, <1>2, <1>3, <1>4, PTL DEF LookUpSpec

-----------------------------------------------------------------------------
(* The two side by side.                                                   *)

\* What is proved of the file calls and of the look-ups holds of the two together: a step
\* of the one is none of the other.
THEOREM DiscKeepsToBothSpecs == DiscSpec => Spec /\ (half = "look-up" => LookUpSpec)
<1>1. DiscInit => Init /\ (half = "look-up" => LookUpInit)
  BY DEF DiscInit
<1>2. [LooksUp \/ MakesCalls]_discVars => [Next]_vars /\ [LookUpNext]_lookUpVars
  BY DEF LooksUp, MakesCalls, discVars
<1> QED
  BY <1>1, <1>2, PTL DEF DiscSpec, Spec, LookUpSpec
=============================================================================
