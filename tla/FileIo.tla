------------------------------- MODULE FileIo -------------------------------
(***************************************************************************)
(* The file calls of host/kernel_impl.cpp over the one stream of           *)
(* host/xdvdfs.cpp.  NtReadFile takes g_stateMutex up to three times: to   *)
(* copy the bytes and advance the position, to queue the completion APC,   *)
(* to signal the caller's event; the status block is stored in between,    *)
(* without it.  The stream has a mutex of its own, taken for each pair of  *)
(* a seek and a read, in a look-up by SearchDirectory as well, which does  *)
(* not hold g_stateMutex.                                                  *)
(*                                                                         *)
(* There is one file on the disc and one directory table; a byte is known  *)
(* by its place on the image.                                              *)
(***************************************************************************)
EXTENDS Integers, Sequences

CONSTANTS
    Threads,        \* guest threads
    NoThread,       \* holds nothing
    Table,          \* where the directory table is on the image
    TableSize,
    Start,          \* where the file is
    FileSize,       \* entry.fileSize
    ImageSize,      \* where the image ends
    Lengths,        \* lengths the guest asks for
    Offsets,        \* offsets it gives, in a read or a seek
    MaxHandles,     \* bound: files opened
    MaxOps          \* bound: reads and seeks in a run

ASSUME FileAssumption ==
    /\ {Table, TableSize, Start, FileSize, ImageSize, MaxHandles, MaxOps} \subseteq Nat
    /\ Lengths \subseteq Nat /\ Offsets \subseteq Nat /\ NoThread \notin Threads

VARIABLES
    handleTable,    \* the file handles in g_handleTable
    fileState,      \* g_fileState: the position of each handle that has an entry
    opened,         \* handles given out
    call,           \* per thread, the call it is in and how far it has come
    fileMutex,      \* the thread that holds fileMutex_
    tellg,          \* where the stream stands
    failbit,        \* a read has come to the end of the image
    log,            \* history: the reads and seeks, in the order they took effect
    queued,         \* reads whose APC is in the queue
    signaled        \* reads that have signaled their event

vars == <<handleTable, fileState, opened, call, fileMutex, tellg, failbit, log, queued, signaled>>
handles == <<handleTable, fileState, opened>>
stream == <<fileMutex, tellg, failbit>>
completion == <<queued, signaled>>

Handles == 1..MaxHandles
Ops == 1..MaxOps
NoEntry == -1                       \* not in g_fileState
Current == -1                       \* byteOffsetPtr = 0
Call(at, handle, op, apc, event) ==
    [at |-> at, handle |-> handle, op |-> op, apc |-> apc, event |-> event]
NoCall == Call("none", 0, 0, FALSE, FALSE)
Idle(t) == call[t] = NoCall

Moves(t, c) == call' = [call EXCEPT ![t] = c]
At(t, at) == call[t].at = at
Goes(t, at) == Moves(t, [call[t] EXCEPT !.at = at])

\* g_stateMutex is held from the seek of a read to the end of its copy.
StateFree == \A t \in Threads: ~At(t, "copy")

\* The stream's seek does nothing once the stream has failed.
Seek(position) == tellg' = IF failbit THEN tellg ELSE position

-----------------------------------------------------------------------------
(* Look-up, open, close, seek. *)

\* SearchDirectory, for a path that is there
LookUp(t) ==
    /\ Idle(t) /\ opened < MaxHandles /\ fileMutex = NoThread
    /\ fileMutex' = t
    /\ Seek(Table)
    /\ Moves(t, Call("table", 0, 0, FALSE, FALSE))
    /\ UNCHANGED <<handles, failbit, log, completion>>

\* A table that could not be read is all zeros, and the path is not found.
ReadTable(t) ==
    /\ At(t, "table")
    /\ fileMutex' = NoThread
    /\ IF failbit \/ tellg + TableSize > ImageSize
       THEN failbit' = TRUE /\ Moves(t, NoCall) /\ UNCHANGED tellg
       ELSE /\ tellg' = tellg + TableSize
            /\ IF tellg = Table THEN Goes(t, "open") ELSE Moves(t, NoCall)
            /\ UNCHANGED failbit
    /\ UNCHANGED <<handles, log, completion>>

\* OpenGuestFile
NtCreateFile(t) ==
    /\ At(t, "open") /\ StateFree /\ opened < MaxHandles
    /\ opened' = opened + 1
    /\ handleTable' = handleTable \cup {opened + 1}
    /\ fileState' = [fileState EXCEPT ![opened + 1] = 0]
    /\ Moves(t, NoCall)
    /\ UNCHANGED <<stream, log, completion>>

\* Only g_handleTable is erased from.
NtClose(t, h) ==
    /\ Idle(t) /\ StateFree /\ h \in handleTable
    /\ handleTable' = handleTable \ {h}
    /\ UNCHANGED <<fileState, opened, call, stream, log, completion>>

Entry(kind, handle, byteOffset, first, count) ==
    [kind |-> kind, handle |-> handle, byteOffset |-> byteOffset, first |-> first,
     count |-> count, got |-> NoEntry, status |-> "none"]

\* FilePositionInformation; the position is not compared with the size.
NtSetInformationFile(t, h, position) ==
    /\ Idle(t) /\ StateFree /\ Len(log) < MaxOps
    /\ fileState[h] # NoEntry
    /\ fileState' = [fileState EXCEPT ![h] = position]
    /\ log' = Append(log, Entry("seek", h, position, position, 0))
    /\ UNCHANGED <<handleTable, opened, call, stream, completion>>

-----------------------------------------------------------------------------
(* NtReadFile.  On a handle without an entry it fills the status block with
   STATUS_INVALID_HANDLE and changes nothing that is kept here. *)

\* Variant: the length is not cut at the end of the file.
BugReadsOn(offset, length) == IF offset < FileSize THEN length ELSE 0

BytesToRead(offset, length) ==
    IF offset >= FileSize THEN 0
    ELSE IF FileSize - offset < length THEN FileSize - offset ELSE length

\* The first critical section: offset and count, then the seek, if there is anything to
\* read.  One step, once both mutexes can be had: a look-up that holds the stream's never
\* asks for g_stateMutex.
ReadBegins(t, h, byteOffset, length, apc, event) ==
    LET offset == IF byteOffset = Current THEN fileState[h] ELSE byteOffset
        count == BytesToRead(offset, length)
    IN  /\ Idle(t) /\ StateFree /\ Len(log) < MaxOps
        /\ fileState[h] # NoEntry
        /\ log' = Append(log, Entry("read", h, byteOffset, offset, count))
        /\ IF count > 0
           THEN /\ fileMutex = NoThread /\ fileMutex' = t
                /\ Seek(Start + offset)
                /\ Moves(t, Call("copy", h, Len(log) + 1, apc, event))
                /\ UNCHANGED fileState
           ELSE /\ fileState' = [fileState EXCEPT ![h] = offset]
                /\ Moves(t, Call("status", h, Len(log) + 1, apc, event))
                /\ UNCHANGED <<fileMutex, tellg>>
        /\ UNCHANGED <<handleTable, opened, failbit, completion>>

\* The bytes that arrive are those where the stream stands, none if it has failed.
Copied(t) ==
    LET op == call[t].op  count == log[op].count
    IN  IF failbit \/ tellg + count > ImageSize
        THEN failbit' = TRUE /\ UNCHANGED <<tellg, log>>
        ELSE /\ log' = [log EXCEPT ![op].got = tellg]
             /\ tellg' = tellg + count
             /\ UNCHANGED failbit

\* Variant: a read moves the position to the end of the file.
BugPositionAtEnd(t) ==
    /\ At(t, "copy")
    /\ Copied(t)
    /\ fileMutex' = NoThread
    /\ fileState' = [fileState EXCEPT ![call[t].handle] = FileSize]
    /\ Goes(t, "status")
    /\ UNCHANGED <<handleTable, opened, completion>>

\* ReadBytes and the end of the critical section
CopyEnds(t) ==
    /\ At(t, "copy")
    /\ Copied(t)
    /\ fileMutex' = NoThread
    /\ fileState' = [fileState EXCEPT ![call[t].handle] =
                        log[call[t].op].first + log[call[t].op].count]
    /\ Goes(t, "status")
    /\ UNCHANGED <<handleTable, opened, completion>>

\* Variant: the status block is filled after the caller has been told.
BugStatusLast(t) ==
    /\ At(t, "status")
    /\ Goes(t, IF call[t].apc THEN "apc" ELSE IF call[t].event THEN "event" ELSE "done")
    /\ UNCHANGED <<handles, stream, log, completion>>

\* IoStatusBlock: STATUS_SUCCESS and the count, whatever the stream delivered.
StoreStatus(t) ==
    /\ At(t, "status")
    /\ log' = [log EXCEPT ![call[t].op].status = "success"]
    /\ Goes(t, IF call[t].apc THEN "apc" ELSE IF call[t].event THEN "event" ELSE "done")
    /\ UNCHANGED <<handles, stream, completion>>

QueueApc(t) ==
    /\ At(t, "apc") /\ StateFree
    /\ queued' = queued \cup {call[t].op}
    /\ Goes(t, IF call[t].event THEN "event" ELSE "done")
    /\ UNCHANGED <<handles, stream, log, signaled>>

SignalEvent(t) ==
    /\ At(t, "event") /\ StateFree
    /\ signaled' = signaled \cup {call[t].op}
    /\ Goes(t, "done")
    /\ UNCHANGED <<handles, stream, log, queued>>

Returns(t) ==
    /\ At(t, "done")
    /\ Moves(t, NoCall)
    /\ UNCHANGED <<handles, stream, log, completion>>

-----------------------------------------------------------------------------
Init ==
    /\ handleTable = {} /\ fileState = [h \in Handles |-> NoEntry] /\ opened = 0
    /\ call = [t \in Threads |-> NoCall]
    /\ fileMutex = NoThread /\ tellg = 0 /\ failbit = FALSE
    /\ log = <<>> /\ queued = {} /\ signaled = {}

NtReadFile(t) ==
    \/ \E h \in Handles, o \in Offsets \cup {Current}, l \in Lengths, a, e \in BOOLEAN:
          ReadBegins(t, h, o, l, a, e)
    \/ CopyEnds(t) \/ StoreStatus(t) \/ QueueApc(t) \/ SignalEvent(t) \/ Returns(t)

Next ==
    \E t \in Threads:
        \/ LookUp(t) \/ ReadTable(t) \/ NtCreateFile(t)
        \/ \E h \in Handles: NtClose(t, h)
        \/ \E h \in Handles, o \in Offsets: NtSetInformationFile(t, h, o)
        \/ NtReadFile(t)

Spec == Init /\ [][Next]_vars

-----------------------------------------------------------------------------
Positions == {NoEntry} \cup Nat

TypeOK ==
    /\ handleTable \subseteq 1..opened /\ opened \in 0..MaxHandles
    /\ fileState \in [Handles -> Positions]
    /\ \A t \in Threads: call[t].at \in {"none", "table", "open", "copy", "status", "apc",
                                         "event", "done"}
    /\ fileMutex \in Threads \cup {NoThread} /\ tellg \in Nat /\ failbit \in BOOLEAN
    /\ Len(log) <= MaxOps /\ queued \subseteq Ops /\ signaled \subseteq Ops
    /\ \A t \in Threads: At(t, "copy") => fileMutex = t

\* A read that reports success has got the bytes of the file that it asked for: no other
\* read and no look-up has moved the stream between its seek and its copy, and it stays
\* within the file.
GotItsBytes ==
    \A i \in DOMAIN log:
        log[i].status = "success" /\ log[i].count > 0 =>
            /\ log[i].got = Start + log[i].first
            /\ log[i].first + log[i].count <= FileSize

\* Reads that give no offset tile the file: each begins where the last read or seek on
\* the handle ended, whichever thread made it, with nothing read twice or left out.
ReadsTile ==
    \A i, j \in DOMAIN log:
        /\ i < j /\ log[i].handle = log[j].handle /\ log[j].byteOffset = Current
        /\ \A k \in (i + 1)..(j - 1): log[k].handle # log[i].handle
        => log[j].first = log[i].first + log[i].count

\* Whoever is told of a read, by the event or the APC, finds the status block filled and
\* the bytes in place.
ToldWhenDone == \A i \in queued \cup signaled: log[i].status = "success"
=============================================================================
