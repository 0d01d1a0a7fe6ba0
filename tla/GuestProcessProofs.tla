------------------------- MODULE GuestProcessProofs -------------------------
(***************************************************************************)
(* Proofs about GuestProcess and its parts: what the exit code says of how *)
(* the process ended, whichever way guest, watchdog and user race; and the *)
(* start-up notifications reach one listener in order, however its calls   *)
(* pick them.                                                              *)
(***************************************************************************)
EXTENDS GuestProcess, SequenceTheorems, WellFoundedInduction, TLAPS

\* The watchdog posts one block, at its end.
OneBlock == watchdog # "ended" => dispatched = 0

\* Main is over when the process is.
OverIsOver == main = "over" <=> ~Alive

\* The watchdog starts with the loop; without a window there is neither.
Headless ==
    /\ main = "start" => watchdog = "none"
    /\ main = "wait" => ~windowed
    /\ ~windowed => /\ main \in {"start", "wait", "return", "over"}
                    /\ watchdog = "none"

\* The user closes the window while the loop runs, and main looks before it goes on,
\* unless the guest ends the process first.
ClosedIsLookedAt == closedByUser => main \in {"loop", "closed?"} \/ exitCode \in {3, 4}

\* What the watchdog asks main to do follows from what it has stored.
StoredFirst ==
    /\ watchdog \in {"request", "dispatch", "ended"} => watchdogResult \in {0, 2}
    /\ watchdog = "returned" => guest = "returned"

\* Main goes on to return 0 behind a watchdog that found the guest back.
JoinedFirst == main = "return" /\ windowed => watchdog = "ended" /\ watchdogResult = 0

\* TypeOK in two parts, the truth values and the rest
Flags ==
    /\ windowed \in BOOLEAN /\ shutdownRequested \in BOOLEAN
    /\ closedByUser \in BOOLEAN /\ stopping \in BOOLEAN

Places ==
    /\ guest \in {"running", "returned"}
    /\ main \in {"start", "wait", "loop", "closed?", "join", "return", "over"}
    /\ watchdog \in {"none", "wait", "timeout", "returned", "request", "dispatch", "ended"}
    /\ watchdogResult \in {Unset, 0, 2} /\ exitCode \in {99, 0, 1, 2, 3, 4}
    /\ dispatched \in 0..1 /\ frames \in 0..MaxFrames
    /\ halted \in {"no", "KeBugCheck", "HalReturnToFirmware"}

\* The guest's calls end the process at once.
HaltedIsOver == Alive => halted = "no"

EndInv ==
    /\ Places /\ OneBlock /\ OverIsOver /\ Headless /\ ClosedIsLookedAt
    /\ StoredFirst /\ JoinedFirst /\ HaltedIsOver /\ ExitCodeTells

LEMMA FlagsInit == Init => Flags
BY Zenon DEF Init, Flags

LEMMA FlagsStep == Flags /\ [Next]_vars => Flags'
<1> SUFFICES ASSUME Flags, [Next]_vars PROVE Flags'
  OBVIOUS
<1>1. windowed' = windowed
  BY Zenon DEF Next, MainThread, WatchdogThread, Guest, GuestReturns, KeBugCheck,
     HalReturnToFirmware, WindowWillClose,
     DrawInMTKView, NoDevice, StartGuest, HeadlessWaitFor, MainQueueBlock,
     RunEventLoopReturns, WasClosedByUser, JoinWatchdog, ReturnFromMain, WatchdogWaitFor,
     StoreResult, RequestShutdown, Main, Exit, Exits, ending, vars
<1>2. shutdownRequested' \in {shutdownRequested, TRUE} /\ closedByUser' \in {closedByUser, TRUE}
  BY Zenon DEF Next, MainThread, WatchdogThread, Guest, GuestReturns, KeBugCheck,
     HalReturnToFirmware, WindowWillClose,
     DrawInMTKView, NoDevice, StartGuest, HeadlessWaitFor, MainQueueBlock,
     RunEventLoopReturns, WasClosedByUser, JoinWatchdog, ReturnFromMain, WatchdogWaitFor,
     StoreResult, RequestShutdown, Main, Exit, Exits, ending, vars, flags
<1>3. stopping' \in {stopping, TRUE}
  BY Zenon DEF Next, MainThread, WatchdogThread, Guest, GuestReturns, KeBugCheck,
     HalReturnToFirmware, WindowWillClose,
     DrawInMTKView, NoDevice, StartGuest, HeadlessWaitFor, MainQueueBlock,
     RunEventLoopReturns, WasClosedByUser, JoinWatchdog, ReturnFromMain, WatchdogWaitFor,
     StoreResult, RequestShutdown, Main, Exit, Exits, ending, vars, loop, StopApplication
<1> QED
  BY <1>1, <1>2, <1>3, Zenon DEF Flags

LEMMA EndInit == Init => EndInv
<1> SUFFICES ASSUME Init PROVE EndInv
  OBVIOUS
<1>1. Places
  BY FramesAssumption DEF Init, Places, Unset
<1>2. OneBlock /\ OverIsOver /\ Headless /\ StoredFirst /\ JoinedFirst
  BY DEF Init, OneBlock, OverIsOver, Headless, StoredFirst, JoinedFirst, Alive
<1>3. ClosedIsLookedAt /\ HaltedIsOver /\ ExitCodeTells
  BY DEF Init, ClosedIsLookedAt, HaltedIsOver, ExitCodeTells, Alive
<1> QED
  BY <1>1, <1>2, <1>3 DEF EndInv

LEMMA EndStep == EndInv /\ [Next]_vars => EndInv'
<1> SUFFICES ASSUME EndInv, [Next]_vars PROVE EndInv'
  OBVIOUS
<1> USE FramesAssumption
    DEF EndInv, Places, OneBlock, OverIsOver, Headless, ClosedIsLookedAt, StoredFirst,
        JoinedFirst, HaltedIsOver, ExitCodeTells, Alive, Unset, flags, loop, ending, LoopRuns,
        StopApplication, GoesOn, Main, Exit, Exits
<1>1. CASE Guest
  <2>1. CASE GuestReturns
    BY <2>1 DEF GuestReturns
  <2>2. CASE KeBugCheck
    BY <2>2 DEF KeBugCheck
  <2>3. CASE HalReturnToFirmware
    BY <2>3 DEF HalReturnToFirmware
  <2> QED
    BY <1>1, <2>1, <2>2, <2>3 DEF Guest
<1>2. CASE WindowWillClose
  BY <1>2 DEF WindowWillClose
<1>3. CASE DrawInMTKView
  BY <1>3 DEF DrawInMTKView
<1>4. CASE MainThread
  <2>1. CASE NoDevice
    <3>1. exitCode' = 1 /\ main' = "over" /\ Alive /\ main = "start"
      BY <2>1 DEF NoDevice
    <3>2. UNCHANGED <<windowed, guest, watchdog, watchdogResult, closedByUser, dispatched, frames,
                      halted>>
      BY <2>1, Zenon DEF NoDevice, Exit, Exits, flags, loop
    <3> QED
      BY <3>1, <3>2
  <2>2. CASE StartGuest
    <3>1. CASE windowed
      BY <2>2, <3>1 DEF StartGuest
    <3>2. CASE ~windowed
      BY <2>2, <3>2 DEF StartGuest
    <3> QED
      BY <3>1, <3>2
  <2>3. CASE HeadlessWaitFor
    BY <2>3 DEF HeadlessWaitFor
  <2>4. CASE MainQueueBlock
    BY <2>4 DEF MainQueueBlock
  <2>5. CASE RunEventLoopReturns
    BY <2>5 DEF RunEventLoopReturns
  <2>6. CASE WasClosedByUser
    BY <2>6 DEF WasClosedByUser
  <2>7. CASE JoinWatchdog
    BY <2>7 DEF JoinWatchdog
  <2>8. CASE ReturnFromMain
    BY <2>8 DEF ReturnFromMain
  <2> QED
    BY <1>4, <2>1, <2>2, <2>3, <2>4, <2>5, <2>6, <2>7, <2>8 DEF MainThread
<1>5. CASE WatchdogThread
  <2>1. CASE WatchdogWaitFor
    BY <2>1 DEF WatchdogWaitFor
  <2>2. CASE StoreResult
    BY <2>2 DEF StoreResult
  <2>3. CASE RequestShutdown
    BY <2>3 DEF RequestShutdown
  <2> QED
    BY <1>5, <2>1, <2>2, <2>3 DEF WatchdogThread
<1>6. CASE UNCHANGED vars
  BY <1>6 DEF vars
<1> QED
  BY <1>1, <1>2, <1>3, <1>4, <1>5, <1>6 DEF Next

\* Every reachable state of the process is well typed; the watchdog posts one block.
THEOREM TypeCorrect == Spec => []TypeOK
<1>1. Flags /\ EndInv => TypeOK
  BY Zenon DEF Flags, EndInv, Places, TypeOK
<1> QED
  BY <1>1, FlagsInit, FlagsStep, EndInit, EndStep, PTL DEF Spec

\* What the exit code says of guest, watchdog, user and the guest's own ends holds in every
\* order of the four.
THEOREM ExitCodeIsRight == Spec => []ExitCodeTells
<1>1. EndInv => ExitCodeTells
  BY DEF EndInv
<1> QED
  BY <1>1, EndInit, EndStep, PTL DEF Spec

(***************************************************************************)
(* A queue and what was handed out of it, as values: taking the oldest of  *)
(* a kind moves it from the one to the other and leaves the other kinds as *)
(* they were.                                                              *)
(***************************************************************************)
Notes == [id: Ids, data: {0, 1}]

\* Erasing an element of a queue moves what is behind it up.
LEMMA Erased ==
    ASSUME NEW s \in Seq(Notes), NEW p \in DOMAIN s
    PROVE  /\ RemoveAt(s, p) \in Seq(Notes)
           /\ Len(RemoveAt(s, p)) = Len(s) - 1
           /\ \A i \in 1..(Len(s) - 1): RemoveAt(s, p)[i] = IF i < p THEN s[i] ELSE s[i + 1]
<1>1. p \in 1..Len(s) /\ Len(s) \in Nat
  OBVIOUS
<1>2. SubSeq(s, 1, p - 1) \in Seq(Notes) /\ SubSeq(s, p + 1, Len(s)) \in Seq(Notes)
  BY <1>1
<1>3. Len(SubSeq(s, 1, p - 1)) = p - 1 /\ Len(SubSeq(s, p + 1, Len(s))) = Len(s) - p
  BY <1>1
<1>4. /\ \A i \in 1..(p - 1): SubSeq(s, 1, p - 1)[i] = s[i]
      /\ \A i \in 1..(Len(s) - p): SubSeq(s, p + 1, Len(s))[i] = s[p + i]
  BY <1>1
<1> DEFINE u == SubSeq(s, 1, p - 1)
           v == SubSeq(s, p + 1, Len(s))
<1> HIDE DEF u, v
<1>5. /\ u \in Seq(Notes) /\ Len(u) = p - 1 /\ \A i \in 1..(p - 1): u[i] = s[i]
      /\ v \in Seq(Notes) /\ Len(v) = Len(s) - p /\ \A i \in 1..(Len(s) - p): v[i] = s[p + i]
  BY <1>2, <1>3, <1>4 DEF u, v
<1>6. /\ u \o v \in Seq(Notes) /\ Len(u \o v) = Len(s) - 1
      /\ \A i \in 1..(Len(s) - 1): (u \o v)[i] = IF i < p THEN s[i] ELSE s[i + 1]
  <2>1. u \o v \in Seq(Notes) /\ Len(u \o v) = Len(s) - 1
    BY <1>1, <1>5
  <2>2. ASSUME NEW i \in 1..(Len(s) - 1), i < p PROVE (u \o v)[i] = s[i]
    BY <1>1, <1>5, <2>2
  <2>3. ASSUME NEW i \in 1..(Len(s) - 1), ~(i < p) PROVE (u \o v)[i] = s[i + 1]
    <3>1. (u \o v)[i] = v[i - Len(u)]
      <4>1. i \in 1..(Len(u) + Len(v)) /\ ~(i <= Len(u))
        BY <1>1, <1>5, <2>3
      <4> QED BY <1>5, <4>1, ConcatProperties
    <3>2. i - Len(u) = i + 1 - p /\ i + 1 - p \in 1..(Len(s) - p) /\ p + (i + 1 - p) = i + 1
      BY <1>1, <1>5, <2>3
    <3> QED BY <1>5, <3>1, <3>2
  <2> QED BY <2>1, <2>2, <2>3
<1>7. RemoveAt(s, p) = u \o v
  BY DEF RemoveAt, u, v
<1> QED BY <1>6, <1>7

\* Where an element is once another has been erased, and where it was
After(n, p) == IF n < p THEN n ELSE n - 1
Before(i, p) == IF i < p THEN i ELSE i + 1

LEMMA Moved ==
    ASSUME NEW s \in Seq(Notes), NEW p \in DOMAIN s
    PROVE  /\ \A n \in DOMAIN s \ {p}: /\ After(n, p) \in DOMAIN RemoveAt(s, p)
                                       /\ RemoveAt(s, p)[After(n, p)] = s[n]
           /\ \A i \in DOMAIN RemoveAt(s, p): /\ Before(i, p) \in DOMAIN s \ {p}
                                              /\ After(Before(i, p), p) = i
                                              /\ RemoveAt(s, p)[i] = s[Before(i, p)]
           /\ \A m, n \in DOMAIN s \ {p}: m < n => After(m, p) < After(n, p)
<1>1. DOMAIN s = 1..Len(s) /\ Len(s) \in Nat /\ p \in 1..Len(s)
  OBVIOUS
<1>2. DOMAIN RemoveAt(s, p) = 1..(Len(s) - 1)
  BY Erased
<1>3. \A n \in DOMAIN s \ {p}: After(n, p) \in DOMAIN RemoveAt(s, p)
  BY <1>1, <1>2 DEF After
<1>4. \A n \in DOMAIN s \ {p}: RemoveAt(s, p)[After(n, p)] = s[n]
  <2>1. ASSUME NEW n \in DOMAIN s, n < p PROVE RemoveAt(s, p)[n] = s[n]
    <3>1. n \in 1..(Len(s) - 1)
      BY <1>1, <2>1
    <3> QED BY <2>1, <3>1, Erased
  <2>2. ASSUME NEW n \in DOMAIN s, p < n PROVE RemoveAt(s, p)[n - 1] = s[n]
    <3>1. n - 1 \in 1..(Len(s) - 1) /\ ~(n - 1 < p) /\ (n - 1) + 1 = n
      BY <1>1, <2>2
    <3> QED BY <3>1, Erased
  <2>3. \A n \in DOMAIN s \ {p}: n < p \/ p < n
    BY <1>1
  <2>4. \A n \in DOMAIN s: p < n => ~(n < p)
    BY <1>1
  <2> QED BY <2>1, <2>2, <2>3, <2>4, Zenon DEF After
<1>5. \A i \in DOMAIN RemoveAt(s, p): Before(i, p) \in DOMAIN s \ {p} /\ After(Before(i, p), p) = i
  BY <1>1, <1>2 DEF After, Before
<1>6. \A i \in DOMAIN RemoveAt(s, p): RemoveAt(s, p)[i] = s[Before(i, p)]
  BY <1>1, <1>2, Erased DEF Before
<1>7. \A m, n \in DOMAIN s \ {p}: m < n => After(m, p) < After(n, p)
  BY <1>1 DEF After
<1> QED BY <1>3, <1>4, <1>5, <1>6, <1>7

\* The places of a kind move with the rest.
LEMMA KindMoved ==
    ASSUME NEW s \in Seq(Notes), NEW p \in DOMAIN s, NEW id
    PROVE  OfKind(RemoveAt(s, p), id) = {After(n, p): n \in OfKind(s, id) \ {p}}
<1>1. ASSUME NEW i \in OfKind(RemoveAt(s, p), id)
      PROVE  i \in {After(n, p): n \in OfKind(s, id) \ {p}}
  <2>1. Before(i, p) \in OfKind(s, id) \ {p} /\ After(Before(i, p), p) = i
    BY <1>1, Moved DEF OfKind
  <2> QED BY <2>1
<1>2. ASSUME NEW n \in OfKind(s, id) \ {p} PROVE After(n, p) \in OfKind(RemoveAt(s, p), id)
  BY <1>2, Moved DEF OfKind
<1> QED BY <1>1, <1>2

\* Erasing a notification of another kind.
LEMMA OtherKindStays ==
    ASSUME NEW s \in Seq(Notes), NEW p \in DOMAIN s, NEW id, s[p].id # id,
           NEW got, NEW a, NEW b, InTurn(s, got, id, a, b)
    PROVE  InTurn(RemoveAt(s, p), got, id, a, b)
<1>1. p \notin OfKind(s, id)
  BY DEF OfKind
<1>2. OfKind(RemoveAt(s, p), id) = {After(n, p): n \in OfKind(s, id)}
  BY <1>1, KindMoved
<1>3. CASE got = <<>> /\ \E m, n \in DOMAIN s: /\ m < n /\ OfKind(s, id) = {m, n}
                                              /\ s[m].data = a /\ s[n].data = b
  <2>1. PICK m \in DOMAIN s, n \in DOMAIN s: /\ m < n /\ OfKind(s, id) = {m, n}
                                             /\ s[m].data = a /\ s[n].data = b
    BY <1>3
  <2>2. m \in DOMAIN s \ {p} /\ n \in DOMAIN s \ {p}
    BY <1>1, <2>1
  <2>3. OfKind(RemoveAt(s, p), id) = {After(m, p), After(n, p)}
    BY <1>2, <2>1
  <2>4. /\ After(m, p) \in DOMAIN RemoveAt(s, p) /\ After(n, p) \in DOMAIN RemoveAt(s, p)
        /\ RemoveAt(s, p)[After(m, p)].data = a /\ RemoveAt(s, p)[After(n, p)].data = b
        /\ After(m, p) < After(n, p)
    BY <2>1, <2>2, Moved
  <2> QED BY <1>3, <2>3, <2>4 DEF InTurn
<1>4. CASE got = <<a>> /\ \E n \in DOMAIN s: OfKind(s, id) = {n} /\ s[n].data = b
  <2>1. PICK n \in DOMAIN s: OfKind(s, id) = {n} /\ s[n].data = b
    BY <1>4
  <2>2. n \in DOMAIN s \ {p}
    BY <1>1, <2>1
  <2>3. OfKind(RemoveAt(s, p), id) = {After(n, p)}
    BY <1>2, <2>1
  <2>4. After(n, p) \in DOMAIN RemoveAt(s, p) /\ RemoveAt(s, p)[After(n, p)].data = b
    BY <2>1, <2>2, Moved
  <2> QED BY <1>4, <2>3, <2>4 DEF InTurn
<1>5. CASE got = <<a, b>> /\ OfKind(s, id) = {}
  BY <1>2, <1>5 DEF InTurn
<1> QED BY <1>3, <1>4, <1>5 DEF InTurn

\* What a second notification makes of what was handed out.
LEMMA SecondAppended ==
    ASSUME NEW S, NEW u \in Seq(S), NEW a \in S, NEW b \in S, Len(u) = 1, u[1] = a
    PROVE  Append(u, b) = <<a, b>>
<1>1. Append(u, b) \in Seq(S)
  BY AppendProperties
<1>2. Append(u, b)[Len(u) + 1] = b /\ Len(Append(u, b)) = Len(u) + 1
  <2>1. Append(u, b)[Len(u) + 1] = b
    BY AppendProperties
  <2>2. Len(Append(u, b)) = Len(u) + 1
    BY AppendProperties
  <2> QED BY <2>1, <2>2
<1>3. Len(Append(u, b)) = 2 /\ Append(u, b)[1] = a /\ Append(u, b)[2] = b
  <2>1. 1 + 1 = 2 /\ 1 \in 1..1
    OBVIOUS
  <2>2. \A i \in 1..Len(u): Append(u, b)[i] = u[i]
    BY AppendProperties
  <2> QED BY <1>2, <2>1, <2>2, Zenon
<1>4. ASSUME NEW t \in Seq(S), Len(t) = 2, t[1] = a, t[2] = b PROVE t = <<a, b>>
  BY <1>4
<1> QED BY <1>1, <1>3, <1>4, Zenon

\* Erasing the oldest of the kind and handing it out.
LEMMA OldestIsNext ==
    ASSUME NEW s \in Seq(Notes), NEW p \in DOMAIN s, NEW id, s[p].id = id,
           \A n \in OfKind(s, id): p <= n,
           NEW got, NEW a, NEW b, InTurn(s, got, id, a, b)
    PROVE  InTurn(RemoveAt(s, p), Append(got, s[p].data), id, a, b)
<1>1. p \in OfKind(s, id)
  BY DEF OfKind
<1>2. OfKind(RemoveAt(s, p), id) = {After(n, p): n \in OfKind(s, id) \ {p}}
  BY KindMoved
<1>3. CASE got = <<>> /\ \E m, n \in DOMAIN s: /\ m < n /\ OfKind(s, id) = {m, n}
                                              /\ s[m].data = a /\ s[n].data = b
  <2>1. PICK m \in DOMAIN s, n \in DOMAIN s: /\ m < n /\ OfKind(s, id) = {m, n}
                                             /\ s[m].data = a /\ s[n].data = b
    BY <1>3
  <2>2. p = m /\ n \in DOMAIN s \ {p}
    <3>1. p <= m /\ p \in {m, n} /\ DOMAIN s \subseteq Nat
      BY <1>1, <2>1
    <3> QED BY <2>1, <3>1
  <2>3. OfKind(RemoveAt(s, p), id) = {After(n, p)}
    BY <1>2, <2>1, <2>2
  <2>4. After(n, p) \in DOMAIN RemoveAt(s, p) /\ RemoveAt(s, p)[After(n, p)].data = b
    BY <2>1, <2>2, Moved
  <2>5. Append(got, s[p].data) = <<a>>
    BY <1>3, <2>1, <2>2
  <2> QED BY <2>3, <2>4, <2>5 DEF InTurn
<1>4. CASE got = <<a>> /\ \E n \in DOMAIN s: OfKind(s, id) = {n} /\ s[n].data = b
  <2>1. PICK n \in DOMAIN s: OfKind(s, id) = {n} /\ s[n].data = b
    BY <1>4
  <2>2. p = n
    BY <1>1, <2>1
  <2>3. OfKind(RemoveAt(s, p), id) = {}
    BY <1>2, <2>1, <2>2
  <2>4. got = <<a>> /\ s[p].data = b
    BY <1>4, <2>1, <2>2
  <2>5. Append(<<a>>, b) = <<a, b>>
    <3>1. <<a>> \in Seq({a, b}) /\ Len(<<a>>) = 1 /\ <<a>>[1] = a /\ b \in {a, b}
      OBVIOUS
    <3> QED BY <3>1, SecondAppended
  <2> QED BY <2>3, <2>4, <2>5 DEF InTurn
<1>5. CASE got = <<a, b>> /\ OfKind(s, id) = {}
  BY <1>1, <1>5
<1> QED BY <1>3, <1>4, <1>5 DEF InTurn

(***************************************************************************)
(* The listeners.                                                          *)
(***************************************************************************)
ListenersTyped ==
    /\ created \in 0..MaxListeners /\ first \in 0..created
    /\ queue \in [Listeners -> Seq(Notes)]
    /\ received \in [Listeners -> [Ids -> Seq({0, 1})]]

\* The notifications have been given to a listener exactly if the flag says so.
FlagTells == notifiedStartup <=> first # 0

NotifyInv == ListenersTyped /\ FlagTells /\ StartupInOrder

\* The start-up notifications themselves are such a queue.
LEMMA StartupInTurn ==
    /\ Startup \in Seq(Notes)
    /\ \A id \in Ids: InTurn(Startup, <<>>, id, StartupData[id][1], StartupData[id][2])
<1>1. Startup \in Seq(Notes)
  BY DEF Startup, Notes, Note, Ids, UI
<1>2. DOMAIN Startup = 1..8
  BY DEF Startup
<1>3. OfKind(Startup, 9) = {1, 2} /\ OfKind(Startup, 10) = {3, 4}
      /\ OfKind(Startup, 18) = {5, 6} /\ OfKind(Startup, 19) = {7, 8}
  BY <1>2 DEF OfKind, Startup, Note, UI
<1>4. /\ Startup[1].data = 1 /\ Startup[2].data = 0 /\ Startup[3].data = 1 /\ Startup[4].data = 1
      /\ Startup[5].data = 0 /\ Startup[6].data = 0 /\ Startup[7].data = 0 /\ Startup[8].data = 0
  BY DEF Startup, Note, UI
<1>5. StartupData[9] = <<1, 0>> /\ StartupData[10] = <<1, 1>>
      /\ StartupData[18] = <<0, 0>> /\ StartupData[19] = <<0, 0>>
  BY DEF StartupData, Ids, UI
<1>6. InTurn(Startup, <<>>, 9, 1, 0) /\ InTurn(Startup, <<>>, 10, 1, 1)
      /\ InTurn(Startup, <<>>, 18, 0, 0) /\ InTurn(Startup, <<>>, 19, 0, 0)
  BY <1>2, <1>3, <1>4 DEF InTurn
<1> QED BY <1>1, <1>5, <1>6 DEF Ids, UI

\* A set of numbers has a least one.
LEMMA LeastOf ==
    ASSUME NEW T \in SUBSET Nat, T # {}
    PROVE  \E x \in T: \A y \in T: x <= y
<1> DEFINE R == OpToRel(<, Nat)
<1>1. IsWellFoundedOn(R, Nat)
  BY NatLessThanWellFounded
<1>2. \A x, y \in Nat: <<x, y>> \in R <=> x < y
  BY DEF OpToRel
<1> HIDE DEF R
<1>3. PICK x \in T: \A y \in T: <<y, x>> \notin R
  BY <1>1, WFMin
<1>4. ASSUME NEW y \in T
      PROVE  x <= y
  <2>1. x \in Nat /\ y \in Nat
    OBVIOUS
  <2>2. ~(y < x)
    BY <1>2, <1>3, <2>1, Zenon
  <2> QED BY <2>1, <2>2
<1> QED BY <1>4

\* XNotifyGetNext takes the oldest of its kind, whichever kind it was asked for.
LEMMA TakenIsOldest ==
    ASSUME ListenersTyped, NEW l \in Listeners, NEW match \in Ids \cup {0},
           Matching(l, match) # {}
    PROVE  /\ Taken(l, match) \in DOMAIN queue[l]
           /\ \A n \in OfKind(queue[l], queue[l][Taken(l, match)].id): Taken(l, match) <= n
<1>1. queue[l] \in Seq(Notes)
  BY DEF ListenersTyped
<1>2. Matching(l, match) \in SUBSET Nat /\ Matching(l, match) \subseteq DOMAIN queue[l]
  BY <1>1 DEF Matching
<1>3. PICK x \in Matching(l, match): \A y \in Matching(l, match): x <= y
  BY <1>2, LeastOf
<1>4. /\ Taken(l, match) \in Matching(l, match)
      /\ \A n \in Matching(l, match): Taken(l, match) <= n
  BY <1>3, Zenon DEF Taken
<1>5. OfKind(queue[l], queue[l][Taken(l, match)].id) \subseteq Matching(l, match)
  BY <1>4 DEF OfKind, Matching
<1> QED BY <1>2, <1>4, <1>5

LEMMA NotifyStart == NotifyInit => NotifyInv
<1> SUFFICES ASSUME NotifyInit PROVE NotifyInv
  OBVIOUS
<1>1. created = 0 /\ first = 0 /\ MaxListeners \in Nat
  BY ListenerAssumption DEF NotifyInit
<1>2. ListenersTyped
  BY <1>1 DEF NotifyInit, ListenersTyped
<1>3. \A l \in Listeners: l # first
  BY <1>1 DEF Listeners
<1>4. StartupInOrder
  BY <1>3 DEF NotifyInit, StartupInOrder
<1> QED BY <1>1, <1>2, <1>4 DEF NotifyInit, NotifyInv, FlagTells

LEMMA NotifyStep ==
    ASSUME NotifyInv, [NotifyNext]_notifyVars
    PROVE  NotifyInv'
<1> USE DEF NotifyInv
<1>1. CASE UNCHANGED notifyVars
  BY <1>1 DEF notifyVars, ListenersTyped, FlagTells, StartupInOrder
<1>2. ASSUME NEW mask \in BOOLEAN, XamNotifyCreateListener(mask) PROVE NotifyInv'
  <2>1. /\ created' = created + 1 /\ created' \in Listeners /\ created' \in 0..MaxListeners
        /\ created' # 0 /\ first # created' /\ first \in 0..created'
    BY <1>2, ListenerAssumption DEF XamNotifyCreateListener, ListenersTyped, Listeners
  <2>2. /\ \A l \in Listeners: l # created' => queue'[l] = queue[l]
        /\ queue'[created'] = IF IsFirst(mask) THEN Startup ELSE <<>>
        /\ received' = received
    BY <1>2, <2>1 DEF XamNotifyCreateListener, ListenersTyped
  <2>3. queue[created'] = <<>> /\ \A id \in Ids: received[created'][id] = <<>>
    BY <2>1 DEF StartupInOrder, Ids
  <2>4. CASE IsFirst(mask)
    <3>1. first = 0 /\ first' = created' /\ notifiedStartup' = TRUE
      BY <1>2, <2>4 DEF XamNotifyCreateListener, IsFirst, FlagTells
    <3>2. \A l \in Listeners: l # first
      BY <3>1 DEF Listeners
    <3>3. ListenersTyped'
      BY <1>2, <2>1, <3>1, <2>4, StartupInTurn DEF ListenersTyped, XamNotifyCreateListener
    <3>4. ASSUME NEW l \in Listeners, NEW id \in Ids
          PROVE  IF l = first'
                 THEN InTurn(queue'[l], received'[l][id], id,
                             StartupData[id][1], StartupData[id][2])
                 ELSE queue'[l] = <<>> /\ received'[l][id] = <<>>
      <4>1. CASE l = created'
        BY <2>2, <2>3, <2>4, <3>1, <4>1, StartupInTurn
      <4>2. CASE l # created'
        BY <2>2, <3>1, <3>2, <4>2 DEF StartupInOrder
      <4> QED BY <4>1, <4>2
    <3> QED BY <2>1, <3>1, <3>3, <3>4 DEF FlagTells, StartupInOrder
  <2>5. CASE ~IsFirst(mask)
    <3>1. first' = first /\ (notifiedStartup' <=> notifiedStartup)
      BY <1>2, <2>5 DEF XamNotifyCreateListener, IsFirst
    <3>2. ListenersTyped'
      BY <1>2, <2>1, <2>5, <3>1 DEF ListenersTyped, XamNotifyCreateListener
    <3>3. queue' = queue
      <4>1. \A l \in Listeners: queue'[l] = queue[l]
        BY <2>2, <2>3, <2>5
      <4> QED BY <3>2, <4>1 DEF ListenersTyped
    <3> QED BY <2>2, <3>1, <3>2, <3>3 DEF FlagTells, StartupInOrder
  <2> QED BY <2>4, <2>5
<1>3. ASSUME NEW l \in Listeners, NEW match \in Ids \cup {0}, XNotifyGetNext(l, match)
      PROVE  NotifyInv'
  <2> DEFINE p == Taken(l, match)
             s == queue[l]
             k == s[p].id
  <2>1. s \in Seq(Notes) /\ p \in DOMAIN s /\ \A n \in OfKind(s, k): p <= n
    BY <1>3, TakenIsOldest DEF XNotifyGetNext, ListenersTyped
  <2> HIDE DEF p
  <2>2. s[p] \in Notes /\ k \in Ids /\ s[p].data \in {0, 1}
    <3>1. s[p] \in Notes
      BY <2>1
    <3> QED BY <3>1 DEF Notes
  <2>3. /\ received' = [received EXCEPT ![l][k] = Append(@, s[p].data)]
        /\ queue' = [queue EXCEPT ![l] = RemoveAt(@, p)]
        /\ UNCHANGED <<created, notifiedStartup, first>>
    BY <1>3 DEF XNotifyGetNext, p
  <2>4. RemoveAt(s, p) \in Seq(Notes)
    BY <2>1, Erased
  <2>5. queue' \in [Listeners -> Seq(Notes)] /\ received' \in [Listeners -> [Ids -> Seq({0, 1})]]
    BY <2>2, <2>3, <2>4 DEF ListenersTyped
  <2>6. s # <<>> /\ l = first
    <3>1. s # <<>>
      BY <2>1
    <3> QED BY <3>1 DEF StartupInOrder, Ids
  <2>7. /\ queue'[l] = RemoveAt(s, p)
        /\ \A m \in Listeners: m # l => queue'[m] = queue[m] /\ received'[m] = received[m]
        /\ received'[l][k] = Append(received[l][k], s[p].data)
        /\ \A id \in Ids: id # k => received'[l][id] = received[l][id]
    BY <2>2, <2>3 DEF ListenersTyped
  <2>8. ASSUME NEW m \in Listeners, NEW id \in Ids
        PROVE  IF m = first'
               THEN InTurn(queue'[m], received'[m][id], id,
                           StartupData[id][1], StartupData[id][2])
               ELSE queue'[m] = <<>> /\ received'[m][id] = <<>>
    <3>1. CASE m # l
      <4>1. queue[m] = <<>> /\ received[m][id] = <<>>
        BY <2>6, <3>1, Zenon DEF StartupInOrder
      <4> QED BY <2>3, <2>6, <2>7, <3>1, <4>1, Zenon
    <3>2. InTurn(s, received[l][id], id, StartupData[id][1], StartupData[id][2])
      BY <2>6 DEF StartupInOrder
    <3>3. CASE m = l /\ id = k
      <4>1. InTurn(RemoveAt(s, p), Append(received[l][k], s[p].data), k,
                   StartupData[k][1], StartupData[k][2])
        BY <2>1, <3>2, <3>3, OldestIsNext
      <4>2. m = first' /\ queue'[m] = RemoveAt(s, p)
        BY <2>3, <2>6, <2>7, <3>3
      <4>3. received'[m][id] = Append(received[l][k], s[p].data)
        BY <2>7, <3>3
      <4> QED BY <3>3, <4>1, <4>2, <4>3
    <3>4. CASE m = l /\ id # k
      <4>1. InTurn(RemoveAt(s, p), received[l][id], id, StartupData[id][1], StartupData[id][2])
        BY <2>1, <3>2, <3>4, OtherKindStays
      <4> QED BY <2>3, <2>6, <2>7, <3>4, <4>1, Zenon
    <3> QED BY <3>1, <3>3, <3>4
  <2> QED BY <2>3, <2>5, <2>8 DEF ListenersTyped, FlagTells, StartupInOrder
<1>4. ASSUME NEW l \in Listeners, NtClose(l) PROVE NotifyInv'
  BY <1>4 DEF NtClose, ListenersTyped, FlagTells, StartupInOrder
<1> QED BY <1>1, <1>2, <1>3, <1>4 DEF NotifyNext

\* The start-up notifications reach one listener, each of them once and each kind in
\* order, for any number of listeners and whichever kinds their calls ask for.
THEOREM StartupStaysInOrder == NotifySpec => []StartupInOrder
<1>1. NotifyInv => StartupInOrder
  BY DEF NotifyInv
<1> QED BY <1>1, NotifyStart, NotifyStep, PTL DEF NotifySpec

(***************************************************************************)
(* The composition.                                                        *)
(***************************************************************************)
\* Beside each other, process and listeners behave as each does alone: the guest's calls
\* do not disturb how the process ends, nor its end what was queued.
THEOREM PartsKeepToTheirSpecs == ProcessSpec => Spec /\ NotifySpec
<1>1. ProcessInit => Init /\ NotifyInit
  BY DEF ProcessInit
<1>2. [ProcessNext]_processVars => [Next]_vars
  BY DEF ProcessNext, ProcessStep, KernelCall, processVars
<1>3. [ProcessNext]_processVars => [NotifyNext]_notifyVars
  BY DEF ProcessNext, ProcessStep, KernelCall, processVars
<1> QED BY <1>1, <1>2, <1>3, PTL DEF ProcessSpec, Spec, NotifySpec
=============================================================================
