------------------------------- MODULE Notify -------------------------------
(***************************************************************************)
(* The notification listeners of host/kernel_impl.cpp:                     *)
(* XamNotifyCreateListener, XNotifyGetNext, and NtClose as far as a        *)
(* listener is concerned.  Each call is one critical section of            *)
(* g_stateMutex.  Handles are numbered as they are issued.  A wait that is *)
(* under way on a handle while it is closed puts it back (Lookup in        *)
(* Dispatcher); here nobody waits on a listener.                           *)
(***************************************************************************)
EXTENDS Naturals, Sequences, SequencesExt

CONSTANT MaxListeners     \* bound: listeners created

ASSUME ListenerAssumption == MaxListeners \in Nat

VARIABLES
    created,          \* listeners created; g_notifyListeners has an entry for each
    open,             \* those whose handle is in g_handleTable
    queue,            \* NotifyListener::queue
    notifiedStartup,  \* g_notifiedStartup
    first,            \* history: the listener that was given the start-up notifications
    received          \* history: what each listener was asked for and gave, by id

notifyVars == <<created, open, queue, notifiedStartup, first, received>>

Listeners == 1..MaxListeners

\* XN_SYS_UI, XN_SYS_SIGNINCHANGED, and two of input devices
UI == 9
Ids == {UI, 10, 18, 19}
Note(id, data) == [id |-> id, data |-> data]
Startup ==
    <<Note(UI, 1), Note(UI, 0), Note(10, 1), Note(10, 1),
      Note(18, 0), Note(18, 0), Note(19, 0), Note(19, 0)>>

-----------------------------------------------------------------------------

IsFirst(mask) == mask /\ ~notifiedStartup

\* mask: bit 0 of the mask is set.
XamNotifyCreateListener(mask) ==
    /\ created < MaxListeners
    /\ created' = created + 1
    /\ open' = open \cup {created'}
    /\ queue' = [queue EXCEPT ![created'] = IF IsFirst(mask) THEN Startup ELSE <<>>]
    /\ notifiedStartup' = (notifiedStartup \/ mask)
    /\ first' = IF IsFirst(mask) THEN created' ELSE first
    /\ UNCHANGED received

Matching(l, match) == {n \in DOMAIN queue[l]: match = 0 \/ queue[l][n].id = match}

\* Variant: the newest of the kind is handed out.
BugTaken(l, match) ==
    CHOOSE n \in Matching(l, match): \A m \in Matching(l, match): m <= n

\* The oldest of the kind, or the oldest of all
Taken(l, match) ==
    CHOOSE n \in Matching(l, match): \A m \in Matching(l, match): n <= m

Finds(l) == l \in open

\* A call with no place for the id, on a handle that is not a listener's or with nothing
\* of the kind queued returns FALSE and changes nothing.
XNotifyGetNext(l, match) ==
    /\ Finds(l) /\ Matching(l, match) # {}
    /\ LET note == queue[l][Taken(l, match)]
       IN received' = [received EXCEPT ![l][note.id] = Append(@, note.data)]
    /\ queue' = [queue EXCEPT ![l] = RemoveAt(@, Taken(l, match))]
    /\ UNCHANGED <<created, open, notifiedStartup, first>>

\* The handle goes, the listener and its queue stay.
NtClose(l) ==
    /\ l \in open
    /\ open' = open \ {l}
    /\ UNCHANGED <<created, queue, notifiedStartup, first, received>>

-----------------------------------------------------------------------------
NotifyInit ==
    /\ created = 0 /\ open = {} /\ notifiedStartup = FALSE /\ first = 0
    /\ queue = [l \in Listeners |-> <<>>]
    /\ received = [l \in Listeners |-> [id \in Ids |-> <<>>]]

NotifyNext ==
    \/ \E mask \in BOOLEAN: XamNotifyCreateListener(mask)
    \/ \E l \in Listeners, match \in Ids \cup {0}: XNotifyGetNext(l, match)
    \/ \E l \in Listeners: NtClose(l)

NotifySpec == NotifyInit /\ [][NotifyNext]_notifyVars

-----------------------------------------------------------------------------
OfKind(s, id) == {n \in DOMAIN s: s[n].id = id}

\* What was handed out of a kind and then what is still queued of it are a and b.
InTurn(s, handedOut, id, a, b) ==
    \/ /\ handedOut = <<>>
       /\ \E m, n \in DOMAIN s:
             /\ m < n /\ OfKind(s, id) = {m, n}
             /\ s[m].data = a /\ s[n].data = b
    \/ /\ handedOut = <<a>>
       /\ \E n \in DOMAIN s: OfKind(s, id) = {n} /\ s[n].data = b
    \/ handedOut = <<a, b>> /\ OfKind(s, id) = {}

StartupData ==
    [id \in Ids |-> CASE id = UI -> <<1, 0>> [] id = 10 -> <<1, 1>> [] OTHER -> <<0, 0>>]

\* The start-up notifications go to one listener, all of them; however calls for one kind
\* and calls for any are mixed, none of them is handed out twice or passed over, and the
\* system's windows are reported shown before they are reported gone.
StartupInOrder ==
    \A l \in Listeners, id \in Ids:
        IF l = first
        THEN InTurn(queue[l], received[l][id], id, StartupData[id][1], StartupData[id][2])
        ELSE queue[l] = <<>> /\ received[l][id] = <<>>
=============================================================================
