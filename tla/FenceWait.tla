----------------------------- MODULE FenceWait -----------------------------
(***************************************************************************)
(* The overrides of host/game_overrides.cpp around the fence block of the  *)
(* guest's D3D device, composed with the CommandProcessor that writes the  *)
(* block when it executes EVENT_WRITE_SHD.  The block's first word is the  *)
(* fence that sub_820B5BC8 waits on and its second the cursor that         *)
(* sub_820B4EE8 waits on; sub_820B5A28 closes a chunk of commands, and its *)
(* override writes both words at once, before the GPU has seen the chunk.  *)
(*                                                                         *)
(* The device is guest code and not in the repository.  What is assumed of *)
(* it: sub_820B5A28 closes a chunk by an EVENT_WRITE_SHD of the            *)
(* expectation and raises it by 2, a draw's data is waited for by the      *)
(* expectation of its chunk, and is rewritten only after such a wait.      *)
(***************************************************************************)
EXTENDS CommandProcessor

CONSTANTS
    FenceMenus,       \* the sets of packets one of which a guest announces that waits
    Menus,            \* and one that does not, for the fence block is not there yet
    MaxPackets,       \* bound: packets announced
    MaxExpectation,   \* bound: the expectation
    MaxRewrites,      \* bound: versions of the vertex data behind the first
    Cursors           \* values of the cursor word

\* Only sub_820B5A28 has the GPU write the fence.
LeavesFence(p) == p.op = "event" => p.word # "fence"

ASSUME FenceAssumption ==
    /\ MaxPackets \in Nat /\ MaxRewrites \in Nat /\ MaxExpectation \in Nat \ {0, 1}
    /\ {"fence", "cursor"} \subseteq Words /\ Cursors \subseteq Nat
    /\ \A m \in Menus \cup FenceMenus: m \subseteq PM4 /\ \A p \in m: LeavesFence(p)
    /\ \A b \in DOMAIN Buffer: \A i \in DOMAIN Buffer[b]: LeavesFence(Buffer[b][i])

VARIABLES
    menu,         \* the packets this guest announces
    fenceBlock,   \* structPtr, at self+10768, is set
    expectation,  \* self+10780
    lastUse,      \* guest: the expectation its last draw is waited for, 0: none pending
    waiter,       \* the guest thread in one of the waits
    late,         \* kMaxWait has passed since the wait began
    intended,     \* history: the version of the vertex data each packet was announced with
    ahead,        \* history: the fence is what sub_820B5A28 wrote, not the GPU
    trusting      \* history: a wait for the last draw has returned by time alone, or by
                  \* a fence that sub_820B5A28 wrote

guestVars == <<menu, fenceBlock, expectation, lastUse, waiter, late>>
fenceVars == <<processorVars, guestVars, intended, ahead, trusting>>

Out == [pc |-> "out", value |-> 0, own |-> FALSE]

-----------------------------------------------------------------------------
(* The guest's device. *)

Idle == waiter.pc = "out"

Announces(p) ==
    /\ Len(stream) < MaxPackets
    /\ stream' = Append(stream, p)
    /\ intended' = Append(intended, content)
    /\ UNCHANGED <<vars, scan, machine, content, executed>>

FencePacket ==
    [op |-> "event", count |-> 3, counter |-> FALSE, word |-> "fence", value |-> expectation]

Announce(p) ==
    /\ Idle
    /\ Announces(p)
    /\ lastUse' = IF p.op \in {"draw", "indirect"} THEN expectation ELSE lastUse
    /\ UNCHANGED <<menu, fenceBlock, expectation, waiter, late, ahead, trusting>>

\* The vertex data is written anew once no draw is waited for.
Rewrite ==
    /\ Idle /\ fenceBlock /\ lastUse = 0 /\ content < MaxRewrites
    /\ content' = content + 1
    /\ UNCHANGED <<vars, stream, scan, machine, executed, guestVars, intended, ahead, trusting>>

-----------------------------------------------------------------------------
(* sub_820B5A28. *)

\* The override, and then the function itself
CloseChunk(c) ==
    /\ expectation + 2 <= MaxExpectation /\ Len(stream) < MaxPackets
    /\ memory' = IF fenceBlock THEN [memory EXCEPT !["fence"] = expectation, !["cursor"] = c]
                 ELSE memory
    /\ ahead' = (fenceBlock \/ ahead)
    /\ stream' = Append(stream, FencePacket)
    /\ intended' = Append(intended, content)
    /\ expectation' = expectation + 2

\* A chunk that was queued may be closed while the guest thread waits.
sub_820B5A28(c) ==
    /\ CloseChunk(c)
    /\ UNCHANGED <<vars, scan, regs, vertexShader, commands, content, executed, menu,
                   fenceBlock, lastUse, waiter, late, trusting>>

-----------------------------------------------------------------------------
(* sub_820B5BC8. *)

\* Variant: a chunk that is being executed is taken for done.
BugPassedEarly(target) == target <= memory["fence"] + 2

Passed(target) == target <= memory["fence"]

\* Variant: a chunk is closed only for a wait that is ahead of the expectation.
BugFlushes(target, inProgress) == target > expectation /\ ~inProgress

Flushes(target, inProgress) == target = expectation /\ ~inProgress

\* The wait for a fence the GPU or sub_820B5A28 has already written
WaitPassesAtOnce(target) ==
    /\ Idle /\ fenceBlock /\ target # 0 /\ Passed(target)
    /\ lastUse' = IF target >= lastUse THEN 0 ELSE lastUse
    /\ trusting' = (trusting \/ ahead)
    /\ UNCHANGED <<processorVars, menu, fenceBlock, expectation, waiter, late, intended, ahead>>

\* sub_820B6220 closes the chunk the caller wants to see done.
sub_820B5BC8(target, inProgress, c) ==
    /\ Idle /\ fenceBlock /\ target # 0 /\ ~Passed(target)
    /\ waiter' = [pc |-> "fence", value |-> target, own |-> target = expectation /\ ~inProgress]
    /\ late' = FALSE
    /\ IF Flushes(target, inProgress)
       THEN CloseChunk(c)
       ELSE UNCHANGED <<memory, ahead, stream, intended, expectation>>
    /\ UNCHANGED <<vars, scan, regs, vertexShader, commands, content, executed, menu,
                   fenceBlock, lastUse, trusting>>

-----------------------------------------------------------------------------
(* sub_820B4EE8. *)

\* Same generation, or one before with the cursor at or past the value
Satisfied(value) ==
    LET fence == memory["cursor"]
        diff == (value - fence) % 4
    IN diff = 0 \/ (diff = 1 /\ value <= fence - (fence % 4))

\* The gate looks at the target, the loop at another value.
sub_820B4EE8(x, target) ==
    /\ Idle /\ fenceBlock /\ ~Satisfied(target)
    /\ waiter' = [pc |-> "cursor", value |-> x, own |-> FALSE]
    /\ late' = FALSE
    /\ UNCHANGED <<processorVars, menu, fenceBlock, expectation, lastUse, intended, ahead,
                   trusting>>

-----------------------------------------------------------------------------
(* The loops of the two. *)

FencePassed == waiter.pc = "fence" /\ Passed(waiter.value)
CursorPassed == waiter.pc = "cursor" /\ Satisfied(waiter.value)

\* Variant: the time is looked at only by a wait for a chunk of its own.
BugGivesUp == ~Idle /\ late /\ waiter.own

GivesUp == ~Idle /\ late

\* The guest takes a return for the fence, whichever way it came about.
Recheck ==
    /\ FencePassed \/ CursorPassed \/ GivesUp
    /\ waiter' = Out
    /\ lastUse' = IF waiter.pc = "fence" /\ waiter.value >= lastUse THEN 0 ELSE lastUse
    /\ trusting' = (trusting \/ (waiter.pc = "fence" /\ (~FencePassed \/ ahead)))
    /\ UNCHANGED <<processorVars, menu, fenceBlock, expectation, late, intended, ahead>>

TimePasses ==
    /\ ~Idle /\ ~late
    /\ late' = TRUE
    /\ UNCHANGED <<processorVars, menu, fenceBlock, expectation, lastUse, waiter, intended, ahead,
                   trusting>>

-----------------------------------------------------------------------------
FenceInit ==
    /\ ProcessorInit
    /\ \/ fenceBlock = TRUE /\ menu \in FenceMenus
       \/ fenceBlock = FALSE /\ menu \in Menus
    /\ expectation = 2 /\ lastUse = 0
    /\ waiter = Out /\ late = FALSE
    /\ intended = <<>> /\ ahead = FALSE /\ trusting = FALSE

Guest ==
    \/ Rewrite
    \/ \E p \in menu: Announce(p)
    \/ \E c \in Cursors: sub_820B5A28(c)
    \/ \E t \in 0..expectation: WaitPassesAtOnce(t)
    \/ \E t \in 0..expectation, inProgress \in BOOLEAN, c \in Cursors:
          sub_820B5BC8(t, inProgress, c)
    \/ \E x, t \in Cursors: sub_820B4EE8(x, t)

WritesFence == Decodable /\ Packet.op = "event" /\ Packet.count = 3 /\ Packet.word = "fence"

\* What the GPU writes to the fence it writes when it has come that far.
Pump ==
    /\ ScanBuffer
    /\ ahead' = (ahead /\ ~WritesFence)
    /\ UNCHANGED <<guestVars, intended, trusting>>

List == ListStep /\ UNCHANGED <<guestVars, intended, ahead, trusting>>

FenceNext == Guest \/ Recheck \/ TimePasses \/ Pump \/ List

FenceSpec == FenceInit /\ [][FenceNext]_fenceVars

\* The pump loop never exits and the loops of the waits go round; the display link calls
\* drawInMTKView.  Nothing is assumed of the guest, nor that time runs out.
FenceFairSpec ==
    /\ FenceSpec
    /\ WF_fenceVars(Pump) /\ WF_fenceVars(Recheck)
    /\ WF_fenceVars(TakeReady /\ List)

-----------------------------------------------------------------------------
\* The types of the composition: draw list, command processor and fence block.  A register
\* behind the end of the file is never stored, whatever write runs over the end.
FenceTypeOK ==
    /\ TypeOK /\ ProcessorTypeOK
    /\ menu \in Menus \cup FenceMenus /\ fenceBlock \in BOOLEAN
    /\ expectation \in 2..MaxExpectation /\ expectation % 2 = 0 /\ lastUse \in 0..expectation
    /\ waiter.pc \in {"out", "fence", "cursor"} /\ waiter.own \in BOOLEAN
    /\ late \in BOOLEAN /\ ahead \in BOOLEAN /\ trusting \in BOOLEAN
    /\ Len(intended) = Len(stream)

\* A guest that rewrites a vertex buffer only after its wait never has the new data drawn
\* by a draw it announced with the old: the pump copies the data before the fence behind
\* the draw lets the wait through.  Two ways out break the promise, and no other does: a
\* wait that gives up, and a fence that sub_820B5A28 wrote ahead of the GPU.
ReuseIsSafe ==
    \A c \in Range(commands): c.content = intended[c.root] \/ trusting

Announced(target) ==
    \E i \in DOMAIN stream:
        stream[i].op = "event" /\ stream[i].word = "fence" /\ stream[i].value >= target

\* A wait ends without giving up when a packet that writes its fence is in the ring, and
\* so it does when it waits for the chunk being written: the wait itself has it closed.
\* The fence may go back meanwhile, from what sub_820B5A28 wrote to what the GPU writes.
FenceFreesWaiter ==
    (waiter.pc = "fence" /\ (Announced(waiter.value) \/ waiter.own)) ~> Idle

\* No wait outlasts kMaxWait: the guest goes on whatever the GPU does.
WaitsEnd == (~Idle /\ late) ~> Idle
=============================================================================
