-------------------------- MODULE MCShaderLoading --------------------------
(* ShaderLoading for TLC: every microcode of up to four of the slots below, which   *)
(* are given with all three readings of their dwords; and four programs, one of     *)
(* which is not translated, and a pair that is not compiled.                        *)
EXTENDS ShaderLoading

CONSTANTS p1, p2, p3, p4

MCPrograms == {p1, p2, p3, p4}
MCTranslatable == {p1, p2, p3}
MCRejected == {<<p1, p2>>}

Nop == [op |-> "nop", address |-> 0, count |-> 0, fetches |-> {}]
Alloc == [Nop EXCEPT !.op = "alloc"]
Cond == [Nop EXCEPT !.op = "cond"]
Exec(address, count, fetches) ==
    [op |-> "exec", address |-> address, count |-> count, fetches |-> fetches]

NotFetch ==
    [vertex |-> FALSE, format |-> "other", plain |-> FALSE, mini |-> FALSE,
     const |-> 0, dest |-> 0, stride |-> 0]
IdleAlu ==
    [scalar |-> FALSE, writes |-> FALSE, selfMov |-> FALSE, plain |-> TRUE, dest |-> 0, src |-> 0]

\* Control flow read as an ALU instruction: the low bits of its sequence are the mask of
\* the vector components written.
FlowSlot(a, b) ==
    [flow |-> <<a, b>>, fetch |-> NotFetch,
     alu |-> [IdleAlu EXCEPT !.writes = a.fetches \cap {0, 1} # {}]]

\* A fetch of float4 read as control flow is two kNop, as an ALU instruction idle.
FetchSlot(mini, const, dest) ==
    [flow |-> <<Nop, Nop>>, alu |-> IdleAlu,
     fetch |-> [vertex |-> TRUE, format |-> "float4", plain |-> TRUE, mini |-> mini,
                const |-> const, dest |-> dest, stride |-> 7]]

\* An export read as control flow has kAlloc or kCondExecPredCleanEnd in its second
\* half, by what it says of its unused third source.
ExportSlot(dest, src, second) ==
    [flow |-> <<Nop, second>>, fetch |-> NotFetch,
     alu |-> [scalar |-> FALSE, writes |-> TRUE, selfMov |-> TRUE, plain |-> TRUE,
              dest |-> dest, src |-> src]]

MCSlots ==
    {FlowSlot(Exec(1, 2, {0}), Nop),
     FlowSlot(Exec(1, 1, {0}), Exec(2, 2, {0})),
     FlowSlot(Alloc, Exec(2, 2, {0})),
     FlowSlot(Exec(1, 3, {0, 1}), Cond),
     FlowSlot(Exec(1, 3, {0, 1}), Nop),
     FetchSlot(FALSE, 1, 0), FetchSlot(FALSE, 2, 1), FetchSlot(TRUE, 0, 1),
     ExportSlot(62, 0, Alloc), ExportSlot(0, 1, Cond)}
=============================================================================
