------------------------------- MODULE Xdvdfs -------------------------------
(***************************************************************************)
(* XdvdfsImage of host/xdvdfs.cpp: the resolution of a path on the disc.   *)
(* A directory is a table of entries that form a binary search tree in the *)
(* order of their raw names; the search walks the tree, and when that      *)
(* fails scans the table from its start.  Names are compared raw to walk   *)
(* the tree and without case to recognise the entry.                       *)
(*                                                                         *)
(* A step is one turn of one of the two loops of SearchDirectory, or what  *)
(* ResolvePath does between two searches.  The bytes of the table are      *)
(* abstracted to slots: an entry fills one, 0xFF padding one.              *)
(***************************************************************************)
EXTENDS Naturals, Sequences, FiniteSets

CONSTANTS
    Names,          \* numbers: their order is that of the raw bytes
    Folded,         \* [Names -> names without case]
    MaxEntries      \* bound: entries in the root, subdirectories have one less

ASSUME XdvdfsAssumption ==
    /\ Names \subseteq Nat \ {0} /\ MaxEntries \in Nat \ {0}

VARIABLES
    root, sub,      \* the disc: the root's table and that of the one subdirectory
    subName,        \* the entry of the root that is a directory, 0 for none
    path,           \* the parts to resolve
    part,           \* the one that is searched for: 1 in the root, 2 in the subdirectory
    phase,          \* "tree", "linear", or "found" and "missing" between searches, "done"
    slot,           \* entryOffset, linearOffset
    current,        \* the name of the entry found last, 0 for none
    outcome         \* what ResolvePath returns: <<FALSE>> or <<TRUE, table, entry>>

lookUpVars == <<root, sub, subName, path, part, phase, slot, current, outcome>>
disc == <<root, sub, subName>>

-----------------------------------------------------------------------------
(* The disc. *)

Padding == 0

\* A search for n ends at an entry that differs from it by case only.
Same(n, m) == n # Padding /\ m # Padding /\ Folded[n] = Folded[m]

Entries(table) == {table[i]: i \in DOMAIN table} \ {Padding}
Size(table) == Len(table)

\* No two entries differ by case only; padding may lie between entries and behind them,
\* but a table with entries begins with one, the root of the tree.
IsTable(table) ==
    /\ \A i, j \in DOMAIN table: i # j => ~Same(table[i], table[j])
    /\ Entries(table) # {} => table[1] # Padding

Tables(n) == {t \in UNION {[1..k -> Names \cup {Padding}]: k \in 0..n}: IsTable(t)}

\* Slots below slot i in the tree: no entry before i separates the two.
Below(table, i) ==
    {j \in (i + 1)..Len(table):
        /\ table[j] # Padding
        /\ \A k \in 1..(i - 1):
              table[k] # Padding => (table[k] < table[i] <=> table[k] < table[j])}

\* The tree has its root in the first slot; a link of 0 is no child.  Links are slot
\* numbers less one: the offset of the root itself is 0.
Link(S) == IF S = {} THEN 0 ELSE (CHOOSE j \in S: \A k \in S: j <= k) - 1
Left(table, i) == Link({j \in Below(table, i): table[j] < table[i]})
Right(table, i) == Link({j \in Below(table, i): table[j] > table[i]})

-----------------------------------------------------------------------------
(* SearchDirectory. *)

Searched == IF part = 1 THEN root ELSE sub
Want == path[part]

\* The header lies in the table and is not padding.
Readable == slot + 1 <= Size(Searched) /\ Searched[slot + 1] # Padding
There == Searched[slot + 1]
Match == Readable /\ Same(There, Want)

Child == IF Want < There THEN Left(Searched, slot + 1) ELSE Right(Searched, slot + 1)

\* Variant: 0xFFFF alone is no child, 0 is an offset as any other.
BugZeroIsRoot ==
    /\ phase = "tree" /\ Readable /\ ~Match
    /\ slot' = Child
    /\ UNCHANGED <<disc, path, part, phase, current, outcome>>

TreeStep ==
    /\ phase = "tree" /\ Readable /\ ~Match /\ Child # 0
    /\ slot' = Child
    /\ UNCHANGED <<disc, path, part, phase, current, outcome>>

\* Variant: what the tree does not lead to is not there.
BugNoFallback ==
    /\ phase = "tree" /\ ~Match
    /\ Readable => Child = 0
    /\ phase' = "missing"
    /\ UNCHANGED <<disc, path, part, slot, current, outcome>>

TreeGivesUp ==
    /\ phase = "tree" /\ ~Match
    /\ Readable => Child = 0
    /\ phase' = "linear"
    /\ slot' = 0
    /\ UNCHANGED <<disc, path, part, current, outcome>>

LinearStep ==
    /\ phase = "linear" /\ Readable /\ ~Match
    /\ slot' = slot + 1
    /\ UNCHANGED <<disc, path, part, phase, current, outcome>>

\* The end of the table, or a name length of 0xFF.
LinearGivesUp ==
    /\ phase = "linear" /\ ~Readable
    /\ phase' = "missing"
    /\ UNCHANGED <<disc, path, part, slot, current, outcome>>

Found ==
    /\ phase \in {"tree", "linear"} /\ Match
    /\ current' = There
    /\ phase' = "found"
    /\ UNCHANGED <<disc, path, part, slot, outcome>>

-----------------------------------------------------------------------------
(* ResolvePath. *)

IsDirectory == part = 1 /\ current = subName

Answers(result) ==
    /\ phase' = "done"
    /\ outcome' = result
    /\ UNCHANGED <<disc, path, part, slot, current>>

\* SplitPath found no part.
EmptyPath == phase = "tree" /\ path = <<>> /\ Answers(<<FALSE>>)

NotFound == phase = "missing" /\ Answers(<<FALSE>>)

LastPart == phase = "found" /\ Len(path) = part /\ Answers(<<TRUE, part, current>>)

PastFile == phase = "found" /\ Len(path) > part /\ ~IsDirectory /\ Answers(<<FALSE>>)

Descend ==
    /\ phase = "found" /\ Len(path) > part /\ IsDirectory
    /\ part' = part + 1
    /\ phase' = "tree" /\ slot' = 0
    /\ UNCHANGED <<disc, path, current, outcome>>

-----------------------------------------------------------------------------
\* Any disc, any path of up to two parts.
LookUpInit ==
    /\ root \in Tables(MaxEntries) /\ sub \in Tables(MaxEntries - 1)
    /\ subName \in Entries(root) \cup {0}
    /\ path \in UNION {[1..k -> Names]: k \in 0..2}
    /\ part = 1 /\ phase = "tree" /\ slot = 0 /\ current = 0 /\ outcome = <<>>

SearchDirectory ==
    path # <<>> /\ (TreeStep \/ TreeGivesUp \/ LinearStep \/ LinearGivesUp \/ Found)

ResolvePath == EmptyPath \/ NotFound \/ LastPart \/ PastFile \/ Descend

LookUpNext == SearchDirectory \/ ResolvePath

LookUpSpec == LookUpInit /\ [][LookUpNext]_lookUpVars

\* The caller runs until it has its answer.
FairLookUpSpec == LookUpSpec /\ WF_lookUpVars(LookUpNext)

-----------------------------------------------------------------------------

\* What a path stands for, by the names in the tables alone.
Has(table, n) == \E e \in Entries(table): Same(e, n)
The(table, n) == CHOOSE e \in Entries(table): Same(e, n)
Denotes(p) ==
    IF p = <<>> \/ ~Has(root, p[1]) THEN <<FALSE>>
    ELSE IF Len(p) = 1 THEN <<TRUE, 1, The(root, p[1])>>
    ELSE IF The(root, p[1]) = subName /\ Has(sub, p[2]) THEN <<TRUE, 2, The(sub, p[2])>>
    ELSE <<FALSE>>

\* An entry that the linear scan does not come to and that the walk need not find: behind
\* padding, and wanted in another case than it has.
Hidden(table, n) ==
    \E i, j \in DOMAIN table:
        i < j /\ table[i] = Padding /\ Same(table[j], n) /\ table[j] # n

\* The answer is the entry that the path names without case, wherever it lies in its
\* table and whatever way the comparison of raw bytes led in the tree; a file is never
\* taken for a directory.  SearchDirectory calls its linear scan "guaranteed correct
\* regardless of any remaining comparison-order edge case"; it is, but for an entry behind
\* padding, where it ends: that may be missed, and no other entry is returned for it.
ResolvesRight ==
    phase = "done" =>
        \/ outcome = Denotes(path)
        \/ outcome = <<FALSE>> /\ Hidden(Searched, Want)

\* Every look-up ends: no walk goes around in the tree.
Terminates == <>(phase = "done")
=============================================================================
