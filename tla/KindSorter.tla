----------------------------- MODULE KindSorter -----------------------------
(***************************************************************************)
(* The ordering of sync tasks before they are applied                      *)
(* (controller/sync.go: resourceOrder, kindSorter, and the sort.Sort call  *)
(* at the end of generateSyncTasks).                                       *)
(*                                                                         *)
(* A sync task is abstracted to the three things kindSorter.Less reads:    *)
(* whether the task has a target object (a task without one is a prune),  *)
(* the target's kind and its name.  Names are natural numbers standing for *)
(* strings in byte order; kinds are strings whose byte order is given by   *)
(* the constant KindsByBytes.                                              *)
(*                                                                         *)
(* sort.Sort on fewer than 12 elements is an insertion sort (Go 1.10 and   *)
(* later: the gap-6 Shell pass only touches lists longer than 6, and       *)
(* pdqsort also falls back to insertion sort), so for the list lengths     *)
(* checked here the sort the controller runs is InsertionSort below.       *)
(***************************************************************************)
EXTENDS Naturals, Sequences, SequencesExt, SortOrder

CONSTANTS
  ResourceOrder,   \* the sortOrder the tasks are sorted by (resourceOrder)
  Kinds,           \* the kinds a task may have (known and unknown ones)
  KindsByBytes,    \* a sequence listing Kinds in Go string (byte) order
  Names,           \* object names, a finite set of naturals in byte order
  MaxTasks         \* longest task list generated

ASSUME /\ ToSet(KindsByBytes) = Kinds
       /\ Names \subseteq Nat
       /\ MaxTasks \in Nat

Task == [target : BOOLEAN, kind : Kinds, name : Names]

VARIABLES
  tasks,    \* the task list generateSyncTasks built, before sorting
  sorted    \* the same list after sort.Sort(newKindSorter(...))

vars == <<tasks, sorted>>

-----------------------------------------------------------------------------
(* newKindSorter: the ordering map built from resourceOrder, and the Go    *)
(* map lookup `v, ok := ordering[kind]`, which yields 0 for a missing key. *)
Ordering(k) ==
  IF Contains(ResourceOrder, k)
  THEN (CHOOSE i \in 1..Len(ResourceOrder) : ResourceOrder[i] = k) - 1
  ELSE 0

IsKnown(k) == Contains(ResourceOrder, k)

\* a.GetKind() < b.GetKind() on Go strings
KindBytesLess(a, b) ==
  (CHOOSE i \in 1..Len(KindsByBytes) : KindsByBytes[i] = a)
    < (CHOOSE i \in 1..Len(KindsByBytes) : KindsByBytes[i] = b)

(* kindSorter.Less(i, j), with the tasks themselves as arguments.          *)
Less(a, b) ==
  LET first  == Ordering(a.kind)
      second == Ordering(b.kind)
      aok    == IsKnown(a.kind)
      bok    == IsKnown(b.kind)
  IN  CASE ~a.target -> FALSE
        [] ~b.target -> TRUE
        [] first = second ->
             IF ~aok /\ ~bok /\ a.kind # b.kind
             THEN KindBytesLess(a.kind, b.kind)
             ELSE a.name < b.name
        [] ~aok -> FALSE
        [] ~bok -> TRUE
        [] OTHER -> first < second

(* Mutant: Swap writes one side only.                                      *)
SwapAtOverwrite(s, i, j) == [s EXCEPT ![i] = s[j]]

SwapAt(s, i, j) == [s EXCEPT ![i] = s[j], ![j] = s[i]]

(* Mutant: the inner loop stops one short of the front of the list.        *)
RECURSIVE SiftDownShort(_, _)
SiftDownShort(s, j) ==
  IF j > 2 /\ Less(s[j], s[j - 1])
  THEN SiftDownShort(SwapAt(s, j, j - 1), j - 1)
  ELSE s

(* The inner loop of insertionSort: move s[j] left while Less(j, j-1).     *)
RECURSIVE SiftDown(_, _)
SiftDown(s, j) ==
  IF j > 1 /\ Less(s[j], s[j - 1])
  THEN SiftDown(SwapAt(s, j, j - 1), j - 1)
  ELSE s

RECURSIVE InsertFrom(_, _)
InsertFrom(s, i) ==
  IF i > Len(s) THEN s ELSE InsertFrom(SiftDown(s, i), i + 1)

InsertionSort(s) == InsertFrom(s, 2)

-----------------------------------------------------------------------------
(* generateSyncTasks appends one task per resource state of the           *)
(* comparison (the comparison may pair any desired and live objects) and   *)
(* then sorts the list; sorted is the sort of the list built so far.       *)
TaskLists == UNION {[1..n -> Task] : n \in 0..MaxTasks}

Init ==
  /\ tasks = <<>>
  /\ sorted = <<>>

AppendSyncTask ==
  /\ Len(tasks) < MaxTasks
  /\ \E t \in Task :
       /\ tasks' = Append(tasks, t)
       /\ sorted' = InsertionSort(tasks')

(* The next sync operation starts a new task list.                         *)
NewSyncOperation ==
  /\ tasks # <<>>
  /\ tasks' = <<>>
  /\ sorted' = <<>>

Next == AppendSyncTask \/ NewSyncOperation

Spec == Init /\ [][Next]_vars

-----------------------------------------------------------------------------
(* The reference order of the specification (section 4.4): creates before  *)
(* prunes (which are grouped, in no stated order); known kinds in          *)
(* resourceOrder order; unknown kinds after every known kind, among        *)
(* themselves by kind name; within a kind by name.                         *)
SpecKey(t) ==
  IF ~t.target THEN <<1, 0, 0, 0>>
  ELSE <<0,
         IF IsKnown(t.kind) THEN 0 ELSE 1,
         IF IsKnown(t.kind) THEN Ordering(t.kind)
         ELSE CHOOSE i \in 1..Len(KindsByBytes) : KindsByBytes[i] = t.kind,
         t.name>>

KeyLess(x, y) ==
  \E i \in 1..Len(x) : x[i] < y[i] /\ \A j \in 1..(i - 1) : x[j] = y[j]

\* b may follow a in a list sorted by the reference order
NotBefore(a, b) == ~KeyLess(SpecKey(b), SpecKey(a))

(* Both lists are task lists, and sorting only reorders: sorted holds the  *)
(* same tasks as tasks, each as many times (kindSorter.Swap exchanges).   *)
TypeOK ==
  /\ tasks \in TaskLists
  /\ sorted \in TaskLists
  /\ ToBag(sorted) = ToBag(tasks)

(* The sorted task list respects the reference order of the specification: *)
(* in particular Namespace precedes Deployment and every known kind        *)
(* precedes every unknown kind, whatever order generateSyncTasks met them  *)
(* in.  The code's Less compares the raw map lookups, in which an unknown  *)
(* kind and Namespace both read 0.                                         *)
SortedByResourceOrder == IsSorted(sorted, NotBefore)
=============================================================================
