------------------------------- MODULE Checksum -------------------------------
(***************************************************************************)
(* The snapshot checksum tool (src/unnamed/part_004): main launches one    *)
(* goroutine per state prefix, in sorted order, under a weighted semaphore *)
(* of NumProcesses; each goroutine pages through its prefix with           *)
(* lib.DBIteratePrefixKeys, dropping the first entry of every page after   *)
(* the first (it is the last entry of the page before), and adds each      *)
(* entry to the checksum; main then acquires the whole semaphore as a      *)
(* barrier.  A key is <<prefix, index>> in key order; db gives each        *)
(* prefix's entry sizes.  A panic in any goroutine ends the program.       *)
(***************************************************************************)
EXTENDS Integers, Sequences, SequencesExt

CONSTANTS
    PrefixOrder,    \* the state prefixes, sorted as main sorts them
    EntrySizes,     \* sizes an entry (key plus value bytes) may have
    MaxKeys,        \* keys per prefix at most
    MaxBytes,       \* maxBytes, the page budget
    NumProcesses    \* the semaphore's weight

StatePrefixes == ToSet(PrefixOrder)
ASSUME /\ EntrySizes \subseteq Nat \ {0} /\ MaxKeys \in Nat
       /\ MaxBytes \in Nat /\ NumProcesses \in Nat \ {0}

VARIABLES
    db,         \* the snapshot database: prefix -> entry sizes in key order
    mainPc,     \* "launch" (the loop, then the barrier), "done" or "panic"
    todo,       \* prefixes main has not yet launched
    held,       \* semaphore units held
    gor,        \* per prefix: pc, lastPrefix (an index) and removeFirst
    checksum    \* times AddChecksumBytes was called for each key

vars == <<db, mainPc, todo, held, gor, checksum>>

(***************************************************************************)
(* lib.DBIteratePrefixKeys(db, prefix, startKey, maxBytes), as the caller  *)
(* relies on it (deso-core, not in this repository): entries of the prefix *)
(* from startKey inclusive, in key order, appended one at a time until the *)
(* running size exceeds maxBytes, in which case fullDb is TRUE.  Index 0   *)
(* stands for startKey = prefix, before the first key.                     *)
(***************************************************************************)
\* A plausible bug: a page also ends at a running size equal to maxBytes.
PageEndInclusive(p, s) ==
    LET from == IF s = 0 THEN 1 ELSE s
        over == {j \in from..Len(db[p]) : SumFunctionOnSet(db[p], from..j) >= MaxBytes}
    IN  IF over = {} THEN <<Len(db[p]), FALSE>> ELSE <<Min(over), TRUE>>

PageEnd(p, s) ==
    LET from == IF s = 0 THEN 1 ELSE s
        over == {j \in from..Len(db[p]) : SumFunctionOnSet(db[p], from..j) > MaxBytes}
    IN  IF over = {} THEN <<Len(db[p]), FALSE>> ELSE <<Min(over), TRUE>>

DBIteratePrefixKeys(p, s) ==
    LET from == IF s = 0 THEN 1 ELSE s
    IN  [entries |-> [i \in 1..(PageEnd(p, s)[1] - from + 1) |-> from + i - 1],
         fullDb  |-> PageEnd(p, s)[2]]

Keys == UNION {{<<p, i>> : i \in DOMAIN db[p]} : p \in StatePrefixes}

TypeOK ==
    /\ db \in [StatePrefixes -> BoundedSeq(EntrySizes, MaxKeys)]
    /\ mainPc \in {"launch", "done", "panic"}
    /\ todo \in Seq(StatePrefixes)
    /\ held \in 0..NumProcesses
    /\ gor \in [StatePrefixes -> [pc : {"idle", "run", "done"},
                             last : Nat, removeFirst : BOOLEAN]]
    /\ checksum \in [Keys -> Nat]

Init ==
    /\ db \in [StatePrefixes -> BoundedSeq(EntrySizes, MaxKeys)]
    /\ mainPc = "launch"
    /\ todo = PrefixOrder
    /\ held = 0
    /\ gor = [p \in StatePrefixes |-> [pc |-> "idle", last |-> 0, removeFirst |-> FALSE]]
    /\ checksum = [k \in Keys |-> 0]

\* A plausible bug: sem.Acquire taken as never blocking.
LaunchNoWait ==
    /\ mainPc = "launch" /\ todo # <<>>
    /\ held' = held + 1
    /\ gor' = [gor EXCEPT ![Head(todo)].pc = "run"]
    /\ todo' = Tail(todo)
    /\ UNCHANGED <<db, mainPc, checksum>>

\* One turn of main's loop: sem.Acquire(ctx, 1) blocks until a unit is
\* free, then the goroutine for the prefix starts.
Launch ==
    /\ mainPc = "launch" /\ todo # <<>>
    /\ held < NumProcesses
    /\ held' = held + 1
    /\ gor' = [gor EXCEPT ![Head(todo)].pc = "run"]
    /\ todo' = Tail(todo)
    /\ UNCHANGED <<db, mainPc, checksum>>

\* After the loop, sem.Acquire(ctx, numProcesses) waits for every goroutine.
Barrier ==
    /\ mainPc = "launch" /\ todo = <<>>
    /\ held = 0
    /\ held' = NumProcesses
    /\ mainPc' = "done"
    /\ UNCHANGED <<db, todo, gor, checksum>>

\* A plausible bug: lastPrefix advanced but removeFirst never set.
AfterPageNeverRemoveFirst(entries, removeFirst) == removeFirst

\* removeFirst = true once a page had an entry.
AfterPage(entries, removeFirst) == IF entries # <<>> THEN TRUE ELSE removeFirst

\* A plausible bug: the goroutine's deferred sem.Release(1) missing.
ReleaseMissing(fullDb) == held' = held

\* The loop breaks when fullDb is false, and the deferred sem.Release(1)
\* frees the goroutine's unit.
Release(fullDb) == held' = IF fullDb THEN held ELSE held - 1

\* One iteration of a goroutine's loop: fetch a page, drop its first entry
\* if removeFirst, checksum the rest, move lastPrefix to the last one; an
\* empty page with fullDb panics; a page without fullDb ends the goroutine.
Page(p) ==
    LET page == DBIteratePrefixKeys(p, gor[p].last)
        entries == IF gor[p].removeFirst THEN Tail(page.entries) ELSE page.entries
    IN  /\ mainPc = "launch" /\ gor[p].pc = "run"
        /\ checksum' = [k \in Keys |-> IF k[1] = p /\ k[2] \in ToSet(entries)
                                       THEN checksum[k] + 1 ELSE checksum[k]]
        /\ IF entries = <<>> /\ page.fullDb
           THEN mainPc' = "panic" /\ UNCHANGED <<gor, held>>
           ELSE /\ gor' = [gor EXCEPT ![p].pc = IF page.fullDb THEN "run" ELSE "done",
                                      ![p].last = IF entries # <<>> THEN Last(entries) ELSE @,
                                      ![p].removeFirst = AfterPage(entries, @)]
                /\ Release(page.fullDb)
                /\ UNCHANGED mainPc
        /\ UNCHANGED <<db, todo>>

Next ==
    \/ Launch
    \/ Barrier
    \/ \E p \in StatePrefixes : Page(p)

Spec == Init /\ [][Next]_vars /\ WF_vars(Next)

(***************************************************************************)
(* Properties.                                                             *)
(***************************************************************************)

\* When main passes the barrier and prints the final checksum, every key of
\* every state prefix has been added exactly once: the removeFirst paging
\* neither skips nor repeats the boundary entry of two pages, and no
\* goroutine is still running.
ChecksumCoversEachKeyOnce ==
    mainPc = "done" => \A k \in Keys : checksum[k] = 1

\* The "Number of ancestral records should not be zero" panic of a page loop
\* happens only in a database holding an entry larger than maxBytes: the
\* removeFirst paging never empties a page of a database whose entries fit.
PanicOnlyOnOversizedEntry ==
    mainPc = "panic" => \E p \in StatePrefixes : \E i \in DOMAIN db[p] : db[p][i] > MaxBytes

\* The tool eventually ends, printing the final checksum or panicking: no
\* page loop spins, and the barrier is released.
Termination == <>(mainPc \in {"done", "panic"})
=============================================================================
