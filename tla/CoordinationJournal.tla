------------------------ MODULE CoordinationJournal ------------------------
(***************************************************************************)
(* The transaction log of src/persistence/worker-coordination-store.ts:    *)
(* append, load and the lossless checkpoint, with the lock of              *)
(* journal-exclusivity.ts around them and the broker that replays the log. *)
(*                                                                         *)
(* A transaction is the set of keys (subjects, events, checkpoints,        *)
(* liveness entries, handoffs) it writes; its number stands for its        *)
(* transaction id, its audits and receipts and the values it stores.       *)
(***************************************************************************)
EXTENDS Integers, FiniteSets, Sequences, SequencesExt

CONSTANTS
    Procs,          \* processes that have the journal open
    Keys,           \* keys of the replayed maps
    MaxTxn,         \* bound: transactions
    MaxFaults       \* bound: failing system calls and crashes

Free == "free"

ASSUME JournalConstants == {MaxTxn, MaxFaults} \subseteq Nat /\ Free \notin Procs

VARIABLES
    file,           \* complete lines of the journal
    torn,           \* an unterminated fragment follows them
    synced,         \* how many of the lines are on disk for certain
    inode,          \* which file the authority path names
    archived,       \* lines kept in archives
    lock,           \* the process that holds the writer lock, or none
    op,             \* what each process is doing
    memory,         \* each process's replayed maps: key -> transaction
    wrote,          \* history: the keys of every transaction begun
    author,         \* history: the process that began it
    acked,          \* history: transactions whose append succeeded
    failed,         \* history: transactions whose append failed
    faults

vars == <<file, torn, synced, inode, archived, lock, op, memory, wrote, author, acked, failed, faults>>
disk == <<file, torn, synced, inode, archived>>
histories == <<wrote, author, acked, failed>>

Down == [at |-> "down"]
Ready == [at |-> "ready"]

Line == [id : 0..MaxTxn, keys : SUBSET Keys]

\* What a fragment and the record appended to it read as: a complete line
\* that does not parse.
Malformed == [id |-> 0, keys |-> {}]

\* parseCoordinationLine accepts every line: none malformed, no id twice.
Readable(lines) ==
    /\ \A i \in DOMAIN lines : lines[i] # Malformed
    /\ \A i, j \in DOMAIN lines : lines[i].id = lines[j].id => i = j

Carrying(lines, k) == {i \in DOMAIN lines : k \in lines[i].keys}
FirstOf(S) == CHOOSE i \in S : \A j \in S : i <= j
LastOf(S) == CHOOSE i \in S : \A j \in S : i >= j

\* replay: the latest value of every key, 0 for none.
Replayed(lines) ==
    [k \in Keys |-> IF Carrying(lines, k) = {} THEN 0 ELSE lines[LastOf(Carrying(lines, k))].id]

\* The order in which the replayed maps list their keys: by first appearance.
Listed(lines) ==
    [k \in Keys |-> IF Carrying(lines, k) = {} THEN 0 ELSE lines[FirstOf(Carrying(lines, k))].id]

\* Mutant: only the latest snapshot of a key is kept.
CompactedLatest(lines) ==
    [i \in DOMAIN lines |->
        [lines[i] EXCEPT !.keys = {k \in @ : i = LastOf(Carrying(lines, k))}]]

\* checkpoint: every transaction stays, with the first and the latest
\* snapshot of each key.
Compacted(lines) ==
    [i \in DOMAIN lines |->
        [lines[i] EXCEPT !.keys = {k \in @ : i \in {FirstOf(Carrying(lines, k)),
                                                    LastOf(Carrying(lines, k))}}]]

(***************************************************************************)
(* Appending                                                               *)
(***************************************************************************)

\* withJournalExclusivity: BEGIN IMMEDIATE, retried while another holds it.
Acquired(p) == lock = Free /\ lock' = p

\* append opens the journal under the lock.
Begin(p, keys) ==
    LET id == Len(wrote) + 1 IN
    /\ op[p] = Ready /\ id <= MaxTxn
    /\ Acquired(p)
    /\ op' = [op EXCEPT ![p] = [at |-> "write", id |-> id, inode |-> inode]]
    /\ wrote' = Append(wrote, keys) /\ author' = Append(author, p)
    /\ UNCHANGED <<disk, memory, acked, failed, faults>>

\* O_APPEND: the bytes follow whatever the file ends with. A file that was
\* replaced meanwhile is only an archive.
Write(p) ==
    LET line == [id |-> op[p].id, keys |-> wrote[op[p].id]] IN
    /\ op[p].at = "write"
    /\ IF op[p].inode = inode
       THEN /\ file' = Append(file, IF torn THEN Malformed ELSE line)
            /\ torn' = FALSE
            /\ UNCHANGED archived
       ELSE archived' = archived \cup {line} /\ UNCHANGED <<file, torn>>
    /\ op' = [op EXCEPT ![p].at = "sync"]
    /\ UNCHANGED <<synced, inode, lock, memory, histories, faults>>

\* Mutant: the append returns without an fsync.
SyncSkipped(p) ==
    /\ op[p].at = "sync"
    /\ op' = [op EXCEPT ![p].at = "checkpoint"]
    /\ UNCHANGED <<disk, lock, memory, histories, faults>>

Sync(p) ==
    /\ op[p].at = "sync"
    /\ synced' = IF op[p].inode = inode THEN Len(file) ELSE synced
    /\ op' = [op EXCEPT ![p].at = "checkpoint"]
    /\ UNCHANGED <<file, torn, inode, archived, lock, memory, histories, faults>>

\* A write or an fsync fails: the caller is told, the tail is left as it is.
AppendFails(p) ==
    /\ op[p].at \in {"write", "sync"} /\ faults < MaxFaults
    /\ faults' = faults + 1
    /\ torn' \in IF op[p].at = "write" THEN {torn, TRUE} ELSE {torn}
    /\ failed' = failed \cup {op[p].id}
    /\ op' = [op EXCEPT ![p] = Ready]
    /\ lock' = Free
    /\ UNCHANGED <<file, synced, inode, archived, memory, wrote, author, acked>>

\* The append returns and commit applies the transaction to the live maps;
\* load returns and initialize is done.
Done(p) ==
    /\ op[p].at \in {"checkpoint", "installed"}
    /\ op' = [op EXCEPT ![p] = Ready]
    /\ lock' = Free
    /\ IF op[p].id = 0
       THEN UNCHANGED <<memory, acked>>
       ELSE /\ memory' = [memory EXCEPT ![p] = [k \in Keys |->
                             IF k \in wrote[op[p].id] THEN op[p].id ELSE @[k]]]
            /\ acked' = acked \cup {op[p].id}
    /\ UNCHANGED <<disk, wrote, author, failed, faults>>

(***************************************************************************)
(* The checkpoint                                                          *)
(***************************************************************************)

\* maybeCheckpoint finds the journal large enough, validates it and writes
\* the replacement beside it.
Prepare(p) ==
    /\ op[p].at = "checkpoint"
    /\ Readable(file) /\ Compacted(file) # file
    /\ op' = [op EXCEPT ![p] = [at |-> "link", id |-> op[p].id, copy |-> file]]
    /\ UNCHANGED <<disk, lock, memory, histories, faults>>

\* link(path, archive), and the directory is synced.
Linked(p) == archived' = archived \cup ToSet(file)

\* A source that changed since it was read aborts the checkpoint.
Link(p) ==
    /\ op[p].at = "link"
    /\ IF file = op[p].copy
       THEN op' = [op EXCEPT ![p].at = "install"] /\ Linked(p)
       ELSE op' = [op EXCEPT ![p] = [at |-> "installed", id |-> op[p].id]] /\ UNCHANGED archived
    /\ UNCHANGED <<file, torn, synced, inode, lock, memory, histories, faults>>

\* rename(temporary, path): another file, without the torn fragment.
Install(p) ==
    /\ op[p].at = "install"
    /\ file' = Compacted(op[p].copy)
    /\ torn' = FALSE
    /\ synced' = Len(file')
    /\ inode' = inode + 1
    /\ op' = [op EXCEPT ![p] = [at |-> "installed", id |-> op[p].id]]
    /\ UNCHANGED <<archived, lock, memory, histories, faults>>

(***************************************************************************)
(* Crash and restart                                                       *)
(***************************************************************************)

\* A process dies, in the middle of a write or between two steps, and the
\* lock with it. What it wrote stays in the file.
Crash(p) ==
    /\ op[p] # Down /\ faults < MaxFaults
    /\ faults' = faults + 1
    /\ torn' \in IF op[p].at = "write" THEN {torn, TRUE} ELSE {torn}
    /\ op' = [op EXCEPT ![p] = Down]
    /\ memory' = [memory EXCEPT ![p] = [k \in Keys |-> 0]]
    /\ lock' = IF lock = p THEN Free ELSE lock
    /\ UNCHANGED <<file, synced, inode, archived, histories>>

\* The machine stops: what was not synced survives whole, in part or not at
\* all.
PowerLoss ==
    /\ faults < MaxFaults
    /\ faults' = faults + 1
    /\ \E n \in synced..Len(file) :
        /\ file' = SubSeq(file, 1, n)
        /\ torn' \in IF n = Len(file) THEN {torn, FALSE} ELSE BOOLEAN
    /\ op' = [p \in Procs |-> Down]
    /\ memory' = [p \in Procs |-> [k \in Keys |-> 0]]
    /\ lock' = Free
    /\ UNCHANGED <<synced, inode, archived, histories>>

\* load: a journal with an unreadable line refuses to start.
Load(p) ==
    /\ op[p] = Down
    /\ Readable(file)
    /\ Acquired(p)
    /\ memory' = [memory EXCEPT ![p] = Replayed(file)]
    /\ op' = [op EXCEPT ![p] = [at |-> "checkpoint", id |-> 0]]
    /\ UNCHANGED <<disk, histories, faults>>

Init ==
    /\ file = <<>> /\ torn = FALSE /\ synced = 0 /\ inode = 1 /\ archived = {}
    /\ lock = Free /\ op = [p \in Procs |-> Down]
    /\ memory = [p \in Procs |-> [k \in Keys |-> 0]]
    /\ wrote = <<>> /\ author = <<>> /\ acked = {} /\ failed = {} /\ faults = 0

Step(p) ==
    \/ \E keys \in (SUBSET Keys) \ {{}} : Begin(p, keys)
    \/ Write(p) \/ Sync(p) \/ AppendFails(p) \/ Done(p)
    \/ Prepare(p) \/ Link(p) \/ Install(p)
    \/ Crash(p) \/ Load(p)

Next == PowerLoss \/ \E p \in Procs : Step(p)

Spec == Init /\ [][Next]_vars

(***************************************************************************)
(* Properties                                                              *)
(***************************************************************************)

\* Every variable has its type.
TypeOK ==
    /\ file \in Seq(Line) /\ torn \in BOOLEAN /\ synced \in 0..Len(file)
    /\ inode \in Nat /\ archived \subseteq Line
    /\ lock \in Procs \cup {Free}
    /\ memory \in [Procs -> [Keys -> 0..MaxTxn]]
    /\ wrote \in Seq(SUBSET Keys) /\ author \in Seq(Procs) /\ acked \cup failed \subseteq DOMAIN wrote
    /\ acked \cap failed = {} /\ faults \in 0..MaxFaults

\* While the journal can be read, every acknowledged transaction is in it,
\* and replaying it yields each of its values or a later one: no crash, torn
\* write, failed fsync or checkpoint of either process takes it back.
AckedSurvives ==
    Readable(file) =>
        \A id \in acked : \E i \in DOMAIN file :
            /\ file[i].id = id
            /\ \A k \in wrote[id] : \E j \in i..Len(file) : k \in file[j].keys

\* A checkpoint is lossless: the same transactions, the same latest values
\* and the same listing order are replayed after it as before it.
CheckpointLossless ==
    [][inode' # inode =>
        /\ Replayed(file') = Replayed(file)
        /\ Listed(file') = Listed(file)
        /\ {line.id : line \in ToSet(file')} = {line.id : line \in ToSet(file)}]_vars

=============================================================================
