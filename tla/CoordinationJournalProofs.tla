---- MODULE CoordinationJournalProofs ----
(* No acknowledged transaction is lost and no checkpoint loses anything, for *)
(* any number of processes, keys and transactions and any failures.          *)
EXTENDS CoordinationJournal, BrokerArchives, SequenceTheorems, NaturalsInduction, WellFoundedInduction, TLAPS

-----------------------------------------------------------------------------
(* The inductive invariant *)

\* What a process holds of its append, its load or its checkpoint.
Appends == [at : {"write", "sync", "checkpoint"}, id : 1..MaxTxn, inode : Nat]
Rests == [at : {"checkpoint", "installed"}, id : 0..MaxTxn]
Copies == [at : {"link", "install"}, id : 0..MaxTxn, copy : Seq(Line)]
Ops == {Down, Ready} \cup Appends \cup Rests \cup Copies

Active(p) == op[p].at \notin {"down", "ready"}

Typed ==
    /\ TypeOK
    /\ op \in [Procs -> Ops]
    /\ Len(wrote) <= MaxTxn /\ Len(author) = Len(wrote)

\* Only the holder of the lock is between two steps, so nobody replaces the file
\* under an append and nobody writes under a checkpoint.
HoldsLock(p) ==
    Active(p) =>
        /\ lock = p
        /\ op[p].id # 0 => op[p].id \in DOMAIN wrote \ (acked \cup failed)
        /\ op[p].at \in {"write", "sync"} => op[p].inode = inode
        /\ op[p].at \in {"link", "install"} => op[p].copy = file /\ Readable(file)
Exclusive == \A p \in Procs : HoldsLock(p)

\* The first n lines carry a transaction and all that it wrote, or show a
\* fragment that another record was appended to.
Kept(lines, w, n, id) ==
    \/ \E i \in 1..n :
          /\ lines[i].id = id
          /\ \A k \in w[id] : \E j \in i..n : k \in lines[j].keys
    \/ \E i \in 1..n : lines[i] = Malformed

\* What a process is about to acknowledge is in the file, and once fsync returned
\* it is on the disk.
Stored(p) ==
    /\ op[p].at = "sync" => Kept(file, wrote, Len(file), op[p].id)
    /\ (op[p].at \in {"checkpoint", "link", "install", "installed"} /\ op[p].id # 0) =>
          Kept(file, wrote, synced, op[p].id)
Durable ==
    /\ \A id \in acked : Kept(file, wrote, synced, id)
    /\ \A p \in Procs : Stored(p)

Inv == Typed /\ Exclusive /\ Durable

-----------------------------------------------------------------------------
(* The first and the last of a set of line numbers *)

LEMMA NatMinimum ==
    ASSUME NEW S, S \subseteq Nat, S # {}
    PROVE  \E x \in S : \A y \in S : x <= y
  <1> DEFINE R == OpToRel(<, Nat)
  <1>1. \A x, y \in Nat : <<y, x>> \in R <=> y < x
    BY DEF OpToRel
  <1>2. IsWellFoundedOn(R, Nat)
    BY NatLessThanWellFounded
  <1> HIDE DEF R
  <1>3. \E x \in S : \A y \in S : ~(<<y, x>> \in R)
    BY <1>2, WFMin
  <1>4. PICK x \in S : \A y \in S : ~(<<y, x>> \in R)
    BY <1>3
  <1>5. ASSUME NEW y \in S PROVE x <= y
    <2>1. x \in Nat /\ y \in Nat
      OBVIOUS
    <2>2. ~(y < x)
      BY <1>1, <1>4, <2>1
    <2> QED BY <2>1, <2>2
  <1> QED BY <1>5

LEMMA FirstOfLines ==
    ASSUME NEW n \in Nat, NEW S, S \subseteq 1..n, S # {}
    PROVE  FirstOf(S) \in S /\ \A j \in S : FirstOf(S) <= j
  <1>1. S \subseteq Nat
    OBVIOUS
  <1>2. \E i \in S : \A j \in S : i <= j
    BY <1>1, NatMinimum
  <1> QED BY <1>2 DEF FirstOf

LEMMA LastOfLines ==
    ASSUME NEW n \in Nat, NEW S, S \subseteq 1..n, S # {}
    PROVE  LastOf(S) \in S /\ \A j \in S : LastOf(S) >= j
  <1> DEFINE T == {n - i : i \in S}
  <1>1. T \subseteq Nat /\ T # {}
    OBVIOUS
  <1>2. PICK x \in T : \A y \in T : x <= y
    BY <1>1, NatMinimum
  <1>3. PICK i \in S : x = n - i
    OBVIOUS
  <1>4. ASSUME NEW j \in S PROVE i >= j
    <2>1. n - j \in T
      OBVIOUS
    <2>2. n - i <= n - j
      BY <1>2, <1>3, <2>1
    <2> QED BY <2>2
  <1>5. \E k \in S : \A j \in S : k >= j
    BY <1>4
  <1> QED BY <1>5 DEF LastOf

\* The greatest and the least member are unique.
LEMMA OnlyLast ==
    ASSUME NEW n \in Nat, NEW S, S \subseteq 1..n, NEW m \in S, \A j \in S : m >= j
    PROVE  LastOf(S) = m
  <1>1. LastOf(S) \in S /\ LastOf(S) >= m
    BY LastOfLines
  <1>2. m >= LastOf(S)
    BY <1>1
  <1>3. m \in 1..n /\ LastOf(S) \in 1..n
    BY <1>1
  <1> QED BY <1>1, <1>2, <1>3

LEMMA OnlyFirst ==
    ASSUME NEW n \in Nat, NEW S, S \subseteq 1..n, NEW m \in S, \A j \in S : m <= j
    PROVE  FirstOf(S) = m
  <1>1. FirstOf(S) \in S /\ FirstOf(S) <= m
    BY FirstOfLines
  <1>2. m <= FirstOf(S)
    BY <1>1
  <1>3. m \in 1..n /\ FirstOf(S) \in 1..n
    BY <1>1
  <1> QED BY <1>1, <1>2, <1>3

-----------------------------------------------------------------------------
(* The lossless checkpoint *)

LEMMA CompactedLines ==
    ASSUME NEW lines \in Seq(Line)
    PROVE  /\ Compacted(lines) \in Seq(Line)
           /\ Len(Compacted(lines)) = Len(lines)
           /\ \A i \in 1..Len(lines) :
                 /\ Compacted(lines)[i].id = lines[i].id
                 /\ Compacted(lines)[i].keys =
                       {k \in lines[i].keys : i \in {FirstOf(Carrying(lines, k)), LastOf(Carrying(lines, k))}}
  <1> DEFINE c == Compacted(lines)
  <1>1. Len(lines) \in Nat /\ DOMAIN lines = 1..Len(lines) /\ \A i \in 1..Len(lines) : lines[i] \in Line
    BY LenProperties
  <1>2. \A i \in 1..Len(lines) :
           /\ c[i] \in Line /\ c[i].id = lines[i].id
           /\ c[i].keys = {k \in lines[i].keys : i \in {FirstOf(Carrying(lines, k)), LastOf(Carrying(lines, k))}}
    BY <1>1 DEF Compacted, Line
  <1>3. c \in [1..Len(lines) -> Line]
    BY <1>1, <1>2 DEF Compacted
  <1>4. c \in Seq(Line)
    BY <1>1, <1>3, SeqDef
  <1>5. 1..Len(c) = 1..Len(lines) /\ Len(c) \in Nat
    BY <1>3, <1>4, LenProperties
  <1>6. Len(c) = Len(lines)
    BY <1>1, <1>5
  <1> HIDE DEF c
  <1> QED BY <1>2, <1>4, <1>6 DEF c

LEMMA CarryingLines ==
    ASSUME NEW lines \in Seq(Line), NEW k
    PROVE  Carrying(lines, k) \subseteq 1..Len(lines) /\ Len(lines) \in Nat
  BY LenProperties DEF Carrying

\* The lines that keep a key are the first and the last that carried it.
LEMMA CompactedCarrying ==
    ASSUME NEW lines \in Seq(Line), NEW k, Carrying(lines, k) # {}
    PROVE  Carrying(Compacted(lines), k) = {FirstOf(Carrying(lines, k)), LastOf(Carrying(lines, k))}
  <1> DEFINE S == Carrying(lines, k)
  <1>1. S \subseteq 1..Len(lines) /\ Len(lines) \in Nat
    BY CarryingLines
  <1>2. FirstOf(S) \in S /\ LastOf(S) \in S
    BY <1>1, FirstOfLines, LastOfLines
  <1>3. DOMAIN lines = 1..Len(lines) /\ DOMAIN Compacted(lines) = 1..Len(lines)
    BY CompactedLines, LenProperties
  <1>4. \A i \in 1..Len(lines) :
           k \in Compacted(lines)[i].keys <=>
              k \in lines[i].keys /\ i \in {FirstOf(S), LastOf(S)}
    BY CompactedLines
  <1>5. \A i : i \in S <=> i \in 1..Len(lines) /\ k \in lines[i].keys
    BY <1>3 DEF Carrying
  <1>6. \A i : i \in Carrying(Compacted(lines), k) <=>
                  i \in 1..Len(lines) /\ k \in Compacted(lines)[i].keys
    BY <1>3 DEF Carrying
  <1> HIDE DEF S
  <1>7. Carrying(Compacted(lines), k) = {FirstOf(S), LastOf(S)}
    BY <1>1, <1>2, <1>4, <1>5, <1>6
  <1> QED BY <1>7 DEF S

\* checkpoint: what is replayed, the order in which it is listed and the
\* transactions are those of the journal it replaces.
LEMMA CompactedReplays ==
    ASSUME NEW lines \in Seq(Line)
    PROVE  /\ Replayed(Compacted(lines)) = Replayed(lines)
           /\ Listed(Compacted(lines)) = Listed(lines)
           /\ {line.id : line \in ToSet(Compacted(lines))} = {line.id : line \in ToSet(lines)}
  <1> DEFINE c == Compacted(lines)
  <1>1. Len(lines) \in Nat /\ DOMAIN lines = 1..Len(lines) /\ DOMAIN c = 1..Len(lines)
    BY CompactedLines, LenProperties
  <1>2. \A i \in 1..Len(lines) : c[i].id = lines[i].id
    BY CompactedLines
  <1>3. ASSUME NEW k \in Keys, Carrying(lines, k) = {}
        PROVE  Carrying(c, k) = {}
    <2>1. \A i \in 1..Len(lines) : c[i].keys \subseteq lines[i].keys
      BY CompactedLines
    <2> HIDE DEF c
    <2> QED BY <1>1, <1>3, <2>1 DEF Carrying
  <1>4. ASSUME NEW k \in Keys, Carrying(lines, k) # {}
        PROVE  /\ Carrying(c, k) # {}
               /\ LastOf(Carrying(c, k)) = LastOf(Carrying(lines, k))
               /\ FirstOf(Carrying(c, k)) = FirstOf(Carrying(lines, k))
               /\ LastOf(Carrying(lines, k)) \in 1..Len(lines)
               /\ FirstOf(Carrying(lines, k)) \in 1..Len(lines)
    <2> DEFINE S == Carrying(lines, k)
    <2>1. Carrying(c, k) = {FirstOf(S), LastOf(S)}
      BY <1>4, CompactedCarrying
    <2>2. S \subseteq 1..Len(lines)
      BY CarryingLines
    <2>3. /\ FirstOf(S) \in S /\ \A j \in S : FirstOf(S) <= j
          /\ LastOf(S) \in S /\ \A j \in S : LastOf(S) >= j
      BY <1>1, <1>4, <2>2, FirstOfLines, LastOfLines
    <2> HIDE DEF S, c
    <2>4. {FirstOf(S), LastOf(S)} \subseteq 1..Len(lines)
      BY <2>2, <2>3
    <2>5. LastOf({FirstOf(S), LastOf(S)}) = LastOf(S)
      BY <1>1, <2>2, <2>3, <2>4, OnlyLast
    <2>6. FirstOf({FirstOf(S), LastOf(S)}) = FirstOf(S)
      BY <1>1, <2>2, <2>3, <2>4, OnlyFirst
    <2> QED BY <2>1, <2>4, <2>5, <2>6 DEF S
  <1> HIDE DEF c
  <1>5. Replayed(c) = Replayed(lines)
    BY <1>2, <1>3, <1>4 DEF Replayed
  <1>6. Listed(c) = Listed(lines)
    BY <1>2, <1>3, <1>4 DEF Listed
  <1>7. {line.id : line \in ToSet(c)} = {line.id : line \in ToSet(lines)}
    BY <1>1, <1>2 DEF ToSet
  <1> QED BY <1>5, <1>6, <1>7 DEF c

-----------------------------------------------------------------------------
(* What is kept stays kept *)

LEMMA KeptStays ==
    ASSUME NEW f, NEW g, NEW w, NEW v, NEW n \in Nat, NEW m \in Nat, n <= m, NEW id,
           v[id] = w[id], \A i \in 1..n : g[i] = f[i], Kept(f, w, n, id)
    PROVE  Kept(g, v, m, id)
  <1>1. CASE \E i \in 1..n : f[i] = Malformed
    BY <1>1 DEF Kept
  <1>2. CASE ~\E i \in 1..n : f[i] = Malformed
    <2>1. PICK i \in 1..n : f[i].id = id /\ \A k \in w[id] : \E j \in i..n : k \in f[j].keys
      BY <1>2 DEF Kept
    <2>2. ASSUME NEW k \in v[id] PROVE \E j \in i..m : k \in g[j].keys
      <3>1. PICK j \in i..n : k \in f[j].keys
        BY <2>1, <2>2
      <3>2. j \in 1..n /\ j \in i..m
        OBVIOUS
      <3> QED BY <3>1, <3>2
    <2>3. i \in 1..m /\ g[i].id = id
      BY <2>1
    <2> QED BY <2>2, <2>3 DEF Kept
  <1> QED BY <1>1, <1>2

\* A checkpoint keeps a transaction, and for every key a line at least as late.
LEMMA CompactedKeeps ==
    ASSUME NEW lines \in Seq(Line), Readable(lines), NEW n \in 0..Len(lines), NEW w, NEW id,
           Kept(lines, w, n, id)
    PROVE  Kept(Compacted(lines), w, Len(lines), id)
  <1>1. Len(lines) \in Nat /\ DOMAIN lines = 1..Len(lines)
    BY LenProperties
  <1>2. PICK i \in 1..n : lines[i].id = id /\ \A k \in w[id] : \E j \in i..n : k \in lines[j].keys
    BY <1>1 DEF Kept, Readable
  <1>3. ASSUME NEW k \in w[id]
        PROVE  \E j \in i..Len(lines) : k \in Compacted(lines)[j].keys
    <2>1. PICK j \in i..n : k \in lines[j].keys
      BY <1>2, <1>3
    <2>2. j \in Carrying(lines, k)
      BY <1>1, <2>1 DEF Carrying
    <2> DEFINE l == LastOf(Carrying(lines, k))
    <2>3. l \in Carrying(lines, k) /\ l >= j
      BY <1>1, <2>2, CarryingLines, LastOfLines
    <2>4. l \in 1..Len(lines) /\ k \in lines[l].keys
      BY <1>1, <2>3 DEF Carrying
    <2>5. k \in Compacted(lines)[l].keys
      BY <2>4, CompactedLines
    <2>6. l \in i..Len(lines)
      BY <1>1, <2>3, <2>4
    <2> QED BY <2>5, <2>6
  <1>4. i \in 1..Len(lines) /\ Compacted(lines)[i].id = id
    BY <1>1, <1>2, CompactedLines
  <1> QED BY <1>3, <1>4 DEF Kept

-----------------------------------------------------------------------------
(* One process at a time *)

LEMMA OpKinds ==
    ASSUME NEW o \in Ops
    PROVE  /\ o.at \in {"write", "sync"} => o \in Appends
           /\ o.at = "checkpoint" => o \in Appends \cup Rests
           /\ o.at = "installed" => o \in Rests
           /\ o.at \in {"link", "install"} => o \in Copies
           /\ o.at \notin {"down", "ready"} => o \in Appends \cup Rests \cup Copies
           /\ o.at \in {"down", "ready", "write", "sync", "checkpoint", "link", "install", "installed"}
  BY DEF Ops, Down, Ready, Appends, Rests, Copies

LEMMA OpIds ==
    ASSUME NEW o \in Appends \cup Rests \cup Copies
    PROVE  o.id \in 0..MaxTxn
  BY JournalConstants DEF Appends, Rests, Copies

\* Every other process rests, and goes on resting.
Alone(p) == \A q \in Procs \ {p} : ~Active(q) /\ op'[q] = op[q]

LEMMA ActsAlone ==
    ASSUME Inv, NEW p \in Procs, NEW o, op' = [op EXCEPT ![p] = o], Active(p) \/ lock = Free
    PROVE  Alone(p) /\ op'[p] = o
  <1>1. op \in [Procs -> Ops]
    BY DEF Inv, Typed
  <1>2. ASSUME NEW q \in Procs, q # p PROVE ~Active(q)
    BY <1>2, JournalConstants DEF Inv, Exclusive, HoldsLock
  <1> QED BY <1>1, <1>2 DEF Alone

\* A process that rests holds nothing.
LEMMA OthersRest ==
    ASSUME NEW p \in Procs, Alone(p), HoldsLock(p)', Stored(p)'
    PROVE  Exclusive' /\ \A q \in Procs : Stored(q)'
  BY DEF Alone, Exclusive, HoldsLock, Stored, Active

LEMMA RestingHolds ==
    ASSUME NEW p \in Procs, op'[p] \in {Down, Ready}
    PROVE  HoldsLock(p)' /\ Stored(p)'
  BY DEF HoldsLock, Stored, Active, Down, Ready

\* The prefix that is on the disk does not change.
LEMMA AckedStay ==
    ASSUME Inv, acked' = acked, synced' \in Nat, synced <= synced', \A id \in acked : wrote'[id] = wrote[id],
           \A i \in 1..synced : file'[i] = file[i]
    PROVE  \A id \in acked' : Kept(file', wrote', synced', id)
  <1>1. synced \in Nat
    BY LenProperties DEF Inv, Typed, TypeOK
  <1> QED BY <1>1, KeptStays DEF Inv, Durable

-----------------------------------------------------------------------------
(* The steps of an append *)

LEMMA InitInv == Init => Inv
  <1> SUFFICES ASSUME Init PROVE Inv
    OBVIOUS
  <1>1. TypeOK
    <2>1. /\ file \in Seq(Line) /\ Len(file) = 0 /\ wrote \in Seq(SUBSET Keys)
          /\ author \in Seq(Procs)
      BY EmptySeq DEF Init
    <2>2. memory \in [Procs -> [Keys -> 0..MaxTxn]]
      BY JournalConstants DEF Init
    <2>3. faults \in 0..MaxFaults
      BY JournalConstants DEF Init
    <2>4. synced \in 0..Len(file)
      BY <2>1 DEF Init
    <2>5. lock \in Procs \cup {Free} /\ archived \subseteq Line
      BY DEF Init
    <2>6. acked \cup failed \subseteq DOMAIN wrote
      BY DEF Init
    <2>7. torn \in BOOLEAN /\ inode \in Nat /\ acked \cap failed = {}
      BY DEF Init
    <2> QED BY <2>1, <2>2, <2>3, <2>4, <2>5, <2>6, <2>7 DEF TypeOK
  <1>2. Typed
    BY <1>1, JournalConstants, EmptySeq DEF Init, Typed, Ops
  <1>3. Exclusive /\ \A p \in Procs : Stored(p)
    BY DEF Init, Exclusive, HoldsLock, Stored, Active, Down
  <1>4. Durable
    BY <1>3 DEF Init, Durable
  <1> QED BY <1>2, <1>3, <1>4 DEF Inv

LEMMA BeginKeeps ==
    ASSUME Inv, NEW p \in Procs, NEW keys \in SUBSET Keys, Begin(p, keys)
    PROVE  Inv'
  <1> DEFINE id == Len(wrote) + 1
             o == [at |-> "write", id |-> id, inode |-> inode]
  <1>1. /\ wrote \in Seq(SUBSET Keys) /\ author \in Seq(Procs) /\ Len(wrote) \in Nat
        /\ DOMAIN wrote = 1..Len(wrote) /\ inode \in Nat /\ synced \in Nat
    BY LenProperties DEF Inv, Typed, TypeOK
  <1>2. /\ wrote' = Append(wrote, keys) /\ author' = Append(author, p)
        /\ op' = [op EXCEPT ![p] = o] /\ id \in 1..MaxTxn
        /\ lock = Free /\ lock' = p
        /\ UNCHANGED <<disk, memory, acked, failed, faults>>
    BY <1>1, JournalConstants DEF Begin, Acquired
  <1>3. /\ wrote' \in Seq(SUBSET Keys) /\ Len(wrote') = id /\ wrote'[id] = keys
        /\ \A i \in DOMAIN wrote : wrote'[i] = wrote[i]
        /\ DOMAIN wrote' = 1..id
    BY <1>1, <1>2, AppendProperties, LenProperties
  <1>4. author' \in Seq(Procs) /\ Len(author') = Len(wrote')
    BY <1>1, <1>2, <1>3, AppendProperties DEF Inv, Typed
  <1>5. Alone(p) /\ op'[p] = o
    BY <1>2, ActsAlone
  <1>6. DOMAIN wrote \subseteq DOMAIN wrote' /\ id \notin DOMAIN wrote
    BY <1>1, <1>3
  <1>7. o \in Appends
    BY <1>1, <1>2 DEF Appends
  <1>8. Typed'
    <2>1. acked' \cup failed' \subseteq DOMAIN wrote'
      BY <1>2, <1>6 DEF Inv, Typed, TypeOK
    <2>2. op' \in [Procs -> Ops]
      BY <1>2, <1>7 DEF Inv, Typed, Ops
    <2>3. Len(wrote') <= MaxTxn
      BY <1>2, <1>3
    <2> QED BY <1>2, <1>3, <1>4, <2>1, <2>2, <2>3 DEF Inv, Typed, TypeOK, disk
  <1>9. HoldsLock(p)' /\ Stored(p)'
    <2>1. id \in DOMAIN wrote' \ (acked' \cup failed')
      BY <1>1, <1>2, <1>3, <1>6 DEF Inv, Typed, TypeOK
    <2> QED BY <1>2, <1>5, <2>1 DEF HoldsLock, Stored, disk
  <1>10. \A a \in acked : wrote'[a] = wrote[a]
    BY <1>3 DEF Inv, Typed, TypeOK
  <1>11. \A a \in acked' : Kept(file', wrote', synced', a)
    <2>1. acked' = acked /\ synced' = synced /\ file' = file
      BY <1>2 DEF disk
    <2>2. synced' \in Nat /\ synced <= synced' /\ \A i \in 1..synced : file'[i] = file[i]
      BY <1>1, <2>1
    <2> QED BY <1>10, <2>1, <2>2, AckedStay
  <1> QED BY <1>5, <1>8, <1>9, <1>11, OthersRest DEF Inv, Durable

\* The new line, or the fragment it was glued to, ends the file.
LEMMA WriteKeeps ==
    ASSUME Inv, NEW p \in Procs, Write(p)
    PROVE  Inv'
  <1> DEFINE line == [id |-> op[p].id, keys |-> wrote[op[p].id]]
             added == IF torn THEN Malformed ELSE line
             o == [op[p] EXCEPT !.at = "sync"]
  <1>1. op[p] \in Appends /\ op[p].at = "write"
    BY OpKinds DEF Write, Inv, Typed
  <1>2. Active(p) /\ op[p].id # 0
    BY <1>1 DEF Active, Appends
  <1>3. op[p].inode = inode /\ op[p].id \in DOMAIN wrote \ (acked \cup failed) /\ lock = p
    BY <1>1, <1>2 DEF Inv, Exclusive, HoldsLock
  <1>4. /\ file' = Append(file, added) /\ torn' = FALSE /\ op' = [op EXCEPT ![p] = o]
        /\ UNCHANGED <<archived, synced, inode, lock, memory, histories, faults>>
    BY <1>3 DEF Write
  <1>5. /\ file \in Seq(Line) /\ Len(file) \in Nat /\ wrote \in Seq(SUBSET Keys)
        /\ synced \in 0..Len(file)
    BY LenProperties DEF Inv, Typed, TypeOK
  <1>6. added \in Line
    <2>1. wrote[op[p].id] \in SUBSET Keys
      BY <1>3, <1>5, LenProperties, ElementOfSeq
    <2>2. Malformed \in Line
      BY JournalConstants DEF Malformed, Line
    <2> QED BY <1>1, <2>1, <2>2 DEF Line, Appends
  <1> HIDE DEF added
  <1>7. /\ file' \in Seq(Line) /\ Len(file') = Len(file) + 1 /\ file'[Len(file) + 1] = added
        /\ \A i \in 1..Len(file) : file'[i] = file[i]
    BY <1>4, <1>5, <1>6, AppendProperties
  <1>8. Alone(p) /\ op'[p] = o
    BY <1>2, <1>4, ActsAlone
  <1>9. o \in Appends /\ o.at = "sync" /\ o.id = op[p].id /\ o.inode = op[p].inode
    BY <1>1 DEF Appends
  <1> HIDE DEF o
  <1>10. Typed'
    <2>1. op' \in [Procs -> Ops]
      BY <1>4, <1>9 DEF Inv, Typed, Ops
    <2>2. synced' \in 0..Len(file')
      BY <1>4, <1>5, <1>7
    <2> QED BY <1>4, <1>7, <2>1, <2>2 DEF Inv, Typed, TypeOK, histories
  <1>11. Kept(file', wrote', Len(file'), op[p].id)
    <2>1. CASE torn
      BY <1>5, <1>7, <2>1 DEF Kept, added
    <2>2. CASE ~torn
      <3>1. file'[Len(file')] = line
        BY <1>7, <2>2 DEF added
      <3>2. Len(file') \in 1..Len(file') /\ Len(file') \in Len(file')..Len(file')
        BY <1>5, <1>7
      <3>3. wrote' = wrote
        BY <1>4 DEF histories
      <3> QED BY <3>1, <3>2, <3>3 DEF Kept
    <2> QED BY <2>1, <2>2
  <1>12. HoldsLock(p)' /\ Stored(p)'
    BY <1>2, <1>3, <1>4, <1>8, <1>9, <1>11 DEF HoldsLock, Stored, histories
  <1>13. \A a \in acked' : Kept(file', wrote', synced', a)
    <2>1. synced' \in Nat /\ synced <= synced' /\ \A i \in 1..synced : file'[i] = file[i]
      BY <1>4, <1>5, <1>7
    <2>2. acked' = acked /\ \A a \in acked : wrote'[a] = wrote[a]
      BY <1>4 DEF histories
    <2> QED BY <2>1, <2>2, AckedStay
  <1> QED BY <1>8, <1>10, <1>12, <1>13, OthersRest DEF Inv, Durable

LEMMA SyncKeeps ==
    ASSUME Inv, NEW p \in Procs, Sync(p)
    PROVE  Inv'
  <1> DEFINE o == [op[p] EXCEPT !.at = "checkpoint"]
  <1>1. op[p] \in Appends /\ op[p].at = "sync"
    BY OpKinds DEF Sync, Inv, Typed
  <1>2. Active(p) /\ op[p].id # 0
    BY <1>1 DEF Active, Appends
  <1>3. op[p].inode = inode /\ op[p].id \in DOMAIN wrote \ (acked \cup failed) /\ lock = p
    BY <1>1, <1>2 DEF Inv, Exclusive, HoldsLock
  <1>4. /\ synced' = Len(file) /\ op' = [op EXCEPT ![p] = o]
        /\ UNCHANGED <<file, torn, inode, archived, lock, memory, histories, faults>>
    BY <1>3 DEF Sync
  <1>5. Len(file) \in Nat /\ synced \in 0..Len(file)
    BY LenProperties DEF Inv, Typed, TypeOK
  <1>6. Alone(p) /\ op'[p] = o
    BY <1>2, <1>4, ActsAlone
  <1>7. o \in Appends /\ o.at = "checkpoint" /\ o.id = op[p].id
    BY <1>1 DEF Appends
  <1> HIDE DEF o
  <1>8. Typed'
    <2>1. op' \in [Procs -> Ops]
      BY <1>4, <1>7 DEF Inv, Typed, Ops
    <2>2. synced' \in 0..Len(file')
      BY <1>4, <1>5
    <2> QED BY <1>4, <2>1, <2>2 DEF Inv, Typed, TypeOK, histories
  <1>9. Kept(file', wrote', synced', op[p].id)
    BY <1>1, <1>4 DEF Inv, Durable, Stored, histories
  <1>10. HoldsLock(p)' /\ Stored(p)'
    BY <1>2, <1>3, <1>4, <1>6, <1>7, <1>9 DEF HoldsLock, Stored, histories
  <1>11. \A a \in acked' : Kept(file', wrote', synced', a)
    <2>1. synced' \in Nat /\ synced <= synced'
      BY <1>4, <1>5
    <2> QED BY <1>4, <2>1, AckedStay DEF histories
  <1> QED BY <1>6, <1>8, <1>10, <1>11, OthersRest DEF Inv, Durable

\* The caller is told, and the transaction will not be acknowledged.
LEMMA AppendFailsKeeps ==
    ASSUME Inv, NEW p \in Procs, AppendFails(p)
    PROVE  Inv'
  <1>1. op[p] \in Appends
    BY OpKinds DEF AppendFails, Inv, Typed
  <1>2. Active(p) /\ op[p].id # 0
    BY <1>1 DEF Active, Appends
  <1>3. op[p].id \in DOMAIN wrote \ (acked \cup failed)
    BY <1>2 DEF Inv, Exclusive, HoldsLock
  <1>4. /\ op' = [op EXCEPT ![p] = Ready] /\ lock' = Free /\ torn' \in {torn, TRUE}
        /\ failed' = failed \cup {op[p].id} /\ faults < MaxFaults /\ faults' = faults + 1
        /\ UNCHANGED <<file, synced, inode, archived, memory, wrote, author, acked>>
    BY DEF AppendFails
  <1>5. Alone(p) /\ op'[p] = Ready
    BY <1>2, <1>4, ActsAlone
  <1>6. Typed'
    <2>1. op' \in [Procs -> Ops]
      BY <1>4 DEF Inv, Typed, Ops
    <2>2. acked' \cup failed' \subseteq DOMAIN wrote' /\ acked' \cap failed' = {}
      BY <1>3, <1>4 DEF Inv, Typed, TypeOK
    <2>3. faults' \in 0..MaxFaults
      BY <1>4, JournalConstants DEF Inv, Typed, TypeOK
    <2>4. torn' \in BOOLEAN /\ lock' \in Procs \cup {Free}
      BY <1>4 DEF Inv, Typed, TypeOK
    <2> QED BY <1>4, <2>1, <2>2, <2>3, <2>4 DEF Inv, Typed, TypeOK
  <1>7. HoldsLock(p)' /\ Stored(p)'
    BY <1>5, RestingHolds
  <1>8. \A a \in acked' : Kept(file', wrote', synced', a)
    BY <1>4 DEF Inv, Durable
  <1> QED BY <1>5, <1>6, <1>7, <1>8, OthersRest DEF Inv, Durable

\* What is acknowledged has been synced.
LEMMA DoneKeeps ==
    ASSUME Inv, NEW p \in Procs, Done(p)
    PROVE  Inv'
  <1>1. op[p] \in Appends \cup Rests /\ op[p].at \in {"checkpoint", "installed"}
    BY OpKinds DEF Done, Inv, Typed
  <1>2. Active(p) /\ op[p].id \in 0..MaxTxn
    BY <1>1, OpIds DEF Active
  <1>3. op[p].id # 0 => op[p].id \in DOMAIN wrote \ (acked \cup failed)
    BY <1>2 DEF Inv, Exclusive, HoldsLock
  <1>4. /\ op' = [op EXCEPT ![p] = Ready] /\ lock' = Free
        /\ UNCHANGED <<disk, wrote, author, failed, faults>>
    BY DEF Done
  <1>5. Alone(p) /\ op'[p] = Ready
    BY <1>2, <1>4, ActsAlone
  <1>6. memory' \in [Procs -> [Keys -> 0..MaxTxn]]
    <2> DEFINE m == [k \in Keys |-> IF k \in wrote[op[p].id] THEN op[p].id ELSE memory[p][k]]
    <2>1. memory \in [Procs -> [Keys -> 0..MaxTxn]]
      BY DEF Inv, Typed, TypeOK
    <2>2. m \in [Keys -> 0..MaxTxn]
      BY <1>2, <2>1
    <2>3. memory' = memory \/ memory' = [memory EXCEPT ![p] = m]
      BY DEF Done
    <2> HIDE DEF m
    <2> QED BY <2>1, <2>2, <2>3
  <1>7. acked' = IF op[p].id = 0 THEN acked ELSE acked \cup {op[p].id}
    BY DEF Done
  <1>8. Typed'
    <2>1. op' \in [Procs -> Ops]
      BY <1>4 DEF Inv, Typed, Ops
    <2>2. acked' \cup failed' \subseteq DOMAIN wrote' /\ acked' \cap failed' = {}
      BY <1>3, <1>4, <1>7 DEF Inv, Typed, TypeOK
    <2> QED BY <1>4, <1>6, <2>1, <2>2 DEF Inv, Typed, TypeOK, disk
  <1>9. HoldsLock(p)' /\ Stored(p)'
    BY <1>5, RestingHolds
  <1>10. \A a \in acked' : Kept(file', wrote', synced', a)
    <2>1. op[p].id # 0 => Kept(file, wrote, synced, op[p].id)
      BY <1>1 DEF Inv, Durable, Stored
    <2> QED BY <1>4, <1>7, <2>1 DEF Inv, Durable, disk
  <1> QED BY <1>5, <1>8, <1>9, <1>10, OthersRest DEF Inv, Durable

-----------------------------------------------------------------------------
(* The steps of a checkpoint *)

LEMMA PrepareKeeps ==
    ASSUME Inv, NEW p \in Procs, Prepare(p)
    PROVE  Inv'
  <1> DEFINE o == [at |-> "link", id |-> op[p].id, copy |-> file]
  <1>1. op[p] \in Appends \cup Rests /\ op[p].at = "checkpoint"
    BY OpKinds DEF Prepare, Inv, Typed
  <1>2. Active(p) /\ op[p].id \in 0..MaxTxn
    BY <1>1, OpIds DEF Active
  <1>3. /\ lock = p
        /\ op[p].id # 0 => op[p].id \in DOMAIN wrote \ (acked \cup failed)
    BY <1>2 DEF Inv, Exclusive, HoldsLock
  <1>4. /\ op' = [op EXCEPT ![p] = o] /\ Readable(file)
        /\ UNCHANGED <<disk, lock, memory, histories, faults>>
    BY DEF Prepare
  <1>5. Alone(p) /\ op'[p] = o
    BY <1>2, <1>4, ActsAlone
  <1>6. o \in Copies /\ o.at = "link" /\ o.id = op[p].id /\ o.copy = file
    BY <1>2 DEF Copies, Inv, Typed, TypeOK
  <1> HIDE DEF o
  <1>7. Typed'
    <2>1. op' \in [Procs -> Ops]
      BY <1>4, <1>6 DEF Inv, Typed, Ops
    <2> QED BY <1>4, <2>1 DEF Inv, Typed, TypeOK, disk, histories
  <1>8. HoldsLock(p)'
    BY <1>3, <1>4, <1>5, <1>6 DEF HoldsLock, Readable, disk, histories
  <1>9. Stored(p)'
    BY <1>1, <1>4, <1>5, <1>6 DEF Inv, Durable, Stored, disk, histories
  <1>10. \A a \in acked' : Kept(file', wrote', synced', a)
    BY <1>4 DEF Inv, Durable, disk, histories
  <1> QED BY <1>5, <1>7, <1>8, <1>9, <1>10, OthersRest DEF Inv, Durable

LEMMA LinkKeeps ==
    ASSUME Inv, NEW p \in Procs, Link(p)
    PROVE  Inv'
  <1> DEFINE o == [op[p] EXCEPT !.at = "install"]
  <1>1. op[p] \in Copies /\ op[p].at = "link"
    BY OpKinds DEF Link, Inv, Typed
  <1>2. Active(p)
    BY <1>1 DEF Active
  <1>3. /\ lock = p /\ op[p].copy = file /\ Readable(file)
        /\ op[p].id # 0 => op[p].id \in DOMAIN wrote \ (acked \cup failed)
    BY <1>1, <1>2 DEF Inv, Exclusive, HoldsLock
  <1>4. /\ op' = [op EXCEPT ![p] = o] /\ archived' = archived \cup ToSet(file)
        /\ UNCHANGED <<file, torn, synced, inode, lock, memory, histories, faults>>
    BY <1>3 DEF Link, Linked
  <1>5. Alone(p) /\ op'[p] = o
    BY <1>2, <1>4, ActsAlone
  <1>6. o \in Copies /\ o.at = "install" /\ o.id = op[p].id /\ o.copy = op[p].copy
    BY <1>1 DEF Copies
  <1> HIDE DEF o
  <1>7. Typed'
    <2>1. op' \in [Procs -> Ops]
      BY <1>4, <1>6 DEF Inv, Typed, Ops
    <2>2. ToSet(file) \subseteq Line
      BY LenProperties, ElementOfSeq DEF Inv, Typed, TypeOK, ToSet
    <2> QED BY <1>4, <2>1, <2>2 DEF Inv, Typed, TypeOK, histories
  <1>8. HoldsLock(p)'
    BY <1>3, <1>4, <1>5, <1>6 DEF HoldsLock, Readable, histories
  <1>9. Stored(p)'
    BY <1>1, <1>4, <1>5, <1>6 DEF Inv, Durable, Stored, histories
  <1>10. \A a \in acked' : Kept(file', wrote', synced', a)
    BY <1>4 DEF Inv, Durable, histories
  <1> QED BY <1>5, <1>7, <1>8, <1>9, <1>10, OthersRest DEF Inv, Durable

\* The compacted copy replaces the journal it was made from, and is synced whole.
LEMMA InstallKeeps ==
    ASSUME Inv, NEW p \in Procs, Install(p)
    PROVE  /\ Inv'
           /\ file' = Compacted(file)
  <1> DEFINE o == [at |-> "installed", id |-> op[p].id]
  <1>1. op[p] \in Copies /\ op[p].at = "install"
    BY OpKinds DEF Install, Inv, Typed
  <1>2. Active(p) /\ op[p].id \in 0..MaxTxn
    BY <1>1, OpIds DEF Active
  <1>3. /\ lock = p /\ op[p].copy = file /\ Readable(file)
        /\ op[p].id # 0 => op[p].id \in DOMAIN wrote \ (acked \cup failed)
    BY <1>1, <1>2 DEF Inv, Exclusive, HoldsLock
  <1>4. /\ op' = [op EXCEPT ![p] = o]
        /\ file' = Compacted(file) /\ torn' = FALSE /\ synced' = Len(file') /\ inode' = inode + 1
        /\ UNCHANGED <<archived, lock, memory, histories, faults>>
    BY <1>3 DEF Install
  <1>5. Alone(p) /\ op'[p] = o
    BY <1>2, <1>4, ActsAlone
  <1>6. o \in Rests /\ o.at = "installed" /\ o.id = op[p].id
    BY <1>2 DEF Rests
  <1> HIDE DEF o
  <1>7. file \in Seq(Line) /\ synced \in 0..Len(file) /\ inode \in Nat
    BY DEF Inv, Typed, TypeOK
  <1>8. /\ file' \in Seq(Line) /\ Len(file') = Len(file) /\ Len(file) \in Nat
        /\ synced' = Len(file)
    BY <1>4, <1>7, CompactedLines, LenProperties
  <1>9. Typed'
    <2>1. op' \in [Procs -> Ops]
      BY <1>4, <1>6 DEF Inv, Typed, Ops
    <2>2. synced' \in 0..Len(file') /\ inode' \in Nat
      BY <1>4, <1>7, <1>8
    <2> QED BY <1>4, <1>8, <2>1, <2>2 DEF Inv, Typed, TypeOK, histories
  <1>10. HoldsLock(p)'
    BY <1>3, <1>4, <1>5, <1>6 DEF HoldsLock, histories
  <1>11. ASSUME NEW a, Kept(file, wrote, synced, a)
         PROVE  Kept(file', wrote', synced', a)
    BY <1>3, <1>4, <1>7, <1>8, <1>11, CompactedKeeps DEF histories
  <1>12. Stored(p)'
    BY <1>1, <1>5, <1>6, <1>11 DEF Inv, Durable, Stored
  <1>13. \A a \in acked' : Kept(file', wrote', synced', a)
    BY <1>4, <1>11 DEF Inv, Durable, histories
  <1> QED BY <1>4, <1>5, <1>9, <1>10, <1>12, <1>13, OthersRest DEF Inv, Durable

-----------------------------------------------------------------------------
(* Crashes and restarts *)

\* The lock goes with the process that held it, and only with that one.
LEMMA CrashKeeps ==
    ASSUME Inv, NEW p \in Procs, Crash(p)
    PROVE  Inv'
  <1>1. /\ op' = [op EXCEPT ![p] = Down] /\ torn' \in {torn, TRUE}
        /\ faults < MaxFaults /\ faults' = faults + 1
        /\ memory' = [memory EXCEPT ![p] = [k \in Keys |-> 0]]
        /\ lock' = IF lock = p THEN Free ELSE lock
        /\ UNCHANGED <<file, synced, inode, archived, histories>>
    BY DEF Crash
  <1>2. op'[p] = Down /\ \A q \in Procs \ {p} : op'[q] = op[q]
    BY <1>1 DEF Inv, Typed
  <1>3. Typed'
    <2>1. op' \in [Procs -> Ops]
      BY <1>1 DEF Inv, Typed, Ops
    <2>2. memory' \in [Procs -> [Keys -> 0..MaxTxn]]
      <3>1. [k \in Keys |-> 0] \in [Keys -> 0..MaxTxn]
        BY JournalConstants
      <3> QED BY <1>1, <3>1 DEF Inv, Typed, TypeOK
    <2>3. faults' \in 0..MaxFaults
      BY <1>1, JournalConstants DEF Inv, Typed, TypeOK
    <2>4. torn' \in BOOLEAN /\ lock' \in Procs \cup {Free}
      BY <1>1 DEF Inv, Typed, TypeOK
    <2> QED BY <1>1, <2>1, <2>2, <2>3, <2>4 DEF Inv, Typed, TypeOK, histories
  <1>4. HoldsLock(p)' /\ Stored(p)'
    BY <1>2, RestingHolds
  <1>5. ASSUME NEW q \in Procs \ {p} PROVE HoldsLock(q)' /\ Stored(q)'
    <2>1. op'[q] = op[q] /\ HoldsLock(q) /\ Stored(q)
      BY <1>2 DEF Inv, Exclusive, Durable
    <2>2. HoldsLock(q)'
      BY <1>1, <2>1 DEF HoldsLock, Active, Readable, histories
    <2>3. Stored(q)'
      BY <1>1, <2>1 DEF Stored, histories
    <2> QED BY <2>2, <2>3
  <1>6. \A a \in acked' : Kept(file', wrote', synced', a)
    BY <1>1 DEF Inv, Durable, histories
  <1> QED BY <1>3, <1>4, <1>5, <1>6 DEF Inv, Exclusive, Durable

\* What was synced is in every prefix that may survive.
LEMMA PowerLossKeeps ==
    ASSUME Inv, PowerLoss
    PROVE  Inv'
  <1>1. PICK n \in synced..Len(file) : file' = SubSeq(file, 1, n)
    BY DEF PowerLoss
  <1>2. /\ op' = [p \in Procs |-> Down] /\ lock' = Free /\ torn' \in BOOLEAN
        /\ memory' = [p \in Procs |-> [k \in Keys |-> 0]]
        /\ faults < MaxFaults /\ faults' = faults + 1
        /\ UNCHANGED <<synced, inode, archived, histories>>
    BY DEF PowerLoss, Inv, Typed, TypeOK
  <1>3. file \in Seq(Line) /\ Len(file) \in Nat /\ synced \in 0..Len(file) /\ n \in 0..Len(file)
    BY LenProperties DEF Inv, Typed, TypeOK
  <1>4. /\ file' \in Seq(Line) /\ Len(file') = n
        /\ \A i \in 1..n : file'[i] = file[i]
    <2>1. \A i \in 1..n : file[i] \in Line
      BY <1>3, ElementOfSeq
    <2>2. SubSeq(file, 1, n) \in Seq(Line)
      BY <1>3, <2>1, SubSeqProperties
    <2>3. Len(SubSeq(file, 1, n)) = IF 1 <= n THEN n - 1 + 1 ELSE 0
      BY <1>3, SubSeqProperties
    <2>4. \A i \in 1..(n - 1 + 1) : SubSeq(file, 1, n)[i] = file[1 + i - 1]
      BY <1>3, SubSeqProperties
    <2>5. \A i \in 1..n : SubSeq(file, 1, n)[i] = file[i]
      BY <1>3, <2>4
    <2> QED BY <1>1, <1>3, <2>2, <2>3, <2>5
  <1>5. \A p \in Procs : HoldsLock(p)' /\ Stored(p)'
    BY <1>2, RestingHolds
  <1>6. Typed'
    <2>1. op' \in [Procs -> Ops]
      BY <1>2 DEF Ops
    <2>2. memory' \in [Procs -> [Keys -> 0..MaxTxn]]
      BY <1>2, JournalConstants
    <2>3. faults' \in 0..MaxFaults
      BY <1>2, JournalConstants DEF Inv, Typed, TypeOK
    <2>4. synced' \in 0..Len(file')
      BY <1>2, <1>3, <1>4
    <2> QED BY <1>2, <1>4, <2>1, <2>2, <2>3, <2>4 DEF Inv, Typed, TypeOK, histories
  <1>7. \A a \in acked' : Kept(file', wrote', synced', a)
    <2>1. synced' \in Nat /\ synced <= synced' /\ \A i \in 1..synced : file'[i] = file[i]
      BY <1>2, <1>3, <1>4
    <2>2. acked' = acked /\ \A a \in acked : wrote'[a] = wrote[a]
      BY <1>2 DEF histories
    <2> QED BY <2>1, <2>2, AckedStay
  <1> QED BY <1>5, <1>6, <1>7 DEF Inv, Exclusive, Durable

LEMMA LoadKeeps ==
    ASSUME Inv, NEW p \in Procs, Load(p)
    PROVE  Inv'
  <1> DEFINE o == [at |-> "checkpoint", id |-> 0]
  <1>1. /\ lock = Free /\ lock' = p /\ memory' = [memory EXCEPT ![p] = Replayed(file)]
        /\ op' = [op EXCEPT ![p] = o]
        /\ UNCHANGED <<disk, histories, faults>>
    BY DEF Load, Acquired
  <1>2. Alone(p) /\ op'[p] = o
    BY <1>1, ActsAlone
  <1>3. Replayed(file) \in [Keys -> 0..MaxTxn]
    <2>1. file \in Seq(Line)
      BY DEF Inv, Typed, TypeOK
    <2>2. ASSUME NEW k \in Keys, Carrying(file, k) # {}
          PROVE  file[LastOf(Carrying(file, k))].id \in 0..MaxTxn
      <3>1. LastOf(Carrying(file, k)) \in 1..Len(file)
        BY <2>1, <2>2, CarryingLines, LastOfLines
      <3>2. file[LastOf(Carrying(file, k))] \in Line
        BY <2>1, <3>1, ElementOfSeq
      <3> QED BY <3>2 DEF Line
    <2> QED BY <2>2, JournalConstants DEF Replayed
  <1>4. o \in Rests
    BY JournalConstants DEF Rests
  <1>5. Typed'
    <2>1. op' \in [Procs -> Ops]
      BY <1>1, <1>4 DEF Inv, Typed, Ops
    <2>2. memory' \in [Procs -> [Keys -> 0..MaxTxn]]
      BY <1>1, <1>3 DEF Inv, Typed, TypeOK
    <2> QED BY <1>1, <2>1, <2>2 DEF Inv, Typed, TypeOK, disk, histories
  <1>6. HoldsLock(p)' /\ Stored(p)'
    BY <1>1, <1>2 DEF HoldsLock, Stored
  <1>7. \A a \in acked' : Kept(file', wrote', synced', a)
    BY <1>1 DEF Inv, Durable, disk, histories
  <1> QED BY <1>2, <1>5, <1>6, <1>7, OthersRest DEF Inv, Durable

LEMMA StutterKeeps ==
    ASSUME Inv, UNCHANGED vars
    PROVE  Inv'
  <1>1. Typed'
    BY DEF Inv, Typed, TypeOK, vars
  <1>2. Exclusive'
    BY DEF Inv, Exclusive, HoldsLock, Active, Readable, vars
  <1>3. Durable'
    BY DEF Inv, Durable, Stored, vars
  <1> QED BY <1>1, <1>2, <1>3 DEF Inv

-----------------------------------------------------------------------------
(* The theorems *)

LEMMA NextKeepsInv == Inv /\ [Next]_vars => Inv'
  <1> SUFFICES ASSUME Inv, [Next]_vars PROVE Inv'
    OBVIOUS
  <1>1. CASE PowerLoss
    BY <1>1, PowerLossKeeps
  <1>2. CASE UNCHANGED vars
    BY <1>2, StutterKeeps
  <1>3. ASSUME NEW p \in Procs, Step(p) PROVE Inv'
    <2>1. CASE \E keys \in (SUBSET Keys) \ {{}} : Begin(p, keys)
      BY <2>1, BeginKeeps
    <2>2. CASE Write(p)
      BY <2>2, WriteKeeps
    <2>3. CASE Sync(p)
      BY <2>3, SyncKeeps
    <2>4. CASE AppendFails(p)
      BY <2>4, AppendFailsKeeps
    <2>5. CASE Done(p)
      BY <2>5, DoneKeeps
    <2>6. CASE Prepare(p)
      BY <2>6, PrepareKeeps
    <2>7. CASE Link(p)
      BY <2>7, LinkKeeps
    <2>8. CASE Install(p)
      BY <2>8, InstallKeeps
    <2>9. CASE Crash(p)
      BY <2>9, CrashKeeps
    <2>10. CASE Load(p)
      BY <2>10, LoadKeeps
    <2> QED BY <1>3, <2>1, <2>2, <2>3, <2>4, <2>5, <2>6, <2>7, <2>8, <2>9, <2>10 DEF Step
  <1> QED BY <1>1, <1>2, <1>3 DEF Next

LEMMA SpecInv == Spec => []Inv
  <1> QED BY InitInv, NextKeepsInv, PTL DEF Spec

\* Every variable keeps its type.
THEOREM JournalTypeCorrect == Spec => []TypeOK
  <1>1. Inv => TypeOK
    BY DEF Inv, Typed
  <1> QED BY <1>1, SpecInv, PTL

\* append, load and checkpoint: while the journal can be read, every
\* acknowledged transaction is in it with a value at least as late for every
\* key, whatever processes crash, writes fail or power is lost.
THEOREM JournalAckedSurvives == Spec => []AckedSurvives
  <1>1. Inv => AckedSurvives
    <2> SUFFICES ASSUME Inv, Readable(file), NEW id \in acked
                 PROVE  \E i \in DOMAIN file :
                           /\ file[i].id = id
                           /\ \A k \in wrote[id] : \E j \in i..Len(file) : k \in file[j].keys
      BY DEF AckedSurvives
    <2>1. Len(file) \in Nat /\ DOMAIN file = 1..Len(file) /\ synced \in 0..Len(file)
      BY LenProperties DEF Inv, Typed, TypeOK
    <2>2. PICK i \in 1..synced :
             file[i].id = id /\ \A k \in wrote[id] : \E j \in i..synced : k \in file[j].keys
      BY <2>1 DEF Inv, Durable, Kept, Readable
    <2>3. i \in DOMAIN file /\ \A j \in i..synced : j \in i..Len(file)
      BY <2>1
    <2> QED BY <2>2, <2>3
  <1> QED BY <1>1, SpecInv, PTL

\* maybeCheckpoint: only the rename replaces the file, by the compacted form of
\* what it holds, and that replays the same transactions, values and order.
THEOREM JournalCheckpointLossless == Spec => CheckpointLossless
  <1> DEFINE Lossless ==
         inode' # inode =>
            /\ Replayed(file') = Replayed(file)
            /\ Listed(file') = Listed(file)
            /\ {line.id : line \in ToSet(file')} = {line.id : line \in ToSet(file)}
  <1>1. Inv /\ [Next]_vars => Lossless
    <2> SUFFICES ASSUME Inv, [Next]_vars, inode' # inode PROVE Lossless
      OBVIOUS
    <2>1. PICK p \in Procs : Install(p)
      BY DEF Next, Step, PowerLoss, Begin, Write, Sync, AppendFails, Done, Prepare, Link, Crash,
             Load, vars, disk
    <2>2. file' = Compacted(file) /\ file \in Seq(Line)
      BY <2>1, InstallKeeps DEF Inv, Typed, TypeOK
    <2> QED BY <2>2, CompactedReplays
  <1>2. Inv /\ [Next]_vars => [Lossless]_vars
    BY <1>1
  <1> QED BY <1>2, SpecInv, PTL DEF Spec, CheckpointLossless

-----------------------------------------------------------------------------
(* The artifacts of BrokerArchives.                                          *)
(*                                                                           *)
(* A writer that is past its content has found or left there the content it  *)
(* names, and content is never taken away; so the metadata that follows      *)
(* names content that is there, whoever stored it and whoever was stopped.   *)

ArtifactsInv ==
    /\ writer \in [Writers -> {"start", "content", "meta", "stored", "dead"}]
    /\ \A w \in Writers : writer[w] = "meta" => DigestOf[w] \in content
    /\ ListedIsReadable

LEMMA ArtifactsInitInv == ArchivesInit => ArtifactsInv
  BY DEF ArchivesInit, ArtifactsInv, ListedIsReadable, ListIds, ReadArtifact

\* The other stores are elsewhere.
LEMMA OthersKeepArtifacts == ArtifactsInv /\ UNCHANGED artifacts => ArtifactsInv'
  BY DEF artifacts, ArtifactsInv, ListedIsReadable, ListIds, ReadArtifact

\* A writer moves: content only grows, and metadata only by one whose content is there.
LEMMA ContentFirstKeeps ==
    ASSUME ArtifactsInv, NEW w \in Writers, ContentFirst(w)
    PROVE  ArtifactsInv'
  <1>1. CASE /\ writer[w] = "start"
             /\ writer' = [writer EXCEPT ![w] = IF DigestOf[w] \in content THEN "meta" ELSE "content"]
             /\ UNCHANGED <<content, meta>>
    BY <1>1 DEF ArtifactsInv, ListedIsReadable, ListIds, ReadArtifact
  <1>2. CASE /\ writer[w] = "content" /\ writer' = [writer EXCEPT ![w] = "meta"]
             /\ content' = content \cup {DigestOf[w]} /\ UNCHANGED meta
    BY <1>2 DEF ArtifactsInv, ListedIsReadable, ListIds, ReadArtifact
  <1>3. CASE /\ writer[w] = "meta" /\ writer' = [writer EXCEPT ![w] = "stored"]
             /\ meta' = meta \cup {w} /\ UNCHANGED content
    BY <1>3 DEF ArtifactsInv, ListedIsReadable, ListIds, ReadArtifact
  <1> QED
    BY <1>1, <1>2, <1>3 DEF ContentFirst

\* A writer that is stopped leaves what it had renamed.
LEMMA StopWritersKeeps == ArtifactsInv /\ StopWriters => ArtifactsInv'
  BY DEF StopWriters, ArtifactsInv, ListedIsReadable, ListIds, ReadArtifact

LEMMA ArchivesNextKeeps == ArtifactsInv /\ [ArchivesNext]_archivesVars => ArtifactsInv'
  <1> SUFFICES ASSUME ArtifactsInv, [ArchivesNext]_archivesVars PROVE ArtifactsInv'
    OBVIOUS
  <1>1. ASSUME NEW src, NEW run, NEW aged, AppendStart(src, run, aged) PROVE UNCHANGED artifacts
    BY <1>1 DEF AppendStart
  <1>2. ASSUME NEW src, AppendAgain(src) PROVE UNCHANGED artifacts
    BY <1>2 DEF AppendAgain
  <1>3. ASSUME NEW done, NEW fails, Rename(done, fails) PROVE UNCHANGED artifacts
    BY <1>3 DEF Rename
  <1>4. ASSUME NEW outcome, WriteFrame(outcome) PROVE UNCHANGED artifacts
    BY <1>4 DEF WriteFrame
  <1>5. CASE RemovePrefix \/ Recover \/ NoteGap \/ Reopen
    BY <1>5, OthersKeepArtifacts DEF RemovePrefix, Recover, NoteGap, Reopen
  <1>6. ASSUME NEW run, Pin(run) PROVE UNCHANGED artifacts
    BY <1>6 DEF Pin
  <1>7. ASSUME NEW state, Capture(state) PROVE UNCHANGED artifacts
    BY <1>7 DEF Capture
  <1>8. ASSUME NEW i, NEW written, WriteCard(i, written) PROVE UNCHANGED artifacts
    BY <1>8 DEF WriteCard
  <1>9. ASSUME NEW chunk, AppendTrace(chunk) PROVE UNCHANGED artifacts
    BY <1>9 DEF AppendTrace
  <1>10. CASE ReadPage \/ UNCHANGED archivesVars
    BY <1>10, OthersKeepArtifacts DEF ReadPage, archivesVars
  <1>11. ASSUME NEW w \in Writers, WriteArtifact(w) PROVE ArtifactsInv'
    BY <1>11, ContentFirstKeeps DEF WriteArtifact
  <1>12. CASE StopWriters
    BY <1>12, StopWritersKeeps
  <1> QED
    BY <1>1, <1>2, <1>3, <1>4, <1>5, <1>6, <1>7, <1>8, <1>9, <1>10, <1>11, <1>12, OthersKeepArtifacts
    DEF ArchivesNext

\* An artifact that is listed has its content, for any writers and contents,
\* shared or not, and whenever the broker dies (ArtifactStore.write).
THEOREM ArchivesListedIsReadable == ArchivesSpec => []ListedIsReadable
  <1>1. ArchivesInit => ArtifactsInv
    BY ArtifactsInitInv
  <1>2. ArtifactsInv /\ [ArchivesNext]_archivesVars => ArtifactsInv'
    BY ArchivesNextKeeps
  <1>3. ArtifactsInv => ListedIsReadable
    BY DEF ArtifactsInv
  <1> QED
    BY <1>1, <1>2, <1>3, PTL DEF ArchivesSpec
====
