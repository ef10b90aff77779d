----------------------------- MODULE DiskEngine -----------------------------
(***************************************************************************)
(* The Bitcask-style storage engine of src/storage/disk.rs: one append-   *)
(* only log file of records <key_len, val_len, key, value> (val_len = -1   *)
(* for a tombstone) and an in-memory KeyDir key -> (value offset, length). *)
(*                                                                         *)
(* The file is a sequence of cells.  A header cell stands for the 8-byte   *)
(* header together with the key bytes; a value of length n occupies n      *)
(* value cells.  Offsets are 0-based cell positions, as in the code.  A    *)
(* key is a natural number ordered like its bytes, so that the BTreeMap    *)
(* order of the KeyDir is the order of Keys.                               *)
(*                                                                         *)
(* The process may crash at any moment (Crash) and is restarted either by *)
(* DiskEngine::new (Restart) or by DiskEngine::new_compact (RestartCompact *)
(* followed by CompactStep ... CompactRename).  Two further failures are   *)
(* only in the extended next-state relations: a power loss that leaves    *)
(* part of the record being written at the tail of the file (TornCrash),  *)
(* and a crash in the middle of compaction (CrashCompacting).             *)
(***************************************************************************)
EXTENDS Integers, Sequences, FiniteSets, Functions, TLC

CONSTANTS
    Keys,         \* keys, naturals in byte order
    Vals,         \* values written by set
    ValLen,       \* ValLen[v] >= 1: number of cells of value v
    NoValue,      \* what get returns for an absent key
    MaxLogCells   \* bound on the length of each log file

ASSUME Keys \subseteq Nat /\ \A v \in Vals : ValLen[v] \in Nat \ {0}

VARIABLES
    file,         \* cells of the log file at file_path
    compactFile,  \* cells of the sibling file file_path.compact
    keydir,       \* DiskEngine.keydir
    phase,        \* "up", "down" (no engine), "compacting" (in compact())
    newKeyDir,    \* compact(): new_keydir built so far
    todo          \* compact(): keys of the old KeyDir not yet rewritten

vars == <<file, compactFile, keydir, phase, newKeyDir, todo>>

-----------------------------------------------------------------------------
(* Log records and their cells.                                            *)

Hdr(k, n) == [kind |-> "hdr", key |-> k, vlen |-> n]
ValCell(v, i) == [kind |-> "val", val |-> v, pos |-> i]
TornHdr == [kind |-> "torn"]       \* header or key cut short by a power loss

ValueCells(v) == [i \in 1..ValLen[v] |-> ValCell(v, i)]
Cell == {Hdr(k, n) : k \in Keys, n \in {-1} \cup {ValLen[v] : v \in Vals}}
          \cup UNION {Range(ValueCells(v)) : v \in Vals} \cup {TornHdr}

\* Log::write_entry: append <key_size, val_size, key, value> at the end of
\* the file; returns the record's offset and total size.
WriteEntry(f, k, cells, isTomb) ==
    f \o <<Hdr(k, IF isTomb THEN -1 ELSE Len(cells))>> \o cells

EntrySize(cells) == 1 + Len(cells)

MaxRecordCells == 1 + CHOOSE n \in {ValLen[v] : v \in Vals} : \A v \in Vals : ValLen[v] <= n

\* KeyDir helpers: BTreeMap insert and remove.
Insert(kd, k, e) == (k :> e) @@ kd
Remove(kd, k) == Restrict(kd, DOMAIN kd \ {k})

\* Log::read_value: seek to offset and read_exact val_size cells.  A read
\* past the end of the file is an UnexpectedEof error.
ReadRaw(f, e) ==
    IF e.off + e.len <= Len(f)
    THEN [ok |-> TRUE, cells |-> SubSeq(f, e.off + 1, e.off + e.len)]
    ELSE [ok |-> FALSE, cells |-> <<>>]

\* The bytes returned, as the value they encode (or garbage).
Decode(cells) ==
    IF \E v \in Vals : ValueCells(v) = cells
    THEN CHOOSE v \in Vals : ValueCells(v) = cells
    ELSE "garbage"

\* Engine::get through a KeyDir over file f.
GetValue(kd, f, k) ==
    IF k \notin DOMAIN kd THEN NoValue
    ELSE LET r == ReadRaw(f, kd[k]) IN IF r.ok THEN Decode(r.cells) ELSE "read_error"

\* Log::build_keydir: walk the file from offset 0 while offset < file_size.
\* read_entry needs a complete header at the offset; anything else fails.
\* A value record sets key -> (offset + header + key, val_size) and moves
\* the offset past the value, whether or not that many bytes exist.
\* Mutant: build_keydir forgets keydir.remove on a tombstone.
RECURSIVE WalkKeepsDeleted(_, _, _)
WalkKeepsDeleted(f, off, kd) ==
    IF off >= Len(f) THEN [ok |-> TRUE, kd |-> kd]
    ELSE LET c == f[off + 1] IN
         CASE c.kind # "hdr" -> [ok |-> FALSE, kd |-> kd]
           [] c.vlen = -1    -> WalkKeepsDeleted(f, off + 1, kd)
           [] OTHER          -> WalkKeepsDeleted(f, off + 1 + c.vlen,
                                     Insert(kd, c.key, [off |-> off + 1, len |-> c.vlen]))

RECURSIVE Walk(_, _, _)
Walk(f, off, kd) ==
    IF off >= Len(f) THEN [ok |-> TRUE, kd |-> kd]
    ELSE LET c == f[off + 1] IN
         CASE c.kind # "hdr" -> [ok |-> FALSE, kd |-> kd]
           [] c.vlen = -1    -> Walk(f, off + 1, Remove(kd, c.key))
           [] OTHER          -> Walk(f, off + 1 + c.vlen,
                                     Insert(kd, c.key, [off |-> off + 1, len |-> c.vlen]))

BuildKeyDir(f) == Walk(f, 0, <<>>)

-----------------------------------------------------------------------------
(* What get returns for every key: through the KeyDir while an engine is   *)
(* running, and through the KeyDir a restart would build while none is.    *)

Contents ==
    IF phase = "down"
    THEN LET r == BuildKeyDir(file) IN
         [k \in Keys |-> IF r.ok THEN GetValue(r.kd, file, k) ELSE "unreadable"]
    ELSE [k \in Keys |-> GetValue(keydir, file, k)]

TypeOK ==
    /\ file \in Seq(Cell) /\ compactFile \in Seq(Cell)
    /\ phase \in {"up", "down", "compacting"}
    /\ DOMAIN keydir \subseteq Keys
    /\ \A k \in DOMAIN keydir :
          keydir[k] \in [off : 0..MaxLogCells, len : {ValLen[v] : v \in Vals}]
    /\ DOMAIN newKeyDir \subseteq Keys
    /\ todo \subseteq Keys

Init ==
    /\ file = <<>>
    /\ compactFile = <<>>
    /\ keydir = <<>>
    /\ phase = "up"
    /\ newKeyDir = <<>>
    /\ todo = {}

-----------------------------------------------------------------------------
\* Mutant: the KeyDir records the record's total size as the value size.
SetStoresRecordSize(k, v) ==
    LET off == Len(file)
        cells == ValueCells(v)
    IN /\ phase = "up"
       /\ off + EntrySize(cells) <= MaxLogCells
       /\ file' = WriteEntry(file, k, cells, FALSE)
       /\ keydir' = Insert(keydir, k,
                           [off |-> off + EntrySize(cells) - ValLen[v], len |-> EntrySize(cells)])
       /\ UNCHANGED <<compactFile, phase, newKeyDir, todo>>

\* Mutant: the value offset is taken as offset + size, past the value.
SetOffsetPastValue(k, v) ==
    LET off == Len(file)
        cells == ValueCells(v)
    IN /\ phase = "up"
       /\ off + EntrySize(cells) <= MaxLogCells
       /\ file' = WriteEntry(file, k, cells, FALSE)
       /\ keydir' = Insert(keydir, k, [off |-> off + EntrySize(cells), len |-> ValLen[v]])
       /\ UNCHANGED <<compactFile, phase, newKeyDir, todo>>

(* DiskEngine::set: append a value record, then point the KeyDir at the    *)
(* value: offset + size - val_size.                                        *)
Set(k, v) ==
    LET off == Len(file)
        cells == ValueCells(v)
    IN /\ phase = "up"
       /\ off + EntrySize(cells) <= MaxLogCells
       /\ file' = WriteEntry(file, k, cells, FALSE)
       /\ keydir' = Insert(keydir, k,
                           [off |-> off + EntrySize(cells) - ValLen[v], len |-> ValLen[v]])
       /\ UNCHANGED <<compactFile, phase, newKeyDir, todo>>

(* DiskEngine::delete: append a tombstone, remove the key from the KeyDir. *)
Delete(k) ==
    /\ phase = "up"
    /\ Len(file) + 1 <= MaxLogCells
    /\ file' = WriteEntry(file, k, <<>>, TRUE)
    /\ keydir' = Remove(keydir, k)
    /\ UNCHANGED <<compactFile, phase, newKeyDir, todo>>

(* The process dies while no compaction is running; memory is lost, the   *)
(* files stay as written (every write_entry was flushed).                 *)
Crash ==
    /\ phase = "up"
    /\ phase' = "down"
    /\ keydir' = <<>>
    /\ UNCHANGED <<file, compactFile, newKeyDir, todo>>

(* DiskEngine::new: Log::new opens the file, build_keydir rebuilds the     *)
(* KeyDir.  A failing build_keydir leaves no engine.                       *)
Restart ==
    LET r == BuildKeyDir(file) IN
    /\ phase = "down"
    /\ r.ok
    /\ keydir' = r.kd
    /\ phase' = "up"
    /\ UNCHANGED <<file, compactFile, newKeyDir, todo>>

(* DiskEngine::new_compact: new, then compact(), which opens the sibling   *)
(* file with Log::new (create, no truncation) and an empty new_keydir.     *)
(* MaxLogCells bounds the rewritten file.                                  *)
RestartCompact ==
    LET r == BuildKeyDir(file) IN
    /\ phase = "down"
    /\ r.ok
    /\ Len(compactFile) + Cardinality(DOMAIN r.kd) * MaxRecordCells <= MaxLogCells
    /\ keydir' = r.kd
    /\ phase' = "compacting"
    /\ newKeyDir' = <<>>
    /\ todo' = DOMAIN r.kd
    /\ UNCHANGED <<file, compactFile>>

\* Mutant: new_keydir keeps the offset of the value in the old log.
CompactStepKeepsOldOffset ==
    LET k == CHOOSE x \in todo : \A y \in todo : x <= y
        e == keydir[k]
        r == ReadRaw(file, e)
    IN /\ phase = "compacting"
       /\ todo # {}
       /\ r.ok
       /\ compactFile' = WriteEntry(compactFile, k, r.cells, FALSE)
       /\ newKeyDir' = Insert(newKeyDir, k, e)
       /\ todo' = todo \ {k}
       /\ UNCHANGED <<file, keydir, phase>>

(* One iteration of compact()'s loop, in key order: read_value from the    *)
(* old log, write_entry into the new one, record the new offset.          *)
CompactStep ==
    LET k == CHOOSE x \in todo : \A y \in todo : x <= y
        e == keydir[k]
        r == ReadRaw(file, e)
        off == Len(compactFile)
    IN /\ phase = "compacting"
       /\ todo # {}
       /\ r.ok
       /\ compactFile' = WriteEntry(compactFile, k, r.cells, FALSE)
       /\ newKeyDir' = Insert(newKeyDir, k,
                              [off |-> off + EntrySize(r.cells) - e.len, len |-> e.len])
       /\ todo' = todo \ {k}
       /\ UNCHANGED <<file, keydir, phase>>

(* read_value fails inside compact(): new_compact returns the error and no *)
(* engine exists; the partly written sibling file stays on disk.          *)
CompactReadFails ==
    LET k == CHOOSE x \in todo : \A y \in todo : x <= y IN
    /\ phase = "compacting"
    /\ todo # {}
    /\ ~ReadRaw(file, keydir[k]).ok
    /\ phase' = "down"
    /\ keydir' = <<>>
    /\ UNCHANGED <<file, compactFile, newKeyDir, todo>>

(* End of compact(): rename the sibling over the log, swap the KeyDir.     *)
CompactRename ==
    /\ phase = "compacting"
    /\ todo = {}
    /\ file' = compactFile
    /\ compactFile' = <<>>
    /\ keydir' = newKeyDir
    /\ phase' = "up"
    /\ UNCHANGED <<newKeyDir, todo>>

Next ==
    \/ \E k \in Keys : Delete(k) \/ \E v \in Vals : Set(k, v)
    \/ Crash
    \/ Restart
    \/ RestartCompact
    \/ CompactStep
    \/ CompactRename

Spec == Init /\ [][Next]_vars

-----------------------------------------------------------------------------
(* Failures outside Next.                                                  *)

(* Power loss during Log::write_entry of set(k, v): only a prefix of the   *)
(* record reaches the file: part of the header and key, or the header,     *)
(* key and the first j < val_size value cells.                            *)
TornCrash(k, v) ==
    /\ phase = "up"
    /\ Len(file) + EntrySize(ValueCells(v)) <= MaxLogCells
    /\ \E j \in -1..(ValLen[v] - 1) :
          file' = file \o IF j = -1 THEN <<TornHdr>>
                          ELSE <<Hdr(k, ValLen[v])>> \o SubSeq(ValueCells(v), 1, j)
    /\ phase' = "down"
    /\ keydir' = <<>>
    /\ UNCHANGED <<compactFile, newKeyDir, todo>>

(* The process dies in the middle of compact(): the sibling file keeps the *)
(* records written so far.                                                 *)
CrashCompacting ==
    /\ phase = "compacting"
    /\ phase' = "down"
    /\ keydir' = <<>>
    /\ UNCHANGED <<file, compactFile, newKeyDir, todo>>

NextTorn ==
    \/ Next
    \/ \E k \in Keys, v \in Vals : TornCrash(k, v)
    \/ CompactReadFails

NextCrashAnywhere == Next \/ CrashCompacting

SpecTorn == Init /\ [][NextTorn]_vars
SpecCrashAnywhere == Init /\ [][NextCrashAnywhere]_vars

-----------------------------------------------------------------------------
(* Properties.                                                             *)

(* The engine implements the Engine interface: what get returns changes    *)
(* only as a set or a delete says, across crashes, restarts (build_keydir) *)
(* and compaction.                                                         *)
KV == INSTANCE KVStore WITH dict <- Contents
KVSpec == KV!Spec

(* A crash, a restart or the end of a compaction never changes what get    *)
(* returns for any key: the log is the source of truth and the KeyDir is   *)
(* derived from it (a deleted key stays deleted, an overwritten value      *)
(* stays overwritten).                                                     *)
RecoveryPreservesContents ==
    [][phase' # phase => Contents' = Contents]_vars

(* Spec section 8: while an engine runs, a startup from the log file       *)
(* would rebuild exactly the KeyDir held in memory, in particular right    *)
(* after compact() renamed its file over the log.                          *)
KeyDirDerivedFromLog ==
    phase = "up" => BuildKeyDir(file) = [ok |-> TRUE, kd |-> keydir]

(* Spec section 4.1: a torn tail at startup is either fatal or truncated   *)
(* away.  So whenever an engine has started, get returns for every key a   *)
(* value some set wrote, or nothing; never a failed or partial read.      *)
RunningEngineServesWrittenValues ==
    phase # "down" => \A k \in Keys : Contents[k] \in Vals \cup {NoValue}
=============================================================================
