----------------------------- MODULE CacheProofs -----------------------------
(***************************************************************************)
(* Theorems about Cache, for any processes, results and bounds.  What the  *)
(* cache holds is tied to where the processes are: a process knows the     *)
(* tables it made and the rows it wrote only as long as the file it opened *)
(* is the one that is there, and a command that is alone knows that no     *)
(* other is running.                                                       *)
(***************************************************************************)
EXTENDS Cache, TLAPS

\* Only a digest command has a result; the first statement of a process opens
\* its file; what a process notes, it took the time of.
Places ==
    \A c \in Processes :
        /\ at[c] \in {"idle", "mkdir", "config"} => result[c] = None
        /\ at[c] \in {"stat", "clock", "entries", "print"} => result[c] \in Results
        /\ at[c] \in {"idle", "mkdir", "stat"} => opened[c] = 0
        /\ at[c] = "idle" => alone[c]
        /\ at[c] \in {"clock", "entries", "config"} => opened[c] # 0
        /\ at[c] = "migrate" => position[c] \in 1..4 /\ (opened[c] = 0 <=> position[c] = 1)
        /\ at[c] = "migrate" /\ result[c] # None /\ removals = 0 => file # 0
        /\ at[c] \in {"idle", "mkdir", "stat", "config", "clock", "print"} => position[c] = 1

\* The tables a process has made are those of its file.
Migrating ==
    \A c \in Processes :
        at[c] = "migrate" /\ opened[c] = file => \A n \in 1..3 : n < position[c] => TableAt[n] \in tables

\* The rows a process has written are in its file.
Noting ==
    \A c \in Processes :
        at[c] = "entries" =>
            /\ now[c] \in 0..clock
            /\ [result |-> result[c], now |-> now[c]] \in taken
            /\ opened[c] = file =>
                  /\ position[c] > 4 => PatchRow(result[c]) \in digests
                  /\ \A n \in DOMAIN result[c].files :
                        n + 4 < position[c] /\ result[c].files[n].digest # None =>
                            FileRow(result[c].files[n]) \in digests

\* A command that is alone is the only one, and the references it has written
\* are its own.
Alone ==
    \A c \in Processes :
        alone[c] /\ at[c] # "idle" =>
            /\ \A d \in Processes \ {c} : at[d] = "idle"
            /\ at[c] = "entries" /\ opened[c] = file =>
                  \A n \in 1..3 : n < position[c] => refs[KeyAt[n]] = result[c].refs[KeyAt[n]]

LastIsOver == last # None => \A d \in Processes : at[d] \in {"idle", "print"}

IInv ==
    /\ TypeOK
    /\ Places
    /\ Migrating
    /\ Noting
    /\ Alone
    /\ LastIsOver
    /\ RowsHaveTheirTable
    /\ StampedIsIndexed
    /\ LastIsDescribed
    /\ InitLeavesAWholeCache

LEMMA ResultType ==
    ASSUME NEW r \in Results
    PROVE  /\ r.refs \in [Keys -> Values] /\ r.patch \in Digests
           /\ Len(r.files) \in Nat /\ DOMAIN r.files = 1..Len(r.files)
           /\ \A n \in 1..Len(r.files) : r.files[n] \in [path : Paths, digest : Digests \cup {None}]
<1>1. r.files \in Seq([path : Paths, digest : Digests \cup {None}])
    BY CacheAssumption DEF CacheAssumption
<1>2. r.refs \in [Keys -> Values] /\ r.patch \in Digests
    BY CacheAssumption DEF CacheAssumption
<1> HIDE DEF CacheAssumption
<1> DEFINE S == [path : Paths, digest : Digests \cup {None}]
<1>3. Len(r.files) \in Nat /\ DOMAIN r.files = 1..Len(r.files) /\ \A n \in 1..Len(r.files) : r.files[n] \in S
  <2> DEFINE t == r.files
  <2>1. t \in Seq(S)
    BY <1>1
  <2> HIDE DEF S, t
  <2>2. Len(t) \in Nat /\ DOMAIN t = 1..Len(t) /\ \A n \in 1..Len(t) : t[n] \in S
    BY <2>1
  <2> QED BY <2>2 DEF t
<1> QED BY <1>2, <1>3

LEMMA InitInv == Init => IInv
<1> SUFFICES ASSUME Init PROVE IInv
    OBVIOUS
<1> USE CacheAssumption DEF Init
<1>1. DiskTypes
  <2>1. directory \in BOOLEAN /\ config \in BOOLEAN
    OBVIOUS
  <2>2. refs \in [Keys -> Values \cup {None}]
    OBVIOUS
  <2>3. file \in 0..made /\ made \in Nat
    OBVIOUS
  <2> QED BY <2>1, <2>2, <2>3 DEF DiskTypes
<1>2. ProcessTypes
    BY DEF ProcessTypes, Steps
<1>3. GhostTypes
    BY DEF GhostTypes
<1>4. Places /\ Migrating /\ Noting /\ Alone
    BY DEF Places, Migrating, Noting, Alone
<1>5. LastIsOver /\ RowsHaveTheirTable /\ StampedIsIndexed /\ LastIsDescribed /\ InitLeavesAWholeCache
    BY DEF LastIsOver, RowsHaveTheirTable, StampedIsIndexed, LastIsDescribed, InitLeavesAWholeCache
<1> QED BY <1>1, <1>2, <1>3, <1>4, <1>5 DEF IInv, TypeOK

LEMMA BeginInv ==
    ASSUME IInv, NEW c \in Processes, BeginInit(c) \/ BeginDigest(c)
    PROVE  IInv'
<1> PICK step \in {"mkdir", "stat"}, r \in Results \cup {None} :
        /\ Begin(c, step, r)
        /\ step = "mkdir" => r = None
        /\ step = "stat" => r \in Results
    BY DEF BeginInit, BeginDigest
<1> USE DEF IInv, Begin, disk, cacheFile, Running
<1>1. TypeOK'
  <2>1. DiskTypes'
    BY DEF TypeOK, DiskTypes, ProcessTypes, Steps
  <2>2. ProcessTypes'
    BY CacheAssumption DEF TypeOK, DiskTypes, ProcessTypes, Steps
  <2>3. GhostTypes'
    BY DEF TypeOK, DiskTypes, ProcessTypes, GhostTypes, Steps
  <2> QED BY <2>1, <2>2, <2>3 DEF TypeOK
<1>2. Places' /\ Migrating' /\ Noting'
    BY DEF TypeOK, ProcessTypes, Places, Migrating, Noting
<1>3. Alone'
    BY DEF TypeOK, ProcessTypes, Alone, Places
<1>4. LastIsOver' /\ RowsHaveTheirTable' /\ StampedIsIndexed' /\ LastIsDescribed' /\ InitLeavesAWholeCache'
    BY DEF TypeOK, ProcessTypes, LastIsOver, RowsHaveTheirTable, StampedIsIndexed, LastIsDescribed, InitLeavesAWholeCache
<1> QED BY <1>1, <1>2, <1>3, <1>4

\* The steps that touch no row.
LEMMA PassInv ==
    ASSUME IInv, NEW c \in Processes, MkdirAll(c) \/ Stat(c) \/ Migrated(c)
    PROVE  IInv'
<1> USE DEF IInv
<1> PICK step \in {"print", "migrate", "config", "clock"} :
        /\ at' = [at EXCEPT ![c] = step]
        /\ position' = [position EXCEPT ![c] = 1]
        /\ \/ at[c] = "mkdir" /\ step = "migrate"
           \/ at[c] = "stat" /\ step = "print"
           \/ at[c] = "stat" /\ step = "migrate" /\ file # 0
           \/ /\ at[c] = "migrate" /\ position[c] > 3
              /\ step = IF result[c] = None THEN "config" ELSE "clock"
        /\ directory' \in BOOLEAN
        /\ UNCHANGED <<cacheFile, config, opened, now, ghosts, result, calls, clock, removals, outcome>>
  <2> USE DEF Goto, disk, cacheFile, ghosts, TypeOK, DiskTypes
  <2>1. CASE MkdirAll(c)
    BY <2>1 DEF MkdirAll
  <2>2. CASE Stat(c) /\ file = 0
    BY <2>2 DEF Stat
  <2>3. CASE Stat(c) /\ file # 0
    BY <2>3 DEF Stat
  <2>4. CASE Migrated(c)
    <3>1. position[c] > 3 /\ at[c] = "migrate"
        BY <2>4 DEF Migrated, TableAt
    <3> QED BY <2>4, <3>1 DEF Migrated, AfterMigrate
  <2> QED BY <2>1, <2>2, <2>3, <2>4
<1> USE DEF cacheFile, ghosts
<1>1. TypeOK'
  <2>1. DiskTypes'
    BY DEF TypeOK, DiskTypes
  <2>2. ProcessTypes'
    BY DEF TypeOK, ProcessTypes, Steps
  <2>3. GhostTypes'
    BY DEF TypeOK, GhostTypes
  <2> QED BY <2>1, <2>2, <2>3 DEF TypeOK
<1>2. Places'
    BY DEF TypeOK, ProcessTypes, Places
<1>3. Migrating'
    BY DEF TypeOK, ProcessTypes, Migrating, Places
<1>4. Noting'
    BY DEF TypeOK, ProcessTypes, Noting
<1>5. Alone'
    BY DEF TypeOK, ProcessTypes, Alone, Places
<1>6. RowsHaveTheirTable'
  <2> SUFFICES ASSUME NEW d \in Processes, at'[d] \in {"clock", "entries", "config"}, opened[d] = file
               PROVE  tables = Tables
    BY DEF RowsHaveTheirTable
  <2>1. CASE d # c
    BY <2>1 DEF RowsHaveTheirTable, TypeOK, ProcessTypes
  <2>2. CASE d = c
    <3>1. at[c] = "migrate" /\ opened[c] = file /\ \A n \in 1..3 : n < position[c]
        BY <2>2 DEF TypeOK, ProcessTypes
    <3>2. TableAt[1] \in tables /\ TableAt[2] \in tables /\ TableAt[3] \in tables
        BY <3>1 DEF Migrating
    <3> QED BY <3>2 DEF TypeOK, DiskTypes, TableAt, Tables
  <2> QED BY <2>1, <2>2
<1>7. LastIsOver'
    BY DEF TypeOK, ProcessTypes, LastIsOver
<1>8. StampedIsIndexed' /\ LastIsDescribed' /\ InitLeavesAWholeCache'
    BY DEF StampedIsIndexed, LastIsDescribed, InitLeavesAWholeCache
<1> QED BY <1>1, <1>2, <1>3, <1>4, <1>5, <1>6, <1>7, <1>8

LEMMA CreateTableInv ==
    ASSUME IInv, NEW c \in Processes, CreateTable(c)
    PROVE  IInv'
<1> USE DEF IInv, CreateTable, CanWrite, TableAt, ghosts
<1>1. TypeOK'
  <2>1. DiskTypes'
    <3>1. TableAt[position[c]] \in Tables
        BY DEF TypeOK, ProcessTypes, Tables
    <3>2. tables' \subseteq Tables
        BY <3>1 DEF TypeOK, DiskTypes
    <3>3. file' \in 0..made' /\ made' \in Nat
        BY DEF TypeOK, DiskTypes
    <3> QED BY <3>2, <3>3 DEF TypeOK, DiskTypes
  <2>2. ProcessTypes'
    BY DEF TypeOK, DiskTypes, ProcessTypes, Steps, Tables
  <2>3. GhostTypes'
    BY DEF TypeOK, DiskTypes, ProcessTypes, GhostTypes, Steps, Tables
  <2> QED BY <2>1, <2>2, <2>3 DEF TypeOK
<1>2. Places'
    BY DEF TypeOK, DiskTypes, ProcessTypes, Places
<1>3. Migrating'
    BY DEF TypeOK, DiskTypes, ProcessTypes, Migrating, Places
<1>4. Noting'
    BY DEF TypeOK, DiskTypes, ProcessTypes, Noting, Places
<1>5. Alone'
    BY DEF TypeOK, DiskTypes, ProcessTypes, Alone, Places
<1>6. RowsHaveTheirTable'
    BY DEF TypeOK, DiskTypes, ProcessTypes, RowsHaveTheirTable, Places, Tables
<1>7. LastIsOver' /\ StampedIsIndexed' /\ LastIsDescribed' /\ InitLeavesAWholeCache'
    BY DEF TypeOK, DiskTypes, ProcessTypes, LastIsOver, StampedIsIndexed, LastIsDescribed, InitLeavesAWholeCache, Tables
<1> QED BY <1>1, <1>2, <1>3, <1>4, <1>5, <1>6, <1>7

LEMMA TakeTimeInv ==
    ASSUME IInv, NEW c \in Processes, TakeTime(c)
    PROVE  IInv'
<1> USE DEF IInv, TakeTime, Goto, disk, cacheFile
<1>1. TypeOK'
  <2>1. DiskTypes'
    BY DEF TypeOK, DiskTypes, ProcessTypes, Places, Steps
  <2>2. ProcessTypes'
    BY DEF TypeOK, DiskTypes, ProcessTypes, Places, Steps
  <2>3. GhostTypes'
    BY DEF TypeOK, DiskTypes, ProcessTypes, GhostTypes, Places, Steps
  <2> QED BY <2>1, <2>2, <2>3 DEF TypeOK
<1>2. Places' /\ Migrating'
    BY DEF TypeOK, ProcessTypes, Places, Migrating
<1>3. Noting'
  <2>1. clock \in Nat
    BY CacheAssumption DEF TypeOK, ProcessTypes
  <2> QED BY <2>1, ResultType DEF TypeOK, ProcessTypes, Noting, Places
<1>4. Alone'
    BY DEF TypeOK, ProcessTypes, Alone, Places
<1>5. StampedIsIndexed'
    BY DEF StampedIsIndexed
<1>6. LastIsOver' /\ RowsHaveTheirTable' /\ LastIsDescribed' /\ InitLeavesAWholeCache'
    BY DEF TypeOK, ProcessTypes, LastIsOver, RowsHaveTheirTable, LastIsDescribed, InitLeavesAWholeCache
<1> QED BY <1>1, <1>2, <1>3, <1>4, <1>5, <1>6

LEMMA PutRefInv ==
    ASSUME IInv, NEW c \in Processes, PutRef(c)
    PROVE  IInv'
<1> USE CacheAssumption DEF IInv, PutRef, Writing, Written, KeyAt, ghosts
<1>1. result[c] \in Results /\ result[c].refs \in [Keys -> Values] /\ position[c] \in 1..3
    BY DEF TypeOK, DiskTypes, ProcessTypes, Places
<1>2. TypeOK'
  <2>1. DiskTypes'
    BY <1>1 DEF TypeOK, DiskTypes, ProcessTypes, Keys
  <2>2. ProcessTypes'
    BY <1>1 DEF TypeOK, DiskTypes, ProcessTypes, Keys
  <2>3. GhostTypes'
    BY <1>1 DEF TypeOK, DiskTypes, ProcessTypes, GhostTypes, Keys
  <2> QED BY <2>1, <2>2, <2>3 DEF TypeOK
<1>3. Places' /\ Migrating'
    BY DEF TypeOK, DiskTypes, ProcessTypes, Places, Migrating
<1>4. Noting'
    BY <1>1 DEF TypeOK, DiskTypes, ProcessTypes, Noting, CacheAssumption
<1>5. Alone'
    BY <1>1 DEF TypeOK, DiskTypes, ProcessTypes, Alone, Keys
<1>6. LastIsDescribed'
    BY DEF LastIsOver, LastIsDescribed
<1>7. LastIsOver' /\ RowsHaveTheirTable' /\ StampedIsIndexed' /\ InitLeavesAWholeCache'
    BY DEF TypeOK, DiskTypes, ProcessTypes, LastIsOver, RowsHaveTheirTable, StampedIsIndexed, InitLeavesAWholeCache
<1> QED BY <1>2, <1>3, <1>4, <1>5, <1>6, <1>7

LEMMA PutDigestInv ==
    ASSUME IInv, NEW c \in Processes, PutPatch(c) \/ PutFile(c)
    PROVE  IInv'
<1> USE DEF IInv
<1> DEFINE r == result[c]
<1>1. at[c] = "entries" /\ r \in Results /\ position[c] \in Nat
    BY DEF PutPatch, PutFile, Writing, TypeOK, ProcessTypes, Places
<1>2. PatchRow(r) \in DigestRow
    BY <1>1, ResultType DEF PatchRow, DigestRow
<1>3. PutFile(c) => /\ position[c] - 4 \in DOMAIN r.files /\ position[c] > 4
                    /\ FileAt(c) = r.files[position[c] - 4]
                    /\ FileAt(c).path \in Paths /\ FileAt(c).digest \in Digests \cup {None}
  <2> HAVE PutFile(c)
  <2>1. position[c] - 4 \in 1..Len(r.files) /\ position[c] > 4
    BY <1>1, ResultType DEF PutFile, StampAt, PatchAt, KeyAt
  <2>2. FileAt(c) = r.files[position[c] - 4]
    BY DEF FileAt, PatchAt, KeyAt
  <2> QED BY <1>1, <2>1, <2>2, ResultType
<1>4. PutFile(c) /\ FileAt(c).digest # None => FileRow(FileAt(c)) \in DigestRow
    BY <1>3 DEF FileRow, DigestRow
<1>5. digests \subseteq digests' /\ digests' \subseteq DigestRow
    BY <1>2, <1>4 DEF TypeOK, DiskTypes, PutPatch, PutFile
<1>6. /\ position' = [position EXCEPT ![c] = @ + 1]
      /\ UNCHANGED <<directory, file, tables, refs, stamp, made, config, at, result, opened, now, clock, calls,
                     removals, outcome, ghosts>>
    BY DEF PutPatch, PutFile, Written
<1> USE DEF ghosts
<1>7. TypeOK'
  <2>1. DiskTypes'
    BY <1>5, <1>6 DEF TypeOK, DiskTypes
  <2>2. ProcessTypes'
    BY <1>6 DEF TypeOK, ProcessTypes
  <2>3. GhostTypes'
    BY <1>6 DEF TypeOK, GhostTypes
  <2> QED BY <2>1, <2>2, <2>3 DEF TypeOK
<1>8. Places' /\ Migrating'
    BY <1>1, <1>6 DEF TypeOK, ProcessTypes, Places, Migrating
<1>9. Noting'
  <2>1. \/ /\ position[c] = 4 /\ PatchRow(r) \in digests'
        \/ /\ position[c] > 4 /\ position[c] - 4 \in DOMAIN r.files
           /\ r.files[position[c] - 4].digest # None => FileRow(r.files[position[c] - 4]) \in digests'
    BY <1>3 DEF PutPatch, PutFile, PatchAt, KeyAt
  <2>2. DOMAIN r.files \subseteq Nat \ {0}
    BY <1>1, ResultType
  <2>3. ASSUME NEW n \in DOMAIN r.files, n + 4 < position[c] + 1, r.files[n].digest # None, opened[c] = file
        PROVE  FileRow(r.files[n]) \in digests'
    <3>1. CASE n + 4 < position[c]
        BY <3>1, <2>3, <1>1, <1>5 DEF Noting
    <3>2. CASE n = position[c] - 4
        BY <3>2, <2>1, <2>2, <2>3
    <3> QED BY <3>1, <3>2, <2>2, <2>3, <1>1
  <2>4. opened[c] = file => PatchRow(r) \in digests'
    BY <1>1, <1>5, <2>1 DEF Noting
  <2> QED BY <1>1, <1>5, <1>6, <2>3, <2>4 DEF TypeOK, ProcessTypes, Noting
<1>10. Alone'
  <2>1. position[c] > 3
    BY <1>1 DEF PutPatch, PutFile, PatchAt, KeyAt
  <2>2. ASSUME NEW n \in 1..3 PROVE n < position[c]
    BY <2>1, <1>1
  <2> QED BY <1>1, <1>6, <2>2 DEF TypeOK, ProcessTypes, Alone
<1>11. StampedIsIndexed'
    BY <1>5, <1>6 DEF StampedIsIndexed
<1>12. LastIsOver' /\ RowsHaveTheirTable' /\ LastIsDescribed' /\ InitLeavesAWholeCache'
    BY <1>6 DEF LastIsOver, RowsHaveTheirTable, LastIsDescribed, InitLeavesAWholeCache
<1> QED BY <1>7, <1>8, <1>9, <1>10, <1>11, <1>12

\* The step the rest is for: when the time is written, everything else is.
LEMMA PutStampInv ==
    ASSUME IInv, NEW c \in Processes, PutStamp(c)
    PROVE  IInv'
<1> USE DEF IInv, PutStamp, Writing, Goto
<1> DEFINE r == result[c]
<1>1. /\ r \in Results /\ r.refs \in [Keys -> Values] /\ Len(r.files) \in Nat
      /\ DOMAIN r.files = 1..Len(r.files)
  <2>1. r \in Results
    BY DEF Places
  <2> QED BY <2>1, ResultType
<1>2. position[c] = Len(r.files) + 5
    BY <1>1 DEF StampAt, PatchAt, KeyAt
<1>3. now[c] \in 0..clock /\ [result |-> r, now |-> now[c]] \in taken
    BY DEF Noting
<1>4. DigestRows(r) \subseteq digests
  <2>1. PatchRow(r) \in digests
    <3>1. position[c] > 4 /\ opened[c] = file /\ at[c] = "entries"
        BY <1>1, <1>2
    <3> QED BY <3>1 DEF Noting
  <2>2. ASSUME NEW n \in DOMAIN r.files, r.files[n].digest # None PROVE FileRow(r.files[n]) \in digests
    <3>1. n + 4 < position[c]
        BY <1>1, <1>2
    <3> QED BY <2>2, <3>1 DEF Noting
  <2> QED BY <2>1, <2>2 DEF DigestRows
<1>5. alone[c] => refs = r.refs
  <2> HAVE alone[c]
  <2>1. \A n \in 1..3 : n < position[c]
    BY <1>1, <1>2
  <2>2. \A n \in 1..3 : refs[KeyAt[n]] = r.refs[KeyAt[n]]
    BY <2>1 DEF Alone
  <2>3. \A k \in Keys : refs[k] = r.refs[k]
    <3>1. refs[KeyAt[1]] = r.refs[KeyAt[1]] /\ refs[KeyAt[2]] = r.refs[KeyAt[2]] /\ refs[KeyAt[3]] = r.refs[KeyAt[3]]
        BY <2>2
    <3> QED BY <3>1 DEF Keys, KeyAt
  <2> QED BY <2>3, <1>1 DEF TypeOK, DiskTypes
<1>6. TypeOK'
  <2>1. DiskTypes'
    BY <1>3 DEF TypeOK, DiskTypes
  <2>2. ProcessTypes'
    BY DEF TypeOK, ProcessTypes, Steps
  <2>3. GhostTypes'
    <3>1. [result |-> r, now |-> now[c]] \in [result : Results, now : 0..clock]
        BY <1>1, <1>3
    <3> QED BY <3>1 DEF TypeOK, GhostTypes
  <2> QED BY <2>1, <2>2, <2>3 DEF TypeOK
<1>7. Places' /\ Migrating' /\ Noting'
    BY <1>1 DEF TypeOK, ProcessTypes, Places, Migrating, Noting
<1>8. Alone' /\ LastIsOver'
    BY DEF TypeOK, ProcessTypes, Alone, LastIsOver
<1>9. StampedIsIndexed'
    <2>1. stamp' = [result |-> r, now |-> now[c]].now /\ DigestRows([result |-> r, now |-> now[c]].result) \subseteq digests'
        BY <1>4
    <2> QED BY <1>3, <2>1 DEF StampedIsIndexed
<1>10. LastIsDescribed'
    BY <1>5 DEF LastIsDescribed
<1>11. RowsHaveTheirTable' /\ InitLeavesAWholeCache'
    BY DEF TypeOK, ProcessTypes, RowsHaveTheirTable, InitLeavesAWholeCache
<1> QED BY <1>6, <1>7, <1>8, <1>9, <1>10, <1>11

\* The steps that end a command, and the ones that end its writing.
LEMMA LeaveInv ==
    ASSUME IInv, NEW c \in Processes, NEW how \in {"printed", "failed", "killed"}, at[c] # "idle", Leave(c, how),
           UNCHANGED <<disk, last, initialised>>
    PROVE  IInv'
<1> USE DEF IInv, Leave, disk, cacheFile
<1>1. TypeOK'
  <2>1. DiskTypes'
    BY DEF TypeOK, DiskTypes
  <2>2. ProcessTypes'
    BY DEF TypeOK, DiskTypes, ProcessTypes, Steps
  <2>3. GhostTypes'
    BY DEF TypeOK, GhostTypes, ProcessTypes
  <2> QED BY <2>1, <2>2, <2>3 DEF TypeOK
<1>2. Places'
    BY DEF TypeOK, ProcessTypes, GhostTypes, Places
<1>3. Migrating' /\ Noting'
    BY DEF TypeOK, ProcessTypes, Migrating, Noting
<1>4. Alone'
    BY DEF TypeOK, ProcessTypes, GhostTypes, Alone
<1>5. LastIsOver' /\ RowsHaveTheirTable' /\ StampedIsIndexed' /\ LastIsDescribed' /\ InitLeavesAWholeCache'
    BY DEF TypeOK, ProcessTypes, LastIsOver, RowsHaveTheirTable, StampedIsIndexed, LastIsDescribed,
           InitLeavesAWholeCache
<1> QED BY <1>1, <1>2, <1>3, <1>4, <1>5

\* A digest whose statement failed goes on to its answer.
LEMMA GiveUpInv ==
    ASSUME IInv, NEW c \in Processes, at[c] \in {"stat", "migrate", "entries"}, result[c] # None, Goto(c, "print"),
           UNCHANGED <<disk, opened, now, ghosts>>
    PROVE  IInv'
<1> USE DEF IInv, Goto, disk, cacheFile, ghosts
<1>1. TypeOK'
  <2>1. DiskTypes'
    BY DEF TypeOK, DiskTypes
  <2>2. ProcessTypes'
    BY DEF TypeOK, ProcessTypes, Steps
  <2>3. GhostTypes'
    BY DEF TypeOK, GhostTypes
  <2> QED BY <2>1, <2>2, <2>3 DEF TypeOK
<1>2. Places'
    BY DEF TypeOK, ProcessTypes, Places
<1>3. Migrating' /\ Noting' /\ Alone'
    BY DEF TypeOK, ProcessTypes, Migrating, Noting, Alone
<1>4. LastIsOver' /\ RowsHaveTheirTable' /\ StampedIsIndexed' /\ LastIsDescribed' /\ InitLeavesAWholeCache'
    BY DEF TypeOK, ProcessTypes, LastIsOver, RowsHaveTheirTable, StampedIsIndexed, LastIsDescribed,
           InitLeavesAWholeCache
<1> QED BY <1>1, <1>2, <1>3, <1>4

LEMMA EndInv ==
    ASSUME IInv, NEW c \in Processes, Answer(c) \/ Fails(c) \/ Killed(c)
    PROVE  IInv'
<1>1. CASE Answer(c)
    BY <1>1, LeaveInv DEF Answer
<1>2. CASE Killed(c)
    BY <1>2, LeaveInv DEF Killed
<1>3. CASE Fails(c) /\ result[c] = None
    BY <1>3, LeaveInv DEF Fails
<1>4. CASE Fails(c) /\ result[c] # None
  <2>1. at[c] \in {"stat", "migrate", "entries"}
    BY <1>4 DEF Fails, IInv, Places
  <2> QED BY <1>4, <2>1, GiveUpInv DEF Fails, ghosts
<1> QED BY <1>1, <1>2, <1>3, <1>4

LEMMA WriteConfigInv ==
    ASSUME IInv, NEW c \in Processes, WriteConfig(c)
    PROVE  IInv'
<1> USE DEF IInv, WriteConfig, Leave, cacheFile
<1>1. TypeOK'
  <2>1. DiskTypes'
    BY DEF TypeOK, DiskTypes, ProcessTypes, Steps
  <2>2. ProcessTypes'
    BY DEF TypeOK, DiskTypes, ProcessTypes, Steps
  <2>3. GhostTypes'
    BY DEF TypeOK, DiskTypes, ProcessTypes, GhostTypes, Steps
  <2> QED BY <2>1, <2>2, <2>3 DEF TypeOK
<1>2. Places'
    BY DEF TypeOK, ProcessTypes, GhostTypes, Places
<1>3. Migrating' /\ Noting' /\ Alone'
    BY DEF TypeOK, ProcessTypes, GhostTypes, Migrating, Noting, Alone
<1>4. InitLeavesAWholeCache'
    BY DEF TypeOK, ProcessTypes, InitLeavesAWholeCache, RowsHaveTheirTable, Places
<1>5. LastIsOver' /\ RowsHaveTheirTable' /\ StampedIsIndexed' /\ LastIsDescribed'
    BY DEF TypeOK, ProcessTypes, LastIsOver, RowsHaveTheirTable, StampedIsIndexed, LastIsDescribed
<1> QED BY <1>1, <1>2, <1>3, <1>4, <1>5

LEMMA RemoveInv ==
    ASSUME IInv, Remove
    PROVE  IInv'
<1> USE CacheAssumption DEF IInv, Remove, process
<1>1. TypeOK'
  <2>1. DiskTypes'
    <3>1. directory' \in BOOLEAN /\ config' \in BOOLEAN
        OBVIOUS
    <3>2. refs' \in [Keys -> Values \cup {None}]
        OBVIOUS
    <3>3. file' \in 0..made' /\ made' \in Nat
        BY DEF TypeOK, DiskTypes
    <3> QED BY <3>1, <3>2, <3>3 DEF DiskTypes
  <2>2. ProcessTypes'
    BY DEF TypeOK, ProcessTypes
  <2>3. GhostTypes'
    BY DEF TypeOK, GhostTypes
  <2> QED BY <2>1, <2>2, <2>3 DEF TypeOK
<1>2. Places'
    BY DEF TypeOK, ProcessTypes, GhostTypes, Places
<1>3. Migrating' /\ Noting'
    BY DEF TypeOK, ProcessTypes, Places, Migrating, Noting
<1>4. Alone'
    BY DEF TypeOK, GhostTypes, Alone
<1>5. LastIsOver' /\ RowsHaveTheirTable' /\ StampedIsIndexed' /\ LastIsDescribed' /\ InitLeavesAWholeCache'
    BY DEF Places, LastIsOver, RowsHaveTheirTable, StampedIsIndexed, LastIsDescribed, InitLeavesAWholeCache
<1> QED BY <1>1, <1>2, <1>3, <1>4, <1>5

LEMMA TickInv ==
    ASSUME IInv, Tick
    PROVE  IInv'
<1> USE CacheAssumption DEF IInv, Tick, process, disk, cacheFile, ghosts
<1>1. clock \in Nat /\ clock' \in 0..MaxTime /\ 0..clock \subseteq 0..clock'
    BY DEF TypeOK, ProcessTypes
<1>2. TypeOK'
  <2>1. DiskTypes'
    BY <1>1 DEF TypeOK, DiskTypes
  <2>2. ProcessTypes'
    BY <1>1 DEF TypeOK, ProcessTypes
  <2>3. GhostTypes'
    <3>1. [result : Results, now : 0..clock] \subseteq [result : Results, now : 0..clock']
        BY <1>1
    <3> QED BY <3>1 DEF TypeOK, GhostTypes
  <2> QED BY <2>1, <2>2, <2>3 DEF TypeOK
<1>3. Noting'
    BY <1>1 DEF Noting
<1>4. Places' /\ Migrating' /\ Alone'
    BY DEF Places, Migrating, Alone
<1>5. LastIsOver' /\ RowsHaveTheirTable' /\ StampedIsIndexed' /\ LastIsDescribed' /\ InitLeavesAWholeCache'
    BY DEF LastIsOver, RowsHaveTheirTable, StampedIsIndexed, LastIsDescribed, InitLeavesAWholeCache
<1> QED BY <1>2, <1>3, <1>4, <1>5

LEMMA NextInv == IInv /\ [Next]_vars => IInv'
<1> SUFFICES ASSUME IInv, [Next]_vars PROVE IInv'
    OBVIOUS
<1>1. CASE UNCHANGED vars
  <2> USE <1>1 DEF IInv, vars, disk, cacheFile, process, ghosts
  <2>1. TypeOK'
    BY DEF TypeOK, DiskTypes, ProcessTypes, GhostTypes
  <2>2. Places' /\ Migrating' /\ Noting' /\ Alone'
    BY DEF Places, Migrating, Noting, Alone
  <2>3. LastIsOver' /\ RowsHaveTheirTable' /\ StampedIsIndexed' /\ LastIsDescribed' /\ InitLeavesAWholeCache'
    BY DEF LastIsOver, RowsHaveTheirTable, StampedIsIndexed, LastIsDescribed, InitLeavesAWholeCache
  <2> QED BY <2>1, <2>2, <2>3
<1>2. CASE Remove \/ Tick
    BY <1>2, RemoveInv, TickInv
<1>3. ASSUME NEW c \in Processes, BeginInit(c) \/ BeginDigest(c) \/ Step(c) \/ Fails(c) \/ Killed(c)
      PROVE  IInv'
    BY <1>3, BeginInv, PassInv, CreateTableInv, TakeTimeInv, PutRefInv, PutDigestInv, PutStampInv, EndInv,
       WriteConfigInv DEF Step
<1> QED BY <1>1, <1>2, <1>3 DEF Next

LEMMA Invariance == Spec => []IInv
BY InitInv, NextInv, PTL DEF Spec

\* Every variable of the cache, of the processes and of the two commands keeps
\* its range, whatever fails, overlaps or is removed.
THEOREM TypeCorrect == Spec => []TypeOK
BY Invariance, PTL DEF IInv

\* The time of the last digest is a mark of completion (cache.go:111): for any
\* number of processes, errors and removals, some result of that second is in
\* the table with its patch and all its files.
THEOREM TheStampIsACommitMark == Spec => []StampedIsIndexed
BY Invariance, PTL DEF IInv

\* No row is written to a file that lacks a table (cache.go:87, cache.go:115).
THEOREM TablesComeFirst == Spec => []RowsHaveTheirTable
BY Invariance, PTL DEF IInv

\* After a digest that ran alone the cache describes it (cache.go:90-111).
THEOREM TheLastDigestIsDescribed == Spec => []LastIsDescribed
BY Invariance, PTL DEF IInv

\* What init reports is there (cache.go:40-75).
THEOREM InitReportsWhatExists == Spec => []InitLeavesAWholeCache
BY Invariance, PTL DEF IInv

\* A digest that finds no cache makes none, also between the steps of an init
\* (cache.go:79).
THEOREM OnlyInitCreates == Spec => OnlyInitMakesACache
<1> DEFINE A == file = 0 /\ file' # 0 =>
                   \E c \in Processes : opened'[c] = file' /\ (result[c] = None \/ removals > 0)
<1>1. IInv /\ [Next]_vars => [A]_vars
  <2> SUFFICES ASSUME IInv, Next PROVE A
    OBVIOUS
  <2>1. ASSUME NEW c \in Processes, CreateTable(c) PROVE A
    <3> SUFFICES ASSUME file = 0, file' # 0 PROVE opened'[c] = file' /\ (result[c] = None \/ removals > 0)
      BY <2>1
    <3>1. opened'[c] = file'
      BY <2>1 DEF IInv, TypeOK, ProcessTypes, CreateTable
    <3>2. at[c] = "migrate"
      BY <2>1 DEF CreateTable
    <3>3. result[c] = None \/ removals # 0
      BY <3>2 DEF IInv, Places
    <3>4. removals \in Nat
      BY CacheAssumption DEF IInv, TypeOK, ProcessTypes
    <3> QED BY <3>1, <3>3, <3>4
  <2>2. CASE ~ \E c \in Processes : CreateTable(c)
    BY <2>2 DEF Next, Step, BeginInit, BeginDigest, Begin, MkdirAll, Stat, Migrated, TakeTime, PutRef,
       PutPatch, PutFile, PutStamp, Answer, WriteConfig, Fails, Killed, Remove, Tick, Goto, Leave, Written,
       disk, cacheFile
  <2> QED BY <2>1, <2>2
<1> QED BY <1>1, Invariance, PTL DEF Spec, OnlyInitMakesACache

=============================================================================
