-------------------------------- MODULE Cache --------------------------------
(***************************************************************************)
(* internal/cache and the two commands that write it: `init` makes         *)
(* .agentattest with an SQLite file and a config.json, `digest` notes in   *)
(* that file, if there is one, what it computed.  Every SQLite statement   *)
(* is a transaction of its own and nothing else orders the processes that  *)
(* share the file; a statement may fail (a lock, a full disk), a process   *)
(* may end, and a user may remove the directory, between any two of them.  *)
(* A result is [refs, patch, files]: refs maps each key to its value,      *)
(* files is the sequence of [path, digest], digest None for a file that is *)
(* gone.  last_seen_at, and the pragma that numbers the schema, are left   *)
(* out.                                                                    *)
(***************************************************************************)
EXTENDS Naturals, Sequences

CONSTANTS
    Processes,
    Results,       \* what gitbind.Compute may have returned
    Values,        \* values of a reference
    Digests, Paths,
    None,          \* no row, no digest, no second
    MaxTime,       \* bound: seconds that pass
    MaxCalls,      \* bound: commands run
    MaxRemovals    \* bound: removals of the directory

Tables == {"refs", "digests", "timestamps"}
TableAt == <<"refs", "digests", "timestamps">>
Keys == {"repo.url", "repo.baseCommit", "repo.headCommit"}
KeyAt == <<"repo.url", "repo.baseCommit", "repo.headCommit">>

ASSUME CacheAssumption ==
    /\ MaxTime \in Nat /\ MaxCalls \in Nat /\ MaxRemovals \in Nat
    /\ None \notin Values \cup Digests \cup Nat \cup Results
    /\ \A r \in Results :
          /\ r.refs \in [Keys -> Values] /\ r.patch \in Digests
          /\ r.files \in Seq([path : Paths, digest : Digests \cup {None}])

VARIABLES
    directory,    \* whether .agentattest is there
    file,         \* which cache.db is there, 0 for none
    tables,       \* the tables it has
    refs,         \* the table refs, None for no row
    digests,      \* the table digests
    stamp,        \* the row digest.lastComputedAt
    config,       \* whether config.json is there
    at,           \* where each process is
    result,       \* what a digest command has computed
    opened,       \* the file a process has open, 0 before its first statement
    position,     \* the next table or entry of its loop
    now,          \* the second it took for its rows
    clock, made, calls, removals,
    outcome,      \* what the last command of a process came to
    taken,        \* ghost: the results noted, with their second
    alone,        \* ghost: no other command and no removal while this one ran
    last,         \* ghost: the result last noted by a command alone, since
                  \* when none other began
    initialised   \* ghost: an init reported the file that is there

cacheFile == <<file, tables, refs, digests, stamp, made>>
disk == <<directory, cacheFile, config>>
process == <<at, result, opened, position, now>>
ghosts == <<taken, alone, last, initialised>>
vars == <<disk, process, clock, calls, removals, outcome, ghosts>>

Init ==
    /\ directory = FALSE /\ file = 0 /\ tables = {} /\ config = FALSE
    /\ refs = [k \in Keys |-> None] /\ digests = {} /\ stamp = None
    /\ at = [c \in Processes |-> "idle"]
    /\ result = [c \in Processes |-> None]
    /\ opened = [c \in Processes |-> 0]
    /\ position = [c \in Processes |-> 1]
    /\ now = [c \in Processes |-> None]
    /\ clock = 0 /\ made = 0 /\ calls = 0 /\ removals = 0
    /\ outcome = [c \in Processes |-> None]
    /\ taken = {} /\ initialised = FALSE
    /\ alone = [c \in Processes |-> TRUE]
    /\ last = None

-----------------------------------------------------------------------------
Running == {c \in Processes : at[c] # "idle"}

\* A command begins: init at its MkdirAll, digest, with what it computed, at
\* its Stat.
Begin(c, step, r) ==
    /\ at[c] = "idle" /\ calls < MaxCalls
    /\ calls' = calls + 1
    /\ at' = [at EXCEPT ![c] = step]
    /\ result' = [result EXCEPT ![c] = r]
    /\ outcome' = [outcome EXCEPT ![c] = None]
    /\ alone' = [d \in Processes |-> IF d = c THEN Running = {} ELSE alone[d] /\ at[d] = "idle"]
    /\ last' = None
    /\ UNCHANGED <<disk, opened, position, now, clock, removals, taken, initialised>>

BeginInit(c) == Begin(c, "mkdir", None)
BeginDigest(c) == \E r \in Results : Begin(c, "stat", r)

Goto(c, step) ==
    /\ at' = [at EXCEPT ![c] = step]
    /\ position' = [position EXCEPT ![c] = 1]
    /\ UNCHANGED <<result, calls, clock, removals, outcome>>

\* The command is over, and the variables of the call with it.
Leave(c, how) ==
    /\ at' = [at EXCEPT ![c] = "idle"]
    /\ outcome' = [outcome EXCEPT ![c] = how]
    /\ result' = [result EXCEPT ![c] = None]
    /\ opened' = [opened EXCEPT ![c] = 0]
    /\ position' = [position EXCEPT ![c] = 1]
    /\ now' = [now EXCEPT ![c] = None]
    /\ alone' = [alone EXCEPT ![c] = TRUE]
    /\ UNCHANGED <<clock, calls, removals, taken>>

MkdirAll(c) ==
    /\ at[c] = "mkdir"
    /\ directory' = TRUE
    /\ Goto(c, "migrate")
    /\ UNCHANGED <<cacheFile, config, opened, now, ghosts>>

\* Faulty variant: the file is not looked for, since opening it makes it.
OpenAtOnce(c) ==
    /\ at[c] = "stat"
    /\ Goto(c, "migrate")
    /\ UNCHANGED <<disk, opened, now, ghosts>>

\* IndexDigest: without a cache there is nothing to note it in.
Stat(c) ==
    /\ at[c] = "stat"
    /\ Goto(c, IF file = 0 THEN "print" ELSE "migrate")
    /\ UNCHANGED <<disk, opened, now, ghosts>>

\* SQLite writes to the file it has open; the first statement opens it, makes
\* it when the directory has none, and fails when there is no directory.
CanWrite(c) == IF opened[c] = 0 THEN directory ELSE opened[c] = file

AfterMigrate(c) == IF result[c] = None THEN "config" ELSE "clock"

\* migrate: create table if not exists.
CreateTable(c) ==
    /\ at[c] = "migrate" /\ position[c] <= Len(TableAt) /\ CanWrite(c)
    /\ file' = IF file = 0 THEN made + 1 ELSE file
    /\ made' = IF file = 0 THEN made + 1 ELSE made
    /\ opened' = [opened EXCEPT ![c] = IF file = 0 THEN made + 1 ELSE file]
    /\ tables' = tables \cup {TableAt[position[c]]}
    /\ position' = [position EXCEPT ![c] = @ + 1]
    /\ UNCHANGED <<directory, refs, digests, stamp, config, at, result, now, clock, calls, removals, outcome,
                   ghosts>>

Migrated(c) ==
    /\ at[c] = "migrate" /\ position[c] > Len(TableAt)
    /\ Goto(c, AfterMigrate(c))
    /\ UNCHANGED <<disk, opened, now, ghosts>>

\* time.Now, to the second.
TakeTime(c) ==
    /\ at[c] = "clock"
    /\ now' = [now EXCEPT ![c] = clock]
    /\ taken' = taken \cup {[result |-> result[c], now |-> clock]}
    /\ Goto(c, "entries")
    /\ UNCHANGED <<disk, opened, alone, last, initialised>>

-----------------------------------------------------------------------------
\* The rows of a result, in the order they are written: its references, its
\* patch, its files, and after them the time.
PatchAt == Len(KeyAt) + 1
StampAt(r) == PatchAt + Len(r.files) + 1
FileRow(f) == [kind |-> "file", path |-> f.path, digest |-> f.digest]
PatchRow(r) == [kind |-> "patch", path |-> None, digest |-> r.patch]
DigestRows(r) ==
    {PatchRow(r)} \cup {FileRow(r.files[n]) : n \in {m \in DOMAIN r.files : r.files[m].digest # None}}

Writing(c) == at[c] = "entries" /\ opened[c] = file
Written(c) ==
    /\ position' = [position EXCEPT ![c] = @ + 1]
    /\ UNCHANGED <<directory, file, tables, made, config, at, result, opened, now, clock, calls, removals, outcome,
                   ghosts>>

\* Faulty variant: a reference that is there stays.
PutRefIfNew(c) ==
    /\ Writing(c) /\ position[c] <= Len(KeyAt)
    /\ refs' = [refs EXCEPT ![KeyAt[position[c]]] = IF @ = None THEN result[c].refs[KeyAt[position[c]]] ELSE @]
    /\ Written(c)
    /\ UNCHANGED <<digests, stamp>>

PutRef(c) ==
    /\ Writing(c) /\ position[c] <= Len(KeyAt)
    /\ refs' = [refs EXCEPT ![KeyAt[position[c]]] = result[c].refs[KeyAt[position[c]]]]
    /\ Written(c)
    /\ UNCHANGED <<digests, stamp>>

PutPatch(c) ==
    /\ Writing(c) /\ position[c] = PatchAt
    /\ digests' = digests \cup {PatchRow(result[c])}
    /\ Written(c)
    /\ UNCHANGED <<refs, stamp>>

FileAt(c) == result[c].files[position[c] - PatchAt]

\* Faulty variant: a file that is gone gets a row.
PutFileAnyway(c) ==
    /\ Writing(c) /\ PatchAt < position[c] /\ position[c] < StampAt(result[c])
    /\ digests' = digests \cup {FileRow(FileAt(c))}
    /\ Written(c)
    /\ UNCHANGED <<refs, stamp>>

\* Faulty variant: a file that is gone ends the loop.
PutFileOrBreak(c) ==
    /\ Writing(c) /\ PatchAt < position[c] /\ position[c] < StampAt(result[c])
    /\ digests' = IF FileAt(c).digest = None THEN digests ELSE digests \cup {FileRow(FileAt(c))}
    /\ position' = [position EXCEPT ![c] = IF FileAt(c).digest = None THEN StampAt(result[c]) ELSE @ + 1]
    /\ UNCHANGED <<refs, stamp, directory, file, tables, made, config, at, result, opened, now, clock, calls,
                   removals, outcome, ghosts>>

\* A file that is gone has no digest and no row.
PutFile(c) ==
    /\ Writing(c) /\ PatchAt < position[c] /\ position[c] < StampAt(result[c])
    /\ digests' = IF FileAt(c).digest = None THEN digests ELSE digests \cup {FileRow(FileAt(c))}
    /\ Written(c)
    /\ UNCHANGED <<refs, stamp>>

PutStamp(c) ==
    /\ Writing(c) /\ position[c] = StampAt(result[c])
    /\ stamp' = now[c]
    /\ last' = IF alone[c] THEN [result |-> result[c], now |-> now[c]] ELSE None
    /\ Goto(c, "print")
    /\ UNCHANGED <<directory, file, tables, refs, digests, made, config, opened, now, taken, alone, initialised>>

\* The answer goes to the user, whatever became of the cache.
Answer(c) ==
    /\ at[c] = "print"
    /\ Leave(c, "printed")
    /\ UNCHANGED <<disk, last, initialised>>

\* config.json, which nothing reads, and the report.
WriteConfig(c) ==
    /\ at[c] = "config" /\ directory
    /\ config' = TRUE
    /\ Leave(c, "created")
    /\ initialised' = (initialised \/ opened[c] = file)
    /\ UNCHANGED <<directory, cacheFile, last>>

\* Faulty variant: digest ends with the error of IndexDigest.
FailsAsTheCommand(c) ==
    /\ at[c] \in {"mkdir", "migrate", "entries", "config"}
    /\ Leave(c, "failed")
    /\ UNCHANGED <<disk, last, initialised>>

\* Faulty variant: the error of migrate is not looked at.
FailsUnseen(c) ==
    /\ at[c] = "migrate"
    /\ Goto(c, AfterMigrate(c))
    /\ UNCHANGED <<disk, opened, now, ghosts>>

\* A statement, or a call of the file system, fails: init ends with the error,
\* digest ignores it.
Fails(c) ==
    /\ at[c] \in {"mkdir", "stat", "migrate", "entries", "config"}
    /\ IF result[c] = None
       THEN Leave(c, "failed")
       ELSE Goto(c, "print") /\ UNCHANGED <<opened, now, taken, alone>>
    /\ UNCHANGED <<disk, last, initialised>>

\* The process ends between two steps: what it wrote stays.
Killed(c) ==
    /\ at[c] # "idle"
    /\ Leave(c, "killed")
    /\ UNCHANGED <<disk, last, initialised>>

Step(c) ==
    \/ MkdirAll(c) \/ Stat(c)
    \/ CreateTable(c) \/ Migrated(c) \/ TakeTime(c)
    \/ PutRef(c) \/ PutPatch(c) \/ PutFile(c) \/ PutStamp(c)
    \/ Answer(c) \/ WriteConfig(c)

\* External: the user removes the directory.
Remove ==
    /\ directory /\ removals < MaxRemovals
    /\ removals' = removals + 1
    /\ directory' = FALSE /\ file' = 0 /\ tables' = {} /\ config' = FALSE
    /\ refs' = [k \in Keys |-> None] /\ digests' = {} /\ stamp' = None
    /\ alone' = [c \in Processes |-> alone[c] /\ at[c] = "idle"]
    /\ last' = None /\ initialised' = FALSE
    /\ UNCHANGED <<process, made, clock, calls, outcome, taken>>

Tick ==
    /\ clock < MaxTime
    /\ clock' = clock + 1
    /\ UNCHANGED <<disk, process, calls, removals, outcome, ghosts>>

Next ==
    \/ \E c \in Processes : BeginInit(c) \/ BeginDigest(c) \/ Step(c) \/ Fails(c) \/ Killed(c)
    \/ Remove
    \/ Tick

Spec == Init /\ [][Next]_vars /\ \A c \in Processes : WF_vars(Step(c) \/ Fails(c))

-----------------------------------------------------------------------------
DigestRow == [kind : {"file", "patch"}, path : Paths \cup {None}, digest : Digests]
Steps == {"idle", "mkdir", "stat", "migrate", "clock", "entries", "print", "config"}

DiskTypes ==
    /\ directory \in BOOLEAN /\ config \in BOOLEAN
    /\ file \in 0..made /\ made \in Nat
    /\ tables \subseteq Tables
    /\ refs \in [Keys -> Values \cup {None}]
    /\ digests \subseteq DigestRow
    /\ stamp \in 0..clock \cup {None}

ProcessTypes ==
    /\ at \in [Processes -> Steps]
    /\ result \in [Processes -> Results \cup {None}]
    /\ opened \in [Processes -> 0..made]
    /\ position \in [Processes -> Nat \ {0}]
    /\ now \in [Processes -> 0..clock \cup {None}]
    /\ outcome \in [Processes -> {None, "printed", "created", "failed", "killed"}]
    /\ clock \in 0..MaxTime /\ calls \in 0..MaxCalls /\ removals \in 0..MaxRemovals

GhostTypes ==
    /\ taken \subseteq [result : Results, now : 0..clock]
    /\ alone \in [Processes -> BOOLEAN]
    /\ last \in [result : Results, now : 0..clock] \cup {None}
    /\ initialised \in BOOLEAN

\* Every variable stays in its range.
TypeOK == DiskTypes /\ ProcessTypes /\ GhostTypes

\* cache.go:111 -- the time is written last, and so marks a digest noted in
\* full: whichever command wrote the row digest.lastComputedAt, and however
\* many others ran into it, broke off or lost their file, some result of that
\* second has its patch and all its files in the table.
StampedIsIndexed ==
    stamp # None => \E done \in taken : done.now = stamp /\ DigestRows(done.result) \subseteq digests

\* No statement meets a cache without its table, whatever an init that broke
\* off left behind: a command that has its file open has made it whole.
RowsHaveTheirTable ==
    \A c \in Processes :
        at[c] \in {"clock", "entries", "config"} /\ opened[c] = file => tables = Tables

\* After a digest that ran alone, and until another command begins or the
\* directory is removed, the references and the time are those it computed.
LastIsDescribed ==
    last # None => refs = last.result.refs /\ stamp = last.now

\* README.md:176 -- after an init that reported it, the cache has its tables
\* and its config, over every command that broke off or overlapped.
InitLeavesAWholeCache == initialised => file # 0 /\ tables = Tables /\ config

\* cache.go:79 -- digest makes no cache, also where an init that broke off left
\* the directory for one, unless the one it found was removed.
OnlyInitMakesACache ==
    [][file = 0 /\ file' # 0 =>
          \E c \in Processes : opened'[c] = file' /\ (result[c] = None \/ removals > 0)]_vars

\* docs/ARCHITECTURE.md:80 -- the cache decides nothing: what a digest command
\* computed is printed, also when no row could be written, unless the process
\* is ended.
ComputedIsPrinted ==
    \A c \in Processes : at[c] = "stat" ~> outcome[c] \in {"printed", "killed"}

=============================================================================
