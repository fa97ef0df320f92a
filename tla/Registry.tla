------------------------------ MODULE Registry ------------------------------
(***************************************************************************)
(* internal/registry: a table of references from subject digest,           *)
(* repository and run to the path of a statement.  Add writes one row per  *)
(* digest, each an SQLite statement, hence a transaction, of its own;      *)
(* several processes share the file, and a call may be cut short between   *)
(* two rows by an error, a cancelled context or the end of its process.    *)
(* A statement is [subjects, repoUrl, runId]: subjects the sequence of its *)
(* sha256 digests, None for a subject without one, and None for a URL or a *)
(* run id that is absent or empty: Add stores either as NULL.  The time of *)
(* indexing, which only orders the answers of a query, is left out.        *)
(***************************************************************************)
EXTENDS Naturals, Sequences

CONSTANTS
    Callers,      \* processes with the registry open
    Statements,   \* what they add, Malformed among it
    Paths,        \* statement references, None for the empty one
    None, Malformed,
    MaxCalls      \* bound: calls of Add

AllStatements == Statements \ {Malformed}
Digests(statement) == {statement.subjects[n] : n \in DOMAIN statement.subjects} \ {None}
AllDigests == UNION {Digests(s) : s \in AllStatements}

ASSUME RegistryAssumption ==
    /\ MaxCalls \in Nat
    /\ None \notin AllStatements
    /\ \A s \in AllStatements : s.subjects \in Seq(AllDigests \cup {None})

Call == [statement : AllStatements, path : Paths]
Row == [digest : AllDigests, path : Paths,
        repoUrl : {s.repoUrl : s \in AllStatements}, runId : {s.runId : s \in AllStatements}]

VARIABLES
    rows,      \* the table: how often it holds each row
    at,        \* where each call is
    call,      \* the arguments of each call, [statement, path]
    position,  \* the next subject of its loop
    seen,      \* the digests it has written
    calls,
    added,     \* ghost: the calls that returned without an error
    alone,     \* ghost: no other call for the path while this one ran
    latest     \* ghost: the statement last added at a path by a call alone,
               \* None when another call touched the path since

vars == <<rows, at, call, position, seen, calls, added, alone, latest>>
ghosts == <<added, alone, latest>>

NoCall == [statement |-> None, path |-> None]

\* migrate: an empty table, unless the file has one.
Init ==
    /\ rows = [row \in Row |-> 0]
    /\ at = [c \in Callers |-> "idle"]
    /\ call = [c \in Callers |-> NoCall]
    /\ position = [c \in Callers |-> 1]
    /\ seen = [c \in Callers |-> {}]
    /\ calls = 0
    /\ added = {}
    /\ alone = [c \in Callers |-> TRUE]
    /\ latest = [p \in Paths |-> None]

Running(p) == {c \in Callers : at[c] = "adding" /\ call[c].path = p}

\* Faulty variant: the error of the decoder is not looked at.
BeginUndecoded(c, statement, path) ==
    /\ at[c] = "idle"
    /\ calls < MaxCalls
    /\ calls' = calls + 1
    /\ at' = [at EXCEPT ![c] = "adding"]
    /\ call' = [call EXCEPT ![c] = [statement |-> statement, path |-> path]]
    /\ alone' = [d \in Callers |-> IF d = c THEN Running(path) = {} ELSE alone[d] /\ d \notin Running(path)]
    /\ latest' = [latest EXCEPT ![path] = None]
    /\ UNCHANGED <<rows, position, seen, added>>

\* Add: decode the statement, then loop over its subjects.
Begin(c, statement, path) ==
    /\ at[c] = "idle"
    /\ calls < MaxCalls
    /\ calls' = calls + 1
    /\ IF statement = Malformed
       THEN UNCHANGED <<at, call, alone, latest>>
       ELSE /\ at' = [at EXCEPT ![c] = "adding"]
            /\ call' = [call EXCEPT ![c] = [statement |-> statement, path |-> path]]
            /\ alone' = [d \in Callers |-> IF d = c THEN Running(path) = {}
                                           ELSE alone[d] /\ d \notin Running(path)]
            /\ latest' = [latest EXCEPT ![path] = None]
    /\ UNCHANGED <<rows, position, seen, added>>

SameKey(r, s) == r.digest = s.digest /\ r.path = s.path

\* Faulty variant: a row that is there stays.
InsertOrIgnore(row) ==
    IF \E r \in Row : rows[r] > 0 /\ SameKey(r, row) THEN rows ELSE [rows EXCEPT ![row] = @ + 1]

\* Faulty variant: nothing is replaced.
InsertOnly(row) == [rows EXCEPT ![row] = @ + 1]

\* Faulty variant: the path alone is the key.
InsertUnderPath(row) ==
    [r \in Row |-> IF r = row THEN 1 ELSE IF r.path = row.path THEN 0 ELSE rows[r]]

\* insert or replace under the key (subject_digest, statement_path): SQLite
\* takes two NULLs in a key for different, and nullable makes "" a NULL.
InsertOrReplace(row) ==
    IF row.path = None
    THEN [rows EXCEPT ![row] = @ + 1]
    ELSE [r \in Row |-> IF r = row THEN 1 ELSE IF SameKey(r, row) THEN 0 ELSE rows[r]]

Subject(c) == call[c].statement.subjects[position[c]]
RowOf(c) == [digest |-> Subject(c), path |-> call[c].path,
             repoUrl |-> call[c].statement.repoUrl, runId |-> call[c].statement.runId]
More(c) == at[c] = "adding" /\ position[c] <= Len(call[c].statement.subjects)

\* Faulty variant: a subject without a sha256 digest ends the loop.
SkipRest(c) ==
    /\ More(c)
    /\ Subject(c) = None \/ Subject(c) \in seen[c]
    /\ position' = [position EXCEPT ![c] = Len(call[c].statement.subjects) + 1]
    /\ UNCHANGED <<rows, at, call, seen, calls, ghosts>>

\* Faulty variant: the loop stays at a subject it skips.
SkipForever(c) ==
    /\ More(c)
    /\ Subject(c) = None \/ Subject(c) \in seen[c]
    /\ UNCHANGED vars

SkipSubject(c) ==
    /\ More(c)
    /\ Subject(c) = None \/ Subject(c) \in seen[c]
    /\ position' = [position EXCEPT ![c] = @ + 1]
    /\ UNCHANGED <<rows, at, call, seen, calls, ghosts>>

AddRow(c) ==
    /\ More(c)
    /\ Subject(c) # None /\ Subject(c) \notin seen[c]
    /\ rows' = InsertOrReplace(RowOf(c))
    /\ seen' = [seen EXCEPT ![c] = @ \cup {Subject(c)}]
    /\ position' = [position EXCEPT ![c] = @ + 1]
    /\ UNCHANGED <<at, call, calls, ghosts>>

\* The variables of a call are gone with it.
Leave(c) ==
    /\ at[c] = "adding"
    /\ at' = [at EXCEPT ![c] = "idle"]
    /\ call' = [call EXCEPT ![c] = NoCall]
    /\ position' = [position EXCEPT ![c] = 1]
    /\ seen' = [seen EXCEPT ![c] = {}]
    /\ alone' = [alone EXCEPT ![c] = TRUE]
    /\ UNCHANGED <<rows, calls>>

\* The call ends in an error, or its process does: the rows written stay.
CutShort(c) == Leave(c) /\ UNCHANGED <<added, latest>>

Return(c) ==
    /\ Leave(c)
    /\ ~More(c)
    /\ added' = added \cup {call[c]}
    /\ latest' = [latest EXCEPT ![call[c].path] = IF alone[c] THEN call[c].statement ELSE None]

Step(c) == SkipSubject(c) \/ AddRow(c) \/ Return(c)

Next ==
    \E c \in Callers :
        \/ \E statement \in Statements : \E path \in Paths : Begin(c, statement, path)
        \/ Step(c)
        \/ CutShort(c)

Spec == Init /\ [][Next]_vars /\ \A c \in Callers : WF_vars(Step(c))

-----------------------------------------------------------------------------
\* query: one select, hence one state of the table.  Nothing equals a NULL, so
\* the empty text finds no row.
Table == {row \in Row : rows[row] > 0}
BySubject(digest) == {row \in Table : row.digest = digest}
ByRepo(url) == {row \in Table : url # None /\ row.repoUrl = url}
ByRunID(run) == {row \in Table : run # None /\ row.runId = run}

\* Every variable stays in its range; a call that runs has a statement that
\* decoded.
TypeOK ==
    /\ rows \in [Row -> Nat]
    /\ at \in [Callers -> {"idle", "adding"}]
    /\ call \in [Callers -> Call \cup {NoCall}]
    /\ position \in [Callers -> Nat]
    /\ seen \in [Callers -> SUBSET AllDigests]
    /\ \A c \in Callers : at[c] = "adding" =>
          call[c] \in Call /\ position[c] \in 1..(Len(call[c].statement.subjects) + 1)
    /\ calls \in 0..MaxCalls
    /\ added \subseteq Call
    /\ alone \in [Callers -> BOOLEAN]
    /\ latest \in [Paths -> AllStatements \cup {None}]

\* registry.go:4-5 -- a statement that was added can be found by each of its
\* subjects, however many calls ran, overlapped or broke off since.
AddedIsFound ==
    \A done \in added : \A digest \in Digests(done.statement) :
        \E row \in BySubject(digest) : row.path = done.path

\* registry.go:79 -- Add is idempotent, for statements that have a path: no
\* subject refers to a path twice, after any repetition or overlap of calls.
OneRowPerReference ==
    \A r, s \in Table : r.path # None /\ SameKey(r, s) => r = s /\ rows[r] = 1

\* What the index says of the statement last added at a path is that
\* statement's: each of its subjects is listed with its repository and its
\* run, and both, where it has them, lead back to the path, also when another
\* statement has the same run, unless calls for the path overlapped or broke
\* off.
LatestIsDescribed ==
    \A p \in Paths \ {None} :
        latest[p] # None =>
            \A digest \in Digests(latest[p]) :
                /\ \A row \in BySubject(digest) : row.path = p => row.repoUrl = latest[p].repoUrl
                /\ \E row \in BySubject(digest) :
                      /\ row.path = p
                      /\ latest[p].runId # None => row \in ByRunID(latest[p].runId)
                      /\ latest[p].repoUrl # None => row \in ByRepo(latest[p].repoUrl)

\* The table implements the index of references.
ReferencesOf(done) == Digests(done.statement) \X {done.path}
References == {<<row.digest, row.path>> : row \in Table}
Index == INSTANCE ReferenceIndex WITH Calls <- Call, references <- References
IndexSpec == Index!Spec

\* A call ends.
CallsEnd == \A c \in Callers : at[c] = "adding" ~> at[c] = "idle"

=============================================================================
