--------------------------- MODULE RegistryProofs ---------------------------
(***************************************************************************)
(* Proofs about Registry, for any number of processes, any statements and  *)
(* paths, and any overlap and break of calls.                              *)
(*                                                                         *)
(* The argument: one insertion adds its reference, removes none, and under *)
(* a path leaves its row as the only one of its key (InsertionIsExact).    *)
(* The invariant then says of each call what it has written so far, and of *)
(* a call alone at its path that what it has written still stands.         *)
(***************************************************************************)
EXTENDS Registry, TLAPS

Adding(c) == at[c] = "adding"

\* A call that is not running has nothing behind it.
Fresh == \A c \in Callers : ~Adding(c) => position[c] = 1 /\ seen[c] = {}

\* What a running call has passed it has written, and can be found.
Written ==
    \A c \in Callers : Adding(c) =>
        /\ \A n \in 1..(position[c] - 1) :
              call[c].statement.subjects[n] # None => call[c].statement.subjects[n] \in seen[c]
        /\ \A digest \in seen[c] : <<digest, call[c].path>> \in References

AddedFound == \A done \in added : ReferencesOf(done) \subseteq References

\* A call that is alone is the only one running at its path, and while any
\* runs there no statement counts as the last one added.
OneAtAPath ==
    \A c \in Callers : Adding(c) =>
        /\ latest[call[c].path] = None
        /\ alone[c] => \A d \in Callers : Adding(d) /\ call[d].path = call[c].path => d = c

Describes(row, statement) == row.repoUrl = statement.repoUrl /\ row.runId = statement.runId

\* The rows a call alone at its path has written describe its statement.
AloneDescribes ==
    \A c \in Callers : Adding(c) /\ alone[c] /\ call[c].path # None =>
        \A row \in Table : row.path = call[c].path /\ row.digest \in seen[c] => Describes(row, call[c].statement)

LatestDescribes ==
    \A p \in Paths \ {None} : latest[p] # None =>
        \A digest \in Digests(latest[p]) :
            /\ <<digest, p>> \in References
            /\ \A row \in Table : row.path = p /\ row.digest = digest => Describes(row, latest[p])

IInv == TypeOK /\ Fresh /\ Written /\ AddedFound /\ OneRowPerReference /\ OneAtAPath /\ AloneDescribes /\ LatestDescribes

-----------------------------------------------------------------------------
\* One insertion: its row is there, its reference is added and none removed,
\* and under a path its row is the only one of its key.
LEMMA InsertionIsExact ==
    ASSUME rows \in [Row -> Nat], NEW STATE row, row \in Row, rows' = InsertOrReplace(row)
    PROVE  /\ rows' \in [Row -> Nat]
           /\ row \in Table'
           /\ \A r \in Table' : r = row \/ r \in Table
           /\ References' = References \cup {<<row.digest, row.path>>}
           /\ row.path # None => \A r \in Table' : SameKey(r, row) => r = row /\ rows'[r] = 1
           /\ \A r \in Row : ~SameKey(r, row) => rows'[r] = rows[r]
<1>1. CASE row.path = None
  <2>1. rows' = [rows EXCEPT ![row] = @ + 1]
    BY <1>1 DEF InsertOrReplace
  <2>2. /\ rows' \in [Row -> Nat] /\ rows'[row] > 0
        /\ \A r \in Row : r # row => rows'[r] = rows[r]
    BY <2>1
  <2>3. Table' = Table \cup {row}
    BY <2>2 DEF Table
  <2>4. References' = References \cup {<<row.digest, row.path>>}
    BY <2>3 DEF References
  <2>. QED
    BY <1>1, <2>2, <2>3, <2>4 DEF SameKey
<1>2. CASE row.path # None
  <2>1. rows' = [r \in Row |-> IF r = row THEN 1 ELSE IF SameKey(r, row) THEN 0 ELSE rows[r]]
    BY <1>2 DEF InsertOrReplace
  <2>2. /\ rows' \in [Row -> Nat] /\ rows'[row] = 1
        /\ \A r \in Row : SameKey(r, row) /\ r # row => rows'[r] = 0
        /\ \A r \in Row : ~SameKey(r, row) => rows'[r] = rows[r]
    BY <2>1 DEF SameKey
  <2>3. row \in Table' /\ \A r \in Table' : r = row \/ r \in Table
    BY <2>2 DEF Table
  <2>4. \A r \in Table : SameKey(r, row) \/ r \in Table'
    BY <2>2 DEF Table
  <2>5. References' = References \cup {<<row.digest, row.path>>}
    BY <2>3, <2>4 DEF References, SameKey
  <2>6. \A r \in Table' : SameKey(r, row) => r = row /\ rows'[r] = 1
    BY <2>2 DEF Table
  <2>. QED
    BY <2>2, <2>3, <2>5, <2>6
<1>. QED
  BY <1>1, <1>2

\* The row a call is about to write is one the table can hold.
LEMMA RowOfIsARow ==
    ASSUME TypeOK, NEW c \in Callers, More(c), Subject(c) # None
    PROVE  RowOf(c) \in Row /\ Subject(c) \in Digests(call[c].statement)
<1>1. call[c] \in Call /\ position[c] \in 1..Len(call[c].statement.subjects)
  BY DEF More, TypeOK
<1>2. position[c] \in DOMAIN call[c].statement.subjects
  BY <1>1, RegistryAssumption DEF Call
<1>3. Subject(c) \in Digests(call[c].statement)
  BY <1>2 DEF Subject, Digests
<1>. QED
  BY <1>1, <1>3 DEF RowOf, Row, AllDigests, Call

-----------------------------------------------------------------------------
(* The invariant, action by action.                                        *)

LEMMA InitEstablishesIInv == Init => IInv
<1>. SUFFICES ASSUME Init PROVE IInv
  OBVIOUS
<1>1. Table = {} /\ References = {}
  BY DEF Init, Table, References
<1>2. TypeOK
  BY RegistryAssumption DEF Init, TypeOK
<1>. QED
  BY <1>1, <1>2 DEF Init, IInv, Fresh, Written, AddedFound, OneRowPerReference, OneAtAPath, AloneDescribes,
     LatestDescribes, Adding

\* The parts that speak of the table alone survive every step that leaves it.
LEMMA BeginKeepsIInv ==
    ASSUME IInv, NEW c \in Callers, NEW statement \in Statements, NEW path \in Paths, Begin(c, statement, path)
    PROVE  IInv'
<1>1. CASE statement = Malformed
  <2>1. UNCHANGED <<rows, at, call, position, seen, added, alone, latest>> /\ calls' \in 0..MaxCalls
    BY <1>1, RegistryAssumption DEF Begin, IInv, TypeOK
  <2>. QED
    BY <2>1 DEF IInv, TypeOK, Fresh, Written, AddedFound, OneRowPerReference, OneAtAPath, AloneDescribes,
       LatestDescribes, Adding, Table, References
<1>2. CASE statement # Malformed
  <2>1. /\ at[c] = "idle" /\ statement \in AllStatements
        /\ at' = [at EXCEPT ![c] = "adding"]
        /\ call' = [call EXCEPT ![c] = [statement |-> statement, path |-> path]]
        /\ alone' = [d \in Callers |-> IF d = c THEN Running(path) = {} ELSE alone[d] /\ d \notin Running(path)]
        /\ latest' = [latest EXCEPT ![path] = None]
        /\ UNCHANGED <<rows, position, seen, added>>
    BY <1>2 DEF Begin, AllStatements
  <2>c. calls' \in 0..MaxCalls
    BY RegistryAssumption DEF Begin, IInv, TypeOK
  <2>2. position[c] = 1 /\ seen[c] = {}
    BY <2>1 DEF IInv, Fresh, Adding
  <2>3. [statement |-> statement, path |-> path] \in Call
    BY <2>1 DEF Call
  <2>4. call' \in [Callers -> Call \cup {NoCall}] /\ call'[c] = [statement |-> statement, path |-> path]
        /\ \A d \in Callers : d # c => call'[d] = call[d] /\ at'[d] = at[d]
    BY <2>1, <2>3 DEF IInv, TypeOK
  <2>5. TypeOK'
    <3>1. 1 \in 1..(Len(statement.subjects) + 1)
      BY <2>1, RegistryAssumption
    <3>2. \A d \in Callers : at'[d] = "adding" =>
            call'[d] \in Call /\ position'[d] \in 1..(Len(call'[d].statement.subjects) + 1)
      BY <2>1, <2>2, <2>3, <2>4, <3>1 DEF IInv, TypeOK
    <3>3. alone' \in [Callers -> BOOLEAN]
      BY <2>1 DEF IInv, TypeOK
    <3>. QED
      BY <2>1, <2>c, <2>4, <3>2, <3>3 DEF IInv, TypeOK
  <2>6. Table' = Table /\ References' = References
    BY <2>1 DEF Table, References
  <2>7. Fresh' /\ Written' /\ AddedFound' /\ OneRowPerReference'
    BY <2>1, <2>2, <2>4, <2>6 DEF IInv, TypeOK, Fresh, Written, AddedFound, OneRowPerReference, Adding
  <2>8. OneAtAPath'
    <3>. SUFFICES ASSUME NEW d \in Callers, at'[d] = "adding"
                  PROVE  /\ latest'[call'[d].path] = None
                         /\ alone'[d] => \A e \in Callers : at'[e] = "adding" /\ call'[e].path = call'[d].path => e = d
      BY DEF OneAtAPath, Adding
    <3>1. CASE d = c
      BY <2>1, <2>4, <3>1 DEF IInv, TypeOK, Running
    <3>2. CASE d # c
      <4>1. at[d] = "adding" /\ call'[d] = call[d] /\ call[d].path \in Paths
        BY <2>4, <3>2 DEF IInv, TypeOK, Call
      <4>2. /\ latest[call[d].path] = None
            /\ alone[d] => \A e \in Callers : at[e] = "adding" /\ call[e].path = call[d].path => e = d
        BY <4>1 DEF IInv, OneAtAPath, Adding
      <4>3. latest'[call'[d].path] = None
        BY <2>1, <4>1, <4>2 DEF IInv, TypeOK
      <4>4. alone'[d] => alone[d] /\ call[d].path # path
        BY <2>1, <3>2, <4>1 DEF Running
      <4>. QED
        BY <2>4, <4>1, <4>2, <4>3, <4>4
    <3>. QED
      BY <3>1, <3>2
  <2>9. AloneDescribes'
    BY <2>1, <2>2, <2>4, <2>6 DEF IInv, TypeOK, AloneDescribes, Adding
  <2>10. LatestDescribes'
    BY <2>1, <2>6 DEF IInv, TypeOK, LatestDescribes
  <2>. QED
    BY <2>5, <2>7, <2>8, <2>9, <2>10 DEF IInv
<1>. QED
  BY <1>1, <1>2

\* A subject skipped is none, or was written before.
LEMMA SkipKeepsIInv ==
    ASSUME IInv, NEW c \in Callers, SkipSubject(c)
    PROVE  IInv'
<1>1. /\ Adding(c) /\ position[c] <= Len(call[c].statement.subjects)
      /\ Subject(c) = None \/ Subject(c) \in seen[c]
      /\ position' = [position EXCEPT ![c] = @ + 1]
      /\ UNCHANGED <<rows, at, call, seen, calls, added, alone, latest>>
  BY DEF SkipSubject, More, Adding, ghosts
<1>2. position'[c] = position[c] + 1 /\ position[c] \in Nat /\ \A d \in Callers : d # c => position'[d] = position[d]
  BY <1>1 DEF IInv, TypeOK
<1>3. call[c] \in Call /\ Len(call[c].statement.subjects) \in Nat
  BY <1>1, RegistryAssumption DEF IInv, TypeOK, Adding, Call
<1>4. TypeOK'
  <2>1. position' \in [Callers -> Nat]
    BY <1>1, <1>2 DEF IInv, TypeOK
  <2>2. \A d \in Callers : at'[d] = "adding" =>
          call'[d] \in Call /\ position'[d] \in 1..(Len(call'[d].statement.subjects) + 1)
    BY <1>1, <1>2, <1>3 DEF IInv, TypeOK, Adding
  <2>. QED
    BY <1>1, <2>1, <2>2 DEF IInv, TypeOK
<1>5. Table' = Table /\ References' = References
  BY <1>1 DEF Table, References
<1>6. Written'
  <2>. SUFFICES ASSUME NEW d \in Callers, at[d] = "adding"
                PROVE  /\ \A n \in 1..(position'[d] - 1) :
                             call[d].statement.subjects[n] # None => call[d].statement.subjects[n] \in seen[d]
                       /\ \A digest \in seen[d] : <<digest, call[d].path>> \in References
    BY <1>1, <1>5 DEF Written, Adding
  <2>1. /\ \A n \in 1..(position[d] - 1) :
              call[d].statement.subjects[n] # None => call[d].statement.subjects[n] \in seen[d]
        /\ \A digest \in seen[d] : <<digest, call[d].path>> \in References
    BY DEF IInv, Written, Adding
  <2>2. CASE d # c
    BY <1>2, <2>1, <2>2
  <2>3. CASE d = c
    <3>1. \A n \in 1..(position'[c] - 1) : n \in 1..(position[c] - 1) \/ n = position[c]
      BY <1>2
    <3>. QED
      BY <1>1, <2>1, <2>3, <3>1 DEF Subject
  <2>. QED
    BY <2>2, <2>3
<1>7. Fresh'
  BY <1>1, <1>2 DEF IInv, Fresh, Adding
<1>. QED
  BY <1>1, <1>4, <1>5, <1>6, <1>7 DEF IInv, AddedFound, OneRowPerReference, OneAtAPath, AloneDescribes,
     LatestDescribes, Adding

\* A row written is found at once; it can stand in the way of no statement
\* that counts as the last one at its path, for none does while a call runs.
LEMMA AddRowKeepsIInv ==
    ASSUME IInv, NEW c \in Callers, AddRow(c)
    PROVE  IInv'
<1>1. /\ Adding(c) /\ More(c) /\ Subject(c) # None
      /\ rows' = InsertOrReplace(RowOf(c))
      /\ seen' = [seen EXCEPT ![c] = @ \cup {Subject(c)}]
      /\ position' = [position EXCEPT ![c] = @ + 1]
      /\ UNCHANGED <<at, call, calls, added, alone, latest>>
  BY DEF AddRow, More, Adding, ghosts
<1>2. RowOf(c) \in Row /\ Subject(c) \in Digests(call[c].statement)
  BY <1>1, RowOfIsARow DEF IInv
<1>3. RowOf(c).digest = Subject(c) /\ RowOf(c).path = call[c].path /\ Describes(RowOf(c), call[c].statement)
  BY DEF RowOf, Describes
<1>4. /\ rows' \in [Row -> Nat]
      /\ \A r \in Table' : r = RowOf(c) \/ r \in Table
      /\ References' = References \cup {<<Subject(c), call[c].path>>}
      /\ call[c].path # None => \A r \in Table' : SameKey(r, RowOf(c)) => r = RowOf(c) /\ rows'[r] = 1
      /\ \A r \in Row : ~SameKey(r, RowOf(c)) => rows'[r] = rows[r]
  BY <1>1, <1>2, <1>3, InsertionIsExact DEF IInv, TypeOK
<1>5. /\ call[c] \in Call /\ position[c] \in Nat /\ Len(call[c].statement.subjects) \in Nat
      /\ position'[c] = position[c] + 1 /\ position[c] <= Len(call[c].statement.subjects)
      /\ seen'[c] = seen[c] \cup {Subject(c)} /\ Subject(c) \in AllDigests
      /\ \A d \in Callers : d # c => position'[d] = position[d] /\ seen'[d] = seen[d]
  <2>1. call[c] \in Call /\ Len(call[c].statement.subjects) \in Nat
    BY <1>1, RegistryAssumption DEF IInv, TypeOK, Adding, Call
  <2>2. Subject(c) \in AllDigests
    BY <1>2, <2>1 DEF Call, AllDigests
  <2>. QED
    BY <1>1, <2>1, <2>2 DEF IInv, TypeOK, More
<1>6. TypeOK'
  <2>1. position' \in [Callers -> Nat] /\ seen' \in [Callers -> SUBSET AllDigests]
    BY <1>1, <1>5 DEF IInv, TypeOK
  <2>2. \A d \in Callers : at'[d] = "adding" =>
          call'[d] \in Call /\ position'[d] \in 1..(Len(call'[d].statement.subjects) + 1)
    BY <1>1, <1>5 DEF IInv, TypeOK, Adding
  <2>. QED
    BY <1>1, <1>4, <2>1, <2>2 DEF IInv, TypeOK
<1>7. Fresh'
  BY <1>1, <1>5 DEF IInv, Fresh, Adding
<1>8. Written'
  <2>. SUFFICES ASSUME NEW d \in Callers, at[d] = "adding"
                PROVE  /\ \A n \in 1..(position'[d] - 1) :
                             call[d].statement.subjects[n] # None => call[d].statement.subjects[n] \in seen'[d]
                       /\ \A digest \in seen'[d] : <<digest, call[d].path>> \in References'
    BY <1>1 DEF Written, Adding
  <2>1. /\ \A n \in 1..(position[d] - 1) :
              call[d].statement.subjects[n] # None => call[d].statement.subjects[n] \in seen[d]
        /\ \A digest \in seen[d] : <<digest, call[d].path>> \in References
    BY DEF IInv, Written, Adding
  <2>2. CASE d # c
    BY <1>4, <1>5, <2>1, <2>2
  <2>3. CASE d = c
    <3>1. \A n \in 1..(position'[c] - 1) : n \in 1..(position[c] - 1) \/ n = position[c]
      BY <1>5
    <3>. QED
      BY <1>4, <1>5, <2>1, <2>3, <3>1 DEF Subject
  <2>. QED
    BY <2>2, <2>3
<1>9. AddedFound'
  BY <1>1, <1>4 DEF IInv, AddedFound, ReferencesOf
<1>10. OneRowPerReference'
  <2>. SUFFICES ASSUME NEW r \in Table', NEW s \in Table', r.path # None, SameKey(r, s)
                PROVE  r = s /\ rows'[r] = 1
    BY DEF OneRowPerReference
  <2>1. CASE SameKey(r, RowOf(c))
    BY <1>3, <1>4, <2>1 DEF SameKey
  <2>2. CASE ~SameKey(r, RowOf(c))
    <3>1. ~SameKey(s, RowOf(c)) /\ r \in Table /\ s \in Table
      BY <1>4, <2>2 DEF SameKey
    <3>. QED
      BY <1>4, <2>2, <3>1 DEF IInv, OneRowPerReference, Table
  <2>. QED
    BY <2>1, <2>2
<1>11. OneAtAPath'
  BY <1>1 DEF IInv, OneAtAPath, Adding
<1>12. AloneDescribes'
  <2>. SUFFICES ASSUME NEW d \in Callers, at[d] = "adding", alone[d], call[d].path # None,
                       NEW r \in Table', r.path = call[d].path, r.digest \in seen'[d]
                PROVE  Describes(r, call[d].statement)
    BY <1>1 DEF AloneDescribes, Adding
  <2>1. CASE r = RowOf(c)
    <3>1. d = c
      BY <1>1, <1>3, <2>1 DEF IInv, OneAtAPath, Adding
    <3>. QED
      BY <1>3, <2>1, <3>1
  <2>2. CASE r # RowOf(c)
    <3>1. r \in Table
      BY <1>4, <2>2
    <3>2. CASE r.digest \in seen[d]
      BY <3>1, <3>2 DEF IInv, AloneDescribes, Adding
    <3>3. CASE r.digest \notin seen[d]
      <4>1. d = c /\ r.digest = Subject(c)
        BY <1>5, <3>3
      <4>. QED
        BY <1>3, <1>4, <2>2, <4>1 DEF SameKey
    <3>. QED
      BY <3>2, <3>3
  <2>. QED
    BY <2>1, <2>2
<1>13. LatestDescribes'
  <2>. SUFFICES ASSUME NEW p \in Paths \ {None}, latest[p] # None, NEW digest \in Digests(latest[p])
                PROVE  /\ <<digest, p>> \in References'
                       /\ \A r \in Table' : r.path = p /\ r.digest = digest => Describes(r, latest[p])
    BY <1>1 DEF LatestDescribes
  <2>1. call[c].path # p
    BY <1>1 DEF IInv, OneAtAPath
  <2>. QED
    BY <1>3, <1>4, <2>1 DEF IInv, LatestDescribes
<1>. QED
  BY <1>6, <1>7, <1>8, <1>9, <1>10, <1>11, <1>12, <1>13 DEF IInv

\* Whatever ends a call, the others and the table are as they were.
LEMMA LeaveFrees ==
    ASSUME IInv, NEW c \in Callers, Leave(c)
    PROVE  /\ \A d \in Callers : at'[d] = "adding" =>
                 /\ d # c /\ at[d] = "adding" /\ call'[d] = call[d] /\ call[d] \in Call
                 /\ position'[d] = position[d] /\ seen'[d] = seen[d] /\ alone'[d] = alone[d]
           /\ Table' = Table /\ References' = References
           /\ (added' \subseteq Call /\ latest' \in [Paths -> AllStatements \cup {None}]) => TypeOK'
           /\ Fresh' /\ Written' /\ OneRowPerReference' /\ AloneDescribes'
<1>1. \A d \in Callers : d # c =>
          /\ at'[d] = at[d] /\ call'[d] = call[d] /\ position'[d] = position[d]
          /\ seen'[d] = seen[d] /\ alone'[d] = alone[d]
  BY DEF Leave, IInv, TypeOK
<1>2. at'[c] = "idle" /\ position'[c] = 1 /\ seen'[c] = {} /\ rows' = rows /\ calls' = calls
  BY DEF Leave, IInv, TypeOK
<1>3. \A d \in Callers : at'[d] = "adding" =>
          /\ d # c /\ at[d] = "adding" /\ call'[d] = call[d] /\ call[d] \in Call
          /\ position'[d] = position[d] /\ seen'[d] = seen[d] /\ alone'[d] = alone[d]
  BY <1>1, <1>2 DEF IInv, TypeOK
<1>4. Table' = Table /\ References' = References
  BY <1>2 DEF Table, References
<1>5. ASSUME added' \subseteq Call, latest' \in [Paths -> AllStatements \cup {None}] PROVE TypeOK'
  <2>1. /\ at' \in [Callers -> {"idle", "adding"}] /\ call' \in [Callers -> Call \cup {NoCall}]
        /\ position' \in [Callers -> Nat] /\ seen' \in [Callers -> SUBSET AllDigests]
        /\ alone' \in [Callers -> BOOLEAN]
    BY DEF Leave, IInv, TypeOK
  <2>2. \A d \in Callers : at'[d] = "adding" =>
          call'[d] \in Call /\ position'[d] \in 1..(Len(call'[d].statement.subjects) + 1)
    BY <1>3 DEF IInv, TypeOK
  <2>. QED
    BY <1>2, <1>5, <2>1, <2>2 DEF IInv, TypeOK
<1>6. Fresh'
  BY <1>1, <1>2 DEF IInv, Fresh, Adding
<1>7. Written'
  BY <1>3, <1>4 DEF IInv, Written, Adding
<1>8. OneRowPerReference'
  BY <1>2, <1>4 DEF IInv, OneRowPerReference
<1>9. AloneDescribes'
  BY <1>3, <1>4 DEF IInv, AloneDescribes, Adding
<1>. QED
  BY <1>3, <1>4, <1>5, <1>6, <1>7, <1>8, <1>9

LEMMA CutShortKeepsIInv ==
    ASSUME IInv, NEW c \in Callers, CutShort(c)
    PROVE  IInv'
<1>1. Leave(c) /\ UNCHANGED <<added, latest>>
  BY DEF CutShort
<1>2. TypeOK'
  BY <1>1, LeaveFrees DEF IInv, TypeOK
<1>3. AddedFound' /\ OneAtAPath' /\ LatestDescribes'
  BY <1>1, LeaveFrees DEF IInv, AddedFound, OneAtAPath, LatestDescribes, Adding
<1>. QED
  BY <1>1, <1>2, <1>3, LeaveFrees DEF IInv

\* A call that returns has passed every subject, so each of them is found.
LEMMA ReturningIsComplete ==
    ASSUME IInv, NEW c \in Callers, Return(c)
    PROVE  /\ call[c] \in Call
           /\ Digests(call[c].statement) \subseteq seen[c]
           /\ ReferencesOf(call[c]) \subseteq References
<1>1. at[c] = "adding" /\ ~More(c)
  BY DEF Return, Leave
<1>2. /\ call[c] \in Call /\ call[c].statement \in AllStatements
      /\ position[c] = Len(call[c].statement.subjects) + 1
  <2>1. call[c] \in Call /\ position[c] \in 1..(Len(call[c].statement.subjects) + 1)
    BY <1>1 DEF IInv, TypeOK
  <2>2. call[c].statement \in AllStatements /\ Len(call[c].statement.subjects) \in Nat
    BY <2>1, RegistryAssumption DEF Call
  <2>. QED
    BY <1>1, <2>1, <2>2 DEF More
<1>3. Digests(call[c].statement) \subseteq seen[c]
  <2>. SUFFICES ASSUME NEW n \in DOMAIN call[c].statement.subjects, call[c].statement.subjects[n] # None
                PROVE  call[c].statement.subjects[n] \in seen[c]
    BY DEF Digests
  <2>1. n \in 1..(position[c] - 1)
    BY <1>2, RegistryAssumption
  <2>. QED
    BY <1>1, <2>1 DEF IInv, Written, Adding
<1>. QED
  BY <1>1, <1>2, <1>3 DEF IInv, Written, Adding, ReferencesOf

LEMMA ReturnKeepsIInv ==
    ASSUME IInv, NEW c \in Callers, Return(c)
    PROVE  IInv'
<1>1. /\ Leave(c) /\ at[c] = "adding" /\ added' = added \cup {call[c]}
      /\ latest' = [latest EXCEPT ![call[c].path] = IF alone[c] THEN call[c].statement ELSE None]
  BY DEF Return, Leave
<1>2. call[c].path \in Paths /\ call[c].statement \in AllStatements
  BY ReturningIsComplete DEF Call
<1>3. TypeOK'
  <2>1. added' \subseteq Call
    BY <1>1, ReturningIsComplete DEF IInv, TypeOK
  <2>2. latest' \in [Paths -> AllStatements \cup {None}]
    BY <1>1, <1>2 DEF IInv, TypeOK
  <2>. QED
    BY <1>1, <2>1, <2>2, LeaveFrees
<1>4. AddedFound'
  BY <1>1, LeaveFrees, ReturningIsComplete DEF IInv, AddedFound
<1>5. OneAtAPath'
  <2>. SUFFICES ASSUME NEW d \in Callers, at'[d] = "adding"
                PROVE  /\ latest'[call'[d].path] = None
                       /\ alone'[d] => \A e \in Callers : at'[e] = "adding" /\ call'[e].path = call'[d].path => e = d
    BY DEF OneAtAPath, Adding
  <2>1. d # c /\ at[d] = "adding" /\ call'[d] = call[d] /\ call[d].path \in Paths /\ alone'[d] = alone[d]
    BY <1>1, LeaveFrees DEF Call
  <2>2. latest[call[d].path] = None
    BY <2>1 DEF IInv, OneAtAPath, Adding
  <2>3. latest'[call[d].path] = None
    <3>1. CASE call[d].path = call[c].path
      <4>1. ~alone[c]
        BY <1>1, <2>1, <3>1 DEF IInv, OneAtAPath, Adding
      <4>. QED
        BY <1>1, <2>1, <3>1, <4>1 DEF IInv, TypeOK
    <3>2. CASE call[d].path # call[c].path
      BY <1>1, <2>1, <2>2, <3>2 DEF IInv, TypeOK
    <3>. QED
      BY <3>1, <3>2
  <2>4. alone[d] => \A e \in Callers : at'[e] = "adding" /\ call'[e].path = call[d].path => e = d
    BY <1>1, <2>1, LeaveFrees DEF IInv, OneAtAPath, Adding
  <2>. QED
    BY <2>1, <2>3, <2>4
<1>6. LatestDescribes'
  <2>. SUFFICES ASSUME NEW p \in Paths \ {None}, latest'[p] # None, NEW digest \in Digests(latest'[p])
                PROVE  /\ <<digest, p>> \in References
                       /\ \A r \in Table : r.path = p /\ r.digest = digest => Describes(r, latest'[p])
    BY <1>1, LeaveFrees DEF LatestDescribes
  <2>1. CASE p = call[c].path
    <3>1. alone[c] /\ latest'[p] = call[c].statement
      BY <1>1, <2>1 DEF IInv, TypeOK
    <3>2. digest \in seen[c] /\ <<digest, p>> \in ReferencesOf(call[c])
      BY <2>1, <3>1, ReturningIsComplete DEF ReferencesOf
    <3>. QED
      BY <1>1, <2>1, <3>1, <3>2, ReturningIsComplete DEF IInv, AloneDescribes, Adding
  <2>2. CASE p # call[c].path
    <3>1. latest'[p] = latest[p]
      BY <1>1, <2>2 DEF IInv, TypeOK
    <3>. QED
      BY <3>1 DEF IInv, LatestDescribes
  <2>. QED
    BY <2>1, <2>2
<1>. QED
  BY <1>1, <1>3, <1>4, <1>5, <1>6, LeaveFrees DEF IInv

LEMMA IInvInductive == IInv /\ [Next]_vars => IInv'
<1>. SUFFICES ASSUME IInv, [Next]_vars PROVE IInv'
  OBVIOUS
<1>1. CASE UNCHANGED vars
  BY <1>1 DEF vars, ghosts, IInv, TypeOK, Fresh, Written, AddedFound, OneRowPerReference, OneAtAPath, AloneDescribes,
     LatestDescribes, Adding, Table, References
<1>. QED
  BY <1>1, BeginKeepsIInv, SkipKeepsIInv, AddRowKeepsIInv, CutShortKeepsIInv, ReturnKeepsIInv DEF Next, Step

LEMMA IInvInvariant == Spec => []IInv
BY InitEstablishesIInv, IInvInductive, PTL DEF Spec

-----------------------------------------------------------------------------
\* Every variable of the registry keeps its type (registry.go:80-115).
THEOREM TypeCorrect == Spec => []TypeOK
<1>1. IInv => TypeOK
  BY DEF IInv
<1>. QED
  BY <1>1, IInvInvariant, PTL

\* What Add reported as indexed is found by each subject (registry.go:4-5).
THEOREM AdditionsAreFound == Spec => []AddedIsFound
<1>1. IInv => AddedIsFound
  <2>. SUFFICES ASSUME IInv, NEW done \in added, NEW digest \in Digests(done.statement)
                PROVE  \E row \in BySubject(digest) : row.path = done.path
    BY DEF AddedIsFound
  <2>1. <<digest, done.path>> \in References
    BY DEF IInv, AddedFound, ReferencesOf
  <2>. QED
    BY <2>1 DEF References, BySubject
<1>. QED
  BY <1>1, IInvInvariant, PTL

\* Under a path, repeating or overlapping calls doubles nothing
\* (registry.go:79).
THEOREM AddIsIdempotent == Spec => []OneRowPerReference
<1>1. IInv => OneRowPerReference
  BY DEF IInv
<1>. QED
  BY <1>1, IInvInvariant, PTL

\* The rows of the statement last added at a path describe that statement
\* (registry.go:107-110).
THEOREM TheLastAdditionIsDescribed == Spec => []LatestIsDescribed
<1>1. IInv => LatestIsDescribed
  <2>. SUFFICES ASSUME IInv, NEW p \in Paths \ {None}, latest[p] # None, NEW digest \in Digests(latest[p])
                PROVE  /\ \A row \in BySubject(digest) : row.path = p => row.repoUrl = latest[p].repoUrl
                       /\ \E row \in BySubject(digest) :
                             /\ row.path = p
                             /\ latest[p].runId # None => row \in ByRunID(latest[p].runId)
                             /\ latest[p].repoUrl # None => row \in ByRepo(latest[p].repoUrl)
    BY DEF LatestIsDescribed
  <2>1. /\ <<digest, p>> \in References
        /\ \A row \in Table : row.path = p /\ row.digest = digest => Describes(row, latest[p])
    BY DEF IInv, LatestDescribes
  <2>2. PICK row \in Table : row.digest = digest /\ row.path = p
    BY <2>1 DEF References
  <2>. QED
    BY <2>1, <2>2 DEF BySubject, ByRunID, ByRepo, Describes
<1>. QED
  BY <1>1, IInvInvariant, PTL

\* The table implements the index: references only ever join it, and an
\* addition is reported once all of its own are there.
THEOREM RegistryImplementsIndex == Spec => Index!Spec
<1>1. Init => Index!Init
  BY DEF Init, Index!Init, References, Table
<1>2. IInv /\ [Next]_vars => [Index!Next]_(Index!indexVars)
  <2>. SUFFICES ASSUME IInv, [Next]_vars PROVE [Index!Next]_(Index!indexVars)
    OBVIOUS
  <2>1. ASSUME rows' = rows, added' = added PROVE UNCHANGED Index!indexVars
    BY <2>1 DEF Index!indexVars, References, Table
  <2>2. ASSUME NEW c \in Callers, AddRow(c) PROVE Index!Next
    <3>1. RowOf(c) \in Row /\ Subject(c) \in Digests(call[c].statement) /\ call[c] \in Call
      BY <2>2, RowOfIsARow DEF IInv, TypeOK, AddRow, More
    <3>2. References' = References \cup {<<Subject(c), call[c].path>>}
      BY <2>2, <3>1, InsertionIsExact DEF IInv, TypeOK, AddRow, RowOf
    <3>3. {<<Subject(c), call[c].path>>} \in SUBSET ReferencesOf(call[c])
      BY <3>1 DEF ReferencesOf
    <3>4. Index!Index(call[c])
      BY <2>2, <3>2, <3>3 DEF Index!Index, AddRow, ghosts
    <3>. QED
      BY <3>1, <3>4 DEF Index!Next
  <2>3. ASSUME NEW c \in Callers, Return(c) PROVE Index!Next
    <3>1. Index!Report(call[c])
      BY <2>3, ReturningIsComplete DEF Index!Report, Return, Leave, References, Table
    <3>. QED
      BY <2>3, <3>1, ReturningIsComplete DEF Index!Next
  <2>. QED
    BY <2>1, <2>2, <2>3 DEF Next, Step, Begin, SkipSubject, CutShort, Leave, ghosts, vars
<1>. QED
  BY <1>1, <1>2, IInvInvariant, PTL DEF Spec, Index!Spec

=============================================================================
