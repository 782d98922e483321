-------------------------- MODULE ExecutionProofs --------------------------
(* Proofs about the parts of Execution: the table of the debugged files        *)
(* (DebugFiles), for every number of names and every size of the table; the    *)
(* branches (Branches), for every size of words and offsets; the trace         *)
(* (Trace), for every place, address, flag and nesting of calls; what          *)
(* instructions compute (Alu) and transfer (Transfers), for every width of     *)
(* words, memory and list of registers; and the fields of words (BitFields),   *)
(* for every number of bits of a byte.                                         *)
EXTENDS Execution, WordsProofs, FiniteSetTheorems, SequenceTheorems, TLAPS

-----------------------------------------------------------------------------
(* The table of the debugged files stays sorted and the search in it decides  *)
(* membership.                                                                *)

\* The names that the table holds.
Held == {debugged_files[i] : i \in 0..LastIndex}

\* What a cached result says of a file is what the table says.
CacheTrue == ~overrun => \A f \in Names :
               is_debugged_result[f] # "first" =>
                 (is_debugged_result[f] = "yes" <=> f \in Held)

\* What the last statement said is what the table says.
SaysHeld == said # Quiet /\ ~overrun => (said.printed <=> said.file \in Held)

\* Nothing is cached, searched or said before the options end.
QuietFirst == phase = "options" =>
                /\ search = Idle /\ said = Quiet
                /\ is_debugged_result = [f \in Names |-> "first"]

\* A search is one of a table whose names are all inside, and has not passed the
\* name it looks for.
Ahead == search # Idle =>
           /\ ~overrun
           /\ \A i \in 0..LastIndex :
                debugged_files[i] = search.name => search.from <= i /\ i <= search.to

\* The cells in use are all set.
Filled == \A i \in 0..LastIndex : debugged_files[i] \in Names

\* The inductive invariant.
Inv == /\ TypeOK /\ Filled /\ Sorted /\ NothingLost /\ SaysHeld
       /\ CacheTrue /\ QuietFirst /\ Ahead

\* No cell is searched before the first step.
LEMMA InitInv == Init => Inv
<1> SUFFICES ASSUME Init PROVE Inv
  OBVIOUS
<1>1. nb_debugged_files = 0 /\ LastIndex = -1 /\ 0..LastIndex = {}
  BY DebugAssumption DEF Init, LastIndex
<1>2. TypeOK
  <2>1. debugged_files \in [0..(Limit - 1) -> Names \union {NULL}]
    BY DEF Init
  <2>2. nb_debugged_files \in 0..Limit
    BY <1>1, DebugAssumption
  <2>. QED
    BY <2>1, <2>2 DEF Init, TypeOK
<1>3. NothingLost
  BY <1>1 DEF Init, NothingLost
<1>. QED
  BY <1>1, <1>2, <1>3 DEF Init, Inv, Filled, Sorted, SaysHeld, CacheTrue, QuietFirst, Ahead

\* What is proved does not change with the variables it does not mention.
LEMMA TableInv ==
  ASSUME Inv, UNCHANGED <<table, given>>
  PROVE  Filled' /\ Sorted' /\ NothingLost' /\ UNCHANGED <<Held, LastIndex>>
BY DEF Inv, Filled, Sorted, NothingLost, table, Held, LastIndex, LeftOut

\* Idle is not a search in progress: its name is no name.
LEMMA SearchType ==
  ASSUME TypeOK, search # Idle
  PROVE  /\ search \in [name : Names, from : 0..Limit, to : -1..LastIndex]
         /\ search.name \in Names /\ search.name # NULL
         /\ search.from \in Int /\ search.to \in Int
         /\ nb_debugged_files \in Nat
BY DebugAssumption DEF TypeOK, LastIndex

\* A name put at its place in the table keeps the order, the names and the bounds.
LEMMA InsertedInv ==
  ASSUME Inv, ~overrun, NEW name \in Names, NEW i \in 0..nb_debugged_files, IsPlace(i, name),
         nb_debugged_files < Limit,
         debugged_files' = Inserted(i, name), nb_debugged_files' = nb_debugged_files + 1
  PROVE  /\ debugged_files' \in [0..(Limit - 1) -> Names \union {NULL}]
         /\ Filled' /\ Sorted' /\ Held' = Held \union {name}
<1>. USE DebugAssumption
<1>. DEFINE n == nb_debugged_files
<1>1. n \in Nat /\ n < Limit /\ LastIndex = n - 1 /\ LastIndex' = n
  BY DEF Inv, TypeOK, LastIndex
<1>2. \A j \in 0..(Limit - 1) : debugged_files'[j] =
        IF j < i \/ j > n THEN debugged_files[j]
        ELSE IF j = i THEN name ELSE debugged_files[j - 1]
  BY DEF Inserted
<1>3. /\ name \in Int
      /\ \A j \in 0..(n - 1) : debugged_files[j] \in Names /\ debugged_files[j] \in Int
  <2>1. \A j \in 0..(n - 1) : debugged_files[j] \in Names
    BY <1>1 DEF Inv, Filled
  <2>. QED
    BY <2>1
<1>4. debugged_files' \in [0..(Limit - 1) -> Names \union {NULL}]
  BY <1>1 DEF Inserted, Inv, TypeOK
<1>5. Filled'
  BY <1>1, <1>2, <1>3 DEF Filled
<1>6. Sorted'
  <2>1. \A j \in 0..(i - 1) : debugged_files[j] < name
    BY <1>1, <1>3 DEF IsPlace, Stops
  <2>2. i < n => debugged_files[i] >= name
    BY <1>1 DEF IsPlace, Stops
  <2>3. \A j, k \in 0..(n - 1) : j < k => debugged_files[j] <= debugged_files[k]
    BY <1>1 DEF Inv, Sorted
  <2>4. \A j \in i..(n - 1) : debugged_files[j] >= name
    <3>. SUFFICES ASSUME NEW j \in i..(n - 1) PROVE debugged_files[j] >= name
      OBVIOUS
    <3>1. i < n /\ i \in 0..(n - 1) /\ j \in 0..(n - 1)
      BY <1>1
    <3>2. CASE j = i
      BY <3>1, <3>2, <2>2
    <3>3. CASE j > i
      BY <3>1, <3>3, <2>2, <2>3, <1>3
    <3>. QED
      BY <3>2, <3>3, <3>1, <1>1
  <2>5. SUFFICES ASSUME NEW j \in 0..n, NEW k \in 0..n, j < k
                 PROVE  debugged_files'[j] <= debugged_files'[k]
    BY <1>1 DEF Sorted
  <2>6. j \in 0..(Limit - 1) /\ k \in 0..(Limit - 1)
    BY <1>1
  <2>7. CASE k < i
    BY <2>7, <2>3, <2>5, <2>6, <1>2, <1>1
  <2>8. CASE k = i
    BY <2>8, <2>1, <2>5, <2>6, <1>2, <1>3, <1>1
  <2>9. CASE k > i /\ j < i
    BY <2>9, <2>3, <2>5, <2>6, <1>2, <1>1
  <2>10. CASE k > i /\ j = i
    BY <2>10, <2>4, <2>5, <2>6, <1>2, <1>3, <1>1
  <2>11. CASE k > i /\ j > i
    BY <2>11, <2>3, <2>5, <2>6, <1>2, <1>1
  <2>. QED
    BY <2>7, <2>8, <2>9, <2>10, <2>11, <2>5, <1>1
<1>7. \A x \in Held \union {name} : \E j \in 0..n : debugged_files'[j] = x
  <2>. SUFFICES ASSUME NEW x \in Held \union {name}
                PROVE  \E j \in 0..n : debugged_files'[j] = x
    OBVIOUS
  <2>1. CASE x = name
    BY <2>1, <1>2, <1>1
  <2>2. CASE x \in Held
    <3>1. PICK j \in 0..(n - 1) : debugged_files[j] = x
      BY <2>2, <1>1 DEF Held
    <3>2. CASE j < i
      BY <3>1, <3>2, <1>2, <1>1
    <3>3. CASE j >= i
      <4>1. j + 1 \in 0..n /\ j + 1 \in 0..(Limit - 1) /\ ~(j + 1 < i) /\ j + 1 # i
            /\ ~(j + 1 > n) /\ (j + 1) - 1 = j
        BY <3>3, <1>1
      <4>. QED
        BY <4>1, <3>1, <1>2
    <3>. QED
      BY <3>2, <3>3, <1>1
  <2>. QED
    BY <2>1, <2>2
<1>8. \A j \in 0..n : debugged_files'[j] \in Held \union {name}
  <2>. SUFFICES ASSUME NEW j \in 0..n PROVE debugged_files'[j] \in Held \union {name}
    OBVIOUS
  <2>1. CASE j < i
    BY <2>1, <1>2, <1>1 DEF Held
  <2>2. CASE j = i
    BY <2>2, <1>2, <1>1
  <2>3. CASE j > i
    <3>1. j - 1 \in 0..(n - 1) /\ j \in 0..(Limit - 1) /\ ~(j < i) /\ ~(j > n) /\ j # i
      BY <2>3, <1>1
    <3>. QED
      BY <3>1, <1>2, <1>1 DEF Held
  <2>. QED
    BY <2>1, <2>2, <2>3, <1>1
<1>9. Held' = {debugged_files'[j] : j \in 0..n}
  BY <1>1 DEF Held
<1>. QED
  BY <1>4, <1>5, <1>6, <1>7, <1>8, <1>9

\* An option keeps the table sorted and complete, leaves a name out of the full
\* table, or writes past its end.
LEMMA AddInv ==
  ASSUME Inv, NEW name \in Names, add_debug_to(name)
  PROVE  Inv'
<1>. USE DebugAssumption
<1>1. /\ phase = "options" /\ given' = given \union {name}
      /\ UNCHANGED <<phase, caching, is_debugged_result, search, said>>
  BY DEF add_debug_to, statement
<1>2. /\ search = Idle /\ said = Quiet
      /\ is_debugged_result = [f \in Names |-> "first"]
  BY <1>1 DEF Inv, QuietFirst
<1>3. nb_debugged_files \in 0..Limit /\ LastIndex = nb_debugged_files - 1
  BY DEF Inv, TypeOK, LastIndex
<1>4. SaysHeld' /\ CacheTrue' /\ QuietFirst' /\ Ahead'
  BY <1>1, <1>2 DEF SaysHeld, CacheTrue, QuietFirst, Ahead
<1>5. ASSUME UNCHANGED <<debugged_files, nb_debugged_files>>, overrun' \in BOOLEAN
      PROVE  TypeOK' /\ Filled' /\ Sorted'
  BY <1>1, <1>2, <1>5 DEF Inv, TypeOK, Filled, Sorted, LastIndex
<1>6. CASE overrun /\ UNCHANGED table
  <2>1. overrun' /\ UNCHANGED <<debugged_files, nb_debugged_files>>
    BY <1>6 DEF table
  <2>2. TypeOK' /\ Filled' /\ Sorted'
    BY <2>1, <1>5, <1>6 DEF table, Inv, TypeOK
  <2>. QED
    BY <2>1, <2>2, <1>4 DEF Inv, NothingLost
<1>7. CASE /\ ~overrun
           /\ \E i \in 0..nb_debugged_files :
                /\ IsPlace(i, name)
                /\ \/ i >= Limit /\ UNCHANGED table
                   \/ /\ i < Limit /\ nb_debugged_files = Limit
                      /\ overrun' = TRUE
                      /\ UNCHANGED <<debugged_files, nb_debugged_files>>
                   \/ /\ nb_debugged_files < Limit
                      /\ debugged_files' = Inserted(i, name)
                      /\ nb_debugged_files' = nb_debugged_files + 1
                      /\ UNCHANGED overrun
  <2>1. PICK i \in 0..nb_debugged_files :
          /\ IsPlace(i, name)
          /\ \/ i >= Limit /\ UNCHANGED table
             \/ /\ i < Limit /\ nb_debugged_files = Limit
                /\ overrun' = TRUE
                /\ UNCHANGED <<debugged_files, nb_debugged_files>>
             \/ /\ nb_debugged_files < Limit
                /\ debugged_files' = Inserted(i, name)
                /\ nb_debugged_files' = nb_debugged_files + 1
                /\ UNCHANGED overrun
    BY <1>7
  <2>2. Held = {f \in given : ~LeftOut(f)}
    BY <1>7 DEF Inv, NothingLost, Held
  <2>3. CASE i >= Limit /\ UNCHANGED table
    <3>1. /\ UNCHANGED <<debugged_files, nb_debugged_files, overrun>>
          /\ i = Limit /\ nb_debugged_files = Limit
      BY <2>3, <1>3 DEF table
    <3>2. \A j \in 0..LastIndex : debugged_files[j] \in Int
      BY DEF Inv, Filled
    <3>3. LeftOut(name)
      BY <2>1, <3>1, <3>2, <1>3 DEF IsPlace, Stops, LeftOut
    <3>4. \A f : LeftOut(f)' <=> LeftOut(f)
      BY <3>1 DEF LeftOut, LastIndex
    <3>5. Held' = Held
      BY <3>1 DEF Held, LastIndex
    <3>6. {f \in given' : ~LeftOut(f)'} = {f \in given : ~LeftOut(f)}
      BY <1>1, <3>3, <3>4
    <3>7. NothingLost'
      BY <2>2, <3>5, <3>6 DEF NothingLost, Held
    <3>8. TypeOK' /\ Filled' /\ Sorted'
      BY <3>1, <1>5 DEF Inv, TypeOK
    <3>. QED
      BY <3>7, <3>8, <1>4 DEF Inv
  <2>4. CASE overrun' = TRUE /\ UNCHANGED <<debugged_files, nb_debugged_files>>
    <3>1. TypeOK' /\ Filled' /\ Sorted'
      BY <2>4, <1>5
    <3>. QED
      BY <3>1, <2>4, <1>4 DEF Inv, NothingLost
  <2>5. CASE /\ nb_debugged_files < Limit
             /\ debugged_files' = Inserted(i, name)
             /\ nb_debugged_files' = nb_debugged_files + 1
             /\ UNCHANGED overrun
    <3>1. /\ debugged_files' \in [0..(Limit - 1) -> Names \union {NULL}]
          /\ Filled' /\ Sorted' /\ Held' = Held \union {name}
      BY <2>1, <2>5, <1>7, InsertedInv
    <3>2. TypeOK'
      BY <3>1, <2>5, <1>1, <1>2, <1>3 DEF Inv, TypeOK
    <3>3. Held = given
      BY <2>2, <2>5, <1>3 DEF LeftOut
    <3>4. Held' = given'
      BY <3>1, <3>3, <1>1
    <3>5. \A f \in given' : ~LeftOut(f)'
      <4>. SUFFICES ASSUME NEW f \in given', LeftOut(f)' PROVE FALSE
        OBVIOUS
      <4>1. PICK j \in 0..LastIndex' : debugged_files'[j] = f
        BY <3>4 DEF Held
      <4>2. debugged_files'[j] < f /\ f \in Int
        BY <4>1, <3>1 DEF LeftOut, Filled
      <4>. QED
        BY <4>1, <4>2
    <3>6. NothingLost'
      BY <3>4, <3>5 DEF NothingLost, Held
    <3>. QED
      BY <3>1, <3>2, <3>6, <1>4 DEF Inv
  <2>. QED
    BY <2>1, <2>3, <2>4, <2>5
<1>. QED
  BY <1>6, <1>7 DEF add_debug_to

\* A search that answers with membership keeps what is said and cached true.
LEMMA ReturnInv ==
  ASSUME Inv, search # Idle, NEW found \in BOOLEAN, found <=> search.name \in Held,
         SearchReturns(found), UNCHANGED <<table, given, phase, caching>>
  PROVE  Inv'
<1>. USE DebugAssumption
<1>1. UNCHANGED <<debugged_files, nb_debugged_files, overrun, given, phase, caching>>
  BY DEF table
<1>2. search.name \in Names /\ search.name # NULL /\ ~overrun
  BY SearchType DEF Inv, Ahead
<1>3. /\ search' = Idle /\ said' = [file |-> search.name, printed |-> found]
      /\ said' # Quiet
  BY <1>2 DEF SearchReturns, Say, Quiet
<1>4. is_debugged_result' \in [Names -> {"first", "yes", "no"}]
  BY <1>2 DEF SearchReturns, Inv, TypeOK
<1>5. Filled' /\ Sorted' /\ NothingLost' /\ UNCHANGED <<Held, LastIndex>>
  BY TableInv
<1>6. TypeOK'
  BY <1>1, <1>2, <1>3, <1>4 DEF Inv, TypeOK
<1>7. CacheTrue'
  BY <1>1, <1>2, <1>5 DEF SearchReturns, Inv, TypeOK, CacheTrue
<1>8. phase # "options"
  BY DEF Inv, QuietFirst
<1>9. SaysHeld' /\ Ahead' /\ QuietFirst'
  BY <1>1, <1>3, <1>5, <1>8 DEF SaysHeld, Ahead, QuietFirst
<1>. QED
  BY <1>5, <1>6, <1>7, <1>9 DEF Inv

\* Half of the candidates are dropped, never the name.
LEMMA BisectInv == ASSUME Inv, Bisect PROVE Inv'
<1>. USE DebugAssumption
<1>. DEFINE middle == (search.from + search.to) \div 2
<1>1. /\ search # Idle /\ search.from < search.to
      /\ UNCHANGED <<table, given, phase, caching>>
  BY DEF Bisect
<1>2. /\ search \in [name : Names, from : 0..Limit, to : -1..LastIndex]
      /\ search.name \in Names /\ LastIndex \in Int /\ LastIndex < Limit
      /\ search.from \in 0..Limit /\ search.to \in -1..LastIndex
  <2>1. nb_debugged_files \in 0..Limit
    BY DEF Inv, TypeOK
  <2>. QED
    BY <2>1, <1>1, SearchType DEF Inv, LastIndex
<1>3. phase # "options" /\ ~overrun
  BY <1>1 DEF Inv, QuietFirst, Ahead
<1>4. /\ search.from <= middle /\ middle < search.to /\ middle \in Nat
      /\ middle \in 0..LastIndex
  BY <1>1, <1>2
<1>5. \A i \in 0..LastIndex : debugged_files[i] \in Names /\ debugged_files[i] \in Int
  <2>1. \A i \in 0..LastIndex : debugged_files[i] \in Names
    BY DEF Inv, Filled
  <2>. QED
    BY <2>1
<1>6. \A i, j \in 0..LastIndex : i < j => debugged_files[i] <= debugged_files[j]
  BY DEF Inv, Sorted
<1>7. \A i \in 0..LastIndex :
        debugged_files[i] = search.name => search.from <= i /\ i <= search.to
  BY <1>1 DEF Inv, Ahead
<1>8. ASSUME UNCHANGED <<is_debugged_result, said>>, search' # Idle, search'.name = search.name,
             search' \in [name : Names, from : 0..Limit, to : -1..LastIndex],
             \A i \in 0..LastIndex : debugged_files[i] = search.name =>
                                       search'.from <= i /\ i <= search'.to
      PROVE  Inv'
  <2>1. UNCHANGED <<debugged_files, nb_debugged_files, overrun, given, phase, caching,
                    is_debugged_result, said>>
    BY <1>1, <1>8 DEF table
  <2>2. Filled' /\ Sorted' /\ NothingLost' /\ UNCHANGED <<Held, LastIndex>>
    BY <1>1, TableInv
  <2>3. TypeOK'
    BY <2>1, <2>2, <1>8 DEF Inv, TypeOK
  <2>4. SaysHeld' /\ CacheTrue'
    BY <2>1, <2>2 DEF Inv, SaysHeld, CacheTrue
  <2>5. QuietFirst'
    BY <2>1, <1>3 DEF QuietFirst
  <2>6. Ahead'
    BY <2>1, <2>2, <1>3, <1>8 DEF Ahead
  <2>. QED
    BY <2>2, <2>3, <2>4, <2>5, <2>6 DEF Inv
<1>9. CASE /\ debugged_files[middle] < search.name
           /\ search' = [search EXCEPT !.from = After(middle)]
           /\ UNCHANGED <<is_debugged_result, said>>
  <2>1. /\ search' \in [name : Names, from : 0..Limit, to : -1..LastIndex]
        /\ search'.from = middle + 1 /\ search'.to = search.to
        /\ search'.name = search.name
    BY <1>2, <1>4, <1>9 DEF After
  <2>2. \A i \in 0..LastIndex : debugged_files[i] = search.name => middle + 1 <= i
    BY <1>2, <1>4, <1>5, <1>6, <1>9
  <2>3. search' # Idle
    BY <2>1, <1>2 DEF Idle
  <2>. QED
    BY <2>1, <2>2, <2>3, <1>7, <1>8, <1>9
<1>10. CASE /\ debugged_files[middle] > search.name
            /\ search' = [search EXCEPT !.to = middle - 1]
            /\ UNCHANGED <<is_debugged_result, said>>
  <2>1. /\ search' \in [name : Names, from : 0..Limit, to : -1..LastIndex]
        /\ search'.from = search.from /\ search'.to = middle - 1
        /\ search'.name = search.name
    BY <1>2, <1>4, <1>10
  <2>2. \A i \in 0..LastIndex : debugged_files[i] = search.name => i <= middle - 1
    BY <1>2, <1>4, <1>5, <1>6, <1>10
  <2>3. search' # Idle
    BY <2>1, <1>2 DEF Idle
  <2>. QED
    BY <2>1, <2>2, <2>3, <1>7, <1>8, <1>10
<1>11. CASE debugged_files[middle] = search.name /\ SearchReturns(TRUE)
  <2>1. search.name \in Held
    BY <1>4, <1>11 DEF Held
  <2>. QED
    BY <2>1, <1>1, <1>11, ReturnInv
<1>. QED
  BY <1>9, <1>10, <1>11 DEF Bisect

\* With one candidate or none left, the comparison decides.
LEMMA EndsInv == ASSUME Inv, SearchEnds PROVE Inv'
<1>. USE DebugAssumption
<1>1. /\ search # Idle /\ search.from >= search.to /\ SearchReturns(LastCandidate)
      /\ UNCHANGED <<table, given, phase, caching>>
  BY DEF SearchEnds
<1>2. /\ search.from \in 0..Limit /\ search.to \in -1..LastIndex
      /\ LastIndex \in Int
  <2>1. nb_debugged_files \in 0..Limit
    BY DEF Inv, TypeOK
  <2>. QED
    BY <2>1, <1>1, SearchType DEF Inv, LastIndex
<1>3. LastCandidate <=> search.name \in Held
  <2>1. ASSUME LastCandidate PROVE search.name \in Held
    BY <2>1, <1>2 DEF LastCandidate, Held
  <2>2. ASSUME search.name \in Held PROVE LastCandidate
    <3>1. PICK i \in 0..LastIndex : debugged_files[i] = search.name
      BY <2>2 DEF Held
    <3>2. search.from <= i /\ i <= search.to
      BY <3>1, <1>1 DEF Inv, Ahead
    <3>. QED
      BY <3>1, <3>2, <1>1, <1>2 DEF LastCandidate
  <2>. QED
    BY <2>1, <2>2
<1>4. LastCandidate \in BOOLEAN
  BY DEF LastCandidate
<1>. QED
  BY <1>1, <1>3, <1>4, ReturnInv

\* A statement reads the cache, or searches the whole table.
LEMMA DebugInv == ASSUME Inv, NEW file \in Names, debug(file) PROVE Inv'
<1>. USE DebugAssumption
<1>1. /\ phase = "running" /\ search = Idle /\ ~overrun
      /\ UNCHANGED <<debugged_files, nb_debugged_files, overrun, given, phase, caching,
                     is_debugged_result>>
  BY DEF debug, MaySay, table
<1>2. Filled' /\ Sorted' /\ NothingLost' /\ UNCHANGED <<Held, LastIndex>>
  <2>1. UNCHANGED <<table, given>>
    BY DEF debug
  <2>. QED
    BY <2>1, TableInv
<1>3. CacheTrue' /\ QuietFirst'
  BY <1>1, <1>2 DEF Inv, CacheTrue, QuietFirst
<1>4. CASE caching /\ is_debugged_result[file] # "first"
  <2>1. /\ said' = [file |-> file, printed |-> is_debugged_result[file] = "yes"]
        /\ UNCHANGED search
    BY <1>4 DEF debug, Say
  <2>2. SaysHeld'
    BY <2>1, <1>1, <1>2, <1>4 DEF Inv, CacheTrue, SaysHeld
  <2>3. TypeOK'
    <3>1. said' \in [file : Names, printed : BOOLEAN]
      BY <2>1
    <3>. QED
      BY <3>1, <2>1, <1>1, <1>2 DEF Inv, TypeOK
  <2>. QED
    BY <2>1, <2>2, <2>3, <1>1, <1>2, <1>3 DEF Inv, Ahead
<1>5. CASE ~(caching /\ is_debugged_result[file] # "first")
  <2>1. /\ search' = [name |-> file, from |-> 0, to |-> LastIndex] /\ UNCHANGED said
    BY <1>5 DEF debug
  <2>2. LastIndex \in -1..Limit
    BY DEF Inv, TypeOK, LastIndex
  <2>3. TypeOK'
    <3>1. search' \in [name : Names, from : 0..Limit, to : -1..LastIndex]
      BY <2>1, <2>2
    <3>. QED
      BY <3>1, <2>1, <1>1, <1>2 DEF Inv, TypeOK
  <2>4. Ahead'
    BY <2>1, <2>2, <1>1, <1>2 DEF Ahead
  <2>5. SaysHeld'
    BY <2>1, <1>1, <1>2 DEF Inv, SaysHeld
  <2>. QED
    BY <2>3, <2>4, <2>5, <1>2, <1>3 DEF Inv
<1>. QED
  BY <1>4, <1>5

\* Every step keeps the invariant.
LEMMA NextInv == Inv /\ [Next]_dvars => Inv'
<1> SUFFICES ASSUME Inv, [Next]_dvars PROVE Inv'
  OBVIOUS
<1>1. CASE \E name \in Names : add_debug_to(name)
  BY <1>1, AddInv
<1>2. CASE \E name \in Names : debug(name)
  BY <1>2, DebugInv
<1>3. CASE \E name \in Names : UndefinedDebug(name)
  <2>1. PICK name \in Names : UndefinedDebug(name)
    BY <1>3
  <2>2. /\ overrun /\ phase = "running" /\ said' \in [file : Names, printed : BOOLEAN]
        /\ UNCHANGED <<debugged_files, nb_debugged_files, overrun, given, phase, caching,
                       is_debugged_result, search>>
    BY <2>1 DEF UndefinedDebug, MaySay, Say, table
  <2>3. Filled' /\ Sorted' /\ NothingLost' /\ UNCHANGED <<Held, LastIndex>>
    BY <2>2, TableInv DEF table
  <2>4. TypeOK'
    BY <2>2, <2>3 DEF Inv, TypeOK
  <2>. QED
    BY <2>2, <2>3, <2>4 DEF Inv, SaysHeld, CacheTrue, QuietFirst, Ahead
<1>4. CASE OptionsEnd
  <2>1. /\ phase' = "running"
        /\ UNCHANGED <<debugged_files, nb_debugged_files, overrun, given, caching,
                       is_debugged_result, search, said>>
    BY <1>4 DEF OptionsEnd, table, statement
  <2>2. Filled' /\ Sorted' /\ NothingLost' /\ UNCHANGED <<Held, LastIndex>>
    BY <2>1, TableInv DEF table
  <2>3. TypeOK'
    BY <2>1, <2>2 DEF Inv, TypeOK
  <2>. QED
    BY <2>1, <2>2, <2>3 DEF Inv, SaysHeld, CacheTrue, QuietFirst, Ahead
<1>5. CASE Bisect
  BY <1>5, BisectInv
<1>6. CASE SearchEnds
  BY <1>6, EndsInv
<1>7. CASE UNCHANGED dvars
  <2>1. UNCHANGED <<debugged_files, nb_debugged_files, overrun, given, phase, caching,
                    is_debugged_result, search, said>>
    BY <1>7 DEF dvars, table, statement
  <2>2. Filled' /\ Sorted' /\ NothingLost' /\ UNCHANGED <<Held, LastIndex>>
    BY <2>1, TableInv DEF table
  <2>3. TypeOK'
    BY <2>1, <2>2 DEF Inv, TypeOK
  <2>. QED
    BY <2>1, <2>2, <2>3 DEF Inv, SaysHeld, CacheTrue, QuietFirst, Ahead
<1>. QED
  BY <1>1, <1>2, <1>3, <1>4, <1>5, <1>6, <1>7 DEF Next

\* The invariant holds in every reachable state.
LEMMA Invariance == Spec => []Inv
BY InitInv, NextInv, PTL DEF Spec

\* Insertions keep the table typed and sorted, and complete but for the names that
\* come after all of the full table, until one is written past its end.
THEOREM TableIsSortedSet == Spec => [](TypeOK /\ Sorted /\ NothingLost)
<1>1. Inv => TypeOK /\ Sorted /\ NothingLost
  BY DEF Inv
<1>. QED
  BY <1>1, Invariance, PTL

\* Until a name is written past the table, a debug statement prints exactly when an
\* option named its file and the full table did not leave it out: the dichotomy is
\* right for every table, and the cache never stale.
THEOREM SearchDecides == Spec => []PrintsSelected
<1>1. Inv => PrintsSelected
  BY DEF Inv, SaysHeld, NothingLost, Held, PrintsSelected
<1>. QED
  BY <1>1, Invariance, PTL

-----------------------------------------------------------------------------
(* Branches go to their targets and calls come back.                          *)

\* A word has bit 1 or not.
LEMMA BitOneCases ==
  ASSUME NEW x \in Nat
  PROVE  /\ Branch!Bit1(x) \in {0, 1}
         /\ \E h \in Nat : \/ Branch!Bit1(x) = 0 /\ x \in {4 * h, 4 * h + 1}
                           \/ Branch!Bit1(x) = 1 /\ x \in {4 * h + 2, 4 * h + 3}
<1>. DEFINE h == x \div 4
<1>1. h \in Nat /\ x \in (4 * h) .. (4 * h + 3)
  OBVIOUS
<1>. HIDE DEF h
<1>2. x \in {4 * h, 4 * h + 1} => Branch!Bit1(x) = 0
  BY <1>1 DEF Branch!Bit1
<1>3. x \in {4 * h + 2, 4 * h + 3} => Branch!Bit1(x) = 1
  BY <1>1 DEF Branch!Bit1
<1>. QED
  BY <1>1, <1>2, <1>3

\* Where an address has bit 1 clear.
Aligned(x) == \E h \in Int : x \in {4 * h, 4 * h + 1}

\* Bit 1 is clear exactly there.
LEMMA AlignedBit ==
  ASSUME NEW x \in Nat
  PROVE  Aligned(x) <=> Branch!Bit1(x) = 0
<1>1. PICK h \in Nat : \/ Branch!Bit1(x) = 0 /\ x \in {4 * h, 4 * h + 1}
                       \/ Branch!Bit1(x) = 1 /\ x \in {4 * h + 2, 4 * h + 3}
  BY BitOneCases
<1>2. ASSUME Aligned(x) PROVE x \in {4 * h, 4 * h + 1}
  BY <1>1, <1>2 DEF Aligned
<1>. QED
  BY <1>1, <1>2 DEF Aligned

\* What a word is after it wrapped, at most once in either direction.
LEMMA ModuloCases ==
  ASSUME Branch!BranchesAssumption, NEW x \in Int
  PROVE  /\ x \in Branch!Word => Branch!Modulo(x) = x
         /\ x - PcSize \in Branch!Word => Branch!Modulo(x) = x - PcSize
         /\ x + PcSize \in Branch!Word => Branch!Modulo(x) = x + PcSize
         /\ Branch!Modulo(x) \in Branch!Word
<1>1. PcSize \in Nat \ {0}
  BY DEF Branch!BranchesAssumption
<1>2. x % PcSize \in 0 .. (PcSize - 1)
  BY <1>1
<1>3. x \in 0 .. (PcSize - 1) => x % PcSize = x
  BY <1>1
<1>4. x - PcSize \in 0 .. (PcSize - 1) => x % PcSize = x - PcSize
  BY <1>1
<1>5. x + PcSize \in 0 .. (PcSize - 1) => x % PcSize = x + PcSize
  BY <1>1
<1>. QED
  BY <1>1, <1>2, <1>3, <1>4, <1>5 DEF Branch!Modulo, Branch!Word

\* Steps of four keep bit 1, where the words wrap too.
LEMMA AlignedSteps ==
  ASSUME Branch!BranchesAssumption, NEW x \in Branch!Word, Aligned(x), NEW k \in Int,
         - PcSize <= x + 4 * k, x + 4 * k < 2 * PcSize
  PROVE  Branch!Modulo(x + 4 * k) \in Branch!Word /\ Aligned(Branch!Modulo(x + 4 * k))
<1>. DEFINE q == PcSize \div 4
<1>1. q \in Nat /\ PcSize = 4 * q
  BY DEF Branch!BranchesAssumption
<1>. HIDE DEF q
<1>2. PICK h \in Int : x \in {4 * h, 4 * h + 1}
  BY DEF Aligned
<1>3. x + 4 * k \in Int
  BY <1>2
<1>4. PICK y \in Branch!Word : y = Branch!Modulo(x + 4 * k)
  BY <1>3, ModuloCases
<1>5. y \in {x + 4 * k, x + 4 * k - 4 * q, x + 4 * k + 4 * q}
  BY <1>1, <1>2, <1>3, <1>4, ModuloCases DEF Branch!Word
<1>6. PICK g \in {h + k, h + k - q, h + k + q} : y \in {4 * g, 4 * g + 1}
  BY <1>1, <1>2, <1>5
<1>7. Aligned(y)
  BY <1>1, <1>2, <1>6 DEF Aligned
<1>. QED
  BY <1>4, <1>7

\* The pc as it is read has bit 1 clear, and so has what is fetched.
LEMMA ReadAligned ==
  ASSUME Branch!BranchesAssumption, NEW x \in Branch!Word
  PROVE  /\ Branch!ReadPc(x) \in Branch!Word /\ Aligned(Branch!ReadPc(x))
         /\ Branch!FetchAddress(x) \in Branch!Word /\ Aligned(Branch!FetchAddress(x))
<1>1. PcSize \in Nat /\ PcSize >= 8 /\ Branch!Word \subseteq Nat
  BY DEF Branch!BranchesAssumption, Branch!Word
<1>. DEFINE y == Branch!Modulo(x + 4)
<1>2. y \in Branch!Word
  BY <1>1, ModuloCases
<1>. HIDE DEF y
<1>3. PICK h \in Nat : \/ Branch!Bit1(y) = 0 /\ y \in {4 * h, 4 * h + 1}
                       \/ Branch!Bit1(y) = 1 /\ y \in {4 * h + 2, 4 * h + 3}
  BY <1>1, <1>2, BitOneCases
<1>4. PICK r \in Nat : r = Branch!ReadPc(x) /\ r \in {4 * h, 4 * h + 1} /\ r <= y
  BY <1>1, <1>2, <1>3 DEF Branch!ReadPc, y
<1>5. r \in Branch!Word /\ Aligned(r)
  BY <1>1, <1>2, <1>4 DEF Branch!Word, Aligned
<1>6. Branch!FetchAddress(x) = Branch!Modulo(r + 4 * (-1))
  BY <1>4 DEF Branch!FetchAddress
<1>7. - PcSize <= r + 4 * (-1) /\ r + 4 * (-1) < 2 * PcSize
  BY <1>1, <1>5 DEF Branch!Word
<1>. QED
  BY <1>4, <1>5, <1>6, <1>7, AlignedSteps

\* Once bit 1 is clear, the corrections of the pc cancel out.
LEMMA CorrectionsCancel ==
  ASSUME Branch!BranchesAssumption, NEW x \in Branch!Word, Aligned(x)
  PROVE  /\ Branch!FetchAddress(x) = x
         /\ Branch!ReadPc(Branch!Modulo(x + 4)) = Branch!Modulo(x + 8)
         /\ Branch!Link(Branch!ReadPc(Branch!Modulo(x + 4))) = Branch!Modulo(x + 4)
<1>1. PcSize \in Nat /\ PcSize >= 8 /\ Branch!Word = 0 .. (PcSize - 1)
  BY DEF Branch!BranchesAssumption, Branch!Word
<1>2. ASSUME NEW y \in Branch!Word, Aligned(y)
      PROVE  /\ Branch!Modulo(y + 4) \in Branch!Word /\ Aligned(Branch!Modulo(y + 4))
             /\ Branch!ReadPc(y) = Branch!Modulo(y + 4)
  <2>1. - PcSize <= y + 4 * 1 /\ y + 4 * 1 < 2 * PcSize /\ y + 4 * 1 = y + 4
    BY <1>1
  <2>2. Branch!Modulo(y + 4) \in Branch!Word /\ Aligned(Branch!Modulo(y + 4))
    BY <1>2, <2>1, AlignedSteps
  <2>3. Branch!Bit1(Branch!Modulo(y + 4)) = 0
    BY <1>1, <2>2, AlignedBit
  <2>. QED
    BY <1>1, <2>2, <2>3 DEF Branch!ReadPc
<1>3. ASSUME NEW y \in Branch!Word
      PROVE  /\ Branch!Modulo(Branch!Modulo(y + 4) - 4) = y
             /\ Branch!Modulo(Branch!Modulo(y + 4) + 4) = Branch!Modulo(y + 8)
  <2>1. PICK z \in Branch!Word : z = Branch!Modulo(y + 4) /\ z \in {y + 4, y + 4 - PcSize}
    BY <1>1, ModuloCases
  <2>2. Branch!Modulo(z - 4) = y
    BY <1>1, <2>1, ModuloCases
  <2>3. Branch!Modulo(z + 4) = Branch!Modulo(y + 8)
    BY <1>1, <2>1, ModuloCases
  <2>. QED
    BY <2>1, <2>2, <2>3
<1>4. Branch!FetchAddress(x) = x
  BY <1>2, <1>3 DEF Branch!FetchAddress
<1>5. PICK y \in Branch!Word : y = Branch!Modulo(x + 4) /\ Aligned(y)
  BY <1>2
<1>6. Branch!ReadPc(y) = Branch!Modulo(y + 4)
  BY <1>2, <1>5
<1>. QED
  BY <1>3, <1>4, <1>5, <1>6 DEF Branch!Link

\* The offset that is subtracted is the negated one, except the most negative.
LEMMA NegatedIsMinus ==
  ASSUME Branch!BranchesAssumption, NEW offset \in Branch!Offsets
  PROVE  /\ 4 * Branch!Negated(offset) \in Branch!Word
         /\ offset # Branch!MostNegative =>
              4 * Branch!Negated(offset) \in {- (4 * Branch!Signed(offset)),
                                              PcSize - 4 * Branch!Signed(offset)}
         /\ Branch!Signed(offset) \in Int /\ -PcSize <= 8 * Branch!Signed(offset)
         /\ 8 * Branch!Signed(offset) <= PcSize - 8
<1>. DEFINE half == OffsetSize \div 2
            quarter == PcSize \div 4
            n == (OffsetSize - offset) % OffsetSize
<1>1. /\ half \in Nat \ {0} /\ OffsetSize = 2 * half /\ quarter \in Nat /\ PcSize = 4 * quarter
      /\ OffsetSize <= quarter /\ offset \in 0 .. OffsetSize - 1
  BY DEF Branch!BranchesAssumption, Branch!Offsets
<1>2. n = (IF offset = 0 THEN 0 ELSE OffsetSize - offset) /\ n \in 0 .. OffsetSize - 1
  <2>1. CASE offset = 0
    BY <1>1, <2>1
  <2>2. CASE offset # 0
    BY <1>1, <2>2
  <2>. QED
    BY <2>1, <2>2
<1>3. Branch!Negated(offset) = IF n >= half THEN n + (quarter - OffsetSize) ELSE n
  BY DEF Branch!Negated, Branch!SignBit
<1>4. Branch!Signed(offset) = IF offset < half THEN offset ELSE offset - OffsetSize
  BY DEF Branch!Signed, Branch!MostNegative
<1>5. Branch!MostNegative = half
  BY DEF Branch!MostNegative
<1>. HIDE DEF half, quarter, n
<1>6. PICK m \in Nat : m = Branch!Negated(offset) /\ m < quarter
  <2>1. CASE n >= half
    <3>1. n + (quarter - OffsetSize) \in Nat /\ n + (quarter - OffsetSize) < quarter
      BY <1>1, <1>2
    <3>. QED
      BY <1>3, <2>1, <3>1
  <2>2. CASE ~ (n >= half)
    <3>1. n \in Nat /\ n < quarter
      BY <1>1, <1>2
    <3>. QED
      BY <1>3, <2>2, <3>1
  <2>. QED
    BY <2>1, <2>2
<1>7. offset # half => m \in {- Branch!Signed(offset), quarter - Branch!Signed(offset)}
  BY <1>1, <1>2, <1>3, <1>4, <1>6
<1>. QED
  BY <1>1, <1>4, <1>5, <1>6, <1>7 DEF Branch!Word

\* What is in the pc and in the link.
BranchInv == pc \in Branch!Word /\ lr \in Branch!Word /\ Branch!BranchesReach

\* A branch from any address goes to its target, and a call comes back after it.
LEMMA BranchStep ==
  ASSUME Branch!BranchesAssumption, BranchInv, NEW link \in BOOLEAN, NEW passed \in BOOLEAN,
         NEW offset \in Branch!Offsets, Branch!arm_branch(link, passed, offset)
  PROVE  BranchInv'
<1>. DEFINE f == Branch!FetchAddress(pc)
            n == Branch!Negated(offset)
            s == Branch!Signed(offset)
<1>1. PcSize \in Nat /\ PcSize >= 8 /\ Branch!Word = 0 .. (PcSize - 1)
  BY DEF Branch!BranchesAssumption, Branch!Word
<1>2. f \in Branch!Word /\ Aligned(f)
  BY ReadAligned DEF BranchInv
<1>. HIDE DEF f
<1>3. /\ Branch!ReadPc(Branch!Modulo(f + 4)) = Branch!Modulo(f + 8)
      /\ Branch!Link(Branch!Modulo(f + 8)) = Branch!Modulo(f + 4)
  BY <1>2, CorrectionsCancel
<1>4. /\ lr' = IF link THEN Branch!Modulo(f + 4) ELSE lr
      /\ pc' = IF passed THEN Branch!Modulo(Branch!Modulo(f + 8) - Branch!Modulo(4 * n))
               ELSE Branch!Modulo(f + 4)
      /\ branch' = [at |-> f, offset |-> offset, passed |-> passed, link |-> link]
  BY <1>3 DEF Branch!arm_branch, f
<1>5. PICK m \in Branch!Word, t \in Int :
        /\ m = 4 * n /\ t = 4 * s /\ - PcSize <= 2 * t /\ 2 * t <= PcSize - 8
        /\ offset # Branch!MostNegative => m \in {- t, PcSize - t}
  BY NegatedIsMinus
<1>6. Branch!Modulo(m) = m
  BY <1>1, <1>5, ModuloCases
<1>7. PICK r \in Branch!Word : r = Branch!Modulo(f + 8) /\ r \in {f + 8, f + 8 - PcSize}
  BY <1>1, <1>2, ModuloCases
<1>8. /\ Branch!Modulo(f + 4) \in Branch!Word /\ Branch!Modulo(r - m) \in Branch!Word
      /\ Aligned(Branch!Modulo(f + 4))
  <2>1. - PcSize <= f + 4 * 1 /\ f + 4 * 1 < 2 * PcSize /\ f + 4 * 1 = f + 4
    BY <1>1, <1>2
  <2>2. r - m \in Int
    BY <1>1
  <2>. QED
    BY <1>2, <2>1, <2>2, ModuloCases, AlignedSteps, SMTT(20)
<1>9. pc' \in Branch!Word /\ lr' \in Branch!Word
  BY <1>4, <1>5, <1>6, <1>7, <1>8 DEF BranchInv
<1>10. ASSUME passed, offset # Branch!MostNegative
       PROVE  Branch!FetchAddress(pc') = Branch!Modulo(f + 8 + t)
  <2>1. Branch!Modulo(r - m) = Branch!Modulo(f + 8 + t)
    <3>1. PICK x \in Int, y \in Int : x = r - m /\ y = f + 8 + t
      BY <1>1, <1>2, <1>5
    <3>2. /\ x \in {y, y - PcSize, y - 2 * PcSize} /\ - PcSize < x /\ x < PcSize
          /\ - PcSize < y /\ y < 2 * PcSize
      <4>1. /\ m \in {- t, PcSize - t} /\ - PcSize <= 2 * t /\ 2 * t <= PcSize - 8
            /\ r \in {f + 8, f + 8 - PcSize}
        BY <1>5, <1>7, <1>10
      <4>2. /\ PcSize \in Nat /\ PcSize >= 8 /\ f \in 0 .. (PcSize - 1)
            /\ r \in 0 .. (PcSize - 1) /\ m \in 0 .. (PcSize - 1)
        BY <1>1, <1>2
      <4>3. x = y \/ x = y - PcSize \/ x = y - 2 * PcSize
        BY ONLY <3>1, <4>1, <4>2, t \in Int, SMTT(20)
      <4>4. - PcSize < x /\ x < PcSize
        BY ONLY <3>1, <4>2
      <4>5. - PcSize <= t + t /\ t + t <= PcSize - 8
        BY ONLY <4>1, <4>2, t \in Int
      <4>6. - PcSize < y /\ y < 2 * PcSize
        <5>1. y = f + 8 + t /\ f \in Int /\ 0 <= f /\ f < PcSize /\ t \in Int /\ PcSize \in Nat /\ PcSize >= 8
          BY ONLY <3>1, <4>2, t \in Int
        <5>. QED
          BY ONLY <4>5, <5>1
      <4>7. x \in {y, y - PcSize, y - 2 * PcSize}
        BY ONLY <4>3
      <4>. QED
        BY ONLY <4>4, <4>6, <4>7, Zenon
    <3>3. /\ x \in 0 .. (PcSize - 1) => Branch!Modulo(x) = x
          /\ x + PcSize \in 0 .. (PcSize - 1) => Branch!Modulo(x) = x + PcSize
          /\ y \in 0 .. (PcSize - 1) => Branch!Modulo(y) = y
          /\ y - PcSize \in 0 .. (PcSize - 1) => Branch!Modulo(y) = y - PcSize
          /\ y + PcSize \in 0 .. (PcSize - 1) => Branch!Modulo(y) = y + PcSize
      BY <1>1, ModuloCases
    <3>4. Branch!Modulo(x) = Branch!Modulo(y)
      BY ONLY <1>1, <3>2, <3>3, x \in Int, y \in Int
    <3>. QED
      BY <3>1, <3>4
  <2>2. Aligned(Branch!Modulo(f + 8 + t))
    <3>0. f \in Int /\ s \in Int /\ t = 4 * s
      BY <1>1, <1>2, <1>5, NegatedIsMinus
    <3>1. f + 4 * (2 + s) = f + 8 + t /\ 2 + s \in Int
      BY ONLY <3>0
    <3>2. - PcSize <= f + 4 * (2 + s) /\ f + 4 * (2 + s) < 2 * PcSize
      BY <1>1, <1>2, <1>5, <3>1
    <3>. QED
      BY <1>2, <3>1, <3>2, AlignedSteps
  <2>3. pc' = Branch!Modulo(f + 8 + t)
    BY <1>4, <1>5, <1>6, <1>7, <1>10, <2>1
  <2>. QED
    BY <1>9, <2>2, <2>3, CorrectionsCancel
<1>11. ASSUME link
       PROVE  Branch!FetchAddress(lr') = Branch!Modulo(f + 4)
  BY <1>4, <1>8, <1>11, CorrectionsCancel
<1>12. /\ branch'.at = f /\ branch'.offset = offset /\ branch'.passed = passed /\ branch'.link = link
  BY <1>4
<1>13. Branch!BranchesReach'
  BY <1>5, <1>10, <1>11, <1>12 DEF Branch!BranchesReach, Branch!Taken, Branch!Target
<1>. QED
  BY <1>9, <1>13 DEF BranchInv

(* For every size of words and of offsets and from every address, a branch that *)
(* is taken goes where its signed offset points, all but the most negative, and  *)
(* the link of a call is the instruction after it.                               *)
THEOREM BranchesArrive == Branch!BranchesAssumption => (Branch!Spec => []BranchesReach)
<1>. SUFFICES ASSUME Branch!BranchesAssumption PROVE Branch!Spec => []BranchesReach
  OBVIOUS
<1>1. Branch!Init => BranchInv
  BY DEF Branch!Init, BranchInv, Branch!BranchesReach, Branch!Taken, Branch!NoBranch,
     Branch!Word, Branch!BranchesAssumption
<1>2. BranchInv /\ [Branch!Next]_(Branch!bvars) => BranchInv'
  <2>. SUFFICES ASSUME BranchInv, [Branch!Next]_(Branch!bvars) PROVE BranchInv'
    OBVIOUS
  <2>1. CASE Branch!Return
    BY <2>1 DEF Branch!Return, BranchInv, Branch!BranchesReach, Branch!Taken, Branch!NoBranch
  <2>2. CASE UNCHANGED Branch!bvars
    BY <2>2 DEF Branch!bvars, BranchInv, Branch!BranchesReach
  <2>. QED
    BY <2>1, <2>2, BranchStep DEF Branch!Next
<1>3. BranchInv => BranchesReach
  BY DEF BranchInv, BranchesReach
<1>. QED
  BY <1>1, <1>2, <1>3, PTL DEF Branch!Spec

-----------------------------------------------------------------------------
(* The stack of locations and the lines of the trace.                         *)

\* All of a sequence but its last element.
LEMMA FrontOf ==
  ASSUME NEW S, NEW s \in Seq(S), s # <<>>
  PROVE  /\ Traced!Front(s) \in Seq(S) /\ Len(s) \in Nat \ {0} /\ Len(Traced!Front(s)) = Len(s) - 1
         /\ \A i \in 1 .. Len(s) - 1 : Traced!Front(s)[i] = s[i]
         /\ Traced!Last(s) = s[Len(s)] /\ Traced!Last(s) \in S
<1>1. Len(s) \in Nat \ {0}
  BY LenProperties, EmptySeq
<1>2. Traced!Front(s) = SubSeq(s, 1, Len(s) - 1)
  BY DEF Traced!Front
<1>3. s[Len(s)] \in S /\ \A i \in 1 .. Len(s) - 1 : s[i] \in S
  BY <1>1, ElementOfSeq
<1>4. 1 \in Int /\ Len(s) - 1 \in Int
  BY <1>1
<1>5. /\ SubSeq(s, 1, Len(s) - 1) \in Seq(S)
      /\ Len(SubSeq(s, 1, Len(s) - 1)) = Len(s) - 1
      /\ \A i \in 1 .. Len(s) - 1 : SubSeq(s, 1, Len(s) - 1)[i] = s[i]
  <2>1. \A i \in Int : 1 + i - 1 = i
    BY ONLY TRUE
  <2>2. (Len(s) - 1) - 1 + 1 = Len(s) - 1 /\ (1 <= Len(s) - 1 \/ Len(s) - 1 = 0)
    <3>. DEFINE k == Len(s)
    <3>1. k \in Nat \ {0}
      BY <1>1
    <3>. HIDE DEF k
    <3>2. (k - 1) - 1 + 1 = k - 1 /\ (1 <= k - 1 \/ k - 1 = 0)
      BY ONLY <3>1
    <3>. QED
      BY ONLY <3>2 DEF k
  <2>. DEFINE m == Len(s) - 1
  <2>. HIDE DEF m
  <2>3. m \in Int /\ (\A i \in 1 .. m : s[i] \in S) /\ m - 1 + 1 = m /\ (1 <= m \/ m = 0)
    BY <1>3, <1>4, <2>2 DEF m
  <2>4. /\ SubSeq(s, 1, m) \in Seq(S) /\ Len(SubSeq(s, 1, m)) = IF 1 <= m THEN m - 1 + 1 ELSE 0
        /\ \A i \in 1 .. m - 1 + 1 : SubSeq(s, 1, m)[i] = s[1 + i - 1]
    BY <1>4, <2>3, SubSeqProperties
  <2>5. \A i \in 1 .. m : SubSeq(s, 1, m)[i] = s[i]
    BY <2>1, <2>3, <2>4 DEF m
  <2>. QED
    BY <2>3, <2>4, <2>5 DEF m
<1>. QED
  BY <1>1, <1>2, <1>3, <1>5 DEF Traced!Last

\* A stack that holds, for each call that is not ended, the line of them all.
Call == [operation : Traced!Operations, place : Places, left : SUBSET {"call", "end"}]
OpenIn(c) == {i \in 1 .. Len(c) : "end" \in c[i].left}
Follows(s, c) ==
    /\ Len(s) = Cardinality(OpenIn(c))
    /\ \A n \in 1 .. Len(s) : s[n] = c[1].place

\* The calls that are not ended are finitely many.
LEMMA OpenFinite ==
  ASSUME NEW c \in Seq(Call)
  PROVE  IsFiniteSet(OpenIn(c)) /\ Cardinality(OpenIn(c)) \in Nat
<1>1. Len(c) \in Nat
  BY LenProperties
<1>2. IsFiniteSet(1 .. Len(c)) /\ OpenIn(c) \in SUBSET (1 .. Len(c))
  BY <1>1, FS_Interval DEF OpenIn
<1>3. IsFiniteSet(OpenIn(c))
  BY ONLY <1>2, FS_Subset
<1>. QED
  BY <1>3, FS_CardinalityType

\* A call starts on the line of the others and its place is pushed.
LEMMA FollowsPush ==
  ASSUME NEW s \in Seq(Places), NEW c \in Seq(Call), Follows(s, c), NEW x \in Call, "end" \in x.left,
         c # <<>> => x.place = c[1].place
  PROVE  Follows(Append(s, x.place), Append(c, x))
<1>. DEFINE s1 == Append(s, x.place)
            c1 == Append(c, x)
            n == Len(c)
<1>1. n \in Nat /\ Len(c1) = n + 1 /\ c1[n + 1] = x /\ \A i \in 1 .. n : c1[i] = c[i]
  BY LenProperties, AppendProperties
<1>2. /\ x.place \in Places /\ Len(s) \in Nat /\ Len(s1) = Len(s) + 1 /\ s1[Len(s) + 1] = x.place
      /\ \A i \in 1 .. Len(s) : s1[i] = s[i]
  BY LenProperties, AppendProperties DEF Call
<1>. HIDE DEF s1, c1
<1>3. OpenIn(c1) = OpenIn(c) \cup {n + 1} /\ n + 1 \notin OpenIn(c)
  BY <1>1 DEF OpenIn
<1>4. Cardinality(OpenIn(c1)) = Cardinality(OpenIn(c)) + 1
  BY <1>3, OpenFinite, FS_AddElement
<1>5. Len(s1) = Cardinality(OpenIn(c1))
  BY <1>2, <1>4 DEF Follows
<1>6. c1[1].place = x.place /\ (c # <<>> => c[1].place = x.place)
  <2>1. CASE c = <<>>
    BY <1>1, <2>1
  <2>2. CASE c # <<>>
    <3>1. 1 \in 1 .. n
      BY <1>1, <2>2, EmptySeq
    <3>. QED
      BY <1>1, <2>2, <3>1
  <2>. QED
    BY <2>1, <2>2
<1>7. c = <<>> => Len(s) = 0
  <2>1. OpenIn(<<>>) = {}
    BY DEF OpenIn
  <2>. QED
    BY <2>1, FS_EmptySet DEF Follows
<1>8. ASSUME NEW i \in 1 .. Len(s1) PROVE s1[i] = c1[1].place
  <2>1. i = Len(s) + 1 \/ i \in 1 .. Len(s)
    BY <1>2
  <2>2. i \in 1 .. Len(s) => s[i] = c[1].place /\ c # <<>>
    BY <1>7 DEF Follows
  <2>. QED
    BY <1>2, <1>6, <2>1, <2>2
<1>. QED
  BY <1>5, <1>8 DEF Follows, s1, c1

\* What does not end a call keeps the stack.
LEMMA FollowsSame ==
  ASSUME NEW s \in Seq(Places), NEW c \in Seq(Call), NEW c1, Follows(s, c), OpenIn(c1) = OpenIn(c),
         OpenIn(c1) # {} => c1[1].place = c[1].place
  PROVE  Follows(s, c1)
<1>1. OpenIn(c) = {} => Len(s) = 0
  BY FS_EmptySet DEF Follows
<1>. QED
  BY <1>1 DEF Follows

\* Some call ends, and what is on the top is popped.
LEMMA FollowsPop ==
  ASSUME NEW s \in Seq(Places), NEW c \in Seq(Call), Follows(s, c), NEW i \in OpenIn(c), NEW c1,
         OpenIn(c1) = OpenIn(c) \ {i}, OpenIn(c1) # {} => c1[1].place = c[1].place
  PROVE  /\ s # <<>> /\ Traced!Last(s) = c[1].place
         /\ Follows(Traced!Front(s), c1)
<1>1. /\ Cardinality(OpenIn(c)) \in Nat /\ Cardinality(OpenIn(c1)) \in Nat
      /\ Cardinality(OpenIn(c1)) = Cardinality(OpenIn(c)) - 1
  <2>1. IsFiniteSet(OpenIn(c)) /\ Cardinality(OpenIn(c)) \in Nat
    BY OpenFinite
  <2>2. IsFiniteSet(OpenIn(c1)) /\ Cardinality(OpenIn(c1)) = Cardinality(OpenIn(c)) - 1
    BY <2>1, FS_RemoveElement
  <2>. QED
    BY <2>1, <2>2, FS_CardinalityType
<1>2. s # <<>>
  BY <1>1 DEF Follows
<1>3. /\ Len(s) \in Nat \ {0} /\ Len(Traced!Front(s)) = Len(s) - 1 /\ Traced!Last(s) = s[Len(s)]
      /\ \A n \in 1 .. Len(s) - 1 : Traced!Front(s)[n] = s[n]
  BY ONLY <1>2, s \in Seq(Places), FrontOf
<1>4. Traced!Last(s) = c[1].place
  <2>1. Len(s) \in 1 .. Len(s)
    BY <1>3
  <2>. QED
    BY <1>3, <2>1 DEF Follows
<1>5. Len(Traced!Front(s)) = Cardinality(OpenIn(c1))
  BY <1>1, <1>3 DEF Follows
<1>6. ASSUME NEW n \in 1 .. Len(Traced!Front(s)) PROVE Traced!Front(s)[n] = c1[1].place
  <2>1. n \in 1 .. Len(s) - 1 /\ n \in 1 .. Len(s)
    BY <1>3
  <2>2. OpenIn(c1) # {}
    <3>1. Cardinality(OpenIn(c1)) # 0
      BY ONLY <1>1, <1>5, n \in 1 .. Len(Traced!Front(s))
    <3>. QED
      BY ONLY <3>1, FS_EmptySet
  <2>. QED
    BY <1>3, <2>1, <2>2 DEF Follows
<1>. QED
  BY <1>2, <1>4, <1>5, <1>6 DEF Follows

-----------------------------------------------------------------------------
(* The inductive invariant of the trace. *)
TraceTyped == location_stack \in Seq(Places) /\ calls \in Seq(Call) /\ fetch \in Nat

\* A write of a register is made before its END_LOCATION, the calls around another
\* are still to be made, and all are on one line.
Sequenced ==
    /\ \A i \in 1 .. Len(calls) :
         /\ calls[i].operation = "write_register" /\ "call" \in calls[i].left => "end" \in calls[i].left
         /\ calls[i].place = calls[1].place
    /\ \A i \in 1 .. Len(calls) - 1 : "call" \in calls[i].left

\* The last address is that of the last memory line.
Remembered == last_address = IF seen = NULL THEN FirstAddress ELSE seen

TraceInv ==
    /\ TraceTyped /\ Sequenced /\ Remembered
    /\ IF enabled THEN Follows(location_stack, calls) ELSE location_stack = <<>>

\* The stack of the module is the one of the lemmas.
LEMMA FollowsIs == Traced!StackFollowsCalls <=> (enabled => Follows(location_stack, calls))
<1>1. Traced!Open = OpenIn(calls)
  BY DEF Traced!Open, OpenIn
<1>2. \A S : Traced!Cardinality(S) = Cardinality(S)
  BY DEF Traced!Cardinality, Cardinality
<1>. QED
  BY <1>1, <1>2 DEF Traced!StackFollowsCalls, Follows

\* What a part of a call, once done, leaves of the calls.
LEMMA DoneCalls ==
  ASSUME TraceTyped, Sequenced, NEW i \in 1 .. Len(calls), NEW part \in {"call", "end"},
         part \in calls[i].left, part = "call" => i = Len(calls), Traced!Done(i, part)
  PROVE  /\ calls' \in Seq(Call) /\ Len(calls') <= Len(calls)
         /\ OpenIn(calls') = IF part = "end" THEN OpenIn(calls) \ {i} ELSE OpenIn(calls)
         /\ \A j \in 1 .. Len(calls') :
              /\ j \in 1 .. Len(calls) /\ calls'[j].operation = calls[j].operation
              /\ calls'[j].place = calls[j].place
              /\ \/ j # i /\ calls'[j].left = calls[j].left
                 \/ j = i /\ calls'[j].left = calls[j].left \ {part}
<1>. DEFINE n == Len(calls)
<1>1. n \in Nat \ {0} /\ calls[i] \in Call /\ calls # <<>>
  <2>1. n \in Nat /\ calls[i] \in Call
    BY LenProperties, ElementOfSeq DEF TraceTyped
  <2>. QED
    BY <2>1
<1>2. CASE calls[i].left = {part}
  <2>1. i = n
    <3>1. part = "end" => "call" \notin calls[i].left
      BY <1>2
    <3>2. i # n => i \in 1 .. n - 1
      BY <1>1
    <3>. QED
      BY <3>1, <3>2 DEF Sequenced
  <2>2. /\ calls' = Traced!Front(calls) /\ calls' \in Seq(Call) /\ Len(calls') = n - 1
        /\ \A j \in 1 .. n - 1 : calls'[j] = calls[j]
    BY <1>1, <1>2, FrontOf DEF TraceTyped, Traced!Done
  <2>3. "end" \in calls[n].left <=> part = "end"
    BY <1>2, <2>1
  <2>4. \A j \in 1 .. n : j = n \/ j \in 1 .. n - 1
    BY <1>1
  <2>. HIDE DEF n
  <2>5. OpenIn(calls) \ {n} = {j \in 1 .. n - 1 : "end" \in calls[j].left}
    BY <1>1, <2>4 DEF OpenIn, n
  <2>6. OpenIn(calls') = OpenIn(calls) \ {n}
    BY <2>2, <2>5 DEF OpenIn
  <2>7. part # "end" => n \notin OpenIn(calls)
    BY <2>3 DEF OpenIn
  <2>8. OpenIn(calls') = IF part = "end" THEN OpenIn(calls) \ {i} ELSE OpenIn(calls)
    BY <2>1, <2>6, <2>7
  <2>9. \A j \in 1 .. n - 1 : j \in 1 .. n /\ j # i
    BY <1>1, <2>1
  <2>. QED
    BY <1>1, <2>2, <2>8, <2>9 DEF n
<1>3. CASE calls[i].left # {part}
  <2>. DEFINE x == [calls[i] EXCEPT !.left = calls[i].left \ {part}]
  <2>1. /\ x \in Call /\ x.left = calls[i].left \ {part} /\ x.place = calls[i].place
        /\ x.operation = calls[i].operation
    BY <1>1 DEF Call
  <2>2. calls' = [calls EXCEPT ![i] = x]
    BY <1>3 DEF Traced!Done
  <2>. HIDE DEF x
  <2>3. /\ calls' \in Seq(Call) /\ Len(calls') = n /\ calls'[i] = x
        /\ \A j \in 1 .. n : j # i => calls'[j] = calls[j]
    BY <2>1, <2>2, ExceptSeq DEF TraceTyped
  <2>4. "end" \in x.left <=> part # "end" /\ "end" \in calls[i].left
    BY <2>1
  <2>5. OpenIn(calls') = IF part = "end" THEN OpenIn(calls) \ {i} ELSE OpenIn(calls)
    BY <2>3, <2>4 DEF OpenIn
  <2>. QED
    BY <1>1, <2>1, <2>3, <2>5
<1>. QED
  BY <1>2, <1>3

\* So the calls stay in sequence, but for an END_LOCATION before a write.
LEMMA DoneSequenced ==
  ASSUME TraceTyped, Sequenced, NEW i \in 1 .. Len(calls), NEW part \in {"call", "end"},
         part \in calls[i].left, part = "call" => i = Len(calls), Traced!Done(i, part),
         part = "end" => "call" \notin calls[i].left \/ calls[i].operation # "write_register"
  PROVE  Sequenced' /\ (calls' # <<>> => calls'[1].place = calls[1].place)
<1>1. /\ calls' \in Seq(Call) /\ Len(calls') <= Len(calls) /\ Len(calls') \in Nat /\ Len(calls) \in Nat
      /\ \A j \in 1 .. Len(calls') :
           /\ j \in 1 .. Len(calls) /\ calls'[j].operation = calls[j].operation
           /\ calls'[j].place = calls[j].place
           /\ \/ j # i /\ calls'[j].left = calls[j].left
              \/ j = i /\ calls'[j].left = calls[j].left \ {part}
  BY DoneCalls, LenProperties DEF TraceTyped
<1>2. calls' # <<>> => calls'[1].place = calls[1].place
  <2>1. calls' # <<>> => 1 \in 1 .. Len(calls')
    BY <1>1, EmptySeq
  <2>. QED
    BY <1>1, <2>1
<1>3. ASSUME NEW j \in 1 .. Len(calls')
      PROVE  calls'[j].place = calls'[1].place
  <2>1. 1 \in 1 .. Len(calls') /\ j \in 1 .. Len(calls)
    BY <1>1
  <2>2. calls[j].place = calls[1].place
    BY <2>1 DEF Sequenced
  <2>. QED
    BY <1>1, <2>1, <2>2
<1>4. ASSUME NEW j \in 1 .. Len(calls'), calls'[j].operation = "write_register",
             "call" \in calls'[j].left
      PROVE  "end" \in calls'[j].left
  <2>1. j \in 1 .. Len(calls) /\ calls[j].operation = "write_register"
    BY <1>1, <1>4
  <2>2. "call" \in calls[j].left
    BY <1>1, <1>4
  <2>3. "end" \in calls[j].left
    BY <2>1, <2>2 DEF Sequenced
  <2>4. part = "end" => j # i
    BY <2>1, <2>2
  <2>. QED
    BY <1>1, <2>3, <2>4
<1>5. ASSUME NEW j \in 1 .. Len(calls') - 1 PROVE "call" \in calls'[j].left
  <2>1. j \in 1 .. Len(calls') /\ j \in 1 .. Len(calls) - 1 /\ j # Len(calls)
    BY <1>1
  <2>2. "call" \in calls[j].left
    BY <2>1 DEF Sequenced
  <2>3. part = "call" => j # i
    BY <2>1
  <2>. QED
    BY <1>1, <2>1, <2>2, <2>3
<1>. QED
  BY <1>2, <1>3, <1>4, <1>5 DEF Sequenced

\* The innermost call.
LEMMA InnerCall ==
  ASSUME TraceTyped, calls # <<>>
  PROVE  /\ Len(calls) \in Nat \ {0} /\ Len(calls) \in 1 .. Len(calls) /\ 1 \in 1 .. Len(calls)
         /\ Traced!Inner = calls[Len(calls)] /\ Traced!Inner \in Call
<1>1. Len(calls) \in Nat \ {0} /\ Traced!Last(calls) = calls[Len(calls)] /\ Traced!Last(calls) \in Call
  BY FrontOf DEF TraceTyped
<1>. QED
  BY ONLY <1>1 DEF Traced!Inner

\* Nothing was called, printed or remembered before the first statement.
LEMMA TraceInit == Traced!Init => TraceInv
<1>. SUFFICES ASSUME Traced!Init PROVE TraceInv
  OBVIOUS
<1>1. /\ location_stack = <<>> /\ calls = <<>> /\ enabled = TRUE /\ seen = NULL /\ fetch = 0
      /\ last_address = FirstAddress
  BY DEF Traced!Init
<1>2. TraceTyped /\ Sequenced /\ Remembered
  BY <1>1 DEF TraceTyped, Sequenced, Remembered
<1>3. OpenIn(<<>>) = {}
  BY DEF OpenIn
<1>4. Follows(<<>>, <<>>)
  BY <1>3, FS_EmptySet DEF Follows
<1>. QED
  BY <1>1, <1>2, <1>4 DEF TraceInv

\* A call starts: its place is pushed.
LEMMA TraceStart == ASSUME TraceInv, Traced!Start PROVE TraceInv'
<1>1. PICK x \in Call :
        /\ calls' = Append(calls, x) /\ x.left = {"call", "end"}
        /\ calls # <<>> => "call" \in Traced!Inner.left /\ x.place = Traced!Inner.place
        /\ location_stack' = IF enabled THEN Append(location_stack, x.place) ELSE location_stack
  <2>1. PICK made \in Traced!Operations, place \in Places :
          /\ calls' = Append(calls, [operation |-> made, place |-> place,
                                     left |-> {"call", "end"}])
          /\ calls # <<>> => place = Traced!Inner.place
          /\ location_stack' = IF enabled THEN Append(location_stack, place) ELSE location_stack
    <3>1. PICK made \in Traced!Operations, place \in Places :
            /\ calls' = Append(calls, [operation |-> made, place |-> place,
                                       left |-> {"call", "end"}])
            /\ calls # <<>> => place = Traced!Inner.place
            /\ Traced!LOCATION(place)
      BY Zenon DEF Traced!Start
    <3>. QED
      BY <3>1 DEF Traced!LOCATION
  <2>. DEFINE x == [operation |-> made, place |-> place, left |-> {"call", "end"}]
  <2>2. x \in Call /\ x.left = {"call", "end"} /\ x.place = place
    BY DEF Call
  <2>3. calls # <<>> => "call" \in Traced!Inner.left
    BY DEF Traced!Start
  <2>. QED
    BY <2>1, <2>2, <2>3
<1>2. enabled' = enabled /\ last_address' = last_address /\ seen' = seen /\ fetch' = fetch
  BY DEF Traced!Start
<1>3. location_stack \in Seq(Places) /\ calls \in Seq(Call) /\ x.place \in Places /\ Sequenced
  BY DEF TraceInv, TraceTyped, Call
<1>4. TraceTyped'
  <2>1. calls' \in Seq(Call) /\ Append(location_stack, x.place) \in Seq(Places)
    BY <1>1, <1>3, AppendProperties
  <2>. QED
    BY <1>1, <1>2, <1>3, <2>1 DEF TraceInv, TraceTyped
<1>5. calls # <<>> => x.place = calls[1].place /\ "call" \in calls[Len(calls)].left
  BY <1>1, <1>3, InnerCall DEF TraceInv, Sequenced
<1>6. Sequenced'
  <2>1. /\ Len(calls) \in Nat /\ Len(calls') = Len(calls) + 1 /\ calls'[Len(calls) + 1] = x
        /\ \A i \in 1 .. Len(calls) : calls'[i] = calls[i]
    BY <1>1, <1>3, AppendProperties, LenProperties
  <2>2. \A i \in 1 .. Len(calls') : i = Len(calls) + 1 \/ i \in 1 .. Len(calls)
    BY <2>1
  <2>3. \A i \in 1 .. Len(calls) : calls # <<>> /\ 1 \in 1 .. Len(calls)
    BY <2>1, EmptySeq
  <2>4. calls'[1].place = x.place
    <3>1. CASE calls = <<>>
      BY <2>1, <3>1
    <3>2. CASE calls # <<>>
      <4>1. 1 \in 1 .. Len(calls)
        BY <1>3, <2>1, <3>2, EmptySeq
      <4>. QED
        BY <1>5, <2>1, <3>2, <4>1
    <3>. QED
      BY <3>1, <3>2
  <2>5. ASSUME NEW i \in 1 .. Len(calls')
        PROVE  /\ calls'[i].operation = "write_register" /\ "call" \in calls'[i].left =>
                    "end" \in calls'[i].left
               /\ calls'[i].place = calls'[1].place
    <3>1. CASE i = Len(calls) + 1
      BY <1>1, <2>1, <2>4, <3>1
    <3>2. CASE i \in 1 .. Len(calls)
      <4>1. calls'[i] = calls[i] /\ calls # <<>>
        BY <2>1, <2>3, <3>2
      <4>2. x.place = calls[1].place /\ calls[i].place = calls[1].place
        BY <1>3, <1>5, <3>2, <4>1 DEF Sequenced
      <4>3. calls[i].operation = "write_register" /\ "call" \in calls[i].left => "end" \in calls[i].left
        BY <1>3, <3>2 DEF Sequenced
      <4>. QED
        BY <2>4, <4>1, <4>2, <4>3
    <3>. QED
      BY <2>2, <3>1, <3>2
  <2>6. ASSUME NEW i \in 1 .. Len(calls') - 1 PROVE "call" \in calls'[i].left
    <3>1. i \in 1 .. Len(calls) /\ calls # <<>> /\ (i = Len(calls) \/ i \in 1 .. Len(calls) - 1)
      BY <2>1, <2>3
    <3>2. "call" \in calls[i].left
      BY <1>3, <1>5, <3>1 DEF Sequenced
    <3>. QED
      BY <2>1, <3>1, <3>2
  <2>. QED
    BY <2>5, <2>6 DEF Sequenced
<1>7. Remembered'
  BY <1>2 DEF TraceInv, Remembered
<1>8. CASE enabled
  <2>1. Follows(Append(location_stack, x.place), Append(calls, x))
    BY <1>1, <1>3, <1>5, <1>8, FollowsPush DEF TraceInv
  <2>. QED
    BY <1>1, <1>2, <1>4, <1>6, <1>7, <1>8, <2>1 DEF TraceInv
<1>9. CASE ~enabled
  BY <1>1, <1>2, <1>4, <1>6, <1>7, <1>9 DEF TraceInv
<1>. QED
  BY <1>8, <1>9

\* A call ends: the place on the top is popped.
LEMMA TraceEnd == ASSUME TraceInv, Traced!End PROVE TraceInv'
<1>1. PICK i \in OpenIn(calls) :
        /\ "call" \notin calls[i].left \/ calls[i].operation # "write_register"
        /\ Traced!Done(i, "end")
  BY DEF Traced!End, Traced!Open, OpenIn
<1>2. /\ location_stack' = IF enabled THEN Traced!Front(location_stack) ELSE location_stack
      /\ enabled' = enabled /\ last_address' = last_address /\ seen' = seen /\ fetch' = fetch
  BY DEF Traced!End, Traced!END_LOCATION
<1>3. TraceTyped /\ Sequenced /\ location_stack \in Seq(Places) /\ calls \in Seq(Call)
  BY DEF TraceInv, TraceTyped
<1>4. i \in 1 .. Len(calls) /\ "end" \in calls[i].left
  BY DEF OpenIn
<1>5. calls' \in Seq(Call) /\ OpenIn(calls') = OpenIn(calls) \ {i}
  BY <1>1, <1>3, <1>4, DoneCalls
<1>6. Sequenced' /\ (calls' # <<>> => calls'[1].place = calls[1].place)
  BY <1>1, <1>3, <1>4, DoneSequenced
<1>7. Remembered'
  BY <1>2 DEF TraceInv, Remembered
<1>8. CASE enabled
  <2>1. OpenIn(calls') # {} => calls' # <<>>
    BY DEF OpenIn
  <2>2. location_stack # <<>> /\ Follows(Traced!Front(location_stack), calls')
    BY <1>3, <1>5, <1>6, <1>8, <2>1, FollowsPop DEF TraceInv
  <2>3. Traced!Front(location_stack) \in Seq(Places)
    BY <1>3, <2>2, FrontOf
  <2>. QED
    BY <1>2, <1>3, <1>5, <1>6, <1>7, <1>8, <2>2, <2>3 DEF TraceInv, TraceTyped
<1>9. CASE ~enabled
  BY <1>2, <1>3, <1>5, <1>6, <1>7, <1>9 DEF TraceInv, TraceTyped
<1>. QED
  BY <1>8, <1>9

\* A call is made: its place stays.
LEMMA TraceMaking ==
  ASSUME TraceInv, NEW made, Traced!Making(made), fetch' \in Nat,
         location_stack' = location_stack, enabled' = enabled,
         (seen' = seen /\ last_address' = last_address) \/ (last_address' = seen' /\ seen' # NULL)
  PROVE  TraceInv'
<1>1. /\ calls # <<>> /\ "call" \in Traced!Inner.left /\ Traced!Done(Len(calls), "call")
      /\ Traced!Inner.operation = made
  BY DEF Traced!Making
<1>2. TraceTyped /\ Sequenced /\ location_stack \in Seq(Places) /\ calls \in Seq(Call)
  BY DEF TraceInv, TraceTyped
<1>3. Len(calls) \in 1 .. Len(calls) /\ "call" \in calls[Len(calls)].left
  BY <1>1, <1>2, InnerCall
<1>4. calls' \in Seq(Call) /\ OpenIn(calls') = OpenIn(calls)
  BY <1>1, <1>2, <1>3, DoneCalls
<1>5. Sequenced' /\ (calls' # <<>> => calls'[1].place = calls[1].place)
  BY <1>1, <1>2, <1>3, DoneSequenced
<1>6. TraceTyped'
  BY <1>2, <1>4 DEF TraceTyped
<1>7. Remembered'
  BY DEF TraceInv, Remembered
<1>8. Follows(location_stack, calls) => Follows(location_stack, calls')
  <2>1. OpenIn(calls') # {} => calls' # <<>>
    BY DEF OpenIn
  <2>. QED
    BY <1>2, <1>4, <1>5, <2>1, FollowsSame
<1>. QED
  BY <1>5, <1>6, <1>7, <1>8 DEF TraceInv

\* The debugger disables the trace between two statements, and enables it again.
LEMMA TraceSwitch ==
  ASSUME TraceInv, Traced!Disable \/ Traced!Enable
  PROVE  TraceInv'
<1>1. /\ calls = <<>> /\ calls' = calls /\ location_stack' = location_stack
      /\ last_address' = last_address /\ seen' = seen /\ fetch' = fetch /\ (enabled' <=> ~enabled)
  BY DEF Traced!Disable, Traced!Enable
<1>2. (TraceTyped /\ Sequenced /\ Remembered)'
  BY <1>1 DEF TraceInv, TraceTyped, Sequenced, Remembered
<1>3. OpenIn(<<>>) = {}
  BY DEF OpenIn
<1>4. Follows(location_stack, <<>>) <=> location_stack = <<>>
  <2>1. Follows(location_stack, <<>>) <=> Len(location_stack) = 0
    BY <1>3, FS_EmptySet DEF Follows
  <2>. QED
    BY <2>1, EmptySeq DEF TraceInv, TraceTyped
<1>. QED
  BY <1>1, <1>2, <1>4 DEF TraceInv

\* Every step keeps the invariant.
LEMMA TraceStep ==
  ASSUME Traced!TraceAssumption, TraceInv, [Traced!Next]_Traced!vars
  PROVE  TraceInv'
<1>0. /\ fetch \in Nat /\ Addresses \subseteq Nat /\ Vectors \subseteq Nat /\ NULL \notin Nat
      /\ (fetch + 4) % AddressSize \in Nat
  <2>1. fetch \in Nat /\ AddressSize \in Nat \ {0}
    BY DEF TraceInv, TraceTyped, Traced!TraceAssumption
  <2>2. (fetch + 4) % AddressSize \in 0 .. AddressSize - 1
    BY <2>1, Division
  <2>. QED
    BY <2>1, <2>2 DEF Traced!TraceAssumption
<1>1. CASE Traced!Start
  BY <1>1, TraceStart
<1>2. CASE Traced!End
  BY <1>2, TraceEnd
<1>3. CASE Traced!ReadRegister
  <2>1. /\ Traced!Making("read_register") /\ location_stack' = location_stack /\ enabled' = enabled
        /\ seen' = seen /\ last_address' = last_address /\ fetch' \in Nat
    BY <1>0, <1>3 DEF Traced!ReadRegister
  <2>. QED
    BY <2>1, TraceMaking
<1>4. CASE Traced!WriteRegister
  <2>1. /\ Traced!Making("write_register") /\ location_stack' = location_stack /\ enabled' = enabled
        /\ seen' = seen /\ last_address' = last_address /\ fetch' \in Nat
    BY <1>0, <1>4 DEF Traced!WriteRegister
  <2>. QED
    BY <2>1, TraceMaking
<1>5. CASE Traced!AccessMemory
  <2>1. /\ Traced!Making("access_memory") /\ location_stack' = location_stack /\ enabled' = enabled
        /\ (seen' = seen /\ last_address' = last_address) \/ (last_address' = seen' /\ seen' # NULL)
        /\ fetch' \in Nat
    BY <1>0, <1>5 DEF Traced!AccessMemory, Traced!TraceMemory
  <2>. QED
    BY <2>1, TraceMaking
<1>6. CASE Traced!Fetch
  <2>1. /\ Traced!Making("fetch") /\ location_stack' = location_stack /\ enabled' = enabled
        /\ (seen' = seen /\ last_address' = last_address) \/ (last_address' = seen' /\ seen' # NULL)
        /\ fetch' \in Nat
    BY <1>0, <1>6 DEF Traced!Fetch, Traced!TraceMemory
  <2>. QED
    BY <2>1, TraceMaking
<1>7. CASE Traced!TraceState \/ UNCHANGED Traced!vars
  <2>1. /\ location_stack' = location_stack /\ enabled' = enabled /\ calls' = calls
        /\ seen' = seen /\ last_address' = last_address /\ fetch' = fetch
    BY <1>7 DEF Traced!TraceState, Traced!vars
  <2>. QED
    BY <2>1 DEF TraceInv, TraceTyped, Sequenced, Remembered
<1>8. CASE Traced!Disable \/ Traced!Enable
  BY <1>8, TraceSwitch
<1>. QED
  BY <1>1, <1>2, <1>3, <1>4, <1>5, <1>6, <1>7, <1>8 DEF Traced!Next

\* In whatever order C evaluates the operations of a statement and their
\* END_LOCATIONs, the stack has one place for each call not ended, the line of the
\* statement (LOCATION, END_LOCATION, trace_start_location, trace_end_location).
THEOREM LocationsFollowCalls == Traced!TraceAssumption => (Traced!Spec => []StackFollowsCalls)
<1>. SUFFICES ASSUME Traced!TraceAssumption PROVE Traced!Spec => []StackFollowsCalls
  OBVIOUS
<1>1. TraceInv => StackFollowsCalls
  BY FollowsIs DEF TraceInv, StackFollowsCalls
<1>2. TraceInv /\ [Traced!Next]_Traced!vars => TraceInv'
  BY TraceStep
<1>. QED
  BY <1>1, <1>2, TraceInit, PTL DEF Traced!Spec

-----------------------------------------------------------------------------
\* What a step may print of a line.
Tells(line) ==
    /\ line.kind = "memory" =>
         (line.mark = "S" <=> seen' = ((IF seen = NULL THEN FirstAddress ELSE seen) + 4) % AddressSize)
    /\ calls # <<>> /\ Traced!Inner.operation = "write_register" /\ "POSITION" \in trace_flags =>
         line.position = line.place

\* The line of a register tells nothing of memory.
LEMMA RegisterTells ==
  ASSUME NEW place,
         \/ Traced!RegisterLine(place) = <<>>
         \/ calls = <<>> \/ Traced!Inner.operation # "write_register"
         \/ "POSITION" \notin trace_flags \/ Traced!Position = place
  PROVE  \/ Traced!RegisterLine(place) = <<>>
         \/ \E line : Traced!RegisterLine(place) = <<line>> /\ Tells(line)
<1>. DEFINE line == Traced!Line("register", "", place)
<1>1. line.kind = "register" /\ line.position = Traced!Position /\ line.place = place
  BY DEF Traced!Line
<1>. HIDE DEF line
<1>2. Traced!RegisterLine(place) \in {<<>>, <<line>>}
  BY DEF Traced!RegisterLine, line
<1>. QED
  BY <1>1, <1>2 DEF Tells

\* The line of a memory access is marked after the one before it.
LEMMA MemoryTells ==
  ASSUME Remembered, NEW address, NEW place, Traced!TraceMemory(address),
         Traced!Inner.operation # "write_register"
  PROVE  \/ Traced!MemoryLine(address, place) = <<>>
         \/ \E line : Traced!MemoryLine(address, place) = <<line>> /\ Tells(line)
<1>. DEFINE line == Traced!Line("memory", Traced!Mark(address), place)
<1>1. CASE Traced!Traced("MEMORY")
  <2>1. line.mark = (IF address = (last_address + 4) % AddressSize THEN "S" ELSE "N")
    BY DEF Traced!Line, Traced!Mark
  <2>2. seen' = address
    BY <1>1 DEF Traced!TraceMemory
  <2>3. Traced!MemoryLine(address, place) = <<line>>
    BY <1>1 DEF Traced!MemoryLine
  <2>. HIDE DEF line
  <2>4. line.mark = "S" <=> seen' = ((IF seen = NULL THEN FirstAddress ELSE seen) + 4) % AddressSize
    BY <2>1, <2>2 DEF Remembered
  <2>5. Tells(line)
    BY <2>4 DEF Tells
  <2>. QED
    BY <2>3, <2>5
<1>2. CASE ~Traced!Traced("MEMORY")
  BY <1>2 DEF Traced!MemoryLine
<1>. QED
  BY <1>1, <1>2

\* The lines of several accesses.
LEMMA Together ==
  ASSUME NEW a, NEW b, NEW c,
         a = <<>> \/ \E line : a = <<line>> /\ Tells(line),
         b = <<>> \/ \E line : b = <<line>> /\ Tells(line),
         c = <<>> \/ \E line : c = <<line>> /\ Tells(line)
  PROVE  \A i \in 1 .. Len(a \o b \o c) : Tells((a \o b \o c)[i])
<1>1. \A x : (x = <<>> \/ \E line : x = <<line>> /\ Tells(line))
               => \E line : x = <<>> \/ (x = <<line>> /\ Tells(line))
  OBVIOUS
<1>2. PICK la : a = <<>> \/ (a = <<la>> /\ Tells(la))
  BY <1>1
<1>3. PICK lb : b = <<>> \/ (b = <<lb>> /\ Tells(lb))
  BY <1>1
<1>4. PICK lc : c = <<>> \/ (c = <<lc>> /\ Tells(lc))
  BY <1>1
<1>. DEFINE S == {line \in {la, lb, lc} : Tells(line)}
<1>5. \A line \in S : Tells(line)
  OBVIOUS
<1>6. /\ Tells(la) => la \in S
      /\ Tells(lb) => lb \in S
      /\ Tells(lc) => lc \in S
  OBVIOUS
<1>. HIDE DEF S
<1>7. a \in Seq(S) /\ b \in Seq(S) /\ c \in Seq(S)
  <2>1. <<>> \in Seq(S) /\ \A line \in S : <<line>> \in Seq(S)
    BY ONLY TRUE
  <2>. QED
    BY ONLY <1>2, <1>3, <1>4, <1>6, <2>1
<1>8. a \o b \in Seq(S)
  BY ONLY <1>7, ConcatProperties
<1>9. a \o b \o c \in Seq(S)
  BY ONLY <1>7, <1>8, ConcatProperties
<1>10. \A i \in 1 .. Len(a \o b \o c) : (a \o b \o c)[i] \in S
  BY ONLY <1>9, ElementOfSeq
<1>. QED
  BY ONLY <1>5, <1>10

\* A register is written at the place on top of the stack.
LEMMA WrittenAtTop ==
  ASSUME TraceInv, enabled, Traced!Making("write_register")
  PROVE  location_stack # <<>> /\ Traced!Last(location_stack) = Traced!Inner.place
<1>1. /\ calls # <<>> /\ Traced!Inner.operation = "write_register" /\ "call" \in Traced!Inner.left
  BY DEF Traced!Making
<1>2. /\ Len(calls) \in Nat \ {0} /\ Len(calls) \in 1 .. Len(calls)
      /\ Traced!Inner = calls[Len(calls)]
  BY <1>1, InnerCall DEF TraceInv
<1>3. Len(calls) \in OpenIn(calls)
  BY <1>1, <1>2 DEF TraceInv, Sequenced, OpenIn
<1>4. location_stack \in Seq(Places) /\ calls \in Seq(Call) /\ Follows(location_stack, calls)
  BY DEF TraceInv, TraceTyped
<1>5. Len(location_stack) \in Nat \ {0}
  <2>1. IsFiniteSet(OpenIn(calls)) /\ Cardinality(OpenIn(calls)) \in Nat
    BY <1>4, OpenFinite
  <2>2. Cardinality(OpenIn(calls)) # 0
    BY <1>3, <2>1, FS_EmptySet
  <2>. QED
    BY <1>4, <2>1, <2>2 DEF Follows
<1>6. location_stack # <<>> /\ Traced!Last(location_stack) = location_stack[Len(location_stack)]
  <2>1. location_stack # <<>>
    BY <1>5
  <2>. QED
    BY <1>4, <2>1, FrontOf
<1>7. location_stack[Len(location_stack)] = calls[1].place
  BY <1>4, <1>5 DEF Follows
<1>8. calls[1].place = Traced!Inner.place
  BY <1>2 DEF TraceInv, Sequenced
<1>. QED
  BY <1>6, <1>7, <1>8

\* Every step prints lines that tell what was accessed.
LEMMA StepTells ==
  ASSUME TraceInv, Traced!Next
  PROVE  \A i \in 1 .. Len(lines') : Tells(lines'[i])
<1>1. CASE Traced!Start \/ Traced!End \/ Traced!Disable \/ Traced!Enable
  <2>1. lines' = <<>>
    BY <1>1 DEF Traced!Start, Traced!End, Traced!Disable, Traced!Enable
  <2>. QED
    BY <2>1
<1>2. Remembered
  BY DEF TraceInv
<1>3. ASSUME NEW a, a = <<>> \/ \E line : a = <<line>> /\ Tells(line), lines' = a
      PROVE  \A i \in 1 .. Len(lines') : Tells(lines'[i])
  BY <1>3
<1>4. CASE Traced!ReadRegister
  <2>1. Traced!Inner.operation # "write_register" /\ lines' = Traced!RegisterLine(Traced!Inner.place)
    BY <1>4 DEF Traced!ReadRegister, Traced!Making
  <2>. QED
    BY <1>3, <2>1, RegisterTells
<1>5. CASE Traced!WriteRegister
  <2>. DEFINE place == Traced!Inner.place
  <2>1. Traced!Making("write_register") /\ lines' = Traced!RegisterLine(place)
    BY <1>5 DEF Traced!WriteRegister
  <2>2. CASE ~enabled
    BY <1>3, <2>1, <2>2 DEF Traced!RegisterLine, Traced!Traced
  <2>3. CASE enabled
    <3>1. location_stack # <<>> /\ Traced!Last(location_stack) = place
      BY <2>1, <2>3, WrittenAtTop
    <3>2. "POSITION" \in trace_flags => Traced!Position = place
      BY <2>3, <3>1 DEF Traced!Position, Traced!Traced
    <3>. QED
      BY <1>3, <2>1, <3>2, RegisterTells
  <2>. QED
    BY <2>2, <2>3
<1>6. CASE Traced!AccessMemory
  <2>1. PICK address : /\ lines' = Traced!MemoryLine(address, Traced!Inner.place)
                       /\ Traced!TraceMemory(address)
    BY <1>6 DEF Traced!AccessMemory
  <2>2. Traced!Inner.operation # "write_register"
    BY <1>6 DEF Traced!AccessMemory, Traced!Making
  <2>. QED
    BY <1>2, <1>3, <2>1, <2>2, MemoryTells
<1>7. CASE Traced!Fetch
  <2>. DEFINE r == Traced!RegisterLine(Traced!Inner.place)
              m == Traced!MemoryLine(fetch, Traced!Inner.place)
  <2>1. lines' = r \o m \o r /\ Traced!TraceMemory(fetch)
    BY <1>7 DEF Traced!Fetch
  <2>2. Traced!Inner.operation # "write_register"
    BY <1>7 DEF Traced!Fetch, Traced!Making
  <2>3. /\ r = <<>> \/ \E line : r = <<line>> /\ Tells(line)
        /\ m = <<>> \/ \E line : m = <<line>> /\ Tells(line)
    BY <1>2, <2>1, <2>2, RegisterTells, MemoryTells
  <2>. HIDE DEF r, m
  <2>. QED
    BY <2>1, <2>3, Together
<1>8. CASE Traced!TraceState
  <2>. DEFINE r == Traced!RegisterLine("arm_core.c")
              state == [kind |-> "state", mark |-> "", position |-> NULL, place |-> NULL]
  <2>1. lines' = r \o <<state>> /\ calls = <<>>
    BY <1>8 DEF Traced!TraceState
  <2>2. r = <<>> \/ \E line : r = <<line>> /\ Tells(line)
    BY <2>1, RegisterTells
  <2>3. Tells(state)
    BY <2>1 DEF Tells
  <2>. HIDE DEF r, state
  <2>4. <<state>> = <<>> \/ \E line : <<state>> = <<line>> /\ Tells(line)
    BY <2>3
  <2>5. \A i \in 1 .. Len(r \o <<state>> \o <<>>) : Tells((r \o <<state>> \o <<>>)[i])
    BY <2>2, <2>4, Together
  <2>6. r \o <<state>> \o <<>> = r \o <<state>>
    <3>1. PICK la : r = <<>> \/ r = <<la>>
      BY <2>2
    <3>. DEFINE S == {la, state}
    <3>2. r \in Seq(S) /\ <<state>> \in Seq(S)
      <4>1. la \in S /\ state \in S
        OBVIOUS
      <4>. HIDE DEF S
      <4>2. <<>> \in Seq(S) /\ \A line \in S : <<line>> \in Seq(S)
        BY ONLY TRUE
      <4>. QED
        BY ONLY <3>1, <4>1, <4>2
    <3>. HIDE DEF S
    <3>3. r \o <<state>> \in Seq(S)
      BY ONLY <3>2, ConcatProperties
    <3>. QED
      BY ONLY <3>3, ConcatEmptySeq
  <2>. QED
    BY <2>1, <2>5, <2>6
<1>. QED
  BY <1>1, <1>4, <1>5, <1>6, <1>7, <1>8 DEF Traced!Next

\* Whatever the nesting and the order of the calls, a memory line is sequential
\* exactly where its address follows that of the line before it, and the line of a
\* register write is at the place of its call (trace_memory, trace_print_location).
THEOREM TraceTellsTheAccess == Traced!TraceAssumption => (Traced!Spec => LinesTellTheAccess)
<1>. SUFFICES ASSUME Traced!TraceAssumption PROVE Traced!Spec => LinesTellTheAccess
  OBVIOUS
<1>1. ASSUME TraceInv, [Traced!Next]_Traced!vars
      PROVE  [\A i \in 1 .. Len(lines') :
         /\ lines'[i].kind = "memory" =>
              LET before == IF seen = NULL THEN FirstAddress ELSE seen
              IN  lines'[i].mark = "S" <=> seen' = (before + 4) % AddressSize
         /\ calls # <<>> /\ Traced!Inner.operation = "write_register"
            /\ "POSITION" \in trace_flags =>
              lines'[i].position = lines'[i].place]_Traced!vars
  BY <1>1, StepTells DEF Tells
<1>2. TraceInv /\ [Traced!Next]_Traced!vars => TraceInv'
  BY TraceStep
<1>. QED
  BY <1>1, <1>2, TraceInit, PTL DEF Traced!Spec, LinesTellTheAccess, Traced!LinesTellTheAccess
-----------------------------------------------------------------------------
(* What the shifter and the operations compute, for every width of words.      *)

\* The operators of Alu on bits are those of Words.
LEMMA ComputedPower == Computed!Power = Power
BY DEF Computed!Power, Power
\* So are its bits,
LEMMA ComputedBit == \A x, i : Computed!Bit(x, i) = Bit(x, i)
BY ComputedPower DEF Computed!Bit, Bit
\* the numbers they make,
LEMMA ComputedNumber == \A bits, w : Computed!Number(bits, w) = Number(bits, w)
BY ComputedPower, Zenon DEF Computed!Number, Number
\* and its three operators.
LEMMA ComputedOr == \A x, y, w : Computed!Or(x, y, w) = Or(x, y, w)
BY ComputedBit, ComputedNumber, Zenon DEF Computed!Or, Or
\* The same of And.
LEMMA ComputedAnd == \A x, y, w : Computed!And(x, y, w) = And(x, y, w)
BY ComputedBit, ComputedNumber, Zenon DEF Computed!And, And
\* The same of Xor.
LEMMA ComputedXor == \A x, y, w : Computed!Xor(x, y, w) = Xor(x, y, w)
BY ComputedBit, ComputedNumber, Zenon DEF Computed!Xor, Xor

\* The words of Alu: P is the number of them, H half of that.
AluWords(P, H) == /\ P \in Nat \ {0} /\ H \in Nat \ {0} /\ P = Power[AluWidth]
                  /\ H = Power[AluWidth - 1] /\ P = 2 * H
                  /\ AluWidth \in Nat /\ AluWidth >= 2 /\ Computed!Word = 0 .. P - 1
                  /\ Computed!AllOnes = P - 1

\* AluAssumption says that there are such words.
LEMMA AluWordsAre == Computed!AluAssumption => \E P, H : AluWords(P, H)
<1>. SUFFICES ASSUME Computed!AluAssumption PROVE \E P, H : AluWords(P, H)
  OBVIOUS
<1>1. AluWidth \in Nat /\ AluWidth >= 2
  BY DEF Computed!AluAssumption
<1>2. AluWidth - 1 \in Nat /\ (AluWidth - 1) + 1 = AluWidth
  BY <1>1
<1>3. PICK P \in Nat \ {0}, H \in Nat \ {0} : P = Power[AluWidth] /\ H = Power[AluWidth - 1] /\ P = 2 * H
  BY <1>2, Powers
<1>4. Computed!Word = 0 .. P - 1 /\ Computed!AllOnes = P - 1
  BY <1>3, ComputedPower DEF Computed!Word, Computed!AllOnes
<1>. QED
  BY <1>1, <1>3, <1>4 DEF AluWords

\* The sign of a word, and the word as a signed number.
LEMMA SignOf ==
  ASSUME NEW P \in Nat \ {0}, NEW H \in Nat \ {0}, AluWords(P, H), NEW x \in 0 .. P - 1
  PROVE  /\ Computed!Sign(x) = IF x >= H THEN 1 ELSE 0
         /\ Computed!Signed(x) = IF x >= H THEN x - P ELSE x
         /\ Computed!Sign(x) = Bit(x, AluWidth - 1)
<1>1. P = 2 * H /\ P = Power[AluWidth] /\ H = Power[AluWidth - 1]
  BY DEF AluWords
<1>2. Computed!Sign(x) = Bit(x, AluWidth - 1)
  BY ComputedBit DEF Computed!Sign
<1>3. Bit(x, AluWidth - 1) = (x \div H) % 2
  BY <1>1 DEF Bit
<1>4. PICK s \in {0, 1} : s = IF x >= H THEN 1 ELSE 0
  OBVIOUS
<1>5. PICK r \in 0 .. H - 1 : x = s * H + r
  <2>1. CASE x >= H
    <3>1. x = 1 * H + (x - H) /\ x - H \in 0 .. H - 1 /\ s = 1
      BY <1>1, <1>4, <2>1
    <3>. QED
      BY <3>1
  <2>2. CASE ~(x >= H)
    <3>1. x = 0 * H + x /\ x \in 0 .. H - 1 /\ s = 0
      BY <1>1, <1>4, <2>2
    <3>. QED
      BY <3>1
  <2>. QED
    BY <2>1, <2>2
<1>6. x \div H = s
  BY <1>5, Quotient, x \in Int, s \in Int
<1>7. s % 2 = s
  OBVIOUS
<1>8. Computed!Sign(x) = s
  BY <1>2, <1>3, <1>6, <1>7
<1>9. Computed!Signed(x) = IF s = 1 THEN x - P ELSE x
  BY <1>1, <1>8, ComputedPower DEF Computed!Signed
<1>. QED
  BY <1>2, <1>4, <1>8, <1>9

\* The shifts of C, by an amount below the width, and by any.
LEMMA ShiftsOfC ==
  ASSUME NEW P \in Nat \ {0}, NEW H \in Nat \ {0}, AluWords(P, H), NEW x \in 0 .. P - 1, NEW n \in Int
  PROVE  /\ Computed!ShiftLeft(x, n) \subseteq 0 .. P - 1
         /\ Computed!ShiftRight(x, n) \subseteq 0 .. P - 1
         /\ n \in 0 .. AluWidth - 1 =>
              /\ Computed!ShiftLeft(x, n) = {(x * Power[n]) % P}
              /\ Computed!ShiftRight(x, n) = {x \div Power[n]}
<1>1. PICK w \in Nat \ {0} : w = AluWidth /\ P = Power[w]
  <2>1. AluWidth \in Nat \ {0} /\ P = Power[AluWidth]
    BY DEF AluWords
  <2>. QED
    BY <2>1
<1>2. PICK m \in 0 .. w - 1 : m = n % w
  BY Division
<1>3. PICK p \in Nat \ {0} : p = Power[m]
  <2>1. m \in Nat
    OBVIOUS
  <2>. QED
    BY ONLY <2>1, Powers
<1>4. (x * p) % P \in 0 .. P - 1
  <2>1. x * p \in Int
    OBVIOUS
  <2>. QED
    BY <2>1, Division
<1>5. x \div p \in 0 .. P - 1
  <2>1. x \in Nat
    OBVIOUS
  <2>2. x \div p \in Nat /\ x \div p <= x
    BY <2>1, QuotientNat
  <2>. QED
    BY <2>2
<1>6. n \in 0 .. w - 1 => m = n
  <2>1. n = 0 * w + n
    OBVIOUS
  <2>. QED
    BY <1>2, <2>1, Quotient
<1>7. Computed!ShiftLeft(x, n) = {(x * p) % P} \union IF n \in 0 .. w - 1 THEN {} ELSE {0}
  BY <1>1, <1>2, <1>3, ComputedPower DEF Computed!ShiftLeft, Computed!Modulo
<1>8. Computed!ShiftRight(x, n) = {x \div p} \union IF n \in 0 .. w - 1 THEN {} ELSE {0}
  BY <1>1, <1>2, <1>3, ComputedPower DEF Computed!ShiftRight
<1>9. Computed!ShiftLeft(x, n) \subseteq 0 .. P - 1 /\ Computed!ShiftRight(x, n) \subseteq 0 .. P - 1
  BY <1>4, <1>5, <1>7, <1>8
<1>10. n \in 0 .. w - 1 => /\ Computed!ShiftLeft(x, n) = {(x * Power[n]) % P}
                           /\ Computed!ShiftRight(x, n) = {x \div Power[n]}
  BY <1>3, <1>6, <1>7, <1>8
<1>. QED
  BY <1>1, <1>9, <1>10

\* The parts of a word at bit n: q above it, r below.
Parts(x, n, P, p, e, q, r) == /\ p = Power[n] /\ e = Power[AluWidth - n] /\ P = e * p
                              /\ x = q * p + r /\ q = x \div p
                              /\ q \in 0 .. e - 1 /\ r \in 0 .. p - 1

\* Every word has these parts.
LEMMA PartsOf ==
  ASSUME NEW P \in Nat \ {0}, NEW H \in Nat \ {0}, AluWords(P, H), NEW x \in 0 .. P - 1,
         NEW n \in 0 .. AluWidth
  PROVE  \E p, e \in Nat \ {0} : \E q, r \in Nat : Parts(x, n, P, p, e, q, r)
<1>1. AluWidth \in Nat /\ P = Power[AluWidth]
  BY DEF AluWords
<1>2. n \in Nat /\ AluWidth - n \in Nat /\ n \in 0 .. AluWidth
  BY <1>1
<1>3. PICK p \in Nat \ {0}, e \in Nat \ {0} : p = Power[n] /\ e = Power[AluWidth - n]
  BY ONLY <1>2, Powers
<1>4. P = e * p
  BY ONLY <1>1, <1>2, <1>3, PowerSplit
<1>5. x \in Nat /\ x \in Int
  OBVIOUS
<1>6. PICK q \in Int, r \in 0 .. p - 1 : q = x \div p /\ x = q * p + r
  BY <1>5, Division
<1>7. x < e * p
  BY <1>4
<1>8. q \in 0 .. e - 1
  BY <1>5, <1>6, <1>7, QuotientBelow
<1>9. q \in Nat /\ r \in Nat
  BY <1>6, <1>8
<1>. QED
  BY <1>3, <1>4, <1>6, <1>8, <1>9 DEF Parts

\* What C's rotation gives.
LEMMA RorIs ==
  ASSUME NEW P \in Nat \ {0}, NEW H \in Nat \ {0}, AluWords(P, H), NEW x \in 0 .. P - 1, NEW n \in Int,
         NEW b \in Computed!ror(x, n)
  PROVE  /\ b \in 0 .. P - 1
         /\ n \in 0 .. AluWidth - 1 => b = (x \div Power[n]) + ((x * Power[AluWidth - n]) % P)
<1>1. PICK w \in Nat \ {0} : w = AluWidth /\ P = Power[w]
  <2>1. AluWidth \in Nat \ {0} /\ P = Power[AluWidth]
    BY DEF AluWords
  <2>. QED
    BY <2>1
<1>2. w - n \in Int
  OBVIOUS
<1>3. PICK low \in Computed!ShiftRight(x, n), high \in Computed!ShiftLeft(x, w - n) :
        b = Or(low, high, w)
  <2>1. \E low \in Computed!ShiftRight(x, n), high \in Computed!ShiftLeft(x, w - n) :
          b = Computed!Or(low, high, w)
    BY <1>1 DEF Computed!ror
  <2>. QED
    BY <2>1, ComputedOr, Zenon
<1>4. low \in 0 .. P - 1 /\ high \in 0 .. P - 1
  BY <1>1, <1>2, <1>3, ShiftsOfC
<1>5. low \in Int /\ high \in Int
  BY <1>4
<1>6. b \in 0 .. P - 1
  BY ONLY <1>1, <1>3, <1>5, OperatorBits, Zenon
<1>7. ASSUME n = 0 PROVE b = (x \div Power[n]) + ((x * Power[w - n]) % P)
  <2>1. low = x
    <3>1. Computed!ShiftRight(x, n) = {x \div Power[n]}
      BY <1>1, <1>7, ShiftsOfC
    <3>2. x \div 1 = x
      OBVIOUS
    <3>. QED
      BY <1>3, <1>7, <3>1, <3>2, Powers
  <2>2. high \in {x, 0}
    <3>1. w % w = 0
      <4>1. w = 1 * w + 0
        OBVIOUS
      <4>. QED
        BY <4>1, Quotient
    <3>2. w - n = w
      BY <1>7
    <3>3. high \in {(x * Power[w % w]) % P, 0}
      BY <1>1, <1>3, <3>2, ComputedPower DEF Computed!ShiftLeft, Computed!Modulo
    <3>4. x * 1 = x /\ x = 0 * P + x
      OBVIOUS
    <3>5. x % P = x
      BY <3>4, Quotient
    <3>. QED
      BY <3>1, <3>3, <3>4, <3>5, Powers
  <2>3. b = x
    <3>1. Or(x, x, w) = x /\ Or(x, 0, w) = x
      BY <1>1, OrSame
    <3>. QED
      BY <1>3, <2>1, <2>2, <3>1
  <2>4. x \div Power[n] = x
    <3>1. x \div 1 = x
      OBVIOUS
    <3>. QED
      BY <1>7, <3>1, Powers
  <2>5. (x * Power[w - n]) % P = 0
    <3>1. w - n = w
      BY <1>7
    <3>2. (x * P) % P = 0
      <4>1. PICK y \in Int : y = x * P
        OBVIOUS
      <4>2. y = x * P + 0
        BY <4>1
      <4>. QED
        BY <4>1, <4>2, Quotient
    <3>. QED
      BY <1>1, <3>1, <3>2
  <2>. QED
    BY <2>3, <2>4, <2>5
<1>8. ASSUME n \in 1 .. w - 1 PROVE b = (x \div Power[n]) + ((x * Power[w - n]) % P)
  <2>1. PICK p \in Nat \ {0}, e \in Nat \ {0}, q \in Nat, r \in Nat : Parts(x, n, P, p, e, q, r)
    <3>1. n \in 0 .. AluWidth
      BY <1>1, <1>8
    <3>. QED
      BY <3>1, PartsOf, Zenon
  <2>2. /\ p = Power[n] /\ e = Power[w - n] /\ P = e * p
        /\ x = q * p + r /\ q = x \div p /\ q \in 0 .. e - 1 /\ r \in 0 .. p - 1
    BY <1>1, <2>1 DEF Parts
  <2>3. PICK k \in Nat : k = w - n /\ k \in 0 .. w - 1 /\ e = Power[k]
    BY <1>8, <2>2
  <2>4. low = q
    BY <1>1, <1>3, <1>8, <2>2, ShiftsOfC
  <2>5. PICK t \in Nat : t = r * e
    OBVIOUS
  <2>6. t + q \in 0 .. P - 1
    <3>1. PICK d \in Nat : p = r + 1 + d
      <4>1. p - r - 1 \in Nat /\ p = r + 1 + (p - r - 1)
        BY <2>2
      <4>. QED
        BY <4>1
    <3>2. P = t + e + d * e /\ d * e \in Nat
      BY <2>2, <2>5, <3>1
    <3>. QED
      BY <2>2, <3>2
  <2>7. x * e = q * P + t
    BY <2>2, <2>5
  <2>8. (x * e) % P = t
    <3>1. t \in 0 .. P - 1 /\ x * e \in Int
      BY <2>6
    <3>. QED
      BY <2>7, <3>1, Quotient
  <2>9. high = t
    BY <1>1, <1>3, <2>3, <2>8, ShiftsOfC
  <2>10. q + r * Power[k] \in 0 .. Power[w] - 1
    BY <1>1, <2>3, <2>5, <2>6
  <2>11. q \in 0 .. Power[k] - 1 /\ r \in Int
    BY <2>2, <2>3
  <2>12. Or(q, r * Power[k], w) = q + r * Power[k]
    BY <2>10, <2>11, OrOfParts
  <2>13. b = q + t
    BY <1>3, <2>3, <2>4, <2>5, <2>9, <2>12
  <2>. QED
    BY <2>2, <2>8, <2>13
<1>9. n \in 0 .. w - 1 => n = 0 \/ n \in 1 .. w - 1
  OBVIOUS
<1>. QED
  BY <1>1, <1>6, <1>7, <1>8, <1>9

\* What C's arithmetic shift gives.
LEMMA AsrIs ==
  ASSUME NEW P \in Nat \ {0}, NEW H \in Nat \ {0}, AluWords(P, H), NEW x \in 0 .. P - 1, NEW n \in Int,
         NEW b \in Computed!asr(x, n)
  PROVE  /\ b \in 0 .. P - 1
         /\ n \in 1 .. AluWidth - 1 => Computed!Signed(b) = Computed!Halved(x, n)
         /\ n = 0 /\ Computed!Sign(x) # 1 => Computed!Signed(b) = Computed!Halved(x, 0)
<1>1. PICK w \in Nat \ {0} : w = AluWidth /\ P = Power[w]
  <2>1. AluWidth \in Nat \ {0} /\ P = Power[AluWidth]
    BY DEF AluWords
  <2>. QED
    BY <2>1
<1>2. P = 2 * H /\ Computed!AllOnes = P - 1 /\ P - 1 \in 0 .. P - 1
  BY DEF AluWords
<1>3. PICK low \in Computed!ShiftRight(x, n),
           high \in IF Computed!Sign(x) = 1 THEN Computed!ShiftLeft(P - 1, w - n) ELSE {0} :
        b = Or(low, high, w)
  <2>1. \E low \in Computed!ShiftRight(x, n),
           high \in IF Computed!Sign(x) = 1 THEN Computed!ShiftLeft(P - 1, w - n) ELSE {0} :
          b = Computed!Or(low, high, w)
    BY <1>1, <1>2 DEF Computed!asr
  <2>. QED
    BY <2>1, ComputedOr, Zenon
<1>4. low \in 0 .. P - 1 /\ high \in 0 .. P - 1
  <2>1. w - n \in Int
    OBVIOUS
  <2>2. Computed!ShiftLeft(P - 1, w - n) \subseteq 0 .. P - 1
    BY <1>2, <2>1, ShiftsOfC
  <2>3. Computed!ShiftRight(x, n) \subseteq 0 .. P - 1
    BY ShiftsOfC
  <2>. QED
    BY <1>3, <2>2, <2>3
<1>5. low \in Int /\ high \in Int
  BY <1>4
<1>6. b \in 0 .. P - 1
  BY ONLY <1>1, <1>3, <1>5, OperatorBits, Zenon
<1>7. ASSUME n \in 1 .. w - 1 PROVE Computed!Signed(b) = Computed!Halved(x, n)
  <2>1. PICK p \in Nat \ {0}, e \in Nat \ {0}, q \in Nat, r \in Nat : Parts(x, n, P, p, e, q, r)
    <3>1. n \in 0 .. AluWidth
      BY <1>1, <1>7
    <3>. QED
      BY <3>1, PartsOf, Zenon
  <2>2. /\ p = Power[n] /\ e = Power[w - n] /\ P = e * p
        /\ x = q * p + r /\ q = x \div p /\ q \in 0 .. e - 1 /\ r \in 0 .. p - 1
    BY <1>1, <2>1 DEF Parts
  <2>3. PICK k \in Nat : k = w - n /\ k \in 0 .. w - 1 /\ e = Power[k]
    BY <1>7, <2>2
  <2>4. low = q
    BY <1>1, <1>3, <1>7, <2>2, ShiftsOfC
  <2>5. e <= H
    <3>1. w - 1 \in Nat /\ k \in 0 .. w - 1
      BY <2>3
    <3>2. Power[k] <= Power[w - 1]
      BY <3>1, PowerSplit
    <3>3. H = Power[w - 1]
      BY <1>1 DEF AluWords
    <3>. QED
      BY <2>3, <3>2, <3>3
  <2>6. q <= x
    BY <2>2, QuotientNat, x \in Nat
  <2>7. CASE x < H
    <3>1. Computed!Sign(x) = 0 /\ Computed!Signed(x) = x
      BY <2>7, SignOf
    <3>2. b = q
      <4>1. q \in 0 .. P - 1 /\ high = 0
        BY <1>3, <1>4, <2>4, <3>1
      <4>. QED
        BY <1>1, <1>3, <2>4, <4>1, OrSame
    <3>3. b \in 0 .. P - 1 /\ ~(b >= H)
      BY <1>6, <2>6, <2>7, <3>2
    <3>4. Computed!Signed(b) = q
      BY <3>2, <3>3, SignOf
    <3>5. Computed!Halved(x, n) = q
      BY <2>2, <3>1, ComputedPower DEF Computed!Halved
    <3>. QED
      BY <3>4, <3>5
  <2>8. CASE x >= H
    <3>1. Computed!Sign(x) = 1 /\ Computed!Signed(x) = x - P
      BY <2>8, SignOf
    <3>2. (P - 1) * e = (e - 1) * P + (P - e) /\ P - e \in 0 .. P - 1
      BY <1>2, <2>5
    <3>3. ((P - 1) * e) % P = P - e
      <4>1. PICK y \in Int, d \in Int, z \in Int : y = (P - 1) * e /\ d = e - 1 /\ z = P - e
        OBVIOUS
      <4>2. y = d * P + z /\ z \in 0 .. P - 1
        BY <3>2, <4>1
      <4>3. y % P = z
        BY ONLY <4>2, Quotient, y \in Int, d \in Int, P \in Nat \ {0}
      <4>. QED
        BY <4>1, <4>3
    <3>4. high = P - e
      BY <1>1, <1>2, <1>3, <2>3, <3>1, <3>3, ShiftsOfC
    <3>5. P - e = (p - 1) * Power[k]
      BY <2>2, <2>3
    <3>6. q + (p - 1) * Power[k] \in 0 .. Power[w] - 1 /\ q \in 0 .. Power[k] - 1 /\ p - 1 \in Int
      BY <1>1, <2>2, <2>3, <3>2, <3>5
    <3>7. Or(q, (p - 1) * Power[k], w) = q + (p - 1) * Power[k]
      BY <3>6, OrOfParts
    <3>8. b = q + P - e
      BY <1>3, <2>4, <3>4, <3>5, <3>7
    <3>9. b >= H
      BY <1>2, <2>5, <3>8
    <3>10. Computed!Signed(b) = q - e
      BY <1>6, <3>8, <3>9, SignOf
    <3>11. (x - P) \div p = q - e
      <4>1. PICK y \in Int : y = x - P
        OBVIOUS
      <4>2. (q - e) * p = q * p - e * p
        BY ONLY q \in Nat, e \in Nat, p \in Nat
      <4>3. PICK d \in Int : d = q - e
        OBVIOUS
      <4>4. y = (q - e) * p + r
        <5>1. PICK f \in Int, g \in Int : f = q * p /\ g = e * p
          OBVIOUS
        <5>2. x = f + r /\ P = g
          BY <2>2, <5>1
        <5>3. (q - e) * p = f - g
          BY <4>2, <5>1
        <5>. QED
          BY ONLY <4>1, <5>2, <5>3, r \in Nat, f \in Int, g \in Int, x \in Int, P \in Int
      <4>5. y \div p = d
        <5>1. y = d * p + r /\ r \in 0 .. p - 1
          BY <2>2, <4>3, <4>4
        <5>. QED
          BY ONLY <5>1, Quotient, y \in Int, d \in Int, p \in Nat \ {0}
      <4>. QED
        BY <4>1, <4>3, <4>5
    <3>12. Computed!Halved(x, n) = q - e
      BY <2>2, <3>1, <3>11, ComputedPower DEF Computed!Halved
    <3>. QED
      BY <3>10, <3>12
  <2>. QED
    BY <2>7, <2>8
<1>8. ASSUME n = 0, Computed!Sign(x) # 1 PROVE Computed!Signed(b) = Computed!Halved(x, 0)
  <2>1. Power[0] = 1 /\ x \div 1 = x
    <3>1. x = x * 1 + 0 /\ 0 \in 0 .. 1 - 1
      OBVIOUS
    <3>2. x \div 1 = x
      BY ONLY <3>1, Quotient, x \in Int, 1 \in Nat \ {0}
    <3>. QED
      BY <3>2, Powers
  <2>2. Computed!Signed(x) = x
    BY <1>8, SignOf
  <2>3. 0 \in 0 .. AluWidth - 1
    BY <1>1
  <2>4. Computed!ShiftRight(x, 0) = {x \div Power[0]}
    BY <2>3, ShiftsOfC
  <2>5. low = x /\ high = 0
    BY <1>3, <1>8, <2>1, <2>4
  <2>6. b = x
    BY <1>1, <1>3, <2>5, OrSame
  <2>7. Computed!Halved(x, 0) = x
    BY <2>1, <2>2, ComputedPower DEF Computed!Halved
  <2>. QED
    BY <2>2, <2>6, <2>7
<1>. QED
  BY <1>1, <1>6, <1>7, <1>8

\* The bit that a shift left pushes out last.
LEMMA OutOfLeft ==
  ASSUME NEW P \in Nat \ {0}, NEW H \in Nat \ {0}, AluWords(P, H), NEW x \in 0 .. P - 1,
         NEW n \in Nat \ {0}
  PROVE  ((x * Power[n]) \div P) % 2 = IF n <= AluWidth THEN Bit(x, AluWidth - n) ELSE 0
<1>1. PICK w \in Nat \ {0} : w = AluWidth /\ P = Power[w]
  <2>1. AluWidth \in Nat \ {0} /\ P = Power[AluWidth]
    BY DEF AluWords
  <2>. QED
    BY <2>1
<1>2. CASE n <= w
  <2>1. PICK m \in 0 .. w : m = w - n /\ m \in 0 .. AluWidth /\ AluWidth - m = n
    BY <1>1, <1>2
  <2>2. PICK p \in Nat \ {0}, e \in Nat \ {0}, q \in Nat, r \in Nat : Parts(x, m, P, p, e, q, r)
    BY <2>1, PartsOf, Zenon
  <2>3. /\ p = Power[m] /\ e = Power[n] /\ P = e * p
        /\ x = q * p + r /\ q = x \div p /\ r \in 0 .. p - 1
    BY <2>1, <2>2 DEF Parts
  <2>4. PICK t \in Nat : t = r * e
    OBVIOUS
  <2>5. x * e = q * P + t
    BY <2>3, <2>4
  <2>6. t \in 0 .. P - 1
    <3>1. PICK d \in Nat : p = r + 1 + d
      <4>1. p - r - 1 \in Nat /\ p = r + 1 + (p - r - 1)
        BY <2>3
      <4>. QED
        BY <4>1
    <3>2. e * p = r * e + e + d * e
      BY ONLY <3>1, e \in Nat, p \in Nat, r \in Nat, d \in Nat
    <3>3. d * e \in Nat
      OBVIOUS
    <3>4. P = t + e + d * e /\ d * e \in Nat
      BY <2>3, <2>4, <3>2, <3>3
    <3>. QED
      BY <3>4
  <2>7. (x * e) \div P = q
    <3>1. x * e \in Int /\ q \in Int
      OBVIOUS
    <3>. QED
      BY <2>5, <2>6, <3>1, Quotient
  <2>. QED
    BY <1>1, <1>2, <2>1, <2>3, <2>7 DEF Bit
<1>3. CASE ~(n <= w)
  <2>1. PICK j \in Nat : n = w + (j + 1)
    <3>1. n - w - 1 \in Nat /\ n = w + ((n - w - 1) + 1)
      BY <1>3
    <3>. QED
      BY <3>1
  <2>2. PICK d \in Nat : d = Power[j] /\ Power[j + 1] = 2 * d
    BY Powers
  <2>3. Power[n] = P * (2 * d)
    BY <1>1, <2>1, <2>2, PowerOfSum
  <2>4. PICK c \in Int : c = x * d
    OBVIOUS
  <2>5. x * Power[n] = (2 * c) * P + 0
    BY <2>3, <2>4
  <2>6. PICK y \in Int, l \in Int : y = x * Power[n] /\ l = 2 * c
    BY <2>5
  <2>7. y \div P = l
    BY <2>5, <2>6, Quotient
  <2>8. l % 2 = 0
    BY <2>6
  <2>. QED
    BY <1>1, <1>3, <2>6, <2>7, <2>8
<1>. QED
  BY <1>2, <1>3

\* What shifts and rotations give and the bits they push out last.
Left(n, x) == (x * Power[n]) % Power[AluWidth]
Right(n, x) == x \div Power[n]
Turned(n, x) == (x \div Power[n]) + ((x * Power[AluWidth - n]) % Power[AluWidth])
OutLeft(n, x) == ((x * Power[n]) \div Power[AluWidth]) % 2
OutRight(n, x) == (x \div Power[n - 1]) % 2
OutTurned(n, x) == (x \div Power[(n - 1) % AluWidth]) % 2

\* The parts of ShiftsAreArithmetic, for any operand and carry.
ShiftedBy(kind, n, x, b) ==
  ~Computed!OperandDeviates(kind, n, x) =>
    /\ kind \in {"LSL_imm", "LSL_reg"} => b = Left(n, x)
    /\ kind \in {"LSR_imm", "LSR_reg"} => b = Right(n, x)
    /\ kind \in {"ASR_imm", "ASR_reg"} => Computed!Signed(b) = Computed!Halved(x, n)
    /\ kind \in {"immediate", "ROR_imm", "ROR_reg"} => b = Turned(n, x)

PushedOut(kind, n, x, c, b, carry) ==
  ~Computed!CarryDeviates(kind, n) => carry = Computed!CarryOut(kind, n, x, c, b)

ShifterGives(o, k, kind, n, x, c) ==
  /\ o \in 0 .. Power[AluWidth] - 1 /\ k \in {0, 1}
  /\ ShiftedBy(kind, n, x, o)
  /\ PushedOut(kind, n, x, c, o, k)

\* The carry of the architecture, kind by kind.
LEMMA CarryOutIs ==
  ASSUME NEW kind, NEW n, NEW x, NEW c, NEW b, NEW amount, amount = Computed!Amount(kind, n)
  PROVE  /\ amount = 0 => Computed!CarryOut(kind, n, x, c, b) = c
         /\ amount # 0 =>
              /\ kind \in {"LSL_imm", "LSL_reg"} => Computed!CarryOut(kind, n, x, c, b) = OutLeft(amount, x)
              /\ kind \in {"LSR_imm", "LSR_reg", "ASR_imm", "ASR_reg"} =>
                   Computed!CarryOut(kind, n, x, c, b) = OutRight(amount, x)
              /\ kind \in {"ROR_imm", "ROR_reg"} => Computed!CarryOut(kind, n, x, c, b) = OutTurned(amount, x)
              /\ kind = "immediate" => Computed!CarryOut(kind, n, x, c, b) = Computed!Sign(b)
  BY ComputedPower DEF Computed!CarryOut, OutLeft, OutRight, OutTurned

\* The registers of a shift of a kind name an amount below the width, or any.
LEMMA AmountsAre ==
  ASSUME NEW w \in Nat, w = AluWidth, NEW P \in Nat, Computed!Word = 0 .. P - 1,
         NEW kind, NEW n \in Computed!Amounts(kind)
  PROVE  /\ n \in Nat
         /\ kind \in {"immediate", "LSL_imm", "LSR_imm", "ASR_imm", "ROR_imm"} => n < w
<1>1. CASE kind = "immediate"
  <2>1. n \in 0 .. w - 1
    BY <1>1 DEF Computed!Amounts
  <2>. QED
    BY <2>1
<1>2. CASE kind \in {"LSL_imm", "LSR_imm", "ASR_imm", "ROR_imm"}
  <2>1. n \in 0 .. w - 1
    BY <1>2 DEF Computed!Amounts
  <2>. QED
    BY <2>1
<1>3. CASE kind \notin {"immediate", "LSL_imm", "LSR_imm", "ASR_imm", "ROR_imm"}
  <2>1. n \in 0 .. P - 1
    BY <1>3 DEF Computed!Amounts
  <2>. QED
    BY <1>3, <2>1
<1>. QED
  BY <1>1, <1>2, <1>3

\* A shift left and its carry.
LEMMA LeftGives ==
  ASSUME NEW P \in Nat \ {0}, NEW H \in Nat \ {0}, AluWords(P, H), NEW w \in Nat \ {0}, w = AluWidth,
         NEW x \in 0 .. P - 1, NEW n \in Nat, NEW c \in {0, 1}, NEW kind \in {"LSL_imm", "LSL_reg"},
         NEW o \in Computed!ShiftLeft(x, n), NEW k \in {0, 1},
         NEW amount \in Nat, amount = Computed!Amount(kind, n),
         k = IF amount = 0 THEN c ELSE IF amount <= w THEN Bit(x, w - amount) ELSE 0
  PROVE  ShifterGives(o, k, kind, n, x, c)
<1>1. P = Power[AluWidth]
  BY DEF AluWords
<1>2. o \in 0 .. P - 1 /\ (n < w => o = Left(n, x))
  <2>1. /\ Computed!ShiftLeft(x, n) \subseteq 0 .. P - 1
        /\ n \in 0 .. AluWidth - 1 => Computed!ShiftLeft(x, n) = {(x * Power[n]) % P}
    BY ShiftsOfC, n \in Int, Zenon
  <2>2. n \in 0 .. AluWidth - 1 => Computed!ShiftLeft(x, n) = {Left(n, x)}
    BY ONLY <1>1, <2>1, Zenon DEF Left
  <2>3. n < w => n \in 0 .. AluWidth - 1
    OBVIOUS
  <2>. QED
    BY ONLY <2>1, <2>2, <2>3, o \in Computed!ShiftLeft(x, n), Zenon
<1>3. ShiftedBy(kind, n, x, o)
  <2>1. ~Computed!OperandDeviates(kind, n, x) => n < w
    BY DEF Computed!OperandDeviates
  <2>. QED
    BY ONLY <1>2, <2>1, kind \in {"LSL_imm", "LSL_reg"} DEF ShiftedBy
<1>4. ASSUME amount # 0 PROVE k = OutLeft(amount, x)
  <2>1. amount \in Nat \ {0}
    BY <1>4
  <2>2. ((x * Power[amount]) \div P) % 2 = IF amount <= AluWidth THEN Bit(x, AluWidth - amount) ELSE 0
    BY <2>1, OutOfLeft, Zenon
  <2>3. OutLeft(amount, x) = IF amount <= w THEN Bit(x, w - amount) ELSE 0
    BY ONLY <1>1, <2>2, w = AluWidth, Zenon DEF OutLeft
  <2>. QED
    BY <1>4, <2>3, Zenon
<1>5. k = Computed!CarryOut(kind, n, x, c, o)
  <2>1. amount = 0 => Computed!CarryOut(kind, n, x, c, o) = c
    BY Zenon DEF Computed!CarryOut
  <2>2. amount # 0 => Computed!CarryOut(kind, n, x, c, o) = OutLeft(amount, x)
    BY CarryOutIs, kind \in {"LSL_imm", "LSL_reg"}
  <2>. QED
    BY <1>4, <2>1, <2>2
<1>6. PushedOut(kind, n, x, c, o, k)
  BY <1>5, Zenon DEF PushedOut
<1>. QED
  BY <1>1, <1>2, <1>3, <1>6, Zenon DEF ShifterGives

\* The carry of a shift right, logical or by the width at most.
LEMMA RightCarries ==
  ASSUME NEW P \in Nat \ {0}, P = Power[AluWidth], NEW w \in Nat \ {0}, w = AluWidth,
         NEW x \in 0 .. P - 1, NEW n \in Nat, NEW c \in {0, 1},
         NEW kind \in {"LSR_imm", "LSR_reg", "ASR_imm", "ASR_reg"},
         NEW o, NEW k \in {0, 1}, NEW amount \in Nat, amount = Computed!Amount(kind, n),
         k = IF amount = 0 THEN c ELSE IF amount <= w THEN Bit(x, amount - 1) ELSE 0
  PROVE  k = Computed!CarryOut(kind, n, x, c, o)
<1>1. ASSUME amount # 0 PROVE k = OutRight(amount, x)
  <2>1. PICK m \in Nat : m = amount - 1
    BY <1>1
  <2>2. OutRight(amount, x) = Bit(x, amount - 1)
    BY Zenon DEF OutRight, Bit
  <2>3. ~(amount <= w) => Bit(x, m) = 0
    <3>1. ~(amount <= w) => m >= w
      BY <2>1
    <3>2. x \in 0 .. Power[w] - 1
      OBVIOUS
    <3>. QED
      BY <3>1, <3>2, BitBeyond
  <2>. QED
    BY <1>1, <2>1, <2>2, <2>3, Zenon
<1>2. amount = 0 => Computed!CarryOut(kind, n, x, c, o) = c
  BY Zenon DEF Computed!CarryOut
<1>3. amount # 0 => Computed!CarryOut(kind, n, x, c, o) = OutRight(amount, x)
  BY CarryOutIs, kind \in {"LSR_imm", "LSR_reg", "ASR_imm", "ASR_reg"}
<1>. QED
  BY <1>1, <1>2, <1>3

\* A logical shift right and its carry.
LEMMA RightGives ==
  ASSUME NEW P \in Nat \ {0}, NEW H \in Nat \ {0}, AluWords(P, H), NEW w \in Nat \ {0}, w = AluWidth,
         NEW x \in 0 .. P - 1, NEW n \in Nat, NEW c \in {0, 1}, NEW kind \in {"LSR_imm", "LSR_reg"},
         NEW o \in Computed!ShiftRight(x, n), NEW k \in {0, 1},
         NEW amount \in Nat, amount = Computed!Amount(kind, n),
         k = IF amount = 0 THEN c ELSE IF amount <= w THEN Bit(x, amount - 1) ELSE 0
  PROVE  ShifterGives(o, k, kind, n, x, c)
<1>1. P = Power[AluWidth]
  BY DEF AluWords
<1>2. o \in 0 .. P - 1 /\ (n < w => o = Right(n, x))
  <2>1. /\ Computed!ShiftRight(x, n) \subseteq 0 .. P - 1
        /\ n \in 0 .. AluWidth - 1 => Computed!ShiftRight(x, n) = {x \div Power[n]}
    <3>1. n \in Int
      OBVIOUS
    <3>2. Computed!ShiftRight(x, n) \subseteq 0 .. P - 1
      BY <3>1, ShiftsOfC, Zenon
    <3>3. n \in 0 .. AluWidth - 1 => Computed!ShiftRight(x, n) = {x \div Power[n]}
      BY <3>1, ShiftsOfC
    <3>. QED
      BY <3>2, <3>3, Zenon
  <2>2. n \in 0 .. AluWidth - 1 => Computed!ShiftRight(x, n) = {Right(n, x)}
    BY ONLY <1>1, <2>1, Zenon DEF Right
  <2>3. n < w => n \in 0 .. AluWidth - 1
    OBVIOUS
  <2>. QED
    BY ONLY <2>1, <2>2, <2>3, o \in Computed!ShiftRight(x, n), Zenon
<1>3. ShiftedBy(kind, n, x, o)
  <2>1. ~Computed!OperandDeviates(kind, n, x) => n < w
    BY DEF Computed!OperandDeviates
  <2>. QED
    BY ONLY <1>2, <2>1, kind \in {"LSR_imm", "LSR_reg"} DEF ShiftedBy
<1>4. k = Computed!CarryOut(kind, n, x, c, o)
  BY <1>1, RightCarries
<1>5. PushedOut(kind, n, x, c, o, k)
  BY <1>4, Zenon DEF PushedOut
<1>. QED
  BY <1>1, <1>2, <1>3, <1>5, Zenon DEF ShifterGives

\* An arithmetic shift right and its carry, by the width at most.
LEMMA SignedGives ==
  ASSUME NEW P \in Nat \ {0}, NEW H \in Nat \ {0}, AluWords(P, H), NEW w \in Nat \ {0}, w = AluWidth,
         NEW x \in 0 .. P - 1, NEW n \in Nat, NEW c \in {0, 1}, NEW kind \in {"ASR_imm", "ASR_reg"},
         NEW m \in Int, n < w => m = n,
         NEW o \in Computed!asr(x, m), NEW k \in {0, 1},
         NEW amount \in Nat, amount = Computed!Amount(kind, n),
         k = IF amount = 0 THEN c ELSE IF amount <= w THEN Bit(x, amount - 1) ELSE 0
  PROVE  ShifterGives(o, k, kind, n, x, c)
<1>1. P = Power[AluWidth]
  BY DEF AluWords
<1>2. /\ o \in 0 .. P - 1
      /\ m \in 1 .. AluWidth - 1 => Computed!Signed(o) = Computed!Halved(x, m)
      /\ m = 0 /\ Computed!Sign(x) # 1 => Computed!Signed(o) = Computed!Halved(x, 0)
  BY AsrIs
<1>3. ASSUME ~Computed!OperandDeviates(kind, n, x) PROVE Computed!Signed(o) = Computed!Halved(x, n)
  <2>1. n < w /\ (n = 0 => Computed!Sign(x) # 1)
    BY <1>3 DEF Computed!OperandDeviates
  <2>2. n = 0 => m = 0 /\ Computed!Sign(x) # 1
    BY <2>1
  <2>3. n # 0 => m = n /\ n \in 1 .. AluWidth - 1
    BY <2>1
  <2>. QED
    BY <1>2, <2>2, <2>3, Zenon
<1>4. ShiftedBy(kind, n, x, o)
  BY ONLY <1>3, kind \in {"ASR_imm", "ASR_reg"} DEF ShiftedBy
<1>5. k = Computed!CarryOut(kind, n, x, c, o)
  BY <1>1, RightCarries
<1>6. PushedOut(kind, n, x, c, o, k)
  BY <1>5, Zenon DEF PushedOut
<1>. QED
  BY <1>1, <1>2, <1>4, <1>6, Zenon DEF ShifterGives

\* A rotation and its carry.
LEMMA TurnedGives ==
  ASSUME NEW P \in Nat \ {0}, NEW H \in Nat \ {0}, AluWords(P, H), NEW w \in Nat \ {0}, w = AluWidth,
         NEW x \in 0 .. P - 1, NEW n \in Nat, NEW c \in {0, 1},
         NEW kind \in {"immediate", "ROR_imm", "ROR_reg"},
         NEW m \in Int, n < w => m = n,
         NEW o \in Computed!ror(x, m), NEW k \in {0, 1},
         NEW amount \in Nat, amount = Computed!Amount(kind, n),
         k = IF amount = 0 THEN c
             ELSE IF kind = "immediate" THEN Computed!Sign(o) ELSE OutTurned(amount, x)
  PROVE  ShifterGives(o, k, kind, n, x, c)
<1>1. P = Power[AluWidth]
  BY DEF AluWords
<1>2. o \in 0 .. P - 1 /\ (m \in 0 .. AluWidth - 1 =>
                             o = (x \div Power[m]) + ((x * Power[AluWidth - m]) % P))
  BY RorIs, Zenon
<1>3. m \in 0 .. AluWidth - 1 => o = Turned(m, x)
  BY ONLY <1>1, <1>2, Zenon DEF Turned
<1>4. n < w => n \in 0 .. AluWidth - 1
  OBVIOUS
<1>5. n < w => o = Turned(n, x)
  BY ONLY <1>3, <1>4, n < w => m = n, Zenon
<1>6. ShiftedBy(kind, n, x, o)
  <2>1. ~Computed!OperandDeviates(kind, n, x) => n < w
    BY DEF Computed!OperandDeviates
  <2>. QED
    BY ONLY <1>5, <2>1, kind \in {"immediate", "ROR_imm", "ROR_reg"} DEF ShiftedBy
<1>7. k = Computed!CarryOut(kind, n, x, c, o)
  <2>1. amount = 0 => Computed!CarryOut(kind, n, x, c, o) = c
    BY Zenon DEF Computed!CarryOut
  <2>2. amount # 0 /\ kind = "immediate" => Computed!CarryOut(kind, n, x, c, o) = Computed!Sign(o)
    BY CarryOutIs
  <2>3. amount # 0 /\ kind # "immediate" => Computed!CarryOut(kind, n, x, c, o) = OutTurned(amount, x)
    BY CarryOutIs, kind \in {"immediate", "ROR_imm", "ROR_reg"}
  <2>. QED
    BY <2>1, <2>2, <2>3
<1>8. PushedOut(kind, n, x, c, o, k)
  BY <1>7, Zenon DEF PushedOut
<1>. QED
  BY <1>1, <1>2, <1>6, <1>8, Zenon DEF ShifterGives

\* The shifter gives what ShiftsAreArithmetic says, for every kind.
LEMMA ShifterIs ==
  ASSUME Computed!AluAssumption, NEW kind \in Computed!AllKinds, NEW n \in Computed!Amounts(kind),
         NEW x \in Computed!Word, NEW c \in {0, 1},
         NEW out \in Computed!ShifterOperand(kind, n, x, c)
  PROVE  ShifterGives(out.operand, out.carry, kind, n, x, c)
<1>1. PICK P \in Nat \ {0}, H \in Nat \ {0} : AluWords(P, H)
  BY AluWordsAre DEF AluWords
<1>2. PICK w \in Nat \ {0} : w = AluWidth
  BY <1>1 DEF AluWords
<1>3. Computed!Word = 0 .. P - 1 /\ P = Power[AluWidth]
  BY <1>1 DEF AluWords
<1>4. x \in 0 .. P - 1
  BY <1>3
<1>5. /\ n \in Nat
      /\ kind \in {"immediate", "LSL_imm", "LSR_imm", "ASR_imm", "ROR_imm"} => n < w
  BY <1>2, <1>3, AmountsAre
<1>6. PICK y \in Nat \ {0} : y = AluBytes /\ w <= y
  BY <1>2 DEF Computed!AluAssumption
<1>7. PICK byte \in Nat : byte = n % AluBytes /\ (n < y => byte = n)
  <2>1. n % y \in Nat
    BY <1>5, Division
  <2>2. n < y => n % y = n
    <3>1. n < y => n = 0 * y + n /\ n \in 0 .. y - 1
      BY <1>5
    <3>. QED
      BY <1>5, <3>1, Quotient
  <2>. QED
    BY <1>6, <2>1, <2>2
<1>8. Computed!Sign(x) = Bit(x, w - 1)
  BY <1>1, <1>2, <1>4, SignOf
<1>9. \A m : Computed!LastOut(x, m) = Bit(x, m - 1) /\ Computed!Bit(x, m) = Bit(x, m)
  BY ComputedBit DEF Computed!LastOut
<1>10. \A i \in Nat : Bit(x, i) \in {0, 1}
  BY <1>4, BitType
<1>11. Computed!Sign(x) \in {0, 1}
  BY <1>8, <1>10
<1>12. PICK amount \in Nat : /\ amount = Computed!Amount(kind, n)
                              /\ amount = IF kind \in {"LSR_imm", "ASR_imm"} /\ n = 0 THEN w ELSE byte
  BY <1>2, <1>7 DEF Computed!Amount
<1>13. CASE kind = "LSL_imm"
  <2>1. PICK o \in Computed!ShiftLeft(x, n) :
          out = [operand |-> o, carry |-> IF n = 0 THEN c ELSE Bit(x, w - n)]
    BY <1>2, <1>9, <1>13 DEF Computed!ShifterOperand
  <2>2. PICK k \in {0, 1} : k = IF n = 0 THEN c ELSE Bit(x, w - n)
    BY <1>5, <1>10, <1>13
  <2>3. k = IF amount = 0 THEN c ELSE IF amount <= w THEN Bit(x, w - amount) ELSE 0
    BY <1>5, <1>6, <1>7, <1>13, <1>12, <2>2
  <2>4. ShifterGives(o, k, kind, n, x, c)
    BY <1>1, <1>2, <1>4, <1>5, <1>13, <1>12, <2>3, LeftGives
  <2>. QED
    BY <2>1, <2>2, <2>4
<1>14. CASE kind = "LSL_reg"
  <2>1. PICK o \in Computed!ShiftLeft(x, n) :
          out = [operand |-> o,
                 carry |-> Computed!RegisterCarry(byte, c, IF byte \in 1 .. w THEN Bit(x, w - byte) ELSE 0)]
    BY <1>2, <1>7, <1>9, <1>14 DEF Computed!ShifterOperand
  <2>2. PICK k \in {0, 1} : k = IF byte = 0 THEN c ELSE IF byte <= w THEN Bit(x, w - byte) ELSE 0
    BY <1>10
  <2>3. k = out.carry /\ o = out.operand
    BY <1>2, <2>1, <2>2 DEF Computed!RegisterCarry
  <2>4. k = IF amount = 0 THEN c ELSE IF amount <= w THEN Bit(x, w - amount) ELSE 0
    BY <1>14, <1>12, <2>2
  <2>5. ShifterGives(o, k, kind, n, x, c)
    BY <1>1, <1>2, <1>4, <1>5, <1>14, <1>12, <2>4, LeftGives
  <2>. QED
    BY <2>3, <2>5
<1>15. CASE kind = "LSR_imm"
  <2>1. PICK o \in Computed!ShiftRight(x, n) :
          out = [operand |-> o, carry |-> IF n = 0 THEN Computed!Sign(x) ELSE Bit(x, n - 1)]
    BY <1>9, <1>15 DEF Computed!ShifterOperand
  <2>2. PICK k \in {0, 1} : k = IF n = 0 THEN Computed!Sign(x) ELSE Bit(x, n - 1)
    BY <1>5, <1>10, <1>11
  <2>3. k = IF amount = 0 THEN c ELSE IF amount <= w THEN Bit(x, amount - 1) ELSE 0
    BY <1>5, <1>6, <1>7, <1>8, <1>15, <1>12, <2>2
  <2>4. ShifterGives(o, k, kind, n, x, c)
    BY <1>1, <1>2, <1>4, <1>5, <1>15, <1>12, <2>3, RightGives
  <2>. QED
    BY <2>1, <2>2, <2>4
<1>16. CASE kind = "LSR_reg"
  <2>1. PICK o \in Computed!ShiftRight(x, n) :
          out = [operand |-> o,
                 carry |-> Computed!RegisterCarry(byte, c, IF byte \in 1 .. w THEN Bit(x, byte - 1) ELSE 0)]
    BY <1>2, <1>7, <1>9, <1>16 DEF Computed!ShifterOperand
  <2>2. PICK k \in {0, 1} : k = IF byte = 0 THEN c ELSE IF byte <= w THEN Bit(x, byte - 1) ELSE 0
    BY <1>10
  <2>3. k = out.carry /\ o = out.operand
    BY <1>2, <2>1, <2>2 DEF Computed!RegisterCarry
  <2>4. k = IF amount = 0 THEN c ELSE IF amount <= w THEN Bit(x, amount - 1) ELSE 0
    BY <1>16, <1>12, <2>2
  <2>5. ShifterGives(o, k, kind, n, x, c)
    BY <1>1, <1>2, <1>4, <1>5, <1>16, <1>12, <2>4, RightGives
  <2>. QED
    BY <2>3, <2>5
<1>17. CASE kind = "ASR_imm"
  <2>1. PICK o \in Computed!asr(x, n) :
          out = [operand |-> o, carry |-> IF n = 0 THEN Computed!Sign(x) ELSE Bit(x, n - 1)]
    BY <1>9, <1>17 DEF Computed!ShifterOperand
  <2>2. PICK k \in {0, 1} : k = IF n = 0 THEN Computed!Sign(x) ELSE Bit(x, n - 1)
    BY <1>5, <1>10, <1>11
  <2>3. k = IF amount = 0 THEN c ELSE IF amount <= w THEN Bit(x, amount - 1) ELSE 0
    BY <1>5, <1>6, <1>7, <1>8, <1>17, <1>12, <2>2
  <2>4. ShifterGives(o, k, kind, n, x, c)
    BY <1>1, <1>2, <1>4, <1>5, <1>17, <1>12, <2>3, SignedGives
  <2>. QED
    BY <2>1, <2>2, <2>4
<1>18. CASE kind = "ASR_reg"
  <2>1. PICK o \in Computed!asr(x, byte) :
          out = [operand |-> o,
                 carry |-> Computed!RegisterCarry(byte, c, IF byte \in 1 .. w THEN Bit(x, byte - 1) ELSE 0)]
    BY <1>2, <1>7, <1>9, <1>18 DEF Computed!ShifterOperand
  <2>2. PICK k \in {0, 1} : k = IF byte = 0 THEN c ELSE IF byte <= w THEN Bit(x, byte - 1) ELSE 0
    BY <1>10
  <2>3. k = out.carry /\ o = out.operand
    BY <1>2, <2>1, <2>2 DEF Computed!RegisterCarry
  <2>4. n < w => byte = n
    BY <1>5, <1>6, <1>7
  <2>5. k = IF amount = 0 THEN c ELSE IF amount <= w THEN Bit(x, amount - 1) ELSE 0
    BY <1>18, <1>12, <2>2
  <2>6. ShifterGives(o, k, kind, n, x, c)
    BY <1>1, <1>2, <1>4, <1>5, <1>18, <1>12, <2>4, <2>5, SignedGives
  <2>. QED
    BY <2>3, <2>6
<1>19. CASE kind = "immediate"
  <2>1. PICK o \in Computed!ror(x, n) :
          out = [operand |-> o, carry |-> IF n = 0 THEN c ELSE Computed!Sign(o)]
    BY <1>19 DEF Computed!ShifterOperand
  <2>2. Computed!Sign(o) \in {0, 1}
    <3>1. o \in 0 .. P - 1
      BY <1>1, <1>4, <1>5, RorIs
    <3>. QED
      BY <1>1, <3>1, SignOf
  <2>3. PICK k \in {0, 1} : k = IF n = 0 THEN c ELSE Computed!Sign(o)
    BY <2>2
  <2>4. n < w /\ amount = n
    BY <1>2, <1>5, <1>6, <1>7, <1>19, <1>12
  <2>5. k = IF amount = 0 THEN c
            ELSE IF kind = "immediate" THEN Computed!Sign(o) ELSE OutTurned(amount, x)
    BY <1>19, <2>3, <2>4
  <2>6. ShifterGives(o, k, kind, n, x, c)
    BY <1>1, <1>2, <1>4, <1>5, <1>19, <1>12, <2>5, TurnedGives
  <2>. QED
    BY <2>1, <2>3, <2>6
<1>20. CASE kind = "ROR_imm"
  <2>1. PICK o \in Computed!ror(x, n) :
          out = [operand |-> o, carry |-> IF n = 0 THEN c ELSE Bit(x, n - 1)]
    BY <1>9, <1>20 DEF Computed!ShifterOperand
  <2>2. PICK k \in {0, 1} : k = IF n = 0 THEN c ELSE Bit(x, n - 1)
    BY <1>5, <1>10
  <2>3. n >= 1 => OutTurned(n, x) = Bit(x, n - 1)
    <3>1. n >= 1 => n - 1 = 0 * w + (n - 1) /\ n - 1 \in 0 .. w - 1
      BY <1>5, <1>20
    <3>2. n >= 1 => (n - 1) % w = n - 1
      BY <3>1, Quotient
    <3>. QED
      BY <1>2, <3>2 DEF OutTurned, Bit
  <2>4. k = IF amount = 0 THEN c
            ELSE IF kind = "immediate" THEN Computed!Sign(o) ELSE OutTurned(amount, x)
    BY <1>2, <1>5, <1>6, <1>7, <1>20, <1>12, <2>2, <2>3
  <2>5. ShifterGives(o, k, kind, n, x, c)
    BY <1>1, <1>2, <1>4, <1>5, <1>20, <1>12, <2>4, TurnedGives
  <2>. QED
    BY <2>1, <2>2, <2>5
<1>21. CASE kind = "ROR_reg"
  <2>1. PICK o \in Computed!ror(x, byte) :
          out = [operand |-> o,
                 carry |-> IF byte = 0 THEN c
                           ELSE IF byte % w = 0 THEN Bit(x, w - 1) ELSE Bit(x, (byte % w) - 1)]
    BY <1>2, <1>7, <1>8, <1>9, <1>21 DEF Computed!ShifterOperand
  <2>2. PICK d \in Int, m \in 0 .. w - 1 : m = byte % w /\ byte = d * w + m
    BY Division, byte \in Int, Zenon
  <2>3. PICK k \in {0, 1} : k = IF byte = 0 THEN c ELSE IF m = 0 THEN Bit(x, w - 1) ELSE Bit(x, m - 1)
    BY <1>10
  <2>4. k = out.carry /\ o = out.operand
    BY <2>1, <2>2, <2>3
  <2>5. (byte - 1) % w = IF m = 0 THEN w - 1 ELSE m - 1
    <3>1. CASE m = 0
      <4>1. byte - 1 = (d - 1) * w + (w - 1) /\ w - 1 \in 0 .. w - 1 /\ d - 1 \in Int /\ byte - 1 \in Int
        BY <2>2, <3>1
      <4>. QED
        BY <3>1, <4>1, Quotient
    <3>2. CASE m # 0
      <4>1. byte - 1 = d * w + (m - 1) /\ m - 1 \in 0 .. w - 1 /\ byte - 1 \in Int
        BY <2>2, <3>2
      <4>. QED
        BY <3>2, <4>1, Quotient
    <3>. QED
      BY <3>1, <3>2
  <2>6. OutTurned(byte, x) = IF m = 0 THEN Bit(x, w - 1) ELSE Bit(x, m - 1)
    BY <1>2, <2>5 DEF OutTurned, Bit
  <2>7. k = IF amount = 0 THEN c
            ELSE IF kind = "immediate" THEN Computed!Sign(o) ELSE OutTurned(amount, x)
    BY <1>21, <1>12, <2>3, <2>6
  <2>8. n < w => byte = n
    BY <1>5, <1>6, <1>7
  <2>9. ShifterGives(o, k, kind, n, x, c)
    BY <1>1, <1>2, <1>4, <1>5, <1>21, <1>12, <2>7, <2>8, TurnedGives
  <2>. QED
    BY <2>4, <2>9
<1>. QED
  BY <1>13, <1>14, <1>15, <1>16, <1>17, <1>18, <1>19, <1>20, <1>21 DEF Computed!AllKinds

\* The operations give words.
LEMMA OperateType ==
  ASSUME Computed!AluAssumption, NEW op \in Computed!Opcodes, NEW a \in Computed!Word,
         NEW b \in Computed!Word
  PROVE  Computed!Operate(op, a, b) \in Computed!Word
<1>1. PICK P \in Nat \ {0}, H \in Nat \ {0} : AluWords(P, H)
  BY AluWordsAre DEF AluWords
<1>2. PICK w \in Nat \ {0} : w = AluWidth
  BY <1>1 DEF AluWords
<1>3. Computed!Word = 0 .. P - 1 /\ P = Power[AluWidth] /\ Computed!AllOnes = P - 1
  BY <1>1 DEF AluWords
<1>4. a \in 0 .. P - 1 /\ b \in 0 .. P - 1
  BY <1>3
<1>5. \A x, y \in Int : /\ Computed!And(x, y, AluWidth) \in 0 .. P - 1
                        /\ Computed!Or(x, y, AluWidth) \in 0 .. P - 1
                        /\ Computed!Xor(x, y, AluWidth) \in 0 .. P - 1
  <2>. SUFFICES ASSUME NEW x \in Int, NEW y \in Int
                PROVE /\ Computed!And(x, y, AluWidth) \in 0 .. P - 1
                      /\ Computed!Or(x, y, AluWidth) \in 0 .. P - 1
                      /\ Computed!Xor(x, y, AluWidth) \in 0 .. P - 1
    OBVIOUS
  <2>1. /\ And(x, y, w) \in 0 .. Power[w] - 1
        /\ Or(x, y, w) \in 0 .. Power[w] - 1
        /\ Xor(x, y, w) \in 0 .. Power[w] - 1
    BY OperatorBits, Zenon
  <2>. QED
    BY <1>2, <1>3, <2>1, ComputedAnd, ComputedOr, ComputedXor, Zenon
<1>6. \A y \in Int : Computed!Modulo(y) \in 0 .. P - 1
  <2>. SUFFICES ASSUME NEW y \in Int PROVE Computed!Modulo(y) \in 0 .. P - 1
    OBVIOUS
  <2>1. Computed!Modulo(y) = y % P
    BY <1>3, ComputedPower DEF Computed!Modulo
  <2>. QED
    BY <2>1, Division
<1>7. Computed!Complement(a) \in Int /\ Computed!Complement(b) \in Int
  BY <1>3, <1>4 DEF Computed!Complement
<1>8. Computed!Difference(a, b) \in 0 .. P - 1 /\ Computed!Difference(b, a) \in 0 .. P - 1
  BY <1>4, <1>6, <1>7 DEF Computed!Difference
<1>9. Computed!Modulo(a + b) \in 0 .. P - 1
  BY <1>4, <1>6
<1>10. a \in Int /\ b \in Int
  BY <1>4
<1>11. CASE op \in {"AND", "TST"}
  BY <1>3, <1>5, <1>10, <1>11 DEF Computed!Operate
<1>12. CASE op \in {"EOR", "TEQ"}
  BY <1>3, <1>5, <1>10, <1>12 DEF Computed!Operate
<1>13. CASE op \in {"SUB", "SBC", "CMP"}
  BY <1>3, <1>8, <1>13 DEF Computed!Operate
<1>14. CASE op \in {"RSB", "RSC"}
  BY <1>3, <1>8, <1>14 DEF Computed!Operate
<1>15. CASE op \in {"ADD", "ADC", "CMN"}
  BY <1>3, <1>9, <1>15 DEF Computed!Operate
<1>16. CASE op = "ORR"
  BY <1>3, <1>5, <1>10, <1>16 DEF Computed!Operate
<1>17. CASE op \in {"MOV", "MVN"}
  BY <1>17 DEF Computed!Operate
<1>18. CASE op = "BIC"
  BY <1>3, <1>5, <1>7, <1>10, <1>18 DEF Computed!Operate
<1>. QED
  BY <1>11, <1>12, <1>13, <1>14, <1>15, <1>16, <1>17, <1>18 DEF Computed!Opcodes

\* The sum of two words, its carry and its overflow.
LEMMA SumOf ==
  ASSUME NEW P \in Nat \ {0}, NEW H \in Nat \ {0}, P = 2 * H, NEW a \in 0 .. P - 1, NEW b \in 0 .. P - 1
  PROVE  /\ (a + b) % P = IF a + b < P THEN a + b ELSE a + b - P
         /\ (b > (a + b) % P \/ a > (a + b) % P) <=> a + b >= P
<1>1. (a + b) % P = IF a + b < P THEN a + b ELSE a + b - P
  <2>1. CASE a + b < P
    <3>1. a + b = 0 * P + (a + b) /\ a + b \in 0 .. P - 1
      BY <2>1
    <3>. QED
      BY <2>1, <3>1, Quotient
  <2>2. CASE ~(a + b < P)
    <3>1. a + b = 1 * P + (a + b - P) /\ a + b - P \in 0 .. P - 1
      BY <2>2
    <3>. QED
      BY <2>2, <3>1, Quotient
  <2>. QED
    BY <2>1, <2>2
<1>. QED
  BY <1>1

-----------------------------------------------------------------------------
FlagsType == flags \in [n : {0, 1}, z : {0, 1}, c : {0, 1}, v : {0, 1}]

\* The inductive invariant: the properties speak of the last instruction alone.
AluInv == FlagsType /\ Computed!ShiftsAreArithmetic /\ Computed!ConditionsOfSum

\* What the last instruction was, and what the flags became.
Done(op, s, kind, n, x, a, out, value, final) ==
  /\ flags' = IF s \/ op \in Computed!Comparisons
              THEN Computed!ZNCV_update(flags, final,
                     op \in Computed!Additions \union Computed!Subtractions,
                     Computed!Carry(op, a, out.operand, value, out.carry),
                     Computed!oVerflow(a, out.operand, value))
              ELSE flags
  /\ operation' = [op |-> op, s |-> s, kind |-> kind, n |-> n, x |-> x, a |-> a, b |-> out.operand,
                   c |-> flags.c, v |-> flags.v,
                   rd |-> IF op = "MVN" THEN Computed!Complement(final) ELSE final]

\* An operation whose shifter is right keeps the first part of the invariant.
LEMMA ShiftsStep ==
  ASSUME FlagsType, NEW op, NEW s, NEW kind, NEW n, NEW x, NEW a, NEW out, NEW value, NEW final,
         ShifterGives(out.operand, out.carry, kind, n, x, flags.c),
         Done(op, s, kind, n, x, a, out, value, final)
  PROVE  Computed!ShiftsAreArithmetic'
<1>. DEFINE b == out.operand
            k == out.carry
<1>1. k \in {0, 1}
  BY DEF ShifterGives
<1>2. ShiftedBy(kind, n, x, b) /\ PushedOut(kind, n, x, flags.c, b, k)
  BY DEF ShifterGives
<1>3. /\ operation'.kind = kind /\ operation'.n = n /\ operation'.x = x /\ operation'.b = b
      /\ operation'.op = op /\ operation'.s = s /\ operation'.c = flags.c /\ operation'.v = flags.v
  BY DEF Done
<1>. HIDE DEF b
<1>4. Computed!OperandIsShifted'
  <2>. SUFFICES ASSUME ~Computed!OperandDeviates(kind, n, x)
                PROVE  /\ kind \in {"LSL_imm", "LSL_reg"} => b = Computed!Modulo(x * Power[n])
                       /\ kind \in {"LSR_imm", "LSR_reg"} => b = x \div Power[n]
                       /\ kind \in {"ASR_imm", "ASR_reg"} => Computed!Signed(b) = Computed!Halved(x, n)
                       /\ kind \in {"immediate", "ROR_imm", "ROR_reg"} =>
                            b = (x \div Power[n]) + Computed!Modulo(x * Power[AluWidth - n])
    BY <1>3, ComputedPower, Zenon DEF Computed!OperandIsShifted
  <2>1. kind \in {"LSL_imm", "LSL_reg"} => b = Computed!Modulo(x * Power[n])
    BY <1>2, ComputedPower, Zenon DEF ShiftedBy, Left, Computed!Modulo
  <2>2. kind \in {"LSR_imm", "LSR_reg"} => b = x \div Power[n]
    BY <1>2, Zenon DEF ShiftedBy, Right
  <2>3. kind \in {"ASR_imm", "ASR_reg"} => Computed!Signed(b) = Computed!Halved(x, n)
    BY <1>2, Zenon DEF ShiftedBy
  <2>4. kind \in {"immediate", "ROR_imm", "ROR_reg"} =>
          b = (x \div Power[n]) + Computed!Modulo(x * Power[AluWidth - n])
    BY <1>2, ComputedPower, Zenon DEF ShiftedBy, Turned, Computed!Modulo
  <2>. QED
    BY <2>1, <2>2, <2>3, <2>4, Zenon
<1>5. Computed!ShiftedOutIsCarry'
  <2>. SUFFICES ASSUME Computed!SetsFlags(operation'), op \notin Computed!Additions \union Computed!Subtractions
                PROVE  /\ flags'.v = flags.v
                       /\ ~Computed!CarryDeviates(kind, n) =>
                            flags'.c = Computed!CarryOut(kind, n, x, flags.c, b)
    BY <1>3, Zenon DEF Computed!ShiftedOutIsCarry
  <2>1. s \/ op \in Computed!Comparisons
    BY <1>3 DEF Computed!SetsFlags
  <2>2. flags'.v = flags.v /\ flags'.c = IF k # 0 THEN 1 ELSE 0
    BY <1>1, <2>1 DEF Done, Computed!ZNCV_update, Computed!Carry
  <2>3. flags'.c = k
    BY <1>1, <2>2
  <2>. QED
    BY <1>2, <2>2, <2>3, Zenon DEF PushedOut
<1>. QED
  BY <1>4, <1>5 DEF Computed!ShiftsAreArithmetic

\* The conditions of an operation that sets the flags.
LEMMA ConditionPairs ==
  ASSUME NEW f \in [n : {0, 1}, z : {0, 1}, c : {0, 1}, v : {0, 1}]
  PROVE  \A pair \in 0 .. 7 : Computed!condition(2 * pair, f) # Computed!condition(2 * pair + 1, f)
<1>. SUFFICES ASSUME NEW pair \in 0 .. 7
              PROVE Computed!condition(2 * pair, f) # Computed!condition(2 * pair + 1, f)
  OBVIOUS
<1>1. f.n \in {0, 1} /\ f.z \in {0, 1} /\ f.c \in {0, 1} /\ f.v \in {0, 1}
  OBVIOUS
<1>2. (f.c = 1 /\ f.z = 0) # (f.c = 0 \/ f.z = 1)
  BY <1>1
<1>3. (f.n = f.v /\ f.z = 0) # (f.n # f.v \/ f.z = 1)
  BY <1>1
<1>4. (f.z = 1) # (f.z = 0) /\ (f.c = 1) # (f.c = 0) /\ (f.n = 1) # (f.n = 0) /\ (f.v = 1) # (f.v = 0)
      /\ (f.n = f.v) # (f.n # f.v) /\ TRUE # FALSE
  BY <1>1
<1>5. CASE pair = 0
  <2>1. Computed!condition(0, f) # Computed!condition(1, f)
    <3>1. Computed!condition(0, f) = (f.z = 1)
      BY DEF Computed!condition
    <3>2. Computed!condition(1, f) = (f.z = 0)
      BY DEF Computed!condition
    <3>. QED
      BY ONLY <1>4, <3>1, <3>2, Zenon
  <2>2. 2 * pair = 0 /\ 2 * pair + 1 = 1
    BY <1>5
  <2>. QED
    BY ONLY <2>1, <2>2, Zenon
<1>6. CASE pair = 1
  <2>1. Computed!condition(2, f) # Computed!condition(3, f)
    <3>1. Computed!condition(2, f) = (f.c = 1)
      BY DEF Computed!condition
    <3>2. Computed!condition(3, f) = (f.c = 0)
      BY DEF Computed!condition
    <3>. QED
      BY ONLY <1>4, <3>1, <3>2, Zenon
  <2>2. 2 * pair = 2 /\ 2 * pair + 1 = 3
    BY <1>6
  <2>. QED
    BY ONLY <2>1, <2>2, Zenon
<1>7. CASE pair = 2
  <2>1. Computed!condition(4, f) # Computed!condition(5, f)
    <3>1. Computed!condition(4, f) = (f.n = 1)
      BY DEF Computed!condition
    <3>2. Computed!condition(5, f) = (f.n = 0)
      BY DEF Computed!condition
    <3>. QED
      BY ONLY <1>4, <3>1, <3>2, Zenon
  <2>2. 2 * pair = 4 /\ 2 * pair + 1 = 5
    BY <1>7
  <2>. QED
    BY ONLY <2>1, <2>2, Zenon
<1>8. CASE pair = 3
  <2>1. Computed!condition(6, f) # Computed!condition(7, f)
    <3>1. Computed!condition(6, f) = (f.v = 1)
      BY DEF Computed!condition
    <3>2. Computed!condition(7, f) = (f.v = 0)
      BY DEF Computed!condition
    <3>. QED
      BY ONLY <1>4, <3>1, <3>2, Zenon
  <2>2. 2 * pair = 6 /\ 2 * pair + 1 = 7
    BY <1>8
  <2>. QED
    BY ONLY <2>1, <2>2, Zenon
<1>9. CASE pair = 4
  <2>1. Computed!condition(8, f) # Computed!condition(9, f)
    <3>1. Computed!condition(8, f) = (f.c = 1 /\ f.z = 0)
      BY DEF Computed!condition
    <3>2. Computed!condition(9, f) = (f.c = 0 \/ f.z = 1)
      BY DEF Computed!condition
    <3>. QED
      BY ONLY <1>2, <3>1, <3>2, Zenon
  <2>2. 2 * pair = 8 /\ 2 * pair + 1 = 9
    BY <1>9
  <2>. QED
    BY ONLY <2>1, <2>2, Zenon
<1>10. CASE pair = 5
  <2>1. Computed!condition(10, f) # Computed!condition(11, f)
    <3>1. Computed!condition(10, f) = (f.n = f.v)
      BY DEF Computed!condition
    <3>2. Computed!condition(11, f) = (f.n # f.v)
      BY DEF Computed!condition
    <3>. QED
      BY ONLY <1>4, <3>1, <3>2, Zenon
  <2>2. 2 * pair = 10 /\ 2 * pair + 1 = 11
    BY <1>10
  <2>. QED
    BY ONLY <2>1, <2>2, Zenon
<1>11. CASE pair = 6
  <2>1. Computed!condition(12, f) # Computed!condition(13, f)
    <3>1. Computed!condition(12, f) = (f.n = f.v /\ f.z = 0)
      BY DEF Computed!condition
    <3>2. Computed!condition(13, f) = (f.n # f.v \/ f.z = 1)
      BY DEF Computed!condition
    <3>. QED
      BY ONLY <1>3, <3>1, <3>2, Zenon
  <2>2. 2 * pair = 12 /\ 2 * pair + 1 = 13
    BY <1>11
  <2>. QED
    BY ONLY <2>1, <2>2, Zenon
<1>12. CASE pair = 7
  <2>1. Computed!condition(14, f) # Computed!condition(15, f)
    <3>1. Computed!condition(14, f) = (TRUE)
      BY DEF Computed!condition
    <3>2. Computed!condition(15, f) = (FALSE)
      BY DEF Computed!condition
    <3>. QED
      BY ONLY <1>4, <3>1, <3>2, Zenon
  <2>2. 2 * pair = 14 /\ 2 * pair + 1 = 15
    BY <1>12
  <2>. QED
    BY ONLY <2>1, <2>2, Zenon
<1>. QED
  BY <1>5, <1>6, <1>7, <1>8, <1>9, <1>10, <1>11, <1>12

\* The conditions of a sum, where the flags are those of ADD.
SumConditions(a, b, f) ==
  /\ f.z = 1 <=> Computed!Modulo(a + b) = 0
  /\ f.c = 1 <=> a + b \notin Computed!Word
  /\ f.n = 1 <=> Computed!Sign(Computed!Modulo(a + b)) = 1
  /\ f.v = 1 <=> Computed!Signed(a) + Computed!Signed(b) \notin -(Power[AluWidth - 1]) .. (Power[AluWidth - 1] - 1)
  /\ (f.c = 1 /\ f.z = 0) <=> a + b > Power[AluWidth]
  /\ (f.n = f.v) <=> Computed!Signed(a) + Computed!Signed(b) >= 0
  /\ (f.n = f.v /\ f.z = 0) <=> Computed!Signed(a) + Computed!Signed(b) > 0

\* What value, i, j and the four flags n, z, c and v are for the numbers a and b below P = 2 * H.
SumFlags(P, H, a, b, value, i, j, n, z, c, v) ==
  /\ value = IF a + b < P THEN a + b ELSE a + b - P
  /\ i = IF a >= H THEN a - P ELSE a
  /\ j = IF b >= H THEN b - P ELSE b
  /\ n = IF value >= H THEN 1 ELSE 0
  /\ z = IF value = 0 THEN 1 ELSE 0
  /\ c = IF a + b >= P THEN 1 ELSE 0
  /\ v = IF (a >= H <=> b >= H) /\ ~(value >= H <=> b >= H) THEN 1 ELSE 0

\* What those flags say of the sum of a and b, and of i and j, the same words read as signed numbers.
SumRelations(P, H, a, b, value, i, j, n, z, c, v) ==
  /\ z = 1 <=> value = 0
  /\ c = 1 <=> ~(a + b \in 0 .. P - 1)
  /\ n = 1 <=> value >= H
  /\ v = 1 <=> ~(i + j \in -H .. H - 1)
  /\ (c = 1 /\ z = 0) <=> a + b > P
  /\ (n = v) <=> i + j >= 0
  /\ (n = v /\ z = 0) <=> i + j > 0

\* What the flags of a sum say is arithmetic.
LEMMA SumArithmetic ==
  ASSUME NEW P \in Nat \ {0}, NEW H \in Nat \ {0}, P = 2 * H, NEW a \in 0 .. P - 1, NEW b \in 0 .. P - 1,
         NEW value \in Int, NEW i \in Int, NEW j \in Int, NEW n, NEW z, NEW c, NEW v,
         SumFlags(P, H, a, b, value, i, j, n, z, c, v)
  PROVE  SumRelations(P, H, a, b, value, i, j, n, z, c, v)
BY DEF SumFlags, SumRelations

\* The flags of an addition are those of its sum.
LEMMA SumConditionsHold ==
  ASSUME Computed!AluAssumption, NEW op \in {"ADD", "CMN"}, NEW a \in Computed!Word, NEW b \in Computed!Word,
         NEW f, NEW shifted, NEW g, NEW arithmetic, arithmetic = TRUE,
         f = Computed!ZNCV_update(g, Computed!Modulo(a + b), arithmetic,
               Computed!Carry(op, a, b, Computed!Modulo(a + b), shifted),
               Computed!oVerflow(a, b, Computed!Modulo(a + b)))
  PROVE  SumConditions(a, b, f)
<1>1. PICK P \in Nat \ {0}, H \in Nat \ {0} : AluWords(P, H)
  BY AluWordsAre DEF AluWords
<1>2. P = 2 * H /\ P = Power[AluWidth] /\ H = Power[AluWidth - 1] /\ Computed!Word = 0 .. P - 1
  BY <1>1 DEF AluWords
<1>3. a \in 0 .. P - 1 /\ b \in 0 .. P - 1
  BY <1>2
<1>4. PICK value \in 0 .. P - 1 : value = Computed!Modulo(a + b)
                                  /\ value = IF a + b < P THEN a + b ELSE a + b - P
  <2>1. Computed!Modulo(a + b) = (a + b) % P
    BY <1>2, ComputedPower DEF Computed!Modulo
  <2>2. (a + b) % P = IF a + b < P THEN a + b ELSE a + b - P
    BY <1>2, <1>3, SumOf
  <2>. QED
    BY <1>3, <2>1, <2>2
<1>5. \A y \in 0 .. P - 1 : /\ Computed!Sign(y) = (IF y >= H THEN 1 ELSE 0)
                            /\ Computed!Signed(y) = (IF y >= H THEN y - P ELSE y)
  BY <1>1, SignOf
<1>6. PICK i \in Int, j \in Int : /\ i = Computed!Signed(a) /\ i = (IF a >= H THEN a - P ELSE a)
                                  /\ j = Computed!Signed(b) /\ j = (IF b >= H THEN b - P ELSE b)
  BY <1>3, <1>5
<1>7. /\ f.n = (IF value >= H THEN 1 ELSE 0)
      /\ f.z = (IF value = 0 THEN 1 ELSE 0)
  BY <1>4, <1>5 DEF Computed!ZNCV_update
<1>8. f.c = IF a + b >= P THEN 1 ELSE 0
  <2>1. Computed!Carry(op, a, b, value, shifted) = IF b > value \/ a > value THEN 1 ELSE 0
    BY DEF Computed!Carry, Computed!Additions, Computed!CarryFrom
  <2>2. f.c = IF Computed!Carry(op, a, b, value, shifted) # 0 THEN 1 ELSE 0
    BY <1>4 DEF Computed!ZNCV_update
  <2>3. (b > value \/ a > value) <=> a + b >= P
    BY <1>3, <1>4
  <2>. QED
    BY <2>1, <2>2, <2>3
<1>9. f.v = IF (a >= H <=> b >= H) /\ ~(value >= H <=> b >= H) THEN 1 ELSE 0
  <2>1. f.v = Computed!oVerflow(a, b, value)
    BY <1>4 DEF Computed!ZNCV_update
  <2>2. /\ Computed!Sign(a) = (IF a >= H THEN 1 ELSE 0)
        /\ Computed!Sign(b) = (IF b >= H THEN 1 ELSE 0)
        /\ Computed!Sign(value) = (IF value >= H THEN 1 ELSE 0)
    BY <1>3, <1>5
  <2>. QED
    BY <2>1, <2>2 DEF Computed!oVerflow
<1>10. Computed!Sign(value) = 1 <=> value >= H
  BY <1>5
<1>11. PICK n \in {0, 1}, z \in {0, 1}, c \in {0, 1}, v \in {0, 1} :
         n = f.n /\ z = f.z /\ c = f.c /\ v = f.v
  BY <1>7, <1>8, <1>9
<1>12. SumFlags(P, H, a, b, value, i, j, n, z, c, v)
  <2>1. n = IF value >= H THEN 1 ELSE 0
    BY ONLY <1>7, <1>11, Zenon
  <2>2. z = IF value = 0 THEN 1 ELSE 0
    BY ONLY <1>7, <1>11, Zenon
  <2>3. c = IF a + b >= P THEN 1 ELSE 0
    BY ONLY <1>8, <1>11, Zenon
  <2>4. v = IF (a >= H <=> b >= H) /\ ~(value >= H <=> b >= H) THEN 1 ELSE 0
    BY ONLY <1>9, <1>11, Zenon
  <2>. QED
    BY ONLY <1>4, <1>6, <2>1, <2>2, <2>3, <2>4, Zenon DEF SumFlags
<1>13. SumRelations(P, H, a, b, value, i, j, n, z, c, v)
  <2>1. value \in Int /\ P = 2 * H
    BY <1>2
  <2>. QED
    BY ONLY <1>3, <1>12, <2>1, SumArithmetic, P \in Nat \ {0}, H \in Nat \ {0}, i \in Int, j \in Int, Zenon
<1>. QED
  BY ONLY <1>2, <1>4, <1>6, <1>10, <1>11, <1>13, Zenon DEF SumConditions, SumRelations

\* The conditions after an instruction are those of ConditionsOfSum, and the flags are bits.
LEMMA ConditionsStep ==
  ASSUME Computed!AluAssumption, FlagsType, NEW op \in Computed!Opcodes, NEW s \in BOOLEAN, NEW kind, NEW n,
         NEW x, NEW a \in Computed!Word, NEW out, NEW value, NEW final,
         out.operand \in Computed!Word, out.carry \in {0, 1},
         value = Computed!Operate(op, a, out.operand), final = Computed!Adjusted(op, value, flags.c),
         Done(op, s, kind, n, x, a, out, value, final)
  PROVE  (FlagsType /\ Computed!ConditionsOfSum)'
<1>1. PICK P \in Nat \ {0}, H \in Nat \ {0} : AluWords(P, H)
  BY AluWordsAre DEF AluWords
<1>2. Computed!Word = 0 .. P - 1 /\ P = Power[AluWidth]
  BY <1>1 DEF AluWords
<1>3. PICK b \in Computed!Word : b = out.operand
  OBVIOUS
<1>4. value \in 0 .. P - 1
  BY <1>2, OperateType
<1>5. final \in 0 .. P - 1
  <2>1. flags.c \in {0, 1}
    BY DEF FlagsType
  <2>2. \A y \in Int : Computed!Modulo(y) \in 0 .. P - 1
    <3>. SUFFICES ASSUME NEW y \in Int PROVE Computed!Modulo(y) \in 0 .. P - 1
      OBVIOUS
    <3>1. Computed!Modulo(y) = y % P
      BY <1>2, ComputedPower, Zenon DEF Computed!Modulo
    <3>. QED
      BY <3>1, Division
  <2>3. value + flags.c \in Int /\ value + flags.c + 1 \in Int
    BY <1>4, <2>1
  <2>. QED
    BY <1>4, <2>2, <2>3 DEF Computed!Adjusted
<1>6. Computed!Sign(final) \in {0, 1}
  BY <1>1, <1>5, SignOf
<1>7. Computed!oVerflow(a, b, value) \in {0, 1}
  BY DEF Computed!oVerflow
<1>8. s \/ op \in Computed!Comparisons =>
        flags'.n = Computed!Sign(final) /\ (flags'.z = 1 <=> final = 0)
  BY DEF Done, Computed!ZNCV_update
<1>9. flags' \in [n : {0, 1}, z : {0, 1}, c : {0, 1}, v : {0, 1}]
  <2>1. CASE s \/ op \in Computed!Comparisons
    BY <1>3, <1>6, <1>7, <2>1 DEF Done, Computed!ZNCV_update, FlagsType
  <2>2. CASE ~(s \/ op \in Computed!Comparisons)
    BY <2>2 DEF Done, FlagsType
  <2>. QED
    BY <2>1, <2>2
<1>10. /\ operation'.op = op /\ operation'.s = s /\ operation'.a = a /\ operation'.b = b
       /\ operation'.rd = IF op = "MVN" THEN Computed!Complement(final) ELSE final
  BY <1>3 DEF Done
<1>11. ASSUME Computed!SetsFlags(operation'), op \in {"ADD", "CMN"}
       PROVE  SumConditions(a, b, flags')
  <2>1. s \/ op \in Computed!Comparisons
    BY <1>10, <1>11 DEF Computed!SetsFlags
  <2>2. value = Computed!Modulo(a + b) /\ final = value
    BY <1>3, <1>11 DEF Computed!Operate, Computed!Adjusted
  <2>3. (op \in Computed!Additions \union Computed!Subtractions) = TRUE
    BY <1>11 DEF Computed!Additions
  <2>4. flags' = Computed!ZNCV_update(flags, Computed!Modulo(a + b), TRUE,
                   Computed!Carry(op, a, b, Computed!Modulo(a + b), out.carry),
                   Computed!oVerflow(a, b, Computed!Modulo(a + b)))
    BY ONLY Done(op, s, kind, n, x, a, out, value, final), <1>3, <2>1, <2>2, <2>3 DEF Done
  <2>. QED
    BY ONLY Computed!AluAssumption, op \in {"ADD", "CMN"}, a \in Computed!Word, b \in Computed!Word, <1>11, <2>4,
            SumConditionsHold, Zenon
<1>12. Computed!ConditionsOfSum'
  <2>. SUFFICES ASSUME Computed!SetsFlags(operation')
                PROVE  /\ op \in {"ADD", "CMN"} => SumConditions(a, b, flags')
                       /\ \A pair \in 0 .. 7 : Computed!condition(2 * pair, flags') # Computed!condition(2 * pair + 1, flags')
                       /\ op # "MVN" => /\ flags'.n = Computed!Sign(final)
                                        /\ flags'.z = 1 <=> final = 0
    <3>1. SumConditions(a, b, flags') =>
            /\ Computed!condition(0, flags') <=> Computed!Modulo(a + b) = 0
            /\ Computed!condition(2, flags') <=> a + b \notin Computed!Word
            /\ Computed!condition(4, flags') <=> Computed!Sign(Computed!Modulo(a + b)) = 1
            /\ Computed!condition(6, flags') <=> Computed!Signed(a) + Computed!Signed(b)
                                                   \notin -(Power[AluWidth - 1]) .. (Power[AluWidth - 1] - 1)
            /\ Computed!condition(8, flags') <=> a + b > Power[AluWidth]
            /\ Computed!condition(10, flags') <=> Computed!Signed(a) + Computed!Signed(b) >= 0
            /\ Computed!condition(12, flags') <=> Computed!Signed(a) + Computed!Signed(b) > 0
      <4>1. /\ Computed!condition(0, flags') = (flags'.z = 1)
            /\ Computed!condition(2, flags') = (flags'.c = 1)
            /\ Computed!condition(4, flags') = (flags'.n = 1)
            /\ Computed!condition(6, flags') = (flags'.v = 1)
            /\ Computed!condition(8, flags') = (flags'.c = 1 /\ flags'.z = 0)
            /\ Computed!condition(10, flags') = (flags'.n = flags'.v)
            /\ Computed!condition(12, flags') = (flags'.n = flags'.v /\ flags'.z = 0)
        BY DEF Computed!condition
      <4>. QED
        BY ONLY <4>1, Zenon DEF SumConditions
    <3>2. op # "MVN" => operation'.rd = final
      BY <1>10
    <3>. QED
      BY <1>10, <3>1, <3>2, ComputedPower, Zenon DEF Computed!ConditionsOfSum
  <2>1. s \/ op \in Computed!Comparisons
    BY <1>10 DEF Computed!SetsFlags
  <2>. QED
    BY <1>8, <1>9, <1>11, <2>1, ConditionPairs
<1>. QED
  BY <1>9, <1>12 DEF FlagsType

\* Every step of the calculations keeps their invariant.
LEMMA AluStep == Computed!AluAssumption /\ AluInv /\ [Computed!Next]_(Computed!avars) => AluInv'
<1>1. ASSUME Computed!AluAssumption, AluInv, Computed!Next
      PROVE  AluInv'
  <2>1. PICK op \in AluOperations, s \in BOOLEAN, kind \in Kinds :
          \E n \in Computed!Amounts(kind), x \in Operands, a \in FirstOperands :
            Computed!Execute(op, s, kind, n, x, a)
    BY <1>1 DEF Computed!Next
  <2>2. PICK n \in Computed!Amounts(kind), x \in Operands, a \in FirstOperands :
          Computed!Execute(op, s, kind, n, x, a)
    BY <2>1
  <2>3. /\ op \in Computed!Opcodes /\ kind \in Computed!AllKinds
        /\ x \in Computed!Word /\ a \in Computed!Word
    BY <1>1 DEF Computed!AluAssumption
  <2>4. PICK out \in Computed!ShifterOperand(kind, n, x, flags.c) :
          Done(op, s, kind, n, x, a, out, Computed!Operate(op, a, out.operand),
               Computed!Adjusted(op, Computed!Operate(op, a, out.operand), flags.c))
    BY <2>2, Zenon DEF Computed!Execute, Done
  <2>5. FlagsType /\ flags.c \in {0, 1}
    BY <1>1 DEF AluInv, FlagsType
  <2>6. ShifterGives(out.operand, out.carry, kind, n, x, flags.c)
    BY <1>1, <2>3, <2>5, ShifterIs
  <2>7. out.operand \in Computed!Word /\ out.carry \in {0, 1}
    <3>1. PICK P \in Nat \ {0}, H \in Nat \ {0} : AluWords(P, H)
      BY <1>1, AluWordsAre DEF AluWords
    <3>. QED
      BY <2>6, <3>1 DEF ShifterGives, AluWords
  <2>8. Computed!ShiftsAreArithmetic'
    BY <2>4, <2>5, <2>6, ShiftsStep, Zenon
  <2>9. (FlagsType /\ Computed!ConditionsOfSum)'
    BY <1>1, <2>3, <2>4, <2>5, <2>7, ConditionsStep, Zenon
  <2>. QED
    BY <2>8, <2>9 DEF AluInv
<1>2. ASSUME AluInv, UNCHANGED Computed!avars
      PROVE  AluInv'
  <2>1. flags' = flags /\ operation' = operation
    BY <1>2 DEF Computed!avars
  <2>2. FlagsType'
    BY <1>2, <2>1 DEF AluInv, FlagsType
  <2>3. Computed!OperandIsShifted'
    BY <1>2, <2>1, Zenon DEF AluInv, Computed!ShiftsAreArithmetic, Computed!OperandIsShifted
  <2>4. Computed!ShiftedOutIsCarry'
    BY <1>2, <2>1, Zenon DEF AluInv, Computed!ShiftsAreArithmetic, Computed!ShiftedOutIsCarry
  <2>5. Computed!ConditionsOfSum'
    BY <1>2, <2>1, Zenon DEF AluInv, Computed!ConditionsOfSum
  <2>. QED
    BY <2>2, <2>3, <2>4, <2>5 DEF AluInv, Computed!ShiftsAreArithmetic
<1>. QED
  BY <1>1, <1>2

\* It holds at first.
LEMMA AluInit == Computed!Init => AluInv
<1>. SUFFICES ASSUME Computed!Init PROVE AluInv
  OBVIOUS
<1>1. /\ operation.op = "none" /\ operation.s = FALSE /\ operation.kind = "none"
  BY DEF Computed!Init, Computed!NoInstruction
<1>2. FlagsType
  BY DEF Computed!Init, FlagsType
<1>3. ~Computed!SetsFlags(operation)
  BY <1>1 DEF Computed!SetsFlags, Computed!Comparisons
<1>4. Computed!OperandIsShifted
  BY <1>1 DEF Computed!OperandIsShifted
<1>5. Computed!ShiftedOutIsCarry
  BY <1>3, Zenon DEF Computed!ShiftedOutIsCarry
<1>6. Computed!ConditionsOfSum
  BY <1>3, Zenon DEF Computed!ConditionsOfSum
<1>. QED
  BY <1>2, <1>4, <1>5, <1>6 DEF AluInv, Computed!ShiftsAreArithmetic

\* It always holds.
LEMMA AluAlways == Computed!AluAssumption => (Computed!Spec => []AluInv)
<1>. SUFFICES ASSUME Computed!AluAssumption PROVE Computed!Spec => []AluInv
  OBVIOUS
<1>1. AluInv /\ [Computed!Next]_(Computed!avars) => AluInv'
  BY AluStep
<1>. QED
  BY <1>1, AluInit, PTL DEF Computed!Spec

\* For every width of words, form, value, amount and carry before, the shifter
\* gives the operand and the carry of the architecture, but for the amounts that
\* OperandDeviates and CarryDeviates list (data_processing_operand,
\* data_processing_immediate_operand, asr, ror).
THEOREM ShiftersShift == Computed!AluAssumption => (Computed!Spec => []ShiftsAreArithmetic)
<1>1. AluInv => ShiftsAreArithmetic
  BY DEF AluInv, ShiftsAreArithmetic
<1>. QED
  BY <1>1, AluAlways, PTL

\* For every width and every two words, the conditions that pass after an addition
\* tell the sum that no word can hold (CarryFrom, oVerflow, ZNCV_update, condition).
THEOREM ConditionsTell == Computed!AluAssumption => (Computed!Spec => []ConditionsOfSum)
<1>1. AluInv => ConditionsOfSum
  BY DEF AluInv, ConditionsOfSum
<1>. QED
  BY <1>1, AluAlways, PTL

-----------------------------------------------------------------------------
(* The fields of words (BitFields).                                           *)
\* The operators of BitFields on bits are those of Words.
LEMMA FieldsPower == Fields!Power = Power
BY DEF Fields!Power, Power

\* The operators of BitFields on bits are those of Words.
LEMMA FieldsBit == \A x, i : Fields!Bit(x, i) = Bit(x, i)
BY FieldsPower DEF Fields!Bit, Bit

\* The operators of BitFields on bits are those of Words.
LEMMA FieldsNumber == \A bits, w : Fields!Number(bits, w) = Number(bits, w)
BY FieldsPower, Zenon DEF Fields!Number, Number

\* The operators of BitFields on bits are those of Words.
LEMMA FieldsOperators == \A x, y, w : Fields!And(x, y, w) = And(x, y, w) /\ Fields!Or(x, y, w) = Or(x, y, w)
<1>1. \A x, y, w : Fields!And(x, y, w) = And(x, y, w)
  BY FieldsBit, FieldsNumber, Zenon DEF Fields!And, And
<1>2. \A x, y, w : Fields!Or(x, y, w) = Or(x, y, w)
  BY FieldsBit, FieldsNumber, Zenon DEF Fields!Or, Or
<1>. QED
  BY <1>1, <1>2

\* A bit of a lane k is in the field of lanes lanes from lane on when k is.
LEMMA LaneNumbers ==
  ASSUME NEW L \in Nat \ {0}, NEW lane \in 0 .. 3, NEW lanes \in {1, 2}, NEW k \in 0 .. 3, NEW j \in 0 .. L - 1,
         NEW l \in Int, l = lane * L, NEW f \in Int, f = lanes * L, NEW i \in Int, i = j + L * k
  PROVE  /\ k \in lane .. lane + lanes - 1 <=> (l <= i /\ i < l + f)
         /\ i - l = j + L * (k - lane)
<1>1. k = 0 \/ k = 1 \/ k = 2 \/ k = 3
  OBVIOUS
<1>2. lane = 0 \/ lane = 1 \/ lane = 2 \/ lane = 3
  OBVIOUS
<1>3. CASE lane = 0
  BY <1>1, <1>3
<1>4. CASE lane = 1
  BY <1>1, <1>4
<1>5. CASE lane = 2
  BY <1>1, <1>5
<1>6. CASE lane = 3
  BY <1>1, <1>6
<1>. QED
  BY <1>2, <1>3, <1>4, <1>5, <1>6

\* A lane, and its bits.
Lane(L, x, k) == (x \div Power[L * k]) % Power[L]

\* The bits of a lane are those of the word, from the lane on.
LEMMA LaneIs ==
  ASSUME NEW L \in Nat \ {0}, NEW x \in Int, NEW k \in Nat
  PROVE  /\ Lane(L, x, k) \in 0 .. Power[L] - 1
         /\ \A j \in 0 .. L - 1 : Bit(Lane(L, x, k), j) = Bit(x, j + L * k)
<1>1. PICK m \in Nat : m = L * k
  OBVIOUS
<1>2. PICK p \in Nat \ {0}, d \in Nat \ {0} : p = Power[m] /\ d = Power[L]
  BY Powers
<1>3. x \div p \in Int
  BY Division
<1>4. PICK y \in Int : y = x \div Power[m]
  BY <1>2, <1>3
<1>5. y % d \in 0 .. d - 1
  BY Division
<1>6. Lane(L, x, k) = y % Power[L]
  BY <1>1, <1>4 DEF Lane
<1>7. ASSUME NEW j \in 0 .. L - 1
      PROVE  Bit(y % Power[L], j) = Bit(x, j + m)
  <2>1. j \in Nat /\ L \in Nat /\ j < L
    OBVIOUS
  <2>2. Bit(y % Power[L], j) = Bit(y, j)
    BY <2>1, BitOfQuotient
  <2>3. Bit(y, j) = Bit(x, j + m)
    BY <1>4, <2>1, BitOfQuotient
  <2>. QED
    BY ONLY <2>2, <2>3
<1>. QED
  BY ONLY <1>1, <1>2, <1>5, <1>6, <1>7

\* Lanes with the same bits are equal.
LanesAgree(L, x, k, y, m) == \A j \in 0 .. L - 1 : Bit(x, j + L * k) = Bit(y, j + L * m)
LanesEqual(L, x, k, y, m) == Lane(L, x, k) = Lane(L, y, m)

\* A number is its bits.
LEMMA SameLanes ==
  ASSUME NEW L \in Nat \ {0}, NEW x \in Int, NEW k \in Nat, NEW y \in Int, NEW m \in Nat,
         LanesAgree(L, x, k, y, m)
  PROVE  LanesEqual(L, x, k, y, m)
<1>1. /\ Lane(L, x, k) \in 0 .. Power[L] - 1
      /\ \A j \in 0 .. L - 1 : Bit(Lane(L, x, k), j) = Bit(x, j + L * k)
  BY LaneIs
<1>2. /\ Lane(L, y, m) \in 0 .. Power[L] - 1
      /\ \A j \in 0 .. L - 1 : Bit(Lane(L, y, m), j) = Bit(y, j + L * m)
  BY LaneIs
<1>3. SameBits(Lane(L, x, k), Lane(L, y, m), L)
  BY <1>1, <1>2, Zenon DEF SameBits, LanesAgree
<1>. QED
  BY <1>1, <1>2, <1>3, SameWord DEF LanesEqual

\* The bits of a word of w bits whose top bit is cleared.
Cleared(z, x, w) == \A i \in 0 .. w - 1 : Bit(z, i) = IF i = w - 1 THEN 0 ELSE Bit(x, i)

\* clr_bit of the top bit of a word.
LEMMA ClearTop ==
  ASSUME NEW w \in Nat \ {0}, NEW x \in 0 .. Power[w] - 1, NEW z,
         z = IF (x \div Power[w - 1]) % 2 = 1 THEN x - Power[w - 1] ELSE x
  PROVE  /\ z \in 0 .. Power[w] - 1
         /\ Cleared(z, x, w)
<1>1. PICK v \in Nat : v = w - 1 /\ w = v + 1
  OBVIOUS
<1>2. PICK h \in Nat \ {0} : h = Power[v] /\ Power[w] = 2 * h
  BY <1>1, Powers
<1>3. x \in Nat /\ x < 2 * h
  BY <1>2
<1>4. PICK q \in Int, r \in 0 .. h - 1 : q = x \div h /\ x = q * h + r
  <2>1. x \in Int /\ h \in Nat \ {0}
    BY <1>3
  <2>2. x \div h \in Int /\ x % h \in 0 .. h - 1 /\ x = (x \div h) * h + (x % h)
    BY ONLY <2>1, Division, Zenon
  <2>. QED
    BY ONLY <2>2, Zenon
<1>5. q \in 0 .. 2 - 1
  BY <1>3, <1>4, QuotientBelow
<1>6. q = 0 \/ q = 1
  BY <1>5
<1>7. q % 2 = q
  BY <1>6
<1>8. z = r
  <2>1. z = IF q = 1 THEN x - h ELSE x
    BY <1>1, <1>2, <1>4, <1>7
  <2>. QED
    BY <1>4, <1>6, <2>1
<1>9. \A i \in Nat : Bit(r, i) = IF i < v THEN Bit(r, i) ELSE 0
  BY <1>1, <1>2, <1>4, BitBeyond
<1>10. \A i \in Nat : Bit(x, i) = IF i < v THEN Bit(r, i) ELSE Bit(q, i - v)
  <2>1. r + q * h = x
    BY <1>4
  <2>2. r \in 0 .. Power[v] - 1
    BY <1>2
  <2>3. \A i \in Nat : Bit(r + q * Power[v], i) = IF i < v THEN Bit(r, i) ELSE Bit(q, i - v)
    BY <2>2, <1>1, q \in Int, BitOfSum, Zenon
  <2>. QED
    BY ONLY <1>2, <2>1, <2>3, Zenon
<1>. QED
  BY <1>1, <1>2, <1>8, <1>9, <1>10 DEF Cleared

\* What set_bits gives of x, where n is the first bit above the field and the mask that of the bits from n on.
SetBits(x, l, n, w, bits) ==
  Or(Or(x % Power[l], And(x, Power[w] - Power[n], w), w), (bits * Power[l]) % Power[w], w)

\* Its bits are those of the value in the field, and of x below and above it.
LEMMA SetBitsIs ==
  ASSUME NEW w \in Nat \ {0}, NEW x \in 0 .. Power[w] - 1, NEW n \in 0 .. w, NEW l \in 0 .. n, NEW bits \in Nat
  PROVE  /\ SetBits(x, l, n, w, bits) \in 0 .. Power[w] - 1
         /\ \A i \in 0 .. w - 1 :
              Bit(SetBits(x, l, n, w, bits), i) =
                IF i < l THEN Bit(x, i)
                ELSE IF (n <= i /\ Bit(x, i) = 1) \/ Bit(bits, i - l) = 1 THEN 1 ELSE 0
<1>1. PICK p \in Nat \ {0}, d \in Nat \ {0}, c \in Nat \ {0} : p = Power[l] /\ d = Power[w] /\ c = Power[n]
  <2>1. w \in Nat /\ n \in Nat /\ l \in Nat
    OBVIOUS
  <2>. QED
    BY ONLY <2>1, Powers, Zenon
<1>2. PICK low \in Int : low = x % Power[l]
  <2>1. x % p \in 0 .. p - 1
    BY <1>1, Division, x \in Int
  <2>. QED
    BY <1>1, <2>1
<1>3. PICK mask \in Int : mask = Power[w] - Power[n]
  BY <1>1
<1>4. PICK y \in Int : y = bits * Power[l]
  BY <1>1
<1>5. PICK new \in Int : new = y % Power[w]
  <2>1. y % d \in 0 .. d - 1
    BY <1>1, Division
  <2>. QED
    BY <1>1, <2>1
<1>6. PICK kept \in Int : kept = And(x, mask, w) /\ \A i \in 0 .. w - 1 : Bit(kept, i) = Bit(x, i) * Bit(mask, i)
  <2>1. x \in Int /\ w \in Nat
    OBVIOUS
  <2>2. And(x, mask, w) \in 0 .. Power[w] - 1
    BY <1>3, <2>1, OperatorBits, Zenon
  <2>3. \A i \in 0 .. w - 1 : Bit(And(x, mask, w), i) = Bit(x, i) * Bit(mask, i)
    <3>1. \A i \in 0 .. w - 1 : /\ Bit(And(x, mask, w), i) = Bit(x, i) * Bit(mask, i)
                                 /\ Bit(Or(x, mask, w), i) = IF Bit(x, i) + Bit(mask, i) > 0 THEN 1 ELSE 0
      BY ONLY mask \in Int, <2>1, OperatorBits, Zenon
    <3>. QED
      BY <3>1, Zenon
  <2>4. And(x, mask, w) \in Int
    BY <1>1, <2>2
  <2>. QED
    BY <2>3, <2>4, Zenon
<1>7. PICK both \in Int : both = Or(low, kept, w) /\ OrOf(both, low, kept, w)
  <2>1. OrOf(Or(low, kept, w), low, kept, w)
    BY OrBits, w \in Nat, Zenon
  <2>2. Or(low, kept, w) \in Int
    BY <1>1, <2>1 DEF OrOf
  <2>. QED
    BY <2>1, <2>2, Zenon
<1>8. PICK all \in Int : all = Or(both, new, w) /\ OrOf(all, both, new, w)
  <2>1. OrOf(Or(both, new, w), both, new, w)
    BY OrBits, w \in Nat, Zenon
  <2>2. Or(both, new, w) \in Int
    BY <1>1, <2>1 DEF OrOf
  <2>. QED
    BY <2>1, <2>2, Zenon
<1>9. SetBits(x, l, n, w, bits) = all
  BY ONLY <1>2, <1>3, <1>4, <1>5, <1>6, <1>7, <1>8, Zenon DEF SetBits
<1>10. ASSUME NEW i \in 0 .. w - 1
       PROVE  Bit(all, i) = IF i < l THEN Bit(x, i)
                            ELSE IF (n <= i /\ Bit(x, i) = 1) \/ Bit(bits, i - l) = 1 THEN 1 ELSE 0
  <2>1. i \in Nat /\ l \in Nat /\ n \in Nat /\ i < w /\ l <= n
    OBVIOUS
  <2>2. Bit(low, i) = IF i < l THEN Bit(x, i) ELSE 0
    BY <1>2, <2>1, x \in Int, BitOfQuotient
  <2>3. Bit(mask, i) = IF i < n THEN 0 ELSE 1
    BY <1>3, BitsOfMask
  <2>4. Bit(new, i) = Bit(y, i)
    BY <1>5, <2>1, BitOfQuotient
  <2>5. Bit(y, i) = IF i < l THEN 0 ELSE Bit(bits, i - l)
    <3>1. 0 \in 0 .. Power[l] - 1 /\ 0 + bits * Power[l] = y
      BY <1>1, <1>4
    <3>2. Bit(0 + bits * Power[l], i) = IF i < l THEN Bit(0, i) ELSE Bit(bits, i - l)
      BY <2>1, <3>1, bits \in Int, BitOfSum
    <3>. QED
      BY <2>1, <3>1, <3>2, BitZero
  <2>6. Bit(both, i) = IF Bit(low, i) + Bit(kept, i) > 0 THEN 1 ELSE 0
    BY <1>7 DEF OrOf
  <2>7. Bit(all, i) = IF Bit(both, i) + Bit(new, i) > 0 THEN 1 ELSE 0
    BY <1>8 DEF OrOf
  <2>8. Bit(x, i) \in {0, 1} /\ (i >= l => Bit(bits, i - l) \in {0, 1})
    BY <2>1, x \in Int, bits \in Int, BitType
  <2>9. Bit(kept, i) = IF i < n THEN 0 ELSE Bit(x, i)
    BY <1>6, <2>3, <2>8
  <2>. QED
    BY ONLY <2>1, <2>2, <2>4, <2>5, <2>6, <2>7, <2>8, <2>9
<1>. QED
  BY <1>8, <1>9, <1>10 DEF OrOf

\* What a field is: its bits f from l on, in a word of w bits.
FieldIs(w, l, f, lane, lanes) ==
  /\ w = 4 * LaneBits /\ l = lane * LaneBits /\ f = lanes * LaneBits /\ l + f <= w
  /\ Fields!FirstBit(lane) = l /\ Fields!LastBit(lane, lanes) = l + f - 1
  /\ Fields!Width = w /\ Fields!TopBit = w - 1
  /\ Fields!WordValues = 0 .. Power[w] - 1 /\ Fields!FieldValues(lanes) = 0 .. Power[f] - 1

\* Every field of one or two lanes is one.
LEMMA FieldsAre ==
  ASSUME Fields!LaneBitsAssumption, NEW lanes \in {1, 2}, NEW lane \in Fields!LanesOf(lanes)
  PROVE  \E w, l, f \in Nat : w # 0 /\ f # 0 /\ FieldIs(w, l, f, lane, lanes)
<1>1. PICK L \in Nat \ {0} : L = LaneBits
  BY DEF Fields!LaneBitsAssumption
<1>2. (lanes = 1 \/ lanes = 2) /\ (lane = 0 \/ lane = 1 \/ lane = 2 \/ lane = 3) /\ (lanes = 2 => lane = 0 \/ lane = 2)
  BY DEF Fields!LanesOf
<1>3. PICK w \in Nat, l \in Nat, f \in Nat : w = 4 * L /\ l = lane * L /\ f = lanes * L
  BY <1>2
<1>4. l + f <= w /\ w # 0 /\ f # 0
  <2>1. CASE lanes = 1
    BY <1>2, <1>3, <2>1
  <2>2. CASE lanes = 2
    BY <1>2, <1>3, <2>2
  <2>. QED
    BY <1>2, <2>1, <2>2
<1>5. Fields!FirstBit(lane) = l /\ Fields!LastBit(lane, lanes) = l + f - 1
  BY <1>1, <1>3, Zenon DEF Fields!FirstBit, Fields!LastBit
<1>6. Fields!Width = w /\ Fields!TopBit = w - 1
  BY <1>1, <1>3, Zenon DEF Fields!Width, Fields!TopBit
<1>7. Fields!WordValues = 0 .. Power[w] - 1
  BY <1>6, FieldsPower, Zenon DEF Fields!WordValues
<1>8. Fields!FieldValues(lanes) = 0 .. Power[f] - 1
  <2>1. L * lanes = f
    BY <1>2, <1>3
  <2>. QED
    BY <1>1, <2>1, FieldsPower, Zenon DEF Fields!FieldValues
<1>. QED
  BY <1>1, <1>3, <1>4, <1>5, <1>6, <1>7, <1>8, Zenon DEF FieldIs

\* The bits of the word after bits was put at l.
Put(y, x, l, f, w, bits) ==
  /\ y \in 0 .. Power[w] - 1
  /\ \A i \in 0 .. w - 1 : Bit(y, i) = IF l <= i /\ i < l + f THEN Bit(bits, i - l) ELSE Bit(x, i)

\* set_bits with the bits of the field, the first n above it or the top bit, which is clear.
LEMMA SetBitsPuts ==
  ASSUME NEW w \in Nat \ {0}, NEW x \in 0 .. Power[w] - 1, NEW l \in Nat, NEW f \in Nat \ {0}, l + f <= w,
         NEW z \in 0 .. Power[w] - 1, NEW bits \in 0 .. Power[f] - 1, NEW n \in Nat,
         \/ n = l + f /\ z = x
         \/ /\ l + f = w /\ n = w - 1
            /\ Cleared(z, x, w)
  PROVE  Put(SetBits(z, l, n, w, bits), x, l, f, w, bits)
<1>1. n \in 0 .. w /\ l \in 0 .. n
  OBVIOUS
<1>2. bits \in Nat
  <2>1. PICK p \in Nat \ {0} : p = Power[f]
    BY Powers
  <2>. QED
    BY <2>1
<1>3. /\ SetBits(z, l, n, w, bits) \in 0 .. Power[w] - 1
      /\ \A i \in 0 .. w - 1 :
           Bit(SetBits(z, l, n, w, bits), i) =
             IF i < l THEN Bit(z, i) ELSE IF (n <= i /\ Bit(z, i) = 1) \/ Bit(bits, i - l) = 1 THEN 1 ELSE 0
  BY ONLY <1>1, <1>2, w \in Nat \ {0}, z \in 0 .. Power[w] - 1, SetBitsIs, Zenon
<1>4. PICK y \in 0 .. Power[w] - 1 :
        /\ y = SetBits(z, l, n, w, bits)
        /\ \A i \in 0 .. w - 1 :
             Bit(y, i) = IF i < l THEN Bit(z, i)
                         ELSE IF (n <= i /\ Bit(z, i) = 1) \/ Bit(bits, i - l) = 1 THEN 1 ELSE 0
  BY ONLY <1>3, Zenon
<1>5. ASSUME NEW i \in 0 .. w - 1
      PROVE  Bit(y, i) = IF l <= i /\ i < l + f THEN Bit(bits, i - l) ELSE Bit(x, i)
  <2>1. i >= l => i - l \in Nat
    OBVIOUS
  <2>2. i >= l => Bit(bits, i - l) \in {0, 1}
    BY <1>2, <2>1, bits \in Int, BitType
  <2>3. i >= l + f => Bit(bits, i - l) = 0
    <3>1. i >= l + f => i - l \in Nat /\ i - l >= f
      OBVIOUS
    <3>. QED
      BY <3>1, f \in Nat, BitBeyond
  <2>4. Bit(x, i) \in {0, 1}
    <3>1. PICK p \in Nat \ {0} : p = Power[w]
      BY Powers
    <3>2. x \in Int /\ i \in Nat
      BY <3>1
    <3>. QED
      BY <3>2, BitType
  <2>5. Bit(y, i) = IF i < l THEN Bit(z, i)
                    ELSE IF (n <= i /\ Bit(z, i) = 1) \/ Bit(bits, i - l) = 1 THEN 1 ELSE 0
    BY <1>4
  <2>6. \/ n = l + f /\ Bit(z, i) = Bit(x, i)
        \/ l + f = w /\ n = w - 1 /\ Bit(z, i) = IF i = w - 1 THEN 0 ELSE Bit(x, i)
    BY DEF Cleared
  <2>7. i < w /\ i \in Nat /\ 1 <= f
    OBVIOUS
  <2>. QED
    BY ONLY <2>2, <2>3, <2>4, <2>5, <2>6, <2>7, w \in Nat, l \in Nat, f \in Nat, n \in Nat
<1>. QED
  BY ONLY <1>3, <1>4, <1>5, Zenon DEF Put

\* The bits of a word into which memory_write_byte or memory_write_half writes.
LEMMA Written ==
  ASSUME NEW w \in Nat, NEW l \in Nat, NEW f \in Nat, w # 0, f # 0, NEW lane, NEW lanes,
         FieldIs(w, l, f, lane, lanes),
         NEW x \in 0 .. Power[w] - 1, NEW bits \in 0 .. Power[f] - 1,
         NEW y \in Fields!write_field(x, lane, lanes, bits)
  PROVE  Put(y, x, l, f, w, bits)
<1>1. /\ l + f <= w
      /\ Fields!FirstBit(lane) = l /\ Fields!LastBit(lane, lanes) = l + f - 1
      /\ Fields!Width = w /\ Fields!TopBit = w - 1
  BY DEF FieldIs
<1>2. ASSUME NEW z, NEW h \in Int, h + 1 < w, y \in Fields!set_bits(z, h, l, bits)
      PROVE  y = SetBits(z, l, h + 1, w, bits)
  <2>1. Fields!HighMask(h + 1) = {Power[w] - Power[h + 1]}
    BY <1>1, <1>2, FieldsPower DEF Fields!HighMask
  <2>2. Fields!set_bits(z, h, l, bits) = {SetBits(z, l, h + 1, w, bits)}
    <3>1. Fields!set_bits(z, h, l, bits) =
            {Or(Or(z % Power[l], And(z, mask, w), w), (bits * Power[l]) % Power[w], w) : mask \in Fields!HighMask(h + 1)}
      BY <1>1, FieldsPower, FieldsOperators, Zenon DEF Fields!set_bits
    <3>. QED
      BY ONLY <2>1, <3>1, Zenon DEF SetBits
  <2>. QED
    BY <1>2, <2>2
<1>3. CASE l + f = w
  <2>1. PICK z \in 0 .. Power[w] - 1 :
          /\ z = Fields!clr_bit(x, w - 1)
          /\ Cleared(z, x, w)
    <3>1. Fields!clr_bit(x, w - 1) = IF (x \div Power[w - 1]) % 2 = 1 THEN x - Power[w - 1] ELSE x
      BY FieldsPower, Zenon DEF Fields!clr_bit
    <3>2. w \in Nat \ {0}
      OBVIOUS
    <3>3. PICK z : z = Fields!clr_bit(x, w - 1)
      OBVIOUS
    <3>4. z = IF (x \div Power[w - 1]) % 2 = 1 THEN x - Power[w - 1] ELSE x
      BY ONLY <3>1, <3>3, Zenon
    <3>5. z \in 0 .. Power[w] - 1
      BY ONLY <3>2, <3>4, x \in 0 .. Power[w] - 1, ClearTop, Zenon
    <3>6. Cleared(z, x, w)
      BY ONLY <3>2, <3>4, x \in 0 .. Power[w] - 1, ClearTop, Zenon
    <3>. QED
      BY ONLY <3>3, <3>5, <3>6, Zenon
  <2>2. y \in Fields!set_bits(z, w - 1 - 1, l, bits)
    BY <1>1, <1>3, <2>1 DEF Fields!write_field
  <2>3. w - 1 - 1 \in Int /\ w - 1 - 1 + 1 < w /\ w - 1 - 1 + 1 = w - 1 /\ w - 1 \in Nat
    OBVIOUS
  <2>4. y = SetBits(z, l, w - 1, w, bits)
    BY <1>2, <2>2, <2>3, Zenon
  <2>5. w \in Nat \ {0} /\ f \in Nat \ {0}
    OBVIOUS
  <2>6. Put(SetBits(z, l, w - 1, w, bits), x, l, f, w, bits)
    BY <1>1, <1>3, <2>1, <2>3, <2>5, SetBitsPuts, Zenon
  <2>. QED
    BY <2>4, <2>6, Zenon
<1>4. CASE l + f # w
  <2>1. l + f - 1 # w - 1 /\ l + f - 1 \in Int /\ l + f - 1 + 1 < w /\ l + f - 1 + 1 = l + f /\ l + f \in Nat
    BY <1>1, <1>4
  <2>2. y \in Fields!set_bits(x, l + f - 1, l, bits)
    BY <1>1, <2>1, Zenon DEF Fields!write_field
  <2>3. y = SetBits(x, l, l + f, w, bits)
    BY <1>2, <2>1, <2>2, Zenon
  <2>5. w \in Nat \ {0} /\ f \in Nat \ {0}
    OBVIOUS
  <2>6. Put(SetBits(x, l, l + f, w, bits), x, l, f, w, bits)
    BY <1>1, <2>1, <2>5, SetBitsPuts, Zenon
  <2>. QED
    BY <2>3, <2>6, Zenon
<1>. QED
  BY <1>3, <1>4

\* The lanes of the word are those of the value in the field and the old ones elsewhere.
FieldWritten(y, x, bits, lane, lanes, k) ==
  Fields!Lane(y, k) = IF k \in lane .. (lane + lanes - 1) THEN Fields!Lane(bits, k - lane) ELSE Fields!Lane(x, k)

\* A field that was put is its lanes.
LEMMA LanesWritten ==
  ASSUME Fields!LaneBitsAssumption, NEW w \in Nat, NEW l \in Nat, NEW f \in Nat, NEW lane \in 0 .. 3,
         NEW lanes \in {1, 2}, FieldIs(w, l, f, lane, lanes), NEW x \in Int, NEW y \in Int, NEW bits \in Int,
         Put(y, x, l, f, w, bits), NEW k \in 0 .. 3
  PROVE  FieldWritten(y, x, bits, lane, lanes, k)
<1>1. PICK L \in Nat \ {0} : L = LaneBits
  BY DEF Fields!LaneBitsAssumption
<1>2. w = 4 * L /\ l = lane * L /\ f = lanes * L
  BY <1>1, Zenon DEF FieldIs
<1>3. \A v, m : Fields!Lane(v, m) = Lane(L, v, m)
  BY <1>1, FieldsPower, Zenon DEF Fields!Lane, Lane
<1>4. ASSUME NEW j \in 0 .. L - 1
      PROVE  \E i \in 0 .. w - 1 : /\ i = j + L * k
                                   /\ k \in lane .. lane + lanes - 1 <=> (l <= i /\ i < l + f)
                                   /\ i - l = j + L * (k - lane)
  <2>1. PICK i \in Int : i = j + L * k
    OBVIOUS
  <2>2. i \in 0 .. w - 1
    <3>1. k = 0 \/ k = 1 \/ k = 2 \/ k = 3
      OBVIOUS
    <3>. QED
      BY ONLY <1>2, <2>1, <3>1, L \in Nat \ {0}, j \in 0 .. L - 1
  <2>3. /\ k \in lane .. lane + lanes - 1 <=> (l <= i /\ i < l + f)
        /\ i - l = j + L * (k - lane)
    BY <1>2, <2>1, LaneNumbers, l \in Int, f \in Int
  <2>. QED
    BY <2>1, <2>2, <2>3
<1>5. \A i \in 0 .. w - 1 : Bit(y, i) = IF l <= i /\ i < l + f THEN Bit(bits, i - l) ELSE Bit(x, i)
  BY Zenon DEF Put
<1>6. CASE k \in lane .. lane + lanes - 1
  <2>1. \A j \in 0 .. L - 1 : Bit(y, j + L * k) = Bit(bits, j + L * (k - lane))
    BY ONLY <1>4, <1>5, <1>6, Zenon
  <2>2. k - lane \in Nat /\ k \in Nat
    BY <1>6
  <2>3. LanesAgree(L, y, k, bits, k - lane)
    BY ONLY <2>1, Zenon DEF LanesAgree
  <2>4. LanesEqual(L, y, k, bits, k - lane)
    BY <2>2, <2>3, SameLanes, Zenon
  <2>. QED
    BY ONLY <1>3, <1>6, <2>4, Zenon DEF FieldWritten, LanesEqual
<1>7. CASE k \notin lane .. lane + lanes - 1
  <2>1. \A j \in 0 .. L - 1 : Bit(y, j + L * k) = Bit(x, j + L * k)
    BY ONLY <1>4, <1>5, <1>7, Zenon
  <2>2. k \in Nat
    OBVIOUS
  <2>3. LanesAgree(L, y, k, x, k)
    BY ONLY <2>1, Zenon DEF LanesAgree
  <2>4. LanesEqual(L, y, k, x, k)
    BY <2>2, <2>3, SameLanes, Zenon
  <2>. QED
    BY ONLY <1>3, <1>7, <2>4, Zenon DEF FieldWritten, LanesEqual
<1>. QED
  BY <1>6, <1>7

\* The bits f from l on of x.
LEMMA BitsGot ==
  ASSUME NEW w \in Nat, NEW l \in Nat, NEW f \in Nat, f # 0, NEW lane, NEW lanes,
         FieldIs(w, l, f, lane, lanes), NEW x \in Int, NEW y,
         y = Fields!get_bits(x, Fields!LastBit(lane, lanes), Fields!FirstBit(lane))
  PROVE  \E d \in Int : d = x \div Power[l] /\ y = d % Power[f] /\ y \in 0 .. Power[f] - 1
<1>1. PICK p \in Nat \ {0}, e \in Nat \ {0} : p = Power[l] /\ e = Power[f]
  BY Powers
<1>2. x \div p \in Int
  BY Division
<1>3. PICK d \in Int : d = x \div Power[l]
  BY <1>1, <1>2
<1>4. d % e \in 0 .. e - 1
  BY Division
<1>5. PICK h \in Int : h = l + f - 1 /\ h - l + 1 = f
  OBVIOUS
<1>6. Fields!LastBit(lane, lanes) = h /\ Fields!FirstBit(lane) = l
  BY <1>5 DEF FieldIs
<1>7. Fields!get_bits(x, h, l) = (x \div Power[l]) % Power[h - l + 1]
  BY ONLY FieldsPower DEF Fields!get_bits
<1>8. y = d % Power[f]
  BY ONLY <1>3, <1>5, <1>6, <1>7, y = Fields!get_bits(x, Fields!LastBit(lane, lanes), Fields!FirstBit(lane))
<1>. QED
  BY ONLY <1>1, <1>3, <1>4, <1>8

\* The lanes of what memory_read_byte or memory_read_half returns.
FieldRead(y, x, lane, lanes, k) == Fields!Lane(y, k) = IF k < lanes THEN Fields!Lane(x, lane + k) ELSE 0

\* A field taken out is its lanes.
LEMMA LanesRead ==
  ASSUME Fields!LaneBitsAssumption, NEW w \in Nat, NEW l \in Nat, NEW f \in Nat, f # 0, NEW lane \in 0 .. 3,
         NEW lanes \in {1, 2}, FieldIs(w, l, f, lane, lanes), NEW x \in Int, NEW y \in Int,
         y = Fields!get_bits(x, Fields!LastBit(lane, lanes), Fields!FirstBit(lane)), NEW k \in 0 .. 3
  PROVE  FieldRead(y, x, lane, lanes, k)
<1>1. PICK L \in Nat \ {0} : L = LaneBits
  BY DEF Fields!LaneBitsAssumption
<1>2. w = 4 * L /\ l = lane * L /\ f = lanes * L
  BY <1>1, Zenon DEF FieldIs
<1>3. \A v, m : Fields!Lane(v, m) = Lane(L, v, m)
  BY <1>1, FieldsPower, Zenon DEF Fields!Lane, Lane
<1>4. PICK d \in Int : d = x \div Power[l] /\ y = d % Power[f]
  BY BitsGot
<1>5. \A i \in Nat : Bit(y, i) = IF i < f THEN Bit(x, i + l) ELSE 0
  <2>. SUFFICES ASSUME NEW i \in Nat PROVE Bit(y, i) = IF i < f THEN Bit(x, i + l) ELSE 0
    OBVIOUS
  <2>1. Bit(y, i) = IF i < f THEN Bit(d, i) ELSE 0
    BY <1>4, BitOfQuotient
  <2>2. Bit(d, i) = Bit(x, i + l)
    BY <1>4, BitOfQuotient
  <2>. QED
    BY ONLY <2>1, <2>2, Zenon
<1>6. ASSUME NEW j \in 0 .. L - 1
      PROVE  \E i \in Nat : /\ i = j + L * k
                            /\ k < lanes <=> i < f
                            /\ i + l = j + L * (lane + k)
  <2>1. PICK i \in Nat : i = j + L * k
    OBVIOUS
  <2>2. (k = 0 \/ k = 1 \/ k = 2 \/ k = 3) /\ (lanes = 1 \/ lanes = 2)
    OBVIOUS
  <2>3. k < lanes <=> i < f
    <3>1. CASE lanes = 1
      BY ONLY <1>2, <2>1, <2>2, <3>1, L \in Nat \ {0}, j \in 0 .. L - 1
    <3>2. CASE lanes = 2
      BY ONLY <1>2, <2>1, <2>2, <3>2, L \in Nat \ {0}, j \in 0 .. L - 1
    <3>. QED
      BY <2>2, <3>1, <3>2
  <2>4. i + l = j + L * (lane + k)
    BY ONLY <1>2, <2>1, <2>2, L \in Nat \ {0}, j \in 0 .. L - 1, lane \in 0 .. 3
  <2>. QED
    BY <2>1, <2>3, <2>4
<1>7. CASE k < lanes
  <2>1. \A j \in 0 .. L - 1 : Bit(y, j + L * k) = Bit(x, j + L * (lane + k))
    BY ONLY <1>5, <1>6, <1>7, Zenon
  <2>2. k \in Nat /\ lane + k \in Nat
    OBVIOUS
  <2>3. LanesAgree(L, y, k, x, lane + k)
    BY ONLY <2>1, Zenon DEF LanesAgree
  <2>4. LanesEqual(L, y, k, x, lane + k)
    BY <2>2, <2>3, SameLanes, Zenon
  <2>. QED
    BY ONLY <1>3, <1>7, <2>4, Zenon DEF FieldRead, LanesEqual
<1>8. CASE ~(k < lanes)
  <2>1. \A j \in 0 .. L - 1 : Bit(y, j + L * k) = 0
    BY ONLY <1>5, <1>6, <1>8, Zenon
  <2>2. \A j \in 0 .. L - 1 : j + L * 0 \in Nat /\ Bit(0, j + L * 0) = 0
    BY BitZero
  <2>3. k \in Nat /\ 0 \in Nat /\ 0 \in Int
    OBVIOUS
  <2>6. LanesAgree(L, y, k, 0, 0)
    BY <2>1, <2>2 DEF LanesAgree
  <2>4. Lane(L, y, k) = Lane(L, 0, 0)
    BY <2>3, <2>6, SameLanes DEF LanesEqual
  <2>5. Lane(L, 0, 0) = 0
    <3>1. Lane(L, 0, 0) \in 0 .. Power[L] - 1 /\ \A j \in 0 .. L - 1 : Bit(Lane(L, 0, 0), j) = Bit(0, j + L * 0)
      BY <2>3, LaneIs
    <3>2. \A j \in 0 .. L - 1 : Bit(0, j) = 0
      BY BitZero
    <3>3. SameBits(Lane(L, 0, 0), 0, L)
      BY <2>2, <3>1, <3>2 DEF SameBits
    <3>4. 0 \in 0 .. Power[L] - 1
      <4>1. PICK p \in Nat \ {0} : p = Power[L]
        BY Powers
      <4>. QED
        BY <4>1
    <3>. QED
      BY <3>1, <3>3, <3>4, SameWord
  <2>. QED
    BY ONLY <1>3, <1>8, <2>4, <2>5, Zenon DEF FieldRead
<1>. QED
  BY <1>7, <1>8

\* The word stays one.
FieldsInv == word \in Fields!WordValues

\* What a step reads and writes.
FieldStep ==
  /\ call'.op = "write" =>
       \A i \in 0..3 :
         Fields!Lane(word', i) = IF Fields!InField(call', i) THEN Fields!Lane(call'.bits, i - call'.lane)
                                 ELSE Fields!Lane(word, i)
  /\ call'.op = "read" =>
       \A i \in 0..3 :
         Fields!Lane(read', i) = IF i < call'.lanes THEN Fields!Lane(word, call'.lane + i) ELSE 0

\* Every step writes and reads lanes.
LEMMA FieldsStep ==
  Fields!LaneBitsAssumption /\ FieldsInv /\ [Fields!Next]_(Fields!bvars)
    => FieldsInv' /\ [FieldStep]_(Fields!bvars)
<1>. SUFFICES ASSUME Fields!LaneBitsAssumption, FieldsInv, Fields!Next
              PROVE  FieldsInv' /\ FieldStep
  BY DEF FieldsInv, Fields!bvars, Fields!WordValues, Fields!Width
<1>9. PICK lanes \in {1, 2} :
        \E lane \in Fields!LanesOf(lanes) :
          \/ Fields!ReadField(lane, lanes)
          \/ \E bits \in Fields!FieldValues(lanes) : Fields!WriteField(lane, lanes, bits)
  BY Zenon DEF Fields!Next
<1>1. PICK lane \in Fields!LanesOf(lanes) :
        \/ Fields!ReadField(lane, lanes)
        \/ \E bits \in Fields!FieldValues(lanes) : Fields!WriteField(lane, lanes, bits)
  BY <1>9, Zenon
<1>2. PICK w \in Nat, l \in Nat, f \in Nat : w # 0 /\ f # 0 /\ FieldIs(w, l, f, lane, lanes)
  BY FieldsAre
<1>3. lane \in 0 .. 3
  BY DEF Fields!LanesOf
<1>4. Fields!WordValues = 0 .. Power[w] - 1 /\ Fields!FieldValues(lanes) = 0 .. Power[f] - 1
  BY <1>2 DEF FieldIs
<1>5. Power[w] \in Nat \ {0} /\ Power[f] \in Nat \ {0} /\ Power[l] \in Nat \ {0}
  BY Powers
<1>6. word \in 0 .. Power[w] - 1 /\ word \in Int
  BY <1>4, <1>5 DEF FieldsInv
<1>7. CASE Fields!ReadField(lane, lanes)
  <2>1. /\ read' = Fields!get_bits(word, Fields!LastBit(lane, lanes), Fields!FirstBit(lane))
        /\ call'.op = "read" /\ call'.lane = lane /\ call'.lanes = lanes /\ word' = word
    BY <1>7 DEF Fields!ReadField
  <2>2. PICK y \in Int : y = read'
    <3>1. read' \in 0 .. Power[f] - 1
      BY <1>2, <1>6, <2>1, BitsGot, Zenon
    <3>. QED
      BY <1>5, <3>1
  <2>3. \A i \in 0 .. 3 : FieldRead(y, word, lane, lanes, i)
    BY <1>2, <1>3, <1>6, <2>1, <2>2, LanesRead, Zenon
  <2>4. FieldsInv'
    BY <1>4, <1>6, <2>1, Zenon DEF FieldsInv, Fields!WordValues, Fields!Width
  <2>5. \A i \in 0 .. 3 : Fields!Lane(read', i) = IF i < call'.lanes THEN Fields!Lane(word, call'.lane + i) ELSE 0
    BY ONLY <2>1, <2>2, <2>3, Zenon DEF FieldRead
  <2>6. call'.op # "write"
    BY <2>1
  <2>. QED
    BY ONLY <2>4, <2>5, <2>6, Zenon DEF FieldStep
<1>8. CASE \E bits \in Fields!FieldValues(lanes) : Fields!WriteField(lane, lanes, bits)
  <2>1. PICK bits \in 0 .. Power[f] - 1 : Fields!WriteField(lane, lanes, bits)
    BY <1>4, <1>8
  <2>2. /\ word' \in Fields!write_field(word, lane, lanes, bits)
        /\ call'.op = "write" /\ call'.lane = lane /\ call'.lanes = lanes /\ call'.bits = bits
    BY <2>1 DEF Fields!WriteField
  <2>3. PICK y \in Fields!write_field(word, lane, lanes, bits) : y = word'
    BY <2>2
  <2>4. Put(y, word, l, f, w, bits)
    BY <1>2, <1>6, Written, Zenon
  <2>5. y \in 0 .. Power[w] - 1 /\ y \in Int /\ bits \in Int
    BY <1>5, <2>4 DEF Put
  <2>6. \A i \in 0 .. 3 : FieldWritten(y, word, bits, lane, lanes, i)
    BY <1>2, <1>3, <1>6, <2>4, <2>5, LanesWritten, Zenon
  <2>7. FieldsInv'
    BY <1>4, <2>3, <2>5, Zenon DEF FieldsInv, Fields!WordValues, Fields!Width
  <2>8. \A i \in 0..3 :
          Fields!Lane(word', i) = IF Fields!InField(call', i) THEN Fields!Lane(call'.bits, i - call'.lane)
                                  ELSE Fields!Lane(word, i)
    BY ONLY <2>2, <2>3, <2>6, Zenon DEF FieldWritten, Fields!InField
  <2>9. call'.op # "read"
    BY <2>2
  <2>. QED
    BY ONLY <2>7, <2>8, <2>9, Zenon DEF FieldStep
<1>. QED
  BY <1>1, <1>7, <1>8

\* Whatever the number of bits of a byte, the word and the value, a byte or a half
\* written replaces its lanes and keeps every other bit (memory_write_byte,
\* memory_write_half, set_bits, clr_bit).
THEOREM WritesReplace == Fields!LaneBitsAssumption => (Fields!Spec => WritesReplaceLanes)
<1>. SUFFICES ASSUME Fields!LaneBitsAssumption PROVE Fields!Spec => WritesReplaceLanes
  OBVIOUS
<1>1. FieldsInv /\ [Fields!Next]_(Fields!bvars) => FieldsInv'
  BY FieldsStep
<1>2. Fields!Init => FieldsInv
  BY DEF Fields!Init, FieldsInv
<1>3. ASSUME FieldsInv, [Fields!Next]_(Fields!bvars)
      PROVE  [call'.op = "write" =>
                \A i \in 0..3 :
                  Fields!Lane(word', i) = IF Fields!InField(call', i) THEN Fields!Lane(call'.bits, i - call'.lane)
                                          ELSE Fields!Lane(word, i)]_(Fields!bvars)
  BY <1>3, FieldsStep, Zenon DEF FieldStep
<1>. QED
  BY <1>1, <1>2, <1>3, PTL DEF Fields!Spec, WritesReplaceLanes, Fields!WritesReplaceLanes

\* A byte or a half read is its lanes and nothing else of the word
\* (memory_read_byte, memory_read_half, get_bits).
THEOREM ReadsTake == Fields!LaneBitsAssumption => (Fields!Spec => ReadsTakeLanes)
<1>. SUFFICES ASSUME Fields!LaneBitsAssumption PROVE Fields!Spec => ReadsTakeLanes
  OBVIOUS
<1>1. FieldsInv /\ [Fields!Next]_(Fields!bvars) => FieldsInv'
  BY FieldsStep
<1>2. Fields!Init => FieldsInv
  BY DEF Fields!Init, FieldsInv
<1>3. ASSUME FieldsInv, [Fields!Next]_(Fields!bvars)
      PROVE  [call'.op = "read" =>
                \A i \in 0..3 :
                  Fields!Lane(read', i) = IF i < call'.lanes THEN Fields!Lane(word, call'.lane + i)
                                          ELSE 0]_(Fields!bvars)
  BY <1>3, FieldsStep, Zenon DEF FieldStep
<1>. QED
  BY <1>1, <1>2, <1>3, PTL DEF Fields!Spec, ReadsTakeLanes, Fields!ReadsTakeLanes

-----------------------------------------------------------------------------
(* The transfers (Transfers): single, then of blocks.                          *)
\* The powers of Transfers are those of Words.
LEMMA MovesPower == Moves!Power = Power
BY DEF Moves!Power, Power

\* The values of one, two, three and four bytes, the last a word.
MoveBytes(B, C, D, W) ==
  /\ C = B * B /\ D = C * B /\ W = D * B
  /\ Moves!ByteSize = B /\ Moves!WordSize = W
  /\ Moves!Bytes[0] = 1 /\ Moves!Bytes[1] = B /\ Moves!Bytes[2] = C /\ Moves!Bytes[3] = D /\ Moves!Bytes[4] = W
  /\ Moves!Word = 0 .. W - 1 /\ Moves!AllOnes = W - 1

\* TransfersAssumption says that there are such values.
LEMMA MoveBytesAre ==
  Moves!TransfersAssumption => \E B, C, D, W \in Nat \ {0} : B >= 4 /\ MoveBytes(B, C, D, W)
<1>. SUFFICES ASSUME Moves!TransfersAssumption
              PROVE  \E B, C, D, W \in Nat \ {0} : B >= 4 /\ MoveBytes(B, C, D, W)
  OBVIOUS
<1>1. PICK u \in Nat : u = MoveWidth \div 4 /\ MoveWidth = 4 * u /\ u >= 2
  BY DEF Moves!TransfersAssumption
<1>2. PICK B \in Nat \ {0} : B = Power[u]
  BY Powers
<1>3. B >= 4
  <2>1. PICK t \in Nat : u = t + 2
    BY <1>1
  <2>2. 2 \in Nat /\ 0 \in Nat /\ 1 \in Nat /\ 0 + 1 = 1 /\ 1 + 1 = 2
    OBVIOUS
  <2>3. Power[2] = 4
    BY <2>2, Powers
  <2>4. Power[u] = Power[t] * 4
    BY <2>1, <2>2, <2>3, PowerOfSum
  <2>5. Power[t] \in Nat \ {0}
    BY Powers
  <2>. QED
    BY <1>2, <2>4, <2>5
<1>4. PICK C \in Nat \ {0}, D \in Nat \ {0}, W \in Nat \ {0} : C = B * B /\ D = C * B /\ W = D * B
  <2>1. B * B \in Nat \ {0}
    BY ONLY B \in Nat \ {0}
  <2>2. PICK C \in Nat \ {0} : C = B * B
    BY <2>1
  <2>3. PICK D \in Nat \ {0} : D = C * B
    BY ONLY B \in Nat \ {0}, C \in Nat \ {0}
  <2>4. PICK W \in Nat \ {0} : W = D * B
    BY ONLY B \in Nat \ {0}, D \in Nat \ {0}
  <2>. QED
    BY <2>2, <2>3, <2>4
<1>5. Power[u + u] = C /\ Power[(u + u) + u] = D /\ Power[((u + u) + u) + u] = W
  <2>1. u + u \in Nat /\ (u + u) + u \in Nat
    OBVIOUS
  <2>2. Power[u + u] = C
    BY <1>2, <1>4, PowerOfSum
  <2>3. Power[(u + u) + u] = D
    BY <1>2, <1>4, <2>1, <2>2, PowerOfSum
  <2>4. Power[((u + u) + u) + u] = W
    BY <1>2, <1>4, <2>1, <2>3, PowerOfSum
  <2>. QED
    BY <2>2, <2>3, <2>4
<1>6. /\ 0 * u = 0 /\ 1 * u = u /\ 2 * u = u + u /\ 3 * u = (u + u) + u /\ 4 * u = ((u + u) + u) + u
      /\ MoveWidth = ((u + u) + u) + u
  BY <1>1
<1>7. /\ Moves!Bytes[0] = 1 /\ Moves!Bytes[1] = B /\ Moves!Bytes[2] = C /\ Moves!Bytes[3] = D
      /\ Moves!Bytes[4] = W
  <2>1. Moves!Bytes = [n \in 0..4 |-> Power[n * u]]
    BY <1>1, MovesPower, Zenon DEF Moves!Bytes
  <2>2. \A n \in 0..4 : Moves!Bytes[n] = Power[n * u]
    BY ONLY <2>1, Zenon
  <2>3. 0 \in 0..4 /\ 1 \in 0..4 /\ 2 \in 0..4 /\ 3 \in 0..4 /\ 4 \in 0..4
    OBVIOUS
  <2>4. Power[0] = 1
    BY Powers
  <2>. QED
    BY ONLY <1>2, <1>5, <1>6, <2>2, <2>3, <2>4, Zenon
<1>8. Moves!ByteSize = B /\ Moves!WordSize = W
  BY <1>1, <1>2, <1>5, <1>6, MovesPower, Zenon DEF Moves!ByteSize, Moves!WordSize
<1>9. Moves!Word = 0 .. W - 1 /\ Moves!AllOnes = W - 1
  BY <1>8, Zenon DEF Moves!Word, Moves!AllOnes
<1>. QED
  BY <1>3, <1>4, <1>7, <1>8, <1>9, Zenon DEF MoveBytes

\* The rest for a product.
RestIs(x, d, e, c) == x % c = (((x \div d) % e) * d) + (x % d)

\* A number splits into a digit above d and a rest below it.
LEMMA RestOfProduct ==
  ASSUME NEW x \in Int, NEW d \in Nat \ {0}, NEW e \in Nat \ {0}, NEW c \in Nat \ {0}, c = d * e
  PROVE  RestIs(x, d, e, c)
<1>1. PICK q \in Int, t \in Int : /\ q = x \div d /\ t = x % c
                                  /\ t % d = x % d /\ t \div d = q % e
  <2>1. DividesTwice(x, d, e, c)
    BY TwoDivisions, Zenon
  <2>. QED
    BY ONLY <2>1, Zenon DEF DividesTwice
<1>2. t = (t \div d) * d + (t % d)
  BY ONLY t \in Int, d \in Nat \ {0}, Division, Zenon
<1>. QED
  BY ONLY <1>1, <1>2 DEF RestIs

\* A digit above a number.
LEMMA DigitAbove ==
  ASSUME NEW d \in Nat \ {0}, NEW e \in Nat \ {0}, NEW c \in Nat \ {0}, c = d * e, NEW r \in 0 .. d - 1,
         NEW m \in 0 .. e - 1
  PROVE  r + m * d \in 0 .. c - 1
<1>1. PICK f \in Nat : f = m * d
  OBVIOUS
<1>2. m <= e - 1 => m * d <= (e - 1) * d
  OBVIOUS
<1>3. (e - 1) * d = c - d
  OBVIOUS
<1>. QED
  BY ONLY <1>1, <1>2, <1>3, m <= e - 1, r \in 0 .. d - 1, d \in Nat \ {0}, c \in Nat \ {0}

\* The bytes of a memory, and what 1, 2 or 4 of them make.
ByteOf(v, i) == (v \div Moves!Bytes[i]) % Moves!ByteSize

\* The digits of a number make its rest.
LEMMA BytesMake ==
  ASSUME NEW B \in Nat \ {0}, NEW C \in Nat \ {0}, NEW D \in Nat \ {0}, NEW W \in Nat \ {0},
         MoveBytes(B, C, D, W), NEW v \in Int
  PROVE  /\ ByteOf(v, 0) = v % B
         /\ ByteOf(v, 0) + ByteOf(v, 1) * B = v % C
         /\ ByteOf(v, 0) + ByteOf(v, 1) * B + ByteOf(v, 2) * C + ByteOf(v, 3) * D = v % W
         /\ \A i \in 0 .. 3 : ByteOf(v, i) \in 0 .. B - 1
<1>1. C = B * B /\ D = C * B /\ W = D * B
  BY DEF MoveBytes
<1>2. PICK p \in Int, q \in Int, r \in Int, s \in Int : p = v % B /\ q = v % C /\ r = v % D /\ s = v % W
  <2>1. \A d \in Nat \ {0} : v % d \in 0 .. d - 1
    BY v \in Int, Division, Zenon
  <2>2. \A d \in Nat \ {0} : v % d \in Int
    BY ONLY <2>1
  <2>. QED
    BY ONLY <2>2, B \in Nat \ {0}, C \in Nat \ {0}, D \in Nat \ {0}, W \in Nat \ {0}, Zenon
<1>3. v \div B \in Int /\ v \div C \in Int /\ v \div D \in Int
  BY Division
<1>4. PICK x \in 0 .. B - 1, y \in 0 .. B - 1, z \in 0 .. B - 1 :
        x = (v \div B) % B /\ y = (v \div C) % B /\ z = (v \div D) % B
  <2>1. PICK b \in Int, c \in Int, d \in Int : b = v \div B /\ c = v \div C /\ d = v \div D
    BY <1>3
  <2>2. b % B \in 0 .. B - 1 /\ c % B \in 0 .. B - 1 /\ d % B \in 0 .. B - 1
    BY Division
  <2>. QED
    BY ONLY <2>1, <2>2
<1>5. q = (x * B) + p
  <2>1. RestIs(v, B, B, C)
    BY <1>1, RestOfProduct, Zenon
  <2>. QED
    BY ONLY <1>2, <1>4, <2>1 DEF RestIs
<1>6. r = (y * C) + q
  <2>1. RestIs(v, C, B, D)
    BY <1>1, RestOfProduct, Zenon
  <2>. QED
    BY ONLY <1>2, <1>4, <2>1 DEF RestIs
<1>7. s = (z * D) + r
  <2>1. RestIs(v, D, B, W)
    BY <1>1, RestOfProduct, Zenon
  <2>. QED
    BY ONLY <1>2, <1>4, <2>1 DEF RestIs
<1>8. ByteOf(v, 1) = x /\ ByteOf(v, 2) = y /\ ByteOf(v, 3) = z
  BY <1>4, Zenon DEF MoveBytes, ByteOf
<1>9. ByteOf(v, 0) = p /\ p \in 0 .. B - 1
  <2>1. v \div 1 = v
    OBVIOUS
  <2>2. p \in 0 .. B - 1
    BY <1>2, Division
  <2>. QED
    BY <1>2, <2>1, <2>2, Zenon DEF MoveBytes, ByteOf
<1>10. \A i \in 0 .. 3 : i = 0 \/ i = 1 \/ i = 2 \/ i = 3
  OBVIOUS
<1>11. /\ p + x * B = q
       /\ p + x * B + y * C + z * D = s
  <2>1. PICK f \in Int, g \in Int, h \in Int : f = x * B /\ g = y * C /\ h = z * D
    OBVIOUS
  <2>. QED
    BY ONLY <1>5, <1>6, <1>7, <2>1, p \in Int, q \in Int, r \in Int, s \in Int
<1>. QED
  BY ONLY <1>2, <1>4, <1>8, <1>9, <1>10, <1>11

\* What n bytes of a memory m make, from the address a on.
Gather(m, a, n) ==
  LET Part(i) == IF i \in 0 .. (n - 1) THEN m[a + i] * Moves!Bytes[i] ELSE 0
  IN  Part(0) + Part(1) + Part(2) + Part(3)

\* A read of memory gathers its bytes, before a step and after it.
LEMMA ReadFromIs == \A a, n : /\ Moves!ReadFrom(a, n) = Gather(mem, a, n)
                              /\ Moves!ReadFrom(a, n)' = Gather(mem', a, n)
BY Zenon DEF Moves!ReadFrom, Gather, Moves!Lanes

\* The addresses of an access are those of bytes of the memory.
LEMMA Inside ==
  ASSUME Moves!TransfersAssumption, NEW a \in Nat, NEW n \in {1, 2, 4}, Moves!Accessible(a, n)
  PROVE  \A i \in 0 .. n - 1 : a + i \in 0 .. MemorySize - 1
<1>1. MemorySize \in Nat /\ MemorySize % 4 = 0 /\ a < MemorySize /\ a % n = 0
  BY DEF Moves!TransfersAssumption, Moves!Accessible
<1>2. CASE n = 1
  BY ONLY <1>1, <1>2, a \in Nat
<1>3. CASE n = 2
  BY ONLY <1>1, <1>3, a \in Nat
<1>4. CASE n = 4
  BY ONLY <1>1, <1>4, a \in Nat
<1>. QED
  BY <1>2, <1>3, <1>4

\* What the bytes of an access make when each is known.
Holds(m, a, n, f) == \A i \in 0 .. n - 1 : m[a + i] = f[i]

Makes(x, n, f, B, C, D) ==
  /\ n = 1 => x = f[0]
  /\ n = 2 => x = f[0] + f[1] * B
  /\ n = 4 => x = f[0] + f[1] * B + f[2] * C + f[3] * D

\* The bytes known make what is gathered.
LEMMA GatherIs ==
  ASSUME NEW B \in Nat \ {0}, NEW C \in Nat \ {0}, NEW D \in Nat \ {0}, NEW W \in Nat \ {0},
         MoveBytes(B, C, D, W), NEW m, NEW a \in Nat, NEW n \in {1, 2, 4},
         NEW f \in [0 .. 3 -> 0 .. B - 1], Holds(m, a, n, f)
  PROVE  Makes(Gather(m, a, n), n, f, B, C, D)
<1>1. /\ Moves!Bytes[0] = 1 /\ Moves!Bytes[1] = B /\ Moves!Bytes[2] = C /\ Moves!Bytes[3] = D
  BY DEF MoveBytes
<1>2. f[0] \in Int /\ f[1] \in Int /\ f[2] \in Int /\ f[3] \in Int
  OBVIOUS
<1>3. CASE n = 1
  <2>1. /\ 0 \in 0 .. (n - 1) /\ 1 \notin 0 .. (n - 1) /\ 2 \notin 0 .. (n - 1) /\ 3 \notin 0 .. (n - 1)
    BY <1>3
  <2>2. m[a + 0] = f[0]
    BY ONLY <2>1, Holds(m, a, n, f), Zenon DEF Holds
  <2>3. Gather(m, a, n) = f[0] * 1 + 0 + 0 + 0
    BY ONLY <1>1, <2>1, <2>2, Zenon DEF Gather
  <2>. QED
    BY ONLY <1>2, <1>3, <2>3 DEF Makes
<1>4. CASE n = 2
  <2>1. /\ 0 \in 0 .. (n - 1) /\ 1 \in 0 .. (n - 1) /\ 2 \notin 0 .. (n - 1) /\ 3 \notin 0 .. (n - 1)
    BY <1>4
  <2>2. m[a + 0] = f[0] /\ m[a + 1] = f[1]
    BY ONLY <2>1, Holds(m, a, n, f), Zenon DEF Holds
  <2>3. Gather(m, a, n) = f[0] * 1 + f[1] * B + 0 + 0
    BY ONLY <1>1, <2>1, <2>2, Zenon DEF Gather
  <2>. QED
    BY ONLY <1>2, <1>4, <2>3, B \in Nat \ {0} DEF Makes
<1>5. CASE n = 4
  <2>1. /\ 0 \in 0 .. (n - 1) /\ 1 \in 0 .. (n - 1) /\ 2 \in 0 .. (n - 1) /\ 3 \in 0 .. (n - 1)
    BY <1>5
  <2>2. m[a + 0] = f[0] /\ m[a + 1] = f[1] /\ m[a + 2] = f[2] /\ m[a + 3] = f[3]
    BY ONLY <2>1, Holds(m, a, n, f), Zenon DEF Holds
  <2>3. Gather(m, a, n) = f[0] * 1 + f[1] * B + f[2] * C + f[3] * D
    BY ONLY <1>1, <2>1, <2>2, Zenon DEF Gather
  <2>. QED
    BY ONLY <1>2, <1>5, <2>3, B \in Nat \ {0}, C \in Nat \ {0}, D \in Nat \ {0} DEF Makes
<1>. QED
  BY <1>3, <1>4, <1>5

\* What a read of the memory gives is a number of its size.
LEMMA ReadType ==
  ASSUME Moves!TransfersAssumption,
         NEW B \in Nat \ {0}, NEW C \in Nat \ {0}, NEW D \in Nat \ {0}, NEW W \in Nat \ {0},
         MoveBytes(B, C, D, W), NEW m \in [0 .. MemorySize - 1 -> 0 .. B - 1], NEW a \in Nat, NEW n \in {1, 2, 4},
         Moves!Accessible(a, n)
  PROVE  Gather(m, a, n) \in 0 .. Moves!Bytes[n] - 1
<1>1. \A i \in 0 .. n - 1 : m[a + i] \in 0 .. B - 1
  BY Inside
<1>2. PICK f \in [0 .. 3 -> 0 .. B - 1] : Holds(m, a, n, f)
  <2>1. 0 \in 0 .. B - 1
    OBVIOUS
  <2>2. [i \in 0 .. 3 |-> IF i \in 0 .. n - 1 THEN m[a + i] ELSE 0] \in [0 .. 3 -> 0 .. B - 1]
    BY <1>1, <2>1
  <2>3. \A i \in 0 .. n - 1 : i \in 0 .. 3
    OBVIOUS
  <2>. QED
    BY <2>2, <2>3 DEF Holds
<1>3. Makes(Gather(m, a, n), n, f, B, C, D)
  BY <1>2, GatherIs
<1>4. C = B * B /\ D = C * B /\ W = D * B
  BY DEF MoveBytes
<1>5. f[0] \in 0 .. B - 1 /\ f[1] \in 0 .. B - 1 /\ f[2] \in 0 .. B - 1 /\ f[3] \in 0 .. B - 1
  OBVIOUS
<1>6. f[0] + f[1] * B \in 0 .. C - 1
  BY ONLY <1>4, <1>5, DigitAbove, B \in Nat \ {0}, C \in Nat \ {0}
<1>7. (f[0] + f[1] * B) + f[2] * C \in 0 .. D - 1
  BY ONLY <1>4, <1>5, <1>6, DigitAbove, B \in Nat \ {0}, C \in Nat \ {0}, D \in Nat \ {0}
<1>8. ((f[0] + f[1] * B) + f[2] * C) + f[3] * D \in 0 .. W - 1
  BY ONLY <1>4, <1>5, <1>7, DigitAbove, B \in Nat \ {0}, D \in Nat \ {0}, W \in Nat \ {0}
<1>9. Moves!Bytes[1] = B /\ Moves!Bytes[2] = C /\ Moves!Bytes[4] = W
  BY DEF MoveBytes
<1>. QED
  BY ONLY <1>3, <1>5, <1>6, <1>8, <1>9, n \in {1, 2, 4} DEF Makes

\* What an access wrote is what it reads.
LEMMA WrittenIsRead ==
  ASSUME Moves!TransfersAssumption,
         NEW B \in Nat \ {0}, NEW C \in Nat \ {0}, NEW D \in Nat \ {0}, NEW W \in Nat \ {0},
         MoveBytes(B, C, D, W), NEW m, NEW a \in Nat, NEW n \in {1, 2, 4}, NEW v \in Int,
         \A i \in 0 .. n - 1 : m[a + i] = ByteOf(v, i)
  PROVE  Gather(m, a, n) = v % Moves!Bytes[n]
<1>1. /\ ByteOf(v, 0) = v % B
      /\ ByteOf(v, 0) + ByteOf(v, 1) * B = v % C
      /\ ByteOf(v, 0) + ByteOf(v, 1) * B + ByteOf(v, 2) * C + ByteOf(v, 3) * D = v % W
      /\ \A i \in 0 .. 3 : ByteOf(v, i) \in 0 .. B - 1
  BY BytesMake
<1>2. PICK f \in [0 .. 3 -> 0 .. B - 1] : \A i \in 0 .. 3 : f[i] = ByteOf(v, i)
  <2>1. [i \in 0 .. 3 |-> ByteOf(v, i)] \in [0 .. 3 -> 0 .. B - 1]
    BY <1>1
  <2>. QED
    BY <2>1
<1>3. Holds(m, a, n, f)
  BY <1>2 DEF Holds
<1>4. Makes(Gather(m, a, n), n, f, B, C, D)
  BY <1>3, GatherIs, Zenon
<1>5. f[0] = ByteOf(v, 0) /\ f[1] = ByteOf(v, 1) /\ f[2] = ByteOf(v, 2) /\ f[3] = ByteOf(v, 3)
  BY <1>2
<1>6. Moves!Bytes[1] = B /\ Moves!Bytes[2] = C /\ Moves!Bytes[4] = W
  BY DEF MoveBytes
<1>. QED
  BY ONLY <1>1, <1>4, <1>5, <1>6, n \in {1, 2, 4}, Zenon DEF Makes

-----------------------------------------------------------------------------
\* The registers hold words and the memory bytes.
MovesTypes == /\ reg \in [Registers -> Moves!Word]
              /\ mem \in [0 .. MemorySize - 1 -> 0 .. Moves!ByteSize - 1]

\* Memory still holds what was stored last, where that is in its range.
StoredKept ==
  stored # Moves!None =>
    /\ stored.size \in {1, 2, 4} /\ stored.address \in Nat
    /\ Moves!Accessible(stored.address, stored.size) =>
         Moves!ReadFrom(stored.address, stored.size) = stored.value

\* The inductive invariant.
MovesInv == MovesTypes /\ StoredKept /\ Moves!StoredIsLoaded

\* Addresses and words are between 0 and the greatest word.
LEMMA WordsOfMoves ==
  ASSUME Moves!TransfersAssumption
  PROVE  /\ \A x \in Int : Moves!Modulo(x) \in Moves!Word
         /\ \A x \in Moves!Word : x \in Nat
         /\ Moves!AllOnes \in Moves!Word /\ MemorySize <= Moves!AllOnes
<1>1. PICK B \in Nat \ {0}, C \in Nat \ {0}, D \in Nat \ {0}, W \in Nat \ {0} : B >= 4 /\ MoveBytes(B, C, D, W)
  BY MoveBytesAre
<1>2. Moves!WordSize = W /\ Moves!Word = 0 .. W - 1 /\ Moves!AllOnes = W - 1
  BY <1>1 DEF MoveBytes
<1>3. \A x \in Int : Moves!Modulo(x) \in Moves!Word
  <2>. SUFFICES ASSUME NEW x \in Int PROVE Moves!Modulo(x) \in Moves!Word
    OBVIOUS
  <2>1. x % W \in 0 .. W - 1
    BY Division
  <2>. QED
    BY ONLY <1>2, <2>1, Zenon DEF Moves!Modulo
<1>4. MemorySize <= Moves!AllOnes
  BY DEF Moves!TransfersAssumption
<1>. QED
  BY <1>2, <1>3, <1>4

\* The index of a register offset is a number.
LEMMA ShiftType ==
  ASSUME Moves!TransfersAssumption, NEW type \in Moves!Shifts, NEW n \in IndexAmounts, NEW x \in Moves!Word,
         NEW c \in {0, 1}
  PROVE  Moves!shift(type, n, x, c) \in Int
<1>1. PICK w \in Nat : w = MoveWidth /\ n \in 0 .. w - 1
  BY DEF Moves!TransfersAssumption
<1>2. PICK p \in Nat \ {0}, q \in Nat \ {0}, h \in Nat \ {0} :
        p = Power[n] /\ q = Power[MoveWidth - n] /\ h = Power[MoveWidth - 1]
  <2>1. n \in Nat /\ MoveWidth - n \in Nat /\ MoveWidth - 1 \in Nat
    BY <1>1
  <2>. QED
    BY ONLY <2>1, Powers
<1>3. x \in Int /\ \A y \in Int : Moves!Modulo(y) \in Int
  BY WordsOfMoves
<1>4. x * p \in Int /\ x * q \in Int /\ c * h \in Int
  BY ONLY <1>3, p \in Nat \ {0}, q \in Nat \ {0}, h \in Nat \ {0}, c \in {0, 1}
<1>5. x \div p \in Int /\ x \div 2 \in Int /\ x \div h \in Int
  BY ONLY <1>3, p \in Nat \ {0}, h \in Nat \ {0}, 2 \in Nat \ {0}, Division, Zenon
<1>6. PICK s \in Int, o \in Int, W \in Int : s = Moves!Sign(x) /\ o = Moves!AllOnes /\ W = Moves!WordSize
  <2>1. PICK B \in Nat \ {0}, C \in Nat \ {0}, D \in Nat \ {0}, W \in Nat \ {0} : B >= 4 /\ MoveBytes(B, C, D, W)
    BY MoveBytesAre
  <2>2. Moves!Sign(x) = x \div h
    BY ONLY <1>2, MovesPower, Zenon DEF Moves!Sign
  <2>3. Moves!AllOnes \in Int /\ Moves!WordSize \in Int
    BY <2>1 DEF MoveBytes
  <2>. QED
    BY ONLY <1>5, <2>2, <2>3
<1>7. PICK l \in Int, r \in Int : l = Moves!Modulo(x * p) /\ r = Moves!Modulo(x * q)
  BY ONLY <1>3, <1>4
<1>8. PICK d \in Int, e \in Int, g \in Int : d = x \div p /\ e = x \div 2 /\ g = c * h
  BY ONLY <1>4, <1>5
<1>9. CASE type = "LSL"
  <2>1. Moves!shift(type, n, x, c) = l
    BY ONLY <1>2, <1>7, <1>9, MovesPower DEF Moves!shift
  <2>. QED
    BY <2>1
<1>10. CASE type = "LSR"
  <2>1. Moves!shift(type, n, x, c) = IF n = 0 THEN 0 ELSE d
    BY ONLY <1>2, <1>8, <1>10, MovesPower DEF Moves!shift
  <2>. QED
    BY <2>1
<1>11. CASE type = "ASR"
  <2>1. Moves!shift(type, n, x, c) = IF n = 0 THEN s * o ELSE d + s * (W - q)
    BY ONLY <1>2, <1>6, <1>8, <1>11, MovesPower DEF Moves!shift
  <2>2. s * o \in Int /\ s * (W - q) \in Int
    BY ONLY s \in Int, o \in Int, W \in Int, q \in Nat \ {0}
  <2>. QED
    BY ONLY <2>1, <2>2, d \in Int
<1>12. CASE type = "ROR"
  <2>1. Moves!shift(type, n, x, c) = IF n = 0 THEN g + e ELSE d + r
    BY ONLY <1>2, <1>7, <1>8, <1>12, MovesPower DEF Moves!shift
  <2>. QED
    BY <2>1
<1>. QED
  BY <1>9, <1>10, <1>11, <1>12 DEF Moves!Shifts

\* The address of a transfer and the registers after its base was written back.
LEMMA AddressedType ==
  ASSUME Moves!TransfersAssumption, MovesTypes, NEW size, NEW immediate, NEW p, NEW w, NEW passed \in BOOLEAN,
         NEW rn \in Registers, NEW target \in Moves!Word
  PROVE  LET a == Moves!Addressed(Moves!Form(size, immediate, p, w), passed, rn, target)
         IN  a.address \in Moves!Word /\ a.regs \in [Registers -> Moves!Word]
<1>1. PICK form \in {"pre", "offset", "none", "post", "computed"} : form = Moves!Form(size, immediate, p, w)
  BY DEF Moves!Form
<1>2. Moves!AllOnes \in Moves!Word
  BY WordsOfMoves
<1>3. reg \in [Registers -> Moves!Word]
  BY DEF MovesTypes
<1>4. CASE form = "offset"
  BY ONLY <1>1, <1>3, <1>4, target \in Moves!Word DEF Moves!Addressed
<1>5. CASE form = "none" \/ (form # "offset" /\ ~passed)
  BY ONLY <1>1, <1>2, <1>3, <1>5 DEF Moves!Addressed
<1>6. CASE form = "pre" /\ passed
  BY ONLY <1>1, <1>3, <1>6, target \in Moves!Word, rn \in Registers DEF Moves!Addressed
<1>7. CASE form = "post" /\ passed
  BY ONLY <1>1, <1>3, <1>7, target \in Moves!Word, rn \in Registers DEF Moves!Addressed
<1>8. CASE form = "computed" /\ passed
  BY ONLY <1>1, <1>3, <1>8, target \in Moves!Word DEF Moves!Addressed
<1>. QED
  BY <1>4, <1>5, <1>6, <1>7, <1>8

\* What a load finds is of its size.
LEMMA ReadGives ==
  ASSUME Moves!TransfersAssumption, MovesTypes, NEW a \in Nat, NEW n \in {1, 2, 4}, NEW value \in Moves!Read(a, n)
  PROVE  /\ value \in 0 .. Moves!Bytes[n] - 1
         /\ Moves!Accessible(a, n) => value = Moves!ReadFrom(a, n)
<1>1. PICK B \in Nat \ {0}, C \in Nat \ {0}, D \in Nat \ {0}, W \in Nat \ {0} : B >= 4 /\ MoveBytes(B, C, D, W)
  BY MoveBytesAre
<1>2. CASE Moves!Accessible(a, n)
  <2>1. value = Moves!ReadFrom(a, n)
    BY <1>2 DEF Moves!Read
  <2>2. mem \in [0 .. MemorySize - 1 -> 0 .. B - 1]
    BY <1>1 DEF MovesTypes, MoveBytes
  <2>3. Gather(mem, a, n) \in 0 .. Moves!Bytes[n] - 1
    BY <1>1, <1>2, <2>2, ReadType
  <2>. QED
    BY <2>1, <2>3, ReadFromIs
<1>3. CASE ~Moves!Accessible(a, n)
  <2>1. PICK g \in Garbage : value = g % Moves!Bytes[n]
    BY <1>3 DEF Moves!Read
  <2>2. g \in Int
    BY WordsOfMoves DEF Moves!TransfersAssumption
  <2>3. PICK b \in Nat \ {0} : b = Moves!Bytes[n]
    BY <1>1 DEF MoveBytes
  <2>4. g % b \in 0 .. b - 1
    BY <2>2, Division
  <2>. QED
    BY <1>3, <2>1, <2>3, <2>4
<1>. QED
  BY <1>2, <1>3

\* Extending a value to a word keeps its bytes.
LEMMA ExtendedIs ==
  ASSUME Moves!TransfersAssumption, NEW n \in {1, 2, 4}, NEW value \in 0 .. Moves!Bytes[n] - 1, NEW signed
  PROVE  /\ Moves!Extended(value, n, signed) \in Moves!Word
         /\ Moves!Extended(value, n, signed) % Moves!Bytes[n] = value
<1>1. PICK B \in Nat \ {0}, C \in Nat \ {0}, D \in Nat \ {0}, W \in Nat \ {0} : B >= 4 /\ MoveBytes(B, C, D, W)
  BY MoveBytesAre
<1>2. C = B * B /\ D = C * B /\ W = D * B
  BY <1>1 DEF MoveBytes
<1>3. /\ Moves!Bytes[1] = B /\ Moves!Bytes[2] = C /\ Moves!Bytes[4] = W
      /\ Moves!WordSize = W /\ Moves!Word = 0 .. W - 1
  BY <1>1 DEF MoveBytes
<1>4. PICK b \in Nat \ {0}, k \in Nat \ {0} : b = Moves!Bytes[n] /\ W = k * b
  <2>1. W = D * B /\ W = C * C /\ W = 1 * W
    BY ONLY <1>2, B \in Nat \ {0}, C \in Nat \ {0}, D \in Nat \ {0}, W \in Nat \ {0}
  <2>. QED
    BY ONLY <1>3, <2>1, n \in {1, 2, 4}, B \in Nat \ {0}, C \in Nat \ {0}, D \in Nat \ {0}, W \in Nat \ {0}, 1 \in Nat \ {0}
<1>5. value \in 0 .. b - 1 /\ value \in Int
  BY <1>4
<1>6. b <= W
  BY ONLY <1>4, b \in Nat \ {0}, k \in Nat \ {0}
<1>7. value % b = value
  <2>1. value = 0 * b + value
    BY <1>5
  <2>. QED
    BY <1>5, <2>1, Quotient
<1>8. (value + (W - b)) % b = value
  <2>1. value + (W - b) = (k - 1) * b + value /\ k - 1 \in Int /\ value + (W - b) \in Int
    BY ONLY <1>4, <1>5, b \in Nat \ {0}, k \in Nat \ {0}
  <2>. QED
    BY ONLY <1>5, <2>1, b \in Nat \ {0}, Quotient
<1>9. Moves!Extended(value, n, signed) = value \/ Moves!Extended(value, n, signed) = value + (W - b)
  BY <1>3, <1>4 DEF Moves!Extended
<1>10. value \in 0 .. W - 1 /\ value + (W - b) \in 0 .. W - 1
  BY ONLY <1>5, <1>6, b \in Nat \ {0}, W \in Nat \ {0}
<1>11. \A e : e = value \/ e = value + (W - b) => e \in 0 .. W - 1 /\ e % b = value
  BY ONLY <1>7, <1>8, <1>10, Zenon
<1>. QED
  BY ONLY <1>3, <1>4, <1>9, <1>11, Zenon

\* What a store leaves in memory.
LEMMA WroteIs ==
  ASSUME Moves!TransfersAssumption, MovesTypes, NEW a \in Nat, NEW n \in {1, 2, 4}, NEW v \in Moves!Word,
         mem' = Moves!Wrote(mem, a, n, v)
  PROVE  /\ mem' \in [0 .. MemorySize - 1 -> 0 .. Moves!ByteSize - 1]
         /\ Moves!Accessible(a, n) => Moves!ReadFrom(a, n)' = v % Moves!Bytes[n]
<1>1. PICK B \in Nat \ {0}, C \in Nat \ {0}, D \in Nat \ {0}, W \in Nat \ {0} : B >= 4 /\ MoveBytes(B, C, D, W)
  BY MoveBytesAre
<1>2. Moves!ByteSize = B
  BY <1>1 DEF MoveBytes
<1>3. mem \in [0 .. MemorySize - 1 -> 0 .. B - 1] /\ DOMAIN mem = 0 .. MemorySize - 1
  BY <1>2 DEF MovesTypes
<1>4. v \in Int
  BY WordsOfMoves
<1>5. \A i \in 0 .. 3 : ByteOf(v, i) \in 0 .. B - 1
  BY <1>1, <1>4, BytesMake
<1>6. mem' = [x \in 0 .. MemorySize - 1 |-> IF Moves!Accessible(a, n) /\ x - a \in 0 .. n - 1
                                            THEN ByteOf(v, x - a) ELSE mem[x]]
  BY <1>3, Zenon DEF Moves!Wrote, Moves!Lanes, ByteOf
<1>7. \A i \in 0 .. n - 1 : i \in 0 .. 3
  OBVIOUS
<1>8. mem' \in [0 .. MemorySize - 1 -> 0 .. B - 1]
  BY <1>3, <1>5, <1>6, <1>7
<1>9. ASSUME Moves!Accessible(a, n)
      PROVE  Moves!ReadFrom(a, n)' = v % Moves!Bytes[n]
  <2>1. \A i \in 0 .. n - 1 : a + i \in 0 .. MemorySize - 1
    BY <1>9, Inside
  <2>2. \A i \in 0 .. n - 1 : (a + i) - a = i
    OBVIOUS
  <2>3. \A i \in 0 .. n - 1 : mem'[a + i] = ByteOf(v, i)
    BY ONLY <1>6, <1>9, <2>1, <2>2, Zenon
  <2>4. Gather(mem', a, n) = v % Moves!Bytes[n]
    <3>1. PICK m : m = mem'
      OBVIOUS
    <3>2. \A i \in 0 .. n - 1 : m[a + i] = ByteOf(v, i)
      BY ONLY <2>3, <3>1, Zenon
    <3>3. Gather(m, a, n) = v % Moves!Bytes[n]
      BY <1>1, <1>4, <3>2, WrittenIsRead
    <3>. QED
      BY ONLY <3>1, <3>3, Zenon
  <2>. QED
    BY ONLY <2>4, ReadFromIs, Zenon
<1>. QED
  BY <1>2, <1>8, <1>9

\* A single transfer, with the values its operands are taken from.
SingleStep(size, load, immediate, p, up, w, passed, signed, rn, rd, offset) ==
  /\ size \in Sizes /\ load \in BOOLEAN /\ immediate \in BOOLEAN /\ p \in BOOLEAN /\ up \in BOOLEAN
  /\ w \in BOOLEAN /\ passed \in BOOLEAN /\ signed \in BOOLEAN /\ rn \in Named /\ rd \in Named
  /\ offset \in Int
  /\ Moves!arm_load_store(load, size, signed, immediate, p, up, w, rn, rd, Moves!Moved(reg[rn], up, offset), passed)

\* A single transfer keeps the invariant.
LEMMA SingleKeeps ==
  ASSUME Moves!TransfersAssumption, MovesInv, NEW size, NEW load, NEW immediate, NEW p, NEW up, NEW w, NEW passed,
         NEW signed, NEW rn, NEW rd, NEW offset,
         SingleStep(size, load, immediate, p, up, w, passed, signed, rn, rd, offset)
  PROVE  MovesInv'
<1>0. /\ size \in Sizes /\ load \in BOOLEAN /\ immediate \in BOOLEAN /\ p \in BOOLEAN /\ up \in BOOLEAN
      /\ w \in BOOLEAN /\ passed \in BOOLEAN /\ signed \in BOOLEAN /\ rn \in Named /\ rd \in Named
      /\ offset \in Int
      /\ Moves!arm_load_store(load, size, signed, immediate, p, up, w, rn, rd, Moves!Moved(reg[rn], up, offset), passed)
  BY Zenon DEF SingleStep
<1>. USE <1>0
<1>1. PICK target \in Moves!Word : target = Moves!Moved(reg[rn], up, offset)
  <2>1. reg[rn] \in Int
    BY WordsOfMoves DEF MovesInv, MovesTypes, Moves!TransfersAssumption
  <2>2. reg[rn] + offset \in Int /\ reg[rn] - offset \in Int
    BY <2>1
  <2>. QED
    BY <2>2, WordsOfMoves DEF Moves!Moved
<1>2. size \in {1, 2, 4} /\ rn \in Registers /\ rd \in Registers
  BY DEF Moves!TransfersAssumption
<1>3. MovesTypes
  BY DEF MovesInv
<1>4. PICK a : a = Moves!Addressed(Moves!Form(size, immediate, p, w), passed, rn, target)
  OBVIOUS
<1>5. a.address \in Moves!Word /\ a.regs \in [Registers -> Moves!Word]
  BY <1>2, <1>3, <1>4, AddressedType
<1>6. a.address \in Nat
  BY <1>5, WordsOfMoves
<1>7. CASE load
  <2>1. mem' = mem /\ stored' = stored
    BY <1>7, Zenon DEF Moves!arm_load_store
  <2>2. \A c, n : Moves!ReadFrom(c, n)' = Moves!ReadFrom(c, n)
    BY <2>1, ReadFromIs
  <2>3. StoredKept'
    BY <2>1, <2>2 DEF MovesInv, StoredKept, Moves!None, Moves!Accessible
  <2>4. CASE a.address # Moves!AllOnes
    <3>1. PICK value \in Moves!Read(a.address, size) :
            /\ reg' = Moves!Landed(a, rn, rd, Moves!Extended(value, size, signed))
            /\ transfer' = Moves!Single(TRUE, size, a.address, reg'[rd])
      BY <1>1, <1>4, <1>7, <2>4, Zenon DEF Moves!arm_load_store
    <3>2. /\ value \in 0 .. Moves!Bytes[size] - 1
          /\ Moves!Accessible(a.address, size) => value = Moves!ReadFrom(a.address, size)
      BY <1>2, <1>3, <1>6, ReadGives
    <3>3. PICK e \in Moves!Word : e = Moves!Extended(value, size, signed) /\ e % Moves!Bytes[size] = value
      BY <1>2, <3>2, ExtendedIs
    <3>4. reg' = [a.regs EXCEPT ![rd] = e]
      BY <3>1, <3>3 DEF Moves!Landed
    <3>5. reg' \in [Registers -> Moves!Word] /\ reg'[rd] = e
      BY <1>2, <1>5, <3>4
    <3>6. /\ transfer'.address = a.address /\ transfer'.size = size /\ transfer'.value = e
      BY <3>1, <3>5 DEF Moves!Single
    <3>7. Moves!StoredIsLoaded'
      BY ONLY <2>1, <3>2, <3>3, <3>6, MovesInv DEF MovesInv, StoredKept, Moves!StoredIsLoaded, Moves!Accessible,
         Moves!None
    <3>. QED
      BY <1>3, <2>1, <2>3, <3>5, <3>7 DEF MovesInv, MovesTypes, Moves!Word, Moves!AllOnes, Moves!WordSize,
         Moves!ByteSize
  <2>5. CASE a.address = Moves!AllOnes
    <3>1. reg' = a.regs /\ transfer' = Moves!Single(TRUE, size, a.address, 0)
      BY <1>1, <1>4, <1>7, <2>5, Zenon DEF Moves!arm_load_store
    <3>2. ~Moves!Accessible(a.address, size)
      BY <1>6, <2>5, WordsOfMoves DEF Moves!Accessible, Moves!TransfersAssumption
    <3>3. Moves!StoredIsLoaded'
      BY <3>1, <3>2 DEF Moves!StoredIsLoaded, Moves!Single, Moves!Accessible
    <3>. QED
      BY <1>3, <1>5, <2>1, <2>3, <3>1, <3>3 DEF MovesInv, MovesTypes, Moves!Word, Moves!AllOnes, Moves!WordSize,
         Moves!ByteSize
  <2>. QED
    BY <2>4, <2>5
<1>8. CASE ~load
  <2>1. /\ reg' = a.regs /\ mem' = Moves!Wrote(mem, a.address, size, a.regs[rd])
        /\ transfer' = Moves!Single(FALSE, size, a.address, a.regs[rd] % Moves!Bytes[size])
        /\ stored' = transfer'
    BY <1>1, <1>4, <1>8, Zenon DEF Moves!arm_load_store
  <2>2. a.regs[rd] \in Moves!Word
    BY <1>2, <1>5
  <2>3. /\ mem' \in [0 .. MemorySize - 1 -> 0 .. Moves!ByteSize - 1]
        /\ Moves!Accessible(a.address, size) =>
             Moves!ReadFrom(a.address, size)' = a.regs[rd] % Moves!Bytes[size]
    BY <1>2, <1>3, <1>6, <2>1, <2>2, WroteIs
  <2>4. /\ stored'.size = size /\ stored'.address = a.address
        /\ stored'.value = a.regs[rd] % Moves!Bytes[size] /\ transfer'.load = FALSE
    BY <2>1 DEF Moves!Single
  <2>5. StoredKept'
    BY <1>2, <1>6, <2>3, <2>4 DEF StoredKept, Moves!Accessible
  <2>6. Moves!StoredIsLoaded'
    BY <2>4 DEF Moves!StoredIsLoaded
  <2>. QED
    BY <1>5, <2>1, <2>3, <2>5, <2>6 DEF MovesInv, MovesTypes, Moves!Word, Moves!AllOnes, Moves!WordSize,
       Moves!ByteSize
<1>. QED
  BY <1>7, <1>8

-----------------------------------------------------------------------------
\* The cardinalities of Transfers are those of finite sets.
LEMMA MovesCardinality == \A S : Moves!Cardinality(S) = Cardinality(S)
BY DEF Moves!Cardinality, Cardinality

\* How many registers of a list come before a register.
Before(list, i) == Cardinality({j \in list : j < i})

\* They are counted in the order of their numbers.
LEMMA ListNumbers ==
  ASSUME Moves!TransfersAssumption, NEW list \in Lists
  PROVE  /\ list \subseteq 0 .. 14 /\ list \subseteq Registers
         /\ Moves!ListBytes(list) \in Nat
         /\ \A i \in list : Before(list, i) \in 0 .. 15
         /\ \A i, j \in list : i < j => Before(list, i) < Before(list, j)
<1>1. list \subseteq 0 .. 14 /\ list \subseteq Registers
  BY DEF Moves!TransfersAssumption
<1>2. \A S : S \subseteq 0 .. 14 => IsFiniteSet(S) /\ Cardinality(S) \in 0 .. 15
  <2>. SUFFICES ASSUME NEW S, S \subseteq 0 .. 14 PROVE IsFiniteSet(S) /\ Cardinality(S) \in 0 .. 15
    OBVIOUS
  <2>1. S \in SUBSET Nat /\ (\A s \in S : s <= 14) /\ 14 \in Nat
    OBVIOUS
  <2>2. IsFiniteSet(S) /\ Cardinality(S) <= 14 + 1
    BY ONLY <2>1, FS_BoundedSetOfNaturals, Zenon
  <2>3. Cardinality(S) \in Nat
    BY <2>2, FS_CardinalityType
  <2>. QED
    BY <2>2, <2>3
<1>3. Moves!ListBytes(list) \in Nat
  <2>1. Moves!ListBytes(list) = 4 * Cardinality(list)
    BY MovesCardinality, Zenon DEF Moves!ListBytes
  <2>3. Cardinality(list) \in 0 .. 15
    BY ONLY <1>1, <1>2, Zenon
  <2>2. PICK c \in Nat : c = Cardinality(list)
    BY ONLY <2>3
  <2>. QED
    BY ONLY <2>1, <2>2
<1>4. ASSUME NEW i \in list
      PROVE  Before(list, i) \in 0 .. 15
  <2>1. {j \in list : j < i} \subseteq 0 .. 14
    BY <1>1
  <2>. QED
    BY <1>2, <2>1 DEF Before
<1>5. ASSUME NEW i \in list, NEW j \in list, i < j
      PROVE  Before(list, i) < Before(list, j)
  <2>. DEFINE T == {k \in list : k < i}
              S == {k \in list : k < j}
  <2>0. i \in Int /\ j \in Int /\ i < j /\ \A k \in list : k \in Int
    BY <1>1, <1>5
  <2>1. T \subseteq S /\ i \in S /\ i \notin T /\ S \subseteq 0 .. 14 /\ T \subseteq 0 .. 14
    <3>1. \A k \in list : k < i => k < j
      BY ONLY <2>0
    <3>2. ~(i < i)
      BY ONLY <2>0
    <3>. QED
      BY ONLY <1>1, <2>0, <3>1, <3>2, i \in list, Zenon
  <2>. HIDE DEF T, S
  <2>2. IsFiniteSet(S) /\ Cardinality(S) \in 0 .. 15 /\ Cardinality(T) \in 0 .. 15
    BY <1>2, <2>1
  <2>3. Cardinality(T) <= Cardinality(S) /\ (Cardinality(S) = Cardinality(T) => S = T)
    BY <2>1, <2>2, FS_Subset, Zenon
  <2>4. Cardinality(T) < Cardinality(S)
    BY <2>1, <2>2, <2>3
  <2>. QED
    BY <2>4 DEF Before, T, S
<1>. QED
  BY <1>1, <1>3, <1>4, <1>5

\* The addresses of a list.
LEMMA AtIs ==
  ASSUME Moves!TransfersAssumption, NEW list \in Lists, NEW start \in Moves!Word
  PROVE  /\ \A i \in list : Moves!At(start, list, i) \in Moves!Word
         /\ \A i, j \in list : i # j => Moves!At(start, list, i) # Moves!At(start, list, j)
<1>1. PICK B \in Nat \ {0}, C \in Nat \ {0}, D \in Nat \ {0}, W \in Nat \ {0} : B >= 4 /\ MoveBytes(B, C, D, W)
  BY MoveBytesAre
<1>2. W >= 256
  <2>1. C = B * B /\ D = C * B /\ W = D * B
    BY <1>1 DEF MoveBytes
  <2>2. C >= 4 * B
    BY ONLY <1>1, <2>1, B \in Nat \ {0}
  <2>3. D >= 4 * C
    BY ONLY <1>1, <2>1, B \in Nat \ {0}, C \in Nat \ {0}
  <2>4. W >= 4 * D
    BY ONLY <1>1, <2>1, B \in Nat \ {0}, D \in Nat \ {0}
  <2>. QED
    BY <1>1, <2>2, <2>3, <2>4
<1>3. start \in 0 .. W - 1 /\ Moves!Word = 0 .. W - 1
  BY <1>1 DEF MoveBytes
<1>4. \A i : Moves!At(start, list, i) = (start + 4 * Before(list, i)) % W
  BY <1>1, MovesCardinality, Zenon DEF Moves!At, Moves!Modulo, Before, MoveBytes
<1>5. \A i \in list : Before(list, i) \in 0 .. 15
  BY ListNumbers
<1>6. \A i \in list : Moves!At(start, list, i) \in Moves!Word
  <2>. SUFFICES ASSUME NEW i \in list PROVE Moves!At(start, list, i) \in Moves!Word
    OBVIOUS
  <2>1. PICK x \in Int : x = start + 4 * Before(list, i)
    BY <1>3, <1>5
  <2>2. x % W \in 0 .. W - 1
    BY Division
  <2>. QED
    BY ONLY <1>3, <1>4, <2>1, <2>2, Zenon
<1>7. ASSUME NEW i \in list, NEW j \in list, i < j
      PROVE  Moves!At(start, list, i) # Moves!At(start, list, j)
  <2>1. Before(list, i) < Before(list, j)
    BY <1>7, ListNumbers
  <2>2. PICK x \in Nat, y \in Nat : /\ x = start + 4 * Before(list, i) /\ y = start + 4 * Before(list, j)
                                    /\ x < y /\ y - x <= 60
    <3>1. PICK b \in 0 .. 15, c \in 0 .. 15 : b = Before(list, i) /\ c = Before(list, j)
      BY <1>5
    <3>2. b < c
      BY ONLY <2>1, <3>1, Zenon
    <3>3. /\ start + 4 * b \in Nat /\ start + 4 * c \in Nat /\ start + 4 * b < start + 4 * c
          /\ (start + 4 * c) - (start + 4 * b) <= 60
      BY ONLY <1>3, <3>2, b \in 0 .. 15, c \in 0 .. 15
    <3>. QED
      BY ONLY <3>1, <3>3, Zenon
  <2>3. PICK k \in Int, r \in 0 .. W - 1 : r = x % W /\ x = k * W + r
    BY Division, x \in Int, Zenon
  <2>4. PICK l \in Int, s \in 0 .. W - 1 : s = y % W /\ y = l * W + s
    BY Division, y \in Int, Zenon
  <2>5. r # s
    <3>. SUFFICES ASSUME r = s PROVE FALSE
      OBVIOUS
    <3>1. PICK m \in Int : m = l - k
      OBVIOUS
    <3>2. y - x = m * W
      <4>1. (l - k) * W = l * W - k * W
        BY ONLY k \in Int, l \in Int, W \in Nat \ {0}
      <4>2. PICK f \in Int, g \in Int : f = k * W /\ g = l * W
        BY ONLY k \in Int, l \in Int, W \in Nat \ {0}
      <4>3. y - x = g - f
        <5>1. x = f + r /\ y = g + r
          BY ONLY <2>3, <2>4, <4>2, r = s, Zenon
        <5>2. r \in Int
          BY r \in 0 .. W - 1
        <5>. QED
          BY ONLY <5>1, <5>2, f \in Int, g \in Int
      <4>. QED
        BY ONLY <3>1, <4>1, <4>2, <4>3, Zenon
    <3>3. m <= 0 => m * W <= 0
      BY ONLY m \in Int, W \in Nat \ {0}
    <3>4. m >= 1 => m * W >= W
      BY ONLY m \in Int, W \in Nat \ {0}
    <3>. QED
      BY ONLY <1>2, <2>2, <3>2, <3>3, <3>4, m \in Int, x \in Nat, y \in Nat, W \in Nat \ {0}
  <2>. QED
    BY ONLY <1>4, <2>2, <2>3, <2>4, <2>5, Zenon
<1>8. \A i, j \in list : i # j => i < j \/ j < i
  BY ListNumbers
<1>. QED
  BY <1>6, <1>7, <1>8

\* Sums of words.
LEMMA ModuloAdds ==
  ASSUME Moves!TransfersAssumption
  PROVE  /\ \A x, y \in Int : Moves!Modulo(Moves!Modulo(x) + y) = Moves!Modulo(x + y)
         /\ \A x \in Moves!Word : Moves!Modulo(x) = x
<1>1. PICK B \in Nat \ {0}, C \in Nat \ {0}, D \in Nat \ {0}, W \in Nat \ {0} : B >= 4 /\ MoveBytes(B, C, D, W)
  BY MoveBytesAre
<1>2. Moves!WordSize = W /\ Moves!Word = 0 .. W - 1
  BY <1>1 DEF MoveBytes
<1>3. ASSUME NEW x \in Int, NEW y \in Int
      PROVE  Moves!Modulo(Moves!Modulo(x) + y) = Moves!Modulo(x + y)
  <2>1. PICK q \in Int, r \in 0 .. W - 1 : r = x % W /\ x = q * W + r
    BY Division, Zenon
  <2>2. PICK k \in Int : k = r + y
    OBVIOUS
  <2>3. (k + q * W) % W = k % W
    BY Multiples, Zenon
  <2>4. k + q * W = x + y
    BY <2>1, <2>2
  <2>5. Moves!Modulo(x) + y = k
    BY ONLY <1>2, <2>1, <2>2, Zenon DEF Moves!Modulo
  <2>. QED
    BY ONLY <1>2, <2>3, <2>4, <2>5, Zenon DEF Moves!Modulo
<1>4. ASSUME NEW x \in Moves!Word
      PROVE  Moves!Modulo(x) = x
  <2>1. x \in 0 .. W - 1 /\ x \in Int /\ x = 0 * W + x
    BY <1>2
  <2>2. x % W = x
    BY <2>1, Quotient
  <2>. QED
    BY ONLY <1>2, <2>2, Zenon DEF Moves!Modulo
<1>. QED
  BY <1>3, <1>4

\* The first and the last address of a block are Start and End; a block in the other
\* direction, after the base was moved, starts where this one does.
BlockAddresses(base, inc, after, bytes) ==
  /\ Moves!StartAddress(base, inc, after, bytes) \in Moves!Word
  /\ Moves!Beyond(base, inc, bytes) \in Moves!Word
  /\ Moves!EndAddress(base, inc, after, bytes) =
       Moves!Modulo(Moves!StartAddress(base, inc, after, bytes) + bytes - 4)
  /\ Moves!StartAddress(Moves!Beyond(base, inc, bytes), ~inc, ~after, bytes) =
       Moves!StartAddress(base, inc, after, bytes)
  /\ Moves!Beyond(Moves!Beyond(base, inc, bytes), ~inc, bytes) = base

\* They are so for the four addressing modes.
LEMMA BlockAddressesAre ==
  ASSUME Moves!TransfersAssumption, NEW base \in Moves!Word, NEW inc \in BOOLEAN, NEW after \in BOOLEAN,
         NEW bytes \in Nat
  PROVE  BlockAddresses(base, inc, after, bytes)
<1>1. base \in Int
  BY WordsOfMoves
<1>2. \A x, y \in Int : Moves!Modulo(Moves!Modulo(x) + y) = Moves!Modulo(x + y)
  BY ModuloAdds
<1>3. Moves!Modulo(base) = base
  BY ModuloAdds
<1>4. \A x \in Int : Moves!Modulo(x) \in Moves!Word /\ Moves!Modulo(x) \in Int
  BY WordsOfMoves
<1>6. PICK b \in Int : b = -bytes
  OBVIOUS
<1>7. ASSUME NEW x \in Int
      PROVE  /\ Moves!Modulo(x) + bytes - 4 = Moves!Modulo(x) + (bytes - 4)
             /\ Moves!Modulo(x) - bytes = Moves!Modulo(x) + b
             /\ Moves!Modulo(x) - bytes + 4 = Moves!Modulo(x) + (b + 4)
  <2>1. Moves!Modulo(x) \in Int
    BY <1>4
  <2>. QED
    BY ONLY <1>6, <2>1, bytes \in Nat
<1>8. /\ base + bytes \in Int /\ base - bytes \in Int /\ base + 4 \in Int /\ base - bytes + 4 \in Int
      /\ bytes - 4 \in Int /\ bytes \in Int /\ b + 4 \in Int
      /\ base + bytes = (base + 4) + (bytes - 4) /\ base = (base - bytes + 4) + (bytes - 4)
      /\ base - 4 = (base - bytes) + (bytes - 4) /\ base - 4 \in Int
      /\ base = (base + bytes) + b /\ base + 4 = (base + bytes) + (b + 4)
      /\ base - bytes + 4 = (base - bytes) + 4 /\ base = (base - bytes) + bytes /\ 4 \in Int
      /\ base + bytes - 4 \in Int
  BY ONLY <1>1, <1>6, bytes \in Nat, b \in Int
<1>9. /\ Moves!Modulo(Moves!Modulo(base + 4) + bytes - 4) = Moves!Modulo(base + bytes)
      /\ Moves!Modulo(Moves!Modulo(base - bytes + 4) + bytes - 4) = base
      /\ Moves!Modulo(Moves!Modulo(base - bytes) + bytes - 4) = Moves!Modulo(base - 4)
      /\ Moves!Modulo(Moves!Modulo(base + bytes) - bytes) = base
      /\ Moves!Modulo(Moves!Modulo(base + bytes) - bytes + 4) = Moves!Modulo(base + 4)
      /\ Moves!Modulo(Moves!Modulo(base - bytes) + 4) = Moves!Modulo(base - bytes + 4)
      /\ Moves!Modulo(Moves!Modulo(base - bytes) + bytes) = base
  <2>1. Moves!Modulo(Moves!Modulo(base + 4) + bytes - 4) = Moves!Modulo(base + bytes)
    <3>1. Moves!Modulo(Moves!Modulo(base + 4) + (bytes - 4)) = Moves!Modulo(base + bytes)
      <4>1. Moves!Modulo(Moves!Modulo(base + 4) + (bytes - 4)) = Moves!Modulo((base + 4) + (bytes - 4))
        BY ONLY <1>1, <1>2, <1>8, b \in Int, Zenon
      <4>2. (base + 4) + (bytes - 4) = base + bytes
        BY ONLY <1>1, <1>6, <1>8
      <4>. QED
        BY ONLY <4>1, <4>2, Zenon
    <3>2. Moves!Modulo(base + 4) + bytes - 4 = Moves!Modulo(base + 4) + (bytes - 4)
      BY ONLY <1>7, <1>8, Zenon
    <3>. QED
      BY ONLY <1>3, <3>1, <3>2, Zenon
  <2>2. Moves!Modulo(Moves!Modulo(base - bytes + 4) + bytes - 4) = base
    <3>1. Moves!Modulo(Moves!Modulo(base - bytes + 4) + (bytes - 4)) = Moves!Modulo(base)
      <4>1. Moves!Modulo(Moves!Modulo(base - bytes + 4) + (bytes - 4)) = Moves!Modulo((base - bytes + 4) + (bytes - 4))
        BY ONLY <1>1, <1>2, <1>8, b \in Int, Zenon
      <4>2. (base - bytes + 4) + (bytes - 4) = base
        BY ONLY <1>1, <1>6, <1>8
      <4>. QED
        BY ONLY <4>1, <4>2, Zenon
    <3>2. Moves!Modulo(base - bytes + 4) + bytes - 4 = Moves!Modulo(base - bytes + 4) + (bytes - 4)
      BY ONLY <1>7, <1>8, Zenon
    <3>. QED
      BY ONLY <1>3, <3>1, <3>2, Zenon
  <2>3. Moves!Modulo(Moves!Modulo(base - bytes) + bytes - 4) = Moves!Modulo(base - 4)
    <3>1. Moves!Modulo(Moves!Modulo(base - bytes) + (bytes - 4)) = Moves!Modulo(base - 4)
      <4>1. Moves!Modulo(Moves!Modulo(base - bytes) + (bytes - 4)) = Moves!Modulo((base - bytes) + (bytes - 4))
        BY ONLY <1>1, <1>2, <1>8, b \in Int, Zenon
      <4>2. (base - bytes) + (bytes - 4) = base - 4
        BY ONLY <1>1, <1>6, <1>8
      <4>. QED
        BY ONLY <4>1, <4>2, Zenon
    <3>2. Moves!Modulo(base - bytes) + bytes - 4 = Moves!Modulo(base - bytes) + (bytes - 4)
      BY ONLY <1>7, <1>8, Zenon
    <3>. QED
      BY ONLY <1>3, <3>1, <3>2, Zenon
  <2>4. Moves!Modulo(Moves!Modulo(base + bytes) - bytes) = base
    <3>1. Moves!Modulo(Moves!Modulo(base + bytes) + b) = Moves!Modulo(base)
      <4>1. Moves!Modulo(Moves!Modulo(base + bytes) + b) = Moves!Modulo((base + bytes) + b)
        BY ONLY <1>1, <1>2, <1>8, b \in Int, Zenon
      <4>2. (base + bytes) + b = base
        BY ONLY <1>1, <1>6, <1>8
      <4>. QED
        BY ONLY <4>1, <4>2, Zenon
    <3>2. Moves!Modulo(base + bytes) - bytes = Moves!Modulo(base + bytes) + b
      BY ONLY <1>7, <1>8, Zenon
    <3>. QED
      BY ONLY <1>3, <3>1, <3>2, Zenon
  <2>5. Moves!Modulo(Moves!Modulo(base + bytes) - bytes + 4) = Moves!Modulo(base + 4)
    <3>1. Moves!Modulo(Moves!Modulo(base + bytes) + (b + 4)) = Moves!Modulo(base + 4)
      <4>1. Moves!Modulo(Moves!Modulo(base + bytes) + (b + 4)) = Moves!Modulo((base + bytes) + (b + 4))
        BY ONLY <1>1, <1>2, <1>8, b \in Int, Zenon
      <4>2. (base + bytes) + (b + 4) = base + 4
        BY ONLY <1>1, <1>6, <1>8
      <4>. QED
        BY ONLY <4>1, <4>2, Zenon
    <3>2. Moves!Modulo(base + bytes) - bytes + 4 = Moves!Modulo(base + bytes) + (b + 4)
      BY ONLY <1>7, <1>8, Zenon
    <3>. QED
      BY ONLY <1>3, <3>1, <3>2, Zenon
  <2>6. Moves!Modulo(Moves!Modulo(base - bytes) + 4) = Moves!Modulo(base - bytes + 4)
    <3>1. Moves!Modulo(Moves!Modulo(base - bytes) + 4) = Moves!Modulo(base - bytes + 4)
      <4>1. Moves!Modulo(Moves!Modulo(base - bytes) + 4) = Moves!Modulo((base - bytes) + 4)
        BY ONLY <1>1, <1>2, <1>8, b \in Int, Zenon
      <4>2. (base - bytes) + 4 = base - bytes + 4
        BY ONLY <1>1, <1>6, <1>8
      <4>. QED
        BY ONLY <4>1, <4>2, Zenon
    <3>2. Moves!Modulo(base - bytes) + 4 = Moves!Modulo(base - bytes) + 4
      BY ONLY <1>7, <1>8, Zenon
    <3>. QED
      BY ONLY <1>3, <3>1, <3>2, Zenon
  <2>7. Moves!Modulo(Moves!Modulo(base - bytes) + bytes) = base
    <3>1. Moves!Modulo(Moves!Modulo(base - bytes) + bytes) = Moves!Modulo(base)
      <4>1. Moves!Modulo(Moves!Modulo(base - bytes) + bytes) = Moves!Modulo((base - bytes) + bytes)
        BY ONLY <1>1, <1>2, <1>8, b \in Int, Zenon
      <4>2. (base - bytes) + bytes = base
        BY ONLY <1>1, <1>6, <1>8
      <4>. QED
        BY ONLY <4>1, <4>2, Zenon
    <3>2. Moves!Modulo(base - bytes) + bytes = Moves!Modulo(base - bytes) + bytes
      BY ONLY <1>7, <1>8, Zenon
    <3>. QED
      BY ONLY <1>3, <3>1, <3>2, Zenon
  <2>. QED
    BY ONLY <2>1, <2>2, <2>3, <2>4, <2>5, <2>6, <2>7, Zenon
<1>10. CASE inc = TRUE
  <2>1. CASE after = TRUE
    BY <1>3, <1>4, <1>8, <1>9, <1>10, <2>1
       DEF BlockAddresses, Moves!StartAddress, Moves!EndAddress, Moves!Beyond
  <2>2. CASE after = FALSE
    BY <1>3, <1>4, <1>8, <1>9, <1>10, <2>2
       DEF BlockAddresses, Moves!StartAddress, Moves!EndAddress, Moves!Beyond
  <2>. QED
    BY <2>1, <2>2
<1>11. CASE inc = FALSE
  <2>1. CASE after = TRUE
    BY <1>3, <1>4, <1>8, <1>9, <1>11, <2>1
       DEF BlockAddresses, Moves!StartAddress, Moves!EndAddress, Moves!Beyond
  <2>2. CASE after = FALSE
    BY <1>3, <1>4, <1>8, <1>9, <1>11, <2>2
       DEF BlockAddresses, Moves!StartAddress, Moves!EndAddress, Moves!Beyond
  <2>. QED
    BY <2>1, <2>2
<1>. QED
  BY <1>10, <1>11

\* The registers of the list that own a byte of memory in a block store.
Owners(start, list, x) ==
  {i \in list : Moves!Accessible(Moves!At(start, list, i), 4) /\ x - Moves!At(start, list, i) \in 0 .. 3}

\* The byte that a block store writes at the address x for the register i.
ByteFor(regs, start, list, x, i) == ByteOf(regs[i], x - Moves!At(start, list, i))

\* The byte at the address x after a block store.
SavedByte(regs, start, list, x) ==
  IF Owners(start, list, x) = {} THEN mem[x]
  ELSE ByteFor(regs, start, list, x, CHOOSE i \in Owners(start, list, x) : TRUE)

\* The words of a list are in memory where they can be.
SavedWords(regs, start, list) ==
  \A i \in list : Moves!Accessible(Moves!At(start, list, i), 4) =>
                   Moves!ReadFrom(Moves!At(start, list, i), 4)' = regs[i]

\* What a block store leaves in memory.
LEMMA SavedIs ==
  ASSUME Moves!TransfersAssumption, MovesTypes, NEW list \in Lists, NEW start \in Moves!Word,
         NEW regs \in [Registers -> Moves!Word], mem' = Moves!Saved(regs, start, list)
  PROVE  /\ mem' \in [0 .. MemorySize - 1 -> 0 .. Moves!ByteSize - 1]
         /\ SavedWords(regs, start, list)
<1>1. PICK B \in Nat \ {0}, C \in Nat \ {0}, D \in Nat \ {0}, W \in Nat \ {0} : B >= 4 /\ MoveBytes(B, C, D, W)
  BY MoveBytesAre
<1>2. Moves!ByteSize = B /\ Moves!Bytes[4] = W /\ Moves!Word = 0 .. W - 1
  BY <1>1 DEF MoveBytes
<1>3. mem \in [0 .. MemorySize - 1 -> 0 .. B - 1] /\ DOMAIN mem = 0 .. MemorySize - 1
  BY <1>2 DEF MovesTypes
<1>4. /\ \A i \in list : i \in Registers /\ regs[i] \in Moves!Word /\ regs[i] \in Int
  BY <1>2, ListNumbers
<1>5. \A i \in list, k \in 0 .. 3 : ByteOf(regs[i], k) \in 0 .. B - 1
  BY <1>1, <1>4, BytesMake
<1>6. /\ \A i \in list : Moves!At(start, list, i) \in Moves!Word
      /\ \A i, j \in list : i # j => Moves!At(start, list, i) # Moves!At(start, list, j)
  BY AtIs
<1>7. mem' = [x \in 0 .. MemorySize - 1 |-> SavedByte(regs, start, list, x)]
  <2>1. Moves!Lanes(4) = 0 .. 3
    BY DEF Moves!Lanes
  <2>. QED
    BY <1>3, <2>1 DEF Moves!Saved, Owners, ByteOf, ByteFor, SavedByte
<1>8. mem' \in [0 .. MemorySize - 1 -> 0 .. B - 1]
  <2>1. ASSUME NEW x \in 0 .. MemorySize - 1
        PROVE  SavedByte(regs, start, list, x) \in 0 .. B - 1
    <3>1. CASE Owners(start, list, x) = {}
      BY <1>3, <3>1, Zenon DEF SavedByte
    <3>2. CASE Owners(start, list, x) # {}
      <4>1. PICK i \in Owners(start, list, x) : i = CHOOSE j \in Owners(start, list, x) : TRUE
        BY <3>2, Zenon
      <4>2. i \in list /\ x - Moves!At(start, list, i) \in 0 .. 3
        BY Zenon DEF Owners
      <4>3. SavedByte(regs, start, list, x) = ByteFor(regs, start, list, x, i)
        BY <3>2, <4>1, Zenon DEF SavedByte
      <4>. QED
        BY <1>5, <4>2, <4>3, Zenon DEF ByteFor
    <3>. QED
      BY <3>1, <3>2
  <2>. QED
    BY ONLY <1>7, <2>1, Zenon
<1>9. ASSUME NEW i \in list, Moves!Accessible(Moves!At(start, list, i), 4)
      PROVE  Moves!ReadFrom(Moves!At(start, list, i), 4)' = regs[i]
  <2>1. PICK a \in Nat : a = Moves!At(start, list, i)
    BY <1>2, <1>6
  <2>2. Moves!Accessible(a, 4) /\ a % 4 = 0
    BY <1>9, <2>1 DEF Moves!Accessible
  <2>3. \A k \in 0 .. 3 : a + k \in 0 .. MemorySize - 1
    BY <2>2, Inside
  <2>4. ASSUME NEW k \in 0 .. 3
        PROVE  Owners(start, list, a + k) = {i}
    <3>1. (a + k) - a \in 0 .. 3
      OBVIOUS
    <3>2. i \in Owners(start, list, a + k)
      BY <1>9, <2>1, <3>1, Zenon DEF Owners
    <3>3. ASSUME NEW j \in Owners(start, list, a + k)
          PROVE  j = i
      <4>1. j \in list /\ Moves!Accessible(Moves!At(start, list, j), 4) /\ (a + k) - Moves!At(start, list, j) \in 0 .. 3
        BY Zenon DEF Owners
      <4>2. PICK c \in Nat : c = Moves!At(start, list, j)
        BY <1>2, <1>6, <4>1
      <4>3. c % 4 = 0 /\ (a + k) - c \in 0 .. 3
        BY <4>1, <4>2 DEF Moves!Accessible
      <4>4. c = a
        BY ONLY <2>2, <4>3, a \in Nat, c \in Nat, k \in 0 .. 3
      <4>. QED
        BY <1>6, <2>1, <4>1, <4>2, <4>4, Zenon
    <3>. QED
      BY <3>2, <3>3, Zenon
  <2>5. ASSUME NEW k \in 0 .. 3
        PROVE  mem'[a + k] = ByteOf(regs[i], k)
    <3>1. (CHOOSE j \in {i} : TRUE) = i /\ {i} # {}
      OBVIOUS
    <3>2. mem'[a + k] = SavedByte(regs, start, list, a + k)
      BY ONLY <1>7, <2>3, Zenon
    <3>3. SavedByte(regs, start, list, a + k) = ByteFor(regs, start, list, a + k, i)
      BY ONLY <2>4, <3>1, Zenon DEF SavedByte
    <3>4. (a + k) - Moves!At(start, list, i) = k
      BY <2>1
    <3>. QED
      BY ONLY <3>2, <3>3, <3>4, Zenon DEF ByteFor
  <2>6. PICK m : m = mem'
    OBVIOUS
  <2>7. PICK v \in Int : v = regs[i]
    BY <1>4
  <2>8. \A k \in 0 .. 4 - 1 : m[a + k] = ByteOf(v, k)
    <3>1. \A k \in 0 .. 4 - 1 : k \in 0 .. 3
      OBVIOUS
    <3>. QED
      BY ONLY <2>5, <2>6, <2>7, <3>1, Zenon
  <2>9. Gather(m, a, 4) = v % Moves!Bytes[4]
    BY <1>1, <2>8, WrittenIsRead, 4 \in {1, 2, 4}
  <2>10. v % W = v
    <3>1. v \in 0 .. W - 1 /\ v = 0 * W + v
      BY <1>2, <1>4, <2>7
    <3>. QED
      BY <3>1, Quotient
  <2>. QED
    BY ONLY <1>2, <2>1, <2>6, <2>7, <2>9, <2>10, ReadFromIs, Zenon
<1>. QED
  BY <1>2, <1>8, <1>9 DEF SavedWords

\* The registers of a list are read and no other is written.
LoadedWords(r, regs, start, list) ==
  /\ \A i \in Registers \ list : r[i] = regs[i]
  /\ \A i \in list : r[i] \in Moves!Read(Moves!At(start, list, i), 4)

\* What a block load leaves in the registers.
LEMMA LoadedIs ==
  ASSUME Moves!TransfersAssumption, MovesTypes, NEW list \in Lists, NEW start \in Moves!Word,
         NEW regs \in [Registers -> Moves!Word], NEW r \in Moves!Loaded(regs, start, list)
  PROVE  /\ r \in [Registers -> Moves!Word]
         /\ LoadedWords(r, regs, start, list)
<1>1. PICK words : /\ \A i \in list : words[i] \in Moves!Read(Moves!At(start, list, i), 4)
                   /\ r = [i \in Registers |-> IF i \in list THEN words[i] ELSE regs[i]]
  BY Zenon DEF Moves!Loaded
<1>2. list \subseteq Registers
  BY ListNumbers
<1>3. ASSUME NEW i \in list
      PROVE  words[i] \in Moves!Word
  <2>1. Moves!At(start, list, i) \in Nat
    BY AtIs, WordsOfMoves
  <2>2. words[i] \in 0 .. Moves!Bytes[4] - 1
    BY <1>1, <2>1, ReadGives, 4 \in {1, 2, 4}
  <2>3. PICK B \in Nat \ {0}, C \in Nat \ {0}, D \in Nat \ {0}, W \in Nat \ {0} : B >= 4 /\ MoveBytes(B, C, D, W)
    BY MoveBytesAre
  <2>. QED
    BY <2>2, <2>3 DEF MoveBytes
<1>4. r \in [Registers -> Moves!Word]
  BY <1>1, <1>3
<1>. QED
  BY <1>1, <1>2, <1>4 DEF LoadedWords

-----------------------------------------------------------------------------
\* The addresses and the base of a block transfer, and whether it moves registers.
BlockStart(inc, after, rn, list) == Moves!StartAddress(reg[rn], inc, after, Moves!ListBytes(list))

BlockEnd(inc, after, rn, list) == Moves!EndAddress(reg[rn], inc, after, Moves!ListBytes(list))

BlockNext(inc, rn, list) == Moves!Beyond(reg[rn], inc, Moves!ListBytes(list))

BlockBased(writeback, inc, rn, list, passed) ==
  IF passed /\ writeback THEN [reg EXCEPT ![rn] = BlockNext(inc, rn, list)] ELSE reg

BlockAnnounced(inc, after, rn, list) ==
  Moves!AllOnes \notin {BlockStart(inc, after, rn, list), BlockEnd(inc, after, rn, list)}

BlockMoves(s_bit, inc, after, rn, list, passed) ==
  BlockAnnounced(inc, after, rn, list) /\ ~s_bit /\ passed

BlockResult(s_bit, inc, after, rn, list, passed) ==
  IF /\ BlockAnnounced(inc, after, rn, list)
     /\ BlockMoves(s_bit, inc, after, rn, list, passed) =>
          BlockEnd(inc, after, rn, list) =
            Moves!Modulo(BlockStart(inc, after, rn, list) + Moves!ListBytes(list) - 4)
  THEN 0 ELSE -1

BlockWhole(start, list) == \A i \in list : Moves!Accessible(Moves!At(start, list, i), 4)

\* The parts of a block transfer.
BlockStep(load, s_bit, writeback, inc, after, rn, list, passed) ==
  /\ reg' \in IF load /\ BlockMoves(s_bit, inc, after, rn, list, passed)
             THEN Moves!Loaded(BlockBased(writeback, inc, rn, list, passed), BlockStart(inc, after, rn, list), list)
             ELSE {BlockBased(writeback, inc, rn, list, passed)}
  /\ mem' = IF ~load /\ BlockMoves(s_bit, inc, after, rn, list, passed)
            THEN Moves!Saved(BlockBased(writeback, inc, rn, list, passed), BlockStart(inc, after, rn, list), list)
            ELSE mem
  /\ stored' = IF load \/ ~BlockMoves(s_bit, inc, after, rn, list, passed) THEN stored ELSE Moves!None
  /\ pushed' = IF ~load /\ BlockMoves(s_bit, inc, after, rn, list, passed)
               THEN IF writeback /\ BlockWhole(BlockStart(inc, after, rn, list), list) /\ rn \notin list
                    THEN [kind |-> "block", inc |-> inc, after |-> after, rn |-> rn,
                          list |-> list, top |-> BlockNext(inc, rn, list), regs |-> reg]
                    ELSE Moves!None
               ELSE Moves!Kept
  /\ transfer' = IF BlockMoves(s_bit, inc, after, rn, list, passed)
                 THEN [kind |-> "block", announced |-> TRUE, moved |-> TRUE,
                       result |-> BlockResult(s_bit, inc, after, rn, list, passed),
                       load |-> load, inc |-> inc, after |-> after, rn |-> rn, list |-> list,
                       back |-> writeback]
                 ELSE [kind |-> "block", announced |-> BlockAnnounced(inc, after, rn, list), moved |-> FALSE,
                       result |-> BlockResult(s_bit, inc, after, rn, list, passed)]

\* A block transfer has these parts.
LEMMA BlockSteps ==
  ASSUME NEW load, NEW s_bit, NEW writeback, NEW inc, NEW after, NEW rn, NEW list, NEW passed,
         Moves!arm_load_store_multiple(load, s_bit, writeback, inc, after, rn, list, passed)
  PROVE  BlockStep(load, s_bit, writeback, inc, after, rn, list, passed)
BY Zenon DEF BlockStep, BlockWhole, BlockResult, BlockMoves, BlockAnnounced, BlockBased, BlockNext, BlockEnd,
   BlockStart, Moves!arm_load_store_multiple

\* A block transfer keeps the invariant.
LEMMA BlockKeeps ==
  ASSUME Moves!TransfersAssumption, MovesInv, NEW load \in BOOLEAN, NEW s_bit \in BOOLEAN,
         NEW writeback \in BOOLEAN, NEW inc \in BOOLEAN, NEW after \in BOOLEAN, NEW rn \in Registers,
         NEW list \in Lists, NEW passed \in BOOLEAN,
         Moves!arm_load_store_multiple(load, s_bit, writeback, inc, after, rn, list, passed)
  PROVE  MovesInv'
<1>1. BlockStep(load, s_bit, writeback, inc, after, rn, list, passed)
  BY BlockSteps, Zenon
<1>2. MovesTypes /\ reg[rn] \in Moves!Word
  BY DEF MovesInv, MovesTypes
<1>3. Moves!ListBytes(list) \in Nat
  BY ListNumbers
<1>4. BlockStart(inc, after, rn, list) \in Moves!Word /\ BlockNext(inc, rn, list) \in Moves!Word
  BY <1>2, <1>3, BlockAddressesAre, Zenon DEF BlockStart, BlockNext, BlockAddresses
<1>5. BlockBased(writeback, inc, rn, list, passed) \in [Registers -> Moves!Word]
  BY <1>2, <1>4 DEF BlockBased, MovesTypes
<1>6. transfer'.kind = "block"
  BY <1>1 DEF BlockStep
<1>7. Moves!StoredIsLoaded'
  BY <1>6 DEF Moves!StoredIsLoaded
<1>8. PICK based : based = BlockBased(writeback, inc, rn, list, passed)
  OBVIOUS
<1>9. PICK start \in Moves!Word : start = BlockStart(inc, after, rn, list)
  BY <1>4
<1>10. reg' \in [Registers -> Moves!Word]
  <2>1. reg' \in Moves!Loaded(based, start, list) \/ reg' = based
    BY <1>1, <1>8, <1>9, Zenon DEF BlockStep
  <2>2. CASE reg' \in Moves!Loaded(based, start, list)
    <3>1. PICK r : r = reg'
      OBVIOUS
    <3>2. r \in [Registers -> Moves!Word]
      BY <1>2, <1>5, <1>8, <2>2, <3>1, LoadedIs, Zenon
    <3>. QED
      BY <3>1, <3>2
  <2>. QED
    BY <1>5, <1>8, <2>1, <2>2
<1>11. CASE mem' = mem /\ stored' = stored
  <2>1. \A c, n : Moves!ReadFrom(c, n)' = Moves!ReadFrom(c, n)
    BY <1>11, ReadFromIs
  <2>2. StoredKept'
    BY <1>11, <2>1 DEF MovesInv, StoredKept, Moves!None, Moves!Accessible
  <2>. QED
    BY <1>2, <1>7, <1>10, <1>11, <2>2 DEF MovesInv, MovesTypes, Moves!Word, Moves!AllOnes, Moves!WordSize,
       Moves!ByteSize
<1>12. CASE mem' = Moves!Saved(based, start, list) /\ stored' = Moves!None
  <2>1. mem' \in [0 .. MemorySize - 1 -> 0 .. Moves!ByteSize - 1]
    BY <1>2, <1>5, <1>8, <1>12, SavedIs, Zenon
  <2>2. StoredKept'
    BY <1>12 DEF StoredKept, Moves!None
  <2>. QED
    BY <1>7, <1>10, <2>1, <2>2 DEF MovesInv, MovesTypes, Moves!Word, Moves!AllOnes, Moves!WordSize,
       Moves!ByteSize
<1>13. (mem' = mem /\ stored' = stored) \/ (mem' = Moves!Saved(based, start, list) /\ stored' = Moves!None)
  BY <1>1, <1>8, <1>9, Zenon DEF BlockStep
<1>. QED
  BY <1>11, <1>12, <1>13

\* The forms of a single transfer differ in where the offset comes from.
LEMMA SingleIs ==
  ASSUME Moves!TransfersAssumption, MovesInv, Moves!SingleTransfer
  PROVE  \E size, load, immediate, p, up, w, passed, signed, rn, rd, offset : SingleStep(size, load, immediate, p, up, w, passed, signed, rn, rd, offset)
<1>1. PICK size \in Sizes, load \in BOOLEAN, immediate \in BOOLEAN, p \in BOOLEAN, up \in BOOLEAN,
           w \in BOOLEAN, passed \in BOOLEAN, signed \in BOOLEAN, rn \in Named, rd \in Named :
        /\ signed => load /\ size = 1 /\ immediate
        /\ \/ /\ immediate
              /\ \E offset \in IndexOffsets :
                   Moves!arm_load_store(load, size, signed, immediate, p, up, w, rn, rd,
                                        Moves!Moved(reg[rn], up, offset), passed)
           \/ /\ ~immediate /\ size = 2
              /\ \E rm \in Named :
                   Moves!arm_load_store(load, size, signed, immediate, p, up, w, rn, rd,
                                        Moves!Moved(reg[rn], up, reg[rm]), passed)
           \/ /\ ~immediate /\ size # 2
              /\ \E rm \in Named, type \in Moves!Shifts, n \in IndexAmounts, c \in {0, 1} :
                   /\ c = 1 => type = "ROR" /\ n = 0
                   /\ Moves!arm_load_store(load, size, signed, immediate, p, up, w, rn, rd,
                                           Moves!Moved(reg[rn], up, Moves!shift(type, n, reg[rm], c)), passed)
  BY Zenon DEF Moves!SingleTransfer
<1>2. PICK offset \in Int :
             Moves!arm_load_store(load, size, signed, immediate, p, up, w, rn, rd,
                                  Moves!Moved(reg[rn], up, offset), passed)
  <2>1. \A x \in Moves!Word : x \in Int
    BY WordsOfMoves
  <2>2. \A x \in IndexOffsets : x \in Int
    BY <2>1 DEF Moves!TransfersAssumption
  <2>3. \A rm \in Named : reg[rm] \in Moves!Word
    BY DEF MovesInv, MovesTypes, Moves!TransfersAssumption
  <2>4. \A rm \in Named, type \in Moves!Shifts, n \in IndexAmounts, c \in {0, 1} :
          Moves!shift(type, n, reg[rm], c) \in Int
    BY <2>3, ShiftType
  <2>. QED
    BY <1>1, <2>1, <2>2, <2>3, <2>4, Zenon
<1>3. SingleStep(size, load, immediate, p, up, w, passed, signed, rn, rd, offset)
  BY <1>2, Zenon DEF SingleStep
<1>. QED
  BY <1>3, Zenon

\* Every step keeps the invariant.
LEMMA MovesKeep ==
  ASSUME Moves!TransfersAssumption, MovesInv, [Moves!Next]_(Moves!tvars)
  PROVE  MovesInv'
<1>1. CASE UNCHANGED Moves!tvars
  BY <1>1 DEF Moves!tvars, MovesInv, MovesTypes, StoredKept, Moves!StoredIsLoaded, Moves!None, Moves!ReadFrom,
     Moves!Accessible, Moves!Word, Moves!AllOnes, Moves!WordSize, Moves!ByteSize, Moves!Bytes, Moves!Lanes
<1>2. CASE Moves!SingleTransfer
  <2>1. PICK size, load, immediate, p, up, w, passed, signed, rn, rd, offset :
          SingleStep(size, load, immediate, p, up, w, passed, signed, rn, rd, offset)
    BY <1>2, SingleIs, Zenon
  <2>. QED
    BY <2>1, SingleKeeps, Zenon
<1>3. CASE Moves!BlockTransfer
  <2>1. PICK load \in BOOLEAN, s_bit \in BOOLEAN, writeback \in BOOLEAN, inc \in BOOLEAN, after \in BOOLEAN,
             passed \in BOOLEAN, rn \in Registers, list \in Lists :
          Moves!arm_load_store_multiple(load, s_bit, writeback, inc, after, rn, list, passed)
    BY <1>3, Zenon DEF Moves!BlockTransfer
  <2>. QED
    BY <2>1, BlockKeeps
<1>4. CASE Moves!Compute
  <2>1. PICK r \in Registers, value \in Garbage : reg' = [reg EXCEPT ![r] = value]
    BY <1>4 DEF Moves!Compute
  <2>2. value \in Moves!Word
    BY DEF Moves!TransfersAssumption
  <2>3. mem' = mem /\ stored' = stored /\ transfer' = Moves!None
    BY <1>4 DEF Moves!Compute
  <2>4. \A c, n : Moves!ReadFrom(c, n)' = Moves!ReadFrom(c, n)
    BY <2>3, ReadFromIs
  <2>5. StoredKept'
    BY <2>3, <2>4 DEF MovesInv, StoredKept, Moves!None, Moves!Accessible
  <2>6. Moves!StoredIsLoaded'
    BY <2>3 DEF Moves!StoredIsLoaded, Moves!None
  <2>. QED
    BY <2>1, <2>2, <2>3, <2>5, <2>6 DEF MovesInv, MovesTypes, Moves!Word, Moves!AllOnes, Moves!WordSize,
       Moves!ByteSize
<1>. QED
  BY <1>1, <1>2, <1>3, <1>4, Zenon DEF Moves!Next

\* The invariant holds at first.
LEMMA MovesStart ==
  ASSUME Moves!TransfersAssumption, Moves!Init
  PROVE  MovesInv
<1>1. PICK B \in Nat \ {0}, C \in Nat \ {0}, D \in Nat \ {0}, W \in Nat \ {0} : B >= 4 /\ MoveBytes(B, C, D, W)
  BY MoveBytesAre
<1>2. Moves!ByteSize \in Nat \ {0}
  BY <1>1 DEF MoveBytes
<1>3. MovesTypes
  BY <1>2 DEF Moves!Init, MovesTypes, Moves!TransfersAssumption
<1>4. StoredKept /\ Moves!StoredIsLoaded
  BY DEF Moves!Init, StoredKept, Moves!StoredIsLoaded
<1>. QED
  BY <1>3, <1>4 DEF MovesInv

\* For every width, memory and list of registers, a load brings back what was stored
\* at its address, whatever the addressing modes and wherever the registers of the
\* two coincide (arm_load_store and its addressing modes).
THEOREM LoadsBringBack == Moves!TransfersAssumption => (Moves!Spec => []StoredIsLoaded)
<1>. SUFFICES ASSUME Moves!TransfersAssumption PROVE Moves!Spec => []StoredIsLoaded
  OBVIOUS
<1>1. MovesInv /\ [Moves!Next]_(Moves!tvars) => MovesInv'
  BY MovesKeep
<1>2. Moves!Init => MovesInv
  BY MovesStart
<1>3. MovesInv => StoredIsLoaded
  BY DEF MovesInv, StoredIsLoaded
<1>. QED
  BY <1>1, <1>2, <1>3, PTL DEF Moves!Spec

-----------------------------------------------------------------------------
\* The address a push wrote its first word at.
PushStart(push) ==
  Moves!StartAddress(push.regs[push.rn], push.inc, push.after, Moves!ListBytes(push.list))

\* A push is one of the program.
PushFits(push) ==
  /\ push.rn \in Registers /\ push.list \in Lists /\ push.rn \notin push.list
  /\ push.inc \in BOOLEAN /\ push.after \in BOOLEAN
  /\ push.regs \in [Registers -> Moves!Word]
  /\ push.top = Moves!Beyond(push.regs[push.rn], push.inc, Moves!ListBytes(push.list))

\* Its base is where it left it, and the memory m holds what it pushed.
PushStands(push, r, m) ==
  /\ r[push.rn] = push.top
  /\ \A i \in push.list : /\ Moves!Accessible(Moves!At(PushStart(push), push.list, i), 4)
                          /\ Gather(m, Moves!At(PushStart(push), push.list, i), 4) = push.regs[i]

PushKept(push, r, m) == push # Moves!None => PushFits(push) /\ PushStands(push, r, m)

\* The inductive invariant of the stack.
PushInv == MovesInv /\ PushKept(pushed, reg, mem)

\* The invariant after a step is about the values after it.
LEMMA PushKeptPrime == PushKept(pushed, reg, mem)' = PushKept(pushed', reg', mem')
BY Zenon DEF PushKept, PushFits, PushStands, PushStart, Gather, Moves!None, Moves!Word, Moves!AllOnes,
   Moves!WordSize, Moves!Beyond, Moves!ListBytes, Moves!StartAddress, Moves!Modulo, Moves!At, Moves!Accessible,
   Moves!Cardinality

\* A push is kept while memory and its base are left alone.
LEMMA KeptKeeps ==
  ASSUME PushKept(pushed, reg, mem), mem' = mem, pushed' = Moves!Kept
  PROVE  PushKept(pushed', reg', mem')
<1>1. CASE pushed # Moves!None /\ reg'[pushed.rn] = pushed.top
  <2>1. pushed' = pushed
    BY <1>1, Zenon DEF Moves!Kept
  <2>2. PushStands(pushed, reg', mem)
    BY <1>1, Zenon DEF PushKept, PushStands
  <2>. QED
    BY <1>1, <2>1, <2>2, Zenon DEF PushKept
<1>2. CASE ~(pushed # Moves!None /\ reg'[pushed.rn] = pushed.top)
  <2>1. pushed' = Moves!None
    BY <1>2, Zenon DEF Moves!Kept
  <2>. QED
    BY <2>1, Zenon DEF PushKept
<1>. QED
  BY <1>1, <1>2

\* What a block store leaves for the block load that takes it back.
LEMMA PushMade ==
  ASSUME Moves!TransfersAssumption, MovesTypes, NEW list \in Lists, NEW rn \in Registers, rn \notin list,
         NEW inc \in BOOLEAN, NEW after \in BOOLEAN, NEW start, start = BlockStart(inc, after, rn, list),
         NEW based, based = [reg EXCEPT ![rn] = BlockNext(inc, rn, list)], reg' = based,
         mem' = Moves!Saved(based, start, list), BlockWhole(start, list),
         NEW push, push = [kind |-> "block", inc |-> inc, after |-> after, rn |-> rn, list |-> list,
                           top |-> BlockNext(inc, rn, list), regs |-> reg]
  PROVE  PushKept(push, reg', mem')
<1>1. reg[rn] \in Moves!Word /\ reg \in [Registers -> Moves!Word]
  BY DEF MovesTypes
<1>2. Moves!ListBytes(list) \in Nat /\ list \subseteq Registers
  BY ListNumbers
<1>3. start \in Moves!Word /\ BlockNext(inc, rn, list) \in Moves!Word
  BY <1>1, <1>2, BlockAddressesAre, Zenon DEF BlockStart, BlockNext, BlockAddresses
<1>4. based \in [Registers -> Moves!Word] /\ based[rn] = BlockNext(inc, rn, list)
      /\ \A i \in list : based[i] = reg[i]
  BY <1>1, <1>2, <1>3
<1>5. SavedWords(based, start, list)
  BY <1>3, <1>4, SavedIs, Zenon
<1>6. /\ push.inc = inc /\ push.after = after /\ push.rn = rn /\ push.list = list
      /\ push.top = BlockNext(inc, rn, list) /\ push.regs = reg
  OBVIOUS
<1>7. PushStart(push) = start
  BY <1>6, Zenon DEF PushStart, BlockStart
<1>8. PushFits(push)
  BY <1>1, <1>6, Zenon DEF PushFits, BlockNext
<1>9. \A i \in list : /\ Moves!Accessible(Moves!At(start, list, i), 4)
                      /\ Gather(mem', Moves!At(start, list, i), 4) = reg[i]
  BY <1>4, <1>5, ReadFromIs, Zenon DEF BlockWhole, SavedWords
<1>10. PushStands(push, reg', mem')
  BY <1>4, <1>6, <1>7, <1>9, Zenon DEF PushStands
<1>. QED
  BY <1>8, <1>10, Zenon DEF PushKept

\* What the property of the stack says of a step.
StackStep ==
  /\ transfer'.kind = "block" => (transfer'.result = 0 <=> transfer'.announced)
  /\ (/\ pushed # Moves!None /\ transfer'.kind = "block" /\ transfer'.moved /\ transfer'.load /\ transfer'.back
      /\ transfer'.rn = pushed.rn /\ transfer'.list = pushed.list
      /\ transfer'.inc # pushed.inc /\ transfer'.after # pushed.after)
     => \A i \in pushed.list \union {pushed.rn} : reg'[i] = pushed.regs[i]

\* A block load of the other direction, from the base of the push.
TakesPush(inc, after, start, based, r) ==
  /\ inc # pushed.inc /\ after # pushed.after
  /\ start = BlockStart(inc, after, pushed.rn, pushed.list)
  /\ based = [reg EXCEPT ![pushed.rn] = BlockNext(inc, pushed.rn, pushed.list)]
  /\ r \in Moves!Loaded(based, start, pushed.list)

PushRestored(r) == \A i \in pushed.list \union {pushed.rn} : r[i] = pushed.regs[i]

\* It takes back what stands.
LEMMA PushTaken ==
  ASSUME Moves!TransfersAssumption, PushInv, pushed # Moves!None, NEW inc \in BOOLEAN, NEW after \in BOOLEAN,
         NEW start, NEW based, NEW r, TakesPush(inc, after, start, based, r)
  PROVE  PushRestored(r)
<1>0. /\ inc # pushed.inc /\ after # pushed.after
      /\ start = BlockStart(inc, after, pushed.rn, pushed.list)
      /\ based = [reg EXCEPT ![pushed.rn] = BlockNext(inc, pushed.rn, pushed.list)]
      /\ r \in Moves!Loaded(based, start, pushed.list)
  BY Zenon DEF TakesPush
<1>. USE <1>0
<1>1. PushFits(pushed) /\ PushStands(pushed, reg, mem) /\ MovesTypes
  BY Zenon DEF PushInv, PushKept, MovesInv
<1>2. PICK rn \in Registers : rn = pushed.rn
  BY <1>1 DEF PushFits
<1>3. PICK list \in Lists : list = pushed.list
  BY <1>1 DEF PushFits
<1>4. PICK up \in BOOLEAN : up = pushed.inc
  BY <1>1 DEF PushFits
<1>5. PICK empty \in BOOLEAN : empty = pushed.after
  BY <1>1 DEF PushFits
<1>6. PICK base \in Moves!Word : base = pushed.regs[rn]
  BY <1>1, <1>2 DEF PushFits
<1>7. PICK bytes \in Nat : bytes = Moves!ListBytes(list)
  BY ListNumbers
<1>8. BlockAddresses(base, up, empty, bytes)
  BY BlockAddressesAre
<1>9. reg[rn] = Moves!Beyond(base, up, bytes) /\ reg[rn] \in Moves!Word /\ rn \notin list
  BY <1>1, <1>2, <1>3, <1>4, <1>6, <1>7, <1>8, Zenon DEF PushFits, PushStands, BlockAddresses
<1>10. Moves!StartAddress(reg[rn], inc, after, bytes) = Moves!StartAddress(base, up, empty, bytes)
       /\ Moves!Beyond(reg[rn], inc, bytes) = base
  <2>1. (inc <=> ~up) /\ (after <=> ~empty)
    BY <1>4, <1>5
  <2>2. inc = ~up /\ after = ~empty
    BY ONLY <2>1, inc \in BOOLEAN, after \in BOOLEAN, up \in BOOLEAN, empty \in BOOLEAN
  <2>. QED
    BY ONLY <1>8, <1>9, <2>2, Zenon DEF BlockAddresses
<1>11. start = PushStart(pushed) /\ start \in Moves!Word
  BY ONLY <1>2, <1>3, <1>4, <1>5, <1>6, <1>7, <1>8, <1>0, <1>10, Zenon
     DEF BlockStart, PushStart, BlockAddresses
<1>12. BlockNext(inc, pushed.rn, pushed.list) = base
  BY ONLY <1>2, <1>3, <1>7, <1>10, Zenon DEF BlockNext
<1>13. based \in [Registers -> Moves!Word] /\ based[rn] = base
  BY <1>1, <1>2, <1>12 DEF MovesTypes
<1>14. /\ \A i \in Registers \ list : r[i] = based[i]
       /\ \A i \in list : r[i] \in Moves!Read(Moves!At(start, list, i), 4)
  <2>1. r \in Moves!Loaded(based, start, list)
    BY <1>3
  <2>2. LoadedWords(r, based, start, list)
    BY <1>1, <1>11, <1>13, <2>1, LoadedIs, Zenon
  <2>. QED
    BY ONLY <2>2, Zenon DEF LoadedWords
<1>15. r[rn] = pushed.regs[rn]
  BY <1>6, <1>9, <1>13, <1>14
<1>16. ASSUME NEW i \in list
       PROVE  r[i] = pushed.regs[i]
  <2>1. PICK a \in Nat : a = Moves!At(start, list, i)
    BY <1>11, AtIs, WordsOfMoves
  <2>2. Moves!Accessible(a, 4) /\ Gather(mem, a, 4) = pushed.regs[i]
    BY <1>1, <1>3, <1>11, <2>1, Zenon DEF PushStands
  <2>3. PICK value \in Moves!Read(a, 4) : value = r[i]
    BY <1>14, <2>1
  <2>4. value = Moves!ReadFrom(a, 4)
    BY <1>1, <2>2, <2>3, ReadGives, 4 \in {1, 2, 4}
  <2>. QED
    BY ONLY <2>2, <2>3, <2>4, ReadFromIs, Zenon
<1>. QED
  BY ONLY <1>2, <1>3, <1>15, <1>16, Zenon DEF PushRestored

\* A block transfer keeps the stack.
LEMMA BlockStacks ==
  ASSUME Moves!TransfersAssumption, PushInv, NEW load \in BOOLEAN, NEW s_bit \in BOOLEAN,
         NEW writeback \in BOOLEAN, NEW inc \in BOOLEAN, NEW after \in BOOLEAN, NEW rn \in Registers,
         NEW list \in Lists, NEW passed \in BOOLEAN,
         Moves!arm_load_store_multiple(load, s_bit, writeback, inc, after, rn, list, passed)
  PROVE  PushKept(pushed', reg', mem') /\ StackStep
<1>1. BlockStep(load, s_bit, writeback, inc, after, rn, list, passed)
  BY BlockSteps, Zenon
<1>2. MovesTypes /\ reg[rn] \in Moves!Word
  BY DEF PushInv, MovesInv, MovesTypes
<1>3. PICK start : start = BlockStart(inc, after, rn, list)
  OBVIOUS
<1>4. PICK based : based = BlockBased(writeback, inc, rn, list, passed)
  OBVIOUS
<1>5. BlockMoves(s_bit, inc, after, rn, list, passed) => passed
  BY DEF BlockMoves
<1>6. PushKept(pushed', reg', mem')
  <2>1. CASE ~load /\ BlockMoves(s_bit, inc, after, rn, list, passed)
    <3>1. CASE writeback /\ BlockWhole(start, list) /\ rn \notin list
      <4>1. pushed' = [kind |-> "block", inc |-> inc, after |-> after, rn |-> rn, list |-> list,
                       top |-> BlockNext(inc, rn, list), regs |-> reg]
        BY <1>1, <1>3, <2>1, <3>1, Zenon DEF BlockStep
      <4>2. based = [reg EXCEPT ![rn] = BlockNext(inc, rn, list)]
        BY <1>4, <1>5, <2>1, <3>1, Zenon DEF BlockBased
      <4>3. reg' \in {based} /\ mem' = Moves!Saved(based, start, list)
        BY <1>1, <1>3, <1>4, <2>1, Zenon DEF BlockStep
      <4>4. reg' = based
        BY ONLY <4>3
      <4>. QED
        BY <1>2, <1>3, <3>1, <4>1, <4>2, <4>3, <4>4, PushMade, Zenon
    <3>2. CASE ~(writeback /\ BlockWhole(start, list) /\ rn \notin list)
      <4>1. pushed' = Moves!None
        BY <1>1, <1>3, <2>1, <3>2, Zenon DEF BlockStep
      <4>. QED
        BY ONLY <4>1, Zenon DEF PushKept
    <3>. QED
      BY <3>1, <3>2
  <2>2. CASE ~(~load /\ BlockMoves(s_bit, inc, after, rn, list, passed))
    <3>1. mem' = mem /\ pushed' = Moves!Kept
      BY <1>1, <2>2, Zenon DEF BlockStep
    <3>. QED
      BY <3>1, KeptKeeps, Zenon DEF PushInv
  <2>. QED
    BY <2>1, <2>2
<1>7. transfer'.kind = "block" => (transfer'.result = 0 <=> transfer'.announced)
  <2>1. BlockEnd(inc, after, rn, list) = Moves!Modulo(BlockStart(inc, after, rn, list) + Moves!ListBytes(list) - 4)
    <3>1. Moves!ListBytes(list) \in Nat
      BY ListNumbers
    <3>2. BlockAddresses(reg[rn], inc, after, Moves!ListBytes(list))
      BY <1>2, <3>1, BlockAddressesAre
    <3>. QED
      BY ONLY <3>2, Zenon DEF BlockStart, BlockEnd, BlockAddresses
  <2>2. BlockResult(s_bit, inc, after, rn, list, passed) = IF BlockAnnounced(inc, after, rn, list) THEN 0 ELSE -1
    BY <2>1, Zenon DEF BlockResult
  <2>3. BlockMoves(s_bit, inc, after, rn, list, passed) => BlockAnnounced(inc, after, rn, list)
    BY DEF BlockMoves
  <2>4. transfer'.result = BlockResult(s_bit, inc, after, rn, list, passed)
    BY <1>1 DEF BlockStep
  <2>5. transfer'.announced <=> BlockAnnounced(inc, after, rn, list)
    BY <1>1, <2>3 DEF BlockStep, BlockAnnounced
  <2>. QED
    BY ONLY <2>2, <2>4, <2>5
<1>8. ASSUME pushed # Moves!None, transfer'.moved, transfer'.load, transfer'.back,
             transfer'.rn = pushed.rn, transfer'.list = pushed.list,
             transfer'.inc # pushed.inc, transfer'.after # pushed.after
      PROVE  \A i \in pushed.list \union {pushed.rn} : reg'[i] = pushed.regs[i]
  <2>1. BlockMoves(s_bit, inc, after, rn, list, passed)
    BY <1>1, <1>8 DEF BlockStep
  <2>2. /\ load /\ writeback /\ rn = pushed.rn /\ list = pushed.list
        /\ inc # pushed.inc /\ after # pushed.after
    BY <1>1, <1>8, <2>1 DEF BlockStep
  <2>3. based = [reg EXCEPT ![rn] = BlockNext(inc, rn, list)]
    BY <1>4, <1>5, <2>1, <2>2, Zenon DEF BlockBased
  <2>4. reg' \in Moves!Loaded(based, start, list)
    BY <1>1, <1>3, <1>4, <2>1, <2>2, Zenon DEF BlockStep
  <2>5. PICK r \in Moves!Loaded(based, start, list) : r = reg'
    BY <2>4
  <2>6. PushRestored(r)
    <3>1. /\ start = BlockStart(inc, after, pushed.rn, pushed.list)
          /\ based = [reg EXCEPT ![pushed.rn] = BlockNext(inc, pushed.rn, pushed.list)]
          /\ r \in Moves!Loaded(based, start, pushed.list)
      BY <1>3, <2>2, <2>3, <2>5
    <3>. QED
      BY <1>8, <2>2, <3>1, PushTaken, Zenon DEF TakesPush
  <2>. QED
    BY ONLY <2>5, <2>6, Zenon DEF PushRestored
<1>. QED
  BY <1>6, <1>7, <1>8, Zenon DEF StackStep

\* Every step keeps the stack.
LEMMA StackSteps ==
  ASSUME Moves!TransfersAssumption, PushInv, Moves!Next
  PROVE  PushKept(pushed', reg', mem') /\ StackStep
<1>1. CASE Moves!SingleTransfer
  <2>1. PICK size, load, immediate, p, up, w, passed, signed, rn, rd, offset :
          SingleStep(size, load, immediate, p, up, w, passed, signed, rn, rd, offset)
    BY <1>1, SingleIs, Zenon DEF PushInv
  <2>2. transfer'.kind = "single"
    <3>1. \E l, n, a, v : transfer' = Moves!Single(l, n, a, v)
      BY <2>1, Zenon DEF SingleStep, Moves!arm_load_store
    <3>. QED
      BY <3>1 DEF Moves!Single
  <2>3. StackStep
    BY <2>2 DEF StackStep
  <2>4. CASE load
    <3>1. mem' = mem /\ pushed' = Moves!Kept
      BY <2>1, <2>4, Zenon DEF SingleStep, Moves!arm_load_store
    <3>. QED
      BY <2>3, <3>1, KeptKeeps, Zenon DEF PushInv
  <2>5. CASE ~load
    <3>1. pushed' = Moves!None
      BY <2>1, <2>5, Zenon DEF SingleStep, Moves!arm_load_store
    <3>. QED
      BY <2>3, <3>1, Zenon DEF PushKept
  <2>. QED
    BY <2>4, <2>5
<1>2. CASE Moves!BlockTransfer
  <2>1. PICK load \in BOOLEAN, s_bit \in BOOLEAN, writeback \in BOOLEAN, inc \in BOOLEAN, after \in BOOLEAN,
             passed \in BOOLEAN, rn \in Registers, list \in Lists :
          Moves!arm_load_store_multiple(load, s_bit, writeback, inc, after, rn, list, passed)
    BY <1>2, Zenon DEF Moves!BlockTransfer
  <2>. QED
    BY <2>1, BlockStacks
<1>3. CASE Moves!Compute
  <2>1. PICK r \in Registers, value \in Garbage : r # pushed.rn /\ reg' = [reg EXCEPT ![r] = value]
    BY <1>3 DEF Moves!Compute
  <2>2. mem' = mem /\ pushed' = pushed /\ transfer' = Moves!None /\ pushed # Moves!None
    BY <1>3 DEF Moves!Compute
  <2>3. PushFits(pushed) /\ PushStands(pushed, reg, mem) /\ MovesTypes
    BY <2>2, Zenon DEF PushInv, PushKept, MovesInv
  <2>4. reg'[pushed.rn] = reg[pushed.rn]
    BY <2>1, <2>3 DEF MovesTypes, PushFits
  <2>5. PushStands(pushed, reg', mem)
    BY <2>3, <2>4, Zenon DEF PushStands
  <2>6. StackStep
    BY <2>2 DEF StackStep, Moves!None
  <2>. QED
    BY <2>2, <2>3, <2>5, <2>6, Zenon DEF PushKept
<1>. QED
  BY <1>1, <1>2, <1>3, Zenon DEF Moves!Next

\* For every width, memory and list of registers, a block load takes back what the
\* block store of the other direction pushed and the base with it, and the addresses
\* announced for a block are those of its words (arm_load_store_multiple,
\* getAddressModeMulti).
THEOREM StacksRestore == Moves!TransfersAssumption => (Moves!Spec => StackRestores)
<1>. SUFFICES ASSUME Moves!TransfersAssumption PROVE Moves!Spec => StackRestores
  OBVIOUS
<1>1. PushInv /\ [Moves!Next]_(Moves!tvars) => PushInv'
  <2>. SUFFICES ASSUME PushInv, [Moves!Next]_(Moves!tvars) PROVE PushInv'
    OBVIOUS
  <2>1. MovesInv'
    BY MovesKeep DEF PushInv
  <2>2. PushKept(pushed', reg', mem')
    <3>1. CASE Moves!Next
      BY <3>1, StackSteps
    <3>2. CASE UNCHANGED Moves!tvars
      <4>1. pushed' = pushed /\ reg' = reg /\ mem' = mem
        BY <3>2 DEF Moves!tvars
      <4>. QED
        BY <4>1, Zenon DEF PushInv
    <3>. QED
      BY <3>1, <3>2
  <2>. QED
    BY <2>1, <2>2, PushKeptPrime, Zenon DEF PushInv
<1>2. Moves!Init => PushInv
  <2>1. Moves!Init => pushed = Moves!None
    BY DEF Moves!Init
  <2>. QED
    BY <2>1, MovesStart DEF PushInv, PushKept
<1>3. ASSUME PushInv, [Moves!Next]_(Moves!tvars)
      PROVE  [/\ transfer'.kind = "block" => (transfer'.result = 0 <=> transfer'.announced)
              /\ (/\ pushed # Moves!None /\ transfer'.kind = "block" /\ transfer'.moved /\ transfer'.load
                  /\ transfer'.back /\ transfer'.rn = pushed.rn /\ transfer'.list = pushed.list
                  /\ transfer'.inc # pushed.inc /\ transfer'.after # pushed.after)
                 => \A i \in pushed.list \union {pushed.rn} : reg'[i] = pushed.regs[i]]_(Moves!tvars)
  <2>1. Moves!Next => StackStep
    BY <1>3, StackSteps
  <2>. QED
    BY <1>3, <2>1, Zenon DEF StackStep
<1>. QED
  BY <1>1, <1>2, <1>3, PTL DEF Moves!Spec, StackRestores, Moves!StackRestores
=============================================================================
