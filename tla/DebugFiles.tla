---------------------------- MODULE DebugFiles ----------------------------
(* The source files whose debug messages are printed (debug.c, debug.h): a   *)
(* sorted table filled by the --debug options and searched by dichotomy at   *)
(* each debug statement, or at the first one of a file in a build with the   *)
(* cache.  Names are numbers ordered as strcmp orders the strings.           *)
EXTENDS Integers

CONSTANTS Names,    \* the names given or searched
          Limit,    \* MAX_FILES_NUMBER
          NULL      \* no name

ASSUME DebugAssumption == /\ Names \subseteq Int /\ NULL \notin Names
                          /\ Limit \in Nat \ {0}

VARIABLES debugged_files,     \* the table
          nb_debugged_files,
          overrun,            \* a name was written past its end
          given,              \* the names of all --debug options read so far
          phase,              \* main reads the options, then runs
          caching,            \* the build defines CACHE_DEBUG_FLAG
          is_debugged_result, \* of each file: "first" until it is known
          search,             \* __is_debugged in progress
          said                \* what the last debug statement did

table == <<debugged_files, nb_debugged_files, overrun>>
statement == <<is_debugged_result, search, said>>
dvars == <<table, given, phase, caching, statement>>

Idle == [name |-> NULL, from |-> 0, to |-> 0]
Quiet == [file |-> NULL, printed |-> FALSE]

Init == /\ debugged_files = [i \in 0..(Limit - 1) |-> NULL]
        /\ nb_debugged_files = 0
        /\ phase = "options"
        /\ caching \in BOOLEAN
        /\ is_debugged_result = [f \in Names |-> "first"]
        /\ search = Idle /\ said = Quiet
        /\ given = {} /\ overrun = FALSE

\* Where the loop that looks for the place of a name stops.
Stops(i, name) == i < nb_debugged_files /\ i < Limit => debugged_files[i] >= name

IsPlace(i, name) == Stops(i, name) /\ \A j \in 0..(i - 1) : ~Stops(j, name)

\* The table with the name at i and the names from i on one cell further.
Inserted(i, name) ==
  [j \in 0..(Limit - 1) |-> IF j < i \/ j > nb_debugged_files THEN debugged_files[j]
                            ELSE IF j = i THEN name ELSE debugged_files[j - 1]]

\* An option names a file.  The full table leaves out a name that comes after all
\* of its own and shifts the others past its end, over whatever the build put
\* there; from then on what the table holds is undefined.
add_debug_to(name) ==
  /\ phase = "options"
  /\ given' = given \union {name}
  /\ \/ overrun /\ UNCHANGED table
     \/ /\ ~overrun
        /\ \E i \in 0..nb_debugged_files :
             /\ IsPlace(i, name)
             /\ \/ i >= Limit /\ UNCHANGED table
                \/ /\ i < Limit /\ nb_debugged_files = Limit
                   /\ overrun' = TRUE
                   /\ UNCHANGED <<debugged_files, nb_debugged_files>>
                \/ /\ nb_debugged_files < Limit
                   /\ debugged_files' = Inserted(i, name)
                   /\ nb_debugged_files' = nb_debugged_files + 1
                   /\ UNCHANGED overrun
  /\ UNCHANGED <<phase, caching, statement>>

OptionsEnd == /\ phase = "options"
              /\ phase' = "running"
              /\ UNCHANGED <<table, given, caching, statement>>

Say(file, printed) == said' = [file |-> file, printed |-> printed]

\* Mutant: a statement may run while main reads the options.
MaySay_early == phase # "none"

\* The debug statements are those of gdb_protocol.c and scanner.l.
MaySay == phase = "running"

LastIndex == nb_debugged_files - 1

\* A debug statement of a file: a search, unless the result is cached.
debug(file) ==
  /\ MaySay /\ search = Idle /\ ~overrun
  /\ IF caching /\ is_debugged_result[file] # "first"
     THEN Say(file, is_debugged_result[file] = "yes") /\ UNCHANGED search
     ELSE /\ search' = [name |-> file, from |-> 0, to |-> LastIndex]
          /\ UNCHANGED said
  /\ UNCHANGED <<table, given, phase, caching, is_debugged_result>>

\* A debug statement after a write past the end finds anything.
UndefinedDebug(file) ==
  /\ MaySay /\ overrun
  /\ \E printed \in BOOLEAN : Say(file, printed)
  /\ UNCHANGED <<table, given, phase, caching, is_debugged_result, search>>

SearchReturns(found) ==
  /\ search' = Idle
  /\ Say(search.name, found)
  /\ is_debugged_result' = IF caching
                           THEN [is_debugged_result EXCEPT
                                   ![search.name] = IF found THEN "yes" ELSE "no"]
                           ELSE is_debugged_result

After(middle) == middle + 1

\* One turn of the loop of __is_debugged.
Bisect ==
  /\ search # Idle /\ search.from < search.to
  /\ LET middle == (search.from + search.to) \div 2
     IN \/ /\ debugged_files[middle] < search.name
           /\ search' = [search EXCEPT !.from = After(middle)]
           /\ UNCHANGED <<is_debugged_result, said>>
        \/ /\ debugged_files[middle] > search.name
           /\ search' = [search EXCEPT !.to = middle - 1]
           /\ UNCHANGED <<is_debugged_result, said>>
        \/ /\ debugged_files[middle] = search.name
           /\ SearchReturns(TRUE)
  /\ UNCHANGED <<table, given, phase, caching>>

LastCandidate == search.from = search.to /\ debugged_files[search.from] = search.name

SearchEnds == /\ search # Idle /\ search.from >= search.to
              /\ SearchReturns(LastCandidate)
              /\ UNCHANGED <<table, given, phase, caching>>

Next == \/ \E name \in Names : add_debug_to(name) \/ debug(name) \/ UndefinedDebug(name)
        \/ OptionsEnd \/ Bisect \/ SearchEnds

Spec == Init /\ [][Next]_dvars

-----------------------------------------------------------------------------
TypeOK == /\ debugged_files \in [0..(Limit - 1) -> Names \union {NULL}]
          /\ nb_debugged_files \in 0..Limit
          /\ overrun \in BOOLEAN
          /\ given \subseteq Names
          /\ phase \in {"options", "running"}
          /\ caching \in BOOLEAN
          /\ is_debugged_result \in [Names -> {"first", "yes", "no"}]
          /\ search \in [name : Names, from : 0..Limit, to : -1..LastIndex] \union {Idle}
          /\ said \in [file : Names, printed : BOOLEAN] \union {Quiet}

\* add_debug_to keeps the table in the order of strcmp, which the search needs,
\* whatever the order of the options and the repetitions among them.
Sorted == \A i, j \in 0..LastIndex : i < j => debugged_files[i] <= debugged_files[j]

\* The full table has no place for this name.
LeftOut(name) == /\ nb_debugged_files = Limit
                 /\ \A i \in 0..LastIndex : debugged_files[i] < name

\* add_debug_to keeps every name an option gave, but those that come after all
\* the names of the full table.
NothingLost == ~overrun => {debugged_files[i] : i \in 0..LastIndex} = {name \in given : ~LeftOut(name)}

\* Until a name is written past the table, a debug statement prints exactly when
\* an option named its file and the full table did not leave it out: the
\* dichotomy finds every name in the table, and what a file cached at its first
\* statement is never out of date.
PrintsSelected == said # Quiet /\ ~overrun =>
                    (said.printed <=> said.file \in given /\ ~LeftOut(said.file))

\* "The debug switch enable selective reporting of debug messages on a per source
\* file basis" (usage, arm_simulator.c): a debug statement prints exactly when an
\* option named its file, however many options there are.
ReportsNamedFiles == said # Quiet => (said.printed <=> said.file \in given)

=============================================================================
