------------------------------- MODULE Registry -------------------------------
(***************************************************************************)
(* The start of the container (start.sh): reset, one run of register for   *)
(* every backend directory, which ends in gen.c and profile01.c, and the   *)
(* link of lib_enc.so.  The programs of a start run one after the other    *)
(* and talk through the files they leave: header.h, db.yaml, LIB and the   *)
(* binary ./internalprofile.  The container can be stopped and restarted   *)
(* between any two steps, with the files as they are.                      *)
(*                                                                         *)
(* protos, lib and db say more than the files: which directory a number    *)
(* was given to, which one an object was built from, which one an entry    *)
(* was really measured on.                                                 *)
(***************************************************************************)
EXTENDS Integers, Sequences, FiniteSets

CONSTANTS
  Queue,        \* the directories start.sh registers, in order
  Slevel,       \* Security_level of each
  Function,     \* Function_name of each
  Symbols,      \* the other symbols its object defines
  Complete,     \* directories whose Makefile, sources and make command work
  Correct,      \* directories whose known-answer test compiles, for which the
                \* level needs a template, and passes
  Renamable,    \* directories whose renamed source compiles
  Likwid,       \* x86-64, where likwid measures, and not the board
  MaxRestarts   \* bound on the restarts of the container

Dirs == {Queue[i] : i \in 1..Len(Queue)}
None == "none"
Levels == 0..2
Name == Levels \X (Nat \ {0})

ASSUME RegistryAssumption ==
  /\ Queue \in Seq(Dirs) /\ Queue # <<>> /\ None \notin Dirs
  /\ \A i, j \in 1..Len(Queue) : i # j => Queue[i] # Queue[j]
  /\ Slevel \in [Dirs -> Levels]
  /\ DOMAIN Function = Dirs /\ DOMAIN Symbols = Dirs
  /\ Likwid \in BOOLEAN /\ MaxRestarts \in Nat

VARIABLES
  counter,   \* header.h: number of backends of each level
  protos,    \* header.h: the prototypes, each with the directory it stands for
  lib,       \* LIB: the objects, each with the directory it was built from
  so,        \* LIB/lib_enc.so: the objects in it, {} when it is not there
  db,        \* db.yaml: the entries, each with the directory measured, or None
  prof,      \* the object linked in ./internalprofile, NoObject: no such file
  app,       \* the name that gen gives to the backend in hand
  at,        \* position in Queue
  pc,        \* the step of the start
  restarts

header == <<counter, protos>>
vars == <<counter, protos, lib, so, db, prof, app, at, pc, restarts>>

Object(nm, d) == [name |-> nm, dir |-> d]
NoObject == Object(<<0, 0>>, None)
NamesOf(s) == {o.name : o \in s}

\* A new image: nothing was registered or compiled, the header comes with the
\* first reset.
Init ==
  /\ counter = [l \in Levels |-> 0] /\ protos = {}
  /\ lib = {} /\ so = {} /\ db = <<>>
  /\ prof = NoObject
  /\ app = <<0, 0>> /\ at = 1 /\ pc = "reset" /\ restarts = 0

------------------------------------------------------------------------------
\* Mutation of Reset: db.yaml is left to grow.
Reset_KeepsDb ==
  /\ pc = "reset" /\ pc' = "check"
  /\ counter' = [l \in Levels |-> 0] /\ protos' = {}
  /\ lib' = {} /\ so' = {}
  /\ at' = 1
  /\ UNCHANGED <<db, prof, app, restarts>>

\* header.h and db.yaml are written again, LIB is emptied.
Reset ==
  /\ pc = "reset" /\ pc' = "check"
  /\ counter' = [l \in Levels |-> 0] /\ protos' = {}
  /\ db' = <<>> /\ lib' = {} /\ so' = {}
  /\ at' = 1
  /\ UNCHANGED <<prof, app, restarts>>

dir == Queue[at]

\* Mutation of Return: one directory too many.
Return_OffByOne ==
  /\ at' = at + 1
  /\ pc' = IF at = Len(Queue) THEN "link" ELSE "check"

\* register returns, with a status start.sh does not look at: on to the next
\* directory.
Return ==
  /\ at' = IF at = Len(Queue) THEN at ELSE at + 1
  /\ pc' = IF at = Len(Queue) THEN "link" ELSE "check"

\* The configuration, the files it names, and the first make.
Check ==
  /\ pc = "check"
  /\ IF dir \in Complete THEN pc' = "test" /\ UNCHANGED at ELSE Return
  /\ UNCHANGED <<header, lib, so, db, prof, app, restarts>>

\* Mutation of Test: the result is not looked at.
Test_Ignored ==
  /\ pc = "test"
  /\ pc' = "collide" /\ UNCHANGED at
  /\ UNCHANGED <<header, lib, so, db, prof, app, restarts>>

\* The known-answer test is compiled and run; without a program to run the
\* shell's status is a failure too.
Test ==
  /\ pc = "test"
  /\ IF dir \in Correct THEN pc' = "collide" /\ UNCHANGED at ELSE Return
  /\ UNCHANGED <<header, lib, so, db, prof, app, restarts>>

\* Mutation of collide: only the function's name is looked for.
collide_FunctionOnly == \E o \in lib : Function[dir] \in Symbols[o.dir]

\* nm and grep: a symbol of the object is already in LIB.  The function of an
\* object in LIB is there under the name gen gave it, which no source uses.
collide ==
  \E o \in lib : ({Function[dir]} \cup Symbols[dir]) \cap Symbols[o.dir] # {}

\* rval is not initialised: with an empty LIB it is what the stack held.
Rval == IF lib = {} /\ so = {} THEN BOOLEAN ELSE {collide}

Collide ==
  /\ pc = "collide"
  /\ \E rval \in Rval : IF rval THEN Return ELSE pc' = "build" /\ UNCHANGED at
  /\ UNCHANGED <<header, lib, so, db, prof, app, restarts>>

\* gen takes the next number of the level, renames the function, compiles,
\* copies the object to LIB and links the profiler with it; no result of these
\* commands is looked at.  Without an object there is nothing to link: a gcc
\* that runs the linker all the same (11 and later) removes the binary of the
\* backend before, one that stops at the missing input leaves it.
Build ==
  /\ pc = "build" /\ pc' = "profile"
  /\ app' = <<Slevel[dir], counter[Slevel[dir]] + 1>>
  /\ IF dir \in Renamable
     THEN /\ lib' = {o \in lib : o.name # app'} \cup {Object(app', dir)}
          /\ prof' = Object(app', dir)
     ELSE UNCHANGED lib /\ prof' \in {prof, NoObject}
  /\ UNCHANGED <<header, so, db, at, restarts>>

\* What ./internalprofile loops on when it is asked for app: dlsym finds that
\* name in it or nothing.
Looped == IF prof.name = app THEN prof.dir ELSE None

\* profile runs ./internalprofile and appends the figures to db.yaml under the
\* name it was given.  On the board an internalprofile that finds no backend
\* reports no iteration and is refused; on x86-64 only the time and the energy
\* that likwid prints are looked at, whatever it ran.
ProfileOK ==
  /\ pc = "profile" /\ pc' = "commit"
  /\ Likwid \/ Looped # None
  /\ db' = Append(db, Object(app, Looped))
  /\ UNCHANGED <<header, lib, so, prof, app, at, restarts>>

\* No sensor or counter, a sampler that overflowed or missed part of the
\* window, no iteration or no figures, db.yaml that cannot be opened.
ProfileFails ==
  /\ pc = "profile" /\ pc' = "rollback"
  /\ UNCHANGED <<header, lib, so, db, prof, app, at, restarts>>

\* Mutation of Commit: the counter of the level is not incremented.
Commit_NoCount ==
  /\ pc = "commit"
  /\ protos' = protos \cup {Object(app, dir)}
  /\ Return
  /\ UNCHANGED <<counter, lib, so, db, prof, app, restarts>>

\* header1.h, with the counter of the level incremented and the prototype,
\* replaces header.h.
Commit ==
  /\ pc = "commit"
  /\ counter' = [counter EXCEPT ![Slevel[dir]] = @ + 1]
  /\ protos' = protos \cup {Object(app, dir)}
  /\ Return
  /\ UNCHANGED <<lib, so, db, prof, app, restarts>>

\* Mutation of Rollback: the measurement is tried again until it succeeds.
Rollback_Retries ==
  /\ pc = "rollback" /\ pc' = "build"
  /\ lib' = {o \in lib : o.name # app}
  /\ UNCHANGED <<header, so, db, prof, app, at, restarts>>

\* Mutation of Rollback: the object stays.
Rollback_KeepsObject ==
  /\ pc = "rollback"
  /\ Return
  /\ UNCHANGED <<header, lib, so, db, prof, app, restarts>>

\* The object of a backend that was not measured is removed.
Rollback ==
  /\ pc = "rollback"
  /\ lib' = {o \in lib : o.name # app}
  /\ Return
  /\ UNCHANGED <<header, so, db, prof, app, restarts>>

\* Two objects that define the same symbol do not link; without objects
\* there is no library.
Linkable(s) == \A o, p \in s : o # p => Symbols[o.dir] \cap Symbols[p.dir] = {}

\* gcc -shared, then the server is started whatever its result.
Link ==
  /\ pc = "link" /\ pc' = "serve"
  /\ so' = IF Linkable(lib) THEN lib ELSE {}
  /\ UNCHANGED <<header, lib, db, prof, app, at, restarts>>

\* The container stops at any moment and starts again with its files.
Restart ==
  /\ restarts < MaxRestarts /\ restarts' = restarts + 1
  /\ pc' = "reset"
  /\ UNCHANGED <<header, lib, so, db, prof, app, at>>

Step == Reset \/ Check \/ Test \/ Collide \/ Build \/ ProfileOK \/ ProfileFails
        \/ Commit \/ Rollback \/ Link

Next == Step \/ Restart

Spec == Init /\ [][Next]_vars

\* Each program of a start ends: what it waits for are compilers, and a
\* profile that limits its attempts.
LiveSpec == Spec /\ WF_vars(Step)

------------------------------------------------------------------------------
\* The files and the position in start.sh have their types: no step runs past
\* the last directory, and the library never holds what LIB does not.
TypeOK ==
  /\ counter \in [Levels -> Nat]
  /\ \A o \in protos \cup lib : o.name \in Name /\ o.dir \in Dirs
  /\ so \subseteq lib
  /\ \A i \in 1..Len(db) : db[i].name \in Name /\ db[i].dir \in Dirs \cup {None}
  /\ prof.dir \in Dirs \cup {None}
  /\ at \in 1..Len(Queue) /\ restarts \in 0..MaxRestarts

\* Between two registrations.
Settled == pc \in {"check", "link", "serve"}

\* The manifest and the measurements name the same backends, numbered from 1
\* on in each level, each measured once and in this order, and LIB has the
\* object of each under its number and nothing else, whatever failed and
\* wherever the last start was interrupted.  The one thing that can be missing
\* is an object that was never compiled: gen does not look at make, and the
\* profiler of an earlier backend can answer for a directory without one.
Consistent ==
  Settled =>
    /\ NamesOf(protos) = {nm \in Levels \X (1..Len(Queue)) : nm[2] <= counter[nm[1]]}
    /\ lib = {o \in protos : o.dir \in Renamable}
    /\ {db[i].name : i \in 1..Len(db)} = NamesOf(protos)
    /\ \A i \in 1..Len(db) :
         db[i].name[2] = Cardinality({k \in 1..i : db[k].name[1] = db[i].name[1]})

\* The figures in db.yaml under the name of an object in LIB were measured on
\* this object, on either platform: a profiler that was left behind never
\* speaks for a backend that was compiled.
Measured ==
  Settled => \A i \in 1..Len(db), o \in lib : o.name = db[i].name => db[i] = o

\* Only backends that pass their known-answer test are in the library.
OnlyCorrect == Settled => \A o \in lib : o.dir \in Correct

\* The objects that were accepted link: the server starts with all of them.
AllLinked == pc = "serve" => so = lib

\* A number once given stands for the same backend until the next reset.
NumberingKept ==
  [][Reset \/ \A o \in lib : o.name \in NamesOf(protos) => o \in lib']_vars

\* The name of directory d when every directory before it is registered.
TableName(d) ==
  LET before == {i \in 1..Len(Queue) : Slevel[Queue[i]] = Slevel[d] /\
                   \E j \in i..Len(Queue) : Queue[j] = d}
  IN  <<Slevel[d], Cardinality(before)>>

\* A backend that is not registered takes nothing else away: the others keep
\* the names they have when all are registered.
ContractKept == \A o \in lib : o.name = TableName(o.dir)

\* Every start reaches the server.
Serves == pc = "reset" ~> pc = "serve"
==============================================================================
