---------------------------- MODULE RegistryProofs ----------------------------
(***************************************************************************)
(* Proofs about Registry, for any directories, levels, symbols and         *)
(* failures, either platform, and any number of restarts.  What a start    *)
(* leaves is consistent because of an interrupted start only the profiler  *)
(* survives the reset, and because a registration changes the files in an  *)
(* order in which the new name is in none of them, in one, or in all.      *)
(***************************************************************************)
EXTENDS Registry, FiniteSetTheorems, TLAPS

------------------------------------------------------------------------------
\* The inductive invariant.

Obj == [name : Name, dir : Dirs]
Entry == [name : Name, dir : Dirs \cup {None}]

\* Types beyond TypeOK; they hold also between a restart and the reset.
TypeInv ==
  /\ TypeOK
  /\ pc \in {"reset", "check", "test", "collide", "build", "profile", "commit",
             "rollback", "link", "serve"}
  /\ protos \subseteq Obj /\ lib \subseteq Obj
  /\ db \in Seq(Entry) /\ prof \in Obj \cup {NoObject}

\* A start has begun and has reset the files.
Working == pc # "reset"

\* register is running on a directory.
Registering == pc \in {"check", "test", "collide", "build", "profile", "commit", "rollback"}

\* gen has taken a number that header.h does not have yet.
Pending == pc \in {"profile", "commit", "rollback"}

NextName == <<Slevel[dir], counter[Slevel[dir]] + 1>>

\* No level has more backends than directories were registered.
CountInv ==
  /\ \A l \in Levels : counter[l] <= at
  /\ Registering => \A l \in Levels : counter[l] < at

\* The names up to the counters.
UpTo(c) == {nm \in Name : nm[2] <= c[nm[1]]}

\* The names in header.h.
Given == NamesOf(protos)

ProtoInv == Given = UpTo(counter)

\* The backend in hand under its new name.
New == Object(NextName, dir)

Built(s) == {o \in s : o.dir \in Renamable}

\* LIB has the objects of the directories in header.h and of the one in hand
\* that compile; then it is the one in the profiler.
LibInv ==
  /\ ~ Pending => lib = Built(protos)
  /\ Pending => app = NextName /\ lib = Built(protos \cup {New})
  /\ Pending /\ dir \in Renamable => prof = New

\* The number of backends of a level that db.yaml has.
Measurements(l) ==
  IF pc = "commit" /\ l = Slevel[dir] THEN counter[l] + 1 ELSE counter[l]

OfLevel(s, n, l) == {k \in 1..n : s[k].name[1] = l}

\* db.yaml is numbered in order and has the names of header.h; at the commit
\* it is ahead by the new one.
DbInv ==
  /\ {db[i].name : i \in 1..Len(db)} = UpTo([l \in Levels |-> Measurements(l)])
  /\ \A i \in 1..Len(db) : db[i].name[2] = Cardinality(OfLevel(db, i, db[i].name[1]))
  /\ \A l \in Levels : Cardinality(OfLevel(db, Len(db), l)) = Measurements(l)
  /\ \A i \in 1..Len(db), o \in lib : o.name = db[i].name => db[i] = o

CorrectInv ==
  /\ \A o \in lib : o.dir \in Correct
  /\ pc \in {"collide", "build"} => dir \in Correct

\* The objects link, with the one that is compiled next.
LinkInv ==
  /\ Linkable(lib)
  /\ pc = "build" => \A o \in lib : Symbols[dir] \cap Symbols[o.dir] = {}

SoInv == so = IF pc = "serve" THEN lib ELSE {}

FilesInv == CountInv /\ ProtoInv /\ LibInv /\ DbInv /\ CorrectInv /\ LinkInv /\ SoInv

RegistryInv == TypeInv /\ (Working => FilesInv)

------------------------------------------------------------------------------
\* The directories of start.sh.
LEMMA QueueFacts ==
  /\ Len(Queue) \in Nat \ {0}
  /\ \A i \in 1..Len(Queue) : Queue[i] \in Dirs /\ Slevel[Queue[i]] \in Levels
<1>1. Len(Queue) \in Nat /\ Len(Queue) # 0
  BY RegistryAssumption
<1>2. \A i \in 1..Len(Queue) : Queue[i] \in Dirs
  BY DEF Dirs
<1> QED
  BY <1>1, <1>2, RegistryAssumption

\* The directory in hand and its level.
LEMMA DirFacts ==
  ASSUME TypeInv
  PROVE  dir \in Dirs /\ Slevel[dir] \in Levels /\ counter[Slevel[dir]] \in Nat
BY QueueFacts DEF TypeInv, TypeOK, dir

\* The name gen takes is one, and header.h does not have it.
LEMMA NextNameFacts ==
  ASSUME TypeInv, ProtoInv
  PROVE  NextName \in Name /\ NextName \notin Given
<1>1. NextName \in Name
  BY DirFacts DEF NextName, Name
<1>2. NextName[1] = Slevel[dir] /\ NextName[2] = counter[Slevel[dir]] + 1
  BY DEF NextName
<1>3. ~ (NextName[2] <= counter[NextName[1]])
  BY <1>2, DirFacts
<1> QED
  BY <1>1, <1>3 DEF ProtoInv, UpTo

\* register returns to start.sh, which goes on or links.
LEMMA ReturnFacts ==
  ASSUME TypeInv, Return
  PROVE  /\ at' \in 1..Len(Queue)
         /\ \/ pc' = "link" /\ at' = at
            \/ pc' = "check" /\ at' = at + 1
BY QueueFacts DEF TypeInv, TypeOK, Return

\* NoObject is no object.
LEMMA NoObjectFacts == NoObject \notin Obj /\ NoObject.name = <<0, 0>> /\ NoObject.dir = None
BY RegistryAssumption DEF NoObject, Object, Obj

\* The parts of an object.
LEMMA ObjectFacts ==
  ASSUME NEW nm, NEW d
  PROVE  Object(nm, d).name = nm /\ Object(nm, d).dir = d
BY DEF Object

\* TypeOK speaks of the parts of objects.
LEMMA ObjectTypes ==
  ASSUME NEW L \in SUBSET Obj, NEW s \in Seq(Entry), NEW x \in Obj \cup {NoObject}
  PROVE  /\ \A o \in L : o.name \in Name /\ o.dir \in Dirs
         /\ \A i \in 1..Len(s) : s[i].name \in Name /\ s[i].dir \in Dirs \cup {None}
         /\ x.dir \in Dirs \cup {None}
<1>1. \A o \in L : o.name \in Name /\ o.dir \in Dirs
  BY DEF Obj
<1>2. \A i \in 1..Len(s) : s[i] \in Entry
  OBVIOUS
<1>3. \A i \in 1..Len(s) : s[i].name \in Name /\ s[i].dir \in Dirs \cup {None}
  BY <1>2 DEF Entry
<1>4. x.dir \in Dirs \cup {None}
  BY NoObjectFacts DEF Obj
<1> QED
  BY <1>1, <1>3, <1>4

\* A new prototype adds its name.
LEMMA GivenNext == NamesOf(protos \cup {New}) = Given \cup {NextName}
BY ObjectFacts DEF NamesOf, Given, New

\* LIB has no names beyond those given, and that of the backend in hand only
\* for its object.
LEMMA LibNames ==
  ASSUME LibInv
  PROVE  /\ ~ Pending => NamesOf(lib) \subseteq Given
         /\ \A o \in lib : o.name \in Given \/ (Pending /\ o = New /\ dir \in Renamable)
BY ObjectFacts DEF LibInv, Built, NamesOf, Given, New

------------------------------------------------------------------------------
\* The entries of a level are counted.
LEMMA OfLevelFinite ==
  ASSUME NEW s, NEW n \in Nat, NEW l
  PROVE  IsFiniteSet(OfLevel(s, n, l)) /\ Cardinality(OfLevel(s, n, l)) \in Nat
<1>1. IsFiniteSet(1..n)
  BY FS_Interval
<1>2. OfLevel(s, n, l) \in SUBSET (1..n)
  BY DEF OfLevel
<1>3. IsFiniteSet(OfLevel(s, n, l))
  BY <1>1, <1>2, FS_Subset
<1> QED
  BY <1>3, FS_CardinalityType

\* One entry more adds one to its own level.
LEMMA OfLevelNext ==
  ASSUME NEW s, NEW n \in Nat, NEW l
  PROVE  Cardinality(OfLevel(s, n + 1, l)) =
           Cardinality(OfLevel(s, n, l)) + IF s[n + 1].name[1] = l THEN 1 ELSE 0
<1>1. CASE s[n + 1].name[1] = l
  <2>1. OfLevel(s, n + 1, l) = OfLevel(s, n, l) \cup {n + 1}
    BY <1>1 DEF OfLevel
  <2>2. n + 1 \notin OfLevel(s, n, l)
    BY DEF OfLevel
  <2> QED
    BY <1>1, <2>1, <2>2, OfLevelFinite, FS_AddElement
<1>2. CASE s[n + 1].name[1] # l
  <2>1. OfLevel(s, n + 1, l) = OfLevel(s, n, l)
    BY <1>2 DEF OfLevel
  <2> QED
    BY <1>2, <2>1, OfLevelFinite
<1> QED
  BY <1>1, <1>2

\* An entry that is appended leaves the numbers of the others.
LEMMA OfLevelAppend ==
  ASSUME NEW s \in Seq(Entry), NEW x \in Entry, NEW i \in 0..Len(s), NEW l
  PROVE  OfLevel(Append(s, x), i, l) = OfLevel(s, i, l)
<1>1. \A k \in 1..i : Append(s, x)[k] = s[k]
  OBVIOUS
<1> QED
  BY <1>1 DEF OfLevel

------------------------------------------------------------------------------
\* A new image.
LEMMA InitInv == Init => RegistryInv
<1> SUFFICES ASSUME Init PROVE RegistryInv
  OBVIOUS
<1>1. TypeOK
  BY ObjectTypes, QueueFacts, NoObjectFacts, RegistryAssumption DEF Init, TypeOK, Name
<1>2. TypeInv
  BY <1>1 DEF TypeInv, Init, Obj
<1> QED
  BY <1>2 DEF Init, RegistryInv, Working

\* reset writes the files from nothing, whatever they were.
LEMMA ResetStep ==
  ASSUME RegistryInv, Reset
  PROVE  RegistryInv'
<1> USE DEF RegistryInv
<1>1. /\ counter' = [l \in Levels |-> 0] /\ protos' = {} /\ db' = <<>>
      /\ lib' = {} /\ so' = {} /\ at' = 1 /\ pc' = "check"
      /\ prof' = prof /\ app' = app /\ restarts' = restarts
  BY DEF Reset
<1>2. TypeInv'
  <2>1. TypeOK'
    BY <1>1, QueueFacts, ObjectTypes DEF TypeInv, TypeOK
  <2> QED
    BY <1>1, <2>1 DEF TypeInv
<1>3. CountInv'
  BY <1>1 DEF CountInv, Registering
<1>4. ProtoInv'
  BY <1>1 DEF ProtoInv, UpTo, Name, Given, NamesOf
<1>5. LibInv'
  BY <1>1 DEF LibInv, Built, Pending
<1>6. DbInv'
  <2>1. Len(db') = 0
    BY <1>1
  <2>2. \A l \in Levels : Measurements(l)' = 0
    BY <1>1 DEF Measurements
  <2>3. {nm \in Name : nm[2] <= [l \in Levels |-> Measurements(l)'][nm[1]]} = {}
    BY <2>2 DEF Name
  <2>4. \A l : OfLevel(db', 0, l) = {}
    BY DEF OfLevel
  <2> QED
    BY <1>1, <2>1, <2>2, <2>3, <2>4, FS_EmptySet DEF DbInv, UpTo
<1>7. CorrectInv' /\ LinkInv' /\ SoInv'
  BY <1>1 DEF CorrectInv, LinkInv, Linkable, SoInv
<1> QED
  BY <1>2, <1>3, <1>4, <1>5, <1>6, <1>7 DEF FilesInv

\* A step that leaves the files and takes no name keeps all but what the new
\* position must satisfy.
LEMMA QuietStep ==
  ASSUME RegistryInv, Working, pc # "serve", ~ Pending,
         UNCHANGED <<header, lib, so, db, prof, app, restarts>>,
         pc' \in {"check", "test", "collide", "build", "link"}, at' \in 1..Len(Queue),
         CountInv', CorrectInv',
         pc' = "build" => \A o \in lib : Symbols[dir'] \cap Symbols[o.dir] = {}
  PROVE  RegistryInv'
<1> USE DEF RegistryInv
<1>1. /\ counter' = counter /\ protos' = protos /\ lib' = lib /\ so' = so /\ db' = db
      /\ prof' = prof /\ app' = app /\ restarts' = restarts
  BY DEF header
<1>2. TypeInv'
  <2>1. TypeOK'
    BY <1>1 DEF TypeInv, TypeOK
  <2> QED
    BY <1>1, <2>1 DEF TypeInv
<1>3. ProtoInv'
  BY <1>1 DEF FilesInv, ProtoInv, UpTo, Given, NamesOf
<1>4. LibInv'
  BY <1>1 DEF FilesInv, LibInv, Built, Pending
<1>5. DbInv'
  <2>1. \A l \in Levels : Measurements(l)' = Measurements(l)
    BY <1>1 DEF Measurements, Pending
  <2>2. [l \in Levels |-> Measurements(l)'] = [l \in Levels |-> Measurements(l)]
    BY <2>1
  <2> QED
    BY <1>1, <2>1, <2>2 DEF FilesInv, DbInv, UpTo, OfLevel
<1>6. LinkInv'
  BY <1>1 DEF FilesInv, LinkInv, Linkable
<1>7. SoInv'
  BY <1>1 DEF FilesInv, SoInv
<1> QED
  BY <1>2, <1>3, <1>4, <1>5, <1>6, <1>7 DEF FilesInv

\* After a return the counters are within the position again.
LEMMA ReturnCount ==
  ASSUME TypeInv, CountInv, Registering, counter' = counter, Return
  PROVE  CountInv'
BY ReturnFacts DEF TypeInv, TypeOK, CountInv, Registering

\* The comparison of symbols lets a directory pass only if rval can be 0.
LEMMA CollideFacts ==
  ASSUME Collide
  PROVE  /\ pc = "collide"
         /\ UNCHANGED <<header, lib, so, db, prof, app, restarts>>
         /\ Return \/ (pc' = "build" /\ at' = at /\ FALSE \in Rval)
<1>1. PICK rval \in Rval : IF rval THEN Return ELSE pc' = "build" /\ UNCHANGED at
  BY Zenon DEF Collide
<1>2. rval \in BOOLEAN
  <2>1. collide \in BOOLEAN
    BY DEF collide
  <2> QED
    BY <2>1, Zenon DEF Rval
<1>3. Return \/ (pc' = "build" /\ at' = at /\ FALSE \in Rval)
  BY <1>1, <1>2, Zenon
<1> QED
  BY <1>3, Zenon DEF Collide

\* Check, Test and Collide: the directory is given up, or goes on to the next
\* step with what that step has established.
LEMMA CheckStep ==
  ASSUME RegistryInv, Check \/ Test \/ Collide
  PROVE  RegistryInv'
<1> USE DEF RegistryInv
<1>1. /\ UNCHANGED <<header, lib, so, db, prof, app, restarts>>
      /\ pc \in {"check", "test", "collide"}
      /\ \/ Return
         \/ pc = "check" /\ pc' = "test" /\ at' = at
         \/ pc = "test" /\ pc' = "collide" /\ at' = at /\ dir \in Correct
         \/ pc = "collide" /\ pc' = "build" /\ at' = at /\ FALSE \in Rval
  BY CollideFacts DEF Check, Test
<1>2. counter' = counter /\ lib' = lib
  BY <1>1 DEF header
<1>3. FilesInv /\ Working /\ Registering /\ ~ Pending
  BY <1>1 DEF Working, Registering, Pending
<1>4. CASE Return
  <2>1. CountInv'
    BY <1>2, <1>3, <1>4, ReturnCount DEF FilesInv
  <2>2. CorrectInv'
    BY <1>2, <1>3, <1>4, ReturnFacts DEF FilesInv, CorrectInv
  <2> QED
    BY <1>1, <1>3, <1>4, <2>1, <2>2, ReturnFacts, QuietStep
<1>5. CASE at' = at /\ pc' \in {"test", "collide", "build"}
  <2>1. CountInv'
    BY <1>2, <1>3, <1>5 DEF FilesInv, CountInv, Registering
  <2>2. dir' = dir
    BY <1>5 DEF dir
  <2>3. CorrectInv'
    <3>1. CASE pc' = "test"
      BY <1>2, <1>3, <3>1 DEF FilesInv, CorrectInv
    <3>2. CASE pc' = "collide" /\ dir \in Correct
      BY <1>2, <1>3, <2>2, <3>2 DEF FilesInv, CorrectInv
    <3>3. CASE pc = "collide"
      BY <1>2, <1>3, <2>2, <3>3 DEF FilesInv, CorrectInv
    <3> QED
      BY <1>1, <1>5, <3>1, <3>2, <3>3, ReturnFacts
  <2>4. pc' = "build" => \A o \in lib : Symbols[dir'] \cap Symbols[o.dir] = {}
    <3> SUFFICES ASSUME pc' = "build", NEW o \in lib
                 PROVE  Symbols[dir] \cap Symbols[o.dir] = {}
      BY <2>2
    <3>1. FALSE \in Rval
      BY <1>1, ReturnFacts
    <3>2. ~ collide
      BY <3>1 DEF Rval
    <3> QED
      BY <3>2 DEF collide
  <2> QED
    BY <1>1, <1>3, <1>5, <2>1, <2>3, <2>4, QuietStep DEF TypeInv, TypeOK
<1> QED
  BY <1>1, <1>4, <1>5

\* gen takes the next number and compiles: the new object is in LIB or not.
LEMMA BuildStep ==
  ASSUME RegistryInv, Build
  PROVE  RegistryInv'
<1> USE DEF RegistryInv
<1>1. /\ pc = "build" /\ pc' = "profile" /\ app' = NextName
      /\ counter' = counter /\ protos' = protos /\ so' = so /\ db' = db
      /\ at' = at /\ restarts' = restarts
  BY DEF Build, NextName, header
<1>2. FilesInv /\ TypeInv
  BY <1>1 DEF Working
<1>3. NextName \in Name /\ NextName \notin Given
  BY <1>2, NextNameFacts DEF FilesInv
<1>4. lib = Built(protos) /\ \A o \in lib : o.name \in Given
  BY <1>1, <1>2, LibNames DEF FilesInv, LibInv, Pending
<1>5. dir' = dir /\ NextName' = NextName /\ New' = New /\ dir \in Dirs
  BY <1>1, <1>2, DirFacts DEF dir, NextName, New
<1>6. \/ dir \notin Renamable /\ lib' = lib /\ prof' \in {prof, NoObject}
      \/ dir \in Renamable /\ lib' = lib \cup {New} /\ prof' = New
  <2>1. {o \in lib : o.name # NextName} = lib
    BY <1>3, <1>4
  <2> QED
    BY <1>1, <2>1 DEF Build, New
<1>7. New \in Obj
  BY <1>3, <1>5 DEF Object, Obj, New
<1>8. TypeInv'
  <2>1. lib' \subseteq Obj /\ prof' \in Obj \cup {NoObject} /\ lib \subseteq lib'
    BY <1>2, <1>6, <1>7 DEF TypeInv
  <2>2. TypeOK'
    BY <1>1, <1>2, <2>1, ObjectTypes DEF TypeInv, TypeOK
  <2> QED
    BY <1>1, <1>2, <2>1, <2>2 DEF TypeInv
<1>9. CountInv' /\ ProtoInv'
  BY <1>1, <1>2 DEF FilesInv, CountInv, Registering, ProtoInv, UpTo, Given, NamesOf
<1>10. LibInv'
  <2>1. lib' = Built(protos \cup {New})
    BY <1>4, <1>6, ObjectFacts DEF Built, New
  <2>2. dir \in Renamable => prof' = New
    BY <1>6
  <2>3. (lib = Built(protos \cup {New}))'
    BY <1>1, <1>5, <2>1 DEF Built
  <2> QED
    BY <1>1, <1>5, <2>2, <2>3 DEF LibInv, Pending
<1>11. DbInv'
  <2>1. \A l \in Levels : Measurements(l) = counter[l] /\ Measurements(l)' = counter[l]
    BY <1>1 DEF Measurements
  <2>2. [l \in Levels |-> Measurements(l)'] = [l \in Levels |-> Measurements(l)]
    BY <2>1
  <2>3. {db[i].name : i \in 1..Len(db)} = Given
    <3>1. [l \in Levels |-> Measurements(l)] = counter
      BY <1>2, <2>1 DEF TypeInv, TypeOK
    <3> QED
      BY <1>2, <3>1 DEF FilesInv, DbInv, ProtoInv
  <2>4. \A i \in 1..Len(db), o \in lib' : o.name = db[i].name => db[i] = o
    <3>1. New.name = NextName
      BY ObjectFacts DEF New
    <3> QED
      BY <1>2, <1>3, <1>6, <2>3, <3>1 DEF FilesInv, DbInv
  <2> QED
    BY <1>1, <1>2, <2>1, <2>2, <2>4 DEF FilesInv, DbInv, UpTo, OfLevel
<1>12. CorrectInv'
  BY <1>1, <1>2, <1>6, ObjectFacts DEF FilesInv, CorrectInv, New
<1>13. LinkInv'
  <2>1. Linkable(lib) /\ \A o \in lib : Symbols[dir] \cap Symbols[o.dir] = {}
    BY <1>1, <1>2 DEF FilesInv, LinkInv
  <2>2. Linkable(lib')
    BY <1>6, <2>1, ObjectFacts DEF Linkable, New
  <2> QED
    BY <1>1, <2>2 DEF LinkInv, Linkable
<1>14. SoInv'
  BY <1>1, <1>2 DEF FilesInv, SoInv
<1> QED
  BY <1>8, <1>9, <1>10, <1>11, <1>12, <1>13, <1>14 DEF FilesInv

\* profile appends its entry: db.yaml is ahead of header.h.
LEMMA ProfileOKStep ==
  ASSUME RegistryInv, ProfileOK
  PROVE  RegistryInv'
<1> USE DEF RegistryInv
<1> DEFINE e == Object(app, Looped)
<1>1. /\ pc = "profile" /\ pc' = "commit" /\ db' = Append(db, e)
      /\ counter' = counter /\ protos' = protos /\ lib' = lib /\ so' = so
      /\ prof' = prof /\ app' = app /\ at' = at /\ restarts' = restarts
  BY DEF ProfileOK, header
<1>2. FilesInv /\ TypeInv
  BY <1>1 DEF Working
<1>3. app = NextName /\ NextName \in Name /\ NextName \notin Given
  BY <1>1, <1>2, NextNameFacts DEF FilesInv, LibInv, Pending
<1>4. e \in Entry /\ e.name = NextName /\ (dir \in Renamable => e = New)
  <2>1. Looped \in Dirs \cup {None}
    BY <1>2 DEF TypeInv, TypeOK, Looped
  <2>2. e \in Entry /\ e.name = NextName
    BY <1>3, <2>1, ObjectFacts DEF Object, Entry
  <2>3. ASSUME dir \in Renamable PROVE e = New
    <3>1. prof = New
      BY <1>1, <1>2, <2>3 DEF FilesInv, LibInv, Pending
    <3>2. Looped = dir
      BY <1>3, <3>1, ObjectFacts DEF Looped, New
    <3> QED
      BY <1>3, <3>2 DEF New
  <2> QED
    BY <2>2, <2>3
<1> HIDE DEF e
<1>5. dir' = dir /\ NextName' = NextName /\ New' = New /\ Slevel[dir] \in Levels
  BY <1>1, <1>2, DirFacts DEF dir, NextName, New
<1>6. db' \in Seq(Entry) /\ Len(db') = Len(db) + 1 /\ Len(db) \in Nat
  BY <1>1, <1>2, <1>4 DEF TypeInv
<1>7. TypeInv'
  <2>1. TypeOK'
    BY <1>1, <1>2, <1>6, ObjectTypes DEF TypeInv, TypeOK
  <2> QED
    BY <1>1, <1>2, <1>6, <2>1 DEF TypeInv
<1>8. CountInv' /\ ProtoInv'
  BY <1>1, <1>2 DEF FilesInv, CountInv, Registering, ProtoInv, UpTo, Given, NamesOf
<1>9. LibInv'
  BY <1>1, <1>2, <1>3, <1>5 DEF FilesInv, LibInv, Built, Pending
<1>10. CorrectInv' /\ LinkInv' /\ SoInv'
  BY <1>1, <1>2, <1>5 DEF FilesInv, CorrectInv, LinkInv, Linkable, SoInv
<1>11. DbInv'
  <2> DEFINE n == Len(db)
             lv == Slevel[dir]
  <2>1. /\ \A i \in 1..n : db'[i] = db[i]
        /\ db'[n + 1] = e /\ e.name = <<lv, counter[lv] + 1>>
    BY <1>1, <1>2, <1>4, <1>6 DEF TypeInv, NextName
  <2>2. \A l \in Levels : /\ Measurements(l) = counter[l]
                          /\ Measurements(l)' = IF l = lv THEN counter[l] + 1 ELSE counter[l]
    BY <1>1, <1>5 DEF Measurements
  <2>3. \A i \in 0..n, l \in Levels : OfLevel(db', i, l) = OfLevel(db, i, l)
    BY <1>1, <1>2, <1>4, OfLevelAppend DEF TypeInv
  <2>4. \A l \in Levels : Cardinality(OfLevel(db, n, l)) = counter[l]
    BY <1>2, <2>2 DEF FilesInv, DbInv
  <2>5. \A l \in Levels : Cardinality(OfLevel(db', n + 1, l)) = Measurements(l)'
    <3> SUFFICES ASSUME NEW l \in Levels
                 PROVE  Cardinality(OfLevel(db', n + 1, l)) = Measurements(l)'
      OBVIOUS
    <3>1. Cardinality(OfLevel(db', n + 1, l)) =
            Cardinality(OfLevel(db', n, l)) + IF db'[n + 1].name[1] = l THEN 1 ELSE 0
      BY <1>6, OfLevelNext
    <3>2. OfLevel(db', n, l) = OfLevel(db, n, l)
      BY <1>6, <2>3
    <3>3. counter[l] \in Nat
      BY <1>2 DEF TypeInv, TypeOK
    <3> QED
      BY <2>1, <2>2, <2>4, <3>1, <3>2, <3>3
  <2>6. \A i \in 1..Len(db') : db'[i].name[2] = Cardinality(OfLevel(db', i, db'[i].name[1]))
    <3> SUFFICES ASSUME NEW i \in 1..n + 1
                 PROVE  db'[i].name[2] = Cardinality(OfLevel(db', i, db'[i].name[1]))
      BY <1>6
    <3>1. CASE i = n + 1
      <4>1. db'[i].name[1] = lv /\ db'[i].name[2] = counter[lv] + 1
        BY <2>1, <3>1
      <4> QED
        BY <1>5, <2>2, <2>5, <3>1, <4>1
    <3>2. CASE i # n + 1
      <4>1. i \in 1..n /\ i \in 0..n
        BY <1>6, <3>2
      <4>2. db[i].name[1] \in Levels
        BY <1>2, <4>1 DEF TypeInv, TypeOK, Name
      <4> QED
        BY <1>2, <2>1, <2>3, <4>1, <4>2 DEF FilesInv, DbInv
    <3> QED
      BY <3>1, <3>2
  <2>7. {db'[i].name : i \in 1..Len(db')} = Given \cup {NextName}
    <3>1. {db[i].name : i \in 1..n} = Given
      <4>1. [l \in Levels |-> Measurements(l)] = counter
        BY <1>2, <2>2 DEF TypeInv, TypeOK
      <4> QED
        BY <1>2, <4>1 DEF FilesInv, DbInv, ProtoInv
    <3>2. e.name = NextName
      BY <1>4
    <3>3. ASSUME NEW i \in 1..Len(db')
          PROVE  db'[i].name \in Given \cup {NextName}
      <4>1. i \in 1..n \/ i = n + 1
        BY <1>6
      <4> QED
        BY <2>1, <3>1, <3>2, <4>1
    <3>4. ASSUME NEW nm \in Given \cup {NextName}
          PROVE  \E i \in 1..Len(db') : db'[i].name = nm
      <4>1. n + 1 \in 1..Len(db') /\ 1..n \subseteq 1..Len(db')
        BY <1>6
      <4>2. CASE nm = NextName
        BY <2>1, <3>2, <4>1, <4>2
      <4>3. CASE nm \in Given
        <5>1. PICK i \in 1..n : db[i].name = nm
          BY <3>1, <4>3
        <5> QED
          BY <2>1, <4>1, <5>1
      <4> QED
        BY <4>2, <4>3
    <3> QED
      BY <3>3, <3>4
  <2>8. UpTo([l \in Levels |-> Measurements(l)']) = Given \cup {NextName}
    <3>1. \A l \in Levels : counter[l] \in Nat
      BY <1>2 DEF TypeInv, TypeOK
    <3>2. Given = {nm \in Name : nm[2] <= counter[nm[1]]}
      BY <1>2 DEF FilesInv, ProtoInv, UpTo
    <3>3. ASSUME NEW nm \in Name
          PROVE  nm[2] <= [l \in Levels |-> Measurements(l)'][nm[1]]
                   <=> nm \in Given \/ nm = NextName
      <4>1. nm[1] \in Levels /\ nm[2] \in Nat /\ nm = <<nm[1], nm[2]>>
        BY DEF Name
      <4>2. CASE nm[1] = lv
        BY <2>2, <3>1, <3>2, <4>1, <4>2 DEF NextName
      <4>3. CASE nm[1] # lv
        BY <2>2, <3>1, <3>2, <4>1, <4>3 DEF NextName
      <4> QED
        BY <4>2, <4>3
    <3> QED
      BY <1>3, <3>2, <3>3 DEF UpTo
  <2>9. \A i \in 1..Len(db'), o \in lib' : o.name = db'[i].name => db'[i] = o
    <3> SUFFICES ASSUME NEW i \in 1..n + 1, NEW o \in lib, o.name = db'[i].name
                 PROVE  db'[i] = o
      BY <1>1, <1>6
    <3>1. CASE i = n + 1
      <4>1. o.name = NextName
        BY <1>4, <2>1, <3>1
      <4>2. o = New /\ dir \in Renamable
        BY <1>2, <1>3, <4>1, LibNames DEF FilesInv
      <4> QED
        BY <1>4, <2>1, <3>1, <4>2
    <3>2. CASE i # n + 1
      BY <1>2, <1>6, <2>1, <3>2 DEF FilesInv, DbInv
    <3> QED
      BY <3>1, <3>2
  <2> QED
    BY <1>6, <2>5, <2>6, <2>7, <2>8, <2>9 DEF DbInv
<1> QED
  BY <1>7, <1>8, <1>9, <1>10, <1>11 DEF FilesInv

\* A measurement that failed leaves the files; the object waits to be removed.
LEMMA ProfileFailsStep ==
  ASSUME RegistryInv, ProfileFails
  PROVE  RegistryInv'
<1> USE DEF RegistryInv
<1>1. /\ pc = "profile" /\ pc' = "rollback"
      /\ counter' = counter /\ protos' = protos /\ lib' = lib /\ so' = so /\ db' = db
      /\ prof' = prof /\ app' = app /\ at' = at /\ restarts' = restarts
  BY DEF ProfileFails, header
<1>2. FilesInv /\ TypeInv
  BY <1>1 DEF Working
<1>3. dir' = dir /\ NextName' = NextName /\ New' = New
  BY <1>1 DEF dir, NextName, New
<1>4. TypeInv'
  BY <1>1, <1>2 DEF TypeInv, TypeOK
<1>5. CountInv' /\ ProtoInv'
  BY <1>1, <1>2 DEF FilesInv, CountInv, Registering, ProtoInv, UpTo, Given, NamesOf
<1>6. LibInv'
  BY <1>1, <1>2, <1>3 DEF FilesInv, LibInv, Built, Pending
<1>7. DbInv'
  <2>1. [l \in Levels |-> Measurements(l)'] = [l \in Levels |-> Measurements(l)]
        /\ \A l \in Levels : Measurements(l)' = Measurements(l)
    BY <1>1 DEF Measurements
  <2> QED
    BY <1>1, <1>2, <2>1 DEF FilesInv, DbInv, UpTo, OfLevel
<1>8. CorrectInv' /\ LinkInv' /\ SoInv'
  BY <1>1, <1>2 DEF FilesInv, CorrectInv, LinkInv, Linkable, SoInv
<1> QED
  BY <1>4, <1>5, <1>6, <1>7, <1>8 DEF FilesInv

\* header.h follows: the name is in all files.
LEMMA CommitStep ==
  ASSUME RegistryInv, Commit
  PROVE  RegistryInv'
<1> USE DEF RegistryInv
<1> DEFINE lv == Slevel[dir]
<1>1. /\ pc = "commit" /\ counter' = [counter EXCEPT ![lv] = @ + 1]
      /\ protos' = protos \cup {Object(app, dir)} /\ Return
      /\ lib' = lib /\ so' = so /\ db' = db
      /\ prof' = prof /\ app' = app /\ restarts' = restarts
  BY DEF Commit
<1>2. FilesInv /\ TypeInv
  BY <1>1 DEF Working
<1>3. app = NextName /\ NextName \in Name /\ NextName \notin Given
  BY <1>1, <1>2, NextNameFacts DEF FilesInv, LibInv, Pending
<1>given. protos' = protos \cup {New} /\ New \in Obj /\ Given' = Given \cup {NextName}
  <2>1. protos' = protos \cup {New}
    BY <1>1, <1>3 DEF New
  <2>2. New \in Obj
    BY <1>2, <1>3, DirFacts DEF New, Object, Obj
  <2>3. Given' = NamesOf(protos \cup {New})
    BY <2>1 DEF Given, NamesOf
  <2> QED
    BY <2>1, <2>2, <2>3, GivenNext
<1>4. /\ at' \in 1..Len(Queue) /\ at \in 1..Len(Queue) /\ Len(Queue) \in Nat
      /\ (pc' = "link" /\ at' = at) \/ (pc' = "check" /\ at' = at + 1)
  BY <1>1, <1>2, ReturnFacts, QueueFacts DEF TypeInv, TypeOK
<1>5. /\ lv \in Levels /\ counter \in [Levels -> Nat] /\ counter' \in [Levels -> Nat]
      /\ \A l \in Levels : counter'[l] = Measurements(l)
  BY <1>1, <1>2, DirFacts DEF TypeInv, TypeOK, Measurements
<1>6. TypeInv'
  <2>1. TypeOK'
    <3>1. protos' \subseteq Obj
      BY <1>given, <1>2 DEF TypeInv
    <3> QED
      BY <1>1, <1>2, <1>4, <1>5, <3>1, ObjectTypes DEF TypeInv, TypeOK
  <2> QED
    BY <1>given, <1>1, <1>2, <1>4, <2>1 DEF TypeInv
<1>7. CountInv'
  <2>1. \A l \in Levels : counter[l] < at /\ counter[l] \in Nat
    BY <1>1, <1>2, <1>5 DEF FilesInv, CountInv, Registering
  <2>2. \A l \in Levels : counter'[l] <= counter[l] + 1
    BY <1>1, <1>5, <2>1
  <2> QED
    BY <1>4, <1>5, <2>1, <2>2 DEF CountInv, Registering
<1>8. [l \in Levels |-> Measurements(l)] = counter'
  BY <1>5
<1>9. Given \cup {NextName} = UpTo(counter')
  <2>1. Given = {nm \in Name : nm[2] <= counter[nm[1]]}
    BY <1>2 DEF FilesInv, ProtoInv, UpTo
  <2>2. ASSUME NEW nm \in Name
        PROVE  nm[2] <= counter'[nm[1]] <=> nm \in Given \/ nm = NextName
    <3>1. nm[1] \in Levels /\ nm[2] \in Nat /\ nm = <<nm[1], nm[2]>>
      BY DEF Name
    <3>2. CASE nm[1] = lv
      BY <1>1, <1>5, <2>1, <3>1, <3>2 DEF NextName
    <3>3. CASE nm[1] # lv
      BY <1>1, <1>5, <2>1, <3>1, <3>3 DEF NextName
    <3> QED
      BY <3>2, <3>3
  <2> QED
    BY <1>3, <2>1, <2>2 DEF UpTo
<1>10. ProtoInv'
  BY <1>given, <1>9 DEF ProtoInv, UpTo
<1>11. LibInv'
  <2>1. lib = Built(protos \cup {New})
    BY <1>1, <1>2 DEF FilesInv, LibInv, Pending
  <2>2. (lib = Built(protos))'
    BY <1>given, <1>1, <2>1 DEF Built
  <2> QED
    BY <1>4, <2>2 DEF LibInv, Pending
<1>12. DbInv'
  <2>1. \A l \in Levels : Measurements(l)' = counter'[l]
    BY <1>4 DEF Measurements
  <2>2. [l \in Levels |-> Measurements(l)'] = [l \in Levels |-> Measurements(l)]
        /\ \A l \in Levels : Measurements(l)' = Measurements(l)
    BY <1>5, <2>1
  <2> QED
    BY <1>1, <1>2, <2>2 DEF FilesInv, DbInv, UpTo, OfLevel
<1>13. CorrectInv' /\ LinkInv' /\ SoInv'
  BY <1>1, <1>2, <1>4 DEF FilesInv, CorrectInv, LinkInv, Linkable, SoInv
<1> QED
  BY <1>6, <1>7, <1>10, <1>11, <1>12, <1>13 DEF FilesInv

\* The object is removed: the name is in no file.
LEMMA RollbackStep ==
  ASSUME RegistryInv, Rollback
  PROVE  RegistryInv'
<1> USE DEF RegistryInv
<1>1. /\ pc = "rollback" /\ lib' = {o \in lib : o.name # app} /\ Return
      /\ counter' = counter /\ protos' = protos /\ so' = so /\ db' = db
      /\ prof' = prof /\ app' = app /\ restarts' = restarts
  BY DEF Rollback, header
<1>2. FilesInv /\ TypeInv
  BY <1>1 DEF Working
<1>3. app = NextName /\ app \notin Given
  BY <1>1, <1>2, NextNameFacts DEF FilesInv, LibInv, Pending
<1>4. /\ at' \in 1..Len(Queue)
      /\ (pc' = "link" /\ at' = at) \/ (pc' = "check" /\ at' = at + 1)
  BY <1>1, <1>2, ReturnFacts
<1>5. lib' \subseteq lib /\ so = {}
  BY <1>1, <1>2 DEF FilesInv, SoInv
<1>6. TypeInv'
  <2>1. TypeOK'
    BY <1>1, <1>2, <1>4, <1>5 DEF TypeInv, TypeOK
  <2> QED
    BY <1>1, <1>2, <1>4, <1>5, <2>1 DEF TypeInv
<1>7. CountInv' /\ ProtoInv'
  <2>1. CountInv'
    BY <1>1, <1>2, ReturnCount DEF FilesInv, Registering
  <2> QED
    BY <1>1, <1>2, <2>1 DEF FilesInv, ProtoInv, UpTo, Given, NamesOf
<1>8. LibInv'
  <2>1. lib = Built(protos \cup {New}) /\ New.name = app
    BY <1>1, <1>2, <1>3, ObjectFacts DEF FilesInv, LibInv, Pending, New
  <2>2. \A o \in protos : o.name # app
    BY <1>3 DEF Given, NamesOf
  <2>3. lib' = Built(protos)
    BY <1>1, <2>1, <2>2 DEF Built
  <2>4. (lib = Built(protos))'
    BY <1>1, <2>3 DEF Built
  <2> QED
    BY <1>4, <2>4 DEF LibInv, Pending
<1>9. DbInv'
  <2>1. [l \in Levels |-> Measurements(l)'] = [l \in Levels |-> Measurements(l)]
        /\ \A l \in Levels : Measurements(l)' = Measurements(l)
    BY <1>1, <1>4 DEF Measurements
  <2> QED
    BY <1>1, <1>2, <1>5, <2>1 DEF FilesInv, DbInv, UpTo, OfLevel
<1>10. CorrectInv' /\ LinkInv' /\ SoInv'
  <2>1. CorrectInv' /\ SoInv'
    BY <1>1, <1>2, <1>4, <1>5 DEF FilesInv, CorrectInv, SoInv
  <2>2. Linkable(lib')
    BY <1>2, <1>5 DEF FilesInv, LinkInv, Linkable
  <2> QED
    BY <1>4, <2>1, <2>2 DEF LinkInv, Linkable
<1> QED
  BY <1>6, <1>7, <1>8, <1>9, <1>10 DEF FilesInv

\* All objects are linked, since each was compared with those before it.
LEMMA LinkStep ==
  ASSUME RegistryInv, Link
  PROVE  RegistryInv'
<1> USE DEF RegistryInv
<1>1. /\ pc = "link" /\ pc' = "serve" /\ so' = IF Linkable(lib) THEN lib ELSE {}
      /\ counter' = counter /\ protos' = protos /\ lib' = lib /\ db' = db
      /\ prof' = prof /\ app' = app /\ at' = at /\ restarts' = restarts
  BY DEF Link, header
<1>2. FilesInv /\ TypeInv
  BY <1>1 DEF Working
<1>3. so' = lib
  BY <1>1, <1>2 DEF FilesInv, LinkInv
<1>4. TypeInv'
  BY <1>1, <1>2, <1>3 DEF TypeInv, TypeOK
<1>5. CountInv' /\ ProtoInv'
  BY <1>1, <1>2 DEF FilesInv, CountInv, Registering, ProtoInv, UpTo, Given, NamesOf
<1>6. LibInv'
  BY <1>1, <1>2 DEF FilesInv, LibInv, Built, Pending
<1>7. DbInv'
  <2>1. [l \in Levels |-> Measurements(l)'] = [l \in Levels |-> Measurements(l)]
        /\ \A l \in Levels : Measurements(l)' = Measurements(l)
    BY <1>1 DEF Measurements
  <2> QED
    BY <1>1, <1>2, <2>1 DEF FilesInv, DbInv, UpTo, OfLevel
<1>8. CorrectInv' /\ LinkInv' /\ SoInv'
  BY <1>1, <1>2, <1>3 DEF FilesInv, CorrectInv, LinkInv, Linkable, SoInv
<1> QED
  BY <1>4, <1>5, <1>6, <1>7, <1>8 DEF FilesInv

\* A restart may come at any step: only the types survive it.
LEMMA RestartStep ==
  ASSUME RegistryInv, Restart
  PROVE  RegistryInv'
<1>1. TypeInv'
  BY RegistryAssumption DEF RegistryInv, Restart, header, TypeInv, TypeOK
<1> QED
  BY <1>1 DEF RegistryInv, Restart, Working

\* Steps that leave everything as it is.
LEMMA StutterStep ==
  ASSUME RegistryInv, UNCHANGED vars
  PROVE  RegistryInv'
<1>1. /\ counter' = counter /\ protos' = protos /\ lib' = lib /\ so' = so /\ db' = db
      /\ prof' = prof /\ app' = app /\ at' = at /\ pc' = pc /\ restarts' = restarts
  BY DEF vars
<1>2. TypeInv'
  BY <1>1 DEF RegistryInv, TypeInv, TypeOK
<1>3. ASSUME FilesInv PROVE FilesInv'
  <2>1. dir' = dir /\ NextName' = NextName /\ New' = New
    BY <1>1 DEF dir, NextName, New
  <2>2. [l \in Levels |-> Measurements(l)'] = [l \in Levels |-> Measurements(l)]
        /\ \A l \in Levels : Measurements(l)' = Measurements(l)
    BY <1>1, <2>1 DEF Measurements
  <2>3. CountInv' /\ ProtoInv' /\ CorrectInv' /\ LinkInv' /\ SoInv'
    BY <1>1, <1>3, <2>1 DEF FilesInv, CountInv, Registering, ProtoInv, UpTo, Given, NamesOf,
                            CorrectInv, LinkInv, Linkable, SoInv
  <2>4. LibInv'
    BY <1>1, <1>3, <2>1 DEF FilesInv, LibInv, Built, Pending
  <2>5. DbInv'
    BY <1>1, <1>3, <2>2 DEF FilesInv, DbInv, UpTo, OfLevel
  <2> QED
    BY <2>3, <2>4, <2>5 DEF FilesInv
<1> QED
  BY <1>1, <1>2, <1>3 DEF RegistryInv, Working

\* The invariant is inductive.
LEMMA NextInv == RegistryInv /\ [Next]_vars => RegistryInv'
<1> SUFFICES ASSUME RegistryInv, [Next]_vars PROVE RegistryInv'
  OBVIOUS
<1>1. CASE Step
  BY <1>1, ResetStep, CheckStep, BuildStep, ProfileOKStep, ProfileFailsStep,
     CommitStep, RollbackStep, LinkStep DEF Step
<1> QED
  BY <1>1, RestartStep, StutterStep DEF Next

------------------------------------------------------------------------------
\* No step of a start runs past the last directory, and lib_enc.so never has
\* what LIB has not (start.sh, register.c, gen.c).
THEOREM TypeCorrect == Spec => []TypeOK
<1>1. RegistryInv => TypeOK
  BY DEF RegistryInv, TypeInv
<1> QED
  BY <1>1, InitInv, NextInv, PTL DEF Spec

\* After every registration header.h and db.yaml name the same backends,
\* numbered without a gap in the order in which they were measured, and LIB
\* has the object of each that compiled and of no other, whatever failed,
\* whichever binary the profiler was and wherever an earlier start was
\* interrupted (reset.c, gen.c, profile01.c).
THEOREM FilesConsistent == Spec => []Consistent
<1>1. RegistryInv => Consistent
  <2> SUFFICES ASSUME RegistryInv, Settled PROVE Consistent
    BY DEF Consistent
  <2>1. Working /\ FilesInv /\ TypeInv /\ ~ Pending
    BY DEF Settled, RegistryInv, Working, Pending
  <2>2. Given = {nm \in Levels \X (1..Len(Queue)) : nm[2] <= counter[nm[1]]}
    <3>1. \A l \in Levels : counter[l] \in Nat /\ counter[l] <= Len(Queue)
      <4>1. at \in 1..Len(Queue) /\ Len(Queue) \in Nat /\ counter \in [Levels -> Nat]
        BY <2>1, QueueFacts DEF TypeInv, TypeOK
      <4>2. \A l \in Levels : counter[l] <= at
        BY <2>1 DEF FilesInv, CountInv
      <4> QED
        BY <4>1, <4>2
    <3>2. Given = {nm \in Name : nm[2] <= counter[nm[1]]}
      BY <2>1 DEF FilesInv, ProtoInv, UpTo
    <3>3. ASSUME NEW nm \in Name, nm[2] <= counter[nm[1]]
          PROVE  nm \in Levels \X (1..Len(Queue))
      BY <3>1, <3>3, QueueFacts DEF Name
    <3>4. Levels \X (1..Len(Queue)) \subseteq Name
      BY QueueFacts DEF Name
    <3> QED
      BY <3>2, <3>3, <3>4
  <2>3. lib = {o \in protos : o.dir \in Renamable}
    BY <2>1 DEF FilesInv, LibInv, Built
  <2>4. {db[i].name : i \in 1..Len(db)} = Given
    <3>1. [l \in Levels |-> Measurements(l)] = counter
      BY <2>1 DEF TypeInv, TypeOK, Measurements, Pending
    <3> QED
      BY <2>1, <3>1 DEF FilesInv, DbInv, ProtoInv
  <2>5. \A i \in 1..Len(db) :
          db[i].name[2] = Cardinality({k \in 1..i : db[k].name[1] = db[i].name[1]})
    BY <2>1 DEF FilesInv, DbInv, OfLevel
  <2> QED
    BY <2>2, <2>3, <2>4, <2>5 DEF Consistent, Given
<1> QED
  BY <1>1, InitInv, NextInv, PTL DEF Spec

\* The entry of every object in LIB was measured on this object, on x86-64 and
\* on the board: an old ./internalprofile can give its figures, or those of
\* nothing, only to a name without an object (gen.c, profile01.c).
THEOREM FiguresMatch == Spec => []Measured
<1>1. RegistryInv => Measured
  BY DEF RegistryInv, Settled, Working, FilesInv, DbInv, Measured
<1> QED
  BY <1>1, InitInv, NextInv, PTL DEF Spec

\* A backend that fails its known-answer test never comes into the library.
THEOREM OnlyCorrectRegistered == Spec => []OnlyCorrect
<1>1. RegistryInv => OnlyCorrect
  BY DEF RegistryInv, Settled, Working, FilesInv, CorrectInv, OnlyCorrect
<1> QED
  BY <1>1, InitInv, NextInv, PTL DEF Spec

\* The objects that passed the comparison of symbols link: a clash takes out
\* the later directory, never the library.
THEOREM LibraryComplete == Spec => []AllLinked
<1>1. RegistryInv => AllLinked
  BY DEF RegistryInv, Working, FilesInv, SoInv, AllLinked
<1> QED
  BY <1>1, InitInv, NextInv, PTL DEF Spec

\* Until the next reset no step takes an object with a committed name away or
\* puts another in its place.
THEOREM NumbersStay == Spec => NumberingKept
<1>1. ASSUME RegistryInv, [Next]_vars
      PROVE  Reset \/ \A o \in lib : o.name \in NamesOf(protos) => o \in lib'
  <2>1. CASE Build
    <3>1. app' = NextName /\ Working
      BY <2>1 DEF Build, NextName, Working
    <3>2. NextName \notin Given
      BY <1>1, <3>1, NextNameFacts DEF RegistryInv, FilesInv
    <3> QED
      BY <2>1, <3>1, <3>2 DEF Build, Given
  <2>2. CASE Rollback
    <3>1. pc = "rollback" /\ lib' = {o \in lib : o.name # app}
      BY <2>2 DEF Rollback
    <3>2. app \notin Given
      BY <1>1, <3>1, NextNameFacts DEF RegistryInv, FilesInv, Working, LibInv, Pending
    <3> QED
      BY <3>1, <3>2 DEF Given
  <2>3. CASE lib' = lib
    BY <2>3
  <2> QED
    BY <1>1, <2>1, <2>2, <2>3 DEF Next, Step, Check, Test, Collide, ProfileOK,
       ProfileFails, Commit, Link, Restart, vars
<1> QED
  BY <1>1, InitInv, NextInv, PTL DEF Spec, NumberingKept
==============================================================================
