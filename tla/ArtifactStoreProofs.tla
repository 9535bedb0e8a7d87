------------------------ MODULE ArtifactStoreProofs ------------------------
(***************************************************************************)
(* What the artifact store guarantees of its files and rows, for any       *)
(* contents, types, calls and faults.                                      *)
(***************************************************************************)
EXTENDS ArtifactStore, TLAPS

\* What a call knows of itself: a row was found by those only that are past the
\* table, and bytes in memory are the only thing that is written in place.
StepOK(k) ==
    /\ k.found => k.op \notin {"find", "place", "insert"}
    /\ k.op \in {"create", "write"} => k.bytes
    /\ k.bytes => k.hash \in FromBytes

\* A content that is never written in place has nothing but whole files, and one as
\* soon as a call can insert its row.
RenamedOK(h) ==
    /\ file[h] # "partial"
    /\ row[h] # NULL => file[h] = "whole" \/ h \in lost
    /\ \A c \in Calls : call[c] # Idle /\ call[c].hash = h /\ call[c].op = "insert"
                          => file[h] = "whole" \/ h \in lost

\* A file that is there stays there unless somebody removes it, and a partial one is
\* being written by the call that emptied it, unless that call was cut short.
WrittenOK(h) ==
    /\ file[h] = "partial" => creator[h] \in writers[h] \/ h \in torn
    /\ row[h] # NULL => file[h] # "absent" \/ h \in lost
    /\ \A c \in Calls : call[c] # Idle /\ call[c].hash = h
                        /\ call[c].op \in {"insert", "write"}
                          => file[h] # "absent" \/ h \in lost

CallsOK == \A c \in Calls : call[c] # Idle => StepOK(call[c])

IInv ==
    /\ TypeOK /\ faults \in Nat /\ lost \subseteq Hashes /\ torn \subseteq Hashes
    /\ CallsOK
    /\ \A h \in Hashes \ FromBytes : RenamedOK(h)
    /\ \A h \in Hashes : WrittenOK(h)
-----------------------------------------------------------------------------
LEMMA InitInv == Init => IInv
BY TypesAssumption DEF Init, IInv, TypeOK, CallsOK, RenamedOK, WrittenOK, Idle

\* A call that is at work.
LEMMA Busy ==
    ASSUME IInv, NEW c \in Calls, "op" \in DOMAIN call[c], call[c].op # "idle"
    PROVE  call[c] \in Steps /\ call[c] # Idle /\ StepOK(call[c])
BY DEF IInv, TypeOK, CallsOK, Idle

Contents == {"absent", "partial", "whole"}

\* A step of a call that has to do with the file and the row of its hash alone: it
\* removes nothing, and sees to a row only when it is to insert one.
LEMMA CallStepInv ==
    ASSUME IInv, NEW c \in Calls, call[c] \in Steps, NEW h, h = call[c].hash,
           NEW k \in Steps \cup {Idle}, k # Idle => k.hash = h /\ StepOK(k),
           NEW f \in Contents, NEW ws \in SUBSET Calls,
           NEW cr \in Calls \cup {NULL}, NEW r \in Types \cup {NULL},
           call' = [call EXCEPT ![c] = k],
           file' = [file EXCEPT ![h] = f], writers' = [writers EXCEPT ![h] = ws],
           creator' = [creator EXCEPT ![h] = cr], row' = [row EXCEPT ![h] = r],
           faults' = faults \/ faults' = faults + 1, UNCHANGED lost,
           torn' \subseteq Hashes, torn' \ {h} = torn \ {h},
           f # file[h] => f # "absent",
           f = "partial" /\ h \notin FromBytes => f = file[h],
           f = "partial" => cr \in ws \/ h \in torn',
           r # NULL /\ row[h] = NULL => call[c].op = "insert",
           k # Idle /\ k.op \in {"insert", "write"} =>
             f # "absent" \/ call[c].op \in {"insert", "write"}
    PROVE  IInv'
<1>1. h \in Hashes
  BY DEF Steps
<1>2. TypeOK' /\ faults' \in Nat /\ (lost \subseteq Hashes)' /\ (torn \subseteq Hashes)'
  <2>1. TypeOK'
    BY DEF IInv, TypeOK, Contents
  <2>2. faults' \in Nat /\ (lost \subseteq Hashes)' /\ (torn \subseteq Hashes)'
    BY DEF IInv
  <2> QED
    BY <2>1, <2>2
<1>3. CallsOK'
  BY <1>2 DEF IInv, TypeOK, CallsOK
<1>4. \A g \in Hashes \ {h} : file'[g] = file[g] /\ writers'[g] = writers[g]
                              /\ creator'[g] = creator[g] /\ row'[g] = row[g]
  BY DEF IInv, TypeOK
<1>5. file'[h] = f /\ writers'[h] = ws /\ creator'[h] = cr /\ row'[h] = r
  BY <1>1 DEF IInv, TypeOK
<1>6. /\ call'[c] = k
      /\ \A d \in Calls \ {c} : call'[d] = call[d]
  BY DEF IInv, TypeOK
<1>7. call[c] # Idle
  BY DEF Steps, Idle
<1>8. ASSUME NEW g \in Hashes \ FromBytes PROVE RenamedOK(g)'
  <2>1. RenamedOK(g)
    BY DEF IInv
  <2>2. CASE g # h
    BY <1>4, <1>6, <2>1, <2>2 DEF RenamedOK
  <2>3. CASE g = h
    <3>1. f # "partial" /\ (file[h] = "whole" => f = "whole")
      BY <2>1, <2>3 DEF RenamedOK, Contents
    <3>2. call[c].op # "write"
      BY <1>7, <2>3 DEF IInv, CallsOK, StepOK
    <3>3. k # Idle /\ k.op = "insert" => f = "whole" \/ h \in lost
      BY <1>7, <2>1, <2>3, <3>1, <3>2 DEF RenamedOK, Contents
    <3>4. r # NULL => f = "whole" \/ h \in lost
      BY <1>7, <2>1, <2>3, <3>1 DEF RenamedOK
    <3> QED
      BY <1>5, <1>6, <2>1, <2>3, <3>1, <3>3, <3>4 DEF RenamedOK
  <2> QED
    BY <2>2, <2>3
<1>9. ASSUME NEW g \in Hashes PROVE WrittenOK(g)'
  <2>1. WrittenOK(g)
    BY DEF IInv
  <2>2. CASE g # h
    <3>1. g \in torn' <=> g \in torn
      BY <2>2
    <3> QED
      BY <1>4, <1>6, <2>1, <2>2, <3>1 DEF WrittenOK
  <2>3. CASE g = h
    <3>1. file[h] # "absent" => f # "absent"
      OBVIOUS
    <3>2. k # Idle /\ k.op \in {"insert", "write"} => f # "absent" \/ h \in lost
      BY <1>7, <2>1, <2>3, <3>1 DEF WrittenOK
    <3>3. r # NULL => f # "absent" \/ h \in lost
      BY <1>7, <2>1, <2>3, <3>1 DEF WrittenOK
    <3> QED
      BY <1>5, <1>6, <2>1, <2>3, <3>1, <3>2, <3>3 DEF WrittenOK
  <2> QED
    BY <2>2, <2>3
<1> QED
  BY <1>2, <1>3, <1>8, <1>9 DEF IInv

\* A step of a call that leaves files and rows as they are.
LEMMA QuietInv ==
    ASSUME IInv, NEW c \in Calls, call[c] \in Steps, NEW h, h = call[c].hash,
           NEW k \in Steps \cup {Idle}, k # Idle => k.hash = h /\ StepOK(k),
           call' = [call EXCEPT ![c] = k], UNCHANGED <<files, row, faults, lost>>,
           k # Idle /\ k.op \in {"insert", "write"} =>
             file[h] # "absent" \/ call[c].op \in {"insert", "write"}
    PROVE  IInv'
<1>1. /\ h \in Hashes
      /\ file[h] \in Contents /\ file \in [Hashes -> Contents]
      /\ writers[h] \in SUBSET Calls /\ writers \in [Hashes -> SUBSET Calls]
      /\ creator[h] \in Calls \cup {NULL} /\ creator \in [Hashes -> Calls \cup {NULL}]
      /\ row[h] \in Types \cup {NULL} /\ row \in [Hashes -> Types \cup {NULL}]
  BY DEF IInv, TypeOK, Steps, Contents
<1>2. PICK f \in Contents, ws \in SUBSET Calls, cr \in Calls \cup {NULL},
           r \in Types \cup {NULL} :
        f = file[h] /\ ws = writers[h] /\ cr = creator[h] /\ r = row[h]
  BY <1>1
<1>3. /\ file' = [file EXCEPT ![h] = f]
      /\ writers' = [writers EXCEPT ![h] = ws]
      /\ creator' = [creator EXCEPT ![h] = cr]
      /\ row' = [row EXCEPT ![h] = r]
      /\ faults' = faults /\ lost' = lost /\ torn' = torn
  BY <1>1, <1>2 DEF files
<1>4. f = "partial" => cr \in ws \/ h \in torn'
  BY <1>1, <1>2, <1>3 DEF IInv, WrittenOK
<1>5. /\ f # file[h] => f # "absent"
      /\ f = "partial" /\ h \notin FromBytes => f = file[h]
      /\ r # NULL /\ row[h] = NULL => call[c].op = "insert"
      /\ k # Idle /\ k.op \in {"insert", "write"} =>
           f # "absent" \/ call[c].op \in {"insert", "write"}
      /\ faults' = faults \/ faults' = faults + 1
      /\ UNCHANGED lost /\ torn' \subseteq Hashes /\ torn' \ {h} = torn \ {h}
  BY <1>2, <1>3 DEF IInv
<1> QED
  BY <1>3, <1>4, <1>5, CallStepInv

\* The record of a call that goes on.
LEMMA OpFields ==
    ASSUME NEW k \in Steps, StepOK(k),
           NEW op \in {"update", "restore", "place", "create", "write", "rename", "insert"},
           k.found => op \notin {"place", "insert"}, op \in {"create", "write"} => k.bytes,
           NEW k2, k2 = [k EXCEPT !.op = op]
    PROVE  k2 \in Steps /\ k2.hash = k.hash /\ k2.op = op /\ StepOK(k2)
BY DEF Steps, StepOK

LEMMA BeginInv ==
    ASSUME IInv, NEW c \in Calls, NEW h \in Hashes, NEW t \in Types, NEW bytes \in BOOLEAN,
           bytes => h \in FromBytes, Begin(c, h, t, bytes)
    PROVE  IInv'
<1> DEFINE k == [op |-> "find", hash |-> h, type |-> t, bytes |-> bytes, found |-> FALSE]
<1>1. k \in Steps /\ StepOK(k) /\ k.op = "find"
  BY DEF Steps, StepOK
<1>2. call' = [call EXCEPT ![c] = k] /\ UNCHANGED <<file, writers, creator, row, faults, lost, torn>>
  BY DEF Begin, files
<1> HIDE DEF k
<1>3. /\ call'[c] = k
      /\ \A d \in Calls \ {c} : call'[d] = call[d]
      /\ TypeOK'
  BY <1>1, <1>2 DEF IInv, TypeOK
<1>4. CallsOK'
  BY <1>1, <1>3 DEF IInv, CallsOK
<1>5. ASSUME NEW g \in Hashes PROVE RenamedOK(g) => RenamedOK(g)'
  BY <1>1, <1>2, <1>3 DEF RenamedOK
<1>6. ASSUME NEW g \in Hashes PROVE WrittenOK(g) => WrittenOK(g)'
  BY <1>1, <1>2, <1>3 DEF WrittenOK
<1> QED
  BY <1>2, <1>3, <1>4, <1>5, <1>6 DEF IInv

LEMMA FindInv ==
    ASSUME IInv, NEW c \in Calls, find_existing(c)
    PROVE  IInv'
<1>1. PICK k : k = call[c]
  OBVIOUS
<1>2. k \in Steps /\ StepOK(k) /\ k.op = "find"
  BY <1>1, Busy DEF find_existing, IInv, TypeOK, CallsOK, Idle
<1>3. PICK found \in BOOLEAN,
           op \in {"update", "restore", "place", "create", "write", "rename", "insert"} :
        /\ call' = [call EXCEPT ![c] = [k EXCEPT !.op = op, !.found = found]]
        /\ found => op \notin {"place", "insert"}
        /\ op \notin {"create", "write", "insert"}
  <2> DEFINE fd == row[k.hash] # NULL
             o == IF ~fd THEN "place"
                  ELSE IF row[k.hash] = OtherType /\ k.type # OtherType THEN "update"
                  ELSE "restore"
  <2>1. call' = [call EXCEPT ![c] = [k EXCEPT !.op = o, !.found = fd]]
    BY <1>1, <1>2 DEF find_existing, IInv, TypeOK, Steps
  <2>2. /\ fd \in BOOLEAN /\ fd => o \notin {"place", "insert"}
        /\ o \in {"update", "restore", "place", "create", "write", "rename", "insert"}
        /\ o \notin {"create", "write", "insert"}
    OBVIOUS
  <2> QED
    BY <2>1, <2>2
<1>4. PICK k2 : k2 = [k EXCEPT !.op = op, !.found = found]
  OBVIOUS
<1>5. k2 \in Steps /\ k2.hash = k.hash /\ k2.op = op /\ StepOK(k2)
  BY <1>2, <1>3, <1>4 DEF Steps, StepOK
<1> QED
  BY <1>1, <1>2, <1>3, <1>4, <1>5, QuietInv DEF find_existing

LEMMA RestoreInv ==
    ASSUME IInv, NEW c \in Calls, restore_existing(c)
    PROVE  IInv'
<1>1. PICK k : k = call[c]
  OBVIOUS
<1>2. k \in Steps /\ StepOK(k) /\ k.op = "restore"
  BY <1>1, Busy DEF restore_existing, IInv, TypeOK, CallsOK, Idle
<1>3. CASE Return(c)
  BY <1>1, <1>2, <1>3, QuietInv DEF restore_existing, Return
<1>4. CASE Goto(c, IF k.bytes THEN "create" ELSE "rename")
  <2>1. PICK k2 : k2 = [k EXCEPT !.op = IF k.bytes THEN "create" ELSE "rename"]
    OBVIOUS
  <2>2. k2 \in Steps /\ k2.hash = k.hash /\ k2.op \in {"create", "rename"} /\ StepOK(k2)
    BY <1>2, <2>1 DEF Steps, StepOK
  <2>3. call' = [call EXCEPT ![c] = k2]
    BY <1>1, <1>4, <2>1 DEF Goto, IInv, TypeOK
  <2> QED
    BY <1>1, <1>2, <2>2, <2>3, QuietInv DEF restore_existing
<1> QED
  BY <1>1, <1>3, <1>4 DEF restore_existing

LEMMA PlaceInv ==
    ASSUME IInv, NEW c \in Calls, Place(c)
    PROVE  IInv'
<1>1. PICK k : k = call[c]
  OBVIOUS
<1>2. k \in Steps /\ StepOK(k) /\ k.op = "place"
  BY <1>1, Busy DEF Place, IInv, TypeOK, CallsOK, Idle
<1>3. PICK op \in {"insert", "create", "rename"} :
        /\ Goto(c, op)
        /\ op = "insert" => file[k.hash] # "absent"
        /\ op = "create" => k.bytes
  BY <1>1 DEF Place, Exists
<1>4. PICK k2 : k2 = [k EXCEPT !.op = op]
  OBVIOUS
<1>5. k2 \in Steps /\ k2.hash = k.hash /\ k2.op = op /\ StepOK(k2)
  BY <1>2, <1>3, <1>4 DEF Steps, StepOK
<1>6. call' = [call EXCEPT ![c] = k2]
  BY <1>1, <1>3, <1>4 DEF Goto, IInv, TypeOK
<1> QED
  BY <1>1, <1>2, <1>3, <1>5, <1>6, QuietInv DEF Place

\* The file is in place, and the call returns or goes on to insert its row.
LEMMA PlacedStep ==
    ASSUME IInv, NEW c \in Calls, NEW k \in Steps, k = call[c], StepOK(k),
           k.op \in {"write", "rename"}, Placed(c)
    PROVE  \E k2 \in Steps \cup {Idle} :
             /\ call' = [call EXCEPT ![c] = k2]
             /\ k2 # Idle => k2.hash = k.hash /\ StepOK(k2) /\ k2.op = "insert"
<1>1. CASE k.found
  BY <1>1 DEF Placed, Return
<1>2. CASE ~k.found
  <2>1. PICK k2 : k2 = [k EXCEPT !.op = "insert"]
    OBVIOUS
  <2>2. k2 \in Steps /\ k2.hash = k.hash /\ k2.op = "insert" /\ StepOK(k2)
    BY <1>2, <2>1 DEF Steps, StepOK
  <2>3. call' = [call EXCEPT ![c] = k2]
    BY <1>2, <2>1 DEF Placed, Goto, IInv, TypeOK
  <2> QED
    BY <2>2, <2>3
<1> QED
  BY <1>1, <1>2

LEMMA RefusedInv ==
    ASSUME IInv, NEW c \in Calls, RenameRefused(c)
    PROVE  IInv'
<1>1. PICK k : k = call[c]
  OBVIOUS
<1>2. k \in Steps /\ StepOK(k) /\ k.op = "rename"
  BY <1>1, Busy DEF RenameRefused, IInv, TypeOK, CallsOK, Idle
<1>3. PICK k2 \in Steps \cup {Idle} :
        /\ call' = [call EXCEPT ![c] = k2]
        /\ k2 # Idle => k2.hash = k.hash /\ StepOK(k2) /\ k2.op = "insert"
  BY <1>1, <1>2, PlacedStep DEF RenameRefused
<1> QED
  BY <1>1, <1>2, <1>3, QuietInv DEF RenameRefused, Exists

\* A step that changes the file alone.
LEMMA FileInv ==
    ASSUME IInv, NEW c \in Calls, call[c] \in Steps, NEW h, h = call[c].hash,
           NEW k \in Steps \cup {Idle}, k # Idle => k.hash = h /\ StepOK(k),
           NEW f \in Contents, NEW ws \in SUBSET Calls, NEW cr \in Calls \cup {NULL},
           call' = [call EXCEPT ![c] = k],
           file' = [file EXCEPT ![h] = f], writers' = [writers EXCEPT ![h] = ws],
           creator' = [creator EXCEPT ![h] = cr], UNCHANGED <<row, lost>>,
           faults' = faults \/ faults' = faults + 1,
           torn' \subseteq Hashes, torn' \ {h} = torn \ {h},
           f # file[h] => f # "absent",
           f = "partial" /\ h \notin FromBytes => f = file[h],
           f = "partial" => cr \in ws \/ h \in torn',
           k # Idle /\ k.op \in {"insert", "write"} =>
             f # "absent" \/ call[c].op \in {"insert", "write"}
    PROVE  IInv'
<1>1. PICK r \in Types \cup {NULL} : r = row[h]
  BY DEF IInv, TypeOK, Steps
<1>2. row' = [row EXCEPT ![h] = r]
  BY <1>1 DEF IInv, TypeOK
<1>3. r # NULL /\ row[h] = NULL => call[c].op = "insert"
  BY <1>1
<1>4. UNCHANGED lost
  OBVIOUS
<1> QED
  BY <1>2, <1>3, <1>4, CallStepInv

LEMMA CreateInv ==
    ASSUME IInv, NEW c \in Calls, CreateFile(c)
    PROVE  IInv'
<1>1. PICK k, h : k = call[c] /\ h = k.hash
  OBVIOUS
<1>2. k \in Steps /\ StepOK(k) /\ k.op = "create" /\ h \in FromBytes /\ h \in Hashes
  BY <1>1, Busy DEF CreateFile, IInv, TypeOK, CallsOK, Idle, StepOK, Steps
<1>3. PICK k2 : k2 = [k EXCEPT !.op = "write"]
  OBVIOUS
<1>4. k2 \in Steps /\ k2.hash = h /\ k2.op = "write" /\ StepOK(k2)
  BY <1>1, <1>2, <1>3 DEF Steps, StepOK
<1>5. call' = [call EXCEPT ![c] = k2]
  BY <1>1, <1>3 DEF CreateFile, Goto, IInv, TypeOK
<1>6. PICK ws \in SUBSET Calls, f \in Contents :
        ws = writers[h] \cup {c} /\ f = "partial"
  BY <1>2 DEF IInv, TypeOK, Contents
<1>7. /\ file' = [file EXCEPT ![h] = f] /\ writers' = [writers EXCEPT ![h] = ws]
      /\ creator' = [creator EXCEPT ![h] = c] /\ UNCHANGED <<row, lost>>
      /\ faults' = faults /\ torn' \subseteq Hashes /\ torn' \ {h} = torn \ {h}
  BY <1>1, <1>2, <1>6 DEF CreateFile, IInv, TypeOK
<1> QED
  BY <1>1, <1>2, <1>4, <1>5, <1>6, <1>7, FileInv

LEMMA WriteInv ==
    ASSUME IInv, NEW c \in Calls, WriteFile(c)
    PROVE  IInv'
<1>1. PICK k, h : k = call[c] /\ h = k.hash
  OBVIOUS
<1>2. k \in Steps /\ StepOK(k) /\ k.op = "write" /\ h \in FromBytes /\ h \in Hashes
  BY <1>1, Busy DEF WriteFile, IInv, TypeOK, CallsOK, Idle, StepOK, Steps
<1>3. PICK k2 \in Steps \cup {Idle} :
        /\ call' = [call EXCEPT ![c] = k2]
        /\ k2 # Idle => k2.hash = k.hash /\ StepOK(k2) /\ k2.op = "insert"
  BY <1>1, <1>2, PlacedStep DEF WriteFile
<1>4. PICK f \in Contents :
        /\ file' = [file EXCEPT ![h] = f]
        /\ f # file[h] => f = "whole"
        /\ c \in writers[h] /\ creator[h] = c => f = "whole"
  BY <1>1, <1>2 DEF WriteFile, IInv, TypeOK, Contents
<1>5. PICK ws \in SUBSET Calls, cr \in Calls \cup {NULL} :
        ws = writers[h] \ {c} /\ cr = creator[h]
  BY <1>2 DEF IInv, TypeOK
<1>6. /\ writers' = [writers EXCEPT ![h] = ws]
      /\ creator' = [creator EXCEPT ![h] = cr] /\ UNCHANGED <<row, lost>>
      /\ faults' = faults /\ torn' = torn /\ torn' \subseteq Hashes
  BY <1>1, <1>2, <1>5 DEF WriteFile, IInv, TypeOK
<1>7. f = "partial" => cr \in ws \/ h \in torn'
  BY <1>2, <1>4, <1>5, <1>6 DEF IInv, WrittenOK
<1> QED
  BY <1>1, <1>2, <1>3, <1>4, <1>6, <1>7, FileInv

LEMMA RenameInv ==
    ASSUME IInv, NEW c \in Calls, Rename(c)
    PROVE  IInv'
<1>1. PICK k, h : k = call[c] /\ h = k.hash
  OBVIOUS
<1>2. k \in Steps /\ StepOK(k) /\ k.op = "rename"
  BY <1>1, Busy DEF Rename, IInv, TypeOK, CallsOK, Idle
<1>3. PICK k2 \in Steps \cup {Idle} :
        /\ call' = [call EXCEPT ![c] = k2]
        /\ k2 # Idle => k2.hash = k.hash /\ StepOK(k2) /\ k2.op = "insert"
  BY <1>1, <1>2, PlacedStep DEF Rename
<1>4. PICK f \in Contents, ws \in SUBSET Calls, cr \in Calls \cup {NULL} :
        f = "whole" /\ ws = {} /\ cr = NULL
  BY DEF Contents
<1>5. /\ file' = [file EXCEPT ![h] = f] /\ writers' = [writers EXCEPT ![h] = ws]
      /\ creator' = [creator EXCEPT ![h] = cr] /\ UNCHANGED <<row, lost>>
      /\ faults' = faults /\ torn' \subseteq Hashes /\ torn' \ {h} = torn \ {h}
  BY <1>1, <1>4 DEF Rename, IInv
<1> QED
  BY <1>1, <1>2, <1>3, <1>4, <1>5, FileInv

\* A step that changes the row alone.
LEMMA RowInv ==
    ASSUME IInv, NEW c \in Calls, call[c] \in Steps, NEW h, h = call[c].hash,
           NEW k \in Steps \cup {Idle}, k # Idle => k.hash = h /\ StepOK(k),
           NEW r \in Types \cup {NULL},
           call' = [call EXCEPT ![c] = k], row' = [row EXCEPT ![h] = r],
           UNCHANGED <<files, faults, lost>>,
           r # NULL /\ row[h] = NULL => call[c].op = "insert",
           k # Idle => k.op \notin {"insert", "write"}
    PROVE  IInv'
<1>1. PICK f \in Contents, ws \in SUBSET Calls, cr \in Calls \cup {NULL} :
        f = file[h] /\ ws = writers[h] /\ cr = creator[h]
  BY DEF IInv, TypeOK, Steps, Contents
<1>2. /\ file' = [file EXCEPT ![h] = f] /\ writers' = [writers EXCEPT ![h] = ws]
      /\ creator' = [creator EXCEPT ![h] = cr]
      /\ faults' = faults \/ faults' = faults + 1
      /\ UNCHANGED lost /\ torn' = torn /\ torn' \subseteq Hashes
  BY <1>1 DEF IInv, TypeOK, files
<1>3. f = "partial" => cr \in ws \/ h \in torn'
  BY <1>1, <1>2 DEF IInv, WrittenOK, Steps
<1>4. /\ f # file[h] => f # "absent"
      /\ f = "partial" /\ h \notin FromBytes => f = file[h]
      /\ k # Idle /\ k.op \in {"insert", "write"} =>
           f # "absent" \/ call[c].op \in {"insert", "write"}
  BY <1>1
<1> QED
  BY <1>2, <1>3, <1>4, CallStepInv

LEMMA UpdateInv ==
    ASSUME IInv, NEW c \in Calls, UpdateType(c)
    PROVE  IInv'
<1>1. PICK k, h : k = call[c] /\ h = k.hash
  OBVIOUS
<1>2. k \in Steps /\ StepOK(k) /\ k.op = "update"
  BY <1>1, Busy DEF UpdateType, IInv, TypeOK, CallsOK, Idle
<1>3. PICK k2 : k2 = [k EXCEPT !.op = "restore"]
  OBVIOUS
<1>4. k2 \in Steps /\ k2.hash = h /\ k2.op = "restore" /\ StepOK(k2)
  BY <1>1, <1>2, <1>3 DEF Steps, StepOK
<1>5. call' = [call EXCEPT ![c] = k2]
  BY <1>1, <1>3 DEF UpdateType, Goto, IInv, TypeOK
<1>6. PICK r \in Types \cup {NULL} : r = IF row[h] = OtherType THEN k.type ELSE row[h]
  BY <1>1, <1>2 DEF IInv, TypeOK, Steps
<1>7. row' = [row EXCEPT ![h] = r]
  BY <1>1, <1>2, <1>6 DEF UpdateType, SetType, IInv, TypeOK, Steps
<1>8. r # NULL => row[h] # NULL
  BY <1>6, TypesAssumption
<1> QED
  BY <1>1, <1>2, <1>4, <1>5, <1>7, <1>8, RowInv DEF UpdateType

LEMMA InsertInv ==
    ASSUME IInv, NEW c \in Calls, insert_record(c)
    PROVE  IInv'
<1>1. PICK k, h : k = call[c] /\ h = k.hash
  OBVIOUS
<1>2. k \in Steps /\ StepOK(k) /\ k.op = "insert"
  BY <1>1, Busy DEF insert_record, IInv, TypeOK, CallsOK, Idle
<1>3. PICK r \in Types \cup {NULL} : r = IF row[h] = NULL THEN k.type ELSE row[h]
  BY <1>1, <1>2 DEF IInv, TypeOK, Steps
<1>4. row' = [row EXCEPT ![h] = r]
  BY <1>1, <1>2, <1>3 DEF insert_record, IInv, TypeOK, Steps
<1> QED
  BY <1>1, <1>2, <1>4, RowInv DEF insert_record, Return
-----------------------------------------------------------------------------
(* Faults *)

LEMMA CallFailsInv ==
    ASSUME IInv, NEW c \in Calls, CallFails(c)
    PROVE  IInv'
<1>1. PICK k, h : k = call[c] /\ h = k.hash
  OBVIOUS
<1>2. k \in Steps /\ StepOK(k) /\ h \in Hashes
  BY <1>1, Busy DEF CallFails, IInv, TypeOK, CallsOK, Idle, Steps
<1>3. PICK f \in Contents, ws \in SUBSET Calls, cr \in Calls \cup {NULL} :
        f = file[h] /\ ws = writers[h] \ {c} /\ cr = creator[h]
  BY <1>2 DEF IInv, TypeOK, Contents
<1>4. /\ file' = [file EXCEPT ![h] = f] /\ writers' = [writers EXCEPT ![h] = ws]
      /\ creator' = [creator EXCEPT ![h] = cr] /\ UNCHANGED <<row, lost>>
      /\ call' = [call EXCEPT ![c] = Idle]
  BY <1>1, <1>2, <1>3 DEF CallFails, Return, IInv, TypeOK
<1>5. /\ faults' = faults \/ faults' = faults + 1
      /\ torn' \subseteq Hashes /\ torn' \ {h} = torn \ {h}
      /\ torn' = IF cr = c /\ c \in writers[h] THEN torn \cup {h} ELSE torn
  BY <1>1, <1>2, <1>3 DEF CallFails, Fault, IInv
<1>6. f = "partial" => cr \in ws \/ h \in torn'
  BY <1>2, <1>3, <1>5 DEF IInv, WrittenOK
<1> QED
  BY <1>1, <1>2, <1>3, <1>4, <1>5, <1>6, FileInv

LEMMA CrashInv == IInv /\ Crash => IInv'
<1> SUFFICES ASSUME IInv, Crash PROVE IInv'
  OBVIOUS
<1>1. UNCHANGED <<file, creator, row, lost>> /\ \A c \in Calls : call'[c] = Idle
  BY DEF Crash
<1>2. faults' \in Nat /\ (torn \subseteq Hashes)'
  BY DEF Crash, Fault, IInv
<1>3. TypeOK'
  BY DEF Crash, IInv, TypeOK
<1>4. ASSUME NEW h \in Hashes
      PROVE  (RenamedOK(h) => RenamedOK(h)') /\ (WrittenOK(h) => WrittenOK(h)')
  <2>1. creator[h] \in writers[h] \/ h \in torn => h \in torn'
    BY DEF Crash
  <2> QED
    BY <1>1, <2>1 DEF RenamedOK, WrittenOK
<1> QED
  BY <1>1, <1>2, <1>3, <1>4 DEF IInv, CallsOK

LEMMA RemovedInv ==
    ASSUME IInv, NEW h \in Hashes, FileRemoved(h)
    PROVE  IInv'
<1>1. UNCHANGED <<creator, row, call, torn>> /\ lost' = lost \cup {h}
  BY DEF FileRemoved
<1>2. faults' \in Nat /\ (torn \subseteq Hashes)'
  BY DEF FileRemoved, Fault, IInv
<1>3. TypeOK'
  BY DEF FileRemoved, IInv, TypeOK
<1>4. ASSUME NEW g \in Hashes
      PROVE  (RenamedOK(g) => RenamedOK(g)') /\ (WrittenOK(g) => WrittenOK(g)')
  <2>1. /\ file'[h] = "absent"
        /\ \A i \in Hashes \ {h} : file'[i] = file[i] /\ writers'[i] = writers[i]
    BY DEF FileRemoved, IInv, TypeOK
  <2> QED
    BY <1>1, <2>1 DEF RenamedOK, WrittenOK
<1> QED
  BY <1>1, <1>2, <1>3, <1>4 DEF IInv, CallsOK

LEMMA NextInv == IInv /\ [Next]_vars => IInv'
<1> SUFFICES ASSUME IInv, [Next]_vars PROVE IInv'
  OBVIOUS
<1>1. ASSUME NEW c \in Calls, CallStep(c) PROVE IInv'
  <2>1. ASSUME NEW h \in Hashes, NEW t \in Types, import_bytes(c, h, t) PROVE IInv'
    BY <2>1, BeginInv DEF import_bytes
  <2>2. ASSUME NEW h \in Hashes, NEW t \in Types, import_file(c, h, t) PROVE IInv'
    BY <2>2, BeginInv DEF import_file
  <2> QED
    BY <1>1, <2>1, <2>2, FindInv, UpdateInv, RestoreInv, PlaceInv, CreateInv, WriteInv,
       RenameInv, RefusedInv, InsertInv DEF CallStep
<1>2. CASE UNCHANGED vars
  BY <1>2 DEF vars, files, IInv, TypeOK, CallsOK, RenamedOK, WrittenOK
<1> QED
  BY <1>1, <1>2, CallFailsInv, CrashInv, RemovedInv DEF Next

THEOREM Invariant == Spec => []IInv
BY InitInv, NextInv, PTL DEF Spec
-----------------------------------------------------------------------------
\* An artifact that only ever comes from files has its whole file as soon as it has a
\* row, for any calls, crashes and failing steps.
THEOREM RenamedAreWhole == Spec => []RenamedIsWhole
<1>1. IInv => RenamedIsWhole
  BY DEF IInv, RenamedOK, RenamedIsWhole, Whole
<1> QED
  BY <1>1, Invariant, PTL

\* A registered file that is not whole is being written by the call that emptied it, or
\* that call was cut short, however many calls import it from wherever, and whatever
\* else fails.
THEOREM PartialAreWritten == Spec => []PartialIsWritten
<1>1. IInv => PartialIsWritten
  BY DEF IInv, TypeOK, WrittenOK, PartialIsWritten, Whole
<1> QED
  BY <1>1, Invariant, PTL

\* No call, however long ago it read the row, changes a type that is settled.
THEOREM TypesSettle == Spec => TypeSettled
<1>1. ASSUME IInv, [Next]_vars, NEW h \in Hashes, row[h] \notin {NULL, OtherType}
      PROVE  row'[h] = row[h]
  <2>1. CASE UNCHANGED row
    BY <2>1
  <2>2. ASSUME NEW c \in Calls, UpdateType(c) PROVE row'[h] = row[h]
    BY <1>1, <2>2 DEF UpdateType, SetType, IInv, TypeOK
  <2>3. ASSUME NEW c \in Calls, insert_record(c) PROVE row'[h] = row[h]
    BY <1>1, <2>3 DEF insert_record, IInv, TypeOK
  <2> QED
    BY <1>1, <2>1, <2>2, <2>3
       DEF Next, CallStep, vars, import_bytes, import_file, Begin, find_existing,
           restore_existing, Place, CreateFile, WriteFile, Rename, RenameRefused,
           CallFails, Crash, FileRemoved
<1>2. IInv /\ [Next]_vars =>
        [\A h \in Hashes : row[h] \notin {NULL, OtherType} => row'[h] = row[h]]_vars
  BY <1>1
<1> QED
  BY <1>2, Invariant, PTL DEF Spec, TypeSettled

\* A call that returns a row it has found leaves a file behind, or has just written
\* one that was lost again.
THEOREM FoundHaveFiles == Spec => FoundHasFile
<1>1. ASSUME IInv, [Next]_vars, NEW c \in Calls,
             call[c] # Idle, call[c].found, call'[c] = Idle, faults' = faults
      PROVE  file'[call[c].hash] # "absent" \/ call[c].op = "write"
  <2>1. call[c] \in Steps /\ StepOK(call[c]) /\ faults \in Nat
    BY <1>1 DEF IInv, TypeOK, CallsOK
  <2>2. PICK d \in Calls : CallStep(d)
    BY <1>1, <2>1 DEF Next, vars, CallFails, Crash, FileRemoved, Fault
  <2>3. d = c
    <3>1. CASE \/ \E h \in Hashes, t \in Types : import_bytes(d, h, t) \/ import_file(d, h, t)
               \/ find_existing(d) \/ UpdateType(d)
      BY <1>1, <3>1
         DEF import_bytes, import_file, Begin, find_existing, UpdateType, Goto, IInv, TypeOK
    <3>2. CASE restore_existing(d) \/ Place(d) \/ CreateFile(d)
      BY <1>1, <3>2 DEF restore_existing, Place, CreateFile, Goto, Return, IInv, TypeOK
    <3>3. CASE WriteFile(d) \/ Rename(d) \/ RenameRefused(d) \/ insert_record(d)
      BY <1>1, <3>3
         DEF WriteFile, Rename, RenameRefused, insert_record, Placed, Goto, Return, IInv,
             TypeOK
    <3> QED
      BY <2>2, <3>1, <3>2, <3>3 DEF CallStep
  <2>4. CASE restore_existing(c)
    BY <1>1, <2>1, <2>4
       DEF restore_existing, Exists, files, Goto, IInv, TypeOK, Steps, Idle
  <2>5. CASE Rename(c) \/ RenameRefused(c)
    BY <1>1, <2>1, <2>5 DEF Rename, RenameRefused, Exists, files, IInv, TypeOK, Steps
  <2>6. CASE WriteFile(c)
    BY <2>6 DEF WriteFile
  <2>7. CASE \/ find_existing(c) \/ UpdateType(c) \/ Place(c) \/ CreateFile(c)
             \/ insert_record(c)
    BY <1>1, <2>1, <2>7
       DEF find_existing, UpdateType, Place, CreateFile, insert_record, Goto, StepOK,
           IInv, TypeOK, Steps, Idle
  <2> QED
    BY <1>1, <2>2, <2>3, <2>4, <2>5, <2>6, <2>7
       DEF CallStep, import_bytes, import_file, Begin
<1>2. IInv /\ [Next]_vars =>
        [\A c \in Calls :
           (call[c] # Idle /\ call[c].found /\ call'[c] = Idle /\ faults' = faults)
             => \/ file'[call[c].hash] # "absent"
                \/ call[c].op = "write"]_vars
  BY <1>1
<1> QED
  BY <1>2, Invariant, PTL DEF Spec, FoundHasFile
=============================================================================
