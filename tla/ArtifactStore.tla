--------------------------- MODULE ArtifactStore ---------------------------
(***************************************************************************)
(* src/core/src/artifact_store.rs: files that are named by the hash of     *)
(* their content, beside table artifacts with one row per hash. A file of  *)
(* the user, an output of a worker and a download are written to a         *)
(* temporary file first and renamed (import_file_with_metadata and         *)
(* download_http); bytes in memory are written in place                    *)
(* (import_bytes_with_metadata). Every look at the file system and every   *)
(* statement is a step, and calls run concurrently.                        *)
(*                                                                         *)
(* A temporary file belongs to one call and has a name of its own, so no   *)
(* other call sees it and it is not in the state. Of a row only the        *)
(* logical type matters, which stands for the source written with it.      *)
(***************************************************************************)
EXTENDS Naturals

CONSTANTS Hashes,     \* contents
          Types,      \* logical types, OtherType among them
          OtherType,  \* OTHER: not said what the artifact is
          Calls,      \* tasks that import
          FromBytes,  \* the contents that are imported from memory
          FromFiles,  \* the contents that are imported from files
          MaxFaults,  \* bound on failed steps, stops of the Core, lost files
          NULL

ASSUME TypesAssumption == OtherType \in Types /\ NULL \notin Types

VARIABLES file,     \* [Hashes -> {"absent", "partial", "whole"}]: at the hash's path
          writers,  \* [Hashes -> SUBSET Calls]: who is writing that very file
          creator,  \* [Hashes -> Calls \cup {NULL}]: who created or emptied it last
          row,      \* [Hashes -> Types \cup {NULL}]: table artifacts
          call,     \* [Calls -> where the call stands]
          faults,
          lost,     \* history: contents whose file somebody has removed
          torn      \* history: contents whose file a call has emptied and not completed

files == <<file, writers, creator, torn>>
vars == <<file, writers, creator, row, call, faults, lost, torn>>

Idle == [op |-> "idle"]

Steps == [op : {"find", "update", "restore", "place", "create", "write", "rename",
                "insert"},
          hash : Hashes, type : Types, bytes : BOOLEAN, found : BOOLEAN]

Init ==
    /\ file = [h \in Hashes |-> "absent"]
    /\ writers = [h \in Hashes |-> {}]
    /\ creator = [h \in Hashes |-> NULL]
    /\ row = [h \in Hashes |-> NULL]
    /\ call = [c \in Calls |-> Idle]
    /\ faults = 0
    /\ lost = {} /\ torn = {}

Goto(c, op) == call' = [call EXCEPT ![c].op = op]
Return(c) == call' = [call EXCEPT ![c] = Idle]

\* What follows once the file is in place: a row that was found is the answer.
Placed(c) == IF call[c].found THEN Return(c) ELSE Goto(c, "insert")
-----------------------------------------------------------------------------
\* The hash of the bytes, or of the temporary file written from the source.
Begin(c, h, t, bytes) ==
    /\ call[c] = Idle
    /\ call' = [call EXCEPT ![c] = [op |-> "find", hash |-> h, type |-> t,
                                    bytes |-> bytes, found |-> FALSE]]
    /\ UNCHANGED <<files, row, faults, lost>>

import_bytes(c, h, t) == h \in FromBytes /\ Begin(c, h, t, TRUE)
import_file(c, h, t) == h \in FromFiles /\ Begin(c, h, t, FALSE)

\* find_by_hash. A row that has no type yet is given this call's.
find_existing(c) ==
    LET found == row[call[c].hash] IN
    /\ call[c].op = "find"
    /\ call' = [call EXCEPT
                  ![c].found = found # NULL,
                  ![c].op = IF found = NULL THEN "place"
                            ELSE IF found = OtherType /\ call[c].type # OtherType THEN "update"
                            ELSE "restore"]
    /\ UNCHANGED <<files, row, faults, lost>>

\* Mutant of SetType: the WHERE clause has only the id.
SetTypeAlways(h, t) == row' = [row EXCEPT ![h] = t]

\* UPDATE ... WHERE logical_type = 'OTHER'.
SetType(h, t) == row' = [row EXCEPT ![h] = IF @ = OtherType THEN t ELSE @]

UpdateType(c) ==
    /\ call[c].op = "update"
    /\ SetType(call[c].hash, call[c].type)
    /\ Goto(c, "restore")
    /\ UNCHANGED <<files, faults, lost>>

Exists(h) == file[h] # "absent"

\* Mutant of restore_existing: a row is taken for its file.
restore_existing_never(c) ==
    /\ call[c].op = "restore"
    /\ Return(c)
    /\ UNCHANGED <<files, row, faults, lost>>

\* restore_existing_from_bytes and restore_existing_from_temp.
restore_existing(c) ==
    /\ call[c].op = "restore"
    /\ IF Exists(call[c].hash) THEN Return(c)
       ELSE Goto(c, IF call[c].bytes THEN "create" ELSE "rename")
    /\ UNCHANGED <<files, row, faults, lost>>

\* Mutant of Place: the row is written before the file.
PlaceLater(c) ==
    /\ call[c].op = "place"
    /\ Goto(c, IF call[c].bytes /\ ~Exists(call[c].hash) THEN "create" ELSE "insert")
    /\ UNCHANGED <<files, row, faults, lost>>

\* Bytes are written unless there is a file; a temporary file is renamed anyway.
Place(c) ==
    /\ call[c].op = "place"
    /\ IF call[c].bytes
       THEN Goto(c, IF Exists(call[c].hash) THEN "insert" ELSE "create")
       ELSE Goto(c, "rename")
    /\ UNCHANGED <<files, row, faults, lost>>
-----------------------------------------------------------------------------
\* fs::write creates the file, or empties the one that is there by now.
CreateFile(c) ==
    LET h == call[c].hash IN
    /\ call[c].op = "create"
    /\ file' = [file EXCEPT ![h] = "partial"]
    /\ writers' = [writers EXCEPT ![h] = @ \cup {c}]
    /\ creator' = [creator EXCEPT ![h] = c]
    /\ torn' = torn \ {h}
    /\ Goto(c, "write")
    /\ UNCHANGED <<row, faults, lost>>

\* Then it writes all bytes from the start, into a file that may have got another
\* name's place meanwhile. The file is whole when the call that emptied it last is
\* through; what an earlier writer leaves depends on how far it was by then.
WriteFile(c) ==
    LET h == call[c].hash IN
    /\ call[c].op = "write"
    /\ IF c \in writers[h]
       THEN \E after \in {file[h], "whole"} :
              /\ creator[h] = c => after = "whole"
              /\ file' = [file EXCEPT ![h] = after]
       ELSE UNCHANGED file
    /\ writers' = [writers EXCEPT ![h] = @ \ {c}]
    /\ Placed(c)
    /\ UNCHANGED <<creator, row, faults, lost, torn>>

\* rename replaces the file at the path, whoever is writing it.
Rename(c) ==
    LET h == call[c].hash IN
    /\ call[c].op = "rename"
    /\ file' = [file EXCEPT ![h] = "whole"]
    /\ writers' = [writers EXCEPT ![h] = {}]
    /\ creator' = [creator EXCEPT ![h] = NULL]
    /\ torn' = torn \ {h}
    /\ Placed(c)
    /\ UNCHANGED <<row, faults, lost>>

\* Or it is refused, because another call has the file open: the temporary file is
\* dropped.
RenameRefused(c) ==
    /\ call[c].op = "rename"
    /\ Exists(call[c].hash)
    /\ Placed(c)
    /\ UNCHANGED <<files, row, faults, lost>>

\* INSERT ... ON CONFLICT DO NOTHING; the row that is there now is the answer.
insert_record(c) ==
    LET h == call[c].hash IN
    /\ call[c].op = "insert"
    /\ row' = [row EXCEPT ![h] = IF @ = NULL THEN call[c].type ELSE @]
    /\ Return(c)
    /\ UNCHANGED <<files, faults, lost>>
-----------------------------------------------------------------------------
Fault == faults < MaxFaults /\ faults' = faults + 1

\* A statement or a write fails (the disk is full): the call returns the error, and
\* what is written stays. A look at the file system that fails counts as no file, and
\* a rename that fails over a file is refused only.
CallFails(c) ==
    LET h == call[c].hash IN
    /\ Fault
    /\ call[c].op \in {"find", "update", "create", "write", "rename", "insert"}
    /\ call[c].op = "rename" => ~Exists(h)
    /\ writers' = [writers EXCEPT ![h] = @ \ {c}]
    /\ torn' = IF creator[h] = c /\ c \in writers[h] THEN torn \cup {h} ELSE torn
    /\ Return(c)
    /\ UNCHANGED <<file, creator, row, lost>>

\* The Core stops. Files stay as they are.
Crash ==
    /\ Fault
    /\ call' = [c \in Calls |-> Idle]
    /\ writers' = [h \in Hashes |-> {}]
    /\ torn' = torn \cup {h \in Hashes : creator[h] \in writers[h]}
    /\ UNCHANGED <<file, creator, row, lost>>

\* Somebody removes a file that has a row.
FileRemoved(h) ==
    /\ Fault
    /\ row[h] # NULL /\ Exists(h)
    /\ file' = [file EXCEPT ![h] = "absent"]
    /\ writers' = [writers EXCEPT ![h] = {}]
    /\ lost' = lost \cup {h}
    /\ UNCHANGED <<creator, row, call, torn>>

CallStep(c) ==
    \/ \E h \in Hashes, t \in Types : import_bytes(c, h, t) \/ import_file(c, h, t)
    \/ find_existing(c) \/ UpdateType(c) \/ restore_existing(c) \/ Place(c)
    \/ CreateFile(c) \/ WriteFile(c)
    \/ Rename(c) \/ RenameRefused(c)
    \/ insert_record(c)

Next ==
    \/ \E c \in Calls : CallStep(c) \/ CallFails(c)
    \/ Crash
    \/ \E h \in Hashes : FileRemoved(h)

Spec == Init /\ [][Next]_vars
-----------------------------------------------------------------------------
TypeOK ==
    /\ file \in [Hashes -> {"absent", "partial", "whole"}]
    /\ writers \in [Hashes -> SUBSET Calls]
    /\ creator \in [Hashes -> Calls \cup {NULL}]
    /\ row \in [Hashes -> Types \cup {NULL}]
    /\ call \in [Calls -> Steps \cup {Idle}]

\* The file of a row is complete, if it was not taken away.
Whole(h) == row[h] # NULL => file[h] = "whole" \/ h \in lost

\* Safety: an artifact that is imported from files only has its whole file as soon as
\* it has a row, though calls import the same content at once and the Core stops
\* between any two steps.
RenamedIsWhole == \A h \in Hashes \ FromBytes : Whole(h)

\* Safety: a registered file that is not whole is being written by the call that
\* emptied it last, or that call was cut short, by an error or a stop: no other order
\* of calls, and no other fault, lets a part of a file be taken for all of it.
PartialIsWritten ==
    \A h \in Hashes : row[h] # NULL /\ ~Whole(h) => creator[h] \in writers[h] \/ h \in torn

\* Action: the type of an artifact, and with it its source, is settled once: calls
\* that read OTHER a while ago do not overwrite what another has settled.
TypeSettled ==
    [][\A h \in Hashes : row[h] \notin {NULL, OtherType} => row'[h] = row[h]]_vars

\* Action: a call that returns an artifact it found in the table has seen to its
\* file: one that was lost is back, unless it is lost again while the call writes it.
FoundHasFile ==
    [][\A c \in Calls :
         (call[c] # Idle /\ call[c].found /\ call'[c] = Idle /\ faults' = faults)
           => \/ file'[call[c].hash] # "absent"
              \/ call[c].op = "write"]_vars
=============================================================================
