------------------------------- MODULE NFCTag -------------------------------
(***************************************************************************)
(* NFCTag of joycontrol/nfc_tag.py and process_nfc_write() of              *)
(* joycontrol/mcu.py: an amiibo dump in memory, the file it was loaded     *)
(* from and the backups beside that file.                                  *)
(*                                                                         *)
(* process_nfc_write() never awaits, so other tasks cannot come between    *)
(* its steps, but the file system can: any of its file operations may      *)
(* fail, and the program may be killed during one and started again.  The  *)
(* bytes of a dump are abstracted to a content.                            *)
(***************************************************************************)
EXTENDS FiniteSets

CONSTANTS
    Files,     \* the amiibo dumps the user loads
    Contents,  \* what a dump may contain
    Cut,       \* the content of a file whose writing was cut short
    NoTag,     \* set_nfc(None)
    IOFails    \* whether file operations may fail

(* What the constants are; MCU, which instantiates this module, assumes as *)
(* much of its own.                                                        *)
NFCTagAssumption ==
    /\ Cut \notin Contents
    /\ IOFails \in BOOLEAN

VARIABLES
    tag,      \* the tag on the controller: its source, data and mutable
    disk,     \* what each file contains
    backups,  \* what the backups of each file contain
    held      \* what each file has ever contained

vars == <<tag, disk, backups, held>>

Tags == [source : Files, data : Contents \cup {Cut}, mutable : BOOLEAN]

Init ==
    /\ tag = NoTag
    /\ disk \in [Files -> Contents]
    /\ backups = [f \in Files |-> {}]
    /\ held = [f \in Files |-> {disk[f]}]

(* The nfc command of the application.                                     *)
LoadAmiibo(f) ==
    /\ tag' = [source |-> f, data |-> disk[f], mutable |-> FALSE]
    /\ UNCHANGED <<disk, backups, held>>

(* set_nfc(None); also the program is started again, after a write it was  *)
(* killed in left the files as a failure does.                             *)
RemoveNfc ==
    /\ tag' = NoTag
    /\ UNCHANGED <<disk, backups, held>>

(* create_backup(): a path that does not exist yet, so no backup is ever   *)
(* overwritten; it gets the data in memory.                                *)
Backup(c) == backups' = [backups EXCEPT ![tag.source] = @ \cup {c}]

(* save(): opening the file empties it.                                    *)
Save(c) ==
    /\ disk' = [disk EXCEPT ![tag.source] = c]
    /\ held' = [held EXCEPT ![tag.source] = @ \cup {c}]

(* Faulty: a tag that is mutable already is not backed up again. *)
WriteTagBackedUpOnce(c) ==
    /\ tag # NoTag
    /\ IF tag.mutable THEN UNCHANGED backups ELSE Backup(tag.data)
    /\ tag' = [tag EXCEPT !.data = c, !.mutable = TRUE]
    /\ Save(c)

(* process_nfc_write() of a command that makes the data c.  A tag that is  *)
(* mutable is backed up; one that is not becomes so, which backs it up.    *)
WriteTag(c) ==
    /\ tag # NoTag
    /\ Backup(tag.data)
    /\ tag' = [tag EXCEPT !.data = c, !.mutable = TRUE]
    /\ Save(c)

(* The backup fails: the exception ends the task before it wrote anything. *)
BackupFails ==
    /\ IOFails /\ tag # NoTag
    /\ UNCHANGED backups \/ Backup(Cut)
    /\ UNCHANGED <<tag, disk, held>>

(* save() fails, before or after it emptied the file.                      *)
SaveFails(c) ==
    /\ IOFails /\ tag # NoTag
    /\ Backup(tag.data)
    /\ tag' = [tag EXCEPT !.data = c, !.mutable = TRUE]
    /\ UNCHANGED <<disk, held>> \/ Save(Cut)

Next ==
    \/ \E f \in Files : LoadAmiibo(f)
    \/ RemoveNfc
    \/ \E c \in Contents : WriteTag(c) \/ SaveFails(c)
    \/ BackupFails

Spec == Init /\ [][Next]_vars

----------------------------------------------------------------------------
(* The types.                                                              *)
TypeOK ==
    /\ tag \in Tags \cup {NoTag}
    /\ disk \in [Files -> Contents \cup {Cut}]
    /\ backups \in [Files -> SUBSET (Contents \cup {Cut})]
    /\ held \in [Files -> SUBSET (Contents \cup {Cut})]

(* Nothing a file ever contained is lost, through any number of writes,    *)
(* failures, reloads and restarts: it is still there, or in a backup       *)
(* (set_mutable() and create_backup(): "to prevent corruption").           *)
NoContentLost ==
    \A f \in Files : held[f] \ {Cut} \subseteq backups[f] \cup {disk[f]}

(* Only the tag on the controller runs ahead of its file, and then what it *)
(* was before is safe: it takes a failed save() to get there.              *)
FileBehindTag ==
    tag # NoTag =>
        \/ disk[tag.source] \in {tag.data, Cut}
        \/ disk[tag.source] \in backups[tag.source]
=============================================================================
