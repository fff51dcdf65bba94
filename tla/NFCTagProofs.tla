---------------------------- MODULE NFCTagProofs ----------------------------
(***************************************************************************)
(* Proofs about NFCTag: its types, and that no content of a file is lost.  *)
(*                                                                         *)
(* NoContentLost is not inductive by itself: a write replaces what the     *)
(* file contains after it backed up what the memory contains, and these    *)
(* differ once a save has failed.  FileBehindTag says that then the file's *)
(* content is in a backup already; LatestHeld says that what a file        *)
(* contains is among what it ever contained.                               *)
(***************************************************************************)
EXTENDS NFCTag, TLAPS

LatestHeld == \A f \in Files : disk[f] \in held[f]

Inv == TypeOK /\ FileBehindTag /\ NoContentLost /\ LatestHeld

(* A tag on the controller has the types of its record.                    *)
LEMMA TagHasSource ==
    ASSUME TypeOK, tag # NoTag
    PROVE  /\ tag \in Tags
           /\ tag.source \in Files
           /\ tag.data \in Contents \cup {Cut}
BY DEF TypeOK, Tags

(* A backup of the data in memory, before anything else changes.           *)
LEMMA BackupGrows ==
    ASSUME TypeOK, tag # NoTag, NEW c \in Contents \cup {Cut}, Backup(c)
    PROVE  /\ backups' \in [Files -> SUBSET (Contents \cup {Cut})]
           /\ \A f \in Files : backups[f] \subseteq backups'[f]
           /\ c \in backups'[tag.source]
BY TagHasSource DEF TypeOK, Backup

(* A save of c to the file of the tag.                                     *)
LEMMA SaveReplaces ==
    ASSUME TypeOK, tag # NoTag, NEW c \in Contents \cup {Cut}, Save(c)
    PROVE  /\ disk' \in [Files -> Contents \cup {Cut}]
           /\ held' \in [Files -> SUBSET (Contents \cup {Cut})]
           /\ disk'[tag.source] = c
           /\ held'[tag.source] = held[tag.source] \cup {c}
           /\ \A f \in Files \ {tag.source} : disk'[f] = disk[f] /\ held'[f] = held[f]
BY TagHasSource DEF TypeOK, Save

(* The tag after a write.                                                  *)
LEMMA TagIsWritten ==
    ASSUME TypeOK, tag # NoTag, NEW c \in Contents,
           tag' = [tag EXCEPT !.data = c, !.mutable = TRUE]
    PROVE  /\ tag' \in Tags
           /\ tag'.source = tag.source
           /\ tag'.data = c
BY TagHasSource DEF Tags

LEMMA Initially == ASSUME NFCTagAssumption PROVE Init => Inv
BY DEF NFCTagAssumption, Init, Inv, TypeOK, FileBehindTag, NoContentLost, LatestHeld

LEMMA Loading ==
    ASSUME Inv, NEW f \in Files, LoadAmiibo(f)
    PROVE  Inv'
<1>1. tag' \in Tags /\ tag'.source = f /\ tag'.data = disk[f]
  BY DEF LoadAmiibo, Inv, TypeOK, Tags
<1>2. UNCHANGED <<disk, backups, held>>
  BY DEF LoadAmiibo
<1> QED
  BY <1>1, <1>2 DEF Inv, TypeOK, FileBehindTag, NoContentLost, LatestHeld

(* The step that needs FileBehindTag: the file is overwritten.             *)
LEMMA Overwriting ==
    ASSUME Inv, tag # NoTag, NEW c \in Contents, NEW d \in {c, Cut},
           Backup(tag.data),
           tag' = [tag EXCEPT !.data = c, !.mutable = TRUE],
           Save(d)
    PROVE  Inv'
<1>1. TypeOK /\ tag.data \in Contents \cup {Cut} /\ tag.source \in Files
  BY TagHasSource DEF Inv
<1>2. tag' \in Tags /\ tag'.source = tag.source /\ tag'.data = c
  BY <1>1, TagIsWritten
<1>3. /\ backups' \in [Files -> SUBSET (Contents \cup {Cut})]
      /\ \A f \in Files : backups[f] \subseteq backups'[f]
      /\ tag.data \in backups'[tag.source]
  BY <1>1, BackupGrows
<1>4. /\ disk' \in [Files -> Contents \cup {Cut}]
      /\ held' \in [Files -> SUBSET (Contents \cup {Cut})]
      /\ disk'[tag.source] = d
      /\ held'[tag.source] = held[tag.source] \cup {d}
      /\ \A f \in Files \ {tag.source} : disk'[f] = disk[f] /\ held'[f] = held[f]
  BY <1>1, SaveReplaces
<1>5. TypeOK'
  BY <1>2, <1>3, <1>4 DEF TypeOK
<1>6. FileBehindTag'
  BY <1>2, <1>4 DEF FileBehindTag
<1>7. NoContentLost'
  <2> SUFFICES ASSUME NEW f \in Files, NEW x \in held'[f], x # Cut
               PROVE  x \in backups'[f] \cup {disk'[f]}
    BY DEF NoContentLost
  <2>1. CASE f # tag.source
    BY <2>1, <1>3, <1>4 DEF Inv, NoContentLost
  <2>2. CASE f = tag.source /\ x = d
    BY <2>2, <1>4
  <2>3. CASE f = tag.source /\ x \in held[tag.source]
    <3>1. x \in backups[f] \/ x = disk[f]
      BY <2>3 DEF Inv, NoContentLost
    <3>2. disk[f] = tag.data \/ disk[f] = Cut \/ disk[f] \in backups[f]
      BY <2>3 DEF Inv, FileBehindTag
    <3> QED
      BY <3>1, <3>2, <2>3, <1>3
  <2> QED
    BY <2>1, <2>2, <2>3, <1>4
<1>8. LatestHeld'
  BY <1>1, <1>4 DEF Inv, LatestHeld
<1> QED
  BY <1>5, <1>6, <1>7, <1>8 DEF Inv

(* The save fails before it touched the file: the tag runs ahead of it.    *)
LEMMA RunningAhead ==
    ASSUME Inv, tag # NoTag, NEW c \in Contents,
           Backup(tag.data),
           tag' = [tag EXCEPT !.data = c, !.mutable = TRUE],
           UNCHANGED <<disk, held>>
    PROVE  Inv'
<1>1. TypeOK /\ tag.data \in Contents \cup {Cut} /\ tag.source \in Files
  BY TagHasSource DEF Inv
<1>2. tag' \in Tags /\ tag'.source = tag.source /\ tag'.data = c
  BY <1>1, TagIsWritten
<1>3. /\ backups' \in [Files -> SUBSET (Contents \cup {Cut})]
      /\ \A f \in Files : backups[f] \subseteq backups'[f]
      /\ tag.data \in backups'[tag.source]
  BY <1>1, BackupGrows
<1>4. TypeOK'
  BY <1>1, <1>2, <1>3 DEF TypeOK
<1>5. FileBehindTag'
  BY <1>1, <1>2, <1>3 DEF Inv, FileBehindTag
<1>6. NoContentLost' /\ LatestHeld'
  BY <1>3 DEF Inv, NoContentLost, LatestHeld
<1> QED
  BY <1>4, <1>5, <1>6 DEF Inv

(* The backup fails, perhaps with a file cut short.                        *)
LEMMA FailingBackup ==
    ASSUME Inv, BackupFails
    PROVE  Inv'
<1>1. tag # NoTag /\ TypeOK /\ UNCHANGED <<tag, disk, held>>
  BY DEF BackupFails, Inv
<1>2. /\ backups' \in [Files -> SUBSET (Contents \cup {Cut})]
      /\ \A f \in Files : backups[f] \subseteq backups'[f]
  <2>1. CASE UNCHANGED backups
    BY <2>1, <1>1 DEF TypeOK
  <2>2. CASE Backup(Cut)
    BY <2>2, <1>1, BackupGrows
  <2> QED
    BY <2>1, <2>2 DEF BackupFails
<1>3. tag.source \in Files
  BY <1>1, TagHasSource
<1> QED
  BY <1>1, <1>2, <1>3 DEF Inv, TypeOK, FileBehindTag, NoContentLost, LatestHeld

LEMMA Inductive == Inv /\ [Next]_vars => Inv'
<1> SUFFICES ASSUME Inv, [Next]_vars PROVE Inv'
  OBVIOUS
<1>1. ASSUME NEW f \in Files, LoadAmiibo(f) PROVE Inv'
  BY <1>1, Loading
<1>2. CASE RemoveNfc
  BY <1>2 DEF RemoveNfc, Inv, TypeOK, FileBehindTag, NoContentLost, LatestHeld
<1>3. ASSUME NEW c \in Contents, WriteTag(c) PROVE Inv'
  BY <1>3, Overwriting DEF WriteTag
<1>4. ASSUME NEW c \in Contents, SaveFails(c) PROVE Inv'
  <2>1. CASE UNCHANGED <<disk, held>>
    BY <2>1, <1>4, RunningAhead DEF SaveFails
  <2>2. CASE Save(Cut)
    BY <2>2, <1>4, Overwriting DEF SaveFails
  <2> QED
    BY <2>1, <2>2, <1>4 DEF SaveFails
<1>5. CASE BackupFails
  BY <1>5, FailingBackup
<1>6. CASE UNCHANGED vars
  BY <1>6 DEF vars, Inv, TypeOK, FileBehindTag, NoContentLost, LatestHeld
<1> QED
  BY <1>1, <1>2, <1>3, <1>4, <1>5, <1>6 DEF Next

LEMMA Invariant == ASSUME NFCTagAssumption PROVE Spec => []Inv
BY Initially, Inductive, PTL DEF Spec

(* The tag, its files and their backups keep their types.                  *)
THEOREM NFCTagTypeOK == ASSUME NFCTagAssumption PROVE Spec => []TypeOK
BY Invariant, PTL DEF Inv

(* process_nfc_write() never loses what a file contained: backups come     *)
(* first, whatever fails afterwards, and however often.                    *)
THEOREM NothingIsLost == ASSUME NFCTagAssumption PROVE Spec => []NoContentLost
BY Invariant, PTL DEF Inv
=============================================================================
