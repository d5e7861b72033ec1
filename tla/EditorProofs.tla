---------------------------- MODULE EditorProofs ----------------------------
(***************************************************************************)
(* Proofs about Editor, for every set of edits and every bound: what is    *)
(* typed is kept (TypedKept), and what others wrote is not overwritten     *)
(* unseen (NoClobber).                                                     *)
(*                                                                         *)
(* Both rest on what the stamps say of the files (Stamped), on where the   *)
(* tab, the saves and the reads are while a note gets its name (Placed)    *)
(* and on what `dirty` and the timer say of the buffer (Marked).  On these *)
(* stand two invariants of their own: Noted, that what a save may replace  *)
(* without a look was seen, and Kept, that an edit which is owed is held   *)
(* where the next step needs it.                                           *)
(***************************************************************************)
EXTENDS Editor, TLAPS

(***************************************************************************)
(* The records: what a step of a save, a new save, a read and a write make.*)

Steps == {"write", "stat", "refused", "name", "move", "restat"}

LEMMA SaveFields ==
    \A s \in Save : /\ s.no \in 1..MaxFlight /\ s.path \in Paths /\ s.text \in Text
                    /\ s.expect \in Nat /\ s.names \in BOOLEAN /\ s.step \in Steps
  BY DEF Save, Steps

LEMMA GoesMakes ==
    ASSUME NEW s \in saves, NEW step \in Steps, saves \subseteq Save, Goes(s, step)
    PROVE  \E t \in Save : /\ saves' = (saves \ {s}) \union {t}
                           /\ t.no = s.no /\ t.path = s.path /\ t.text = s.text
                           /\ t.expect = s.expect /\ t.names = s.names /\ t.step = step
  <1> DEFINE t == [no |-> s.no, path |-> s.path, text |-> s.text, expect |-> s.expect,
                   names |-> s.names, step |-> step]
  <1>1. s \in Save
    OBVIOUS
  <1>2. t \in Save
    BY <1>1, SaveFields DEF Save, Steps
  <1>3. [s EXCEPT !.step = step] = t
    BY <1>1 DEF Save
  <1>4. saves' = (saves \ {s}) \union {t}
    BY <1>3 DEF Goes
  <1> HIDE DEF t
  <1>5. /\ t.no = s.no /\ t.path = s.path /\ t.text = s.text
        /\ t.expect = s.expect /\ t.names = s.names /\ t.step = step
    BY DEF t
  <1> QED BY <1>2, <1>4, <1>5

\* The four steps that are taken of a save under way.
LEMMA StepMakes ==
    ASSUME NEW s \in saves, saves \subseteq Save
    PROVE  \A step \in {"stat", "name", "move", "restat"} :
              Goes(s, step) =>
                \E t \in Save : /\ saves' = (saves \ {s}) \union {t}
                               /\ t.no = s.no /\ t.path = s.path /\ t.text = s.text
                               /\ t.expect = s.expect /\ t.names = s.names /\ t.step = step
  <1> TAKE step \in {"stat", "name", "move", "restat"}
  <1> HAVE Goes(s, step)
  <1>1. step \in Steps
    BY DEF Steps
  <1> QED BY <1>1, GoesMakes

LEMMA FileFields ==
    /\ \A f \in File : f.text \in Text /\ f.at \in Nat /\ f # None
    /\ \A r \in Read : /\ r.path \in Paths /\ r.at \in Nat /\ r.text \in Text
                       /\ r.step \in {"read", "answer"} /\ r # None
    /\ \A text \in Text, at \in Nat : [text |-> text, at |-> at] \in File
    /\ Note \in Paths /\ Title \in Paths
  BY NoneAssumption DEF File, Read, Paths

\* Stamps are not of the future and the two files have different ones.  An answer
\* whose stamp the file still has is the file's text; a read of the title does not
\* have the note's stamp.
Stamped ==
    /\ \A p \in Paths : disk[p] # None => disk[p].at \in 1..clock
    /\ disk[Note] # None /\ disk[Title] # None => disk[Note].at # disk[Title].at
    /\ \A k \in Kinds : reads[k] # None => 
          /\ reads[k].at \in 0..clock
          /\ reads[k].step = "answer" => reads[k].at # 0
          /\ reads[k].path = Title => disk[Note] = None \/ disk[Note].at # reads[k].at
          /\ reads[k].step = "answer" /\ disk[reads[k].path] # None
                /\ disk[reads[k].path].at = reads[k].at => disk[reads[k].path].text = reads[k].text

LEMMA NewReadMakes ==
    ASSUME EditorTypeOK, NEW kind \in Kinds, NewRead(kind)
    PROVE  \E r \in Read : /\ reads' = [reads EXCEPT ![kind] = r]
                           /\ r.path = path /\ r.at = Stat(path) /\ r.step = "read"
                           /\ reads' \in [Kinds -> Read \union {None}]
  <1>1. Stat(path) \in Nat
    BY FileFields DEF EditorTypeOK, Stat
  <1>2. {} \in Text
    BY DEF Text
  <1> DEFINE r == [path |-> path, at |-> Stat(path), text |-> {}, step |-> "read"]
  <1>3. r \in Read
    BY <1>1, <1>2 DEF Read, EditorTypeOK
  <1>4. r.path = path /\ r.at = Stat(path) /\ r.step = "read"
    OBVIOUS
  <1>5. reads' = [reads EXCEPT ![kind] = r]
    BY DEF NewRead
  <1> HIDE DEF r
  <1>6. reads' \in [Kinds -> Read \union {None}]
    BY <1>3, <1>5 DEF EditorTypeOK
  <1> QED BY <1>3, <1>4, <1>5, <1>6

LEMMA ReadFileMakes ==
    ASSUME EditorTypeOK, NEW kind \in Kinds, ReadFile(kind)
    PROVE  \E r \in Read : /\ reads' = [reads EXCEPT ![kind] = r]
                           /\ reads' \in [Kinds -> Read \union {None}]
                           /\ r.path = reads[kind].path /\ r.at = reads[kind].at
                           /\ r.step = "answer" /\ r.text = disk[r.path].text
  <1> DEFINE q == reads[kind]
  <1>1. q \in Read
    BY DEF ReadFile, EditorTypeOK
  <1>2. disk[q.path] \in File
    BY <1>1, FileFields DEF ReadFile, EditorTypeOK
  <1> DEFINE r == [path |-> q.path, at |-> q.at, text |-> disk[q.path].text, step |-> "answer"]
  <1>3. r \in Read
    BY <1>1, <1>2, FileFields DEF Read
  <1>6. r.path = q.path /\ r.at = q.at /\ r.step = "answer" /\ r.text = disk[r.path].text
    OBVIOUS
  <1>7. reads' = [reads EXCEPT ![kind] = r]
    BY DEF ReadFile
  <1> HIDE DEF r, q
  <1>8. reads' \in [Kinds -> Read \union {None}]
    BY <1>3, <1>7 DEF EditorTypeOK
  <1> QED BY <1>3, <1>6, <1>7, <1>8 DEF q

LEMMA Writes ==
    ASSUME EditorTypeOK, NEW p \in Paths, NEW text \in Text,
           clock' = clock + 1,
           disk' = [disk EXCEPT ![p] = [text |-> text, at |-> clock']]
    PROVE  /\ disk' \in [Paths -> File \union {None}] /\ clock' \in Nat
           /\ disk'[p] # None /\ disk'[p].text = text /\ disk'[p].at = clock + 1
           /\ \A q \in Paths : q # p => disk'[q] = disk[q]
  <1>1. clock' \in Nat
    BY DEF EditorTypeOK
  <1>2. [text |-> text, at |-> clock'] \in File
    BY <1>1, FileFields
  <1> QED BY <1>1, <1>2, FileFields DEF EditorTypeOK

\* What a new save is: of a path and an mtime that the refs had.
Flush(t, p, expect, names) ==
    /\ t \in Save /\ t.path = p /\ t.text = buf /\ t.expect = expect /\ t.names = names
    /\ t.step = IF Clash(p, expect) THEN "refused" ELSE "write"

LEMMA NewSaveMakes ==
    ASSUME NEW p \in Paths, NEW expect \in Nat, NEW names \in BOOLEAN, buf \in Text,
           NEW n \in 1..MaxFlight
    PROVE  \E t : /\ Flush(t, p, expect, names) /\ t.no = n
                  /\ t = [no |-> n, path |-> p, text |-> buf, expect |-> expect, names |-> names,
                          step |-> IF Clash(p, expect) THEN "refused" ELSE "write"]
  <1> DEFINE t == [no |-> n, path |-> p, text |-> buf, expect |-> expect, names |-> names,
                   step |-> IF Clash(p, expect) THEN "refused" ELSE "write"]
  <1>1. t \in Save
    BY DEF Save
  <1>2. /\ t.path = p /\ t.text = buf /\ t.expect = expect /\ t.names = names /\ t.no = n
        /\ t.step = IF Clash(p, expect) THEN "refused" ELSE "write"
    OBVIOUS
  <1>3. t = [no |-> n, path |-> p, text |-> buf, expect |-> expect, names |-> names,
                          step |-> IF Clash(p, expect) THEN "refused" ELSE "write"]
    OBVIOUS
  <1> HIDE DEF t
  <1> QED BY <1>1, <1>2, <1>3 DEF Flush

LEMMA DoSaveMakes ==
    ASSUME EditorTypeOK, NEW names \in BOOLEAN, doSave(names)
    PROVE  \E t : /\ saves' = saves \union {t} /\ Flush(t, path, mtime, names)
                  /\ \A s \in saves : s.no # t.no
  <1>1. path \in Paths /\ mtime \in Nat /\ buf \in Text
    BY DEF EditorTypeOK
  <1>2. PICK n \in 1..MaxFlight :
           /\ \A s \in saves : s.no # n
           /\ saves' = saves \union {[no |-> n, path |-> path, text |-> buf, expect |-> mtime,
                                      names |-> names,
                                      step |-> IF Clash(path, mtime) THEN "refused" ELSE "write"]}
    BY DEF NewSave, doSave
  <1>3. PICK t : /\ Flush(t, path, mtime, names) /\ t.no = n
                 /\ t = [no |-> n, path |-> path, text |-> buf, expect |-> mtime, names |-> names,
                          step |-> IF Clash(path, mtime) THEN "refused" ELSE "write"]
    BY <1>1, NewSaveMakes
  <1> QED BY <1>2, <1>3

LEMMA CloseMakes ==
    ASSUME EditorTypeOK, NEW names \in BOOLEAN, NewSave(saves, path, mtime, names)
    PROVE  \E t : /\ saves' = saves \union {t} /\ Flush(t, path, mtime, names)
                  /\ \A s \in saves : s.no # t.no
  <1>1. path \in Paths /\ mtime \in Nat /\ buf \in Text
    BY DEF EditorTypeOK
  <1>2. PICK n \in 1..MaxFlight :
           /\ \A s \in saves : s.no # n
           /\ saves' = saves \union {[no |-> n, path |-> path, text |-> buf, expect |-> mtime,
                                      names |-> names,
                                      step |-> IF Clash(path, mtime) THEN "refused" ELSE "write"]}
    BY DEF NewSave
  <1>3. PICK t : /\ Flush(t, path, mtime, names) /\ t.no = n
                 /\ t = [no |-> n, path |-> path, text |-> buf, expect |-> mtime, names |-> names,
                          step |-> IF Clash(path, mtime) THEN "refused" ELSE "write"]
    BY <1>1, NewSaveMakes
  <1> QED BY <1>2, <1>3

LEMMA RestatMakes ==
    ASSUME EditorTypeOK, disk[Title] # None, NEW s \in saves,
           Restat(s), Mounted, timer # "none", dirty
    PROVE  \E t : /\ saves' = (saves \ {s}) \union {t} /\ Flush(t, path, disk[Title].at, FALSE)
                  /\ \A r \in saves \ {s} : r.no # t.no
  <1>1. path \in Paths /\ buf \in Text /\ disk[Title].at \in Nat
    BY FileFields DEF EditorTypeOK
  <1>m. PICK m \in Nat : m = disk[Title].at
    BY <1>1
  <1>2. PICK n \in 1..MaxFlight :
           /\ \A r \in saves \ {s} : r.no # n
           /\ saves' = (saves \ {s}) \union {[no |-> n, path |-> path, text |-> buf, expect |-> m,
                                      names |-> FALSE,
                                      step |-> IF Clash(path, m) THEN "refused" ELSE "write"]}
    BY <1>m DEF NewSave, Restat, Clash
  <1>3. PICK t : /\ Flush(t, path, m, FALSE) /\ t.no = n
                 /\ t = [no |-> n, path |-> path, text |-> buf, expect |-> m, names |-> FALSE,
                          step |-> IF Clash(path, m) THEN "refused" ELSE "write"]
    BY <1>1, NewSaveMakes
  <1>4. Flush(t, path, disk[Title].at, FALSE)
    BY <1>m, <1>3
  <1> QED BY <1>2, <1>3, <1>4

(***************************************************************************)
(* The types.                                                              *)

SavesOK == saves \subseteq Save /\ \A r, s \in saves : r.no = s.no => r = s

RestOK ==
    /\ reads \in [Kinds -> Read \union {None}] /\ pinged \in BOOLEAN
    /\ tab \in {"loading", "ready", "broken", "closed"} /\ path \in Paths
    /\ {buf, base, seed, view} \subseteq Text
    /\ dirty \in BOOLEAN /\ saving \in BOOLEAN
    /\ timer \in {"none", "due", "busy", "spent"}
    /\ status \in {"none", "refused", "changed"}
    /\ asked \in 0..MaxAsked
    /\ owed \subseteq Edits /\ lost \subseteq Edits /\ known \subseteq World

LEMMA Typed == EditorTypeOK <=> /\ disk \in [Paths -> File \union {None}] /\ clock \in Nat
                                /\ made \subseteq World /\ mtime \in 0..clock
                                /\ SavesOK /\ RestOK
  BY DEF EditorTypeOK, SavesOK, RestOK

LEMMA TypedAgain == EditorTypeOK' <=> /\ (disk \in [Paths -> File \union {None}])' /\ (clock \in Nat)'
                                /\ (made \subseteq World)' /\ (mtime \in 0..clock)'
                                /\ SavesOK' /\ RestOK'
  BY DEF EditorTypeOK, SavesOK, RestOK

LEMMA TypesStep ==
    ASSUME EditorTypeOK, Stamped, Next,
           \A s \in saves : s.step = "restat" => disk[Title] # None
    PROVE  EditorTypeOK'
  <1> USE DEF fileVars, bufVars, tabVars, Mounted
  <1>0. /\ disk \in [Paths -> File \union {None}] /\ clock \in Nat
        /\ made \subseteq World /\ mtime \in 0..clock /\ mtime \in Nat
        /\ SavesOK /\ RestOK /\ MaxAsked \in Nat /\ Heading \in Edits
    BY Typed, EditorAssumption
  <1>1. \A p \in Paths : disk[p] # None => disk[p] \in File /\ disk[p].at \in 0..clock
                                                         /\ disk[p].text \in Text
    BY <1>0, FileFields DEF Stamped
  <1>2. \A k \in Kinds : reads[k] # None => reads[k] \in Read /\ reads[k].at \in 0..clock
                                                         /\ reads[k].text \in Text
    BY <1>0, FileFields DEF Stamped, RestOK
  <1>added. ASSUME NEW t, t \in Save, saves' = saves \union {t}, \A s \in saves : s.no # t.no
            PROVE  SavesOK'
    BY <1>0, <1>added DEF SavesOK
  <1>dropped. ASSUME NEW s \in saves, saves' = saves \ {s}
              PROVE  SavesOK'
    BY <1>0, <1>dropped DEF SavesOK
  <1>swapped. ASSUME NEW s \in saves, NEW t, t \in Save, saves' = (saves \ {s}) \union {t},
                     \A r \in saves \ {s} : r.no # t.no
              PROVE  SavesOK'
    BY <1>0, <1>swapped DEF SavesOK
  <1>goes. ASSUME NEW s \in saves, NEW step \in Steps, Goes(s, step)
           PROVE  SavesOK'
    <2>1. PICK t \in Save : saves' = (saves \ {s}) \union {t} /\ t.no = s.no
      BY <1>0, <1>goes, GoesMakes DEF SavesOK
    <2>2. \A r \in saves \ {s} : r.no # t.no
      BY <1>0, <2>1 DEF SavesOK
    <2> QED BY <2>1, <2>2, <1>swapped
  <1>3. CASE SaveCommand
    <2>1. SavesOK'
      <3>1. PICK names \in BOOLEAN : doSave(names)
        BY <1>3 DEF SaveCommand
      <3>2. PICK t : /\ saves' = saves \union {t} /\ Flush(t, path, mtime, names)
                     /\ \A s \in saves : s.no # t.no
        BY <3>1, DoSaveMakes
      <3> QED BY <3>2, <1>added DEF Flush
    <2>2. RestOK'
      BY <1>0, <1>3 DEF SaveCommand, doSave, RestOK
    <2> QED BY <1>0, <1>3, <2>1, <2>2, TypedAgain DEF SaveCommand
  <1>4. CASE TimerFires
    <2>1. SavesOK'
      <3>1. CASE doSave(TRUE)
        <4>1. PICK t : /\ saves' = saves \union {t} /\ Flush(t, path, mtime, TRUE)
                       /\ \A s \in saves : s.no # t.no
          BY <3>1, DoSaveMakes
        <4> QED BY <4>1, <1>added DEF Flush
      <3>2. CASE UNCHANGED saves
        BY <3>2, <1>0 DEF SavesOK
      <3> QED BY <3>1, <3>2, <1>4 DEF TimerFires
    <2>2. RestOK'
      BY <1>0, <1>4 DEF TimerFires, doSave, RestOK
    <2> QED BY <1>0, <1>4, <2>1, <2>2, TypedAgain DEF TimerFires
  <1>5. ASSUME NEW s \in saves, SaveWrite(s)
        PROVE  EditorTypeOK'
    <2>1. s \in Save /\ s.path \in Paths /\ s.text \in Text
      BY <1>0, SaveFields DEF SavesOK
    <2>2. disk' \in [Paths -> File \union {None}] /\ clock' \in Nat /\ clock' = clock + 1
      BY <2>1, <1>5, Writes DEF SaveWrite
    <2>3. SavesOK'
      BY <1>5, <1>goes DEF SaveWrite, Steps
    <2>4. RestOK'
      BY <1>0, <1>5 DEF SaveWrite, MainOnly, Wakes, RestOK
    <2> QED BY <1>0, <1>5, <2>2, <2>3, <2>4, TypedAgain DEF SaveWrite, MainOnly
  <1>6. ASSUME NEW s \in saves, Refused(s)
        PROVE  EditorTypeOK'
    <2>1. SavesOK'
      BY <1>6, <1>dropped DEF Refused
    <2>2. RestOK'
      BY <1>0, <1>6 DEF Refused, RestOK
    <2> QED BY <1>0, <1>6, <2>1, <2>2, TypedAgain DEF Refused
  <1>7. ASSUME NEW s \in saves, Saved(s)
        PROVE  EditorTypeOK'
    <2>1. SavesOK'
      BY <1>7, <1>dropped, <1>goes DEF Saved, Steps
    <2>2. RestOK'
      BY <1>0, <1>7 DEF Saved, RestOK
    <2>3. mtime' \in 0..clock
      <3>1. s.path \in Paths /\ disk[s.path] # None
        BY <1>0, <1>7, SaveFields DEF SavesOK, Saved
      <3> QED BY <1>0, <1>1, <3>1, <1>7 DEF Saved
    <2> QED BY <1>0, <1>7, <2>1, <2>2, <2>3, TypedAgain DEF Saved
  <1>8. ASSUME NEW s \in saves, Name(s)
        PROVE  EditorTypeOK'
    <2>1. SavesOK'
      BY <1>8, <1>dropped, <1>goes DEF Name, Steps
    <2>2. RestOK'
      BY <1>0, <1>8 DEF Name, RestOK
    <2> QED BY <1>0, <1>8, <2>1, <2>2, TypedAgain DEF Name
  <1>9. ASSUME NEW s \in saves, Move(s)
        PROVE  EditorTypeOK'
    <2>1. SavesOK'
      BY <1>9, <1>goes DEF Move, Steps
    <2>2. RestOK'
      BY <1>0, <1>9 DEF Move, MainOnly, Wakes, RestOK
    <2>3. disk' \in [Paths -> File \union {None}]
      BY <1>0, <1>9, FileFields DEF Move
    <2> QED BY <1>0, <1>9, <2>1, <2>2, <2>3, TypedAgain DEF Move, MainOnly
  <1>10. ASSUME NEW s \in saves, MoveFails(s)
         PROVE  EditorTypeOK'
    <2>1. SavesOK'
      BY <1>10, <1>dropped DEF MoveFails
    <2>2. RestOK'
      BY <1>0, <1>10 DEF MoveFails, RestOK
    <2> QED BY <1>0, <1>10, <2>1, <2>2, TypedAgain DEF MoveFails
  <1>11. ASSUME NEW s \in saves, Restat(s)
         PROVE  EditorTypeOK'
    <2>0. disk[Title] # None /\ disk[Title].at \in 0..clock
      BY <1>1, <1>11, FileFields DEF Restat
    <2>1. SavesOK'
      <3>1. CASE Mounted /\ timer # "none" /\ dirty
        <4>1. PICK t : /\ saves' = (saves \ {s}) \union {t}
                       /\ Flush(t, path, disk[Title].at, FALSE)
                       /\ \A r \in saves \ {s} : r.no # t.no
          BY <3>1, <2>0, <1>11, RestatMakes
        <4> QED BY <4>1, <1>swapped DEF Flush
      <3>2. CASE saves' = saves \ {s}
        BY <3>2, <1>dropped
      <3> QED BY <3>1, <3>2, <1>11 DEF Restat
    <2>2. RestOK'
      BY <1>0, <1>11, FileFields DEF Restat, RestOK
    <2>3. mtime' \in 0..clock
      BY <1>0, <1>11, <2>0 DEF Restat
    <2> QED BY <1>0, <1>11, <2>1, <2>2, <2>3, TypedAgain DEF Restat
  <1>12. CASE SaveStep
    BY <1>12, <1>5, <1>6, <1>7, <1>8, <1>9, <1>10, <1>11 DEF SaveStep
  <1>13. CASE Notify
    <2>1. reads' \in [Kinds -> Read \union {None}]
      BY <1>13, NewReadMakes DEF Notify, Kinds
    <2>2. RestOK' /\ SavesOK'
      BY <1>0, <1>13, <2>1 DEF Notify, RestOK, SavesOK
    <2> QED BY <1>0, <1>13, <2>2, TypedAgain DEF Notify
  <1>14. CASE Revert
    <2>1. reads' \in [Kinds -> Read \union {None}]
      BY <1>14, NewReadMakes DEF Revert, Kinds
    <2>2. RestOK' /\ SavesOK'
      BY <1>0, <1>14, <2>1 DEF Revert, RestOK, SavesOK
    <2> QED BY <1>0, <1>14, <2>2, TypedAgain DEF Revert
  <1>15. ASSUME NEW kind \in Kinds, ReadFile(kind)
         PROVE  EditorTypeOK'
    <2>1. reads' \in [Kinds -> Read \union {None}]
      BY <1>15, ReadFileMakes
    <2>2. RestOK' /\ SavesOK'
      BY <1>0, <1>15, <2>1 DEF ReadFile, RestOK, SavesOK
    <2> QED BY <1>0, <1>15, <2>2, TypedAgain DEF ReadFile
  <1>16. ASSUME NEW kind \in Kinds, ReadFails(kind)
         PROVE  EditorTypeOK'
    <2>2. RestOK' /\ SavesOK'
      BY <1>0, <1>16 DEF ReadFails, RestOK, SavesOK
    <2> QED BY <1>0, <1>16, <2>2, TypedAgain DEF ReadFails
  <1>17. CASE Loaded
    <2>1. reads["load"] # None /\ "load" \in Kinds
      BY <1>17 DEF Loaded, Answered, Kinds
    <2>2. RestOK' /\ SavesOK' /\ mtime' \in 0..clock
      BY <1>0, <1>2, <2>1, <1>17 DEF Loaded, Answered, Reseed, RestOK, SavesOK
    <2> QED BY <1>0, <1>17, <2>2, TypedAgain DEF Loaded
  <1>18. CASE Reverted
    <2>1. reads["revert"] # None /\ "revert" \in Kinds
      BY <1>18 DEF Reverted, Answered, Kinds
    <2>2. RestOK' /\ SavesOK' /\ mtime' \in 0..clock
      BY <1>0, <1>2, <2>1, <1>18 DEF Reverted, Answered, Reseed, Overtaken, RestOK, SavesOK
    <2> QED BY <1>0, <1>18, <2>2, TypedAgain DEF Reverted
  <1>19. CASE Refreshed
    <2>1. reads["watch"] # None /\ "watch" \in Kinds
      BY <1>19 DEF Refreshed, Answered, Kinds
    <2>2. RestOK' /\ SavesOK' /\ mtime' \in 0..clock
      BY <1>0, <1>2, <2>1, <1>19 DEF Refreshed, Answered, Reseed, Overtaken, RestOK, SavesOK
    <2> QED BY <1>0, <1>19, <2>2, TypedAgain DEF Refreshed
  <1>20. ASSUME NEW e \in Edits, Type(e)
         PROVE  EditorTypeOK'
    <2>1. view \union {e} \in Text /\ view \ {e} \in Text
      BY <1>0 DEF RestOK, Text
    <2>3. owed' \subseteq Edits
      BY <1>0, <1>20 DEF Type, RestOK
    <2>4. /\ view' \in Text /\ buf' \in Text /\ timer' \in {"none", "due", "busy", "spent"}
      BY <1>0, <1>20, <2>1 DEF Type, onChange, RestOK
    <2>7. asked' \in 0..MaxAsked
      <3>1. asked < MaxAsked /\ asked' = asked + 1
        BY <1>20 DEF Type
      <3> QED BY <1>0, <3>1 DEF RestOK
    <2>5. dirty' \in BOOLEAN
      BY <1>20 DEF Type, onChange
    <2>6. UNCHANGED <<reads, pinged, tab, path, base, seed, saving, status, lost, known, saves>>
      BY <1>20 DEF Type
    <2>2. RestOK' /\ SavesOK'
      BY <1>0, <2>3, <2>4, <2>5, <2>6, <2>7 DEF RestOK, SavesOK
    <2> QED BY <1>0, <1>20, <2>2, TypedAgain DEF Type
  <1>21. ASSUME NEW agreed \in BOOLEAN, Close(agreed)
         PROVE  EditorTypeOK'
    <2>1. SavesOK'
      <3>1. ASSUME NEW names \in BOOLEAN, NewSave(saves, path, mtime, names)
            PROVE  SavesOK'
        <4>1. PICK t : /\ saves' = saves \union {t} /\ Flush(t, path, mtime, names)
                       /\ \A s \in saves : s.no # t.no
          BY <3>1, CloseMakes
        <4> QED BY <4>1, <1>added DEF Flush
      <3>2. CASE UNCHANGED saves
        BY <3>2, <1>0 DEF SavesOK
      <3> QED BY <3>1, <3>2, <1>21 DEF Close
    <2>2. {} \in Text
      BY DEF Text
    <2>3. RestOK' /\ mtime' = 0
      BY <1>0, <2>2, <1>21 DEF Close, RestOK
    <2> QED BY <1>0, <1>21, <2>1, <2>3, TypedAgain DEF Close
  <1>22. ASSUME NEW a \in World, NEW p \in Paths, Edited(a, p)
         PROVE  EditorTypeOK'
    <2>1. /\ disk' \in [Paths -> File \union {None}] /\ clock' \in Nat /\ clock' = clock + 1
      <3>1. CASE disk[p] # None
        <4>1. disk[p].text \union {a} \in Text
          BY <3>1, <1>1 DEF Text
        <4> QED BY <3>1, <4>1, <1>22, Writes DEF Edited
      <3>2. CASE disk[p] = None
        <4>1. {a} \in Text
          BY DEF Text
        <4> QED BY <3>2, <4>1, <1>22, Writes DEF Edited
      <3> QED BY <3>1, <3>2
    <2>2. RestOK' /\ SavesOK' /\ (made \subseteq World)'
      BY <1>0, <1>22 DEF Edited, Wakes, RestOK, SavesOK
    <2> QED BY <1>0, <1>22, <2>1, <2>2, TypedAgain DEF Edited
  <1> QED
    BY <1>3, <1>4, <1>12, <1>13, <1>14, <1>15, <1>16, <1>17, <1>18, <1>19, <1>20, <1>21, <1>22
    DEF Next

(***************************************************************************)
(* The files and their stamps.                                             *)

\* What a step does to the files and the reads of them.
FilesStay == UNCHANGED <<disk, clock>>
             /\ \A k \in Kinds : reads'[k] = reads[k] \/ reads'[k] = None
Written(p, text) ==
    /\ clock' = clock + 1 /\ disk' = [disk EXCEPT ![p] = [text |-> text, at |-> clock']]
    /\ UNCHANGED reads
Moved ==
    /\ disk[Note] # None /\ disk' = [disk EXCEPT ![Title] = disk[Note], ![Note] = None]
    /\ UNCHANGED <<clock, reads>>

LEMMA EditedMakes ==
    ASSUME EditorTypeOK, NEW a \in World, NEW p \in Paths, Edited(a, p)
    PROVE  \E text \in Text : /\ Written(p, text)
                              /\ disk[p] = None => p = Title /\ text = {a}
                              /\ disk[p] # None => text = disk[p].text \union {a}
  <1>1. CASE disk[p] # None
    <2>1. disk[p].text \union {a} \in Text
      BY <1>1, FileFields DEF EditorTypeOK, Text
    <2>2. Written(p, disk[p].text \union {a})
      BY <1>1 DEF Edited, Written
    <2> QED BY <1>1, <2>1, <2>2
  <1>2. CASE disk[p] = None
    <2>1. {a} \in Text
      BY DEF Text
    <2>2. Written(p, {a}) /\ p = Title
      BY <1>2 DEF Edited, Written
    <2> QED BY <1>2, <2>1, <2>2
  <1> QED BY <1>1, <1>2

LEMMA FileSteps ==
    ASSUME EditorTypeOK, Next
    PROVE  \/ FilesStay
           \/ \E p \in Paths : \E text \in Text : Written(p, text)
           \/ Moved
           \/ UNCHANGED <<disk, clock>> /\ \E kind \in Kinds : NewRead(kind)
           \/ \E kind \in Kinds : ReadFile(kind)
  <1> USE DEF fileVars
  <1>0. saves \subseteq Save /\ reads \in [Kinds -> Read \union {None}]
    BY DEF EditorTypeOK
  <1>1. CASE SaveCommand \/ TimerFires
    BY <1>1 DEF SaveCommand, TimerFires, FilesStay
  <1>2. ASSUME NEW s \in saves, SaveWrite(s)
        PROVE  \E p \in Paths : \E text \in Text : Written(p, text)
    <2>1. s.path \in Paths /\ s.text \in Text
      BY <1>0, SaveFields
    <2>2. Written(s.path, s.text)
      BY <1>2 DEF SaveWrite, MainOnly, Written
    <2> QED BY <2>1, <2>2
  <1>3. ASSUME NEW s \in saves, Refused(s) \/ Saved(s) \/ Name(s) \/ MoveFails(s)
        PROVE  FilesStay
    BY <1>3 DEF Refused, Saved, Name, MoveFails, FilesStay
  <1>4. ASSUME NEW s \in saves, Restat(s)
        PROVE  FilesStay
    BY <1>4 DEF Restat, FilesStay
  <1>5. ASSUME NEW s \in saves, Move(s)
        PROVE  Moved
    BY <1>5 DEF Move, Moved, MainOnly
  <1>6. CASE SaveStep
    BY <1>6, <1>2, <1>3, <1>4, <1>5 DEF SaveStep
  <1>7. CASE Notify \/ Revert
    BY <1>7 DEF Notify, Revert, Kinds
  <1>8. ASSUME NEW kind \in Kinds, ReadFails(kind)
        PROVE  FilesStay
    BY <1>0, <1>8 DEF ReadFails, FilesStay
  <1>9. CASE Loaded \/ Reverted \/ Refreshed
    BY <1>0, <1>9 DEF Loaded, Reverted, Refreshed, Answered, FilesStay
  <1>10. ASSUME NEW e \in Edits, Type(e)
         PROVE  FilesStay
    BY <1>10 DEF Type, FilesStay
  <1>11. ASSUME NEW agreed \in BOOLEAN, Close(agreed)
         PROVE  FilesStay
    BY <1>11 DEF Close, FilesStay
  <1>12. ASSUME NEW a \in World, NEW p \in Paths, Edited(a, p)
         PROVE  \E q \in Paths : \E text \in Text : Written(q, text)
    BY <1>12, EditedMakes
  <1> QED
    BY <1>1, <1>6, <1>7, <1>8, <1>9, <1>10, <1>11, <1>12 DEF Next

LEMMA Stamping ==
    ASSUME EditorTypeOK, Stamped, Next
    PROVE  Stamped'
  <1>0. /\ disk \in [Paths -> File \union {None}] /\ clock \in Nat
        /\ reads \in [Kinds -> Read \union {None}]
    BY DEF EditorTypeOK
  <1>1. \A p \in Paths : disk[p] # None => disk[p].at \in Nat /\ disk[p].at >= 1 /\ disk[p].at <= clock
    BY <1>0 DEF Stamped
  <1>2. \A k \in Kinds : reads[k] # None => reads[k] \in Read /\ reads[k].path \in Paths
                                             /\ reads[k].at \in Nat /\ reads[k].at <= clock
    BY <1>0, FileFields DEF Stamped
  <1>3. Note \in Paths /\ Title \in Paths /\ Note # Title /\ \A p \in Paths : p = Note \/ p = Title
    BY EditorAssumption DEF Paths
  <1>4. CASE FilesStay
    BY <1>4 DEF FilesStay, Stamped
  <1>5. ASSUME NEW p \in Paths, NEW text \in Text, Written(p, text)
        PROVE  Stamped'
    <2>1. /\ disk'[p] # None /\ disk'[p].at = clock + 1 /\ clock' = clock + 1
          /\ \A q \in Paths : q # p => disk'[q] = disk[q]
      BY <1>5, Writes DEF Written
    <2>2. reads' = reads
      BY <1>5 DEF Written
    <2>3. (\A q \in Paths : disk[q] # None => disk[q].at \in 1..clock)'
      BY <1>0, <1>1, <2>1
    <2>4. (disk[Note] # None /\ disk[Title] # None => disk[Note].at # disk[Title].at)'
      BY <1>0, <1>1, <1>3, <2>1
    <2>5. ASSUME NEW k \in Kinds, reads[k] # None
          PROVE  /\ reads[k].at \in 0..clock'
                 /\ reads[k].step = "answer" => reads[k].at # 0
                 /\ reads[k].path = Title => disk'[Note] = None \/ disk'[Note].at # reads[k].at
                 /\ reads[k].step = "answer" /\ disk'[reads[k].path] # None
                       /\ disk'[reads[k].path].at = reads[k].at
                    => disk'[reads[k].path].text = reads[k].text
      <3>1. reads[k].at \in Nat /\ reads[k].at <= clock /\ reads[k].path \in Paths
        BY <1>2, <2>5
      <3>2. /\ reads[k].at \in 0..clock' /\ disk'[p].at # reads[k].at
        BY <1>0, <2>1, <3>1
      <3>3. /\ reads[k].step = "answer" => reads[k].at # 0
            /\ reads[k].path = Title => disk[Note] = None \/ disk[Note].at # reads[k].at
            /\ reads[k].step = "answer" /\ disk[reads[k].path] # None
                  /\ disk[reads[k].path].at = reads[k].at
               => disk[reads[k].path].text = reads[k].text
        BY <2>5 DEF Stamped
      <3> QED BY <1>3, <2>1, <3>1, <3>2, <3>3
    <2> QED BY <2>2, <2>3, <2>4, <2>5 DEF Stamped
  <1>6. CASE Moved
    <2>1. disk'[Note] = None /\ disk'[Title] = disk[Note] /\ clock' = clock /\ reads' = reads
      BY <1>0, <1>3, <1>6 DEF Moved
    <2>2. disk[Note] # None
      BY <1>6 DEF Moved
    <2> QED BY <1>3, <2>1, <2>2, <1>2 DEF Stamped
  <1>7. ASSUME NEW kind \in Kinds, NewRead(kind), UNCHANGED <<disk, clock>>
        PROVE  Stamped'
    <2>1. PICK r \in Read : /\ reads' = [reads EXCEPT ![kind] = r]
                            /\ r.path = path /\ r.at = Stat(path) /\ r.step = "read"
      BY <1>7, NewReadMakes
    <2>2. path \in Paths
      BY DEF EditorTypeOK
    <2>3. r.at \in 0..clock
      BY <1>0, <1>1, <2>1, <2>2 DEF Stat
    <2>4. r.path = Title => disk[Note] = None \/ disk[Note].at # r.at
      BY <1>1, <1>3, <2>1 DEF Stat, Stamped
    <2>5. \A k \in Kinds : reads'[k] = IF k = kind THEN r ELSE reads[k]
      BY <1>0, <2>1
    <2> QED BY <1>7, <2>1, <2>3, <2>4, <2>5 DEF Stamped
  <1>8. ASSUME NEW kind \in Kinds, ReadFile(kind)
        PROVE  Stamped'
    <2>1. PICK r \in Read : /\ reads' = [reads EXCEPT ![kind] = r]
                            /\ r.path = reads[kind].path /\ r.at = reads[kind].at
                            /\ r.step = "answer" /\ r.text = disk[r.path].text
      BY <1>8, ReadFileMakes
    <2>2. UNCHANGED <<disk, clock>> /\ reads[kind] # None /\ reads[kind].at # 0
      BY <1>8 DEF ReadFile, fileVars
    <2>3. \A k \in Kinds : reads'[k] = IF k = kind THEN r ELSE reads[k]
      BY <1>0, <2>1
    <2> QED BY <2>1, <2>2, <2>3 DEF Stamped
  <1> QED
    BY <1>4, <1>5, <1>6, <1>7, <1>8, FileSteps

(***************************************************************************)
(* The naming of a note.                                                   *)

Naming == {"name", "move", "restat"}

\* Nothing is at the title but the tab that moved there, and the file it moved
\* with; a tab without a file has a save that moved it and will say so.
Placed ==
    /\ path = Title => disk[Title] # None
    /\ \A s \in saves : /\ s.path = Title => path = Title
                        /\ s.step \in Naming => s.path = Note /\ s.names
                        /\ s.step = "restat" => disk[Title] # None
    /\ \A k \in Kinds : reads[k] # None /\ reads[k].path = Title => path = Title
    /\ Mounted /\ disk[path] = None => \E s \in saves : s.step = "restat"
    /\ reads["load"] # None => tab = "loading"

LEMMA TitleStays ==
    ASSUME EditorTypeOK, Next, disk[Title] # None
    PROVE  disk'[Title] # None
  <1>1. Note \in Paths /\ Title \in Paths /\ Note # Title /\ disk \in [Paths -> File \union {None}]
    BY EditorAssumption DEF Paths, EditorTypeOK
  <1>2. ASSUME NEW p \in Paths, NEW text \in Text, Written(p, text)
        PROVE  disk'[Title] # None
    BY <1>1, <1>2, Writes DEF Written
  <1>3. CASE Moved
    BY <1>1, <1>3 DEF Moved
  <1> QED
    BY <1>2, <1>3, FileSteps DEF FilesStay, ReadFile, fileVars

LEMMA ReadsPlaced ==
    ASSUME EditorTypeOK, Next
    PROVE  \A k \in Kinds : reads'[k] # None =>
              \/ reads[k] # None /\ reads'[k].path = reads[k].path
              \/ reads'[k].path = path
  <1>0. reads \in [Kinds -> Read \union {None}]
    BY DEF EditorTypeOK
  <1>1. ASSUME NEW kind \in Kinds, NewRead(kind), NEW k \in Kinds, reads'[k] # None
        PROVE  \/ reads[k] # None /\ reads'[k].path = reads[k].path
               \/ reads'[k].path = path
    BY <1>0, <1>1, NewReadMakes
  <1>2. ASSUME NEW kind \in Kinds, ReadFile(kind), NEW k \in Kinds, reads'[k] # None
        PROVE  \/ reads[k] # None /\ reads'[k].path = reads[k].path
               \/ reads'[k].path = path
    <2>1. reads[kind] # None
      BY <1>2 DEF ReadFile
    <2> QED BY <2>1, <1>0, <1>2, ReadFileMakes
  <1> QED
    BY <1>1, <1>2, FileSteps DEF FilesStay, Written, Moved

LEMMA LoadPlaced ==
    ASSUME EditorTypeOK, reads["load"] # None => tab = "loading", Next
    PROVE  /\ reads'["load"] # None => tab' = "loading"
           /\ tab' # "closed" => tab # "closed"
  <1> USE DEF fileVars, bufVars, tabVars
  <1>0. reads \in [Kinds -> Read \union {None}] /\ Kinds = {"load", "watch", "revert"}
    BY DEF EditorTypeOK, Kinds
  <1>1. CASE SaveCommand \/ TimerFires
    BY <1>1 DEF SaveCommand, TimerFires, doSave
  <1>2. CASE SaveStep
    BY <1>2 DEF SaveStep, SaveWrite, Refused, Saved, Name, Move, MoveFails, Restat, MainOnly
  <1>3. CASE Notify \/ Revert
    BY <1>0, <1>3 DEF Notify, Revert, NewRead
  <1>4. ASSUME NEW kind \in Kinds, ReadFile(kind) \/ ReadFails(kind)
        PROVE  /\ reads'["load"] # None => tab' = "loading"
               /\ tab' # "closed" => tab # "closed"
    BY <1>0, <1>4 DEF ReadFile, ReadFails
  <1>5. CASE Loaded \/ Reverted \/ Refreshed
    BY <1>0, <1>5 DEF Loaded, Reverted, Refreshed, Answered
  <1>6. ASSUME NEW e \in Edits, Type(e)
        PROVE  UNCHANGED <<reads, tab>>
    BY <1>6 DEF Type
  <1>7. ASSUME NEW agreed \in BOOLEAN, Close(agreed)
        PROVE  tab # "closed" /\ reads'["load"] = None
    BY <1>0, <1>7 DEF Close, Mounted
  <1>8. ASSUME NEW a \in World, NEW p \in Paths, Edited(a, p)
        PROVE  UNCHANGED <<reads, tab>>
    BY <1>8 DEF Edited
  <1> QED
    BY <1>1, <1>2, <1>3, <1>4, <1>5, <1>6, <1>7, <1>8 DEF Next

LEMMA Placing ==
    ASSUME EditorTypeOK, Stamped, Placed, Next
    PROVE  Placed'
  <1> USE DEF fileVars, bufVars, tabVars
  <1>0. /\ disk \in [Paths -> File \union {None}] /\ saves \subseteq Save
        /\ reads \in [Kinds -> Read \union {None}] /\ path \in Paths
        /\ Note \in Paths /\ Title \in Paths /\ Note # Title
        /\ \A s \in saves : s.path \in Paths
    BY EditorAssumption, SaveFields DEF EditorTypeOK, Paths
  <1>1. disk[Title] # None => disk'[Title] # None
    BY TitleStays
  <1>2. \A k \in Kinds : reads'[k] # None =>
              \/ reads[k] # None /\ reads'[k].path = reads[k].path
              \/ reads'[k].path = path
    BY ReadsPlaced
  <1>L. /\ reads'["load"] # None => tab' = "loading"
        /\ tab' # "closed" => tab # "closed"
    BY LoadPlaced DEF Placed
  <1>3. path' = path \/ path' = Title =>
           \A k \in Kinds : reads'[k] # None /\ reads'[k].path = Title => path' = Title
    BY <1>2 DEF Placed
  \* A step that only lets go of a save that did not name the file.
  <1>4. ASSUME UNCHANGED <<disk, path>>, saves' \subseteq saves,
               \A s \in saves : s.step = "restat" => s \in saves'
        PROVE  Placed'
    <2>1. Mounted' => Mounted
      BY <1>L DEF Mounted
    <2> QED BY <1>1, <1>3, <1>4, <1>L, <2>1 DEF Placed
  \* A step that takes a save further, or makes a new one.
  <1>M. Mounted' => Mounted
    BY <1>L DEF Mounted
  <1>5. ASSUME UNCHANGED path, NEW s \in saves, NEW t \in Save,
               saves' = (saves \ {s}) \union {t} \/ saves' = saves \union {t},
               s.step # "restat" \/ s \in saves', t.path = s.path \/ t.path = path,
               t.step \in Naming => t.path = Note /\ t.names,
               t.step = "restat" => disk'[Title] # None,
               disk'[path] = None => disk[path] = None \/ t.step = "restat"
        PROVE  Placed'
    <2>1. \A r \in saves' : /\ r.path = Title => path' = Title
                            /\ r.step \in Naming => r.path = Note /\ r.names
                            /\ r.step = "restat" => disk'[Title] # None
      BY <1>1, <1>5 DEF Placed
    <2>2. path' = Title => disk'[Title] # None
      BY <1>1, <1>5 DEF Placed
    <2>3. Mounted' /\ disk'[path'] = None => \E r \in saves' : r.step = "restat"
      BY <1>1, <1>5, <1>M DEF Placed
    <2> QED BY <2>1, <2>2, <2>3, <1>3, <1>5, <1>L DEF Placed
  <1>6. ASSUME UNCHANGED <<disk, path>>, NEW t \in Save,
               saves' = saves \union {t}, t.path = path, t.step \in {"write", "refused"}
        PROVE  Placed'
    BY <1>1, <1>3, <1>6, <1>L, <1>M DEF Placed, Naming
  <1>7. CASE SaveCommand \/ TimerFires
    <2>1. ASSUME NEW names \in BOOLEAN, doSave(names)
          PROVE  Placed'
      <3>1. PICK t : saves' = saves \union {t} /\ Flush(t, path, mtime, names)
        BY <2>1, DoSaveMakes
      <3>2. UNCHANGED <<disk, path, tab>>
        BY <1>7 DEF SaveCommand, TimerFires
      <3> QED BY <3>1, <3>2, <1>6 DEF Flush, Mounted
    <2>2. CASE timer = "busy" /\ TimerFires
      <3>1. UNCHANGED <<disk, path, tab, saves>>
        BY <1>7, <2>2 DEF SaveCommand, TimerFires, doSave
      <3> QED BY <3>1, <1>4
    <2> QED BY <2>1, <2>2, <1>7 DEF SaveCommand, TimerFires
  <1>8. ASSUME NEW s \in saves, Refused(s)
        PROVE  Placed'
    BY <1>8, <1>4 DEF Refused
  <1>9. ASSUME NEW s \in saves, MoveFails(s)
        PROVE  Placed'
    BY <1>9, <1>4 DEF MoveFails
  <1>10. ASSUME NEW s \in saves, Saved(s)
         PROVE  Placed'
    <2>1. UNCHANGED <<disk, path, tab>> /\ s.step = "stat"
      BY <1>10 DEF Saved
    <2>2. CASE s.names /\ s.path = Note /\ Goes(s, "name")
      <3>1. PICK t \in Save : /\ saves' = (saves \ {s}) \union {t} /\ t.path = s.path
                              /\ t.names = s.names /\ t.step = "name"
        BY <2>2, <1>0, StepMakes
      <3> QED BY <3>1, <2>1, <2>2, <1>5 DEF Mounted
    <2>3. CASE saves' = saves \ {s}
      BY <2>1, <2>3, <1>4
    <2> QED BY <2>2, <2>3, <1>10 DEF Saved
  <1>11. ASSUME NEW s \in saves, Name(s)
         PROVE  Placed'
    <2>1. UNCHANGED <<disk, path, tab>> /\ s.step = "name" /\ s.path = Note /\ s.names
      BY <1>11 DEF Name, Placed, Naming
    <2>2. CASE Goes(s, "move")
      <3>1. PICK t \in Save : /\ saves' = (saves \ {s}) \union {t} /\ t.path = s.path
                              /\ t.names = s.names /\ t.step = "move"
        BY <2>2, <1>0, StepMakes
      <3> QED BY <3>1, <2>1, <2>2, <1>5 DEF Mounted
    <2>3. CASE saves' = saves \ {s}
      BY <2>1, <2>3, <1>4
    <2> QED BY <2>2, <2>3, <1>11 DEF Name
  <1>12. ASSUME NEW s \in saves, SaveWrite(s)
         PROVE  Placed'
    <2>1. UNCHANGED <<path, tab>> /\ s.step = "write"
      BY <1>12 DEF SaveWrite, MainOnly
    <2>2. s.path \in Paths /\ s.text \in Text
      BY <1>0, SaveFields
    <2>3. disk'[path] = None => disk[path] = None
      BY <1>0, <1>12, <2>2, Writes DEF SaveWrite
    <2>4. PICK t \in Save : /\ saves' = (saves \ {s}) \union {t} /\ t.path = s.path
                            /\ t.step = "stat"
      BY <1>12, <1>0, StepMakes DEF SaveWrite
    <2> QED BY <2>1, <2>3, <2>4, <1>5 DEF Mounted, Naming
  <1>13. ASSUME NEW s \in saves, Move(s)
         PROVE  Placed'
    <2>1. UNCHANGED <<path, tab>> /\ s.step = "move" /\ s.path = Note /\ s.names
      BY <1>13 DEF Move, MainOnly, Placed, Naming
    <2>2. disk'[Title] # None
      BY <1>0, <1>13 DEF Move
    <2>3. PICK t \in Save : /\ saves' = (saves \ {s}) \union {t} /\ t.path = s.path
                            /\ t.names = s.names /\ t.step = "restat"
      BY <1>13, <1>0, StepMakes DEF Move
    <2> QED BY <2>1, <2>2, <2>3, <1>5 DEF Mounted
  <1>14. ASSUME NEW s \in saves, Restat(s)
         PROVE  Placed'
    <2>1. UNCHANGED <<disk, tab>> /\ s.step = "restat"
      BY <1>14 DEF Restat
    <2>2. disk[Title] # None /\ disk'[Title] # None
      BY <2>1, <1>1 DEF Placed
    <2>3. CASE ~Mounted
      <3>1. path' = path /\ saves' = saves \ {s}
        BY <1>14, <2>3 DEF Restat
      <3> QED BY <2>1, <2>3, <3>1, <1>1, <1>3, <1>L DEF Placed, Mounted
    <2>4. CASE Mounted
      <3>1. path' = Title
        BY <1>14, <2>4 DEF Restat
      <3>2. \A r \in saves' : r \in saves \/ (r.path = path /\ r.step \notin Naming)
        <4>1. CASE timer # "none" /\ dirty
          BY <4>1, <2>2, <2>4, <1>14, RestatMakes DEF Flush, Naming
        <4>2. CASE saves' = saves \ {s}
          BY <4>2
        <4> QED BY <4>1, <4>2, <1>14, <2>4 DEF Restat
      <3>3. \A r \in saves' : /\ r.path = Title => path' = Title
                              /\ r.step \in Naming => r.path = Note /\ r.names
                              /\ r.step = "restat" => disk'[Title] # None
        BY <2>2, <3>1, <3>2 DEF Placed, Naming
      <3> QED BY <2>1, <2>2, <3>1, <3>3, <1>3, <1>L DEF Placed
    <2> QED BY <2>3, <2>4
  <1>15. CASE SaveStep
    BY <1>15, <1>8, <1>9, <1>10, <1>11, <1>12, <1>13, <1>14 DEF SaveStep
  <1>16. CASE Notify \/ Revert
    <2>1. UNCHANGED <<disk, path, tab, saves>>
      BY <1>16 DEF Notify, Revert
    <2> QED BY <2>1, <1>4
  <1>17. ASSUME NEW kind \in Kinds, ReadFile(kind) \/ ReadFails(kind)
         PROVE  Placed'
    <2>1. UNCHANGED <<disk, path, saves>>
      BY <1>17 DEF ReadFile, ReadFails
    <2> QED BY <2>1, <1>4
  <1>18. CASE Loaded \/ Reverted \/ Refreshed
    <2>1. UNCHANGED <<disk, path, saves>>
      BY <1>18 DEF Loaded, Reverted, Refreshed
    <2> QED BY <2>1, <1>4
  <1>19. ASSUME NEW e \in Edits, Type(e)
         PROVE  Placed'
    <2>1. UNCHANGED <<disk, path, tab, saves>>
      BY <1>19 DEF Type
    <2> QED BY <2>1, <1>4
  <1>20. ASSUME NEW agreed \in BOOLEAN, Close(agreed)
         PROVE  Placed'
    <2>1. UNCHANGED <<disk, path>> /\ tab' = "closed"
      BY <1>20 DEF Close
    <2>2. ASSUME NEW names \in BOOLEAN, NewSave(saves, path, mtime, names)
          PROVE  Placed'
      <3>1. PICK t : saves' = saves \union {t} /\ Flush(t, path, mtime, names)
        BY <2>2, CloseMakes
      <3> QED BY <3>1, <2>1, <1>6 DEF Flush, Mounted
    <2>3. CASE UNCHANGED saves
      BY <2>1, <2>3, <1>4
    <2> QED BY <2>2, <2>3, <1>20 DEF Close
  <1>21. ASSUME NEW a \in World, NEW p \in Paths, Edited(a, p)
         PROVE  Placed'
    <2>1. UNCHANGED <<path, tab, saves>>
      BY <1>21 DEF Edited
    <2>2. \A q \in Paths : disk'[q] = None => disk[q] = None
      <3>1. PICK text \in Text : Written(p, text)
        BY <1>21, EditedMakes
      <3> QED BY <3>1, Writes DEF Written
    <2> QED BY <2>1, <2>2, <1>0, <1>1, <1>3, <1>L DEF Placed, Mounted
  <1> QED
    BY <1>7, <1>15, <1>16, <1>17, <1>18, <1>19, <1>20, <1>21 DEF Next

(***************************************************************************)
(* What others wrote.                                                      *)

Seen(p) == disk[p] # None => disk[p].text \intersect World \subseteq known

\* What a save may replace without a look was seen.
Checked(s) ==
    /\ s.text \intersect World \subseteq known
    /\ s.step = "write" /\ s.expect # 0 => Seen(s.path)
    /\ s.step \in {"stat", "name", "move"} => Seen(s.path)
    /\ s.step \in {"move", "restat"} => Seen(Title)

\* The buffer shows what was seen, a file with the mtime the tab knows was seen,
\* and so was one that a read of the old path knows.
Noted ==
    /\ (buf \union view) \intersect World \subseteq known
    /\ \A s \in saves : Checked(s)
    /\ Mounted /\ mtime # 0 /\ disk[path] # None /\ disk[path].at = mtime => Seen(path)
    /\ \A k \in Kinds : reads[k] # None /\ Stray(reads[k])
                           /\ disk[path] # None /\ disk[path].at = reads[k].at => Seen(path)

LEMMA Noting ==
    ASSUME EditorTypeOK, Stamped, Placed, Noted, Next
    PROVE  Noted'
  <1> USE DEF fileVars, bufVars, tabVars
  <1>0. /\ disk \in [Paths -> File \union {None}] /\ saves \subseteq Save
        /\ reads \in [Kinds -> Read \union {None}] /\ path \in Paths /\ clock \in Nat
        /\ Note \in Paths /\ Title \in Paths /\ Note # Title /\ mtime \in Nat /\ mtime <= clock
        /\ \A p \in Paths : p = Note \/ p = Title
        /\ \A s \in saves : s.path \in Paths /\ s.text \in Text
        /\ \A k \in Kinds : reads[k] # None => reads[k].path \in Paths
        /\ Edits \intersect World = {}
    BY EditorAssumption, SaveFields, FileFields DEF EditorTypeOK, Paths
  <1>M. Mounted' => Mounted
    BY LoadPlaced DEF Placed, Mounted
  \* A step that writes no file and opens none.
  <1>1. ASSUME UNCHANGED <<disk, buf, view, path, mtime, known>>,
               \A k \in Kinds : reads'[k] = None \/ reads'[k] = reads[k] \/ ~Stray(reads'[k])
                   \/ (reads[k] # None /\ reads'[k].path = reads[k].path /\ reads'[k].at = reads[k].at),
               \A t \in saves' : t \in saves \/ Checked(t)
        PROVE  Noted'
    <2>1. \A p : Seen(p)' <=> Seen(p)
      BY <1>1 DEF Seen
    <2>2. \A t \in saves' : Checked(t)'
      BY <2>1, <1>1 DEF Checked, Noted, Seen
    <2>3. ((buf \union view) \intersect World \subseteq known)'
      BY <1>1 DEF Noted
    <2>4. (Mounted /\ mtime # 0 /\ disk[path] # None /\ disk[path].at = mtime => Seen(path))'
      BY <1>M, <1>1 DEF Noted, Seen
    <2>5. ASSUME NEW k \in Kinds, reads'[k] # None, Stray(reads[k])',
                 disk'[path] # None, disk'[path].at = reads'[k].at
          PROVE  Seen(path)'
      BY <2>5, <1>1 DEF Noted, Stray, Seen
    <2> QED BY <1>1, <2>2, <2>3, <2>4, <2>5 DEF Noted, Seen
  \* A step that takes what was read.
  <1>2. ASSUME NEW kind \in Kinds, Answered(kind), UNCHANGED <<disk, path, saves>>,
               mtime' = reads[kind].at, known \subseteq known',
               reads[kind].text \intersect World \subseteq known',
               ((buf \union view) \intersect World \subseteq known)'
        PROVE  Noted'
    <2>1. \A p : Seen(p) => Seen(p)'
      BY <1>2 DEF Seen
    <2>2. \A t \in saves' : Checked(t)'
      BY <2>1, <1>2 DEF Checked, Noted, Seen
    <2>3. (Mounted /\ mtime # 0 /\ disk[path] # None /\ disk[path].at = mtime => Seen(path))'
      <3>1. CASE Stray(reads[kind])
        <4>1. disk[path] # None /\ disk[path].at = reads[kind].at => Seen(path)
          BY <1>2, <3>1 DEF Noted, Answered
        <4> QED BY <4>1, <1>2 DEF Seen
      <3>2. CASE ~Stray(reads[kind])
        <4>1. disk[path] # None /\ disk[path].at = reads[kind].at => disk[path].text = reads[kind].text
          BY <1>2, <3>2 DEF Stamped, Answered, Stray
        <4> QED BY <4>1, <1>2 DEF Seen
      <3> QED BY <3>1, <3>2
    <2>4. ASSUME NEW k \in Kinds, reads'[k] # None, Stray(reads[k])',
                 disk'[path] # None, disk'[path].at = reads'[k].at
          PROVE  Seen(path)'
      <3>1. reads'[k] = reads[k]
        BY <1>0, <1>2, <2>4 DEF Answered
      <3>2. Seen(path)
        BY <3>1, <1>2, <2>4 DEF Noted, Stray
      <3> QED BY <3>2, <1>2 DEF Seen
    <2> QED BY <1>2, <2>2, <2>3, <2>4 DEF Noted, Seen
  <1>3. CASE SaveCommand \/ TimerFires
    <2>0. UNCHANGED <<disk, buf, view, path, mtime, known, reads>> /\ Mounted
      BY <1>3 DEF SaveCommand, TimerFires, doSave
    <2>1. ASSUME NEW names \in BOOLEAN, doSave(names)
          PROVE  Noted'
      <3>1. PICK t : saves' = saves \union {t} /\ Flush(t, path, mtime, names)
        BY <2>1, DoSaveMakes
      <3>2. Checked(t)
        BY <1>0, <2>0, <3>1 DEF Flush, Checked, Noted, Clash, Seen
      <3> QED BY <2>0, <3>1, <3>2, <1>1
    <2>2. CASE UNCHANGED saves
      BY <2>0, <2>2, <1>1
    <2> QED BY <2>1, <2>2, <1>3 DEF SaveCommand, TimerFires
  <1>4. ASSUME NEW s \in saves, SaveWrite(s)
        PROVE  Noted'
    <2>0. s.path \in Paths /\ s.text \in Text /\ s.text \intersect World \subseteq known
      BY <1>0 DEF Noted, Checked
    <2>1. UNCHANGED <<buf, view, path, mtime, known, reads, tab>> /\ s.step = "write"
      BY <1>4 DEF SaveWrite, MainOnly
    <2>2. /\ disk'[s.path] # None /\ disk'[s.path].text = s.text /\ disk'[s.path].at = clock + 1
          /\ \A q \in Paths : q # s.path => disk'[q] = disk[q]
      BY <1>4, <2>0, Writes DEF SaveWrite
    <2>3. Seen(s.path)' /\ \A p \in Paths : Seen(p) => Seen(p)'
      BY <2>0, <2>1, <2>2 DEF Seen
    <2>4. PICK t \in Save : /\ saves' = (saves \ {s}) \union {t} /\ t.path = s.path
                            /\ t.text = s.text /\ t.step = "stat"
      BY <1>4, <1>0, StepMakes DEF SaveWrite
    <2>5. \A r \in saves' : Checked(r)'
      BY <1>0, <2>0, <2>1, <2>3, <2>4 DEF Checked, Noted
    <2>6. (Mounted /\ mtime # 0 /\ disk[path] # None /\ disk[path].at = mtime => Seen(path))'
      <3>1. mtime # clock + 1
        BY <1>0
      <3> QED BY <1>0, <2>1, <2>2, <2>3, <3>1 DEF Noted, Mounted
    <2>7. ASSUME NEW k \in Kinds, reads'[k] # None, Stray(reads[k])',
                 disk'[path] # None, disk'[path].at = reads'[k].at
          PROVE  Seen(path)'
      <3>1. reads[k].at # clock + 1
        BY <1>0, <2>1, <2>7 DEF Stamped
      <3> QED BY <1>0, <2>1, <2>2, <2>3, <2>7, <3>1 DEF Noted, Stray
    <2> QED BY <2>1, <2>5, <2>6, <2>7 DEF Noted
  <1>5. ASSUME NEW s \in saves, Refused(s) \/ MoveFails(s)
        PROVE  Noted'
    BY <1>5, <1>1 DEF Refused, MoveFails
  <1>6. ASSUME NEW s \in saves, Saved(s)
        PROVE  Noted'
    <2>1. /\ UNCHANGED <<disk, buf, view, path, known, reads, tab>>
          /\ s.step = "stat" /\ disk[s.path] # None
          /\ mtime' = IF Mounted THEN disk[s.path].at ELSE mtime
      BY <1>6 DEF Saved
    <2>2. Seen(s.path) /\ s.text \intersect World \subseteq known
      BY <2>1 DEF Noted, Checked
    <2>3. \A r \in saves' : r \in saves \/ Checked(r)
      <3>1. CASE Goes(s, "name")
        <4>1. PICK t \in Save : /\ saves' = (saves \ {s}) \union {t} /\ t.path = s.path
                                /\ t.text = s.text /\ t.step = "name"
          BY <3>1, <1>0, StepMakes
        <4> QED BY <4>1, <2>2 DEF Checked
      <3>2. CASE saves' = saves \ {s}
        BY <3>2
      <3> QED BY <3>1, <3>2, <1>6 DEF Saved
    <2>4. \A r \in saves' : Checked(r)'
      BY <2>1, <2>3 DEF Checked, Noted, Seen
    <2>5. (Mounted /\ mtime # 0 /\ disk[path] # None /\ disk[path].at = mtime => Seen(path))'
      <3>1. CASE s.path = path
        BY <2>1, <2>2, <3>1 DEF Seen
      <3>2. CASE s.path # path /\ Mounted
        <4>1. disk[path] # None => disk[path].at # disk[s.path].at
          BY <1>0, <2>1, <3>2 DEF Stamped
        <4> QED BY <2>1, <3>2, <4>1 DEF Mounted
      <3> QED BY <2>1, <3>1, <3>2 DEF Mounted
    <2> QED BY <2>1, <2>4, <2>5 DEF Noted, Stray, Seen
  <1>7. ASSUME NEW s \in saves, Name(s)
        PROVE  Noted'
    <2>1. UNCHANGED <<disk, buf, view, path, known, reads, mtime>> /\ s.step = "name"
      BY <1>7 DEF Name
    <2>2. \A r \in saves' : r \in saves \/ Checked(r)
      <3>1. CASE Goes(s, "move") /\ disk[Title] = None
        <4>1. PICK t \in Save : /\ saves' = (saves \ {s}) \union {t} /\ t.path = s.path
                                /\ t.text = s.text /\ t.step = "move"
          BY <3>1, <1>0, StepMakes
        <4> QED BY <4>1, <3>1, <2>1 DEF Checked, Noted, Seen
      <3>2. CASE saves' = saves \ {s}
        BY <3>2
      <3> QED BY <3>1, <3>2, <1>7 DEF Name
    <2> QED BY <2>1, <2>2, <1>1
  <1>8. ASSUME NEW s \in saves, Move(s)
        PROVE  Noted'
    <2>1. /\ UNCHANGED <<buf, view, path, mtime, known, reads, tab>>
          /\ s.step = "move" /\ disk[Note] # None /\ s.path = Note
      BY <1>8 DEF Move, MainOnly, Placed, Naming
    <2>2. disk'[Note] = None /\ disk'[Title] = disk[Note]
      BY <1>0, <1>8 DEF Move
    <2>3. Seen(Note) /\ s.text \intersect World \subseteq known
      BY <2>1 DEF Noted, Checked
    <2>4. \A p \in Paths : Seen(p)'
      BY <1>0, <2>1, <2>2, <2>3 DEF Seen
    <2>5. PICK t \in Save : /\ saves' = (saves \ {s}) \union {t} /\ t.path = s.path
                            /\ t.text = s.text /\ t.step = "restat"
      BY <1>8, <1>0, StepMakes DEF Move
    <2>6. \A r \in saves' : Checked(r)'
      BY <1>0, <2>1, <2>3, <2>4, <2>5 DEF Checked, Noted
    <2> QED BY <1>0, <2>1, <2>4, <2>6 DEF Noted
  <1>9. ASSUME NEW s \in saves, Restat(s)
        PROVE  Noted'
    <2>1. UNCHANGED <<disk, buf, view, known, reads, tab>> /\ s.step = "restat"
      BY <1>9 DEF Restat
    <2>2. disk[Title] # None /\ Seen(Title)
      BY <2>1 DEF Placed, Noted, Checked
    <2>3. CASE ~Mounted
      <3>1. UNCHANGED <<path, mtime>> /\ saves' = saves \ {s}
        BY <1>9, <2>3 DEF Restat
      <3> QED BY <2>1, <3>1, <1>1
    <2>4. CASE Mounted
      <3>1. path' = Title /\ mtime' = disk[Title].at
        BY <1>9, <2>4 DEF Restat
      <3>2. \A r \in saves' : r \in saves \/ Checked(r)
        <4>1. CASE timer # "none" /\ dirty
          <5>1. PICK t : saves' = (saves \ {s}) \union {t} /\ Flush(t, path, disk[Title].at, FALSE)
            BY <4>1, <2>2, <2>4, <1>9, RestatMakes
          <5>2. t.step = "write" => Seen(path)
            <6>1. CASE path = Title
              BY <6>1, <2>2
            <6>2. CASE path = Note
              <7>1. disk[Title].at # 0
                BY <1>0, <2>2 DEF Stamped
              <7>2. disk[Note] # None => disk[Note].at # disk[Title].at
                BY <2>2 DEF Stamped
              <7> QED BY <6>2, <5>1, <2>2, <7>1, <7>2 DEF Flush, Clash, Seen
            <6> QED BY <1>0, <6>1, <6>2
          <5>3. Checked(t)
            BY <5>1, <5>2 DEF Flush, Checked, Noted
          <5> QED BY <5>1, <5>3
        <4>2. CASE saves' = saves \ {s}
          BY <4>2
        <4> QED BY <4>1, <4>2, <1>9, <2>4 DEF Restat
      <3>3. \A r \in saves' : Checked(r)'
        BY <2>1, <3>2 DEF Checked, Noted, Seen
      <3>4. Seen(path)'
        BY <2>1, <2>2, <3>1 DEF Seen
      <3> QED BY <2>1, <3>3, <3>4 DEF Noted
    <2> QED BY <2>3, <2>4
  <1>10. CASE SaveStep
    BY <1>10, <1>4, <1>5, <1>6, <1>7, <1>8, <1>9 DEF SaveStep
  <1>11. CASE Notify \/ Revert
    <2>1. UNCHANGED <<disk, buf, view, path, mtime, known, saves>>
      BY <1>11 DEF Notify, Revert
    <2>2. PICK kind \in Kinds : NewRead(kind)
      BY <1>11 DEF Notify, Revert, Kinds
    <2>3. PICK r \in Read : reads' = [reads EXCEPT ![kind] = r] /\ r.path = path
      BY <2>2, NewReadMakes
    <2> QED BY <1>0, <2>1, <2>3, <1>1 DEF Stray
  <1>12. ASSUME NEW kind \in Kinds, ReadFile(kind)
         PROVE  Noted'
    <2>1. UNCHANGED <<disk, buf, view, path, mtime, known, saves>> /\ reads[kind] # None
      BY <1>12 DEF ReadFile
    <2>2. PICK r \in Read : /\ reads' = [reads EXCEPT ![kind] = r]
                            /\ r.path = reads[kind].path /\ r.at = reads[kind].at
      BY <1>12, ReadFileMakes
    <2> QED BY <1>0, <2>1, <2>2, <1>1
  <1>13. ASSUME NEW kind \in Kinds, ReadFails(kind)
         PROVE  Noted'
    BY <1>0, <1>13, <1>1 DEF ReadFails
  <1>14. CASE Loaded
    BY <1>14, <1>2 DEF Loaded, Reseed, Kinds, Noted
  <1>15. CASE Reverted
    BY <1>15, <1>2 DEF Reverted, Reseed, Kinds, Noted
  <1>16. CASE Refreshed
    <2>0. Answered("watch") /\ UNCHANGED <<disk, saves, path>> /\ "watch" \in Kinds
      BY <1>16 DEF Refreshed, Kinds
    <2> DEFINE r == reads["watch"]
    <2>1. CASE r.text = buf /\ mtime' = r.at /\ UNCHANGED <<buf, view, known>>
      BY <2>0, <2>1, <1>2 DEF Noted
    <2>2. CASE UNCHANGED <<bufVars, known>>
      BY <1>0, <2>0, <2>2, <1>1 DEF Answered
    <2>3. CASE Reseed(r)
      BY <2>0, <2>3, <1>2 DEF Reseed, Noted
    <2> QED BY <1>16, <2>1, <2>2, <2>3 DEF Refreshed
  <1>17. ASSUME NEW e \in Edits, Type(e)
         PROVE  Noted'
    <2>1. UNCHANGED <<disk, path, mtime, known, saves, reads, tab>>
      BY <1>17 DEF Type
    <2>2. ((buf \union view) \intersect World \subseteq known)'
      <3>1. buf' \subseteq view \union {e} /\ view' \subseteq view \union {e}
        BY <1>17 DEF Type, onChange
      <3> QED BY <1>0, <2>1, <3>1 DEF Noted
    <2> QED BY <2>1, <2>2 DEF Noted, Seen, Checked, Stray, Mounted
  <1>18. ASSUME NEW agreed \in BOOLEAN, Close(agreed)
         PROVE  Noted'
    <2>1. /\ UNCHANGED <<disk, path, known, buf>> /\ tab' = "closed" /\ view' = {} /\ Mounted
          /\ reads' = [kind \in Kinds |-> None]
      BY <1>18 DEF Close
    <2>2. \A r \in saves' : r \in saves \/ Checked(r)
      <3>1. ASSUME NEW names \in BOOLEAN, NewSave(saves, path, mtime, names)
            PROVE  \A r \in saves' : r \in saves \/ Checked(r)
        <4>1. PICK t : saves' = saves \union {t} /\ Flush(t, path, mtime, names)
          BY <3>1, CloseMakes
        <4>2. Checked(t)
          BY <1>0, <2>1, <4>1 DEF Flush, Checked, Noted, Clash, Seen
        <4> QED BY <4>1, <4>2
      <3>2. CASE UNCHANGED saves
        BY <3>2
      <3> QED BY <3>1, <3>2, <1>18 DEF Close
    <2>3. \A r \in saves' : Checked(r)'
      BY <2>1, <2>2 DEF Checked, Noted, Seen
    <2> QED BY <2>1, <2>3 DEF Noted, Mounted
  <1>19. ASSUME NEW a \in World, NEW p \in Paths, Edited(a, p)
         PROVE  Noted'
    <2>1. /\ UNCHANGED <<buf, view, path, mtime, reads, tab, saves>> /\ known \subseteq known'
          /\ Unchecked(p) => a \in known'
      BY <1>19 DEF Edited
    <2>2. PICK text \in Text : /\ Written(p, text)
                               /\ disk[p] = None => text = {a}
                               /\ disk[p] # None => text = disk[p].text \union {a}
      BY <1>19, EditedMakes
    <2>3. /\ disk'[p] # None /\ disk'[p].text = text /\ disk'[p].at = clock + 1
          /\ \A q \in Paths : q # p => disk'[q] = disk[q]
      <3>1. clock' = clock + 1 /\ disk' = [disk EXCEPT ![p] = [text |-> text, at |-> clock']]
        BY <2>2 DEF Written
      <3> QED BY <3>1, Writes
    <2>4. \A q \in Paths : Seen(q) /\ (q = p => Unchecked(p)) => Seen(q)'
      <3>1. Seen(p) /\ Unchecked(p) => text \intersect World \subseteq known'
        BY <2>1, <2>2 DEF Seen
      <3> QED BY <2>1, <2>3, <3>1 DEF Seen
    <2>5. ASSUME NEW r \in saves
          PROVE  Checked(r)'
      <3>1. /\ r.step \in {"write", "stat"} /\ p = r.path => Unchecked(p)
            /\ r.step \in {"name", "move"} /\ p = r.path => Unchecked(p)
            /\ r.step \in {"move", "restat"} /\ p = Title => Unchecked(p)
        BY DEF Unchecked, Placed, Naming
      <3>2. Checked(r)
        BY DEF Noted
      <3> QED BY <1>0, <2>1, <2>4, <3>1, <3>2 DEF Checked
    <2>6. (Mounted /\ mtime # 0 /\ disk[path] # None /\ disk[path].at = mtime => Seen(path))'
      <3>1. mtime # clock + 1
        BY <1>0
      <3> QED BY <1>0, <2>1, <2>3, <2>4, <3>1 DEF Noted, Mounted
    <2>7. ASSUME NEW k \in Kinds, reads'[k] # None, Stray(reads[k])',
                 disk'[path] # None, disk'[path].at = reads'[k].at
          PROVE  Seen(path)'
      <3>1. reads[k].at # clock + 1
        BY <1>0, <2>1, <2>7 DEF Stamped
      <3> QED BY <1>0, <2>1, <2>3, <2>4, <2>7, <3>1 DEF Noted, Stray
    <2> QED BY <2>1, <2>5, <2>6, <2>7 DEF Noted
  <1> QED
    BY <1>3, <1>10, <1>11, <1>12, <1>13, <1>14, <1>15, <1>16, <1>17, <1>18, <1>19 DEF Next

(***************************************************************************)
(* The marks.                                                              *)

\* A dirty tab with no timer and no message has a save that will write or tell.
Marked ==
    /\ Mounted => (dirty <=> buf # base)
    /\ tab \in {"loading", "broken"} => ~dirty /\ owed = {}
    /\ Mounted /\ dirty /\ timer = "none" /\ status = "none"
          => \E s \in saves : s.step \in {"write", "stat", "refused"}

LEMMA Marking ==
    ASSUME EditorTypeOK, Placed, Marked, Next
    PROVE  Marked'
  <1> USE DEF fileVars, bufVars, tabVars
  <1>0. saves \subseteq Save /\ dirty \in BOOLEAN /\ tab \in {"loading", "ready", "broken", "closed"}
        /\ timer \in {"none", "due", "busy", "spent"}
    BY DEF EditorTypeOK
  <1>M. Mounted' => Mounted
    BY LoadPlaced DEF Placed, Mounted
  \* The marks and what they are about stay.
  <1>1. ASSUME UNCHANGED <<dirty, buf, base, tab>>, owed' \subseteq owed,
               \/ status' # "none"
               \/ timer' # "none"
               \/ timer' = timer /\ status' = status
                  /\ \A s \in saves : s.step \in {"write", "stat", "refused"} =>
                        \E t \in saves' : t.step \in {"write", "stat", "refused"}
               \/ \E t \in saves' : t.step \in {"write", "stat", "refused"}
        PROVE  Marked'
    <2>1. (Mounted => (dirty <=> buf # base))'
      BY <1>1 DEF Marked, Mounted
    <2>2. (tab \in {"loading", "broken"} => ~dirty /\ owed = {})'
      BY <1>1 DEF Marked
    <2>3. (Mounted /\ dirty /\ timer = "none" /\ status = "none"
              => \E s \in saves : s.step \in {"write", "stat", "refused"})'
      BY <1>1 DEF Marked, Mounted
    <2> QED BY <2>1, <2>2, <2>3 DEF Marked
  <1>2. ASSUME NEW s \in saves, s.step \notin {"write", "stat", "refused"},
               saves \ {s} \subseteq saves'
        PROVE  \A r \in saves : r.step \in {"write", "stat", "refused"} =>
                        \E t \in saves' : t.step \in {"write", "stat", "refused"}
    BY <1>2
  \* The tab is not dirty.
  <1>3. ASSUME ~dirty', buf' = base', owed' \subseteq owed,
               tab' \in {"loading", "broken"} => tab \in {"loading", "broken"}
        PROVE  Marked'
    BY <1>3 DEF Marked
  <1>4. CASE SaveCommand \/ TimerFires
    <2>0. UNCHANGED <<dirty, buf, base, tab, owed>>
      BY <1>4 DEF SaveCommand, TimerFires, doSave
    <2>1. ASSUME NEW names \in BOOLEAN, doSave(names)
          PROVE  Marked'
      <3>1. PICK t : saves' = saves \union {t} /\ Flush(t, path, mtime, names)
        BY <2>1, DoSaveMakes
      <3>2. t \in saves' /\ t.step \in {"write", "stat", "refused"}
        BY <3>1 DEF Flush
      <3> QED BY <2>0, <3>2, <1>1
    <2>2. CASE timer' = "spent"
      BY <2>0, <2>2, <1>1
    <2> QED BY <2>1, <2>2, <1>4 DEF SaveCommand, TimerFires
  <1>5. ASSUME NEW s \in saves, SaveWrite(s)
        PROVE  Marked'
    <2>1. PICK t \in Save : saves' = (saves \ {s}) \union {t} /\ t.step = "stat"
      BY <1>0, <1>5, StepMakes DEF SaveWrite
    <2>2. t \in saves' /\ t.step \in {"write", "stat", "refused"}
      BY <2>1
    <2> QED BY <1>5, <2>2, <1>1 DEF SaveWrite, MainOnly
  <1>6. ASSUME NEW s \in saves, Refused(s)
        PROVE  Marked'
    <2>1. CASE Mounted
      BY <1>6, <2>1, <1>1 DEF Refused
    <2>2. CASE ~Mounted
      BY <1>6, <2>2 DEF Refused, Marked, Mounted
    <2> QED BY <2>1, <2>2
  <1>7. ASSUME NEW s \in saves, Saved(s)
        PROVE  Marked'
    <2>1. CASE Mounted
      BY <1>7, <2>1, <1>3 DEF Saved
    <2>2. CASE ~Mounted
      BY <1>7, <2>2 DEF Saved, Marked, Mounted
    <2> QED BY <2>1, <2>2
  <1>8. ASSUME NEW s \in saves, Name(s) \/ Move(s) \/ MoveFails(s)
        PROVE  Marked'
    <2>1. /\ UNCHANGED <<dirty, buf, base, tab, owed, timer, status>>
          /\ s.step \notin {"write", "stat", "refused"} /\ saves \ {s} \subseteq saves'
      BY <1>8 DEF Name, Move, MoveFails, MainOnly, Goes
    <2> QED BY <2>1, <1>1, <1>2
  <1>9. ASSUME NEW s \in saves, Restat(s)
        PROVE  Marked'
    <2>0. UNCHANGED <<dirty, buf, base, tab, owed>> /\ s.step = "restat"
      BY <1>9 DEF Restat
    <2>1. CASE Mounted /\ timer # "none" /\ dirty
      <3>1. disk[Title] # None
        BY <2>0 DEF Placed
      <3>2. PICK t : saves' = (saves \ {s}) \union {t} /\ Flush(t, path, disk[Title].at, FALSE)
        BY <1>9, <2>1, <3>1, RestatMakes
      <3>3. t \in saves' /\ t.step \in {"write", "stat", "refused"}
        BY <3>2 DEF Flush
      <3> QED BY <2>0, <3>3, <1>1
    <2>2. CASE ~(Mounted /\ timer # "none" /\ dirty)
      <3>1. saves' = saves \ {s}
        BY <1>9, <2>2 DEF Restat
      <3>2. CASE timer = "none"
        <4>1. timer' = timer /\ status' = status
          BY <1>9, <2>2, <3>2 DEF Restat
        <4> QED BY <2>0, <3>1, <4>1, <1>1, <1>2
      <3>3. CASE ~Mounted
        BY <2>0, <3>3 DEF Marked, Mounted
      <3>4. CASE ~dirty
        BY <2>0, <3>4 DEF Marked, Mounted
      <3> QED BY <2>2, <3>2, <3>3, <3>4
    <2> QED BY <2>1, <2>2
  <1>10. CASE SaveStep
    BY <1>10, <1>5, <1>6, <1>7, <1>8, <1>9 DEF SaveStep
  <1>11. CASE Notify \/ Revert
    <2>1. UNCHANGED <<dirty, buf, base, tab, timer, status, saves>> /\ owed' \subseteq owed
      BY <1>11 DEF Notify, Revert
    <2> QED BY <2>1, <1>1
  <1>12. ASSUME NEW kind \in Kinds, ReadFile(kind)
         PROVE  Marked'
    BY <1>12, <1>1 DEF ReadFile
  <1>13. ASSUME NEW kind \in Kinds, ReadFails(kind)
         PROVE  Marked'
    <2>1. UNCHANGED <<dirty, buf, base, timer, saves, owed>> /\ reads[kind] # None
      BY <1>13 DEF ReadFails
    <2>2. CASE kind = "load"
      <3>1. tab = "loading" /\ tab' = "broken"
        BY <1>13, <2>1, <2>2 DEF ReadFails, Placed
      <3> QED BY <2>1, <3>1 DEF Marked, Mounted
    <2>3. CASE kind # "load"
      <3>1. tab' = tab /\ (status' = status \/ status' # "none")
        BY <1>13, <2>3 DEF ReadFails
      <3> QED BY <2>1, <3>1, <1>1
    <2> QED BY <2>2, <2>3
  <1>14. CASE Loaded
    <2>1. reads["load"] # None
      BY <1>14 DEF Loaded, Answered
    <2>2. tab = "loading" /\ ~dirty
      BY <2>1 DEF Placed, Marked
    <2> QED BY <1>14, <2>2, <1>3 DEF Loaded, Reseed
  <1>15. CASE Reverted
    <2>1. owed' \subseteq owed
      BY <1>15 DEF Reverted, Overtaken
    <2> QED BY <1>15, <2>1, <1>3 DEF Reverted, Reseed
  <1>16. CASE Refreshed
    <2>0. UNCHANGED <<tab, timer, dirty, saves>> /\ owed' \subseteq owed
      BY <1>16 DEF Refreshed, Overtaken
    <2>1. CASE UNCHANGED <<buf, base, status>>
      BY <2>0, <2>1, <1>1
    <2>2. CASE status' = "changed" /\ UNCHANGED bufVars
      BY <2>0, <2>2, <1>1
    <2>3. CASE ~dirty /\ Reseed(reads["watch"])
      BY <2>0, <2>3, <1>3 DEF Reseed
    <2> QED BY <1>16, <2>1, <2>2, <2>3 DEF Refreshed
  <1>17. ASSUME NEW e \in Edits, Type(e)
         PROVE  Marked'
    <2>1. tab = "ready" /\ tab' = tab /\ base' = base
      BY <1>17 DEF Type
    <2>2. PICK next : onChange(next)
      BY <1>17 DEF Type
    <2>3. (dirty' <=> buf' # base') /\ (dirty' => timer' # "none")
      <3>1. dirty' <=> buf' # base'
        BY <2>1, <2>2, Zenon DEF onChange
      <3>2. next # base => timer' # "none"
        BY <2>2 DEF onChange
      <3>3. dirty' <=> next # base
        BY <2>2, Zenon DEF onChange
      <3> QED BY <3>1, <3>2, <3>3
    <2> QED BY <2>1, <2>3 DEF Marked, Mounted
  <1>18. ASSUME NEW agreed \in BOOLEAN, Close(agreed)
         PROVE  Marked'
    <2>1. tab' = "closed"
      BY <1>18 DEF Close
    <2> QED BY <2>1 DEF Marked, Mounted
  <1>19. ASSUME NEW a \in World, NEW p \in Paths, Edited(a, p)
         PROVE  Marked'
    BY <1>19, <1>1 DEF Edited
  <1> QED
    BY <1>4, <1>10, <1>11, <1>12, <1>13, <1>14, <1>15, <1>16, <1>17, <1>18, <1>19 DEF Next

(***************************************************************************)
(* What the user typed.                                                    *)

Holds(p, x) == disk[p] # None /\ x \in disk[p].text
Without(p, x) == disk[p] # None /\ x \notin disk[p].text

\* What a save that was not refused means for x.
Carries(s, x) ==
    s.step # "refused" =>
       /\ x \in s.text
       /\ s.step \in {"stat", "name", "move"} => ~Without(s.path, x)
       /\ s.step \in {"name", "move"} => OnDisk(x)
       /\ s.step = "restat" => Holds(Title, x)
       /\ Mounted /\ s.path # path => Holds(Title, x)

\* An open tab: x is in the widget if it is in the buffer or the widget may be
\* mounted with it ...
InSight(x) == x \in view \/ x \notin seed \union buf
\* ... in the buffer it is no news, or every save has it ...
Underway(x) == x \in buf => x \in base \/ OnDisk(x) \/ \A s \in saves : x \in s.text
\* ... a buffer without x is older than the file that has it, and every save of it
\* is refused ...
Behind(x) ==
    x \notin buf => /\ \A s \in saves : s.step = "refused"
                    /\ Holds(path, x) /\ mtime # 0 /\ mtime # disk[path].at
\* ... and what is taken for saved, or is given up for what is on disk, is there.
Vouched(x) == x \in base \/ reads["revert"] # None => ~Without(path, x)

\* What holds of an edit as long as it is owed.  Once the tab is closed x is on
\* disk or a save has it.
Kept(x) ==
    /\ \A s \in saves : Carries(s, x)
    /\ Mounted => InSight(x) /\ Underway(x) /\ Behind(x) /\ Vouched(x)
    /\ ~Mounted => OnDisk(x) \/ \E s \in saves : x \in s.text

LEMMA KeptOnDisk ==
    ASSUME EditorTypeOK, Placed, Next, NEW x, \A s \in saves : Carries(s, x)
    PROVE  /\ Holds(Title, x) => Holds(Title, x)'
           /\ ~Without(Note, x) => ~Without(Note, x)'
           /\ OnDisk(x) => OnDisk(x)'
  <1> USE DEF fileVars
  <1>0. /\ disk \in [Paths -> File \union {None}] /\ saves \subseteq Save
        /\ Note \in Paths /\ Title \in Paths /\ Note # Title
        /\ \A p \in Paths : p = Note \/ p = Title
        /\ \A s \in saves : s.path \in Paths /\ s.text \in Text
    BY EditorAssumption, SaveFields DEF EditorTypeOK, Paths
  \* A file is written with x, or with what it had.
  <1>1. ASSUME NEW p \in Paths, NEW text \in Text, Written(p, text),
               disk[p] = None => x \in text \/ p = Title,
               disk[p] # None /\ x \in disk[p].text => x \in text,
               p = Note /\ disk[p] = None => x \in text
        PROVE  /\ Holds(Title, x) => Holds(Title, x)'
               /\ ~Without(Note, x) => ~Without(Note, x)'
               /\ OnDisk(x) => OnDisk(x)'
    <2>1. /\ disk'[p] # None /\ disk'[p].text = text
          /\ \A q \in Paths : q # p => disk'[q] = disk[q]
      <3>1. clock' = clock + 1 /\ disk' = [disk EXCEPT ![p] = [text |-> text, at |-> clock']]
        BY <1>1 DEF Written
      <3> QED BY <3>1, Writes
    <2>2. \A q \in Paths : Holds(q, x) => Holds(q, x)'
      BY <1>1, <2>1 DEF Holds
    <2>3. ~Without(Note, x) => ~Without(Note, x)'
      BY <1>0, <1>1, <2>1 DEF Without
    <2> QED BY <1>0, <2>2, <2>3 DEF OnDisk, Holds
  <1>2. ASSUME NEW s \in saves, SaveWrite(s)
        PROVE  /\ Holds(Title, x) => Holds(Title, x)'
               /\ ~Without(Note, x) => ~Without(Note, x)'
               /\ OnDisk(x) => OnDisk(x)'
    <2>1. Written(s.path, s.text) /\ s.step = "write"
      BY <1>2 DEF SaveWrite, MainOnly, Written
    <2>2. x \in s.text
      BY <2>1 DEF Carries
    <2> QED BY <1>0, <1>1, <2>1, <2>2
  <1>3. ASSUME NEW s \in saves, Move(s)
        PROVE  /\ Holds(Title, x) => Holds(Title, x)'
               /\ ~Without(Note, x) => ~Without(Note, x)'
               /\ OnDisk(x) => OnDisk(x)'
    <2>1. s.step = "move" /\ s.path = Note /\ disk[Note] # None
      BY <1>3 DEF Move, Placed, Naming
    <2>2. Holds(Note, x)
      BY <2>1 DEF Carries, Without, Holds
    <2>3. disk'[Note] = None /\ disk'[Title] = disk[Note]
      BY <1>0, <1>3 DEF Move
    <2> QED BY <1>0, <2>2, <2>3 DEF Holds, Without, OnDisk
  <1>4. ASSUME NEW a \in World, NEW p \in Paths, Edited(a, p)
        PROVE  /\ Holds(Title, x) => Holds(Title, x)'
               /\ ~Without(Note, x) => ~Without(Note, x)'
               /\ OnDisk(x) => OnDisk(x)'
    <2>1. PICK text \in Text : /\ Written(p, text)
                               /\ disk[p] = None => p = Title
                               /\ disk[p] # None => text = disk[p].text \union {a}
      BY <1>4, EditedMakes
    <2> QED BY <1>0, <1>1, <2>1
  <1>5. ASSUME UNCHANGED disk
        PROVE  /\ Holds(Title, x) => Holds(Title, x)'
               /\ ~Without(Note, x) => ~Without(Note, x)'
               /\ OnDisk(x) => OnDisk(x)'
    BY <1>5 DEF Holds, Without, OnDisk
  <1>6. \/ UNCHANGED disk
        \/ \E s \in saves : SaveWrite(s) \/ Move(s)
        \/ \E a \in World : \E p \in Paths : Edited(a, p)
    BY DEF Next, SaveCommand, TimerFires, SaveStep, Refused, Saved, Name, MoveFails, Restat,
           Notify, Revert, ReadFile, ReadFails, Loaded, Reverted, Refreshed, Type, Close
  <1> QED BY <1>2, <1>3, <1>4, <1>5, <1>6

LEMMA Keeping ==
    ASSUME EditorTypeOK, Stamped, Placed, Marked, Next, NEW x, Kept(x), x \in owed,
           x \in (owed \ lost)'
    PROVE  Kept(x)'
  <1> USE DEF fileVars, bufVars, tabVars
  <1>0. /\ disk \in [Paths -> File \union {None}] /\ saves \subseteq Save
        /\ reads \in [Kinds -> Read \union {None}] /\ path \in Paths /\ clock \in Nat
        /\ Note \in Paths /\ Title \in Paths /\ Note # Title /\ mtime \in Nat /\ mtime <= clock
        /\ \A p \in Paths : p = Note \/ p = Title
        /\ \A s \in saves : s.path \in Paths /\ s.text \in Text
        /\ Kinds = {"load", "watch", "revert"} /\ dirty \in BOOLEAN
    BY EditorAssumption, SaveFields DEF EditorTypeOK, Paths, Kinds
  <1>M. Mounted' => Mounted
    BY LoadPlaced DEF Placed, Mounted
  <1>D. /\ Holds(Title, x) => Holds(Title, x)'
        /\ ~Without(Note, x) => ~Without(Note, x)'
        /\ OnDisk(x) => OnDisk(x)'
    BY KeptOnDisk DEF Kept
  \* A save that goes on unchanged, with the tab where it was.
  <1>S. ASSUME UNCHANGED path, NEW t \in saves
        PROVE  Carries(t, x)'
    <2>1. Carries(t, x)
      BY DEF Kept
    <2>2. t.path = Title /\ ~Without(Title, x) => Holds(Title, x)
      BY DEF Placed, Holds, Without
    <2>3. ~Without(t.path, x) => ~Without(t.path, x)'
      BY <1>0, <1>D, <2>2 DEF Without, Holds
    <2> QED BY <1>D, <1>M, <1>S, <2>1, <2>3 DEF Carries
  \* A step that leaves the tab's texts alone.
  <1>Q. ASSUME UNCHANGED <<buf, base, seed, view, mtime, path>>,
               reads'["revert"] # None => reads["revert"] # None,
               \A t \in saves' : t \in saves
                     \/ /\ Carries(t, x)' /\ (x \in buf => x \in t.text)
                        /\ Mounted /\ x \notin buf => t.step = "refused",
               Mounted /\ x \notin buf => Holds(path, x)' /\ mtime # disk'[path].at,
               ~Mounted' => OnDisk(x)' \/ \E s \in saves' : x \in s.text
        PROVE  Kept(x)'
    <2>1. \A t \in saves' : Carries(t, x)'
      BY <1>Q, <1>S
    <2>2. ASSUME Mounted'
          PROVE  InSight(x)' /\ Underway(x)' /\ Behind(x)' /\ Vouched(x)'
      <3>1. InSight(x) /\ Underway(x) /\ Behind(x) /\ Vouched(x) /\ Mounted
        BY <1>M, <2>2 DEF Kept
      <3>2. InSight(x)'
        BY <3>1, <1>Q DEF InSight
      <3>3. Underway(x)'
        BY <3>1, <1>Q, <1>D DEF Underway
      <3>4. Behind(x)'
        BY <3>1, <1>Q DEF Behind
      <3>5. Vouched(x)'
        <4>1. path = Title => disk[Title] # None
          BY DEF Placed
        <4>2. ~Without(path, x) => ~Without(path, x)'
          BY <1>0, <1>D, <1>Q, <4>1 DEF Without, Holds
        <4> QED BY <3>1, <1>Q, <4>2 DEF Vouched
      <3> QED BY <3>2, <3>3, <3>4, <3>5
    <2> QED BY <2>1, <2>2, <1>Q DEF Kept
  <1>K. /\ \A s \in saves : Carries(s, x)
        /\ Mounted => InSight(x) /\ Underway(x) /\ Behind(x) /\ Vouched(x)
        /\ ~Mounted => OnDisk(x) \/ \E s \in saves : x \in s.text
    BY DEF Kept
  \* No other file, and the buffer's own saves.
  <1>B. ASSUME Mounted, x \notin buf, NEW s \in saves
        PROVE  s.step = "refused"
    BY <1>K, <1>B DEF Behind
  \* What is read takes the place of what was there.
  <1>R. ASSUME NEW kind \in Kinds, Answered(kind), Reseed(reads[kind]), Overtaken(reads[kind]),
               UNCHANGED <<disk, saves, path, tab>>, Mounted => ~Without(path, x)
        PROVE  Kept(x)'
    <2> DEFINE r == reads[kind]
    <2>0. /\ r # None /\ r.step = "answer" /\ buf' = r.text /\ base' = r.text /\ mtime' = r.at
          /\ seed' = r.text
          /\ r.text # seed => view' = r.text
          /\ r.text = seed => view' = view
      BY <1>R DEF Answered, Reseed
    <2>1. \A t \in saves' : Carries(t, x)'
      BY <1>R, <1>S
    <2>2. ASSUME Mounted'
          PROVE  InSight(x)' /\ Underway(x)' /\ Behind(x)' /\ Vouched(x)'
      <3>1. InSight(x) /\ Mounted /\ ~Without(path, x)'
        BY <1>M, <1>K, <1>R, <2>2 DEF Without
      <3>2. InSight(x)'
        BY <2>0, <3>1 DEF InSight
      <3>3. Underway(x)' /\ Vouched(x)'
        BY <2>0, <3>1 DEF Underway, Vouched
      <3>4. ASSUME x \notin r.text
            PROVE  Behind(x)'
        <4>1. saves = {} /\ ~Stray(r)
          BY <1>R, <3>4 DEF Overtaken
        <4>2. Holds(path, x)
          BY <1>R, <3>1, <4>1 DEF Placed, Holds, Without
        <4>3. r.at # 0 /\ r.at # disk[path].at
          BY <2>0, <3>4, <4>1, <4>2 DEF Stamped, Stray, Holds
        <4> QED BY <1>R, <2>0, <4>1, <4>2, <4>3 DEF Behind, Holds
      <3>5. x \in r.text => Behind(x)'
        BY <2>0 DEF Behind
      <3> QED BY <3>2, <3>3, <3>4, <3>5
    <2>3. ~Mounted' => OnDisk(x)' \/ \E s \in saves' : x \in s.text
      BY <1>D, <1>K, <1>R DEF Mounted
    <2> QED BY <2>1, <2>2, <2>3 DEF Kept
  <1>1. CASE SaveCommand \/ TimerFires
    <2>0. /\ UNCHANGED <<disk, buf, base, seed, view, mtime, path, reads, tab>> /\ Mounted
          /\ Mounted'
      BY <1>1 DEF SaveCommand, TimerFires, doSave, Mounted
    <2>1. Mounted /\ x \notin buf => Holds(path, x)' /\ mtime # disk'[path].at
      BY <1>K, <2>0 DEF Behind, Holds
    <2>2. ASSUME NEW names \in BOOLEAN, doSave(names)
          PROVE  Kept(x)'
      <3>1. PICK t : saves' = saves \union {t} /\ Flush(t, path, mtime, names)
        BY <2>2, DoSaveMakes
      <3>2. x \notin buf => t.step = "refused"
        BY <2>0, <3>1, <1>K DEF Behind, Flush, Clash, Holds
      <3>3. Carries(t, x)'
        BY <2>0, <3>1, <3>2 DEF Carries, Flush
      <3>4. x \in buf => x \in t.text
        BY <3>1 DEF Flush
      <3> QED BY <2>0, <2>1, <3>1, <3>2, <3>3, <3>4, <1>Q
    <2>3. CASE UNCHANGED saves
      BY <2>0, <2>1, <2>3, <1>Q
    <2> QED BY <2>2, <2>3, <1>1 DEF SaveCommand, TimerFires
  <1>2. ASSUME NEW s \in saves, SaveWrite(s)
        PROVE  Kept(x)'
    <2>0. UNCHANGED <<buf, base, seed, view, mtime, path, reads, tab>> /\ s.step = "write"
      BY <1>2 DEF SaveWrite, MainOnly
    <2>1. Carries(s, x) /\ x \in s.text
      BY <2>0, <1>K DEF Carries
    <2>2. /\ disk'[s.path] # None /\ disk'[s.path].text = s.text
      BY <1>0, <1>2, Writes DEF SaveWrite
    <2>3. PICK t \in Save : /\ saves' = (saves \ {s}) \union {t} /\ t.path = s.path
                            /\ t.text = s.text /\ t.step = "stat"
      BY <1>2, <1>0, StepMakes DEF SaveWrite
    <2>4. Carries(t, x)'
      BY <2>0, <2>1, <2>2, <2>3, <1>D, <1>M DEF Carries, Without
    <2>5. Mounted => x \in buf
      BY <1>B, <2>0
    <2>6. OnDisk(x)'
      BY <1>0, <2>1, <2>2 DEF OnDisk
    <2> QED BY <2>0, <2>1, <2>3, <2>4, <2>5, <2>6, <1>Q
  <1>3. ASSUME NEW s \in saves, Refused(s)
        PROVE  Kept(x)'
    <2>1. /\ UNCHANGED <<disk, buf, base, seed, view, mtime, path, reads, tab>>
          /\ saves' = saves \ {s}
      BY <1>3 DEF Refused
    <2>2. Mounted /\ x \notin buf => Holds(path, x)' /\ mtime # disk'[path].at
      BY <1>K, <2>1 DEF Behind, Holds
    \* With the tab closed it is another save that has x, or the disk.
    <2>3. ~Mounted => x \notin s.text
      BY <1>3 DEF Refused
    <2>4. ~Mounted' => OnDisk(x)' \/ \E t \in saves' : x \in t.text
      BY <1>D, <1>K, <2>1, <2>3 DEF Mounted
    <2> QED BY <2>1, <2>2, <2>4, <1>Q
  <1>4. ASSUME NEW s \in saves, Saved(s)
        PROVE  Kept(x)'
    <2>0. /\ UNCHANGED <<disk, buf, seed, view, path, reads, tab>>
          /\ s.step = "stat" /\ disk[s.path] # None
      BY <1>4 DEF Saved
    <2>1. Carries(s, x) /\ x \in s.text /\ Holds(s.path, x) /\ OnDisk(x)
      BY <1>0, <1>K, <2>0 DEF Carries, Holds, Without, OnDisk
    <2>2. \A t \in saves' : t \in saves \/ (Carries(t, x)' /\ x \in t.text)
      <3>1. CASE Goes(s, "name")
        <4>1. PICK t \in Save : /\ saves' = (saves \ {s}) \union {t} /\ t.path = s.path
                                /\ t.text = s.text /\ t.step = "name"
          BY <3>1, <1>0, StepMakes
        <4>2. Carries(t, x)'
          BY <4>1, <2>0, <2>1, <1>D, <1>M DEF Carries, Without, Holds
        <4> QED BY <4>1, <4>2, <2>1
      <3>2. CASE saves' = saves \ {s}
        BY <3>2
      <3> QED BY <3>1, <3>2, <1>4 DEF Saved
    <2>3. CASE ~Mounted
      <3>1. UNCHANGED <<base, mtime>> /\ ~Mounted'
        BY <1>4, <2>0, <2>3 DEF Saved, Mounted
      <3> QED BY <2>0, <2>1, <2>2, <2>3, <3>1, <1>D, <1>S DEF Kept
    <2>4. CASE Mounted
      <3>1. base' = buf /\ Mounted'
        BY <1>4, <2>0, <2>4 DEF Saved, Mounted
      <3>2. x \in buf
        BY <1>B, <2>0, <2>4
      <3>3. InSight(x)' /\ Underway(x)' /\ Behind(x)'
        BY <1>K, <2>0, <2>4, <3>1, <3>2 DEF InSight, Underway, Behind
      <3>4. Holds(path, x)
        <4>1. CASE s.path = path
          BY <2>1, <4>1
        <4>2. CASE s.path # path
          <5>1. path = Title
            BY <1>0, <4>2 DEF Placed
          <5> QED BY <2>0, <2>1, <2>4, <4>2, <5>1 DEF Carries
        <4> QED BY <4>1, <4>2
      <3>5. Vouched(x)'
        BY <2>0, <3>4 DEF Vouched, Without, Holds
      <3> QED BY <2>0, <2>2, <3>1, <3>3, <3>5, <1>S DEF Kept
    <2> QED BY <2>3, <2>4
  <1>5. ASSUME NEW s \in saves, Name(s)
        PROVE  Kept(x)'
    <2>0. /\ UNCHANGED <<disk, buf, base, seed, view, mtime, path, reads, tab>>
          /\ s.step = "name"
      BY <1>5 DEF Name
    <2>1. Carries(s, x) /\ x \in s.text /\ OnDisk(x)'
      BY <1>K, <1>D, <2>0 DEF Carries
    <2>2. Mounted => x \in buf
      BY <1>B, <2>0
    <2>3. CASE Goes(s, "move")
      <3>1. PICK t \in Save : /\ saves' = (saves \ {s}) \union {t} /\ t.path = s.path
                              /\ t.text = s.text /\ t.step = "move"
        BY <2>3, <1>0, StepMakes
      <3>2. Carries(t, x)'
        BY <3>1, <2>0, <2>1, <1>D, <1>M DEF Carries, Without
      <3> QED BY <2>0, <2>1, <2>2, <3>1, <3>2, <1>Q
    <2>4. CASE saves' = saves \ {s}
      BY <2>0, <2>1, <2>2, <2>4, <1>Q
    <2> QED BY <2>3, <2>4, <1>5 DEF Name
  <1>6. ASSUME NEW s \in saves, Move(s)
        PROVE  Kept(x)'
    <2>0. /\ UNCHANGED <<buf, base, seed, view, mtime, path, reads, tab>>
          /\ s.step = "move" /\ s.path = Note /\ disk[Note] # None
      BY <1>6 DEF Move, MainOnly, Placed, Naming
    <2>1. Carries(s, x) /\ x \in s.text /\ OnDisk(x)' /\ Holds(Note, x)
      BY <1>K, <1>D, <2>0 DEF Carries, Holds, Without
    <2>2. Mounted => x \in buf
      BY <1>B, <2>0
    <2>3. Holds(Title, x)'
      BY <1>0, <1>6, <2>0, <2>1 DEF Holds, Move
    <2>4. PICK t \in Save : /\ saves' = (saves \ {s}) \union {t} /\ t.path = s.path
                            /\ t.text = s.text /\ t.step = "restat"
      BY <1>6, <1>0, StepMakes DEF Move
    <2>5. Carries(t, x)'
      BY <2>1, <2>3, <2>4 DEF Carries
    <2> QED BY <2>0, <2>1, <2>2, <2>4, <2>5, <1>Q
  <1>7. ASSUME NEW s \in saves, MoveFails(s)
        PROVE  Kept(x)'
    <2>0. /\ UNCHANGED <<disk, buf, base, seed, view, mtime, path, reads, tab>>
          /\ s.step = "move" /\ saves' = saves \ {s}
      BY <1>7 DEF MoveFails
    <2>1. OnDisk(x)'
      BY <1>K, <1>D, <2>0 DEF Carries
    <2>2. Mounted => x \in buf
      BY <1>B, <2>0
    <2> QED BY <2>0, <2>1, <2>2, <1>Q
  <1>8. ASSUME NEW s \in saves, Restat(s)
        PROVE  Kept(x)'
    <2>0. UNCHANGED <<disk, buf, base, seed, view, reads, tab>> /\ s.step = "restat"
      BY <1>8 DEF Restat
    <2>1. Holds(Title, x) /\ x \in s.text /\ disk[Title] # None
      BY <1>K, <2>0 DEF Carries, Holds
    <2>2. OnDisk(x)'
      BY <1>0, <1>D, <2>1 DEF OnDisk, Holds
    <2>3. CASE ~Mounted
      <3>1. UNCHANGED <<mtime, path>> /\ saves' = saves \ {s}
        BY <1>8, <2>3 DEF Restat
      <3> QED BY <2>0, <2>2, <2>3, <3>1, <1>Q
    <2>4. CASE Mounted
      <3>1. path' = Title /\ Mounted'
        BY <1>8, <2>0, <2>4 DEF Restat, Mounted
      <3>2. x \in buf
        BY <1>B, <2>0, <2>4
      <3>3. \A t \in saves' : t \in saves \/ (t.step \in {"write", "refused"} /\ x \in t.text)
        <4>1. CASE timer # "none" /\ dirty
          BY <4>1, <2>1, <2>4, <3>2, <1>8, RestatMakes DEF Flush
        <4>2. CASE saves' = saves \ {s}
          BY <4>2
        <4> QED BY <4>1, <4>2, <1>8, <2>4 DEF Restat
      <3>4. \A t \in saves' : Carries(t, x)'
        BY <3>3, <1>K, <1>D, <2>0, <2>1, <2>2 DEF Carries, Without, Holds
      <3>5. InSight(x)' /\ Underway(x)' /\ Behind(x)'
        BY <1>K, <2>0, <2>2, <2>4, <3>2 DEF InSight, Underway, Behind
      <3>6. Vouched(x)'
        BY <2>0, <2>1, <3>1 DEF Vouched, Without, Holds
      <3> QED BY <3>1, <3>4, <3>5, <3>6 DEF Kept
    <2> QED BY <2>3, <2>4
  <1>9. CASE SaveStep
    BY <1>9, <1>2, <1>3, <1>4, <1>5, <1>6, <1>7, <1>8 DEF SaveStep
  <1>10. CASE Notify
    <2>1. UNCHANGED <<disk, buf, base, seed, view, mtime, path, saves, tab>>
      BY <1>10 DEF Notify
    <2>2. reads'["revert"] = reads["revert"]
      BY <1>0, <1>10 DEF Notify, NewRead
    <2>3. Mounted /\ Mounted'
      BY <1>10, <2>1 DEF Notify, Mounted
    <2>4. x \notin buf => Holds(path, x)' /\ mtime # disk'[path].at
      BY <1>K, <2>1, <2>3 DEF Behind, Holds
    <2> QED BY <2>1, <2>2, <2>3, <2>4, <1>Q
  <1>11. CASE Revert
    <2>1. UNCHANGED <<disk, buf, base, seed, view, mtime, path, saves, tab>> /\ Mounted /\ ~dirty
      BY <1>11 DEF Revert
    <2>2. Mounted' /\ buf = base
      BY <2>1 DEF Marked, Mounted
    <2>3. InSight(x)' /\ Underway(x)' /\ Behind(x)'
      BY <1>K, <1>D, <2>1 DEF InSight, Underway, Behind, Holds
    <2>4. Vouched(x)'
      BY <1>K, <2>1, <2>2 DEF Vouched, Behind, Without, Holds
    <2> QED BY <2>1, <2>2, <2>3, <2>4, <1>S DEF Kept
  <1>12. ASSUME NEW kind \in Kinds, ReadFile(kind) \/ ReadFails(kind)
         PROVE  Kept(x)'
    <2>1. UNCHANGED <<disk, buf, base, seed, view, mtime, path, saves>>
      BY <1>12 DEF ReadFile, ReadFails
    <2>2. reads'["revert"] # None => reads["revert"] # None
      BY <1>0, <1>12 DEF ReadFile, ReadFails
    <2>3. Mounted' <=> Mounted
      <3>1. reads["load"] # None => tab = "loading"
        BY DEF Placed
      <3> QED BY <3>1, <1>12 DEF ReadFile, ReadFails, Mounted
    <2>4. Mounted /\ x \notin buf => Holds(path, x)' /\ mtime # disk'[path].at
      BY <1>K, <2>1 DEF Behind, Holds
    <2> QED BY <2>1, <2>2, <2>3, <2>4, <1>D, <1>K, <1>Q
  <1>13. CASE Loaded
    <2>1. reads["load"] # None
      BY <1>13 DEF Loaded, Answered
    <2>2. owed = {}
      BY <2>1 DEF Placed, Marked
    <2> QED BY <2>2
  <1>14. CASE Reverted
    <2>1. "revert" \in Kinds /\ Answered("revert")
      BY <1>0, <1>14 DEF Reverted
    <2>2. Mounted => ~Without(path, x)
      BY <1>K, <2>1 DEF Answered, Vouched
    <2> QED BY <1>14, <2>1, <2>2, <1>R DEF Reverted
  <1>15. CASE Refreshed
    <2> DEFINE r == reads["watch"]
    <2>0. /\ "watch" \in Kinds /\ Answered("watch") /\ UNCHANGED <<disk, saves, path, tab>>
          /\ r # None /\ r.step = "answer" /\ reads'["revert"] = reads["revert"]
          /\ Mounted' <=> Mounted
      BY <1>0, <1>15 DEF Refreshed, Answered, Mounted
    <2>1. CASE /\ r.text = buf /\ mtime' = r.at /\ UNCHANGED <<buf, base, seed, view>>
               /\ owed' = IF Stray(r) THEN owed \intersect r.text ELSE owed
      <3>1. \A t \in saves' : Carries(t, x)'
        BY <2>0, <1>S
      <3>2. ASSUME Mounted
            PROVE  InSight(x)' /\ Underway(x)' /\ Behind(x)' /\ Vouched(x)'
        <4>1. InSight(x)' /\ Underway(x)'
          BY <1>K, <1>D, <2>0, <2>1, <3>2 DEF InSight, Underway
        <4>2. Vouched(x)'
          BY <1>K, <2>0, <2>1, <3>2 DEF Vouched, Without
        <4>3. ASSUME x \notin buf
              PROVE  Behind(x)'
          <5>1. ~Stray(r)
            BY <2>1, <4>3
          <5>2. Holds(path, x)
            BY <1>K, <3>2, <4>3 DEF Behind
          <5>3. r.at # 0 /\ r.at # disk[path].at
            BY <2>0, <2>1, <4>3, <5>1, <5>2 DEF Stamped, Stray, Holds
          <5> QED BY <1>K, <2>0, <2>1, <3>2, <4>3, <5>2, <5>3 DEF Behind, Holds
        <4>4. x \in buf => Behind(x)'
          BY <2>1 DEF Behind
        <4> QED BY <4>1, <4>2, <4>3, <4>4
      <3> QED BY <1>K, <1>D, <2>0, <3>1, <3>2 DEF Kept
    <2>2. CASE UNCHANGED bufVars
      <3>1. Mounted /\ x \notin buf => Holds(path, x)' /\ mtime # disk'[path].at
        BY <1>K, <2>0 DEF Behind, Holds
      <3> QED BY <2>0, <2>2, <3>1, <1>D, <1>K, <1>Q
    <2>3. CASE ~dirty /\ Reseed(r) /\ Overtaken(r)
      <3>1. Mounted => ~Without(path, x)
        BY <1>K, <2>3 DEF Marked, Vouched, Behind, Without, Holds
      <3> QED BY <2>0, <2>3, <3>1, <1>R
    <2> QED BY <1>15, <2>1, <2>2, <2>3 DEF Refreshed
  <1>16. ASSUME NEW e \in Edits, Type(e)
         PROVE  Kept(x)'
    <2>0. /\ UNCHANGED <<disk, saves, reads, base, mtime, seed, path, tab>>
          /\ buf' = view' /\ Mounted /\ Mounted'
      BY <1>16 DEF Type, onChange, Mounted
    <2>1. x \in view => x \in view'
      <3>1. view' = view \union {e} \/ (view' = view \ {e} /\ owed' = owed \ {e})
        BY <1>16 DEF Type, onChange
      <3> QED BY <3>1
    <2>2. InSight(x) /\ Underway(x) /\ Behind(x) /\ Vouched(x)
      BY <1>K, <2>0
    <2>3. InSight(x)'
      BY <2>0, <2>1, <2>2 DEF InSight
    <2>4. Underway(x)'
      <3>1. x \in buf => Underway(x)'
        BY <1>D, <2>0, <2>2 DEF Underway
      <3>2. x \notin buf => OnDisk(x)'
        BY <1>0, <1>D, <2>2 DEF Behind, Holds, OnDisk
      <3> QED BY <3>1, <3>2 DEF Underway
    <2>5. Behind(x)'
      BY <2>0, <2>1, <2>2 DEF InSight, Behind, Holds
    <2>6. Vouched(x)'
      BY <2>0, <2>2 DEF Vouched, Without
    <2> QED BY <2>0, <2>3, <2>4, <2>5, <2>6, <1>S DEF Kept
  <1>17. ASSUME NEW agreed \in BOOLEAN, Close(agreed)
         PROVE  Kept(x)'
    <2>0. UNCHANGED <<disk, path, buf>> /\ Mounted /\ ~Mounted' /\ status = "none"
      BY <1>17 DEF Close, Mounted
    <2>1. ASSUME NEW names \in BOOLEAN, NewSave(saves, path, mtime, names)
          PROVE  Kept(x)'
      <3>1. PICK t : saves' = saves \union {t} /\ Flush(t, path, mtime, names)
        BY <2>1, CloseMakes
      <3>2. x \notin buf => t.step = "refused" /\ OnDisk(x)
        BY <1>0, <1>K, <2>0, <3>1 DEF Behind, Flush, Clash, Holds, OnDisk
      <3>3. Carries(t, x)'
        BY <2>0, <3>1, <3>2 DEF Carries, Flush
      <3>4. x \in buf => x \in t.text
        BY <3>1 DEF Flush
      <3> QED BY <1>D, <1>S, <2>0, <3>1, <3>2, <3>3, <3>4 DEF Kept
    <2>2. CASE saves' = saves /\ ~(timer # "none" /\ dirty)
      <3>1. Underway(x) /\ Behind(x) /\ Vouched(x)
        BY <1>K, <2>0
      <3>2. x \notin buf => OnDisk(x)
        BY <1>0, <3>1 DEF Behind, Holds, OnDisk
      <3>3. x \in base => OnDisk(x)
        <4>1. ~Without(path, x) /\ disk[path] # None => OnDisk(x)
          BY <1>0 DEF Without, OnDisk
        <4>2. disk[path] = None => OnDisk(x)
          BY <1>0, <1>K, <2>0 DEF Placed, Carries, Holds, OnDisk
        <4> QED BY <3>1, <4>1, <4>2 DEF Vouched
      <3>4. x \in buf => OnDisk(x) \/ \E s \in saves : x \in s.text
        <4>1. CASE dirty
          BY <2>0, <2>2, <3>1, <3>3, <4>1 DEF Marked, Underway
        <4>2. CASE ~dirty
          BY <2>0, <3>3, <4>2 DEF Marked
        <4> QED BY <4>1, <4>2
      <3> QED BY <1>D, <1>S, <2>0, <2>2, <3>2, <3>4 DEF Kept
    <2> QED BY <1>17, <2>1, <2>2 DEF Close
  <1>18. ASSUME NEW a \in World, NEW p \in Paths, Edited(a, p)
         PROVE  Kept(x)'
    <2>0. UNCHANGED <<buf, base, seed, view, mtime, path, reads, tab, saves>>
      BY <1>18 DEF Edited
    <2>1. PICK text \in Text : /\ Written(p, text)
                               /\ disk[p] # None => text = disk[p].text \union {a}
      BY <1>18, EditedMakes
    <2>2. /\ disk'[p] # None /\ disk'[p].text = text /\ disk'[p].at = clock + 1
          /\ \A q \in Paths : q # p => disk'[q] = disk[q]
      <3>1. clock' = clock + 1 /\ disk' = [disk EXCEPT ![p] = [text |-> text, at |-> clock']]
        BY <2>1 DEF Written
      <3> QED BY <3>1, Writes
    <2>3. Mounted /\ x \notin buf => Holds(path, x)' /\ mtime # disk'[path].at
      <3>1. mtime # clock + 1
        BY <1>0
      <3> QED BY <1>0, <1>K, <2>0, <2>1, <2>2, <3>1 DEF Behind, Holds
    <2> QED BY <2>0, <2>3, <1>D, <1>K, <1>Q DEF Mounted
  <1> QED
    BY <1>1, <1>9, <1>10, <1>11, <1>12, <1>13, <1>14, <1>15, <1>16, <1>17, <1>18 DEF Next

\* What was lost stays so.
LEMMA LostStays == Next => lost \subseteq lost'
  BY DEF Next, SaveCommand, TimerFires, SaveStep, SaveWrite, MainOnly, Refused, Saved, Name, Move,
         MoveFails, Restat, Notify, Revert, ReadFile, ReadFails, Loaded, Reverted, Refreshed,
         Type, Close, Edited

\* What is newly typed and owed is in the buffer, and no save is under way.
LEMMA TypedIsKept ==
    ASSUME EditorTypeOK, Placed, Next, NEW x, x \notin owed, x \in owed'
    PROVE  Kept(x)'
  <1> USE DEF fileVars, bufVars, tabVars
  <1>1. PICK e \in Edits : Type(e)
    BY DEF Next, SaveCommand, TimerFires, SaveStep, SaveWrite, MainOnly, Refused, Saved, Name, Move,
           MoveFails, Restat, Notify, Revert, ReadFile, ReadFails, Loaded, Reverted, Refreshed,
           Reseed, Overtaken, Close, Edited
  <1>2. /\ x = e /\ Quiet /\ ~TakenForSaved(e) /\ view' = view \union {e} /\ buf' = view'
        /\ UNCHANGED <<disk, saves, reads, base, path, tab>> /\ Mounted
    BY <1>1 DEF Type, onChange, Mounted
  <1>3. saves' = {} /\ reads'["revert"] = None /\ x \in view' /\ x \in buf' /\ Mounted'
    BY <1>2 DEF Quiet, Mounted
  <1>4. InSight(x)' /\ Underway(x)' /\ Behind(x)'
    BY <1>3 DEF InSight, Underway, Behind
  <1>5. Vouched(x)'
    BY <1>2, <1>3 DEF Vouched, TakenForSaved, Without
  <1> QED BY <1>3, <1>4, <1>5 DEF Kept

(***************************************************************************)
(* The theorems.                                                           *)

EditorInv ==
    /\ EditorTypeOK /\ Stamped /\ Placed /\ Marked /\ Noted
    /\ \A x \in owed \ lost : Kept(x)

LEMMA EditorInitially == Init => EditorInv
  <1> SUFFICES ASSUME Init
               PROVE  EditorInv
    OBVIOUS
  <1>1. /\ Note \in Paths /\ Title \in Paths /\ Note # Title /\ Kinds = {"load", "watch", "revert"}
        /\ Orig \in World /\ MaxAsked \in Nat /\ None \notin File /\ None \notin Read
        /\ {} \in Text /\ {Orig} \in Text
    BY EditorAssumption, NoneAssumption DEF Paths, Kinds, Text
  <1>2. PICK f \in File : f.text = {Orig} /\ f.at = 1 /\ f = [text |-> {Orig}, at |-> 1]
    BY <1>1 DEF File
  <1>3. PICK r \in Read : /\ r.path = Note /\ r.at = 1 /\ r.step = "read"
                          /\ r = [path |-> Note, at |-> 1, text |-> {}, step |-> "read"]
    BY <1>1 DEF Read
  <1>4. /\ disk = [p \in Paths |-> IF p = Note THEN f ELSE None]
        /\ reads = [k \in Kinds |-> IF k = "load" THEN r ELSE None]
    BY <1>2, <1>3 DEF Init
  <1>5. EditorTypeOK
    <2>1. disk \in [Paths -> File \union {None}] /\ reads \in [Kinds -> Read \union {None}]
      BY <1>4
    <2>2. clock \in Nat /\ mtime \in 0..clock /\ asked \in 0..MaxAsked
      BY <1>1 DEF Init
    <2> QED BY <1>1, <2>1, <2>2 DEF Init, EditorTypeOK
  <1>6. Stamped
    BY <1>1, <1>2, <1>3, <1>4 DEF Init, Stamped
  <1>7. Placed
    BY <1>1, <1>2, <1>3, <1>4 DEF Init, Placed
  <1>8. Marked
    BY DEF Init, Marked
  <1>9. Noted
    <2>1. \A k \in Kinds : reads[k] # None => ~Stray(reads[k])
      BY <1>3, <1>4 DEF Init, Stray
    <2> QED BY <2>1 DEF Init, Noted
  <1> QED BY <1>5, <1>6, <1>7, <1>8, <1>9 DEF Init, EditorInv

LEMMA EditorStutters == EditorInv /\ UNCHANGED vars => EditorInv'
  <1> SUFFICES ASSUME EditorInv, UNCHANGED vars
               PROVE  EditorInv'
    OBVIOUS
  <1>1. UNCHANGED <<disk, clock, made, saves, reads, pinged, buf, base, mtime, seed, view, tab, path,
                    dirty, timer, saving, status, asked, owed, lost, known>>
    BY DEF vars, fileVars, bufVars, tabVars
  <1>2. EditorTypeOK' /\ Stamped' /\ Placed' /\ Marked'
    BY <1>1 DEF EditorInv, EditorTypeOK, Stamped, Placed, Marked, Mounted
  <1>3. Noted'
    BY <1>1 DEF EditorInv, Noted, Checked, Seen, Stray, Mounted
  <1>4. \A x \in owed' \ lost' : Kept(x)'
    BY <1>1 DEF EditorInv, Kept, Carries, InSight, Underway, Behind, Vouched, OnDisk, Holds, Without,
                Mounted
  <1> QED BY <1>2, <1>3, <1>4 DEF EditorInv

LEMMA EditorInductive == EditorInv /\ [Next]_vars => EditorInv'
  <1> SUFFICES ASSUME EditorInv, Next
               PROVE  EditorInv'
    BY EditorStutters
  <1>1. EditorTypeOK /\ Stamped /\ Placed /\ Marked /\ Noted
    BY DEF EditorInv
  <1>2. EditorTypeOK'
    BY <1>1, TypesStep DEF Placed
  <1>3. Stamped' /\ Placed' /\ Marked' /\ Noted'
    BY <1>1, Stamping, Placing, Marking, Noting
  <1>4. \A x \in owed' \ lost' : Kept(x)'
    <2> TAKE x \in owed' \ lost'
    <2>1. CASE x \in owed
      <3>1. Kept(x)
        BY <2>1, LostStays DEF EditorInv
      <3> QED BY <1>1, <2>1, <3>1, Keeping
    <2>2. CASE x \notin owed
      BY <1>1, <2>2, TypedIsKept
    <2> QED BY <2>1, <2>2
  <1> QED BY <1>2, <1>3, <1>4 DEF EditorInv

\* The tab, the files and the calls between them are what EditorTypeOK says.
THEOREM EditorTypeCorrect == Spec => []EditorTypeOK
  <1>1. EditorInv => EditorTypeOK
    BY DEF EditorInv
  <1> QED BY <1>1, EditorInitially, EditorInductive, PTL DEF Spec

\* What was typed with nothing under way stays in the buffer, in a save or on disk
\* ("so we don't lose the last few keystrokes"), whatever saves, reloads,
\* refreshes, namings and closings do in between; but for the save of a tab that
\* is closed, which may be refused with nobody to tell (`lost`).
THEOREM TypedStays == Spec => []TypedKept
  <1>1. EditorInv => TypedKept
    <2> SUFFICES ASSUME EditorInv, NEW x \in owed \ lost
                 PROVE  \/ Mounted /\ x \in buf
                        \/ OnDisk(x)
                        \/ \E s \in saves : x \in s.text
      BY DEF TypedKept
    <2>1. Kept(x) /\ path \in Paths
      BY DEF EditorInv, EditorTypeOK
    <2>2. CASE Mounted
      BY <2>1, <2>2 DEF Kept, Behind, Holds, OnDisk
    <2>3. CASE ~Mounted
      BY <2>1, <2>3 DEF Kept
    <2> QED BY <2>2, <2>3
  <1> QED BY <1>1, EditorInitially, EditorInductive, PTL DEF Spec

LEMMA NoneClobbered ==
    ASSUME EditorTypeOK, Stamped, Placed, Noted, Next, NEW p \in Paths
    PROVE  disk[p] # None /\ disk'[p] # None
             => \/ (disk[p].text \ disk'[p].text) \intersect World \subseteq known
                \/ \E s \in saves \ saves' : s.step = "write" /\ s.expect = 0
  <1> USE DEF fileVars
  <1>0. /\ disk \in [Paths -> File \union {None}] /\ saves \subseteq Save
        /\ Note \in Paths /\ Title \in Paths /\ Note # Title
        /\ \A q \in Paths : q = Note \/ q = Title
        /\ \A s \in saves : s.path \in Paths /\ s.text \in Text
    BY EditorAssumption, SaveFields DEF EditorTypeOK, Paths
  <1>1. ASSUME NEW s \in saves, SaveWrite(s), disk[p] # None
        PROVE  \/ (disk[p].text \ disk'[p].text) \intersect World \subseteq known
               \/ \E t \in saves \ saves' : t.step = "write" /\ t.expect = 0
    <2>1. \A q \in Paths : q # s.path => disk'[q] = disk[q]
      BY <1>0, <1>1, Writes DEF SaveWrite
    <2>2. s.step = "write"
      BY <1>1 DEF SaveWrite
    <2>3. CASE s.expect # 0
      BY <1>1, <2>1, <2>2, <2>3 DEF Noted, Checked, Seen
    <2>4. CASE s.expect = 0
      <3>1. PICK t \in Save : saves' = (saves \ {s}) \union {t} /\ t.step = "stat"
        BY <1>1, <1>0, StepMakes DEF SaveWrite
      <3>2. s \notin saves'
        BY <2>2, <3>1
      <3> QED BY <2>2, <2>4, <3>2
    <2> QED BY <2>3, <2>4
  <1>2. ASSUME NEW s \in saves, Move(s), disk[p] # None, disk'[p] # None
        PROVE  (disk[p].text \ disk'[p].text) \intersect World \subseteq known
    <2>1. disk'[Note] = None /\ s.step = "move"
      BY <1>0, <1>2 DEF Move
    <2>2. Seen(Title)
      BY <2>1 DEF Noted, Checked
    <2> QED BY <1>0, <1>2, <2>1, <2>2 DEF Seen
  <1>3. ASSUME NEW a \in World, NEW q \in Paths, Edited(a, q), disk[p] # None
        PROVE  disk[p].text \subseteq disk'[p].text
    <2>1. PICK text \in Text : /\ Written(q, text)
                               /\ disk[q] # None => text = disk[q].text \union {a}
      BY <1>3, EditedMakes
    <2>2. /\ disk'[q] # None /\ disk'[q].text = text
          /\ \A o \in Paths : o # q => disk'[o] = disk[o]
      <3>1. clock' = clock + 1 /\ disk' = [disk EXCEPT ![q] = [text |-> text, at |-> clock']]
        BY <2>1 DEF Written
      <3> QED BY <3>1, Writes
    <2> QED BY <1>3, <2>1, <2>2
  <1>4. \/ UNCHANGED disk
        \/ \E s \in saves : SaveWrite(s) \/ Move(s)
        \/ \E a \in World : \E q \in Paths : Edited(a, q)
    BY DEF Next, SaveCommand, TimerFires, SaveStep, Refused, Saved, Name, MoveFails, Restat,
           Notify, Revert, ReadFile, ReadFails, Loaded, Reverted, Refreshed, Type, Close
  <1> QED BY <1>1, <1>2, <1>3, <1>4

\* No save and no naming drops what others wrote and the editor has not shown, but
\* for what is written between a save's check and its last stat.
THEOREM NothingClobbered == Spec => NoClobber
  <1>1. EditorInv /\ [Next]_vars =>
           [\A p \in Paths :
              disk[p] # None /\ disk'[p] # None
                 => \/ (disk[p].text \ disk'[p].text) \intersect World \subseteq known
                    \/ \E s \in saves \ saves' : s.step = "write" /\ s.expect = 0]_vars
    BY NoneClobbered DEF EditorInv
  <1> QED BY <1>1, EditorInitially, EditorInductive, PTL DEF Spec, NoClobber

(***************************************************************************)
(* What stands behind an edit that is not on disk.                         *)

\* An edit that is owed and not on disk has a timer that will save it or a save
\* that carries it, or the user was told.
Pending(x) ==
    \/ OnDisk(x) \/ status # "none"
    \/ Mounted /\ timer = "due"
    \/ \E s \in saves : x \in s.text /\ s.step \in {"write", "refused"}

EditInHand == \A x \in owed \ lost : Pending(x)

\* `saving` is set while a save is under way, in an open tab, and no timer that
\* is due was set under it; nothing is read for a closed tab.
SavingMarked ==
    /\ saving => saves # {} /\ Mounted /\ timer # "due"
    /\ ~Mounted => \A k \in Kinds : reads[k] = None

LEMMA SavingStep ==
    ASSUME EditorInv, SavingMarked, Next
    PROVE  SavingMarked'
  <1> USE DEF SavingMarked, Mounted, fileVars, bufVars, tabVars
  <1>1. CASE SaveCommand \/ TimerFires
    <2>1. ASSUME NEW names \in BOOLEAN, doSave(names)
          PROVE  saves' # {} /\ timer' = "none"
      BY <2>1, DoSaveMakes DEF EditorInv, doSave
    <2>2. CASE \E names \in BOOLEAN : doSave(names)
      <3>1. saves' # {} /\ timer' = "none"
        BY <2>1, <2>2
      <3> QED BY <1>1, <3>1 DEF SaveCommand, TimerFires
    <2>3. CASE TimerFires /\ timer' = "spent" /\ UNCHANGED <<saves, saving>>
      BY <2>3 DEF TimerFires
    <2> QED BY <1>1, <2>2, <2>3 DEF SaveCommand, TimerFires
  <1>2. ASSUME NEW s \in saves,
               SaveWrite(s) \/ Refused(s) \/ Saved(s) \/ Name(s) \/ Move(s) \/ MoveFails(s)
        PROVE  SavingMarked'
    <2>1. ASSUME NEW step, Goes(s, step) PROVE saves' # {}
      BY <2>1 DEF Goes
    <2> QED BY <1>2, <2>1 DEF SaveWrite, MainOnly, Refused, Saved, Name, Move, MoveFails
  <1>3. ASSUME NEW s \in saves, Restat(s) PROVE SavingMarked'
    <2>1. CASE NewSave(saves \ {s}, path, mtime', FALSE) /\ Mounted
      <3>1. saves' # {}
        BY <2>1 DEF NewSave
      <3> QED BY <1>3, <2>1, <3>1 DEF Restat
    <2> QED BY <1>3, <2>1 DEF Restat
  <1>K. Kinds = {"load", "watch", "revert"} /\ reads \in [Kinds -> Read \union {None}]
    BY DEF Kinds, EditorInv, EditorTypeOK
  <1>4. CASE Notify \/ Revert \/ \E kind \in Kinds : ReadFile(kind)
    BY <1>4 DEF Notify, Revert, ReadFile
  <1>5. ASSUME NEW kind \in Kinds, ReadFails(kind) PROVE SavingMarked'
    <2>1. Mounted /\ UNCHANGED <<saving, saves, timer>>
      BY <1>5 DEF ReadFails
    <2>2. tab' # "closed"
      BY <1>5, <2>1 DEF ReadFails
    <2> QED BY <2>1, <2>2
  <1>6. CASE Loaded \/ Reverted \/ Refreshed
    BY <1>6, <1>K DEF Loaded, Reverted, Refreshed, Answered
  <1>7. ASSUME NEW e \in Edits, Type(e) PROVE SavingMarked'
    BY <1>7 DEF Type, onChange
  <1>8. ASSUME NEW agreed \in BOOLEAN, Close(agreed) PROVE SavingMarked'
    <2>1. saving' = FALSE /\ reads' = [kind \in Kinds |-> None]
      BY <1>8 DEF Close
    <2> QED BY <2>1
  <1>9. ASSUME NEW a \in World, NEW p \in Paths, Edited(a, p) PROVE SavingMarked'
    <2>1. UNCHANGED <<saves, reads, saving, timer, tab>>
      BY <1>9 DEF Edited
    <2> QED BY <2>1
  <1> QED BY <1>1, <1>2, <1>3, <1>4, <1>5, <1>6, <1>7, <1>8, <1>9 DEF Next, SaveStep

\* What the tab's own file does not lack is on disk, also while the file is on
\* its way to another name.
LEMMA NotMissing ==
    ASSUME EditorInv, NEW x, Kept(x), Mounted, ~Without(path, x)
    PROVE  OnDisk(x)
  <1>1. path \in Paths /\ Title \in Paths
    BY DEF EditorInv, EditorTypeOK, Paths
  <1>2. CASE disk[path] # None
    BY <1>1, <1>2 DEF Without, OnDisk
  <1>3. CASE disk[path] = None
    BY <1>1, <1>3 DEF EditorInv, Placed, Kept, Carries, Holds, OnDisk
  <1> QED BY <1>2, <1>3

LEMMA PendingStep ==
    ASSUME EditorInv, SavingMarked, Next, NEW x \in owed \ lost, x \in (owed \ lost)',
           Pending(x)
    PROVE  Pending(x)'
  <1> USE DEF fileVars, bufVars, tabVars
  <1>0. /\ EditorTypeOK /\ Placed /\ Marked /\ Kept(x)
        /\ path \in Paths /\ Note \in Paths /\ Title \in Paths /\ saves \subseteq Save
    BY DEF EditorInv, EditorTypeOK, Paths
  <1>D. OnDisk(x) => OnDisk(x)'
    BY <1>0, KeptOnDisk DEF Kept
  <1> SUFFICES ASSUME ~OnDisk(x) PROVE Pending(x)'
    BY <1>D DEF Pending
  \* It is in the buffer and in every save that was not refused, and the
  \* baseline has it not.
  <1>B. Mounted => x \in buf /\ x \in view /\ x \notin base /\ reads["revert"] = None /\ dirty
    BY <1>0, NotMissing DEF Kept, Behind, InSight, Vouched, Holds, OnDisk, Marked
  <1>S. ASSUME NEW s \in saves
        PROVE  /\ s.step \in {"write", "refused", "stat"} /\ s.path \in Paths
               /\ s.step = "write" => x \in s.text
               /\ s.step = "stat" => disk[s.path] = None
    <2>1. Carries(s, x) /\ s.step \in Steps /\ s.path \in Paths
      BY <1>0, SaveFields DEF Kept
    <2>2. s.step \notin {"name", "move", "restat"}
      BY <1>0, <2>1 DEF Carries, Holds, OnDisk
    <2> QED BY <2>1, <2>2 DEF Carries, Without, OnDisk, Steps
  <1>G. ASSUME status' # "none" \/ UNCHANGED status, timer # "due" \/ UNCHANGED timer,
               UNCHANGED <<tab, saves>>
        PROVE  Pending(x)'
    BY <1>G DEF Pending, Mounted
  \* A save of the buffer carries it.
  <1>F. ASSUME NEW t, NEW p, NEW expect, NEW names, Flush(t, p, expect, names), t \in saves', Mounted
        PROVE  Pending(x)'
    BY <1>B, <1>F DEF Flush, Pending
  <1>1. CASE SaveCommand \/ TimerFires
    <2>1. Mounted
      BY <1>1 DEF SaveCommand, TimerFires
    <2>2. ASSUME NEW names \in BOOLEAN, doSave(names)
          PROVE  Pending(x)'
      BY <1>0, <1>F, <2>1, <2>2, DoSaveMakes
    <2>3. CASE timer = "busy" /\ UNCHANGED <<saves, status, tab>>
      BY <1>G, <2>3
    <2> QED BY <1>1, <2>2, <2>3 DEF SaveCommand, TimerFires
  <1>2. ASSUME NEW s \in saves, SaveWrite(s) PROVE Pending(x)'
    <2>1. s.step = "write" /\ s.path \in Paths /\ s.text \in Text
      BY <1>0, <1>2, SaveFields DEF SaveWrite
    <2>2. disk'[s.path] # None /\ disk'[s.path].text = s.text
      BY <1>0, <1>2, <2>1, Writes DEF SaveWrite
    <2>3. OnDisk(x)'
      BY <1>S, <2>1, <2>2 DEF OnDisk
    <2> QED BY <2>3 DEF Pending
  <1>3. ASSUME NEW s \in saves, Refused(s) PROVE Pending(x)'
    BY <1>3 DEF Refused, Pending
  <1>4. ASSUME NEW s \in saves, Saved(s) \/ Name(s) \/ Move(s) \/ MoveFails(s) \/ Restat(s)
        PROVE  FALSE
    BY <1>S, <1>4 DEF Saved, Name, Move, MoveFails, Restat
  <1>5. CASE Notify \/ Revert \/ \E kind \in Kinds : ReadFile(kind)
    BY <1>5, <1>G DEF Notify, Revert, ReadFile
  <1>6. ASSUME NEW kind \in Kinds, ReadFails(kind) PROVE Pending(x)'
    <2>1. kind # "load"
      BY <1>0, <1>6 DEF ReadFails, Placed, Marked
    <2>2. CASE kind = "revert"
      BY <1>6, <2>2 DEF ReadFails, Pending
    <2>3. CASE kind = "watch"
      BY <1>6, <1>G, <2>3 DEF ReadFails
    <2> QED BY <2>1, <2>2, <2>3 DEF Kinds
  <1>7. CASE Loaded
    BY <1>0, <1>7 DEF Loaded, Answered, Placed, Marked
  <1>8. CASE Reverted
    <2>1. reads["revert"] # None
      BY <1>8 DEF Reverted, Answered
    <2> QED BY <1>B, <2>1 DEF SavingMarked, Kinds
  <1>9. CASE Refreshed
    <2>1. reads["watch"] # None
      BY <1>9 DEF Refreshed, Answered
    <2>2. Mounted
      BY <2>1 DEF SavingMarked, Kinds
    <2>3. status' # "none" \/ UNCHANGED status
      BY <1>9, <1>B, <2>2 DEF Refreshed
    <2>4. UNCHANGED <<timer, tab, saves>>
      BY <1>9 DEF Refreshed
    <2> QED BY <1>G, <2>3, <2>4
  <1>10. ASSUME NEW e \in Edits, Type(e) PROVE Pending(x)'
    <2>1. PICK next : onChange(next) /\ x \in next
      BY <1>10, <1>B DEF Type, Mounted
    <2>2. next # base /\ UNCHANGED <<status, tab, saves>> /\ Mounted
      BY <1>10, <1>B, <2>1 DEF Type, Mounted
    <2>3. CASE saving
      <3>1. timer # "due"
        BY <2>3 DEF SavingMarked
      <3> QED BY <1>G, <2>2, <3>1
    <2>4. CASE ~saving
      BY <2>1, <2>2, <2>4 DEF onChange, Pending, Mounted
    <2> QED BY <2>3, <2>4
  <1>11. ASSUME NEW agreed \in BOOLEAN, Close(agreed) PROVE Pending(x)'
    <2>1. Mounted /\ status = "none" /\ dirty
      BY <1>11, <1>B DEF Close
    <2>2. CASE timer # "none"
      <3>1. PICK names \in BOOLEAN : NewSave(saves, path, mtime, names)
        BY <1>11, <2>1, <2>2 DEF Close
      <3> QED BY <1>0, <1>F, <2>1, <3>1, CloseMakes
    <2>3. CASE timer = "none"
      <3>1. saves' = saves
        BY <1>11, <2>3 DEF Close
      <3> QED BY <2>1, <2>3, <3>1 DEF Pending
    <2> QED BY <2>2, <2>3
  <1>12. ASSUME NEW a \in World, NEW p \in Paths, Edited(a, p) PROVE Pending(x)'
    BY <1>12, <1>G DEF Edited
  <1> QED BY <1>1, <1>2, <1>3, <1>4, <1>5, <1>6, <1>7, <1>8, <1>9, <1>10, <1>11, <1>12
          DEF Next, SaveStep

LEMMA PendingBegins ==
    ASSUME EditorInv, SavingMarked, Next, NEW x, x \notin owed, x \in owed'
    PROVE  Pending(x)'
  <1> USE DEF fileVars, bufVars, tabVars
  <1>1. PICK e \in Edits : Type(e)
    BY DEF Next, SaveCommand, TimerFires, SaveStep, SaveWrite, MainOnly, Refused, Saved, Name, Move,
           MoveFails, Restat, Notify, Revert, ReadFile, ReadFails, Loaded, Reverted, Refreshed,
           Reseed, Overtaken, Close, Edited
  <1>2. /\ x = e /\ Quiet /\ ~TakenForSaved(e) /\ onChange(view \union {e})
        /\ UNCHANGED <<disk, path, tab>> /\ Mounted /\ path \in Paths
    BY <1>1 DEF Type, Mounted, EditorInv, EditorTypeOK
  <1>3. ~saving
    BY <1>2 DEF Quiet, SavingMarked
  <1>4. CASE view \union {e} = base
    BY <1>2, <1>4 DEF TakenForSaved, OnDisk, Pending
  <1>5. CASE view \union {e} # base
    BY <1>2, <1>3, <1>5 DEF onChange, Pending, Mounted
  <1> QED BY <1>4, <1>5

\* The safety behind SavedOrTold: whatever commands, timers, reloads and namings
\* cross, an edit that is owed never rests in the buffer alone with nothing that
\* will save it and nothing on screen that says so, and none is dropped but by
\* the refusal of a save whose tab is closed.
THEOREM EditsAreInHand == Spec => []EditInHand
  <1> DEFINE Inv == EditorInv /\ SavingMarked /\ EditInHand
  <1>1. Init => Inv
    BY EditorInitially DEF Init, SavingMarked, EditInHand, Mounted
  <1>2. Inv /\ [Next]_vars => Inv'
    <2> SUFFICES ASSUME EditorInv, SavingMarked, EditInHand, [Next]_vars
                 PROVE  SavingMarked' /\ EditInHand'
      BY EditorInductive
    <2>1. CASE UNCHANGED vars
      BY <2>1 DEF vars, fileVars, bufVars, tabVars, SavingMarked, EditInHand, Pending, OnDisk, Mounted
    <2>2. CASE Next
      BY <2>2, SavingStep, PendingStep, PendingBegins, LostStays DEF EditInHand
    <2> QED BY <2>1, <2>2
  <1> QED BY <1>1, <1>2, PTL DEF Spec

=============================================================================
