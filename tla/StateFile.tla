----------------------------- MODULE StateFile ------------------------------
(***************************************************************************)
(* FileBackedPoolStateStore (packages/pool-state/src/filestore.ts): the    *)
(* state of a profile is one JSON file, read once by each process and      *)
(* replaced by writing <file>.tmp and renaming it.  The temporary name is  *)
(* the same for every process.                                             *)
(*                                                                         *)
(* The file system is modelled as far as the store can tell: names refer   *)
(* to inodes, an open file keeps its inode when the name moves on, a file  *)
(* opened for writing is truncated and written at the writer's own offset, *)
(* and a process may die between any two of its calls.  A document is a    *)
(* number of parts; JSON.parse accepts exactly a whole one.                *)
(***************************************************************************)
EXTENDS Integers, Sequences

CONSTANTS
  Store,    \* processes that open the state of the profile
  Writer,   \* those that save it
  Doc,      \* documents that may be saved
  Length,   \* parts of each
  Default,  \* DEFAULT_FILE, used when there is no file
  Torn,     \* a content that does not parse
  Inode,    \* files on disk
  NoInode,  \* a name that does not exist
  None      \* not loaded

ASSUME StateFileAssumption ==
  /\ Writer \subseteq Store
  /\ Length \in [Doc -> Nat \ {0}]
  /\ Default \notin Doc /\ None \notin Doc \cup {Default} /\ Torn \notin Doc \cup {Default, None}
  /\ NoInode \notin Inode

VARIABLES
  names,      \* the inode of the file and of its temporary
  content,    \* inode -> the parts written to it
  step,       \* "new", "reading", "loaded" or "writing"
  fd,         \* the inode a process has open
  at,         \* parts it has written
  mem,        \* this.file of each process
  overlapped  \* two flushes have been in progress at once (history)

vars == <<names, content, step, fd, at, mem, overlapped>>

Hole == <<Default, 0>>
Part == (Doc \X (Nat \ {0})) \cup {Hole}
Whole(d) == [k \in 1 .. Length[d] |-> <<d, k>>]
Parses(c) == \E d \in Doc : c = Whole(d)
Parse(c) == IF Parses(c) THEN CHOOSE d \in Doc : c = Whole(d) ELSE Torn

(* part x written at offset k, the gap before it filled with zeros *)
Put(c, k, x) ==
  [i \in 1 .. (IF k > Len(c) THEN k ELSE Len(c)) |->
     IF i = k THEN x ELSE IF i <= Len(c) THEN c[i] ELSE Hole]

Init ==
  /\ names = [n \in {"file", "tmp"} |-> NoInode]
  /\ content = [i \in Inode |-> <<>>]
  /\ step = [p \in Store |-> "new"]
  /\ fd = [p \in Store |-> NoInode]
  /\ at = [p \in Store |-> 0]
  /\ mem = [p \in Store |-> None]
  /\ overlapped = FALSE

-----------------------------------------------------------------------------
(* load: once per process.  No file is an empty state, any other error and *)
(* a content that does not parse end the command.                          *)

LoadNothing(p) ==
  /\ step[p] = "new" /\ names["file"] = NoInode
  /\ step' = [step EXCEPT ![p] = "loaded"]
  /\ mem' = [mem EXCEPT ![p] = Default]
  /\ UNCHANGED <<names, content, fd, at, overlapped>>

OpenFile(p) ==
  /\ step[p] = "new" /\ names["file"] # NoInode
  /\ step' = [step EXCEPT ![p] = "reading"]
  /\ fd' = [fd EXCEPT ![p] = names["file"]]
  /\ UNCHANGED <<names, content, at, mem, overlapped>>

Read(p) ==
  /\ step[p] = "reading"
  /\ fd' = [fd EXCEPT ![p] = NoInode]
  /\ IF Parses(content[fd[p]])
       THEN /\ step' = [step EXCEPT ![p] = "loaded"]
            /\ mem' = [mem EXCEPT ![p] = Parse(content[fd[p]])]
       ELSE step' = [step EXCEPT ![p] = "new"] /\ UNCHANGED mem
  /\ UNCHANGED <<names, content, at, overlapped>>

(* set and delete change the copy in memory only *)
SetState(p) ==
  \E d \in Doc :
    /\ step[p] = "loaded" /\ p \in Writer
    /\ mem' = [mem EXCEPT ![p] = d]
    /\ UNCHANGED <<names, content, step, fd, at, overlapped>>

(* flush: writeFile of the temporary, then rename.                         *)
Unused(i) == i \notin {names["file"], names["tmp"]} /\ \A q \in Store : fd[q] # i

\* faulty variant: an existing temporary is not truncated
OpenTmpAsItIs(p) ==
  /\ step[p] = "loaded" /\ p \in Writer /\ mem[p] \in Doc
  /\ \E i \in Inode :
       /\ IF names["tmp"] = NoInode THEN Unused(i) ELSE i = names["tmp"]
       /\ names' = [names EXCEPT !["tmp"] = i]
       /\ content' = [content EXCEPT ![i] = IF names["tmp"] = NoInode THEN <<>> ELSE @]
       /\ fd' = [fd EXCEPT ![p] = i]
  /\ at' = [at EXCEPT ![p] = 0]
  /\ step' = [step EXCEPT ![p] = "writing"]
  /\ overlapped' = (overlapped \/ \E q \in Store : step[q] = "writing")
  /\ UNCHANGED mem

OpenTmp(p) ==
  /\ step[p] = "loaded" /\ p \in Writer /\ mem[p] \in Doc
  /\ \E i \in Inode :
       /\ IF names["tmp"] = NoInode THEN Unused(i) ELSE i = names["tmp"]
       /\ names' = [names EXCEPT !["tmp"] = i]
       /\ content' = [content EXCEPT ![i] = <<>>]
       /\ fd' = [fd EXCEPT ![p] = i]
  /\ at' = [at EXCEPT ![p] = 0]
  /\ step' = [step EXCEPT ![p] = "writing"]
  /\ overlapped' = (overlapped \/ \E q \in Store : step[q] = "writing")
  /\ UNCHANGED mem

WritePart(p) ==
  /\ step[p] = "writing" /\ at[p] < Length[mem[p]]
  /\ content' = [content EXCEPT ![fd[p]] = Put(@, at[p] + 1, <<mem[p], at[p] + 1>>)]
  /\ at' = [at EXCEPT ![p] = @ + 1]
  /\ UNCHANGED <<names, step, fd, mem, overlapped>>

Written(p) == step[p] = "writing" /\ at[p] = Length[mem[p]]

\* faulty variant: writeFile not awaited
RenameAtOnce(p) ==
  /\ step[p] = "writing" /\ names["tmp"] # NoInode
  /\ names' = [n \in {"file", "tmp"} |-> IF n = "file" THEN names["tmp"] ELSE NoInode]
  /\ step' = [step EXCEPT ![p] = "loaded"]
  /\ fd' = [fd EXCEPT ![p] = NoInode]
  /\ UNCHANGED <<content, at, mem, overlapped>>

\* faulty variant: the rename is retried after it succeeded
RenameAgain(p) ==
  /\ Written(p) /\ names["tmp"] # NoInode
  /\ names' = [n \in {"file", "tmp"} |-> IF n = "file" THEN names["tmp"] ELSE NoInode]
  /\ UNCHANGED <<content, step, fd, at, mem, overlapped>>

(* rename moves whatever the temporary name stands for by now *)
Rename(p) ==
  /\ Written(p) /\ names["tmp"] # NoInode
  /\ names' = [n \in {"file", "tmp"} |-> IF n = "file" THEN names["tmp"] ELSE NoInode]
  /\ step' = [step EXCEPT ![p] = "loaded"]
  /\ fd' = [fd EXCEPT ![p] = NoInode]
  /\ UNCHANGED <<content, at, mem, overlapped>>

Ends(p) ==
  /\ step' = [step EXCEPT ![p] = "new"]
  /\ fd' = [fd EXCEPT ![p] = NoInode]
  /\ mem' = [mem EXCEPT ![p] = None]
  /\ UNCHANGED <<names, content, at, overlapped>>

(* ENOENT: the flush throws and the command ends *)
RenameFails(p) == Written(p) /\ names["tmp"] = NoInode /\ Ends(p)

(* the process exits, is killed or dies; the next command is a new process *)
Exit(p) == step[p] # "new" /\ Ends(p)

Next ==
  \E p \in Store :
    \/ LoadNothing(p) \/ OpenFile(p) \/ Read(p)
    \/ SetState(p)
    \/ OpenTmp(p) \/ WritePart(p) \/ Rename(p) \/ RenameFails(p)
    \/ Exit(p)

Spec == Init /\ [][Next]_vars

-----------------------------------------------------------------------------
TypeOK ==
  /\ names \in [{"file", "tmp"} -> Inode \cup {NoInode}]
  /\ content \in [Inode -> Seq(Part)]
  /\ step \in [Store -> {"new", "reading", "loaded", "writing"}]
  /\ fd \in [Store -> Inode \cup {NoInode}]
  /\ at \in [Store -> Nat]
  /\ mem \in [Store -> Doc \cup {Default, None}]
  /\ overlapped \in BOOLEAN

(* The file is whole at every moment, readers and crashes at any point      *)
(* included, as long as no two processes have flushed at the same time      *)
TornOnlyByOverlap ==
  ~overlapped => (names["file"] # NoInode => Parses(content[names["file"]]))

(* ... and a flush fails only when another one was in progress              *)
FailsOnlyByOverlap ==
  [][\A p \in Store : RenameFails(p) => overlapped]_vars

(* Until two flushes overlap, writers, readers and crashes notwithstanding, *)
(* the file and the copies are AtomicFile's: a load takes effect when it    *)
(* opens the file, a save when it renames the temporary.                    *)
FileValue == IF names["file"] = NoInode THEN Default ELSE Parse(content[names["file"]])
View(p) == IF step[p] = "reading" THEN Parse(content[fd[p]]) ELSE mem[p]
Atomic == INSTANCE AtomicFile WITH value <- FileValue, copy <- [p \in Store |-> View(p)],
                              clash <- overlapped
ImplementsAtomicFile == Atomic!FileSpec
=============================================================================
