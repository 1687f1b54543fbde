-------------------------- MODULE StateFileProofs ---------------------------
(***************************************************************************)
(* The state file is whole, and an atomic one, unless two flushes          *)
(* overlapped, for any number of processes, documents and files.           *)
(*                                                                         *)
(* TornOnlyByOverlap says nothing of the temporary, so it is not           *)
(* inductive.  SInv adds who writes it: without an overlap there is one    *)
(* flush at a time, it has the temporary open, the temporary is not the    *)
(* file, and it holds exactly the parts written so far.                    *)
(***************************************************************************)
EXTENDS StateFile, TLAPS

Flushing(p) == step[p] = "writing"
Begun(d, n) == [k \in 1 .. n |-> <<d, k>>]

FlushOwnsTmp ==
  \A p \in Store : Flushing(p) =>
    /\ names["tmp"] # NoInode /\ fd[p] = names["tmp"]
    /\ content[names["tmp"]] = Begun(mem[p], at[p])
OneFlush == \A p, q \in Store : Flushing(p) /\ Flushing(q) => p = q
FileApart ==
  names["file"] # NoInode => /\ names["file"] # names["tmp"]
                             /\ Parses(content[names["file"]])
FlushOfDoc ==
  \A p \in Store : /\ Flushing(p) => /\ mem[p] \in Doc /\ at[p] \in 0 .. Length[mem[p]]
                                     /\ fd[p] \in Inode
                   /\ step[p] = "reading" => fd[p] \in Inode

SInv ==
  /\ TypeOK
  /\ FlushOfDoc
  /\ ~overlapped => FlushOwnsTmp /\ OneFlush /\ FileApart

-----------------------------------------------------------------------------
LEMMA PutType ==
  ASSUME NEW c \in Seq(Part), NEW k \in Nat \ {0}, NEW x \in Part
  PROVE  Put(c, k, x) \in Seq(Part)
  <1> DEFINE n == IF k > Len(c) THEN k ELSE Len(c)
  <1>1. n \in Nat /\ Len(c) \in Nat
        OBVIOUS
  <1>2. Hole \in Part
        BY DEF Part
  <1>3. \A i \in 1 .. n : (IF i = k THEN x ELSE IF i <= Len(c) THEN c[i] ELSE Hole) \in Part
        BY <1>1, <1>2
  <1>4. Put(c, k, x) = [i \in 1 .. n |-> IF i = k THEN x ELSE IF i <= Len(c) THEN c[i] ELSE Hole]
        BY DEF Put
  <1> HIDE DEF n
  <1> QED BY <1>1, <1>3, <1>4

(* a part written after those of the same document *)
LEMMA PutNext ==
  ASSUME NEW d, NEW n \in Nat
  PROVE  Put(Begun(d, n), n + 1, <<d, n + 1>>) = Begun(d, n + 1)
  <1>1. Begun(d, n) \in Seq({d} \X Nat) /\ Len(Begun(d, n)) = n
        BY DEF Begun
  <1>2. Put(Begun(d, n), n + 1, <<d, n + 1>>)
          = [i \in 1 .. n + 1 |-> IF i = n + 1 THEN <<d, n + 1>>
                                  ELSE IF i <= n THEN Begun(d, n)[i] ELSE Hole]
        BY <1>1 DEF Put
  <1>3. \A i \in 1 .. n + 1 : (IF i = n + 1 THEN <<d, n + 1>>
                               ELSE IF i <= n THEN Begun(d, n)[i] ELSE Hole) = <<d, i>>
        BY DEF Begun
  <1> QED BY <1>2, <1>3 DEF Begun

LEMMA InitSInv == Init => SInv
  <1> SUFFICES ASSUME Init PROVE SInv
      OBVIOUS
  <1>1. <<>> \in Seq(Part)
        OBVIOUS
  <1>2. TypeOK
        BY <1>1 DEF Init, TypeOK
  <1>3. \A p \in Store : step[p] = "new"
        BY DEF Init
  <1>4. names["file"] = NoInode
        BY DEF Init
  <1> QED BY <1>2, <1>3, <1>4 DEF SInv, FlushOfDoc, FlushOwnsTmp, OneFlush, FileApart, Flushing

(* load, set and delete do not touch the disk *)
LEMMA ReadingSInv ==
  ASSUME SInv, NEW p \in Store, LoadNothing(p) \/ OpenFile(p) \/ Read(p) \/ SetState(p)
  PROVE  SInv'
  <1>1. UNCHANGED <<names, content, at, overlapped>>
        BY DEF LoadNothing, OpenFile, Read, SetState
  <1>2. \A q \in Store : Flushing(q)' => Flushing(q) /\ mem'[q] = mem[q] /\ fd'[q] = fd[q]
        BY DEF LoadNothing, OpenFile, Read, SetState, Flushing, SInv, TypeOK
  <1>3. TypeOK'
    <2>1. CASE LoadNothing(p)
          BY <1>1, <2>1 DEF LoadNothing, SInv, TypeOK
    <2>2. CASE OpenFile(p)
          BY <1>1, <2>2 DEF OpenFile, SInv, TypeOK
    <2>3. CASE Read(p)
      <3>1. Parses(content[fd[p]]) => Parse(content[fd[p]]) \in Doc
            BY DEF Parses, Parse
      <3> QED BY <1>1, <2>3, <3>1 DEF Read, SInv, TypeOK
    <2>4. CASE SetState(p)
          BY <1>1, <2>4 DEF SetState, SInv, TypeOK
    <2> QED BY <2>1, <2>2, <2>3, <2>4
  <1>4. FlushOfDoc'
    <2>1. \A q \in Store : step'[q] = "reading" => fd'[q] \in Inode
          BY DEF LoadNothing, OpenFile, Read, SetState, SInv, TypeOK, FlushOfDoc
    <2> QED BY <1>1, <1>2, <2>1 DEF SInv, FlushOfDoc
  <1>5. ~overlapped => FlushOwnsTmp' /\ OneFlush' /\ FileApart'
        BY <1>1, <1>2 DEF SInv, FlushOwnsTmp, OneFlush, FileApart
  <1> QED BY <1>1, <1>3, <1>4, <1>5 DEF SInv

(* the open truncates the temporary, or creates it apart from the file *)
LEMMA OpenTmpSInv ==
  ASSUME SInv, NEW p \in Store, OpenTmp(p)
  PROVE  SInv'
  <1>1. PICK i \in Inode :
          /\ IF names["tmp"] = NoInode THEN Unused(i) ELSE i = names["tmp"]
          /\ names' = [names EXCEPT !["tmp"] = i]
          /\ content' = [content EXCEPT ![i] = <<>>]
          /\ fd' = [fd EXCEPT ![p] = i]
        BY DEF OpenTmp
  <1>2. /\ mem[p] \in Doc
        /\ at' = [at EXCEPT ![p] = 0]
        /\ step' = [step EXCEPT ![p] = "writing"]
        /\ overlapped' = (overlapped \/ \E q \in Store : step[q] = "writing")
        /\ mem' = mem
        BY DEF OpenTmp
  <1>3. /\ names'["tmp"] = i /\ names'["file"] = names["file"] /\ i # NoInode
        /\ content'[i] = <<>> /\ \A j \in Inode \ {i} : content'[j] = content[j]
        BY <1>1, StateFileAssumption DEF SInv, TypeOK
  <1>4. TypeOK'
    <2>1. overlapped' \in BOOLEAN
          BY <1>2 DEF SInv, TypeOK
    <2> QED BY <1>1, <1>2, <2>1 DEF SInv, TypeOK
  <1>5. FlushOfDoc'
        BY <1>1, <1>2, StateFileAssumption DEF SInv, TypeOK, FlushOfDoc, Flushing
  <1>6. ASSUME ~overlapped' PROVE FlushOwnsTmp' /\ OneFlush' /\ FileApart'
    <2>1. \A q \in Store : Flushing(q)' => q = p
          BY <1>2, <1>6 DEF SInv, TypeOK, Flushing
    <2>2. Begun(mem[p], 0) = <<>>
          BY DEF Begun
    <2>3. FlushOwnsTmp'
          BY <1>1, <1>2, <1>3, <2>1, <2>2 DEF SInv, TypeOK, FlushOwnsTmp
    <2>4. FileApart'
      <3>1. FileApart
            BY <1>2, <1>6 DEF SInv
      <3>2. names["file"] # i
            BY <1>1, <3>1, <1>3 DEF FileApart, Unused
      <3> QED BY <1>3, <3>1, <3>2 DEF FileApart, SInv, TypeOK
    <2> QED BY <2>1, <2>3, <2>4 DEF OneFlush
  <1> QED BY <1>4, <1>5, <1>6 DEF SInv

LEMMA WritePartSInv ==
  ASSUME SInv, NEW p \in Store, WritePart(p)
  PROVE  SInv'
  <1>1. /\ step[p] = "writing" /\ at[p] < Length[mem[p]]
        /\ content' = [content EXCEPT ![fd[p]] = Put(content[fd[p]], at[p] + 1, <<mem[p], at[p] + 1>>)]
        /\ at' = [at EXCEPT ![p] = at[p] + 1]
        /\ UNCHANGED <<names, step, fd, mem, overlapped>>
        BY DEF WritePart, SInv, TypeOK
  <1>2. mem[p] \in Doc /\ fd[p] \in Inode /\ at[p] \in Nat /\ Length[mem[p]] \in Nat
        BY <1>1, StateFileAssumption DEF SInv, TypeOK, FlushOfDoc, Flushing
  <1>3. TypeOK'
    <2>1. <<mem[p], at[p] + 1>> \in Part
          BY <1>2 DEF Part
    <2>2. content[fd[p]] \in Seq(Part)
          BY <1>2 DEF SInv, TypeOK
    <2>3. Put(content[fd[p]], at[p] + 1, <<mem[p], at[p] + 1>>) \in Seq(Part)
      <3>1. at[p] + 1 \in Nat \ {0}
            BY <1>2
      <3> HIDE DEF Part
      <3> QED BY <2>1, <2>2, <3>1, PutType
    <2> QED BY <1>1, <1>2, <2>3 DEF SInv, TypeOK
  <1>4. FlushOfDoc'
        BY <1>1, <1>2 DEF SInv, TypeOK, FlushOfDoc, Flushing
  <1>5. ASSUME ~overlapped' PROVE FlushOwnsTmp' /\ OneFlush' /\ FileApart'
    <2>1. FlushOwnsTmp /\ OneFlush /\ FileApart
          BY <1>1, <1>5 DEF SInv
    <2>2. OneFlush' /\ \A q \in Store : Flushing(q)' => q = p
          BY <1>1, <2>1 DEF OneFlush, Flushing
    <2>3. content'[names["tmp"]] = Begun(mem[p], at[p] + 1)
          BY <1>1, <1>2, <2>1, PutNext DEF FlushOwnsTmp, Flushing, SInv, TypeOK
    <2>4. FlushOwnsTmp'
          BY <1>1, <2>1, <2>2, <2>3 DEF FlushOwnsTmp, Flushing, SInv, TypeOK
    <2>5. FileApart'
          BY <1>1, <2>1 DEF FileApart, FlushOwnsTmp, Flushing, SInv, TypeOK
    <2> QED BY <2>2, <2>4, <2>5
  <1> QED BY <1>3, <1>4, <1>5 DEF SInv

LEMMA RenameSInv ==
  ASSUME SInv, NEW p \in Store, Rename(p)
  PROVE  SInv'
  <1>1. /\ step[p] = "writing" /\ at[p] = Length[mem[p]] /\ names["tmp"] # NoInode
        /\ names' = [n \in {"file", "tmp"} |-> IF n = "file" THEN names["tmp"] ELSE NoInode]
        /\ step' = [step EXCEPT ![p] = "loaded"]
        /\ fd' = [fd EXCEPT ![p] = NoInode]
        /\ UNCHANGED <<content, at, mem, overlapped>>
        BY DEF Rename, Written
  <1>2. TypeOK'
        BY <1>1 DEF SInv, TypeOK
  <1>3. \A q \in Store : Flushing(q)' => Flushing(q) /\ q # p
        BY <1>1 DEF Flushing, SInv, TypeOK
  <1>4. FlushOfDoc'
        BY <1>1, <1>3 DEF SInv, TypeOK, FlushOfDoc, Flushing
  <1>5. ASSUME ~overlapped' PROVE FlushOwnsTmp' /\ OneFlush' /\ FileApart'
    <2>1. FlushOwnsTmp /\ OneFlush
          BY <1>1, <1>5 DEF SInv
    <2>2. \A q \in Store : ~Flushing(q)'
          BY <1>1, <1>3, <2>1 DEF OneFlush, Flushing
    <2>3. Parses(content[names["tmp"]])
          BY <1>1, <2>1 DEF FlushOwnsTmp, Flushing, Parses, Whole, Begun, SInv, FlushOfDoc
    <2> QED BY <1>1, <2>2, <2>3 DEF FlushOwnsTmp, OneFlush, FileApart
  <1> QED BY <1>2, <1>4, <1>5 DEF SInv

LEMMA EndsSInv ==
  ASSUME SInv, NEW p \in Store, Ends(p)
  PROVE  SInv'
  <1>1. UNCHANGED <<names, content, at, overlapped>>
        BY DEF Ends
  <1>2. TypeOK'
        BY DEF Ends, SInv, TypeOK
  <1>3. \A q \in Store : q # p => step'[q] = step[q] /\ fd'[q] = fd[q] /\ mem'[q] = mem[q]
        BY DEF Ends, SInv, TypeOK
  <1>4. step'[p] = "new"
        BY DEF Ends, SInv, TypeOK
  <1>5. FlushOfDoc'
        BY <1>1, <1>3, <1>4 DEF SInv, FlushOfDoc, Flushing
  <1>6. ~overlapped => FlushOwnsTmp' /\ OneFlush' /\ FileApart'
        BY <1>1, <1>3, <1>4 DEF SInv, FlushOwnsTmp, OneFlush, FileApart, Flushing
  <1> QED BY <1>1, <1>2, <1>5, <1>6 DEF SInv

LEMMA NextSInv == SInv /\ [Next]_vars => SInv'
  <1> SUFFICES ASSUME SInv, [Next]_vars PROVE SInv'
      OBVIOUS
  <1>1. CASE UNCHANGED vars
        BY <1>1 DEF vars, SInv, TypeOK, FlushOfDoc, FlushOwnsTmp, OneFlush, FileApart, Flushing
  <1>2. CASE Next
        BY <1>2, ReadingSInv, OpenTmpSInv, WritePartSInv, RenameSInv, EndsSInv
           DEF Next, RenameFails, Exit
  <1> QED BY <1>1, <1>2

(* The file is whole while no two flushes overlapped: torn states come from *)
(* the shared temporary name of filestore.ts and from nothing else          *)
THEOREM FileIsWhole == Spec => []TornOnlyByOverlap
  <1>1. SInv => TornOnlyByOverlap
        BY DEF SInv, FileApart, TornOnlyByOverlap
  <1> QED BY <1>1, InitSInv, NextSInv, PTL DEF Spec

(* A flush that meets no other one finds its temporary when it renames it   *)
THEOREM LoneFlushSucceeds == Spec => FailsOnlyByOverlap
  <1>1. SInv => [\A p \in Store : RenameFails(p) => overlapped]_vars
        BY DEF SInv, FlushOwnsTmp, RenameFails, Written, Flushing
  <1> QED BY <1>1, InitSInv, NextSInv, PTL DEF Spec, FailsOnlyByOverlap


-----------------------------------------------------------------------------
(* AtomicFile.  A load takes effect when the file is opened, so what a      *)
(* reader has open must stay as it was until it has read it: without an     *)
(* overlap no flush writes to an inode that is open for reading.            *)

ReadersApart ==
  \A p \in Store : step[p] = "reading" => fd[p] # names["tmp"] /\ Parses(content[fd[p]])
Loads ==
  \A p \in Store : /\ step[p] \in {"new", "reading"} => mem[p] = None
                   /\ step[p] \in {"loaded", "writing"} => mem[p] # None
                   /\ step[p] = "writing" => p \in Writer

RInv == SInv /\ Loads /\ (~overlapped => ReadersApart)

(* documents are told apart by their first part *)
LEMMA ParseWhole ==
  ASSUME NEW d \in Doc
  PROVE  Parses(Whole(d)) /\ Parse(Whole(d)) = d
  <1>1. ASSUME NEW e \in Doc, Whole(d) = Whole(e) PROVE e = d
    <2>1. 1 \in 1 .. Length[d] /\ 1 \in 1 .. Length[e]
          BY StateFileAssumption
    <2>2. Whole(d)[1] = <<d, 1>> /\ Whole(e)[1] = <<e, 1>>
          BY <2>1 DEF Whole
    <2> QED BY <1>1, <2>2
  <1> QED BY <1>1 DEF Parses, Parse

LEMMA ParseType ==
  ASSUME NEW c, Parses(c)
  PROVE  Parse(c) \in Doc /\ Parse(c) # None
  <1>1. Parse(c) \in Doc
        BY DEF Parses, Parse
  <1> QED BY <1>1, StateFileAssumption

LEMMA InitRInv == Init => RInv
  <1>1. Init => SInv
        BY InitSInv
  <1> QED BY <1>1 DEF Init, RInv, Loads, ReadersApart

(* A document that has been written whole *)
LEMMA BegunIsWhole ==
  ASSUME SInv, ~overlapped, NEW p \in Store, Written(p)
  PROVE  mem[p] \in Doc /\ content[names["tmp"]] = Whole(mem[p]) /\ names["tmp"] # NoInode
  BY DEF SInv, FlushOwnsTmp, FlushOfDoc, Flushing, Written, Begun, Whole

LEMMA NextRInv == RInv /\ [Next]_vars => RInv'
  <1> SUFFICES ASSUME RInv, [Next]_vars PROVE RInv'
      OBVIOUS
  <1>1. SInv'
        BY NextSInv DEF RInv
  <1>2. SInv /\ TypeOK /\ Loads
        BY DEF RInv, SInv
  <1>3. Loads'
    <2>1. ASSUME NEW p \in Store, LoadNothing(p) \/ OpenFile(p) \/ Read(p) PROVE Loads'
          BY <1>2, <2>1, ParseType, StateFileAssumption
             DEF LoadNothing, OpenFile, Read, Loads, TypeOK
    <2>2. ASSUME NEW p \in Store, SetState(p) \/ OpenTmp(p) PROVE Loads'
          BY <1>2, <2>2, StateFileAssumption DEF SetState, OpenTmp, Loads, TypeOK
    <2>3. ASSUME NEW p \in Store, WritePart(p) \/ Rename(p) PROVE Loads'
          BY <1>2, <2>3 DEF WritePart, Rename, Written, Loads, TypeOK
    <2>4. ASSUME NEW p \in Store, Ends(p) PROVE Loads'
          BY <1>2, <2>4 DEF Ends, Loads, TypeOK
    <2>5. CASE UNCHANGED vars
          BY <1>2, <2>5 DEF vars, Loads
    <2> QED BY <2>1, <2>2, <2>3, <2>4, <2>5 DEF Next, RenameFails, Exit
  <1>4. ASSUME ~overlapped' PROVE ReadersApart'
    <2>1. ~overlapped /\ ReadersApart /\ FlushOwnsTmp /\ FileApart
      <3>1. overlapped => overlapped'
            BY <1>2 DEF Next, vars, LoadNothing, OpenFile, Read, SetState, OpenTmp, WritePart, Rename,
                        RenameFails, Exit, Ends, TypeOK
      <3> QED BY <1>4, <3>1 DEF RInv, SInv
    <2>2. ASSUME NEW p \in Store, LoadNothing(p) \/ OpenFile(p) \/ Read(p) \/ SetState(p)
          PROVE  ReadersApart'
          BY <1>2, <2>1, <2>2 DEF LoadNothing, OpenFile, Read, SetState, ReadersApart, FileApart, TypeOK
    <2>3. ASSUME NEW p \in Store, OpenTmp(p) PROVE ReadersApart'
      <3>1. PICK i \in Inode :
              /\ IF names["tmp"] = NoInode THEN Unused(i) ELSE i = names["tmp"]
              /\ names' = [names EXCEPT !["tmp"] = i]
              /\ content' = [content EXCEPT ![i] = <<>>]
              /\ fd' = [fd EXCEPT ![p] = i]
            BY <2>3 DEF OpenTmp
      <3>2. step' = [step EXCEPT ![p] = "writing"]
            BY <2>3 DEF OpenTmp
      <3>3. ASSUME NEW q \in Store, step'[q] = "reading"
            PROVE  fd'[q] # names'["tmp"] /\ Parses(content'[fd'[q]])
        <4>1. q # p /\ step[q] = "reading" /\ fd'[q] = fd[q] /\ names'["tmp"] = i
              BY <1>2, <3>1, <3>2, <3>3 DEF TypeOK
        <4>2. fd[q] # i
              BY <2>1, <3>1, <4>1 DEF ReadersApart, Unused
        <4>3. content'[fd[q]] = content[fd[q]]
              BY <1>2, <3>1, <4>1, <4>2 DEF SInv, FlushOfDoc, TypeOK
        <4> QED BY <2>1, <4>1, <4>2, <4>3 DEF ReadersApart
      <3> QED BY <3>3 DEF ReadersApart
    <2>4. ASSUME NEW p \in Store, WritePart(p) PROVE ReadersApart'
      <3>1. /\ step[p] = "writing" /\ UNCHANGED <<names, step, fd>>
            /\ content' = [content EXCEPT ![fd[p]] = Put(content[fd[p]], at[p] + 1, <<mem[p], at[p] + 1>>)]
            BY <2>4 DEF WritePart
      <3>2. fd[p] = names["tmp"]
            BY <2>1, <3>1 DEF FlushOwnsTmp, Flushing
      <3>3. \A q \in Store : step[q] = "reading" => content'[fd[q]] = content[fd[q]]
            BY <1>2, <2>1, <3>1, <3>2 DEF ReadersApart, SInv, FlushOfDoc, TypeOK
      <3> QED BY <2>1, <3>1, <3>3 DEF ReadersApart
    <2>5. ASSUME NEW p \in Store, Rename(p) PROVE ReadersApart'
      <3>1. \A q \in Store : step[q] = "reading" => fd[q] # NoInode
            BY <1>2, StateFileAssumption DEF SInv, FlushOfDoc
      <3> QED BY <1>2, <2>1, <2>5, <3>1 DEF Rename, Written, ReadersApart, TypeOK
    <2>6. ASSUME NEW p \in Store, Ends(p) PROVE ReadersApart'
          BY <1>2, <2>1, <2>6 DEF Ends, ReadersApart, TypeOK
    <2>7. CASE UNCHANGED vars
          BY <2>1, <2>7 DEF vars, ReadersApart
    <2> QED BY <2>2, <2>3, <2>4, <2>5, <2>6, <2>7 DEF Next, RenameFails, Exit
  <1> QED BY <1>1, <1>3, <1>4 DEF RInv


-----------------------------------------------------------------------------
(* The steps of the store as steps of an AtomicFile                         *)

Copies == [p \in Store |-> View(p)]
Calm == RInv /\ ~overlapped /\ ~overlapped'

(* steps that leave the file and what every process sees in it *)
LEMMA SeenUnchanged ==
  ASSUME Calm, names' = [names EXCEPT !["tmp"] = names'["tmp"]],
         UNCHANGED mem,
         \A q \in Store : step'[q] = "reading" <=> step[q] = "reading",
         \A q \in Store : step[q] = "reading" => fd'[q] = fd[q] /\ content'[fd[q]] = content[fd[q]],
         names["file"] # NoInode => content'[names["file"]] = content[names["file"]]
  PROVE  FileValue' = FileValue /\ Copies' = Copies
  <1>1. names'["file"] = names["file"]
        BY DEF Calm, RInv, SInv, TypeOK
  <1>2. FileValue' = FileValue
        BY <1>1 DEF FileValue
  <1>3. \A q \in Store : View(q)' = View(q)
        BY DEF View
  <1> QED BY <1>2, <1>3 DEF Copies

LEMMA FlushIsHidden ==
  ASSUME Calm, NEW p \in Store, OpenTmp(p) \/ WritePart(p)
  PROVE  FileValue' = FileValue /\ Copies' = Copies
  <1>1. /\ TypeOK /\ FlushOfDoc /\ FlushOwnsTmp /\ FileApart /\ ReadersApart
        BY DEF Calm, RInv, SInv
  <1>2. CASE OpenTmp(p)
    <2>1. PICK i \in Inode :
            /\ IF names["tmp"] = NoInode THEN Unused(i) ELSE i = names["tmp"]
            /\ names' = [names EXCEPT !["tmp"] = i]
            /\ content' = [content EXCEPT ![i] = <<>>]
            /\ fd' = [fd EXCEPT ![p] = i]
          BY <1>2 DEF OpenTmp
    <2>2. step' = [step EXCEPT ![p] = "writing"] /\ step[p] = "loaded" /\ UNCHANGED mem
          BY <1>2 DEF OpenTmp
    <2>3. names' = [names EXCEPT !["tmp"] = names'["tmp"]]
          BY <1>1, <2>1 DEF TypeOK
    <2>4. \A q \in Store : step'[q] = "reading" <=> step[q] = "reading"
          BY <1>1, <2>2 DEF TypeOK
    <2>5. ASSUME NEW q \in Store, step[q] = "reading"
          PROVE  fd'[q] = fd[q] /\ content'[fd[q]] = content[fd[q]]
          BY <1>1, <2>1, <2>2, <2>5 DEF TypeOK, ReadersApart, Unused, FlushOfDoc
    <2>6. names["file"] # NoInode => content'[names["file"]] = content[names["file"]]
          BY <1>1, <2>1 DEF TypeOK, FileApart, Unused
    <2> QED BY <1>1, <2>2, <2>3, <2>4, <2>5, <2>6, SeenUnchanged
  <1>3. CASE WritePart(p)
    <2>1. /\ step[p] = "writing" /\ UNCHANGED <<names, step, fd, mem>>
          /\ content' = [content EXCEPT ![fd[p]] = Put(content[fd[p]], at[p] + 1, <<mem[p], at[p] + 1>>)]
          BY <1>3 DEF WritePart
    <2>2. fd[p] = names["tmp"] /\ names' = [names EXCEPT !["tmp"] = names'["tmp"]]
          BY <1>1, <2>1 DEF FlushOwnsTmp, Flushing, TypeOK
    <2>3. ASSUME NEW q \in Store, step[q] = "reading"
          PROVE  fd'[q] = fd[q] /\ content'[fd[q]] = content[fd[q]]
          BY <1>1, <2>1, <2>2, <2>3 DEF ReadersApart, FlushOfDoc, TypeOK
    <2>4. names["file"] # NoInode => content'[names["file"]] = content[names["file"]]
          BY <1>1, <2>1, <2>2 DEF FileApart, TypeOK
    <2> QED BY <1>1, <2>1, <2>2, <2>3, <2>4, SeenUnchanged
  <1> QED BY <1>2, <1>3

(* a load takes the value of the file when it opens it *)
LEMMA LoadIsRead ==
  ASSUME Calm, NEW p \in Store, LoadNothing(p) \/ OpenFile(p)
  PROVE  Atomic!ReadWhole(p)
  <1>1. TypeOK /\ Loads
        BY DEF Calm, RInv, SInv
  <1>2. /\ step[p] = "new" /\ UNCHANGED <<names, content>>
        /\ View(p) = None
        BY <1>1 DEF LoadNothing, OpenFile, View, Loads
  <1>3. FileValue' = FileValue
        BY <1>2 DEF FileValue
  <1>4. View(p)' = FileValue
        BY <1>1 DEF LoadNothing, OpenFile, View, FileValue, TypeOK
  <1>5. \A q \in Store : q # p => View(q)' = View(q)
        BY <1>1, <1>2 DEF LoadNothing, OpenFile, View, TypeOK
  <1>6. Copies' = [Copies EXCEPT ![p] = FileValue]
        BY <1>4, <1>5 DEF Copies
  <1> QED BY <1>2, <1>3, <1>6 DEF Atomic!ReadWhole, Copies

LEMMA ReadIsHidden ==
  ASSUME Calm, NEW p \in Store, Read(p)
  PROVE  FileValue' = FileValue /\ Copies' = Copies
  <1>1. TypeOK /\ ReadersApart
        BY DEF Calm, RInv, SInv
  <1>2. /\ step[p] = "reading" /\ fd' = [fd EXCEPT ![p] = NoInode]
        /\ step' = [step EXCEPT ![p] = "loaded"] /\ mem' = [mem EXCEPT ![p] = Parse(content[fd[p]])]
        /\ UNCHANGED <<names, content>>
        BY <1>1 DEF Read, ReadersApart
  <1>3. FileValue' = FileValue
        BY <1>2 DEF FileValue
  <1>4. \A q \in Store : View(q)' = View(q)
        BY <1>1, <1>2 DEF View, TypeOK
  <1> QED BY <1>3, <1>4 DEF Copies

LEMMA SetIsChange ==
  ASSUME Calm, NEW p \in Store, SetState(p)
  PROVE  p \in Writer /\ \E d \in Doc : Atomic!Change(p, d)
  <1>1. TypeOK /\ Loads
        BY DEF Calm, RInv, SInv
  <1>2. PICK d \in Doc : /\ step[p] = "loaded" /\ p \in Writer /\ mem' = [mem EXCEPT ![p] = d]
                         /\ UNCHANGED <<names, content, step, fd>>
        BY DEF SetState
  <1>3. FileValue' = FileValue
        BY <1>2 DEF FileValue
  <1>4. View(p) # None /\ View(p)' = d /\ \A q \in Store : q # p => View(q)' = View(q)
        BY <1>1, <1>2 DEF View, TypeOK, Loads
  <1>5. Copies' = [Copies EXCEPT ![p] = d] /\ Copies[p] # None
        BY <1>4 DEF Copies
  <1> QED BY <1>2, <1>3, <1>5 DEF Atomic!Change, Copies

LEMMA RenameIsReplace ==
  ASSUME Calm, NEW p \in Store, Rename(p)
  PROVE  p \in Writer /\ Atomic!Replace(p)
  <1>1. TypeOK /\ Loads /\ ReadersApart
        BY DEF Calm, RInv, SInv
  <1>2. /\ step[p] = "writing" /\ Written(p)
        /\ names' = [n \in {"file", "tmp"} |-> IF n = "file" THEN names["tmp"] ELSE NoInode]
        /\ step' = [step EXCEPT ![p] = "loaded"] /\ fd' = [fd EXCEPT ![p] = NoInode]
        /\ UNCHANGED <<content, mem>>
        BY DEF Rename, Written
  <1>3. mem[p] \in Doc /\ content[names["tmp"]] = Whole(mem[p]) /\ names["tmp"] # NoInode
        BY <1>2, BegunIsWhole DEF Calm, RInv
  <1>4. names'["file"] = names["tmp"]
        BY <1>2
  <1>5. FileValue' = mem[p]
        BY <1>2, <1>3, <1>4, ParseWhole DEF FileValue
  <1>6. View(p) = mem[p] /\ \A q \in Store : View(q)' = View(q)
        BY <1>1, <1>2 DEF View, TypeOK
  <1>7. Copies' = Copies /\ Copies[p] = mem[p]
        BY <1>6 DEF Copies
  <1> QED BY <1>1, <1>2, <1>3, <1>5, <1>7 DEF Atomic!Replace, Copies, Loads

LEMMA EndIsClose ==
  ASSUME Calm, NEW p \in Store, Ends(p)
  PROVE  Atomic!Close(p)
  <1>1. TypeOK
        BY DEF Calm, RInv, SInv
  <1>2. FileValue' = FileValue
        BY DEF Ends, FileValue
  <1>3. View(p)' = None /\ \A q \in Store : q # p => View(q)' = View(q)
        BY <1>1 DEF Ends, View, TypeOK
  <1>4. Copies' = [Copies EXCEPT ![p] = None]
        BY <1>3 DEF Copies
  <1> QED BY <1>2, <1>4 DEF Atomic!Close, Copies

(* What filestore.ts gives the commands until two flushes are in progress   *)
(* at once: one value, read and replaced whole, with any number of readers, *)
(* writers and deaths                                                       *)
THEOREM StoreIsAtomic == Spec => ImplementsAtomicFile
  <1>1. Init => Atomic!FileInit
    <2> SUFFICES ASSUME Init PROVE Atomic!FileInit
        OBVIOUS
    <2>1. FileValue = Default /\ Copies = [p \in Store |-> None] /\ overlapped = FALSE
          BY DEF Init, FileValue, Copies, View
    <2> QED BY <2>1 DEF Atomic!FileInit, Copies
  <1>2. RInv /\ [Next]_vars => [Atomic!FileNext]_(Atomic!fileVars)
    <2> SUFFICES ASSUME RInv, [Next]_vars PROVE [Atomic!FileNext]_(Atomic!fileVars)
        OBVIOUS
    <2>1. CASE overlapped'
          BY <2>1 DEF Atomic!FileNext
    <2>2. CASE UNCHANGED vars
          BY <2>2 DEF vars, Atomic!fileVars, FileValue, View
    <2>3. CASE ~overlapped' /\ Next
      <3>1. overlapped \in BOOLEAN /\ overlapped' \in BOOLEAN /\ (overlapped => overlapped')
        <4>1. TypeOK /\ TypeOK'
              BY NextRInv DEF RInv, SInv
        <4>2. overlapped => overlapped'
              BY <2>3, <4>1 DEF Next, LoadNothing, OpenFile, Read, SetState, OpenTmp, WritePart, Rename,
                 RenameFails, Exit, Ends, TypeOK
        <4> QED BY <4>1, <4>2 DEF TypeOK
      <3>2. Calm
            BY <2>3, <3>1 DEF Calm
      <3>3. overlapped = FALSE /\ overlapped' = FALSE
            BY <2>3, <3>1, <3>2 DEF Calm
      <3>4. CASE \E p \in Store : OpenTmp(p) \/ WritePart(p) \/ Read(p)
        <4>1. FileValue' = FileValue /\ Copies' = Copies
              BY <3>2, <3>4, FlushIsHidden, ReadIsHidden
        <4> QED BY <3>3, <4>1 DEF Atomic!fileVars, Copies
      <3>5. CASE \E p \in Store : LoadNothing(p) \/ OpenFile(p)
        <4>1. \E p \in Store : Atomic!ReadWhole(p)
              BY <3>2, <3>5, LoadIsRead
        <4> QED BY <2>3, <3>2, <4>1 DEF Atomic!FileNext, Calm
      <3>6. CASE \E p \in Store : SetState(p)
        <4>1. \E p \in Writer : \E d \in Doc : Atomic!Change(p, d)
              BY <3>2, <3>6, SetIsChange
        <4> QED BY <2>3, <3>2, <4>1 DEF Atomic!FileNext, Calm
      <3>7. CASE \E p \in Store : Rename(p)
        <4>1. \E p \in Writer : Atomic!Replace(p)
              BY <3>2, <3>7, RenameIsReplace
        <4> QED BY <2>3, <3>2, <4>1 DEF Atomic!FileNext, Calm
      <3>8. CASE \E p \in Store : RenameFails(p) \/ Exit(p)
        <4>1. \E p \in Store : Atomic!Close(p)
              BY <3>2, <3>8, EndIsClose DEF RenameFails, Exit
        <4> QED BY <2>3, <3>2, <4>1 DEF Atomic!FileNext, Calm
      <3> QED BY <2>3, <3>4, <3>5, <3>6, <3>7, <3>8 DEF Next
    <2> QED BY <2>1, <2>2, <2>3
  <1> QED BY <1>1, <1>2, InitRInv, NextRInv, PTL DEF Spec, ImplementsAtomicFile, Atomic!FileSpec
=============================================================================
