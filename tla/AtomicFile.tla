----------------------------- MODULE AtomicFile -----------------------------
(***************************************************************************)
(* What the commands rely on when they load and save the pool state: one   *)
(* value, read and replaced whole, until two of them save at once.         *)
(***************************************************************************)
CONSTANTS
  Store,    \* processes with a FileBackedPoolStateStore
  Writer,   \* those that save
  Doc,      \* documents that may be saved
  Default,  \* what a store holds when there is no file
  None      \* a store that has not loaded

VARIABLES
  value,  \* the document in the file
  copy,   \* what each store holds
  clash   \* two stores have saved at the same time: nothing is promised

fileVars == <<value, copy, clash>>

FileInit ==
  /\ value = Default
  /\ copy = [p \in Store |-> None]
  /\ clash = FALSE

ReadWhole(p) ==
  /\ copy[p] = None
  /\ copy' = [copy EXCEPT ![p] = value]
  /\ UNCHANGED value

Change(p, d) ==
  /\ copy[p] # None
  /\ copy' = [copy EXCEPT ![p] = d]
  /\ UNCHANGED value

Replace(p) ==
  /\ copy[p] \in Doc
  /\ value' = copy[p]
  /\ UNCHANGED copy

Close(p) ==
  /\ copy' = [copy EXCEPT ![p] = None]
  /\ UNCHANGED value

FileNext ==
  \/ clash'
  \/ /\ ~clash /\ ~clash'
     /\ \/ \E p \in Store : ReadWhole(p) \/ Close(p)
        \/ \E p \in Writer : Replace(p) \/ \E d \in Doc : Change(p, d)

FileSpec == FileInit /\ [][FileNext]_fileVars
=============================================================================
