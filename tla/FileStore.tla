----------------------------- MODULE FileStore -----------------------------
(***************************************************************************)
(* What the file system calls of OS-lab-xv6-lock promise: a file that has  *)
(* a name or is open stays, whatever the calls of others do, and a crash   *)
(* goes back to a state of the past in which the same was true.            *)
(***************************************************************************)
CONSTANTS
  File,   \* files and directories
  Name,
  Proc,
  NoFile  \* what an unused name and a closed descriptor stand for

VARIABLES
  files,    \* the files that exist
  names,    \* the directories' entries
  open,     \* the file that each process has open
  durableFiles, durableNames  \* what a crash goes back to

durable == <<durableFiles, durableNames>>
vars == <<files, names, open, durable>>

NoNames == [n \in Name |-> NoFile]

Make(f) ==
  /\ files' = files \cup {f}
  /\ UNCHANGED <<names, open, durable>>

Bind(d, n, f) ==
  /\ names[d][n] = NoFile
  /\ names' = [names EXCEPT ![d][n] = f]
  /\ UNCHANGED <<files, open, durable>>

Unbind(d, n) ==
  /\ names[d][n] # NoFile
  /\ names' = [names EXCEPT ![d][n] = NoFile]
  /\ UNCHANGED <<files, open, durable>>

Open(p, f) ==
  /\ open[p] = NoFile
  /\ open' = [open EXCEPT ![p] = f]
  /\ UNCHANGED <<files, names, durable>>

Close(p) ==
  /\ open[p] # NoFile
  /\ open' = [open EXCEPT ![p] = NoFile]
  /\ UNCHANGED <<files, names, durable>>

\* A file goes when nothing names it and nobody has it open.
Free(f) ==
  /\ \A d \in files, n \in Name : names[d][n] # f
  /\ \A p \in Proc : open[p] # f
  /\ names' = [names EXCEPT ![f] = NoNames]
  /\ files' = files \ {f}
  /\ UNCHANGED <<open, durable>>

Commit ==
  /\ durableNames' = names /\ durableFiles' = files
  /\ UNCHANGED <<files, names, open>>

Crash ==
  /\ names' = durableNames /\ files' = durableFiles
  /\ open' = [p \in Proc |-> NoFile]
  /\ UNCHANGED durable

Init ==
  /\ \E root \in File : files = {root}
  /\ names = [d \in File |-> NoNames]
  /\ open = [p \in Proc |-> NoFile]
  /\ durableFiles = files /\ durableNames = names

Next ==
  \/ \E f \in File \ files : Make(f)
  \/ \E f \in files : Free(f)
  \/ \E d \in files, n \in Name : Unbind(d, n) \/ \E f \in files : Bind(d, n, f)
  \/ \E p \in Proc : Close(p) \/ \E f \in files : Open(p, f)
  \/ Commit
  \/ Crash

Spec == Init /\ [][Next]_vars
=============================================================================
