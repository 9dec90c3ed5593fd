------------------------------ MODULE FdTable ------------------------------
(***************************************************************************)
(* The descriptor table of the process, as the wrappers use it (external:  *)
(* the kernel).  A descriptor number is a slot of the table; what is open  *)
(* behind it is a file, whose identity is the rank of the call that opened *)
(* it.  The kernel hands out the lowest free number, so a number that was  *)
(* closed is soon the number of something else: that reuse is what makes a *)
(* stale number dangerous.                                                 *)
(***************************************************************************)
EXTENDS Integers

CONSTANTS
  MaxFd,       \* highest descriptor number of the table
  MaxOpens     \* bound: how many files are opened in a behaviour

ASSUME FdTableAssumption == MaxFd \in Nat /\ MaxOpens \in Nat

VARIABLES
  table,       \* table[n]: the file open as number n, or NoFile
  opened       \* number of files opened so far

Fds == 0 .. MaxFd
Files == 1 .. MaxOpens
NoFile == 0

\* The value of an empty _fd: FileDescriptor::valid() is _fd >= 0.
Invalid == -1
Numbers == Fds \cup {Invalid}

TableInit ==
  /\ table = [n \in Fds |-> NoFile]
  /\ opened = 0

TableTypeOK ==
  /\ opened \in 0 .. MaxOpens
  /\ table \in [Fds -> 0 .. opened]

Lowest(n, free) == n \in free /\ \A m \in free : n <= m

FreeFds == {n \in Fds : table[n] = NoFile}

\* socket(2), epoll_create(2), open(2): the lowest free number, a new file.
SysOpen(n) ==
  /\ opened < MaxOpens
  /\ Lowest(n, FreeFds)
  /\ table' = [table EXCEPT ![n] = opened + 1]
  /\ opened' = opened + 1

\* pipe(2): two files, the read end on the lowest free number.
SysPipe(r, w) ==
  /\ opened + 2 <= MaxOpens
  /\ Lowest(r, FreeFds)
  /\ Lowest(w, FreeFds \ {r})
  /\ table' = [table EXCEPT ![r] = opened + 1, ![w] = opened + 2]
  /\ opened' = opened + 2

\* close(2) on Linux: the number is free afterwards whatever is returned.
SysClose(n) ==
  /\ table' = [table EXCEPT ![n] = NoFile]
  /\ UNCHANGED opened
=============================================================================
