------------------------------ MODULE FifoPair ------------------------------
(***************************************************************************)
(* fifo: mainsrc0 creates a shared memory and a named pipe, starts a       *)
(* thread that writes to the pipe and a child (mainsrc1) whose thread      *)
(* reads from it.  Nothing keeps a second instance from being started, or  *)
(* a child from outliving its parent: the names "shmtest" and "/tmp/fifo"  *)
(* are the same for all.  Instances are numbered in the order they start.  *)
(*                                                                         *)
(* The kernel is external.  An open of one end of a pipe waits for the     *)
(* other end; writing without a reader kills the process (SIGPIPE), as     *)
(* does a store to a mapping whose memory has been truncated (SIGBUS);     *)
(* reading without a writer returns 0, which the reader's loop ignores.    *)
(* A pipe lives on without its name: it is known by who made it.           *)
(***************************************************************************)
EXTENDS Naturals, Sequences

CONSTANTS
  MaxStarts, \* bound: instances
  MaxWrites  \* bound: messages an instance writes

ASSUME FifoAssumption == MaxStarts \in Nat /\ MaxWrites \in Nat

Instances == 1 .. MaxStarts

VARIABLES
  shm,      \* the shared memory has its size
  name,     \* whose pipe is found under the name, or 0
  pc,       \* main: "off", "size", "access", "rm", "mkfifo", "run", "end"
  died,     \* why it ended: "", "kill", "bus", "pipe", "absent", "exists"
  wfifo,    \* the writing thread: "off", "open", "wait", "write"
  wpipe,    \* whose pipe it has opened
  rfifo,    \* the child: "off", "size", "open", "wait", "read", "end"
  rpipe,
  pipe,     \* the messages in the pipe of each
  wrote,    \* how many messages each has written
  got,      \* the messages each child has shown
  overlap   \* one was started while another had not opened both its ends

fifoVars == <<shm, name, pc, died, wfifo, wpipe, rfifo, rpipe, pipe, wrote, got, overlap>>

FifoInit ==
  /\ shm = FALSE
  /\ name = 0
  /\ pc = [i \in Instances |-> "off"]
  /\ died = [i \in Instances |-> ""]
  /\ wfifo = [i \in Instances |-> "off"]
  /\ wpipe = [i \in Instances |-> 0]
  /\ rfifo = [i \in Instances |-> "off"]
  /\ rpipe = [i \in Instances |-> 0]
  /\ pipe = [i \in Instances |-> <<>>]
  /\ wrote = [i \in Instances |-> 0]
  /\ got = [i \in Instances |-> <<>>]
  /\ overlap = FALSE

-----------------------------------------------------------------------------
Opening(i) ==
  \/ pc[i] \in {"size", "access", "rm", "mkfifo"}
  \/ wfifo[i] \in {"open", "wait"}
  \/ rfifo[i] \in {"size", "open", "wait"}

(* shm_open with O_TRUNC, then ftruncate to the size. *)
ShmOpen(i) ==
  /\ pc[i] = "off"
  /\ \A j \in Instances : j < i => pc[j] # "off"
  /\ shm' = FALSE
  /\ pc' = [pc EXCEPT ![i] = "size"]
  /\ overlap' = (overlap \/ \E j \in Instances : Opening(j))
  /\ UNCHANGED <<name, died, wfifo, wpipe, rfifo, rpipe, pipe, wrote, got>>

ShmSize(i) ==
  /\ pc[i] = "size"
  /\ shm' = TRUE
  /\ pc' = [pc EXCEPT ![i] = "access"]
  /\ UNCHANGED <<name, died, wfifo, wpipe, rfifo, rpipe, pipe, wrote, got, overlap>>

(* The process ends, and its threads with it. *)
Ends(i, why) ==
  /\ pc' = [pc EXCEPT ![i] = "end"]
  /\ died' = [died EXCEPT ![i] = why]
  /\ wfifo' = [wfifo EXCEPT ![i] = "off"]

(* Mutant: a pipe that exists is used as it is. *)
FifoAccessKeep(i) ==
  /\ pc[i] = "access"
  /\ pc' = [pc EXCEPT ![i] = IF name # 0 THEN "run" ELSE "mkfifo"]
  /\ wfifo' = [wfifo EXCEPT ![i] = IF name # 0 THEN "open" ELSE @]
  /\ rfifo' = [rfifo EXCEPT ![i] = IF name # 0 THEN "size" ELSE @]
  /\ UNCHANGED <<shm, name, died, wpipe, rpipe, pipe, wrote, got, overlap>>

(* fifo_create: access, rm, mkfifo. *)
FifoAccess(i) ==
  /\ pc[i] = "access"
  /\ pc' = [pc EXCEPT ![i] = IF name # 0 THEN "rm" ELSE "mkfifo"]
  /\ UNCHANGED <<shm, name, died, wfifo, wpipe, rfifo, rpipe, pipe, wrote, got, overlap>>

FifoRm(i) ==
  /\ pc[i] = "rm"
  /\ name' = 0
  /\ pc' = [pc EXCEPT ![i] = "mkfifo"]
  /\ UNCHANGED <<shm, died, wfifo, wpipe, rfifo, rpipe, pipe, wrote, got, overlap>>

(* Then the writing thread is started, and the child. *)
MkFifo(i) ==
  /\ pc[i] = "mkfifo"
  /\ IF name = 0
     THEN /\ name' = i
          /\ pc' = [pc EXCEPT ![i] = "run"]
          /\ wfifo' = [wfifo EXCEPT ![i] = "open"]
          /\ rfifo' = [rfifo EXCEPT ![i] = "size"]
          /\ UNCHANGED died
     ELSE Ends(i, "exists") /\ UNCHANGED <<name, rfifo>>
  /\ UNCHANGED <<shm, wpipe, rpipe, pipe, wrote, got, overlap>>

(* main's loop stores the time. *)
Store(i) ==
  /\ pc[i] = "run"
  /\ ~shm
  /\ Ends(i, "bus")
  /\ UNCHANGED <<shm, name, wpipe, rfifo, rpipe, pipe, wrote, got, overlap>>

Kill(i) ==
  /\ pc[i] \notin {"off", "end"}
  /\ Ends(i, "kill")
  /\ UNCHANGED <<shm, name, wpipe, rfifo, rpipe, pipe, wrote, got, overlap>>

-----------------------------------------------------------------------------
Readers(p) == { i \in Instances : rfifo[i] \in {"wait", "read"} /\ rpipe[i] = p }
Writers(p) == { i \in Instances : wfifo[i] \in {"wait", "write"} /\ wpipe[i] = p }

WriteOpen(i) ==
  /\ wfifo[i] = "open"
  /\ IF name = 0
     THEN Ends(i, "absent") /\ UNCHANGED wpipe
     ELSE /\ wfifo' = [wfifo EXCEPT ![i] = "wait"]
          /\ wpipe' = [wpipe EXCEPT ![i] = name]
          /\ UNCHANGED <<pc, died>>
  /\ UNCHANGED <<shm, name, rfifo, rpipe, pipe, wrote, got, overlap>>

WriteOpened(i) ==
  /\ wfifo[i] = "wait"
  /\ Readers(wpipe[i]) # {}
  /\ wfifo' = [wfifo EXCEPT ![i] = "write"]
  /\ UNCHANGED <<shm, name, pc, died, wpipe, rfifo, rpipe, pipe, wrote, got, overlap>>

Write(i) ==
  /\ wfifo[i] = "write"
  /\ IF Readers(wpipe[i]) = {}
     THEN Ends(i, "pipe") /\ UNCHANGED <<pipe, wrote>>
     ELSE /\ wrote[i] < MaxWrites
          /\ wrote' = [wrote EXCEPT ![i] = @ + 1]
          /\ pipe' = [pipe EXCEPT ![wpipe[i]] = Append(@, <<i, wrote'[i]>>)]
          /\ UNCHANGED <<pc, died, wfifo>>
  /\ UNCHANGED <<shm, name, wpipe, rfifo, rpipe, got, overlap>>

(* Mutant: the child truncates the shared memory. *)
ChildInitTruncates(i) ==
  /\ rfifo[i] = "size"
  /\ shm' \in BOOLEAN
  /\ rfifo' = [rfifo EXCEPT ![i] = IF shm' THEN "open" ELSE @]
  /\ UNCHANGED <<name, pc, died, wfifo, wpipe, rpipe, pipe, wrote, got, overlap>>

(* The child: share_memory_init without O_TRUNC, then its thread. *)
ChildInit(i) ==
  /\ rfifo[i] = "size"
  /\ shm' = TRUE
  /\ rfifo' = [rfifo EXCEPT ![i] = "open"]
  /\ UNCHANGED <<name, pc, died, wfifo, wpipe, rpipe, pipe, wrote, got, overlap>>

(* Mutant: the result of open is not looked at. *)
ReadOpenUnchecked(i) ==
  /\ rfifo[i] = "open"
  /\ rfifo' = [rfifo EXCEPT ![i] = "wait"]
  /\ rpipe' = [rpipe EXCEPT ![i] = name]
  /\ UNCHANGED <<shm, name, pc, died, wfifo, wpipe, pipe, wrote, got, overlap>>

ReadOpen(i) ==
  /\ rfifo[i] = "open"
  /\ rfifo' = [rfifo EXCEPT ![i] = IF name = 0 THEN "end" ELSE "wait"]
  /\ rpipe' = [rpipe EXCEPT ![i] = name]
  /\ UNCHANGED <<shm, name, pc, died, wfifo, wpipe, pipe, wrote, got, overlap>>

ReadOpened(i) ==
  /\ rfifo[i] = "wait"
  /\ Writers(rpipe[i]) # {}
  /\ rfifo' = [rfifo EXCEPT ![i] = "read"]
  /\ UNCHANGED <<shm, name, pc, died, wfifo, wpipe, rpipe, pipe, wrote, got, overlap>>

(* All that the pipe holds, into a buffer that is larger. *)
Read(i) ==
  /\ rfifo[i] = "read"
  /\ pipe[rpipe[i]] # <<>>
  /\ got' = [got EXCEPT ![i] = @ \o pipe[rpipe[i]]]
  /\ pipe' = [pipe EXCEPT ![rpipe[i]] = <<>>]
  /\ UNCHANGED <<shm, name, pc, died, wfifo, wpipe, rfifo, rpipe, wrote, overlap>>

KillChild(i) ==
  /\ rfifo[i] \notin {"off", "end"}
  /\ rfifo' = [rfifo EXCEPT ![i] = "end"]
  /\ UNCHANGED <<shm, name, pc, died, wfifo, wpipe, rpipe, pipe, wrote, got, overlap>>

FifoNext == \E i \in Instances :
  \/ ShmOpen(i)
  \/ ShmSize(i)
  \/ FifoAccess(i)
  \/ FifoRm(i)
  \/ MkFifo(i)
  \/ Store(i)
  \/ Kill(i)
  \/ WriteOpen(i)
  \/ WriteOpened(i)
  \/ Write(i)
  \/ ChildInit(i)
  \/ ReadOpen(i)
  \/ ReadOpened(i)
  \/ Read(i)
  \/ KillChild(i)

FifoSpec == FifoInit /\ [][FifoNext]_fifoVars

-----------------------------------------------------------------------------
FifoTypeOK ==
  /\ shm \in BOOLEAN
  /\ name \in Instances \cup {0}
  /\ pc \in [Instances -> {"off", "size", "access", "rm", "mkfifo", "run", "end"}]
  /\ died \in [Instances -> {"", "kill", "bus", "pipe", "absent", "exists"}]
  /\ wfifo \in [Instances -> {"off", "open", "wait", "write"}]
  /\ rfifo \in [Instances -> {"off", "size", "open", "wait", "read", "end"}]
  /\ wpipe \in [Instances -> Instances \cup {0}]
  /\ rpipe \in [Instances -> Instances \cup {0}]
  /\ pipe \in [Instances -> Seq(Instances \X (1 .. MaxWrites))]
  /\ wrote \in [Instances -> 0 .. MaxWrites]
  /\ got \in [Instances -> Seq(Instances \X (1 .. MaxWrites))]
  /\ overlap \in BOOLEAN
  /\ \A i \in Instances : wfifo[i] \in {"wait", "write"} => wpipe[i] # 0
  /\ \A i \in Instances : rfifo[i] \in {"wait", "read"} => rpipe[i] # 0

(***************************************************************************)
(* fifo.c:6-43, wfifo.c:12-33, rfifo.c:21-36.  Instances that are started  *)
(* one after the other do not mix, though they use one name: each child    *)
(* shows what its own parent wrote, in order and without a gap, whatever   *)
(* is killed.                                                              *)
(***************************************************************************)
FifoInOrder == ~overlap =>
  \A i \in Instances :
    /\ Len(got[i]) <= wrote[i]
    /\ \A n \in DOMAIN got[i] : got[i][n] = <<i, n>>

(***************************************************************************)
(* fifo.c:13-16, 24-28, 44-49, mainsrc0/main.c:27-36, 70-72.  An instance  *)
(* that was not killed goes on, unless its child has ended, a later one    *)
(* has truncated the shared memory, or two were started together.          *)
(***************************************************************************)
FifoEndsForCause ==
  \A i \in Instances :
    /\ died[i] = "bus" => \E j \in Instances : j > i /\ pc[j] # "off"
    /\ died[i] = "pipe" => rfifo[i] = "end" \/ overlap
    /\ died[i] \in {"absent", "exists"} => overlap
=============================================================================
