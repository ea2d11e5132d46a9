------------------------------- MODULE Relay --------------------------------
(***************************************************************************)
(* utils/squish-pty.c: the program that connects its standard input and    *)
(* output to the terminal of a simulator it runs.  relay() copies both     *)
(* ways with select() and non-blocking reads and writes, one system call a *)
(* step; the simulator writes, closes its terminal and exits between any   *)
(* two of them.  A pipe's bytes are its buffer from ofs on, of length      *)
(* size.  Bytes are numbered, so that what arrives shows what was lost.    *)
(*                                                                         *)
(* The terminal is Linux's: with the slave side closed a read returns what *)
(* is left and then EIO, a write EIO.  The simulator starts no process     *)
(* that keeps its terminal open, and standard output takes data.           *)
(***************************************************************************)
EXTENDS Integers, Sequences

CONSTANTS
  Input,      \* bytes on standard input
  MaxOutput,  \* bytes the simulator writes
  BUFSIZ

VARIABLES
  stdin, stdin_open,  \* what is left of standard input; pipes[0].in # -1
  buf, ofs,           \* of pipes[0], standard input to pty, and pipes[1], the other
  active,             \* pipes[1].active
  read_fds, write_fds,
  pc, status,
  stdout, to_child,   \* what was relayed
  pending, written,   \* the simulator's output: not read from the pty; in all
  closed, dead        \* the slave side is closed; SIGCHLD was handled

relayVars == <<stdin, stdin_open, buf, ofs, active, read_fds, write_fds, pc, status>>
vars == <<relayVars, stdout, to_child, pending, written, closed, dead>>

Upto(n) == [j \in 1..n |-> j]
Pty == "pty"
Dead == "dead_child_fd"
In == <<"stdin", Pty>>
Out == <<Pty, "stdout">>

Init ==
  /\ stdin = Upto(Input) /\ stdin_open = TRUE
  /\ buf = << << >>, << >> >> /\ ofs = <<0, 0>> /\ active = FALSE
  /\ read_fds = {} /\ write_fds = {} /\ pc = "select" /\ status = "none"
  /\ stdout = << >> /\ to_child = << >> /\ pending = << >> /\ written = 0
  /\ closed = FALSE /\ dead = FALSE

-----------------------------------------------------------------------------
(* The simulator.                                                          *)
child_write ==
  /\ ~closed /\ written < MaxOutput
  /\ written' = written + 1 /\ pending' = Append(pending, written + 1)
  /\ UNCHANGED <<relayVars, stdout, to_child, closed, dead>>

child_close ==
  /\ ~closed /\ closed' = TRUE
  /\ UNCHANGED <<relayVars, stdout, to_child, pending, written, dead>>

(* It exits, and sigchld_handler() writes to the pipe.                     *)
sigchld_handler ==
  /\ closed /\ ~dead /\ dead' = TRUE
  /\ UNCHANGED <<relayVars, stdout, to_child, pending, written, closed>>

child == child_write \/ child_close \/ sigchld_handler
environment == <<pending, written, closed, dead>>

-----------------------------------------------------------------------------
Held(i) == i = 1 /\ ~active
Reading(i) == ~Held(i) /\ (i = 1 => stdin_open) /\ Len(buf[i]) + ofs[i] < BUFSIZ
Writing(i) == ~Held(i) /\ buf[i] # << >>

(* select(): of the descriptors asked for, those that are ready.  When     *)
(* standard input has something to read, and when a write would not wait,  *)
(* is not known.                                                           *)
select ==
  /\ pc = "select"
  /\ \E typed, drained, room \in BOOLEAN :
       LET ready == {In[i] : i \in {j \in {1, 2} : Reading(j)}} \ (IF typed THEN {} ELSE {In[1]})
           writable == {Out[i] : i \in {j \in {1, 2} : Writing(j)}}
       IN  /\ read_fds' = {f \in ready : f = Pty => pending # << >> \/ closed}
                            \union (IF dead THEN {Dead} ELSE {})
           /\ write_fds' = writable \ ((IF room THEN {} ELSE {Out[1]})
                                         \union IF drained THEN {} ELSE {Out[2]})
  /\ read_fds' \union write_fds' # {}
  /\ pc' = IF Dead \in read_fds' THEN "final_write" ELSE "read1"
  /\ UNCHANGED <<stdin, stdin_open, buf, ofs, active, status, stdout, to_child, environment>>

(* n bytes read into pipe i from source; a full buffer would be moved down.*)
Received(i, source, n) ==
  /\ buf' = [buf EXCEPT ![i] = @ \o SubSeq(source, 1, n)]
  /\ ofs' = [ofs EXCEPT ![i] = IF Len(buf'[i]) = BUFSIZ THEN 0 ELSE @]
Sizes(i, source) == 1..(IF Len(source) < BUFSIZ - ofs[i] - Len(buf[i])
                        THEN Len(source) ELSE BUFSIZ - ofs[i] - Len(buf[i]))

(* Mutant: the offset is not advanced past what was written.               *)
Sent_again(i, n) ==
  /\ buf' = [buf EXCEPT ![i] = SubSeq(@, 1, Len(@) - n)]
  /\ ofs' = [ofs EXCEPT ![i] = IF n = Len(buf[i]) THEN 0 ELSE @]

Sent(i, n) ==
  /\ buf' = [buf EXCEPT ![i] = SubSeq(@, n + 1, Len(@))]
  /\ ofs' = [ofs EXCEPT ![i] = IF n = Len(buf[i]) THEN 0 ELSE @ + n]

read_stdin ==
  /\ pc = "read1" /\ pc' = "write1"
  /\ \/ "stdin" \notin read_fds /\ UNCHANGED <<stdin, stdin_open, buf, ofs>>
     \/ /\ "stdin" \in read_fds /\ stdin = << >>
        /\ stdin_open' = FALSE /\ UNCHANGED <<stdin, buf, ofs>>
     \/ /\ "stdin" \in read_fds
        /\ \E n \in Sizes(1, stdin) : Received(1, stdin, n) /\ stdin' = SubSeq(stdin, n + 1, Len(stdin))
        /\ UNCHANGED stdin_open
  /\ UNCHANGED <<active, read_fds, write_fds, status, stdout, to_child, environment>>

(* A write to the terminal fails once its slave side is closed, and        *)
(* relay() returns.                                                        *)
write_pty ==
  /\ pc = "write1"
  /\ \/ Pty \notin write_fds /\ pc' = "read2" /\ UNCHANGED <<buf, ofs, to_child>>
     \/ Pty \in write_fds /\ closed /\ pc' = "returned" /\ UNCHANGED <<buf, ofs, to_child>>
     \/ /\ Pty \in write_fds /\ ~closed /\ pc' = "read2"
        /\ \E n \in 1..Len(buf[1]) : Sent(1, n) /\ to_child' = to_child \o SubSeq(buf[1], 1, n)
  /\ UNCHANGED <<stdin, stdin_open, active, read_fds, write_fds, status, stdout, environment>>

read_pty ==
  /\ pc = "read2"
  /\ \/ /\ Pty \notin read_fds
        /\ pc' = "write2" /\ UNCHANGED <<buf, ofs, active, pending>>
     \/ /\ Pty \in read_fds /\ pending = << >>
        /\ pc' = "returned" /\ UNCHANGED <<buf, ofs, active, pending>>
     \/ /\ Pty \in read_fds
        /\ \E n \in Sizes(2, pending) :
             Received(2, pending, n) /\ pending' = SubSeq(pending, n + 1, Len(pending))
        /\ active' = TRUE /\ pc' = "write2"
  /\ UNCHANGED <<stdin, stdin_open, read_fds, write_fds, status, stdout, to_child>>
  /\ UNCHANGED <<written, closed, dead>>

write_stdout ==
  /\ pc = "write2" /\ pc' = "select"
  /\ \/ "stdout" \notin write_fds /\ UNCHANGED <<buf, ofs, stdout>>
     \/ /\ "stdout" \in write_fds
        /\ \E n \in 1..Len(buf[2]) : Sent(2, n) /\ stdout' = stdout \o SubSeq(buf[2], 1, n)
  /\ UNCHANGED <<stdin, stdin_open, active, read_fds, write_fds, status, to_child, environment>>

(* The child died: what is left is relayed with blocking writes.           *)
final_write ==
  /\ pc = "final_write"
  /\ \/ /\ buf[2] # << >>
        /\ \E n \in 1..Len(buf[2]) : Sent(2, n) /\ stdout' = stdout \o SubSeq(buf[2], 1, n)
        /\ UNCHANGED pc
     \/ /\ buf[2] = << >> /\ ofs' = [ofs EXCEPT ![2] = 0]
        /\ pc' = "final_read" /\ UNCHANGED <<buf, stdout>>
  /\ UNCHANGED <<stdin, stdin_open, active, read_fds, write_fds, status, to_child, environment>>

final_read ==
  /\ pc = "final_read"
  /\ \/ /\ pending = << >> /\ pc' = "final_return"
        /\ UNCHANGED <<buf, ofs, pending>>
     \/ /\ \E n \in Sizes(2, pending) :
             Received(2, pending, n) /\ pending' = SubSeq(pending, n + 1, Len(pending))
        /\ pc' = "final_write"
  /\ UNCHANGED <<stdin, stdin_open, active, read_fds, write_fds, status, stdout, to_child>>
  /\ UNCHANGED <<written, closed, dead>>

(* main() after relay(): waitpid (WNOHANG), and the child's fate as ours.  *)
main_return ==
  /\ pc \in {"returned", "final_return"} /\ status = "none"
  /\ status' = IF dead THEN "the child's" ELSE "0"
  /\ UNCHANGED <<stdin, stdin_open, buf, ofs, active, read_fds, write_fds, pc>>
  /\ UNCHANGED <<stdout, to_child, environment>>

(* The program is run again.                                               *)
main ==
  /\ status # "none"
  /\ stdin' = Upto(Input) /\ stdin_open' = TRUE
  /\ buf' = << << >>, << >> >> /\ ofs' = <<0, 0>> /\ active' = FALSE
  /\ read_fds' = {} /\ write_fds' = {} /\ pc' = "select" /\ status' = "none"
  /\ stdout' = << >> /\ to_child' = << >> /\ pending' = << >> /\ written' = 0
  /\ closed' = FALSE /\ dead' = FALSE

relay ==
  \/ select \/ read_stdin \/ write_pty \/ read_pty \/ write_stdout
  \/ final_write \/ final_read
Next == child \/ relay \/ main_return \/ main

Spec == Init /\ [][Next]_vars

-----------------------------------------------------------------------------
(* Both ways, what was relayed, what is buffered and what is still to be   *)
(* read are the bytes sent, in order, through partial reads and writes and *)
(* a buffer reused from its start; nothing is sent to the simulator before *)
(* it has written something; and when relay() returns because the child    *)
(* died, all of its output has been relayed and its status is known.       *)
RelayFifo ==
  /\ stdout \o buf[2] \o pending = Upto(written)
  /\ to_child \o buf[1] \o stdin = Upto(Input)
  /\ \A i \in {1, 2} : Len(buf[i]) + ofs[i] <= BUFSIZ
  /\ to_child # << >> => active
  /\ pc = "final_return" => stdout = Upto(written) /\ status \in {"none", "the child's"}

(* relay() copies "until no more data can be read or written": when it     *)
(* returns, nothing it read from the simulator is still in its buffer.     *)
OutputRelayed == pc \in {"returned", "final_return"} => buf[2] = << >>

=============================================================================
