------------------------------ MODULE Process -------------------------------
(***************************************************************************)
(* User processes: userprog/process.c with the parts of pagedir.c that     *)
(* create, fill and destroy page directories, and the context switch that  *)
(* activates them (schedule_tail() of thread.c).                           *)
(*                                                                         *)
(* A thread's steps end where it calls the page allocator or the file      *)
(* system, which may block; and the timer may switch threads between any   *)
(* two steps.  Frames are numbered, kernel pool and user pool apart, and   *)
(* the page allocator hands out the first one that is free.                *)
(***************************************************************************)
EXTENDS Integers, Sequences, FiniteSets, FiniteSetsExt

CONSTANTS
  Thread,
  main,      \* the thread that starts processes
  KFrame,    \* the frames of the kernel pool, numbers
  UFrame,    \* the frames of the user pool, numbers
  UPage,     \* user virtual pages
  TableOf,   \* the page table number of each
  stack,     \* the user page below PHYS_BASE
  Program    \* executables: the pages of their segments, in order

VARIABLES
  free,     \* the frames the page allocator has
  curr,     \* the running thread
  cr3,      \* the active page directory, base_page_dir or a frame
  pagedir,  \* member of each thread: a frame or NULL
  pt,       \* the page tables of each thread's directory: number -> frame or NULL
  pte,      \* their entries: user page -> frame or NULL
  pc,       \* where each thread is
  l,        \* its local variables
  panic     \* palloc_free_page() was given a page that is free

vars == <<free, curr, cr3, pagedir, pt, pte, pc, l, panic>>

NULL == -1
base_page_dir == -2
Table == {TableOf[u] : u \in UPage}

(* thread: the frame of struct thread; fn_copy: the argument page;         *)
(* kpage: a page not yet installed; pd: process_exit()'s copy of pagedir;  *)
(* todo: the user pages still to be loaded, the stack last.                *)
Locals == [thread |-> NULL, fn_copy |-> NULL, kpage |-> NULL, pd |-> NULL, todo |-> << >>]

Init ==
  /\ free = KFrame \cup UFrame
  /\ curr = main
  /\ cr3 = base_page_dir
  /\ pagedir = [t \in Thread |-> NULL]
  /\ pt = [t \in Thread |-> [n \in Table |-> NULL]]
  /\ pte = [t \in Thread |-> [u \in UPage |-> NULL]]
  /\ pc = [t \in Thread |-> IF t = main THEN "main" ELSE "none"]
  /\ l = [t \in Thread |-> Locals]
  /\ panic = FALSE

At(label) == ~panic /\ pc[curr] = label
Goto(label) == pc' = [pc EXCEPT ![curr] = label]
Set(field, value) == l' = [l EXCEPT ![curr][field] = value]

palloc_get_page(pool) == IF free \cap pool = {} THEN NULL ELSE Min(free \cap pool)
Take(f) == free' = free \ {f}
palloc_free_page(f) == free' = free \cup {f} /\ panic' = (f \in free)

-----------------------------------------------------------------------------
(* The context switch.                                                     *)
Alive(t) == pc[t] # "none"

(* process_activate() for thread t.                                        *)
process_activate(t) == cr3' = IF pagedir[t] = NULL THEN base_page_dir ELSE pagedir[t]

Switch(t) ==
  /\ ~panic /\ t # curr /\ Alive(t)
  /\ curr' = t
  /\ process_activate(t)
  /\ UNCHANGED <<free, pagedir, pt, pte, pc, l, panic>>

-----------------------------------------------------------------------------
(* process_execute(): the copy of the file name ...                        *)
process_execute ==
  /\ At("main")
  /\ LET f == palloc_get_page(KFrame)
     IN  /\ f # NULL
         /\ Take(f) /\ Set("fn_copy", f)
  /\ Goto("create")
  /\ UNCHANGED <<curr, cr3, pagedir, pt, pte, panic>>

(* ... and thread_create(), which needs a page for the thread.             *)
execute_create(t, program) ==
  /\ At("create") /\ pc[t] = "none"
  /\ LET f == palloc_get_page(KFrame)
     IN  /\ f # NULL
         /\ Take(f)
         /\ l' = [l EXCEPT ![curr].fn_copy = NULL,
                           ![t] = [Locals EXCEPT !.thread = f, !.fn_copy = l[curr].fn_copy,
                                                 !.todo = Append(program, stack)]]
         /\ pc' = [pc EXCEPT ![curr] = "main", ![t] = "load"]
  /\ UNCHANGED <<curr, cr3, pagedir, pt, pte, panic>>

execute_failed ==
  /\ At("create") /\ palloc_get_page(KFrame) = NULL
  /\ palloc_free_page(l[curr].fn_copy)
  /\ Set("fn_copy", NULL)
  /\ Goto("main")
  /\ UNCHANGED <<curr, cr3, pagedir, pt, pte>>

-----------------------------------------------------------------------------
(* load(), in start_process(): the page directory ...                      *)
pagedir_create ==
  /\ At("load")
  /\ LET f == palloc_get_page(KFrame)
     IN  /\ pagedir' = [pagedir EXCEPT ![curr] = f]
         /\ Take(f)
         /\ Goto(IF f = NULL THEN "fail" ELSE "activate")
  /\ UNCHANGED <<curr, cr3, pt, pte, l, panic>>

load_activate ==
  /\ At("activate")
  /\ process_activate(curr)
  /\ Goto("open")
  /\ UNCHANGED <<free, curr, pagedir, pt, pte, l, panic>>

(* ... the file and its headers, good or not ...                           *)
load_open(ok) ==
  /\ At("open")
  /\ Goto(IF ok THEN "segment" ELSE "fail")
  /\ UNCHANGED <<free, curr, cr3, pagedir, pt, pte, l, panic>>

(* ... and a page for each page of the segments and for the stack:         *)
(* load_segment() and setup_stack() get a page, ...                        *)
load_page ==
  /\ At("segment") /\ l[curr].todo # << >>
  /\ LET f == palloc_get_page(UFrame)
     IN  /\ Set("kpage", f) /\ Take(f)
         /\ Goto(IF f = NULL THEN "fail" ELSE "read")
  /\ UNCHANGED <<curr, cr3, pagedir, pt, pte, panic>>

(* (a further program header may be bad, so that there is no such page)    *)
header_failed ==
  /\ At("segment") /\ l[curr].todo # << >>
  /\ Goto("fail")
  /\ UNCHANGED <<free, curr, cr3, pagedir, pt, pte, l, panic>>

(* ... fill it, where file_read() may fall short, ...                      *)
load_read ==
  /\ At("read")
  /\ Goto("install")
  /\ UNCHANGED <<free, curr, cr3, pagedir, pt, pte, l, panic>>

(* Mutant: the page is not given back.                                     *)
page_failed_leak ==
  /\ Set("kpage", NULL)
  /\ Goto("fail")
  /\ UNCHANGED <<free, curr, cr3, pagedir, pt, pte, panic>>

page_failed ==
  /\ palloc_free_page(l[curr].kpage)
  /\ Set("kpage", NULL)
  /\ Goto("fail")
  /\ UNCHANGED <<curr, cr3, pagedir, pt, pte>>

read_failed == At("read") /\ l[curr].todo # <<stack>> /\ page_failed

(* ... and install_page() it, unless the user page is mapped already.      *)
upage == Head(l[curr].todo)
Mapped == pte[curr][upage] # NULL
HasTable == pt[curr][TableOf[upage]] # NULL

lookup_page_create ==
  /\ At("install") /\ ~Mapped /\ ~HasTable
  /\ LET f == palloc_get_page(KFrame)
     IN  /\ f # NULL
         /\ Take(f)
         /\ pt' = [pt EXCEPT ![curr][TableOf[upage]] = f]
  /\ UNCHANGED <<curr, cr3, pagedir, pte, pc, l, panic>>

install_page ==
  /\ At("install") /\ ~Mapped /\ HasTable
  /\ pte' = [pte EXCEPT ![curr][upage] = l[curr].kpage]
  /\ l' = [l EXCEPT ![curr].kpage = NULL, ![curr].todo = Tail(@)]
  /\ Goto("segment")
  /\ UNCHANGED <<free, curr, cr3, pagedir, pt, panic>>

install_failed ==
  /\ At("install")
  /\ Mapped \/ (~HasTable /\ palloc_get_page(KFrame) = NULL)
  /\ page_failed

(* load() returned: start_process() frees the file name, and the process   *)
(* runs or exits.                                                          *)
start_process ==
  /\ At("fail") \/ (At("segment") /\ l[curr].todo = << >>)
  /\ palloc_free_page(l[curr].fn_copy)
  /\ l' = [l EXCEPT ![curr].fn_copy = NULL, ![curr].todo = << >>]
  /\ Goto(IF pc[curr] = "fail" THEN "exit" ELSE "user")
  /\ UNCHANGED <<curr, cr3, pagedir, pt, pte>>

(* An exception kills the process, or it makes a system call.              *)
thread_exit ==
  /\ At("user")
  /\ Goto("exit")
  /\ UNCHANGED <<free, curr, cr3, pagedir, pt, pte, l, panic>>

-----------------------------------------------------------------------------
(* process_exit(): clear pagedir, ...                                      *)
process_exit ==
  /\ At("exit")
  /\ Set("pd", pagedir[curr])
  /\ pagedir' = [pagedir EXCEPT ![curr] = NULL]
  /\ Goto(IF pagedir[curr] = NULL THEN "dying" ELSE "base")
  /\ UNCHANGED <<free, curr, cr3, pt, pte, panic>>

(* Mutant: the old directory stays active while it is destroyed.          *)
exit_activate_not ==
  /\ At("base")
  /\ Goto("destroy")
  /\ UNCHANGED <<free, curr, cr3, pagedir, pt, pte, l, panic>>

(* ... activate the base page directory, ...                               *)
exit_activate ==
  /\ At("base")
  /\ cr3' = base_page_dir
  /\ Goto("destroy")
  /\ UNCHANGED <<free, curr, pagedir, pt, pte, l, panic>>

(* ... and destroy the old one: the pages of each table, the table, and    *)
(* in the end the directory.                                               *)
destroy_page(u) ==
  /\ At("destroy") /\ pte[curr][u] # NULL
  /\ palloc_free_page(pte[curr][u])
  /\ pte' = [pte EXCEPT ![curr][u] = NULL]
  /\ UNCHANGED <<curr, cr3, pagedir, pt, pc, l>>

destroy_table(n) ==
  /\ At("destroy") /\ pt[curr][n] # NULL
  /\ \A u \in UPage : TableOf[u] = n => pte[curr][u] = NULL
  /\ palloc_free_page(pt[curr][n])
  /\ pt' = [pt EXCEPT ![curr][n] = NULL]
  /\ UNCHANGED <<curr, cr3, pagedir, pte, pc, l>>

pagedir_destroy ==
  /\ At("destroy") /\ \A n \in Table : pt[curr][n] = NULL
  /\ palloc_free_page(l[curr].pd)
  /\ Set("pd", NULL)
  /\ Goto("dying")
  /\ UNCHANGED <<curr, cr3, pagedir, pt, pte>>

(* The dead thread is switched away from, and schedule_tail() frees it.    *)
schedule_tail(t) ==
  /\ At("dying") /\ t # curr /\ Alive(t)
  /\ curr' = t
  /\ process_activate(t)
  /\ palloc_free_page(l[curr].thread)
  /\ pc' = [pc EXCEPT ![curr] = "none"]
  /\ l' = [l EXCEPT ![curr] = Locals]
  /\ UNCHANGED <<pagedir, pt, pte>>

Next ==
  \/ \E t \in Thread : Switch(t) \/ schedule_tail(t)
                       \/ \E p \in Program : execute_create(t, p)
  \/ process_execute \/ execute_failed \/ pagedir_create \/ load_activate
  \/ \E ok \in BOOLEAN : load_open(ok)
  \/ load_page \/ header_failed \/ load_read \/ read_failed
  \/ lookup_page_create \/ install_page \/ install_failed
  \/ start_process \/ thread_exit \/ process_exit \/ exit_activate \/ pagedir_destroy
  \/ \E u \in UPage : destroy_page(u)
  \/ \E n \in Table : destroy_table(n)

Spec == Init /\ [][Next]_vars

-----------------------------------------------------------------------------
(* The processor's page directory is never one that has been freed: it is  *)
(* the base directory or one that a living thread still owns, whenever the *)
(* timer switches threads during load() and process_exit().  A process in  *)
(* user mode runs on its own.                                              *)
ActiveDirLive ==
  /\ cr3 # base_page_dir => cr3 \notin free /\ cr3 \in {pagedir[curr], l[curr].pd}
  /\ pc[curr] = "user" => cr3 = pagedir[curr]

(* The frames a thread accounts for, with the place of each.               *)
Owned(t) ==
  {x \in {<<"thread", l[t].thread>>, <<"fn_copy", l[t].fn_copy>>, <<"kpage", l[t].kpage>>,
          <<"pagedir", pagedir[t]>>, <<"pd", l[t].pd>>}
         \cup {<<"pt", pt[t][n]>> : n \in Table}
         \cup {<<"pte", pte[t][u]>> : u \in UPage} : x[2] # NULL}

(* Each frame is free or in exactly one place, at every step: none is      *)
(* freed twice, none is in use in two places, and none is lost, whichever  *)
(* allocation, read or mapping of a load() fails and whenever the process  *)
(* exits.                                                                  *)
FramesOwned ==
  /\ ~panic
  /\ \A f \in KFrame \cup UFrame :
       LET places == {<<t, x>> \in Thread \X UNION {Owned(t) : t \in Thread} :
                        x[2] = f /\ x \in Owned(t)}
       IN  Cardinality(places) = IF f \in free THEN 0 ELSE 1

=============================================================================
