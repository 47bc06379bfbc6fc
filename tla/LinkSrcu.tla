------------------------------ MODULE LinkSrcu ------------------------------
(***************************************************************************)
(* kernel/rcu/link_srcu.c: readers walk a list in SRCU read-side critical   *)
(* sections and sleep at every element; writers replace its first element   *)
(* under a spin lock, wait for a grace period and free the old one; syncers *)
(* wait for grace periods of their own; the unload stops all of them.       *)
(*                                                                         *)
(* srcup, the spin lock, kthread_stop and the allocator (which does not     *)
(* fail and gives freed memory out again) are contracts, as in Srcu.        *)
(***************************************************************************)
EXTENDS Naturals, Sequences

CONSTANTS
  Walkers, Replacers, GraceWaiters,  \* the kernel threads t_r, t_w, t_s
  Elements,                          \* the memory kzalloc takes objects from
  srcu_lk,                           \* the head of the list
  MaxBase                            \* bound: the counter the writers store

Closers == Replacers \union GraceWaiters
ListThreads == Walkers \union Closers

ASSUME LinkAssumption ==
  /\ Walkers \intersect Closers = {} /\ Replacers \intersect GraceWaiters = {}
  /\ srcu_lk \notin Elements /\ MaxBase \in Nat

VARIABLES
  where,     \* where each thread is
  next, prev, a,     \* the links, and what the fields of an element hold
  used,      \* the elements kzalloc has given out
  counter,   \* base
  lock,      \* who holds comms_lock
  elem,      \* a reader's p; a writer's newc, after the replacement its oldp
  sections,  \* the readers in a critical section
  awaited,   \* the critical sections each synchronize_srcu waits for
  stopping,  \* the threads kthread_stop was called for; the first makes rcu_stop run
  walked,    \* history: what a reader's walk has seen
  newest,    \* history: the newest that a walk which has ended saw
  floor      \* history: that value as a reader's walk began

listVars == <<where, next, prev, a, used, counter, lock, elem, sections, awaited, stopping,
              walked, newest, floor>>
list == <<next, prev, a, used, counter, lock>>
walks == <<walked, newest, floor>>

Null == "null"
Poison == "poison"

\* rcu_start: one element; a thread's variables are not used before they are set.
LinkInit ==
  /\ where = [t \in ListThreads |-> "top"]
  /\ used \in {{n} : n \in Elements}
  /\ next = [n \in Elements \union {srcu_lk} |-> IF n \in used THEN srcu_lk ELSE IF n = srcu_lk
                                              THEN CHOOSE e \in Elements : e \in used ELSE Null]
  /\ prev = next /\ a = [n \in Elements |-> 0] /\ counter = 1 /\ lock = {}
  /\ elem = [t \in Walkers \union Replacers |-> srcu_lk]
  /\ sections = {} /\ awaited = [t \in Closers |-> {}] /\ stopping = {}
  /\ walked = [r \in Walkers |-> <<>>] /\ newest = 0 /\ floor = [r \in Walkers |-> 0]

Moves(t, from, to) == where[t] = from /\ where' = [where EXCEPT ![t] = to]
GoesOn(t, to) == t \notin stopping /\ Moves(t, "top", to)

Ends(t) ==
  /\ t \in stopping /\ Moves(t, "top", "done")
  /\ UNCHANGED <<list, elem, sections, awaited, stopping, walks>>

----------------------------------------------------------------------------
\* rcu_reader: list_for_each_entry_rcu from the head on.
WalkBegins(r) ==
  /\ GoesOn(r, "follow")
  /\ sections' = sections \union {r} /\ elem' = [elem EXCEPT ![r] = srcu_lk]
  /\ walked' = [walked EXCEPT ![r] = <<>>] /\ floor' = [floor EXCEPT ![r] = newest]
  /\ UNCHANGED <<list, awaited, stopping, newest>>

Follow(r) ==
  /\ Moves(r, "follow", IF next[elem[r]] = srcu_lk THEN "last" ELSE "visit")
  /\ elem' = [elem EXCEPT ![r] = next[elem[r]]]
  /\ UNCHANGED <<list, sections, awaited, stopping, walks>>

\* After its sleep the reader prints the fields.
Visit(r) ==
  /\ Moves(r, "visit", "follow")
  /\ walked' = [walked EXCEPT ![r] = Append(@, a[elem[r]])]
  /\ UNCHANGED <<list, elem, sections, awaited, stopping, newest, floor>>

WalkEnds(r) ==
  /\ Moves(r, "last", "top")
  /\ sections' = sections \ {r} /\ awaited' = [t \in Closers |-> awaited[t] \ {r}]
  /\ newest' = IF walked[r] # <<>> /\ walked[r][1] > newest THEN walked[r][1] ELSE newest
  /\ UNCHANGED <<list, elem, stopping, walked, floor>>

----------------------------------------------------------------------------
\* rcu_writer
AllocateElement(w) ==
  /\ GoesOn(w, "lock") /\ counter < MaxBase
  /\ \E n \in Elements \ used :
       /\ used' = used \union {n} /\ elem' = [elem EXCEPT ![w] = n]
       /\ a' = [a EXCEPT ![n] = 0]
       /\ next' = [next EXCEPT ![n] = Null] /\ prev' = [prev EXCEPT ![n] = Null]
  /\ UNCHANGED <<counter, lock, sections, awaited, stopping, walks>>

TakeLock(w) ==
  /\ lock = {} /\ lock' = {w} /\ Moves(w, "lock", "fill")
  /\ UNCHANGED <<next, prev, a, used, counter, elem, sections, awaited, stopping, walks>>

\* *newc = *oldp, the three stores and ++base: no other thread sees newc yet.
CopyAndFill(w) ==
  LET old == next[srcu_lk] new == elem[w] IN
  /\ Moves(w, "fill", "replace")
  /\ old # srcu_lk
  /\ next' = [next EXCEPT ![new] = next[old]] /\ prev' = [prev EXCEPT ![new] = prev[old]]
  /\ a' = [a EXCEPT ![new] = counter + 1] /\ counter' = counter + 1
  /\ UNCHANGED <<used, lock, elem, sections, awaited, stopping, walks>>

\* list_replace_rcu and the unlock.  Readers follow next only, of which one store is
\* to an element that they can see; they may stay at the old element, whose own next
\* is left as it is.
Replaced(w, to) ==
  LET old == next[srcu_lk] new == elem[w] IN
  /\ Moves(w, "replace", to)
  /\ next' = [next EXCEPT ![new] = next[old], ![prev[old]] = new]
  /\ prev' = [prev EXCEPT ![new] = prev[old], ![next[old]] = new, ![old] = Poison]
  /\ elem' = [elem EXCEPT ![w] = old] /\ lock' = lock \ {w}
  /\ UNCHANGED <<a, used, counter, sections, awaited, stopping, walks>>

\* Mutant: synchronize_srcu is forgotten.
ReplaceNoSync(w) == Replaced(w, "free")

Replace(w) == Replaced(w, "sync")

FreeOld(w) ==
  /\ Moves(w, "free", "top") /\ used' = used \ {elem[w]}
  /\ UNCHANGED <<next, prev, a, counter, lock, elem, sections, awaited, stopping, walks>>

\* synchronize_srcu, called by writers and by rcu_sync.
GraceBegins(t) ==
  /\ \/ t \in Replacers /\ Moves(t, "sync", "wait")
     \/ t \in GraceWaiters /\ GoesOn(t, "wait")
  /\ awaited' = [awaited EXCEPT ![t] = sections]
  /\ UNCHANGED <<list, elem, sections, stopping, walks>>

GraceEnds(t) ==
  /\ awaited[t] = {} /\ Moves(t, "wait", IF t \in Replacers THEN "free" ELSE "top")
  /\ UNCHANGED <<list, elem, sections, awaited, stopping, walks>>

\* rcu_stop: the syncers, the readers, the writers, each waited for.
StopThread(t) ==
  /\ t \notin stopping /\ \A u \in stopping : where[u] = "done"
  /\ t \in Walkers => GraceWaiters \subseteq stopping
  /\ t \in Replacers => GraceWaiters \union Walkers \subseteq stopping
  /\ stopping' = stopping \union {t}
  /\ UNCHANGED <<where, list, elem, sections, awaited, walks>>

LinkNext ==
  \/ \E r \in Walkers : WalkBegins(r) \/ Follow(r) \/ Visit(r) \/ WalkEnds(r)
  \/ \E w \in Replacers :
       AllocateElement(w) \/ TakeLock(w) \/ CopyAndFill(w) \/ Replace(w) \/ FreeOld(w)
  \/ \E t \in Closers : GraceBegins(t) \/ GraceEnds(t)
  \/ \E t \in ListThreads : Ends(t) \/ StopThread(t)

LinkSpec == LinkInit /\ [][LinkNext]_listVars

----------------------------------------------------------------------------
\* A walk goes through memory that is not given back, although its reader sleeps at
\* every element and what it stands on is replaced meanwhile; it sees just one element,
\* the list never being empty or longer to anybody; and never an older one than a walk
\* that had ended before it began.
WalksTrue ==
  \A r \in Walkers :
    /\ where[r] \in {"follow", "visit"} => elem[r] \in used \union {srcu_lk}
    /\ where[r] = "last" => Len(walked[r]) = 1 /\ walked[r][1] >= floor[r]
=============================================================================
