------------------------------ MODULE LruCache ------------------------------
(***************************************************************************)
(* lib/psutil/_compat.py, lru_cache: a dict of links and the ring they form  *)
(* with a root, in the order of their last use.  Threads look and insert     *)
(* under the lock, and call the user's function without it in between.       *)
(*                                                                         *)
(* A full cache evicts without a new link: the root takes the new entry and  *)
(* the link of the oldest one becomes the root.                              *)
(***************************************************************************)
EXTENDS Integers, FiniteSets, Sequences, SequencesExt

CONSTANTS
  LruThreads, Keys,
  maxsize,
  Links,       \* link objects; those that nothing leads to are used again
  MaxAsked,    \* bound: wrapped of the wrapper
  MaxCleared,  \* bound: wrapped of cache_clear
  NoKey

ASSUME LruAssumption ==
  /\ maxsize \in Nat \ {0} /\ NoKey \notin Keys
  /\ IsFiniteSet(Links) /\ Cardinality(Links) > maxsize

VARIABLES
  cache,       \* key -> link
  links,       \* link -> [prev, next, key, result]
  root,        \* nonlocal_root[0]
  wrapPc,      \* thread -> where its call of the wrapper is
  wanted,       \* thread -> the key it asks for
  computed,    \* thread -> what the function or the cache gave it
  recent,      \* history: the keys in the cache, the longest unused first
  wrapped, clears    \* counters for the bounds

lruVars == <<cache, links, root, wrapPc, wanted, computed, recent, wrapped, clears>>

EmptyRoot == [prev |-> root, next |-> root, key |-> NoKey, result |-> NoKey]

LruInit ==
  /\ cache = <<>> /\ root = CHOOSE l \in Links : TRUE
  /\ links = [l \in Links |-> EmptyRoot]
  /\ wrapPc = [t \in LruThreads |-> "idle"] /\ wanted = [t \in LruThreads |-> NoKey]
  /\ computed = [t \in LruThreads |-> NoKey] /\ recent = <<>> /\ wrapped = 0 /\ clears = 0

CallWrapper(t, k) ==
  /\ wrapPc[t] = "idle" /\ wrapped < MaxAsked /\ wrapped' = wrapped + 1
  /\ wrapPc' = [wrapPc EXCEPT ![t] = "get"] /\ wanted' = [wanted EXCEPT ![t] = k]
  /\ computed' = [computed EXCEPT ![t] = NoKey]
  /\ UNCHANGED <<cache, links, root, recent, clears>>

\* The link is taken out of the ring; then it is put in again before the root.
Unlinked(ls, l) ==
  LET p == ls[l].prev n == ls[l].next
      out == [ls EXCEPT ![p].next = n]
  IN [out EXCEPT ![n].prev = p]
LinkedLast(ls, l) ==
  LET last == ls[root].prev
      in == [[ls EXCEPT ![last].next = l] EXCEPT ![root].prev = l]
  IN [in EXCEPT ![l].prev = last, ![l].next = root]

\* The key is now the one used last.
UsedLast(s, k) ==
  LET at == CHOOSE i \in 1..Len(s) : s[i] = k
  IN [i \in 1..Len(s) |-> IF i < at THEN s[i] ELSE IF i < Len(s) THEN s[i + 1] ELSE k]

Hit(t) ==
  /\ wrapPc[t] = "get" /\ wanted[t] \in DOMAIN cache
  /\ LET l == cache[wanted[t]] IN
       /\ links' = LinkedLast(Unlinked(links, l), l)
       /\ computed' = [computed EXCEPT ![t] = links[l].result]
  /\ recent' = UsedLast(recent, wanted[t])
  /\ wrapPc' = [wrapPc EXCEPT ![t] = "idle"]
  /\ UNCHANGED <<cache, root, wanted, wrapped, clears>>
Missed(t) ==
  /\ wrapPc[t] = "get" /\ wanted[t] \notin DOMAIN cache
  /\ wrapPc' = [wrapPc EXCEPT ![t] = "call"]
  /\ UNCHANGED <<cache, links, root, wanted, computed, recent, wrapped, clears>>

\* user_function, which may raise.
Compute(t) ==
  /\ wrapPc[t] = "call"
  /\ \/ wrapPc' = [wrapPc EXCEPT ![t] = "insert"]
        /\ computed' = [computed EXCEPT ![t] = wanted[t]]
     \/ wrapPc' = [wrapPc EXCEPT ![t] = "idle"] /\ UNCHANGED computed
  /\ UNCHANGED <<cache, links, root, wanted, recent, wrapped, clears>>

\* The second look: another thread may have put the key in meanwhile.
PutThere(t) ==
  /\ wanted[t] \in DOMAIN cache /\ UNCHANGED <<cache, links, root, recent>>

Evict(t) ==
  /\ Cardinality(DOMAIN cache) >= maxsize
  /\ LET oldest == links[root].next
         oldkey == links[oldest].key
     IN /\ links' = [links EXCEPT ![root].key = wanted[t], ![root].result = computed[t],
                                  ![oldest].key = NoKey, ![oldest].result = NoKey]
        /\ root' = oldest
        /\ cache' = [k \in (DOMAIN cache \ {oldkey}) \union {wanted[t]} |->
                       IF k = wanted[t] THEN root ELSE cache[k]]
  /\ recent' = Append(Tail(recent), wanted[t])

Fresh == CHOOSE l \in Links : l # root /\ \A k \in DOMAIN cache : cache[k] # l
InsertNew(t) ==
  /\ Cardinality(DOMAIN cache) < maxsize
  /\ links' = LinkedLast([links EXCEPT ![Fresh].key = wanted[t], ![Fresh].result = computed[t]],
                         Fresh)
  /\ cache' = [k \in DOMAIN cache \union {wanted[t]} |->
                 IF k = wanted[t] THEN Fresh ELSE cache[k]]
  /\ recent' = Append(recent, wanted[t]) /\ UNCHANGED root

\* Mutant: no second look.
InsertAnyway(t) ==
  /\ wrapPc[t] = "insert" /\ wrapPc' = [wrapPc EXCEPT ![t] = "idle"]
  /\ Evict(t) \/ InsertNew(t)
  /\ UNCHANGED <<wanted, computed, wrapped, clears>>
Insert(t) ==
  /\ wrapPc[t] = "insert" /\ wrapPc' = [wrapPc EXCEPT ![t] = "idle"]
  /\ \/ PutThere(t)
     \/ wanted[t] \notin DOMAIN cache /\ (Evict(t) \/ InsertNew(t))
  /\ UNCHANGED <<wanted, computed, wrapped, clears>>

CacheClear ==
  /\ clears < MaxCleared /\ clears' = clears + 1
  /\ cache' = <<>> /\ links' = [links EXCEPT ![root] = EmptyRoot] /\ recent' = <<>>
  /\ UNCHANGED <<root, wrapPc, wanted, computed, wrapped>>

LruNext ==
  \/ CacheClear
  \/ \E t \in LruThreads :
       \/ Hit(t) \/ Missed(t) \/ Compute(t) \/ Insert(t)
       \/ \E k \in Keys : CallWrapper(t, k)

LruSpec == LruInit /\ [][LruNext]_lruVars

----------------------------------------------------------------------------
\* The ring is the cache in the order of last use, both ways round, whatever threads
\* missed the same key at once or cleared the cache while another computed; the cache
\* keeps to its size, and a key gets only its own result.
Forward ==
  LET at[n \in 0..Len(recent) + 1] == IF n = 0 THEN root ELSE links[at[n - 1]].next
  IN [i \in 1..Len(recent) + 1 |-> at[i]]
Backward ==
  LET at[n \in 0..Len(recent) + 1] == IF n = 0 THEN root ELSE links[at[n - 1]].prev
  IN [i \in 1..Len(recent) + 1 |-> at[i]]

RingTrue ==
  /\ Len(recent) = Cardinality(DOMAIN cache) /\ Len(recent) <= maxsize
  /\ Forward = Append([i \in 1..Len(recent) |-> cache[recent[i]]], root)
  /\ Backward = Append([i \in 1..Len(recent) |-> cache[Reverse(recent)[i]]], root)
  /\ \A k \in DOMAIN cache : links[cache[k]].key = k /\ links[cache[k]].result = k
  /\ \A t \in LruThreads : computed[t] \in {wanted[t], NoKey}
=============================================================================
