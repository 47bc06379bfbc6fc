-------------------------------- MODULE Nvml --------------------------------
(***************************************************************************)
(* lib/pynvml/pynvml.py: threads that initialise the library, use it and    *)
(* shut it down.  The module loads the shared library once, looks functions  *)
(* up once, counts the initialisations beside the library's own count, and   *)
(* asks for a list in two calls: one for its size, one to fill an array.     *)
(*                                                                         *)
(* A thread shuts down only what it has initialised.  The library itself is  *)
(* external: it counts, and answers only while its count is above zero.      *)
(***************************************************************************)
EXTENDS Integers, FiniteSets

CONSTANTS
  NvmlThreads,
  Askers,      \* those of them that ask for a list or a value
  Sizes,       \* the lengths the list may have
  MaxInits,    \* bound: calls of nvmlInit
  MaxAsks,     \* bound: lists asked for
  MaxResizes   \* bound: changes of the list

ASSUME NvmlAssumption ==
  /\ IsFiniteSet(NvmlThreads) /\ 0 \notin NvmlThreads
  /\ Askers \subseteq NvmlThreads /\ Sizes \subseteq Nat

VARIABLES
  library,     \* what there is: "good", "missing" or "old" (without the list's function)
  query,       \* which of the lists is asked for
  nvmlLib,     \* is it loaded?
  fnCache,     \* _nvmlGetFunctionPointer_cache
  libLoadLock, \* the thread in the read and write of the count, or 0
  refcount,    \* _nvmlLib_refcount
  inits,       \* the library's own count
  length,      \* of the list, in the driver
  doing,       \* thread -> the function it is in
  nvmlPc,      \* thread -> where
  register,    \* thread -> the count it has read
  own,         \* the initialisations still to be shut down: <<thread, number>>
  error,       \* thread -> the NVMLError its last function raised, or ""
  former,      \* thread -> the length of the list at its first call
  later,       \* thread -> and at its last
  answer,      \* thread -> [entries, blanks] of the list returned
  asks, begun, resizes    \* counters for the bounds

nvmlVars == <<library, query, nvmlLib, fnCache, libLoadLock, refcount, inits, length, doing,
              nvmlPc, register, own, error, former, later, answer, asks, begun, resizes>>

----------------------------------------------------------------------------
\* The lists.  goes: the answers to the first call with which the second is made; none:
\* what a SUCCESS is taken for otherwise, "empty" or an error; exact: the array has
\* just that many entries (or else twice as many and five); cut: what is returned has
\* as many entries as the second call says.
Clocks == [goes |-> {"INSUFFICIENT_SIZE"}, none |-> "empty", exact |-> TRUE, cut |-> TRUE]
Vgpus == Clocks
ActiveVgpus == Clocks
VgpuSamples == Clocks
RunningProcesses == [Clocks EXCEPT !.exact = FALSE]
RetiredPages ==
  [goes |-> {"SUCCESS", "INSUFFICIENT_SIZE"}, none |-> "go", exact |-> FALSE, cut |-> TRUE]
HicVersion ==
  [goes |-> {"SUCCESS", "INSUFFICIENT_SIZE"}, none |-> "empty", exact |-> TRUE, cut |-> FALSE]
UnitDevices == [HicVersion EXCEPT !.none = "go"]
Samples == [goes |-> {"SUCCESS"}, none |-> "go", exact |-> TRUE, cut |-> TRUE]
Sessions == [Samples EXCEPT !.none = "empty"]
ProcessUtilization == [Clocks EXCEPT !.none = "error"]
InstancePids == [ProcessUtilization EXCEPT !.cut = FALSE]

CodeReturned == {"virtualization mode", "encoder capacity"}

Queries == CodeReturned \union
  {"plain", "clocks", "vgpus", "active", "samples of vgpus", "processes", "pages", "hics",
   "units", "samples", "sessions", "utilization", "pids"}
ShapeOf(q) ==
  CASE q = "clocks" -> Clocks [] q = "vgpus" -> Vgpus [] q = "active" -> ActiveVgpus
    [] q = "samples of vgpus" -> VgpuSamples [] q = "processes" -> RunningProcesses
    [] q = "pages" -> RetiredPages [] q = "hics" -> HicVersion [] q = "units" -> UnitDevices
    [] q = "samples" -> Samples [] q = "sessions" -> Sessions
    [] q = "utilization" -> ProcessUtilization [] q = "pids" -> InstancePids
Shape == ShapeOf(query)
ArraySize(n) == IF Shape.exact THEN n ELSE 2 * n + 5

\* The library's first answer: samples and sessions have their size with SUCCESS.
SizeAnswer == IF length = 0 \/ query \in {"samples", "sessions"} THEN "SUCCESS"
              ELSE "INSUFFICIENT_SIZE"

----------------------------------------------------------------------------
NoAnswer == [entries |-> 0, blanks |-> 0]

NvmlInit ==
  /\ library \in {"good", "missing", "old"} /\ query \in Queries
  /\ nvmlLib = FALSE /\ fnCache = {} /\ libLoadLock = 0 /\ refcount = 0 /\ inits = 0
  /\ length \in Sizes
  /\ doing = [t \in NvmlThreads |-> "none"] /\ nvmlPc = [t \in NvmlThreads |-> "idle"]
  /\ register = [t \in NvmlThreads |-> 0] /\ own = {}
  /\ error = [t \in NvmlThreads |-> ""] /\ former = [t \in NvmlThreads |-> 0]
  /\ later = [t \in NvmlThreads |-> 0]
  /\ answer = [t \in NvmlThreads |-> NoAnswer]
  /\ asks = 0 /\ begun = 0 /\ resizes = 0

At(t, p) == nvmlPc[t] = p
Goes(t, p) == nvmlPc' = [nvmlPc EXCEPT ![t] = p]
NvmlRaises(t, e) == Goes(t, "idle") /\ error' = [error EXCEPT ![t] = e]
Driver == <<library, query, length, resizes>>
Counts == <<libLoadLock, refcount, register>>
Replies == <<former, later, answer>>
Asked == <<doing, own, asks, begun>>

Begin(t, f, p) ==
  /\ At(t, "idle") /\ Goes(t, p)
  /\ doing' = [doing EXCEPT ![t] = f] /\ error' = [error EXCEPT ![t] = ""]
  /\ former' = [former EXCEPT ![t] = 0] /\ later' = [later EXCEPT ![t] = 0]
  /\ answer' = [answer EXCEPT ![t] = NoAnswer]
  /\ UNCHANGED <<Driver, Counts, nvmlLib, fnCache, inits>>

CallInit(t) ==
  /\ begun < MaxInits /\ begun' = begun + 1
  /\ Begin(t, "init", "load") /\ UNCHANGED <<own, asks>>
CallShutdown(t) ==
  /\ \E o \in own : o[1] = t /\ own' = own \ {o}
  /\ Begin(t, "shutdown", "pointer")
  /\ UNCHANGED <<begun, asks>>
CallQuery(t) ==
  /\ t \in Askers /\ asks < MaxAsks /\ asks' = asks + 1 /\ Begin(t, "query", "pointer")
  /\ UNCHANGED <<begun, own>>

\* _LoadNvmlLibrary: a look without the lock, and another under it.
Load(t) ==
  /\ At(t, "load") /\ Goes(t, IF nvmlLib THEN "pointer" ELSE "loading")
  /\ UNCHANGED <<Driver, Counts, Replies, Asked, nvmlLib, fnCache, inits, error>>
LoadLocked(t) ==
  /\ At(t, "loading") /\ libLoadLock = 0
  /\ IF nvmlLib \/ library # "missing"
     THEN nvmlLib' = TRUE /\ Goes(t, "pointer") /\ UNCHANGED error
     ELSE NvmlRaises(t, "LIBRARY_NOT_FOUND") /\ UNCHANGED nvmlLib
  /\ UNCHANGED <<Driver, Counts, Replies, Asked, fnCache, inits>>

\* _nvmlGetFunctionPointer: likewise.
Pointer(t) ==
  /\ At(t, "pointer") /\ Goes(t, IF doing[t] \in fnCache THEN "call" ELSE "lookup")
  /\ UNCHANGED <<Driver, Counts, Replies, Asked, nvmlLib, fnCache, inits, error>>
LookUpPointer(t) ==
  /\ At(t, "lookup") /\ libLoadLock = 0
  /\ IF ~nvmlLib THEN NvmlRaises(t, "UNINITIALIZED") /\ UNCHANGED fnCache
     ELSE IF library = "old" /\ doing[t] = "query"
     THEN NvmlRaises(t, "FUNCTION_NOT_FOUND") /\ UNCHANGED fnCache
     ELSE fnCache' = fnCache \union {doing[t]} /\ Goes(t, "call") /\ UNCHANGED error
  /\ UNCHANGED <<Driver, Counts, Replies, Asked, nvmlLib, inits>>

\* The library initialises, or has no driver; it shuts down.
InitCall(t) ==
  /\ At(t, "call") /\ doing[t] = "init"
  /\ \/ inits' = inits + 1 /\ Goes(t, "count") /\ UNCHANGED error
     \/ inits = 0 /\ NvmlRaises(t, "DRIVER_NOT_LOADED") /\ UNCHANGED inits
  /\ UNCHANGED <<Driver, Counts, Replies, Asked, nvmlLib, fnCache>>
ShutdownCall(t) ==
  /\ At(t, "call") /\ doing[t] = "shutdown"
  /\ IF inits = 0 THEN NvmlRaises(t, "UNINITIALIZED") /\ UNCHANGED inits
     ELSE inits' = inits - 1 /\ Goes(t, "count") /\ UNCHANGED error
  /\ UNCHANGED <<Driver, Counts, Replies, Asked, nvmlLib, fnCache>>

\* Mutant: the count is read without the lock.
CountUnlocked(t) ==
  /\ At(t, "count") /\ Goes(t, "store") /\ register' = [register EXCEPT ![t] = refcount]
  /\ UNCHANGED <<Driver, Replies, nvmlLib, fnCache, libLoadLock, refcount, inits, doing, own,
                 error, asks, begun>>
\* "Atomically update refcount"
Count(t) ==
  /\ At(t, "count") /\ libLoadLock = 0 /\ libLoadLock' = t
  /\ Goes(t, "store") /\ register' = [register EXCEPT ![t] = refcount]
  /\ UNCHANGED <<Driver, Replies, Asked, nvmlLib, fnCache, refcount, inits, error>>
StoreCount(t) ==
  /\ At(t, "store") /\ Goes(t, "idle") /\ libLoadLock' = 0
  /\ IF doing[t] = "init"
     THEN refcount' = register[t] + 1 /\ own' = own \union {<<t, begun>>}
     ELSE refcount' = (IF 0 < register[t] THEN register[t] - 1 ELSE refcount) /\ UNCHANGED own
  /\ UNCHANGED <<Driver, Replies, nvmlLib, fnCache, inits, doing, register, error, asks, begun>>

\* One call: its error is raised, but for two setters, which return it.
PlainCall(t) ==
  /\ At(t, "call") /\ doing[t] = "query" /\ query \in {"plain"} \union CodeReturned
  /\ IF inits = 0 /\ query \notin CodeReturned THEN NvmlRaises(t, "UNINITIALIZED")
     ELSE Goes(t, "idle") /\ UNCHANGED error
  /\ UNCHANGED <<Driver, Counts, Replies, Asked, nvmlLib, fnCache, inits>>

\* The first call of two.
SizeCall(t) ==
  /\ At(t, "call") /\ doing[t] = "query" /\ query \notin {"plain"} \union CodeReturned
  /\ former' = [former EXCEPT ![t] = length] /\ later' = [later EXCEPT ![t] = length]
  /\ IF inits = 0 THEN NvmlRaises(t, "UNINITIALIZED")
     ELSE IF length = 0 /\ Shape.none = "empty" THEN Goes(t, "idle") /\ UNCHANGED error
     ELSE IF SizeAnswer \in Shape.goes \/ (SizeAnswer = "SUCCESS" /\ Shape.none = "go")
     THEN Goes(t, "fill") /\ UNCHANGED error
     ELSE NvmlRaises(t, SizeAnswer)
  /\ UNCHANGED <<Driver, Counts, Asked, answer, nvmlLib, fnCache, inits>>

\* Mutant: as many as the first call says.
TakenFirst(t) == IF Shape.cut THEN former[t] ELSE ArraySize(former[t])
\* How many entries of the array are returned.
Taken(t) == IF Shape.cut THEN length ELSE ArraySize(former[t])
ListReturned(t) ==
  IF Taken(t) <= length THEN [entries |-> Taken(t), blanks |-> 0]
  ELSE [entries |-> length, blanks |-> Taken(t) - length]

\* The second fills an array made for the length of then.
FillCall(t) ==
  /\ At(t, "fill") /\ later' = [later EXCEPT ![t] = length]
  /\ IF inits = 0 THEN NvmlRaises(t, "UNINITIALIZED") /\ UNCHANGED answer
     ELSE IF length > ArraySize(former[t])
     THEN NvmlRaises(t, "INSUFFICIENT_SIZE") /\ UNCHANGED answer
     ELSE /\ Goes(t, "idle") /\ UNCHANGED error
          /\ answer' = [answer EXCEPT ![t] = ListReturned(t)]
  /\ UNCHANGED <<Driver, Counts, Asked, former, nvmlLib, fnCache, inits>>

\* The list changes in the driver while somebody is between the two.
Resize ==
  /\ resizes < MaxResizes /\ resizes' = resizes + 1 /\ length' \in Sizes \ {length}
  /\ \E t \in NvmlThreads : At(t, "fill")
  /\ UNCHANGED <<library, query, Counts, Replies, nvmlLib, fnCache, inits, doing, nvmlPc, own,
                 error, asks, begun>>

NvmlNext ==
  \/ Resize
  \/ \E t \in NvmlThreads :
       \/ CallInit(t) \/ CallShutdown(t) \/ CallQuery(t)
       \/ Load(t) \/ LoadLocked(t) \/ Pointer(t) \/ LookUpPointer(t)
       \/ InitCall(t) \/ ShutdownCall(t) \/ Count(t) \/ StoreCount(t)
       \/ PlainCall(t) \/ SizeCall(t) \/ FillCall(t)

NvmlSpec == NvmlInit /\ [][NvmlNext]_nvmlVars

----------------------------------------------------------------------------
\* The module's count and the library's differ just by the threads that are between the
\* library's answer and their own counting; it never misses one, and a thread that has
\* initialised and not shut down is never told that the library is not initialised,
\* whatever the others initialise and shut down meanwhile.
Counting(f) == {t \in NvmlThreads : nvmlPc[t] \in {"count", "store"} /\ doing[t] = f}
Between(f) == Cardinality(Counting(f))

RefcountTrue ==
  /\ refcount + Between("init") = inits + Between("shutdown")
  /\ \A o \in own : error[o[1]] # "UNINITIALIZED"

\* Why: the parts that the two counts consist of.
Uncalled == {t \in NvmlThreads : nvmlPc[t] \in {"pointer", "lookup", "call"} /\ doing[t] = "shutdown"}

Errors == {"", "LIBRARY_NOT_FOUND", "FUNCTION_NOT_FOUND", "DRIVER_NOT_LOADED", "UNINITIALIZED",
           "INSUFFICIENT_SIZE", "SUCCESS"}
NvmlTypes ==
  /\ nvmlLib \in BOOLEAN /\ inits \in Nat /\ refcount \in Nat /\ begun \in Nat
  /\ doing \in [NvmlThreads -> {"none", "init", "shutdown", "query"}]
  /\ nvmlPc \in [NvmlThreads -> {"idle", "load", "loading", "pointer", "lookup", "call", "count",
                                 "store", "fill"}]
  /\ register \in [NvmlThreads -> Nat] /\ error \in [NvmlThreads -> Errors]
  /\ own \subseteq NvmlThreads \X Nat /\ IsFiniteSet(own)

\* Who stores holds the lock and has the count as it is; what a thread is in fits.
Places ==
  \A t \in NvmlThreads :
    /\ nvmlPc[t] = "store" => libLoadLock = t /\ register[t] = refcount
    /\ nvmlPc[t] # "idle" => error[t] = "" /\ doing[t] # "none"
    /\ nvmlPc[t] \in {"load", "loading"} => doing[t] = "init"
    /\ nvmlPc[t] \in {"count", "store"} => doing[t] \in {"init", "shutdown"}
    /\ nvmlPc[t] = "fill" => doing[t] = "query"

\* Once a thread has got past the load, there is a library.
Loaded ==
  nvmlLib \/ /\ own = {}
             /\ \A t \in NvmlThreads : doing[t] # "query" => nvmlPc[t] \in {"idle", "load", "loading"}

\* A thread that is initialising is at its latest, which it does not own yet.
Numbered ==
  \A o \in own : /\ o[2] <= begun /\ error[o[1]] # "UNINITIALIZED"
                 /\ doing[o[1]] = "init" /\ nvmlPc[o[1]] # "idle" => o[2] < begun

Sums ==
  /\ inits = Cardinality(own) + Cardinality(Counting("init")) + Cardinality(Uncalled)
  /\ refcount = Cardinality(own) + Cardinality(Uncalled) + Cardinality(Counting("shutdown"))

NvmlInv == NvmlTypes /\ Places /\ Loaded /\ Numbered /\ Sums

\* A list has all the entries there were at the library's last answer, however it changed
\* since the first, and asking for it fails only when it must: the functions that make
\* the array larger fail only if the list has more than doubled in between, the others
\* if it has grown.  What is not cut has blank entries if it has shrunk.  (Of an
\* empty list, two functions raise NVMLError(NVML_SUCCESS).)
ListsComplete ==
  \A t \in NvmlThreads : doing[t] = "query" /\ At(t, "idle") =>
    /\ error[t] = "" => answer[t].entries = later[t]
    /\ error[t] = "INSUFFICIENT_SIZE" =>
         later[t] > IF query \in {"processes", "pages"} THEN 2 * former[t] + 5 ELSE former[t]
    /\ error[t] = "SUCCESS" => former[t] = 0 /\ query \in {"utilization", "pids"}
    /\ answer[t].blanks > 0 => query \in {"hics", "units", "pids"} /\ former[t] > later[t]
=============================================================================
